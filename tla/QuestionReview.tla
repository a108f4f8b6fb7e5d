---------------------------- MODULE QuestionReview ----------------------------
(***************************************************************************)
(* How a question of Jules is answered: prepareQuestionReview,             *)
(* reconcileQuestionReview and finishQuestionAnswer of execute.ts, with    *)
(* common/src/jules-question-bootstrap.ts, question-answer-delivery.ts and *)
(* the relay of a person's answer.                                         *)
(*                                                                         *)
(* A question has a card on the issue, which anybody may answer, and for   *)
(* each generation a child issue: Jules' own run bootstraps the reviewer's *)
(* card there, the reviewer answers it or escalates, and the heartbeat of  *)
(* the issue copies the answer to the parent card and sends it to Jules.   *)
(* An escalated question gets a form that only a person may answer.        *)
(*                                                                         *)
(* Only the child-scoped protocol is modelled; terminal sessions and the   *)
(* plan review that a question may preempt are in other modules.           *)
(***************************************************************************)
EXTENDS Naturals, FiniteSets

CONSTANTS
  MaxQuestions,    \* bound on the questions Jules asks
  Recoveries,      \* failed reviewers that are replaced, in one session
  MaxFaults,       \* bound on the failures of a behaviour
  Faults           \* the kinds of failures that may happen

FaultKinds == {"crash", "lost", "response", "rejected", "run", "silent", "newer", "card_read"}

ASSUME BoundsAssumption ==
  /\ MaxQuestions \in Nat /\ Recoveries \in Nat /\ MaxFaults \in Nat
  /\ Faults \subseteq FaultKinds

VARIABLES
  jules,       \* the questions asked so far, and whether Jules waits for an answer
  landed,      \* how often each answer reached Jules; 2 stands for more
  echoed,      \* the questions whose answer Jules shows as a message of the user
  parent,      \* the card of each question on the issue
  form,        \* the form of each question for a person
  child,       \* the reviewer's issue, for each question and generation
  env, disk, mem,  \* the session: replayed envelope, recovery record, this run's copy
  pc,          \* the step of the run in progress, "idle" between runs
  text,        \* the answer this run is about to send
  faults

vars == <<jules, landed, echoed, parent, form, child, env, disk, mem, pc, text, faults>>
world == <<jules, landed, echoed, parent, form, child>>

-----------------------------------------------------------------------------
Questions == 1 .. MaxQuestions
NoQuestion == 0

(* A reviewer is replaced after a failure of its run, which is a fault: no *)
(* behaviour gets further than this generation.  The budget alone is no    *)
(* bound, for a replayed envelope brings an older count of replacements.   *)
Generations == 0 .. MaxFaults

(* An answer is known by its question and by who gave it; "form" is an     *)
(* answer that is relayed as the reply of a person to a form.              *)
Texts == [of : Questions, by : {"reviewer", "person", "form"}]
NoText == [of |-> NoQuestion, by |-> "none"]

Attempts == {"absent", "started", "confirmed"}
Pending == {"none", "adjudication", "user_feedback"}
Records == [pending : Pending, question : Questions \cup {NoQuestion}, generation : Generations,
            delivered : Questions \cup {NoQuestion}, unresolved : Questions \cup {NoQuestion},
            journal : [Questions -> Attempts], intent : Texts \cup {NoText}, recoveries : 0 .. Recoveries]
NewRecord == [pending |-> "none", question |-> NoQuestion, generation |-> 0, delivered |-> NoQuestion,
              unresolved |-> NoQuestion, journal |-> [q \in Questions |-> "absent"], intent |-> NoText,
              recoveries |-> 0]

(* owner: who is assigned; work: its latest run; card: the reviewer's form *)
Children == [owner : {"nobody", "jules", "reviewer"}, work : {"none", "live", "succeeded", "failed"},
             card : {"none", "pending", "answer", "escalate", "withdrawn"}]
NoChild == [owner |-> "nobody", work |-> "none", card |-> "none"]

Steps == {"idle", "relay", "feedback", "poll", "reconcile", "prepare", "observe", "form", "deliver", "send", "finish", "return"}

(* Earlier questions of the session may have used up its replacements. *)
Init ==
  /\ jules = [asked |-> 0, waiting |-> FALSE]
  /\ landed = [t \in Texts |-> 0] /\ echoed = {}
  /\ parent = [q \in Questions |-> "absent"] /\ form = [q \in Questions |-> "absent"]
  /\ child = [q \in Questions |-> [g \in Generations |-> NoChild]]
  /\ \E used \in 0 .. Recoveries : env = [NewRecord EXCEPT !.recoveries = used]
  /\ disk = env /\ mem = NewRecord
  /\ pc = "idle" /\ text = NoText /\ faults = 0

Fault(k) == k \in Faults /\ faults < MaxFaults /\ faults' = faults + 1
NoFault == UNCHANGED faults
Goto(step) == pc' = step

(* The run keeps r in memory and writes the recovery record. *)
Save(r) == mem' = r /\ disk' = r

(* An error ends the run: the envelope is what the run had in memory, and  *)
(* a transient one is saved as well.                                       *)
Fail ==
  /\ env' = mem /\ disk' \in {disk, mem}
  /\ mem' = NewRecord /\ text' = NoText /\ Goto("idle")

(* A call that may fail: it takes effect, or is lost, or only its answer   *)
(* is lost.                                                                *)
Called == NoFault
CallLost == Fault("lost") /\ Fail /\ UNCHANGED world
AnswerLost == Fault("response") /\ Fail

-----------------------------------------------------------------------------
(* mergeDurableSessionCheckpoints, on the fields of a question; the intent *)
(* and the budget of recoveries are those of the envelope.                 *)
MergeAttempts(a, b) == IF "confirmed" \in {a, b} THEN "confirmed" ELSE IF "started" \in {a, b} THEN "started" ELSE "absent"
Merge(r, stored) ==
  LET own == r.pending # "none" IN
  [r EXCEPT !.pending = IF own THEN @ ELSE stored.pending,
            !.question = IF own THEN @ ELSE stored.question,
            !.generation = IF own THEN @ ELSE stored.generation,
            !.delivered = IF @ # NoQuestion THEN @ ELSE stored.delivered,
            !.unresolved = IF @ # NoQuestion THEN @ ELSE stored.unresolved,
            !.journal = [q \in Questions |-> MergeAttempts(@[q], stored.journal[q])]]

Start ==
  /\ pc = "idle"
  /\ mem' = Merge(env, disk)
  /\ Goto(IF mem'.pending = "user_feedback" THEN "relay" ELSE "poll")
  /\ UNCHANGED <<world, env, disk, text, faults>>

-----------------------------------------------------------------------------
(* The form of an escalated question, at the start of a run.               *)
FormPending ==
  /\ pc = "relay" /\ form[mem.question] = "pending"
  /\ Goto("poll")
  /\ UNCHANGED <<world, env, disk, mem, text, faults>>

FormAnswered ==
  /\ pc = "relay" /\ form[mem.question] = "answered"
  /\ text' = [of |-> mem.question, by |-> "form"]
  /\ Goto("feedback")
  /\ UNCHANGED <<world, env, disk, mem, faults>>

(* The read of the form fails: the first answered question card of the     *)
(* issue, whatever its question, is taken for it.                          *)
AnsweredCards == {q \in Questions : form[q] = "answered" \/ parent[q] \in {"reviewer", "person"}}
FormUnread ==
  /\ pc = "relay" /\ Fault("card_read")
  /\ IF AnsweredCards = {} THEN Goto("poll") /\ UNCHANGED text
     ELSE /\ \E q \in AnsweredCards : text' = [of |-> q, by |-> "form"]
          /\ Goto("feedback")
  /\ UNCHANGED <<world, env, disk, mem>>

Land(t) == landed' = [landed EXCEPT ![t] = IF @ = 2 THEN 2 ELSE @ + 1]

(* A person's answer goes out without a journal entry, and neither         *)
(* deliveredFeedbackActivityId nor unresolvedProviderQuestionActivityId    *)
(* is touched.                                                             *)
SendFeedback ==
  /\ pc = "feedback"
  /\ \/ /\ Called /\ Land(text) /\ text' = NoText
        /\ Save([mem EXCEPT !.pending = "none"]) /\ Goto("return")
        /\ UNCHANGED env
     \/ AnswerLost /\ Land(text)
  /\ UNCHANGED <<jules, echoed, parent, form, child>>

FeedbackLost == pc = "feedback" /\ CallLost

-----------------------------------------------------------------------------
(* The poll: latestProviderQuestion and unresolvedProviderQuestionActivityId *)
Latest == jules.asked
Unresolved ==
  /\ Latest # NoQuestion /\ mem.delivered # Latest
  /\ jules.waiting \/ mem.unresolved = Latest \/ (mem.pending = "adjudication" /\ mem.question = Latest)

Poll ==
  /\ pc = "poll"
  /\ mem' = IF Unresolved THEN [mem EXCEPT !.unresolved = Latest] ELSE mem
  /\ Goto(CASE mem.pending = "adjudication"               -> "reconcile"
            [] mem.pending = "none" /\ Unresolved          -> "prepare"
            [] mem.pending = "user_feedback" /\ Unresolved -> "form"
            [] OTHER                                       -> "return")
  /\ UNCHANGED <<world, env, disk, text, faults>>

(* The same form, read again by evaluateInteractionAction: RELAY_FEEDBACK, *)
(* which does record the delivery, or WAIT_FOR_HUMAN.                      *)
WaitForHuman ==
  /\ pc = "form" /\ form[mem.question] = "pending"
  /\ Goto("return")
  /\ UNCHANGED <<world, env, disk, mem, text, faults>>

RelayFeedback ==
  /\ pc = "form" /\ form[mem.question] = "answered"
  /\ \/ /\ Called /\ Land([of |-> mem.question, by |-> "form"])
        /\ mem' = [mem EXCEPT !.pending = "none", !.delivered = mem.question]
        /\ Goto("return")
        /\ UNCHANGED <<env, disk, text>>
     \/ AnswerLost /\ Land([of |-> mem.question, by |-> "form"])
  /\ UNCHANGED <<jules, echoed, parent, form, child>>

RelayLost == pc = "form" /\ form[mem.question] = "answered" /\ CallLost

-----------------------------------------------------------------------------
(* prepareQuestionReview: the card of the question (idempotent by its      *)
(* key), the pointer to it, and a look at the child.                       *)
Adjudicate(q, g) == [mem EXCEPT !.pending = "adjudication", !.question = q, !.generation = g]

PostQuestionCard(q) == parent' = [parent EXCEPT ![q] = IF @ = "absent" THEN "pending" ELSE @]

PrepareQuestionReview ==
  /\ pc = "prepare"
  /\ PostQuestionCard(mem.unresolved)
  /\ \/ Called /\ Save(Adjudicate(mem.unresolved, 0)) /\ Goto("observe") /\ UNCHANGED <<env, text>>
     \/ AnswerLost
  /\ UNCHANGED <<jules, landed, echoed, form, child>>

PrepareLost == pc = "prepare" /\ CallLost

(* reconcileQuestionReview: the parent card is read first.                 *)
ParentAnswered ==
  /\ pc = "reconcile" /\ parent[mem.question] \in {"reviewer", "person"}
  /\ text' = [of |-> mem.question, by |-> parent[mem.question]]
  /\ Goto("deliver")
  /\ UNCHANGED <<world, env, disk, mem, faults>>

ParentNotAnswered ==
  /\ pc = "reconcile" /\ parent[mem.question] \notin {"reviewer", "person"}
  /\ Goto("observe")
  /\ UNCHANGED <<world, env, disk, mem, text, faults>>

-----------------------------------------------------------------------------
(* observeQuestionChild: the one place where children are made, activated  *)
(* and judged.                                                             *)
Observed == child[mem.question][mem.generation]

(* The latest run failed, or the reviewer ended without a typed decision.  *)
Failed(c) ==
  \/ c.work = "failed"
  \/ c.card = "pending" /\ c.owner = "reviewer" /\ c.work = "succeeded"

(* Mutant: a reviewer that has not answered its card has failed. *)
ObservationImpatient(c) ==
  IF c.owner = "reviewer" /\ c.card = "pending" THEN "failed"
  ELSE IF c.owner = "nobody" THEN "absent"
  ELSE IF c.work = "live" THEN "waiting"
  ELSE IF c.card \in {"answer", "escalate"} THEN c.card
  ELSE IF c.work = "failed" THEN "failed" ELSE "activate"

Observation(c) ==
  IF c.owner = "nobody" THEN "absent"
  ELSE IF c.work = "live" THEN "waiting"
  ELSE IF c.card \in {"answer", "escalate"}
       THEN IF c.work = "succeeded" THEN c.card ELSE "unattributed"
  ELSE IF Failed(c) THEN "failed"
  ELSE IF c.owner = "jules" THEN "activate" ELSE "waiting"

(* withdrawPaperclipInteraction: a card that is no longer pending stays.   *)
Withdrawn(card) == IF card = "pending" THEN "withdrawn" ELSE card

SetChild(c) == child' = [child EXCEPT ![mem.question][mem.generation] = c]

(* POST children: the child is parked in Jules' own backlog. *)
CreateChild ==
  /\ pc = "observe" /\ Observation(Observed) = "absent"
  /\ SetChild([owner |-> "jules", work |-> "none", card |-> "none"])
  /\ \/ Called /\ Goto("return") /\ UNCHANGED <<env, disk, mem, text>>
     \/ AnswerLost
  /\ UNCHANGED <<jules, landed, echoed, parent, form>>

(* PATCH: without a card Jules' run is started, with one the reviewer's.   *)
ActivateChild ==
  /\ pc = "observe" /\ Observation(Observed) = "activate"
  /\ SetChild([Observed EXCEPT !.work = "live", !.owner = IF Observed.card = "none" THEN "jules" ELSE "reviewer"])
  /\ \/ Called /\ Goto("return") /\ UNCHANGED <<env, disk, mem, text>>
     \/ AnswerLost
  /\ UNCHANGED <<jules, landed, echoed, parent, form>>

AwaitReviewer ==
  /\ pc = "observe" /\ Observation(Observed) = "waiting"
  /\ Goto("return")
  /\ UNCHANGED <<world, env, disk, mem, text, faults>>

(* A call of observeQuestionChild is lost, or one of its checks throws: an *)
(* answer whose run did not succeed, and a failure beyond the budget.      *)
ObserveFails ==
  /\ pc = "observe"
  /\ \/ CallLost
     \/ Observation(Observed) = "unattributed" /\ NoFault /\ Fail /\ UNCHANGED world
     \/ Observation(Observed) = "failed" /\ mem.recoveries >= Recoveries /\ NoFault /\ Fail /\ UNCHANGED world

(* A failed reviewer: its card is withdrawn, and the next generation gets  *)
(* the same parent card.                                                   *)
ReplaceReviewer ==
  /\ pc = "observe" /\ Observation(Observed) = "failed" /\ mem.recoveries < Recoveries
  /\ SetChild([Observed EXCEPT !.card = Withdrawn(@)])
  /\ \/ /\ Called
        /\ Save([Adjudicate(mem.question, mem.generation + 1) EXCEPT !.recoveries = @ + 1])
        /\ UNCHANGED <<pc, env, text>>
     \/ AnswerLost
  /\ UNCHANGED <<jules, landed, echoed, parent, form>>

(* Mutant: the answer of the child is sent without the parent card. *)
CopyAnswerUnchecked ==
  /\ pc = "observe" /\ Observation(Observed) = "answer"
  /\ text' = [of |-> mem.question, by |-> "reviewer"] /\ Goto("deliver")
  /\ NoFault /\ UNCHANGED <<world, env, disk, mem>>

(* The reviewer's answer is copied to the parent card, which refuses it if *)
(* somebody else has answered.                                             *)
CopyAnswer ==
  /\ pc = "observe" /\ Observation(Observed) = "answer"
  /\ IF parent[mem.question] = "pending"
     THEN /\ parent' = [parent EXCEPT ![mem.question] = "reviewer"]
          /\ \/ /\ Called /\ text' = [of |-> mem.question, by |-> "reviewer"] /\ Goto("deliver")
                /\ UNCHANGED <<env, disk, mem>>
             \/ AnswerLost
     ELSE NoFault /\ Fail /\ UNCHANGED parent
  /\ UNCHANGED <<jules, landed, echoed, form, child>>

(* An escalation: the parent card is withdrawn, and a form is opened.      *)
PostForm(q) == form' = [form EXCEPT ![q] = IF @ = "absent" THEN "pending" ELSE @]
Escalate ==
  /\ pc = "observe" /\ Observation(Observed) = "escalate"
  /\ parent' = [parent EXCEPT ![mem.question] = Withdrawn(@)]
  /\ PostForm(mem.question)
  /\ \/ Called /\ Save([mem EXCEPT !.pending = "user_feedback"]) /\ Goto("return") /\ UNCHANGED <<env, text>>
     \/ AnswerLost
  /\ UNCHANGED <<jules, landed, echoed, child>>

-----------------------------------------------------------------------------
(* deliverQuestionAnswer.  A started attempt is only looked for among the  *)
(* messages Jules shows; it is never sent again.  An intent for another    *)
(* answer throws in every run: the heartbeat stops here for good.          *)
Question == text.of
Delivered == mem.delivered = Question \/ mem.journal[Question] = "confirmed"

Undelivered == pc = "deliver" /\ ~Delivered /\ mem.intent \in {NoText, text}

AlreadyDelivered ==
  /\ pc = "deliver" /\ Delivered
  /\ Goto("finish")
  /\ UNCHANGED <<world, env, disk, mem, text, faults>>

Confirm(r) == [r EXCEPT !.journal[Question] = "confirmed"]

AnswerEchoed ==
  /\ Undelivered
  /\ mem.journal[Question] = "started" /\ text \in echoed
  /\ Save(Confirm(mem)) /\ Goto("finish")
  /\ UNCHANGED <<world, env, text, faults>>

AwaitObservation ==
  /\ Undelivered
  /\ mem.journal[Question] = "started" /\ text \notin echoed
  /\ text' = NoText /\ Goto("return")
  /\ UNCHANGED <<world, env, disk, mem, faults>>

(* Mutant: the entry is not saved before the message goes out. *)
PrepareAnswerInMemory ==
  /\ Undelivered
  /\ mem.journal[Question] = "absent"
  /\ mem' = [mem EXCEPT !.intent = text, !.journal[Question] = "started"]
  /\ Goto("send")
  /\ UNCHANGED <<world, env, disk, text, faults>>

PrepareAnswer ==
  /\ Undelivered
  /\ mem.journal[Question] = "absent"
  /\ Save([mem EXCEPT !.intent = text, !.journal[Question] = "started"])
  /\ Goto("send")
  /\ UNCHANGED <<world, env, text, faults>>

SendAnswer ==
  /\ pc = "send"
  /\ \/ Called /\ Land(text) /\ Save(Confirm(mem)) /\ Goto("finish") /\ UNCHANGED text
     \/ Fault("response") /\ Land(text) /\ text' = NoText /\ Goto("return") /\ UNCHANGED <<disk, mem>>
     \/ Fault("lost") /\ text' = NoText /\ Goto("return") /\ UNCHANGED <<landed, disk, mem>>
     \/ /\ Fault("crash") /\ Land(text)
        /\ mem' = NewRecord /\ text' = NoText /\ Goto("idle") /\ UNCHANGED disk
  /\ UNCHANGED <<jules, echoed, parent, form, child, env>>

(* Jules refuses the message for good (a 4xx): the run fails. *)
AnswerRejected ==
  /\ pc = "send" /\ Fault("rejected")
  /\ Fail
  /\ UNCHANGED world

(* Mutant: the question stays pending. *)
FinishAnswerStaysPending ==
  /\ pc = "finish"
  /\ Save([mem EXCEPT !.delivered = Question, !.intent = NoText, !.unresolved = NoQuestion])
  /\ text' = NoText /\ Goto("return")
  /\ UNCHANGED <<world, env, faults>>

(* finishQuestionAnswer *)
FinishAnswer ==
  /\ pc = "finish"
  /\ Save([mem EXCEPT !.delivered = Question, !.pending = "none", !.intent = NoText, !.unresolved = NoQuestion])
  /\ text' = NoText /\ Goto("return")
  /\ UNCHANGED <<world, env, faults>>

(* yieldHeartbeat *)
Return ==
  /\ pc = "return"
  /\ env' = mem /\ disk' = mem /\ mem' = NewRecord /\ Goto("idle")
  /\ UNCHANGED <<world, text, faults>>

Crash ==
  /\ pc # "idle" /\ Fault("crash")
  /\ mem' = NewRecord /\ text' = NoText /\ Goto("idle")
  /\ UNCHANGED <<world, env, disk>>

Heartbeat ==
  \/ Start \/ FormPending \/ FormAnswered \/ SendFeedback \/ Poll \/ WaitForHuman \/ RelayFeedback
  \/ PrepareQuestionReview \/ ParentAnswered \/ ParentNotAnswered
  \/ CreateChild \/ ActivateChild \/ AwaitReviewer \/ ObserveFails \/ ReplaceReviewer \/ CopyAnswer \/ Escalate
  \/ AlreadyDelivered \/ AnswerEchoed \/ AwaitObservation \/ PrepareAnswer \/ SendAnswer
  \/ FinishAnswer \/ Return

-----------------------------------------------------------------------------
(* Jules asks when it is at work; it may also ask again while it waits.    *)
Ask ==
  /\ jules.asked < MaxQuestions
  /\ \/ ~jules.waiting /\ NoFault
     \/ jules.waiting /\ Fault("newer")
  /\ jules' = [asked |-> jules.asked + 1, waiting |-> TRUE]
  /\ UNCHANGED <<landed, echoed, parent, form, child, env, disk, mem, pc, text>>

Answers(q) == {t \in Texts : t.of = q /\ landed[t] > 0}

(* Any message sets a waiting Jules to work. *)
Resume ==
  /\ jules.waiting /\ Answers(jules.asked) # {}
  /\ jules' = [jules EXCEPT !.waiting = FALSE]
  /\ UNCHANGED <<landed, echoed, parent, form, child, env, disk, mem, pc, text, faults>>

Echo ==
  /\ \E t \in Texts : landed[t] > 0 /\ t.by # "form" /\ t \notin echoed /\ echoed' = echoed \cup {t}
  /\ UNCHANGED <<jules, landed, parent, form, child, env, disk, mem, pc, text, faults>>

(* The runs on a child. *)
Update(q, g, c) ==
  /\ child' = [child EXCEPT ![q][g] = c]
  /\ UNCHANGED <<jules, landed, echoed, parent, form, env, disk, mem, pc, text>>

(* bootstrapQuestionChild, in Jules' own run, makes the reviewer's card. *)
BootstrapCard(q, g) ==
  LET c == child[q][g] IN
  /\ c.owner = "jules" /\ c.work = "live" /\ c.card = "none"
  /\ Update(q, g, [c EXCEPT !.card = "pending"]) /\ NoFault

ReviewerDecides(q, g) ==
  LET c == child[q][g] IN
  /\ c.owner = "reviewer" /\ c.work = "live" /\ c.card = "pending"
  /\ \E decision \in {"answer", "escalate"} : Update(q, g, [c EXCEPT !.card = decision])
  /\ NoFault

RunSucceeds(q, g) ==
  LET c == child[q][g]
      done == IF c.owner = "jules" THEN c.card # "none" ELSE c.card # "pending"
  IN /\ c.work = "live"
     /\ \/ done /\ NoFault
        \/ ~done /\ c.owner = "reviewer" /\ Fault("silent")
     /\ Update(q, g, [c EXCEPT !.work = "succeeded"])

RunFails(q, g) ==
  /\ child[q][g].work = "live" /\ Fault("run")
  /\ Update(q, g, [child[q][g] EXCEPT !.work = "failed"])

PersonAnswersCard(q) ==
  /\ parent[q] = "pending"
  /\ parent' = [parent EXCEPT ![q] = "person"]
  /\ UNCHANGED <<jules, landed, echoed, form, child, env, disk, mem, pc, text, faults>>

PersonAnswersForm(q) ==
  /\ form[q] = "pending"
  /\ form' = [form EXCEPT ![q] = "answered"]
  /\ UNCHANGED <<jules, landed, echoed, parent, child, env, disk, mem, pc, text, faults>>

ReviewerWork(q, g) == BootstrapCard(q, g) \/ ReviewerDecides(q, g) \/ RunSucceeds(q, g)

Next ==
  \/ Heartbeat
  \/ FeedbackLost \/ RelayLost \/ PrepareLost \/ FormUnread \/ AnswerRejected \/ Crash
  \/ Ask \/ Resume \/ Echo
  \/ \E q \in Questions : PersonAnswersCard(q) \/ PersonAnswersForm(q)
  \/ \E q \in Questions, g \in Generations : ReviewerWork(q, g) \/ RunFails(q, g)

Spec == Init /\ [][Next]_vars

(* Paperclip goes on waking the issue and the runs it owes to children; a  *)
(* person answers a form that is addressed to no agent; Jules shows its    *)
(* messages.  Nobody has to answer the card the reviewer works on.         *)
FairSpec ==
  /\ Spec /\ WF_vars(Heartbeat) /\ WF_vars(Echo) /\ WF_vars(Resume)
  /\ \A q \in Questions : WF_vars(PersonAnswersForm(q))
  /\ \A q \in Questions, g \in Generations : WF_vars(ReviewerWork(q, g))

-----------------------------------------------------------------------------
(* The variables keep their types. *)
TypeOK ==
  /\ jules \in [asked : 0 .. MaxQuestions, waiting : BOOLEAN]
  /\ landed \in [Texts -> 0 .. 2] /\ echoed \subseteq Texts
  /\ parent \in [Questions -> {"absent", "pending", "reviewer", "person", "withdrawn"}]
  /\ form \in [Questions -> {"absent", "pending", "answered"}]
  /\ child \in [Questions -> [Generations -> Children]]
  /\ env \in Records /\ disk \in Records /\ mem \in Records
  /\ pc \in Steps /\ text \in Texts \cup {NoText} /\ faults \in 0 .. MaxFaults

Decisions(q) == landed[[of |-> q, by |-> "reviewer"]] + landed[[of |-> q, by |-> "person"]]

(* A decided question is answered once: whatever crashes, lost answers and *)
(* stale envelopes intervene, at most one message with a decision of its   *)
(* card reaches Jules (deliverQuestionAnswer).  Messages that relay a form *)
(* are not journaled and are not covered.                                  *)
AnswerSentOnce == \A q \in Questions : Decisions(q) <= 1

(* What Jules is told is what the card on the issue records, also when a   *)
(* person and the reviewer answer at the same time.                        *)
JulesHearsTheCard ==
  \A q \in Questions, who \in {"reviewer", "person"} :
     landed[[of |-> q, by |-> who]] > 0 => parent[q] = who

(* At most one run works on a question: a reviewer is replaced, and a      *)
(* generation begun, only after the earlier one is over.                   *)
OneReviewerAtWork ==
  \A q \in Questions : Cardinality({g \in Generations : child[q][g].work = "live"}) <= 1

(* Where the code waits for ever with the question of the record: a        *)
(* started message that Jules never got, an answer without a successful    *)
(* run, a failure when the session has used up its replacements, and a     *)
(* silent reviewer whose card was withdrawn by a run that ended before it  *)
(* recorded the next generation.                                           *)
Stuck ==
  /\ disk.pending = "adjudication"
  /\ LET q == disk.question
         c == child[q][disk.generation]
     IN  \/ disk.journal[q] = "started" /\ Decisions(q) = 0
         \/ Observation(c) = "unattributed"
         \/ Observation(c) = "failed" /\ disk.recoveries = Recoveries
         \/ c.card = "withdrawn" /\ c.work = "succeeded"

(* A question Jules waits on is answered, or given up for a newer one, or  *)
(* the session is held up for good, by it or by the earlier question it is *)
(* still at, for want of evidence that the code does not do without.       *)
QuestionIsSettled ==
  \A q \in Questions : (jules.asked = q /\ jules.waiting) ~> (Answers(q) # {} \/ jules.asked > q \/ []Stuck)
=============================================================================
