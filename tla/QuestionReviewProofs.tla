------------------------ MODULE QuestionReviewProofs ------------------------
(***************************************************************************)
(* Proofs about QuestionReview: the types, that a decided question is      *)
(* answered once, that Jules is told what the card records, and that one   *)
(* run at a time works on a question; for every number of questions,       *)
(* replacements and faults.                                                *)
(***************************************************************************)
EXTENDS QuestionReview, FiniteSetTheorems, TLAPS

-----------------------------------------------------------------------------
(* A child whose generation is over: its run failed, or its reviewer ended *)
(* without a decision.  Nothing sets it to work again.                     *)
Over(c) ==
  /\ c.card \notin {"answer", "escalate"}
  /\ c.work = "failed" \/ (c.owner = "reviewer" /\ c.work = "succeeded")

Sane(c) ==
  /\ c.owner = "nobody" => c.work = "none"
  /\ c.card = "withdrawn" => Over(c)
  /\ c.owner = "reviewer" => c.card # "none"

Before(children, q, g) == \A h \in Generations : h < g => Over(children[q][h])

(* A generation is begun when all earlier ones are over, and each of these *)
(* has cost a fault.                                                       *)
Ordered(children, n, q, g) ==
  /\ Sane(children[q][g])
  /\ children[q][g].owner # "nobody" => Before(children, q, g)
  /\ Over(children[q][g]) => g < n
Succession == \A q \in Questions, g \in Generations : Ordered(child, faults, q, g)

(* Every copy of the record that names a question names a generation whose *)
(* predecessors are over, however old the copy is.                         *)
Follows(r, children) == r.pending # "none" => r.question \in Questions /\ Before(children, r.question, r.generation)
Pointers == Follows(env, child) /\ Follows(disk, child) /\ Follows(mem, child)

(* What a run has established when it stands at a step: the answer it is   *)
(* about to send is the one of the card.                                   *)
Place ==
  /\ pc \in {"relay", "form"} => mem.pending = "user_feedback"
  /\ pc \in {"reconcile", "observe"} => mem.pending = "adjudication"
  /\ pc = "prepare" => mem.unresolved \in Questions
  /\ pc = "feedback" => text \in Texts /\ text.by = "form"
  /\ pc \in {"deliver", "send", "finish"} =>
       text \in Texts /\ text.by \in {"reviewer", "person"} /\ parent[text.of] = text.by

(* A message with a decision has an entry in the recovery record, and a    *)
(* run knows every entry of that record: the envelope need not.            *)
Journaled(r) == {q \in Questions : r.journal[q] # "absent"}
Sent(heard) == {q \in Questions : heard[[of |-> q, by |-> "reviewer"]] + heard[[of |-> q, by |-> "person"]] > 0}
Journals ==
  /\ pc # "idle" => Journaled(disk) \subseteq Journaled(mem)
  /\ Sent(landed) \subseteq Journaled(disk)
  /\ pc = "send" => text.of \in Journaled(disk) \ Sent(landed)

QuestionInv == TypeOK /\ Succession /\ Pointers /\ Place /\ Journals /\ AnswerSentOnce /\ JulesHearsTheCard

-----------------------------------------------------------------------------
(* The steps of a run that fail, and what the record holds after an update. *)
LEMMA FaultCounts ==
  ASSUME TypeOK, NEW k, Fault(k)
  PROVE  faults' \in 0 .. MaxFaults /\ faults' = faults + 1
  BY BoundsAssumption DEF TypeOK, Fault

LEMMA NoRecord == NewRecord \in Records /\ NoText \in Texts \cup {NoText}
  BY BoundsAssumption DEF NewRecord, Records, Pending, Attempts, Generations, NoText, NoQuestion

LEMMA FailShape ==
  ASSUME TypeOK, Fail
  PROVE  /\ env' = mem /\ disk' \in {disk, mem} /\ mem' = NewRecord /\ text' = NoText /\ pc' = "idle"
         /\ env' \in Records /\ disk' \in Records /\ mem' \in Records
         /\ text' \in Texts \cup {NoText} /\ pc' \in Steps
  BY NoRecord DEF TypeOK, Fail, Goto, Steps

LEMMA JournalUpdate ==
  ASSUME NEW r \in Records, NEW q \in Questions, NEW a \in Attempts, NEW i \in Texts \cup {NoText}
  PROVE  /\ [r EXCEPT !.journal[q] = a] \in Records
         /\ [r EXCEPT !.journal[q] = a].journal = [r.journal EXCEPT ![q] = a]
         /\ [r EXCEPT !.intent = i, !.journal[q] = a] \in Records
         /\ [r EXCEPT !.intent = i, !.journal[q] = a].journal = [r.journal EXCEPT ![q] = a]
  BY DEF Records

LEMMA MergeType ==
  ASSUME NEW r \in Records, NEW s \in Records
  PROVE  /\ Merge(r, s) \in Records
         /\ r.pending # "none" =>
              /\ Merge(r, s).pending = r.pending /\ Merge(r, s).question = r.question
              /\ Merge(r, s).generation = r.generation
         /\ r.pending = "none" =>
              /\ Merge(r, s).pending = s.pending /\ Merge(r, s).question = s.question
              /\ Merge(r, s).generation = s.generation
         /\ Journaled(s) \subseteq Journaled(Merge(r, s))
<1> DEFINE j == [q \in Questions |-> MergeAttempts(r.journal[q], s.journal[q])]
<1>1. /\ j \in [Questions -> Attempts]
      /\ \A q \in Questions : s.journal[q] # "absent" => j[q] # "absent"
  BY DEF MergeAttempts, Attempts, Records
<1>2. Merge(r, s) =
        [r EXCEPT !.pending = IF r.pending # "none" THEN @ ELSE s.pending,
                  !.question = IF r.pending # "none" THEN @ ELSE s.question,
                  !.generation = IF r.pending # "none" THEN @ ELSE s.generation,
                  !.delivered = IF @ # NoQuestion THEN @ ELSE s.delivered,
                  !.unresolved = IF @ # NoQuestion THEN @ ELSE s.unresolved,
                  !.journal = j]
  BY DEF Merge, Records
<1> HIDE DEF j
<1>3. Merge(r, s) \in Records /\ Merge(r, s).journal = j
  BY <1>1, <1>2 DEF Records
<1>4. /\ r.pending # "none" =>
           /\ Merge(r, s).pending = r.pending /\ Merge(r, s).question = r.question
           /\ Merge(r, s).generation = r.generation
      /\ r.pending = "none" =>
           /\ Merge(r, s).pending = s.pending /\ Merge(r, s).question = s.question
           /\ Merge(r, s).generation = s.generation
  BY <1>1, <1>2 DEF Records
<1> QED BY <1>1, <1>3, <1>4 DEF Journaled
-----------------------------------------------------------------------------
(* 1. Types.                                                               *)

(* What a step sees of the session in memory and of the child it watches.  *)
LEMMA InHand ==
  ASSUME QuestionInv
  PROVE  /\ pc \in {"relay", "form", "reconcile", "observe"} => mem.question \in Questions
         /\ pc = "observe" => /\ Observed \in Children /\ mem.generation \in Generations
                              /\ Observed.owner \in {"nobody", "jules", "reviewer"}
                              /\ Ordered(child, faults, mem.question, mem.generation)
                              /\ Before(child, mem.question, mem.generation)
         /\ mem.generation \in Generations /\ mem.recoveries \in 0 .. Recoveries
         /\ mem.question \in Questions \cup {NoQuestion} /\ mem.pending \in Pending
<1>1. /\ mem \in Records /\ child \in [Questions -> [Generations -> Children]]
      /\ mem.pending # "none" => mem.question \in Questions /\ Before(child, mem.question, mem.generation)
  BY DEF QuestionInv, TypeOK, Pointers, Follows
<1>2. /\ mem.generation \in Generations /\ mem.recoveries \in 0 .. Recoveries
      /\ mem.question \in Questions \cup {NoQuestion} /\ mem.pending \in Pending
  BY <1>1 DEF Records
<1>3. pc \in {"relay", "form", "reconcile", "observe"} => mem.pending # "none"
  BY DEF QuestionInv, Place
<1> QED BY <1>1, <1>2, <1>3 DEF QuestionInv, Observed, Succession, Children

(* A child that is judged to have failed is over, and so is not the last   *)
(* one the bound allows.                                                   *)
LEMMA FailedIsOver ==
  ASSUME NEW c \in Children, Sane(c)
  PROVE  /\ Observation(c) = "failed" => Over(c) /\ c.owner # "nobody"
         /\ Observation(c) = "absent" => c.owner = "nobody"
         /\ Observation(c) \in {"absent", "activate"} => ~Over(c)
         /\ c.work = "live" => ~Over(c) /\ c.owner # "nobody" /\ c.card # "withdrawn"
         /\ Observation(c) = "activate" => c.owner = "jules" /\ c.card \in {"none", "pending"} /\ c.work # "live"
  BY DEF Observation, Failed, Over, Sane, Children

LEMMA SetChildType ==
  ASSUME TypeOK, NEW q \in Questions, NEW g \in Generations, NEW c \in Children,
         child' = [child EXCEPT ![q][g] = c]
  PROVE  /\ child' \in [Questions -> [Generations -> Children]]
         /\ child'[q][g] = c
         /\ \A p \in Questions, h \in Generations : <<p, h>> # <<q, g>> => child'[p][h] = child[p][h]
  BY DEF TypeOK

(* The children a step of observeQuestionChild leaves. *)
LEMMA NewChildren ==
  ASSUME QuestionInv, pc = "observe"
  PROVE  /\ [owner |-> "jules", work |-> "none", card |-> "none"] \in Children
         /\ [Observed EXCEPT !.work = "live", !.owner = IF Observed.card = "none" THEN "jules" ELSE "reviewer"] \in Children
         /\ [Observed EXCEPT !.card = Withdrawn(@)] \in Children
  BY InHand DEF Children, Withdrawn

LEMMA LandType ==
  ASSUME TypeOK, NEW t \in Texts, Land(t)
  PROVE  /\ landed' \in [Texts -> 0 .. 2]
         /\ \A u \in Texts : u # t => landed'[u] = landed[u]
         /\ landed[t] = 0 => landed'[t] = 1
  BY DEF TypeOK, Land

LEMMA RunTypes ==
  ASSUME QuestionInv,
         Start \/ FormPending \/ FormAnswered \/ SendFeedback \/ Poll \/ WaitForHuman \/ RelayFeedback
           \/ PrepareQuestionReview \/ ParentAnswered \/ ParentNotAnswered
  PROVE  TypeOK'
<1> USE NoRecord
<1>1. CASE Start
  <2>1. /\ mem' = Merge(env, disk) /\ pc' \in {"relay", "poll"}
        /\ UNCHANGED <<world, env, disk, text, faults>>
    BY <1>1 DEF Start, Goto
  <2> QED BY <2>1, MergeType DEF QuestionInv, TypeOK, world, Steps
<1>2. CASE FormPending \/ FormAnswered \/ WaitForHuman \/ ParentAnswered \/ ParentNotAnswered
  <2>1. /\ UNCHANGED <<world, env, disk, mem, faults>> /\ pc' \in Steps
        /\ text' = text \/ (text'.of = mem.question /\ text' \in Texts)
    BY <1>2, InHand DEF FormPending, FormAnswered, WaitForHuman, ParentAnswered, ParentNotAnswered, Goto, Steps, Texts
  <2> QED BY <2>1 DEF QuestionInv, TypeOK, world
<1>3. CASE Poll
  <2>1. /\ mem' = mem \/ (mem' = [mem EXCEPT !.unresolved = Latest] /\ Latest \in Questions \cup {NoQuestion})
        /\ pc' \in Steps /\ UNCHANGED <<world, env, disk, text, faults>>
    BY <1>3, BoundsAssumption DEF QuestionInv, TypeOK, Poll, Goto, Steps, Latest, Questions, NoQuestion
  <2>2. mem' \in Records
    BY <2>1 DEF QuestionInv, TypeOK, Records
  <2> QED BY <2>1, <2>2 DEF QuestionInv, TypeOK, world
<1>4. CASE SendFeedback
  <2>1. /\ text \in Texts /\ Land(text) /\ UNCHANGED <<jules, echoed, parent, form, child>>
        /\ \/ /\ faults' = faults /\ text' = NoText /\ pc' = "return" /\ env' = env
              /\ mem' = [mem EXCEPT !.pending = "none"] /\ disk' = mem'
           \/ Fail /\ Fault("response")
    BY <1>4 DEF SendFeedback, Goto, Save, Called, NoFault, AnswerLost, QuestionInv, Place
  <2>2. [mem EXCEPT !.pending = "none"] \in Records
    BY InHand DEF QuestionInv, TypeOK, Pending, Records
  <2> QED BY <2>1, <2>2, LandType, FailShape, FaultCounts DEF QuestionInv, TypeOK, Steps
<1>5. CASE RelayFeedback
  <2> DEFINE t == [of |-> mem.question, by |-> "form"]
  <2>1. /\ t \in Texts /\ Land(t) /\ UNCHANGED <<jules, echoed, parent, form, child>>
        /\ \/ /\ faults' = faults /\ text' = text /\ pc' = "return" /\ env' = env /\ disk' = disk
              /\ mem' = [mem EXCEPT !.pending = "none", !.delivered = mem.question]
           \/ Fail /\ Fault("response")
    BY <1>5, InHand DEF RelayFeedback, Goto, Called, NoFault, AnswerLost, QuestionInv, Texts
  <2>2. [mem EXCEPT !.pending = "none", !.delivered = mem.question] \in Records
    BY InHand DEF QuestionInv, TypeOK, Pending, Records
  <2> HIDE DEF t
  <2> QED BY <2>1, <2>2, LandType, FailShape, FaultCounts DEF QuestionInv, TypeOK, Steps
<1>6. CASE PrepareQuestionReview
  <2>1. mem.unresolved \in Questions
    BY <1>6 DEF PrepareQuestionReview, QuestionInv, Place
  <2>2. /\ PostQuestionCard(mem.unresolved) /\ UNCHANGED <<jules, landed, echoed, form, child>>
        /\ \/ /\ faults' = faults /\ mem' = Adjudicate(mem.unresolved, 0) /\ disk' = mem'
              /\ pc' = "observe" /\ UNCHANGED <<env, text>>
           \/ Fail /\ Fault("response")
    BY <1>6 DEF PrepareQuestionReview, Goto, Save, Called, NoFault, AnswerLost
  <2>3. Adjudicate(mem.unresolved, 0) \in Records
    <3>1. 0 \in Generations
      BY BoundsAssumption DEF Generations
    <3> QED BY <2>1, <3>1 DEF QuestionInv, TypeOK, Pending, Adjudicate, Records
  <2>4. parent' \in [Questions -> {"absent", "pending", "reviewer", "person", "withdrawn"}]
    BY <2>2 DEF PostQuestionCard, QuestionInv, TypeOK
  <2> QED BY <2>2, <2>3, <2>4, FailShape, FaultCounts DEF QuestionInv, TypeOK, Steps
<1> QED BY <1>1, <1>2, <1>3, <1>4, <1>5, <1>6

LEMMA ChildTypes ==
  ASSUME QuestionInv,
         CreateChild \/ ActivateChild \/ AwaitReviewer \/ ObserveFails \/ ReplaceReviewer \/ CopyAnswer \/ Escalate
  PROVE  TypeOK'
<1>1. CASE AwaitReviewer
  BY <1>1 DEF AwaitReviewer, QuestionInv, TypeOK, world, Goto, Steps
<1>2. CASE ObserveFails
  <2>1. Fail /\ UNCHANGED world /\ (faults' = faults \/ Fault("lost"))
    BY <1>2 DEF ObserveFails, CallLost, NoFault
  <2> QED BY <2>1, FailShape, FaultCounts DEF QuestionInv, TypeOK, world
<1>3. CASE CreateChild \/ ActivateChild
  <2>1. /\ pc = "observe" /\ UNCHANGED <<jules, landed, echoed, parent, form>>
        /\ \E c \in Children : SetChild(c)
        /\ \/ faults' = faults /\ pc' = "return" /\ UNCHANGED <<env, disk, mem, text>>
           \/ Fail /\ Fault("response")
    BY <1>3, NewChildren DEF CreateChild, ActivateChild, Goto, Called, NoFault, AnswerLost
  <2>2. child' \in [Questions -> [Generations -> Children]]
    BY <2>1, SetChildType, InHand DEF QuestionInv, SetChild
  <2> QED BY <2>1, <2>2, FailShape, FaultCounts DEF QuestionInv, TypeOK, Steps
<1>4. CASE ReplaceReviewer
  <2> DEFINE r == [Adjudicate(mem.question, mem.generation + 1) EXCEPT !.recoveries = @ + 1]
  <2>1. /\ pc = "observe" /\ UNCHANGED <<jules, landed, echoed, parent, form>>
        /\ Observation(Observed) = "failed" /\ mem.recoveries < Recoveries
        /\ \E c \in Children : SetChild(c)
        /\ \/ faults' = faults /\ mem' = r /\ disk' = r /\ UNCHANGED <<pc, env, text>>
           \/ Fail /\ Fault("response")
    BY <1>4, NewChildren DEF ReplaceReviewer, Goto, Save, Called, NoFault, AnswerLost
  <2>2. child' \in [Questions -> [Generations -> Children]]
    BY <2>1, SetChildType, InHand DEF QuestionInv, SetChild
  <2>3. mem.generation + 1 \in Generations /\ mem.recoveries + 1 \in 0 .. Recoveries
    <3>1. mem.generation < faults
      BY <2>1, InHand, FailedIsOver DEF Ordered, Observed
    <3> QED BY <3>1, <2>1, InHand, BoundsAssumption DEF Generations, QuestionInv, TypeOK
  <2>4. r \in Records
    <3>1. Adjudicate(mem.question, mem.generation + 1) \in Records
      BY <2>1, <2>3, InHand DEF Adjudicate, Pending, QuestionInv, TypeOK, Records
    <3>2. Adjudicate(mem.question, mem.generation + 1).recoveries = mem.recoveries
      BY DEF Adjudicate, QuestionInv, TypeOK, Records
    <3> QED BY <3>1, <3>2, <2>3 DEF Records
  <2> HIDE DEF r
  <2> QED BY <2>1, <2>2, <2>4, FailShape, FaultCounts DEF QuestionInv, TypeOK, Steps
<1>5. CASE CopyAnswer
  <2>1. pc = "observe" /\ UNCHANGED <<jules, landed, echoed, form, child>>
    BY <1>5 DEF CopyAnswer
  <2>2. parent' \in [Questions -> {"absent", "pending", "reviewer", "person", "withdrawn"}]
    BY <1>5 DEF CopyAnswer, QuestionInv, TypeOK
  <2>3. \/ /\ faults' = faults /\ text' = [of |-> mem.question, by |-> "reviewer"] /\ pc' = "deliver"
           /\ UNCHANGED <<env, disk, mem>>
        \/ Fail /\ (faults' = faults \/ Fault("response"))
    BY <1>5 DEF CopyAnswer, Goto, Called, NoFault, AnswerLost
  <2>4. [of |-> mem.question, by |-> "reviewer"] \in Texts
    BY <2>1, InHand DEF Texts
  <2> QED BY <2>1, <2>2, <2>3, <2>4, FailShape, FaultCounts DEF QuestionInv, TypeOK, Steps
<1>6. CASE Escalate
  <2> DEFINE r == [mem EXCEPT !.pending = "user_feedback"]
  <2>1. /\ pc = "observe" /\ UNCHANGED <<jules, landed, echoed, child>>
        /\ \/ /\ faults' = faults /\ mem' = r /\ disk' = r
              /\ pc' = "return" /\ UNCHANGED <<env, text>>
           \/ Fail /\ Fault("response")
    BY <1>6 DEF Escalate, Goto, Save, Called, NoFault, AnswerLost
  <2>2. /\ parent' \in [Questions -> {"absent", "pending", "reviewer", "person", "withdrawn"}]
        /\ form' \in [Questions -> {"absent", "pending", "answered"}]
    BY <1>6, InHand DEF Escalate, PostForm, Withdrawn, QuestionInv, TypeOK
  <2>3. r \in Records
    BY InHand DEF QuestionInv, TypeOK, Pending, Records
  <2> HIDE DEF r
  <2> QED BY <2>1, <2>2, <2>3, FailShape, FaultCounts DEF QuestionInv, TypeOK, Steps
<1> QED BY <1>1, <1>2, <1>3, <1>4, <1>5, <1>6

LEMMA AnswerTypes ==
  ASSUME QuestionInv,
         AlreadyDelivered \/ AnswerEchoed \/ AwaitObservation \/ PrepareAnswer \/ SendAnswer \/ FinishAnswer \/ Return
  PROVE  TypeOK'
<1>1. /\ pc \in {"deliver", "send", "finish"} => text \in Texts /\ Question \in Questions
      /\ mem \in Records /\ TypeOK
  BY DEF QuestionInv, Place, Question, Texts, TypeOK
<1>2. Question \in Questions => Confirm(mem) \in Records
  BY <1>1, JournalUpdate DEF Confirm, Attempts
<1>3. CASE AlreadyDelivered \/ AwaitObservation
  <2>1. /\ UNCHANGED <<world, env, disk, mem, faults>> /\ pc' \in Steps /\ text' \in {text, NoText}
    BY <1>3 DEF AlreadyDelivered, AwaitObservation, Goto, Steps
  <2> QED BY <2>1, <1>1 DEF TypeOK, world
<1>4. CASE AnswerEchoed
  <2>1. /\ mem' = Confirm(mem) /\ disk' = mem' /\ pc' = "finish" /\ UNCHANGED <<world, env, text, faults>>
        /\ pc = "deliver"
    BY <1>4 DEF AnswerEchoed, Undelivered, Save, Goto
  <2> QED BY <2>1, <1>1, <1>2 DEF TypeOK, world, Steps
<1>5. CASE PrepareAnswer
  <2> DEFINE r == [mem EXCEPT !.intent = text, !.journal[Question] = "started"]
  <2>1. /\ mem' = r /\ disk' = r /\ pc' = "send" /\ UNCHANGED <<world, env, text, faults>> /\ pc = "deliver"
    BY <1>5 DEF PrepareAnswer, Undelivered, Save, Goto
  <2>2. r \in Records
    BY <2>1, <1>1, JournalUpdate DEF Attempts
  <2> HIDE DEF r
  <2> QED BY <2>1, <2>2, <1>1 DEF TypeOK, world, Steps
<1>6. CASE SendAnswer
  <2>1. /\ \/ Land(text)
           \/ landed' = landed
        /\ UNCHANGED <<jules, echoed, parent, form, child, env>>
        /\ faults' = faults \/ Fault("response") \/ Fault("lost") \/ Fault("crash")
        /\ pc' \in {"finish", "return", "idle"} /\ text' \in {text, NoText}
        /\ mem' \in {Confirm(mem), mem, NewRecord} /\ disk' \in {disk, mem'}
    BY <1>6 DEF SendAnswer, Called, NoFault, Goto, Save
  <2>2. pc = "send"
    BY <1>6 DEF SendAnswer
  <2>3. landed' \in [Texts -> 0 .. 2]
    BY <2>1, <2>2, <1>1, LandType DEF TypeOK
  <2>4. faults' \in 0 .. MaxFaults
    BY <2>1, <1>1, FaultCounts DEF TypeOK
  <2>5. mem' \in Records /\ disk' \in Records
    BY <2>1, <2>2, <1>1, <1>2, NoRecord DEF TypeOK
  <2> QED BY <2>1, <2>3, <2>4, <2>5, <1>1 DEF TypeOK, Steps
<1>7. CASE FinishAnswer
  <2> DEFINE r == [mem EXCEPT !.delivered = Question, !.pending = "none", !.intent = NoText, !.unresolved = NoQuestion]
  <2>1. /\ mem' = r /\ disk' = r /\ pc' = "return" /\ text' = NoText /\ UNCHANGED <<world, env, faults>> /\ pc = "finish"
    BY <1>7 DEF FinishAnswer, Save, Goto
  <2>2. r \in Records
    BY <2>1, <1>1 DEF Records, Pending
  <2> HIDE DEF r
  <2> QED BY <2>1, <2>2, <1>1 DEF TypeOK, world, Steps
<1>8. CASE Return
  BY <1>1, <1>8, NoRecord DEF Return, TypeOK, world, Goto, Steps
<1> QED BY <1>3, <1>4, <1>5, <1>6, <1>7, <1>8

LEMMA LossTypes ==
  ASSUME QuestionInv, FeedbackLost \/ RelayLost \/ PrepareLost \/ FormUnread \/ AnswerRejected \/ Crash
  PROVE  TypeOK'
<1>1. CASE FormUnread
  <2>1. /\ UNCHANGED <<world, env, disk, mem>> /\ pc' \in Steps /\ Fault("card_read")
        /\ text' \in Texts \cup {text}
    BY <1>1 DEF FormUnread, Goto, Steps, AnsweredCards, Texts
  <2> QED BY <2>1, FaultCounts DEF QuestionInv, TypeOK, world
<1>2. CASE Crash
  <2>1. /\ Fault("crash") /\ UNCHANGED <<world, env, disk>> /\ mem' = NewRecord /\ text' = NoText /\ pc' = "idle"
    BY <1>2 DEF Crash, Goto
  <2> QED BY <2>1, FaultCounts, NoRecord DEF QuestionInv, TypeOK, world, Steps
<1>3. CASE FeedbackLost \/ RelayLost \/ PrepareLost \/ AnswerRejected
  <2>1. Fail /\ UNCHANGED world /\ (Fault("lost") \/ Fault("rejected"))
    BY <1>3 DEF FeedbackLost, RelayLost, PrepareLost, AnswerRejected, CallLost
  <2> QED BY <2>1, FailShape, FaultCounts DEF QuestionInv, TypeOK, world
<1> QED BY <1>1, <1>2, <1>3

(* The runs on children and the people: a child keeps its type. *)
Works(q, g) == ReviewerWork(q, g) \/ RunFails(q, g)

LEMMA WorkShape ==
  ASSUME QuestionInv, NEW q \in Questions, NEW g \in Generations, Works(q, g)
  PROVE  /\ \E c \in Children :
              /\ child' = [child EXCEPT ![q][g] = c]
              /\ child[q][g].work = "live" /\ c.owner = child[q][g].owner
              /\ c.card # child[q][g].card => c.card \in {"pending", "answer", "escalate"}
              /\ c.work = "failed" => faults' = faults + 1
              /\ c.work = "succeeded" /\ c.owner = "reviewer" => child[q][g].card # "pending" \/ faults' = faults + 1
              /\ c.work # "live" => c.card = child[q][g].card
         /\ UNCHANGED <<jules, landed, echoed, parent, form, env, disk, mem, pc, text>>
         /\ faults' \in 0 .. MaxFaults /\ faults' \in {faults, faults + 1}
<1> DEFINE d == child[q][g]
<1>1. d \in Children /\ d.owner \in {"nobody", "jules", "reviewer"} /\ TypeOK
  BY DEF QuestionInv, TypeOK, Children
<1>2. CASE BootstrapCard(q, g)
  <2>1. [d EXCEPT !.card = "pending"] \in Children
    BY <1>1 DEF Children
  <2> QED BY <1>1, <1>2, <2>1 DEF BootstrapCard, Update, NoFault, Children, TypeOK
<1>3. CASE ReviewerDecides(q, g)
  <2>1. PICK decision \in {"answer", "escalate"} : Update(q, g, [d EXCEPT !.card = decision])
    BY <1>3 DEF ReviewerDecides
  <2>2. [d EXCEPT !.card = decision] \in Children
    BY <1>1 DEF Children
  <2> QED BY <1>1, <1>3, <2>1, <2>2 DEF ReviewerDecides, Update, NoFault, Children, TypeOK
<1>4. CASE RunSucceeds(q, g)
  <2>1. [d EXCEPT !.work = "succeeded"] \in Children
    BY <1>1 DEF Children
  <2>2. /\ Update(q, g, [d EXCEPT !.work = "succeeded"]) /\ d.work = "live"
        /\ \/ (IF d.owner = "jules" THEN d.card # "none" ELSE d.card # "pending") /\ faults' = faults
           \/ d.owner = "reviewer" /\ Fault("silent")
    BY <1>4 DEF RunSucceeds, NoFault
  <2> QED BY <1>1, <2>2, <2>1, FaultCounts DEF Update, Children, TypeOK
<1>5. CASE RunFails(q, g)
  <2>1. [d EXCEPT !.work = "failed"] \in Children
    BY <1>1 DEF Children
  <2>2. Update(q, g, [d EXCEPT !.work = "failed"]) /\ d.work = "live" /\ Fault("run")
    BY <1>5 DEF RunFails
  <2> QED BY <1>1, <2>2, <2>1, FaultCounts DEF Update, Children, TypeOK
<1> QED BY <1>2, <1>3, <1>4, <1>5 DEF Works, ReviewerWork

Others ==
  \/ Ask \/ Resume \/ Echo
  \/ \E q \in Questions : PersonAnswersCard(q) \/ PersonAnswersForm(q)

LEMMA OtherTypes ==
  ASSUME QuestionInv, Others
  PROVE  TypeOK'
<1> USE DEF QuestionInv, TypeOK
<1>1. CASE Ask
  BY <1>1, BoundsAssumption, FaultCounts DEF Ask, NoFault
<1>2. CASE Resume
  BY <1>2 DEF Resume
<1>4. CASE Echo
  BY <1>4 DEF Echo
<1>3. ASSUME NEW q \in Questions, PersonAnswersCard(q) \/ PersonAnswersForm(q)
      PROVE  TypeOK'
  BY <1>3 DEF PersonAnswersCard, PersonAnswersForm
<1> QED BY <1>1, <1>2, <1>3, <1>4 DEF Others

Losses == FeedbackLost \/ RelayLost \/ PrepareLost \/ FormUnread \/ AnswerRejected \/ Crash

LEMMA NextSteps ==
  ASSUME Next
  PROVE  Heartbeat \/ Losses \/ Others \/ \E q \in Questions, g \in Generations : Works(q, g)
  BY DEF Next, Losses, Others, Works

LEMMA NextType ==
  ASSUME QuestionInv, [Next]_vars
  PROVE  TypeOK'
<1>1. CASE Heartbeat
  BY <1>1, RunTypes, ChildTypes, AnswerTypes DEF Heartbeat
<1>2. CASE Losses
  BY <1>2, LossTypes DEF Losses
<1>3. CASE Others
  BY <1>3, OtherTypes
<1>4. ASSUME NEW q \in Questions, NEW g \in Generations, Works(q, g)
      PROVE  TypeOK'
  <2>1. child' \in [Questions -> [Generations -> Children]]
    BY <1>4, WorkShape, SetChildType DEF QuestionInv
  <2> QED BY <2>1, <1>4, WorkShape DEF QuestionInv, TypeOK
<1>5. CASE UNCHANGED vars
  BY <1>5 DEF vars, QuestionInv, TypeOK
<1> QED BY <1>1, <1>2, <1>3, <1>4, <1>5, NextSteps
-----------------------------------------------------------------------------
(* 2. Generations follow one another.                                      *)

(* An assignment to one place of a table of tables leaves the others. *)
LEMMA PlaceChanged ==
  ASSUME NEW A, NEW B, NEW C, NEW f \in [A -> [B -> C]], NEW a \in A, NEW b \in B, NEW c
  PROVE  /\ [f EXCEPT ![a][b] = c][a][b] = c
         /\ \A x \in A, y \in B : <<x, y>> # <<a, b>> => [f EXCEPT ![a][b] = c][x][y] = f[x][y]
OBVIOUS

(* A child that changes at one place leaves the order of the generations   *)
(* intact when a generation that was over stays over, one that is begun    *)
(* has none at work before it, and one that ends has cost a fault.         *)
LEMMA OrderKept ==
  ASSUME QuestionInv, NEW q \in Questions, NEW g \in Generations, NEW c \in Children,
         child' = [child EXCEPT ![q][g] = c], faults' \in {faults, faults + 1},
         Sane(c), Over(child[q][g]) => Over(c), Over(c) => Over(child[q][g]) \/ g < faults',
         c.owner # "nobody" => Before(child, q, g)
  PROVE  /\ Succession'
         /\ \A p \in Questions, h \in Generations : Over(child[p][h]) => Over(child'[p][h])
<1>1. /\ child'[q][g] = c
      /\ \A p \in Questions, h \in Generations : <<p, h>> # <<q, g>> => child'[p][h] = child[p][h]
  <2>1. child \in [Questions -> [Generations -> Children]]
    BY DEF QuestionInv, TypeOK
  <2> QED BY <2>1, PlaceChanged
<1>2. \A p \in Questions, h \in Generations : Over(child[p][h]) => Over(child'[p][h])
  BY <1>1
<1>3. \A n : n < faults /\ n \in Nat => n < faults'
  BY BoundsAssumption DEF QuestionInv, TypeOK
<1>4. ASSUME NEW p \in Questions, NEW h \in Generations
      PROVE  Ordered(child', faults', p, h)
  <2>1. Ordered(child, faults, p, h) /\ h \in Nat
    BY BoundsAssumption DEF QuestionInv, Succession, Generations
  <2>2. Before(child, p, h) => Before(child', p, h)
    BY <1>2 DEF Before
  <2>3. CASE <<p, h>> = <<q, g>>
    BY <1>1, <1>3, <2>1, <2>2, <2>3 DEF Ordered
  <2>4. CASE <<p, h>> # <<q, g>>
    <3>1. child'[p][h] = child[p][h]
      BY <1>1, <2>4
    <3> QED BY <1>3, <2>1, <2>2, <3>1 DEF Ordered
  <2> QED BY <2>3, <2>4
<1> QED BY <1>2, <1>4 DEF Succession

(* The generations before one that is over are over, so their number is    *)
(* bounded by the faults.                                                  *)
LEMMA EarlierCost ==
  ASSUME QuestionInv, NEW q \in Questions, NEW g \in Generations, Before(child, q, g)
  PROVE  g <= faults
<1>1. CASE g = 0
  BY <1>1 DEF QuestionInv, TypeOK
<1>2. CASE g # 0
  <2>1. g - 1 \in Generations /\ g - 1 < g
    BY <1>2, BoundsAssumption DEF Generations
  <2>2. g - 1 < faults
    BY <2>1 DEF Before, QuestionInv, Succession, Ordered
  <2> QED BY <2>2, BoundsAssumption DEF Generations, QuestionInv, TypeOK
<1> QED BY <1>1, <1>2

LEMMA NextSuccession ==
  ASSUME QuestionInv, [Next]_vars
  PROVE  /\ Succession'
         /\ \A p \in Questions, h \in Generations : Over(child[p][h]) => Over(child'[p][h])
<1> DEFINE Kept == /\ Succession'
                   /\ \A p \in Questions, h \in Generations : Over(child[p][h]) => Over(child'[p][h])
<1>1. ASSUME UNCHANGED child, faults' = faults \/ (\E k : Fault(k))
      PROVE  Kept
  <2>1. faults' \in {faults, faults + 1} /\ \A h \in Generations : h < faults => h < faults'
    BY <1>1, FaultCounts, BoundsAssumption DEF QuestionInv, TypeOK, Generations
  <2> QED BY <1>1, <2>1 DEF QuestionInv, Succession, Ordered
<1>2. ASSUME NEW q \in Questions, NEW g \in Generations, Works(q, g)
      PROVE  Kept
  <2> DEFINE d == child[q][g]
  <2>1. PICK c \in Children :
              /\ child' = [child EXCEPT ![q][g] = c]
              /\ d.work = "live" /\ c.owner = d.owner
              /\ c.card # d.card => c.card \in {"pending", "answer", "escalate"}
              /\ c.work = "failed" => faults' = faults + 1
              /\ c.work = "succeeded" /\ c.owner = "reviewer" => d.card # "pending" \/ faults' = faults + 1
              /\ c.work # "live" => c.card = d.card
    BY <1>2, WorkShape
  <2>2. d \in Children /\ Sane(d) /\ (d.owner # "nobody" => Before(child, q, g))
    BY DEF QuestionInv, TypeOK, Succession, Ordered
  <2>3. ~Over(d) /\ d.owner # "nobody" /\ d.card # "withdrawn"
    BY <2>1, <2>2, FailedIsOver
  <2>4. Sane(c)
    BY <2>1, <2>2, <2>3 DEF Sane
  <2>5. Over(c) => faults' = faults + 1
    BY <2>1, <2>2, <2>3 DEF Over, Sane, Children
  <2>6. g <= faults /\ faults \in Nat /\ g \in Nat
    BY <2>2, <2>3, EarlierCost, BoundsAssumption DEF Generations, QuestionInv, TypeOK
  <2>7. faults' \in {faults, faults + 1}
    BY <1>2, WorkShape
  <2>8. Over(c) => g < faults'
    BY <2>5, <2>6
  <2> HIDE DEF d
  <2> QED BY <2>1, <2>2, <2>3, <2>4, <2>7, <2>8, OrderKept DEF d
<1>3. ASSUME pc = "observe", NEW c \in Children, SetChild(c), faults' = faults \/ Fault("response"),
             Sane(c), Over(Observed) => Over(c), Over(c) => Over(Observed),
             c.owner # "nobody" => Before(child, mem.question, mem.generation)
      PROVE  Kept
  <2>1. mem.question \in Questions /\ mem.generation \in Generations
    BY <1>3, InHand
  <2>2. faults' \in {faults, faults + 1}
    BY <1>3, FaultCounts DEF QuestionInv
  <2> QED BY <1>3, <2>1, <2>2, OrderKept DEF SetChild, Observed
<1>4. pc = "observe" => Observed \in Children /\ Sane(Observed) /\ Before(child, mem.question, mem.generation)
  BY InHand DEF Ordered, Observed
<1>5. CASE CreateChild
  <2> DEFINE c == [owner |-> "jules", work |-> "none", card |-> "none"]
  <2>1. pc = "observe" /\ SetChild(c) /\ (faults' = faults \/ Fault("response")) /\ ~Over(Observed)
    BY <1>4, <1>5, FailedIsOver DEF CreateChild, Called, NoFault, AnswerLost
  <2>2. c \in Children /\ Sane(c) /\ ~Over(c)
    BY DEF Children, Sane, Over
  <2> HIDE DEF c
  <2> QED BY <2>1, <2>2, <1>3, <1>4
<1>6. CASE ActivateChild
  <2> DEFINE c == [Observed EXCEPT !.work = "live", !.owner = IF Observed.card = "none" THEN "jules" ELSE "reviewer"]
  <2>1. /\ pc = "observe" /\ SetChild(c) /\ (faults' = faults \/ Fault("response")) /\ ~Over(Observed)
        /\ Observed.card \in {"none", "pending"}
    BY <1>4, <1>6, FailedIsOver DEF ActivateChild, Called, NoFault, AnswerLost
  <2>2. c \in Children /\ Sane(c) /\ ~Over(c)
    BY <2>1, <1>4 DEF Children, Sane, Over
  <2> HIDE DEF c
  <2> QED BY <2>1, <2>2, <1>3, <1>4
<1>7. CASE ReplaceReviewer
  <2> DEFINE c == [Observed EXCEPT !.card = Withdrawn(@)]
  <2>1. /\ pc = "observe" /\ SetChild(c) /\ (faults' = faults \/ Fault("response")) /\ Over(Observed)
        /\ Observed.owner # "nobody"
    BY <1>4, <1>7, FailedIsOver DEF ReplaceReviewer, Called, NoFault, AnswerLost
  <2>2. c \in Children /\ Sane(c) /\ Over(c)
    BY <2>1, <1>4 DEF Children, Sane, Over, Withdrawn
  <2> HIDE DEF c
  <2> QED BY <2>1, <2>2, <1>3, <1>4
<1>8. CASE AwaitReviewer \/ ObserveFails \/ CopyAnswer \/ Escalate
  <2>1. UNCHANGED child /\ (faults' = faults \/ (\E k : Fault(k)))
    BY <1>8 DEF AwaitReviewer, ObserveFails, CopyAnswer, Escalate, CallLost, AnswerLost, Called, NoFault, world
  <2> QED BY <1>1, <2>1
<1>9. CASE Start \/ FormPending \/ FormAnswered \/ SendFeedback \/ Poll \/ WaitForHuman \/ RelayFeedback
             \/ PrepareQuestionReview \/ ParentAnswered \/ ParentNotAnswered
  <2>1. UNCHANGED child /\ (faults' = faults \/ (\E k : Fault(k)))
    BY <1>9 DEF Start, FormPending, FormAnswered, SendFeedback, Poll, WaitForHuman, RelayFeedback,
       PrepareQuestionReview, ParentAnswered, ParentNotAnswered, AnswerLost, Called, NoFault, world
  <2> QED BY <1>1, <2>1
<1>10. CASE AlreadyDelivered \/ AnswerEchoed \/ AwaitObservation \/ PrepareAnswer \/ SendAnswer \/ FinishAnswer \/ Return
  <2>1. UNCHANGED child /\ (faults' = faults \/ (\E k : Fault(k)))
    BY <1>10 DEF AlreadyDelivered, AnswerEchoed, AwaitObservation, PrepareAnswer, SendAnswer, FinishAnswer, Return,
       Called, NoFault, world
  <2> QED BY <1>1, <2>1
<1>11. CASE Losses \/ Others \/ UNCHANGED vars
  <2>1. UNCHANGED child /\ (faults' = faults \/ (\E k : Fault(k)))
    BY <1>11 DEF Losses, FeedbackLost, RelayLost, PrepareLost, FormUnread, AnswerRejected, Crash, CallLost, world, vars,
       Others, Ask, Resume, Echo, PersonAnswersCard, PersonAnswersForm, NoFault
  <2> QED BY <1>1, <2>1
<1>12. CASE Heartbeat
  BY <1>5, <1>6, <1>7, <1>8, <1>9, <1>10, <1>12 DEF Heartbeat
<1> QED BY <1>2, <1>11, <1>12, NextSteps

(* Every copy of the record still follows the generations, and what the    *)
(* recovery record knows of the journal is never lost.                     *)
LEMMA NextRecords ==
  ASSUME QuestionInv, [Next]_vars
  PROVE  /\ Pointers'
         /\ pc' # "idle" => Journaled(disk') \subseteq Journaled(mem')
         /\ Journaled(disk) \subseteq Journaled(disk')
<1>1. Follows(env, child') /\ Follows(disk, child') /\ Follows(mem, child')
  <2>1. \A r \in Records : Follows(r, child) => Follows(r, child')
    BY NextSuccession DEF Follows, Before
  <2> QED BY <2>1 DEF QuestionInv, TypeOK, Pointers
<1>2. Follows(NewRecord, child')
  BY DEF Follows, NewRecord
<1>3. /\ mem \in Records /\ env \in Records /\ disk \in Records
      /\ pc # "idle" => Journaled(disk) \subseteq Journaled(mem)
      /\ text \in Texts /\ pc \in {"deliver", "send", "finish"} => Question \in Questions
  BY DEF QuestionInv, TypeOK, Journals, Question, Texts
<1>4. ASSUME env' \in {env, mem}, mem' = NewRecord, disk' \in {disk, mem}, pc' = "idle", pc # "idle"
      PROVE  Pointers' /\ Journaled(disk) \subseteq Journaled(disk')
  <2>1. Pointers'
    BY <1>1, <1>2, <1>4 DEF Pointers
  <2> QED BY <2>1, <1>3, <1>4
<1>5. ASSUME env' = env, disk' \in {disk, mem'}, Follows(mem', child'), Journaled(mem) \subseteq Journaled(mem'), pc # "idle"
      PROVE  /\ Pointers' /\ Journaled(disk) \subseteq Journaled(disk')
             /\ Journaled(disk') \subseteq Journaled(mem')
  <2>1. Pointers'
    BY <1>1, <1>5 DEF Pointers
  <2> QED BY <2>1, <1>3, <1>5
<1>6. ASSUME NEW r, r.pending = "none" \/ (r.pending # "none" /\ mem.pending # "none" /\ r.question = mem.question /\ r.generation = mem.generation)
      PROVE  Follows(r, child')
  BY <1>1, <1>6 DEF Follows
<1>7. CASE Fail /\ pc # "idle"
  BY <1>4, <1>7, FailShape DEF QuestionInv
<1>8. CASE UNCHANGED <<env, disk, mem>> /\ (pc = "idle" => pc' = "idle")
  <2>1. Pointers'
    BY <1>1, <1>8 DEF Pointers
  <2> QED BY <2>1, <1>3, <1>8 DEF Journaled
<1>9. CASE Start
  <2>1. mem' = Merge(env, disk) /\ UNCHANGED <<env, disk>>
    BY <1>9 DEF Start
  <2>2. Follows(mem', child') /\ Journaled(disk) \subseteq Journaled(mem')
    BY <2>1, <1>1, <1>3, MergeType DEF Follows
  <2>3. Pointers'
    BY <1>1, <2>1, <2>2 DEF Pointers
  <2> QED BY <2>1, <2>2, <2>3 DEF Journaled
<1>10. CASE Poll
  <2>1. /\ mem' = mem \/ mem' = [mem EXCEPT !.unresolved = Latest]
        /\ UNCHANGED <<env, disk>> /\ pc = "poll"
    BY <1>10 DEF Poll
  <2>2. mem'.pending = mem.pending /\ mem'.question = mem.question /\ mem'.generation = mem.generation /\ mem'.journal = mem.journal
    BY <2>1, <1>3 DEF Records
  <2>3. Follows(mem', child') /\ Journaled(mem) \subseteq Journaled(mem')
    BY <2>2, <1>6 DEF Journaled
  <2> QED BY <2>1, <2>3, <1>5
<1>11. CASE SendFeedback \/ RelayFeedback \/ FinishAnswer
  <2>1. CASE Fail /\ pc # "idle"
    BY <2>1, <1>7
  <2>2. ASSUME NEW r \in {[mem EXCEPT !.pending = "none"],
                          [mem EXCEPT !.pending = "none", !.delivered = mem.question],
                          [mem EXCEPT !.delivered = Question, !.pending = "none", !.intent = NoText, !.unresolved = NoQuestion]},
               mem' = r, env' = env, disk' \in {disk, mem'}, pc # "idle"
        PROVE  /\ Pointers' /\ Journaled(disk) \subseteq Journaled(disk')
               /\ Journaled(disk') \subseteq Journaled(mem')
    <3>1. mem'.pending = "none" /\ mem'.journal = mem.journal
      BY <2>2, <1>3 DEF Records
    <3>2. Follows(mem', child') /\ Journaled(mem) \subseteq Journaled(mem')
      BY <3>1, <1>6 DEF Journaled
    <3> QED BY <2>2, <3>2, <1>5
  <2>3. CASE SendFeedback
    BY <2>1, <2>2, <2>3 DEF SendFeedback, Save, AnswerLost
  <2>4. CASE RelayFeedback
    BY <2>1, <2>2, <2>4 DEF RelayFeedback, AnswerLost
  <2>5. CASE FinishAnswer
    BY <2>2, <2>5 DEF FinishAnswer, Save
  <2> QED BY <1>11, <2>3, <2>4, <2>5
<1>12. CASE PrepareQuestionReview
  <2> DEFINE r == Adjudicate(mem.unresolved, 0)
  <2>1. CASE Fail /\ pc # "idle"
    BY <2>1, <1>7
  <2>2. CASE mem' = r /\ disk' = mem' /\ env' = env /\ pc = "prepare"
    <3>1. r.pending = "adjudication" /\ r.question = mem.unresolved /\ r.generation = 0 /\ r.journal = mem.journal
      BY <1>3 DEF Adjudicate, Records
    <3>2. mem.unresolved \in Questions /\ Before(child', mem.unresolved, 0)
      BY <2>2 DEF QuestionInv, Place, Before, Generations
    <3> HIDE DEF r
    <3>3. Follows(mem', child') /\ Journaled(mem) \subseteq Journaled(mem')
      BY <2>2, <3>1, <3>2 DEF Follows, Journaled
    <3> QED BY <2>2, <3>3, <1>5
  <2> QED BY <2>1, <2>2, <1>12 DEF PrepareQuestionReview, Save, AnswerLost
<1>13. CASE ReplaceReviewer
  <2> DEFINE r == [Adjudicate(mem.question, mem.generation + 1) EXCEPT !.recoveries = @ + 1]
  <2>1. CASE Fail /\ pc # "idle"
    BY <2>1, <1>7
  <2>2. CASE mem' = r /\ disk' = mem' /\ env' = env /\ pc = "observe"
    <3>1. r.pending = "adjudication" /\ r.question = mem.question /\ r.generation = mem.generation + 1 /\ r.journal = mem.journal
      BY <1>3 DEF Adjudicate, Records
    <3>2. /\ mem.question \in Questions /\ mem.generation \in Generations
          /\ Over(Observed) /\ Before(child, mem.question, mem.generation)
      BY <2>2, <1>13, InHand, FailedIsOver DEF ReplaceReviewer, Ordered, Observed
    <3>3. Over(child'[mem.question][mem.generation]) /\ Before(child', mem.question, mem.generation)
      BY <3>2, NextSuccession DEF Observed, Before
    <3>4. Before(child', mem.question, mem.generation + 1)
      BY <3>2, <3>3, BoundsAssumption DEF Before, Generations
    <3> HIDE DEF r
    <3>5. Follows(mem', child') /\ Journaled(mem) \subseteq Journaled(mem')
      BY <2>2, <3>1, <3>2, <3>4 DEF Follows, Journaled
    <3> QED BY <2>2, <3>5, <1>5
  <2> QED BY <2>1, <2>2, <1>13 DEF ReplaceReviewer, Save, AnswerLost
<1>14. CASE Escalate
  <2> DEFINE r == [mem EXCEPT !.pending = "user_feedback"]
  <2>1. CASE Fail /\ pc # "idle"
    BY <2>1, <1>7
  <2>2. CASE mem' = r /\ disk' = mem' /\ env' = env /\ pc = "observe"
    <3>1. r.pending = "user_feedback" /\ r.question = mem.question /\ r.generation = mem.generation /\ r.journal = mem.journal
      BY <1>3 DEF Records
    <3>2. mem.pending # "none"
      BY <2>2 DEF QuestionInv, Place
    <3> HIDE DEF r
    <3>3. Follows(mem', child') /\ Journaled(mem) \subseteq Journaled(mem')
      BY <2>2, <3>1, <3>2, <1>6 DEF Journaled
    <3> QED BY <2>2, <3>3, <1>5
  <2> QED BY <2>1, <2>2, <1>14 DEF Escalate, Save, AnswerLost
<1>15. CASE FormPending \/ FormAnswered \/ WaitForHuman \/ ParentAnswered \/ ParentNotAnswered \/ AwaitReviewer
              \/ AlreadyDelivered \/ AwaitObservation
  BY <1>8, <1>15 DEF FormPending, FormAnswered, WaitForHuman, ParentAnswered, ParentNotAnswered, AwaitReviewer,
     AlreadyDelivered, AwaitObservation, Undelivered
<1>16. CASE CreateChild \/ ActivateChild \/ ObserveFails \/ CopyAnswer
  BY <1>7, <1>8, <1>16 DEF CreateChild, ActivateChild, ObserveFails, CopyAnswer, CallLost, AnswerLost
<1>17. ASSUME NEW r, pc \in {"deliver", "send"}, mem' = r, env' = env, disk' \in {disk, mem'},
              r = Confirm(mem) \/ r = [mem EXCEPT !.intent = text, !.journal[Question] = "started"]
       PROVE  /\ Pointers' /\ Journaled(disk) \subseteq Journaled(disk')
              /\ Journaled(disk') \subseteq Journaled(mem')
  <2>1. Question \in Questions /\ text \in Texts
    BY <1>17 DEF QuestionInv, Place, Question, Texts
  <2>2. r.pending = mem.pending /\ r.question = mem.question /\ r.generation = mem.generation
    BY <1>3, <1>17 DEF Confirm, Records
  <2>3. \E a \in {"confirmed", "started"} : r.journal = [mem.journal EXCEPT ![Question] = a]
    <3>1. CASE r = Confirm(mem)
      BY <1>3, <2>1, <3>1 DEF Confirm, Records
    <3>2. CASE r = [mem EXCEPT !.intent = text, !.journal[Question] = "started"]
      BY <1>3, <2>1, <3>2 DEF Records
    <3> QED BY <1>17, <3>1, <3>2
  <2>4. mem.journal \in [Questions -> Attempts]
    BY <1>3 DEF Records
  <2>5. Follows(mem', child') /\ Journaled(mem) \subseteq Journaled(mem')
    BY <1>6, <1>17, <2>1, <2>2, <2>3, <2>4 DEF Journaled
  <2> QED BY <1>5, <1>17, <2>5
<1>18. CASE AnswerEchoed \/ PrepareAnswer
  BY <1>17, <1>18 DEF AnswerEchoed, PrepareAnswer, Undelivered, Save
<1>19. CASE SendAnswer
  <2>1. /\ pc = "send" /\ env' = env
        /\ \/ mem' = Confirm(mem) /\ disk' = mem'
           \/ UNCHANGED <<disk, mem>> /\ pc' = "return"
           \/ mem' = NewRecord /\ pc' = "idle" /\ disk' = disk
    BY <1>19 DEF SendAnswer, Save, Goto
  <2> QED BY <2>1, <1>4, <1>8, <1>17
<1>20. CASE Return
  BY <1>4, <1>20 DEF Return, Goto
<1>21. CASE Losses
  BY <1>4, <1>7, <1>8, <1>21
  DEF Losses, FeedbackLost, RelayLost, PrepareLost, FormUnread, AnswerRejected, Crash, CallLost, Goto
<1>22. CASE Others \/ UNCHANGED vars
  BY <1>8, <1>22 DEF Others, Ask, Resume, Echo, PersonAnswersCard, PersonAnswersForm, vars
<1>23. ASSUME NEW q \in Questions, NEW g \in Generations, Works(q, g)
       PROVE  UNCHANGED <<env, disk, mem>> /\ (pc = "idle" => pc' = "idle")
  BY <1>23, WorkShape
<1>24. CASE Heartbeat
  BY <1>9, <1>10, <1>11, <1>12, <1>13, <1>14, <1>15, <1>16, <1>18, <1>19, <1>20, <1>24 DEF Heartbeat
<1> QED BY <1>8, <1>21, <1>22, <1>23, <1>24, NextSteps
-----------------------------------------------------------------------------
(* 3. The answer.                                                          *)

(* A card that was answered keeps its answer. *)
LEMMA CardKept ==
  ASSUME QuestionInv, [Next]_vars
  PROVE  \A q \in Questions : parent[q] \in {"reviewer", "person"} => parent'[q] = parent[q]
<1>1. parent \in [Questions -> {"absent", "pending", "reviewer", "person", "withdrawn"}]
  BY DEF QuestionInv, TypeOK
<1>2. CASE PrepareQuestionReview \/ CopyAnswer \/ Escalate
  BY <1>1, <1>2 DEF PrepareQuestionReview, PostQuestionCard, CopyAnswer, Escalate, Withdrawn
<1>3. CASE Losses \/ Others \/ UNCHANGED vars
  BY <1>1, <1>3 DEF Losses, FeedbackLost, RelayLost, PrepareLost, FormUnread, AnswerRejected, Crash, CallLost, world, vars,
     Others, Ask, Resume, Echo, PersonAnswersCard, PersonAnswersForm
<1>4. ASSUME NEW q \in Questions, NEW g \in Generations, Works(q, g)
      PROVE  UNCHANGED parent
  BY <1>4, WorkShape
<1>5. CASE Start \/ FormPending \/ FormAnswered \/ SendFeedback \/ Poll \/ WaitForHuman \/ RelayFeedback
             \/ ParentAnswered \/ ParentNotAnswered \/ CreateChild \/ ActivateChild \/ AwaitReviewer
             \/ ObserveFails \/ ReplaceReviewer
  BY <1>5 DEF Start, FormPending, FormAnswered, SendFeedback, Poll, WaitForHuman, RelayFeedback,
     ParentAnswered, ParentNotAnswered, CreateChild, ActivateChild, AwaitReviewer, ObserveFails, CallLost, ReplaceReviewer, world
<1>6. CASE AlreadyDelivered \/ AnswerEchoed \/ AwaitObservation \/ PrepareAnswer \/ SendAnswer \/ FinishAnswer \/ Return
  BY <1>6 DEF AlreadyDelivered, AnswerEchoed, AwaitObservation, PrepareAnswer, SendAnswer, FinishAnswer, Return, world
<1>7. CASE Heartbeat
  BY <1>2, <1>5, <1>6, <1>7 DEF Heartbeat
<1> QED BY <1>3, <1>4, <1>7, NextSteps

LEMMA NextPlace ==
  ASSUME QuestionInv, [Next]_vars
  PROVE  Place'
<1> USE DEF Goto
<1>1. /\ mem \in Records /\ mem.pending \in Pending /\ mem.question \in Questions \cup {NoQuestion}
      /\ parent \in [Questions -> {"absent", "pending", "reviewer", "person", "withdrawn"}]
      /\ Place
  BY DEF QuestionInv, TypeOK, Records
<1>2. CASE pc' \in {"idle", "poll", "return"}
  BY <1>2 DEF Place
<1>3. CASE UNCHANGED <<pc, mem, text>>
  <2>1. /\ pc \in {"deliver", "send", "finish"} =>
             /\ text \in Texts /\ text.by \in {"reviewer", "person"} /\ parent[text.of] = text.by
             /\ text.of \in Questions
    BY <1>1 DEF Place, Texts
  <2>2. pc \in {"deliver", "send", "finish"} => parent'[text.of] = text.by
    BY <2>1, CardKept
  <2> QED BY <1>1, <1>3, <2>1, <2>2 DEF Place
<1>4. CASE Start
  BY <1>4, <1>2 DEF Start, Place
<1>5. CASE FormPending \/ WaitForHuman \/ SendFeedback \/ RelayFeedback \/ CreateChild \/ ActivateChild \/ AwaitReviewer
             \/ ObserveFails \/ Escalate \/ AwaitObservation \/ FinishAnswer \/ Return
  BY <1>2, <1>5 DEF FormPending, WaitForHuman, SendFeedback, RelayFeedback, CreateChild, ActivateChild, AwaitReviewer,
     ObserveFails, Escalate, AwaitObservation, FinishAnswer, Return, CallLost, AnswerLost, Fail
<1>6. CASE FormAnswered
  <2>1. mem.question \in Questions
    BY <1>6, InHand DEF FormAnswered
  <2> QED BY <1>6, <2>1 DEF FormAnswered, Place, Texts
<1>7. CASE Poll
  <2>1. CASE pc' = "reconcile"
    <3>1. mem.pending = "adjudication"
      BY <1>7, <2>1, <1>1 DEF Poll, Pending
    <3>2. mem'.pending = mem.pending
      BY <1>7, <1>1 DEF Poll, Records
    <3> QED BY <2>1, <3>1, <3>2 DEF Place
  <2>2. CASE pc' = "form"
    <3>1. mem.pending = "user_feedback"
      BY <1>7, <2>2, <1>1 DEF Poll, Pending
    <3>2. mem'.pending = mem.pending
      BY <1>7, <1>1 DEF Poll, Records
    <3> QED BY <2>2, <3>1, <3>2 DEF Place
  <2>3. CASE pc' = "prepare"
    <3>1. Unresolved
      BY <1>7, <2>3 DEF Poll
    <3>2. mem'.unresolved = Latest
      BY <1>7, <1>1, <3>1 DEF Poll, Records
    <3>3. Latest \in Questions
      BY <3>1, BoundsAssumption DEF Unresolved, Latest, NoQuestion, Questions, QuestionInv, TypeOK
    <3> QED BY <2>3, <3>2, <3>3 DEF Place
  <2>4. pc' \in {"reconcile", "prepare", "form", "return"}
    BY <1>7 DEF Poll
  <2> QED BY <1>2, <2>1, <2>2, <2>3, <2>4
<1>8. CASE PrepareQuestionReview
  <2>1. CASE pc' = "observe" /\ mem' = Adjudicate(mem.unresolved, 0)
    <3>1. mem'.pending = "adjudication"
      BY <2>1, <1>1 DEF Adjudicate, Records
    <3> QED BY <2>1, <3>1 DEF Place
  <2> QED BY <1>2, <1>8, <2>1 DEF PrepareQuestionReview, AnswerLost, Fail, Save
<1>9. CASE ParentAnswered
  <2>1. mem.question \in Questions
    BY <1>9, InHand DEF ParentAnswered
  <2>2. /\ text' = [of |-> mem.question, by |-> parent[mem.question]] /\ pc' = "deliver" /\ UNCHANGED parent
        /\ parent[mem.question] \in {"reviewer", "person"}
    BY <1>9 DEF ParentAnswered, world
  <2> QED BY <2>1, <2>2 DEF Place, Texts
<1>10. CASE ParentNotAnswered
  BY <1>10, <1>1 DEF ParentNotAnswered, Place
<1>11. CASE ReplaceReviewer
  <2>1. CASE pc' = pc /\ mem' = [Adjudicate(mem.question, mem.generation + 1) EXCEPT !.recoveries = @ + 1]
    <3>1. mem'.pending = "adjudication"
      BY <2>1, <1>1 DEF Adjudicate, Records
    <3>2. pc' = "observe"
      BY <1>11, <2>1 DEF ReplaceReviewer
    <3> QED BY <3>1, <3>2 DEF Place
  <2> QED BY <1>2, <1>11, <2>1 DEF ReplaceReviewer, AnswerLost, Fail, Save
<1>12. CASE CopyAnswer
  <2>1. mem.question \in Questions
    BY <1>12, InHand DEF CopyAnswer
  <2>2. CASE /\ text' = [of |-> mem.question, by |-> "reviewer"] /\ pc' = "deliver"
             /\ parent' = [parent EXCEPT ![mem.question] = "reviewer"]
    BY <1>1, <2>1, <2>2 DEF Place, Texts
  <2> QED BY <1>2, <1>12, <2>2 DEF CopyAnswer, AnswerLost, Fail
<1>13. CASE AlreadyDelivered \/ AnswerEchoed \/ PrepareAnswer
  <2>1. pc = "deliver" /\ pc' \in {"finish", "send"} /\ UNCHANGED <<text, parent>>
    BY <1>13 DEF AlreadyDelivered, AnswerEchoed, PrepareAnswer, Undelivered, world
  <2> QED BY <1>1, <2>1 DEF Place
<1>14. CASE SendAnswer
  <2>1. CASE pc = "send" /\ pc' = "finish" /\ UNCHANGED <<text, parent>>
    BY <1>1, <2>1 DEF Place
  <2> QED BY <1>2, <1>14, <2>1 DEF SendAnswer
<1>15. CASE Losses
  <2>1. CASE FormUnread /\ pc' = "feedback"
    BY <2>1 DEF FormUnread, Place, Texts, AnsweredCards
  <2> QED BY <1>2, <1>15, <2>1
      DEF Losses, FeedbackLost, RelayLost, PrepareLost, FormUnread, AnswerRejected, Crash, CallLost, Fail
<1>16. CASE Others \/ UNCHANGED vars
  BY <1>3, <1>16 DEF Others, Ask, Resume, Echo, PersonAnswersCard, PersonAnswersForm, vars
<1>17. ASSUME NEW q \in Questions, NEW g \in Generations, Works(q, g)
       PROVE  UNCHANGED <<pc, mem, text>>
  BY <1>17, WorkShape
<1>18. CASE Heartbeat
  BY <1>4, <1>5, <1>6, <1>7, <1>8, <1>9, <1>10, <1>11, <1>12, <1>13, <1>14, <1>18 DEF Heartbeat
<1> QED BY <1>3, <1>15, <1>16, <1>17, <1>18, NextSteps

-----------------------------------------------------------------------------
Who == {"reviewer", "person"}
Message(q, who) == [of |-> q, by |-> who]

LEMMA MessageTypes ==
  /\ \A q \in Questions, who \in Who : Message(q, who) \in Texts
  /\ \A t \in Texts : t.of \in Questions /\ (t.by # "form" => t.by \in Who /\ t = Message(t.of, t.by))
  /\ \A p \in Questions, q \in Questions, v \in Who, w \in Who : Message(p, v) = Message(q, w) => p = q /\ v = w
  /\ \A q \in Questions, w \in Who, t \in Texts : t = Message(q, w) => t.of = q /\ t.by = w
<1>1. \A q \in Questions, who \in Who : Message(q, who) \in Texts
  BY DEF Who, Message, Texts
<1>2. \A t \in Texts : t.of \in Questions /\ t.by \in {"reviewer", "person", "form"} /\ t = Message(t.of, t.by)
  BY DEF Message, Texts
<1>3. \A p, q, v, w : Message(p, v) = Message(q, w) => p = q /\ v = w
  BY DEF Message
<1>4. \A q, w, t : t = Message(q, w) => t.of = q /\ t.by = w
  BY DEF Message
<1> QED BY <1>1, <1>2, <1>3, <1>4 DEF Who

(* The decisions that have reached Jules change only when one is sent. *)
LEMMA NextLanded ==
  ASSUME QuestionInv, [Next]_vars
  PROVE  \/ \A q \in Questions, who \in Who : landed'[Message(q, who)] = landed[Message(q, who)]
         \/ SendAnswer /\ Land(text)
<1> DEFINE Same == \A q \in Questions, who \in Who : landed'[Message(q, who)] = landed[Message(q, who)]
<1>1. CASE UNCHANGED landed
  BY <1>1
<1>2. ASSUME NEW t \in Texts, t.by = "form", Land(t)
      PROVE  Same
  <2>1. \A u \in Texts : u # t => landed'[u] = landed[u]
    BY <1>2, LandType DEF QuestionInv
  <2> QED BY <1>2, <2>1, MessageTypes DEF Who
<1>3. CASE SendFeedback
  <2>1. text \in Texts /\ text.by = "form" /\ Land(text)
    BY <1>3 DEF SendFeedback, QuestionInv, Place
  <2> QED BY <2>1, <1>2
<1>4. CASE RelayFeedback
  <2> DEFINE t == [of |-> mem.question, by |-> "form"]
  <2>1. t \in Texts /\ t.by = "form" /\ Land(t)
    BY <1>4, InHand DEF RelayFeedback, Texts
  <2> QED BY <2>1, <1>2
<1>5. CASE SendAnswer
  BY <1>1, <1>5 DEF SendAnswer
<1>6. CASE Start \/ FormPending \/ FormAnswered \/ Poll \/ WaitForHuman \/ PrepareQuestionReview
             \/ ParentAnswered \/ ParentNotAnswered \/ CreateChild \/ ActivateChild \/ AwaitReviewer
             \/ ObserveFails \/ ReplaceReviewer \/ CopyAnswer \/ Escalate
  BY <1>1, <1>6 DEF Start, FormPending, FormAnswered, Poll, WaitForHuman, PrepareQuestionReview, CopyAnswer, Escalate,
     ParentAnswered, ParentNotAnswered, CreateChild, ActivateChild, AwaitReviewer, ObserveFails, CallLost, ReplaceReviewer, world
<1>7. CASE AlreadyDelivered \/ AnswerEchoed \/ AwaitObservation \/ PrepareAnswer \/ FinishAnswer \/ Return
  BY <1>1, <1>7 DEF AlreadyDelivered, AnswerEchoed, AwaitObservation, PrepareAnswer, FinishAnswer, Return, world
<1>8. CASE Losses \/ Others \/ UNCHANGED vars
  BY <1>1, <1>8 DEF Losses, FeedbackLost, RelayLost, PrepareLost, FormUnread, AnswerRejected, Crash, CallLost, world, vars,
     Others, Ask, Resume, Echo, PersonAnswersCard, PersonAnswersForm
<1>9. ASSUME NEW q \in Questions, NEW g \in Generations, Works(q, g)
      PROVE  UNCHANGED landed
  BY <1>9, WorkShape
<1>10. CASE Heartbeat
  BY <1>3, <1>4, <1>5, <1>6, <1>7, <1>10 DEF Heartbeat
<1> QED BY <1>1, <1>8, <1>9, <1>10, NextSteps

(* The message that is sent is the first about its question, and says what *)
(* the card says.                                                          *)
LEMMA NextAnswers ==
  ASSUME QuestionInv, [Next]_vars
  PROVE  AnswerSentOnce' /\ JulesHearsTheCard' /\ Sent(landed') \subseteq Journaled(disk')
<1> DEFINE Same == \A q \in Questions, who \in Who : landed'[Message(q, who)] = landed[Message(q, who)]
<1>1. /\ \A q \in Questions : landed[Message(q, "reviewer")] \in 0 .. 2 /\ landed[Message(q, "person")] \in 0 .. 2
      /\ \A q \in Questions : landed[Message(q, "reviewer")] + landed[Message(q, "person")] <= 1
      /\ \A q \in Questions, who \in Who : landed[Message(q, who)] > 0 => parent[q] = who
      /\ Sent(landed) \subseteq Journaled(disk)
  BY MessageTypes DEF QuestionInv, TypeOK, AnswerSentOnce, JulesHearsTheCard, Decisions, Message, Who, Journals
<1>2. \A q \in Questions, who \in Who : landed[Message(q, who)] > 0 => parent'[q] = who
  BY <1>1, CardKept DEF Who
<1>3. Journaled(disk) \subseteq Journaled(disk')
  BY NextRecords
<1>4. CASE Same
  BY <1>1, <1>2, <1>3, <1>4 DEF AnswerSentOnce, JulesHearsTheCard, Decisions, Sent, Message, Who
<1>5. CASE SendAnswer /\ Land(text)
  <2>1. /\ text \in Texts /\ text.by \in Who /\ parent[text.of] = text.by /\ text.of \in Questions
        /\ text.of \in Journaled(disk) /\ text.of \notin Sent(landed)
    BY <1>5, MessageTypes DEF SendAnswer, QuestionInv, Place, Journals, Who
  <2>2. parent'[text.of] = text.by
    BY <2>1, CardKept DEF Who
  <2>3. landed[Message(text.of, "reviewer")] = 0 /\ landed[Message(text.of, "person")] = 0
    BY <1>1, <2>1 DEF Sent, Message
  <2>4. text = Message(text.of, text.by)
    BY <2>1, MessageTypes DEF Who
  <2>5. landed'[Message(text.of, text.by)] = 1 /\ \A u \in Texts : u # text => landed'[u] = landed[u]
    BY <1>5, <2>1, <2>3, <2>4, LandType DEF QuestionInv, Who
  <2>6. \A q \in Questions, who \in Who : <<q, who>> # <<text.of, text.by>> => landed'[Message(q, who)] = landed[Message(q, who)]
    BY <2>1, <2>4, <2>5, MessageTypes
  <2>7. \A q \in Questions, who \in Who : landed'[Message(q, who)] > 0 => parent'[q] = who
    BY <1>1, <1>2, <2>1, <2>2, <2>6
  <2>8. \A q \in Questions : landed'[Message(q, "reviewer")] + landed'[Message(q, "person")] <= 1
    BY <1>1, <2>1, <2>3, <2>5, <2>6 DEF Who
  <2>9. Sent(landed') \subseteq Journaled(disk)
    BY <1>1, <2>1, <2>6 DEF Sent, Message, Who
  <2> QED BY <1>3, <2>7, <2>8, <2>9 DEF AnswerSentOnce, JulesHearsTheCard, Decisions, Message, Who
<1> QED BY <1>4, <1>5, NextLanded

LEMMA NextJournals ==
  ASSUME QuestionInv, [Next]_vars
  PROVE  Journals'
<1>1. pc' = "send" => text'.of \in Journaled(disk') \ Sent(landed')
  <2>1. CASE PrepareAnswer
    <3> DEFINE r == [mem EXCEPT !.intent = text, !.journal[Question] = "started"]
    <3>1. /\ pc = "deliver" /\ mem.journal[Question] = "absent" /\ disk' = r
          /\ UNCHANGED <<landed, text>>
      BY <2>1 DEF PrepareAnswer, Undelivered, Save, world
    <3>2. Question \in Questions /\ mem \in Records
      BY <3>1 DEF QuestionInv, Place, Question, Texts, TypeOK
    <3>3. r.journal[Question] = "started"
      BY <3>2 DEF Records
    <3> HIDE DEF r
    <3>4. Question \notin Journaled(disk)
      BY <3>1, <3>2 DEF Journaled, QuestionInv, Journals
    <3>5. Question \notin Sent(landed)
      BY <3>4 DEF QuestionInv, Journals
    <3> QED BY <3>1, <3>2, <3>3, <3>5 DEF Journaled, Question
  <2>2. ASSUME pc' = "send"
        PROVE  PrepareAnswer \/ UNCHANGED <<pc, text, disk, landed>>
    <3> USE DEF Goto
    <3>1. CASE Start \/ FormPending \/ FormAnswered \/ SendFeedback \/ Poll \/ WaitForHuman \/ RelayFeedback
                 \/ PrepareQuestionReview \/ ParentAnswered \/ ParentNotAnswered
      BY <2>2, <3>1 DEF Start, FormPending, FormAnswered, SendFeedback, Poll, WaitForHuman, RelayFeedback,
         PrepareQuestionReview, ParentAnswered, ParentNotAnswered, AnswerLost, Fail
    <3>2. CASE CreateChild \/ ActivateChild \/ AwaitReviewer \/ ObserveFails \/ ReplaceReviewer \/ CopyAnswer \/ Escalate
      BY <2>2, <3>2 DEF CreateChild, ActivateChild, AwaitReviewer, ObserveFails, ReplaceReviewer, CopyAnswer, Escalate,
         CallLost, AnswerLost, Fail
    <3>3. CASE AlreadyDelivered \/ AnswerEchoed \/ AwaitObservation \/ SendAnswer \/ FinishAnswer \/ Return
      BY <2>2, <3>3 DEF AlreadyDelivered, AnswerEchoed, AwaitObservation, SendAnswer, FinishAnswer, Return
    <3>4. CASE Losses
      BY <2>2, <3>4 DEF Losses, FeedbackLost, RelayLost, PrepareLost, FormUnread, AnswerRejected, Crash, CallLost, Fail
    <3>5. CASE Others \/ UNCHANGED vars
      BY <3>5 DEF Others, Ask, Resume, Echo, PersonAnswersCard, PersonAnswersForm, vars
    <3>6. ASSUME NEW q \in Questions, NEW g \in Generations, Works(q, g)
          PROVE  UNCHANGED <<pc, text, disk, landed>>
      BY <3>6, WorkShape
    <3>7. CASE Heartbeat
      BY <3>1, <3>2, <3>3, <3>7 DEF Heartbeat
    <3> QED BY <3>4, <3>5, <3>6, <3>7, NextSteps
  <2> QED BY <2>1, <2>2 DEF QuestionInv, Journals
<1> QED BY <1>1, NextRecords, NextAnswers DEF Journals

-----------------------------------------------------------------------------
(* 4. The theorems.                                                        *)
LEMMA InitInv == Init => QuestionInv
<1> SUFFICES ASSUME Init PROVE QuestionInv
  OBVIOUS
<1>1. PICK used \in 0 .. Recoveries : env = [NewRecord EXCEPT !.recoveries = used]
  BY DEF Init
<1>2. /\ env \in Records /\ disk \in Records /\ mem \in Records
      /\ env.pending = "none" /\ disk.pending = "none" /\ mem.pending = "none"
  BY <1>1, NoRecord DEF Init, Records, NewRecord
<1>3. TypeOK
  <2>1. NoChild \in Children
    BY DEF NoChild, Children
  <2>2. faults \in 0 .. MaxFaults /\ jules \in [asked : 0 .. MaxQuestions, waiting : BOOLEAN]
    BY BoundsAssumption DEF Init
  <2> QED BY <1>2, <2>1, <2>2 DEF Init, TypeOK, Steps
<1>4. Succession
  BY BoundsAssumption DEF Init, Succession, Ordered, Sane, Over, NoChild, Before
<1>5. Pointers /\ Place
  BY <1>2 DEF Pointers, Follows, Place, Init
<1>6. Journals
  <2>1. \A q \in Questions, who \in Who : landed[Message(q, who)] = 0
    BY MessageTypes DEF Init
  <2> QED BY <2>1 DEF Journals, Sent, Message, Who, Init
<1>7. AnswerSentOnce /\ JulesHearsTheCard
  <2>1. \A q \in Questions, who \in Who : landed[Message(q, who)] = 0
    BY MessageTypes DEF Init
  <2> QED BY <2>1 DEF AnswerSentOnce, JulesHearsTheCard, Decisions, Message, Who
<1> QED BY <1>3, <1>4, <1>5, <1>6, <1>7 DEF QuestionInv

LEMMA InvHolds == Spec => []QuestionInv
<1>1. QuestionInv /\ [Next]_vars => QuestionInv'
  BY NextType, NextSuccession, NextRecords, NextPlace, NextJournals, NextAnswers DEF QuestionInv
<1> QED BY InitInv, <1>1, PTL DEF Spec

(* Two generations of a question are never at work together. *)
LEMMA OneAtWork ==
  ASSUME QuestionInv
  PROVE  OneReviewerAtWork
<1> SUFFICES ASSUME NEW q \in Questions
             PROVE  Cardinality({g \in Generations : child[q][g].work = "live"}) <= 1
  BY DEF OneReviewerAtWork
<1> DEFINE Live == {g \in Generations : child[q][g].work = "live"}
<1>1. ASSUME NEW g \in Live, NEW h \in Live
      PROVE  ~(g < h)
  <2>1. /\ g \in Generations /\ h \in Generations /\ child[q][g].work = "live" /\ child[q][h].work = "live"
        /\ child[q][g] \in Children /\ child[q][h] \in Children
    BY DEF QuestionInv, TypeOK
  <2>2. Ordered(child, faults, q, g) /\ Ordered(child, faults, q, h)
    BY <2>1 DEF QuestionInv, Succession
  <2>3. ~Over(child[q][g]) /\ child[q][h].owner # "nobody"
    BY <2>1, <2>2, FailedIsOver DEF Ordered
  <2> QED BY <2>1, <2>2, <2>3 DEF Ordered, Before
<1>2. \A g \in Live, h \in Live : g = h
  BY <1>1, BoundsAssumption DEF Generations
<1> HIDE DEF Live
<1>3. Cardinality(Live) <= 1
  <2>1. CASE Live = {}
    BY <2>1, FS_EmptySet
  <2>2. CASE Live # {}
    <3>1. PICK g \in Live : TRUE
      BY <2>2
    <3>2. Live = {g}
      BY <1>2, <3>1
    <3>3. Cardinality({g}) = 1
      BY FS_Singleton
    <3> QED BY <3>2, <3>3
  <2> QED BY <2>1, <2>2
<1> QED BY <1>3 DEF Live

(* Every variable keeps its type: in particular no generation is begun     *)
(* that the failures of reviewers do not account for, although a replayed  *)
(* envelope brings an older count of replacements.                         *)
THEOREM TypeCorrect == Spec => []TypeOK
  BY InvHolds, PTL DEF QuestionInv

(* A decided question is answered once (deliverQuestionAnswer), for every  *)
(* number of questions, crashes, lost answers and stale envelopes.         *)
THEOREM AnswerIsSentOnce == Spec => []AnswerSentOnce
  BY InvHolds, PTL DEF QuestionInv

(* What Jules is told is what the card of the issue says, also when the    *)
(* reviewer and a person answer at the same time.                          *)
THEOREM JulesIsToldTheCard == Spec => []JulesHearsTheCard
  BY InvHolds, PTL DEF QuestionInv

(* A generation of the review is begun only when the ones before it are    *)
(* over (observeQuestionChild), from however old a record.                 *)
THEOREM OneGenerationAtWork == Spec => []OneReviewerAtWork
  BY InvHolds, OneAtWork, PTL
=============================================================================
