--------------------------- MODULE TerminalDelivery ---------------------------
(***************************************************************************)
(* What Jules delivers, and how the adapter hands it on: the second half   *)
(* of a heartbeat of execute.ts, for a session that works on its plan.     *)
(* A rejection of the reviewers is relayed to Jules, the ownership of the  *)
(* issue is fenced, a confirmation that no pull request                    *)
(* was needed is consumed, and the poll registers the pull request, waits  *)
(* for its checks, asks for the confirmation, or ends the session.         *)
(*                                                                         *)
(* Answering a question and reviewing a plan are other modules: here the   *)
(* environment answers a question and decides a plan once the session      *)
(* waits for it.                                                           *)
(***************************************************************************)
EXTENDS Naturals, FiniteSets

CONSTANTS
  MaxHeads,    \* bound on the heads Jules pushes to its pull request
  MaxQuestions,\* bound on the questions of Jules
  MaxFaults,   \* bound on the kinds of failures in one behaviour
  Faults       \* the kinds of failures that may happen, each at most once

FaultKinds == {"crash", "lost", "response", "unread", "late_wake", "late_run", "late_push", "late_rule"}

ASSUME BoundsAssumption ==
  /\ MaxHeads \in Nat /\ MaxQuestions \in Nat /\ MaxFaults \in Nat
  /\ Faults \subseteq FaultKinds

VARIABLES
  jules,      \* the provider's session: its state, its latest head, its questions
  ci,         \* the checks of the latest head
  verdict,    \* the reviewers' card of each head
  merged,     \* whether the pull request was merged
  board,      \* the head of the registered work product; NoHead without one
  handle,     \* the head in Jules' document on the issue
  plan,       \* whether a plan is still at its card: "pending" or "none"
  heard,      \* how often each message reached Jules; 2 stands for more
  echoed,     \* the messages Jules shows as messages of the user
  acted,      \* the messages after which Jules did something
  card,       \* the two possible confirmations of a completion without pull request
  issue,      \* who has to act on the issue
  ending,     \* how the session ended
  required,   \* whether the task demands a pull request
  env, disk, mem,  \* the session: replayed envelope, recovery record, this run's copy
  pc, found, seen, \* the step of the run, the rejection it carries, whether the poll names a PR
  faults

remote == <<jules, ci, verdict, merged>>
paper == <<board, handle, plan, card, issue, ending>>
inbox == <<heard, echoed, acted>>
world == <<remote, paper, inbox, required>>
vars == <<world, env, disk, mem, pc, found, seen, faults>>

-----------------------------------------------------------------------------
Heads == 1 .. MaxHeads
NoHead == 0
Newest == jules.head

(* The messages that must not reach Jules twice: the rejection of a head,  *)
(* and the demand for a pull request the task requires.                    *)
Feedback(h) == [kind |-> "feedback", head |-> h]
RequiredPr == [kind |-> "required", head |-> NoHead]
Messages == {Feedback(h) : h \in Heads} \cup {RequiredPr}

Keys == [kind : {"feedback"}, head : Heads] \cup [kind : {"none", "other"}, head : {NoHead}]
NoKey == [kind |-> "none", head |-> NoHead]
OtherKey == [kind |-> "other", head |-> NoHead]
Continuations == {"none", "sent", "acknowledged", "reminded"}
Attempts == {"absent", "started", "confirmed"}
Pending == {"none", "plan", "completion", "adjudication"}

Records == [known : BOOLEAN, pr : BOOLEAN, head : Heads \cup {NoHead}, registered : BOOLEAN,
            delivered : Heads \cup {NoHead}, awaited : Continuations, slot : Keys,
            fingerprint : Heads \cup {NoHead}, pending : Pending, reissued : BOOLEAN, asked : Attempts]
NewRecord == [known |-> TRUE, pr |-> FALSE, head |-> NoHead, registered |-> FALSE,
              delivered |-> NoHead, awaited |-> "none", slot |-> NoKey,
              fingerprint |-> NoHead, pending |-> "none", reissued |-> FALSE, asked |-> "absent"]
NoRecord == [NewRecord EXCEPT !.known = FALSE]

Steps == {"idle", "feedback", "send", "record", "completion", "confirm", "poll", "reminder",
          "missing", "demand", "demanded", "lookup", "handoff", "register", "registered", "route", "post_card"}
Terminal == {"completed", "failed"}
Endings == {"none", "confirmed", "refused", "merged", "remediation", "retry"}

Init ==
  /\ jules = [state |-> "working", head |-> NoHead, asked |-> 0, answered |-> 0]
  /\ ci = "pending" /\ merged = FALSE
  /\ verdict = [h \in Heads |-> "none"]
  /\ board = NoHead /\ handle = NoHead /\ plan \in {"none", "pending"}
  /\ heard = [m \in Messages |-> 0] /\ echoed = {} /\ acted = {}
  /\ card = [base |-> "absent", reissue |-> "absent"]
  /\ issue = "in_progress" /\ ending = "none"
  /\ required \in BOOLEAN
  /\ env = [NewRecord EXCEPT !.pending = IF plan = "pending" THEN "plan" ELSE "none"]
  /\ disk = env /\ mem = NoRecord
  /\ pc = "idle" /\ found = NoHead /\ seen = FALSE /\ faults = {}

Fault(k) ==
  /\ k \in Faults \ faults /\ Cardinality(faults) < MaxFaults
  /\ faults' = faults \cup {k}
NoFault == UNCHANGED faults
Goto(step) == pc' = step

(* persistSessionBestEffort: the recovery record, and the document of the  *)
(* issue, which keeps a complete identity of a pull request.               *)
Store(r) == mem' = r /\ disk' = r
Save(r) ==
  /\ Store(r)
  /\ handle' = IF r.pr /\ r.head # NoHead THEN r.head ELSE handle

(* A run ends with its session as the next envelope.                       *)
Rest == mem' = NoRecord /\ found' = NoHead /\ seen' = FALSE /\ Goto("idle")
Return(r) == env' = r /\ Rest
Keep(r) ==
  /\ disk' = r /\ Return(r)
  /\ handle' = IF r.pr /\ r.head # NoHead THEN r.head ELSE handle
Leave(how) == Keep(mem) /\ ending' = how
End(how) == env' = NoRecord /\ disk' = NoRecord /\ ending' = how /\ Rest

-----------------------------------------------------------------------------
(* Mutant: the demand for a pull request is not restored from the record.  *)
MergeForgetsDemand(r, stored) ==
  [r EXCEPT !.pr = @ \/ stored.pr,
            !.head = IF @ # NoHead THEN @ ELSE stored.head,
            !.delivered = IF @ # NoHead THEN @ ELSE stored.delivered,
            !.awaited = IF @ # "none" THEN @ ELSE stored.awaited,
            !.pending = IF @ # "none" THEN @ ELSE stored.pending,
            !.reissued = IF r.pending # "none" THEN @ ELSE stored.reissued]

(* The start of a run.  A pull request found merged ends the session first,*)
(* unless its head is not the registered one.  Then the record fills what  *)
(* the envelope lacks, but for the slot of the last mutation, the checks   *)
(* already reported and the registration, which only the envelope carries. *)
Merge(r, stored) ==
  [r EXCEPT !.pr = @ \/ stored.pr,
            !.head = IF @ # NoHead THEN @ ELSE stored.head,
            !.delivered = IF @ # NoHead THEN @ ELSE stored.delivered,
            !.awaited = IF @ # "none" THEN @ ELSE stored.awaited,
            !.pending = IF @ # "none" THEN @ ELSE stored.pending,
            !.reissued = IF r.pending # "none" THEN @ ELSE stored.reissued,
            !.asked = IF "confirmed" \in {@, stored.asked} THEN "confirmed"
                      ELSE IF "started" \in {@, stored.asked} THEN "started" ELSE "absent"]
Resumed == IF ~env.known THEN (IF disk.known THEN disk ELSE NewRecord)
           ELSE IF disk.known THEN Merge(env, disk) ELSE env

Restored ==
  IF handle # NoHead THEN [Resumed EXCEPT !.pr = TRUE, !.head = handle]
  ELSE IF ~Resumed.pr /\ board # NoHead THEN [Resumed EXCEPT !.pr = TRUE, !.head = Newest, !.registered = TRUE]
  ELSE Resumed

(* The rejection a run carries: that of its wake, or that of the card of   *)
(* the head GitHub names; a failed reading finds nothing.                  *)
Rejected(h) == h \in Heads /\ verdict[h] = "rejected"
Latest(h) == Rejected(h) /\ \A g \in Heads : Rejected(g) => g <= h
Found(h) ==
  \/ h = (IF mem'.pr /\ Rejected(Newest) THEN Newest ELSE NoHead) /\ NoFault
  \/ Latest(h) /\ NoFault
  \/ h = NoHead /\ mem'.pr /\ Rejected(Newest) /\ Fault("unread")
  \/ Rejected(h) /\ ~Latest(h) /\ Fault("late_wake")

Startable == pc = "idle" /\ ending = "none" /\ issue # "done"
MergeSeen == merged /\ (env.pr \/ board # NoHead)

Start ==
  /\ Startable /\ issue # "in_review" /\ ~MergeSeen
  /\ mem' = Restored
  /\ \E h \in Heads \cup {NoHead} : Found(h) /\ found' = h
  /\ Goto("feedback")
  /\ UNCHANGED <<world, env, disk, seen>>

(* The issue is no longer Jules': the fence drops the session.             *)
StartFenced ==
  /\ Startable /\ issue = "in_review" /\ ~MergeSeen /\ Fault("late_run")
  /\ env' = NoRecord /\ disk' = NoRecord
  /\ UNCHANGED <<world, mem, pc, found, seen>>

StartMerged ==
  /\ Startable /\ issue # "in_review" /\ NoFault /\ MergeSeen /\ board \in {NoHead, Newest}
  /\ board' = Newest /\ issue' = "done" /\ End("merged")
  /\ UNCHANGED <<remote, handle, plan, card, inbox, required>>

-----------------------------------------------------------------------------
Delivered == found = NoHead \/ mem.delivered = found

(* A rejection of the current head comes before a pending plan card.       *)
Supersedes == ~Delivered /\ mem.pending = "plan" /\ (mem.head = found \/ mem.head = NoHead)
SupersedePlan ==
  /\ pc = "feedback" /\ Supersedes
  /\ plan' = "none" /\ Save([mem EXCEPT !.pending = "none"])
  /\ UNCHANGED <<remote, board, card, issue, ending, inbox, required, env, pc, found, seen>> /\ NoFault

SupersedeLost ==
  /\ pc = "feedback" /\ Supersedes /\ Fault("lost") /\ Return(mem)
  /\ UNCHANGED <<world, disk>>

NoFeedback ==
  /\ pc = "feedback" /\ Delivered
  /\ Goto(IF mem.pending = "completion" THEN "completion" ELSE "poll")
  /\ UNCHANGED <<world, env, disk, mem, found, seen>> /\ NoFault

(* The message is written down in the only slot of the session before it   *)
(* is sent; when its outcome is unknown the next runs look for its echo.   *)
BeginFeedback ==
  /\ pc = "feedback" /\ ~Delivered /\ ~Supersedes /\ mem.slot # Feedback(found)
  /\ Store([mem EXCEPT !.slot = Feedback(found)])
  /\ Goto("send")
  /\ UNCHANGED <<remote, board, handle, plan, card, issue, ending, inbox, required, env, found, seen>> /\ NoFault

(* A message that Jules accepts brings a session that rests to work again, *)
(* or is only shown.                                                       *)
Stir == jules' \in {jules, [jules EXCEPT !.state = "working"]}
Land(m) ==
  /\ heard' = [heard EXCEPT ![m] = IF @ = 2 THEN 2 ELSE @ + 1]
  /\ acted' = acted \ {m}
  /\ Stir
Unheard == UNCHANGED <<heard, acted, jules>>

SendFeedback ==
  /\ pc = "send"
  /\ \/ NoFault /\ Land(Feedback(found)) /\ Goto("record") /\ UNCHANGED <<env, mem, found, seen>>
     \/ Fault("response") /\ Land(Feedback(found)) /\ Return(mem)
     \/ Fault("lost") /\ Unheard /\ Return(mem)
  /\ UNCHANGED <<ci, verdict, merged, paper, echoed, required, disk>>

AwaitEcho ==
  /\ pc = "feedback" /\ ~Delivered /\ ~Supersedes /\ mem.slot = Feedback(found)
  /\ IF Feedback(found) \in echoed THEN Goto("record") /\ UNCHANGED <<env, mem, found, seen>> ELSE Return(mem)
  /\ UNCHANGED <<world, disk>> /\ NoFault

RecordFeedback ==
  /\ pc = "record"
  /\ Keep([mem EXCEPT !.delivered = found, !.awaited = "sent"])
  /\ UNCHANGED <<remote, board, plan, card, issue, ending, inbox, required>> /\ NoFault

-----------------------------------------------------------------------------
(* Mutant: the card that was asked again is forgotten.                     *)
WhichBase == "base"

(* The confirmation of a completion without pull request.                  *)
Which == IF mem.reissued THEN "reissue" ELSE "base"
Open == jules.asked > jules.answered
Completion == pc = "completion"
Resolved == card[Which] \in {"accepted", "rejected"}

DemandFirst == required /\ ~mem.pr /\ jules.state = "completed"
DemandSure == DemandFirst /\ Newest = NoHead
CompletionMissesPr ==
  /\ Completion /\ DemandFirst
  /\ Goto("missing")
  /\ UNCHANGED <<world, env, disk, mem, found, seen>> /\ NoFault

(* A question of Jules since then withdraws the card, a failure of which   *)
(* is ignored.                                                             *)
CompletionQuestioned ==
  /\ Completion /\ ~DemandSure /\ Open
  /\ Save([mem EXCEPT !.pending = "none"])
  /\ \/ NoFault /\ card' = [card EXCEPT ![Which] = IF @ = "pending" THEN "superseded" ELSE @]
     \/ Fault("lost") /\ UNCHANGED card
  /\ Goto("poll")
  /\ UNCHANGED <<remote, board, plan, issue, ending, inbox, required, env, found, seen>>

CompletionOpen ==
  /\ Completion /\ ~DemandSure /\ ~Open /\ ~Resolved
  /\ Goto("poll")
  /\ UNCHANGED <<world, env, disk, mem, found, seen>> /\ NoFault

CompletionResolved ==
  /\ Completion /\ ~DemandSure /\ ~Open /\ Resolved
  /\ disk' = NoRecord
  /\ Goto("confirm")
  /\ UNCHANGED <<world, env, mem, found, seen>> /\ NoFault

CompletionUnread ==
  /\ Completion /\ ~DemandSure /\ Fault("unread") /\ Return(mem)
  /\ UNCHANGED <<world, disk>>

(* moveIssueToDone, after the record was deleted.                          *)
Confirm ==
  /\ pc = "confirm"
  /\ \/ /\ NoFault
        /\ IF card[Which] = "accepted" THEN issue' = "done" /\ End("confirmed")
           ELSE UNCHANGED issue /\ End("refused")
     \/ /\ Fault("lost") /\ card[Which] = "accepted"
        /\ Return(mem) /\ disk' \in {disk, mem} /\ UNCHANGED <<issue, ending>>
  /\ UNCHANGED <<remote, board, handle, plan, card, inbox, required>>

-----------------------------------------------------------------------------
(* recoverRequiredPullRequest: one message, ever.                          *)
Missing == pc = "missing"

BeginDemand ==
  /\ Missing /\ mem.asked = "absent"
  /\ Store([mem EXCEPT !.asked = "started"])
  /\ Goto("demand")
  /\ UNCHANGED <<remote, board, handle, plan, card, issue, ending, inbox, required, env, found, seen>> /\ NoFault

Demand ==
  /\ pc = "demand"
  /\ \/ NoFault /\ Land(RequiredPr) /\ Goto("demanded") /\ UNCHANGED <<env, mem, found, seen>>
     \/ Fault("response") /\ Land(RequiredPr) /\ Return(mem)
     \/ Fault("lost") /\ Unheard /\ Return(mem)
  /\ UNCHANGED <<ci, verdict, merged, paper, echoed, required, disk>>

DemandEchoed ==
  /\ Missing /\ mem.asked = "started" /\ RequiredPr \in echoed
  /\ Goto("demanded")
  /\ UNCHANGED <<world, env, disk, mem, found, seen>> /\ NoFault

DemandAwaited ==
  /\ Missing
  /\ \/ mem.asked # "absent" /\ RequiredPr \notin echoed
     \/ mem.asked = "confirmed" /\ RequiredPr \in echoed
  /\ Return(mem)
  /\ UNCHANGED <<world, disk>> /\ NoFault

(* A pending confirmation is withdrawn; a failure ends the run.            *)
Withdrawable == mem.pending = "completion" /\ card[Which] = "pending"
(* Mutant: the confirmation stays open beside the pull request.            *)
WithdrawnNever == card

Withdrawn == IF Withdrawable THEN [card EXCEPT ![Which] = "cancelled"] ELSE card

ConfirmDemand ==
  /\ pc = "demanded"
  /\ LET r == [mem EXCEPT !.asked = "confirmed"] IN
     \/ /\ NoFault /\ card' = Withdrawn /\ issue' = "in_progress"
        /\ disk' = [r EXCEPT !.pending = "none"] /\ Return([r EXCEPT !.pending = "none"])
     \/ /\ Fault("lost") /\ Withdrawable /\ disk' = r /\ Return(r)
        /\ UNCHANGED <<card, issue>>
  /\ UNCHANGED <<remote, board, handle, plan, ending, inbox, required>>

-----------------------------------------------------------------------------
(* The poll.  A session that is at work has no pull request to hand over,  *)
(* whatever it delivered before.                                           *)
Acknowledged(r) == [r EXCEPT !.awaited = IF @ = "sent" /\ Feedback(r.delivered) \in acted THEN "acknowledged" ELSE @]
Settled(r) ==
  [r EXCEPT !.pending = IF Open THEN "adjudication"
                        ELSE IF @ = "adjudication" \/ (@ = "plan" /\ plan = "none") THEN "none" ELSE @]
Cleared(r) == [r EXCEPT !.pr = FALSE, !.head = NoHead, !.registered = FALSE]

PollFails ==
  /\ pc = "poll" /\ Fault("unread") /\ Keep(mem)
  /\ UNCHANGED <<remote, board, plan, card, issue, ending, inbox, required>>

(* Only a session that waits without a question is told of its red checks. *)
ChecksDue(r) == jules.state = "awaiting" /\ ci = "failed" /\ r.pending = "none" /\ r.fingerprint # Newest
PollLive ==
  /\ pc = "poll" /\ jules.state \notin Terminal
  /\ LET r == Settled(Acknowledged(Cleared(mem))) IN
     \/ NoFault /\ Keep(r) /\ UNCHANGED jules    \* nothing to tell, or the poll names no pull request
     \/ NoFault /\ ChecksDue(r) /\ Stir /\ Keep([r EXCEPT !.fingerprint = Newest])
     \/ Fault("response") /\ ChecksDue(r) /\ Stir /\ Keep(r)
  /\ UNCHANGED <<ci, verdict, merged, board, plan, card, issue, ending, inbox, required>>

(* The poll of a session that ended may leave out its pull request.        *)
PollQuestion ==
  /\ pc = "poll" /\ jules.state \in Terminal /\ Open
  /\ Keep(Settled(Acknowledged(mem)))
  /\ UNCHANGED <<remote, board, plan, card, issue, ending, inbox, required>> /\ NoFault

PollTerminal ==
  /\ pc = "poll" /\ jules.state \in Terminal /\ ~Open
  /\ Save(Settled(Acknowledged(mem)))
  /\ seen' \in {FALSE, Newest # NoHead}
  /\ Goto("reminder")
  /\ UNCHANGED <<remote, board, plan, card, issue, ending, inbox, required, env, found>> /\ NoFault

ReminderDue == ~seen /\ mem.pr /\ mem.awaited = "acknowledged"
Remind ==
  /\ pc = "reminder" /\ ReminderDue
  /\ \/ NoFault /\ Stir /\ Keep([mem EXCEPT !.awaited = "reminded"])
     \/ Fault("response") /\ Stir /\ Keep(mem)
     \/ Fault("lost") /\ UNCHANGED jules /\ Keep(mem)
  /\ UNCHANGED <<ci, verdict, merged, board, plan, card, issue, ending, inbox, required>>

NoReminder ==
  /\ pc = "reminder" /\ ~ReminderDue
  /\ Goto(IF seen \/ mem.pr THEN "handoff" ELSE IF jules.state = "completed" THEN "lookup" ELSE "route")
  /\ UNCHANGED <<world, env, disk, mem, found, seen>> /\ NoFault

(* The confirmation may be resolved although the session forgot it.        *)
LookupResolved ==
  /\ pc = "lookup" /\ card.base \in {"accepted", "rejected"}
  /\ disk' = NoRecord /\ Goto("confirm")
  /\ UNCHANGED <<world, env, mem, found, seen>> /\ NoFault

LookupNothing ==
  /\ pc = "lookup"
  /\ IF card.base \in {"accepted", "rejected"} THEN Fault("unread") ELSE NoFault
  /\ Goto("route")
  /\ UNCHANGED <<world, env, disk, mem, found, seen>>

-----------------------------------------------------------------------------
(* A pull request withdraws the confirmation, then is registered.          *)
Handoff ==
  /\ pc = "handoff"
  /\ \/ /\ NoFault /\ card' = Withdrawn
        /\ Save(IF mem.pending = "completion" THEN [mem EXCEPT !.pending = "none"] ELSE mem)
        /\ Goto("register") /\ UNCHANGED <<env, found, seen>>
     \/ Fault("lost") /\ Withdrawable /\ Keep(mem) /\ UNCHANGED card
  /\ UNCHANGED <<remote, board, plan, issue, ending, inbox, required>>

RegistrationRequired == ~mem.pr \/ ~mem.registered \/ merged \/ mem.head # Newest
BeginRegister ==
  /\ pc = "register"
  /\ IF RegistrationRequired THEN Save([mem EXCEPT !.pr = TRUE, !.slot = OtherKey]) /\ Goto("registered")
     ELSE Save(mem) /\ Goto("route")
  /\ UNCHANGED <<remote, board, plan, card, issue, ending, inbox, required, env, found, seen>> /\ NoFault

RegisterUnread ==
  /\ pc = "register" /\ Fault("unread") /\ Keep(mem)
  /\ UNCHANGED <<remote, board, plan, card, issue, ending, inbox, required>>

Register ==
  /\ pc = "registered"
  /\ \/ /\ NoFault /\ board' = Newest
        /\ Save([mem EXCEPT !.registered = TRUE, !.head = Newest])
        /\ Goto("route") /\ UNCHANGED <<env, found, seen>>
     \/ Fault("response") /\ board' = Newest /\ Keep(mem)
     \/ Fault("lost") /\ UNCHANGED board /\ Keep(mem)
  /\ UNCHANGED <<remote, plan, card, issue, ending, inbox, required>>

-----------------------------------------------------------------------------
(* decideTerminalPrLifecycle and the no-PR completion.                     *)
AtRoute == pc = "route"
Merged == mem.pr /\ merged
Conflicting == mem.pr /\ ~merged /\ ci = "conflict"
PlanWaits == mem.pending = "plan" /\ ~Merged /\ ~Conflicting
Decided == ~Merged /\ ~Conflicting /\ ~PlanWaits

RouteMerged ==
  /\ AtRoute /\ Merged /\ End("merged")
  /\ UNCHANGED <<remote, board, handle, plan, card, issue, inbox, required>> /\ NoFault

(* A conflict waits for the host's rebase, a plan for its reviewers, and a *)
(* pull request for its checks.                                            *)
RouteWaits ==
  /\ AtRoute
  /\ \/ Conflicting
     \/ PlanWaits
     \/ Decided /\ mem.pr /\ jules.state = "completed" /\ ci = "pending"
  /\ Keep(mem)
  /\ UNCHANGED <<remote, board, plan, card, issue, ending, inbox, required>> /\ NoFault

RouteToReview ==
  /\ AtRoute /\ Decided /\ mem.pr /\ jules.state = "completed" /\ ci = "success"
  /\ \/ NoFault /\ board' = (IF board = NoHead THEN Newest ELSE board)
     \/ Fault("lost") /\ UNCHANGED board
  /\ Keep([mem EXCEPT !.slot = OtherKey])
  /\ UNCHANGED <<remote, plan, card, issue, ending, inbox, required>>

RouteToRemediation ==
  /\ AtRoute /\ Decided /\ mem.pr
  /\ jules.state = "failed" \/ ci = "failed"
  /\ Leave("remediation")
  /\ UNCHANGED <<remote, board, plan, card, issue, inbox, required>> /\ NoFault

RouteFailure ==
  /\ AtRoute /\ Decided /\ ~mem.pr /\ jules.state = "failed"
  /\ Leave("retry")
  /\ UNCHANGED <<remote, board, plan, card, issue, inbox, required>> /\ NoFault

NoPr == AtRoute /\ Decided /\ ~mem.pr /\ jules.state = "completed"
RouteMissing ==
  /\ NoPr /\ required
  /\ Goto("missing")
  /\ UNCHANGED <<world, env, disk, mem, found, seen>> /\ NoFault

RouteUnconfirmed ==
  /\ NoPr /\ ~required /\ mem.pending = "completion"
  /\ issue' = "blocked" /\ Return(mem)
  /\ UNCHANGED <<remote, board, handle, plan, card, ending, inbox, required, disk>> /\ NoFault

(* A card withdrawn for a question is asked again, once; one withdrawn for *)
(* another reason is an error.                                             *)
RouteCancelled ==
  /\ NoPr /\ ~required /\ mem.pending # "completion" /\ card.base = "cancelled" /\ Return(mem)
  /\ UNCHANGED <<world, disk>> /\ NoFault

BeginCard ==
  /\ NoPr /\ ~required /\ mem.pending # "completion" /\ card.base # "cancelled"
  /\ Save([mem EXCEPT !.slot = OtherKey]) /\ Goto("post_card")
  /\ UNCHANGED <<remote, board, plan, card, issue, ending, inbox, required, env, found, seen>> /\ NoFault

PostCard ==
  /\ pc = "post_card"
  /\ LET again == card.base = "superseded"
         w == IF again THEN "reissue" ELSE "base"
         posted == [card EXCEPT ![w] = IF @ = "absent" THEN "pending" ELSE @]
         r == [mem EXCEPT !.pending = "completion", !.reissued = again]
     IN \/ /\ NoFault /\ card' = posted /\ Save(r)
           /\ IF card[w] \in {"accepted", "rejected"}
              THEN Goto("confirm") /\ UNCHANGED <<issue, env, found, seen>>
              ELSE Goto("route") /\ UNCHANGED <<issue, env, found, seen>>
        \/ Fault("response") /\ card' = posted /\ Keep(mem) /\ UNCHANGED issue
        \/ Fault("lost") /\ UNCHANGED <<card, issue>> /\ Keep(mem)
  /\ UNCHANGED <<remote, board, plan, ending, inbox, required>>

-----------------------------------------------------------------------------
Run ==
  \/ Start \/ StartMerged \/ StartFenced \/ SupersedePlan \/ SupersedeLost \/ NoFeedback
  \/ BeginFeedback \/ SendFeedback \/ AwaitEcho \/ RecordFeedback
  \/ CompletionMissesPr \/ CompletionQuestioned \/ CompletionOpen
  \/ CompletionResolved \/ CompletionUnread \/ Confirm
  \/ BeginDemand \/ Demand \/ DemandEchoed \/ DemandAwaited \/ ConfirmDemand
  \/ PollFails \/ PollLive \/ PollQuestion \/ PollTerminal \/ Remind \/ NoReminder
  \/ LookupResolved \/ LookupNothing \/ Handoff \/ BeginRegister \/ RegisterUnread \/ Register
  \/ RouteMerged \/ RouteWaits \/ RouteToReview \/ RouteToRemediation \/ RouteFailure
  \/ RouteMissing \/ RouteUnconfirmed \/ RouteCancelled \/ BeginCard \/ PostCard

(* The process dies: the envelope is that of the run before.               *)
Crash ==
  /\ pc # "idle" /\ Fault("crash") /\ Rest
  /\ UNCHANGED <<world, env, disk>>

-----------------------------------------------------------------------------
(* Jules, the reviewers of pull requests and of plans, and the person who  *)
(* confirms a completion.                                                  *)
LocalUnchanged == UNCHANGED <<env, disk, mem, pc, found, seen>>
Active == acted' = {Feedback(h) : h \in {g \in Heads : heard[Feedback(g)] > 0}}

Push ==
  /\ jules.state = "working" /\ Newest < MaxHeads
  /\ jules' = [jules EXCEPT !.head = @ + 1] /\ ci' = "pending" /\ Active
  /\ UNCHANGED <<verdict, merged, paper, heard, echoed, required>> /\ NoFault

Rests ==
  /\ jules.state \in {"working", "awaiting"}
  /\ jules' \in {[jules EXCEPT !.state = s] : s \in {"working", "awaiting"} \cup Terminal} /\ Active
  /\ UNCHANGED <<ci, verdict, merged, paper, heard, echoed, required>> /\ NoFault

Ask ==
  /\ jules.asked < MaxQuestions /\ ~Open /\ plan = "none" /\ jules.state # "failed"
  /\ jules' = [jules EXCEPT !.asked = @ + 1, !.state = IF @ = "completed" THEN @ ELSE "awaiting"] /\ Active
  /\ UNCHANGED <<ci, verdict, merged, paper, heard, echoed, required>> /\ NoFault

Answer ==
  /\ Open /\ pc = "idle" /\ env.pending = "adjudication"
  /\ jules' \in {[jules EXCEPT !.answered = @ + 1, !.state = s] : s \in {jules.state, "working"}}
  /\ UNCHANGED <<ci, verdict, merged, paper, inbox, required>> /\ NoFault

Echo ==
  /\ \E m \in Messages \ echoed : heard[m] > 0 /\ echoed' = echoed \cup {m}
  /\ UNCHANGED <<remote, paper, heard, acted, required>> /\ NoFault

ChecksEnd ==
  /\ ci = "pending" /\ Newest # NoHead /\ ci' \in {"success", "failed", "conflict"}
  /\ UNCHANGED <<jules, verdict, merged, paper, inbox, required>> /\ NoFault

DecidePlan ==
  /\ plan = "pending" /\ plan' = "none"
  /\ UNCHANGED <<remote, board, handle, card, issue, ending, inbox, required>> /\ NoFault

OpenReview ==
  /\ pc = "idle" /\ issue = "in_progress" /\ board # NoHead /\ board = Newest /\ ci = "success"
  /\ verdict[board] = "none"
  /\ verdict' = [verdict EXCEPT ![board] = "open"] /\ issue' = "in_review"
  /\ UNCHANGED <<jules, ci, merged, board, handle, plan, card, ending, inbox, required>> /\ NoFault

Review ==
  /\ \E h \in Heads :
       /\ verdict[h] = "open"
       /\ \/ verdict' = [verdict EXCEPT ![h] = "rejected"] /\ issue' = "in_progress"
          \/ verdict' = [verdict EXCEPT ![h] = "accepted"] /\ UNCHANGED issue
  /\ UNCHANGED <<jules, ci, merged, board, handle, plan, card, ending, inbox, required>> /\ NoFault

MergePr ==
  /\ ~merged /\ Newest # NoHead
  /\ IF verdict[Newest] = "accepted" THEN NoFault ELSE Fault("late_push")
  /\ merged' = TRUE /\ issue' = (IF issue = "in_review" THEN "in_progress" ELSE issue)
  /\ UNCHANGED <<jules, ci, verdict, board, handle, plan, card, ending, inbox, required>>

Demands ==
  /\ ~required /\ card.base = "pending" /\ Fault("late_rule") /\ required' = TRUE
  /\ UNCHANGED <<remote, paper, inbox>>

Resolve ==
  /\ \E w \in DOMAIN card : card[w] = "pending" /\ card' \in {[card EXCEPT ![w] = v] : v \in {"accepted", "rejected"}}
  /\ UNCHANGED <<remote, board, handle, plan, issue, ending, inbox, required>> /\ NoFault

Environment ==
  /\ ending = "none"
  /\ Push \/ Rests \/ Ask \/ Answer \/ Echo \/ ChecksEnd \/ DecidePlan \/ OpenReview \/ Review \/ MergePr \/ Demands \/ Resolve
  /\ LocalUnchanged

Next == Run \/ Crash \/ Environment
Spec == Init /\ [][Next]_vars

(* A wake or a monitor starts a run of an issue in progress, and of one    *)
(* whose confirmation was resolved; a run goes on; Jules shows a message.  *)
Wakened == issue = "in_progress" \/ pc # "idle" \/ \E w \in DOMAIN card : card[w] \in {"accepted", "rejected"}
FairSpec == Spec /\ WF_vars(Run /\ Wakened) /\ WF_vars(Environment /\ Echo)

-----------------------------------------------------------------------------
TypeOK ==
  /\ jules \in [state : {"working", "awaiting"} \cup Terminal, head : Heads \cup {NoHead},
                asked : 0 .. MaxQuestions, answered : 0 .. MaxQuestions]
  /\ ci \in {"pending", "success", "failed", "conflict"} /\ merged \in BOOLEAN
  /\ verdict \in [Heads -> {"none", "open", "rejected", "accepted"}]
  /\ board \in Heads \cup {NoHead} /\ handle \in Heads \cup {NoHead} /\ plan \in {"none", "pending"}
  /\ heard \in [Messages -> 0 .. 2] /\ echoed \subseteq Messages /\ acted \subseteq Messages
  /\ card \in [{"base", "reissue"} -> {"absent", "pending", "accepted", "rejected", "superseded", "cancelled"}]
  /\ issue \in {"in_progress", "in_review", "blocked", "done"} /\ ending \in Endings
  /\ required \in BOOLEAN
  /\ env \in Records /\ disk \in Records /\ mem \in Records
  /\ pc \in Steps /\ found \in Heads \cup {NoHead} /\ seen \in BOOLEAN /\ faults \subseteq Faults

(* A message that changes what Jules works on is sent once: the rejection  *)
(* of a head, unless the run that recorded it died, was given up with its  *)
(* session or carried an older rejection.  The answer to the message may   *)
(* be lost: only a newer head, or cards that could not be read, make a     *)
(* later run overwrite the slot that remembers it.  The demand for a pull  *)
(* request is sent once: the envelope or the record keeps its attempt, and *)
(* one crash (Fault allows each kind once) does not cost both.             *)
MessagesSentOnce ==
  /\ faults \cap {"crash", "late_wake", "late_run"} = {} =>
       \A h \in Heads : heard[Feedback(h)] <= 1 \/ ("response" \in faults /\ (Newest # h \/ "unread" \in faults))
  /\ heard[RequiredPr] <= 1

(* The person is never asked to confirm that no pull request was needed    *)
(* while the board shows one, once the run that registered it has ended,   *)
(* unless no run learned that the card was posted, or a question of Jules  *)
(* took its place in the session.                                          *)
NoConfirmationBesidePr ==
  pc = "idle" /\ faults \cap {"crash", "response"} = {} /\ jules.asked = 0 /\ board # NoHead
    => "pending" \notin {card.base, card.reissue}

(* A rejection of the latest head reaches Jules, however the plan card,    *)
(* the confirmation and the poll stand, unless a newer head or the end of  *)
(* the session makes it moot, or its message was lost on the way.          *)
Moot(h) == Newest # h \/ ending # "none" \/ merged \/ issue = "done" \/ "lost" \in faults
RejectionIsDelivered ==
  \A h \in Heads : (verdict[h] = "rejected") ~> (heard[Feedback(h)] > 0 \/ Moot(h))

(* A confirmed completion ends the task, unless Jules asks, goes to work   *)
(* again or delivers a pull request meanwhile, or the task requires one.   *)
Reopened == Open \/ jules.state # "completed" \/ Newest # NoHead \/ required
ConfirmationEndsTask ==
  (\E w \in DOMAIN card : card[w] = "accepted") ~> (ending # "none" \/ issue = "done" \/ Reopened)

(* What people decide about a completed session takes its course.          *)
TerminalWorkSettles == RejectionIsDelivered /\ ConfirmationEndsTask
=============================================================================
