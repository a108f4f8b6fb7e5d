-------------------------- MODULE ChildPlanReview --------------------------
(***************************************************************************)
(* The child-scoped plan review: every stage of a plan review is an issue  *)
(* of its own, a child of the issue that Jules works on.  The parent's     *)
(* heartbeat (packages/jules/src/server/execute.ts) creates the child,     *)
(* hands it to the bootstrap agent, whose run posts the reviewer's card,   *)
(* then hands it to the reviewer, and acts on the verdict: Luna's approval *)
(* opens Terra's child, Terra's approves the plan in Jules, a rejection    *)
(* asks Jules for another plan.                                            *)
(*                                                                         *)
(* mem, disk and env are the copies of the parent's session as in          *)
(* NativePlanReview.  A run that fails for good leaves the parent held:    *)
(* Paperclip starts no run of a held issue, the orchestrator releases the  *)
(* holds it can prove harmless, an operator any other.                     *)
(***************************************************************************)
EXTENDS Naturals, FiniteSets, JulesLifecycle

CONSTANTS
  MaxPlans,     \* plan activities Jules publishes (a bound)
  MaxRevs,      \* revisions of the parent's plan document (a bound)
  MaxFaults,    \* faults that happen (a bound)
  Faults        \* the kinds of fault that may happen

FaultKinds ==
  {"crash",     \* the parent's run ends between two steps
   "lost",      \* a remote call of the parent fails before it takes effect
   "response",  \* a remote call of the parent fails after it took effect
   "history",   \* the activity history cannot be read to its end
   "drift",     \* Jules starts to work on a plan nobody approved
   "replan",    \* Jules replaces a plan nobody asked it to revise
   "fail",      \* the session of Jules fails
   "pause",     \* a reviewer agent is paused
   "cancel",    \* a queued run of a child is cancelled before it starts
   "run",       \* a run of a child fails
   "override",  \* somebody else answers a reviewer's card
   "edit"}      \* a person edits the plan document

ASSUME ChildReviewAssumption ==
  /\ MaxPlans \in Nat /\ MaxRevs \in Nat /\ MaxFaults \in Nat
  /\ Faults \subseteq FaultKinds

NoPlan == 0
Plans == 1..MaxPlans
Placeholder == MaxPlans + 1    \* the activity id "awaiting-plan-approval"
PlanIds == 1..Placeholder
Revs == 1..MaxRevs
Stages == {"luna", "terra"}
Cards == Revs \X Stages

NoChild == <<0, "none">>
NoRequest == [card |-> NoChild, state |-> "none"]
Attempts == {"absent", "started", "confirmed"}

Sessions ==
  [child : Cards \cup {NoChild},              \* childPlanReview.identity
   known : BOOLEAN,                           \* childPlanReview.childId is saved
   request : [card : Cards, state : {"prepared", "delivered"}] \cup {NoRequest},
   superseded : PlanIds \cup {NoPlan},
   approved : PlanIds \cup {NoPlan},          \* planApprovedActivityId
   outcome : {"none", "revision_requested", "approved"},
   journal : [Revs -> Attempts]]              \* the approve effect of each revision

NewSession ==
  [child |-> NoChild, known |-> FALSE, request |-> NoRequest, superseded |-> NoPlan,
   approved |-> NoPlan, outcome |-> "none", journal |-> [r \in Revs |-> "absent"]]

Outputs == {"none", "patch", "pr"}
JulesStates == {"PLANNING", "AWAITING_PLAN_APPROVAL", "IN_PROGRESS", "COMPLETED", "FAILED"}

ChildIssues ==
  [status : {"absent", "backlog", "todo", "blocked", "done"},
   owner : {"boot", "reviewer"},
   run : {"none", "queued", "check", "post", "park", "end", "review", "finish"},
   card : {"none", "pending", "approve", "reject", "override"},
   source : {"none", "live", "succeeded", "failed"},   \* the run that posted the card
   attempt : {"none", "cancelled", "succeeded", "failed"}]   \* the reviewer's newest run

NoIssue ==
  [status |-> "absent", owner |-> "boot", run |-> "none", card |-> "none",
   source |-> "none", attempt |-> "none"]

Holds == {"none", "conflict", "unverified", "failed", "polling", "shutdown"}

Steps ==
  {"idle", "poll", "scan", "request", "history", "observe", "create", "waiting",
   "answered", "rescan", "repoll", "verdict", "send", "record_request",
   "approve", "confirm", "record_approved", "plan", "save_document", "open_luna",
   "yield", "return"}

VARIABLES
  disk, env, mem,   \* the three copies of the parent's session
  pc,               \* the step the parent's run is at
  snap,             \* what the run has read of Jules
  target,           \* the plan a document revision is saved for
  hold,             \* why the parent is held (executionBlocker)
  jules,            \* Jules: state, outputs, newest plan, a revision asked for
  witness,          \* plans with a planApproved activity
  echoes,           \* revision requests mirrored as userMessaged activities
  children,         \* the child issue of each revision and stage
  available,        \* the reviewers that are not paused
  planOf, lastRev,  \* the plan of each document revision (NoPlan: a person's edit), and the newest
  approvals,        \* approvePlan calls that reached Jules, by revision
  requests,         \* revision requests that reached Jules, by card
  adoption,         \* the operator's receipt and journal of an approval by hand
  faults            \* faults so far

session == <<disk, env, mem>>
run == <<pc, snap, target>>
board == <<children, available, planOf, lastRev>>
provider == <<jules, witness, echoes, approvals, requests>>
vars == <<session, run, hold, provider, board, adoption, faults>>

NoSnapshot == [state |-> "PLANNING", out |-> "none", plan |-> NoPlan, witnessed |-> FALSE, echoed |-> FALSE]

NoTarget == [plan |-> NoPlan, rev |-> 0]

TypeOK ==
  /\ disk \in Sessions /\ env \in Sessions /\ mem \in Sessions
  /\ pc \in Steps
  /\ snap \in [state : JulesStates, out : Outputs, plan : Plans \cup {NoPlan},
               witnessed : BOOLEAN, echoed : BOOLEAN]
  /\ target \in [plan : PlanIds \cup {NoPlan}, rev : Revs \cup {0}]
  /\ hold \in Holds
  /\ jules \in [state : JulesStates, out : Outputs, plan : Plans \cup {NoPlan}, asked : BOOLEAN]
  /\ witness \subseteq Plans /\ echoes \subseteq Cards
  /\ children \in [Cards -> ChildIssues]
  /\ available \subseteq Stages
  /\ planOf \in [Revs -> PlanIds \cup {NoPlan}] /\ lastRev \in Revs \cup {0}
  /\ approvals \in [Revs -> Nat] /\ requests \in [Cards -> Nat]
  /\ adoption \in [rev : Revs \cup {0}, state : {"none", "receipt", "intent", "saved", "confirmed"}]
  /\ faults \in 0..MaxFaults

Init ==
  /\ disk = NewSession /\ env = NewSession /\ mem = NewSession
  /\ pc = "idle" /\ snap = NoSnapshot /\ target = NoTarget
  /\ hold = "none"
  /\ jules = [state |-> "PLANNING", out |-> "none", plan |-> NoPlan, asked |-> FALSE]
  /\ witness = {} /\ echoes = {}
  /\ children = [c \in Cards |-> NoIssue] /\ available = Stages
  /\ planOf = [r \in Revs |-> NoPlan] /\ lastRev = 0
  /\ approvals = [r \in Revs |-> 0] /\ requests = [c \in Cards |-> 0]
  /\ adoption = [rev |-> 0, state |-> "none"] /\ faults = 0

-----------------------------------------------------------------------------
(* Startup: mergeDurableSessionCheckpoints of the replayed envelope and    *)
(* the recovered disk record.                                              *)

Or(replayed, recovered, unset) == IF replayed # unset THEN replayed ELSE recovered

PlanOf(c) == IF c = NoChild THEN NoPlan ELSE planOf[c[1]]

DecisionConsumed(replayed, recovered) ==
  /\ replayed.child # NoChild
  /\ PlanOf(replayed.child) \in {recovered.approved, PlanOf(recovered.request.card)}

NewerIntent(replayed, recovered) ==
  /\ recovered.child # NoChild
  /\ \/ replayed.child = NoChild
     \/ replayed.child = <<recovered.child[1], "luna">> /\ recovered.child[2] = "terra"

ChildSource(replayed, recovered) ==
  IF NewerIntent(replayed, recovered) \/ replayed.child = NoChild THEN recovered ELSE replayed

HasConfirmedApproval(s) ==
  s.outcome = "approved" /\ s.approved # NoPlan /\ \E r \in Revs : s.journal[r] = "confirmed"

ApprovedSource(replayed, recovered) ==
  IF HasConfirmedApproval(recovered) /\ ~HasConfirmedApproval(replayed) THEN recovered ELSE replayed

MergeAttempt(replayed, recovered) ==
  IF recovered = "absent" \/ replayed = "confirmed" THEN replayed ELSE recovered

(* Mutant: a decided review comes back with an older envelope. *)
MergeRevives(replayed, recovered) ==
  LET from == ChildSource(replayed, recovered)
      source == ApprovedSource(replayed, recovered)
      proven == HasConfirmedApproval(source)
  IN  [child |-> from.child, known |-> from.known,
       request |-> Or(replayed.request, recovered.request, NoRequest),
       superseded |-> Or(replayed.superseded, recovered.superseded, NoPlan),
       outcome |-> IF proven THEN source.outcome ELSE Or(replayed.outcome, recovered.outcome, "none"),
       approved |-> IF proven THEN source.approved ELSE Or(replayed.approved, recovered.approved, NoPlan),
       journal |-> [r \in Revs |-> MergeAttempt(replayed.journal[r], recovered.journal[r])]]
MergeCheckpoints(replayed, recovered) ==
  LET from == ChildSource(replayed, recovered)
      consumed == DecisionConsumed(replayed, recovered)
      source == ApprovedSource(replayed, recovered)
      proven == HasConfirmedApproval(source)
  IN  [child |-> IF consumed THEN NoChild ELSE from.child,
       known |-> ~consumed /\ from.known,
       request |-> Or(replayed.request, recovered.request, NoRequest),
       superseded |-> Or(replayed.superseded, recovered.superseded, NoPlan),
       outcome |-> IF proven THEN source.outcome ELSE Or(replayed.outcome, recovered.outcome, "none"),
       approved |-> IF proven THEN source.approved ELSE Or(replayed.approved, recovered.approved, NoPlan),
       journal |-> [r \in Revs |-> MergeAttempt(replayed.journal[r], recovered.journal[r])]]

ApprovalsAgree(replayed, recovered) ==
  HasConfirmedApproval(replayed) /\ HasConfirmedApproval(recovered)
    => replayed.approved = recovered.approved

-----------------------------------------------------------------------------
(* How a step ends.                                                        *)

Fault(kind) == kind \in Faults /\ faults < MaxFaults /\ faults' = faults + 1

EndRun == mem' = NewSession /\ pc' = "idle" /\ snap' = NoSnapshot /\ target' = NoTarget

Goto(step) == pc' = step /\ UNCHANGED <<session, snap, target, hold, provider, board, adoption, faults>>

(* saveStoredSession of the changed session, then the next step. *)
Save(s, step) ==
  /\ mem' = s /\ disk' = s /\ pc' = step
  /\ UNCHANGED <<env, snap, target, hold, provider, board, adoption, faults>>

(* A result with exit code 1 and no error family: its sessionParams become *)
(* the envelope, and Paperclip holds the parent.                           *)
Held(reason) ==
  /\ env' = mem /\ hold' = reason /\ EndRun
  /\ UNCHANGED <<disk, provider, board, adoption>>
Fail(reason) == Held(reason) /\ UNCHANGED faults

(* A call that took effect answers, or its response is lost: a transient   *)
(* error, which ends the run through yieldHeartbeat.                       *)
Answer(step) ==
  \/ pc' = step /\ UNCHANGED faults
  \/ pc' = "yield" /\ Fault("response")

NoChildOf(s) == [s EXCEPT !.child = NoChild, !.known = FALSE]

-----------------------------------------------------------------------------
(* A run starts, polls Jules and reads its activities.                     *)

Start ==
  /\ pc = "idle" /\ hold = "none" /\ ApprovalsAgree(env, disk)
  /\ mem' = MergeCheckpoints(env, disk) /\ pc' = "poll"
  /\ UNCHANGED <<disk, env, snap, target, hold, provider, board, adoption, faults>>

(* Where a run goes on once it knows the state of Jules. *)
PollInto(step) ==
  /\ snap' = [snap EXCEPT !.state = jules.state, !.out = jules.out] /\ pc' = step
  /\ UNCHANGED <<session, target, hold, provider, board, adoption, faults>>

Poll == pc = "poll" /\ PollInto("scan")

(* The approval effect counts as witnessed by an activity after its start. *)
History ==
  [snap EXCEPT !.plan = jules.plan,
               !.witnessed = jules.plan \in witness,
               !.echoed = mem.request.card \in echoes]

ReadInto(step) ==
  /\ snap' = History /\ pc' = step
  /\ UNCHANGED <<session, target, hold, provider, board, adoption, faults>>

(* The first list of a run is not needed: a failure of it is ignored. *)
Scan ==
  \/ pc = "scan" /\ ReadInto("request")
  \/ /\ pc = "scan" /\ Fault("history") /\ pc' = "request"
     /\ UNCHANGED <<session, snap, target, hold, provider, board, adoption>>

AfterRequest == IF mem.child # NoChild THEN "history" ELSE "plan"

NoPendingRequest == pc = "request" /\ mem.request = NoRequest /\ Goto(AfterRequest)

RequestFulfilled ==
  /\ pc = "request" /\ mem.request # NoRequest
  /\ snap.plan \notin {NoPlan, PlanOf(mem.request.card)}
  /\ Save([mem EXCEPT !.request = NoRequest], AfterRequest)

Delivered ==
  [mem EXCEPT !.request.state = "delivered", !.outcome = "revision_requested",
              !.superseded = PlanOf(mem.request.card)]

RequestPending ==
  /\ pc = "request" /\ mem.request # NoRequest
  /\ snap.plan \in {NoPlan, PlanOf(mem.request.card)}
  /\ IF DecideRevisionDelivery(mem.request.state, snap.echoed) = "record_delivery"
     THEN Save(Delivered, "yield") ELSE Goto("yield")

-----------------------------------------------------------------------------
(* decidePlanProviderAction: what may be done about the plan of the child  *)
(* under review, from the snapshot s of Jules, the approve effect and the  *)
(* verdict ("none" before the card is read).                               *)

Rev == mem.child[1]
Stage == mem.child[2]
Attempt == mem.journal[Rev]
Witnessed(s) == Attempt = "started" /\ s.witnessed

Given(verdict, approve) ==
  CASE verdict = "approve" -> approve [] verdict = "none" -> "wait" [] OTHER -> "conflict"

DecideStarted(s, verdict) ==
  CASE s.state = "FAILED" \/ verdict = "reject" -> "conflict"
    [] s.state \in {"IN_PROGRESS", "COMPLETED"} /\ s.out # "none" /\ ~Witnessed(s) -> "unverified"
    [] s.state = "IN_PROGRESS" /\ ~Witnessed(s) -> "observe"
    [] OTHER -> Given(verdict, "reconcile")

DecideCompleted(s, verdict) ==
  CASE Attempt = "confirmed" -> Given(verdict, IF s.out = "none" THEN "approve_once" ELSE "recorded_work")
    [] s.out # "none" -> "unverified"
    [] verdict = "reject" -> "request_revision"
    [] OTHER -> Given(verdict, "approve_once")

DecideUnstarted(s, verdict) ==
  CASE s.state = "FAILED" -> "conflict"
    [] s.state = "COMPLETED" -> DecideCompleted(s, verdict)
    [] s.state = "IN_PROGRESS" /\ Attempt = "absent" ->
         IF s.out # "none" THEN "unverified" ELSE "observe"
    [] Attempt = "confirmed" -> Given(verdict, "approve_once")
    [] s.state # "AWAITING_PLAN_APPROVAL" -> "wait"
    [] verdict = "reject" -> "request_revision"
    [] OTHER -> Given(verdict, "approve_once")

DecidePlanProviderAction(s, verdict) ==
  CASE s.plan # planOf[Rev] -> "conflict"
    [] s.plan = planOf[Rev] /\ Attempt = "started" -> DecideStarted(s, verdict)
    [] OTHER -> DecideUnstarted(s, verdict)

-----------------------------------------------------------------------------
(* A review is under way: the history is read to its end, Jules is judged  *)
(* without a verdict, and the observation is saved before the child is     *)
(* touched.                                                                *)

PlanReplaced(s) == s.plan \notin {NoPlan, planOf[Rev]}

Judged(s) == DecidePlanProviderAction(s, "none")

IncompleteHistory == pc \in {"history", "rescan"} /\ Fault("history") /\ Held("conflict")

RetireReplaced ==
  \/ pc = "history" /\ PlanReplaced(History) /\ Save(NoChildOf(mem), "yield")
  \/ pc = "verdict" /\ PlanReplaced(snap) /\ Save(NoChildOf(mem), "yield")

(* Progress that nothing explains is the reason of the hold only when it   *)
(* is found without a verdict.                                             *)
HoldUnjudged ==
  /\ pc = "history" /\ ~PlanReplaced(History)
  /\ Judged(History) \in {"conflict", "unverified"}
  /\ Fail(IF Judged(History) = "unverified" /\ snap.state = "IN_PROGRESS" /\ snap.out = "patch"
          THEN "unverified" ELSE "conflict")

(* A recorded approval whose work is done needs no observation, and the    *)
(* heartbeat throws where it would be found without a verdict; Given never *)
(* returns it there.                                                       *)
ReadHistory ==
  /\ pc = "history" /\ ~PlanReplaced(History)
  /\ Judged(History) \notin {"conflict", "unverified"}
  /\ snap' = History /\ disk' = mem /\ pc' = "observe"
  /\ UNCHANGED <<mem, env, target, hold, provider, board, adoption, faults>>

-----------------------------------------------------------------------------
(* reconcileChildPlanReview: the one place where the parent writes to the  *)
(* child of a stage.                                                       *)

Child == children[mem.child]

BootObservation(c) ==
  CASE mem.child[2] \notin available \/ c.run # "none" -> "wait"
    [] c.status # "backlog" \/ (c.card # "none" /\ c.source # "succeeded") -> "broken"
    [] OTHER -> "activate"

(* Mutant: a reviewer whose queued run was cancelled is not woken again. *)
PendingObservationOnce(c) ==
  CASE c.status \notin {"blocked", "backlog"} \/ c.run # "none" \/ c.attempt = "cancelled" -> "wait"
    [] c.source # "succeeded" \/ c.attempt \in {"succeeded", "failed"} -> "broken"
    [] mem.child[2] \notin available -> "wait"
    [] OTHER -> "activate"
PendingObservation(c) ==
  CASE c.status \notin {"blocked", "backlog"} \/ c.run # "none" -> "wait"
    [] c.source # "succeeded" \/ c.attempt \in {"succeeded", "failed"} -> "broken"
    [] mem.child[2] \notin available -> "wait"
    [] OTHER -> "activate"

Observation ==
  CASE lastRev # Rev -> "broken"
    [] Child.status = "absent" -> "create"
    [] Child.status # "absent" /\ Child.owner = "boot" -> BootObservation(Child)
    [] Child.owner = "reviewer" /\ Child.card = "pending" -> PendingObservation(Child)
    [] Child.owner = "reviewer" /\ Child.card = "override" -> "broken"
    [] OTHER -> "answered"

Observing == pc \in {"observe", "create"}

ObserveBroken == Observing /\ Observation = "broken" /\ Fail("failed")

(* A child just created or looked up again is activated by a later poll. *)
ObserveChild ==
  /\ Observing /\ Observation \in {"wait", "answered"}
  /\ Goto(IF pc = "observe" /\ Observation = "answered" THEN "answered" ELSE "waiting")

CreateChild ==
  /\ Observing /\ Observation = "create"
  /\ children' = [children EXCEPT ![mem.child] = [NoIssue EXCEPT !.status = "backlog"]]
  /\ Answer("waiting")
  /\ UNCHANGED <<session, snap, target, hold, provider, available, planOf, lastRev, adoption>>

ActivateChild ==
  /\ Observing /\ Observation = "activate"
  /\ children' = [children EXCEPT ![mem.child] =
       [Child EXCEPT !.status = "todo", !.run = "queued",
          !.owner = IF Child.owner = "reviewer" \/ Child.card # "none" THEN "reviewer" ELSE "boot"]]
  /\ Answer("waiting")
  /\ UNCHANGED <<session, snap, target, hold, provider, available, planOf, lastRev, adoption>>

Verdict == Child.card

SaveWaiting == pc = "waiting" /\ Save([mem EXCEPT !.known = TRUE], "yield")

SaveAnswered ==
  /\ pc = "answered"
  /\ Save([mem EXCEPT !.known = TRUE],
          IF Stage = "terra" \/ Verdict = "reject" THEN "rescan" ELSE "verdict")

(* The boundary is read again before a verdict leads to a remote write:    *)
(* the history first, then the session, which would be stale after it.     *)
Rescan == pc = "rescan" /\ ReadInto("repoll")
Repoll == pc = "repoll" /\ PollInto("verdict")

-----------------------------------------------------------------------------
(* The verdict.                                                            *)

Decision == DecidePlanProviderAction(snap, Verdict)
Deciding == pc = "verdict" /\ ~PlanReplaced(snap)

HoldVerdict == Deciding /\ Decision \in {"conflict", "unverified"} /\ Fail("conflict")

Approved(s) == [NoChildOf(s) EXCEPT !.approved = planOf[s.child[1]], !.outcome = "approved"]

RecordedWork ==
  /\ Deciding /\ Decision = "recorded_work"
  /\ IF Stage = "terra" /\ snap.out = "pr" THEN Save(Approved(mem), "yield") ELSE Fail("failed")

Proceeding == Deciding /\ Decision \notin {"conflict", "unverified", "recorded_work"}

(* Mutant: any answer of Luna opens the next stage. *)
LunaAnswered ==
  /\ Proceeding /\ Stage = "luna"
  /\ Save([mem EXCEPT !.child = <<Rev, "terra">>, !.known = FALSE], "create")
(* Luna's approval only opens the next stage, even while the progress of   *)
(* Jules is unexplained.                                                   *)
LunaApproved ==
  /\ Proceeding /\ Stage = "luna" /\ Verdict = "approve"
  /\ Save([mem EXCEPT !.child = <<Rev, "terra">>, !.known = FALSE], "create")

Rejected ==
  /\ Proceeding /\ Verdict = "reject"
  /\ IF Decision = "request_revision"
     THEN Save([NoChildOf(mem) EXCEPT !.request = [card |-> mem.child, state |-> "prepared"]], "send")
     ELSE Goto("yield")

TerraApproves == Proceeding /\ Stage = "terra" /\ Verdict = "approve"

TerraWaits == TerraApproves /\ Decision \notin {"approve_once", "reconcile"} /\ Goto("yield")

TerraActs == TerraApproves /\ Decision \in {"approve_once", "reconcile"}

MayApprove ==
  \/ snap.state = "AWAITING_PLAN_APPROVAL"
  \/ snap.state = "COMPLETED" /\ snap.out = "none"
  \/ snap.state = "COMPLETED" /\ Witnessed(snap) /\ snap.out = "pr"
  \/ snap.state = "IN_PROGRESS" /\ Attempt # "absent"

HoldTerra == TerraActs /\ ~MayApprove /\ Fail("conflict")

Lifecycle ==
  [provider |-> CASE snap.state = "COMPLETED" /\ snap.out = "pr" -> "completed"
                  [] snap.state = "IN_PROGRESS" -> "in_progress"
                  [] OTHER -> "awaiting_plan",
   review |-> "resolved", reviewer |-> "terra", verdict |-> "approve",
   effect |-> IF Attempt = "absent" THEN "not_started" ELSE Attempt, monitor |-> "scheduled"]

Disposition ==
  RunJulesLifecycle(Lifecycle, IF Attempt = "started" THEN "run_interrupted" ELSE "heartbeat", "approve_plan")

Evidence ==
  IF snap.state \in {"IN_PROGRESS", "COMPLETED"} /\ Witnessed(snap)
  THEN "same_session_progressed" ELSE "same_plan_pending"

Attempted(attempt) == [mem EXCEPT !.journal[Rev] = attempt]

(* Mutant: the approval is noted in memory only before it is sent. *)
TerraApprovedInMemory ==
  /\ TerraActs /\ MayApprove
  /\ \/ /\ Disposition = "execute" /\ mem' = Attempted("started") /\ pc' = "approve"
        /\ UNCHANGED <<disk, env, snap, target, hold, provider, board, adoption, faults>>
     \/ /\ Disposition = "reconcile"
        /\ IF ReconcileNativePlanEffect("approve_plan", Evidence) = "confirmed"
           THEN Save(Attempted("confirmed"), "record_approved") ELSE Goto("yield")
     \/ /\ Disposition = "defer"
        /\ Goto(IF Attempt = "confirmed" THEN "record_approved" ELSE "yield")
TerraApproved ==
  /\ TerraActs /\ MayApprove
  /\ \/ Disposition = "execute" /\ Save(Attempted("started"), "approve")
     \/ /\ Disposition = "reconcile"
        /\ IF ReconcileNativePlanEffect("approve_plan", Evidence) = "confirmed"
           THEN Save(Attempted("confirmed"), "record_approved") ELSE Goto("yield")
     \/ /\ Disposition = "defer"
        /\ Goto(IF Attempt = "confirmed" THEN "record_approved" ELSE "yield")

(* approvePlan names the session; Jules approves what awaits approval. *)
Approvable(j) ==
  j.state = "AWAITING_PLAN_APPROVAL" \/ (j.state = "COMPLETED" /\ j.out = "none")

Accept(r) ==
  /\ approvals' = [approvals EXCEPT ![r] = @ + 1]
  /\ jules' = [jules EXCEPT !.state = "IN_PROGRESS", !.asked = FALSE]
  /\ witness' = witness \cup {jules.plan}

ApprovePlan ==
  \/ /\ pc = "approve" /\ Approvable(jules)
     /\ Accept(Rev) /\ Answer("confirm")
     /\ UNCHANGED <<session, snap, target, hold, board, echoes, requests, adoption>>
  \/ pc = "approve" /\ ~Approvable(jules) /\ Fail("failed")

ConfirmApprove == pc = "confirm" /\ Save(Attempted("confirmed"), "record_approved")
RecordApproved == pc = "record_approved" /\ Save(Approved(mem), "yield")

(* deliverFreshPlanRevision after the request was prepared and saved; a    *)
(* session that failed refuses the message.                                *)
SendRequest ==
  \/ /\ pc = "send" /\ jules.state # "FAILED"
     /\ requests' = [requests EXCEPT ![mem.request.card] = @ + 1]
     /\ jules' = [jules EXCEPT !.asked = TRUE]
     /\ Answer("record_request")
     /\ UNCHANGED <<session, snap, target, hold, board, witness, echoes, approvals, adoption>>
  \/ pc = "send" /\ jules.state = "FAILED" /\ Fail("polling")

RecordRequest == pc = "record_request" /\ Save(Delivered, "yield")

-----------------------------------------------------------------------------
(* No review is under way: CREATE_PLAN_CARD for a plan that needs one.     *)

PlanReviewDue ==
  /\ ~(snap.out = "pr" /\ snap.state \in {"COMPLETED", "FAILED"})
  /\ \/ IsPlanApprovalRequired(snap.plan, mem.approved, mem.superseded, NoPlan)
     \/ snap.state = "AWAITING_PLAN_APPROVAL"

PlanNotDue == pc = "plan" /\ (~PlanReviewDue \/ mem.approved # NoPlan) /\ Goto("yield")

OpenReview ==
  /\ pc = "plan" /\ PlanReviewDue /\ mem.approved = NoPlan
  /\ mem' = [mem EXCEPT !.superseded = NoPlan] /\ disk' = mem'
  /\ target' = [plan |-> IF snap.plan = NoPlan THEN Placeholder ELSE snap.plan, rev |-> 0]
  /\ pc' = "save_document"
  /\ UNCHANGED <<env, snap, hold, provider, board, adoption, faults>>

SaveDocument ==
  /\ pc = "save_document"
  /\ \/ lastRev < MaxRevs /\ lastRev' = lastRev + 1
     \/ lastRev > 0 /\ planOf[lastRev] = target.plan /\ UNCHANGED lastRev
  /\ planOf' = [planOf EXCEPT ![lastRev'] = target.plan]
  /\ target' = [target EXCEPT !.rev = lastRev']
  /\ Answer("open_luna")
  /\ UNCHANGED <<session, snap, hold, provider, children, available, adoption>>

OpenLuna ==
  pc = "open_luna" /\ Save([mem EXCEPT !.child = <<target.rev, "luna">>, !.known = FALSE], "create")

-----------------------------------------------------------------------------
(* The end of a run.                                                       *)

YieldHeartbeat == pc = "yield" /\ Save(mem, "return")

Return ==
  /\ pc = "return" /\ env' = mem /\ EndRun
  /\ UNCHANGED <<disk, hold, provider, board, adoption, faults>>

(* A host that shuts down in order marks the run as interrupted and holds  *)
(* its issue; one that dies leaves nothing.                                *)
Crash ==
  /\ pc # "idle" /\ Fault("crash")
  /\ EndRun /\ hold' \in {"none", "shutdown"}
  /\ UNCHANGED <<disk, env, provider, board, adoption>>

(* A call that fails before it takes effect. *)
RequestLost ==
  /\ pc \in {"poll", "observe", "create", "repoll", "approve", "send", "save_document"}
  /\ Fault("lost")
  /\ pc' = "yield"
  /\ UNCHANGED <<session, snap, target, hold, provider, board, adoption>>

-----------------------------------------------------------------------------
(* The runs of a child.  Paperclip starts a queued run, unless it is       *)
(* cancelled before; a run that ends without its result blocks the issue   *)
(* of a reviewer.                                                          *)

BoardOnly == UNCHANGED <<session, run, hold, provider, planOf, lastRev, adoption>>

Child_(c, issue) == children' = [children EXCEPT ![c] = issue]

Issue(c) == children[c]

StartChildRun(c) ==
  /\ Issue(c).run = "queued"
  /\ Child_(c, [Issue(c) EXCEPT !.run = IF Issue(c).owner = "boot" THEN "check" ELSE "review"])
  /\ BoardOnly /\ UNCHANGED <<available, faults>>

CancelChildRun(c) ==
  /\ Issue(c).run = "queued" /\ Fault("cancel")
  /\ Child_(c, [Issue(c) EXCEPT !.run = "none", !.status = "blocked",
                  !.attempt = IF Issue(c).owner = "reviewer" THEN "cancelled" ELSE @])
  /\ BoardOnly /\ UNCHANGED available

(* bootstrapChildPlanReview reads the child, the parent, the document and  *)
(* the cards; a reviewer that cannot be invoked parks the child without a  *)
(* card.                                                                   *)
BootRefuses(c) ==
  \/ hold # "none" \/ lastRev # c[1]
  \/ Issue(c).status \notin {"todo", "backlog"}
  \/ Issue(c).card \notin {"none", "pending"}

BootFailed(c) ==
  [Issue(c) EXCEPT !.run = "none", !.source = IF @ = "live" THEN "failed" ELSE @]

Parked(c, step) == [Issue(c) EXCEPT !.status = "backlog", !.run = step]

BootCheck(c) ==
  /\ Issue(c).run = "check"
  /\ Child_(c, CASE BootRefuses(c) -> BootFailed(c)
                 [] Issue(c).card = "pending" -> [Issue(c) EXCEPT !.run = "park"]
                 [] c[2] \notin available -> Parked(c, "end")
                 [] OTHER -> [Issue(c) EXCEPT !.run = "post"])
  /\ BoardOnly /\ UNCHANGED <<available, faults>>

BootPost(c) ==
  /\ Issue(c).run = "post"
  /\ Child_(c, IF c[2] \in available
               THEN [Issue(c) EXCEPT !.card = "pending", !.source = "live", !.run = "park"]
               ELSE Parked(c, "end"))
  /\ BoardOnly /\ UNCHANGED <<available, faults>>

BootPark(c) ==
  /\ Issue(c).run = "park"
  /\ Child_(c, Parked(c, "end"))
  /\ BoardOnly /\ UNCHANGED <<available, faults>>

BootEnd(c) ==
  /\ Issue(c).run = "end"
  /\ Child_(c, [Issue(c) EXCEPT !.run = "none", !.source = IF @ = "live" THEN "succeeded" ELSE @])
  /\ BoardOnly /\ UNCHANGED <<available, faults>>

(* The reviewer's run submits its verdict and then completes its own child. *)
SubmitVerdict(c, verdict) ==
  /\ Issue(c).run = "review" /\ Issue(c).card = "pending"
  /\ Child_(c, [Issue(c) EXCEPT !.card = verdict, !.run = "finish"])
  /\ BoardOnly /\ UNCHANGED <<available, faults>>

CompleteChild(c) ==
  /\ Issue(c).run = "finish"
  /\ Child_(c, [Issue(c) EXCEPT !.status = "done", !.run = "none", !.attempt = "succeeded"])
  /\ BoardOnly /\ UNCHANGED <<available, faults>>

(* The card was answered by somebody else: the submission is refused. *)
ReviewRefused(c) ==
  /\ Issue(c).run = "review" /\ Issue(c).card # "pending"
  /\ Child_(c, [Issue(c) EXCEPT !.run = "none", !.status = "blocked", !.attempt = "failed"])
  /\ BoardOnly /\ UNCHANGED <<available, faults>>

ChildRunFails(c) ==
  /\ Issue(c).run \in {"check", "post", "park", "end", "review", "finish"} /\ Fault("run")
  /\ Child_(c, IF Issue(c).owner = "boot" THEN BootFailed(c)
               ELSE [Issue(c) EXCEPT !.run = "none", !.status = "blocked", !.attempt = "failed"])
  /\ BoardOnly /\ UNCHANGED available

Bootstrap(c) == BootCheck(c) \/ BootPost(c) \/ BootPark(c) \/ BootEnd(c)
Reviewer(c) ==
  \/ \E verdict \in {"approve", "reject"} : SubmitVerdict(c, verdict)
  \/ CompleteChild(c) \/ ReviewRefused(c)
ChildRun(c) == StartChildRun(c) \/ Bootstrap(c) \/ Reviewer(c)

Override(c) ==
  /\ Issue(c).card = "pending" /\ Fault("override")
  /\ Child_(c, [Issue(c) EXCEPT !.card = "override"])
  /\ BoardOnly /\ UNCHANGED available

Pause(stage) ==
  /\ stage \in available /\ Fault("pause")
  /\ available' = available \ {stage}
  /\ BoardOnly /\ UNCHANGED children

Resume(stage) ==
  /\ stage \notin available /\ available' = available \cup {stage}
  /\ BoardOnly /\ UNCHANGED <<children, faults>>

EditPlan ==
  /\ lastRev \in 1..(MaxRevs - 1) /\ Fault("edit")
  /\ lastRev' = lastRev + 1
  /\ UNCHANGED <<session, run, hold, provider, children, available, planOf, adoption>>

-----------------------------------------------------------------------------
(* Jules.                                                                  *)

JulesOnly == UNCHANGED <<session, run, hold, echoes, approvals, requests, board, adoption>>

Publish ==
  /\ jules.plan < MaxPlans
  /\ jules' = [jules EXCEPT !.state = "AWAITING_PLAN_APPROVAL", !.plan = @ + 1, !.asked = FALSE]
  /\ JulesOnly /\ UNCHANGED witness

FirstPlan == jules.state = "PLANNING" /\ Publish /\ UNCHANGED faults
RevisedPlan ==
  /\ jules.state = "AWAITING_PLAN_APPROVAL" \/ (jules.state = "COMPLETED" /\ jules.out = "none")
  /\ jules.asked /\ Publish /\ UNCHANGED faults
Replan == jules.state = "AWAITING_PLAN_APPROVAL" /\ ~jules.asked /\ Fault("replan") /\ Publish

(* Work on the approved plan ends with a pull request, a change set or     *)
(* without output.                                                         *)
Finish ==
  /\ jules.state = "IN_PROGRESS"
  /\ \E out \in IF jules.out = "none" THEN Outputs ELSE {"patch", "pr"} :
       jules' = [jules EXCEPT !.state = "COMPLETED", !.out = out]
  /\ JulesOnly /\ UNCHANGED <<witness, faults>>

Drift ==
  /\ jules.state = "AWAITING_PLAN_APPROVAL" /\ Fault("drift")
  /\ \E out \in {"none", "patch"} :
       jules' = [jules EXCEPT !.state = "IN_PROGRESS", !.out = out]
  /\ JulesOnly /\ UNCHANGED witness

FailSession ==
  /\ jules.state # "FAILED" /\ Fault("fail")
  /\ jules' = [jules EXCEPT !.state = "FAILED"]
  /\ JulesOnly /\ UNCHANGED witness

Echo(c) ==
  /\ requests[c] > 0 /\ c \notin echoes
  /\ echoes' = echoes \cup {c}
  /\ UNCHANGED <<session, run, hold, jules, witness, approvals, requests, board, adoption, faults>>

-----------------------------------------------------------------------------
(* What ends a hold.  The orchestrator releases the holds of a poll that   *)
(* failed and of a shutdown, and the one of unexplained progress only with *)
(* evidence: the replayed session has written nothing to Jules, and child, *)
(* card and runs are those of the newest revision, settled and consistent. *)

CardSettled(c) ==
  CASE Issue(c).card = "none" -> Issue(c).status = "backlog" /\ Issue(c).owner = "boot"
    [] Issue(c).card = "pending" ->
         Issue(c).status # "done" /\ (Issue(c).owner = "reviewer" \/ Issue(c).status = "backlog")
    [] Issue(c).card \in {"approve", "reject"} -> Issue(c).attempt = "succeeded"
    [] OTHER -> FALSE

RunsSettled(c) ==
  Issue(c).run = "none" /\ Issue(c).attempt # "failed" /\ Issue(c).source \in {"none", "succeeded"}

ReadOnlySession(s) ==
  s.request = NoRequest /\ s.approved = NoPlan /\ \A r \in Revs : s.journal[r] = "absent"

(* isLegacyPlanObservationFailure *)
ObservationStranded ==
  /\ env.child # NoChild /\ env.known /\ ReadOnlySession(env)
  /\ lastRev = env.child[1] /\ RunsSettled(env.child) /\ CardSettled(env.child)

ReleaseHold ==
  /\ pc = "idle"
  /\ hold \in {"polling", "shutdown"} \/ (hold = "unverified" /\ ObservationStranded)
  /\ hold' = "none"
  /\ UNCHANGED <<session, run, provider, board, adoption, faults>>

(* The operator releases a hold, not one whose approval by hand is still   *)
(* to be recorded.                                                         *)
OperatorReleases ==
  /\ hold # "none" /\ adoption.state \in {"none", "confirmed"} /\ hold' = "none"
  /\ UNCHANGED <<session, run, provider, board, adoption, faults>>

(* The operator approves the reviewed plan of a parent that nothing else   *)
(* will release, and keeps the receipt.                                    *)
HandApproval ==
  /\ pc = "idle" /\ hold \in {"conflict", "unverified", "failed"}
  /\ adoption.state = "none" /\ Approvable(jules)
  /\ \E r \in Revs :
       /\ r = lastRev /\ planOf[r] = jules.plan
       /\ \A stage \in Stages : children[<<r, stage>>].card = "approve"
       /\ Accept(r)
       /\ adoption' = [rev |-> r, state |-> "receipt"]
  /\ UNCHANGED <<session, run, hold, echoes, requests, board, faults>>

(* adoptExternallyApprovedPlan: all of it is verified again by a second    *)
(* attempt of the script after it was interrupted.                         *)
Adoptable ==
  LET r == adoption.rev
  IN  /\ pc = "idle" /\ hold # "none"
      /\ disk.child = <<r, "terra">> /\ lastRev = r /\ disk.journal[r] # "confirmed"
      /\ \A stage \in Stages : children[<<r, stage>>].attempt = "succeeded"
      /\ jules.state = "COMPLETED" /\ jules.out = "pr"
      /\ jules.plan = planOf[r] /\ planOf[r] \in witness

Adopt(from, to) == adoption.state = from /\ adoption' = [adoption EXCEPT !.state = to]

AdoptIntent ==
  /\ Adopt("receipt", "intent") /\ Adoptable
  /\ UNCHANGED <<session, run, hold, provider, board, faults>>

AdoptSave ==
  /\ Adopt("intent", "saved") /\ Adoptable
  /\ disk' = [Approved(disk) EXCEPT !.journal[adoption.rev] = "confirmed"]
  /\ UNCHANGED <<env, mem, run, hold, provider, board, faults>>

AdoptConfirm ==
  /\ Adopt("saved", "confirmed")
  /\ UNCHANGED <<session, run, hold, provider, board, faults>>

Adoption == AdoptIntent \/ AdoptSave \/ AdoptConfirm

-----------------------------------------------------------------------------
PendingRequest == NoPendingRequest \/ RequestFulfilled \/ RequestPending
Review ==
  \/ RetireReplaced \/ HoldUnjudged \/ ReadHistory
  \/ ObserveBroken \/ ObserveChild \/ CreateChild \/ ActivateChild
  \/ SaveWaiting \/ SaveAnswered \/ Rescan \/ Repoll
Verdicts ==
  \/ HoldVerdict \/ RecordedWork \/ LunaApproved \/ Rejected
  \/ TerraWaits \/ HoldTerra \/ TerraApproved
  \/ ApprovePlan \/ ConfirmApprove \/ RecordApproved \/ SendRequest \/ RecordRequest
Opening == PlanNotDue \/ OpenReview \/ SaveDocument \/ OpenLuna

Heartbeat ==
  \/ Start \/ Poll \/ Scan \/ PendingRequest \/ Review \/ Verdicts \/ Opening
  \/ YieldHeartbeat \/ Return

Failure == IncompleteHistory \/ Crash \/ RequestLost

Children == \E c \in Cards : ChildRun(c) \/ CancelChildRun(c) \/ ChildRunFails(c) \/ Override(c)
People == EditPlan \/ \E stage \in Stages : Pause(stage) \/ Resume(stage)
JulesSteps ==
  \/ FirstPlan \/ RevisedPlan \/ Replan \/ Finish \/ Drift \/ FailSession
  \/ \E c \in Cards : Echo(c)
Release == ReleaseHold \/ OperatorReleases \/ HandApproval \/ Adoption

Next == Heartbeat \/ Failure \/ Children \/ People \/ JulesSteps \/ Release

Spec == Init /\ [][Next]_vars

-----------------------------------------------------------------------------
(* The revision requests for a revision, and whether a card of another      *)
(* revision was rejected.                                                  *)
Asked(r) == requests[<<r, "luna">>] + requests[<<r, "terra">>]
Another(r) == \E c \in Cards : c[1] # r /\ children[c].card = "reject"

(* A reviewed revision leads to one write to Jules: one approval, or one   *)
(* request for another plan, however runs are cut off, envelopes replayed, *)
(* holds released and approvals adopted.  Two writes are beyond that: an   *)
(* operator, once, may approve by hand what a lost run had approved, and a *)
(* run that replays the request for another revision does not see the      *)
(* newer one on record, and asks again.                                    *)
DecidedOnce ==
  [][\A r \in Revs :
       /\ approvals'[r] # approvals[r] =>
            Asked(r) = 0 /\ (approvals[r] = 0 \/ (adoption.state = "none" /\ adoption' # adoption))
       /\ Asked(r)' # Asked(r) =>
            approvals[r] = 0 /\ (Asked(r) = 0 \/ Another(r))]_vars

(* A review that is decided on record stays decided: no later run takes it *)
(* up again from an older envelope.                                        *)
DecidedStaysDecided ==
  mem.child # NoChild =>
    PlanOf(mem.child) \notin {disk.approved, PlanOf(disk.request.card)}

CardState(c) ==
  CASE children[c].card = "none" -> "absent"
    [] children[c].card = "approve" -> "approved"
    [] OTHER -> children[c].card

Ladder == INSTANCE PlanGate
  WITH cards <- [c \in Cards |-> CardState(c)], Verdicts <- {"approved", "reject", "override"}
(* The parents, the children's runs, the operators and every fault climb   *)
(* the ladder of PlanGate: Terra is asked only about a revision that Luna  *)
(* approved, and Jules goes on only with one that both approved.           *)
ImplementsPlanGate == Ladder!Spec

Fairness ==
  /\ WF_vars(Heartbeat) /\ WF_vars(ReleaseHold)
  /\ WF_vars(FirstPlan \/ RevisedPlan \/ Finish)
  /\ WF_vars(\E c \in Cards : ChildRun(c))
  /\ WF_vars(\E c \in Cards : Echo(c))
  /\ WF_vars(\E stage \in Stages : Resume(stage))

FairSpec == Spec /\ Fairness

UnderReview == disk.child # NoChild
Stranded == hold \in {"conflict", "unverified", "failed"} \/ disk.journal[disk.child[1]] = "started"

(* A review comes to its end, or the parent is held, or it waits for the   *)
(* evidence of an approval whose answer was lost.                          *)
ReviewSettles == UnderReview ~> (~UnderReview \/ Stranded)
=============================================================================
