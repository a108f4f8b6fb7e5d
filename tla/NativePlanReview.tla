------------------------- MODULE NativePlanReview -------------------------
(***************************************************************************)
(* The native plan review of one Jules session: the heartbeat of           *)
(* packages/jules/src/server/execute.ts that polls Jules, opens a Luna     *)
(* card for the newest plan, a Terra card after Luna approves, and then    *)
(* approves the plan in Jules or asks for a revision of it.                *)
(*                                                                         *)
(* A run is a sequence of steps, named by pc, between two awaits of the    *)
(* source; it can be cut off between any two.  mem is the session it holds *)
(* in memory, disk the local recovery record, env the sessionParams        *)
(* envelope that Paperclip replays to the next run and that only a run     *)
(* that returns can replace.                                               *)
(***************************************************************************)
EXTENDS Naturals, FiniteSets, JulesLifecycle

CONSTANTS
  MaxPlans,              \* plan activities Jules publishes (a bound)
  MaxRevs,               \* revisions of the issue's plan document (a bound)
  MaxFaults,             \* faults that happen (a bound)
  Faults,                \* the kinds of fault that may happen
  Verdicts,              \* the ways a pending card may be resolved
  SpontaneousReplans,    \* Jules replaces a plan nobody asked it to revise
  ReplansAfterApproval   \* Jules publishes a plan after one was approved

FaultKinds ==
  {"crash",          \* the run ends between two steps
   "request_lost",   \* a remote call fails before it takes effect
   "response_lost",  \* a remote call fails after it took effect
   "activities",     \* the activity list of a poll is not available
   "list",           \* the interaction list of a run is not available
   "canonical"}      \* a wake carries the session id and no envelope

(* How a pending card ends: by an answer (an override is one that is not   *)
(* the addressed reviewer's), or without one.  A card is superseded when   *)
(* it is cancelled for one of the adapter's own two reasons, cancelled     *)
(* when it is withdrawn for any other.                                     *)
CardVerdicts == {"approved", "rejected", "override", "superseded", "cancelled", "expired"}

ASSUME PlanReviewAssumption ==
  /\ MaxPlans \in Nat /\ MaxRevs \in Nat /\ MaxFaults \in Nat
  /\ Faults \subseteq FaultKinds
  /\ Verdicts \subseteq CardVerdicts
  /\ SpontaneousReplans \in BOOLEAN /\ ReplansAfterApproval \in BOOLEAN

NoPlan == 0
Plans == 1..MaxPlans
Placeholder == MaxPlans + 1    \* the activity id "awaiting-plan-approval"
PlanIds == Plans \cup {Placeholder}

Revs == 1..MaxRevs
Stages == {"luna", "terra"}
Cards == Revs \X Stages

(* Journal entries, by the kind and revision their identity is made of.    *)
CardEffect(r) == <<"create_card", r>>
ApproveEffect(r) == <<"approve_plan", r>>
RevisionEffect(r, s) == <<IF s = "luna" THEN "revise_luna" ELSE "revise_terra", r>>

EffectIds == {"create_card", "approve_plan", "revise_luna", "revise_terra"} \X Revs
KindOf == [e \in EffectIds |-> e[1]]
Receipts == {"card", "approved", "observed", "sent", "echo"}
MaxEffects == 50

INSTANCE EffectJournal WITH NoReceipt <- "none"

NoCard == [rev |-> 0, stage |-> "none"]
NoRequest == [rev |-> 0, stage |-> "none", state |-> "none"]

Pointers == [rev : Revs, stage : Stages] \cup {NoCard}
Requests == [rev : Revs, stage : Stages, state : {"prepared", "delivered"}] \cup {NoRequest}
Outcomes == {"none", "revision_requested", "approved"}

Sessions ==
  [card : Pointers,                           \* pendingInteraction
   request : Requests,                        \* pendingPlanRevisionRequest
   superseded : PlanIds \cup {NoPlan},        \* supersededPlanActivityId
   outcome : Outcomes,                        \* planReviewOutcome
   approved : PlanIds \cup {NoPlan},          \* planApprovedAt, planApprovedActivityId
   journal : Journals]                        \* lifecycleEffectJournal

NewSession ==
  [card |-> NoCard, request |-> NoRequest, superseded |-> NoPlan,
   outcome |-> "none", approved |-> NoPlan, journal |-> EmptyJournal]

VARIABLES
  disk, env, mem,    \* the three copies of the session
  pc,                \* the step the run is at; "idle" when no run is active
  snap,              \* what this run has read of Jules
  target,            \* the plan and the revision a Luna card is made for
  provider,          \* Jules: its state, its newest plan, a revision asked for
  echoes,            \* revision requests mirrored as userMessaged activities
  witness,           \* plans with a planApproved activity
  cards,             \* status of every possible plan-review card
  planOf, lastRev,   \* the plan activity of each document revision, and the newest
  approvals,         \* approvePlan calls that reached Jules, by revision
  requests,          \* revision requests that reached Jules, by card
  faults             \* faults so far

remote == <<provider, echoes, witness, cards, planOf, lastRev, approvals, requests>>
vars == <<disk, env, mem, pc, snap, target, remote, faults>>

Steps ==
  {"idle", "observe", "read", "recover", "request", "gate", "plan",
   "save_document", "post_luna", "save_luna", "enter_luna",
   "post_terra", "confirm_terra", "point_terra", "enter_terra",
   "prepare_request", "send_request", "record_request", "confirm_request",
   "approve", "confirm_approve", "record_approved", "yield", "return"}

ProviderStates == {"PLANNING", "AWAITING_PLAN_APPROVAL", "IN_PROGRESS"}

TypeOK ==
  /\ disk \in Sessions /\ env \in Sessions /\ mem \in Sessions
  /\ pc \in Steps
  /\ snap \in [state : ProviderStates, plan : Plans \cup {NoPlan}, echoes : SUBSET Cards]
  /\ target \in [plan : PlanIds \cup {NoPlan}, rev : Revs \cup {0}]
  /\ provider \in [state : ProviderStates, plan : Plans \cup {NoPlan}, asked : BOOLEAN]
  /\ echoes \subseteq Cards
  /\ witness \subseteq Plans
  /\ cards \in [Cards -> {"absent", "pending"} \cup CardVerdicts]
  /\ planOf \in [Revs -> PlanIds \cup {NoPlan}]
  /\ lastRev \in Revs \cup {0}
  /\ approvals \in [Revs -> Nat]
  /\ requests \in [Cards -> Nat]
  /\ faults \in 0..MaxFaults

NoSnapshot == [state |-> "PLANNING", plan |-> NoPlan, echoes |-> {}]
NoTarget == [plan |-> NoPlan, rev |-> 0]

Init ==
  /\ disk = NewSession /\ env = NewSession /\ mem = NewSession
  /\ pc = "idle" /\ snap = NoSnapshot /\ target = NoTarget
  /\ provider = [state |-> "PLANNING", plan |-> NoPlan, asked |-> FALSE]
  /\ echoes = {} /\ witness = {}
  /\ cards = [c \in Cards |-> "absent"]
  /\ planOf = [r \in Revs |-> NoPlan] /\ lastRev = 0
  /\ approvals = [r \in Revs |-> 0] /\ requests = [c \in Cards |-> 0]
  /\ faults = 0

-----------------------------------------------------------------------------
(* Startup: mergeDurableSessionCheckpoints of the replayed envelope and    *)
(* the recovered disk record, field by field.                              *)

Or(replayed, recovered, unset) == IF replayed # unset THEN replayed ELSE recovered

HasConfirmedApproval(s) ==
  /\ s.outcome = "approved" /\ s.approved # NoPlan
  /\ \E r \in Revs : s.journal[ApproveEffect(r)].kind = "confirmed"

ConfirmedTerraReceipt(replayed, recovered) ==
  /\ replayed.card.stage = "luna" /\ recovered.card.stage = "terra"
  /\ replayed.card.rev = recovered.card.rev
  /\ recovered.journal[CardEffect(recovered.card.rev)] = Confirmed("card")

ApprovedSource(replayed, recovered) ==
  IF HasConfirmedApproval(recovered) /\ ~HasConfirmedApproval(replayed)
  THEN recovered ELSE replayed

MergeCheckpoints(replayed, recovered) ==
  LET source == ApprovedSource(replayed, recovered)
      proven == HasConfirmedApproval(source)
  IN  [card |-> IF ConfirmedTerraReceipt(replayed, recovered) THEN recovered.card
                ELSE Or(replayed.card, recovered.card, NoCard),
       request |-> Or(replayed.request, recovered.request, NoRequest),
       superseded |-> Or(replayed.superseded, recovered.superseded, NoPlan),
       outcome |-> IF proven THEN source.outcome
                   ELSE Or(replayed.outcome, recovered.outcome, "none"),
       approved |-> IF proven THEN source.approved
                    ELSE Or(replayed.approved, recovered.approved, NoPlan),
       journal |-> MergeEffectJournals(replayed.journal, recovered.journal)]

(* The two conflicts that make a startup throw. *)
CanStart(replayed, recovered) ==
  /\ CanMerge(replayed.journal, recovered.journal)
  /\ HasConfirmedApproval(replayed) /\ HasConfirmedApproval(recovered)
       => replayed.approved = recovered.approved

-----------------------------------------------------------------------------
(* How a step ends.                                                        *)

Goto(step) == pc' = step /\ UNCHANGED <<disk, env, mem, snap, target, remote, faults>>

(* saveStoredSession of the changed session, then the next step. *)
Save(session, step) ==
  /\ mem' = session /\ disk' = session /\ pc' = step
  /\ UNCHANGED <<env, snap, target, remote, faults>>

Fault(kind) == kind \in Faults /\ faults < MaxFaults /\ faults' = faults + 1

(* A remote call that took effect answers, or its response is lost: the    *)
(* error ends the run after its session is saved once more.                *)
Answer(step) ==
  \/ pc' = step /\ UNCHANGED faults
  \/ pc' = "yield" /\ Fault("response_lost")

LocalUnchanged == UNCHANGED <<disk, env, mem, snap>>

-----------------------------------------------------------------------------
(* A run starts, polls Jules and reads its activities.                     *)

Start ==
  /\ pc = "idle" /\ CanStart(env, disk)
  /\ mem' = MergeCheckpoints(env, disk)
  /\ pc' = "observe"
  /\ UNCHANGED <<disk, env, snap, target, remote, faults>>

(* No envelope, only the canonical session id: evaluateSessionStartup      *)
(* builds a new session for it and does not look at the disk record.       *)
StartCanonical ==
  /\ pc = "idle" /\ Fault("canonical")
  /\ mem' = NewSession
  /\ pc' = "observe"
  /\ UNCHANGED <<disk, env, snap, target, remote>>

Observe ==
  /\ pc = "observe"
  /\ snap' = [snap EXCEPT !.state = provider.state]
  /\ pc' = "read"
  /\ UNCHANGED <<disk, env, mem, target, remote, faults>>

ReadActivities ==
  /\ pc = "read"
  /\ \/ snap' = [snap EXCEPT !.plan = provider.plan, !.echoes = echoes] /\ UNCHANGED faults
     \/ Fault("activities") /\ UNCHANGED snap
  /\ pc' = "recover"
  /\ UNCHANGED <<disk, env, mem, target, remote>>

Answered == {"approved", "rejected", "override"}

(* recoverMissingPlanGatePointer: the cards it would accept. *)
RecoverableCards ==
  {c \in Cards : /\ planOf[c[1]] = snap.plan
                 /\ cards[c] = "superseded" \/ (snap.plan = 1 /\ cards[c] \in Answered)}

PointerLost ==
  /\ mem.card = NoCard /\ snap.state = "AWAITING_PLAN_APPROVAL" /\ snap.plan # NoPlan
  /\ Cardinality(RecoverableCards) = 1

RecoverPointer ==
  /\ pc = "recover" /\ PointerLost
  /\ \E c \in RecoverableCards :
       Save([mem EXCEPT !.card = [rev |-> c[1], stage |-> c[2]]], "request")

KeepPointer == pc = "recover" /\ ~PointerLost /\ Goto("request")

RecoverUnavailable ==
  /\ pc = "recover" /\ PointerLost /\ Fault("list")
  /\ pc' = "request"
  /\ UNCHANGED <<disk, env, mem, snap, target, remote>>

-----------------------------------------------------------------------------
(* A revision request that is prepared or delivered comes first.           *)

RequestPlan == planOf[mem.request.rev]

NoPendingRequest == pc = "request" /\ mem.request = NoRequest /\ Goto("gate")

(* Mutant: the request of the replaced plan is not cleared. *)
RequestKept ==
  /\ pc = "request" /\ mem.request # NoRequest
  /\ snap.plan \notin {NoPlan, RequestPlan}
  /\ Save([mem EXCEPT !.card = NoCard], "gate")
(* A new plan proves that the request took effect. *)
RequestFulfilled ==
  /\ pc = "request" /\ mem.request # NoRequest
  /\ snap.plan \notin {NoPlan, RequestPlan}
  /\ Save([mem EXCEPT !.request = NoRequest, !.card = NoCard], "gate")

RequestDelivery ==
  DecideRevisionDelivery(mem.request.state,
                         <<mem.request.rev, mem.request.stage>> \in snap.echoes)

Delivered ==
  [mem EXCEPT !.request.state = "delivered", !.card = NoCard,
              !.superseded = RequestPlan, !.outcome = "revision_requested"]

RequestEchoed ==
  /\ pc = "request" /\ mem.request # NoRequest
  /\ snap.plan \in {NoPlan, RequestPlan}
  /\ RequestDelivery = "record_delivery"
  /\ Save(Delivered, "yield")

(* Mutant: the heartbeat goes on with the plan that Jules was asked to     *)
(* revise.                                                                 *)
RequestNotAwaited ==
  /\ pc = "request" /\ mem.request # NoRequest
  /\ snap.plan \in {NoPlan, RequestPlan}
  /\ RequestDelivery = "await_provider_progress" /\ Goto("gate")
RequestAwaited ==
  /\ pc = "request" /\ mem.request # NoRequest
  /\ snap.plan \in {NoPlan, RequestPlan}
  /\ RequestDelivery \in {"await_echo", "await_provider_progress"}
  /\ Goto("yield")

-----------------------------------------------------------------------------
(* The gate of a pending plan-review card.                                 *)

Pointed == <<mem.card.rev, mem.card.stage>>
PointedPlan == planOf[mem.card.rev]

ApprovalStarted == mem.journal[ApproveEffect(mem.card.rev)].kind = "started"
ApprovalWitnessed ==
  /\ mem.card.stage = "terra" /\ snap.state = "IN_PROGRESS" /\ ApprovalStarted
  /\ PointedPlan \in witness
ApprovalUnwitnessed ==
  /\ mem.card.stage = "terra" /\ snap.state = "IN_PROGRESS" /\ ApprovalStarted
  /\ PointedPlan \notin witness

(* Mutant: a card is consulted whatever the newest plan is. *)
PlanNeverReplaced == FALSE
PlanReplaced == snap.plan \notin {NoPlan, PointedPlan}

NoPointer == pc = "gate" /\ mem.card = NoCard /\ Goto("plan")

AtCard == pc = "gate" /\ mem.card # NoCard

HoldForWitness == AtCard /\ ApprovalUnwitnessed /\ Goto("yield")

RetireReplaced ==
  /\ AtCard /\ ~ApprovalUnwitnessed /\ PlanReplaced
  /\ Save([mem EXCEPT !.card = NoCard, !.superseded = PointedPlan,
                      !.outcome = "revision_requested"], "yield")

Consulting == AtCard /\ ~ApprovalUnwitnessed /\ ~PlanReplaced

(* The list is empty when it cannot be read, and the card is then missing. *)
CardMissing ==
  /\ Consulting /\ Fault("list")
  /\ mem' = [mem EXCEPT !.card = NoCard] /\ disk' = mem' /\ pc' = "plan"
  /\ UNCHANGED <<env, snap, target, remote>>

(* decidePlanGateRecovery on a card that was lost before a verdict: the    *)
(* adapter's own withdrawals and an expiry call for a fresh plan.          *)
CardLost ==
  /\ Consulting /\ cards[Pointed] \in {"superseded", "expired"}
  /\ Goto(IF snap.state = "AWAITING_PLAN_APPROVAL" /\ snap.plan = PointedPlan
          THEN "prepare_request" ELSE "yield")

(* An answer that is not the addressed reviewer's is not a verdict. *)
CardOverridden == Consulting /\ cards[Pointed] = "override" /\ Goto("prepare_request")

(* A card without a verdict is left alone, and so is one that was          *)
(* cancelled for any other reason: manual_recovery_required, in every      *)
(* heartbeat.                                                              *)
CardAwaited == Consulting /\ cards[Pointed] \in {"pending", "cancelled"} /\ Goto("yield")

(* The state the runner is given: an answered card and the attempt of the  *)
(* effect e its verdict leads to.                                          *)
ProjectEffectAttempt(e) ==
  IF mem.journal[e].kind = "absent" THEN "not_started" ELSE mem.journal[e].kind

LifecycleState(verdict, e) ==
  [provider |-> IF ApprovalWitnessed THEN "in_progress" ELSE "awaiting_plan",
   review |-> "resolved", reviewer |-> mem.card.stage, verdict |-> verdict,
   effect |-> ProjectEffectAttempt(e), monitor |-> "scheduled"]

Disposition(verdict, e, kind) ==
  RunJulesLifecycle(LifecycleState(verdict, e),
                    IF ApprovalWitnessed THEN "run_interrupted" ELSE "heartbeat", kind)

(* Mutant: the call goes out before the record is written. *)
BeginInMemory(e, step) ==
  /\ mem' = [mem EXCEPT !.journal = BeginEffect(mem.journal, e)] /\ pc' = step
  /\ UNCHANGED <<disk, env, snap, target, remote, faults>>
(* executeJournaledNativePlanEffect up to the call: begin, save. *)
Begin(e, step) == Save([mem EXCEPT !.journal = BeginEffect(mem.journal, e)], step)

Confirm(e, receipt, step) ==
  /\ CanConfirm(mem.journal, e, receipt)
  /\ Save([mem EXCEPT !.journal = ConfirmEffect(mem.journal, e, receipt)], step)

Rejected ==
  /\ Consulting /\ cards[Pointed] = "rejected"
  /\ LET e == RevisionEffect(mem.card.rev, mem.card.stage)
         disposition == Disposition("reject", e, "request_plan_revision")
         evidence == IF Pointed \in snap.echoes THEN "marker_mirrored" ELSE "marker_not_observed"
         reconciled == ReconcileNativePlanEffect("request_plan_revision", evidence)
     IN  \/ disposition = "execute" /\ Begin(e, "prepare_request")
         \/ disposition = "reconcile" /\ reconciled = "confirmed" /\ Confirm(e, "echo", "yield")
         \/ disposition = "reconcile" /\ reconciled # "confirmed" /\ Goto("yield")
         \/ disposition = "defer" /\ Goto("yield")

(* Mutant: any answer of a card counts, whoever gave it. *)
AnswerApproves == cards[Pointed] \in {"approved", "override"}
VerdictApproves == cards[Pointed] = "approved"

LunaApproved ==
  /\ Consulting /\ VerdictApproves /\ mem.card.stage = "luna"
  /\ LET e == CardEffect(mem.card.rev)
         disposition == Disposition("approve", e, "create_card")
         exact == cards[<<mem.card.rev, "terra">>] \in {"pending", "approved", "rejected"}
         reconciled == ReconcileNativePlanEffect("create_card", IF exact THEN "exact" ELSE "absent")
     IN  \/ disposition = "execute" /\ Begin(e, "post_terra")
         \/ disposition = "reconcile" /\ reconciled = "confirmed" /\ Confirm(e, "card", "point_terra")
         \/ /\ disposition = "reconcile" /\ reconciled = "retry_safe" /\ CanRetry(mem.journal, e)
            /\ Save([mem EXCEPT !.journal = RetryStartedEffect(mem.journal, e)], "post_terra")
         \/ /\ disposition = "reconcile" /\ reconciled # "confirmed"
            /\ ~(reconciled = "retry_safe" /\ CanRetry(mem.journal, e))
            /\ Goto("yield")
         \/ disposition = "defer" /\ Goto("point_terra")

TerraApproved ==
  /\ Consulting /\ VerdictApproves /\ mem.card.stage = "terra"
  /\ LET e == ApproveEffect(mem.card.rev)
         disposition == Disposition("approve", e, "approve_plan")
         evidence == IF ApprovalWitnessed THEN "same_session_progressed" ELSE "same_plan_pending"
         reconciled == ReconcileNativePlanEffect("approve_plan", evidence)
     IN  \/ disposition = "execute" /\ Begin(e, "approve")
         \/ disposition = "reconcile" /\ reconciled = "confirmed" /\ Confirm(e, "observed", "record_approved")
         \/ disposition = "reconcile" /\ reconciled # "confirmed" /\ Goto("yield")
         \/ disposition = "defer" /\ Goto("yield")

-----------------------------------------------------------------------------
(* deliverFreshPlanRevision: prepared, saved, sent once, delivered, saved. *)

PrepareRequest ==
  /\ pc = "prepare_request"
  /\ Save([mem EXCEPT !.request = [rev |-> mem.card.rev, stage |-> mem.card.stage,
                                   state |-> "prepared"]], "send_request")

RequestedCard == <<mem.request.rev, mem.request.stage>>
RequestEffect == RevisionEffect(mem.request.rev, mem.request.stage)

SendRequest ==
  /\ pc = "send_request"
  /\ requests' = [requests EXCEPT ![RequestedCard] = @ + 1]
  /\ provider' = [provider EXCEPT !.asked = TRUE]
  /\ Answer("record_request")
  /\ UNCHANGED <<disk, env, mem, snap, target, echoes, witness, cards, planOf, lastRev, approvals>>

RecordRequest ==
  /\ pc = "record_request"
  /\ Save(Delivered, IF mem.journal[RequestEffect].kind = "started" THEN "confirm_request" ELSE "yield")

ConfirmRequest == pc = "confirm_request" /\ Confirm(RequestEffect, "sent", "yield")

-----------------------------------------------------------------------------
(* Luna approved: the Terra card of the same revision.                     *)

(* Mutant: a POST without an idempotency key. *)
PostCardAfresh(card) == cards' = [cards EXCEPT ![card] = "pending"]
(* A POST with the idempotency key of a card that exists returns that card. *)
PostCard(card) ==
  cards' = IF cards[card] = "absent" THEN [cards EXCEPT ![card] = "pending"] ELSE cards

PostTerra ==
  /\ pc = "post_terra"
  /\ PostCard(<<mem.card.rev, "terra">>)
  /\ Answer("confirm_terra")
  /\ UNCHANGED <<disk, env, mem, snap, target, provider, echoes, witness, planOf, lastRev, approvals, requests>>

ConfirmTerra == pc = "confirm_terra" /\ Confirm(CardEffect(mem.card.rev), "card", "point_terra")

PointTerra ==
  /\ pc = "point_terra"
  /\ Save([mem EXCEPT !.card.stage = "terra"], "enter_terra")

EnterTerraStage == pc = "enter_terra" /\ Goto("yield")

-----------------------------------------------------------------------------
(* Terra approved: approvePlan carries the session id alone, Jules applies *)
(* it to the plan that awaits approval and refuses it in any other state.  *)

ApprovePlan ==
  /\ pc = "approve"
  /\ approvals' = [approvals EXCEPT ![mem.card.rev] = @ + 1]
  /\ \/ /\ provider.state = "AWAITING_PLAN_APPROVAL"
        /\ provider' = [provider EXCEPT !.state = "IN_PROGRESS", !.asked = FALSE]
        /\ witness' = witness \cup {provider.plan}
        /\ Answer("confirm_approve")
     \/ /\ provider.state # "AWAITING_PLAN_APPROVAL"
        /\ pc' = "yield"
        /\ UNCHANGED <<provider, witness, faults>>
  /\ UNCHANGED <<disk, env, mem, snap, target, echoes, cards, planOf, lastRev, requests>>

ConfirmApprove ==
  pc = "confirm_approve" /\ Confirm(ApproveEffect(mem.card.rev), "approved", "record_approved")

RecordApproved ==
  /\ pc = "record_approved"
  /\ Save([mem EXCEPT !.approved = PointedPlan, !.outcome = "approved", !.card = NoCard], "yield")

-----------------------------------------------------------------------------
(* No card owns the newest plan: CREATE_PLAN_CARD.                         *)

PlanReviewDue ==
  \/ IsPlanApprovalRequired(snap.plan, mem.approved, mem.superseded, NoPlan)
  \/ snap.state = "AWAITING_PLAN_APPROVAL"

PlanNotDue == pc = "plan" /\ ~PlanReviewDue /\ Goto("yield")

(* Mutant: an approval holds for the approved plan alone. *)
NewestPlanApproved == mem.approved = snap.plan
(* evaluateInteractionAction waits whenever a plan of the session was approved. *)
SessionApproved == mem.approved # NoPlan

WaitForHuman == pc = "plan" /\ PlanReviewDue /\ SessionApproved /\ Goto("return")

(* An unknown plan activity is reviewed under a placeholder. *)
OpenReview ==
  /\ pc = "plan" /\ PlanReviewDue /\ ~SessionApproved
  /\ mem' = [mem EXCEPT !.superseded = NoPlan] /\ disk' = mem'
  /\ target' = [plan |-> IF snap.plan = NoPlan THEN Placeholder ELSE snap.plan, rev |-> 0]
  /\ pc' = "save_document"
  /\ UNCHANGED <<env, snap, remote, faults>>

(* PUT documents/plan: a changed body is a new revision, an unchanged one  *)
(* may keep the newest.                                                    *)
SaveDocument ==
  /\ pc = "save_document"
  /\ \/ lastRev < MaxRevs /\ lastRev' = lastRev + 1
     \/ lastRev > 0 /\ planOf[lastRev] = target.plan /\ UNCHANGED lastRev
  /\ planOf' = [planOf EXCEPT ![lastRev'] = target.plan]
  /\ target' = [target EXCEPT !.rev = lastRev']
  /\ Answer("post_luna")
  /\ UNCHANGED <<disk, env, mem, snap, provider, echoes, witness, cards, approvals, requests>>

PostLuna ==
  /\ pc = "post_luna"
  /\ PostCard(<<target.rev, "luna">>)
  /\ Answer("save_luna")
  /\ UNCHANGED <<disk, env, mem, snap, target, provider, echoes, witness, planOf, lastRev, approvals, requests>>

SaveLuna ==
  /\ pc = "save_luna"
  /\ Save([mem EXCEPT !.card = [rev |-> target.rev, stage |-> "luna"]], "enter_luna")

EnterLunaStage == pc = "enter_luna" /\ Save([mem EXCEPT !.outcome = "none"], "yield")

-----------------------------------------------------------------------------
(* The end of a run.                                                       *)

YieldHeartbeat == pc = "yield" /\ Save(mem, "return")

EndRun == mem' = NewSession /\ pc' = "idle" /\ snap' = NoSnapshot /\ target' = NoTarget

Return ==
  /\ pc = "return"
  /\ env' = mem
  /\ EndRun
  /\ UNCHANGED <<disk, remote, faults>>

Crash ==
  /\ pc # "idle" /\ Fault("crash")
  /\ EndRun
  /\ UNCHANGED <<disk, env, remote>>

(* A call that fails before it takes effect. *)
RequestLost ==
  /\ pc \in {"save_document", "post_luna", "enter_luna", "post_terra", "enter_terra",
             "send_request", "approve"}
  /\ Fault("request_lost")
  /\ pc' = "yield"
  /\ UNCHANGED <<disk, env, mem, snap, target, remote>>

-----------------------------------------------------------------------------
(* Jules and the reviewers.                                                *)

PublishPlan(may) ==
  /\ may /\ provider.plan < MaxPlans
  /\ provider' = [state |-> "AWAITING_PLAN_APPROVAL", plan |-> provider.plan + 1, asked |-> FALSE]
  /\ UNCHANGED <<disk, env, mem, pc, snap, target, echoes, witness, cards, planOf, lastRev,
                 approvals, requests, faults>>

FirstPlan == PublishPlan(provider.state = "PLANNING")
RevisedPlan == PublishPlan(provider.state = "AWAITING_PLAN_APPROVAL" /\ provider.asked)
OtherPlan ==
  \/ PublishPlan(provider.state = "AWAITING_PLAN_APPROVAL" /\ SpontaneousReplans)
  \/ PublishPlan(provider.state = "IN_PROGRESS" /\ ReplansAfterApproval)

Echo(c) ==
  /\ requests[c] > 0 /\ c \notin echoes
  /\ echoes' = echoes \cup {c}
  /\ UNCHANGED <<disk, env, mem, pc, snap, target, provider, witness, cards, planOf, lastRev,
                 approvals, requests, faults>>

Resolve(c, verdict) ==
  /\ cards[c] = "pending"
  /\ cards' = [cards EXCEPT ![c] = verdict]
  /\ UNCHANGED <<disk, env, mem, pc, snap, target, provider, echoes, witness, planOf, lastRev,
                 approvals, requests, faults>>

-----------------------------------------------------------------------------
Recovery == RecoverPointer \/ KeepPointer
PendingRequest == NoPendingRequest \/ RequestFulfilled \/ RequestEchoed \/ RequestAwaited
Gate ==
  \/ NoPointer \/ HoldForWitness \/ RetireReplaced
  \/ CardLost \/ CardOverridden \/ CardAwaited \/ Rejected \/ LunaApproved \/ TerraApproved
RevisionSteps == PrepareRequest \/ SendRequest \/ RecordRequest \/ ConfirmRequest
TerraSteps == PostTerra \/ ConfirmTerra \/ PointTerra \/ EnterTerraStage
ApprovalSteps == ApprovePlan \/ ConfirmApprove \/ RecordApproved
LunaSteps ==
  \/ PlanNotDue \/ WaitForHuman \/ OpenReview
  \/ SaveDocument \/ PostLuna \/ SaveLuna \/ EnterLunaStage

Heartbeat ==
  \/ Start \/ Observe \/ ReadActivities \/ Recovery \/ PendingRequest \/ Gate
  \/ RevisionSteps \/ TerraSteps \/ ApprovalSteps \/ LunaSteps
  \/ YieldHeartbeat \/ Return

Failure == StartCanonical \/ RecoverUnavailable \/ CardMissing \/ Crash \/ RequestLost

Environment ==
  \/ FirstPlan \/ RevisedPlan \/ OtherPlan
  \/ \E c \in Cards : Echo(c) \/ \E verdict \in Verdicts : Resolve(c, verdict)

Next == Heartbeat \/ Failure \/ Environment

Spec == Init /\ [][Next]_vars
=============================================================================
