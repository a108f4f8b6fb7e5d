-------------------------- MODULE JulesLifecycle --------------------------
(***************************************************************************)
(* The pure decisions of the plan-review lifecycle: the reducer            *)
(* (packages/common/src/jules-lifecycle.ts), the choice the runner makes   *)
(* between executing, reconciling and deferring its effect                 *)
(* (packages/jules/src/server/lifecycle-runner.ts), the classification of  *)
(* an interrupted effect (native-plan-effect-reconciler.ts) and the gates  *)
(* in front of them (interaction-engine.ts, plan-revision-request.ts).     *)
(* A decision is named by the kind of the effect it emits; cards,          *)
(* sessions and effect identities are bound by the caller.                 *)
(***************************************************************************)
EXTENDS Naturals

ProviderKinds == {"awaiting_plan", "awaiting_feedback", "in_progress", "completed"}

LifecycleStates ==
  [provider : ProviderKinds,
   review : {"none", "pending", "resolved"},
   reviewer : {"luna", "terra"},
   verdict : {"approve", "reject"},
   effect : {"not_started", "started", "confirmed"},
   monitor : {"none", "scheduled", "triggered"}]

NativePlanEffects == {"create_card", "approve_plan", "request_plan_revision"}

(* decideResolvedPlanReview: the next rung of the ladder. *)
DecideResolvedPlanReview(s) ==
  CASE s.verdict = "reject" -> "request_plan_revision"
    [] s.verdict = "approve" /\ s.reviewer = "luna" -> "create_card"
    [] OTHER -> "approve_plan"

DecideAwaitingPlan(s) ==
  CASE s.review = "none" -> "create_card"
    [] s.review = "pending" -> "preserve"
    [] s.review = "resolved" /\ s.effect = "not_started" -> DecideResolvedPlanReview(s)
    [] s.review = "resolved" /\ s.effect = "started" -> "reconcile_effect"
    [] OTHER -> "poll_provider"

DecideHeartbeat(s) ==
  CASE s.provider = "completed" -> "complete_issue"
    [] s.provider = "in_progress" -> "poll_provider"
    [] OTHER -> DecideAwaitingPlan(s)

DecideInterrupted(s) ==
  CASE s.effect = "started" -> "reconcile_effect"
    [] s.effect = "confirmed" -> "poll_provider"
    [] OTHER -> IF s.monitor = "triggered" THEN "rearm_monitor" ELSE "preserve"

(* reduceJulesLifecycle for the two events the heartbeat raises. *)
ReduceJulesLifecycle(s, event) ==
  IF event = "run_interrupted" THEN DecideInterrupted(s) ELSE DecideHeartbeat(s)

(* nativePlanEffectForReconciliation: the interrupted call, rebuilt from   *)
(* the state without its attempt; effect is the kind its identity names.   *)
NativePlanEffectForReconciliation(s, effect) ==
  IF \/ effect \in NativePlanEffects /\ DecideHeartbeat([s EXCEPT !.effect = "not_started"]) = effect
     \/ /\ effect = "approve_plan" /\ s.review = "resolved"
        /\ s.reviewer = "terra" /\ s.verdict = "approve"
  THEN effect ELSE "none"

(* runJulesLifecycle: what becomes of the emitted effect. *)
RunJulesLifecycle(s, event, effect) ==
  LET decision == ReduceJulesLifecycle(s, event)
  IN  CASE decision = "reconcile_effect"
             /\ NativePlanEffectForReconciliation(s, effect) # "none" -> "reconcile"
        [] decision \in NativePlanEffects -> "execute"
        [] OTHER -> "defer"

(* Mutant: an absent card is awaited. *)
AbsentCardAwaited(effect, evidence) ==
  IF evidence \in {"exact", "same_session_progressed", "marker_mirrored"}
  THEN "confirmed" ELSE "await_observation"
(* Mutant: a plan that still awaits its approval is taken for approved. *)
PendingPlanConfirms(effect, evidence) ==
  CASE evidence \in {"exact", "same_session_progressed", "same_plan_pending", "marker_mirrored"} -> "confirmed"
    [] effect = "create_card" /\ evidence = "absent" -> "retry_safe"
    [] OTHER -> "await_observation"
(* reconcileNativePlanEffect: read-after-write evidence of a started effect. *)
ReconcileNativePlanEffect(effect, evidence) ==
  CASE effect = "create_card" /\ evidence = "exact" -> "confirmed"
    [] effect = "create_card" /\ evidence = "absent" -> "retry_safe"
    [] effect = "approve_plan" /\ evidence = "same_session_progressed" -> "confirmed"
    [] effect = "approve_plan" /\ evidence = "failed" -> "inconsistent"
    [] effect = "request_plan_revision" /\ evidence = "marker_mirrored" -> "confirmed"
    [] OTHER -> "await_observation"

(* decidePlanRevisionRequestDelivery *)
DecideRevisionDelivery(requestState, markerEchoed) ==
  IF requestState = "delivered" THEN "await_provider_progress"
  ELSE IF markerEchoed THEN "record_delivery" ELSE "await_echo"

(* isPlanApprovalRequired: a plan activity is gated unless it is the one   *)
(* approved or the one superseded; none stands for a field that is unset.  *)
IsPlanApprovalRequired(plan, approved, superseded, none) ==
  plan # none /\ superseded # plan /\ approved # plan
=============================================================================
