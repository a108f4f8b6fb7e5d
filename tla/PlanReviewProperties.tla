------------------------ MODULE PlanReviewProperties ------------------------
(***************************************************************************)
(* What the native plan review must guarantee whatever the runs, the       *)
(* reviewers and Jules do, and what it guarantees eventually.              *)
(***************************************************************************)
EXTENDS NativePlanReview

(* Approving a plan is not idempotent: the heartbeat never sends a second  *)
(* approvePlan for one reviewed revision, however its runs are cut off     *)
(* between the journal entry, the call and the receipt.                    *)
ApproveOncePerRevision == \A r \in Revs : approvals[r] <= 1

BothApproved(r) == cards[<<r, "luna">>] = "approved" /\ cards[<<r, "terra">>] = "approved"

(* approvePlan is sent for a revision only after both reviewers approved   *)
(* that very revision.                                                     *)
ApprovalNeedsBothVerdicts == \A r \in Revs : approvals[r] > 0 => BothApproved(r)

(* A run that has read a plan lets Jules execute it only if both reviewers *)
(* approved that very plan, although the card it acts on may be one of an  *)
(* older plan and approvePlan names a session and not a plan.  No more can *)
(* be promised: a plan that is published between the poll of the run and   *)
(* its call is executed unseen.                                            *)
Reviewed(p) == \E r \in Revs : planOf[r] = p /\ BothApproved(r)
ReadPlanIsReviewed == [][\A p \in witness' \ witness : snap.plan = p => Reviewed(p)]_vars

(* What the journal takes for done was done: a run that was cut off after  *)
(* a call that never arrived, or that arrived unanswered, confirms it only *)
(* from evidence that proves it.  A confirmed entry is never asked about   *)
(* again, so one that is wrong leaves a card uncreated, a plan unapproved  *)
(* or Jules unasked for good.                                              *)
TellsTheTruth(journal) ==
  \A r \in Revs :
    /\ journal[CardEffect(r)].kind = "confirmed" => cards[<<r, "terra">>] # "absent"
    /\ journal[ApproveEffect(r)] = Confirmed("approved") => approvals[r] > 0
    /\ journal[ApproveEffect(r)] = Confirmed("observed") => planOf[r] \in witness
    /\ \A s \in Stages : journal[RevisionEffect(r, s)].kind = "confirmed" => requests[<<r, s>>] > 0
ReceiptsAreTrue ==
  TellsTheTruth(disk.journal) /\ TellsTheTruth(env.journal) /\ TellsTheTruth(mem.journal)

(* Write-ahead: an approval or a Terra card that reached the other side is *)
(* an entry of the recovery record, which is all that a run started after  *)
(* a crash can rely on.                                                    *)
EffectsAreJournaled ==
  \A r \in Revs :
    /\ approvals[r] > 0 => ApproveEffect(r) \in Recorded(disk.journal)
    /\ cards[<<r, "terra">>] # "absent" => CardEffect(r) \in Recorded(disk.journal)

(* Startup never finds the replayed envelope and the recovered record in   *)
(* conflict: a conflict would block every later run of the session.        *)
StartupNeverConflicts == pc = "idle" => CanStart(env, disk)

(* One plan is never both approved in Jules and sent back for a revision,  *)
(* whichever of its cards the two decisions come from.                     *)
NeverApprovedAndRevised ==
  \A r \in Revs : approvals[r] > 0 =>
    \A c \in Cards : planOf[c[1]] = planOf[r] => requests[c] = 0

Ladder == INSTANCE PlanGate
(* The heartbeat, its crashes and its lost calls implement the ladder of   *)
(* PlanGate.                                                               *)
ImplementsPlanGate == Ladder!Spec

-----------------------------------------------------------------------------
(* Paperclip keeps scheduling the heartbeats of an open issue, Jules keeps *)
(* working, and a reviewer answers a card sooner or later.                 *)

Fairness ==
  /\ WF_vars(Heartbeat)
  /\ WF_vars(FirstPlan) /\ WF_vars(RevisedPlan)
  /\ \A c \in Cards : WF_vars(Echo(c)) /\ WF_vars(\E verdict \in Verdicts : Resolve(c, verdict))

FairSpec == Spec /\ Fairness

Awaiting(p) == provider.state = "AWAITING_PLAN_APPROVAL" /\ provider.plan = p
Settled(p) == provider.plan > p \/ p \in witness

(* An attempt on record whose outcome no read has established yet.  A call *)
(* that is not safe to repeat keeps the session waiting for its evidence.  *)
Undecided(s) ==
  \/ s.request.state = "prepared"
  \/ \E e \in EffectIds : s.journal[e].kind = "started" /\ ~CanRetry(s.journal, e)

(* A card that someone cancelled: an operator has to look into it.         *)
LeftToOperator(s) == s.card # NoCard /\ cards[<<s.card.rev, s.card.stage>>] = "cancelled"

(* Whatever is lost or cut off, a plan is settled, or the session waits    *)
(* for good on an undecided attempt of the recovery record or on a card    *)
(* that someone cancelled: no other state is a dead end.                   *)
PlanIsSettledOrUndecided ==
  \A p \in Plans :
    p < MaxPlans => (Awaiting(p) ~> (Settled(p) \/ []Undecided(disk) \/ []LeftToOperator(disk)))
=============================================================================
