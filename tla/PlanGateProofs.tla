--------------------------- MODULE PlanGateProofs ---------------------------
(***************************************************************************)
(* What the native plan review guarantees, for every number of plans,      *)
(* revisions and faults and every way a card may be resolved: first within *)
(* one revision (1, 2), then across the cards, revisions and runs of a     *)
(* session (3 to 6).                                                       *)
(*                                                                         *)
(* 1. Two verdicts come before an approval.  The ladder (LadderInv) needs  *)
(*    no record at all: verdicts are never taken back, so it is enough     *)
(*    that each call follows the verdict it needs in one run.              *)
(* 2. The approval is sent once.  This rests on the record: the run's      *)
(*    journal is never behind the record on disk, a call leaves only after *)
(*    its entry is on disk, and an effect is executed only when the run's  *)
(*    journal has no entry for it (OnceInv).                               *)
(* 3. The heartbeat implements the ladder of PlanGate.  New is the         *)
(*    revision request, sent once for a card: what has been requested is   *)
(*    remembered by the request of the sessions or outdated by a newer     *)
(*    plan, and a run that has a request on record never goes on to its    *)
(*    gate with a card (ReviseInv).                                        *)
(* 4. A plan that was read is approved only when it was reviewed           *)
(*    (ReadInv), and a confirmed entry of a journal stands for a call that *)
(*    arrived (RealInv).                                                   *)
(* 5. An approved plan is not revised: a run that acts on a card holds the *)
(*    newest plan, with nothing asked for about it (NewestInHand), and     *)
(*    every copy of the session keeps the card of the approval or the      *)
(*    knowledge of it (Executing).                                         *)
(* 6. Startup finds no conflict: the copies are behind the journal a run   *)
(*    merged (ReceiptInv), and know at most one approved plan, whose cards *)
(*    alone can still be approved (OneApproved).                           *)
(***************************************************************************)
EXTENDS PlanReviewProperties, FiniteSetTheorems, TLAPS

(* A journal operation on the journal of a session gives a session.        *)
LEMMA BeginSession ==
  ASSUME NEW s \in Sessions, NEW e \in EffectIds
  PROVE  [s EXCEPT !.journal = BeginEffect(s.journal, e)] \in Sessions
<1>1. BeginEffect(s.journal, e) \in Journals
  BY DEF Sessions, BeginEffect, Journals, ValidAttempts, MaxAttempts
<1> QED BY <1>1 DEF Sessions

(* So does the retry of a started card. *)
LEMMA RetrySession ==
  ASSUME NEW s \in Sessions, NEW e \in EffectIds, CanRetry(s.journal, e)
  PROVE  [s EXCEPT !.journal = RetryStartedEffect(s.journal, e)] \in Sessions
<1>1. s.journal \in Journals /\ s.journal[e] \in ValidAttempts
  BY DEF Sessions, Journals
<1>2. s.journal[e].tries + 1 \in 1..MaxAttempts
  BY <1>1 DEF CanRetry, ValidAttempts, Absent, Started, Confirmed, MaxAttempts
<1>3. RetryStartedEffect(s.journal, e) \in Journals
  BY <1>1, <1>2 DEF RetryStartedEffect, Journals, ValidAttempts
<1> QED BY <1>3 DEF Sessions

(* So does a confirmation. *)
LEMMA ConfirmSession ==
  ASSUME NEW s \in Sessions, NEW e \in EffectIds, NEW r \in Receipts
  PROVE  [s EXCEPT !.journal = ConfirmEffect(s.journal, e, r)] \in Sessions
<1>1. ConfirmEffect(s.journal, e, r) \in Journals
  BY DEF Sessions, ConfirmEffect, Journals, ValidAttempts
<1> QED BY <1>1 DEF Sessions

(* A new session is a session. *)
LEMMA NewSessionType == NewSession \in Sessions
<1>1. EmptyJournal \in Journals
  BY DEF EmptyJournal, Journals, ValidAttempts
<1> QED BY <1>1 DEF NewSession, Sessions, Pointers, Requests, Outcomes

(* The startup merge of two sessions is a session. *)
LEMMA MergeSession ==
  ASSUME NEW s \in Sessions, NEW t \in Sessions
  PROVE  MergeCheckpoints(s, t) \in Sessions
<1>1. MergeEffectJournals(s.journal, t.journal) \in Journals
  BY DEF Sessions, MergeEffectJournals, MergeAttempt, Journals
<1>2. ApprovedSource(s, t) \in Sessions
  BY DEF ApprovedSource
<1> QED BY <1>1, <1>2 DEF MergeCheckpoints, Sessions, Or

-----------------------------------------------------------------------------
(* What a step has in hand: the card it acts on, the request it sends, the *)
(* revision a Luna card is made for.                                       *)
CardSteps ==
  {"post_terra", "confirm_terra", "point_terra", "prepare_request",
   "approve", "confirm_approve", "record_approved"}
RequestSteps == {"send_request", "record_request", "confirm_request"}
TargetSteps == {"post_luna", "save_luna"}

InHand ==
  /\ pc \in CardSteps => mem.card # NoCard
  /\ pc \in RequestSteps => mem.request # NoRequest
  /\ pc \in TargetSteps => target.rev \in Revs

Typed ==
  /\ TypeOK
  /\ InHand
  /\ provider.state = "AWAITING_PLAN_APPROVAL" => provider.plan # NoPlan

(* A card in hand is one of the possible cards. *)
LEMMA CardType ==
  ASSUME Typed, mem.card # NoCard
  PROVE  /\ mem.card.rev \in Revs /\ mem.card.stage \in Stages
         /\ Pointed \in Cards
         /\ CardEffect(mem.card.rev) \in EffectIds
         /\ ApproveEffect(mem.card.rev) \in EffectIds
         /\ RevisionEffect(mem.card.rev, mem.card.stage) \in EffectIds
         /\ PointedPlan \in PlanIds \cup {NoPlan}
<1>1. mem.card.rev \in Revs /\ mem.card.stage \in Stages /\ planOf \in [Revs -> PlanIds \cup {NoPlan}]
  BY DEF Typed, TypeOK, Sessions, Pointers
<1> QED
  BY <1>1 DEF Pointed, Cards, CardEffect, ApproveEffect, RevisionEffect, EffectIds, PointedPlan

(* So is the card of a request in hand. *)
LEMMA RequestType ==
  ASSUME Typed, mem.request # NoRequest
  PROVE  /\ mem.request.rev \in Revs /\ mem.request.stage \in Stages
         /\ RequestedCard \in Cards
         /\ RequestEffect \in EffectIds
         /\ RequestPlan \in PlanIds \cup {NoPlan}
         /\ Delivered \in Sessions /\ Delivered.request # NoRequest
<1>1. mem.request.rev \in Revs /\ mem.request.stage \in Stages /\ planOf \in [Revs -> PlanIds \cup {NoPlan}]
  BY DEF Typed, TypeOK, Sessions, Requests
<1>2. [mem.request EXCEPT !.state = "delivered"] \in Requests \ {NoRequest}
  BY DEF Typed, TypeOK, Sessions, Requests, NoRequest
<1>3. mem \in Sessions /\ RequestPlan \in PlanIds \cup {NoPlan}
  BY <1>1 DEF Typed, TypeOK, RequestPlan
<1>4. Delivered \in Sessions /\ Delivered.request # NoRequest
  BY <1>2, <1>3 DEF Delivered, Sessions, Pointers, Outcomes
<1> QED
  BY <1>1, <1>3, <1>4 DEF RequestedCard, Cards, RequestEffect, RevisionEffect, EffectIds

(* The four ways a step leaves the remote side alone.                      *)
LEMMA GotoTyped ==
  ASSUME Typed, NEW step \in Steps, Goto(step),
         step \in CardSteps => mem.card # NoCard,
         step \in RequestSteps => mem.request # NoRequest,
         step \notin TargetSteps
  PROVE  Typed'
BY DEF Goto, Typed, TypeOK, InHand, remote

(* A save keeps the types when the saved session has what the next step    *)
(* needs.                                                                  *)
LEMMA SaveTyped ==
  ASSUME Typed, NEW s \in Sessions, NEW step \in Steps, Save(s, step),
         step \in CardSteps => s.card # NoCard,
         step \in RequestSteps => s.request # NoRequest,
         step \notin TargetSteps
  PROVE  Typed'
BY DEF Save, Typed, TypeOK, InHand, remote

(* Faults stay within their bound. *)
LEMMA FaultType ==
  ASSUME Typed, NEW kind, Fault(kind)
  PROVE  faults' \in 0..MaxFaults
BY PlanReviewAssumption DEF Fault, Typed, TypeOK

(* The end of a run keeps the types. *)
LEMMA EndTyped ==
  ASSUME Typed, EndRun, disk' = disk, env' \in Sessions, UNCHANGED remote,
         faults' \in 0..MaxFaults
  PROVE  Typed'
<1>1. mem' \in Sessions
  BY NewSessionType DEF EndRun
<1>2. /\ snap' \in [state : ProviderStates, plan : Plans \cup {NoPlan}, echoes : SUBSET Cards]
      /\ target' \in [plan : PlanIds \cup {NoPlan}, rev : Revs \cup {0}]
  BY DEF EndRun, NoSnapshot, NoTarget, ProviderStates
<1>3. pc' = "idle" /\ pc' \in Steps /\ pc' \notin CardSteps \cup RequestSteps \cup TargetSteps
  BY DEF EndRun, Steps, CardSteps, RequestSteps, TargetSteps
<1>4. TypeOK'
  BY <1>1, <1>2, <1>3 DEF Typed, TypeOK, remote
<1> QED BY <1>3, <1>4 DEF Typed, InHand, remote

-----------------------------------------------------------------------------
(* Initially no run holds anything. *)
LEMMA TypedInit == Init => Typed
<1> SUFFICES ASSUME Init PROVE Typed
  OBVIOUS
<1>1. mem \in Sessions /\ disk \in Sessions /\ env \in Sessions
  BY NewSessionType DEF Init
<1>2. TypeOK
  BY <1>1, PlanReviewAssumption
     DEF Init, TypeOK, Steps, NoSnapshot, NoTarget, ProviderStates
<1> QED
  BY <1>2 DEF Init, Typed, InHand, CardSteps, RequestSteps, TargetSteps

(* One lemma for each part of a heartbeat: it keeps the types.             *)
LEMMA PollTyped ==
  ASSUME Typed, Start \/ Observe \/ ReadActivities
  PROVE  Typed'
<1> USE DEF Typed, TypeOK, InHand, CardSteps, RequestSteps, TargetSteps, Steps, remote
<1>1. CASE Start
  BY <1>1, MergeSession DEF Start
<1>2. CASE Observe
  BY <1>2 DEF Observe
<1>3. CASE ReadActivities
  <2>1. faults' \in 0..MaxFaults
    BY <1>3, FaultType DEF ReadActivities
  <2> QED BY <1>3, <2>1 DEF ReadActivities
<1> QED BY <1>1, <1>2, <1>3

(* The recovery of a lost pointer keeps the types. *)
LEMMA RecoveryTyped ==
  ASSUME Typed, Recovery
  PROVE  Typed'
<1> USE DEF CardSteps, RequestSteps, TargetSteps, Steps
<1>1. CASE RecoverPointer
  <2>1. PICK c \in RecoverableCards :
          Save([mem EXCEPT !.card = [rev |-> c[1], stage |-> c[2]]], "request")
    BY <1>1 DEF RecoverPointer
  <2>2. [mem EXCEPT !.card = [rev |-> c[1], stage |-> c[2]]] \in Sessions
    BY DEF RecoverableCards, Cards, Typed, TypeOK, Sessions, Pointers
  <2> QED BY <2>1, <2>2, SaveTyped
<1>2. CASE KeepPointer
  BY <1>2, GotoTyped DEF KeepPointer
<1> QED BY <1>1, <1>2 DEF Recovery

(* The handling of a pending revision request keeps the types. *)
LEMMA PendingRequestTyped ==
  ASSUME Typed, PendingRequest
  PROVE  Typed'
<1> USE DEF CardSteps, RequestSteps, TargetSteps, Steps
<1>1. CASE NoPendingRequest
  BY <1>1, GotoTyped DEF NoPendingRequest
<1>2. CASE RequestFulfilled
  <2>1. [mem EXCEPT !.request = NoRequest, !.card = NoCard] \in Sessions
    BY DEF Typed, TypeOK, Sessions, Requests, Pointers
  <2> QED BY <1>2, <2>1, SaveTyped DEF RequestFulfilled
<1>3. CASE RequestEchoed
  BY <1>3, RequestType, SaveTyped DEF RequestEchoed
<1>4. CASE RequestAwaited
  BY <1>4, GotoTyped DEF RequestAwaited
<1> QED BY <1>1, <1>2, <1>3, <1>4 DEF PendingRequest

(* The journal entry before a call keeps the types. *)
LEMMA BeginTyped ==
  ASSUME Typed, mem.card # NoCard, NEW e \in EffectIds, NEW step \in Steps,
         step \notin RequestSteps \cup TargetSteps, Begin(e, step)
  PROVE  Typed'
<1>1. mem \in Sessions
  BY DEF Typed, TypeOK
<1>2. [mem EXCEPT !.journal = BeginEffect(mem.journal, e)].card = mem.card
  BY <1>1 DEF Sessions
<1> QED BY <1>1, <1>2, BeginSession, SaveTyped DEF Begin

(* The receipt after a call keeps the types. *)
LEMMA ConfirmTyped ==
  ASSUME Typed, NEW e \in EffectIds, NEW r \in Receipts, NEW step \in Steps,
         step \in CardSteps => mem.card # NoCard,
         step \notin RequestSteps \cup TargetSteps, Confirm(e, r, step)
  PROVE  Typed'
<1>1. mem \in Sessions
  BY DEF Typed, TypeOK
<1>2. [mem EXCEPT !.journal = ConfirmEffect(mem.journal, e, r)].card = mem.card
  BY <1>1 DEF Sessions
<1> QED BY <1>1, <1>2, ConfirmSession, SaveTyped DEF Confirm

(* The gate hands a card to every step that acts on one. *)
LEMMA GateTyped ==
  ASSUME Typed, Gate
  PROVE  Typed'
<1> USE DEF CardSteps, RequestSteps, TargetSteps, Steps, Receipts
<1>1. CASE NoPointer \/ HoldForWitness \/ CardLost \/ CardOverridden \/ CardAwaited
  BY <1>1, GotoTyped
     DEF NoPointer, HoldForWitness, CardLost, CardOverridden, CardAwaited, Consulting, AtCard
<1>2. CASE RetireReplaced
  <2>1. [mem EXCEPT !.card = NoCard, !.superseded = PointedPlan,
                    !.outcome = "revision_requested"] \in Sessions
    BY <1>2, CardType
       DEF RetireReplaced, AtCard, Typed, TypeOK, Sessions, Pointers, Outcomes
  <2> QED BY <1>2, <2>1, SaveTyped DEF RetireReplaced
<1>3. CASE Rejected
  <2>1. mem.card # NoCard
    BY <1>3 DEF Rejected, Consulting, AtCard
  <2> DEFINE e == RevisionEffect(mem.card.rev, mem.card.stage)
  <2>2. e \in EffectIds
    BY <2>1, CardType
  <2>3. Begin(e, "prepare_request") \/ Confirm(e, "echo", "yield") \/ Goto("yield")
    BY <1>3 DEF Rejected
  <2> QED BY <2>1, <2>2, <2>3, BeginTyped, ConfirmTyped, GotoTyped
<1>4. CASE LunaApproved
  <2>1. mem.card # NoCard
    BY <1>4 DEF LunaApproved, Consulting, AtCard
  <2> DEFINE e == CardEffect(mem.card.rev)
             retried == [mem EXCEPT !.journal = RetryStartedEffect(mem.journal, e)]
  <2>2. e \in EffectIds /\ mem \in Sessions
    BY <2>1, CardType DEF Typed, TypeOK
  <2>3. \/ Begin(e, "post_terra")
        \/ Confirm(e, "card", "point_terra")
        \/ CanRetry(mem.journal, e) /\ Save(retried, "post_terra")
        \/ Goto("yield")
        \/ Goto("point_terra")
    BY <1>4 DEF LunaApproved
  <2>4. CASE CanRetry(mem.journal, e) /\ Save(retried, "post_terra")
    <3>1. retried \in Sessions /\ retried.card = mem.card
      BY <2>2, <2>4, RetrySession DEF Sessions
    <3> QED BY <2>1, <2>4, <3>1, SaveTyped
  <2> QED BY <2>1, <2>2, <2>3, <2>4, BeginTyped, ConfirmTyped, GotoTyped
<1>5. CASE TerraApproved
  <2>1. mem.card # NoCard
    BY <1>5 DEF TerraApproved, Consulting, AtCard
  <2> DEFINE e == ApproveEffect(mem.card.rev)
  <2>2. e \in EffectIds
    BY <2>1, CardType
  <2>3. Begin(e, "approve") \/ Confirm(e, "observed", "record_approved") \/ Goto("yield")
    BY <1>5 DEF TerraApproved
  <2> QED BY <2>1, <2>2, <2>3, BeginTyped, ConfirmTyped, GotoTyped
<1> QED BY <1>1, <1>2, <1>3, <1>4, <1>5 DEF Gate

(* The delivery of a revision request keeps the types. *)
LEMMA RevisionTyped ==
  ASSUME Typed, RevisionSteps
  PROVE  Typed'
<1> USE DEF CardSteps, RequestSteps, TargetSteps, Steps, Receipts
<1>1. CASE PrepareRequest
  <2> DEFINE prepared == [mem EXCEPT !.request = [rev |-> mem.card.rev, stage |-> mem.card.stage,
                                                  state |-> "prepared"]]
  <2>1. mem.card # NoCard
    BY <1>1 DEF PrepareRequest, Typed, InHand
  <2>2. mem.card.rev \in Revs /\ mem.card.stage \in Stages
    BY <2>1, CardType
  <2>3. prepared \in Sessions /\ prepared.request # NoRequest
    BY <2>2 DEF Typed, TypeOK, Sessions, Requests, NoRequest
  <2> QED BY <1>1, <2>3, SaveTyped DEF PrepareRequest
<1>2. CASE SendRequest
  <2>1. pc = "send_request" /\ mem.request # NoRequest
    BY <1>2 DEF SendRequest, Typed, InHand
  <2>2. RequestedCard \in Cards
    BY <2>1, RequestType
  <2>3. faults' \in 0..MaxFaults /\ pc' \in {"record_request", "yield"}
    BY <1>2, FaultType DEF SendRequest, Answer, Typed, TypeOK
  <2>4. requests' \in [Cards -> Nat]
    BY <1>2, <2>2 DEF SendRequest, Typed, TypeOK
  <2> QED BY <1>2, <2>1, <2>3, <2>4 DEF SendRequest, Typed, TypeOK, InHand
<1>3. CASE RecordRequest
  <2>1. mem.request # NoRequest
    BY <1>3 DEF RecordRequest, Typed, InHand
  <2> QED BY <1>3, <2>1, RequestType, SaveTyped DEF RecordRequest
<1>4. CASE ConfirmRequest
  <2>1. mem.request # NoRequest
    BY <1>4 DEF ConfirmRequest, Typed, InHand
  <2> QED BY <1>4, <2>1, RequestType, ConfirmTyped DEF ConfirmRequest
<1> QED BY <1>1, <1>2, <1>3, <1>4 DEF RevisionSteps

(* A POST leaves every card in one of its statuses. *)
LEMMA PostCardType ==
  ASSUME Typed, NEW c \in Cards, PostCard(c)
  PROVE  cards' \in [Cards -> {"absent", "pending"} \cup CardVerdicts]
BY DEF PostCard, Typed, TypeOK

(* The steps to the Terra card keep the types. *)
LEMMA TerraTyped ==
  ASSUME Typed, TerraSteps
  PROVE  Typed'
<1> USE DEF CardSteps, RequestSteps, TargetSteps, Steps, Receipts
<1>1. CASE PostTerra
  <2>1. pc = "post_terra" /\ mem.card # NoCard
    BY <1>1 DEF PostTerra, Typed, InHand
  <2>2. <<mem.card.rev, "terra">> \in Cards
    BY <2>1, CardType DEF Cards, Stages
  <2>3. faults' \in 0..MaxFaults /\ pc' \in {"confirm_terra", "yield"}
    BY <1>1, FaultType DEF PostTerra, Answer, Typed, TypeOK
  <2>4. cards' \in [Cards -> {"absent", "pending"} \cup CardVerdicts]
    BY <1>1, <2>2, PostCardType DEF PostTerra
  <2> QED BY <1>1, <2>1, <2>3, <2>4 DEF PostTerra, Typed, TypeOK, InHand
<1>2. CASE ConfirmTerra
  <2>1. mem.card # NoCard
    BY <1>2 DEF ConfirmTerra, Typed, InHand
  <2> QED BY <1>2, <2>1, CardType, ConfirmTyped DEF ConfirmTerra
<1>3. CASE PointTerra
  <2>1. mem.card # NoCard /\ mem \in Sessions
    BY <1>3 DEF PointTerra, Typed, TypeOK, InHand
  <2>2. [mem EXCEPT !.card.stage = "terra"] \in Sessions
    BY <2>1 DEF Sessions, Pointers, Stages
  <2> QED BY <1>3, <2>2, SaveTyped DEF PointTerra
<1>4. CASE EnterTerraStage
  BY <1>4, GotoTyped DEF EnterTerraStage
<1> QED BY <1>1, <1>2, <1>3, <1>4 DEF TerraSteps

(* The steps to the approval keep the types. *)
LEMMA ApprovalTyped ==
  ASSUME Typed, ApprovalSteps
  PROVE  Typed'
<1> USE DEF CardSteps, RequestSteps, TargetSteps, Steps, Receipts
<1>1. CASE ApprovePlan
  <2>1. pc = "approve" /\ mem.card # NoCard
    BY <1>1 DEF ApprovePlan, Typed, InHand
  <2>2. approvals' \in [Revs -> Nat]
    BY <1>1, <2>1, CardType DEF ApprovePlan, Typed, TypeOK
  <2>3. faults' \in 0..MaxFaults /\ pc' \in {"confirm_approve", "yield"}
    BY <1>1, FaultType DEF ApprovePlan, Answer, Typed, TypeOK
  <2>4. provider' \in [state : ProviderStates, plan : Plans \cup {NoPlan}, asked : BOOLEAN]
    BY <1>1 DEF ApprovePlan, Typed, TypeOK, ProviderStates
  <2>5. witness' \subseteq Plans
    BY <1>1 DEF ApprovePlan, Typed, TypeOK
  <2> QED BY <1>1, <2>1, <2>2, <2>3, <2>4, <2>5 DEF ApprovePlan, Typed, TypeOK, InHand
<1>2. CASE ConfirmApprove
  <2>1. mem.card # NoCard
    BY <1>2 DEF ConfirmApprove, Typed, InHand
  <2> QED BY <1>2, <2>1, CardType, ConfirmTyped DEF ConfirmApprove
<1>3. CASE RecordApproved
  <2>1. mem.card # NoCard
    BY <1>3 DEF RecordApproved, Typed, InHand
  <2>2. [mem EXCEPT !.approved = PointedPlan, !.outcome = "approved", !.card = NoCard] \in Sessions
    BY <2>1, CardType DEF Typed, TypeOK, Sessions, Pointers, Outcomes
  <2> QED BY <1>3, <2>2, SaveTyped DEF RecordApproved
<1> QED BY <1>1, <1>2, <1>3 DEF ApprovalSteps

(* The steps to the Luna card keep the types. *)
LEMMA LunaTyped ==
  ASSUME Typed, LunaSteps
  PROVE  Typed'
<1> USE DEF CardSteps, RequestSteps, TargetSteps, Steps
<1>1. CASE PlanNotDue \/ WaitForHuman
  BY <1>1, GotoTyped DEF PlanNotDue, WaitForHuman
<1>2. CASE OpenReview
  <2>1. [mem EXCEPT !.superseded = NoPlan] \in Sessions
    BY DEF Typed, TypeOK, Sessions
  <2>2. target' \in [plan : PlanIds \cup {NoPlan}, rev : Revs \cup {0}]
    BY <1>2 DEF OpenReview, Typed, TypeOK, PlanIds
  <2> QED BY <1>2, <2>1, <2>2 DEF OpenReview, Typed, TypeOK, InHand, remote
<1>3. CASE SaveDocument
  <2>1. lastRev' \in Revs
    BY <1>3, PlanReviewAssumption DEF SaveDocument, Typed, TypeOK, Revs
  <2>2. faults' \in 0..MaxFaults /\ pc' \in {"post_luna", "yield"}
    BY <1>3, FaultType DEF SaveDocument, Answer, Typed, TypeOK
  <2>3. target' \in [plan : PlanIds \cup {NoPlan}, rev : Revs \cup {0}] /\ target'.rev \in Revs
    BY <1>3, <2>1 DEF SaveDocument, Typed, TypeOK
  <2>4. planOf' \in [Revs -> PlanIds \cup {NoPlan}]
    BY <1>3, <2>1 DEF SaveDocument, Typed, TypeOK
  <2> QED BY <1>3, <2>1, <2>2, <2>3, <2>4 DEF SaveDocument, Typed, TypeOK, InHand
<1>4. CASE PostLuna
  <2>1. pc = "post_luna" /\ target.rev \in Revs
    BY <1>4 DEF PostLuna, Typed, InHand
  <2>2. faults' \in 0..MaxFaults /\ pc' \in {"save_luna", "yield"}
    BY <1>4, FaultType DEF PostLuna, Answer, Typed, TypeOK
  <2>3. cards' \in [Cards -> {"absent", "pending"} \cup CardVerdicts]
    BY <1>4, <2>1, PostCardType DEF PostLuna, Cards, Stages
  <2> QED BY <1>4, <2>1, <2>2, <2>3 DEF PostLuna, Typed, TypeOK, InHand
<1>5. CASE SaveLuna
  <2>1. [mem EXCEPT !.card = [rev |-> target.rev, stage |-> "luna"]] \in Sessions
    BY <1>5 DEF SaveLuna, Typed, TypeOK, InHand, Sessions, Pointers, Stages
  <2> QED BY <1>5, <2>1, SaveTyped DEF SaveLuna
<1>6. CASE EnterLunaStage
  <2>1. [mem EXCEPT !.outcome = "none"] \in Sessions
    BY DEF Typed, TypeOK, Sessions, Outcomes
  <2> QED BY <1>6, <2>1, SaveTyped DEF EnterLunaStage
<1> QED BY <1>1, <1>2, <1>3, <1>4, <1>5, <1>6 DEF LunaSteps

(* A run that returns or dies keeps the types. *)
LEMMA EndOfRunTyped ==
  ASSUME Typed, YieldHeartbeat \/ Return \/ Crash
  PROVE  Typed'
<1> USE DEF CardSteps, RequestSteps, TargetSteps, Steps
<1>1. CASE YieldHeartbeat
  BY <1>1, SaveTyped DEF YieldHeartbeat, Typed, TypeOK
<1>2. CASE Return
  BY <1>2, EndTyped DEF Return, Typed, TypeOK
<1>3. CASE Crash
  BY <1>3, EndTyped, FaultType DEF Crash, Typed, TypeOK
<1> QED BY <1>1, <1>2, <1>3

(* Faults keep the types. *)
LEMMA FailureTyped ==
  ASSUME Typed, Failure
  PROVE  Typed'
<1> USE DEF CardSteps, RequestSteps, TargetSteps, Steps
<1>1. CASE StartCanonical
  <2>1. faults' \in 0..MaxFaults
    BY <1>1, FaultType DEF StartCanonical
  <2> QED BY <1>1, <2>1, NewSessionType DEF StartCanonical, Typed, TypeOK, InHand, remote
<1>2. CASE RecoverUnavailable \/ RequestLost
  <2>1. faults' \in 0..MaxFaults
    BY <1>2, FaultType DEF RecoverUnavailable, RequestLost
  <2> QED BY <1>2, <2>1 DEF RecoverUnavailable, RequestLost, Typed, TypeOK, InHand, remote
<1>3. CASE CardMissing
  <2>1. faults' \in 0..MaxFaults
    BY <1>3, FaultType DEF CardMissing
  <2>2. [mem EXCEPT !.card = NoCard] \in Sessions
    BY DEF Typed, TypeOK, Sessions, Pointers
  <2> QED BY <1>3, <2>1, <2>2 DEF CardMissing, Typed, TypeOK, InHand, remote
<1> QED BY <1>1, <1>2, <1>3, EndOfRunTyped DEF Failure

(* Jules and the reviewers keep the types. *)
LEMMA EnvironmentTyped ==
  ASSUME Typed, Environment
  PROVE  Typed'
<1>1. ASSUME NEW may, PublishPlan(may) PROVE Typed'
  <2>1. provider' \in [state : ProviderStates, plan : Plans, asked : BOOLEAN]
    BY <1>1, PlanReviewAssumption
       DEF PublishPlan, Typed, TypeOK, ProviderStates, Plans, NoPlan
  <2>2. provider'.plan # NoPlan
    BY <2>1 DEF Plans, NoPlan
  <2> QED BY <1>1, <2>1, <2>2 DEF PublishPlan, Typed, TypeOK, InHand
<1>2. ASSUME NEW c \in Cards, Echo(c) PROVE Typed'
  BY <1>2 DEF Echo, Typed, TypeOK, InHand
<1>3. ASSUME NEW c \in Cards, NEW verdict \in Verdicts, Resolve(c, verdict) PROVE Typed'
  BY <1>3, PlanReviewAssumption DEF Resolve, Typed, TypeOK, InHand
<1> QED
  BY <1>1, <1>2, <1>3 DEF Environment, FirstPlan, RevisedPlan, OtherPlan

(* Every step keeps the types. *)
LEMMA TypedStep == Typed /\ [Next]_vars => Typed'
<1> SUFFICES ASSUME Typed, [Next]_vars PROVE Typed'
  OBVIOUS
<1>1. CASE Heartbeat
  BY <1>1, PollTyped, RecoveryTyped, PendingRequestTyped, GateTyped, RevisionTyped,
     TerraTyped, ApprovalTyped, LunaTyped, EndOfRunTyped DEF Heartbeat
<1>2. CASE UNCHANGED vars
  BY <1>2 DEF vars, remote, Typed, TypeOK, InHand
<1> QED BY <1>1, <1>2, FailureTyped, EnvironmentTyped DEF Next

(* Every variable keeps its type, and every step has in hand the card, the *)
(* request or the revision it acts on, whatever is lost or cut off.        *)
THEOREM TypeCorrect == Spec => []TypeOK
<1>1. Typed => TypeOK
  BY DEF Typed
<1> QED BY <1>1, TypedInit, TypedStep, PTL DEF Spec

-----------------------------------------------------------------------------
(* The journal of a session, whose operators are those of EffectJournal.   *)

(* An attempt is absent, started with its tries, or confirmed.             *)
LEMMA AttemptKinds ==
  ASSUME NEW a \in ValidAttempts
  PROVE  /\ a.kind \in {"absent", "started", "confirmed"}
         /\ a.kind = "started" => a.tries \in 1..2
         /\ a.kind = "confirmed" => a = Confirmed(a.receipt)
BY DEF ValidAttempts, MaxAttempts, Absent, Started, Confirmed

(* A journal's entries are valid attempts, and the operations only advance *)
(* them.                                                                   *)
LEMMA JournalFacts ==
  ASSUME NEW a \in Journals, NEW b \in Journals, NEW e \in EffectIds
  PROVE  /\ JournalAdvances(a, a)
         /\ JournalAdvances(a, b) => Recorded(a) \subseteq Recorded(b)
         /\ JournalAdvances(a, BeginEffect(a, e)) /\ e \in Recorded(BeginEffect(a, e))
         /\ CanRetry(a, e) => JournalAdvances(a, RetryStartedEffect(a, e))
         /\ \A r \in Receipts : CanConfirm(a, e, r) => JournalAdvances(a, ConfirmEffect(a, e, r))
<1>1. JournalAdvances(a, a)
  BY DEF JournalAdvances, Advances
<1>2. JournalAdvances(a, b) => Recorded(a) \subseteq Recorded(b)
  BY DEF JournalAdvances, Advances, Recorded
<1>3. JournalAdvances(a, BeginEffect(a, e)) /\ e \in Recorded(BeginEffect(a, e))
  BY DEF JournalAdvances, Advances, BeginEffect, Journals, Recorded, Started
<1>4. a[e] \in ValidAttempts
  BY DEF Journals
<1>5. ASSUME CanRetry(a, e)
      PROVE  JournalAdvances(a, RetryStartedEffect(a, e))
  <2>1. a[e].kind = "started" /\ a[e].tries \in 1..2
    BY <1>4, <1>5, AttemptKinds DEF CanRetry
  <2> QED BY <2>1 DEF JournalAdvances, Advances, RetryStartedEffect, Started, Journals
<1>6. ASSUME NEW r \in Receipts, CanConfirm(a, e, r)
      PROVE  JournalAdvances(a, ConfirmEffect(a, e, r))
  <2>1. a[e].kind = "started" \/ a[e] = Confirmed(r)
    BY <1>4, <1>6, AttemptKinds DEF CanConfirm
  <2> QED BY <2>1 DEF JournalAdvances, Advances, ConfirmEffect, Confirmed, Journals
<1> QED BY <1>1, <1>2, <1>3, <1>5, <1>6

(* The merged journal of a startup is not behind the recovery record. *)
LEMMA MergeAdvances ==
  ASSUME NEW a \in Journals, NEW b \in Journals
  PROVE  JournalAdvances(b, MergeEffectJournals(a, b))
<1> SUFFICES ASSUME NEW e \in EffectIds PROVE Advances(b[e], MergeAttempt(a[e], b[e]))
  BY DEF JournalAdvances, MergeEffectJournals
<1>1. a[e] \in ValidAttempts /\ b[e] \in ValidAttempts
  BY DEF Journals
<1> QED BY <1>1, AttemptKinds DEF MergeAttempt, Advances

(* Advancing is transitive. *)
LEMMA JournalTrans ==
  ASSUME NEW i \in Journals, NEW j \in Journals, NEW k \in Journals,
         JournalAdvances(i, j), JournalAdvances(j, k)
  PROVE  JournalAdvances(i, k)
<1> SUFFICES ASSUME NEW e \in EffectIds PROVE Advances(i[e], k[e])
  BY DEF JournalAdvances
<1>1. Advances(i[e], j[e]) /\ Advances(j[e], k[e])
  BY DEF JournalAdvances
<1>2. /\ i[e] \in ValidAttempts /\ j[e] \in ValidAttempts /\ k[e] \in ValidAttempts
  BY DEF Journals
<1> QED BY <1>1, <1>2, AttemptKinds DEF Advances

-----------------------------------------------------------------------------
(* The ladder: a Terra card stands on Luna's approval, an approvePlan call *)
(* on both, and a step up to the call has seen the verdict it acts on.     *)
LadderInv ==
  /\ \A r \in Revs : cards[<<r, "terra">>] # "absent" => cards[<<r, "luna">>] = "approved"
  /\ \A r \in Revs : approvals[r] > 0 => BothApproved(r)
  /\ pc = "post_terra" => cards[<<mem.card.rev, "luna">>] = "approved"
  /\ pc = "approve" => BothApproved(mem.card.rev)

(* The steps that change cards, approvals, or the card in hand before a    *)
(* call; every other step keeps the ladder as it is.                       *)
LEMMA LadderKept ==
  ASSUME LadderInv, UNCHANGED <<cards, approvals>>, pc' \notin {"post_terra", "approve"}
  PROVE  LadderInv'
BY DEF LadderInv, BothApproved

(* The gate moves on to a call only after the verdict the call needs. *)
LEMMA LadderGate ==
  ASSUME Typed, LadderInv, Gate
  PROVE  LadderInv'
<1>1. CASE LunaApproved
  <2>1. mem.card # NoCard /\ mem.card.stage = "luna" /\ cards[Pointed] = "approved"
    BY <1>1 DEF LunaApproved, Consulting, AtCard, VerdictApproves
  <2>2. UNCHANGED <<cards, approvals>> /\ mem'.card = mem.card /\ pc' # "approve"
    BY <1>1 DEF LunaApproved, Begin, Confirm, Goto, Save, remote, Typed, TypeOK, Sessions
  <2> QED BY <2>1, <2>2 DEF LadderInv, BothApproved, Pointed
<1>2. CASE TerraApproved
  <2>1. mem.card # NoCard /\ mem.card.stage = "terra" /\ cards[Pointed] = "approved"
    BY <1>2 DEF TerraApproved, Consulting, AtCard, VerdictApproves
  <2>2. UNCHANGED <<cards, approvals>> /\ mem'.card = mem.card /\ pc' # "post_terra"
    BY <1>2 DEF TerraApproved, Begin, Confirm, Goto, Save, remote, Typed, TypeOK, Sessions
  <2>3. BothApproved(mem.card.rev)
    BY <2>1, CardType DEF LadderInv, BothApproved, Pointed
  <2> QED BY <2>2, <2>3 DEF LadderInv, BothApproved
<1>3. CASE ~LunaApproved /\ ~TerraApproved
  <2>1. UNCHANGED <<cards, approvals>> /\ pc' \notin {"post_terra", "approve"}
    BY <1>3 DEF Gate, NoPointer, HoldForWitness, RetireReplaced, CardLost, CardOverridden,
                CardAwaited, Rejected, Begin, Confirm, Goto, Save, remote
  <2> QED BY <2>1, LadderKept
<1> QED BY <1>1, <1>2, <1>3

(* Every step keeps the ladder. *)
LEMMA LadderStep == Typed /\ LadderInv /\ [Next]_vars => LadderInv'
<1> SUFFICES ASSUME Typed, LadderInv, [Next]_vars PROVE LadderInv'
  OBVIOUS
<1>1. CASE Gate
  BY <1>1, LadderGate
<1>2. CASE PostTerra
  <2>1. mem.card.rev \in Revs /\ cards[<<mem.card.rev, "luna">>] = "approved"
    BY <1>2, CardType DEF PostTerra, Typed, InHand, CardSteps, LadderInv
  <2>2. \A c \in Cards : cards[c] # "absent" => cards'[c] = cards[c]
    BY <1>2 DEF PostTerra, PostCard, Typed, TypeOK
  <2>3. \A r \in Revs : r # mem.card.rev => cards'[<<r, "terra">>] = cards[<<r, "terra">>]
    BY <1>2 DEF PostTerra, PostCard, Typed, TypeOK, Cards, Stages
  <2>4. pc' \in {"confirm_terra", "yield"} /\ UNCHANGED approvals
    BY <1>2 DEF PostTerra, Answer
  <2> QED BY <2>1, <2>2, <2>3, <2>4 DEF LadderInv, BothApproved, Cards, Stages
<1>3. CASE PostLuna
  <2>1. \A c \in Cards : cards[c] # "absent" => cards'[c] = cards[c]
    BY <1>3 DEF PostLuna, PostCard, Typed, TypeOK
  <2>2. \A r \in Revs : cards'[<<r, "terra">>] = cards[<<r, "terra">>]
    BY <1>3 DEF PostLuna, PostCard, Typed, TypeOK, Cards, Stages
  <2>3. pc' \in {"save_luna", "yield"} /\ UNCHANGED approvals
    BY <1>3 DEF PostLuna, Answer
  <2> QED BY <2>1, <2>2, <2>3 DEF LadderInv, BothApproved, Cards, Stages
<1>4. CASE ApprovePlan
  <2>1. mem.card.rev \in Revs /\ BothApproved(mem.card.rev)
    BY <1>4, CardType DEF ApprovePlan, Typed, InHand, CardSteps, LadderInv
  <2>2. \A r \in Revs : r # mem.card.rev => approvals'[r] = approvals[r]
    BY <1>4 DEF ApprovePlan, Typed, TypeOK
  <2>3. pc' \in {"confirm_approve", "yield"} /\ UNCHANGED cards
    BY <1>4 DEF ApprovePlan, Answer
  <2> QED BY <2>1, <2>2, <2>3 DEF LadderInv, BothApproved
<1>5. CASE Environment
  <2>1. UNCHANGED <<pc, mem, approvals>>
    BY <1>5 DEF Environment, FirstPlan, RevisedPlan, OtherPlan, PublishPlan, Echo, Resolve
  <2>2. \A c \in Cards : cards[c] # "pending" => cards'[c] = cards[c]
    BY <1>5 DEF Environment, FirstPlan, RevisedPlan, OtherPlan, PublishPlan, Echo, Resolve,
                Typed, TypeOK
  <2>3. \A c \in Cards : cards[c] = "absent" => cards'[c] = "absent"
    BY <2>2
  <2>4. pc \in {"post_terra", "approve"} => mem.card.rev \in Revs
    BY CardType DEF Typed, InHand, CardSteps
  <2>5. \A r \in Revs : <<r, "luna">> \in Cards /\ <<r, "terra">> \in Cards
    BY DEF Cards, Stages
  <2> QED BY <2>1, <2>2, <2>3, <2>4, <2>5 DEF LadderInv, BothApproved
<1>6. CASE UNCHANGED vars
  BY <1>6 DEF vars, remote, LadderInv, BothApproved
<1>7. ASSUME Heartbeat \/ Failure, ~Gate, ~PostTerra, ~PostLuna, ~ApprovePlan
      PROVE  LadderInv'
  <2>1. UNCHANGED <<cards, approvals>> /\ pc' \notin {"post_terra", "approve"}
    BY <1>7 DEF Heartbeat, Failure, Start, Observe, ReadActivities, Recovery, RecoverPointer,
         KeepPointer, PendingRequest, NoPendingRequest, RequestFulfilled, RequestEchoed,
         RequestAwaited, RevisionSteps, PrepareRequest, SendRequest, RecordRequest,
         ConfirmRequest, TerraSteps, ConfirmTerra, PointTerra, EnterTerraStage, ApprovalSteps,
         ConfirmApprove, RecordApproved, LunaSteps, PlanNotDue, WaitForHuman, OpenReview,
         SaveDocument, SaveLuna, EnterLunaStage, YieldHeartbeat, Return, StartCanonical,
         RecoverUnavailable, CardMissing, Crash, RequestLost, EndRun, Confirm, Goto, Save,
         Answer, remote
  <2> QED BY <2>1, LadderKept
<1> QED BY <1>1, <1>2, <1>3, <1>4, <1>5, <1>6, <1>7 DEF Next

(* Jules is asked to execute a plan only after Luna and then Terra have    *)
(* approved the very revision the call is made for: no crash, lost answer, *)
(* failed read, replaced plan or forgotten session opens another way.      *)
THEOREM BothReviewersApprove == Spec => []ApprovalNeedsBothVerdicts
<1>1. Init => LadderInv
  BY DEF Init, LadderInv, Cards, Stages
<1>2. LadderInv => ApprovalNeedsBothVerdicts
  BY DEF LadderInv, ApprovalNeedsBothVerdicts
<1> QED BY <1>1, <1>2, TypedInit, TypedStep, LadderStep, PTL DEF Spec

-----------------------------------------------------------------------------
(* The record pays for the calls.  NeverBehind fails when a run starts     *)
(* from the canonical session id alone, so that fault is excluded here.    *)
NeverBehind == pc # "idle" => JournalAdvances(disk.journal, mem.journal)
OnceInv ==
  /\ NeverBehind
  /\ EffectsAreJournaled
  /\ ApproveOncePerRevision
  /\ pc = "approve" => /\ approvals[mem.card.rev] = 0
                       /\ ApproveEffect(mem.card.rev) \in Recorded(disk.journal)
  /\ pc = "post_terra" => CardEffect(mem.card.rev) \in Recorded(disk.journal)

(* The journals of the three copies are journals. *)
LEMMA JournalTypes ==
  ASSUME Typed
  PROVE  /\ disk \in Sessions /\ env \in Sessions /\ mem \in Sessions
         /\ disk.journal \in Journals /\ env.journal \in Journals /\ mem.journal \in Journals
BY DEF Typed, TypeOK, Sessions

(* The identities of card and approval are effect identities. *)
LEMMA EffectTypes ==
  ASSUME NEW r \in Revs
  PROVE  CardEffect(r) \in EffectIds /\ ApproveEffect(r) \in EffectIds
BY DEF CardEffect, ApproveEffect, EffectIds

(* A step that saves what it has, or more, and makes no call.              *)
LEMMA SaveKeeps ==
  ASSUME Typed, OnceInv, pc # "idle", NEW s \in Sessions, NEW step,
         JournalAdvances(mem.journal, s.journal), Save(s, step)
  PROVE  /\ NeverBehind' /\ EffectsAreJournaled' /\ ApproveOncePerRevision'
         /\ \A e \in EffectIds : e \in Recorded(disk.journal) => e \in Recorded(disk'.journal)
         /\ disk' = s /\ mem' = s
<1>1. disk' = s /\ mem' = s /\ UNCHANGED <<cards, approvals>>
  BY DEF Save, remote
<1>2. s.journal \in Journals
  BY DEF Sessions
<1>3. JournalAdvances(disk.journal, s.journal)
  BY <1>2, JournalTypes, JournalTrans DEF OnceInv, NeverBehind
<1>4. \A e \in EffectIds : e \in Recorded(disk.journal) => e \in Recorded(s.journal)
  BY <1>2, <1>3, JournalTypes, JournalFacts
<1>5. NeverBehind'
  BY <1>1, <1>2 DEF NeverBehind, JournalAdvances, Advances
<1> QED
  BY <1>1, <1>4, <1>5, EffectTypes DEF OnceInv, EffectsAreJournaled, ApproveOncePerRevision

(* A save that advances the journal keeps the invariant, unless a call     *)
(* comes next.                                                             *)
LEMMA SaveOnce ==
  ASSUME Typed, OnceInv, pc # "idle", NEW s \in Sessions, NEW step,
         JournalAdvances(mem.journal, s.journal), Save(s, step),
         step \notin {"approve", "post_terra"}
  PROVE  OnceInv'
<1>1. pc' \notin {"approve", "post_terra"}
  BY DEF Save
<1> QED BY <1>1, SaveKeeps DEF OnceInv

(* A step that leaves the sessions, the cards and the approvals alone.     *)
LEMMA StillOnce ==
  ASSUME OnceInv, UNCHANGED <<disk, mem, cards, approvals>>, pc # "idle",
         pc' \notin {"approve", "post_terra"}
  PROVE  OnceInv'
BY DEF OnceInv, NeverBehind, EffectsAreJournaled, ApproveOncePerRevision

(* A receipt keeps the invariant. *)
LEMMA ConfirmOnce ==
  ASSUME Typed, OnceInv, pc # "idle", NEW e \in EffectIds, NEW r \in Receipts, NEW step,
         step \notin {"approve", "post_terra"}, Confirm(e, r, step)
  PROVE  OnceInv'
<1> DEFINE s == [mem EXCEPT !.journal = ConfirmEffect(mem.journal, e, r)]
<1>1. s \in Sessions /\ s.journal = ConfirmEffect(mem.journal, e, r)
  BY JournalTypes, ConfirmSession DEF Sessions
<1>2. JournalAdvances(mem.journal, s.journal)
  BY <1>1, JournalTypes, JournalFacts DEF Confirm
<1> QED BY <1>1, <1>2, SaveOnce DEF Confirm

(* The runner executes an effect only when the journal has no entry for it.*)
LEMMA ExecutesNew ==
  ASSUME Typed, NEW e \in EffectIds, NEW verdict, NEW kind, Disposition(verdict, e, kind) = "execute"
  PROVE  mem.journal[e].kind = "absent"
<1> DEFINE s == LifecycleState(verdict, e)
<1>1. s.review = "resolved" /\ s.effect = ProjectEffectAttempt(e)
      /\ s.provider \in {"in_progress", "awaiting_plan"}
  BY DEF LifecycleState
<1>2. CASE ApprovalWitnessed
  <2>1. DecideInterrupted(s) \notin NativePlanEffects
    BY DEF DecideInterrupted, NativePlanEffects
  <2> QED
    BY <1>2, <2>1 DEF Disposition, RunJulesLifecycle, ReduceJulesLifecycle
<1>3. CASE ~ApprovalWitnessed
  <2>1. DecideHeartbeat(s) \in NativePlanEffects
    BY <1>3 DEF Disposition, RunJulesLifecycle, ReduceJulesLifecycle
  <2>2. DecideHeartbeat(s) = DecideAwaitingPlan(s)
    BY <1>1, <2>1 DEF DecideHeartbeat, NativePlanEffects
  <2>3. s.effect = "not_started"
    BY <1>1, <2>1, <2>2 DEF DecideAwaitingPlan, NativePlanEffects
  <2>4. mem.journal[e].kind # "not_started"
    BY JournalTypes DEF Journals, ValidAttempts, Absent, Started, Confirmed
  <2> QED BY <1>1, <2>3, <2>4 DEF ProjectEffectAttempt
<1> QED BY <1>2, <1>3

(* The gate begins an approval only when none is on record. *)
LEMMA GateOnce ==
  ASSUME Typed, OnceInv, Gate
  PROVE  OnceInv'
<1> USE DEF Receipts
<1>0. pc = "gate"
  BY DEF Gate, NoPointer, HoldForWitness, RetireReplaced, CardLost, CardOverridden,
         CardAwaited, Rejected, LunaApproved, TerraApproved, Consulting, AtCard
<1>1. ASSUME NEW step, Goto(step), step \notin {"approve", "post_terra"} PROVE OnceInv'
  BY <1>0, <1>1, StillOnce DEF Goto, remote
<1>2. CASE NoPointer \/ HoldForWitness \/ CardLost \/ CardOverridden \/ CardAwaited
  BY <1>1, <1>2 DEF NoPointer, HoldForWitness, CardLost, CardOverridden, CardAwaited
<1>3. CASE RetireReplaced
  <2> DEFINE s == [mem EXCEPT !.card = NoCard, !.superseded = PointedPlan,
                              !.outcome = "revision_requested"]
  <2>1. mem.card # NoCard
    BY <1>3 DEF RetireReplaced, AtCard
  <2>2. s \in Sessions /\ s.journal = mem.journal
    BY <2>1, CardType DEF Typed, TypeOK, Sessions, Pointers, Outcomes
  <2>3. JournalAdvances(mem.journal, s.journal)
    BY <2>2 DEF JournalAdvances, Advances
  <2>4. Save(s, "yield")
    BY <1>3 DEF RetireReplaced
  <2> HIDE DEF s
  <2> QED BY <1>0, <2>2, <2>3, <2>4, SaveOnce
<1>4. CASE Rejected
  <2> DEFINE e == RevisionEffect(mem.card.rev, mem.card.stage)
             s == [mem EXCEPT !.journal = BeginEffect(mem.journal, e)]
  <2>1. mem.card # NoCard
    BY <1>4 DEF Rejected, Consulting, AtCard
  <2>2. e \in EffectIds
    BY <2>1, CardType
  <2>3. s \in Sessions /\ s.journal = BeginEffect(mem.journal, e)
    BY <2>2, JournalTypes, BeginSession DEF Sessions
  <2>4. JournalAdvances(mem.journal, s.journal)
    BY <2>2, <2>3, JournalTypes, JournalFacts
  <2>5. ASSUME Begin(e, "prepare_request") PROVE OnceInv'
    <3>1. Save(s, "prepare_request")
      BY <2>5 DEF Begin
    <3> HIDE DEF s
    <3> QED BY <1>0, <2>3, <2>4, <3>1, SaveOnce
  <2> QED BY <1>0, <1>1, <1>4, <2>2, <2>5, ConfirmOnce DEF Rejected
<1>5. CASE LunaApproved
  <2> DEFINE e == CardEffect(mem.card.rev)
             begun == [mem EXCEPT !.journal = BeginEffect(mem.journal, e)]
             retried == [mem EXCEPT !.journal = RetryStartedEffect(mem.journal, e)]
  <2>1. mem.card # NoCard
    BY <1>5 DEF LunaApproved, Consulting, AtCard
  <2>2. e \in EffectIds
    BY <2>1, CardType
  <2>3. CASE Begin(e, "post_terra")
    <3>1. begun \in Sessions /\ begun.journal = BeginEffect(mem.journal, e) /\ begun.card = mem.card
      BY <2>2, JournalTypes, BeginSession DEF Sessions
    <3>2. JournalAdvances(mem.journal, begun.journal) /\ e \in Recorded(begun.journal)
      BY <2>2, <3>1, JournalTypes, JournalFacts
    <3>3. /\ NeverBehind' /\ EffectsAreJournaled' /\ ApproveOncePerRevision'
          /\ disk' = begun /\ mem' = begun
      BY <1>0, <2>3, <3>1, <3>2, SaveKeeps DEF Begin
    <3>4. pc' = "post_terra"
      BY <2>3 DEF Begin, Save
    <3>5. CardEffect(mem'.card.rev) \in Recorded(disk'.journal)
      BY <3>1, <3>2, <3>3
    <3> QED BY <3>3, <3>4, <3>5 DEF OnceInv
  <2>4. CASE CanRetry(mem.journal, e) /\ Save(retried, "post_terra")
    <3>1. /\ retried \in Sessions /\ retried.card = mem.card
          /\ retried.journal = RetryStartedEffect(mem.journal, e)
      BY <2>2, <2>4, JournalTypes, RetrySession DEF Sessions
    <3>2. JournalAdvances(mem.journal, retried.journal)
      BY <2>2, <2>4, <3>1, JournalTypes, JournalFacts
    <3>3. e \in Recorded(retried.journal)
      BY <2>2, <3>1, JournalTypes DEF RetryStartedEffect, Recorded, Journals, Started
    <3>4. /\ NeverBehind' /\ EffectsAreJournaled' /\ ApproveOncePerRevision'
          /\ disk' = retried /\ mem' = retried
      BY <1>0, <2>4, <3>1, <3>2, SaveKeeps
    <3>5. pc' = "post_terra"
      BY <2>4 DEF Save
    <3>6. CardEffect(mem'.card.rev) \in Recorded(disk'.journal)
      BY <3>1, <3>3, <3>4
    <3> QED BY <3>4, <3>5, <3>6 DEF OnceInv
  <2>5. \/ Begin(e, "post_terra")
        \/ Confirm(e, "card", "point_terra")
        \/ CanRetry(mem.journal, e) /\ Save(retried, "post_terra")
        \/ Goto("yield")
        \/ Goto("point_terra")
    BY <1>5 DEF LunaApproved
  <2> QED BY <1>0, <1>1, <2>2, <2>3, <2>4, <2>5, ConfirmOnce
<1>6. CASE TerraApproved
  <2> DEFINE e == ApproveEffect(mem.card.rev)
             begun == [mem EXCEPT !.journal = BeginEffect(mem.journal, e)]
  <2>1. mem.card # NoCard
    BY <1>6 DEF TerraApproved, Consulting, AtCard
  <2>2. e \in EffectIds /\ mem.card.rev \in Revs
    BY <2>1, CardType
  <2>3. CASE Disposition("approve", e, "approve_plan") = "execute" /\ Begin(e, "approve")
    <3>1. begun \in Sessions /\ begun.journal = BeginEffect(mem.journal, e) /\ begun.card = mem.card
      BY <2>2, JournalTypes, BeginSession DEF Sessions
    <3>2. JournalAdvances(mem.journal, begun.journal) /\ e \in Recorded(begun.journal)
      BY <2>2, <3>1, JournalTypes, JournalFacts
    <3>3. e \notin Recorded(mem.journal)
      BY <2>2, <2>3, ExecutesNew DEF Recorded
    <3>4. e \notin Recorded(disk.journal)
      BY <1>0, <2>2, <3>3, JournalTypes, JournalFacts DEF OnceInv, NeverBehind
    <3>5. approvals[mem.card.rev] = 0
      <4>1. approvals[mem.card.rev] \in Nat
        BY <2>2 DEF Typed, TypeOK
      <4>2. ~(approvals[mem.card.rev] > 0)
        BY <2>2, <3>4 DEF OnceInv, EffectsAreJournaled
      <4> QED BY <4>1, <4>2
    <3>6. /\ NeverBehind' /\ EffectsAreJournaled' /\ ApproveOncePerRevision'
          /\ disk' = begun /\ mem' = begun
      BY <1>0, <2>3, <3>1, <3>2, SaveKeeps DEF Begin
    <3>7. pc' = "approve" /\ UNCHANGED approvals
      BY <2>3 DEF Begin, Save, remote
    <3>8. ApproveEffect(mem'.card.rev) \in Recorded(disk'.journal)
      BY <3>1, <3>2, <3>6
    <3> QED BY <3>1, <3>5, <3>6, <3>7, <3>8 DEF OnceInv
  <2>4. \/ Disposition("approve", e, "approve_plan") = "execute" /\ Begin(e, "approve")
        \/ Confirm(e, "observed", "record_approved")
        \/ Goto("yield")
    BY <1>6 DEF TerraApproved
  <2> QED BY <1>0, <1>1, <2>2, <2>3, <2>4, ConfirmOnce
<1> QED BY <1>2, <1>3, <1>4, <1>5, <1>6 DEF Gate

(* The steps outside the gate that save a changed session keep its journal *)
(* as it is or confirm an entry of it.                                     *)
LEMMA PlainSaves ==
  ASSUME Typed, OnceInv,
         \/ RecoverPointer \/ RequestFulfilled \/ RequestEchoed \/ PrepareRequest \/ RecordRequest
         \/ PointTerra \/ RecordApproved \/ OpenReview \/ SaveLuna \/ EnterLunaStage
         \/ YieldHeartbeat \/ CardMissing
  PROVE  OnceInv'
<1>1. disk' = mem' /\ UNCHANGED <<cards, approvals>> /\ pc # "idle" /\ pc' \notin {"approve", "post_terra"}
  <2>1. CASE RecordRequest
    BY <2>1 DEF RecordRequest, Save, remote
  <2>2. CASE OpenReview \/ CardMissing
    BY <2>2 DEF OpenReview, CardMissing, Consulting, AtCard, remote
  <2>3. CASE ~RecordRequest /\ ~OpenReview /\ ~CardMissing
    BY <2>3 DEF RecoverPointer, RequestFulfilled, RequestEchoed, PrepareRequest,
         PointTerra, RecordApproved, SaveLuna, EnterLunaStage, YieldHeartbeat, Save, remote
  <2> QED BY <2>1, <2>2, <2>3
<1>2. mem'.journal = mem.journal
  BY JournalTypes
     DEF RecoverPointer, RequestFulfilled, RequestEchoed, PrepareRequest, RecordRequest,
         PointTerra, RecordApproved, OpenReview, SaveLuna, EnterLunaStage, YieldHeartbeat,
         CardMissing, Save, Delivered, Sessions
<1>3. \A e \in EffectIds : e \in Recorded(disk.journal) => e \in Recorded(disk'.journal)
  BY <1>1, <1>2, JournalTypes, JournalFacts DEF OnceInv, NeverBehind
<1>4. NeverBehind'
  BY <1>1 DEF NeverBehind, JournalAdvances, Advances
<1> QED
  BY <1>1, <1>3, <1>4, EffectTypes DEF OnceInv, EffectsAreJournaled, ApproveOncePerRevision

(* Every step keeps the invariant. *)
LEMMA OnceStep ==
  ASSUME "canonical" \notin Faults, Typed, OnceInv, [Next]_vars
  PROVE  OnceInv'
<1> USE DEF Receipts
<1>1. CASE Start
  <2>1. /\ mem'.journal = MergeEffectJournals(env.journal, disk.journal)
        /\ pc' = "observe" /\ UNCHANGED <<disk, cards, approvals>>
    BY <1>1 DEF Start, MergeCheckpoints, remote
  <2>2. JournalAdvances(disk'.journal, mem'.journal)
    BY <2>1, JournalTypes, MergeAdvances
  <2> QED
    BY <2>1, <2>2 DEF OnceInv, NeverBehind, EffectsAreJournaled, ApproveOncePerRevision
<1>2. CASE PostTerra
  <2>1. /\ mem.card.rev \in Revs /\ CardEffect(mem.card.rev) \in Recorded(disk.journal)
        /\ pc # "idle"
    BY <1>2, CardType DEF PostTerra, Typed, InHand, CardSteps, OnceInv
  <2>2. \A r \in Revs : r # mem.card.rev => cards'[<<r, "terra">>] = cards[<<r, "terra">>]
    BY <1>2 DEF PostTerra, PostCard, Typed, TypeOK, Cards, Stages
  <2>3. pc' \in {"confirm_terra", "yield"} /\ UNCHANGED <<disk, mem, approvals>>
    BY <1>2 DEF PostTerra, Answer
  <2>4. EffectsAreJournaled'
    BY <2>1, <2>2, <2>3 DEF OnceInv, EffectsAreJournaled
  <2> QED BY <2>1, <2>3, <2>4 DEF OnceInv, NeverBehind, ApproveOncePerRevision
<1>3. CASE PostLuna
  <2>1. \A r \in Revs : cards'[<<r, "terra">>] = cards[<<r, "terra">>]
    BY <1>3 DEF PostLuna, PostCard, Typed, TypeOK, Cards, Stages
  <2>2. pc # "idle" /\ pc' \in {"save_luna", "yield"} /\ UNCHANGED <<disk, mem, approvals>>
    BY <1>3 DEF PostLuna, Answer
  <2> QED
    BY <2>1, <2>2 DEF OnceInv, NeverBehind, EffectsAreJournaled, ApproveOncePerRevision
<1>4. CASE ApprovePlan
  <2>1. /\ mem.card.rev \in Revs /\ approvals[mem.card.rev] = 0 /\ pc # "idle"
        /\ ApproveEffect(mem.card.rev) \in Recorded(disk.journal)
    BY <1>4, CardType DEF ApprovePlan, Typed, InHand, CardSteps, OnceInv
  <2>2. /\ \A r \in Revs : r # mem.card.rev => approvals'[r] = approvals[r]
        /\ approvals'[mem.card.rev] = 1
    BY <1>4, <2>1 DEF ApprovePlan, Typed, TypeOK
  <2>3. pc' \in {"confirm_approve", "yield"} /\ UNCHANGED <<disk, mem, cards>>
    BY <1>4 DEF ApprovePlan, Answer
  <2>4. ApproveOncePerRevision' /\ EffectsAreJournaled'
    BY <2>1, <2>2, <2>3 DEF OnceInv, EffectsAreJournaled, ApproveOncePerRevision
  <2> QED BY <2>1, <2>3, <2>4 DEF OnceInv, NeverBehind
<1>5. CASE ConfirmRequest \/ ConfirmTerra \/ ConfirmApprove
  <2>1. CASE ConfirmRequest
    <3>1. RequestEffect \in EffectIds
      BY <2>1, RequestType DEF ConfirmRequest, Typed, InHand, RequestSteps
    <3> QED BY <2>1, <3>1, ConfirmOnce DEF ConfirmRequest
  <2>2. CASE ConfirmTerra
    <3>1. CardEffect(mem.card.rev) \in EffectIds
      BY <2>2, CardType DEF ConfirmTerra, Typed, InHand, CardSteps
    <3> QED BY <2>2, <3>1, ConfirmOnce DEF ConfirmTerra
  <2>3. CASE ConfirmApprove
    <3>1. ApproveEffect(mem.card.rev) \in EffectIds
      BY <2>3, CardType DEF ConfirmApprove, Typed, InHand, CardSteps
    <3> QED BY <2>3, <3>1, ConfirmOnce DEF ConfirmApprove
  <2> QED BY <1>5, <2>1, <2>2, <2>3
<1>6. CASE Environment
  <2>1. UNCHANGED <<pc, disk, mem, approvals>>
    BY <1>6 DEF Environment, FirstPlan, RevisedPlan, OtherPlan, PublishPlan, Echo, Resolve
  <2>2. \A c \in Cards : cards[c] = "absent" => cards'[c] = "absent"
    BY <1>6 DEF Environment, FirstPlan, RevisedPlan, OtherPlan, PublishPlan, Echo, Resolve,
                Typed, TypeOK
  <2>3. \A r \in Revs : <<r, "terra">> \in Cards
    BY DEF Cards, Stages
  <2>4. EffectsAreJournaled'
    BY <2>1, <2>2, <2>3 DEF OnceInv, EffectsAreJournaled
  <2> QED BY <2>1, <2>4 DEF OnceInv, NeverBehind, ApproveOncePerRevision
<1>7. CASE Return \/ Crash
  BY <1>7 DEF Return, Crash, EndRun, remote, OnceInv, NeverBehind, EffectsAreJournaled,
              ApproveOncePerRevision
<1>8. CASE UNCHANGED vars
  BY <1>8 DEF vars, remote, OnceInv, NeverBehind, EffectsAreJournaled, ApproveOncePerRevision
<1>9. CASE \/ RecoverPointer \/ RequestFulfilled \/ RequestEchoed \/ PrepareRequest \/ RecordRequest
           \/ PointTerra \/ RecordApproved \/ OpenReview \/ SaveLuna \/ EnterLunaStage
           \/ YieldHeartbeat \/ CardMissing
  BY <1>9, PlainSaves
<1>10. CASE \/ Observe \/ ReadActivities \/ KeepPointer \/ NoPendingRequest \/ RequestAwaited
            \/ SendRequest \/ EnterTerraStage \/ PlanNotDue \/ WaitForHuman \/ SaveDocument
            \/ RecoverUnavailable \/ RequestLost
  <2>1. /\ UNCHANGED <<disk, mem, cards, approvals>>
        /\ pc # "idle" /\ pc' \notin {"approve", "post_terra"}
    BY <1>10 DEF Observe, ReadActivities, KeepPointer, NoPendingRequest, RequestAwaited,
         SendRequest, EnterTerraStage, PlanNotDue, WaitForHuman, SaveDocument,
         RecoverUnavailable, RequestLost, Goto, Answer, remote
  <2> QED BY <2>1, StillOnce
<1>11. ~StartCanonical
  BY DEF StartCanonical, Fault
<1> QED
  BY <1>1, <1>2, <1>3, <1>4, <1>5, <1>6, <1>7, <1>8, <1>9, <1>10, <1>11, GateOnce
     DEF Next, Heartbeat, Failure, Recovery, PendingRequest, RevisionSteps, TerraSteps,
         ApprovalSteps, LunaSteps

(* Initially nothing was called and nothing is on record. *)
LEMMA OnceInit == Init => OnceInv
BY DEF Init, OnceInv, NeverBehind, EffectsAreJournaled, ApproveOncePerRevision, Cards, Stages

(* As long as every run is given its envelope or its record, approvePlan   *)
(* is called at most once for a revision, however runs are cut off, calls  *)
(* fail and answers are lost.                                              *)
THEOREM ApprovesOnce ==
  ASSUME "canonical" \notin Faults
  PROVE  Spec => []ApproveOncePerRevision
<1>1. Typed /\ OnceInv /\ [Next]_vars => OnceInv'
  BY OnceStep
<1>2. OnceInv => ApproveOncePerRevision
  BY DEF OnceInv
<1> QED BY <1>1, <1>2, OnceInit, TypedInit, TypedStep, PTL DEF Spec

(* And an approval or a Terra card that reached the other side is always   *)
(* an entry of the recovery record.                                        *)
THEOREM EffectsJournaled ==
  ASSUME "canonical" \notin Faults
  PROVE  Spec => []EffectsAreJournaled
<1>1. Typed /\ OnceInv /\ [Next]_vars => OnceInv'
  BY OnceStep
<1>2. OnceInv => EffectsAreJournaled
  BY DEF OnceInv
<1> QED BY <1>1, <1>2, OnceInit, TypedInit, TypedStep, PTL DEF Spec

-----------------------------------------------------------------------------
(* The card a session has a revision request for. *)
Asked(s) == <<s.request.rev, s.request.stage>>
Nobody == <<0, "none">>

Unread == {"idle", "observe", "read"}    \* the steps before Jules was read

(* What is known of plans and revisions.                                   *)
PlanKnown ==
  /\ \A r \in Revs : planOf[r] <= provider.plan
  /\ \A c \in Cards : cards[c] # "absent" => c[1] <= lastRev
  /\ \A c \in Cards : requests[c] > 0 => cards[c] # "absent"
  /\ pc = "post_luna" => target.rev <= lastRev
  /\ snap.plan <= provider.plan
  /\ pc = "read" => (snap.state = "AWAITING_PLAN_APPROVAL" => provider.plan # NoPlan)
  /\ pc \notin Unread => (snap.state = "AWAITING_PLAN_APPROVAL" => snap.plan # NoPlan)
  /\ pc \in {"recover", "request", "gate"} => \A r \in Revs : planOf[r] <= snap.plan
  /\ pc = "save_document" => target.plan <= provider.plan

(* The three copies never disagree on the card that was asked for, and a   *)
(* run with a request on record has no card at its gate.                   *)
OneRequest ==
  /\ Asked(env) = Nobody \/ Asked(disk) = Nobody \/ Asked(env) = Asked(disk)
  /\ pc # "idle" => /\ Asked(disk) \in {Nobody, Asked(mem)}
                    /\ Asked(env) = Nobody \/ Asked(mem) = Nobody \/ Asked(env) = Asked(mem)
  /\ pc \in {"observe", "read", "recover", "request"} => Asked(env) \in {Nobody, Asked(mem)}
  /\ pc \in {"gate", "prepare_request", "approve"} /\ mem.card # NoCard => Asked(env) = Nobody
  /\ pc \in {"gate", "prepare_request", "approve"} => Asked(mem) = Nobody

(* A request that was sent is on record or its plan is outdated, for the   *)
(* next run and for the run in progress.                                   *)
Remembered ==
  \A c \in Cards : requests[c] > 0 =>
    /\ provider.plan > planOf[c[1]] \/ Asked(disk) = c
    /\ pc \in {"observe", "read"} => provider.plan > planOf[c[1]] \/ Asked(mem) = c
    /\ pc \notin Unread => snap.plan > planOf[c[1]] \/ Asked(mem) = c

(* A card that ended in a way that calls for a fresh plan. *)
Refused(c) == cards[c] \notin {"absent", "pending", "approved", "cancelled"}

ReviseInv ==
  /\ PlanKnown /\ OneRequest /\ Remembered
  /\ pc \in {"prepare_request", "approve"} => snap.plan <= PointedPlan
  /\ pc = "prepare_request" => Refused(Pointed)
  /\ pc = "send_request" => /\ Refused(RequestedCard) /\ requests[RequestedCard] = 0
                            /\ Asked(disk) = Asked(mem)

(* The numbers among the values. *)
LEMMA PlanNumbers ==
  ASSUME Typed
  PROVE  /\ MaxPlans \in Nat /\ MaxRevs \in Nat /\ 0 \notin Revs /\ Revs \subseteq Nat
         /\ \A r \in Revs : planOf[r] \in Nat
         /\ provider.plan \in Nat /\ snap.plan \in Nat /\ lastRev \in Nat
         /\ target.plan \in Nat /\ target.rev \in Nat
         /\ \A c \in Cards : c[1] \in Revs /\ c # Nobody /\ requests[c] \in Nat
         /\ mem \in Sessions /\ disk \in Sessions /\ env \in Sessions
<1>1. MaxPlans \in Nat /\ MaxRevs \in Nat /\ 0 \notin Revs /\ Revs \subseteq Nat
  BY PlanReviewAssumption DEF Revs
<1>2. PlanIds \cup {NoPlan} \subseteq Nat
  BY <1>1 DEF PlanIds, Plans, NoPlan, Placeholder
<1>3. /\ provider.plan \in Nat /\ snap.plan \in Nat /\ lastRev \in Nat
      /\ target.plan \in Nat /\ target.rev \in Nat
  <2>1. /\ provider.plan \in Plans \cup {NoPlan} /\ snap.plan \in Plans \cup {NoPlan}
        /\ target.plan \in PlanIds \cup {NoPlan} /\ target.rev \in Revs \cup {0}
        /\ lastRev \in Revs \cup {0}
    BY DEF Typed, TypeOK
  <2> QED BY <1>1, <2>1 DEF PlanIds, Plans, NoPlan, Placeholder, Revs
<1>5. \A c \in Cards : c[1] \in Revs /\ c # Nobody /\ requests[c] \in Nat
  BY <1>1 DEF Typed, TypeOK, Cards, Stages, Nobody
<1>6. \A r \in Revs : planOf[r] \in Nat
  BY <1>2 DEF Typed, TypeOK
<1>7. mem \in Sessions /\ disk \in Sessions /\ env \in Sessions
  BY DEF Typed, TypeOK
<1> QED BY <1>1, <1>3, <1>5, <1>6, <1>7

(* A session asks for nobody exactly when it has no request. *)
LEMMA AskedNobody ==
  ASSUME NEW s \in Sessions
  PROVE  s.request = NoRequest <=> Asked(s) = Nobody
BY PlanReviewAssumption DEF Sessions, Requests, NoRequest, Asked, Nobody, Revs

(* Plans and revisions only grow, and the plan of a revision stays.        *)
LEMMA PlansGrow ==
  ASSUME Typed, [Next]_vars
  PROVE  /\ provider'.plan >= provider.plan /\ lastRev' >= lastRev
         /\ \A r \in Revs : r <= lastRev => planOf'[r] = planOf[r]
<1>0. provider.plan \in Nat /\ lastRev \in Nat /\ \A r \in Revs : r \in Nat
  BY PlanNumbers
<1>1. CASE SaveDocument
  <2>1. planOf' = [planOf EXCEPT ![lastRev'] = target.plan] /\ provider' = provider
    BY <1>1 DEF SaveDocument
  <2>2. planOf \in [Revs -> PlanIds \cup {NoPlan}]
    BY DEF Typed, TypeOK
  <2>3. CASE lastRev' = lastRev + 1
    BY <1>0, <2>1, <2>2, <2>3
  <2>4. CASE lastRev' = lastRev /\ planOf[lastRev] = target.plan
    BY <1>0, <2>1, <2>2, <2>4
  <2> QED BY <1>1, <2>3, <2>4 DEF SaveDocument
<1>2. CASE Environment
  <2>1. UNCHANGED <<lastRev, planOf>> /\ (provider' = provider \/ provider'.plan = provider.plan + 1)
    BY <1>2 DEF Environment, FirstPlan, RevisedPlan, OtherPlan, PublishPlan, Echo, Resolve
  <2> QED BY <1>0, <2>1
<1>3. CASE UNCHANGED vars
  BY <1>0, <1>3 DEF vars, remote
<1>4. CASE SendRequest \/ ApprovePlan
  <2>1. UNCHANGED <<lastRev, planOf>> /\ provider'.plan = provider.plan
    BY <1>4 DEF SendRequest, ApprovePlan, Typed, TypeOK
  <2> QED BY <1>0, <2>1
<1>5. ASSUME Heartbeat \/ Failure, ~SaveDocument, ~SendRequest, ~ApprovePlan
      PROVE  UNCHANGED <<provider, lastRev, planOf>>
  BY <1>5 DEF Heartbeat, Failure, Start, Observe, ReadActivities, Recovery, RecoverPointer,
       KeepPointer, PendingRequest, NoPendingRequest, RequestFulfilled, RequestEchoed,
       RequestAwaited, Gate, NoPointer, HoldForWitness, RetireReplaced, CardLost,
       CardOverridden, CardAwaited, Rejected, LunaApproved, TerraApproved, Begin,
       RevisionSteps, PrepareRequest, RecordRequest, ConfirmRequest, TerraSteps, PostTerra,
       ConfirmTerra, PointTerra, EnterTerraStage, ApprovalSteps, ConfirmApprove,
       RecordApproved, LunaSteps, PlanNotDue, WaitForHuman, OpenReview, PostLuna, SaveLuna,
       EnterLunaStage, YieldHeartbeat, Return, StartCanonical, RecoverUnavailable,
       CardMissing, Crash, RequestLost, Confirm, Goto, Save, remote
<1> QED BY <1>0, <1>1, <1>2, <1>3, <1>4, <1>5 DEF Next

-----------------------------------------------------------------------------
(* The steps that neither publish, read or record a plan nor make a call.  *)
LEMMA KnownKept ==
  ASSUME PlanKnown, UNCHANGED <<provider, planOf, lastRev, cards, requests, snap>>,
         pc' \notin {"read", "recover", "save_document", "post_luna"},
         pc \in Unread => pc' \in Unread, pc' = "request" => pc = "recover",
         pc' = "gate" => pc = "request"
  PROVE  PlanKnown'
BY DEF PlanKnown, Unread

(* Every step keeps what is known of plans and revisions. *)
LEMMA KnownStep ==
  ASSUME "canonical" \notin Faults, "activities" \notin Faults, Typed, LadderInv, ReviseInv,
         [Next]_vars
  PROVE  PlanKnown'
<1> USE DEF Unread
<1>0. PlanKnown /\ provider.plan \in Nat /\ snap.plan \in Nat /\ lastRev \in Nat /\ NoPlan \in Nat
      /\ \A r \in Revs : r \in Nat /\ planOf[r] \in Nat
  BY PlanNumbers DEF ReviseInv, NoPlan
<1>1. CASE Observe
  <2>1. snap'.plan = snap.plan /\ snap'.state = provider.state /\ pc' = "read"
        /\ UNCHANGED <<provider, planOf, lastRev, cards, requests>>
    BY <1>1 DEF Observe, Typed, TypeOK, remote
  <2> QED BY <1>0, <2>1 DEF PlanKnown, Typed
<1>2. CASE ReadActivities
  <2>1. snap'.plan = provider.plan /\ snap'.state = snap.state /\ pc = "read" /\ pc' = "recover"
        /\ UNCHANGED <<provider, planOf, lastRev, cards, requests>>
    BY <1>2 DEF ReadActivities, Fault, Typed, TypeOK, remote
  <2> QED BY <1>0, <2>1 DEF PlanKnown
<1>3. CASE OpenReview
  <2>1. snap.plan # NoPlan
    BY <1>0, <1>3
       DEF OpenReview, PlanReviewDue, IsPlanApprovalRequired, PlanKnown
  <2>2. target'.plan = snap.plan /\ pc' = "save_document"
        /\ UNCHANGED <<snap, provider, planOf, lastRev, cards, requests>>
    BY <1>3, <2>1 DEF OpenReview, remote
  <2> QED BY <1>0, <1>3, <2>2 DEF PlanKnown, OpenReview
<1>4. CASE SaveDocument
  <2>1. target.plan \in Nat /\ target.plan <= provider.plan
    BY <1>0, <1>4, PlanNumbers DEF SaveDocument, PlanKnown
  <2>2. planOf' = [planOf EXCEPT ![lastRev'] = target.plan] /\ target'.rev = lastRev'
        /\ pc = "save_document" /\ pc' \in {"post_luna", "yield"}
        /\ UNCHANGED <<snap, provider, cards, requests>>
    BY <1>4 DEF SaveDocument, Answer, Typed, TypeOK
  <2>3. planOf \in [Revs -> PlanIds \cup {NoPlan}]
    BY DEF Typed, TypeOK
  <2>4. \A r \in Revs : planOf'[r] \in {planOf[r], target.plan}
    BY <2>2, <2>3
  <2>5. lastRev' \in Nat /\ lastRev' >= lastRev
    BY <1>0, <1>4 DEF SaveDocument
  <2>6. \A c \in Cards : cards'[c] # "absent" => c[1] <= lastRev'
    BY <1>0, <2>2, <2>5, PlanNumbers DEF PlanKnown
  <2> QED BY <1>0, <2>1, <2>2, <2>4, <2>5, <2>6 DEF PlanKnown
<1>5. CASE PostLuna
  <2>1. /\ pc = "post_luna" /\ target.rev \in Revs /\ target.rev <= lastRev
        /\ pc' \in {"save_luna", "yield"}
        /\ UNCHANGED <<snap, provider, planOf, lastRev, requests>>
    BY <1>0, <1>5 DEF PostLuna, Answer, PlanKnown, Typed, InHand, TargetSteps
  <2>2. /\ cards \in [Cards -> {"absent", "pending"} \cup CardVerdicts]
        /\ <<target.rev, "luna">> \in Cards
    BY <2>1 DEF Typed, TypeOK, Cards, Stages
  <2>3. \A c \in Cards : /\ cards[c] # "absent" => cards'[c] # "absent"
                         /\ c # <<target.rev, "luna">> => cards'[c] = cards[c]
    BY <1>5, <2>2 DEF PostLuna, PostCard
  <2>4. \A c \in Cards : cards'[c] # "absent" => c[1] <= lastRev
    BY <1>0, <2>1, <2>3 DEF PlanKnown
  <2> QED BY <1>0, <2>1, <2>3, <2>4 DEF PlanKnown
<1>6. CASE PostTerra
  <2>1. /\ pc = "post_terra" /\ mem.card.rev \in Revs
        /\ cards[<<mem.card.rev, "luna">>] = "approved"
        /\ pc' \in {"confirm_terra", "yield"}
        /\ UNCHANGED <<snap, provider, planOf, lastRev, requests>>
    BY <1>6, CardType DEF PostTerra, Answer, Typed, InHand, CardSteps, LadderInv
  <2>2. /\ cards \in [Cards -> {"absent", "pending"} \cup CardVerdicts]
        /\ <<mem.card.rev, "luna">> \in Cards /\ <<mem.card.rev, "terra">> \in Cards
    BY <2>1 DEF Typed, TypeOK, Cards, Stages
  <2>3. \A c \in Cards : /\ cards[c] # "absent" => cards'[c] # "absent"
                         /\ c # <<mem.card.rev, "terra">> => cards'[c] = cards[c]
    BY <1>6, <2>2 DEF PostTerra, PostCard
  <2>4. mem.card.rev <= lastRev
    BY <1>0, <2>1, <2>2 DEF PlanKnown
  <2>5. \A c \in Cards : cards'[c] # "absent" => c[1] <= lastRev
    BY <1>0, <2>1, <2>3, <2>4 DEF PlanKnown
  <2> QED BY <1>0, <2>1, <2>3, <2>5 DEF PlanKnown
<1>7. CASE SendRequest
  <2>1. /\ pc = "send_request" /\ mem.request # NoRequest /\ Refused(RequestedCard)
        /\ pc' \in {"record_request", "yield"} /\ provider'.plan = provider.plan
        /\ UNCHANGED <<snap, cards, planOf, lastRev>>
    BY <1>7 DEF SendRequest, Answer, Typed, TypeOK, InHand, RequestSteps, ReviseInv
  <2>2. \A c \in Cards : c # RequestedCard => requests'[c] = requests[c]
    BY <1>7 DEF SendRequest, Typed, TypeOK
  <2> QED BY <1>0, <2>1, <2>2 DEF PlanKnown, Refused
<1>8. CASE ApprovePlan
  <2>1. /\ pc = "approve" /\ pc' \in {"confirm_approve", "yield"} /\ provider'.plan = provider.plan
        /\ UNCHANGED <<snap, cards, requests, planOf, lastRev>>
    BY <1>8 DEF ApprovePlan, Answer, Typed, TypeOK
  <2> QED BY <1>0, <2>1 DEF PlanKnown
<1>9. CASE Return \/ Crash
  <2>1. pc' = "idle" /\ snap' = NoSnapshot /\ UNCHANGED <<provider, planOf, lastRev, cards, requests>>
    BY <1>9 DEF Return, Crash, EndRun, remote
  <2> QED BY <1>0, <2>1 DEF PlanKnown, NoSnapshot, NoPlan
<1>10. CASE Environment
  <2>1. UNCHANGED <<pc, snap, target, planOf, lastRev, requests>>
    BY <1>10 DEF Environment, FirstPlan, RevisedPlan, OtherPlan, PublishPlan, Echo, Resolve
  <2>2. provider'.plan \in {provider.plan, provider.plan + 1}
    BY <1>10 DEF Environment, FirstPlan, RevisedPlan, OtherPlan, PublishPlan, Echo, Resolve
  <2>3. \A c \in Cards : cards[c] = "absent" <=> cards'[c] = "absent"
    BY <1>10, PlanReviewAssumption
       DEF Environment, FirstPlan, RevisedPlan, OtherPlan, PublishPlan, Echo, Resolve,
           Typed, TypeOK, CardVerdicts
  <2>4. target.plan \in Nat
    BY PlanNumbers
  <2> QED BY <1>0, <2>1, <2>2, <2>3, <2>4 DEF PlanKnown, NoPlan
<1>11. CASE UNCHANGED vars
  BY <1>0, <1>11 DEF vars, remote, PlanKnown
<1>12. ASSUME Heartbeat \/ Failure, ~Observe, ~ReadActivities, ~OpenReview, ~SaveDocument,
              ~PostLuna, ~PostTerra, ~SendRequest, ~ApprovePlan, ~Return, ~Crash
       PROVE  PlanKnown'
  <2>1. /\ UNCHANGED <<provider, planOf, lastRev, cards, requests, snap>>
        /\ pc' \notin {"read", "recover", "save_document", "post_luna"}
        /\ pc \in Unread => pc' \in Unread
        /\ pc' = "request" => pc = "recover"
        /\ pc' = "gate" => pc = "request"
    BY <1>12 DEF Heartbeat, Failure, Start, Recovery, RecoverPointer, Fault,
         KeepPointer, PendingRequest, NoPendingRequest, RequestFulfilled, RequestEchoed,
         RequestAwaited, Gate, NoPointer, HoldForWitness, RetireReplaced, CardLost,
         CardOverridden, CardAwaited, Rejected, LunaApproved, TerraApproved, Begin, AtCard,
         RevisionSteps, PrepareRequest, RecordRequest, ConfirmRequest, TerraSteps, Consulting,
         ConfirmTerra, PointTerra, EnterTerraStage, ApprovalSteps, ConfirmApprove,
         RecordApproved, LunaSteps, PlanNotDue, WaitForHuman, SaveLuna,
         EnterLunaStage, YieldHeartbeat, StartCanonical, RecoverUnavailable,
         CardMissing, RequestLost, Confirm, Goto, Save, remote
  <2> QED BY <1>0, <2>1, KnownKept
<1> QED
  BY <1>1, <1>2, <1>3, <1>4, <1>5, <1>6, <1>7, <1>8, <1>9, <1>10, <1>11, <1>12 DEF Next

-----------------------------------------------------------------------------
(* What the steps of a run that has read Jules have in common, those apart *)
(* that put a request on record, send it or clear it.                      *)
Routine ==
  /\ pc \notin Unread /\ pc' \notin Unread \cup {"recover", "send_request"}
  /\ UNCHANGED <<env, snap, requests>> /\ provider'.plan = provider.plan
  /\ Asked(mem') = Asked(mem) /\ Asked(disk') \in {Asked(disk), Asked(mem)}
  /\ pc' = "request" => pc = "recover"
  /\ pc' = "gate" => pc = "request" /\ Asked(mem) = Nobody
  /\ pc' \in {"prepare_request", "approve"} =>
       /\ pc = "gate" /\ mem.card # NoCard /\ mem'.card = mem.card
       /\ snap.plan \in {NoPlan, PointedPlan} /\ UNCHANGED planOf
  /\ pc' = "prepare_request" => Refused(Pointed) /\ UNCHANGED cards

(* Recovery, a request that is awaited or absent, and the receipts and     *)
(* saves that follow a call.                                               *)
LEMMA RoutineWork ==
  ASSUME Typed,
         \/ Recovery \/ RecoverUnavailable \/ NoPendingRequest \/ RequestEchoed
         \/ RequestAwaited \/ RecordRequest \/ ConfirmRequest \/ TerraSteps \/ ApprovalSteps
         \/ LunaSteps \/ YieldHeartbeat \/ RequestLost
  PROVE  Routine
<1> USE DEF Unread
<1>0. mem \in Sessions /\ (mem.request = NoRequest <=> Asked(mem) = Nobody)
  BY AskedNobody, PlanNumbers
<1>1. /\ pc \notin Unread
      /\ pc' \notin Unread \cup {"recover", "send_request", "prepare_request", "approve"}
      /\ pc' = "request" => pc = "recover"
      /\ pc' = "gate" => pc = "request" /\ mem.request = NoRequest
  BY DEF Recovery, RecoverPointer, KeepPointer, RecoverUnavailable, NoPendingRequest,
       RequestEchoed, RequestAwaited, RecordRequest, ConfirmRequest, TerraSteps, PostTerra,
       ConfirmTerra, PointTerra, EnterTerraStage, ApprovalSteps, ApprovePlan, ConfirmApprove,
       RecordApproved, LunaSteps, PlanNotDue, WaitForHuman, OpenReview, SaveDocument, PostLuna,
       SaveLuna, EnterLunaStage, YieldHeartbeat, RequestLost, Confirm, Goto, Save, Answer
<1>2. UNCHANGED <<env, snap, requests>> /\ provider'.plan = provider.plan
  <2>1. CASE ApprovePlan
    BY <2>1 DEF ApprovePlan, Typed, TypeOK
  <2>2. CASE ~ApprovePlan
    BY <2>2
     DEF Recovery, RecoverPointer, KeepPointer, RecoverUnavailable, NoPendingRequest,
       RequestEchoed, RequestAwaited, RecordRequest, ConfirmRequest, TerraSteps, PostTerra,
       ConfirmTerra, PointTerra, EnterTerraStage, ApprovalSteps, ConfirmApprove,
       RecordApproved, LunaSteps, PlanNotDue, WaitForHuman, OpenReview, SaveDocument, PostLuna,
       SaveLuna, EnterLunaStage, YieldHeartbeat, RequestLost, Confirm, Goto, Save, remote
  <2> QED BY <2>1, <2>2
<1>3. Asked(mem') = Asked(mem) /\ disk' \in {disk, mem'}
  <2>1. CASE RequestEchoed \/ RecordRequest
    <3>1. mem' = Delivered /\ disk' = mem'
      BY <2>1 DEF RequestEchoed, RecordRequest, Save
    <3>2. /\ mem.request.rev = Delivered.request.rev
          /\ mem.request.stage = Delivered.request.stage
      <4>1. mem.request \in Requests
        BY <1>0 DEF Sessions
      <4> QED BY <1>0, <4>1 DEF Delivered, Sessions, Requests, NoRequest
    <3> QED BY <3>1, <3>2 DEF Asked
  <2>2. CASE ~RequestEchoed /\ ~RecordRequest
    <3>1. mem'.request = mem.request /\ disk' \in {disk, mem'}
      BY <1>0, <2>2
       DEF Recovery, RecoverPointer, KeepPointer, RecoverUnavailable, NoPendingRequest,
         RequestAwaited, ConfirmRequest, TerraSteps, PostTerra, Sessions,
         ConfirmTerra, PointTerra, EnterTerraStage, ApprovalSteps, ApprovePlan, ConfirmApprove,
         RecordApproved, LunaSteps, PlanNotDue, WaitForHuman, OpenReview, SaveDocument, PostLuna,
         SaveLuna, EnterLunaStage, YieldHeartbeat, RequestLost, Confirm, Goto, Save
    <3> QED BY <3>1 DEF Asked
  <2> QED BY <2>1, <2>2
<1> QED BY <1>0, <1>1, <1>2, <1>3 DEF Routine

(* The gate, too. *)
LEMMA RoutineGate ==
  ASSUME Typed, Gate \/ CardMissing
  PROVE  Routine
<1> USE DEF Unread
<1>0. mem \in Sessions
  BY PlanNumbers
<1>1. pc = "gate" /\ pc' \notin Unread \cup {"recover", "send_request", "request", "gate"}
      /\ UNCHANGED <<env, snap, requests, provider, planOf, cards>>
  BY DEF Gate, CardMissing, NoPointer, HoldForWitness, RetireReplaced, CardLost, CardOverridden,
       CardAwaited, Rejected, LunaApproved, TerraApproved, Consulting, AtCard, Begin, Confirm,
       Goto, Save, remote
<1>2. mem'.request = mem.request /\ disk' \in {disk, mem'}
  BY <1>0
     DEF Gate, CardMissing, NoPointer, HoldForWitness, RetireReplaced, CardLost, CardOverridden,
       CardAwaited, Rejected, LunaApproved, TerraApproved, Begin, Confirm, Goto, Save, Sessions
<1>3. ASSUME pc' \in {"prepare_request", "approve"}
      PROVE  mem.card # NoCard /\ mem'.card = mem.card /\ snap.plan \in {NoPlan, PointedPlan}
  BY <1>0, <1>3
     DEF Gate, CardMissing, NoPointer, HoldForWitness, RetireReplaced, CardLost, CardOverridden,
       CardAwaited, Rejected, LunaApproved, TerraApproved, Consulting, AtCard, PlanReplaced,
       Begin, Confirm, Goto, Save, Sessions
<1>4. ASSUME pc' = "prepare_request" PROVE Refused(Pointed)
  BY <1>4
     DEF Gate, CardMissing, NoPointer, HoldForWitness, RetireReplaced, CardLost, CardOverridden,
       CardAwaited, Rejected, LunaApproved, TerraApproved, Consulting, AtCard, PlanReplaced,
       Begin, Confirm, Goto, Save, Refused
<1> QED BY <1>1, <1>2, <1>3, <1>4 DEF Routine, Asked

(* What a session asked for is a card, or nobody. *)
LEMMA AskedType ==
  ASSUME NEW s \in Sessions
  PROVE  Asked(s) \in Cards \cup {Nobody}
BY DEF Sessions, Requests, NoRequest, Asked, Nobody, Cards, Stages

(* A routine step keeps the memory of the requests. *)
LEMMA RoutineKeeps ==
  ASSUME Typed, ReviseInv, PlanKnown', [Next]_vars, Routine
  PROVE  ReviseInv'
<1> USE DEF Unread
<1>0. PlanKnown /\ OneRequest /\ Remembered
  BY DEF ReviseInv
<1>1. OneRequest'
  BY <1>0 DEF OneRequest, Routine
<1>2. \A c \in Cards : requests[c] > 0 => planOf'[c[1]] = planOf[c[1]]
  BY <1>0, PlansGrow, PlanNumbers DEF PlanKnown
<1>3. Remembered'
  <2>1. \A c \in Cards : c # Nobody
    BY PlanNumbers
  <2> QED BY <1>0, <1>2, <2>1 DEF Remembered, OneRequest, Routine
<1>4. pc' \in {"prepare_request", "approve"} => snap'.plan <= PointedPlan'
  <2>1. ASSUME pc' \in {"prepare_request", "approve"}
        PROVE  snap'.plan = snap.plan /\ PointedPlan' = PointedPlan
               /\ snap.plan \in {0, PointedPlan} /\ PointedPlan \in Nat
    BY <2>1, CardType, PlanNumbers DEF Routine, PointedPlan, NoPlan
  <2> QED BY <2>1
<1>5. pc' = "prepare_request" => Refused(Pointed)'
  BY DEF Routine, Refused, Pointed
<1> QED BY <1>1, <1>3, <1>4, <1>5 DEF ReviseInv, Routine

(* The start of a run keeps it: the merge takes the request of either copy. *)
LEMMA StartRemembers ==
  ASSUME Typed, ReviseInv, PlanKnown', Start
  PROVE  ReviseInv'
<1> USE DEF Unread
<1>0. PlanKnown /\ OneRequest /\ Remembered
  BY DEF ReviseInv
<1>1. /\ pc = "idle" /\ pc' = "observe" /\ mem'.request = Or(env.request, disk.request, NoRequest)
      /\ UNCHANGED <<disk, env, provider, planOf, requests>>
  BY DEF Start, MergeCheckpoints, remote
<1>2. Asked(mem') = IF Asked(env) # Nobody THEN Asked(env) ELSE Asked(disk)
  <2>1. env.request = NoRequest <=> Asked(env) = Nobody
    BY PlanNumbers, AskedNobody
  <2> QED BY <1>1, <2>1 DEF Or, Asked
<1>3. OneRequest'
  <2>1. Asked(disk') = Asked(disk) /\ Asked(env') = Asked(env)
    BY <1>1
  <2> QED BY <1>0, <1>1, <1>2, <2>1 DEF OneRequest
<1>4. Remembered'
  <2>1. Asked(disk') = Asked(disk)
    BY <1>1
  <2>2. \A c \in Cards : c # Nobody
    BY PlanNumbers
  <2> QED BY <1>0, <1>1, <1>2, <2>1, <2>2 DEF OneRequest, Remembered
<1> QED BY <1>1, <1>3, <1>4 DEF ReviseInv

(* So does the poll: the plan it reads outdates what the newest plan does. *)
LEMMA PollRemembers ==
  ASSUME "activities" \notin Faults, Typed, ReviseInv, PlanKnown', Observe \/ ReadActivities
  PROVE  ReviseInv'
<1> USE DEF Unread
<1>0. PlanKnown /\ OneRequest /\ Remembered
  BY DEF ReviseInv
<1>1. /\ pc \in {"observe", "read"} /\ pc' \in {"read", "recover"}
      /\ pc' = "recover" => snap'.plan = provider.plan
      /\ UNCHANGED <<disk, env, mem, provider, planOf, requests>>
  BY DEF Observe, ReadActivities, Fault, Typed, TypeOK, remote
<1>2. OneRequest'
  BY <1>0, <1>1 DEF OneRequest, Asked
<1>3. Remembered'
  BY <1>0, <1>1 DEF Remembered, Asked
<1> QED BY <1>1, <1>2, <1>3 DEF ReviseInv

(* A request is cleared when a newer plan outdates it. *)
LEMMA FulfilledRemembers ==
  ASSUME Typed, ReviseInv, PlanKnown', RequestFulfilled
  PROVE  ReviseInv'
<1> USE DEF Unread
<1>0. PlanKnown /\ OneRequest /\ Remembered
  BY DEF ReviseInv
<1>1. /\ pc = "request" /\ pc' = "gate" /\ mem.request # NoRequest
      /\ snap.plan \notin {NoPlan, RequestPlan} /\ disk' = mem'
      /\ mem' = [mem EXCEPT !.request = NoRequest, !.card = NoCard]
      /\ UNCHANGED <<env, snap, provider, planOf, requests>>
  BY DEF RequestFulfilled, Save, remote
<1>2. Asked(mem') = Nobody /\ Asked(disk') = Nobody /\ mem'.card = NoCard
  BY <1>1, PlanNumbers DEF Asked, Nobody, NoRequest, Sessions
<1>3. OneRequest'
  BY <1>0, <1>1, <1>2 DEF OneRequest
<1>4. ASSUME NEW c \in Cards, requests[c] > 0
      PROVE  snap.plan > planOf[c[1]] /\ provider.plan > planOf[c[1]]
  <2>1. c[1] \in Revs /\ planOf[c[1]] \in Nat /\ snap.plan \in Nat /\ provider.plan \in Nat
        /\ snap.plan <= provider.plan
    BY <1>0, PlanNumbers DEF PlanKnown
  <2>2. CASE Asked(mem) = c
    <3>1. planOf[c[1]] = RequestPlan /\ planOf[c[1]] <= snap.plan
      BY <1>0, <1>1, <2>1, <2>2 DEF Asked, RequestPlan, PlanKnown
    <3> QED BY <1>1, <2>1, <3>1
  <2> QED BY <1>0, <1>1, <1>4, <2>1, <2>2 DEF Remembered
<1>5. Remembered'
  BY <1>1, <1>4 DEF Remembered
<1> QED BY <1>1, <1>3, <1>5 DEF ReviseInv

(* A request is put on record before it is sent, for a card that was not   *)
(* asked for before.                                                       *)
LEMMA PrepareRemembers ==
  ASSUME Typed, ReviseInv, PlanKnown', PrepareRequest
  PROVE  ReviseInv'
<1> USE DEF Unread
<1>0. PlanKnown /\ OneRequest /\ Remembered
  BY DEF ReviseInv
<1>1. /\ pc = "prepare_request" /\ pc' = "send_request" /\ disk' = mem'
      /\ mem' = [mem EXCEPT !.request = [rev |-> mem.card.rev, stage |-> mem.card.stage,
                                         state |-> "prepared"]]
      /\ UNCHANGED <<env, snap, provider, planOf, cards, requests>>
  BY DEF PrepareRequest, Save, remote
<1>2. mem.card # NoCard /\ Pointed \in Cards /\ PointedPlan = planOf[Pointed[1]]
  BY <1>1, CardType DEF Typed, InHand, CardSteps, Pointed, PointedPlan
<1>3. Asked(mem') = Pointed /\ Asked(disk') = Pointed /\ RequestedCard' = Pointed
  BY <1>1, PlanNumbers DEF Asked, RequestedCard, Pointed, Sessions
<1>4. /\ Asked(env) = Nobody /\ Asked(mem) = Nobody /\ Asked(disk) = Nobody
      /\ Refused(Pointed) /\ snap.plan <= PointedPlan
  BY <1>1, <1>2 DEF ReviseInv, OneRequest
<1>5. OneRequest'
  BY <1>1, <1>3, <1>4 DEF OneRequest
<1>6. requests[Pointed] = 0
  <2>1. requests[Pointed] \in Nat /\ snap.plan \in Nat /\ PointedPlan \in Nat /\ Pointed # Nobody
    BY <1>2, PlanNumbers
  <2>2. ~(snap.plan > planOf[Pointed[1]])
    BY <1>2, <1>4, <2>1
  <2> QED BY <1>0, <1>1, <1>2, <1>4, <2>1, <2>2 DEF Remembered
<1>7. Remembered'
  <2>1. \A c \in Cards : c # Nobody
    BY PlanNumbers
  <2> QED BY <1>0, <1>1, <1>4, <2>1 DEF Remembered
<1> QED BY <1>1, <1>3, <1>4, <1>5, <1>6, <1>7 DEF ReviseInv, Refused

(* The request goes out once, and is on record. *)
LEMMA SendRemembers ==
  ASSUME Typed, ReviseInv, PlanKnown', SendRequest
  PROVE  ReviseInv'
<1> USE DEF Unread
<1>0. PlanKnown /\ OneRequest /\ Remembered
  BY DEF ReviseInv
<1>1. /\ pc = "send_request" /\ pc' \in {"record_request", "yield"}
      /\ provider'.plan = provider.plan
      /\ UNCHANGED <<disk, env, mem, snap, planOf>>
  BY DEF SendRequest, Answer, Typed, TypeOK
<1>2. Asked(disk) = RequestedCard /\ Asked(mem) = RequestedCard
  BY <1>1 DEF ReviseInv, Asked, RequestedCard
<1>3. \A c \in Cards : c # RequestedCard => requests'[c] = requests[c]
  BY DEF SendRequest, Typed, TypeOK
<1>4. OneRequest'
  BY <1>0, <1>1 DEF OneRequest, Asked
<1>5. Remembered'
  <2>1. Asked(disk') = RequestedCard /\ Asked(mem') = RequestedCard
    BY <1>1, <1>2
  <2> QED BY <1>0, <1>1, <1>2, <1>3, <2>1 DEF Remembered
<1> QED BY <1>1, <1>4, <1>5 DEF ReviseInv

(* The end of a run: the next one starts from the record, and from the     *)
(* session of a run that returned.                                         *)
LEMMA EndRemembers ==
  ASSUME Typed, ReviseInv, PlanKnown', Return \/ Crash
  PROVE  ReviseInv'
<1> USE DEF Unread
<1>0. PlanKnown /\ OneRequest /\ Remembered
  BY DEF ReviseInv
<1>1. /\ pc # "idle" /\ pc' = "idle" /\ env' \in {env, mem}
      /\ UNCHANGED <<disk, provider, planOf, requests>>
  BY DEF Return, Crash, EndRun, remote
<1>2. OneRequest'
  BY <1>0, <1>1 DEF OneRequest
<1>3. Remembered'
  BY <1>0, <1>1 DEF Remembered
<1> QED BY <1>1, <1>2, <1>3 DEF ReviseInv

(* Jules and the reviewers: a card that ended stays as it ended. *)
LEMMA EnvironmentRemembers ==
  ASSUME Typed, ReviseInv, PlanKnown', Environment \/ UNCHANGED vars
  PROVE  ReviseInv'
<1> USE DEF Unread
<1>0. PlanKnown /\ OneRequest /\ Remembered
  BY DEF ReviseInv
<1>1. /\ UNCHANGED <<pc, disk, env, mem, snap, planOf, requests>>
      /\ provider'.plan \in {provider.plan, provider.plan + 1}
  BY DEF Environment, FirstPlan, RevisedPlan, OtherPlan, PublishPlan, Echo, Resolve, vars, remote
<1>2. \A c \in Cards : cards[c] # "pending" => cards'[c] = cards[c]
  BY DEF Environment, FirstPlan, RevisedPlan, OtherPlan, PublishPlan, Echo, Resolve, vars, remote,
         Typed, TypeOK
<1>3. OneRequest'
  BY <1>0, <1>1 DEF OneRequest, Asked
<1>4. Remembered'
  <2>1. provider.plan \in Nat /\ \A c \in Cards : planOf[c[1]] \in Nat
    BY PlanNumbers
  <2>2. \A c \in Cards : provider.plan > planOf[c[1]] => provider'.plan > planOf[c[1]]
    BY <1>1, <2>1
  <2> QED BY <1>0, <1>1, <2>2 DEF Remembered, Asked
<1>5. pc = "prepare_request" => Pointed \in Cards
  BY CardType DEF Typed, InHand, CardSteps
<1>6. pc = "send_request" => RequestedCard \in Cards
  BY RequestType DEF Typed, InHand, RequestSteps
<1> QED
  BY <1>1, <1>2, <1>3, <1>4, <1>5, <1>6
     DEF ReviseInv, Refused, Pointed, PointedPlan, RequestedCard, Asked

(* Every step keeps the memory of the requests. *)
LEMMA ReviseStep ==
  ASSUME "canonical" \notin Faults, "activities" \notin Faults, Typed, LadderInv, ReviseInv,
         [Next]_vars
  PROVE  ReviseInv'
<1>1. PlanKnown'
  BY KnownStep
<1>2. CASE \/ Recovery \/ RecoverUnavailable \/ NoPendingRequest \/ RequestEchoed
           \/ RequestAwaited \/ RecordRequest \/ ConfirmRequest \/ TerraSteps \/ ApprovalSteps
           \/ LunaSteps \/ YieldHeartbeat \/ RequestLost \/ Gate \/ CardMissing
  BY <1>1, <1>2, RoutineWork, RoutineGate, RoutineKeeps
<1>3. ~StartCanonical
  BY DEF StartCanonical, Fault
<1> QED
  BY <1>1, <1>2, <1>3, StartRemembers, PollRemembers, FulfilledRemembers, PrepareRemembers,
     SendRemembers, EndRemembers, EnvironmentRemembers
     DEF Next, Heartbeat, Failure, PendingRequest, RevisionSteps

(* Initially nothing was asked for. *)
LEMMA ReviseInit == Init => ReviseInv
<1> SUFFICES ASSUME Init PROVE ReviseInv
  OBVIOUS
<1>1. PlanKnown
  BY PlanReviewAssumption DEF Init, PlanKnown, NoSnapshot, NoPlan, Unread, Cards, Revs
<1>2. OneRequest
  BY DEF Init, OneRequest, Asked, Nobody, NewSession, NoRequest
<1>3. Remembered
  BY DEF Init, Remembered, Unread
<1> QED BY <1>1, <1>2, <1>3 DEF Init, ReviseInv

-----------------------------------------------------------------------------
(* The refinement, step by step: each of the five steps of the ladder is   *)
(* taken by one step of the heartbeat or of a reviewer, and every other    *)
(* step leaves the ladder alone.                                           *)
LEMMA LadderStart == Init => Ladder!Init
BY DEF Init, Ladder!Init, Ladder!Cards, Cards

(* The POST of a card is a rung, or it returns the card that stands there. *)
LEMMA PostClimbs ==
  ASSUME Typed, LadderInv, PostLuna \/ PostTerra
  PROVE  [Ladder!Next]_(Ladder!gate)
<1>1. CASE PostLuna
  <2>1. target.rev \in Revs /\ UNCHANGED <<approvals, requests>>
    BY <1>1 DEF PostLuna, Typed, InHand, TargetSteps
  <2>2. \/ Ladder!OpenLuna(target.rev)
        \/ UNCHANGED cards
    BY <1>1, <2>1 DEF PostLuna, PostCard, Ladder!OpenLuna
  <2> QED BY <2>1, <2>2 DEF Ladder!Next, Ladder!gate
<1>2. CASE PostTerra
  <2>1. mem.card.rev \in Revs /\ cards[<<mem.card.rev, "luna">>] = "approved"
        /\ UNCHANGED <<approvals, requests>>
    BY <1>2, CardType DEF PostTerra, Typed, InHand, CardSteps, LadderInv
  <2>2. \/ Ladder!OpenTerra(mem.card.rev)
        \/ UNCHANGED cards
    BY <1>2, <2>1 DEF PostTerra, PostCard, Ladder!OpenTerra
  <2> QED BY <2>1, <2>2 DEF Ladder!Next, Ladder!gate
<1> QED BY <1>1, <1>2

(* An approvePlan call is the last rung, whether Jules takes it or not. *)
LEMMA ApproveClimbs ==
  ASSUME Typed, LadderInv, OnceInv, ApprovePlan
  PROVE  Ladder!Next
<1>1. mem.card.rev \in Revs /\ BothApproved(mem.card.rev) /\ approvals[mem.card.rev] = 0
  BY CardType DEF ApprovePlan, Typed, InHand, CardSteps, LadderInv, OnceInv
<1>2. approvals' = [approvals EXCEPT ![mem.card.rev] = 1] /\ UNCHANGED <<cards, requests>>
  BY <1>1 DEF ApprovePlan
<1>3. Ladder!Approve(mem.card.rev)
  BY <1>1, <1>2 DEF Ladder!Approve, BothApproved
<1> QED BY <1>1, <1>3 DEF Ladder!Next

(* A revision request is the one the ladder allows for its card. *)
LEMMA SendClimbs ==
  ASSUME Typed, ReviseInv, SendRequest
  PROVE  Ladder!Next
<1>1. RequestedCard \in Cards /\ Refused(RequestedCard) /\ requests[RequestedCard] = 0
  BY RequestType DEF SendRequest, Typed, InHand, RequestSteps, ReviseInv
<1>2. requests' = [requests EXCEPT ![RequestedCard] = 1] /\ UNCHANGED <<cards, approvals>>
  BY <1>1 DEF SendRequest
<1>3. Ladder!RequestRevision(RequestedCard)
  BY <1>1, <1>2 DEF Ladder!RequestRevision, Refused
<1> QED BY <1>1, <1>3 DEF Ladder!Next, Ladder!Cards, Cards

(* So is the verdict of a reviewer. *)
LEMMA EnvironmentClimbs ==
  ASSUME Environment
  PROVE  [Ladder!Next]_(Ladder!gate)
<1>1. ASSUME NEW c \in Cards, NEW verdict \in Verdicts, Resolve(c, verdict)
      PROVE  Ladder!Next
  <2>1. Ladder!Resolve(c, verdict)
    BY <1>1 DEF Resolve, Ladder!Resolve
  <2> QED BY <2>1 DEF Ladder!Next, Ladder!Cards, Cards
<1>2. ASSUME FirstPlan \/ RevisedPlan \/ OtherPlan \/ \E c \in Cards : Echo(c)
      PROVE  UNCHANGED Ladder!gate
  BY <1>2 DEF FirstPlan, RevisedPlan, OtherPlan, PublishPlan, Echo, Ladder!gate
<1> QED BY <1>1, <1>2 DEF Environment

(* Every step is a step of the ladder or leaves it alone. *)
LEMMA LadderSimulation ==
  ASSUME Typed, LadderInv, OnceInv, ReviseInv, [Next]_vars
  PROVE  [Ladder!Next]_(Ladder!gate)
<1>1. ASSUME Heartbeat \/ Failure, ~PostLuna, ~PostTerra, ~ApprovePlan, ~SendRequest
      PROVE  UNCHANGED Ladder!gate
  BY <1>1 DEF Heartbeat, Failure, Start, Observe, ReadActivities, Recovery, RecoverPointer,
       KeepPointer, PendingRequest, NoPendingRequest, RequestFulfilled, RequestEchoed,
       RequestAwaited, Gate, NoPointer, HoldForWitness, RetireReplaced, CardLost,
       CardOverridden, CardAwaited, Rejected, LunaApproved, TerraApproved, Begin,
       RevisionSteps, PrepareRequest, RecordRequest, ConfirmRequest, TerraSteps,
       ConfirmTerra, PointTerra, EnterTerraStage, ApprovalSteps, ConfirmApprove,
       RecordApproved, LunaSteps, PlanNotDue, WaitForHuman, OpenReview, SaveDocument, SaveLuna,
       EnterLunaStage, YieldHeartbeat, Return, StartCanonical, RecoverUnavailable,
       CardMissing, Crash, RequestLost, Confirm, Goto, Save, remote, Ladder!gate
<1>2. CASE UNCHANGED vars
  BY <1>2 DEF vars, remote, Ladder!gate
<1> QED
  BY <1>1, <1>2, PostClimbs, ApproveClimbs, SendClimbs, EnvironmentClimbs DEF Next

(* The heartbeat implements the ladder: every revision of the plan climbs  *)
(* from Luna's card over Terra's to one approvePlan call, and a refused    *)
(* card asks Jules for a revision once, however runs are cut off and calls *)
(* and answers are lost.  A run must be given its envelope or its record,  *)
(* and an activity list that failed must not be taken for an empty one:    *)
(* without either a stale pointer or a forgotten one repeats a request.    *)
THEOREM HeartbeatImplementsGate ==
  ASSUME "canonical" \notin Faults, "activities" \notin Faults
  PROVE  Spec => ImplementsPlanGate
<1>1. Typed /\ OnceInv /\ [Next]_vars => OnceInv'
  BY OnceStep
<1>2. Typed /\ LadderInv /\ ReviseInv /\ [Next]_vars => ReviseInv'
  BY ReviseStep
<1>3. Typed /\ LadderInv /\ OnceInv /\ ReviseInv /\ [Next]_vars => [Ladder!Next]_(Ladder!gate)
  BY LadderSimulation
<1>4. Init => LadderInv
  BY DEF Init, LadderInv, Cards, Stages
<1> QED
  BY <1>1, <1>2, <1>3, <1>4, LadderStart, TypedInit, TypedStep, LadderStep, OnceInit,
     ReviseInit, PTL DEF Spec, ImplementsPlanGate, Ladder!Spec

-----------------------------------------------------------------------------
(* The plan a run has read and the receipts of the journals.  Both hold    *)
(* under every kind of fault and whatever Jules publishes.                 *)

(* A verdict is never taken back. *)
LEMMA VerdictsStay ==
  ASSUME Typed, [Next]_vars
  PROVE  \A c \in Cards : /\ cards[c] \notin {"absent", "pending"} => cards'[c] = cards[c]
                          /\ cards[c] # "absent" => cards'[c] # "absent"
<1>0. cards \in [Cards -> {"absent", "pending"} \cup CardVerdicts]
  BY DEF Typed, TypeOK
<1>1. CASE PostLuna \/ PostTerra
  BY <1>0, <1>1 DEF PostLuna, PostTerra, PostCard
<1>2. CASE Environment
  BY <1>0, <1>2, PlanReviewAssumption
     DEF Environment, FirstPlan, RevisedPlan, OtherPlan, PublishPlan, Echo, Resolve, CardVerdicts
<1>3. CASE UNCHANGED vars
  BY <1>3 DEF vars, remote
<1>4. ASSUME Heartbeat \/ Failure, ~PostLuna, ~PostTerra
      PROVE  UNCHANGED cards
  BY <1>4 DEF Heartbeat, Failure, Start, Observe, ReadActivities, Recovery, RecoverPointer,
       KeepPointer, PendingRequest, NoPendingRequest, RequestFulfilled, RequestEchoed,
       RequestAwaited, Gate, NoPointer, HoldForWitness, RetireReplaced, CardLost,
       CardOverridden, CardAwaited, Rejected, LunaApproved, TerraApproved, Begin,
       RevisionSteps, PrepareRequest, SendRequest, RecordRequest, ConfirmRequest, TerraSteps,
       ConfirmTerra, PointTerra, EnterTerraStage, ApprovalSteps, ApprovePlan, ConfirmApprove,
       RecordApproved, LunaSteps, PlanNotDue, WaitForHuman, OpenReview, SaveDocument, SaveLuna,
       EnterLunaStage, YieldHeartbeat, Return, StartCanonical, RecoverUnavailable,
       CardMissing, Crash, RequestLost, Confirm, Goto, Save, remote
<1> QED BY <1>1, <1>2, <1>3, <1>4 DEF Next

(* approvePlan is reached from a card of the plan that was read.           *)
ReadInv == pc = "approve" => snap.plan \in {NoPlan, PointedPlan}

(* Only the gate leads to the call.                                        *)
LEMMA ReadStep ==
  ASSUME Typed, ReadInv, [Next]_vars
  PROVE  ReadInv'
<1>1. CASE TerraApproved
  <2>1. snap.plan \in {NoPlan, PointedPlan} /\ UNCHANGED <<snap, planOf>>
    BY <1>1 DEF TerraApproved, Consulting, PlanReplaced, Begin, Confirm, Goto, Save, remote
  <2>2. mem'.card = mem.card
    BY <1>1 DEF TerraApproved, Begin, Confirm, Goto, Save, Typed, TypeOK, Sessions
  <2> QED BY <2>1, <2>2 DEF ReadInv, PointedPlan
<1>2. CASE Environment \/ UNCHANGED vars
  <2>1. UNCHANGED <<pc, mem, snap, planOf>>
    BY <1>2 DEF Environment, FirstPlan, RevisedPlan, OtherPlan, PublishPlan, Echo, Resolve, vars,
         remote
  <2> QED BY <2>1 DEF ReadInv, PointedPlan
<1>3. ASSUME Heartbeat \/ Failure, ~TerraApproved
      PROVE  pc' # "approve"
  BY <1>3 DEF Heartbeat, Failure, Start, Observe, ReadActivities, Recovery, RecoverPointer,
       KeepPointer, PendingRequest, NoPendingRequest, RequestFulfilled, RequestEchoed,
       RequestAwaited, Gate, NoPointer, HoldForWitness, RetireReplaced, CardLost,
       CardOverridden, CardAwaited, Rejected, LunaApproved, Begin, RevisionSteps,
       PrepareRequest, SendRequest, RecordRequest, ConfirmRequest, TerraSteps, PostTerra,
       ConfirmTerra, PointTerra, EnterTerraStage, ApprovalSteps, ApprovePlan, ConfirmApprove,
       RecordApproved, LunaSteps, PlanNotDue, WaitForHuman, OpenReview, SaveDocument, PostLuna,
       SaveLuna, EnterLunaStage, YieldHeartbeat, Return, StartCanonical, RecoverUnavailable,
       CardMissing, Crash, RequestLost, EndRun, Confirm, Goto, Save, Answer
<1> QED BY <1>1, <1>2, <1>3 DEF Next, ReadInv

(* A plan that was read and becomes an approved one was reviewed.          *)
LEMMA ReadReviewed ==
  ASSUME Typed, LadderInv, ReadInv, [Next]_vars
  PROVE  \A p \in witness' \ witness : snap.plan = p => Reviewed(p)
<1>1. CASE ApprovePlan
  <2>1. /\ pc = "approve" /\ mem.card.rev \in Revs /\ BothApproved(mem.card.rev)
        /\ snap.plan \in {NoPlan, PointedPlan}
    BY <1>1, CardType DEF ApprovePlan, Typed, InHand, CardSteps, LadderInv, ReadInv
  <2>2. \A p \in witness' : p # NoPlan
    <3>1. Typed'
      BY TypedStep
    <3>2. witness' \subseteq Plans
      BY <3>1 DEF Typed, TypeOK
    <3> QED BY <3>2, PlanNumbers DEF Plans, NoPlan
  <2>3. planOf[mem.card.rev] = PointedPlan
    BY DEF PointedPlan
  <2> QED BY <2>1, <2>2, <2>3 DEF Reviewed
<1>2. CASE ~ApprovePlan
  <2>1. UNCHANGED witness
    BY <1>2 DEF Next, Environment, FirstPlan, RevisedPlan, OtherPlan, PublishPlan, Echo, Resolve,
       vars, Heartbeat, Failure, Start, Observe, ReadActivities, Recovery, RecoverPointer,
       KeepPointer, PendingRequest, NoPendingRequest, RequestFulfilled, RequestEchoed,
       RequestAwaited, Gate, NoPointer, HoldForWitness, RetireReplaced, CardLost,
       CardOverridden, CardAwaited, Rejected, LunaApproved, TerraApproved, Begin,
       RevisionSteps, PrepareRequest, SendRequest, RecordRequest, ConfirmRequest, TerraSteps,
       PostTerra, ConfirmTerra, PointTerra, EnterTerraStage, ApprovalSteps, ConfirmApprove,
       RecordApproved, LunaSteps, PlanNotDue, WaitForHuman, OpenReview, SaveDocument, PostLuna,
       SaveLuna, EnterLunaStage, YieldHeartbeat, Return, StartCanonical, RecoverUnavailable,
       CardMissing, Crash, RequestLost, EndRun, Confirm, Goto, Save, remote
  <2> QED BY <2>1
<1> QED BY <1>1, <1>2

(* A run that has read a plan never has Jules execute it unreviewed,       *)
(* whatever Jules publishes behind its back and whatever copy of the       *)
(* session it started from: the card it acts on is one of that plan.       *)
THEOREM ReadPlanWasReviewed == Spec => ReadPlanIsReviewed
<1>1. Typed /\ ReadInv /\ [Next]_vars => ReadInv'
  BY ReadStep
<1>2. Typed /\ LadderInv /\ ReadInv /\ [Next]_vars
        => [\A p \in witness' \ witness : snap.plan = p => Reviewed(p)]_vars
  BY ReadReviewed
<1>3. Init => LadderInv /\ ReadInv
  BY DEF Init, LadderInv, ReadInv, Cards, Stages
<1> QED
  BY <1>1, <1>2, <1>3, TypedInit, TypedStep, LadderStep, PTL DEF Spec, ReadPlanIsReviewed

-----------------------------------------------------------------------------
(* What the receipts stand on: a marker that is read was sent, a call that *)
(* returned has arrived, a revision has its plan from the start.           *)
RealInv ==
  /\ ReceiptsAreTrue
  /\ echoes \subseteq {c \in Cards : requests[c] > 0} /\ snap.echoes \subseteq echoes
  /\ \A r \in Revs : r > lastRev => planOf[r] = NoPlan
  /\ pc = "confirm_terra" => cards[<<mem.card.rev, "terra">>] # "absent"
  /\ pc = "confirm_approve" => approvals[mem.card.rev] > 0
  /\ pc \in {"record_request", "confirm_request"} => requests[RequestedCard] > 0

(* What a journal tells after the step is true. *)
TruthNext(journal) ==
  \A r \in Revs :
    /\ journal[CardEffect(r)].kind = "confirmed" => cards'[<<r, "terra">>] # "absent"
    /\ journal[ApproveEffect(r)] = Confirmed("approved") => approvals'[r] > 0
    /\ journal[ApproveEffect(r)] = Confirmed("observed") => planOf'[r] \in witness'
    /\ \A s \in Stages : journal[RevisionEffect(r, s)].kind = "confirmed" => requests'[<<r, s>>] > 0

(* The effect e has taken place, as the receipt says. *)
Proves(e, receipt) ==
  \A r \in Revs :
    /\ e = CardEffect(r) => cards[<<r, "terra">>] # "absent"
    /\ e = ApproveEffect(r) /\ receipt = "approved" => approvals[r] > 0
    /\ e = ApproveEffect(r) /\ receipt = "observed" => planOf[r] \in witness
    /\ \A s \in Stages : e = RevisionEffect(r, s) => requests[<<r, s>>] > 0

(* What has arrived is never taken back. *)
LEMMA ArrivedStays ==
  ASSUME Typed, [Next]_vars
  PROVE  /\ \A r \in Revs : approvals[r] > 0 => approvals'[r] > 0
         /\ \A c \in Cards : requests[c] > 0 => requests'[c] > 0
         /\ witness \subseteq witness' /\ echoes \subseteq echoes'
<1>0. /\ approvals \in [Revs -> Nat] /\ requests \in [Cards -> Nat]
  BY DEF Typed, TypeOK
<1>1. CASE ApprovePlan
  BY <1>0, <1>1 DEF ApprovePlan
<1>2. CASE SendRequest
  BY <1>0, <1>2 DEF SendRequest
<1>3. CASE Environment
  BY <1>3 DEF Environment, FirstPlan, RevisedPlan, OtherPlan, PublishPlan, Echo, Resolve
<1>4. CASE UNCHANGED vars
  BY <1>4 DEF vars, remote
<1>5. ASSUME Heartbeat \/ Failure, ~ApprovePlan, ~SendRequest
      PROVE  UNCHANGED <<approvals, requests, witness, echoes>>
  BY <1>5 DEF Heartbeat, Failure, Start, Observe, ReadActivities, Recovery, RecoverPointer,
       KeepPointer, PendingRequest, NoPendingRequest, RequestFulfilled, RequestEchoed,
       RequestAwaited, Gate, NoPointer, HoldForWitness, RetireReplaced, CardLost,
       CardOverridden, CardAwaited, Rejected, LunaApproved, TerraApproved, Begin,
       RevisionSteps, PrepareRequest, RecordRequest, ConfirmRequest, TerraSteps, PostTerra,
       ConfirmTerra, PointTerra, EnterTerraStage, ApprovalSteps, ConfirmApprove,
       RecordApproved, LunaSteps, PlanNotDue, WaitForHuman, OpenReview, SaveDocument, PostLuna,
       SaveLuna, EnterLunaStage, YieldHeartbeat, Return, StartCanonical, RecoverUnavailable,
       CardMissing, Crash, RequestLost, EndRun, Confirm, Goto, Save, remote
<1> QED BY <1>1, <1>2, <1>3, <1>4, <1>5 DEF Next

(* So a true journal stays true. *)
LEMMA TruthStays ==
  ASSUME Typed, RealInv, [Next]_vars, NEW j, TellsTheTruth(j)
  PROVE  TruthNext(j)
<1>1. ASSUME NEW r \in Revs, planOf[r] \in witness PROVE planOf'[r] \in witness'
  <2>1. planOf[r] # NoPlan
    <3>1. witness \subseteq Plans
      BY DEF Typed, TypeOK
    <3> QED BY <1>1, <3>1, PlanNumbers DEF Plans, NoPlan
  <2>2. r <= lastRev
    <3>1. r \in Nat /\ lastRev \in Nat
      BY PlanNumbers
    <3> QED BY <2>1, <3>1 DEF RealInv
  <2> QED BY <1>1, <2>2, PlansGrow, ArrivedStays
<1>2. \A r \in Revs : \A s \in Stages : <<r, s>> \in Cards
  BY DEF Cards
<1>3. "terra" \in Stages
  BY DEF Stages
<1> SUFFICES ASSUME NEW r \in Revs
             PROVE  /\ j[CardEffect(r)].kind = "confirmed" => cards'[<<r, "terra">>] # "absent"
                    /\ j[ApproveEffect(r)] = Confirmed("approved") => approvals'[r] > 0
                    /\ j[ApproveEffect(r)] = Confirmed("observed") => planOf'[r] \in witness'
                    /\ \A s \in Stages :
                         j[RevisionEffect(r, s)].kind = "confirmed" => requests'[<<r, s>>] > 0
  BY Zenon DEF TruthNext
<1>4. j[CardEffect(r)].kind = "confirmed" => cards'[<<r, "terra">>] # "absent"
  BY <1>2, <1>3, VerdictsStay DEF TellsTheTruth
<1>5. j[ApproveEffect(r)] = Confirmed("approved") => approvals'[r] > 0
  BY ArrivedStays DEF TellsTheTruth
<1>6. j[ApproveEffect(r)] = Confirmed("observed") => planOf'[r] \in witness'
  BY <1>1 DEF TellsTheTruth
<1>7. \A s \in Stages : j[RevisionEffect(r, s)].kind = "confirmed" => requests'[<<r, s>>] > 0
  <2>1. \A s \in Stages : j[RevisionEffect(r, s)].kind = "confirmed" => requests[<<r, s>>] > 0
    BY Zenon DEF TellsTheTruth
  <2> QED BY <1>2, <2>1, ArrivedStays
<1> QED BY <1>4, <1>5, <1>6, <1>7

(* Entries of true journals, and entries that claim nothing. *)
LEMMA TruthOfEntries ==
  ASSUME NEW a, NEW b, NEW k, TellsTheTruth(a), TellsTheTruth(b),
         \A e \in EffectIds : k[e] \in {a[e], b[e]} \/ k[e].kind # "confirmed"
  PROVE  TellsTheTruth(k)
<1>1. \A r \in Revs : CardEffect(r) \in EffectIds /\ ApproveEffect(r) \in EffectIds
  BY EffectTypes
<1>2. \A r \in Revs : \A s \in Stages : RevisionEffect(r, s) \in EffectIds
  BY DEF RevisionEffect, EffectIds, Stages
<1>3. Confirmed("approved").kind = "confirmed" /\ Confirmed("observed").kind = "confirmed"
  BY DEF Confirmed
<1> SUFFICES ASSUME NEW r \in Revs
             PROVE  /\ k[CardEffect(r)].kind = "confirmed" => cards[<<r, "terra">>] # "absent"
                    /\ k[ApproveEffect(r)] = Confirmed("approved") => approvals[r] > 0
                    /\ k[ApproveEffect(r)] = Confirmed("observed") => planOf[r] \in witness
                    /\ \A s \in Stages :
                         k[RevisionEffect(r, s)].kind = "confirmed" => requests[<<r, s>>] > 0
  BY Zenon DEF TellsTheTruth
<1>4. k[CardEffect(r)].kind = "confirmed" => cards[<<r, "terra">>] # "absent"
  BY <1>1 DEF TellsTheTruth
<1>5. /\ k[ApproveEffect(r)] = Confirmed("approved") => approvals[r] > 0
      /\ k[ApproveEffect(r)] = Confirmed("observed") => planOf[r] \in witness
  BY <1>1, <1>3 DEF TellsTheTruth
<1>6. \A s \in Stages : k[RevisionEffect(r, s)].kind = "confirmed" => requests[<<r, s>>] > 0
  <2>1. \A s \in Stages : /\ a[RevisionEffect(r, s)].kind = "confirmed" => requests[<<r, s>>] > 0
                          /\ b[RevisionEffect(r, s)].kind = "confirmed" => requests[<<r, s>>] > 0
    BY Zenon DEF TellsTheTruth
  <2> QED BY <1>2, <2>1
<1> QED BY <1>4, <1>5, <1>6

(* A receipt that is proved leaves the journal true. *)
LEMMA TruthConfirmed ==
  ASSUME NEW j \in Journals, TellsTheTruth(j), NEW e \in EffectIds, NEW receipt, Proves(e, receipt)
  PROVE  TellsTheTruth(ConfirmEffect(j, e, receipt))
<1> DEFINE k == ConfirmEffect(j, e, receipt)
<1>1. \A f \in EffectIds : k[f] = IF f = e THEN Confirmed(receipt) ELSE j[f]
  BY DEF ConfirmEffect, Journals
<1>2. \A r \in Revs : CardEffect(r) \in EffectIds /\ ApproveEffect(r) \in EffectIds
  BY EffectTypes
<1>3. \A r \in Revs : \A s \in Stages : RevisionEffect(r, s) \in EffectIds
  BY DEF RevisionEffect, EffectIds, Stages
<1>4. \A q, w : Confirmed(q) = Confirmed(w) => q = w
  BY DEF Confirmed
<1> HIDE DEF k
<1>5. ASSUME NEW r \in Revs
      PROVE  /\ k[CardEffect(r)].kind = "confirmed" => cards[<<r, "terra">>] # "absent"
             /\ k[ApproveEffect(r)] = Confirmed("approved") => approvals[r] > 0
             /\ k[ApproveEffect(r)] = Confirmed("observed") => planOf[r] \in witness
             /\ \A s \in Stages :
                  k[RevisionEffect(r, s)].kind = "confirmed" => requests[<<r, s>>] > 0
  <2>1. k[CardEffect(r)].kind = "confirmed" => cards[<<r, "terra">>] # "absent"
    BY <1>1, <1>2 DEF TellsTheTruth, Proves
  <2>2. k[ApproveEffect(r)] = Confirmed("approved") => approvals[r] > 0
    <3>1. /\ j[ApproveEffect(r)] = Confirmed("approved") => approvals[r] > 0
          /\ e = ApproveEffect(r) /\ receipt = "approved" => approvals[r] > 0
      BY Zenon DEF TellsTheTruth, Proves
    <3>2. k[ApproveEffect(r)] = IF ApproveEffect(r) = e THEN Confirmed(receipt) ELSE j[ApproveEffect(r)]
      BY <1>1, <1>2
    <3>3. Confirmed(receipt) = Confirmed("approved") => receipt = "approved"
      BY <1>4
    <3> QED BY <3>1, <3>2, <3>3
  <2>3. k[ApproveEffect(r)] = Confirmed("observed") => planOf[r] \in witness
    <3>1. /\ j[ApproveEffect(r)] = Confirmed("observed") => planOf[r] \in witness
          /\ e = ApproveEffect(r) /\ receipt = "observed" => planOf[r] \in witness
      BY Zenon DEF TellsTheTruth, Proves
    <3>2. k[ApproveEffect(r)] = IF ApproveEffect(r) = e THEN Confirmed(receipt) ELSE j[ApproveEffect(r)]
      BY <1>1, <1>2
    <3>3. Confirmed(receipt) = Confirmed("observed") => receipt = "observed"
      BY <1>4
    <3> QED BY <3>1, <3>2, <3>3
  <2>4. \A s \in Stages : k[RevisionEffect(r, s)].kind = "confirmed" => requests[<<r, s>>] > 0
    <3>1. \A s \in Stages : /\ j[RevisionEffect(r, s)].kind = "confirmed" => requests[<<r, s>>] > 0
                            /\ e = RevisionEffect(r, s) => requests[<<r, s>>] > 0
      BY Zenon DEF TellsTheTruth, Proves
    <3> QED BY <1>1, <1>3, <3>1
  <2> QED BY <2>1, <2>2, <2>3, <2>4
<1>6. TellsTheTruth(k)
  BY <1>5, Zenon DEF TellsTheTruth
<1> QED BY <1>6 DEF k

(* The journal of the run after an operation on it. *)
LEMMA TruthOfOperation ==
  ASSUME Typed, RealInv, [Next]_vars, NEW e \in EffectIds, NEW receipt \in Receipts, NEW step,
         \/ Begin(e, step) \/ Goto(step)
         \/ Confirm(e, receipt, step) /\ Proves(e, receipt)
         \/ CanRetry(mem.journal, e)
              /\ Save([mem EXCEPT !.journal = RetryStartedEffect(mem.journal, e)], step)
  PROVE  ReceiptsAreTrue'
<1>0. /\ mem \in Sessions /\ mem.journal \in Journals
      /\ TellsTheTruth(disk.journal) /\ TellsTheTruth(env.journal) /\ TellsTheTruth(mem.journal)
  BY JournalTypes DEF RealInv, ReceiptsAreTrue
<1>1. ASSUME NEW k, TellsTheTruth(k), UNCHANGED env,
             mem'.journal = k, disk'.journal \in {k, disk.journal}
      PROVE  ReceiptsAreTrue'
  <2>1. TruthNext(k) /\ TruthNext(env.journal) /\ TruthNext(disk.journal)
    BY <1>0, <1>1, TruthStays
  <2>2. TruthNext(mem'.journal) /\ TruthNext(env'.journal) /\ TruthNext(disk'.journal)
    BY <1>1, <2>1
  <2> QED BY <2>2 DEF ReceiptsAreTrue, TellsTheTruth, TruthNext
<1>2. ASSUME NEW k, TellsTheTruth(k), Save([mem EXCEPT !.journal = k], step)
      PROVE  ReceiptsAreTrue'
  <2>1. UNCHANGED env /\ mem'.journal = k /\ disk'.journal = k
    BY <1>0, <1>2 DEF Save, Sessions
  <2> QED BY <1>1, <1>2, <2>1
<1>3. CASE Begin(e, step)
  <2>1. TellsTheTruth(BeginEffect(mem.journal, e))
    <3>1. \A f \in EffectIds : \/ BeginEffect(mem.journal, e)[f] = mem.journal[f]
                               \/ BeginEffect(mem.journal, e)[f].kind # "confirmed"
      BY <1>0 DEF BeginEffect, Journals, Started
    <3> QED BY <1>0, <3>1, TruthOfEntries
  <2> QED BY <1>2, <1>3, <2>1 DEF Begin
<1>4. CASE Goto(step)
  <2>1. UNCHANGED <<env, mem, disk>>
    BY <1>4 DEF Goto
  <2> QED BY <1>0, <1>1, <2>1
<1>5. CASE Confirm(e, receipt, step) /\ Proves(e, receipt)
  <2>1. TellsTheTruth(ConfirmEffect(mem.journal, e, receipt))
    BY <1>0, <1>5, TruthConfirmed
  <2> QED BY <1>2, <1>5, <2>1 DEF Confirm
<1>6. CASE CanRetry(mem.journal, e)
             /\ Save([mem EXCEPT !.journal = RetryStartedEffect(mem.journal, e)], step)
  <2>1. TellsTheTruth(RetryStartedEffect(mem.journal, e))
    <3>1. \A f \in EffectIds : \/ RetryStartedEffect(mem.journal, e)[f] = mem.journal[f]
                               \/ RetryStartedEffect(mem.journal, e)[f].kind # "confirmed"
      BY <1>0 DEF RetryStartedEffect, Journals, Started
    <3> QED BY <1>0, <3>1, TruthOfEntries
  <2> QED BY <1>2, <1>6, <2>1
<1> QED BY <1>3, <1>4, <1>5, <1>6

(* The evidence the gate confirms an interrupted call from proves it.      *)
LEMMA GateTruth ==
  ASSUME Typed, RealInv, [Next]_vars, Rejected \/ LunaApproved \/ TerraApproved
  PROVE  ReceiptsAreTrue'
<1> USE DEF Receipts
<1>0. mem.card # NoCard
  BY DEF Rejected, LunaApproved, TerraApproved, Consulting, AtCard
<1>1. /\ mem.card.rev \in Revs /\ mem.card.stage \in Stages /\ Pointed \in Cards
      /\ Pointed = <<mem.card.rev, mem.card.stage>>
  BY <1>0, CardType DEF Pointed
<1>2. CASE Rejected
  <2> DEFINE e == RevisionEffect(mem.card.rev, mem.card.stage)
             evidence == IF Pointed \in snap.echoes THEN "marker_mirrored" ELSE "marker_not_observed"
             reconciled == ReconcileNativePlanEffect("request_plan_revision", evidence)
  <2>1. e \in EffectIds
    BY <1>0, CardType
  <2>2. \/ Begin(e, "prepare_request") \/ Goto("yield")
        \/ reconciled = "confirmed" /\ Confirm(e, "echo", "yield")
    BY <1>2 DEF Rejected
  <2>3. ASSUME reconciled = "confirmed" PROVE Proves(e, "echo")
    <3>1. Pointed \in snap.echoes
      BY <2>3 DEF ReconcileNativePlanEffect
    <3>2. requests[Pointed] > 0
      BY <3>1 DEF RealInv
    <3>3. \A r \in Revs : e # CardEffect(r) /\ e # ApproveEffect(r)
      BY DEF RevisionEffect, CardEffect, ApproveEffect
    <3>4. \A r \in Revs : \A s \in Stages :
            e = RevisionEffect(r, s) => r = mem.card.rev /\ s = mem.card.stage
      BY <1>1 DEF RevisionEffect, Stages
    <3> QED BY <1>1, <3>2, <3>3, <3>4, Zenon DEF Proves
  <2> QED BY <2>1, <2>2, <2>3, TruthOfOperation
<1>3. CASE LunaApproved
  <2> DEFINE e == CardEffect(mem.card.rev)
             exact == cards[<<mem.card.rev, "terra">>] \in {"pending", "approved", "rejected"}
             reconciled == ReconcileNativePlanEffect("create_card", IF exact THEN "exact" ELSE "absent")
  <2>1. e \in EffectIds
    BY <1>0, CardType
  <2>2. \/ Begin(e, "post_terra") \/ Goto("yield") \/ Goto("point_terra")
        \/ reconciled = "confirmed" /\ Confirm(e, "card", "point_terra")
        \/ CanRetry(mem.journal, e)
             /\ Save([mem EXCEPT !.journal = RetryStartedEffect(mem.journal, e)], "post_terra")
    BY <1>3 DEF LunaApproved
  <2>3. ASSUME reconciled = "confirmed" PROVE Proves(e, "card")
    <3>1. cards[<<mem.card.rev, "terra">>] # "absent"
      BY <2>3 DEF ReconcileNativePlanEffect
    <3>2. \A r \in Revs : e # ApproveEffect(r) /\ (e = CardEffect(r) => r = mem.card.rev)
      BY DEF CardEffect, ApproveEffect
    <3>3. \A r \in Revs : \A s \in Stages : e # RevisionEffect(r, s)
      BY DEF RevisionEffect, CardEffect
    <3> QED BY <3>1, <3>2, <3>3, Zenon DEF Proves
  <2> QED BY <2>1, <2>2, <2>3, TruthOfOperation
<1>4. CASE TerraApproved
  <2> DEFINE e == ApproveEffect(mem.card.rev)
             evidence == IF ApprovalWitnessed THEN "same_session_progressed" ELSE "same_plan_pending"
             reconciled == ReconcileNativePlanEffect("approve_plan", evidence)
  <2>1. e \in EffectIds
    BY <1>0, CardType
  <2>2. \/ Begin(e, "approve") \/ Goto("yield")
        \/ reconciled = "confirmed" /\ Confirm(e, "observed", "record_approved")
    BY <1>4 DEF TerraApproved
  <2>3. ASSUME reconciled = "confirmed" PROVE Proves(e, "observed")
    <3>1. planOf[mem.card.rev] \in witness
      BY <2>3 DEF ReconcileNativePlanEffect, ApprovalWitnessed, PointedPlan
    <3>2. \A r \in Revs : e # CardEffect(r) /\ (e = ApproveEffect(r) => r = mem.card.rev)
      BY DEF CardEffect, ApproveEffect
    <3>3. \A r \in Revs : \A s \in Stages : e # RevisionEffect(r, s)
      BY DEF RevisionEffect, ApproveEffect
    <3> QED BY <3>1, <3>2, <3>3, Zenon DEF Proves
  <2> QED BY <2>1, <2>2, <2>3, TruthOfOperation
<1> QED BY <1>2, <1>3, <1>4

(* So does the answer of the call itself. *)
LEMMA AnswerTruth ==
  ASSUME Typed, RealInv, [Next]_vars, ConfirmRequest \/ ConfirmTerra \/ ConfirmApprove
  PROVE  ReceiptsAreTrue'
<1> USE DEF Receipts
<1>1. CASE ConfirmRequest
  <2> DEFINE e == RequestEffect
  <2>1. /\ e \in EffectIds /\ mem.request.rev \in Revs /\ mem.request.stage \in Stages
        /\ e = RevisionEffect(mem.request.rev, mem.request.stage)
        /\ requests[<<mem.request.rev, mem.request.stage>>] > 0
    BY <1>1, RequestType
       DEF ConfirmRequest, Typed, InHand, RequestSteps, RealInv, RequestedCard, RequestEffect
  <2>2. \A r \in Revs : e # CardEffect(r) /\ e # ApproveEffect(r)
    BY <2>1 DEF RevisionEffect, CardEffect, ApproveEffect
  <2>3. \A r \in Revs : \A s \in Stages :
          e = RevisionEffect(r, s) => r = mem.request.rev /\ s = mem.request.stage
    BY <2>1 DEF RevisionEffect, Stages
  <2>4. Proves(e, "sent")
    BY <2>1, <2>2, <2>3, Zenon DEF Proves
  <2>5. Confirm(e, "sent", "yield")
    BY <1>1 DEF ConfirmRequest
  <2> HIDE DEF e
  <2> QED BY <2>1, <2>4, <2>5, TruthOfOperation
<1>2. CASE ConfirmTerra
  <2> DEFINE e == CardEffect(mem.card.rev)
  <2>1. e \in EffectIds /\ cards[<<mem.card.rev, "terra">>] # "absent"
    BY <1>2, CardType DEF ConfirmTerra, Typed, InHand, CardSteps, RealInv
  <2>2. \A r \in Revs : e # ApproveEffect(r) /\ (e = CardEffect(r) => r = mem.card.rev)
    BY DEF CardEffect, ApproveEffect
  <2>3. \A r \in Revs : \A s \in Stages : e # RevisionEffect(r, s)
    BY DEF RevisionEffect, CardEffect
  <2>4. Proves(e, "card")
    BY <2>1, <2>2, <2>3, Zenon DEF Proves
  <2>5. Confirm(e, "card", "point_terra")
    BY <1>2 DEF ConfirmTerra
  <2> HIDE DEF e
  <2> QED BY <2>1, <2>4, <2>5, TruthOfOperation
<1>3. CASE ConfirmApprove
  <2> DEFINE e == ApproveEffect(mem.card.rev)
  <2>1. e \in EffectIds /\ approvals[mem.card.rev] > 0
    BY <1>3, CardType DEF ConfirmApprove, Typed, InHand, CardSteps, RealInv
  <2>2. \A r \in Revs : e # CardEffect(r) /\ (e = ApproveEffect(r) => r = mem.card.rev)
    BY DEF CardEffect, ApproveEffect
  <2>3. \A r \in Revs : \A s \in Stages : e # RevisionEffect(r, s)
    BY DEF RevisionEffect, ApproveEffect
  <2>4. Proves(e, "approved")
    BY <2>1, <2>2, <2>3, Zenon DEF Proves
  <2>5. Confirm(e, "approved", "record_approved")
    BY <1>3 DEF ConfirmApprove
  <2> HIDE DEF e
  <2> QED BY <2>1, <2>4, <2>5, TruthOfOperation
<1> QED BY <1>1, <1>2, <1>3

(* Every step keeps the journals true. *)
LEMMA TruthStep ==
  ASSUME Typed, RealInv, [Next]_vars
  PROVE  ReceiptsAreTrue'
<1>0. /\ mem \in Sessions /\ disk \in Sessions /\ env \in Sessions
      /\ TellsTheTruth(disk.journal) /\ TellsTheTruth(env.journal) /\ TellsTheTruth(mem.journal)
  BY PlanNumbers DEF RealInv, ReceiptsAreTrue
<1>1. ASSUME NEW a, NEW b, NEW c, TellsTheTruth(a), TellsTheTruth(b), TellsTheTruth(c),
             mem'.journal = a, disk'.journal = b, env'.journal = c
      PROVE  ReceiptsAreTrue'
  <2>1. TruthNext(a) /\ TruthNext(b) /\ TruthNext(c)
    BY <1>1, TruthStays
  <2>2. TruthNext(mem'.journal) /\ TruthNext(disk'.journal) /\ TruthNext(env'.journal)
    BY <1>1, <2>1
  <2> QED BY <2>2 DEF ReceiptsAreTrue, TellsTheTruth, TruthNext
<1>2. TellsTheTruth(EmptyJournal)
  <2>1. \A e \in EffectIds : EmptyJournal[e].kind # "confirmed"
    BY DEF EmptyJournal, Absent
  <2> QED BY <1>0, <2>1, TruthOfEntries
<1>3. CASE Rejected \/ LunaApproved \/ TerraApproved
  BY <1>3, GateTruth
<1>4. CASE ConfirmRequest \/ ConfirmTerra \/ ConfirmApprove
  BY <1>4, AnswerTruth
<1>5. CASE Start
  <2>1. /\ mem'.journal = MergeEffectJournals(env.journal, disk.journal)
        /\ UNCHANGED <<disk, env>>
    BY <1>5 DEF Start, MergeCheckpoints
  <2>2. TellsTheTruth(MergeEffectJournals(env.journal, disk.journal))
    <3>1. \A e \in EffectIds :
            MergeEffectJournals(env.journal, disk.journal)[e] \in {env.journal[e], disk.journal[e]}
      BY DEF MergeEffectJournals, MergeAttempt
    <3> QED BY <1>0, <3>1, TruthOfEntries
  <2> QED BY <1>0, <1>1, <2>1, <2>2
<1>6. CASE StartCanonical \/ Crash
  <2>1. mem'.journal = EmptyJournal /\ UNCHANGED <<disk, env>>
    BY <1>6 DEF StartCanonical, Crash, EndRun, NewSession
  <2> QED BY <1>0, <1>1, <1>2, <2>1
<1>7. CASE Return
  <2>1. mem'.journal = EmptyJournal /\ env'.journal = mem.journal /\ UNCHANGED disk
    BY <1>7 DEF Return, EndRun, NewSession
  <2> QED BY <1>0, <1>1, <1>2, <2>1
<1>8. CASE Environment \/ UNCHANGED vars
  <2>1. UNCHANGED <<env, mem, disk>>
    BY <1>8 DEF Environment, FirstPlan, RevisedPlan, OtherPlan, PublishPlan, Echo, Resolve, vars
  <2> QED BY <1>0, <1>1, <2>1
<1>9. CASE PrepareRequest
  BY <1>0, <1>1, <1>9 DEF PrepareRequest, Save, Sessions
<1>10. CASE RecoverPointer
  BY <1>0, <1>1, <1>10 DEF RecoverPointer, Save, Sessions
<1>11. ASSUME Heartbeat \/ Failure, ~Rejected, ~LunaApproved, ~TerraApproved, ~ConfirmRequest,
              ~ConfirmTerra, ~ConfirmApprove, ~Start, ~StartCanonical, ~Crash, ~Return,
              ~PrepareRequest, ~RecoverPointer
       PROVE  /\ UNCHANGED env /\ mem'.journal = mem.journal
              /\ disk'.journal \in {disk.journal, mem.journal}
  BY <1>0, <1>11
     DEF Heartbeat, Failure, Observe, ReadActivities, Recovery, KeepPointer,
       PendingRequest, NoPendingRequest, RequestFulfilled, RequestEchoed, RequestAwaited, Gate,
       NoPointer, HoldForWitness, RetireReplaced, CardLost, CardOverridden, CardAwaited,
       RevisionSteps, SendRequest, RecordRequest, TerraSteps, PostTerra, PointTerra,
       EnterTerraStage, ApprovalSteps, ApprovePlan, RecordApproved, LunaSteps, PlanNotDue,
       WaitForHuman, OpenReview, SaveDocument, PostLuna, SaveLuna, EnterLunaStage,
       YieldHeartbeat, RecoverUnavailable, CardMissing, RequestLost, Delivered, Goto, Save, Sessions
<1>12. ASSUME UNCHANGED env, mem'.journal = mem.journal, disk'.journal \in {disk.journal, mem.journal}
       PROVE  ReceiptsAreTrue'
  BY <1>0, <1>1, <1>12
<1> QED
  BY <1>3, <1>4, <1>5, <1>6, <1>7, <1>8, <1>9, <1>10, <1>11, <1>12 DEF Next

(* Every step keeps what the receipts stand on. *)
LEMMA RealStep ==
  ASSUME Typed, RealInv, [Next]_vars
  PROVE  RealInv'
<1>0. /\ lastRev \in Nat /\ \A r \in Revs : r \in Nat
      /\ cards \in [Cards -> {"absent", "pending"} \cup CardVerdicts]
      /\ approvals \in [Revs -> Nat] /\ requests \in [Cards -> Nat]
      /\ planOf \in [Revs -> PlanIds \cup {NoPlan}]
      /\ mem \in Sessions /\ target.rev \in Nat
  BY PlanNumbers DEF Typed, TypeOK
<1>1. ReceiptsAreTrue'
  BY TruthStep
<1>2. echoes' \subseteq {c \in Cards : requests'[c] > 0}
  <2>1. \A c \in echoes' : c \in Cards /\ requests[c] > 0
    <3>1. CASE Environment
      BY <3>1 DEF RealInv, Environment, FirstPlan, RevisedPlan, OtherPlan, PublishPlan, Echo, Resolve
    <3>2. CASE UNCHANGED vars
      BY <3>2 DEF RealInv, vars, remote
    <3>3. ASSUME Heartbeat \/ Failure PROVE UNCHANGED echoes
      BY <3>3 DEF Heartbeat, Failure, Start, Observe, ReadActivities, Recovery, RecoverPointer,
       KeepPointer, PendingRequest, NoPendingRequest, RequestFulfilled, RequestEchoed,
       RequestAwaited, Gate, NoPointer, HoldForWitness, RetireReplaced, CardLost,
       CardOverridden, CardAwaited, Rejected, LunaApproved, TerraApproved, Begin,
       RevisionSteps, PrepareRequest, SendRequest, RecordRequest, ConfirmRequest, TerraSteps,
       PostTerra, ConfirmTerra, PointTerra, EnterTerraStage, ApprovalSteps, ApprovePlan,
       ConfirmApprove, RecordApproved, LunaSteps, PlanNotDue, WaitForHuman, OpenReview,
       SaveDocument, PostLuna, SaveLuna, EnterLunaStage, YieldHeartbeat, Return, StartCanonical,
       RecoverUnavailable, CardMissing, Crash, RequestLost, EndRun, Confirm, Goto, Save, remote
    <3> QED BY <3>1, <3>2, <3>3 DEF Next, RealInv
  <2> QED BY <2>1, ArrivedStays
<1>3. snap'.echoes \subseteq echoes'
  <2>1. snap'.echoes \in {snap.echoes, echoes, {}}
    <3>1. CASE Environment \/ UNCHANGED vars
      BY <3>1 DEF Environment, FirstPlan, RevisedPlan, OtherPlan, PublishPlan, Echo, Resolve, vars
    <3>2. CASE Observe \/ ReadActivities
      BY <3>2 DEF Observe, ReadActivities, Typed, TypeOK
    <3>3. ASSUME Heartbeat \/ Failure, ~Observe, ~ReadActivities
          PROVE  UNCHANGED snap \/ snap' = NoSnapshot
      BY <3>3 DEF Heartbeat, Failure, Start, Recovery, RecoverPointer,
       KeepPointer, PendingRequest, NoPendingRequest, RequestFulfilled, RequestEchoed,
       RequestAwaited, Gate, NoPointer, HoldForWitness, RetireReplaced, CardLost,
       CardOverridden, CardAwaited, Rejected, LunaApproved, TerraApproved, Begin,
       RevisionSteps, PrepareRequest, SendRequest, RecordRequest, ConfirmRequest, TerraSteps,
       PostTerra, ConfirmTerra, PointTerra, EnterTerraStage, ApprovalSteps, ApprovePlan,
       ConfirmApprove, RecordApproved, LunaSteps, PlanNotDue, WaitForHuman, OpenReview,
       SaveDocument, PostLuna, SaveLuna, EnterLunaStage, YieldHeartbeat, Return, StartCanonical,
       RecoverUnavailable, CardMissing, Crash, RequestLost, EndRun, Confirm, Goto, Save
    <3> QED BY <3>1, <3>2, <3>3 DEF Next, NoSnapshot
  <2> QED BY <2>1, ArrivedStays DEF RealInv
<1>4. \A r \in Revs : r > lastRev' => planOf'[r] = NoPlan
  <2>1. CASE SaveDocument
    <3>1. /\ lastRev' \in {lastRev, lastRev + 1}
          /\ planOf' = [planOf EXCEPT ![lastRev'] = target.plan]
      BY <2>1 DEF SaveDocument
    <3> QED BY <1>0, <3>1 DEF RealInv
  <2>2. ASSUME ~SaveDocument PROVE UNCHANGED <<lastRev, planOf>>
    BY <2>2 DEF Next, vars, Environment, FirstPlan, RevisedPlan, OtherPlan, PublishPlan, Echo,
       Resolve, Heartbeat, Failure, Start, Observe, ReadActivities, Recovery, RecoverPointer,
       KeepPointer, PendingRequest, NoPendingRequest, RequestFulfilled, RequestEchoed,
       RequestAwaited, Gate, NoPointer, HoldForWitness, RetireReplaced, CardLost,
       CardOverridden, CardAwaited, Rejected, LunaApproved, TerraApproved, Begin,
       RevisionSteps, PrepareRequest, SendRequest, RecordRequest, ConfirmRequest, TerraSteps,
       PostTerra, ConfirmTerra, PointTerra, EnterTerraStage, ApprovalSteps, ApprovePlan,
       ConfirmApprove, RecordApproved, LunaSteps, PlanNotDue, WaitForHuman, OpenReview,
       PostLuna, SaveLuna, EnterLunaStage, YieldHeartbeat, Return, StartCanonical,
       RecoverUnavailable, CardMissing, Crash, RequestLost, EndRun, Confirm, Goto, Save, remote
  <2> QED BY <2>1, <2>2 DEF RealInv
<1>5. CASE PostTerra
  <2>1. mem.card.rev \in Revs /\ <<mem.card.rev, "terra">> \in Cards
    BY <1>5, CardType DEF PostTerra, Typed, InHand, CardSteps, Cards, Stages
  <2>2. cards'[<<mem.card.rev, "terra">>] # "absent" /\ mem' = mem
    BY <1>0, <1>5, <2>1 DEF PostTerra, PostCard
  <2>3. pc' \in {"confirm_terra", "yield"}
    BY <1>5 DEF PostTerra, Answer
  <2> QED BY <1>1, <1>2, <1>3, <1>4, <2>2, <2>3 DEF RealInv
<1>6. CASE ApprovePlan
  <2>1. mem.card.rev \in Revs
    BY <1>6, CardType DEF ApprovePlan, Typed, InHand, CardSteps
  <2>2. approvals'[mem.card.rev] > 0 /\ mem' = mem
    BY <1>0, <1>6, <2>1 DEF ApprovePlan
  <2>3. pc' \in {"confirm_approve", "yield"}
    BY <1>6 DEF ApprovePlan, Answer
  <2> QED BY <1>1, <1>2, <1>3, <1>4, <2>2, <2>3 DEF RealInv
<1>7. CASE SendRequest
  <2>1. RequestedCard \in Cards
    BY <1>7, RequestType DEF SendRequest, Typed, InHand, RequestSteps
  <2>2. requests'[RequestedCard] > 0 /\ mem' = mem
    BY <1>0, <1>7, <2>1 DEF SendRequest
  <2>3. pc' \in {"record_request", "yield"} /\ RequestedCard' = RequestedCard
    BY <1>7, <2>2 DEF SendRequest, Answer, RequestedCard
  <2> QED BY <1>1, <1>2, <1>3, <1>4, <2>2, <2>3 DEF RealInv
<1>8. CASE RecordRequest
  <2>1. /\ requests[RequestedCard] > 0 /\ UNCHANGED requests
        /\ mem'.request.rev = mem.request.rev /\ mem'.request.stage = mem.request.stage
        /\ pc' \in {"confirm_request", "yield"}
    <3>1. mem.request \in [rev : Revs, stage : Stages, state : {"prepared", "delivered"}]
      BY <1>0, <1>8 DEF RecordRequest, Typed, InHand, RequestSteps, Sessions, Requests
    <3> QED BY <1>0, <1>8, <3>1 DEF RecordRequest, Delivered, Save, Sessions, remote, RealInv
  <2>2. RequestedCard' = RequestedCard
    BY <2>1 DEF RequestedCard
  <2> QED BY <1>1, <1>2, <1>3, <1>4, <2>1, <2>2 DEF RealInv
<1>9. CASE Environment \/ UNCHANGED vars
  <2>1. UNCHANGED <<pc, mem>>
    BY <1>9 DEF Environment, FirstPlan, RevisedPlan, OtherPlan, PublishPlan, Echo, Resolve, vars
  <2>2. pc = "confirm_terra" => <<mem.card.rev, "terra">> \in Cards
    BY CardType DEF Typed, InHand, CardSteps, Cards, Stages
  <2>3. pc = "confirm_approve" => mem.card.rev \in Revs
    BY CardType DEF Typed, InHand, CardSteps
  <2>4. /\ pc \in {"record_request", "confirm_request"} => RequestedCard \in Cards
        /\ RequestedCard' = RequestedCard
    BY <2>1, RequestType DEF Typed, InHand, RequestSteps, RequestedCard
  <2> QED
    BY <1>1, <1>2, <1>3, <1>4, <2>1, <2>2, <2>3, <2>4, ArrivedStays, VerdictsStay DEF RealInv
<1>10. ASSUME Heartbeat \/ Failure, ~PostTerra, ~ApprovePlan, ~SendRequest, ~RecordRequest
       PROVE  pc' \notin {"confirm_terra", "confirm_approve", "record_request", "confirm_request"}
  BY <1>10 DEF Heartbeat, Failure, Start, Observe, ReadActivities, Recovery, RecoverPointer,
       KeepPointer, PendingRequest, NoPendingRequest, RequestFulfilled, RequestEchoed,
       RequestAwaited, Gate, NoPointer, HoldForWitness, RetireReplaced, CardLost,
       CardOverridden, CardAwaited, Rejected, LunaApproved, TerraApproved, Begin,
       RevisionSteps, PrepareRequest, ConfirmRequest, TerraSteps, ConfirmTerra, PointTerra,
       EnterTerraStage, ApprovalSteps, ConfirmApprove, RecordApproved, LunaSteps, PlanNotDue,
       WaitForHuman, OpenReview, SaveDocument, PostLuna, SaveLuna, EnterLunaStage,
       YieldHeartbeat, Return, StartCanonical, RecoverUnavailable, CardMissing, Crash,
       RequestLost, EndRun, Confirm, Goto, Save, Answer
<1>11. ASSUME pc' \notin {"confirm_terra", "confirm_approve", "record_request", "confirm_request"}
       PROVE  RealInv'
  BY <1>1, <1>2, <1>3, <1>4, <1>11 DEF RealInv
<1> QED BY <1>5, <1>6, <1>7, <1>8, <1>9, <1>10, <1>11 DEF Next

(* Initially nothing is confirmed. *)
LEMMA RealInit == Init => RealInv
<1> SUFFICES ASSUME Init PROVE RealInv
  OBVIOUS
<1>1. disk.journal = EmptyJournal /\ env.journal = EmptyJournal /\ mem.journal = EmptyJournal
  BY DEF Init, NewSession
<1>2. TellsTheTruth(EmptyJournal)
  <2>1. \A r \in Revs : CardEffect(r) \in EffectIds /\ ApproveEffect(r) \in EffectIds
    BY EffectTypes
  <2>2. \A r \in Revs : \A s \in Stages : RevisionEffect(r, s) \in EffectIds
    BY DEF RevisionEffect, EffectIds, Stages
  <2>3. \A e \in EffectIds : EmptyJournal[e].kind # "confirmed"
    BY DEF EmptyJournal, Absent
  <2>4. Confirmed("approved").kind = "confirmed" /\ Confirmed("observed").kind = "confirmed"
    BY DEF Confirmed
  <2>5. \A r \in Revs : /\ EmptyJournal[ApproveEffect(r)] # Confirmed("approved")
                        /\ EmptyJournal[ApproveEffect(r)] # Confirmed("observed")
    BY <2>1, <2>3, <2>4
  <2> QED BY <2>1, <2>2, <2>3, <2>5, Zenon DEF TellsTheTruth
<1>3. ReceiptsAreTrue
  BY <1>1, <1>2 DEF ReceiptsAreTrue
<1> QED BY <1>3 DEF Init, RealInv, NoSnapshot

(* What any copy of the journal takes for done was done, under every kind  *)
(* of fault: the gate confirms an interrupted call only from a card, a     *)
(* planApproved activity or a mirrored marker that the call itself left.   *)
THEOREM ReceiptsTrue == Spec => []ReceiptsAreTrue
<1>1. Typed /\ RealInv /\ [Next]_vars => RealInv'
  BY RealStep
<1>2. RealInv => ReceiptsAreTrue
  BY DEF RealInv
<1> QED BY <1>1, <1>2, RealInit, TypedInit, TypedStep, PTL DEF Spec

-----------------------------------------------------------------------------
(* An approved plan is not revised.  approvePlan names a session and not a *)
(* plan, so here Jules replaces no plan of its own accord, and none after  *)
(* one was approved: a run that acts on a card then holds the newest plan, *)
(* with nothing asked for about it.                                        *)
Quiet == ~SpontaneousReplans /\ ~ReplansAfterApproval

AllOutdated(p) == \A c \in Cards : requests[c] > 0 => planOf[c[1]] < p

NewestInHand ==
  /\ \A r \in Revs : r <= lastRev => planOf[r] # NoPlan
  /\ pc = "save_document" => target.plan # NoPlan
  /\ provider.state = "PLANNING" => provider.plan = NoPlan
  /\ provider.asked => \E c \in Cards : requests[c] > 0 /\ planOf[c[1]] = provider.plan
  /\ pc \notin Unread /\ AllOutdated(snap.plan) => snap.plan \in {NoPlan, provider.plan}
  /\ pc \in {"prepare_request", "approve"} =>
       /\ PointedPlan = provider.plan /\ snap.plan = provider.plan /\ provider.plan # NoPlan
       /\ AllOutdated(provider.plan)
  /\ pc = "send_request" => RequestPlan = provider.plan /\ provider.plan # NoPlan
                            /\ AllOutdated(provider.plan)

(* The cards and requests of the record concern revisions that have a plan.*)
LEMMA RequestsStay ==
  ASSUME Typed, PlanKnown, [Next]_vars
  PROVE  \A c \in Cards : requests[c] > 0 => planOf'[c[1]] = planOf[c[1]]
BY PlansGrow, PlanNumbers DEF PlanKnown

(* A step that changes no request, plan or snapshot keeps the newest plan  *)
(* in hand.                                                                *)
LEMMA NewestKept ==
  ASSUME NewestInHand, UNCHANGED <<provider, planOf, lastRev, requests>>,
         pc' \in Unread \/ (pc \notin Unread /\ UNCHANGED snap),
         pc' \notin {"save_document", "prepare_request", "approve", "send_request"}
  PROVE  NewestInHand'
BY DEF NewestInHand, AllOutdated

(* The gate acts on a card only when its plan is the newest. *)
LEMMA NewestGate ==
  ASSUME Typed, ReviseInv, NewestInHand, Gate \/ CardMissing
  PROVE  NewestInHand'
<1> USE DEF Unread
<1>0. /\ pc = "gate" /\ pc' \notin Unread \cup {"save_document", "send_request"}
      /\ UNCHANGED <<provider, planOf, lastRev, requests, cards, snap>>
  BY DEF Gate, CardMissing, NoPointer, HoldForWitness, RetireReplaced, CardLost, CardOverridden,
       CardAwaited, Rejected, LunaApproved, TerraApproved, Consulting, AtCard, Begin, Confirm,
       Goto, Save, remote
<1>1. CASE pc' \notin {"prepare_request", "approve"}
  BY <1>0, <1>1, NewestKept
<1>2. CASE pc' \in {"prepare_request", "approve"}
  <2>1. /\ mem.card # NoCard /\ mem'.card = mem.card /\ snap.plan \in {NoPlan, PointedPlan}
    BY <1>2, RoutineGate DEF Routine
  <2>2. cards[Pointed] # "absent"
    BY <1>2
     DEF Gate, CardMissing, NoPointer, HoldForWitness, RetireReplaced, CardLost, CardOverridden,
       CardAwaited, Rejected, LunaApproved, TerraApproved, Consulting, AtCard, VerdictApproves,
       Begin, Confirm, Goto, Save
  <2>3. Pointed \in Cards /\ mem.card.rev \in Revs /\ Pointed[1] = mem.card.rev
    BY <2>1, CardType DEF Pointed
  <2>4. PointedPlan # NoPlan /\ PointedPlan <= snap.plan
    BY <1>0, <2>2, <2>3 DEF ReviseInv, PlanKnown, NewestInHand, PointedPlan
  <2>5. PointedPlan \in Nat /\ snap.plan \in Nat /\ \A c \in Cards : c # Nobody
    BY <2>3, PlanNumbers DEF PointedPlan
  <2>6. snap.plan = PointedPlan
    BY <2>1, <2>4, <2>5 DEF NoPlan
  <2>7. Asked(mem) = Nobody
    BY <1>0 DEF ReviseInv, OneRequest
  <2>8. AllOutdated(snap.plan)
    BY <1>0, <2>5, <2>7 DEF AllOutdated, ReviseInv, Remembered
  <2>9. snap.plan = provider.plan
    BY <1>0, <2>4, <2>6, <2>8 DEF NewestInHand
  <2>10. PointedPlan' = PointedPlan
    BY <1>0, <2>1 DEF PointedPlan
  <2> QED
    BY <1>0, <1>2, <2>4, <2>6, <2>8, <2>9, <2>10 DEF NewestInHand, AllOutdated
<1> QED BY <1>1, <1>2

(* Jules publishes a plan only when the newest one has been asked about.   *)
LEMMA NewestPublished ==
  ASSUME Quiet, Typed, ReviseInv, NewestInHand, Environment
  PROVE  NewestInHand'
<1> USE DEF Unread
<1>0. /\ provider.plan \in Nat /\ snap.plan \in Nat /\ snap.plan <= provider.plan
      /\ \A c \in Cards : planOf[c[1]] \in Nat
  BY PlanNumbers DEF ReviseInv, PlanKnown
<1>1. UNCHANGED <<pc, disk, mem, snap, target, planOf, lastRev, requests>>
  BY DEF Environment, FirstPlan, RevisedPlan, OtherPlan, PublishPlan, Echo, Resolve
<1>2. ASSUME UNCHANGED provider PROVE NewestInHand'
  BY <1>1, <1>2 DEF NewestInHand, AllOutdated, PointedPlan, RequestPlan
<1>3. ASSUME NEW may, may => provider.state = "PLANNING" \/ provider.asked, PublishPlan(may)
      PROVE  NewestInHand'
  <2>1. /\ provider'.plan = provider.plan + 1 /\ provider'.asked = FALSE
        /\ provider'.state = "AWAITING_PLAN_APPROVAL"
    BY <1>3 DEF PublishPlan
  <2>2. provider.state = "PLANNING" \/ provider.asked
    BY <1>3 DEF PublishPlan
  <2>3. pc \notin {"prepare_request", "approve", "send_request"}
    <3>1. CASE provider.state = "PLANNING"
      BY <3>1 DEF NewestInHand
    <3>2. CASE provider.asked
      BY <1>0, <3>2 DEF NewestInHand, AllOutdated
    <3> QED BY <2>2, <3>1, <3>2
  <2>4. pc \notin Unread /\ AllOutdated(snap.plan) => snap.plan = NoPlan
    <3>1. CASE provider.state = "PLANNING"
      BY <1>0, <3>1 DEF NewestInHand, NoPlan
    <3>2. CASE provider.asked
      BY <1>0, <3>2 DEF NewestInHand, AllOutdated
    <3> QED BY <2>2, <3>1, <3>2
  <2> QED BY <1>1, <2>1, <2>3, <2>4 DEF NewestInHand, AllOutdated
<1>4. ASSUME FirstPlan \/ RevisedPlan \/ OtherPlan PROVE NewestInHand'
  <2>1. CASE FirstPlan
    BY <1>3, <2>1 DEF FirstPlan
  <2>2. CASE RevisedPlan
    BY <1>3, <2>2 DEF RevisedPlan
  <2>3. ~OtherPlan
    BY DEF OtherPlan, PublishPlan, Quiet
  <2> QED BY <1>4, <2>1, <2>2, <2>3
<1>5. ASSUME NEW c \in Cards, Echo(c) \/ \E verdict \in Verdicts : Resolve(c, verdict)
      PROVE  NewestInHand'
  BY <1>2, <1>5 DEF Echo, Resolve
<1> QED BY <1>4, <1>5 DEF Environment

(* Every step keeps the newest plan in hand. *)
LEMMA NewestStep ==
  ASSUME Quiet, "canonical" \notin Faults, "activities" \notin Faults,
         Typed, LadderInv, ReviseInv, NewestInHand, [Next]_vars
  PROVE  NewestInHand'
<1> USE DEF Unread
<1>0. /\ provider.plan \in Nat /\ snap.plan \in Nat /\ lastRev \in Nat
      /\ \A r \in Revs : r \in Nat
      /\ PlanKnown
  BY PlanNumbers DEF ReviseInv
<1>1. CASE ReadActivities
  <2>1. /\ snap'.plan = provider.plan /\ pc' = "recover"
        /\ UNCHANGED <<provider, planOf, lastRev, requests>>
    BY <1>1 DEF ReadActivities, Fault, Typed, TypeOK, remote
  <2> QED BY <2>1 DEF NewestInHand
<1>2. CASE OpenReview
  <2>1. snap.plan # NoPlan
    BY <1>0, <1>2 DEF OpenReview, PlanReviewDue, IsPlanApprovalRequired, PlanKnown
  <2>2. /\ target'.plan # NoPlan /\ pc = "plan" /\ pc' = "save_document"
        /\ UNCHANGED <<snap, provider, planOf, lastRev, requests>>
    BY <1>2, <2>1 DEF OpenReview, remote
  <2> QED BY <2>2 DEF NewestInHand, AllOutdated
<1>3. CASE SaveDocument
  <2>1. /\ pc = "save_document" /\ pc' \in {"post_luna", "yield"} /\ target.plan # NoPlan
        /\ lastRev' \in Revs => planOf'[lastRev'] = target.plan
        /\ UNCHANGED <<snap, provider, requests>>
    BY <1>3 DEF SaveDocument, Answer, Typed, TypeOK, NewestInHand
  <2>2. lastRev' \in {lastRev, lastRev + 1}
    BY <1>3 DEF SaveDocument
  <2>3. \A r \in Revs : r <= lastRev => planOf'[r] = planOf[r]
    BY PlansGrow
  <2>4. \A r \in Revs : r <= lastRev' => planOf'[r] # NoPlan
    BY <1>0, <2>1, <2>2, <2>3 DEF NewestInHand
  <2>5. \A c \in Cards : requests[c] > 0 => planOf'[c[1]] = planOf[c[1]]
    BY <1>0, RequestsStay
  <2> QED BY <2>1, <2>4, <2>5 DEF NewestInHand, AllOutdated
<1>4. CASE PrepareRequest
  <2>1. /\ pc = "prepare_request" /\ pc' = "send_request" /\ mem'.request.rev = mem.card.rev
        /\ UNCHANGED <<snap, provider, planOf, lastRev, requests>>
    BY <1>4, PlanNumbers DEF PrepareRequest, Save, remote, Sessions
  <2> QED BY <2>1 DEF NewestInHand, AllOutdated, RequestPlan, PointedPlan
<1>5. CASE SendRequest
  <2>1. /\ pc = "send_request" /\ pc' \in {"record_request", "yield"}
        /\ provider'.plan = provider.plan /\ provider'.state = provider.state
        /\ UNCHANGED <<snap, planOf, lastRev>>
    BY <1>5 DEF SendRequest, Answer, Typed, TypeOK
  <2>2. /\ RequestedCard \in Cards /\ RequestedCard[1] = mem.request.rev
        /\ requests'[RequestedCard] = requests[RequestedCard] + 1
        /\ \A c \in Cards : c # RequestedCard => requests'[c] = requests[c]
    BY <1>5, RequestType DEF SendRequest, Typed, TypeOK, InHand, RequestSteps, RequestedCard
  <2>3. requests'[RequestedCard] > 0 /\ \A c \in Cards : requests[c] > 0 => requests'[c] > 0
    BY <2>2, PlanNumbers
  <2>4. planOf[RequestedCard[1]] = provider.plan
    BY <2>1, <2>2 DEF NewestInHand, RequestPlan
  <2> QED BY <2>1, <2>2, <2>3, <2>4 DEF NewestInHand, AllOutdated
<1>6. CASE ApprovePlan
  <2>1. /\ pc = "approve" /\ pc' \in {"confirm_approve", "yield"}
        /\ provider'.plan = provider.plan /\ provider'.state \in {provider.state, "IN_PROGRESS"}
        /\ provider'.asked => provider.asked
        /\ UNCHANGED <<snap, planOf, lastRev, requests>>
    BY <1>6 DEF ApprovePlan, Answer, Typed, TypeOK
  <2> QED BY <2>1 DEF NewestInHand, AllOutdated
<1>7. CASE Environment
  BY <1>7, NewestPublished
<1>8. CASE UNCHANGED vars
  BY <1>8 DEF vars, remote, NewestInHand, AllOutdated, PointedPlan, RequestPlan
<1>9. CASE Gate \/ CardMissing
  BY <1>9, NewestGate
<1>10. ASSUME Heartbeat \/ Failure, ~ReadActivities, ~OpenReview, ~SaveDocument, ~PrepareRequest,
              ~SendRequest, ~ApprovePlan, ~Gate, ~CardMissing
       PROVE  NewestInHand'
  <2>1. /\ UNCHANGED <<provider, planOf, lastRev, requests>>
        /\ pc' \in Unread \/ (pc \notin Unread /\ UNCHANGED snap)
        /\ pc' \notin {"save_document", "prepare_request", "approve", "send_request"}
    BY <1>10 DEF Heartbeat, Failure, Start, Observe, Recovery, RecoverPointer, Fault,
         KeepPointer, PendingRequest, NoPendingRequest, RequestFulfilled, RequestEchoed,
         RequestAwaited, RevisionSteps, RecordRequest, ConfirmRequest, TerraSteps, PostTerra,
         ConfirmTerra, PointTerra, EnterTerraStage, ApprovalSteps, ConfirmApprove,
         RecordApproved, LunaSteps, PlanNotDue, WaitForHuman, PostLuna, SaveLuna,
         EnterLunaStage, YieldHeartbeat, Return, Crash, EndRun, StartCanonical,
         RecoverUnavailable, RequestLost, Confirm, Goto, Save, Answer, remote
  <2> QED BY <2>1, NewestKept
<1> QED
  BY <1>1, <1>2, <1>3, <1>4, <1>5, <1>6, <1>7, <1>8, <1>9, <1>10 DEF Next

(* Initially there is no plan. *)
LEMMA NewestInit == Init => NewestInHand
BY PlanReviewAssumption DEF Init, NewestInHand, Unread, NoPlan, Revs

-----------------------------------------------------------------------------
(* The card a run works on is the one of its envelope, and an approval is  *)
(* on disk before it is called for.                                        *)
SameCard ==
  /\ pc \in {"observe", "read", "recover"} => env.card.rev \in {0, mem.card.rev}
  /\ pc \in {"request", "gate", "approve"} => mem.card.rev = 0 \/ env.card.rev \in {0, mem.card.rev}
  /\ pc = "approve" => disk.card = mem.card

(* The steps that review a plan, ask for another one or approve it.        *)
ReviewSteps ==
  {"save_document", "post_luna", "save_luna", "prepare_request", "send_request",
   "record_request", "confirm_request", "approve"}

(* Once revision r was approved in Jules, Jules executes its plan, every   *)
(* copy of the session is either still at the card of r or knows that the  *)
(* plan was approved, and no run reviews or revises anything any more.     *)
ExecutingPlan(r) ==
  /\ provider.plan = planOf[r] /\ provider.state = "IN_PROGRESS"
  /\ AllOutdated(planOf[r])
  /\ disk.approved # NoPlan \/ disk.card.rev = r
  /\ pc # "idle" => mem.approved # NoPlan \/ mem.card.rev = r
  /\ env.card.rev \in {0, r} /\ disk.card.rev \in {0, r} /\ mem.card.rev \in {0, r}
  /\ Asked(env) = Nobody /\ Asked(disk) = Nobody /\ Asked(mem) = Nobody
  /\ pc \notin ReviewSteps
  /\ pc \in {"read", "recover"} => snap.state # "AWAITING_PLAN_APPROVAL"
  /\ pc \notin Unread => snap.plan \in {NoPlan, provider.plan}
  /\ pc = "plan" => mem.approved # NoPlan

Executing ==
  /\ SameCard
  /\ provider.state = "IN_PROGRESS" => \E r \in Revs : approvals[r] > 0
  /\ \A r \in Revs : approvals[r] > 0 => ExecutingPlan(r)

(* A card is no card exactly when it has no revision. *)
LEMMA CardOfRevision ==
  ASSUME NEW s \in Sessions
  PROVE  s.card = NoCard <=> s.card.rev = 0
BY PlanReviewAssumption DEF Sessions, Pointers, NoCard, Revs

(* Every step keeps the card of the run. *)
LEMMA SameCardStep ==
  ASSUME "canonical" \notin Faults, Typed, SameCard, [Next]_vars
  PROVE  SameCard'
<1>0. mem \in Sessions /\ disk \in Sessions /\ env \in Sessions /\ 0 \notin Revs
  BY PlanNumbers
<1>1. CASE Start
  <2>1. mem'.card.rev \in {env.card.rev, disk.card.rev}
        /\ (env.card.rev # 0 => mem'.card.rev = env.card.rev)
    BY <1>0, <1>1, CardOfRevision DEF Start, MergeCheckpoints, Or, ConfirmedTerraReceipt
  <2>2. pc' = "observe" /\ UNCHANGED env
    BY <1>1 DEF Start
  <2> QED BY <2>1, <2>2 DEF SameCard
<1>2. CASE Observe \/ ReadActivities
  BY <1>2 DEF Observe, ReadActivities, SameCard
<1>3. CASE Recovery \/ RecoverUnavailable
  <2>1. CASE RecoverPointer
    <3>1. mem.card.rev = 0 /\ pc = "recover" /\ pc' = "request" /\ UNCHANGED env
      BY <2>1 DEF RecoverPointer, PointerLost, NoCard, Save
    <3> QED BY <3>1 DEF SameCard
  <2>2. CASE KeepPointer \/ RecoverUnavailable
    BY <2>2 DEF KeepPointer, RecoverUnavailable, Goto, SameCard
  <2> QED BY <1>3, <2>1, <2>2 DEF Recovery
<1>4. CASE PendingRequest
  <2>1. CASE RequestFulfilled
    BY <1>0, <2>1 DEF RequestFulfilled, Save, SameCard, NoCard, Sessions
  <2>2. CASE NoPendingRequest
    BY <2>2 DEF NoPendingRequest, Goto, SameCard
  <2>3. CASE RequestEchoed \/ RequestAwaited
    BY <2>3 DEF RequestEchoed, RequestAwaited, Goto, Save, SameCard
  <2> QED BY <1>4, <2>1, <2>2, <2>3 DEF PendingRequest
<1>5. CASE Gate \/ CardMissing
  <2>1. /\ pc = "gate" /\ pc' \notin {"observe", "read", "recover", "request", "gate"}
        /\ UNCHANGED env
        /\ pc' = "approve" => mem'.card = mem.card /\ disk'.card = mem.card
    BY <1>0, <1>5
       DEF Gate, CardMissing, NoPointer, HoldForWitness, RetireReplaced, CardLost, CardOverridden,
         CardAwaited, Rejected, LunaApproved, TerraApproved, Consulting, AtCard, Begin, Confirm,
         Goto, Save, Sessions
  <2> QED BY <2>1 DEF SameCard
<1>6. CASE Environment \/ UNCHANGED vars
  BY <1>6 DEF Environment, FirstPlan, RevisedPlan, OtherPlan, PublishPlan, Echo, Resolve, vars,
              remote, SameCard
<1>7. ~StartCanonical
  BY DEF StartCanonical, Fault
<1>8. ASSUME RevisionSteps \/ TerraSteps \/ ApprovalSteps \/ LunaSteps \/ YieldHeartbeat \/ Return
             \/ Crash \/ RequestLost
      PROVE  pc' \notin {"observe", "read", "recover", "request", "gate", "approve"}
  BY <1>8 DEF RevisionSteps, PrepareRequest, SendRequest, RecordRequest, ConfirmRequest,
       TerraSteps, PostTerra, ConfirmTerra, PointTerra, EnterTerraStage, ApprovalSteps,
       ApprovePlan, ConfirmApprove, RecordApproved, LunaSteps, PlanNotDue, WaitForHuman,
       OpenReview, SaveDocument, PostLuna, SaveLuna, EnterLunaStage, YieldHeartbeat, Return,
       Crash, EndRun, RequestLost, Confirm, Goto, Save, Answer
<1> QED
  BY <1>1, <1>2, <1>3, <1>4, <1>5, <1>6, <1>7, <1>8 DEF Next, Heartbeat, Failure, SameCard

(* While Jules executes the plan of revision r, the card in hand is one of *)
(* r's and approved, and nothing is asked for.                             *)
LEMMA ExecutingFacts ==
  ASSUME Typed, LadderInv, ReviseInv, NewestInHand, NEW r \in Revs, approvals[r] > 0,
         ExecutingPlan(r)
  PROVE  /\ mem.request = NoRequest
         /\ provider.plan # NoPlan
         /\ mem.card # NoCard => /\ mem.card.rev = r /\ PointedPlan = provider.plan
                                 /\ cards[Pointed] = "approved"
<1>0. mem \in Sessions
  BY PlanNumbers
<1>1. mem.request = NoRequest
  BY <1>0, AskedNobody DEF ExecutingPlan
<1>2. BothApproved(r) /\ <<r, "luna">> \in Cards
  BY DEF LadderInv, Cards, Stages
<1>3. provider.plan # NoPlan
  BY <1>2 DEF ExecutingPlan, NewestInHand, ReviseInv, PlanKnown, BothApproved
<1>4. ASSUME mem.card # NoCard
      PROVE  /\ mem.card.rev = r /\ PointedPlan = provider.plan
             /\ cards[Pointed] = "approved"
  BY <1>0, <1>2, <1>4, CardOfRevision, CardType
     DEF ExecutingPlan, PointedPlan, Pointed, BothApproved, Stages
<1> QED BY <1>1, <1>3, <1>4

(* A step of a run that has read Jules, asks for nothing and keeps the     *)
(* card or the knowledge of the approval.                                  *)
LEMMA ExecutingKept ==
  ASSUME NEW r \in Revs, ExecutingPlan(r), pc \notin Unread,
         UNCHANGED <<env, snap, provider, planOf, requests>>,
         mem'.request = mem.request, disk' \in {disk, mem'}, mem'.card.rev \in {0, r},
         mem'.approved # NoPlan \/ mem'.card.rev = r,
         pc' \notin ReviewSteps \cup Unread \cup {"recover"},
         pc' = "plan" => mem'.approved # NoPlan
  PROVE  ExecutingPlan(r)'
BY DEF ExecutingPlan, AllOutdated, Asked, Unread

(* The gate has nothing left to do but to see the approval through. *)
LEMMA ExecutingGate ==
  ASSUME "list" \notin Faults, Typed, LadderInv, OnceInv', ReviseInv, NewestInHand,
         NEW r \in Revs, approvals[r] > 0, ExecutingPlan(r), Gate \/ CardMissing
  PROVE  ExecutingPlan(r)'
<1>0. /\ mem \in Sessions /\ pc = "gate" /\ pc \notin Unread
      /\ UNCHANGED <<env, snap, provider, planOf, requests, approvals>>
  BY PlanNumbers
     DEF Gate, CardMissing, NoPointer, HoldForWitness, RetireReplaced, CardLost, CardOverridden,
       CardAwaited, Rejected, LunaApproved, TerraApproved, Consulting, AtCard, Begin, Confirm,
       Goto, Save, remote, Unread
<1>1. mem.card # NoCard => /\ mem.card.rev = r /\ PointedPlan = provider.plan
                           /\ cards[Pointed] = "approved"
  BY ExecutingFacts
<1>2. CASE NoPointer
  <2>1. mem.card.rev = 0 /\ 0 \notin Revs /\ mem' = mem /\ disk' = disk /\ pc' = "plan"
    BY <1>2, PlanNumbers DEF NoPointer, NoCard, Goto
  <2>2. mem.approved # NoPlan
    BY <1>0, <2>1 DEF ExecutingPlan
  <2> QED BY <1>0, <2>1, <2>2, ExecutingKept DEF ReviewSteps, Unread
<1>3. ~RetireReplaced
  BY <1>0, <1>1 DEF RetireReplaced, AtCard, PlanReplaced, ExecutingPlan
<1>4. ~CardMissing /\ ~CardLost /\ ~CardOverridden /\ ~Rejected
  BY <1>1 DEF CardMissing, CardLost, CardOverridden, Rejected, Consulting, AtCard, Fault
<1>5. CASE HoldForWitness \/ CardAwaited \/ LunaApproved \/ TerraApproved
  <2>1. /\ mem'.request = mem.request /\ mem'.card = mem.card /\ mem'.approved = mem.approved
        /\ disk' \in {disk, mem'}
        /\ pc' \in {"yield", "post_terra", "point_terra", "approve", "record_approved"}
        /\ pc' = "approve" => mem.card # NoCard
    BY <1>0, <1>5
       DEF HoldForWitness, CardAwaited, LunaApproved, TerraApproved, Consulting, AtCard, Begin,
         Confirm, Goto, Save, Sessions
  <2>2. pc' # "approve"
    BY <1>0, <1>1, <2>1 DEF OnceInv
  <2>3. mem.card.rev \in {0, r} /\ (mem.approved # NoPlan \/ mem.card.rev = r)
    BY <1>0 DEF ExecutingPlan
  <2> QED BY <1>0, <2>1, <2>2, <2>3, ExecutingKept DEF ReviewSteps, Unread
<1> QED BY <1>2, <1>3, <1>4, <1>5 DEF Gate

(* The steps behind the gate, too. *)
LEMMA ExecutingBehindGate ==
  ASSUME Typed, LadderInv, ReviseInv, NewestInHand,
         NEW r \in Revs, approvals[r] > 0, ExecutingPlan(r),
         RevisionSteps \/ TerraSteps \/ ApprovalSteps \/ LunaSteps \/ YieldHeartbeat \/ RequestLost
  PROVE  ExecutingPlan(r)'
<1>0. mem \in Sessions /\ pc \notin Unread /\ pc # "idle" /\ pc \notin ReviewSteps
  BY PlanNumbers
     DEF RevisionSteps, PrepareRequest, SendRequest, RecordRequest, ConfirmRequest,
       TerraSteps, PostTerra, ConfirmTerra, PointTerra, EnterTerraStage, ApprovalSteps,
       ApprovePlan, ConfirmApprove, RecordApproved, LunaSteps, PlanNotDue, WaitForHuman,
       OpenReview, SaveDocument, PostLuna, SaveLuna, EnterLunaStage, YieldHeartbeat, RequestLost,
       Unread, ExecutingPlan
<1>1. ~RevisionSteps /\ ~ApprovePlan /\ ~SaveDocument /\ ~PostLuna /\ ~SaveLuna /\ ~OpenReview
  BY <1>0
     DEF RevisionSteps, PrepareRequest, SendRequest, RecordRequest, ConfirmRequest, ApprovePlan,
       SaveDocument, PostLuna, SaveLuna, OpenReview, SessionApproved, ExecutingPlan, ReviewSteps
<1>2. mem.card.rev \in {0, r} /\ (mem.approved # NoPlan \/ mem.card.rev = r)
  BY <1>0 DEF ExecutingPlan, Unread
<1>3. CASE RecordApproved
  <2>1. mem.card # NoCard /\ pc = "record_approved"
    BY <1>3 DEF RecordApproved, Typed, InHand, CardSteps
  <2>2. PointedPlan # NoPlan
    BY <2>1, ExecutingFacts
  <2>3. /\ mem'.request = mem.request /\ mem'.card.rev = 0 /\ mem'.approved # NoPlan /\ disk' = mem'
        /\ pc' = "yield" /\ UNCHANGED <<env, snap, provider, planOf, requests>>
    BY <1>0, <1>3, <2>2 DEF RecordApproved, Save, remote, Sessions, NoCard
  <2> QED BY <1>0, <2>3, ExecutingKept DEF ReviewSteps, Unread
<1>4. ASSUME ~RecordApproved
      PROVE  /\ mem'.request = mem.request /\ mem'.card.rev = mem.card.rev
             /\ mem'.approved = mem.approved /\ disk' \in {disk, mem'}
             /\ pc' \notin ReviewSteps \cup Unread \cup {"recover", "plan"}
             /\ UNCHANGED <<env, snap, provider, planOf, requests>>
  BY <1>0, <1>1, <1>4
     DEF TerraSteps, PostTerra, ConfirmTerra, PointTerra, EnterTerraStage, ApprovalSteps,
       ConfirmApprove, LunaSteps, PlanNotDue, WaitForHuman, EnterLunaStage, YieldHeartbeat,
       RequestLost, Confirm, Goto, Save, Answer, remote, Sessions, Pointers, NoCard, ReviewSteps,
       Unread
<1> QED BY <1>0, <1>2, <1>3, <1>4, ExecutingKept

(* A later run takes the card or the approval from its record. *)
LEMMA ExecutingStart ==
  ASSUME Typed, NEW r \in Revs, ExecutingPlan(r), Start
  PROVE  ExecutingPlan(r)'
<1>0. /\ mem \in Sessions /\ disk \in Sessions /\ env \in Sessions
      /\ r # 0 /\ pc = "idle" /\ pc' = "observe"
      /\ UNCHANGED <<disk, env, snap, provider, planOf, requests>>
  BY PlanNumbers DEF Start, remote
<1>1. mem' = MergeCheckpoints(env, disk)
  BY DEF Start
<1>2. Asked(mem') = Nobody
  <2>1. env.request = NoRequest /\ disk.request = NoRequest
    BY <1>0, AskedNobody DEF ExecutingPlan
  <2> QED BY <1>1, <2>1 DEF MergeCheckpoints, Or, Asked, Nobody, NoRequest
<1>3. /\ mem'.card.rev \in {env.card.rev, disk.card.rev}
      /\ env.card.rev # 0 => mem'.card.rev = env.card.rev
      /\ env.card.rev = 0 => mem'.card.rev = disk.card.rev
  BY <1>0, <1>1, CardOfRevision DEF MergeCheckpoints, Or, ConfirmedTerraReceipt
<1>4. disk.approved # NoPlan => mem'.approved # NoPlan
  BY <1>1 DEF MergeCheckpoints, Or, ApprovedSource, HasConfirmedApproval
<1> QED
  BY <1>0, <1>2, <1>3, <1>4 DEF ExecutingPlan, AllOutdated, Asked, ReviewSteps, Unread

(* What it reads of Jules is no invitation to review. *)
LEMMA ExecutingPoll ==
  ASSUME "activities" \notin Faults, Typed, LadderInv, ReviseInv, NewestInHand,
         NEW r \in Revs, approvals[r] > 0, ExecutingPlan(r),
         Observe \/ ReadActivities \/ Recovery \/ RecoverUnavailable \/ PendingRequest
  PROVE  ExecutingPlan(r)'
<1>1. CASE Observe
  <2>1. /\ pc' = "read" /\ pc = "observe" /\ snap'.state = provider.state
        /\ UNCHANGED <<disk, env, mem, provider, planOf, requests>>
    BY <1>1 DEF Observe, Typed, TypeOK, remote
  <2> QED BY <2>1 DEF ExecutingPlan, AllOutdated, Asked, ReviewSteps, Unread
<1>2. CASE ReadActivities
  <2>1. /\ pc' = "recover" /\ pc = "read" /\ snap'.state = snap.state /\ snap'.plan = provider.plan
        /\ UNCHANGED <<disk, env, mem, provider, planOf, requests>>
    BY <1>2 DEF ReadActivities, Fault, Typed, TypeOK, remote
  <2> QED BY <2>1 DEF ExecutingPlan, AllOutdated, Asked, ReviewSteps, Unread
<1>3. ~RecoverPointer /\ ~RecoverUnavailable
  BY DEF RecoverPointer, RecoverUnavailable, PointerLost, ExecutingPlan
<1>4. ~RequestFulfilled /\ ~RequestEchoed /\ ~RequestAwaited
  BY ExecutingFacts DEF RequestFulfilled, RequestEchoed, RequestAwaited
<1>5. CASE KeepPointer \/ NoPendingRequest
  <2>1. /\ pc \in {"recover", "request"} /\ pc' \in {"request", "gate"}
        /\ UNCHANGED <<disk, env, mem, snap, provider, planOf, requests>>
    BY <1>5 DEF KeepPointer, NoPendingRequest, Goto, remote
  <2> QED BY <2>1 DEF ExecutingPlan, AllOutdated, Asked, ReviewSteps, Unread
<1> QED BY <1>1, <1>2, <1>3, <1>4, <1>5 DEF Recovery, PendingRequest

(* The end of a run leaves the card or the approval on disk; Jules goes on *)
(* and publishes nothing.                                                  *)
LEMMA ExecutingElsewhere ==
  ASSUME Quiet, Typed, NEW r \in Revs, ExecutingPlan(r),
         Return \/ Crash \/ Environment \/ UNCHANGED vars
  PROVE  ExecutingPlan(r)'
<1>1. CASE Return \/ Crash
  <2>1. /\ pc # "idle" /\ pc' = "idle" /\ env' \in {env, mem} /\ mem' = NewSession
        /\ UNCHANGED <<disk, provider, planOf, requests>>
    BY <1>1 DEF Return, Crash, EndRun, remote
  <2>2. mem'.card.rev = 0 /\ Asked(mem') = Nobody
    BY <2>1 DEF NewSession, NoCard, NoRequest, Asked, Nobody
  <2> QED BY <2>1, <2>2 DEF ExecutingPlan, AllOutdated, Asked, ReviewSteps, Unread
<1>2. CASE Environment \/ UNCHANGED vars
  <2>1. ~FirstPlan /\ ~RevisedPlan /\ ~OtherPlan
    BY DEF FirstPlan, RevisedPlan, OtherPlan, PublishPlan, ExecutingPlan, Quiet
  <2>2. UNCHANGED <<pc, disk, env, mem, snap, provider, planOf, requests>>
    BY <1>2, <2>1 DEF Environment, Echo, Resolve, vars, remote
  <2> QED BY <2>2 DEF ExecutingPlan, AllOutdated, Asked
<1> QED BY <1>1, <1>2

(* The first approvePlan call reaches the newest plan, and leaves a trace  *)
(* of the revision in every copy of the session that has a card.           *)
LEMMA ExecutingBegins ==
  ASSUME Typed, ReviseInv, NewestInHand, Executing, ApprovePlan
  PROVE  /\ \A r \in Revs : approvals'[r] > 0 => ExecutingPlan(r)'
         /\ \E r \in Revs : approvals'[r] > 0
<1>0. /\ pc = "approve" /\ mem.card # NoCard /\ mem.card.rev \in Revs /\ mem \in Sessions
      /\ \A r \in Revs : approvals[r] \in Nat
  BY CardType, PlanNumbers DEF ApprovePlan, Typed, TypeOK, InHand, CardSteps
<1>1. \A r \in Revs : approvals[r] = 0
  BY <1>0 DEF Executing, ExecutingPlan, ReviewSteps
<1>2. /\ \A r \in Revs : approvals'[r] > 0 <=> r = mem.card.rev
      /\ UNCHANGED <<disk, env, mem, snap, planOf, requests>>
  BY <1>0, <1>1 DEF ApprovePlan, Typed, TypeOK
<1>3. /\ provider.plan = planOf[mem.card.rev] /\ snap.plan = provider.plan
      /\ provider.plan # NoPlan /\ AllOutdated(provider.plan)
  BY <1>0 DEF NewestInHand, PointedPlan
<1>4. provider.state = "AWAITING_PLAN_APPROVAL"
  <2>1. provider.state # "IN_PROGRESS"
    BY <1>0, <1>1 DEF Executing
  <2>2. provider.state # "PLANNING"
    BY <1>3 DEF NewestInHand
  <2> QED BY <2>1, <2>2 DEF Typed, TypeOK, ProviderStates
<1>5. /\ provider'.state = "IN_PROGRESS" /\ provider'.plan = provider.plan
      /\ pc' \in {"confirm_approve", "yield"}
  BY <1>4 DEF ApprovePlan, Answer, Typed, TypeOK
<1>6. Asked(env) = Nobody /\ Asked(disk) = Nobody /\ Asked(mem) = Nobody
  BY <1>0 DEF ReviseInv, OneRequest
<1>7. disk.card.rev = mem.card.rev /\ env.card.rev \in {0, mem.card.rev}
  BY <1>0, CardOfRevision DEF Executing, SameCard
<1> DEFINE q == mem.card.rev
<1>8. ExecutingPlan(q)'
  BY <1>2, <1>3, <1>5, <1>6, <1>7 DEF ExecutingPlan, AllOutdated, Asked, ReviewSteps, Unread
<1>9. q' = q
  BY <1>2
<1> QED BY <1>0, <1>2, <1>8, <1>9

(* Every step keeps it. *)
LEMMA ExecutingStep ==
  ASSUME Quiet, "canonical" \notin Faults, "activities" \notin Faults, "list" \notin Faults,
         Typed, LadderInv, OnceInv, ReviseInv, NewestInHand, Executing, [Next]_vars
  PROVE  Executing'
<1>1. SameCard' /\ OnceInv'
  BY SameCardStep, OnceStep DEF Executing
<1>2. CASE ApprovePlan
  BY <1>1, <1>2, ExecutingBegins DEF Executing
<1>3. CASE ~ApprovePlan
  <2>1. /\ UNCHANGED approvals
        /\ provider'.state = "IN_PROGRESS" => provider.state = "IN_PROGRESS"
    BY <1>3
     DEF Next, Environment, FirstPlan, RevisedPlan, OtherPlan, PublishPlan, Echo, Resolve,
       vars, Heartbeat, Failure, Start, Observe, ReadActivities, Recovery, RecoverPointer,
       KeepPointer, PendingRequest, NoPendingRequest, RequestFulfilled, RequestEchoed,
       RequestAwaited, Gate, NoPointer, HoldForWitness, RetireReplaced, CardLost,
       CardOverridden, CardAwaited, Rejected, LunaApproved, TerraApproved, Begin,
       RevisionSteps, PrepareRequest, SendRequest, RecordRequest, ConfirmRequest, TerraSteps,
       PostTerra, ConfirmTerra, PointTerra, EnterTerraStage, ApprovalSteps, ConfirmApprove,
       RecordApproved, LunaSteps, PlanNotDue, WaitForHuman, OpenReview, SaveDocument, PostLuna,
       SaveLuna, EnterLunaStage, YieldHeartbeat, Return, StartCanonical, RecoverUnavailable,
       CardMissing, Crash, RequestLost, EndRun, Confirm, Goto, Save, remote, Typed, TypeOK
  <2>2. ASSUME NEW r \in Revs, approvals[r] > 0 PROVE ExecutingPlan(r)'
    <3>1. ExecutingPlan(r)
      BY <2>2 DEF Executing
    <3>2. ~StartCanonical
      BY DEF StartCanonical, Fault
    <3>3. CASE Gate \/ CardMissing
      BY <1>1, <2>2, <3>1, <3>3, ExecutingGate
    <3>4. CASE RevisionSteps \/ TerraSteps \/ ApprovalSteps \/ LunaSteps \/ YieldHeartbeat
               \/ RequestLost
      BY <2>2, <3>1, <3>4, ExecutingBehindGate
    <3>5. CASE Observe \/ ReadActivities \/ Recovery \/ RecoverUnavailable \/ PendingRequest
      BY <2>2, <3>1, <3>5, ExecutingPoll
    <3>6. CASE Start
      BY <3>1, <3>6, ExecutingStart
    <3>7. CASE Return \/ Crash \/ Environment \/ UNCHANGED vars
      BY <3>1, <3>7, ExecutingElsewhere
    <3> QED BY <3>2, <3>3, <3>4, <3>5, <3>6, <3>7 DEF Next, Heartbeat, Failure
  <2> QED BY <1>1, <2>1, <2>2 DEF Executing
<1> QED BY <1>2, <1>3

(* A plan that was approved in Jules is not sent back, whichever of its    *)
(* cards the two decisions come from: once approved, no run goes back to   *)
(* the review.  The interaction list must not be missing: a run that takes *)
(* its card for gone reviews the approved plan again.                      *)
THEOREM ApprovedIsNotRevised ==
  ASSUME Quiet, "canonical" \notin Faults, "activities" \notin Faults, "list" \notin Faults
  PROVE  Spec => []NeverApprovedAndRevised
<1>1. Typed /\ OnceInv /\ [Next]_vars => OnceInv'
  BY OnceStep
<1>2. Typed /\ LadderInv /\ ReviseInv /\ [Next]_vars => ReviseInv'
  BY ReviseStep
<1>3. Typed /\ LadderInv /\ ReviseInv /\ NewestInHand /\ [Next]_vars => NewestInHand'
  BY NewestStep
<1>4. Typed /\ LadderInv /\ OnceInv /\ ReviseInv /\ NewestInHand /\ Executing /\ [Next]_vars
        => Executing'
  BY ExecutingStep
<1>5. Init => LadderInv /\ Executing
  BY DEF Init, LadderInv, Cards, Stages, Executing, SameCard
<1>6. Typed /\ Executing => NeverApprovedAndRevised
  <2>1. ASSUME Typed, Executing, NEW r \in Revs, approvals[r] > 0,
               NEW c \in Cards, planOf[c[1]] = planOf[r]
        PROVE  requests[c] = 0
    BY <2>1, PlanNumbers DEF Executing, ExecutingPlan, AllOutdated
  <2> QED BY <2>1 DEF NeverApprovedAndRevised
<1> QED
  BY <1>1, <1>2, <1>3, <1>4, <1>5, <1>6, TypedInit, TypedStep, LadderStep, OnceInit, ReviseInit,
     NewestInit, PTL DEF Spec

-----------------------------------------------------------------------------
(* Startup.  A run only ever advances the journal it merged from envelope  *)
(* and record, so the receipts of the two never contradict each other.     *)
LEMMA JournalEffect ==
  ASSUME Typed, NEW e \in EffectIds, NEW receipt \in Receipts, NEW step,
         \/ Begin(e, step) \/ Confirm(e, receipt, step) \/ Goto(step)
         \/ CanRetry(mem.journal, e)
              /\ Save([mem EXCEPT !.journal = RetryStartedEffect(mem.journal, e)], step)
  PROVE  UNCHANGED env /\ JournalAdvances(mem.journal, mem'.journal)
<1>0. mem \in Sessions /\ mem.journal \in Journals
  BY JournalTypes
<1>1. CASE Begin(e, step)
  <2>1. mem'.journal = BeginEffect(mem.journal, e) /\ UNCHANGED env
    BY <1>0, <1>1 DEF Begin, Save, Sessions
  <2> QED BY <1>0, <2>1, JournalFacts
<1>2. CASE Confirm(e, receipt, step)
  <2>1. /\ mem'.journal = ConfirmEffect(mem.journal, e, receipt) /\ UNCHANGED env
        /\ CanConfirm(mem.journal, e, receipt)
    BY <1>0, <1>2 DEF Confirm, Save, Sessions
  <2> QED BY <1>0, <2>1, JournalFacts
<1>3. CASE CanRetry(mem.journal, e)
             /\ Save([mem EXCEPT !.journal = RetryStartedEffect(mem.journal, e)], step)
  <2>1. mem'.journal = RetryStartedEffect(mem.journal, e) /\ UNCHANGED env
    BY <1>0, <1>3 DEF Save, Sessions
  <2> QED BY <1>0, <1>3, <2>1, JournalFacts
<1>4. CASE Goto(step)
  <2>1. mem'.journal = mem.journal /\ UNCHANGED env
    BY <1>4 DEF Goto
  <2> QED BY <1>0, <2>1, JournalFacts
<1> QED BY <1>1, <1>2, <1>3, <1>4

(* Within a run the journal advances. *)
LEMMA JournalStep ==
  ASSUME Typed, [Next]_vars, pc # "idle", pc' # "idle"
  PROVE  UNCHANGED env /\ JournalAdvances(mem.journal, mem'.journal)
<1> USE DEF Receipts
<1>0. mem \in Sessions /\ mem.journal \in Journals
  BY JournalTypes
<1>1. CASE Rejected \/ LunaApproved \/ TerraApproved
  <2>1. mem.card # NoCard
    BY <1>1 DEF Rejected, LunaApproved, TerraApproved, Consulting, AtCard
  <2>2. CASE Rejected
    <3> DEFINE e == RevisionEffect(mem.card.rev, mem.card.stage)
    <3>1. e \in EffectIds
      BY <2>1, CardType
    <3>2. Begin(e, "prepare_request") \/ Confirm(e, "echo", "yield") \/ Goto("yield")
      BY <2>2 DEF Rejected
    <3> QED BY <3>1, <3>2, JournalEffect
  <2>3. CASE LunaApproved
    <3> DEFINE e == CardEffect(mem.card.rev)
    <3>1. e \in EffectIds
      BY <2>1, CardType
    <3>2. \/ Begin(e, "post_terra") \/ Confirm(e, "card", "point_terra")
          \/ CanRetry(mem.journal, e)
               /\ Save([mem EXCEPT !.journal = RetryStartedEffect(mem.journal, e)], "post_terra")
          \/ Goto("yield") \/ Goto("point_terra")
      BY <2>3 DEF LunaApproved
    <3> QED BY <3>1, <3>2, JournalEffect
  <2>4. CASE TerraApproved
    <3> DEFINE e == ApproveEffect(mem.card.rev)
    <3>1. e \in EffectIds
      BY <2>1, CardType
    <3>2. Begin(e, "approve") \/ Confirm(e, "observed", "record_approved") \/ Goto("yield")
      BY <2>4 DEF TerraApproved
    <3> QED BY <3>1, <3>2, JournalEffect
  <2> QED BY <1>1, <2>2, <2>3, <2>4
<1>2. CASE ConfirmRequest
  <2>1. RequestEffect \in EffectIds
    BY <1>2, RequestType DEF ConfirmRequest, Typed, InHand, RequestSteps
  <2> QED BY <1>2, <2>1, JournalEffect DEF ConfirmRequest
<1>3. CASE ConfirmTerra \/ ConfirmApprove
  <2>1. CardEffect(mem.card.rev) \in EffectIds /\ ApproveEffect(mem.card.rev) \in EffectIds
    BY <1>3, CardType DEF ConfirmTerra, ConfirmApprove, Typed, InHand, CardSteps
  <2> QED BY <1>3, <2>1, JournalEffect DEF ConfirmTerra, ConfirmApprove
<1>4. CASE Environment \/ UNCHANGED vars
  <2>1. UNCHANGED <<env, mem>>
    BY <1>4 DEF Environment, FirstPlan, RevisedPlan, OtherPlan, PublishPlan, Echo, Resolve, vars
  <2> QED BY <2>1 DEF JournalAdvances, Advances
<1>5. ~Start /\ ~StartCanonical /\ ~Return /\ ~Crash
  BY DEF Start, StartCanonical, Return, Crash, EndRun
<1>6. ASSUME Heartbeat \/ Failure, ~Rejected, ~LunaApproved, ~TerraApproved, ~ConfirmRequest,
             ~ConfirmTerra, ~ConfirmApprove
      PROVE  UNCHANGED env /\ mem'.journal = mem.journal
  BY <1>0, <1>5, <1>6
     DEF Heartbeat, Failure, Observe, ReadActivities, Recovery, RecoverPointer, KeepPointer,
       PendingRequest, NoPendingRequest, RequestFulfilled, RequestEchoed, RequestAwaited, Gate,
       NoPointer, HoldForWitness, RetireReplaced, CardLost, CardOverridden, CardAwaited,
       RevisionSteps, PrepareRequest, SendRequest, RecordRequest, TerraSteps, PostTerra,
       PointTerra, EnterTerraStage, ApprovalSteps, ApprovePlan, RecordApproved, LunaSteps,
       PlanNotDue, WaitForHuman, OpenReview, SaveDocument, PostLuna, SaveLuna, EnterLunaStage,
       YieldHeartbeat, RecoverUnavailable, CardMissing, RequestLost, Delivered, Goto, Save, Sessions
<1>7. ASSUME mem'.journal = mem.journal PROVE JournalAdvances(mem.journal, mem'.journal)
  BY <1>7 DEF JournalAdvances, Advances
<1> QED
  BY <1>1, <1>2, <1>3, <1>4, <1>6, <1>7 DEF Next

Agree(a, b) ==
  \A e \in EffectIds : a[e].kind = "confirmed" /\ b[e].kind = "confirmed" => a[e].receipt = b[e].receipt

ReceiptInv ==
  /\ pc = "idle" => Agree(env.journal, disk.journal)
  /\ pc # "idle" => JournalAdvances(env.journal, mem.journal)

(* The merge of two journals that agree is not behind the envelope. *)
LEMMA MergeAdvancesEnvelope ==
  ASSUME NEW a \in Journals, NEW b \in Journals, Agree(a, b)
  PROVE  JournalAdvances(a, MergeEffectJournals(a, b))
<1> SUFFICES ASSUME NEW e \in EffectIds PROVE Advances(a[e], MergeAttempt(a[e], b[e]))
  BY DEF JournalAdvances, MergeEffectJournals
<1>1. a[e] \in ValidAttempts /\ b[e] \in ValidAttempts
  BY DEF Journals
<1>2. CASE b[e].kind = "confirmed"
  BY <1>1, <1>2 DEF Agree, Advances, MergeAttempt, ValidAttempts, Absent, Started, Confirmed
<1>3. CASE b[e].kind = "started"
  BY <1>1, <1>3 DEF Advances, MergeAttempt, ValidAttempts, Absent, Started, Confirmed, MaxAttempts
<1>4. CASE b[e].kind = "absent"
  BY <1>4 DEF Advances, MergeAttempt
<1> QED BY <1>1, <1>2, <1>3, <1>4 DEF ValidAttempts, Absent, Started, Confirmed

(* Two journals that one journal has advanced beyond agree. *)
LEMMA AdvancedAgree ==
  ASSUME NEW a \in Journals, NEW b \in Journals, NEW j \in Journals,
         JournalAdvances(a, j), JournalAdvances(b, j)
  PROVE  Agree(a, b)
BY DEF JournalAdvances, Advances, Agree

(* Every step keeps the receipts in agreement. *)
LEMMA ReceiptStep ==
  ASSUME "canonical" \notin Faults, Typed, OnceInv, ReceiptInv, [Next]_vars
  PROVE  ReceiptInv'
<1>0. /\ env.journal \in Journals /\ disk.journal \in Journals /\ mem.journal \in Journals
      /\ env'.journal \in Journals /\ disk'.journal \in Journals /\ mem'.journal \in Journals
  <2>1. Typed'
    BY TypedStep
  <2> QED BY <2>1, JournalTypes DEF Typed, TypeOK, Sessions
<1>1. CASE pc # "idle" /\ pc' # "idle"
  <2>1. UNCHANGED env /\ JournalAdvances(mem.journal, mem'.journal)
    BY <1>1, JournalStep
  <2>2. JournalAdvances(env.journal, mem.journal)
    BY <1>1 DEF ReceiptInv
  <2>3. JournalAdvances(env.journal, mem'.journal)
    BY <1>0, <2>1, <2>2, JournalTrans
  <2> QED BY <1>1, <2>1, <2>3 DEF ReceiptInv
<1>2. CASE Start
  <2>1. /\ pc = "idle" /\ pc' = "observe" /\ UNCHANGED env
        /\ mem'.journal = MergeEffectJournals(env.journal, disk.journal)
    BY <1>2 DEF Start, MergeCheckpoints
  <2> QED BY <1>0, <2>1, MergeAdvancesEnvelope DEF ReceiptInv
<1>3. CASE Return \/ Crash
  <2>1. /\ pc # "idle" /\ pc' = "idle" /\ env' \in {env, mem} /\ UNCHANGED disk
    BY <1>3 DEF Return, Crash, EndRun
  <2>2. /\ JournalAdvances(env.journal, mem.journal) /\ JournalAdvances(disk.journal, mem.journal)
        /\ JournalAdvances(mem.journal, mem.journal)
    BY <2>1 DEF ReceiptInv, OnceInv, NeverBehind, JournalAdvances, Advances
  <2>3. Agree(env.journal, disk.journal) /\ Agree(mem.journal, disk.journal)
    BY <1>0, <2>2, AdvancedAgree
  <2> QED BY <2>1, <2>3 DEF ReceiptInv
<1>4. CASE Environment \/ UNCHANGED vars
  <2>1. UNCHANGED <<pc, disk, env, mem>>
    BY <1>4 DEF Environment, FirstPlan, RevisedPlan, OtherPlan, PublishPlan, Echo, Resolve, vars
  <2> QED BY <2>1 DEF ReceiptInv, Agree, JournalAdvances
<1>5. ~StartCanonical
  BY DEF StartCanonical, Fault
<1>6. ASSUME Heartbeat \/ Failure, ~Start, ~Return, ~Crash PROVE pc # "idle" /\ pc' # "idle"
  BY <1>5, <1>6
     DEF Heartbeat, Failure, Observe, ReadActivities, Recovery, RecoverPointer, KeepPointer,
       PendingRequest, NoPendingRequest, RequestFulfilled, RequestEchoed, RequestAwaited, Gate,
       NoPointer, HoldForWitness, RetireReplaced, CardLost, CardOverridden, CardAwaited, Rejected,
       LunaApproved, TerraApproved, Consulting, AtCard, Begin, RevisionSteps, PrepareRequest,
       SendRequest, RecordRequest, ConfirmRequest, TerraSteps, PostTerra, ConfirmTerra,
       PointTerra, EnterTerraStage, ApprovalSteps, ApprovePlan, ConfirmApprove, RecordApproved,
       LunaSteps, PlanNotDue, WaitForHuman, OpenReview, SaveDocument, PostLuna, SaveLuna,
       EnterLunaStage, YieldHeartbeat, RecoverUnavailable, CardMissing, RequestLost, Answer,
       Confirm, Goto, Save
<1> QED BY <1>1, <1>2, <1>3, <1>4, <1>6 DEF Next

(* The journals of the first start agree. *)
LEMMA ReceiptInit == Init => ReceiptInv
BY DEF Init, ReceiptInv, NewSession, Agree

(* A session whose revisions have at most MaxEffects effects never         *)
(* outgrows its journal: four for each revision of the plan.               *)
LEMMA JournalFits ==
  ASSUME 4 * MaxRevs <= MaxEffects, NEW j
  PROVE  Persistable(j)
<1> DEFINE Kinds == {"create_card", "approve_plan", "revise_luna", "revise_terra"}
<1>1. IsFiniteSet(Kinds) /\ Cardinality(Kinds) = 4
  <2>2. IsFiniteSet({"create_card"}) /\ Cardinality({"create_card"}) = 1
    BY FS_Singleton
  <2>3. IsFiniteSet({"create_card"} \cup {"approve_plan"})
        /\ Cardinality({"create_card"} \cup {"approve_plan"}) = 2
    BY <2>2, FS_AddElement
  <2>4. IsFiniteSet({"create_card"} \cup {"approve_plan"} \cup {"revise_luna"})
        /\ Cardinality({"create_card"} \cup {"approve_plan"} \cup {"revise_luna"}) = 3
    BY <2>3, FS_AddElement
  <2>5. IsFiniteSet({"create_card"} \cup {"approve_plan"} \cup {"revise_luna"} \cup {"revise_terra"})
        /\ Cardinality({"create_card"} \cup {"approve_plan"} \cup {"revise_luna"}
                         \cup {"revise_terra"}) = 4
    BY <2>4, FS_AddElement
  <2>6. Kinds = {"create_card"} \cup {"approve_plan"} \cup {"revise_luna"} \cup {"revise_terra"}
    OBVIOUS
  <2> QED BY <2>5, <2>6
<1>2. IsFiniteSet(Revs) /\ Cardinality(Revs) = MaxRevs
  BY FS_Interval, PlanReviewAssumption DEF Revs
<1>3. EffectIds = Kinds \X Revs
  BY DEF EffectIds
<1>4. IsFiniteSet(EffectIds) /\ Cardinality(EffectIds) = 4 * MaxRevs
  BY <1>1, <1>2, <1>3, FS_Product
<1>5. IsFiniteSet(Recorded(j)) /\ Cardinality(Recorded(j)) <= Cardinality(EffectIds)
  <2>1. Recorded(j) \in SUBSET EffectIds
    BY DEF Recorded
  <2> QED BY <1>4, <2>1, FS_Subset
<1>6. Cardinality(Recorded(j)) \in Nat /\ MaxEffects \in Nat /\ MaxRevs \in Nat
  BY <1>5, FS_CardinalityType, PlanReviewAssumption DEF MaxEffects
<1> QED BY <1>4, <1>5, <1>6 DEF Persistable

(* No two copies of the session know different plans as approved, and a    *)
(* copy that knows one is never merged with a card that could get another  *)
(* plan approved: the card is one of that plan, or it was superseded.      *)
Copies == {env, disk, mem}
Fits(p, c) == planOf[c.rev] = p \/ cards[<<c.rev, c.stage>>] = "superseded"
ApprovingSteps == {"approve", "confirm_approve", "record_approved"}

OneApproved ==
  /\ \A s, t \in Copies : s.approved = NoPlan \/ t.approved = NoPlan \/ s.approved = t.approved
  /\ \A s, t \in Copies : s.approved # NoPlan /\ t.card # NoCard => Fits(s.approved, t.card)
  /\ pc # "idle" /\ mem.approved = NoPlan => env.approved = NoPlan /\ disk.approved = NoPlan
  /\ \A s \in Copies : s.approved <= provider.plan
  /\ pc = "recover" => \A s \in Copies : s.approved <= snap.plan

(* The card in hand on the way to an approval or to a Terra card, and the  *)
(* plans of the revisions.                                                 *)
CardInHand ==
  /\ pc \in {"post_terra", "confirm_terra", "point_terra"} => cards[<<mem.card.rev, "luna">>] = "approved"
  /\ pc \in ApprovingSteps => BothApproved(mem.card.rev) /\ env.card.rev \in {0, mem.card.rev}
  /\ pc \in {"save_document", "post_luna", "save_luna"} => mem.approved = NoPlan
  /\ \A r \in Revs : r <= lastRev => planOf[r] # NoPlan
  /\ pc = "save_document" => target.plan # NoPlan

(* Every step keeps what is known of the card in hand. *)
LEMMA CardInHandStep ==
  ASSUME "canonical" \notin Faults, Typed, LadderInv, SameCard, CardInHand, [Next]_vars
  PROVE  CardInHand'
<1>0. /\ mem \in Sessions /\ lastRev \in Nat /\ \A r \in Revs : r \in Nat
      /\ cards \in [Cards -> {"absent", "pending"} \cup CardVerdicts]
      /\ \A r \in Revs : <<r, "luna">> \in Cards /\ <<r, "terra">> \in Cards
      /\ \A c \in Cards : cards[c] = "approved" => cards'[c] = "approved"
  BY PlanNumbers, VerdictsStay DEF Typed, TypeOK, Cards, Stages
<1>1. \A r \in Revs : r <= lastRev' => planOf'[r] # NoPlan
  <2>1. CASE SaveDocument
    <3>1. \A r \in Revs : r <= lastRev => planOf'[r] = planOf[r]
      BY PlansGrow
    <3>2. lastRev' \in {lastRev, lastRev + 1} /\ target.plan # NoPlan
          /\ planOf' = [planOf EXCEPT ![lastRev'] = target.plan]
      BY <2>1 DEF SaveDocument, CardInHand
    <3>3. lastRev' \in Revs => planOf'[lastRev'] = target.plan
      BY <3>2 DEF Typed, TypeOK
    <3> QED BY <1>0, <3>1, <3>2, <3>3 DEF CardInHand
  <2>2. CASE ~SaveDocument
    <3>1. UNCHANGED <<planOf, lastRev>>
      BY <2>2
       DEF Next, Environment, FirstPlan, RevisedPlan, OtherPlan, PublishPlan, Echo, Resolve,
         vars, Heartbeat, Failure, Start, Observe, ReadActivities, Recovery, RecoverPointer,
         KeepPointer, PendingRequest, NoPendingRequest, RequestFulfilled, RequestEchoed,
         RequestAwaited, Gate, NoPointer, HoldForWitness, RetireReplaced, CardLost,
         CardOverridden, CardAwaited, Rejected, LunaApproved, TerraApproved, Begin,
         RevisionSteps, PrepareRequest, SendRequest, RecordRequest, ConfirmRequest, TerraSteps,
         PostTerra, ConfirmTerra, PointTerra, EnterTerraStage, ApprovalSteps, ApprovePlan,
         ConfirmApprove, RecordApproved, LunaSteps, PlanNotDue, WaitForHuman, OpenReview, PostLuna,
         SaveLuna, EnterLunaStage, YieldHeartbeat, Return, StartCanonical, RecoverUnavailable,
         CardMissing, Crash, RequestLost, EndRun, Confirm, Goto, Save, remote
    <3> QED BY <3>1 DEF CardInHand
  <2> QED BY <2>1, <2>2
<1>2. CASE Gate
  <2>1. /\ pc = "gate" /\ UNCHANGED <<env, cards>>
        /\ pc' \in {"post_terra", "point_terra", "approve", "record_approved"} =>
             /\ mem.card # NoCard /\ mem'.card = mem.card /\ cards[Pointed] = "approved"
             /\ pc' \in {"post_terra", "point_terra"} => mem.card.stage = "luna"
             /\ pc' \in {"approve", "record_approved"} => mem.card.stage = "terra"
        /\ pc' \notin {"save_document", "post_luna", "save_luna", "confirm_terra", "confirm_approve"}
    BY <1>0, <1>2
     DEF Gate, NoPointer, HoldForWitness, RetireReplaced, CardLost, CardOverridden, CardAwaited,
       Rejected, LunaApproved, TerraApproved, Consulting, AtCard, VerdictApproves, Begin, Confirm,
       Goto, Save, remote, Sessions
  <2>2. mem.card # NoCard => mem.card.rev \in Revs
    BY CardType
  <2>3. mem.card # NoCard => env.card.rev \in {0, mem.card.rev}
    BY <2>1, <2>2, PlanNumbers DEF SameCard
  <2>4. pc' \in {"approve", "record_approved"} => BothApproved(mem.card.rev)
    BY <1>0, <2>1, <2>2 DEF Pointed, LadderInv, BothApproved
  <2>5. pc' \in {"post_terra", "point_terra"} => cards[<<mem.card.rev, "luna">>] = "approved"
    BY <2>1 DEF Pointed
  <2> QED BY <1>1, <2>1, <2>3, <2>4, <2>5 DEF CardInHand, ApprovingSteps, BothApproved
<1>3. CASE OpenReview
  <2>1. target'.plan # NoPlan
    BY <1>3, PlanNumbers DEF OpenReview, Placeholder, NoPlan
  <2>2. pc' = "save_document" /\ mem'.approved = NoPlan
    BY <1>0, <1>3 DEF OpenReview, SessionApproved, Sessions
  <2> QED BY <1>1, <2>1, <2>2 DEF CardInHand, ApprovingSteps
<1>4. CASE SaveDocument \/ PostLuna
  <2>1. /\ pc' \in {"post_luna", "save_luna", "yield"} /\ UNCHANGED mem
        /\ pc \in {"save_document", "post_luna"}
    BY <1>4 DEF SaveDocument, PostLuna, Answer
  <2> QED BY <1>1, <2>1 DEF CardInHand, ApprovingSteps
<1>5. CASE PostTerra \/ ConfirmTerra \/ ApprovePlan \/ ConfirmApprove
  <2>1. /\ mem'.card = mem.card /\ UNCHANGED env /\ mem.card.rev \in Revs
        /\ pc' \in {"confirm_terra", "point_terra", "confirm_approve", "record_approved", "yield"}
        /\ pc' \in {"confirm_terra", "point_terra"} => pc \in {"post_terra", "confirm_terra"}
        /\ pc' \in {"confirm_approve", "record_approved"} => pc \in {"approve", "confirm_approve"}
    BY <1>0, <1>5, CardType
       DEF PostTerra, ConfirmTerra, ApprovePlan, ConfirmApprove, Confirm, Save, Answer, Sessions,
           Typed, InHand, CardSteps
  <2> QED BY <1>0, <1>1, <2>1 DEF CardInHand, ApprovingSteps, BothApproved
<1>6. CASE Environment \/ UNCHANGED vars
  <2>1. UNCHANGED <<pc, env, mem, target>>
    BY <1>6 DEF Environment, FirstPlan, RevisedPlan, OtherPlan, PublishPlan, Echo, Resolve, vars
  <2>2. pc \in ApprovingSteps \cup {"post_terra", "confirm_terra", "point_terra"} => mem.card.rev \in Revs
    BY CardType DEF Typed, InHand, CardSteps, ApprovingSteps
  <2> QED BY <1>0, <1>1, <2>1, <2>2 DEF CardInHand, ApprovingSteps, BothApproved
<1>7. ASSUME Heartbeat \/ Failure, ~Gate, ~OpenReview, ~SaveDocument, ~PostLuna, ~PostTerra,
             ~ConfirmTerra, ~ApprovePlan, ~ConfirmApprove
      PROVE  pc' \notin ApprovingSteps \cup {"post_terra", "confirm_terra", "point_terra",
                                             "save_document", "post_luna", "save_luna"}
  BY <1>7
     DEF Heartbeat, Failure, Start, StartCanonical, Observe, ReadActivities, Recovery,
       RecoverPointer, KeepPointer, PendingRequest, NoPendingRequest, RequestFulfilled,
       RequestEchoed, RequestAwaited, RevisionSteps, PrepareRequest, SendRequest, RecordRequest,
       ConfirmRequest, TerraSteps, PointTerra, EnterTerraStage, ApprovalSteps, RecordApproved,
       LunaSteps, PlanNotDue, WaitForHuman, SaveLuna, EnterLunaStage, YieldHeartbeat, Return,
       Crash, EndRun, RecoverUnavailable, CardMissing, RequestLost, Answer, Confirm, Goto, Save,
       ApprovingSteps
<1> QED
  BY <1>1, <1>2, <1>3, <1>4, <1>5, <1>6, <1>7 DEF Next, CardInHand

FitsNext(p, c) == planOf'[c.rev] = p \/ cards'[<<c.rev, c.stage>>] = "superseded"

(* A step that makes no plan the approved one, and brings no card but one  *)
(* that fits what is known as approved.                                    *)
LEMMA ApprovedKept ==
  ASSUME Typed, OneApproved, [Next]_vars,
         UNCHANGED planOf \/ \A t \in Copies : t.approved = NoPlan,
         \A s \in Copies' : s.approved = NoPlan \/ \E t \in Copies : s.approved = t.approved,
         \A s \in Copies' : \/ s.card = NoCard \/ \E t \in Copies : s.card = t.card
                            \/ \A t \in Copies : t.approved # NoPlan => FitsNext(t.approved, s.card),
         pc' # "idle" /\ mem'.approved = NoPlan => env'.approved = NoPlan /\ disk'.approved = NoPlan,
         pc' = "recover" => \A s \in Copies' : s.approved <= snap'.plan
  PROVE  OneApproved'
<1>0. /\ \A s \in Copies : s \in Sessions
      /\ provider.plan \in Nat /\ provider'.plan \in Nat /\ provider'.plan >= provider.plan
  <2>1. Typed'
    BY TypedStep
  <2> QED BY <2>1, PlanNumbers, PlansGrow DEF Copies, Typed, TypeOK, Plans, NoPlan
<1>1. \A s, t \in Copies' : s.approved = NoPlan \/ t.approved = NoPlan \/ s.approved = t.approved
  BY DEF OneApproved
<1>2. \A s, t \in Copies' : s.approved # NoPlan /\ t.card # NoCard => Fits(s.approved, t.card)'
  <2>1. ASSUME NEW s \in Copies', NEW t \in Copies', s.approved # NoPlan, t.card # NoCard
        PROVE  Fits(s.approved, t.card)'
    <3>1. PICK q \in Copies : s.approved = q.approved
      BY <2>1
    <3>2. CASE \E u \in Copies : t.card = u.card
      <4>1. PICK u \in Copies : t.card = u.card
        BY <3>2
      <4>2. Fits(q.approved, u.card)
        BY <2>1, <3>1, <4>1 DEF OneApproved
      <4>3. <<u.card.rev, u.card.stage>> \in Cards
        BY <1>0, <2>1, <4>1 DEF Sessions, Pointers, Cards
      <4>4. cards[<<u.card.rev, u.card.stage>>] = "superseded"
              => cards'[<<u.card.rev, u.card.stage>>] = "superseded"
        BY <4>3, VerdictsStay
      <4>5. UNCHANGED planOf
        BY <2>1, <3>1
      <4> QED BY <3>1, <4>1, <4>2, <4>4, <4>5 DEF Fits
    <3>3. CASE \A u \in Copies : u.approved # NoPlan => FitsNext(u.approved, t.card)
      BY <2>1, <3>1, <3>3 DEF Fits, FitsNext
    <3> QED BY <2>1, <3>2, <3>3
  <2> QED BY <2>1
<1>3. \A s \in Copies' : s.approved <= provider'.plan
  <2>1. ASSUME NEW s \in Copies' PROVE s.approved <= provider'.plan
    <3>1. CASE s.approved = NoPlan
      BY <1>0, <3>1 DEF NoPlan
    <3>2. CASE \E t \in Copies : s.approved = t.approved
      <4>1. PICK t \in Copies : s.approved = t.approved
        BY <3>2
      <4>2. t.approved <= provider.plan /\ t.approved \in Nat
        BY <1>0, PlanReviewAssumption
           DEF OneApproved, Sessions, PlanIds, Plans, NoPlan, Placeholder
      <4> QED BY <1>0, <4>1, <4>2
    <3> QED BY <3>1, <3>2
  <2> QED BY <2>1
<1> QED BY <1>1, <1>2, <1>3 DEF OneApproved

(* A recovered card fits the approved plan: an answered card is recovered  *)
(* only while the first plan is the newest.                                *)
LEMMA RecoveredFits ==
  ASSUME Typed, OneApproved, ReviseInv, RecoverPointer
  PROVE  OneApproved'
<1>0. /\ mem \in Sessions /\ pc = "recover" /\ pc' = "request" /\ disk' = mem'
      /\ UNCHANGED <<env, planOf, cards>>
  BY PlanNumbers DEF RecoverPointer, Save, remote
<1>1. PICK c \in RecoverableCards : mem'.card = [rev |-> c[1], stage |-> c[2]]
                                    /\ mem'.approved = mem.approved
  BY <1>0 DEF RecoverPointer, Save, Sessions
<1>2. c \in Cards /\ c = <<c[1], c[2]>>
  BY DEF RecoverableCards, Cards
<1>3. ASSUME NEW t \in Copies, t.approved # NoPlan PROVE FitsNext(t.approved, mem'.card)
  <2>1. t.approved <= snap.plan /\ t.approved \in Nat
    BY <1>0, PlanNumbers, PlanReviewAssumption
       DEF OneApproved, Copies, Sessions, PlanIds, Plans, NoPlan, Placeholder
  <2>2. CASE snap.plan = 1
    BY <1>0, <1>1, <1>3, <2>1, <2>2 DEF RecoverableCards, NoPlan, FitsNext
  <2>3. CASE snap.plan # 1
    BY <1>0, <1>1, <1>2, <2>3 DEF RecoverableCards, FitsNext
  <2> QED BY <2>2, <2>3
<1>4. \A s \in Copies' : /\ \E t \in Copies : s.approved = t.approved
                         /\ s.card = mem'.card \/ \E t \in Copies : s.card = t.card
  BY <1>0, <1>1 DEF Copies
<1>5. [Next]_vars
  BY DEF Next, Heartbeat, Recovery
<1>6. mem'.approved = NoPlan => env'.approved = NoPlan /\ disk'.approved = NoPlan
  BY <1>0, <1>1 DEF OneApproved
<1>7. \A s \in Copies' : \/ s.card = NoCard \/ \E t \in Copies : s.card = t.card
                         \/ \A t \in Copies : t.approved # NoPlan => FitsNext(t.approved, s.card)
  BY <1>3, <1>4
<1> QED BY <1>0, <1>4, <1>5, <1>6, <1>7, ApprovedKept

(* The plan that is recorded as approved is the one that every copy knows  *)
(* as approved, if it knows one.                                           *)
LEMMA RecordedFits ==
  ASSUME Typed, ReviseInv, CardInHand, OneApproved, RecordApproved
  PROVE  OneApproved'
<1>0. /\ mem \in Sessions /\ env \in Sessions
      /\ pc = "record_approved" /\ pc' = "yield" /\ disk' = mem'
      /\ mem'.approved = PointedPlan /\ mem'.card = NoCard
      /\ UNCHANGED <<env, provider, planOf, cards>>
  BY PlanNumbers DEF RecordApproved, Save, remote, Sessions
<1>1. /\ mem.card # NoCard /\ mem.card.rev \in Revs /\ BothApproved(mem.card.rev)
      /\ cards[Pointed] = "approved" /\ env.card.rev \in {0, mem.card.rev}
  <2>1. mem.card # NoCard
    BY <1>0 DEF Typed, InHand, CardSteps
  <2>2. BothApproved(mem.card.rev) /\ env.card.rev \in {0, mem.card.rev}
    BY <1>0 DEF CardInHand, ApprovingSteps
  <2> QED BY <2>1, <2>2, CardType DEF BothApproved, Pointed, Stages
<1>2. PointedPlan # NoPlan /\ PointedPlan <= provider.plan
  <2>1. <<mem.card.rev, "luna">> \in Cards /\ <<mem.card.rev, "luna">>[1] = mem.card.rev
    BY <1>1 DEF Cards, Stages
  <2> QED BY <1>1, <2>1 DEF ReviseInv, PlanKnown, BothApproved, CardInHand, PointedPlan
<1>3. \A t \in Copies : t.approved \in {NoPlan, PointedPlan}
  BY <1>1 DEF OneApproved, Copies, Fits, Pointed, PointedPlan
<1>4. env.card # NoCard => FitsNext(PointedPlan, env.card)
  <2>1. env.card # NoCard => env.card.rev = mem.card.rev
    BY <1>0, <1>1, CardOfRevision
  <2> QED BY <1>0, <2>1 DEF FitsNext, PointedPlan
<1>5. \A s \in Copies' : /\ s.approved \in {NoPlan, PointedPlan}
                         /\ s.card # NoCard => FitsNext(PointedPlan, s.card)
  BY <1>0, <1>3, <1>4 DEF Copies
<1>6. \A s \in Copies' : s.approved <= provider'.plan
  BY <1>0, <1>2, <1>5, PlanNumbers DEF NoPlan
<1>7. \A s, t \in Copies' : s.approved # NoPlan /\ t.card # NoCard => Fits(s.approved, t.card)'
  BY <1>5 DEF Fits, FitsNext
<1> QED BY <1>0, <1>2, <1>5, <1>6, <1>7 DEF OneApproved

(* The steps that bring no card and no approval. *)
LEMMA ApprovedRoutine ==
  ASSUME Typed, OneApproved, [Next]_vars, pc # "idle", pc' \notin {"idle", "recover"},
         UNCHANGED env, disk' \in {disk, mem'}, mem'.approved = mem.approved,
         UNCHANGED planOf \/ mem.approved = NoPlan,
         \/ mem'.card \in {NoCard, mem.card}
         \/ \A t \in Copies : t.approved # NoPlan => FitsNext(t.approved, mem'.card)
  PROVE  OneApproved'
<1>1. mem.approved = NoPlan => env.approved = NoPlan /\ disk.approved = NoPlan
  BY DEF OneApproved
<1>2. UNCHANGED planOf \/ \A t \in Copies : t.approved = NoPlan
  BY <1>1 DEF Copies
<1>3. /\ \A s \in Copies' : \E t \in Copies : s.approved = t.approved
      /\ \A s \in Copies' : \/ s.card = NoCard \/ \E t \in Copies : s.card = t.card
                            \/ \A t \in Copies : t.approved # NoPlan => FitsNext(t.approved, s.card)
  BY DEF Copies
<1>4. mem'.approved = NoPlan => env'.approved = NoPlan /\ disk'.approved = NoPlan
  BY <1>1
<1> QED BY <1>2, <1>3, <1>4, ApprovedKept

(* Every step keeps the copies in agreement on the approved plan. *)
LEMMA OneApprovedStep ==
  ASSUME "canonical" \notin Faults, "activities" \notin Faults,
         Typed, ReviseInv, CardInHand, OneApproved, [Next]_vars
  PROVE  OneApproved'
<1>0. mem \in Sessions /\ disk \in Sessions /\ env \in Sessions
  BY PlanNumbers
<1>1. CASE Start
  <2>1. /\ pc = "idle" /\ pc' = "observe" /\ UNCHANGED <<disk, env, planOf>>
        /\ mem' = MergeCheckpoints(env, disk)
    BY <1>1 DEF Start, remote
  <2>2. /\ mem'.approved \in {env.approved, disk.approved}
        /\ mem'.card \in {env.card, disk.card}
        /\ mem'.approved = NoPlan => env.approved = NoPlan /\ disk.approved = NoPlan
    BY <2>1 DEF MergeCheckpoints, Or, ApprovedSource, HasConfirmedApproval
  <2>3. \A s \in Copies' : /\ \E t \in Copies : s.approved = t.approved
                           /\ \E t \in Copies : s.card = t.card
    BY <2>1, <2>2 DEF Copies
  <2> QED BY <2>1, <2>2, <2>3, ApprovedKept
<1>2. CASE Observe \/ ReadActivities
  <2>1. /\ pc # "idle" /\ pc' \in {"read", "recover"} /\ UNCHANGED <<disk, env, mem, planOf>>
        /\ pc' = "recover" => snap'.plan = provider.plan
    BY <1>2 DEF Observe, ReadActivities, Fault, Typed, TypeOK, remote
  <2>2. Copies' = Copies
    BY <2>1 DEF Copies
  <2>3. pc' = "recover" => \A s \in Copies' : s.approved <= snap'.plan
    BY <2>1, <2>2 DEF OneApproved
  <2>4. mem'.approved = NoPlan => env'.approved = NoPlan /\ disk'.approved = NoPlan
    BY <2>1 DEF OneApproved
  <2> QED BY <2>1, <2>2, <2>3, <2>4, ApprovedKept
<1>3. CASE RecoverPointer \/ RecordApproved
  BY <1>3, RecoveredFits, RecordedFits
<1>4. CASE Return \/ Crash
  <2>1. /\ pc' = "idle" /\ env' \in {env, mem} /\ mem' = NewSession /\ UNCHANGED <<disk, planOf>>
    BY <1>4 DEF Return, Crash, EndRun, remote
  <2>2. mem'.approved = NoPlan /\ mem'.card = NoCard
    BY <2>1 DEF NewSession
  <2>3. \A s \in Copies' : /\ s.approved = NoPlan \/ \E t \in Copies : s.approved = t.approved
                           /\ s.card = NoCard \/ \E t \in Copies : s.card = t.card
    BY <2>1, <2>2 DEF Copies
  <2> QED BY <2>1, <2>3, ApprovedKept
<1>5. CASE Environment \/ UNCHANGED vars
  <2>1. UNCHANGED <<pc, disk, env, mem, planOf, snap>>
    BY <1>5 DEF Environment, FirstPlan, RevisedPlan, OtherPlan, PublishPlan, Echo, Resolve, vars,
                remote
  <2>2. Copies' = Copies
    BY <2>1 DEF Copies
  <2>3. /\ pc' # "idle" /\ mem'.approved = NoPlan => env'.approved = NoPlan /\ disk'.approved = NoPlan
        /\ pc' = "recover" => \A s \in Copies' : s.approved <= snap'.plan
    BY <2>1, <2>2 DEF OneApproved
  <2> QED BY <2>1, <2>2, <2>3, ApprovedKept
<1>6. CASE SaveLuna \/ SaveDocument
  <2>1. /\ mem.approved = NoPlan /\ pc # "idle" /\ pc' \notin {"idle", "recover"}
        /\ UNCHANGED env /\ disk' \in {disk, mem'} /\ mem'.approved = mem.approved
        /\ SaveDocument => UNCHANGED mem
    BY <1>0, <1>6 DEF SaveLuna, SaveDocument, Save, Answer, CardInHand, Sessions
  <2>2. \A t \in Copies : t.approved = NoPlan
    BY <2>1 DEF OneApproved, Copies
  <2> QED BY <2>1, <2>2, ApprovedRoutine
<1>7. CASE PointTerra
  <2>1. /\ pc = "point_terra" /\ mem.card # NoCard
        /\ cards[<<mem.card.rev, "luna">>] = "approved"
    BY <1>7 DEF PointTerra, Typed, InHand, CardSteps, CardInHand
  <2>2. /\ pc' = "enter_terra" /\ disk' = mem' /\ mem'.approved = mem.approved
        /\ mem'.card.rev = mem.card.rev /\ mem'.card.stage = "terra"
        /\ UNCHANGED <<env, planOf, cards>>
    BY <1>0, <1>7, <2>1, CardType DEF PointTerra, Save, remote, Sessions, Pointers
  <2>3. ASSUME NEW t \in Copies, t.approved # NoPlan PROVE FitsNext(t.approved, mem'.card)
    <3>1. Fits(t.approved, mem.card)
      BY <2>1, <2>3 DEF OneApproved, Copies
    <3> QED BY <2>1, <2>2, <3>1, CardType DEF Fits, FitsNext, Stages
  <2> QED BY <2>1, <2>2, <2>3, ApprovedRoutine
<1>8. ~StartCanonical
  BY DEF StartCanonical, Fault
<1>9. ASSUME Heartbeat \/ Failure, ~Start, ~Observe, ~ReadActivities, ~RecoverPointer,
             ~RecordApproved, ~Return, ~Crash, ~SaveLuna, ~SaveDocument, ~PointTerra
      PROVE  OneApproved'
  <2>1. /\ pc # "idle" /\ pc' \notin {"idle", "recover"}
        /\ UNCHANGED <<env, planOf>> /\ disk' \in {disk, mem'}
        /\ mem'.approved = mem.approved /\ mem'.card \in {NoCard, mem.card}
    BY <1>0, <1>8, <1>9
       DEF Heartbeat, Failure, Recovery, KeepPointer, PendingRequest, NoPendingRequest,
         RequestFulfilled, RequestEchoed, RequestAwaited, Gate, NoPointer, HoldForWitness,
         RetireReplaced, CardLost, CardOverridden, CardAwaited, Rejected, LunaApproved,
         TerraApproved, Consulting, AtCard, Begin, RevisionSteps, PrepareRequest, SendRequest,
         RecordRequest, ConfirmRequest, TerraSteps, PostTerra, ConfirmTerra, EnterTerraStage,
         ApprovalSteps, ApprovePlan, ConfirmApprove, LunaSteps, PlanNotDue, WaitForHuman,
         OpenReview, PostLuna, EnterLunaStage, YieldHeartbeat, RecoverUnavailable, CardMissing,
         RequestLost, Delivered, Answer, Confirm, Goto, Save, remote, Sessions
  <2> QED BY <2>1, ApprovedRoutine
<1> QED
  BY <1>1, <1>2, <1>3, <1>4, <1>5, <1>6, <1>7, <1>8, <1>9 DEF Next

(* The envelope that is replayed to a run never contradicts the record the *)
(* run recovers: neither on a receipt nor on the approved plan, and the    *)
(* journal of a session of up to twelve revisions has room for both.       *)
THEOREM StartsWithoutConflict ==
  ASSUME "canonical" \notin Faults, "activities" \notin Faults, 4 * MaxRevs <= MaxEffects
  PROVE  Spec => []StartupNeverConflicts
<1>1. Typed /\ OnceInv /\ [Next]_vars => OnceInv'
  BY OnceStep
<1>2. Typed /\ LadderInv /\ ReviseInv /\ [Next]_vars => ReviseInv'
  BY ReviseStep
<1>3. Typed /\ OnceInv /\ ReceiptInv /\ [Next]_vars => ReceiptInv'
  BY ReceiptStep
<1>4. Typed /\ SameCard /\ [Next]_vars => SameCard'
  BY SameCardStep
<1>5. Typed /\ LadderInv /\ SameCard /\ CardInHand /\ [Next]_vars => CardInHand'
  BY CardInHandStep
<1>6. Typed /\ ReviseInv /\ CardInHand /\ OneApproved /\ [Next]_vars => OneApproved'
  BY OneApprovedStep
<1>7. Init => LadderInv /\ SameCard /\ CardInHand /\ OneApproved
  BY PlanReviewAssumption
     DEF Init, LadderInv, Cards, Stages, SameCard, CardInHand, OneApproved, ApprovingSteps, Copies,
         NewSession, NoPlan, Revs
<1>8. ReceiptInv /\ OneApproved => StartupNeverConflicts
  BY JournalFits
     DEF ReceiptInv, OneApproved, Copies, StartupNeverConflicts, CanStart, CanMerge, Agree,
         HasConfirmedApproval
<1> QED
  BY <1>1, <1>2, <1>3, <1>4, <1>5, <1>6, <1>7, <1>8, TypedInit, TypedStep, LadderStep, OnceInit,
     ReviseInit, ReceiptInit, PTL DEF Spec
=============================================================================
