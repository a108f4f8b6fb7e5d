------------------------------ MODULE PlanGate ------------------------------
(***************************************************************************)
(* What the native plan review promises, without runs, sessions, journals  *)
(* or checkpoints: every revision of the plan document climbs one ladder,  *)
(* Luna card, Luna approves, Terra card, Terra approves, one approvePlan   *)
(* call; and a card that ends without an approval asks Jules for a         *)
(* revision at most once, and not at all when it was cancelled by someone  *)
(* else than the adapter.  A card is a pair of a revision and a stage.     *)
(***************************************************************************)
EXTENDS Naturals

CONSTANTS Revs, Stages, Verdicts

VARIABLES cards, approvals, requests

gate == <<cards, approvals, requests>>

Cards == Revs \X Stages

Init ==
  /\ cards = [c \in Cards |-> "absent"]
  /\ approvals = [r \in Revs |-> 0]
  /\ requests = [c \in Cards |-> 0]

OpenLuna(r) ==
  /\ cards[<<r, "luna">>] = "absent"
  /\ cards' = [cards EXCEPT ![<<r, "luna">>] = "pending"]
  /\ UNCHANGED <<approvals, requests>>

OpenTerra(r) ==
  /\ cards[<<r, "luna">>] = "approved" /\ cards[<<r, "terra">>] = "absent"
  /\ cards' = [cards EXCEPT ![<<r, "terra">>] = "pending"]
  /\ UNCHANGED <<approvals, requests>>

Resolve(c, verdict) ==
  /\ cards[c] = "pending"
  /\ cards' = [cards EXCEPT ![c] = verdict]
  /\ UNCHANGED <<approvals, requests>>

Approve(r) ==
  /\ cards[<<r, "terra">>] = "approved" /\ approvals[r] = 0
  /\ approvals' = [approvals EXCEPT ![r] = 1]
  /\ UNCHANGED <<cards, requests>>

RequestRevision(c) ==
  /\ cards[c] \notin {"absent", "pending", "approved", "cancelled"} /\ requests[c] = 0
  /\ requests' = [requests EXCEPT ![c] = 1]
  /\ UNCHANGED <<cards, approvals>>

Next ==
  \/ \E r \in Revs : OpenLuna(r) \/ OpenTerra(r) \/ Approve(r)
  \/ \E c \in Cards : RequestRevision(c) \/ \E verdict \in Verdicts : Resolve(c, verdict)

Spec == Init /\ [][Next]_gate
=============================================================================
