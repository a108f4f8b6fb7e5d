-------------------------- MODULE MCJournalReplica --------------------------
(* JournalReplica with one effect of each kind that differs in its retry:  *)
(* a native card, a plan approval and a provider message.                  *)
EXTENDS Naturals

CONSTANTS EffectIds, KindOf, Receipts, NoReceipt, MaxEffects

\* A missing receipt is none of the receipts.
ASSUME JournalAssumption == NoReceipt \notin Receipts /\ MaxEffects \in Nat

VARIABLES disk, env, mem, pc, effect, calls

J == INSTANCE JournalReplica

JournalSpec == J!Spec

-----------------------------------------------------------------------------
\* See JournalReplica: no effect is called again, a native card once at most.
CallsBounded == J!CallsBounded

\* See JournalReplica: the record lists every call that was made.
CallsRecorded == J!CallsRecorded

\* See JournalReplica: every run can start.
RecordAlwaysLoads == J!RecordAlwaysLoads

\* See JournalReplica: the record loses nothing.
RecordOnlyAdvances == J!RecordOnlyAdvances

-----------------------------------------------------------------------------
CONSTANTS nativeCard, planApproval, providerMessage

MCEffectIds == {nativeCard, planApproval, providerMessage}
MCKindOf ==
  [e \in MCEffectIds |-> CASE e = nativeCard -> "create_card"
                           [] e = planApproval -> "approve_plan"
                           [] OTHER -> "send_provider_message"]
=============================================================================
