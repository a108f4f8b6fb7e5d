--------------------------- MODULE JournalReplica ---------------------------
(***************************************************************************)
(* The write-ahead protocol around one Jules session, whatever the effect: *)
(* executeJournaledNativePlanEffect and reconcileNativePlanEffect of       *)
(* lifecycle-runner.ts, and the two senders of provider messages that      *)
(* follow the same order (question-answer-delivery.ts,                     *)
(* required-pr-recovery.ts).                                               *)
(*                                                                         *)
(* The journal has three copies: mem, of the run in progress; disk, the    *)
(* recovery record; env, the envelope of the last run that returned, which *)
(* Paperclip replays to the next one.  A run may die anywhere and a write  *)
(* of the record may fail; Paperclip runs one heartbeat of an issue at a   *)
(* time.                                                                   *)
(*                                                                         *)
(* What the remote side really did is not a part of this module: evidence  *)
(* may confirm an effect that never took place, or show a card absent that *)
(* exists, and the promises below hold all the same.  How evidence is      *)
(* classified, and that it proves what it confirms, is the subject of      *)
(* NativePlanReview.                                                       *)
(***************************************************************************)
EXTENDS EffectJournal

VARIABLES
  disk, env, mem,   \* the three copies of the journal
  pc,               \* where the run is: no run is active when "idle"
  effect,           \* the effect in hand
  calls             \* remote calls made so far, by effect

vars == <<disk, env, mem, pc, effect, calls>>

Steps == {"idle", "running", "persist", "call", "confirm", "persist_receipt", "yield"}

TypeOK ==
  /\ disk \in Journals /\ env \in Journals /\ mem \in Journals
  /\ pc \in Steps
  /\ effect \in EffectIds
  /\ calls \in [EffectIds -> Nat]

Init ==
  /\ disk = EmptyJournal /\ env = EmptyJournal /\ mem = EmptyJournal
  /\ pc = "idle"
  /\ effect \in EffectIds
  /\ calls = [e \in EffectIds |-> 0]

(* Startup: the envelope is merged with the recovery record. *)
Wake ==
  /\ pc = "idle" /\ CanMerge(env, disk)
  /\ mem' = MergeEffectJournals(env, disk)
  /\ pc' = "running"
  /\ UNCHANGED <<disk, env, effect, calls>>

(* Mutant: the call goes out before the record is written. *)
ExecuteUnrecorded(e) ==
  /\ pc = "running" /\ ClassifyInterruptedEffect(mem, e) = "execute"
  /\ mem' = BeginEffect(mem, e)
  /\ effect' = e /\ pc' = "call"
  /\ UNCHANGED <<disk, env, calls>>
(* A new effect is begun in memory, then persisted, then called. *)
Execute(e) ==
  /\ pc = "running" /\ ClassifyInterruptedEffect(mem, e) = "execute"
  /\ mem' = BeginEffect(mem, e)
  /\ effect' = e /\ pc' = "persist"
  /\ UNCHANGED <<disk, env, calls>>

(* An interrupted effect: what is read of the remote side confirms it, and *)
(* the receipt is taken from there ...                                     *)
Observe(e) ==
  /\ pc = "running" /\ ClassifyInterruptedEffect(mem, e) = "reconcile"
  /\ \E r \in Receipts : mem' = ConfirmEffect(mem, e, r)
  /\ effect' = e /\ pc' = "persist_receipt"
  /\ UNCHANGED <<disk, env, calls>>

(* ... or shows a native card absent, which is then retried. *)
Retry(e) ==
  /\ pc = "running" /\ ClassifyInterruptedEffect(mem, e) = "reconcile"
  /\ CanRetry(mem, e)
  /\ mem' = RetryStartedEffect(mem, e)
  /\ effect' = e /\ pc' = "persist"
  /\ UNCHANGED <<disk, env, calls>>

(* Mutant: the record is written without the schema. *)
PersistUnchecked ==
  /\ pc = "persist"
  /\ disk' = mem /\ pc' = "call"
  /\ UNCHANGED <<env, mem, effect, calls>>
(* saveStoredSession: the call goes out only after the record is written. *)
Persist ==
  /\ pc = "persist" /\ Persistable(mem)
  /\ disk' = mem /\ pc' = "call"
  /\ UNCHANGED <<env, mem, effect, calls>>

(* The call answers, or the error ends the run. *)
Call ==
  /\ pc = "call"
  /\ calls' = [calls EXCEPT ![effect] = @ + 1]
  /\ pc' \in {"confirm", "yield"}
  /\ UNCHANGED <<disk, env, mem, effect>>

Confirm ==
  /\ pc = "confirm"
  /\ \E r \in Receipts : CanConfirm(mem, effect, r) /\ mem' = ConfirmEffect(mem, effect, r)
  /\ pc' = "persist_receipt"
  /\ UNCHANGED <<disk, env, effect, calls>>

PersistReceipt ==
  /\ pc = "persist_receipt" /\ Persistable(mem)
  /\ disk' = mem /\ pc' \in {"running", "yield"}
  /\ UNCHANGED <<env, mem, effect, calls>>

(* A write that fails, or a journal over its limit: the error ends the run. *)
PersistFails ==
  /\ pc \in {"persist", "persist_receipt"}
  /\ pc' = "yield"
  /\ UNCHANGED <<disk, env, mem, effect, calls>>

(* Nothing to do, or evidence that has not arrived yet. *)
Defer ==
  /\ pc = "running"
  /\ pc' = "yield"
  /\ UNCHANGED <<disk, env, mem, effect, calls>>

(* yieldHeartbeat: the record is written at best effort, the run returns. *)
Return ==
  /\ pc = "yield" /\ Persistable(mem)
  /\ disk' \in {disk, mem} /\ env' = mem
  /\ mem' = EmptyJournal /\ pc' = "idle"
  /\ UNCHANGED <<effect, calls>>

(* The run dies, or its session cannot be serialized for its result. *)
Crash ==
  /\ pc # "idle"
  /\ mem' = EmptyJournal /\ pc' = "idle"
  /\ UNCHANGED <<disk, env, effect, calls>>

Next ==
  \/ Wake \/ (\E e \in EffectIds : Execute(e) \/ Observe(e) \/ Retry(e))
  \/ Persist \/ Call \/ Confirm \/ PersistReceipt \/ PersistFails
  \/ Defer \/ Return \/ Crash

Spec == Init /\ [][Next]_vars

-----------------------------------------------------------------------------
(* An effect is called once, a native card at most twice: never again      *)
(* after a crash, a failed write or the replay of an older envelope.       *)
CallsBounded ==
  \A e \in EffectIds : calls[e] <= IF KindOf[e] = "create_card" THEN MaxAttempts ELSE 1

(* Every call that was made is on record: recovery can ask about it.       *)
CallsRecorded == \A e \in EffectIds : calls[e] > 0 => e \in Recorded(disk)

(* The record is always one its own schema accepts, and a replayed         *)
(* envelope never conflicts with it, so that every run can start.          *)
RecordAlwaysLoads == Persistable(disk) /\ (pc = "idle" => CanMerge(env, disk))

(* The record only advances: an attempt is never lost, a retry never       *)
(* counted back, a receipt never replaced.                                 *)
RecordOnlyAdvances == [][JournalAdvances(disk, disk')]_vars
=============================================================================
