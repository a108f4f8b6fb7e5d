--------------------------- MODULE EffectJournal ---------------------------
(***************************************************************************)
(* The durable journal of remote mutations of one Jules session            *)
(* (packages/jules/src/server/lifecycle-effect-journal.ts).  A journal     *)
(* maps every effect identity to its attempt: an identity the TypeScript   *)
(* array does not list is mapped to Absent.  Timestamps are left out, they *)
(* decide nothing here.  An operation of the source that throws is a pair  *)
(* of operators: CanX, the guard, and X, the journal it returns.           *)
(***************************************************************************)
EXTENDS Naturals, FiniteSets

CONSTANTS
  EffectIds,    \* the effect identities (effectId)
  KindOf,       \* [EffectIds -> kinds]: the kind an identity is begun with
  Receipts,     \* the receipts a remote operation can return
  NoReceipt,    \* no receipt recorded
  MaxEffects    \* the entries a persisted journal may hold: 50 in the source

MaxAttempts == 2    \* a started native card is retried at most once

Attempts ==
  [kind : {"absent", "started", "confirmed"}, tries : 0..MaxAttempts,
   receipt : Receipts \cup {NoReceipt}]

Absent == [kind |-> "absent", tries |-> 0, receipt |-> NoReceipt]
Started(n) == [kind |-> "started", tries |-> n, receipt |-> NoReceipt]
Confirmed(r) == [kind |-> "confirmed", tries |-> 0, receipt |-> r]

ValidAttempts ==
  {Absent} \cup {Started(n) : n \in 1..MaxAttempts} \cup {Confirmed(r) : r \in Receipts}

Journals == [EffectIds -> ValidAttempts]

EmptyJournal == [e \in EffectIds |-> Absent]

Recorded(j) == {e \in EffectIds : j[e].kind # "absent"}

(* The schema a journal must satisfy before it is written to disk. *)
Persistable(j) == Cardinality(Recorded(j)) <= MaxEffects

(* beginEffect: repeating a begun effect returns the journal it was given. *)
BeginEffect(j, e) ==
  IF j[e].kind # "absent" THEN j ELSE [j EXCEPT ![e] = Started(1)]

(* retryStartedEffect: only a started native card, and only once. *)
CanRetry(j, e) ==
  KindOf[e] = "create_card" /\ j[e].kind = "started" /\ j[e].tries < MaxAttempts
RetryStartedEffect(j, e) == [j EXCEPT ![e] = Started(j[e].tries + 1)]

(* confirmEffect: throws on an unknown effect and on a second, different receipt. *)
CanConfirm(j, e, r) ==
  j[e].kind = "started" \/ (j[e].kind = "confirmed" /\ j[e].receipt = r)
ConfirmEffect(j, e, r) == [j EXCEPT ![e] = Confirmed(r)]

(* Mutants: the envelope wins between two started attempts, and always. *)
MergePrefersEnvelope(replayed, recovered) ==
  IF \/ replayed.kind = "absent"
     \/ recovered.kind = "confirmed"
  THEN recovered ELSE replayed
MergeTrustsEnvelope(replayed, recovered) ==
  IF replayed.kind = "absent" THEN recovered ELSE replayed
(* mergeEffectJournals, entry by entry: replayed is the runtime envelope,  *)
(* recovered the disk checkpoint.  The envelope's attempt is kept only     *)
(* where the checkpoint has none or an earlier one.                        *)
MergeAttempt(replayed, recovered) ==
  IF \/ recovered.kind = "absent"
     \/ recovered.kind = "started" /\ replayed.kind = "confirmed"
     \/ recovered.kind = "started" /\ replayed.kind = "started"
          /\ replayed.tries > recovered.tries
  THEN replayed ELSE recovered

MergeEffectJournals(replayed, recovered) ==
  [e \in EffectIds |-> MergeAttempt(replayed[e], recovered[e])]

(* The merge throws on two receipts for one effect and on too many entries. *)
CanMerge(replayed, recovered) ==
  /\ \A e \in EffectIds :
       replayed[e].kind = "confirmed" /\ recovered[e].kind = "confirmed"
         => replayed[e].receipt = recovered[e].receipt
  /\ Persistable(MergeEffectJournals(replayed, recovered))

(* classifyInterruptedEffect *)
ClassifyInterruptedEffect(j, e) ==
  CASE j[e].kind = "absent" -> "execute"
    [] j[e].kind = "started" -> "reconcile"
    [] OTHER -> "observe"

(* An attempt that a later journal may replace another one by. *)
Advances(old, new) ==
  \/ new = old
  \/ old.kind = "absent"
  \/ old.kind = "started" /\ new.kind = "confirmed"
  \/ old.kind = "started" /\ new.kind = "started" /\ new.tries > old.tries

JournalAdvances(old, new) == \A e \in EffectIds : Advances(old[e], new[e])
=============================================================================
