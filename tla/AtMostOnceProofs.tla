--------------------------- MODULE AtMostOnceProofs ---------------------------
(***************************************************************************)
(* What is done once whatever is lost, repeated or restarted: the remote   *)
(* calls of the journal, the cards and replies of the Telegram companion   *)
(* and the issues of the backlog, for every set of effects, approvals and  *)
(* projects and every bound.  The three share no state; the arguments are  *)
(* alike: what happened is paid for by something that is counted.          *)
(*                                                                         *)
(* The journal: calls are paid for by the record on disk.  Every attempt   *)
(* allows a number of calls (Paid); the record in hand is never behind the *)
(* record on disk (NeverBehind), a merge never goes behind it either, and  *)
(* an effect in the phases up to its call has one call left.               *)
(*                                                                         *)
(* The Telegram companion: every copy of a card is paid for.  A card is    *)
(* sent for an approval that is not among the announced ones, and whatever *)
(* forgets that it was sent, a restart or a lost response, is counted      *)
(* (CopiesCounted).  A reply is forwarded from the place of the update     *)
(* loop, which passes it first (RepliesCounted).  A card only tells what   *)
(* Paperclip decided before, and a decision is final.                      *)
(*                                                                         *)
(* The intake: the issues that are or may come alive again are counted     *)
(* together with the lanes that are about to create one (IssuesCounted).   *)
(* A lane that holds an issue can revive it after a person cancelled it,   *)
(* so the issues in hand count too.                                        *)
(***************************************************************************)
EXTENDS MCJournalReplica, MCCompanions, FiniteSetTheorems, WellFoundedInduction, TLAPS

-----------------------------------------------------------------------------
(* 1. The operators of the journal: they return journals, they only        *)
(* advance what they are given, and a merge advances the recovered record. *)

(* Every valid attempt is of one of three shapes.                          *)
LEMMA AttemptShape ==
  ASSUME NEW a \in J!ValidAttempts
  PROVE  \/ a = J!Absent
         \/ a = J!Started(1)
         \/ a = J!Started(2)
         \/ \E r \in Receipts : a = J!Confirmed(r)
BY DEF J!ValidAttempts, J!MaxAttempts

(* The shapes are told apart by their kind.                                *)
LEMMA AttemptKinds ==
  ASSUME NEW a \in J!ValidAttempts
  PROVE  /\ a.kind = "absent" <=> a = J!Absent
         /\ a.kind = "started" <=> a \in {J!Started(1), J!Started(2)}
         /\ a.kind = "started" => a.tries \in 1..2 /\ a = J!Started(a.tries)
         /\ a.kind = "confirmed" => a.receipt \in Receipts /\ a = J!Confirmed(a.receipt)
BY AttemptShape DEF J!Absent, J!Started, J!Confirmed

(* A journal's entries are valid attempts.                                 *)
LEMMA EntryType ==
  ASSUME NEW j \in J!Journals, NEW e \in EffectIds
  PROVE  j[e] \in J!ValidAttempts
BY DEF J!Journals

(* Each operation returns a journal.                                       *)
LEMMA EmptyType == J!EmptyJournal \in J!Journals
BY DEF J!EmptyJournal, J!Journals, J!ValidAttempts

(* beginEffect returns a journal. *)
LEMMA BeginType ==
  ASSUME NEW j \in J!Journals, NEW e \in EffectIds
  PROVE  J!BeginEffect(j, e) \in J!Journals
BY DEF J!BeginEffect, J!Journals, J!ValidAttempts, J!MaxAttempts

(* retryStartedEffect returns a journal: the second attempt is the last. *)
LEMMA RetryType ==
  ASSUME NEW j \in J!Journals, NEW e \in EffectIds, J!CanRetry(j, e)
  PROVE  J!RetryStartedEffect(j, e) \in J!Journals
<1>1. j[e].tries + 1 \in 1..J!MaxAttempts
  BY EntryType, AttemptKinds DEF J!CanRetry, J!MaxAttempts
<1>2. J!Started(j[e].tries + 1) \in J!ValidAttempts
  BY <1>1 DEF J!ValidAttempts
<1> QED BY <1>2 DEF J!RetryStartedEffect, J!Journals

(* confirmEffect returns a journal. *)
LEMMA ConfirmType ==
  ASSUME NEW j \in J!Journals, NEW e \in EffectIds, NEW r \in Receipts
  PROVE  J!ConfirmEffect(j, e, r) \in J!Journals
BY DEF J!ConfirmEffect, J!Journals, J!ValidAttempts

(* The merge of two attempts is one of them, and it advances the recovered *)
(* one: an older envelope never takes an attempt or a receipt away.        *)
LEMMA MergeAttemptAdvances ==
  ASSUME NEW a \in J!ValidAttempts, NEW b \in J!ValidAttempts
  PROVE  /\ J!MergeAttempt(a, b) \in {a, b}
         /\ J!Advances(b, J!MergeAttempt(a, b))
<1>1. CASE b.kind = "absent"
  BY <1>1 DEF J!MergeAttempt, J!Advances
<1>2. CASE b.kind # "absent" /\ a.kind = "absent"
  BY <1>2 DEF J!MergeAttempt, J!Advances
<1>3. CASE b.kind = "confirmed" /\ a.kind # "absent"
  BY <1>3 DEF J!MergeAttempt, J!Advances
<1>4. CASE b.kind = "started" /\ a.kind = "confirmed"
  BY <1>4 DEF J!MergeAttempt, J!Advances
<1>5. CASE b.kind = "started" /\ a.kind = "started"
  BY <1>5, AttemptKinds DEF J!MergeAttempt, J!Advances
<1> QED BY <1>1, <1>2, <1>3, <1>4, <1>5, AttemptShape DEF J!Absent, J!Started, J!Confirmed

(* The merge is a journal, and never behind the recovered checkpoint. *)
LEMMA MergeType ==
  ASSUME NEW a \in J!Journals, NEW b \in J!Journals
  PROVE  /\ J!MergeEffectJournals(a, b) \in J!Journals
         /\ J!JournalAdvances(b, J!MergeEffectJournals(a, b))
         /\ \A e \in EffectIds : J!MergeEffectJournals(a, b)[e] \in {a[e], b[e]}
<1> SUFFICES ASSUME NEW e \in EffectIds
             PROVE  /\ J!MergeAttempt(a[e], b[e]) \in {a[e], b[e]}
                    /\ J!MergeAttempt(a[e], b[e]) \in J!ValidAttempts
                    /\ J!Advances(b[e], J!MergeAttempt(a[e], b[e]))
  BY DEF J!MergeEffectJournals, J!Journals, J!JournalAdvances
<1> QED BY EntryType, MergeAttemptAdvances

(* The merge lists the effects that one of the two lists.                  *)
LEMMA MergeRecords ==
  ASSUME NEW a \in J!Journals, NEW b \in J!Journals
  PROVE  J!Recorded(J!MergeEffectJournals(a, b)) = J!Recorded(a) \cup J!Recorded(b)
<1>1. ASSUME NEW e \in EffectIds
      PROVE  J!MergeAttempt(a[e], b[e]).kind # "absent"
               <=> a[e].kind # "absent" \/ b[e].kind # "absent"
  BY EntryType, AttemptShape DEF J!MergeAttempt, J!Absent, J!Started, J!Confirmed
<1> QED BY <1>1 DEF J!Recorded, J!MergeEffectJournals

(* Advancing is reflexive and transitive, and each operation advances the  *)
(* journal it is given.                                                    *)
LEMMA AdvancesRefl == ASSUME NEW j PROVE J!JournalAdvances(j, j)
BY DEF J!JournalAdvances, J!Advances

(* Advancing is transitive. *)
LEMMA AdvancesTrans ==
  ASSUME NEW i \in J!Journals, NEW j \in J!Journals, NEW k \in J!Journals,
         J!JournalAdvances(i, j), J!JournalAdvances(j, k)
  PROVE  J!JournalAdvances(i, k)
<1> SUFFICES ASSUME NEW e \in EffectIds PROVE J!Advances(i[e], k[e])
  BY DEF J!JournalAdvances
<1>1. J!Advances(i[e], j[e]) /\ J!Advances(j[e], k[e])
  BY DEF J!JournalAdvances
<1>2. i[e] \in J!ValidAttempts /\ j[e] \in J!ValidAttempts /\ k[e] \in J!ValidAttempts
  BY EntryType
<1> QED BY <1>1, <1>2, AttemptKinds DEF J!Advances

(* beginEffect adds an entry or leaves the journal alone. *)
LEMMA BeginAdvances ==
  ASSUME NEW j \in J!Journals, NEW e \in EffectIds
  PROVE  J!JournalAdvances(j, J!BeginEffect(j, e))
BY DEF J!JournalAdvances, J!Advances, J!BeginEffect, J!Journals

(* A retry counts one attempt more. *)
LEMMA RetryAdvances ==
  ASSUME NEW j \in J!Journals, NEW e \in EffectIds, J!CanRetry(j, e)
  PROVE  J!JournalAdvances(j, J!RetryStartedEffect(j, e))
<1>1. j[e].kind = "started" /\ j[e].tries \in 1..2
  BY EntryType, AttemptKinds DEF J!CanRetry
<1> QED BY <1>1 DEF J!JournalAdvances, J!Advances, J!RetryStartedEffect, J!Started, J!Journals

(* A confirmation replaces a started attempt, or repeats its receipt. *)
LEMMA ConfirmAdvances ==
  ASSUME NEW j \in J!Journals, NEW e \in EffectIds, NEW r \in Receipts, J!CanConfirm(j, e, r)
  PROVE  J!JournalAdvances(j, J!ConfirmEffect(j, e, r))
<1>1. CASE j[e].kind = "started"
  BY <1>1 DEF J!JournalAdvances, J!Advances, J!ConfirmEffect, J!Confirmed, J!Journals
<1>2. CASE j[e].kind = "confirmed" /\ j[e].receipt = r
  <2>1. j[e] = J!Confirmed(r)
    BY <1>2, EntryType, AttemptKinds
  <2> QED BY <2>1 DEF J!JournalAdvances, J!Advances, J!ConfirmEffect, J!Journals
<1> QED BY <1>1, <1>2 DEF J!CanConfirm

(* An advance lists every effect the older journal lists.                  *)
LEMMA AdvancesRecords ==
  ASSUME NEW i \in J!Journals, NEW j \in J!Journals, J!JournalAdvances(i, j)
  PROVE  J!Recorded(i) \subseteq J!Recorded(j)
<1> SUFFICES ASSUME NEW e \in EffectIds, i[e].kind # "absent" PROVE j[e].kind # "absent"
  BY DEF J!Recorded
<1>1. J!Advances(i[e], j[e])
  BY DEF J!JournalAdvances
<1> QED BY <1>1 DEF J!Advances

-----------------------------------------------------------------------------
(* 2. The protocol of the journal.                                         *)

(* The calls that an attempt of the effect e allows for.                   *)
Limit(e) == IF KindOf[e] = "create_card" THEN J!MaxAttempts ELSE 1
Paid(e, a) ==
  IF a.kind = "absent" THEN 0 ELSE IF a.kind = "started" THEN a.tries ELSE Limit(e)

WithinLimit(j) == \A e \in EffectIds : Paid(e, j[e]) <= Limit(e)

(* The strengthening of the safety properties that every step preserves.   *)
Limited == WithinLimit(disk) /\ WithinLimit(env) /\ WithinLimit(mem)
PaidFor == \A e \in EffectIds : calls[e] <= Paid(e, disk[e])
NeverBehind == pc # "idle" => J!JournalAdvances(disk, mem)
OneCallLeft == pc \in {"persist", "call"} => calls[effect] < Paid(effect, mem[effect])
Written == pc \in {"call", "confirm"} => disk = mem
CallsInv == Limited /\ PaidFor /\ NeverBehind /\ OneCallLeft /\ Written

Typed == J!TypeOK

(* What an attempt pays for, and what an effect may pay, are counts. *)
LEMMA PaidNat ==
  ASSUME NEW e \in EffectIds, NEW a \in J!ValidAttempts
  PROVE  Paid(e, a) \in Nat /\ Limit(e) \in {1, 2}
BY AttemptShape DEF Paid, Limit, J!MaxAttempts, J!Absent, J!Started, J!Confirmed

(* A later attempt allows for at least as many calls.                      *)
LEMMA PaidGrows ==
  ASSUME NEW i \in J!Journals, NEW j \in J!Journals, NEW e \in EffectIds,
         J!JournalAdvances(i, j), WithinLimit(i)
  PROVE  Paid(e, i[e]) <= Paid(e, j[e])
<1>1. J!Advances(i[e], j[e])
  BY DEF J!JournalAdvances
<1>2. i[e] \in J!ValidAttempts /\ j[e] \in J!ValidAttempts
  BY EntryType
<1>3. Paid(e, i[e]) \in Nat /\ Paid(e, j[e]) \in Nat /\ Paid(e, i[e]) <= Limit(e)
  BY <1>2, PaidNat DEF WithinLimit
<1>4. CASE i[e] = j[e]
  BY <1>3, <1>4
<1>5. CASE i[e].kind = "absent"
  BY <1>3, <1>5 DEF Paid
<1>6. CASE i[e].kind = "started" /\ j[e].kind = "confirmed"
  BY <1>3, <1>6 DEF Paid
<1>7. CASE i[e].kind = "started" /\ j[e].kind = "started" /\ j[e].tries > i[e].tries
  BY <1>2, <1>7, AttemptKinds DEF Paid
<1> QED BY <1>1, <1>4, <1>5, <1>6, <1>7 DEF J!Advances

(* A begun effect is within its limit of calls. *)
LEMMA BeginLimit ==
  ASSUME NEW j \in J!Journals, WithinLimit(j), NEW e \in EffectIds
  PROVE  WithinLimit(J!BeginEffect(j, e))
<1>1. Paid(e, J!Started(1)) <= Limit(e)
  BY DEF Paid, Limit, J!Started, J!MaxAttempts
<1> QED BY <1>1 DEF WithinLimit, J!BeginEffect, J!Journals

(* So is a retried native card. *)
LEMMA RetryLimit ==
  ASSUME NEW j \in J!Journals, WithinLimit(j), NEW e \in EffectIds, J!CanRetry(j, e)
  PROVE  WithinLimit(J!RetryStartedEffect(j, e))
<1>1. j[e].tries \in 1..2 /\ j[e].tries < J!MaxAttempts /\ Limit(e) = J!MaxAttempts
  BY EntryType, AttemptKinds DEF J!CanRetry, Limit
<1>2. Paid(e, J!Started(j[e].tries + 1)) <= Limit(e)
  BY <1>1 DEF Paid, J!Started, J!MaxAttempts
<1> QED BY <1>2 DEF WithinLimit, J!RetryStartedEffect, J!Journals

(* And an effect that was confirmed. *)
LEMMA ConfirmLimit ==
  ASSUME NEW j \in J!Journals, WithinLimit(j), NEW e \in EffectIds, NEW r \in Receipts
  PROVE  WithinLimit(J!ConfirmEffect(j, e, r))
<1>1. Paid(e, J!Confirmed(r)) <= Limit(e)
  BY DEF Paid, Limit, J!Confirmed, J!MaxAttempts
<1> QED BY <1>1 DEF WithinLimit, J!ConfirmEffect, J!Journals

(* The journal of a new session pays for no call. *)
LEMMA EmptyLimit == WithinLimit(J!EmptyJournal)
BY DEF WithinLimit, J!EmptyJournal, Paid, J!Absent, Limit, J!MaxAttempts

-----------------------------------------------------------------------------
(* The types hold initially. *)
LEMMA TypedInit == J!Init => Typed
BY EmptyType DEF J!Init, Typed, J!TypeOK, J!Steps

(* Every step keeps the types. *)
LEMMA TypedStep == Typed /\ [J!Next]_(J!vars) => Typed'
<1> SUFFICES ASSUME Typed, [J!Next]_(J!vars) PROVE Typed'
  OBVIOUS
<1> USE DEF Typed, J!TypeOK, J!Steps
<1>1. CASE J!Wake
  BY <1>1, MergeType DEF J!Wake
<1>2. ASSUME NEW e \in EffectIds, J!Execute(e) PROVE Typed'
  BY <1>2, BeginType DEF J!Execute
<1>3. ASSUME NEW e \in EffectIds, J!Observe(e) PROVE Typed'
  BY <1>3, ConfirmType DEF J!Observe
<1>4. ASSUME NEW e \in EffectIds, J!Retry(e) PROVE Typed'
  BY <1>4, RetryType DEF J!Retry
<1>5. CASE J!Persist
  BY <1>5 DEF J!Persist
<1>6. CASE J!Call
  BY <1>6 DEF J!Call
<1>7. CASE J!Confirm
  BY <1>7, ConfirmType DEF J!Confirm
<1>8. CASE J!PersistReceipt
  BY <1>8 DEF J!PersistReceipt
<1>9. CASE J!PersistFails \/ J!Defer
  BY <1>9 DEF J!PersistFails, J!Defer
<1>10. CASE J!Return
  BY <1>10, EmptyType DEF J!Return
<1>11. CASE J!Crash
  BY <1>11, EmptyType DEF J!Crash
<1>12. CASE UNCHANGED J!vars
  BY <1>12 DEF J!vars
<1> QED
  BY <1>1, <1>2, <1>3, <1>4, <1>5, <1>6, <1>7, <1>8, <1>9, <1>10, <1>11, <1>12 DEF J!Next

(* The variables keep their types, whatever is lost or fails.              *)
THEOREM JournalTypeCorrect == JournalSpec => []J!TypeOK
<1>1. Typed => J!TypeOK
  BY DEF Typed
<1> QED BY <1>1, TypedInit, TypedStep, PTL DEF JournalSpec, J!Spec

-----------------------------------------------------------------------------
(* Nothing is called before the first run. *)
LEMMA CallsInit == J!Init => CallsInv
<1> SUFFICES ASSUME J!Init PROVE CallsInv
  OBVIOUS
<1>1. \A e \in EffectIds : Paid(e, J!EmptyJournal[e]) = 0
  BY DEF Paid, J!EmptyJournal, J!Absent
<1> QED
  BY <1>1, EmptyLimit DEF J!Init, CallsInv, Limited, PaidFor, NeverBehind, OneCallLeft, Written

(* Every call is paid for by an attempt that is on disk before it. *)
LEMMA CallsStep == Typed /\ Typed' /\ CallsInv /\ [J!Next]_(J!vars) => CallsInv'
<1> SUFFICES ASSUME Typed, Typed', CallsInv, [J!Next]_(J!vars) PROVE CallsInv'
  OBVIOUS
<1> USE DEF Typed, J!TypeOK, CallsInv
<1>0. \A e \in EffectIds : pc # "idle" => calls[e] <= Paid(e, mem[e])
  <2> SUFFICES ASSUME NEW e \in EffectIds, pc # "idle" PROVE calls[e] <= Paid(e, mem[e])
    OBVIOUS
  <2>1. calls[e] <= Paid(e, disk[e])
    BY DEF PaidFor
  <2>2. Paid(e, disk[e]) <= Paid(e, mem[e])
    BY PaidGrows DEF NeverBehind, Limited
  <2>3. Paid(e, disk[e]) \in Nat /\ Paid(e, mem[e]) \in Nat /\ calls[e] \in Nat
    BY EntryType, PaidNat
  <2> QED BY <2>1, <2>2, <2>3
<1>1. CASE J!Wake
  <2>1. J!JournalAdvances(disk, mem')
    BY <1>1, MergeType DEF J!Wake
  <2>2. WithinLimit(mem')
    BY <1>1, MergeType DEF J!Wake, Limited, WithinLimit
  <2> QED BY <1>1, <2>1, <2>2 DEF J!Wake, Limited, WithinLimit, PaidFor, NeverBehind, OneCallLeft, Written
<1>2. ASSUME NEW e \in EffectIds, J!Execute(e) PROVE CallsInv'
  <2>1. mem[e].kind = "absent" /\ pc = "running"
    BY <1>2 DEF J!Execute, J!ClassifyInterruptedEffect
  <2>2. mem'[e] = J!Started(1) /\ effect' = e
    BY <1>2, <2>1 DEF J!Execute, J!BeginEffect, J!Journals
  <2>3. calls[e] <= 0
    BY <1>0, <2>1 DEF Paid
  <2>4. calls'[effect'] < Paid(effect', mem'[effect'])
    BY <1>2, <2>2, <2>3 DEF J!Execute, Paid, J!Started
  <2>5. J!JournalAdvances(disk, mem')
    BY <1>2, <2>1, BeginAdvances, AdvancesTrans DEF J!Execute, NeverBehind
  <2>6. WithinLimit(mem)'
    BY <1>2, BeginLimit DEF J!Execute, Limited, WithinLimit
  <2> QED BY <1>2, <2>4, <2>5, <2>6 DEF J!Execute, Limited, WithinLimit, PaidFor, NeverBehind, OneCallLeft, Written
<1>3. ASSUME NEW e \in EffectIds, J!Observe(e) PROVE CallsInv'
  <2>0. PICK r \in Receipts : mem' = J!ConfirmEffect(mem, e, r)
    BY <1>3 DEF J!Observe
  <2>1. pc = "running" /\ mem[e].kind = "started"
    BY <1>3 DEF J!Observe, J!ClassifyInterruptedEffect
  <2>2. J!JournalAdvances(mem, mem')
    BY <2>0, <2>1, ConfirmAdvances DEF J!CanConfirm
  <2>3. J!JournalAdvances(disk, mem')
    BY <2>1, <2>2, AdvancesTrans DEF NeverBehind
  <2>4. WithinLimit(mem)'
    BY <1>3, <2>0, <2>1, ConfirmLimit DEF J!Observe, Limited, WithinLimit
  <2> QED BY <1>3, <2>3, <2>4 DEF J!Observe, Limited, WithinLimit, PaidFor, NeverBehind, OneCallLeft, Written
<1>4. ASSUME NEW e \in EffectIds, J!Retry(e) PROVE CallsInv'
  <2>1. pc = "running" /\ mem[e].kind = "started" /\ mem[e].tries \in 1..2
    BY <1>4, EntryType, AttemptKinds DEF J!Retry, J!CanRetry
  <2>2. mem'[e] = J!Started(mem[e].tries + 1) /\ effect' = e
    BY <1>4 DEF J!Retry, J!RetryStartedEffect, J!Journals
  <2>3. calls[e] <= mem[e].tries
    BY <1>0, <2>1 DEF Paid
  <2>4. calls'[effect'] < Paid(effect', mem'[effect'])
    BY <1>4, <2>1, <2>2, <2>3 DEF J!Retry, Paid, J!Started
  <2>5. J!JournalAdvances(disk, mem')
    BY <1>4, <2>1, RetryAdvances, AdvancesTrans DEF J!Retry, NeverBehind
  <2>6. WithinLimit(mem)'
    BY <1>4, RetryLimit DEF J!Retry, Limited, WithinLimit
  <2> QED BY <1>4, <2>4, <2>5, <2>6 DEF J!Retry, Limited, WithinLimit, PaidFor, NeverBehind, OneCallLeft, Written
<1>5. CASE J!Persist
  BY <1>5, <1>0, AdvancesRefl
     DEF J!Persist, Limited, WithinLimit, PaidFor, NeverBehind, OneCallLeft, Written
<1>6. CASE J!Call
  <2>1. pc = "call" /\ disk = mem /\ pc' \in {"yield", "confirm"} /\ disk' = disk /\ mem' = mem /\ env' = env
    BY <1>6 DEF J!Call, Written
  <2>2. calls[effect] + 1 <= Paid(effect, disk[effect])
    <3>1. calls[effect] < Paid(effect, disk[effect])
      BY <2>1 DEF OneCallLeft
    <3>2. Paid(effect, disk[effect]) \in Nat
      BY EntryType, PaidNat
    <3> QED BY <3>1, <3>2
  <2>3. PaidFor'
    BY <1>6, <2>1, <2>2 DEF J!Call, PaidFor
  <2> QED BY <2>1, <2>3 DEF Limited, WithinLimit, NeverBehind, OneCallLeft, Written
<1>7. CASE J!Confirm
  <2>0. PICK r \in Receipts : J!CanConfirm(mem, effect, r) /\ mem' = J!ConfirmEffect(mem, effect, r)
    BY <1>7 DEF J!Confirm
  <2>1. pc = "confirm"
    BY <1>7 DEF J!Confirm
  <2>2. J!JournalAdvances(mem, mem')
    BY <2>0, ConfirmAdvances
  <2>3. J!JournalAdvances(disk, mem')
    BY <2>1, <2>2, AdvancesTrans DEF NeverBehind
  <2>4. WithinLimit(mem)'
    BY <1>7, <2>0, ConfirmLimit DEF J!Confirm, Limited, WithinLimit
  <2> QED BY <1>7, <2>3, <2>4 DEF J!Confirm, Limited, WithinLimit, PaidFor, NeverBehind, OneCallLeft, Written
<1>8. CASE J!PersistReceipt
  BY <1>8, <1>0, AdvancesRefl
     DEF J!PersistReceipt, Limited, WithinLimit, PaidFor, NeverBehind, OneCallLeft, Written
<1>9. CASE J!PersistFails \/ J!Defer
  BY <1>9 DEF J!PersistFails, J!Defer, Limited, WithinLimit, PaidFor, NeverBehind, OneCallLeft, Written
<1>10. CASE J!Return
  BY <1>10, <1>0, EmptyLimit
     DEF J!Return, Limited, WithinLimit, PaidFor, NeverBehind, OneCallLeft, Written
<1>11. CASE J!Crash
  BY <1>11, EmptyLimit
     DEF J!Crash, Limited, WithinLimit, PaidFor, NeverBehind, OneCallLeft, Written
<1>12. CASE UNCHANGED J!vars
  BY <1>12 DEF J!vars, Limited, WithinLimit, PaidFor, NeverBehind, OneCallLeft, Written
<1> QED
  BY <1>1, <1>2, <1>3, <1>4, <1>5, <1>6, <1>7, <1>8, <1>9, <1>10, <1>11, <1>12 DEF J!Next

(* The accounting of calls is an invariant. *)
LEMMA CallsInvariant == JournalSpec => [](Typed /\ CallsInv)
<1>1. Typed /\ CallsInv /\ [J!Next]_(J!vars) => (Typed /\ CallsInv)'
  BY TypedStep, CallsStep
<1> QED BY <1>1, TypedInit, CallsInit, PTL DEF JournalSpec, J!Spec

(* No crash, failed write or replayed envelope makes the adapter repeat a  *)
(* call: once for every effect, at most twice for a native card.           *)
THEOREM CallsAreBounded == JournalSpec => []CallsBounded
<1>1. Typed /\ CallsInv => CallsBounded
  <2> SUFFICES ASSUME Typed, CallsInv, NEW e \in EffectIds PROVE calls[e] <= Limit(e)
    BY DEF CallsBounded, J!CallsBounded, Limit
  <2>1. calls[e] \in Nat /\ Paid(e, disk[e]) \in Nat /\ Limit(e) \in {1, 2}
    BY EntryType, PaidNat DEF Typed, J!TypeOK
  <2>2. calls[e] <= Paid(e, disk[e]) /\ Paid(e, disk[e]) <= Limit(e)
    BY DEF CallsInv, PaidFor, Limited, WithinLimit
  <2> QED BY <2>1, <2>2
<1> QED BY <1>1, CallsInvariant, PTL

(* Every call that was made has its entry in the recovery record.          *)
THEOREM CallsAreRecorded == JournalSpec => []CallsRecorded
<1>1. Typed /\ CallsInv => CallsRecorded
  <2> SUFFICES ASSUME Typed, CallsInv, NEW e \in EffectIds, calls[e] > 0
               PROVE  disk[e].kind # "absent"
    BY DEF CallsRecorded, J!CallsRecorded, J!Recorded
  <2>1. calls[e] \in Nat /\ calls[e] <= Paid(e, disk[e])
    BY DEF CallsInv, PaidFor, Typed, J!TypeOK
  <2> QED BY <2>1 DEF Paid
<1> QED BY <1>1, CallsInvariant, PTL

(* The recovery record only advances: it loses no attempt and no receipt,  *)
(* and no retry is counted back.                                           *)
THEOREM RecordAdvances == JournalSpec => RecordOnlyAdvances
<1>1. Typed /\ CallsInv /\ [J!Next]_(J!vars) => [J!JournalAdvances(disk, disk')]_(J!vars)
  <2> SUFFICES ASSUME Typed, CallsInv, J!Next PROVE J!JournalAdvances(disk, disk')
    OBVIOUS
  <2>1. CASE J!Persist \/ J!PersistReceipt \/ J!Return
    BY <2>1, AdvancesRefl DEF J!Persist, J!PersistReceipt, J!Return, CallsInv, NeverBehind
  <2>2. CASE disk' = disk
    BY <2>2, AdvancesRefl
  <2> QED
    BY <2>1, <2>2 DEF J!Next, J!Wake, J!Execute, J!Observe, J!Retry, J!Call, J!Confirm, J!PersistFails, J!Defer, J!Crash
<1> QED BY <1>1, CallsInvariant, PTL DEF JournalSpec, J!Spec, RecordOnlyAdvances, J!RecordOnlyAdvances

-----------------------------------------------------------------------------
(* A run only ever advances the journal it merged from envelope and        *)
(* record, so the receipts of the two never contradict each other.         *)
Agree(a, b) ==
  \A e \in EffectIds : a[e].kind = "confirmed" /\ b[e].kind = "confirmed" => a[e].receipt = b[e].receipt

ReceiptInv ==
  /\ pc = "idle" => Agree(env, disk)
  /\ pc # "idle" => J!JournalAdvances(env, mem)

(* The merge of two journals that agree is not behind the envelope.        *)
LEMMA MergeAdvancesEnvelope ==
  ASSUME NEW a \in J!Journals, NEW b \in J!Journals, Agree(a, b)
  PROVE  J!JournalAdvances(a, J!MergeEffectJournals(a, b))
<1> SUFFICES ASSUME NEW e \in EffectIds PROVE J!Advances(a[e], J!MergeAttempt(a[e], b[e]))
  BY DEF J!JournalAdvances, J!MergeEffectJournals
<1>1. a[e] \in J!ValidAttempts /\ b[e] \in J!ValidAttempts
  BY EntryType
<1>2. CASE b[e].kind = "confirmed"
  BY <1>1, <1>2 DEF Agree, J!Advances, J!MergeAttempt, J!ValidAttempts, J!Absent, J!Started, J!Confirmed
<1>3. CASE b[e].kind = "started"
  BY <1>1, <1>3 DEF J!Advances, J!MergeAttempt, J!ValidAttempts, J!Absent, J!Started, J!Confirmed, J!MaxAttempts
<1>4. CASE b[e].kind = "absent"
  BY <1>4 DEF J!Advances, J!MergeAttempt
<1> QED BY <1>1, <1>2, <1>3, <1>4 DEF J!ValidAttempts, J!Absent, J!Started, J!Confirmed

(* Two journals that one journal has advanced beyond agree.                *)
LEMMA AdvancedAgree ==
  ASSUME NEW a \in J!Journals, NEW b \in J!Journals, NEW j \in J!Journals,
         J!JournalAdvances(a, j), J!JournalAdvances(b, j)
  PROVE  Agree(a, b)
BY DEF J!JournalAdvances, J!Advances, Agree

(* Every step keeps the receipts in agreement.                             *)
LEMMA ReceiptStep ==
  Typed /\ Typed' /\ CallsInv /\ ReceiptInv /\ [J!Next]_(J!vars) => ReceiptInv'
<1> SUFFICES ASSUME Typed, Typed', CallsInv, ReceiptInv, [J!Next]_(J!vars) PROVE ReceiptInv'
  OBVIOUS
<1> USE DEF Typed, J!TypeOK
<1>a. ASSUME J!JournalAdvances(mem, mem'), env' = env, pc # "idle", pc' # "idle"
      PROVE  ReceiptInv'
  <2>1. J!JournalAdvances(env, mem')
    BY <1>a, AdvancesTrans DEF ReceiptInv
  <2> QED BY <1>a, <2>1 DEF ReceiptInv
<1>1. CASE J!Wake
  <2>1. J!JournalAdvances(env, mem')
    BY <1>1, MergeAdvancesEnvelope DEF J!Wake, ReceiptInv
  <2> QED BY <1>1, <2>1 DEF J!Wake, ReceiptInv
<1>2. ASSUME NEW e \in EffectIds, J!Execute(e) PROVE ReceiptInv'
  BY <1>2, <1>a, BeginAdvances DEF J!Execute
<1>3. ASSUME NEW e \in EffectIds, J!Observe(e) PROVE ReceiptInv'
  <2>1. PICK r \in Receipts : mem' = J!ConfirmEffect(mem, e, r)
    BY <1>3 DEF J!Observe
  <2>2. J!CanConfirm(mem, e, r)
    BY <1>3 DEF J!Observe, J!ClassifyInterruptedEffect, J!CanConfirm
  <2> QED BY <1>3, <1>a, <2>1, <2>2, ConfirmAdvances DEF J!Observe
<1>4. ASSUME NEW e \in EffectIds, J!Retry(e) PROVE ReceiptInv'
  BY <1>4, <1>a, RetryAdvances DEF J!Retry
<1>5. CASE J!Confirm
  <2>1. PICK r \in Receipts : J!CanConfirm(mem, effect, r) /\ mem' = J!ConfirmEffect(mem, effect, r)
    BY <1>5 DEF J!Confirm
  <2> QED BY <1>5, <1>a, <2>1, ConfirmAdvances DEF J!Confirm
<1>6. CASE J!Persist \/ J!Call \/ J!PersistReceipt \/ J!PersistFails \/ J!Defer
  BY <1>6, <1>a, AdvancesRefl DEF J!Persist, J!Call, J!PersistReceipt, J!PersistFails, J!Defer
<1>7. CASE J!Return \/ J!Crash
  <2>1. /\ pc # "idle" /\ pc' = "idle"
        /\ env' \in {env, mem} /\ disk' \in {disk, mem}
    BY <1>7 DEF J!Return, J!Crash
  <2>2. J!JournalAdvances(env, mem) /\ J!JournalAdvances(disk, mem) /\ J!JournalAdvances(mem, mem)
    BY <2>1, AdvancesRefl DEF ReceiptInv, CallsInv, NeverBehind
  <2>3. Agree(env', disk')
    BY <2>1, <2>2, AdvancedAgree
  <2> QED BY <2>1, <2>3 DEF ReceiptInv, Agree
<1>8. CASE UNCHANGED J!vars
  BY <1>8 DEF J!vars, ReceiptInv, Agree, J!JournalAdvances
<1> QED
  BY <1>1, <1>2, <1>3, <1>4, <1>5, <1>6, <1>7, <1>8 DEF J!Next

(* The empty journals agree.                                               *)
LEMMA ReceiptInit == J!Init => ReceiptInv
BY DEF J!Init, ReceiptInv, Agree, J!EmptyJournal, J!Absent

-----------------------------------------------------------------------------
(* The copies never diverge: one of envelope and record lists all that the *)
(* other lists, and the run in progress lists what both do.  Their merge   *)
(* is therefore no longer than one of them, and both fit the schema.       *)
Nested ==
  /\ J!Recorded(env) \subseteq J!Recorded(disk) \/ J!Recorded(disk) \subseteq J!Recorded(env)
  /\ pc # "idle" => J!Recorded(env) \cup J!Recorded(disk) \subseteq J!Recorded(mem)
Loadable == J!Persistable(disk) /\ J!Persistable(env) /\ Nested

(* The empty record loads. *)
LEMMA LoadableInit == J!Init => Loadable
<1>1. J!Recorded(J!EmptyJournal) = {}
  BY DEF J!Recorded, J!EmptyJournal, J!Absent
<1>2. J!Cardinality(J!Recorded(J!EmptyJournal)) = 0
  BY <1>1, FS_EmptySet DEF J!Cardinality, Cardinality
<1>3. J!Persistable(J!EmptyJournal)
  BY <1>2, JournalAssumption DEF J!Persistable
<1> QED BY <1>1, <1>3 DEF J!Init, Loadable, Nested

(* A record is written only when its schema accepts it, and envelope and   *)
(* record hold the same receipts.                                          *)
LEMMA LoadableStep == Typed /\ Typed' /\ Loadable /\ [J!Next]_(J!vars) => Loadable'
<1> SUFFICES ASSUME Typed, Typed', Loadable, [J!Next]_(J!vars) PROVE Loadable'
  OBVIOUS
<1> USE DEF Typed, J!TypeOK, Loadable
<1>a. ASSUME J!JournalAdvances(mem, mem'), disk' = disk, env' = env, pc # "idle"
      PROVE  Loadable'
  <2>1. J!Recorded(mem) \subseteq J!Recorded(mem')
    BY <1>a, AdvancesRecords
  <2> QED BY <1>a, <2>1 DEF Nested, J!Recorded, J!Persistable
<1>1. CASE J!Wake
  <2>1. J!Recorded(mem') = J!Recorded(env) \cup J!Recorded(disk)
    BY <1>1, MergeRecords DEF J!Wake
  <2> QED BY <1>1, <2>1 DEF J!Wake, Nested, J!Recorded, J!Persistable
<1>2. ASSUME NEW e \in EffectIds, J!Execute(e) PROVE Loadable'
  BY <1>2, <1>a, BeginAdvances DEF J!Execute
<1>3. ASSUME NEW e \in EffectIds, J!Observe(e) PROVE Loadable'
  <2>1. PICK r \in Receipts : mem' = J!ConfirmEffect(mem, e, r)
    BY <1>3 DEF J!Observe
  <2>2. J!CanConfirm(mem, e, r)
    BY <1>3 DEF J!Observe, J!ClassifyInterruptedEffect, J!CanConfirm
  <2> QED BY <1>3, <1>a, <2>1, <2>2, ConfirmAdvances DEF J!Observe
<1>4. ASSUME NEW e \in EffectIds, J!Retry(e) PROVE Loadable'
  BY <1>4, <1>a, RetryAdvances DEF J!Retry
<1>5. CASE J!Persist \/ J!PersistReceipt
  BY <1>5 DEF J!Persist, J!PersistReceipt, Nested, J!Recorded, J!Persistable
<1>6. CASE J!Call \/ J!PersistFails \/ J!Defer
  BY <1>6 DEF J!Call, J!PersistFails, J!Defer, Nested, J!Recorded, J!Persistable
<1>7. CASE J!Confirm
  <2>1. PICK r \in Receipts : J!CanConfirm(mem, effect, r) /\ mem' = J!ConfirmEffect(mem, effect, r)
    BY <1>7 DEF J!Confirm
  <2> QED BY <1>7, <1>a, <2>1, ConfirmAdvances DEF J!Confirm
<1>8. CASE J!Return
  BY <1>8 DEF J!Return, Nested, J!Recorded, J!Persistable
<1>9. CASE J!Crash
  BY <1>9 DEF J!Crash, Nested, J!Recorded, J!Persistable
<1>10. CASE UNCHANGED J!vars
  BY <1>10 DEF J!vars, Nested, J!Recorded, J!Persistable
<1> QED
  BY <1>1, <1>2, <1>3, <1>4, <1>5, <1>6, <1>7, <1>8, <1>9, <1>10 DEF J!Next

(* Whatever failed before, the record satisfies its schema and merges with *)
(* the envelope that is replayed: every later run can start.               *)
THEOREM RecordLoads == JournalSpec => []RecordAlwaysLoads
<1>1. Typed /\ Loadable /\ ReceiptInv => RecordAlwaysLoads
  <2> SUFFICES ASSUME Typed, Loadable, ReceiptInv, pc = "idle" PROVE J!CanMerge(env, disk)
    BY DEF RecordAlwaysLoads, J!RecordAlwaysLoads, Loadable
  <2>1. J!Recorded(J!MergeEffectJournals(env, disk)) \in {J!Recorded(env), J!Recorded(disk)}
    <3>1. J!Recorded(J!MergeEffectJournals(env, disk)) = J!Recorded(env) \cup J!Recorded(disk)
      BY MergeRecords DEF Typed, J!TypeOK
    <3>2. CASE J!Recorded(env) \subseteq J!Recorded(disk)
      <4>1. J!Recorded(env) \cup J!Recorded(disk) = J!Recorded(disk)
        BY <3>2
      <4> QED BY <3>1, <4>1
    <3>3. CASE J!Recorded(disk) \subseteq J!Recorded(env)
      <4>1. J!Recorded(env) \cup J!Recorded(disk) = J!Recorded(env)
        BY <3>3
      <4> QED BY <3>1, <4>1
    <3> QED BY <3>2, <3>3 DEF Loadable, Nested
  <2>2. J!Persistable(J!MergeEffectJournals(env, disk))
    BY <2>1 DEF Loadable, J!Persistable
  <2> QED BY <2>2 DEF J!CanMerge, ReceiptInv, Agree
<1>2. Typed /\ CallsInv /\ Loadable /\ ReceiptInv /\ [J!Next]_(J!vars)
        => (Typed /\ CallsInv /\ Loadable /\ ReceiptInv)'
  BY TypedStep, CallsStep, LoadableStep, ReceiptStep
<1> QED BY <1>1, <1>2, TypedInit, CallsInit, LoadableInit, ReceiptInit, PTL DEF JournalSpec, J!Spec

-----------------------------------------------------------------------------
(* 3. The Telegram companion.                                              *)

Statuses == {"absent", "pending", "approved", "rejected"}
Modes == {"down", "active", "commands", "standby"}
Cards == [approval : Approvals, face : {"buttons", "approved", "rejected"}]
Acts == [kind : {"press"}, card : Nat, choice : {"approve", "reject"}] \cup [kind : {"reply", "other"}]

TelegramTypes ==
  /\ approval \in [Approvals -> Statuses]
  /\ comments \in [1 .. MaxUpdates -> Nat]
  /\ chat \in Seq(Cards) /\ updates \in Seq(Acts)
  /\ confirmed \in Nat
  /\ worker \in [mode : Modes, notified : SUBSET Approvals, offset : Nat]
  /\ poll \subseteq Approvals
  /\ handler \in {"idle", "press", "show", "reply"}
  /\ faults \in [T!Faults -> Nat]

Pressed(u) == updates[u].kind = "press"
HandlerKnowsItsUpdate ==
  /\ \A u \in DOMAIN updates : Pressed(u) => updates[u].card \in DOMAIN chat
  /\ worker.offset <= Len(updates)
  /\ handler # "idle" => worker.offset \in DOMAIN updates
  /\ handler \in {"press", "show"} => Pressed(worker.offset)
  /\ handler = "show" => approval[chat[T!Current.card].approval] = T!Decisions[T!Current.choice]

Once(b) == IF b THEN 1 ELSE 0
CopiesCounted ==
  /\ poll \cap worker.notified = {}
  /\ \A a \in Approvals : T!Copies(a) <= Once(a \in worker.notified) + faults["restart"] + faults["call"]

Listening == worker.mode \in {"active", "commands"}
Ahead(u) == u > worker.offset \/ (u = worker.offset /\ handler = "reply")
RepliesCounted ==
  /\ \A u \in 1 .. MaxUpdates : comments[u] <= 1 + faults["setup"]
  /\ \A u \in 1 .. MaxUpdates : u > Len(updates) => comments[u] = 0
  /\ \A u \in 1 .. MaxUpdates : Listening /\ Ahead(u) => comments[u] <= faults["setup"]
  /\ handler # "idle" => Listening

CardsTell ==
  \A c \in DOMAIN chat : chat[c].face # "buttons" => chat[c].face = approval[chat[c].approval]

TelegramInv == TelegramTypes /\ HandlerKnowsItsUpdate /\ CopiesCounted /\ RepliesCounted /\ CardsTell

(* A set of approvals that is not empty has a first one.                   *)
LEMMA Least ==
  ASSUME NEW S \in SUBSET Nat, S # {}
  PROVE  T!Min(S) \in S
<1> DEFINE R == OpToRel(<, Nat)
<1>1. \A x, y \in Nat : x < y => <<x, y>> \in R
  BY DEF OpToRel
<1>2. IsWellFoundedOn(R, Nat)
  BY NatLessThanWellFounded
<1> HIDE DEF R
<1>3. PICK x \in S : \A y \in S : ~ (<<y, x>> \in R)
  BY <1>2, WFMin
<1>4. \A y \in S : x <= y
  <2> SUFFICES ASSUME NEW y \in S, ~(x <= y) PROVE FALSE
    OBVIOUS
  <2>1. y < x /\ x \in Nat /\ y \in Nat
    OBVIOUS
  <2> QED BY <2>1, <1>1, <1>3
<1> QED BY <1>4 DEF T!Min

(* The later of two places. *)
LEMMA Later ==
  ASSUME NEW m \in Nat, NEW n \in Nat
  PROVE  T!Max({m, n}) \in Nat /\ T!Max({m, n}) >= m /\ T!Max({m, n}) >= n
<1>1. \E x \in {m, n} : \A y \in {m, n} : x >= y
  <2>1. CASE m >= n
    BY <2>1
  <2>2. CASE n >= m
    BY <2>2
  <2> QED BY <2>1, <2>2
<1> QED BY <1>1 DEF T!Max

(* The cards of an approval, in a chat. *)
CopiesIn(s, a) == {c \in DOMAIN s : s[c].approval = a}

LEMMA CopiesFinite ==
  ASSUME NEW s \in Seq(Cards), NEW a
  PROVE  IsFiniteSet(CopiesIn(s, a)) /\ Cardinality(CopiesIn(s, a)) \in Nat
<1>1. IsFiniteSet(1 .. Len(s)) /\ DOMAIN s = 1 .. Len(s)
  BY FS_Interval
<1> QED BY <1>1, FS_Subset, FS_CardinalityType DEF CopiesIn

(* A card more is one copy more of its approval, and of no other.          *)
LEMMA CopiesAppend ==
  ASSUME NEW s \in Seq(Cards), NEW b \in Approvals, NEW a \in Approvals
  PROVE  /\ Append(s, T!Card(b)) \in Seq(Cards)
         /\ Cardinality(CopiesIn(Append(s, T!Card(b)), a)) <= Cardinality(CopiesIn(s, a)) + Once(a = b)
<1> DEFINE card == T!Card(b)
           t == Append(s, card)
<1>1. card \in Cards /\ card.approval = b
  BY DEF T!Card, Cards
<1>2. /\ t \in Seq(Cards) /\ Len(s) \in Nat /\ DOMAIN s = 1 .. Len(s) /\ DOMAIN t = 1 .. Len(s) + 1
      /\ \A i \in 1 .. Len(s) : t[i] = s[i]
      /\ t[Len(s) + 1] = card
  BY <1>1
<1> HIDE DEF t, card
<1>3. CASE a = b
  <2>1. CopiesIn(t, a) = CopiesIn(s, a) \cup {Len(s) + 1}
    BY <1>1, <1>2, <1>3 DEF CopiesIn
  <2>2. Len(s) + 1 \notin CopiesIn(s, a)
    BY <1>2 DEF CopiesIn
  <2>3. Cardinality(CopiesIn(t, a)) = Cardinality(CopiesIn(s, a)) + 1
    BY <2>1, <2>2, CopiesFinite, FS_AddElement
  <2>4. Cardinality(CopiesIn(t, a)) <= Cardinality(CopiesIn(s, a)) + Once(a = b)
    BY <1>3, <2>3, CopiesFinite DEF Once
  <2> QED BY <1>2, <2>4 DEF t, card
<1>4. CASE a # b
  <2>1. CopiesIn(t, a) = CopiesIn(s, a)
    BY <1>1, <1>2, <1>4 DEF CopiesIn
  <2>2. Cardinality(CopiesIn(t, a)) <= Cardinality(CopiesIn(s, a)) + Once(a = b)
    BY <1>4, <2>1, CopiesFinite DEF Once
  <2> QED BY <1>2, <2>2 DEF t, card
<1> QED BY <1>3, <1>4

(* The cardinality of an instance is the cardinality.                      *)
LEMMA TelegramCounts == \A S : T!Cardinality(S) = Cardinality(S)
  BY DEF T!Cardinality, Cardinality

LEMMA CopiesAre == \A a : T!Copies(a) = Cardinality(CopiesIn(chat, a))
  BY TelegramCounts DEF T!Copies, CopiesIn

LEMMA TelegramInit == T!Init => TelegramInv
<1> SUFFICES ASSUME T!Init PROVE TelegramInv
  OBVIOUS
<1> USE DEF T!Init
<1>1. TelegramTypes
  BY CompanionsAssumption DEF TelegramTypes, Statuses, Modes, T!Down, T!Faults
<1>2. HandlerKnowsItsUpdate
  BY DEF HandlerKnowsItsUpdate, T!Down
<1>3. CopiesCounted
  <2>1. ASSUME NEW a \in Approvals PROVE CopiesIn(chat, a) = {}
    BY DEF CopiesIn
  <2>2. ASSUME NEW a \in Approvals PROVE T!Copies(a) = 0
    BY <2>1, CopiesAre, FS_EmptySet
  <2>3. faults["restart"] = 0 /\ faults["call"] = 0
    BY DEF T!Faults
  <2> QED BY <2>2, <2>3 DEF CopiesCounted, Once, T!Down
<1>4. RepliesCounted
  BY DEF RepliesCounted, Listening, T!Faults, T!Down
<1>5. CardsTell
  BY DEF CardsTell
<1> QED BY <1>1, <1>2, <1>3, <1>4, <1>5 DEF TelegramInv

(* What a fault leaves of the counters.                                    *)
LEMMA FaultCounts ==
  ASSUME TelegramTypes, NEW k \in T!Faults, T!Fault(k)
  PROVE  /\ faults' \in [T!Faults -> Nat]
         /\ faults'[k] = faults[k] + 1
         /\ \A j \in T!Faults : j # k => faults'[j] = faults[j]
  BY DEF TelegramTypes, T!Fault

(* A step that leaves the chat alone leaves its copies alone. *)
LEMMA CopiesStay == UNCHANGED chat => \A a : T!Copies(a)' = T!Copies(a)
  BY DEF T!Copies

LEMMA TelegramStutter == TelegramInv /\ UNCHANGED telegram => TelegramInv'
<1> SUFFICES ASSUME TelegramInv, UNCHANGED telegram PROVE TelegramInv'
  OBVIOUS
<1> USE DEF telegram
<1>1. TelegramTypes'
  BY DEF TelegramInv, TelegramTypes
<1>2. HandlerKnowsItsUpdate'
  BY DEF TelegramInv, HandlerKnowsItsUpdate, Pressed, T!Current
<1>3. CopiesCounted'
  BY CopiesStay DEF TelegramInv, CopiesCounted
<1>4. RepliesCounted'
  BY DEF TelegramInv, RepliesCounted, Listening, Ahead
<1>5. CardsTell'
  BY DEF TelegramInv, CardsTell
<1> QED BY <1>1, <1>2, <1>3, <1>4, <1>5 DEF TelegramInv

(* The steps of the worker.  A start moves the place of the update loop to *)
(* the end of the chat, or is counted as a fault.                          *)
LEMMA SetupKeeps == TelegramInv /\ T!Setup => TelegramInv'
<1> SUFFICES ASSUME TelegramInv, T!Setup PROVE TelegramInv'
  OBVIOUS
<1>1. /\ UNCHANGED <<approval, comments, chat, updates, confirmed, poll, handler, refused>>
      /\ worker.mode = "down" /\ worker'.notified = worker.notified
      /\ worker'.offset \in {worker.offset, Len(updates)}
      /\ faults' = faults \/ (faults' \in [T!Faults -> Nat] /\ \A j \in T!Faults : faults'[j] = faults[j] + Once(j = "setup"))
      /\ worker'.offset = Len(updates) \/ faults'["setup"] = faults["setup"] + 1 \/ ~Listening'
      /\ worker' \in [mode : Modes, notified : SUBSET Approvals, offset : Nat]
  <2>1. TelegramTypes
    BY DEF TelegramInv
  <2>2. Len(updates) \in Nat
    BY <2>1 DEF TelegramTypes
  <2>3. T!Fault("setup") =>
          faults' \in [T!Faults -> Nat] /\ \A j \in T!Faults : faults'[j] = faults[j] + Once(j = "setup")
    BY <2>1, FaultCounts DEF Once, T!Faults, TelegramTypes
  <2> QED
    BY <2>1, <2>2, <2>3 DEF T!Setup, T!paperclip, T!telegram, T!NoFault, TelegramTypes, Modes, Listening, T!Faults, Once
<1>2. /\ faults' \in [T!Faults -> Nat] /\ faults'["restart"] = faults["restart"]
      /\ faults'["call"] = faults["call"] /\ faults'["setup"] >= faults["setup"]
      /\ faults["setup"] \in Nat /\ faults'["setup"] \in Nat
  BY <1>1 DEF TelegramInv, TelegramTypes, T!Faults, Once
<1>3. TelegramTypes'
  BY <1>1, <1>2 DEF TelegramInv, TelegramTypes
<1>4. handler = "idle" /\ Len(updates) \in Nat
  BY <1>1 DEF TelegramInv, TelegramTypes, RepliesCounted, Listening
<1>5. HandlerKnowsItsUpdate'
  BY <1>1, <1>4 DEF TelegramInv, HandlerKnowsItsUpdate, Pressed
<1>6. CopiesCounted'
  BY <1>1, <1>2, CopiesStay DEF TelegramInv, CopiesCounted
<1>7. RepliesCounted'
  <2>1. \A u \in 1 .. MaxUpdates : comments[u] \in Nat /\ comments[u] <= 1 + faults["setup"]
    BY DEF TelegramInv, TelegramTypes, RepliesCounted
  <2>2. \A u \in 1 .. MaxUpdates : u > Len(updates) => comments[u] = 0
    BY DEF TelegramInv, RepliesCounted
  <2>3. \A u \in 1 .. MaxUpdates : Listening' /\ Ahead(u)' => comments[u] <= faults'["setup"]
    BY <1>1, <1>2, <1>4, <2>1, <2>2 DEF Ahead
  <2> QED BY <1>1, <1>2, <1>4, <2>1, <2>2, <2>3 DEF RepliesCounted
<1>8. CardsTell'
  BY <1>1 DEF TelegramInv, CardsTell
<1> QED BY <1>3, <1>5, <1>6, <1>7, <1>8 DEF TelegramInv

(* A restart forgets the announced approvals: each may get one card more.  *)
LEMMA RestartKeeps == TelegramInv /\ T!Restart => TelegramInv'
<1> SUFFICES ASSUME TelegramInv, T!Restart PROVE TelegramInv'
  OBVIOUS
<1>1. /\ UNCHANGED <<approval, comments, chat, updates, confirmed, refused>>
      /\ worker' = T!Down /\ poll' = {} /\ handler' = "idle" /\ T!Fault("restart")
  BY DEF T!Restart, T!paperclip, T!telegram
<1>2. /\ faults' \in [T!Faults -> Nat] /\ faults'["restart"] = faults["restart"] + 1
      /\ faults'["call"] = faults["call"] /\ faults'["setup"] = faults["setup"]
      /\ faults["restart"] \in Nat /\ faults["call"] \in Nat
  BY <1>1, FaultCounts DEF TelegramInv, TelegramTypes, T!Faults
<1>3. TelegramTypes'
  BY <1>1, <1>2 DEF TelegramInv, TelegramTypes, T!Down, Modes
<1>4. HandlerKnowsItsUpdate'
  BY <1>1 DEF TelegramInv, TelegramTypes, HandlerKnowsItsUpdate, Pressed, T!Down
<1>5. CopiesCounted'
  <2> SUFFICES ASSUME NEW a \in Approvals
               PROVE  T!Copies(a)' <= Once(a \in worker'.notified) + faults'["restart"] + faults'["call"]
    BY <1>1 DEF CopiesCounted
  <2>1. T!Copies(a)' = T!Copies(a) /\ T!Copies(a) \in Nat
    BY <1>1, CopiesStay, CopiesAre, CopiesFinite DEF TelegramInv, TelegramTypes
  <2>2. T!Copies(a) <= Once(a \in worker.notified) + faults["restart"] + faults["call"]
    BY DEF TelegramInv, CopiesCounted
  <2> QED BY <1>2, <2>1, <2>2 DEF Once
<1>6. RepliesCounted'
  BY <1>1, <1>2 DEF TelegramInv, RepliesCounted, Listening, T!Down
<1>7. CardsTell'
  BY <1>1 DEF TelegramInv, CardsTell
<1> QED BY <1>3, <1>4, <1>5, <1>6, <1>7 DEF TelegramInv

(* The poller announces what is not announced yet. *)
LEMMA PollListKeeps == TelegramInv /\ T!PollList => TelegramInv'
<1> SUFFICES ASSUME TelegramInv, T!PollList PROVE TelegramInv'
  OBVIOUS
<1>1. /\ UNCHANGED <<approval, comments, chat, updates, confirmed, worker, handler, refused, faults>>
      /\ poll' \subseteq Approvals /\ poll' \cap worker.notified = {}
  BY DEF T!PollList, T!paperclip, T!telegram
<1>2. TelegramTypes'
  BY <1>1 DEF TelegramInv, TelegramTypes
<1>3. HandlerKnowsItsUpdate'
  BY <1>1 DEF TelegramInv, HandlerKnowsItsUpdate, Pressed, T!Current
<1>4. CopiesCounted'
  BY <1>1, CopiesStay DEF TelegramInv, CopiesCounted
<1>5. RepliesCounted'
  BY <1>1 DEF TelegramInv, RepliesCounted, Listening, Ahead
<1>6. CardsTell'
  BY <1>1 DEF TelegramInv, CardsTell
<1> QED BY <1>2, <1>3, <1>4, <1>5, <1>6 DEF TelegramInv

(* A card is sent for an approval that was not announced: it is announced  *)
(* now, or the lost response is counted.                                   *)
LEMMA PollSendKeeps == TelegramInv /\ T!PollSend => TelegramInv'
<1> SUFFICES ASSUME TelegramInv, T!PollSend PROVE TelegramInv'
  OBVIOUS
<1> USE DEF TelegramInv
<1>1. PICK a \in Approvals : a \in poll /\ a = T!Min(poll)
  BY Least, CompanionsAssumption DEF T!PollSend, TelegramTypes
<1>2. /\ UNCHANGED <<approval, comments, updates, confirmed, handler, refused>>
      /\ \/ /\ faults' = faults /\ chat' = Append(chat, T!Card(a))
            /\ worker' = T!Announced(worker, a) /\ poll' = poll \ {a}
         \/ faults' = faults /\ poll' = {} /\ UNCHANGED <<chat, worker>>
         \/ T!Fault("call") /\ chat' \in {chat, Append(chat, T!Card(a))} /\ poll' = {} /\ UNCHANGED worker
  BY <1>1 DEF T!PollSend, T!paperclip, T!NoFault
<1>3. /\ faults' \in [T!Faults -> Nat] /\ faults'["restart"] = faults["restart"]
      /\ faults'["call"] = faults["call"] + Once(worker' = worker /\ faults' # faults)
      /\ faults'["setup"] = faults["setup"]
      /\ faults["restart"] \in Nat /\ faults["call"] \in Nat
  BY <1>2, FaultCounts DEF TelegramTypes, T!Faults, Once, T!NoFault
<1>4. /\ worker' \in [mode : Modes, notified : SUBSET Approvals, offset : Nat]
      /\ worker'.mode = worker.mode /\ worker'.offset = worker.offset
      /\ worker'.notified \in {worker.notified, worker.notified \cup {a}}
  BY <1>2 DEF T!Announced, TelegramTypes
<1>5. chat \in Seq(Cards) /\ T!Card(a) \in Cards /\ T!Card(a).face = "buttons"
  BY DEF TelegramTypes, T!Card, Cards
<1>6. /\ chat' \in Seq(Cards) /\ Len(chat) \in Nat /\ DOMAIN chat \subseteq DOMAIN chat'
      /\ \A c \in DOMAIN chat : chat'[c] = chat[c]
      /\ \A c \in DOMAIN chat' : c \in DOMAIN chat \/ chat'[c].face = "buttons"
  BY <1>2, <1>5
<1>7. TelegramTypes'
  BY <1>2, <1>3, <1>4, <1>6 DEF TelegramTypes
<1>8. HandlerKnowsItsUpdate'
  BY <1>2, <1>4, <1>6 DEF HandlerKnowsItsUpdate, Pressed, T!Current
<1>9. CopiesCounted'
  <2>1. poll' \cap worker'.notified = {}
    BY <1>2 DEF CopiesCounted, T!Announced, TelegramTypes
  <2> SUFFICES ASSUME NEW b \in Approvals
               PROVE  T!Copies(b)' <= Once(b \in worker'.notified) + faults'["restart"] + faults'["call"]
    BY <2>1 DEF CopiesCounted
  <2> DEFINE copies == Cardinality(CopiesIn(chat, b))
             sent == Cardinality(CopiesIn(Append(chat, T!Card(a)), b))
  <2>2. /\ copies \in Nat /\ sent \in Nat /\ sent <= copies + Once(b = a)
        /\ copies <= Once(b \in worker.notified) + faults["restart"] + faults["call"]
    BY <1>5, CopiesAre, CopiesFinite, CopiesAppend DEF CopiesCounted
  <2>3. T!Copies(b)' = Cardinality(CopiesIn(chat', b))
    BY TelegramCounts DEF T!Copies, CopiesIn
  <2>4. a \notin worker.notified
    BY <1>1 DEF CopiesCounted
  <2>5. CASE chat' = Append(chat, T!Card(a)) /\ worker' = T!Announced(worker, a) /\ faults' = faults
    <3>1. b \in worker'.notified <=> b \in worker.notified \/ b = a
      BY <2>5 DEF T!Announced, TelegramTypes
    <3>2. T!Copies(b)' = sent
      BY <2>3, <2>5
    <3> HIDE DEF sent, copies
    <3> QED BY <1>3, <2>2, <2>4, <2>5, <3>1, <3>2 DEF Once
  <2>6. CASE chat' = chat /\ worker' = worker /\ faults' = faults
    BY <2>2, <2>3, <2>6
  <2>7. CASE T!Fault("call") /\ chat' \in {chat, Append(chat, T!Card(a))} /\ worker' = worker
    <3>1. faults'["call"] = faults["call"] + 1
      BY <2>7, FaultCounts DEF T!Faults
    <3>2. T!Copies(b)' \in {copies, sent}
      BY <2>3, <2>7
    <3> HIDE DEF sent, copies
    <3> QED BY <1>3, <2>2, <2>7, <3>1, <3>2 DEF Once
  <2> QED BY <1>2, <2>5, <2>6, <2>7
<1>10. RepliesCounted'
  BY <1>2, <1>3, <1>4 DEF RepliesCounted, Listening, Ahead
<1>11. CardsTell'
  BY <1>2, <1>6 DEF CardsTell
<1> QED BY <1>7, <1>8, <1>9, <1>10, <1>11

(* The steps of the update loop.  The place passes an update before its    *)
(* handler runs, so nothing is forwarded twice from one place.             *)
LEMMA TakeKeeps == TelegramInv /\ T!Take => TelegramInv'
<1> SUFFICES ASSUME TelegramInv, T!Take PROVE TelegramInv'
  OBVIOUS
<1> USE DEF TelegramInv
<1>1. PICK n \in Nat : /\ n > worker.offset /\ n <= Len(updates)
                       /\ worker' = [worker EXCEPT !.offset = n] /\ confirmed' \in Nat
                       /\ handler' = IF updates[n].kind = "other" THEN "idle" ELSE updates[n].kind
  <2> DEFINE m == T!Max({worker.offset, confirmed})
  <2>1. m \in Nat /\ m >= worker.offset /\ worker.offset \in Nat /\ confirmed \in Nat
    BY Later DEF TelegramTypes
  <2>2. /\ m + 1 <= Len(updates) /\ worker' = [worker EXCEPT !.offset = m + 1] /\ confirmed' \in {confirmed, m}
        /\ handler' = IF updates[m + 1].kind = "other" THEN "idle" ELSE updates[m + 1].kind
    BY DEF T!Take
  <2> HIDE DEF m
  <2> QED BY <2>1, <2>2
<1>2. /\ UNCHANGED <<approval, comments, chat, updates, poll, refused, faults>>
      /\ handler = "idle" /\ Listening
  BY DEF T!Take, T!paperclip, Listening
<1>3. n \in DOMAIN updates /\ updates[n] \in Acts /\ handler' \in {"idle", "press", "reply"}
  BY <1>1 DEF TelegramTypes, Acts
<1>4. /\ worker'.mode = worker.mode /\ worker'.notified = worker.notified /\ worker'.offset = n
      /\ worker' \in [mode : Modes, notified : SUBSET Approvals, offset : Nat]
  BY <1>1 DEF TelegramTypes
<1>5. TelegramTypes'
  BY <1>1, <1>2, <1>3, <1>4 DEF TelegramTypes
<1>6. HandlerKnowsItsUpdate'
  BY <1>1, <1>2, <1>3, <1>4 DEF HandlerKnowsItsUpdate, Pressed
<1>7. CopiesCounted'
  BY <1>2, <1>4, CopiesStay DEF CopiesCounted
<1>8. RepliesCounted'
  <2>1. worker.offset \in Nat
    BY DEF TelegramTypes
  <2> QED BY <1>1, <1>2, <1>4, <2>1 DEF RepliesCounted, Listening, Ahead
<1>9. CardsTell'
  BY <1>2 DEF CardsTell
<1> QED BY <1>5, <1>6, <1>7, <1>8, <1>9

(* The approval a pressed button is about. *)
LEMMA PressedApproval ==
  ASSUME TelegramInv, handler \in {"press", "show"}
  PROVE  /\ T!Current.card \in DOMAIN chat
         /\ chat[T!Current.card].approval \in Approvals
         /\ T!Decisions[T!Current.choice] \in {"approved", "rejected"}
<1>1. worker.offset \in DOMAIN updates /\ updates[worker.offset] \in Acts /\ Pressed(worker.offset)
  BY DEF TelegramInv, HandlerKnowsItsUpdate, TelegramTypes
<1>2. T!Current.card \in DOMAIN chat /\ T!Current.choice \in {"approve", "reject"}
  BY <1>1 DEF Pressed, Acts, TelegramInv, HandlerKnowsItsUpdate, T!Current
<1>3. chat[T!Current.card] \in Cards
  BY <1>2 DEF TelegramInv, TelegramTypes
<1> QED BY <1>2, <1>3 DEF Cards, T!Decisions

(* What a card tells stays true while only what is undecided is decided.   *)
LEMMA DecisionsAreFinal ==
  ASSUME TelegramInv, UNCHANGED chat, approval' \in [Approvals -> Statuses],
         \A a \in Approvals : approval[a] \in {"absent", "pending"} \/ approval'[a] = approval[a]
  PROVE  CardsTell'
<1> SUFFICES ASSUME NEW c \in DOMAIN chat, chat[c].face # "buttons" PROVE chat[c].face = approval'[chat[c].approval]
  BY DEF CardsTell
<1>1. chat[c] \in Cards /\ chat[c].face = approval[chat[c].approval]
  BY DEF TelegramInv, TelegramTypes, CardsTell
<1> QED BY <1>1 DEF Cards

(* Only a pending approval is decided. *)
LEMMA DecideKeeps == TelegramInv /\ T!Decide => TelegramInv'
<1> SUFFICES ASSUME TelegramInv, T!Decide PROVE TelegramInv'
  OBVIOUS
<1> USE DEF TelegramInv
<1> DEFINE card == T!Current.card
           a == chat[card].approval
           d == T!Decisions[T!Current.choice]
<1>1. handler = "press" /\ UNCHANGED <<comments, chat, updates, confirmed, worker, poll, refused>>
  BY DEF T!Decide, T!telegram
<1>2. /\ card \in DOMAIN chat /\ a \in Approvals /\ d \in {"approved", "rejected"}
      /\ updates[worker.offset].card = card /\ T!Current' = T!Current
  BY <1>1, PressedApproval DEF T!Current
<1>3. /\ approval' = approval \/ (approval[a] = "pending" /\ approval' = [approval EXCEPT ![a] = d])
      /\ handler' = "idle" \/ (handler' = "show" /\ approval' = [approval EXCEPT ![a] = d])
      /\ faults' = faults \/ T!Fault("call")
  BY DEF T!Decide, T!NoFault
<1> HIDE DEF card, a, d
<1>4. /\ faults' \in [T!Faults -> Nat] /\ faults'["restart"] = faults["restart"]
      /\ faults'["call"] >= faults["call"] /\ faults'["setup"] = faults["setup"]
      /\ faults["restart"] \in Nat /\ faults["call"] \in Nat /\ faults'["call"] \in Nat
  BY <1>3, FaultCounts DEF TelegramTypes, T!Faults
<1>5. TelegramTypes'
  BY <1>1, <1>2, <1>3, <1>4 DEF TelegramTypes, Statuses
<1>6. HandlerKnowsItsUpdate'
  <2>1. handler' = "show" => approval'[a] = d
    BY <1>2, <1>3 DEF TelegramTypes
  <2>2. (T!Current.card)' = card /\ (chat[T!Current.card].approval)' = a /\ (T!Decisions[T!Current.choice])' = d
    BY <1>1, <1>2 DEF card, a, d, T!Current
  <2> QED BY <1>1, <1>3, <2>1, <2>2 DEF HandlerKnowsItsUpdate, Pressed
<1>7. CopiesCounted'
  <2> SUFFICES ASSUME NEW b \in Approvals
               PROVE  T!Copies(b)' <= Once(b \in worker'.notified) + faults'["restart"] + faults'["call"]
    BY <1>1 DEF CopiesCounted
  <2>1. T!Copies(b)' = T!Copies(b) /\ T!Copies(b) \in Nat
    BY <1>1, CopiesStay, CopiesAre, CopiesFinite DEF TelegramTypes
  <2>2. T!Copies(b) <= Once(b \in worker.notified) + faults["restart"] + faults["call"]
    BY DEF CopiesCounted
  <2> QED BY <1>1, <1>4, <2>1, <2>2 DEF Once
<1>8. RepliesCounted'
  BY <1>1, <1>3, <1>4 DEF RepliesCounted, Listening, Ahead
<1>9. CardsTell'
  BY <1>1, <1>2, <1>3, <1>5, DecisionsAreFinal DEF TelegramTypes
<1> QED BY <1>5, <1>6, <1>7, <1>8, <1>9

(* A card is edited after its decision was accepted. *)
LEMMA ShowKeeps == TelegramInv /\ T!Show => TelegramInv'
<1> SUFFICES ASSUME TelegramInv, T!Show PROVE TelegramInv'
  OBVIOUS
<1> USE DEF TelegramInv
<1> DEFINE card == T!Current.card
           d == T!Decisions[T!Current.choice]
<1>1. handler = "show" /\ handler' = "idle" /\ UNCHANGED <<approval, comments, updates, confirmed, worker, poll, refused>>
  BY DEF T!Show, T!paperclip
<1>2. /\ card \in DOMAIN chat /\ d \in {"approved", "rejected"} /\ approval[chat[card].approval] = d
  BY <1>1, PressedApproval DEF HandlerKnowsItsUpdate
<1>3. /\ chat' = chat \/ chat' = [chat EXCEPT ![card].face = d]
      /\ faults' = faults \/ T!Fault("call")
  BY DEF T!Show, T!NoFault
<1> HIDE DEF card, d
<1>4. /\ faults' \in [T!Faults -> Nat] /\ faults'["restart"] = faults["restart"]
      /\ faults'["call"] >= faults["call"] /\ faults'["setup"] = faults["setup"]
      /\ faults["restart"] \in Nat /\ faults["call"] \in Nat /\ faults'["call"] \in Nat
  BY <1>3, FaultCounts DEF TelegramTypes, T!Faults
<1>5. /\ chat' \in Seq(Cards) /\ DOMAIN chat' = DOMAIN chat
      /\ \A c \in DOMAIN chat : chat'[c].approval = chat[c].approval /\ chat'[c].face \in {chat[c].face, IF c = card THEN d ELSE chat[c].face}
  <2>1. CASE chat' = chat
    BY <2>1 DEF TelegramTypes
  <2>2. CASE chat' = [chat EXCEPT ![card].face = d]
    <3>1. \A c \in DOMAIN chat : chat[c] \in Cards
      BY DEF TelegramTypes
    <3>2. /\ DOMAIN chat' = DOMAIN chat
          /\ chat'[card] = [chat[card] EXCEPT !.face = d] /\ \A c \in DOMAIN chat : c # card => chat'[c] = chat[c]
      BY <1>2, <2>2
    <3>3. \A c \in DOMAIN chat : /\ chat'[c] \in Cards /\ chat'[c].approval = chat[c].approval
                                 /\ chat'[c].face = IF c = card THEN d ELSE chat[c].face
      BY <1>2, <3>1, <3>2 DEF Cards
    <3>4. DOMAIN chat = 1 .. Len(chat) /\ Len(chat) \in Nat
      BY DEF TelegramTypes
    <3>5. chat' \in [1 .. Len(chat) -> Cards]
      BY <2>2, <3>2, <3>3, <3>4
    <3> QED BY <3>2, <3>3, <3>4, <3>5
  <2> QED BY <1>3, <2>1, <2>2
<1>6. TelegramTypes'
  BY <1>1, <1>4, <1>5 DEF TelegramTypes
<1>7. HandlerKnowsItsUpdate'
  BY <1>1, <1>5 DEF HandlerKnowsItsUpdate, Pressed
<1>8. CopiesCounted'
  <2> SUFFICES ASSUME NEW b \in Approvals
               PROVE  T!Copies(b)' <= Once(b \in worker'.notified) + faults'["restart"] + faults'["call"]
    BY <1>1 DEF CopiesCounted
  <2>1. CopiesIn(chat', b) = CopiesIn(chat, b)
    BY <1>5 DEF CopiesIn
  <2>2. T!Copies(b)' = T!Copies(b) /\ T!Copies(b) \in Nat
    <3>1. T!Copies(b)' = Cardinality(CopiesIn(chat', b))
      BY TelegramCounts DEF T!Copies, CopiesIn
    <3> QED BY <2>1, <3>1, CopiesAre, CopiesFinite DEF TelegramTypes
  <2>3. T!Copies(b) <= Once(b \in worker.notified) + faults["restart"] + faults["call"]
    BY DEF CopiesCounted
  <2> QED BY <1>1, <1>4, <2>2, <2>3 DEF Once
<1>9. RepliesCounted'
  BY <1>1, <1>4 DEF RepliesCounted, Listening, Ahead
<1>10. CardsTell'
  BY <1>1, <1>2, <1>5 DEF CardsTell
<1> QED BY <1>6, <1>7, <1>8, <1>9, <1>10

(* A reply is forwarded from the place it was taken at. *)
LEMMA ForwardKeeps == TelegramInv /\ T!Forward => TelegramInv'
<1> SUFFICES ASSUME TelegramInv, T!Forward PROVE TelegramInv'
  OBVIOUS
<1> USE DEF TelegramInv
<1>1. handler = "reply" /\ handler' = "idle" /\ UNCHANGED <<approval, chat, updates, confirmed, worker, poll, refused>>
  BY DEF T!Forward, T!telegram
<1>2. /\ comments' = comments \/ comments' = [comments EXCEPT ![worker.offset] = @ + 1]
      /\ faults' = faults \/ T!Fault("call")
  BY DEF T!Forward, T!NoFault
<1>3. /\ faults' \in [T!Faults -> Nat] /\ faults'["restart"] = faults["restart"]
      /\ faults'["call"] >= faults["call"] /\ faults'["setup"] = faults["setup"]
      /\ faults["restart"] \in Nat /\ faults["call"] \in Nat /\ faults'["call"] \in Nat
  BY <1>2, FaultCounts DEF TelegramTypes, T!Faults
<1>4. TelegramTypes'
  <2>1. comments \in [1 .. MaxUpdates -> Nat]
    BY DEF TelegramTypes
  <2>2. comments' \in [1 .. MaxUpdates -> Nat]
    <3>1. CASE worker.offset \in 1 .. MaxUpdates
      BY <1>2, <2>1, <3>1
    <3>2. CASE worker.offset \notin 1 .. MaxUpdates
      BY <1>2, <2>1, <3>2
    <3> QED BY <3>1, <3>2
  <2> QED BY <1>1, <1>3, <2>2 DEF TelegramTypes
<1>5. HandlerKnowsItsUpdate'
  BY <1>1 DEF HandlerKnowsItsUpdate, Pressed
<1>6. CopiesCounted'
  <2> SUFFICES ASSUME NEW b \in Approvals
               PROVE  T!Copies(b)' <= Once(b \in worker'.notified) + faults'["restart"] + faults'["call"]
    BY <1>1 DEF CopiesCounted
  <2>1. T!Copies(b)' = T!Copies(b) /\ T!Copies(b) \in Nat
    BY <1>1, CopiesStay, CopiesAre, CopiesFinite DEF TelegramTypes
  <2>2. T!Copies(b) <= Once(b \in worker.notified) + faults["restart"] + faults["call"]
    BY DEF CopiesCounted
  <2> QED BY <1>1, <1>3, <2>1, <2>2 DEF Once
<1>7. RepliesCounted'
  <2>1. worker.offset \in Nat /\ worker.offset <= Len(updates) /\ faults["setup"] \in Nat /\ Len(updates) \in Nat
    BY DEF TelegramTypes, HandlerKnowsItsUpdate, T!Faults
  <2>2. \A u \in 1 .. MaxUpdates : comments'[u] = comments[u] \/ (u = worker.offset /\ comments'[u] = comments[u] + 1)
    BY <1>2 DEF TelegramTypes
  <2>3. \A u \in 1 .. MaxUpdates : u = worker.offset => comments[u] <= faults["setup"] /\ comments[u] \in Nat
    BY <1>1 DEF RepliesCounted, Ahead, TelegramTypes
  <2>4. \A u \in 1 .. MaxUpdates : comments'[u] <= 1 + faults'["setup"]
    BY <1>3, <2>1, <2>2, <2>3 DEF RepliesCounted
  <2>5. \A u \in 1 .. MaxUpdates : u > Len(updates) => comments'[u] = 0
    BY <2>1, <2>2 DEF RepliesCounted
  <2>6. \A u \in 1 .. MaxUpdates : Listening' /\ Ahead(u)' => comments'[u] <= faults'["setup"]
    BY <1>1, <1>3, <2>1, <2>2 DEF RepliesCounted, Listening, Ahead
  <2> QED BY <1>1, <2>4, <2>5, <2>6 DEF RepliesCounted
<1>8. CardsTell'
  BY <1>1 DEF CardsTell
<1> QED BY <1>4, <1>5, <1>6, <1>7, <1>8

(* The steps of people.  An approval is requested once and decided once.   *)
LEMMA RequestedKeeps == TelegramInv /\ T!Requested => TelegramInv'
<1> SUFFICES ASSUME TelegramInv, T!Requested PROVE TelegramInv'
  OBVIOUS
<1> USE DEF TelegramInv
<1>1. PICK a \in Approvals, s \in Statuses :
        /\ approval[a] \in {"absent", "pending"} /\ approval' = [approval EXCEPT ![a] = s]
  BY DEF T!Requested, Statuses
<1>2. UNCHANGED <<comments, chat, updates, confirmed, worker, poll, handler, refused, faults>>
  BY DEF T!Requested, T!telegram
<1>3. TelegramTypes'
  BY <1>1, <1>2 DEF TelegramTypes
<1>4. HandlerKnowsItsUpdate'
  <2>1. handler = "show" => T!Decisions[T!Current.choice] \in {"approved", "rejected"}
    BY PressedApproval
  <2>2. T!Current' = T!Current
    BY <1>2 DEF T!Current
  <2>3. handler = "show" => approval'[chat[T!Current.card].approval] = approval[chat[T!Current.card].approval]
    BY <1>1, <2>1, PressedApproval DEF HandlerKnowsItsUpdate, TelegramTypes
  <2>4. (approval[chat[T!Current.card].approval])' = approval'[chat[T!Current.card].approval]
    BY <1>2, <2>2
  <2>5. (T!Decisions[T!Current.choice])' = T!Decisions[T!Current.choice]
    BY <2>2
  <2> QED BY <1>2, <2>3, <2>4, <2>5 DEF HandlerKnowsItsUpdate, Pressed
<1>5. CopiesCounted'
  BY <1>2, CopiesStay DEF CopiesCounted
<1>6. RepliesCounted'
  BY <1>2 DEF RepliesCounted, Listening, Ahead
<1>7. CardsTell'
  BY <1>1, <1>2, <1>3, DecisionsAreFinal DEF TelegramTypes
<1> QED BY <1>3, <1>4, <1>5, <1>6, <1>7

LEMMA SomeoneActsKeeps == TelegramInv /\ T!SomeoneActs => TelegramInv'
<1> SUFFICES ASSUME TelegramInv, T!SomeoneActs PROVE TelegramInv'
  OBVIOUS
<1> USE DEF TelegramInv
<1>1. UNCHANGED <<approval, comments, chat, confirmed, worker, poll, handler, refused, faults>>
  BY DEF T!SomeoneActs, T!paperclip
<1>2. PICK u \in T!Acts : updates' = Append(updates, u)
  BY DEF T!SomeoneActs
<1>3. u \in Acts /\ (u.kind = "press" => u.card \in DOMAIN chat)
  BY DEF T!Acts, Acts, TelegramTypes
<1>4. /\ updates' \in Seq(Acts) /\ Len(updates) \in Nat /\ Len(updates') = Len(updates) + 1
      /\ DOMAIN updates = 1 .. Len(updates) /\ DOMAIN updates' = 1 .. Len(updates) + 1
      /\ \A i \in DOMAIN updates : updates'[i] = updates[i]
      /\ updates'[Len(updates) + 1] = u
  BY <1>2, <1>3 DEF TelegramTypes
<1>5. worker.offset \in Nat
  BY DEF TelegramTypes
<1>6. TelegramTypes'
  BY <1>1, <1>4 DEF TelegramTypes
<1>7. HandlerKnowsItsUpdate'
  BY <1>1, <1>3, <1>4, <1>5 DEF HandlerKnowsItsUpdate, Pressed, T!Current
<1>8. CopiesCounted'
  BY <1>1, CopiesStay DEF CopiesCounted
<1>9. RepliesCounted'
  BY <1>1, <1>4, CompanionsAssumption DEF RepliesCounted, Listening, Ahead
<1>10. CardsTell'
  BY <1>1 DEF CardsTell
<1> QED BY <1>6, <1>7, <1>8, <1>9, <1>10

LEMMA TelegramNext == TelegramInv /\ T!Next => TelegramInv'
  BY SetupKeeps, RestartKeeps, PollListKeeps, PollSendKeeps, TakeKeeps, DecideKeeps, ShowKeeps, ForwardKeeps,
     RequestedKeeps, SomeoneActsKeeps DEF T!Next, T!Poller, T!UpdateLoop

(* What the cards of an approval, the copies of a reply and a card tell.   *)
LEMMA TelegramHonest == TelegramInv => T!CardsAreHonest
<1> SUFFICES ASSUME TelegramInv PROVE T!CardsAreHonest
  OBVIOUS
<1>1. ASSUME NEW a \in Approvals PROVE T!Copies(a) <= 1 + faults["restart"] + faults["call"]
  <2>1. faults["restart"] \in Nat /\ faults["call"] \in Nat /\ T!Copies(a) \in Nat
    BY CopiesAre, CopiesFinite DEF TelegramInv, TelegramTypes, T!Faults
  <2> QED BY <2>1 DEF TelegramInv, CopiesCounted, Once
<1> QED BY <1>1 DEF T!CardsAreHonest, TelegramInv, RepliesCounted, CardsTell

-----------------------------------------------------------------------------
(* 4. The intake of a heartbeat.                                           *)

IssueRecords == [text : Nat, status : {"backlog", "in_progress", "done", "cancelled"},
                 owner : {"orchestrator", "worker", "person", "none"}]
Files == [text : Nat, filled : BOOLEAN, header : Nat, place : {"backlog", "resolved", "none"}]
Places == {"idle", "check", "sync", "create", "describe", "own", "archive"}
Lists == UNION {[S -> IssueRecords] : S \in SUBSET Nat}
Lanes == [at : Places, known : SUBSET Nat, seen : Lists]

BacklogTypes ==
  /\ \E n \in Nat : issues \in [1 .. n -> IssueRecords]
  /\ remote \in [Projects -> Files] /\ local \in [Projects -> Files]
  /\ dirty \in [Projects -> BOOLEAN]
  /\ lane \in [Projects -> Lanes]
  /\ unread \in Nat

(* A lane that is to write an issue has one in hand, and a file.           *)
Keeps(p) == lane[p].at \in {"describe", "own"}
Creates(p) == lane[p].at = "create"
LanesHold ==
  /\ \A p \in Projects : (local[p].place = "none") <=> (remote[p].place = "none")
  /\ \A p \in Projects : Keeps(p) => \E k \in DOMAIN issues : lane[p].known = {k}
  /\ \A p \in Projects : Keeps(p) \/ Creates(p) => remote[p].place # "none"

Keepers == {p \in Projects : Keeps(p)}
Creators == {p \in Projects : Creates(p)}
Kept == UNION {lane[p].known : p \in Keepers}
Live == B!Alive \cup Kept
IssuesCounted == Cardinality(Live) + Cardinality(Creators) <= Cardinality(B!Holders) + unread

BacklogInv == BacklogTypes /\ LanesHold /\ IssuesCounted

LEMMA BacklogCounts == \A S : B!Cardinality(S) = Cardinality(S)
  BY DEF B!Cardinality, Cardinality

(* What is counted is finite.                                              *)
LEMMA CountedFinite ==
  ASSUME BacklogTypes, LanesHold
  PROVE  /\ IsFiniteSet(Live) /\ IsFiniteSet(Creators) /\ IsFiniteSet(Keepers) /\ IsFiniteSet(B!Holders)
         /\ Cardinality(Live) \in Nat /\ Cardinality(Creators) \in Nat /\ Cardinality(B!Holders) \in Nat
         /\ Live \subseteq DOMAIN issues
<1>1. PICK n \in Nat : issues \in [1 .. n -> IssueRecords]
  BY DEF BacklogTypes
<1>2. B!Alive \subseteq 1 .. n
  BY <1>1 DEF B!Alive, B!Reusable
<1>3. Kept \subseteq 1 .. n
  BY <1>1 DEF Kept, Keepers, LanesHold
<1>4. IsFiniteSet(Live)
  <2>1. IsFiniteSet(1 .. n)
    BY FS_Interval
  <2>2. Live \subseteq 1 .. n
    BY <1>2, <1>3 DEF Live
  <2> QED BY <2>1, <2>2, FS_Subset
<1>5. Creators \subseteq Projects /\ Keepers \subseteq Projects /\ B!Holders \subseteq Projects
  BY DEF Creators, Keepers, B!Holders
<1>6. IsFiniteSet(Creators) /\ IsFiniteSet(Keepers) /\ IsFiniteSet(B!Holders)
  BY <1>5, FS_Subset, CompanionsAssumption
<1> QED BY <1>1, <1>2, <1>3, <1>4, <1>6, FS_CardinalityType DEF Live

(* A step on which nothing is added to what is counted.                    *)
LEMMA NothingAdded ==
  ASSUME BacklogInv, BacklogTypes', LanesHold', Live' \subseteq Live, Creators' \subseteq Creators,
         \A p \in Projects : (remote'[p].place = "none") <=> (remote[p].place = "none"),
         unread' >= unread
  PROVE  BacklogInv'
<1>1. B!Holders' = B!Holders
  BY DEF B!Holders
<1>2. Cardinality(Live') <= Cardinality(Live) /\ Cardinality(Live') \in Nat
  BY CountedFinite, FS_Subset, FS_CardinalityType DEF BacklogInv
<1>3. Cardinality(Creators') <= Cardinality(Creators) /\ Cardinality(Creators') \in Nat
  BY CountedFinite, FS_Subset, FS_CardinalityType DEF BacklogInv
<1>4. unread \in Nat /\ unread' \in Nat
  BY DEF BacklogInv, BacklogTypes
<1>5. IssuesCounted'
  BY <1>1, <1>2, <1>3, <1>4, CountedFinite DEF BacklogInv, IssuesCounted
<1> QED BY <1>5 DEF BacklogInv

(* The issues in hand are no more than the lanes that hold them.           *)
LEMMA OneEach ==
  ASSUME BacklogTypes, LanesHold
  PROVE  IsFiniteSet(Kept) /\ Cardinality(Kept) <= Cardinality(Keepers)
<1> DEFINE f == [p \in Keepers |-> CHOOSE k : lane[p].known = {k}]
<1>1. \A p \in Keepers : \E k : lane[p].known = {k}
  BY DEF Keepers, LanesHold
<1>2. \A p \in Keepers : lane[p].known = {f[p]}
  BY <1>1
<1>3. Kept = {f[p] : p \in Keepers}
  BY <1>2 DEF Kept
<1>4. f \in Surjection(Keepers, Kept)
  BY <1>3 DEF Surjection
<1> QED BY <1>4, FS_Surjection, CountedFinite

(* What a list of issues looks like, and what a file resolves to in it.    *)
LEMMA ListTypes ==
  ASSUME BacklogTypes
  PROVE  issues \in Lists /\ B!NoIssues \in Lists /\ DOMAIN issues \subseteq Nat
<1>1. PICK n \in Nat : issues \in [1 .. n -> IssueRecords]
  BY DEF BacklogTypes
<1>2. {} \in SUBSET Nat /\ B!NoIssues \in [{} -> IssueRecords]
  BY DEF B!NoIssues
<1>3. 1 .. n \in SUBSET Nat
  OBVIOUS
<1> QED BY <1>1, <1>2, <1>3 DEF Lists

LEMMA IdleType == B!Idle \in Lanes
<1>1. {} \in SUBSET Nat /\ B!NoIssues \in [{} -> IssueRecords]
  BY DEF B!NoIssues
<1> QED BY <1>1 DEF B!Idle, Lanes, Lists, Places

LEMMA BacklogInit == B!Init => BacklogInv
<1> SUFFICES ASSUME B!Init PROVE BacklogInv
  OBVIOUS
<1>1. PICK first \in Projects, other \in {"backlog", "none"}, copied \in {0, B!Foreign} :
        remote = [p \in Projects |-> IF p = first THEN [B!File("backlog") EXCEPT !.header = copied] ELSE B!File(other)]
  BY DEF B!Init
<1>2. /\ issues = B!NoIssues /\ local = remote /\ dirty = [p \in Projects |-> FALSE]
      /\ lane = [p \in Projects |-> B!Idle] /\ unread = 0
  BY DEF B!Init
<1>3. BacklogTypes
  <2>1. issues \in [1 .. 0 -> IssueRecords]
    BY <1>2 DEF B!NoIssues
  <2>2. copied \in Nat
    BY CompanionsAssumption DEF B!Foreign
  <2>3. remote \in [Projects -> Files]
    BY <1>1, <2>2 DEF B!File, Files
  <2> QED BY <1>2, <2>1, <2>3, IdleType DEF BacklogTypes
<1>4. LanesHold
  BY <1>2 DEF LanesHold, Keeps, Creates, B!Idle
<1>5. Live = {} /\ Creators = {}
  BY <1>2 DEF Live, Kept, Keepers, Keeps, Creators, Creates, B!Idle, B!Alive, B!Reusable, B!NoIssues
<1>6. IssuesCounted
  BY <1>2, <1>3, <1>4, <1>5, CountedFinite, FS_EmptySet DEF IssuesCounted
<1> QED BY <1>3, <1>4, <1>6 DEF BacklogInv

LEMMA BacklogStutter == BacklogInv /\ UNCHANGED backlog => BacklogInv'
<1> SUFFICES ASSUME BacklogInv, UNCHANGED backlog PROVE BacklogInv'
  OBVIOUS
<1>1. BacklogTypes' /\ LanesHold'
  BY DEF BacklogInv, BacklogTypes, LanesHold, Keeps, Creates, backlog
<1>2. Live' = Live /\ Creators' = Creators
  BY DEF Live, Kept, Keepers, Keeps, Creators, Creates, B!Alive, B!Reusable, backlog
<1>3. unread' >= unread /\ UNCHANGED remote
  BY DEF backlog, BacklogInv, BacklogTypes
<1> QED BY <1>1, <1>2, <1>3, NothingAdded

(* A lane goes on without an issue in hand, and nothing else moves.        *)
LEMMA LaneGoes ==
  ASSUME BacklogInv, NEW p \in Projects, NEW l \in Lanes, l.at \notin {"create", "describe", "own"},
         lane' = [lane EXCEPT ![p] = l]
  PROVE  /\ lane' \in [Projects -> Lanes]
         /\ \A q \in Projects : Keeps(q)' => Keeps(q) /\ lane'[q].known = lane[q].known
         /\ \A q \in Projects : Creates(q)' => Creates(q)
         /\ Creators' \subseteq Creators /\ Kept' \subseteq Kept
<1>1. lane \in [Projects -> Lanes]
  BY DEF BacklogInv, BacklogTypes
<1>2. lane'[p] = l /\ \A q \in Projects : q # p => lane'[q] = lane[q]
  BY <1>1
<1>3. \A q \in Projects : Keeps(q)' => Keeps(q) /\ lane'[q].known = lane[q].known
  BY <1>2 DEF Keeps
<1>4. \A q \in Projects : Creates(q)' => Creates(q)
  BY <1>2 DEF Creates
<1> QED BY <1>1, <1>3, <1>4 DEF Creators, Kept, Keepers

(* A lane that changes its place keeps what it knows. *)
LEMMA LaneMoved ==
  ASSUME BacklogInv, NEW p \in Projects, NEW at \in Places, B!Goes(p, at)
  PROVE  /\ lane' = [lane EXCEPT ![p] = [lane[p] EXCEPT !.at = at]]
         /\ [lane[p] EXCEPT !.at = at] \in Lanes /\ [lane[p] EXCEPT !.at = at].at = at
         /\ [lane[p] EXCEPT !.at = at].known = lane[p].known
<1>1. lane[p] \in Lanes
  BY DEF BacklogInv, BacklogTypes
<1> QED BY <1>1 DEF B!Goes, Lanes

(* The lanes start and stop, with nothing in hand.                         *)
LEMMA RunKeeps ==
  ASSUME BacklogInv, UNCHANGED <<issues, remote, local, dirty, unread>>,
         lane' \in [Projects -> Lanes], \A p \in Projects : lane'[p].at \in {"check", "idle"}
  PROVE  BacklogInv'
<1>1. BacklogTypes'
  BY DEF BacklogInv, BacklogTypes
<1>2. Keepers' = {} /\ Creators' = {} /\ \A p \in Projects : ~Keeps(p)' /\ ~Creates(p)'
  BY DEF Keepers, Creators, Keeps, Creates
<1>3. LanesHold'
  BY <1>2 DEF BacklogInv, LanesHold
<1>4. Live' \subseteq Live
  BY <1>2 DEF Live, Kept, B!Alive, B!Reusable
<1>5. unread' >= unread
  BY DEF BacklogInv, BacklogTypes
<1> QED BY <1>1, <1>2, <1>3, <1>4, <1>5, NothingAdded

LEMMA StartsAndStopsKeep == BacklogInv /\ (B!Timer \/ B!ScopedWake \/ B!HeartbeatDies) => BacklogInv'
<1> SUFFICES ASSUME BacklogInv, B!Timer \/ B!ScopedWake \/ B!HeartbeatDies PROVE BacklogInv'
  OBVIOUS
<1>1. [B!Idle EXCEPT !.at = "check"] \in Lanes /\ [B!Idle EXCEPT !.at = "check"].at = "check"
      /\ B!Idle \in Lanes /\ B!Idle.at = "idle"
  BY IdleType DEF Lanes, Places, B!Idle
<1>2. UNCHANGED <<issues, remote, local, dirty, unread>>
  BY DEF B!Timer, B!ScopedWake, B!HeartbeatDies, B!Run, B!files
<1>3. \/ lane' = [p \in Projects |-> B!Idle]
      \/ \E ps : lane' = [p \in Projects |-> IF p \in ps THEN [B!Idle EXCEPT !.at = "check"] ELSE B!Idle]
  BY DEF B!Timer, B!ScopedWake, B!HeartbeatDies, B!Run
<1>4. lane' \in [Projects -> Lanes] /\ \A p \in Projects : lane'[p].at \in {"check", "idle"}
  BY <1>1, <1>3
<1> QED BY <1>2, <1>4, RunKeeps

(* A lane without an issue in hand touches only its own file.              *)
LEMMA FileStepKeeps ==
  ASSUME BacklogInv, NEW p \in Projects, NEW l \in Lanes, l.at \notin {"create", "describe", "own"},
         lane' = [lane EXCEPT ![p] = l], UNCHANGED <<issues, remote>>,
         NEW f \in Files, local' = [local EXCEPT ![p] = f],
         (f.place = "none") <=> (local[p].place = "none"),
         dirty' \in [Projects -> BOOLEAN], unread' \in Nat, unread' >= unread
  PROVE  BacklogInv'
<1>1. /\ lane' \in [Projects -> Lanes]
      /\ \A q \in Projects : Keeps(q)' => Keeps(q) /\ lane'[q].known = lane[q].known
      /\ \A q \in Projects : Creates(q)' => Creates(q)
      /\ Creators' \subseteq Creators /\ Kept' \subseteq Kept
  BY LaneGoes
<1>2. local \in [Projects -> Files]
  BY DEF BacklogInv, BacklogTypes
<1>3. local' \in [Projects -> Files] /\ local'[p] = f /\ \A q \in Projects : q # p => local'[q] = local[q]
  BY <1>2
<1>4. BacklogTypes'
  BY <1>1, <1>3 DEF BacklogInv, BacklogTypes
<1>5. LanesHold'
  BY <1>1, <1>3 DEF BacklogInv, LanesHold
<1>6. Live' \subseteq Live
  BY <1>1 DEF Live, B!Alive, B!Reusable
<1> QED BY <1>1, <1>4, <1>5, <1>6, NothingAdded

LEMMA CheckKeeps == ASSUME BacklogInv, NEW p \in Projects, B!Check(p) PROVE BacklogInv'
<1>1. lane[p].at = "check" /\ UNCHANGED <<issues, remote, dirty, unread>>
  BY DEF B!Check
<1>2. PICK at \in {"sync", "archive"} : B!Goes(p, at)
  BY DEF B!Check
<1>3. PICK f \in {local[p], remote[p]} : local' = [local EXCEPT ![p] = f]
  <2>1. local = [local EXCEPT ![p] = local[p]]
    BY DEF BacklogInv, BacklogTypes
  <2> QED BY <2>1 DEF B!Check
<1>4. f \in Files /\ ((f.place = "none") <=> (local[p].place = "none"))
  BY <1>3 DEF BacklogInv, BacklogTypes, LanesHold
<1>5. dirty' \in [Projects -> BOOLEAN] /\ unread' \in Nat /\ unread' >= unread
  BY <1>1 DEF BacklogInv, BacklogTypes
<1>6. at \in Places
  BY DEF Places
<1> DEFINE l == [lane[p] EXCEPT !.at = at]
<1>7. lane' = [lane EXCEPT ![p] = l] /\ l \in Lanes /\ l.at = at
  BY <1>2, <1>6, LaneMoved
<1> HIDE DEF l
<1>8. l.at \notin {"create", "describe", "own"}
  BY <1>7
<1> QED BY <1>1, <1>3, <1>4, <1>5, <1>7, <1>8, FileStepKeeps

LEMMA NothingToSyncKeeps == ASSUME BacklogInv, NEW p \in Projects, B!NothingToSync(p) PROVE BacklogInv'
<1>1. UNCHANGED <<issues, remote, local, dirty, unread>> /\ B!Goes(p, "archive") /\ "archive" \in Places
  BY DEF B!NothingToSync, B!files, Places
<1>2. local[p] \in Files /\ local = [local EXCEPT ![p] = local[p]]
  BY DEF BacklogInv, BacklogTypes
<1>3. dirty' \in [Projects -> BOOLEAN] /\ unread' \in Nat /\ unread' >= unread
  BY <1>1 DEF BacklogInv, BacklogTypes
<1> DEFINE l == [lane[p] EXCEPT !.at = "archive"]
<1>4. lane' = [lane EXCEPT ![p] = l] /\ l \in Lanes /\ l.at = "archive"
  BY <1>1, LaneMoved
<1> HIDE DEF l
<1>5. l.at \notin {"create", "describe", "own"} /\ local' = [local EXCEPT ![p] = local[p]]
  BY <1>1, <1>2, <1>4
<1> QED BY <1>1, <1>2, <1>3, <1>4, <1>5, FileStepKeeps

LEMMA ArchiveKeeps == ASSUME BacklogInv, NEW p \in Projects, B!Archive(p) PROVE BacklogInv'
<1>1. UNCHANGED <<issues, remote, unread>> /\ lane' = [lane EXCEPT ![p] = B!Idle]
  BY DEF B!Archive, B!Rests
<1>2. local[p] \in Files /\ local = [local EXCEPT ![p] = local[p]] /\ dirty \in [Projects -> BOOLEAN]
      /\ local \in [Projects -> Files]
  BY DEF BacklogInv, BacklogTypes
<1>3. \/ UNCHANGED <<local, dirty>>
      \/ /\ local[p].place = "backlog" /\ local' = [local EXCEPT ![p].place = "resolved"]
         /\ dirty' = [dirty EXCEPT ![p] = TRUE]
  BY DEF B!Archive
<1>4. \E f \in Files : local' = [local EXCEPT ![p] = f] /\ ((f.place = "none") <=> (local[p].place = "none"))
  <2>1. CASE UNCHANGED local
    BY <1>2, <2>1
  <2>2. CASE local[p].place = "backlog" /\ local' = [local EXCEPT ![p].place = "resolved"]
    <3>1. [local[p] EXCEPT !.place = "resolved"] \in Files /\ [local[p] EXCEPT !.place = "resolved"].place = "resolved"
      BY <1>2 DEF Files
    <3>2. local' = [local EXCEPT ![p] = [local[p] EXCEPT !.place = "resolved"]]
      BY <2>2
    <3> QED BY <2>2, <3>1, <3>2
  <2> QED BY <1>3, <2>1, <2>2
<1>5. dirty' \in [Projects -> BOOLEAN]
  BY <1>2, <1>3
<1>6. unread' \in Nat /\ unread' >= unread
  BY <1>1 DEF BacklogInv, BacklogTypes
<1>7. B!Idle.at \notin {"create", "describe", "own"}
  BY DEF B!Idle
<1> QED BY <1>1, <1>4, <1>5, <1>6, <1>7, IdleType, FileStepKeeps

(* The header is written into the file. *)
LEMMA DeclaresFile ==
  ASSUME BacklogInv, NEW p \in Projects, NEW i \in Nat, B!Declares(p, i)
  PROVE  /\ local' \in [Projects -> Files] /\ dirty' \in [Projects -> BOOLEAN]
         /\ \A q \in Projects : local'[q].place = local[q].place
<1>1. local \in [Projects -> Files] /\ dirty \in [Projects -> BOOLEAN]
  BY DEF BacklogInv, BacklogTypes
<1>2. local' = [local EXCEPT ![p] = [local[p] EXCEPT !.header = i]] /\ dirty' = [dirty EXCEPT ![p] = TRUE]
  BY DEF B!Declares
<1>3. [local[p] EXCEPT !.header = i] \in Files /\ [local[p] EXCEPT !.header = i].place = local[p].place
  BY <1>1 DEF Files
<1> QED BY <1>1, <1>2, <1>3

(* The sync: an issue is in hand, or one is to be created, or neither.     *)
LEMMA SyncKeeps == ASSUME BacklogInv, NEW p \in Projects, B!Sync(p) PROVE BacklogInv'
<1>1. /\ lane[p].at = "sync" /\ local[p].place = "backlog" /\ UNCHANGED <<issues, remote>>
      /\ local' = [local EXCEPT ![p].filled = TRUE] /\ dirty' = [dirty EXCEPT ![p] = @ \/ ~local[p].filled]
  BY DEF B!Sync, B!Fills
<1>2. PICK read \in BOOLEAN :
        /\ IF read THEN UNCHANGED unread ELSE unread' = unread + 1
        /\ LET seen == IF read THEN issues ELSE B!NoIssues
               found == B!Resolution(p, seen)
               conflict == (read /\ local[p].header = B!Foreign) \/ B!Cardinality(found) > 1
               known == IF conflict THEN {} ELSE found
           IN  lane' = [lane EXCEPT ![p] =
                          [at |-> IF conflict THEN "archive" ELSE IF found = {} THEN "create" ELSE "describe",
                           known |-> known, seen |-> [i \in known |-> seen[i]]]]
  BY DEF B!Sync
<1> DEFINE seen == IF read THEN issues ELSE B!NoIssues
           found == B!Resolution(p, seen)
           conflict == (read /\ local[p].header = B!Foreign) \/ B!Cardinality(found) > 1
           known == IF conflict THEN {} ELSE found
           at == IF conflict THEN "archive" ELSE IF found = {} THEN "create" ELSE "describe"
           l == [at |-> at, known |-> known, seen |-> [i \in known |-> seen[i]]]
           f == [local[p] EXCEPT !.filled = TRUE]
<1>3. lane' = [lane EXCEPT ![p] = l]
  BY <1>2
<1>4. /\ local \in [Projects -> Files] /\ dirty \in [Projects -> BOOLEAN] /\ unread \in Nat
      /\ lane \in [Projects -> Lanes]
  BY DEF BacklogInv, BacklogTypes
<1>5. f \in Files /\ f.place = "backlog" /\ local' = [local EXCEPT ![p] = f]
  BY <1>1, <1>4 DEF Files
<1>6. dirty' \in [Projects -> BOOLEAN]
  BY <1>1, <1>4
<1>7. unread' \in Nat /\ unread' >= unread /\ (~read => unread' = unread + 1)
  BY <1>2, <1>4
<1>8. found \subseteq DOMAIN seen /\ found \subseteq B!Reusable(seen) /\ (read => found \subseteq B!Alive)
  BY DEF B!Resolution, B!Reusable, B!Alive
<1>9. DOMAIN seen \subseteq Nat /\ \A i \in DOMAIN seen : seen[i] \in IssueRecords
  BY ListTypes DEF Lists, BacklogInv, BacklogTypes, B!NoIssues
<1> HIDE DEF seen, found, conflict, f
<1>10. l \in Lanes
  <2>1. known \subseteq DOMAIN seen /\ known \in SUBSET Nat
    BY <1>8, <1>9
  <2>2. [i \in known |-> seen[i]] \in [known -> IssueRecords]
    BY <1>9, <2>1
  <2>3. [i \in known |-> seen[i]] \in Lists
    BY <2>1, <2>2 DEF Lists
  <2> QED BY <2>1, <2>3 DEF Lanes, Places
<1>11. CASE conflict
  <2>1. l.at = "archive"
    BY <1>11
  <2> QED BY <1>1, <1>3, <1>5, <1>6, <1>7, <1>10, <2>1, FileStepKeeps
<1>12. \A q \in Projects : q # p => lane'[q] = lane[q]
  BY <1>3, <1>4
<1>13. lane'[p] = l
  BY <1>3, <1>4
<1>14. BacklogTypes'
  <2>1. local' \in [Projects -> Files] /\ lane' \in [Projects -> Lanes]
    BY <1>3, <1>4, <1>5, <1>10
  <2> QED BY <1>1, <1>6, <1>7, <2>1 DEF BacklogInv, BacklogTypes
<1>15. remote[p].place # "none"
  BY <1>1 DEF BacklogInv, LanesHold
<1>16. \A q \in Projects : (local'[q].place = "none") <=> (remote'[q].place = "none")
  BY <1>1, <1>4, <1>5, <1>15 DEF BacklogInv, LanesHold
<1>17. CASE ~conflict /\ found # {}
  <2>1. l.at = "describe" /\ l.known = found
    BY <1>17
  <2>2. read
    BY <1>8, <1>17 DEF seen, B!NoIssues, B!Reusable
  <2>3. PICK k \in DOMAIN issues : found = {k} /\ k \in B!Alive
    <3>1. found \subseteq Live /\ found \subseteq B!Alive
      BY <1>8, <2>2 DEF Live
    <3>2. IsFiniteSet(found) /\ Cardinality(found) \in Nat
      BY <3>1, CountedFinite, FS_Subset, FS_CardinalityType DEF BacklogInv
    <3>3. Cardinality(found) <= 1 /\ Cardinality(found) # 0
      BY <1>17, <3>2, BacklogCounts, FS_EmptySet DEF conflict
    <3>4. \E k : found = {k}
      <4>1. Cardinality(found) = 1
        BY <3>2, <3>3
      <4> QED BY <3>2, <4>1, FS_Singleton
    <3> QED BY <3>1, <3>4 DEF B!Alive, B!Reusable
  <2>4. LanesHold'
    <3>1. \A q \in Projects : Keeps(q)' => \E j \in DOMAIN issues : lane'[q].known = {j}
      BY <1>12, <1>13, <2>1, <2>3 DEF Keeps, BacklogInv, LanesHold
    <3>2. \A q \in Projects : (Keeps(q) \/ Creates(q))' => remote[q].place # "none"
      BY <1>12, <1>15 DEF Keeps, Creates, BacklogInv, LanesHold
    <3> QED BY <1>1, <1>16, <3>1, <3>2 DEF LanesHold
  <2>5. Creators' \subseteq Creators
    BY <1>12, <1>13, <2>1 DEF Creators, Creates
  <2>6. Live' \subseteq Live
    <3>1. \A q \in Projects : Keeps(q)' => lane'[q].known \subseteq Live
      BY <1>12, <1>13, <2>1, <2>3 DEF Keeps, Live, Kept, Keepers
    <3>2. B!Alive' \subseteq Live
      BY <1>1 DEF B!Alive, B!Reusable, Live
    <3> QED BY <3>1, <3>2 DEF Live, Kept, Keepers
  <2> QED BY <1>1, <1>7, <1>14, <2>4, <2>5, <2>6, NothingAdded
<1>18. CASE ~conflict /\ found = {}
  <2>1. l.at = "create" /\ l.known = {}
    BY <1>18
  <2>2. p \notin Creators /\ p \notin Keepers
    BY <1>1 DEF Creators, Creates, Keepers, Keeps
  <2>3. Creators' = Creators \cup {p} /\ Keepers' = Keepers
    BY <1>12, <1>13, <2>1, <2>2 DEF Creators, Creates, Keepers, Keeps
  <2>4. Live' = Live /\ B!Holders' = B!Holders
    <3>1. Kept' = Kept
      <4>1. \A q \in Keepers : q \in Projects /\ lane'[q].known = lane[q].known
        BY <1>12, <2>2 DEF Keepers
      <4> QED BY <2>3, <4>1 DEF Kept
    <3> QED BY <1>1, <3>1 DEF Live, B!Alive, B!Reusable, B!Holders
  <2>5. LanesHold'
    <3>1. \A q \in Projects : Keeps(q)' => \E j \in DOMAIN issues : lane'[q].known = {j}
      BY <1>12, <1>13, <2>1 DEF Keeps, BacklogInv, LanesHold
    <3>2. \A q \in Projects : (Keeps(q) \/ Creates(q))' => remote[q].place # "none"
      BY <1>12, <1>15 DEF Keeps, Creates, BacklogInv, LanesHold
    <3> QED BY <1>1, <1>16, <3>1, <3>2 DEF LanesHold
  <2>6. Cardinality(Creators') = Cardinality(Creators) + 1
    BY <2>2, <2>3, CountedFinite, FS_AddElement DEF BacklogInv
  <2>7. Cardinality(Live) + Cardinality(Creators) + 1 <= Cardinality(B!Holders) + unread'
    <3>1. CASE ~read
      BY <1>4, <1>7, <3>1, CountedFinite DEF BacklogInv, IssuesCounted
    <3>2. CASE read
      <4>1. B!Alive = {}
        <5>1. seen = issues
          BY <3>2 DEF seen
        <5> QED BY <1>18, <5>1 DEF found, B!Resolution, B!Alive
      <4>2. Live = Kept
        BY <4>1 DEF Live
      <4>3. Creators \cap Keepers = {}
        BY DEF Creators, Creates, Keepers, Keeps
      <4>4. Creators \cup Keepers \cup {p} \subseteq B!Holders
        BY <1>15 DEF Creators, Keepers, B!Holders, BacklogInv, LanesHold
      <4>5. /\ IsFiniteSet(Creators \cup Keepers)
            /\ Cardinality(Creators \cup Keepers) = Cardinality(Creators) + Cardinality(Keepers)
        BY <4>3, CountedFinite, FS_Union, FS_EmptySet, FS_CardinalityType DEF BacklogInv
      <4>6. Cardinality((Creators \cup Keepers) \cup {p}) = Cardinality(Creators) + Cardinality(Keepers) + 1
        BY <2>2, <4>5, FS_AddElement
      <4>7. Cardinality((Creators \cup Keepers) \cup {p}) <= Cardinality(B!Holders)
        BY <4>4, CountedFinite, FS_Subset DEF BacklogInv
      <4>8. Cardinality(Live) <= Cardinality(Keepers)
        BY <4>2, OneEach DEF BacklogInv
      <4>9. Cardinality(Keepers) \in Nat
        BY CountedFinite, FS_CardinalityType DEF BacklogInv
      <4> QED BY <1>4, <1>7, <4>6, <4>7, <4>8, <4>9, CountedFinite DEF BacklogInv
    <3> QED BY <3>1, <3>2
  <2>8. IssuesCounted'
    <3>1. Cardinality(Live') + Cardinality(Creators') <= Cardinality(B!Holders') + unread'
      BY <1>7, <2>4, <2>6, <2>7, CountedFinite DEF BacklogInv
    <3> QED BY <3>1 DEF IssuesCounted
  <2> QED BY <1>14, <2>5, <2>8 DEF BacklogInv
<1> QED BY <1>11, <1>17, <1>18

(* A lane creates at most one issue, and is then none that is to create.   *)
LEMMA CreateKeeps == ASSUME BacklogInv, NEW p \in Projects, B!Create(p) PROVE BacklogInv'
<1> DEFINE i == B!Cardinality(DOMAIN issues) + 1
           new == [text |-> local[p].text, status |-> "backlog", owner |-> "orchestrator"]
           created == [j \in DOMAIN issues \cup {i} |-> IF j = i THEN new ELSE issues[j]]
<1>1. /\ lane[p].at = "create" /\ UNCHANGED <<remote, unread>> /\ B!Goes(p, "archive")
      /\ issues' \in {issues, created} /\ (UNCHANGED <<local, dirty>> \/ B!Declares(p, i))
  BY DEF B!Create
<1>2. PICK n \in Nat : issues \in [1 .. n -> IssueRecords]
  BY DEF BacklogInv, BacklogTypes
<1>3. i = n + 1 /\ DOMAIN issues = 1 .. n
  <2>1. Cardinality(1 .. n) = n
    BY FS_Interval
  <2> QED BY <1>2, <2>1, BacklogCounts
<1>4. new \in IssueRecords
  BY DEF IssueRecords, Files, BacklogInv, BacklogTypes
<1> HIDE DEF new
<1>5. created \in [1 .. n + 1 -> IssueRecords] /\ \A j \in 1 .. n : created[j] = issues[j]
  <2>1. DOMAIN issues \cup {i} = 1 .. n + 1
    BY <1>3
  <2> QED BY <1>2, <1>3, <1>4, <2>1
<1> HIDE DEF created
<1>6. i \in Nat
  BY <1>3
<1> HIDE DEF i
<1>7. /\ local' \in [Projects -> Files] /\ dirty' \in [Projects -> BOOLEAN]
      /\ \A q \in Projects : local'[q].place = local[q].place
  BY <1>1, <1>6, DeclaresFile DEF BacklogInv, BacklogTypes
<1> DEFINE l == [lane[p] EXCEPT !.at = "archive"]
<1>8. lane' = [lane EXCEPT ![p] = l] /\ l \in Lanes /\ l.at = "archive"
  BY <1>1, LaneMoved DEF Places
<1> HIDE DEF l
<1>9. /\ lane' \in [Projects -> Lanes]
      /\ \A q \in Projects : Keeps(q)' => Keeps(q) /\ lane'[q].known = lane[q].known
      /\ \A q \in Projects : Creates(q)' => Creates(q)
      /\ Creators' \subseteq Creators /\ Kept' \subseteq Kept
  BY <1>8, LaneGoes
<1>10. BacklogTypes'
  <2>1. \E m \in Nat : issues' \in [1 .. m -> IssueRecords]
    BY <1>1, <1>2, <1>5
  <2> QED BY <1>1, <1>7, <1>9, <2>1 DEF BacklogInv, BacklogTypes
<1>11. DOMAIN issues \subseteq DOMAIN issues'
  BY <1>1, <1>2, <1>5
<1>12. LanesHold'
  BY <1>1, <1>7, <1>9, <1>11 DEF BacklogInv, LanesHold
<1>13. Live' \subseteq Live \cup {i}
  <2>1. B!Alive' \subseteq B!Alive \cup {i}
    BY <1>1, <1>2, <1>3, <1>5 DEF B!Alive, B!Reusable
  <2> QED BY <1>9, <2>1 DEF Live
<1>14. p \in Creators /\ Creators' \subseteq Creators \ {p}
  <2>1. ~Creates(p)'
    BY <1>8 DEF BacklogInv, BacklogTypes, Creates
  <2> QED BY <1>1, <1>9, <2>1 DEF Creators, Creates
<1>15. IssuesCounted'
  <2>1. Cardinality(Live') <= Cardinality(Live) + 1
    <3>1. IsFiniteSet(Live) /\ Cardinality(Live) \in Nat
      BY CountedFinite DEF BacklogInv
    <3>2. IsFiniteSet(Live \cup {i}) /\ Cardinality(Live \cup {i}) <= Cardinality(Live) + 1 /\ Cardinality(Live \cup {i}) \in Nat
      BY <3>1, FS_AddElement, FS_CardinalityType
    <3>3. Cardinality(Live') <= Cardinality(Live \cup {i}) /\ Cardinality(Live') \in Nat
      BY <1>13, <3>2, FS_Subset, FS_CardinalityType
    <3> QED BY <3>1, <3>2, <3>3
  <2>2. Cardinality(Creators') <= Cardinality(Creators) - 1
    <3>1. IsFiniteSet(Creators) /\ Cardinality(Creators) \in Nat
      BY CountedFinite DEF BacklogInv
    <3>2. IsFiniteSet(Creators \ {p}) /\ Cardinality(Creators \ {p}) = Cardinality(Creators) - 1
      BY <1>14, <3>1, FS_RemoveElement
    <3> QED BY <1>14, <3>2, FS_Subset
  <2>3. B!Holders' = B!Holders /\ unread' = unread
    BY <1>1 DEF B!Holders
  <2>4. /\ Cardinality(Live) + Cardinality(Creators) <= Cardinality(B!Holders) + unread
        /\ Cardinality(Live) \in Nat /\ Cardinality(Creators) \in Nat /\ Cardinality(B!Holders) \in Nat /\ unread \in Nat
    BY CountedFinite DEF BacklogInv, IssuesCounted, BacklogTypes
  <2>5. Cardinality(Live') \in Nat /\ Cardinality(Creators') \in Nat
    BY <1>13, <1>14, CountedFinite, FS_Subset, FS_AddElement, FS_CardinalityType DEF BacklogInv
  <2> QED BY <2>1, <2>2, <2>3, <2>4, <2>5 DEF IssuesCounted
<1> QED BY <1>10, <1>12, <1>15 DEF BacklogInv

(* The issue in hand. *)
LEMMA KnownIssue ==
  ASSUME BacklogInv, NEW p \in Projects, Keeps(p)
  PROVE  B!Known(p) \in DOMAIN issues /\ lane[p].known = {B!Known(p)} /\ B!Known(p) \in Live /\ B!Known(p) \in Nat
<1>1. PICK k \in DOMAIN issues : lane[p].known = {k}
  BY DEF BacklogInv, LanesHold
<1>2. B!Known(p) = k
  BY <1>1 DEF B!Known
<1>3. k \in Live
  BY <1>1 DEF Live, Kept, Keepers
<1>4. k \in Nat
  BY ListTypes DEF BacklogInv
<1> QED BY <1>1, <1>2, <1>3, <1>4

(* The issue in hand is written; nothing else on the board changes.        *)
LEMMA PatchedBoard ==
  ASSUME BacklogInv, NEW k \in DOMAIN issues, NEW r \in IssueRecords,
         UNCHANGED issues \/ issues' = [issues EXCEPT ![k] = r]
  PROVE  /\ \E n \in Nat : issues' \in [1 .. n -> IssueRecords]
         /\ DOMAIN issues' = DOMAIN issues
         /\ \A j \in DOMAIN issues : j # k => issues'[j] = issues[j]
         /\ issues'[k] \in {issues[k], r}
  BY DEF BacklogInv, BacklogTypes

LEMMA DescribeKeeps == ASSUME BacklogInv, NEW p \in Projects, B!Describe(p) PROVE BacklogInv'
<1> DEFINE k == B!Known(p)
           r == [issues[k] EXCEPT !.text = local[p].text]
<1>1. /\ lane[p].at = "describe" /\ UNCHANGED <<remote, local, dirty, unread>> /\ B!Goes(p, "own") /\ Keeps(p)
      /\ UNCHANGED issues \/ issues' = [issues EXCEPT ![k] = r]
  BY DEF B!Describe, B!Patches, B!files, Keeps
<1>2. k \in DOMAIN issues
  BY <1>1, KnownIssue
<1>3. r \in IssueRecords /\ r.status = issues[k].status
  BY <1>2 DEF BacklogInv, BacklogTypes, IssueRecords, Files
<1> HIDE DEF r, k
<1>4. /\ \E n \in Nat : issues' \in [1 .. n -> IssueRecords]
      /\ DOMAIN issues' = DOMAIN issues
      /\ \A j \in DOMAIN issues : issues'[j].status = issues[j].status
  BY <1>1, <1>2, <1>3, PatchedBoard
<1> DEFINE l == [lane[p] EXCEPT !.at = "own"]
<1>5. lane' = [lane EXCEPT ![p] = l] /\ l \in Lanes /\ l.at = "own" /\ l.known = lane[p].known
  BY <1>1, LaneMoved DEF Places
<1> HIDE DEF l
<1>6. lane \in [Projects -> Lanes]
  BY DEF BacklogInv, BacklogTypes
<1>7. lane'[p] = l /\ \A q \in Projects : q # p => lane'[q] = lane[q]
  BY <1>5, <1>6
<1>8. \A q \in Projects : (Keeps(q)' <=> Keeps(q)) /\ (Creates(q)' <=> Creates(q)) /\ lane'[q].known = lane[q].known
  BY <1>1, <1>5, <1>7 DEF Keeps, Creates
<1>9. BacklogTypes'
  <2>1. lane' \in [Projects -> Lanes]
    BY <1>5, <1>6
  <2> QED BY <1>1, <1>4, <2>1 DEF BacklogInv, BacklogTypes
<1>10. LanesHold'
  BY <1>1, <1>4, <1>8 DEF BacklogInv, LanesHold
<1>11. Creators' \subseteq Creators
  BY <1>8 DEF Creators
<1>12. Live' \subseteq Live
  <2>1. Kept' \subseteq Kept
    BY <1>8 DEF Kept, Keepers
  <2>2. B!Alive' = B!Alive
    BY <1>4 DEF B!Alive, B!Reusable
  <2> QED BY <2>1, <2>2 DEF Live
<1>13. unread' >= unread
  BY <1>1 DEF BacklogInv, BacklogTypes
<1> QED BY <1>1, <1>9, <1>10, <1>11, <1>12, <1>13, NothingAdded

(* Taking an issue back can revive it, but it was counted as one in hand.  *)
LEMMA OwnKeeps == ASSUME BacklogInv, NEW p \in Projects, B!Own(p) PROVE BacklogInv'
<1> DEFINE k == B!Known(p)
           r == [issues[k] EXCEPT !.status = "backlog", !.owner = "orchestrator"]
<1>1. /\ lane[p].at = "own" /\ UNCHANGED <<remote, unread>> /\ B!Goes(p, "archive") /\ Keeps(p)
      /\ UNCHANGED issues \/ issues' = [issues EXCEPT ![k] = r]
      /\ UNCHANGED <<local, dirty>> \/ B!Declares(p, k)
  BY DEF B!Own, B!Patches, Keeps
<1>2. k \in DOMAIN issues /\ k \in Live /\ k \in Nat
  BY <1>1, KnownIssue
<1>3. r \in IssueRecords
  BY <1>2 DEF BacklogInv, BacklogTypes, IssueRecords
<1> HIDE DEF r, k
<1>4. /\ \E n \in Nat : issues' \in [1 .. n -> IssueRecords]
      /\ DOMAIN issues' = DOMAIN issues
      /\ \A j \in DOMAIN issues : j # k => issues'[j] = issues[j]
  BY <1>1, <1>2, <1>3, PatchedBoard
<1>5. /\ local' \in [Projects -> Files] /\ dirty' \in [Projects -> BOOLEAN]
      /\ \A q \in Projects : local'[q].place = local[q].place
  BY <1>1, <1>2, DeclaresFile DEF BacklogInv, BacklogTypes
<1> DEFINE l == [lane[p] EXCEPT !.at = "archive"]
<1>6. lane' = [lane EXCEPT ![p] = l] /\ l \in Lanes /\ l.at = "archive"
  BY <1>1, LaneMoved DEF Places
<1> HIDE DEF l
<1>7. /\ lane' \in [Projects -> Lanes]
      /\ \A q \in Projects : Keeps(q)' => Keeps(q) /\ lane'[q].known = lane[q].known
      /\ \A q \in Projects : Creates(q)' => Creates(q)
      /\ Creators' \subseteq Creators /\ Kept' \subseteq Kept
  BY <1>6, LaneGoes
<1>8. BacklogTypes'
  BY <1>1, <1>4, <1>5, <1>7 DEF BacklogInv, BacklogTypes
<1>9. LanesHold'
  BY <1>1, <1>4, <1>5, <1>7 DEF BacklogInv, LanesHold
<1>10. Live' \subseteq Live
  <2>1. B!Alive' \subseteq B!Alive \cup {k}
    BY <1>4 DEF B!Alive, B!Reusable
  <2> QED BY <1>2, <1>7, <2>1 DEF Live
<1>11. unread' >= unread
  BY <1>1 DEF BacklogInv, BacklogTypes
<1> QED BY <1>1, <1>7, <1>8, <1>9, <1>10, <1>11, NothingAdded

(* People move issues, and none of them brings a cancelled one back.       *)
LEMMA IssueMovesKeeps == BacklogInv /\ B!IssueMoves => BacklogInv'
<1> SUFFICES ASSUME BacklogInv, B!IssueMoves PROVE BacklogInv'
  OBVIOUS
<1>1. UNCHANGED <<remote, local, dirty, lane, unread>>
  BY DEF B!IssueMoves, B!files
<1>2. PICK k \in DOMAIN issues, s \in {"backlog", "in_progress", "done", "cancelled"},
           o \in {"orchestrator", "worker", "person", "none"} :
        /\ issues[k].status # "cancelled"
        /\ issues' = [issues EXCEPT ![k].status = s, ![k].owner = o]
  <2>1. \A k \in DOMAIN issues : issues[k].owner \in {"orchestrator", "worker", "person", "none"}
    BY DEF BacklogInv, BacklogTypes, IssueRecords
  <2> QED BY <2>1 DEF B!IssueMoves
<1> DEFINE r == [issues[k] EXCEPT !.status = s, !.owner = o]
<1>3. r \in IssueRecords /\ issues' = [issues EXCEPT ![k] = r]
  BY <1>2 DEF BacklogInv, BacklogTypes, IssueRecords
<1> HIDE DEF r
<1>4. /\ \E n \in Nat : issues' \in [1 .. n -> IssueRecords]
      /\ DOMAIN issues' = DOMAIN issues
      /\ \A j \in DOMAIN issues : j # k => issues'[j] = issues[j]
  BY <1>3, PatchedBoard
<1>5. BacklogTypes'
  BY <1>1, <1>4 DEF BacklogInv, BacklogTypes
<1>6. LanesHold'
  BY <1>1, <1>4 DEF BacklogInv, LanesHold, Keeps, Creates
<1>7. Live' \subseteq Live /\ Creators' \subseteq Creators
  <2>1. B!Alive' \subseteq B!Alive
    BY <1>2, <1>4 DEF B!Alive, B!Reusable
  <2>2. Kept' = Kept /\ Creators' = Creators
    BY <1>1 DEF Kept, Keepers, Keeps, Creators, Creates
  <2> QED BY <2>1, <2>2 DEF Live
<1>8. unread' >= unread
  BY <1>1 DEF BacklogInv, BacklogTypes
<1> QED BY <1>1, <1>5, <1>6, <1>7, <1>8, NothingAdded

(* People revise, publish and discard files, and none comes or goes.       *)
LEMMA FilesKeep ==
  ASSUME BacklogInv, UNCHANGED <<issues, lane, unread>>,
         remote' \in [Projects -> Files], local' \in [Projects -> Files], dirty' \in [Projects -> BOOLEAN],
         \A p \in Projects : (remote'[p].place = "none") <=> (remote[p].place = "none"),
         \A p \in Projects : (local'[p].place = "none") <=> (local[p].place = "none")
  PROVE  BacklogInv'
<1>1. BacklogTypes'
  BY DEF BacklogInv, BacklogTypes
<1>2. LanesHold'
  BY DEF BacklogInv, LanesHold, Keeps, Creates
<1>3. Live' = Live /\ Creators' = Creators
  BY DEF Live, B!Alive, B!Reusable, Kept, Keepers, Keeps, Creators, Creates
<1>4. unread' >= unread
  BY DEF BacklogInv, BacklogTypes
<1> QED BY <1>1, <1>2, <1>3, <1>4, NothingAdded

LEMMA ReviseKeeps == BacklogInv /\ B!Revise => BacklogInv'
<1> SUFFICES ASSUME BacklogInv, B!Revise PROVE BacklogInv'
  OBVIOUS
<1>1. PICK p \in Projects : remote' = [remote EXCEPT ![p].text = @ + 1]
  BY DEF B!Revise
<1>2. remote \in [Projects -> Files] /\ local \in [Projects -> Files] /\ dirty \in [Projects -> BOOLEAN]
  BY DEF BacklogInv, BacklogTypes
<1>3. UNCHANGED <<issues, local, dirty, lane, unread>>
  BY DEF B!Revise
<1>4. remote' \in [Projects -> Files] /\ \A q \in Projects : remote'[q].place = remote[q].place
  BY <1>1, <1>2 DEF Files
<1> QED BY <1>2, <1>3, <1>4, FilesKeep

LEMMA PublishKeeps == BacklogInv /\ B!Publish => BacklogInv'
<1> SUFFICES ASSUME BacklogInv, B!Publish PROVE BacklogInv'
  OBVIOUS
<1>1. PICK p \in Projects :
        /\ dirty' = [dirty EXCEPT ![p] = FALSE]
        /\ \/ LET merged == [local[p] EXCEPT !.text = remote[p].text]
              IN remote' = [remote EXCEPT ![p] = merged] /\ local' = [local EXCEPT ![p] = merged]
           \/ local' = [local EXCEPT ![p] = remote[p]] /\ UNCHANGED remote
  BY DEF B!Publish
<1>2. /\ remote \in [Projects -> Files] /\ local \in [Projects -> Files] /\ dirty \in [Projects -> BOOLEAN]
      /\ \A q \in Projects : (local[q].place = "none") <=> (remote[q].place = "none")
  BY DEF BacklogInv, BacklogTypes, LanesHold
<1>3. UNCHANGED <<issues, lane, unread>> /\ dirty' \in [Projects -> BOOLEAN]
  BY <1>1, <1>2 DEF B!Publish
<1> DEFINE merged == [local[p] EXCEPT !.text = remote[p].text]
<1>4. merged \in Files /\ merged.place = local[p].place
  BY <1>2 DEF Files
<1>5. \/ remote' = [remote EXCEPT ![p] = merged] /\ local' = [local EXCEPT ![p] = merged]
      \/ local' = [local EXCEPT ![p] = remote[p]] /\ UNCHANGED remote
  BY <1>1
<1> HIDE DEF merged
<1>6. /\ remote' \in [Projects -> Files] /\ local' \in [Projects -> Files]
      /\ \A q \in Projects : (remote'[q].place = "none") <=> (remote[q].place = "none")
      /\ \A q \in Projects : (local'[q].place = "none") <=> (local[q].place = "none")
  BY <1>2, <1>4, <1>5
<1> QED BY <1>3, <1>6, FilesKeep

LEMMA BacklogNext == BacklogInv /\ B!Next => BacklogInv'
  BY StartsAndStopsKeep, CheckKeeps, SyncKeeps, NothingToSyncKeeps, CreateKeeps, DescribeKeeps, OwnKeeps, ArchiveKeeps,
     IssueMovesKeeps, ReviseKeeps, PublishKeeps DEF B!Next, B!Lane, B!Others

LEMMA BacklogBounded == BacklogInv => B!OneIssuePerFile
<1> SUFFICES ASSUME BacklogInv PROVE B!OneIssuePerFile
  OBVIOUS
<1>1. Cardinality(B!Alive) <= Cardinality(Live) /\ Cardinality(B!Alive) \in Nat
  BY CountedFinite, FS_Subset, FS_CardinalityType DEF BacklogInv, Live
<1> QED BY <1>1, BacklogCounts, CountedFinite DEF B!OneIssuePerFile, BacklogInv, IssuesCounted, BacklogTypes

-----------------------------------------------------------------------------
(* 5. The parts side by side.                                              *)

Inv == TelegramInv /\ BacklogInv

LEMMA Inductive == Spec => []Inv
<1>1. Init => Inv
  BY TelegramInit, BacklogInit DEF Init, Inv
<1>2. Inv /\ [Next]_vars => Inv'
  <2> SUFFICES ASSUME Inv, [Next]_vars PROVE Inv'
    OBVIOUS
  <2>1. CASE T!Next /\ Telegram
    BY <2>1, TelegramNext, BacklogStutter DEF Inv, Telegram
  <2>2. CASE B!Next /\ Backlog
    BY <2>2, BacklogNext, TelegramStutter DEF Inv, Backlog
  <2>3. CASE UNCHANGED vars
    BY <2>3, TelegramStutter, BacklogStutter DEF Inv, vars
  <2> QED BY <2>1, <2>2, <2>3 DEF Next
<1> QED BY <1>1, <1>2, PTL DEF Spec

(* Whatever fails and whenever the worker restarts: an approval has one    *)
(* card and one more for each restart or lost response, a reply is         *)
(* forwarded once and once more for each start that lost its place, and a  *)
(* card never tells a decision Paperclip does not hold.                    *)
THEOREM CardsHonest == Spec => []CardsAreHonest
<1>1. Inv => CardsAreHonest
  BY TelegramHonest DEF Inv, CardsAreHonest
<1> QED BY <1>1, Inductive, PTL

(* However many projects run side by side and wherever a heartbeat dies,   *)
(* there are no more issues alive than files, but for one more each time   *)
(* the list of issues could not be read.                                   *)
THEOREM IssuesBounded == Spec => []OneIssuePerFile
<1>1. Inv => OneIssuePerFile
  BY BacklogBounded DEF Inv, OneIssuePerFile
<1> QED BY <1>1, Inductive, PTL
=============================================================================
