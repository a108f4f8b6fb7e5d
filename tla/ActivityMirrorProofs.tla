------------------------- MODULE ActivityMirrorProofs -------------------------
(***************************************************************************)
(* Proofs about ActivityMirror, for any number of activities, any overlap, *)
(* ring, number of pages, and any failures: an activity is not passed by.  *)
(*                                                                         *)
(* Why nothing is skipped: whatever a record lists as delivered is         *)
(* commented or needs no comment (RecordsKept); the cursor a run starts    *)
(* from, and the one it returns, are not beyond an activity that is due    *)
(* (DueAhead), because a run delivers the oldest first and stops at the    *)
(* first comment that fails (InOrder).                                     *)
(***************************************************************************)
EXTENDS ActivityMirror, SequenceTheorems, WellFoundedInduction, TLAPS

(* An activity that needs no further comment. *)
Settled(a) == kind[a] \notin Commented \/ a \in commented

Copies == {env, disk, mem}
RecordsKept ==
  \A r \in Copies :
    /\ Witnesses(r.scan) \subseteq visible
    /\ ToSet(r.ring) \subseteq visible /\ \A a \in ToSet(r.ring) : Settled(a)

DueAhead ==
  /\ \A a \in Activities : Due(a) => AfterCheckpoint(a, env)
  /\ pc # "idle" => \A a \in Activities : Due(a) => AfterCheckpoint(a, mem)

InOrder ==
  /\ done \in Seq(Activities) /\ (pc \notin {"mirror", "post"} => batch = {} /\ done = <<>>)
  /\ pc = "post" => batch # {}
  /\ \A d \in ToSet(done) :
       /\ Settled(d) /\ (\A b \in batch : d < b)
       /\ \A a \in Activities : Due(a) => d < a
  /\ pc \in {"mirror", "post"} => batch = {} \/ \A a \in Activities : Due(a) => a \in batch

MirrorInv == TypeOK /\ RecordsKept /\ DueAhead /\ InOrder

-----------------------------------------------------------------------------
(* 1. The ends of a set of activities, and the identities of a sequence.   *)

(* A set of numbers that is not empty has a least one. *)
LEMMA Least ==
  ASSUME NEW S \in SUBSET Nat, S # {}
  PROVE  Min(S) \in S /\ \A y \in S : Min(S) <= y
<1> DEFINE R == OpToRel(<, Nat)
<1>1. \A x, y \in Nat : x < y => <<x, y>> \in R
  BY DEF OpToRel
<1>2. IsWellFoundedOn(R, Nat)
  BY NatLessThanWellFounded
<1> HIDE DEF R
<1>3. PICK x \in S : \A y \in S : ~ (<<y, x>> \in R)
  BY <1>2, WFMin
<1>4. \A y \in S : x <= y
  <2> SUFFICES ASSUME NEW y \in S PROVE x <= y
    OBVIOUS
  <2>1. ~(y < x)
    BY <1>1, <1>3
  <2>2. x \in Nat /\ y \in Nat
    OBVIOUS
  <2> QED BY <2>1, <2>2
<1> QED BY <1>4 DEF Min

(* One below a bound has a greatest one. *)
LEMMA Greatest ==
  ASSUME NEW n \in Nat, NEW S \in SUBSET (0 .. n), S # {}
  PROVE  Max(S) \in S /\ \A y \in S : Max(S) >= y
<1> DEFINE T == {n - x : x \in S}
<1>1. T \in SUBSET Nat /\ T # {}
  <2>1. \A x \in S : n - x \in Nat
    OBVIOUS
  <2> QED BY <2>1
<1>2. Min(T) \in T /\ \A y \in T : Min(T) <= y
  BY <1>1, Least
<1>3. \E x \in S : \A y \in S : x >= y
  <2>1. PICK x \in S : Min(T) = n - x
    BY <1>2
  <2>2. \A y \in S : n - x <= n - y
    BY <1>2, <2>1
  <2> QED BY <2>2
<1> QED BY <1>3 DEF Max

(* The identities of a longer sequence, of two, and of a part of one. *)
LEMMA AppendSet ==
  ASSUME NEW S, NEW s \in Seq(S), NEW e \in S
  PROVE  Append(s, e) \in Seq(S) /\ ToSet(Append(s, e)) = ToSet(s) \cup {e}
<1>1. /\ Append(s, e) \in Seq(S) /\ DOMAIN Append(s, e) = 1 .. Len(s) + 1 /\ DOMAIN s = 1 .. Len(s)
      /\ \A i \in 1 .. Len(s) : Append(s, e)[i] = s[i]
      /\ Append(s, e)[Len(s) + 1] = e /\ Len(s) \in Nat
  BY LenProperties
<1>2. 1 .. Len(s) + 1 = (1 .. Len(s)) \cup {Len(s) + 1}
  BY <1>1
<1> QED BY <1>1, <1>2 DEF ToSet

LEMMA ConcatSet ==
  ASSUME NEW S, NEW s \in Seq(S), NEW t \in Seq(S)
  PROVE  s \o t \in Seq(S) /\ ToSet(s \o t) \subseteq ToSet(s) \cup ToSet(t)
<1>1. /\ s \o t \in Seq(S) /\ Len(s \o t) = Len(s) + Len(t) /\ Len(s) \in Nat /\ Len(t) \in Nat
      /\ DOMAIN (s \o t) = 1 .. Len(s) + Len(t) /\ DOMAIN s = 1 .. Len(s) /\ DOMAIN t = 1 .. Len(t)
      /\ \A i \in 1 .. Len(s) + Len(t) : (s \o t)[i] = IF i <= Len(s) THEN s[i] ELSE t[i - Len(s)]
  BY ConcatProperties, LenProperties
<1>2. ASSUME NEW i \in 1 .. Len(s) + Len(t)
      PROVE  (s \o t)[i] \in ToSet(s) \cup ToSet(t)
  <2>1. CASE i <= Len(s)
    BY <1>1, <2>1 DEF ToSet
  <2>2. CASE ~(i <= Len(s))
    <3>1. i - Len(s) \in 1 .. Len(t)
      BY <1>1, <2>2
    <3> QED BY <1>1, <2>2, <3>1 DEF ToSet
  <2> QED BY <2>1, <2>2
<1> QED BY <1>1, <1>2 DEF ToSet

LEMMA SuffixSet ==
  ASSUME NEW S, NEW s \in Seq(S), NEW m \in 1 .. Len(s) + 1
  PROVE  /\ SubSeq(s, m, Len(s)) \in Seq(S)
         /\ Len(SubSeq(s, m, Len(s))) = Len(s) - m + 1
         /\ ToSet(SubSeq(s, m, Len(s))) \subseteq ToSet(s)
<1>1. Len(s) \in Nat /\ DOMAIN s = 1 .. Len(s) /\ \A i \in m .. Len(s) : s[i] \in S
  BY LenProperties, ElementOfSeq
<1>2. /\ SubSeq(s, m, Len(s)) \in Seq(S)
      /\ Len(SubSeq(s, m, Len(s))) = IF m <= Len(s) THEN Len(s) - m + 1 ELSE 0
      /\ \A i \in 1 .. Len(s) - m + 1 : SubSeq(s, m, Len(s))[i] = s[m + i - 1]
  BY <1>1, SubSeqProperties
<1>3. Len(SubSeq(s, m, Len(s))) = Len(s) - m + 1
  BY <1>1, <1>2
<1>4. DOMAIN SubSeq(s, m, Len(s)) = 1 .. Len(s) - m + 1
  BY <1>2, <1>3, LenProperties
<1>5. \A i \in 1 .. Len(s) - m + 1 : m + i - 1 \in 1 .. Len(s)
  BY <1>1
<1> QED BY <1>1, <1>2, <1>3, <1>4, <1>5 DEF ToSet

(* A bounded sequence is one that is not longer than the bound. *)
LEMMA Bounded ==
  ASSUME NEW S, NEW n \in Nat
  PROVE  \A s : s \in BoundedSeq(S, n) <=> s \in Seq(S) /\ Len(s) <= n
<1> SUFFICES ASSUME NEW s PROVE s \in BoundedSeq(S, n) <=> s \in Seq(S) /\ Len(s) <= n
  OBVIOUS
<1>1. ASSUME s \in BoundedSeq(S, n) PROVE s \in Seq(S) /\ Len(s) <= n
  <2>1. PICK m \in 0 .. n : s \in [1 .. m -> S]
    BY <1>1 DEF BoundedSeq, SeqOf
  <2>2. m \in Nat /\ s \in Seq(S)
    BY <2>1, SeqDef
  <2>3. Len(s) = m
    BY <2>1, <2>2
  <2> QED BY <2>2, <2>3
<1>2. ASSUME s \in Seq(S), Len(s) <= n PROVE s \in BoundedSeq(S, n)
  <2>1. Len(s) \in Nat /\ s \in [1 .. Len(s) -> S]
    BY <1>2, LenProperties
  <2>2. Len(s) \in 0 .. n
    BY <1>2, <2>1
  <2> QED BY <2>1, <2>2 DEF BoundedSeq, SeqOf
<1> QED BY <1>1, <1>2

LEMMA EmptyBounded ==
  ASSUME NEW S, NEW n \in Nat
  PROVE  <<>> \in BoundedSeq(S, n) /\ <<>> \in Seq(S) /\ ToSet(<<>>) = {} /\ Len(<<>>) = 0
<1>1. <<>> \in Seq(S) /\ Len(<<>>) = 0
  BY EmptySeq
<1>2. DOMAIN <<>> = {}
  OBVIOUS
<1>3. ToSet(<<>>) = {}
  BY <1>2 DEF ToSet
<1>4. 0 <= n
  OBVIOUS
<1> QED BY <1>1, <1>3, <1>4, Bounded

(* The last of a set of activities is one of them. *)
LEMMA LastOfType ==
  ASSUME NEW S \in SUBSET Activities, NEW otherwise
  PROVE  LastOf(S, otherwise) \in S \cup {otherwise}
<1>1. S \in SUBSET Nat /\ S \in SUBSET (0 .. MaxActivities) /\ MaxActivities \in Nat
  BY BoundsAssumption DEF Activities
<1> QED BY <1>1, Least, Greatest DEF LastOf

-----------------------------------------------------------------------------
(* 2. What a run starts with.                                              *)

LEMMA Known ==
  ASSUME MirrorInv
  PROVE  /\ kind \in Seq(Kinds) /\ Len(kind) \in Nat /\ Len(kind) <= MaxActivities
         /\ visible \subseteq 1 .. Len(kind) /\ visible \subseteq Activities
         /\ Activities \subseteq Nat /\ None \in Nat /\ None \notin Activities
         /\ MaxActivities \in Nat /\ Overlap \in Nat /\ RingSize \in Nat
         /\ \A r \in Copies : r \in Records /\ r.cursor \in Nat
<1>1. MaxActivities \in Nat /\ Overlap \in Nat /\ RingSize \in Nat
  BY BoundsAssumption
<1>2. kind \in Seq(Kinds) /\ Len(kind) <= MaxActivities /\ visible \subseteq 1 .. Len(kind)
  BY <1>1, Bounded DEF MirrorInv, TypeOK
<1>3. Len(kind) \in Nat
  BY <1>2
<1>4. visible \subseteq Activities
  BY <1>1, <1>2, <1>3 DEF Activities
<1>5. Activities \subseteq Nat /\ None \in Nat /\ None \notin Activities
  BY <1>1 DEF Activities, None
<1>6. \A r \in Copies : r \in Records /\ r.cursor \in Nat
  BY <1>5 DEF MirrorInv, TypeOK, Copies, Records
<1> QED BY <1>1, <1>2, <1>3, <1>4, <1>5, <1>6

(* A record with the cursor of the envelope and one of the two rings. *)
Begins(r) ==
  /\ r \in Records /\ r.cursor = env.cursor /\ r.ring \in {env.ring, disk.ring}
  /\ Witnesses(r.scan) \subseteq visible

LEMMA NoScanType == NoScan \in Scans /\ Witnesses(NoScan) = {}
BY DEF NoScan, Scans, Witnesses

LEMMA MergeBegins ==
  ASSUME MirrorInv
  PROVE  /\ Begins(Merge(env, disk)) /\ Begins([Merge(env, disk) EXCEPT !.scan = NoScan])
         /\ \A r \in Session : Begins(r)
<1>1. env \in Records /\ disk \in Records
      /\ Witnesses(env.scan) \subseteq visible /\ Witnesses(disk.scan) \subseteq visible
  BY DEF MirrorInv, TypeOK, RecordsKept, Copies
<1> DEFINE r == Merge(env, disk)
<1>2. /\ r \in Records /\ r.cursor = env.cursor /\ r.ring \in {env.ring, disk.ring}
      /\ r.scan \in {env.scan, disk.scan}
  BY <1>1 DEF Merge, Records
<1>3. Begins(r)
  BY <1>1, <1>2 DEF Begins
<1> HIDE DEF r
<1>4. Begins([r EXCEPT !.scan = NoScan])
  BY <1>2, NoScanType DEF Begins, Records
<1> QED BY <1>3, <1>4 DEF Session, r

(* It selects whatever is due. *)
LEMMA DueSelected ==
  ASSUME MirrorInv, NEW r, Begins(r), NEW a \in Activities, Due(a)
  PROVE  a \in Selectable(r) /\ AfterCheckpoint(a, r)
<1>1. AfterCheckpoint(a, r)
  BY DEF MirrorInv, DueAhead, Begins, AfterCheckpoint
<1>2. a \notin ToSet(r.ring)
  <2>1. ~Settled(a)
    BY DEF Due, Settled, MirrorInv, TypeOK
  <2> QED BY <2>1 DEF MirrorInv, RecordsKept, Copies, Begins
<1> QED BY <1>1, <1>2 DEF Selectable

(* A scan that goes on has seen what it keeps. *)
LEMMA ScannedType ==
  ASSUME MirrorInv, NEW scan \in Scans, Witnesses(scan) \subseteq visible, NEW pages \in SUBSET visible
  PROVE  Scanned(scan, pages) \in Scans /\ Witnesses(Scanned(scan, pages)) \subseteq visible
<1> DEFINE completed == {a \in pages : kind[a] = "completed"}
           messages == {a \in pages : kind[a] = "message"}
           token == LastOf(pages, scan.token)
           completion == LastOf(completed, scan.completion)
           message == LastOf(messages, scan.message)
           later == LastOf({a \in messages : Precedes(completion, a)}, None)
           question == IF completed # {} THEN later
                       ELSE IF completion # None THEN LastOf(messages, scan.question) ELSE scan.question
           state == IF Unread(token) = {} THEN "complete" ELSE "partial"
<1>1. /\ scan.token \in Activities \cup {None} /\ scan.completion \in visible \cup {None}
      /\ scan.message \in visible \cup {None} /\ scan.question \in Activities \cup {None}
  BY DEF Scans, Witnesses
<1>2. pages \subseteq Activities /\ visible \subseteq Activities
  BY Known
<1>3. token \in Activities \cup {None}
  BY <1>1, <1>2, LastOfType
<1>4. completion \in visible \cup {None}
  <2>1. completed \in SUBSET Activities /\ completed \subseteq visible
    BY <1>2
  <2> HIDE DEF completed
  <2> QED BY <1>1, <2>1, LastOfType
<1>5. message \in visible \cup {None} /\ LastOf(messages, scan.question) \in Activities \cup {None}
  <2>1. messages \in SUBSET Activities /\ messages \subseteq visible
    BY <1>2
  <2> HIDE DEF messages
  <2> QED BY <1>1, <1>2, <2>1, LastOfType
<1>6. later \in Activities \cup {None}
  <2> DEFINE M == {a \in messages : Precedes(completion, a)}
  <2>1. M \in SUBSET Activities
    BY <1>2
  <2>2. later = LastOf(M, None)
    OBVIOUS
  <2> HIDE DEF M, later
  <2> QED BY <2>1, <2>2, LastOfType
<1>7. question \in Activities \cup {None}
  BY <1>1, <1>5, <1>6
<1>8. Scanned(scan, pages) = [state |-> state, token |-> token, completion |-> completion,
                              message |-> message, question |-> question]
  BY DEF Scanned
<1> HIDE DEF token, completion, message, question, state
<1>9. state \in {"none", "partial", "complete"}
  BY DEF state
<1> QED BY <1>2, <1>3, <1>4, <1>5, <1>7, <1>8, <1>9 DEF Scans, Witnesses

-----------------------------------------------------------------------------
(* 3. The reading of the activities.                                       *)

(* What a run selects of what it read holds everything that is still due.  *)
LEMMA DeliverStep ==
  ASSUME MirrorInv, pc = "idle", NEW S \in SUBSET visible, Begins(mem'), Deliver(S),
         UNCHANGED <<world, env, disk, done>>, faults' \subseteq Faults
  PROVE  MirrorInv'
<1>1. UNCHANGED <<order, kind, visible, terminal, commented, env, disk, done>>
  BY DEF world
<1>2. batch' = S \cap Selectable(mem') /\ shown' = (shown \cap S) \cup batch' /\ pc' = "mirror"
  BY DEF Deliver
<1>3. done = <<>> /\ ToSet(done) = {}
  BY EmptyBounded, Known DEF MirrorInv, InOrder
<1>4. TypeOK'
  <2>1. batch' \subseteq visible /\ shown' \subseteq visible
    BY <1>2
  <2> QED BY <1>1, <1>2, <2>1 DEF MirrorInv, TypeOK, Begins
<1>5. RecordsKept'
  <2>1. \A a \in visible : Settled(a)' <=> Settled(a)
    BY <1>1 DEF Settled
  <2>2. /\ Witnesses(mem'.scan) \subseteq visible /\ mem'.ring \in {env.ring, disk.ring}
    BY DEF Begins
  <2>3. \A r \in {env, disk} : /\ Witnesses(r.scan) \subseteq visible /\ ToSet(r.ring) \subseteq visible
                               /\ \A a \in ToSet(r.ring) : Settled(a)
    BY DEF MirrorInv, RecordsKept, Copies
  <2>4. ToSet(mem'.ring) \subseteq visible /\ \A a \in ToSet(mem'.ring) : Settled(a)
    BY <2>2, <2>3
  <2>5. Copies' = {env, disk, mem'}
    BY <1>1 DEF Copies
  <2> QED BY <1>1, <2>1, <2>2, <2>3, <2>4, <2>5 DEF RecordsKept
<1>6. ASSUME NEW a \in Activities, Due(a)'
      PROVE  a \in batch' /\ AfterCheckpoint(a, mem') /\ AfterCheckpoint(a, env)
  <2>1. a \in S /\ (a \in batch' \/ Due(a))
    BY <1>1, <1>2, <1>6 DEF Due
  <2>2. a \in Selectable(mem')
    BY <1>2, <2>1, DueSelected
  <2> QED BY <1>2, <2>1, <2>2 DEF Selectable, Begins, AfterCheckpoint
<1>7. DueAhead'
  BY <1>1, <1>6 DEF DueAhead, AfterCheckpoint
<1>8. InOrder'
  BY <1>1, <1>2, <1>3, <1>6 DEF InOrder, MirrorInv
<1> QED BY <1>4, <1>5, <1>7, <1>8 DEF MirrorInv

(* The pages of a session at work, and those of one that ended, which also *)
(* keeps its witnesses.                                                    *)
LEMMA PollLiveStep ==
  ASSUME MirrorInv, PollLive
  PROVE  MirrorInv'
<1>1. Pages(visible, MaxPages) \in SUBSET visible
  BY DEF Pages
<1>2. Begins(mem')
  BY MergeBegins DEF PollLive
<1> QED BY <1>1, <1>2, DeliverStep DEF PollLive, NoFault, MirrorInv, TypeOK

LEMMA PollTerminalStep ==
  ASSUME MirrorInv, PollTerminal
  PROVE  MirrorInv'
<1> DEFINE Read(r) == IF r.scan.state = "complete" THEN {} ELSE Pages(Unread(r.scan.token), MaxPages)
           Scan(r) == IF r.scan.state = "complete" THEN r.scan ELSE Scanned(r.scan, Read(r))
<1>1. PICK r \in Session : mem' = [r EXCEPT !.scan = Scan(r)] /\ Deliver(Read(r) \cup Witnesses(Scan(r)))
  BY DEF PollTerminal
<1>2. Begins(r)
  BY <1>1, MergeBegins
<1>3. Read(r) \in SUBSET visible
  BY DEF Pages, Unread
<1>4. r.scan \in Scans /\ Witnesses(r.scan) \subseteq visible
  BY <1>2 DEF Begins, Records
<1>5. Scan(r) \in Scans /\ Witnesses(Scan(r)) \subseteq visible
  <2> HIDE DEF Read
  <2> QED BY <1>3, <1>4, ScannedType
<1> DEFINE scan == Scan(r)
           S == Read(r) \cup Witnesses(scan)
<1>6. S \in SUBSET visible /\ Deliver(S)
  BY <1>1, <1>3, <1>5
<1> HIDE DEF S, scan, Scan
<1>7. scan \in Scans /\ Witnesses(scan) \subseteq visible /\ mem' = [r EXCEPT !.scan = scan]
  BY <1>1, <1>5 DEF scan
<1>8. Begins(mem')
  BY <1>2, <1>7 DEF Begins, Records
<1> QED BY <1>6, <1>8, DeliverStep DEF PollTerminal, NoFault, MirrorInv, TypeOK

(* Without the activities a run returns the record it began with. *)
LEMMA PollFailsStep ==
  ASSUME MirrorInv, PollFails
  PROVE  MirrorInv'
<1>1. /\ UNCHANGED <<order, kind, visible, terminal, commented, env, disk, batch, done, shown>>
      /\ pc = "idle" /\ pc' = "return" /\ faults' \subseteq Faults
  BY DEF PollFails, world, Fault, MirrorInv, TypeOK
<1>2. Begins(mem')
  BY MergeBegins DEF PollFails
<1>3. TypeOK'
  BY <1>1, <1>2 DEF MirrorInv, TypeOK, Begins
<1>4. RecordsKept'
  <2>1. \A a : Settled(a)' <=> Settled(a)
    BY <1>1 DEF Settled
  <2> QED BY <1>1, <1>2, <2>1 DEF MirrorInv, RecordsKept, Copies, Begins
<1>5. \A a : Due(a)' <=> Due(a)
  BY <1>1 DEF Due
<1>6. DueAhead'
  BY <1>1, <1>2, <1>5 DEF MirrorInv, DueAhead, AfterCheckpoint, Begins
<1>7. InOrder'
  <2>1. done = <<>> /\ batch = {} /\ ToSet(done) = {} /\ done \in Seq(Activities)
    BY <1>1, EmptyBounded, Known DEF MirrorInv, InOrder
  <2> QED BY <1>1, <2>1 DEF InOrder
<1> QED BY <1>3, <1>4, <1>6, <1>7 DEF MirrorInv

-----------------------------------------------------------------------------
(* 4. The delivery of the activities.                                      *)

(* The oldest of the batch. *)
LEMMA NextFacts ==
  ASSUME MirrorInv, batch # {}
  PROVE  Next1 \in batch /\ Next1 \in visible /\ Next1 \in Activities /\ \A b \in batch : Next1 <= b
<1>1. batch \subseteq visible /\ batch \in SUBSET Nat /\ visible \subseteq Activities
  BY Known DEF MirrorInv, TypeOK
<1> QED BY <1>1, Least DEF Next1

(* A comment that is posted is there, and takes no other away. *)
LEMMA PostedMore ==
  ASSUME MirrorInv, batch # {}, Posted
  PROVE  commented' \subseteq Activities /\ commented \subseteq commented' /\ Next1 \in commented'
BY NextFacts DEF Posted, MirrorInv, TypeOK

(* No step of the delivery makes another activity due, or takes back that  *)
(* one is settled.                                                         *)
Delivers ==
  /\ UNCHANGED <<order, kind, visible, terminal, env, disk, mem, shown>>
  /\ pc \in {"mirror", "post"} /\ pc' \in {"mirror", "post"} /\ faults' \subseteq Faults
  /\ commented' \subseteq Activities /\ commented \subseteq commented'

LEMMA DeliversKeeps ==
  ASSUME MirrorInv, Delivers
  PROVE  /\ \A a \in Activities : (Settled(a) => Settled(a)') /\ (Due(a)' => Due(a))
         /\ RecordsKept' /\ DueAhead'
<1>1. \A a \in Activities : (Settled(a) => Settled(a)') /\ (Due(a)' => Due(a))
  BY DEF Delivers, Settled, Due
<1>2. RecordsKept'
  <2>1. Copies' = Copies /\ visible' = visible
    BY DEF Delivers, Copies
  <2>2. visible \subseteq Activities
    BY Known
  <2> QED BY <1>1, <2>1, <2>2 DEF MirrorInv, RecordsKept
<1>3. DueAhead'
  BY <1>1 DEF Delivers, MirrorInv, DueAhead, AfterCheckpoint
<1> QED BY <1>1, <1>2, <1>3

(* One activity passes from the batch to those that are done. *)
LEMMA PassStep ==
  ASSUME MirrorInv, Delivers, pc' = "mirror", batch # {}, Passed, NEW n, n = Next1, Settled(n)'
  PROVE  MirrorInv'
<1>1. /\ n \in batch /\ n \in visible /\ n \in Activities /\ \A b \in batch : n <= b
      /\ batch \subseteq Activities /\ Activities \subseteq Nat
  BY NextFacts, Known DEF MirrorInv, TypeOK
<1>2. batch' = batch \ {n} /\ done' = Append(done, n)
  BY DEF Passed
<1>3. done' \in Seq(Activities) /\ ToSet(done') = ToSet(done) \cup {n} /\ ToSet(done) \subseteq visible
  BY <1>1, <1>2, AppendSet DEF MirrorInv, TypeOK, InOrder
<1>4. /\ \A a \in Activities : (Settled(a) => Settled(a)') /\ (Due(a)' => Due(a))
      /\ RecordsKept' /\ DueAhead'
  BY DeliversKeeps
<1>5. TypeOK'
  BY <1>1, <1>2, <1>3 DEF Delivers, MirrorInv, TypeOK
<1>6. \A b \in batch' : n < b
  BY <1>1, <1>2
<1>7. \A a \in Activities : Due(a)' => a \in batch'
  <2> SUFFICES ASSUME NEW a \in Activities, Due(a)' PROVE a \in batch'
    OBVIOUS
  <2>1. Due(a) /\ a \in batch
    BY <1>1, <1>4 DEF Delivers, MirrorInv, InOrder
  <2>2. ~Settled(a)'
    BY <2>1 DEF Settled, Due, Delivers
  <2> QED BY <1>2, <2>1, <2>2
<1>8. InOrder'
  <2>1. ASSUME NEW d \in ToSet(done')
        PROVE  Settled(d)' /\ (\A b \in batch' : d < b) /\ \A a \in Activities : Due(a)' => d < a
    <3>1. CASE d = n
      BY <1>6, <1>7, <3>1
    <3>2. CASE d \in ToSet(done)
      <4>1. d \in Activities
        BY <1>3, <3>2, Known
      <4> QED BY <1>2, <1>4, <3>2, <4>1 DEF MirrorInv, InOrder
    <3> QED BY <1>3, <2>1, <3>1, <3>2
  <2> QED BY <1>3, <1>7, <2>1 DEF InOrder, Delivers
<1> QED BY <1>4, <1>5, <1>8 DEF MirrorInv

(* The three ways an activity is passed. *)
LEMMA PassingSteps ==
  ASSUME MirrorInv, PassSilently \/ FindComment \/ PostComment
  PROVE  MirrorInv'
<1>1. batch # {} /\ Passed
  BY DEF PassSilently, FindComment, PostComment, MirrorInv, InOrder
<1> PICK n : n = Next1
  OBVIOUS
<1>2. n \in Activities /\ commented \subseteq Activities /\ faults \subseteq Faults
  BY <1>1, NextFacts DEF MirrorInv, TypeOK
<1>3. CASE PassSilently \/ FindComment
  <2>1. Delivers /\ pc' = "mirror" /\ commented' = commented /\ kind' = kind
    BY <1>2, <1>3 DEF PassSilently, FindComment, Delivers, world, NoFault
  <2>2. kind[n] \notin Commented \/ n \in commented
    BY <1>3 DEF PassSilently, FindComment
  <2>3. Settled(n)'
    BY <2>1, <2>2 DEF Settled
  <2> QED BY <1>1, <2>1, <2>3, PassStep
<1>4. CASE PostComment
  <2>1. commented' \subseteq Activities /\ commented \subseteq commented' /\ n \in commented'
    BY <1>1, <1>4, PostedMore DEF PostComment
  <2>2. Delivers /\ pc' = "mirror"
    BY <1>2, <1>4, <2>1 DEF PostComment, Delivers, NoFault
  <2>3. Settled(n)'
    BY <2>1 DEF Settled
  <2> QED BY <1>1, <2>2, <2>3, PassStep
<1> QED BY <1>3, <1>4

(* Between the list and the comment nothing is passed. *)
LEMMA MissCommentStep ==
  ASSUME MirrorInv, MissComment
  PROVE  MirrorInv'
<1>1. /\ UNCHANGED <<order, kind, visible, terminal, commented, env, disk, mem, batch, done, shown>>
      /\ pc = "mirror" /\ pc' = "post" /\ batch # {}
  BY DEF MissComment, world
<1>2. faults' \subseteq Faults
  BY DEF MissComment, Fault, NoFault, MirrorInv, TypeOK
<1>3. Delivers
  BY <1>1, <1>2 DEF Delivers, MirrorInv, TypeOK
<1>4. RecordsKept' /\ DueAhead'
  BY <1>3, DeliversKeeps
<1>5. TypeOK'
  BY <1>1, <1>2 DEF MirrorInv, TypeOK
<1>6. \A a : (Settled(a)' <=> Settled(a)) /\ (Due(a)' <=> Due(a))
  BY <1>1 DEF Settled, Due
<1>7. InOrder'
  BY <1>1, <1>6 DEF MirrorInv, InOrder
<1> QED BY <1>4, <1>5, <1>7 DEF MirrorInv

(* The first comment that fails ends the delivery. *)
LEMMA CommentFailsStep ==
  ASSUME MirrorInv, CommentFails
  PROVE  MirrorInv'
<1>1. batch # {} /\ batch' = {} /\ done' = done /\ pc = "post" /\ pc' = "mirror"
  BY DEF CommentFails, Break, MirrorInv, InOrder
<1>2. commented' \subseteq Activities /\ commented \subseteq commented'
  <2>1. Posted \/ commented' = commented
    BY DEF CommentFails
  <2> QED BY <1>1, <2>1, PostedMore DEF MirrorInv, TypeOK
<1>3. Delivers
  BY <1>1, <1>2 DEF CommentFails, Delivers, Fault, MirrorInv, TypeOK
<1>4. /\ \A a \in Activities : (Settled(a) => Settled(a)') /\ (Due(a)' => Due(a))
      /\ RecordsKept' /\ DueAhead'
  BY <1>3, DeliversKeeps
<1>5. TypeOK'
  BY <1>1, <1>3 DEF Delivers, MirrorInv, TypeOK
<1>6. InOrder'
  <2>1. ASSUME NEW d \in ToSet(done)
        PROVE  Settled(d)' /\ \A a \in Activities : Due(a)' => d < a
    <3>1. d \in Activities
      BY Known DEF MirrorInv, TypeOK
    <3> QED BY <1>4, <3>1 DEF MirrorInv, InOrder
  <2>2. done \in Seq(Activities)
    BY DEF MirrorInv, InOrder
  <2> QED BY <1>1, <1>3, <2>1, <2>2 DEF InOrder, Delivers
<1> QED BY <1>4, <1>5, <1>6 DEF MirrorInv

(* The cursor moves to an activity that is done, and the ring keeps the    *)
(* last of the identities.                                                 *)
LEMMA AdvancedType ==
  ASSUME MirrorInv
  PROVE  /\ Advanced(mem) \in Records /\ Advanced(mem).scan = mem.scan
         /\ Advanced(mem).cursor \in {mem.cursor} \cup ToSet(done)
         /\ ToSet(Advanced(mem).ring) \subseteq ToSet(mem.ring) \cup ToSet(done)
<1> DEFINE ids == mem.ring \o done
           from == IF Len(ids) > RingSize THEN Len(ids) - RingSize + 1 ELSE 1
           ring == SubSeq(ids, from, Len(ids))
           cursor == Max({mem.cursor} \cup ToSet(done))
<1>1. /\ mem \in Records /\ mem.cursor \in Activities \cup {None} /\ RingSize \in Nat
      /\ done \in Seq(Activities) /\ ToSet(done) \subseteq Activities
      /\ mem.ring \in BoundedSeq(Activities, RingSize) /\ mem.ring \in Seq(Activities)
  <2>1. mem \in Records /\ RingSize \in Nat /\ ToSet(done) \subseteq Activities /\ done \in Seq(Activities)
    BY Known DEF Copies, MirrorInv, TypeOK, InOrder
  <2>2. mem.ring \in BoundedSeq(Activities, RingSize) /\ mem.cursor \in Activities \cup {None}
    BY <2>1 DEF Records
  <2> QED BY <2>1, <2>2, Bounded
<1>2. cursor \in {mem.cursor} \cup ToSet(done)
  <2> DEFINE C == {mem.cursor} \cup ToSet(done)
  <2>1. C \in SUBSET (0 .. MaxActivities) /\ C # {} /\ MaxActivities \in Nat
    BY <1>1, Known DEF Activities, None
  <2> HIDE DEF C
  <2>2. Max(C) \in C
    BY <2>1, Greatest
  <2> QED BY <2>2 DEF C
<1>3. ids \in Seq(Activities) /\ ToSet(ids) \subseteq ToSet(mem.ring) \cup ToSet(done) /\ Len(ids) \in Nat
  <2>1. ids \in Seq(Activities) /\ ToSet(ids) \subseteq ToSet(mem.ring) \cup ToSet(done)
    BY <1>1, ConcatSet
  <2> HIDE DEF ids
  <2> QED BY <2>1, LenProperties
<1> HIDE DEF ids, cursor
<1>4. from \in 1 .. Len(ids) + 1 /\ Len(ids) - from + 1 <= RingSize
  BY <1>1, <1>3
<1> HIDE DEF from
<1>5. ring \in Seq(Activities) /\ Len(ring) <= RingSize /\ ToSet(ring) \subseteq ToSet(ids)
  <2>1. ring \in Seq(Activities) /\ Len(ring) = Len(ids) - from + 1 /\ ToSet(ring) \subseteq ToSet(ids)
    BY <1>3, <1>4, SuffixSet
  <2> HIDE DEF ring
  <2> QED BY <1>4, <2>1
<1> HIDE DEF ring
<1>6. ring \in BoundedSeq(Activities, RingSize)
  BY <1>1, <1>5, Bounded
<1>7. Advanced(mem) = [mem EXCEPT !.cursor = cursor, !.mirrored = TRUE, !.ring = ring]
  BY DEF Advanced, ids, from, ring, cursor
<1>8. cursor \in Activities \cup {None}
  BY <1>1, <1>2
<1> QED BY <1>1, <1>2, <1>3, <1>5, <1>6, <1>7, <1>8 DEF Records

LEMMA AdvanceStep ==
  ASSUME MirrorInv, Advance
  PROVE  MirrorInv'
<1>1. /\ UNCHANGED <<order, kind, visible, terminal, commented, env, batch, shown, faults>>
      /\ mem' = Advanced(mem) /\ disk' \in {disk, mem'} /\ pc = "mirror" /\ pc' = "return"
      /\ batch = {} /\ done' = <<>>
  BY DEF Advance, world, NoFault
<1>2. /\ mem' \in Records /\ mem'.scan = mem.scan
      /\ mem'.cursor \in {mem.cursor} \cup ToSet(done)
      /\ ToSet(mem'.ring) \subseteq ToSet(mem.ring) \cup ToSet(done)
  BY <1>1, AdvancedType
<1>3. done' \in Seq(Activities) /\ ToSet(done') = {}
  BY <1>1, EmptyBounded, Known
<1>4. \A a : (Settled(a)' <=> Settled(a)) /\ (Due(a)' <=> Due(a))
  BY <1>1 DEF Settled, Due
<1>5. TypeOK'
  BY <1>1, <1>2, <1>3 DEF MirrorInv, TypeOK
<1>6. RecordsKept'
  <2>1. /\ Witnesses(mem'.scan) \subseteq visible /\ ToSet(mem'.ring) \subseteq visible
        /\ \A a \in ToSet(mem'.ring) : Settled(a)
    BY <1>2 DEF MirrorInv, TypeOK, RecordsKept, Copies, InOrder
  <2>2. \A r \in {env, disk} : /\ Witnesses(r.scan) \subseteq visible /\ ToSet(r.ring) \subseteq visible
                               /\ \A a \in ToSet(r.ring) : Settled(a)
    BY DEF MirrorInv, RecordsKept, Copies
  <2>3. Copies' \subseteq {env, disk, mem'} /\ visible' = visible
    BY <1>1 DEF Copies
  <2> QED BY <1>4, <2>1, <2>2, <2>3 DEF RecordsKept
<1>7. DueAhead'
  <2>1. ASSUME NEW a \in Activities, Due(a)
        PROVE  AfterCheckpoint(a, mem') /\ AfterCheckpoint(a, env)
    <3>1. AfterCheckpoint(a, mem) /\ AfterCheckpoint(a, env)
      BY <1>1, <2>1 DEF MirrorInv, DueAhead
    <3>2. CASE mem'.cursor = mem.cursor
      BY <3>1, <3>2 DEF AfterCheckpoint
    <3>3. CASE mem'.cursor \in ToSet(done)
      <4>1. mem'.cursor < a
        BY <2>1, <3>3 DEF MirrorInv, InOrder
      <4>2. mem'.cursor \in Nat /\ a \in Nat /\ Overlap \in Nat
        BY <3>3, Known DEF MirrorInv, TypeOK
      <4>3. a + Overlap >= mem'.cursor
        BY <4>1, <4>2
      <4> QED BY <3>1, <4>3 DEF AfterCheckpoint
    <3> QED BY <1>2, <3>2, <3>3
  <2> QED BY <1>1, <1>4, <2>1 DEF DueAhead, AfterCheckpoint
<1>8. InOrder'
  BY <1>1, <1>3 DEF InOrder
<1> QED BY <1>5, <1>6, <1>7, <1>8 DEF MirrorInv

-----------------------------------------------------------------------------
(* 5. The end of a run, and the provider.                                  *)

LEMMA NewRecordType ==
  NewRecord \in Records /\ ToSet(NewRecord.ring) = {} /\ Witnesses(NewRecord.scan) = {}
<1>1. <<>> \in BoundedSeq(Activities, RingSize) /\ ToSet(<<>>) = {}
  BY EmptyBounded, BoundsAssumption
<1> QED BY <1>1, NoScanType DEF NewRecord, Records

(* The run's record becomes the envelope and the recovery record. *)
LEMMA ReturnStep ==
  ASSUME MirrorInv, Return
  PROVE  MirrorInv'
<1>1. /\ UNCHANGED <<order, kind, visible, terminal, commented, shown, faults>>
      /\ pc = "return" /\ env' = mem /\ disk' = mem
      /\ pc' = "idle" /\ mem' = NewRecord /\ batch' = {} /\ done' = <<>>
  BY DEF Return, Rest, world, NoFault
<1>2. done' \in Seq(Activities) /\ ToSet(done') = {}
  BY <1>1, EmptyBounded, Known
<1>3. \A a : (Settled(a)' <=> Settled(a)) /\ (Due(a)' <=> Due(a))
  BY <1>1 DEF Settled, Due
<1>4. TypeOK'
  BY <1>1, <1>2, NewRecordType DEF MirrorInv, TypeOK
<1>5. RecordsKept'
  <2>1. /\ Witnesses(mem.scan) \subseteq visible /\ ToSet(mem.ring) \subseteq visible
        /\ \A a \in ToSet(mem.ring) : Settled(a)
    BY DEF MirrorInv, RecordsKept, Copies
  <2>2. Copies' = {mem, NewRecord} /\ visible' = visible
    BY <1>1 DEF Copies
  <2> QED BY <1>3, <2>1, <2>2, NewRecordType DEF RecordsKept
<1>6. DueAhead'
  BY <1>1, <1>3 DEF MirrorInv, DueAhead, AfterCheckpoint
<1>7. InOrder'
  BY <1>1, <1>2 DEF InOrder
<1> QED BY <1>4, <1>5, <1>6, <1>7 DEF MirrorInv

(* A run that dies leaves the envelope and the recovery record. *)
LEMMA CrashStep ==
  ASSUME MirrorInv, Crash
  PROVE  MirrorInv'
<1>1. /\ UNCHANGED <<order, kind, visible, terminal, commented, env, disk, shown>>
      /\ faults' \subseteq Faults
      /\ pc' = "idle" /\ mem' = NewRecord /\ batch' = {} /\ done' = <<>>
  BY DEF Crash, Rest, world, Fault, MirrorInv, TypeOK
<1>2. done' \in Seq(Activities) /\ ToSet(done') = {}
  BY <1>1, EmptyBounded, Known
<1>3. \A a : (Settled(a)' <=> Settled(a)) /\ (Due(a)' <=> Due(a))
  BY <1>1 DEF Settled, Due
<1>4. TypeOK'
  BY <1>1, <1>2, NewRecordType DEF MirrorInv, TypeOK
<1>5. RecordsKept'
  <2>1. \A r \in {env, disk} : /\ Witnesses(r.scan) \subseteq visible /\ ToSet(r.ring) \subseteq visible
                               /\ \A a \in ToSet(r.ring) : Settled(a)
    BY DEF MirrorInv, RecordsKept, Copies
  <2>2. Copies' = {env, disk, NewRecord} /\ visible' = visible
    BY <1>1 DEF Copies
  <2> QED BY <1>3, <2>1, <2>2, NewRecordType DEF RecordsKept
<1>6. DueAhead'
  BY <1>1, <1>3 DEF MirrorInv, DueAhead, AfterCheckpoint
<1>7. InOrder'
  BY <1>1, <1>2 DEF InOrder
<1> QED BY <1>4, <1>5, <1>6, <1>7 DEF MirrorInv

(* What happens at the provider changes no activity that was shown. *)
LEMMA ProviderStep ==
  ASSUME MirrorInv, UNCHANGED <<order, Local>>, terminal' \in BOOLEAN,
         kind' \in Seq(Kinds), Len(kind') <= MaxActivities, Len(kind) <= Len(kind'),
         \A a \in 1 .. Len(kind) : kind'[a] = kind[a],
         visible \subseteq visible', visible' \subseteq 1 .. Len(kind')
  PROVE  MirrorInv'
<1>1. UNCHANGED <<commented, env, disk, mem, pc, batch, done, shown, faults>>
  BY DEF Local
<1>2. /\ shown \subseteq visible /\ ToSet(done) \subseteq visible /\ visible \subseteq Activities
      /\ \A a \in visible : kind'[a] = kind[a]
  BY Known DEF MirrorInv, TypeOK
<1>3. \A a \in visible : Settled(a)' <=> Settled(a)
  BY <1>1, <1>2 DEF Settled
<1>4. \A a : Due(a)' <=> Due(a)
  BY <1>1, <1>2 DEF Due
<1>5. TypeOK'
  <2>1. kind' \in BoundedSeq(Kinds, MaxActivities)
    BY BoundsAssumption, Bounded
  <2> QED BY <1>1, <2>1 DEF MirrorInv, TypeOK
<1>6. RecordsKept'
  <2>1. Copies' = Copies
    BY <1>1 DEF Copies
  <2> QED BY <1>3, <2>1 DEF MirrorInv, RecordsKept
<1>7. DueAhead'
  BY <1>1, <1>4 DEF MirrorInv, DueAhead, AfterCheckpoint
<1>8. InOrder'
  BY <1>1, <1>2, <1>3, <1>4 DEF MirrorInv, InOrder
<1> QED BY <1>5, <1>6, <1>7, <1>8 DEF MirrorInv

LEMMA ProviderSteps ==
  ASSUME MirrorInv, Happen \/ Show \/ Resume
  PROVE  MirrorInv'
<1>1. CASE Happen
  <2>1. PICK k \in Kinds : kind' = Append(kind, k) /\ terminal' = (IF k = "completed" THEN TRUE ELSE terminal)
    BY <1>1 DEF Happen
  <2>2. /\ Len(kind) < MaxActivities /\ visible' \in {visible, visible \cup {Len(kind')}}
        /\ UNCHANGED <<order, Local>>
    BY <1>1 DEF Happen
  <2>3. kind \in Seq(Kinds) /\ Len(kind) \in Nat /\ visible \subseteq 1 .. Len(kind) /\ MaxActivities \in Nat
    BY Known
  <2>4. /\ kind' \in Seq(Kinds) /\ Len(kind') = Len(kind) + 1
        /\ \A a \in 1 .. Len(kind) : kind'[a] = kind[a]
    BY <2>1, <2>3, AppendProperties
  <2>5. terminal' \in BOOLEAN
    BY <2>1 DEF MirrorInv, TypeOK
  <2>6. Len(kind') <= MaxActivities /\ Len(kind) <= Len(kind') /\ visible' \subseteq 1 .. Len(kind')
        /\ visible \subseteq visible'
    BY <2>2, <2>3, <2>4
  <2> QED BY <2>2, <2>4, <2>5, <2>6, ProviderStep
<1>2. CASE Show \/ Resume
  <2>1. /\ UNCHANGED <<order, kind, Local>> /\ terminal' \in BOOLEAN
        /\ visible \subseteq visible' /\ visible' \subseteq 1 .. Len(kind)
    BY <1>2, Known DEF Show, Resume, MirrorInv, TypeOK
  <2> QED BY <2>1, ProviderStep, Known
<1> QED BY <1>1, <1>2

LEMMA StutterStep ==
  ASSUME MirrorInv, UNCHANGED vars
  PROVE  MirrorInv'
<1>1. /\ UNCHANGED <<order, kind, visible, terminal, commented, env, disk, mem, pc, batch, done, shown, faults>>
  BY DEF vars, world
<1>2. \A a : (Settled(a)' <=> Settled(a)) /\ (Due(a)' <=> Due(a))
  BY <1>1 DEF Settled, Due
<1> QED BY <1>1, <1>2 DEF MirrorInv, TypeOK, RecordsKept, Copies, DueAhead, AfterCheckpoint, InOrder

LEMMA InitMirror == Init => MirrorInv
<1> SUFFICES ASSUME Init PROVE MirrorInv
  OBVIOUS
<1>1. /\ <<>> \in BoundedSeq(Kinds, MaxActivities) /\ <<>> \in Seq(Activities)
      /\ ToSet(<<>>) = {} /\ Len(<<>>) = 0
  BY EmptyBounded, BoundsAssumption
<1>2. commented \subseteq Activities
  BY DEF Init
<1>3. TypeOK
  BY <1>1, <1>2, NewRecordType DEF Init, TypeOK
<1>4. RecordsKept
  BY NewRecordType DEF Init, RecordsKept, Copies
<1>5. DueAhead
  BY DEF Init, DueAhead, Due
<1>6. InOrder
  BY <1>1 DEF Init, InOrder
<1> QED BY <1>3, <1>4, <1>5, <1>6 DEF MirrorInv

-----------------------------------------------------------------------------
(* 6. The theorems.                                                        *)

(* Every step keeps the invariant. *)
THEOREM MirrorIsInductive == Spec => []MirrorInv
<1>1. MirrorInv /\ [Next]_vars => MirrorInv'
  <2> SUFFICES ASSUME MirrorInv, [Next]_vars PROVE MirrorInv'
    OBVIOUS
  <2>1. CASE PollLive
    BY <2>1, PollLiveStep
  <2>2. CASE PollTerminal
    BY <2>2, PollTerminalStep
  <2>3. CASE PollFails
    BY <2>3, PollFailsStep
  <2>4. CASE PassSilently \/ FindComment \/ PostComment
    BY <2>4, PassingSteps
  <2>5. CASE MissComment \/ CommentFails
    BY <2>5, MissCommentStep, CommentFailsStep
  <2>6. CASE Advance
    BY <2>6, AdvanceStep
  <2>7. CASE Return
    BY <2>7, ReturnStep
  <2>8. CASE Crash
    BY <2>8, CrashStep
  <2>9. CASE Happen \/ Show \/ Resume
    BY <2>9, ProviderSteps
  <2>10. CASE UNCHANGED vars
    BY <2>10, StutterStep
  <2> QED BY <2>1, <2>2, <2>3, <2>4, <2>5, <2>6, <2>7, <2>8, <2>9, <2>10 DEF Next, Run
<1> QED BY <1>1, InitMirror, PTL DEF Spec

(* The records, the batch and what is done have the types the code gives   *)
(* them, whatever is read, fails, or is replayed.                          *)
THEOREM TypeCorrect == Spec => []TypeOK
<1>1. MirrorInv => TypeOK
  BY DEF MirrorInv
<1> QED BY <1>1, MirrorIsInductive, PTL

(* An activity that a run set out to comment, and every poll since has     *)
(* read, is selected again by the next run until its comment is there.     *)
THEOREM NothingIsSkipped == Spec => []NothingSkipped
<1>1. MirrorInv => NothingSkipped
  BY MergeBegins, DueSelected DEF NothingSkipped
<1> QED BY <1>1, MirrorIsInductive, PTL
=============================================================================
