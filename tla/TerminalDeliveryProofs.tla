----------------------- MODULE TerminalDeliveryProofs -----------------------
(***************************************************************************)
(* Proofs about TerminalDelivery: the types, that a rejection and the      *)
(* demand for a pull request reach Jules once, and that no confirmation is *)
(* pending beside a pull request; for every number of heads, questions and *)
(* kinds of failures.                                                      *)
(***************************************************************************)
EXTENDS TerminalDelivery, TLAPS

USE BoundsAssumption DEF Heads, NoHead

-----------------------------------------------------------------------------
(* 1. The invariant.                                                       *)

(* The record that counts: the one of the run, or the next run's envelope. *)
R == IF pc = "idle" THEN env ELSE mem
Plain == board = NoHead /\ handle = NoHead

(* What a run and the board know of each other: a head is reviewed only    *)
(* beside a registered pull request, which every run knows; a step that    *)
(* needs a rejection, a pull request or the lack of one has it.            *)
AtHand ==
  /\ board <= Newest
  /\ \A h \in Heads : verdict[h] # "none" => h <= Newest /\ board # NoHead
  /\ issue = "in_review" => board # NoHead
  /\ pc # "idle" => ending = "none" /\ mem.known /\ (Plain \/ mem.pr)
  /\ pc \in {"missing", "demand", "demanded", "post_card"} => ~mem.pr
  /\ pc = "registered" => mem.pr
  /\ pc \in {"send", "record"} => found # NoHead /\ mem.slot = Feedback(found)
  /\ ending = "none" /\ (board = NoHead \/ "late_run" \notin faults) => env.known

(* A demand that Jules heard is in the envelope, or in the recovery record *)
(* until the run has ended: only a crash, of which there is one, parts     *)
(* them, and a run that deletes the record still carries it.               *)
Asked == heard[RequiredPr] > 0
Demanded(r) == r.asked # "absent"
DemandInv ==
  /\ heard[RequiredPr] <= 1
  /\ pc = "demand" => ~Asked /\ Demanded(mem) /\ disk.known /\ Demanded(disk)
  /\ pc = "demanded" => Demanded(mem)
  /\ Asked /\ Plain =>
       /\ pc # "idle" => Demanded(mem)
       /\ ending = "none" =>
            /\ Demanded(env) \/ (disk.known /\ Demanded(disk)) \/ (pc # "idle" /\ "crash" \in faults)
            /\ Demanded(env) \/ pc = "demanded" \/ "crash" \in faults

(* Every rejection that Jules was told is noted in the session, in the     *)
(* slot of the last mutation until its delivery is recorded; a run relays  *)
(* none that is older.                                                     *)
Steady == faults \cap {"crash", "late_wake", "late_run"} = {}
Told(h) == heard[Feedback(h)] > 0
Excused(h) == "response" \in faults /\ (Newest # h \/ "unread" \in faults)
Noted(r, h) == h <= r.delivered \/ (r.slot = Feedback(h) /\ ("response" \in faults \/ (pc = "record" /\ found = h)))
Early == {"idle", "feedback", "send", "record"}
Rejects(r) == r.delivered # NoHead => verdict[r.delivered] = "rejected"
Relay ==
  /\ \A h \in Heads : heard[Feedback(h)] <= 1 \/ Excused(h)
  /\ \A h \in Heads : Told(h) => verdict[h] = "rejected"
  /\ Rejects(env) /\ Rejects(disk) /\ Rejects(mem)
  /\ pc # "idle" /\ found # NoHead =>
       verdict[found] = "rejected" /\ (\A h \in Heads : Told(h) => h <= found) /\ mem.delivered <= found
  /\ pc # "idle" /\ found = NoHead => \A h \in Heads : Told(h) => Newest # h \/ "unread" \in faults
  /\ pc \notin Early /\ found # NoHead => mem.delivered = found
  /\ ending = "none" => \A h \in Heads : Told(h) => Noted(R, h) \/ Excused(h)
  /\ pc = "send" => ~Told(found) \/ Excused(found)
FeedbackInv == Steady => Relay

(* While no question was asked and no answer was lost, a pending           *)
(* confirmation is in the hands of the session, and no pull request is.    *)
Unasked == faults \cap {"crash", "response"} = {} /\ jules.asked = 0
CardInv == Unasked =>
  /\ ~env.reissued /\ ~disk.reissued /\ ~mem.reissued
  /\ card.reissue = "absent" /\ card.base # "superseded"
  /\ card.base = "pending" =>
       /\ Plain /\ pc \notin {"register", "registered"}
       /\ ending = "none" => R.pending = "completion" /\ ~R.pr /\ ~disk.pr

TerminalInv == TypeOK /\ AtHand /\ DemandInv /\ FeedbackInv /\ CardInv

-----------------------------------------------------------------------------
(* 2. The records of a session.                                            *)

(* What a record keeps when a step is about something else. *)
Follows(q, r) ==
  /\ q \in Records /\ q.known = r.known /\ q.delivered = r.delivered
  /\ q.asked = r.asked /\ q.reissued = r.reissued

(* A new session, and no record at all, have no demand, no pull request and no delivery. *)
LEMMA NewRecordType ==
  /\ NewRecord \in Records /\ NewRecord.known /\ NewRecord.slot = NoKey /\ NewRecord.delivered = NoHead
  /\ NoRecord \in Records /\ ~NoRecord.known /\ NoRecord.delivered = NoHead /\ ~NoRecord.reissued
  /\ ~NoRecord.pr /\ NoRecord.pending = "none" /\ NoRecord.slot = NoKey
  /\ NewRecord.asked = "absent" /\ ~NewRecord.pr /\ ~NewRecord.reissued /\ NewRecord.pending = "none"
BY DEF NewRecord, NoRecord, Records, NoKey, Keys, Continuations, Attempts, Pending

(* Each of the next facts says what one assignment to a record leaves alone. *)
LEMMA SetSlot ==
  ASSUME NEW r \in Records, NEW k \in Keys
  PROVE  LET q == [r EXCEPT !.slot = k]
         IN  Follows(q, r) /\ q.slot = k /\ q.pr = r.pr /\ q.pending = r.pending /\ q.head = r.head
BY DEF Records, Follows

LEMMA SetPending ==
  ASSUME NEW r \in Records, NEW p \in Pending
  PROVE  LET q == [r EXCEPT !.pending = p]
         IN  Follows(q, r) /\ q.slot = r.slot /\ q.pr = r.pr /\ q.pending = p /\ q.head = r.head
BY DEF Records, Follows

LEMMA SetDelivered ==
  ASSUME NEW r \in Records, NEW h \in Heads
  PROVE  LET q == [r EXCEPT !.delivered = h, !.awaited = "sent"]
         IN  /\ q \in Records /\ q.known = r.known /\ q.delivered = h /\ q.asked = r.asked
             /\ q.reissued = r.reissued /\ q.slot = r.slot /\ q.pr = r.pr /\ q.pending = r.pending
             /\ q.head = r.head
BY DEF Records, Continuations

LEMMA SetAsked ==
  ASSUME NEW r \in Records, NEW a \in Attempts
  PROVE  LET q == [r EXCEPT !.asked = a]
         IN  /\ q \in Records /\ q.known = r.known /\ q.delivered = r.delivered /\ q.asked = a
             /\ q.reissued = r.reissued /\ q.slot = r.slot /\ q.pr = r.pr /\ q.pending = r.pending
             /\ q.head = r.head
BY DEF Records

LEMMA SetReminded ==
  ASSUME NEW r \in Records
  PROVE  LET q == [r EXCEPT !.awaited = "reminded"]
         IN  Follows(q, r) /\ q.slot = r.slot /\ q.pr = r.pr /\ q.pending = r.pending /\ q.head = r.head
BY DEF Records, Follows, Continuations

LEMMA SetPr ==
  ASSUME NEW r \in Records
  PROVE  LET q == [r EXCEPT !.pr = TRUE, !.slot = OtherKey]
         IN  Follows(q, r) /\ q.slot = OtherKey /\ q.pr /\ q.pending = r.pending
BY DEF Records, Follows, OtherKey, Keys

LEMMA SetRegistered ==
  ASSUME NEW r \in Records, NEW h \in Heads \cup {NoHead}
  PROVE  LET q == [r EXCEPT !.registered = TRUE, !.head = h]
         IN  Follows(q, r) /\ q.slot = r.slot /\ q.pr = r.pr /\ q.pending = r.pending
BY DEF Records, Follows

LEMMA SetCompletion ==
  ASSUME NEW r \in Records, NEW again \in BOOLEAN
  PROVE  LET q == [r EXCEPT !.pending = "completion", !.reissued = again]
         IN  /\ q \in Records /\ q.known = r.known /\ q.delivered = r.delivered /\ q.asked = r.asked
             /\ q.reissued = again /\ q.slot = r.slot /\ q.pr = r.pr /\ q.pending = "completion"
BY DEF Records, Pending

(* What the poll makes of the record it was given. *)
LEMMA Polled ==
  ASSUME TypeOK, NEW r \in Records
  PROVE  LET q == Settled(Acknowledged(r))
         IN  /\ Follows(q, r) /\ q.slot = r.slot /\ q.pr = r.pr
             /\ ~Open /\ r.pending = "completion" => q.pending = "completion"
<1> DEFINE b == Acknowledged(r)
<1>1. b \in Records /\ b.pending = r.pending /\ Follows(b, r) /\ b.slot = r.slot /\ b.pr = r.pr
  <2> DEFINE w == IF r.awaited = "sent" /\ Feedback(r.delivered) \in acted THEN "acknowledged" ELSE r.awaited
  <2>1. w \in Continuations
    BY DEF Records, Continuations
  <2>2. b = [r EXCEPT !.awaited = w]
    BY DEF Acknowledged
  <2> HIDE DEF b, w
  <2> QED BY <2>1, <2>2 DEF Records, Follows
<1> DEFINE p == IF Open THEN "adjudication"
                ELSE IF b.pending = "adjudication" \/ (b.pending = "plan" /\ plan = "none") THEN "none"
                ELSE b.pending
<1>2. p \in Pending /\ (~Open /\ b.pending = "completion" => p = "completion")
  BY <1>1 DEF Records, Pending
<1>3. Settled(b) = [b EXCEPT !.pending = p]
  BY DEF Settled
<1> HIDE DEF b, p
<1> QED BY <1>1, <1>2, <1>3, SetPending DEF Follows, b

(* The record of a run that withdrew its pull request keeps its messages. *)
LEMMA ClearedFields ==
  ASSUME NEW r \in Records
  PROVE  LET q == Cleared(r)
         IN  Follows(q, r) /\ q.slot = r.slot /\ ~q.pr /\ q.pending = r.pending
BY DEF Records, Follows, Cleared

(* What a run starts from. *)
LEMMA Started ==
  ASSUME TypeOK
  PROVE  /\ Restored \in Records /\ Restored.known
         /\ board # NoHead \/ handle # NoHead => Restored.pr
         /\ Restored.pr => board # NoHead \/ handle # NoHead \/ env.pr \/ disk.pr
         /\ Restored.delivered \in {NoHead, env.delivered, disk.delivered}
         /\ Restored.reissued => env.reissued \/ disk.reissued
         /\ env.known => /\ Restored.slot = env.slot
                         /\ env.delivered # NoHead => Restored.delivered = env.delivered
                         /\ env.pending # "none" => Restored.pending = env.pending
                         /\ env.asked # "absent" => Restored.asked # "absent"
                         /\ disk.known /\ disk.asked # "absent" => Restored.asked # "absent"
<1> USE DEF TypeOK
<1> DEFINE m == Merge(env, disk)
<1>1. /\ m \in Records /\ m.known = env.known /\ m.slot = env.slot /\ (m.pr <=> env.pr \/ disk.pr)
      /\ m.delivered = IF env.delivered # NoHead THEN env.delivered ELSE disk.delivered
      /\ m.reissued = IF env.pending # "none" THEN env.reissued ELSE disk.reissued
      /\ m.pending = IF env.pending # "none" THEN env.pending ELSE disk.pending
      /\ env.asked # "absent" \/ disk.asked # "absent" => m.asked # "absent"
  <2> DEFINE h == IF env.head # NoHead THEN env.head ELSE disk.head
             d == IF env.delivered # NoHead THEN env.delivered ELSE disk.delivered
             w == IF env.awaited # "none" THEN env.awaited ELSE disk.awaited
             p == IF env.pending # "none" THEN env.pending ELSE disk.pending
             i == IF env.pending # "none" THEN env.reissued ELSE disk.reissued
             b == env.pr \/ disk.pr
             a == IF "confirmed" \in {env.asked, disk.asked} THEN "confirmed"
                  ELSE IF "started" \in {env.asked, disk.asked} THEN "started" ELSE "absent"
  <2>1. m = [env EXCEPT !.pr = b, !.head = h, !.delivered = d, !.awaited = w,
                        !.pending = p, !.reissued = i, !.asked = a]
    BY DEF Merge, Records
  <2>2. /\ h \in Heads \cup {NoHead} /\ d \in Heads \cup {NoHead} /\ w \in Continuations
        /\ p \in Pending /\ i \in BOOLEAN /\ a \in Attempts /\ b \in BOOLEAN
    BY DEF Records, Attempts
  <2>3. env.asked # "absent" \/ disk.asked # "absent" => a # "absent"
    BY DEF Records, Attempts
  <2>4. d = IF env.delivered # NoHead THEN env.delivered ELSE disk.delivered
    OBVIOUS
  <2>5. p = (IF env.pending # "none" THEN env.pending ELSE disk.pending) /\ i = (IF env.pending # "none" THEN env.reissued ELSE disk.reissued)
    OBVIOUS
  <2>6. env \in Records /\ (b <=> env.pr \/ disk.pr)
    OBVIOUS
  <2> HIDE DEF m, h, d, w, p, i, a, b, TypeOK
  <2>7. /\ m \in Records /\ m.known = env.known /\ m.slot = env.slot /\ m.pr = b /\ m.delivered = d
        /\ m.reissued = i /\ m.pending = p /\ m.asked = a
    BY <2>1, <2>2, <2>6 DEF Records
  <2> QED BY <2>3, <2>4, <2>5, <2>6, <2>7
<1> HIDE DEF m
<1>2. Resumed = IF ~env.known THEN (IF disk.known THEN disk ELSE NewRecord) ELSE IF disk.known THEN m ELSE env
  BY DEF Resumed, m
<1>3. /\ Resumed \in Records /\ Resumed.known
      /\ env.pr /\ env.known => Resumed.pr
      /\ Resumed.pr => env.pr \/ disk.pr
      /\ Resumed.delivered \in {NoHead, env.delivered, disk.delivered}
      /\ Resumed.reissued => env.reissued \/ disk.reissued
      /\ env.known => /\ Resumed.slot = env.slot
                      /\ env.delivered # NoHead => Resumed.delivered = env.delivered
                      /\ env.pending # "none" => Resumed.pending = env.pending
                      /\ env.asked # "absent" => Resumed.asked # "absent"
                      /\ disk.known /\ disk.asked # "absent" => Resumed.asked # "absent"
  <2> HIDE DEF TypeOK
  <2>0. env \in Records /\ disk \in Records
    BY DEF TypeOK
  <2>1. CASE ~env.known /\ disk.known
    BY <1>2, <2>0, <2>1
  <2>2. CASE ~env.known /\ ~disk.known
    BY <1>2, <2>0, <2>2, NewRecordType
  <2>3. CASE env.known /\ disk.known
    BY <1>1, <1>2, <2>0, <2>3 DEF Records
  <2>4. CASE env.known /\ ~disk.known
    BY <1>2, <2>0, <2>4
  <2> QED BY <2>1, <2>2, <2>3, <2>4
<1>4. \A h \in Heads \cup {NoHead} :
        LET q == [Resumed EXCEPT !.pr = TRUE, !.head = h]
        IN  Follows(q, Resumed) /\ q.pr /\ q.slot = Resumed.slot /\ q.pending = Resumed.pending
  BY <1>3 DEF Records, Follows
<1>5. \A h \in Heads \cup {NoHead} :
        LET q == [Resumed EXCEPT !.pr = TRUE, !.head = h, !.registered = TRUE]
        IN  Follows(q, Resumed) /\ q.pr /\ q.slot = Resumed.slot /\ q.pending = Resumed.pending
  BY <1>3 DEF Records, Follows
<1>6. Newest \in Heads \cup {NoHead} /\ handle \in Heads \cup {NoHead}
  BY DEF Newest
<1> HIDE DEF TypeOK
<1>7. CASE handle # NoHead
  BY <1>3, <1>4, <1>6, <1>7 DEF Restored, Follows
<1>8. CASE handle = NoHead /\ ~Resumed.pr /\ board # NoHead
  BY <1>3, <1>5, <1>6, <1>8 DEF Restored, Follows
<1>9. CASE handle = NoHead /\ ~(~Resumed.pr /\ board # NoHead)
  BY <1>3, <1>9 DEF Restored
<1> QED BY <1>7, <1>8, <1>9

(* The head whose failing checks Jules was told of is noted on its own. *)
LEMMA SetFingerprint ==
  ASSUME NEW r \in Records, NEW h \in Heads \cup {NoHead}
  PROVE  LET q == [r EXCEPT !.fingerprint = h]
         IN  Follows(q, r) /\ q.slot = r.slot /\ q.pr = r.pr /\ q.pending = r.pending /\ q.head = r.head
BY DEF Records, Follows

-----------------------------------------------------------------------------
(* 3. Types.                                                               *)

LocalOK ==
  /\ env \in Records /\ disk \in Records /\ mem \in Records
  /\ pc \in Steps /\ found \in Heads \cup {NoHead} /\ seen \in BOOLEAN
WorldOK ==
  /\ jules \in [state : {"working", "awaiting"} \cup Terminal, head : Heads \cup {NoHead},
                asked : 0 .. MaxQuestions, answered : 0 .. MaxQuestions]
  /\ ci \in {"pending", "success", "failed", "conflict"} /\ merged \in BOOLEAN
  /\ verdict \in [Heads -> {"none", "open", "rejected", "accepted"}]
  /\ board \in Heads \cup {NoHead} /\ handle \in Heads \cup {NoHead} /\ plan \in {"none", "pending"}
  /\ heard \in [Messages -> 0 .. 2] /\ echoed \subseteq Messages /\ acted \subseteq Messages
  /\ card \in [{"base", "reissue"} -> {"absent", "pending", "accepted", "rejected", "superseded", "cancelled"}]
  /\ issue \in {"in_progress", "in_review", "blocked", "done"} /\ ending \in Endings
  /\ required \in BOOLEAN

(* The type invariant is about the world and about the copies of the session. *)
LEMMA TypeParts == TypeOK <=> WorldOK /\ LocalOK /\ faults \subseteq Faults
BY DEF TypeOK, WorldOK, LocalOK

(* A run that is over holds nothing. *)
LEMMA RestType ==
  ASSUME Rest
  PROVE  mem' \in Records /\ found' \in Heads \cup {NoHead} /\ seen' \in BOOLEAN /\ pc' \in Steps
BY NewRecordType DEF Rest, Goto, Steps

(* A save writes a record of the right type, and may learn the handle. *)
LEMMA SaveType ==
  ASSUME handle \in Heads \cup {NoHead}, NEW r \in Records, Save(r)
  PROVE  mem' \in Records /\ disk' \in Records /\ handle' \in Heads \cup {NoHead}
BY DEF Save, Store, Records

(* A run that keeps its session leaves it in envelope and record. *)
LEMMA KeepType ==
  ASSUME handle \in Heads \cup {NoHead}, NEW r \in Records, Keep(r)
  PROVE  LocalOK' /\ handle' \in Heads \cup {NoHead}
<1>1. Rest /\ env' = r /\ disk' = r /\ handle' = IF r.pr /\ r.head # NoHead THEN r.head ELSE handle
  BY DEF Keep, Return
<1> QED BY <1>1, RestType DEF LocalOK, Records

(* An ending deletes the session. *)
LEMMA EndType ==
  ASSUME NEW how, End(how)
  PROVE  LocalOK'
<1>1. Rest /\ env' = NoRecord /\ disk' = NoRecord
  BY DEF End
<1> QED BY <1>1, RestType, NewRecordType DEF LocalOK

(* A run that returns leaves its session in the envelope. *)
LEMMA ReturnType ==
  ASSUME NEW r \in Records, Return(r), disk' \in Records
  PROVE  LocalOK'
<1>1. Rest /\ env' = r
  BY DEF Return
<1> QED BY <1>1, RestType DEF LocalOK

(* A failure is one of the kinds allowed, and is remembered. *)
LEMMA FaultType ==
  ASSUME faults \subseteq Faults, NoFault \/ \E k : Fault(k)
  PROVE  faults' \subseteq Faults /\ faults \subseteq faults'
BY DEF NoFault, Fault

(* Faults are only added. *)
LEMMA FaultsGrow ==
  ASSUME TypeOK, [Next]_vars
  PROVE  faults' \subseteq Faults /\ faults \subseteq faults'
<1> SUFFICES NoFault \/ \E k : Fault(k)
  BY FaultType DEF TypeOK
<1>1. CASE Start
  BY <1>1 DEF Start, Found
<1>2. CASE StartMerged
  BY <1>2 DEF StartMerged
<1>3. CASE StartFenced
  BY <1>3 DEF StartFenced
<1>4. CASE SupersedePlan
  BY <1>4 DEF SupersedePlan
<1>5. CASE SupersedeLost
  BY <1>5 DEF SupersedeLost
<1>6. CASE NoFeedback
  BY <1>6 DEF NoFeedback
<1>7. CASE BeginFeedback
  BY <1>7 DEF BeginFeedback
<1>8. CASE SendFeedback
  BY <1>8 DEF SendFeedback
<1>9. CASE AwaitEcho
  BY <1>9 DEF AwaitEcho
<1>10. CASE RecordFeedback
  BY <1>10 DEF RecordFeedback
<1>11. CASE CompletionMissesPr
  BY <1>11 DEF CompletionMissesPr
<1>12. CASE CompletionQuestioned
  BY <1>12 DEF CompletionQuestioned
<1>13. CASE CompletionOpen
  BY <1>13 DEF CompletionOpen
<1>14. CASE CompletionResolved
  BY <1>14 DEF CompletionResolved
<1>15. CASE CompletionUnread
  BY <1>15 DEF CompletionUnread
<1>16. CASE Confirm
  BY <1>16 DEF Confirm
<1>17. CASE BeginDemand
  BY <1>17 DEF BeginDemand
<1>18. CASE Demand
  BY <1>18 DEF Demand
<1>19. CASE DemandEchoed
  BY <1>19 DEF DemandEchoed
<1>20. CASE DemandAwaited
  BY <1>20 DEF DemandAwaited
<1>21. CASE ConfirmDemand
  BY <1>21 DEF ConfirmDemand
<1>22. CASE PollFails
  BY <1>22 DEF PollFails
<1>23. CASE PollLive
  BY <1>23 DEF PollLive
<1>24. CASE PollQuestion
  BY <1>24 DEF PollQuestion
<1>25. CASE PollTerminal
  BY <1>25 DEF PollTerminal
<1>26. CASE Remind
  BY <1>26 DEF Remind
<1>27. CASE NoReminder
  BY <1>27 DEF NoReminder
<1>28. CASE LookupResolved
  BY <1>28 DEF LookupResolved
<1>29. CASE LookupNothing
  BY <1>29 DEF LookupNothing
<1>30. CASE Handoff
  BY <1>30 DEF Handoff
<1>31. CASE BeginRegister
  BY <1>31 DEF BeginRegister
<1>32. CASE RegisterUnread
  BY <1>32 DEF RegisterUnread
<1>33. CASE Register
  BY <1>33 DEF Register
<1>34. CASE RouteMerged
  BY <1>34 DEF RouteMerged
<1>35. CASE RouteWaits
  BY <1>35 DEF RouteWaits
<1>36. CASE RouteToReview
  BY <1>36 DEF RouteToReview
<1>37. CASE RouteToRemediation
  BY <1>37 DEF RouteToRemediation
<1>38. CASE RouteFailure
  BY <1>38 DEF RouteFailure
<1>39. CASE RouteMissing
  BY <1>39 DEF RouteMissing
<1>40. CASE RouteUnconfirmed
  BY <1>40 DEF RouteUnconfirmed
<1>41. CASE RouteCancelled
  BY <1>41 DEF RouteCancelled
<1>42. CASE BeginCard
  BY <1>42 DEF BeginCard
<1>43. CASE PostCard
  BY <1>43 DEF PostCard
<1>44. CASE Crash
  BY <1>44 DEF Crash
<1>45. CASE Environment
  BY <1>45 DEF Environment, Push, Rests, Ask, Answer, Echo, ChecksEnd, DecidePlan, OpenReview, Review, MergePr, Demands, Resolve
<1>46. CASE UNCHANGED vars
  BY <1>46 DEF vars, NoFault
<1> QED BY <1>1, <1>2, <1>3, <1>4, <1>5, <1>6, <1>7, <1>8, <1>9, <1>10, <1>11, <1>12, <1>13, <1>14, <1>15, <1>16, <1>17, <1>18, <1>19, <1>20, <1>21, <1>22, <1>23, <1>24, <1>25, <1>26, <1>27, <1>28, <1>29, <1>30, <1>31, <1>32, <1>33, <1>34, <1>35, <1>36, <1>37, <1>38, <1>39, <1>40, <1>41, <1>42, <1>43, <1>44, <1>45, <1>46 DEF Next, Run

(* The records the steps of a run make of its own. *)
LEMMA Updates ==
  ASSUME TypeOK
  PROVE  /\ found # NoHead => [mem EXCEPT !.slot = Feedback(found)] \in Records
         /\ found # NoHead => [mem EXCEPT !.delivered = found, !.awaited = "sent"] \in Records
         /\ [mem EXCEPT !.slot = OtherKey] \in Records
         /\ [mem EXCEPT !.pending = "none"] \in Records
         /\ \A a \in Attempts : /\ [mem EXCEPT !.asked = a] \in Records
                                /\ [[mem EXCEPT !.asked = a] EXCEPT !.pending = "none"] \in Records
         /\ Settled(Acknowledged(mem)) \in Records
         /\ Settled(Acknowledged(Cleared(mem))) \in Records
         /\ \A r \in Records : [r EXCEPT !.fingerprint = Newest] \in Records
         /\ [mem EXCEPT !.awaited = "reminded"] \in Records
         /\ [mem EXCEPT !.pr = TRUE, !.slot = OtherKey] \in Records
         /\ [mem EXCEPT !.registered = TRUE, !.head = Newest] \in Records
         /\ \A again \in BOOLEAN : [mem EXCEPT !.pending = "completion", !.reissued = again] \in Records
<1>1. mem \in Records /\ found \in Heads \cup {NoHead} /\ Newest \in Heads \cup {NoHead}
  BY DEF TypeOK, Newest
<1>2. found # NoHead => Feedback(found) \in Keys
  BY <1>1 DEF Feedback, Keys
<1>3. OtherKey \in Keys /\ "none" \in Pending
  BY DEF OtherKey, Keys, Pending
<1>4. found # NoHead => [mem EXCEPT !.slot = Feedback(found)] \in Records
  BY <1>1, <1>2, SetSlot DEF Follows
<1>5. found # NoHead => [mem EXCEPT !.delivered = found, !.awaited = "sent"] \in Records
  BY <1>1, SetDelivered
<1>6. [mem EXCEPT !.slot = OtherKey] \in Records
  BY <1>1, <1>3, SetSlot DEF Follows
<1>7. [mem EXCEPT !.pending = "none"] \in Records
  BY <1>1, <1>3, SetPending DEF Follows
<1>8. ASSUME NEW a \in Attempts
      PROVE  /\ [mem EXCEPT !.asked = a] \in Records
             /\ [[mem EXCEPT !.asked = a] EXCEPT !.pending = "none"] \in Records
  BY <1>1, <1>3, SetAsked, SetPending DEF Follows
<1>9. Settled(Acknowledged(mem)) \in Records /\ Settled(Acknowledged(Cleared(mem))) \in Records
  BY <1>1, Polled, ClearedFields DEF Follows
<1>10. \A r \in Records : [r EXCEPT !.fingerprint = Newest] \in Records
  BY <1>1 DEF Records
<1>11. [mem EXCEPT !.awaited = "reminded"] \in Records
  BY <1>1, SetReminded DEF Follows
<1>12. [mem EXCEPT !.pr = TRUE, !.slot = OtherKey] \in Records
  BY <1>1, SetPr DEF Follows
<1>13. [mem EXCEPT !.registered = TRUE, !.head = Newest] \in Records
  BY <1>1, SetRegistered DEF Follows
<1>14. \A again \in BOOLEAN : [mem EXCEPT !.pending = "completion", !.reissued = again] \in Records
  BY <1>1, SetCompletion
<1> QED BY <1>4, <1>5, <1>6, <1>7, <1>8, <1>9, <1>10, <1>11, <1>12, <1>13, <1>14

(* The sessions that the longer steps of a run leave. *)
LEMMA PollLiveSession ==
  ASSUME TypeOK, PollLive
  PROVE  \E r \in Records : /\ Keep(r) /\ Follows(r, mem) /\ ~r.pr
                            /\ ~Open /\ mem.pending = "completion" => r.pending = "completion"
<1> DEFINE r == Settled(Acknowledged(Cleared(mem)))
           q == [r EXCEPT !.fingerprint = Newest]
<1>1. mem \in Records /\ Newest \in Heads \cup {NoHead}
  BY DEF TypeOK, Newest
<1>2. /\ r \in Records /\ Follows(r, mem) /\ ~r.pr
      /\ ~Open /\ mem.pending = "completion" => r.pending = "completion"
  BY <1>1, ClearedFields, Polled DEF Follows
<1>3. Follows(q, r) /\ q.pr = r.pr /\ q.pending = r.pending
  BY <1>1, <1>2, SetFingerprint
<1>4. Keep(r) \/ Keep(q)
  BY DEF PollLive
<1> HIDE DEF r, q
<1> QED BY <1>2, <1>3, <1>4 DEF Follows

(* The demand is confirmed in the record that the run returns. *)
LEMMA ConfirmDemandSession ==
  ASSUME TypeOK, ConfirmDemand
  PROVE  \E r \in Records :
           /\ disk' = r /\ Return(r)
           /\ r.known = mem.known /\ r.delivered = mem.delivered /\ r.reissued = mem.reissued /\ r.pr = mem.pr
           /\ r.asked = "confirmed"
           /\ card' = Withdrawn \/ r.pending = mem.pending
<1> DEFINE r == [mem EXCEPT !.asked = "confirmed"]
           q == [r EXCEPT !.pending = "none"]
<1>1. mem \in Records /\ "none" \in Pending /\ "confirmed" \in Attempts
  BY DEF TypeOK, Pending, Attempts
<1>2. /\ r \in Records /\ r.known = mem.known /\ r.delivered = mem.delivered /\ r.asked = "confirmed"
      /\ r.reissued = mem.reissued /\ r.pr = mem.pr /\ r.pending = mem.pending
  BY <1>1, SetAsked
<1>3. Follows(q, r) /\ q.pr = r.pr
  BY <1>1, <1>2, SetPending
<1>4. (disk' = q /\ Return(q) /\ card' = Withdrawn) \/ (disk' = r /\ Return(r))
  BY DEF ConfirmDemand
<1> HIDE DEF r, q
<1> QED BY <1>2, <1>3, <1>4 DEF Follows

(* A hand-over saves the session without its confirmation, or keeps it. *)
LEMMA HandoffSession ==
  ASSUME TypeOK, Handoff
  PROVE  \E q \in Records :
           /\ Follows(q, mem) /\ q.pr = mem.pr
           /\ (Save(q) /\ Goto("register") /\ card' = Withdrawn /\ UNCHANGED <<env, found>>) \/ Keep(mem)
<1> DEFINE q == IF mem.pending = "completion" THEN [mem EXCEPT !.pending = "none"] ELSE mem
<1>1. mem \in Records /\ "none" \in Pending
  BY DEF TypeOK, Pending
<1>2. Follows(q, mem) /\ q.pr = mem.pr
  BY <1>1, SetPending DEF Follows
<1>3. (Save(q) /\ Goto("register") /\ card' = Withdrawn /\ UNCHANGED <<env, found>>) \/ Keep(mem)
  BY DEF Handoff
<1> HIDE DEF q
<1> QED BY <1>2, <1>3 DEF Follows

(* A registration saves the newest head, or keeps the session. *)
LEMMA RegisterSession ==
  ASSUME TypeOK, Register
  PROVE  \E q \in Records :
           /\ Follows(q, mem) /\ q.pr = mem.pr
           /\ (Save(q) /\ Goto("route") /\ UNCHANGED <<env, found>>) \/ Keep(mem)
<1> DEFINE q == [mem EXCEPT !.registered = TRUE, !.head = Newest]
<1>1. mem \in Records /\ Newest \in Heads \cup {NoHead}
  BY DEF TypeOK, Newest
<1>2. Follows(q, mem) /\ q.pr = mem.pr
  BY <1>1, SetRegistered
<1>3. (Save(q) /\ Goto("route") /\ UNCHANGED <<env, found>>) \/ Keep(mem)
  BY DEF Register
<1> HIDE DEF q
<1> QED BY <1>2, <1>3 DEF Follows

(* A confirmation is noted in the session, or the run gives up. *)
LEMMA PostCardSession ==
  ASSUME TypeOK, PostCard
  PROVE  \E q \in Records :
           /\ q.known = mem.known /\ q.delivered = mem.delivered /\ q.asked = mem.asked /\ q.pr = mem.pr
           /\ q.pending = "completion" /\ (q.reissued <=> card.base = "superseded")
           /\ \/ Save(q) /\ pc' \in {"confirm", "route"} /\ UNCHANGED <<env, found>>
                 /\ card' = [card EXCEPT ![IF card.base = "superseded" THEN "reissue" ELSE "base"] =
                               IF @ = "absent" THEN "pending" ELSE @]
              \/ Keep(mem) /\ (card' = card \/ "response" \in faults')
<1> DEFINE again == card.base = "superseded"
           q == [mem EXCEPT !.pending = "completion", !.reissued = again]
<1>1. mem \in Records /\ again \in BOOLEAN
  BY DEF TypeOK
<1>2. \/ Save(q) /\ pc' \in {"confirm", "route"} /\ UNCHANGED <<env, found>>
         /\ card' = [card EXCEPT ![IF again THEN "reissue" ELSE "base"] = IF @ = "absent" THEN "pending" ELSE @]
      \/ Keep(mem) /\ (card' = card \/ "response" \in faults')
  BY DEF PostCard, Goto, Fault
<1>3. /\ q \in Records /\ q.known = mem.known /\ q.delivered = mem.delivered /\ q.asked = mem.asked /\ q.pr = mem.pr
      /\ q.pending = "completion" /\ q.reissued = again
  <2> HIDE DEF again
  <2> QED BY <1>1, SetCompletion
<1> HIDE DEF q
<1> QED BY <1>2, <1>3

(* Every step keeps the types of the copies of the session. *)
LEMMA LocalStep ==
  ASSUME TypeOK, [Next]_vars, pc \in {"send", "record"} => found # NoHead
  PROVE  LocalOK' /\ handle' \in Heads \cup {NoHead}
<1> USE DEF LocalOK
<1>0. handle \in Heads \cup {NoHead} /\ LocalOK /\ "started" \in Attempts
  BY DEF TypeOK, Attempts
<1>1. CASE Start
  BY <1>1, <1>0, Started DEF Start, Goto, world, paper, Steps
<1>2. CASE StartMerged
  BY <1>2, <1>0, EndType DEF StartMerged, Steps
<1>3. CASE StartFenced
  BY <1>3, <1>0, NewRecordType DEF StartFenced, world, paper, Steps
<1>4. CASE SupersedePlan
  BY <1>4, <1>0, Updates, SaveType DEF SupersedePlan, Steps
<1>5. CASE SupersedeLost
  BY <1>5, <1>0, ReturnType DEF SupersedeLost, world, paper, Steps
<1>6. CASE NoFeedback
  BY <1>6, <1>0 DEF NoFeedback, Goto, Delivered, world, paper, Steps
<1>7. CASE BeginFeedback
  BY <1>7, <1>0, Updates DEF BeginFeedback, Goto, Store, Delivered, Steps
<1>8. CASE SendFeedback
  BY <1>8, <1>0, ReturnType DEF SendFeedback, Goto, paper, Steps
<1>9. CASE AwaitEcho
  BY <1>9, <1>0, ReturnType DEF AwaitEcho, Goto, Delivered, world, paper, Steps
<1>10. CASE RecordFeedback
  BY <1>10, <1>0, Updates, KeepType DEF RecordFeedback, Steps
<1>11. CASE CompletionMissesPr
  BY <1>11, <1>0 DEF CompletionMissesPr, Goto, world, paper, Steps
<1>12. CASE CompletionQuestioned
  BY <1>12, <1>0, Updates, SaveType DEF CompletionQuestioned, Goto, Steps
<1>13. CASE CompletionOpen
  BY <1>13, <1>0 DEF CompletionOpen, Goto, world, paper, Steps
<1>14. CASE CompletionResolved
  BY <1>14, <1>0, NewRecordType DEF CompletionResolved, Goto, world, paper, Steps
<1>15. CASE CompletionUnread
  BY <1>15, <1>0, ReturnType DEF CompletionUnread, world, paper, Steps
<1>16. CASE Confirm
  BY <1>16, <1>0, ReturnType, EndType DEF Confirm, Steps
<1>17. CASE BeginDemand
  BY <1>17, <1>0, Updates DEF BeginDemand, Goto, Store, Steps
<1>18. CASE Demand
  BY <1>18, <1>0, ReturnType DEF Demand, Goto, paper, Steps
<1>19. CASE DemandEchoed
  BY <1>19, <1>0 DEF DemandEchoed, Goto, world, paper, Steps
<1>20. CASE DemandAwaited
  BY <1>20, <1>0, ReturnType DEF DemandAwaited, world, paper, Steps
<1>21. CASE ConfirmDemand
  BY <1>21, <1>0, ConfirmDemandSession, ReturnType DEF ConfirmDemand
<1>22. CASE PollFails
  BY <1>22, <1>0, KeepType DEF PollFails, Steps
<1>23. CASE PollLive
  BY <1>23, <1>0, PollLiveSession, KeepType DEF PollLive, Steps
<1>24. CASE PollQuestion
  BY <1>24, <1>0, Updates, KeepType DEF PollQuestion, Steps
<1>25. CASE PollTerminal
  BY <1>25, <1>0, Updates, SaveType DEF PollTerminal, Goto, Steps
<1>26. CASE Remind
  BY <1>26, <1>0, Updates, KeepType DEF Remind, Steps
<1>27. CASE NoReminder
  BY <1>27, <1>0 DEF NoReminder, Goto, world, paper, Steps
<1>28. CASE LookupResolved
  BY <1>28, <1>0, NewRecordType DEF LookupResolved, Goto, world, paper, Steps
<1>29. CASE LookupNothing
  BY <1>29, <1>0 DEF LookupNothing, Goto, world, paper, Steps
<1>30. CASE Handoff
  BY <1>30, <1>0, HandoffSession, SaveType, KeepType DEF Handoff, Goto, Steps
<1>31. CASE BeginRegister
  BY <1>31, <1>0, Updates, SaveType DEF BeginRegister, Goto, Steps
<1>32. CASE RegisterUnread
  BY <1>32, <1>0, KeepType DEF RegisterUnread, Steps
<1>33. CASE Register
  BY <1>33, <1>0, RegisterSession, SaveType, KeepType DEF Register, Goto, Steps
<1>34. CASE RouteMerged
  BY <1>34, <1>0, EndType DEF RouteMerged, Steps
<1>35. CASE RouteWaits
  BY <1>35, <1>0, KeepType DEF RouteWaits, Steps
<1>36. CASE RouteToReview
  BY <1>36, <1>0, Updates, KeepType DEF RouteToReview, Steps
<1>37. CASE RouteToRemediation
  BY <1>37, <1>0, KeepType DEF RouteToRemediation, Leave, Steps
<1>38. CASE RouteFailure
  BY <1>38, <1>0, KeepType DEF RouteFailure, Leave, Steps
<1>39. CASE RouteMissing
  BY <1>39, <1>0 DEF RouteMissing, Goto, world, paper, Steps
<1>40. CASE RouteUnconfirmed
  BY <1>40, <1>0, ReturnType DEF RouteUnconfirmed, Steps
<1>41. CASE RouteCancelled
  BY <1>41, <1>0, ReturnType DEF RouteCancelled, world, paper, Steps
<1>42. CASE BeginCard
  BY <1>42, <1>0, Updates, SaveType DEF BeginCard, Goto, Steps
<1>43. CASE PostCard
  BY <1>43, <1>0, PostCardSession, SaveType, KeepType DEF PostCard, Goto, Steps
<1>44. CASE Crash
  BY <1>44, <1>0, RestType DEF Crash, world, paper, Steps
<1>45. CASE Environment
  BY <1>45, <1>0 DEF Environment, paper, LocalUnchanged, Push, Rests, Ask, Answer, Echo, ChecksEnd, DecidePlan, OpenReview, Review, MergePr, Demands, Resolve, Steps
<1>46. CASE UNCHANGED vars
  BY <1>46, <1>0 DEF vars, world, paper
<1> QED BY <1>1, <1>2, <1>3, <1>4, <1>5, <1>6, <1>7, <1>8, <1>9, <1>10, <1>11, <1>12, <1>13, <1>14, <1>15, <1>16, <1>17, <1>18, <1>19, <1>20, <1>21, <1>22, <1>23, <1>24, <1>25, <1>26, <1>27, <1>28, <1>29, <1>30, <1>31, <1>32, <1>33, <1>34, <1>35, <1>36, <1>37, <1>38, <1>39, <1>40, <1>41, <1>42, <1>43, <1>44, <1>45, <1>46 DEF Next, Run

JulesOK == jules \in [state : {"working", "awaiting"} \cup Terminal, head : Heads \cup {NoHead},
                      asked : 0 .. MaxQuestions, answered : 0 .. MaxQuestions]

(* Waking Jules changes its state only. *)
LEMMA StirFacts ==
  ASSUME JulesOK, Stir
  PROVE  JulesOK' /\ Newest' = Newest /\ jules'.asked = jules.asked /\ jules'.answered = jules.answered
BY DEF JulesOK, Stir, Newest

(* A message that lands is counted, and counted for itself alone. *)
LEMMA LandFacts ==
  ASSUME JulesOK, heard \in [Messages -> 0 .. 2], acted \subseteq Messages, NEW m \in Messages, Land(m)
  PROVE  /\ heard' \in [Messages -> 0 .. 2] /\ acted' \subseteq Messages
         /\ heard'[m] = (IF heard[m] = 2 THEN 2 ELSE heard[m] + 1)
         /\ \A n \in Messages : n # m => heard'[n] = heard[n]
         /\ JulesOK' /\ Newest' = Newest /\ jules'.asked = jules.asked /\ jules'.answered = jules.answered
<1>1. Stir /\ heard' = [heard EXCEPT ![m] = IF @ = 2 THEN 2 ELSE @ + 1] /\ acted' = acted \ {m}
  BY DEF Land
<1>2. \A k \in 0 .. 2 : (IF k = 2 THEN 2 ELSE k + 1) \in 0 .. 2
  OBVIOUS
<1>3. heard' \in [Messages -> 0 .. 2] /\ acted' \subseteq Messages
  BY <1>1, <1>2
<1>4. heard'[m] = (IF heard[m] = 2 THEN 2 ELSE heard[m] + 1) /\ \A n \in Messages : n # m => heard'[n] = heard[n]
  BY <1>1
<1> QED BY <1>1, <1>3, <1>4, StirFacts

(* What others do keeps the types of the world. *)
LEMMA EnvironmentTypes ==
  ASSUME WorldOK, Environment
  PROVE  WorldOK'
<1>0. Newest \in Heads \cup {NoHead} /\ Newest \in Nat
  BY DEF WorldOK, Newest
<1>1. CASE Push
  <2>1. jules' \in [state : {"working", "awaiting"} \cup Terminal, head : Heads \cup {NoHead},
                    asked : 0 .. MaxQuestions, answered : 0 .. MaxQuestions]
    BY <1>0, <1>1 DEF Push, WorldOK, Newest
  <2>2. acted' \subseteq Messages
    BY <1>1 DEF Push, Active, Messages
  <2> QED BY <1>1, <2>1, <2>2 DEF Push, WorldOK, paper
<1>2. CASE Rests
  <2>1. jules' \in [state : {"working", "awaiting"} \cup Terminal, head : Heads \cup {NoHead},
                    asked : 0 .. MaxQuestions, answered : 0 .. MaxQuestions]
    BY <1>2 DEF Rests, WorldOK
  <2>2. acted' \subseteq Messages
    BY <1>2 DEF Rests, Active, Messages
  <2> QED BY <1>2, <2>1, <2>2 DEF Rests, WorldOK, paper
<1>3. CASE Ask
  <2>1. jules' \in [state : {"working", "awaiting"} \cup Terminal, head : Heads \cup {NoHead},
                    asked : 0 .. MaxQuestions, answered : 0 .. MaxQuestions]
    <3>1. jules.asked + 1 \in 0 .. MaxQuestions
      BY <1>3 DEF Ask, WorldOK
    <3>2. (IF jules.state = "completed" THEN jules.state ELSE "awaiting") \in {"working", "awaiting"} \cup Terminal
      BY DEF WorldOK
    <3> QED BY <1>3, <3>1, <3>2 DEF Ask, WorldOK
  <2>2. acted' \subseteq Messages
    BY <1>3 DEF Ask, Active, Messages
  <2> QED BY <1>3, <2>1, <2>2 DEF Ask, WorldOK, paper
<1>4. CASE Answer
  <2>1. jules' \in [state : {"working", "awaiting"} \cup Terminal, head : Heads \cup {NoHead},
                    asked : 0 .. MaxQuestions, answered : 0 .. MaxQuestions]
    <3>1. jules.answered + 1 \in 0 .. MaxQuestions
      BY <1>4 DEF Answer, WorldOK, Open
    <3>2. {jules.state, "working"} \subseteq {"working", "awaiting"} \cup Terminal
      BY DEF WorldOK
    <3>3. PICK t \in {jules.state, "working"} : jules' = [jules EXCEPT !.answered = @ + 1, !.state = t]
      BY <1>4 DEF Answer
    <3> QED BY <3>1, <3>2, <3>3 DEF WorldOK
  <2> QED BY <1>4, <2>1 DEF Answer, WorldOK, paper, inbox
<1>5. CASE Echo
  BY <1>5 DEF Echo, WorldOK, paper, remote
<1>6. CASE ChecksEnd
  BY <1>6 DEF ChecksEnd, WorldOK, paper, inbox
<1>7. CASE DecidePlan
  BY <1>7 DEF DecidePlan, WorldOK, remote, inbox
<1>8. CASE OpenReview
  BY <1>8 DEF OpenReview, WorldOK, inbox
<1>9. CASE Review
  BY <1>9 DEF Review, WorldOK, inbox
<1>10. CASE MergePr
  BY <1>10 DEF MergePr, WorldOK, inbox
<1>11. CASE Demands
  BY <1>11 DEF Demands, WorldOK, remote, paper, inbox
<1>12. CASE Resolve
  BY <1>12 DEF Resolve, WorldOK, remote, inbox
<1> QED BY <1>1, <1>2, <1>3, <1>4, <1>5, <1>6, <1>7, <1>8, <1>9, <1>10, <1>11, <1>12 DEF Environment

(* Every step keeps the types of the world. *)
LEMMA WorldStep ==
  ASSUME TypeOK, [Next]_vars, pc \in {"send", "record"} => found # NoHead
  PROVE  WorldOK'
<1> USE DEF WorldOK
<1>0. WorldOK /\ Newest \in Heads \cup {NoHead} /\ found \in Heads \cup {NoHead} /\ handle' \in Heads \cup {NoHead}
  BY LocalStep DEF TypeOK, Newest
<1>s. JulesOK /\ RequiredPr \in Messages /\ (found # NoHead => Feedback(found) \in Messages)
  BY <1>0 DEF JulesOK, Messages
<1>1. CASE Start
  BY <1>1, <1>0 DEF Start, world, paper, remote, inbox
<1>2. CASE StartMerged
  BY <1>2, <1>0 DEF StartMerged, remote, inbox, Newest, End, Endings
<1>3. CASE StartFenced
  BY <1>3, <1>0 DEF StartFenced, world, paper, remote, inbox
<1>4. CASE SupersedePlan
  BY <1>4, <1>0 DEF SupersedePlan, remote, inbox
<1>5. CASE SupersedeLost
  BY <1>5, <1>0 DEF SupersedeLost, world, paper, remote, inbox
<1>6. CASE NoFeedback
  BY <1>6, <1>0 DEF NoFeedback, world, paper, remote, inbox
<1>7. CASE BeginFeedback
  BY <1>7, <1>0 DEF BeginFeedback, remote, inbox
<1>8. CASE SendFeedback
  <2>1. JulesOK' /\ heard' \in [Messages -> 0 .. 2] /\ acted' \subseteq Messages
    BY <1>8, <1>0, <1>s, LandFacts DEF SendFeedback, Unheard, JulesOK
  <2> QED BY <1>8, <1>0, <2>1 DEF SendFeedback, paper, JulesOK
<1>9. CASE AwaitEcho
  BY <1>9, <1>0 DEF AwaitEcho, world, paper, remote, inbox
<1>10. CASE RecordFeedback
  BY <1>10, <1>0 DEF RecordFeedback, remote, inbox
<1>11. CASE CompletionMissesPr
  BY <1>11, <1>0 DEF CompletionMissesPr, world, paper, remote, inbox
<1>12. CASE CompletionQuestioned
  BY <1>12, <1>0 DEF CompletionQuestioned, remote, inbox, Which
<1>13. CASE CompletionOpen
  BY <1>13, <1>0 DEF CompletionOpen, world, paper, remote, inbox
<1>14. CASE CompletionResolved
  BY <1>14, <1>0 DEF CompletionResolved, world, paper, remote, inbox
<1>15. CASE CompletionUnread
  BY <1>15, <1>0 DEF CompletionUnread, world, paper, remote, inbox
<1>16. CASE Confirm
  BY <1>16, <1>0 DEF Confirm, remote, inbox, End, Which, Endings
<1>17. CASE BeginDemand
  BY <1>17, <1>0 DEF BeginDemand, remote, inbox
<1>18. CASE Demand
  <2>1. JulesOK' /\ heard' \in [Messages -> 0 .. 2] /\ acted' \subseteq Messages
    BY <1>18, <1>0, <1>s, LandFacts DEF Demand, Unheard, JulesOK
  <2> QED BY <1>18, <1>0, <2>1 DEF Demand, paper, JulesOK
<1>19. CASE DemandEchoed
  BY <1>19, <1>0 DEF DemandEchoed, world, paper, remote, inbox
<1>20. CASE DemandAwaited
  BY <1>20, <1>0 DEF DemandAwaited, world, paper, remote, inbox
<1>21. CASE ConfirmDemand
  BY <1>21, <1>0 DEF ConfirmDemand, remote, inbox, Withdrawn, Which
<1>22. CASE PollFails
  BY <1>22, <1>0 DEF PollFails, remote, inbox
<1>23. CASE PollLive
  <2>1. JulesOK'
    BY <1>23, <1>s, StirFacts DEF PollLive, JulesOK
  <2> QED BY <1>23, <1>0, <2>1 DEF PollLive, inbox, JulesOK
<1>24. CASE PollQuestion
  BY <1>24, <1>0 DEF PollQuestion, remote, inbox
<1>25. CASE PollTerminal
  BY <1>25, <1>0 DEF PollTerminal, remote, inbox, Newest
<1>26. CASE Remind
  BY <1>26, <1>0 DEF Remind, inbox, Stir
<1>27. CASE NoReminder
  BY <1>27, <1>0 DEF NoReminder, world, paper, remote, inbox
<1>28. CASE LookupResolved
  BY <1>28, <1>0 DEF LookupResolved, world, paper, remote, inbox
<1>29. CASE LookupNothing
  BY <1>29, <1>0 DEF LookupNothing, world, paper, remote, inbox
<1>30. CASE Handoff
  BY <1>30, <1>0 DEF Handoff, remote, inbox, Withdrawn, Which
<1>31. CASE BeginRegister
  BY <1>31, <1>0 DEF BeginRegister, remote, inbox
<1>32. CASE RegisterUnread
  BY <1>32, <1>0 DEF RegisterUnread, remote, inbox
<1>33. CASE Register
  BY <1>33, <1>0 DEF Register, remote, inbox, Newest
<1>34. CASE RouteMerged
  BY <1>34, <1>0 DEF RouteMerged, remote, inbox, End, Endings
<1>35. CASE RouteWaits
  BY <1>35, <1>0 DEF RouteWaits, remote, inbox
<1>36. CASE RouteToReview
  BY <1>36, <1>0 DEF RouteToReview, remote, inbox, Newest
<1>37. CASE RouteToRemediation
  BY <1>37, <1>0 DEF RouteToRemediation, remote, inbox, Leave, Endings
<1>38. CASE RouteFailure
  BY <1>38, <1>0 DEF RouteFailure, remote, inbox, Leave, Endings
<1>39. CASE RouteMissing
  BY <1>39, <1>0 DEF RouteMissing, world, paper, remote, inbox
<1>40. CASE RouteUnconfirmed
  BY <1>40, <1>0 DEF RouteUnconfirmed, remote, inbox
<1>41. CASE RouteCancelled
  BY <1>41, <1>0 DEF RouteCancelled, world, paper, remote, inbox
<1>42. CASE BeginCard
  BY <1>42, <1>0 DEF BeginCard, remote, inbox
<1>43. CASE PostCard
  BY <1>43, <1>0 DEF PostCard, remote, inbox
<1>44. CASE Crash
  BY <1>44, <1>0 DEF Crash, world, paper, remote, inbox
<1>45. CASE Environment
  BY <1>45, <1>0, EnvironmentTypes
<1>46. CASE UNCHANGED vars
  BY <1>46, <1>0 DEF vars, world, paper, remote, inbox
<1> QED BY <1>1, <1>2, <1>3, <1>4, <1>5, <1>6, <1>7, <1>8, <1>9, <1>10, <1>11, <1>12, <1>13, <1>14, <1>15, <1>16, <1>17, <1>18, <1>19, <1>20, <1>21, <1>22, <1>23, <1>24, <1>25, <1>26, <1>27, <1>28, <1>29, <1>30, <1>31, <1>32, <1>33, <1>34, <1>35, <1>36, <1>37, <1>38, <1>39, <1>40, <1>41, <1>42, <1>43, <1>44, <1>45, <1>46 DEF Next, Run
-----------------------------------------------------------------------------
(* 4. The steps of a run.                                                  *)

(* What a step of a run does to its session: it goes on, it ends and leaves *)
(* its session to the next one, or it gives the session up.                 *)
Onward ==
  /\ pc' # "idle" /\ env' = env /\ found' = found /\ ending' = ending /\ mem'.known = mem.known
  /\ mem.pr => mem'.pr
  /\ (board' = board /\ handle' = handle) \/ mem'.pr
  /\ pc' \in {"missing", "demand", "demanded", "post_card"} => ~mem'.pr
  /\ pc' = "registered" => mem'.pr
  /\ pc' \in {"send", "record"} => found # NoHead /\ mem'.slot = Feedback(found)
Ended == pc' = "idle" /\ mem' = NoRecord /\ found' = NoHead /\ env'.known = mem.known
GivenUp ==
  /\ pc' = "idle" /\ mem' = NoRecord /\ found' = NoHead /\ env' = NoRecord /\ disk' = NoRecord
  /\ ending' # "none"

Starts == Start \/ StartMerged \/ StartFenced

(* A step of a run is one onward, its end or a failure that gives the run up. *)
LEMMA Passage ==
  ASSUME TypeOK, AtHand, Run, ~Starts
  PROVE  pc # "idle" /\ (Onward \/ Ended \/ GivenUp)
<1> USE DEF Onward, Ended, GivenUp
<1>0. mem \in Records /\ found \in Heads \cup {NoHead} /\ Newest \in Heads \cup {NoHead}
  BY DEF TypeOK, Newest
<1>k. OtherKey \in Keys /\ "none" \in Pending /\ "started" \in Attempts /\ (found # NoHead => Feedback(found) \in Keys)
  BY <1>0 DEF OtherKey, Keys, Pending, Attempts, Feedback
<1>a. /\ pc # "idle" => ending = "none" /\ mem.known /\ (Plain \/ mem.pr)
      /\ pc \in {"missing", "demand", "demanded", "post_card"} => ~mem.pr
      /\ pc = "registered" => mem.pr
      /\ pc \in {"send", "record"} => found # NoHead /\ mem.slot = Feedback(found)
  BY DEF AtHand
<1>1. CASE SupersedePlan
  BY <1>1, <1>0, <1>k, <1>a, SetPending DEF SupersedePlan, Store, Save, Follows
<1>2. CASE SupersedeLost
  BY <1>2, <1>0, <1>a DEF SupersedeLost, Return, Rest, Goto, world, paper
<1>3. CASE NoFeedback
  BY <1>3, <1>0, <1>a DEF NoFeedback, Goto, world, paper, Delivered
<1>4. CASE BeginFeedback
  BY <1>4, <1>0, <1>k, <1>a, SetSlot DEF BeginFeedback, Store, Goto, Delivered, Follows
<1>5. CASE SendFeedback
  BY <1>5, <1>0, <1>a DEF SendFeedback, Return, Rest, Goto, paper
<1>6. CASE AwaitEcho
  BY <1>6, <1>0, <1>a DEF AwaitEcho, Return, Rest, Goto, world, paper, Delivered
<1>7. CASE RecordFeedback
  BY <1>7, <1>0, <1>k, <1>a, SetDelivered DEF RecordFeedback, Keep, Return, Rest, Goto, Follows
<1>8. CASE CompletionMissesPr
  BY <1>8, <1>0, <1>a DEF CompletionMissesPr, Goto, world, paper, DemandFirst, Completion
<1>9. CASE CompletionQuestioned
  BY <1>9, <1>0, <1>k, <1>a, SetPending DEF CompletionQuestioned, Store, Save, Goto, Completion, Follows
<1>10. CASE CompletionOpen
  BY <1>10, <1>0, <1>a DEF CompletionOpen, Goto, world, paper, Completion
<1>11. CASE CompletionResolved
  BY <1>11, <1>0, <1>a DEF CompletionResolved, Goto, world, paper, Completion
<1>12. CASE CompletionUnread
  BY <1>12, <1>0, <1>a DEF CompletionUnread, Return, Rest, Goto, world, paper, Completion
<1>13. CASE Confirm
  BY <1>13, <1>0, <1>a DEF Confirm, Return, Rest, Goto, End
<1>14. CASE BeginDemand
  BY <1>14, <1>0, <1>k, <1>a, SetAsked DEF BeginDemand, Store, Goto, Missing, Follows
<1>15. CASE Demand
  BY <1>15, <1>0, <1>a DEF Demand, Return, Rest, Goto, paper
<1>16. CASE DemandEchoed
  BY <1>16, <1>0, <1>a DEF DemandEchoed, Goto, world, paper, Missing
<1>17. CASE DemandAwaited
  BY <1>17, <1>0, <1>a DEF DemandAwaited, Return, Rest, Goto, world, paper, Missing
<1>18. CASE ConfirmDemand
  BY <1>18, <1>0, <1>a, ConfirmDemandSession DEF ConfirmDemand, Return, Rest, Goto, Follows
<1>19. CASE PollFails
  BY <1>19, <1>0, <1>a DEF PollFails, Keep, Return, Rest, Goto
<1>20. CASE PollLive
  BY <1>20, <1>0, <1>a, PollLiveSession DEF PollLive, Keep, Return, Rest, Goto, Follows
<1>21. CASE PollQuestion
  BY <1>21, <1>0, <1>k, <1>a, Polled DEF PollQuestion, Keep, Return, Rest, Goto, Follows
<1>22. CASE PollTerminal
  BY <1>22, <1>0, <1>k, <1>a, Polled DEF PollTerminal, Store, Save, Goto, Follows
<1>23. CASE Remind
  BY <1>23, <1>0, <1>k, <1>a, SetReminded DEF Remind, Keep, Return, Rest, Goto, Follows
<1>24. CASE NoReminder
  BY <1>24, <1>0, <1>a DEF NoReminder, Goto, world, paper
<1>25. CASE LookupResolved
  BY <1>25, <1>0, <1>a DEF LookupResolved, Goto, world, paper
<1>26. CASE LookupNothing
  BY <1>26, <1>0, <1>a DEF LookupNothing, Goto, world, paper
<1>27. CASE Handoff
  BY <1>27, <1>0, <1>a, HandoffSession DEF Handoff, Store, Save, Keep, Return, Rest, Goto, Follows
<1>28. CASE BeginRegister
  BY <1>28, <1>0, <1>k, <1>a, SetPr DEF BeginRegister, Store, Save, Goto, Follows
<1>29. CASE RegisterUnread
  BY <1>29, <1>0, <1>a DEF RegisterUnread, Keep, Return, Rest, Goto
<1>30. CASE Register
  BY <1>30, <1>0, <1>a, RegisterSession DEF Register, Store, Save, Keep, Return, Rest, Goto, Follows
<1>31. CASE RouteMerged
  BY <1>31, <1>0, <1>a DEF RouteMerged, Rest, Goto, End, AtRoute
<1>32. CASE RouteWaits
  BY <1>32, <1>0, <1>a DEF RouteWaits, Keep, Return, Rest, Goto, AtRoute
<1>33. CASE RouteToReview
  BY <1>33, <1>0, <1>k, <1>a, SetSlot DEF RouteToReview, Keep, Return, Rest, Goto, AtRoute, Follows
<1>34. CASE RouteToRemediation
  BY <1>34, <1>0, <1>a DEF RouteToRemediation, Keep, Return, Rest, Goto, Leave, AtRoute
<1>35. CASE RouteFailure
  BY <1>35, <1>0, <1>a DEF RouteFailure, Keep, Return, Rest, Goto, Leave, AtRoute
<1>36. CASE RouteMissing
  BY <1>36, <1>0, <1>a DEF RouteMissing, Goto, world, paper, NoPr, AtRoute
<1>37. CASE RouteUnconfirmed
  BY <1>37, <1>0, <1>a DEF RouteUnconfirmed, Return, Rest, Goto, NoPr, AtRoute
<1>38. CASE RouteCancelled
  BY <1>38, <1>0, <1>a DEF RouteCancelled, Return, Rest, Goto, world, paper, NoPr, AtRoute
<1>39. CASE BeginCard
  BY <1>39, <1>0, <1>k, <1>a, SetSlot DEF BeginCard, Store, Save, Goto, NoPr, AtRoute, Follows
<1>40. CASE PostCard
  BY <1>40, <1>0, <1>a, PostCardSession DEF PostCard, Store, Save, Keep, Return, Rest, Goto, Follows
<1> QED BY <1>1, <1>2, <1>3, <1>4, <1>5, <1>6, <1>7, <1>8, <1>9, <1>10, <1>11, <1>12, <1>13, <1>14, <1>15, <1>16, <1>17, <1>18, <1>19, <1>20, <1>21, <1>22, <1>23, <1>24, <1>25, <1>26, <1>27, <1>28, <1>29, <1>30, <1>31, <1>32, <1>33, <1>34, <1>35, <1>36, <1>37, <1>38, <1>39, <1>40 DEF Run, Starts

(* What a run leaves to others. *)
LEMMA RunLeaves ==
  ASSUME TypeOK, Run \/ Crash
  PROVE  /\ Newest' = Newest /\ jules'.asked = jules.asked /\ jules'.answered = jules.answered /\ verdict' = verdict
         /\ board' = board \/ board' = Newest
         /\ issue' \in {issue, "done", "blocked", "in_progress"}
<1>0. JulesOK
  BY DEF TypeOK, JulesOK
<1>1. CASE Start
  BY <1>1 DEF Start, world, remote, paper, Newest
<1>2. CASE StartMerged
  BY <1>2 DEF StartMerged, remote, Newest
<1>3. CASE StartFenced
  BY <1>3 DEF StartFenced, world, remote, paper, Newest
<1>4. CASE SupersedePlan
  BY <1>4 DEF SupersedePlan, remote, Newest
<1>5. CASE SupersedeLost
  BY <1>5 DEF SupersedeLost, world, remote, paper, Newest
<1>6. CASE NoFeedback
  BY <1>6 DEF NoFeedback, world, remote, paper, Newest
<1>7. CASE BeginFeedback
  BY <1>7 DEF BeginFeedback, remote, Newest
<1>8. CASE SendFeedback
  BY <1>8, <1>0, StirFacts DEF SendFeedback, Land, Unheard, paper, Newest
<1>9. CASE AwaitEcho
  BY <1>9 DEF AwaitEcho, world, remote, paper, Newest
<1>10. CASE RecordFeedback
  BY <1>10 DEF RecordFeedback, remote, Newest
<1>11. CASE CompletionMissesPr
  BY <1>11 DEF CompletionMissesPr, world, remote, paper, Newest
<1>12. CASE CompletionQuestioned
  BY <1>12 DEF CompletionQuestioned, remote, Newest
<1>13. CASE CompletionOpen
  BY <1>13 DEF CompletionOpen, world, remote, paper, Newest
<1>14. CASE CompletionResolved
  BY <1>14 DEF CompletionResolved, world, remote, paper, Newest
<1>15. CASE CompletionUnread
  BY <1>15 DEF CompletionUnread, world, remote, paper, Newest
<1>16. CASE Confirm
  BY <1>16 DEF Confirm, remote, Newest
<1>17. CASE BeginDemand
  BY <1>17 DEF BeginDemand, remote, Newest
<1>18. CASE Demand
  BY <1>18, <1>0, StirFacts DEF Demand, Land, Unheard, paper, Newest
<1>19. CASE DemandEchoed
  BY <1>19 DEF DemandEchoed, world, remote, paper, Newest
<1>20. CASE DemandAwaited
  BY <1>20 DEF DemandAwaited, world, remote, paper, Newest
<1>21. CASE ConfirmDemand
  BY <1>21 DEF ConfirmDemand, remote, Newest
<1>22. CASE PollFails
  BY <1>22 DEF PollFails, remote, Newest
<1>23. CASE PollLive
  BY <1>23, <1>0, StirFacts DEF PollLive, Newest
<1>24. CASE PollQuestion
  BY <1>24 DEF PollQuestion, remote, Newest
<1>25. CASE PollTerminal
  BY <1>25 DEF PollTerminal, remote, Newest
<1>26. CASE Remind
  BY <1>26, <1>0, StirFacts DEF Remind, Newest
<1>27. CASE NoReminder
  BY <1>27 DEF NoReminder, world, remote, paper, Newest
<1>28. CASE LookupResolved
  BY <1>28 DEF LookupResolved, world, remote, paper, Newest
<1>29. CASE LookupNothing
  BY <1>29 DEF LookupNothing, world, remote, paper, Newest
<1>30. CASE Handoff
  BY <1>30 DEF Handoff, remote, Newest
<1>31. CASE BeginRegister
  BY <1>31 DEF BeginRegister, remote, Newest
<1>32. CASE RegisterUnread
  BY <1>32 DEF RegisterUnread, remote, Newest
<1>33. CASE Register
  BY <1>33 DEF Register, remote, Newest
<1>34. CASE RouteMerged
  BY <1>34 DEF RouteMerged, remote, Newest
<1>35. CASE RouteWaits
  BY <1>35 DEF RouteWaits, remote, Newest
<1>36. CASE RouteToReview
  BY <1>36 DEF RouteToReview, remote, Newest
<1>37. CASE RouteToRemediation
  BY <1>37 DEF RouteToRemediation, remote, Newest
<1>38. CASE RouteFailure
  BY <1>38 DEF RouteFailure, remote, Newest
<1>39. CASE RouteMissing
  BY <1>39 DEF RouteMissing, world, remote, paper, Newest
<1>40. CASE RouteUnconfirmed
  BY <1>40 DEF RouteUnconfirmed, remote, Newest
<1>41. CASE RouteCancelled
  BY <1>41 DEF RouteCancelled, world, remote, paper, Newest
<1>42. CASE BeginCard
  BY <1>42 DEF BeginCard, remote, Newest
<1>43. CASE PostCard
  BY <1>43 DEF PostCard, remote, Newest
<1>44. CASE Crash
  BY <1>44 DEF Crash, world, remote, paper, Newest
<1> QED BY <1>1, <1>2, <1>3, <1>4, <1>5, <1>6, <1>7, <1>8, <1>9, <1>10, <1>11, <1>12, <1>13, <1>14, <1>15, <1>16, <1>17, <1>18, <1>19, <1>20, <1>21, <1>22, <1>23, <1>24, <1>25, <1>26, <1>27, <1>28, <1>29, <1>30, <1>31, <1>32, <1>33, <1>34, <1>35, <1>36, <1>37, <1>38, <1>39, <1>40, <1>41, <1>42, <1>43, <1>44 DEF Run

(* What a step of a run leaves of its session. *)
Carried ==
  /\ mem'.delivered \in {mem.delivered, NoHead} /\ disk'.delivered \in {disk.delivered, mem.delivered, NoHead}
  /\ env'.delivered \in {env.delivered, mem.delivered, NoHead}
  /\ pc' # "idle" => mem'.asked = mem.asked /\ mem'.delivered = mem.delivered
  /\ pc' = "idle" /\ ending' = "none" => env'.asked = mem.asked /\ env'.delivered = mem.delivered
  /\ handle # NoHead => handle' # NoHead

(* A step that is about neither rejection nor demand carries what is known of both. *)
LEMMA Carry ==
  ASSUME TypeOK, AtHand, Run, ~Starts, ~RecordFeedback, ~BeginDemand, ~ConfirmDemand
  PROVE  Carried
<1> USE DEF Carried
<1>0. mem \in Records /\ found \in Heads \cup {NoHead} /\ Newest \in Heads \cup {NoHead} /\ NoRecord.delivered = NoHead
  BY NewRecordType DEF TypeOK, Newest
<1>k. OtherKey \in Keys /\ "none" \in Pending /\ (found # NoHead => Feedback(found) \in Keys)
  BY <1>0 DEF OtherKey, Keys, Pending, Feedback
<1>1. CASE SupersedePlan
  BY <1>1, <1>0, <1>k, SetPending DEF SupersedePlan, Store, Save, Follows
<1>2. CASE SupersedeLost
  BY <1>2, <1>0 DEF SupersedeLost, Return, Rest, Goto, world, paper
<1>3. CASE NoFeedback
  BY <1>3, <1>0 DEF NoFeedback, Goto, world, paper, Delivered
<1>4. CASE BeginFeedback
  BY <1>4, <1>0, <1>k, SetSlot DEF BeginFeedback, Store, Goto, Delivered, Follows
<1>5. CASE SendFeedback
  BY <1>5, <1>0 DEF SendFeedback, Return, Rest, Goto, paper
<1>6. CASE AwaitEcho
  BY <1>6, <1>0 DEF AwaitEcho, Return, Rest, Goto, world, paper, Delivered
<1>7. CASE CompletionMissesPr
  BY <1>7, <1>0 DEF CompletionMissesPr, Goto, world, paper, DemandFirst, Completion
<1>8. CASE CompletionQuestioned
  BY <1>8, <1>0, <1>k, SetPending DEF CompletionQuestioned, Store, Save, Goto, Completion, Follows
<1>9. CASE CompletionOpen
  BY <1>9, <1>0 DEF CompletionOpen, Goto, world, paper, Completion
<1>10. CASE CompletionResolved
  BY <1>10, <1>0 DEF CompletionResolved, Goto, world, paper, Completion
<1>11. CASE CompletionUnread
  BY <1>11, <1>0 DEF CompletionUnread, Return, Rest, Goto, world, paper, Completion
<1>12. CASE Confirm
  BY <1>12, <1>0 DEF Confirm, Return, Rest, Goto, End
<1>13. CASE Demand
  BY <1>13, <1>0 DEF Demand, Return, Rest, Goto, paper
<1>14. CASE DemandEchoed
  BY <1>14, <1>0 DEF DemandEchoed, Goto, world, paper, Missing
<1>15. CASE DemandAwaited
  BY <1>15, <1>0 DEF DemandAwaited, Return, Rest, Goto, world, paper, Missing
<1>16. CASE PollFails
  BY <1>16, <1>0 DEF PollFails, Keep, Return, Rest, Goto
<1>17. CASE PollLive
  BY <1>17, <1>0, PollLiveSession DEF PollLive, Keep, Return, Rest, Goto, Follows
<1>18. CASE PollQuestion
  BY <1>18, <1>0, <1>k, Polled DEF PollQuestion, Keep, Return, Rest, Goto, Follows
<1>19. CASE PollTerminal
  BY <1>19, <1>0, <1>k, Polled DEF PollTerminal, Store, Save, Goto, Follows
<1>20. CASE Remind
  BY <1>20, <1>0, <1>k, SetReminded DEF Remind, Keep, Return, Rest, Goto, Follows
<1>21. CASE NoReminder
  BY <1>21, <1>0 DEF NoReminder, Goto, world, paper
<1>22. CASE LookupResolved
  BY <1>22, <1>0 DEF LookupResolved, Goto, world, paper
<1>23. CASE LookupNothing
  BY <1>23, <1>0 DEF LookupNothing, Goto, world, paper
<1>24. CASE Handoff
  BY <1>24, <1>0, HandoffSession DEF Handoff, Store, Save, Keep, Return, Rest, Goto, Follows
<1>25. CASE BeginRegister
  BY <1>25, <1>0, <1>k, SetPr DEF BeginRegister, Store, Save, Goto, Follows
<1>26. CASE RegisterUnread
  BY <1>26, <1>0 DEF RegisterUnread, Keep, Return, Rest, Goto
<1>27. CASE Register
  BY <1>27, <1>0, RegisterSession DEF Register, Store, Save, Keep, Return, Rest, Goto, Follows
<1>28. CASE RouteMerged
  BY <1>28, <1>0 DEF RouteMerged, Rest, Goto, End, AtRoute
<1>29. CASE RouteWaits
  BY <1>29, <1>0 DEF RouteWaits, Keep, Return, Rest, Goto, AtRoute
<1>30. CASE RouteToReview
  BY <1>30, <1>0, <1>k, SetSlot DEF RouteToReview, Keep, Return, Rest, Goto, AtRoute, Follows
<1>31. CASE RouteToRemediation
  BY <1>31, <1>0 DEF RouteToRemediation, Keep, Return, Rest, Goto, Leave, AtRoute
<1>32. CASE RouteFailure
  BY <1>32, <1>0 DEF RouteFailure, Keep, Return, Rest, Goto, Leave, AtRoute
<1>33. CASE RouteMissing
  BY <1>33, <1>0 DEF RouteMissing, Goto, world, paper, NoPr, AtRoute
<1>34. CASE RouteUnconfirmed
  BY <1>34, <1>0 DEF RouteUnconfirmed, Return, Rest, Goto, NoPr, AtRoute
<1>35. CASE RouteCancelled
  BY <1>35, <1>0 DEF RouteCancelled, Return, Rest, Goto, world, paper, NoPr, AtRoute
<1>36. CASE BeginCard
  BY <1>36, <1>0, <1>k, SetSlot DEF BeginCard, Store, Save, Goto, NoPr, AtRoute, Follows
<1>37. CASE PostCard
  BY <1>37, <1>0, PostCardSession DEF PostCard, Store, Save, Keep, Return, Rest, Goto, Follows
<1> QED BY <1>1, <1>2, <1>3, <1>4, <1>5, <1>6, <1>7, <1>8, <1>9, <1>10, <1>11, <1>12, <1>13, <1>14, <1>15, <1>16, <1>17, <1>18, <1>19, <1>20, <1>21, <1>22, <1>23, <1>24, <1>25, <1>26, <1>27, <1>28, <1>29, <1>30, <1>31, <1>32, <1>33, <1>34, <1>35, <1>36, <1>37 DEF Run, Starts

(* Only two steps of a run speak to Jules. *)
LEMMA Silence ==
  ASSUME Run, ~Starts, ~SendFeedback, ~Demand
  PROVE  heard' = heard
<1>1. CASE SupersedePlan
  BY <1>1 DEF SupersedePlan, inbox
<1>2. CASE SupersedeLost
  BY <1>2 DEF SupersedeLost, world, inbox
<1>3. CASE NoFeedback
  BY <1>3 DEF NoFeedback, world, inbox
<1>4. CASE BeginFeedback
  BY <1>4 DEF BeginFeedback, inbox
<1>5. CASE AwaitEcho
  BY <1>5 DEF AwaitEcho, world, inbox
<1>6. CASE RecordFeedback
  BY <1>6 DEF RecordFeedback, inbox
<1>7. CASE CompletionMissesPr
  BY <1>7 DEF CompletionMissesPr, world, inbox
<1>8. CASE CompletionQuestioned
  BY <1>8 DEF CompletionQuestioned, inbox
<1>9. CASE CompletionOpen
  BY <1>9 DEF CompletionOpen, world, inbox
<1>10. CASE CompletionResolved
  BY <1>10 DEF CompletionResolved, world, inbox
<1>11. CASE CompletionUnread
  BY <1>11 DEF CompletionUnread, world, inbox
<1>12. CASE Confirm
  BY <1>12 DEF Confirm, inbox
<1>13. CASE BeginDemand
  BY <1>13 DEF BeginDemand, inbox
<1>14. CASE DemandEchoed
  BY <1>14 DEF DemandEchoed, world, inbox
<1>15. CASE DemandAwaited
  BY <1>15 DEF DemandAwaited, world, inbox
<1>16. CASE ConfirmDemand
  BY <1>16 DEF ConfirmDemand, inbox
<1>17. CASE PollFails
  BY <1>17 DEF PollFails, inbox
<1>18. CASE PollLive
  BY <1>18 DEF PollLive, inbox
<1>19. CASE PollQuestion
  BY <1>19 DEF PollQuestion, inbox
<1>20. CASE PollTerminal
  BY <1>20 DEF PollTerminal, inbox
<1>21. CASE Remind
  BY <1>21 DEF Remind, inbox
<1>22. CASE NoReminder
  BY <1>22 DEF NoReminder, world, inbox
<1>23. CASE LookupResolved
  BY <1>23 DEF LookupResolved, world, inbox
<1>24. CASE LookupNothing
  BY <1>24 DEF LookupNothing, world, inbox
<1>25. CASE Handoff
  BY <1>25 DEF Handoff, inbox
<1>26. CASE BeginRegister
  BY <1>26 DEF BeginRegister, inbox
<1>27. CASE RegisterUnread
  BY <1>27 DEF RegisterUnread, inbox
<1>28. CASE Register
  BY <1>28 DEF Register, inbox
<1>29. CASE RouteMerged
  BY <1>29 DEF RouteMerged, inbox
<1>30. CASE RouteWaits
  BY <1>30 DEF RouteWaits, inbox
<1>31. CASE RouteToReview
  BY <1>31 DEF RouteToReview, inbox
<1>32. CASE RouteToRemediation
  BY <1>32 DEF RouteToRemediation, inbox
<1>33. CASE RouteFailure
  BY <1>33 DEF RouteFailure, inbox
<1>34. CASE RouteMissing
  BY <1>34 DEF RouteMissing, world, inbox
<1>35. CASE RouteUnconfirmed
  BY <1>35 DEF RouteUnconfirmed, inbox
<1>36. CASE RouteCancelled
  BY <1>36 DEF RouteCancelled, world, inbox
<1>37. CASE BeginCard
  BY <1>37 DEF BeginCard, inbox
<1>38. CASE PostCard
  BY <1>38 DEF PostCard, inbox
<1> QED BY <1>1, <1>2, <1>3, <1>4, <1>5, <1>6, <1>7, <1>8, <1>9, <1>10, <1>11, <1>12, <1>13, <1>14, <1>15, <1>16, <1>17, <1>18, <1>19, <1>20, <1>21, <1>22, <1>23, <1>24, <1>25, <1>26, <1>27, <1>28, <1>29, <1>30, <1>31, <1>32, <1>33, <1>34, <1>35, <1>36, <1>37, <1>38 DEF Run, Starts

(* Only the steps of the demand enter or leave its places. *)
LEMMA DemandPlaces ==
  ASSUME Run, ~Starts, ~BeginDemand, ~Demand, ~DemandEchoed, ~ConfirmDemand
  PROVE  pc \notin {"demand", "demanded"} /\ pc' \notin {"demand", "demanded"}
<1>1. CASE SupersedePlan
  BY <1>1 DEF SupersedePlan
<1>2. CASE SupersedeLost
  BY <1>2 DEF SupersedeLost, Goto, Return, Rest
<1>3. CASE NoFeedback
  BY <1>3 DEF NoFeedback, Goto
<1>4. CASE BeginFeedback
  BY <1>4 DEF BeginFeedback, Goto
<1>5. CASE SendFeedback
  BY <1>5 DEF SendFeedback, Goto, Return, Rest
<1>6. CASE AwaitEcho
  BY <1>6 DEF AwaitEcho, Goto, Return, Rest
<1>7. CASE RecordFeedback
  BY <1>7 DEF RecordFeedback, Goto, Keep, Return, Rest
<1>8. CASE CompletionMissesPr
  BY <1>8 DEF CompletionMissesPr, Goto, Completion
<1>9. CASE CompletionQuestioned
  BY <1>9 DEF CompletionQuestioned, Goto, Completion
<1>10. CASE CompletionOpen
  BY <1>10 DEF CompletionOpen, Goto, Completion
<1>11. CASE CompletionResolved
  BY <1>11 DEF CompletionResolved, Goto, Completion
<1>12. CASE CompletionUnread
  BY <1>12 DEF CompletionUnread, Goto, Return, Rest, Completion
<1>13. CASE Confirm
  BY <1>13 DEF Confirm, Goto, Return, Rest, End
<1>14. CASE DemandAwaited
  BY <1>14 DEF DemandAwaited, Goto, Return, Rest, Missing
<1>15. CASE PollFails
  BY <1>15 DEF PollFails, Goto, Keep, Return, Rest
<1>16. CASE PollLive
  BY <1>16 DEF PollLive, Goto, Keep, Return, Rest
<1>17. CASE PollQuestion
  BY <1>17 DEF PollQuestion, Goto, Keep, Return, Rest
<1>18. CASE PollTerminal
  BY <1>18 DEF PollTerminal, Goto
<1>19. CASE Remind
  BY <1>19 DEF Remind, Goto, Keep, Return, Rest
<1>20. CASE NoReminder
  BY <1>20 DEF NoReminder, Goto
<1>21. CASE LookupResolved
  BY <1>21 DEF LookupResolved, Goto
<1>22. CASE LookupNothing
  BY <1>22 DEF LookupNothing, Goto
<1>23. CASE Handoff
  BY <1>23 DEF Handoff, Goto, Keep, Return, Rest
<1>24. CASE BeginRegister
  BY <1>24 DEF BeginRegister, Goto
<1>25. CASE RegisterUnread
  BY <1>25 DEF RegisterUnread, Goto, Keep, Return, Rest
<1>26. CASE Register
  BY <1>26 DEF Register, Goto, Keep, Return, Rest
<1>27. CASE RouteMerged
  BY <1>27 DEF RouteMerged, Goto, Rest, End, AtRoute
<1>28. CASE RouteWaits
  BY <1>28 DEF RouteWaits, Goto, Keep, Return, Rest, AtRoute
<1>29. CASE RouteToReview
  BY <1>29 DEF RouteToReview, Goto, Keep, Return, Rest, AtRoute
<1>30. CASE RouteToRemediation
  BY <1>30 DEF RouteToRemediation, Goto, Keep, Return, Rest, Leave, AtRoute
<1>31. CASE RouteFailure
  BY <1>31 DEF RouteFailure, Goto, Keep, Return, Rest, Leave, AtRoute
<1>32. CASE RouteMissing
  BY <1>32 DEF RouteMissing, Goto, NoPr, AtRoute
<1>33. CASE RouteUnconfirmed
  BY <1>33 DEF RouteUnconfirmed, Goto, Return, Rest, NoPr, AtRoute
<1>34. CASE RouteCancelled
  BY <1>34 DEF RouteCancelled, Goto, Return, Rest, NoPr, AtRoute
<1>35. CASE BeginCard
  BY <1>35 DEF BeginCard, Goto, NoPr, AtRoute
<1>36. CASE PostCard
  BY <1>36 DEF PostCard, Goto, Keep, Return, Rest
<1> QED BY <1>1, <1>2, <1>3, <1>4, <1>5, <1>6, <1>7, <1>8, <1>9, <1>10, <1>11, <1>12, <1>13, <1>14, <1>15, <1>16, <1>17, <1>18, <1>19, <1>20, <1>21, <1>22, <1>23, <1>24, <1>25, <1>26, <1>27, <1>28, <1>29, <1>30, <1>31, <1>32, <1>33, <1>34, <1>35, <1>36 DEF Run, Starts

(* What the others leave to a run. *)
LEMMA EnvironmentHeads ==
  ASSUME TypeOK, Environment
  PROVE  /\ Newest' = Newest \/ Newest' = Newest + 1
         /\ jules'.asked # 0 \/ jules'.asked = jules.asked
<1>0. jules \in [state : {"working", "awaiting"} \cup Terminal, head : Heads \cup {NoHead},
                 asked : 0 .. MaxQuestions, answered : 0 .. MaxQuestions]
  BY DEF TypeOK
<1>1. CASE Push
  BY <1>0, <1>1 DEF Push, Newest
<1>2. CASE Rests
  BY <1>0, <1>2 DEF Rests, Newest
<1>3. CASE Ask
  <2>1. jules'.head = jules.head /\ jules'.asked = jules.asked + 1 /\ jules.asked \in Nat
    BY <1>0, <1>3 DEF Ask
  <2> QED BY <2>1 DEF Newest
<1>4. CASE Answer
  BY <1>0, <1>4 DEF Answer, Newest
<1>5. CASE UNCHANGED jules
  BY <1>5 DEF Newest
<1> QED BY <1>1, <1>2, <1>3, <1>4, <1>5 DEF Environment, Echo, ChecksEnd, DecidePlan, OpenReview, Review, MergePr, Demands, Resolve, remote

-----------------------------------------------------------------------------
(* 5. A run has at hand what it needs.                                     *)

(* Every step leaves the next one what it needs. *)
LEMMA AtHandStep ==
  ASSUME TypeOK, TypeOK', AtHand, [Next]_vars, faults \subseteq faults'
  PROVE  AtHand'
<1>0. /\ Newest \in Nat /\ Newest' \in Nat /\ board \in Nat /\ verdict \in [Heads -> {"none", "open", "rejected", "accepted"}]
      /\ env \in Records /\ disk \in Records
  BY DEF TypeOK, Newest
<1>1. ASSUME Run \/ Crash
      PROVE  /\ board' <= Newest' /\ (board # NoHead => board' # NoHead)
             /\ \A h \in Heads : verdict'[h] # "none" => h <= Newest' /\ board' # NoHead
             /\ issue' = "in_review" => board' # NoHead
  BY <1>0, <1>1, RunLeaves DEF AtHand
<1>2. CASE Run /\ ~Starts
  <2>1. pc # "idle" /\ (Onward \/ Ended \/ GivenUp)
    BY <1>2, Passage
  <2>2. ending = "none" /\ mem.known /\ (Plain \/ mem.pr)
    BY <2>1 DEF AtHand
  <2>3. CASE Onward
    <3>1. ending' = "none" /\ mem'.known /\ (Plain' \/ mem'.pr)
      BY <2>2, <2>3 DEF Onward, Plain
    <3> QED BY <1>1, <1>2, <2>3, <3>1 DEF Onward, AtHand
  <2>4. CASE Ended
    BY <1>1, <1>2, <2>2, <2>4 DEF Ended, AtHand
  <2>5. CASE GivenUp
    BY <1>1, <1>2, <2>2, <2>5 DEF GivenUp, AtHand
  <2> QED BY <2>1, <2>3, <2>4, <2>5
<1>3. CASE Start
  <2>1. pc' = "feedback" /\ pc = "idle" /\ mem' = Restored /\ UNCHANGED <<board, handle, ending, env>> /\ ending = "none"
    BY <1>3 DEF Start, Goto, world, paper, Startable
  <2>2. mem'.known /\ (Plain' \/ mem'.pr)
    BY <2>1, Started DEF Plain
  <2> QED BY <1>1, <1>3, <2>1, <2>2 DEF AtHand, Run
<1>4. CASE StartMerged
  BY <1>1, <1>4 DEF StartMerged, End, Rest, Goto, AtHand, Run
<1>5. CASE StartFenced
  <2>1. pc = "idle" /\ pc' = "idle" /\ board # NoHead /\ board' = board /\ "late_run" \in faults'
    BY <1>5 DEF StartFenced, Startable, Fault, world, paper, AtHand
  <2> QED BY <1>1, <1>5, <2>1 DEF AtHand, Run
<1>6. CASE Crash
  <2>1. pc' = "idle" /\ UNCHANGED <<board, ending, env>>
    BY <1>6 DEF Crash, Rest, Goto, world, paper
  <2> QED BY <1>1, <1>6, <2>1 DEF AtHand
<1>7. CASE Environment
  <2>1. UNCHANGED <<board, handle, ending, env, mem, pc, found>>
    BY <1>7 DEF Environment, LocalUnchanged, Push, Rests, Ask, Answer, Echo, ChecksEnd, DecidePlan, OpenReview, Review, MergePr, Demands, Resolve, paper
  <2>2. Newest <= Newest'
    BY <1>0, <1>7, EnvironmentHeads
  <2>3. \/ UNCHANGED <<verdict, issue>>
        \/ board # NoHead /\ verdict' = [verdict EXCEPT ![board] = "open"]
        \/ (\E h \in Heads : verdict[h] = "open" /\ \E v \in {"rejected", "accepted"} : verdict' = [verdict EXCEPT ![h] = v]) /\ issue' \in {issue, "in_progress"}
        \/ UNCHANGED verdict /\ issue' \in {issue, "in_progress"}
    BY <1>7 DEF Environment, Push, Rests, Ask, Answer, Echo, ChecksEnd, DecidePlan, OpenReview, Review, MergePr, Demands, Resolve, remote, paper
  <2>4. \A h \in Heads : verdict'[h] # "none" => h <= Newest' /\ board' # NoHead
    BY <1>0, <2>1, <2>2, <2>3 DEF AtHand
  <2>5. issue' = "in_review" => board' # NoHead
    BY <2>1, <2>3 DEF AtHand
  <2>6. board' <= Newest'
    BY <1>0, <2>1, <2>2 DEF AtHand
  <2> QED BY <2>1, <2>4, <2>5, <2>6 DEF AtHand, Plain
<1>8. CASE UNCHANGED vars
  BY <1>8 DEF vars, world, remote, paper, AtHand, Plain, Newest
<1> QED BY <1>2, <1>3, <1>4, <1>5, <1>6, <1>7, <1>8 DEF Next, Starts

-----------------------------------------------------------------------------
(* 6. The demand for a pull request.                                       *)

(* A pull request that is known stays known. *)
LEMMA PlainBefore ==
  ASSUME TypeOK, AtHand, Run \/ Crash, handle # NoHead => handle' # NoHead, Plain'
  PROVE  Plain
<1>1. board \in Nat /\ Newest \in Nat /\ (board # NoHead => board' # NoHead)
  BY RunLeaves DEF TypeOK, Newest, AtHand
<1> QED BY <1>1 DEF Plain

(* Every step keeps track of the demand: it is sent once. *)
LEMMA DemandStep ==
  ASSUME TypeOK, TypeOK', AtHand, AtHand', DemandInv, [Next]_vars, faults \subseteq faults'
  PROVE  DemandInv'
<1>0. /\ mem \in Records /\ RequiredPr \in Messages /\ heard[RequiredPr] \in 0 .. 2 /\ JulesOK
      /\ heard \in [Messages -> 0 .. 2] /\ acted \subseteq Messages /\ found \in Heads \cup {NoHead}
      /\ "started" \in Attempts /\ "confirmed" \in Attempts /\ "none" \in Pending
  BY DEF TypeOK, Messages, JulesOK, Attempts, Pending
<1>1. CASE Run /\ ~Starts /\ ~BeginDemand /\ ~Demand /\ ~DemandEchoed /\ ~ConfirmDemand
  <2>1. pc # "idle" /\ (Onward \/ Ended \/ GivenUp)
    BY <1>1, Passage
  <2>2. pc \notin {"demand", "demanded"} /\ pc' \notin {"demand", "demanded"}
    BY <1>1, DemandPlaces
  <2>3. heard'[RequiredPr] = heard[RequiredPr]
    <3>1. CASE SendFeedback
      <4>1. found # NoHead
        BY <3>1 DEF SendFeedback, AtHand
      <4>2. Feedback(found) \in Messages /\ RequiredPr # Feedback(found)
        BY <1>0, <4>1 DEF Messages, Feedback, RequiredPr
      <4> QED BY <1>0, <3>1, <4>2, LandFacts DEF SendFeedback, Unheard
    <3>2. CASE ~SendFeedback
      BY <1>1, <3>2, Silence
    <3> QED BY <3>1, <3>2
  <2>4. /\ pc' # "idle" => mem'.asked = mem.asked
        /\ pc' = "idle" /\ ending' = "none" => env'.asked = mem.asked
        /\ handle # NoHead => handle' # NoHead
    <3>1. CASE RecordFeedback
      <4> DEFINE q == [mem EXCEPT !.delivered = found, !.awaited = "sent"]
      <4>1. found # NoHead
        BY <3>1 DEF RecordFeedback, AtHand
      <4>2. q.asked = mem.asked
        BY <1>0, <4>1, SetDelivered
      <4>3. Keep(q)
        BY <3>1 DEF RecordFeedback
      <4> HIDE DEF q
      <4> QED BY <4>2, <4>3 DEF Keep, Return, Rest, Goto
    <3>2. CASE ~RecordFeedback
      BY <1>1, <3>2, Carry DEF Carried
    <3> QED BY <3>1, <3>2
  <2>5. Plain' => Plain
    BY <1>1, <2>4, PlainBefore
  <2>6. pc' # "idle" => env' = env /\ ending' = ending
    BY <2>1 DEF Onward, Ended, GivenUp
  <2>7. ending = "none"
    BY <2>1 DEF AtHand
  <2> QED BY <2>1, <2>2, <2>3, <2>4, <2>5, <2>6, <2>7 DEF DemandInv, Asked, Demanded
<1>2. CASE BeginDemand
  <2>1. pc = "missing" /\ mem.asked = "absent" /\ pc' = "demand" /\ UNCHANGED <<board, handle, heard, env, ending>>
    BY <1>2 DEF BeginDemand, Missing, Goto, inbox
  <2>2. Plain /\ Plain'
    BY <2>1 DEF AtHand, Plain
  <2>3. ~Asked
    BY <2>1, <2>2 DEF DemandInv, Demanded
  <2>4. mem' = [mem EXCEPT !.asked = "started"] /\ disk' = mem'
    BY <1>2 DEF BeginDemand, Store
  <2>5. mem'.asked = "started" /\ mem'.known
    BY <1>0, <2>1, <2>4, SetAsked DEF AtHand
  <2> QED BY <2>1, <2>3, <2>4, <2>5 DEF DemandInv, Asked, Demanded
<1>3. CASE Demand
  <2>1. /\ pc = "demand" /\ ~Asked /\ Demanded(mem) /\ disk.known /\ Demanded(disk)
        /\ UNCHANGED <<board, handle, ending, disk>>
    BY <1>3 DEF Demand, DemandInv, paper
  <2>2. heard[RequiredPr] = 0
    BY <1>0, <2>1 DEF Asked
  <2>3. heard'[RequiredPr] <= 1
    BY <1>0, <1>3, <2>2, LandFacts DEF Demand, Unheard
  <2>4. \/ pc' = "demanded" /\ mem' = mem
        \/ pc' = "idle" /\ env' = mem
    BY <1>3 DEF Demand, Goto, Return, Rest
  <2> QED BY <2>1, <2>3, <2>4 DEF DemandInv, Asked, Demanded
<1>4. CASE DemandEchoed
  <2>1. mem.asked = "started" /\ pc = "missing" /\ pc' = "demanded" /\ UNCHANGED <<board, handle, heard, env, disk, mem, ending>>
    BY <1>4 DEF DemandEchoed, Missing, Goto, world, paper, inbox
  <2> QED BY <2>1 DEF DemandInv, Asked, Demanded, Plain
<1>5. CASE ConfirmDemand
  <2> DEFINE r == [mem EXCEPT !.asked = "confirmed"]
             q == [r EXCEPT !.pending = "none"]
  <2>1. r \in Records /\ r.asked = "confirmed"
    BY <1>0, SetAsked
  <2>2. q.asked = "confirmed"
    BY <1>0, <2>1, SetPending DEF Follows
  <2>3. (Return(q) \/ Return(r)) /\ UNCHANGED <<board, handle, heard>>
    BY <1>5 DEF ConfirmDemand, inbox
  <2> HIDE DEF r, q
  <2> QED BY <2>1, <2>2, <2>3 DEF Return, Rest, Goto, DemandInv, Asked, Demanded, Plain
<1>6. CASE Start
  <2>1. /\ pc = "idle" /\ pc' = "feedback" /\ mem' = Restored /\ UNCHANGED <<board, handle, heard, env, disk, ending>>
        /\ ending = "none"
    BY <1>6 DEF Start, Goto, world, paper, inbox, Startable
  <2>2. ASSUME Asked, Plain
        PROVE  /\ Demanded(mem')
               /\ Demanded(env) \/ "crash" \in faults'
    <3>1. env.known
      BY <2>1, <2>2 DEF AtHand, Plain
    <3>2. Demanded(env) \/ (disk.known /\ Demanded(disk))
      BY <2>1, <2>2 DEF DemandInv
    <3>3. Demanded(Restored)
      BY <3>1, <3>2, Started DEF Demanded
    <3>4. Demanded(env) \/ "crash" \in faults
      BY <2>1, <2>2 DEF DemandInv
    <3> QED BY <2>1, <3>3, <3>4
  <2>3. (Asked' <=> Asked) /\ (Plain' <=> Plain)
    BY <2>1 DEF Asked, Plain
  <2>4. Asked /\ Plain => Demanded(env) \/ (disk.known /\ Demanded(disk))
    BY <2>1 DEF DemandInv
  <2> QED BY <2>1, <2>2, <2>3, <2>4 DEF DemandInv, Demanded, Asked
<1>7. CASE StartMerged
  BY <1>7 DEF StartMerged, End, Rest, Goto, DemandInv, Asked, inbox
<1>8. CASE StartFenced
  <2>1. pc' = "idle" /\ board # NoHead /\ UNCHANGED <<board, heard>>
    BY <1>8 DEF StartFenced, Startable, world, paper, inbox, AtHand
  <2> QED BY <2>1 DEF DemandInv, Asked, Plain
<1>9. CASE Crash
  <2>1. pc' = "idle" /\ "crash" \in faults' /\ "crash" \notin faults /\ UNCHANGED <<board, handle, heard, env, disk, ending>>
    BY <1>9 DEF Crash, Rest, Goto, Fault, world, paper, inbox
  <2> QED BY <2>1 DEF DemandInv, Asked, Demanded, Plain
<1>10. CASE Environment
  <2>1. UNCHANGED <<board, handle, ending, env, disk, mem, pc, heard>>
    BY <1>10 DEF Environment, LocalUnchanged, Push, Rests, Ask, Answer, Echo, ChecksEnd, DecidePlan, OpenReview, Review, MergePr, Demands, Resolve, paper, inbox
  <2> QED BY <2>1 DEF DemandInv, Asked, Demanded, Plain
<1>11. CASE UNCHANGED vars
  BY <1>11 DEF vars, world, paper, inbox, DemandInv, Asked, Demanded, Plain
<1> QED BY <1>1, <1>2, <1>3, <1>4, <1>5, <1>6, <1>7, <1>8, <1>9, <1>10, <1>11 DEF Next, Starts

-----------------------------------------------------------------------------
(* 7. The confirmation of a completion without pull request.               *)

(* No card is asked again without a question. *)
LEMMA NeverReissued ==
  ASSUME TypeOK, AtHand, Run, ~Starts, ~env.reissued, ~disk.reissued, ~mem.reissued, card.base # "superseded"
  PROVE  ~env'.reissued /\ ~disk'.reissued /\ ~mem'.reissued
<1>0. /\ mem \in Records /\ found \in Heads \cup {NoHead} /\ Newest \in Heads \cup {NoHead}
      /\ (pc \in {"send", "record"} => found # NoHead) /\ ~NoRecord.reissued
  BY NewRecordType DEF TypeOK, Newest, AtHand
<1>k. OtherKey \in Keys /\ "none" \in Pending /\ "started" \in Attempts /\ (found # NoHead => Feedback(found) \in Keys)
  BY <1>0 DEF OtherKey, Keys, Pending, Feedback, Attempts
<1>1. CASE SupersedePlan
  BY <1>1, <1>0, <1>k, SetPending DEF SupersedePlan, Store, Save, Follows
<1>2. CASE SupersedeLost
  BY <1>2, <1>0 DEF SupersedeLost, Return, Rest, Goto, world, paper
<1>3. CASE NoFeedback
  BY <1>3, <1>0 DEF NoFeedback, Goto, world, paper, Delivered
<1>4. CASE BeginFeedback
  BY <1>4, <1>0, <1>k, SetSlot DEF BeginFeedback, Store, Goto, Delivered, Follows
<1>5. CASE SendFeedback
  BY <1>5, <1>0 DEF SendFeedback, Return, Rest, Goto, paper
<1>6. CASE AwaitEcho
  BY <1>6, <1>0 DEF AwaitEcho, Return, Rest, Goto, world, paper, Delivered
<1>7. CASE RecordFeedback
  BY <1>7, <1>0, <1>k, SetDelivered DEF RecordFeedback, Keep, Return, Rest, Goto, Follows
<1>8. CASE CompletionMissesPr
  BY <1>8, <1>0 DEF CompletionMissesPr, Goto, world, paper, DemandFirst, Completion
<1>9. CASE CompletionQuestioned
  BY <1>9, <1>0, <1>k, SetPending DEF CompletionQuestioned, Store, Save, Goto, Completion, Follows
<1>10. CASE CompletionOpen
  BY <1>10, <1>0 DEF CompletionOpen, Goto, world, paper, Completion
<1>11. CASE CompletionResolved
  BY <1>11, <1>0 DEF CompletionResolved, Goto, world, paper, Completion
<1>12. CASE CompletionUnread
  BY <1>12, <1>0 DEF CompletionUnread, Return, Rest, Goto, world, paper, Completion
<1>13. CASE Confirm
  BY <1>13, <1>0 DEF Confirm, Return, Rest, Goto, End
<1>14. CASE BeginDemand
  BY <1>14, <1>0, <1>k, SetAsked DEF BeginDemand, Store, Goto, Missing, Follows
<1>15. CASE Demand
  BY <1>15, <1>0 DEF Demand, Return, Rest, Goto, paper
<1>16. CASE DemandEchoed
  BY <1>16, <1>0 DEF DemandEchoed, Goto, world, paper, Missing
<1>17. CASE DemandAwaited
  BY <1>17, <1>0 DEF DemandAwaited, Return, Rest, Goto, world, paper, Missing
<1>18. CASE ConfirmDemand
  BY <1>18, <1>0, ConfirmDemandSession DEF ConfirmDemand, Return, Rest, Goto, Follows
<1>19. CASE PollFails
  BY <1>19, <1>0 DEF PollFails, Keep, Return, Rest, Goto
<1>20. CASE PollLive
  BY <1>20, <1>0, PollLiveSession DEF PollLive, Keep, Return, Rest, Goto, Follows
<1>21. CASE PollQuestion
  BY <1>21, <1>0, <1>k, Polled DEF PollQuestion, Keep, Return, Rest, Goto, Follows
<1>22. CASE PollTerminal
  BY <1>22, <1>0, <1>k, Polled DEF PollTerminal, Store, Save, Goto, Follows
<1>23. CASE Remind
  BY <1>23, <1>0, <1>k, SetReminded DEF Remind, Keep, Return, Rest, Goto, Follows
<1>24. CASE NoReminder
  BY <1>24, <1>0 DEF NoReminder, Goto, world, paper
<1>25. CASE LookupResolved
  BY <1>25, <1>0 DEF LookupResolved, Goto, world, paper
<1>26. CASE LookupNothing
  BY <1>26, <1>0 DEF LookupNothing, Goto, world, paper
<1>27. CASE Handoff
  BY <1>27, <1>0, HandoffSession DEF Handoff, Store, Save, Keep, Return, Rest, Goto, Follows
<1>28. CASE BeginRegister
  BY <1>28, <1>0, <1>k, SetPr DEF BeginRegister, Store, Save, Goto, Follows
<1>29. CASE RegisterUnread
  BY <1>29, <1>0 DEF RegisterUnread, Keep, Return, Rest, Goto
<1>30. CASE Register
  BY <1>30, <1>0, RegisterSession DEF Register, Store, Save, Keep, Return, Rest, Goto, Follows
<1>31. CASE RouteMerged
  BY <1>31, <1>0 DEF RouteMerged, Rest, Goto, End, AtRoute
<1>32. CASE RouteWaits
  BY <1>32, <1>0 DEF RouteWaits, Keep, Return, Rest, Goto, AtRoute
<1>33. CASE RouteToReview
  BY <1>33, <1>0, <1>k, SetSlot DEF RouteToReview, Keep, Return, Rest, Goto, AtRoute, Follows
<1>34. CASE RouteToRemediation
  BY <1>34, <1>0 DEF RouteToRemediation, Keep, Return, Rest, Goto, Leave, AtRoute
<1>35. CASE RouteFailure
  BY <1>35, <1>0 DEF RouteFailure, Keep, Return, Rest, Goto, Leave, AtRoute
<1>36. CASE RouteMissing
  BY <1>36, <1>0 DEF RouteMissing, Goto, world, paper, NoPr, AtRoute
<1>37. CASE RouteUnconfirmed
  BY <1>37, <1>0 DEF RouteUnconfirmed, Return, Rest, Goto, NoPr, AtRoute
<1>38. CASE RouteCancelled
  BY <1>38, <1>0 DEF RouteCancelled, Return, Rest, Goto, world, paper, NoPr, AtRoute
<1>39. CASE BeginCard
  BY <1>39, <1>0, <1>k, SetSlot DEF BeginCard, Store, Save, Goto, NoPr, AtRoute, Follows
<1>40. CASE PostCard
  BY <1>40, <1>0, PostCardSession DEF PostCard, Store, Save, Keep, Return, Rest, Goto, Follows
<1> QED BY <1>1, <1>2, <1>3, <1>4, <1>5, <1>6, <1>7, <1>8, <1>9, <1>10, <1>11, <1>12, <1>13, <1>14, <1>15, <1>16, <1>17, <1>18, <1>19, <1>20, <1>21, <1>22, <1>23, <1>24, <1>25, <1>26, <1>27, <1>28, <1>29, <1>30, <1>31, <1>32, <1>33, <1>34, <1>35, <1>36, <1>37, <1>38, <1>39, <1>40 DEF Run, Starts

(* A step of a run that posts no confirmation withdraws the pending ones at most. *)
LEMMA CardChanges ==
  ASSUME TypeOK, Run, ~Starts, ~PostCard, ~Open, card.base # "superseded"
  PROVE  card' = card \/ \E w \in DOMAIN card : card' = [card EXCEPT ![w] = "cancelled"] /\ card[w] = "pending"
<1>1. CASE SupersedePlan
  BY <1>1 DEF SupersedePlan
<1>2. CASE SupersedeLost
  BY <1>2 DEF SupersedeLost, world, paper
<1>3. CASE NoFeedback
  BY <1>3 DEF NoFeedback, world, paper
<1>4. CASE BeginFeedback
  BY <1>4 DEF BeginFeedback
<1>5. CASE SendFeedback
  BY <1>5 DEF SendFeedback, paper
<1>6. CASE AwaitEcho
  BY <1>6 DEF AwaitEcho, world, paper
<1>7. CASE RecordFeedback
  BY <1>7 DEF RecordFeedback
<1>8. CASE CompletionMissesPr
  BY <1>8 DEF CompletionMissesPr, world, paper
<1>9. CASE CompletionQuestioned
  BY <1>9 DEF CompletionQuestioned
<1>10. CASE CompletionOpen
  BY <1>10 DEF CompletionOpen, world, paper
<1>11. CASE CompletionResolved
  BY <1>11 DEF CompletionResolved, world, paper
<1>12. CASE CompletionUnread
  BY <1>12 DEF CompletionUnread, world, paper
<1>13. CASE Confirm
  BY <1>13 DEF Confirm
<1>14. CASE BeginDemand
  BY <1>14 DEF BeginDemand
<1>15. CASE Demand
  BY <1>15 DEF Demand, paper
<1>16. CASE DemandEchoed
  BY <1>16 DEF DemandEchoed, world, paper
<1>17. CASE DemandAwaited
  BY <1>17 DEF DemandAwaited, world, paper
<1>18. CASE ConfirmDemand
  BY <1>18 DEF ConfirmDemand, Withdrawn, Withdrawable, Which, TypeOK
<1>19. CASE PollFails
  BY <1>19 DEF PollFails
<1>20. CASE PollLive
  BY <1>20 DEF PollLive
<1>21. CASE PollQuestion
  BY <1>21 DEF PollQuestion
<1>22. CASE PollTerminal
  BY <1>22 DEF PollTerminal
<1>23. CASE Remind
  BY <1>23 DEF Remind
<1>24. CASE NoReminder
  BY <1>24 DEF NoReminder, world, paper
<1>25. CASE LookupResolved
  BY <1>25 DEF LookupResolved, world, paper
<1>26. CASE LookupNothing
  BY <1>26 DEF LookupNothing, world, paper
<1>27. CASE Handoff
  BY <1>27 DEF Handoff, Withdrawn, Withdrawable, Which, TypeOK
<1>28. CASE BeginRegister
  BY <1>28 DEF BeginRegister
<1>29. CASE RegisterUnread
  BY <1>29 DEF RegisterUnread
<1>30. CASE Register
  BY <1>30 DEF Register
<1>31. CASE RouteMerged
  BY <1>31 DEF RouteMerged
<1>32. CASE RouteWaits
  BY <1>32 DEF RouteWaits
<1>33. CASE RouteToReview
  BY <1>33 DEF RouteToReview
<1>34. CASE RouteToRemediation
  BY <1>34 DEF RouteToRemediation
<1>35. CASE RouteFailure
  BY <1>35 DEF RouteFailure
<1>36. CASE RouteMissing
  BY <1>36 DEF RouteMissing, world, paper
<1>37. CASE RouteUnconfirmed
  BY <1>37 DEF RouteUnconfirmed
<1>38. CASE RouteCancelled
  BY <1>38 DEF RouteCancelled, world, paper
<1>39. CASE BeginCard
  BY <1>39 DEF BeginCard
<1> QED BY <1>1, <1>2, <1>3, <1>4, <1>5, <1>6, <1>7, <1>8, <1>9, <1>10, <1>11, <1>12, <1>13, <1>14, <1>15, <1>16, <1>17, <1>18, <1>19, <1>20, <1>21, <1>22, <1>23, <1>24, <1>25, <1>26, <1>27, <1>28, <1>29, <1>30, <1>31, <1>32, <1>33, <1>34, <1>35, <1>36, <1>37, <1>38, <1>39 DEF Run, Starts

(* A confirmation that stays pending through a step of a run. *)
Asking(b, h, r, d, at) == b = NoHead /\ h = NoHead /\ r.pending = "completion" /\ ~r.pr /\ ~d.pr /\ at \notin {"register", "registered"}

LEMMA Awaiting ==
  ASSUME TypeOK, AtHand, Run, ~Starts, ~PostCard, ~Open, ~mem.reissued, card.base = "pending", Asking(board, handle, mem, disk, pc)
  PROVE  \/ card'.base # "pending"
         \/ ending' # "none" /\ board' = NoHead /\ handle' = NoHead /\ pc' = "idle"
         \/ pc' = "idle" /\ Asking(board', handle', env', disk', pc')
         \/ pc' # "idle" /\ Asking(board', handle', mem', disk', pc')
<1> USE DEF Asking
<1>0. /\ mem \in Records /\ found \in Heads \cup {NoHead} /\ Newest \in Heads \cup {NoHead}
      /\ pc \in {"send", "record"} => found # NoHead
      /\ board = NoHead /\ handle = NoHead /\ mem.pending = "completion" /\ ~mem.pr /\ ~disk.pr /\ pc \notin {"register", "registered"}
      /\ ~NoRecord.pr
      /\ card \in [{"base", "reissue"} -> {"absent", "pending", "accepted", "rejected", "superseded", "cancelled"}]
  BY NewRecordType DEF TypeOK, Newest, AtHand, Asking
<1>k. OtherKey \in Keys /\ "none" \in Pending /\ "started" \in Attempts /\ (found # NoHead => Feedback(found) \in Keys)
  BY <1>0 DEF OtherKey, Keys, Pending, Feedback, Attempts
<1>1. CASE SupersedePlan
  BY <1>1, <1>0, <1>k, SetPending DEF SupersedePlan, Store, Save, Delivered, Supersedes, Follows
<1>2. CASE SupersedeLost
  BY <1>2, <1>0 DEF SupersedeLost, Return, Rest, Goto, world, paper, Delivered, Supersedes
<1>3. CASE NoFeedback
  BY <1>3, <1>0 DEF NoFeedback, Goto, world, paper, Delivered
<1>4. CASE BeginFeedback
  BY <1>4, <1>0, <1>k, SetSlot DEF BeginFeedback, Store, Goto, Delivered, Supersedes, Follows
<1>5. CASE SendFeedback
  BY <1>5, <1>0 DEF SendFeedback, Return, Rest, Goto, paper
<1>6. CASE AwaitEcho
  BY <1>6, <1>0 DEF AwaitEcho, Return, Rest, Goto, world, paper, Delivered, Supersedes
<1>7. CASE RecordFeedback
  BY <1>7, <1>0, <1>k, SetDelivered DEF RecordFeedback, Keep, Return, Rest, Goto, Follows
<1>8. CASE CompletionMissesPr
  BY <1>8, <1>0 DEF CompletionMissesPr, Goto, world, paper, DemandFirst, Completion
<1>9. CASE CompletionQuestioned
  BY <1>9, <1>0, <1>k, SetPending DEF CompletionQuestioned, Store, Save, Goto, Completion, Follows
<1>10. CASE CompletionOpen
  BY <1>10, <1>0 DEF CompletionOpen, Goto, world, paper, Completion
<1>11. CASE CompletionResolved
  BY <1>11, <1>0 DEF CompletionResolved, Goto, world, paper, Completion
<1>12. CASE CompletionUnread
  BY <1>12, <1>0 DEF CompletionUnread, Return, Rest, Goto, world, paper, Completion
<1>13. CASE Confirm
  BY <1>13, <1>0 DEF Confirm, Return, Rest, Goto, End, Endings
<1>14. CASE BeginDemand
  BY <1>14, <1>0, <1>k, SetAsked DEF BeginDemand, Store, Goto, Missing, Follows
<1>15. CASE Demand
  BY <1>15, <1>0 DEF Demand, Return, Rest, Goto, paper
<1>16. CASE DemandEchoed
  BY <1>16, <1>0 DEF DemandEchoed, Goto, world, paper, Missing
<1>17. CASE DemandAwaited
  BY <1>17, <1>0 DEF DemandAwaited, Return, Rest, Goto, world, paper, Missing
<1>18. CASE ConfirmDemand
  <2>1. CASE card' = Withdrawn
    BY <1>0, <2>1 DEF Withdrawn, Withdrawable, Which
  <2>2. CASE card' # Withdrawn
    BY <1>18, <1>0, <2>2, ConfirmDemandSession DEF ConfirmDemand, Return, Rest, Goto
  <2> QED BY <2>1, <2>2
<1>19. CASE PollFails
  BY <1>19, <1>0 DEF PollFails, Keep, Return, Rest, Goto
<1>20. CASE PollLive
  BY <1>20, <1>0, PollLiveSession DEF PollLive, Keep, Return, Rest, Goto, Follows
<1>21. CASE PollQuestion
  BY <1>21, <1>0, <1>k, Polled DEF PollQuestion, Keep, Return, Rest, Goto, Follows
<1>22. CASE PollTerminal
  BY <1>22, <1>0, <1>k, Polled DEF PollTerminal, Store, Save, Goto, Follows
<1>23. CASE Remind
  BY <1>23, <1>0, <1>k, SetReminded DEF Remind, Keep, Return, Rest, Goto, Follows
<1>24. CASE NoReminder
  BY <1>24, <1>0 DEF NoReminder, Goto, world, paper
<1>25. CASE LookupResolved
  BY <1>25, <1>0 DEF LookupResolved, Goto, world, paper
<1>26. CASE LookupNothing
  BY <1>26, <1>0 DEF LookupNothing, Goto, world, paper
<1>27. CASE Handoff
  <2>1. CASE card' = Withdrawn
    BY <1>0, <2>1 DEF Withdrawn, Withdrawable, Which
  <2>2. CASE Keep(mem) /\ board' = board
    BY <1>0, <2>2 DEF Keep, Return, Rest, Goto
  <2> QED BY <1>27, <2>1, <2>2 DEF Handoff
<1>28. CASE BeginRegister
  BY <1>28, <1>0, <1>k, SetPr DEF BeginRegister, Store, Save, Goto, Follows
<1>29. CASE RegisterUnread
  BY <1>29, <1>0 DEF RegisterUnread, Keep, Return, Rest, Goto
<1>30. CASE Register
  BY <1>30, <1>0, <1>k, SetRegistered, RegisterSession DEF Register, Store, Save, Keep, Return, Rest, Goto, Follows
<1>31. CASE RouteMerged
  BY <1>31, <1>0 DEF RouteMerged, Rest, Goto, End, AtRoute, Merged
<1>32. CASE RouteWaits
  BY <1>32, <1>0 DEF RouteWaits, Keep, Return, Rest, Goto, AtRoute
<1>33. CASE RouteToReview
  BY <1>33, <1>0, <1>k, SetSlot DEF RouteToReview, Keep, Return, Rest, Goto, AtRoute, Follows
<1>34. CASE RouteToRemediation
  BY <1>34, <1>0 DEF RouteToRemediation, Keep, Return, Rest, Goto, Leave, AtRoute
<1>35. CASE RouteFailure
  BY <1>35, <1>0 DEF RouteFailure, Keep, Return, Rest, Goto, Leave, AtRoute
<1>36. CASE RouteMissing
  BY <1>36, <1>0 DEF RouteMissing, Goto, world, paper, NoPr, AtRoute
<1>37. CASE RouteUnconfirmed
  BY <1>37, <1>0 DEF RouteUnconfirmed, Return, Rest, Goto, NoPr, AtRoute
<1>38. CASE RouteCancelled
  BY <1>38, <1>0 DEF RouteCancelled, Return, Rest, Goto, world, paper, NoPr, AtRoute
<1>39. CASE BeginCard
  BY <1>39, <1>0, <1>k, SetSlot DEF BeginCard, Store, Save, Goto, NoPr, AtRoute, Follows
<1> QED BY <1>1, <1>2, <1>3, <1>4, <1>5, <1>6, <1>7, <1>8, <1>9, <1>10, <1>11, <1>12, <1>13, <1>14, <1>15, <1>16, <1>17, <1>18, <1>19, <1>20, <1>21, <1>22, <1>23, <1>24, <1>25, <1>26, <1>27, <1>28, <1>29, <1>30, <1>31, <1>32, <1>33, <1>34, <1>35, <1>36, <1>37, <1>38, <1>39 DEF Run, Starts

(* Every step keeps a pending confirmation apart from a pull request. *)
LEMMA CardStep ==
  ASSUME TypeOK, TypeOK', AtHand, AtHand', CardInv, [Next]_vars, faults \subseteq faults'
  PROVE  CardInv'
<1> SUFFICES ASSUME Unasked'
             PROVE  /\ ~env'.reissued /\ ~disk'.reissued /\ ~mem'.reissued
                    /\ card'.reissue = "absent" /\ card'.base # "superseded"
                    /\ card'.base = "pending" =>
                         /\ Plain' /\ pc' \notin {"register", "registered"}
                         /\ ending' = "none" => R'.pending = "completion" /\ ~R'.pr /\ ~disk'.pr
  BY DEF CardInv
<1>0. Unasked /\ ~Open
  <2>1. jules'.asked = 0 => jules.asked = 0
    <3>1. CASE Run \/ Crash
      BY <3>1, RunLeaves
    <3>2. CASE Environment
      BY <3>2, EnvironmentHeads
    <3>3. CASE UNCHANGED vars
      BY <3>3 DEF vars, world, remote
    <3> QED BY <3>1, <3>2, <3>3 DEF Next
  <2>2. jules.answered \in Nat
    BY DEF TypeOK
  <2> QED BY <2>1, <2>2 DEF Unasked, Open
<1>1. /\ ~env.reissued /\ ~disk.reissued /\ ~mem.reissued
      /\ card.reissue = "absent" /\ card.base # "superseded"
      /\ card.base = "pending" =>
           /\ Plain /\ pc \notin {"register", "registered"}
           /\ ending = "none" => R.pending = "completion" /\ ~R.pr /\ ~disk.pr
  BY <1>0 DEF CardInv
<1>2. card \in [{"base", "reissue"} -> {"absent", "pending", "accepted", "rejected", "superseded", "cancelled"}] /\ mem \in Records
  BY DEF TypeOK
<1>3. ~NoRecord.reissued /\ ~NoRecord.pr
  BY NewRecordType
<1>4. CASE Run /\ ~Starts /\ ~PostCard
  <2>1. ~env'.reissued /\ ~disk'.reissued /\ ~mem'.reissued
    BY <1>1, <1>4, NeverReissued
  <2>2. card' = card \/ \E w \in DOMAIN card : card' = [card EXCEPT ![w] = "cancelled"] /\ card[w] = "pending"
    BY <1>0, <1>1, <1>4, CardChanges
  <2>3. card'.reissue = "absent" /\ card'.base # "superseded" /\ (card'.base = "pending" => card.base = "pending")
    BY <1>1, <1>2, <2>2
  <2>4. pc # "idle" /\ ending = "none"
    BY <1>4, Passage DEF AtHand
  <2>5. ASSUME card'.base = "pending"
        PROVE  /\ Plain' /\ pc' \notin {"register", "registered"}
               /\ ending' = "none" => R'.pending = "completion" /\ ~R'.pr /\ ~disk'.pr
    <3>1. Asking(board, handle, mem, disk, pc)
      BY <1>1, <2>3, <2>4, <2>5 DEF Asking, Plain, R
    <3>2. \/ ending' # "none" /\ board' = NoHead /\ handle' = NoHead /\ pc' = "idle"
          \/ pc' = "idle" /\ Asking(board', handle', env', disk', pc')
          \/ pc' # "idle" /\ Asking(board', handle', mem', disk', pc')
      BY <1>0, <1>1, <1>4, <2>3, <2>5, <3>1, Awaiting
    <3> QED BY <3>2 DEF Asking, Plain, R
  <2> QED BY <2>1, <2>3, <2>5
<1>5. CASE PostCard
  <2> DEFINE again == card.base = "superseded"
             q == [mem EXCEPT !.pending = "completion", !.reissued = again]
  <2>1. ~env'.reissued /\ ~disk'.reissued /\ ~mem'.reissued
    BY <1>1, <1>5, NeverReissued DEF Run, Starts, PostCard, Start, StartMerged, StartFenced, Startable
  <2>2. /\ pc = "post_card" /\ ~mem.pr /\ ending = "none" /\ Plain
    BY <1>5 DEF PostCard, AtHand
  <2>3. "response" \notin faults'
    BY DEF Unasked
  <2>4. /\ UNCHANGED <<board, ending>>
        /\ \/ card' = [card EXCEPT !.base = IF @ = "absent" THEN "pending" ELSE @] /\ Save(q) /\ pc' \in {"confirm", "route"}
           \/ card' = card /\ Keep(mem)
    BY <1>1, <1>2, <1>5, <2>3 DEF PostCard, Goto, Fault
  <2>5. ~q.pr /\ q.pending = "completion"
    <3>1. again \in BOOLEAN
      OBVIOUS
    <3> HIDE DEF again
    <3>2. q.pr = mem.pr /\ q.pending = "completion"
      BY <1>2, <3>1, SetCompletion
    <3> QED BY <2>2, <3>2
  <2> HIDE DEF q
  <2>6. card'.reissue = "absent" /\ card'.base # "superseded"
    BY <1>1, <1>2, <2>4
  <2>7. CASE Save(q) /\ pc' \in {"confirm", "route"}
    <3>1. Plain' /\ mem' = q /\ disk' = q
      BY <2>2, <2>4, <2>5, <2>7 DEF Save, Store, Plain
    <3> QED BY <2>1, <2>5, <2>6, <2>7, <3>1 DEF R
  <2>8. CASE card' = card /\ Keep(mem)
    <3>1. Plain' /\ env' = mem /\ disk' = mem /\ pc' = "idle"
      BY <2>2, <2>4, <2>8 DEF Keep, Return, Rest, Goto, Plain
    <3>2. card.base = "pending" => mem.pending = "completion"
      BY <1>1, <2>2 DEF R
    <3> QED BY <2>1, <2>2, <2>6, <2>8, <3>1, <3>2 DEF R
  <2> QED BY <2>4, <2>7, <2>8
<1>6. CASE Start
  <2>1. /\ pc = "idle" /\ pc' = "feedback" /\ mem' = Restored /\ UNCHANGED <<board, handle, card, env, disk, ending>>
        /\ ending = "none"
    BY <1>6 DEF Start, Goto, world, paper, Startable
  <2>2. ~Restored.reissued
    BY <1>1, Started
  <2>3. ASSUME card.base = "pending"
        PROVE  Plain /\ Restored.pending = "completion" /\ ~Restored.pr /\ ~disk.pr
    <3>1. Plain /\ env.pending = "completion" /\ ~env.pr /\ ~disk.pr
      BY <1>1, <2>1, <2>3 DEF R
    <3>2. env.known
      BY <2>1, <3>1 DEF AtHand, Plain
    <3> QED BY <3>1, <3>2, Started DEF Plain
  <2> QED BY <1>1, <2>1, <2>2, <2>3 DEF R, Plain
<1>7. CASE StartMerged
  <2>1. /\ env' = NoRecord /\ disk' = NoRecord /\ mem' = NoRecord /\ ending' = "merged" /\ card' = card /\ pc' = "idle"
        /\ pc = "idle" /\ ending = "none" /\ (env.pr \/ board # NoHead)
    BY <1>7 DEF StartMerged, End, Rest, Goto, Startable, MergeSeen
  <2> QED BY <1>1, <1>3, <2>1 DEF Plain, R
<1>8. CASE StartFenced
  <2>1. env' = NoRecord /\ disk' = NoRecord /\ mem' = mem /\ card' = card /\ board # NoHead
    BY <1>8 DEF StartFenced, Startable, world, paper, AtHand
  <2> QED BY <1>1, <1>3, <2>1 DEF Plain
<1>9. CASE Crash
  BY <1>9 DEF Crash, Fault, Unasked
<1>10. CASE Environment
  <2>1. UNCHANGED <<board, handle, ending, env, disk, mem, pc>>
    BY <1>10 DEF Environment, LocalUnchanged, Push, Rests, Ask, Answer, Echo, ChecksEnd, DecidePlan, OpenReview, Review, MergePr, Demands, Resolve, paper
  <2>2. card' = card \/ \E w \in DOMAIN card : card[w] = "pending" /\ \E v \in {"accepted", "rejected"} : card' = [card EXCEPT ![w] = v]
    BY <1>10 DEF Environment, LocalUnchanged, Push, Rests, Ask, Answer, Echo, ChecksEnd, DecidePlan, OpenReview, Review, MergePr, Demands, Resolve, paper
  <2>3. card'.reissue = "absent" /\ card'.base # "superseded" /\ (card'.base = "pending" => card.base = "pending")
    BY <1>1, <1>2, <2>2
  <2> QED BY <1>1, <2>1, <2>3 DEF R, Plain
<1>11. CASE UNCHANGED vars
  BY <1>1, <1>11 DEF vars, world, paper, R, Plain
<1> QED BY <1>4, <1>5, <1>6, <1>7, <1>8, <1>9, <1>10, <1>11 DEF Next, Starts

-----------------------------------------------------------------------------
(* 8. The relay of rejections.                                             *)

(* The steps of a run after its rejection was relayed. *)
LateStep ==
  /\ Run /\ ~Starts
  /\ ~SupersedePlan /\ ~SupersedeLost /\ ~NoFeedback /\ ~BeginFeedback /\ ~SendFeedback /\ ~AwaitEcho /\ ~RecordFeedback

(* A run that is past the rejections does not return to them. *)
LEMMA LatePlaces ==
  ASSUME LateStep
  PROVE  pc \notin Early /\ (pc' = "idle" \/ pc' \notin Early)
<1>1. CASE CompletionMissesPr
  BY <1>1 DEF CompletionMissesPr, Goto, Completion, Early
<1>2. CASE CompletionQuestioned
  BY <1>2 DEF CompletionQuestioned, Goto, Completion, Early
<1>3. CASE CompletionOpen
  BY <1>3 DEF CompletionOpen, Goto, Completion, Early
<1>4. CASE CompletionResolved
  BY <1>4 DEF CompletionResolved, Goto, Completion, Early
<1>5. CASE CompletionUnread
  BY <1>5 DEF CompletionUnread, Goto, Return, Rest, Completion, Early
<1>6. CASE Confirm
  BY <1>6 DEF Confirm, Goto, Return, Rest, End, Early
<1>7. CASE BeginDemand
  BY <1>7 DEF BeginDemand, Goto, Missing, Early
<1>8. CASE Demand
  BY <1>8 DEF Demand, Goto, Return, Rest, Early
<1>9. CASE DemandEchoed
  BY <1>9 DEF DemandEchoed, Goto, Missing, Early
<1>10. CASE DemandAwaited
  BY <1>10 DEF DemandAwaited, Goto, Return, Rest, Missing, Early
<1>11. CASE ConfirmDemand
  BY <1>11 DEF ConfirmDemand, Goto, Return, Rest, Early
<1>12. CASE PollFails
  BY <1>12 DEF PollFails, Goto, Keep, Return, Rest, Early
<1>13. CASE PollLive
  BY <1>13 DEF PollLive, Goto, Keep, Return, Rest, Early
<1>14. CASE PollQuestion
  BY <1>14 DEF PollQuestion, Goto, Keep, Return, Rest, Early
<1>15. CASE PollTerminal
  BY <1>15 DEF PollTerminal, Goto, Early
<1>16. CASE Remind
  BY <1>16 DEF Remind, Goto, Keep, Return, Rest, Early
<1>17. CASE NoReminder
  BY <1>17 DEF NoReminder, Goto, Early
<1>18. CASE LookupResolved
  BY <1>18 DEF LookupResolved, Goto, Early
<1>19. CASE LookupNothing
  BY <1>19 DEF LookupNothing, Goto, Early
<1>20. CASE Handoff
  BY <1>20 DEF Handoff, Goto, Keep, Return, Rest, Early
<1>21. CASE BeginRegister
  BY <1>21 DEF BeginRegister, Goto, Early
<1>22. CASE RegisterUnread
  BY <1>22 DEF RegisterUnread, Goto, Keep, Return, Rest, Early
<1>23. CASE Register
  BY <1>23 DEF Register, Goto, Keep, Return, Rest, Early
<1>24. CASE RouteMerged
  BY <1>24 DEF RouteMerged, Goto, Rest, End, AtRoute, Early
<1>25. CASE RouteWaits
  BY <1>25 DEF RouteWaits, Goto, Keep, Return, Rest, AtRoute, Early
<1>26. CASE RouteToReview
  BY <1>26 DEF RouteToReview, Goto, Keep, Return, Rest, AtRoute, Early
<1>27. CASE RouteToRemediation
  BY <1>27 DEF RouteToRemediation, Goto, Keep, Return, Rest, Leave, AtRoute, Early
<1>28. CASE RouteFailure
  BY <1>28 DEF RouteFailure, Goto, Keep, Return, Rest, Leave, AtRoute, Early
<1>29. CASE RouteMissing
  BY <1>29 DEF RouteMissing, Goto, NoPr, AtRoute, Early
<1>30. CASE RouteUnconfirmed
  BY <1>30 DEF RouteUnconfirmed, Goto, Return, Rest, NoPr, AtRoute, Early
<1>31. CASE RouteCancelled
  BY <1>31 DEF RouteCancelled, Goto, Return, Rest, NoPr, AtRoute, Early
<1>32. CASE BeginCard
  BY <1>32 DEF BeginCard, Goto, NoPr, AtRoute, Early
<1>33. CASE PostCard
  BY <1>33 DEF PostCard, Goto, Keep, Return, Rest, Early
<1> QED BY <1>1, <1>2, <1>3, <1>4, <1>5, <1>6, <1>7, <1>8, <1>9, <1>10, <1>11, <1>12, <1>13, <1>14, <1>15, <1>16, <1>17, <1>18, <1>19, <1>20, <1>21, <1>22, <1>23, <1>24, <1>25, <1>26, <1>27, <1>28, <1>29, <1>30, <1>31, <1>32, <1>33 DEF LateStep, Run, Starts

(* Past the rejections, what was delivered is only copied or deleted. *)
LEMMA LateDelivered ==
  ASSUME TypeOK, AtHand, LateStep
  PROVE  /\ mem'.delivered \in {mem.delivered, NoHead} /\ disk'.delivered \in {disk.delivered, mem.delivered, NoHead}
         /\ env'.delivered \in {env.delivered, mem.delivered, NoHead}
         /\ pc' # "idle" => mem'.delivered = mem.delivered
         /\ pc' = "idle" /\ ending' = "none" => env'.delivered = mem.delivered
<1>0. mem \in Records /\ "started" \in Attempts /\ NoRecord.delivered = NoHead
  BY NewRecordType DEF TypeOK, Attempts
<1>1. CASE BeginDemand
  <2> DEFINE q == [mem EXCEPT !.asked = "started"]
  <2>1. q.delivered = mem.delivered
    BY <1>0, SetAsked
  <2>2. mem' = q /\ disk' = q /\ env' = env /\ pc' = "demand"
    BY <1>1 DEF BeginDemand, Store, Goto
  <2> QED BY <2>1, <2>2
<1>2. CASE ConfirmDemand
  BY <1>0, <1>2, ConfirmDemandSession DEF Return, Rest, Goto
<1>3. CASE ~BeginDemand /\ ~ConfirmDemand
  BY <1>3, Carry DEF LateStep, Carried
<1> QED BY <1>1, <1>2, <1>3

(* Past the rejections, Jules is told of none. *)
LEMMA LateHeard ==
  ASSUME TypeOK, LateStep
  PROVE  \A h \in Heads : heard'[Feedback(h)] = heard[Feedback(h)]
<1>0. RequiredPr \in Messages /\ JulesOK /\ heard \in [Messages -> 0 .. 2] /\ acted \subseteq Messages
  BY DEF TypeOK, Messages, JulesOK
<1>1. \A h \in Heads : Feedback(h) \in Messages /\ Feedback(h) # RequiredPr
  BY DEF Messages, Feedback, RequiredPr
<1>2. CASE Demand
  BY <1>0, <1>1, <1>2, LandFacts DEF Demand, Unheard
<1>3. CASE ~Demand
  BY <1>3, Silence DEF LateStep
<1> QED BY <1>2, <1>3

(* The relay is kept by the steps past the rejections, *)
LEMMA LateRelay ==
  ASSUME TypeOK, TypeOK', AtHand, Relay, LateStep, faults \subseteq faults'
  PROVE  Relay'
<1>0. /\ mem.delivered \in Heads \cup {NoHead} /\ found \in Heads \cup {NoHead} /\ NoRecord.delivered = NoHead
  BY NewRecordType DEF TypeOK, Records
<1>1. pc \notin Early /\ (pc' = "idle" \/ pc' \notin Early)
  BY LatePlaces
<1>2. ending = "none" /\ pc # "idle"
  BY <1>1 DEF AtHand, Early
<1>3. verdict' = verdict /\ Newest' = Newest
  BY RunLeaves DEF LateStep
<1>4. \A h \in Heads : heard'[Feedback(h)] = heard[Feedback(h)] /\ (Told(h)' <=> Told(h))
  BY LateHeard DEF Told
<1>5. \A h \in Heads : Excused(h) => Excused(h)'
  BY <1>3 DEF Excused
<1>6. ASSUME NEW h \in Heads, Told(h)
      PROVE  h <= mem.delivered \/ Excused(h)
  <2>1. Noted(mem, h) \/ Excused(h)
    BY <1>2, <1>6 DEF Relay, R
  <2>2. CASE found # NoHead
    BY <1>1, <1>2, <1>6, <2>2 DEF Relay
  <2>3. CASE found = NoHead
    BY <1>1, <1>2, <1>6, <2>1, <2>3 DEF Relay, Noted, Excused, Early
  <2> QED BY <2>2, <2>3
<1>7. /\ mem'.delivered \in {mem.delivered, NoHead} /\ disk'.delivered \in {disk.delivered, mem.delivered, NoHead}
      /\ env'.delivered \in {env.delivered, mem.delivered, NoHead}
      /\ pc' # "idle" => mem'.delivered = mem.delivered
      /\ pc' = "idle" /\ ending' = "none" => env'.delivered = mem.delivered
  BY LateDelivered
<1>8. pc' # "idle" => found' = found
  BY Passage DEF LateStep, Onward, Ended, GivenUp
<1>9. Rejects(env)' /\ Rejects(disk)' /\ Rejects(mem)'
  BY <1>3, <1>7 DEF Rejects, Relay
<1>10. \A h \in Heads : heard'[Feedback(h)] <= 1 \/ Excused(h)'
  BY <1>4, <1>5 DEF Relay
<1>11. \A h \in Heads : Told(h)' => verdict'[h] = "rejected"
  BY <1>3, <1>4 DEF Relay
<1>12. pc' # "idle" /\ found' # NoHead =>
         /\ verdict'[found'] = "rejected" /\ (\A h \in Heads : Told(h)' => h <= found') /\ mem'.delivered <= found'
         /\ mem'.delivered = found'
  BY <1>0, <1>1, <1>2, <1>3, <1>4, <1>7, <1>8 DEF Relay
<1>13. pc' # "idle" /\ found' = NoHead => \A h \in Heads : Told(h)' => Newest' # h \/ "unread" \in faults'
  BY <1>2, <1>3, <1>4, <1>8 DEF Relay
<1>14. ending' = "none" => \A h \in Heads : Told(h)' => Noted(R, h)' \/ Excused(h)'
  <2>1. ending' = "none" => R'.delivered = mem.delivered
    BY <1>7 DEF R
  <2> QED BY <1>4, <1>5, <1>6, <2>1 DEF Noted
<1>15. pc' # "send"
  BY <1>1 DEF Early
<1> QED BY <1>9, <1>10, <1>11, <1>12, <1>13, <1>14, <1>15 DEF Relay, Early

(* A step before the message: it is neither sent nor recorded yet, and the *)
(* record keeps what it says of earlier ones.                              *)
LEMMA EarlyRelay ==
  ASSUME TypeOK, TypeOK', AtHand, Relay, faults \subseteq faults', pc \in {"feedback", "send"},
         heard' = heard, verdict' = verdict, Newest' = Newest, ending' = ending,
         Rejects(env)', Rejects(disk)', Rejects(mem)',
         \/ /\ pc' \notin {"idle", "send"} /\ found' = found /\ mem'.delivered = mem.delivered /\ mem'.slot = mem.slot
            /\ pc' \notin Early /\ found # NoHead => mem.delivered = found
         \/ pc' = "idle" /\ env'.delivered = mem.delivered /\ env'.slot = mem.slot
  PROVE  Relay'
<1>1. pc # "idle" /\ pc # "record"
  OBVIOUS
<1>2. \A h \in Heads : (Told(h)' <=> Told(h)) /\ (Excused(h) => Excused(h)')
  BY DEF Told, Excused
<1>3. \A h \in Heads : heard'[Feedback(h)] <= 1 \/ Excused(h)'
  BY <1>2 DEF Relay
<1>4. \A h \in Heads : Told(h)' => verdict'[h] = "rejected"
  BY <1>2 DEF Relay
<1>5. pc' # "idle" /\ found' # NoHead =>
        verdict'[found'] = "rejected" /\ (\A h \in Heads : Told(h)' => h <= found') /\ mem'.delivered <= found'
  BY <1>1, <1>2 DEF Relay
<1>6. pc' # "idle" /\ found' = NoHead => \A h \in Heads : Told(h)' => Newest' # h \/ "unread" \in faults'
  BY <1>1, <1>2 DEF Relay
<1>7. ending' = "none" => \A h \in Heads : Told(h)' => Noted(R, h)' \/ Excused(h)'
  <2>1. R'.delivered = mem.delivered /\ R'.slot = mem.slot
    BY DEF R
  <2>2. ASSUME ending = "none", NEW h \in Heads, Told(h)
        PROVE  h <= mem.delivered \/ (mem.slot = Feedback(h) /\ "response" \in faults) \/ Excused(h)
    BY <1>1, <2>2 DEF Relay, R, Noted
  <2> QED BY <1>2, <2>1, <2>2 DEF Noted
<1>8. pc' # "send" /\ (pc' \notin Early /\ found' # NoHead => mem'.delivered = found')
  BY DEF Early
<1> QED BY <1>3, <1>4, <1>5, <1>6, <1>7, <1>8 DEF Relay

(* by the note of a rejection in the slot, *)
LEMMA RelayBegins ==
  ASSUME TypeOK, TypeOK', AtHand, Relay, BeginFeedback
  PROVE  Relay'
<1>0. /\ mem \in Records /\ mem.delivered \in Heads \cup {NoHead} /\ found \in Heads \cup {NoHead} /\ Newest \in Nat
  BY DEF TypeOK, Records, Newest
<1>1. /\ pc = "feedback" /\ pc' = "send" /\ found # NoHead /\ mem.delivered # found /\ mem.slot # Feedback(found)
      /\ mem' = [mem EXCEPT !.slot = Feedback(found)] /\ disk' = mem'
      /\ UNCHANGED <<heard, verdict, ending, env, found, faults>> /\ Newest' = Newest
  BY DEF BeginFeedback, Delivered, Store, Goto, NoFault, remote, inbox, Newest
<1>2. Feedback(found) \in Keys
  BY <1>0, <1>1 DEF Feedback, Keys
<1>3. mem'.delivered = mem.delivered /\ mem'.slot = Feedback(found)
  BY <1>0, <1>1, <1>2, SetSlot DEF Follows
<1>4. /\ verdict[found] = "rejected" /\ (\A h \in Heads : Told(h) => h <= found) /\ mem.delivered <= found /\ ending = "none"
  BY <1>1 DEF Relay, AtHand
<1>5. found <= Newest
  BY <1>0, <1>1, <1>4 DEF AtHand
<1>6. \A h \in Heads : (Told(h)' <=> Told(h)) /\ (Excused(h)' <=> Excused(h))
  BY <1>1 DEF Told, Excused
<1>7. ASSUME NEW h \in Heads, Told(h)
      PROVE  h <= mem.delivered \/ Excused(h)
  <2>1. h <= mem.delivered \/ (mem.slot = Feedback(h) /\ "response" \in faults) \/ Excused(h)
    BY <1>1, <1>4, <1>7 DEF Relay, R, Noted
  <2>2. CASE h = found
    BY <1>1, <2>1, <2>2
  <2>3. CASE h # found /\ "response" \in faults
    <3>1. h < found /\ found \in Heads
      BY <1>0, <1>1, <1>4, <1>7, <2>3
    <3>2. Newest # h
      BY <1>0, <1>5, <3>1
    <3> QED BY <2>3, <3>2 DEF Excused
  <2>4. CASE "response" \notin faults
    BY <2>1, <2>4
  <2> QED BY <2>2, <2>3, <2>4
<1>8. ~Told(found) \/ Excused(found)
  <2>1. ~(found <= mem.delivered)
    BY <1>0, <1>1, <1>4
  <2> QED BY <1>0, <1>1, <1>7, <2>1
<1>9. Rejects(env)' /\ Rejects(disk)' /\ Rejects(mem)'
  BY <1>1, <1>3 DEF Rejects, Relay
<1>10. R' = mem'
  BY <1>1 DEF R
<1>11. /\ \A h \in Heads : heard'[Feedback(h)] <= 1 \/ Excused(h)'
       /\ \A h \in Heads : Told(h)' => verdict'[h] = "rejected"
  BY <1>1, <1>6 DEF Relay
<1>12. Told(found)' <=> Told(found)
  BY <1>1 DEF Told
<1>13. Excused(found)' <=> Excused(found)
  BY <1>1 DEF Excused
<1> QED BY <1>0, <1>1, <1>3, <1>4, <1>6, <1>7, <1>8, <1>9, <1>10, <1>11, <1>12, <1>13 DEF Relay, Noted, Early

(* by its sending, whether the answer arrives or not, *)
LEMMA RelaySends ==
  ASSUME TypeOK, TypeOK', AtHand, Relay, SendFeedback, faults \subseteq faults'
  PROVE  Relay'
<1>0. /\ mem \in Records /\ mem.delivered \in Heads \cup {NoHead} /\ found \in Heads \cup {NoHead}
      /\ JulesOK /\ heard \in [Messages -> 0 .. 2] /\ acted \subseteq Messages /\ NoRecord.delivered = NoHead
  BY NewRecordType DEF TypeOK, Records, JulesOK
<1>1. pc = "send" /\ found # NoHead /\ mem.slot = Feedback(found) /\ ending = "none"
  BY DEF SendFeedback, AtHand
<1>2. /\ UNCHANGED <<disk, verdict, ending>>
      /\ \/ Land(Feedback(found)) /\ pc' = "record" /\ UNCHANGED <<env, mem, found>>
         \/ Land(Feedback(found)) /\ pc' = "idle" /\ env' = mem /\ mem' = NoRecord /\ found' = NoHead /\ "response" \in faults'
         \/ heard' = heard /\ jules' = jules /\ pc' = "idle" /\ env' = mem /\ mem' = NoRecord /\ found' = NoHead
  BY DEF SendFeedback, Fault, Return, Rest, Goto, Unheard, paper
<1>3. Rejects(env)' /\ Rejects(disk)' /\ Rejects(mem)'
  BY <1>0, <1>2 DEF Rejects, Relay
<1>4. \A h \in Heads : Feedback(h) \in Messages /\ (h # found => Feedback(h) # Feedback(found))
  BY DEF Messages, Feedback
<1>5. /\ verdict[found] = "rejected" /\ (\A h \in Heads : Told(h) => h <= found) /\ mem.delivered <= found
      /\ ~Told(found) \/ Excused(found)
  BY <1>1 DEF Relay
<1>9. PICK f \in Heads : f = found
  BY <1>0, <1>1
<1>6. CASE heard' = heard /\ jules' = jules /\ pc' = "idle" /\ env' = mem
  <2>1. Newest' = Newest
    BY <1>6 DEF Newest
  <2> QED BY <1>1, <1>2, <1>3, <1>6, <2>1, EarlyRelay
<1>7. CASE Land(Feedback(found))
  <2>1. /\ heard'[Feedback(found)] = (IF heard[Feedback(found)] = 2 THEN 2 ELSE heard[Feedback(found)] + 1)
        /\ \A h \in Heads : h # found => heard'[Feedback(h)] = heard[Feedback(h)]
        /\ Newest' = Newest
    BY <1>0, <1>1, <1>4, <1>7, LandFacts
  <2>2. heard[Feedback(found)] \in 0 .. 2
    BY <1>0, <1>1, <1>4
  <2>3. \A h \in Heads : Excused(h) => Excused(h)'
    BY <2>1 DEF Excused
  <2>4. Told(f) => Excused(f)'
    BY <1>5, <1>9, <2>3
  <2>5. ASSUME NEW h \in Heads
        PROVE  /\ heard'[Feedback(h)] <= 1 \/ Excused(h)'
               /\ Told(h)' => Told(h) \/ h = f
    <3>1. CASE h = f
      BY <1>9, <2>1, <2>2, <2>4, <3>1 DEF Told
    <3>2. CASE h # f
      BY <1>9, <2>1, <2>3, <3>2 DEF Told, Relay
    <3> QED BY <3>1, <3>2
  <2>6. \A h \in Heads : Told(h)' => verdict'[h] = "rejected" /\ h <= found
    BY <1>0, <1>1, <1>2, <1>5, <1>9, <2>5 DEF Relay
  <2>7. ASSUME NEW h \in Heads, Told(h)'
        PROVE  Noted(R, h)' \/ Excused(h)'
    <3>1. CASE h = f /\ pc' = "record" /\ mem' = mem /\ found' = found
      BY <1>1, <1>9, <3>1 DEF Noted, R
    <3>2. CASE h = f /\ pc' = "idle" /\ env' = mem /\ "response" \in faults'
      BY <1>1, <1>9, <3>2 DEF Noted, R
    <3>3. CASE h = f /\ heard' = heard /\ jules' = jules
      BY <1>7, <1>9, <2>1, <2>2, <2>4, <3>3 DEF Told, Excused, Newest
    <3>4. CASE h # f
      <4>1. h <= mem.delivered \/ Excused(h)
        BY <1>1, <1>4, <1>9, <2>5, <2>7, <3>4 DEF Relay, R, Noted
      <4>2. R'.delivered = mem.delivered
        BY <1>2 DEF R
      <4> QED BY <2>3, <4>1, <4>2 DEF Noted
    <3> QED BY <1>2, <3>1, <3>2, <3>3, <3>4
  <2>8. (pc' = "record" /\ mem' = mem /\ found' = found) \/ pc' = "idle"
    BY <1>2
  <2> QED BY <1>0, <1>1, <1>2, <1>3, <1>5, <2>5, <2>6, <2>7, <2>8 DEF Relay, Early
<1> QED BY <1>2, <1>6, <1>7

(* by the record of its delivery, *)
LEMMA RelayRecords ==
  ASSUME TypeOK, TypeOK', AtHand, Relay, RecordFeedback
  PROVE  Relay'
<1>0. mem \in Records /\ found \in Heads \cup {NoHead} /\ NoRecord.delivered = NoHead
  BY NewRecordType DEF TypeOK
<1> DEFINE q == [mem EXCEPT !.delivered = found, !.awaited = "sent"]
<1>1. pc = "record" /\ found # NoHead
  BY DEF RecordFeedback, AtHand
<1>2. q.delivered = found
  BY <1>0, <1>1, SetDelivered
<1>3. Keep(q) /\ UNCHANGED <<heard, verdict, jules, faults>>
  BY DEF RecordFeedback, NoFault, remote, inbox
<1> HIDE DEF q
<1>4. pc' = "idle" /\ env' = q /\ disk' = q /\ mem' = NoRecord
  BY <1>3 DEF Keep, Return, Rest, Goto
<1>5. verdict[found] = "rejected" /\ \A h \in Heads : Told(h) => h <= found
  BY <1>1 DEF Relay
<1>6. Rejects(env)' /\ Rejects(disk)' /\ Rejects(mem)'
  BY <1>0, <1>2, <1>3, <1>4, <1>5 DEF Rejects
<1>7. \A h \in Heads : (Told(h)' <=> Told(h)) /\ (Excused(h)' <=> Excused(h))
  BY <1>3 DEF Told, Excused, Newest
<1>8. \A h \in Heads : Told(h)' => Noted(R, h)'
  BY <1>2, <1>4, <1>5, <1>7 DEF Noted, R
<1> QED BY <1>3, <1>4, <1>6, <1>7, <1>8 DEF Relay, Early

(* by the start of a run, which finds the newest rejection, *)
LEMMA RelayStarts ==
  ASSUME TypeOK, TypeOK', AtHand, Relay, Start, Steady', faults \subseteq faults'
  PROVE  Relay'
<1>0. /\ env \in Records /\ disk \in Records /\ mem \in Records /\ Newest \in Heads \cup {NoHead} /\ Newest \in Nat
      /\ verdict \in [Heads -> {"none", "open", "rejected", "accepted"}]
  BY DEF TypeOK, Newest
<1>1. /\ pc = "idle" /\ pc' = "feedback" /\ mem' = Restored /\ ending = "none"
      /\ UNCHANGED <<heard, verdict, jules, board, ending, env, disk>> /\ Newest' = Newest
  BY DEF Start, Goto, Startable, world, paper, remote, inbox, Newest
<1>2. found' \in Heads \cup {NoHead} /\ Found(found')
  BY DEF Start
<1>3. "late_run" \notin faults
  BY DEF Steady
<1>4. \A h \in Heads : (Told(h)' <=> Told(h)) /\ (Excused(h) => Excused(h)')
  BY <1>1 DEF Told, Excused
<1>5. \A h \in Heads : Told(h) => verdict[h] = "rejected"
  BY DEF Relay
<1>6. \A h \in Heads : verdict[h] = "rejected" => h <= Newest /\ board # NoHead
  BY DEF AtHand
<1>7. env.known
  BY <1>1, <1>3 DEF AtHand
<1>8. /\ Restored.delivered \in {NoHead, env.delivered, disk.delivered}
      /\ Restored.slot = env.slot /\ (env.delivered # NoHead => Restored.delivered = env.delivered)
      /\ board # NoHead => Restored.pr
  BY <1>7, Started
<1>9. /\ env.delivered \in Heads \cup {NoHead} /\ disk.delivered \in Heads \cup {NoHead}
      /\ Rejects(env) /\ Rejects(disk)
  BY <1>0 DEF Records, Relay
<1>10. Rejects(env)' /\ Rejects(disk)' /\ Rejects(mem)'
  BY <1>1, <1>8, <1>9 DEF Rejects
<1>11. PICK d \in Heads \cup {NoHead} : d = Restored.delivered /\ (d # NoHead => verdict[d] = "rejected")
  BY <1>8, <1>9 DEF Rejects
<1>12. \/ found' = (IF Restored.pr /\ Rejected(Newest) THEN Newest ELSE NoHead)
       \/ Latest(found')
       \/ found' = NoHead /\ "unread" \in faults'
  BY <1>1, <1>2 DEF Found, Fault, Steady
<1>13. PICK f \in Heads \cup {NoHead} : f = found'
  BY <1>2
<1>14. ASSUME f # NoHead
       PROVE  verdict[f] = "rejected" /\ (\A h \in Heads : Told(h) => h <= f) /\ d <= f
  <2>1. CASE Latest(f)
    <3>1. verdict[f] = "rejected" /\ \A g \in Heads : verdict[g] = "rejected" => g <= f
      BY <2>1 DEF Latest, Rejected
    <3> QED BY <1>0, <1>5, <1>11, <1>13, <1>14, <3>1
  <2>2. CASE f = Newest /\ Rejected(Newest)
    <3>1. verdict[f] = "rejected" /\ \A g \in Heads : verdict[g] = "rejected" => g <= f
      BY <1>6, <2>2 DEF Rejected
    <3> QED BY <1>0, <1>5, <1>11, <1>13, <1>14, <3>1
  <2> QED BY <1>12, <1>13, <1>14, <2>1, <2>2
<1>15. ASSUME f = NoHead, NEW h \in Heads, Told(h)
       PROVE  Newest # h \/ "unread" \in faults'
  <2>1. verdict[h] = "rejected" /\ Restored.pr
    BY <1>5, <1>6, <1>8, <1>15
  <2>2. CASE Newest = h
    <3>1. Rejected(Newest) /\ Newest # NoHead
      BY <1>15, <2>1, <2>2 DEF Rejected
    <3>2. ~Latest(f)
      BY <1>15 DEF Latest, Rejected
    <3> QED BY <1>12, <1>13, <1>15, <2>1, <3>1, <3>2
  <2> QED BY <2>2
<1>16. ASSUME NEW h \in Heads, Told(h)
       PROVE  Noted(R, h)' \/ Excused(h)'
  <2>1. h <= env.delivered \/ (env.slot = Feedback(h) /\ "response" \in faults) \/ Excused(h)
    BY <1>1, <1>16 DEF Relay, R, Noted
  <2>2. R'.delivered = Restored.delivered /\ R'.slot = env.slot
    BY <1>1, <1>8 DEF R
  <2>3. CASE h <= env.delivered
    <3>1. env.delivered # NoHead
      BY <1>9, <1>16, <2>3
    <3> QED BY <1>8, <2>2, <2>3, <3>1 DEF Noted
  <2>4. CASE env.slot = Feedback(h) /\ "response" \in faults
    BY <2>2, <2>4 DEF Noted
  <2>5. CASE Excused(h)
    BY <1>4, <2>5
  <2> QED BY <2>1, <2>3, <2>4, <2>5
<1>17. /\ \A h \in Heads : heard'[Feedback(h)] <= 1 \/ Excused(h)'
       /\ \A h \in Heads : Told(h)' => verdict'[h] = "rejected"
  BY <1>1, <1>4 DEF Relay
<1>18. found' # NoHead =>
         verdict'[found'] = "rejected" /\ (\A h \in Heads : Told(h)' => h <= found') /\ mem'.delivered <= found'
  BY <1>1, <1>4, <1>11, <1>13, <1>14
<1>19. found' = NoHead => \A h \in Heads : Told(h)' => Newest' # h \/ "unread" \in faults'
  BY <1>1, <1>4, <1>13, <1>15
<1> QED BY <1>1, <1>4, <1>10, <1>16, <1>17, <1>18, <1>19 DEF Relay, Early

(* and by what others do meanwhile. *)
LEMMA RelayBeside ==
  ASSUME TypeOK, TypeOK', AtHand, Relay, Environment, faults \subseteq faults'
  PROVE  Relay'
<1>0. Newest \in Nat /\ (Newest' = Newest \/ Newest' = Newest + 1)
  BY EnvironmentHeads DEF TypeOK, Newest
<1>1. UNCHANGED <<heard, ending, env, disk, mem, pc, found>>
  BY DEF Environment, LocalUnchanged, Push, Rests, Ask, Answer, Echo, ChecksEnd, DecidePlan, OpenReview, Review, MergePr, Demands, Resolve, paper, inbox
<1>2. \/ verdict' = verdict
      \/ board # NoHead /\ verdict[board] = "none" /\ verdict' = [verdict EXCEPT ![board] = "open"]
      \/ \E h \in Heads : verdict[h] = "open" /\ \E v \in {"rejected", "accepted"} : verdict' = [verdict EXCEPT ![h] = v]
  BY DEF Environment, Push, Rests, Ask, Answer, Echo, ChecksEnd, DecidePlan, OpenReview, Review, MergePr, Demands, Resolve, remote
<1>3. \A h \in Heads : verdict[h] = "rejected" => verdict'[h] = "rejected"
  <2>1. verdict \in [Heads -> {"none", "open", "rejected", "accepted"}]
    BY DEF TypeOK
  <2> QED BY <1>2, <2>1
<1>4. \A h \in Heads : Told(h)' <=> Told(h)
  BY <1>1 DEF Told
<1>5. ASSUME NEW h \in Heads, Told(h), Newest # h
      PROVE  Newest' # h
  <2>1. h <= Newest
    BY <1>5 DEF Relay, AtHand
  <2> QED BY <1>0, <1>5, <2>1
<1>6. \A h \in Heads : Told(h) /\ Excused(h) => Excused(h)'
  BY <1>5 DEF Excused
<1>7. ASSUME NEW h \in Heads
      PROVE  heard'[Feedback(h)] <= 1 \/ Excused(h)'
  <2>1. heard[Feedback(h)] \in Nat
    <3>1. Feedback(h) \in Messages
      BY DEF Messages
    <3>2. heard \in [Messages -> 0 .. 2]
      BY DEF TypeOK
    <3> QED BY <3>1, <3>2
  <2>2. CASE heard[Feedback(h)] <= 1
    BY <1>1, <2>2
  <2>3. CASE heard[Feedback(h)] > 1
    BY <1>6, <2>1, <2>3 DEF Relay, Told
  <2> QED BY <2>1, <2>2, <2>3
<1>8. \A h \in Heads : Told(h)' => verdict'[h] = "rejected"
  BY <1>3, <1>4 DEF Relay
<1>9. ASSUME NEW r \in Records, Rejects(r)
      PROVE  r.delivered # NoHead => verdict'[r.delivered] = "rejected"
  BY <1>3, <1>9 DEF Rejects, Records
<1>10. Rejects(env)' /\ Rejects(disk)' /\ Rejects(mem)'
  <2>1. env \in Records /\ disk \in Records /\ mem \in Records /\ Rejects(env) /\ Rejects(disk) /\ Rejects(mem)
    BY DEF TypeOK, Relay
  <2> QED BY <1>1, <1>9, <2>1 DEF Rejects
<1>11. found \in Heads \cup {NoHead}
  BY DEF TypeOK
<1>12. pc' # "idle" /\ found' # NoHead =>
         verdict'[found'] = "rejected" /\ (\A h \in Heads : Told(h)' => h <= found') /\ mem'.delivered <= found'
  BY <1>1, <1>3, <1>4, <1>11 DEF Relay
<1>13. pc' # "idle" /\ found' = NoHead => \A h \in Heads : Told(h)' => Newest' # h \/ "unread" \in faults'
  BY <1>1, <1>4, <1>5 DEF Relay
<1>14. ending' = "none" => \A h \in Heads : Told(h)' => Noted(R, h)' \/ Excused(h)'
  BY <1>1, <1>4, <1>6 DEF Relay, Noted, R
<1>15. ASSUME pc = "send"
       PROVE  ~Told(found)' \/ Excused(found)'
  <2>1. PICK f \in Heads : f = found
    BY <1>11, <1>15 DEF AtHand
  <2>2. ~Told(f) \/ Excused(f)'
    BY <1>6, <1>15, <2>1 DEF Relay
  <2>3. f = found'
    BY <1>1, <2>1
  <2>4. Told(found)' <=> Told(f)
    BY <1>1, <2>3 DEF Told
  <2>5. Excused(found)' <=> Excused(f)'
    BY <2>3 DEF Excused
  <2> QED BY <2>2, <2>4, <2>5
<1>16. (pc \notin Early /\ found # NoHead => mem.delivered = found)'
  BY <1>1 DEF Relay
<1> QED BY <1>1, <1>7, <1>8, <1>10, <1>12, <1>13, <1>14, <1>15, <1>16 DEF Relay

(* Every step keeps the relay while no run is cut or overtaken. *)
LEMMA FeedbackStep ==
  ASSUME TypeOK, TypeOK', AtHand, AtHand', FeedbackInv, [Next]_vars, faults \subseteq faults'
  PROVE  FeedbackInv'
<1> SUFFICES ASSUME Steady'
             PROVE  Relay'
  BY DEF FeedbackInv
<1>0. Relay
  BY DEF FeedbackInv, Steady
<1>a. /\ mem \in Records /\ env \in Records /\ "none" \in Pending /\ NoRecord.delivered = NoHead
      /\ Rejects(env) /\ Rejects(disk) /\ Rejects(mem)
  BY <1>0, NewRecordType DEF TypeOK, Pending, Relay
<1>1. CASE LateStep
  BY <1>0, <1>1, LateRelay
<1>2. CASE SupersedePlan
  <2>1. /\ pc = "feedback" /\ pc' = "feedback" /\ mem' = [mem EXCEPT !.pending = "none"] /\ disk' = mem'
        /\ UNCHANGED <<heard, verdict, ending, env, found>> /\ Newest' = Newest
    BY <1>2 DEF SupersedePlan, Save, Store, remote, inbox, Newest
  <2>2. mem'.delivered = mem.delivered /\ mem'.slot = mem.slot
    BY <1>a, <2>1, SetPending DEF Follows
  <2>3. Rejects(env)' /\ Rejects(disk)' /\ Rejects(mem)'
    BY <1>a, <2>1, <2>2 DEF Rejects
  <2> QED BY <1>0, <2>1, <2>2, <2>3, EarlyRelay DEF Early
<1>3. CASE SupersedeLost
  <2>1. pc = "feedback" /\ Return(mem) /\ UNCHANGED <<heard, verdict, ending, disk>> /\ Newest' = Newest
    BY <1>3 DEF SupersedeLost, world, remote, paper, inbox, Newest
  <2>2. Rejects(env)' /\ Rejects(disk)' /\ Rejects(mem)'
    BY <1>a, <2>1 DEF Rejects, Return, Rest
  <2> QED BY <1>0, <2>1, <2>2, EarlyRelay DEF Return, Rest, Goto
<1>4. CASE NoFeedback
  <2>1. /\ pc = "feedback" /\ (found = NoHead \/ mem.delivered = found) /\ pc' \in {"completion", "poll"}
        /\ UNCHANGED <<heard, verdict, ending, env, disk, mem, found>> /\ Newest' = Newest
    BY <1>4 DEF NoFeedback, Delivered, Goto, world, remote, paper, inbox, Newest
  <2>2. Rejects(env)' /\ Rejects(disk)' /\ Rejects(mem)'
    BY <1>a, <2>1 DEF Rejects
  <2> QED BY <1>0, <2>1, <2>2, EarlyRelay
<1>5. CASE BeginFeedback
  BY <1>0, <1>5, RelayBegins
<1>6. CASE SendFeedback
  BY <1>0, <1>6, RelaySends
<1>7. CASE AwaitEcho
  <2>1. /\ pc = "feedback" /\ UNCHANGED <<heard, verdict, ending, disk>> /\ Newest' = Newest
        /\ (pc' = "record" /\ UNCHANGED <<env, mem, found>>) \/ Return(mem)
    BY <1>7 DEF AwaitEcho, Goto, world, remote, paper, inbox, Newest
  <2>2. Rejects(env)' /\ Rejects(disk)' /\ Rejects(mem)'
    BY <1>a, <2>1 DEF Rejects, Return, Rest
  <2> QED BY <1>0, <2>1, <2>2, EarlyRelay DEF Return, Rest, Goto, Early
<1>8. CASE RecordFeedback
  BY <1>0, <1>8, RelayRecords
<1>9. CASE Start
  BY <1>0, <1>9, RelayStarts
<1>10. CASE StartMerged
  <2>1. /\ UNCHANGED <<heard, verdict, jules, faults>> /\ pc' = "idle" /\ ending' = "merged"
        /\ env' = NoRecord /\ disk' = NoRecord /\ mem' = NoRecord
    BY <1>10 DEF StartMerged, End, Rest, Goto, NoFault, remote, inbox
  <2>2. Rejects(env)' /\ Rejects(disk)' /\ Rejects(mem)'
    BY <1>a, <2>1 DEF Rejects
  <2>3. \A h \in Heads : (Told(h)' <=> Told(h)) /\ (Excused(h)' <=> Excused(h))
    BY <2>1 DEF Told, Excused, Newest
  <2> QED BY <1>0, <2>1, <2>2, <2>3 DEF Relay, Early
<1>11. CASE StartFenced
  BY <1>11 DEF StartFenced, Fault, Steady
<1>12. CASE Crash
  BY <1>12 DEF Crash, Fault, Steady
<1>13. CASE Environment
  BY <1>0, <1>13, RelayBeside
<1>14. CASE UNCHANGED vars
  <2>1. UNCHANGED <<heard, verdict, jules, faults, ending, env, disk, mem, pc, found>>
    BY <1>14 DEF vars, world, remote, paper, inbox
  <2> QED BY <1>0, <2>1 DEF Relay, Told, Excused, Noted, Rejects, R, Newest
<1> QED BY <1>1, <1>2, <1>3, <1>4, <1>5, <1>6, <1>7, <1>8, <1>9, <1>10, <1>11, <1>12, <1>13, <1>14 DEF Next, LateStep, Starts

-----------------------------------------------------------------------------
(* 9. The theorems.                                                        *)

(* The invariant holds at first, *)
LEMMA TerminalInit == Init => TerminalInv
<1> SUFFICES ASSUME Init PROVE TerminalInv
  OBVIOUS
<1>1. env \in Records /\ disk \in Records /\ mem \in Records /\ env.known /\ env.delivered = NoHead /\ ~env.reissued
  <2> DEFINE p == IF plan = "pending" THEN "plan" ELSE "none"
  <2>1. p \in Pending
    BY DEF Pending
  <2>2. env = [NewRecord EXCEPT !.pending = p] /\ disk = env /\ mem = NoRecord
    BY DEF Init
  <2> HIDE DEF p
  <2> QED BY <2>1, <2>2, NewRecordType, SetPending DEF Follows
<1>2. TypeOK
  <2>1. card \in [{"base", "reissue"} -> {"absent", "pending", "accepted", "rejected", "superseded", "cancelled"}]
    BY DEF Init
  <2>2. heard \in [Messages -> 0 .. 2] /\ verdict \in [Heads -> {"none", "open", "rejected", "accepted"}]
    BY DEF Init
  <2>3. jules \in [state : {"working", "awaiting"} \cup Terminal, head : Heads \cup {NoHead},
                  asked : 0 .. MaxQuestions, answered : 0 .. MaxQuestions]
    BY DEF Init
  <2> QED BY <1>1, <2>1, <2>2, <2>3 DEF Init, TypeOK, Steps, Endings
<1>3. AtHand
  BY <1>1 DEF Init, AtHand, Newest
<1>4. DemandInv
  BY DEF Init, DemandInv, Asked, Messages
<1>5. FeedbackInv
  <2>1. \A h \in Heads : heard[Feedback(h)] = 0
    BY DEF Init, Messages
  <2> QED BY <1>1, <2>1, NewRecordType DEF Init, FeedbackInv, Relay, Told, Rejects
<1>6. CardInv
  BY <1>1, NewRecordType DEF Init, CardInv
<1> QED BY <1>2, <1>3, <1>4, <1>5, <1>6 DEF TerminalInv

(* and every step keeps it. *)
LEMMA TerminalNext == TerminalInv /\ [Next]_vars => TerminalInv'
<1> SUFFICES ASSUME TerminalInv, [Next]_vars PROVE TerminalInv'
  OBVIOUS
<1> USE DEF TerminalInv
<1>1. pc \in {"send", "record"} => found # NoHead
  BY DEF AtHand
<1>2. faults' \subseteq Faults /\ faults \subseteq faults'
  BY FaultsGrow
<1>3. TypeOK'
  BY <1>1, <1>2, LocalStep, WorldStep DEF TypeOK, LocalOK, WorldOK
<1>4. AtHand'
  BY <1>2, <1>3, AtHandStep
<1> QED BY <1>2, <1>3, <1>4, DemandStep, FeedbackStep, CardStep

(* The invariant holds in every reachable state, for every number of heads *)
(* and questions and every set of faults.                                  *)
THEOREM TerminalIsInductive == Spec => []TerminalInv
<1>1. Init => TerminalInv
  BY TerminalInit
<1>2. TerminalInv /\ [Next]_vars => TerminalInv'
  BY TerminalNext
<1> QED BY <1>1, <1>2, PTL DEF Spec

(* The copies of the session, the pull request, the messages and the cards *)
(* of the terminal heartbeat keep their types.                             *)
THEOREM TypeCorrect == Spec => []TypeOK
<1>1. TerminalInv => TypeOK
  BY DEF TerminalInv
<1> QED BY <1>1, TerminalIsInductive, PTL

(* A demand for a pull request reaches Jules once, and so does each        *)
(* rejection, save for the one that was lost from the slot: what           *)
(* MessagesSentOnce allows, for every number of heads and questions.       *)
THEOREM MessagesOnce == Spec => []MessagesSentOnce
<1>1. TerminalInv => MessagesSentOnce
  BY DEF TerminalInv, MessagesSentOnce, FeedbackInv, Steady, Relay, Excused, DemandInv
<1> QED BY <1>1, TerminalIsInductive, PTL

(* No confirmation of a completion without pull request is pending beside  *)
(* a pull request, under the premise of NoConfirmationBesidePr.            *)
THEOREM NoConfirmation == Spec => []NoConfirmationBesidePr
<1>1. TerminalInv => NoConfirmationBesidePr
  BY DEF TerminalInv, NoConfirmationBesidePr, CardInv, Unasked, Plain
<1> QED BY <1>1, TerminalIsInductive, PTL

=============================================================================
