------------------------- MODULE ProviderSessionProofs -------------------------
(***************************************************************************)
(* Proofs about ProviderSession: an issue gets one session of the task,    *)
(* the live one is never forgotten and none is created beside a pull       *)
(* request, for any number of sessions, runs and failures.                 *)
(*                                                                         *)
(* The first part holds for every behaviour: the types, and what a record  *)
(* of each phase looks like at each step of a run (Shape).  The second is  *)
(* about a run that finds the name of the repository in the catalog and an *)
(* issue that was not given up on purpose (Kept).                          *)
(***************************************************************************)
EXTENDS ProviderSession, FiniteSetTheorems, TLAPS

-----------------------------------------------------------------------------
(* 1. Types, and the records a run may hold at each step.                  *)

(* A record that names no session is empty or a prepared create.           *)
ShapeOf(r) ==
  /\ r.phase = "none" => r = NoRecord
  /\ r.phase = "STARTING" => r.id = NoSession /\ r.remediation = NoRemediation /\ ~r.pr
  /\ r.phase \in {"RUNNING", "RETRY_SCHEDULED"} => r.id # NoSession

Held == {"RUNNING", "RETRY_SCHEDULED"}

AtStep ==
  /\ pc \in {"idle", "observe"} => mem = NoRecord
  /\ pc = "startup" => \/ mem = NoRecord /\ ~Prepared(env) /\ ~Prepared(disk[source])
                       \/ mem.phase = "RUNNING"
  /\ pc = "owned" => mem.phase \in Held
  /\ pc = "recover" => mem = NoRecord \/ mem.phase = "RETRY_SCHEDULED"
  /\ pc = "post" => mem.phase = "STARTING"
  /\ pc = "poll" => mem.phase = "RUNNING"
  /\ pc \in {"persist", "handle", "return"} => mem.phase \in Held
  /\ remediation # NoRemediation => pc \in {"post", "persist", "handle", "return"}

Shape ==
  /\ ShapeOf(env) /\ ShapeOf(mem)
  /\ \A x \in Sources : ShapeOf(disk[x])
  /\ AtStep

(* The values the model builds have their types.                           *)
LEMMA BaseTypes ==
  /\ NoRecord \in Records /\ NoHandle \in Handles /\ NoRemediation \in Remediations /\ NoIntent \in Intents
  /\ ShapeOf(NoRecord) /\ NoRecord.phase = "none" /\ NoRecord.id = NoSession
PROOF
  <1>1. MaxIntents \in Nat
    BY BoundsAssumption
  <1>2. NoIntent \in Intents
    BY <1>1 DEF NoIntent, Intents, Sources
  <1>3. NoRemediation \in Remediations
    BY DEF NoRemediation, Remediations
  <1> QED
    BY <1>2, <1>3 DEF NoRecord, Records, NoHandle, Handles, Phases, Sources, ShapeOf

LEMMA RunningType ==
  ASSUME NEW s \in Sessions, NEW x \in Sources, NEW n \in Nat
  PROVE  /\ Running(s, x, n) \in Records
         /\ ShapeOf(Running(s, x, n))
         /\ Running(s, x, n).phase = "RUNNING" /\ Running(s, x, n).id = s /\ Running(s, x, n).source = x
         /\ Running(s, x, n).attempt = n /\ ~Running(s, x, n).pr /\ Running(s, x, n).remediation = NoRemediation
PROOF
  <1>1. s # NoSession
    BY DEF Sessions, NoSession
  <1> QED
    BY <1>1, BaseTypes DEF Running, NoRecord, Records, Phases, ShapeOf

LEMMA PreparedType ==
  ASSUME NEW n \in 0 .. MaxIntents, NEW a \in Nat, source \in Sources
  PROVE  /\ PreparedRecord(n, a) \in Records
         /\ ShapeOf(PreparedRecord(n, a))
         /\ PreparedRecord(n, a).phase = "STARTING" /\ PreparedRecord(n, a).source = source
         /\ PreparedRecord(n, a).attempt = a
PROOF
  BY BaseTypes DEF PreparedRecord, NoRecord, Records, Phases, ShapeOf, Intents


LEMMA RecordUpdate ==
  ASSUME NEW r \in Records, NEW b \in BOOLEAN, NEW m \in Remediations
  PROVE  LET u == [r EXCEPT !.pr = b, !.remediation = m] IN
         /\ u \in Records
         /\ u.phase = r.phase /\ u.id = r.id /\ u.source = r.source /\ u.attempt = r.attempt
         /\ u.intent = r.intent /\ u.pr = b /\ u.remediation = m
PROOF
  BY DEF Records

(* The record a run starts with: of the envelope, the recovery record or   *)
(* the handle, completed by the handle and the work product.               *)
LEMMA StartupSessionType ==
  ASSUME TypeOK, Shape, pc = "startup", NEW h \in Handles
  PROVE  /\ StartupSession(h) \in Records
         /\ StartupSession(h) = NoRecord \/ StartupSession(h).phase \in Held
         /\ StartupSession(h).id = NoSession => StartupSession(h) = NoRecord
PROOF
  <1> DEFINE stored == IF mem # NoRecord THEN mem ELSE disk[source]
             decoded == IF mem # NoRecord THEN mem ELSE env
  <1>1. /\ stored \in Records /\ decoded \in Records
        /\ stored = NoRecord \/ stored.phase \in Held
        /\ decoded = NoRecord \/ decoded.phase \in Held
        /\ \A r \in {stored, decoded} : r.phase \in Held => r.id # NoSession
    <2>1. source \in Sources /\ mem \in Records /\ env \in Records /\ disk[source] \in Records
      BY DEF TypeOK
    <2>2. ShapeOf(mem) /\ ShapeOf(env) /\ ShapeOf(disk[source])
      BY <2>1 DEF Shape
    <2>3. \/ mem = NoRecord /\ ~Prepared(env) /\ ~Prepared(disk[source])
          \/ mem.phase = "RUNNING"
      BY DEF Shape, AtStep
    <2>4. \A r \in Records : ShapeOf(r) /\ ~Prepared(r) =>
            /\ r = NoRecord \/ r.phase \in Held
            /\ r.phase \in Held => r.id # NoSession
      BY DEF Records, Phases, ShapeOf, Prepared, Held
    <2>5. mem # NoRecord => ~Prepared(mem)
      BY <2>3, BaseTypes DEF Prepared
    <2> QED
      BY <2>1, <2>2, <2>3, <2>4, <2>5, BaseTypes
  <1>2. CASE decoded # NoRecord
    <2>1. StartupSession(h) = MergeCheckpoints(decoded, stored)
      BY <1>2 DEF StartupSession
    <2>2. /\ MergeCheckpoints(decoded, stored) \in Records
          /\ MergeCheckpoints(decoded, stored).phase = decoded.phase
          /\ MergeCheckpoints(decoded, stored).id = decoded.id
      BY <1>1 DEF MergeCheckpoints, Records
    <2> QED
      BY <1>1, <1>2, <2>1, <2>2
  <1>3. CASE decoded = NoRecord /\ stored # NoRecord
    BY <1>1, <1>3 DEF StartupSession
  <1>4. CASE decoded = NoRecord /\ stored = NoRecord /\ h.id # NoSession
    <2>1. StartupSession(h) = Running(h.id, source, 1)
      BY <1>4 DEF StartupSession
    <2>2. h.id \in Sessions /\ source \in Sources
      BY <1>4 DEF Handles, TypeOK
    <2>3. h.id # NoSession
      BY <1>4
    <2> QED
      BY <2>1, <2>2, <2>3, RunningType DEF Held
  <1>5. CASE decoded = NoRecord /\ stored = NoRecord /\ h.id = NoSession
    BY <1>5, BaseTypes DEF StartupSession
  <1> QED
    BY <1>2, <1>3, <1>4, <1>5

LEMMA PreferType ==
  ASSUME TypeOK, NEW h \in Handles, NEW r \in Records, r = NoRecord \/ r.phase \in Held,
         r.id = NoSession => r = NoRecord
  PROVE  /\ Prefer(r, h) \in Records
         /\ Prefer(r, h) = NoRecord \/ Prefer(r, h).phase \in Held
         /\ Prefer(r, h).id = NoSession => Prefer(r, h) = NoRecord
PROOF
  <1>1. CASE h.pr /\ Complete(h.remediation) /\ r.id # h.remediation.recovery
    <2>1. Prefer(r, h) = FromHandle(h, r.attempt)
      BY <1>1 DEF Prefer
    <2>2. h.remediation.recovery \in Sessions /\ r.attempt \in Nat /\ source \in Sources
      BY <1>1 DEF Complete, Handles, Remediations, Records, TypeOK
    <2>3. h.remediation \in Remediations
      BY DEF Handles
    <2>4. /\ FromHandle(h, r.attempt) \in Records
          /\ FromHandle(h, r.attempt).phase = "RUNNING"
          /\ FromHandle(h, r.attempt).id = h.remediation.recovery
      <3> DEFINE q == Running(h.remediation.recovery, source, r.attempt)
      <3>1. q \in Records /\ q.phase = "RUNNING" /\ q.id = h.remediation.recovery
        BY <2>2, RunningType
      <3>2. FromHandle(h, r.attempt) = [q EXCEPT !.pr = TRUE, !.remediation = h.remediation]
        BY DEF FromHandle
      <3> HIDE DEF q
      <3> QED
        BY <3>1, <3>2, <2>3 DEF Records
    <2>5. h.remediation.recovery # NoSession
      BY <1>1 DEF Complete
    <2> QED
      BY <2>1, <2>4, <2>5 DEF Held
  <1>2. CASE ~(h.pr /\ Complete(h.remediation) /\ r.id # h.remediation.recovery)
    BY <1>2 DEF Prefer
  <1> QED
    BY <1>1, <1>2

LEMMA RestoreType ==
  ASSUME TypeOK, NEW h \in Handles, NEW r \in Records
  PROVE  /\ Restore(r, h) \in Records
         /\ Restore(r, h) = NoRecord <=> r = NoRecord
         /\ Restore(r, h).phase = r.phase /\ Restore(r, h).id = r.id
         /\ Restore(r, h).source = r.source /\ Restore(r, h).attempt = r.attempt
PROOF
  <1>1. CASE r = NoRecord
    BY <1>1 DEF Restore
  <1>2. CASE r # NoRecord
    BY <1>2 DEF Restore, Records, Handles, NoRecord, TypeOK
  <1> QED
    BY <1>1, <1>2

StartupRecord(h) == Restore(Prefer(StartupSession(h), h), h)

LEMMA StartupType ==
  ASSUME TypeOK, Shape, pc = "startup", NEW h \in Handles
  PROVE  /\ StartupRecord(h) \in Records
         /\ StartupRecord(h) = NoRecord \/ StartupRecord(h).phase \in Held
         /\ StartupRecord(h).id = NoSession => StartupRecord(h) = NoRecord
PROOF
  <1> DEFINE r == Prefer(StartupSession(h), h)
  <1>1. /\ r \in Records
        /\ r = NoRecord \/ r.phase \in Held
        /\ r.id = NoSession => r = NoRecord
    BY StartupSessionType, PreferType
  <1>2. StartupRecord(h) = Restore(r, h)
    BY DEF StartupRecord
  <1> HIDE DEF r
  <1> QED
    BY <1>1, <1>2, RestoreType

(* Updates of a record that names a session.                               *)
LEMMA PhaseUpdate ==
  ASSUME NEW r \in Records, NEW p \in Held, NEW b \in BOOLEAN, NEW m \in Remediations, r.id # NoSession
  PROVE  /\ [r EXCEPT !.phase = p] \in Records /\ ShapeOf([r EXCEPT !.phase = p])
         /\ [r EXCEPT !.phase = p].phase = p
         /\ [r EXCEPT !.pr = b, !.phase = p] \in Records /\ ShapeOf([r EXCEPT !.pr = b, !.phase = p])
         /\ [r EXCEPT !.pr = b, !.phase = p].phase = p
         /\ [r EXCEPT !.pr = b, !.phase = p, !.remediation = m] \in Records
         /\ ShapeOf([r EXCEPT !.pr = b, !.phase = p, !.remediation = m])
         /\ [r EXCEPT !.pr = b, !.phase = p, !.remediation = m].phase = p
PROOF
  BY DEF Records, Held, Phases, ShapeOf

LEMMA CreatedRecordType ==
  ASSUME TypeOK, NEW s \in Sessions
  PROVE  /\ CreatedRecord(s) \in Records /\ ShapeOf(CreatedRecord(s))
         /\ CreatedRecord(s).phase = "RUNNING"
PROOF
  <1> DEFINE q == Running(s, mem.source, mem.attempt)
             m == [remediation EXCEPT !.recovery = s]
  <1>1. mem.source \in Sources /\ mem.attempt \in Nat /\ s # NoSession
    BY DEF TypeOK, Records, Sessions, NoSession
  <1>2. q \in Records /\ ShapeOf(q) /\ q.phase = "RUNNING" /\ q.id = s
    BY <1>1, RunningType
  <1>3. m \in Remediations
    BY DEF TypeOK, Remediations
  <1>4. CreatedRecord(s) = IF remediation = NoRemediation THEN q ELSE [q EXCEPT !.pr = TRUE, !.remediation = m]
    BY DEF CreatedRecord
  <1> HIDE DEF q, m
  <1> QED
    BY <1>1, <1>2, <1>3, <1>4 DEF Records, ShapeOf

CloudType == cloud \in [Sessions -> [state : CloudStates, intent : Intents, pr : BOOLEAN, branch : BOOLEAN]]

LEMMA CreateInCloudType ==
  ASSUME TypeOK, CreateInCloud
  PROVE  NextSession \in Sessions /\ CloudType'
PROOF
  <1>1. mem.intent \in Intents /\ CloudType
    BY DEF TypeOK, CloudType, Records
  <1> QED
    BY <1>1 DEF CreateInCloud, CloudType, CloudStates

LEMMA UpsertHandleType == TypeOK => UpsertHandle(mem) \in Handles
PROOF
  BY DEF TypeOK, UpsertHandle, Records, Handles, Remediations, NoSession

LEMMA InitShape == Init => TypeOK /\ Shape
PROOF
  <1> SUFFICES ASSUME Init PROVE TypeOK /\ Shape
    OBVIOUS
  <1> USE BaseTypes, BoundsAssumption
  <1>1. TypeOK
    <2>1. CloudType
      BY DEF Init, CloudType, CloudStates
    <2>2. env \in Records /\ handle \in Handles /\ mem \in Records /\ remediation \in Remediations
      BY DEF Init
    <2>3. disk \in [Sources -> Records] /\ source \in Sources /\ pc = "idle"
      BY DEF Init, Sources
    <2>4. product \in BOOLEAN /\ freshRun \in BOOLEAN /\ adopted \subseteq Sessions
      BY DEF Init
    <2>5. intents \in 0 .. MaxIntents /\ drops \in 0 .. MaxDrops /\ faults \in 0 .. MaxFaults
      BY DEF Init
    <2> QED
      BY <2>1, <2>2, <2>3, <2>4, <2>5 DEF CloudType, TypeOK, Steps
  <1>2. Shape
    BY DEF Init, Shape, AtStep, Sources
  <1> QED
    BY <1>1, <1>2

LEMMA NextShape == TypeOK /\ Shape /\ [Next]_vars => TypeOK' /\ Shape'
PROOF
  <1> SUFFICES ASSUME TypeOK, Shape, [Next]_vars PROVE TypeOK' /\ Shape'
    OBVIOUS
  <1> USE BaseTypes, BoundsAssumption DEF Fault, NoFault
  <1>wake. ASSUME NEW asFresh \in BOOLEAN, Wake(asFresh) PROVE TypeOK' /\ Shape'
    <2>1. TypeOK'
      BY <1>wake DEF Wake, TypeOK, Steps, Sources
    <2>2. Shape'
      BY <1>wake DEF Wake, Shape, AtStep
    <2> QED
      BY <2>1, <2>2
  <1>1. CASE ObserveNoCreate
    <2>1. TypeOK'
      BY <1>1 DEF ObserveNoCreate, TypeOK, Steps
    <2>2. ~Prepared(env) /\ ~Prepared(disk[source]) /\ mem = NoRecord
      BY <1>1 DEF ObserveNoCreate, PreparedCreate, Shape, AtStep
    <2>3. Shape'
      BY <1>1, <2>2 DEF ObserveNoCreate, TypeOK, Shape, AtStep, Held, Prepared
    <2> QED
      BY <2>1, <2>3
  <1>2. CASE HoldCreate
    <2>1. TypeOK'
      BY <1>2 DEF HoldCreate, EndWith, PreparedCreate, TypeOK, Steps
    <2>2. Shape'
      BY <1>2 DEF HoldCreate, EndWith, PreparedCreate, TypeOK, Shape, AtStep, Held, Prepared
    <2> QED
      BY <2>1, <2>2
  <1>3. CASE Reattach
    <2> DEFINE create == PreparedCreate
    <2>1. create \in Records
      BY DEF PreparedCreate, TypeOK
    <2>2. PICK s \in Matches(create.intent) :
            LET recovered == Running(s, create.source, create.attempt) IN
            \/ /\ disk' = [disk EXCEPT ![recovered.source] = recovered]
               /\ adopted' = adopted \cup {s}
               /\ IF freshRun THEN EndWith(recovered)
                  ELSE mem' = recovered /\ pc' = "startup" /\ UNCHANGED <<env, remediation>>
               /\ faults' = faults
            \/ Fault("disk") /\ pc' = "idle" /\ UNCHANGED <<env, disk, mem, remediation, adopted>>
      BY <1>3 DEF Reattach
    <2> DEFINE recovered == Running(s, create.source, create.attempt)
    <2>3. s \in Sessions /\ create.source \in Sources /\ create.attempt \in Nat
      BY <2>1 DEF Matches, Created, Records
    <2>4. recovered \in Records /\ ShapeOf(recovered) /\ recovered.phase = "RUNNING" /\ recovered.source \in Sources
      BY <2>3, RunningType
    <2>5. pc = "observe" /\ UNCHANGED <<cloud, handle, source, product, intents, drops, freshRun>>
      BY <1>3 DEF Reattach
    <2>6. mem = NoRecord /\ remediation = NoRemediation
      BY <2>5 DEF Shape, AtStep
    <2> HIDE DEF recovered, create
    <2>7. CASE disk' = [disk EXCEPT ![recovered.source] = recovered] /\ adopted' = adopted \cup {s} /\ faults' = faults
               /\ IF freshRun THEN EndWith(recovered)
                  ELSE mem' = recovered /\ pc' = "startup" /\ UNCHANGED <<env, remediation>>
      <3>1. TypeOK'
        BY <2>3, <2>4, <2>5, <2>7 DEF TypeOK, Steps, EndWith
      <3>2. Shape'
        BY <2>4, <2>5, <2>6, <2>7 DEF TypeOK, Shape, AtStep, EndWith
      <3> QED
        BY <3>1, <3>2
    <2>8. CASE Fault("disk") /\ pc' = "idle" /\ UNCHANGED <<env, disk, mem, remediation, adopted>>
      <3>1. TypeOK'
        BY <2>5, <2>8 DEF TypeOK, Steps
      <3>2. Shape'
        BY <2>5, <2>6, <2>8 DEF Shape, AtStep
      <3> QED
        BY <3>1, <3>2
    <2> QED
      BY <2>2, <2>7, <2>8 DEF recovered
  <1>4. CASE StartFresh
    <2>1. TypeOK'
      BY <1>4 DEF StartFresh, TypeOK, Steps
    <2>2. Shape'
      BY <1>4 DEF StartFresh, TypeOK, Shape, AtStep, Held, Prepared
    <2> QED
      BY <2>1, <2>2
  <1>5. CASE Startup
    <2>1. PICK h \in {handle, NoHandle} : mem' = StartupRecord(h)
      BY <1>5 DEF Startup, StartupRecord
    <2>2. h \in Handles
      BY DEF TypeOK
    <2>3. /\ mem' \in Records
          /\ mem' = NoRecord \/ mem'.phase \in Held
          /\ mem'.id = NoSession => mem' = NoRecord
      BY <1>5, <2>1, <2>2, StartupType DEF Startup
    <2>4. /\ pc = "startup" /\ pc' = (IF mem' = NoRecord THEN "recover" ELSE "owned")
          /\ adopted' = adopted \cup (IF mem'.id # NoSession THEN {mem'.id} ELSE {})
          /\ faults' \in 0 .. MaxFaults
          /\ UNCHANGED <<cloud, env, disk, handle, source, remediation, product, intents, drops, freshRun>>
      BY <1>5 DEF Startup, TypeOK
    <2>5. adopted' \subseteq Sessions
      BY <2>3, <2>4 DEF Records, TypeOK
    <2>6. TypeOK'
      BY <2>3, <2>4, <2>5 DEF TypeOK, Steps
    <2>7. ShapeOf(mem')
      BY <2>3 DEF Held, ShapeOf
    <2>8. Shape'
      BY <2>3, <2>4, <2>7 DEF Shape, AtStep
    <2> QED
      BY <2>6, <2>8
  <1>6. CASE Owned
    <2>1. mem.id # NoSession /\ (mem.phase # "RETRY_SCHEDULED" => mem.phase = "RUNNING")
      BY <1>6 DEF Owned, Shape, AtStep, ShapeOf, Held
    <2>2. TypeOK'
      BY <1>6, <2>1 DEF Owned, TypeOK, Steps
    <2>3. Shape'
      BY <1>6, <2>1 DEF Owned, TypeOK, Shape, AtStep
    <2> QED
      BY <2>2, <2>3
  <1>7. CASE ContinueLive
    <2> DEFINE r == [mem EXCEPT !.phase = "RUNNING"]
    <2>1. mem.id # NoSession /\ mem \in Records
      BY <1>7 DEF ContinueLive, Live, TypeOK
    <2>2. r \in Records /\ ShapeOf(r) /\ r.phase = "RUNNING"
      BY <2>1, PhaseUpdate DEF Held
    <2>3. /\ mem' = r /\ pc' = "persist"
          /\ UNCHANGED <<cloud, env, disk, handle, source, remediation, product, intents, drops, freshRun, adopted, faults>>
      BY <1>7 DEF ContinueLive
    <2> HIDE DEF r
    <2>4. TypeOK'
      BY <2>2, <2>3 DEF TypeOK, Steps
    <2>5. Shape'
      BY <2>2, <2>3 DEF Shape, AtStep, Held
    <2> QED
      BY <2>4, <2>5
  <1>8. CASE ResumeByMessage
    <2> DEFINE r == [mem EXCEPT !.phase = "RUNNING"]
    <2>1. mem.id # NoSession /\ mem \in Records
      BY <1>8 DEF ResumeByMessage, TypeOK
    <2>2. r \in Records /\ ShapeOf(r) /\ r.phase = "RUNNING"
      BY <2>1, PhaseUpdate DEF Held
    <2>3. mem' = r /\ pc' = "persist"
          /\ UNCHANGED <<env, disk, handle, source, remediation, product, intents, drops, freshRun, adopted, faults>>
      BY <1>8 DEF ResumeByMessage
    <2>4. CloudType'
      <3>1. mem.id \in Sessions /\ CloudType
        BY <2>1 DEF Records, TypeOK, CloudType
      <3>2. \E next \in {cloud[mem.id].state, "live"} : cloud' = [cloud EXCEPT ![mem.id].state = next]
        BY <1>8 DEF ResumeByMessage
      <3> QED
        BY <3>1, <3>2 DEF CloudType, CloudStates
    <2> HIDE DEF r
    <2>5. TypeOK'
      BY <2>2, <2>3, <2>4 DEF TypeOK, Steps, CloudType
    <2>6. Shape'
      BY <2>2, <2>3 DEF Shape, AtStep, Held
    <2> QED
      BY <2>5, <2>6
  <1>9. CASE Prepare
    <2> DEFINE r == PreparedRecord(intents + 1, Attempt)
               kept == IF IsRetry THEN mem.remediation ELSE NoRemediation
    <2>1. /\ intents + 1 \in 0 .. MaxIntents /\ Attempt \in Nat /\ source \in Sources
          /\ kept \in Remediations
      BY <1>9 DEF Prepare, TypeOK, Attempt, Records
    <2>2. r \in Records /\ ShapeOf(r) /\ r.phase = "STARTING"
      BY <2>1, PreparedType
    <2>3. /\ intents' = intents + 1
          /\ UNCHANGED <<cloud, handle, source, product, drops, freshRun, adopted>>
          /\ \/ disk' = [disk EXCEPT ![source] = r] /\ NoFault /\ mem' = r /\ pc' = "post"
                /\ remediation' = kept /\ UNCHANGED env
             \/ Fault("disk") /\ EndWith(r) /\ UNCHANGED disk
      BY <1>9 DEF Prepare
    <2> HIDE DEF r, kept
    <2>4. TypeOK'
      BY <2>1, <2>2, <2>3 DEF TypeOK, Steps, EndWith
    <2>5. Shape'
      BY <2>2, <2>3 DEF TypeOK, Shape, AtStep, EndWith
    <2> QED
      BY <2>4, <2>5
  <1>10. CASE PostCreated
    <2>1. NextSession \in Sessions /\ CloudType'
      BY <1>10, CreateInCloudType DEF PostCreated
    <2>2. /\ CreatedRecord(NextSession) \in Records /\ ShapeOf(CreatedRecord(NextSession))
          /\ CreatedRecord(NextSession).phase = "RUNNING"
      BY <2>1, CreatedRecordType
    <2>3. /\ mem' = CreatedRecord(NextSession) /\ adopted' = adopted \cup {NextSession} /\ pc' = "persist"
          /\ UNCHANGED <<env, disk, handle, source, remediation, product, intents, drops, freshRun, faults>>
      BY <1>10 DEF PostCreated
    <2>4. TypeOK'
      BY <2>1, <2>2, <2>3 DEF TypeOK, Steps, CloudType
    <2>5. Shape'
      BY <2>2, <2>3 DEF Shape, AtStep, Held
    <2> QED
      BY <2>4, <2>5
  <1>11. CASE PostUnanswered
    <2>1. CloudType'
      BY <1>11, CreateInCloudType DEF PostUnanswered, TypeOK, CloudType
    <2>2. /\ EndWith(mem) /\ faults' \in 0 .. MaxFaults
          /\ UNCHANGED <<disk, handle, source, product, intents, drops, freshRun, adopted>>
      BY <1>11 DEF PostUnanswered, TypeOK
    <2>3. TypeOK'
      BY <2>1, <2>2 DEF TypeOK, Steps, CloudType, EndWith
    <2>4. Shape'
      BY <2>2 DEF Shape, AtStep, EndWith
    <2> QED
      BY <2>3, <2>4
  <1>12. CASE PostNotFound
    <2> DEFINE q == PreparedRecord(mem.intent.prompt, mem.attempt)
               r == [q EXCEPT !.intent.source = "catalog", !.source = "catalog"]
    <2>1. mem.intent.prompt \in 0 .. MaxIntents /\ mem.attempt \in Nat /\ source \in Sources
      BY DEF TypeOK, Records, Intents
    <2>2. q \in Records /\ ShapeOf(q) /\ q.phase = "STARTING"
      BY <2>1, PreparedType
    <2>3. /\ source' = "catalog" /\ mem' = r /\ disk' = [disk EXCEPT !["catalog"] = r] /\ pc = "post"
          /\ UNCHANGED <<cloud, env, handle, pc, remediation, product, intents, drops, freshRun, adopted, faults>>
      BY <1>12 DEF PostNotFound
    <2> HIDE DEF q
    <2>4. r \in Records /\ ShapeOf(r) /\ r.phase = "STARTING"
      BY <2>2 DEF Records, Intents, Sources, ShapeOf
    <2> HIDE DEF r
    <2>5. TypeOK'
      BY <2>3, <2>4 DEF TypeOK, Steps, Sources
    <2>6. Shape'
      BY <2>3, <2>4 DEF TypeOK, Shape, AtStep
    <2> QED
      BY <2>5, <2>6
  <1>13. CASE PersistRecord
    <2>1. TypeOK'
      BY <1>13 DEF PersistRecord, TypeOK, Steps
    <2>2. Shape'
      BY <1>13 DEF PersistRecord, TypeOK, Shape, AtStep, Held, Prepared
    <2> QED
      BY <2>1, <2>2
  <1>14. CASE PersistHandle
    <2>1. handle' \in Handles
      BY <1>14, UpsertHandleType DEF PersistHandle, TypeOK
    <2>2. /\ pc' = "return" /\ pc = "handle" /\ faults' \in 0 .. MaxFaults
          /\ UNCHANGED <<cloud, env, disk, mem, source, remediation, product, intents, drops, freshRun, adopted>>
      BY <1>14 DEF PersistHandle, TypeOK
    <2>3. TypeOK'
      BY <2>1, <2>2 DEF TypeOK, Steps
    <2>4. Shape'
      BY <2>2 DEF Shape, AtStep
    <2> QED
      BY <2>3, <2>4
  <1>15. CASE Return
    <2>1. TypeOK'
      BY <1>15 DEF Return, EndWith, TypeOK, Steps
    <2>2. Shape'
      BY <1>15 DEF Return, EndWith, TypeOK, Shape, AtStep, Held, Prepared
    <2> QED
      BY <2>1, <2>2
  <1>16. CASE PollLive
    <2> DEFINE r == [mem EXCEPT !.pr = FALSE, !.phase = "RUNNING"]
    <2>1. mem.id # NoSession /\ mem \in Records
      BY <1>16 DEF PollLive, TypeOK
    <2>2. r \in Records /\ ShapeOf(r) /\ r.phase = "RUNNING"
      BY <2>1, PhaseUpdate DEF Held
    <2>3. mem' = r /\ pc' = "persist"
          /\ UNCHANGED <<cloud, env, disk, handle, source, remediation, product, intents, drops, freshRun, adopted, faults>>
      BY <1>16 DEF PollLive
    <2> HIDE DEF r
    <2>4. TypeOK'
      BY <2>2, <2>3 DEF TypeOK, Steps
    <2>5. Shape'
      BY <2>2, <2>3 DEF Shape, AtStep, Held
    <2> QED
      BY <2>4, <2>5
  <1>17. CASE PollFailed
    <2> DEFINE r == [mem EXCEPT !.phase = "RETRY_SCHEDULED"]
    <2>1. mem.id # NoSession /\ mem \in Records
      BY <1>17 DEF PollFailed, TypeOK
    <2>2. r \in Records /\ ShapeOf(r)
      BY <2>1, PhaseUpdate DEF Held
    <2>3. /\ env' \in {r, mem} /\ mem' = NoRecord /\ pc' = "idle" /\ remediation' = NoRemediation
          /\ UNCHANGED <<cloud, disk, handle, source, product, intents, drops, freshRun, adopted, faults>>
      BY <1>17 DEF PollFailed, EndWith
    <2> HIDE DEF r
    <2>4. TypeOK'
      BY <2>1, <2>2, <2>3 DEF TypeOK, Steps
    <2>5. Shape'
      BY <2>2, <2>3 DEF Shape, AtStep
    <2> QED
      BY <2>4, <2>5
  <1>18. CASE PollPullRequest
    <2> DEFINE m == [original |-> mem.id, recovery |-> NoSession]
               retry == [mem EXCEPT !.pr = TRUE, !.phase = "RETRY_SCHEDULED", !.remediation = m]
               run == [mem EXCEPT !.pr = TRUE, !.phase = "RUNNING"]
    <2>1. mem.id # NoSession /\ mem \in Records
      BY <1>18 DEF PollPullRequest, TypeOK
    <2>2. m \in Remediations
      BY <2>1 DEF Remediations, Records
    <2> HIDE DEF m
    <2>3. \A r \in {retry, run} : r \in Records /\ ShapeOf(r) /\ r.phase \in Held
      <3>1. retry \in Records /\ ShapeOf(retry) /\ retry.phase = "RETRY_SCHEDULED"
        BY <2>1, <2>2 DEF Records, Phases, ShapeOf
      <3>2. run \in Records /\ ShapeOf(run) /\ run.phase = "RUNNING"
        BY <2>1 DEF Records, Phases, ShapeOf
      <3> HIDE DEF retry, run
      <3> QED
        BY <3>1, <3>2 DEF Held
    <2>4. /\ mem' \in {retry, run} /\ product' = TRUE /\ pc' = "persist"
          /\ UNCHANGED <<cloud, env, disk, handle, source, remediation, intents, drops, freshRun, adopted, faults>>
      BY <1>18 DEF PollPullRequest, m
    <2> HIDE DEF retry, run
    <2>5. TypeOK'
      BY <2>3, <2>4 DEF TypeOK, Steps
    <2>6. Shape'
      BY <2>3, <2>4 DEF Shape, AtStep, Held
    <2> QED
      BY <2>5, <2>6
  <1>19. CASE PollNoPullRequest
    <2>1. TypeOK'
      BY <1>19 DEF PollNoPullRequest, EndWith, TypeOK, Steps
    <2>2. Shape'
      BY <1>19 DEF PollNoPullRequest, EndWith, TypeOK, Shape, AtStep, Held, Prepared
    <2> QED
      BY <2>1, <2>2
  <1>20. CASE Release
    <2>1. TypeOK'
      BY <1>20 DEF Release, EndWith, TypeOK, Steps
    <2>2. Shape'
      BY <1>20 DEF Release, EndWith, TypeOK, Shape, AtStep, Held, Prepared
    <2> QED
      BY <2>1, <2>2
  <1>21. CASE CloudStep
    <2>1. CloudType'
      <3>1. CloudType /\ Created \subseteq Sessions
        BY DEF TypeOK, CloudType, Created
      <3> QED
        BY <1>21, <3>1 DEF CloudStep, CloudType, CloudStates
    <2>2. UNCHANGED <<env, disk, handle, mem, pc, source, remediation, product, intents, drops, freshRun, adopted, faults>>
      BY <1>21 DEF CloudStep
    <2>3. TypeOK'
      BY <2>1, <2>2 DEF TypeOK, CloudType
    <2>4. Shape'
      BY <2>2 DEF Shape, AtStep
    <2> QED
      BY <2>3, <2>4
  <1>22. CASE Crash
    <2>1. TypeOK'
      BY <1>22 DEF Crash, TypeOK, Steps
    <2>2. Shape'
      BY <1>22 DEF Crash, TypeOK, Shape, AtStep, Held, Prepared
    <2> QED
      BY <2>1, <2>2
  <1>23. CASE LoseEnvelope
    <2>1. TypeOK'
      BY <1>23 DEF LoseEnvelope, TypeOK, Steps
    <2>2. Shape'
      BY <1>23 DEF LoseEnvelope, TypeOK, Shape, AtStep, Held, Prepared
    <2> QED
      BY <2>1, <2>2
  <1>24. CASE UNCHANGED vars
    BY <1>24 DEF vars, TypeOK, Shape, AtStep, Held, Prepared, Terminal, Created
  <1> QED
    BY <1>wake, <1>1, <1>2, <1>3, <1>4, <1>5, <1>6, <1>7, <1>8, <1>9, <1>10, <1>11, <1>12, <1>13, <1>14, <1>15, <1>16, <1>17, <1>18, <1>19, <1>20, <1>21, <1>22, <1>23, <1>24 DEF Next, Run

(* The types hold in every behaviour, and a poll has a session.            *)
THEOREM TypeCorrect == Spec => []TypeOK
PROOF
  <1>1. Init => TypeOK /\ Shape
    BY InitShape
  <1>2. TypeOK /\ Shape /\ [Next]_vars => (TypeOK /\ Shape)'
    BY NextShape
  <1> QED
    BY <1>1, <1>2, PTL DEF Spec

-----------------------------------------------------------------------------
(* 2. What is kept of an issue's session while it is not given up.  When   *)
(* every run finds the name of the catalog there is one recovery record.   *)
OneSource ==
  /\ source = "catalog" /\ disk["configured"] = NoRecord
  /\ env.source = "catalog" /\ mem.source = "catalog" /\ disk["catalog"].source = "catalog"
Stored == disk["catalog"]

(* A retry scheduled for a session that failed without a pull request.     *)
Bare(r) == r.phase = "RETRY_SCHEDULED" /\ r.remediation = NoRemediation

(* What a copy of the record says of the issue: it has a pull request only *)
(* when that is registered, and before that it names a session of the task.*)
SoundIn(r, registered, tasks) ==
  /\ r.pr \/ r.remediation # NoRemediation => registered
  /\ ~registered => r.attempt = 1 /\ r.id \in tasks \cup {NoSession}
  /\ Bare(r) => ~registered
Sound(r) == SoundIn(r, product, TaskSessions)

SoundCopies ==
  /\ Sound(env) /\ Sound(mem) /\ Sound(Stored)
  /\ handle.pr \/ handle.remediation # NoRemediation \/ remediation # NoRemediation => product
  /\ ~product => handle.id \in TaskSessions \cup {NoSession}
  /\ \A s \in Created : cloud[s].branch => product

(* A run that works in the session knows of the registered pull request.   *)
PrCarried == product /\ pc \in {"owned", "recover", "poll"} /\ mem # NoRecord => mem.pr

(* A bare retry is in the envelope only, and the run that finds it there   *)
(* resumes the session: it neither polls nor creates.                      *)
BareRetry ==
  /\ ~Bare(Stored) /\ (Bare(mem) => pc \in {"owned", "recover"})
  /\ Bare(env) => /\ ~Prepared(Stored) /\ pc \notin {"post", "poll"}
                  /\ (pc = "startup" => mem = NoRecord) /\ (pc = "owned" => mem.phase = "RETRY_SCHEDULED")

(* The recovery record is written before anything else is known.           *)
RecordKept ==
  Stored = NoRecord =>
    /\ TaskSessions = {} /\ ~product /\ handle.id = NoSession /\ mem = NoRecord
    /\ env = NoRecord \/ Prepared(env)

(* A run that starts has found the answer to a prepared create.            *)
RecordAnswered == pc \in {"startup", "owned", "poll"} => ~Prepared(Stored)

(* Without a remediation a create is the first one.                        *)
CreateIsFirst ==
  /\ pc = "recover" /\ mem = NoRecord => Stored = NoRecord
  /\ pc = "post" => Stored = mem /\ (remediation = NoRemediation => TaskSessions = {} /\ ~product)

OneTask == \A s, t \in TaskSessions : s = t

(* Until the pull request is registered the record names the session or    *)
(* the create it came from; then the session has ended for good.           *)
TaskInHand ==
  IF product THEN \A s \in TaskSessions : Terminal(cloud[s].state)
  ELSE \A s \in TaskSessions : Stored.id = s \/ Stored.intent = cloud[s].intent

Contiguous == \E n \in Nat : Created = 1 .. n

Parts ==
  /\ OneSource /\ ~freshRun /\ SoundCopies /\ PrCarried /\ BareRetry /\ RecordKept
  /\ RecordAnswered /\ CreateIsFirst /\ OneTask /\ TaskInHand /\ Contiguous
Kept == drops = 0 => Parts
SessionInv == TypeOK /\ Shape /\ Kept

(* The fields of the records the actions build.                            *)
LEMMA UpdateFields ==
  ASSUME NEW r \in Records, NEW p, NEW b, NEW m
  PROVE  /\ LET u == [r EXCEPT !.phase = p] IN
              /\ u.id = r.id /\ u.phase = p /\ u.intent = r.intent /\ u.source = r.source
              /\ u.attempt = r.attempt /\ u.pr = r.pr /\ u.remediation = r.remediation
         /\ LET u == [r EXCEPT !.pr = b, !.phase = p] IN
              /\ u.id = r.id /\ u.phase = p /\ u.intent = r.intent /\ u.source = r.source
              /\ u.attempt = r.attempt /\ u.pr = b /\ u.remediation = r.remediation
         /\ LET u == [r EXCEPT !.pr = b, !.phase = p, !.remediation = m] IN
              /\ u.id = r.id /\ u.phase = p /\ u.intent = r.intent /\ u.source = r.source
              /\ u.attempt = r.attempt /\ u.pr = b /\ u.remediation = m
PROOF
  BY DEF Records

LEMMA NewFields ==
  /\ ~NoRecord.pr /\ NoRecord.remediation = NoRemediation /\ NoRecord.source = "catalog" /\ NoRecord.attempt = 1
  /\ \A n, a : LET u == PreparedRecord(n, a) IN
       /\ u.id = NoSession /\ u.phase = "STARTING" /\ u.intent = [prompt |-> n, source |-> source]
       /\ u.source = source /\ u.attempt = a /\ ~u.pr /\ u.remediation = NoRemediation
  /\ \A s, x, a : LET u == Running(s, x, a) IN
       /\ u.id = s /\ u.phase = "RUNNING" /\ u.source = x /\ u.attempt = a
       /\ ~u.pr /\ u.remediation = NoRemediation
PROOF
  BY DEF NoRecord, PreparedRecord, Running

LEMMA CreatedFields ==
  ASSUME TypeOK, NEW s \in Sessions
  PROVE  LET u == CreatedRecord(s) IN
         /\ u.id = s /\ u.phase = "RUNNING" /\ u.source = mem.source /\ u.attempt = mem.attempt
         /\ u.pr \/ u.remediation # NoRemediation => remediation # NoRemediation
PROOF
  <1> DEFINE q == Running(s, mem.source, mem.attempt)
             m == [remediation EXCEPT !.recovery = s]
  <1>1. mem.source \in Sources /\ mem.attempt \in Nat
    BY DEF TypeOK, Records
  <1>2. /\ q \in Records /\ q.phase = "RUNNING" /\ q.id = s /\ q.source = mem.source /\ q.attempt = mem.attempt
        /\ ~q.pr /\ q.remediation = NoRemediation
    BY <1>1, RunningType
  <1>3. CreatedRecord(s) = IF remediation = NoRemediation THEN q ELSE [q EXCEPT !.pr = TRUE, !.remediation = m]
    BY DEF CreatedRecord
  <1> HIDE DEF q, m
  <1> QED
    BY <1>2, <1>3 DEF Records

(* The record a run starts with is as sound as the copies it is made from. *)
LEMMA StartupSound ==
  ASSUME TypeOK, Shape, Parts, pc = "startup", NEW h \in {handle, NoHandle}
  PROVE  LET m == StartupRecord(h) IN
         /\ Sound(m) /\ m.source = "catalog"
         /\ m = NoRecord <=> Stored = NoRecord
         /\ product /\ m # NoRecord => m.pr
         /\ Bare(env) => m.phase = "RETRY_SCHEDULED"
PROOF
  <1> DEFINE stored == IF mem # NoRecord THEN mem ELSE Stored
             decoded == IF mem # NoRecord THEN mem ELSE env
             r == StartupSession(h)
             q == Prefer(r, h)
             m == StartupRecord(h)
  <1>1. h \in Handles /\ source = "catalog" /\ stored \in Records /\ decoded \in Records
    BY BaseTypes DEF TypeOK, Stored, Parts, OneSource, Sources
  <1>2. /\ h.pr \/ h.remediation # NoRemediation => product
        /\ ~product => h.id \in TaskSessions \cup {NoSession}
    BY DEF Parts, SoundCopies, NoHandle
  <1>3. Sound(stored) /\ Sound(decoded) /\ stored.source = "catalog" /\ decoded.source = "catalog"
    BY DEF Parts, SoundCopies, OneSource, Stored
  <1>4. /\ r \in Records
        /\ r = NoRecord \/ r.phase \in Held
        /\ r.id = NoSession => r = NoRecord
    BY <1>1, StartupSessionType
  <1>5. /\ Sound(r) /\ r.source = "catalog"
        /\ r = NoRecord <=> Stored = NoRecord
        /\ Bare(env) => r.phase = "RETRY_SCHEDULED"
    <2>1. CASE decoded # NoRecord
      <3>1. r = MergeCheckpoints(decoded, stored)
        BY <2>1, <1>1 DEF StartupSession, Stored
      <3>2. /\ r.phase = decoded.phase /\ r.id = decoded.id /\ r.attempt = decoded.attempt /\ r.source = decoded.source
            /\ r.pr => decoded.pr \/ stored.pr
            /\ r.remediation # NoRemediation => decoded.remediation # NoRemediation \/ stored.remediation # NoRemediation
            /\ r.remediation = NoRemediation => decoded.remediation = NoRemediation
        BY <3>1, <1>1 DEF MergeCheckpoints, Records
      <3>3. Sound(r)
        BY <3>2, <1>3 DEF Sound, SoundIn, Bare
      <3>4. r # NoRecord
        <4>1. decoded.phase # "none"
          BY <2>1 DEF Shape, ShapeOf
        <4> QED
          BY <4>1, <3>2, BaseTypes
      <3>5. Bare(env) => decoded = env
        BY DEF Parts, BareRetry
      <3>6. Stored # NoRecord
        BY <2>1, BaseTypes DEF Parts, RecordKept, Shape, AtStep, Prepared
      <3> QED
        BY <1>3, <3>2, <3>3, <3>4, <3>5, <3>6 DEF Bare
    <2>2. CASE decoded = NoRecord /\ stored # NoRecord
      <3>1. r = stored
        BY <2>2, <1>1 DEF StartupSession, Stored
      <3>2. ~Bare(env)
        BY <2>2, BaseTypes DEF Bare
      <3>3. Stored # NoRecord
        BY <2>2 DEF stored
      <3> QED
        BY <3>1, <3>2, <3>3, <2>2, <1>3
    <2>3. CASE decoded = NoRecord /\ stored = NoRecord
      <3>1. Stored = NoRecord /\ ~Bare(env) /\ mem = NoRecord
        BY <2>3, BaseTypes DEF Bare
      <3>2. ~product /\ handle.id = NoSession
        BY <3>1 DEF Parts, RecordKept
      <3>3. h.id = NoSession
        BY <3>2 DEF NoHandle
      <3>4. r = NoRecord
        BY <2>3, <3>1, <3>3, <1>1 DEF StartupSession, Stored
      <3> QED
        BY <3>1, <3>4, <2>3, <1>3
    <2> QED
      BY <2>1, <2>2, <2>3
  <1> HIDE DEF r, stored, decoded
  <1>6. /\ q \in Records /\ Sound(q) /\ q.source = "catalog"
        /\ q = NoRecord <=> Stored = NoRecord
        /\ Bare(env) => q.phase = "RETRY_SCHEDULED"
    <2>1. q \in Records
      BY <1>1, <1>4, PreferType
    <2>2. CASE h.pr /\ Complete(h.remediation) /\ r.id # h.remediation.recovery
      <3>1. product /\ q = FromHandle(h, r.attempt)
        BY <2>2, <1>2 DEF Prefer
      <3>2. ~Bare(env) /\ Stored # NoRecord
        BY <3>1 DEF Parts, SoundCopies, Sound, SoundIn, RecordKept
      <3>3. q.source = "catalog" /\ q.phase = "RUNNING"
        <4> DEFINE u == Running(h.remediation.recovery, source, r.attempt)
        <4>1. u \in Records /\ u.source = "catalog" /\ u.phase = "RUNNING"
          <5>1. h.remediation.recovery \in Sessions /\ r.attempt \in Nat /\ source \in Sources
            BY <2>2, <1>1, <1>4, <1>5 DEF Complete, Handles, Remediations, Records, TypeOK
          <5> QED
            BY <5>1, <1>1, RunningType
        <4>2. q = [u EXCEPT !.pr = TRUE, !.remediation = h.remediation]
          BY <3>1 DEF FromHandle
        <4> HIDE DEF u, q
        <4> QED
          BY <4>1, <4>2 DEF Records
      <3>4. Sound(q)
        BY <3>1, <3>3 DEF Sound, SoundIn, Bare
      <3> QED
        BY <2>1, <3>2, <3>3, <3>4, BaseTypes
    <2>3. CASE ~(h.pr /\ Complete(h.remediation) /\ r.id # h.remediation.recovery)
      <3>1. q = r
        BY <2>3 DEF Prefer
      <3> QED
        BY <2>1, <3>1, <1>5
    <2> QED
      BY <2>2, <2>3
  <1>7. m = Restore(q, h)
    BY DEF StartupRecord, r
  <1> HIDE DEF q, m
  <1>8. /\ m = NoRecord <=> q = NoRecord
        /\ m.phase = q.phase /\ m.id = q.id /\ m.source = q.source /\ m.attempt = q.attempt
    BY <1>1, <1>6, <1>7, RestoreType
  <1>9. /\ m.pr => q.pr \/ h.pr \/ product
        /\ product /\ m # NoRecord => m.pr
        /\ m.remediation # NoRemediation => q.remediation # NoRemediation \/ h.remediation # NoRemediation
        /\ m.remediation = NoRemediation => q.remediation = NoRemediation
    <2>1. CASE q = NoRecord
      BY <2>1, <1>7 DEF Restore
    <2>2. CASE q # NoRecord
      <3>1. Complete(h.remediation) => h.remediation # NoRemediation
        BY DEF Complete, NoRemediation
      <3> QED
        BY <2>2, <3>1, <1>6, <1>7 DEF Restore, Records
    <2> QED
      BY <2>1, <2>2
  <1>10. Sound(m)
    BY <1>2, <1>6, <1>8, <1>9 DEF Sound, SoundIn, Bare
  <1> QED
    BY <1>6, <1>8, <1>9, <1>10 DEF m

-----------------------------------------------------------------------------
(* How the cloud changes: a create adds one session, everything else keeps *)
(* the sessions and what they were created from.                           *)
LEMMA CloudKept ==
  ASSUME TypeOK, CloudStep \/ (ResumeByMessage /\ mem.id \in Created)
  PROVE  /\ Created' = Created /\ TaskSessions' = TaskSessions
         /\ \A s \in Created : cloud'[s].intent = cloud[s].intent /\ cloud'[s].branch = cloud[s].branch
         /\ CloudStep => \A s \in Created : Terminal(cloud[s].state) => cloud'[s].state = cloud[s].state
PROOF
  <1>1. CloudType /\ CloudType' /\ Created \subseteq Sessions
    <2>1. CloudType /\ Created \subseteq Sessions
      BY DEF TypeOK, CloudType, Created
    <2>2. CASE CloudStep
      BY <2>1, <2>2 DEF CloudStep, CloudType, CloudStates
    <2>3. CASE ResumeByMessage /\ mem.id \in Created
      <3>1. \E next \in {cloud[mem.id].state, "live"} : cloud' = [cloud EXCEPT ![mem.id].state = next]
        BY <2>3 DEF ResumeByMessage
      <3> QED
        BY <2>1, <2>3, <3>1 DEF CloudType, CloudStates
    <2> QED
      BY <2>1, <2>2, <2>3
  <1>2. \E s \in Created :
          /\ \A t \in Sessions \ {s} : cloud'[t] = cloud[t]
          /\ cloud'[s].state # "absent" /\ cloud'[s].intent = cloud[s].intent /\ cloud'[s].branch = cloud[s].branch
          /\ CloudStep => ~Terminal(cloud[s].state)
    <2>1. CASE CloudStep
      <3>1. PICK s \in Created :
              \/ /\ cloud[s].state = "live"
                 /\ \E next \in {"failed", "completed"}, pr \in BOOLEAN :
                      cloud' = [cloud EXCEPT ![s].state = next, ![s].pr = pr \/ cloud[s].pr]
              \/ cloud[s].state = "live" /\ cloud' = [cloud EXCEPT ![s].state = "paused"]
              \/ cloud[s].state = "paused" /\ cloud' = [cloud EXCEPT ![s].state = "live"]
        BY <2>1 DEF CloudStep
      <3>2. ~Terminal(cloud[s].state) /\ s \in Sessions
        BY <3>1, <1>1 DEF Terminal
      <3>3. /\ \A t \in Sessions \ {s} : cloud'[t] = cloud[t]
            /\ cloud'[s].state # "absent" /\ cloud'[s].intent = cloud[s].intent /\ cloud'[s].branch = cloud[s].branch
        BY <3>1, <3>2, <1>1 DEF CloudType
      <3> QED
        BY <3>1, <3>2, <3>3
    <2>2. CASE ~CloudStep
      <3>1. /\ mem.id \in Created
            /\ \E next \in {cloud[mem.id].state, "live"} : cloud' = [cloud EXCEPT ![mem.id].state = next]
        BY <2>2 DEF ResumeByMessage
      <3>2. cloud[mem.id].state # "absent" /\ mem.id \in Sessions
        BY <3>1, <1>1 DEF Created
      <3>3. /\ \A t \in Sessions \ {mem.id} : cloud'[t] = cloud[t]
            /\ cloud'[mem.id].state # "absent" /\ cloud'[mem.id].intent = cloud[mem.id].intent
            /\ cloud'[mem.id].branch = cloud[mem.id].branch
        BY <3>1, <3>2, <1>1 DEF CloudType
      <3> QED
        BY <2>2, <3>1, <3>3
    <2> QED
      BY <2>1, <2>2
  <1>3. PICK s \in Created :
          /\ \A t \in Sessions \ {s} : cloud'[t] = cloud[t]
          /\ cloud'[s].state # "absent" /\ cloud'[s].intent = cloud[s].intent /\ cloud'[s].branch = cloud[s].branch
          /\ CloudStep => ~Terminal(cloud[s].state)
    BY <1>2
  <1>4. Created' = Created
    BY <1>1, <1>3 DEF Created
  <1>5. TaskSessions' = TaskSessions
    BY <1>1, <1>3, <1>4 DEF TaskSessions
  <1> QED
    BY <1>1, <1>3, <1>4, <1>5

LEMMA CreatedKept ==
  ASSUME TypeOK, Contiguous, CreateInCloud
  PROVE  /\ NextSession \in Sessions /\ NextSession \notin Created /\ Created' = Created \cup {NextSession}
         /\ \A s \in Created : cloud'[s] = cloud[s]
         /\ cloud'[NextSession].intent = mem.intent /\ (cloud'[NextSession].branch <=> remediation # NoRemediation)
         /\ TaskSessions' = IF remediation = NoRemediation THEN TaskSessions \cup {NextSession} ELSE TaskSessions
         /\ Contiguous'
PROOF
  <1>1. CloudType /\ Created \subseteq Sessions
    BY DEF TypeOK, CloudType, Created
  <1>2. PICK n \in Nat : Created = 1 .. n
    BY DEF Contiguous
  <1>3. NextSession = n + 1
    <2>1. Cardinality(1 .. n) = n
      BY FS_Interval
    <2> QED
      BY <1>2, <2>1 DEF NextSession
  <1>4. NextSession \in Sessions /\ NextSession \notin Created
    BY <1>2, <1>3 DEF CreateInCloud
  <1> DEFINE k == NextSession
  <1>5. cloud' = [cloud EXCEPT ![k] =
       [state |-> "live", intent |-> mem.intent, pr |-> FALSE, branch |-> remediation # NoRemediation]]
    BY DEF CreateInCloud
  <1> HIDE DEF k
  <1>6. /\ \A s \in Sessions \ {k} : cloud'[s] = cloud[s]
        /\ cloud'[k].state = "live" /\ cloud'[k].intent = mem.intent /\ (cloud'[k].branch <=> remediation # NoRemediation)
    BY <1>1, <1>4, <1>5 DEF CloudType, k
  <1>7. Created' = Created \cup {k}
    BY <1>1, <1>4, <1>6 DEF Created, k
  <1>8. TaskSessions' = IF remediation = NoRemediation THEN TaskSessions \cup {k} ELSE TaskSessions
    BY <1>1, <1>4, <1>6, <1>7 DEF TaskSessions, k
  <1>9. Created' = 1 .. n + 1
    BY <1>2, <1>3, <1>7 DEF k
  <1> QED
    BY <1>1, <1>4, <1>6, <1>7, <1>8, <1>9 DEF Contiguous, k

-----------------------------------------------------------------------------
(* With the name of the catalog in every run there is one source: no       *)
(* create answers that the repository is unknown.                          *)
LEMMA NextOneSource ==
  ASSUME "lookup" \notin Faults, TypeOK, Shape, Parts, [Next]_vars
  PROVE  OneSource'
PROOF
  <1> USE NewFields DEF OneSource
  <1>0. OneSource
    BY DEF Parts
  <1>1. /\ mem \in Records /\ disk \in [Sources -> Records] /\ PreparedCreate \in Records
        /\ "configured" \in Sources /\ "catalog" \in Sources
        /\ PreparedCreate.source = "catalog"
    BY <1>0 DEF TypeOK, PreparedCreate, Sources
  <1>2. ASSUME NEW asFresh \in BOOLEAN, Wake(asFresh) PROVE OneSource'
    BY <1>0, <1>2 DEF Wake, Fault
  <1>3. CASE HoldCreate
    BY <1>0, <1>3, <1>1 DEF HoldCreate, EndWith
  <1>4. CASE Reattach
    BY <1>0, <1>4, <1>1 DEF Reattach, EndWith
  <1>5. CASE StartFresh \/ Release
    BY <1>0, <1>5, <1>1 DEF StartFresh, Release, EndWith
  <1>6. CASE Startup
    <2>1. PICK h \in {handle, NoHandle} : mem' = StartupRecord(h)
      BY <1>0, <1>6 DEF Startup, StartupRecord
    <2>2. StartupRecord(h).source = "catalog"
      BY <1>0, <1>6, <2>1, StartupSound DEF Startup
    <2>3. UNCHANGED <<env, disk, source>>
      BY <1>0, <1>6 DEF Startup
    <2> QED
      BY <1>0, <2>1, <2>2, <2>3
  <1>7. CASE Prepare
    <2> DEFINE r == PreparedRecord(intents + 1, Attempt)
    <2>1. r.source = source
      BY DEF r
    <2>2. /\ UNCHANGED source
          /\ \/ disk' = [disk EXCEPT ![source] = r] /\ mem' = r /\ UNCHANGED env
             \/ env' = r /\ mem' = NoRecord /\ UNCHANGED disk
      BY <1>0, <1>7 DEF Prepare, EndWith
    <2> HIDE DEF r
    <2> QED
      BY <1>0, <1>1, <2>1, <2>2
  <1>8. CASE PostCreated
    <2>1. NextSession \in Sessions
      BY <1>0, <1>8, CreateInCloudType DEF PostCreated
    <2>2. mem' = CreatedRecord(NextSession) /\ UNCHANGED <<env, disk, source>>
      BY <1>0, <1>8 DEF PostCreated
    <2> QED
      BY <1>0, <2>1, <2>2, CreatedFields
  <1>9. CASE PostNotFound
    BY <1>0, <1>9 DEF PostNotFound, Known
  <1>10. CASE PersistRecord
    BY <1>0, <1>10, <1>1 DEF PersistRecord
  <1>11. CASE PostUnanswered \/ Return \/ PollNoPullRequest
    BY <1>0, <1>11 DEF PostUnanswered, Return, PollNoPullRequest, EndWith
  <1>12. CASE ContinueLive \/ ResumeByMessage \/ PollLive
    <2>1. mem' \in {[mem EXCEPT !.phase = "RUNNING"], [mem EXCEPT !.pr = FALSE, !.phase = "RUNNING"]}
      BY <1>12 DEF ContinueLive, ResumeByMessage, PollLive
    <2>2. mem'.source = mem.source
      BY <1>1, <2>1 DEF Records
    <2>3. UNCHANGED <<env, disk, source>>
      BY <1>12 DEF ContinueLive, ResumeByMessage, PollLive
    <2> QED
      BY <1>0, <2>2, <2>3
  <1>13. CASE PollFailed \/ PollPullRequest
    <2> DEFINE failed == [mem EXCEPT !.phase = "RETRY_SCHEDULED"]
               retry == [mem EXCEPT !.pr = TRUE, !.phase = "RETRY_SCHEDULED",
                                    !.remediation = [original |-> mem.id, recovery |-> NoSession]]
               run == [mem EXCEPT !.pr = TRUE, !.phase = "RUNNING"]
    <2>1. \/ env' \in {mem, failed} /\ mem' = NoRecord /\ UNCHANGED <<disk, source>>
          \/ mem' \in {retry, run} /\ UNCHANGED <<env, disk, source>>
      BY <1>13 DEF PollFailed, PollPullRequest, EndWith
    <2>2. failed.source = mem.source /\ retry.source = mem.source /\ run.source = mem.source
      BY <1>1 DEF Records
    <2> HIDE DEF failed, retry, run
    <2> QED
      BY <1>0, <2>1, <2>2
  <1>14. CASE \/ ObserveNoCreate \/ Owned \/ PersistHandle \/ CloudStep \/ Crash \/ LoseEnvelope \/ UNCHANGED vars
    BY <1>0, <1>14 DEF ObserveNoCreate, Owned, PersistHandle, CloudStep, Crash, LoseEnvelope, vars
  <1> QED
    BY <1>0, <1>2, <1>3, <1>4, <1>5, <1>6, <1>7, <1>8, <1>9, <1>10, <1>11, <1>12, <1>13, <1>14 DEF Next, Run

(* Every step but a release and a fresh wake keeps the parts.              *)
LEMMA NextParts ==
  ASSUME "lookup" \notin Faults, ResumeAttempts >= 2,
         TypeOK, Shape, Parts, TypeOK', Shape', drops = 0, drops' = 0, [Next]_vars
  PROVE  Parts'
PROOF
  <1> USE NewFields, BaseTypes
  <1>source. OneSource'
    BY NextOneSource
  <1>0. /\ AtStep /\ AtStep' /\ ShapeOf(mem) /\ ShapeOf(env) /\ ShapeOf(Stored) /\ Stored \in Records
        /\ env \in Records /\ mem \in Records
    BY DEF Shape, TypeOK, Stored, Sources
  <1>wake. ASSUME NEW asFresh \in BOOLEAN, Wake(asFresh) PROVE Parts'
    <2>1. /\ pc = "idle" /\ pc' = "observe" /\ freshRun' = asFresh /\ ~asFresh
          /\ UNCHANGED <<cloud, env, disk, handle, mem, remediation, product>>
      BY <1>wake DEF Wake
    <2>2. Created' = Created /\ TaskSessions' = TaskSessions /\ cloud' = cloud
      BY <1>wake DEF Wake, Created, TaskSessions
    <2> QED
      BY <1>source, <1>0, <2>1, <2>2 DEF Parts, SoundCopies, Sound, SoundIn, PrCarried, BareRetry, Bare, RecordKept, CreateIsFirst, OneTask, TaskInHand, Contiguous, RecordAnswered, Stored, Prepared
  <1>1. CASE ObserveNoCreate
    <2>1. /\ pc = "observe" /\ pc' = "startup"
          /\ UNCHANGED <<env, disk, handle, mem, remediation, product, freshRun>>
      BY <1>1 DEF ObserveNoCreate
    <2>2. Created' = Created /\ TaskSessions' = TaskSessions /\ cloud' = cloud
      BY <1>1 DEF ObserveNoCreate, Created, TaskSessions
    <2>3. ~Prepared(Stored)
      BY <1>1 DEF ObserveNoCreate, PreparedCreate, Parts, OneSource, Stored
    <2> QED
      BY <1>source, <1>0, <2>1, <2>2, <2>3 DEF Parts, SoundCopies, Sound, SoundIn, PrCarried, BareRetry, Bare, RecordKept, CreateIsFirst, OneTask, TaskInHand, Contiguous, RecordAnswered, Stored, Prepared, AtStep
  <1>2. CASE HoldCreate
    <2>1. /\ pc = "observe" /\ pc' = "idle" /\ env' = PreparedCreate /\ Prepared(PreparedCreate)
          /\ mem' = NoRecord /\ remediation' = NoRemediation /\ PreparedCreate \in {env, Stored}
          /\ UNCHANGED <<disk, handle, product, freshRun>>
      BY <1>2 DEF HoldCreate, EndWith, PreparedCreate, Parts, OneSource, Stored
    <2>2. Created' = Created /\ TaskSessions' = TaskSessions /\ cloud' = cloud
      BY <1>2 DEF HoldCreate, Created, TaskSessions
    <2> QED
      BY <1>source, <1>0, <2>1, <2>2 DEF Parts, SoundCopies, Sound, SoundIn, PrCarried, BareRetry, Bare, RecordKept, CreateIsFirst, OneTask, TaskInHand, Contiguous, RecordAnswered, Stored, Prepared
  <1>3. CASE Reattach
    <2> DEFINE create == PreparedCreate
    <2>1. /\ create \in Records /\ create \in {env, Stored} /\ create.source = "catalog" /\ Prepared(create)
          /\ pc = "observe" /\ ~freshRun /\ mem = NoRecord
          /\ UNCHANGED <<handle, product, freshRun, cloud>>
      BY <1>3, <1>0 DEF Reattach, PreparedCreate, Parts, OneSource, Stored, AtStep
    <2>2. PICK s \in Matches(create.intent) :
            \/ /\ disk' = [disk EXCEPT !["catalog"] = Running(s, "catalog", create.attempt)]
               /\ mem' = Running(s, "catalog", create.attempt) /\ pc' = "startup" /\ UNCHANGED <<env, remediation>>
            \/ pc' = "idle" /\ UNCHANGED <<env, disk, mem, remediation>>
      BY <1>3, <2>1 DEF Reattach
    <2> DEFINE r == Running(s, "catalog", create.attempt)
    <2>3. s \in Created /\ s # NoSession /\ disk \in [Sources -> Records] /\ "catalog" \in Sources
      BY DEF Matches, Created, Sessions, NoSession, TypeOK, Sources
    <2>4. r.id = s /\ r.phase = "RUNNING" /\ r.attempt = create.attempt /\ ~r.pr /\ r.remediation = NoRemediation
          /\ r # NoRecord
      BY <2>3 DEF Parts
    <2> HIDE DEF create, r
    <2>5. Created' = Created /\ TaskSessions' = TaskSessions /\ cloud' = cloud
      BY <2>1 DEF Created, TaskSessions
    <2>6. ~product => s \in TaskSessions
      BY <2>3 DEF Parts, SoundCopies, TaskSessions
    <2> QED
      BY <1>source, <1>0, <2>1, <2>2, <2>3, <2>4, <2>5, <2>6 DEF r, Parts, SoundCopies, Sound, SoundIn, PrCarried, BareRetry, Bare, RecordKept, CreateIsFirst, OneTask, TaskInHand, Contiguous, RecordAnswered, Stored, Prepared
  <1>4. CASE StartFresh \/ Release
    BY <1>4 DEF StartFresh, Release, Parts
  <1>5. CASE Startup
    <2>1. PICK h \in {handle, NoHandle} : mem' = StartupRecord(h)
      BY <1>5 DEF Startup, StartupRecord
    <2>2. /\ pc = "startup" /\ pc' = (IF mem' = NoRecord THEN "recover" ELSE "owned")
          /\ UNCHANGED <<env, disk, handle, remediation, product, freshRun>>
      BY <1>5 DEF Startup
    <2>3. /\ Sound(mem')
          /\ mem' = NoRecord <=> Stored = NoRecord
          /\ product /\ mem' # NoRecord => mem'.pr
          /\ Bare(env) => mem'.phase = "RETRY_SCHEDULED"
      BY <2>1, <2>2, StartupSound
    <2>4. Created' = Created /\ TaskSessions' = TaskSessions /\ cloud' = cloud
      BY <1>5 DEF Startup, Created, TaskSessions
    <2> QED
      BY <1>source, <1>0, <2>2, <2>3, <2>4 DEF Parts, SoundCopies, Sound, SoundIn, PrCarried, BareRetry, Bare, RecordKept, CreateIsFirst, OneTask, TaskInHand, Contiguous, RecordAnswered, Stored, Prepared
  <1>6. CASE Owned
    <2>1. /\ pc = "owned" /\ pc' = (IF mem.phase = "RETRY_SCHEDULED" THEN "recover" ELSE "poll")
          /\ UNCHANGED <<env, disk, handle, mem, remediation, product, freshRun>>
      BY <1>6 DEF Owned
    <2>2. Created' = Created /\ TaskSessions' = TaskSessions /\ cloud' = cloud
      BY <1>6 DEF Owned, Created, TaskSessions
    <2> QED
      BY <1>source, <1>0, <2>1, <2>2 DEF Parts, SoundCopies, Sound, SoundIn, PrCarried, BareRetry, Bare, RecordKept, CreateIsFirst, OneTask, TaskInHand, Contiguous, RecordAnswered, Stored, Prepared, AtStep
  <1>7. CASE ContinueLive
    <2> DEFINE r == [mem EXCEPT !.phase = "RUNNING"]
    <2>1. /\ pc = "recover" /\ mem.phase = "RETRY_SCHEDULED" /\ mem # NoRecord /\ pc' = "persist" /\ mem' = r
          /\ UNCHANGED <<env, disk, handle, remediation, product, freshRun>>
      BY <1>7 DEF ContinueLive, IsRetry
    <2>2. r \in Records /\ r.id = mem.id /\ r.phase = "RUNNING" /\ r.attempt = mem.attempt
          /\ r.pr = mem.pr /\ r.remediation = mem.remediation /\ r # NoRecord
      BY <1>0 DEF Records, Phases
    <2> HIDE DEF r
    <2>3. Created' = Created /\ TaskSessions' = TaskSessions /\ cloud' = cloud
      BY <1>7 DEF ContinueLive, Created, TaskSessions
    <2> QED
      BY <1>source, <1>0, <2>1, <2>2, <2>3 DEF Parts, SoundCopies, Sound, SoundIn, PrCarried, BareRetry, Bare, RecordKept, CreateIsFirst, OneTask, TaskInHand, Contiguous, RecordAnswered, Stored, Prepared
  <1>8. CASE ResumeByMessage
    <2> DEFINE r == [mem EXCEPT !.phase = "RUNNING"]
    <2>1. /\ pc = "recover" /\ mem.phase = "RETRY_SCHEDULED" /\ mem # NoRecord /\ ~mem.pr /\ mem.id # NoSession
          /\ pc' = "persist" /\ mem' = r
          /\ UNCHANGED <<env, disk, handle, remediation, product, freshRun>>
      BY <1>8 DEF ResumeByMessage, IsRetry
    <2>2. r \in Records /\ r.id = mem.id /\ r.phase = "RUNNING" /\ r.attempt = mem.attempt
          /\ r.pr = mem.pr /\ r.remediation = mem.remediation /\ r # NoRecord
      BY <1>0 DEF Records, Phases
    <2> HIDE DEF r
    <2>3. ~product
      BY <2>1 DEF Parts, PrCarried
    <2>4. mem.id \in Created
      BY <2>1, <2>3 DEF Parts, SoundCopies, Sound, SoundIn, TaskSessions
    <2>5. /\ Created' = Created /\ TaskSessions' = TaskSessions
          /\ \A s \in Created : cloud'[s].intent = cloud[s].intent /\ cloud'[s].branch = cloud[s].branch
      BY <1>8, <2>4, CloudKept
    <2>6. TaskSessions \subseteq Created
      BY DEF TaskSessions
    <2> QED
      BY <1>source, <1>0, <2>1, <2>2, <2>3, <2>5, <2>6 DEF Parts, SoundCopies, Sound, SoundIn, PrCarried, BareRetry, Bare, RecordKept, CreateIsFirst, OneTask, TaskInHand, Contiguous, RecordAnswered, Stored, Prepared
  <1>9. CASE Prepare
    <2> DEFINE r == PreparedRecord(intents + 1, Attempt)
               kept == IF IsRetry THEN mem.remediation ELSE NoRemediation
    <2>1. /\ pc = "recover" /\ NeedsCreate /\ UNCHANGED <<handle, product, freshRun>>
          /\ \/ /\ disk' = [disk EXCEPT !["catalog"] = r] /\ mem' = r /\ pc' = "post"
                /\ remediation' = kept /\ UNCHANGED env
             \/ /\ env' = r /\ mem' = NoRecord /\ pc' = "idle" /\ remediation' = NoRemediation
                /\ UNCHANGED disk
      BY <1>9 DEF Prepare, EndWith, Parts, OneSource
    <2>2. r.id = NoSession /\ r.phase = "STARTING" /\ ~r.pr /\ r.remediation = NoRemediation /\ r.attempt = Attempt
          /\ r # NoRecord
      OBVIOUS
    <2>3. ~Bare(mem)
      <3>1. SUFFICES ASSUME Bare(mem) PROVE FALSE
        OBVIOUS
      <3>2. ~product /\ mem.attempt = 1 /\ ~mem.pr /\ mem.id # NoSession /\ IsRetry
        BY <3>1, <1>0 DEF Parts, SoundCopies, Sound, SoundIn, Bare, ShapeOf, IsRetry
      <3>3. Attempt <= ResumeAttempts
        BY <3>2, BoundsAssumption DEF Attempt
      <3>4. Attempt \in Nat
        BY <3>2 DEF Attempt
      <3> QED
        BY <2>1, <3>2, <3>3, <3>4, BoundsAssumption DEF NeedsCreate
    <2>4. /\ kept = NoRemediation => mem = NoRecord
          /\ kept # NoRemediation => product
      BY <2>1, <2>3, <1>0 DEF AtStep, Bare, IsRetry, Parts, SoundCopies, Sound, SoundIn
    <2>5. ~product => r.attempt = 1
      <3>1. ~product => ~IsRetry
        BY <2>3, <1>0 DEF Bare, IsRetry, Parts, SoundCopies, Sound, SoundIn
      <3> QED
        BY <2>2, <3>1 DEF Attempt
    <2>6. mem = NoRecord => TaskSessions = {} /\ ~product
      BY <2>1 DEF Parts, CreateIsFirst, RecordKept
    <2>7. product \/ mem = NoRecord
      BY <2>4
    <2> HIDE DEF r, kept
    <2>8. Created' = Created /\ TaskSessions' = TaskSessions /\ cloud' = cloud
      BY <1>9 DEF Prepare, Created, TaskSessions
    <2>9. disk \in [Sources -> Records] /\ "catalog" \in Sources
      BY DEF TypeOK, Sources
    <2> QED
      BY <1>source, <1>0, <2>1, <2>2, <2>3, <2>4, <2>5, <2>6, <2>7, <2>8, <2>9 DEF Parts, SoundCopies, Sound, SoundIn, PrCarried, BareRetry, Bare, RecordKept, CreateIsFirst, OneTask, TaskInHand, Contiguous, RecordAnswered, Stored, Prepared
  <1>10. CASE PostCreated
    <2>1. /\ pc = "post" /\ CreateInCloud /\ mem' = CreatedRecord(NextSession) /\ pc' = "persist"
          /\ UNCHANGED <<env, disk, handle, remediation, product, freshRun>>
      BY <1>10 DEF PostCreated
    <2> DEFINE n == NextSession
    <2>2. /\ n \in Sessions /\ n \notin Created /\ Created' = Created \cup {n}
          /\ \A s \in Created : cloud'[s] = cloud[s]
          /\ cloud'[n].intent = mem.intent /\ (cloud'[n].branch <=> remediation # NoRemediation)
          /\ TaskSessions' = IF remediation = NoRemediation THEN TaskSessions \cup {n} ELSE TaskSessions
          /\ Contiguous'
      BY <2>1, CreatedKept DEF Parts
    <2>3. /\ mem'.id = n /\ mem'.phase = "RUNNING" /\ mem'.attempt = mem.attempt
          /\ mem'.pr \/ mem'.remediation # NoRemediation => remediation # NoRemediation
      BY <2>1, <2>2, CreatedFields
    <2> HIDE DEF n
    <2>4. TaskSessions \subseteq Created
      BY DEF TaskSessions
    <2>5. /\ Stored = mem /\ Stored' = Stored /\ mem.phase = "STARTING" /\ (remediation = NoRemediation => TaskSessions = {} /\ ~product)
          /\ remediation # NoRemediation => product
      BY <2>1, <1>0 DEF Parts, CreateIsFirst, Stored, AtStep, SoundCopies
    <2>6. SoundCopies'
      BY <2>1, <2>2, <2>3, <2>5 DEF Parts, SoundCopies, Sound, SoundIn, Bare
    <2>7. TaskInHand'
      BY <2>1, <2>2, <2>4, <2>5 DEF Parts, TaskInHand
    <2>8. OneTask'
      BY <2>2, <2>5 DEF Parts, OneTask
    <2>9. PrCarried' /\ BareRetry' /\ RecordAnswered' /\ RecordKept' /\ CreateIsFirst' /\ ~freshRun'
      BY <2>1, <2>3, <2>5 DEF Parts, PrCarried, BareRetry, Bare, RecordAnswered, RecordKept, CreateIsFirst, Prepared
    <2> QED
      BY <1>source, <2>2, <2>6, <2>7, <2>8, <2>9 DEF Parts
  <1>11. CASE PostUnanswered
    <2>1. /\ pc = "post" /\ env' = mem /\ mem' = NoRecord /\ remediation' = NoRemediation /\ pc' = "idle"
          /\ UNCHANGED <<disk, handle, product, freshRun>>
          /\ CreateInCloud \/ UNCHANGED cloud
      BY <1>11 DEF PostUnanswered, EndWith
    <2>5. /\ Stored = mem /\ Stored' = Stored /\ mem.phase = "STARTING"
          /\ (remediation = NoRemediation => TaskSessions = {} /\ ~product)
          /\ remediation # NoRemediation => product
      BY <2>1, <1>0 DEF Parts, CreateIsFirst, Stored, AtStep, SoundCopies
    <2>4. TaskSessions \subseteq Created
      BY DEF TaskSessions
    <2>9. PrCarried' /\ BareRetry' /\ RecordAnswered' /\ RecordKept' /\ CreateIsFirst' /\ ~freshRun'
      BY <2>1, <2>5 DEF Parts, PrCarried, BareRetry, Bare, RecordAnswered, RecordKept, CreateIsFirst, Prepared
    <2>2. CASE CreateInCloud
      <3> DEFINE n == NextSession
      <3>1. /\ n \in Sessions /\ n \notin Created /\ Created' = Created \cup {n}
            /\ \A s \in Created : cloud'[s] = cloud[s]
            /\ cloud'[n].intent = mem.intent /\ (cloud'[n].branch <=> remediation # NoRemediation)
            /\ TaskSessions' = IF remediation = NoRemediation THEN TaskSessions \cup {n} ELSE TaskSessions
            /\ Contiguous'
        BY <2>2, CreatedKept DEF Parts
      <3> HIDE DEF n
      <3>2. SoundCopies'
        BY <2>1, <2>5, <3>1 DEF Parts, SoundCopies, Sound, SoundIn, Bare
      <3>3. TaskInHand'
        BY <2>1, <2>4, <2>5, <3>1 DEF Parts, TaskInHand
      <3>4. OneTask'
        BY <2>5, <3>1 DEF Parts, OneTask
      <3> QED
        BY <1>source, <2>9, <3>1, <3>2, <3>3, <3>4 DEF Parts
    <2>3. CASE UNCHANGED cloud
      <3>1. Created' = Created /\ TaskSessions' = TaskSessions /\ cloud' = cloud
        BY <2>3 DEF Created, TaskSessions
      <3> QED
        BY <1>source, <2>1, <2>5, <2>9, <3>1 DEF Parts, SoundCopies, Sound, SoundIn, Bare, OneTask, TaskInHand, Contiguous
    <2> QED
      BY <2>1, <2>2, <2>3
  <1>12. CASE PostNotFound
    BY <1>12 DEF PostNotFound, Known, Parts, OneSource
  <1>13. CASE PersistRecord
    <2>1. /\ pc = "persist" /\ pc' = "handle"
          /\ disk' = [disk EXCEPT ![mem.source] = mem] \/ disk' = disk
          /\ UNCHANGED <<env, handle, mem, remediation, product, freshRun>>
      BY <1>13 DEF PersistRecord
    <2>2. Created' = Created /\ TaskSessions' = TaskSessions /\ cloud' = cloud
      BY <1>13 DEF PersistRecord, Created, TaskSessions
    <2>3. Stored' \in {Stored, mem} /\ mem.phase \in Held
      <3>1. disk \in [Sources -> Records] /\ "catalog" \in Sources /\ mem.source = "catalog"
        BY DEF TypeOK, Sources, Parts, OneSource
      <3> QED
        BY <1>0, <2>1, <3>1 DEF Stored, AtStep
    <2>4. mem # NoRecord /\ ~Bare(mem) /\ ~Prepared(mem)
      BY <2>1, <2>3 DEF Parts, BareRetry, Held, Prepared
    <2>5. mem.id # NoSession
      BY <1>0, <2>3 DEF ShapeOf, Held
    <2>6. TaskInHand'
      BY <2>1, <2>2, <2>3, <2>5 DEF Parts, SoundCopies, Sound, SoundIn, OneTask, TaskInHand
    <2>7. SoundCopies'
      BY <2>1, <2>2, <2>3 DEF Parts, SoundCopies, Sound, SoundIn
    <2> QED
      BY <1>source, <2>1, <2>2, <2>3, <2>4, <2>6, <2>7
      DEF Parts, PrCarried, BareRetry, Bare, RecordAnswered, RecordKept, CreateIsFirst, OneTask, Contiguous, Prepared
  <1>14. CASE PersistHandle
    <2>1. /\ pc = "handle" /\ pc' = "return" /\ handle' \in {handle, UpsertHandle(mem)}
          /\ UNCHANGED <<env, disk, mem, remediation, product, freshRun>>
      BY <1>14 DEF PersistHandle
    <2>2. Created' = Created /\ TaskSessions' = TaskSessions /\ cloud' = cloud
      BY <1>14 DEF PersistHandle, Created, TaskSessions
    <2>3. /\ handle'.pr => handle.pr \/ mem.pr
          /\ handle'.remediation \in {handle.remediation, mem.remediation}
          /\ handle'.id \in {handle.id, mem.id, handle.remediation.recovery}
          /\ handle.remediation = NoRemediation => handle'.id \in {handle.id, mem.id}
      <3> DEFINE u == UpsertHandle(mem)
      <3>1. u.pr = (mem.pr \/ handle.pr)
        BY DEF UpsertHandle
      <3>2. u.remediation \in {handle.remediation, mem.remediation}
        BY DEF UpsertHandle
      <3>3. /\ u.id \in {mem.id, handle.remediation.recovery}
            /\ handle.remediation = NoRemediation => u.id = mem.id
        BY DEF UpsertHandle, NoRemediation
      <3> HIDE DEF u
      <3> QED
        BY <2>1, <3>1, <3>2, <3>3 DEF u
    <2>4. mem # NoRecord
      BY <2>1, <1>0 DEF AtStep, Held
    <2> QED
      BY <1>source, <1>0, <2>1, <2>2, <2>3, <2>4 DEF Parts, SoundCopies, Sound, SoundIn, PrCarried, BareRetry, Bare, RecordKept, CreateIsFirst, OneTask, TaskInHand, Contiguous, RecordAnswered, Stored, Prepared
  <1>15. CASE Return
    <2>1. /\ pc = "return" /\ pc' = "idle" /\ env' = mem /\ mem' = NoRecord /\ remediation' = NoRemediation
          /\ UNCHANGED <<disk, handle, product, freshRun>>
      BY <1>15 DEF Return, EndWith
    <2>2. Created' = Created /\ TaskSessions' = TaskSessions /\ cloud' = cloud
      BY <1>15 DEF Return, EndWith, Created, TaskSessions
    <2> QED
      BY <1>source, <1>0, <2>1, <2>2 DEF Parts, SoundCopies, Sound, SoundIn, PrCarried, BareRetry, Bare, RecordKept, CreateIsFirst, OneTask, TaskInHand, Contiguous, RecordAnswered, Stored, Prepared, AtStep
  <1>16. CASE PollLive
    <2> DEFINE r == [mem EXCEPT !.pr = FALSE, !.phase = "RUNNING"]
    <2>1. /\ pc = "poll" /\ mem.phase = "RUNNING" /\ pc' = "persist" /\ mem' = r
          /\ UNCHANGED <<env, disk, handle, remediation, product, freshRun>>
      BY <1>16, <1>0 DEF PollLive, AtStep
    <2>2. r \in Records /\ r.id = mem.id /\ r.phase = "RUNNING" /\ r.attempt = mem.attempt
          /\ r.pr = FALSE /\ r.remediation = mem.remediation /\ r # NoRecord
      BY <1>0 DEF Records, Phases
    <2> HIDE DEF r
    <2>3. Created' = Created /\ TaskSessions' = TaskSessions /\ cloud' = cloud
      BY <1>16 DEF PollLive, Created, TaskSessions
    <2> QED
      BY <1>source, <1>0, <2>1, <2>2, <2>3 DEF Parts, SoundCopies, Sound, SoundIn, PrCarried, BareRetry, Bare, RecordKept, CreateIsFirst, OneTask, TaskInHand, Contiguous, RecordAnswered, Stored, Prepared
  <1>17. CASE PollFailed
    <2> DEFINE r == [mem EXCEPT !.phase = "RETRY_SCHEDULED"]
    <2>1. /\ pc = "poll" /\ ~mem.pr /\ mem.phase = "RUNNING" /\ env' \in {r, mem} /\ mem' = NoRecord /\ pc' = "idle"
          /\ remediation' = NoRemediation
          /\ UNCHANGED <<disk, handle, product, freshRun>>
      BY <1>17, <1>0 DEF PollFailed, EndWith, HasPr, AtStep
    <2>2. r.id = mem.id /\ r.phase = "RETRY_SCHEDULED" /\ r.attempt = mem.attempt
          /\ ~r.pr /\ r.remediation = mem.remediation
      BY <1>0, <2>1 DEF Records
    <2> HIDE DEF r
    <2>3. Created' = Created /\ TaskSessions' = TaskSessions /\ cloud' = cloud
      BY <1>17 DEF PollFailed, Created, TaskSessions
    <2>4. ~product /\ mem # NoRecord
      BY <2>1 DEF Parts, PrCarried
    <2>5. ~Prepared(Stored)
      BY <2>1 DEF Parts, RecordAnswered
    <2> QED
      BY <1>source, <1>0, <2>1, <2>2, <2>3, <2>4, <2>5 DEF Parts, SoundCopies, Sound, SoundIn, PrCarried, BareRetry, Bare, RecordKept, CreateIsFirst, OneTask, TaskInHand, Contiguous, RecordAnswered, Stored, Prepared
  <1>18. CASE PollPullRequest
    <2> DEFINE m == [original |-> mem.id, recovery |-> NoSession]
               retry == [mem EXCEPT !.pr = TRUE, !.phase = "RETRY_SCHEDULED", !.remediation = m]
               run == [mem EXCEPT !.pr = TRUE, !.phase = "RUNNING"]
    <2>1. /\ pc = "poll" /\ mem.phase = "RUNNING" /\ mem.id # NoSession /\ mem' \in {retry, run} /\ product' = TRUE
          /\ pc' = "persist" /\ Terminal(cloud[mem.id].state)
          /\ UNCHANGED <<env, disk, handle, remediation, freshRun>>
      BY <1>18, <1>0 DEF PollPullRequest, AtStep, ShapeOf
    <2>2. m # NoRemediation
      BY <2>1 DEF NoRemediation
    <2>3. /\ retry.phase = "RETRY_SCHEDULED" /\ retry.remediation = m /\ run.phase = "RUNNING"
          /\ retry # NoRecord /\ run # NoRecord
      BY <1>0 DEF Records
    <2> HIDE DEF m, retry, run
    <2>4. Created' = Created /\ TaskSessions' = TaskSessions /\ cloud' = cloud
      BY <1>18 DEF PollPullRequest, Created, TaskSessions
    <2>5. \A s \in TaskSessions : Terminal(cloud[s].state)
      <3>1. CASE product
        BY <3>1 DEF Parts, TaskInHand
      <3>2. CASE ~product
        <4>1. mem.id \in TaskSessions
          BY <2>1, <3>2 DEF Parts, SoundCopies, Sound, SoundIn
        <4> QED
          BY <2>1, <4>1 DEF Parts, OneTask
      <3> QED
        BY <3>1, <3>2
    <2>6. ~Bare(env) /\ ~Bare(Stored) /\ ~Bare(mem) /\ ~Bare(mem') /\ mem' # NoRecord
      BY <2>1, <2>2, <2>3 DEF Parts, BareRetry, Bare
    <2>7. SoundCopies'
      BY <2>1, <2>4, <2>6 DEF Parts, SoundCopies, Sound, SoundIn, Bare, Stored
    <2>8. TaskInHand'
      BY <2>1, <2>4, <2>5 DEF TaskInHand
    <2>9. mem # NoRecord /\ Stored # NoRecord
      BY <2>1 DEF Parts, RecordKept
    <2> QED
      BY <1>source, <2>1, <2>4, <2>6, <2>7, <2>8, <2>9
      DEF Parts, PrCarried, BareRetry, RecordAnswered, RecordKept, CreateIsFirst, OneTask, Contiguous, Stored, Prepared
  <1>19. CASE PollNoPullRequest
    <2>1. /\ pc = "poll" /\ pc' = "idle" /\ env' = mem /\ mem' = NoRecord /\ remediation' = NoRemediation
          /\ UNCHANGED <<disk, handle, product, freshRun>>
      BY <1>19 DEF PollNoPullRequest, EndWith
    <2>2. Created' = Created /\ TaskSessions' = TaskSessions /\ cloud' = cloud
      BY <1>19 DEF PollNoPullRequest, EndWith, Created, TaskSessions
    <2> QED
      BY <1>source, <1>0, <2>1, <2>2 DEF Parts, SoundCopies, Sound, SoundIn, PrCarried, BareRetry, Bare, RecordKept, CreateIsFirst, OneTask, TaskInHand, Contiguous, RecordAnswered, Stored, Prepared, AtStep
  <1>20. CASE CloudStep
    <2>1. UNCHANGED <<env, disk, handle, mem, pc, remediation, product, freshRun>>
      BY <1>20 DEF CloudStep
    <2>2. /\ Created' = Created /\ TaskSessions' = TaskSessions
          /\ \A s \in Created : cloud'[s].intent = cloud[s].intent /\ cloud'[s].branch = cloud[s].branch
          /\ \A s \in Created : Terminal(cloud[s].state) => cloud'[s].state = cloud[s].state
      BY <1>20, CloudKept
    <2>3. TaskSessions \subseteq Created
      BY DEF TaskSessions
    <2>4. TaskInHand'
      BY <2>1, <2>2, <2>3 DEF Parts, TaskInHand, Stored
    <2>5. SoundCopies'
      BY <2>1, <2>2 DEF Parts, SoundCopies, Sound, SoundIn, Bare, Stored
    <2> QED
      BY <1>source, <2>1, <2>2, <2>4, <2>5
      DEF Parts, PrCarried, BareRetry, Bare, RecordAnswered, RecordKept, CreateIsFirst, OneTask, Contiguous, Stored, Prepared
  <1>21. CASE Crash
    <2>1. /\ pc' = "idle" /\ mem' = NoRecord /\ remediation' = NoRemediation
          /\ UNCHANGED <<env, disk, handle, product, freshRun>>
      BY <1>21 DEF Crash
    <2>2. Created' = Created /\ TaskSessions' = TaskSessions /\ cloud' = cloud
      BY <1>21 DEF Crash, Created, TaskSessions
    <2> QED
      BY <1>source, <1>0, <2>1, <2>2 DEF Parts, SoundCopies, Sound, SoundIn, PrCarried, BareRetry, Bare, RecordKept, CreateIsFirst, OneTask, TaskInHand, Contiguous, RecordAnswered, Stored, Prepared, AtStep
  <1>22. CASE LoseEnvelope
    <2>1. /\ pc = "idle" /\ env' = NoRecord
          /\ UNCHANGED <<disk, handle, mem, pc, remediation, product, freshRun>>
      BY <1>22 DEF LoseEnvelope
    <2>2. Created' = Created /\ TaskSessions' = TaskSessions /\ cloud' = cloud
      BY <1>22 DEF LoseEnvelope, Created, TaskSessions
    <2> QED
      BY <1>source, <1>0, <2>1, <2>2 DEF Parts, SoundCopies, Sound, SoundIn, PrCarried, BareRetry, Bare, RecordKept, CreateIsFirst, OneTask, TaskInHand, Contiguous, RecordAnswered, Stored, Prepared, AtStep
  <1>23. CASE UNCHANGED vars
    <2>1. UNCHANGED <<env, disk, handle, mem, pc, remediation, product, freshRun>>
      BY <1>23 DEF vars
    <2>2. Created' = Created /\ TaskSessions' = TaskSessions /\ cloud' = cloud
      BY <1>23 DEF vars, Created, TaskSessions
    <2> QED
      BY <1>source, <1>0, <2>1, <2>2 DEF Parts, SoundCopies, Sound, SoundIn, PrCarried, BareRetry, Bare, RecordKept, CreateIsFirst, OneTask, TaskInHand, Contiguous, RecordAnswered, Stored, Prepared, AtStep
  <1> QED
    BY <1>wake, <1>1, <1>2, <1>3, <1>4, <1>5, <1>6, <1>7, <1>8, <1>9, <1>10, <1>11, <1>12, <1>13, <1>14, <1>15, <1>16, <1>17, <1>18, <1>19, <1>20, <1>21, <1>22, <1>23 DEF Next, Run

LEMMA InitParts == Init => Parts
PROOF
  <1> SUFFICES ASSUME Init PROVE Parts
    OBVIOUS
  <1> USE NewFields, BaseTypes
  <1>1. Created = {} /\ TaskSessions = {}
    BY DEF Init, Created, TaskSessions
  <1>2. Contiguous
    <2>1. Created = 1 .. 0
      BY <1>1
    <2> QED
      BY <2>1 DEF Contiguous
  <1>3. /\ env = NoRecord /\ mem = NoRecord /\ Stored = NoRecord /\ disk["configured"] = NoRecord
        /\ handle = NoHandle /\ pc = "idle" /\ source = "catalog" /\ remediation = NoRemediation
        /\ ~product /\ ~freshRun
    BY DEF Init, Stored, Sources
  <1>4. ~NoHandle.pr /\ NoHandle.remediation = NoRemediation /\ NoHandle.id = NoSession
    BY DEF NoHandle
  <1> QED
    BY <1>1, <1>2, <1>3, <1>4
    DEF Parts, OneSource, SoundCopies, Sound, SoundIn, PrCarried, BareRetry, Bare, RecordAnswered, RecordKept,
        CreateIsFirst, OneTask, TaskInHand, Stored

LEMMA DropsGrow == TypeOK /\ [Next]_vars => drops' \in Nat /\ drops' >= drops
PROOF
  <1> SUFFICES ASSUME TypeOK, [Next]_vars PROVE drops' \in Nat /\ drops' >= drops
    OBVIOUS
  <1>1. drops \in Nat
    BY BoundsAssumption DEF TypeOK
  <1>2. drops' \in {drops, drops + 1}
    BY DEF Next, Run, Wake, ObserveNoCreate, HoldCreate, Reattach, StartFresh, Startup, Owned, Release,
           ContinueLive, ResumeByMessage, Prepare, PostCreated, PostUnanswered, PostNotFound,
           PersistRecord, PersistHandle, Return, PollLive, PollFailed, PollPullRequest, PollNoPullRequest,
           CloudStep, Crash, LoseEnvelope, vars
  <1> QED
    BY <1>1, <1>2

LEMMA SessionInvariant ==
  ASSUME "lookup" \notin Faults, ResumeAttempts >= 2
  PROVE  Spec => []SessionInv
PROOF
  <1>1. Init => SessionInv
    BY InitShape, InitParts DEF SessionInv, Kept
  <1>2. SessionInv /\ [Next]_vars => SessionInv'
    <2> SUFFICES ASSUME SessionInv, [Next]_vars PROVE SessionInv'
      OBVIOUS
    <2>1. TypeOK /\ Shape /\ TypeOK' /\ Shape'
      BY NextShape DEF SessionInv
    <2>2. ASSUME drops' = 0 PROVE Parts'
      <3>1. drops \in Nat /\ drops' >= drops
        BY <2>1, DropsGrow, BoundsAssumption DEF TypeOK
      <3>2. drops = 0
        BY <2>2, <3>1
      <3>3. Parts
        BY <3>2 DEF SessionInv, Kept
      <3> QED
        BY <2>1, <2>2, <3>2, <3>3, NextParts
    <2> QED
      BY <2>1, <2>2 DEF SessionInv, Kept
  <1> QED
    BY <1>1, <1>2, PTL DEF Spec

(* However many responses, records, envelopes and runs are lost, an issue  *)
(* that was not given up has one session of the task: a create is sent     *)
(* only while the recovery record is empty, and the record is written      *)
(* before it is sent.                                                      *)
THEOREM OneSessionPerTask ==
  ASSUME "lookup" \notin Faults, ResumeAttempts >= 2
  PROVE  Spec => []OneTaskSession
PROOF
  <1>1. SessionInv => OneTaskSession
    <2> SUFFICES ASSUME SessionInv, drops = 0 PROVE Cardinality(TaskSessions) <= 1
      BY DEF OneTaskSession, Undisturbed
    <2>1. OneTask
      BY DEF SessionInv, Kept, Parts
    <2>2. CASE TaskSessions = {}
      BY <2>2, FS_EmptySet
    <2>3. CASE TaskSessions # {}
      <3>1. PICK s \in TaskSessions : TaskSessions = {s}
        BY <2>1, <2>3 DEF OneTask
      <3>2. Cardinality({s}) = 1
        BY FS_Singleton
      <3> QED
        BY <3>1, <3>2
    <2> QED
      BY <2>2, <2>3
  <1> QED
    BY <1>1, SessionInvariant, PTL

(* A session that works in the cloud is named by the recovery record, or   *)
(* the create it came from is.                                             *)
THEOREM LiveSessionIsKnown ==
  ASSUME "lookup" \notin Faults, ResumeAttempts >= 2
  PROVE  Spec => []LiveSessionKnown
PROOF
  <1>1. SessionInv => LiveSessionKnown
    <2> SUFFICES ASSUME SessionInv, drops = 0, NEW s \in TaskSessions, cloud[s].state = "live"
                 PROVE  \E r \in Copies : r.id = s \/ r.intent = cloud[s].intent
      BY DEF LiveSessionKnown, Undisturbed
    <2>1. TaskInHand
      BY DEF SessionInv, Kept, Parts
    <2>2. ~product
      BY <2>1 DEF TaskInHand, Terminal
    <2>3. Stored.id = s \/ Stored.intent = cloud[s].intent
      BY <2>1, <2>2 DEF TaskInHand
    <2> QED
      BY <2>3 DEF Copies, Stored
  <1> QED
    BY <1>1, SessionInvariant, PTL

(* Once the pull request is registered, a session is created only to       *)
(* continue on its branch.                                                 *)
THEOREM NothingStartsBesidePr ==
  ASSUME "lookup" \notin Faults, ResumeAttempts >= 2
  PROVE  Spec => NoTaskSessionBesidePr
PROOF
  <1>1. SessionInv /\ [Next]_vars => [product /\ TaskSessions' # TaskSessions => drops > 0]_vars
    <2> SUFFICES ASSUME SessionInv, Next, product, ~(drops > 0) PROVE TaskSessions' = TaskSessions
      OBVIOUS
    <2>1. TypeOK /\ Shape
      BY DEF SessionInv
    <2>2. drops = 0
      BY <2>1, BoundsAssumption DEF TypeOK
    <2>3. Parts
      BY <2>2 DEF SessionInv, Kept
    <2>4. CASE CreateInCloud /\ pc = "post"
      <3>1. remediation # NoRemediation
        BY <2>3, <2>4 DEF Parts, CreateIsFirst
      <3> QED
        BY <2>1, <2>3, <2>4, <3>1, CreatedKept DEF Parts
    <2>5. CASE CloudStep
      BY <2>1, <2>5, CloudKept
    <2>6. CASE UNCHANGED cloud
      BY <2>6 DEF TaskSessions, Created
    <2>7. ~ResumeByMessage
      <3>1. mem.phase = "RETRY_SCHEDULED" /\ pc = "recover" => mem.pr
        BY <2>3, NewFields, BaseTypes DEF Parts, PrCarried
      <3> QED
        BY <3>1 DEF ResumeByMessage, IsRetry
    <2>8. \/ CreateInCloud /\ pc = "post"
          \/ CloudStep \/ ResumeByMessage \/ UNCHANGED cloud
      BY DEF Next, Run, Wake, ObserveNoCreate, HoldCreate, Reattach, StartFresh, Startup, Owned, Release,
             ContinueLive, Prepare, PostCreated, PostUnanswered, PostNotFound,
             PersistRecord, PersistHandle, Return, PollLive, PollFailed, PollPullRequest, PollNoPullRequest,
             Crash, LoseEnvelope
    <2> QED
      BY <2>4, <2>5, <2>6, <2>7, <2>8
  <1> QED
    BY <1>1, SessionInvariant, PTL DEF Spec, NoTaskSessionBesidePr

=============================================================================
