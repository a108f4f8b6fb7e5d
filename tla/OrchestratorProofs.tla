------------------------- MODULE OrchestratorProofs -------------------------
(***************************************************************************)
(* The safety of the orchestrator: its dispatcher, for every set of tasks, *)
(* scopes, dependencies, priorities and slots, and its review of a pull    *)
(* request, for every number of heads; both for every number of faults.    *)
(*                                                                         *)
(* The dispatcher: nobody but the tick takes a task up, so what is at work *)
(* now was so when the tick began or is selected, and the selected tasks   *)
(* clash with nothing (Seen, Apart).  The review: what a step of the tick  *)
(* has in hand still is as it was when the tick decided it (InHand), and a *)
(* child only moves on (ChildMoves).                                       *)
(***************************************************************************)
EXTENDS PullRequestReview, MCDispatcher, FiniteSetTheorems, TLAPS

USE TasksAssumption, BoundsAssumption, HeadsAssumption, FaultsAssumption

-----------------------------------------------------------------------------
(* 1. The dispatcher.                                                      *)

(* The instance counts what FiniteSets counts. *)
LEMMA DispatchCounts == \A S : D!Cardinality(S) = Cardinality(S)
  BY DEF D!Cardinality, Cardinality

(* Failures are charged within their bound. *)
LEMMA FailuresBounded ==
  ASSUME failures \in 0 .. MaxFailures, NEW o \in {"ok", "failed", "unheard"}, D!Outcomes(o), D!Charge(o)
  PROVE  failures' \in 0 .. MaxFailures
  BY DEF D!Outcomes, D!Charge

(* A flag that is set or cleared is a flag. *)
LEMMA FlagSet ==
  ASSUME NEW f \in D!Flags, NEW t \in Tasks, NEW b \in BOOLEAN
  PROVE  [f EXCEPT ![t] = b] \in D!Flags
  BY DEF D!Flags

(* Free slots are counted in natural numbers. *)
LEMMA FreeIsNat == ASSUME NEW l \in D!Lanes PROVE D!Free(l) \in Nat
<1> DEFINE S == {t \in Tasks : view.status[t] = "in_progress" /\ view.owner[t] = l}
<1>1. IsFiniteSet(S)
  BY FS_Subset
<1>2. Cardinality(S) \in Nat
  BY <1>1, FS_CardinalityType
<1>3. Slots[l] \in Nat
  OBVIOUS
<1> HIDE DEF S
<1>4. (IF Slots[l] > Cardinality(S) THEN Slots[l] - Cardinality(S) ELSE 0) \in Nat
  BY <1>2, <1>3
<1> QED BY <1>4, DispatchCounts DEF D!Free, S

(* A lane is chosen only while it has a free slot. *)
LEMMA LaneIsFree ==
  ASSUME NEW t \in Tasks, free \in [D!Lanes -> Nat]
  PROVE  D!Lane(t) = "none" \/ (D!Lane(t) \in D!Lanes /\ free[D!Lane(t)] > 0)
  BY DEF D!Lane, D!Lanes

Views == [status : [Tasks -> D!Statuses], owner : [Tasks -> D!Owners], held : D!Flags,
          start : [Tasks -> D!Cards], recent : D!Flags]

LEMMA NoViewType == D!NoView \in Views
  BY DEF D!NoView, Views, D!Statuses, D!Owners, D!Cards, D!Flags, D!Nobody

LEMMA SnapshotType == D!TypeOK => D!Snapshot \in Views
  BY DEF D!TypeOK, D!Snapshot, Views

LEMMA DefaultType == D!Default \in Tasks
  BY DEF D!Default
-----------------------------------------------------------------------------
LEMMA TypeInit == D!Init => D!TypeOK
<1> SUFFICES ASSUME D!Init PROVE D!TypeOK
  OBVIOUS
<1>1. view \in Views /\ task \in Tasks
  BY NoViewType, DefaultType DEF D!Init
<1> QED BY <1>1 DEF D!Init, D!TypeOK, Views, D!Statuses, D!Owners, D!Cards, D!Flags, D!Nobody, D!Lanes

LEMMA TypeNext == D!TypeOK /\ [D!Next]_(D!vars) => D!TypeOK'
<1> SUFFICES ASSUME D!TypeOK, [D!Next]_(D!vars) PROVE D!TypeOK'
  OBVIOUS
<1> USE DEF D!Statuses, D!Owners, D!Cards, D!Flags, D!Lanes, D!board, D!runs, D!tick, D!Begin, D!Rest, D!Aside
<1>1. CASE D!TickStart
  <2>1. view' \in Views
    BY <1>1, SnapshotType DEF D!TickStart
  <2>2. queue' \subseteq Tasks
    BY <1>1 DEF D!TickStart, D!Stalled
  <2> QED BY <1>1, <2>1, <2>2 DEF D!TickStart, D!TypeOK, Views, D!Nobody
<1>2. CASE D!Reap
  <2> PICK t \in queue, o \in {"ok", "failed"} : D!Reap!2!(t, o)
    BY <1>2 DEF D!Reap
  <2> QED BY <1>2, FailuresBounded DEF D!Reap, D!TypeOK
<1>3. CASE D!Reclaim
  <2>1. failures' \in 0 .. MaxFailures
    BY <1>3, FailuresBounded DEF D!Reclaim, D!TypeOK
  <2>2. PICK o \in {"ok", "failed", "unheard"} : D!Reclaim!2!(o)
    BY <1>3 DEF D!Reclaim
  <2>3. view' \in Views
    <3>1. [view.status EXCEPT ![task] = "todo"] \in [Tasks -> D!Statuses]
      BY DEF D!TypeOK
    <3>2. [view EXCEPT !.status = [@ EXCEPT ![task] = "todo"]] \in Views
      BY <3>1 DEF D!TypeOK, Views
    <3> QED BY <2>2, <3>2 DEF D!TypeOK, Views
  <2>4. status' \in [Tasks -> D!Statuses]
    BY <2>2 DEF D!TypeOK
  <2>5. touched' = touched \/ touched' = [touched EXCEPT ![task] = TRUE]
    BY <2>2
  <2>6. touched' \in D!Flags
    BY <2>5, FlagSet DEF D!TypeOK
  <2> QED BY <1>3, <2>1, <2>3, <2>4, <2>6 DEF D!Reclaim, D!TypeOK, Views
<1>4. CASE D!Plan
  <2>1. free' \in [D!Lanes -> Nat]
    BY <1>4, FreeIsNat DEF D!Plan
  <2>2. queue' \subseteq Tasks
    BY <1>4 DEF D!Plan, D!Candidates, D!Dispatchable
  <2> QED BY <1>4, <2>1, <2>2 DEF D!Plan, D!TypeOK
<1>5. CASE D!Select
  <2> PICK t \in Tasks : D!Select!2!(t)
    BY <1>5 DEF D!Select
  <2> DEFINE l == IF D!Collides(t) THEN "none" ELSE D!Lane(t)
  <2>1. l = "none" \/ (l \in D!Lanes /\ free[l] > 0)
    BY LaneIsFree DEF D!TypeOK
  <2>2. chosen' = [chosen EXCEPT ![t] = l] /\ free' = IF l = "none" THEN free ELSE [free EXCEPT ![l] = @ - 1]
    OBVIOUS
  <2> HIDE DEF l
  <2>3. chosen' \in [Tasks -> D!Owners] /\ free' \in [D!Lanes -> Nat]
    BY <2>1, <2>2 DEF D!TypeOK
  <2> QED BY <1>5, <2>3 DEF D!Select, D!TypeOK
<1>6. CASE D!Ask
  <2> PICK lost \in SUBSET {t \in D!Wave : view.start[t] = "none"} : D!Ask!2!(lost)
    BY <1>6 DEF D!Ask
  <2>1. IsFiniteSet(lost)
    BY FS_Subset DEF D!Wave, D!Waiting, D!Dispatchable
  <2>2. failures' \in 0 .. MaxFailures
    BY <2>1, FS_CardinalityType, DispatchCounts DEF D!TypeOK
  <2>3. start' \in [Tasks -> D!Cards]
    BY DEF D!TypeOK
  <2> QED BY <1>6, <2>2, <2>3 DEF D!Ask, D!TypeOK, D!Chosen
<1>7. CASE D!Gate
  <2> PICK t \in Tasks, o \in {"ok", "failed"} : D!Gate!2!(t, o)
    BY <1>7 DEF D!Gate
  <2> QED BY <1>7, FailuresBounded DEF D!Gate, D!TypeOK
<1>8. CASE D!StartTask
  <2>1. failures' \in 0 .. MaxFailures
    BY <1>8, FailuresBounded DEF D!StartTask, D!TypeOK
  <2>2. status' \in [Tasks -> D!Statuses] /\ owner' \in [Tasks -> D!Owners] /\ touched' \in D!Flags
    <3>1. [touched EXCEPT ![task] = TRUE] \in D!Flags
      BY FlagSet DEF D!TypeOK
    <3>2. CASE UNCHANGED <<status, owner, touched>>
      BY <3>2 DEF D!TypeOK
    <3>3. CASE /\ status' = [status EXCEPT ![task] = "in_progress"]
               /\ owner' = [owner EXCEPT ![task] = chosen[task]]
               /\ touched' = [touched EXCEPT ![task] = TRUE]
      BY <3>1, <3>3 DEF D!TypeOK
    <3> QED BY <1>8, <3>2, <3>3 DEF D!StartTask
  <2> QED BY <1>8, <2>1, <2>2 DEF D!StartTask, D!TypeOK
<1>9. CASE D!WakeTask
  <2>1. failures' \in 0 .. MaxFailures
    BY <1>9, FailuresBounded DEF D!WakeTask, D!TypeOK
  <2>2. woken' \in D!Flags
    <3>1. [woken EXCEPT ![task] = TRUE] \in D!Flags
      BY FlagSet DEF D!TypeOK
    <3>2. CASE UNCHANGED woken
      BY <3>2 DEF D!TypeOK
    <3>3. CASE woken' = [woken EXCEPT ![task] = TRUE]
      BY <3>1, <3>3
    <3> QED BY <1>9, <3>2, <3>3 DEF D!WakeTask
  <2> QED BY <1>9, <2>1, <2>2 DEF D!WakeTask, D!TypeOK
<1>10. CASE D!TickEnd
  <2>1. view' \in Views /\ task' \in Tasks
    BY <1>10, NoViewType, DefaultType DEF D!TickEnd
  <2> QED BY <1>10, <2>1 DEF D!TickEnd, D!TypeOK, Views, D!Nobody
<1>11. ASSUME NEW t \in Tasks, D!Work(t) \/ D!People(t) \/ D!Ages(t) PROVE D!TypeOK'
  <2> USE DEF D!TypeOK
  <2>1. CASE D!WorkerStarts(t)
    <3>1. running' \in D!Flags /\ woken' \in D!Flags /\ touched' \in D!Flags
      BY <2>1, FlagSet DEF D!WorkerStarts
    <3>2. recent' \in D!Flags
      <4>1. [recent EXCEPT ![t] = TRUE] \in D!Flags
        BY FlagSet
      <4>2. CASE UNCHANGED recent
        BY <4>2
      <4>3. CASE recent' = [recent EXCEPT ![t] = TRUE]
        BY <4>1, <4>3
      <4> QED BY <2>1, <4>2, <4>3 DEF D!WorkerStarts
    <3> QED BY <2>1, <3>1, <3>2 DEF D!WorkerStarts
  <2>2. CASE D!WorkerSubmits(t)
    <3>1. running' \in D!Flags /\ status' \in [Tasks -> D!Statuses] /\ owner' \in [Tasks -> D!Owners]
      BY <2>2, FlagSet DEF D!WorkerSubmits
    <3> QED BY <2>2, <3>1 DEF D!WorkerSubmits
  <2>3. CASE D!WorkerStops(t)
    <3>1. running' \in D!Flags
      BY <2>3, FlagSet DEF D!WorkerStops
    <3> QED BY <2>3, <3>1 DEF D!WorkerStops
  <2>4. CASE D!Rests(t)
    <3>1. running' \in D!Flags
      BY <2>4, FlagSet DEF D!Rests
    <3>2. [held EXCEPT ![t] = TRUE] \in D!Flags
      BY FlagSet
    <3>3. held' \in D!Flags /\ status' \in [Tasks -> D!Statuses]
      <4>1. CASE held' = [held EXCEPT ![t] = TRUE] /\ UNCHANGED status
        BY <3>2, <4>1
      <4>2. CASE status' = [status EXCEPT ![t] = "blocked"] /\ UNCHANGED held
        BY <4>2
      <4> QED BY <2>4, <4>1, <4>2 DEF D!Rests
    <3> QED BY <2>4, <3>1, <3>3 DEF D!Rests
  <2>5. CASE D!Resumes(t)
    <3>1. held' \in D!Flags /\ woken' \in D!Flags /\ status' \in [Tasks -> D!Statuses]
      BY <2>5, FlagSet DEF D!Resumes
    <3> QED BY <2>5, <3>1 DEF D!Resumes
  <2>6. CASE D!ReviewRejects(t)
    <3>1. woken' \in D!Flags /\ touched' \in D!Flags /\ status' \in [Tasks -> D!Statuses] /\ owner' \in [Tasks -> D!Owners]
      BY <2>6, FlagSet DEF D!ReviewRejects
    <3> QED BY <2>6, <3>1 DEF D!ReviewRejects
  <2>7. CASE D!Merges(t)
    <3>1. status' \in [Tasks -> D!Statuses]
      BY <2>7 DEF D!Merges
    <3> QED BY <2>7, <3>1 DEF D!Merges
  <2>8. CASE D!OperatorDecides(t)
    <3>1. start' \in [Tasks -> D!Cards]
      BY <2>8 DEF D!OperatorDecides
    <3> QED BY <2>8, <3>1 DEF D!OperatorDecides
  <2>9. CASE D!UserMoves(t)
    <3>1. /\ woken' = [woken EXCEPT ![t] = FALSE] /\ owner' = [owner EXCEPT ![t] = "none"]
          /\ \E new \in D!Statuses : status' = [status EXCEPT ![t] = new]
          /\ reopened' \subseteq reopened \cup {t}
      BY <2>9 DEF D!UserMoves
    <3>2. woken' \in D!Flags /\ owner' \in [Tasks -> D!Owners] /\ reopened' \subseteq Tasks
      BY <3>1, FlagSet
    <3>3. status' \in [Tasks -> D!Statuses]
      BY <3>1
    <3> QED BY <2>9, <3>2, <3>3 DEF D!UserMoves
  <2>10. CASE D!Ages(t)
    <3>1. recent' \in D!Flags /\ touched' \in D!Flags
      BY <2>10, FlagSet DEF D!Ages
    <3> QED BY <2>10, <3>1 DEF D!Ages
  <2> QED BY <1>11, <2>1, <2>2, <2>3, <2>4, <2>5, <2>6, <2>7, <2>8, <2>9, <2>10 DEF D!Work, D!People
<1>12. CASE UNCHANGED D!vars
  BY <1>12 DEF D!vars, D!TypeOK
<1> QED BY <1>1, <1>2, <1>3, <1>4, <1>5, <1>6, <1>7, <1>8, <1>9, <1>10, <1>11, <1>12 DEF D!Next, D!Tick

(* The variables keep their types.                                         *)
THEOREM DispatchTypeCorrect == DispatchSpec => []D!TypeOK
  BY TypeInit, TypeNext, PTL DEF DispatchSpec, D!Spec
-----------------------------------------------------------------------------
(* Why the snapshot is enough.  Nobody but the tick takes a task up, so    *)
(* what is at work or blocked by now was so when the tick began, or is     *)
(* selected; and the selected tasks clash neither with one another nor     *)
(* with what the tick saw at work.                                         *)
Busy == D!Working \cup {"blocked"}
InTick == step # "idle"
Seen == \A u \in Managed : InTick /\ status[u] \in Busy => view.status[u] \in Busy \/ u \in D!Chosen
Early == step \in {"idle", "reap", "reclaim"} => D!Chosen = {}
Queued == /\ step = "select" => queue \subseteq D!Candidates \ D!Chosen
          /\ step \in {"dispatch", "start", "wake"} => queue \subseteq D!Chosen
          /\ step \in {"start", "wake"} => task \in D!Chosen
Apart == /\ \A t, u \in D!Chosen : t # u => ~D!Conflict(t, u)
         /\ \A t \in D!Chosen, u \in D!AtWork : ~D!Clash(t, u)
         /\ D!Chosen \subseteq Managed
Ready == step = "start" => \A u \in Requires[task] : status[u] = "done" \/ u \in reopened
DispatchInv == D!TypeOK /\ Seen /\ Early /\ Queued /\ Apart /\ Ready

(* A conflict is mutual, and a clash is a conflict. *)
LEMMA ConflictMutual == \A t, u : (D!Conflict(t, u) <=> D!Conflict(u, t)) /\ (D!Clash(t, u) => D!Conflict(t, u))
  BY DEF D!Conflict, D!Clash

(* A candidate clashes with nothing that the tick saw at work. *)
LEMMA CandidateApart == \A t \in D!Candidates, u \in D!AtWork : ~D!Clash(t, u)
  BY DEF D!Candidates, D!Locked, D!Clash

(* The selection and the snapshot decide the rest. *)
LEMMA SameView ==
  ASSUME UNCHANGED <<view, chosen>>
  PROVE  D!Chosen' = D!Chosen /\ D!AtWork' = D!AtWork /\ D!Candidates' = D!Candidates
  BY DEF D!Chosen, D!AtWork, D!Dispatchable, D!Candidates, D!BlockedBy, D!Locked

(* Between ticks and before the selection nothing is selected. *)
LEMMA NothingChosen ==
  ASSUME chosen' = D!Nobody
  PROVE  D!Chosen' = {}
  BY DEF D!Chosen, D!Nobody

LEMMA IInit == D!Init => DispatchInv
<1> SUFFICES ASSUME D!Init PROVE DispatchInv
  OBVIOUS
<1>1. D!Chosen = {}
  BY DEF D!Init, D!Chosen, D!Nobody
<1> QED BY <1>1, TypeInit DEF D!Init, DispatchInv, InTick, Seen, Early, Queued, Apart, Ready

(* What workers, reviewers and people do leaves the tick as it is.         *)
LEMMA OthersKeep ==
  ASSUME DispatchInv, D!TypeOK', NEW t \in Tasks, D!Work(t) \/ D!People(t) \/ D!Ages(t)
  PROVE  DispatchInv'
<1> USE DEF DispatchInv
<1>1. UNCHANGED <<step, view, queue, task, free, chosen>> /\ reopened \subseteq reopened'
  BY DEF D!tick, D!Work, D!People, D!Ages, D!WorkerStarts, D!WorkerSubmits, D!WorkerStops, D!Rests, D!Resumes,
         D!ReviewRejects, D!Merges, D!OperatorDecides, D!UserMoves, D!Aside
<1>2. D!Chosen' = D!Chosen /\ D!AtWork' = D!AtWork /\ D!Candidates' = D!Candidates
  BY <1>1, SameView
<1>3. \A u \in Tasks : status'[u] \in Busy => status[u] \in Busy
  BY DEF D!Work, D!People, D!Ages, D!WorkerStarts, D!WorkerSubmits, D!WorkerStops, D!Rests, D!Resumes,
         D!ReviewRejects, D!Merges, D!OperatorDecides, D!UserMoves, Busy, D!Working, D!TypeOK, D!board
<1>4. \A u \in Tasks : step = "start" /\ status[u] = "done" => status'[u] = "done" \/ u \in reopened'
  BY DEF D!Work, D!People, D!Ages, D!WorkerStarts, D!WorkerSubmits, D!WorkerStops, D!Rests, D!Resumes,
         D!ReviewRejects, D!Merges, D!OperatorDecides, D!UserMoves, D!TypeOK, D!board
<1>5. Seen' /\ Early' /\ Queued' /\ Apart'
  BY <1>1, <1>2, <1>3 DEF Seen, Early, Queued, Apart, InTick
<1>6. Ready'
  BY <1>1, <1>4 DEF Ready, D!TypeOK
<1> QED BY <1>5, <1>6

LEMMA INext == DispatchInv /\ [D!Next]_(D!vars) => DispatchInv'
<1> SUFFICES ASSUME DispatchInv, [D!Next]_(D!vars) PROVE DispatchInv'
  OBVIOUS
<1>0. D!TypeOK'
  BY TypeNext DEF DispatchInv
<1> USE DEF D!Begin
<1>1. CASE D!TickStart
  <2>1. D!Chosen' = {}
    BY <1>1, NothingChosen DEF D!TickStart
  <2>2. Seen'
    BY <1>1 DEF D!TickStart, Seen, D!Snapshot, D!board
  <2> QED BY <1>0, <1>1, <2>1, <2>2 DEF D!TickStart, DispatchInv, Early, Queued, Apart, Ready
<1>2. CASE D!Reap
  <2>1. step = "reap" /\ step' \in {"reap", "reclaim"} /\ UNCHANGED <<view, chosen, status>>
    BY <1>2 DEF D!Reap, D!board
  <2>2. D!Chosen' = D!Chosen /\ D!AtWork' = D!AtWork
    BY <2>1, SameView
  <2> QED BY <1>0, <2>1, <2>2 DEF DispatchInv, Seen, InTick, Early, Queued, Apart, Ready
<1>3. CASE D!Reclaim
  <2>1. step = "reclaim" /\ step' = "reap" /\ UNCHANGED chosen
    BY <1>3 DEF D!Reclaim
  <2>2. D!Chosen' = {}
    BY <2>1 DEF DispatchInv, Early, D!Chosen
  <2>3. Seen'
    <3>1. PICK o \in {"ok", "failed", "unheard"} : D!Reclaim!2!(o)
      BY <1>3 DEF D!Reclaim
    <3>2. \A u \in Managed : status'[u] \in Busy => status[u] \in Busy
      BY <3>1 DEF DispatchInv, D!TypeOK, Busy, D!Working
    <3>3. \A u \in Managed : status'[u] \in Busy /\ view.status[u] \in Busy => view'.status[u] \in Busy
      BY <3>1 DEF DispatchInv, D!TypeOK, Busy, D!Working, D!Applied
    <3> QED BY <2>1, <2>2, <3>2, <3>3 DEF DispatchInv, Seen, InTick, Early
  <2> QED BY <1>0, <2>1, <2>2, <2>3 DEF DispatchInv, Early, Queued, Apart, Ready
<1>4. CASE D!Plan
  <2>1. UNCHANGED <<view, chosen, status>> /\ step = "reap" /\ step' = "select" /\ queue' = D!Candidates
    BY <1>4 DEF D!Plan, D!board
  <2>2. D!Chosen' = D!Chosen /\ D!AtWork' = D!AtWork /\ D!Candidates' = D!Candidates /\ D!Chosen = {}
    BY <2>1, SameView DEF DispatchInv, Early
  <2> QED BY <1>0, <2>1, <2>2 DEF DispatchInv, Seen, InTick, Early, Queued, Apart, Ready
<1>5. CASE D!Select
  <2>1. PICK t \in Tasks : D!Select!2!(t)
    BY <1>5 DEF D!Select
  <2>2. step = "select" /\ step' = "select" /\ UNCHANGED <<view, status>> /\ t \in D!Candidates \ D!Chosen
    BY <1>5, <2>1 DEF D!Select, D!board, D!First, DispatchInv, Queued
  <2>3. D!Chosen \ {t} \subseteq D!Chosen' /\ D!Chosen' \subseteq D!Chosen \cup {t}
    BY <2>1 DEF DispatchInv, D!TypeOK, D!Chosen
  <2>4. t \in D!Chosen' => ~D!Collides(t)
    BY <2>1 DEF DispatchInv, D!TypeOK, D!Chosen
  <2>5. D!AtWork' = D!AtWork /\ D!Candidates' = D!Candidates
    BY <2>2 DEF D!AtWork, D!Candidates, D!Dispatchable, D!BlockedBy, D!Locked
  <2>6. t \in Managed
    BY <2>2 DEF D!Candidates, D!Dispatchable
  <2>7. Apart'
    <3>1. \A u \in D!Chosen : t \in D!Chosen' => ~D!Conflict(t, u) /\ ~D!Conflict(u, t)
      BY <2>4, ConflictMutual DEF D!Collides, D!Chosen
    <3>2. \A u, w \in D!Chosen' : u # w => ~D!Conflict(u, w)
      BY <2>3, <3>1 DEF DispatchInv, Apart
    <3>3. \A u \in D!Chosen', w \in D!AtWork' : ~D!Clash(u, w)
      BY <2>2, <2>3, <2>5, CandidateApart DEF DispatchInv, Apart
    <3> QED BY <2>3, <2>6, <3>2, <3>3 DEF DispatchInv, Apart
  <2>8. Seen'
    BY <2>2, <2>3 DEF DispatchInv, Seen, InTick
  <2>9. queue' \subseteq D!Candidates' \ D!Chosen'
    BY <2>1, <2>2, <2>3, <2>5 DEF DispatchInv, Queued
  <2> QED BY <1>0, <2>2, <2>7, <2>8, <2>9 DEF DispatchInv, Early, Queued, Ready
<1>6. CASE D!Ask
  <2>1. UNCHANGED <<view, chosen, status>> /\ step = "select" /\ step' = "dispatch" /\ queue' = D!Chosen
    BY <1>6 DEF D!Ask
  <2>2. D!Chosen' = D!Chosen /\ D!AtWork' = D!AtWork
    BY <2>1, SameView
  <2> QED BY <1>0, <2>1, <2>2 DEF DispatchInv, Seen, InTick, Early, Queued, Apart, Ready
<1>7. CASE D!Gate
  <2>1. PICK t \in Tasks, o \in {"ok", "failed"} : D!Gate!2!(t, o)
    BY <1>7 DEF D!Gate
  <2>2. /\ UNCHANGED <<view, chosen, status>> /\ step = "dispatch" /\ step' \in {"start", "dispatch"}
        /\ queue' \subseteq queue /\ task' = t /\ t \in queue
        /\ step' = "start" => \A u \in Requires[t] : status[u] = "done"
    BY <1>7, <2>1 DEF D!Gate, D!board, D!First
  <2>3. D!Chosen' = D!Chosen /\ D!AtWork' = D!AtWork
    BY <2>2, SameView
  <2>4. queue \subseteq D!Chosen
    BY <2>2 DEF DispatchInv, Queued
  <2>5. Ready'
    BY <2>2 DEF Ready
  <2> QED BY <1>0, <2>2, <2>3, <2>4, <2>5 DEF DispatchInv, Seen, InTick, Early, Queued, Apart
<1>8. CASE D!StartTask
  <2>1. /\ UNCHANGED <<view, chosen, task, queue>> /\ step = "start" /\ step' \in {"wake", "dispatch"}
        /\ status' = status \/ status' = [status EXCEPT ![task] = "in_progress"]
    BY <1>8 DEF D!StartTask, D!Rest
  <2>2. D!Chosen' = D!Chosen /\ D!AtWork' = D!AtWork
    BY <2>1, SameView
  <2>3. task \in D!Chosen
    BY <2>1 DEF DispatchInv, Queued
  <2>4. Seen'
    BY <2>1, <2>2, <2>3 DEF DispatchInv, D!TypeOK, Seen, InTick
  <2> QED BY <1>0, <2>1, <2>2, <2>4 DEF DispatchInv, Early, Queued, Apart, Ready
<1>9. CASE D!WakeTask
  <2>1. UNCHANGED <<view, chosen, status, task, queue>> /\ step = "wake" /\ step' = "dispatch"
    BY <1>9 DEF D!WakeTask, D!Rest, D!board
  <2>2. D!Chosen' = D!Chosen /\ D!AtWork' = D!AtWork
    BY <2>1, SameView
  <2> QED BY <1>0, <2>1, <2>2 DEF DispatchInv, Seen, InTick, Early, Queued, Apart, Ready
<1>10. CASE D!TickEnd
  <2>1. D!Chosen' = {} /\ step' = "idle"
    BY <1>10, NothingChosen DEF D!TickEnd
  <2> QED BY <1>0, <2>1 DEF DispatchInv, Seen, InTick, Early, Queued, Apart, Ready
<1>11. ASSUME NEW t \in Tasks, D!Work(t) \/ D!People(t) \/ D!Ages(t) PROVE DispatchInv'
  BY <1>0, <1>11, OthersKeep
<1>12. CASE UNCHANGED D!vars
  <2>1. UNCHANGED <<view, chosen, status, task, queue, step, reopened>>
    BY <1>12 DEF D!vars, D!tick, D!board
  <2>2. D!Chosen' = D!Chosen /\ D!AtWork' = D!AtWork /\ D!Candidates' = D!Candidates
    BY <2>1, SameView
  <2> QED BY <1>0, <2>1, <2>2 DEF DispatchInv, Seen, InTick, Early, Queued, Apart, Ready
<1> QED BY <1>1, <1>2, <1>3, <1>4, <1>5, <1>6, <1>7, <1>8, <1>9, <1>10, <1>11, <1>12 DEF D!Next, D!Tick

LEMMA DispatchInductive == DispatchSpec => []DispatchInv
  BY IInit, INext, PTL DEF DispatchSpec, D!Spec
-----------------------------------------------------------------------------
(* Only the start writes in_progress on a task that was neither at work    *)
(* nor blocked.                                                            *)
LEMMA OnlyStartTask ==
  ASSUME DispatchInv, [D!Next]_(D!vars), NEW t \in Tasks, status[t] \notin Busy, status'[t] = "in_progress"
  PROVE  D!StartTask /\ t = task
<1>1. D!TypeOK /\ status[t] # "in_progress"
  BY DEF DispatchInv, Busy, D!Working
<1>2. ~UNCHANGED status
  BY <1>1
<1>3. ASSUME NEW u \in Tasks, D!Work(u) \/ D!People(u) \/ D!Ages(u) PROVE FALSE
  BY <1>1, <1>3 DEF D!Work, D!People, D!Ages, D!WorkerStarts, D!WorkerSubmits, D!WorkerStops, D!Rests, D!Resumes,
         D!ReviewRejects, D!Merges, D!OperatorDecides, D!UserMoves, Busy, D!Working, D!TypeOK, D!board
<1>4. ~(D!TickStart \/ D!Reap \/ D!Plan \/ D!Select \/ D!Ask \/ D!Gate \/ D!WakeTask \/ D!TickEnd)
  BY <1>2 DEF D!TickStart, D!Reap, D!Plan, D!Select, D!Ask, D!Gate, D!WakeTask, D!TickEnd, D!board
<1>5. ~D!Reclaim
  BY <1>1 DEF D!Reclaim, D!TypeOK
<1>6. D!StartTask
  BY <1>2, <1>3, <1>4, <1>5 DEF D!Next, D!Tick, D!vars, D!board
<1>7. t = task
  BY <1>1, <1>2, <1>6 DEF D!StartTask, D!TypeOK
<1> QED BY <1>6, <1>7

(* No task is started beside a task at work that it clashes with, unless   *)
(* that one was held or blocked when the tick began.                       *)
THEOREM NoClashingStart == DispatchSpec => StartsAlone
<1>1. ASSUME DispatchInv, [D!Next]_(D!vars), NEW t \in Managed, NEW u \in Managed,
             t # u, D!Starts(t), status[u] \in D!Working, D!Clash(t, u)
      PROVE  D!Paused(u)
  <2>1. D!StartTask /\ t = task
    BY <1>1, OnlyStartTask DEF D!Starts, Busy, D!Working
  <2>2. t \in D!Chosen /\ step = "start"
    BY <1>1, <2>1 DEF D!StartTask, DispatchInv, Queued
  <2>3. u \notin D!Chosen
    BY <1>1, <2>2, ConflictMutual DEF DispatchInv, Apart
  <2>4. u \notin D!AtWork
    BY <1>1, <2>2 DEF DispatchInv, Apart
  <2>5. view.status[u] \in Busy
    BY <1>1, <2>2, <2>3 DEF DispatchInv, Seen, InTick, Busy
  <2> QED BY <2>4, <2>5 DEF D!AtWork, D!Dispatchable, Busy, D!Paused
<1>2. DispatchInv /\ [D!Next]_(D!vars) =>
        [\A t, u \in Managed : t # u /\ D!Starts(t) /\ status[u] \in D!Working /\ D!Clash(t, u) => D!Paused(u)]_(D!vars)
  BY <1>1
<1> QED BY <1>2, DispatchInductive, PTL DEF DispatchSpec, D!Spec, StartsAlone, D!StartsAlone

(* No task that is to be done is started before what it depends on, but    *)
(* for what the user reopens after the gate.                               *)
THEOREM DependenciesAreFirst == DispatchSpec => DependenciesFirst
<1>1. ASSUME DispatchInv, [D!Next]_(D!vars), NEW t \in Tasks, status[t] = "todo", status'[t] = "in_progress"
      PROVE  \A u \in Requires[t] : status[u] = "done" \/ u \in reopened
  <2>1. D!StartTask /\ t = task
    BY <1>1, OnlyStartTask DEF Busy, D!Working
  <2> QED BY <1>1, <2>1 DEF D!StartTask, DispatchInv, Ready
<1>2. DispatchInv /\ [D!Next]_(D!vars) =>
        [\A t \in Tasks : status[t] = "todo" /\ status'[t] = "in_progress" =>
           \A u \in Requires[t] : status[u] = "done" \/ u \in reopened]_(D!vars)
  BY <1>1
<1> QED BY <1>2, DispatchInductive, PTL DEF DispatchSpec, D!Spec, DependenciesFirst, D!DependenciesFirst

-----------------------------------------------------------------------------
(* 2. The review of a pull request.                                        *)

Issues == [status : Statuses, owner : Owners, monitor : BOOLEAN, woken : BOOLEAN]
Snaps == [head : Heads, status : Statuses, owner : Owners, monitor : BOOLEAN, live : BOOLEAN, approval : Gate]
Jobs == [kind : {"none", "rejected", "red", "promote", "board", "ladder", "boot"}, stage : Stages]
Places == Calls \cup BootSteps \cup {"idle"}

(* What the tick has in hand at its step, and what a run on a child has.   *)
Hand == child[snap.head][job.stage]
InHand ==
  /\ pc \in {"resume", "wake"} => job.kind \in {"rejected", "red"}
  /\ pc = "create" => Hand.owner = "none" /\ (job.stage = "strong" => Approved(snap.head, "luna"))
  /\ pc = "launch" => Hand.owner = "orchestrator" /\ Hand.card = "none"
  /\ pc = "activate" => Hand.owner = "orchestrator" /\ Hand.card = "pending"
  /\ pc = "bootCard" => Hand.owner = "orchestrator" /\ Hand.card = "none" /\ Hand.boot = "running"
  /\ pc \in {"bootPark", "bootEnd"} => Hand.owner = "orchestrator" /\ Hand.card = "pending" /\ Hand.boot = "running"
  /\ pc = "ask" => \A s \in Stages : Approved(snap.head, s)
Boots ==
  \A h \in Heads, s \in Stages :
    /\ child[h][s].boot = "queued" => child[h][s].owner = "orchestrator" /\ child[h][s].card = "none"
    /\ child[h][s].boot = "none" => child[h][s].card = "none"
    /\ child[h][s].owner = "reviewer" => child[h][s].boot = "ok"
IInv == TypeOK /\ InHand /\ Boots /\ LadderInOrder /\ MergeCardNeedsBothVerdicts

(* Faults are charged within their bound. *)
LEMMA FaultsBounded ==
  ASSUME faults \in 0 .. MaxFaults, NEW o \in {"ok", "refused", "lost", "unheard"}, Outcomes(o), Charge(o)
  PROVE  faults' \in 0 .. MaxFaults
  BY DEF Outcomes, Charge

(* A step of the tick keeps the types of its locals. *)
LEMMA StepType ==
  ASSUME NEW p \in Places, NEW sn \in Snaps, NEW j \in Jobs, Step(p, sn, j)
  PROVE  pc' = p /\ pc' \in Places /\ snap' \in Snaps /\ job' \in Jobs
  BY DEF Step, NoSnap, NoJob, Snaps, Jobs, Heads, Statuses, Owners, Gate, Stages

LEMMA KeyType ==
  ASSUME snap \in Snaps, NEW k \in {"merge", "rejected", "red", "promote"}
  PROVE  Key(k) \in Keys
  BY DEF Key, Keys, Snaps

(* One child changes, the others stay. *)
LEMMA ChangeOne ==
  ASSUME child \in [Heads -> [Stages -> Children]], NEW h \in Heads, NEW s \in Stages,
         NEW c \in Children, Change(h, s, c)
  PROVE  /\ child' \in [Heads -> [Stages -> Children]]
         /\ child'[h][s] = c
         /\ \A g \in Heads, r \in Stages : g # h \/ r # s => child'[g][r] = child[g][r]
<1>1. child[h] \in [Stages -> Children]
  OBVIOUS
<1>2. child' = [child EXCEPT ![h] = [child[h] EXCEPT ![s] = c]]
  BY DEF Change
<1> QED BY <1>1, <1>2

LEMMA ChildTypes == Absent \in Children /\ Created \in Children /\ Absent.owner = "none"
  BY DEF Absent, Created, Children

(* What the ladder asks for rests on the children of the head. *)
LEMMA LadderSteps ==
  ASSUME TypeOK, NEW h \in Heads
  PROVE  /\ StageOf(h) \in Stages
         /\ StageOf(h) = "strong" => Approved(h, "luna")
         /\ Inspection(h) = "dispatch" => child[h][StageOf(h)].owner = "none"
         /\ Inspection(h) = "bootstrap" => child[h][StageOf(h)].owner = "orchestrator" /\ ~child[h][StageOf(h)].todo
                                           /\ child[h][StageOf(h)].card = "none"
         /\ Inspection(h) = "activate" => child[h][StageOf(h)].owner = "orchestrator" /\ child[h][StageOf(h)].card = "pending"
         /\ Inspection(h) = "approve" => StageOf(h) = "strong" /\ Approved(h, "strong")
<1>1. ASSUME NEW s \in Stages, NEW c \in Children, c = child[h][s]
      PROVE  /\ StageStep(h, s) = "approve" => Approved(h, s)
             /\ StageStep(h, s) = "dispatch" => c.owner = "none"
             /\ StageStep(h, s) = "bootstrap" => c.owner = "orchestrator" /\ ~c.todo /\ c.card = "none"
             /\ StageStep(h, s) = "activate" => c.owner = "orchestrator" /\ c.card = "pending"
  BY <1>1 DEF StageStep, Approved, Settled, Children
<1>2. \A s \in Stages : child[h][s] \in Children
  BY DEF TypeOK
<1> QED BY <1>1, <1>2 DEF StageOf, Inspection, Stages
-----------------------------------------------------------------------------
(* Every step but a crash, a merge or Jules moves at most one child, and   *)
(* never one whose verdict already counts.                                 *)
Moves(h, s, d) ==
  /\ Change(h, s, d) /\ d \in Children /\ ~Approved(h, s)
  /\ d.boot = "queued" => d.owner = "orchestrator" /\ d.card = "none"
  /\ d.boot = "none" => d.card = "none"
  /\ d.owner = "reviewer" => d.boot = "ok"
  /\ child[h][s].owner = "none" /\ s = "strong" => Approved(h, "luna")
ChildMoves == UNCHANGED child \/ \E h \in Heads, s \in Stages, d \in Children : Moves(h, s, d)

LEMMA TickMoves == IInv /\ Tick => ChildMoves
<1> SUFFICES ASSUME IInv, Tick PROVE ChildMoves
  OBVIOUS
<1> USE DEF IInv
<1>0. snap.head \in Heads /\ job.stage \in Stages /\ Hand \in Children
  BY DEF TypeOK, Hand
<1>1. CASE Create
  <2>1. CASE UNCHANGED child
    BY <2>1 DEF ChildMoves
  <2>2. CASE Change(snap.head, job.stage, Created)
    <3>1. Hand.owner = "none" /\ (job.stage = "strong" => Approved(snap.head, "luna"))
      BY <1>1 DEF Create, InHand
    <3>2. ~Approved(snap.head, job.stage)
      BY <3>1, <1>0 DEF Hand, Approved, Children, Absent
    <3>3. Moves(snap.head, job.stage, Created)
      BY <2>2, <3>1, <3>2, ChildTypes DEF Moves, Created, Absent, Hand
    <3> QED BY <3>3, <1>0, ChildTypes DEF ChildMoves
  <2> QED BY <1>1, <2>1, <2>2 DEF Create
<1>2. CASE Launch
  <2> DEFINE d == [Hand EXCEPT !.todo = TRUE, !.boot = "queued"]
  <2>1. CASE UNCHANGED child
    BY <2>1 DEF ChildMoves
  <2>2. CASE Change(snap.head, job.stage, d)
    <3>1. Hand.owner = "orchestrator" /\ Hand.card = "none"
      BY <1>2 DEF Launch, InHand
    <3>2. d \in Children /\ d.owner = "orchestrator" /\ d.card = "none" /\ d.boot = "queued"
      BY <3>1, <1>0 DEF Absent, Children
    <3>3. ~Approved(snap.head, job.stage) /\ Hand.owner # "none"
      BY <3>1 DEF Hand, Approved
    <3> HIDE DEF d
    <3>4. Moves(snap.head, job.stage, d)
      BY <2>2, <3>2, <3>3 DEF Moves, Hand
    <3> QED BY <3>4, <3>2, <1>0 DEF ChildMoves
  <2> QED BY <1>2, <2>1, <2>2 DEF Launch, Hand
<1>3. CASE Activate
  <2> DEFINE d == [Hand EXCEPT !.owner = "reviewer", !.todo = TRUE]
  <2>1. CASE UNCHANGED child
    BY <2>1 DEF ChildMoves
  <2>2. CASE Change(snap.head, job.stage, d) /\ Hand.boot = "ok"
    <3>1. Hand.owner = "orchestrator" /\ Hand.card = "pending"
      BY <1>3 DEF Activate, InHand
    <3>2. d \in Children /\ d.card = "pending" /\ d.boot = "ok"
      BY <3>1, <2>2, <1>0 DEF Absent, Children
    <3>3. ~Approved(snap.head, job.stage)
      BY <3>1 DEF Hand, Approved
    <3> HIDE DEF d
    <3>4. Moves(snap.head, job.stage, d)
      BY <2>2, <3>1, <3>2, <3>3 DEF Moves, Hand
    <3> QED BY <3>4, <3>2, <1>0 DEF ChildMoves
  <2> QED BY <1>3, <2>1, <2>2 DEF Activate, Hand
<1>4. CASE ~(Create \/ Launch \/ Activate)
  <2>1. UNCHANGED child
    BY <1>4 DEF Tick, TickStart, Invalidate, CancelRuns, Terminalize, Recover, Resume, Wake, CheckRelease, Release, Board,
                Pipeline, Reassign, Ask, Preserve, paperclip
  <2> QED BY <2>1 DEF ChildMoves
<1> QED BY <1>1, <1>2, <1>3, <1>4

\* The run on a child moves that child, whose card nobody has answered.
LEMMA BootMoves ==
  ASSUME IInv, snap.head \in Heads, job.stage \in Stages, NEW d \in Children, Boot(d),
         Hand.owner = "orchestrator", d.owner = "orchestrator", d.boot # "queued",
         d.boot = "none" => d.card = "none"
  PROVE  ChildMoves
<1>1. ~Approved(snap.head, job.stage)
  BY DEF IInv, TypeOK, Hand, Approved, Children
<1>2. Moves(snap.head, job.stage, d)
  BY <1>1 DEF Moves, Boot, Hand
<1> QED BY <1>2 DEF ChildMoves

LEMMA BootRunMoves == IInv /\ BootRun => ChildMoves
<1> SUFFICES ASSUME IInv, BootRun PROVE ChildMoves
  OBVIOUS
<1> USE DEF IInv
<1>0. snap.head \in Heads /\ job.stage \in Stages /\ Hand \in Children /\ BootChild = Hand
  BY DEF TypeOK, Hand, BootChild
<1>1. CASE BootStart
  <2> PICK h \in Heads, s \in Stages :
        child[h][s].boot = "queued" /\ Change(h, s, [child[h][s] EXCEPT !.boot = "running"])
    BY <1>1 DEF BootStart
  <2> DEFINE d == [child[h][s] EXCEPT !.boot = "running"]
  <2>1. child[h][s] \in Children /\ child[h][s].owner = "orchestrator" /\ child[h][s].card = "none"
    BY DEF TypeOK, Boots
  <2>2. d \in Children /\ d.boot = "running"
    BY <2>1 DEF Children, Absent
  <2> HIDE DEF d
  <2>3. Moves(h, s, d)
    BY <2>1, <2>2 DEF Moves, Approved, d
  <2> QED BY <2>2, <2>3 DEF ChildMoves
<1>2. CASE BootCard
  <2>1. PICK posted \in BOOLEAN, o \in {"ok", "refused", "lost", "unheard"} :
          Boot([Hand EXCEPT !.card = IF posted THEN "pending" ELSE @,
                            !.boot = IF posted /\ o = "ok" THEN @ ELSE "failed"])
    BY <1>2, <1>0 DEF BootCard, Applied
  <2> DEFINE d == [Hand EXCEPT !.card = IF posted THEN "pending" ELSE @,
                               !.boot = IF posted /\ o = "ok" THEN @ ELSE "failed"]
  <2>2. Hand.owner = "orchestrator" /\ Hand.card = "none" /\ Hand.boot = "running"
    BY <1>2 DEF BootCard, InHand
  <2>3. d \in Children /\ d.boot \in {"running", "failed"} /\ d.owner = "orchestrator"
    BY <2>2, <1>0 DEF Children, Absent
  <2> HIDE DEF d
  <2> QED BY <2>1, <2>2, <2>3, <1>0, BootMoves DEF d
<1>3. CASE BootPark \/ BootEnd
  <2>1. PICK todo \in BOOLEAN, end \in {"running", "failed", "ok"} :
          Boot([Hand EXCEPT !.todo = todo, !.boot = end])
    <3>1. Hand.boot = "running" /\ Hand.todo \in BOOLEAN /\ [Hand EXCEPT !.todo = Hand.todo] = Hand
      BY <1>3, <1>0 DEF BootPark, BootEnd, InHand, Children
    <3>2. CASE BootPark
      BY <3>2, <1>0, <3>1 DEF BootPark, Applied
    <3>3. CASE BootEnd
      <4>1. [Hand EXCEPT !.boot = "ok"] = [Hand EXCEPT !.todo = Hand.todo, !.boot = "ok"]
        BY <1>0 DEF Children
      <4> QED BY <3>3, <1>0, <3>1, <4>1 DEF BootEnd
    <3> QED BY <1>3, <3>2, <3>3
  <2> DEFINE d == [Hand EXCEPT !.todo = todo, !.boot = end]
  <2>2. Hand.owner = "orchestrator" /\ Hand.card = "pending"
    BY <1>3 DEF BootPark, BootEnd, InHand
  <2>3. d \in Children /\ d.boot \in {"running", "failed", "ok"} /\ d.owner = "orchestrator"
    BY <2>2, <1>0 DEF Children, Absent
  <2> HIDE DEF d
  <2> QED BY <2>1, <2>2, <2>3, <1>0, BootMoves DEF d
<1> QED BY <1>1, <1>2, <1>3 DEF BootRun

LEMMA CrashMoves == IInv /\ Crash => ChildMoves
<1> SUFFICES ASSUME IInv, Crash PROVE ChildMoves
  OBVIOUS
<1>1. snap.head \in Heads /\ job.stage \in Stages /\ Hand \in Children /\ BootChild = Hand
  BY DEF IInv, TypeOK, Hand, BootChild
<1>2. CASE UNCHANGED child
  BY <1>2 DEF ChildMoves
<1>3. CASE pc \in BootSteps
  <2> DEFINE d == [Hand EXCEPT !.boot = "failed"]
  <2>1. Boot(d)
    BY <1>1, <1>3 DEF Crash
  <2>2. Hand.owner = "orchestrator" /\ Hand.card \in {"none", "pending"}
    BY <1>3 DEF IInv, InHand, BootSteps
  <2>3. d \in Children /\ d.boot = "failed" /\ d.owner = "orchestrator"
    BY <2>2, <1>1 DEF Children, Absent
  <2> HIDE DEF d
  <2> QED BY <2>1, <2>2, <2>3, <1>1, BootMoves
<1> QED BY <1>2, <1>3 DEF Crash

LEMMA WorldMoves == IInv /\ World => ChildMoves
<1> SUFFICES ASSUME IInv, World PROVE ChildMoves
  OBVIOUS
<1> USE DEF IInv
<1>1. CASE ReviewerAnswers
  <2> PICK h \in Heads, s \in Stages, v \in {"approve", "reject"} :
        /\ child[h][s].owner = "reviewer" /\ child[h][s].card = "pending"
        /\ Change(h, s, [child[h][s] EXCEPT !.card = v, !.rev = "running"])
    BY <1>1 DEF ReviewerAnswers
  <2> DEFINE d == [child[h][s] EXCEPT !.card = v, !.rev = "running"]
  <2>1. child[h][s] \in Children /\ child[h][s].boot = "ok"
    BY DEF TypeOK, Boots
  <2>3. d \in Children /\ d.boot = "ok"
    BY <2>1 DEF Children, Absent
  <2> HIDE DEF d
  <2>4. Moves(h, s, d)
    BY <2>3 DEF Moves, Approved, d
  <2> QED BY <2>3, <2>4 DEF ChildMoves
<1>2. CASE ReviewerEnds
  <2> PICK h \in Heads, s \in Stages, end \in {"ok", "failed"} :
        child[h][s].rev = "running" /\ Change(h, s, [child[h][s] EXCEPT !.rev = end])
    BY <1>2 DEF ReviewerEnds
  <2> DEFINE d == [child[h][s] EXCEPT !.rev = end]
  <2>1. child[h][s] \in Children
    BY DEF TypeOK
  <2>2. child[h][s].owner = "reviewer" /\ child[h][s].boot = "ok" /\ child[h][s].card \in {"approve", "reject"}
    BY <2>1 DEF Children
  <2>3. d \in Children /\ d.boot = "ok"
    BY <2>1, <2>2 DEF Children, Absent
  <2> HIDE DEF d
  <2>4. Moves(h, s, d)
    BY <2>2, <2>3 DEF Moves, Approved, d
  <2> QED BY <2>3, <2>4 DEF ChildMoves
<1>3. CASE ~Reviewers
  <2>1. UNCHANGED child
    BY <1>3 DEF World, Reviewers, JulesStarts, JulesPushes, JulesHandsOff, JulesWaits, JulesFails,
                ChecksTurnGreen, OperatorDecides, UserMerges, paperclip
  <2> QED BY <2>1 DEF ChildMoves
<1> QED BY <1>1, <1>2, <1>3 DEF Reviewers

\* Whatever moves, verdicts stay, and the ladder stays in order.
LEMMA MovesKeep ==
  ASSUME IInv, ChildMoves
  PROVE  /\ child' \in [Heads -> [Stages -> Children]] /\ Boots' /\ LadderInOrder'
         /\ \A h \in Heads, s \in Stages : Approved(h, s) => Approved(h, s)'
<1> USE DEF IInv
<1>1. CASE UNCHANGED child
  BY <1>1 DEF TypeOK, Boots, LadderInOrder, Approved
<1>2. CASE \E h \in Heads, s \in Stages, d \in Children : Moves(h, s, d)
  <2> PICK h \in Heads, s \in Stages, d \in Children : Moves(h, s, d)
    BY <1>2
  <2>1. /\ child' \in [Heads -> [Stages -> Children]] /\ child'[h][s] = d
        /\ \A g \in Heads, r \in Stages : g # h \/ r # s => child'[g][r] = child[g][r]
    BY ChangeOne DEF TypeOK, Moves
  <2>2. \A g \in Heads, r \in Stages : Approved(g, r) => Approved(g, r)'
    BY <2>1 DEF Approved, Moves
  <2>3. Boots'
    BY <2>1 DEF Boots, Moves
  <2>4. LadderInOrder'
    <3> SUFFICES ASSUME NEW g \in Heads, child'[g]["strong"].owner # "none"
                 PROVE  Approved(g, "luna")'
      BY DEF LadderInOrder
    <3>1. Approved(g, "luna")
      BY <2>1 DEF LadderInOrder, Moves, Stages
    <3> QED BY <3>1, <2>2 DEF Stages
  <2> QED BY <2>1, <2>2, <2>3, <2>4
<1> QED BY <1>1, <1>2 DEF ChildMoves

LEMMA NextMoves == IInv /\ [Next]_vars => ChildMoves
<1> SUFFICES ASSUME IInv, [Next]_vars PROVE ChildMoves
  OBVIOUS
<1>1. CASE UNCHANGED vars
  BY <1>1 DEF vars, paperclip, ChildMoves
<1> QED BY <1>1, TickMoves, BootRunMoves, CrashMoves, WorldMoves DEF Next
-----------------------------------------------------------------------------
(* The shape of the state.  The children are the concern of MovesKeep.     *)
Shape ==
  /\ issue \in Issues /\ run \in {"none", "live"} /\ registered \in Heads /\ proof \in BOOLEAN
  /\ pr \in [head : Heads, merged : BOOLEAN] /\ ci \subseteq Heads
  /\ approval \in [state : Gate, head : Heads] /\ completed \subseteq Keys
  /\ pc \in Places /\ snap \in Snaps /\ job \in Jobs /\ faults \in 0 .. MaxFaults

LEMMA ShapeIsType == TypeOK <=> Shape /\ child \in [Heads -> [Stages -> Children]]
  BY DEF TypeOK, Shape, Issues, Snaps, Jobs, Places

\* The writes that replace the whole record of the issue.
LEMMA IssueWrites ==
  /\ [status |-> "done", owner |-> "none", monitor |-> FALSE, woken |-> FALSE] \in Issues
  /\ \A kept \in BOOLEAN : [status |-> "in_review", owner |-> "none", monitor |-> kept, woken |-> FALSE] \in Issues
  BY DEF Issues, Statuses, Owners

LEMMA ShapeTick == TypeOK /\ InHand /\ Tick => Shape'
<1> SUFFICES ASSUME TypeOK, InHand, Tick PROVE Shape'
  OBVIOUS
<1>0. Shape
  BY ShapeIsType
<1> USE <1>0
<1>1. StageOf(snap.head) \in Stages
  BY LadderSteps DEF Shape, Snaps
<1>2. ASSUME NEW k \in {"merge", "rejected", "red", "promote"} PROVE Key(k) \in Keys
  BY KeyType DEF Shape
<1>3. NoJob \in Jobs /\ NoSnap \in Snaps
  BY DEF NoJob, NoSnap, Jobs, Snaps, Heads, Stages, Statuses, Owners, Gate
<1> USE DEF Shape
<1>4. CASE TickStart
  <2>1. Live \in BOOLEAN
    BY DEF Live, Issues
  <2>2. snap' \in Snaps
    BY <1>4, <2>1 DEF TickStart, Issues, Snaps
  <2> QED BY <1>4, <2>2, <1>3 DEF TickStart, paperclip, jules, github, Places, Calls
<1>5. CASE Invalidate
  BY <1>5, FaultsBounded, StepType DEF Invalidate, GoTo, Paper, jules, github, Gate, Places, Calls
<1>6. CASE CancelRuns \/ Terminalize
  <2>1. CASE CancelRuns
    <3>1. faults' \in 0 .. MaxFaults
      BY <2>1, FaultsBounded DEF CancelRuns
    <3>2. issue' \in Issues /\ run' \in {"none", "live"} /\ proof' \in BOOLEAN
      BY <2>1 DEF CancelRuns, Issues
    <3> QED BY <2>1, <3>1, <3>2, StepType DEF CancelRuns, GoTo, github, Places, Calls
  <2>2. CASE Terminalize
    <3>1. completed' \subseteq Keys /\ faults' \in 0 .. MaxFaults
      BY <2>2, <1>2, FaultsBounded DEF Terminalize
    <3>2. issue' \in Issues /\ run' \in {"none", "live"}
      BY <2>2, IssueWrites DEF Terminalize, Terminal
    <3> QED BY <2>2, <3>1, <3>2, StepType DEF Terminalize, github, Places, Calls
  <2> QED BY <1>6, <2>1, <2>2
<1>7. CASE Recover
  <2>1. [kind |-> Remedy, stage |-> "luna"] \in Jobs /\ [kind |-> "promote", stage |-> "luna"] \in Jobs
    BY DEF Remedy, Jobs, Stages
  <2>2. faults' \in 0 .. MaxFaults
    BY <1>7, FaultsBounded DEF Recover
  <2>3. pc' \in Places /\ snap' \in Snaps /\ job' \in Jobs /\ completed' = completed
    BY <1>7, <2>1, StepType DEF Recover, Work, GoTo, Places, Calls
  <2> QED BY <1>7, <2>2, <2>3 DEF Recover, Paper, paperclip, jules, github
<1>8. CASE Resume
  <2>1. job.kind \in {"rejected", "red"}
    BY <1>8 DEF Resume, InHand
  <2>2. completed' \subseteq Keys /\ faults' \in 0 .. MaxFaults
    BY <1>8, <1>2, <2>1, FaultsBounded DEF Resume
  <2>3. issue' \in Issues
    BY <1>8 DEF Resume, Issues, Statuses, Owners
  <2>4. [snap EXCEPT !.status = "in_progress"] \in Snaps
    BY DEF Snaps, Statuses
  <2>5. pc' \in Places /\ snap' \in Snaps /\ job' \in Jobs
    BY <1>8, <2>4, StepType DEF Resume, Places, Calls
  <2> QED BY <1>8, <2>2, <2>3, <2>5 DEF Resume, Paper, jules, github
<1>9. CASE Wake
  <2>1. pc = "wake" => job.kind \in {"rejected", "red"}
    BY DEF InHand
  <2>2. completed' \subseteq Keys /\ faults' \in 0 .. MaxFaults
    BY <1>9, <1>2, <2>1, FaultsBounded DEF Wake
  <2>3. issue' \in Issues
    BY <1>9 DEF Wake, Issues
  <2> QED BY <1>9, <2>2, <2>3, StepType DEF Wake, Paper, jules, github, Places, Calls
<1>10. CASE CheckRelease
  <2>1. completed' \subseteq Keys /\ faults' \in 0 .. MaxFaults
    BY <1>10, <1>2, FaultsBounded DEF CheckRelease
  <2>2. pc' \in Places /\ snap' \in Snaps /\ job' \in Jobs
    BY <1>10, StepType DEF CheckRelease, Places, Calls
  <2> QED BY <1>10, <2>1, <2>2 DEF CheckRelease, Paper, paperclip, jules, github
<1>11. CASE Release
  <2>1. completed' \subseteq Keys /\ faults' \in 0 .. MaxFaults
    BY <1>11, <1>2, FaultsBounded DEF Release
  <2>2. issue' \in Issues /\ run' \in {"none", "live"} /\ proof' \in BOOLEAN
    BY <1>11 DEF Release, Issues, Statuses, Owners
  <2>3. [snap EXCEPT !.status = "in_review"] \in Snaps
    BY DEF Snaps, Statuses
  <2>4. pc' \in Places /\ snap' \in Snaps /\ job' \in Jobs
    BY <1>11, <2>3, StepType DEF Release, Places, Calls
  <2> QED BY <1>11, <2>1, <2>2, <2>4 DEF Release, github
<1>12. CASE Board
  <2>1. [kind |-> "board", stage |-> "luna"] \in Jobs
    BY DEF Jobs, Stages
  <2> QED BY <1>12, <2>1, StepType DEF Board, Work, GoTo, paperclip, jules, github, Places, Calls
<1>13. CASE Pipeline
  <2>1. [kind |-> "ladder", stage |-> StageOf(snap.head)] \in Jobs
    BY <1>1 DEF Jobs
  <2>2. NextOf(snap.head) \in Places
    BY DEF NextOf, Places, Calls
  <2>3. (IF LaneOpen THEN NextOf(snap.head) ELSE "idle") \in Places
    BY <2>2 DEF Places
  <2> QED BY <1>13, <2>1, <2>3, StepType DEF Pipeline, Work, paperclip, jules, github
<1>14. CASE Create \/ Launch \/ Activate
  <2>1. faults' \in 0 .. MaxFaults
    BY <1>14, FaultsBounded DEF Create, Launch, Activate
  <2> QED BY <1>14, <2>1, StepType DEF Create, Launch, Activate, GoTo, Paper, jules, github, Places, Calls
<1>15. CASE Reassign \/ Ask
  <2>1. faults' \in 0 .. MaxFaults
    BY <1>15, FaultsBounded DEF Reassign, Ask
  <2>2. [issue EXCEPT !.status = "in_progress", !.owner = "jules"] \in Issues
    BY DEF Issues, Statuses, Owners
  <2>4. [state |-> "pending", head |-> snap.head] \in [state : Gate, head : Heads]
    BY DEF Gate, Snaps
  <2>5. issue' \in Issues
    BY <1>15, <2>2 DEF Reassign, Ask
  <2>6. approval' \in [state : Gate, head : Heads]
    BY <1>15, <2>4 DEF Reassign, Ask
  <2>3. pc' \in Places /\ snap' \in Snaps /\ job' \in Jobs
    BY <1>15, StepType DEF Reassign, Ask, GoTo, Places, Calls
  <2> QED BY <1>15, <2>1, <2>3, <2>5, <2>6 DEF Reassign, Ask, GoTo, Paper, jules, github
<1>16. CASE Preserve
  <2>1. faults' \in 0 .. MaxFaults
    BY <1>16, FaultsBounded DEF Preserve
  <2>2. issue' \in Issues /\ run' \in {"none", "live"} /\ proof' \in BOOLEAN
    BY <1>16, IssueWrites DEF Preserve
  <2> QED BY <1>16, <2>1, <2>2, StepType DEF Preserve, GoTo, github, Places, Calls
<1> QED BY <1>4, <1>5, <1>6, <1>7, <1>8, <1>9, <1>10, <1>11, <1>12, <1>13, <1>14, <1>15, <1>16 DEF Tick

LEMMA ShapeOthers == TypeOK /\ (BootRun \/ Crash \/ World \/ UNCHANGED vars) => Shape'
<1> SUFFICES ASSUME TypeOK, BootRun \/ Crash \/ World \/ UNCHANGED vars PROVE Shape'
  OBVIOUS
<1>0. Shape
  BY ShapeIsType
<1> USE <1>0 DEF Shape
<1>1. CASE BootStart
  <2> PICK h \in Heads, s \in Stages : snap' = [snap EXCEPT !.head = h] /\ job' = [kind |-> "boot", stage |-> s]
    BY <1>1 DEF BootStart
  <2> QED BY <1>1 DEF BootStart, Paper, jules, github, Snaps, Jobs, Places, BootSteps
<1>2. CASE BootCard \/ BootPark \/ BootEnd
  <2>1. faults' \in 0 .. MaxFaults
    BY <1>2, FaultsBounded DEF BootCard, BootPark, BootEnd
  <2>2. pc' \in Places /\ snap' \in Snaps /\ job' \in Jobs
    BY <1>2, StepType DEF BootCard, BootPark, BootEnd, GoTo, Places, BootSteps
  <2> QED BY <1>2, <2>1, <2>2 DEF BootCard, BootPark, BootEnd, GoTo, Paper, jules, github
<1>3. CASE Crash
  BY <1>3, StepType DEF Crash, jules, github, Places
<1>4. CASE JulesStarts \/ JulesPushes \/ JulesHandsOff \/ JulesWaits \/ JulesFails
  <2>1. ASSUME NEW b \in BOOLEAN PROVE [issue EXCEPT !.monitor = b] \in Issues
    BY DEF Issues
  <2>2. CASE JulesStarts
    BY <2>2 DEF JulesStarts, github, tick, Issues
  <2>3. CASE JulesPushes
    <3>1. pr' \in [head : Heads, merged : BOOLEAN]
      BY <2>3 DEF JulesPushes, Heads
    <3> QED BY <2>3, <3>1 DEF JulesPushes, paperclip, jules, tick
  <2>4. CASE JulesHandsOff
    BY <2>4, IssueWrites DEF JulesHandsOff, github, tick
  <2>5. CASE JulesWaits
    <3>1. issue' = [issue EXCEPT !.monitor = TRUE]
      BY <2>5 DEF JulesWaits
    <3>2. issue' \in Issues
      BY <3>1, <2>1
    <3> QED BY <2>5, <3>2 DEF JulesWaits, github, tick
  <2>6. CASE JulesFails
    <3>1. PICK kept \in BOOLEAN : issue' = [issue EXCEPT !.monitor = kept]
      BY <2>6 DEF JulesFails
    <3>2. issue' \in Issues
      BY <3>1, <2>1
    <3>3. faults' \in 0 .. MaxFaults
      BY <2>6 DEF JulesFails
    <3> QED BY <2>6, <3>2, <3>3 DEF JulesFails, github, tick
  <2> QED BY <1>4, <2>2, <2>3, <2>4, <2>5, <2>6
<1>5. CASE Reviewers
  <2>1. faults' \in 0 .. MaxFaults
    <3>1. CASE ReviewerAnswers
      BY <3>1 DEF ReviewerAnswers
    <3>2. CASE ReviewerEnds
      <4>1. faults' = faults \/ (faults < MaxFaults /\ faults' = faults + 1)
        BY <3>2, Zenon DEF ReviewerEnds
      <4> QED BY <4>1
    <3> QED BY <1>5, <3>1, <3>2 DEF Reviewers
  <2> QED BY <1>5, <2>1 DEF Reviewers, ReviewerAnswers, ReviewerEnds, jules, github, tick
<1>6. CASE ChecksTurnGreen \/ OperatorDecides \/ UserMerges
  BY <1>6 DEF ChecksTurnGreen, OperatorDecides, UserMerges, paperclip, jules, github, tick, Gate, Heads
<1>7. CASE UNCHANGED vars
  BY <1>7 DEF vars, paperclip, jules, github, tick
<1> QED BY <1>1, <1>2, <1>3, <1>4, <1>5, <1>6, <1>7 DEF BootRun, World
-----------------------------------------------------------------------------
(* What the next step has in hand.                                         *)
Handed == {"resume", "wake", "create", "launch", "activate", "bootCard", "bootPark", "bootEnd", "ask"}

LEMMA EmptyHand == pc' \notin Handed => InHand'
  BY DEF Handed, InHand

\* Nobody else moves a child that has not reached its reviewer.
LEMMA WorldHand ==
  ASSUME IInv, World, NEW h \in Heads, NEW s \in Stages, child[h][s].owner # "reviewer"
  PROVE  child'[h][s] = child[h][s]
<1>1. CASE UNCHANGED child
  BY <1>1
<1>2. CASE Reviewers
  <2>1. PICK g \in Heads, r \in Stages, d \in Children :
          Change(g, r, d) /\ child[g][r].owner = "reviewer"
    <3>1. CASE ReviewerAnswers
      <4> PICK g \in Heads, r \in Stages, v \in {"approve", "reject"} :
            /\ child[g][r].owner = "reviewer" /\ child[g][r].card = "pending"
            /\ Change(g, r, [child[g][r] EXCEPT !.card = v, !.rev = "running"])
        BY <3>1 DEF ReviewerAnswers
      <4> DEFINE d == [child[g][r] EXCEPT !.card = v, !.rev = "running"]
      <4>1. child[g][r] \in Children /\ child[g][r].boot = "ok"
        BY DEF IInv, TypeOK, Boots
      <4>2. d \in Children
        BY <4>1 DEF Children, Absent
      <4> HIDE DEF d
      <4> QED BY <4>2 DEF d
    <3>2. CASE ReviewerEnds
      <4> PICK g \in Heads, r \in Stages, end \in {"ok", "failed"} :
            child[g][r].rev = "running" /\ Change(g, r, [child[g][r] EXCEPT !.rev = end])
        BY <3>2 DEF ReviewerEnds
      <4> DEFINE d == [child[g][r] EXCEPT !.rev = end]
      <4>1. child[g][r] \in Children
        BY DEF IInv, TypeOK
      <4>2. child[g][r].owner = "reviewer" /\ child[g][r].boot = "ok" /\ child[g][r].card \in {"approve", "reject"}
        BY <4>1 DEF Children
      <4>3. d \in Children
        BY <4>1, <4>2 DEF Children, Absent
      <4> HIDE DEF d
      <4> QED BY <4>2, <4>3 DEF d
    <3> QED BY <1>2, <3>1, <3>2 DEF Reviewers
  <2>2. g # h \/ r # s
    BY <2>1
  <2> QED BY <2>1, <2>2, ChangeOne DEF IInv, TypeOK
<1>3. UNCHANGED child \/ Reviewers
  BY DEF World, JulesStarts, JulesPushes, JulesHandsOff, JulesWaits, JulesFails,
         ChecksTurnGreen, OperatorDecides, UserMerges, paperclip
<1> QED BY <1>1, <1>2, <1>3

LEMMA HandWorld == IInv /\ (World \/ UNCHANGED vars) => InHand'
<1> SUFFICES ASSUME IInv, World \/ UNCHANGED vars, pc' \in Handed PROVE InHand'
  BY EmptyHand
<1>1. pc' = pc /\ snap' = snap /\ job' = job
  BY DEF World, Reviewers, ReviewerAnswers, ReviewerEnds, JulesStarts, JulesPushes, JulesHandsOff, JulesWaits,
         JulesFails, ChecksTurnGreen, OperatorDecides, UserMerges, vars, tick
<1>2. snap.head \in Heads /\ job.stage \in Stages
  BY DEF IInv, TypeOK
<1>3. Hand.owner # "reviewer" => Hand' = Hand
  <2>1. CASE World
    BY <2>1, <1>1, <1>2, WorldHand DEF Hand
  <2>2. CASE UNCHANGED vars
    BY <2>2 DEF vars, paperclip, tick, Hand
  <2> QED BY <2>1, <2>2
<1>4. \A h \in Heads, s \in Stages : Approved(h, s) => Approved(h, s)'
  BY NextMoves, MovesKeep DEF Next
<1> QED BY <1>1, <1>2, <1>3, <1>4 DEF IInv, InHand, Stages

LEMMA HandTick == IInv /\ Tick => InHand'
<1> SUFFICES ASSUME IInv, Tick, pc' \in Handed PROVE InHand'
  BY EmptyHand
<1>0. snap.head \in Heads /\ job.stage \in Stages /\ Hand \in Children
  BY DEF IInv, TypeOK, Hand
<1>1. CASE Recover
  BY <1>1 DEF Recover, Remedy, Work, GoTo, Step, InHand
<1>2. CASE Resume
  <2>1. pc' = "wake" /\ job' = job
    BY <1>2 DEF Resume, Step, Handed
  <2> QED BY <1>2, <2>1 DEF Resume, IInv, InHand
<1>3. CASE Pipeline
  <2>1. pc' # "idle" /\ pc' = NextOf(snap.head) /\ snap' = snap /\ child' = child /\ job'.stage = StageOf(snap.head)
    BY <1>3 DEF Pipeline, Work, Step, Handed, paperclip
  <2> DEFINE c == child[snap.head][StageOf(snap.head)]
  <2>2. Hand' = c
    BY <2>1 DEF Hand
  <2>3. c \in Children
    BY <1>0, LadderSteps DEF IInv, TypeOK
  <2>5. pc' = "create" => c.owner = "none" /\ (job'.stage = "strong" => Approved(snap.head, "luna"))
    BY <2>1, <1>0, LadderSteps DEF NextOf, IInv
  <2>6. pc' = "launch" => c.owner = "orchestrator" /\ c.card = "none"
    BY <2>1, <1>0, LadderSteps DEF NextOf, IInv
  <2>7. pc' = "activate" => c.owner = "orchestrator" /\ c.card = "pending"
    BY <2>1, <1>0, LadderSteps DEF NextOf, IInv
  <2>8. pc' = "ask" => \A s \in Stages : Approved(snap.head, s)
    BY <2>1, <1>0, LadderSteps DEF NextOf, IInv, Stages
  <2>9. pc' \in {"create", "launch", "activate", "reassign", "ask"}
    BY <2>1 DEF NextOf
  <2>10. \A s \in Stages : Approved(snap.head, s) => Approved(snap.head, s)'
    BY <2>1 DEF Approved
  <2> HIDE DEF c
  <2> QED BY <2>1, <2>2, <2>5, <2>6, <2>7, <2>8, <2>9, <2>10 DEF InHand, Stages
<1>4. CASE Create
  <2>1. pc' = "launch" /\ snap' = snap /\ job' = job /\ ParentInReview(snap.head)
    BY <1>4 DEF Create, GoTo, Step, Handed
  <2>2. Hand.owner = "none"
    BY <1>4 DEF Create, IInv, InHand
  <2>3. Change(snap.head, job.stage, Created)
    BY <1>4, <2>1, <2>2 DEF Create, GoTo, Step, Applied, Hand
  <2>4. child'[snap.head][job.stage] = Created
    BY <2>3, <1>0, ChangeOne, ChildTypes DEF IInv, TypeOK
  <2> QED BY <2>1, <2>4 DEF InHand, Hand, Created, Absent
<1>5. CASE ~(Recover \/ Resume \/ Pipeline \/ Create)
  <2>1. pc' \notin Handed
    BY <1>5 DEF Tick, TickStart, Invalidate, CancelRuns, Terminalize, Wake, CheckRelease, Release, Board,
                Launch, Activate, Reassign, Ask, Preserve, Work, GoTo, Step, Handed
  <2> QED BY <2>1
<1> QED BY <1>1, <1>2, <1>3, <1>4, <1>5

LEMMA HandBoot == IInv /\ (BootRun \/ Crash) => InHand'
<1> SUFFICES ASSUME IInv, BootRun \/ Crash, pc' \in Handed PROVE InHand'
  BY EmptyHand
<1>0. snap.head \in Heads /\ job.stage \in Stages /\ Hand \in Children /\ BootChild = Hand
  BY DEF IInv, TypeOK, Hand, BootChild
<1>1. CASE BootStart
  <2> PICK h \in Heads, s \in Stages :
        /\ child[h][s].boot = "queued" /\ Change(h, s, [child[h][s] EXCEPT !.boot = "running"])
        /\ snap' = [snap EXCEPT !.head = h] /\ job' = [kind |-> "boot", stage |-> s]
    BY <1>1 DEF BootStart
  <2> DEFINE d == [child[h][s] EXCEPT !.boot = "running"]
  <2>1. child[h][s] \in Children /\ child[h][s].owner = "orchestrator" /\ child[h][s].card = "none"
    BY DEF IInv, TypeOK, Boots
  <2>2. d \in Children /\ d.boot = "running" /\ d.owner = "orchestrator" /\ d.card = "none"
    BY <2>1 DEF Children, Absent
  <2>3. Change(h, s, d)
    OBVIOUS
  <2> HIDE DEF d
  <2>4. child'[h][s] = d
    BY <2>2, <2>3, ChangeOne DEF IInv, TypeOK
  <2>5. snap'.head = h /\ job'.stage = s
    BY DEF IInv, TypeOK
  <2>6. pc' = "bootCard"
    BY <1>1 DEF BootStart
  <2> QED BY <2>2, <2>4, <2>5, <2>6 DEF InHand, Hand
<1>2. CASE BootCard
  <2>1. pc' = "bootPark" /\ snap' = snap /\ job' = job
    BY <1>2 DEF BootCard, GoTo, Step, Handed
  <2>2. Boot([Hand EXCEPT !.card = "pending", !.boot = Hand.boot])
    BY <1>2, <1>0, <2>1 DEF BootCard, GoTo, Step
  <2> DEFINE d == [Hand EXCEPT !.card = "pending", !.boot = Hand.boot]
  <2>3. Hand.owner = "orchestrator" /\ Hand.card = "none" /\ Hand.boot = "running"
    BY <1>2 DEF BootCard, IInv, InHand
  <2>4. d \in Children /\ d.owner = "orchestrator" /\ d.card = "pending" /\ d.boot = "running"
    BY <2>3, <1>0 DEF Children, Absent
  <2> HIDE DEF d
  <2>5. child'[snap.head][job.stage] = d
    BY <2>2, <2>4, <1>0, ChangeOne DEF IInv, TypeOK, Boot, d
  <2> QED BY <2>1, <2>4, <2>5 DEF InHand, Hand
<1>3. CASE BootPark
  <2>1. pc' = "bootEnd" /\ snap' = snap /\ job' = job
    BY <1>3 DEF BootPark, GoTo, Step, Handed
  <2>2. PICK todo \in BOOLEAN : Boot([Hand EXCEPT !.todo = todo, !.boot = Hand.boot])
    BY <1>3, <1>0, <2>1 DEF BootPark, GoTo, Step, Applied
  <2> DEFINE d == [Hand EXCEPT !.todo = todo, !.boot = Hand.boot]
  <2>3. Hand.owner = "orchestrator" /\ Hand.card = "pending" /\ Hand.boot = "running"
    BY <1>3 DEF BootPark, IInv, InHand
  <2>4. d \in Children /\ d.owner = "orchestrator" /\ d.card = "pending" /\ d.boot = "running"
    BY <2>3, <1>0 DEF Children, Absent
  <2> HIDE DEF d
  <2>5. child'[snap.head][job.stage] = d
    BY <2>2, <2>4, <1>0, ChangeOne DEF IInv, TypeOK, Boot, d
  <2> QED BY <2>1, <2>4, <2>5 DEF InHand, Hand
<1>4. CASE BootEnd \/ Crash
  BY <1>4 DEF BootEnd, Crash, GoTo, Step, Handed
<1> QED BY <1>1, <1>2, <1>3, <1>4 DEF BootRun
-----------------------------------------------------------------------------
LEMMA InitIInv == Init => IInv
<1> SUFFICES ASSUME Init PROVE IInv
  OBVIOUS
<1>1. NoSnap \in Snaps /\ NoJob \in Jobs /\ 1 \in Heads
  BY DEF NoSnap, NoJob, Snaps, Jobs, Heads, Statuses, Owners, Gate, Stages
<1>2. Shape
  <2>1. issue \in Issues
    BY DEF Init, Issues, Statuses, Owners
  <2>2. [head |-> 1, merged |-> FALSE] \in [head : Heads, merged : BOOLEAN]
    BY <1>1
  <2>3. [state |-> "none", head |-> 1] \in [state : Gate, head : Heads]
    BY <1>1 DEF Gate
  <2>4. faults \in 0 .. MaxFaults /\ completed \subseteq Keys /\ ci \subseteq Heads
    BY DEF Init
  <2> QED BY <1>1, <2>1, <2>2, <2>3, <2>4 DEF Init, Shape, Places
<1>3. child \in [Heads -> [Stages -> Children]] /\ \A h \in Heads, s \in Stages : child[h][s] = Absent
  BY ChildTypes DEF Init
<1>4. Boots /\ LadderInOrder
  BY <1>3 DEF Boots, LadderInOrder, Absent, Stages
<1>5. MergeCardNeedsBothVerdicts /\ InHand
  BY DEF Init, MergeCardNeedsBothVerdicts, InHand
<1> QED BY <1>2, <1>3, <1>4, <1>5, ShapeIsType DEF IInv

LEMMA CardNext == IInv /\ [Next]_vars => MergeCardNeedsBothVerdicts'
<1> SUFFICES ASSUME IInv, [Next]_vars PROVE MergeCardNeedsBothVerdicts'
  OBVIOUS
<1>1. \A h \in Heads, s \in Stages : Approved(h, s) => Approved(h, s)'
  BY NextMoves, MovesKeep
<1>2. snap.head \in Heads /\ approval \in [state : Gate, head : Heads]
  BY DEF IInv, TypeOK
<1>3. CASE Ask
  <2>1. approval' = approval \/ approval' = [state |-> "pending", head |-> snap.head]
    BY <1>3 DEF Ask
  <2>2. \A s \in Stages : Approved(snap.head, s)
    BY <1>3 DEF Ask, IInv, InHand
  <2> QED BY <2>1, <2>2, <1>1, <1>2 DEF IInv, MergeCardNeedsBothVerdicts
<1>4. CASE ~Ask
  <2>1. approval' = approval \/ (approval.state # "none" /\ approval'.head = approval.head)
    <3>1. CASE Invalidate
      <4>1. approval' = approval \/ (approval.state = "pending" /\ approval' = [approval EXCEPT !.state = "superseded"])
        BY <3>1, Zenon DEF Invalidate
      <4> QED BY <4>1, <1>2
    <3>2. CASE OperatorDecides
      <4>1. PICK d \in {"approved", "rejected"} : approval' = [approval EXCEPT !.state = d]
        BY <3>2 DEF OperatorDecides
      <4> QED BY <3>2, <4>1, <1>2 DEF OperatorDecides
    <3>3. CASE ~Invalidate /\ ~OperatorDecides
      BY <3>3, <1>4 DEF Next, Tick, BootRun, World, TickStart, CancelRuns, Terminalize, Recover, Resume, Wake, CheckRelease,
         Release, Board, Pipeline, Create, Launch, Activate, Reassign, Preserve, BootStart, BootCard, BootPark,
         BootEnd, Crash, Reviewers, ReviewerAnswers, ReviewerEnds, JulesStarts, JulesPushes, JulesHandsOff,
         JulesWaits, JulesFails, ChecksTurnGreen, UserMerges, vars, paperclip
    <3> QED BY <3>1, <3>2, <3>3
  <2> QED BY <2>1, <1>1, <1>2 DEF IInv, MergeCardNeedsBothVerdicts
<1> QED BY <1>3, <1>4

LEMMA IInvNext == IInv /\ [Next]_vars => IInv'
<1> SUFFICES ASSUME IInv, [Next]_vars PROVE IInv'
  OBVIOUS
<1>1. child' \in [Heads -> [Stages -> Children]] /\ Boots' /\ LadderInOrder'
  BY NextMoves, MovesKeep
<1>2. Shape'
  BY ShapeTick, ShapeOthers DEF IInv, Next
<1>3. TypeOK'
  BY <1>1, <1>2 DEF Shape, TypeOK, Issues, Snaps, Jobs, Places
<1>4. InHand'
  BY HandTick, HandBoot, HandWorld DEF Next
<1> QED BY <1>1, <1>3, <1>4, CardNext DEF IInv

LEMMA Inductive == Spec => []IInv
  BY InitIInv, IInvNext, PTL DEF Spec

\* The state keeps the shape the code gives it (execute.ts, pr-review-child.ts).
THEOREM ReviewTypeCorrect == Spec => []TypeOK
<1>1. IInv => TypeOK
  BY DEF IInv
<1> QED BY <1>1, Inductive, PTL

\* The strong reviewer is asked only about a head that Luna approved, whatever
\* is pushed, lost or crashed meanwhile (inspectPrReviewChildren).
THEOREM LadderIsOrdered == Spec => []LadderInOrder
<1>1. IInv => LadderInOrder
  BY DEF IInv
<1> QED BY <1>1, Inductive, PTL

\* The operator's merge card is made for a head that both reviewers approved
\* (evaluateReviewPipelineProgress and the children of the head).
THEOREM MergeCardIsEarned == Spec => []MergeCardNeedsBothVerdicts
<1>1. IInv => MergeCardNeedsBothVerdicts
  BY DEF IInv
<1> QED BY <1>1, Inductive, PTL
=============================================================================
