----------------------------- MODULE Dispatcher -----------------------------
(***************************************************************************)
(* The dispatch of implementation tasks by the orchestrator heartbeat (the *)
(* tick).  It reads the board, takes stalled tasks back, selects tasks for *)
(* the Jules and the Vibe lane so that no two of them touch the same code, *)
(* asks the operator to authorize them, and starts the authorized ones.    *)
(* Every decision is taken on the snapshot of the tick's start; workers,   *)
(* reviews, the operator and the user go on meanwhile.                     *)
(***************************************************************************)
EXTENDS Integers, FiniteSets

CONSTANTS
  Tasks,           \* issues of the project
  Managed,         \* those the orchestrator manages
  Finished,        \* tasks that are done from the start
  Requires,        \* the tasks that a task depends on
  Files, Symbols,  \* what a task is going to touch (targetModules behave like files)
  SideEffects,     \* tasks that declare no symbol-local change (hasSideEffects)
  NonInterfering,  \* tasks that declare to touch nothing
  Exclusive,       \* tasks that ask for the whole code base
  Local,           \* tasks that prefer the Vibe lane
  Priority,        \* priorityRank, ties broken by the identifier
  Slots,           \* configured slots of each lane
  MaxMoves,        \* bound on moves of the user, pauses of tasks and rejections
  MaxFaults        \* bound on failed calls, crashes and failed runs

Lanes == {"jules", "vibe"}

VARIABLES
  status, owner, held,   \* Paperclip: the issue, its assignee, its execution blocker
  start,                 \* Paperclip: the card that authorizes the start
  woken, running,        \* Paperclip: a queued wake and a live run of the worker
  recent,                \* a Jules run reported its session in the last 48 hours
  touched,               \* the issue changed within the threshold of the reaper
  pc, view, queue, job,  \* the tick: its step, its snapshot, what is left of the step
  free, chosen,          \* free slots per lane, and the lane of each selected task
  reopened,              \* what the user reopened since the gate of the task that is about to start
  moves, faults          \* so far

board == <<status, owner, held, start>>
runs == <<woken, running, recent, touched>>
tick == <<pc, view, queue, job, free, chosen, reopened>>
vars == <<board, runs, tick, moves, faults>>

-----------------------------------------------------------------------------
(* Scopes and conflicts.                                                   *)

ExclusiveLock(t) == t \notin NonInterfering /\ (t \in Exclusive \/ Files[t] = {})
Fine(t) == Symbols[t] # {} /\ t \notin SideEffects

\* issueConflictReason, in its two halves: what always excludes two tasks,
\* and shared files, which two tasks that name their symbols may both touch.
Clash(t, u) ==
  /\ t \notin NonInterfering /\ u \notin NonInterfering
  /\ ExclusiveLock(t) \/ ExclusiveLock(u) \/ Symbols[t] \cap Symbols[u] # {}
Conflict(t, u) ==
  \/ Clash(t, u)
  \/ /\ t \notin NonInterfering /\ u \notin NonInterfering
     /\ Files[t] \cap Files[u] # {} /\ ~(Fine(t) /\ Fine(u))

-----------------------------------------------------------------------------
(* Selection, on the snapshot.                                             *)

Dispatchable == {t \in Managed : ~view.held[t]}
Working == {"in_progress", "in_review"}
AtWork == {t \in Dispatchable : view.status[t] \in Working}

\* The conflict matrix: an explicit dependency, or a task at work that comes
\* first.  A dependency outside the snapshot is not seen.
BlockedBy(t) ==
  (Requires[t] \cap {u \in Dispatchable : view.status[u] # "done"}) \cup
  {u \in AtWork : Conflict(u, t) /\ (view.status[u] = "in_progress" \/ Priority[u] > Priority[t])}

\* The locks of the tasks at work.
Locked(t) ==
  /\ t \notin NonInterfering
  /\ \/ \E u \in AtWork : ExclusiveLock(u)
     \/ ExclusiveLock(t) /\ AtWork \ NonInterfering # {}
     \/ \E u \in AtWork : Symbols[u] \cap Symbols[t] # {}
     \/ ~Fine(t) /\ \E u \in AtWork : Files[u] \cap Files[t] # {}

Candidates == {t \in Dispatchable : view.status[t] = "todo" /\ BlockedBy(t) = {} /\ ~Locked(t)}

\* Mutant: the operator's authorization does not count in the order.
ByPriority(t, u) == Priority[t] > Priority[u]

\* Authorized tasks first, then by priority.
Before(t, u) ==
  LET first(x) == view.start[x] = "approved" IN
  IF first(t) # first(u) THEN first(t) ELSE Priority[t] > Priority[u]
First(t) == t \in queue /\ \A u \in queue \ {t} : Before(t, u)

\* A task whose session lives with Jules resumes there or waits.
Lane(t) ==
  IF ~view.recent[t] /\ t \in Local /\ free["vibe"] > 0 THEN "vibe"
  ELSE IF free["jules"] > 0 THEN "jules"
  ELSE IF ~view.recent[t] /\ free["vibe"] > 0 THEN "vibe" ELSE "none"

\* Mutant: a selected task is not compared with the selected ones.
CollidesNever(t) == FALSE

Collides(t) == \E u \in Tasks : chosen[u] # "none" /\ Conflict(t, u)

-----------------------------------------------------------------------------
(* Calls and steps of the tick.                                            *)

\* A call succeeds, fails without effect, or takes effect without answer.
Outcomes(o) == o = "ok" \/ (o \in {"failed", "unheard"} /\ faults < MaxFaults)
Applied(o) == o \in {"ok", "unheard"}
Charge(o) == faults' = IF o = "ok" THEN faults ELSE faults + 1

Nobody == [t \in Tasks |-> "none"]
Default == CHOOSE t \in Tasks : TRUE
Begin(p, q) == pc' = p /\ queue' = q /\ reopened' = {}
Rest == UNCHANGED <<view, job, free, chosen>>
Aside == UNCHANGED tick

NoView == [status |-> [t \in Tasks |-> "todo"], owner |-> Nobody, held |-> [t \in Tasks |-> FALSE],
           start |-> Nobody, recent |-> [t \in Tasks |-> FALSE]]
Snapshot == [status |-> status, owner |-> owner, held |-> held, start |-> start, recent |-> recent]
\* No live run, no recent activity, and for Jules no recent report of its session.
Stalled == {t \in Tasks : /\ status[t] = "in_progress" /\ owner[t] # "none" /\ ~running[t] /\ ~touched[t]
                          /\ owner[t] = "jules" => ~recent[t]}

TickStart ==
  /\ pc = "idle"
  /\ view' = Snapshot /\ chosen' = Nobody
  /\ Begin("reap", Stalled)
  /\ UNCHANGED <<board, runs, job, free, moves, faults>>

\* Fresh evidence keeps a task with Jules, and so does a list that cannot be
\* read; for Vibe the snapshot is enough.
Reap ==
  /\ pc = "reap" /\ queue # {}
  /\ \E t \in queue, o \in {"ok", "failed"} :
       /\ Outcomes(o) /\ Charge(o) /\ (o = "failed" => owner[t] = "jules")
       /\ job' = t
       /\ LET keep == owner[t] = "jules" /\ (o = "failed" \/ running[t] \/ woken[t] \/ held[t])
          IN  Begin(IF keep THEN "reap" ELSE "reclaim", queue \ {t})
  /\ UNCHANGED <<board, runs, view, free, chosen, moves>>

Reclaim ==
  /\ pc = "reclaim"
  /\ \E o \in {"ok", "failed", "unheard"} :
       /\ Outcomes(o) /\ Charge(o)
       /\ IF Applied(o)
          THEN status' = [status EXCEPT ![job] = "todo"] /\ touched' = [touched EXCEPT ![job] = TRUE]
          ELSE UNCHANGED <<status, touched>>
       /\ view' = IF o = "ok" THEN [view EXCEPT !.status = [@ EXCEPT ![job] = "todo"]] ELSE view
  /\ Begin("reap", queue)
  /\ UNCHANGED <<owner, held, start, woken, running, recent, job, free, chosen, moves>>

\* Free slots: a lane is never counted below what already runs in it.
Free(l) == LET n == Cardinality({t \in Tasks : view.status[t] = "in_progress" /\ view.owner[t] = l})
           IN  IF Slots[l] > n THEN Slots[l] - n ELSE 0

Plan ==
  /\ pc = "reap" /\ queue = {}
  /\ free' = [l \in Lanes |-> Free(l)]
  /\ Begin("select", Candidates)
  /\ UNCHANGED <<board, runs, view, job, chosen, moves, faults>>

Select ==
  /\ pc = "select"
  /\ \E t \in Tasks :
       /\ First(t)
       /\ LET l == IF Collides(t) THEN "none" ELSE Lane(t) IN
          /\ chosen' = [chosen EXCEPT ![t] = l]
          /\ free' = IF l = "none" THEN free ELSE [free EXCEPT ![l] = @ - 1]
       /\ Begin("select", queue \ {t})
  /\ UNCHANGED <<board, runs, view, job, moves, faults>>

Chosen == {t \in Tasks : chosen[t] # "none"}

\* The wave of authorizations: the selected tasks and the roots already
\* asked about, the roots that contend for their files, and every dependent.
Waiting == {t \in Dispatchable : view.status[t] = "todo"}
Roots == {t \in Waiting : Requires[t] = {}}
Seeds == (Chosen \cup {t \in Dispatchable : Requires[t] = {} /\ view.start[t] \in {"pending", "approved"}})
Contending == {t \in Roots : \E u \in Roots \cap Seeds : Files[t] \cap Files[u] # {}}
Closed(S) == \A t \in Waiting : Requires[t] \cap S # {} => t \in S
Wave == {t \in Waiting : \A S \in SUBSET Tasks : Seeds \cup Contending \subseteq S /\ Closed(S) => t \in S}

\* Each card is a call of its own; a failed one leaves the others.
Ask ==
  /\ pc = "select" /\ queue = {}
  /\ \E lost \in SUBSET {t \in Wave : view.start[t] = "none"} :
       /\ faults' = faults + Cardinality(lost) /\ faults' <= MaxFaults
       /\ start' = [t \in Tasks |-> IF t \in Wave \ lost /\ view.start[t] = "none" THEN "pending" ELSE start[t]]
  /\ Begin("dispatch", Chosen)
  /\ UNCHANGED <<status, owner, held, runs, view, job, free, chosen, moves>>

\* Mutant: the blockers on record are not read again.
GateOfSnapshot ==
  /\ pc = "dispatch"
  /\ \E t \in Tasks :
       /\ First(t)
       /\ job' = t
       /\ Begin(IF view.start[t] = "approved" THEN "start" ELSE "dispatch", queue \ {t})
  /\ UNCHANGED <<board, runs, view, free, chosen, moves, faults>>

\* The last gate before a start: the operator's card, as it was read, and the
\* blockers on record, read again.
Gate ==
  /\ pc = "dispatch"
  /\ \E t \in Tasks, o \in {"ok", "failed"} :
       /\ First(t) /\ Outcomes(o) /\ Charge(o)
       /\ job' = t
       /\ LET safe == o = "ok" /\ view.start[t] = "approved" /\ \A u \in Requires[t] : status[u] = "done"
          IN  Begin(IF safe THEN "start" ELSE "dispatch", queue \ {t})
  /\ UNCHANGED <<board, runs, view, free, chosen, moves>>

\* The write that starts a task, whatever its status is by now.
StartTask ==
  /\ pc = "start"
  /\ \E o \in {"ok", "failed", "unheard"} :
       /\ Outcomes(o) /\ Charge(o)
       /\ IF Applied(o)
          THEN /\ status' = [status EXCEPT ![job] = "in_progress"]
               /\ owner' = [owner EXCEPT ![job] = chosen[job]]
               /\ touched' = [touched EXCEPT ![job] = TRUE]
          ELSE UNCHANGED <<status, owner, touched>>
       /\ Begin(IF o = "ok" THEN "wake" ELSE "dispatch", queue)
  /\ UNCHANGED <<held, start, woken, running, recent, moves>> /\ Rest

\* A wake that fails is not repeated.
WakeTask ==
  /\ pc = "wake"
  /\ \E o \in {"ok", "failed", "unheard"} :
       /\ Outcomes(o) /\ Charge(o)
       /\ \/ Applied(o) /\ woken' = [woken EXCEPT ![job] = TRUE]
          \/ ~Applied(o) /\ UNCHANGED woken
  /\ Begin("dispatch", queue)
  /\ UNCHANGED <<board, running, recent, touched, moves>> /\ Rest

\* The run ends, at its end or by a crash.
TickEnd ==
  /\ \/ pc = "dispatch" /\ queue = {} /\ UNCHANGED faults
     \/ pc # "idle" /\ faults < MaxFaults /\ faults' = faults + 1
  /\ Begin("idle", {}) /\ view' = NoView /\ job' = Default
  /\ free' = [l \in Lanes |-> 0] /\ chosen' = Nobody
  /\ UNCHANGED <<board, runs, moves>>

-----------------------------------------------------------------------------
(* Everybody else.                                                         *)

WorkerStarts(t) ==
  /\ status[t] = "in_progress" /\ owner[t] # "none" /\ woken[t] /\ ~running[t] /\ ~held[t]
  /\ woken' = [woken EXCEPT ![t] = FALSE] /\ running' = [running EXCEPT ![t] = TRUE]
  /\ \/ owner[t] = "jules" /\ recent' = [recent EXCEPT ![t] = TRUE]
     \/ owner[t] # "jules" /\ UNCHANGED recent
  /\ touched' = [touched EXCEPT ![t] = TRUE]
  /\ Aside /\ UNCHANGED <<board, moves, faults>>

\* A finished worker hands its pull request to review.
WorkerSubmits(t) ==
  /\ running[t] /\ status[t] = "in_progress" /\ owner[t] # "none"
  /\ running' = [running EXCEPT ![t] = FALSE]
  /\ status' = [status EXCEPT ![t] = "in_review"] /\ owner' = [owner EXCEPT ![t] = "none"]
  /\ Aside /\ UNCHANGED <<held, start, woken, recent, touched, moves, faults>>

\* A run that ends without a result, or on a task that is no longer its own.
WorkerStops(t) ==
  /\ running[t] /\ running' = [running EXCEPT ![t] = FALSE]
  /\ IF status[t] = "in_progress" THEN faults < MaxFaults /\ faults' = faults + 1 ELSE UNCHANGED faults
  /\ Aside /\ UNCHANGED <<board, woken, recent, touched, moves>>

ReviewRejects(t) ==
  /\ moves < MaxMoves /\ moves' = moves + 1
  /\ status[t] = "in_review"
  /\ status' = [status EXCEPT ![t] = "in_progress"] /\ owner' = [owner EXCEPT ![t] = "jules"]
  /\ woken' = [woken EXCEPT ![t] = TRUE] /\ touched' = [touched EXCEPT ![t] = TRUE]
  /\ Aside /\ UNCHANGED <<held, start, running, recent, faults>>

Merges(t) ==
  /\ status[t] = "in_review" /\ status' = [status EXCEPT ![t] = "done"]
  /\ Aside /\ UNCHANGED <<owner, held, start, runs, moves, faults>>

\* Paperclip holds a task whose execution needs reconciliation; a worker that
\* asks the user blocks its task until the answer.
Rests(t) ==
  /\ moves < MaxMoves /\ moves' = moves + 1
  /\ running[t] /\ status[t] = "in_progress" /\ running' = [running EXCEPT ![t] = FALSE]
  /\ \/ held' = [held EXCEPT ![t] = TRUE] /\ UNCHANGED status
     \/ status' = [status EXCEPT ![t] = "blocked"] /\ UNCHANGED held
  /\ Aside /\ UNCHANGED <<owner, start, woken, recent, touched, faults>>
Resumes(t) ==
  /\ held[t] \/ status[t] = "blocked"
  /\ held' = [held EXCEPT ![t] = FALSE] /\ woken' = [woken EXCEPT ![t] = TRUE]
  /\ status' = [status EXCEPT ![t] = IF @ = "blocked" THEN "in_progress" ELSE @]
  /\ Aside /\ UNCHANGED <<owner, start, running, recent, touched, moves, faults>>

\* The thresholds of the reaper, minutes and days, pass between two ticks
\* while nothing happens to the task.
Ages(t) ==
  /\ pc = "idle" /\ ~running[t] /\ ~woken[t] /\ (recent[t] \/ touched[t])
  /\ recent' = [recent EXCEPT ![t] = FALSE] /\ touched' = [touched EXCEPT ![t] = FALSE]
  /\ Aside /\ UNCHANGED <<board, woken, running, moves, faults>>

OperatorDecides(t) ==
  /\ start[t] = "pending"
  /\ \E d \in {"approved", "rejected"} : start' = [start EXCEPT ![t] = d]
  /\ Aside /\ UNCHANGED <<status, owner, held, runs, moves, faults>>

\* The user puts a running task back, closes one, or reopens one.
UserMoves(t) ==
  /\ moves < MaxMoves /\ moves' = moves + 1
  /\ \/ status[t] = "in_progress" /\ status' = [status EXCEPT ![t] = "todo"] /\ UNCHANGED reopened
     \/ status[t] = "todo" /\ status' = [status EXCEPT ![t] = "done"] /\ UNCHANGED reopened
     \/ /\ status[t] = "done" /\ status' = [status EXCEPT ![t] = "todo"]
        /\ reopened' = IF pc = "start" THEN reopened \cup {t} ELSE reopened
  /\ owner' = [owner EXCEPT ![t] = "none"] /\ woken' = [woken EXCEPT ![t] = FALSE]
  /\ UNCHANGED <<pc, view, queue, job, free, chosen, held, start, running, recent, touched, faults>>

-----------------------------------------------------------------------------
Init ==
  /\ status = [t \in Tasks |-> IF t \in Finished THEN "done" ELSE "todo"]
  /\ owner = Nobody /\ start = Nobody
  /\ held = [t \in Tasks |-> FALSE] /\ woken = held /\ running = held
  /\ recent = held /\ touched = held
  /\ pc = "idle" /\ view = NoView /\ queue = {} /\ job = Default
  /\ free = [l \in Lanes |-> 0] /\ chosen = Nobody /\ reopened = {} /\ moves = 0 /\ faults = 0

Tick == \/ TickStart \/ Reap \/ Reclaim \/ Plan \/ Select \/ Ask
        \/ Gate \/ StartTask \/ WakeTask \/ TickEnd
Work(t) == WorkerStarts(t) \/ WorkerSubmits(t) \/ WorkerStops(t) \/ Rests(t) \/ Resumes(t)
People(t) == ReviewRejects(t) \/ Merges(t) \/ OperatorDecides(t) \/ UserMoves(t)
Next == Tick \/ \E t \in Tasks : Work(t) \/ People(t) \/ Ages(t)

Spec == Init /\ [][Next]_vars

\* What goes on for a task without the tick.
Proceeds(t) == WorkerStarts(t) \/ WorkerSubmits(t) \/ Ages(t) \/ Merges(t)
-----------------------------------------------------------------------------
(* Properties.                                                             *)

\* The state has the shape the code gives it.
Statuses == {"todo", "in_progress", "in_review", "blocked", "done"}
Owners == Lanes \cup {"none"}
Cards == {"none", "pending", "approved", "rejected"}
Flags == [Tasks -> BOOLEAN]
TypeOK ==
  /\ status \in [Tasks -> Statuses] /\ owner \in [Tasks -> Owners] /\ start \in [Tasks -> Cards]
  /\ held \in Flags /\ woken \in Flags /\ running \in Flags /\ recent \in Flags /\ touched \in Flags
  /\ pc \in {"idle", "reap", "reclaim", "select", "dispatch", "start", "wake"}
  /\ view \in [status : [Tasks -> Statuses], owner : [Tasks -> Owners], held : Flags,
               start : [Tasks -> Cards], recent : Flags]
  /\ queue \subseteq Tasks /\ job \in Tasks /\ reopened \subseteq Tasks
  /\ free \in [Lanes -> Nat] /\ chosen \in [Tasks -> Owners]
  /\ moves \in 0 .. MaxMoves /\ faults \in 0 .. MaxFaults

\* A task is not started beside a task at work that shares a symbol with it,
\* or when one of them locks the code base.  Paused tasks keep no locks: what
\* was held or blocked when the tick began is the exception.
Paused(u) == view.held[u] \/ view.status[u] = "blocked"
Starts(t) == status[t] \in {"todo", "done"} /\ status'[t] = "in_progress"
StartsAlone ==
  [][\A t, u \in Managed : t # u /\ Starts(t) /\ status[u] \in Working /\ Clash(t, u) => Paused(u)]_vars

\* A task is started only when everything it depends on is done, also what
\* the orchestrator does not manage, and whatever else moved since the
\* snapshot.  Only what the user reopens between the gate and the write that
\* follows it is not seen.
DependenciesFirst ==
  [][\A t \in Tasks : status[t] = "todo" /\ status'[t] = "in_progress" =>
       \A u \in Requires[t] : status[u] = "done" \/ u \in reopened]_vars

\* A task the operator authorized is worked on at last, whatever waits for him
\* beside it, and although its start, its wake or its worker is lost, unless
\* something it depends on is reopened.
Startable(t) == /\ status[t] = "todo" /\ ~held[t] /\ start[t] = "approved"
                /\ \A u \in Requires[t] : status[u] = "done"
AuthorizedTaskRuns ==
  \A t \in Managed : Startable(t) ~> \/ running[t] \/ held[t] \/ status[t] \notin {"todo", "in_progress"}
                                      \/ \E u \in Requires[t] : status[u] # "done"
=============================================================================
