---------------------------- MODULE MCDispatcher ----------------------------
(***************************************************************************)
(* The dispatcher beside other parts of the orchestrator, with names of    *)
(* its own for the step of its tick, the task in hand and the failures.    *)
(* For TLC: three managed tasks that change the same symbol, and one that  *)
(* is not managed; "a" comes before "b", "b" prefers the Vibe lane, and    *)
(* "c" depends on the unmanaged "x", which is done until it is reopened.   *)
(***************************************************************************)
EXTENDS Integers, FiniteSets

CONSTANTS Tasks, Managed, Finished, Requires, Files, Symbols, SideEffects, NonInterfering, Exclusive,
          Local, Priority, Slots, MaxMoves, MaxFailures

VARIABLES status, owner, held, start, woken, running, recent, touched,
          step, view, queue, task, free, chosen, reopened, moves, failures

D == INSTANCE Dispatcher WITH pc <- step, job <- task, faults <- failures, MaxFaults <- MaxFailures

\* What the board holds: finitely many tasks with their scopes, a strict order, slots.
ASSUME TasksAssumption ==
  /\ Tasks # {} /\ IsFiniteSet(Tasks)
  /\ Managed \subseteq Tasks /\ Finished \subseteq Tasks
  /\ Requires \in [Tasks -> SUBSET Tasks]
  /\ NonInterfering \subseteq Tasks /\ Exclusive \subseteq Tasks
  /\ SideEffects \subseteq Tasks /\ Local \subseteq Tasks
  /\ DOMAIN Files = Tasks /\ DOMAIN Symbols = Tasks
ASSUME OrderAssumption ==
  /\ Priority \in [Tasks -> Int]
  /\ \A t, u \in Tasks : Priority[t] = Priority[u] => t = u
ASSUME BoundsAssumption ==
  /\ Slots \in [D!Lanes -> Nat]
  /\ MaxMoves \in Nat /\ MaxFailures \in Nat

dispatch == <<status, owner, held, start, woken, running, recent, touched,
              step, view, queue, task, free, chosen, reopened, moves, failures>>
DispatchSpec == D!Spec

\* Paperclip keeps waking the orchestrator and starts queued runs, workers
\* finish, time passes, and an accepted pull request is merged.
FairDispatchSpec ==
  DispatchSpec /\ WF_dispatch(D!Tick) /\ \A t \in Managed : SF_dispatch(D!Proceeds(t))

-----------------------------------------------------------------------------
\* See Dispatcher: a task does not start beside a clashing one at work.
StartsAlone == D!StartsAlone

\* See Dispatcher: a task starts after everything it depends on.
DependenciesFirst == D!DependenciesFirst

\* See Dispatcher: what the operator authorized is worked on at last.
AuthorizedTaskRuns == D!AuthorizedTaskRuns

-----------------------------------------------------------------------------
MCTasks == {"a", "b", "c", "x"}
MCManaged == {"a", "b", "c"}
MCRequires == [t \in MCTasks |-> IF t = "c" THEN {"x"} ELSE {}]
MCFiles == [t \in MCTasks |-> {"f"}]
MCSymbols == [t \in MCTasks |-> IF t \in MCManaged THEN {"s"} ELSE {}]
MCPriority == [t \in MCTasks |-> CASE t = "a" -> 4 [] t = "b" -> 3 [] t = "c" -> 2 [] OTHER -> 1]
MCSlots == [l \in {"jules", "vibe"} |-> 1]
=============================================================================
