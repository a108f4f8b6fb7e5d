------------------------- MODULE PullRequestReview -------------------------
(***************************************************************************)
(* The review of one pull request that Jules registered for a managed      *)
(* issue.  The orchestrator heartbeat (the tick) takes a snapshot, repairs *)
(* the owner of the issue, and climbs the ladder of reviewers by child     *)
(* issues: it creates a child, the orchestrator's own run on that child    *)
(* posts the verdict card, the next tick hands the child to its reviewer.  *)
(* Both verdicts on one head lead to the operator's merge card.  Every     *)
(* call to Paperclip is a step, so Jules, CI, the reviewers, the operator  *)
(* and the user act between any two of them.                               *)
(***************************************************************************)
EXTENDS Naturals

CONSTANTS MaxHeads,    \* bound on the heads Jules pushes
          MaxFaults    \* bound on failed calls, crashes and failed runs

ASSUME HeadsAssumption == MaxHeads \in Nat \ {0}
ASSUME FaultsAssumption == MaxFaults \in Nat

Heads == 1 .. MaxHeads
Stages == {"luna", "strong"}

VARIABLES
  issue,       \* Paperclip: status, assignee, Jules monitor, queued wake
  run,         \* the Jules run on the issue: "none" or "live"
  registered,  \* head of the primary work product and of the session handle
  proof,       \* the newest Jules run is the completed producer of that head
  pr,          \* GitHub: current head, merged or not
  ci,          \* heads whose checks are green
  child,       \* Paperclip: the review child of a head and a stage
  approval,    \* Paperclip: the operator's merge card and the head it was made for
  completed,   \* keys of lifecycleConvergenceGuard, lost with the process
  pc,          \* next step of the orchestrator's only run
  snap,        \* what the tick read at its start, with statusOverrides
  job,         \* the guard key or the stage the tick is working on
  faults       \* faults so far

paperclip == <<issue, child, approval>>
jules == <<run, registered, proof>>
github == <<pr, ci>>
tick == <<completed, pc, snap, job>>
vars == <<paperclip, jules, github, tick, faults>>

-----------------------------------------------------------------------------
(* Calls.                                                                  *)

\* A refused call has no effect and an answer; a lost one no effect and no
\* answer; of an unheard one the effect happened and the answer was lost.
Outcomes(o) == o = "ok" \/ (o \in {"refused", "lost", "unheard"} /\ faults < MaxFaults)
Applied(o) == o \in {"ok", "unheard"}
Charge(o) == faults' = IF o = "ok" THEN faults ELSE faults + 1

-----------------------------------------------------------------------------
(* Review children.                                                        *)

Absent == [owner |-> "none", todo |-> FALSE, card |-> "none", boot |-> "none", rev |-> "none"]
Created == [Absent EXCEPT !.owner = "orchestrator"]
Change(h, s, c) == child' = [child EXCEPT ![h][s] = c]

\* The parent still is what the card is about.
ParentInReview(h) == issue.status = "in_review" /\ issue.owner = "none" /\ registered = h
ParentShows(h) ==
  registered = h /\ (ParentInReview(h) \/ (issue.status = "in_progress" /\ issue.owner = "jules"))

\* An answer counts when both runs behind it succeeded.
Settled(c) == c.card \in {"approve", "reject"} /\ c.owner = "reviewer" /\ c.boot = "ok" /\ c.rev = "ok"

\* What one stage asks for next; "hold" stands for a thrown inspection.
StageStep(h, s) ==
  LET c == child[h][s] IN
  IF c.owner = "none" THEN "dispatch"
  ELSE IF c.card = "none" THEN IF c.owner = "orchestrator" /\ ~c.todo THEN "bootstrap" ELSE "hold"
  ELSE IF c.card = "pending" THEN IF c.owner = "reviewer" THEN "waiting" ELSE IF c.todo THEN "hold" ELSE "activate"
  ELSE IF Settled(c) /\ ParentShows(h) THEN c.card ELSE "hold"

\* Mutant: the strong stage opens on Luna's approval of an earlier head.
StageOfAnyHead(h) ==
  IF \E g \in Heads : g <= h /\ child[g]["luna"].card = "approve" THEN "strong" ELSE "luna"

\* Luna first; the strong reviewer once Luna approved.
StageOf(h) == IF StageStep(h, "luna") = "approve" THEN "strong" ELSE "luna"
Inspection(h) == StageStep(h, StageOf(h))

-----------------------------------------------------------------------------
(* The tick: snapshot and merged pull requests.                            *)

NoSnap == [head |-> 1, status |-> "in_review", owner |-> "none",
           monitor |-> FALSE, live |-> FALSE, approval |-> "none"]
NoJob == [kind |-> "none", stage |-> "luna"]
Key(kind) == [kind |-> kind, head |-> snap.head,
              from |-> IF kind = "promote" THEN <<snap.status, snap.owner>> ELSE <<"any", "any">>]
Fresh(kind) == Key(kind) \notin completed
\* The locals of a run end with it.
Step(p, sn, j) == /\ pc' = p /\ snap' = IF p = "idle" THEN NoSnap ELSE sn
                  /\ job' = IF p = "idle" THEN NoJob ELSE j
GoTo(p) == Step(p, snap, job) /\ UNCHANGED completed
Work(p, j) == Step(p, snap, j) /\ UNCHANGED completed
Paper == UNCHANGED <<jules, github>>

\* A queued wake counts as a run.
Live == run = "live" \/ issue.woken

TickStart ==
  /\ pc = "idle" /\ issue.status # "done"
  /\ snap' = [head |-> pr.head, status |-> issue.status, owner |-> issue.owner,
              monitor |-> issue.monitor, live |-> Live, approval |-> approval.state]
  /\ pc' = IF ~pr.merged THEN "recover" ELSE IF approval.state = "pending" THEN "invalidate" ELSE "cancel"
  /\ job' = NoJob
  /\ UNCHANGED <<paperclip, jules, github, completed, faults>>

\* A merge card that is still open when GitHub shows the merge; a failure is
\* logged and the tick goes on.
Invalidate ==
  /\ pc = "invalidate"
  /\ \E o \in {"ok", "refused", "lost", "unheard"} :
       /\ Outcomes(o) /\ Charge(o)
       /\ approval' = IF Applied(o) /\ approval.state = "pending"
                      THEN [approval EXCEPT !.state = "superseded"] ELSE approval
  /\ GoTo("cancel") /\ Paper /\ UNCHANGED <<issue, child>>

\* A verified merge ends every owner: first the run the tick has seen, which
\* may have ended since.  A refused cancellation is logged; a call without an
\* answer throws, so the key of the merge stays open.
CancelRuns ==
  /\ pc = "cancel"
  /\ \E o \in {"ok", "refused", "lost", "unheard"}, same \in BOOLEAN :
       /\ Outcomes(o) /\ Charge(o)
       /\ IF Applied(o) /\ Fresh("merge") /\ snap.live /\ same
          THEN /\ issue' = [issue EXCEPT !.woken = FALSE]
               /\ run' = "none" /\ proof' = (proof /\ run = "none")
          ELSE UNCHANGED <<issue, run, proof>>
       /\ GoTo(IF o \in {"ok", "refused"} /\ Fresh("merge") THEN "terminalize" ELSE "idle")
  /\ UNCHANGED <<child, approval, registered, github>>

\* Then one terminal write, whose failure throws too.
Terminal(o) ==
  IF Applied(o)
  THEN /\ issue' = [status |-> "done", owner |-> "none", monitor |-> FALSE, woken |-> FALSE]
       /\ run' = "none"
  ELSE UNCHANGED <<issue, run>>

\* Mutant: the guard key completes although the terminal write failed.
TerminalizeForgets ==
  /\ pc = "terminalize"
  /\ \E o \in {"ok", "refused", "lost", "unheard"} : Outcomes(o) /\ Charge(o) /\ Terminal(o)
  /\ completed' = completed \cup {Key("merge")}
  /\ Step("idle", snap, job) /\ UNCHANGED <<child, approval, registered, proof, github>>

Terminalize ==
  /\ pc = "terminalize"
  /\ \E o \in {"ok", "refused", "lost", "unheard"} :
       /\ Outcomes(o) /\ Charge(o) /\ Terminal(o)
       /\ completed' = IF o = "ok" THEN completed \cup {Key("merge")} ELSE completed
  /\ Step("idle", snap, job) /\ UNCHANGED <<child, approval, registered, proof, github>>

-----------------------------------------------------------------------------
(* The tick: who owns the issue of an open pull request.                   *)

\* deriveJulesPrHandoffEvidence
Handoff == IF ~issue.monitor THEN "none" ELSE IF snap.live \/ Live \/ ~proof THEN "active" ELSE "terminal"
Green == pr.head \in ci
Rejected == Inspection(snap.head) = "reject"
Eligible == Inspection(snap.head) # "hold" /\ Handoff # "active" /\ ~Rejected

\* What the recovery of an open pull request has to do, none of it twice in
\* the life of the process.
Remedy ==
  IF Rejected /\ Handoff # "active" /\ registered = snap.head /\ Fresh("rejected") THEN "rejected"
  ELSE IF Eligible /\ ~Green /\ registered = snap.head /\ Fresh("red") THEN "red"
  ELSE IF Eligible /\ Green /\ Fresh("promote") THEN "promote" ELSE "none"

\* Issues the board reconciliation of this tick must leave alone.
Fenced == Rejected \/ (Eligible /\ ~Green /\ registered = snap.head)

\* When the issue or its reviews cannot be read, nothing is repaired or fenced.
Recover ==
  /\ pc = "recover"
  /\ \E o \in {"ok", "refused"} :
       /\ Outcomes(o) /\ Charge(o)
       /\ \/ o = "refused" /\ GoTo("board")
          \/ o = "ok" /\ Remedy \in {"rejected", "red"} /\ Work("resume", [kind |-> Remedy, stage |-> "luna"])
          \/ o = "ok" /\ Remedy = "promote" /\ Work("promote", [kind |-> "promote", stage |-> "luna"])
          \/ o = "ok" /\ Remedy = "none" /\ GoTo(IF Fenced THEN "pipeline" ELSE "board")
  /\ Paper /\ UNCHANGED paperclip

\* The write that gives the issue back to Jules.  A refused one returns from
\* the guarded effect, so its key counts as done; a lost answer aborts the tick.
Resume ==
  /\ pc = "resume"
  /\ \E o \in {"ok", "refused", "lost", "unheard"} :
       /\ Outcomes(o) /\ Charge(o)
       /\ issue' = IF Applied(o) THEN [issue EXCEPT !.status = "in_progress", !.owner = "jules", !.monitor = TRUE]
                   ELSE issue
       /\ completed' = IF o = "refused" THEN completed \cup {Key(job.kind)} ELSE completed
       /\ \/ o = "ok" /\ Step("wake", [snap EXCEPT !.status = "in_progress"], job)
          \/ o = "refused" /\ Step("pipeline", snap, job)
          \/ o \in {"lost", "unheard"} /\ Step("idle", snap, job)
  /\ Paper /\ UNCHANGED <<child, approval>>

\* The wake that follows a write in favour of Jules; the pipeline does not
\* list an issue that is in progress, so the tick is over for it.
Wake ==
  /\ pc \in {"wake", "reassignWake"}
  /\ \E o \in {"ok", "refused", "lost", "unheard"} :
       /\ Outcomes(o) /\ Charge(o)
       /\ issue' = IF Applied(o) /\ issue.owner = "jules" THEN [issue EXCEPT !.woken = TRUE] ELSE issue
       /\ completed' = IF pc = "wake" /\ o \in {"ok", "refused"} THEN completed \cup {Key(job.kind)} ELSE completed
  /\ Step("idle", snap, job) /\ Paper /\ UNCHANGED <<child, approval>>

\* Fresh evidence before Jules loses the issue.  The guarded effect clears
\* the key of a deferred promotion before it returns, and runOnce completes
\* that key afterwards: it is never tried again.
CheckRelease ==
  /\ pc = "promote"
  /\ \E o \in {"ok", "refused"} :
       /\ Outcomes(o) /\ Charge(o)
       /\ LET board == job.kind = "board"
              deferred == o # "ok" \/ Live \/ (board /\ <<issue.status, issue.owner>> # <<snap.status, snap.owner>>)
          IN /\ Step(IF ~deferred THEN "release" ELSE IF board THEN "pipeline" ELSE "board", snap, job)
             /\ completed' = IF deferred /\ ~board THEN completed \cup {Key("promote")} ELSE completed
  /\ Paper /\ UNCHANGED paperclip

\* The write that moves the issue into native review.  Paperclip cancels a
\* run whose issue loses its assignee.
Release ==
  /\ pc = "release"
  /\ \E o \in {"ok", "refused", "lost", "unheard"} :
       /\ Outcomes(o) /\ Charge(o)
       /\ IF Applied(o)
          THEN /\ issue' = [issue EXCEPT !.status = "in_review", !.owner = "none", !.woken = FALSE,
                                         !.monitor = IF job.kind = "board" THEN @ ELSE FALSE]
               /\ run' = "none" /\ proof' = (proof /\ run = "none")
          ELSE UNCHANGED <<issue, run, proof>>
       /\ completed' = IF o \in {"ok", "refused"} /\ job.kind = "promote"
                       THEN completed \cup {Key("promote")} ELSE completed
       /\ \/ o = "ok" /\ Step("pipeline", [snap EXCEPT !.status = "in_review"], job)
          \/ o = "refused" /\ Step(IF job.kind = "board" THEN "pipeline" ELSE "board", snap, job)
          \/ o \in {"lost", "unheard"} /\ Step("idle", snap, job)
  /\ UNCHANGED <<child, approval, registered, github>>

\* Board reconciliation: an issue in progress that nobody works on, with an
\* open pull request, enters review.
Board ==
  /\ pc = "board"
  /\ IF snap.status = "in_progress" /\ ~snap.monitor /\ ~snap.live
     THEN Work("promote", [kind |-> "board", stage |-> "luna"])
     ELSE GoTo("pipeline")
  /\ UNCHANGED <<paperclip, jules, github, faults>>

-----------------------------------------------------------------------------
(* The tick: the ladder of reviewers.                                      *)

LaneOpen == snap.status = "in_review" /\ issue.owner = "none" /\ registered = snap.head

\* Mutant: the lane of the children leaves out a ladder that is finished.
NextOfUnfinished(h) ==
  LET step == Inspection(h) IN
  IF step = "dispatch" THEN "create"
  ELSE IF step = "bootstrap" /\ child[h][StageOf(h)].boot = "none" THEN "launch"
  ELSE IF step = "activate" THEN "activate"
  ELSE "idle"

\* Mutant: one verdict is enough for the merge card.
NextOfOneVerdict(h) ==
  LET step == Inspection(h) IN
  IF step = "dispatch" THEN IF StageOf(h) = "strong" THEN "ask" ELSE "create"
  ELSE IF step = "bootstrap" /\ child[h][StageOf(h)].boot = "none" THEN "launch"
  ELSE IF step = "activate" THEN "activate"
  ELSE IF Green /\ (step = "reject" \/ (step = "approve" /\ snap.approval = "rejected")) THEN "reassign"
  ELSE IF Green /\ step = "approve" /\ snap.approval = "none" THEN "ask" ELSE "idle"

\* inspectPrReviewChildren, then evaluateReviewPipelineProgress for a
\* finished ladder.  Only the latter asks for green checks, and it finds a
\* merge card by its issue, whatever head it was made for.
NextOf(h) ==
  LET step == Inspection(h) IN
  IF step = "dispatch" THEN "create"
  ELSE IF step = "bootstrap" /\ child[h][StageOf(h)].boot = "none" THEN "launch"
  ELSE IF step = "activate" THEN "activate"
  ELSE IF Green /\ (step = "reject" \/ (step = "approve" /\ snap.approval = "rejected")) THEN "reassign"
  ELSE IF Green /\ step = "approve" /\ snap.approval = "none" THEN "ask" ELSE "idle"

Pipeline ==
  /\ pc = "pipeline"
  /\ Work(IF LaneOpen THEN NextOf(snap.head) ELSE "idle", [kind |-> "ladder", stage |-> StageOf(snap.head)])
  /\ UNCHANGED <<paperclip, jules, github, faults>>

\* ensurePrReviewChild re-reads the parent, then creates the child.
Create ==
  /\ pc = "create"
  /\ \E o \in {"ok", "refused", "lost", "unheard"} :
       /\ Outcomes(o) /\ Charge(o)
       /\ IF Applied(o) /\ ParentInReview(snap.head) /\ child[snap.head][job.stage].owner = "none"
          THEN Change(snap.head, job.stage, Created) ELSE UNCHANGED child
       /\ GoTo(IF o = "ok" /\ ParentInReview(snap.head) THEN "launch" ELSE "idle")
  /\ Paper /\ UNCHANGED <<issue, approval>>

\* The child is given to the orchestrator, which queues a run of it there.
Launch ==
  /\ pc = "launch"
  /\ \E o \in {"ok", "refused", "lost", "unheard"} :
       /\ Outcomes(o) /\ Charge(o)
       /\ IF Applied(o)
          THEN Change(snap.head, job.stage, [child[snap.head][job.stage] EXCEPT !.todo = TRUE, !.boot = "queued"])
          ELSE UNCHANGED child
  /\ GoTo("idle") /\ Paper /\ UNCHANGED <<issue, approval>>

\* activatePrReviewChild throws unless the run that made the card succeeded.
Activate ==
  /\ pc = "activate"
  /\ \E o \in {"ok", "refused", "lost", "unheard"} :
       /\ Outcomes(o) /\ Charge(o)
       /\ IF Applied(o) /\ ParentInReview(snap.head) /\ child[snap.head][job.stage].boot = "ok"
          THEN Change(snap.head, job.stage, [child[snap.head][job.stage] EXCEPT !.owner = "reviewer", !.todo = TRUE])
          ELSE UNCHANGED child
  /\ GoTo("idle") /\ Paper /\ UNCHANGED <<issue, approval>>

\* A rejected head, or a rejected merge card, goes back to the worker.
Reassign ==
  /\ pc = "reassign"
  /\ \E o \in {"ok", "refused", "lost", "unheard"} :
       /\ Outcomes(o) /\ Charge(o)
       /\ issue' = IF Applied(o) THEN [issue EXCEPT !.status = "in_progress", !.owner = "jules"] ELSE issue
       /\ GoTo(IF o = "ok" THEN "reassignWake" ELSE "idle")
  /\ Paper /\ UNCHANGED <<child, approval>>

\* The merge card; Paperclip may give the linked issue back to its worker.
Ask ==
  /\ pc = "ask"
  /\ \E o \in {"ok", "refused", "lost", "unheard"}, back \in BOOLEAN :
       /\ Outcomes(o) /\ Charge(o)
       /\ approval' = IF Applied(o) THEN [state |-> "pending", head |-> snap.head] ELSE approval
       /\ issue' = IF Applied(o) /\ back THEN [issue EXCEPT !.status = "in_progress", !.owner = "jules"] ELSE issue
       /\ GoTo(IF o = "ok" THEN "preserve" ELSE "idle")
  /\ Paper /\ UNCHANGED child

\* preservePendingReviewState undoes that.
Preserve ==
  /\ pc = "preserve"
  /\ \E o \in {"ok", "refused", "lost", "unheard"} :
       /\ Outcomes(o) /\ Charge(o)
       /\ IF Applied(o)
          THEN /\ issue' = [status |-> "in_review", owner |-> "none", monitor |-> FALSE, woken |-> FALSE]
               /\ run' = "none" /\ proof' = (proof /\ run = "none")
          ELSE UNCHANGED <<issue, run, proof>>
  /\ GoTo("idle") /\ UNCHANGED <<child, approval, registered, github>>

-----------------------------------------------------------------------------
(* The orchestrator's run on a review child.  The agent has one run at a   *)
(* time, so it takes turns with the ticks.                                 *)

BootSteps == {"bootCard", "bootPark", "bootEnd"}
BootChild == child[snap.head][job.stage]
Boot(c) == Change(snap.head, job.stage, c)

BootStart ==
  /\ pc = "idle"
  /\ \E h \in Heads, s \in Stages :
       /\ child[h][s].boot = "queued"
       /\ Change(h, s, [child[h][s] EXCEPT !.boot = "running"])
       /\ snap' = [snap EXCEPT !.head = h] /\ job' = [kind |-> "boot", stage |-> s]
  /\ pc' = "bootCard"
  /\ Paper /\ UNCHANGED <<issue, approval, completed, faults>>

\* The card is posted when the parent is still in review at this head; any
\* throw fails the run.
BootCard ==
  /\ pc = "bootCard"
  /\ \E o \in {"ok", "refused", "lost", "unheard"} :
       /\ Outcomes(o) /\ Charge(o)
       /\ LET posted == Applied(o) /\ ParentInReview(snap.head) IN
          /\ Boot([BootChild EXCEPT !.card = IF posted THEN "pending" ELSE @,
                                    !.boot = IF posted /\ o = "ok" THEN @ ELSE "failed"])
          /\ GoTo(IF posted /\ o = "ok" THEN "bootPark" ELSE "idle")
  /\ Paper /\ UNCHANGED <<issue, approval>>

BootPark ==
  /\ pc = "bootPark"
  /\ \E o \in {"ok", "refused", "lost", "unheard"} :
       /\ Outcomes(o) /\ Charge(o)
       /\ Boot([BootChild EXCEPT !.todo = ~Applied(o), !.boot = IF o = "ok" THEN @ ELSE "failed"])
       /\ GoTo(IF o = "ok" THEN "bootEnd" ELSE "idle")
  /\ Paper /\ UNCHANGED <<issue, approval>>

BootEnd ==
  /\ pc = "bootEnd"
  /\ Boot([BootChild EXCEPT !.boot = "ok"])
  /\ GoTo("idle") /\ Paper /\ UNCHANGED <<issue, approval, faults>>

\* The process dies: the guard forgets, a run on a child has failed.
Crash ==
  /\ pc # "idle" /\ faults < MaxFaults
  /\ IF pc \in BootSteps THEN Boot([BootChild EXCEPT !.boot = "failed"]) ELSE UNCHANGED child
  /\ Step("idle", snap, job) /\ completed' = {} /\ faults' = faults + 1
  /\ UNCHANGED <<issue, approval, jules, github>>

-----------------------------------------------------------------------------
(* Everybody else.                                                         *)

\* Paperclip starts Jules for a queued wake or a due monitor.
JulesStarts ==
  /\ run = "none" /\ issue.status = "in_progress" /\ issue.owner = "jules" /\ (issue.woken \/ issue.monitor)
  /\ run' = "live" /\ issue' = [issue EXCEPT !.woken = FALSE]
  /\ UNCHANGED <<child, approval, registered, proof, github, tick, faults>>

\* Another head counts as a disturbance, like a failed call.
JulesPushes ==
  /\ run = "live" /\ ~pr.merged /\ pr.head < MaxHeads /\ faults < MaxFaults
  /\ pr' = [pr EXCEPT !.head = @ + 1] /\ ci' = {}
  /\ faults' = faults + 1 /\ UNCHANGED <<paperclip, jules, tick>>

\* The completed session: the adapter registers the head and gives the issue
\* to review; Paperclip may keep the monitor.
JulesHandsOff ==
  /\ run = "live" /\ run' = "none" /\ registered' = pr.head /\ proof' = TRUE
  /\ \E kept \in BOOLEAN :
       issue' = [status |-> "in_review", owner |-> "none", monitor |-> kept, woken |-> FALSE]
  /\ UNCHANGED <<child, approval, github, tick, faults>>

\* A run that ends with the session still working leaves its monitor.
JulesWaits ==
  /\ run = "live" /\ run' = "none" /\ proof' = FALSE
  /\ issue' = [issue EXCEPT !.monitor = TRUE]
  /\ UNCHANGED <<child, approval, registered, github, tick, faults>>

JulesFails ==
  /\ run = "live" /\ faults < MaxFaults /\ faults' = faults + 1
  /\ run' = "none" /\ proof' = FALSE
  /\ \E kept \in BOOLEAN : issue' = [issue EXCEPT !.monitor = kept]
  /\ UNCHANGED <<child, approval, registered, github, tick>>

\* The typed verdict of the addressed reviewer, then the end of its run.
ReviewerAnswers ==
  /\ \E h \in Heads, s \in Stages, v \in {"approve", "reject"} :
       /\ child[h][s].owner = "reviewer" /\ child[h][s].card = "pending"
       /\ Change(h, s, [child[h][s] EXCEPT !.card = v, !.rev = "running"])
  /\ UNCHANGED <<issue, approval, jules, github, tick, faults>>

ReviewerEnds ==
  /\ \E h \in Heads, s \in Stages, end \in {"ok", "failed"} :
       /\ child[h][s].rev = "running" /\ (end = "ok" \/ faults < MaxFaults)
       /\ Change(h, s, [child[h][s] EXCEPT !.rev = end])
       /\ faults' = IF end = "ok" THEN faults ELSE faults + 1
  /\ UNCHANGED <<issue, approval, jules, github, tick>>

ChecksTurnGreen == /\ ~pr.merged /\ ci' = {pr.head}
                   /\ UNCHANGED <<paperclip, jules, pr, tick, faults>>
OperatorDecides ==
  /\ ~pr.merged /\ approval.state = "pending"
  /\ \E d \in {"approved", "rejected"} : approval' = [approval EXCEPT !.state = d]
  /\ UNCHANGED <<issue, child, jules, github, tick, faults>>
UserMerges == /\ ~pr.merged /\ pr' = [pr EXCEPT !.merged = TRUE]
              /\ UNCHANGED <<paperclip, jules, ci, tick, faults>>

-----------------------------------------------------------------------------
Init ==
  /\ issue \in [status : {"in_review"}, owner : {"none"}, monitor : BOOLEAN, woken : {FALSE}]
  /\ run = "none" /\ registered = 1 /\ proof = TRUE
  /\ pr = [head |-> 1, merged |-> FALSE] /\ ci = {}
  /\ child = [h \in Heads |-> [s \in Stages |-> Absent]]
  /\ approval = [state |-> "none", head |-> 1]
  /\ completed = {} /\ pc = "idle" /\ snap = NoSnap /\ job = NoJob /\ faults = 0

Tick == \/ TickStart \/ Invalidate \/ CancelRuns \/ Terminalize
        \/ Recover \/ Resume \/ Wake \/ CheckRelease \/ Release \/ Board
        \/ Pipeline \/ Create \/ Launch \/ Activate \/ Reassign \/ Ask \/ Preserve
BootRun == BootStart \/ BootCard \/ BootPark \/ BootEnd
\* What reviewers and the operator do after the merge is left out.
Reviewers == ~pr.merged /\ (ReviewerAnswers \/ ReviewerEnds)
World == \/ JulesStarts \/ JulesPushes \/ JulesHandsOff \/ JulesWaits \/ JulesFails
         \/ Reviewers \/ ChecksTurnGreen \/ OperatorDecides \/ UserMerges

Next == Tick \/ BootRun \/ Crash \/ World
Spec == Init /\ [][Next]_vars

\* Paperclip keeps waking the orchestrator and its queued runs; a woken Jules
\* run starts; a reviewer that was given a card answers.
FairSpec == /\ Spec /\ WF_vars(Tick \/ BootRun) /\ SF_vars(BootStart)
            /\ WF_vars(JulesStarts) /\ SF_vars(JulesHandsOff) /\ WF_vars(Reviewers)
-----------------------------------------------------------------------------
(* Properties.                                                             *)

\* The state has the shape the code gives it.
Calls == {"invalidate", "cancel", "terminalize", "recover", "resume", "wake", "promote", "release", "board",
          "pipeline", "create", "launch", "activate", "reassign", "reassignWake", "ask", "preserve"}
Statuses == {"in_progress", "in_review", "done"}
Owners == {"none", "jules"}
Gate == {"none", "pending", "approved", "rejected", "superseded"}
Keys == [kind : {"merge", "rejected", "red", "promote"}, head : Heads,
         from : (Statuses \cup {"any"}) \X (Owners \cup {"any"})]
Children ==
  {c \in [owner : {"none", "orchestrator", "reviewer"}, todo : BOOLEAN,
          card : {"none", "pending", "approve", "reject"},
          boot : {"none", "queued", "running", "ok", "failed"},
          rev : {"none", "running", "ok", "failed"}] :
     /\ c.owner = "none" => c = Absent
     /\ c.card \in {"approve", "reject"} => c.owner = "reviewer" /\ c.boot = "ok"
     /\ c.rev # "none" => c.card \in {"approve", "reject"}}
TypeOK ==
  /\ issue \in [status : Statuses, owner : Owners, monitor : BOOLEAN, woken : BOOLEAN]
  /\ run \in {"none", "live"} /\ registered \in Heads /\ proof \in BOOLEAN
  /\ pr \in [head : Heads, merged : BOOLEAN] /\ ci \subseteq Heads
  /\ child \in [Heads -> [Stages -> Children]]
  /\ approval \in [state : Gate, head : Heads]
  /\ completed \subseteq Keys
  /\ pc \in Calls \cup BootSteps \cup {"idle"}
  /\ snap \in [head : Heads, status : Statuses, owner : Owners, monitor : BOOLEAN, live : BOOLEAN, approval : Gate]
  /\ job \in [kind : {"none", "rejected", "red", "promote", "board", "ladder", "boot"}, stage : Stages]
  /\ faults \in 0 .. MaxFaults

\* What a verdict is worth: the card approves, and the run that made it and
\* the run that answered it both succeeded.
Approved(h, s) == child[h][s].card = "approve" /\ child[h][s].boot = "ok" /\ child[h][s].rev = "ok"

\* A strong reviewer is asked about a head only when Luna approved that very
\* head, in a run that ended well (inspectPrReviewChildren).
LadderInOrder == \A h \in Heads : child[h]["strong"].owner # "none" => Approved(h, "luna")

\* The operator is asked to merge only a head that both reviewers approved,
\* whatever Jules pushed and whichever calls failed in between.
MergeCardNeedsBothVerdicts == approval.state # "none" => \A s \in Stages : Approved(approval.head, s)

\* A merge on GitHub ends the issue, although calls fail and the process dies.
MergedEndsDone == pr.merged ~> issue.status = "done"

\* A settled rejection of the current head gives the issue back to Jules,
\* whichever of the writes that do so fails.
RejectedNow == /\ registered = pr.head /\ Green /\ ~pr.merged
               /\ \E s \in Stages : Settled(child[pr.head][s]) /\ child[pr.head][s].card = "reject"
RejectedHeadReturnsToJules == RejectedNow ~> (issue.owner = "jules" \/ pr.merged)

\* While no merge card was made yet, a head that both reviewers approved
\* reaches the operator under its own name: a card for an earlier head, asked
\* for on a snapshot Jules has overtaken, does not stand for it.  (Once such a
\* card exists, evaluateReviewPipelineProgress finds it by the issue and asks
\* for no other.)
ReviewedNow == registered = pr.head /\ Green /\ \A s \in Stages : Approved(pr.head, s)
ReviewedHeadReachesOperator ==
  (ReviewedNow /\ approval.state = "none")
    ~> ((approval.state # "none" /\ approval.head = pr.head) \/ pr.merged \/ ~ReviewedNow)

\* A head whose review is over leaves the review.
HeadsReachTheirEnd == RejectedHeadReturnsToJules /\ ReviewedHeadReachesOperator
=============================================================================
