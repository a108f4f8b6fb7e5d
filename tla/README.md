# A TLA+ model of the Paperclip adapters

The repository connects the Paperclip control plane (issues, agents, interaction
cards, heartbeats) with coding agents. Its central adapter, `packages/jules`, drives a
cloud session of Jules: each *heartbeat* of an issue polls the session, answers its
questions, has its plan reviewed by two agents (Luna, then Terra), approves the plan or
asks for another one, and follows the session to a pull request.
`packages/orchestrator` runs a heartbeat of its own, the *tick*: it starts tasks in the
Jules and Vibe lanes, has their pull requests reviewed, and repairs what got stuck.

This directory models that code in TLA+, checks the models with TLC and proves the
facts that matter most with TLAPS. Definitions carry the names of the source where
TLA+ allows it; `PROJECT.json` maps each one to its lines. `JE` stands for
`packages/jules/src/server/execute.ts` below, `OE` for
`packages/orchestrator/src/server/execute.ts`.

## 1. Inventory

External parties are Paperclip (cards, documents, issues, the scheduler of heartbeats),
Jules (sessions, plan activities, messages) and GitHub. None has transactions with the
others; the adapters are written for processes that die between any two awaits.

| Component (source) | State it keeps | Operations | Interaction | What makes it correct |
|---|---|---|---|---|
| Lifecycle effect journal (`lifecycle-effect-journal.ts`) | effects, each started (1 or 2 attempts) or confirmed with a receipt | begin, retry, confirm, merge, classify | held by the session, three copies of it | never goes back; a receipt is never replaced; at most 50 entries |
| Write-ahead protocol (`lifecycle-runner.ts`, `session-store.ts`) | the session in memory, on disk and in the replayed envelope | execute, reconcile, retry, persist | remote calls to Paperclip and Jules | a call is on record before it leaves; one that must not be repeated is not |
| Lifecycle decisions (`common/src/jules-lifecycle.ts`, `native-plan-effect-reconciler.ts`, `plan-revision-request.ts`) | none | reducer, classification of interrupted effects | called by the heartbeat | the ladder Luna, Terra, approve |
| Native plan review (`JE`, `plan-gate-state.ts`, `interaction-engine.ts`) | pending card, pending revision request, approved and superseded plan, journal | poll, recover pointer, consume verdict, open card, approve, request a revision | polls Jules; cards in Paperclip; messages to Jules | no approval without both verdicts, none twice; every plan is settled |
| Session startup and creation (`session-lifecycle.ts`, `session-initializer.ts`, `provider-create-reconciliation.ts`, `jules-session-handle.ts`) | create intent, recovery records by source name, handle document | merge, restore, prepare, create, hold, reattach, resume by message, recover a pull request | POST /sessions of Jules has no idempotency key | one session per task; no live session forgotten; what was created is adopted |
| Provider questions (`question-*.ts`, `common/src/jules-question-*.ts`) | pending question, answer intent, generation of the reviewer | adjudicate, bootstrap a reviewer's child issue, copy the answer, deliver, escalate, relay | reviewers, people, Jules | one answer per question, the one the card records |
| Activity mirror (`activity-*.ts`) | cursor, ring of 200 mirrored ids, scan of an ended session | poll pages, post comments | Jules to Paperclip | none skipped, each one commented in the end |
| Terminal handling (`terminal-*.ts`, `ci-status.ts`, `disposition.ts`, `pr-child-feedback.ts`, `required-pr-recovery.ts`) | known head, delivered rejections, awaited work, completion card | register, relay a rejection, demand a pull request, confirm a completion, end | Jules, GitHub, reviewers | a rejection arrives once; a confirmation ends the task; none beside a pull request |
| Dispatcher (`dispatcher.ts`, `dependency-gate.ts`, `start-approval-scheduling.ts`, `project-capacity.ts`) | nothing of its own: a snapshot of the board per tick | conflict matrix, selection, start cards, start, reaper | issues, operator, workers | tasks at work do not touch the same code; dependencies first; nobody starves |
| Pull-request review (`review-pipeline.ts`, `pr-review-child.ts`, `review-interaction-state.ts`) | a child issue per head and stage | create, bootstrap, activate, read the verdict, reassign, ask the operator | reviewers, Jules, operator | Luna before the strong reviewer; merge only what both approved |
| Convergence guard, capability circuit | completed and in-flight keys, lost with the process; open circuits | run once, clear, record | steps of the tick | one effect per key |
| Supervision (`jules-supervisor.ts`, `jules-monitor-*.ts`, `stalled-session-reaper.ts`) | monitors | wake, reap, classify a handoff | Paperclip scheduler | every open issue is woken again |
| Review dispatch and stages (`common/src/native-review-dispatch.ts`, `native-review-recovery*.ts`, `review-session-state.ts`, `native-plan-review-handback.ts`) | wakes and generations of a card, owner of an issue | await, wake, replace, give up, hand back | Paperclip runs | no second live reviewer; bounded replacements; the issue comes back to Jules |
| Backlog and workspaces (`backlog-sync.ts`, `consistency.ts`, `backlog-archiver.ts`) | backlog files in a workspace, the issue id a file declares | check the workspace, resolve or create the issue, describe it, own it, archive | git, Paperclip, projects side by side | a file has one issue; a published revision reaches it |
| Telegram companion (`poller.ts`, `handlers.ts`, `worker.ts`) | announced approvals, offset of the updates, lost with the worker | announce, decide, forward | Telegram, Paperclip | cards tell the truth; a press decides |
| Conflict recovery, workspaces, fleet | files, git, GitHub state | sync, prune, rebase | git, GitHub | bounded repair |
| Child plan review (`child-plan-review-*.ts`, `plan-provider-*.ts`, `JE`) | a child issue per revision and stage, the identity under review, the approve effect | create, bootstrap, activate, observe, decide, approve, hold, release, adopt by hand | as above, each reviewer in an issue of its own | one write to Jules per reviewed revision; a decided review stays decided |
| Antigravity, Vibe, scripts | see `PROJECT.json` | | | not modelled |

The hard behaviours are: a crash between any two awaits; calls that take effect and lose
their answer; the replay of an older session envelope; reads that fail and are taken for
empty; decisions of a tick on a snapshot that people and workers have outrun; guard
keys that outlive the effect they stand for; and liveness, because the code prefers to
wait where it cannot prove that a repetition is safe. The complete list, with lines, is
under "hazards" in `PROJECT.json`.

## 2. Modules

```
EffectJournal            the journal data type
  JournalReplica         write-ahead over three copies
    MCJournalReplica     the run, as JournalSpec          AtMostOnceProofs
Telegram                 the operator's chat
Backlog                  backlog files and their issues
  MCCompanions           one run over both                AtMostOnceProofs
JulesLifecycle           the pure decisions
NativePlanReview         the plan-review heartbeat
  PlanReviewProperties   what it promises                 PlanGateProofs
PlanGate                 the abstract review ladder
ChildPlanReview          the plan review in child issues  ChildPlanReviewProofs
ProviderSession          which cloud session is used      ProviderSessionProofs
QuestionReview           questions of Jules               QuestionReviewProofs
ActivityMirror           activities as comments           ActivityMirrorProofs
TerminalDelivery         pull request, rejections, end    TerminalDeliveryProofs
PullRequestReview        the tick and the review children OrchestratorProofs
Dispatcher               the tick and the lanes
  MCDispatcher           the run, as FairDispatchSpec     OrchestratorProofs
```

`MCJournalReplica`, `MCDispatcher` and `MCCompanions` name the instance their proofs are
about, so that one proof module can hold the results on several components.
`JournalReplica` and `NativePlanReview` are built on `EffectJournal`, the latter also on
`JulesLifecycle`. Each of the other modules is one concern of one process (a heartbeat
of an issue, or the tick) with everything around it as environment; what another module
models appears there as an environment action. TerminalDelivery, for example, lets the
environment decide a plan (NativePlanReview) and answer a question (QuestionReview).

Conventions: `pc` is the stretch of code between two awaits a run is in; `env`, `disk` and
`mem` are the envelope Paperclip replays, the recovery record, and the copy of the run in
progress; a remote call is one action that succeeds, one for a request that is
lost, and one for an answer that is lost; `faults` bounds them. `snap` or `view` is what a
run has read, so what the code decides on stale data is decided on stale data here.

**EffectJournal** translates `lifecycle-effect-journal.ts`: a journal is a function from
effect identities to attempts, `Absent` standing for an identity the array does not
list. An operation that throws is a guard and a result (`CanRetry`, `RetryStartedEffect`).

**JournalReplica** is the write-ahead protocol for an arbitrary set of effects. Begin,
persist, call, confirm and persist are separate steps; a write can fail, a call can be
lost or lose its answer, a run can die anywhere. A record over its limit is rejected by
the schema, so that the call it was to announce does not go out. Evidence is arbitrary
here, true or false: what it proves is the subject of NativePlanReview.

**JulesLifecycle** has the decision functions: `ReduceJulesLifecycle`,
`RunJulesLifecycle` (execute, reconcile or defer), `ReconcileNativePlanEffect`,
`DecideRevisionDelivery`, `IsPlanApprovalRequired`.

**NativePlanReview** is the heartbeat of `JE` for a session under native plan review:

| Steps | Code |
|---|---|
| `Start`, `StartCanonical` | `evaluateSessionStartup`: merge of envelope and record, or a bare session |
| `Observe`, `ReadActivities` | session poll, then the activity list; a failure of the list is ignored |
| `RecoverPointer` and its siblings | `recoverMissingPlanGatePointer` |
| `RequestFulfilled`, `RequestEchoed`, `RequestAwaited` | a pending revision request is handled before anything else |
| `HoldForWitness` .. `TerraApproved` | the gate: witness, replaced plan, missing card, lost card, override, pending, verdicts |
| `PrepareRequest` .. `ConfirmRequest` | `deliverFreshPlanRevision`: prepared, saved, sent once, delivered |
| `PostTerra` .. `EnterTerraStage` | journaled card for the same revision, pointer saved before the stage changes |
| `ApprovePlan` .. `RecordApproved` | journaled `approvePlan(sessionId)`, receipt, approval recorded |
| `PlanNotDue`, `WaitForHuman`, `OpenReview` .. `EnterLunaStage` | `evaluateInteractionAction` and CREATE_PLAN_CARD |
| `YieldHeartbeat`, `Return` | `yieldHeartbeat`: save, then return the envelope |

Jules publishes plans and mirrors messages; reviewers and operators resolve cards:
approved, rejected, overridden by someone who is not the addressed reviewer, withdrawn by
the adapter (`superseded`: the two cancellation reasons of plan-gate-state.ts:41-44 that
call for a fresh plan), cancelled for any other reason, which leaves the plan to an
operator (`CardAwaited`), or expired. **PlanGate** is the abstract ladder without runs, sessions, journals and
crashes. `PlanReviewProperties` instantiates it as `Ladder` (the refinement mapping is the
identity on `cards`, `approvals` and `requests`) and states the properties.

**ChildPlanReview** is the second implementation of `PlanGate`: each stage of a review is an
issue of its own. The parent's run creates the child, waits for the bootstrap run that
posts the card, hands the child to the reviewer, and decides from the card, the poll and
the approve effect (`DecidePlanProviderAction`). A run that fails for good leaves the parent
held; the orchestrator releases a hold that it can prove harmless (`ReleaseHold`), an
operator another one, and an operator may approve a held plan by hand and have the
approval adopted (`HandApproval`, `Adoption`). The mapping reads the card of a child.

**ProviderSession** is `JE` from startup to the poll. The session is known four times: the
envelope, the recovery records (one for each source name), the handle document of the
issue, and the run. A create is prepared on disk, sent, and after a missing answer looked
up in the provider's index; two matching candidates, or an index that cannot be read,
hold it. A poll that finds the session gone resumes it, creates a new one, or, with a
pull request, prepares the one remediation session on its branch.

**QuestionReview** has `prepareQuestionReview`, `reconcileQuestionReview` and
`finishQuestionAnswer`, the child issue in which Jules' own run posts the reviewer's card
(one child for each generation of the reviewer), the answer copied to the card of the
issue, its journaled delivery to Jules, the escalation to a form for a person, and the
relay of what the person wrote.

**ActivityMirror** has the pages of a poll, the checkpoint overlap, the ring of mirrored
ids, the comment with its marker (the comments of the issue are listed, and the POST
follows: `FindComment` or `MissComment`, then `PostComment` or `CommentFails`), and the
scan of a session that has ended, which keeps a page token and three witnesses instead of
the cursor.

**TerminalDelivery** is the second half of the heartbeat. In the order of `JE`: a rejection
of the pull request's head is relayed to Jules, the ownership of the issue is fenced, a
completion confirmed without a pull request is consumed, the poll registers the head,
waits for checks, demands a missing pull request, asks for the confirmation, or ends.

**PullRequestReview** is the tick for one issue with a pull request: snapshot,
invalidation of a stale merge card, after a merge the cancellation of the run in the
snapshot and then the terminal write (`CancelRuns`, `Terminalize`), the handoff evidence of
the Jules monitor, the repair of the owner (rejected head, red head, promotion to
review), the board write, the ladder of review children, and the operator's card. The
bootstrap run of a child belongs to the same agent, so it interleaves with ticks as a
whole. `completed` is `lifecycleConvergenceGuard`, which dies with the process.

**Dispatcher** is the tick for the tasks to dispatch: the reaper, the selection of tasks by
priority under the conflict matrix (`Clash`), the wave of start cards that only asks for
what could run, and for each selected task a fresh dependency read, the start write and
the wake. The user closes, returns and reopens tasks at any moment; `reopened` keeps what
was reopened since the gate of the task in hand. `Before` is the order with which the vibe lane and the wave are chosen.

**Telegram** is the worker with its two loops: the poller announces each pending approval
with a card, the update loop turns a pressed button into a decision and a reply into a
comment. What it announced and where it reads are in memory and die with it.

**Backlog** is the intake of a heartbeat: each project checks its workspace, finds or
creates the issue of its backlog file, copies the contract and the owner, and archives the
file of a done issue. Projects run side by side on one list of issues.

### Abstractions

General:

- Identities, texts and timestamps are model values or ranks. An unset field has a value
  outside its range (`NoPlan`, `NoCard`, `NoHead`).
- One heartbeat of an issue, and one tick of a company, runs at a time, which is
  Paperclip's promise. Cancelling a run by its host is a crash.
- Counters of calls saturate at two: "more than once" is what the properties tell apart.

By module:

- *NativePlanReview*: `planReviewPolicy` is required, both reviewers are configured.
  Child-owned and legacy cards and the dispatch of a pending card's reviewer are left out.
  An unchanged `PUT documents/plan` may or may not make a revision. Failing record writes
  are in JournalReplica.
- *ChildPlanReview*: no questions of Jules meanwhile, one generation of a child. The basis
  `supersedingSuccess` of an adopted approval is left out. A person resumes a paused
  reviewer. The operator approves by hand only what is held, and releases a hold only
  when the approval by hand is recorded.
- *ProviderSession*: what a live session does is in the other modules; here it ends, with
  or without a pull request, or pauses.
- *QuestionReview*: a generation is bounded by the faults (`Generations`), because the
  budget of recoveries, which a replayed envelope turns back, is no bound of its own. The
  child-scoped protocol only; legacy bridges and cards, the
  standalone helper of a full parent and terminal questions are left out.
- *TerminalDelivery*: the remediation of failing checks is an ending, as is the merge;
  the fenced recovery session is in ProviderSession.
- *ActivityMirror*: one run of an issue at a time, so that `activityCommentLocks` has nothing
  to serialize. The Idempotency-Key of the POST is left to Paperclip.
- *PullRequestReview*: the company uses child issues for review, GitHub is reachable, the
  reviewers can be invoked. No conflict recovery, execution blocker, monitor expiry or
  stalled reclaim. The checks of a head turn green once. The head of the work product and
  the one of the session handle are registered together. A child's re-read and its POST
  are one step.
- *Dispatcher*: `requireApproval` is on; `extraLockedFiles` are the files of the tasks in
  review; target modules behave like files; no open questions; both lanes are available;
  `maxToSelect` is the sum of the free slots. The reclaim of unapproved starts
  (OE:2893-2912) is left out. A dependency that cannot be read makes the gate refuse.
  `Ages`, the 48 hours of the reaper, happens between ticks and not while a wake is queued.
- *Telegram*: texts, status commands and the wake of the orchestrator are left out.
- *Backlog*: one file of one title per project; the repair of the project an issue names
  and the index of the archive are left out.

## 3. Runs

| Run | Bounds | Distinct states | What it shows |
|---|---|---|---|
| `PlanReviewFaults` | 2 plans, 3 revisions, 6 verdicts, 1 fault of crash, lost request, lost response, lost activity list, lost card list; fair | 482,365 | safety of the review, receipts true, refinement of `PlanGate`, a plan is settled, waits for missing evidence or is left to an operator |
| `PlanReviewReplans` | 2 plans replaced at will, also after approval, 4 revisions, 2 faults of crash and canonical start | 1,597,847 | envelope and record can always be merged, a plan that a run has read is executed only if reviewed |
| `JournalReplica` | a card, an approval, a message; 2 receipts; record limit 2; any evidence; faults unbounded | 28,619 | calls bounded and recorded, the record loads and only advances |
| `ProviderSession` | 4 sessions, 5 intents, 2 resumptions, 1 drop, 1 fault of 9 kinds; fair | 141,820 | one session per task, none forgotten, none beside a pull request, each created one adopted |
| `QuestionReview` | 2 questions, 2 generations, 1 fault of 8 kinds; fair | 265,205 | a decision reaches Jules once and as recorded, one reviewer at work, questions are settled |
| `TerminalDelivery` | 2 heads, 2 faults of 5 kinds | 2,595,818 | messages sent once, no open confirmation beside a pull request |
| `TerminalSettles` | 1 head, 1 question, 1 fault of 6 kinds; fair | 267,888 | a rejection is delivered, a confirmation ends the task |
| `ActivityMirror` | 3 activities in any order of appearance, overlap 1, ring of 1, 2 pages, 2 faults of 5 kinds; fair | 1,354,946 | nothing skipped, everything due is commented in the end |
| `PullRequestReview` | 2 heads, 1 disturbance: another head, failed call, crash or failed run; a merge by the user at any moment; fair | 232,255 | the ladder in order, merge card only after both verdicts; a merge ends the issue, a rejection returns to Jules, the head of a finished review reaches the operator |
| `Dispatcher` | 3 managed tasks on one symbol, an unmanaged dependency, 1 slot per lane, 1 move (reopening included), 1 fault; fair | 87,271 | no clashing start, dependencies first, authorized tasks run |
| `ChildPlanReview` | 2 plans, 3 revisions, 1 fault of 12 kinds; fair | 313,719 | one write to Jules per revision, a decided review stays decided, refinement of `PlanGate`, a review ends or its parent is held |
| `Companions` | 2 approvals, 1 press or reply, 1 fault; 2 projects, 3 issues, 1 event; fair | 54,822 | cards repeat and lie about nothing, approvals are announced, a press decides; one issue per file, a revision reaches it |

Deadlock is checked except where the modelled process may really stop: an issue that is
done or ended (TerminalDelivery, PullRequestReview, Dispatcher), all activities
mirrored, a parent held for the operator (ChildPlanReview), or a chat and a backlog in
which nothing happens any more (Companions).

Why these bounds are enough: two plans, heads or questions are the least for one to
supersede another, and each property speaks of at most two. One fault reaches every cut
of a protocol, but not a message lost and then overwritten: TerminalDelivery has two of
different kinds (it and ActivityMirror allow each kind once). Where a recovery can itself
be cut, the record-level protocol is checked without a bound (JournalReplica) or the
safety property is proved for every number of faults (section 4). Three revisions let every retry of a plan and a second plan have
their own (`MaxRevs` is at least `MaxPlans + MaxFaults`). A record limit of two for three
effects makes the journal overflow, the case of the 51st effect. A ring of one and an
overlap of one make both limits bite with three activities. Three tasks that share a
symbol, two lanes and one slot make every pair compete. `OneTaskSession`
needs four sessions: a paused one, its replacement, and the two that a fault could add.

**Fairness.** A run in progress goes on, and another one starts for an open issue
(`Heartbeat`, `Run`, `Tick`): the result of `yieldHeartbeat` asks for it and Paperclip's
monitors repeat it. In TerminalDelivery this holds only while the issue is awake
(`Wakened`), because nothing wakes an issue that waits in review. The Telegram worker is
started again and its two loops go on; a scheduler timer comes between the scoped wakes
of a company (strong fairness) and the lanes of a heartbeat end. Jules keeps working
where its part is assumed (plans, echoes, resumption, start of an assigned run), a
reviewer or the board ends a pending card some day, and a worker of the Dispatcher,
a queued bootstrap run and a handoff of Jules in PullRequestReview that are infinitely often
able to proceed do (strong fairness: ticks keep interrupting them). No
fairness for faults, for plans nobody asked for, for merges by the user, or for people
who may answer but need not.

`PlanIsSettledOrUndecided` speaks of plans before the last one of the bound: Jules has no
further plan with which to answer a revision of that one. It and `QuestionIsSettled` end in
`[]Undecided`, `[]LeftToOperator` and `[]Stuck`: the session waits from then on and for ever
for evidence that is missing for good, or for an operator, where the code waits on
purpose. The same states in passing, between an intent and its call, discharge nothing.

### What the code does not promise

Met while modelling, and excluded from the properties by a named bound or precondition:

- *Plan review.* `approvePlan(sessionId)` approves whatever awaits approval, so a plan
  that Jules publishes between the poll of a run and its call is executed unseen
  (plan-document-revision-contract.md:95). It happens in `PlanReviewReplans`, where Jules
  replaces plans at will; `ReadPlanIsReviewed` therefore speaks of the plan a run has read.
  `PlanReviewFaults` lets Jules replace a plan only when asked. A card that is cancelled
  for a reason other than the adapter's two leaves its plan to an operator: each heartbeat
  yields (JE:4557). A start from the canonical id does not merge the record and may
  repeat effects. A session with one approved plan waits for a person on its next plan.
  After two crashes an envelope may name a revision request that the record has seen
  fulfilled; if the activity list of that run cannot be read either, the request is sent
  again (JE:4139-4147, 3617-3649). An interaction list that cannot be read makes the card
  of an approved plan look lost, and its review is opened again (JE:3919).
- *ChildPlanReview.* A second bootstrap run accepts the card of a failed first run, the
  parent never does. A failed run of a child leaves the parent held. The approval of a
  plan replaced between poll and call is as in plan review. An approval started by a run
  that died, without evidence of its arrival, waits (`Stranded`). Two writes may be
  repeated, each after two faults or more. A run dies after its `approvePlan`, the next one
  cannot read the history and is held, and Jules ends without output: the operator may then
  approve by hand what was approved already. And an older envelope with a delivered request
  hides the newer request on record, because the merge prefers the envelope's: after four
  runs in a row that died, the review of the same revision is opened again, finds its
  rejected card, and Jules is asked once more. `DecidedOnce` excepts them.
- *ActivityMirror.* A comment that fails while the activities of an ended session are
  scanned is not retried: the scan is recorded as complete (JE:2671-2694), although
  activity-mirror.ts:202-205 says that a later heartbeat must. `NothingSkipped` is about
  live sessions, and so is `MirroredInTheEnd`. No property says that a comment is posted
  once: a list of comments that cannot be read counts as empty (paperclip-client.ts:646),
  the POST then repeats a comment, and only its Idempotency-Key can keep Paperclip from
  showing it twice.
- *ProviderSession.* The recovery record is filed under the name of the repository. A run
  that cannot look this name up in the catalog of Jules, after two crashes, finds no
  record of the session and creates a second one beside the pull request. A recovery session adopted from a prepared create has lost its
  `prRemediation`, so that a second one can be prepared (jules-session-handle.ts:24-27
  speaks of a single-flight fence).
- *QuestionReview.* When a reviewer ends without a decision its card is withdrawn before
  the next generation is recorded (JE:2382-2386). If the run ends in between, the next one
  finds neither a pending card nor a failed run, and waits for that reviewer for ever
  (the last disjunct of `Stuck`). An intent in conflict with the recorded answer stops the heartbeat
  (`Undelivered`); a person's reply to a card is relayed once more in each cycle that
  still reads it unanswered (JE:1985).
- *TerminalDelivery.* A question overwrites the pointer to a pending completion card,
  which stays open beside a later pull request; `NoConfirmationBesidePr` speaks of
  sessions without one (`jules.asked = 0`). An envelope older than a delivered rejection,
  without the record, sends it again (JE:1531-1533). The record
  remembers one mutation. If the answer to the relayed rejection is lost and the next run
  cannot read the review cards, that run sees no rejection, hands the head over to review,
  and its board write takes the slot; the run after it sends the rejection again.
  `MessagesSentOnce` excepts these two faults together, which is why its run has two.
  Each kind of failure happens once in this module, and one crash cannot repeat the demand
  for a pull request. Two can: the first right after the demand was sent, the second after
  a person resolved the confirmation and the run deleted the record (JE:1780-1816). The
  next run starts from an envelope that never learned of the demand.
- *PullRequestReview.* `lifecycleConvergenceGuard.clear(key)` inside the guarded effect
  (OE:1669, 1677, 1695) is undone when the effect returns (convergence-guard.ts:18-36),
  and a refused PATCH completes its key (OE:1589-1592): the effect is not repeated until
  the snapshot or the process changes. The child lane does not consult the CI gate
  (OE:3103-3155). A merge approval is found by issue, whatever its head
  (review-pipeline.ts:201-210): once the operator has rejected the card of one head, a
  newer head that both reviewers approve goes back to Jules in every tick
  (review-pipeline.ts:449-458) and never reaches the operator, although
  orchestrator/README.md:11-22 describes the ladder for each update of the pull request.
  `ReviewedHeadReachesOperator` asks for a card of the very head, and excepts issues that
  have one already. The card names the pull request and not its head (OE:3741-3747), so
  one that is pending when Jules pushes is answered for another head. If the answer to a reassignment is lost, the issue is
  with Jules without a wake until its monitor fires (OE:3650). A child whose boot run
  fails after the parent went back stays "failed bootstrap", one whose card was posted
  by a run that died is held. A crash is the only way a merge key of a reopened issue is
  forgotten.
- *Dispatcher.* A paused task (held, OE:3803, or blocked, dispatcher.ts:186-195) keeps no
  locks although orchestrator/README.md:55 says it does: the exception in
  `StartsAlone`. A task whose dependency is held or not managed is selected in every tick
  and refused by the gate, and may starve others of its slot (dispatcher.ts:203-226). A
  fine-grained candidate ignores the file locks of a lower-ranked task in review
  (dispatcher.ts:245-253). A dependency that is reopened between the gate (OE:4001) and
  the start write (OE:4030) does not keep the task from starting: the exception in
  `DependenciesFirst`. `StartTask` can reopen a task closed since the snapshot
  (OE:4012-4030). A lost wake leaves the task to the 48-hour reaper.

## 4. Proofs

TLAPS proves, for every value of the constants allowed by the named assumptions:

- **AtMostOnceProofs**, on three components that may repeat a remote call.
  *JournalReplica*: all four properties of the run and the types, for any set of
  effects, kinds, receipts, any evidence and any limit. The accounting invariant bounds `calls[e]` by
  what the attempts on disk have *paid* for (a started attempt its count, a confirmed one
  the limit of its kind) and says the memory is never behind the disk, which is why an
  entry leads the call. The loadable invariant says that one of envelope and record
  lists every effect the other lists, and that both fit the schema, so that their merge
  fits too.
  *Telegram*: `CardsAreHonest`. Every card of an approval beyond the first is paid for by a
  restart or by a call that lost its answer (`CopiesCounted`); a reply that was forwarded
  lies before the offset of the worker, unless the loop starts again (`RepliesCounted`).
  *Backlog*: `OneIssuePerFile`, from the count of the issues that are alive together with
  those that a lane has resolved to create but not created (`IssuesCounted`).
- **PlanGateProofs**, first about one revision: `TypeOK`, which is not inductive: a step that
  acts on a card needs `mem.card # NoCard`; `Typed` adds what each step has in hand.
  `ApprovalNeedsBothVerdicts` for every set of faults (`LadderInv`: verdicts are never taken
  back, so each call only has to follow its verdict within one run);
  `ApproveOncePerRevision` and `EffectsAreJournaled` for every set of faults without
  "canonical" (`OnceInv`: the journal of a run is never behind the record, an effect is
  executed only if the run's journal has no entry for it, and a call leaves after its
  entry is on disk). A canonical start begins with an empty journal.
  Then two results under every kind of fault and every replan. `ReadPlanWasReviewed`
  (`ReadInv`: a run reaches `approvePlan` only from a card of the plan it has read).
  `ReceiptsTrue` (`RealInv`: what a run confirms, it confirms from a card, a planApproved
  activity or a mirrored message that the call itself left, and none of them is taken back).
  And three about the whole review. `HeartbeatImplementsGate` is the refinement: every step of the
  heartbeat is a step of `PlanGate` or leaves the ladder alone. It needs that the copies of
  the session agree on which card and which request belong to a revision, that a request
  in preparation has not been sent, and that one which is pending has not been answered.
  `ApprovedIsNotRevised` adds that Jules replaces no plan unasked (`Quiet`, the bounds of
  `PlanReviewFaults`), so that the plan at Jules is the one under review, and keeps apart the plan that was approved and the plan a request
  names. `StartsWithoutConflict` does without `Quiet`: the receipts and the approved plan of
  any two copies of the session are equal where both are set, and the journal holds four
  entries at most for each revision, so that `4 * MaxRevs <= MaxEffects` keeps it below its
  limit. All three exclude "canonical" and "activities", `ApprovedIsNotRevised` also "list":
  the counterexamples TLC finds with these faults are in section 3.
- **ProviderSessionProofs**: `TypeOK` without a premise; `OneTaskSession`, `LiveSessionKnown` and
  `NoTaskSessionBesidePr` for every number of sessions, intents, drops and faults but
  "lookup", with at least two attempts to resume (`MAX_SESSION_RESUME_ATTEMPTS` is 4). The
  invariant has two parts. `Shape` holds always: what a record of each phase looks like and
  what each step of a run has in hand. `Kept` holds while the issue has not been given up
  on purpose: there is one recovery record; no copy knows of a pull request that is not
  registered, and a run that works in the session knows the registered one; a create
  is the first one unless it is a remediation; and until the pull request is registered
  the record names the session of the task or the create it came from, after which that
  session has ended for good.
- **QuestionReviewProofs**: `TypeOK`, `AnswerSentOnce`, `JulesHearsTheCard` and
  `OneReviewerAtWork` for every number of questions, budget and set of faults. `Succession`
  says that a generation begins only when all earlier ones are over, each at the cost of a
  fault; `Pointers` that every copy of the record, however old, names a generation whose
  predecessors are over, which is why an older envelope cannot revive a reviewer;
  `Journals` that a decision which was sent has an entry in the recovery record and that
  the run at work knows every entry; `Place` what a run stands for at each step.
- **TerminalDeliveryProofs**: `TypeOK`, `MessagesSentOnce` and `NoConfirmationBesidePr` for
  every number of heads, questions and set of faults, each kind once. `AtHand` says what a run and the board
  know of each other: a head is reviewed only beside a registered pull request, and a run
  that relays has a rejection in its slot. `DemandInv`: a demand that Jules heard is in the
  envelope, or in the recovery record until the run has ended, so that only the one crash
  can part it from the envelope, and then the record still has it. `FeedbackInv`: every
  rejection Jules was told of is at or before the last delivery on record, or in the slot
  of the last mutation, unless its answer was lost and a newer head or an unread list let
  another mutation take the slot. `CardInv`: a pending confirmation is the one the session
  points to, and that session knows of no pull request. The premises of the
  two properties are needed: TLC finds the counterexamples without them (section 3).
- **OrchestratorProofs**, on the two ticks. *PullRequestReview*: `TypeOK`, `LadderInOrder` and
  `MergeCardNeedsBothVerdicts` for every number of heads and faults. The ladder needs that
  a verdict once settled stays, and that the stage a tick works on was decided on the head
  in its snapshot: heads may move, verdicts on a head do not. The merge card needs the same
  of the step between the decision and the POST.
  *Dispatcher*: `TypeOK`, `StartsAlone` and `DependenciesFirst` for every set of tasks,
  conflict relation, slots and faults. The invariant says that what was selected in this
  tick clashes neither with one another nor with what the snapshot shows at work, and
  that whatever got to work since the snapshot was started by this very tick.
  `DependenciesFirst` needs that between gate and start write every dependency of the task
  in hand is done or was reopened meanwhile.
- **ChildPlanReviewProofs**: `TypeOK`, `DecidedStaysDecided`, `DecidedOnce` and the refinement of
  `PlanGate`, for every number of plans, revisions and faults of every kind. The board, the
  document and Jules only move forward (`Monotone`), so that a record stays true while
  nothing writes it. `Records` says of each of the three copies of the session that the
  card it works on exists and that Luna's approval is behind Terra's card (`Sound`), and of
  any two that a later one has not decided what the other works on (`Distinct`); the merge
  at startup keeps this, because `mergeDurableSessionCheckpoints` drops a review that the
  record has decided. `Journaled`: an approval that Jules received has both verdicts and is
  in the journal on record, or in the operator's receipt. `Remembered` and `Replied`: a
  request that was sent is in the record until Jules shows a newer plan, for the record
  and for the run at work. `Place` says what the run has in hand at each step.
  `DecidedOnce` is about a step and not a state, because it names two repetitions that the
  code does make (section 3). `ImplementsGate` is the refinement: a card turns once
  from absent to pending and once to its verdict, only its own child's runs turn it, and each
  write follows its verdicts. Its premise excludes just the repetitions (`Repeats`), which
  the ladder does not have.
- **ActivityMirrorProofs**: `TypeOK` and `NothingSkipped` for every number of
  activities, overlap, ring size, number of pages and set of faults, each kind once. Nothing
  is skipped
  because whatever a record lists as delivered needs no further comment (`RecordsKept`),
  neither the replayed envelope's cursor nor the run's is beyond an activity that is due
  (`DueAhead`), and a run delivers the oldest first and stops at the first comment that
  fails (`InOrder`). That an overlap or a larger ring is not needed for it follows: they
  serve what Jules shows late.

Each inductive invariant was checked by TLC on small instances first, with more faults than
the runs have; the one of ChildPlanReview with two faults of all twelve kinds (2.8 million
states). The types, `EffectsAreJournaled` and `Journaled` are proved only, no run checks them.
Every safety property that a run checks is also a theorem, under the premises named
above. Only model-checked: what a premise excludes (the listed faults of PlanGateProofs,
ProviderSessionProofs and TerminalDeliveryProofs, `Repeats` of ChildPlanReviewProofs); and
everything under fairness, which with ENABLED is out of the prover's reach:
`PlanIsSettledOrUndecided`, `MirroredInTheEnd`, `CreatedIsAdopted`, `QuestionIsSettled`, `TerminalWorkSettles`,
`MergedEndsDone`, `HeadsReachTheirEnd`, `AuthorizedTaskRuns`, `ReviewSettles`, `OperatorIsServed`
and `ContractReachesBoard`. No module has a RECURSIVE operator.

## 5. Mutants

Each property of a passing run has a mutant next to the definition it changes: the bug it
would catch. Examples: the journal entry is written only in memory (`BeginInMemory`), any
answer counts as a verdict (`AnswerApproves`), a create is prepared only in memory
(`PrepareInMemory`), a live reviewer is replaced (`ObservationImpatient`), the strong
reviewer's stage is taken from any head (`StageOfAnyHead`), the dependency gate trusts the
snapshot (`GateOfSnapshot`), an older envelope brings a decided review back (`MergeRevives`),
a completed review is observed as if it were pending (`LunaAnswered`).

## 6. Not modelled, and what could follow

- *Review dispatch and stage ownership*: the grace period, wake limit and replacement of a
  plan-review card whose reviewer's runs were lost, and the owner of the issue meanwhile.
  NativePlanReview lets a card be cancelled or expire at any moment instead.
- *Conflict recovery* and the follow-up of sessions without a pull request, monitor
  expiry, execution blockers, and the capacity shared between projects.
- Legacy cards and legacy question bridges.
- *Fleet and workspaces*: file, git and HTTP work local to one call.
- HTTP clients, configuration, prompts, formatting, scripts and test campaigns keep no
  protocol state of their own. Antigravity and Vibe appear as environment.

Further proofs within reach: which sets of faults exclude the two repetitions in
ChildPlanReview, so that its refinement of `PlanGate` needs no premise on the steps.
