--------------------------- MODULE ProviderSession ---------------------------
(***************************************************************************)
(* Which Jules cloud session an issue works in: the part of execute.ts     *)
(* from startup to the poll, with provider-create-reconciliation.ts,       *)
(* session-lifecycle.ts, session-store.ts and jules-session-handle.ts.     *)
(*                                                                         *)
(* The identity of the session is kept four times: env, the envelope that  *)
(* Paperclip replays to the next run; disk, the recovery records (one for  *)
(* each source name); handle, the jules-session document of the issue;     *)
(* mem, the copy of the run in progress.  POST /sessions has no            *)
(* idempotency key: a create is prepared on disk before it is sent and its *)
(* outcome is looked up in the provider's index before another is sent.    *)
(*                                                                         *)
(* What a live session does (plans, questions, pull request) is left to    *)
(* the other modules; here it ends, with or without a pull request.        *)
(***************************************************************************)
EXTENDS Naturals, FiniteSets

CONSTANTS
  MaxSessions,     \* bound on the cloud sessions the provider creates
  MaxIntents,      \* bound on the creates the adapter prepares
  ResumeAttempts,  \* MAX_SESSION_RESUME_ATTEMPTS
  MaxDrops,        \* bound on the times the issue's session is dropped on purpose
  MaxFaults,       \* bound on the failures of a behaviour
  Faults           \* the kinds of failures that may happen

FaultKinds == {"crash", "lost", "response", "list", "disk", "handle", "handle_read", "envelope", "lookup"}

ASSUME BoundsAssumption ==
  /\ MaxSessions \in Nat /\ MaxIntents \in Nat /\ ResumeAttempts \in Nat
  /\ MaxDrops \in Nat /\ MaxFaults \in Nat
  /\ Faults \subseteq FaultKinds

VARIABLES
  cloud,       \* the provider's sessions
  env, disk, handle, mem,
  pc,          \* the step of the run in progress, "idle" between runs
  source,      \* the source name this run uses
  remediation, \* the branch-bound remediation this run creates a session for
  product,     \* the pull request is a work product of the issue
  intents,     \* creates prepared so far; the last is the identity of its prompt
  drops,       \* fresh wakes and releases of the issue so far
  freshRun,    \* this run was asked for a fresh session
  adopted,     \* sessions a run has worked in
  faults

vars == <<cloud, env, disk, handle, mem, pc, source, remediation, product, intents, drops, freshRun, adopted, faults>>

-----------------------------------------------------------------------------
Sessions == 1 .. MaxSessions
NoSession == 0
Sources == {"configured", "catalog"}
CloudStates == {"absent", "live", "paused", "failed", "completed"}
Created == {s \in Sessions : cloud[s].state # "absent"}

(* A prepared create: the prompt (it names the run) and the source. *)
Intents == [prompt : 0 .. MaxIntents, source : Sources]
NoIntent == [prompt |-> 0, source |-> "catalog"]

(* The one remediation of a pull request branch: the session that ended    *)
(* and, once created, the session that continues on the branch.            *)
Remediations == [original : Sessions \cup {NoSession}, recovery : Sessions \cup {NoSession}]
NoRemediation == [original |-> NoSession, recovery |-> NoSession]

Phases == {"none", "STARTING", "RUNNING", "RETRY_SCHEDULED"}
Records == [id : Sessions \cup {NoSession}, phase : Phases, intent : Intents, source : Sources,
            attempt : Nat, pr : BOOLEAN, remediation : Remediations]
NoRecord == [id |-> NoSession, phase |-> "none", intent |-> NoIntent, source |-> "catalog",
             attempt |-> 1, pr |-> FALSE, remediation |-> NoRemediation]
Running(id, src, attempt) ==
  [NoRecord EXCEPT !.id = id, !.phase = "RUNNING", !.source = src, !.attempt = attempt]

Handles == [id : Sessions \cup {NoSession}, pr : BOOLEAN, remediation : Remediations]
NoHandle == [id |-> NoSession, pr |-> FALSE, remediation |-> NoRemediation]

Steps == {"idle", "observe", "startup", "owned", "recover", "prepare", "post", "poll", "persist", "handle", "return"}

Init ==
  /\ cloud = [s \in Sessions |-> [state |-> "absent", intent |-> NoIntent, pr |-> FALSE, branch |-> FALSE]]
  /\ env = NoRecord /\ disk = [x \in Sources |-> NoRecord] /\ handle = NoHandle /\ mem = NoRecord
  /\ pc = "idle" /\ source = "catalog" /\ remediation = NoRemediation /\ product = FALSE
  /\ intents = 0 /\ drops = 0 /\ freshRun = FALSE /\ adopted = {} /\ faults = 0

(* A failure of kind k happens in this step. *)
Fault(k) == k \in Faults /\ faults < MaxFaults /\ faults' = faults + 1
NoFault == UNCHANGED faults

-----------------------------------------------------------------------------
(* upsertJulesSessionHandle: a session without a complete pull request     *)
(* identity erases none, and a recovery session is never replaced.         *)
Complete(r) == r.original # NoSession /\ r.recovery # NoSession
UpsertHandle(r) ==
  [id |-> IF handle.remediation.recovery \notin {NoSession, r.id} THEN handle.remediation.recovery ELSE r.id,
   pr |-> r.pr \/ handle.pr,
   remediation |-> IF Complete(r.remediation) THEN r.remediation ELSE handle.remediation]

(* The run ends and its envelope is kept. *)
EndWith(r) == env' = r /\ mem' = NoRecord /\ pc' = "idle" /\ remediation' = NoRemediation

-----------------------------------------------------------------------------
(* A wake; the source is the catalog's name unless the lookup fails. *)
Wake(asFresh) ==
  /\ pc = "idle"
  /\ asFresh => drops < MaxDrops
  /\ drops' = IF asFresh THEN drops + 1 ELSE drops
  /\ freshRun' = asFresh
  /\ \/ source' = "catalog" /\ NoFault
     \/ source' = "configured" /\ Fault("lookup")
  /\ pc' = "observe"
  /\ UNCHANGED <<cloud, env, disk, handle, mem, remediation, product, intents, adopted>>

Prepared(r) == r.phase = "STARTING"

PreparedCreate == IF Prepared(env) THEN env ELSE disk[source]

(* Mutant: a session that ended is no candidate. *)
LiveMatches(intent) == {s \in Created : cloud[s].state = "live" /\ cloud[s].intent = intent}

(* Sessions the index shows for a prepared create: same prompt and source. *)
Matches(intent) == {s \in Created : cloud[s].intent = intent}

ObserveNoCreate ==
  /\ pc = "observe" /\ ~Prepared(PreparedCreate)
  /\ pc' = "startup"
  /\ UNCHANGED <<cloud, env, disk, handle, mem, source, remediation, product, intents, drops, freshRun, adopted, faults>>

(* Not exactly one match in a complete index: no create is allowed, and    *)
(* the prepared record becomes the envelope.                               *)
HoldCreate ==
  /\ pc = "observe" /\ Prepared(PreparedCreate)
  /\ \/ Cardinality(Matches(PreparedCreate.intent)) # 1 /\ NoFault
     \/ Fault("list")
  /\ EndWith(PreparedCreate)
  /\ UNCHANGED <<cloud, disk, handle, source, product, intents, drops, freshRun, adopted>>

(* Exactly one: the run adopts it.  Its record is new: what the create was *)
(* for, and what later runs recorded, is not in the prepared record.  A    *)
(* wake that wants a fresh session ends here.                              *)
Reattach ==
  /\ pc = "observe" /\ Prepared(PreparedCreate)
  /\ \E s \in Matches(PreparedCreate.intent) :
       LET recovered == Running(s, PreparedCreate.source, PreparedCreate.attempt) IN
       /\ Cardinality(Matches(PreparedCreate.intent)) = 1
       /\ \/ /\ disk' = [disk EXCEPT ![recovered.source] = recovered]
             /\ adopted' = adopted \cup {s}
             /\ IF freshRun THEN EndWith(recovered)
                ELSE mem' = recovered /\ pc' = "startup" /\ UNCHANGED <<env, remediation>>
             /\ NoFault
          \/ /\ Fault("disk")       \* saveStoredSession rejects: the run fails
             /\ pc' = "idle" /\ UNCHANGED <<env, disk, mem, remediation, adopted>>
  /\ UNCHANGED <<cloud, handle, source, product, intents, drops, freshRun>>

-----------------------------------------------------------------------------
(* evaluateSessionStartup.  The envelope wins; a record of the same        *)
(* session fills what it lacks.                                            *)
MergeCheckpoints(r, stored) ==
  IF r.id # stored.id THEN r
  ELSE [r EXCEPT !.pr = r.pr \/ stored.pr,
                 !.remediation = IF r.remediation = NoRemediation THEN stored.remediation ELSE r.remediation]

FromHandle(h, attempt) ==
  [Running(h.remediation.recovery, source, attempt) EXCEPT !.pr = TRUE, !.remediation = h.remediation]

StartupSession(h) ==
  LET stored == IF mem # NoRecord THEN mem ELSE disk[source]
      decoded == IF mem # NoRecord THEN mem ELSE env
  IN IF decoded # NoRecord THEN MergeCheckpoints(decoded, stored)
     ELSE IF stored # NoRecord THEN stored
     ELSE IF h.id # NoSession THEN Running(h.id, source, 1)
     ELSE NoRecord

(* preferBranchBoundRecoveryHandle *)
Prefer(r, h) ==
  IF h.pr /\ Complete(h.remediation) /\ r.id # h.remediation.recovery THEN FromHandle(h, r.attempt) ELSE r

(* restoreBranchBoundRemediationFromHandle, the pull request of the        *)
(* handle, and the pull request of the primary work product.               *)
Restore(r, h) ==
  IF r = NoRecord THEN r
  ELSE [r EXCEPT !.pr = r.pr \/ (h.id = r.id /\ h.pr) \/ product,
                 !.remediation = IF h.id = r.id /\ h.pr /\ Complete(h.remediation) /\ h.remediation.recovery = r.id
                                 THEN h.remediation ELSE r.remediation]

StartFresh ==
  /\ pc = "startup" /\ freshRun
  /\ disk' = [disk EXCEPT ![source] = NoRecord]
  /\ mem' = NoRecord
  /\ pc' = "recover"
  /\ UNCHANGED <<cloud, env, handle, source, remediation, product, intents, drops, freshRun, adopted, faults>>

Startup ==
  /\ pc = "startup" /\ ~freshRun
  /\ \E h \in {handle, NoHandle} :
       /\ \/ h = handle /\ NoFault
          \/ h # handle /\ Fault("handle_read")
       /\ mem' = Restore(Prefer(StartupSession(h), h), h)
  /\ adopted' = adopted \cup (IF mem'.id # NoSession THEN {mem'.id} ELSE {})
  /\ pc' = IF mem' = NoRecord THEN "recover" ELSE "owned"
  /\ UNCHANGED <<cloud, env, disk, handle, source, remediation, product, intents, drops, freshRun>>

(* The issue belongs to Jules, or the run gives its local state up. *)
Owned ==
  /\ pc = "owned"
  /\ pc' = IF mem.phase = "RETRY_SCHEDULED" THEN "recover" ELSE "poll"
  /\ UNCHANGED <<cloud, env, disk, handle, mem, source, remediation, product, intents, drops, freshRun, adopted, faults>>

Release ==
  /\ pc = "owned" /\ drops < MaxDrops
  /\ drops' = drops + 1
  /\ disk' = [disk EXCEPT ![source] = NoRecord]
  /\ EndWith(NoRecord)
  /\ UNCHANGED <<cloud, handle, source, product, intents, freshRun, adopted, faults>>

-----------------------------------------------------------------------------
(* No session, or one scheduled for a retry. *)
IsRetry == mem.phase = "RETRY_SCHEDULED"
Attempt == IF IsRetry THEN mem.attempt + 1 ELSE 1
Live(s) == s # NoSession /\ cloud[s].state = "live"

(* The remote session turned out to be alive: keep polling it. *)
ContinueLive ==
  /\ pc = "recover" /\ IsRetry /\ Live(mem.id)
  /\ mem' = [mem EXCEPT !.phase = "RUNNING"]
  /\ pc' = "persist"
  /\ UNCHANGED <<cloud, env, disk, handle, source, remediation, product, intents, drops, freshRun, adopted, faults>>

(* Ask the same session to go on, by a chat message; it may or may not     *)
(* come back to life.  The attempt of the record stays as it is.           *)
ResumeByMessage ==
  /\ pc = "recover" /\ IsRetry /\ ~mem.pr /\ mem.id # NoSession /\ ~Live(mem.id)
  /\ Attempt <= ResumeAttempts
  /\ mem' = [mem EXCEPT !.phase = "RUNNING"]
  /\ \E next \in {cloud[mem.id].state, "live"} : cloud' = [cloud EXCEPT ![mem.id].state = next]
  /\ pc' = "persist"
  /\ UNCHANGED <<env, disk, handle, source, remediation, product, intents, drops, freshRun, adopted, faults>>

(* Mutant: a retry never resumes a session that ended. *)
NeverResumed == ~IsRetry \/ ~Live(mem.id)

NeedsCreate ==
  \/ ~IsRetry
  \/ ~Live(mem.id) /\ (mem.pr \/ mem.id = NoSession \/ Attempt > ResumeAttempts)

(* Mutant: the prepared create is kept in memory only. *)
PrepareInMemory ==
  /\ pc = "recover" /\ NeedsCreate /\ intents < MaxIntents
  /\ intents' = intents + 1
  /\ mem' = [NoRecord EXCEPT !.phase = "STARTING", !.intent = [prompt |-> intents + 1, source |-> source],
                              !.source = source, !.attempt = Attempt]
  /\ remediation' = (IF IsRetry THEN mem.remediation ELSE NoRemediation)
  /\ pc' = "post"
  /\ UNCHANGED <<cloud, env, disk, handle, source, product, drops, freshRun, adopted, faults>>

(* The create is prepared on disk; when the write fails nothing is sent,   *)
(* but the run still ends with the prepared record.                        *)
PreparedRecord(prompt, attempt) ==
  [NoRecord EXCEPT !.phase = "STARTING", !.intent = [prompt |-> prompt, source |-> source],
                   !.source = source, !.attempt = attempt]

Prepare ==
  /\ pc = "recover" /\ NeedsCreate /\ intents < MaxIntents
  /\ intents' = intents + 1
  /\ LET r == PreparedRecord(intents + 1, Attempt)
         kept == IF IsRetry THEN mem.remediation ELSE NoRemediation IN
       \/ /\ disk' = [disk EXCEPT ![source] = r] /\ NoFault
          /\ mem' = r /\ pc' = "post" /\ remediation' = kept /\ UNCHANGED env
       \/ /\ Fault("disk")
          /\ EndWith(r) /\ UNCHANGED disk
  /\ UNCHANGED <<cloud, handle, source, product, drops, freshRun, adopted>>

(* POST /sessions: the provider creates the session ... *)
NextSession == Cardinality(Created) + 1
CreateInCloud ==
  /\ NextSession \in Sessions
  /\ cloud' = [cloud EXCEPT ![NextSession] =
       [state |-> "live", intent |-> mem.intent, pr |-> FALSE, branch |-> remediation # NoRemediation]]

CreatedRecord(id) ==
  LET r == Running(id, mem.source, mem.attempt)
  IN IF remediation = NoRemediation THEN r
     ELSE [r EXCEPT !.pr = TRUE, !.remediation = [remediation EXCEPT !.recovery = id]]

Known(src) == src = "catalog"   \* the provider knows the repository by its catalog name only

PostCreated ==
  /\ pc = "post" /\ Known(mem.source)
  /\ CreateInCloud
  /\ mem' = CreatedRecord(NextSession)
  /\ adopted' = adopted \cup {NextSession}
  /\ pc' = "persist"
  /\ UNCHANGED <<env, disk, handle, source, remediation, product, intents, drops, freshRun, faults>>

(* ... or the response is lost, or the request ... *)
PostUnanswered ==
  /\ pc = "post" /\ Known(mem.source)
  /\ \/ Fault("response") /\ CreateInCloud
     \/ Fault("lost") /\ UNCHANGED cloud
  /\ EndWith(mem)
  /\ UNCHANGED <<disk, handle, source, product, intents, drops, freshRun, adopted>>

(* ... or it answers 404, and the create is prepared again under the name  *)
(* of the catalog.  The record of the first name stays.                    *)
PostNotFound ==
  /\ pc = "post" /\ ~Known(mem.source)
  /\ source' = "catalog"
  /\ LET r == [PreparedRecord(mem.intent.prompt, mem.attempt) EXCEPT !.intent.source = "catalog", !.source = "catalog"] IN
       mem' = r /\ disk' = [disk EXCEPT !["catalog"] = r]
  /\ UNCHANGED <<cloud, env, handle, pc, remediation, product, intents, drops, freshRun, adopted, faults>>

-----------------------------------------------------------------------------
(* persistSessionBestEffort, on the way out of every run that keeps its     *)
(* session: the record, then the handle; either write may fail and the run *)
(* goes on.                                                                *)
PersistRecord ==
  /\ pc = "persist"
  /\ \/ disk' = [disk EXCEPT ![mem.source] = mem] /\ NoFault
     \/ disk' = disk /\ Fault("disk")
  /\ pc' = "handle"
  /\ UNCHANGED <<cloud, env, handle, mem, source, remediation, product, intents, drops, freshRun, adopted>>

PersistHandle ==
  /\ pc = "handle"
  /\ \/ handle' = UpsertHandle(mem) /\ NoFault
     \/ handle' = handle /\ Fault("handle")
  /\ pc' = "return"
  /\ UNCHANGED <<cloud, env, disk, mem, source, remediation, product, intents, drops, freshRun, adopted>>

Return ==
  /\ pc = "return"
  /\ EndWith(mem)
  /\ UNCHANGED <<cloud, disk, handle, source, product, intents, drops, freshRun, adopted, faults>>

-----------------------------------------------------------------------------
(* One poll.  A state the adapter does not know is UNKNOWN, and any state  *)
(* but COMPLETED and FAILED is live: the pull request of the record is     *)
(* then stale.                                                             *)
NormalizeJulesState(state) == IF state = "paused" THEN "unknown" ELSE state
Terminal(state) == state \in {"completed", "failed"}
HasPr == mem.pr \/ cloud[mem.id].pr

PollLive ==
  /\ pc = "poll" /\ ~Terminal(NormalizeJulesState(cloud[mem.id].state))
  /\ mem' = [mem EXCEPT !.pr = FALSE, !.phase = "RUNNING"]
  /\ pc' = "persist"
  /\ UNCHANGED <<cloud, env, disk, handle, source, remediation, product, intents, drops, freshRun, adopted, faults>>

(* Mutant: a failure with a pull request takes the generic retry, too. *)
PollFailedGenerically ==
  /\ pc = "poll" /\ cloud[mem.id].state = "failed"
  /\ EndWith([mem EXCEPT !.phase = "RETRY_SCHEDULED"])
  /\ UNCHANGED <<cloud, disk, handle, source, product, intents, drops, freshRun, adopted, faults>>

(* A failure without a pull request schedules a retry, in the envelope     *)
(* only; or it is final.                                                   *)
PollFailed ==
  /\ pc = "poll" /\ cloud[mem.id].state = "failed" /\ ~HasPr
  /\ EndWith([mem EXCEPT !.phase = "RETRY_SCHEDULED"]) \/ EndWith(mem)
  /\ UNCHANGED <<cloud, disk, handle, source, product, intents, drops, freshRun, adopted, faults>>

(* decideTerminalPrLifecycle, once the work product is registered.         *)
NeedsRemediation(ci) == cloud[mem.id].state = "failed" \/ ci = "failed"

PollPullRequest ==
  /\ pc = "poll" /\ Terminal(cloud[mem.id].state) /\ HasPr
  /\ product' = TRUE
  /\ \E ci \in {"success", "pending", "failed"} :
       mem' = IF NeedsRemediation(ci) /\ mem.remediation.recovery = NoSession
              THEN [mem EXCEPT !.pr = TRUE, !.phase = "RETRY_SCHEDULED",
                               !.remediation = [original |-> mem.id, recovery |-> NoSession]]
              ELSE [mem EXCEPT !.pr = TRUE, !.phase = "RUNNING"]
  /\ pc' = "persist"
  /\ UNCHANGED <<cloud, env, disk, handle, source, remediation, intents, drops, freshRun, adopted, faults>>

PollNoPullRequest ==
  /\ pc = "poll" /\ cloud[mem.id].state = "completed" /\ ~HasPr
  /\ EndWith(mem)
  /\ UNCHANGED <<cloud, disk, handle, source, product, intents, drops, freshRun, adopted, faults>>

-----------------------------------------------------------------------------
(* The provider and the operator. *)
CloudStep ==
  /\ \E s \in Created :
       \/ /\ cloud[s].state = "live"
          /\ \E next \in {"failed", "completed"}, pr \in BOOLEAN :
               cloud' = [cloud EXCEPT ![s].state = next, ![s].pr = pr \/ cloud[s].pr]
       \/ cloud[s].state = "live" /\ cloud' = [cloud EXCEPT ![s].state = "paused"]
       \/ cloud[s].state = "paused" /\ cloud' = [cloud EXCEPT ![s].state = "live"]
  /\ UNCHANGED <<env, disk, handle, mem, pc, source, remediation, product, intents, drops, freshRun, adopted, faults>>

(* The process dies; Paperclip loses the envelope. *)
Crash ==
  /\ pc # "idle" /\ Fault("crash")
  /\ mem' = NoRecord /\ pc' = "idle" /\ remediation' = NoRemediation
  /\ UNCHANGED <<cloud, env, disk, handle, source, product, intents, drops, freshRun, adopted>>

LoseEnvelope ==
  /\ pc = "idle" /\ env # NoRecord /\ Fault("envelope")
  /\ env' = NoRecord
  /\ UNCHANGED <<cloud, disk, handle, mem, pc, source, remediation, product, intents, drops, freshRun, adopted>>

Run ==
  \/ Wake(FALSE) \/ ObserveNoCreate \/ HoldCreate \/ Reattach
  \/ StartFresh \/ Startup \/ Owned
  \/ ContinueLive \/ ResumeByMessage \/ Prepare
  \/ PostCreated \/ PostUnanswered \/ PostNotFound
  \/ PersistRecord \/ PersistHandle \/ Return
  \/ PollLive \/ PollFailed \/ PollPullRequest \/ PollNoPullRequest

Next == Run \/ Wake(TRUE) \/ Release \/ CloudStep \/ Crash \/ LoseEnvelope

Spec == Init /\ [][Next]_vars
FairSpec == Spec /\ WF_vars(Run)

-----------------------------------------------------------------------------
(* The state variables keep their types, and a poll has a session. *)
TypeOK ==
  /\ cloud \in [Sessions -> [state : CloudStates, intent : Intents, pr : BOOLEAN, branch : BOOLEAN]]
  /\ env \in Records /\ disk \in [Sources -> Records] /\ handle \in Handles /\ mem \in Records
  /\ pc \in Steps /\ (pc = "poll" => mem.id # NoSession) /\ source \in Sources /\ remediation \in Remediations
  /\ product \in BOOLEAN /\ intents \in 0 .. MaxIntents
  /\ drops \in 0 .. MaxDrops /\ freshRun \in BOOLEAN
  /\ adopted \subseteq Sessions /\ faults \in 0 .. MaxFaults

TaskSessions == {s \in Created : ~cloud[s].branch}

(* No fresh start and no release so far, and no create under a name the    *)
(* provider does not know.                                                 *)
Undisturbed == drops = 0 /\ disk["configured"] = NoRecord

(* An issue whose session was not given up on purpose gets one session of  *)
(* the task, whatever response, record or run is lost on the way           *)
(* (execute.ts, "A create POST without a durable response is not proof").  *)
OneTaskSession == Undisturbed => Cardinality(TaskSessions) <= 1

(* A task session that works in the cloud is never forgotten: a copy of    *)
(* the recovery data names it, or the create it came from (execute.ts,     *)
(* "the next run can resume this exact remote session").                   *)
Copies == {env, mem, disk["configured"], disk["catalog"]}
LiveSessionKnown ==
  Undisturbed => \A s \in TaskSessions : cloud[s].state = "live" =>
    \/ s = handle.id
    \/ \E r \in Copies : r.id = s \/ r.intent = cloud[s].intent

(* Once the pull request is registered no session starts from the base     *)
(* branch beside it (terminal-pr-lifecycle.ts).                            *)
NoTaskSessionBesidePr == [][product /\ TaskSessions' # TaskSessions => drops > 0]_vars

(* Every session the provider creates is worked in by some run, also when  *)
(* the answer to its POST was lost.                                        *)
CreatedIsAdopted == \A s \in Sessions : (s \in Created) ~> (s \in adopted)
=============================================================================
