------------------------------- MODULE Backlog -------------------------------
(***************************************************************************)
(* The intake of a heartbeat: every project it runs checks its workspace,  *)
(* mirrors its backlog file to a Paperclip issue and archives the file of  *)
(* a done issue.  Projects run side by side on one company-wide list of    *)
(* issues.  The file is the contract, the issue the live state; the sync   *)
(* itself writes the file (inferred targets, the id of its issue) and so   *)
(* dirties the workspace until a person publishes or discards that.  The   *)
(* repair of the project an issue names is left out.                       *)
(***************************************************************************)
EXTENDS Naturals, FiniteSets, FiniteSetsExt

CONSTANTS
  Projects,     \* each with a workspace, some with a backlog file of the same title
  MaxIssues,    \* bound on the issues that are created
  MaxEvents     \* bound on revisions, on what happens to issues, and on faults

VARIABLES
  issues,       \* Paperclip: the issues of one canonical title, by id
  remote,       \* the published file of each project
  local,        \* the file in its workspace
  dirty,        \* the workspace has unpublished changes
  lane,         \* the heartbeat's run of each project: its place and the list it read
  unread,       \* how often a list of issues could not be read
  events        \* revisions of a file, moves of an issue and faults so far

blVars == <<issues, remote, local, dirty, lane, unread, events>>
files == <<remote, local, dirty>>

Foreign == MaxIssues + 1    \* an issue of another title, named by a copied header
NoIssues == [i \in {} |-> {}]
Idle == [at |-> "idle", known |-> {}, seen |-> NoIssues]
Goes(p, at) == lane' = [lane EXCEPT ![p].at = at]
Rests(p) == lane' = [lane EXCEPT ![p] = Idle]
Event == events < MaxEvents /\ events' = events + 1
Calm == UNCHANGED events

-----------------------------------------------------------------------------
(* The heartbeat.                                                          *)

Resting == \A p \in Projects : lane[p].at = "idle"
Run(ps) == /\ Resting /\ ps # {}
           /\ lane' = [p \in Projects |-> IF p \in ps THEN [Idle EXCEPT !.at = "check"] ELSE Idle]
           /\ UNCHANGED <<issues, files, unread, events>>

\* A scheduler timer runs every project, a scoped wake its own; a scope that is
\* malformed, unknown or contradicts the run record runs none.
Timer == Run(Projects)
ScopedWake == \E p \in Projects : Run({p})

HeartbeatDies == /\ ~Resting /\ Event /\ lane' = [p \in Projects |-> Idle]
                 /\ UNCHANGED <<issues, files, unread>>

\* checkWorkspaceConsistency: a clean workspace is fast-forwarded; anything else
\* skips the sync and goes on to the archive.
Check(p) ==
  /\ lane[p].at = "check"
  /\ \/ /\ ~dirty[p] /\ local' = [local EXCEPT ![p] = remote[p]] /\ Goes(p, "sync") /\ Calm
     \/ /\ dirty[p] /\ UNCHANGED local /\ Goes(p, "archive") /\ Calm
     \/ /\ ~dirty[p] /\ UNCHANGED local /\ Goes(p, "archive") /\ Event
  /\ UNCHANGED <<issues, remote, dirty, unread>>

-----------------------------------------------------------------------------
(* The sync of one file.                                                   *)

Reusable(seen) == {i \in DOMAIN seen : seen[i].status # "cancelled"}

\* A plausible slip: only the declared id is looked up.
ResolutionByHeader(p, seen) == Reusable(seen) \cap {local[p].header}

\* resolveBacklogIssueCandidates: the declared id, if its title agrees, else the
\* exact title.
Resolution(p, seen) ==
  LET h == local[p].header IN IF h \in Reusable(seen) THEN {h} ELSE Reusable(seen)

\* Targets inferred from the symbols a file names are written into it.
Fills(p) == /\ local' = [local EXCEPT ![p].filled = TRUE]
            /\ dirty' = [dirty EXCEPT ![p] = @ \/ ~local[p].filled]

\* The list of issues, where one that cannot be read counts as empty, and the
\* issue the file resolves to, as the list showed it.  A declared issue of another
\* title and an ambiguous title are conflicts.
Sync(p) ==
  /\ lane[p].at = "sync" /\ local[p].place = "backlog"
  /\ \E read \in BOOLEAN :
       /\ IF read THEN Calm /\ UNCHANGED unread ELSE Event /\ unread' = unread + 1
       /\ LET seen == IF read THEN issues ELSE NoIssues
              found == Resolution(p, seen)
              conflict == (read /\ local[p].header = Foreign) \/ Cardinality(found) > 1
              known == IF conflict THEN {} ELSE found IN
          lane' = [lane EXCEPT ![p] =
                     [at |-> IF conflict THEN "archive" ELSE IF found = {} THEN "create" ELSE "describe",
                      known |-> known, seen |-> [i \in known |-> seen[i]]]]
  /\ Fills(p)
  /\ UNCHANGED <<issues, remote>>

NothingToSync(p) ==
  /\ lane[p].at = "sync" /\ local[p].place # "backlog" /\ Goes(p, "archive")
  /\ UNCHANGED <<issues, files, unread, events>>

Declares(p, i) == /\ local' = [local EXCEPT ![p].header = i]
                  /\ dirty' = [dirty EXCEPT ![p] = TRUE]

\* The POST, then the id into the file.
Create(p) ==
  /\ lane[p].at = "create" /\ Cardinality(DOMAIN issues) < MaxIssues
  /\ LET i == Cardinality(DOMAIN issues) + 1
         new == [text |-> local[p].text, status |-> "backlog", owner |-> "orchestrator"]
         created == [j \in DOMAIN issues \cup {i} |-> IF j = i THEN new ELSE issues[j]] IN
     \/ issues' = created /\ Declares(p, i) /\ Calm
     \/ issues' \in {issues, created} /\ Event /\ UNCHANGED <<local, dirty>>
  /\ Goes(p, "archive")
  /\ UNCHANGED <<remote, unread>>

Known(p) == CHOOSE i \in lane[p].known : TRUE

\* A PATCH of the known issue takes effect, or fails and is left to the next
\* pass; the sync decides on the list it read.
Patches(p, wanted, patched) ==
  IF wanted THEN \/ issues' = [issues EXCEPT ![Known(p)] = patched] /\ Calm
                 \/ UNCHANGED issues /\ Event
  ELSE UNCHANGED issues /\ Calm

\* A plausible slip: the contract is copied only when an issue is adopted.
DescribeAdopted(p) ==
  /\ lane[p].at = "describe" /\ Goes(p, "own")
  /\ LET i == Known(p) IN
     Patches(p, lane[p].seen[i].text # local[p].text /\ local[p].header = 0,
             [issues[i] EXCEPT !.text = local[p].text])
  /\ UNCHANGED <<files, unread>>

Describe(p) ==
  /\ lane[p].at = "describe" /\ Goes(p, "own")
  /\ LET i == Known(p) IN
     Patches(p, lane[p].seen[i].text # local[p].text, [issues[i] EXCEPT !.text = local[p].text])
  /\ UNCHANGED <<files, unread>>

\* classifyBacklogOwnership: only queued work is claimed or taken back.
Reclaims(seen) == seen.status = "backlog" /\ seen.owner \in {"none", "person"}

\* The PATCH that takes the issue back, then its id into a file that declares none.
Own(p) ==
  /\ lane[p].at = "own" /\ Goes(p, "archive")
  /\ LET i == Known(p) IN
     Patches(p, Reclaims(lane[p].seen[i]),
             [issues[i] EXCEPT !.status = "backlog", !.owner = "orchestrator"])
  /\ IF local[p].header = 0 THEN Declares(p, Known(p)) ELSE UNCHANGED <<local, dirty>>
  /\ UNCHANGED <<remote, unread>>

\* The file of a done issue moves away, whatever the state of the workspace.
Archive(p) ==
  /\ lane[p].at = "archive" /\ Rests(p)
  /\ LET h == local[p].header IN
     IF local[p].place = "backlog" /\ h \in DOMAIN issues /\ issues[h].status = "done"
     THEN /\ local' = [local EXCEPT ![p].place = "resolved"]
          /\ dirty' = [dirty EXCEPT ![p] = TRUE]
     ELSE UNCHANGED <<local, dirty>>
  /\ UNCHANGED <<issues, remote, unread, events>>

-----------------------------------------------------------------------------
(* People and workers.                                                     *)

\* Dispatch, the end of the work, a person who takes the issue, releases it,
\* starts it by hand, or cancels it.
IssueMoves ==
  /\ Event
  /\ \E i \in DOMAIN issues :
       LET now == [status |-> issues[i].status, owner |-> issues[i].owner]
           To(s, o) == issues' = [issues EXCEPT ![i].status = s, ![i].owner = o] IN
       \/ now.status = "backlog" /\ now.owner = "orchestrator" /\ To("in_progress", "worker")
       \/ now.status = "in_progress" /\ To("done", now.owner)
       \/ now.status = "backlog" /\ \E o \in {"person", "none"} : To("backlog", o)
       \/ now.status = "backlog" /\ To("in_progress", "person")
       \/ now.status = "backlog" /\ To("cancelled", now.owner)
  /\ UNCHANGED <<files, lane, unread>>

\* A person revises the published file.
Revise == /\ \E p \in Projects : /\ Event
                                 /\ remote' = [remote EXCEPT ![p].text = @ + 1]
          /\ UNCHANGED <<issues, local, dirty, lane, unread>>

\* A person publishes what the sync wrote, on top of what is published, or
\* discards it.
Publish ==
  /\ \E p \in Projects :
       /\ dirty[p] /\ dirty' = [dirty EXCEPT ![p] = FALSE]
       /\ lane[p].at = "idle"
       /\ \/ LET merged == [local[p] EXCEPT !.text = remote[p].text]
             IN remote' = [remote EXCEPT ![p] = merged] /\ local' = [local EXCEPT ![p] = merged]
          \/ local' = [local EXCEPT ![p] = remote[p]] /\ UNCHANGED remote
  /\ UNCHANGED <<issues, lane, unread, events>>

-----------------------------------------------------------------------------
File(place) == [text |-> 1, filled |-> FALSE, header |-> 0, place |-> place]

\* At least one project holds the file; the first may have copied its header.
Init ==
  /\ issues = NoIssues
  /\ \E first \in Projects, other \in {"backlog", "none"}, copied \in {0, Foreign} :
       remote = [p \in Projects |-> IF p = first THEN [File("backlog") EXCEPT !.header = copied] ELSE File(other)]
  /\ local = remote
  /\ dirty = [p \in Projects |-> FALSE]
  /\ lane = [p \in Projects |-> Idle]
  /\ unread = 0 /\ events = 0

Lane(p) == \/ Check(p) \/ Sync(p) \/ NothingToSync(p) \/ Create(p)
           \/ Describe(p) \/ Own(p) \/ Archive(p)
Others == IssueMoves \/ Revise \/ Publish
Next == Timer \/ ScopedWake \/ HeartbeatDies \/ (\E p \in Projects : Lane(p)) \/ Others

-----------------------------------------------------------------------------
(* Properties.                                                             *)

Alive == Reusable(issues)
Holders == {p \in Projects : remote[p].place # "none"}

\* A file has one issue, whatever is lost on the way: only a list that could not
\* be read, or two projects whose files have one title, lead to another.
OneIssuePerFile == Cardinality(Alive) <= Cardinality(Holders) + unread

\* A published revision reaches the issue of its file, unless the workspace waits
\* for a person, or the file was archived or is in conflict.
Stuck(p) == dirty[p] \/ remote[p].place # "backlog" \/ remote[p].header = Foreign \/ Cardinality(Alive) > 1
ContractReachesBoard ==
  \A p \in Projects, v \in 1 .. MaxEvents + 1 :
    (remote[p].text = v) ~> (Stuck(p) \/ \E i \in DOMAIN issues : issues[i].text >= v)
=============================================================================
