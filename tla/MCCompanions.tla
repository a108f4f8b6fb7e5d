---------------------------- MODULE MCCompanions ----------------------------
(***************************************************************************)
(* One run over the parts of the system that share no state with the       *)
(* session of a task: the Telegram companion and the intake of a           *)
(* heartbeat.  The first state picks the part that runs; the others stay   *)
(* where they start.                                                       *)
(***************************************************************************)
EXTENDS Naturals, Sequences, FiniteSets

CONSTANTS Approvals, MaxUpdates, MaxFaults, Projects, MaxIssues, MaxEvents

VARIABLES
  part,
  approval, comments, chat, updates, confirmed, worker, poll, handler, refused, faults,
  issues, remote, local, dirty, lane, unread, events

\* The approvals are numbered, the replies and the projects are finitely many.
ASSUME CompanionsAssumption ==
  /\ Approvals \subseteq Nat
  /\ MaxUpdates \in Nat
  /\ IsFiniteSet(Projects) /\ MaxIssues \in Nat

T == INSTANCE Telegram
B == INSTANCE Backlog

telegram == <<approval, comments, chat, updates, confirmed, worker, poll, handler, refused, faults>>
backlog == <<issues, remote, local, dirty, lane, unread, events>>
vars == <<part, telegram, backlog>>

Init ==
  /\ part \in {"telegram", "backlog"}
  /\ T!Init /\ B!Init
  /\ part # "telegram" => refused = {}
  /\ part # "backlog" => \A p \in Projects : remote[p].header = 0 /\ remote[p].place = "backlog"

Telegram == part = "telegram" /\ UNCHANGED <<part, backlog>>
Backlog == part = "backlog" /\ UNCHANGED <<part, telegram>>

Next == (T!Next /\ Telegram) \/ (B!Next /\ Backlog)

\* The worker starts its loops and they go on; a heartbeat comes and its lanes end.
Spec ==
  /\ Init /\ [][Next]_vars
  /\ WF_vars(T!Setup /\ Telegram) /\ WF_vars(T!Poller /\ Telegram) /\ WF_vars(T!UpdateLoop /\ Telegram)
  /\ SF_vars(B!Timer /\ Backlog) /\ \A p \in Projects : WF_vars(B!Lane(p) /\ Backlog)

-----------------------------------------------------------------------------
\* See Telegram: cards, forwarded replies and what the cards say.
CardsAreHonest == T!CardsAreHonest

\* See Telegram: a pending approval is announced, a pressed button decides.
OperatorIsServed == part = "telegram" => T!AnnouncedAtLast /\ T!PressDecides

\* See Backlog: one issue for a file.
OneIssuePerFile == B!OneIssuePerFile

\* See Backlog: a published revision reaches its issue.
ContractReachesBoard == part = "backlog" => B!ContractReachesBoard
=============================================================================
