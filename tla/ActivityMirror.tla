---------------------------- MODULE ActivityMirror ----------------------------
(***************************************************************************)
(* How the activities of a Jules session become comments of the issue:     *)
(* activity-mirror.ts and its callers in a heartbeat of execute.ts.  A run *)
(* reads a bounded part of the history, comments what it has not commented *)
(* yet, and moves a cursor and a ring of delivered identities.             *)
(*                                                                         *)
(* An activity is named by its place in time.  Jules may show it later     *)
(* than a younger one, and may list its pages in either order.             *)
(***************************************************************************)
EXTENDS Naturals, FiniteSets, Sequences, FiniteSetsExt, SequencesExt

CONSTANTS
  MaxActivities, \* bound on the activities of the session
  Overlap,       \* how far behind the cursor an activity is still considered
  RingSize,      \* the number of delivered identities that are kept
  MaxPages,      \* the number of pages a run reads, of one activity each
  MaxFaults,     \* bound on the kinds of failures in one behaviour
  Faults         \* the kinds of failures that may happen, each at most once

FaultKinds == {"crash", "unread", "lost", "response", "comments"}

ASSUME BoundsAssumption ==
  /\ MaxActivities \in Nat /\ Overlap \in Nat /\ RingSize \in Nat
  /\ MaxPages \in Nat \ {0} /\ MaxFaults \in Nat /\ Faults \subseteq FaultKinds

VARIABLES
  order,      \* the order of the provider's pages
  kind,       \* the activities so far, by time
  visible,    \* those the provider shows
  terminal,   \* whether the provider's session has ended
  commented,  \* those whose comment is on the issue
  env, disk, mem, \* the session: replayed envelope, recovery record, this run's copy
  pc,
  batch,      \* the activities this run has still to deliver
  done,       \* those it has delivered, in their order
  shown,      \* those a run set out to deliver and every poll since has read
  faults

world == <<order, kind, visible, terminal, commented>>
vars == <<world, env, disk, mem, pc, batch, done, shown, faults>>

-----------------------------------------------------------------------------
Activities == 1 .. MaxActivities
None == 0
Kinds == {"message", "ours", "completed"}
Commented == {"message"}            \* the other kinds are passed over silently

Scans == [state : {"none", "partial", "complete"}, token : Activities \cup {None},
          completion : Activities \cup {None}, message : Activities \cup {None}, question : Activities \cup {None}]
NoScan == [state |-> "none", token |-> None, completion |-> None, message |-> None, question |-> None]
Records == [cursor : Activities \cup {None}, ring : BoundedSeq(Activities, RingSize), mirrored : BOOLEAN,
            scan : Scans]
NewRecord == [cursor |-> None, ring |-> <<>>, mirrored |-> FALSE, scan |-> NoScan]

Init ==
  /\ order \in {"newest", "oldest"}
  /\ kind = <<>> /\ visible = {} /\ terminal = FALSE
  /\ commented = {}
  /\ env = NewRecord /\ disk = NewRecord /\ mem = NewRecord
  /\ pc = "idle" /\ batch = {} /\ done = <<>> /\ shown = {} /\ faults = {}

Fault(k) ==
  /\ k \in Faults \ faults /\ Cardinality(faults) < MaxFaults
  /\ faults' = faults \cup {k}
NoFault == UNCHANGED faults
Rest == pc' = "idle" /\ mem' = NewRecord /\ batch' = {} /\ done' = <<>>

-----------------------------------------------------------------------------
(* The envelope keeps its own cursor; the ring and the scan are filled in  *)
(* from the recovery record.  A wake about a published plan, and a message *)
(* to a session that ended, start the scan afresh.                         *)
Merge(r, stored) ==
  [r EXCEPT !.ring = IF r.mirrored THEN @ ELSE stored.ring,
            !.mirrored = @ \/ stored.mirrored,
            !.scan = IF @.state # "none" THEN @ ELSE stored.scan]

Session == LET r == Merge(env, disk) IN {r, [r EXCEPT !.scan = NoScan]}

(* isAfterCheckpoint and selectUndeliveredActivities.                      *)
AfterCheckpoint(a, r) == r.cursor = None \/ a + Overlap >= r.cursor
Selectable(r) == {a \in Activities : a \notin ToSet(r.ring) /\ AfterCheckpoint(a, r)}

(* The order of the pages, of one activity each: the first n of a set, and *)
(* the last one, if there is any.                                          *)
Precedes(a, b) == IF order = "oldest" THEN a < b ELSE a > b
Pages(S, n) == {a \in S : Cardinality({b \in S : Precedes(b, a)}) < n}
LastOf(S, otherwise) == IF S = {} THEN otherwise ELSE IF order = "oldest" THEN Max(S) ELSE Min(S)

Deliver(S) ==
  /\ batch' = S \cap Selectable(mem')
  /\ shown' = (shown \cap S) \cup batch'
  /\ pc' = "mirror"

(* listAllActivities: a session at work is read from the first page.       *)
PollLive ==
  /\ pc = "idle" /\ ~terminal
  /\ mem' = [Merge(env, disk) EXCEPT !.scan = NoScan]
  /\ Deliver(Pages(visible, MaxPages))
  /\ UNCHANGED <<world, env, disk, done>> /\ NoFault

(* reduceTerminalActivityScan: a scan goes on where the last one ended.    *)
Unread(token) == IF token = None THEN visible ELSE {a \in visible : Precedes(token, a)}
Scanned(scan, pages) ==
  LET completed == {a \in pages : kind[a] = "completed"}
      messages == {a \in pages : kind[a] = "message"}
      token == LastOf(pages, scan.token)
      completion == LastOf(completed, scan.completion)
  IN [state |-> IF Unread(token) = {} THEN "complete" ELSE "partial", token |-> token,
      completion |-> completion, message |-> LastOf(messages, scan.message),
      question |-> IF completed # {} THEN LastOf({a \in messages : Precedes(completion, a)}, None)
                   ELSE IF completion # None THEN LastOf(messages, scan.question) ELSE scan.question]
Witnesses(scan) == {scan.completion, scan.message} \ {None}

PollTerminal ==
  /\ pc = "idle" /\ terminal
  /\ \E r \in Session :
       LET pages == IF r.scan.state = "complete" THEN {} ELSE Pages(Unread(r.scan.token), MaxPages)
           scan == IF r.scan.state = "complete" THEN r.scan ELSE Scanned(r.scan, pages)
       IN /\ mem' = [r EXCEPT !.scan = scan]
          /\ Deliver(pages \cup Witnesses(scan))
  /\ UNCHANGED <<world, env, disk, done>> /\ NoFault

(* The rest of the heartbeat goes on without the activities.               *)
PollFails ==
  /\ pc = "idle" /\ Fault("unread")
  /\ mem' \in IF terminal THEN Session ELSE {[Merge(env, disk) EXCEPT !.scan = NoScan]}
  /\ pc' = "return"
  /\ UNCHANGED <<world, env, disk, batch, done, shown>>

-----------------------------------------------------------------------------
(* mirrorActivities, one activity after the other, the oldest first.  A    *)
(* comment that fails ends the loop.                                       *)
Next1 == Min(batch)
Passed == batch' = batch \ {Next1} /\ done' = Append(done, Next1)

(* Mutant: the loop goes on after a comment that failed.                   *)
BreakSkips == batch' = batch \ {Next1} /\ UNCHANGED done
Break == batch' = {} /\ UNCHANGED done

(* Mutant: an activity without a comment ends the loop.                    *)
PassSilentlyBreaks ==
  /\ pc = "mirror" /\ batch # {} /\ kind[Next1] \notin Commented
  /\ Break
  /\ UNCHANGED <<world, env, disk, mem, pc, shown>> /\ NoFault
PassSilently ==
  /\ pc = "mirror" /\ batch # {} /\ kind[Next1] \notin Commented
  /\ Passed
  /\ UNCHANGED <<world, env, disk, mem, pc, shown>> /\ NoFault

(* addJulesActivityComment lists the comments of the issue and looks for   *)
(* the activity's marker; a list that cannot be read counts as empty.      *)
FindComment ==
  /\ pc = "mirror" /\ batch # {} /\ kind[Next1] \in Commented /\ Next1 \in commented
  /\ Passed
  /\ UNCHANGED <<world, env, disk, mem, pc, shown>> /\ NoFault

MissComment ==
  /\ pc = "mirror" /\ batch # {} /\ kind[Next1] \in Commented
  /\ Next1 \in commented => Fault("comments")
  /\ Next1 \notin commented => NoFault
  /\ pc' = "post"
  /\ UNCHANGED <<world, env, disk, mem, batch, done, shown>>

Posted == commented' = commented \cup {Next1}
PostComment ==
  /\ pc = "post"
  /\ Posted /\ Passed /\ pc' = "mirror"
  /\ UNCHANGED <<order, kind, visible, terminal, env, disk, mem, shown>> /\ NoFault

CommentFails ==
  /\ pc = "post"
  /\ \/ Fault("lost") /\ UNCHANGED commented
     \/ Fault("response") /\ Posted
  /\ Break /\ pc' = "mirror"
  /\ UNCHANGED <<order, kind, visible, terminal, env, disk, mem, shown>>

(* advanceActivityCursor, and the ring of the last identities.             *)
Advanced(r) ==
  LET ids == r.ring \o done IN
  [r EXCEPT !.cursor = Max({@} \cup ToSet(done)), !.mirrored = TRUE,
            !.ring = SubSeq(ids, IF Len(ids) > RingSize THEN Len(ids) - RingSize + 1 ELSE 1, Len(ids))]
Advance ==
  /\ pc = "mirror" /\ batch = {}
  /\ mem' = Advanced(mem)
  /\ disk' = IF terminal THEN mem' ELSE disk
  /\ pc' = "return" /\ done' = <<>>
  /\ UNCHANGED <<world, env, batch, shown>> /\ NoFault

Return ==
  /\ pc = "return"
  /\ env' = mem /\ disk' = mem /\ Rest
  /\ UNCHANGED <<world, shown>> /\ NoFault

Crash ==
  /\ pc # "idle" /\ Fault("crash") /\ Rest
  /\ UNCHANGED <<world, env, disk, shown>>

Run == PollLive \/ PollTerminal \/ PollFails \/ PassSilently \/ FindComment \/ MissComment
       \/ PostComment \/ CommentFails \/ Advance \/ Return

-----------------------------------------------------------------------------
(* The provider: an activity happens, and is shown then or later.          *)
Local == <<commented, env, disk, mem, pc, batch, done, shown, faults>>
Happen ==
  /\ Len(kind) < MaxActivities
  /\ \E k \in Kinds :
       /\ k = "completed" => ~terminal
       /\ kind' = Append(kind, k) /\ terminal' = (IF k = "completed" THEN TRUE ELSE terminal)
  /\ visible' \in {visible, visible \cup {Len(kind')}}
  /\ UNCHANGED <<order, Local>>
Show ==
  /\ \E a \in 1 .. Len(kind) : a \notin visible /\ visible' = visible \cup {a}
  /\ UNCHANGED <<order, kind, terminal, Local>>
Resume ==
  /\ terminal /\ terminal' = FALSE
  /\ UNCHANGED <<order, kind, visible, Local>>

Next == Run \/ Crash \/ Happen \/ Show \/ Resume
Spec == Init /\ [][Next]_vars

(* Paperclip goes on waking the issue, and a run goes on with its list.    *)
FairSpec == Spec /\ WF_vars(Run)

-----------------------------------------------------------------------------
TypeOK ==
  /\ order \in {"newest", "oldest"} /\ kind \in BoundedSeq(Kinds, MaxActivities)
  /\ visible \subseteq 1 .. Len(kind) /\ terminal \in BOOLEAN
  /\ commented \subseteq Activities
  /\ env \in Records /\ disk \in Records /\ mem \in Records
  /\ pc \in {"idle", "mirror", "post", "return"}
  /\ batch \subseteq visible /\ shown \subseteq visible /\ ToSet(done) \subseteq visible /\ faults \subseteq Faults

Due(a) == a \in shown /\ kind[a] \in Commented /\ a \notin commented

(* An activity that a run set out to comment, and every poll since has     *)
(* read, is not passed by: until its comment is on the issue the next run  *)
(* selects it again, whatever fails, and however the cursor, the ring, the *)
(* record and a replayed envelope interplay.                               *)
NothingSkipped == \A a \in Activities : Due(a) => a \in Selectable(Merge(env, disk))

(* It is commented in the end, unless a poll no longer reads it: no other  *)
(* activity, commented or not, holds it back for good.                     *)
MirroredInTheEnd == \A a \in Activities : []<>~Due(a)
=============================================================================
