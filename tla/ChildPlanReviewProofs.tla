----------------------- MODULE ChildPlanReviewProofs -----------------------
(***************************************************************************)
(* Proofs about ChildPlanReview: a reviewed revision leads to one write to *)
(* Jules, a decided review is not taken up again, and every step climbs    *)
(* the ladder of PlanGate, for any number of plans, revisions and faults.  *)
(*                                                                         *)
(* The argument has three parts.  The board, the document and Jules only   *)
(* move forward (Monotone), so what a session's record says of them stays  *)
(* true while nothing writes the record.  The three copies of the session  *)
(* never hold a review that one of the later copies has decided (Distinct),*)
(* which the merge at the start of a run keeps.  And what was sent to      *)
(* Jules is on record before it is sent: an approval in the journal, a     *)
(* request in the record until Jules has a newer plan.                     *)
(***************************************************************************)
EXTENDS ChildPlanReview, TLAPS

-----------------------------------------------------------------------------
(* The inductive invariant: the board, the document and Jules.             *)

Untouched == \A c \in Cards : children[c].status = "absent" => children[c] = NoIssue
Posting == \A c \in Cards : children[c].run = "post" => children[c].card = "none"
Climbed ==
  \A r \in Revs : children[<<r, "terra">>] # NoIssue => children[<<r, "luna">>].card = "approve"
Unread == \A r \in Revs : r > lastRev => planOf[r] = NoPlan

Board == Untouched /\ Posting /\ Climbed /\ Unread

Output ==
  /\ jules.state \in {"PLANNING", "AWAITING_PLAN_APPROVAL"} => jules.out = "none"
  /\ jules.plan = NoPlan => jules.state \in {"PLANNING", "FAILED"}
  /\ snap.out # "none" => jules.out # "none"
  /\ hold = "unverified" => jules.out # "none"
  /\ snap.plan <= jules.plan

(* The three copies of the session.                                        *)

Planned(c) == c # NoChild => c[1] <= lastRev /\ PlanOf(c) # NoPlan

Sound(s) ==
  /\ Planned(s.child) /\ Planned(s.request.card)
  /\ s.child[2] = "terra" => children[<<s.child[1], "luna">>].card = "approve"
  /\ s.request # NoRequest => children[s.request.card].card = "reject"

Distinct(a, b) ==
  a.child # NoChild => PlanOf(a.child) \notin {b.approved, PlanOf(b.request.card)}

Records ==
  /\ Sound(env) /\ Sound(disk) /\ Sound(mem)
  /\ Distinct(env, env) /\ Distinct(disk, env) /\ Distinct(mem, env)
  /\ Distinct(disk, disk) /\ Distinct(disk, mem) /\ Distinct(mem, disk) /\ Distinct(mem, mem)

Follows(s) ==
  /\ \A r \in Revs : disk.journal[r] # "absent" => s.journal[r] # "absent"
  /\ s.approved = NoPlan => env.approved = NoPlan

Idle == pc = "idle" => mem = NewSession /\ snap = NoSnapshot /\ target = NoTarget

(* What was sent to Jules.                                                 *)

ByHand ==
  /\ adoption.state # "none" => adoption.rev \in Revs
  /\ adoption.state \in {"receipt", "intent"} => pc = "idle" /\ hold \in {"conflict", "failed"}
  /\ adoption.state \in {"saved", "confirmed"} => disk.journal[adoption.rev] # "absent"

Journaled ==
  \A r \in Revs : approvals[r] > 0 =>
    /\ \A stage \in Stages : children[<<r, stage>>].card = "approve"
    /\ disk.journal[r] # "absent" \/ (adoption.rev = r /\ adoption.state \in {"receipt", "intent"})

Sent ==
  \A c \in Cards : requests[c] > 0 =>
    /\ children[c].card = "reject" /\ c[1] <= lastRev
    /\ planOf[c[1]] \in Plans /\ planOf[c[1]] <= jules.plan
    /\ snap.plan # NoPlan => planOf[c[1]] <= snap.plan

Open(c) == requests[c] > 0 /\ ~Another(c[1])

Remembered(s) == \A c \in Cards : Open(c) /\ s.request.card # c => planOf[c[1]] # jules.plan
Replied(s) ==
  \A c \in Cards : Open(c) /\ s.request.card # c => planOf[c[1]] \notin {jules.plan, snap.plan}

(* What a run knows at each of its steps.                                  *)

Reviewing ==
  {"history", "observe", "create", "waiting", "answered", "rescan", "repoll", "verdict",
   "approve", "confirm", "record_approved"}
Judging == Reviewing \ {"history"}
OpeningSteps == {"plan", "save_document", "open_luna"}

Reading(p, m, d) ==
  /\ p \in {"poll", "scan", "request"} => m.request = Or(env.request, d.request, NoRequest)
  /\ p \in Reviewing => m.child # NoChild /\ m.request = NoRequest
  /\ p \in Judging => \A c \in Cards : Open(c) => m.child[1] # c[1]

Planning(p, m) ==
  /\ p \in OpeningSteps =>
       /\ m.child = NoChild /\ m.request = NoRequest
       /\ env.request # NoRequest => snap.plan \notin {NoPlan, PlanOf(env.request.card)}
  /\ p \in {"save_document", "open_luna"} =>
       m.approved = NoPlan /\ target.plan = IF snap.plan = NoPlan THEN Placeholder ELSE snap.plan
  /\ p = "open_luna" => target.rev \in 1..lastRev /\ planOf[target.rev] = target.plan

Approving(p, m, d) ==
  /\ p \in {"approve", "confirm", "record_approved"} =>
       m.child[2] = "terra" /\ children[m.child].card = "approve"
  /\ p \in {"approve", "confirm"} => d = m /\ m.journal[m.child[1]] # "absent"
  /\ p = "approve" => approvals[m.child[1]] = 0

Sending(p, m, d) ==
  /\ p \in {"send", "record_request"} =>
       d = m /\ m.child = NoChild /\ m.request # NoRequest /\ snap.plan = PlanOf(m.request.card)
  /\ p = "send" => Asked(m.request.card[1]) = 0 \/ Another(m.request.card[1])

Place(p, m, d) == Reading(p, m, d) /\ Planning(p, m) /\ Approving(p, m, d) /\ Sending(p, m, d)

IInv ==
  /\ TypeOK /\ Board /\ Output /\ Records /\ Idle
  /\ ByHand /\ Journaled /\ Sent /\ Remembered(disk)
  /\ pc # "idle" => Follows(mem) /\ Replied(mem)
  /\ Place(pc, mem, disk)

-----------------------------------------------------------------------------
(* Cards, sessions and the merge.                                          *)

(* A card is a revision and a stage, and the unset one is none.            *)
LEMMA CardFacts ==
  /\ \A c \in Cards : c[1] \in Revs /\ c[2] \in Stages /\ c = <<c[1], c[2]>>
  /\ \A r \in Revs, stage \in Stages : <<r, stage>> \in Cards
  /\ NoChild \notin Cards /\ NoChild[2] = "none"
BY DEF Cards, Revs, Stages, NoChild

(* A session without a request names no card in it.                        *)
LEMMA SessionFacts ==
  \A s \in Sessions :
    /\ s.child \in Cards \cup {NoChild} /\ s.known \in BOOLEAN
    /\ s.approved \in PlanIds \cup {NoPlan} /\ s.superseded \in PlanIds \cup {NoPlan}
    /\ s.journal \in [Revs -> Attempts] /\ s.outcome \in {"none", "revision_requested", "approved"}
    /\ s.request = NoRequest => s.request.card = NoChild
    /\ s.request # NoRequest =>
         s.request \in [card : Cards, state : {"prepared", "delivered"}] /\ s.request.card \in Cards
BY DEF Sessions, NoRequest

(* A new session is a session that knows of nothing.                       *)
LEMMA NewSessionFacts ==
  /\ NewSession \in Sessions
  /\ NewSession.child = NoChild /\ NewSession.request = NoRequest /\ NewSession.approved = NoPlan
  /\ NewSession.request.card = NoChild
  /\ \A r \in Revs : NewSession.journal[r] = "absent"
BY DEF NewSession, Sessions, NoRequest, Attempts

(* The plan of a card that is set is the plan of its revision.             *)
LEMMA PlanFacts ==
  /\ PlanOf(NoChild) = NoPlan
  /\ \A c \in Cards : PlanOf(c) = planOf[c[1]]
BY CardFacts DEF PlanOf

(* What the merge takes from the two records.                              *)
LEMMA MergeFacts ==
  ASSUME NEW a \in Sessions, NEW b \in Sessions
  PROVE  LET m == MergeCheckpoints(a, b)
         IN  /\ m \in Sessions
             /\ m.child \in {NoChild, a.child, b.child}
             /\ m.child = b.child \/ m.child = NoChild \/ (m.child = a.child /\ ~DecisionConsumed(a, b))
             /\ m.request = Or(a.request, b.request, NoRequest)
             /\ m.approved \in {a.approved, b.approved}
             /\ m.approved = NoPlan => a.approved = NoPlan
             /\ \A r \in Revs : b.journal[r] # "absent" => m.journal[r] # "absent"
<1> DEFINE from == ChildSource(a, b)
           source == ApprovedSource(a, b)
<1>1. from \in {a, b} BY DEF ChildSource
<1>2. source \in {a, b} BY DEF ApprovedSource
<1>3. HasConfirmedApproval(source) => source.approved # NoPlan BY DEF HasConfirmedApproval
<1> DEFINE req == Or(a.request, b.request, NoRequest)
           sup == Or(a.superseded, b.superseded, NoPlan)
           out == IF HasConfirmedApproval(source) THEN source.outcome ELSE Or(a.outcome, b.outcome, "none")
           app == IF HasConfirmedApproval(source) THEN source.approved ELSE Or(a.approved, b.approved, NoPlan)
           jou == [r \in Revs |-> MergeAttempt(a.journal[r], b.journal[r])]
           chi == IF DecisionConsumed(a, b) THEN NoChild ELSE from.child
           kno == ~DecisionConsumed(a, b) /\ from.known
<1>4. req \in {a.request, b.request} BY DEF Or
<1>5. sup \in {a.superseded, b.superseded} BY DEF Or
<1>6. out \in {a.outcome, b.outcome} BY <1>2 DEF Or
<1>7. app \in {a.approved, b.approved} /\ (app = NoPlan => a.approved = NoPlan) BY <1>2, <1>3 DEF Or
<1>8. jou \in [Revs -> Attempts] /\ \A r \in Revs : b.journal[r] # "absent" => jou[r] # "absent"
  BY SessionFacts DEF MergeAttempt, Attempts
<1>9. /\ chi \in {NoChild, a.child, b.child} /\ kno \in BOOLEAN
      /\ chi = b.child \/ chi = NoChild \/ (chi = a.child /\ ~DecisionConsumed(a, b))
  BY <1>1, SessionFacts
<1>10. MergeCheckpoints(a, b) =
        [child |-> chi, known |-> kno, request |-> req, superseded |-> sup, outcome |-> out,
         approved |-> app, journal |-> jou]
  BY DEF MergeCheckpoints
<1> HIDE DEF from, source, req, sup, out, app, jou, chi, kno
<1>11. [child |-> chi, known |-> kno, request |-> req, superseded |-> sup, outcome |-> out,
        approved |-> app, journal |-> jou] \in Sessions
  BY <1>4, <1>5, <1>6, <1>7, <1>8, <1>9 DEF Sessions
<1> QED BY <1>4, <1>7, <1>8, <1>9, <1>10, <1>11 DEF req

-----------------------------------------------------------------------------
(* The world moves forward: what a step may do to the board, to the plan   *)
(* document and to Jules.                                                  *)

Answers == {"approve", "reject", "override"}

Monotone ==
  /\ lastRev' >= lastRev /\ \A r \in Revs : r <= lastRev => planOf'[r] = planOf[r]
  /\ \A c \in Cards : children[c].card \in Answers => children'[c].card = children[c].card
  /\ jules'.plan >= jules.plan

(* A record that nothing writes stays true of a world that moves forward.  *)
LEMMA RecordsStay ==
  ASSUME TypeOK, TypeOK', Records, Monotone, UNCHANGED session
  PROVE  Records'
<1>1. /\ disk' = disk /\ env' = env /\ mem' = mem
      /\ disk \in Sessions /\ env \in Sessions /\ mem \in Sessions
      /\ lastRev \in Nat /\ lastRev' \in Nat
  BY DEF session, TypeOK, Revs
<1>2. \A c \in Cards \cup {NoChild} : Planned(c) => PlanOf(c)' = PlanOf(c) /\ Planned(c)'
  <2> SUFFICES ASSUME NEW c \in Cards, Planned(c) PROVE PlanOf(c)' = PlanOf(c) /\ Planned(c)'
    BY CardFacts DEF PlanOf, Planned
  <2> QED BY <1>1, CardFacts DEF Planned, PlanOf, Monotone, Revs
<1>3. \A s \in Sessions : Sound(s) => Sound(s)'
  <2> SUFFICES ASSUME NEW s \in Sessions, Sound(s) PROVE Sound(s)'
    OBVIOUS
  <2>1. s.child \in Cards \cup {NoChild} /\ s.request.card \in Cards \cup {NoChild}
    BY SessionFacts
  <2>2. Planned(s.child)' /\ Planned(s.request.card)'
    BY <1>2, <2>1 DEF Sound
  <2>3. s.child[2] = "terra" => children'[<<s.child[1], "luna">>].card = "approve"
    BY <2>1, CardFacts DEF Sound, Monotone, Answers, Stages
  <2>4. s.request # NoRequest => children'[s.request.card].card = "reject"
    BY SessionFacts DEF Sound, Monotone, Answers
  <2> QED BY <2>2, <2>3, <2>4 DEF Sound
<1>4. \A a, b \in Sessions : Sound(a) /\ Sound(b) /\ Distinct(a, b) => Distinct(a, b)'
  <2> SUFFICES ASSUME NEW a \in Sessions, NEW b \in Sessions, Sound(a), Sound(b), Distinct(a, b)
               PROVE Distinct(a, b)'
    OBVIOUS
  <2>1. /\ a.child \in Cards \cup {NoChild} /\ b.request.card \in Cards \cup {NoChild}
        /\ Planned(a.child) /\ Planned(b.request.card)
    BY SessionFacts DEF Sound
  <2>2. PlanOf(a.child)' = PlanOf(a.child) /\ PlanOf(b.request.card)' = PlanOf(b.request.card)
    BY <1>2, <2>1
  <2> QED BY <2>2 DEF Distinct
<1>5. Sound(env)' /\ Sound(disk)' /\ Sound(mem)'
  BY <1>1, <1>3 DEF Records, Sound, Planned, PlanOf
<1>6. /\ Distinct(env, env)' /\ Distinct(disk, env)' /\ Distinct(mem, env)'
      /\ Distinct(disk, disk)' /\ Distinct(disk, mem)' /\ Distinct(mem, disk)' /\ Distinct(mem, mem)'
  BY <1>1, <1>4 DEF Records, Distinct, PlanOf
<1> QED BY <1>5, <1>6 DEF Records
(* A rejected card is never of a revision whose both cards are approved,   *)
(* and a revision has one rejected card.                                   *)
LEMMA OneRejected ==
  ASSUME Board, NEW c \in Cards, NEW d \in Cards,
         children[c].card = "reject", children[d].card = "reject", c # d
  PROVE  Another(c[1])
<1>1. c[1] # d[1]
  <2> SUFFICES ASSUME c[1] = d[1] PROVE FALSE OBVIOUS
  <2>1. \E r \in Revs : {c, d} = {<<r, "luna">>, <<r, "terra">>}
    BY CardFacts DEF Stages
  <2>2. PICK r \in Revs : {c, d} = {<<r, "luna">>, <<r, "terra">>} BY <2>1
  <2>3. children[<<r, "terra">>] # NoIssue BY <2>2 DEF NoIssue
  <2> QED BY <2>2, <2>3 DEF Board, Climbed
<1> QED BY <1>1 DEF Another

(* A card that was rejected stays rejected, so a request stays beside one  *)
(* of another revision.                                                    *)
LEMMA AnotherStays ==
  ASSUME Monotone
  PROVE  \A r : Another(r) => Another(r)'
BY DEF Another, Monotone, Answers

(* A request that was sent stays on record.                                *)
LEMMA SentStays ==
  ASSUME TypeOK, TypeOK', Monotone, UNCHANGED requests, Sent,
         snap'.plan \in {snap.plan, jules.plan, jules'.plan, NoPlan}
  PROVE  Sent'
<1> SUFFICES ASSUME NEW c \in Cards, requests[c] > 0
             PROVE /\ children'[c].card = "reject" /\ c[1] <= lastRev'
                   /\ planOf'[c[1]] \in Plans /\ planOf'[c[1]] <= jules'.plan
                   /\ snap'.plan # NoPlan => planOf'[c[1]] <= snap'.plan
  BY DEF Sent
<1>1. /\ children[c].card = "reject" /\ c[1] <= lastRev
      /\ planOf[c[1]] \in Plans /\ planOf[c[1]] <= jules.plan
      /\ snap.plan # NoPlan => planOf[c[1]] <= snap.plan
  BY DEF Sent
<1>2. lastRev \in Nat /\ lastRev' \in Nat /\ jules.plan \in Nat /\ jules'.plan \in Nat /\ snap'.plan \in Nat
  BY DEF TypeOK, Revs, Plans, NoPlan
<1>3. planOf'[c[1]] = planOf[c[1]] /\ c[1] \in Nat
  BY <1>1, CardFacts DEF Monotone, Revs
<1>4. planOf[c[1]] \in Nat BY <1>1 DEF Plans
<1> QED BY <1>1, <1>2, <1>3, <1>4 DEF Monotone, Answers

(* A request is remembered while Jules has no newer plan.                  *)
LEMMA RequestsStay ==
  ASSUME TypeOK, TypeOK', Monotone, UNCHANGED <<requests, session>>, Sent,
         snap'.plan \in {snap.plan, jules.plan, jules'.plan}
  PROVE  /\ Remembered(disk) => Remembered(disk)'
         /\ Replied(mem) => Replied(mem)'
<1>1. \A c \in Cards : Open(c)' => Open(c)
  BY AnotherStays DEF Open
<1>2. \A c \in Cards : Open(c) =>
        /\ planOf'[c[1]] = planOf[c[1]] /\ planOf[c[1]] <= jules.plan
        /\ planOf[c[1]] \in Nat
  BY CardFacts DEF Open, Sent, Monotone, Plans
<1>3. jules.plan \in Nat /\ jules'.plan \in Nat /\ jules.plan <= jules'.plan
  BY DEF TypeOK, Plans, NoPlan, Monotone
<1>4. disk' = disk /\ mem' = mem BY DEF session
<1>5. ASSUME Remembered(disk) PROVE Remembered(disk)'
  BY <1>1, <1>2, <1>3, <1>4, <1>5 DEF Remembered
<1>6. ASSUME Replied(mem) PROVE Replied(mem)'
  BY <1>1, <1>2, <1>3, <1>4, <1>6 DEF Replied
<1> QED BY <1>5, <1>6

(* An approval that reached Jules stays on record.                         *)
LEMMA JournalStays ==
  ASSUME Monotone, UNCHANGED <<approvals, adoption>>, Journaled,
         \A r \in Revs : disk.journal[r] # "absent" => disk'.journal[r] # "absent"
  PROVE  Journaled'
BY CardFacts DEF Journaled, Monotone, Answers

(* What a run knows at a step stays true of a world that moves forward.    *)
LEMMA PlaceStays ==
  ASSUME TypeOK, TypeOK', Records, Monotone, UNCHANGED <<session, snap, target, requests, approvals>>,
         NEW p \in Steps, Place(p, mem, disk)
  PROVE  Place(p, mem, disk)'
<1>1. /\ mem' = mem /\ disk' = disk /\ env' = env
      /\ mem \in Sessions /\ env \in Sessions
      /\ lastRev \in Nat /\ lastRev' \in Nat
  BY DEF session, TypeOK, Revs
<1>2. \A c \in Cards \cup {NoChild} : Planned(c) => PlanOf(c)' = PlanOf(c)
  BY <1>1, CardFacts DEF Planned, PlanOf, Monotone, Revs
<1>3. Planned(mem.request.card) /\ Planned(env.request.card)
      /\ mem.request.card \in Cards \cup {NoChild} /\ env.request.card \in Cards \cup {NoChild}
  BY <1>1, SessionFacts DEF Records, Sound
<1>4. PlanOf(mem.request.card)' = PlanOf(mem.request.card) /\ PlanOf(env.request.card)' = PlanOf(env.request.card)
  BY <1>1, <1>2, <1>3 DEF PlanOf
<1>5. Reading(p, mem, disk)'
  BY <1>1, AnotherStays DEF Place, Reading, Open
<1>6. Planning(p, mem)'
  <2>1. p = "open_luna" => target'.rev \in 1..lastRev' /\ planOf'[target'.rev] = target'.plan
    <3> SUFFICES ASSUME p = "open_luna" PROVE target.rev \in 1..lastRev' /\ planOf'[target.rev] = target.plan
      OBVIOUS
    <3>1. target.rev \in 1..lastRev /\ planOf[target.rev] = target.plan /\ lastRev <= MaxRevs
      BY ChildReviewAssumption DEF Place, Planning, TypeOK, Revs
    <3>2. target.rev \in Revs /\ target.rev <= lastRev
      BY <1>1, <3>1, ChildReviewAssumption DEF Revs
    <3> QED BY <1>1, <3>1, <3>2 DEF Monotone, Revs
  <2> QED BY <1>1, <1>4, <2>1 DEF Place, Planning
<1>7. Approving(p, mem, disk)'
  <2>1. p \in {"approve", "confirm", "record_approved"} =>
          mem.child[2] = "terra" /\ children'[mem.child].card = "approve"
    BY <1>1, SessionFacts, CardFacts DEF Place, Approving, Monotone, Answers
  <2> QED BY <1>1, <2>1 DEF Place, Approving
<1>8. Sending(p, mem, disk)'
  BY <1>1, <1>4, AnotherStays DEF Place, Sending, Asked
<1> QED BY <1>5, <1>6, <1>7, <1>8 DEF Place

-----------------------------------------------------------------------------
(* The kinds of step.                                                      *)

(* A step of the board, of a person, of Jules or of what ends a hold,      *)
(* which leaves the parent's run where it is.                              *)
LEMMA QuietStep ==
  ASSUME IInv, TypeOK', Monotone, Board', Output',
         UNCHANGED <<session, run, approvals, requests, adoption>>,
         hold' = hold \/ adoption.state \notin {"receipt", "intent"}
  PROVE  IInv'
<1>1. UNCHANGED <<disk, env, mem, pc, snap, target>> BY DEF session, run
<1>2. Records' BY RecordsStay DEF IInv
<1>3. Idle' BY <1>1 DEF IInv, Idle
<1>4. ByHand' BY <1>1 DEF IInv, ByHand
<1>5. Journaled' BY <1>1, JournalStays DEF IInv
<1>6. Sent' BY <1>1, SentStays DEF IInv
<1>7. Remembered(disk)' /\ (pc' # "idle" => Replied(mem)')
  BY <1>1, RequestsStay DEF IInv
<1>8. pc' # "idle" => Follows(mem)' BY <1>1 DEF IInv, Follows
<1>9. Place(pc, mem, disk)'
  <2>1. pc \in Steps BY DEF IInv, TypeOK
  <2>2. \A p \in Steps : Place(p, mem, disk) => Place(p, mem, disk)' BY <1>1, PlaceStays DEF IInv
  <2> QED BY <1>1, <2>1, <2>2 DEF IInv, Place, Reading, Planning, Approving, Sending
<1> QED BY <1>2, <1>3, <1>4, <1>5, <1>6, <1>7, <1>8, <1>9 DEF IInv

(* A step of the run that leaves the session as it is.                     *)
LEMMA MoveStep ==
  ASSUME IInv, TypeOK', pc # "idle", pc' # "idle", Monotone, Board', Output',
         UNCHANGED <<session, hold, adoption>>,
         Journaled', Sent', Remembered(disk)', Replied(mem)', Place(pc, mem, disk)'
  PROVE  IInv'
<1>1. UNCHANGED <<disk, env, mem>> BY DEF session
<1>2. Records' BY RecordsStay DEF IInv
<1>3. Idle' BY DEF Idle
<1>4. ByHand' BY <1>1 DEF IInv, ByHand
<1>5. Follows(mem)' BY <1>1 DEF IInv, Follows
<1> QED BY <1>2, <1>3, <1>4, <1>5 DEF IInv

(* A step of the run that leaves its records and Jules as they are.        *)
LEMMA WalkStep ==
  ASSUME IInv, TypeOK', pc # "idle", NEW step \in Steps \ {"idle"}, pc' = step, Monotone, Board',
         UNCHANGED <<session, snap, target, hold, provider, adoption>>,
         Place(step, mem, disk)
  PROVE  IInv'
<1>1. UNCHANGED <<disk, env, mem, jules, approvals, requests>>
  BY DEF session, provider
<1>2. Output' BY <1>1 DEF IInv, Output
<1>3. Journaled' BY <1>1, JournalStays DEF IInv
<1>4. Sent' BY <1>1, SentStays DEF IInv
<1>5. Remembered(disk)' /\ Replied(mem)' BY <1>1, RequestsStay DEF IInv
<1>6. Place(step, mem, disk)' BY <1>1, PlaceStays DEF IInv
<1>7. Place(pc, mem, disk)'
  BY <1>1, <1>6 DEF Place, Reading, Planning, Approving, Sending
<1> QED BY <1>1, <1>2, <1>3, <1>4, <1>5, <1>7, MoveStep

(* A world that stands still moves forward.                                *)
LEMMA StandsStill ==
  ASSUME TypeOK, Board, UNCHANGED <<board, jules>>
  PROVE  Monotone /\ Board'
<1>1. UNCHANGED <<children, planOf, lastRev>> BY DEF board
<1>2. Monotone BY <1>1 DEF Monotone, TypeOK, Revs, Plans, NoPlan
<1>3. Board' BY <1>1 DEF Board, Untouched, Posting, Climbed, Unread
<1> QED BY <1>2, <1>3
(* A record is saved: what the new record must keep.                       *)
LEMMA SaveStep ==
  ASSUME IInv, pc # "idle", NEW s \in Sessions, NEW step \in Steps \ {"idle"},
         mem' = s, disk' = s, pc' = step,
         UNCHANGED <<env, snap, hold, provider, board, adoption>>,
         TypeOK',
         Sound(s), Distinct(s, s), Distinct(s, env), Follows(s), Replied(s),
         Place(step, s, s)'
  PROVE  IInv'
<1>1. UNCHANGED <<jules, approvals, requests, children, planOf, lastRev>>
  BY DEF provider, board
<1>2. Board' BY <1>1 DEF IInv, Board, Untouched, Posting, Climbed, Unread
<1>3. Output' BY <1>1 DEF IInv, Output
<1>4. Monotone BY <1>1 DEF Monotone, IInv, TypeOK, Revs, Plans, NoPlan
<1>5. Records'
  <2>1. Sound(s)' /\ Sound(env)' BY <1>1 DEF Sound, Planned, PlanOf, IInv, Records
  <2>2. Distinct(s, s)' /\ Distinct(s, env)' /\ Distinct(env, env)'
    BY <1>1 DEF Distinct, PlanOf, IInv, Records
  <2> QED BY <2>1, <2>2 DEF Records, Sound, Distinct, Planned, PlanOf
<1>6. Idle' BY DEF Idle
<1>7. \A r \in Revs : disk.journal[r] # "absent" => disk'.journal[r] # "absent"
  BY DEF Follows
<1>8. ByHand' BY <1>7 DEF IInv, ByHand
<1>9. Journaled' BY <1>1, <1>4, <1>7, JournalStays DEF IInv
<1>10. Sent' BY <1>1, <1>4, SentStays DEF IInv
<1>11. Remembered(disk)' /\ Replied(mem)'
  BY <1>1 DEF Replied, Remembered, Open, Another
<1>12. Follows(mem)' BY DEF Follows
<1>13. Place(pc, mem, disk)'
  BY DEF Place, Reading, Planning, Approving, Sending
<1> QED BY <1>2, <1>3, <1>5, <1>6, <1>8, <1>9, <1>10, <1>11, <1>12, <1>13 DEF IInv

(* A run ends, and its session becomes the envelope or is lost.            *)
LEMMA EndStep ==
  ASSUME IInv, TypeOK', pc # "idle", EndRun, env' \in {env, mem},
         UNCHANGED <<disk, provider, board, adoption>>,
         hold' = "unverified" => jules.out # "none"
  PROVE  IInv'
<1>1. UNCHANGED <<jules, approvals, requests, children, planOf, lastRev>>
  BY DEF provider, board
<1>2. mem' = NewSession /\ pc' = "idle" /\ snap' = NoSnapshot /\ target' = NoTarget
  BY DEF EndRun
<1>3. Board' BY <1>1 DEF IInv, Board, Untouched, Posting, Climbed, Unread
<1>4. Output' BY <1>1, <1>2 DEF IInv, Output, NoSnapshot, TypeOK, Plans, NoPlan
<1>5. Monotone BY <1>1 DEF Monotone, IInv, TypeOK, Revs, Plans, NoPlan
<1>6. Records'
  <2> DEFINE new == NewSession
  <2>1. Sound(mem) /\ Sound(disk) /\ Sound(env) BY DEF IInv, Records
  <2>2. /\ mem'.child = NoChild /\ mem'.request = NoRequest /\ mem'.request.card = NoChild
        /\ mem'.approved = NoPlan
    BY <1>2, NewSessionFacts
  <2>3. Sound(env)' /\ Sound(disk)'
    BY <1>1, <2>1 DEF Sound, Planned, PlanOf
  <2>4. Sound(mem)'
    BY <2>2, CardFacts DEF Sound, Planned
  <2>5. Distinct(env, env)' /\ Distinct(disk, env)' /\ Distinct(disk, disk)'
    BY <1>1 DEF Distinct, PlanOf, IInv, Records
  <2>6. Distinct(disk, mem)'
    BY <1>1, <2>1, <2>2, PlanFacts DEF Distinct, PlanOf, Sound, Planned
  <2>7. Distinct(mem, env)' /\ Distinct(mem, disk)' /\ Distinct(mem, mem)'
    BY <2>2 DEF Distinct
  <2> QED BY <2>3, <2>4, <2>5, <2>6, <2>7 DEF Records
<1>7. Idle' BY <1>2 DEF Idle
<1>8. ByHand' BY DEF IInv, ByHand
<1>9. Journaled' BY <1>1, <1>5, JournalStays DEF IInv
<1>10. Sent' BY <1>1, <1>2, <1>5, SentStays DEF IInv, NoSnapshot
<1>11. Remembered(disk)' BY <1>1 DEF IInv, Remembered, Open, Another
<1>12. Place(pc, mem, disk)'
  BY <1>2 DEF Place, Reading, Planning, Approving, Sending, Reviewing, Judging, OpeningSteps
<1> QED BY <1>2, <1>3, <1>4, <1>6, <1>7, <1>8, <1>9, <1>10, <1>11, <1>12 DEF IInv

(* The type of what a step leaves alone or sets to a session.              *)
LEMMA SaveType ==
  ASSUME TypeOK, NEW s \in Sessions, NEW step \in Steps,
         mem' = s, disk' = s, pc' = step,
         UNCHANGED <<env, snap, target, hold, provider, board, adoption, faults>>
  PROVE  TypeOK'
BY DEF TypeOK, provider, board

(* The places of the run where nothing is to be shown.                     *)
LEMMA YieldPlace ==
  ASSUME NEW m, NEW d, NEW p \in {"yield", "return", "idle"}
  PROVE  Place(p, m, d) /\ Place(p, m, d)'
BY DEF Place, Reading, Planning, Approving, Sending, Reviewing, Judging, OpeningSteps

(* A change of the record that keeps its review, its request and its       *)
(* approval keeps what the invariant says of it.                           *)
LEMMA SameReview ==
  ASSUME IInv, pc # "idle", NEW s \in Sessions,
         s.child = mem.child, s.request.card = mem.request.card,
         s.request = NoRequest <=> mem.request = NoRequest, s.approved = mem.approved,
         \A r \in Revs : mem.journal[r] # "absent" => s.journal[r] # "absent"
  PROVE  Sound(s) /\ Distinct(s, s) /\ Distinct(s, env) /\ Follows(s) /\ Replied(s)
<1>1. Sound(mem) /\ Distinct(mem, mem) /\ Distinct(mem, env) /\ Follows(mem) /\ Replied(mem)
  BY DEF IInv, Records
<1>2. Sound(s) BY <1>1 DEF Sound
<1>3. Distinct(s, s) /\ Distinct(s, env) BY <1>1 DEF Distinct
<1>4. Follows(s) BY <1>1 DEF Follows
<1>5. Replied(s) BY <1>1 DEF Replied
<1> QED BY <1>2, <1>3, <1>4, <1>5

(* A review that is over leaves nothing to keep but the request and the    *)
(* approval.                                                               *)
LEMMA NoReview ==
  ASSUME IInv, pc # "idle", NEW s \in Sessions,
         s.child = NoChild, s.request = mem.request,
         s.approved = NoPlan => mem.approved = NoPlan,
         \A r \in Revs : mem.journal[r] # "absent" => s.journal[r] # "absent"
  PROVE  Sound(s) /\ Distinct(s, s) /\ Distinct(s, env) /\ Follows(s) /\ Replied(s)
<1>1. Sound(mem) /\ Follows(mem) /\ Replied(mem)
  BY DEF IInv, Records
<1>2. Sound(s) BY <1>1, CardFacts DEF Sound, Planned
<1>3. Distinct(s, s) /\ Distinct(s, env) BY DEF Distinct
<1>4. Follows(s) BY <1>1 DEF Follows
<1>5. Replied(s) BY <1>1 DEF Replied
<1> QED BY <1>2, <1>3, <1>4, <1>5
(* What a run knows does not change with what it does not name.            *)
LEMMA PlaceKept ==
  ASSUME NEW p, NEW m, NEW d, Place(p, m, d),
         UNCHANGED <<env, snap, target, provider, board>>
  PROVE  Place(p, m, d)'
<1>1. UNCHANGED <<approvals, requests, children, planOf, lastRev>> BY DEF provider, board
<1>2. Reading(p, m, d)' BY <1>1 DEF Place, Reading, Open, Another
<1>3. Planning(p, m)' BY <1>1 DEF Place, Planning, PlanOf
<1>4. Approving(p, m, d)' BY <1>1 DEF Place, Approving
<1>5. Sending(p, m, d)' BY <1>1 DEF Place, Sending, PlanOf, Asked, Another
<1> QED BY <1>2, <1>3, <1>4, <1>5 DEF Place

(* Save, with nothing but the session and the step changed.                *)
LEMMA SaveAndGo ==
  ASSUME IInv, pc # "idle", NEW s \in Sessions, NEW step \in Steps \ {"idle"}, Save(s, step),
         Sound(s), Distinct(s, s), Distinct(s, env), Follows(s), Replied(s), Place(step, s, s)
  PROVE  IInv'
<1>1. /\ mem' = s /\ disk' = s /\ pc' = step
      /\ UNCHANGED <<env, snap, target, hold, provider, board, adoption, faults>>
  BY DEF Save
<1>2. TypeOK' BY <1>1, SaveType DEF IInv
<1>3. Place(step, s, s)' BY <1>1, PlaceKept
<1> QED BY <1>1, <1>2, <1>3, SaveStep

(* A step that only moves the run on.                                      *)
LEMMA GoOn ==
  ASSUME IInv, pc # "idle", NEW step \in Steps \ {"idle"}, Goto(step), Place(step, mem, disk)
  PROVE  IInv'
<1>1. /\ pc' = step
      /\ UNCHANGED <<session, snap, target, hold, provider, board, adoption, faults>>
  BY DEF Goto
<1>2. TypeOK' BY <1>1 DEF IInv, TypeOK, session, provider, board
<1>3. Monotone /\ Board' BY <1>1, StandsStill DEF IInv, provider
<1> QED BY <1>1, <1>2, <1>3, WalkStep

(* A run that fails for good leaves the parent held.                       *)
LEMMA HeldEnds ==
  ASSUME IInv, pc # "idle", NEW reason \in Holds, Held(reason), faults' \in 0..MaxFaults,
         reason = "unverified" => jules.out # "none"
  PROVE  IInv'
<1>1. TypeOK'
  BY NewSessionFacts DEF IInv, TypeOK, Held, EndRun, provider, board, Steps, NoSnapshot, JulesStates,
     Outputs, Plans, NoPlan, NoTarget, PlanIds
<1> QED BY <1>1, EndStep DEF Held, IInv, TypeOK

(* A failure without a fault.                                              *)
LEMMA FailEnds ==
  ASSUME IInv, pc # "idle", NEW reason \in Holds, Fail(reason),
         reason = "unverified" => jules.out # "none"
  PROVE  IInv'
<1>1. Held(reason) /\ faults' \in 0..MaxFaults BY DEF Fail, IInv, TypeOK
<1> QED BY <1>1, HeldEnds

(* A fault is counted.                                                     *)
LEMMA FaultCounts ==
  ASSUME TypeOK, NEW kind, Fault(kind)
  PROVE  faults' \in 0..MaxFaults
BY ChildReviewAssumption DEF TypeOK, Fault

(* The poll of Jules: its state and its output.                            *)
LEMMA PollStep ==
  ASSUME IInv, pc # "idle", NEW step \in Steps \ {"idle"}, PollInto(step), Place(step, mem, disk)
  PROVE  IInv'
<1>1. /\ snap' = [snap EXCEPT !.state = jules.state, !.out = jules.out] /\ pc' = step
      /\ UNCHANGED <<session, target, hold, provider, board, adoption, faults>>
      /\ UNCHANGED <<disk, env, mem, jules, approvals, requests, children, planOf, lastRev>>
  BY DEF PollInto, session, provider, board
<1>2. TypeOK'
  BY <1>1 DEF IInv, TypeOK, session, provider, board
<1>3. snap'.plan = snap.plan /\ snap'.out = jules.out
  BY <1>1 DEF IInv, TypeOK
<1>4. Monotone BY <1>1 DEF Monotone, IInv, TypeOK, Revs, Plans, NoPlan
<1>5. Board' BY <1>1 DEF IInv, Board, Untouched, Posting, Climbed, Unread
<1>6. Output' BY <1>1, <1>3 DEF IInv, Output
<1>7. Journaled' BY <1>1, <1>4, JournalStays DEF IInv
<1>8. Sent' BY <1>1, <1>2, <1>3, <1>4, SentStays DEF IInv
<1>9. Remembered(disk)' /\ Replied(mem)' BY <1>1, <1>2, <1>3, <1>4, RequestsStay DEF IInv
<1>10. Place(step, mem, disk)'
  BY <1>1, <1>3 DEF Place, Reading, Planning, Approving, Sending, Open, Another, PlanOf, Asked
<1>11. Place(pc, mem, disk)'
  BY <1>1, <1>10 DEF Place, Reading, Planning, Approving, Sending
<1> QED BY <1>1, <1>2, <1>4, <1>5, <1>6, <1>7, <1>8, <1>9, <1>11, MoveStep

(* What a run reads in the history of Jules.                               *)
LEMMA HistoryFacts ==
  ASSUME TypeOK
  PROVE  /\ History \in [state : JulesStates, out : Outputs, plan : Plans \cup {NoPlan},
                         witnessed : BOOLEAN, echoed : BOOLEAN]
         /\ History.plan = jules.plan /\ History.out = snap.out /\ History.state = snap.state
<1> DEFINE seen == jules.plan \in witness
           heard == mem.request.card \in echoes
<1>1. seen \in BOOLEAN /\ heard \in BOOLEAN OBVIOUS
<1>2. History = [snap EXCEPT !.plan = jules.plan, !.witnessed = seen, !.echoed = heard]
  BY DEF History
<1>3. snap \in [state : JulesStates, out : Outputs, plan : Plans \cup {NoPlan},
               witnessed : BOOLEAN, echoed : BOOLEAN] /\ jules.plan \in Plans \cup {NoPlan}
  BY DEF TypeOK
<1> HIDE DEF seen, heard
<1> QED BY <1>1, <1>2, <1>3

(* The history is read where the record is not written.                    *)
LEMMA ReadStep ==
  ASSUME IInv, pc # "idle", NEW step \in {"request", "repoll"}, ReadInto(step), Place(step, mem, disk)
  PROVE  IInv'
<1>1. /\ snap' = History /\ pc' = step
      /\ UNCHANGED <<session, target, hold, provider, board, adoption, faults>>
      /\ UNCHANGED <<disk, env, mem, jules, approvals, requests, children, planOf, lastRev>>
  BY DEF ReadInto, session, provider, board
<1>2. TypeOK'
  BY <1>1, HistoryFacts DEF IInv, TypeOK, session, provider, board, Steps
<1>3. snap'.plan = jules.plan /\ snap'.out = snap.out
  BY <1>1, HistoryFacts DEF IInv
<1>4. Monotone BY <1>1 DEF Monotone, IInv, TypeOK, Revs, Plans, NoPlan
<1>5. Board' BY <1>1 DEF IInv, Board, Untouched, Posting, Climbed, Unread
<1>6. Output' BY <1>1, <1>3 DEF IInv, Output, TypeOK, Plans, NoPlan
<1>7. Journaled' BY <1>1, <1>4, JournalStays DEF IInv
<1>8. Sent' BY <1>1, <1>2, <1>3, <1>4, SentStays DEF IInv
<1>9. Remembered(disk)' /\ Replied(mem)' BY <1>1, <1>2, <1>3, <1>4, RequestsStay DEF IInv
<1>10. Place(pc, mem, disk)'
  BY <1>1 DEF Place, Reading, Planning, Approving, Sending, Open, Another, OpeningSteps, Reviewing, Judging
<1> QED BY <1>1, <1>2, <1>4, <1>5, <1>6, <1>7, <1>8, <1>9, <1>10, MoveStep
-----------------------------------------------------------------------------
(* The steps of a run, one by one.                                         *)

(* Startup: the merge takes up no review that either record has decided,   *)
(* and loses no request that Jules has not answered.                       *)
LEMMA StartKeeps ==
  ASSUME IInv, Start
  PROVE  IInv'
<1> DEFINE m == MergeCheckpoints(env, disk)
<1>1. /\ pc = "idle" /\ hold = "none" /\ mem' = m /\ pc' = "poll"
      /\ UNCHANGED <<disk, env, snap, target, hold, provider, board, adoption, faults>>
      /\ UNCHANGED <<jules, approvals, requests, children, planOf, lastRev>>
  BY DEF Start, provider, board
<1>2. env \in Sessions /\ disk \in Sessions BY DEF IInv, TypeOK
<1>3. /\ m \in Sessions
      /\ m.child \in {NoChild, env.child, disk.child}
      /\ m.child = disk.child \/ m.child = NoChild \/ (m.child = env.child /\ ~DecisionConsumed(env, disk))
      /\ m.request = Or(env.request, disk.request, NoRequest)
      /\ m.approved \in {env.approved, disk.approved}
      /\ m.approved = NoPlan => env.approved = NoPlan
      /\ \A r \in Revs : disk.journal[r] # "absent" => m.journal[r] # "absent"
  BY <1>2, MergeFacts
<1> HIDE DEF m
<1>4. m.request \in {env.request, disk.request} BY <1>3 DEF Or
<1>5. TypeOK' BY <1>1, <1>3 DEF IInv, TypeOK, provider, board, Steps
<1>6. Sound(m)
  BY <1>3, <1>4, CardFacts DEF IInv, Records, Sound, Planned
<1>7. Distinct(m, disk) /\ Distinct(m, env)
  <2>1. CASE m.child = disk.child BY <2>1 DEF IInv, Records, Distinct
  <2>2. CASE m.child = NoChild BY <2>2 DEF Distinct
  <2>3. CASE m.child = env.child /\ ~DecisionConsumed(env, disk)
    BY <2>3 DEF IInv, Records, Distinct, DecisionConsumed
  <2> QED BY <1>3, <2>1, <2>2, <2>3
<1>8. Distinct(m, m) /\ Distinct(disk, m)
  <2>1. Distinct(m, m) BY <1>3, <1>4, <1>7 DEF Distinct
  <2>2. Distinct(disk, m) BY <1>3, <1>4 DEF IInv, Records, Distinct
  <2> QED BY <2>1, <2>2
<1>9. Records'
  <2>1. Sound(env)' /\ Sound(disk)' BY <1>1 DEF IInv, Records, Sound, Planned, PlanOf
  <2>2. Sound(mem)' BY <1>1, <1>6 DEF Sound, Planned, PlanOf
  <2>3. Distinct(env, env)' /\ Distinct(disk, env)' /\ Distinct(disk, disk)'
    BY <1>1 DEF IInv, Records, Distinct, PlanOf
  <2>4. Distinct(mem, env)' /\ Distinct(mem, disk)' /\ Distinct(mem, mem)' /\ Distinct(disk, mem)'
    BY <1>1, <1>7, <1>8 DEF Distinct, PlanOf
  <2> QED BY <2>1, <2>2, <2>3, <2>4 DEF Records
<1>10. Replied(m)
  <2> SUFFICES ASSUME NEW c \in Cards, Open(c), m.request.card # c
               PROVE  planOf[c[1]] \notin {jules.plan, snap.plan}
    BY DEF Replied
  <2>1. snap.plan = NoPlan BY <1>1 DEF IInv, Idle, NoSnapshot
  <2>2. planOf[c[1]] \in Plans /\ children[c].card = "reject" BY DEF IInv, Sent, Open
  <2>3. disk.request.card # c
    <3> SUFFICES ASSUME disk.request.card = c PROVE FALSE OBVIOUS
    <3>1. m.request = env.request /\ env.request # NoRequest BY <1>3 DEF Or
    <3>2. env.request.card \in Cards /\ children[env.request.card].card = "reject"
      BY <1>2, <3>1, SessionFacts DEF IInv, Records, Sound
    <3>3. Another(c[1]) BY <2>2, <3>1, <3>2, OneRejected DEF IInv
    <3> QED BY <3>3 DEF Open
  <2>4. planOf[c[1]] # jules.plan BY <2>3 DEF IInv, Remembered
  <2> QED BY <2>1, <2>2, <2>4 DEF Plans, NoPlan
<1>11. Board' BY <1>1 DEF IInv, Board, Untouched, Posting, Climbed, Unread
<1>12. Output' BY <1>1 DEF IInv, Output
<1>13. Idle' BY <1>1 DEF Idle
<1>14. ByHand' BY <1>1 DEF IInv, ByHand
<1>15. Monotone BY <1>1 DEF Monotone, IInv, TypeOK, Revs, Plans, NoPlan
<1>16. Journaled' BY <1>1, <1>15, JournalStays DEF IInv
<1>17. Sent' BY <1>1, <1>5, <1>15, SentStays DEF IInv
<1>18. Remembered(disk)' BY <1>1 DEF IInv, Remembered, Open, Another
<1>19. Replied(mem)' BY <1>1, <1>10 DEF Replied, Open, Another
<1>20. Follows(mem)' BY <1>1, <1>3 DEF Follows
<1>21. Place(pc, mem, disk)'
  BY <1>1, <1>3 DEF Place, Reading, Planning, Approving, Sending, Reviewing, Judging, OpeningSteps
<1> QED BY <1>5, <1>9, <1>11, <1>12, <1>13, <1>14, <1>16, <1>17, <1>18, <1>19, <1>20, <1>21 DEF IInv

(* Place at a step of the run, taken apart.                                *)
LEMMA PlaceIs ==
  ASSUME IInv
  PROVE  Reading(pc, mem, disk) /\ Planning(pc, mem) /\ Approving(pc, mem, disk) /\ Sending(pc, mem, disk)
BY DEF IInv, Place

(* The poll, and the first list of the history or its failure.             *)
LEMMA PollKeeps == ASSUME IInv, Poll PROVE IInv'
<1>1. Place("scan", mem, disk)
  BY PlaceIs DEF Poll, Place, Reading, Planning, Approving, Sending, Reviewing, Judging, OpeningSteps
<1> QED BY <1>1, PollStep DEF Poll, Steps

(* See PollKeeps.                                                          *)
LEMMA ScanKeeps == ASSUME IInv, Scan PROVE IInv'
<1>1. pc = "scan" /\ pc' # "idle" BY DEF Scan, ReadInto
<1>2. Place("request", mem, disk)
  BY <1>1, PlaceIs DEF Place, Reading, Planning, Approving, Sending, Reviewing, Judging, OpeningSteps
<1>3. CASE ReadInto("request") BY <1>1, <1>2, <1>3, ReadStep
<1>4. CASE /\ pc' = "request" /\ Fault("history")
           /\ UNCHANGED <<session, snap, target, hold, provider, board, adoption>>
  <2>1. faults' \in 0..MaxFaults BY <1>4, FaultCounts DEF IInv
  <2>2. TypeOK' BY <1>4, <2>1 DEF IInv, TypeOK, session, provider, board, Steps
  <2>3. Monotone /\ Board' BY <1>4, StandsStill DEF IInv, provider
  <2> QED BY <1>1, <1>2, <1>4, <2>2, <2>3, WalkStep DEF Steps
<1> QED BY <1>3, <1>4 DEF Scan

(* What is known where a run without a pending request goes on.            *)
LEMMA AfterRequestPlace ==
  ASSUME IInv, pc = "request", NEW s \in Sessions,
         s.request = NoRequest, s.child = mem.child,
         mem.request # NoRequest => snap.plan \notin {NoPlan, PlanOf(mem.request.card)}
  PROVE  Place(AfterRequest, s, s) /\ (s = mem => Place(AfterRequest, s, disk))
<1>1. mem.request = Or(env.request, disk.request, NoRequest) BY PlaceIs DEF Reading
<1>2. env.request # NoRequest => snap.plan \notin {NoPlan, PlanOf(env.request.card)}
  BY <1>1 DEF Or
<1>3. AfterRequest \in {"history", "plan"} /\ (AfterRequest = "history" <=> s.child # NoChild)
  BY DEF AfterRequest
<1> QED BY <1>2, <1>3 DEF Place, Reading, Planning, Approving, Sending, Reviewing, Judging, OpeningSteps

(* A run without a pending request goes on to its review or to the plan.   *)
LEMMA NoPendingRequestKeeps == ASSUME IInv, NoPendingRequest PROVE IInv'
<1>1. pc = "request" /\ mem.request = NoRequest /\ Goto(AfterRequest) BY DEF NoPendingRequest
<1>2. mem \in Sessions BY DEF IInv, TypeOK
<1>3. Place(AfterRequest, mem, disk) BY <1>1, <1>2, AfterRequestPlace
<1> QED BY <1>1, <1>3, GoOn DEF AfterRequest, Steps

(* A newer plan fulfils the request, which is struck from the record.      *)
LEMMA RequestFulfilledKeeps == ASSUME IInv, RequestFulfilled PROVE IInv'
<1> DEFINE s == [mem EXCEPT !.request = NoRequest]
<1>1. /\ pc = "request" /\ mem.request # NoRequest
      /\ snap.plan \notin {NoPlan, PlanOf(mem.request.card)} /\ Save(s, AfterRequest)
  BY DEF RequestFulfilled
<1>2. /\ s \in Sessions /\ s.request = NoRequest /\ s.child = mem.child /\ s.approved = mem.approved
      /\ s.journal = mem.journal /\ s.request.card = NoChild
  BY DEF IInv, TypeOK, Sessions, NoRequest
<1>3. Place(AfterRequest, s, s) BY <1>1, <1>2, AfterRequestPlace
<1>4. Sound(s) BY <1>2 DEF IInv, Records, Sound, Planned
<1>5. Distinct(s, s) /\ Distinct(s, env)
  BY <1>2, <1>4, PlanFacts DEF IInv, Records, Distinct, Sound, Planned
<1>6. Follows(s) BY <1>1, <1>2 DEF IInv, Follows
<1>7. Replied(s)
  <2> SUFFICES ASSUME NEW c \in Cards, Open(c), mem.request.card = c
               PROVE  planOf[c[1]] \notin {jules.plan, snap.plan}
    BY <1>1 DEF IInv, Replied
  <2>1. planOf[c[1]] # snap.plan BY <1>1, PlanFacts
  <2>2. planOf[c[1]] <= snap.plan /\ snap.plan <= jules.plan /\ planOf[c[1]] \in Plans
    BY <1>1 DEF IInv, Sent, Open, Output
  <2>3. snap.plan \in Nat /\ jules.plan \in Nat BY DEF IInv, TypeOK, Plans, NoPlan
  <2> QED BY <2>1, <2>2, <2>3 DEF Plans
<1> HIDE DEF s
<1> QED BY <1>1, <1>2, <1>3, <1>4, <1>5, <1>6, <1>7, SaveAndGo DEF AfterRequest, Steps

(* The delivery of a request is recorded.                                  *)
LEMMA DeliveredFacts ==
  ASSUME IInv, mem.request # NoRequest
  PROVE  /\ Delivered \in Sessions /\ Delivered.child = mem.child /\ Delivered.approved = mem.approved
         /\ Delivered.request.card = mem.request.card /\ Delivered.request # NoRequest
         /\ Delivered.journal = mem.journal
<1>1. mem \in Sessions /\ mem.request.card \in Cards BY SessionFacts DEF IInv, TypeOK
<1>2. PlanOf(mem.request.card) \in PlanIds \cup {NoPlan}
  BY <1>1, CardFacts, PlanFacts DEF IInv, TypeOK
<1>3. mem.request \in [card : Cards, state : {"prepared", "delivered"}] BY <1>1, SessionFacts
<1> DEFINE q == [mem.request EXCEPT !.state = "delivered"]
           p == PlanOf(mem.request.card)
<1>4. q \in [card : Cards, state : {"prepared", "delivered"}] /\ q.card = mem.request.card /\ q # NoRequest
  BY <1>3, CardFacts DEF NoRequest
<1>5. Delivered = [mem EXCEPT !.request = q, !.outcome = "revision_requested", !.superseded = p]
  BY <1>1 DEF Delivered, Sessions
<1>6. p \in PlanIds \cup {NoPlan} BY <1>2
<1> HIDE DEF q, p
<1> QED BY <1>1, <1>4, <1>5, <1>6 DEF Sessions

(* A pending request is awaited, or found delivered.                       *)
LEMMA RequestPendingKeeps == ASSUME IInv, RequestPending PROVE IInv'
<1>1. pc = "request" /\ mem.request # NoRequest BY DEF RequestPending
<1>2. CASE Save(Delivered, "yield")
  BY <1>1, <1>2, DeliveredFacts, SameReview, YieldPlace, SaveAndGo DEF Steps
<1>3. CASE Goto("yield") BY <1>1, <1>3, YieldPlace, GoOn DEF Steps
<1> QED BY <1>2, <1>3 DEF RequestPending
(* One child changes: what the change must keep.                           *)
LEMMA OneChild ==
  ASSUME TypeOK, Board, NEW c \in Cards, NEW issue \in ChildIssues,
         children' = [children EXCEPT ![c] = issue], UNCHANGED <<planOf, lastRev>>,
         jules' = jules,
         issue.status # "absent", issue.run = "post" => issue.card = "none",
         children[c].card \in Answers => issue.card = children[c].card,
         children[c] = NoIssue /\ c[2] = "terra" => children[<<c[1], "luna">>].card = "approve"
  PROVE  Monotone /\ Board' /\ children' \in [Cards -> ChildIssues]
<1>1. children \in [Cards -> ChildIssues] BY DEF TypeOK
<1>2. children' \in [Cards -> ChildIssues] BY <1>1
<1>3. Monotone BY <1>1 DEF Monotone, TypeOK, Revs, Plans, NoPlan
<1>4. Untouched' BY <1>1 DEF Board, Untouched
<1>5. Posting' BY <1>1 DEF Board, Posting
<1>6. Climbed'
  <2> SUFFICES ASSUME NEW r \in Revs, children'[<<r, "terra">>] # NoIssue
               PROVE  children'[<<r, "luna">>].card = "approve"
    BY DEF Climbed
  <2>1. <<r, "terra">> \in Cards /\ <<r, "luna">> \in Cards BY DEF Cards, Stages
  <2>2. children[<<r, "luna">>].card = "approve"
    <3>1. CASE c = <<r, "terra">> /\ children[c] = NoIssue BY <3>1
    <3>2. CASE ~(c = <<r, "terra">> /\ children[c] = NoIssue)
      BY <1>1, <2>1, <3>2 DEF Board, Climbed
    <3> QED BY <3>1, <3>2
  <2> QED BY <1>3, <2>1, <2>2 DEF Monotone, Answers
<1>7. Unread' BY DEF Board, Unread
<1> QED BY <1>2, <1>3, <1>4, <1>5, <1>6, <1>7 DEF Board

(* What is known while a verdict is awaited or read.                       *)
LEMMA JudgingPlace ==
  ASSUME IInv, pc \in Judging, NEW s, s.child[1] = mem.child[1], s.child # NoChild, s.request = NoRequest,
         NEW d,
         NEW p \in {"observe", "create", "waiting", "answered", "rescan", "repoll", "verdict"}
  PROVE  Place(p, s, d)
BY PlaceIs DEF Place, Reading, Planning, Approving, Sending, Reviewing, Judging, OpeningSteps

(* A run under way has a review.                                           *)
LEMMA ReviewIs ==
  ASSUME IInv, pc \in Reviewing
  PROVE  /\ mem \in Sessions /\ mem.child \in Cards /\ mem.request = NoRequest /\ mem.request.card = NoChild
         /\ Rev \in Revs /\ Stage \in Stages /\ mem.child = <<Rev, Stage>>
         /\ PlanOf(mem.child) = planOf[Rev] /\ planOf[Rev] # NoPlan /\ planOf[Rev] \in PlanIds
         /\ Attempt \in Attempts /\ children[mem.child] \in ChildIssues
<1>1. mem \in Sessions /\ mem.child # NoChild /\ mem.request = NoRequest
  BY PlaceIs DEF Reading, IInv, TypeOK
<1>2. mem.child \in Cards /\ mem.request.card = NoChild BY <1>1, SessionFacts
<1>3. Rev \in Revs /\ Stage \in Stages /\ mem.child = <<Rev, Stage>>
  BY <1>2, CardFacts DEF Rev, Stage
<1>4. PlanOf(mem.child) = planOf[Rev] /\ planOf[Rev] # NoPlan /\ planOf[Rev] \in PlanIds
  BY <1>1, <1>2, <1>3, PlanFacts DEF Rev, IInv, Records, Sound, Planned, TypeOK
<1>5. Attempt \in Attempts BY <1>1, <1>3, SessionFacts DEF Attempt
<1>6. children[mem.child] \in ChildIssues BY <1>2 DEF IInv, TypeOK
<1> QED BY <1>1, <1>2, <1>3, <1>4, <1>5, <1>6

(* The session without its review.                                         *)
LEMMA NoChildFacts ==
  ASSUME NEW s \in Sessions
  PROVE  /\ NoChildOf(s) \in Sessions /\ NoChildOf(s).child = NoChild
         /\ NoChildOf(s).request = s.request /\ NoChildOf(s).approved = s.approved
         /\ NoChildOf(s).journal = s.journal
BY DEF NoChildOf, Sessions

(* A review of a plan that Jules replaced is retired.                      *)
LEMMA RetireReplacedKeeps == ASSUME IInv, RetireReplaced PROVE IInv'
<1>1. pc # "idle" /\ Save(NoChildOf(mem), "yield") BY DEF RetireReplaced
<1>2. mem \in Sessions BY DEF IInv, TypeOK
<1> QED BY <1>1, <1>2, NoChildFacts, NoReview, YieldPlace, SaveAndGo DEF Steps

(* A conflict found without a verdict holds the parent.                    *)
LEMMA HoldUnjudgedKeeps == ASSUME IInv, HoldUnjudged PROVE IInv'
<1>1. \E reason \in Holds : /\ pc # "idle" /\ Fail(reason)
                            /\ reason = "unverified" => snap.out = "patch"
  BY DEF HoldUnjudged, Holds
<1> QED BY <1>1, FailEnds DEF IInv, Output

(* A decision other than a conflict is about the plan Jules shows.         *)
LEMMA DecisionIsAbout ==
  ASSUME NEW s, NEW verdict, DecidePlanProviderAction(s, verdict) # "conflict"
  PROVE  s.plan = planOf[Rev]
BY DEF DecidePlanProviderAction

(* The observation is saved before the child is touched, and a revision    *)
(* that Jules was asked to replace is never observed again.                *)
LEMMA ReadHistoryKeeps == ASSUME IInv, ReadHistory PROVE IInv'
<1>1. /\ pc = "history" /\ Judged(History) # "conflict"
      /\ snap' = History /\ disk' = mem /\ pc' = "observe"
      /\ UNCHANGED <<mem, env, target, hold, provider, board, adoption, faults>>
      /\ UNCHANGED <<jules, approvals, requests, children, planOf, lastRev>>
  BY DEF ReadHistory, provider, board
<1>2. mem \in Sessions /\ mem.child \in Cards /\ mem.request = NoRequest /\ mem.request.card = NoChild
  BY <1>1, ReviewIs DEF Reviewing
<1>3. TypeOK'
  BY <1>1, <1>2, HistoryFacts DEF IInv, TypeOK, provider, board, Steps
<1>4. snap'.plan = jules.plan /\ snap'.out = snap.out
  BY <1>1, HistoryFacts DEF IInv
<1>5. jules.plan = planOf[Rev]
  BY <1>1, DecisionIsAbout, HistoryFacts DEF Judged, IInv
<1>6. Monotone /\ Board' BY <1>1, StandsStill DEF IInv
<1>7. Output' BY <1>1, <1>4 DEF IInv, Output, TypeOK, Plans, NoPlan
<1>8. Records'
  <2>1. Sound(mem)' /\ Sound(env)' BY <1>1 DEF Sound, Planned, PlanOf, IInv, Records
  <2>2. Distinct(mem, mem)' /\ Distinct(mem, env)' /\ Distinct(env, env)'
    BY <1>1 DEF Distinct, PlanOf, IInv, Records
  <2> QED BY <1>1, <2>1, <2>2 DEF Records, Sound, Distinct, Planned, PlanOf
<1>9. Idle' BY <1>1 DEF Idle
<1>10. \A r \in Revs : disk.journal[r] # "absent" => disk'.journal[r] # "absent"
  BY <1>1 DEF IInv, Follows
<1>11. ByHand' BY <1>1, <1>10 DEF IInv, ByHand
<1>12. Journaled' BY <1>1, <1>6, <1>10, JournalStays DEF IInv
<1>13. Sent' BY <1>1, <1>3, <1>4, <1>6, SentStays DEF IInv
<1>14. Replied(mem) BY <1>1 DEF IInv
<1>15. Remembered(disk)' /\ Replied(mem)'
  BY <1>1, <1>4, <1>14 DEF Replied, Remembered, Open, Another
<1>16. Follows(mem)' BY <1>1 DEF IInv, Follows
<1>17. \A c \in Cards : Open(c) => mem.child[1] # c[1]
  BY <1>2, <1>5, <1>14, CardFacts DEF Replied, Rev
<1>18. Place(pc, mem, disk)'
  BY <1>1, <1>2, <1>17, CardFacts DEF Place, Reading, Planning, Approving, Sending, Open, Another,
     Reviewing, Judging, OpeningSteps
<1> QED BY <1>3, <1>6, <1>7, <1>8, <1>9, <1>11, <1>12, <1>13, <1>15, <1>16, <1>18 DEF IInv
(* A child that cannot be read holds the parent.                           *)
LEMMA ObserveBrokenKeeps == ASSUME IInv, ObserveBroken PROVE IInv'
BY FailEnds DEF ObserveBroken, Observing, Holds

(* A child is observed.                                                    *)
LEMMA ObserveChildKeeps == ASSUME IInv, ObserveChild PROVE IInv'
<1>1. PICK step \in {"answered", "waiting"} : pc \in {"observe", "create"} /\ Goto(step)
  BY DEF ObserveChild, Observing
<1>2. mem.child # NoChild /\ mem.request = NoRequest BY <1>1, ReviewIs, CardFacts DEF Reviewing
<1>3. Place(step, mem, disk) BY <1>1, <1>2, JudgingPlace DEF Judging, Reviewing
<1> QED BY <1>1, <1>3, GoOn DEF Steps

(* The child under review is written, and the answer of Paperclip comes or *)
(* is lost.                                                                *)
LEMMA TouchChild ==
  ASSUME IInv, pc \in {"observe", "create"}, NEW issue \in ChildIssues,
         children' = [children EXCEPT ![mem.child] = issue],
         issue.status # "absent", issue.run # "post", issue.card = children[mem.child].card,
         Answer("waiting"),
         UNCHANGED <<session, snap, target, hold, provider, available, planOf, lastRev, adoption>>
  PROVE  IInv'
<1>1. mem.child \in Cards /\ mem.child # NoChild /\ mem.request = NoRequest
  BY ReviewIs, CardFacts DEF Reviewing
<1>2. mem.child[2] = "terra" => children[<<mem.child[1], "luna">>].card = "approve"
  BY DEF IInv, Records, Sound
<1>3. Monotone /\ Board' /\ children' \in [Cards -> ChildIssues]
  BY <1>1, <1>2, OneChild DEF IInv, provider
<1>4. pc' \in {"waiting", "yield"} /\ faults' \in 0..MaxFaults
  BY FaultCounts DEF Answer, IInv, TypeOK
<1>5. TypeOK' BY <1>3, <1>4 DEF IInv, TypeOK, session, provider, Steps
<1>6. Place("waiting", mem, disk) /\ Place("yield", mem, disk)
  BY <1>1, JudgingPlace, YieldPlace DEF Judging, Reviewing
<1>7. UNCHANGED <<session, snap, target, hold, provider, adoption>> OBVIOUS
<1> QED BY <1>3, <1>4, <1>5, <1>6, <1>7, WalkStep DEF Steps

(* An absent child is created in the backlog.                              *)
LEMMA CreateChildKeeps == ASSUME IInv, CreateChild PROVE IInv'
<1> DEFINE issue == [NoIssue EXCEPT !.status = "backlog"]
<1>1. /\ pc \in {"observe", "create"} /\ Observation = "create"
      /\ children' = [children EXCEPT ![mem.child] = issue] /\ Answer("waiting")
      /\ UNCHANGED <<session, snap, target, hold, provider, available, planOf, lastRev, adoption>>
  BY DEF CreateChild, Observing
<1>2. mem.child \in Cards BY <1>1, ReviewIs DEF Reviewing
<1>3. issue \in ChildIssues /\ issue.status # "absent" /\ issue.run # "post" /\ issue.card = "none"
  BY DEF NoIssue, ChildIssues
<1>4. children[mem.child].status = "absent"
  BY <1>1 DEF Observation, Child, BootObservation, PendingObservation
<1>5. children[mem.child].card = "none" BY <1>2, <1>4 DEF IInv, Board, Untouched, NoIssue
<1> HIDE DEF issue
<1> QED BY <1>1, <1>3, <1>5, TouchChild

(* A child is handed to the bootstrap agent or to its reviewer.            *)
LEMMA ActivateChildKeeps == ASSUME IInv, ActivateChild PROVE IInv'
<1> DEFINE owner == IF Child.owner = "reviewer" \/ Child.card # "none" THEN "reviewer" ELSE "boot"
           issue == [Child EXCEPT !.status = "todo", !.run = "queued", !.owner = owner]
<1>1. /\ pc \in {"observe", "create"} /\ Answer("waiting")
      /\ UNCHANGED <<session, snap, target, hold, provider, available, planOf, lastRev, adoption>>
  BY DEF ActivateChild, Observing
<1>2. mem.child \in Cards /\ Child \in ChildIssues BY <1>1, ReviewIs DEF Reviewing, Child
<1>3. children' = [children EXCEPT ![mem.child] = issue]
  BY <1>2 DEF ActivateChild, Child, ChildIssues, IInv, TypeOK
<1>4. /\ issue \in ChildIssues /\ issue.status # "absent" /\ issue.run # "post"
      /\ issue.card = children[mem.child].card
  BY <1>2 DEF Child, ChildIssues
<1> HIDE DEF issue
<1> QED BY <1>1, <1>3, <1>4, TouchChild

(* The record of a child whose verdict is awaited or in.                   *)
LEMMA KnownFacts ==
  ASSUME NEW s \in Sessions
  PROVE  LET k == [s EXCEPT !.known = TRUE]
         IN  /\ k \in Sessions /\ k.child = s.child /\ k.request = s.request
             /\ k.approved = s.approved /\ k.journal = s.journal
BY DEF Sessions

(* See KnownFacts.                                                         *)
LEMMA SaveWaitingKeeps == ASSUME IInv, SaveWaiting PROVE IInv'
<1> DEFINE s == [mem EXCEPT !.known = TRUE]
<1>1. pc # "idle" /\ Save(s, "yield") BY DEF SaveWaiting
<1>2. /\ s \in Sessions /\ s.child = mem.child /\ s.request = mem.request
      /\ s.approved = mem.approved /\ s.journal = mem.journal
  BY KnownFacts DEF IInv, TypeOK
<1> HIDE DEF s
<1>3. Sound(s) /\ Distinct(s, s) /\ Distinct(s, env) /\ Follows(s) /\ Replied(s)
  BY <1>1, <1>2, SameReview
<1> QED BY <1>1, <1>2, <1>3, YieldPlace, SaveAndGo DEF Steps

(* See KnownFacts.                                                         *)
LEMMA SaveAnsweredKeeps == ASSUME IInv, SaveAnswered PROVE IInv'
<1> DEFINE s == [mem EXCEPT !.known = TRUE]
<1>1. PICK step \in {"rescan", "verdict"} : pc = "answered" /\ Save(s, step) BY DEF SaveAnswered
<1>2. mem.request = NoRequest /\ mem.child # NoChild BY <1>1, ReviewIs, CardFacts DEF Reviewing
<1>3. /\ s \in Sessions /\ s.child = mem.child /\ s.request = mem.request
      /\ s.approved = mem.approved /\ s.journal = mem.journal
  BY KnownFacts DEF IInv, TypeOK
<1> HIDE DEF s
<1>4. Sound(s) /\ Distinct(s, s) /\ Distinct(s, env) /\ Follows(s) /\ Replied(s)
  BY <1>1, <1>3, SameReview
<1>5. Place(step, s, s) BY <1>1, <1>2, <1>3, JudgingPlace DEF Judging, Reviewing
<1> QED BY <1>1, <1>3, <1>4, <1>5, SaveAndGo DEF Steps

(* The boundary is read again.                                             *)
LEMMA BoundaryKeeps == ASSUME IInv, Rescan \/ Repoll PROVE IInv'
<1>1. pc \in {"rescan", "repoll"} BY DEF Rescan, Repoll
<1>2. mem.request = NoRequest /\ mem.child # NoChild BY <1>1, ReviewIs, CardFacts DEF Reviewing
<1>3. Place("repoll", mem, disk) /\ Place("verdict", mem, disk)
  BY <1>1, <1>2, JudgingPlace DEF Judging, Reviewing
<1>4. CASE Rescan BY <1>1, <1>3, <1>4, ReadStep DEF Rescan
<1>5. CASE Repoll BY <1>1, <1>3, <1>5, PollStep DEF Repoll, Steps
<1> QED BY <1>4, <1>5

-----------------------------------------------------------------------------
(* The verdict.                                                            *)

(* A run that decides holds a reviewed card of the plan Jules shows.       *)
LEMMA DecidingIs ==
  ASSUME IInv, pc = "verdict"
  PROVE  /\ mem \in Sessions /\ mem.child \in Cards /\ mem.request = NoRequest /\ mem.request.card = NoChild
         /\ Rev \in Revs /\ Stage \in Stages /\ mem.child = <<Rev, Stage>>
         /\ PlanOf(mem.child) = planOf[Rev] /\ planOf[Rev] # NoPlan /\ planOf[Rev] \in PlanIds
         /\ Attempt \in Attempts
         /\ Decision # "conflict" => snap.plan = planOf[Rev]
         /\ \A c \in Cards : Open(c) => Rev # c[1]
<1>1. Decision # "conflict" => snap.plan = planOf[Rev] BY DecisionIsAbout DEF Decision
<1>2. \A c \in Cards : Open(c) => Rev # c[1]
  BY PlaceIs DEF Reading, Judging, Reviewing, Rev
<1> QED BY <1>1, <1>2, ReviewIs DEF Reviewing

(* A verdict that nothing explains holds the parent.                       *)
LEMMA HoldVerdictKeeps == ASSUME IInv, HoldVerdict \/ HoldTerra PROVE IInv'
BY FailEnds DEF HoldVerdict, HoldTerra, TerraActs, TerraApproves, Proceeding, Deciding, Holds

(* The approved session.                                                   *)
LEMMA ApprovedFacts ==
  ASSUME TypeOK, NEW s \in Sessions, s.child \in Cards
  PROVE  /\ Approved(s) \in Sessions /\ Approved(s).child = NoChild
         /\ Approved(s).request = s.request /\ Approved(s).approved = planOf[s.child[1]]
         /\ Approved(s).journal = s.journal
<1> DEFINE plan == planOf[s.child[1]]
           n == NoChildOf(s)
<1>1. plan \in PlanIds \cup {NoPlan} BY CardFacts DEF TypeOK
<1>2. n \in Sessions /\ n.child = NoChild /\ n.request = s.request /\ n.journal = s.journal
  BY NoChildFacts
<1>3. Approved(s) = [n EXCEPT !.approved = plan, !.outcome = "approved"] BY DEF Approved
<1> HIDE DEF plan, n
<1>4. /\ Approved(s) \in Sessions /\ Approved(s).child = NoChild
      /\ Approved(s).request = s.request /\ Approved(s).approved = plan
      /\ Approved(s).journal = s.journal
  BY <1>1, <1>2, <1>3 DEF Sessions
<1> QED BY <1>4 DEF plan

(* The approval of the review under way is recorded.                       *)
LEMMA SaveApproved ==
  ASSUME IInv, pc \in Reviewing, Save(Approved(mem), "yield")
  PROVE  IInv'
<1> DEFINE s == Approved(mem)
<1>1. pc # "idle" /\ mem \in Sessions /\ mem.child \in Cards /\ planOf[mem.child[1]] # NoPlan
  BY ReviewIs DEF Reviewing, Rev
<1>2. /\ s \in Sessions /\ s.child = NoChild /\ s.request = mem.request
      /\ s.approved # NoPlan /\ s.journal = mem.journal
  BY <1>1, ApprovedFacts DEF IInv
<1>3. Save(s, "yield") OBVIOUS
<1> HIDE DEF s
<1>4. Sound(s) /\ Distinct(s, s) /\ Distinct(s, env) /\ Follows(s) /\ Replied(s)
  BY <1>1, <1>2, NoReview
<1> QED BY <1>1, <1>2, <1>3, <1>4, YieldPlace, SaveAndGo DEF Steps

(* Work of a recorded approval is found done.                              *)
LEMMA RecordedWorkKeeps == ASSUME IInv, RecordedWork PROVE IInv'
<1>1. pc = "verdict" BY DEF RecordedWork, Deciding
<1>2. CASE Save(Approved(mem), "yield") BY <1>1, <1>2, SaveApproved DEF Reviewing
<1>3. CASE Fail("failed") BY <1>1, <1>3, FailEnds DEF Holds
<1> QED BY <1>2, <1>3 DEF RecordedWork

(* Luna's approval opens Terra's stage of the same revision.               *)
LEMMA LunaApprovedKeeps == ASSUME IInv, LunaApproved PROVE IInv'
<1> DEFINE s == [mem EXCEPT !.child = <<Rev, "terra">>, !.known = FALSE]
<1>1. pc = "verdict" /\ Stage = "luna" /\ Verdict = "approve" /\ Save(s, "create")
  BY DEF LunaApproved, Proceeding, Deciding
<1>2. /\ mem \in Sessions /\ mem.child = <<Rev, "luna">> /\ Rev \in Revs /\ mem.request = NoRequest
      /\ mem.child \in Cards /\ <<Rev, "terra">> \in Cards /\ NoRequest.card = NoChild
  BY <1>1, DecidingIs, CardFacts DEF Stages
<1>3. /\ s \in Sessions /\ s.child = <<Rev, "terra">> /\ s.request = NoRequest
      /\ s.approved = mem.approved /\ s.journal = mem.journal
  BY <1>2 DEF Sessions
<1> HIDE DEF s
<1>4. PlanOf(s.child) = PlanOf(mem.child) /\ s.child # NoChild /\ mem.child # NoChild
      /\ s.child[1] = mem.child[1]
  BY <1>2, <1>3, PlanFacts, CardFacts
<1>5. Sound(s)
  BY <1>1, <1>2, <1>3, <1>4 DEF IInv, Records, Sound, Planned, Verdict, Child
<1>6. Distinct(s, s) /\ Distinct(s, env)
  BY <1>2, <1>3, <1>4 DEF IInv, Records, Distinct
<1>7. Follows(s) BY <1>1, <1>3 DEF IInv, Follows
<1>8. Replied(s) BY <1>1, <1>2, <1>3 DEF IInv, Replied
<1>9. Place("create", s, s) BY <1>1, <1>3, <1>4, JudgingPlace DEF Judging, Reviewing
<1> QED BY <1>1, <1>3, <1>5, <1>6, <1>7, <1>8, <1>9, SaveAndGo DEF Steps

(* A rejection is recorded as a request before it is sent, and no request  *)
(* for the revision was sent before, unless another one was rejected.      *)
LEMMA RejectedKeeps == ASSUME IInv, Rejected PROVE IInv'
<1>1. pc = "verdict" /\ Verdict = "reject" /\ Decision # "conflict"
  BY DEF Rejected, Proceeding, Deciding
<1>2. CASE Goto("yield") BY <1>1, <1>2, YieldPlace, GoOn DEF Steps
<1>3. ASSUME Save([NoChildOf(mem) EXCEPT !.request = [card |-> mem.child, state |-> "prepared"]], "send")
      PROVE  IInv'
  <2> DEFINE q == [card |-> mem.child, state |-> "prepared"]
             s == [NoChildOf(mem) EXCEPT !.request = q]
  <2>1. mem \in Sessions /\ mem.child \in Cards /\ mem.request = NoRequest /\ mem.request.card = NoChild
    BY <1>1, DecidingIs
  <2>2. q # NoRequest /\ q.card = mem.child /\ q \in [card : Cards, state : {"prepared", "delivered"}]
    BY <2>1, CardFacts DEF NoRequest
  <2>3. /\ NoChildOf(mem) \in Sessions /\ NoChildOf(mem).child = NoChild
        /\ NoChildOf(mem).approved = mem.approved /\ NoChildOf(mem).journal = mem.journal
    BY <2>1, NoChildFacts
  <2>4. Save(s, "send") BY <1>3
  <2> HIDE DEF q
  <2>5. /\ s \in Sessions /\ s.child = NoChild /\ s.request = q
        /\ s.approved = mem.approved /\ s.journal = mem.journal
    BY <2>2, <2>3 DEF Sessions
  <2> HIDE DEF s
  <2>6. Sound(s)
    BY <1>1, <2>1, <2>2, <2>5, CardFacts DEF IInv, Records, Sound, Planned, Verdict, Child
  <2>7. Distinct(s, s) /\ Distinct(s, env) BY <2>5 DEF Distinct
  <2>8. Follows(s) BY <1>1, <2>5 DEF IInv, Follows
  <2>9. Replied(s) BY <1>1, <2>1, CardFacts DEF IInv, Replied
  <2>10. snap.plan = PlanOf(mem.child) BY <1>1, DecidingIs
  <2>11. Asked(Rev) = 0 \/ Another(Rev)
    <3> SUFFICES ASSUME ~Another(Rev) PROVE Asked(Rev) = 0 OBVIOUS
    <3>1. \A c \in Cards : c[1] = Rev => ~(requests[c] > 0) BY <1>1, DecidingIs DEF Open
    <3>2. <<Rev, "luna">> \in Cards /\ <<Rev, "terra">> \in Cards
      BY <1>1, DecidingIs, CardFacts DEF Stages
    <3>3. requests[<<Rev, "luna">>] = 0 /\ requests[<<Rev, "terra">>] = 0
      BY <3>1, <3>2 DEF IInv, TypeOK
    <3> QED BY <3>3 DEF Asked
  <2>12. Place("send", s, s)
    BY <2>2, <2>5, <2>10, <2>11 DEF Place, Reading, Planning, Approving, Sending, Reviewing, Judging,
       OpeningSteps, Rev
  <2> QED BY <1>1, <2>4, <2>5, <2>6, <2>7, <2>8, <2>9, <2>12, SaveAndGo DEF Steps
<1> QED BY <1>2, <1>3 DEF Rejected
(* A session whose approval was attempted.                                 *)
LEMMA AttemptedFacts ==
  ASSUME IInv, pc \in Reviewing, NEW attempt \in {"started", "confirmed"}
  PROVE  /\ Attempted(attempt) \in Sessions /\ Attempted(attempt).child = mem.child
         /\ Attempted(attempt).request = mem.request /\ Attempted(attempt).approved = mem.approved
         /\ Attempted(attempt).journal[Rev] = attempt
         /\ \A r \in Revs : mem.journal[r] # "absent" => Attempted(attempt).journal[r] # "absent"
<1>1. mem \in Sessions /\ Rev \in Revs BY ReviewIs
<1>2. mem.journal \in [Revs -> Attempts] BY <1>1, SessionFacts
<1> DEFINE j == [mem.journal EXCEPT ![Rev] = attempt]
<1>3. j \in [Revs -> Attempts] /\ j[Rev] = attempt /\ \A r \in Revs : j[r] = attempt \/ j[r] = mem.journal[r]
  BY <1>1, <1>2 DEF Attempts
<1>4. Attempted(attempt) = [mem EXCEPT !.journal = j] BY <1>1 DEF Attempted, Sessions
<1> HIDE DEF j
<1>5. /\ Attempted(attempt) \in Sessions /\ Attempted(attempt).child = mem.child
      /\ Attempted(attempt).request = mem.request /\ Attempted(attempt).approved = mem.approved
      /\ Attempted(attempt).journal = j
  BY <1>1, <1>3, <1>4 DEF Sessions
<1> QED BY <1>3, <1>5

(* The attempt is saved before the run goes on with it.                    *)
LEMMA SaveAttempted ==
  ASSUME IInv, pc \in Reviewing, NEW attempt \in {"started", "confirmed"},
         NEW step \in {"approve", "record_approved"}, Save(Attempted(attempt), step),
         mem.child[2] = "terra", children[mem.child].card = "approve",
         \A c \in Cards : Open(c) => Rev # c[1],
         step = "approve" => approvals[Rev] = 0
  PROVE  IInv'
<1> DEFINE s == Attempted(attempt)
<1>1. /\ s \in Sessions /\ s.child = mem.child
      /\ s.request = mem.request /\ s.approved = mem.approved
      /\ s.journal[Rev] = attempt
      /\ \A r \in Revs : mem.journal[r] # "absent" => s.journal[r] # "absent"
  BY AttemptedFacts
<1>2. pc # "idle" /\ mem.request = NoRequest /\ mem.child # NoChild BY ReviewIs, CardFacts DEF Reviewing
<1>3. Save(s, step) OBVIOUS
<1> HIDE DEF s
<1>4. Sound(s) /\ Distinct(s, s) /\ Distinct(s, env) /\ Follows(s) /\ Replied(s)
  BY <1>1, <1>2, SameReview
<1>5. Place(step, s, s)
  BY <1>1, <1>2 DEF Place, Reading, Planning, Approving, Sending, Reviewing, Judging, OpeningSteps, Rev
<1> QED BY <1>1, <1>2, <1>3, <1>4, <1>5, SaveAndGo DEF Steps

(* Only an approval without an attempt on record is executed.              *)
LEMMA ExecutesUnstarted ==
  ASSUME Attempt \in Attempts, Disposition = "execute"
  PROVE  Attempt = "absent"
<1>1. CASE Attempt = "started"
  <2>1. Lifecycle.effect = "started" /\ Lifecycle.review = "resolved" /\ Lifecycle.reviewer = "terra"
        /\ Lifecycle.verdict = "approve"
    BY <1>1 DEF Lifecycle
  <2>2. ReduceJulesLifecycle(Lifecycle, "run_interrupted") = "reconcile_effect"
    BY <2>1 DEF ReduceJulesLifecycle, DecideInterrupted
  <2>3. NativePlanEffectForReconciliation(Lifecycle, "approve_plan") = "approve_plan"
    BY <2>1 DEF NativePlanEffectForReconciliation
  <2>4. Disposition = "reconcile"
    BY <1>1, <2>2, <2>3 DEF Disposition, RunJulesLifecycle, NativePlanEffects
  <2> QED BY <2>4
<1>2. CASE Attempt = "confirmed"
  <2>1. Lifecycle.effect = "confirmed" /\ Lifecycle.review = "resolved"
    BY <1>2 DEF Lifecycle
  <2>2. ReduceJulesLifecycle(Lifecycle, "heartbeat") \in {"complete_issue", "poll_provider"}
    BY <2>1 DEF ReduceJulesLifecycle, DecideHeartbeat, DecideAwaitingPlan
  <2>3. Disposition = "defer"
    BY <1>2, <2>2 DEF Disposition, RunJulesLifecycle, NativePlanEffects
  <2> QED BY <2>3
<1> QED BY <1>1, <1>2 DEF Attempts

(* Terra's approval is noted in the journal before it is sent, and only    *)
(* where nothing was sent before.                                          *)
LEMMA TerraApprovedKeeps == ASSUME IInv, TerraApproved PROVE IInv'
<1>1. pc = "verdict" /\ Stage = "terra" /\ Verdict = "approve" /\ pc \in Reviewing
  BY DEF TerraApproved, TerraActs, TerraApproves, Proceeding, Deciding, Reviewing
<1>2. /\ mem.child[2] = "terra" /\ children[mem.child].card = "approve"
      /\ \A c \in Cards : Open(c) => Rev # c[1]
      /\ mem.child # NoChild /\ mem.request = NoRequest /\ Rev \in Revs /\ Attempt \in Attempts
  BY <1>1, DecidingIs, CardFacts DEF Stage, Verdict, Child
<1>3. CASE Disposition = "execute" /\ Save(Attempted("started"), "approve")
  <2>1. mem.journal[Rev] = "absent" BY <1>2, <1>3, ExecutesUnstarted DEF Attempt
  <2>2. disk.journal[Rev] = "absent" BY <1>1, <1>2, <2>1 DEF IInv, Follows
  <2>3. approvals[Rev] = 0
    BY <1>1, <1>2, <2>2 DEF IInv, Journaled, ByHand, TypeOK
  <2> QED BY <1>1, <1>2, <1>3, <2>3, SaveAttempted
<1>4. CASE Save(Attempted("confirmed"), "record_approved")
  BY <1>1, <1>2, <1>4, SaveAttempted
<1>5. CASE Goto("yield") BY <1>1, <1>5, YieldPlace, GoOn DEF Steps
<1>6. CASE Goto("record_approved")
  <2>1. Place("record_approved", mem, disk)
    BY <1>2 DEF Place, Reading, Planning, Approving, Sending, Reviewing, Judging, OpeningSteps, Rev
  <2> QED BY <1>1, <1>6, <2>1, GoOn DEF Steps
<1> QED BY <1>3, <1>4, <1>5, <1>6 DEF TerraApproved

(* Terra's approval waits.                                                 *)
LEMMA TerraWaitsKeeps == ASSUME IInv, TerraWaits PROVE IInv'
BY YieldPlace, GoOn DEF TerraWaits, TerraApproves, Proceeding, Deciding, Steps

(* Jules takes an approval of a revision.                                  *)
LEMMA AcceptFacts ==
  ASSUME IInv, NEW r \in Revs, Approvable(jules), Accept(r), UNCHANGED <<board, echoes, requests, snap, hold>>
  PROVE  /\ approvals' \in [Revs -> Nat] /\ witness' \subseteq Plans
         /\ \A x \in Revs : approvals'[x] > 0 => x = r \/ approvals[x] > 0
         /\ jules' \in [state : JulesStates, out : Outputs, plan : Plans \cup {NoPlan}, asked : BOOLEAN]
         /\ jules'.plan = jules.plan /\ jules'.out = jules.out /\ jules'.state = "IN_PROGRESS"
         /\ Monotone /\ Board' /\ Output'
<1>1. /\ approvals' = [approvals EXCEPT ![r] = @ + 1]
      /\ jules' = [jules EXCEPT !.state = "IN_PROGRESS", !.asked = FALSE]
      /\ witness' = witness \cup {jules.plan}
      /\ UNCHANGED <<children, available, planOf, lastRev>>
  BY DEF Accept, board
<1>2. /\ jules' \in [state : JulesStates, out : Outputs, plan : Plans \cup {NoPlan}, asked : BOOLEAN]
      /\ jules'.plan = jules.plan /\ jules'.out = jules.out /\ jules'.state = "IN_PROGRESS"
  BY <1>1 DEF IInv, TypeOK, JulesStates
<1>3. approvals' \in [Revs -> Nat] /\ \A x \in Revs : approvals'[x] > 0 => x = r \/ approvals[x] > 0
  BY <1>1 DEF IInv, TypeOK
<1>4. Monotone BY <1>1, <1>2 DEF Monotone, IInv, TypeOK, Revs, Plans, NoPlan
<1>5. Board' BY <1>1 DEF IInv, Board, Untouched, Posting, Climbed, Unread
<1>6. Output' BY <1>1, <1>2 DEF IInv, Output, Approvable
<1>7. jules.plan \in Plans BY DEF IInv, Output, TypeOK, Approvable
<1>8. witness' \subseteq Plans BY <1>1, <1>7 DEF IInv, TypeOK
<1> QED BY <1>2, <1>3, <1>4, <1>5, <1>6, <1>8
(* The approval is sent where both reviewers approved, it is on record,    *)
(* and none was sent before.                                               *)
LEMMA ApproveIs ==
  ASSUME IInv, pc \in {"approve", "confirm", "record_approved"}
  PROVE  /\ mem.child \in Cards /\ Rev \in Revs /\ mem.child = <<Rev, "terra">>
         /\ \A stage \in Stages : children[<<Rev, stage>>].card = "approve"
         /\ pc \in {"approve", "confirm"} => disk.journal[Rev] # "absent"
         /\ pc = "approve" => approvals[Rev] = 0
<1>1. mem.child \in Cards /\ Rev \in Revs /\ mem.child = <<Rev, Stage>> BY ReviewIs DEF Reviewing
<1>2. /\ mem.child[2] = "terra" /\ children[mem.child].card = "approve"
      /\ pc \in {"approve", "confirm"} => disk.journal[Rev] # "absent"
      /\ pc = "approve" => approvals[Rev] = 0
  BY PlaceIs DEF Approving, Rev
<1>3. mem.child = <<Rev, "terra">> BY <1>1, <1>2 DEF Stage
<1>4. children[<<Rev, "luna">>].card = "approve" BY <1>2 DEF IInv, Records, Sound, Rev
<1> QED BY <1>1, <1>2, <1>3, <1>4 DEF Stages

(* See ApproveIs.                                                          *)
LEMMA ApprovePlanKeeps == ASSUME IInv, ApprovePlan PROVE IInv'
<1>1. pc = "approve" BY DEF ApprovePlan
<1>2. CASE ~Approvable(jules) /\ Fail("failed") BY <1>1, <1>2, FailEnds DEF Holds
<1>3. ASSUME Approvable(jules), Accept(Rev), Answer("confirm"),
             UNCHANGED <<session, snap, target, hold, board, echoes, requests, adoption>>
      PROVE  IInv'
  <2>1. Rev \in Revs BY <1>1, ApproveIs
  <2>2. PICK r \in Revs : r = Rev BY <2>1
  <2>3. /\ approvals' \in [Revs -> Nat] /\ witness' \subseteq Plans
        /\ \A x \in Revs : approvals'[x] > 0 => x = r \/ approvals[x] > 0
        /\ jules' \in [state : JulesStates, out : Outputs, plan : Plans \cup {NoPlan}, asked : BOOLEAN]
        /\ Monotone /\ Board' /\ Output'
    BY <1>3, <2>2, AcceptFacts
  <2>4. pc' \in {"confirm", "yield"} /\ faults' \in 0..MaxFaults
    BY <1>3, FaultCounts DEF Answer, IInv, TypeOK
  <2>5. UNCHANGED <<disk, env, mem, children, available, planOf, lastRev>> BY <1>3 DEF session, board
  <2>6. TypeOK' BY <1>3, <2>3, <2>4, <2>5 DEF IInv, TypeOK, Steps
  <2>7. Journaled'
    BY <1>1, <1>3, <2>2, <2>3, <2>5, ApproveIs DEF IInv, Journaled
  <2>8. Sent' BY <1>3, <2>3, <2>6, SentStays DEF IInv
  <2>9. Remembered(disk)' /\ Replied(mem)' BY <1>1, <1>3, <2>3, <2>6, RequestsStay DEF IInv
  <2>10. Reading(pc, mem, disk) /\ Approving(pc, mem, disk) BY PlaceIs
  <2>11. Place(pc, mem, disk)'
    BY <1>1, <1>3, <2>4, <2>5, <2>10 DEF Place, Reading, Planning, Approving, Sending, Open, Another,
       Reviewing, Judging, OpeningSteps
  <2> QED BY <1>1, <1>3, <2>3, <2>4, <2>6, <2>7, <2>8, <2>9, <2>11, MoveStep
<1> QED BY <1>2, <1>3 DEF ApprovePlan

(* The approval is confirmed, and the review is over.                      *)
LEMMA ConfirmKeeps == ASSUME IInv, ConfirmApprove \/ RecordApproved PROVE IInv'
<1>1. pc \in {"confirm", "record_approved"} BY DEF ConfirmApprove, RecordApproved
<1>2. CASE RecordApproved BY <1>1, <1>2, SaveApproved DEF RecordApproved, Reviewing
<1>3. CASE ConfirmApprove
  <2>1. /\ mem.child[2] = "terra" /\ children[mem.child].card = "approve"
        /\ \A c \in Cards : Open(c) => Rev # c[1]
    BY <1>1, PlaceIs DEF Approving, Reading, Judging, Reviewing, Rev
  <2> QED BY <1>1, <1>3, <2>1, SaveAttempted DEF ConfirmApprove, Reviewing
<1> QED BY <1>2, <1>3

(* What is on record while a request is sent.                              *)
LEMMA SendIs ==
  ASSUME IInv, pc \in {"send", "record_request"}
  PROVE  /\ disk = mem /\ mem \in Sessions /\ mem.request # NoRequest /\ mem.request.card \in Cards
         /\ children[mem.request.card].card = "reject" /\ mem.request.card[1] <= lastRev
         /\ snap.plan = planOf[mem.request.card[1]] /\ snap.plan \in Plans /\ snap.plan <= jules.plan
         /\ pc = "send" => Asked(mem.request.card[1]) = 0 \/ Another(mem.request.card[1])
<1>1. /\ disk = mem /\ mem.request # NoRequest /\ snap.plan = PlanOf(mem.request.card)
      /\ pc = "send" => Asked(mem.request.card[1]) = 0 \/ Another(mem.request.card[1])
  BY PlaceIs DEF Sending
<1>2. mem \in Sessions /\ mem.request.card \in Cards /\ mem.request.card # NoChild
  BY <1>1, SessionFacts, CardFacts DEF IInv, TypeOK
<1>3. /\ children[mem.request.card].card = "reject" /\ mem.request.card[1] <= lastRev
      /\ snap.plan # NoPlan
  BY <1>1, <1>2 DEF IInv, Records, Sound, Planned
<1>4. snap.plan = planOf[mem.request.card[1]] BY <1>1, <1>2, PlanFacts
<1>5. snap.plan \in Plans /\ snap.plan <= jules.plan BY <1>3 DEF IInv, TypeOK, Output
<1> QED BY <1>1, <1>2, <1>3, <1>4, <1>5

(* A request is sent while it is on record, for the plan Jules shows.      *)
LEMMA SendRequestKeeps == ASSUME IInv, SendRequest PROVE IInv'
<1>1. pc = "send" BY DEF SendRequest
<1>2. CASE Fail("polling") BY <1>1, <1>2, FailEnds DEF Holds
<1>3. ASSUME requests' = [requests EXCEPT ![mem.request.card] = @ + 1],
             jules' = [jules EXCEPT !.asked = TRUE], Answer("record_request"),
             UNCHANGED <<session, snap, target, hold, board, witness, echoes, approvals, adoption>>
      PROVE  IInv'
  <2>1. UNCHANGED <<disk, env, mem, children, available, planOf, lastRev>> BY <1>3 DEF session, board
  <2>2. PICK s \in Cards : s = mem.request.card BY <1>1, SendIs
  <2>3. requests' \in [Cards -> Nat] /\ \A c \in Cards : requests'[c] > 0 => c = s \/ requests[c] > 0
    BY <1>3, <2>2 DEF IInv, TypeOK
  <2>4. /\ jules' \in [state : JulesStates, out : Outputs, plan : Plans \cup {NoPlan}, asked : BOOLEAN]
        /\ jules'.plan = jules.plan /\ jules'.out = jules.out /\ jules'.state = jules.state
    BY <1>3 DEF IInv, TypeOK
  <2>5. pc' \in {"record_request", "yield"} /\ faults' \in 0..MaxFaults
    BY <1>3, FaultCounts DEF Answer, IInv, TypeOK
  <2>6. TypeOK' BY <1>3, <2>1, <2>3, <2>4, <2>5 DEF IInv, TypeOK, Steps
  <2>7. Monotone BY <2>1, <2>4 DEF Monotone, IInv, TypeOK, Revs, Plans, NoPlan
  <2>8. Board' BY <2>1 DEF IInv, Board, Untouched, Posting, Climbed, Unread
  <2>9. Output' BY <1>3, <2>4 DEF IInv, Output
  <2>10. Journaled' BY <1>3, <2>1, <2>7, JournalStays DEF IInv
  <2>11. Sent'
    <3>1. snap.plan \in Nat BY <1>1, SendIs DEF Plans
    <3>2. ASSUME NEW c \in Cards, requests'[c] > 0
          PROVE  /\ children[c].card = "reject" /\ c[1] <= lastRev
                 /\ planOf[c[1]] \in Plans /\ planOf[c[1]] <= jules.plan
                 /\ snap.plan # NoPlan => planOf[c[1]] <= snap.plan
      <4>1. CASE c = s BY <1>1, <2>2, <3>1, <4>1, SendIs
      <4>2. CASE requests[c] > 0 BY <4>2 DEF IInv, Sent
      <4> QED BY <2>3, <3>2, <4>1, <4>2
    <3> QED BY <1>3, <2>1, <2>4, <3>2 DEF Sent
  <2>12. \A c \in Cards : c # s /\ Open(c)' => Open(c)
    BY <2>1, <2>3 DEF Open, Another
  <2>13. disk.request.card = s /\ mem.request.card = s BY <1>1, <2>2, SendIs
  <2>14. Remembered(disk)' BY <2>1, <2>4, <2>12, <2>13 DEF IInv, Remembered
  <2>15. Replied(mem)' BY <1>1, <1>3, <2>1, <2>4, <2>12, <2>13 DEF IInv, Replied
  <2>16. Sending(pc, mem, disk) BY PlaceIs
  <2>17. Place(pc, mem, disk)'
    BY <1>1, <1>3, <2>1, <2>5, <2>16 DEF Place, Reading, Planning, Approving, Sending, PlanOf,
       Reviewing, Judging, OpeningSteps
  <2> QED BY <1>1, <1>3, <2>5, <2>6, <2>7, <2>8, <2>9, <2>10, <2>11, <2>14, <2>15, <2>17, MoveStep
<1> QED BY <1>2, <1>3 DEF SendRequest

(* The request is recorded as delivered.                                   *)
LEMMA RecordRequestKeeps == ASSUME IInv, RecordRequest PROVE IInv'
<1>1. pc = "record_request" /\ Save(Delivered, "yield") BY DEF RecordRequest
<1>2. mem.request # NoRequest BY <1>1, SendIs
<1> QED BY <1>1, <1>2, DeliveredFacts, SameReview, YieldPlace, SaveAndGo DEF Steps
-----------------------------------------------------------------------------
(* No review is under way.                                                 *)

(* A plan that needs no review, or is approved.                            *)
LEMMA PlanNotDueKeeps == ASSUME IInv, PlanNotDue PROVE IInv'
BY YieldPlace, GoOn DEF PlanNotDue, Steps

(* A review is opened for the plan that the run has read.                  *)
LEMMA OpenReviewKeeps == ASSUME IInv, OpenReview PROVE IInv'
<1> DEFINE plan == IF snap.plan = NoPlan THEN Placeholder ELSE snap.plan
           t == [plan |-> plan, rev |-> 0]
<1>0. PICK s : s = [mem EXCEPT !.superseded = NoPlan] OBVIOUS
<1>1. /\ pc = "plan" /\ mem.approved = NoPlan /\ mem' = s /\ disk' = s /\ target' = t
      /\ pc' = "save_document"
      /\ UNCHANGED <<env, snap, hold, provider, board, adoption, faults>>
      /\ UNCHANGED <<approvals, requests, children, planOf, lastRev>>
  BY <1>0 DEF OpenReview, provider, board
<1>2. /\ s \in Sessions /\ s.child = mem.child /\ s.request = mem.request
      /\ s.approved = mem.approved /\ s.journal = mem.journal
  BY <1>0 DEF IInv, TypeOK, Sessions
<1>3. t \in [plan : PlanIds \cup {NoPlan}, rev : Revs \cup {0}] /\ t.plan = plan
  BY ChildReviewAssumption DEF IInv, TypeOK, PlanIds, Plans, NoPlan, Placeholder
<1> HIDE DEF t
<1>4. TypeOK' BY <1>1, <1>2, <1>3 DEF IInv, TypeOK, provider, board, Steps
<1>5. Sound(s) /\ Distinct(s, s) /\ Distinct(s, env) /\ Follows(s) /\ Replied(s)
  BY <1>1, <1>2, SameReview
<1>6. Planning(pc, mem) BY PlaceIs
<1>7. Place("save_document", s, s)'
  BY <1>1, <1>2, <1>3, <1>6 DEF Place, Reading, Planning, Approving, Sending, PlanOf,
     Reviewing, Judging, OpeningSteps
<1> QED BY <1>1, <1>2, <1>4, <1>5, <1>7, SaveStep DEF Steps

(* The plan is saved as the newest revision of the document.               *)
LEMMA SaveDocumentKeeps == ASSUME IInv, SaveDocument PROVE IInv'
<1>1. /\ pc = "save_document" /\ planOf' = [planOf EXCEPT ![lastRev'] = target.plan]
      /\ target' = [target EXCEPT !.rev = lastRev'] /\ Answer("open_luna")
      /\ UNCHANGED <<session, snap, hold, provider, children, available, adoption>>
      /\ UNCHANGED <<disk, env, mem, jules, approvals, requests>>
  BY DEF SaveDocument, session, provider
<1>2. \/ lastRev < MaxRevs /\ lastRev' = lastRev + 1
      \/ lastRev > 0 /\ planOf[lastRev] = target.plan /\ lastRev' = lastRev
  BY DEF SaveDocument
<1>3. lastRev \in Nat /\ lastRev' \in Nat /\ lastRev' \in Revs /\ lastRev' >= lastRev
  BY <1>2, ChildReviewAssumption DEF IInv, TypeOK, Revs
<1>4. /\ planOf' \in [Revs -> PlanIds \cup {NoPlan}] /\ planOf'[lastRev'] = target.plan
      /\ \A r \in Revs : r # lastRev' => planOf'[r] = planOf[r]
  BY <1>1, <1>3 DEF IInv, TypeOK
<1>5. target' \in [plan : PlanIds \cup {NoPlan}, rev : Revs \cup {0}]
      /\ target'.plan = target.plan /\ target'.rev = lastRev'
  BY <1>1, <1>3 DEF IInv, TypeOK
<1>6. pc' \in {"open_luna", "yield"} /\ faults' \in 0..MaxFaults
  BY <1>1, FaultCounts DEF Answer, IInv, TypeOK
<1>7. TypeOK' BY <1>1, <1>3, <1>4, <1>5, <1>6 DEF IInv, TypeOK, provider, Steps
<1>8. \A r \in Revs : r <= lastRev => planOf'[r] = planOf[r]
  <2> SUFFICES ASSUME NEW r \in Revs, r <= lastRev PROVE planOf'[r] = planOf[r] OBVIOUS
  <2>1. CASE lastRev' = lastRev + 1 BY <1>3, <1>4, <2>1 DEF Revs
  <2>2. CASE planOf[lastRev] = target.plan /\ lastRev' = lastRev BY <1>4, <2>2
  <2> QED BY <1>2, <2>1, <2>2
<1>9. Monotone BY <1>1, <1>3, <1>8 DEF Monotone, IInv, TypeOK, Plans, NoPlan
<1>10. Board'
  <2>1. Unread' BY <1>3, <1>4 DEF IInv, Board, Unread, Revs
  <2> QED BY <1>1, <2>1 DEF IInv, Board, Untouched, Posting, Climbed
<1>11. Output' BY <1>1 DEF IInv, Output
<1>12. Journaled' BY <1>1, <1>9, JournalStays DEF IInv
<1>13. Sent' BY <1>1, <1>7, <1>9, SentStays DEF IInv
<1>14. Remembered(disk)' /\ Replied(mem)' BY <1>1, <1>7, <1>9, RequestsStay DEF IInv
<1>15. PlanOf(env.request.card)' = PlanOf(env.request.card)
  <2>1. Planned(env.request.card) /\ env.request.card \in Cards \cup {NoChild}
    BY SessionFacts DEF IInv, TypeOK, Records, Sound
  <2> QED BY <1>1, <1>8, <2>1, CardFacts DEF PlanOf, Planned
<1>16. target'.rev \in 1..lastRev' BY <1>3, <1>5 DEF Revs
<1>17. Planning(pc, mem) BY PlaceIs
<1>18. Place(pc, mem, disk)'
  BY <1>1, <1>4, <1>5, <1>6, <1>15, <1>16, <1>17 DEF Place, Reading, Planning, Approving, Sending,
     Reviewing, Judging, OpeningSteps
<1> QED BY <1>1, <1>6, <1>7, <1>9, <1>10, <1>11, <1>12, <1>13, <1>14, <1>18, MoveStep

(* Luna's review of the saved revision is taken up: it is neither decided  *)
(* in a record nor asked to be replaced.                                   *)
LEMMA OpenLunaKeeps == ASSUME IInv, OpenLuna PROVE IInv'
<1> DEFINE s == [mem EXCEPT !.child = <<target.rev, "luna">>, !.known = FALSE]
<1>1. pc = "open_luna" /\ Save(s, "create") BY DEF OpenLuna
<1>2. /\ mem.child = NoChild /\ mem.request = NoRequest /\ mem.approved = NoPlan
      /\ env.request # NoRequest => snap.plan \notin {NoPlan, PlanOf(env.request.card)}
      /\ target.plan = IF snap.plan = NoPlan THEN Placeholder ELSE snap.plan
      /\ target.rev \in 1..lastRev /\ planOf[target.rev] = target.plan
  BY <1>1, PlaceIs DEF Planning, OpeningSteps
<1>3. mem \in Sessions /\ env \in Sessions /\ snap.plan \in Plans \cup {NoPlan} /\ lastRev \in Revs \cup {0}
  BY DEF IInv, TypeOK
<1>4. target.rev \in Revs /\ target.rev <= lastRev
  BY <1>2, <1>3, ChildReviewAssumption DEF Revs
<1>5. target.plan # NoPlan
  BY <1>2, ChildReviewAssumption DEF Placeholder, NoPlan
<1>6. <<target.rev, "luna">> \in Cards /\ <<target.rev, "luna">> # NoChild
  BY <1>4, CardFacts DEF Stages
<1>7. /\ s \in Sessions /\ s.child = <<target.rev, "luna">> /\ s.request = NoRequest
      /\ s.approved = NoPlan /\ s.journal = mem.journal /\ NoRequest.card = NoChild
  BY <1>2, <1>3, <1>6 DEF Sessions, NoRequest
<1> HIDE DEF s
<1>8. PlanOf(s.child) = target.plan BY <1>2, <1>6, <1>7, PlanFacts
<1>9. Sound(s) BY <1>4, <1>5, <1>7, <1>8 DEF Sound, Planned
<1>10. Distinct(s, s) BY <1>5, <1>7, <1>8, PlanFacts DEF Distinct
<1>11. Distinct(s, env)
  <2>1. env.approved = NoPlan BY <1>1, <1>2 DEF IInv, Follows
  <2>2. PlanOf(env.request.card) # target.plan
    <3>1. CASE env.request = NoRequest BY <1>5, <1>7, <3>1, PlanFacts
    <3>2. CASE env.request # NoRequest BY <1>2, <3>2
    <3> QED BY <3>1, <3>2
  <2> QED BY <1>5, <1>8, <2>1, <2>2 DEF Distinct
<1>12. Follows(s) BY <1>1, <1>2, <1>7 DEF IInv, Follows
<1>13. Replied(s) BY <1>1, <1>2, <1>7 DEF IInv, Replied
<1>14. \A c \in Cards : Open(c) => target.rev # c[1]
  <2> SUFFICES ASSUME NEW c \in Cards, Open(c), target.rev = c[1] PROVE FALSE OBVIOUS
  <2>1. planOf[c[1]] # snap.plan /\ planOf[c[1]] \in Plans
    BY <1>1, <1>2, <1>7, CardFacts DEF IInv, Replied, Sent, Open
  <2> QED BY <1>2, <2>1, ChildReviewAssumption DEF Plans, Placeholder
<1>15. Place("create", s, s)
  BY <1>6, <1>7, <1>14 DEF Place, Reading, Planning, Approving, Sending, Reviewing, Judging, OpeningSteps
<1> QED BY <1>1, <1>7, <1>9, <1>10, <1>11, <1>12, <1>13, <1>15, SaveAndGo DEF Steps

-----------------------------------------------------------------------------
(* How a run ends.                                                         *)

(* A run yields and returns.                                               *)
LEMMA YieldKeeps == ASSUME IInv, YieldHeartbeat PROVE IInv'
<1>1. pc # "idle" /\ Save(mem, "return") /\ mem \in Sessions BY DEF YieldHeartbeat, IInv, TypeOK
<1> QED BY <1>1, SameReview, YieldPlace, SaveAndGo DEF Steps

(* The type of a run that ended.                                           *)
LEMMA EndType ==
  ASSUME TypeOK, EndRun, env' \in {env, mem}, hold' \in Holds, faults' \in 0..MaxFaults,
         UNCHANGED <<disk, provider, board, adoption>>
  PROVE  TypeOK'
BY NewSessionFacts DEF TypeOK, EndRun, provider, board, Steps, NoSnapshot, JulesStates,
   Outputs, Plans, NoPlan, NoTarget, PlanIds

(* See YieldKeeps.                                                         *)
LEMMA ReturnKeeps == ASSUME IInv, Return PROVE IInv'
<1>1. pc # "idle" /\ EndRun /\ env' \in {env, mem}
      /\ UNCHANGED <<disk, provider, board, adoption, hold, faults>>
  BY DEF Return
<1>2. TypeOK' BY <1>1, EndType DEF IInv, TypeOK
<1> QED BY <1>1, <1>2, EndStep DEF IInv, Output

(* A run is cut off.                                                       *)
LEMMA CrashKeeps == ASSUME IInv, Crash PROVE IInv'
<1>1. pc # "idle" /\ EndRun /\ env' \in {env, mem} /\ hold' \in {"none", "shutdown"}
      /\ UNCHANGED <<disk, provider, board, adoption>> /\ faults' \in 0..MaxFaults
  BY FaultCounts DEF Crash, IInv
<1>2. TypeOK' BY <1>1, EndType DEF IInv, Holds
<1> QED BY <1>1, <1>2, EndStep

(* The history cannot be read to its end.                                  *)
LEMMA IncompleteHistoryKeeps == ASSUME IInv, IncompleteHistory PROVE IInv'
<1>1. pc # "idle" /\ Held("conflict") /\ faults' \in 0..MaxFaults
  BY FaultCounts DEF IncompleteHistory, IInv
<1> QED BY <1>1, HeldEnds DEF Holds

(* A call is lost before it takes effect.                                  *)
LEMMA RequestLostKeeps == ASSUME IInv, RequestLost PROVE IInv'
<1>1. pc # "idle" /\ pc' = "yield" /\ faults' \in 0..MaxFaults
      /\ UNCHANGED <<session, snap, target, hold, provider, board, adoption>>
  BY FaultCounts DEF RequestLost, IInv
<1>2. TypeOK' BY <1>1 DEF IInv, TypeOK, session, provider, board, Steps
<1>3. Monotone /\ Board' BY <1>1, StandsStill DEF IInv, provider
<1> QED BY <1>1, <1>2, <1>3, YieldPlace, WalkStep DEF Steps
-----------------------------------------------------------------------------
(* The runs of the children, people and Jules.                             *)

(* A step of a child that exists.                                          *)
LEMMA ChildStep ==
  ASSUME IInv, NEW c \in Cards, NEW issue \in ChildIssues,
         Child_(c, issue), BoardOnly, available' = available, faults' \in 0..MaxFaults,
         children[c] # NoIssue, issue.status # "absent", issue.run = "post" => issue.card = "none",
         children[c].card \in Answers => issue.card = children[c].card
  PROVE  IInv'
<1>1. /\ children' = [children EXCEPT ![c] = issue] /\ UNCHANGED <<planOf, lastRev, jules>>
      /\ UNCHANGED <<session, run, hold, provider, adoption>>
      /\ UNCHANGED <<approvals, requests, witness, echoes>>
  BY DEF Child_, BoardOnly, provider
<1>2. Monotone /\ Board' /\ children' \in [Cards -> ChildIssues]
  BY <1>1, OneChild DEF IInv
<1>3. TypeOK' BY <1>1, <1>2 DEF IInv, TypeOK, session, run
<1>4. Output' BY <1>1 DEF IInv, Output, run
<1> QED BY <1>1, <1>2, <1>3, <1>4, QuietStep

(* A child with a run or with a card exists.                               *)
LEMMA IssueIs ==
  ASSUME IInv, NEW c \in Cards
  PROVE  /\ Issue(c) = children[c] /\ Issue(c) \in ChildIssues
         /\ Issue(c).run # "none" \/ Issue(c).card # "none" =>
              children[c] # NoIssue /\ Issue(c).status # "absent"
BY DEF Issue, IInv, TypeOK, Board, Untouched, NoIssue

(* What a run leaves of its child when it ends.                            *)
LEMMA EndedIssue ==
  ASSUME NEW i \in ChildIssues, NEW status \in {"blocked", "done"},
         NEW attempt \in {"none", "cancelled", "succeeded", "failed"}
  PROVE  [i EXCEPT !.run = "none", !.status = status, !.attempt = attempt] \in ChildIssues
BY DEF ChildIssues

(* See EndedIssue, with the status written first.                          *)
LEMMA EndedIssueDone ==
  ASSUME NEW i \in ChildIssues, NEW status \in {"blocked", "done"},
         NEW attempt \in {"none", "cancelled", "succeeded", "failed"}
  PROVE  [i EXCEPT !.status = status, !.run = "none", !.attempt = attempt] \in ChildIssues
BY DEF ChildIssues

(* What a verdict leaves of the child.                                     *)
LEMMA AnsweredIssue ==
  ASSUME NEW i \in ChildIssues, NEW verdict \in {"approve", "reject"}
  PROVE  [i EXCEPT !.card = verdict, !.run = "finish"] \in ChildIssues
BY DEF ChildIssues

(* A queued run starts, or is cancelled.                                   *)
LEMMA QueuedKeeps ==
  ASSUME IInv, NEW c \in Cards, StartChildRun(c) \/ CancelChildRun(c)
  PROVE  IInv'
<1>1. CASE StartChildRun(c)
  <2> DEFINE next == IF Issue(c).owner = "boot" THEN "check" ELSE "review"
             issue == [Issue(c) EXCEPT !.run = next]
  <2>1. /\ Issue(c).run = "queued" /\ Child_(c, issue) /\ BoardOnly
        /\ available' = available /\ faults' \in 0..MaxFaults
    BY <1>1 DEF StartChildRun, IInv, TypeOK
  <2>2. issue \in ChildIssues /\ issue.run # "post" /\ issue.card = Issue(c).card /\ issue.status = Issue(c).status
    BY IssueIs DEF ChildIssues
  <2> HIDE DEF issue
  <2> QED BY <2>1, <2>2, IssueIs, ChildStep
<1>2. CASE CancelChildRun(c)
  <2> DEFINE attempt == IF Issue(c).owner = "reviewer" THEN "cancelled" ELSE Issue(c).attempt
             issue == [Issue(c) EXCEPT !.run = "none", !.status = "blocked", !.attempt = attempt]
  <2>1. /\ Issue(c).run = "queued" /\ BoardOnly /\ available' = available /\ faults' \in 0..MaxFaults
    BY <1>2, FaultCounts DEF CancelChildRun, IInv
  <2>2. Child_(c, issue) BY <1>2 DEF CancelChildRun
  <2>3. issue \in ChildIssues
    <3>1. Issue(c) \in ChildIssues BY IssueIs
    <3>2. attempt \in {"none", "cancelled", "succeeded", "failed"} BY <3>1 DEF ChildIssues
    <3> HIDE DEF attempt
    <3> QED BY <3>1, <3>2, EndedIssue
  <2>4. issue.run # "post" /\ issue.card = Issue(c).card /\ issue.status # "absent"
    BY IssueIs DEF ChildIssues
  <2> HIDE DEF issue
  <2> QED BY <2>1, <2>2, <2>3, <2>4, IssueIs, ChildStep
<1> QED BY <1>1, <1>2

(* What a failed or a parked bootstrap run leaves.                         *)
LEMMA BootFacts ==
  ASSUME IInv, NEW c \in Cards
  PROVE  /\ BootFailed(c) \in ChildIssues /\ BootFailed(c).run = "none"
         /\ BootFailed(c).card = Issue(c).card /\ BootFailed(c).status = Issue(c).status
         /\ \A step \in {"park", "end"} :
              /\ Parked(c, step) \in ChildIssues /\ Parked(c, step).run = step
              /\ Parked(c, step).card = Issue(c).card /\ Parked(c, step).status = "backlog"
<1> DEFINE source == IF Issue(c).source = "live" THEN "failed" ELSE Issue(c).source
<1>1. BootFailed(c) = [Issue(c) EXCEPT !.run = "none", !.source = source] BY DEF BootFailed
<1>2. Issue(c) \in ChildIssues /\ source \in {"none", "live", "succeeded", "failed"}
  BY IssueIs DEF ChildIssues
<1> HIDE DEF source
<1>3. BootFailed(c) \in ChildIssues BY <1>1, <1>2 DEF ChildIssues
<1>4. /\ BootFailed(c).run = "none"
      /\ BootFailed(c).card = Issue(c).card /\ BootFailed(c).status = Issue(c).status
  BY <1>1, <1>2 DEF ChildIssues
<1>5. ASSUME NEW step \in {"park", "end"}
      PROVE  /\ Parked(c, step).run = step
             /\ Parked(c, step).card = Issue(c).card /\ Parked(c, step).status = "backlog"
  BY <1>2 DEF Parked, ChildIssues
<1>6. ASSUME NEW step \in {"park", "end"} PROVE Parked(c, step) \in ChildIssues
  BY <1>2 DEF Parked, ChildIssues
<1> QED BY <1>3, <1>4, <1>5, <1>6

(* The bootstrap run of a child posts one card and parks the child.        *)
LEMMA BootstrapKeeps ==
  ASSUME IInv, NEW c \in Cards, Bootstrap(c)
  PROVE  IInv'
<1>1. BoardOnly /\ available' = available /\ faults' \in 0..MaxFaults
  BY DEF Bootstrap, BootCheck, BootPost, BootPark, BootEnd, IInv, TypeOK
<1>2. Issue(c).run # "none"
  BY DEF Bootstrap, BootCheck, BootPost, BootPark, BootEnd
<1>3. Issue(c).run = "post" => Issue(c).card = "none"
  BY IssueIs DEF IInv, Board, Posting
<1>4. \E issue \in ChildIssues :
        /\ Child_(c, issue) /\ issue.status # "absent"
        /\ issue.run = "post" => issue.card = "none"
        /\ Issue(c).card \in Answers => issue.card = Issue(c).card
  <2> DEFINE park == [Issue(c) EXCEPT !.run = "park"]
             post == [Issue(c) EXCEPT !.run = "post"]
             card == [Issue(c) EXCEPT !.card = "pending", !.source = "live", !.run = "park"]
             source == IF Issue(c).source = "live" THEN "succeeded" ELSE Issue(c).source
             end == [Issue(c) EXCEPT !.run = "none", !.source = source]
  <2>0. Issue(c) \in ChildIssues /\ Issue(c).status # "absent" BY <1>2, IssueIs
  <2>1. /\ park \in ChildIssues /\ park.run = "park" /\ park.card = Issue(c).card /\ park.status # "absent"
        /\ post \in ChildIssues /\ post.card = Issue(c).card /\ post.status # "absent"
        /\ card \in ChildIssues /\ card.run = "park" /\ card.status # "absent"
        /\ end \in ChildIssues /\ end.run = "none" /\ end.card = Issue(c).card /\ end.status # "absent"
    <3>1. park \in ChildIssues BY <2>0 DEF ChildIssues
    <3>2. park.run = "park" /\ park.card = Issue(c).card /\ park.status # "absent" BY <2>0 DEF ChildIssues
    <3>3. post \in ChildIssues BY <2>0 DEF ChildIssues
    <3>4. post.card = Issue(c).card /\ post.status # "absent" BY <2>0 DEF ChildIssues
    <3>5. card \in ChildIssues BY <2>0 DEF ChildIssues
    <3>6. card.run = "park" /\ card.status # "absent" BY <2>0 DEF ChildIssues
    <3>7. source \in {"none", "live", "succeeded", "failed"} BY <2>0 DEF ChildIssues
    <3> HIDE DEF source
    <3>8. end \in ChildIssues BY <2>0, <3>7 DEF ChildIssues
    <3>9. end.run = "none" /\ end.card = Issue(c).card /\ end.status # "absent" BY <2>0 DEF ChildIssues
    <3> QED BY <3>1, <3>2, <3>3, <3>4, <3>5, <3>6, <3>8, <3>9
  <2>2. CASE BootCheck(c)
    <3>1. \/ Child_(c, BootFailed(c)) \/ Child_(c, park) \/ Child_(c, Parked(c, "end"))
          \/ Child_(c, post) /\ Issue(c).card = "none"
      BY <2>2, IssueIs DEF BootCheck, BootRefuses, ChildIssues
    <3> HIDE DEF park, post
    <3> QED BY <1>2, <2>1, <3>1, BootFacts, IssueIs
  <2>3. CASE BootPost(c)
    <3>1. Child_(c, card) \/ Child_(c, Parked(c, "end")) BY <2>3 DEF BootPost
    <3>2. Issue(c).card = "none" BY <1>3, <2>3 DEF BootPost
    <3> HIDE DEF card
    <3> QED BY <2>1, <3>1, <3>2, BootFacts DEF Answers
  <2>4. CASE BootPark(c)
    BY <2>4, BootFacts DEF BootPark
  <2>5. CASE BootEnd(c)
    <3>1. Child_(c, end) BY <2>5 DEF BootEnd
    <3> HIDE DEF end
    <3> QED BY <2>1, <3>1
  <2> QED BY <2>2, <2>3, <2>4, <2>5 DEF Bootstrap
<1> QED BY <1>1, <1>2, <1>4, IssueIs, ChildStep

(* The reviewer's run answers a pending card once.                         *)
LEMMA ReviewerKeeps ==
  ASSUME IInv, NEW c \in Cards, Reviewer(c) \/ Override(c)
  PROVE  IInv'
<1>1. BoardOnly /\ available' = available /\ faults' \in 0..MaxFaults
  BY FaultCounts DEF Reviewer, SubmitVerdict, CompleteChild, ReviewRefused, Override, IInv, TypeOK
<1>2. Issue(c).run # "none" \/ Issue(c).card # "none"
  BY DEF Reviewer, SubmitVerdict, CompleteChild, ReviewRefused, Override
<1>3. \E issue \in ChildIssues :
        /\ Child_(c, issue) /\ issue.status # "absent"
        /\ issue.run = "post" => issue.card = "none"
        /\ Issue(c).card \in Answers => issue.card = Issue(c).card
  <2>1. ASSUME NEW verdict \in {"approve", "reject"}, SubmitVerdict(c, verdict)
        PROVE  \E issue \in ChildIssues :
                 /\ Child_(c, issue) /\ issue.status # "absent"
                 /\ issue.run = "post" => issue.card = "none"
                 /\ Issue(c).card \in Answers => issue.card = Issue(c).card
    <3> DEFINE issue == [Issue(c) EXCEPT !.card = verdict, !.run = "finish"]
    <3>1. issue \in ChildIssues BY IssueIs, AnsweredIssue
    <3>2. issue.run = "finish" /\ issue.status # "absent" BY <1>2, IssueIs DEF ChildIssues
    <3>3. Child_(c, issue) /\ Issue(c).card = "pending" BY <2>1 DEF SubmitVerdict
    <3> HIDE DEF issue
    <3> QED BY <3>1, <3>2, <3>3 DEF Answers
  <2>2. CASE CompleteChild(c)
    <3> DEFINE issue == [Issue(c) EXCEPT !.status = "done", !.run = "none", !.attempt = "succeeded"]
    <3>1. issue \in ChildIssues BY IssueIs, EndedIssue, EndedIssueDone
    <3>2. issue.run = "none" /\ issue.status # "absent" /\ issue.card = Issue(c).card
      BY IssueIs DEF ChildIssues
    <3>3. Child_(c, issue) BY <2>2 DEF CompleteChild
    <3> HIDE DEF issue
    <3> QED BY <3>1, <3>2, <3>3
  <2>3. CASE ReviewRefused(c)
    <3> DEFINE issue == [Issue(c) EXCEPT !.run = "none", !.status = "blocked", !.attempt = "failed"]
    <3>1. issue \in ChildIssues BY IssueIs, EndedIssue, EndedIssueDone
    <3>2. issue.run = "none" /\ issue.status # "absent" /\ issue.card = Issue(c).card
      BY IssueIs DEF ChildIssues
    <3>3. Child_(c, issue) BY <2>3 DEF ReviewRefused
    <3> HIDE DEF issue
    <3> QED BY <3>1, <3>2, <3>3
  <2>4. CASE Override(c)
    <3> DEFINE issue == [Issue(c) EXCEPT !.card = "override"]
    <3>1. issue \in ChildIssues /\ issue.run = Issue(c).run /\ issue.status # "absent"
      BY <1>2, IssueIs DEF ChildIssues
    <3>2. Child_(c, issue) /\ Issue(c).card = "pending" BY <2>4 DEF Override
    <3>3. Issue(c).run # "post" BY <3>2, IssueIs DEF IInv, Board, Posting
    <3> HIDE DEF issue
    <3> QED BY <3>1, <3>2, <3>3 DEF Answers
  <2> QED BY <2>1, <2>2, <2>3, <2>4 DEF Reviewer
<1> QED BY <1>1, <1>2, <1>3, IssueIs, ChildStep

(* A run of a child fails.                                                 *)
LEMMA ChildRunFailsKeeps ==
  ASSUME IInv, NEW c \in Cards, ChildRunFails(c)
  PROVE  IInv'
<1> DEFINE blocked == [Issue(c) EXCEPT !.run = "none", !.status = "blocked", !.attempt = "failed"]
<1>1. BoardOnly /\ available' = available /\ faults' \in 0..MaxFaults /\ Issue(c).run # "none"
  BY FaultCounts DEF ChildRunFails, IInv
<1>2. blocked \in ChildIssues BY IssueIs, EndedIssue
<1>3. blocked.run = "none" /\ blocked.status # "absent" /\ blocked.card = Issue(c).card
  BY IssueIs DEF ChildIssues
<1>4. Child_(c, BootFailed(c)) \/ Child_(c, blocked) BY DEF ChildRunFails
<1> HIDE DEF blocked
<1> QED BY <1>1, <1>2, <1>3, <1>4, BootFacts, IssueIs, ChildStep

(* Agents are paused and resumed, and the document is edited.              *)
LEMMA PeopleKeep == ASSUME IInv, People PROVE IInv'
<1>1. ASSUME NEW stage \in Stages, Pause(stage) \/ Resume(stage) PROVE IInv'
  <2>1. /\ BoardOnly /\ UNCHANGED children /\ available' \subseteq Stages /\ faults' \in 0..MaxFaults
        /\ UNCHANGED <<session, run, hold, provider, planOf, lastRev, adoption>>
        /\ UNCHANGED <<jules, approvals, requests>>
    BY <1>1, FaultCounts DEF Pause, Resume, BoardOnly, IInv, TypeOK, provider
  <2>2. TypeOK' BY <2>1 DEF IInv, TypeOK, session, run, provider
  <2>3. Monotone BY <2>1 DEF Monotone, IInv, TypeOK, Revs, Plans, NoPlan
  <2>4. Board' BY <2>1 DEF IInv, Board, Untouched, Posting, Climbed, Unread
  <2>5. Output' BY <2>1 DEF IInv, Output, run
  <2> QED BY <2>1, <2>2, <2>3, <2>4, <2>5, QuietStep
<1>2. CASE EditPlan
  <2>1. /\ lastRev' = lastRev + 1 /\ lastRev \in 1..(MaxRevs - 1) /\ faults' \in 0..MaxFaults
        /\ UNCHANGED <<session, run, hold, provider, children, available, planOf, adoption>>
        /\ UNCHANGED <<jules, approvals, requests>>
    BY <1>2, FaultCounts DEF EditPlan, IInv, provider
  <2>2. lastRev' \in Revs /\ lastRev \in Nat
    BY <2>1, ChildReviewAssumption DEF Revs
  <2>3. TypeOK' BY <2>1, <2>2 DEF IInv, TypeOK, session, run, provider
  <2>4. Monotone BY <2>1, <2>2 DEF Monotone, IInv, TypeOK, Revs, Plans, NoPlan
  <2>5. Board' BY <2>1, <2>2 DEF IInv, Board, Untouched, Posting, Climbed, Unread, Revs
  <2>6. Output' BY <2>1 DEF IInv, Output, run
  <2> QED BY <2>1, <2>3, <2>4, <2>5, <2>6, QuietStep
<1> QED BY <1>1, <1>2 DEF People

(* Jules moves on.                                                         *)
LEMMA JulesMoves ==
  ASSUME IInv, UNCHANGED <<session, run, hold, approvals, requests, board, adoption>>,
         witness' = witness, echoes' \subseteq Cards, faults' \in 0..MaxFaults,
         jules' \in [state : JulesStates, out : Outputs, plan : Plans \cup {NoPlan}, asked : BOOLEAN],
         jules'.plan >= jules.plan, jules.out # "none" => jules'.out # "none",
         jules'.state \in {"PLANNING", "AWAITING_PLAN_APPROVAL"} => jules'.out = "none",
         jules'.plan = NoPlan => jules'.state \in {"PLANNING", "FAILED"}
  PROVE  IInv'
<1>1. UNCHANGED <<children, available, planOf, lastRev, snap>> BY DEF board, run
<1>2. TypeOK' BY <1>1 DEF IInv, TypeOK, session, run
<1>3. Monotone BY <1>1 DEF Monotone, IInv, TypeOK, Revs
<1>4. Board' BY <1>1 DEF IInv, Board, Untouched, Posting, Climbed, Unread
<1>5. Output' BY <1>1 DEF IInv, Output, TypeOK, Plans, NoPlan
<1> QED BY <1>2, <1>3, <1>4, <1>5, QuietStep

(* Every step of Jules.                                                    *)
LEMMA JulesKeeps == ASSUME IInv, JulesSteps PROVE IInv'
<1>1. /\ jules \in [state : JulesStates, out : Outputs, plan : Plans \cup {NoPlan}, asked : BOOLEAN]
      /\ jules.plan \in Nat /\ echoes \subseteq Cards /\ faults \in 0..MaxFaults
      /\ jules.state \in {"PLANNING", "AWAITING_PLAN_APPROVAL"} => jules.out = "none"
      /\ jules.plan = NoPlan => jules.state \in {"PLANNING", "FAILED"}
  BY DEF IInv, TypeOK, Output, Plans, NoPlan
<1>2. ASSUME Publish, jules.state \in {"PLANNING", "AWAITING_PLAN_APPROVAL"} \/ jules.out = "none",
             faults' \in 0..MaxFaults
      PROVE  IInv'
  <2>1. /\ jules' = [jules EXCEPT !.state = "AWAITING_PLAN_APPROVAL", !.plan = jules.plan + 1, !.asked = FALSE]
        /\ jules.plan < MaxPlans
        /\ UNCHANGED <<session, run, hold, echoes, approvals, requests, board, adoption, witness>>
    BY <1>2 DEF Publish, JulesOnly
  <2>2. jules.plan + 1 \in Plans BY <1>1, <2>1, ChildReviewAssumption DEF Plans
  <2>3. /\ jules' \in [state : JulesStates, out : Outputs, plan : Plans \cup {NoPlan}, asked : BOOLEAN]
        /\ jules'.plan = jules.plan + 1 /\ jules'.out = jules.out /\ jules'.state = "AWAITING_PLAN_APPROVAL"
    BY <1>1, <2>1, <2>2 DEF JulesStates
  <2> QED BY <1>1, <1>2, <2>1, <2>2, <2>3, JulesMoves DEF Plans, NoPlan
<1>3. CASE FirstPlan \/ RevisedPlan \/ Replan
  <2>1. faults' \in 0..MaxFaults BY <1>1, <1>3, FaultCounts DEF FirstPlan, RevisedPlan, Replan, IInv
  <2> QED BY <1>2, <1>3, <2>1 DEF FirstPlan, RevisedPlan, Replan
<1>4. CASE Finish
  <2>1. PICK out \in Outputs : /\ jules' = [jules EXCEPT !.state = "COMPLETED", !.out = out]
                               /\ jules.out # "none" => out # "none"
    BY <1>4 DEF Finish, Outputs
  <2>2. /\ jules.state = "IN_PROGRESS" /\ faults' = faults
        /\ UNCHANGED <<session, run, hold, echoes, approvals, requests, board, adoption, witness>>
    BY <1>4 DEF Finish, JulesOnly
  <2>3. /\ jules' \in [state : JulesStates, out : Outputs, plan : Plans \cup {NoPlan}, asked : BOOLEAN]
        /\ jules'.plan = jules.plan /\ jules'.out = out /\ jules'.state = "COMPLETED"
    BY <1>1, <2>1 DEF JulesStates
  <2> QED BY <1>1, <2>1, <2>2, <2>3, JulesMoves
<1>5. CASE Drift
  <2>1. PICK out \in Outputs : jules' = [jules EXCEPT !.state = "IN_PROGRESS", !.out = out]
    BY <1>5 DEF Drift, Outputs
  <2>2. /\ jules.state = "AWAITING_PLAN_APPROVAL" /\ faults' \in 0..MaxFaults
        /\ UNCHANGED <<session, run, hold, echoes, approvals, requests, board, adoption, witness>>
    BY <1>5, FaultCounts DEF Drift, JulesOnly, IInv
  <2>3. /\ jules' \in [state : JulesStates, out : Outputs, plan : Plans \cup {NoPlan}, asked : BOOLEAN]
        /\ jules'.plan = jules.plan /\ jules'.state = "IN_PROGRESS"
    BY <1>1, <2>1 DEF JulesStates
  <2> QED BY <1>1, <2>2, <2>3, JulesMoves
<1>6. CASE FailSession
  <2>1. /\ jules' = [jules EXCEPT !.state = "FAILED"] /\ faults' \in 0..MaxFaults
        /\ UNCHANGED <<session, run, hold, echoes, approvals, requests, board, adoption, witness>>
    BY <1>6, FaultCounts DEF FailSession, JulesOnly, IInv
  <2>2. /\ jules' \in [state : JulesStates, out : Outputs, plan : Plans \cup {NoPlan}, asked : BOOLEAN]
        /\ jules'.plan = jules.plan /\ jules'.out = jules.out /\ jules'.state = "FAILED"
    BY <1>1, <2>1 DEF JulesStates
  <2> QED BY <1>1, <2>1, <2>2, JulesMoves
<1>7. ASSUME NEW c \in Cards, Echo(c) PROVE IInv'
  BY <1>1, <1>7, JulesMoves DEF Echo
<1> QED BY <1>3, <1>4, <1>5, <1>6, <1>7 DEF JulesSteps
-----------------------------------------------------------------------------
(* What ends a hold.                                                       *)

(* A hold is released.                                                     *)
LEMMA ReleaseKeeps == ASSUME IInv, ReleaseHold \/ OperatorReleases PROVE IInv'
<1>1. /\ hold' = "none" /\ UNCHANGED <<session, run, provider, board, adoption, faults>>
      /\ adoption.state \notin {"receipt", "intent"}
      /\ UNCHANGED <<jules, approvals, requests, snap>>
  BY DEF ReleaseHold, OperatorReleases, IInv, ByHand, provider, run
<1>2. TypeOK' BY <1>1 DEF IInv, TypeOK, session, run, provider, board, Holds
<1>3. Monotone /\ Board' BY <1>1, StandsStill DEF IInv
<1>4. Output' BY <1>1 DEF IInv, Output
<1> QED BY <1>1, <1>2, <1>3, <1>4, QuietStep

(* A step beside a run that has ended.                                     *)
LEMMA IdleStep ==
  ASSUME IInv, TypeOK', pc = "idle", UNCHANGED run, Monotone, Board', Output', Records',
         mem' = mem, ByHand', Journaled', Sent', Remembered(disk)'
  PROVE  IInv'
<1>1. pc' = "idle" /\ UNCHANGED <<snap, target>> BY DEF run
<1>2. Idle' BY <1>1 DEF IInv, Idle
<1>3. Place(pc, mem, disk)'
  BY <1>1 DEF Place, Reading, Planning, Approving, Sending, Reviewing, Judging, OpeningSteps
<1> QED BY <1>1, <1>2, <1>3 DEF IInv

(* The operator approves by hand a revision that both reviewers approved.  *)
LEMMA HandApprovalKeeps == ASSUME IInv, HandApproval PROVE IInv'
<1>1. /\ pc = "idle" /\ hold \in {"conflict", "unverified", "failed"} /\ adoption.state = "none"
      /\ Approvable(jules) /\ UNCHANGED <<session, run, hold, echoes, requests, board, faults>>
  BY DEF HandApproval
<1>2. PICK r \in Revs : /\ \A stage \in Stages : children[<<r, stage>>].card = "approve"
                        /\ Accept(r) /\ adoption' = [rev |-> r, state |-> "receipt"]
  BY DEF HandApproval
<1>3. UNCHANGED <<disk, env, mem, snap, target, pc, children, available, planOf, lastRev>>
  BY <1>1 DEF session, run, board
<1>4. /\ approvals' \in [Revs -> Nat] /\ witness' \subseteq Plans
      /\ \A x \in Revs : approvals'[x] > 0 => x = r \/ approvals[x] > 0
      /\ jules' \in [state : JulesStates, out : Outputs, plan : Plans \cup {NoPlan}, asked : BOOLEAN]
      /\ Monotone /\ Board' /\ Output'
  BY <1>1, <1>2, <1>3, AcceptFacts
<1>5. adoption' \in [rev : Revs \cup {0}, state : {"none", "receipt", "intent", "saved", "confirmed"}]
  BY <1>2
<1>6. TypeOK' BY <1>1, <1>3, <1>4, <1>5 DEF IInv, TypeOK
<1>7. Records' BY <1>1, <1>4, <1>6, RecordsStay DEF IInv
<1>8. hold # "unverified" BY <1>1 DEF IInv, Output, Approvable
<1>9. ByHand' BY <1>1, <1>2, <1>3, <1>8 DEF ByHand
<1>10. Journaled' BY <1>1, <1>2, <1>3, <1>4 DEF IInv, Journaled
<1>11. Sent' BY <1>1, <1>3, <1>4, <1>6, SentStays DEF IInv
<1>12. Remembered(disk)' BY <1>1, <1>3, <1>4, <1>6, RequestsStay DEF IInv
<1> QED BY <1>1, <1>3, <1>4, <1>6, <1>7, <1>9, <1>10, <1>11, <1>12, IdleStep

(* The adoption of an approval by hand, recorded in the session.           *)
LEMMA AdoptSaveKeeps == ASSUME IInv, AdoptSave PROVE IInv'
<1> DEFINE r == adoption.rev
<1>1. /\ adoption.state = "intent" /\ adoption' = [adoption EXCEPT !.state = "saved"]
      /\ pc = "idle" /\ disk.child = <<r, "terra">>
      /\ disk' = [Approved(disk) EXCEPT !.journal[r] = "confirmed"]
      /\ UNCHANGED <<env, mem, run, hold, provider, board, faults>>
      /\ UNCHANGED <<pc, snap, target, jules, approvals, requests, children, planOf, lastRev>>
  BY DEF AdoptSave, Adopt, Adoptable, run, provider, board
<1>2. disk \in Sessions /\ mem = NewSession BY <1>1 DEF IInv, TypeOK, Idle
<1>3. disk.child \in Cards /\ r \in Revs BY <1>1, <1>2, SessionFacts, CardFacts
<1> DEFINE s == Approved(disk)
           j == [s.journal EXCEPT ![r] = "confirmed"]
<1>4. s \in Sessions /\ s.child = NoChild /\ s.request = disk.request /\ s.journal = disk.journal
  BY <1>2, <1>3, ApprovedFacts DEF IInv
<1>5. j \in [Revs -> Attempts] /\ j[r] = "confirmed" /\ \A x \in Revs : x # r => j[x] = disk.journal[x]
  BY <1>3, <1>4, SessionFacts DEF Attempts
<1>6. disk' = [s EXCEPT !.journal = j] BY <1>1, <1>4 DEF Sessions
<1> HIDE DEF s, j
<1>7. /\ disk' \in Sessions /\ disk'.child = NoChild /\ disk'.request = disk.request /\ disk'.journal = j
  BY <1>4, <1>5, <1>6 DEF Sessions
<1>8. adoption' \in [rev : Revs \cup {0}, state : {"none", "receipt", "intent", "saved", "confirmed"}]
      /\ adoption'.rev = r /\ adoption'.state = "saved"
  BY <1>1 DEF IInv, TypeOK
<1>9. TypeOK' BY <1>1, <1>7, <1>8 DEF IInv, TypeOK, provider, board
<1>10. Monotone /\ Board' BY <1>1, StandsStill DEF IInv
<1>11. Output' BY <1>1 DEF IInv, Output
<1>12. Records'
  <2>1. Sound(env)' /\ Sound(mem)' BY <1>1 DEF IInv, Records, Sound, Planned, PlanOf
  <2>2. Sound(disk)' BY <1>1, <1>7, CardFacts DEF IInv, Records, Sound, Planned, PlanOf
  <2>3. Distinct(env, env)' BY <1>1 DEF IInv, Records, Distinct, PlanOf
  <2>4. mem'.child = NoChild BY <1>1, <1>2, NewSessionFacts
  <2> QED BY <1>7, <2>1, <2>2, <2>3, <2>4 DEF Records, Distinct
<1>13. ByHand' BY <1>3, <1>5, <1>7, <1>8 DEF ByHand
<1>14. Journaled' BY <1>1, <1>5, <1>7, <1>8 DEF IInv, Journaled
<1>15. Sent' BY <1>1, <1>9, <1>10, SentStays DEF IInv
<1>16. Remembered(disk)' BY <1>1, <1>7 DEF IInv, Remembered, Open, Another
<1> QED BY <1>1, <1>9, <1>10, <1>11, <1>12, <1>13, <1>14, <1>15, <1>16, IdleStep

(* The receipt becomes an intent, and a saved adoption is confirmed.       *)
LEMMA AdoptKeeps == ASSUME IInv, AdoptIntent \/ AdoptConfirm PROVE IInv'
<1>1. /\ UNCHANGED <<session, run, hold, provider, board, faults>>
      /\ UNCHANGED <<disk, env, mem, pc, snap, target, jules, approvals, requests>>
      /\ UNCHANGED <<children, planOf, lastRev>>
  BY DEF AdoptIntent, AdoptConfirm, session, run, provider, board
<1>2. PICK from, to : /\ adoption.state = from /\ adoption' = [adoption EXCEPT !.state = to]
                      /\ (from = "receipt" /\ to = "intent") \/ (from = "saved" /\ to = "confirmed")
  <2>1. CASE AdoptIntent BY <2>1 DEF AdoptIntent, Adopt
  <2>2. CASE AdoptConfirm BY <2>2 DEF AdoptConfirm, Adopt
  <2> QED BY <2>1, <2>2
<1>3. adoption' \in [rev : Revs \cup {0}, state : {"none", "receipt", "intent", "saved", "confirmed"}]
      /\ adoption'.rev = adoption.rev /\ adoption'.state = to
  BY <1>2 DEF IInv, TypeOK
<1>4. TypeOK' BY <1>1, <1>3 DEF IInv, TypeOK, provider, board
<1>5. Monotone /\ Board' BY <1>1, StandsStill DEF IInv
<1>6. Output' /\ Idle' BY <1>1 DEF IInv, Output, Idle
<1>7. Records' BY <1>1, <1>4, <1>5, RecordsStay DEF IInv
<1>8. ByHand' BY <1>1, <1>2, <1>3 DEF IInv, ByHand
<1>9. Journaled' BY <1>1, <1>2, <1>3 DEF IInv, Journaled
<1>10. Sent' BY <1>1, <1>4, <1>5, SentStays DEF IInv
<1>11. Remembered(disk)' /\ (pc' # "idle" => Follows(mem)' /\ Replied(mem)')
  BY <1>1 DEF IInv, Remembered, Follows, Replied, Open, Another
<1>12. Place(pc, mem, disk)'
  BY <1>1 DEF IInv, Place, Reading, Planning, Approving, Sending, Open, Another, Asked, PlanOf
<1> QED BY <1>4, <1>5, <1>6, <1>7, <1>8, <1>9, <1>10, <1>11, <1>12 DEF IInv

-----------------------------------------------------------------------------
(* The induction.                                                          *)

(* The invariant holds at the start.                                       *)
LEMMA InitHolds == Init => IInv
<1> SUFFICES ASSUME Init PROVE IInv OBVIOUS
<1>1. /\ disk = NewSession /\ env = NewSession /\ mem = NewSession
      /\ pc = "idle" /\ snap = NoSnapshot /\ target = NoTarget /\ hold = "none"
      /\ jules = [state |-> "PLANNING", out |-> "none", plan |-> NoPlan, asked |-> FALSE]
      /\ witness = {} /\ echoes = {}
      /\ children = [c \in Cards |-> NoIssue] /\ available = Stages
      /\ planOf = [r \in Revs |-> NoPlan] /\ lastRev = 0
      /\ approvals = [r \in Revs |-> 0] /\ requests = [c \in Cards |-> 0]
      /\ adoption = [rev |-> 0, state |-> "none"] /\ faults = 0
  BY DEF Init
<1>2. NoIssue \in ChildIssues /\ NoIssue.run = "none" BY DEF NoIssue, ChildIssues
<1>3. TypeOK
  <2>1. disk \in Sessions /\ env \in Sessions /\ mem \in Sessions BY <1>1, NewSessionFacts
  <2>2. pc \in Steps /\ hold \in Holds BY <1>1 DEF Steps, Holds
  <2>3. snap \in [state : JulesStates, out : Outputs, plan : Plans \cup {NoPlan},
                  witnessed : BOOLEAN, echoed : BOOLEAN]
    BY <1>1 DEF NoSnapshot, JulesStates, Outputs
  <2>4. target \in [plan : PlanIds \cup {NoPlan}, rev : Revs \cup {0}] BY <1>1 DEF NoTarget
  <2>5. jules \in [state : JulesStates, out : Outputs, plan : Plans \cup {NoPlan}, asked : BOOLEAN]
    BY <1>1 DEF JulesStates, Outputs
  <2>6. children \in [Cards -> ChildIssues] /\ available \subseteq Stages BY <1>1, <1>2
  <2>7. /\ planOf \in [Revs -> PlanIds \cup {NoPlan}] /\ lastRev \in Revs \cup {0}
        /\ approvals \in [Revs -> Nat] /\ requests \in [Cards -> Nat]
    BY <1>1
  <2>8. adoption \in [rev : Revs \cup {0}, state : {"none", "receipt", "intent", "saved", "confirmed"}]
        /\ faults \in 0..MaxFaults
    BY <1>1, ChildReviewAssumption
  <2>9. witness \subseteq Plans /\ echoes \subseteq Cards BY <1>1
  <2> QED BY <2>1, <2>2, <2>3, <2>4, <2>5, <2>6, <2>7, <2>8, <2>9 DEF TypeOK
<1>4. Board
  BY <1>1, <1>2, CardFacts DEF Board, Untouched, Posting, Climbed, Unread, Stages
<1>5. Output BY <1>1 DEF Output, NoSnapshot, NoPlan
<1>6. Records BY <1>1, NewSessionFacts, CardFacts DEF Records, Sound, Distinct, Planned
<1>7. Idle BY <1>1 DEF Idle
<1>8. ByHand BY <1>1 DEF ByHand
<1>9. Journaled BY <1>1 DEF Journaled
<1>10. Sent /\ Remembered(disk) BY <1>1 DEF Sent, Remembered, Open
<1>11. Place(pc, mem, disk) BY <1>1, YieldPlace
<1> QED BY <1>1, <1>3, <1>4, <1>5, <1>6, <1>7, <1>8, <1>9, <1>10, <1>11 DEF IInv

(* Every step keeps the invariant.                                         *)
LEMMA StepKeeps == IInv /\ [Next]_vars => IInv'
<1> SUFFICES ASSUME IInv, [Next]_vars PROVE IInv' OBVIOUS
<1>1. CASE Heartbeat
  <2>1. CASE Start \/ Poll \/ Scan \/ YieldHeartbeat \/ Return
    BY <2>1, StartKeeps, PollKeeps, ScanKeeps, YieldKeeps, ReturnKeeps
  <2>2. CASE PendingRequest
    BY <2>2, NoPendingRequestKeeps, RequestFulfilledKeeps, RequestPendingKeeps DEF PendingRequest
  <2>3. CASE Review
    BY <2>3, RetireReplacedKeeps, HoldUnjudgedKeeps, ReadHistoryKeeps, ObserveBrokenKeeps,
       ObserveChildKeeps, CreateChildKeeps, ActivateChildKeeps, SaveWaitingKeeps, SaveAnsweredKeeps,
       BoundaryKeeps DEF Review
  <2>4. CASE Verdicts
    BY <2>4, HoldVerdictKeeps, RecordedWorkKeeps, LunaApprovedKeeps, RejectedKeeps, TerraWaitsKeeps,
       TerraApprovedKeeps, ApprovePlanKeeps, ConfirmKeeps, SendRequestKeeps, RecordRequestKeeps
       DEF Verdicts
  <2>5. CASE Opening
    BY <2>5, PlanNotDueKeeps, OpenReviewKeeps, SaveDocumentKeeps, OpenLunaKeeps DEF Opening
  <2> QED BY <1>1, <2>1, <2>2, <2>3, <2>4, <2>5 DEF Heartbeat
<1>2. CASE Failure
  BY <1>2, IncompleteHistoryKeeps, CrashKeeps, RequestLostKeeps DEF Failure
<1>3. ASSUME NEW c \in Cards, ChildRun(c) \/ CancelChildRun(c) \/ ChildRunFails(c) \/ Override(c)
      PROVE  IInv'
  BY <1>3, QueuedKeeps, BootstrapKeeps, ReviewerKeeps, ChildRunFailsKeeps DEF ChildRun
<1>4. CASE People BY <1>4, PeopleKeep
<1>5. CASE JulesSteps BY <1>5, JulesKeeps
<1>6. CASE Release
  BY <1>6, ReleaseKeeps, HandApprovalKeeps, AdoptSaveKeeps, AdoptKeeps DEF Release, Adoption
<1>7. CASE UNCHANGED vars
  <2>1. /\ UNCHANGED <<session, run, hold, provider, board, adoption, faults>>
        /\ UNCHANGED <<disk, env, mem, pc, snap, target, jules, witness, echoes, approvals, requests>>
        /\ UNCHANGED <<children, available, planOf, lastRev>>
    BY <1>7 DEF vars, session, run, provider, board
  <2>2. TypeOK' BY <2>1 DEF IInv, TypeOK
  <2>3. Monotone /\ Board' BY <2>1, StandsStill DEF IInv
  <2>4. Output' BY <2>1 DEF IInv, Output
  <2> QED BY <2>1, <2>2, <2>3, <2>4, QuietStep
<1> QED BY <1>1, <1>2, <1>3, <1>4, <1>5, <1>6, <1>7 DEF Next, Children

(* The invariant holds of every behaviour.                                 *)
THEOREM Invariance == Spec => []IInv
<1>1. Init => IInv BY InitHolds
<1>2. IInv /\ [Next]_vars => IInv' BY StepKeeps
<1> QED BY <1>1, <1>2, PTL DEF Spec

(* Every variable keeps its type, for any number of plans, revisions and   *)
(* faults.                                                                 *)
THEOREM ChildTypeCorrect == Spec => []TypeOK
<1>1. IInv => TypeOK BY DEF IInv
<1> QED BY <1>1, Invariance, PTL

(* A review that is decided on record is not taken up again, whatever      *)
(* envelope a run starts from (mergeDurableSessionCheckpoints).            *)
THEOREM StaysDecided == Spec => []DecidedStaysDecided
<1>1. IInv => DecidedStaysDecided
  <2> SUFFICES ASSUME IInv, mem.child # NoChild
               PROVE  PlanOf(mem.child) \notin {disk.approved, PlanOf(disk.request.card)}
    BY DEF DecidedStaysDecided
  <2> QED BY DEF IInv, Records, Distinct
<1> QED BY <1>1, Invariance, PTL

(* An approval that reached Jules was approved by both reviewers, and is   *)
(* in the record's journal or in the operator's receipt.                   *)
THEOREM ApprovalsOnRecord == Spec => []Journaled
<1>1. IInv => Journaled BY DEF IInv
<1> QED BY <1>1, Invariance, PTL

-----------------------------------------------------------------------------
(* One write for a revision.                                               *)

(* A revision whose both cards were approved was never asked to be         *)
(* replaced, and one that was asked to be replaced was not approved.       *)
LEMMA AskedOrApproved ==
  ASSUME IInv, NEW r \in Revs
  PROVE  /\ (\A stage \in Stages : children[<<r, stage>>].card = "approve") => Asked(r) = 0
         /\ \A c \in Cards : c[1] = r /\ children[c].card = "reject" => approvals[r] = 0
<1>1. <<r, "luna">> \in Cards /\ <<r, "terra">> \in Cards BY CardFacts DEF Stages
<1>2. requests[<<r, "luna">>] \in Nat /\ requests[<<r, "terra">>] \in Nat /\ approvals[r] \in Nat
  BY <1>1 DEF IInv, TypeOK
<1>3. ASSUME \A stage \in Stages : children[<<r, stage>>].card = "approve" PROVE Asked(r) = 0
  <2>1. ~(requests[<<r, "luna">>] > 0) /\ ~(requests[<<r, "terra">>] > 0)
    BY <1>1, <1>3 DEF IInv, Sent, Stages
  <2> QED BY <1>2, <2>1 DEF Asked
<1>4. ASSUME NEW c \in Cards, c[1] = r, children[c].card = "reject" PROVE approvals[r] = 0
  <2>1. c = <<r, c[2]>> /\ c[2] \in Stages BY <1>4, CardFacts
  <2>2. ~(approvals[r] > 0) BY <1>4, <2>1 DEF IInv, Journaled
  <2> QED BY <1>2, <2>2
<1> QED BY <1>3, <1>4

(* The calls that change what was sent.                                    *)
LEMMA WhoWrites ==
  ASSUME IInv, [Next]_vars
  PROVE  \/ UNCHANGED <<approvals, requests>>
         \/ ApprovePlan \/ SendRequest \/ HandApproval
<1> USE DEF provider
<1>1. CASE Heartbeat
  <2>1. CASE Start \/ Poll \/ Scan \/ YieldHeartbeat \/ Return
    BY <2>1 DEF Start, Poll, PollInto, Scan, ReadInto, YieldHeartbeat, Return, Save
  <2>2. CASE PendingRequest
    BY <2>2 DEF PendingRequest, NoPendingRequest, RequestFulfilled, RequestPending, Goto, Save
  <2>3. CASE Review
    BY <2>3 DEF Review, RetireReplaced, HoldUnjudged, ReadHistory, ObserveBroken, ObserveChild, CreateChild,
       ActivateChild, SaveWaiting, SaveAnswered, Rescan, Repoll, ReadInto, PollInto, Goto, Save, Fail, Held
  <2>4. CASE Verdicts
    BY <2>4 DEF Verdicts, HoldVerdict, RecordedWork, LunaApproved, Rejected, TerraWaits, HoldTerra,
       TerraApproved, TerraApproves, TerraActs, ConfirmApprove, RecordApproved, RecordRequest, Goto, Save,
       Fail, Held
  <2>5. CASE Opening
    BY <2>5 DEF Opening, PlanNotDue, OpenReview, SaveDocument, OpenLuna, Goto, Save
  <2> QED BY <1>1, <2>1, <2>2, <2>3, <2>4, <2>5 DEF Heartbeat
<1>2. CASE Failure
  BY <1>2 DEF Failure, IncompleteHistory, Held, Crash, RequestLost
<1>3. ASSUME NEW c \in Cards, ChildRun(c) \/ CancelChildRun(c) \/ ChildRunFails(c) \/ Override(c)
      PROVE  UNCHANGED <<approvals, requests>>
  BY <1>3 DEF ChildRun, StartChildRun, CancelChildRun, ChildRunFails, Override, Bootstrap, BootCheck, BootPost,
     BootPark, BootEnd, Reviewer, SubmitVerdict, CompleteChild, ReviewRefused, BoardOnly
<1>4. CASE People BY <1>4 DEF People, EditPlan, Pause, Resume, BoardOnly
<1>5. CASE JulesSteps
  BY <1>5 DEF JulesSteps, FirstPlan, RevisedPlan, Replan, Publish, Finish, Drift, FailSession, Echo, JulesOnly
<1>6. CASE Release
  BY <1>6 DEF Release, ReleaseHold, OperatorReleases, Adoption, AdoptIntent, AdoptSave, AdoptConfirm
<1>7. CASE UNCHANGED vars BY <1>7 DEF vars
<1> QED BY <1>1, <1>2, <1>3, <1>4, <1>5, <1>6, <1>7 DEF Next, Children

(* A reviewed revision leads to one approval or one request: a second      *)
(* approval is an operator's, and a second request has another rejected    *)
(* revision beside it.                                                     *)
THEOREM DecidesOnce == Spec => DecidedOnce
<1> DEFINE Once ==
      \A r \in Revs :
        /\ approvals'[r] # approvals[r] =>
             Asked(r) = 0 /\ (approvals[r] = 0 \/ (adoption.state = "none" /\ adoption' # adoption))
        /\ Asked(r)' # Asked(r) => approvals[r] = 0 /\ (Asked(r) = 0 \/ Another(r))
<1>1. IInv /\ [Next]_vars => Once
  <2> SUFFICES ASSUME IInv, [Next]_vars, NEW r \in Revs
               PROVE  /\ approvals'[r] # approvals[r] =>
                           Asked(r) = 0 /\ (approvals[r] = 0 \/ (adoption.state = "none" /\ adoption' # adoption))
                      /\ Asked(r)' # Asked(r) => approvals[r] = 0 /\ (Asked(r) = 0 \/ Another(r))
    OBVIOUS
  <2>1. CASE UNCHANGED <<approvals, requests>> BY <2>1 DEF Asked
  <2>2. CASE ApprovePlan
    <3>1. UNCHANGED requests BY <2>2 DEF ApprovePlan, Fail, Held, provider
    <3>2. pc = "approve" /\ (approvals'[r] # approvals[r] => r = Rev)
      BY <2>2 DEF ApprovePlan, Fail, Held, provider, Accept, IInv, TypeOK
    <3>3. approvals'[r] # approvals[r] => Asked(r) = 0 /\ approvals[r] = 0
      BY <3>2, ApproveIs, AskedOrApproved
    <3> QED BY <3>1, <3>3 DEF Asked
  <2>3. CASE SendRequest
    <3>1. UNCHANGED approvals /\ pc = "send" BY <2>3 DEF SendRequest, Fail, Held, provider
    <3>2. PICK s \in Cards : s = mem.request.card BY <3>1, SendIs
    <3>3. <<r, "luna">> \in Cards /\ <<r, "terra">> \in Cards BY CardFacts DEF Stages
    <3>4. \A c \in Cards : c # s => requests'[c] = requests[c]
      BY <2>3, <3>2 DEF SendRequest, Fail, Held, provider, IInv, TypeOK
    <3>5. Asked(r)' # Asked(r) => s[1] = r BY <3>3, <3>4 DEF Asked
    <3>6. children[s].card = "reject" /\ (Asked(s[1]) = 0 \/ Another(s[1])) BY <3>1, <3>2, SendIs
    <3> QED BY <3>1, <3>5, <3>6, AskedOrApproved
  <2>4. CASE HandApproval
    <3>1. UNCHANGED requests /\ adoption.state = "none" BY <2>4 DEF HandApproval
    <3>2. PICK x \in Revs : /\ \A stage \in Stages : children[<<x, stage>>].card = "approve"
                            /\ Accept(x) /\ adoption' = [rev |-> x, state |-> "receipt"]
      BY <2>4 DEF HandApproval
    <3>3. approvals'[r] # approvals[r] => r = x BY <3>2 DEF Accept, IInv, TypeOK
    <3>4. adoption' # adoption BY <3>1, <3>2
    <3>5. Asked(x) = 0 BY <3>2, AskedOrApproved
    <3> QED BY <3>1, <3>3, <3>4, <3>5 DEF Asked
  <2> QED BY <2>1, <2>2, <2>3, <2>4, WhoWrites
<1> QED BY <1>1, Invariance, PTL DEF Spec, DecidedOnce

-----------------------------------------------------------------------------
(* The ladder.  A card turns once from absent to pending and once to its   *)
(* verdict, whatever runs of children fail, and a write follows its        *)
(* verdicts; what PlanGate does not allow is the same write again.         *)

Repeats ==
  \/ \E r \in Revs : approvals[r] > 0 /\ approvals'[r] # approvals[r]
  \/ \E c \in Cards : requests[c] > 0 /\ requests'[c] # requests[c]

Posts(c) ==
  /\ children[c].card = "none" /\ children'[c].card = "pending"
  /\ c[2] = "terra" => children[<<c[1], "luna">>].card = "approve"
Turns(c) ==
  \/ children'[c].card = children[c].card
  \/ Posts(c)
  \/ children[c].card = "pending" /\ children'[c].card \in Answers
Others(c) == \A d \in Cards : d # c => children'[d].card = children[d].card
CardsStand == \A c \in Cards : children'[c].card = children[c].card

(* A card that turns is a step of the ladder.                              *)
LEMMA TurnClimbs ==
  ASSUME TypeOK, TypeOK', NEW c \in Cards, Turns(c), Others(c), UNCHANGED <<approvals, requests>>
  PROVE  [Ladder!Next]_(Ladder!gate)
<1> DEFINE now == [d \in Cards |-> CardState(d)]
           next == [d \in Cards |-> CardState(d)']
<1>1. \A d \in Cards : d # c => CardState(d)' = CardState(d) BY DEF Others, CardState
<1>2. next = [now EXCEPT ![c] = CardState(c)'] BY <1>1
<1>3. CASE children'[c].card = children[c].card
  <2>1. next = now BY <1>1, <1>3 DEF CardState
  <2> QED BY <2>1 DEF Ladder!gate
<1>4. CASE Posts(c)
  <2>1. c = <<c[1], c[2]>> /\ c[1] \in Revs /\ c[2] \in Stages BY CardFacts
  <2>2. CardState(c) = "absent" /\ CardState(c)' = "pending" BY <1>4 DEF Posts, CardState
  <2>3. CASE c[2] = "luna"
    <3>1. Ladder!OpenLuna(c[1]) BY <1>2, <2>1, <2>2, <2>3 DEF Ladder!OpenLuna
    <3> QED BY <2>1, <3>1 DEF Ladder!Next
  <2>4. CASE c[2] = "terra"
    <3>1. <<c[1], "luna">> \in Cards /\ CardState(<<c[1], "luna">>) = "approved"
      BY <1>4, <2>1, <2>4, CardFacts DEF Posts, CardState, Stages
    <3>2. Ladder!OpenTerra(c[1]) BY <1>2, <2>1, <2>2, <2>4, <3>1 DEF Ladder!OpenTerra
    <3> QED BY <2>1, <3>2 DEF Ladder!Next
  <2> QED BY <2>1, <2>3, <2>4 DEF Stages
<1>5. CASE children[c].card = "pending" /\ children'[c].card \in Answers
  <2>1. CardState(c) = "pending" /\ CardState(c)' \in {"approved", "reject", "override"}
    BY <1>5 DEF CardState, Answers
  <2>2. Ladder!Resolve(c, CardState(c)') BY <1>2, <2>1 DEF Ladder!Resolve
  <2> QED BY <2>1, <2>2 DEF Ladder!Next, Ladder!Cards, Cards
<1> QED BY <1>3, <1>4, <1>5 DEF Turns

(* Only the runs of children, and whoever answers for a reviewer, turn a   *)
(* card: no step of a parent, of Jules or of an operator does.             *)
LEMMA WhoTurns ==
  ASSUME IInv, [Next]_vars
  PROVE  \/ CardsStand
         \/ \E c \in Cards : ChildRun(c) \/ CancelChildRun(c) \/ ChildRunFails(c) \/ Override(c)
<1> USE DEF board
<1>1. CASE Heartbeat
  <2>1. CASE Start \/ Poll \/ Scan \/ YieldHeartbeat \/ Return
    BY <2>1 DEF Start, Poll, PollInto, Scan, ReadInto, YieldHeartbeat, Return, Save, CardsStand
  <2>2. CASE PendingRequest
    BY <2>2 DEF PendingRequest, NoPendingRequest, RequestFulfilled, RequestPending, Goto, Save, CardsStand
  <2>3. CASE CreateChild
    <3>1. /\ children' = [children EXCEPT ![mem.child] = [NoIssue EXCEPT !.status = "backlog"]]
          /\ pc \in {"observe", "create"} /\ Observation = "create"
      BY <2>3 DEF CreateChild, Observing
    <3>2. children[mem.child].status = "absent"
      BY <3>1 DEF Observation, Child, BootObservation, PendingObservation
    <3>3. mem.child \in Cards BY <3>1, ReviewIs DEF Reviewing
    <3>4. children[mem.child].card = "none" BY <3>2, <3>3 DEF IInv, Board, Untouched, NoIssue
    <3>5. children'[mem.child].card = "none" BY <3>1, <3>3 DEF IInv, TypeOK, NoIssue
    <3>6. \A d \in Cards : d # mem.child => children'[d] = children[d] BY <3>1 DEF IInv, TypeOK
    <3> QED BY <3>4, <3>5, <3>6 DEF CardsStand
  <2>4. CASE ActivateChild
    <3> DEFINE owner == IF Child.owner = "reviewer" \/ Child.card # "none" THEN "reviewer" ELSE "boot"
               issue == [Child EXCEPT !.status = "todo", !.run = "queued", !.owner = owner]
    <3>1. pc \in {"observe", "create"} BY <2>4 DEF ActivateChild, Observing
    <3>2. mem.child \in Cards /\ Child \in ChildIssues BY <3>1, ReviewIs DEF Reviewing, Child
    <3>3. children' = [children EXCEPT ![mem.child] = issue] BY <2>4 DEF ActivateChild
    <3>4. issue.card = children[mem.child].card BY <3>2 DEF Child, ChildIssues
    <3> HIDE DEF issue
    <3> QED BY <3>2, <3>3, <3>4 DEF IInv, TypeOK, CardsStand
  <2>5. CASE RetireReplaced \/ HoldUnjudged \/ ReadHistory \/ ObserveBroken \/ ObserveChild
    BY <2>5 DEF RetireReplaced, HoldUnjudged, ReadHistory, ObserveBroken, ObserveChild, ReadInto, Goto, Save,
       Fail, Held, CardsStand
  <2>6. CASE SaveWaiting \/ SaveAnswered \/ Rescan \/ Repoll
    BY <2>6 DEF SaveWaiting, SaveAnswered, Rescan, Repoll, ReadInto, PollInto, Goto, Save, Fail, Held, CardsStand
  <2>7. CASE HoldVerdict \/ RecordedWork \/ LunaApproved \/ Rejected \/ TerraWaits \/ HoldTerra
    BY <2>7 DEF HoldVerdict, RecordedWork, LunaApproved, Rejected, TerraWaits, HoldTerra, TerraApproves,
       TerraActs, Goto, Save, Fail, Held, CardsStand
  <2>8. CASE TerraApproved \/ ConfirmApprove \/ RecordApproved \/ RecordRequest
    BY <2>8 DEF TerraApproved, TerraApproves, TerraActs, ConfirmApprove, RecordApproved, RecordRequest, Goto,
       Save, Fail, Held, CardsStand
  <2>9. CASE ApprovePlan \/ SendRequest
    BY <2>9 DEF ApprovePlan, SendRequest, Fail, Held, CardsStand
  <2>10. CASE Opening
    BY <2>10 DEF Opening, PlanNotDue, OpenReview, SaveDocument, OpenLuna, Goto, Save, CardsStand
  <2> QED
    BY <1>1, <2>1, <2>2, <2>3, <2>4, <2>5, <2>6, <2>7, <2>8, <2>9, <2>10 DEF Heartbeat, Review, Verdicts
<1>2. CASE Failure
  BY <1>2 DEF Failure, IncompleteHistory, Held, Crash, RequestLost, CardsStand
<1>3. CASE People BY <1>3 DEF People, EditPlan, Pause, Resume, CardsStand
<1>4. CASE JulesSteps
  BY <1>4 DEF JulesSteps, FirstPlan, RevisedPlan, Replan, Publish, Finish, Drift, FailSession, Echo, JulesOnly,
     CardsStand
<1>5. CASE Release
  BY <1>5 DEF Release, ReleaseHold, OperatorReleases, HandApproval, Adoption, AdoptIntent, AdoptSave,
     AdoptConfirm, CardsStand
<1>6. CASE UNCHANGED vars BY <1>6 DEF vars, CardsStand
<1> QED BY <1>1, <1>2, <1>3, <1>4, <1>5, <1>6 DEF Next, Children

(* A step of a child turns its card and no other one.                      *)
LEMMA ChildTurns ==
  ASSUME IInv, NEW c \in Cards,
         ChildRun(c) \/ CancelChildRun(c) \/ ChildRunFails(c) \/ Override(c)
  PROVE  Turns(c) /\ Others(c)
<1>1. children \in [Cards -> ChildIssues] /\ Issue(c) = children[c] /\ Issue(c) \in ChildIssues
  BY DEF IInv, TypeOK, Issue
<1>2. ASSUME NEW i, Child_(c, i) PROVE children'[c] = i /\ Others(c)
  BY <1>1, <1>2 DEF Child_, Others
<1>3. CASE BootPost(c)
  <2>1. Issue(c).run = "post" BY <1>3 DEF BootPost
  <2>2. Issue(c).card = "none" /\ Issue(c) # NoIssue
    BY <1>1, <2>1 DEF IInv, Board, Posting, NoIssue
  <2>3. c = <<c[1], c[2]>> /\ c[1] \in Revs BY CardFacts
  <2>4. c[2] = "terra" => children[<<c[1], "luna">>].card = "approve"
    BY <1>1, <2>2, <2>3 DEF IInv, Board, Climbed
  <2> DEFINE posted == [Issue(c) EXCEPT !.card = "pending", !.source = "live", !.run = "park"]
  <2>5. CASE Child_(c, posted)
    <3>1. posted.card = "pending" BY <1>1 DEF ChildIssues
    <3> HIDE DEF posted
    <3> QED BY <1>1, <1>2, <2>2, <2>4, <2>5, <3>1 DEF Turns, Posts
  <2>6. CASE Child_(c, Parked(c, "end"))
    BY <1>1, <1>2, <2>6, BootFacts DEF Turns
  <2> QED BY <1>3, <2>5, <2>6 DEF BootPost
<1>4. ASSUME NEW verdict \in {"approve", "reject"}, SubmitVerdict(c, verdict)
      PROVE  Turns(c) /\ Others(c)
  <2> DEFINE answered == [Issue(c) EXCEPT !.card = verdict, !.run = "finish"]
  <2>1. answered.card = verdict BY <1>1 DEF ChildIssues
  <2>2. Child_(c, answered) /\ Issue(c).card = "pending" BY <1>4 DEF SubmitVerdict
  <2> HIDE DEF answered
  <2> QED BY <1>1, <1>2, <2>1, <2>2 DEF Turns, Answers
<1>5. CASE Override(c)
  <2> DEFINE answered == [Issue(c) EXCEPT !.card = "override"]
  <2>1. answered.card = "override" BY <1>1 DEF ChildIssues
  <2>2. Child_(c, answered) /\ Issue(c).card = "pending" BY <1>5 DEF Override
  <2> HIDE DEF answered
  <2> QED BY <1>1, <1>2, <2>1, <2>2 DEF Turns, Answers
<1>6. CASE StartChildRun(c) \/ CancelChildRun(c) \/ BootCheck(c) \/ BootPark(c) \/ BootEnd(c)
           \/ CompleteChild(c) \/ ReviewRefused(c) \/ ChildRunFails(c)
  <2>1. \E i : Child_(c, i) /\ i.card = Issue(c).card
    <3> DEFINE keeps(i) == i.card = Issue(c).card
               started == [Issue(c) EXCEPT !.run = IF Issue(c).owner = "boot" THEN "check" ELSE "review"]
               cancelled == [Issue(c) EXCEPT !.run = "none", !.status = "blocked",
                  !.attempt = IF Issue(c).owner = "reviewer" THEN "cancelled" ELSE @]
               parking == [Issue(c) EXCEPT !.run = "park"]
               posting == [Issue(c) EXCEPT !.run = "post"]
               ended == [Issue(c) EXCEPT !.run = "none", !.source = IF @ = "live" THEN "succeeded" ELSE @]
               done == [Issue(c) EXCEPT !.status = "done", !.run = "none", !.attempt = "succeeded"]
               blocked == [Issue(c) EXCEPT !.run = "none", !.status = "blocked", !.attempt = "failed"]
    <3>1. keeps(started) /\ keeps(cancelled) /\ keeps(parking) /\ keeps(posting) BY <1>1 DEF ChildIssues
    <3>2. keeps(ended) /\ keeps(done) /\ keeps(blocked) BY <1>1 DEF ChildIssues
    <3>3. keeps(BootFailed(c)) /\ keeps(Parked(c, "park")) /\ keeps(Parked(c, "end")) BY BootFacts
    <3>4. \/ Child_(c, started) \/ Child_(c, cancelled) \/ Child_(c, parking) \/ Child_(c, posting)
          \/ Child_(c, ended) \/ Child_(c, done) \/ Child_(c, blocked)
          \/ Child_(c, BootFailed(c)) \/ Child_(c, Parked(c, "end"))
      BY <1>6 DEF StartChildRun, CancelChildRun, BootCheck, BootPark, BootEnd, CompleteChild, ReviewRefused,
         ChildRunFails
    <3> HIDE DEF started, cancelled, parking, posting, ended, done, blocked
    <3> QED BY <3>1, <3>2, <3>3, <3>4
  <2> QED BY <1>1, <1>2, <2>1 DEF Turns
<1> QED BY <1>3, <1>4, <1>5, <1>6 DEF ChildRun, Bootstrap, Reviewer

(* The three writes are steps of the ladder, unless they repeat one.       *)
LEMMA WriteClimbs ==
  ASSUME IInv, CardsStand, ~Repeats, ApprovePlan \/ SendRequest \/ HandApproval
  PROVE  [Ladder!Next]_(Ladder!gate)
<1>1. [d \in Cards |-> CardState(d)]' = [d \in Cards |-> CardState(d)] BY DEF CardsStand, CardState
<1>2. ASSUME NEW r \in Revs, \A stage \in Stages : children[<<r, stage>>].card = "approve",
             Accept(r), UNCHANGED requests
      PROVE  Ladder!Next
  <2>1. approvals[r] \in Nat /\ approvals' = [approvals EXCEPT ![r] = @ + 1]
    BY <1>2 DEF IInv, TypeOK, Accept
  <2>2. approvals'[r] # approvals[r] BY <2>1 DEF IInv, TypeOK
  <2>3. approvals[r] = 0 BY <2>1, <2>2 DEF Repeats
  <2>4. approvals' = [approvals EXCEPT ![r] = 1] BY <2>1, <2>3
  <2>5. <<r, "terra">> \in Cards /\ CardState(<<r, "terra">>) = "approved"
    BY <1>2, CardFacts DEF CardState, Stages
  <2>6. Ladder!Approve(r) BY <1>1, <1>2, <2>3, <2>4, <2>5 DEF Ladder!Approve
  <2> QED BY <2>6 DEF Ladder!Next
<1>3. CASE UNCHANGED <<approvals, requests>> BY <1>1, <1>3 DEF Ladder!gate
<1>4. CASE ApprovePlan
  <2>1. UNCHANGED requests /\ pc = "approve" BY <1>4 DEF ApprovePlan, Fail, Held, provider
  <2>2. CASE Accept(Rev)
    <3>1. PICK r \in Revs : r = Rev BY <2>1, ApproveIs
    <3>2. Accept(r) /\ \A stage \in Stages : children[<<r, stage>>].card = "approve"
      BY <2>1, <2>2, <3>1, ApproveIs
    <3> QED BY <1>2, <2>1, <3>2
  <2>3. CASE UNCHANGED provider BY <1>3, <2>3 DEF provider
  <2> QED BY <1>4, <2>2, <2>3 DEF ApprovePlan, Fail, Held
<1>5. CASE HandApproval
  <2>1. UNCHANGED requests BY <1>5 DEF HandApproval
  <2>2. PICK r \in Revs : Accept(r) /\ \A stage \in Stages : children[<<r, stage>>].card = "approve"
    BY <1>5 DEF HandApproval
  <2> QED BY <1>2, <2>1, <2>2
<1>6. CASE SendRequest
  <2>1. UNCHANGED approvals /\ pc = "send" BY <1>6 DEF SendRequest, Fail, Held, provider
  <2>2. PICK s \in Cards : s = mem.request.card BY <2>1, SendIs
  <2>3. children[s].card = "reject" BY <2>1, <2>2, SendIs
  <2>4. CASE requests' = [requests EXCEPT ![s] = @ + 1]
    <3>1. requests[s] \in Nat /\ requests'[s] # requests[s] BY <2>4 DEF IInv, TypeOK
    <3>2. requests[s] = 0 BY <3>1 DEF Repeats
    <3>3. requests' = [requests EXCEPT ![s] = 1] BY <2>4, <3>2
    <3>4. CardState(s) = "reject" BY <2>3 DEF CardState
    <3>5. Ladder!RequestRevision(s) BY <1>1, <2>1, <3>2, <3>3, <3>4 DEF Ladder!RequestRevision
    <3> QED BY <3>5 DEF Ladder!Next, Ladder!Cards, Cards
  <2>5. CASE UNCHANGED provider BY <1>3, <2>5 DEF provider
  <2> QED BY <1>6, <2>2, <2>4, <2>5 DEF SendRequest, Fail, Held
<1> QED BY <1>4, <1>5, <1>6

(* The child plan review climbs the ladder of PlanGate, step by step, for  *)
(* every number of plans, revisions and faults of every kind, as long as   *)
(* no write is repeated; DecidesOnce tells which repetitions there are.    *)
THEOREM ImplementsGate == Spec /\ [][~Repeats]_vars => ImplementsPlanGate
<1>1. Init => Ladder!Init
  BY DEF Init, Ladder!Init, Ladder!Cards, Cards, CardState, NoIssue
<1>2. IInv /\ [Next]_vars /\ [~Repeats]_vars => [Ladder!Next]_(Ladder!gate)
  <2> SUFFICES ASSUME IInv, [Next]_vars, [~Repeats]_vars PROVE [Ladder!Next]_(Ladder!gate)
    OBVIOUS
  <2>1. TypeOK /\ TypeOK' BY StepKeeps DEF IInv
  <2>2. CASE UNCHANGED vars
    <3>1. [d \in Cards |-> CardState(d)]' = [d \in Cards |-> CardState(d)] /\ UNCHANGED <<approvals, requests>>
      BY <2>2 DEF vars, board, provider, CardState
    <3> QED BY <3>1 DEF Ladder!gate
  <2>3. CASE Next /\ ~Repeats /\ CardsStand
    <3>1. CASE UNCHANGED <<approvals, requests>>
      <4>1. [d \in Cards |-> CardState(d)]' = [d \in Cards |-> CardState(d)]
        BY <2>3 DEF CardsStand, CardState
      <4> QED BY <3>1, <4>1 DEF Ladder!gate
    <3> QED BY <2>3, <3>1, WhoWrites, WriteClimbs
  <2>4. ASSUME NEW c \in Cards, ChildRun(c) \/ CancelChildRun(c) \/ ChildRunFails(c) \/ Override(c)
        PROVE  [Ladder!Next]_(Ladder!gate)
    <3>1. UNCHANGED <<approvals, requests>>
      BY <2>4 DEF ChildRun, StartChildRun, CancelChildRun, ChildRunFails, Override, Bootstrap, BootCheck,
         BootPost, BootPark, BootEnd, Reviewer, SubmitVerdict, CompleteChild, ReviewRefused, BoardOnly, provider
    <3> QED BY <2>1, <2>4, <3>1, ChildTurns, TurnClimbs
  <2> QED BY <2>2, <2>3, <2>4, WhoTurns
<1> QED BY <1>1, <1>2, Invariance, PTL DEF Spec, ImplementsPlanGate, Ladder!Spec
=============================================================================
