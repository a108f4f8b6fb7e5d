------------------------------ MODULE Telegram ------------------------------
(***************************************************************************)
(* The Telegram companion: a worker with two loops.  The poller sends the  *)
(* operator a card for every pending approval it has not announced; the    *)
(* update loop handles what people do in the chat: a pressed button        *)
(* decides an approval, a reply to a clarification question becomes a      *)
(* comment, anything else (a stranger, a command) changes nothing.  What   *)
(* the worker knows, the announced approvals and the offset of the         *)
(* updates, lives in its memory.  Telegram and Paperclip are external.     *)
(***************************************************************************)
EXTENDS Naturals, Sequences, FiniteSets, FiniteSetsExt, Functions

CONSTANTS
  Approvals,    \* numbered in the order Paperclip lists them
  MaxUpdates,   \* bound on what people do in the chat
  MaxFaults     \* bound on restarts, lost calls and failed look-ups

VARIABLES
  approval,     \* Paperclip: the status of each approval
  comments,     \* Paperclip: how often each update was forwarded as a comment
  chat,         \* Telegram: the cards in the chat, with what they say
  updates,      \* Telegram: presses and replies, in the order of their ids
  confirmed,    \* Telegram: the last update it no longer returns
  worker,       \* memory of the worker: its mode, the announced approvals, the offset
  poll,         \* poller: the approvals of the list it still has to announce
  handler,      \* update loop: what it is doing with the update at the offset
  refused,      \* approvals whose card Telegram refuses, also as plain text
  faults        \* how often each kind of fault happened

tgVars == <<approval, comments, chat, updates, confirmed, worker, poll, handler, refused, faults>>
paperclip == <<approval, comments>>
telegram == <<chat, updates, confirmed>>

Faults == {"restart", "call", "setup"}
Disturbed == FoldFunction(LAMBDA m, n : m + n, 0, faults)
Fault(k) == Disturbed < MaxFaults /\ faults' = [faults EXCEPT ![k] = @ + 1]
NoFault == UNCHANGED faults

Down == [mode |-> "down", notified |-> {}, offset |-> 0]
Decisions == [approve |-> "approved", reject |-> "rejected"]

-----------------------------------------------------------------------------
(* The worker.                                                             *)

\* setup, register and the start of both loops.  Without a token the worker
\* stands by, without a chat it sends no cards.  The update loop steps over
\* whatever waits in the chat; when that look fails it takes all that Telegram
\* still returns.
Setup ==
  /\ worker.mode = "down"
  /\ \/ worker' = [worker EXCEPT !.mode = "active", !.offset = Len(updates)] /\ NoFault
     \/ worker' = [worker EXCEPT !.mode = "active"] /\ Fault("setup")
     \/ worker' = [worker EXCEPT !.mode = "commands", !.offset = Len(updates)] /\ Fault("setup")
     \/ worker' = [worker EXCEPT !.mode = "standby"] /\ Fault("setup")
  /\ UNCHANGED <<paperclip, telegram, poll, handler, refused>>

Restart ==
  /\ worker.mode # "down" /\ Fault("restart")
  /\ worker' = Down /\ poll' = {} /\ handler' = "idle"
  /\ UNCHANGED <<paperclip, telegram, refused>>

-----------------------------------------------------------------------------
(* The poller.                                                             *)

\* What checkPendingApprovals finds to announce.
PollList ==
  /\ worker.mode = "active" /\ poll = {}
  /\ poll' = {a \in Approvals : approval[a] = "pending"} \ worker.notified
  /\ UNCHANGED <<paperclip, telegram, worker, handler, refused, faults>>

Card(a) == [approval |-> a, face |-> "buttons"]
Announced(w, a) == [w EXCEPT !.notified = @ \cup {a}]

\* A plausible slip: the approval is marked before its card is sent.
PollSendMarked ==
  /\ poll # {}
  /\ LET a == Min(poll) IN
     /\ worker' = Announced(worker, a)
     /\ \/ a \notin refused /\ NoFault /\ chat' = Append(chat, Card(a)) /\ poll' = poll \ {a}
        \/ a \in refused /\ NoFault /\ poll' = {} /\ UNCHANGED chat
        \/ a \notin refused /\ Fault("call") /\ poll' = {} /\ UNCHANGED chat
  /\ UNCHANGED <<paperclip, updates, confirmed, handler, refused>>

\* One card; what Telegram cannot parse is sent once more as plain text.  A send
\* that throws ends the pass.
PollSend ==
  /\ poll # {}
  /\ LET a == Min(poll) IN
     \/ a \notin refused /\ NoFault
        /\ chat' = Append(chat, Card(a)) /\ worker' = Announced(worker, a) /\ poll' = poll \ {a}
     \/ a \in refused /\ NoFault
        /\ poll' = {} /\ UNCHANGED <<chat, worker>>
     \/ a \notin refused /\ Fault("call")
        /\ chat' \in {chat, Append(chat, Card(a))} /\ poll' = {} /\ UNCHANGED worker
  /\ UNCHANGED <<paperclip, updates, confirmed, handler, refused>>

-----------------------------------------------------------------------------
(* The update loop.                                                        *)

Current == updates[worker.offset]

\* The next update, out of the batch at hand or of a new getUpdates, which
\* confirms what lies before its offset.  The offset passes the update before
\* its handler runs.
Take ==
  /\ worker.mode \in {"active", "commands"} /\ handler = "idle"
  /\ LET n == Max({worker.offset, confirmed}) + 1 IN
     /\ n <= Len(updates)
     /\ worker' = [worker EXCEPT !.offset = n]
     /\ confirmed' \in {confirmed, Max({worker.offset, confirmed})}
     /\ handler' = IF updates[n].kind = "other" THEN "idle" ELSE updates[n].kind
  /\ UNCHANGED <<paperclip, chat, updates, poll, refused, faults>>

\* A plausible slip: the card is edited whatever became of the decision.
DecideUnchecked ==
  /\ handler = "press" /\ handler' = "show"
  /\ LET a == chat[Current.card].approval IN
     \/ approval[a] = "pending" /\ NoFault /\ approval' = [approval EXCEPT ![a] = Decisions[Current.choice]]
     \/ approval[a] # "pending" /\ NoFault /\ UNCHANGED approval
     \/ approval[a] = "pending" /\ Fault("call") /\ UNCHANGED approval
  /\ UNCHANGED <<comments, telegram, worker, poll, refused>>

\* The decision behind a button.  Any failure is shown as a failed decision,
\* also when only the response was lost.
Decide ==
  /\ handler = "press"
  /\ LET a == chat[Current.card].approval
         decided == [approval EXCEPT ![a] = Decisions[Current.choice]] IN
     \/ approval[a] = "pending" /\ NoFault /\ approval' = decided /\ handler' = "show"
     \/ approval[a] # "pending" /\ NoFault /\ UNCHANGED approval /\ handler' = "idle"
     \/ approval[a] = "pending" /\ Fault("call") /\ approval' \in {approval, decided} /\ handler' = "idle"
  /\ UNCHANGED <<comments, telegram, worker, poll, refused>>

\* The card loses its buttons and says what was decided, or keeps them.
Show ==
  /\ handler = "show" /\ handler' = "idle"
  /\ \/ chat' = [chat EXCEPT ![Current.card].face = Decisions[Current.choice]] /\ NoFault
     \/ UNCHANGED chat /\ Fault("call")
  /\ UNCHANGED <<paperclip, updates, confirmed, worker, poll, refused>>

\* A reply to a clarification question.
Forward ==
  /\ handler = "reply" /\ handler' = "idle"
  /\ LET copied == [comments EXCEPT ![worker.offset] = @ + 1] IN
     \/ comments' = copied /\ NoFault
     \/ comments' \in {comments, copied} /\ Fault("call")
  /\ UNCHANGED <<approval, telegram, worker, poll, refused>>

-----------------------------------------------------------------------------
(* People.                                                                 *)

\* An approval is requested, or the board decides it in Paperclip.
Requested ==
  /\ \E a \in Approvals :
       \/ approval[a] = "absent" /\ approval' = [approval EXCEPT ![a] = "pending"]
       \/ \E d \in {"approved", "rejected"} : approval[a] = "pending" /\ approval' = [approval EXCEPT ![a] = d]
  /\ UNCHANGED <<comments, telegram, worker, poll, handler, refused, faults>>

Acts == [kind : {"press"}, card : DOMAIN chat, choice : {"approve", "reject"}]
        \cup [kind : {"reply", "other"}]

\* A button can be pressed until the card is edited.
SomeoneActs ==
  /\ Len(updates) < MaxUpdates
  /\ \E u \in Acts : /\ u.kind = "press" => chat[u.card].face = "buttons"
                     /\ updates' = Append(updates, u)
  /\ UNCHANGED <<paperclip, chat, confirmed, worker, poll, handler, refused, faults>>

-----------------------------------------------------------------------------
Init ==
  /\ approval = [a \in Approvals |-> "absent"]
  /\ comments = [u \in 1 .. MaxUpdates |-> 0]
  /\ chat = <<>> /\ updates = <<>> /\ confirmed = 0
  /\ worker = Down /\ poll = {} /\ handler = "idle"
  /\ refused \in SUBSET {Min(Approvals)}
  /\ faults = [k \in Faults |-> 0]

Poller == PollList \/ PollSend
UpdateLoop == Take \/ Decide \/ Show \/ Forward
Next == Setup \/ Restart \/ Poller \/ UpdateLoop \/ Requested \/ SomeoneActs

-----------------------------------------------------------------------------
(* Properties.                                                             *)

Copies(a) == Cardinality({c \in DOMAIN chat : chat[c].approval = a})

\* An approval has one card, one more for each restart or lost response; a reply
\* is forwarded once unless a restarted loop could not find its place; and a card
\* that tells a decision tells the one Paperclip holds.
CardsAreHonest ==
  /\ \A a \in Approvals : Copies(a) <= 1 + faults["restart"] + faults["call"]
  /\ \A u \in 1 .. MaxUpdates : comments[u] <= 1 + faults["setup"]
  /\ \A c \in DOMAIN chat : chat[c].face # "buttons" => chat[c].face = approval[chat[c].approval]

Sidelined == worker.mode \in {"standby", "commands"}
Blocked(a) == \E b \in refused : b <= a /\ approval[b] = "pending"

\* A pending approval is announced, unless the worker was set up without a token
\* or a chat, or Telegram refuses the card of an approval listed no later.
AnnouncedAtLast ==
  \A a \in Approvals :
    (approval[a] = "pending") ~> (Copies(a) > 0 \/ approval[a] # "pending" \/ Sidelined \/ Blocked(a))

\* A button pressed while the loop listens decides, once nothing fails any more.
Pressed(u) == u \in DOMAIN updates /\ updates[u].kind = "press"
Settled(u) == Pressed(u) /\ approval[chat[updates[u].card].approval] # "pending"
Listens == worker.mode \in {"active", "commands"} /\ Disturbed = MaxFaults
PressDecides == \A u \in 1 .. MaxUpdates : (Pressed(u) /\ u > worker.offset /\ Listens) ~> Settled(u)
=============================================================================
