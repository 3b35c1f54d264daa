------------------------------ MODULE RoomActor ------------------------------
(***************************************************************************)
(* One room as its goroutines see it: the actor (Room.Run in               *)
(* internal/room/room.go), the HTTP handlers that call into it through its *)
(* inbox (internal/httpapi/ws.go, rooms.go), and its entry in the          *)
(* directory of rooms (internal/room/registry.go).                         *)
(*                                                                         *)
(* A caller is the goroutine of one request: a WebSocket connection, which *)
(* attaches, passes on what its client sends and detaches at the end; a    *)
(* join; or a summary, the one call that gives up waiting.  What a message *)
(* does to the game is Game.tla's business; here it is play, a kick or     *)
(* closeRoom.  Whether an attach is granted is Session.tla's business and  *)
(* a free choice here.  The idle timer and the sleeps are free to end at   *)
(* any time.                                                               *)
(*                                                                         *)
(* A definition X_Bug before a definition X is X with a mistake in it; the *)
(* properties must notice when it takes the place of X.                    *)
(***************************************************************************)
EXTENDS Naturals, Sequences, FiniteSets

CONSTANTS Conns,       \* WebSocket connections
          Joiners,     \* join requests
          Askers,      \* summary requests
          Seats,       \* players; every other screen has a seat to itself
          Seat,        \* the seat of each connection
          Controllers, \* the connections that may kick and close the room
          InboxSize    \* capacity of the inbox, 256 in the code

Callers == Conns \cup Joiners \cup Askers

ASSUME RoomActorAssumption ==
  /\ Seat \in [Conns -> Seats]
  /\ Controllers \subseteq Conns
  /\ InboxSize \in Nat \ {0}
  /\ Conns \cap (Joiners \cup Askers) = {} /\ Joiners \cap Askers = {}

VARIABLES
  registered,  \* the room is in Manager.rooms
  running,     \* Run has not returned
  inbox,
  members,     \* the connections in Room.players, controllers and hosts
  closing,     \* connections closeRoom has still to close, after its pause
  idleFired,   \* the idle timer's channel holds a tick
  at,          \* where each caller's goroutine is
  unsent,      \* what each connection has read and not yet sent to the inbox
  open,        \* connections not closed by either end
  shutdown,    \* the server's context is cancelled
  exited       \* the process is gone

roomVars == <<registered, running, members, closing, idleFired>>
vars == <<roomVars, inbox, at, unsent, open, shutdown, exited>>

\* A seat stands for its kick, which does nothing to a seat that is no player's.
Texts == {"play", "closeRoom"} \cup {Seat[c] : c \in Conns \ Controllers}

Messages ==
  [kind : {"attach", "join", "summary", "detach"}, from : Callers]
    \cup [kind : {"text"}, from : Conns, text : Texts]

Request(kind, x) == [kind |-> kind, from |-> x]

Text(c, t) == [kind |-> "text", from |-> c, text |-> t]

Places == {"start", "found", "waiting", "reading", "posting", "detaching", "done"}

\* A caller is at one place of its goroutine, and a message has a sender.
TypeOK ==
  /\ registered \in BOOLEAN /\ running \in BOOLEAN
  /\ shutdown \in BOOLEAN /\ exited \in BOOLEAN /\ idleFired \in BOOLEAN
  /\ inbox \in Seq(Messages) /\ Len(inbox) <= InboxSize
  /\ members \subseteq Conns /\ closing \subseteq Conns /\ open \subseteq Conns
  /\ at \in [Callers -> Places] /\ unsent \in [Conns -> Texts]

\* Manager.Create has registered the room and started its goroutine.
Init ==
  /\ registered = TRUE /\ running = TRUE
  /\ shutdown = FALSE /\ exited = FALSE /\ idleFired = FALSE
  /\ inbox = <<>>
  /\ members = {} /\ closing = {} /\ open = Conns
  /\ at = [x \in Callers |-> "start"]
  /\ unsent = [c \in Conns |-> "play"]

-----------------------------------------------------------------------------
(* The callers.  A send to a full inbox blocks; so does waiting for a      *)
(* reply, which has a buffer of its own and never blocks the actor.        *)

Goes(x, place) == at' = [at EXCEPT ![x] = place]

Send_NoLimit(message) == inbox' = Append(inbox, message)

Send(message) == Len(inbox) < InboxSize /\ inbox' = Append(inbox, message)

\* Manager.Get, without which a handler answers that there is no room.
Get(x) ==
  /\ at[x] = "start"
  /\ Goes(x, IF registered THEN "found" ELSE "done")
  /\ open' = IF registered THEN open ELSE open \ {x}
  /\ UNCHANGED <<roomVars, inbox, unsent, shutdown, exited>>

Kind(x) == IF x \in Conns THEN "attach"
           ELSE IF x \in Joiners THEN "join" ELSE "summary"

\* Attach, Join, Summary: send the request and wait for the reply.
Call(x) ==
  /\ at[x] = "found"
  /\ Send(Request(Kind(x), x))
  /\ Goes(x, "waiting")
  /\ UNCHANGED <<roomVars, unsent, open, shutdown, exited>>

\* Summary gives up after two seconds, on the send or on the reply.
GiveUp(x) ==
  /\ x \in Askers /\ at[x] \in {"found", "waiting"}
  /\ Goes(x, "done")
  /\ UNCHANGED <<roomVars, inbox, unsent, open, shutdown, exited>>

\* ReadPump hands each message to HandleClientMessage before it reads the next.
Read(c, t) ==
  /\ at[c] = "reading" /\ c \in open
  /\ t # "play" => c \in Controllers
  /\ Goes(c, "posting") /\ unsent' = [unsent EXCEPT ![c] = t]
  /\ UNCHANGED <<roomVars, inbox, open, shutdown, exited>>

Post(c) ==
  /\ at[c] = "posting"
  /\ Send(Text(c, unsent[c]))
  /\ Goes(c, "reading") /\ unsent' = [unsent EXCEPT ![c] = "play"]
  /\ UNCHANGED <<roomVars, open, shutdown, exited>>

\* A read error ends ReadPump, and onClose detaches.
ReadFails(c) ==
  /\ at[c] = "reading" /\ c \notin open
  /\ Goes(c, "detaching")
  /\ UNCHANGED <<roomVars, inbox, unsent, open, shutdown, exited>>

Detach_IfRoom(c) ==
  /\ at[c] = "detaching"
  /\ IF Len(inbox) < InboxSize THEN inbox' = Append(inbox, Request("detach", c))
                               ELSE UNCHANGED inbox
  /\ Goes(c, "done")
  /\ UNCHANGED <<roomVars, unsent, open, shutdown, exited>>

Detach(c) ==
  /\ at[c] = "detaching"
  /\ Send(Request("detach", c))
  /\ Goes(c, "done")
  /\ UNCHANGED <<roomVars, unsent, open, shutdown, exited>>

\* The client goes away, or a write or a ping fails.
Drop(c) ==
  /\ at[c] = "reading" /\ c \in open
  /\ open' = open \ {c}
  /\ UNCHANGED <<roomVars, inbox, at, unsent, shutdown, exited>>

-----------------------------------------------------------------------------
(* The actor handles one message at a time.                                *)

SameSeat(c) == {d \in members \ {c} : Seat[d] = Seat[c]}

\* The connection that held the seat is closed and replaced.
Admit(c) ==
  /\ members' = (members \ SameSeat(c)) \cup {c}
  /\ open' = open \ SameSeat(c)
  /\ Goes(c, "reading")

Refuse(c) ==
  /\ open' = open \ {c}
  /\ Goes(c, "done")
  /\ UNCHANGED members

HandleAttach(c) ==
  /\ Admit(c) \/ Refuse(c)
  /\ UNCHANGED <<running, registered, closing>>

\* An asker that has given up is not there to take its answer.
HandleQuestion(x) ==
  /\ Goes(x, "done")
  /\ UNCHANGED <<running, registered, members, closing, open>>

Left_WholeSeat(c) == {d \in members : Seat[d] = Seat[c]}

\* Only the connection that still holds its seat leaves it.
Left(c) == members \cap {c}

HandleDetach(c) ==
  /\ members' = members \ Left(c)
  /\ UNCHANGED <<running, registered, closing, at, open>>

HandleKick(seat) ==
  LET kicked == {d \in members \ Controllers : Seat[d] = seat}
  IN /\ members' = members \ kicked
     /\ open' = open \ kicked
     /\ UNCHANGED <<running, registered, closing, at>>

Closing_None == {}

\* Everybody connected is told at once and hung up on after a pause.
Closing == members

\* closeRoom, after which Run returns and onEmpty removes the room.
HandleCloseRoom ==
  /\ members' = {} /\ closing' = Closing
  /\ running' = FALSE /\ registered' = FALSE
  /\ UNCHANGED <<at, open>>

HandleText(t) ==
  \/ t = "closeRoom" /\ HandleCloseRoom
  \/ t \in Seats /\ HandleKick(t)
  \/ t = "play" /\ UNCHANGED <<running, registered, members, closing, at, open>>

Dispatch(message) ==
  \/ message.kind = "attach" /\ HandleAttach(message.from)
  \/ message.kind \in {"join", "summary"} /\ HandleQuestion(message.from)
  \/ message.kind = "detach" /\ HandleDetach(message.from)
  \/ message.kind = "text" /\ HandleText(message.text)

\* Any message puts off the idle timer, as long as somebody is connected.
Receive ==
  /\ running /\ inbox # <<>>
  /\ inbox' = Tail(inbox)
  /\ Dispatch(Head(inbox))
  /\ idleFired' = (idleFired /\ members' = {})
  /\ UNCHANGED <<unsent, shutdown, exited>>

IdleFires ==
  /\ running /\ ~idleFired
  /\ idleFired' = TRUE
  /\ UNCHANGED <<registered, running, members, closing, inbox, at, unsent,
                 open, shutdown, exited>>

\* Run returns, closing every connection of the room; only a room that went
\* idle is also removed from the directory.
Return(stillListed) ==
  /\ running /\ running' = FALSE
  /\ registered' = stillListed
  /\ open' = open \ members
  /\ UNCHANGED <<members, closing, idleFired, inbox, at, unsent, shutdown,
                 exited>>

GoneIdle == idleFired /\ Return(FALSE)

ShutDown == shutdown /\ Return(registered)

CloseAfterPause ==
  /\ closing # {} /\ closing' = {}
  /\ open' = open \ closing
  /\ UNCHANGED <<registered, running, members, idleFired, inbox, at, unsent,
                 shutdown, exited>>

\* A signal cancels the context; main returns within ten seconds of it.
Signal ==
  /\ ~shutdown /\ shutdown' = TRUE
  /\ UNCHANGED <<roomVars, inbox, at, unsent, open, exited>>

Exit ==
  /\ shutdown /\ exited' = TRUE
  /\ UNCHANGED <<roomVars, inbox, at, unsent, open, shutdown>>

-----------------------------------------------------------------------------
Conversation(c) == ReadFails(c) \/ Post(c) \/ Detach(c)

Next ==
  /\ ~exited
  /\ \/ \E x \in Callers : Get(x) \/ Call(x) \/ GiveUp(x)
     \/ \E c \in Conns : Conversation(c) \/ Drop(c) \/ \E t \in Texts : Read(c, t)
     \/ Receive \/ IdleFires \/ GoneIdle \/ ShutDown \/ CloseAfterPause
     \/ Signal \/ Exit

Spec == Init /\ [][Next]_vars

\* The scheduler runs every goroutine that is not blocked, a channel serves its
\* blocked senders in turn, and sleeps and timeouts end.  Nobody has to send
\* anything, and the idle timer and the signal need never come.
Fairness ==
  /\ WF_vars(~exited /\ Receive)
  /\ WF_vars(~exited /\ CloseAfterPause)
  /\ WF_vars(~exited /\ ShutDown)
  /\ WF_vars(~exited /\ Exit)
  /\ \A x \in Callers \ Askers : SF_vars(~exited /\ Call(x))
  /\ \A x \in Askers : WF_vars(~exited /\ GiveUp(x))
  /\ \A c \in Conns : SF_vars(~exited /\ Conversation(c))

FairSpec == Spec /\ Fairness

-----------------------------------------------------------------------------
\* Whoever is connected is served: while the room runs, an accepted connection
\* that nobody has closed is one the room broadcasts to.  A connection replaced
\* by a reconnect or kicked is closed in the same step, and its late detach
\* takes nobody else's seat away.
OpenIsServed ==
  \A c \in Conns :
    running /\ c \in open /\ at[c] \notin {"start", "found", "waiting", "done"}
      => c \in members

\* The room counts nobody who has left for good: a member is still being read
\* from, or its detach is on the way.  connectionCount, which keeps an idle
\* room alive, and the offline marks of players rest on this.
NoGhosts ==
  \A c \in members :
    \/ at[c] \in {"reading", "posting", "detaching"}
    \/ \E i \in DOMAIN inbox : inbox[i] = Request("detach", c)
    \/ ~running

\* While the room runs, nobody is left waiting for its answer; once it does not,
\* no summary is, and nobody it accepted is still connected.
Settled ==
  IF running
  THEN \A x \in Callers : at[x] # "waiting"
  ELSE /\ \A x \in Askers : at[x] # "waiting"
       /\ \A c \in Conns : at[c] = "reading" => c \notin open

\* Everything comes to rest.  A room that stays up answers every request it is
\* sent; one that has closed, idled or shut down hangs up on every connection it
\* had accepted; and a summary comes back either way, with the room's answer or
\* without it.
Settles == <>[](Settled \/ exited)

-----------------------------------------------------------------------------
\* Attach and Join block only briefly for the actor to answer.
CallersAnswered ==
  \A x \in Callers : at[x] = "waiting" ~> at[x] # "waiting" \/ exited
=============================================================================
