----------------------------- MODULE Connection -----------------------------
(***************************************************************************)
(* How one player's phone stays in touch with its room: the connections it *)
(* opens one after the other (net.js, player.js), the goroutines that      *)
(* serve each of them (internal/ws/conn.go, internal/httpapi/ws.go), and   *)
(* what the room's actor does to them (handleAttach, handleDetach,         *)
(* broadcast, the kick, closeRoom and closeAll in internal/room/room.go).  *)
(*                                                                         *)
(* A state of the game is its version; the actor handles a command of      *)
(* somebody else by making the next one and broadcasting it.  A closing    *)
(* handshake, the library's, ends when the phone answers or five seconds   *)
(* have passed, and the goroutine in Conn.Close waits for it: while that   *)
(* is the actor, the room does nothing else.                               *)
(*                                                                         *)
(* Two goroutines that close the same channel end the process: a panic is  *)
(* an outcome here like any other.                                         *)
(*                                                                         *)
(* A definition X_Bug before a definition X is X with a mistake in it; the *)
(* properties must notice when it takes the place of X.                    *)
(***************************************************************************)
EXTENDS Naturals, Sequences, FiniteSets

CONSTANTS Conns,       \* bound: connections the phone has at a time
          NoConn,
          SendBuffer,  \* capacity of Conn.send, 32 in the code
          MaxVersion,  \* bound: versions of the game's state
          MaxDrops     \* bound: times the network loses a connection

ASSUME ConnectionAssumption ==
  /\ NoConn \notin Conns /\ Conns # {}
  /\ SendBuffer \in Nat \ {0} /\ MaxVersion \in Nat \ {0} /\ MaxDrops \in Nat

VARIABLES
  version,   \* of State, the game as the actor has it
  rostered,  \* the player is in State.Players
  online,    \* the player's Connected
  running,   \* Run has not returned, and the room is registered
  member,    \* Room.players[id]
  inbox,
  job,       \* the Close the actor is in the middle of, and what comes after it
  pausing,   \* connections closeRoom has still to close, after its pause
  hand,      \* the goroutine of handleWS and ReadPump, for each connection
  writer,    \* WritePump
  heart,     \* HeartbeatPump
  buffer,    \* Conn.send
  closed,    \* Conn.closed is closed
  closer,    \* the goroutines that have found it open and will close it
  socket,
  wire,      \* what the server has written and the phone not yet read
  wrapper,   \* the phone's createConnection
  link,      \* its WebSocket
  shown,     \* the version the phone shows, 0 before the first
  missed,    \* history: the last broadcast did not fit the member's buffer
  drops,
  crashed    \* the process has panicked

roomVars == <<version, rostered, online, running, member, inbox, job, pausing>>
pumpVars == <<hand, writer, heart>>
closeVars == <<closed, closer, socket, crashed>>
phoneVars == <<wrapper, link, shown>>
vars == <<roomVars, pumpVars, closeVars, buffer, wire, phoneVars, missed, drops>>

Notices == {"kicked", "roomClosed"}

Payload == [kind : Notices \cup {"state"}, version : 0 .. MaxVersion]

State(v) == [kind |-> "state", version |-> v]

Notice(kind) == [kind |-> kind, version |-> 0]

Goroutines == {"actor", "pause", "writer", "heart"}

NoJob == [kind |-> "none", conn |-> NoConn, next |-> NoConn]

Jobs == [kind : {"none", "evict", "kick", "stop"},
         conn : Conns \cup {NoConn}, next : Conns \cup {NoConn}]

\* Whoever closes a connection is one of its goroutines or has it in hand, a
\* buffer keeps its bound, and the phone shows nothing the room has not been.
TypeOK ==
  /\ version \in 1 .. MaxVersion /\ shown \in 0 .. version
  /\ rostered \in BOOLEAN /\ online \in BOOLEAN /\ running \in BOOLEAN
  /\ missed \in BOOLEAN /\ crashed \in BOOLEAN /\ drops \in 0 .. MaxDrops
  /\ member \in Conns \cup {NoConn} /\ job \in Jobs /\ pausing \subseteq Conns
  /\ inbox \in Seq([kind : {"attach", "detach"}, conn : Conns])
  /\ hand \in [Conns -> {"free", "attaching", "attached", "refused", "reading",
                         "detaching", "over"}]
  /\ writer \in [Conns -> {"off", "on", "done"}]
  /\ heart \in [Conns -> {"off", "on", "done"}]
  /\ closed \in [Conns -> BOOLEAN] /\ closer \in [Conns -> SUBSET Goroutines]
  /\ socket \in [Conns -> {"open", "dead", "closing", "closed"}]
  /\ buffer \in [Conns -> Seq(Payload)] /\ wire \in [Conns -> Seq(Payload)]
  /\ wrapper \in {"waiting", "up", "stopped"} /\ link \in Conns \cup {NoConn}
  /\ \A c \in Conns :
       /\ Len(buffer[c]) <= SendBuffer
       /\ "pause" \in closer[c] => member # c
       /\ "actor" \in closer[c] => job.conn = c /\ c \notin pausing

\* The player has joined and the phone is about to connect.
Init ==
  /\ version = 1 /\ rostered = TRUE /\ online = TRUE /\ running = TRUE
  /\ member = NoConn /\ inbox = <<>> /\ job = NoJob /\ pausing = {}
  /\ hand = [c \in Conns |-> "free"]
  /\ writer = [c \in Conns |-> "off"] /\ heart = [c \in Conns |-> "off"]
  /\ buffer = [c \in Conns |-> <<>>] /\ wire = [c \in Conns |-> <<>>]
  /\ closed = [c \in Conns |-> FALSE] /\ closer = [c \in Conns |-> {}]
  /\ socket = [c \in Conns |-> "closed"]
  /\ wrapper = "waiting" /\ link = NoConn /\ shown = 0
  /\ missed = FALSE /\ drops = 0 /\ crashed = FALSE

-----------------------------------------------------------------------------
(* Conn: a send that never blocks, and a close in three steps.             *)

Fits_OneMore(c) == Len(buffer[c]) <= SendBuffer

Fits(c) == Len(buffer[c]) < SendBuffer

\* A connection that is being closed may take a message or not, and what is
\* queued after its write pump has ended is never read.
SendJSON(c, m) ==
  \/ /\ Fits(c) /\ writer[c] # "done"
     /\ buffer' = [buffer EXCEPT ![c] = Append(@, m)]
  \/ /\ ~Fits(c) \/ closed[c] \/ writer[c] = "done"
     /\ UNCHANGED buffer

\* Close finds the channel open, or goes on to the handshake at once.
BeginClose(c, g) ==
  closer' = [closer EXCEPT ![c] = IF closed[c] THEN @ ELSE @ \cup {g}]

HalfShut(c) == IF socket[c] = "closed" THEN "closed" ELSE "closing"

FinishClose(c, g) ==
  /\ g \in closer[c]
  /\ closer' = [closer EXCEPT ![c] = @ \ {g}]
  /\ IF closed[c]
     THEN crashed' = TRUE /\ UNCHANGED <<closed, socket>>
     ELSE /\ closed' = [closed EXCEPT ![c] = TRUE]
          /\ socket' = [socket EXCEPT ![c] = HalfShut(c)]
          /\ UNCHANGED crashed
  /\ UNCHANGED <<roomVars, pumpVars, buffer, wire, phoneVars, missed, drops>>

\* The handshake's five seconds are over.
HandshakeEnds(c) ==
  /\ socket[c] = "closing"
  /\ socket' = [socket EXCEPT ![c] = "closed"]
  /\ UNCHANGED <<roomVars, pumpVars, closed, closer, crashed, buffer, wire,
                 phoneVars, missed, drops>>

-----------------------------------------------------------------------------
(* The goroutines that serve a connection.                                 *)

Goes(c, place) == hand' = [hand EXCEPT ![c] = place]

Start(c) ==
  /\ hand[c] = "attached"
  /\ Goes(c, "reading")
  /\ writer' = [writer EXCEPT ![c] = "on"] /\ heart' = [heart EXCEPT ![c] = "on"]
  /\ UNCHANGED <<roomVars, closeVars, buffer, wire, phoneVars, missed, drops>>

\* handleWS closes a connection that was refused; no pump was started.
Reject(c) ==
  /\ hand[c] = "refused"
  /\ Goes(c, "over")
  /\ socket' = [socket EXCEPT ![c] = HalfShut(c)]
  /\ UNCHANGED <<roomVars, writer, heart, closed, closer, crashed, buffer, wire,
                 phoneVars, missed, drops>>

ReadFails(c) ==
  /\ hand[c] = "reading" /\ socket[c] = "closed"
  /\ Goes(c, "detaching")
  /\ UNCHANGED <<roomVars, writer, heart, closeVars, buffer, wire, phoneVars,
                 missed, drops>>

\* onClose detaches, then cancels the context of the pumps.
Detach(c) ==
  /\ hand[c] = "detaching"
  /\ Goes(c, "over")
  /\ inbox' = Append(inbox, [kind |-> "detach", conn |-> c])
  /\ UNCHANGED <<version, rostered, online, running, member, job, pausing,
                 writer, heart, closeVars, buffer, wire, phoneVars, missed, drops>>

Handler(c) == Start(c) \/ Reject(c) \/ ReadFails(c) \/ Detach(c)

\* A write to a connection the network has lost is lost with it.
Write(c) ==
  /\ writer[c] = "on" /\ buffer[c] # <<>> /\ socket[c] \in {"open", "dead"}
  /\ buffer' = [buffer EXCEPT ![c] = Tail(@)]
  /\ wire' = IF socket[c] = "open"
             THEN [wire EXCEPT ![c] = Append(@, Head(buffer[c]))] ELSE wire
  /\ UNCHANGED <<roomVars, pumpVars, closeVars, phoneVars, missed, drops>>

\* A failed or overdue write, the closed channel or the cancelled context ends
\* the pump, and its deferred Close begins.
WriterEnds(c) ==
  /\ writer[c] = "on"
  /\ \/ buffer[c] # <<>> /\ socket[c] # "open"
     \/ closed[c] \/ hand[c] = "over"
  /\ writer' = [writer EXCEPT ![c] = "done"]
  /\ buffer' = [buffer EXCEPT ![c] = <<>>]
  /\ BeginClose(c, "writer")
  /\ UNCHANGED <<roomVars, hand, heart, closed, socket, crashed, wire, phoneVars,
                 missed, drops>>

Writer(c) == Write(c) \/ WriterEnds(c) \/ FinishClose(c, "writer")

PingFails_IfToldSo(c) == socket[c] = "closed"

PingFails(c) == socket[c] # "open"

\* Only a ping that fails closes the connection.
HeartFails(c) ==
  /\ heart[c] = "on" /\ PingFails(c)
  /\ heart' = [heart EXCEPT ![c] = "done"]
  /\ BeginClose(c, "heart")
  /\ UNCHANGED <<roomVars, hand, writer, closed, socket, crashed, buffer, wire,
                 phoneVars, missed, drops>>

HeartStops(c) ==
  /\ heart[c] = "on" /\ (closed[c] \/ hand[c] = "over")
  /\ heart' = [heart EXCEPT ![c] = "done"]
  /\ UNCHANGED <<roomVars, hand, writer, closeVars, buffer, wire, phoneVars,
                 missed, drops>>

Heart(c) == HeartFails(c) \/ HeartStops(c) \/ FinishClose(c, "heart")

-----------------------------------------------------------------------------
(* The room's actor, which handles one message at a time.                  *)

Free == running /\ job = NoJob

\* Bound: what happens to the room after the player is out of it is left out.
Playing == Free /\ rostered

\* A new state is sent to the player's connection, if there is one.
Broadcast ==
  IF member = NoConn THEN UNCHANGED <<buffer, missed>>
  ELSE SendJSON(member, State(version')) /\ missed' = (buffer' = buffer)

\* Somebody else's command changes the game.
Change ==
  /\ Playing /\ version < MaxVersion
  /\ version' = version + 1
  /\ Broadcast
  /\ UNCHANGED <<rostered, online, running, member, inbox, job, pausing,
                 pumpVars, closeVars, wire, phoneVars, drops>>

\* The first state, which follows at once as a broadcast if the player was away.
FirstNews ==
  IF online \/ SendBuffer = 1 THEN <<State(version)>>
  ELSE <<State(version), State(version)>>

Install(c) ==
  /\ member' = c /\ online' = TRUE
  /\ Goes(c, "attached")
  /\ buffer' = [buffer EXCEPT ![c] = FirstNews] /\ missed' = FALSE

\* A player who is no longer in the roster is refused; a connection the player
\* still has is closed first.
HandleAttach(c) ==
  \/ /\ ~rostered
     /\ Goes(c, "refused")
     /\ UNCHANGED <<online, member, job, closer, buffer, missed>>
  \/ /\ rostered /\ member \in {NoConn, c}
     /\ Install(c)
     /\ UNCHANGED <<job, closer>>
  \/ /\ rostered /\ member \notin {NoConn, c}
     /\ job' = [kind |-> "evict", conn |-> member, next |-> c]
     /\ BeginClose(member, "actor")
     /\ UNCHANGED <<online, member, hand, buffer, missed>>

HoldsSeat_Anyway(c) == TRUE

HoldsSeat(c) == member = c

HandleDetach(c) ==
  /\ IF HoldsSeat(c)
     THEN member' = NoConn /\ online' = FALSE
     ELSE UNCHANGED <<member, online>>
  /\ UNCHANGED <<job, hand, closer, buffer, missed>>

Receive ==
  /\ Free /\ inbox # <<>>
  /\ inbox' = Tail(inbox)
  /\ \/ Head(inbox).kind = "attach" /\ HandleAttach(Head(inbox).conn)
     \/ Head(inbox).kind = "detach" /\ HandleDetach(Head(inbox).conn)
  /\ UNCHANGED <<version, rostered, running, pausing, writer, heart, closed,
                 socket, crashed, wire, phoneVars, drops>>

\* The notice is queued and the connection closed at once.
Kick ==
  /\ Playing
  /\ rostered' = FALSE /\ online' = FALSE /\ missed' = FALSE
  /\ IF member = NoConn THEN UNCHANGED <<job, closer, buffer>>
     ELSE /\ SendJSON(member, Notice("kicked"))
          /\ BeginClose(member, "actor")
          /\ job' = [kind |-> "kick", conn |-> member, next |-> NoConn]
  /\ UNCHANGED <<version, running, member, inbox, pausing, pumpVars, closed,
                 socket, crashed, wire, phoneVars, drops>>

\* closeAll, and Run returns when it is through.
CloseAll(conn) ==
  IF conn = NoConn THEN running' = FALSE /\ UNCHANGED <<job, closer>>
  ELSE /\ job' = [kind |-> "stop", conn |-> conn, next |-> NoConn]
       /\ BeginClose(conn, "actor")
       /\ UNCHANGED running

StillListed_Everybody == member

\* closeRoom empties the maps that closeAll goes through.
StillListed == NoConn

\* closeRoom: the notice is queued, and a goroutine left to close the connection.
CloseRoom ==
  /\ Playing
  /\ member' = StillListed /\ pausing' = {member} \ {NoConn}
  /\ IF member = NoConn THEN UNCHANGED buffer
     ELSE SendJSON(member, Notice("roomClosed"))
  /\ CloseAll(StillListed)
  /\ online' = FALSE /\ missed' = FALSE
  /\ UNCHANGED <<version, rostered, inbox, pumpVars, closed, socket, crashed, wire,
                 phoneVars, drops>>

\* Idle or shut down, the room closes what it still has.
Stop ==
  /\ Playing
  /\ CloseAll(member)
  /\ online' = FALSE /\ missed' = FALSE
  /\ UNCHANGED <<version, rostered, member, inbox, pausing, pumpVars, closed,
                 socket, crashed, buffer, wire, phoneVars, drops>>

\* The Close has returned, and the handler goes on.
JobDone ==
  /\ job # NoJob /\ "actor" \notin closer[job.conn] /\ socket[job.conn] = "closed"
  /\ job' = NoJob
  /\ running' = (job.kind # "stop")
  /\ IF job.kind = "evict" THEN Install(job.next)
     ELSE /\ member' = NoConn
          /\ UNCHANGED <<online, hand, buffer, missed>>
  /\ UNCHANGED <<version, rostered, inbox, pausing, writer, heart, closeVars,
                 wire, phoneVars, drops>>

Actor == Receive \/ JobDone \/ \E c \in Conns : FinishClose(c, "actor")

\* 400 ms, in which a write pump that can write has written the notice.
Flushed(c) ==
  hand[c] # "attached" /\ (buffer[c] = <<>> \/ writer[c] # "on" \/ socket[c] # "open")

PauseEnds(c) ==
  /\ c \in pausing /\ Flushed(c)
  /\ pausing' = pausing \ {c}
  /\ BeginClose(c, "pause")
  /\ UNCHANGED <<version, rostered, online, running, member, inbox, job,
                 pumpVars, closed, socket, crashed, buffer, wire, phoneVars,
                 missed, drops>>

Pause == \E c \in Conns : PauseEnds(c) \/ FinishClose(c, "pause")

-----------------------------------------------------------------------------
(* The phone and the network.                                              *)

\* Nothing of the connection is left, on either side or in the room.
Gone(c) ==
  /\ hand[c] \in {"free", "over"} /\ writer[c] # "on" /\ heart[c] # "on"
  /\ closer[c] = {} /\ socket[c] = "closed" /\ c \notin pausing
  /\ c \notin {member, job.conn, job.next, link}
  /\ \A i \in DOMAIN inbox : inbox[i].conn # c

\* The wrapper opens a WebSocket, at first and after each back-off.  The request
\* of a room that is not there is answered 404, and the next back-off begins.
Dial ==
  /\ wrapper = "waiting" /\ running
  /\ \E c \in Conns : Gone(c)
  /\ LET c == CHOOSE d \in Conns : Gone(d)
     IN /\ Goes(c, "attaching")
        /\ inbox' = Append(inbox, [kind |-> "attach", conn |-> c])
        /\ writer' = [writer EXCEPT ![c] = "off"]
        /\ heart' = [heart EXCEPT ![c] = "off"]
        /\ buffer' = [buffer EXCEPT ![c] = <<>>]
        /\ wire' = [wire EXCEPT ![c] = <<>>]
        /\ closed' = [closed EXCEPT ![c] = FALSE]
        /\ socket' = [socket EXCEPT ![c] = "open"]
        /\ link' = c
  /\ wrapper' = "up"
  /\ UNCHANGED <<version, rostered, online, running, member, job, pausing,
                 closer, crashed, shown, missed, drops>>

\* onmessage.  A notice makes the phone close its connection for good.
Hear ==
  /\ wrapper = "up" /\ wire[link] # <<>>
  /\ LET m == Head(wire[link])
     IN IF m.kind \in Notices
        THEN /\ wrapper' = "stopped" /\ link' = NoConn
             /\ socket' = [socket EXCEPT ![link] = "closed"]
             /\ wire' = [wire EXCEPT ![link] = <<>>]
             /\ UNCHANGED shown
        ELSE /\ shown' = m.version
             /\ wire' = [wire EXCEPT ![link] = Tail(@)]
             /\ UNCHANGED <<wrapper, link, socket>>
  /\ UNCHANGED <<roomVars, pumpVars, closed, closer, crashed, buffer, missed, drops>>

\* onclose: the server's close frame comes after all it has written, and a
\* connection the network has lost is reported in the end.  The wrapper tries
\* again whatever the reason.
HangUp ==
  /\ wrapper = "up" /\ wire[link] = <<>> /\ socket[link] # "open"
  /\ wrapper' = "waiting" /\ link' = NoConn
  /\ socket' = [socket EXCEPT ![link] = IF @ = "closing" THEN "closed" ELSE @]
  /\ UNCHANGED <<roomVars, pumpVars, closed, closer, crashed, buffer, wire,
                 shown, missed, drops>>

Phone == Dial \/ Hear \/ HangUp

\* The network loses a connection, or its phone goes away and stays away; the
\* server hears of it or does not.
Drop(c) ==
  /\ socket[c] = "open" /\ drops < MaxDrops
  /\ drops' = drops + 1
  /\ \E end \in {"dead", "closed"} : socket' = [socket EXCEPT ![c] = end]
  /\ wire' = [wire EXCEPT ![c] = <<>>]
  /\ \/ UNCHANGED <<wrapper, link>>
     \/ link = c /\ wrapper' = "stopped" /\ link' = NoConn
  /\ UNCHANGED <<roomVars, pumpVars, closed, closer, crashed, buffer, shown,
                 missed>>

-----------------------------------------------------------------------------
Serve(c) == Handler(c) \/ Writer(c) \/ Heart(c) \/ HandshakeEnds(c)

Next ==
  /\ ~crashed
  /\ \/ Actor \/ Pause \/ Phone
     \/ Change \/ Kick \/ CloseRoom \/ Stop
     \/ \E c \in Conns : Serve(c) \/ Drop(c)

Spec == Init /\ [][Next]_vars

\* The scheduler runs every goroutine that can run (those of one connection have
\* finitely many steps each, so that none can starve another); pings, writes and
\* handshakes time out; the browser reads, reports a lost connection and ends its
\* back-off.  No command need come, and the network need lose nothing.
Fairness ==
  /\ WF_vars(~crashed /\ Actor)
  /\ WF_vars(~crashed /\ Pause)
  /\ WF_vars(~crashed /\ Phone)
  /\ \A c \in Conns : WF_vars(~crashed /\ Serve(c))

FairSpec == Spec /\ Fairness

-----------------------------------------------------------------------------
\* The phone catches up: as long as the room stays up and the player in it, and
\* the phone there, one that has been disconnected, evicted by its own retry or
\* left half open ends up showing the state the game is in, unless the last
\* broadcast found its buffer full (SendJSON counts on a next one).
CatchesUp ==
  <>[]\/ shown = version \/ missed
      \/ ~rostered \/ ~running \/ wrapper = "stopped" \/ crashed

\* A connection that is lost or closed leaves nothing behind: its three
\* goroutines end, its close is finished and the room lets go of it, even one
\* that only the heartbeat can tell is dead.
ConnectionEnds ==
  \A c \in Conns :
    hand[c] = "reading" /\ socket[c] # "open" ~>
      \/ /\ hand[c] = "over" /\ writer[c] = "done" /\ heart[c] = "done"
         /\ closer[c] = {} /\ (member # c \/ ~running)
      \/ crashed

\* Whoever is told goes: the phone stops trying to reconnect.
Told(notice) ==
  /\ wrapper = "up" /\ socket[link] = "open" /\ drops = MaxDrops
  /\ \E i \in DOMAIN buffer[link] : buffer[link][i] = Notice(notice)

\* A phone that is connected when the host closes the room gets the notice
\* queued for it, and stops: the pause gives the write pump its time.
ClosedPhoneStops == Told("roomClosed") ~> wrapper = "stopped" \/ crashed

-----------------------------------------------------------------------------
\* So does the phone of a player who is kicked.
KickedPhoneStops == Told("kicked") ~> wrapper = "stopped" \/ crashed
=============================================================================
