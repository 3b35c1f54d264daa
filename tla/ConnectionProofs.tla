--------------------------- MODULE ConnectionProofs ---------------------------
(***************************************************************************)
(* Theorems about a phone and its room (Connection.tla), for any number of *)
(* connections, any buffer and any loss.                                   *)
(*                                                                         *)
(* Two parts of the type invariant are not about types.  The phone shows   *)
(* no state the room has not been in: that needs every message on the way  *)
(* to be of such a state (QueueInv).  And a Close in hand is somebody's:   *)
(* the actor's is the one of its job, and closeRoom's pause only ever      *)
(* closes a connection of a room that has returned and has neither member  *)
(* nor job any more (CloseInv).                                            *)
(***************************************************************************)
EXTENDS Connection, TLAPS

Letters == [kind : {"attach", "detach"}, conn : Conns]

RoomInv ==
  /\ version \in 1 .. MaxVersion
  /\ rostered \in BOOLEAN /\ online \in BOOLEAN /\ running \in BOOLEAN
  /\ missed \in BOOLEAN /\ crashed \in BOOLEAN /\ drops \in 0 .. MaxDrops
  /\ member \in Conns \cup {NoConn} /\ job \in Jobs /\ pausing \subseteq Conns
  /\ job # NoJob => job.conn \in Conns
  /\ job.kind = "evict" => job.next \in Conns
  /\ inbox \in Seq(Letters)

PumpInv ==
  /\ hand \in [Conns -> {"free", "attaching", "attached", "refused", "reading",
                         "detaching", "over"}]
  /\ writer \in [Conns -> {"off", "on", "done"}]
  /\ heart \in [Conns -> {"off", "on", "done"}]
  /\ closed \in [Conns -> BOOLEAN] /\ closer \in [Conns -> SUBSET Goroutines]
  /\ socket \in [Conns -> {"open", "dead", "closing", "closed"}]

\* Messages of states up to v.
UpTo(v) == {m \in Payload : m.version <= v}

QueueInv ==
  /\ buffer \in [Conns -> Seq(UpTo(version))] /\ wire \in [Conns -> Seq(UpTo(version))]
  /\ \A c \in Conns : Len(buffer[c]) <= SendBuffer

PhoneInv ==
  /\ shown \in 0 .. version
  /\ wrapper \in {"waiting", "up", "stopped"} /\ link \in Conns \cup {NoConn}
  /\ wrapper = "up" => link \in Conns

CloseInv ==
  \A c \in Conns :
    /\ "actor" \in closer[c] => job.conn = c
    /\ "pause" \in closer[c] \/ c \in pausing => ~running /\ member = NoConn /\ job = NoJob

IInv == RoomInv /\ PumpInv /\ QueueInv /\ PhoneInv /\ CloseInv

LEMMA StartsWell == Init => IInv
<1> SUFFICES ASSUME Init PROVE IInv
  OBVIOUS
<1>1. RoomInv /\ PhoneInv
  <2>1. 1 \in 1 .. MaxVersion /\ 0 \in 0 .. MaxDrops /\ 0 \in 0 .. 1
    BY ConnectionAssumption
  <2>2. job \in Jobs /\ job = NoJob /\ job.kind = "none"
    BY DEF Init, NoJob, Jobs
  <2>3. inbox \in Seq(Letters)
    BY DEF Init
  <2> QED BY <2>1, <2>2, <2>3 DEF Init, RoomInv, PhoneInv
<1>2. PumpInv
  BY DEF Init, PumpInv
<1>3. QueueInv
  <2>1. <<>> \in Seq(UpTo(version)) /\ Len(<<>>) <= SendBuffer
    BY ConnectionAssumption
  <2> QED BY <2>1 DEF Init, QueueInv
<1>4. CloseInv
  BY DEF Init, CloseInv
<1> QED BY <1>1, <1>2, <1>3, <1>4 DEF IInv

\* What a step of the whole system is, the way out of Next.
Step ==
  \/ Receive \/ JobDone \/ Change \/ Kick \/ CloseRoom \/ Stop
  \/ Dial \/ Hear \/ HangUp
  \/ \E c \in Conns :
       \/ Start(c) \/ Reject(c) \/ ReadFails(c) \/ Detach(c)
       \/ Write(c) \/ WriterEnds(c) \/ HeartFails(c) \/ HeartStops(c)
       \/ HandshakeEnds(c) \/ PauseEnds(c) \/ Drop(c)
       \/ \E g \in Goroutines : FinishClose(c, g)

LEMMA NextIsStep == Next => Step
BY DEF Next, Step, Actor, Pause, Phone, Serve, Handler, Writer, Heart, Goroutines

LEMMA GoneIsThere ==
  ASSUME \E c \in Conns : Gone(c)
  PROVE  /\ (CHOOSE d \in Conns : Gone(d)) \in Conns
         /\ Gone(CHOOSE d \in Conns : Gone(d))
OBVIOUS

-----------------------------------------------------------------------------
LEMMA JobIs ==
  ASSUME NEW kind \in {"evict", "kick", "stop"}, NEW conn \in Conns,
         NEW after \in Conns \cup {NoConn}, kind = "evict" => after \in Conns
  PROVE  LET new == [kind |-> kind, conn |-> conn, next |-> after]
         IN /\ new \in Jobs /\ new.conn \in Conns
            /\ new.kind = "evict" => new.next \in Conns
BY DEF Jobs

LEMMA RoomKept == IInv /\ Step => RoomInv'
<1> SUFFICES ASSUME IInv, Step PROVE RoomInv'
  OBVIOUS
<1> USE DEF RoomInv
<1>0. RoomInv /\ NoJob \in Jobs /\ MaxVersion \in Nat /\ MaxDrops \in Nat
  BY ConnectionAssumption DEF IInv, NoJob, Jobs
<1>1. CASE Receive
  <2> DEFINE m == Head(inbox)
  <2>1. /\ m \in Letters
        /\ inbox' \in Seq(Letters)
    BY <1>0, <1>1 DEF Receive
  <2>2. m.conn \in Conns
    BY <2>1 DEF Letters
  <2>3. CASE HandleAttach(m.conn)
    <3>1. /\ member' \in Conns \cup {NoConn} /\ online' \in BOOLEAN /\ missed' \in BOOLEAN
      BY <1>0, <2>2, <2>3 DEF HandleAttach, Install
    <3>2. UNCHANGED job
          \/ (member \in Conns /\ job' = [kind |-> "evict", conn |-> member, next |-> m.conn])
      BY <1>0, <2>3 DEF HandleAttach
    <3>3. job' \in Jobs /\ (job' # NoJob => job'.conn \in Conns)
          /\ (job'.kind = "evict" => job'.next \in Conns)
      BY <1>0, <2>2, <3>2, JobIs
    <3> QED BY <1>0, <1>1, <2>1, <3>1, <3>3 DEF Receive
  <2>4. CASE HandleDetach(m.conn)
    BY <1>0, <1>1, <2>1, <2>4 DEF Receive, HandleDetach
  <2> QED BY <1>1, <2>3, <2>4 DEF Receive
<1>2. CASE JobDone
  <2>1. job'.kind # "evict" /\ job' = NoJob
    BY <1>2 DEF JobDone, NoJob
  <2>2. CASE job.kind = "evict"
    BY <1>0, <1>2, <2>1, <2>2 DEF JobDone, Install, closeVars
  <2>3. CASE job.kind # "evict"
    BY <1>0, <1>2, <2>1, <2>3 DEF JobDone, closeVars
  <2> QED BY <2>2, <2>3
<1>3. CASE Change
  <2>1. version' \in 1 .. MaxVersion
    BY <1>0, <1>3 DEF Change
  <2>2. missed' \in BOOLEAN
    BY <1>0, <1>3 DEF Change, Broadcast
  <2> QED BY <1>0, <1>3, <2>1, <2>2 DEF Change, closeVars
<1>4. CASE Kick
  <2>1. UNCHANGED job
        \/ (member \in Conns /\ job' = [kind |-> "kick", conn |-> member, next |-> NoConn])
    BY <1>0, <1>4 DEF Kick
  <2>2. job' \in Jobs /\ (job' # NoJob => job'.conn \in Conns)
        /\ (job'.kind = "evict" => job'.next \in Conns)
    BY <1>0, <2>1, JobIs
  <2> QED BY <1>0, <1>4, <2>2 DEF Kick
<1>5. CASE CloseRoom
  BY <1>0, <1>5 DEF CloseRoom, StillListed, CloseAll
<1>6. CASE Stop
  <2>1. UNCHANGED job
        \/ (member \in Conns /\ job' = [kind |-> "stop", conn |-> member, next |-> NoConn])
    BY <1>0, <1>6 DEF Stop, CloseAll
  <2>2. job' \in Jobs /\ (job' # NoJob => job'.conn \in Conns)
        /\ (job'.kind = "evict" => job'.next \in Conns)
    BY <1>0, <2>1, JobIs
  <2>3. running' \in BOOLEAN
    BY <1>0, <1>6 DEF Stop, CloseAll
  <2> QED BY <1>0, <1>6, <2>2, <2>3 DEF Stop
<1>7. CASE Dial
  <2> DEFINE c == CHOOSE d \in Conns : Gone(d)
  <2>1. c \in Conns
    BY <1>7 DEF Dial
  <2>2. inbox' = Append(inbox, [kind |-> "attach", conn |-> c])
    BY <1>7 DEF Dial
  <2> HIDE DEF c
  <2>3. inbox' \in Seq(Letters)
    <3>1. [kind |-> "attach", conn |-> c] \in Letters
      BY <2>1 DEF Letters
    <3> QED BY <1>0, <2>2, <3>1
  <2> QED BY <1>0, <1>7, <2>3 DEF Dial
<1>8. CASE Hear \/ HangUp
  BY <1>0, <1>8 DEF Hear, HangUp, roomVars
<1>9. ASSUME NEW c \in Conns, Detach(c)
      PROVE  RoomInv'
  <2>1. inbox' \in Seq(Letters)
    <3>1. [kind |-> "detach", conn |-> c] \in Letters
      BY DEF Letters
    <3> QED BY <1>0, <1>9, <3>1 DEF Detach
  <2> QED BY <1>0, <1>9, <2>1 DEF Detach, closeVars
<1>10. ASSUME NEW c \in Conns, Drop(c)
       PROVE  RoomInv'
  BY <1>0, <1>10 DEF Drop, roomVars
<1>11. ASSUME NEW c \in Conns,
              \/ Start(c) \/ Reject(c) \/ ReadFails(c) \/ Write(c) \/ WriterEnds(c)
              \/ HeartFails(c) \/ HeartStops(c) \/ HandshakeEnds(c) \/ PauseEnds(c)
              \/ \E g \in Goroutines : FinishClose(c, g)
       PROVE  RoomInv'
  <2>1. /\ UNCHANGED <<version, rostered, online, running, member, job, inbox, missed, drops>>
        /\ crashed' \in BOOLEAN /\ pausing' \subseteq pausing
    BY <1>0, <1>11 DEF Start, Reject, ReadFails, Write, WriterEnds, HeartFails, HeartStops,
       HandshakeEnds, PauseEnds, FinishClose, roomVars, closeVars
  <2> QED BY <1>0, <2>1
<1> QED BY <1>1, <1>2, <1>3, <1>4, <1>5, <1>6, <1>7, <1>8, <1>9, <1>10, <1>11 DEF Step

LEMMA PumpKept == IInv /\ Step => PumpInv'
<1> SUFFICES ASSUME IInv, Step PROVE PumpInv'
  OBVIOUS
<1> USE DEF PumpInv
<1>0. PumpInv /\ RoomInv
  BY DEF IInv
<1>1. ASSUME NEW c \in Conns, NEW g \in Goroutines, BeginClose(c, g)
      PROVE  closer' \in [Conns -> SUBSET Goroutines]
  BY <1>0, <1>1 DEF BeginClose
<1>2. CASE Receive
  <2>1. Head(inbox).conn \in Conns
    <3>1. Head(inbox) \in Letters
      BY <1>0, <1>2 DEF Receive, RoomInv
    <3> QED BY <3>1 DEF Letters
  <2>2. "actor" \in Goroutines
    BY DEF Goroutines
  <2>3. CASE HandleAttach(Head(inbox).conn)
    BY <1>0, <1>1, <1>2, <2>1, <2>2, <2>3
       DEF Receive, HandleAttach, Install, Goes, RoomInv
  <2>4. CASE HandleDetach(Head(inbox).conn)
    BY <1>0, <1>2, <2>4 DEF Receive, HandleDetach
  <2> QED BY <1>2, <2>3, <2>4 DEF Receive
<1>3. CASE JobDone
  BY <1>0, <1>3 DEF JobDone, Install, Goes, RoomInv, closeVars
<1>4. CASE Change
  BY <1>0, <1>4 DEF Change, pumpVars, closeVars
<1>5. CASE Kick \/ CloseRoom \/ Stop
  <2>1. "actor" \in Goroutines /\ StillListed = NoConn
    BY DEF Goroutines, StillListed
  <2>2. closer' \in [Conns -> SUBSET Goroutines]
    BY <1>0, <1>1, <1>5, <2>1 DEF Kick, CloseRoom, Stop, CloseAll, RoomInv
  <2> QED BY <1>0, <1>5, <2>2 DEF Kick, CloseRoom, Stop, pumpVars
<1>6. CASE Dial
  BY <1>0, <1>6 DEF Dial, Goes
<1>7. CASE Hear \/ HangUp
  BY <1>0, <1>7 DEF Hear, HangUp, pumpVars
<1>8. ASSUME NEW c \in Conns, Start(c) \/ Reject(c) \/ ReadFails(c) \/ Detach(c)
      PROVE  PumpInv'
  BY <1>0, <1>8 DEF Start, Reject, ReadFails, Detach, Goes, HalfShut, closeVars
<1>9. ASSUME NEW c \in Conns, Write(c) \/ HeartStops(c) \/ HandshakeEnds(c) \/ Drop(c)
      PROVE  PumpInv'
  BY <1>0, <1>9 DEF Write, HeartStops, HandshakeEnds, Drop, pumpVars, closeVars
<1>10. ASSUME NEW c \in Conns, WriterEnds(c) \/ HeartFails(c) \/ PauseEnds(c)
       PROVE  PumpInv'
  <2>1. {"writer", "heart", "pause"} \subseteq Goroutines
    BY DEF Goroutines
  <2>2. closer' \in [Conns -> SUBSET Goroutines]
    BY <1>1, <1>10, <2>1 DEF WriterEnds, HeartFails, PauseEnds
  <2> QED BY <1>0, <1>10, <2>2 DEF WriterEnds, HeartFails, PauseEnds, pumpVars
<1>11. ASSUME NEW c \in Conns, NEW g \in Goroutines, FinishClose(c, g)
       PROVE  PumpInv'
  BY <1>0, <1>11 DEF FinishClose, HalfShut, pumpVars
<1> QED BY <1>2, <1>3, <1>4, <1>5, <1>6, <1>7, <1>8, <1>9, <1>10, <1>11 DEF Step

-----------------------------------------------------------------------------
(* The messages on their way.                                              *)

\* A message that is sent, or passed over, is of a state there has been.
LEMMA SentUpTo ==
  ASSUME QueueInv, NEW c \in Conns, NEW v \in Nat, version <= v, version \in Nat,
         NEW m \in UpTo(v), SendJSON(c, m)
  PROVE  /\ buffer' \in [Conns -> Seq(UpTo(v))]
         /\ \A d \in Conns : Len(buffer'[d]) <= SendBuffer
<1>1. UpTo(version) \subseteq UpTo(v)
  BY DEF UpTo, Payload
<1>2. buffer \in [Conns -> Seq(UpTo(v))]
  BY <1>1 DEF QueueInv
<1>3. CASE UNCHANGED buffer
  BY <1>2, <1>3 DEF QueueInv
<1>4. CASE Fits(c) /\ buffer' = [buffer EXCEPT ![c] = Append(@, m)]
  <2>1. Append(buffer[c], m) \in Seq(UpTo(v))
    BY <1>2
  <2>2. Len(Append(buffer[c], m)) <= SendBuffer
    BY <1>2, <1>4, ConnectionAssumption DEF Fits
  <2> QED BY <1>2, <1>4, <2>1, <2>2 DEF QueueInv
<1> QED BY <1>3, <1>4 DEF SendJSON

LEMMA NewsUpTo ==
  ASSUME RoomInv
  PROVE  FirstNews \in Seq(UpTo(version)) /\ Len(FirstNews) <= SendBuffer
<1>1. State(version) \in UpTo(version)
  BY DEF RoomInv, State, UpTo, Payload
<1> QED BY <1>1, ConnectionAssumption DEF FirstNews

LEMMA NoticeUpTo ==
  ASSUME RoomInv, NEW kind \in Notices
  PROVE  Notice(kind) \in UpTo(version)
BY ConnectionAssumption DEF RoomInv, Notice, UpTo, Payload

LEMMA InstallQueues ==
  ASSUME IInv, NEW c \in Conns, Install(c)
  PROVE  /\ buffer' \in [Conns -> Seq(UpTo(version))]
         /\ \A d \in Conns : Len(buffer'[d]) <= SendBuffer
BY NewsUpTo DEF IInv, QueueInv, Install

LEMMA QueueKept == IInv /\ Step => QueueInv'
<1> SUFFICES ASSUME IInv, Step PROVE QueueInv'
  OBVIOUS
<1>0. /\ buffer \in [Conns -> Seq(UpTo(version))] /\ wire \in [Conns -> Seq(UpTo(version))]
      /\ \A c \in Conns : Len(buffer[c]) <= SendBuffer
      /\ version \in Nat /\ SendBuffer \in Nat
      /\ <<>> \in Seq(UpTo(version)) /\ Len(<<>>) <= SendBuffer
  BY ConnectionAssumption DEF IInv, QueueInv, RoomInv
<1>1. CASE Receive
  <2>1. Head(inbox).conn \in Conns
    <3>1. Head(inbox) \in Letters
      BY <1>1 DEF Receive, IInv, RoomInv
    <3> QED BY <3>1 DEF Letters
  <2>2. UNCHANGED buffer \/ Install(Head(inbox).conn)
    BY <1>1 DEF Receive, HandleAttach, HandleDetach
  <2> QED BY <1>0, <1>1, <2>1, <2>2, InstallQueues DEF Receive, QueueInv
<1>2. CASE JobDone
  <2>1. UNCHANGED buffer \/ (job.next \in Conns /\ Install(job.next))
    BY <1>2 DEF JobDone, IInv, RoomInv
  <2> QED BY <1>0, <1>2, <2>1, InstallQueues DEF JobDone, QueueInv
<1>3. CASE Change
  <2>1. version' = version + 1 /\ UNCHANGED <<wire, member>>
    BY <1>3 DEF Change
  <2>2. UpTo(version) \subseteq UpTo(version') /\ version' \in Nat
    BY <1>0, <2>1 DEF UpTo, Payload
  <2>3. wire' \in [Conns -> Seq(UpTo(version'))]
    BY <1>0, <2>1, <2>2
  <2>4. /\ buffer' \in [Conns -> Seq(UpTo(version'))]
        /\ \A c \in Conns : Len(buffer'[c]) <= SendBuffer
    <3>1. CASE member = NoConn
      BY <1>0, <1>3, <2>2, <3>1 DEF Change, Broadcast
    <3>2. CASE member # NoConn
      <4>1. State(version') \in UpTo(version')
        BY <1>0, <1>3, <2>1, ConnectionAssumption DEF State, UpTo, Payload, Change
      <4>2. member \in Conns /\ SendJSON(member, State(version'))
        BY <1>3, <3>2 DEF Change, Broadcast, IInv, RoomInv
      <4>3. QueueInv /\ version \in Nat /\ version <= version'
        BY <1>0, <2>1 DEF IInv
      <4> QED BY <2>2, <4>1, <4>2, <4>3, SentUpTo
    <3> QED BY <3>1, <3>2
  <2> QED BY <2>3, <2>4 DEF QueueInv
<1>4. CASE Kick \/ CloseRoom
  <2>1. \/ UNCHANGED buffer
        \/ \E kind \in Notices : member \in Conns /\ SendJSON(member, Notice(kind))
    BY <1>4 DEF Kick, CloseRoom, Notices, IInv, RoomInv
  <2>2. /\ buffer' \in [Conns -> Seq(UpTo(version))]
        /\ \A c \in Conns : Len(buffer'[c]) <= SendBuffer
    BY <1>0, <2>1, NoticeUpTo, SentUpTo DEF IInv
  <2> QED BY <1>0, <1>4, <2>2 DEF Kick, CloseRoom, QueueInv
<1>5. CASE Stop
  BY <1>0, <1>5 DEF Stop, QueueInv
<1>6. CASE Dial
  BY <1>0, <1>6 DEF Dial, QueueInv
<1>7. CASE Hear
  <2>1. PICK rest \in Seq(UpTo(version)) : wire' = [wire EXCEPT ![link] = rest]
    <3>1. link \in Conns /\ wire[link] # <<>>
      BY <1>7 DEF Hear, IInv, PhoneInv
    <3>2. Tail(wire[link]) \in Seq(UpTo(version))
      BY <1>0, <3>1
    <3> QED BY <1>0, <1>7, <3>2 DEF Hear
  <2> QED BY <1>0, <1>7, <2>1 DEF Hear, QueueInv, roomVars
<1>8. ASSUME NEW c \in Conns, Write(c)
      PROVE  QueueInv'
  <2>1. /\ Tail(buffer[c]) \in Seq(UpTo(version)) /\ Len(Tail(buffer[c])) <= SendBuffer
        /\ Head(buffer[c]) \in UpTo(version)
    BY <1>0, <1>8 DEF Write
  <2>2. Append(wire[c], Head(buffer[c])) \in Seq(UpTo(version))
    BY <1>0, <2>1
  <2> QED BY <1>0, <1>8, <2>1, <2>2 DEF Write, QueueInv, roomVars
<1>9. ASSUME NEW c \in Conns, WriterEnds(c) \/ Drop(c)
      PROVE  QueueInv'
  BY <1>0, <1>9 DEF WriterEnds, Drop, QueueInv, roomVars
<1>10. ASSUME NEW c \in Conns,
              \/ Start(c) \/ Reject(c) \/ ReadFails(c) \/ Detach(c) \/ HeartFails(c)
              \/ HeartStops(c) \/ HandshakeEnds(c) \/ PauseEnds(c)
              \/ \E g \in Goroutines : FinishClose(c, g)
       PROVE  QueueInv'
  <2>1. UNCHANGED <<buffer, wire, version>>
    BY <1>10 DEF Start, Reject, ReadFails, Detach, HeartFails, HeartStops, HandshakeEnds,
       PauseEnds, FinishClose, roomVars
  <2> QED BY <1>0, <2>1 DEF QueueInv
<1>11. CASE HangUp
  BY <1>0, <1>11 DEF HangUp, roomVars, QueueInv
<1> QED BY <1>1, <1>2, <1>3, <1>4, <1>5, <1>6, <1>7, <1>8, <1>9, <1>10, <1>11 DEF Step

\* What the phone shows it has heard.
LEMMA PhoneKept == IInv /\ Step => PhoneInv'
<1> SUFFICES ASSUME IInv, Step PROVE PhoneInv'
  OBVIOUS
<1>0. PhoneInv /\ version \in Nat /\ wire \in [Conns -> Seq(UpTo(version))]
  BY DEF IInv, RoomInv, QueueInv
<1>1. CASE Change
  BY <1>0, <1>1 DEF Change, phoneVars, PhoneInv
<1>2. CASE Dial
  <2>1. link' \in Conns
    BY <1>2, GoneIsThere DEF Dial
  <2> QED BY <1>0, <1>2, <2>1 DEF Dial, PhoneInv
<1>3. CASE Hear
  <2>1. link \in Conns /\ wire[link] \in Seq(UpTo(version)) /\ wire[link] # <<>>
    BY <1>0, <1>3 DEF Hear, PhoneInv
  <2>2. Head(wire[link]) \in UpTo(version)
    BY <2>1
  <2>3. Head(wire[link]).version \in 0 .. version
    BY <1>0, <2>2 DEF UpTo, Payload
  <2> QED BY <1>0, <1>3, <2>1, <2>3 DEF Hear, PhoneInv, roomVars
<1>4. CASE HangUp
  BY <1>0, <1>4 DEF HangUp, PhoneInv, roomVars
<1>5. ASSUME NEW c \in Conns, Drop(c)
      PROVE  PhoneInv'
  BY <1>0, <1>5 DEF Drop, PhoneInv, roomVars
<1>6. CASE Receive \/ JobDone \/ Kick \/ CloseRoom \/ Stop
  BY <1>0, <1>6 DEF Receive, JobDone, Kick, CloseRoom, Stop, phoneVars, PhoneInv
<1>7. ASSUME NEW c \in Conns,
             \/ Start(c) \/ Reject(c) \/ ReadFails(c) \/ Detach(c) \/ Write(c)
             \/ WriterEnds(c) \/ HeartFails(c) \/ HeartStops(c) \/ HandshakeEnds(c)
             \/ PauseEnds(c) \/ \E g \in Goroutines : FinishClose(c, g)
      PROVE  PhoneInv'
  <2>1. UNCHANGED <<wrapper, link, shown, version>>
    BY <1>7 DEF Start, Reject, ReadFails, Detach, Write, WriterEnds, HeartFails,
       HeartStops, HandshakeEnds, PauseEnds, FinishClose, roomVars, phoneVars
  <2> QED BY <1>0, <2>1 DEF PhoneInv
<1> QED BY <1>1, <1>2, <1>3, <1>4, <1>5, <1>6, <1>7 DEF Step

-----------------------------------------------------------------------------
(* Who closes what.                                                        *)

LEMMA CloseKept == IInv /\ Step => CloseInv'
<1> SUFFICES ASSUME IInv, Step PROVE CloseInv'
  OBVIOUS
<1>0. /\ CloseInv /\ closer \in [Conns -> SUBSET Goroutines] /\ NoConn \notin Conns
      /\ member \in Conns \cup {NoConn} /\ NoJob.conn = NoConn
  BY ConnectionAssumption DEF IInv, RoomInv, PumpInv, NoJob
\* While the actor is free none of the Closes in hand is its own or of the pause.
<1>1. Free => \A c \in Conns : closer[c] \cap {"actor", "pause"} = {} /\ c \notin pausing
  BY <1>0 DEF Free, CloseInv
<1>2. ASSUME NEW c \in Conns, BeginClose(c, "actor")
      PROVE  \A d \in Conns : /\ "pause" \in closer'[d] => "pause" \in closer[d]
                              /\ "actor" \in closer'[d] => d = c \/ "actor" \in closer[d]
  BY <1>0, <1>2 DEF BeginClose
<1>3. CASE Receive
  <2>1. Free /\ UNCHANGED <<running, pausing>>
    BY <1>3 DEF Receive
  <2>2. CASE UNCHANGED <<job, closer>>
    BY <1>1, <2>1, <2>2 DEF CloseInv
  <2>3. CASE member \in Conns /\ job'.conn = member /\ BeginClose(member, "actor")
    BY <1>1, <1>2, <2>1, <2>3 DEF CloseInv
  <2> QED BY <1>0, <1>3, <2>2, <2>3 DEF Receive, HandleAttach, HandleDetach
<1>4. CASE JobDone
  <2>1. \A c \in Conns : closer[c] \cap {"actor", "pause"} = {} /\ c \notin pausing
    BY <1>0, <1>4 DEF JobDone, CloseInv
  <2> QED BY <1>4, <2>1 DEF JobDone, closeVars, CloseInv
<1>5. CASE Change
  BY <1>0, <1>5 DEF Change, closeVars, CloseInv
<1>6. CASE Kick
  <2>1. Free /\ UNCHANGED <<running, member, pausing>>
    BY <1>6 DEF Kick, Playing
  <2>2. CASE member = NoConn
    BY <1>1, <1>6, <2>1, <2>2 DEF Kick, CloseInv
  <2>3. CASE member # NoConn
    <3>1. member \in Conns /\ job'.conn = member /\ BeginClose(member, "actor")
      BY <1>0, <1>6, <2>3 DEF Kick
    <3> QED BY <1>1, <1>2, <2>1, <3>1 DEF CloseInv
  <2> QED BY <2>2, <2>3
<1>7. CASE CloseRoom
  <2>1. Free /\ member' = NoConn /\ running' = FALSE /\ UNCHANGED <<job, closer>>
    BY <1>7 DEF CloseRoom, Playing, CloseAll, StillListed
  <2> QED BY <1>1, <2>1 DEF Free, CloseInv
<1>8. CASE Stop
  <2>1. Free /\ UNCHANGED <<member, pausing>>
    BY <1>8 DEF Stop, Playing
  <2>2. CASE member = NoConn
    BY <1>1, <1>8, <2>1, <2>2 DEF Stop, CloseAll, CloseInv
  <2>3. CASE member # NoConn
    <3>1. member \in Conns /\ job'.conn = member /\ BeginClose(member, "actor")
      BY <1>0, <1>8, <2>3 DEF Stop, CloseAll
    <3> QED BY <1>1, <1>2, <2>1, <3>1 DEF CloseInv
  <2> QED BY <2>2, <2>3
<1>9. CASE Dial \/ Hear \/ HangUp
  BY <1>0, <1>9 DEF Dial, Hear, HangUp, roomVars, CloseInv
<1>10. ASSUME NEW c \in Conns, WriterEnds(c) \/ HeartFails(c)
       PROVE  CloseInv'
  <2>1. \A d \in Conns : closer'[d] \cap {"actor", "pause"} = closer[d] \cap {"actor", "pause"}
    BY <1>0, <1>10 DEF WriterEnds, HeartFails, BeginClose
  <2> QED BY <1>0, <1>10, <2>1 DEF WriterEnds, HeartFails, roomVars, CloseInv
<1>11. ASSUME NEW c \in Conns, PauseEnds(c)
       PROVE  CloseInv'
  <2>1. \A d \in Conns : /\ "actor" \in closer'[d] => "actor" \in closer[d]
                         /\ "pause" \in closer'[d] => d = c \/ "pause" \in closer[d]
    BY <1>0, <1>11 DEF PauseEnds, BeginClose
  <2> QED BY <1>0, <1>11, <2>1 DEF PauseEnds, CloseInv
<1>12. ASSUME NEW c \in Conns, NEW g \in Goroutines, FinishClose(c, g)
       PROVE  CloseInv'
  <2>1. \A d \in Conns : closer'[d] \subseteq closer[d]
    BY <1>0, <1>12 DEF FinishClose
  <2> QED BY <1>0, <1>12, <2>1 DEF FinishClose, roomVars, CloseInv
<1>13. ASSUME NEW c \in Conns,
              \/ Start(c) \/ Reject(c) \/ ReadFails(c) \/ Detach(c) \/ Write(c)
              \/ HeartStops(c) \/ HandshakeEnds(c) \/ Drop(c)
       PROVE  CloseInv'
  <2>1. UNCHANGED <<closer, job, pausing, running, member>>
    BY <1>13 DEF Start, Reject, ReadFails, Detach, Write, HeartStops, HandshakeEnds, Drop,
       roomVars, closeVars
  <2> QED BY <1>0, <2>1 DEF CloseInv
<1> QED BY <1>3, <1>4, <1>5, <1>6, <1>7, <1>8, <1>9, <1>10, <1>11, <1>12, <1>13 DEF Step

-----------------------------------------------------------------------------
LEMMA KeepsIInv == IInv /\ [Next]_vars => IInv'
<1>1. IInv /\ Step => IInv'
  BY RoomKept, PumpKept, QueueKept, PhoneKept, CloseKept DEF IInv
<1>2. IInv /\ UNCHANGED vars => IInv'
  BY DEF vars, roomVars, pumpVars, closeVars, phoneVars, IInv, RoomInv, PumpInv,
         QueueInv, PhoneInv, CloseInv
<1> QED BY <1>1, <1>2, NextIsStep

LEMMA Invariance == Spec => []IInv
BY StartsWell, KeepsIInv, PTL DEF Spec

\* The type invariant: the phone shows only what the room has been, a send buffer
\* keeps its bound, the actor is in the middle of at most the one Close its job says,
\* and the pause of closeRoom closes nobody the room or its actor still has.
THEOREM ConnectionTyped == Spec => []TypeOK
<1>1. IInv => TypeOK
  <2> SUFFICES ASSUME IInv PROVE TypeOK
    OBVIOUS
  <2>1. Seq(UpTo(version)) \subseteq Seq(Payload)
    <3>1. UpTo(version) \subseteq Payload
      BY DEF UpTo
    <3> QED BY <3>1
  <2>2. buffer \in [Conns -> Seq(Payload)] /\ wire \in [Conns -> Seq(Payload)]
    BY <2>1 DEF IInv, QueueInv
  <2>3. \A c \in Conns :
          /\ Len(buffer[c]) <= SendBuffer
          /\ "pause" \in closer[c] => member # c
          /\ "actor" \in closer[c] => job.conn = c /\ c \notin pausing
    BY ConnectionAssumption DEF IInv, QueueInv, CloseInv, NoJob
  <2> QED BY <2>2, <2>3 DEF IInv, RoomInv, Letters, PumpInv, PhoneInv, TypeOK
<1> QED BY <1>1, Invariance, PTL
=============================================================================
