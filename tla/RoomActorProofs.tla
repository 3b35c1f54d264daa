---------------------------- MODULE RoomActorProofs ----------------------------
(***************************************************************************)
(* Theorems about one room's goroutines (RoomActor!Spec), for any number   *)
(* of connections, seats and requests and any inbox: whom the room serves  *)
(* and whom it counts.                                                     *)
(***************************************************************************)
EXTENDS RoomActor, TLAPS, SequenceTheorems

\* places at which a connection has been admitted and has not detached
Admitted == {"reading", "posting", "detaching"}

\* An attach that has not been answered is asked for once, by a connection that
\* waits; only connections attach and detach; and whoever has asked to be
\* detached is done.
InboxInv ==
  /\ inbox \in Seq(Messages)
  /\ \A i \in DOMAIN inbox :
       /\ inbox[i].kind = "attach" =>
            inbox[i].from \in Conns /\ at[inbox[i].from] = "waiting"
       /\ inbox[i].kind = "detach" =>
            inbox[i].from \in Conns /\ at[inbox[i].from] = "done"
       /\ inbox[i].kind \in {"join", "summary"} => inbox[i].from \notin Conns
  /\ \A i, j \in DOMAIN inbox :
       inbox[i].kind = "attach" /\ inbox[j].kind = "attach"
         /\ inbox[i].from = inbox[j].from => i = j

\* A member of a running room is admitted, or its detach is in the inbox.
MembersInv ==
  running => \A c \in members :
    at[c] \in Admitted \/ \E i \in DOMAIN inbox : inbox[i] = Request("detach", c)

ServedInv ==
  running => \A c \in Conns : c \in open /\ at[c] \in Admitted => c \in members

IInv ==
  /\ at \in [Callers -> Places] /\ members \subseteq Conns
  /\ unsent \in [Conns -> Texts]
  /\ InboxInv /\ MembersInv /\ ServedInv

\* Connections are no other callers.
LEMMA ConnsApart ==
  /\ Conns \subseteq Callers
  /\ \A x \in Callers : x \notin Conns => x \in Joiners \cup Askers
  /\ \A x \in Conns : x \notin Joiners \cup Askers
BY RoomActorAssumption DEF Callers

LEMMA InitIInv == Init => IInv
<1> SUFFICES ASSUME Init PROVE IInv
  OBVIOUS
<1>1. at \in [Callers -> Places] /\ members \subseteq Conns /\ unsent \in [Conns -> Texts]
  BY DEF Init, Places, Texts
<1>2. InboxInv
  BY DEF Init, InboxInv
<1>3. MembersInv /\ ServedInv
  BY ConnsApart DEF Init, MembersInv, ServedInv, Admitted
<1> QED BY <1>1, <1>2, <1>3 DEF IInv

\* What a queue keeps when a message is put at its end.
LEMMA Queued ==
  ASSUME inbox \in Seq(Messages), NEW m \in Messages, Send(m)
  PROVE  /\ inbox' \in Seq(Messages)
         /\ DOMAIN inbox' = DOMAIN inbox \cup {Len(inbox) + 1}
         /\ Len(inbox) + 1 \notin DOMAIN inbox
         /\ \A i \in DOMAIN inbox : inbox'[i] = inbox[i]
         /\ inbox'[Len(inbox) + 1] = m
BY DEF Send

\* What it keeps when its first is taken.
LEMMA Taken ==
  ASSUME inbox \in Seq(Messages), inbox # <<>>, inbox' = Tail(inbox)
  PROVE  /\ inbox' \in Seq(Messages)
         /\ 1 \in DOMAIN inbox /\ Head(inbox) = inbox[1]
         /\ \A i \in DOMAIN inbox' : i + 1 \in DOMAIN inbox /\ inbox'[i] = inbox[i + 1]
         /\ \A i \in DOMAIN inbox : i # 1 => i - 1 \in DOMAIN inbox' /\ inbox'[i - 1] = inbox[i]
BY DEF Messages

\* Looking the room up puts nobody at a place of an admitted connection, and
\* nobody who asks anything was looking it up.
LEMMA GetIInv ==
  ASSUME IInv, NEW x \in Callers, Get(x)
  PROVE  IInv'
<1> USE DEF IInv
<1>1. /\ at' \in [Callers -> Places]
      /\ at[x] = "start" /\ at'[x] \in {"found", "done"}
      /\ \A y \in Callers : y # x => at'[y] = at[y]
  BY DEF Get, Goes, Places
<1>2. UNCHANGED <<running, members, inbox, unsent>> /\ open' \subseteq open
  BY DEF Get, roomVars
<1>3. InboxInv'
  BY <1>1, <1>2, ConnsApart DEF InboxInv
<1>4. MembersInv' /\ ServedInv'
  BY <1>1, <1>2, ConnsApart DEF MembersInv, ServedInv, Admitted
<1> QED BY <1>1, <1>2, <1>3, <1>4

\* A message at the end of the inbox disturbs nobody who is counted or served.
LEMMA QueuedKeeps ==
  ASSUME IInv, NEW m \in Messages, Send(m),
         UNCHANGED <<running, members>>, open' = open,
         at' \in [Callers -> Places],
         \A c \in Conns : at'[c] \in Admitted => at[c] \in Admitted,
         \A c \in members : at[c] \in Admitted =>
            at'[c] \in Admitted \/ m = Request("detach", c)
  PROVE  MembersInv' /\ ServedInv'
<1> USE DEF IInv
<1>1. inbox \in Seq(Messages)
  BY DEF InboxInv
<1>2. ServedInv'
  BY DEF ServedInv
<1>3. MembersInv'
  <2> SUFFICES ASSUME running', NEW c \in members'
               PROVE  \/ at'[c] \in Admitted
                      \/ \E i \in DOMAIN inbox' : inbox'[i] = Request("detach", c)
    BY DEF MembersInv
  <2>1. c \in members /\ running
    OBVIOUS
  <2>2. CASE at[c] \in Admitted
    BY <2>1, <2>2, <1>1, Queued
  <2>3. CASE \E i \in DOMAIN inbox : inbox[i] = Request("detach", c)
    BY <2>3, <1>1, Queued
  <2> QED BY <2>1, <2>2, <2>3 DEF MembersInv
<1> QED BY <1>2, <1>3

\* A message whose sender has nothing else of the kind in the inbox joins it.
LEMMA QueuedInbox ==
  ASSUME IInv, NEW m \in Messages, Send(m), NEW x \in Callers,
         \A y \in Callers : y # x => at'[y] = at[y],
         at[x] \notin {"waiting", "done"},
         m.from = x,
         m.kind = "attach" => x \in Conns /\ at'[x] = "waiting",
         m.kind = "detach" => x \in Conns /\ at'[x] = "done",
         m.kind \in {"join", "summary"} => x \notin Conns
  PROVE  InboxInv'
<1> USE DEF IInv
<1>1. /\ inbox' \in Seq(Messages)
      /\ DOMAIN inbox' = DOMAIN inbox \cup {Len(inbox) + 1}
      /\ Len(inbox) + 1 \notin DOMAIN inbox
      /\ \A i \in DOMAIN inbox : inbox'[i] = inbox[i]
      /\ inbox'[Len(inbox) + 1] = m
  BY Queued DEF InboxInv
<1>2. \A i \in DOMAIN inbox : inbox[i].kind \in {"attach", "detach"} => inbox[i].from # x
  BY DEF InboxInv
<1>3. ASSUME NEW i \in DOMAIN inbox
      PROVE  /\ inbox'[i].kind = "attach" =>
                  inbox'[i].from \in Conns /\ at'[inbox'[i].from] = "waiting"
             /\ inbox'[i].kind = "detach" =>
                  inbox'[i].from \in Conns /\ at'[inbox'[i].from] = "done"
             /\ inbox'[i].kind \in {"join", "summary"} => inbox'[i].from \notin Conns
  BY <1>1, <1>2, ConnsApart DEF InboxInv
<1>4. \A i, j \in DOMAIN inbox' :
        inbox'[i].kind = "attach" /\ inbox'[j].kind = "attach"
          /\ inbox'[i].from = inbox'[j].from => i = j
  BY <1>1, <1>2 DEF InboxInv
<1> QED BY <1>1, <1>3, <1>4 DEF InboxInv

\* A request is the first of its sender's in the inbox.
LEMMA CallIInv ==
  ASSUME IInv, NEW x \in Callers, Call(x)
  PROVE  IInv'
<1> USE DEF IInv
<1> DEFINE m == Request(Kind(x), x)
<1>1. /\ at' \in [Callers -> Places]
      /\ at[x] = "found" /\ at'[x] = "waiting"
      /\ \A y \in Callers : y # x => at'[y] = at[y]
  BY DEF Call, Goes, Places
<1>2. UNCHANGED <<running, members, unsent>> /\ open' = open
  BY DEF Call, roomVars
<1>3. m \in Messages
  BY DEF Messages, Request, Kind
<1>4. Send(m)
  BY DEF Call
<1>5. /\ m.from = x /\ m.kind # "detach"
      /\ m.kind = "attach" => x \in Conns
      /\ m.kind \in {"join", "summary"} => x \notin Conns
  BY DEF Request, Kind
<1>6. InboxInv'
  <2> HIDE DEF m
  <2> QED BY <1>1, <1>3, <1>4, <1>5, QueuedInbox
<1>7. MembersInv' /\ ServedInv'
  <2>1. \A c \in Conns : at'[c] \in Admitted <=> at[c] \in Admitted
    BY <1>1, ConnsApart DEF Admitted
  <2> HIDE DEF m
  <2> QED BY <2>1, <1>1, <1>2, <1>3, <1>4, QueuedKeeps
<1> QED BY <1>1, <1>2, <1>6, <1>7

\* A summary that gives up is no connection.
LEMMA GiveUpIInv ==
  ASSUME IInv, NEW x \in Callers, GiveUp(x)
  PROVE  IInv'
<1> USE DEF IInv
<1>1. /\ at' \in [Callers -> Places]
      /\ \A y \in Conns : at'[y] = at[y]
  BY ConnsApart DEF GiveUp, Goes, Places
<1>2. UNCHANGED <<running, members, inbox, unsent, open>>
  BY DEF GiveUp, roomVars
<1>3. InboxInv' /\ MembersInv' /\ ServedInv'
  BY <1>1, <1>2 DEF InboxInv, MembersInv, ServedInv
<1> QED BY <1>1, <1>2, <1>3

\* Reading, and noticing that there is nothing more to read, happen to an
\* admitted connection, which stays one.
LEMMA ReadIInv ==
  ASSUME IInv, NEW c \in Conns,
         ReadFails(c) \/ Drop(c) \/ \E t \in Texts : Read(c, t)
  PROVE  IInv'
<1> USE DEF IInv
<1>1. /\ at' \in [Callers -> Places]
      /\ at[c] = "reading" /\ at'[c] \in Admitted
      /\ \A y \in Callers : y # c => at'[y] = at[y]
  BY ConnsApart DEF ReadFails, Drop, Read, Goes, Places, Admitted
<1>2. UNCHANGED <<running, members, inbox>> /\ open' \subseteq open
  BY DEF ReadFails, Drop, Read, roomVars
<1>3. unsent' \in [Conns -> Texts]
  BY DEF ReadFails, Drop, Read
<1>4. InboxInv'
  BY <1>1, <1>2, ConnsApart DEF InboxInv, Admitted
<1>5. MembersInv' /\ ServedInv'
  BY <1>1, <1>2, ConnsApart DEF MembersInv, ServedInv, Admitted
<1> QED BY <1>1, <1>2, <1>3, <1>4, <1>5

\* A message passed on from a client is neither an attach nor a detach.
LEMMA PostIInv ==
  ASSUME IInv, NEW c \in Conns, Post(c)
  PROVE  IInv'
<1> USE DEF IInv
<1> DEFINE m == Text(c, unsent[c])
<1>1. /\ at' \in [Callers -> Places]
      /\ at[c] = "posting" /\ at'[c] = "reading"
      /\ \A y \in Callers : y # c => at'[y] = at[y]
  BY ConnsApart DEF Post, Goes, Places
<1>2. UNCHANGED <<running, members>> /\ open' = open
  BY DEF Post, roomVars
<1>3. m \in Messages /\ m.kind = "text" /\ m.from = c
  BY DEF Messages, Text
<1>4. Send(m)
  BY DEF Post
<1>5. unsent' \in [Conns -> Texts]
  BY DEF Post, Texts
<1>6. InboxInv'
  <2> HIDE DEF m
  <2> QED BY <1>1, <1>3, <1>4, ConnsApart, QueuedInbox
<1>7. MembersInv' /\ ServedInv'
  <2>1. \A d \in Conns : at'[d] \in Admitted <=> at[d] \in Admitted
    BY <1>1, ConnsApart DEF Admitted
  <2> HIDE DEF m
  <2> QED BY <2>1, <1>1, <1>2, <1>3, <1>4, QueuedKeeps
<1> QED BY <1>1, <1>2, <1>5, <1>6, <1>7

\* A detach is asked for by a connection that is through, and keeps it counted
\* until it is handled.
LEMMA DetachIInv ==
  ASSUME IInv, NEW c \in Conns, Detach(c)
  PROVE  IInv'
<1> USE DEF IInv
<1> DEFINE m == Request("detach", c)
<1>1. /\ at' \in [Callers -> Places]
      /\ at[c] = "detaching" /\ at'[c] = "done"
      /\ \A y \in Callers : y # c => at'[y] = at[y]
  BY ConnsApart DEF Detach, Goes, Places
<1>2. UNCHANGED <<running, members, unsent>> /\ open' = open
  BY DEF Detach, roomVars
<1>3. m \in Messages /\ m.kind = "detach" /\ m.from = c
  BY ConnsApart DEF Messages, Request
<1>4. Send(m)
  BY DEF Detach
<1>5. InboxInv'
  <2> HIDE DEF m
  <2> QED BY <1>1, <1>3, <1>4, ConnsApart, QueuedInbox
<1>6. MembersInv' /\ ServedInv'
  <2>1. /\ \A d \in Conns : at'[d] \in Admitted => at[d] \in Admitted
        /\ \A d \in Conns : at[d] \in Admitted => at'[d] \in Admitted \/ d = c
    BY <1>1, ConnsApart DEF Admitted
  <2>2. \A d \in members : at[d] \in Admitted =>
           at'[d] \in Admitted \/ m = Request("detach", d)
    BY <2>1
  <2> HIDE DEF m
  <2> QED BY <2>1, <2>2, <1>1, <1>2, <1>3, <1>4, QueuedKeeps
<1> QED BY <1>1, <1>2, <1>5, <1>6

-----------------------------------------------------------------------------
(* The actor takes the first message of the inbox.                         *)

\* What is left of the inbox when its first message is taken: nobody whom the
\* message concerned has another one there.
LEMMA TakenInbox ==
  ASSUME IInv, inbox # <<>>, inbox' = Tail(inbox), NEW x,
         \A y \in Callers : y # x => at'[y] = at[y],
         \/ Head(inbox).kind = "attach" /\ x = Head(inbox).from
         \/ x \notin Conns
         \/ at' = at
  PROVE  InboxInv'
<1> USE DEF IInv
<1>1. /\ inbox' \in Seq(Messages)
      /\ 1 \in DOMAIN inbox /\ Head(inbox) = inbox[1]
      /\ \A i \in DOMAIN inbox' : i + 1 \in DOMAIN inbox /\ inbox'[i] = inbox[i + 1]
  BY Taken DEF InboxInv
<1>2. \A i \in DOMAIN inbox' : i \in Nat /\ i + 1 # 1
  BY <1>1
<1>3. ASSUME NEW i \in DOMAIN inbox', inbox'[i].kind \in {"attach", "detach"}
      PROVE  /\ inbox'[i].from \in Conns
             /\ at'[inbox'[i].from] = at[inbox'[i].from]
  <2>1. inbox'[i].from \in Conns
    BY <1>1, <1>3 DEF InboxInv
  <2>2. CASE Head(inbox).kind = "attach" /\ x = Head(inbox).from
    <3>1. inbox'[i].from # x
      <4>1. CASE inbox'[i].kind = "attach"
        BY <4>1, <2>2, <1>1, <1>2 DEF InboxInv
      <4>2. CASE inbox'[i].kind = "detach"
        BY <4>2, <2>2, <1>1 DEF InboxInv
      <4> QED BY <4>1, <4>2, <1>3
    <3> QED BY <3>1, <2>1, ConnsApart
  <2>3. CASE x \notin Conns
    BY <2>1, <2>3, ConnsApart
  <2>4. CASE at' = at
    BY <2>1, <2>4
  <2> QED BY <2>1, <2>2, <2>3, <2>4
<1>4. ASSUME NEW i \in DOMAIN inbox'
      PROVE  /\ inbox'[i].kind = "attach" =>
                  inbox'[i].from \in Conns /\ at'[inbox'[i].from] = "waiting"
             /\ inbox'[i].kind = "detach" =>
                  inbox'[i].from \in Conns /\ at'[inbox'[i].from] = "done"
             /\ inbox'[i].kind \in {"join", "summary"} => inbox'[i].from \notin Conns
  <2>1. inbox'[i] = inbox[i + 1] /\ i + 1 \in DOMAIN inbox
    BY <1>1
  <2>2. CASE inbox'[i].kind \in {"attach", "detach"}
    BY <2>1, <2>2, <1>3 DEF InboxInv
  <2>3. CASE inbox'[i].kind \notin {"attach", "detach"}
    BY <2>1, <2>3 DEF InboxInv
  <2> QED BY <2>2, <2>3
<1>5. \A i, j \in DOMAIN inbox' :
        inbox'[i].kind = "attach" /\ inbox'[j].kind = "attach"
          /\ inbox'[i].from = inbox'[j].from => i = j
  BY <1>1, <1>2 DEF InboxInv
<1> QED BY <1>1, <1>4, <1>5 DEF InboxInv

\* A detach that is not the message taken is still there.
LEMMA DetachStays ==
  ASSUME IInv, inbox # <<>>, inbox' = Tail(inbox), NEW c,
         Head(inbox) # Request("detach", c),
         \E i \in DOMAIN inbox : inbox[i] = Request("detach", c)
  PROVE  \E i \in DOMAIN inbox' : inbox'[i] = Request("detach", c)
<1>1. PICK i \in DOMAIN inbox : inbox[i] = Request("detach", c)
  OBVIOUS
<1>2. /\ Head(inbox) = inbox[1]
      /\ i # 1 => i - 1 \in DOMAIN inbox' /\ inbox'[i - 1] = inbox[i]
  BY Taken DEF IInv, InboxInv
<1> QED BY <1>1, <1>2

\* Whoever has a detach in the inbox is done, and no longer admitted.
LEMMA DetachedIsDone ==
  ASSUME IInv, NEW c, \E i \in DOMAIN inbox : inbox[i] = Request("detach", c)
  PROVE  at[c] = "done"
BY DEF IInv, InboxInv, Request

\* A connection is admitted, and takes its seat from the one before, or refused;
\* nobody who waits to be admitted is counted yet.
LEMMA AttachIInv ==
  ASSUME IInv, running, inbox # <<>>, inbox' = Tail(inbox), unsent' = unsent,
         Head(inbox).kind = "attach", HandleAttach(Head(inbox).from)
  PROVE  IInv'
<1> USE DEF IInv
<1> DEFINE c == Head(inbox).from
<1>1. c \in Conns /\ at[c] = "waiting"
  BY Taken DEF InboxInv
<1>2. /\ at' \in [Callers -> Places] /\ running' = running
      /\ \A y \in Callers : y # c => at'[y] = at[y]
  BY DEF HandleAttach, Admit, Refuse, Goes, Places
<1>3. InboxInv'
  <2> HIDE DEF c
  <2>1. c = Head(inbox).from
    BY DEF c
  <2> QED BY <1>2, <2>1, TakenInbox
<1>4. c \notin members
  BY <1>1, DetachedIsDone DEF MembersInv, Admitted
<1>5. ASSUME NEW d, \E i \in DOMAIN inbox : inbox[i] = Request("detach", d)
      PROVE  \E i \in DOMAIN inbox' : inbox'[i] = Request("detach", d)
  <2>1. Head(inbox) # Request("detach", d)
    BY DEF Request
  <2> QED BY <2>1, <1>5, DetachStays
<1>6. CASE Admit(c)
  <2>1. /\ members' = (members \ SameSeat(c)) \cup {c}
        /\ open' = open \ SameSeat(c) /\ at'[c] = "reading"
    BY <1>1, <1>6, ConnsApart DEF Admit, Goes
  <2>2. members' \subseteq Conns
    BY <1>1, <2>1
  <2>3. MembersInv'
    BY <1>1, <1>2, <1>5, <2>1, ConnsApart DEF MembersInv, Admitted
  <2>4. ServedInv'
    BY <1>1, <1>2, <2>1, ConnsApart DEF ServedInv, SameSeat
  <2> QED BY <1>2, <1>3, <2>2, <2>3, <2>4
<1>7. CASE Refuse(c)
  <2>1. members' = members /\ open' = open \ {c}
    BY <1>7 DEF Refuse
  <2>2. MembersInv'
    BY <1>2, <1>4, <1>5, <2>1, ConnsApart DEF MembersInv
  <2>3. ServedInv'
    BY <1>2, <2>1, ConnsApart DEF ServedInv
  <2> QED BY <1>2, <1>3, <2>1, <2>2, <2>3
<1> QED BY <1>6, <1>7 DEF HandleAttach

\* An answer goes to a request that is no connection.
LEMMA QuestionIInv ==
  ASSUME IInv, running, inbox # <<>>, inbox' = Tail(inbox), unsent' = unsent,
         Head(inbox).kind \in {"join", "summary"}, HandleQuestion(Head(inbox).from)
  PROVE  IInv'
<1> USE DEF IInv
<1> DEFINE x == Head(inbox).from
<1>1. x \notin Conns
  BY Taken DEF InboxInv
<1>2. /\ at' \in [Callers -> Places]
      /\ UNCHANGED <<running, members, open>>
      /\ \A y \in Callers : y # x => at'[y] = at[y]
  BY DEF HandleQuestion, Goes, Places
<1>3. InboxInv'
  <2> HIDE DEF x
  <2> QED BY <1>1, <1>2, TakenInbox
<1>4. ASSUME NEW d, \E i \in DOMAIN inbox : inbox[i] = Request("detach", d)
      PROVE  \E i \in DOMAIN inbox' : inbox'[i] = Request("detach", d)
  <2>1. Head(inbox) # Request("detach", d)
    BY DEF Request
  <2> QED BY <2>1, <1>4, DetachStays
<1>5. MembersInv' /\ ServedInv'
  BY <1>1, <1>2, <1>4, ConnsApart DEF MembersInv, ServedInv
<1> QED BY <1>2, <1>3, <1>5

\* A detach, a kick or a message to the game moves no goroutine; who is no
\* longer counted is done, or hung up on in the same step.
LEMMA LeaveIInv ==
  ASSUME IInv, running, inbox # <<>>, inbox' = Tail(inbox), unsent' = unsent,
         at' = at, members' \subseteq members, open' \subseteq open,
         \A c \in members \ members' : c \notin open' \/ at[c] = "done",
         \A c \in members' : Head(inbox) # Request("detach", c)
  PROVE  IInv'
<1> USE DEF IInv
<1>1. InboxInv'
  BY TakenInbox
<1>2. MembersInv'
  <2> SUFFICES ASSUME NEW c \in members', at[c] \notin Admitted
               PROVE  \E i \in DOMAIN inbox' : inbox'[i] = Request("detach", c)
    BY DEF MembersInv
  <2>1. \E i \in DOMAIN inbox : inbox[i] = Request("detach", c)
    BY DEF MembersInv
  <2> QED BY <2>1, DetachStays
<1>3. ServedInv'
  BY DEF ServedInv, Admitted
<1> QED BY <1>1, <1>2, <1>3

\* Every message the actor takes, of whatever kind, keeps the invariant.
LEMMA ReceiveIInv == IInv /\ Receive => IInv'
<1> SUFFICES ASSUME IInv, Receive PROVE IInv'
  OBVIOUS
<1> DEFINE m == Head(inbox)
<1>1. /\ running /\ inbox # <<>> /\ inbox' = Tail(inbox) /\ unsent' = unsent
      /\ Dispatch(m)
  BY DEF Receive
<1>2. CASE m.kind = "attach" /\ HandleAttach(m.from)
  BY <1>1, <1>2, AttachIInv
<1>3. CASE m.kind \in {"join", "summary"} /\ HandleQuestion(m.from)
  BY <1>1, <1>3, QuestionIInv
<1>4. CASE m.kind = "detach" /\ HandleDetach(m.from)
  <2>1. m.from \in Conns /\ at[m.from] = "done"
    BY <1>1, <1>4, Taken DEF IInv, InboxInv
  <2>2. members' = members \ {m.from} /\ at' = at /\ open' = open
    BY <1>4 DEF HandleDetach, Left
  <2>3. \A c \in members' : m # Request("detach", c)
    BY <2>2 DEF Request
  <2> QED BY <1>1, <2>1, <2>2, <2>3, LeaveIInv
<1>5. CASE m.kind = "text" /\ HandleText(m.text)
  <2>1. \A c : m # Request("detach", c)
    BY <1>5 DEF Request
  <2>2. CASE HandleCloseRoom
    <3>1. at' = at /\ open' = open /\ members' = {} /\ running' = FALSE
      BY <2>2 DEF HandleCloseRoom
    <3>2. InboxInv'
      BY <1>1, <3>1, TakenInbox DEF IInv
    <3> QED BY <1>1, <3>1, <3>2 DEF IInv, MembersInv, ServedInv
  <2>3. ASSUME NEW t \in Seats, HandleKick(t) PROVE IInv'
    <3>1. /\ at' = at /\ members' \subseteq members /\ open' \subseteq open
          /\ \A c \in members \ members' : c \notin open'
      BY <2>3 DEF HandleKick
    <3> QED BY <1>1, <2>1, <3>1, LeaveIInv
  <2>4. CASE UNCHANGED <<running, registered, members, closing, at, open>>
    BY <1>1, <2>1, <2>4, LeaveIInv
  <2> QED BY <1>5, <2>2, <2>3, <2>4 DEF HandleText
<1> QED BY <1>1, <1>2, <1>3, <1>4, <1>5 DEF Dispatch

\* Timers, signals and the end of the room count and serve nobody new.
LEMMA OtherIInv ==
  ASSUME IInv,
         IdleFires \/ GoneIdle \/ ShutDown \/ CloseAfterPause \/ Signal \/ Exit
  PROVE  IInv'
<1> USE DEF IInv
<1>1. UNCHANGED <<at, members, inbox, unsent>> /\ open' \subseteq open
  BY DEF IdleFires, GoneIdle, ShutDown, Return, CloseAfterPause, Signal, Exit, roomVars
<1>2. running' => running
  BY DEF IdleFires, GoneIdle, ShutDown, Return, CloseAfterPause, Signal, Exit, roomVars
<1>3. InboxInv' /\ MembersInv' /\ ServedInv'
  BY <1>1, <1>2 DEF InboxInv, MembersInv, ServedInv
<1> QED BY <1>1, <1>3

-----------------------------------------------------------------------------

\* No caller, message, timer or signal leaves the invariant, in any order.
LEMMA Inductive == IInv /\ [Next]_vars => IInv'
<1> SUFFICES ASSUME IInv, [Next]_vars PROVE IInv'
  OBVIOUS
<1>1. ASSUME NEW x \in Callers, Get(x) \/ Call(x) \/ GiveUp(x) PROVE IInv'
  BY <1>1, GetIInv, CallIInv, GiveUpIInv
<1>2. ASSUME NEW c \in Conns,
             Conversation(c) \/ Drop(c) \/ \E t \in Texts : Read(c, t)
      PROVE IInv'
  BY <1>2, ReadIInv, PostIInv, DetachIInv DEF Conversation
<1>3. CASE Receive
  BY <1>3, ReceiveIInv
<1>4. CASE IdleFires \/ GoneIdle \/ ShutDown \/ CloseAfterPause \/ Signal \/ Exit
  BY <1>4, OtherIInv
<1>5. CASE UNCHANGED vars
  BY <1>5 DEF vars, roomVars, IInv, InboxInv, MembersInv, ServedInv
<1> QED BY <1>1, <1>2, <1>3, <1>4, <1>5 DEF Next

\* The rest of the type invariant, which no handler depends on.
BoundsInv ==
  /\ registered \in BOOLEAN /\ running \in BOOLEAN
  /\ shutdown \in BOOLEAN /\ exited \in BOOLEAN /\ idleFired \in BOOLEAN
  /\ Len(inbox) <= InboxSize /\ closing \subseteq Conns /\ open \subseteq Conns

\* A send waits for room in the inbox, whatever is sent.
LEMMA SentFits ==
  ASSUME IInv, BoundsInv, NEW m \in Messages, Send(m)
  PROVE  Len(inbox') <= InboxSize
BY RoomActorAssumption DEF IInv, InboxInv, BoundsInv, Send

LEMMA BoundsKept == IInv /\ BoundsInv /\ [Next]_vars => BoundsInv'
<1> SUFFICES ASSUME IInv, BoundsInv, [Next]_vars PROVE BoundsInv'
  OBVIOUS
<1> USE DEF BoundsInv, roomVars
<1>1. ASSUME NEW x \in Callers, Get(x) \/ Call(x) \/ GiveUp(x) PROVE BoundsInv'
  <2>1. Request(Kind(x), x) \in Messages
    BY DEF Request, Kind, Messages
  <2> QED BY <1>1, <2>1, SentFits DEF Get, Call, GiveUp
<1>2. ASSUME NEW c \in Conns,
             Conversation(c) \/ Drop(c) \/ \E t \in Texts : Read(c, t)
      PROVE BoundsInv'
  <2>1. Request("detach", c) \in Messages /\ Text(c, unsent[c]) \in Messages
    BY ConnsApart DEF Request, Text, Messages, IInv
  <2> QED BY <1>2, <2>1, SentFits DEF Conversation, ReadFails, Post, Detach, Drop, Read
<1>3. CASE Receive
  <2>1. Len(inbox') <= InboxSize
    BY <1>3, RoomActorAssumption DEF Receive, IInv, InboxInv
  <2>2. Dispatch(Head(inbox)) /\ idleFired' \in BOOLEAN /\ UNCHANGED <<shutdown, exited>>
    BY <1>3 DEF Receive
  <2>3. registered' \in BOOLEAN /\ running' \in BOOLEAN /\ closing' \subseteq Conns
        /\ open' \subseteq Conns
    BY <2>2 DEF Dispatch, HandleAttach, Admit, Refuse, HandleQuestion, HandleDetach,
       HandleText, HandleCloseRoom, HandleKick, Closing, IInv
  <2> QED BY <2>1, <2>2, <2>3
<1>4. CASE IdleFires \/ GoneIdle \/ ShutDown \/ CloseAfterPause \/ Signal \/ Exit
  BY <1>4 DEF IdleFires, GoneIdle, ShutDown, Return, CloseAfterPause, Signal, Exit
<1>5. CASE UNCHANGED vars
  BY <1>5 DEF vars
<1> QED BY <1>1, <1>2, <1>3, <1>4, <1>5 DEF Next

\* The type invariant: the inbox holds the messages there are and never more of them
\* than its capacity, whoever sends in whatever order.
THEOREM RoomTyped == Spec => []TypeOK
<1>1. Init => BoundsInv
  <2>1. Len(<<>>) = 0 /\ 0 <= InboxSize
    BY RoomActorAssumption
  <2> QED BY <2>1 DEF Init, BoundsInv
<1>2. IInv /\ BoundsInv => TypeOK
  BY DEF IInv, InboxInv, BoundsInv, TypeOK
<1> QED BY <1>1, <1>2, InitIInv, Inductive, BoundsKept, PTL DEF Spec

\* Whoever is connected is served, for any number of connections to a seat and
\* any interleaving of attach, message, kick, detach and close.
THEOREM ConnectedIsServed == Spec => []OpenIsServed
<1>1. IInv => OpenIsServed
  <2> SUFFICES ASSUME IInv, NEW c \in Conns, running, c \in open,
                      at[c] \notin {"start", "found", "waiting", "done"}
               PROVE  c \in members
    BY DEF OpenIsServed
  <2>1. at[c] \in Admitted
    BY ConnsApart DEF IInv, Places, Admitted
  <2> QED BY <2>1 DEF IInv, ServedInv
<1> QED BY <1>1, InitIInv, Inductive, PTL DEF Spec

\* The room never counts a connection whose end it will not hear of.
THEOREM CountsNoGhosts == Spec => []NoGhosts
<1>1. IInv => NoGhosts
  BY DEF IInv, MembersInv, NoGhosts, Admitted
<1> QED BY <1>1, InitIInv, Inductive, PTL DEF Spec
=============================================================================
