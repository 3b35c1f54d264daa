---------------------------- MODULE SessionProofs ----------------------------
(***************************************************************************)
(* Theorems about who plays whom (Session.tla), for any number of phones,  *)
(* links, names and players.                                               *)
(*                                                                         *)
(* That a name is free where dedupeName looks for one is an argument of    *)
(* counting (SomeNumberIsFree).  That one phone plays a player needs two   *)
(* facts about tokens: all that are about were handed out (CredentialsInv) *)
(* so that the next is new, and none but the phone that plays a live       *)
(* player can hold the current one (HoldersInv).                           *)
(***************************************************************************)
EXTENDS Session, FiniteSetTheorems, WellFoundedInduction, TLAPS

Player == [name : Seq(Nat), connected : BOOLEAN, token : Nat]

RosterInv ==
  /\ lastId \in Nat /\ lastToken \in Nat
  /\ players \in [DOMAIN players -> Player]
  /\ IsFiniteSet(DOMAIN players) /\ DOMAIN players \subseteq 1 .. lastId

LinksInv ==
  /\ at \in [Links -> {"free", "attaching", "open", "closing"}]
  /\ DOMAIN live \subseteq DOMAIN players
  /\ live \in [DOMAIN live -> Links]
  /\ \A p \in DOMAIN live :
       shown[live[p]].player = p /\ at[live[p]] \in {"open", "closing"}

CredentialsInv ==
  /\ shown \in [Links -> Credentials \cup {NoCredential}]
  /\ \A l \in Links : at[l] # "free" => shown[l] \in Credentials
  /\ held \in [Phones -> SUBSET Credentials]
  /\ replies \subseteq Phones \X Credentials

Current(p) == [player |-> p, token |-> players[p].token]

HoldersInv ==
  /\ OneHolder
  /\ \A p \in DOMAIN live, phone \in Phones :
       Holds(phone, Current(p)) => phone = PhoneOf(live[p])

IInv == /\ RosterInv /\ NamesDistinct
        /\ LinksInv /\ LiveIsConnected
        /\ CredentialsInv /\ HoldersInv

\* Every non-empty set of naturals has a least element, which Min chooses: the first
\* number that is free is free, and the first player claimed is one of those claimed.
LEMMA LeastIsThere ==
  ASSUME NEW S, S \subseteq Nat, S # {}
  PROVE  Min(S) \in S
<1>1. IsWellFoundedOn(OpToRel(<, Nat), Nat)
  BY NatLessThanWellFounded
<1> DEFINE R == {ss \in Nat \X Nat : ss[1] < ss[2]}
<1>2. IsWellFoundedOn(R, Nat)
  BY <1>1 DEF OpToRel
<1>3. PICK x \in S : \A y \in S : ~(<<y, x>> \in R)
  <2> HIDE DEF R
  <2> QED BY <1>2, WFMin
<1>4. ASSUME NEW y \in S PROVE x <= y
  <2>1. x \in Nat /\ y \in Nat /\ <<y, x>> \in Nat \X Nat
    OBVIOUS
  <2>2. ~(y < x)
    BY <1>3, <2>1
  <2> QED BY <2>1, <2>2
<1> QED BY <1>4 DEF Min

-----------------------------------------------------------------------------
(* Names.                                                                  *)

LEMMA AppendDistinguishes ==
  ASSUME NEW s \in Seq(Nat), NEW m \in Nat, NEW n \in Nat, Append(s, m) = Append(s, n)
  PROVE  m = n
<1>1. Append(s, m)[Len(s) + 1] = m /\ Append(s, n)[Len(s) + 1] = n
  OBVIOUS
<1> QED BY <1>1

\* Of one more number than there are players some number makes a name nobody has.
LEMMA SomeNumberIsFree ==
  ASSUME RosterInv, NEW name \in Seq(Nat)
  PROVE  \E n \in 2 .. Cardinality(DOMAIN players) + 2 : ~Taken(Append(name, n))
<1> DEFINE Numbers == 2 .. Cardinality(DOMAIN players) + 2
<1> SUFFICES ASSUME \A n \in Numbers : Taken(Append(name, n))
             PROVE  FALSE
  OBVIOUS
<1>1. IsFiniteSet(DOMAIN players) /\ Cardinality(DOMAIN players) \in Nat
  BY FS_CardinalityType DEF RosterInv
<1>2. IsFiniteSet(Numbers) /\ Cardinality(Numbers) = Cardinality(DOMAIN players) + 1
  <2> DEFINE n == Cardinality(DOMAIN players)
  <2>1. n \in Nat
    BY <1>1
  <2> HIDE DEF n
  <2>2. /\ IsFiniteSet(2 .. n + 2)
        /\ Cardinality(2 .. n + 2) = IF 2 > n + 2 THEN 0 ELSE n + 2 - 2 + 1
    BY <2>1, FS_Interval
  <2> QED BY <2>1, <2>2 DEF n
<1> DEFINE owner == [n \in Numbers |->
                       CHOOSE p \in DOMAIN players : players[p].name = Append(name, n)]
<1>3. \A n \in Numbers : owner[n] \in DOMAIN players
                         /\ players[owner[n]].name = Append(name, n)
  BY DEF Taken
<1>4. owner \in [Numbers -> DOMAIN players]
  BY <1>3
<1>5. Numbers \subseteq Nat
  OBVIOUS
<1> HIDE DEF owner, Numbers
<1>6. Cardinality(DOMAIN players) < Cardinality(Numbers)
  BY <1>1, <1>2
<1>7. PICK m \in Numbers, n \in Numbers : m # n /\ owner[m] = owner[n]
  BY <1>1, <1>2, <1>4, <1>6, FS_PigeonHole
<1>8. Append(name, m) = Append(name, n)
  BY <1>3, <1>7
<1> QED BY <1>5, <1>7, <1>8, AppendDistinguishes

LEMMA DedupedIsFree ==
  ASSUME RosterInv, NEW name \in Names
  PROVE  ~Taken(Deduped(name)) /\ Deduped(name) \in Seq(Nat)
<1> DEFINE free == {n \in 2 .. Cardinality(DOMAIN players) + 2 : ~Taken(Append(name, n))}
<1>1. name \in Seq(Nat)
  BY SessionAssumption
<1>2. free # {} /\ free \subseteq Nat
  BY <1>1, SomeNumberIsFree
<1>3. Min(free) \in free
  <2> HIDE DEF free
  <2> QED BY <1>2, LeastIsThere
<1>4. CASE Taken(name)
  <2>1. Deduped(name) = Append(name, Min(free))
    BY <1>4 DEF Deduped
  <2>2. Min(free) \in Nat /\ ~Taken(Append(name, Min(free)))
    BY <1>2, <1>3
  <2> HIDE DEF free
  <2> QED BY <1>1, <2>1, <2>2
<1>5. CASE ~Taken(name)
  BY <1>1, <1>5 DEF Deduped
<1> QED BY <1>4, <1>5

\* A join that claims somebody claims a player of the roster, whose phone it is or
\* who is offline.
LEMMA ClaimedIsPlayer ==
  ASSUME RosterInv, NEW name, NEW credential, Claimed(name, credential) # {}
  PROVE  LET p == Min(Claimed(name, credential))
         IN /\ p \in DOMAIN players
            /\ ~players[p].connected \/ credential = Current(p)
               \/ (credential.player = p /\ credential.token = players[p].token)
<1>1. Claimed(name, credential) \subseteq Nat
  BY DEF Claimed, RosterInv
<1>2. Min(Claimed(name, credential)) \in Claimed(name, credential)
  BY <1>1, LeastIsThere
<1> QED BY <1>2 DEF Claimed

-----------------------------------------------------------------------------
(* What a step does to the roster.                                         *)

\* Somebody has come in under a free name.
LEMMA EnrollKeeps ==
  ASSUME RosterInv, NamesDistinct, NEW name \in Names, NEW player \in Player,
         player.name = Deduped(name), Enroll(player), lastToken' \in Nat
  PROVE  /\ RosterInv' /\ NamesDistinct' /\ lastId' \in DOMAIN players'
         /\ lastId' \notin DOMAIN players
         /\ DOMAIN players' = DOMAIN players \cup {lastId'}
         /\ players'[lastId'] = player
         /\ \A p \in DOMAIN players : players'[p] = players[p]
<1>1. /\ lastId' = lastId + 1 /\ lastId' \notin DOMAIN players
      /\ DOMAIN players' = DOMAIN players \cup {lastId'}
      /\ players'[lastId'] = player
      /\ \A p \in DOMAIN players : players'[p] = players[p]
  BY DEF Enroll, With, RosterInv
<1>2. players' \in [DOMAIN players' -> Player]
  BY <1>1 DEF Enroll, With, RosterInv
<1>3. IsFiniteSet(DOMAIN players')
  BY <1>1, FS_AddElement DEF RosterInv
<1>4. RosterInv'
  BY <1>1, <1>2, <1>3 DEF RosterInv
<1>5. NamesDistinct'
  BY <1>1, DedupedIsFree DEF NamesDistinct, Taken
<1> QED BY <1>1, <1>4, <1>5
\* Nothing about a player but whether they are connected has changed.
LEMMA PresenceKeeps ==
  ASSUME RosterInv, NamesDistinct, NEW p \in DOMAIN players, NEW online \in BOOLEAN,
         players' = [players EXCEPT ![p].connected = online], UNCHANGED <<lastId, lastToken>>
  PROVE  /\ RosterInv' /\ NamesDistinct' /\ DOMAIN players' = DOMAIN players
         /\ players'[p].connected = online
         /\ \A q \in DOMAIN players : /\ players'[q].name = players[q].name
                                      /\ players'[q].token = players[q].token
                                      /\ q # p => players'[q] = players[q]
<1>1. players \in [DOMAIN players -> Player] /\ players[p] \in Player
  BY DEF RosterInv
<1>2. /\ DOMAIN players' = DOMAIN players
      /\ players'[p] = [players[p] EXCEPT !.connected = online]
      /\ \A q \in DOMAIN players : q # p => players'[q] = players[q]
      /\ players' = [q \in DOMAIN players |-> players'[q]]
  BY <1>1
<1>3. /\ players'[p] \in Player /\ players'[p].connected = online
      /\ players'[p].name = players[p].name /\ players'[p].token = players[p].token
  BY <1>1, <1>2 DEF Player
<1>4. players' \in [DOMAIN players' -> Player]
  BY <1>1, <1>2, <1>3
<1>5. RosterInv'
  BY <1>2, <1>4 DEF RosterInv
<1>6. NamesDistinct'
  BY <1>2, <1>3 DEF NamesDistinct
<1> QED BY <1>2, <1>3, <1>5, <1>6

-----------------------------------------------------------------------------
(* Who holds what.                                                         *)

LEMMA HeldIsHandedOut ==
  ASSUME CredentialsInv, RosterInv, NEW phone \in Phones, NEW c, Holds(phone, c)
  PROVE  c \in Credentials /\ c.token # 0 /\ c.token <= lastToken
BY DEF Holds, CredentialsInv, RosterInv, Credentials

\* A step that gives nobody a credential they do not hold, renews no token and puts
\* only the holder of the current one on a seat keeps one phone to a player.
LEMMA HoldersKeep ==
  ASSUME IInv,
         \A phone \in Phones : \A c : Holds(phone, c)' => Holds(phone, c),
         \A p \in DOMAIN players' :
           \/ players'[p].token = 0
           \/ p \in DOMAIN players /\ players'[p].token = players[p].token,
         DOMAIN live' \subseteq DOMAIN players \cap DOMAIN players',
         \A p \in DOMAIN live' :
           \/ p \in DOMAIN live /\ PhoneOf(live'[p]) = PhoneOf(live[p])
           \/ PhoneOf(live'[p]) \in Phones /\ Holds(PhoneOf(live'[p]), Current(p))
  PROVE  HoldersInv'
<1>1. \A phone \in Phones, p \in DOMAIN players' :
        Holds(phone, Current(p))' => p \in DOMAIN players /\ Holds(phone, Current(p))
  <2> SUFFICES ASSUME NEW phone \in Phones, NEW p \in DOMAIN players',
                      Holds(phone, Current(p))'
               PROVE  p \in DOMAIN players /\ Holds(phone, Current(p))
    OBVIOUS
  <2>1. Holds(phone, Current(p)')
    BY DEF Holds
  <2>2. Current(p)'.token # 0
    BY <2>1, HeldIsHandedOut DEF IInv
  <2>3. p \in DOMAIN players /\ Current(p)' = Current(p)
    BY <2>2 DEF Current
  <2> QED BY <2>1, <2>3
<1>2. OneHolder'
  <2> SUFFICES ASSUME NEW p \in DOMAIN players', NEW d \in Phones, NEW e \in Phones,
                      Holds(d, Current(p))', Holds(e, Current(p))'
               PROVE  d = e
    BY DEF OneHolder, Current
  <2>1. p \in DOMAIN players /\ Holds(d, Current(p)) /\ Holds(e, Current(p))
    BY <1>1
  <2> QED BY <2>1 DEF IInv, HoldersInv, OneHolder, Current
<1>3. ASSUME NEW p \in DOMAIN live', NEW phone \in Phones, Holds(phone, Current(p))'
      PROVE  phone = PhoneOf(live'[p])
  <2>1. p \in DOMAIN players /\ Holds(phone, Current(p))
    BY <1>1, <1>3
  <2> QED BY <2>1 DEF IInv, HoldersInv, OneHolder, Current
<1> QED BY <1>2, <1>3 DEF HoldersInv
-----------------------------------------------------------------------------
(* The steps.                                                              *)

LEMMA StartsWell == Init => IInv
<1> SUFFICES ASSUME Init PROVE IInv
  OBVIOUS
<1>1. RosterInv /\ NamesDistinct
  BY FS_EmptySet DEF Init, RosterInv, NamesDistinct, Nobody
<1>2. LinksInv /\ LiveIsConnected
  BY DEF Init, LinksInv, LiveIsConnected, Nobody
<1>3. CredentialsInv
  BY DEF Init, CredentialsInv
<1>4. HoldersInv
  BY DEF Init, HoldersInv, OneHolder, Nobody
<1> QED BY <1>1, <1>2, <1>3, <1>4 DEF IInv

\* The player claimed has a new token, which is on its way to the phone that asked,
\* and nobody else had it.
LEMMA ReclaimKeeps ==
  ASSUME IInv, NEW phone \in Phones, NEW p \in DOMAIN players,
         ~players[p].connected \/ Holds(phone, Current(p)),
         Reclaim(p), lastToken' = lastToken + 1, Reply(phone, p),
         UNCHANGED <<inLobby, live, at, shown, held, away>>
  PROVE  IInv'
<1> DEFINE new == [player |-> p, token |-> lastToken + 1]
<1>0. players \in [DOMAIN players -> Player] /\ lastId \in Nat /\ lastToken \in Nat
  BY DEF IInv, RosterInv
<1>1. /\ DOMAIN players' = DOMAIN players
      /\ players' \in [DOMAIN players -> Player]
      /\ players'[p] = [name |-> players[p].name, connected |-> TRUE,
                        token |-> lastToken + 1]
      /\ \A q \in DOMAIN players : q # p => players'[q] = players[q]
  BY <1>0 DEF Reclaim, Player
<1>2. RosterInv' /\ NamesDistinct'
  <2>1. RosterInv'
    BY <1>0, <1>1 DEF Reclaim, IInv, RosterInv
  <2>2. NamesDistinct'
    BY <1>1 DEF IInv, NamesDistinct
  <2> QED BY <2>1, <2>2
<1>3. LinksInv' /\ LiveIsConnected'
  BY <1>1 DEF IInv, LinksInv, LiveIsConnected
<1>4. Credentials \subseteq Credentials' /\ new \in Credentials' /\ new \notin Credentials
  BY <1>0 DEF Credentials, Reclaim, IInv, RosterInv
<1>5. replies' = replies \cup {<<phone, new>>} /\ Current(p)' = new
  BY <1>1 DEF Reply, Current
<1>6. CredentialsInv'
  BY <1>4, <1>5 DEF IInv, CredentialsInv
<1>7. \A d \in Phones : \A c : Holds(d, c)' => Holds(d, c) \/ (d = phone /\ c = new)
  BY <1>5 DEF Holds
<1>8. \A d \in Phones : Holds(d, Current(p))' => d = phone
  BY <1>4, <1>5, <1>7, HeldIsHandedOut DEF IInv
<1>9. \A d \in Phones, q \in DOMAIN players :
        q # p /\ Holds(d, Current(q))' => Holds(d, Current(q))
  <2> SUFFICES ASSUME NEW d \in Phones, NEW q \in DOMAIN players, q # p,
                      Holds(d, Current(q))'
               PROVE  Holds(d, Current(q))
    OBVIOUS
  <2>1. Current(q)' = Current(q) /\ Current(q) # new
    BY <1>1 DEF Current
  <2> QED BY <1>7, <2>1 DEF Holds
<1>10. OneHolder'
  BY <1>1, <1>8, <1>9 DEF IInv, HoldersInv, OneHolder, Current
<1>11. \A q \in DOMAIN live', d \in Phones : Holds(d, Current(q))' => d = PhoneOf(live'[q])
  <2> SUFFICES ASSUME NEW q \in DOMAIN live, NEW d \in Phones, Holds(d, Current(q))'
               PROVE  d = PhoneOf(live[q])
    OBVIOUS
  <2>1. q \in DOMAIN players /\ players[q].connected
    BY DEF IInv, LinksInv, LiveIsConnected
  <2>2. CASE q = p
    BY <1>8, <2>1, <2>2 DEF IInv, HoldersInv
  <2>3. CASE q # p
    BY <1>9, <2>1, <2>3 DEF IInv, HoldersInv
  <2> QED BY <2>2, <2>3
<1> QED BY <1>2, <1>3, <1>6, <1>10, <1>11 DEF IInv, HoldersInv

\* Somebody new has come in: nobody else holds a credential of theirs.
LEMMA NewcomerKeeps ==
  ASSUME IInv, NEW name \in Names, NEW player \in Player, player.name = Deduped(name),
         Enroll(player), UNCHANGED <<live, at, shown, held>>,
         \/ /\ player.token = 0 /\ UNCHANGED <<lastToken, replies>>
         \/ /\ player.token = lastToken + 1 /\ lastToken' = lastToken + 1
            /\ \E phone \in Phones : Reply(phone, lastId')
  PROVE  IInv'
<1>0. lastId \in Nat /\ lastToken \in Nat /\ lastToken' \in Nat /\ lastId' = lastId + 1
  BY DEF IInv, RosterInv, Enroll
<1>1. /\ RosterInv' /\ NamesDistinct' /\ lastId' \in DOMAIN players'
      /\ lastId' \notin DOMAIN players
      /\ DOMAIN players' = DOMAIN players \cup {lastId'}
      /\ players'[lastId'] = player
      /\ \A p \in DOMAIN players : players'[p] = players[p]
  BY <1>0, EnrollKeeps DEF IInv
<1>2. LinksInv' /\ LiveIsConnected'
  BY <1>1 DEF IInv, LinksInv, LiveIsConnected
<1>3. Credentials \subseteq Credentials'
  BY <1>0 DEF Credentials
<1>4. CASE player.token = 0 /\ UNCHANGED <<lastToken, replies>>
  <2>1. CredentialsInv'
    BY <1>3, <1>4 DEF IInv, CredentialsInv
  <2>2. \A phone \in Phones : \A c : Holds(phone, c)' => Holds(phone, c)
    BY <1>4 DEF Holds
  <2>3. HoldersInv'
    BY <1>1, <1>4, <2>2, HoldersKeep DEF IInv, LinksInv
  <2> QED BY <1>1, <1>2, <2>1, <2>3 DEF IInv
<1>5. ASSUME NEW phone \in Phones, player.token = lastToken + 1,
             lastToken' = lastToken + 1, Reply(phone, lastId')
      PROVE  IInv'
  <2> DEFINE new == [player |-> lastId + 1, token |-> lastToken + 1]
  <2>1. new \in Credentials' /\ new \notin Credentials
    BY <1>0, <1>5 DEF Credentials
  <2>2. replies' = replies \cup {<<phone, new>>}
    BY <1>0, <1>1, <1>5 DEF Reply
  <2>3. CredentialsInv'
    BY <1>3, <2>1, <2>2 DEF IInv, CredentialsInv
  <2>4. \A d \in Phones : \A c : Holds(d, c)' => Holds(d, c) \/ (d = phone /\ c = new)
    BY <2>2 DEF Holds
  <2>5. \A d \in Phones, p \in DOMAIN players' :
          p \notin DOMAIN players /\ Holds(d, Current(p))' => d = phone
    <3> SUFFICES ASSUME NEW d \in Phones, NEW p \in DOMAIN players', p \notin DOMAIN players,
                        Holds(d, Current(p))'
                 PROVE  d = phone
      OBVIOUS
    <3>1. Current(p)' = new
      BY <1>0, <1>1, <1>5 DEF Current
    <3>2. Holds(d, new) \/ d = phone
      BY <2>4, <3>1 DEF Holds
    <3> QED BY <2>1, <3>2, HeldIsHandedOut DEF IInv
  <2>6. \A d \in Phones, p \in DOMAIN players :
          Holds(d, Current(p))' => Holds(d, Current(p))
    <3> SUFFICES ASSUME NEW d \in Phones, NEW p \in DOMAIN players, Holds(d, Current(p))'
                 PROVE  Holds(d, Current(p))
      OBVIOUS
    <3>1. Current(p)' = Current(p) /\ Current(p) # new
      BY <1>0, <1>1 DEF Current
    <3> QED BY <2>4, <3>1 DEF Holds
  <2>7. OneHolder'
    BY <1>1, <1>5, <2>5, <2>6 DEF IInv, HoldersInv, OneHolder, Current
  <2>8. HoldersInv'
    BY <1>1, <2>6, <2>7 DEF IInv, HoldersInv, LinksInv
  <2> QED BY <1>1, <1>2, <2>3, <2>8 DEF IInv
<1> QED BY <1>4, <1>5
LEMMA JoinKeeps ==
  ASSUME IInv, NEW phone \in Phones, NEW name \in Names,
         NEW credential \in held[phone] \cup {NoCredential}, Join(phone, name, credential)
  PROVE  IInv'
<1> DEFINE claimed == Claimed(name, credential)
<1>1. CASE claimed # {} /\ Reclaim(Min(claimed)) /\ Reply(phone, Min(claimed))
  <2> DEFINE p == Min(claimed)
  <2>1. /\ p \in DOMAIN players
        /\ \/ ~players[p].connected
           \/ credential.player = p /\ credential.token = players[p].token
    BY <1>1, ClaimedIsPlayer DEF IInv, Current
  <2>2. ASSUME players[p].connected
        PROVE  Holds(phone, Current(p))
    <3>1. p # 0 /\ credential.player = p /\ credential.token = players[p].token
      BY <2>1, <2>2 DEF IInv, RosterInv
    <3>2. credential \in held[phone] /\ credential \in Credentials
      BY <3>1 DEF NoCredential, IInv, CredentialsInv
    <3>3. credential = Current(p)
      BY <3>1, <3>2 DEF Credentials, Current
    <3> QED BY <3>2, <3>3 DEF Holds
  <2> HIDE DEF claimed
  <2> QED BY <1>1, <2>1, <2>2, ReclaimKeeps DEF Join
<1>2. CASE claimed = {} /\ Enter(name) /\ Reply(phone, lastId')
  <2> DEFINE player == [name |-> Deduped(name), connected |-> TRUE, token |-> lastToken + 1]
  <2>1. player \in Player /\ player.token = lastToken + 1 /\ player.name = Deduped(name)
    BY DedupedIsFree DEF Player, IInv, RosterInv
  <2>2. Enroll(player)
    BY <1>2 DEF Enter
  <2> HIDE DEF player
  <2> QED BY <1>2, <2>1, <2>2, NewcomerKeeps DEF Join
<1> QED BY <1>1, <1>2 DEF Join

LEMMA AddKeeps ==
  ASSUME IInv, NEW name \in Names, DoAddPlayer(name)
  PROVE  IInv'
<1> DEFINE player == [name |-> Deduped(name), connected |-> FALSE, token |-> 0]
<1>1. player \in Player /\ player.token = 0 /\ player.name = Deduped(name)
  BY DedupedIsFree DEF Player, IInv, RosterInv
<1>2. Enroll(player)
  BY DEF DoAddPlayer
<1> HIDE DEF player
<1> QED BY <1>1, <1>2, NewcomerKeeps DEF DoAddPlayer, phoneVars

LEMMA RenameKeeps ==
  ASSUME IInv, NEW link \in Links, NEW name \in Names, Rename(link, name)
  PROVE  IInv'
<1> DEFINE p == shown[link].player
<1>0. players \in [DOMAIN players -> Player] /\ p \in DOMAIN players /\ name \in Seq(Nat)
  BY SessionAssumption DEF IInv, RosterInv, Rename, CanRename
<1>1. players' = [players EXCEPT ![p].name = name]
  BY DEF Rename
<1> HIDE DEF p
<1>2. /\ DOMAIN players' = DOMAIN players
      /\ players'[p] = [players[p] EXCEPT !.name = name]
      /\ \A q \in DOMAIN players : q # p => players'[q] = players[q]
      /\ players' = [q \in DOMAIN players |-> players'[q]]
  BY <1>0, <1>1
<1>3. /\ players'[p] \in Player /\ players'[p].name = name
      /\ players'[p].connected = players[p].connected
      /\ players'[p].token = players[p].token
  <2>1. players[p] \in Player
    BY <1>0
  <2>2. \A r \in Player :
          LET named == [r EXCEPT !.name = name]
          IN /\ named \in Player /\ named.name = name
             /\ named.connected = r.connected /\ named.token = r.token
    BY <1>0 DEF Player
  <2> QED BY <1>2, <2>1, <2>2
<1>4. players' \in [DOMAIN players' -> Player]
  BY <1>0, <1>2, <1>3
<1>5. RosterInv'
  BY <1>2, <1>4 DEF Rename, IInv, RosterInv
<1>6. NamesDistinct'
  BY <1>0, <1>2, <1>3 DEF Rename, CanRename, IInv, NamesDistinct, p
<1>7. LinksInv' /\ LiveIsConnected'
  BY <1>2, <1>3 DEF Rename, phoneVars, IInv, LinksInv, LiveIsConnected
<1>8. CredentialsInv'
  BY DEF Rename, phoneVars, IInv, CredentialsInv, Credentials
<1>9. HoldersInv'
  <2>1. \A phone \in Phones : \A c : Holds(phone, c)' => Holds(phone, c)
    BY DEF Rename, phoneVars, Holds
  <2>2. live' = live
    BY DEF Rename
  <2> QED BY <1>2, <1>3, <2>1, <2>2, HoldersKeep DEF IInv, LinksInv
<1> QED BY <1>5, <1>6, <1>7, <1>8, <1>9 DEF IInv

LEMMA KickKeeps ==
  ASSUME IInv, NEW p \in DOMAIN players, DoKickPlayer(p)
  PROVE  IInv'
<1>1. /\ DOMAIN players' = DOMAIN players \ {p}
      /\ \A q \in DOMAIN players' : players'[q] = players[q]
      /\ DOMAIN live' = DOMAIN live \ {p}
      /\ \A q \in DOMAIN live' : live'[q] = live[q]
      /\ at' = [l \in Links |-> IF p \in DOMAIN live /\ l = live[p] THEN "closing" ELSE at[l]]
  BY DEF DoKickPlayer, Unseat, Without, Cut
<1>2. RosterInv' /\ NamesDistinct'
  <2>1. players' \in [DOMAIN players' -> Player]
    BY <1>1 DEF DoKickPlayer, Without, IInv, RosterInv
  <2>2. IsFiniteSet(DOMAIN players')
    BY <1>1, FS_RemoveElement DEF IInv, RosterInv
  <2> QED BY <1>1, <2>1, <2>2 DEF DoKickPlayer, IInv, RosterInv, NamesDistinct
<1>3. LinksInv'
  <2>1. at' \in [Links -> {"free", "attaching", "open", "closing"}]
    BY <1>1 DEF IInv, LinksInv
  <2>2. live' \in [DOMAIN live' -> Links]
    BY <1>1 DEF DoKickPlayer, Unseat, Without, IInv, LinksInv
  <2>3. \A q \in DOMAIN live' :
          shown'[live'[q]].player = q /\ at'[live'[q]] \in {"open", "closing"}
    BY <1>1, <2>2 DEF DoKickPlayer, IInv, LinksInv
  <2> QED BY <1>1, <2>1, <2>2, <2>3 DEF IInv, LinksInv
<1>4. LiveIsConnected'
  BY <1>1 DEF DoKickPlayer, IInv, LinksInv, LiveIsConnected
<1>5. CredentialsInv'
  BY <1>1 DEF DoKickPlayer, IInv, LinksInv, CredentialsInv, Credentials
<1>6. \A phone \in Phones : \A c : Holds(phone, c)' => Holds(phone, c)
  BY <1>1 DEF DoKickPlayer, IInv, LinksInv, Holds
<1>7. HoldersInv'
  BY <1>1, <1>6, HoldersKeep DEF IInv, LinksInv
<1> QED BY <1>2, <1>3, <1>4, <1>5, <1>7 DEF IInv
LEMMA GrantKeeps ==
  ASSUME IInv, NEW link \in Links, Grant(link)
  PROVE  IInv'
<1> DEFINE p == shown[link].player
<1>1. /\ at[link] = "attaching" /\ shown[link] \in Credentials
      /\ p \in DOMAIN players /\ players[p].token = shown[link].token
      /\ players' = [players EXCEPT ![p].connected = TRUE]
      /\ live' = With(live, p, link)
      /\ at' = [l \in Links |-> IF l = link THEN "open"
                               ELSE IF p \in DOMAIN live /\ l = live[p] THEN "closing"
                               ELSE at[l]]
      /\ UNCHANGED <<lastId, lastToken, shown, held, replies>>
  BY DEF Grant, Known, IInv, CredentialsInv
<1>2. Current(p) = shown[link]
  BY <1>1 DEF Current, Credentials
<1> HIDE DEF p
<1>3. /\ RosterInv' /\ NamesDistinct' /\ DOMAIN players' = DOMAIN players
      /\ players'[p].connected = TRUE
      /\ \A q \in DOMAIN players : /\ players'[q].name = players[q].name
                                   /\ players'[q].token = players[q].token
                                   /\ q # p => players'[q] = players[q]
  BY <1>1, PresenceKeeps DEF IInv
<1>4. /\ DOMAIN live' = DOMAIN live \cup {p} /\ live'[p] = link
      /\ \A q \in DOMAIN live : q # p => live'[q] = live[q]
      /\ live' \in [DOMAIN live' -> Links]
  BY <1>1 DEF With, IInv, LinksInv
<1>5. LinksInv'
  <2>1. at' \in [Links -> {"free", "attaching", "open", "closing"}]
    BY <1>1 DEF IInv, LinksInv
  <2>2. \A q \in DOMAIN live' :
          shown'[live'[q]].player = q /\ at'[live'[q]] \in {"open", "closing"}
    <3>1. at'[link] = "open" /\ shown'[link].player = p
      BY <1>1 DEF p
    <3>2. ASSUME NEW q \in DOMAIN live, q # p
          PROVE  shown'[live'[q]].player = q /\ at'[live'[q]] \in {"open", "closing"}
      BY <1>1, <1>4, <3>2 DEF IInv, LinksInv
    <3> QED BY <1>4, <3>1, <3>2
  <2> QED BY <1>1, <1>3, <1>4, <2>1, <2>2 DEF IInv, LinksInv
<1>6. LiveIsConnected'
  <2>1. \A q \in DOMAIN live' : players'[q].connected
    BY <1>3, <1>4 DEF IInv, LinksInv, LiveIsConnected
  <2>2. \A l \in Links : at'[l] = "open" =>
          shown'[l].player \in DOMAIN live' /\ live'[shown'[l].player] = l
    BY <1>1, <1>4 DEF IInv, LinksInv, LiveIsConnected, p
  <2> QED BY <2>1, <2>2 DEF LiveIsConnected
<1>7. CredentialsInv'
  BY <1>1 DEF IInv, LinksInv, CredentialsInv, Credentials
<1>8. \A phone \in Phones : \A c : Holds(phone, c)' => Holds(phone, c)
  BY <1>1 DEF IInv, LinksInv, Holds
<1>9. PhoneOf(link) \in Phones /\ Holds(PhoneOf(link), Current(p))
  BY <1>1, <1>2, SessionAssumption DEF Holds, PhoneOf
<1>10. HoldersInv'
  BY <1>1, <1>3, <1>4, <1>8, <1>9, HoldersKeep DEF IInv, LinksInv
<1> QED BY <1>3, <1>5, <1>6, <1>7, <1>10 DEF IInv

\* A link that is let go of was nobody's seat, or its seat is given up with it.
LEMMA FreedKeeps ==
  ASSUME IInv, NEW link \in Links, Freed(link),
         UNCHANGED <<lastId, lastToken, held, replies>>,
         RosterInv', NamesDistinct', DOMAIN players' = DOMAIN players,
         \A q \in DOMAIN players : players'[q].token = players[q].token,
         \A q \in DOMAIN live' : players'[q].connected,
         DOMAIN live' = {q \in DOMAIN live : live[q] # link},
         live' = [q \in DOMAIN live' |-> live[q]]
  PROVE  IInv'
<1>1. /\ at' = [at EXCEPT ![link] = "free"]
      /\ shown' = [shown EXCEPT ![link] = NoCredential]
  BY DEF Freed
<1>2. \A q \in DOMAIN live' : live'[q] = live[q] /\ live[q] # link
  OBVIOUS
<1>3. LinksInv'
  BY <1>1, <1>2 DEF IInv, LinksInv, CredentialsInv
<1>4. LiveIsConnected'
  BY <1>1, <1>2 DEF IInv, LinksInv, LiveIsConnected, CredentialsInv
<1>5. CredentialsInv'
  BY <1>1 DEF IInv, LinksInv, CredentialsInv, Credentials
<1>6. \A phone \in Phones : \A c : Holds(phone, c)' => Holds(phone, c)
  BY <1>1 DEF IInv, LinksInv, CredentialsInv, Holds
<1>7. HoldersInv'
  BY <1>2, <1>6, HoldersKeep DEF IInv, LinksInv
<1> QED BY <1>3, <1>4, <1>5, <1>7 DEF IInv

LEMMA RefuseKeeps ==
  ASSUME IInv, NEW link \in Links, Refuse(link)
  PROVE  IInv'
<1>1. \A q \in DOMAIN live : live[q] # link
  BY DEF Refuse, IInv, LinksInv
<1>2. RosterInv' /\ NamesDistinct'
  BY DEF Refuse, IInv, RosterInv, NamesDistinct
<1>3. live' = [q \in DOMAIN live' |-> live[q]] /\ DOMAIN live' = DOMAIN live
  BY DEF Refuse, IInv, LinksInv
<1>4. \A q \in DOMAIN live' : players'[q].connected
  BY DEF Refuse, IInv, LiveIsConnected
<1> QED BY <1>1, <1>2, <1>3, <1>4, FreedKeeps DEF Refuse

LEMMA DetachKeeps ==
  ASSUME IInv, NEW link \in Links, Detach(link)
  PROVE  IInv'
<1> DEFINE p == shown[link].player
<1>0. \A q \in DOMAIN live : live[q] = link => q = p
  BY DEF IInv, LinksInv
<1>1. CASE LeavesSeat(link)
  <2>1. /\ p \in DOMAIN live /\ live[p] = link /\ p \in DOMAIN players
        /\ live' = Without(live, p)
        /\ players' = [players EXCEPT ![p].connected = FALSE]
        /\ UNCHANGED <<lastId, lastToken, held, replies>> /\ Freed(link)
    BY <1>1 DEF Detach, LeavesSeat, IInv, LinksInv
  <2> HIDE DEF p
  <2>2. /\ RosterInv' /\ NamesDistinct' /\ DOMAIN players' = DOMAIN players
        /\ \A q \in DOMAIN players : /\ players'[q].token = players[q].token
                                     /\ q # p => players'[q] = players[q]
    BY <2>1, PresenceKeeps DEF IInv
  <2>3. /\ DOMAIN live' = {q \in DOMAIN live : live[q] # link}
        /\ live' = [q \in DOMAIN live' |-> live[q]] /\ p \notin DOMAIN live'
    BY <1>0, <2>1 DEF Without
  <2>4. \A q \in DOMAIN live' : players'[q].connected
    BY <2>2, <2>3 DEF IInv, LinksInv, LiveIsConnected
  <2> QED BY <2>1, <2>2, <2>3, <2>4, FreedKeeps
<1>2. CASE ~LeavesSeat(link)
  <2>1. Freed(link) /\ UNCHANGED <<lastId, lastToken, held, replies, live, players>>
    BY <1>2 DEF Detach
  <2>2. \A q \in DOMAIN live : live[q] # link
    BY <1>0, <1>2 DEF LeavesSeat
  <2>3. RosterInv' /\ NamesDistinct'
    BY <2>1 DEF IInv, RosterInv, NamesDistinct
  <2>4. live' = [q \in DOMAIN live' |-> live[q]] /\ DOMAIN live' = DOMAIN live
    BY <2>1 DEF IInv, LinksInv
  <2>5. \A q \in DOMAIN live' : players'[q].connected
    BY <2>1 DEF IInv, LiveIsConnected
  <2> QED BY <2>1, <2>2, <2>3, <2>4, <2>5, FreedKeeps
<1> QED BY <1>1, <1>2

\* The phone's own steps, and the links', that only move credentials about.
LEMMA CredentialsMove ==
  ASSUME IInv, UNCHANGED <<players, lastId, lastToken, live>>,
         \A phone \in Phones : \A c : Holds(phone, c)' => Holds(phone, c),
         LinksInv', CredentialsInv',
         \A l \in Links : at'[l] = "open" => at[l] = "open" /\ shown'[l] = shown[l]
  PROVE  IInv'
<1>1. RosterInv' /\ NamesDistinct' /\ LiveIsConnected'
  BY DEF IInv, RosterInv, NamesDistinct, LiveIsConnected
<1>2. HoldersInv'
  BY HoldersKeep DEF IInv, LinksInv
<1> QED BY <1>1, <1>2 DEF IInv

LEMMA LinkKeeps ==
  ASSUME IInv, NEW link \in Links,
         LinkFails(link) \/ \E c \in held[PhoneOf(link)] : Connect(link, c)
  PROVE  IInv'
<1>1. CASE LinkFails(link)
  <2>1. LinksInv' /\ CredentialsInv'
    BY <1>1 DEF LinkFails, IInv, LinksInv, CredentialsInv, Credentials
  <2>2. \A phone \in Phones : \A c : Holds(phone, c)' => Holds(phone, c)
    BY <1>1 DEF LinkFails, IInv, LinksInv, Holds
  <2> QED BY <1>1, <2>1, <2>2, CredentialsMove DEF LinkFails, IInv, LinksInv
<1>2. ASSUME NEW c \in held[PhoneOf(link)], Connect(link, c)
      PROVE  IInv'
  <2>1. PhoneOf(link) \in Phones /\ c \in Credentials
    BY SessionAssumption DEF PhoneOf, IInv, CredentialsInv
  <2>2. LinksInv' /\ CredentialsInv'
    BY <1>2, <2>1 DEF Connect, IInv, LinksInv, CredentialsInv, Credentials
  <2>3. \A phone \in Phones : \A d : Holds(phone, d)' => Holds(phone, d)
    BY <1>2 DEF Connect, IInv, LinksInv, CredentialsInv, Holds
  <2> QED BY <1>2, <2>2, <2>3, CredentialsMove DEF Connect, IInv, LinksInv
<1> QED BY <1>1, <1>2

LEMMA PhoneKeeps ==
  ASSUME IInv, NEW phone \in Phones, NEW c \in Credentials,
         ReplyArrives(phone, c) \/ ReplyLost(phone, c) \/ Forget(phone, c)
  PROVE  IInv'
<1>0. held \in [Phones -> SUBSET Credentials]
  BY DEF IInv, CredentialsInv
<1>1. /\ UNCHANGED <<players, lastId, lastToken, live, at, shown>>
      /\ \/ <<phone, c>> \in replies /\ held' = [held EXCEPT ![phone] = @ \cup {c}]
            /\ replies' \subseteq replies
         \/ held' = [held EXCEPT ![phone] = @ \ {c}] /\ replies' \subseteq replies
         \/ held' = held /\ replies' \subseteq replies
  BY DEF ReplyArrives, ReplyLost, Forget
<1>2. LinksInv' /\ CredentialsInv'
  BY <1>0, <1>1 DEF IInv, LinksInv, CredentialsInv, Credentials
<1>3. \A d \in Phones : \A e : Holds(d, e)' => Holds(d, e)
  BY <1>0, <1>1 DEF Holds
<1> QED BY <1>1, <1>2, <1>3, CredentialsMove

LEMMA KeepsIInv == IInv /\ [Next]_vars => IInv'
<1>1. IInv /\ UNCHANGED <<players, lastId, lastToken, live, phoneVars>> => IInv'
  <2> SUFFICES ASSUME IInv, UNCHANGED <<players, lastId, lastToken, live, phoneVars>>
               PROVE  IInv'
    OBVIOUS
  <2>1. LinksInv' /\ CredentialsInv'
    BY DEF phoneVars, IInv, LinksInv, CredentialsInv, Credentials
  <2>2. \A phone \in Phones : \A c : Holds(phone, c)' => Holds(phone, c)
    BY DEF phoneVars, Holds
  <2> QED BY <2>1, <2>2, CredentialsMove DEF phoneVars
<1>2. IInv /\ (DoStartGame \/ DoPlayAgain \/ UNCHANGED vars) => IInv'
  BY <1>1 DEF DoStartGame, DoPlayAgain, vars
<1>3. IInv /\ RosterActions => IInv'
  BY <1>2, JoinKeeps, AddKeeps, RenameKeeps, KickKeeps DEF RosterActions
<1>4. IInv /\ LinkActions => IInv'
  BY GrantKeeps, RefuseKeeps, DetachKeeps, LinkKeeps DEF LinkActions
<1>5. IInv /\ PhoneActions => IInv'
  BY PhoneKeeps DEF PhoneActions
<1> QED BY <1>2, <1>3, <1>4, <1>5 DEF Next

LEMMA Invariance == Spec => []IInv
BY StartsWell, KeepsIInv, PTL DEF Spec
-----------------------------------------------------------------------------
\* The rest of the type invariant: the bounds, and who is away.
BoundsInv ==
  /\ inLobby \in BOOLEAN /\ lastId <= MaxPlayers /\ lastToken <= MaxTokens
  /\ \A p \in DOMAIN players : players[p].token <= lastToken
  /\ away \subseteq DOMAIN players

LEMMA BoundsKept == IInv /\ BoundsInv /\ [Next]_vars => BoundsInv'
<1> SUFFICES ASSUME IInv, BoundsInv, [Next]_vars PROVE BoundsInv'
  OBVIOUS
<1>0. /\ players \in [DOMAIN players -> Player] /\ lastId \in Nat /\ lastToken \in Nat
      /\ MaxPlayers \in Nat /\ MaxTokens \in Nat
      /\ \A p \in DOMAIN players : players[p].token \in Nat
  BY SessionAssumption DEF IInv, RosterInv, Player
\* Nobody has come or gone, and no token is new.
<1>1. ASSUME DOMAIN players' = DOMAIN players, UNCHANGED <<lastId, lastToken>>,
             inLobby' \in BOOLEAN, away' \subseteq DOMAIN players,
             \A p \in DOMAIN players : players'[p].token = players[p].token
      PROVE  BoundsInv'
  BY <1>1 DEF BoundsInv
<1>2. ASSUME NEW phone \in Phones, NEW name \in Names, NEW credential,
             Join(phone, name, credential)
      PROVE  BoundsInv'
  <2> DEFINE claimed == Claimed(name, credential)
  <2>1. lastToken' = lastToken + 1 /\ lastToken' <= MaxTokens /\ UNCHANGED <<inLobby, away>>
    BY <1>0, <1>2 DEF Join
  <2>2. CASE Reclaim(Min(claimed))
    BY <1>0, <2>1, <2>2 DEF Reclaim, BoundsInv
  <2>3. CASE Enter(name)
    BY <1>0, <2>1, <2>3 DEF Enter, Enroll, With, BoundsInv
  <2> QED BY <1>2, <2>2, <2>3 DEF Join
<1>3. ASSUME NEW name \in Names, DoAddPlayer(name)
      PROVE  BoundsInv'
  BY <1>0, <1>3 DEF DoAddPlayer, Enroll, With, BoundsInv
<1>4. ASSUME NEW link \in Links, NEW name \in Names, Rename(link, name)
      PROVE  BoundsInv'
  <2> DEFINE p == shown[link].player
  <2>1. p \in DOMAIN players /\ players' = [players EXCEPT ![p].name = name]
    BY <1>4 DEF Rename, CanRename
  <2>2. \A q \in DOMAIN players : players'[q].token = players[q].token
    BY <1>0, <2>1 DEF Player
  <2> QED BY <1>1, <1>4, <2>1, <2>2 DEF Rename, BoundsInv
<1>5. ASSUME NEW p \in DOMAIN players, DoKickPlayer(p)
      PROVE  BoundsInv'
  BY <1>5 DEF DoKickPlayer, Without, BoundsInv
<1>6. ASSUME NEW link \in Links, Grant(link)
      PROVE  BoundsInv'
  <2> DEFINE p == shown[link].player
  <2>1. p \in DOMAIN players /\ players' = [players EXCEPT ![p].connected = TRUE]
    BY <1>6 DEF Grant, Known
  <2>2. \A q \in DOMAIN players : players'[q].token = players[q].token
    BY <1>0, <2>1 DEF Player
  <2> QED BY <1>1, <1>6, <2>1, <2>2 DEF Grant, BoundsInv
<1>7. ASSUME NEW link \in Links, Detach(link)
      PROVE  BoundsInv'
  <2> DEFINE p == shown[link].player
  <2>1. CASE LeavesSeat(link)
    <3>1. p \in DOMAIN players /\ away' = away \cup {p}
          /\ players' = [players EXCEPT ![p].connected = FALSE]
      BY <1>7, <2>1 DEF Detach, LeavesSeat, IInv, LinksInv
    <3>2. \A q \in DOMAIN players : players'[q].token = players[q].token
      BY <1>0, <3>1 DEF Player
    <3> QED BY <1>1, <1>7, <3>1, <3>2 DEF Detach, BoundsInv
  <2>2. CASE ~LeavesSeat(link)
    BY <1>1, <1>7, <2>2 DEF Detach, BoundsInv
  <2> QED BY <2>1, <2>2
<1>8. CASE DoStartGame \/ DoPlayAgain \/ UNCHANGED vars \/ PhoneActions
  BY <1>1, <1>8 DEF DoStartGame, DoPlayAgain, vars, PhoneActions, ReplyArrives,
     ReplyLost, Forget, BoundsInv
<1>9. ASSUME NEW link \in Links, Refuse(link) \/ LinkFails(link)
                               \/ \E c \in held[PhoneOf(link)] : Connect(link, c)
      PROVE  BoundsInv'
  BY <1>1, <1>9 DEF Refuse, LinkFails, Connect, BoundsInv
<1> QED BY <1>2, <1>3, <1>4, <1>5, <1>6, <1>7, <1>8, <1>9
        DEF Next, RosterActions, LinkActions

\* The type invariant: whoever is live, or away, is in the roster, every credential
\* about was handed out, and a live player's link is one the server has let in.
THEOREM SessionTyped == Spec => []TypeOK
<1>1. Init => BoundsInv
  BY SessionAssumption DEF Init, BoundsInv, Nobody
<1>2. IInv /\ BoundsInv => TypeOK
  BY DEF IInv, RosterInv, Player, LinksInv, CredentialsInv, BoundsInv, TypeOK
<1> QED BY <1>1, <1>2, StartsWell, KeepsIInv, BoundsKept, PTL DEF Spec

\* No two players of a room have one name, however they got theirs: dedupeName finds
\* a free one, Rename refuses one that is taken, and a claim gives none.
THEOREM NamesStayDistinct == Spec => []NamesDistinct
BY Invariance, PTL DEF IInv

\* An open link is the one its player is live over, and that player counts as
\* connected, however late the detach of a link that was replaced.
THEOREM LiveStaysConnected == Spec => []LiveIsConnected
BY Invariance, PTL DEF IInv

\* At most one phone holds a credential that opens a link for a player, through any
\* sequence of joins, claims, lost replies and reconnects.
THEOREM OnePhonePlays == Spec => []OneHolder
BY Invariance, PTL DEF IInv, HoldersInv

\* Nobody but the phone that plays a live player replaces its link: AttachPlayer
\* wants the current token, and Join hands it out for an offline player only or to
\* whoever had it.
THEOREM SeatStays == Spec => SeatKept
<1> DEFINE Kept == \A p \in DOMAIN live \cap DOMAIN live' :
                     PhoneOf(live'[p]) = PhoneOf(live[p])
<1>1. IInv /\ [Next]_vars => [Kept]_vars
  <2> SUFFICES ASSUME IInv, Next PROVE Kept
    OBVIOUS
  <2>1. ASSUME NEW link \in Links, Grant(link)
        PROVE  Kept
    <3> DEFINE p == shown[link].player
    <3>1. /\ live' = With(live, p, link) /\ shown[link] \in Credentials
          /\ at[link] = "attaching" /\ players[p].token = shown[link].token
      BY <2>1 DEF Grant, Known, IInv, CredentialsInv
    <3>2. PhoneOf(link) \in Phones /\ Holds(PhoneOf(link), Current(p))
      BY <3>1, SessionAssumption DEF Holds, PhoneOf, Current, Credentials
    <3>3. p \in DOMAIN live => PhoneOf(link) = PhoneOf(live[p])
      BY <3>2 DEF IInv, HoldersInv
    <3> HIDE DEF p
    <3> QED BY <3>1, <3>3 DEF With
  <2>2. ASSUME NEW p \in DOMAIN players, DoKickPlayer(p)
        PROVE  Kept
    BY <2>2 DEF DoKickPlayer, Unseat, Without
  <2>3. ASSUME NEW link \in Links, Detach(link)
        PROVE  Kept
    BY <2>3 DEF Detach, Without
  <2>4. CASE live' = live
    BY <2>4
  <2>5. \/ \E link \in Links : Grant(link) \/ Detach(link)
        \/ \E p \in DOMAIN players : DoKickPlayer(p)
        \/ live' = live
    BY DEF Next, RosterActions, Join, DoAddPlayer, Rename, DoStartGame, DoPlayAgain,
           LinkActions, Refuse, LinkFails, Connect,
           PhoneActions, ReplyArrives, ReplyLost, Forget
  <2> QED BY <2>1, <2>2, <2>3, <2>4, <2>5
<1> QED BY <1>1, Invariance, PTL DEF Spec, SeatKept

\* In a game nobody comes, goes or changes their name: Enter, DoAddPlayer, Rename and
\* DoKickPlayer are the lobby's, and coming back is none of them.
THEOREM CastStays == Spec => CastFixed
<1> DEFINE Fixed == ~inLobby /\ ~inLobby' =>
                      /\ DOMAIN players' = DOMAIN players
                      /\ \A p \in DOMAIN players : players'[p].name = players[p].name
<1>1. IInv /\ [Next]_vars => [Fixed]_vars
  <2> SUFFICES ASSUME IInv, Next, ~inLobby, ~inLobby'
               PROVE  /\ DOMAIN players' = DOMAIN players
                      /\ \A p \in DOMAIN players : players'[p].name = players[p].name
    OBVIOUS
  <2>1. ASSUME NEW phone \in Phones, NEW name \in Names,
               NEW credential \in held[phone] \cup {NoCredential},
               Join(phone, name, credential)
        PROVE  \E p \in DOMAIN players : Reclaim(p)
    BY <2>1, ClaimedIsPlayer DEF Join, Enter, IInv
  <2>2. ASSUME NEW p \in DOMAIN players, Reclaim(p)
        PROVE  Fixed
    BY <2>2 DEF Reclaim, IInv, RosterInv
  <2>3. ASSUME NEW link \in Links, Grant(link) \/ Detach(link)
        PROVE  Fixed
    <3>1. \/ players' = players
          \/ \E p \in DOMAIN players, online \in BOOLEAN :
               players' = [players EXCEPT ![p].connected = online]
      BY <2>3 DEF Grant, Known, Detach, LeavesSeat, IInv, LinksInv
    <3>2. ASSUME NEW p \in DOMAIN players, NEW online \in BOOLEAN,
                 players' = [players EXCEPT ![p].connected = online]
          PROVE  Fixed
      <4>1. UNCHANGED <<lastId, lastToken>>
        BY <2>3 DEF Grant, Detach
      <4> QED BY <3>2, <4>1, PresenceKeeps DEF IInv
    <3> QED BY <3>1, <3>2
  <2>4. CASE players' = players
    BY <2>4
  <2>5. \/ \E phone \in Phones, name \in Names :
             \E credential \in held[phone] \cup {NoCredential} :
               Join(phone, name, credential)
        \/ \E link \in Links : Grant(link) \/ Detach(link)
        \/ players' = players
    BY DEF Next, RosterActions, DoAddPlayer, Rename, CanRename, DoKickPlayer, DoStartGame,
           DoPlayAgain, LinkActions, Refuse, LinkFails, Connect,
           PhoneActions, ReplyArrives, ReplyLost, Forget
  <2> QED BY <2>1, <2>2, <2>3, <2>4, <2>5
<1> QED BY <1>1, Invariance, PTL DEF Spec, CastFixed
=============================================================================
