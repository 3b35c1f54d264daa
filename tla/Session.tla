------------------------------- MODULE Session -------------------------------
(***************************************************************************)
(* Who plays whom: the roster of a room with its names and tokens, and the *)
(* phones that join, attach, drop off and come back (Join, AttachPlayer,   *)
(* DetachPlayer, Rename, DoAddPlayer and DoKickPlayer in                   *)
(* internal/room/actions.go, their callers in room.go, and what player.js  *)
(* and net.js keep on the phone).                                          *)
(*                                                                         *)
(* A phone gets a credential, a player's id and current token, in the      *)
(* reply to a join, which may be lost; it then opens links, WebSocket      *)
(* connections that show the credential.  It may open one while the server *)
(* still takes an older one for open.  The request of a join changes       *)
(* nothing until the actor handles it, so sending it is not a step.        *)
(*                                                                         *)
(* A name is a sequence: numbers for what was typed, and the numbers       *)
(* dedupeName has put behind it.  Names that differ only in case are one   *)
(* name, as EqualFold has it.  Ids and tokens are random in the code and   *)
(* fresh numbers here; the token of a player the host has added is the     *)
(* empty one, 0.                                                           *)
(*                                                                         *)
(* A definition X_Bug before a definition X is X with a mistake in it; the *)
(* properties must notice when it takes the place of X.                    *)
(***************************************************************************)
EXTENDS Naturals, Sequences, FiniteSets, FiniteSetsExt

CONSTANTS Phones,
          Names,       \* names people type
          Links,       \* the links a phone may have at once, <<phone, number>>
          MinPlayers,  \* players a game needs, 3 in the code
          MaxPlayers,  \* bound on the ids handed out
          MaxTokens    \* bound on the tokens handed out

ASSUME SessionAssumption ==
  /\ Names \subseteq Seq(Nat) /\ <<>> \notin Names
  /\ Links \subseteq Phones \X Nat
  /\ MinPlayers \in Nat /\ MaxPlayers \in Nat /\ MaxTokens \in Nat

PhoneOf(link) == link[1]

VARIABLES
  inLobby,    \* Phase is the lobby
  players,    \* id -> name, Connected and Token of a player of the roster
  lastId, lastToken,
  live,       \* Room.players: id -> the link it is played over
  at,         \* what the server makes of each link
  shown,      \* the credential a link was opened with
  held,       \* the credentials each phone keeps, or keeps trying
  replies,    \* replies to joins on their way to a phone
  away        \* history: players whose connection was lost, until they are back

phoneVars == <<at, shown, held, replies>>
vars == <<inLobby, players, lastId, lastToken, live, phoneVars, away>>

Credentials == [player : 1 .. lastId, token : 1 .. lastToken]

NoCredential == [player |-> 0, token |-> 0]

\* Every player who is live is in the roster, over a link the server has let in.
TypeOK ==
  /\ inLobby \in BOOLEAN
  /\ lastId \in 0 .. MaxPlayers /\ lastToken \in 0 .. MaxTokens
  /\ IsFiniteSet(DOMAIN players) /\ DOMAIN players \subseteq 1 .. lastId
  /\ \A p \in DOMAIN players : /\ players[p].connected \in BOOLEAN
                               /\ players[p].token \in 0 .. lastToken
  /\ DOMAIN live \subseteq DOMAIN players
  /\ \A p \in DOMAIN live : at[live[p]] \in {"open", "closing"}
  /\ at \in [Links -> {"free", "attaching", "open", "closing"}]
  /\ shown \in [Links -> Credentials \cup {NoCredential}]
  /\ held \in [Phones -> SUBSET Credentials]
  /\ replies \subseteq Phones \X Credentials
  /\ away \subseteq DOMAIN players

Nobody == [p \in {} |-> 0]

Init ==
  /\ inLobby = TRUE
  /\ players = Nobody /\ lastId = 0 /\ lastToken = 0
  /\ live = Nobody
  /\ at = [l \in Links |-> "free"] /\ shown = [l \in Links |-> NoCredential]
  /\ held = [phone \in Phones |-> {}] /\ replies = {}
  /\ away = {}

-----------------------------------------------------------------------------
(* The roster.                                                             *)

With(f, p, value) == [q \in DOMAIN f \cup {p} |-> IF q = p THEN value ELSE f[q]]

Without(f, p) == [q \in DOMAIN f \ {p} |-> f[q]]

Taken(name) == \E p \in DOMAIN players : players[p].name = name

\* The name itself, or the name with the first free number from 2 behind it.
Deduped(name) ==
  LET free == {n \in 2 .. Cardinality(DOMAIN players) + 2 :
                 ~Taken(Append(name, n))}
  IN IF Taken(name) THEN Append(name, Min(free)) ELSE name

Enroll(player) ==
  /\ lastId < MaxPlayers /\ lastId' = lastId + 1
  /\ players' = With(players, lastId + 1, player)

\* A credential that is still good names its player; failing that, the name of
\* somebody who is offline does.
Claimed_ByNameAlone(name, credential) ==
  LET known == {p \in DOMAIN players : players[p].token = credential.token
                                       /\ p = credential.player}
  IN IF known # {} THEN known
     ELSE {p \in DOMAIN players : players[p].name = name}

Claimed(name, credential) ==
  LET known == {p \in DOMAIN players : players[p].token = credential.token
                                       /\ p = credential.player}
  IN IF known # {} THEN known
     ELSE {p \in DOMAIN players : /\ ~players[p].connected
                                  /\ players[p].name = name}

\* Join takes the player over under a new token, online from now on.
Reclaim_SameToken(p) ==
  /\ players' = [players EXCEPT ![p].connected = TRUE,
                                ![p].token = IF @ = 0 THEN lastToken + 1 ELSE @]
  /\ UNCHANGED lastId

Reclaim(p) ==
  /\ players' = [players EXCEPT ![p] = [name |-> players[p].name, connected |-> TRUE,
                                        token |-> lastToken + 1]]
  /\ UNCHANGED lastId

Enter_AnyTime(name) ==
  Enroll([name |-> Deduped(name), connected |-> TRUE, token |-> lastToken + 1])

\* Nobody new joins a game in progress.
Enter(name) ==
  /\ inLobby
  /\ Enroll([name |-> Deduped(name), connected |-> TRUE, token |-> lastToken + 1])

Reply(phone, p) ==
  replies' = replies \cup {<<phone, [player |-> p, token |-> players'[p].token]>>}

\* A join that is denied changes nothing.
Join(phone, name, credential) ==
  LET claimed == Claimed(name, credential)
  IN /\ lastToken < MaxTokens /\ lastToken' = lastToken + 1
     /\ \/ claimed # {} /\ Reclaim(Min(claimed)) /\ Reply(phone, Min(claimed))
        \/ claimed = {} /\ Enter(name) /\ Reply(phone, lastId')
     /\ UNCHANGED <<inLobby, live, at, shown, held, away>>

DoAddPlayer(name) ==
  /\ inLobby
  /\ Enroll([name |-> Deduped(name), connected |-> FALSE, token |-> 0])
  /\ UNCHANGED <<inLobby, lastToken, live, phoneVars, away>>

CanRename_Anything(p, name) == inLobby /\ p \in DOMAIN players

CanRename(p, name) ==
  /\ inLobby /\ p \in DOMAIN players
  /\ \A q \in DOMAIN players \ {p} : players[q].name # name

\* A phone renames its player; the message may be handled after its link is cut.
Rename(link, name) ==
  LET p == shown[link].player
  IN /\ at[link] \in {"open", "closing"}
     /\ CanRename(p, name)
     /\ players' = [players EXCEPT ![p].name = name]
     /\ UNCHANGED <<inLobby, lastId, lastToken, live, phoneVars, away>>

\* The link the player is live over, if any, is closed.
Cut(p) == at' = [l \in Links |-> IF p \in DOMAIN live /\ l = live[p] THEN "closing"
                                                                     ELSE at[l]]

Unseat_NotTheLink(p) == UNCHANGED <<live, at>>

Unseat(p) == live' = Without(live, p) /\ Cut(p)

\* A kick removes the player and hangs up.
DoKickPlayer(p) ==
  /\ inLobby /\ p \in DOMAIN players
  /\ players' = Without(players, p) /\ away' = away \ {p}
  /\ Unseat(p)
  /\ UNCHANGED <<inLobby, lastId, lastToken, shown, held, replies>>

\* DoStartGame needs enough players; DoPlayAgain keeps who is connected and how.
DoStartGame ==
  /\ inLobby /\ Cardinality(DOMAIN players) >= MinPlayers
  /\ inLobby' = FALSE
  /\ UNCHANGED <<players, lastId, lastToken, live, phoneVars, away>>

DoPlayAgain ==
  /\ ~inLobby /\ inLobby' = TRUE
  /\ UNCHANGED <<players, lastId, lastToken, live, phoneVars, away>>

-----------------------------------------------------------------------------
(* The links.                                                              *)

\* AttachPlayer: only the player's current token opens a link.
Known(credential) ==
  /\ credential.player \in DOMAIN players
  /\ credential.token # 0
  /\ players[credential.player].token = credential.token

Grant(link) ==
  LET p == shown[link].player
  IN /\ at[link] = "attaching" /\ Known(shown[link])
     /\ players' = [players EXCEPT ![p].connected = TRUE]
     /\ live' = With(live, p, link)
     /\ at' = [l \in Links |-> IF l = link THEN "open"
                               ELSE IF p \in DOMAIN live /\ l = live[p] THEN "closing"
                               ELSE at[l]]
     /\ away' = away \ {p}
     /\ UNCHANGED <<inLobby, lastId, lastToken, shown, held, replies>>

Freed(link) ==
  /\ at' = [at EXCEPT ![link] = "free"]
  /\ shown' = [shown EXCEPT ![link] = NoCredential]

Refuse(link) ==
  /\ at[link] = "attaching" /\ ~Known(shown[link])
  /\ Freed(link)
  /\ UNCHANGED <<inLobby, players, lastId, lastToken, live, held, replies, away>>

\* Either end gives the link up, or it breaks.
LinkFails(link) ==
  /\ at[link] = "open" /\ at' = [at EXCEPT ![link] = "closing"]
  /\ UNCHANGED <<inLobby, players, lastId, lastToken, live, shown, held, replies, away>>

LeavesSeat_AnyLink(link) == shown[link].player \in DOMAIN live

\* A link that has been replaced has no seat to leave.
LeavesSeat(link) ==
  shown[link].player \in DOMAIN live /\ live[shown[link].player] = link

Detach(link) ==
  LET p == shown[link].player
  IN /\ at[link] = "closing" /\ Freed(link)
     /\ IF LeavesSeat(link)
        THEN /\ live' = Without(live, p) /\ away' = away \cup {p}
             /\ players' = [players EXCEPT ![p].connected = FALSE]
        ELSE UNCHANGED <<live, players, away>>
     /\ UNCHANGED <<inLobby, lastId, lastToken, held, replies>>

-----------------------------------------------------------------------------
(* The phones.                                                             *)

ReplyArrives(phone, credential) ==
  /\ <<phone, credential>> \in replies
  /\ replies' = replies \ {<<phone, credential>>}
  /\ held' = [held EXCEPT ![phone] = @ \cup {credential}]
  /\ UNCHANGED <<inLobby, players, lastId, lastToken, live, at, shown, away>>

ReplyLost(phone, credential) ==
  /\ <<phone, credential>> \in replies
  /\ replies' = replies \ {<<phone, credential>>}
  /\ UNCHANGED <<inLobby, players, lastId, lastToken, live, at, shown, held, away>>

\* The tab is closed or reloaded, the player starts over, or the server's
\* refusal, kick or closing of the room has removed the stored session.
Forget(phone, credential) ==
  /\ credential \in held[phone]
  /\ held' = [held EXCEPT ![phone] = @ \ {credential}]
  /\ UNCHANGED <<inLobby, players, lastId, lastToken, live, at, shown, replies, away>>

Connect(link, credential) ==
  /\ at[link] = "free" /\ credential \in held[PhoneOf(link)]
  /\ at' = [at EXCEPT ![link] = "attaching"]
  /\ shown' = [shown EXCEPT ![link] = credential]
  /\ UNCHANGED <<inLobby, players, lastId, lastToken, live, held, replies, away>>

RosterActions ==
  \/ \E phone \in Phones, name \in Names :
       \E credential \in held[phone] \cup {NoCredential} : Join(phone, name, credential)
  \/ \E name \in Names : DoAddPlayer(name)
  \/ \E link \in Links, name \in Names : Rename(link, name)
  \/ \E p \in DOMAIN players : DoKickPlayer(p)
  \/ DoStartGame
  \/ DoPlayAgain

LinkActions ==
  \E link \in Links :
    \/ Grant(link) \/ Refuse(link) \/ LinkFails(link) \/ Detach(link)
    \/ \E credential \in held[PhoneOf(link)] : Connect(link, credential)

PhoneActions ==
  \E phone \in Phones, credential \in Credentials :
    ReplyArrives(phone, credential) \/ ReplyLost(phone, credential)
      \/ Forget(phone, credential)

Next == RosterActions \/ LinkActions \/ PhoneActions

Spec == Init /\ [][Next]_vars

-----------------------------------------------------------------------------
\* No two players of a room are called the same, however they got their names:
\* dedupeName on joining and adding, the check in Rename, and reclaiming by name.
NamesDistinct ==
  \A p, q \in DOMAIN players : p # q => players[p].name # players[q].name

\* A link that is open is the one its player is live over, and the player counts
\* as connected, so that nobody can claim the name: the detach of a link that has
\* been replaced comes late, and must not take the new link's seat away.
LiveIsConnected ==
  /\ \A p \in DOMAIN live : players[p].connected
  /\ \A l \in Links :
       at[l] = "open" => LET p == shown[l].player
                         IN p \in DOMAIN live /\ live[p] = l

Holds(phone, credential) ==
  \/ credential \in held[phone]
  \/ <<phone, credential>> \in replies
  \/ \E l \in Links :
       PhoneOf(l) = phone /\ at[l] # "free" /\ shown[l] = credential

\* One phone plays a player: whatever was forgotten, lost or claimed by name, at
\* most one phone holds a credential that still opens a link.
OneHolder ==
  \A p \in DOMAIN players :
    \A d, e \in Phones :
      LET current == [player |-> p, token |-> players[p].token]
      IN Holds(d, current) /\ Holds(e, current) => d = e

\* A live player is never taken over: only the phone that plays it replaces the
\* link.
SeatKept ==
  [][\A p \in DOMAIN live \cap DOMAIN live' :
       PhoneOf(live'[p]) = PhoneOf(live[p])]_vars

\* The players of a game in progress, and their names, do not change, however
\* many of them drop off and come back.
CastFixed ==
  [][~inLobby /\ ~inLobby' =>
       /\ DOMAIN players' = DOMAIN players
       /\ \A p \in DOMAIN players : players'[p].name = players[p].name]_vars

-----------------------------------------------------------------------------
\* A player whose connection dropped is kept so that they can rejoin: their name
\* is free to claim, or some phone has, or will get, a credential that is good.
CanRejoin ==
  \A p \in away :
    players[p].connected =>
      \E phone \in Phones : Holds(phone, [player |-> p, token |-> players[p].token])
=============================================================================
