# Verification of Chain Reaction

Chain Reaction is a "Weakest Link"-style party game: a Go server holds every room's state and serves a
quizmaster's controller, a shared screen and the contestants' phones over WebSockets; SQLite holds the question
bank. This directory has TLA+ models of the parts in which something can go wrong that a test would hardly reach,
TLC configurations that check them on small instances, and proofs, checked by TLAPS, of theorems that hold for
every instance. `PROJECT.json` lists components, runs, source lines behind every definition, hazards and theorems.

    tlc -workers 2 -config MCSession.cfg MCSession.tla     # a run
    tlapm GameProofs.tla                                   # the proofs

Source paths below are relative to the repository.

## 1. Inventory

| Component | Source | State it keeps | Operations | What makes it correct |
|---|---|---|---|---|
| Game engine | `internal/room/actions.go`, `state.go` | one `State` a room: phase, round, players alive and their scores, chain and bank, question, clock, votes, reveal, tie | the `Do*` handlers, `SubmitVote`, `CallBank`, `FinishCountdown`, the tick | one elimination a round, the weakest goes, money is banked once and in play, nothing leaks from one round into the next, a clock always ends the phase |
| Final shootout | same, `DoShootout*`, `checkShootoutEnd` | order, answers by wave, turn, sudden death, winner | next question, mark | decided exactly when the outcome is settled, equal turns, answers final |
| Controller and phones | `web/js/game/controller.js`, `player.js` | the last state received | the buttons of each view | what they offer, one command late, does no harm |
| Room actor, registry | `internal/room/room.go`, `registry.go`, `internal/httpapi/ws.go`, `rooms.go` | inbox, connections by role, idle timer; directory of rooms | attach, join, summary, message, detach, close, idle, shutdown | served while connected, no ghosts, no connection outlives its room, callers are answered |
| Identity, presence | `actions.go` (`Join`, `AttachPlayer`, ...), `player.js`, `net.js` | name, token, `Connected` of each player; live connection; credentials on the phones | join, rejoin, attach, detach, rename, kick, add | one phone plays a player, a live player is not taken over, names are distinct, whoever dropped can come back |
| Question bank, moderation | `internal/questionbank/store.go`, `internal/db`, `internal/httpapi/*_submissions.go`, `admin_questions.go` | tables `questions`, `submissions` | submit, approve, reject, create, delete, import, seed | only approved questions get in, once; imports whole; never an empty bank |
| WebSocket connection | `internal/ws/conn.go` | send buffer, `closed` | `SendJSON`, `Close`, three pumps | a lost connection is noticed and leaves nothing behind, notices arrive before the close |
| Browser link | `web/js/core/net.js`, `player.js` | offline queue, back-off timer, credential | open, send, close | reconnects and catches up with the game, stops when told to |
| Question deck | `state.go` (`PullQuestion`), `actions.go`, `httpapi/rooms.go` | community snapshot, bank in use, shuffled deck | create, pull, set, reset, play again | no repeats before all were used, questions from the bank on screen |
| State views | `internal/room/sanitize.go` | none | a view for each role | no answer or vote shown too early |
| Question parsing | `internal/questionbank/parse.go` | none | lines, JSON, CSV, `Clamp` | limits |
| Admin authentication | `internal/auth`, `internal/httpapi/admin_auth.go` | password hash; stateless cookies | bootstrap, login, set password, expiry | nobody is an admin without an account |
| Start, stop, migrations | `cmd/server/main.go`, `internal/db/db.go` | tables, `schema_migrations` | open, migrate, seed, serve, shut down; a backup process | applied once if recorded and else not at all, ready before serving |
| Rate limit, routing, screens, sound, styles, seed data | `internal/httpapi/ratelimit.go`, `server.go`, `web/` | - | - | - |

How they interact. Every HTTP request is a goroutine. Those of a room talk to it only through a channel, the inbox
of 256 entries; one goroutine, `Run`, owns the `State`, handles one entry at a time, and also gets the 500 ms tick,
the idle timer and the server's context. Answers come back over a channel of the request's own; states go out to all
connections through buffered channels that drop when full. The database is shared by all requests through a pool of
one connection.

What is hard. Commands are checked by the server for little more than "is there a tie / a question": the controller's
view is the guard, and it is one command behind when the quizmaster taps twice. Ticks, votes and banking
come in between. Connections are replaced, dropped, kicked and detached late. The actor can stop with requests in its
inbox. A `Close` waits for the other side's handshake, and the actor makes that call. Join changes the roster before its
reply has arrived. Reviews read in one statement and act in another, and a session is looked at before its request
acts; whether a migration is missing is asked before the transaction that applies it. The server may crash between any two, and a backup
process may be migrating the same database. `hazards` in `PROJECT.json` lists each at its line with the properties that cover
it, or the reason why none does.

## 2. Modules

| Module | Models | Uses |
|---|---|---|
| `ShootoutRules` | the rules of the shootout as operators on one record: `Answer`, `ScoreOf`, `Recorded`, `CheckShootoutEnd`, `Marked` | |
| `Shootout` | one shootout as a machine of its own, and what it promises | `ShootoutRules` |
| `Game` | the engine: one action for each handler, its early returns as `Can...`; any command in any state | `ShootoutRules` |
| `Tournament` | the abstract game: enter, withdraw, begin, eliminate one, crown one of two, reopen | |
| `Quizmaster` | the engine driven by its screens: commands in flight, votes and banking, the clock | `Game`; refines `Tournament` |
| `Deck` | the bank of a room and the deck drawn from it | |
| `Finale` | games of one room as far as they pull questions, with their shootout and bank commands that come late | `Shootout`, `Deck` |
| `RoomActor` | one room's goroutines: callers, inbox, actor, directory, shutdown | |
| `Connection` | one player's connections: send buffer, three pumps, `Close`, the actor's side of each, the phone's wrapper and a network that loses connections | |
| `Session` | roster, names, tokens, links and phones | |
| `Moderation` | database, transactions, requests, crashes | |
| `Server` | start, migrations, the backup process, the admin's account and sessions, in front of the bank and the queue | `Moderation`, which it refines |
| `MC...` | constants for the runs | |
| `...Proofs` | theorems: `GameProofs` and `FinaleProofs` (on the lemmas of `ShootoutProofs`), `QuizmasterProofs` (on `GameProofs`), `RoomActorProofs`, `ConnectionProofs`, `SessionProofs`, and `ServerProofs`, which is also about `Moderation` | `TLAPS` and the library's theorems |

How state and code correspond. `Game` has one variable for each field of `State` that a handler reads: `phase` is
`Phase`, `askedId` is `CurrentAskedID`, `tie` is `TieCandidates`, `shootout` the pointer with `NoShootout` for nil, and
so on. Players are numbers in the order they entered, so roster order is numerical order; wall-clock time is the flag
`deadlinePassed`; `Correct - Incorrect` is `score`. Fields only shown on screens are left out. A handler that returns
false is a guard that fails. `Panicked` is the state in which `revealInfo` would index past `RevealOrder`: the process is
gone and nothing moves. `Deck` has the bank and the draw pile as sets, since the last of a shuffled slice is any of them;
`ahead` is a history variable that nothing reads.

In `RoomActor`, `at[x]` is the program counter of a request's goroutine and `members` is `players`, `controllers` and
`hosts` together; `open` is the socket. It takes a close to be instantaneous. `Connection` opens that up for one player:
`buffer` is `Conn.send`, `closed` its channel, `hand`, `writer` and `heart` the three goroutines, `closer` those that have
found the channel open and not yet closed it, `job` the `Close` in which the actor waits for a handshake. In `Session`,
`live` is `Room.players`, `players` the roster, `held` what a phone has stored or keeps retrying with. In `Moderation`,
`db` is what is committed and `tx` the copy a transaction works on. In `Server`, `schema` is what
is committed of the migrations (how often each one's statements were applied, and the rows of `schema_migrations`),
`draft` the copy of the process that is writing, changed by one statement after the other and put in place by the commit
or thrown away, and `step` where main and the backup process are. A migration that creates a table fails where the table is;
one in `Repeatable` does not, and only the primary key of `schema_migrations` then keeps it from being applied twice. The
repository's one migration is of the first kind. `admitted` are the requests that `RequireAdmin` has let through: the
session may end, and the password or the bank change, before they act.

Definitions named `X_...` just before `X` are `X` with a plausible mistake; each property of a passing run is paired in
`PROJECT.json` with one that it must notice.

## 3. Runs

| Run | Question | Bounds |
|---|---|---|
| `finale` | does a shootout end exactly when settled, with fair turns and questions that take turns too? | the code's 5 regulation waves, 2 of sudden death; 3 shared questions (interchangeable), uploads of 1 and of 2; games without end |
| `quizmaster` | does a game with a patient quizmaster implement `Tournament`, with one elimination a round? | 4 players (two votes, then a shootout of 1 + 1 waves), ladder of 2, one mark and one banking, 2 voters a round |
| `two_taps` | what does the engine guarantee with a screen one command behind, and does the clock carry on by itself? | 3 players (one vote, then a shootout), 2 commands in flight, 1 voter, fairness of the clock |
| `two_taps_tie` | do two always remain? (violated) | same, and a second round |
| `room` | is everybody connected served, nobody counted who has left, and does everything come to rest? | 3 connections (one a reconnect to another's seat, one a controller), a summary, inbox of 1, fairness |
| `room_calls` | is every attach and join answered? (violated) | 2 connections, a join, inbox of 2 |
| `connection` | does a phone catch up, does a lost connection leave nothing behind, does a closed phone stop? | 2 connections at a time, send buffer of 1, 2 versions of the game, 1 connection lost, fairness |
| `kicked` | does a kicked phone stop? (violated) | 1 version, none lost, fairness |
| `sessions` | who may play whom? | 2 phones, 3 links, 3 players of whom 2 can start a game, 3 tokens, 1 name and its numbered forms |
| `rejoin` | can whoever dropped off come back? (violated) | same |
| `server` | does only what was approved get in, do imports come whole, is the server ready when it serves, and who is the admin? | 2 requests (interchangeable), batches of 2, 4 questions, 1 submission, 2 batches, 2 migrations of which 1 is repeatable, a backup process, crashes at will |
| `review` | is a submission approved once? (violated) | 2 requests, 5 questions, 2 submissions |

Why the bounds are enough. Three players are the fewest that can start a game and four the fewest with two votes, so
that state surviving one vote can spoil the next. A tie needs two players, and a reconnect two connections to one seat. An
inbox or a send buffer of one is full after one message. A deck of three runs out in the middle of a wave and an upload of
one at every question. Three tokens let a player be claimed by another phone and claimed back; a game that starts with two
of three players leaves room for somebody to try to join it. A batch of two has a middle to crash in, and two migrations
a state in which one is done; one of them can be repeated and one cannot, and both processes can have found the same one missing. Marks are bounded by the sum of absolute scores, enough for scores to differ and break a
tie. The counters' bounds are in guards and named in the modules' CONSTANTS. The theorems of section 4 have none of these
bounds. Deadlock is not checked: games end at their bounds, rooms close, and a process that has exited does nothing.

What the runs show.

* A patient quizmaster's game is a tournament: players leave one at a time, the last two play the shootout, one
  of them wins. The reveal stays in its order, and rounds start clean.
* With a second tap under way the engine still keeps its clock armed, banks once and in play, lets a vote remove only the
  weakest, and ends countdowns and rounds by its tick. Once somebody has answered in the shootout, no late tap starts it
  again or takes a finalist out, but only because the socket and the inbox keep the order of taps (`ShootoutStands`; its
  mutant delivers them out of order): a second controller's commands have a socket of their own, may come later than
  that, and then do restart it. The run has one controller; what holds for commands in any order is proved of `Game`'s
  `Spec`. The engine does not keep two players: both taps on a tie screen of two each
  eliminate one (`DoManualTieBreak` checks neither phase nor tie).
* No question comes twice before the others have come, and none from a bank other than the one on screen, also when
  the bank is replaced in the middle of a game.
* The actor serves everybody it counts and counts nobody who has left, through reconnects, kicks and late detaches, and
  comes to rest. Once it has stopped, an attach or join already sent waits for ever; only `Summary` has a timeout.
* A phone that is cut off, evicted by its own retry or left half open catches up with the game, unless the last update
  found its buffer full and no other follows; whatever is lost leaves no goroutine and no seat behind, although the
  actor itself waits for handshakes. The pause in closeRoom lets the notice through; the kick has none, and a
  kicked phone that misses its notice tries to reconnect for ever.
* A phone is never pushed out by another one, and two phones never both hold a good credential. But a
  join is a commitment before it is a fact: if its reply is lost, the player counts as online and nobody has the token.
* Approval is atomic, imports are whole, a migration is applied once if it is recorded and else not at all, also when two processes both
  find it missing, the server never starts to serve with an empty bank, and nobody is an admin before there is an account;
  yet two approvals that
  both read before either commits insert the question twice.

Fairness. `Quizmaster`'s `ClockFairness` has the ticker fire and time pass; no command is ever owed. `RoomActor` assumes
that a runnable goroutine runs (weak), that a channel serves blocked senders in turn (strong, as Go's channels are FIFO),
and that sleeps and timeouts end; no client has to send anything and neither idle timer nor signal need come.
`Connection` assumes that goroutines run, that pings, writes and handshakes time out (their contexts and the library's five
seconds), that closeRoom's 400 ms suffice for a write pump that can write, and that the browser reports a closed socket
and ends its back-off; no command has to come and the network has to lose nothing. The other modules have no liveness
properties: nothing in them is owed.

## 4. Proofs

Every invariant and every action property that a passing run checks is proved, but for `ShootoutStands`, and so is the refinement of `Tournament`.
Every theorem is about a specification without the runs' bounds on the number of players, phones, connections, requests,
questions or waves (bounds a module names, such as `MaxTokens` or `MaxQuestions`, are arbitrary), and assumes the named
assumptions on its constants only: a non-empty ladder of positive values, a positive number of regulation waves, and
that values with different roles are different. The one further assumption is `MaxInFlight = 1`, a quizmaster who waits
for the screen to follow each tap, written out in the five theorems marked with it.

| Theorems | Property | Argument |
|---|---|---|
| `TypeCorrect`, `RoundsStartClean`, `ClockAlwaysArmed`, `LobbyAlwaysFresh` | `TypeOK`, `RoundStartsClean`, `ClockArmed`, `LobbyIsFresh` of `Game` | inductive together with `TwoFinalists` |
| `BankedOnce` | `BankOnlyInPlay` | from that invariant; no handler but banking and a new game touches the bank |
| `WeakestGoes` | `VoteRemovesWeakest` | two filters, by votes and by score, leave those nobody is weaker than (`StillTiedIsNobodyWeaker`, `OneLeftIsWeakest`) |
| `PlaysByTheRules` | `QSpec => Spec` of `Game` | for any `MaxInFlight`: whatever a screen offers is a command the engine knows, so every step is one of `Game` or none |
| `OneOutPerRound`, `QuestionsAreInPlay`, `RevealsInOrder`, `FinalistsAreAlive` (`MaxInFlight = 1`) | `OneEliminationPerRound`, `QuestionsInPlay`, `RevealInOrder`, `FinalistsAlive` | one invariant, `QInv`, of the round's accounts and the command on its way (below) |
| `RefinesTournament` (`MaxInFlight = 1`) | `PlaysTournament` | under `QInv` every handler is one step of `Tournament` or none |
| `AnswersStand`, `TurnsAreFair` | `RecordIsFinal`, `FairTurns` | waves are filled one after the other, first finalist first (`InOrder`) |
| `WinnerIsDecided` | `WinnerIffDecided` | while the shootout runs, the match is open in regulation, or sudden death began at a draw with level waves after it; once it is over its last wave settled it (`Due`) |
| `QuestionsTakeTurns`, `ScreenTellsBank` | `NoRepeats`, `AsksWhatItSays` | exactly the questions drawn from the deck in use are ahead (`DeckIsRest`); the bank is the one the flag says |
| `FinaleTyped` | `FinaleTypeOK` | with what the phase says of the shootout (`StageInv`) and where a question on screen comes from (`DrawnInv`) |
| `ConnectedIsServed`, `CountsNoGhosts` | `OpenIsServed`, `NoGhosts` | an attach in the inbox is its connection's only one and it waits; whoever has asked to be detached is done |
| `RoomTyped` | `TypeOK` of `RoomActor` | the invariant above, and that a send waits for a place in the inbox (`SentFits`) |
| `ConnectionTyped` | `TypeOK` of `Connection` | messages on the way are of states the room has been in (`QueueInv`); a `Close` in hand is somebody's (`CloseInv`) |
| `NamesStayDistinct`, `LiveStaysConnected`, `OnePhonePlays`, `SeatStays`, `CastStays` | `NamesDistinct`, `LiveIsConnected`, `OneHolder`, `SeatKept`, `CastFixed` | every credential anywhere was issued and none is good for two phones; one of n + 1 numbered names is free (`SomeNumberIsFree`) |
| `SessionTyped` | `TypeOK` of `Session` | the invariant above; no player has a token that was not issued, and only players of the roster are away (`BoundsInv`) |
| `ServerModerates` | `ServerSpec => Spec` of `Moderation` | every step of the server is a step of the bank and the queue, or none |
| `BankFollowsReviews`, `ApprovalsReachTheBank` | `OnlyApproved`, `ApprovedIsInserted` | what is committed is right, a transaction's copy is what its program counter says |
| `BatchesComeWhole` | `BatchesWhole` | counting: the copy has as many questions of a batch as are not left to insert (`CountInv`) |
| `MigrationsRecorded` | `SchemaMatchesRecord` | at most one process writes (`OneWriter`), and its draft is what is committed with its migration applied once more; whoever can still record it is the first (`DraftInv`, below) |
| `ReadyWhenServing`, `SessionsNeedAccount` | `ServesReady`, `NoSessionWithoutAccount` | who is past a check found what it checked (`PlaceInv`), who was admitted had a session, who compares a password has read one (`AdminInv`) |
| `ServerTyped` | `ServerTypeOK` | those invariants, and what main and the backup can be doing (`LifeInv`) |

Why the invariants are stronger than the properties. In `Game`, a kick preserves `TypeOK` only because the lobby has no
vote, tie or shootout that could still name the player removed (`LobbyIsFresh`); `FinishCountdown` reads the shootout's
order only because a countdown that leads to a shootout has one (`ClockArmed`); and that order holds two players of the
roster because every handler that touches it keeps them there (`TwoFinalists`). In `RoomActor`, that a late detach
removes nobody else needs to know that a connection has one attach under way at most, and none once it has detached. In
`Session`, that two phones do not share a credential needs every credential in a reply, on a link or on a phone to be
one that was issued (`CredentialsInv`), and a live player's current one to be with the phone that plays (`HoldersInv`). In `Moderation`, a commit is
right only because the copy it puts in place was taken by a transaction that still holds the only connection (`TxInv`).
There is one lemma for each handler or group of handlers that do the same to the invariant.

The quizmaster's game. Many handlers check less than the screen does: starting a game, continuing after an elimination and
playing again look at no phase, a tie-break only at the roster, advancing a reveal only at whether there is one. So the
invariant has to say what a command still on its way is worth. `QInv` has three parts. `IInv` is the engine's own.
`RoundsInv` has the accounts: how many have left by the round's number (`Toll`), that a countdown alone has a target, a
tie only stands in a vote whose reveal is over, and there is a shootout from its countdown to the end of the game. `Waiting`
says of the one command under way that it is `Current`: the phase has a button for it; or it is one of a round the clock
has just ended, which every handler, asking for a round in play or a question on screen, drops. The steps that
need it are those that would take a second player out: a manual tie-break names a player of the tie still on screen, and
a reveal is advanced in a vote. With two commands under way `Waiting` does not hold, and `two_taps_tie` is the run that shows
what is then lost; `PlaysByTheRules` carries what `GameProofs` proves over to that case too. In the refinement,
adding, kicking and starting are `Enter`, `Withdraw` and `Begin`; the two ways out of a vote, by the reveal and by a
tie-break, are `Eliminate`; the mark that settles the shootout is `Crown` and playing again is `Reopen`. All other steps,
the clock's and the phones' among them, stutter. That the contest begins with three and ends with two is `Toll` again.

Imports. `BatchesWhole` counts questions in the database, but a batch is inserted into a transaction's copy one row at a
time. `CountInv` therefore says of an inserting transaction that its copy has `Lines` questions of the batch less those left,
that every other batch in the copy is whole, and that no question has a number that no batch has had yet, so that a new
batch starts from none; and of any other transaction that its copy is whole.

Migrations. That the record tells what has been applied is not inductive either: a transaction first applies and then
records, so the draft is wrong in between. `DraftInv` says what it is at each place: after the first statement what is
committed with one application more, which may be one too many if another process came first; after the second, right
again, because recording succeeds only for a migration that what is committed has not recorded, and so, what is
committed being right, has never applied.

Connections. Two parts of the type invariant are not about types. A phone shows no state that the room was not in: every
message in a buffer or on the wire must be of one (`QueueInv`), with a version that only grows. And the
actor's `Close` is of the connection its job names, while closeRoom's pause closes only connections of a room that
has returned, which has neither a member nor a job (`CloseInv`).

Only model-checked: `ShootoutStands`, which would need the order of all commands in flight as an invariant, and the
liveness properties `Settles`, `CatchesUp`, `ConnectionEnds`, `ClosedPhoneStops` and
`ClockCarriesOn`, since neither fairness nor ENABLED is within the prover's reach. What a recursive definition computes for every
input would need induction over data, which is not either; the models' sums over sets are used in the proofs only where their
value does not matter, as in the bounds on marks.

## 5. Findings

Five runs end in a violation of something the repository says of itself; `PROJECT.json` quotes the lines.

* `two_taps_tie`: two taps on a tie screen eliminate both candidates by one vote.
* `room_calls`: an attach or join sent to a room that stops is never answered, though `Attach` is said to block briefly.
* `rejoin`: a player whose join reply is lost, or whose tab closes before the WebSocket opens, cannot rejoin.
* `review`: two overlapping approvals both succeed, which a test forbids for successive ones.
* `kicked`: the kicked notice races the close of its connection, the race that a comment in `closeRoom` describes.

## 6. Not modelled, and why

* Texts: questions, names beyond equality, log lines, formatting. Case folding makes names one; truncation only makes
  more of them equal.
* What each role is sent (`sanitize.go`), but for the panic: a projection of the state with no control of its own.
  Rendering, sound and forms.
* Parsing (`parse.go`), rate limits, routing: no state and no interleaving to speak of. That a set of questions without a
  valid one is refused is in `Deck` and `Moderation`. Seed questions are data.
* The clamping of a round's duration at creation, the choice of a room code that is free, and the growth of the back-off.
* Two wrappers of one page (`reconnectNow`) that evict each other: `Connection` has one wrapper. A vote lost on a dead
  socket: nothing acknowledges or promises it.
* SQLite, the WebSocket library and cryptography: a transaction is atomic, a socket is open, dead, closing or closed, a
  signature is valid or not. Whether foreign keys are enforced depends on how the driver reads the DSN; `Moderation` does
  not rely on it.

## 7. Plan

Done, the most important behaviour first: the engine and its shootout, the quizmaster's game as a tournament, the actor,
identity and presence, moderation; then decks, connections, and the server's life; with proofs of all safety properties but `ShootoutStands`.

Next:

1. Safety arguments behind the liveness properties, as invariants: which goroutine of a lost connection is still owed a step.
2. A second wrapper in `Connection`, for `reconnectNow`.
3. What `sanitize.go` shows each role, against the secrets of the phase.
