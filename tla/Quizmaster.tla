------------------------------ MODULE Quizmaster ------------------------------
(***************************************************************************)
(* The game driven by its screens: web/js/game/controller.js sends only    *)
(* the commands its view of the current phase has a button for, the room's *)
(* actor handles them later, and in between the tick fires, players vote   *)
(* and bank, and other commands arrive.  inflight holds the commands sent  *)
(* and not yet handled, in the order the room's inbox delivers them.       *)
(*                                                                         *)
(* MaxInFlight = 1 is a quizmaster who waits for the screen to follow each *)
(* tap; 2 is one who taps on a screen that is one command behind.  One     *)
(* socket keeps its commands in order.  The server admits a second         *)
(* controller, whose commands may overtake the first one's: any command in *)
(* any state, which is Spec of Game.tla.                                   *)
(***************************************************************************)
EXTENDS Game

CONSTANTS MaxInFlight,   \* commands sent and not yet handled
          MaxPlayers,    \* bound: ids up to which players are added
          MaxMarks,      \* bound: sum of |score| up to which answers are marked
          MaxBank,       \* bound: bank up to which the chain is banked
          MaxVotes,      \* bound: players who vote in one round
          MaxRound,      \* bound: round after which no further one is started
          MaxWaves       \* bound: shootout waves played

VARIABLE inflight

vars == <<gameVars, inflight>>

QInit == Init /\ inflight = <<>>

-----------------------------------------------------------------------------
(* The buttons of the controller's view of each phase.                     *)

Command(action) == [action |-> action, player |-> NoPlayer, result |-> ""]

CommandOn(action, p) == [Command(action) EXCEPT !.player = p]

MarkCommand(result) == [Command("shootoutMark") EXCEPT !.result = result]

LobbyView ==
  {Command("addPlayer")}
    \cup {CommandOn("kickPlayer", p) : p \in roster}
    \cup {c \in {Command("startGame")} : Cardinality(roster) >= MinPlayers}

PlayingView ==
  {Command("nextQuestion"), Command("endRound")}
    \cup {c \in {Command("markCorrect"), Command("markIncorrect")} : question}
    \cup {c \in {Command("bankChain")} : chainIndex >= 0}
    \cup {CommandOn("selectAsked", p) : p \in alive}

VotingView ==
  IF tie # {} THEN {CommandOn("manualTieBreak", p) : p \in tie}
  ELSE IF revealing THEN {Command("advanceReveal")}
  ELSE {Command("startVoteReveal")}

ShootoutView ==
  IF shootout.question THEN {MarkCommand(result) : result \in Results}
  ELSE {Command("shootoutNextQuestion")}

Offered ==
  CASE phase = "lobby" -> LobbyView
    [] phase = "playing" -> PlayingView
    [] phase = "voting" -> VotingView
    [] phase = "elimination" -> {Command("continueAfterElimination")}
    [] phase = "shootout" -> ShootoutView
    [] phase = "gameover" -> {Command("playAgain")}
    [] OTHER -> {}

-----------------------------------------------------------------------------
Marks == MapThenSumSet(LAMBDA p : IF score[p] < 0 THEN -score[p] ELSE score[p],
                       roster)

WithinBounds(c) ==
  /\ c.action = "addPlayer" => lastId < MaxPlayers
  /\ c.action \in {"markCorrect", "markIncorrect"} => Marks < MaxMarks
  /\ c.action = "bankChain" => bank < MaxBank
  /\ c.action = "continueAfterElimination" =>
       round < MaxRound \/ Cardinality(alive) = 2
  /\ c.action = "shootoutMark" => shootout.roundIndex < MaxWaves

Tap ==
  /\ Len(inflight) < MaxInFlight
  /\ \E c \in Offered : WithinBounds(c) /\ inflight' = Append(inflight, c)
  /\ UNCHANGED gameVars

\* each message on a goroutine of its own
Deliver_OutOfOrder ==
  \E i \in DOMAIN inflight :
    /\ inflight' = SubSeq(inflight, 1, i - 1) \o SubSeq(inflight, i + 1, Len(inflight))
    /\ \/ Handle(inflight[i])
       \/ ~Accepts(inflight[i]) /\ UNCHANGED gameVars

\* The actor takes the oldest command: handled, or dropped by its handler.
Deliver ==
  /\ inflight # <<>>
  /\ inflight' = Tail(inflight)
  /\ \/ Handle(Head(inflight))
     \/ ~Accepts(Head(inflight)) /\ UNCHANGED gameVars

Clock == (Tick \/ TimePasses) /\ UNCHANGED inflight

\* A player's phone: a vote for anybody, from anybody alive, whenever it
\* arrives during a vote, and the bank button of the player asked.
Phone ==
  /\ \E p \in roster :
       \/ /\ p \in DOMAIN votes \/ Cardinality(DOMAIN votes) < MaxVotes
          /\ \E target \in roster : SubmitVote(p, target)
       \/ bank < MaxBank /\ CallBank(p)
  /\ UNCHANGED inflight

QNext == ~Panicked /\ (Tap \/ Deliver \/ Clock \/ Phone)

QSpec == QInit /\ [][QNext]_vars

\* Time goes on and the actor's ticker fires whatever the clients do; nobody
\* is obliged to send a command.
ClockFairness == WF_vars(~Panicked /\ Clock)

FairQSpec == QSpec /\ ClockFairness

-----------------------------------------------------------------------------
(* What holds for a quizmaster who waits for the screen (MaxInFlight = 1). *)

\* The tournament the game is: its stages are the phases, its contestants the
\* players alive, its champion the winner of the shootout.
Stage ==
  CASE phase = "lobby" -> "open"
    [] phase = "gameover" -> "over"
    [] OTHER -> "contest"

Contest == INSTANCE Tournament WITH
  stage <- Stage, entrants <- roster, contestants <- alive,
  champion <- shootout.winner, Nobody <- NoPlayer, FewestPlayers <- MinPlayers

PlaysTournament == Contest!Spec

\* One round, one elimination: the round number tells how many have left, up
\* to the elimination that ends it, and a round is never played with fewer
\* than three nor a shootout with other than two.
OneEliminationPerRound ==
  LET gone == Cardinality(roster) - Cardinality(alive)
  IN CASE phase = "lobby" -> gone = 0
       [] phase \in {"playing", "voting"} \/ countdownTarget = "round"
            -> gone = round - 1 /\ Cardinality(alive) >= 3
       [] phase = "elimination" -> gone = round /\ Cardinality(alive) >= 2
       [] OTHER -> gone = round /\ Cardinality(alive) = 2

\* The player asked is in the game, and a question is open only while its
\* phase lasts: no answer is marked during a vote or a countdown.
QuestionsInPlay ==
  /\ phase = "playing" \/ countdownTarget = "round" => askedId \in alive
  /\ question => phase = "playing"
  /\ shootout.question => phase = "shootout"

\* A reveal shows one of the players alive, each once: its index stays in the
\* order (revealInfo would panic) and the order is that of the players alive.
RevealInOrder ==
  revealing => /\ phase = "voting" /\ tie = {}
               /\ revealOrder = alive
               /\ revealIndex < Cardinality(revealOrder)

\* The shootout is between the two players alive, and the game is over exactly
\* when it has a winner.
FinalistsAlive ==
  /\ shootout # NoShootout =>
       {shootout.order[1], shootout.order[2]} = alive /\ Cardinality(alive) = 2
  /\ shootout.winner # NoPlayer <=> phase = "gameover"

-----------------------------------------------------------------------------
(* What holds even of a screen one command behind, and what does not.      *)

\* The clock carries the game on by itself: a countdown leads to its round or
\* shootout and a round to its vote with nobody at the controls, whatever
\* commands and buttons come in while they last.
ClockCarriesOn ==
  phase \in {"countdown", "playing"} ~> phase \notin {"countdown", "playing"}

\* A shootout in which somebody has answered is not started again and no answer in
\* it is lost or changed, nor does a finalist leave, up to play-again.  The handlers
\* of continueAfterElimination and manualTieBreak would do all of that, for they
\* check no phase: only the order of the inbox keeps a second tap on the screens
\* before from coming after the first answer.
ShootoutStands ==
  [][shootout.rounds # <<>> /\ phase' # "lobby" =>
       /\ shootout'.order = shootout.order /\ alive' = alive
       /\ \A wave \in DOMAIN shootout.rounds, side \in {0, 1} :
            /\ wave \in DOMAIN shootout'.rounds
            /\ Answer(shootout.rounds[wave], side)
                 \in {Unanswered, Answer(shootout'.rounds[wave], side)}]_vars

\* The game always keeps two players for the shootout.
TwoRemain == phase \notin {"lobby"} => Cardinality(alive) >= 2
=============================================================================
