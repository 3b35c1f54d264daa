--------------------------------- MODULE Game ---------------------------------
(***************************************************************************)
(* The game engine of one room: the State of internal/room/state.go and    *)
(* the Do* methods of internal/room/actions.go, as the room's actor runs   *)
(* them, one at a time.  Each method is an action; the early returns that  *)
(* make it return false are its guard Can...  Nothing here says when the   *)
(* quizmaster's screen offers a command: the server checks only the guards *)
(* below, so this module lets every command arrive in every state          *)
(* (Quizmaster.tla restricts the commands to those a screen sends).        *)
(*                                                                         *)
(* Players are numbered in the order they entered the roster, so the       *)
(* roster order of the code is the order of the numbers.  A question is    *)
(* there or it is not; the score of a player is Correct - Incorrect, which *)
(* is all the engine compares.  Names, the log and what is kept for the    *)
(* screens only (LastElimination, TieTally, Winner) are left out.          *)
(* Wall-clock time is one flag: the deadline the tick of the current phase *)
(* compares with has passed.                                               *)
(*                                                                         *)
(* A definition X_Bug before a definition X is X with a mistake in it; the *)
(* properties must notice when it takes the place of X.                    *)
(***************************************************************************)
EXTENDS ShootoutRules, FiniteSetsExt

CONSTANT ChainValues   \* the money ladder

ASSUME LadderAssumption ==
  ChainValues \in Seq(Nat \ {0}) /\ ChainValues # <<>>

MinPlayers == 3

Ids == Nat \ {0}

EmptyMap == [p \in {} |-> NoPlayer]

Phases == {"lobby", "countdown", "playing", "voting", "elimination",
           "shootout", "gameover"}

VARIABLES
  phase, round,
  roster,           \* ids in Players
  lastId,           \* ids handed out so far
  alive,            \* players with Alive = true
  score,            \* Correct - Incorrect of each player
  chainIndex,       \* place on the ladder, -1 for no live chain
  bank,
  askedId,          \* CurrentAskedID
  question,         \* CurrentQuestion # nil
  timerRunning,
  deadlinePassed,   \* CountdownEndsAt or Timer.EndsAt, by phase, is past
  countdownTarget,
  votes,            \* voter -> target, for those who voted
  revealing, revealOrder, revealIndex,
  tie,              \* TieCandidates
  shootout

peopleVars == <<roster, lastId>>
moneyVars  == <<chainIndex, bank>>
askVars    == <<askedId, question>>
clockVars  == <<timerRunning, deadlinePassed, countdownTarget>>
revealVars == <<revealing, revealOrder, revealIndex>>

gameVars == <<phase, round, roster, lastId, alive, score, chainIndex, bank,
              askedId, question, timerRunning, deadlinePassed, countdownTarget,
              votes, revealing, revealOrder, revealIndex, tie, shootout>>

\* Every id the state keeps, but the target of a vote, is one of the roster, and
\* a tie is among the players alive.
TypeOK ==
  /\ phase \in Phases
  /\ round \in Nat \ {0}
  /\ lastId \in Nat
  /\ roster \subseteq 1 .. lastId
  /\ alive \subseteq roster
  /\ score \in [roster -> Int]
  /\ chainIndex \in -1 .. Len(ChainValues) - 1
  /\ bank \in Nat
  /\ askedId \in roster \cup {NoPlayer}
  /\ question \in BOOLEAN
  /\ timerRunning \in BOOLEAN
  /\ deadlinePassed \in BOOLEAN
  /\ countdownTarget \in {"", "round", "shootout"}
  /\ DOMAIN votes \subseteq roster
  /\ \A v \in DOMAIN votes : votes[v] \in Ids
  /\ revealing \in BOOLEAN
  /\ revealOrder \subseteq roster
  /\ revealIndex \in Nat
  /\ tie \subseteq alive
  /\ shootout \in Shootouts(roster)

\* NewState: a lobby with nobody in it.
Init ==
  /\ phase = "lobby" /\ round = 1
  /\ roster = {} /\ lastId = 0 /\ alive = {} /\ score = EmptyMap
  /\ chainIndex = -1 /\ bank = 0
  /\ askedId = NoPlayer /\ question = FALSE
  /\ timerRunning = FALSE /\ deadlinePassed = FALSE /\ countdownTarget = ""
  /\ votes = EmptyMap
  /\ revealing = FALSE /\ revealOrder = {} /\ revealIndex = 0
  /\ tie = {} /\ shootout = NoShootout

-----------------------------------------------------------------------------
(* Turn, timer and countdown plumbing.                                     *)

NextAsked_NoWrap ==
  IF alive = {} THEN NoPlayer ELSE askedId + 1

NextAsked_TheDeadToo ==
  LET later == {p \in roster : p > askedId}
  IN IF later # {} THEN Min(later) ELSE Min(roster)

\* advanceTurn: the next player alive in roster order, cyclically; the first
\* when the one asked is not alive.
NextAsked ==
  LET later == {p \in alive : p > askedId}
  IN IF alive = {} THEN NoPlayer
     ELSE IF askedId \in alive /\ later # {} THEN Min(later)
     ELSE Min(alive)

StartTimer_Stopped == deadlinePassed' = FALSE /\ UNCHANGED timerRunning

StartTimer == deadlinePassed' = FALSE /\ timerRunning' = TRUE

BeginCountdown(target) ==
  /\ phase' = "countdown"
  /\ countdownTarget' = target
  /\ deadlinePassed' = FALSE
  /\ UNCHANGED timerRunning

FinishCountdown ==
  /\ countdownTarget' = ""
  /\ IF countdownTarget = "shootout"
     THEN /\ phase' = "shootout"
          /\ shootout' = Asked(shootout)
          /\ deadlinePassed' = FALSE
          /\ UNCHANGED <<question, timerRunning>>
     ELSE /\ phase' = "playing"
          /\ question' = TRUE
          /\ StartTimer
          /\ UNCHANGED shootout
  /\ UNCHANGED <<peopleVars, round, alive, score, moneyVars, askedId, votes,
                 revealVars, tie>>

-----------------------------------------------------------------------------
(* The round.                                                              *)

CanStartGame == Cardinality(roster) >= MinPlayers

ClearRound_KeepsChain == question' = FALSE /\ UNCHANGED chainIndex

\* a round starts with no live chain and no question
ClearRound == question' = FALSE /\ chainIndex' = -1

DoStartGame ==
  /\ CanStartGame
  /\ round' = 1
  /\ askedId' = Min(roster)
  /\ ClearRound
  /\ BeginCountdown("round")
  /\ UNCHANGED <<peopleVars, alive, score, bank, votes, revealVars, tie,
                 shootout>>

CanSelectAsked(p) == phase = "playing" /\ p \in alive

DoSelectAsked(p) ==
  /\ CanSelectAsked(p)
  /\ askedId' = p
  /\ question' = TRUE
  /\ UNCHANGED <<phase, round, peopleVars, alive, score, moneyVars, clockVars,
                 votes, revealVars, tie, shootout>>

CanNextQuestion == phase = "playing" /\ askedId # NoPlayer

DoNextQuestion ==
  /\ CanNextQuestion
  /\ question' = TRUE
  /\ UNCHANGED <<phase, round, peopleVars, alive, score, moneyVars, askedId,
                 clockVars, votes, revealVars, tie, shootout>>

\* The server asks for no phase here: a question and a player asked suffice.
CanMarkAnswer == question /\ askedId \in roster

MarkAnswer(points, place) ==
  /\ CanMarkAnswer
  /\ score' = [score EXCEPT ![askedId] = @ + points]
  /\ chainIndex' = place
  /\ askedId' = NextAsked
  /\ question' = TRUE
  /\ UNCHANGED <<phase, round, peopleVars, alive, bank, clockVars, votes,
                 revealVars, tie, shootout>>

DoMarkCorrect ==
  MarkAnswer(1, IF chainIndex < Len(ChainValues) - 1 THEN chainIndex + 1
                                                     ELSE chainIndex)

DoMarkIncorrect == MarkAnswer(-1, -1)

CanBankChain_AnyPhase == chainIndex >= 0

CanBankChain == phase = "playing" /\ chainIndex >= 0

DoBankChain ==
  /\ CanBankChain
  /\ bank' = bank + ChainValues[chainIndex + 1]
  /\ chainIndex' = -1
  /\ UNCHANGED <<phase, round, peopleVars, alive, score, askVars, clockVars,
                 votes, revealVars, tie, shootout>>

\* A player banks for the team, but only while asked.
CanCallBank(p) == CanBankChain /\ askedId = p /\ p \in roster

CallBank(p) == CanCallBank(p) /\ DoBankChain

CanEndRound == phase = "playing"

DoEndRound ==
  /\ CanEndRound
  /\ phase' = "voting"
  /\ votes' = EmptyMap
  /\ question' = FALSE
  /\ revealing' = FALSE /\ revealOrder' = {} /\ revealIndex' = 0
  /\ timerRunning' = FALSE
  /\ deadlinePassed' = FALSE
  /\ UNCHANGED <<round, peopleVars, alive, score, moneyVars, askedId,
                 countdownTarget, tie, shootout>>

-----------------------------------------------------------------------------
(* The vote.                                                               *)

CanSubmitVote(voter) == phase = "voting" /\ voter \in alive

SubmitVote(voter, target) ==
  /\ CanSubmitVote(voter)
  /\ votes' = [v \in DOMAIN votes \cup {voter} |->
                 IF v = voter THEN target ELSE votes[v]]
  /\ UNCHANGED <<phase, round, peopleVars, alive, score, moneyVars, askVars,
                 clockVars, revealVars, tie, shootout>>

CanStartVoteReveal == phase = "voting" /\ ~revealing

DoStartVoteReveal ==
  /\ CanStartVoteReveal
  /\ revealing' = TRUE
  /\ revealOrder' = alive
  /\ revealIndex' = 0
  /\ UNCHANGED <<phase, round, peopleVars, alive, score, moneyVars, askVars,
                 clockVars, votes, tie, shootout>>

VotesFor(p) == Cardinality({v \in DOMAIN votes : votes[v] = p})

MostVoted == {p \in alive : \A q \in alive : VotesFor(q) <= VotesFor(p)}

StillTied_BestPlayed ==
  {p \in MostVoted : \A q \in MostVoted : score[q] <= score[p]}

\* of the most voted, those who played worst
StillTied == {p \in MostVoted : \A q \in MostVoted : score[p] <= score[q]}

FinalizeElimination_AllTied(p) ==
  /\ alive' = alive \ (tie \cup {p})
  /\ tie' = {}
  /\ phase' = "elimination"
  /\ deadlinePassed' = FALSE

FinalizeElimination(p) ==
  /\ alive' = alive \ {p}
  /\ tie' = {}
  /\ phase' = "elimination"
  /\ deadlinePassed' = FALSE

ResolveVotes ==
  \/ \E p \in alive : StillTied = {p} /\ FinalizeElimination(p)
  \/ /\ \A p \in alive : StillTied # {p}
     /\ tie' = StillTied
     /\ UNCHANGED <<phase, alive, deadlinePassed>>

CanAdvanceReveal == revealing

LastReveal_OneMore == revealIndex >= Cardinality(revealOrder)

LastReveal == revealIndex + 1 >= Cardinality(revealOrder)

DoAdvanceReveal ==
  /\ CanAdvanceReveal
  /\ revealIndex' = revealIndex + 1
  /\ IF LastReveal
     THEN revealing' = FALSE /\ ResolveVotes
     ELSE UNCHANGED <<revealing, phase, alive, tie, deadlinePassed>>
  /\ UNCHANGED <<round, peopleVars, score, moneyVars, askVars, timerRunning,
                 countdownTarget, votes, revealOrder, shootout>>

\* Any player of the roster will do for the server, in any phase.
CanManualTieBreak(p) == p \in roster

DoManualTieBreak(p) ==
  /\ CanManualTieBreak(p)
  /\ FinalizeElimination(p)
  /\ UNCHANGED <<round, peopleVars, score, moneyVars, askVars, timerRunning,
                 countdownTarget, votes, revealVars, shootout>>

FinalTwo_OrThree == Cardinality(alive) \in {2, 3}

FinalTwo == Cardinality(alive) = 2

DoContinueAfterElimination ==
  /\ IF FinalTwo
     THEN /\ shootout' = ShootoutOf(Min(alive), Max(alive))
          /\ BeginCountdown("shootout")
          /\ UNCHANGED <<round, chainIndex, askVars>>
     ELSE /\ round' = round + 1
          /\ askedId' = IF alive = {} THEN askedId ELSE Min(alive)
          /\ ClearRound
          /\ BeginCountdown("round")
          /\ UNCHANGED shootout
  /\ UNCHANGED <<peopleVars, alive, score, bank, votes, revealVars, tie>>

-----------------------------------------------------------------------------
(* The shootout, by ShootoutRules.                                         *)

CanShootoutNextQuestion == CanAsk(shootout)

DoShootoutNextQuestion ==
  /\ CanShootoutNextQuestion
  /\ shootout' = Asked(shootout)
  /\ UNCHANGED <<phase, round, peopleVars, alive, score, moneyVars, askVars,
                 clockVars, votes, revealVars, tie>>

Answering == shootout.order[shootout.turn + 1]

CanShootoutMark == CanMark(shootout) /\ Answering \in roster

DoShootoutMark(result) ==
  /\ CanShootoutMark
  /\ score' = [score EXCEPT ![Answering] =
                 @ + (IF result = "correct" THEN 1 ELSE -1)]
  /\ shootout' = Marked(shootout, result)
  /\ IF shootout'.winner = NoPlayer
     THEN UNCHANGED <<phase, deadlinePassed>>
     ELSE /\ phase' = "gameover"
          /\ deadlinePassed' = FALSE
  /\ UNCHANGED <<round, peopleVars, alive, moneyVars, askVars, timerRunning,
                 countdownTarget, votes, revealVars, tie>>

-----------------------------------------------------------------------------
(* Lobby and meta.  A player enters through the quizmaster (DoAddPlayer)   *)
(* or through Join; either way the row is appended, alive, with no score.  *)

CanAddPlayer == phase = "lobby"

DoAddPlayer ==
  /\ CanAddPlayer
  /\ lastId' = lastId + 1
  /\ roster' = roster \cup {lastId'}
  /\ alive' = alive \cup {lastId'}
  /\ score' = [p \in roster' |-> IF p = lastId' THEN 0 ELSE score[p]]
  /\ UNCHANGED <<phase, round, moneyVars, askVars, clockVars, votes,
                 revealVars, tie, shootout>>

CanKickPlayer(p) == phase = "lobby" /\ p \in roster

DoKickPlayer_StillAlive(p) ==
  /\ CanKickPlayer(p)
  /\ roster' = roster \ {p}
  /\ score' = [q \in roster' |-> score[q]]
  /\ UNCHANGED <<phase, round, lastId, alive, moneyVars, askVars, clockVars,
                 votes, revealVars, tie, shootout>>

DoKickPlayer(p) ==
  /\ CanKickPlayer(p)
  /\ roster' = roster \ {p}
  /\ alive' = alive \ {p}
  /\ score' = [q \in roster' |-> score[q]]
  /\ UNCHANGED <<phase, round, lastId, moneyVars, askVars, clockVars, votes,
                 revealVars, tie, shootout>>

DoPlayAgain_StillOut ==
  /\ phase' = "lobby" /\ round' = 1
  /\ UNCHANGED alive /\ score' = [p \in roster |-> 0]
  /\ chainIndex' = -1 /\ bank' = 0
  /\ askedId' = NoPlayer /\ question' = FALSE
  /\ timerRunning' = FALSE /\ deadlinePassed' = FALSE /\ countdownTarget' = ""
  /\ votes' = EmptyMap
  /\ revealing' = FALSE /\ revealOrder' = {} /\ revealIndex' = 0
  /\ tie' = {} /\ shootout' = NoShootout
  /\ UNCHANGED peopleVars

\* A fresh lobby with the same roster, everybody revived.
DoPlayAgain ==
  /\ phase' = "lobby" /\ round' = 1
  /\ alive' = roster /\ score' = [p \in roster |-> 0]
  /\ chainIndex' = -1 /\ bank' = 0
  /\ askedId' = NoPlayer /\ question' = FALSE
  /\ timerRunning' = FALSE /\ deadlinePassed' = FALSE /\ countdownTarget' = ""
  /\ votes' = EmptyMap
  /\ revealing' = FALSE /\ revealOrder' = {} /\ revealIndex' = 0
  /\ tie' = {} /\ shootout' = NoShootout
  /\ UNCHANGED peopleVars

-----------------------------------------------------------------------------
(* The actor's clock.  The 500 ms tick ends a countdown or a round whose   *)
(* deadline has passed and does nothing otherwise.                         *)

TimePasses ==
  /\ phase \in {"countdown", "playing"} /\ ~deadlinePassed
  /\ deadlinePassed' = TRUE
  /\ UNCHANGED <<phase, round, peopleVars, alive, score, moneyVars, askVars,
                 timerRunning, countdownTarget, votes, revealVars, tie,
                 shootout>>

Tick_RoundsOnly ==
  deadlinePassed /\ phase = "playing" /\ timerRunning /\ DoEndRound

Tick ==
  /\ deadlinePassed
  /\ \/ phase = "countdown" /\ FinishCountdown
     \/ phase = "playing" /\ timerRunning /\ DoEndRound

\* Every handler that changes the state broadcasts it, and revealInfo indexes
\* RevealOrder by RevealIndex: out of range, the goroutine panics and the
\* process is gone.
Panicked == revealing /\ revealIndex >= Cardinality(revealOrder)

-----------------------------------------------------------------------------
(* Messages.  A controller's command names an action and, for some, a      *)
(* player or the result of an answer; handleControllerMessage runs the     *)
(* handler, and a handler whose guard fails returns false: the message is  *)
(* gone and the state as it was.                                           *)

Actions == {"startGame", "selectAsked", "nextQuestion", "markCorrect",
            "markIncorrect", "bankChain", "endRound", "startVoteReveal",
            "advanceReveal", "manualTieBreak", "continueAfterElimination",
            "shootoutNextQuestion", "shootoutMark", "playAgain",
            "kickPlayer", "addPlayer"}

Commands == [action : Actions, player : Ids \cup {NoPlayer},
             result : Results \cup {""}]

\* any answer but "correct" scores as an incorrect one
Scored(result) == IF result = "correct" THEN "correct" ELSE "incorrect"

Accepts(c) ==
  \/ c.action = "startGame" /\ CanStartGame
  \/ c.action = "selectAsked" /\ CanSelectAsked(c.player)
  \/ c.action = "nextQuestion" /\ CanNextQuestion
  \/ c.action \in {"markCorrect", "markIncorrect"} /\ CanMarkAnswer
  \/ c.action = "bankChain" /\ CanBankChain
  \/ c.action = "endRound" /\ CanEndRound
  \/ c.action = "startVoteReveal" /\ CanStartVoteReveal
  \/ c.action = "advanceReveal" /\ CanAdvanceReveal
  \/ c.action = "manualTieBreak" /\ CanManualTieBreak(c.player)
  \/ c.action = "shootoutNextQuestion" /\ CanShootoutNextQuestion
  \/ c.action = "shootoutMark" /\ CanShootoutMark
  \/ c.action = "kickPlayer" /\ CanKickPlayer(c.player)
  \/ c.action = "addPlayer" /\ CanAddPlayer
  \/ c.action \in {"continueAfterElimination", "playAgain"}

Handle(c) ==
  \/ c.action = "startGame" /\ DoStartGame
  \/ c.action = "selectAsked" /\ DoSelectAsked(c.player)
  \/ c.action = "nextQuestion" /\ DoNextQuestion
  \/ c.action = "markCorrect" /\ DoMarkCorrect
  \/ c.action = "markIncorrect" /\ DoMarkIncorrect
  \/ c.action = "bankChain" /\ DoBankChain
  \/ c.action = "endRound" /\ DoEndRound
  \/ c.action = "startVoteReveal" /\ DoStartVoteReveal
  \/ c.action = "advanceReveal" /\ DoAdvanceReveal
  \/ c.action = "manualTieBreak" /\ DoManualTieBreak(c.player)
  \/ c.action = "continueAfterElimination" /\ DoContinueAfterElimination
  \/ c.action = "shootoutNextQuestion" /\ DoShootoutNextQuestion
  \/ c.action = "shootoutMark" /\ DoShootoutMark(Scored(c.result))
  \/ c.action = "playAgain" /\ DoPlayAgain
  \/ c.action = "kickPlayer" /\ DoKickPlayer(c.player)
  \/ c.action = "addPlayer" /\ DoAddPlayer

\* Every command in every state, with votes and banking from every player:
\* the specification the theorems are about.  It has no bounds; the runs check
\* it through Quizmaster.tla, whose steps are steps of this one.
Next ==
  /\ ~Panicked
  /\ \/ Tick
     \/ TimePasses
     \/ \E c \in Commands : Handle(c)
     \/ \E voter, target \in Ids : SubmitVote(voter, target)
     \/ \E p \in Ids : CallBank(p)

\* One room, from the moment it is created.
Spec == Init /\ [][Next]_gameVars

-----------------------------------------------------------------------------
(* What holds whatever commands arrive in whatever order.                  *)

\* Nothing of an earlier round is left to be scored in the next one: while a
\* round is counted down there is no live chain and no question to mark, so
\* money earned in one round is never banked in another.
RoundStartsClean ==
  phase = "countdown" /\ countdownTarget = "round" =>
    chainIndex = -1 /\ ~question

\* The clock that ends a phase is always armed in it, and a countdown to the
\* shootout finds one to start (FinishCountdown dereferences the pointer).
ClockArmed ==
  /\ phase = "playing" => timerRunning
  /\ phase = "countdown" => countdownTarget # ""
  /\ countdownTarget = "shootout" => shootout # NoShootout
  /\ deadlinePassed => phase \in {"countdown", "playing"}

\* A kick leaves no dangling id: players are removed in the lobby only, and
\* there nothing of a game refers to a player.
LobbyIsFresh ==
  phase = "lobby" =>
    /\ askedId = NoPlayer /\ ~question
    /\ votes = EmptyMap /\ ~revealing /\ revealOrder = {} /\ tie = {}
    /\ shootout = NoShootout
    /\ alive = roster

\* p has more votes than q, or as many and a lower score
Weaker(p, q) ==
  \/ VotesFor(p) > VotesFor(q)
  \/ VotesFor(p) = VotesFor(q) /\ score[p] < score[q]

Weakest(p) == p \in alive /\ \A q \in alive \ {p} : Weaker(p, q)

\* When the reveal is exhausted the vote removes the one player who is weaker
\* than every other, by votes first and score second; if there is none, nobody
\* goes and the tie lists those whom nobody alive is weaker than.
VoteRemovesWeakest ==
  [][revealing /\ ~revealing' /\ revealIndex' > revealIndex =>
       \/ \E p \in alive : Weakest(p) /\ alive' = alive \ {p}
       \/ /\ \A p \in alive : ~Weakest(p)
          /\ alive' = alive
          /\ tie' = {p \in alive : \A q \in alive : ~Weaker(q, p)}
    ]_gameVars

\* The team's money only grows, and only in play: every increase is the value
\* of the rung the chain stands on, and takes the chain with it.
BankOnlyInPlay ==
  [][bank' # bank =>
       \/ phase' = "lobby" /\ bank' = 0
       \/ /\ phase = "playing" /\ chainIndex >= 0 /\ chainIndex' = -1
          /\ bank' - bank = ChainValues[chainIndex + 1]]_gameVars
=============================================================================
