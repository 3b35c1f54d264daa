--------------------------- MODULE QuizmasterProofs ---------------------------
(***************************************************************************)
(* Theorems about the game driven by its screens (Quizmaster.tla).         *)
(*                                                                         *)
(* With any number of commands under way every step is one of Game.tla, so *)
(* that all that GameProofs.tla proves holds for it.  With one command at  *)
(* a time the game is a tournament and one round costs one player.  For    *)
(* that the command on its way must be followed: while the clock and the   *)
(* phones go on, it stays one that the phase has a button for, or else one *)
(* of a round that has just ended, which every handler drops (Current).    *)
(***************************************************************************)
EXTENDS Quizmaster, GameProofs

-----------------------------------------------------------------------------
(* A screen behind or not, it can only send commands.                      *)

Commanded == inflight \in Seq(Commands)

\* A button sends an action the server knows, about a player of the roster.
LEMMA OfferedAreCommands ==
  ASSUME TypeOK
  PROVE  Offered \subseteq Commands
<1>1. /\ \A p \in roster : p \in Ids
      /\ alive \subseteq roster /\ tie \subseteq roster
  BY RosterIsNumbered DEF TypeOK
<1>2. \A a \in Actions : Command(a) \in Commands
  BY DEF Command, Commands
<1>3. \A a \in Actions : \A p \in roster : CommandOn(a, p) \in Commands
  BY <1>1, <1>2 DEF CommandOn, Command, Commands
<1>4. \A result \in Results : MarkCommand(result) \in Commands
  <2> DEFINE mark == Command("shootoutMark")
  <2>1. mark \in Commands
    BY <1>2 DEF Actions
  <2>2. \A result \in Results : [mark EXCEPT !.result = result] \in Commands
    <3> HIDE DEF mark
    <3> QED BY <2>1 DEF Commands
  <2> QED BY <2>2 DEF MarkCommand
<1>5. LobbyView \subseteq Commands
  BY <1>2, <1>3 DEF LobbyView, Actions
<1>6. PlayingView \subseteq Commands
  BY <1>1, <1>2, <1>3 DEF PlayingView, Actions
<1>7. VotingView \subseteq Commands
  BY <1>1, <1>2, <1>3 DEF VotingView, Actions
<1>8. ShootoutView \subseteq Commands
  BY <1>2, <1>4 DEF ShootoutView, Actions
<1>9. {Command("continueAfterElimination")} \subseteq Commands
      /\ {Command("playAgain")} \subseteq Commands
  BY <1>2 DEF Actions
<1> QED BY <1>5, <1>6, <1>7, <1>8, <1>9 DEF Offered

\* What is on its way to the actor stays a queue of commands.
LEMMA QueueKeepsCommands ==
  ASSUME TypeOK, Commanded, [QNext]_vars
  PROVE  Commanded'
<1>1. CASE Tap
  BY <1>1, OfferedAreCommands DEF Tap, Commanded
<1>2. CASE Deliver
  <2>1. inflight # <<>> /\ inflight \in Seq(Commands) /\ inflight' = Tail(inflight)
    BY <1>2 DEF Deliver, Commanded
  <2> QED BY <2>1 DEF Commanded
<1>3. CASE Clock \/ Phone \/ UNCHANGED vars
  BY <1>3 DEF Clock, Phone, vars, Commanded
<1> QED BY <1>1, <1>2, <1>3 DEF QNext

\* A delivered command is handled as the engine handles it, or dropped; a phone's
\* vote and bank are those of players.
LEMMA StepIsOfTheGame ==
  ASSUME TypeOK, Commanded, [QNext]_vars
  PROVE  [Next]_gameVars
<1>1. CASE Tap
  BY <1>1 DEF Tap
<1>2. ASSUME ~Panicked, Deliver PROVE [Next]_gameVars
  <2>1. Head(inflight) \in Commands
    BY <1>2 DEF Deliver, Commanded
  <2> QED BY <1>2, <2>1 DEF Deliver, Next
<1>3. ASSUME ~Panicked, Clock PROVE [Next]_gameVars
  BY <1>3 DEF Clock, Next
<1>4. ASSUME ~Panicked, Phone PROVE [Next]_gameVars
  <2>1. roster \subseteq Ids
    BY RosterIsNumbered
  <2> QED BY <1>4, <2>1 DEF Phone, Next
<1>5. CASE UNCHANGED vars
  BY <1>5 DEF vars
<1> QED BY <1>1, <1>2, <1>3, <1>4, <1>5 DEF QNext

\* Whatever is tapped, however far behind its state a screen is, and whatever the
\* phones and the clock do in between, the game goes through steps of the engine
\* alone: all that is proved of Game.tla holds.
THEOREM PlaysByTheRules == QSpec => Spec
<1>1. QInit => Init /\ Commanded
  BY DEF QInit, Commanded
<1>2. IInv /\ Commanded /\ [QNext]_vars => [Next]_gameVars /\ IInv' /\ Commanded'
  BY StepIsOfTheGame, QueueKeepsCommands, Inductive DEF IInv
<1> QED BY <1>1, <1>2, InitIInv, PTL DEF QSpec, Spec

-----------------------------------------------------------------------------
(* The inductive invariant of a quizmaster who waits for the screen.       *)

\* how many have left the game, without subtraction
Gone(n) == Cardinality(roster) = Cardinality(alive) + n

\* Up to the elimination that ends a round, its number tells how many have left.
Toll ==
  /\ phase \in {"playing", "voting"} \/ countdownTarget = "round"
       => Gone(round - 1) /\ Cardinality(alive) >= 3
  /\ phase = "elimination" => Gone(round) /\ Cardinality(alive) >= 2
  /\ phase \in {"shootout", "gameover"} \/ countdownTarget = "shootout"
       => Gone(round) /\ Cardinality(alive) = 2

TargetInCountdown == countdownTarget # "" => phase = "countdown"

TieInVote == tie # {} => phase = "voting" /\ ~revealing

\* There is a shootout from its countdown to the end of the game.
FinalBegun ==
  shootout # NoShootout
    <=> phase \in {"shootout", "gameover"} \/ countdownTarget = "shootout"

RoundsInv ==
  /\ Toll /\ TargetInCountdown /\ TieInVote /\ FinalBegun
  /\ QuestionsInPlay /\ RevealInOrder /\ FinalistsAlive

RoundActions == {"nextQuestion", "endRound", "markCorrect", "markIncorrect",
                 "bankChain", "selectAsked"}

\* The phase has a button for c, or had one until the clock ended the round.
Current(c) ==
  \/ phase = "lobby" /\ c.action \in {"addPlayer", "kickPlayer", "startGame"}
  \/ phase \in {"playing", "voting"} /\ c.action \in RoundActions
  \/ phase = "voting" /\ tie = {} /\ c.action \in {"startVoteReveal", "advanceReveal"}
  \/ phase = "voting" /\ c.action = "manualTieBreak" /\ c.player \in tie
  \/ phase = "elimination" /\ c.action = "continueAfterElimination"
  \/ phase = "shootout" /\ c.action \in {"shootoutMark", "shootoutNextQuestion"}
  \/ phase = "gameover" /\ c.action = "playAgain"

Waiting == inflight = <<>> \/ \E c \in Commands : inflight = <<c>> /\ Current(c)

QInv == IInv /\ RoundsInv /\ Waiting

-----------------------------------------------------------------------------
(* Counting players.                                                       *)

\* There are finitely many players, so those alive can be counted.
LEMMA PlayersAreCounted ==
  ASSUME TypeOK
  PROVE  /\ IsFiniteSet(roster) /\ IsFiniteSet(alive)
         /\ Cardinality(roster) \in Nat /\ Cardinality(alive) \in Nat
         /\ alive \subseteq Nat /\ round \in Nat
<1>1. lastId \in Nat /\ roster \subseteq 1 .. lastId /\ alive \subseteq roster
  BY DEF TypeOK
<1>2. IsFiniteSet(1 .. lastId)
  BY <1>1, FS_Interval
<1>3. IsFiniteSet(roster)
  BY <1>1, <1>2, FS_Subset
<1>4. IsFiniteSet(alive)
  BY <1>1, <1>3, FS_Subset
<1>5. round \in Nat
  BY DEF TypeOK
<1> QED BY <1>1, <1>3, <1>4, <1>5, FS_CardinalityType, RosterIsNumbered

\* Where players are counted there is one, and the first and the last are two of
\* them if there are two.
LEMMA FirstAndLast ==
  ASSUME TypeOK, Cardinality(alive) >= 2
  PROVE  /\ Min(alive) \in alive
         /\ Cardinality(alive) = 2 => {Min(alive), Max(alive)} = alive
<1>1. lastId \in Nat /\ alive \subseteq 1 .. lastId
  BY DEF TypeOK
<1>2. IsFiniteSet(alive) /\ alive \subseteq Nat /\ Cardinality(alive) \in Nat
  BY PlayersAreCounted
<1>3. alive # {}
  BY <1>2, FS_EmptySet
<1>4. /\ Min(alive) \in alive /\ \A p \in alive : Min(alive) <= p
      /\ Max(alive) \in alive /\ \A p \in alive : Max(alive) >= p
  BY <1>1, <1>2, <1>3, MinOfNaturals, MaxOfNaturals
<1>5. ASSUME Cardinality(alive) = 2 PROVE {Min(alive), Max(alive)} = alive
  <2> DEFINE low == Min(alive)  high == Max(alive)
  <2>1. /\ low \in alive /\ \A p \in alive : low <= p
        /\ high \in alive /\ \A p \in alive : high >= p
    BY <1>4
  <2> HIDE DEF low, high
  <2>2. low # high
    <3>1. ASSUME low = high PROVE alive = {low}
      <4>1. \A p \in alive : p \in Nat /\ low <= p /\ p <= low
        BY <1>2, <2>1, <3>1
      <4>2. \A p \in alive : p = low
        BY <4>1, <1>2, <2>1
      <4> QED BY <2>1, <4>2
    <3>2. Cardinality({low}) = 1
      BY FS_Singleton
    <3> QED BY <3>1, <3>2, <1>5
  <2>3. IsFiniteSet({low, high}) /\ Cardinality({low, high}) = 2
    <3>1. IsFiniteSet({low}) /\ Cardinality({low}) = 1
      BY FS_Singleton
    <3>2. {low, high} = {low} \cup {high} /\ high \notin {low}
      BY <2>2
    <3> QED BY <3>1, <3>2, FS_AddElement
  <2>4. {low, high} = alive
    BY <1>2, <1>5, <2>1, <2>3, FS_Subset
  <2> QED BY <2>4 DEF low, high
<1> QED BY <1>4, <1>5

\* One player fewer is alive after an elimination.
LEMMA OneFewer ==
  ASSUME TypeOK, NEW p \in alive
  PROVE  Cardinality(alive \ {p}) = Cardinality(alive) - 1
BY PlayersAreCounted, FS_RemoveElement

-----------------------------------------------------------------------------
(* The steps, from the phases in which a waiting quizmaster's command can  *)
(* arrive.                                                                 *)

\* A room nobody is in yet.
LEMMA StartsWithNobody == QInit => RoundsInv /\ Waiting
<1> SUFFICES ASSUME QInit PROVE RoundsInv /\ Waiting
  OBVIOUS
<1>1. /\ phase = "lobby" /\ countdownTarget = "" /\ tie = {} /\ ~revealing /\ ~question
      /\ shootout = NoShootout /\ inflight = <<>>
  BY DEF QInit, Init
<1>2. NoShootout.winner = NoPlayer /\ ~NoShootout.question
  BY DEF NoShootout
<1> QED BY <1>1, <1>2 DEF RoundsInv, Toll, TargetInCountdown, TieInVote, FinalBegun,
           QuestionsInPlay, RevealInOrder, FinalistsAlive, Waiting

quietVars == <<phase, round, roster, alive, countdownTarget, tie, revealVars, shootout>>

\* A step that moves nobody and no phase only matters to whom and what is asked.
LEMMA QuietSteps ==
  ASSUME RoundsInv, UNCHANGED quietVars, QuestionsInPlay'
  PROVE  RoundsInv'
BY DEF RoundsInv, quietVars, revealVars, Toll, Gone, TargetInCountdown, TieInVote, FinalBegun,
   RevealInOrder, FinalistsAlive

\* While a round is played somebody is asked who is in it.
LEMMA PlayingKeeps ==
  ASSUME IInv, RoundsInv,
         \/ DoNextQuestion \/ DoMarkCorrect \/ DoMarkIncorrect \/ DoBankChain
         \/ \E p \in Ids \cup {NoPlayer} : DoSelectAsked(p)
  PROVE  RoundsInv' /\ UNCHANGED <<phase, tie>>
<1>1. CASE DoMarkCorrect \/ DoMarkIncorrect
  <2>1. /\ question /\ question' = TRUE /\ askedId' = NextAsked
        /\ UNCHANGED <<phase, countdownTarget, tie, shootout, quietVars>>
    BY <1>1 DEF DoMarkCorrect, DoMarkIncorrect, MarkAnswer, CanMarkAnswer, peopleVars,
       clockVars, revealVars, quietVars
  <2>2. phase = "playing" /\ Cardinality(alive) >= 3
    BY <2>1 DEF RoundsInv, QuestionsInPlay, Toll
  <2>3. NextAsked \in alive
    <3> DEFINE later == {p \in alive : p > askedId}
    <3>1. TypeOK /\ Cardinality(alive) >= 2 /\ alive \subseteq Nat
      <4>1. Cardinality(alive) \in Nat /\ alive \subseteq Nat
        BY PlayersAreCounted DEF IInv
      <4> QED BY <2>2, <4>1 DEF IInv
    <3>2. Min(alive) \in alive
      BY <3>1, FirstAndLast
    <3>3. later # {} => Min(later) \in later
      <4>1. later \subseteq Nat
        BY <3>1
      <4> HIDE DEF later
      <4> QED BY <4>1, MinOfNaturals
    <3> QED BY <3>2, <3>3 DEF NextAsked
  <2>4. QuestionsInPlay'
    BY <2>1, <2>2, <2>3 DEF RoundsInv, QuestionsInPlay, quietVars
  <2> QED BY <2>1, <2>4, QuietSteps
<1>2. CASE DoNextQuestion
  <2>1. QuestionsInPlay' /\ UNCHANGED quietVars
    BY <1>2 DEF DoNextQuestion, CanNextQuestion, RoundsInv, QuestionsInPlay, quietVars,
       peopleVars, clockVars, revealVars
  <2> QED BY <2>1, QuietSteps DEF quietVars
<1>3. CASE DoBankChain
  <2>1. QuestionsInPlay' /\ UNCHANGED quietVars
    BY <1>3 DEF DoBankChain, RoundsInv, QuestionsInPlay, quietVars,
       peopleVars, clockVars, revealVars, askVars
  <2> QED BY <2>1, QuietSteps DEF quietVars
<1>4. ASSUME NEW p, DoSelectAsked(p)
      PROVE RoundsInv' /\ UNCHANGED <<phase, tie>>
  <2>1. QuestionsInPlay' /\ UNCHANGED quietVars
    BY <1>4 DEF DoSelectAsked, CanSelectAsked, RoundsInv, QuestionsInPlay, quietVars,
       peopleVars, clockVars, revealVars
  <2> QED BY <2>1, QuietSteps DEF quietVars
<1> QED BY <1>1, <1>2, <1>3, <1>4

\* A vote, and time, move nobody.
LEMMA VotesAndTimeKeep ==
  ASSUME RoundsInv,
         TimePasses \/ \E voter, target : SubmitVote(voter, target)
  PROVE  RoundsInv' /\ UNCHANGED <<phase, tie>>
<1>1. QuestionsInPlay' /\ UNCHANGED quietVars
  <2>1. CASE TimePasses
    BY <2>1 DEF TimePasses, RoundsInv, QuestionsInPlay, quietVars, peopleVars, askVars
  <2>2. ASSUME NEW voter, NEW target, SubmitVote(voter, target)
        PROVE QuestionsInPlay' /\ UNCHANGED quietVars
    BY <2>2 DEF SubmitVote, RoundsInv, QuestionsInPlay, quietVars, peopleVars, askVars,
       clockVars
  <2> QED BY <2>1, <2>2
<1> QED BY <1>1, QuietSteps DEF quietVars

\* A game starts with everybody alive, and the first player asked.
LEMMA StartGameKeeps ==
  ASSUME IInv, RoundsInv, phase = "lobby", DoStartGame
  PROVE  RoundsInv'
<1>1. alive = roster /\ shootout = NoShootout /\ tie = {} /\ ~revealing
  BY DEF IInv, LobbyIsFresh
<1>2. TypeOK /\ Cardinality(alive) \in Nat /\ Cardinality(alive) >= 3
  BY <1>1, PlayersAreCounted DEF IInv, DoStartGame, CanStartGame, MinPlayers
<1>3. Min(roster) \in alive
  <2>1. Cardinality(alive) >= 2
    BY <1>2
  <2> QED BY <1>1, <1>2, <2>1, FirstAndLast
<1>4. /\ phase' = "countdown" /\ countdownTarget' = "round" /\ round' = 1
      /\ askedId' = Min(roster) /\ question' = FALSE
      /\ UNCHANGED <<roster, alive, tie, revealVars, shootout>>
  BY DEF DoStartGame, BeginCountdown, ClearRound, peopleVars
<1>5. Toll'
  <2>1. Cardinality(roster') = Cardinality(alive') + (round' - 1)
    BY <1>1, <1>2, <1>4
  <2>2. Cardinality(alive') >= 3
    BY <1>2, <1>4
  <2> QED BY <1>4, <2>1, <2>2 DEF Toll, Gone
<1>6. TargetInCountdown' /\ TieInVote' /\ FinalBegun' /\ RevealInOrder'
  BY <1>1, <1>4 DEF TargetInCountdown, TieInVote, FinalBegun, RevealInOrder, revealVars
<1>7. QuestionsInPlay' /\ FinalistsAlive'
  BY <1>1, <1>3, <1>4 DEF RoundsInv, QuestionsInPlay, FinalistsAlive
<1> QED BY <1>5, <1>6, <1>7 DEF RoundsInv

\* A countdown leads to the round or the shootout it was begun for.
LEMMA CountdownKeeps ==
  ASSUME IInv, RoundsInv, phase = "countdown", FinishCountdown
  PROVE  RoundsInv'
<1>1. /\ countdownTarget' = "" /\ tie = {} /\ ~revealing
      /\ UNCHANGED <<round, roster, alive, askedId, tie, revealVars>>
  BY DEF FinishCountdown, peopleVars, RoundsInv, TieInVote, RevealInOrder
<1>2. CASE countdownTarget = "shootout"
  <2>1. /\ phase' = "shootout" /\ shootout' = Asked(shootout) /\ question' = question
    BY <1>2 DEF FinishCountdown
  <2>2. shootout # NoShootout /\ Begun(shootout, roster)
    BY <1>2 DEF IInv, ClockArmed, TwoFinalists
  <2>3. Begun(shootout', roster) /\ shootout' # NoShootout
    BY <2>1, <2>2, AskedBegun, BegunIsNotNil
  <2>4. shootout'.order = shootout.order /\ shootout'.winner = shootout.winner
    BY <2>1, <2>2 DEF Asked, Begun, Shootouts
  <2>5. Toll'
    BY <1>1, <1>2, <2>1 DEF RoundsInv, Toll, Gone
  <2>6. TargetInCountdown' /\ TieInVote' /\ FinalBegun' /\ RevealInOrder'
    BY <1>1, <2>1, <2>3 DEF TargetInCountdown, TieInVote, FinalBegun, RevealInOrder,
       revealVars
  <2>7. QuestionsInPlay' /\ FinalistsAlive'
    BY <1>1, <2>1, <2>2, <2>4 DEF RoundsInv, QuestionsInPlay, FinalistsAlive
  <2> QED BY <2>5, <2>6, <2>7 DEF RoundsInv
<1>3. CASE countdownTarget = "round"
  <2>1. phase' = "playing" /\ shootout' = shootout
    BY <1>3 DEF FinishCountdown
  <2>2. shootout = NoShootout
    BY <1>3 DEF RoundsInv, FinalBegun
  <2>3. Toll'
    BY <1>1, <1>3, <2>1 DEF RoundsInv, Toll, Gone
  <2>4. TargetInCountdown' /\ TieInVote' /\ FinalBegun' /\ RevealInOrder'
    BY <1>1, <2>1, <2>2 DEF TargetInCountdown, TieInVote, FinalBegun, RevealInOrder,
       revealVars
  <2>5. QuestionsInPlay' /\ FinalistsAlive'
    BY <1>1, <1>3, <2>1, <2>2 DEF RoundsInv, QuestionsInPlay, FinalistsAlive
  <2> QED BY <2>3, <2>4, <2>5 DEF RoundsInv
<1> QED BY <1>2, <1>3 DEF IInv, ClockArmed, TypeOK

\* The end of a round begins a vote without a tie or a reveal.
LEMMA EndRoundKeeps ==
  ASSUME IInv, RoundsInv, DoEndRound
  PROVE  RoundsInv' /\ phase = "playing" /\ phase' = "voting" /\ tie' = {}
<1>1. /\ phase = "playing" /\ phase' = "voting" /\ question' = FALSE /\ revealing' = FALSE
      /\ UNCHANGED <<round, roster, alive, askedId, countdownTarget, tie, shootout>>
  BY DEF DoEndRound, CanEndRound, peopleVars
<1>2. tie = {} /\ countdownTarget = "" /\ shootout = NoShootout
  BY <1>1 DEF RoundsInv, TieInVote, TargetInCountdown, FinalBegun
<1>3. Toll'
  BY <1>1, <1>2 DEF RoundsInv, Toll, Gone
<1>4. TargetInCountdown' /\ TieInVote' /\ FinalBegun' /\ RevealInOrder'
  BY <1>1, <1>2 DEF TargetInCountdown, TieInVote, FinalBegun, RevealInOrder
<1>5. QuestionsInPlay' /\ FinalistsAlive'
  BY <1>1, <1>2 DEF RoundsInv, QuestionsInPlay, FinalistsAlive
<1> QED BY <1>1, <1>2, <1>3, <1>4, <1>5 DEF RoundsInv

\* A reveal starts with all the players alive still to show.
LEMMA StartRevealKeeps ==
  ASSUME IInv, RoundsInv, phase = "voting", tie = {}, DoStartVoteReveal
  PROVE  RoundsInv'
<1>1. /\ revealing' = TRUE /\ revealOrder' = alive /\ revealIndex' = 0
      /\ UNCHANGED <<phase, round, roster, alive, askedId, question, countdownTarget,
                     tie, shootout>>
  BY DEF DoStartVoteReveal, peopleVars, askVars, clockVars
<1>2. 0 < Cardinality(alive)
  <2>1. Cardinality(alive) \in Nat /\ Cardinality(alive) >= 3
    BY PlayersAreCounted DEF IInv, RoundsInv, Toll
  <2> QED BY <2>1
<1>3. Toll'
  BY <1>1 DEF RoundsInv, Toll, Gone
<1>4. TargetInCountdown' /\ TieInVote' /\ FinalBegun' /\ RevealInOrder'
  BY <1>1, <1>2 DEF RoundsInv, TargetInCountdown, TieInVote, FinalBegun, RevealInOrder
<1>5. QuestionsInPlay' /\ FinalistsAlive'
  BY <1>1 DEF RoundsInv, QuestionsInPlay, FinalistsAlive
<1> QED BY <1>3, <1>4, <1>5 DEF RoundsInv

\* An elimination takes one player out of a vote and leaves two at least.
LEMMA EliminationKeeps ==
  ASSUME IInv, RoundsInv, phase = "voting", NEW p \in alive, FinalizeElimination(p),
         ~revealing',
         UNCHANGED <<round, roster, askedId, question, countdownTarget, shootout>>
  PROVE  RoundsInv'
<1>1. /\ phase' = "elimination" /\ alive' = alive \ {p} /\ tie' = {}
  BY DEF FinalizeElimination
<1>2. countdownTarget = "" /\ shootout = NoShootout /\ ~question /\ ~shootout.question
      /\ shootout.winner = NoPlayer
  BY DEF RoundsInv, TargetInCountdown, FinalBegun, QuestionsInPlay, FinalistsAlive
<1>3. Toll'
  <2>1. /\ Cardinality(roster) \in Nat /\ Cardinality(alive) \in Nat /\ round \in Nat
        /\ Cardinality(roster) = Cardinality(alive) + (round - 1)
        /\ Cardinality(alive) >= 3
    BY PlayersAreCounted DEF IInv, RoundsInv, Toll, Gone
  <2>2. Cardinality(alive') = Cardinality(alive) - 1
    BY <1>1, OneFewer DEF IInv
  <2>3. Cardinality(roster') = Cardinality(alive') + round' /\ Cardinality(alive') >= 2
    BY <2>1, <2>2
  <2> QED BY <1>1, <1>2, <2>3 DEF Toll, Gone
<1>4. TargetInCountdown' /\ TieInVote' /\ FinalBegun' /\ RevealInOrder'
  BY <1>1, <1>2 DEF TargetInCountdown, TieInVote, FinalBegun, RevealInOrder
<1>5. QuestionsInPlay' /\ FinalistsAlive'
  BY <1>1, <1>2 DEF QuestionsInPlay, FinalistsAlive
<1> QED BY <1>3, <1>4, <1>5 DEF RoundsInv

\* A reveal goes on to the next player alive, or ends in an elimination or a tie.
LEMMA AdvanceRevealKeeps ==
  ASSUME IInv, RoundsInv, DoAdvanceReveal
  PROVE  RoundsInv'
<1>1. /\ revealing /\ revealIndex' = revealIndex + 1 /\ revealOrder' = revealOrder
      /\ UNCHANGED <<round, roster, askedId, question, countdownTarget, shootout>>
  BY DEF DoAdvanceReveal, CanAdvanceReveal, peopleVars, askVars
<1>2. phase = "voting" /\ tie = {} /\ revealOrder = alive
  BY <1>1 DEF RoundsInv, RevealInOrder
<1>3. CASE LastReveal
  <2>1. ~revealing' /\ ResolveVotes
    BY <1>3 DEF DoAdvanceReveal
  <2>2. ASSUME NEW p \in alive, FinalizeElimination(p) PROVE RoundsInv'
    BY <1>1, <1>2, <2>1, <2>2, EliminationKeeps
  <2>3. ASSUME UNCHANGED <<phase, alive>> PROVE RoundsInv'
    <3>1. Toll'
      BY <1>1, <2>3 DEF RoundsInv, Toll, Gone
    <3>2. TargetInCountdown' /\ TieInVote' /\ FinalBegun' /\ RevealInOrder'
      BY <1>1, <1>2, <2>1, <2>3
         DEF RoundsInv, TargetInCountdown, TieInVote, FinalBegun, RevealInOrder
    <3>3. QuestionsInPlay' /\ FinalistsAlive'
      BY <1>1, <2>3 DEF RoundsInv, QuestionsInPlay, FinalistsAlive
    <3> QED BY <3>1, <3>2, <3>3 DEF RoundsInv
  <2> QED BY <2>1, <2>2, <2>3 DEF ResolveVotes
<1>4. CASE ~LastReveal
  <2>1. UNCHANGED <<revealing, phase, alive, tie>>
    BY <1>4 DEF DoAdvanceReveal
  <2>2. revealIndex' < Cardinality(revealOrder')
    <3>1. revealIndex \in Nat /\ Cardinality(alive) \in Nat
      BY PlayersAreCounted DEF IInv, TypeOK
    <3> QED BY <1>1, <1>2, <1>4, <3>1 DEF LastReveal
  <2>3. Toll'
    BY <1>1, <2>1 DEF RoundsInv, Toll, Gone
  <2>4. TargetInCountdown' /\ TieInVote' /\ FinalBegun' /\ RevealInOrder'
    BY <1>1, <1>2, <2>1, <2>2
       DEF RoundsInv, TargetInCountdown, TieInVote, FinalBegun, RevealInOrder
  <2>5. QuestionsInPlay' /\ FinalistsAlive'
    BY <1>1, <2>1 DEF RoundsInv, QuestionsInPlay, FinalistsAlive
  <2> QED BY <2>3, <2>4, <2>5 DEF RoundsInv
<1> QED BY <1>3, <1>4

\* Breaking a tie takes out one of those tied, who are alive.
LEMMA TieBreakKeeps ==
  ASSUME IInv, RoundsInv, phase = "voting", NEW p \in tie, DoManualTieBreak(p)
  PROVE  RoundsInv'
<1>1. p \in alive /\ ~revealing
  BY DEF IInv, TypeOK, RoundsInv, TieInVote
<1>2. /\ FinalizeElimination(p) /\ ~revealing'
      /\ UNCHANGED <<round, roster, askedId, question, countdownTarget, shootout>>
  BY <1>1 DEF DoManualTieBreak, peopleVars, askVars, revealVars
<1> QED BY <1>1, <1>2, EliminationKeeps

\* An elimination is followed by a round of three or more, or the final of two.
LEMMA ContinueKeeps ==
  ASSUME IInv, RoundsInv, phase = "elimination", DoContinueAfterElimination
  PROVE  RoundsInv'
<1>1. /\ phase' = "countdown" /\ UNCHANGED <<roster, alive, tie, revealVars>>
  BY DEF DoContinueAfterElimination, BeginCountdown, peopleVars
<1>2. /\ Cardinality(roster) \in Nat /\ Cardinality(alive) \in Nat /\ round \in Nat
      /\ Cardinality(roster) = Cardinality(alive) + round /\ Cardinality(alive) >= 2
  BY PlayersAreCounted DEF IInv, RoundsInv, Toll, Gone
<1>3. /\ tie = {} /\ ~revealing /\ ~question
      /\ shootout = NoShootout
  BY DEF RoundsInv, TieInVote, RevealInOrder, QuestionsInPlay, FinalBegun, TargetInCountdown
<1>4. /\ Min(alive) \in alive
      /\ Cardinality(alive) = 2 => {Min(alive), Max(alive)} = alive
  BY <1>2, FirstAndLast DEF IInv
<1>5. CASE FinalTwo
  <2> DEFINE sh == ShootoutOf(Min(alive), Max(alive))
  <2>1. /\ countdownTarget' = "shootout" /\ shootout' = sh
        /\ UNCHANGED <<round, askedId, question>>
    BY <1>5 DEF DoContinueAfterElimination, BeginCountdown, askVars
  <2>2. /\ sh # NoShootout /\ sh.winner = NoPlayer /\ ~sh.question
        /\ sh.order[1] = Min(alive) /\ sh.order[2] = Max(alive)
    <3>1. sh.order = <<Min(alive), Max(alive)>> /\ sh.winner = NoPlayer /\ sh.question = FALSE
      BY DEF ShootoutOf
    <3>2. NoShootout.order = <<>>
      BY DEF NoShootout
    <3> DEFINE low == Min(alive)  high == Max(alive)
    <3>3. sh.order = <<low, high>>
      BY <3>1
    <3> HIDE DEF sh, low, high
    <3>4. sh.order # <<>> /\ sh.order[1] = low /\ sh.order[2] = high
      BY <3>3
    <3> QED BY <3>1, <3>2, <3>4 DEF low, high
  <2> HIDE DEF sh
  <2>3. Toll'
    BY <1>1, <1>2, <1>5, <2>1 DEF Toll, Gone, FinalTwo
  <2>4. TargetInCountdown' /\ TieInVote' /\ FinalBegun' /\ RevealInOrder'
    BY <1>1, <1>3, <2>1, <2>2
       DEF TargetInCountdown, TieInVote, FinalBegun, RevealInOrder, revealVars
  <2>5. QuestionsInPlay' /\ FinalistsAlive'
    BY <1>1, <1>3, <1>4, <1>5, <2>1, <2>2 DEF QuestionsInPlay, FinalistsAlive, FinalTwo
  <2> QED BY <2>3, <2>4, <2>5 DEF RoundsInv
<1>6. CASE ~FinalTwo
  <2>1. /\ countdownTarget' = "round" /\ shootout' = shootout
        /\ round' = round + 1 /\ askedId' = Min(alive) /\ question' = FALSE
    BY <1>4, <1>6 DEF DoContinueAfterElimination, BeginCountdown, ClearRound
  <2>2. Toll'
    <3>1. Cardinality(roster') = Cardinality(alive') + (round' - 1)
          /\ Cardinality(alive') >= 3
      BY <1>1, <1>2, <1>6, <2>1 DEF FinalTwo
    <3> QED BY <1>1, <2>1, <3>1 DEF Toll, Gone
  <2>3. TargetInCountdown' /\ TieInVote' /\ FinalBegun' /\ RevealInOrder'
    BY <1>1, <1>3, <2>1
       DEF TargetInCountdown, TieInVote, FinalBegun, RevealInOrder, revealVars
  <2>4. QuestionsInPlay' /\ FinalistsAlive'
    BY <1>1, <1>3, <1>4, <2>1 DEF RoundsInv, QuestionsInPlay, FinalistsAlive
  <2> QED BY <2>2, <2>3, <2>4 DEF RoundsInv
<1> QED BY <1>5, <1>6

\* The finalists stay the two alive, and the game is over once one of them has won.
LEMMA ShootoutKeeps ==
  ASSUME IInv, RoundsInv, phase = "shootout",
         DoShootoutNextQuestion \/ \E result \in Results : DoShootoutMark(result)
  PROVE  /\ RoundsInv'
         /\ UNCHANGED <<roster, alive>>
         /\ \/ phase' = "shootout" /\ shootout'.winner = NoPlayer
            \/ phase' = "gameover" /\ shootout'.winner \in alive
<1>1. /\ shootout # NoShootout /\ Begun(shootout, roster) /\ shootout.winner = NoPlayer
      /\ {shootout.order[1], shootout.order[2]} = alive
      /\ tie = {} /\ ~revealing /\ ~question /\ countdownTarget = ""
  BY DEF IInv, TwoFinalists, RoundsInv, FinalBegun, FinalistsAlive, TieInVote,
     RevealInOrder, QuestionsInPlay, TargetInCountdown
<1>2. UNCHANGED <<round, roster, alive, question, countdownTarget, tie, revealing>>
  BY DEF DoShootoutNextQuestion, DoShootoutMark, peopleVars, askVars, clockVars, revealVars
<1>3. /\ Begun(shootout', roster) /\ shootout'.order = shootout.order
      /\ \/ phase' = "shootout" /\ shootout'.winner = NoPlayer
         \/ /\ phase' = "gameover" /\ shootout'.winner \in alive
            /\ shootout'.winner # NoPlayer /\ ~shootout'.question
  <2>1. CASE DoShootoutNextQuestion
    <3>1. shootout' = Asked(shootout) /\ phase' = phase
      BY <2>1 DEF DoShootoutNextQuestion
    <3>2. PICK result \in Results : TRUE
      BY DEF Results
    <3>3. shootout'.winner = shootout.winner
      BY <1>1, <3>1 DEF Asked, Begun, Shootouts
    <3> QED BY <1>1, <3>1, <3>2, <3>3, AskedBegun, SameOrder
  <2>2. ASSUME NEW result \in Results, DoShootoutMark(result)
        PROVE  /\ Begun(shootout', roster) /\ shootout'.order = shootout.order
               /\ \/ phase' = "shootout" /\ shootout'.winner = NoPlayer
                  \/ /\ phase' = "gameover" /\ shootout'.winner \in alive
                     /\ shootout'.winner # NoPlayer /\ ~shootout'.question
    <3>1. /\ shootout' = Marked(shootout, result)
          /\ phase' = IF shootout'.winner = NoPlayer THEN "shootout" ELSE "gameover"
      BY <2>2 DEF DoShootoutMark
    <3>2. Begun(shootout', roster) /\ shootout'.order = shootout.order
      BY <1>1, <3>1, MarkedBegun, SameOrder
    <3>3. \/ shootout'.winner = NoPlayer
          \/ shootout'.winner \in alive /\ ~shootout'.question
      BY <1>1, <3>1, MarkedOutcome
    <3> QED BY <3>1, <3>2, <3>3
  <2> QED BY <2>1, <2>2
<1>4. shootout' # NoShootout
  BY <1>3, BegunIsNotNil
<1>5. Toll'
  BY <1>1, <1>2, <1>3 DEF RoundsInv, Toll, Gone
<1>6. TargetInCountdown' /\ TieInVote' /\ FinalBegun' /\ RevealInOrder'
  BY <1>1, <1>2, <1>3, <1>4
     DEF TargetInCountdown, TieInVote, FinalBegun, RevealInOrder
<1>7. QuestionsInPlay' /\ FinalistsAlive'
  BY <1>1, <1>2, <1>3 DEF RoundsInv, QuestionsInPlay, FinalistsAlive
<1> QED BY <1>2, <1>3, <1>5, <1>6, <1>7 DEF RoundsInv

\* A new game starts from an empty lobby.
LEMMA PlayAgainKeeps ==
  ASSUME DoPlayAgain
  PROVE  RoundsInv'
<1>1. /\ phase' = "lobby" /\ countdownTarget' = "" /\ tie' = {} /\ ~revealing'
      /\ ~question' /\ shootout' = NoShootout
  BY DEF DoPlayAgain
<1>2. NoShootout.winner = NoPlayer /\ ~NoShootout.question
  BY DEF NoShootout
<1> QED BY <1>1, <1>2 DEF RoundsInv, Toll, TargetInCountdown, TieInVote, FinalBegun,
           QuestionsInPlay, RevealInOrder, FinalistsAlive

\* Players come and go in a lobby where nothing of a game is left.
LEMMA LobbyKeeps ==
  ASSUME IInv, RoundsInv, phase = "lobby", DoAddPlayer \/ \E p : DoKickPlayer(p)
  PROVE  RoundsInv'
<1>1. /\ tie = {} /\ ~revealing /\ ~question /\ shootout = NoShootout /\ countdownTarget = ""
  BY DEF IInv, LobbyIsFresh, RoundsInv, TargetInCountdown
<1>2. UNCHANGED <<phase, tie, revealing, question, shootout, countdownTarget>>
  BY DEF DoAddPlayer, DoKickPlayer, askVars, clockVars, revealVars
<1>3. NoShootout.winner = NoPlayer /\ ~NoShootout.question
  BY DEF NoShootout
<1> QED BY <1>1, <1>2, <1>3 DEF RoundsInv, Toll, TargetInCountdown, TieInVote, FinalBegun,
           QuestionsInPlay, RevealInOrder, FinalistsAlive

\* A command that has a button in its phase, or had until the clock ended the round.
LEMMA HandleKeeps ==
  ASSUME IInv, RoundsInv, NEW c \in Commands, Current(c), Handle(c)
  PROVE  RoundsInv'
<1>1. CASE c.action \in {"addPlayer", "kickPlayer", "startGame"}
  <2>1. phase = "lobby"
    BY <1>1 DEF Current, RoundActions
  <2>2. DoAddPlayer \/ DoKickPlayer(c.player) \/ DoStartGame
    BY <1>1 DEF Handle
  <2> QED BY <2>1, <2>2, LobbyKeeps, StartGameKeeps
<1>2. CASE c.action \in RoundActions
  <2>1. \/ DoNextQuestion \/ DoMarkCorrect \/ DoMarkIncorrect \/ DoBankChain
        \/ DoSelectAsked(c.player) \/ DoEndRound
    BY <1>2 DEF Handle, RoundActions
  <2>2. c.player \in Ids \cup {NoPlayer}
    BY DEF Commands
  <2> QED BY <2>1, <2>2, PlayingKeeps, EndRoundKeeps
<1>3. CASE c.action \in {"startVoteReveal", "advanceReveal"}
  <2>1. phase = "voting" /\ tie = {}
    BY <1>3 DEF Current, RoundActions
  <2>2. DoStartVoteReveal \/ DoAdvanceReveal
    BY <1>3 DEF Handle
  <2> QED BY <2>1, <2>2, StartRevealKeeps, AdvanceRevealKeeps
<1>4. CASE c.action = "manualTieBreak"
  <2>1. phase = "voting" /\ c.player \in tie
    BY <1>4 DEF Current, RoundActions
  <2>2. DoManualTieBreak(c.player)
    BY <1>4 DEF Handle
  <2> QED BY <2>1, <2>2, TieBreakKeeps
<1>5. CASE c.action = "continueAfterElimination"
  <2>1. phase = "elimination"
    BY <1>5 DEF Current, RoundActions
  <2>2. DoContinueAfterElimination
    BY <1>5 DEF Handle
  <2> QED BY <2>1, <2>2, ContinueKeeps
<1>6. CASE c.action \in {"shootoutMark", "shootoutNextQuestion"}
  <2>1. phase = "shootout"
    BY <1>6 DEF Current, RoundActions
  <2>2. DoShootoutNextQuestion \/ DoShootoutMark(Scored(c.result))
    BY <1>6 DEF Handle
  <2>3. Scored(c.result) \in Results
    BY DEF Scored, Results
  <2> QED BY <2>1, <2>2, <2>3, ShootoutKeeps
<1>7. CASE c.action = "playAgain"
  BY <1>7, PlayAgainKeeps DEF Handle
<1> QED BY <1>1, <1>2, <1>3, <1>4, <1>5, <1>6, <1>7 DEF Current

\* While a command is on its way the clock and the phones can only end its round.
LEMMA ClockAndPhonesKeep ==
  ASSUME IInv, RoundsInv, Waiting, Clock \/ Phone
  PROVE  RoundsInv' /\ Waiting'
<1>1. inflight' = inflight
  BY DEF Clock, Phone
<1>2. ASSUME \/ UNCHANGED <<phase, tie>>
             \/ phase = "countdown"
             \/ phase = "playing" /\ phase' = "voting"
      PROVE  Waiting'
  <2>1. \A c \in Commands : inflight = <<c>> /\ Current(c) => Current(c)'
    BY <1>2 DEF Current
  <2> QED BY <1>1, <2>1 DEF Waiting
<1>5. CASE Clock
  <2>1. CASE phase = "countdown" /\ FinishCountdown
    BY <2>1, <1>2, CountdownKeeps
  <2>2. CASE DoEndRound
    BY <2>2, <1>2, EndRoundKeeps
  <2>3. CASE TimePasses
    BY <2>3, <1>2, VotesAndTimeKeep
  <2> QED BY <1>5, <2>1, <2>2, <2>3 DEF Clock, Tick
<1>6. CASE Phone
  <2>1. (\E voter, target : SubmitVote(voter, target)) \/ DoBankChain
    BY <1>6 DEF Phone, CallBank
  <2> QED BY <2>1, <1>2, VotesAndTimeKeep, PlayingKeeps
<1> QED BY <1>5, <1>6

\* The buttons of a screen that is not behind.
LEMMA OfferedAreCurrent ==
  ASSUME NEW c \in Offered
  PROVE  Current(c)
<1> USE DEF Current, RoundActions
<1>1. \A a, p, result :
        /\ Command(a).action = a
        /\ CommandOn(a, p).action = a /\ CommandOn(a, p).player = p
        /\ MarkCommand(result).action = "shootoutMark"
  BY DEF Command, CommandOn, MarkCommand
<1>2. CASE phase = "lobby"
  BY <1>1, <1>2 DEF Offered, LobbyView
<1>3. CASE phase = "playing"
  BY <1>1, <1>3 DEF Offered, PlayingView
<1>4. CASE phase = "voting"
  BY <1>1, <1>4 DEF Offered, VotingView
<1>5. CASE phase = "elimination"
  BY <1>1, <1>5 DEF Offered
<1>6. CASE phase = "shootout"
  BY <1>1, <1>6 DEF Offered, ShootoutView
<1>7. CASE phase = "gameover"
  BY <1>1, <1>7 DEF Offered
<1> QED BY <1>2, <1>3, <1>4, <1>5, <1>6, <1>7 DEF Offered

\* A quizmaster who waits for the screen keeps the round's accounts, whatever the
\* clock and the phones do while a command is on its way.
THEOREM OneAtATime ==
  ASSUME MaxInFlight = 1
  PROVE  QInv /\ [QNext]_vars => QInv'
<1> SUFFICES ASSUME QInv, [QNext]_vars PROVE QInv'
  OBVIOUS
<1> USE DEF QInv
<1>1. Commanded
  <2>1. <<>> \in Seq(Commands) /\ \A c \in Commands : <<c>> \in Seq(Commands)
    OBVIOUS
  <2>2. \A c \in Commands : inflight = <<c>> => inflight \in Seq(Commands)
    BY <2>1
  <2> QED BY <2>1, <2>2 DEF Waiting, Commanded
<1>2. IInv'
  BY <1>1, StepIsOfTheGame, Inductive DEF IInv
<1>3. CASE Tap
  <2>1. inflight = <<>>
    <3>1. ASSUME NEW c, inflight = <<c>> PROVE FALSE
      BY <1>3, <3>1 DEF Tap
    <3> QED BY <3>1 DEF Waiting
  <2>2. PICK c \in Offered : inflight' = <<c>>
    BY <1>3, <2>1 DEF Tap
  <2>3. c \in Commands /\ Current(c)
    BY OfferedAreCommands, OfferedAreCurrent DEF IInv
  <2>4. UNCHANGED gameVars
    BY <1>3 DEF Tap
  <2>5. RoundsInv' /\ Waiting'
    <3>1. UNCHANGED quietVars /\ QuestionsInPlay' /\ Current(c)'
      BY <2>3, <2>4 DEF gameVars, quietVars, revealVars, RoundsInv, QuestionsInPlay, Current
    <3> QED BY <2>2, <2>3, <3>1, QuietSteps DEF Waiting
  <2> QED BY <1>2, <2>5
<1>4. CASE Deliver
  <2>1. PICK c \in Commands : inflight = <<c>> /\ Current(c)
    BY <1>4 DEF Deliver, Waiting
  <2>2. inflight' = <<>> /\ (Handle(c) \/ UNCHANGED gameVars)
    BY <1>4, <2>1 DEF Deliver
  <2>3. ASSUME UNCHANGED gameVars PROVE RoundsInv'
    <3>1. UNCHANGED quietVars /\ QuestionsInPlay'
      BY <2>3 DEF gameVars, quietVars, revealVars, RoundsInv, QuestionsInPlay
    <3> QED BY <3>1, QuietSteps
  <2> QED BY <1>2, <2>1, <2>2, <2>3, HandleKeeps DEF Waiting
<1>5. CASE Clock \/ Phone
  BY <1>2, <1>5, ClockAndPhonesKeep
<1>6. CASE UNCHANGED vars
  <2>1. UNCHANGED <<quietVars, inflight>> /\ QuestionsInPlay'
    BY <1>6 DEF vars, gameVars, quietVars, revealVars, RoundsInv, QuestionsInPlay
  <2>2. Waiting'
    BY <2>1 DEF Waiting, Current, quietVars
  <2> QED BY <1>2, <2>1, <2>2, QuietSteps
<1> QED BY <1>3, <1>4, <1>5, <1>6 DEF QNext

\* Nobody is in the room, and then one command at a time.
LEMMA QInvariance ==
  ASSUME MaxInFlight = 1
  PROVE  QSpec => []QInv
<1>1. QInit => QInv
  BY InitIInv, StartsWithNobody DEF QInit, QInv
<1> QED BY <1>1, OneAtATime, PTL DEF QSpec

\* The accounts of the rounds, in one number.
LEMMA TollIsOnePerRound ==
  ASSUME IInv, RoundsInv
  PROVE  OneEliminationPerRound
<1> DEFINE gone == Cardinality(roster) - Cardinality(alive)
<1>1. \A n \in Int : Gone(n) => gone = n
  BY PlayersAreCounted DEF IInv, Gone
<1>2. round \in Int /\ round - 1 \in Int
  <2>1. round \in Nat
    BY PlayersAreCounted DEF IInv
  <2> QED BY <2>1
<1>3. CASE phase = "lobby"
  <2>1. alive = roster /\ Cardinality(roster) \in Nat
    BY <1>3, PlayersAreCounted DEF IInv, LobbyIsFresh
  <2>2. gone = 0
    BY <2>1
  <2> QED BY <1>3, <2>2 DEF OneEliminationPerRound, RoundsInv, TargetInCountdown
<1>4. CASE phase \in {"playing", "voting"} \/ countdownTarget = "round"
  <2>1. gone = round - 1 /\ Cardinality(alive) >= 3
    BY <1>1, <1>2, <1>4 DEF RoundsInv, Toll
  <2> QED BY <1>4, <2>1 DEF OneEliminationPerRound, RoundsInv, TargetInCountdown
<1>5. CASE phase = "elimination"
  <2>1. gone = round /\ Cardinality(alive) >= 2
    BY <1>1, <1>2, <1>5 DEF RoundsInv, Toll
  <2> QED BY <1>5, <2>1 DEF OneEliminationPerRound, RoundsInv, TargetInCountdown
<1>6. CASE ~(phase = "lobby" \/ phase \in {"playing", "voting", "elimination"}
              \/ countdownTarget = "round")
  <2>1. phase \in {"shootout", "gameover"} \/ countdownTarget = "shootout"
    BY <1>6 DEF IInv, TypeOK, Phases, ClockArmed
  <2>2. gone = round /\ Cardinality(alive) = 2
    BY <1>1, <1>2, <2>1 DEF RoundsInv, Toll
  <2> QED BY <1>6, <2>2 DEF OneEliminationPerRound
<1> QED BY <1>3, <1>4, <1>5, <1>6

\* With one command under way at a time a round takes exactly one player out of the
\* game, however many players and rounds there are and whatever they vote: three or
\* more play a round, two the shootout.
THEOREM OneOutPerRound ==
  ASSUME MaxInFlight = 1
  PROVE  QSpec => []OneEliminationPerRound
<1>1. QInv => OneEliminationPerRound
  BY TollIsOnePerRound DEF QInv
<1> QED BY <1>1, QInvariance, PTL

\* With one command under way at a time the player asked is in the game, and no
\* question outlives the round or the shootout it was asked in, though the clock may
\* end the round under a command on its way.
THEOREM QuestionsAreInPlay ==
  ASSUME MaxInFlight = 1
  PROVE  QSpec => []QuestionsInPlay
<1>1. QInv => QuestionsInPlay
  BY DEF QInv, RoundsInv
<1> QED BY <1>1, QInvariance, PTL

\* With one command under way at a time the reveal is of the players alive and its
\* index stays within their order: revealInfo never indexes out of range.
THEOREM RevealsInOrder ==
  ASSUME MaxInFlight = 1
  PROVE  QSpec => []RevealInOrder
<1>1. QInv => RevealInOrder
  BY DEF QInv, RoundsInv
<1> QED BY <1>1, QInvariance, PTL

\* With one command under way at a time the shootout is between the two who are left,
\* and the game is over exactly when one of them has won it.
THEOREM FinalistsAreAlive ==
  ASSUME MaxInFlight = 1
  PROVE  QSpec => []FinalistsAlive
<1>1. QInv => FinalistsAlive
  BY DEF QInv, RoundsInv
<1> QED BY <1>1, QInvariance, PTL

-----------------------------------------------------------------------------
(* The tournament.                                                         *)

\* The stage of the tournament, before and after a step.
LEMMA StageOfPhase ==
  /\ phase = "lobby" => Stage = "open"
  /\ phase = "gameover" => Stage = "over"
  /\ phase \notin {"lobby", "gameover"} => Stage = "contest"
  /\ phase' = "lobby" => Stage' = "open"
  /\ phase' = "gameover" => Stage' = "over"
  /\ phase' \notin {"lobby", "gameover"} => Stage' = "contest"
BY DEF Stage

\* Tournament.tla counts as this module does.
LEMMA SameCount == \A S : Contest!Cardinality(S) = Cardinality(S)
BY DEF Cardinality, Contest!Cardinality

\* A step within the game that neither takes anybody out nor decides it.
LEMMA StaysInContest ==
  ASSUME UNCHANGED <<roster, alive, shootout.winner>>,
         \/ phase' = phase
         \/ phase \notin {"lobby", "gameover"} /\ phase' \notin {"lobby", "gameover"}
  PROVE  UNCHANGED Contest!vars
BY DEF Contest!vars, Stage

\* A room nobody is in yet.
LEMMA ContestIsOpen == QInit => Contest!Init
<1> SUFFICES ASSUME QInit PROVE Contest!Init
  OBVIOUS
<1>1. phase = "lobby" /\ roster = {} /\ alive = {} /\ shootout = NoShootout
  BY DEF QInit, Init
<1>2. NoShootout.winner = NoPlayer
  BY DEF NoShootout
<1> QED BY <1>1, <1>2, StageOfPhase DEF Contest!Init

\* An elimination takes one of three or more out of the contest.
LEMMA EliminationIsOfTheContest ==
  ASSUME IInv, RoundsInv, phase = "voting", NEW p \in alive, FinalizeElimination(p),
         UNCHANGED <<roster, shootout>>
  PROVE  Contest!Next
<1>1. phase' = "elimination" /\ alive' = alive \ {p}
  BY DEF FinalizeElimination
<1>2. Cardinality(alive) > 2
  <2>1. Cardinality(alive) \in Nat /\ Cardinality(alive) >= 3
    BY PlayersAreCounted DEF IInv, RoundsInv, Toll
  <2> QED BY <2>1
<1>3. Contest!Eliminate(p)
  BY <1>1, <1>2, StageOfPhase, SameCount DEF Contest!Eliminate
<1> QED BY <1>3 DEF Contest!Next

\* What a command does to the contest.
LEMMA HandleIsOfTheContest ==
  ASSUME IInv, RoundsInv, NEW c \in Commands, Current(c), Handle(c)
  PROVE  [Contest!Next]_(Contest!vars)
<1>1. CASE c.action \in {"addPlayer", "kickPlayer", "startGame"}
  <2>1. phase = "lobby" /\ alive = roster /\ roster \subseteq 1 .. lastId /\ lastId \in Nat
    BY <1>1 DEF Current, RoundActions, IInv, LobbyIsFresh, TypeOK
  <2>2. CASE DoAddPlayer
    <3>1. lastId + 1 \notin roster
      BY <2>1
    <3>2. Contest!Enter
      BY <2>1, <2>2, <3>1 DEF DoAddPlayer, Contest!Enter, Stage
    <3> QED BY <3>2 DEF Contest!Next
  <2>3. CASE DoKickPlayer(c.player)
    <3>1. c.player \in roster /\ Contest!Withdraw(c.player)
      BY <2>1, <2>3 DEF DoKickPlayer, CanKickPlayer, Contest!Withdraw, Stage
    <3> QED BY <3>1 DEF Contest!Next
  <2>4. CASE DoStartGame
    <3>1. Contest!Begin
      BY <2>1, <2>4, StageOfPhase, SameCount
         DEF DoStartGame, CanStartGame, BeginCountdown, peopleVars, Contest!Begin
    <3> QED BY <3>1 DEF Contest!Next
  <2> QED BY <1>1, <2>2, <2>3, <2>4 DEF Handle
<1>2. CASE c.action \in RoundActions
  <2>1. \/ DoNextQuestion \/ DoMarkCorrect \/ DoMarkIncorrect \/ DoBankChain
        \/ DoSelectAsked(c.player) \/ DoEndRound
    BY <1>2 DEF Handle, RoundActions
  <2>2. /\ UNCHANGED <<roster, alive, shootout>>
        /\ phase' = phase \/ (phase = "playing" /\ phase' = "voting")
    BY <2>1 DEF DoNextQuestion, DoMarkCorrect, DoMarkIncorrect, MarkAnswer, DoBankChain,
       DoSelectAsked, DoEndRound, CanEndRound, peopleVars
  <2> QED BY <2>2, StaysInContest
<1>3. CASE c.action = "startVoteReveal"
  <2>1. UNCHANGED <<roster, alive, shootout, phase>>
    BY <1>3 DEF Handle, DoStartVoteReveal, peopleVars
  <2> QED BY <2>1, StaysInContest
<1>4. CASE c.action = "advanceReveal"
  <2>1. phase = "voting" /\ DoAdvanceReveal
    BY <1>4 DEF Current, RoundActions, Handle
  <2>2. UNCHANGED <<roster, shootout>> /\ (ResolveVotes \/ UNCHANGED <<phase, alive>>)
    BY <2>1 DEF DoAdvanceReveal, peopleVars
  <2>3. \/ UNCHANGED <<phase, alive>>
        \/ \E p \in alive : FinalizeElimination(p)
    BY <2>2 DEF ResolveVotes
  <2> QED BY <2>1, <2>2, <2>3, StaysInContest, EliminationIsOfTheContest
<1>5. CASE c.action = "manualTieBreak"
  <2>1. phase = "voting" /\ c.player \in alive /\ DoManualTieBreak(c.player)
    BY <1>5 DEF Current, RoundActions, Handle, IInv, TypeOK
  <2>2. FinalizeElimination(c.player) /\ UNCHANGED <<roster, shootout>>
    BY <2>1 DEF DoManualTieBreak, peopleVars
  <2> QED BY <2>1, <2>2, EliminationIsOfTheContest
<1>6. CASE c.action = "continueAfterElimination"
  <2>1. phase = "elimination" /\ DoContinueAfterElimination
    BY <1>6 DEF Current, RoundActions, Handle
  <2>2. shootout.winner = NoPlayer
    BY <2>1 DEF RoundsInv, FinalistsAlive
  <2>3. /\ phase' = "countdown" /\ UNCHANGED <<roster, alive>>
        /\ shootout' = shootout \/ shootout' = ShootoutOf(Min(alive), Max(alive))
    BY <2>1 DEF DoContinueAfterElimination, BeginCountdown, peopleVars
  <2>4. ShootoutOf(Min(alive), Max(alive)).winner = NoPlayer
    BY DEF ShootoutOf
  <2>5. shootout'.winner = shootout.winner
    BY <2>2, <2>3, <2>4
  <2> QED BY <2>1, <2>3, <2>5, StaysInContest
<1>7. CASE c.action \in {"shootoutMark", "shootoutNextQuestion"}
  <2>1. phase = "shootout" /\ shootout.winner = NoPlayer /\ Cardinality(alive) = 2
    BY <1>7 DEF Current, RoundActions, RoundsInv, FinalistsAlive, Toll
  <2>2. DoShootoutNextQuestion \/ DoShootoutMark(Scored(c.result))
    BY <1>7 DEF Handle
  <2>3. Scored(c.result) \in Results
    BY DEF Scored, Results
  <2>4. /\ UNCHANGED <<roster, alive>>
        /\ \/ phase' = "shootout" /\ shootout'.winner = NoPlayer
           \/ phase' = "gameover" /\ shootout'.winner \in alive
    BY <2>1, <2>2, <2>3, ShootoutKeeps
  <2>5. CASE phase' = "shootout" /\ shootout'.winner = NoPlayer
    BY <2>1, <2>4, <2>5, StaysInContest
  <2>6. CASE phase' = "gameover" /\ shootout'.winner \in alive
    <3>1. Contest!Crown(shootout'.winner)
      BY <2>1, <2>4, <2>6, StageOfPhase, SameCount DEF Contest!Crown
    <3> QED BY <2>6, <3>1 DEF Contest!Next
  <2> QED BY <2>4, <2>5, <2>6
<1>8. CASE c.action = "playAgain"
  <2>1. phase = "gameover" /\ DoPlayAgain
    BY <1>8 DEF Current, RoundActions, Handle
  <2>2. Contest!Reopen
    BY <2>1 DEF DoPlayAgain, peopleVars, NoShootout, Contest!Reopen, Stage
  <2> QED BY <2>2 DEF Contest!Next
<1> QED BY <1>1, <1>2, <1>3, <1>4, <1>5, <1>6, <1>7, <1>8 DEF Current

\* The clock and the phones take nobody out of the contest.
LEMMA ClockAndPhonesStay ==
  ASSUME IInv, RoundsInv, Clock \/ Phone
  PROVE  UNCHANGED Contest!vars
<1>1. CASE TimePasses
  BY <1>1, StaysInContest DEF TimePasses, peopleVars
<1>2. CASE phase = "countdown" /\ FinishCountdown
  <2>1. /\ UNCHANGED <<roster, alive>> /\ phase' \in {"shootout", "playing"}
        /\ shootout' = shootout \/ (shootout # NoShootout /\ shootout' = Asked(shootout))
    BY <1>2 DEF FinishCountdown, peopleVars, IInv, ClockArmed
  <2>2. shootout' = Asked(shootout) /\ shootout # NoShootout
          => shootout'.winner = shootout.winner
    BY DEF Asked, IInv, TwoFinalists, Begun, Shootouts
  <2> QED BY <1>2, <2>1, <2>2, StaysInContest
<1>3. CASE DoEndRound
  BY <1>3, StaysInContest DEF DoEndRound, CanEndRound, peopleVars
<1>4. CASE Phone
  BY <1>4, StaysInContest DEF Phone, SubmitVote, CallBank, DoBankChain, peopleVars
<1> QED BY <1>1, <1>2, <1>3, <1>4 DEF Clock, Tick

LEMMA StepIsOfTheContest ==
  ASSUME QInv, [QNext]_vars
  PROVE  [Contest!Next]_(Contest!vars)
<1> USE DEF QInv
<1>1. CASE UNCHANGED gameVars
  BY <1>1, StaysInContest DEF gameVars
<1>2. CASE Deliver
  <2>1. PICK c \in Commands : inflight = <<c>> /\ Current(c)
    BY <1>2 DEF Deliver, Waiting
  <2>2. Handle(c) \/ UNCHANGED gameVars
    BY <1>2, <2>1 DEF Deliver
  <2> QED BY <1>1, <2>1, <2>2, HandleIsOfTheContest
<1>3. CASE Clock \/ Phone
  BY <1>3, ClockAndPhonesStay
<1> QED BY <1>1, <1>2, <1>3 DEF QNext, Tap, vars

\* With one command under way at a time the game is a tournament, of any number of
\* players and over any number of games: once begun, players leave it one at a time
\* and not below two, none comes back, and one of the last two is crowned.
THEOREM RefinesTournament ==
  ASSUME MaxInFlight = 1
  PROVE  QSpec => PlaysTournament
<1>1. QInv /\ [QNext]_vars => [Contest!Next]_(Contest!vars)
  BY StepIsOfTheContest
<1> QED BY <1>1, ContestIsOpen, QInvariance, PTL
        DEF QSpec, PlaysTournament, Contest!Spec
=============================================================================
