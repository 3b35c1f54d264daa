------------------------------ MODULE GameProofs ------------------------------
(***************************************************************************)
(* Theorems about the game engine under every command in every state       *)
(* (Game!Spec): its type invariant, and the invariants that hold whatever  *)
(* order the commands arrive in.                                           *)
(***************************************************************************)
EXTENDS Game, ShootoutProofs, FiniteSetTheorems, WellFoundedInduction

-----------------------------------------------------------------------------
(* The first and the last of a set of players, who are numbers.            *)

\* Every non-empty set of naturals has a least element, which Min chooses: the
\* first player in roster order is one of the players.
LEMMA MinOfNaturals ==
  ASSUME NEW S, S \subseteq Nat, S # {}
  PROVE  Min(S) \in S /\ \A y \in S : Min(S) <= y
<1>1. IsWellFoundedOn(OpToRel(<, Nat), Nat)
  BY NatLessThanWellFounded
<1> DEFINE R == {ss \in Nat \X Nat : ss[1] < ss[2]}
<1>2. IsWellFoundedOn(R, Nat)
  BY <1>1 DEF OpToRel
<1>3. PICK x \in S : \A y \in S : ~(<<y, x>> \in R)
  <2> HIDE DEF R
  <2> QED BY <1>2, WFMin
<1>4. ASSUME NEW y \in S PROVE x <= y
  <2>1. x \in Nat /\ y \in Nat /\ <<y, x>> \in Nat \X Nat
    OBVIOUS
  <2>2. ~(y < x)
    BY <1>3, <2>1
  <2> QED BY <2>1, <2>2
<1> QED BY <1>4 DEF Min

\* A non-empty set of naturals bounded by n has a greatest element, which Max
\* chooses: the last player in roster order is one of the players.
LEMMA MaxOfNaturals ==
  ASSUME NEW n \in Nat, NEW S, S \subseteq 1 .. n, S # {}
  PROVE  Max(S) \in S /\ \A y \in S : Max(S) >= y
<1> DEFINE T == {n - x : x \in S}
<1>1. T \subseteq Nat /\ T # {}
  <2>1. \A x \in S : n - x \in Nat
    OBVIOUS
  <2>2. PICK x \in S : TRUE
    OBVIOUS
  <2>3. n - x \in T
    OBVIOUS
  <2> QED BY <2>1, <2>3
<1>2. Min(T) \in T /\ \A t \in T : Min(T) <= t
  <2> HIDE DEF T
  <2> QED BY <1>1, MinOfNaturals
<1>3. PICK x \in S : Min(T) = n - x
  BY <1>2
<1>4. ASSUME NEW y \in S PROVE x >= y
  <2>1. n - y \in T
    OBVIOUS
  <2>2. n - x <= n - y
    BY <1>2, <1>3, <2>1
  <2> QED BY <2>2
<1> QED BY <1>4 DEF Max

-----------------------------------------------------------------------------
(* The inductive invariant.  Type correctness alone is not inductive: a    *)
(* kick shrinks the roster, and only LobbyIsFresh says that nothing refers *)
(* to the player who went; the end of a countdown dereferences the         *)
(* shootout, and only ClockArmed and TwoFinalists say there is one.        *)

TwoFinalists == shootout = NoShootout \/ Begun(shootout, roster)

IInv ==
  /\ TypeOK
  /\ LobbyIsFresh
  /\ ClockArmed
  /\ RoundStartsClean
  /\ TwoFinalists

\* The ladder has a first rung, and its rungs are amounts.
LEMMA LadderFacts ==
  /\ Len(ChainValues) \in Nat \ {0}
  /\ \A i \in 1 .. Len(ChainValues) : ChainValues[i] \in Nat
<1>1. ChainValues \in Seq(Nat) /\ ChainValues # <<>>
  BY LadderAssumption
<1> QED BY <1>1

\* The roster is finite, so the first of the players alive is one of them.
LEMMA RosterIsNumbered ==
  ASSUME TypeOK
  PROVE  alive \subseteq roster /\ roster \subseteq Nat /\ roster \subseteq Ids
<1>1. lastId \in Nat /\ roster \subseteq 1 .. lastId /\ alive \subseteq roster
  BY DEF TypeOK
<1>2. 1 .. lastId \subseteq Nat \ {0}
  BY <1>1
<1> QED BY <1>1, <1>2 DEF Ids

\* NewState is a lobby that nothing refers to.
LEMMA InitIInv == Init => IInv
<1> SUFFICES ASSUME Init PROVE IInv
  OBVIOUS
<1>1. TypeOK
  <2>1. -1 \in -1 .. Len(ChainValues) - 1
    BY LadderFacts
  <2>2. score \in [roster -> Int]
    BY DEF Init, EmptyMap
  <2>3. DOMAIN votes \subseteq roster /\ \A v \in DOMAIN votes : votes[v] \in Ids
    BY DEF Init, EmptyMap
  <2>4. shootout \in Shootouts(roster)
    BY NilIsAShootout DEF Init
  <2>5. /\ phase \in Phases /\ countdownTarget \in {"", "round", "shootout"}
        /\ askedId \in roster \cup {NoPlayer} /\ alive \subseteq roster
    BY DEF Init, Phases
  <2>7. /\ round \in Nat \ {0} /\ lastId \in Nat /\ bank \in Nat
        /\ roster \subseteq 1 .. lastId
    <3>1. round = 1 /\ lastId = 0 /\ bank = 0 /\ roster = {}
      BY DEF Init
    <3> QED BY <3>1
  <2>6. /\ question \in BOOLEAN /\ timerRunning \in BOOLEAN /\ deadlinePassed \in BOOLEAN
        /\ revealing \in BOOLEAN /\ revealOrder \subseteq roster /\ revealIndex \in Nat
        /\ tie \subseteq alive /\ chainIndex \in -1 .. Len(ChainValues) - 1
    BY <2>1 DEF Init
  <2> QED BY <2>2, <2>3, <2>4, <2>5, <2>6, <2>7 DEF TypeOK
<1>2. LobbyIsFresh /\ ClockArmed /\ RoundStartsClean /\ TwoFinalists
  BY DEF Init, LobbyIsFresh, ClockArmed, RoundStartsClean, TwoFinalists
<1> QED BY <1>1, <1>2 DEF IInv

\* The player whose turn comes next is in the roster, if anybody is asked.
LEMMA NextAskedType ==
  ASSUME TypeOK
  PROVE  NextAsked \in roster \cup {NoPlayer}
<1> DEFINE later == {p \in alive : p > askedId}
<1>1. alive \subseteq Nat /\ later \subseteq Nat /\ alive \subseteq roster
  BY RosterIsNumbered
<1>2. later # {} => Min(later) \in later
  <2> HIDE DEF later
  <2> QED BY <1>1, MinOfNaturals
<1>3. alive # {} => Min(alive) \in alive
  BY <1>1, MinOfNaturals
<1> QED BY <1>1, <1>2, <1>3 DEF NextAsked

\* Steps that leave roster and shootout alone keep its finalists.
LEMMA SameFinalists ==
  ASSUME TwoFinalists, UNCHANGED <<roster, shootout>>
  PROVE  TwoFinalists'
BY DEF TwoFinalists, Begun

\* A game may be started from any phase; the countdown it begins is clean.
LEMMA StartGameIInv == IInv /\ DoStartGame => IInv'
<1> SUFFICES ASSUME IInv, DoStartGame PROVE IInv'
  OBVIOUS
<1> USE DEF IInv
<1>1. roster # {}
  BY FS_EmptySet DEF DoStartGame, CanStartGame, MinPlayers
<1>2. Min(roster) \in roster
  BY <1>1, MinOfNaturals, RosterIsNumbered
<1>3. TypeOK'
  <2>1. -1 \in -1 .. Len(ChainValues) - 1 /\ 1 \in Nat \ {0}
    BY LadderFacts
  <2> QED BY <1>2, <2>1
     DEF DoStartGame, ClearRound, BeginCountdown, peopleVars, revealVars, TypeOK, Phases
<1>4. LobbyIsFresh' /\ RoundStartsClean'
  BY DEF DoStartGame, ClearRound, BeginCountdown, LobbyIsFresh, RoundStartsClean
<1>5. ClockArmed' /\ TwoFinalists'
  BY SameFinalists DEF DoStartGame, BeginCountdown, ClockArmed, peopleVars
<1> QED BY <1>3, <1>4, <1>5

\* Choosing the player asked, or another question, needs phase playing.
LEMMA AskIInv ==
  ASSUME IInv, \/ DoNextQuestion \/ \E p \in Ids \cup {NoPlayer} : DoSelectAsked(p)
  PROVE  IInv'
<1> USE DEF IInv
<1>1. CASE DoNextQuestion
  BY <1>1, SameFinalists
     DEF DoNextQuestion, CanNextQuestion, peopleVars, moneyVars, clockVars,
         revealVars, TypeOK, LobbyIsFresh, ClockArmed, RoundStartsClean
<1>2. ASSUME NEW p, DoSelectAsked(p) PROVE IInv'
  BY <1>2, SameFinalists
     DEF DoSelectAsked, CanSelectAsked, peopleVars, moneyVars, clockVars,
         revealVars, TypeOK, LobbyIsFresh, ClockArmed, RoundStartsClean
<1> QED BY <1>1, <1>2

\* A mark moves the chain to a rung and the question to a player alive.
LEMMA MarkAnswerIInv ==
  ASSUME IInv, NEW points \in Int, NEW place \in -1 .. Len(ChainValues) - 1,
         MarkAnswer(points, place)
  PROVE  IInv'
<1> USE DEF IInv
<1>1. NextAsked \in roster \cup {NoPlayer}
  BY NextAskedType
<1>2. score' \in [roster -> Int]
  <2>1. score \in [roster -> Int] /\ askedId \in roster
    BY DEF MarkAnswer, CanMarkAnswer, TypeOK
  <2>2. score[askedId] + points \in Int
    BY <2>1
  <2>3. score' = [score EXCEPT ![askedId] = @ + points]
    BY DEF MarkAnswer
  <2> QED BY <2>1, <2>2, <2>3
<1>3. TypeOK'
  BY <1>1, <1>2 DEF MarkAnswer, peopleVars, clockVars, revealVars, TypeOK
<1>4. LobbyIsFresh' /\ RoundStartsClean' /\ ClockArmed'
  BY DEF MarkAnswer, CanMarkAnswer, clockVars, LobbyIsFresh, RoundStartsClean, ClockArmed
<1>5. TwoFinalists'
  BY SameFinalists DEF MarkAnswer, peopleVars
<1> QED BY <1>3, <1>4, <1>5

\* Both marks choose a rung of the ladder, or none.
LEMMA MarkIInv == IInv /\ (DoMarkCorrect \/ DoMarkIncorrect) => IInv'
<1> SUFFICES ASSUME IInv, DoMarkCorrect \/ DoMarkIncorrect PROVE IInv'
  OBVIOUS
<1> DEFINE up == IF chainIndex < Len(ChainValues) - 1 THEN chainIndex + 1
                                                     ELSE chainIndex
<1>1. /\ -1 \in -1 .. Len(ChainValues) - 1
      /\ up \in -1 .. Len(ChainValues) - 1
  <2>1. chainIndex \in -1 .. Len(ChainValues) - 1
    BY DEF IInv, TypeOK
  <2> QED BY <2>1, LadderFacts
<1>2. CASE DoMarkCorrect
  <2>1. MarkAnswer(1, up)
    BY <1>2 DEF DoMarkCorrect
  <2> QED BY <2>1, <1>1, MarkAnswerIInv
<1>3. CASE DoMarkIncorrect
  <2>1. MarkAnswer(-1, -1)
    BY <1>3 DEF DoMarkIncorrect
  <2> QED BY <2>1, <1>1, MarkAnswerIInv
<1> QED BY <1>2, <1>3

\* Banking adds the value of a rung, an amount, and leaves no chain.
LEMMA BankIInv == IInv /\ DoBankChain => IInv'
<1> SUFFICES ASSUME IInv, DoBankChain PROVE IInv'
  OBVIOUS
<1> USE DEF IInv
<1>1. chainIndex + 1 \in 1 .. Len(ChainValues)
  <2>1. chainIndex \in -1 .. Len(ChainValues) - 1 /\ chainIndex >= 0
    BY DEF DoBankChain, CanBankChain, TypeOK
  <2> QED BY <2>1, LadderFacts
<1>2. ChainValues[chainIndex + 1] \in Nat
  BY <1>1, LadderFacts
<1>3. bank' \in Nat
  <2>1. bank \in Nat /\ bank' = bank + ChainValues[chainIndex + 1]
    BY DEF DoBankChain, TypeOK
  <2> QED BY <2>1, <1>2
<1>4. -1 \in -1 .. Len(ChainValues) - 1
  BY LadderFacts
<1>5. TypeOK'
  BY <1>3, <1>4
     DEF DoBankChain, peopleVars, askVars, clockVars, revealVars, TypeOK
<1>6. LobbyIsFresh' /\ RoundStartsClean' /\ ClockArmed'
  BY DEF DoBankChain, CanBankChain, clockVars, LobbyIsFresh, RoundStartsClean, ClockArmed
<1>7. TwoFinalists'
  BY SameFinalists DEF DoBankChain, peopleVars
<1> QED BY <1>5, <1>6, <1>7

\* The end of a round stops the clock together with the phase it belongs to.
LEMMA EndRoundIInv == IInv /\ DoEndRound => IInv'
<1> SUFFICES ASSUME IInv, DoEndRound PROVE IInv'
  OBVIOUS
<1> USE DEF IInv
<1>1. TypeOK'
  <2>1. DOMAIN votes' \subseteq roster /\ \A v \in DOMAIN votes' : votes'[v] \in Ids
    BY DEF DoEndRound, EmptyMap
  <2> QED BY <2>1 DEF DoEndRound, peopleVars, moneyVars, TypeOK, Phases
<1>2. LobbyIsFresh' /\ RoundStartsClean' /\ ClockArmed'
  BY DEF DoEndRound, LobbyIsFresh, RoundStartsClean, ClockArmed
<1>3. TwoFinalists'
  BY SameFinalists DEF DoEndRound, peopleVars
<1> QED BY <1>1, <1>2, <1>3

\* The phase a countdown leads to gets its clock; the shootout exists by then.
LEMMA FinishCountdownIInv ==
  IInv /\ phase = "countdown" /\ FinishCountdown => IInv'
<1> SUFFICES ASSUME IInv, phase = "countdown", FinishCountdown PROVE IInv'
  OBVIOUS
<1> USE DEF IInv
<1>1. shootout' = shootout \/ (Begun(shootout, roster) /\ shootout' = Asked(shootout))
  BY DEF FinishCountdown, ClockArmed, TwoFinalists
<1>2. Begun(shootout, roster) => Begun(Asked(shootout), roster)
  BY AskedBegun
<1>3. roster' = roster
  BY DEF FinishCountdown, peopleVars
<1>4. shootout' \in Shootouts(roster') /\ TwoFinalists'
  BY <1>1, <1>2, <1>3 DEF Begun, TwoFinalists, TypeOK
<1>5. TypeOK'
  BY <1>4 DEF FinishCountdown, StartTimer, peopleVars, moneyVars, revealVars, TypeOK, Phases
<1>6. LobbyIsFresh' /\ RoundStartsClean' /\ ClockArmed'
  BY DEF FinishCountdown, StartTimer, LobbyIsFresh, RoundStartsClean, ClockArmed
<1> QED BY <1>4, <1>5, <1>6

\* A vote is only recorded outside the lobby.
LEMMA VoteIInv ==
  ASSUME IInv, NEW voter, NEW target \in Ids, SubmitVote(voter, target)
  PROVE  IInv'
<1> USE DEF IInv
<1>1. voter \in roster
  BY DEF SubmitVote, CanSubmitVote, TypeOK
<1>2. DOMAIN votes' \subseteq roster /\ \A v \in DOMAIN votes' : votes'[v] \in Ids
  BY <1>1 DEF SubmitVote, TypeOK
<1>3. TypeOK'
  BY <1>2 DEF SubmitVote, peopleVars, moneyVars, askVars, clockVars, revealVars, TypeOK
<1>4. LobbyIsFresh' /\ RoundStartsClean' /\ ClockArmed'
  BY DEF SubmitVote, CanSubmitVote, moneyVars, askVars, clockVars, LobbyIsFresh,
         RoundStartsClean, ClockArmed
<1>5. TwoFinalists'
  BY SameFinalists DEF SubmitVote, peopleVars
<1> QED BY <1>3, <1>4, <1>5

\* A reveal goes through players of the roster, outside the lobby.
LEMMA StartVoteRevealIInv == IInv /\ DoStartVoteReveal => IInv'
<1> SUFFICES ASSUME IInv, DoStartVoteReveal PROVE IInv'
  OBVIOUS
<1> USE DEF IInv
<1>1. TypeOK'
  BY DEF DoStartVoteReveal, peopleVars, moneyVars, askVars, clockVars, TypeOK
<1>2. LobbyIsFresh' /\ RoundStartsClean' /\ ClockArmed'
  BY DEF DoStartVoteReveal, CanStartVoteReveal, moneyVars, askVars, clockVars,
         LobbyIsFresh, RoundStartsClean, ClockArmed
<1>3. TwoFinalists'
  BY SameFinalists DEF DoStartVoteReveal, peopleVars
<1> QED BY <1>1, <1>2, <1>3

\* What a vote resolved, or a tie broken, may do to the phase and the players.
LEMMA ResolveVotesEffect ==
  ASSUME TypeOK, ResolveVotes
  PROVE  /\ alive' \subseteq alive /\ tie' \subseteq alive'
         /\ \/ phase' = "elimination" /\ deadlinePassed' = FALSE
            \/ UNCHANGED <<phase, deadlinePassed>>
BY DEF ResolveVotes, FinalizeElimination, StillTied, MostVoted, TypeOK

\* A reveal is under way outside the lobby only, so its vote is resolved there.
LEMMA AdvanceRevealIInv == IInv /\ DoAdvanceReveal => IInv'
<1> SUFFICES ASSUME IInv, DoAdvanceReveal PROVE IInv'
  OBVIOUS
<1> USE DEF IInv
<1>1. /\ alive' \subseteq alive /\ tie' \subseteq alive'
      /\ \/ phase' = "elimination" /\ deadlinePassed' = FALSE
         \/ UNCHANGED <<phase, deadlinePassed>>
  BY ResolveVotesEffect DEF DoAdvanceReveal, TypeOK
<1>2. revealing' \in BOOLEAN /\ revealIndex' \in Nat
  <2>1. revealIndex \in Nat /\ revealIndex' = revealIndex + 1
    BY DEF DoAdvanceReveal, TypeOK
  <2>2. revealing' \in BOOLEAN
    BY DEF DoAdvanceReveal, TypeOK
  <2> QED BY <2>1, <2>2
<1>3. phase # "lobby" /\ phase' # "lobby"
  BY <1>1 DEF DoAdvanceReveal, CanAdvanceReveal, LobbyIsFresh
<1>4. TypeOK'
  BY <1>1, <1>2 DEF DoAdvanceReveal, peopleVars, moneyVars, askVars, TypeOK, Phases
<1>5. LobbyIsFresh' /\ RoundStartsClean' /\ ClockArmed'
  <2>1. LobbyIsFresh'
    BY <1>3 DEF LobbyIsFresh
  <2>2. UNCHANGED <<chainIndex, bank, askedId, question, timerRunning,
                    countdownTarget, shootout>>
    BY DEF DoAdvanceReveal, moneyVars, askVars
  <2>3. RoundStartsClean'
    BY <1>1, <2>2 DEF RoundStartsClean
  <2>4. ClockArmed'
    <3>1. CASE phase' = "elimination" /\ deadlinePassed' = FALSE
      BY <2>2, <3>1 DEF ClockArmed
    <3>2. CASE UNCHANGED <<phase, deadlinePassed>>
      BY <2>2, <3>2 DEF ClockArmed
    <3> QED BY <1>1, <3>1, <3>2
  <2> QED BY <2>1, <2>3, <2>4
<1>6. TwoFinalists'
  BY SameFinalists DEF DoAdvanceReveal, peopleVars
<1> QED BY <1>4, <1>5, <1>6

\* A tie may be broken in any phase: an elimination has no clock and no lobby.
LEMMA ManualTieBreakIInv ==
  ASSUME IInv, NEW p, DoManualTieBreak(p)
  PROVE  IInv'
<1> USE DEF IInv
<1>1. TypeOK'
  BY DEF DoManualTieBreak, FinalizeElimination, peopleVars, moneyVars, askVars,
         revealVars, TypeOK, Phases
<1>2. LobbyIsFresh' /\ RoundStartsClean' /\ ClockArmed'
  BY DEF DoManualTieBreak, FinalizeElimination, LobbyIsFresh, RoundStartsClean,
         ClockArmed
<1>3. TwoFinalists'
  BY SameFinalists DEF DoManualTieBreak, peopleVars
<1> QED BY <1>1, <1>2, <1>3

\* Continuing makes a round that starts clean, or a shootout of two players.
LEMMA ContinueIInv == IInv /\ DoContinueAfterElimination => IInv'
<1> SUFFICES ASSUME IInv, DoContinueAfterElimination PROVE IInv'
  OBVIOUS
<1> USE DEF IInv
<1>1. lastId \in Nat /\ alive \subseteq 1 .. lastId /\ alive \subseteq roster
  BY DEF TypeOK
<1>2. alive # {} => Min(alive) \in roster /\ Max(alive) \in roster
  BY <1>1, MinOfNaturals, MaxOfNaturals, RosterIsNumbered
<1>3. CASE FinalTwo
  <2>1. alive # {}
    BY <1>3, FS_EmptySet DEF FinalTwo
  <2>2. Begun(ShootoutOf(Min(alive), Max(alive)), roster)
    BY <1>2, <2>1, ShootoutOfBegun
  <2>3. roster' = roster /\ shootout' = ShootoutOf(Min(alive), Max(alive))
    BY <1>3 DEF DoContinueAfterElimination, peopleVars
  <2>4. TwoFinalists' /\ shootout' \in Shootouts(roster') /\ shootout' # NoShootout
    BY <2>2, <2>3, BegunIsNotNil DEF TwoFinalists, Begun
  <2>5. TypeOK'
    BY <1>3, <2>4 DEF DoContinueAfterElimination, BeginCountdown, peopleVars,
       askVars, revealVars, TypeOK, Phases
  <2>6. LobbyIsFresh' /\ RoundStartsClean' /\ ClockArmed'
    BY <1>3, <2>4 DEF DoContinueAfterElimination, BeginCountdown, LobbyIsFresh,
       RoundStartsClean, ClockArmed
  <2> QED BY <2>4, <2>5, <2>6
<1>4. CASE ~FinalTwo
  <2>1. askedId' \in roster \cup {NoPlayer}
    BY <1>2, <1>4 DEF DoContinueAfterElimination, TypeOK
  <2>2. -1 \in -1 .. Len(ChainValues) - 1 /\ round + 1 \in Nat \ {0}
    <3>1. round \in Nat \ {0}
      BY DEF TypeOK
    <3> QED BY <3>1, LadderFacts
  <2>3. TypeOK'
    BY <1>4, <2>1, <2>2 DEF DoContinueAfterElimination, ClearRound, BeginCountdown,
       peopleVars, revealVars, TypeOK, Phases
  <2>4. LobbyIsFresh' /\ RoundStartsClean' /\ ClockArmed'
    BY <1>4 DEF DoContinueAfterElimination, ClearRound, BeginCountdown,
       LobbyIsFresh, RoundStartsClean, ClockArmed
  <2>5. TwoFinalists'
    BY <1>4, SameFinalists DEF DoContinueAfterElimination, peopleVars
  <2> QED BY <2>3, <2>4, <2>5
<1> QED BY <1>3, <1>4

\* Another shootout question needs a shootout, so it is not the lobby.
LEMMA ShootoutNextIInv == IInv /\ DoShootoutNextQuestion => IInv'
<1> SUFFICES ASSUME IInv, DoShootoutNextQuestion PROVE IInv'
  OBVIOUS
<1> USE DEF IInv
<1>1. shootout # NoShootout /\ Begun(shootout, roster)
  BY DEF DoShootoutNextQuestion, CanShootoutNextQuestion, CanAsk, TwoFinalists
<1>2. roster' = roster /\ shootout' = Asked(shootout)
  BY DEF DoShootoutNextQuestion, peopleVars
<1>3. Begun(shootout', roster')
  BY <1>1, <1>2, AskedBegun
<1>4. shootout' # NoShootout
  BY <1>3, BegunIsNotNil
<1>5. TypeOK'
  BY <1>3 DEF DoShootoutNextQuestion, Begun, peopleVars, moneyVars, askVars,
     clockVars, revealVars, TypeOK
<1>6. LobbyIsFresh' /\ RoundStartsClean' /\ ClockArmed'
  BY <1>1, <1>4 DEF DoShootoutNextQuestion, moneyVars, askVars, clockVars,
     LobbyIsFresh, RoundStartsClean, ClockArmed
<1> QED BY <1>3, <1>5, <1>6 DEF TwoFinalists

\* A shootout mark scores a finalist, and ends the game with one as winner.
LEMMA ShootoutMarkIInv ==
  ASSUME IInv, NEW result \in Results, DoShootoutMark(result)
  PROVE  IInv'
<1> USE DEF IInv
<1>1. shootout # NoShootout /\ Begun(shootout, roster)
  BY DEF DoShootoutMark, CanShootoutMark, CanMark, TwoFinalists
<1>2. roster' = roster /\ shootout' = Marked(shootout, result)
  BY DEF DoShootoutMark, peopleVars
<1>3. Begun(shootout', roster')
  BY <1>1, <1>2, MarkedBegun
<1>4. shootout' # NoShootout
  BY <1>3, BegunIsNotNil
<1>5. score' \in [roster -> Int]
  <2> DEFINE d == IF result = "correct" THEN 1 ELSE -1
  <2>1. score \in [roster -> Int] /\ Answering \in roster
    BY DEF DoShootoutMark, CanShootoutMark, TypeOK
  <2>2. score' = [score EXCEPT ![Answering] = @ + d]
    BY DEF DoShootoutMark
  <2>3. score[Answering] + d \in Int
    BY <2>1
  <2> QED BY <2>1, <2>2, <2>3
<1>6. \/ UNCHANGED <<phase, deadlinePassed>>
      \/ phase' = "gameover" /\ deadlinePassed' = FALSE
  BY DEF DoShootoutMark
<1>7. TypeOK'
  <2>1. UNCHANGED <<round, lastId, alive, chainIndex, bank, askedId, question, timerRunning,
                    countdownTarget, votes, revealing, revealOrder, revealIndex, tie>>
    BY DEF DoShootoutMark, peopleVars, moneyVars, askVars, revealVars
  <2>2. phase' \in Phases /\ deadlinePassed' \in BOOLEAN
    BY <1>6 DEF TypeOK, Phases
  <2>3. shootout' \in Shootouts(roster')
    BY <1>3 DEF Begun
  <2> QED BY <1>2, <1>5, <2>1, <2>2, <2>3 DEF TypeOK
<1>8. LobbyIsFresh' /\ RoundStartsClean' /\ ClockArmed'
  <2>1. phase # "lobby"
    BY <1>1 DEF LobbyIsFresh
  <2>2. LobbyIsFresh'
    BY <1>6, <2>1 DEF LobbyIsFresh
  <2>3. UNCHANGED <<chainIndex, bank, askedId, question, timerRunning, countdownTarget>>
    BY DEF DoShootoutMark, moneyVars, askVars
  <2>4. RoundStartsClean'
    BY <1>6, <2>3 DEF RoundStartsClean
  <2>5. ClockArmed'
    <3>1. CASE UNCHANGED <<phase, deadlinePassed>>
      BY <1>4, <2>3, <3>1 DEF ClockArmed
    <3>2. CASE phase' = "gameover" /\ deadlinePassed' = FALSE
      BY <1>4, <2>3, <3>2 DEF ClockArmed
    <3> QED BY <1>6, <3>1, <3>2
  <2> QED BY <2>2, <2>4, <2>5
<1> QED BY <1>3, <1>7, <1>8 DEF TwoFinalists

\* A new player enters a lobby that nothing refers to, alive.
LEMMA AddPlayerIInv == IInv /\ DoAddPlayer => IInv'
<1> SUFFICES ASSUME IInv, DoAddPlayer PROVE IInv'
  OBVIOUS
<1> USE DEF IInv
<1>1. phase = "lobby" /\ shootout = NoShootout
  BY DEF DoAddPlayer, CanAddPlayer, LobbyIsFresh
<1>2. /\ lastId' \in Nat /\ roster' \subseteq 1 .. lastId' /\ alive' \subseteq roster'
      /\ roster \subseteq roster' /\ alive \subseteq alive'
  <2>1. lastId \in Nat /\ roster \subseteq 1 .. lastId /\ alive \subseteq roster
    BY DEF TypeOK
  <2>2. /\ lastId' = lastId + 1 /\ roster' = roster \cup {lastId + 1}
        /\ alive' = alive \cup {lastId + 1}
    BY DEF DoAddPlayer
  <2>3. 1 .. lastId \subseteq 1 .. lastId + 1 /\ lastId + 1 \in 1 .. lastId + 1
    BY <2>1
  <2> QED BY <2>1, <2>2, <2>3
<1>3. score' \in [roster' -> Int]
  <2>1. /\ roster' = roster \cup {lastId'}
        /\ score' = [p \in roster' |-> IF p = lastId' THEN 0 ELSE score[p]]
    BY DEF DoAddPlayer
  <2>2. \A p \in roster : score[p] \in Int
    BY DEF TypeOK
  <2> QED BY <2>1, <2>2
<1>4. shootout' \in Shootouts(roster') /\ TwoFinalists'
  BY <1>1, NilIsAShootout DEF DoAddPlayer, TwoFinalists
<1>5. TypeOK'
  BY <1>2, <1>3, <1>4 DEF DoAddPlayer, moneyVars, askVars, clockVars, revealVars, TypeOK
<1>6. LobbyIsFresh' /\ RoundStartsClean' /\ ClockArmed'
  BY DEF DoAddPlayer, CanAddPlayer, moneyVars, askVars, clockVars, revealVars,
         LobbyIsFresh, RoundStartsClean, ClockArmed
<1> QED BY <1>4, <1>5, <1>6

\* A player leaves a lobby that nothing refers to, so nothing dangles.
LEMMA KickPlayerIInv ==
  ASSUME IInv, NEW p, DoKickPlayer(p)
  PROVE  IInv'
<1> USE DEF IInv
<1>1. phase = "lobby" /\ LobbyIsFresh
  BY DEF DoKickPlayer, CanKickPlayer
<1>2. roster' \subseteq roster /\ alive' \subseteq roster' /\ lastId' = lastId
  BY DEF DoKickPlayer, TypeOK
<1>3. score' \in [roster' -> Int]
  BY <1>2 DEF DoKickPlayer, TypeOK
<1>4. shootout' \in Shootouts(roster') /\ TwoFinalists'
  BY <1>1, NilIsAShootout DEF DoKickPlayer, TwoFinalists, LobbyIsFresh
<1>5. DOMAIN votes' \subseteq roster' /\ \A v \in DOMAIN votes' : votes'[v] \in Ids
  BY <1>1 DEF DoKickPlayer, LobbyIsFresh, EmptyMap
<1>6. askedId' = NoPlayer /\ revealOrder' = {} /\ tie' = {}
  BY <1>1 DEF DoKickPlayer, LobbyIsFresh, askVars, revealVars
<1>7. TypeOK'
  BY <1>2, <1>3, <1>4, <1>5, <1>6
     DEF DoKickPlayer, moneyVars, askVars, clockVars, revealVars, TypeOK
<1>8. LobbyIsFresh' /\ RoundStartsClean' /\ ClockArmed'
  BY <1>1 DEF DoKickPlayer, moneyVars, askVars, clockVars, revealVars,
     LobbyIsFresh, RoundStartsClean, ClockArmed
<1> QED BY <1>4, <1>7, <1>8

\* The fresh lobby of a new game forgets all that referred to players.
LEMMA PlayAgainIInv == IInv /\ DoPlayAgain => IInv'
<1> SUFFICES ASSUME IInv, DoPlayAgain PROVE IInv'
  OBVIOUS
<1> USE DEF IInv
<1>1. shootout' \in Shootouts(roster') /\ TwoFinalists'
  BY NilIsAShootout DEF DoPlayAgain, TwoFinalists
<1>2. DOMAIN votes' \subseteq roster' /\ \A v \in DOMAIN votes' : votes'[v] \in Ids
  BY DEF DoPlayAgain, EmptyMap
<1>3. -1 \in -1 .. Len(ChainValues) - 1
  BY LadderFacts
<1>4. TypeOK'
  <2>1. score' \in [roster' -> Int]
    <3>1. score' = [p \in roster |-> 0] /\ roster' = roster
      BY DEF DoPlayAgain, peopleVars
    <3> QED BY <3>1
  <2>2. round' \in Nat \ {0} /\ bank' \in Nat /\ revealIndex' \in Nat
    <3>1. round' = 1 /\ bank' = 0 /\ revealIndex' = 0
      BY DEF DoPlayAgain
    <3> QED BY <3>1
  <2> QED BY <1>1, <1>2, <1>3, <2>1, <2>2 DEF DoPlayAgain, peopleVars, TypeOK, Phases
<1>5. LobbyIsFresh' /\ RoundStartsClean' /\ ClockArmed'
  BY DEF DoPlayAgain, peopleVars, LobbyIsFresh, RoundStartsClean, ClockArmed
<1> QED BY <1>1, <1>4, <1>5

\* The tick ends a countdown or a round like the handlers it calls.
LEMMA ClockIInv == IInv /\ (Tick \/ TimePasses) => IInv'
<1> SUFFICES ASSUME IInv, Tick \/ TimePasses PROVE IInv'
  OBVIOUS
<1>1. CASE Tick
  BY <1>1, FinishCountdownIInv, EndRoundIInv DEF Tick
<1>2. CASE TimePasses
  <2> USE DEF IInv
  <2>1. TypeOK'
    BY <1>2 DEF TimePasses, peopleVars, moneyVars, askVars, revealVars, TypeOK
  <2>2. LobbyIsFresh' /\ RoundStartsClean' /\ ClockArmed'
    BY <1>2 DEF TimePasses, moneyVars, askVars, LobbyIsFresh, RoundStartsClean, ClockArmed
  <2>3. TwoFinalists'
    BY <1>2, SameFinalists DEF TimePasses, peopleVars
  <2> QED BY <2>1, <2>2, <2>3
<1> QED BY <1>1, <1>2

\* Every command a controller may send, in every state, keeps the invariant.
LEMMA HandleIInv ==
  ASSUME IInv, NEW c \in Commands, Handle(c)
  PROVE  IInv'
<1>1. c.player \in Ids \cup {NoPlayer}
  BY DEF Commands
<1>2. Scored(c.result) \in Results
  BY DEF Scored, Results
<1> QED
  BY <1>1, <1>2, StartGameIInv, AskIInv, MarkIInv, BankIInv, EndRoundIInv,
     StartVoteRevealIInv, AdvanceRevealIInv, ManualTieBreakIInv, ContinueIInv,
     ShootoutNextIInv, ShootoutMarkIInv, PlayAgainIInv, KickPlayerIInv,
     AddPlayerIInv
     DEF Handle

\* The invariant that carries the theorems below is inductive: no command, vote,
\* bank or tick leaves it.
THEOREM Inductive == IInv /\ [Next]_gameVars => IInv'
<1> SUFFICES ASSUME IInv, [Next]_gameVars PROVE IInv'
  OBVIOUS
<1>1. CASE Tick \/ TimePasses
  BY <1>1, ClockIInv
<1>2. ASSUME NEW c \in Commands, Handle(c) PROVE IInv'
  BY <1>2, HandleIInv
<1>3. ASSUME NEW voter \in Ids, NEW target \in Ids, SubmitVote(voter, target)
      PROVE IInv'
  BY <1>3, VoteIInv
<1>4. ASSUME NEW p \in Ids, CallBank(p) PROVE IInv'
  BY <1>4, BankIInv DEF CallBank
<1>5. CASE UNCHANGED gameVars
  <2>1. TypeOK'
    BY <1>5 DEF IInv, gameVars, TypeOK
  <2>2. LobbyIsFresh' /\ ClockArmed' /\ RoundStartsClean'
    BY <1>5 DEF IInv, gameVars, LobbyIsFresh, ClockArmed, RoundStartsClean
  <2>3. TwoFinalists'
    BY <1>5 DEF IInv, gameVars, TwoFinalists, Begun
  <2> QED BY <2>1, <2>2, <2>3 DEF IInv
<1> QED BY <1>1, <1>2, <1>3, <1>4, <1>5 DEF Next

\* The state of a room is well typed after any commands, votes and ticks in any
\* order: in particular nobody is asked, voted out or in the shootout who is
\* not in the roster.
THEOREM TypeCorrect == Spec => []TypeOK
<1>1. IInv => TypeOK
  BY DEF IInv
<1> QED BY <1>1, InitIInv, Inductive, PTL DEF Spec

\* However the commands are ordered, no chain and no question survives into the
\* countdown of a round.
THEOREM RoundsStartClean == Spec => []RoundStartsClean
<1>1. IInv => RoundStartsClean
  BY DEF IInv
<1> QED BY <1>1, InitIInv, Inductive, PTL DEF Spec

\* The clock of a round always runs while it is played, and a countdown to the
\* shootout always finds a shootout: FinishCountdown never dereferences nil.
THEOREM ClockAlwaysArmed == Spec => []ClockArmed
<1>1. IInv => ClockArmed
  BY DEF IInv
<1> QED BY <1>1, InitIInv, Inductive, PTL DEF Spec

\* A player can only be removed when nothing refers to that player.
THEOREM LobbyAlwaysFresh == Spec => []LobbyIsFresh
<1>1. IInv => LobbyIsFresh
  BY DEF IInv
<1> QED BY <1>1, InitIInv, Inductive, PTL DEF Spec

-----------------------------------------------------------------------------
(* What a step may do to the money, and what it does at the end of a       *)
(* reveal.                                                                 *)

\* Money moves by banking a rung in play, or with the whole game when it is reset.
BankMoves ==
  \/ phase' = "lobby" /\ bank' = 0
  \/ /\ phase = "playing" /\ chainIndex >= 0 /\ chainIndex' = -1
     /\ bank' - bank = ChainValues[chainIndex + 1]

\* Banking adds the value of the rung and drops the chain, in play only.
LEMMA BankingMoves ==
  ASSUME IInv, DoBankChain
  PROVE  BankMoves
<1>1. /\ phase = "playing" /\ chainIndex >= 0 /\ chainIndex' = -1
      /\ bank' = bank + ChainValues[chainIndex + 1]
  BY DEF DoBankChain, CanBankChain
<1>2. bank \in Nat /\ chainIndex \in -1 .. Len(ChainValues) - 1
  BY DEF IInv, TypeOK
<1>3. chainIndex + 1 \in 1 .. Len(ChainValues)
  BY <1>1, <1>2, LadderFacts
<1>4. ChainValues[chainIndex + 1] \in Nat
  BY <1>3, LadderFacts
<1>5. bank' - bank = ChainValues[chainIndex + 1]
  BY <1>1, <1>2, <1>4
<1> QED BY <1>1, <1>5 DEF BankMoves

\* No command but banking and a new game touches the bank.
LEMMA OtherCommandsKeepBank ==
  ASSUME NEW c \in Commands, Handle(c)
  PROVE  DoBankChain \/ DoPlayAgain \/ bank' = bank
<1>1. CASE DoStartGame \/ DoAddPlayer \/ DoNextQuestion
           \/ DoSelectAsked(c.player) \/ DoKickPlayer(c.player)
  BY <1>1 DEF DoStartGame, DoAddPlayer, DoNextQuestion, DoSelectAsked,
     DoKickPlayer, moneyVars
<1>2. CASE DoMarkCorrect \/ DoMarkIncorrect
  BY <1>2 DEF DoMarkCorrect, DoMarkIncorrect, MarkAnswer
<1>3. CASE DoEndRound \/ DoStartVoteReveal \/ DoAdvanceReveal
           \/ DoManualTieBreak(c.player)
  BY <1>3 DEF DoEndRound, DoStartVoteReveal, DoAdvanceReveal, DoManualTieBreak,
     moneyVars
<1>4. CASE DoContinueAfterElimination
  BY <1>4 DEF DoContinueAfterElimination
<1>5. CASE DoShootoutNextQuestion \/ DoShootoutMark(Scored(c.result))
  BY <1>5 DEF DoShootoutNextQuestion, DoShootoutMark, moneyVars
<1> QED BY <1>1, <1>2, <1>3, <1>4, <1>5 DEF Handle

\* Every step, of whatever kind, moves the money by the rules.
LEMMA StepMovesBank ==
  ASSUME IInv, [Next]_gameVars
  PROVE  bank' # bank => BankMoves
<1>1. CASE DoPlayAgain
  BY <1>1 DEF DoPlayAgain, BankMoves
<1>2. CASE DoBankChain
  BY <1>2, BankingMoves
<1>3. ASSUME NEW c \in Commands, Handle(c) PROVE bank' # bank => BankMoves
  BY <1>3, <1>1, <1>2, OtherCommandsKeepBank
<1>4. CASE Tick \/ TimePasses
  BY <1>4 DEF Tick, TimePasses, FinishCountdown, DoEndRound, moneyVars
<1>5. ASSUME NEW voter \in Ids, NEW target \in Ids, SubmitVote(voter, target)
      PROVE bank' # bank => BankMoves
  BY <1>5 DEF SubmitVote, moneyVars
<1>6. ASSUME NEW p \in Ids, CallBank(p) PROVE bank' # bank => BankMoves
  BY <1>6, <1>2 DEF CallBank
<1>7. CASE UNCHANGED gameVars
  BY <1>7 DEF gameVars
<1> QED BY <1>3, <1>4, <1>5, <1>6, <1>7 DEF Next

\* Whatever races - the players' banking, the quizmaster's, the clock - money is
\* banked once, at the value of its rung, and in play.
THEOREM BankedOnce == Spec => BankOnlyInPlay
<1>1. IInv /\ [Next]_gameVars
        => [bank' # bank =>
              \/ phase' = "lobby" /\ bank' = 0
              \/ /\ phase = "playing" /\ chainIndex >= 0 /\ chainIndex' = -1
                 /\ bank' - bank = ChainValues[chainIndex + 1]]_gameVars
  BY StepMovesBank DEF BankMoves
<1> QED BY <1>1, InitIInv, Inductive, PTL DEF Spec, BankOnlyInPlay

\* There are finitely many voters, so the votes for a player are a number.
LEMMA VotesAreCounted ==
  ASSUME TypeOK, NEW p
  PROVE  VotesFor(p) \in Nat
<1>1. lastId \in Nat /\ DOMAIN votes \subseteq 1 .. lastId
  BY DEF TypeOK
<1>2. IsFiniteSet(1 .. lastId)
  BY <1>1, FS_Interval
<1>3. {v \in DOMAIN votes : votes[v] = p} \subseteq 1 .. lastId
  BY <1>1
<1>4. IsFiniteSet({v \in DOMAIN votes : votes[v] = p})
  BY <1>2, <1>3, FS_Subset
<1> QED BY <1>4, FS_CardinalityType DEF VotesFor

\* The players the code filters out in two passes, first by votes and then by
\* score, are those nobody alive is weaker than.
LEMMA StillTiedIsNobodyWeaker ==
  ASSUME TypeOK
  PROVE  StillTied = {p \in alive : \A q \in alive : ~Weaker(q, p)}
<1> DEFINE Lowest == {p \in alive : \A q \in alive : ~Weaker(q, p)}
<1>1. \A p : VotesFor(p) \in Nat
  BY VotesAreCounted
<1>2. \A p \in alive : score[p] \in Int
  BY DEF TypeOK
<1>3. StillTied \subseteq alive /\ MostVoted \subseteq alive
  BY DEF StillTied, MostVoted
<1>4. ASSUME NEW p \in StillTied, NEW q \in alive PROVE ~Weaker(q, p)
  <2>1. p \in alive /\ p \in MostVoted /\ VotesFor(q) <= VotesFor(p)
    BY <1>4 DEF StillTied, MostVoted
  <2>2. ~(VotesFor(q) > VotesFor(p))
    BY <1>1, <2>1
  <2>3. ASSUME VotesFor(q) = VotesFor(p) PROVE ~(score[q] < score[p])
    <3>1. q \in MostVoted
      BY <2>1, <2>3 DEF MostVoted
    <3>2. score[p] <= score[q]
      BY <3>1, <1>4 DEF StillTied
    <3> QED BY <3>2, <2>1, <1>2
  <2> QED BY <2>2, <2>3 DEF Weaker
<1>5. ASSUME NEW p \in Lowest PROVE p \in StillTied
  <2>1. p \in alive /\ \A q \in alive : ~Weaker(q, p)
    OBVIOUS
  <2>2. \A q \in alive : ~(VotesFor(q) > VotesFor(p))
    BY <2>1 DEF Weaker
  <2>3. p \in MostVoted
    BY <2>1, <2>2, <1>1 DEF MostVoted
  <2>4. ASSUME NEW q \in MostVoted PROVE score[p] <= score[q]
    <3>1. VotesFor(q) <= VotesFor(p) /\ VotesFor(p) <= VotesFor(q) /\ q \in alive
      BY <2>3, <2>4 DEF MostVoted
    <3>2. VotesFor(q) = VotesFor(p)
      BY <3>1, <1>1
    <3>3. ~(score[q] < score[p])
      BY <3>1, <3>2, <2>1 DEF Weaker
    <3> QED BY <3>1, <3>3, <2>1, <1>2
  <2> QED BY <2>3, <2>4 DEF StillTied
<1> QED BY <1>3, <1>4, <1>5

\* If the two passes leave one player, that player is weaker than every other;
\* if they do not, nobody is.
LEMMA OneLeftIsWeakest ==
  ASSUME TypeOK, NEW p \in alive
  PROVE  Weakest(p) <=> StillTied = {p}
<1>1. \A q : VotesFor(q) \in Nat
  BY VotesAreCounted
<1>2. \A q \in alive : score[q] \in Int
  BY DEF TypeOK
<1>3. ASSUME Weakest(p) PROVE StillTied = {p}
  <2>1. \A q \in alive \ {p} : Weaker(p, q)
    BY <1>3 DEF Weakest
  <2>2. \A q \in alive \ {p} : ~Weaker(q, p)
    BY <2>1, <1>1, <1>2 DEF Weaker
  <2>3. ~Weaker(p, p)
    BY <1>1, <1>2 DEF Weaker
  <2> QED BY <2>1, <2>2, <2>3, StillTiedIsNobodyWeaker
<1>4. ASSUME StillTied = {p}, NEW q \in alive \ {p} PROVE Weaker(p, q)
  <2>1. p \in MostVoted /\ VotesFor(q) <= VotesFor(p) /\ q \in alive
    BY <1>4 DEF StillTied, MostVoted
  <2>2. CASE VotesFor(q) # VotesFor(p)
    BY <2>1, <2>2, <1>1 DEF Weaker
  <2>3. CASE VotesFor(q) = VotesFor(p)
    <3>1. q \in MostVoted /\ q \notin StillTied
      BY <2>1, <2>3, <1>4 DEF MostVoted
    <3>2. PICK r \in MostVoted : ~(score[q] <= score[r])
      BY <3>1 DEF StillTied
    <3>3. score[p] <= score[r] /\ r \in alive
      BY <1>4, <3>2 DEF StillTied, MostVoted
    <3>4. score[p] < score[q]
      BY <3>2, <3>3, <2>1, <1>2
    <3> QED BY <3>4, <2>3 DEF Weaker
  <2> QED BY <2>2, <2>3
<1> QED BY <1>3, <1>4 DEF Weakest

\* What the end of a reveal does.
VoteResolved ==
  \/ \E p \in alive : Weakest(p) /\ alive' = alive \ {p}
  \/ /\ \A p \in alive : ~Weakest(p)
     /\ alive' = alive
     /\ tie' = {p \in alive : \A q \in alive : ~Weaker(q, p)}

\* Resolving the votes removes the weakest or lists the tie.
LEMMA ResolvingRemovesWeakest ==
  ASSUME TypeOK, ResolveVotes
  PROVE  VoteResolved
<1>1. ASSUME NEW p \in alive, StillTied = {p}, FinalizeElimination(p)
      PROVE VoteResolved
  <2>1. Weakest(p)
    BY <1>1, OneLeftIsWeakest
  <2>2. alive' = alive \ {p}
    BY <1>1 DEF FinalizeElimination
  <2> QED BY <2>1, <2>2 DEF VoteResolved
<1>2. ASSUME \A p \in alive : StillTied # {p}, tie' = StillTied, alive' = alive
      PROVE VoteResolved
  <2>1. \A p \in alive : ~Weakest(p)
    BY <1>2, OneLeftIsWeakest
  <2> QED BY <2>1, <1>2, StillTiedIsNobodyWeaker DEF VoteResolved
<1> QED BY <1>1, <1>2 DEF ResolveVotes

RevealEnds == revealing /\ ~revealing' /\ revealIndex' > revealIndex

\* The end of a reveal is neither a step that leaves it alone nor a reset.
LEMMA EndOfReveal ==
  ASSUME revealIndex \in Nat, RevealEnds
  PROVE  ~(UNCHANGED revealing) /\ revealIndex' # 0
<1>1. revealIndex' > revealIndex
  BY DEF RevealEnds
<1>2. revealIndex' # 0
  BY <1>1
<1>3. ~(UNCHANGED revealing)
  BY DEF RevealEnds
<1> QED BY <1>2, <1>3

\* Only the last step of a reveal ends it; a new round or game resets its index.
LEMMA OtherCommandsEndNoReveal ==
  ASSUME IInv, NEW c \in Commands, Handle(c), RevealEnds
  PROVE  DoAdvanceReveal
<1>1. revealIndex \in Nat
  BY DEF IInv, TypeOK
<1>2. ~(UNCHANGED revealing) /\ revealIndex' # 0
  BY <1>1, EndOfReveal
<1>3. ~DoEndRound /\ ~DoPlayAgain
  BY <1>2 DEF DoEndRound, DoPlayAgain
<1>4. ~DoStartVoteReveal
  BY DEF RevealEnds, DoStartVoteReveal, CanStartVoteReveal
<1>5. ~(DoStartGame \/ DoAddPlayer \/ DoNextQuestion \/ DoSelectAsked(c.player)
        \/ DoKickPlayer(c.player))
  BY <1>2 DEF DoStartGame, DoAddPlayer, DoNextQuestion, DoSelectAsked,
     DoKickPlayer, revealVars
<1>6. ~(DoMarkCorrect \/ DoMarkIncorrect \/ DoBankChain \/ DoManualTieBreak(c.player))
  BY <1>2 DEF DoMarkCorrect, DoMarkIncorrect, MarkAnswer, DoBankChain,
     DoManualTieBreak, revealVars
<1>7. ~(DoContinueAfterElimination \/ DoShootoutNextQuestion
        \/ DoShootoutMark(Scored(c.result)))
  BY <1>2 DEF DoContinueAfterElimination, DoShootoutNextQuestion, DoShootoutMark,
     revealVars
<1> QED BY <1>3, <1>4, <1>5, <1>6, <1>7 DEF Handle

\* The end of a reveal resolves the vote it revealed.
LEMMA StepResolvesVote ==
  ASSUME IInv, [Next]_gameVars, RevealEnds
  PROVE  VoteResolved
<1>1. revealIndex \in Nat /\ TypeOK
  BY DEF IInv, TypeOK
<1>2. ~(UNCHANGED revealing) /\ revealIndex' # 0
  BY <1>1, EndOfReveal
<1>3. CASE DoAdvanceReveal
  <2>1. ResolveVotes
    BY <1>2, <1>3 DEF DoAdvanceReveal
  <2> QED BY <2>1, <1>1, ResolvingRemovesWeakest
<1>4. ASSUME NEW c \in Commands, Handle(c) PROVE VoteResolved
  BY <1>3, <1>4, OtherCommandsEndNoReveal
<1>5. ~(Tick \/ TimePasses)
  BY <1>2 DEF Tick, TimePasses, FinishCountdown, DoEndRound, revealVars
<1>6. ASSUME NEW voter \in Ids, NEW target \in Ids PROVE ~SubmitVote(voter, target)
  BY <1>2 DEF SubmitVote, revealVars
<1>7. ASSUME NEW p \in Ids PROVE ~CallBank(p)
  BY <1>2 DEF CallBank, DoBankChain, revealVars
<1>8. ~(UNCHANGED gameVars)
  BY <1>2 DEF gameVars
<1> QED BY <1>4, <1>5, <1>6, <1>7, <1>8 DEF Next

\* Whatever late votes, commands and ties there are, the end of a reveal removes
\* the one player weaker than every other, or nobody.
THEOREM WeakestGoes == Spec => VoteRemovesWeakest
<1>1. IInv /\ [Next]_gameVars
        => [revealing /\ ~revealing' /\ revealIndex' > revealIndex =>
              \/ \E p \in alive : Weakest(p) /\ alive' = alive \ {p}
              \/ /\ \A p \in alive : ~Weakest(p)
                 /\ alive' = alive
                 /\ tie' = {p \in alive : \A q \in alive : ~Weaker(q, p)}]_gameVars
  BY StepResolvesVote DEF RevealEnds, VoteResolved
<1> QED BY <1>1, InitIInv, Inductive, PTL DEF Spec, VoteRemovesWeakest
=============================================================================
