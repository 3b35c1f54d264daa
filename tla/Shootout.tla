------------------------------- MODULE Shootout -------------------------------
(***************************************************************************)
(* One shootout on its own, from the moment DoContinueAfterElimination     *)
(* creates it for the last two players: FinishCountdown pulls the first    *)
(* question, the quizmaster marks answers and may skip a question, and     *)
(* checkShootoutEnd decides.  The rules are those the whole game uses      *)
(* (ShootoutRules); here they run with the regulation length of the code.  *)
(***************************************************************************)
EXTENDS ShootoutRules

CONSTANTS Finalists,   \* the ids in Shootout.Order, <<first, second>>
          MaxWaves     \* bound: waves played before the run stops

ASSUME FinalistsAssumption ==
  /\ Finalists \in (Nat \ {0}) \X (Nat \ {0})
  /\ Finalists[1] # Finalists[2]

VARIABLE shootout

Init == shootout = ShootoutOf(Finalists[1], Finalists[2])

\* FinishCountdown with target "shootout": the only question not pulled by a
\* mark or a skip.
FirstQuestion ==
  /\ ~shootout.question /\ shootout.rounds = <<>>
  /\ shootout' = Asked(shootout)

DoShootoutNextQuestion ==
  /\ CanAsk(shootout)
  /\ shootout' = Asked(shootout)

DoShootoutMark(result) ==
  /\ CanMark(shootout)
  /\ shootout.roundIndex < MaxWaves
  /\ shootout' = Marked(shootout, result)

Next ==
  \/ FirstQuestion
  \/ DoShootoutNextQuestion
  \/ \E result \in Results : DoShootoutMark(result)

Spec == Init /\ [][Next]_shootout

-----------------------------------------------------------------------------
\* The winner is nobody or a finalist, and the turn is one side's.
TypeOK == shootout \in Shootouts({Finalists[1], Finalists[2]})

(* What the shootout promises, in terms of the answers given so far: the   *)
(* sides take turns, and it is over exactly when the outcome of regulation *)
(* can no longer change, or when a sudden-death wave separates the two.    *)

Given(side) ==
  Cardinality({i \in DOMAIN shootout.rounds :
                 Answer(shootout.rounds[i], side) # Unanswered})

RegulationWaves == {i \in DOMAIN shootout.rounds : i <= RegulationRounds}

RegulationScore(side) ==
  Cardinality({i \in RegulationWaves :
                 Answer(shootout.rounds[i], side) = "correct"})

\* a side's final regulation score lies between its score and its score plus
\* the waves it has still to answer
Best(side)  == RegulationScore(side) + RegulationRounds
                 - Cardinality({i \in RegulationWaves :
                                  Answer(shootout.rounds[i], side) # Unanswered})
Worst(side) == RegulationScore(side)

Settled(side) == Worst(side) > Best(1 - side)

SuddenDeathWon(side) ==
  \E i \in DOMAIN shootout.rounds :
    /\ i > RegulationRounds
    /\ shootout.rounds[i].p0 # Unanswered /\ shootout.rounds[i].p1 # Unanswered
    /\ Answer(shootout.rounds[i], side) = "correct"
    /\ Answer(shootout.rounds[i], 1 - side) # "correct"

\* A side that has won after equal turns deserved it and the match is declared
\* there and then: whenever both sides have answered equally often, the winner
\* checkShootoutEnd declares is the side whose lead the other can no longer
\* level, whatever the remaining answers, or the side that won a sudden-death
\* wave; and there is no winner while neither is so.
WinnerIffDecided ==
  Given(0) = Given(1) =>
    \A side \in {0, 1} :
      shootout.winner = shootout.order[side + 1]
        <=> Settled(side) \/ SuddenDeathWon(side)

\* Nobody wins, or loses, with one answer fewer than the other: checkShootoutEnd
\* returns early on a half-answered wave, and DoShootoutMark alternates.
FairTurns ==
  /\ Given(0) - Given(1) = (IF shootout.winner = NoPlayer THEN shootout.turn ELSE 0)
  /\ shootout.winner # NoPlayer => ~shootout.question

\* An answer given is never changed, a later mark only extends the record, and
\* a decided shootout never changes again, until a new game starts from nothing:
\* DoShootoutMark writes the current wave only, and has no question to mark once
\* a winner stands.
RecordIsFinal ==
  [][\/ shootout' = ShootoutOf(Finalists[1], Finalists[2])
     \/ /\ shootout.winner = NoPlayer
        /\ \A i \in DOMAIN shootout.rounds, side \in {0, 1} :
             Answer(shootout.rounds[i], side) # Unanswered
               => Answer(shootout'.rounds[i], side) = Answer(shootout.rounds[i], side)
    ]_shootout
=============================================================================
