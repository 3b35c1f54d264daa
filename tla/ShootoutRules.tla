---------------------------- MODULE ShootoutRules ----------------------------
(***************************************************************************)
(* The final one-on-one as operators on the value the code keeps in        *)
(* State.Shootout (internal/room/state.go, internal/room/actions.go).      *)
(*                                                                         *)
(* The two finalists answer in waves.  A shootout is a record; the nil     *)
(* pointer is NoShootout.  Positions p0 and p1 of a wave are indexes into  *)
(* order, as in the code; an answer is a string and anything but "correct" *)
(* scores nothing.                                                         *)
(*                                                                         *)
(* A definition X_Bug before a definition X is X with a mistake in it; the *)
(* properties must notice when it takes the place of X.                    *)
(***************************************************************************)
EXTENDS Integers, Sequences, FiniteSets

CONSTANT RegulationRounds   \* shootoutRegulationRounds, 5 in the code

ASSUME RegulationRoundsAssumption == RegulationRounds \in Nat \ {0}

NoPlayer == 0               \* the empty id; real ids are positive

Results == {"correct", "incorrect"}

Unanswered == "unanswered"

Waves == [p0 : Results \cup {Unanswered}, p1 : Results \cup {Unanswered}]

BlankWave == [p0 |-> Unanswered, p1 |-> Unanswered]

ShootoutOf(a, b) ==
  [order |-> <<a, b>>, rounds |-> <<>>, roundIndex |-> 0, turn |-> 0,
   question |-> FALSE, sudden |-> FALSE, winner |-> NoPlayer]

\* order is empty only in the record that stands for the nil pointer
NoShootout ==
  [order |-> <<>>, rounds |-> <<>>, roundIndex |-> 0, turn |-> 0,
   question |-> FALSE, sudden |-> FALSE, winner |-> NoPlayer]

Shootouts(P) ==
  [order : {<<>>} \cup (P \X P), rounds : Seq(Waves), roundIndex : Nat,
   turn : {0, 1}, question : BOOLEAN, sudden : BOOLEAN,
   winner : P \cup {NoPlayer}]

-----------------------------------------------------------------------------
(* scoreOf: the correct answers of one side over all waves recorded.       *)

Answer(wave, side) == IF side = 0 THEN wave.p0 ELSE wave.p1

ScoreOf(sh, side) ==
  Cardinality({i \in DOMAIN sh.rounds : Answer(sh.rounds[i], side) = "correct"})

-----------------------------------------------------------------------------
(* DoShootoutMark up to checkShootoutEnd: record the answer of the side    *)
(* whose turn it is, growing the list of waves up to the current one.      *)

Padded(rounds, n) ==
  [i \in 1 .. (IF Len(rounds) < n THEN n ELSE Len(rounds)) |->
     IF i <= Len(rounds) THEN rounds[i] ELSE BlankWave]

Recorded(sh, result) ==
  LET n    == sh.roundIndex + 1
      wave == Padded(sh.rounds, n)[n]
  IN [sh EXCEPT !.rounds = [Padded(sh.rounds, n) EXCEPT
                              ![n] = IF sh.turn = 0
                                     THEN [wave EXCEPT !.p0 = result]
                                     ELSE [wave EXCEPT !.p1 = result]],
                !.question = FALSE]

(* checkShootoutEnd decides only when both sides of the current wave have  *)
(* answered: by the score once regulation is over, earlier when one side   *)
(* can no longer be caught, and wave by wave in sudden death.              *)

WaveComplete_FirstOnly(sh) == sh.roundIndex < Len(sh.rounds)

WaveComplete(sh) ==
  /\ sh.roundIndex < Len(sh.rounds)
  /\ sh.rounds[sh.roundIndex + 1].p0 # Unanswered
  /\ sh.rounds[sh.roundIndex + 1].p1 # Unanswered

Remaining_OneMore(sh) == RegulationRounds - sh.roundIndex

Remaining(sh) == RegulationRounds - (sh.roundIndex + 1)

Declared(sh, side) == [sh EXCEPT !.winner = sh.order[side + 1]]

RegulationEnd(sh) ==
  LET sc0 == ScoreOf(sh, 0)
      sc1 == ScoreOf(sh, 1)
  IN IF Remaining(sh) <= 0
     THEN IF sc0 # sc1
          THEN Declared(sh, IF sc0 > sc1 THEN 0 ELSE 1)
          ELSE [sh EXCEPT !.sudden = TRUE]
     ELSE IF sc0 > sc1 + Remaining(sh) THEN Declared(sh, 0)
     ELSE IF sc1 > sc0 + Remaining(sh) THEN Declared(sh, 1)
     ELSE sh

SuddenEnd(sh) ==
  LET wave == sh.rounds[sh.roundIndex + 1]
  IN IF wave.p0 = "correct" /\ wave.p1 # "correct" THEN Declared(sh, 0)
     ELSE IF wave.p1 = "correct" /\ wave.p0 # "correct" THEN Declared(sh, 1)
     ELSE sh

CheckShootoutEnd(sh) ==
  IF ~WaveComplete(sh) THEN sh
  ELSE IF sh.sudden THEN SuddenEnd(sh) ELSE RegulationEnd(sh)

(* The rest of DoShootoutMark: without a winner the turn passes and the    *)
(* next question is pulled; with one the shootout stays as it is.          *)

TurnPassed_ThirdSide(sh) ==
  [sh EXCEPT !.turn = sh.turn + 1, !.question = TRUE]

TurnPassed_SameWave(sh) ==
  [sh EXCEPT !.turn = 1 - sh.turn, !.question = TRUE]

TurnPassed(sh) ==
  [sh EXCEPT !.turn = 1 - sh.turn,
             !.roundIndex = IF sh.turn = 0 THEN sh.roundIndex
                                           ELSE sh.roundIndex + 1,
             !.question = TRUE]

CanMark(sh) == sh # NoShootout /\ sh.question

Marked(sh, result) ==
  LET checked == CheckShootoutEnd(Recorded(sh, result))
  IN IF checked.winner = NoPlayer THEN TurnPassed(checked) ELSE checked

(* DoShootoutNextQuestion.                                                 *)

CanAsk(sh) == sh # NoShootout /\ sh.winner = NoPlayer

Asked(sh) == [sh EXCEPT !.question = TRUE]
=============================================================================
