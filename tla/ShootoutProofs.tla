---------------------------- MODULE ShootoutProofs ----------------------------
(***************************************************************************)
(* Lemmas about the rules of the shootout, one for each operator of        *)
(* ShootoutRules.tla that a handler applies: what it keeps of a shootout's *)
(* type, and of the order in which answers are recorded.                   *)
(***************************************************************************)
EXTENDS ShootoutRules, TLAPS, FiniteSetTheorems

-----------------------------------------------------------------------------
(* The shootout keeps its type, and its finalists, through every rule.     *)

\* a shootout that exists has two finalists
Begun(sh, Players) == sh \in Shootouts(Players) /\ sh.order \in Players \X Players

\* The shootout DoContinueAfterElimination creates has its two finalists.
LEMMA ShootoutOfBegun ==
  ASSUME NEW P, NEW a \in P, NEW b \in P
  PROVE  Begun(ShootoutOf(a, b), P)
BY DEF Begun, ShootoutOf, Shootouts

\* NoShootout is a value no shootout with finalists can be taken for.
LEMMA BegunIsNotNil ==
  ASSUME NEW P, NEW sh, Begun(sh, P)
  PROVE  sh # NoShootout
<1>1. NoShootout.order = <<>>
  BY DEF NoShootout
<1>2. <<>> \notin P \X P
  OBVIOUS
<1> QED BY <1>1, <1>2 DEF Begun

\* The nil pointer is a value of State.Shootout, whatever the roster.
LEMMA NilIsAShootout ==
  ASSUME NEW P
  PROVE  NoShootout \in Shootouts(P)
BY DEF NoShootout, Shootouts

\* Pulling a question keeps the finalists.
LEMMA AskedBegun ==
  ASSUME NEW P, NEW sh, Begun(sh, P)
  PROVE  Begun(Asked(sh), P)
BY DEF Begun, Asked, Shootouts

\* Growing the list of waves keeps it a list of waves, long enough.
LEMMA PaddedType ==
  ASSUME NEW rounds \in Seq(Waves), NEW n \in Nat
  PROVE  /\ Padded(rounds, n) \in Seq(Waves)
         /\ n \in DOMAIN Padded(rounds, n) \/ n = 0
<1> DEFINE m == IF Len(rounds) < n THEN n ELSE Len(rounds)
<1>1. m \in Nat /\ m >= n
  OBVIOUS
<1>2. BlankWave \in Waves
  BY DEF BlankWave, Waves
<1>3. Padded(rounds, n) \in [1 .. m -> Waves]
  BY <1>2 DEF Padded
<1> QED BY <1>1, <1>3

\* Recording an answer keeps the finalists and leaves a wave for this turn.
LEMMA RecordedBegun ==
  ASSUME NEW P, NEW sh, Begun(sh, P), NEW result \in Results
  PROVE  Begun(Recorded(sh, result), P)
<1> DEFINE n == sh.roundIndex + 1
           rs == Padded(sh.rounds, n)
           w  == IF sh.turn = 0 THEN [rs[n] EXCEPT !.p0 = result]
                                ELSE [rs[n] EXCEPT !.p1 = result]
<1>1. n \in Nat \ {0} /\ sh.rounds \in Seq(Waves)
  BY DEF Begun, Shootouts
<1>2. rs \in Seq(Waves) /\ n \in DOMAIN rs
  BY <1>1, PaddedType
<1>3. w \in Waves
  <2>1. rs[n] \in Waves
    BY <1>2
  <2> QED BY <2>1 DEF Waves
<1>4. [rs EXCEPT ![n] = w] \in Seq(Waves)
  <2> HIDE DEF rs, w, n
  <2> QED BY <1>2, <1>3
<1>5. Recorded(sh, result) = [sh EXCEPT !.rounds = [rs EXCEPT ![n] = w],
                                        !.question = FALSE]
  BY DEF Recorded
<1> HIDE DEF rs, w, n
<1> QED BY <1>4, <1>5 DEF Begun, Shootouts

\* checkShootoutEnd may declare one of the finalists or start sudden death.
LEMMA CheckedBegun ==
  ASSUME NEW P, NEW sh, Begun(sh, P)
  PROVE  Begun(CheckShootoutEnd(sh), P)
<1>1. ASSUME NEW side \in {0, 1} PROVE Begun(Declared(sh, side), P)
  <2>1. sh.order[side + 1] \in P
    BY DEF Begun
  <2> QED BY <2>1 DEF Begun, Declared, Shootouts
<1>2. Begun([sh EXCEPT !.sudden = TRUE], P)
  BY DEF Begun, Shootouts
<1>3. Begun(RegulationEnd(sh), P)
  BY <1>1, <1>2 DEF RegulationEnd
<1>4. Begun(SuddenEnd(sh), P)
  BY <1>1 DEF SuddenEnd
<1> QED BY <1>3, <1>4 DEF CheckShootoutEnd

\* A mark keeps the finalists, and its winner, if any, is one of them.
LEMMA MarkedBegun ==
  ASSUME NEW P, NEW sh, Begun(sh, P), NEW result \in Results
  PROVE  Begun(Marked(sh, result), P)
<1> DEFINE checked == CheckShootoutEnd(Recorded(sh, result))
<1>1. Begun(checked, P)
  BY RecordedBegun, CheckedBegun
<1>2. Begun(TurnPassed(checked), P)
  <2> HIDE DEF checked
  <2>1. /\ checked.turn \in {0, 1} /\ checked.roundIndex \in Nat
        /\ checked \in Shootouts(P)
    BY <1>1 DEF Begun, Shootouts
  <2>2. /\ 1 - checked.turn \in {0, 1}
        /\ (IF checked.turn = 0 THEN checked.roundIndex
                                ELSE checked.roundIndex + 1) \in Nat
    BY <2>1
  <2> QED BY <1>1, <2>2 DEF Begun, TurnPassed, Shootouts
<1> QED BY <1>1, <1>2 DEF Marked

\* No rule changes who the finalists are.
LEMMA SameOrder ==
  ASSUME NEW P, NEW sh, Begun(sh, P), NEW result \in Results
  PROVE  Asked(sh).order = sh.order /\ Marked(sh, result).order = sh.order
<1> DEFINE rec == Recorded(sh, result)
           checked == CheckShootoutEnd(rec)
<1>1. Asked(sh).order = sh.order /\ rec.order = sh.order
  BY DEF Asked, Recorded, Begun, Shootouts
<1>2. Begun(rec, P) /\ Begun(checked, P)
  BY RecordedBegun, CheckedBegun
<1> HIDE DEF rec
<1>3. checked.order = rec.order
  <2>1. \/ checked = rec
        \/ checked = [rec EXCEPT !.sudden = TRUE]
        \/ checked = Declared(rec, 0)
        \/ checked = Declared(rec, 1)
    BY DEF CheckShootoutEnd, RegulationEnd, SuddenEnd
  <2> HIDE DEF checked
  <2> QED BY <2>1, <1>2 DEF Begun, Shootouts, Declared
<1>4. Marked(sh, result) = IF checked.winner = NoPlayer THEN TurnPassed(checked) ELSE checked
  BY DEF Marked, rec
<1>5. TurnPassed(checked).order = checked.order
  <2> HIDE DEF checked
  <2> QED BY <1>2 DEF TurnPassed, Begun, Shootouts
<1> HIDE DEF checked
<1> QED BY <1>1, <1>3, <1>4, <1>5

\* A mark of an undecided shootout leaves it undecided, or one of the two has won
\* it and there is nothing more to answer.
LEMMA MarkedOutcome ==
  ASSUME NEW P, NEW sh, Begun(sh, P), sh.winner = NoPlayer, NEW result \in Results
  PROVE  LET marked == Marked(sh, result)
         IN \/ marked.winner = NoPlayer
            \/ marked.winner \in {sh.order[1], sh.order[2]} /\ ~marked.question
<1> DEFINE rec == Recorded(sh, result)
           checked == CheckShootoutEnd(rec)
<1>1. rec.order = sh.order /\ rec.winner = NoPlayer /\ rec.question = FALSE
  BY DEF Recorded, Begun, Shootouts
<1>2. Begun(rec, P) /\ Begun(checked, P)
  BY RecordedBegun, CheckedBegun
<1> HIDE DEF rec
<1>3. /\ checked.question = FALSE
      /\ checked.winner \in {NoPlayer, sh.order[1], sh.order[2]}
  <2>1. \/ checked = rec
        \/ checked = [rec EXCEPT !.sudden = TRUE]
        \/ checked = [rec EXCEPT !.winner = rec.order[1]]
        \/ checked = [rec EXCEPT !.winner = rec.order[2]]
    <3>1. /\ Declared(rec, 0) = [rec EXCEPT !.winner = rec.order[1]]
          /\ Declared(rec, 1) = [rec EXCEPT !.winner = rec.order[2]]
      BY DEF Declared
    <3>2. SuddenEnd(rec) \in {rec, Declared(rec, 0), Declared(rec, 1)}
      BY DEF SuddenEnd
    <3>3. \/ RegulationEnd(rec) \in {rec, Declared(rec, 0), Declared(rec, 1)}
          \/ RegulationEnd(rec) = [rec EXCEPT !.sudden = TRUE]
      BY DEF RegulationEnd
    <3> QED BY <3>1, <3>2, <3>3 DEF CheckShootoutEnd
  <2> HIDE DEF checked
  <2> QED BY <2>1, <1>1, <1>2 DEF Begun, Shootouts
<1>4. Marked(sh, result) = IF checked.winner = NoPlayer THEN TurnPassed(checked) ELSE checked
  BY DEF Marked, rec
<1>5. TurnPassed(checked).winner = checked.winner
  <2> HIDE DEF checked
  <2> QED BY <1>2 DEF TurnPassed, Begun, Shootouts
<1> HIDE DEF checked
<1> QED BY <1>3, <1>4, <1>5

-----------------------------------------------------------------------------
(* The answers recorded.  Waves are filled one after the other, first      *)
(* finalist first; the wave under way is the last, and has its first       *)
(* answer exactly when it is the second finalist's turn.                   *)

Running(sh) == sh.winner = NoPlayer

InOrder(sh) ==
  /\ Len(sh.rounds) = IF Running(sh) /\ sh.turn = 0 THEN sh.roundIndex
                                                    ELSE sh.roundIndex + 1
  /\ \A i \in DOMAIN sh.rounds :
       /\ sh.rounds[i].p0 # Unanswered
       /\ sh.rounds[i].p1 = Unanswered
            <=> Running(sh) /\ sh.turn = 1 /\ i = Len(sh.rounds)
  /\ ~Running(sh) => ~sh.question

\* what DoShootoutMark may do to the answers already given
Extends(later, rounds) ==
  \A i \in DOMAIN rounds, side \in {0, 1} :
    Answer(rounds[i], side) # Unanswered
      => Answer(later[i], side) = Answer(rounds[i], side)

\* the record with the answer of the side whose turn it is
Written(rec, sh) ==
  /\ rec.turn = sh.turn /\ rec.roundIndex = sh.roundIndex
  /\ rec.winner = NoPlayer /\ rec.question = FALSE
  /\ Len(rec.rounds) = sh.roundIndex + 1
  /\ \A i \in DOMAIN rec.rounds :
       /\ rec.rounds[i].p0 # Unanswered
       /\ rec.rounds[i].p1 = Unanswered <=> sh.turn = 0 /\ i = Len(rec.rounds)
  /\ Extends(rec.rounds, sh.rounds)

\* A new shootout has no answers.
LEMMA ShootoutOfInOrder ==
  ASSUME NEW a, NEW b
  PROVE  InOrder(ShootoutOf(a, b))
BY DEF InOrder, ShootoutOf, Running

\* A question may be pulled while there is no winner, and touches no answer.
LEMMA AskedInOrder ==
  ASSUME NEW P, NEW sh, Begun(sh, P), InOrder(sh), Running(sh)
  PROVE  InOrder(Asked(sh)) /\ Asked(sh).rounds = sh.rounds
BY DEF Begun, InOrder, Running, Asked, Shootouts

\* The answer goes to the one open place of the current wave, a wave that is new
\* when the first finalist answers.
LEMMA RecordedInOrder ==
  ASSUME NEW P, NEW sh, Begun(sh, P), InOrder(sh), Running(sh),
         NEW result \in Results, NEW rec, rec = Recorded(sh, result)
  PROVE  Written(rec, sh)
<1> DEFINE n == sh.roundIndex + 1
           rs == Padded(sh.rounds, n)
           w  == IF sh.turn = 0 THEN [rs[n] EXCEPT !.p0 = result]
                                ELSE [rs[n] EXCEPT !.p1 = result]
           after == [rs EXCEPT ![n] = w]
<1>1. /\ sh.roundIndex \in Nat /\ sh.rounds \in Seq(Waves) /\ sh.turn \in {0, 1}
      /\ n \in Nat \ {0}
      /\ Len(sh.rounds) = IF sh.turn = 0 THEN n - 1 ELSE n
  BY DEF Begun, Shootouts, InOrder
<1>2. rs = [i \in 1 .. n |-> IF i <= Len(sh.rounds) THEN sh.rounds[i] ELSE BlankWave]
  BY <1>1 DEF Padded
<1>3. /\ rs[n] = IF sh.turn = 0 THEN BlankWave ELSE sh.rounds[n]
      /\ rs[n] \in Waves
      /\ \A i \in DOMAIN sh.rounds : rs[i] = sh.rounds[i] /\ i \in 1 .. n
  <2> HIDE DEF n, rs
  <2>1. BlankWave \in Waves
    BY DEF BlankWave, Waves
  <2>2. rs[n] = IF n <= Len(sh.rounds) THEN sh.rounds[n] ELSE BlankWave
    BY <1>1, <1>2
  <2>3. rs[n] = IF sh.turn = 0 THEN BlankWave ELSE sh.rounds[n]
    BY <1>1, <2>2
  <2>4. sh.turn # 0 => sh.rounds[n] \in Waves
    BY <1>1
  <2>5. \A i \in DOMAIN sh.rounds : i \in 1 .. n /\ i <= Len(sh.rounds)
    BY <1>1
  <2> QED BY <1>2, <2>1, <2>3, <2>4, <2>5
<1>4. /\ w.p0 # Unanswered
      /\ w.p1 = Unanswered <=> sh.turn = 0
      /\ sh.turn = 1 => w.p0 = sh.rounds[n].p0 /\ sh.rounds[n].p1 = Unanswered
  <2>1. CASE sh.turn = 0
    BY <2>1, <1>3 DEF BlankWave, Waves, Results, Unanswered
  <2>2. CASE sh.turn = 1
    <3>1. n \in DOMAIN sh.rounds /\ n = Len(sh.rounds)
      BY <2>2, <1>1
    <3>2. sh.rounds[n].p0 # Unanswered /\ sh.rounds[n].p1 = Unanswered
      BY <3>1, <2>2 DEF InOrder
    <3>3. w = [sh.rounds[n] EXCEPT !.p1 = result] /\ sh.rounds[n] \in Waves
      BY <2>2, <1>3
    <3>4. w.p0 = sh.rounds[n].p0 /\ w.p1 = result
      BY <3>3 DEF Waves
    <3>5. result # Unanswered
      BY DEF Results, Unanswered
    <3> QED BY <3>2, <3>4, <3>5, <2>2
  <2> QED BY <2>1, <2>2, <1>1
<1>5. /\ DOMAIN after = 1 .. n /\ after[n] = w
      /\ \A i \in 1 .. n : i # n => after[i] = sh.rounds[i] /\ i \in DOMAIN sh.rounds
  <2> HIDE DEF w
  <2> QED BY <1>1, <1>2
<1>6. rec = [sh EXCEPT !.rounds = after, !.question = FALSE]
  BY DEF Recorded
<1>7. /\ rec.rounds = after /\ rec.question = FALSE /\ rec.turn = sh.turn
      /\ rec.roundIndex = sh.roundIndex /\ rec.winner = sh.winner
  <2> HIDE DEF after
  <2> QED BY <1>6 DEF Begun, Shootouts
<1>8. Len(after) = n
  <2> HIDE DEF w, rs
  <2>1. Begun(rec, P)
    BY RecordedBegun
  <2>2. after \in Seq(Waves)
    BY <1>7, <2>1 DEF Begun, Shootouts
  <2> QED BY <2>2, <1>5, <1>1
<1>9. ASSUME NEW i \in 1 .. n
      PROVE  /\ after[i].p0 # Unanswered
             /\ after[i].p1 = Unanswered <=> sh.turn = 0 /\ i = n
  <2>1. CASE i = n
    BY <2>1, <1>4, <1>5
  <2>2. CASE i # n
    <3>1. after[i] = sh.rounds[i] /\ i \in DOMAIN sh.rounds
      BY <2>2, <1>5
    <3>2. ~(sh.turn = 1 /\ i = Len(sh.rounds))
      BY <2>2, <1>1
    <3> QED BY <3>1, <3>2, <2>2 DEF InOrder
  <2> QED BY <2>1, <2>2
<1>10. Extends(after, sh.rounds)
  <2> SUFFICES ASSUME NEW i \in DOMAIN sh.rounds, NEW side \in {0, 1},
                      Answer(sh.rounds[i], side) # Unanswered
               PROVE  Answer(after[i], side) = Answer(sh.rounds[i], side)
    BY DEF Extends
  <2>1. CASE i # n
    BY <2>1, <1>3, <1>5
  <2>2. CASE i = n
    <3>1. sh.turn = 1
      BY <2>2, <1>1
    <3>2. side = 0
      BY <3>1, <2>2, <1>4 DEF Answer
    <3> QED BY <3>1, <3>2, <2>2, <1>4, <1>5 DEF Answer
  <2> QED BY <2>1, <2>2
<1> HIDE DEF after, n
<1>11. n = sh.roundIndex + 1
  BY DEF n
<1> QED BY <1>5, <1>7, <1>8, <1>9, <1>10, <1>11 DEF Running, Written

\* checkShootoutEnd looks at no wave but a complete one, and decides or leaves
\* things as they are; the answers it never touches.
LEMMA CheckedInOrder ==
  ASSUME NEW P, NEW sh, Begun(sh, P), NEW checked, checked = CheckShootoutEnd(sh),
         NoPlayer \notin P, sh.winner = NoPlayer
  PROVE  /\ checked.rounds = sh.rounds /\ checked.turn = sh.turn
         /\ checked.roundIndex = sh.roundIndex /\ checked.question = sh.question
         /\ ~WaveComplete(sh) => checked.winner = NoPlayer
<1>1. ASSUME NEW side \in {0, 1}
      PROVE  /\ Declared(sh, side).rounds = sh.rounds
             /\ Declared(sh, side).turn = sh.turn
             /\ Declared(sh, side).roundIndex = sh.roundIndex
             /\ Declared(sh, side).question = sh.question
  BY DEF Declared, Begun, Shootouts
<1>2. \/ checked = sh
      \/ checked = [sh EXCEPT !.sudden = TRUE]
      \/ checked = Declared(sh, 0)
      \/ checked = Declared(sh, 1)
  BY DEF CheckShootoutEnd, RegulationEnd, SuddenEnd
<1>3. ~WaveComplete(sh) => checked = sh
  BY DEF CheckShootoutEnd
<1> QED BY <1>1, <1>2, <1>3 DEF Begun, Shootouts

\* A mark fills the next place, never one that was filled, and a match it decides
\* has both answers of its last wave.
LEMMA MarkedInOrder ==
  ASSUME NEW P, NEW sh, Begun(sh, P), InOrder(sh), Running(sh), NoPlayer \notin P,
         NEW result \in Results
  PROVE  /\ InOrder(Marked(sh, result))
         /\ Extends(Marked(sh, result).rounds, sh.rounds)
<1> DEFINE rec == Recorded(sh, result)
           checked == CheckShootoutEnd(rec)
           after == Marked(sh, result)
<1>1. Written(rec, sh)
  <2>1. Written(Recorded(sh, result), sh)
    BY RecordedInOrder
  <2> QED BY <2>1
<1>2. Begun(rec, P) /\ Begun(checked, P)
  BY RecordedBegun, CheckedBegun
<1>3. /\ checked.rounds = rec.rounds /\ checked.turn = sh.turn
      /\ checked.roundIndex = sh.roundIndex /\ checked.question = FALSE
      /\ ~WaveComplete(rec) => checked.winner = NoPlayer
  <2> HIDE DEF rec
  <2> QED BY <1>1, <1>2, CheckedInOrder DEF checked, Written
<1>4. sh.turn \in {0, 1} /\ sh.roundIndex \in Nat /\ rec.rounds \in Seq(Waves)
  BY <1>2 DEF Begun, Shootouts
<1>5. sh.turn = 0 => ~WaveComplete(rec)
  <2> HIDE DEF rec
  <2>1. sh.roundIndex + 1 \in DOMAIN rec.rounds
    BY <1>1, <1>4 DEF Written
  <2> QED BY <1>1, <2>1 DEF WaveComplete, Written
<1>6. CASE checked.winner = NoPlayer
  <2>1. after = TurnPassed(checked)
    BY <1>6 DEF Marked
  <2> HIDE DEF rec, checked, after
  <2>2. /\ after.rounds = rec.rounds /\ after.winner = NoPlayer
        /\ after.turn = 1 - sh.turn
        /\ after.roundIndex = IF sh.turn = 0 THEN sh.roundIndex ELSE sh.roundIndex + 1
    BY <2>1, <1>2, <1>3, <1>6 DEF TurnPassed, Begun, Shootouts
  <2>3. InOrder(after)
    <3>1. CASE sh.turn = 0
      BY <3>1, <2>2, <1>1 DEF InOrder, Running, Written
    <3>2. CASE sh.turn = 1
      BY <3>2, <2>2, <1>1 DEF InOrder, Running, Written
    <3> QED BY <3>1, <3>2, <1>4
  <2> QED BY <2>2, <2>3, <1>1 DEF after, Written
<1>7. CASE checked.winner # NoPlayer
  <2>1. after = checked
    BY <1>7 DEF Marked
  <2>2. sh.turn = 1
    BY <1>3, <1>4, <1>5, <1>7
  <2> HIDE DEF rec, checked, after
  <2>3. InOrder(after)
    BY <2>1, <2>2, <1>1, <1>3, <1>7 DEF InOrder, Running, Written
  <2> QED BY <2>1, <2>3, <1>1, <1>3 DEF after, Written
<1> QED BY <1>6, <1>7

-----------------------------------------------------------------------------
(* The decision.  checkShootoutEnd compares the scores after each complete *)
(* wave; what it leaves is a match that is open in regulation, or level    *)
(* with only level waves after it, or decided by its last wave.            *)

Correct(wave, side) == Answer(wave, side) = "correct"

Reg(sh, side) ==
  Cardinality({i \in DOMAIN sh.rounds :
                 i <= RegulationRounds /\ Correct(sh.rounds[i], side)})

\* the other side cannot level any more in the waves left of regulation
Ahead(sh, side) ==
  Reg(sh, side) > Reg(sh, 1 - side) + (RegulationRounds - Len(sh.rounds))

Alone(wave, side) == Correct(wave, side) /\ ~Correct(wave, 1 - side)

WonLast(sh, side) == Alone(sh.rounds[Len(sh.rounds)], side)

LevelSince(sh) ==
  /\ Reg(sh, 0) = Reg(sh, 1)
  /\ \A i \in DOMAIN sh.rounds :
       i > RegulationRounds /\ i <= sh.roundIndex =>
         (Correct(sh.rounds[i], 0) <=> Correct(sh.rounds[i], 1))

Due(sh) ==
  /\ sh.sudden => sh.roundIndex >= RegulationRounds
  /\ sh.roundIndex >= RegulationRounds => sh.sudden
  /\ sh.sudden => LevelSince(sh)
  /\ Running(sh) /\ sh.turn = 0 /\ ~sh.sudden => ~Ahead(sh, 0) /\ ~Ahead(sh, 1)
  /\ ~Running(sh) =>
       \E side \in {0, 1} :
         /\ sh.winner = sh.order[side + 1]
         /\ sh.sudden => WonLast(sh, side)
         /\ ~sh.sudden => Ahead(sh, side)

\* There are finitely many waves, so a score is a number.
LEMMA RegIsCounted ==
  ASSUME NEW sh, sh.rounds \in Seq(Waves), NEW side
  PROVE  Reg(sh, side) \in Nat
<1>1. Len(sh.rounds) \in Nat /\ DOMAIN sh.rounds = 1 .. Len(sh.rounds)
  OBVIOUS
<1>2. IsFiniteSet(DOMAIN sh.rounds)
  <2>1. IsFiniteSet(1 .. Len(sh.rounds))
    BY <1>1, FS_Interval
  <2> QED BY <2>1, <1>1
<1>3. IsFiniteSet({i \in DOMAIN sh.rounds :
                     i <= RegulationRounds /\ Correct(sh.rounds[i], side)})
  BY <1>2, FS_Subset
<1> QED BY <1>3, FS_CardinalityType DEF Reg

\* A new match is open: no wave has been played, and regulation has at least one.
LEMMA ShootoutOfDue ==
  ASSUME NEW a, NEW b
  PROVE  Due(ShootoutOf(a, b))
<1> DEFINE sh == ShootoutOf(a, b)
<1>1. /\ sh.rounds = <<>> /\ sh.roundIndex = 0 /\ sh.sudden = FALSE
      /\ sh.winner = NoPlayer
  BY DEF ShootoutOf
<1>2. RegulationRounds \in Nat /\ RegulationRounds > 0
  BY RegulationRoundsAssumption
<1>3. \A side : Reg(sh, side) = 0
  <2> SUFFICES ASSUME NEW side PROVE Reg(sh, side) = 0
    OBVIOUS
  <2>1. {i \in DOMAIN sh.rounds :
           i <= RegulationRounds /\ Correct(sh.rounds[i], side)} = {}
    BY <1>1
  <2> QED BY <2>1, FS_EmptySet DEF Reg
<1>4. ~Ahead(sh, 0) /\ ~Ahead(sh, 1)
  <2> HIDE DEF sh
  <2>1. Len(sh.rounds) = 0 /\ Reg(sh, 0) = 0 /\ Reg(sh, 1) = 0 /\ 1 - 0 = 1 /\ 1 - 1 = 0
    BY <1>1, <1>3
  <2> QED BY <1>2, <2>1 DEF Ahead
<1> HIDE DEF sh
<1>5. Due(sh)
  BY <1>1, <1>2, <1>4 DEF Due, Running
<1> QED BY <1>5 DEF sh

\* Pulling a question decides nothing.
LEMMA AskedDue ==
  ASSUME NEW P, NEW sh, Begun(sh, P), Due(sh)
  PROVE  Due(Asked(sh))
<1> DEFINE after == Asked(sh)
<1>1. /\ after.rounds = sh.rounds /\ after.roundIndex = sh.roundIndex
      /\ after.turn = sh.turn /\ after.sudden = sh.sudden
      /\ after.winner = sh.winner /\ after.order = sh.order
  BY DEF Asked, Begun, Shootouts
<1> HIDE DEF after
<1>2. /\ \A side : Reg(after, side) = Reg(sh, side)
      /\ \A side : Ahead(after, side) <=> Ahead(sh, side)
      /\ \A side : WonLast(after, side) <=> WonLast(sh, side)
      /\ LevelSince(after) <=> LevelSince(sh)
      /\ Running(after) <=> Running(sh)
  BY <1>1 DEF Reg, Ahead, WonLast, LevelSince, Running
<1>3. Due(after)
  BY <1>1, <1>2 DEF Due
<1> QED BY <1>3 DEF after

\* What a new shootout record must agree with to be due for the same reasons.
Twins(a, b) ==
  /\ a.rounds = b.rounds /\ a.order = b.order
  /\ \A side : Reg(a, side) = Reg(b, side)
  /\ \A side : Ahead(a, side) <=> Ahead(b, side)
  /\ \A side : WonLast(a, side) <=> WonLast(b, side)

LEMMA SameRoundsTwins ==
  ASSUME NEW a, NEW b, a.rounds = b.rounds, a.order = b.order
  PROVE  Twins(a, b)
BY DEF Twins, Reg, Ahead, WonLast

\* An answer of sudden death changes nothing of what went before its wave.
LEMMA RecordedKeepsLevel ==
  ASSUME NEW P, NEW sh, Begun(sh, P), InOrder(sh), Running(sh), LevelSince(sh),
         sh.roundIndex >= RegulationRounds,
         NEW rec, Begun(rec, P), Written(rec, sh)
  PROVE  LevelSince(rec)
<1>1. /\ sh.roundIndex \in Nat /\ rec.rounds \in Seq(Waves) /\ sh.rounds \in Seq(Waves)
      /\ sh.turn \in {0, 1} /\ RegulationRounds \in Nat
      /\ Len(rec.rounds) = sh.roundIndex + 1 /\ rec.roundIndex = sh.roundIndex
      /\ Len(sh.rounds) = IF sh.turn = 0 THEN sh.roundIndex ELSE sh.roundIndex + 1
  BY RegulationRoundsAssumption DEF Begun, Shootouts, Written, InOrder
<1>2. ASSUME NEW i \in 1 .. sh.roundIndex, NEW side \in {0, 1}
      PROVE  Correct(rec.rounds[i], side) <=> Correct(sh.rounds[i], side)
  <2>1. i \in DOMAIN sh.rounds /\ ~(sh.turn = 1 /\ i = Len(sh.rounds))
    BY <1>1
  <2>2. sh.rounds[i].p0 # Unanswered /\ sh.rounds[i].p1 # Unanswered
    BY <2>1 DEF InOrder
  <2>3. Answer(sh.rounds[i], side) # Unanswered
    BY <2>2 DEF Answer
  <2>4. Answer(rec.rounds[i], side) = Answer(sh.rounds[i], side)
    BY <2>1, <2>3 DEF Written, Extends
  <2> QED BY <2>4 DEF Correct
<1>3. ASSUME NEW side \in {0, 1} PROVE Reg(rec, side) = Reg(sh, side)
  <2>1. \A i : i \in DOMAIN rec.rounds /\ i <= RegulationRounds
               <=> i \in 1 .. sh.roundIndex /\ i <= RegulationRounds
    BY <1>1
  <2>2. \A i : i \in DOMAIN sh.rounds /\ i <= RegulationRounds
               <=> i \in 1 .. sh.roundIndex /\ i <= RegulationRounds
    BY <1>1
  <2>3. {i \in DOMAIN rec.rounds : i <= RegulationRounds /\ Correct(rec.rounds[i], side)}
          = {i \in DOMAIN sh.rounds : i <= RegulationRounds /\ Correct(sh.rounds[i], side)}
    BY <2>1, <2>2, <1>2
  <2> QED BY <2>3 DEF Reg
<1>4. ASSUME NEW i \in DOMAIN rec.rounds, i > RegulationRounds, i <= rec.roundIndex
      PROVE  Correct(rec.rounds[i], 0) <=> Correct(rec.rounds[i], 1)
  <2>1. i \in 1 .. sh.roundIndex /\ i \in DOMAIN sh.rounds
    BY <1>1, <1>4
  <2> QED BY <2>1, <1>2, <1>4 DEF LevelSince
<1> QED BY <1>3, <1>4 DEF LevelSince

\* In regulation the score over all waves is the regulation score.
LEMMA ScoreIsReg ==
  ASSUME NEW sh, sh.rounds \in Seq(Waves), Len(sh.rounds) <= RegulationRounds, NEW side
  PROVE  ScoreOf(sh, side) = Reg(sh, side)
<1>1. \A i \in DOMAIN sh.rounds : i <= RegulationRounds
  BY RegulationRoundsAssumption
<1>2. {i \in DOMAIN sh.rounds : i <= RegulationRounds /\ Correct(sh.rounds[i], side)}
        = {i \in DOMAIN sh.rounds : Answer(sh.rounds[i], side) = "correct"}
  BY <1>1 DEF Correct
<1> QED BY <1>2 DEF Reg, ScoreOf

\* The first answer of a wave decides nothing.
LEMMA FirstAnswerDue ==
  ASSUME NEW P, NEW sh, Begun(sh, P), InOrder(sh), Running(sh), Due(sh), sh.turn = 0,
         NEW rec, Begun(rec, P), Written(rec, sh), rec.sudden = sh.sudden
  PROVE  Due(TurnPassed(rec))
<1> DEFINE after == TurnPassed(rec)
<1>1. /\ after.rounds = rec.rounds /\ after.roundIndex = sh.roundIndex
      /\ after.turn = 1 /\ after.sudden = sh.sudden /\ after.winner = NoPlayer
      /\ after.order = rec.order
  BY DEF TurnPassed, Begun, Shootouts, Written
<1> HIDE DEF after
<1>2. sh.sudden => LevelSince(after)
  <2> SUFFICES ASSUME sh.sudden PROVE LevelSince(after)
    OBVIOUS
  <2>1. LevelSince(rec)
    BY RecordedKeepsLevel DEF Due
  <2> QED BY <2>1, <1>1, SameRoundsTwins DEF Twins, LevelSince, Written
<1>3. Due(after)
  BY <1>1, <1>2 DEF Due, Running
<1> QED BY <1>3 DEF after

\* What checkShootoutEnd makes of a complete wave in regulation.
LEMMA RegulationDue ==
  ASSUME NEW P, NEW rec, Begun(rec, P), NoPlayer \notin P, rec.winner = NoPlayer,
         rec.turn = 1, ~rec.sudden, rec.roundIndex < RegulationRounds,
         Len(rec.rounds) = rec.roundIndex + 1,
         NEW checked, checked = RegulationEnd(rec)
  PROVE  Due(IF checked.winner = NoPlayer THEN TurnPassed(checked) ELSE checked)
<1> DEFINE left == RegulationRounds - Len(rec.rounds)
<1>1. /\ rec.roundIndex \in Nat /\ rec.rounds \in Seq(Waves)
      /\ RegulationRounds \in Nat /\ left \in Nat /\ Remaining(rec) = left
      /\ Len(rec.rounds) <= RegulationRounds
      /\ left = 0 <=> rec.roundIndex + 1 >= RegulationRounds
  BY RegulationRoundsAssumption DEF Begun, Shootouts, Remaining
<1>2. /\ ScoreOf(rec, 0) = Reg(rec, 0) /\ ScoreOf(rec, 1) = Reg(rec, 1)
      /\ Reg(rec, 0) \in Nat /\ Reg(rec, 1) \in Nat
  BY <1>1, ScoreIsReg, RegIsCounted
<1>3. /\ Ahead(rec, 0) <=> Reg(rec, 0) > Reg(rec, 1) + left
      /\ Ahead(rec, 1) <=> Reg(rec, 1) > Reg(rec, 0) + left
  BY DEF Ahead
<1> HIDE DEF left
<1>4. ASSUME NEW side \in {0, 1}, Ahead(rec, side), checked = Declared(rec, side)
      PROVE  checked.winner # NoPlayer /\ Due(checked)
  <2>1. /\ checked.winner = rec.order[side + 1] /\ checked.rounds = rec.rounds
        /\ checked.order = rec.order /\ checked.sudden = rec.sudden
        /\ checked.roundIndex = rec.roundIndex
    BY <1>4 DEF Declared, Begun, Shootouts
  <2>2. rec.order[side + 1] # NoPlayer
    BY DEF Begun
  <2>3. Ahead(checked, side)
    BY <2>1, <1>4, SameRoundsTwins DEF Twins
  <2>4. ~(rec.roundIndex >= RegulationRounds)
    BY <1>1
  <2> QED BY <2>1, <2>2, <2>3, <2>4 DEF Due, Running
<1>5. ASSUME left = 0, Reg(rec, 0) = Reg(rec, 1), checked = [rec EXCEPT !.sudden = TRUE]
      PROVE  checked.winner = NoPlayer /\ Due(TurnPassed(checked))
  <2> DEFINE after == TurnPassed(checked)
  <2>1. /\ checked.winner = NoPlayer
        /\ after.rounds = rec.rounds /\ after.order = rec.order
        /\ after.sudden = TRUE /\ after.winner = NoPlayer
        /\ after.roundIndex = rec.roundIndex + 1
    BY <1>5 DEF TurnPassed, Begun, Shootouts
  <2> HIDE DEF after
  <2>2. Reg(after, 0) = Reg(after, 1)
    BY <2>1, <1>5, SameRoundsTwins DEF Twins
  <2>3. \A i \in DOMAIN rec.rounds : ~(i > RegulationRounds)
    BY <1>1
  <2>4. LevelSince(after)
    BY <2>1, <2>2, <2>3 DEF LevelSince
  <2>5. after.roundIndex >= RegulationRounds
    BY <2>1, <1>1, <1>5
  <2>6. Due(after)
    BY <2>1, <2>4, <2>5 DEF Due, Running
  <2> QED BY <2>1, <2>6 DEF after
<1>6. ASSUME left # 0, ~Ahead(rec, 0), ~Ahead(rec, 1), checked = rec
      PROVE  Due(TurnPassed(checked))
  <2> DEFINE after == TurnPassed(checked)
  <2>1. /\ after.rounds = rec.rounds /\ after.order = rec.order
        /\ after.sudden = rec.sudden /\ after.winner = NoPlayer
        /\ after.roundIndex = rec.roundIndex + 1
    BY <1>6 DEF TurnPassed, Begun, Shootouts
  <2> HIDE DEF after
  <2>2. ~Ahead(after, 0) /\ ~Ahead(after, 1)
    BY <2>1, <1>6, SameRoundsTwins DEF Twins
  <2>3. ~(after.roundIndex >= RegulationRounds)
    BY <2>1, <1>1, <1>6
  <2>4. Due(after)
    BY <2>1, <2>2, <2>3 DEF Due, Running
  <2> QED BY <2>4 DEF after
<1>7. \/ \E side \in {0, 1} : Ahead(rec, side) /\ checked = Declared(rec, side)
      \/ left = 0 /\ Reg(rec, 0) = Reg(rec, 1) /\ checked = [rec EXCEPT !.sudden = TRUE]
      \/ left # 0 /\ ~Ahead(rec, 0) /\ ~Ahead(rec, 1) /\ checked = rec
  <2>1. CASE left = 0
    <3>1. CASE Reg(rec, 0) = Reg(rec, 1)
      BY <3>1, <2>1, <1>1, <1>2 DEF RegulationEnd
    <3>2. CASE Reg(rec, 0) > Reg(rec, 1)
      <4>1. Ahead(rec, 0)
        BY <3>2, <2>1, <1>2, <1>3
      <4>2. checked = Declared(rec, 0)
        BY <3>2, <2>1, <1>1, <1>2 DEF RegulationEnd
      <4> QED BY <4>1, <4>2
    <3>3. CASE Reg(rec, 1) > Reg(rec, 0)
      <4>1. Ahead(rec, 1)
        BY <3>3, <2>1, <1>2, <1>3
      <4>2. checked = Declared(rec, 1)
        BY <3>3, <2>1, <1>1, <1>2 DEF RegulationEnd
      <4> QED BY <4>1, <4>2
    <3> QED BY <3>1, <3>2, <3>3, <1>2
  <2>2. CASE left # 0
    <3>1. ~(Remaining(rec) <= 0)
      BY <2>2, <1>1
    <3>2. checked = IF Ahead(rec, 0) THEN Declared(rec, 0)
                    ELSE IF Ahead(rec, 1) THEN Declared(rec, 1) ELSE rec
      BY <3>1, <1>1, <1>2, <1>3 DEF RegulationEnd
    <3> QED BY <3>2, <2>2
  <2> QED BY <2>1, <2>2
<1> QED
  <2>1. CASE \E side \in {0, 1} : Ahead(rec, side) /\ checked = Declared(rec, side)
    BY <2>1, <1>4
  <2>2. CASE left = 0 /\ Reg(rec, 0) = Reg(rec, 1) /\ checked = [rec EXCEPT !.sudden = TRUE]
    BY <2>2, <1>5
  <2>3. CASE left # 0 /\ ~Ahead(rec, 0) /\ ~Ahead(rec, 1) /\ checked = rec
    BY <2>3, <1>6
  <2> QED BY <1>7, <2>1, <2>2, <2>3

\* What it makes of a complete wave of sudden death.
LEMMA SuddenDue ==
  ASSUME NEW P, NEW rec, Begun(rec, P), NoPlayer \notin P, rec.winner = NoPlayer,
         rec.turn = 1, rec.sudden, rec.roundIndex >= RegulationRounds,
         Len(rec.rounds) = rec.roundIndex + 1, LevelSince(rec),
         NEW checked, checked = SuddenEnd(rec)
  PROVE  Due(IF checked.winner = NoPlayer THEN TurnPassed(checked) ELSE checked)
<1> DEFINE n == rec.roundIndex + 1
<1>1. /\ rec.roundIndex \in Nat /\ RegulationRounds \in Nat /\ n = Len(rec.rounds)
      /\ DOMAIN rec.rounds = 1 .. n /\ n \in DOMAIN rec.rounds
      /\ n > RegulationRounds
  BY RegulationRoundsAssumption DEF Begun, Shootouts
<1>2. /\ Alone(rec.rounds[n], 0)
           <=> rec.rounds[n].p0 = "correct" /\ rec.rounds[n].p1 # "correct"
      /\ Alone(rec.rounds[n], 1)
           <=> rec.rounds[n].p1 = "correct" /\ rec.rounds[n].p0 # "correct"
  BY DEF Alone, Correct, Answer
<1>3. ASSUME NEW side \in {0, 1}, Alone(rec.rounds[n], side), checked = Declared(rec, side)
      PROVE  checked.winner # NoPlayer /\ Due(checked)
  <2>1. /\ checked.winner = rec.order[side + 1] /\ checked.rounds = rec.rounds
        /\ checked.order = rec.order /\ checked.sudden = rec.sudden
        /\ checked.roundIndex = rec.roundIndex
    BY <1>3 DEF Declared, Begun, Shootouts
  <2>2. rec.order[side + 1] # NoPlayer
    BY DEF Begun
  <2> HIDE DEF n
  <2>3. WonLast(checked, side)
    BY <2>1, <1>1, <1>3 DEF WonLast
  <2>4. LevelSince(checked)
    BY <2>1, SameRoundsTwins DEF Twins, LevelSince
  <2> QED BY <2>1, <2>2, <2>3, <2>4 DEF Due, Running
<1>4. ASSUME ~Alone(rec.rounds[n], 0), ~Alone(rec.rounds[n], 1), checked = rec
      PROVE  Due(TurnPassed(checked))
  <2> DEFINE after == TurnPassed(checked)
  <2>1. /\ after.rounds = rec.rounds /\ after.order = rec.order
        /\ after.sudden = rec.sudden /\ after.winner = NoPlayer
        /\ after.roundIndex = n
    <3>1. checked = rec
      BY <1>4
    <3>2. after = [rec EXCEPT !.turn = 0, !.roundIndex = n, !.question = TRUE]
      <4>1. 1 - rec.turn = 0 /\ rec.turn # 0
        OBVIOUS
      <4> QED BY <3>1, <4>1 DEF TurnPassed
    <3> HIDE DEF after, n
    <3> QED BY <3>2 DEF Begun, Shootouts
  <2> HIDE DEF after
  <2>2. Reg(after, 0) = Reg(after, 1)
    BY <2>1, SameRoundsTwins DEF Twins, LevelSince
  <2>3. Correct(rec.rounds[n], 0) <=> Correct(rec.rounds[n], 1)
    BY <1>4 DEF Alone
  <2>4. ASSUME NEW i \in DOMAIN rec.rounds, i > RegulationRounds
        PROVE  Correct(rec.rounds[i], 0) <=> Correct(rec.rounds[i], 1)
    <3>1. i = n \/ i <= rec.roundIndex
      BY <1>1
    <3> QED BY <3>1, <2>3, <2>4 DEF LevelSince
  <2>5. LevelSince(after)
    BY <2>1, <2>2, <2>4 DEF LevelSince
  <2>6. after.roundIndex >= RegulationRounds
    BY <2>1, <1>1
  <2>7. Due(after)
    BY <2>1, <2>5, <2>6 DEF Due, Running
  <2> QED BY <2>7 DEF after
<1>5. checked = IF Alone(rec.rounds[n], 0) THEN Declared(rec, 0)
                ELSE IF Alone(rec.rounds[n], 1) THEN Declared(rec, 1) ELSE rec
  BY <1>2 DEF SuddenEnd
<1> HIDE DEF n
<1> QED BY <1>3, <1>4, <1>5

\* Every answer leaves the match open, level or decided, as its waves say.
LEMMA MarkedDue ==
  ASSUME NEW P, NEW sh, Begun(sh, P), InOrder(sh), Running(sh), NoPlayer \notin P,
         NEW result \in Results, Due(sh)
  PROVE  Due(Marked(sh, result))
<1> DEFINE rec == Recorded(sh, result)
           checked == CheckShootoutEnd(rec)
<1>1. Written(rec, sh)
  <2>1. Written(Recorded(sh, result), sh)
    BY RecordedInOrder
  <2> QED BY <2>1
<1>2. Begun(rec, P)
  BY RecordedBegun
<1>3. rec.sudden = sh.sudden
  BY DEF Recorded, Begun, Shootouts
<1>4. Marked(sh, result) = IF checked.winner = NoPlayer THEN TurnPassed(checked) ELSE checked
  BY DEF Marked
<1>5. /\ sh.turn \in {0, 1} /\ sh.roundIndex \in Nat /\ rec.rounds \in Seq(Waves)
      /\ RegulationRounds \in Nat /\ rec.sudden \in BOOLEAN
  BY <1>2, RegulationRoundsAssumption DEF Begun, Shootouts
<1>6. checked = IF ~WaveComplete(rec) THEN rec
                ELSE IF rec.sudden THEN SuddenEnd(rec) ELSE RegulationEnd(rec)
  BY DEF CheckShootoutEnd
<1> HIDE DEF rec, checked
<1>7. sh.roundIndex + 1 \in DOMAIN rec.rounds /\ sh.roundIndex + 1 = Len(rec.rounds)
  BY <1>1, <1>5 DEF Written
<1>8. WaveComplete(rec) <=> sh.turn = 1
  <2>1. rec.roundIndex = sh.roundIndex /\ rec.roundIndex < Len(rec.rounds)
    BY <1>1, <1>5, <1>7 DEF Written
  <2>2. /\ rec.rounds[sh.roundIndex + 1].p0 # Unanswered
        /\ rec.rounds[sh.roundIndex + 1].p1 = Unanswered <=> sh.turn = 0
    BY <1>1, <1>7 DEF Written
  <2> QED BY <2>1, <2>2, <1>5 DEF WaveComplete
<1>9. CASE sh.turn = 0
  <2>1. checked = rec /\ rec.winner = NoPlayer
    BY <1>1, <1>5, <1>6, <1>8, <1>9 DEF Written
  <2>2. Due(TurnPassed(rec))
    BY <1>1, <1>2, <1>3, <1>9, FirstAnswerDue
  <2> QED BY <2>1, <2>2, <1>4
<1>10. CASE sh.turn = 1 /\ ~sh.sudden
  <2>1. checked = RegulationEnd(rec)
    BY <1>3, <1>6, <1>8, <1>10
  <2>2. /\ rec.turn = 1 /\ rec.winner = NoPlayer /\ rec.roundIndex = sh.roundIndex
        /\ Len(rec.rounds) = rec.roundIndex + 1
    BY <1>1, <1>10 DEF Written
  <2>3. rec.roundIndex < RegulationRounds
    BY <2>2, <1>5, <1>10 DEF Due
  <2> QED BY <2>1, <2>2, <2>3, <1>2, <1>3, <1>4, <1>10, RegulationDue
<1>11. CASE sh.turn = 1 /\ sh.sudden
  <2>1. checked = SuddenEnd(rec)
    BY <1>3, <1>6, <1>8, <1>11
  <2>2. /\ rec.turn = 1 /\ rec.winner = NoPlayer /\ rec.roundIndex = sh.roundIndex
        /\ Len(rec.rounds) = rec.roundIndex + 1
    BY <1>1, <1>11 DEF Written
  <2>3. rec.roundIndex >= RegulationRounds /\ LevelSince(sh)
    BY <2>2, <1>11 DEF Due
  <2>4. LevelSince(rec)
    BY <2>2, <2>3, <1>1, <1>2, RecordedKeepsLevel
  <2> QED BY <2>1, <2>2, <2>3, <2>4, <1>2, <1>3, <1>4, <1>11, SuddenDue
<1> QED BY <1>5, <1>9, <1>10, <1>11
=============================================================================
