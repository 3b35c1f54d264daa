----------------------------- MODULE FinaleProofs -----------------------------
(***************************************************************************)
(* Theorems about the questions of a room (Finale.tla, Deck.tla), for all  *)
(* banks, uploads and lengths of a shootout, and for games without end.    *)
(*                                                                         *)
(* Neither property is inductive.  That no question is two ahead of        *)
(* another needs to know who is ahead: exactly the questions drawn from    *)
(* the deck in use (DeckIsRest).  That the next question is of the bank on *)
(* screen needs the deck to be part of the bank in use, and the bank to be *)
(* the one the flag says (BankAsSaid).                                     *)
(***************************************************************************)
EXTENDS Finale, ShootoutProofs, FiniteSetTheorems

BankAsSaid ==
  /\ community \in {{}, Shared}
  /\ usingCustom \in BOOLEAN
  /\ usingCustom => questionBank \in Uploads
  /\ ~usingCustom => questionBank = community

DeckIsRest ==
  /\ deck \subseteq questionBank
  /\ DOMAIN ahead = questionBank
  /\ ahead = [q \in questionBank |-> IF deck = {} \/ q \in deck THEN 0 ELSE 1]

IInv == BankAsSaid /\ DeckIsRest /\ sent \subseteq Uploads \cup {Reset}

\* All that a step of a game does to the questions.
DeckNext ==
  \/ PullQuestion \/ RestartDeck \/ DoResetQuestionBank
  \/ \E questions \in Uploads : DoSetQuestionBank(questions)
  \/ UNCHANGED deckVars

LEMMA StartsWell == FinaleInit => IInv
BY QuestionsAssumption
   DEF FinaleInit, CreateRoom, IInv, BankAsSaid, DeckIsRest, NobodyAhead

\* Every handler leaves the questions alone or does one of the deck's operations,
\* and only uploads and resets are ever on their way.
LEMMA GameMovesDeck ==
  ASSUME IInv, [FinaleNext]_finaleVars
  PROVE  DeckNext /\ sent' \subseteq Uploads \cup {Reset}
<1> USE DEF DeckNext, IInv
<1>1. CASE DoStartGame \/ AskInRound \/ DoContinueAfterElimination
  BY <1>1 DEF DoStartGame, AskInRound, DoContinueAfterElimination
<1>2. CASE AskInShootout
  BY <1>2 DEF AskInShootout
<1>3. CASE MarkInShootout
  BY <1>3 DEF MarkInShootout
<1>4. CASE DoPlayAgain
  BY <1>4 DEF DoPlayAgain
<1>5. CASE SendBankCommand
  BY <1>5 DEF SendBankCommand
<1>6. CASE HandleBankCommand
  <2>1. PICK command \in sent :
          /\ (command = Reset /\ DoResetQuestionBank) \/ DoSetQuestionBank(command)
          /\ sent' = sent \ {command}
    BY <1>6 DEF HandleBankCommand
  <2>2. CASE command = Reset
    BY <2>1, <2>2 DEF DoSetQuestionBank, Reset
  <2>3. CASE command # Reset
    BY <2>1, <2>3
  <2> QED BY <2>2, <2>3
<1>7. CASE UNCHANGED finaleVars
  BY <1>7 DEF finaleVars
<1> QED BY <1>1, <1>2, <1>3, <1>4, <1>5, <1>6, <1>7 DEF FinaleNext

\* The question drawn comes from the bank, and the one that empties the deck
\* levels all.
LEMMA PullKeepsRest ==
  ASSUME DeckIsRest, PullQuestion
  PROVE  DeckIsRest' /\ UNCHANGED bankVars
<1>1. CASE Pile = {} /\ UNCHANGED <<bankVars, deck, ahead>>
  BY <1>1 DEF DeckIsRest, bankVars
<1>2. ASSUME NEW q \in Pile, deck' = Pile \ {q}, UNCHANGED bankVars,
             ahead' = IF q \in DOMAIN ahead THEN Counted(q) ELSE ahead
      PROVE  DeckIsRest' /\ UNCHANGED bankVars
  <2> DEFINE more == [ahead EXCEPT ![q] = @ + 1]
  <2>1. q \in questionBank /\ Pile \subseteq questionBank
    BY <1>2 DEF Pile, DeckIsRest
  <2>2. more = [e \in questionBank |-> IF e \in deck' \/ (deck = {} /\ e # q) THEN 0 ELSE 1]
    <3>1. \A e \in questionBank : more[e] = IF e = q THEN ahead[e] + 1 ELSE ahead[e]
      BY <2>1 DEF DeckIsRest
    <3>2. \A e \in questionBank : more[e] = IF e \in deck' THEN 0 ELSE 1
      BY <3>1, <1>2, <2>1 DEF DeckIsRest, Pile
    <3> QED BY <3>2, <1>2 DEF DeckIsRest, Pile
  <2>3. (\A e \in questionBank : more[e] > 0) <=> deck' = {}
    BY <2>1, <2>2, <1>2 DEF Pile
  <2>4. ahead' = [e \in questionBank |-> IF deck' = {} THEN more[e] - 1 ELSE more[e]]
    BY <1>2, <2>1, <2>3 DEF Counted, DeckIsRest
  <2>5. ahead' = [e \in questionBank |-> IF deck' = {} \/ e \in deck' THEN 0 ELSE 1]
    BY <2>4, <2>2, <1>2, <2>1 DEF Pile
  <2> QED BY <2>5, <2>1, <1>2 DEF DeckIsRest, bankVars
<1> QED BY <1>1, <1>2 DEF PullQuestion

LEMMA KeepsIInv == IInv /\ [FinaleNext]_finaleVars => IInv'
<1> SUFFICES ASSUME IInv, [FinaleNext]_finaleVars
             PROVE  IInv'
  OBVIOUS
<1>1. DeckNext /\ sent' \subseteq Uploads \cup {Reset}
  BY GameMovesDeck
<1>2. (BankAsSaid /\ DeckIsRest)'
  <2>1. CASE PullQuestion
    BY <2>1, PullKeepsRest DEF IInv, BankAsSaid, bankVars
  <2>2. CASE RestartDeck
    BY <2>2 DEF RestartDeck, NewDeck, NobodyAhead, IInv, BankAsSaid, DeckIsRest, bankVars
  <2>3. CASE DoResetQuestionBank
    BY <2>3 DEF DoResetQuestionBank, NewDeck, NobodyAhead, IInv, BankAsSaid, DeckIsRest
  <2>4. CASE \E questions \in Uploads : DoSetQuestionBank(questions)
    BY <2>4 DEF DoSetQuestionBank, NewDeck, NobodyAhead, IInv, BankAsSaid, DeckIsRest
  <2>5. CASE UNCHANGED deckVars
    BY <2>5 DEF deckVars, IInv, BankAsSaid, DeckIsRest
  <2> QED BY <1>1, <2>1, <2>2, <2>3, <2>4, <2>5 DEF DeckNext
<1> QED BY <1>1, <1>2 DEF IInv

LEMMA Invariance == FinaleSpec => []IInv
BY StartsWell, KeepsIInv, PTL DEF FinaleSpec

\* No question is asked again before every other of the bank has been asked as
\* often, whatever pulls it and whenever the bank is replaced: PullQuestion refills
\* an empty deck only, and a new bank starts a new deck.
THEOREM QuestionsTakeTurns == FinaleSpec => []NoRepeats
<1>1. IInv => NoRepeats
  BY DEF IInv, DeckIsRest, NoRepeats
<1> QED BY <1>1, Invariance, PTL

\* What is asked next is of the bank on the quizmaster's screen, also when the bank
\* command was handled in the middle of a game: DoSetQuestionBank and
\* DoResetQuestionBank drop the deck of the old one.
THEOREM ScreenTellsBank == FinaleSpec => AsksWhatItSays
<1> DEFINE Said == shown' \notin {shown, NoQuestion} =>
                     shown' \in IF usingCustom THEN questionBank \cap UNION Uploads
                                ELSE IF community = {} THEN {Placeholder}
                                ELSE community
<1>1. IInv /\ [FinaleNext]_finaleVars => [Said]_deckVars
  <2> SUFFICES ASSUME IInv, [FinaleNext]_finaleVars, shown' \notin {shown, NoQuestion}
               PROVE  Said
    OBVIOUS
  <2>1. PullQuestion
    BY GameMovesDeck
       DEF DeckNext, RestartDeck, DoResetQuestionBank, DoSetQuestionBank, deckVars
  <2>2. CASE Pile = {} /\ shown' = Placeholder
    BY <2>2, QuestionsAssumption DEF Pile, IInv, BankAsSaid
  <2>3. CASE shown' \in Pile
    BY <2>3 DEF Pile, IInv, BankAsSaid, DeckIsRest
  <2> QED BY <2>1, <2>2, <2>3 DEF PullQuestion
<1> QED BY <1>1, Invariance, PTL DEF FinaleSpec, AsksWhatItSays

-----------------------------------------------------------------------------
(* The shootout, which the games start over and over: it has its two       *)
(* finalists (Begun), its answers are recorded in order (InOrder), and it  *)
(* is open, level or decided as they say (Due).                            *)

Pair == {Finalists[1], Finalists[2]}

ShootoutInv ==
  /\ Begun(shootout, Pair) /\ shootout.order = Finalists
  /\ InOrder(shootout) /\ Due(shootout)

\* All that a step of a game does to the shootout.
ShootoutNext ==
  \/ UNCHANGED shootout
  \/ shootout' = ShootoutOf(Finalists[1], Finalists[2])
  \/ Running(shootout) /\ shootout' = Asked(shootout)
  \/ \E result \in Results : Running(shootout) /\ shootout' = Marked(shootout, result)

\* A finalist is somebody.
LEMMA FinalistsAreSomebody == NoPlayer \notin Pair
BY FinalistsAssumption DEF Pair, NoPlayer

\* Nothing is asked or marked once there is a winner: the first question finds no
\* wave played, and a winner leaves no question to mark.
LEMMA GameMovesShootout ==
  ASSUME ShootoutInv, [FinaleNext]_finaleVars
  PROVE  ShootoutNext
<1> USE DEF ShootoutNext
<1>1. CASE DoStartGame \/ AskInRound \/ DoContinueAfterElimination
           \/ SendBankCommand \/ HandleBankCommand
  BY <1>1 DEF DoStartGame, AskInRound, DoContinueAfterElimination,
     SendBankCommand, HandleBankCommand
<1>2. CASE AskInShootout
  <2>1. CASE FirstQuestion
    <3>1. shootout.roundIndex \in Nat /\ Len(shootout.rounds) = 0
      BY <2>1 DEF FirstQuestion, ShootoutInv, Begun, Shootouts
    <3>2. Running(shootout)
      BY <3>1 DEF ShootoutInv, InOrder
    <3> QED BY <3>2, <2>1 DEF FirstQuestion
  <2>2. CASE DoShootoutNextQuestion
    BY <2>2 DEF DoShootoutNextQuestion, CanAsk, Running
  <2> QED BY <1>2, <2>1, <2>2 DEF AskInShootout
<1>3. CASE MarkInShootout
  <2>1. PICK result \in Results : DoShootoutMark(result)
    BY <1>3 DEF MarkInShootout
  <2>2. Running(shootout)
    BY <2>1 DEF DoShootoutMark, CanMark, ShootoutInv, InOrder
  <2> QED BY <2>1, <2>2 DEF DoShootoutMark
<1>4. CASE DoPlayAgain
  BY <1>4 DEF DoPlayAgain
<1>5. CASE UNCHANGED finaleVars
  BY <1>5 DEF finaleVars
<1> QED BY <1>1, <1>2, <1>3, <1>4, <1>5 DEF FinaleNext

LEMMA NewShootoutInv ==
  LET new == ShootoutOf(Finalists[1], Finalists[2])
  IN Begun(new, Pair) /\ new.order = Finalists /\ InOrder(new) /\ Due(new)
<1>1. Finalists[1] \in Pair /\ Finalists[2] \in Pair
  BY DEF Pair
<1>2. ShootoutOf(Finalists[1], Finalists[2]).order = Finalists
  BY FinalistsAssumption DEF ShootoutOf
<1> QED BY <1>1, <1>2, ShootoutOfBegun, ShootoutOfInOrder, ShootoutOfDue

LEMMA KeepsShootoutInv == ShootoutInv /\ [FinaleNext]_finaleVars => ShootoutInv'
<1> SUFFICES ASSUME ShootoutInv, [FinaleNext]_finaleVars PROVE ShootoutInv'
  OBVIOUS
<1>1. CASE UNCHANGED shootout
  BY <1>1 DEF ShootoutInv
<1>2. CASE shootout' = ShootoutOf(Finalists[1], Finalists[2])
  BY <1>2, NewShootoutInv DEF ShootoutInv
<1>3. CASE Running(shootout) /\ shootout' = Asked(shootout)
  <2>1. PICK result \in Results : TRUE
    BY DEF Results
  <2> QED BY <1>3, <2>1, AskedBegun, AskedInOrder, AskedDue, SameOrder DEF ShootoutInv
<1>4. ASSUME NEW result \in Results, Running(shootout),
             shootout' = Marked(shootout, result)
      PROVE ShootoutInv'
  BY <1>4, MarkedBegun, MarkedInOrder, MarkedDue, SameOrder, FinalistsAreSomebody
     DEF ShootoutInv
<1> QED BY <1>1, <1>2, <1>3, <1>4, GameMovesShootout DEF ShootoutNext

LEMMA ShootoutInvariance == FinaleSpec => []ShootoutInv
<1>1. FinaleInit => ShootoutInv
  BY NewShootoutInv DEF FinaleInit, Init, ShootoutInv
<1> QED BY <1>1, KeepsShootoutInv, PTL DEF FinaleSpec

\* What the phase says of the shootout: nothing has happened in it before its time,
\* and the game is over when it has a winner.
StageInv ==
  /\ stage \in {"lobby", "rounds", "shootout", "gameover"}
  /\ stage \in {"lobby", "rounds"} => shootout.rounds = <<>> /\ ~shootout.question
  /\ stage = "gameover" <=> shootout.winner # NoPlayer

\* What the deck draws from are entries of some bank.
DrawnInv == community \subseteq Shared /\ shown \in Entries \cup {Placeholder, NoQuestion}

LEMMA StageKept == ShootoutInv /\ StageInv /\ [FinaleNext]_finaleVars => StageInv'
<1> SUFFICES ASSUME ShootoutInv, StageInv, [FinaleNext]_finaleVars PROVE StageInv'
  OBVIOUS
<1>1. CASE DoStartGame \/ AskInRound \/ DoContinueAfterElimination
           \/ SendBankCommand \/ HandleBankCommand
  BY <1>1 DEF DoStartGame, AskInRound, DoContinueAfterElimination, SendBankCommand,
     HandleBankCommand, StageInv
<1>2. CASE AskInShootout
  <2>1. stage = "shootout" /\ stage' = stage /\ shootout' = Asked(shootout)
    BY <1>2 DEF AskInShootout, FirstQuestion, DoShootoutNextQuestion
  <2>2. shootout'.winner = shootout.winner
    BY <2>1 DEF Asked, ShootoutInv, Begun, Shootouts
  <2> QED BY <2>1, <2>2 DEF StageInv
<1>3. CASE MarkInShootout
  BY <1>3 DEF MarkInShootout, StageInv
<1>4. CASE DoPlayAgain
  BY <1>4 DEF DoPlayAgain, ShootoutOf, StageInv
<1>5. CASE UNCHANGED finaleVars
  BY <1>5 DEF finaleVars, StageInv
<1> QED BY <1>1, <1>2, <1>3, <1>4, <1>5 DEF FinaleNext

LEMMA BankOfEntries ==
  ASSUME IInv
  PROVE  questionBank \subseteq Entries
<1>1. CASE usingCustom
  <2>1. questionBank \in Uploads
    BY <1>1 DEF IInv, BankAsSaid
  <2>2. \A q \in questionBank : q \in UNION Uploads
    BY <2>1
  <2> QED BY <2>2 DEF Entries
<1>2. CASE ~usingCustom
  <2>1. questionBank \in {{}, Shared}
    BY <1>2 DEF IInv, BankAsSaid
  <2>2. \A q \in questionBank : q \in Shared
    BY <2>1
  <2> QED BY <2>2 DEF Entries
<1> QED BY <1>1, <1>2

LEMMA DrawnKept == IInv /\ DrawnInv /\ [FinaleNext]_finaleVars => DrawnInv'
<1> SUFFICES ASSUME IInv, DrawnInv, [FinaleNext]_finaleVars PROVE DrawnInv'
  OBVIOUS
<1>1. questionBank \subseteq Entries
  BY BankOfEntries
<1>2. CASE PullQuestion
  BY <1>1, <1>2 DEF PullQuestion, Pile, DrawnInv, bankVars, IInv, DeckIsRest
<1>3. CASE RestartDeck \/ DoResetQuestionBank \/ UNCHANGED deckVars
           \/ \E questions \in Uploads : DoSetQuestionBank(questions)
  BY <1>3 DEF RestartDeck, DoResetQuestionBank, DoSetQuestionBank, deckVars, bankVars,
     DrawnInv
<1> QED BY <1>2, <1>3, GameMovesDeck DEF DeckNext

\* The type invariant, of the shootout, of the deck, which never holds more than the
\* bank does, and of the phase: no question of a shootout and no answer before
\* DoContinueAfterElimination, and the game over with its winner and not before.
THEOREM FinaleTyped == FinaleSpec => []FinaleTypeOK
<1>1. FinaleInit => StageInv /\ DrawnInv
  BY DEF FinaleInit, Init, CreateRoom, ShootoutOf, StageInv, DrawnInv
<1>2. IInv /\ ShootoutInv /\ StageInv /\ DrawnInv => FinaleTypeOK
  <2> SUFFICES ASSUME IInv, ShootoutInv, StageInv, DrawnInv PROVE FinaleTypeOK
    OBVIOUS
  <2>1. TypeOK
    BY DEF ShootoutInv, Begun, Pair, TypeOK
  <2>2. DeckTypeOK
    <3>1. deck \subseteq Entries /\ questionBank \subseteq Entries
      BY BankOfEntries DEF IInv, DeckIsRest
    <3>2. ahead \in [questionBank -> Nat]
      BY DEF IInv, DeckIsRest
    <3> QED BY <3>1, <3>2 DEF IInv, BankAsSaid, DrawnInv, DeckTypeOK
  <2> QED BY <2>1, <2>2 DEF StageInv, FinaleTypeOK
<1> QED BY <1>1, <1>2, StageKept, DrawnKept, Invariance, ShootoutInvariance, PTL
        DEF FinaleSpec

\* An answer given stands, in a match of any length: DoShootoutMark writes the one
\* place of the current wave that is open.
THEOREM AnswersStand == FinaleSpec => RecordIsFinal
<1> DEFINE Final ==
      \/ shootout' = ShootoutOf(Finalists[1], Finalists[2])
      \/ /\ shootout.winner = NoPlayer
         /\ \A i \in DOMAIN shootout.rounds, side \in {0, 1} :
              Answer(shootout.rounds[i], side) # Unanswered
                => Answer(shootout'.rounds[i], side) = Answer(shootout.rounds[i], side)
<1>1. ShootoutInv /\ [FinaleNext]_finaleVars => [Final]_shootout
  <2> SUFFICES ASSUME ShootoutInv, [FinaleNext]_finaleVars, shootout' # shootout
               PROVE  Final
    OBVIOUS
  <2>1. CASE Running(shootout) /\ shootout' = Asked(shootout)
    <3>1. shootout'.rounds = shootout.rounds
      BY <2>1, AskedInOrder DEF ShootoutInv
    <3> QED BY <3>1, <2>1 DEF Running
  <2>2. ASSUME NEW result \in Results, Running(shootout),
               shootout' = Marked(shootout, result)
        PROVE Final
    <3>1. Extends(shootout'.rounds, shootout.rounds)
      BY <2>2, MarkedInOrder, FinalistsAreSomebody DEF ShootoutInv
    <3> QED BY <3>1, <2>2 DEF Running, Extends
  <2> QED BY <2>1, <2>2, GameMovesShootout DEF ShootoutNext
<1> QED BY <1>1, ShootoutInvariance, PTL DEF FinaleSpec, RecordIsFinal

\* The waves in which a side has answered are all, or all but the one under way.
LEMMA GivenIsCounted ==
  ASSUME ShootoutInv
  PROVE  /\ Given(0) = Len(shootout.rounds)
         /\ Given(1) = Len(shootout.rounds)
                         - IF Running(shootout) THEN shootout.turn ELSE 0
<1> DEFINE n == Len(shootout.rounds)
           open == IF Running(shootout) THEN shootout.turn ELSE 0
<1>1. /\ n \in Nat /\ DOMAIN shootout.rounds = 1 .. n
      /\ shootout.turn \in {0, 1} /\ shootout.roundIndex \in Nat
      /\ open \in {0, 1}
  BY DEF ShootoutInv, Begun, Shootouts
<1>2. open = 1 => n >= 1
  BY <1>1 DEF ShootoutInv, InOrder
<1>3. \A k \in Nat : Cardinality(1 .. k) = k
  BY FS_Interval
<1>4. {i \in DOMAIN shootout.rounds : Answer(shootout.rounds[i], 0) # Unanswered} = 1 .. n
  BY <1>1 DEF ShootoutInv, InOrder, Answer
<1>5. {i \in DOMAIN shootout.rounds : Answer(shootout.rounds[i], 1) # Unanswered}
        = 1 .. n - open
  <2>1. \A i \in 1 .. n : Answer(shootout.rounds[i], 1) = Unanswered <=> open = 1 /\ i = n
    BY <1>1 DEF ShootoutInv, InOrder, Answer
  <2> HIDE DEF n, open
  <2>2. \A i \in 1 .. n : ~(open = 1 /\ i = n) <=> i \in 1 .. n - open
    BY <1>1, <1>2
  <2>3. 1 .. n - open \subseteq 1 .. n
    BY <1>1
  <2> QED BY <1>1, <2>1, <2>2, <2>3
<1>6. n - open \in Nat
  <2> HIDE DEF n, open
  <2> QED BY <1>1, <1>2
<1> QED BY <1>1, <1>3, <1>4, <1>5, <1>6 DEF Given

\* The sides take turns for as long as the match lasts, nobody wins it with an
\* answer fewer than the other, and nothing is asked afterwards.
THEOREM TurnsAreFair == FinaleSpec => []FairTurns
<1>1. ShootoutInv => FairTurns
  <2> SUFFICES ASSUME ShootoutInv PROVE FairTurns
    OBVIOUS
  <2>1. Len(shootout.rounds) \in Nat /\ shootout.turn \in {0, 1}
    BY DEF ShootoutInv, Begun, Shootouts
  <2>2. Given(0) - Given(1) = IF Running(shootout) THEN shootout.turn ELSE 0
    BY <2>1, GivenIsCounted
  <2>3. ~Running(shootout) => ~shootout.question
    BY DEF ShootoutInv, InOrder
  <2> QED BY <2>2, <2>3 DEF FairTurns, Running
<1> QED BY <1>1, ShootoutInvariance, PTL

\* The definitions of the property, in terms of the waves complete on both sides.
LEMMA CompleteWaves ==
  ASSUME ShootoutInv, ~(Running(shootout) /\ shootout.turn = 1)
  PROVE  LET n == Len(shootout.rounds)
             played == IF n < RegulationRounds THEN n ELSE RegulationRounds
         IN \A side \in {0, 1} :
              /\ Reg(shootout, side) \in Nat
              /\ Settled(side) <=>
                   Reg(shootout, side)
                     > Reg(shootout, 1 - side) + (RegulationRounds - played)
              /\ SuddenDeathWon(side) <=>
                   \E i \in 1 .. n : i > RegulationRounds
                                       /\ Alone(shootout.rounds[i], side)
<1> DEFINE n == Len(shootout.rounds)
           played == IF n < RegulationRounds THEN n ELSE RegulationRounds
<1>1. /\ shootout.rounds \in Seq(Waves) /\ n \in Nat /\ RegulationRounds \in Nat
      /\ DOMAIN shootout.rounds = 1 .. n /\ played \in Nat
  BY RegulationRoundsAssumption DEF ShootoutInv, Begun, Shootouts
<1>2. \A i \in 1 .. n : shootout.rounds[i].p0 # Unanswered
                          /\ shootout.rounds[i].p1 # Unanswered
  BY <1>1 DEF ShootoutInv, InOrder
<1>3. \A side : Reg(shootout, side) \in Nat
  BY <1>1, RegIsCounted
<1>4. \A side : RegulationScore(side) = Reg(shootout, side)
  <2> SUFFICES ASSUME NEW side PROVE RegulationScore(side) = Reg(shootout, side)
    OBVIOUS
  <2>1. {i \in RegulationWaves : Answer(shootout.rounds[i], side) = "correct"}
          = {i \in DOMAIN shootout.rounds :
               i <= RegulationRounds /\ Correct(shootout.rounds[i], side)}
    BY DEF RegulationWaves, Correct
  <2> QED BY <2>1 DEF RegulationScore, Reg
<1>5. \A side : {i \in RegulationWaves : Answer(shootout.rounds[i], side) # Unanswered}
                  = 1 .. played
  <2>1. RegulationWaves = 1 .. played
    BY <1>1 DEF RegulationWaves
  <2>2. 1 .. played \subseteq 1 .. n
    BY <1>1
  <2> HIDE DEF n, played
  <2> QED BY <2>1, <2>2, <1>2 DEF Answer
<1>6. Cardinality(1 .. played) = played
  <2> HIDE DEF played
  <2> QED BY <1>1, FS_Interval
<1>7. ASSUME NEW side \in {0, 1}
      PROVE  Settled(side) <=>
               Reg(shootout, side) > Reg(shootout, 1 - side) + (RegulationRounds - played)
  <2> HIDE DEF n, played
  <2>1. Best(1 - side) = Reg(shootout, 1 - side) + RegulationRounds - played
    BY <1>4, <1>5, <1>6 DEF Best
  <2>2. Worst(side) = Reg(shootout, side)
    BY <1>4 DEF Worst
  <2>3. Reg(shootout, 1 - side) + RegulationRounds - played
          = Reg(shootout, 1 - side) + (RegulationRounds - played)
    BY <1>1, <1>3
  <2> QED BY <2>1, <2>2, <2>3 DEF Settled
<1>8. ASSUME NEW side \in {0, 1}
      PROVE  SuddenDeathWon(side) <=>
               \E i \in 1 .. n : i > RegulationRounds /\ Alone(shootout.rounds[i], side)
  <2> HIDE DEF n
  <2> QED BY <1>1, <1>2 DEF SuddenDeathWon, Alone, Correct
<1> QED BY <1>3, <1>7, <1>8

\* In a match of any length a side is declared the winner with the answer that
\* settles it and no sooner: in regulation when the other cannot level any more,
\* after it with the first wave that only one side answers correctly.
THEOREM WinnerIsDecided == FinaleSpec => []WinnerIffDecided
<1>1. ShootoutInv => WinnerIffDecided
  <2> SUFFICES ASSUME ShootoutInv, Given(0) = Given(1), NEW side \in {0, 1}
               PROVE  shootout.winner = shootout.order[side + 1]
                        <=> Settled(side) \/ SuddenDeathWon(side)
    BY DEF WinnerIffDecided
  <2> DEFINE n == Len(shootout.rounds)
             played == IF n < RegulationRounds THEN n ELSE RegulationRounds
             R(s) == Reg(shootout, s)
             Won(s) == \E i \in 1 .. n : i > RegulationRounds /\ Alone(shootout.rounds[i], s)
  <2>1. /\ n \in Nat /\ RegulationRounds \in Nat /\ shootout.roundIndex \in Nat
        /\ shootout.turn \in {0, 1} /\ DOMAIN shootout.rounds = 1 .. n
    BY RegulationRoundsAssumption DEF ShootoutInv, Begun, Shootouts
  <2>2. ~(Running(shootout) /\ shootout.turn = 1)
    BY <2>1, GivenIsCounted
  <2>3. /\ n = IF Running(shootout) THEN shootout.roundIndex ELSE shootout.roundIndex + 1
        /\ Running(shootout) => shootout.turn = 0
    BY <2>1, <2>2 DEF ShootoutInv, InOrder
  <2>4. \A s \in {0, 1} :
          /\ R(s) \in Nat
          /\ Settled(s) <=> R(s) > R(1 - s) + (RegulationRounds - played)
          /\ SuddenDeathWon(s) <=> Won(s)
    BY <2>2, CompleteWaves
  <2>5. 1 - side \in {0, 1} /\ 1 - (1 - side) = side /\ 1 - side # side
    OBVIOUS
  <2>6. /\ shootout.order[side + 1] # NoPlayer
        /\ shootout.order[side + 1] # shootout.order[(1 - side) + 1]
    BY FinalistsAssumption DEF ShootoutInv, NoPlayer
  <2>7. CASE ~shootout.sudden
    <3>1. shootout.roundIndex < RegulationRounds
      BY <2>7, <2>1 DEF ShootoutInv, Due
    <3>2. n <= RegulationRounds /\ played = n
      BY <3>1, <2>1, <2>3
    <3>3. ~Won(side)
      BY <3>2, <2>1
    <3>4. \A s \in {0, 1} : Ahead(shootout, s) <=> Settled(s)
      BY <3>2, <2>4 DEF Ahead
    <3>5. CASE Running(shootout)
      <4>1. ~Settled(side)
        BY <3>4, <3>5, <2>7, <2>3 DEF ShootoutInv, Due
      <4>2. shootout.winner # shootout.order[side + 1]
        BY <3>5, <2>6 DEF Running
      <4> QED BY <4>1, <4>2, <3>3, <2>4
    <3>6. CASE ~Running(shootout)
      <4>1. PICK w \in {0, 1} : shootout.winner = shootout.order[w + 1] /\ Ahead(shootout, w)
        BY <3>6, <2>7 DEF ShootoutInv, Due
      <4>2. Settled(w)
        BY <4>1, <3>4
      <4>3. ~Settled(1 - w)
        <5>1. R(w) \in Nat /\ R(1 - w) \in Nat /\ RegulationRounds - played \in Nat
          BY <2>4, <2>1, <3>2
        <5>2. R(w) > R(1 - w) + (RegulationRounds - played)
          BY <4>2, <2>4
        <5>3. ~(R(1 - w) > R(w) + (RegulationRounds - played))
          <6> HIDE DEF R, played
          <6> QED BY <5>1, <5>2
        <5>4. 1 - w \in {0, 1} /\ 1 - (1 - w) = w
          OBVIOUS
        <5> QED BY <5>3, <5>4, <2>4
      <4>4. CASE w = side
        BY <4>1, <4>2, <4>4
      <4>5. CASE w = 1 - side
        BY <4>1, <4>3, <4>5, <2>4, <2>5, <2>6, <3>3
      <4>6. w = side \/ w = 1 - side
        OBVIOUS
      <4> QED BY <4>4, <4>5, <4>6
    <3> QED BY <3>5, <3>6
  <2>8. CASE shootout.sudden
    <3>1. shootout.roundIndex >= RegulationRounds /\ LevelSince(shootout)
      BY <2>8 DEF ShootoutInv, Due
    <3>2. n >= RegulationRounds /\ played = RegulationRounds
      BY <3>1, <2>1, <2>3
    <3>3. \A s \in {0, 1} : ~Settled(s)
      <4>1. R(0) = R(1)
        BY <3>1 DEF LevelSince
      <4> QED BY <4>1, <3>2, <2>1, <2>4
    <3>4. \A s \in {0, 1}, i \in 1 .. n :
            i > RegulationRounds /\ i <= shootout.roundIndex => ~Alone(shootout.rounds[i], s)
      BY <3>1, <2>1 DEF LevelSince, Alone
    <3>5. CASE Running(shootout)
      <4>1. ~Won(side)
        BY <3>4, <3>5, <2>1, <2>3
      <4>2. shootout.winner # shootout.order[side + 1]
        BY <3>5, <2>6 DEF Running
      <4> QED BY <4>1, <4>2, <3>3, <2>4
    <3>6. CASE ~Running(shootout)
      <4>1. PICK w \in {0, 1} :
              shootout.winner = shootout.order[w + 1] /\ Alone(shootout.rounds[n], w)
        BY <3>6, <2>8 DEF ShootoutInv, Due, WonLast
      <4>2. n \in 1 .. n /\ n > RegulationRounds
        BY <3>1, <3>6, <2>1, <2>3
      <4>3. Won(w)
        BY <4>1, <4>2
      <4>4. ~Won(1 - w)
        <5>1. ~Alone(shootout.rounds[n], 1 - w)
          BY <4>1 DEF Alone
        <5>2. \A i \in 1 .. n : i = n \/ i <= shootout.roundIndex
          BY <3>6, <2>1, <2>3
        <5> QED BY <5>1, <5>2, <3>4
      <4>5. CASE w = side
        BY <4>1, <4>3, <4>5, <2>4
      <4>6. CASE w = 1 - side
        BY <4>1, <4>4, <4>6, <2>4, <2>5, <2>6, <3>3
      <4>7. w = side \/ w = 1 - side
        OBVIOUS
      <4> QED BY <4>5, <4>6, <4>7
    <3> QED BY <3>5, <3>6
  <2> QED BY <2>7, <2>8
<1> QED BY <1>1, ShootoutInvariance, PTL
=============================================================================
