-------------------------------- MODULE Finale --------------------------------
(***************************************************************************)
(* Games of one room as far as they pull questions: the rounds, where any  *)
(* number of handlers pull one each, and the shootout of the last two,     *)
(* played by its rules (Shootout.tla) with questions from the deck         *)
(* (Deck.tla).  The editor of the bank is part of the lobby's screen, but  *)
(* its command may be handled late: it waits in the browser's queue, or    *)
(* another controller starts the game first, and the server checks no      *)
(* phase.                                                                  *)
(***************************************************************************)
EXTENDS Shootout, Deck

Reset == {}    \* resetQuestionBank, beside the uploads, none of which is empty

VARIABLES stage,    \* the phases that matter here
          sent      \* bank commands under way: an upload or Reset

finaleVars == <<shootout, deckVars, stage, sent>>

\* Before DoContinueAfterElimination makes it, shootout is as it will be made.
FinaleInit ==
  /\ Init /\ CreateRoom
  /\ stage = "lobby" /\ sent = {}

\* A shootout and the deck are well formed, and there is a question to answer
\* only in a shootout.
FinaleTypeOK ==
  /\ TypeOK /\ DeckTypeOK
  /\ stage \in {"lobby", "rounds", "shootout", "gameover"}
  /\ stage \in {"lobby", "rounds"} => shootout.rounds = <<>> /\ ~shootout.question
  /\ stage = "gameover" <=> shootout.winner # NoPlayer

-----------------------------------------------------------------------------
DoStartGame ==
  /\ stage = "lobby" /\ stage' = "rounds"
  /\ UNCHANGED <<shootout, deckVars, sent>>

\* FinishCountdown, DoSelectAsked, DoNextQuestion, DoMarkCorrect and
\* DoMarkIncorrect: each pulls one.
AskInRound ==
  /\ stage = "rounds" /\ PullQuestion
  /\ UNCHANGED <<shootout, stage, sent>>

DoContinueAfterElimination ==
  /\ stage = "rounds" /\ stage' = "shootout"
  /\ UNCHANGED <<shootout, deckVars, sent>>

\* FirstQuestion and DoShootoutNextQuestion
AskInShootout ==
  /\ stage = "shootout"
  /\ FirstQuestion \/ DoShootoutNextQuestion
  /\ PullQuestion
  /\ UNCHANGED <<stage, sent>>

\* A mark that decides the match pulls no further question.
MarkInShootout ==
  /\ stage = "shootout"
  /\ \E result \in Results : DoShootoutMark(result)
  /\ \/ shootout'.winner = NoPlayer /\ PullQuestion /\ UNCHANGED stage
     \/ shootout'.winner # NoPlayer /\ stage' = "gameover" /\ UNCHANGED deckVars
  /\ UNCHANGED sent

DoPlayAgain ==
  /\ stage = "gameover" /\ stage' = "lobby"
  /\ shootout' = ShootoutOf(Finalists[1], Finalists[2])
  /\ RestartDeck
  /\ UNCHANGED sent

\* ctrlSaveCustomQuestions, ctrlUseCsvQuestions and ctrlResetQuestions
SendBankCommand ==
  /\ stage = "lobby" /\ sent = {}
  /\ \E command \in Uploads \cup {Reset} : sent' = {command}
  /\ UNCHANGED <<shootout, deckVars, stage>>

HandleBankCommand ==
  /\ \E command \in sent :
       /\ \/ command = Reset /\ DoResetQuestionBank
          \/ DoSetQuestionBank(command)
       /\ sent' = sent \ {command}
  /\ UNCHANGED <<shootout, stage>>

FinaleNext ==
  \/ DoStartGame \/ AskInRound \/ DoContinueAfterElimination
  \/ AskInShootout \/ MarkInShootout \/ DoPlayAgain
  \/ SendBankCommand \/ HandleBankCommand

FinaleSpec == FinaleInit /\ [][FinaleNext]_finaleVars
=============================================================================
