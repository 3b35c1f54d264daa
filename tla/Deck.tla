--------------------------------- MODULE Deck ---------------------------------
(***************************************************************************)
(* The questions of one room: the bank it was created with                 *)
(* (internal/httpapi/rooms.go), the bank the quizmaster replaces it by,    *)
(* and the deck from which the engine pulls the next question              *)
(* (internal/room/state.go, internal/room/actions.go).                     *)
(*                                                                         *)
(* A question is an entry of a bank; the deck is the set of entries not    *)
(* yet drawn, for the last of a uniformly shuffled slice is any of them.   *)
(* The nil deck and the empty one are {}, which PullQuestion refills.      *)
(*                                                                         *)
(* A definition X_Bug before a definition X is X with a mistake in it; the *)
(* properties must notice when it takes the place of X.                    *)
(***************************************************************************)
EXTENDS Naturals, FiniteSets

CONSTANTS Shared,        \* the questions of the database, when it has any
          Uploads,       \* the question sets a quizmaster has at hand
          Placeholder,   \* emptyBankQuestion
          NoQuestion     \* nothing has been pulled yet

ASSUME QuestionsAssumption ==
  /\ {} \notin Uploads
  /\ \A upload \in Uploads : upload \cap Shared = {}
  /\ Placeholder \notin (UNION Uploads) \cup Shared
  /\ NoQuestion \notin (UNION Uploads) \cup Shared \cup {Placeholder}

Entries == (UNION Uploads) \cup Shared

VARIABLES community,     \* communityBank, the snapshot of the database
          questionBank,  \* QuestionBank
          usingCustom,   \* UsingCustom, shown to the quizmaster
          deck,          \* the entries of the draw pile
          shown,         \* the question pulled last
          ahead          \* how many times more often than the least asked
                         \* question of the bank each has been pulled from the
                         \* present bank in this game; nothing reads it

bankVars == <<community, questionBank, usingCustom>>
drawVars == <<deck, shown, ahead>>
deckVars == <<community, questionBank, usingCustom, deck, shown, ahead>>

DeckTypeOK ==
  /\ community \subseteq Shared
  /\ questionBank \subseteq Entries
  /\ usingCustom \in BOOLEAN
  /\ deck \subseteq Entries
  /\ shown \in Entries \cup {Placeholder, NoQuestion}
  /\ ahead \in [questionBank -> Nat]

NobodyAhead(bank) == [q \in bank |-> 0]

\* handleCreateRoom takes the upload, if there is one, and else the snapshot; a
\* room with no question to start with is refused.
CreateRoom ==
  /\ community \in {{}, Shared}
  /\ \/ usingCustom = FALSE /\ questionBank = community /\ community # {}
     \/ usingCustom = TRUE /\ questionBank \in Uploads
  /\ deck = {} /\ shown = NoQuestion /\ ahead = NobodyAhead(questionBank)

-----------------------------------------------------------------------------
\* q has been pulled once more
Counted(q) ==
  LET more  == [ahead EXCEPT ![q] = @ + 1]
      level == \A e \in DOMAIN more : more[e] > 0
  IN [e \in DOMAIN more |-> IF level THEN more[e] - 1 ELSE more[e]]

Pile_EachTimeShuffled == questionBank

\* shuffledCopy of the bank when the deck has run out
Pile == IF deck = {} THEN questionBank ELSE deck

PullQuestion ==
  \/ /\ Pile = {}
     /\ shown' = Placeholder
     /\ UNCHANGED <<bankVars, deck, ahead>>
  \/ \E q \in Pile :
       /\ shown' = q
       /\ deck' = Pile \ {q}
       /\ ahead' = IF q \in DOMAIN ahead THEN Counted(q) ELSE ahead
       /\ UNCHANGED bankVars

NewDeck_Kept(bank) ==
  /\ ahead' = NobodyAhead(bank)
  /\ UNCHANGED deck

\* A new bank, or a new game, starts a new deck.
NewDeck(bank) ==
  /\ deck' = {}
  /\ ahead' = NobodyAhead(bank)

DoSetQuestionBank(questions) ==
  /\ questions # {}
  /\ questionBank' = questions
  /\ usingCustom' = TRUE
  /\ NewDeck(questions)
  /\ UNCHANGED <<community, shown>>

DoResetQuestionBank ==
  /\ questionBank' = community
  /\ usingCustom' = FALSE
  /\ NewDeck(community)
  /\ UNCHANGED <<community, shown>>

\* The part of DoPlayAgain that is about questions: NewState is given the bank in
\* use and whether it is a custom one.
RestartDeck ==
  /\ UNCHANGED bankVars
  /\ NewDeck(questionBank)
  /\ shown' = NoQuestion

-----------------------------------------------------------------------------
\* No question comes up again while another of the bank has not been asked as
\* often: the deck is drawn without replacement and refilled only when it has
\* run out, whichever handler pulls and whenever the bank changes.
NoRepeats == \A q \in DOMAIN ahead : ahead[q] <= 1

\* The quizmaster's screen says whether the questions are the room's own or the
\* shared ones, and what is asked next is one of those: never a question of a
\* bank that has been replaced, and the placeholder only when the shared bank
\* was empty at creation and the quizmaster went back to it.
AsksWhatItSays ==
  [][shown' \notin {shown, NoQuestion} =>
       shown' \in IF usingCustom THEN questionBank \cap UNION Uploads
                  ELSE IF community = {} THEN {Placeholder}
                  ELSE community]_deckVars
=============================================================================
