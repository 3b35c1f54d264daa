------------------------------ MODULE MCTwoTaps ------------------------------
(* Three players and a screen that may be one command behind. *)
EXTENDS Quizmaster

MCLadder == <<1, 2>>
=============================================================================
