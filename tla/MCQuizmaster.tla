----------------------------- MODULE MCQuizmaster -----------------------------
(* Four players, so that a game has two eliminations and a shootout. *)
EXTENDS Quizmaster

MCLadder == <<1, 2>>
=============================================================================
