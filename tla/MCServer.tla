------------------------------ MODULE MCServer ------------------------------
(* Two requests at a time, batches of two questions, so that there is a     *)
(* middle to crash in, and two migrations: one that creates tables, as the    *)
(* repository's does, and one that may be repeated.                         *)
EXTENDS Server, TLC

CONSTANTS one, other

MCRequests == {one, other}
MCPasswords == {2}
MCRepeatable == {2}
Symmetry == Permutations(MCRequests)
=============================================================================
