------------------------------- MODULE MCFinale -------------------------------
(* Three shared questions and uploads of one and of two, for decks that run  *)
(* out in the middle of a shootout.                                          *)
EXTENDS Finale, TLC

CONSTANTS s1, s2, s3, u1, u2

MCFinalists == <<1, 2>>
MCShared  == {s1, s2, s3}
MCUploads == {{u1}, {u1, u2}}
MCSymmetry == Permutations(MCShared)
=============================================================================
