---------------------------- MODULE MCModeration ----------------------------
(* Two requests at a time.  Batches have two questions, so that there is a  *)
(* middle to crash in, and there is room for two of them and an approval.   *)
EXTENDS Moderation, TLC

CONSTANTS one, other

MCRequests == {one, other}
Symmetry == Permutations(MCRequests)
=============================================================================
