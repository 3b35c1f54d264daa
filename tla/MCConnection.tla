---------------------------- MODULE MCConnection ----------------------------
(* A phone whose network loses a connection while the server still has it. *)
EXTENDS Connection

CONSTANTS first, second

MCConns == {first, second}
=============================================================================
