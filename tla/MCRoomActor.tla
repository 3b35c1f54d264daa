---------------------------- MODULE MCRoomActor ----------------------------
(* A player who reconnects, the quizmaster's controller and a summary,     *)
(* with an inbox of one message, so that senders block.  The run about the *)
(* callers of a room that stops has one player, a join and room for two.   *)
EXTENDS RoomActor, TLC

CONSTANTS first, again, controller, joiner, asker, player, quizmaster

MCConns == {first, again, controller}
MCTwoConns == {first, controller}
MCJoiners == {joiner}
MCAskers == {asker}
MCSeats == {player, quizmaster}
MCSeat == (first :> player) @@ (again :> player) @@ (controller :> quizmaster)
MCTwoSeats == (first :> player) @@ (controller :> quizmaster)
MCControllers == {controller}
=============================================================================
