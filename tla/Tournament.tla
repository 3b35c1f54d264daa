------------------------------ MODULE Tournament ------------------------------
(***************************************************************************)
(* What the game promises, without rounds, votes or questions: players     *)
(* gather; once the contest has begun they leave it one at a time, never   *)
(* to come back; the last two decide it between them and one of those two  *)
(* is crowned; a new contest starts again with everybody.                  *)
(***************************************************************************)
EXTENDS Naturals, FiniteSets

CONSTANTS Nobody, FewestPlayers

VARIABLES stage, entrants, contestants, champion

vars == <<stage, entrants, contestants, champion>>

\* Nobody has entered yet.
Init ==
  /\ stage = "open"
  /\ entrants = {} /\ contestants = {}
  /\ champion = Nobody

Enter ==
  /\ stage = "open"
  /\ \E p \in entrants' \ entrants : entrants' = entrants \cup {p}
  /\ contestants' = entrants'
  /\ UNCHANGED <<stage, champion>>

Withdraw(p) ==
  /\ stage = "open"
  /\ entrants' = entrants \ {p}
  /\ contestants' = contestants \ {p}
  /\ UNCHANGED <<stage, champion>>

Begin ==
  /\ stage = "open" /\ Cardinality(contestants) >= FewestPlayers
  /\ stage' = "contest"
  /\ UNCHANGED <<entrants, contestants, champion>>

Eliminate(p) ==
  /\ stage = "contest" /\ Cardinality(contestants) > 2
  /\ contestants' = contestants \ {p}
  /\ UNCHANGED <<stage, entrants, champion>>

Crown(p) ==
  /\ stage = "contest" /\ Cardinality(contestants) = 2
  /\ stage' = "over"
  /\ champion' = p
  /\ UNCHANGED <<entrants, contestants>>

Reopen ==
  /\ stage = "over"
  /\ stage' = "open"
  /\ contestants' = entrants
  /\ champion' = Nobody
  /\ UNCHANGED entrants

Next ==
  \/ Enter \/ Begin \/ Reopen
  \/ \E p \in entrants : Withdraw(p)
  \/ \E p \in contestants : Eliminate(p) \/ Crown(p)

Spec == Init /\ [][Next]_vars
=============================================================================
