------------------------------- MODULE MCSpd -------------------------------
(* The instance of Spd that TLC checks: the map finds the end of a ride    *)
(* near its start at one time and far from it at another, the moderator    *)
(* far from it.                                                            *)
EXTENDS Spd

MCPoints == [x \in {"s", "e"} |-> IF x = "s" THEN {1} ELSE {2, 4}]
MCCorrections == [x \in {"s", "e"} |-> IF x = "s" THEN {1} ELSE {4}]
=============================================================================
