------------------------------- MODULE MCWorkers -------------------------------
(* Two conversations, each with one name of its own for its worker, or     *)
(* both with the same name.                                                *)
EXTENDS Workers

CONSTANTS h1, h2, w1, w2

OwnNames == [h \in Hosts |-> IF h = h1 THEN {w1} ELSE {w2}]

SameNames == [h \in Hosts |-> {w1}]

(* Of two workers, the name of the first goes on after that of the second  *)
(* with a "-".                                                             *)
FirstClaimedBySecond == [w \in Wids |-> IF w = w2 THEN {w1, w2} ELSE {w}]
=============================================================================
