--------------------------- MODULE MCPatVerifier ---------------------------
(***************************************************************************)
(* Two callers, a token of user 1 and a token of user 2.                   *)
(***************************************************************************)
EXTENDS PatVerifier

CONSTANTS c1, c2, p1, p2

OneOrBoth == [c \in {c1, c2} |-> IF c = c1 THEN {p1} ELSE {p1, p2, NoToken}]
TwoHolders == [t \in {p1, p2} |-> IF t = p1 THEN 1 ELSE 2]
=============================================================================
