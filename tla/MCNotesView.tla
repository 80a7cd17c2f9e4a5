---------------------------- MODULE MCNotesView ----------------------------
(***************************************************************************)
(* A few notes in pages of one or two; b, c and d match the search.        *)
(***************************************************************************)
EXTENDS NotesView

CONSTANTS a, b, c, d, e, s1, s2

\* One RPC at a time, one page size, nobody else.
Alone(stored) == [ids |-> Range(stored), stored |-> stored, limits |-> {2}, slots |-> {s1},
                  others |-> FALSE, faults |-> FALSE, depth |-> 3]
\* Two RPCs overlap, fail and arrive in any order; other clients write.
Busy == [ids |-> {a, b}, stored |-> <<a, b>>, limits |-> {1, 2}, slots |-> {s1, s2},
         others |-> TRUE, faults |-> TRUE, depth |-> 2]

AllWorlds == {Alone(<<a, b, c, d, e>>), Busy}
SmallWorld == {Alone(<<a, b, c>>)}
=============================================================================
