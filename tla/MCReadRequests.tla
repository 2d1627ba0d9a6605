--------------------------- MODULE MCReadRequests ---------------------------
(* A small instance of ReadRequests for TLC. *)
EXTENDS ReadRequests, TLC

Symmetry == Permutations(Ids)

\* Three keys: no two documents need be alike, and any two may be.
MCKeys   == 1 .. 3
MCPublic == {2}

Page(search, limit, descending, admin) ==
  [ids |-> NoFilter, search |-> search, limit |-> limit, offset |-> 0,
   descending |-> descending, admin |-> admin]

MCOptions == {Page(1 .. 3, 1, FALSE, FALSE), Page({2, 3}, 2, TRUE, FALSE),
              Page(1 .. 3, 2, TRUE, TRUE),   Page(1 .. 3, 0, FALSE, FALSE),
              [Page(1 .. 3, 1, TRUE, FALSE) EXCEPT !.offset = 2]}
  \cup {[Page(1 .. 3, 1, FALSE, TRUE) EXCEPT !.ids = ids, !.offset = 1] :
          ids \in {{}} \cup kSubset(2, Ids)}
=============================================================================
