--------------------------- MODULE MCUserDeletion ---------------------------
(* Small instances of UserDeletion for TLC. *)
EXTENDS UserDeletion

CONSTANT bob   \* who stays

MCUsers == {Gone, bob}

Shared(gone, others) == [u \in Users |-> IF u = Gone THEN gone ELSE others]

\* Sole administrator, alone or with a reader; one of two administrators;
\* a guest with a single right of each kind; a stranger.
MCShares == {Shared(Rights, {}), Shared(Rights, {"r", "x"}),
             Shared(Rights, Rights), Shared({"w"}, Rights),
             Shared({"x"}, Rights), Shared({"r"}, Rights), Shared({}, Rights)}
=============================================================================
