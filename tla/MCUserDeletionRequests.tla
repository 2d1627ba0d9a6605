----------------------- MODULE MCUserDeletionRequests -----------------------
(* A small instance of UserDeletionRequests for TLC. *)
EXTENDS UserDeletionRequests

CONSTANT bob   \* who stays

MCUsers == {Gone, bob}

Shared(gone, rest) == [u \in Users |-> IF u = Gone THEN gone ELSE rest]

\* Sole administrator; two administrators; a guest.
MCShares == {Shared(Rights, {}), Shared(Rights, Rights), Shared({"x"}, Rights)}
=============================================================================
