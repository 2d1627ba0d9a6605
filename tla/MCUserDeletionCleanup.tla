------------------------ MODULE MCUserDeletionCleanup -----------------------
(* Small instances of UserDeletionCleanup for TLC. *)
EXTENDS UserDeletionCleanup

CONSTANT bob   \* who stays

MCUsers == {Gone, bob}

Shared(gone, others) == [u \in Users |-> IF u = Gone THEN gone ELSE others]

\* Sole administrator, with a reader; two administrators; a guest.
MCShares == {Shared(Rights, {"r", "x"}), Shared(Rights, Rights),
             Shared({"w"}, Rights)}
=============================================================================
