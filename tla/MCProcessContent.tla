-------------------------- MODULE MCProcessContent --------------------------
(* Small instances of ProcessContent for TLC. *)
EXTENDS ProcessContent, TLC

\* Requests are told apart only by their local variables.
Symmetry == Permutations(Requests)

Model(collaboration, process) ==
  [parses |-> TRUE, collaboration |-> collaboration, process |-> process]
Broken == [parses |-> FALSE, collaboration |-> "absent", process |-> "absent"]

Sent(number, name, xml, publish) ==
  [version |-> number, name |-> name, xml |-> xml, publish |-> publish]

\* A plain process, a published one named after its collaboration, one whose
\* process has no id, and one that is no XML at all.
MCBodies == {Sent(1, "given", Model("absent", "id"), FALSE),
             Sent(2, "", Model("emptyId", "id"), TRUE),
             Sent(3, "", Model("noId", "noId"), FALSE),
             Sent(4, "given", Broken, FALSE)}

\* What was stored before documents were validated.
MCOriginal == Sent(0, "", Model("absent", "absent"), FALSE)
=============================================================================
