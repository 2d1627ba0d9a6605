-------------------------- MODULE ProcessRegistry ---------------------------
(***************************************************************************)
(* What the process-model-repository promises about a process, whatever it *)
(* does inside: a registry in which a process is present or not. A process *)
(* is confirmed only while it is present, and it never goes away unless    *)
(* the service released it.                                                *)
(***************************************************************************)
CONSTANT Ids

VARIABLES
  present,   \* ids with a document and the rights on it
  released,  \* ids the service owes nothing for
  acked      \* ids a write was confirmed for

RegistryInit == /\ present \subseteq Ids
                /\ released = {}
                /\ acked = {}

\* A process is stored, or stored again; the caller may learn of it.
Store(id) == /\ present' = present \cup {id}
             /\ released' \in {released, released \cup {id}}
             /\ acked' \in {acked, acked \cup {id}}

\* The caller learns that a process is there, or was until it was released.
Acknowledge(id) == /\ released' \in {released, released \cup {id}}
                   /\ id \in present \cup released'
                   /\ acked' = acked \cup {id}
                   /\ UNCHANGED present

\* The service gives up its promise on a process.
Drop(id) == /\ released' = released \cup {id}
            /\ UNCHANGED <<present, acked>>

\* A released process goes away.
Withdraw(id) == /\ released' = released \cup {id}
                /\ present' = present \ {id}
                /\ UNCHANGED acked

RegistryNext == \E id \in Ids :
                  Store(id) \/ Acknowledge(id) \/ Drop(id) \/ Withdraw(id)

RegistrySpec ==
  RegistryInit /\ [][RegistryNext]_<<present, released, acked>>
=============================================================================
