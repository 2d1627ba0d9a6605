------------------------------ MODULE Delivery ------------------------------
(***************************************************************************)
(* What the consumer of user commands promises: every message is handled   *)
(* at least once, none before those in front of it, and the consumer group *)
(* only ever moves on, over messages that were handled. How messages are   *)
(* fetched, how often they are tried, and what ends the process, is no     *)
(* part of it. UserConsumer implements this module.                        *)
(***************************************************************************)
EXTENDS Naturals, Sequences

CONSTANT Commands   \* what messages say

VARIABLES
  topic,      \* the messages, oldest first
  handled,    \* the numbers of those that were handled
  committed   \* the number of those that are done with

deliveryVars == <<topic, handled, committed>>

InitDelivery == topic = <<>> /\ handled = {} /\ committed = 0

Send == /\ \E command \in Commands : topic' = Append(topic, command)
        /\ UNCHANGED <<handled, committed>>

\* A message that was handled before, but not committed, may come again.
Handle == /\ \E i \in 1 .. Len(topic) : /\ 1 .. i - 1 \subseteq handled
                                        /\ handled' = handled \cup {i}
          /\ UNCHANGED <<topic, committed>>

Commit == /\ \E i \in handled : i > committed /\ committed' = i
          /\ 1 .. committed' \subseteq handled
          /\ UNCHANGED <<topic, handled>>

DeliverySpec == InitDelivery /\ [][Send \/ Handle \/ Commit]_deliveryVars
=============================================================================
