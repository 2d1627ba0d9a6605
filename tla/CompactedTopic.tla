--------------------------- MODULE CompactedTopic ---------------------------
(***************************************************************************)
(* The users topic as InitTopic of lib/source/util creates it: a single    *)
(* partition that keeps its messages for ever (retention.ms and            *)
(* retention.bytes are -1), but is compacted. Of the messages with one key *)
(* Kafka keeps only the last; the offsets of the others stay empty, and    *)
(* the consumer (UserConsumer) reads past them.                            *)
(*                                                                         *)
(* So a message may be gone before it is handled. The properties say that  *)
(* only a later message of its key can make it so, and that the last       *)
(* command about a user is reached. Whether and when Kafka compacts a      *)
(* message is its own affair: none of them relies on it.                   *)
(***************************************************************************)
EXTENDS UserConsumer

CONSTANT Users   \* the keys of the messages

VARIABLES
  keys,      \* keys[i]: whom message i is about
  compacted  \* the offsets that compaction has emptied

topicVars == <<consumerVars, keys, compacted>>

Superseded(i) == \E k \in i + 1 .. Len(topic) : keys[k] = keys[i]

-----------------------------------------------------------------------------
TopicInit == ConsumerInit /\ keys = <<>> /\ compacted = {}

Write(kind, user) == /\ Publish(kind)
                     /\ keys' = Append(keys, user)
                     /\ UNCHANGED compacted

\* Mutant: retention takes any message in the end.
Retention == /\ \E i \in (DOMAIN topic) \ compacted : compacted' = compacted \cup {i}
             /\ UNCHANGED <<consumerVars, keys>>

\* The cleaner takes its time, and may leave a message for ever: the active
\* segment of a partition is not compacted.
Compact == /\ \E i \in (DOMAIN topic) \ compacted :
                Superseded(i) /\ compacted' = compacted \cup {i}
           /\ UNCHANGED <<consumerVars, keys>>

Pending == consumer.pc = "fetch" /\ consumer.next \in compacted

\* A message that was fetched before it was compacted is handled as any other.
Work == /\ Consume
        /\ ~(Pending /\ consumer'.pc = "listen")
        /\ UNCHANGED <<keys, compacted>>

ReadPast == /\ Pending
            /\ consumer' = At("fetch", consumer.next + 1)
            /\ UNCHANGED <<topic, committed, ctxDone, handled, errors, keys, compacted>>

StartOver == NewConsumer /\ UNCHANGED <<keys, compacted>>

TopicNext == \/ \E kind \in Kinds, user \in Users : Write(kind, user)
             \/ Compact \/ Work \/ ReadPast \/ StartOver
             \/ (Cancel \/ Kill) /\ UNCHANGED <<keys, compacted>>

\* Nothing makes the cleaner compact anything; the consumer is UserConsumer's.
TopicSpec == /\ TopicInit /\ [][TopicNext]_topicVars
             /\ WF_topicVars(Work \/ ReadPast) /\ WF_topicVars(StartOver)

-----------------------------------------------------------------------------
(***************************************************************************)
(* Behind the commit everything was handled, or a later message about the  *)
(* same user has taken its place: no commit covers the last word about a   *)
(* user unless it was handled.                                             *)
(***************************************************************************)
LastWordKept == \A i \in 1 .. committed : i \in handled \/ Superseded(i)

(***************************************************************************)
(* The deletion of a user is handled if it is the last word about them and *)
(* no message stands before it that is not a command and is still there.   *)
(* Such a message blocks the consumer until compaction has taken it, be it *)
(* in the consumer's hands then; that it is superseded is not enough.      *)
(***************************************************************************)
Due(i) == /\ i <= Len(topic)
          /\ topic[i] = "delete"
          /\ \A k \in 1 .. i : topic[k] = "malformed" => k \in compacted

LastWordHandled ==
  \A i \in 1 .. MaxMessages :
    Due(i) ~> (i \in handled \/ (i <= Len(topic) /\ Superseded(i)))

-----------------------------------------------------------------------------
(***************************************************************************)
(* Why LastWordKept holds: compaction takes superseded messages only, and  *)
(* the consumer has read, or read past, everything before the one at hand. *)
(***************************************************************************)
TopicTypeOK ==
  /\ keys \in Seq(Users) /\ Len(keys) = Len(topic)
  /\ compacted \subseteq 1 .. Len(topic)

LastWordsBehind ==
  \A i \in 1 .. Len(topic) :
    i < consumer.next => i \in handled \/ Superseded(i)

\* The inductive invariant of the compacted topic.
TopicInv == /\ Sound /\ TopicTypeOK /\ LastWordsBehind
            /\ \A i \in compacted : Superseded(i)
=============================================================================
