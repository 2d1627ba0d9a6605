----------------------- MODULE UserConsumerUses_proofs ----------------------
(***************************************************************************)
(* The consumer (UserConsumer) where it is used: on a topic that Kafka     *)
(* compacts, and in a service that is started and shut down.               *)
(***************************************************************************)
EXTENDS CompactedTopic, Lifecycle, UserConsumer_proofs

-----------------------------------------------------------------------------
(***************************************************************************)
(* Whatever compaction takes from the topic, and whenever it does, no      *)
(* commit covers the last message about a user unless it was handled.      *)
(***************************************************************************)

(***************************************************************************)
(* The empty topic of a new service satisfies the invariant.               *)
(***************************************************************************)
LEMMA InitTopic == TopicInit => TopicInv
<1> SUFFICES ASSUME TopicInit
             PROVE  TopicInv
  OBVIOUS
<1>1. topic = <<>> /\ keys = <<>> /\ compacted = {}
  BY DEF TopicInit, ConsumerInit
<1>2. ConsumerInv
  BY InitConsumer DEF TopicInit
<1> QED
  BY <1>1, <1>2 DEF ConsumerInv, TopicInv, TopicTypeOK, LastWordsBehind

(***************************************************************************)
(* A message that was superseded stays so: the topic only grows.           *)
(***************************************************************************)
LEMMA StaysSuperseded ==
  ASSUME TopicInv, TopicNext, NEW i \in 1 .. Len(topic), Superseded(i)
  PROVE  Superseded(i)'
<1>1. CASE UNCHANGED <<topic, keys>>
  BY <1>1 DEF Superseded
<1>2. CASE \E kind \in Kinds, user \in Users : Write(kind, user)
  <2>0. PICK kind \in Kinds, user \in Users : Write(kind, user)
    BY <1>2
  <2>1. topic \in Seq(Kinds) /\ keys \in Seq(Users) /\ Len(keys) = Len(topic)
    BY DEF TopicInv, TopicTypeOK, Sound, ConsumerTypeOK
  <2>2. topic' = Append(topic, kind) /\ keys' = Append(keys, user)
    BY <2>0 DEF Write, Publish
  <2>3. PICK k \in i + 1 .. Len(topic) : keys[k] = keys[i]
    BY DEF Superseded
  <2>4. k \in i + 1 .. Len(topic') /\ keys'[k] = keys[k] /\ keys'[i] = keys[i]
    BY <2>1, <2>2
  <2> QED
    BY <2>3, <2>4 DEF Superseded
<1>3. CASE \/ Compact \/ Work \/ ReadPast \/ StartOver
           \/ (Cancel \/ Kill) /\ UNCHANGED <<keys, compacted>>
  BY <1>1, <1>3 DEF Compact, consumerVars, Work, Consume, Poll, FetchMessage,
     Listen, OverTime, CommitMessages, ReadPast, StartOver, NewConsumer, Cancel, Kill
<1> QED
  BY <1>2, <1>3 DEF TopicNext

(***************************************************************************)
(* The consumer and its process keep the message at hand sound; reading    *)
(* past an empty offset, too, does.                                        *)
(***************************************************************************)
LEMMA TopicSound ==
  ASSUME TopicInv, TopicNext
  PROVE  Sound'
<1>1. CASE ConsumerNext
  BY <1>1, SoundStep DEF TopicInv
<1>2. CASE Compact
  BY <1>2 DEF Compact, TopicInv, consumerVars, Sound, ConsumerTypeOK, AtHand,
              GivesUpInTime
<1>3. CASE ReadPast
  <2>1. /\ consumer.next \in 1 .. Len(topic) /\ Len(topic) \in Nat
        /\ committed \in Nat /\ committed < consumer.next
    BY <1>3 DEF ReadPast, Pending, TopicInv, TopicTypeOK, Sound, ConsumerTypeOK, AtHand
  <2>2. consumer' = [pc |-> "fetch", next |-> consumer.next + 1,
                     attempt |-> 0, elapsed |-> 0]
    BY <1>3 DEF ReadPast, At
  <2>3. consumer' \in [pc : Pcs, next : 1 .. Len(topic) + 1,
                       attempt : Nat, elapsed : Nat]
    BY <2>1, <2>2 DEF Pcs
  <2>4. UNCHANGED <<topic, committed, ctxDone, handled, errors>>
    BY <1>3 DEF ReadPast
  <2>5. ConsumerTypeOK'
    BY <2>3, <2>4 DEF TopicInv, Sound, ConsumerTypeOK
  <2>6. AtHand'
    BY <2>1, <2>2, <2>4 DEF AtHand
  <2>7. GivesUpInTime'
    BY <2>2, UserConsumerAssumption DEF GivesUpInTime
  <2> QED
    BY <2>5, <2>6, <2>7 DEF Sound
<1> QED
  BY <1>1, <1>2, <1>3
  DEF TopicNext, Write, Work, StartOver, ConsumerNext

(***************************************************************************)
(* Every message has its key, and only messages are compacted.             *)
(***************************************************************************)
LEMMA TopicTypes ==
  ASSUME TopicInv, TopicNext
  PROVE  TopicTypeOK'
<1> USE DEF TopicInv, TopicTypeOK
<1>1. topic \in Seq(Kinds)
  BY DEF Sound, ConsumerTypeOK
<1>2. CASE \E kind \in Kinds, user \in Users : Write(kind, user)
  <2>1. PICK kind \in Kinds, user \in Users :
          /\ topic' = Append(topic, kind) /\ keys' = Append(keys, user)
          /\ UNCHANGED compacted
    BY <1>2 DEF Write, Publish
  <2> QED
    BY <1>1, <2>1
<1>3. CASE Compact
  <2>1. PICK i \in DOMAIN topic : compacted' = compacted \cup {i}
    BY <1>3 DEF Compact
  <2>2. UNCHANGED <<topic, keys>>
    BY <1>3 DEF Compact, consumerVars
  <2>3. i \in 1 .. Len(topic)
    BY <1>1
  <2> QED
    BY <2>1, <2>2, <2>3
<1>4. CASE \/ Work \/ ReadPast \/ StartOver
           \/ (Cancel \/ Kill) /\ UNCHANGED <<keys, compacted>>
  BY <1>4 DEF Work, Consume, Poll, FetchMessage, Listen, OverTime,
     CommitMessages, ReadPast, StartOver, NewConsumer, Cancel, Kill
<1> QED
  BY <1>2, <1>3, <1>4 DEF TopicNext

(***************************************************************************)
(* What is passed on over was handled, or compacted and so superseded.     *)
(***************************************************************************)
LEMMA LastWordsStep ==
  ASSUME TopicInv, TopicNext
  PROVE  LastWordsBehind'
<1> SUFFICES ASSUME NEW i \in 1 .. Len(topic'), i < consumer'.next
             PROVE  i \in handled' \/ Superseded(i)'
  BY DEF LastWordsBehind
<1>1. /\ handled \subseteq handled'
      /\ i < consumer.next \/ i \in handled \/ i \in compacted
  <2>1. CASE ConsumerNext
    BY <2>1, MovesOn DEF TopicInv
  <2>2. CASE Compact
    BY <2>2 DEF Compact, consumerVars
  <2>3. CASE ReadPast
    <3>1. consumer'.next = consumer.next + 1 /\ UNCHANGED handled
      BY <2>3 DEF ReadPast, At
    <3>2. consumer.next \in compacted
      BY <2>3 DEF ReadPast, Pending
    <3>3. consumer.next \in Nat
      BY DEF TopicInv, Sound, ConsumerTypeOK
    <3> QED
      BY <3>1, <3>2, <3>3
  <2> QED
    BY <2>1, <2>2, <2>3 DEF TopicNext, Write, Work, StartOver, ConsumerNext
<1>2. CASE i \in handled
  BY <1>1, <1>2
<1>3. CASE i \notin handled
  <2>1. i \in 1 .. Len(topic) /\ Superseded(i)
    BY <1>1, <1>3
    DEF TopicInv, TopicTypeOK, LastWordsBehind, Sound, ConsumerTypeOK
  <2> QED
    BY <2>1, StaysSuperseded
<1> QED
  BY <1>2, <1>3

(***************************************************************************)
(* Only superseded messages are compacted.                                 *)
(***************************************************************************)
LEMMA CompactedStep ==
  ASSUME TopicInv, TopicNext, NEW i \in compacted'
  PROVE  Superseded(i)'
<1>1. CASE i \in compacted
  BY <1>1, StaysSuperseded DEF TopicInv, TopicTypeOK
<1>2. CASE i \notin compacted
  <2>1. Compact
    BY <1>2 DEF TopicNext, Write, Work, ReadPast, StartOver
  <2> QED
    BY <1>2, <2>1 DEF Compact, consumerVars, Superseded
<1> QED
  BY <1>1, <1>2

(***************************************************************************)
(* The invariant holds throughout.                                         *)
(***************************************************************************)
THEOREM TopicInvariance == TopicSpec => []TopicInv
<1>1. TopicInit => TopicInv
  BY InitTopic
<1>2. TopicInv /\ [TopicNext]_topicVars => TopicInv'
  <2> SUFFICES ASSUME TopicInv, [TopicNext]_topicVars
               PROVE  TopicInv'
    OBVIOUS
  <2>1. CASE TopicNext
    BY <2>1, TopicSound, TopicTypes, LastWordsStep, CompactedStep DEF TopicInv
  <2>2. CASE UNCHANGED topicVars
    BY <2>2 DEF topicVars, consumerVars, TopicInv, TopicTypeOK, LastWordsBehind,
                Superseded, Sound, ConsumerTypeOK, AtHand, GivesUpInTime
  <2> QED
    BY <2>1, <2>2
<1> QED
  BY <1>1, <1>2, PTL DEF TopicSpec

(***************************************************************************)
(* No commit covers the last message about a user unless it was handled,   *)
(* whatever is compacted, for any number of users, messages and errors.    *)
(***************************************************************************)
THEOREM LastWordKeptHolds == TopicSpec => []LastWordKept
<1>1. TopicInv => LastWordKept
  BY DEF TopicInv, LastWordKept, LastWordsBehind, Sound, ConsumerTypeOK, AtHand
<1> QED
  BY <1>1, TopicInvariance, PTL

-----------------------------------------------------------------------------
(***************************************************************************)
(* The wait group of the service counts what is open, through starts that  *)
(* fail, shutdowns, crashes and restarts, for any number of requests in    *)
(* flight; so main never returns with anything open.                       *)
(***************************************************************************)

\* The invariant without the consumer, which has its own lemmas.
PartsInv ==
  /\ main \in Stages
  /\ wg \in Nat
  /\ mongo \in {"off", "open", "closed"}
  /\ reader \in {"off", "open", "closed"}
  /\ server \in {"off", "open", "draining", "closed"}
  /\ open \subseteq Calls
  /\ Counted
  /\ Started
  /\ open # {} => server \in {"open", "draining"}
  /\ main = "exited" => wg = 0

(***************************************************************************)
(* The two halves of the invariant.                                        *)
(***************************************************************************)
LEMMA Halves == LifecycleInv <=> ConsumerInv /\ PartsInv
  BY DEF LifecycleInv, LifecycleTypeOK, PartsInv, ConsumerInv, Sound

(***************************************************************************)
(* A new process begins with nothing open.                                 *)
(***************************************************************************)
LEMMA InitLifecycle == LifecycleInit => LifecycleInv
<1>1. LifecycleInit => PartsInv
  BY DEF LifecycleInit, PartsInv, Stages, Counted, One, Started
<1> QED
  BY <1>1, InitConsumer, Halves DEF LifecycleInit

-----------------------------------------------------------------------------
(***************************************************************************)
(* What becomes of the consumer.                                           *)
(***************************************************************************)

(***************************************************************************)
(* A consumer that begins behind the commit has everything before it       *)
(* handled, whatever its process did.                                      *)
(***************************************************************************)
LEMMA BeginStep ==
  ASSUME ConsumerInv, NEW pc \in {"loop", "closed"},
         consumer' = At(pc, committed + 1),
         ctxDone' \in BOOLEAN,
         UNCHANGED <<topic, committed, handled, errors>>
  PROVE  ConsumerInv'
<1> USE UserConsumerAssumption
    DEF ConsumerInv, Sound, ConsumerTypeOK, AtHand, AllBehind, GivesUpInTime, At, Pcs
<1>1. consumer' = [pc |-> pc, next |-> committed + 1, attempt |-> 0, elapsed |-> 0]
  OBVIOUS
<1>2. committed \in 0 .. Len(topic) /\ Len(topic) \in Nat
  OBVIOUS
<1>3. consumer' \in [pc : Pcs, next : 1 .. Len(topic) + 1,
                     attempt : Nat, elapsed : Nat]
  <2>1. committed + 1 \in 1 .. Len(topic) + 1
    BY <1>2
  <2> QED
    BY <1>1, <2>1
<1>4. ConsumerTypeOK'
  BY <1>3
<1>5. AtHand' /\ AllBehind'
  BY <1>1, <1>2
<1> QED
  BY <1>1, <1>4, <1>5

(***************************************************************************)
(* An error and a cancelled context change nothing the consumer relies on. *)
(***************************************************************************)
LEMMA AsideStep ==
  ASSUME ConsumerInv,
         UNCHANGED <<topic, committed, consumer, handled>>,
         ctxDone' \in BOOLEAN,
         Error \/ UNCHANGED errors
  PROVE  ConsumerInv'
  BY UserConsumerAssumption
  DEF ConsumerInv, Sound, ConsumerTypeOK, AtHand, AllBehind, GivesUpInTime, Error

(***************************************************************************)
(* The consumer keeps its invariant as a part of the service.              *)
(***************************************************************************)
LEMMA ConsumerInLifecycle ==
  ASSUME ConsumerInv, [LifecycleNext]_lifeVars
  PROVE  ConsumerInv'
<1>0. ctxDone \in BOOLEAN
  BY DEF ConsumerInv, Sound, ConsumerTypeOK
<1>1. CASE ConsumerWork
  BY <1>1, ConsumerStep DEF ConsumerWork, ConsumerNext
<1>2. ASSUME NEW kind \in Kinds, UserCommand(kind)
      PROVE  ConsumerInv'
  BY <1>2, ConsumerStep DEF UserCommand, ConsumerNext
<1>3. CASE StartConsumer
  BY <1>0, <1>3, BeginStep DEF StartConsumer
<1>4. CASE Restart
  BY <1>4, BeginStep DEF Restart
<1>5. CASE ConnectDatabase \/ NewController \/ ListenFails \/ Signal
  BY <1>0, <1>5, AsideStep DEF ConnectDatabase, NewController, ListenFails, Signal
<1>6. CASE UNCHANGED consumerVars
  BY <1>0, <1>6, AsideStep DEF consumerVars
<1>7. CASE StartApi \/ SelfTest \/ AwaitContext \/ Disconnect \/ CloseReader
           \/ Shutdown \/ Drained \/ Exit
           \/ \E c \in Calls : Accept(c) \/ Answer(c)
  BY <1>6, <1>7 DEF StartApi, SelfTest, AwaitContext, Disconnect, CloseReader,
                    Shutdown, Drained, Exit, Accept, Answer
<1> QED
  BY <1>1, <1>2, <1>3, <1>4, <1>5, <1>6, <1>7
  DEF LifecycleNext, Start, lifeVars

-----------------------------------------------------------------------------
(***************************************************************************)
(* What becomes of the parts.                                              *)
(***************************************************************************)

(***************************************************************************)
(* Start adds to the wait group what it opens, in its order.               *)
(***************************************************************************)
LEMMA StartStep ==
  ASSUME PartsInv, Start
  PROVE  PartsInv'
<1> USE DEF PartsInv, Stages, Counted, One, Started, Goto, Add
<1>1. CASE ConnectDatabase
  BY <1>1 DEF ConnectDatabase
<1>2. CASE NewController
  BY <1>2 DEF NewController, partVars
<1>3. CASE StartConsumer
  BY <1>3 DEF StartConsumer
<1>4. CASE StartApi
  BY <1>4 DEF StartApi
<1> QED
  BY <1>1, <1>2, <1>3, <1>4 DEF Start

(***************************************************************************)
(* Requests come and go only while the server does not wait for the last.  *)
(***************************************************************************)
LEMMA ServiceStep ==
  ASSUME PartsInv,
         (\E c \in Calls : Accept(c) \/ Answer(c)) \/ ListenFails \/ SelfTest
         \/ ConsumerWork \/ (\E kind \in Kinds : UserCommand(kind))
  PROVE  PartsInv'
<1> USE DEF PartsInv, Stages, Counted, One, Started, Goto
<1>1. ASSUME NEW c \in Calls, Accept(c) \/ Answer(c)
      PROVE  PartsInv'
  BY <1>1 DEF Accept, Answer
<1>2. CASE ListenFails \/ SelfTest
  BY <1>2 DEF ListenFails, SelfTest, partVars
<1>3. CASE ConsumerWork \/ \E kind \in Kinds : UserCommand(kind)
  BY <1>3 DEF ConsumerWork, UserCommand, partVars
<1> QED
  BY <1>1, <1>2, <1>3

(***************************************************************************)
(* Each part is taken off the wait group once, when it closes; main        *)
(* returns when none is left.                                              *)
(***************************************************************************)
LEMMA EndStep ==
  ASSUME PartsInv,
         Signal \/ AwaitContext \/ Disconnect \/ CloseReader \/ Shutdown
         \/ Drained \/ Exit \/ Restart
  PROVE  PartsInv'
<1> USE DEF PartsInv, Stages, Counted, One, Started, Goto, Done
<1>1. CASE Signal \/ AwaitContext \/ Exit
  BY <1>1 DEF Signal, AwaitContext, Exit, partVars
<1>2. CASE Disconnect
  BY <1>2 DEF Disconnect, Up
<1>3. CASE CloseReader
  BY <1>3 DEF CloseReader, Up
<1>4. CASE Shutdown
  BY <1>4 DEF Shutdown
<1>5. CASE Drained
  BY <1>5 DEF Drained, Up
<1>6. CASE Restart
  BY <1>6 DEF Restart
<1> QED
  BY <1>1, <1>2, <1>3, <1>4, <1>5, <1>6

-----------------------------------------------------------------------------
(***************************************************************************)
(* The invariant holds throughout.                                         *)
(***************************************************************************)
THEOREM LifecycleInvariance == LifecycleSpec => []LifecycleInv
<1>1. LifecycleInit => LifecycleInv
  BY InitLifecycle
<1>2. LifecycleInv /\ [LifecycleNext]_lifeVars => LifecycleInv'
  <2> SUFFICES ASSUME LifecycleInv, [LifecycleNext]_lifeVars
               PROVE  LifecycleInv'
    OBVIOUS
  <2>1. ConsumerInv /\ PartsInv
    BY Halves
  <2>2. ConsumerInv'
    BY <2>1, ConsumerInLifecycle
  <2>3. PartsInv'
    <3>1. CASE LifecycleNext
      BY <2>1, <3>1, StartStep, ServiceStep, EndStep DEF LifecycleNext
    <3>2. CASE UNCHANGED lifeVars
      BY <2>1, <3>2 DEF lifeVars, partVars, PartsInv, Counted, Started
    <3> QED
      BY <3>1, <3>2
  <2>4. (ConsumerInv /\ PartsInv)'
    BY <2>2, <2>3
  <2> QED
    BY <2>4, Halves, PTL
<1> QED
  BY <1>1, <1>2, PTL DEF LifecycleSpec

(***************************************************************************)
(* When main returns every part is closed and every request that was       *)
(* accepted was answered, for any number of requests in flight.            *)
(***************************************************************************)
THEOREM CleanExitHolds == LifecycleSpec => []CleanExit
<1>1. PartsInv => CleanExit
  BY DEF PartsInv, Counted, One, Started, CleanExit, AllClosed
<1> QED
  BY <1>1, LifecycleInvariance, Halves, PTL

(***************************************************************************)
(* No message is passed over, however processes start and end.             *)
(***************************************************************************)
THEOREM NothingSkippedInLifecycle == LifecycleSpec => []NothingSkipped
<1>1. ConsumerInv => NothingSkipped
  BY DEF ConsumerInv, Sound, ConsumerTypeOK, AtHand, AllBehind, NothingSkipped
<1> QED
  BY <1>1, LifecycleInvariance, Halves, PTL
=============================================================================
