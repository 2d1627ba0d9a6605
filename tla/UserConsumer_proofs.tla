------------------------ MODULE UserConsumer_proofs -------------------------
(***************************************************************************)
(* The consumer of user commands passes over no message and gives up its   *)
(* retries in time, for every number of messages, errors and ticks.        *)
(***************************************************************************)
EXTENDS UserConsumer, TLAPS

(***************************************************************************)
(* The empty topic of a new service satisfies the invariant.               *)
(***************************************************************************)
LEMMA InitConsumer == ConsumerInit => ConsumerInv
<1> SUFFICES ASSUME ConsumerInit
             PROVE  ConsumerInv
  OBVIOUS
<1>1. /\ topic \in Seq(Kinds)
      /\ Len(topic) = 0
  BY DEF ConsumerInit
<1>2. consumer = [pc |-> "loop", next |-> 1, attempt |-> 0, elapsed |-> 0]
  BY DEF ConsumerInit, At
<1>3. consumer \in [pc : Pcs, next : 1 .. 1, attempt : Nat, elapsed : Nat]
  BY <1>2 DEF Pcs
<1>4. consumer \in [pc : Pcs, next : 1 .. Len(topic) + 1,
                    attempt : Nat, elapsed : Nat]
  BY <1>1, <1>3
<1>5. /\ committed \in 0 .. Len(topic)
      /\ ctxDone \in BOOLEAN
      /\ handled \subseteq 1 .. Len(topic)
      /\ errors \in 0 .. MaxFaults
  <2>1. MaxFaults \in Nat
    BY UserConsumerAssumption
  <2>2. 0 \in 0 .. Len(topic) /\ 0 \in 0 .. MaxFaults
    BY <1>1, <2>1
  <2> QED
    BY <2>2 DEF ConsumerInit
<1>6. ConsumerTypeOK
  <2>1. Len(topic) <= MaxMessages
    BY <1>1, UserConsumerAssumption
  <2> QED
    BY <1>1, <1>4, <1>5, <2>1 DEF ConsumerTypeOK
<1> QED
  BY <1>1, <1>2, <1>6, UserConsumerAssumption
  DEF ConsumerInit, ConsumerInv, Sound, AtHand, AllBehind, GivesUpInTime

(***************************************************************************)
(* A new message at the end of the topic is out of the consumer's way.     *)
(***************************************************************************)
LEMMA PublishStep ==
  ASSUME NEW kind \in Kinds, Sound, Publish(kind)
  PROVE  Sound'
<1>1. /\ topic' \in Seq(Kinds)
      /\ Len(topic') = Len(topic) + 1
  BY DEF Sound, ConsumerTypeOK, Publish
<1>2. ConsumerTypeOK'
  <2>1. Len(topic) \in Nat
    BY DEF Sound, ConsumerTypeOK
  <2>2. handled' \subseteq 1 .. Len(topic')
    BY <1>1, <2>1 DEF Sound, ConsumerTypeOK, Publish
  <2>3. consumer' \in [pc : Pcs, next : 1 .. Len(topic') + 1,
                       attempt : Nat, elapsed : Nat]
    BY <1>1, <2>1 DEF Sound, ConsumerTypeOK, Publish
  <2> QED
    BY <1>1, <2>1, <2>2, <2>3, UserConsumerAssumption
    DEF Sound, ConsumerTypeOK, Publish
<1>3. AtHand'
  BY <1>1 DEF Sound, ConsumerTypeOK, AtHand, Publish
<1> QED
  BY <1>2, <1>3 DEF Sound, GivesUpInTime, Publish

(***************************************************************************)
(* The head of the loop and the fetch leave the message at hand alone.     *)
(***************************************************************************)
LEMMA FetchStep ==
  ASSUME Sound, Poll \/ FetchMessage
  PROVE  Sound'
<1> USE UserConsumerAssumption
    DEF Sound, ConsumerTypeOK, AtHand, GivesUpInTime, At, Pcs, Error
<1>1. CASE Poll
  BY <1>1 DEF Poll
<1>2. CASE FetchMessage
  BY <1>2 DEF FetchMessage, Attempt
<1> QED
  BY <1>1, <1>2

(***************************************************************************)
(* An attempt ends with the message handled, or leads to one that begins   *)
(* within the timeout, or takes the process down.                          *)
(***************************************************************************)
LEMMA ListenStep ==
  ASSUME Sound, (\E time \in 0 .. CallTime : Listen(time)) \/ OverTime
  PROVE  Sound'
<1> USE UserConsumerAssumption
    DEF Sound, ConsumerTypeOK, AtHand, GivesUpInTime, At, Pcs, Error
<1>1. ASSUME NEW time \in 0 .. CallTime, Listen(time)
      PROVE  Sound'
  <2>1. CASE Succeeds(topic[consumer.next]) /\ consumer' = At("commit", consumer.next)
             /\ handled' = handled \cup {consumer.next}
    <3>1. consumer' = [pc |-> "commit", next |-> consumer.next,
                       attempt |-> 0, elapsed |-> 0]
      BY <2>1
    <3>2. UNCHANGED <<topic, committed, ctxDone, errors>>
      BY <1>1, <2>1 DEF Listen, Succeeds
    <3>3. consumer.next \in 1 .. Len(topic)
      BY <1>1 DEF Listen
    <3>4. handled' \subseteq 1 .. Len(topic)
      BY <2>1, <3>3
    <3>5. ConsumerTypeOK'
      BY <3>1, <3>2, <3>3, <3>4
    <3> QED
      BY <2>1, <3>1, <3>2, <3>3, <3>5
  <2>2. CASE Fails(topic[consumer.next]) /\ Retry(consumer.elapsed + time)
             /\ UNCHANGED handled
    <3>1. errors' \in 0 .. MaxFaults
      BY <2>2 DEF Fails
    <3>2. CASE Fatal
      BY <1>1, <2>2, <3>1, <3>2 DEF Listen, Fatal
    <3>3. CASE /\ MayWait(consumer.elapsed + time, consumer.attempt)
               /\ \E late \in 0 .. 1 :
                    consumer' = Attempt(consumer.attempt + 1, consumer.next,
                      consumer.elapsed + time + consumer.attempt + late)
      <4>1. PICK late \in 0 .. 1 :
              consumer' = Attempt(consumer.attempt + 1, consumer.next,
                consumer.elapsed + time + consumer.attempt + late)
        BY <3>3
      <4>2. /\ consumer'.pc = "listen"
            /\ consumer'.next = consumer.next
            /\ consumer'.elapsed
                 = consumer.elapsed + time + consumer.attempt + late
        BY <4>1 DEF Attempt
      <4>3. GivesUpInTime'
        BY <3>3, <4>2 DEF MayWait
      <4>4. consumer' \in [pc : Pcs, next : 1 .. Len(topic) + 1,
                           attempt : Nat, elapsed : Nat]
        BY <1>1, <4>1 DEF Attempt, Listen
      <4> QED
        BY <1>1, <2>2, <3>1, <4>2, <4>3, <4>4 DEF Listen
    <3> QED
      BY <2>2, <3>2, <3>3 DEF Retry
  <2> QED
    BY <1>1, <2>1, <2>2 DEF Listen
<1>2. CASE OverTime
  BY <1>2 DEF OverTime, Fatal
<1> QED
  BY <1>1, <1>2

(***************************************************************************)
(* Only a handled message is committed, and only then the next one is due. *)
(***************************************************************************)
LEMMA CommitStep ==
  ASSUME Sound, CommitMessages
  PROVE  Sound'
  BY UserConsumerAssumption
  DEF Sound, ConsumerTypeOK, AtHand, GivesUpInTime, At, Pcs, Error,
      CommitMessages

(***************************************************************************)
(* A shutdown, a crash and the start of the next process: it begins behind *)
(* the commit, where nothing is left that was not handled.                 *)
(***************************************************************************)
LEMMA ProcessStep ==
  ASSUME Sound, Cancel \/ Kill \/ NewConsumer
  PROVE  Sound'
<1> USE UserConsumerAssumption
    DEF Sound, ConsumerTypeOK, AtHand, GivesUpInTime, At, Pcs, Error
<1>1. CASE Cancel
  BY <1>1 DEF Cancel
<1>2. CASE Kill
  BY <1>2 DEF Kill
<1>3. CASE NewConsumer
  <2>1. consumer' = [pc |-> "loop", next |-> committed + 1,
                     attempt |-> 0, elapsed |-> 0]
    BY <1>3 DEF NewConsumer
  <2>2. UNCHANGED <<topic, committed, handled, errors>> /\ ctxDone' = FALSE
    BY <1>3 DEF NewConsumer
  <2>3. committed \in 0 .. Len(topic) /\ Len(topic) \in Nat
    OBVIOUS
  <2>4. consumer' \in [pc : Pcs, next : 1 .. Len(topic) + 1,
                       attempt : Nat, elapsed : Nat]
    <3>1. committed + 1 \in 1 .. Len(topic) + 1
      BY <2>3
    <3> QED
      BY <2>1, <3>1
  <2>5. ConsumerTypeOK'
    BY <2>2, <2>4
  <2>6. AtHand'
    BY <2>1, <2>2, <2>3
  <2> QED
    BY <2>1, <2>5, <2>6
<1> QED
  BY <1>1, <1>2, <1>3

(***************************************************************************)
(* A step leaves what was handled, and passes on over a message only once  *)
(* that was handled, or goes back behind the commit.                       *)
(***************************************************************************)
LEMMA MovesOn ==
  ASSUME Sound, ConsumerNext
  PROVE  /\ handled \subseteq handled'
         /\ \A i \in 1 .. Len(topic') :
              i < consumer'.next => i < consumer.next \/ i \in handled
<1> USE DEF Sound, ConsumerTypeOK, AtHand, At
<1>1. ASSUME NEW kind \in Kinds, Publish(kind)
      PROVE  UNCHANGED <<consumer, handled>>
  BY <1>1 DEF Publish
<1>2. CASE Poll \/ FetchMessage \/ OverTime \/ Cancel \/ Kill
  BY <1>2 DEF Poll, FetchMessage, Attempt, OverTime, Fatal, Cancel, Kill
<1>3. ASSUME NEW time \in 0 .. CallTime, Listen(time)
      PROVE  consumer'.next = consumer.next /\ handled \subseteq handled'
  BY <1>3 DEF Listen, Retry, Attempt, Fatal
<1>4. CASE CommitMessages
  BY <1>4 DEF CommitMessages
<1>5. CASE NewConsumer
  <2>1. consumer'.next = committed + 1 /\ UNCHANGED handled
    BY <1>5 DEF NewConsumer
  <2> QED
    BY <2>1
<1> QED
  BY <1>1, <1>2, <1>3, <1>4, <1>5 DEF ConsumerNext, Consume

(***************************************************************************)
(* A step of the consumer, or of its process, keeps the message at hand    *)
(* sound.                                                                  *)
(***************************************************************************)
LEMMA SoundStep ==
  ASSUME Sound, ConsumerNext
  PROVE  Sound'
  BY PublishStep, FetchStep, ListenStep, CommitStep, ProcessStep
  DEF ConsumerNext, Consume

(***************************************************************************)
(* Every step keeps the invariant.                                         *)
(***************************************************************************)
LEMMA ConsumerStep ==
  ASSUME ConsumerInv, [ConsumerNext]_consumerVars
  PROVE  ConsumerInv'
<1>1. CASE UNCHANGED consumerVars
  BY <1>1 DEF consumerVars, ConsumerInv, Sound, ConsumerTypeOK, AtHand,
              GivesUpInTime, AllBehind
<1>2. CASE ConsumerNext
  <2>1. Sound'
    BY <1>2, SoundStep DEF ConsumerInv
  <2>2. AllBehind'
    <3> SUFFICES ASSUME NEW i \in 1 .. Len(topic'), i < consumer'.next
                 PROVE  i \in handled'
      BY DEF AllBehind
    <3>1. i < consumer.next \/ i \in handled
      BY <1>2, MovesOn DEF ConsumerInv
    <3>2. i < consumer.next => i \in 1 .. Len(topic)
      BY DEF ConsumerInv, Sound, ConsumerTypeOK
    <3> QED
      BY <1>2, <3>1, <3>2, MovesOn DEF ConsumerInv, AllBehind
  <2> QED
    BY <2>1, <2>2 DEF ConsumerInv
<1> QED
  BY <1>1, <1>2

(***************************************************************************)
(* The invariant holds throughout.                                         *)
(***************************************************************************)
THEOREM ConsumerInvariance == ConsumerSpec => []ConsumerInv
<1>1. ConsumerInit => ConsumerInv
  BY InitConsumer
<1>2. ConsumerInv /\ [ConsumerNext]_consumerVars => ConsumerInv'
  BY ConsumerStep
<1> QED
  BY <1>1, <1>2, PTL DEF ConsumerSpec

(***************************************************************************)
(* No message is committed unhandled, nor passed over by a later commit,   *)
(* through failed commits, shutdowns, crashes and restarts.                *)
(***************************************************************************)
THEOREM NothingSkippedHolds == ConsumerSpec => []NothingSkipped
<1>1. ConsumerInv => NothingSkipped
  BY DEF ConsumerInv, Sound, ConsumerTypeOK, AtHand, AllBehind, NothingSkipped
<1> QED
  BY <1>1, ConsumerInvariance, PTL

(***************************************************************************)
(* retry never sleeps past its timeout.                                    *)
(***************************************************************************)
THEOREM GivesUpInTimeHolds == ConsumerSpec => []GivesUpInTime
<1>1. ConsumerInv => GivesUpInTime
  BY DEF ConsumerInv, Sound
<1> QED
  BY <1>1, ConsumerInvariance, PTL

(***************************************************************************)
(* A handled message has everything before it handled.                     *)
(***************************************************************************)
LEMMA ListenDelivers ==
  ASSUME ConsumerInv, NEW time \in 0 .. CallTime, Listen(time)
  PROVE  Promise!Handle \/ UNCHANGED Promise!deliveryVars
<1>1. UNCHANGED <<topic, committed>>
  BY DEF Listen
<1>2. CASE handled' = handled \cup {consumer.next}
  <2>1. /\ consumer.next \in 1 .. Len(topic)
        /\ 1 .. consumer.next - 1 \subseteq handled
    BY DEF ConsumerInv, Sound, ConsumerTypeOK, AtHand, AllBehind, Listen
  <2> QED
    BY <1>1, <1>2, <2>1 DEF Promise!Handle
<1>3. CASE UNCHANGED handled
  BY <1>1, <1>3 DEF Promise!deliveryVars
<1> QED
  BY <1>2, <1>3 DEF Listen

(***************************************************************************)
(* A commit moves the group on to the message that was just handled.       *)
(***************************************************************************)
LEMMA CommitDelivers ==
  ASSUME ConsumerInv, CommitMessages
  PROVE  Promise!Commit \/ UNCHANGED Promise!deliveryVars
<1>1. /\ consumer.next \in handled
      /\ committed \in Nat /\ consumer.next \in Nat /\ committed < consumer.next
      /\ 1 .. consumer.next \subseteq handled
  BY DEF ConsumerInv, Sound, ConsumerTypeOK, AtHand, AllBehind, CommitMessages
<1>2. UNCHANGED <<topic, handled>> /\ committed' \in {committed, consumer.next}
  BY DEF CommitMessages
<1> QED
  BY <1>1, <1>2 DEF Promise!Commit, Promise!deliveryVars

(***************************************************************************)
(* The consumer implements Delivery: every message is handled at least     *)
(* once and in its order, and the group only moves on, over messages that  *)
(* were handled, for any number of messages, errors and restarts.          *)
(***************************************************************************)
THEOREM ConsumerDelivers == ConsumerSpec => Delivers
<1>1. ConsumerInit => Promise!InitDelivery
  BY DEF ConsumerInit, Promise!InitDelivery
<1>2. ConsumerInv /\ [ConsumerNext]_consumerVars
        => [Promise!Send \/ Promise!Handle \/ Promise!Commit]_Promise!deliveryVars
  <2> SUFFICES ASSUME ConsumerInv, ConsumerNext
               PROVE  Promise!Send \/ Promise!Handle \/ Promise!Commit
                      \/ UNCHANGED Promise!deliveryVars
    BY DEF consumerVars, Promise!deliveryVars
  <2>1. ASSUME NEW kind \in Kinds, Publish(kind)
        PROVE  Promise!Send
    BY <2>1 DEF Publish, Promise!Send
  <2>2. CASE Poll \/ FetchMessage \/ OverTime \/ Cancel \/ Kill \/ NewConsumer
    BY <2>2 DEF Poll, FetchMessage, OverTime, Cancel, Kill, NewConsumer,
                Promise!deliveryVars
  <2> QED
    BY <2>1, <2>2, ListenDelivers, CommitDelivers DEF ConsumerNext, Consume
<1> QED
  BY <1>1, <1>2, ConsumerInvariance, PTL
  DEF ConsumerSpec, Delivers, Promise!DeliverySpec
=============================================================================
