---------------------------- MODULE UserConsumer ----------------------------
(***************************************************************************)
(* The Kafka consumer of user commands (lib/source/consumer): one          *)
(* goroutine fetches a message, calls the listener until it succeeds or    *)
(* ten minutes are over, and commits the message. Whatever it cannot       *)
(* handle ends the process; the next one goes on behind the last commit.   *)
(*                                                                         *)
(* What the listener does to the stores is the subject of UserDeletion;    *)
(* here a call of it succeeds or fails.                                    *)
(***************************************************************************)
EXTENDS Naturals, Sequences

CONSTANTS
  RetryTime,    \* the timeout of retry, in ticks; attempt n waits n of them
  CallTime,     \* bound: the ticks a call of the listener takes at most
  MaxMessages,  \* bound: messages in the topic
  MaxFaults     \* bound: failed calls, signals and crashes in one behaviour

ASSUME UserConsumerAssumption ==
  /\ RetryTime \in Nat \ {0}
  /\ CallTime \in Nat
  /\ MaxMessages \in Nat
  /\ MaxFaults \in Nat

VARIABLES
  topic,      \* the messages of the only partition
  committed,  \* the offset of the consumer group: messages committed
  consumer,   \* the goroutine of Consumer.start
  ctxDone,    \* the context is cancelled: the process shuts down
  handled,    \* history: messages whose handler returned without an error
  errors      \* failed calls, signals and crashes so far

consumerVars == <<topic, committed, consumer, ctxDone, handled, errors>>

\* A command DELETE, another command, and a message that is not a command.
Kinds == {"delete", "other", "malformed"}

(***************************************************************************)
(* "loop" and "fetch" are the head of the loop and the pending fetch,      *)
(* "listen" is attempt number attempt of the retry, elapsed ticks after    *)
(* its begin, on message number next. "closed" is a goroutine that has     *)
(* returned, "down" a process that has ended.                              *)
(***************************************************************************)
Pcs == {"loop", "fetch", "listen", "commit", "closed", "down"}

At(pc, next) == [pc |-> pc, next |-> next, attempt |-> 0, elapsed |-> 0]
Attempt(number, next, elapsed) ==
  [pc |-> "listen", next |-> next, attempt |-> number, elapsed |-> elapsed]

Error == errors < MaxFaults /\ errors' = errors + 1

-----------------------------------------------------------------------------
Publish(kind) ==
  /\ Len(topic) < MaxMessages
  /\ topic' = Append(topic, kind)
  /\ UNCHANGED <<committed, consumer, ctxDone, handled, errors>>

Poll ==
  /\ consumer.pc = "loop"
  /\ consumer' = At(IF ctxDone THEN "closed" ELSE "fetch", consumer.next)
  /\ UNCHANGED <<topic, committed, ctxDone, handled, errors>>

\* FetchMessage: a message, the cancelled context, or an error.
FetchMessage ==
  /\ consumer.pc = "fetch"
  /\ \/ /\ consumer.next <= Len(topic)
        /\ consumer' = Attempt(1, consumer.next, 0)
        /\ UNCHANGED errors
     \/ /\ ctxDone
        /\ consumer' = At("closed", consumer.next)
        /\ UNCHANGED errors
     \/ /\ Error
        /\ consumer' = At("down", consumer.next)
  /\ UNCHANGED <<topic, committed, ctxDone, handled>>

-----------------------------------------------------------------------------
\* Mutants: the error is only logged, and the loop goes on; or it returns.
LogOnly == consumer' = At("loop", consumer.next + 1)
Return  == consumer' = At("closed", consumer.next)

\* The error handler: log.Fatal.
Fatal == consumer' = At("down", consumer.next)

\* Mutant: the wait itself does not count.
WaitAnyway(elapsed, wait) == elapsed < RetryTime

MayWait(elapsed, wait) == elapsed + wait < RetryTime

\* After a failed attempt: the next one, unless time is or will be over. The
\* sleep may last longer than it was asked to.
Retry(elapsed) ==
  \/ /\ MayWait(elapsed, consumer.attempt)
     /\ \E late \in 0 .. 1 :
          consumer' = Attempt(consumer.attempt + 1, consumer.next,
                              elapsed + consumer.attempt + late)
  \/ /\ ~MayWait(elapsed, consumer.attempt)
     /\ Fatal

\* The listener: json.Unmarshal, the command, HandleUserDelete.
Succeeds(kind) == kind # "malformed" /\ UNCHANGED errors
Fails(kind)    == \/ kind = "malformed" /\ UNCHANGED errors
                  \/ kind = "delete" /\ Error

Listen(time) ==
  /\ consumer.pc = "listen"
  /\ consumer.elapsed < RetryTime
  /\ \/ /\ Succeeds(topic[consumer.next])
        /\ handled' = handled \cup {consumer.next}
        /\ consumer' = At("commit", consumer.next)
     \/ /\ Fails(topic[consumer.next])
        /\ Retry(consumer.elapsed + time)
        /\ UNCHANGED handled
  /\ UNCHANGED <<topic, committed, ctxDone>>

\* The loop of retry ends on its own condition.
OverTime ==
  /\ consumer.pc = "listen"
  /\ consumer.elapsed >= RetryTime
  /\ Fatal
  /\ UNCHANGED <<topic, committed, ctxDone, handled, errors>>

\* Mutant: the offset of the message after it is committed.
CommitAhead ==
  /\ consumer.pc = "commit"
  /\ committed' = consumer.next + 1
  /\ consumer' = At("loop", consumer.next + 1)
  /\ UNCHANGED <<topic, ctxDone, handled, errors>>

\* A commit that fails, or meets the cancelled context, is only logged.
CommitMessages ==
  /\ consumer.pc = "commit"
  /\ \/ committed' = consumer.next /\ UNCHANGED errors
     \/ committed' \in {committed, consumer.next} /\ Error
     \/ UNCHANGED <<committed, errors>> /\ ctxDone
  /\ consumer' = At("loop", consumer.next + 1)
  /\ UNCHANGED <<topic, ctxDone, handled>>

-----------------------------------------------------------------------------
\* SIGTERM cancels the context; any other end takes the process at once.
Cancel ==
  /\ consumer.pc \notin {"closed", "down"}
  /\ ~ctxDone
  /\ Error
  /\ ctxDone' = TRUE
  /\ UNCHANGED <<topic, committed, consumer, handled>>

Kill ==
  /\ consumer.pc # "down"
  /\ Error
  /\ consumer' = At("down", consumer.next)
  /\ UNCHANGED <<topic, committed, ctxDone, handled>>

\* The next process: NewConsumer reads on behind the commit.
NewConsumer ==
  /\ consumer.pc = "down" \/ (consumer.pc = "closed" /\ ctxDone)
  /\ consumer' = At("loop", committed + 1)
  /\ ctxDone' = FALSE
  /\ UNCHANGED <<topic, committed, handled, errors>>

-----------------------------------------------------------------------------
ConsumerInit == /\ topic = <<>>
                /\ committed = 0
                /\ consumer = At("loop", 1)
                /\ ctxDone = FALSE
                /\ handled = {}
                /\ errors = 0

Consume == \/ Poll \/ FetchMessage
           \/ \E time \in 0 .. CallTime : Listen(time)
           \/ OverTime \/ CommitMessages

ConsumerNext == \/ \E kind \in Kinds : Publish(kind)
                \/ Consume \/ Cancel \/ Kill \/ NewConsumer

(***************************************************************************)
(* The goroutine is scheduled, and whatever runs the service starts it     *)
(* again when it ends. Nothing makes users come and go.                    *)
(***************************************************************************)
ConsumerSpec == /\ ConsumerInit /\ [][ConsumerNext]_consumerVars
                /\ WF_consumerVars(Consume) /\ WF_consumerVars(NewConsumer)

-----------------------------------------------------------------------------
\* The values of the variables; nothing beyond the topic is read or committed.
ConsumerTypeOK ==
  /\ topic \in Seq(Kinds) /\ Len(topic) <= MaxMessages
  /\ committed \in 0 .. Len(topic)
  /\ consumer \in [pc : Pcs, next : 1 .. Len(topic) + 1,
                   attempt : Nat, elapsed : Nat]
  /\ ctxDone \in BOOLEAN
  /\ handled \subseteq 1 .. Len(topic)
  /\ errors \in 0 .. MaxFaults

(***************************************************************************)
(* No message is passed over: behind the commit there is nothing that was  *)
(* not handled, whatever failed, was shut down or was killed in between.   *)
(* A commit covers every message before it, and a failed one is ignored.   *)
(***************************************************************************)
NothingSkipped ==
  \A i \in 1 .. Len(topic) : i <= committed => i \in handled

(***************************************************************************)
(* retry gives up in time: it never sleeps past its timeout, whatever its  *)
(* attempts took, except for the tick by which a sleep may be late; so it  *)
(* ends within one call of the listener.                                   *)
(***************************************************************************)
GivesUpInTime == consumer.elapsed <= RetryTime

(***************************************************************************)
(* A user's deletion is handled in the end, through errors, shutdowns and  *)
(* restarts, unless a message stands before it that is not a command: that *)
(* one fails for ever, and nothing behind it is ever reached.              *)
(***************************************************************************)
Reachable(i) == /\ i <= Len(topic)
                /\ topic[i] = "delete"
                /\ \A k \in 1 .. i : topic[k] # "malformed"

AllHandled == \A i \in 1 .. MaxMessages : Reachable(i) ~> i \in handled

(***************************************************************************)
(* Every message is delivered at least once and in its order, and commits  *)
(* never go back, whatever is repeated or lost by the consumer's errors.   *)
(***************************************************************************)
Promise == INSTANCE Delivery WITH Commands <- Kinds

Delivers == Promise!DeliverySpec

-----------------------------------------------------------------------------
(***************************************************************************)
(* Why they hold: the message at hand is in the topic and not committed,   *)
(* it is committed only when it was handled, and everything before it was  *)
(* handled, by this process or by one before it.                           *)
(***************************************************************************)
AtHand ==
  /\ committed < consumer.next
  /\ consumer.pc \in {"listen", "commit"} => consumer.next <= Len(topic)
  /\ consumer.pc = "commit" => consumer.next \in handled

AllBehind == \A i \in 1 .. Len(topic) : i < consumer.next => i \in handled

\* The inductive invariant of the consumer; Sound is what it does not need
\* to have read every message for.
Sound       == ConsumerTypeOK /\ AtHand /\ GivesUpInTime
ConsumerInv == Sound /\ AllBehind
=============================================================================
