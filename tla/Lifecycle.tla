----------------------------- MODULE Lifecycle ------------------------------
(***************************************************************************)
(* A process of the service from its start to its end: main.go and         *)
(* lib/lib.go open the database, the consumer and the HTTP server one      *)
(* after the other; each of them ends on a goroutine of its own when the   *)
(* context is cancelled, and main waits for them through the wait group of *)
(* lib/contextwg. The consumer is that of UserConsumer. Any log.Fatal ends *)
(* the process at once. The cleanup loop is no part of the wait group: it  *)
(* goes with the process.                                                  *)
(***************************************************************************)
EXTENDS UserConsumer, FiniteSets

CONSTANTS
  Calls,             \* bound: HTTP requests in flight at a time
  ConnectivityTest   \* the process calls its own server once in a while

ASSUME LifecycleAssumption == ConnectivityTest \in BOOLEAN

VARIABLES
  main,    \* how far main, and Start called by it, have come
  wg,      \* the counter of the wait group
  mongo,   \* the database client
  reader,  \* the reader of the consumer, and its goroutine
  server,  \* the HTTP server
  open     \* the requests that were accepted and not answered yet

partVars == <<mongo, reader, server, open>>
lifeVars == <<consumerVars, main, wg, partVars>>

(***************************************************************************)
(* main goes through the calls of Start; "exited" is the return of main,   *)
(* "fatal" the end by log.Fatal or a signal that nothing handles.          *)
(***************************************************************************)
Stages == {"database", "controller", "consumer", "api", "running", "waiting",
           "exited", "fatal"}

\* A fatal error of the consumer ends the process like any other.
Up == main \notin {"exited", "fatal"} /\ ~(reader = "open" /\ consumer.pc = "down")

Goto(stage) == main' = stage

\* contextwg.Add and contextwg.Done.
Add  == wg' = wg + 1
Done == wg' = wg - 1

-----------------------------------------------------------------------------
(* StartGetInternals, each call with its error, which main ends on. *)

ConnectDatabase ==
  /\ main = "database"
  /\ \/ /\ mongo' = "open" /\ Add /\ Goto("controller")
        /\ UNCHANGED errors
     \/ /\ Error /\ Goto("fatal")
        /\ UNCHANGED <<mongo, wg>>
  /\ UNCHANGED <<topic, committed, consumer, ctxDone, handled,
                 reader, server, open>>

\* SetTopic of permissions-v2, the migrations, and the cleanup loop.
NewController ==
  /\ main = "controller"
  /\ \/ Goto("consumer") /\ UNCHANGED errors
     \/ Error /\ Goto("fatal")
  /\ UNCHANGED <<topic, committed, consumer, ctxDone, handled, wg, partVars>>

StartConsumer ==
  /\ main = "consumer"
  /\ consumer' = At("loop", committed + 1)
  /\ reader' = "open"
  /\ Add
  /\ Goto("api")
  /\ UNCHANGED <<topic, committed, ctxDone, handled, errors,
                 mongo, server, open>>

StartApi ==
  /\ Up
  /\ main = "api"
  /\ server' = "open"
  /\ Add
  /\ Goto("running")
  /\ UNCHANGED <<consumerVars, mongo, reader, open>>

-----------------------------------------------------------------------------
(* Service. *)

Accept(c) ==
  /\ Up
  /\ server = "open"
  /\ c \notin open
  /\ open' = open \cup {c}
  /\ UNCHANGED <<consumerVars, main, wg, mongo, reader, server>>

\* With a result, or with the error of a database that is closed.
Answer(c) ==
  /\ Up
  /\ c \in open
  /\ open' = open \ {c}
  /\ UNCHANGED <<consumerVars, main, wg, mongo, reader, server>>

\* ListenAndServe fails, on a port in use for instance.
ListenFails ==
  /\ Up
  /\ server = "open"
  /\ Error
  /\ Goto("fatal")
  /\ UNCHANGED <<topic, committed, consumer, ctxDone, handled, wg, partVars>>

\* HealthEndpoints: the call of the own server finds no listener.
SelfTest ==
  /\ Up
  /\ ConnectivityTest
  /\ server \in {"draining", "closed"}
  /\ Goto("fatal")
  /\ UNCHANGED <<consumerVars, wg, partVars>>

ConsumerWork ==
  /\ Up
  /\ reader = "open"
  /\ Consume
  /\ UNCHANGED <<main, wg, partVars>>

UserCommand(kind) == Publish(kind) /\ UNCHANGED <<main, wg, partVars>>

-----------------------------------------------------------------------------
(* The end. *)

\* The handler of the signal is set up when Start has returned; before that,
\* and at any time for SIGKILL, the process just ends.
Signal ==
  /\ Up
  /\ Error
  /\ \/ main = "running" /\ ctxDone' = TRUE /\ UNCHANGED main
     \/ Goto("fatal") /\ UNCHANGED ctxDone
  /\ UNCHANGED <<topic, committed, consumer, handled, wg, partVars>>

AwaitContext ==
  /\ Up
  /\ main = "running"
  /\ ctxDone
  /\ Goto("waiting")
  /\ UNCHANGED <<consumerVars, wg, partVars>>

Disconnect ==
  /\ Up
  /\ ctxDone
  /\ mongo = "open"
  /\ mongo' = "closed"
  /\ Done
  /\ UNCHANGED <<consumerVars, main, reader, server, open>>

\* Mutant: a deferred Done is missing.
CloseReaderOnly ==
  /\ Up
  /\ reader = "open"
  /\ consumer.pc = "closed"
  /\ reader' = "closed"
  /\ UNCHANGED <<consumerVars, main, wg, mongo, server, open>>

CloseReader ==
  /\ Up
  /\ reader = "open"
  /\ consumer.pc = "closed"
  /\ reader' = "closed"
  /\ Done
  /\ UNCHANGED <<consumerVars, main, mongo, server, open>>

Shutdown ==
  /\ Up
  /\ ctxDone
  /\ server = "open"
  /\ server' = "draining"
  /\ UNCHANGED <<consumerVars, main, wg, mongo, reader, open>>

\* Mutant: the server is closed with requests in flight.
CloseNow ==
  /\ Up
  /\ server = "draining"
  /\ server' = "closed"
  /\ Done
  /\ UNCHANGED <<consumerVars, main, mongo, reader, open>>

\* Shutdown returns when the last request in flight is answered.
Drained ==
  /\ Up
  /\ server = "draining"
  /\ open = {}
  /\ server' = "closed"
  /\ Done
  /\ UNCHANGED <<consumerVars, main, mongo, reader, open>>

\* wg.Wait returns, and main with it.
Exit ==
  /\ Up
  /\ main = "waiting"
  /\ wg = 0
  /\ Goto("exited")
  /\ UNCHANGED <<consumerVars, wg, partVars>>

\* The next process.
Restart ==
  /\ ~Up
  /\ main' = "database"
  /\ wg' = 0
  /\ mongo' = "off" /\ reader' = "off" /\ server' = "off" /\ open' = {}
  /\ consumer' = At("closed", committed + 1)
  /\ ctxDone' = FALSE
  /\ UNCHANGED <<topic, committed, handled, errors>>

-----------------------------------------------------------------------------
LifecycleInit ==
  /\ ConsumerInit
  /\ main = "database" /\ wg = 0
  /\ mongo = "off" /\ reader = "off" /\ server = "off" /\ open = {}

Start == ConnectDatabase \/ NewController \/ StartConsumer \/ StartApi

LifecycleNext ==
  \/ Start \/ ConsumerWork
  \/ \E c \in Calls : Accept(c) \/ Answer(c)
  \/ \E kind \in Kinds : UserCommand(kind)
  \/ ListenFails \/ SelfTest \/ Signal
  \/ AwaitContext \/ Disconnect \/ CloseReader \/ Shutdown \/ Drained \/ Exit
  \/ Restart

\* An attempt of the consumer: the listener calls both stores.
InListener == consumer.pc = "listen" /\ consumer.elapsed < RetryTime

(***************************************************************************)
(* Every goroutine is scheduled, and the process is started again when it  *)
(* ends. That is all: the calls to permissions-v2 have no timeout, so      *)
(* neither a request nor the listener of the consumer need ever return.    *)
(***************************************************************************)
LifecycleSpec ==
  /\ LifecycleInit /\ [][LifecycleNext]_lifeVars
  /\ WF_lifeVars(Start) /\ WF_lifeVars(~InListener /\ ConsumerWork)
  /\ WF_lifeVars(AwaitContext) /\ WF_lifeVars(Disconnect)
  /\ WF_lifeVars(CloseReader) /\ WF_lifeVars(Shutdown) /\ WF_lifeVars(Drained)
  /\ WF_lifeVars(Exit) /\ WF_lifeVars(Restart)

-----------------------------------------------------------------------------
\* The values of the variables; the wait group never goes below zero.
LifecycleTypeOK ==
  /\ ConsumerTypeOK
  /\ main \in Stages
  /\ wg \in Nat
  /\ mongo \in {"off", "open", "closed"}
  /\ reader \in {"off", "open", "closed"}
  /\ server \in {"off", "open", "draining", "closed"}
  /\ open \subseteq Calls

AllClosed == mongo = "closed" /\ reader = "closed" /\ server = "closed"

(***************************************************************************)
(* When main returns, every part is closed and every request that was      *)
(* accepted has its answer: the wait group misses nothing.                 *)
(***************************************************************************)
CleanExit == main = "exited" => AllClosed /\ open = {}

(***************************************************************************)
(* A signal ends the process, whatever the consumer is retrying and        *)
(* whatever is in flight, if the calls to the stores return: Shutdown of   *)
(* the HTTP server has no timeout either, it waits for every request.      *)
(***************************************************************************)
CallsReturn == /\ \A c \in Calls : WF_lifeVars(Answer(c))
               /\ WF_lifeVars(InListener /\ ConsumerWork)

ShutsDown == CallsReturn => (ctxDone ~> ~Up)

(***************************************************************************)
(* lib.go: "on basectx.Done() all connections will be closed", and the     *)
(* wait group "is informed about successfull close/disconnect". So a       *)
(* shutdown never ends otherwise than with everything closed. The one      *)
(* exception granted is the consumer's own fatal error.                    *)
(***************************************************************************)
ShutdownCloses == ctxDone /\ main \in {"exited", "fatal"} => AllClosed
-----------------------------------------------------------------------------
(***************************************************************************)
(* Why main returns with nothing open: the wait group counts the parts     *)
(* that are open, main has been through Start before it waits, and no      *)
(* request is in flight without the server.                                *)
(***************************************************************************)
One(condition) == IF condition THEN 1 ELSE 0

Counted == wg = One(mongo = "open") + One(reader = "open")
                + One(server \in {"open", "draining"})

\* What Start has opened by now, and what is still to come.
Started ==
  /\ main = "database" => mongo = "off"
  /\ main \in {"controller", "consumer", "api", "running", "waiting", "exited"}
       => mongo # "off"
  /\ main \in {"database", "controller", "consumer"} => reader = "off"
  /\ main \in {"api", "running", "waiting", "exited"} => reader # "off"
  /\ main \in {"database", "controller", "consumer", "api"} => server = "off"
  /\ main \in {"running", "waiting", "exited"} => server # "off"

\* The inductive invariant of the lifecycle.
LifecycleInv ==
  /\ LifecycleTypeOK /\ ConsumerInv
  /\ Counted
  /\ Started
  /\ open # {} => server \in {"open", "draining"}
  /\ main = "exited" => wg = 0
=============================================================================
