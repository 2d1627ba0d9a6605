# TLA+ models of the process-model-repository

The process-model-repository is a small service that keeps BPMN process models. This directory holds
TLA+ modules that model what it does to its two stores, the configurations that check them with TLC on
small instances, and proofs, checked with TLAPS, of the properties that matter most. All of it is
translated from the Go source (`main.go`, `lib/`); paths below are relative to the repository.

## 1. Inventory

### Components

| component | source | state | operations |
|---|---|---|---|
| document store | `lib/database/mongo` | MongoDB collection of processes: id, owner, content, publish flag, `last_updated_unix` | `ReadProcess`, `SetProcess` (upsert), `DeleteProcess`, `CheckIdList` (two queries), `ListProcesses`, `ReadAllPublicProcesses` |
| permission access | calls of `permissions-v2` in `lib/controller` | external: one resource per process, the rights of each user on it | `GetResource`, `SetPermission` (replaces), `RemoveResource`, `CheckPermission`, `ListAccessibleResourceIds`, `AdminListResourceIds` |
| write requests | `lib/api/process.go`, `lib/controller/process.go` | local variables of each handler | create, update, publish, delete |
| read requests | the same | local variables of each handler | read one, list (by ids, or page by page with search and sort), list public |
| cleanup loop | `lib/controller/cleanup.go` | what the scan found | compare the stores, remove what one of them has alone |
| user deletion | `lib/controller/users.go` | the delete and the revoke list | `HandleUserDelete` |
| user consumer | `lib/source/consumer` | the message at hand; Kafka keeps the committed offset | fetch, retry, commit |
| start and shutdown | `main.go`, `lib/lib.go`, `lib/contextwg`, parts of `api.go`, `health.go`, `mongo.go` | context, wait group | start in order, stop on a signal |
| topic | `lib/source/util` | external: the messages Kafka keeps | created at the start: one partition, compacted |
| validation and names | `lib/model/process.go`, `lib/controller/process.go` | none | `Validate`, `GetProcessModelName` |
| tokens, CORS, configuration | `lib/auth`, `lib/api/util`, `lib/config` | none | pure functions of one request or of the start |

### Interaction

Every HTTP request is a goroutine; the cleanup loop and the Kafka consumer are one goroutine each. They
share no memory and hold no lock: they meet only in MongoDB and in permissions-v2, and there is no
transaction over the two (`Mongo.Transaction` is never called). A process is complete when it has a
document and a resource. The order of the calls is all that keeps the stores together:

* create, update and publish write the document, look for a resource, and write one if there is none;
* delete removes the resource, then the document;
* the cleanup lists the resources, then the documents, and removes a resource without a document, and a
  document without a resource unless its stamp is less than a minute old (`CleanupLastUpdateTimeBuffer`);
* a list asks permissions-v2 for the ids a user may read, then MongoDB for a page of their documents, then
  for their number: three calls, and one such request per page;
* the user deletion lists the processes a user has a right on, in pages and right by right, deletes
  those nobody else administrates and writes the permissions of the others back without the user.

### What is hard

Half-done writes (a failing call, a rollback that fails or undoes too much, a crash); the cleanup taking
a process that is just being created; scan results and permissions used long after they were read; a
delete racing an update; an update lost to a publish; paging through lists that change; repeated and
redelivered messages; a poison message; a topic that loses messages to compaction; the end of the process
with requests in flight. `PROJECT.json` lists each at its line under `hazards`, with the
properties that would catch it, or the reason why none does yet.

### What makes each component correct

* requests and cleanup: what was confirmed stays (`Durability`), a complete process is never broken up
  (`KeepsIntact`), rights do not stand without a document (`ResourceHasDoc`), owners do not change
  (`OwnerStable`), rights are not overwritten (`RightsKept`), all of this unless the process is released
  (see below), and leftovers go away (`Convergence`);
* what documents say: a confirmed update stays until the next one (`UpdateStands`), a process that was
  taken over keeps its owner (`OwnerStands`), what is stored is valid (`StoredValid`);
* read requests: nobody sees more than they may (`OnlyPermitted`), a total belongs to its page
  (`TotalExact`), a walk through the pages has no gaps and no repeats (`NoGaps`, `NoRepeats`);
* user deletion: nothing is left of the user (`UserGone`), no process is left without an administrator
  (`NoneOrphaned`), nobody else loses anything (`OthersKeep`), it ends (`Completes`); with requests and
  shares in between, what remains of the first and the third (`UserGoneMeanwhile`, `OthersKeptMeanwhile`);
* consumer: each message at least once and in order (`Delivers`), no message is passed over
  (`NothingSkipped`), it gives up in time (`GivesUpInTime`), every deletion is handled unless a malformed
  message blocks it (`AllHandled`); on a compacted topic the same for the last word about each user, as
  soon as no malformed message is left before it (`LastWordKept`, `LastWordHandled`);
* lifecycle: a normal end leaves nothing open (`CleanExit`), and a signal ends the process if the calls to
  the stores return (`ShutsDown`).

## 2. Modules

| module | models | extends |
|---|---|---|
| `Stores` | the documents, the permission resources, the clock, one operator per remote call | |
| `ProcessApi` | the four write requests, one action per remote call | `Stores` |
| `ProcessApi_proofs` | lemmas about the types and labels of requests | `ProcessApi` |
| `Cleanup` | the cleanup loop, one action per remote call | `Stores` |
| `ProcessRegistry` | abstract: what the service promises about a process | |
| `ProcessRepository` | requests, cleanup, sharing by users, crashes and time together; the properties and the inductive invariant | `ProcessApi`, `Cleanup` |
| `ProcessRepository_proofs` | its theorems | `ProcessRepository`, `ProcessApi_proofs` |
| `ProcessContent` | the same requests with the bodies they carry: validation, names, publish flag | `ProcessApi` |
| `ProcessContent_proofs` | its theorems | `ProcessContent`, `ProcessApi_proofs` |
| `ReadRequests` | the three read requests, and a client that walks through the pages of a list | |
| `ReadRequests_proofs` | its theorems | `ReadRequests` |
| `UserDeletion` | `HandleUserDelete`, repeated until it succeeds | `Stores` |
| `UserDeletion_proofs` | its theorems | `UserDeletion` |
| `UserDeletionCleanup` | the user deletion beside the cleanup loop | `UserDeletion`, `Cleanup` |
| `UserDeletionRequests` | the user deletion beside write requests and shares | `UserDeletion`, `ProcessApi` |
| `UserDeletionBeside_proofs` | the theorems of the last two | `UserDeletionCleanup`, `UserDeletionRequests`, `UserDeletion_proofs`, `ProcessApi_proofs` |
| `Delivery` | abstract: what a consumer promises about messages | |
| `UserConsumer` | fetch, retry, commit, restart | |
| `UserConsumer_proofs` | its theorems | `UserConsumer` |
| `CompactedTopic` | the consumer on a topic with keys that is compacted | `UserConsumer` |
| `Lifecycle` | start, service and end of a process, with the consumer in it | `UserConsumer` |
| `UserConsumerUses_proofs` | the theorems of the last two | `CompactedTopic`, `Lifecycle`, `UserConsumer_proofs` |

The modules whose names begin with `MC` only hold the values TLC needs. The operators called "Mutant" in
the modules are wrong versions of the definition they stand beside, for mutation runs; nothing uses them.

### How state and actions correspond to the code

*One action is one remote call of a goroutine and the local code up to its next call.* `req[r]` holds
the local variables of a handler that later calls read (user, id, owner and stamp of the document to
write) and the name of its next call. A call answers (`Answers`) or fails (`Fails`); a failed write may
or may not have taken effect. Requests that are refused before their first call (bad JSON, bad
token, a body that cannot be named, a create that is not valid) change nothing and are left out. An admin
skips the permission check, as in `checkBool`.

In `Stores` a document is its owner and its stamp. A legacy document has no owner and no stamp, which
`CheckIdList` treats as old. What is written always has a stamp: both `SetProcess` put one in where there
is none (`Dated`). `ProcessContent` adds what the document says: `content[id]` is written
together with `docs[id]`, and `held[r]` is the body a request carries, which a publish replaces by what it
has read. Of an XML the model keeps what the code looks at: whether it parses, and the ids of the first
collaboration and the first process. An update is validated only after it has read; `Rejected` is that
early return. `overlapped`, `version` and `owner` are history variables: who was not alone with an id, and
what was last confirmed for an id by a request that was alone with it.

`ReadRequests` has one request, `call`, and everybody else as `Change` and `Share`. A document there is the
place it takes in the sort order, and documents of one key may come in either order. `NoFilter` is the nil
slice of `ListProcesses` and of the query of MongoDB, `{}` the empty one; the code tells them apart and so
does the model, which takes the list permissions-v2 answers with to be non-nil. `walk` is the client that
asks for the next page until one is not full (it begins at offset 0: whoever asks for a later page first is
no walk); `grown` and `shrunk` record what changed for it meanwhile. `call.quiet` is true from the query
for the page to the query for the number, as long as no document changes in between.

`released` and `acked` are history variables: `acked` are the ids a write was confirmed for, `released`
those the service owes nothing for: a deletion of the id was started, its creation was answered with
an error, or an update found one half of it missing and put it back. The safety properties except these
ids. The last case is deliberate. An
update may write a document whose resource is gone; until it has stored the rights anew the process is
incomplete, the cleanup may take the document (its scan may be older than the write), and a second
update may store other rights. The code makes no promise there, and TLC shows that none would hold.

`UserDeletion` keeps the lists of `HandleUserDelete` as sequences of ids and of snapshots (`toDelete`,
`toRevoke`), `pass` and `offset` for the page to come, `page` for what is left of the page at hand.
Resources are numbered, and permissions-v2 lists them in this order. The first pass appends what it is
handed (`users.go:63-69`), only the later ones look whether there is a snapshot already. An id that comes
twice in the first pass, because the page shifted under it, is therefore listed twice, and deleted or
written back twice; `user_deletion_requests` reaches that.

`UserDeletionRequests` puts the requests of `ProcessApi` and the shares of other users between those calls.
Its history variables say what may go wrong with a handler that is not alone: `late` are the ids the user
gained a right on since the attempt began, `shrunk` that the user lost one while it was listing, `stale`
the ids on a list whose rights have changed since they were read.

`UserConsumer` keeps the topic as a sequence that only grows, the group's offset, and the message, the
attempt and the time of `retry`. `CompactedTopic` adds the key of each message and the offsets that are
empty. `Lifecycle` adds the wait group, the three parts in it, the requests in flight and how far main has
come.

## 3. Runs

A run needs between a second and two minutes.

| run | shows |
|---|---|
| `new_process` | two requests at a time on an id that starts out unused, cleanup, sharing, one fault: the safety properties and the refinement of `ProcessRegistry` |
| `two_processes` | a new and a legacy id in one cleanup run: the whole inductive invariant, and that both end up complete or gone |
| `convergence` | two requests at a time: the stores agree in the end, whatever failed |
| `content` | two requests with bodies of every kind, on an unused id or a legacy document: what a document says; its inductive invariant |
| `read_requests` | every kind of read request and a walk through pages, with three changes in between; its inductive invariant |
| `user_deletion` | three processes shared in seven ways each, pages of two, two faults; its inductive invariant |
| `user_deletion_cleanup` | the two goroutines that delete, against each other |
| `user_deletion_requests` | two requests or shares between any calls of the handler; its inductive invariant |
| `user_consumer` | every topic of three messages, three faults; its inductive invariant, and the refinement of `Delivery` |
| `compacted_topic` | three messages about two users, compacted at any time |
| `lifecycle` | starts, shutdowns and restarts with two requests in flight; its inductive invariant |
| `shutdown` | expected to fail, see Findings |

### Bounds, and why they are enough

* *Two requests* at a time: every race here is between two writers, or a writer and the cleanup. The
  proofs hold for any number. Requests go back to idle, so a behaviour has many of them; no request
  arrives after `LastArrival`.
* *Two users*, one of them an admin: the one passes `CheckPermission`, the other skips it; either may be
  the owner, and sharing goes from one to the other.
* *One or two ids*: requests on different ids meet only in the lists of the cleanup, which
  `two_processes` covers.
* *The clock* has 2 to 4 ticks: `RequestTime`, `ScanTime` and `Buffer` are 0 to 2 and always satisfy
  `RequestTime + ScanTime <= Buffer` with equality in the safety runs: the tightest case. `Drained`
  stops the clock after the last arrival until requests are through, to bound the state space.
* *One fault* (two or three in the smaller models): enough for a failure, a rollback that does nothing
  (the fault) and a retry.
* *A legacy document with two requests* is in `content`; together with the cleanup it is in the proofs, which
  take any set of legacy ids.
* *Four bodies* (`MCBodies`): valid with a name, valid and named after a collaboration with an empty id, without
  a process id, and no XML; and the two flags of a publish. A legacy document is invalid: a publish may store
  it again, and `StoredValid` excepts it.
* *Pages of two over three ids* (one over two, one over three with requests): there is a full page, a last
  full page and a short one.
* *Three processes, three keys, limits 0, 1 and 2, `MaxChanges` 3* in `read_requests`: a walk of pages of one
  takes four requests, with room for a change before each of the later ones, and for ties between any two
  documents. With ids the offset is 1, to see it dropped; without it is 0 or 2, the latter beyond a short list.
* *`MaxOthers` 2* in `user_deletion_requests`: a share and a share back, a request and a share, or two
  requests, around any call of the handler; three processes, of which one is yet to be created: created
  between two pages of one, it makes the next page show an id again.
* *RetryTime 2 to 4*: waits of 1, 2, 3 ticks, attempts of 0 or 1 and sleeps up to a tick late meet the
  timeout on either side.
* *Three messages, two users* in `compacted_topic`: a malformed message that a later one supersedes, and a
  deletion between the two or behind both.

Symmetry over requests, or over ids in `read_requests`, is used in runs without liveness only.
`user_deletion`, `user_deletion_requests`, `user_consumer` and `compacted_topic` may stop: a handled message
ends the first two, and the others wait for messages beyond the bound. All other runs check deadlock.

### Assumptions on time

`RequestTime + ScanTime <= Buffer`: a create that has taken its stamp stores its rights (and the scan
that began after that reads its cutoff) before the document counts as old. The code has no mechanism
for it: the MongoDB calls of a create share a `TIMEOUT` of 10 s, the calls of permissions-v2 have
none, the buffer is a minute. `CreatesInTime` and `ScansInTime` make the clock wait accordingly.
Without the assumption the cleanup can remove the document of a create that is about to be confirmed.

### Fairness

`FairSpec`: weak fairness of the calls of each request in flight, of the cleanup, and of time: a
goroutine is scheduled, its calls return, the ticker never stops. Faults are bounded, so calls succeed
in the end. No user has to act. `UserDeletionSpec`: the consumer calls the handler again until it
succeeds. `UserConsumer`, `CompactedTopic` and `Lifecycle` add that whatever runs the service starts it
again. Restarts and ticks are outside the code: the code relies on them in that `log.Fatal` is its way to
retry.

That calls return is an assumption of its own. The calls to MongoDB have timeouts, those to permissions-v2
have none (the client is made without one), and `api.go:60` shuts the server down with
`context.Background()`, so it waits for a request as long as that takes. `Convergence`, `Completes`,
`Settles`, `AllHandled` and `LastWordHandled` say what happens when every call returns, with a result or an
error: their specifications are fair to the handlers as a whole. `LifecycleSpec` is not; it is fair to what
a goroutine does between its calls, and `ShutsDown` names the rest as its hypothesis, `CallsReturn`: requests
are answered, and the listener of the consumer returns. Without it a single call that hangs keeps the process
from ending.

No fairness is assumed of Kafka's log cleaner. The active segment of a partition is never compacted, and
it rolls on writes only, so a superseded message may stay. `LastWordHandled` therefore speaks of deletions
that no malformed message precedes, or whose malformed predecessors compaction has in fact removed.

## 4. Proofs

`ProcessRepository_proofs` proves, for any sets of ids, users, requests and any bounds that satisfy the
named assumptions: `TypeCorrect`, `Invariance`, `DurabilityHolds`, `ResourceHasDocHolds`,
`KeepsIntactHolds`, `OwnerStableHolds`, `RightsKeptHolds` and `Implements` (the service refines
`ProcessRegistry`).

None of the properties is inductive. `Durability` may be broken by a cleanup that holds an id it
believes an orphan; so `ScanSound` says what the cleanup holds: an id that is not released is never to
be removed from permissions-v2, and one whose document is to be removed has no resource and no create
in flight. That a complete process never gets there is `UnlistedYoung`: if the list of resources lacks
it but it has its resource by now, then its stamp, and that of every write in flight, is too recent for
the cutoff. This follows when the resource is stored, from `CreateExclusive`: a create is alone with its
id until its document is stored, in time, and nobody writes an older stamp after it. `Labels` says that
whatever may erase something has released it, `OwnersAgree` that all writes of a document in flight
agree on its owner. `IndInv` is the conjunction; `two_processes` checks it. There is one lemma per
conjunct, with a step per action that can disturb it. The action properties and the refinement follow
from `IndInv` before and after a step.

`UserConsumer_proofs` proves `NothingSkipped` and `GivesUpInTime` from `ConsumerInv`: everything before
the message at hand was handled, by this process or by one before it, and the commit is behind it. The
same invariant shows that a step of the consumer is a step of `Delivery` or leaves its variables alone
(`ConsumerDelivers`). `Sound` is the part of it that does not depend on where reading began; the other
two modules with a consumer build on it.

`UserConsumerUses_proofs` proves `LastWordKept` from `TopicInv`: with compaction not everything before the
message at hand was handled, but what was not has been superseded, and superseded it stays.

It also proves `CleanExit` and, for a consumer that is started and stopped in all these ways,
`NothingSkipped`. `CleanExit` alone says nothing about a process that is still waiting; `LifecycleInv` adds
that the wait group counts the parts that are open (`Counted`), that main has opened all of them before it
waits (`Started`), and that no request is in flight without the server. So at zero everything is closed.

`UserDeletion_proofs` proves `UserGone`, `NoneOrphaned`, `CleanSweep` and `OthersKeep`, for any number of
processes, users, pages and faults, from `DeletionInv`. `UserGone` needs to know that the paging misses
nothing: `Turned` says that all ids up to the offset are on a list or on the page at hand. A page that is
not full reaches the end of the list; that is the counting argument of `Positions` and `ShortPage` (an id's
place in the list is at most the number of ids). After the last pass `AllListed` says that whatever the
user still has a right on is on a list. `Faithful` says that the lists are true to the stores: a snapshot is
what the resource is, or what the handler has made of it with an equal one before; two snapshots of an id
are equal; an id to be deleted has no other administrator. `OthersKeep` follows from it. The ids in
its parameter are excepted: those whose rights somebody else has changed. `Administrated` and `NoneLeft` carry
`NoneOrphaned` and `CleanSweep`. The theorems assume what the start of the model says: every process is
complete and has some administrator.

`UserDeletionBeside_proofs` takes the handler out of its isolation, with the same lemmas.

* Beside the cleanup it proves `OthersKeptBoth` from `BothInv`. `Theirs` are the ids somebody else
  administrates; each of them has its document, and neither loop holds one to remove: while the cleanup has
  only listed resources they are in its list, and after it has compared the stores they are in neither of its
  two results. `Theirs` never grows (the handler writes back only a snapshot with another administrator of an
  id that is in it already, and the cleanup writes nothing), so a scan is not outdated by the other goroutine.
* With requests and shares in between it proves `UserGoneMeanwhile` and `OthersKeptMeanwhile` from
  `MeanwhileInv`: what is left of `DeletionInv`. The lists stay true to the stores but for the ids in
  `stale`, `Faithful(stale)`, because whoever else changes the rights on a listed id makes it stale. They stay
  complete but for the ids in `late`, `Turned(late)` and `AllListed(late)`, as long as the user has lost no
  right while the handler was listing: losing one shifts the later ids forward, behind the offset. Gaining one
  shifts them back, so that an id comes, and is listed, twice; that is why `Turned` speaks of positions and not
  of pages. Working an id twice does no more than working it once if nobody changed its rights in between: the
  second removal finds nothing, and the second snapshot writes back what the first did.

`ProcessContent_proofs` proves `StoredValid`, `UpdateStands` and `OwnerStands`. The heart of `ContentInv` is
`WritesKeep`: a request about to write holds something that may be stored, and would not change what was
confirmed. It read after the confirmation: whoever confirms was alone with the id since it arrived
(`AloneInPlace`), and found in place what it wrote. `NamesGiven` and `Reading` carry what a request knows
from its arrival to its write.

`ReadRequests_proofs` proves `OnlyPermitted`, `TotalExact`, `NoGaps` and `NoRepeats` from `ReadInv`, for
any processes, keys, options and number of changes. `ReadInv` is inductive without them. The first needs
`Asked` (what MongoDB is asked for is what was asked for and allowed), the second `Fitting` (as long as no
document has changed since the page was queried, the page has the length its offset and limit leave of the
count). The walk is the hard one, as it is about lists that exist at different times. It is proved by
counting. `Place(id)` is the number of processes that sort up to `id` in the list the next page is cut
from. `Ahead` says that what the client has yet to see has a place beyond what it has read, `Behind` that
what it has read has a place within that. A change that adds nothing lowers places, and one that takes
nothing away raises them, so each half survives the changes its property permits. `FoundPlaces` says that a
page holds exactly the ids whose places are in its window, if no two sort alike, and a page that is not
full has reached the last place (`WalkEnds`). `UnderWay` ties the offset to the number read. Between the
list of permissions-v2 and the query of MongoDB the rights may change; there the two halves compare the ids
that were allowed with the rights as they are now.

Only model-checked: liveness (`Convergence`, `Completes`, `Settles`, `AllHandled`, `LastWordHandled`,
`ShutsDown`), which is out of reach of the provers used here. Every safety invariant and every action property
of the runs that are expected to pass is a theorem, and so are the two refinements.

## 5. Findings

`shutdown`: `lib/lib.go:38` says that all connections are closed when the context ends, and the wait
group informed. `HealthEndpoints` goes on calling the own server every minute
(`lib/api/health.go:26-53`), though, and `log.Fatal`s when there is no listener; `Shutdown` closes the
listener first and then waits for the requests in flight. If a tick falls into that time the process
ends with requests cut off, and the wait group is not informed.

Not a finding, as nothing is promised, but good to know:

* An update by an admin may write its document while `HandleUserDelete` removes the process. If the same
  process is also on the revoke list, its resource comes back without the deleted user and the update goes
  through: a process that is complete and has no administrator.
* A deletion that is not yet handled may be compacted away if a later message has its key. What the model
  calls malformed includes the tombstones a compacted topic may carry.
* A legacy process that two users update at the same time may go to either of them, whichever writes last.

## 6. Not modelled, and why

* Tokens, CORS, logging, configuration: pure functions of one request or of the start, no state. Nothing in a
  token but the user and whether they are an admin is used. Requests that cannot be parsed are refused at
  once.
* The calls to Kafka that create the topic: their error is logged and ignored, and the reader waits until
  there is a topic. The topic itself is in `CompactedTopic`.
* A client that repeats a create after the server's `WriteTimeout`: it gets a process of a new id, which is one
  more create.
* Several instances of the service at once: requests would be as here; two cleanup loops or two
  consumers in a group would be new actors.
* permissions-v2 and MongoDB themselves: each call takes effect at one instant; `AdminListResourceIds`
  without a limit is taken to list everything, and removing a resource that is not there to succeed.
* A `process_topic` other than "processmodel": `HandleUserDelete` lists the latter, whatever is configured,
  and writes to the former. The models have one topic, as the configuration in the repository has.
* The cleanup loop of `Lifecycle`: it is not in the wait group, and a process may end anywhere in it.
  `Crash` in `ProcessRepository` is that end.

## 7. Plan

Done: the core (`Stores`, `ProcessApi`, `Cleanup`, `ProcessRegistry`, `ProcessRepository`); the content of
documents; the read requests; the user deletion alone, with requests and with the cleanup; the consumer and
its abstract specification, on a compacted topic too; the lifecycle; and proofs of all safety properties
of these.

Next, in this order:

1. An abstract specification of the user deletion, as `ProcessRegistry` is one of the requests.
2. `UserGone` beside the cleanup, and the cleanup, the requests and the user deletion in one module.
