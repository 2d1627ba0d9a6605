------------------------------- MODULE Stores -------------------------------
(***************************************************************************)
(* The two stores the process-model-repository keeps in step without a     *)
(* common transaction:                                                     *)
(*   docs   the MongoDB collection of process documents (lib/database),    *)
(*   perms  the resources of the processmodel topic in the permissions-v2  *)
(*          service (external; modelled from the calls lib/controller      *)
(*          makes).                                                        *)
(* One operator per remote operation, each taking effect at one instant.   *)
(* A document keeps the two fields the properties tell apart: its owner    *)
(* and its last_updated_unix stamp.                                        *)
(***************************************************************************)
EXTENDS Naturals

CONSTANTS
  Ids,         \* process ids
  Users,       \* users that send requests
  Admins,      \* the users whose token has the admin role
  Legacy,      \* ids stored before documents had an owner and a stamp
  NoOwner,     \* the empty owner of a legacy document
  NoDoc,       \* no document under this id
  NoResource,  \* no permission resource under this id
  Buffer,      \* CleanupLastUpdateTimeBuffer, in clock ticks
  MaxFaults    \* bound: failed calls and crashes in one behaviour

Rights   == {"r", "w", "x", "a"}
NoStamp  == 0
Doc      == [owner : Users \cup {NoOwner}, updated : Nat]
Resource == [Users -> SUBSET Rights]

ASSUME StoresAssumption ==
  /\ Admins \subseteq Users
  /\ Legacy \subseteq Ids
  /\ NoOwner \notin Users
  /\ NoDoc \notin Doc
  /\ NoResource \notin Resource
  /\ Buffer \in Nat
  /\ MaxFaults \in Nat

VARIABLES
  docs,      \* docs[id]: the document stored under id, or NoDoc
  perms,     \* perms[id]: the rights of every user on id, or NoResource
  now,       \* the clock, in ticks; stamps are readings of it
  faults,    \* failed calls and crashes so far
  released,  \* history: ids the service owes nothing for (see Release)
  acked      \* history: ids a create, update or publish was confirmed for

storeVars == <<docs, perms, now, faults, released, acked>>

(***************************************************************************)
(* The service releases an id when it starts to delete it, when its        *)
(* creation is answered with an error, or when an update finds one of its  *)
(* halves missing and puts it back. For every other id it promises to keep *)
(* what it confirmed.                                                      *)
(***************************************************************************)
Release(id)  == released' = released \cup {id}
ReleaseIf(condition, id) ==
  released' = IF condition THEN released \cup {id} ELSE released
Confirm(id)  == acked' = acked \cup {id}

HasDoc(id)      == docs[id] # NoDoc
HasResource(id) == perms[id] # NoResource
Intact(id)      == HasDoc(id) /\ HasResource(id)

-----------------------------------------------------------------------------
(***************************************************************************)
(* Calls. A call answers, or it fails (timeout, connection error, 5xx);    *)
(* a failed write may or may not have taken effect.                        *)
(***************************************************************************)
Answers == UNCHANGED faults
Fails   == faults < MaxFaults /\ faults' = faults + 1

\* A document that still has no stamp gets one when it is written.
Dated(doc) == IF doc.updated = NoStamp THEN [doc EXCEPT !.updated = now] ELSE doc

(* MongoDB: ReplaceOne with upsert, DeleteMany. *)
DbSetProcess(id, doc) == docs' = [docs EXCEPT ![id] = Dated(doc)]
DbDeleteProcess(id)   == docs' = [docs EXCEPT ![id] = NoDoc]

(***************************************************************************)
(* MongoDB: CheckIdList, its two queries. The first finds the listed ids   *)
(* without a document; the second, with the clock reading t taken between  *)
(* them, the documents that are not listed and have no stamp or one older  *)
(* than the buffer.                                                        *)
(***************************************************************************)
\* Mutants: the comparison is skipped; an unstamped document is overlooked.
NothingMissing(ids)  == {}
LegacyMissing(ids)   == {id \in ids : ~HasDoc(id) \/ docs[id].updated = NoStamp}

MissingInDb(ids) == {id \in ids : ~HasDoc(id)}

\* Mutants: no buffer; the buffer added to the cutoff; unstamped is young.
NoBuffer(doc, t)     == doc.updated = NoStamp \/ doc.updated < t
BufferAdded(doc, t)  == doc.updated = NoStamp \/ doc.updated < t + Buffer
LegacySpared(doc, t) == doc.updated # NoStamp /\ doc.updated + Buffer < t

OldEnough(doc, t) == doc.updated = NoStamp \/ doc.updated + Buffer < t

\* Mutant: the listed ids are not excluded.
ListIgnored(ids, t) == {id \in Ids : HasDoc(id) /\ OldEnough(docs[id], t)}

MissingInInput(ids, t) ==
  {id \in Ids \ ids : HasDoc(id) /\ OldEnough(docs[id], t)}

(* permissions-v2. SetPermission replaces the whole resource. *)
FullAccess(u)        == [v \in Users |-> IF v = u THEN Rights ELSE {}]
SetPermission(id, p) == perms' = [perms EXCEPT ![id] = p]
RemoveResource(id)   == perms' = [perms EXCEPT ![id] = NoResource]
AdminListResourceIds == {id \in Ids : HasResource(id)}

(* A user's right on a missing resource is denied. *)
CheckPermission(u, id, right) == HasResource(id) /\ right \in perms[id][u]

-----------------------------------------------------------------------------
(***************************************************************************)
(* At the start the collection may hold legacy documents, with or without  *)
(* a resource. The clock starts above NoStamp.                             *)
(***************************************************************************)
StoresInit ==
  /\ docs = [id \in Ids |-> IF id \in Legacy
                            THEN [owner |-> NoOwner, updated |-> NoStamp]
                            ELSE NoDoc]
  /\ perms \in [Ids -> {NoResource} \cup {FullAccess(u) : u \in Users}]
  /\ \A id \in Ids \ Legacy : ~HasResource(id)
  /\ now = 1
  /\ faults = 0
  /\ released = {}
  /\ acked = {}

StoresTypeOK ==
  /\ docs \in [Ids -> Doc \cup {NoDoc}]
  /\ perms \in [Ids -> Resource \cup {NoResource}]
  /\ now \in Nat \ {0}
  /\ faults \in 0 .. MaxFaults
  /\ released \subseteq Ids
  /\ acked \subseteq Ids
=============================================================================
