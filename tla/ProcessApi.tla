----------------------------- MODULE ProcessApi -----------------------------
(***************************************************************************)
(* The write requests of lib/api/process.go and their handlers in          *)
(* lib/controller/process.go: create, update, publish and delete.          *)
(*                                                                         *)
(* A request runs on a goroutine of its own, and holds no lock. One action *)
(* is one remote call of the handler together with the local code that     *)
(* follows it, up to the next call; req[r].pc names that next call:        *)
(*                                                                         *)
(*   create                        write lookup grant   (rollback)         *)
(*   update, publish  check  read  write lookup grant                      *)
(*   delete           check  remove erase                                  *)
(*                                                                         *)
(* A request that is refused before it writes (a token, a body or an XML   *)
(* that cannot be read) changes nothing and is left out.                   *)
(***************************************************************************)
EXTENDS Stores

CONSTANTS
  Requests,    \* bound: requests in flight at a time
  LastArrival  \* bound: no request arrives after this tick

ASSUME ProcessApiAssumption == LastArrival \in Nat

VARIABLE req   \* req[r]: what request r holds in its local variables

Ops  == {"create", "update", "publish", "delete"}
Pcs  == {"check", "read", "write", "lookup", "grant", "rollback",
         "remove", "erase"}
Idle == [pc |-> "idle"]

\* owner and stamp are those of the document the request will write.
Running == [pc : Pcs, op : Ops, user : Users, id : Ids,
            owner : Users \cup {NoOwner}, stamp : Nat]

Active(r)      == req[r] # Idle
Creating(r)    == Active(r) /\ req[r].op = "create"
Goto(r, label) == req' = [req EXCEPT ![r].pc = label]
Finish(r)      == req' = [req EXCEPT ![r] = Idle]

-----------------------------------------------------------------------------
(* Arrival of a request, up to its first remote call. *)

\* uuid.NewString: an id nothing in the system knows.
Fresh(id) == /\ ~HasDoc(id) /\ ~HasResource(id) /\ id \notin released
             /\ \A r \in Requests : Active(r) => req[r].id # id

\* Nobody but the creating request knows a new id until it is stored.
Unheard(id) == \E r \in Requests :
                 Creating(r) /\ req[r].pc = "write" /\ req[r].id = id

\* Mutant: the stamp is in milliseconds, the clock in seconds.
CreateInMillis(r, u, id) ==
  /\ ~Active(r)
  /\ now <= LastArrival
  /\ Fresh(id)
  /\ req' = [req EXCEPT ![r] = [pc |-> "write", op |-> "create", user |-> u,
                                id |-> id, owner |-> u, stamp |-> 1000 * now]]
  /\ UNCHANGED storeVars

CreateProcess(r, u, id) ==
  /\ ~Active(r)
  /\ now <= LastArrival
  /\ Fresh(id)
  /\ req' = [req EXCEPT ![r] = [pc |-> "write", op |-> "create", user |-> u,
                                id |-> id, owner |-> u, stamp |-> now]]
  /\ UNCHANGED storeVars

FirstCall(op) == IF op = "delete" THEN "remove" ELSE "read"

\* checkBool answers for an admin without a call.
Begin(r, op, u, id) ==
  /\ ~Active(r)
  /\ now <= LastArrival
  /\ ~Unheard(id)
  /\ req' = [req EXCEPT ![r] =
               [pc |-> IF u \in Admins THEN FirstCall(op) ELSE "check",
                op |-> op, user |-> u, id |-> id,
                owner |-> NoOwner, stamp |-> NoStamp]]
  /\ UNCHANGED storeVars

UpdateProcess(r, u, id)       == Begin(r, "update", u, id)
UpdateProcessPublic(r, u, id) == Begin(r, "publish", u, id)
DeleteProcess(r, u, id)       == Begin(r, "delete", u, id)

-----------------------------------------------------------------------------
(* checkBool and the read of ReadProcess. *)

RightFor(op) == IF op = "delete" THEN "a" ELSE "w"

Check(r) ==
  /\ req[r].pc = "check"
  /\ \/ /\ Answers
        /\ CheckPermission(req[r].user, req[r].id, RightFor(req[r].op))
        /\ Goto(r, FirstCall(req[r].op))
     \/ /\ Answers
        /\ ~CheckPermission(req[r].user, req[r].id, RightFor(req[r].op))
        /\ Finish(r)
     \/ Fails /\ Finish(r)
  /\ UNCHANGED <<docs, perms, now, released, acked>>

\* Mutant: whoever writes becomes the owner.
OwnerIsWriter(r) == req[r].user

\* An update takes over a process without an owner; a publish never does.
OwnerAfterRead(r) ==
  IF HasDoc(req[r].id) /\ (docs[req[r].id].owner # NoOwner
                           \/ req[r].op = "publish")
  THEN docs[req[r].id].owner
  ELSE req[r].user

\* Only an update goes on when there is nothing under the id.
ReadProcess(r) ==
  /\ req[r].pc = "read"
  /\ \/ /\ Answers
        /\ HasDoc(req[r].id) \/ req[r].op = "update"
        /\ req' = [req EXCEPT ![r].pc = "write", ![r].stamp = now,
                              ![r].owner = OwnerAfterRead(r)]
     \/ /\ Answers
        /\ ~HasDoc(req[r].id) /\ req[r].op = "publish"
        /\ Finish(r)
     \/ Fails /\ Finish(r)
  /\ UNCHANGED <<docs, perms, now, released, acked>>

-----------------------------------------------------------------------------
(* SetProcess: the document, then the resource unless there is one. *)

\* Mutant: every failed write cleans up behind itself.
AlwaysRollback(r) == Goto(r, "rollback")

\* The error path after SetProcess: only a create cleans up behind itself.
Abort(r) == IF Creating(r) THEN Goto(r, "rollback") ELSE Finish(r)

\* SetProcess stamps what comes without a stamp; so does the database layer.
Document(r) == Dated([owner |-> req[r].owner, updated |-> req[r].stamp])

SetDoc(r) ==
  /\ req[r].pc = "write"
  /\ \/ /\ Answers
        /\ DbSetProcess(req[r].id, Document(r))
        /\ ReleaseIf(~Creating(r) /\ ~HasDoc(req[r].id), req[r].id)
        /\ Goto(r, "lookup")
     \/ /\ Fails
        /\ \/ DbSetProcess(req[r].id, Document(r))
           \/ UNCHANGED docs
        /\ ReleaseIf(Creating(r) \/ (~HasDoc(req[r].id) /\ docs' # docs),
                     req[r].id)
        /\ Abort(r)
  /\ UNCHANGED <<perms, now, acked>>

\* Mutant: the rights are written without looking for a resource.
AlwaysGrant(r) ==
  /\ req[r].pc = "lookup"
  /\ Answers
  /\ Goto(r, "grant")
  /\ UNCHANGED <<docs, perms, now, released, acked>>

GetResource(r) ==
  /\ req[r].pc = "lookup"
  /\ \/ /\ Answers
        /\ HasResource(req[r].id)
        /\ Confirm(req[r].id)
        /\ Finish(r)
        /\ UNCHANGED released
     \/ /\ Answers
        /\ ~HasResource(req[r].id)
        /\ ReleaseIf(~Creating(r), req[r].id)
        /\ Goto(r, "grant")
        /\ UNCHANGED acked
     \/ /\ Fails
        /\ ReleaseIf(Creating(r), req[r].id)
        /\ Abort(r)
        /\ UNCHANGED acked
  /\ UNCHANGED <<docs, perms, now>>

\* The rights go to the user of the request, not to the document's owner.
SetRights(r) ==
  /\ req[r].pc = "grant"
  /\ \/ /\ Answers
        /\ SetPermission(req[r].id, FullAccess(req[r].user))
        /\ Confirm(req[r].id)
        /\ Finish(r)
        /\ UNCHANGED released
     \/ /\ Fails
        /\ \/ SetPermission(req[r].id, FullAccess(req[r].user))
           \/ UNCHANGED perms
        /\ ReleaseIf(Creating(r), req[r].id)
        /\ Abort(r)
        /\ UNCHANGED acked
  /\ UNCHANGED <<docs, now>>

\* The result of this delete is ignored.
Rollback(r) ==
  /\ req[r].pc = "rollback"
  /\ \/ Answers /\ DbDeleteProcess(req[r].id)
     \/ Fails /\ (DbDeleteProcess(req[r].id) \/ UNCHANGED docs)
  /\ Finish(r)
  /\ UNCHANGED <<perms, now, released, acked>>

-----------------------------------------------------------------------------
(* deleteProcess: the resource, then the document. *)

RemovePerms(r) ==
  /\ req[r].pc = "remove"
  /\ Release(req[r].id)
  /\ \/ /\ Answers
        /\ RemoveResource(req[r].id)
        /\ Goto(r, "erase")
     \/ /\ Fails
        /\ RemoveResource(req[r].id) \/ UNCHANGED perms
        /\ Finish(r)
  /\ UNCHANGED <<docs, now, acked>>

EraseDoc(r) ==
  /\ req[r].pc = "erase"
  /\ \/ Answers /\ DbDeleteProcess(req[r].id)
     \/ Fails /\ (DbDeleteProcess(req[r].id) \/ UNCHANGED docs)
  /\ Finish(r)
  /\ UNCHANGED <<perms, now, released, acked>>

-----------------------------------------------------------------------------
ProcessApiInit == req = [r \in Requests |-> Idle]

Arrive(r) == \E u \in Users, id \in Ids :
               \/ CreateProcess(r, u, id)
               \/ UpdateProcess(r, u, id)
               \/ UpdateProcessPublic(r, u, id)
               \/ DeleteProcess(r, u, id)

\* The next call of a request in flight.
Serve(r) == \/ Check(r)       \/ ReadProcess(r)
            \/ SetDoc(r)      \/ GetResource(r) \/ SetRights(r)
            \/ Rollback(r)
            \/ RemovePerms(r) \/ EraseDoc(r)

\* A request that holds a stamp for its document.
Stamped(r) == Active(r) /\ req[r].pc \in {"write", "lookup", "grant", "rollback"}

ProcessApiTypeOK ==
  /\ req \in [Requests -> Running \cup {Idle}]
  /\ \A r \in Requests : Stamped(r) => req[r].stamp \in 1 .. now
=============================================================================
