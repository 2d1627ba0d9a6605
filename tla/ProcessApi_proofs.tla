------------------------- MODULE ProcessApi_proofs --------------------------
(***************************************************************************)
(* What the write requests hold and what they leave in the stores, for the *)
(* modules that put the requests together with something else.             *)
(***************************************************************************)
EXTENDS ProcessApi, TLAPS

(***************************************************************************)
(* A request in flight has the fields of a request.                        *)
(***************************************************************************)
LEMMA RequestFields ==
  ASSUME ProcessApiTypeOK, NEW r \in Requests, Active(r)
  PROVE  /\ req[r] \in Running
         /\ req[r].pc \in Pcs /\ req[r].op \in Ops
         /\ req[r].user \in Users /\ req[r].id \in Ids
         /\ req[r].owner \in Users \cup {NoOwner} /\ req[r].stamp \in Nat
BY DEF ProcessApiTypeOK, Running, Active

(***************************************************************************)
(* A request at a label is in flight.                                      *)
(***************************************************************************)
LEMMA RequestAtLabel ==
  ASSUME ProcessApiTypeOK, NEW r \in Requests, req[r].pc \in Pcs
  PROVE  Active(r)
BY DEF ProcessApiTypeOK, Idle, Pcs, Active

(***************************************************************************)
(* Full access of one user is a way to share a process (SetProcess).       *)
(***************************************************************************)
LEMMA FullAccessType ==
  ASSUME NEW u \in Users PROVE FullAccess(u) \in Resource
BY DEF FullAccess, Resource, Rights

(***************************************************************************)
(* What a request writes is a document.                                    *)
(***************************************************************************)
LEMMA DocumentToWrite ==
  ASSUME StoresTypeOK, ProcessApiTypeOK, NEW r \in Requests, Active(r)
  PROVE  Document(r) \in Doc
<1>1. now \in Nat
  BY DEF StoresTypeOK
<1>2. [owner |-> req[r].owner, updated |-> req[r].stamp] \in Doc
  BY RequestFields DEF Doc
<1> QED
  BY <1>1, <1>2 DEF Document, Dated, Doc

(***************************************************************************)
(* A write never comes without a stamp: neither SetProcess has one to add. *)
(***************************************************************************)
LEMMA DocumentWritten ==
  ASSUME ProcessApiTypeOK, NEW r \in Requests, req[r].pc = "write"
  PROVE  /\ Document(r) = [owner |-> req[r].owner, updated |-> req[r].stamp]
         /\ DbSetProcess(req[r].id, Document(r))
              <=> docs' = [docs EXCEPT ![req[r].id] = Document(r)]
<1>1. req[r].stamp # NoStamp
  <2>1. Stamped(r)
    BY RequestAtLabel DEF Pcs, Stamped
  <2>2. req[r].stamp \in 1 .. now
    BY <2>1 DEF ProcessApiTypeOK
  <2> QED
    BY <2>2 DEF NoStamp
<1>2. Document(r) = [owner |-> req[r].owner, updated |-> req[r].stamp]
  BY <1>1 DEF Document, Dated
<1>3. Dated(Document(r)) = Document(r)
  BY <1>1, <1>2 DEF Dated
<1> QED
  BY <1>2, <1>3 DEF DbSetProcess

(***************************************************************************)
(* The arrival of a request keeps the types.                               *)
(***************************************************************************)
LEMMA ArriveType ==
  ASSUME StoresTypeOK, ProcessApiTypeOK, NEW r \in Requests, Arrive(r)
  PROVE  StoresTypeOK' /\ ProcessApiTypeOK'
<1> USE StoresAssumption DEF StoresTypeOK, ProcessApiTypeOK, storeVars, Active
<1>1. ASSUME NEW u \in Users, NEW id \in Ids, CreateProcess(r, u, id)
      PROVE  StoresTypeOK' /\ ProcessApiTypeOK'
  BY <1>1 DEF CreateProcess, Running, Pcs, Ops, Idle, Stamped
<1>2. ASSUME NEW u \in Users, NEW id \in Ids,
             NEW op \in {"update", "publish", "delete"}, Begin(r, op, u, id)
      PROVE  StoresTypeOK' /\ ProcessApiTypeOK'
  BY <1>2 DEF Begin, FirstCall, Running, Pcs, Ops, Idle, Stamped, NoStamp
<1> QED
  BY <1>1, <1>2 DEF Arrive, UpdateProcess, UpdateProcessPublic, DeleteProcess

(***************************************************************************)
(* Every call of a write request keeps the types.                          *)
(***************************************************************************)
LEMMA ServeType ==
  ASSUME StoresTypeOK, ProcessApiTypeOK, NEW r \in Requests, Serve(r)
  PROVE  StoresTypeOK' /\ ProcessApiTypeOK'
<1> USE StoresAssumption
    DEF StoresTypeOK, ProcessApiTypeOK, storeVars, Answers, Fails, Active,
        Creating, HasDoc, HasResource, NoStamp
<1>1. CASE Check(r)
  BY <1>1, RequestFields, RequestAtLabel
     DEF Check, FirstCall, Goto, Finish, Running, Pcs, Ops, Idle, Stamped
<1>2. CASE ReadProcess(r)
  <2>1. OwnerAfterRead(r) \in Users \cup {NoOwner}
    BY <1>2, RequestFields, RequestAtLabel DEF ReadProcess, OwnerAfterRead, Doc, Pcs
  <2> QED
    BY <1>2, <2>1, RequestFields, RequestAtLabel
       DEF ReadProcess, Finish, Running, Pcs, Ops, Idle, Stamped
<1>3. CASE SetDoc(r)
  BY <1>3, RequestFields, RequestAtLabel, DocumentToWrite, DocumentWritten
     DEF SetDoc, ReleaseIf, Abort, Goto, Finish, Running, Pcs,
         Ops, Idle, Stamped
<1>4. CASE GetResource(r)
  BY <1>4, RequestFields, RequestAtLabel
     DEF GetResource, Confirm, ReleaseIf, Abort, Goto, Finish, Running, Pcs,
         Ops, Idle, Stamped
<1>5. CASE SetRights(r)
  BY <1>5, RequestFields, RequestAtLabel, FullAccessType
     DEF SetRights, SetPermission, Confirm, ReleaseIf, Abort, Goto, Finish,
         Running, Pcs, Ops, Idle, Stamped
<1>6. CASE Rollback(r)
  BY <1>6, RequestFields, RequestAtLabel
     DEF Rollback, DbDeleteProcess, Finish, Running, Pcs, Idle, Stamped
<1>7. CASE RemovePerms(r)
  BY <1>7, RequestFields, RequestAtLabel
     DEF RemovePerms, RemoveResource, Release, Goto, Finish, Running, Pcs,
         Idle, Stamped
<1>8. CASE EraseDoc(r)
  BY <1>8, RequestFields, RequestAtLabel
     DEF EraseDoc, DbDeleteProcess, Finish, Running, Pcs, Idle, Stamped
<1> QED
  BY <1>1, <1>2, <1>3, <1>4, <1>5, <1>6, <1>7, <1>8 DEF Serve
=============================================================================
