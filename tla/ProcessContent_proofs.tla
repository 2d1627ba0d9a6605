----------------------- MODULE ProcessContent_proofs ------------------------
(***************************************************************************)
(* What the documents say and whose they are stands, for any number of     *)
(* requests, processes, users and bodies.                                  *)
(***************************************************************************)
EXTENDS ProcessContent, ProcessApi_proofs

(***************************************************************************)
(* The parts of a body.                                                    *)
(***************************************************************************)
LEMMA Parts ==
  ASSUME NEW b \in Body
  PROVE  /\ b = [version |-> b.version, name |-> b.name, xml |-> b.xml,
                 publish |-> b.publish]
         /\ b.version \in Nat /\ b.name \in Names /\ b.xml \in Xml
         /\ b.publish \in BOOLEAN
BY Zenon DEF Body

(***************************************************************************)
(* Another publish flag changes nothing else (UpdateProcessPublic).        *)
(***************************************************************************)
LEMMA FlagForm ==
  ASSUME NEW b \in Body, NEW flag \in BOOLEAN, NEW c, c = [b EXCEPT !.publish = flag]
  PROVE  c \in Body /\ c.version = b.version /\ c.name = b.name /\ c.xml = b.xml
<1>1. c = [version |-> b.version, name |-> b.name, xml |-> b.xml, publish |-> flag]
  BY Parts
<1>2. c \in Body
  BY <1>1, Parts, Zenon DEF Body
<1>3. c.version = b.version /\ c.name = b.name /\ c.xml = b.xml
  BY <1>1, Zenon
<1> QED
  BY <1>2, <1>3

(***************************************************************************)
(* Nor does another name.                                                  *)
(***************************************************************************)
LEMMA RenamedForm ==
  ASSUME NEW b \in Body, NEW n \in Names, NEW c, c = [b EXCEPT !.name = n]
  PROVE  c \in Body /\ c.version = b.version /\ c.name = n /\ c.xml = b.xml
<1>1. c = [version |-> b.version, name |-> n, xml |-> b.xml, publish |-> b.publish]
  BY Parts
<1>2. PICK v, x, p : v = b.version /\ x = b.xml /\ p = b.publish
  OBVIOUS
<1>3. v \in Nat /\ x \in Xml /\ p \in BOOLEAN
  BY <1>2, Parts, Zenon
<1>4. c = [version |-> v, name |-> n, xml |-> x, publish |-> p]
  BY <1>1, <1>2, Zenon
<1>5. c \in Body
  BY <1>3, <1>4, Zenon DEF Body
<1>6. c.version = v /\ c.name = n /\ c.xml = x
  BY <1>4
<1> QED
  BY <1>2, <1>5, <1>6, Zenon

(***************************************************************************)
(* A name is found in what a model says first, or it is the one given.     *)
(***************************************************************************)
LEMMA NamedForm ==
  ASSUME NEW b \in Body, Nameable(b)
  PROVE  /\ Named(b) \in Body
         /\ Named(b).version = b.version /\ Named(b).xml = b.xml
         /\ Named(b).name = "" => "emptyId" \in {b.xml.collaboration, b.xml.process}
<1>1. CASE b.name # ""
  BY <1>1, Zenon DEF Named
<1>2. CASE b.name = ""
  <2>1. PICK n : n = GetProcessModelName(b.xml)
    OBVIOUS
  <2>2. b.xml.collaboration \in Element /\ b.xml.process \in Element
    BY Parts DEF Xml
  <2>3. b.xml.collaboration # "absent" \/ b.xml.process # "absent"
    BY <1>2 DEF Nameable, HasModelName
  <2>4. /\ n \in {"", "id", "process-name"}
        /\ n = "" => "emptyId" \in {b.xml.collaboration, b.xml.process}
    BY <2>1, <2>2, <2>3 DEF GetProcessModelName, IdOf, Element
  <2>5. Named(b) = [b EXCEPT !.name = n]
    BY <1>2, <2>1, Zenon DEF Named
  <2>6. n \in Names
    BY <2>4 DEF Names
  <2>7. /\ Named(b) \in Body /\ Named(b).version = b.version
        /\ Named(b).name = n /\ Named(b).xml = b.xml
    <3>1. PICK c : c = Named(b)
      OBVIOUS
    <3>2. c \in Body /\ c.version = b.version /\ c.name = n /\ c.xml = b.xml
      BY <2>5, <2>6, <3>1, RenamedForm
    <3> QED
      BY <3>1, <3>2, Zenon
  <2> QED
    BY <2>4, <2>7, Zenon
<1> QED
  BY <1>1, <1>2, Zenon

(***************************************************************************)
(* A body that has its name and passes Validate may be stored.             *)
(***************************************************************************)
LEMMA ValidStorable ==
  ASSUME NEW b, Validate(b),
         b.name = "" => "emptyId" \in {b.xml.collaboration, b.xml.process}
  PROVE  Storable(b)
BY DEF Validate, Storable


-----------------------------------------------------------------------------
(***************************************************************************)
(* What a step does. Request r moves on, or it is through; only what is    *)
(* under its id may change.                                                *)
(***************************************************************************)

\* Request r goes on with label pc as the request it was, with owner o.
Moved(r, pc, o) ==
  /\ req' = [req EXCEPT ![r] = req'[r]]
  /\ Active(r)' /\ req'[r] \in Running
  /\ req'[r].pc = pc /\ req'[r].owner = o
  /\ req'[r].op = req[r].op /\ req'[r].id = req[r].id

(***************************************************************************)
(* The two ways out of a call.                                             *)
(***************************************************************************)
LEMMA GotoForm ==
  ASSUME ProcessApiTypeOK, NEW r \in Requests, Active(r),
         NEW pc \in Pcs, Goto(r, pc)
  PROVE  Moved(r, pc, req[r].owner)
BY RequestFields DEF ProcessApiTypeOK, Goto, Moved, Running, Active, Idle

LEMMA FinishForm ==
  ASSUME ProcessApiTypeOK, NEW r \in Requests, Finish(r)
  PROVE  req' = [req EXCEPT ![r] = Idle] /\ req'[r] = Idle
BY DEF ProcessApiTypeOK, Finish

LEMMA AbortForm ==
  ASSUME ProcessApiTypeOK, NEW r \in Requests, Active(r), Abort(r)
  PROVE  \/ Moved(r, "rollback", req[r].owner)
         \/ req' = [req EXCEPT ![r] = Idle] /\ req'[r] = Idle
BY GotoForm, FinishForm DEF Abort, Pcs

(***************************************************************************)
(* A write stores the document and what it says, or nothing.               *)
(***************************************************************************)
Unstored  == UNCHANGED <<docs, content, version, owner>>

Stored(r) ==
  LET id == req[r].id
  IN  /\ docs' = [docs EXCEPT ![id] = Document(r)]
      /\ content' = [content EXCEPT ![id] = held[r]]
      /\ version' = IF req[r].op = "publish" THEN version
                    ELSE [version EXCEPT ![id] = None]
      /\ owner' = owner

LEMMA WriteForm ==
  ASSUME ProcessApiTypeOK, NEW r \in Requests, Write(r)
  PROVE  /\ Active(r) /\ req[r].pc = "write"
         /\ Stored(r) \/ Unstored
         /\ \/ Stored(r) /\ Moved(r, "lookup", req[r].owner)
            \/ Moved(r, "rollback", req[r].owner)
            \/ req' = [req EXCEPT ![r] = Idle] /\ req'[r] = Idle
         /\ Holds(r, held[r])
<1>1. SetDoc(r) /\ req[r].pc = "write" /\ Active(r)
  BY RequestAtLabel DEF Write, SetDoc, Pcs
<1>2. Stored(r) \/ (faults' # faults /\ Unstored)
  BY <1>1, DocumentWritten DEF Write, Stored, Unstored
<1>3. (Answers /\ Goto(r, "lookup")) \/ Abort(r)
  BY <1>1 DEF SetDoc
<1> QED
  BY <1>1, <1>2, <1>3, GotoForm, AbortForm DEF Write, Answers, Pcs

(***************************************************************************)
(* The last calls store nothing in MongoDB. They confirm what request r    *)
(* has written, or they leave what was confirmed before.                   *)
(***************************************************************************)
Confirms(r) ==
  LET id == req[r].id
  IN  /\ r \notin overlapped
      /\ version' = IF req[r].op = "publish" THEN version
                    ELSE [version EXCEPT ![id] = held[r].version]
      /\ owner' = [owner EXCEPT ![id] = docs[id].owner]

LEMMA CompleteForm ==
  ASSUME ProcessApiTypeOK, NEW r \in Requests, Complete(r)
  PROVE  /\ Active(r) /\ req[r].pc \in {"lookup", "grant"}
         /\ UNCHANGED <<docs, content>>
         /\ \/ /\ Confirms(r)
               /\ req' = [req EXCEPT ![r] = Idle] /\ req'[r] = Idle
            \/ /\ UNCHANGED <<version, owner>>
               /\ \/ req[r].pc = "lookup" /\ Moved(r, "grant", req[r].owner)
                  \/ Moved(r, "rollback", req[r].owner)
                  \/ req' = [req EXCEPT ![r] = Idle] /\ req'[r] = Idle
         /\ Holds(r, held[r])
<1>1. /\ GetResource(r) \/ SetRights(r)
      /\ req[r].pc \in {"lookup", "grant"} /\ Active(r)
  BY RequestAtLabel DEF Complete, GetResource, SetRights, Pcs
<1>2. \/ req[r].pc = "lookup" /\ Goto(r, "grant")
      \/ Abort(r)
      \/ Finish(r)
  BY <1>1 DEF GetResource, SetRights
<1>3. \/ req[r].pc = "lookup" /\ Moved(r, "grant", req[r].owner)
      \/ Moved(r, "rollback", req[r].owner)
      \/ req' = [req EXCEPT ![r] = Idle] /\ req'[r] = Idle
  BY <1>1, <1>2, GotoForm, AbortForm, FinishForm DEF Pcs
<1>4. ~Active(r)' <=> req'[r] = Idle
  BY DEF Active
<1>5. CASE Alone(r)
  BY <1>1, <1>3, <1>4, <1>5
  DEF Alone, Complete, Confirms, Moved, GetResource, SetRights
<1>6. CASE ~Alone(r)
  BY <1>1, <1>3, <1>6 DEF Complete, GetResource, SetRights
<1> QED
  BY <1>5, <1>6

(***************************************************************************)
(* A document that goes takes with it all that was confirmed.              *)
(***************************************************************************)
Erased(r) ==
  LET id == req[r].id
  IN  /\ docs' = [docs EXCEPT ![id] = NoDoc]
      /\ content' = [content EXCEPT ![id] = Original]
      /\ version' = [version EXCEPT ![id] = None]
      /\ owner' = [owner EXCEPT ![id] = NoOwner]

LEMMA EraseForm ==
  ASSUME StoresTypeOK, ProcessApiTypeOK, NEW r \in Requests, Erase(r)
  PROVE  /\ Active(r)
         /\ Erased(r) \/ Unstored
         /\ req' = [req EXCEPT ![r] = Idle] /\ req'[r] = Idle
         /\ Holds(r, held[r])
<1>1. /\ EraseDoc(r) \/ Rollback(r)
      /\ Active(r) /\ req[r].id \in Ids
  BY RequestAtLabel, RequestFields DEF Erase, EraseDoc, Rollback, Pcs
<1>2. docs' = [docs EXCEPT ![req[r].id] = NoDoc] \/ docs' = docs
  BY <1>1 DEF EraseDoc, Rollback, DbDeleteProcess
<1>3. Finish(r)
  BY <1>1 DEF EraseDoc, Rollback
<1>4. CASE docs'[req[r].id] = NoDoc
  <2>1. docs' = [docs EXCEPT ![req[r].id] = NoDoc]
    BY <1>1, <1>2, <1>4 DEF StoresTypeOK
  <2> QED
    BY <1>1, <1>3, <1>4, <2>1, FinishForm DEF Erase, Erased
<1>5. CASE docs'[req[r].id] # NoDoc
  <2>1. docs' = docs
    BY <1>1, <1>2, <1>5 DEF StoresTypeOK
  <2> QED
    BY <1>1, <1>3, <1>5, <2>1, FinishForm DEF Erase, Unstored
<1> QED
  BY <1>4, <1>5


(***************************************************************************)
(* A read stores nothing. An update may write only what passes Validate,   *)
(* a publish what is there.                                                *)
(***************************************************************************)
LEMMA ReadForm ==
  ASSUME StoresTypeOK, ProcessApiTypeOK, NEW r \in Requests, Read(r)
  PROVE  /\ Active(r) /\ req[r].pc = "read" /\ Unstored
         /\ \/ /\ Moved(r, "write", OwnerAfterRead(r))
               /\ HasDoc(req[r].id) \/ req[r].op = "update"
               /\ ~Rejected(r)
            \/ req' = [req EXCEPT ![r] = Idle] /\ req'[r] = Idle
         /\ Holds(r, AfterRead(r))
<1>1. /\ req[r].pc = "read" /\ Active(r) /\ req[r] \in Running
      /\ UNCHANGED docs /\ Holds(r, AfterRead(r))
  BY RequestAtLabel, RequestFields DEF Read, ReadProcess, storeVars, Pcs
<1>2. OwnerAfterRead(r) \in Users \cup {NoOwner}
  BY <1>1, RequestFields DEF OwnerAfterRead, HasDoc, StoresTypeOK, Doc
<1>3. CASE /\ HasDoc(req[r].id) \/ req[r].op = "update"
           /\ ~Rejected(r)
           /\ req' = [req EXCEPT ![r].pc = "write", ![r].stamp = now,
                                 ![r].owner = OwnerAfterRead(r)]
  <2>1. Moved(r, "write", OwnerAfterRead(r))
    BY <1>1, <1>2, <1>3, RequestFields
    DEF Moved, ProcessApiTypeOK, StoresTypeOK, Running, Pcs, Active, Idle
  <2> QED
    BY <1>1, <1>3, <2>1 DEF Read, Unstored
<1>4. CASE Finish(r)
  BY <1>1, <1>4, FinishForm DEF Read, Unstored
<1> QED
  BY <1>3, <1>4 DEF Read, ReadProcess

(***************************************************************************)
(* The other calls store nothing and do not lead to a write.               *)
(***************************************************************************)
LEMMA PassForm ==
  ASSUME ProcessApiTypeOK, NEW r \in Requests, Pass(r)
  PROVE  /\ Active(r) /\ Unstored
         /\ \/ req[r].pc = "check" /\ req[r].op # "delete" /\ Moved(r, "read", req[r].owner)
            \/ \E pc \in {"remove", "erase"} : Moved(r, pc, req[r].owner)
            \/ req' = [req EXCEPT ![r] = Idle] /\ req'[r] = Idle
         /\ Holds(r, held[r])
<1>1. /\ Active(r) /\ UNCHANGED docs
      /\ \/ req[r].pc = "check" /\ req[r].op # "delete" /\ Goto(r, "read")
         \/ \E pc \in {"remove", "erase"} : Goto(r, pc)
         \/ Finish(r)
  BY RequestAtLabel DEF Pass, Check, RemovePerms, FirstCall, Pcs
<1> QED
  BY <1>1, GotoForm, FinishForm DEF Pass, Unstored, Pcs

(***************************************************************************)
(* Arrivals. What a request carries is a body; a create and an update give *)
(* it its name, and a create is validated at once.                         *)
(***************************************************************************)
Arrived(r, id, pc, op, body) ==
  /\ req' = [req EXCEPT ![r] = req'[r]]
  /\ Active(r)' /\ req'[r] \in Running
  /\ req'[r].pc = pc /\ req'[r].op = op /\ req'[r].id = id
  /\ body \in Body /\ Carries(r, id, body)

LEMMA ReceiveForm ==
  ASSUME StoresTypeOK, ProcessApiTypeOK, NEW r \in Requests, Receive(r)
  PROVE  /\ ~Active(r) /\ Unstored
         /\ \E id \in Ids, pc \in Pcs, op \in Ops, body \in Body :
              /\ Arrived(r, id, pc, op, body)
              /\ \/ /\ pc \in {"check", "read", "remove"} /\ op # "create"
                    /\ pc = "read" => op # "delete"
                 \/ /\ pc = "write" /\ op = "create"
                    /\ ~HasDoc(id) /\ Storable(body)
              /\ op = "update" /\ body.name = "" =>
                   "emptyId" \in {body.xml.collaboration, body.xml.process}
<1> DEFINE Goal(id, pc, op, body) ==
             /\ Arrived(r, id, pc, op, body)
             /\ \/ /\ pc \in {"check", "read", "remove"} /\ op # "create"
                   /\ pc = "read" => op # "delete"
                \/ /\ pc = "write" /\ op = "create"
                   /\ ~HasDoc(id) /\ Storable(body)
             /\ op = "update" /\ body.name = "" =>
                  "emptyId" \in {body.xml.collaboration, body.xml.process}
<1>0. ASSUME NEW u \in Users, NEW id \in Ids,
             NEW op \in {"update", "publish", "delete"}, Begin(r, op, u, id),
             NEW body \in Body, Carries(r, id, body),
             op = "update" /\ body.name = "" =>
               "emptyId" \in {body.xml.collaboration, body.xml.process}
      PROVE  /\ ~Active(r) /\ Unstored
             /\ \E pc \in Pcs : Goal(id, pc, op, body)
  <2>1. PICK pc \in {"check", "read", "remove"} :
          /\ pc = "read" => op # "delete"
          /\ req' = [req EXCEPT ![r] = [pc |-> pc, op |-> op, user |-> u, id |-> id,
                                        owner |-> NoOwner, stamp |-> NoStamp]]
    BY <1>0 DEF Begin, FirstCall
  <2>2. Arrived(r, id, pc, op, body)
    BY <1>0, <2>1 DEF Arrived, ProcessApiTypeOK, Running, Pcs, Ops, Active, Idle,
                      NoStamp
  <2>3. pc \in Pcs
    BY DEF Pcs
  <2> QED
    BY <1>0, <2>1, <2>2, <2>3 DEF Begin, Carries, Unstored, storeVars
<1>1. ASSUME NEW u \in Users, NEW id \in Ids, NEW body \in Bodies,
             Create(r, u, id, body)
      PROVE  /\ ~Active(r) /\ Unstored
             /\ Goal(id, "write", "create", Named(body)) /\ Named(body) \in Body
  <2>1. /\ Named(body) \in Body /\ Storable(Named(body))
    BY <1>1, NamedForm, ValidStorable, ProcessContentAssumption DEF Create
  <2>2. req' = [req EXCEPT ![r] = [pc |-> "write", op |-> "create", user |-> u,
                                   id |-> id, owner |-> u, stamp |-> now]]
    BY <1>1 DEF Create, CreateProcess
  <2>3. now \in Nat
    BY DEF StoresTypeOK
  <2>4. Arrived(r, id, "write", "create", Named(body))
    BY <1>1, <2>1, <2>2, <2>3 DEF Arrived, Create, ProcessApiTypeOK, Running, Pcs,
       Ops, Active, Idle
  <2> QED
    BY <1>1, <2>1, <2>4 DEF Create, CreateProcess, Fresh, Carries, Unstored, storeVars
<1>2. ASSUME NEW u \in Users, NEW id \in Ids, NEW body \in Bodies,
             Update(r, u, id, body)
      PROVE  /\ ~Active(r) /\ Unstored
             /\ \E pc \in Pcs : Goal(id, pc, "update", Named(body))
             /\ Named(body) \in Body
  <2>1. /\ body \in Body /\ Named(body) \in Body
        /\ Named(body).name = "" =>
             "emptyId" \in {Named(body).xml.collaboration, Named(body).xml.process}
    BY <1>2, NamedForm, ProcessContentAssumption DEF Update
  <2> QED
    BY <1>0, <1>2, <2>1 DEF Update, UpdateProcess
<1>3. Original \in Body /\ \A flag \in BOOLEAN : [Original EXCEPT !.publish = flag] \in Body
  BY FlagForm, ProcessContentAssumption
<1>4. ASSUME NEW u \in Users, NEW id \in Ids, NEW flag \in BOOLEAN,
             Publish(r, u, id, flag)
      PROVE  /\ ~Active(r) /\ Unstored
             /\ \E pc \in Pcs : Goal(id, pc, "publish", [Original EXCEPT !.publish = flag])
  BY <1>0, <1>3, <1>4 DEF Publish, UpdateProcessPublic
<1>5. ASSUME NEW u \in Users, NEW id \in Ids, Delete(r, u, id)
      PROVE  /\ ~Active(r) /\ Unstored
             /\ \E pc \in Pcs : Goal(id, pc, "delete", Original)
  BY <1>0, <1>3, <1>5 DEF Delete, DeleteProcess
<1>6. {"create", "update", "publish", "delete"} \subseteq Ops /\ "write" \in Pcs
  BY DEF Ops, Pcs
<1> HIDE DEF Goal
<1> SUFFICES /\ ~Active(r) /\ Unstored
             /\ \E id \in Ids, pc \in Pcs, op \in Ops, body \in Body : Goal(id, pc, op, body)
  BY DEF Goal
<1> QED
  BY <1>1, <1>2, <1>3, <1>4, <1>5, <1>6 DEF Receive


-----------------------------------------------------------------------------
(***************************************************************************)
(* Types: what is held and stored is a body.                               *)
(***************************************************************************)
LEMMA HoldsForm ==
  ASSUME ContentTypeOK, NEW r \in Requests, NEW body \in Body, Holds(r, body)
  PROVE  /\ held' \in [Requests -> Body] /\ overlapped' \subseteq Requests
         /\ \A s \in Requests \ {r} : held'[s] = held[s]
         /\ req'[r] # Idle => held'[r] = body
         /\ overlapped' = IF req'[r] = Idle THEN overlapped \ {r} ELSE overlapped
BY ProcessContentAssumption DEF ContentTypeOK, Holds

LEMMA HeldAfterRead ==
  ASSUME ContentTypeOK, NEW r \in Requests, Active(r)
  PROVE  /\ AfterRead(r) \in Body
         /\ req[r].op # "publish" => AfterRead(r) = held[r]
         /\ req[r].op = "publish" =>
              /\ AfterRead(r).version = content[req[r].id].version
              /\ AfterRead(r).name = content[req[r].id].name
              /\ AfterRead(r).xml = content[req[r].id].xml
<1>1. /\ held[r] \in Body /\ req[r].id \in Ids /\ content[req[r].id] \in Body
  BY RequestFields DEF ContentTypeOK
<1>2. held[r].publish \in BOOLEAN
  BY <1>1, Parts, Zenon
<1>3. CASE req[r].op = "publish"
  <2>1. PICK b \in Body : b = content[req[r].id]
    BY <1>1, Zenon
  <2>2. PICK flag \in BOOLEAN : flag = held[r].publish
    BY <1>2, Zenon
  <2>3. PICK c : c = [b EXCEPT !.publish = flag]
    OBVIOUS
  <2>4. c \in Body /\ c.version = b.version /\ c.name = b.name /\ c.xml = b.xml
    BY <2>3, FlagForm
  <2>5. AfterRead(r) = c
    BY <1>3, <2>1, <2>2, <2>3, Zenon DEF AfterRead
  <2> QED
    BY <1>3, <2>1, <2>4, <2>5, Zenon
<1>4. CASE req[r].op # "publish"
  BY <1>1, <1>4, Zenon DEF AfterRead
<1> QED
  BY <1>3, <1>4

(***************************************************************************)
(* Every step keeps the types.                                             *)
(***************************************************************************)
LEMMA ContentTypes ==
  ASSUME ContentTypeOK, AloneInPlace, NEW r \in Requests, Receive(r) \/ Proceed(r)
  PROVE  ContentTypeOK'
<1>0. /\ StoresTypeOK /\ ProcessApiTypeOK
      /\ content \in [Ids -> Body] /\ held \in [Requests -> Body]
      /\ version \in [Ids -> Nat] /\ owner \in [Ids -> Users \cup {NoOwner}]
      /\ Original \in Body /\ None \in Nat
  BY ProcessContentAssumption DEF ContentTypeOK, None
<1>1. CASE Receive(r)
  <2>1. Arrive(r)
    BY <1>1 DEF Receive, Arrive, Create, Update, Publish, Delete
  <2>2. PICK id \in Ids, pc \in Pcs, op \in Ops, body \in Body :
          Arrived(r, id, pc, op, body)
    BY <1>0, <1>1, ReceiveForm
  <2> QED
    BY <1>0, <1>1, <2>1, <2>2, ArriveType, ReceiveForm
    DEF ContentTypeOK, Arrived, Carries, Unstored, Others
<1>2. ASSUME Serve(r), NEW body \in Body, Holds(r, body),
             content' \in [Ids -> Body], version' \in [Ids -> Nat],
             owner' \in [Ids -> Users \cup {NoOwner}]
      PROVE  ContentTypeOK'
  BY <1>0, <1>2, ServeType, HoldsForm DEF ContentTypeOK
<1>3. CASE Pass(r)
  BY <1>0, <1>2, <1>3, PassForm DEF Pass, Serve, Unstored
<1>4. CASE Read(r)
  <2>1. AfterRead(r) \in Body /\ Unstored /\ Holds(r, AfterRead(r)) /\ Active(r)
    BY <1>0, <1>4, ReadForm, HeldAfterRead
  <2>2. CASE ReadProcess(r)
    BY <1>0, <1>2, <2>1, <2>2 DEF Serve, Unstored
  <2>3. CASE Finish(r) /\ UNCHANGED storeVars
    <3>1. StoresTypeOK' /\ ProcessApiTypeOK'
      BY <1>0, <2>3, FinishForm
      DEF StoresTypeOK, ProcessApiTypeOK, storeVars, Stamped, Active, Idle
    <3> QED
      BY <1>0, <2>1, <3>1, HoldsForm DEF ContentTypeOK, Unstored
  <2> QED
    BY <1>4, <2>2, <2>3 DEF Read
<1>5. CASE Write(r)
  BY <1>0, <1>2, <1>5, WriteForm, RequestFields
  DEF Write, Serve, Stored, Unstored
<1>6. CASE Complete(r)
  <2>1. held[r].version \in Nat
    BY <1>0, Parts
  <2>2. r \notin overlapped => docs[req[r].id].owner \in Users \cup {NoOwner}
    BY <1>0, <1>6, CompleteForm, RequestFields
    DEF AloneInPlace, HasDoc, StoresTypeOK, Doc
  <2> QED
    BY <1>0, <1>2, <1>6, <2>1, <2>2, CompleteForm, RequestFields
    DEF Complete, Serve, Confirms
<1>7. CASE Erase(r)
  BY <1>0, <1>2, <1>7, EraseForm, RequestFields
  DEF Erase, Serve, Erased, Unstored
<1> QED
  BY <1>1, <1>3, <1>4, <1>5, <1>6, <1>7 DEF Proceed


-----------------------------------------------------------------------------
(***************************************************************************)
(* Request r leaves the others, and the other processes, as they are.      *)
(***************************************************************************)
LEMMA Frame ==
  ASSUME ContentTypeOK, NEW r \in Requests, Proceed(r)
  PROVE  /\ Active(r) /\ req[r].id \in Ids
         /\ \A s \in Requests \ {r} : req'[s] = req[s] /\ held'[s] = held[s]
         /\ overlapped' = IF req'[r] = Idle THEN overlapped \ {r} ELSE overlapped
         /\ req'[r] # Idle => req'[r].id = req[r].id /\ req'[r].op = req[r].op
         /\ \A id \in Ids \ {req[r].id} :
              /\ docs'[id] = docs[id] /\ content'[id] = content[id]
              /\ version'[id] = version[id] /\ owner'[id] = owner[id]
<1>0. /\ StoresTypeOK /\ ProcessApiTypeOK /\ held[r] \in Body
  BY DEF ContentTypeOK
<1> DEFINE Same ==
      /\ \A s \in Requests \ {r} : req'[s] = req[s]
      /\ req'[r] # Idle => req'[r].id = req[r].id /\ req'[r].op = req[r].op
<1>1. ASSUME NEW pc, NEW o, Moved(r, pc, o) PROVE Same
  BY <1>0, <1>1 DEF Moved, ProcessApiTypeOK
<1>2. ASSUME req' = [req EXCEPT ![r] = Idle], req'[r] = Idle PROVE Same
  BY <1>0, <1>2 DEF ProcessApiTypeOK
<1>3. ASSUME NEW body \in Body, Holds(r, body)
      PROVE  /\ \A s \in Requests \ {r} : held'[s] = held[s]
             /\ overlapped' = IF req'[r] = Idle THEN overlapped \ {r} ELSE overlapped
  BY <1>3, HoldsForm
<1>4. Active(r) => req[r].id \in Ids
  BY <1>0, RequestFields
<1> HIDE DEF Same
<1>5. /\ Active(r) /\ Same
      /\ \E body \in Body : Holds(r, body)
  <2>1. CASE Pass(r)
    BY <1>0, <1>1, <1>2, <2>1, PassForm
  <2>2. CASE Read(r)
    BY <1>0, <1>1, <1>2, <2>2, ReadForm, HeldAfterRead
  <2>3. CASE Write(r)
    BY <1>0, <1>1, <1>2, <2>3, WriteForm
  <2>4. CASE Complete(r)
    BY <1>0, <1>1, <1>2, <2>4, CompleteForm
  <2>5. CASE Erase(r)
    BY <1>0, <1>1, <1>2, <2>5, EraseForm
  <2> QED
    BY <2>1, <2>2, <2>3, <2>4, <2>5 DEF Proceed
<1>6. \A id \in Ids \ {req[r].id} :
        /\ docs'[id] = docs[id] /\ content'[id] = content[id]
        /\ version'[id] = version[id] /\ owner'[id] = owner[id]
  <2>1. CASE Stored(r) \/ Erased(r)
    BY <1>4, <1>5, <2>1 DEF Stored, Erased, ContentTypeOK, StoresTypeOK
  <2>2. CASE Confirms(r) /\ UNCHANGED <<docs, content>>
    BY <1>4, <1>5, <2>2 DEF Confirms, ContentTypeOK, StoresTypeOK
  <2>3. CASE Unstored
    BY <2>3 DEF Unstored
  <2> QED
    BY <1>0, <2>1, <2>2, <2>3, PassForm, ReadForm, WriteForm, CompleteForm, EraseForm
    DEF Proceed, Unstored
<1> QED
  BY <1>3, <1>4, <1>5, <1>6 DEF Same

(***************************************************************************)
(* A request that was alone with its process until now finds in place what *)
(* it wrote.                                                               *)
(***************************************************************************)
LEMMA AloneStep ==
  ASSUME ContentTypeOK, AloneInPlace, NEW r \in Requests, Receive(r) \/ Proceed(r)
  PROVE  AloneInPlace'
<1>0. StoresTypeOK /\ ProcessApiTypeOK /\ held[r] \in Body
  BY DEF ContentTypeOK
<1>1. SUFFICES ASSUME NEW s \in Requests, s \notin overlapped', Active(s)'
               PROVE  /\ Others(s, req[s].id)' = {}
                      /\ req'[s].pc \in {"lookup", "grant"} =>
                           /\ HasDoc(req[s].id)'
                           /\ req'[s].op # "publish" =>
                                content'[req'[s].id].version = held'[s].version
  BY DEF AloneInPlace
<1>2. CASE Receive(r)
  <2>1. PICK id \in Ids, pc \in Pcs, op \in Ops, body \in Body :
          /\ Arrived(r, id, pc, op, body)
          /\ pc \in {"check", "read", "remove"} \/ pc = "write"
    BY <1>0, <1>2, ReceiveForm
  <2>2. \A t \in Requests \ {r} : req'[t] = req[t] /\ held'[t] = held[t]
    BY <1>0, <2>1 DEF Arrived, Carries, ContentTypeOK, ProcessApiTypeOK
  <2>3. UNCHANGED <<docs, content>>
    BY <1>0, <1>2, ReceiveForm DEF Unstored
  <2>4. CASE s = r
    <3>1. Others(r, id) = {}
      BY <1>1, <2>1, <2>4 DEF Arrived, Carries
    <3> QED
      BY <2>1, <2>2, <2>4, <3>1 DEF Arrived, Others, Active
  <2>5. CASE s # r
    <3>1. s \notin overlapped /\ req[s].id # id /\ Active(s)
      BY <1>1, <2>1, <2>2, <2>5 DEF Arrived, Carries, Others, Active
    <3> QED
      BY <2>1, <2>2, <2>3, <2>5, <3>1 DEF AloneInPlace, Arrived, Others, Active, HasDoc
  <2> QED
    BY <2>4, <2>5
<1>3. CASE Proceed(r)
  <2>1. /\ Active(r) /\ req[r].id \in Ids
        /\ \A t \in Requests \ {r} : req'[t] = req[t] /\ held'[t] = held[t]
        /\ overlapped' = IF req'[r] = Idle THEN overlapped \ {r} ELSE overlapped
        /\ req'[r] # Idle => req'[r].id = req[r].id /\ req'[r].op = req[r].op
        /\ \A id \in Ids \ {req[r].id} :
             docs'[id] = docs[id] /\ content'[id] = content[id]
    BY <1>3, Frame
  <2>2. s \notin overlapped /\ Active(s)
    BY <1>1, <2>1 DEF Active
  <2>3. /\ Others(s, req[s].id) = {}
        /\ req[s].pc \in {"lookup", "grant"} =>
             /\ HasDoc(req[s].id)
             /\ req[s].op # "publish" => content[req[s].id].version = held[s].version
    BY <2>2 DEF AloneInPlace
  <2>4. req'[s].id = req[s].id
    BY <1>1, <2>1 DEF Active
  <2>5. Others(s, req[s].id)' = {}
    BY <2>1, <2>3, <2>4 DEF Others, Active
  <2>6. CASE s # r
    <3>1. req[s].id # req[r].id /\ req[s].id \in Ids
      BY <1>0, <2>1, <2>2, <2>3, <2>6, RequestFields DEF Others
    <3> QED
      BY <2>1, <2>3, <2>5, <2>6, <3>1 DEF HasDoc
  <2>7. ASSUME s = r, req'[r].pc \in {"lookup", "grant"}
        PROVE  /\ HasDoc(req[r].id)'
               /\ req'[r].op # "publish" =>
                    content'[req'[r].id].version = held'[r].version
    <3>0. req'[r] # Idle
      BY <1>1, <2>7 DEF Active
    <3>1. CASE Write(r)
      <4>1. Stored(r) /\ Holds(r, held[r]) /\ Document(r) \in Doc
        BY <1>0, <2>1, <2>7, <3>0, <3>1, WriteForm, DocumentToWrite DEF Moved
      <4>2. held'[r] = held[r]
        BY <1>0, <3>0, <4>1, HoldsForm
      <4> QED
        BY <1>0, <2>1, <2>4, <2>7, <4>1, <4>2, StoresAssumption
        DEF Stored, HasDoc, ContentTypeOK, StoresTypeOK
    <3>2. CASE Complete(r)
      <4>1. req[r].pc \in {"lookup", "grant"} /\ UNCHANGED <<docs, content>> /\ Holds(r, held[r])
        BY <1>0, <3>2, CompleteForm
      <4>2. held'[r] = held[r]
        BY <1>0, <3>0, <4>1, HoldsForm
      <4> QED
        BY <2>1, <2>3, <2>4, <2>7, <3>0, <4>1, <4>2 DEF HasDoc
    <3> QED
      BY <1>0, <1>3, <2>7, <3>0, <3>1, <3>2, PassForm, ReadForm, EraseForm
      DEF Proceed, Moved
  <2> QED
    BY <2>4, <2>5, <2>6, <2>7
<1> QED
  BY <1>2, <1>3


(***************************************************************************)
(* An update keeps its name, or the empty id it has for one.               *)
(***************************************************************************)
LEMMA NamesStep ==
  ASSUME ContentTypeOK, NamesGiven, NEW r \in Requests, Receive(r) \/ Proceed(r)
  PROVE  NamesGiven'
<1>0. StoresTypeOK /\ ProcessApiTypeOK /\ held[r] \in Body
  BY DEF ContentTypeOK
<1> DEFINE Given(s) == Active(s) /\ req[s].op = "update" /\ held[s].name = "" =>
                         "emptyId" \in {held[s].xml.collaboration, held[s].xml.process}
<1>1. CASE Receive(r)
  <2>1. PICK id \in Ids, pc \in Pcs, op \in Ops, body \in Body :
          /\ Arrived(r, id, pc, op, body)
          /\ op = "update" /\ body.name = "" =>
               "emptyId" \in {body.xml.collaboration, body.xml.process}
    BY <1>0, <1>1, ReceiveForm
  <2>2. /\ \A t \in Requests \ {r} : req'[t] = req[t] /\ held'[t] = held[t]
        /\ held'[r] = body /\ req'[r].op = op
    BY <1>0, <2>1 DEF Arrived, Carries, ContentTypeOK, ProcessApiTypeOK
  <2> QED
    BY <2>1, <2>2 DEF NamesGiven, Active
<1>2. CASE Proceed(r)
  <2>1. /\ \A t \in Requests \ {r} : req'[t] = req[t] /\ held'[t] = held[t]
        /\ req'[r] # Idle => req'[r].op = req[r].op
        /\ Active(r)
    BY <1>2, Frame
  <2>2. req'[r] # Idle /\ req[r].op = "update" => held'[r] = held[r]
    <3>1. ASSUME Holds(r, held[r]), req'[r] # Idle
          PROVE  held'[r] = held[r]
      BY <1>0, <3>1, HoldsForm
    <3>2. CASE Read(r)
      BY <1>0, <2>1, <3>1, <3>2, ReadForm, HeldAfterRead
    <3> QED
      BY <1>0, <1>2, <3>1, <3>2, PassForm, WriteForm, CompleteForm, EraseForm DEF Proceed
  <2> QED
    BY <2>1, <2>2 DEF NamesGiven, Active
<1> QED
  BY <1>1, <1>2

(***************************************************************************)
(* What is stored may be stored: it was held by a request at its write.    *)
(***************************************************************************)
LEMMA StoredStep ==
  ASSUME ContentTypeOK, WritesKeep, StoredValid,
         NEW r \in Requests, Receive(r) \/ Proceed(r)
  PROVE  StoredValid'
<1>0. StoresTypeOK /\ ProcessApiTypeOK
  BY DEF ContentTypeOK
<1>1. CASE UNCHANGED <<docs, content>>
  BY <1>1 DEF StoredValid, Storable, HasDoc
<1>2. CASE Stored(r) /\ Active(r) /\ req[r].pc = "write"
  <2>1. Storable(held[r])
    BY <1>2 DEF WritesKeep
  <2>2. \A id \in Ids : content'[id] = content[id] \/ content'[id] = held[r]
    BY <1>2 DEF Stored, ContentTypeOK
  <2>3. \A id \in Ids : content'[id] = held[r] \/ docs'[id] = docs[id]
    BY <1>2 DEF Stored, ContentTypeOK, StoresTypeOK
  <2>4. \A id \in Ids : HasDoc(id)' => Storable(content'[id])
    <3> SUFFICES ASSUME NEW id \in Ids, HasDoc(id)' PROVE Storable(content'[id])
      OBVIOUS
    <3>1. CASE content'[id] = held[r]
      BY <2>1, <3>1
    <3>2. CASE content'[id] = content[id] /\ docs'[id] = docs[id]
      BY <3>2 DEF StoredValid, HasDoc
    <3> QED
      BY <2>2, <2>3, <3>1, <3>2
  <2> QED
    BY <2>4 DEF StoredValid, Storable
<1>3. CASE Erased(r) /\ Active(r)
  <2>1. \A id \in Ids : docs'[id] = NoDoc \/ (docs'[id] = docs[id] /\ content'[id] = content[id])
    BY <1>3 DEF Erased, ContentTypeOK, StoresTypeOK
  <2> QED
    BY <2>1 DEF StoredValid, Storable, HasDoc
<1> QED
  BY <1>0, <1>1, <1>2, <1>3, ReceiveForm, PassForm, ReadForm, WriteForm, CompleteForm,
     EraseForm
  DEF Proceed, Unstored

(***************************************************************************)
(* Whom a process belongs to, and what it says, is as it was confirmed:    *)
(* the only request at its process has confirmed it, and whoever writes    *)
(* after it keeps the owner, and as a publish the version.                 *)
(***************************************************************************)
LEMMA ConfirmedStep ==
  ASSUME ContentTypeOK, WritesKeep, AloneInPlace, Confirmed,
         NEW r \in Requests, Receive(r) \/ Proceed(r)
  PROVE  Confirmed'
<1>0. StoresTypeOK /\ ProcessApiTypeOK
  BY DEF ContentTypeOK
<1>1. CASE Unstored
  BY <1>1 DEF Unstored, Confirmed, HasDoc
<1> DEFINE Stands(id) == /\ owner[id] # NoOwner => HasDoc(id) /\ docs[id].owner = owner[id]
                         /\ version[id] # None => content[id].version = version[id]
<1>2. (\A id \in Ids : Stands(id)) <=> Confirmed
  BY DEF Confirmed
<1>3. (\A id \in Ids : Stands(id)') => Confirmed'
  BY DEF Confirmed
<1>4. ASSUME Proceed(r), NEW id \in Ids, id # req[r].id
      PROVE  Stands(id)'
  BY <1>2, <1>4, Frame DEF HasDoc
<1>5. CASE Write(r) /\ Stored(r)
  <2>1. /\ Active(r) /\ req[r].pc = "write" /\ req[r].id \in Ids /\ Document(r) \in Doc
    BY <1>0, <1>5, WriteForm, RequestFields, DocumentToWrite
  <2>2. /\ owner[req[r].id] # NoOwner => req[r].owner = owner[req[r].id]
        /\ req[r].op = "publish" /\ version[req[r].id] # None =>
             held[r].version = version[req[r].id]
    BY <2>1 DEF WritesKeep
  <2>3. /\ docs'[req[r].id] = Document(r) /\ content'[req[r].id] = held[r]
        /\ owner' = owner
        /\ req[r].op = "publish" => version' = version
        /\ req[r].op # "publish" => version'[req[r].id] = None
    BY <1>0, <1>5, <2>1 DEF Stored, ContentTypeOK, StoresTypeOK
  <2>4. Document(r).owner = req[r].owner
    BY <1>0, <2>1, DocumentWritten DEF ContentTypeOK
  <2>5. \A id \in Ids : id = req[r].id => Stands(id)'
    BY <2>1, <2>2, <2>3, <2>4, StoresAssumption DEF HasDoc
  <2> QED
    BY <1>3, <1>4, <1>5, <2>5 DEF Proceed
<1>6. CASE Complete(r) /\ Confirms(r)
  <2>1. /\ Active(r) /\ req[r].id \in Ids /\ req[r].pc \in {"lookup", "grant"}
        /\ UNCHANGED <<docs, content>>
    BY <1>0, <1>6, CompleteForm, RequestFields
  <2>2. /\ HasDoc(req[r].id)
        /\ req[r].op # "publish" => content[req[r].id].version = held[r].version
    BY <1>6, <2>1 DEF Confirms, AloneInPlace
  <2>3. /\ owner'[req[r].id] = docs[req[r].id].owner
        /\ version'[req[r].id] = IF req[r].op = "publish" THEN version[req[r].id]
                                 ELSE held[r].version
    BY <1>0, <1>6, <2>1 DEF Confirms, ContentTypeOK
  <2>4. \A id \in Ids : id = req[r].id => Stands(id)'
    BY <1>2, <2>1, <2>2, <2>3 DEF HasDoc
  <2> QED
    BY <1>3, <1>4, <1>6, <2>4 DEF Proceed
<1>7. CASE Erase(r) /\ Erased(r)
  <2>1. req[r].id \in Ids
    BY <1>0, <1>7, EraseForm, RequestFields
  <2>2. owner'[req[r].id] = NoOwner /\ version'[req[r].id] = None
    BY <1>0, <1>7, <2>1 DEF Erased, ContentTypeOK
  <2> QED
    BY <1>3, <1>4, <1>7, <2>2 DEF Proceed
<1> QED
  BY <1>0, <1>1, <1>5, <1>6, <1>7, ReceiveForm, PassForm, ReadForm, WriteForm,
     CompleteForm, EraseForm
  DEF Proceed, Unstored


(***************************************************************************)
(* Which requests read.                                                    *)
(***************************************************************************)
LEMMA ReadingStep ==
  ASSUME ContentTypeOK, Reading, NEW r \in Requests, Receive(r) \/ Proceed(r)
  PROVE  Reading'
<1>0. StoresTypeOK /\ ProcessApiTypeOK
  BY DEF ContentTypeOK
<1>1. CASE Receive(r)
  <2>1. PICK id \in Ids, pc \in Pcs, op \in Ops, body \in Body :
          /\ Arrived(r, id, pc, op, body)
          /\ pc \in {"check", "read"} => op # "create"
          /\ pc = "read" => op # "delete"
    BY <1>0, <1>1, ReceiveForm
  <2>2. /\ \A t \in Requests \ {r} : req'[t] = req[t]
        /\ req'[r].pc = pc /\ req'[r].op = op
    BY <1>0, <2>1 DEF Arrived, ProcessApiTypeOK
  <2> QED
    BY <2>1, <2>2 DEF Reading, Active, Ops
<1>2. CASE Proceed(r)
  <2>1. /\ Active(r)
        /\ \A t \in Requests \ {r} : req'[t] = req[t]
        /\ req'[r] # Idle => req'[r].op = req[r].op
    BY <1>2, Frame
  <2>2. \/ req'[r] = Idle
        \/ req'[r].pc \notin {"check", "read"}
        \/ req'[r].pc = "read" /\ req[r].pc = "check" /\ req[r].op # "delete"
    BY <1>0, <1>2, PassForm, ReadForm, WriteForm, CompleteForm, EraseForm
    DEF Proceed, Moved
  <2>3. req[r].op \in Ops
    BY <1>0, <2>1, RequestFields
  <2> QED
    BY <2>1, <2>2, <2>3 DEF Reading, Active, Ops
<1> QED
  BY <1>1, <1>2

(***************************************************************************)
(* A request that gets to its write may store what it holds, and keeps     *)
(* what was confirmed; nobody confirms anything while another request is   *)
(* at the same process.                                                    *)
(***************************************************************************)
LEMMA WritesStep ==
  ASSUME ContentInv, NEW r \in Requests, Receive(r) \/ Proceed(r)
  PROVE  WritesKeep'
<1>0. /\ ContentTypeOK /\ StoresTypeOK /\ ProcessApiTypeOK
      /\ WritesKeep /\ NamesGiven /\ Reading /\ AloneInPlace /\ StoredValid /\ Confirmed
  BY DEF ContentInv, ContentTypeOK
<1> DEFINE Keeps(s) == \A id \in Ids : id = req[s].id =>
                         /\ owner[id] # NoOwner => req[s].owner = owner[id]
                         /\ req[s].op = "publish" /\ version[id] # None =>
                              held[s].version = version[id]
<1>1. \A s \in Requests : Active(s) /\ req[s].pc = "write" =>
        Storable(held[s]) /\ Keeps(s)
  BY <1>0 DEF WritesKeep
<1>2. SUFFICES ASSUME NEW s \in Requests, Active(s)', req'[s].pc = "write"
               PROVE  Storable(held'[s]) /\ Keeps(s)'
  <2>1. ContentTypeOK'
    BY <1>0, ContentTypes
  <2>2. \A s \in Requests : Active(s)' => req'[s].id \in Ids
    BY <2>1 DEF ContentTypeOK, ProcessApiTypeOK, Running, Active
  <2> QED
    BY <2>2 DEF WritesKeep, Storable
<1>3. CASE Receive(r)
  <2>1. PICK id \in Ids, pc \in Pcs, op \in Ops, body \in Body :
          /\ Arrived(r, id, pc, op, body)
          /\ pc = "write" => op = "create" /\ ~HasDoc(id) /\ Storable(body)
    BY <1>0, <1>3, ReceiveForm
  <2>2. /\ \A t \in Requests \ {r} : req'[t] = req[t] /\ held'[t] = held[t]
        /\ held'[r] = body /\ req'[r].op = op /\ req'[r].pc = pc /\ req'[r].id = id
    BY <1>0, <2>1 DEF Arrived, Carries, ContentTypeOK, ProcessApiTypeOK
  <2>3. UNCHANGED <<version, owner>>
    BY <1>0, <1>3, ReceiveForm DEF Unstored
  <2>4. CASE s = r
    BY <1>0, <1>2, <2>1, <2>2, <2>3, <2>4 DEF Confirmed
  <2>5. CASE s # r
    BY <1>1, <1>2, <2>2, <2>3, <2>5 DEF Active
  <2> QED
    BY <2>4, <2>5
<1>4. CASE Proceed(r)
  <2>1. /\ Active(r) /\ req[r].id \in Ids
        /\ \A t \in Requests \ {r} : req'[t] = req[t] /\ held'[t] = held[t]
        /\ req'[r] # Idle => req'[r].id = req[r].id /\ req'[r].op = req[r].op
        /\ \A id \in Ids \ {req[r].id} : version'[id] = version[id] /\ owner'[id] = owner[id]
    BY <1>0, <1>4, Frame
  <2>2. CASE s # r
    <3>1. Active(s) /\ req[s].pc = "write" /\ req'[s] = req[s] /\ held'[s] = held[s]
      BY <1>2, <2>1, <2>2 DEF Active
    <3>2. CASE req[s].id # req[r].id
      BY <1>1, <2>1, <3>1, <3>2
    <3>3. CASE req[s].id = req[r].id
      <4>1. r \in overlapped
        BY <1>0, <2>1, <2>2, <3>1, <3>3 DEF AloneInPlace, Others
      <4>2. /\ owner'[req[r].id] \in {NoOwner, owner[req[r].id]}
            /\ version'[req[r].id] \in {None, version[req[r].id]}
        <5>1. ~Confirms(r)
          BY <4>1 DEF Confirms
        <5>2. Unstored \/ Stored(r) \/ Erased(r) \/ UNCHANGED <<version, owner>>
          BY <1>0, <1>4, <5>1, PassForm, ReadForm, WriteForm, CompleteForm, EraseForm
          DEF Proceed
        <5> QED
          BY <1>0, <2>1, <5>2 DEF Unstored, Stored, Erased, ContentTypeOK
      <4> QED
        BY <1>1, <2>1, <3>1, <3>3, <4>2
    <3> QED
      BY <3>2, <3>3
  <2>3. CASE s = r
    <3>1. Read(r)
      BY <1>0, <1>2, <1>4, <2>3, PassForm, WriteForm, CompleteForm, EraseForm
      DEF Proceed, Moved, Active
    <3>2. /\ Moved(r, "write", OwnerAfterRead(r)) /\ req[r].pc = "read"
          /\ HasDoc(req[r].id) \/ req[r].op = "update"
          /\ ~Rejected(r) /\ Unstored /\ Holds(r, AfterRead(r))
      BY <1>0, <1>2, <2>3, <3>1, ReadForm DEF Active
    <3>3. AfterRead(r) \in Body /\ held'[r] = AfterRead(r)
      BY <1>0, <1>2, <2>1, <2>3, <3>2, HeldAfterRead, HoldsForm DEF Active
    <3>4. req[r].op \in {"update", "publish"}
      BY <1>0, <2>1, <3>2 DEF Reading
    <3>5. Storable(AfterRead(r))
      <4>1. CASE req[r].op = "update"
        BY <1>0, <2>1, <3>2, <4>1, HeldAfterRead, ValidStorable DEF Rejected, NamesGiven
      <4>2. CASE req[r].op = "publish"
        <5>1. Storable(content[req[r].id])
          BY <1>0, <2>1, <3>2, <4>2 DEF StoredValid
        <5> QED
          BY <1>0, <2>1, <4>2, <5>1, HeldAfterRead DEF Storable
      <4> QED
        BY <3>4, <4>1, <4>2
    <3>6. /\ owner[req[r].id] # NoOwner => OwnerAfterRead(r) = owner[req[r].id]
          /\ req[r].op = "publish" /\ version[req[r].id] # None =>
               AfterRead(r).version = version[req[r].id]
      BY <1>0, <2>1, HeldAfterRead DEF Confirmed, OwnerAfterRead
    <3>7. Keeps(r)'
      BY <2>1, <3>2, <3>3, <3>6 DEF Moved, Unstored
    <3> QED
      BY <2>3, <3>3, <3>5, <3>7 DEF Storable
  <2> QED
    BY <2>2, <2>3
<1> QED
  BY <1>3, <1>4

-----------------------------------------------------------------------------
(***************************************************************************)
(* At the start nothing was confirmed, and what is stored is old.          *)
(***************************************************************************)
LEMMA ContentStart == ContentInit => ContentInv
<1> SUFFICES ASSUME ContentInit PROVE ContentInv
  OBVIOUS
<1>1. StoresTypeOK /\ ProcessApiTypeOK
  BY StoresAssumption, FullAccessType
  DEF ContentInit, ProcessApiInit, StoresTypeOK, ProcessApiTypeOK, Doc, NoStamp,
      Stamped, Active, Idle
<1>2. \A r \in Requests : ~Active(r)
  BY DEF ContentInit, ProcessApiInit, Active
<1>3. ContentTypeOK
  BY <1>1, ProcessContentAssumption DEF ContentInit, ContentTypeOK, None
<1>4. StoredValid
  BY ProcessContentAssumption DEF ContentInit, StoredValid, Storable
<1> QED
  BY <1>2, <1>3, <1>4
  DEF ContentInit, ContentInv, WritesKeep, NamesGiven, Reading, AloneInPlace, Confirmed

(***************************************************************************)
(* The invariant holds throughout.                                         *)
(***************************************************************************)
THEOREM ContentInvariance == ContentSpec => []ContentInv
<1>1. ContentInv /\ [ContentNext]_contentVars => ContentInv'
  <2> SUFFICES ASSUME ContentInv, [ContentNext]_contentVars
               PROVE  ContentInv'
    OBVIOUS
  <2>1. ASSUME NEW r \in Requests, Receive(r) \/ Proceed(r)
        PROVE  ContentInv'
    BY <2>1, ContentTypes, WritesStep, NamesStep, ReadingStep, AloneStep, StoredStep,
       ConfirmedStep
    DEF ContentInv
  <2>2. CASE UNCHANGED contentVars
    <3>1. UNCHANGED <<docs, perms, now, faults, released, acked, req, content,
                      held, overlapped, version, owner>>
      BY <2>2 DEF contentVars, storeVars
    <3>2. ContentTypeOK'
      BY <3>1 DEF ContentInv, ContentTypeOK, StoresTypeOK, ProcessApiTypeOK,
                  Stamped, Active
    <3>3. WritesKeep' /\ NamesGiven' /\ StoredValid'
      BY <3>1, Zenon DEF ContentInv, WritesKeep, NamesGiven, StoredValid, Storable,
                         Active, HasDoc
    <3>4. Reading' /\ AloneInPlace' /\ Confirmed'
      BY <3>1 DEF ContentInv, Reading, AloneInPlace, Others, Confirmed, Active, HasDoc
    <3> QED
      BY <3>2, <3>3, <3>4 DEF ContentInv
  <2> QED
    BY <2>1, <2>2 DEF ContentNext
<1> QED
  BY <1>1, ContentStart, PTL DEF ContentSpec

(***************************************************************************)
(* What the service stores has a process with an id, and a name, on every  *)
(* path: created, updated, and published again.                            *)
(***************************************************************************)
THEOREM StoredValidHolds == ContentSpec => []StoredValid
<1>1. ContentInv => StoredValid
  BY DEF ContentInv
<1> QED
  BY <1>1, ContentInvariance, PTL

(***************************************************************************)
(* A confirmed update that was alone with its process is there until the   *)
(* next one, whatever is published or fails meanwhile.                     *)
(***************************************************************************)
THEOREM UpdateStandsHolds == ContentSpec => []UpdateStands
<1>1. ContentInv => UpdateStands
  BY DEF ContentInv, Confirmed, UpdateStands
<1> QED
  BY <1>1, ContentInvariance, PTL

(***************************************************************************)
(* A process that was taken over keeps its owner.                          *)
(***************************************************************************)
THEOREM OwnerStandsHolds == ContentSpec => []OwnerStands
<1>1. ContentInv => OwnerStands
  BY DEF ContentInv, Confirmed, OwnerStands
<1> QED
  BY <1>1, ContentInvariance, PTL
=============================================================================
