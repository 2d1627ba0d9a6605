---------------------- MODULE ProcessRepository_proofs ----------------------
(***************************************************************************)
(* Proofs about ProcessRepository, for every set of ids, users and         *)
(* requests and every length of the buffer.                                *)
(***************************************************************************)
EXTENDS ProcessRepository, ProcessApi_proofs

USE DEF Active, Creating, Unfinished, HasDoc, HasResource, NoStamp, NoScan

(***************************************************************************)
(* A request in flight has the fields of a request.                        *)
(***************************************************************************)
LEMMA RunningFields ==
  ASSUME TypeOK, NEW r \in Requests, Active(r)
  PROVE  /\ req[r] \in Running
         /\ req[r].pc \in Pcs /\ req[r].op \in Ops
         /\ req[r].user \in Users /\ req[r].id \in Ids
         /\ req[r].owner \in Users \cup {NoOwner} /\ req[r].stamp \in Nat
BY RequestFields DEF TypeOK

(***************************************************************************)
(* A request at a label is in flight.                                      *)
(***************************************************************************)
LEMMA AtLabel ==
  ASSUME TypeOK, NEW r \in Requests, req[r].pc \in Pcs
  PROVE  Active(r)
BY RequestAtLabel DEF TypeOK

(***************************************************************************)
(* What a request writes is a document.                                    *)
(***************************************************************************)
LEMMA DocumentType ==
  ASSUME TypeOK, NEW r \in Requests, Active(r)
  PROVE  Document(r) \in Doc
BY DocumentToWrite DEF TypeOK

(***************************************************************************)
(* The stores, requests and cleanup start with the types they keep.        *)
(***************************************************************************)
LEMMA InitType == Init => TypeOK
BY StoresAssumption, FullAccessType
   DEF Init, StoresInit, ProcessApiInit, CleanupInit, TypeOK, StoresTypeOK,
       ProcessApiTypeOK, CleanupTypeOK, Doc, Scan, Stamped, Idle

(***************************************************************************)
(* Every call of a write request keeps the types.                          *)
(***************************************************************************)
LEMMA RequestType ==
  ASSUME TypeOK, NEW r \in Requests, Request(r)
  PROVE  TypeOK'
<1>1. StoresTypeOK' /\ ProcessApiTypeOK'
  BY ArriveType, ServeType DEF Request, TypeOK
<1>2. UNCHANGED <<now, cleaner>>
  BY DEF Request, Arrive, CreateProcess, UpdateProcess, UpdateProcessPublic,
         DeleteProcess, Begin, Serve, Check, ReadProcess, SetDoc, GetResource,
         SetRights, Rollback, RemovePerms, EraseDoc, storeVars
<1> QED
  BY <1>1, <1>2 DEF TypeOK, CleanupTypeOK

(***************************************************************************)
(* What is left of a scan is a scan without a clock reading.               *)
(***************************************************************************)
LEMMA RestType ==
  \A noDoc, noPerm \in SUBSET Ids :
    Rest(noDoc, noPerm) \in Scan /\ Rest(noDoc, noPerm).at = 0
BY DEF Rest, Scan

(***************************************************************************)
(* Every call of the cleanup loop keeps the types.                         *)
(***************************************************************************)
LEMMA CleanType ==
  ASSUME TypeOK, Clean
  PROVE  TypeOK'
<1> SUFFICES StoresTypeOK' /\ CleanupTypeOK'
  BY DEF TypeOK, ProcessApiTypeOK, Clean, CleanupStep, ListResources,
         ListDocs, ListOrphans, CleanResource, CleanDoc, Stamped
<1> USE StoresAssumption
    DEF TypeOK, StoresTypeOK, CleanupTypeOK, Answers, Fails
<1>0. /\ NoScan \in Scan /\ NoScan.at = 0
      /\ cleaner.ids \in SUBSET Ids /\ cleaner.noDoc \in SUBSET Ids
      /\ cleaner.noPerm \in SUBSET Ids /\ cleaner.at \in Nat
  BY DEF Scan
<1>1. CASE ListResources
  BY <1>1, <1>0 DEF ListResources, AdminListResourceIds, GiveUp, Scan
<1>2. CASE ListDocs
  BY <1>2, <1>0 DEF ListDocs, MissingInDb, GiveUp, Scan
<1>3. CASE ListOrphans
  <2>1. MissingInInput(cleaner.ids, cleaner.at) \in SUBSET Ids
    BY DEF MissingInInput
  <2>2. /\ Rest(cleaner.noDoc, MissingInInput(cleaner.ids, cleaner.at)) \in Scan
        /\ Rest(cleaner.noDoc, MissingInInput(cleaner.ids, cleaner.at)).at = 0
    BY <1>0, <2>1, RestType
  <2>3. cleaner' \in Scan /\ cleaner'.at = 0
    BY <1>3, <1>0, <2>2 DEF ListOrphans, GiveUp
  <2> QED
    BY <1>3, <2>3 DEF ListOrphans
<1>4. ASSUME NEW id \in Ids, CleanResource(id)
      PROVE  StoresTypeOK' /\ CleanupTypeOK'
  <2>1. /\ Rest(cleaner.noDoc \ {id}, cleaner.noPerm) \in Scan
        /\ Rest(cleaner.noDoc \ {id}, cleaner.noPerm).at = 0
    BY <1>0, RestType, cleaner.noDoc \ {id} \in SUBSET Ids
  <2>2. cleaner' \in Scan /\ cleaner'.at = 0
    BY <1>4, <1>0, <2>1 DEF CleanResource, GiveUp
  <2> QED
    BY <1>4, <2>2 DEF CleanResource, RemoveResource
<1>5. ASSUME NEW id \in Ids, CleanDoc(id)
      PROVE  StoresTypeOK' /\ CleanupTypeOK'
  <2>1. cleaner' \in Scan /\ cleaner'.at = 0
    BY <1>5, <1>0, RestType, cleaner.noPerm \ {id} \in SUBSET Ids,
       {} \in SUBSET Ids
    DEF CleanDoc, GiveUp
  <2> QED
    BY <1>5, <2>1 DEF CleanDoc, DbDeleteProcess
<1> QED
  BY <1>1, <1>2, <1>3, <1>4, <1>5 DEF Clean, CleanupStep

(***************************************************************************)
(* Sharing a process in permissions-v2 keeps the types.                    *)
(***************************************************************************)
LEMMA ShareType ==
  ASSUME TypeOK, NEW id \in Ids, NEW u \in Users, Share(id, u)
  PROVE  TypeOK'
<1>1. perms[id] \in Resource
  BY DEF Share, TypeOK, StoresTypeOK
<1>2. [perms[id] EXCEPT ![u] = @ \cup {"r", "w"}] \in Resource
  BY <1>1 DEF Resource, Rights
<1> QED
  BY <1>2 DEF Share, TypeOK, StoresTypeOK, ProcessApiTypeOK, CleanupTypeOK, Stamped

(***************************************************************************)
(* Every step keeps the types.                                             *)
(***************************************************************************)
LEMMA NextType == TypeOK /\ [Next]_vars => TypeOK'
<1> SUFFICES ASSUME TypeOK, [Next]_vars PROVE TypeOK'
  OBVIOUS
<1> USE DEF TypeOK, StoresTypeOK, ProcessApiTypeOK, CleanupTypeOK, Stamped
<1>1. CASE Crash
  <2>1. NoScan \in Scan /\ NoScan.at = 0
    BY DEF Scan
  <2> QED
    BY <1>1, <2>1, StoresAssumption DEF Crash, Fails, Idle
<1>2. CASE Tick
  <2>1. StoresTypeOK'
    BY <1>2 DEF Tick
  <2>2. ProcessApiTypeOK'
    BY <1>2 DEF Tick
  <2>3. CleanupTypeOK'
    BY <1>2 DEF Tick, Scan
  <2> QED
    BY <2>1, <2>2, <2>3
<1>3. CASE UNCHANGED vars
  BY <1>3 DEF vars, storeVars
<1> QED
  BY <1>1, <1>2, <1>3, RequestType, CleanType, ShareType DEF Next

(***************************************************************************)
(* The variables keep their types.                                         *)
(***************************************************************************)
THEOREM TypeCorrect == Spec => []TypeOK
BY InitType, NextType, PTL DEF Spec
-----------------------------------------------------------------------------
(***************************************************************************)
(* Sharing a process neither makes nor removes a resource, and takes no    *)
(* right away.                                                             *)
(***************************************************************************)
LEMMA ShareKeeps ==
  ASSUME TypeOK, NEW id \in Ids, NEW u \in Users, Share(id, u)
  PROVE  /\ \A i \in Ids : HasResource(i)' <=> HasResource(i)
         /\ \A i \in Ids, v \in Users :
              HasResource(i) => perms[i][v] \subseteq perms'[i][v]
<1> DEFINE wider == [perms[id] EXCEPT ![u] = @ \cup {"r", "w"}]
<1>1. perms[id] \in Resource
  BY DEF Share, TypeOK, StoresTypeOK
<1>2. wider \in Resource /\ \A v \in Users : perms[id][v] \subseteq wider[v]
  BY <1>1 DEF Resource, Rights
<1>3. perms' = [perms EXCEPT ![id] = wider]
  BY DEF Share
<1>4. \A i \in Ids : perms'[i] = IF i = id THEN wider ELSE perms[i]
  BY <1>3 DEF TypeOK, StoresTypeOK
<1> HIDE DEF wider
<1>5. HasResource(id) /\ wider # NoResource
  BY <1>1, <1>2, StoresAssumption
<1> QED
  BY <1>2, <1>4, <1>5

(***************************************************************************)
(* Whatever puts a request at a label that erases a process, or gives a    *)
(* right back, has released the process.                                   *)
(***************************************************************************)
LEMMA LabelsNext ==
  ASSUME IndInv, TypeOK', [Next]_vars
  PROVE  Labels'
<1> USE RunningFields, AtLabel, FullAccessType, DocumentType,
        StoresAssumption, ProcessRepositoryAssumption
    DEF IndInv, TypeOK, StoresTypeOK, ProcessApiTypeOK, CleanupTypeOK,
        Running, Pcs, Ops, Idle, Answers, Fails, storeVars, Labels
<1>1. CASE UNCHANGED <<req, released>>
  BY <1>1
<1>2. ASSUME NEW r \in Requests, NEW u \in Users, NEW id \in Ids,
             CreateProcess(r, u, id), UNCHANGED cleaner
      PROVE  Labels'
  BY <1>2 DEF CreateProcess, Fresh
<1>3. ASSUME NEW r \in Requests, NEW u \in Users, NEW id \in Ids,
             NEW op \in {"update", "publish", "delete"},
             Begin(r, op, u, id), UNCHANGED cleaner
      PROVE  Labels'
  BY <1>3 DEF Begin, FirstCall, Unheard
<1>4. ASSUME NEW r \in Requests, Check(r), UNCHANGED cleaner
      PROVE  Labels'
  BY <1>4 DEF Check, FirstCall, Goto, Finish
<1>5. ASSUME NEW r \in Requests, ReadProcess(r), UNCHANGED cleaner
      PROVE  Labels'
  BY <1>5 DEF ReadProcess, Finish
<1>6. ASSUME NEW r \in Requests, SetDoc(r), UNCHANGED cleaner
      PROVE  Labels'
  BY <1>6, DocumentWritten DEF SetDoc, ReleaseIf, Abort, Goto, Finish
<1>7. ASSUME NEW r \in Requests, GetResource(r), UNCHANGED cleaner
      PROVE  Labels'
  BY <1>7 DEF GetResource, Confirm, ReleaseIf, Abort, Goto, Finish
<1>8. ASSUME NEW r \in Requests, SetRights(r), UNCHANGED cleaner
      PROVE  Labels'
  BY <1>8
     DEF SetRights, SetPermission, Confirm, ReleaseIf, Abort, Goto, Finish
<1>9. ASSUME NEW r \in Requests, Rollback(r), UNCHANGED cleaner
      PROVE  Labels'
  BY <1>9 DEF Rollback, DbDeleteProcess, Finish
<1>10. ASSUME NEW r \in Requests, RemovePerms(r), UNCHANGED cleaner
      PROVE  Labels'
  BY <1>10 DEF RemovePerms, RemoveResource, Release, Goto, Finish
<1>11. ASSUME NEW r \in Requests, EraseDoc(r), UNCHANGED cleaner
      PROVE  Labels'
  BY <1>11 DEF EraseDoc, DbDeleteProcess, Finish
<1>12. CASE Crash
  BY <1>12 DEF Crash
<1> QED
  BY <1>1, <1>2, <1>3, <1>4, <1>5, <1>6, <1>7, <1>8, <1>9, <1>10, <1>11,
     <1>12
     DEF Next, Request, Arrive, Serve, UpdateProcess, UpdateProcessPublic,
         DeleteProcess, Clean, CleanupStep, ListResources, ListDocs,
         ListOrphans, CleanResource, CleanDoc, Share, Tick, vars

(***************************************************************************)
(* A confirmed process stays in both stores: a delete, a rollback and the  *)
(* cleanup remove halves of released processes only.                       *)
(***************************************************************************)
LEMMA DurabilityNext ==
  ASSUME IndInv, TypeOK', [Next]_vars
  PROVE  Durability'
<1> USE RunningFields, AtLabel, FullAccessType, DocumentType,
        StoresAssumption, ProcessRepositoryAssumption
    DEF IndInv, TypeOK, StoresTypeOK, ProcessApiTypeOK, CleanupTypeOK,
        Running, Pcs, Ops, Idle, Answers, Fails, storeVars, Durability,
        Intact, ResourceHasDoc, Labels, CreateExclusive, ScanSound, Owed
<1>1. CASE UNCHANGED <<docs, perms, released, acked>>
  BY <1>1
<1>2. ASSUME NEW r \in Requests, SetDoc(r), UNCHANGED cleaner
      PROVE  Durability'
  BY <1>2, DocumentWritten DEF SetDoc, ReleaseIf, Abort, Goto, Finish
<1>3. ASSUME NEW r \in Requests, GetResource(r), UNCHANGED cleaner
      PROVE  Durability'
  BY <1>3 DEF GetResource, Confirm, ReleaseIf, Abort, Goto, Finish
<1>4. ASSUME NEW r \in Requests, SetRights(r), UNCHANGED cleaner
      PROVE  Durability'
  BY <1>4
     DEF SetRights, SetPermission, Confirm, ReleaseIf, Abort, Goto, Finish
<1>5. ASSUME NEW r \in Requests, Rollback(r), UNCHANGED cleaner
      PROVE  Durability'
  BY <1>5 DEF Rollback, DbDeleteProcess, Finish
<1>6. ASSUME NEW r \in Requests, RemovePerms(r), UNCHANGED cleaner
      PROVE  Durability'
  BY <1>6 DEF RemovePerms, RemoveResource, Release, Goto, Finish
<1>7. ASSUME NEW r \in Requests, EraseDoc(r), UNCHANGED cleaner
      PROVE  Durability'
  BY <1>7 DEF EraseDoc, DbDeleteProcess, Finish
<1>8. ASSUME NEW id \in Ids, CleanResource(id), UNCHANGED req
      PROVE  Durability'
  BY <1>8 DEF CleanResource, RemoveResource, Rest, GiveUp
<1>9. ASSUME NEW id \in Ids, CleanDoc(id), UNCHANGED req
      PROVE  Durability'
  BY <1>9 DEF CleanDoc, DbDeleteProcess, Rest, GiveUp
<1>10. ASSUME NEW id \in Ids, NEW u \in Users, Share(id, u)
      PROVE  Durability'
  BY <1>10, ShareKeeps DEF Share
<1> QED
  BY <1>1, <1>2, <1>3, <1>4, <1>5, <1>6, <1>7, <1>8, <1>9, <1>10
     DEF Next, Request, Arrive, Serve, UpdateProcess, UpdateProcessPublic,
         DeleteProcess, Clean, CleanupStep, CreateProcess, Begin, Check,
         ReadProcess, ListResources, ListDocs, ListOrphans, Crash, Tick, vars

(***************************************************************************)
(* No step leaves the rights of a process without its document.            *)
(***************************************************************************)
LEMMA ResourceHasDocNext ==
  ASSUME IndInv, TypeOK', [Next]_vars
  PROVE  ResourceHasDoc'
<1> USE RunningFields, AtLabel, FullAccessType, DocumentType,
        StoresAssumption, ProcessRepositoryAssumption
    DEF IndInv, TypeOK, StoresTypeOK, ProcessApiTypeOK, CleanupTypeOK,
        Running, Pcs, Ops, Idle, Answers, Fails, storeVars, ResourceHasDoc,
        Labels, CreateExclusive, ScanSound, Owed
<1>1. CASE UNCHANGED <<docs, perms, released>>
  BY <1>1
<1>2. ASSUME NEW r \in Requests, SetDoc(r), UNCHANGED cleaner
      PROVE  ResourceHasDoc'
  BY <1>2, DocumentWritten DEF SetDoc, ReleaseIf, Abort, Goto, Finish
<1>3. ASSUME NEW r \in Requests, GetResource(r), UNCHANGED cleaner
      PROVE  ResourceHasDoc'
  BY <1>3 DEF GetResource, Confirm, ReleaseIf, Abort, Goto, Finish
<1>4. ASSUME NEW r \in Requests, SetRights(r), UNCHANGED cleaner
      PROVE  ResourceHasDoc'
  BY <1>4
     DEF SetRights, SetPermission, Confirm, ReleaseIf, Abort, Goto, Finish
<1>5. ASSUME NEW r \in Requests, Rollback(r), UNCHANGED cleaner
      PROVE  ResourceHasDoc'
  BY <1>5 DEF Rollback, DbDeleteProcess, Finish
<1>6. ASSUME NEW r \in Requests, RemovePerms(r), UNCHANGED cleaner
      PROVE  ResourceHasDoc'
  BY <1>6 DEF RemovePerms, RemoveResource, Release, Goto, Finish
<1>7. ASSUME NEW r \in Requests, EraseDoc(r), UNCHANGED cleaner
      PROVE  ResourceHasDoc'
  BY <1>7 DEF EraseDoc, DbDeleteProcess, Finish
<1>8. ASSUME NEW id \in Ids, CleanResource(id), UNCHANGED req
      PROVE  ResourceHasDoc'
  BY <1>8 DEF CleanResource, RemoveResource, Rest, GiveUp
<1>9. ASSUME NEW id \in Ids, CleanDoc(id), UNCHANGED req
      PROVE  ResourceHasDoc'
  BY <1>9 DEF CleanDoc, DbDeleteProcess, Rest, GiveUp
<1>10. ASSUME NEW id \in Ids, NEW u \in Users, Share(id, u)
      PROVE  ResourceHasDoc'
  BY <1>10, ShareKeeps DEF Share
<1> QED
  BY <1>1, <1>2, <1>3, <1>4, <1>5, <1>6, <1>7, <1>8, <1>9, <1>10
     DEF Next, Request, Arrive, Serve, UpdateProcess, UpdateProcessPublic,
         DeleteProcess, Clean, CleanupStep, CreateProcess, Begin, Check,
         ReadProcess, ListResources, ListDocs, ListOrphans, Crash, Tick, vars

(***************************************************************************)
(* A create keeps its id to itself until its document is stored, and no    *)
(* later write carries an older stamp.                                     *)
(***************************************************************************)
LEMMA CreateExclusiveNext ==
  ASSUME IndInv, TypeOK', [Next]_vars
  PROVE  CreateExclusive'
<1> USE RunningFields, AtLabel, FullAccessType, DocumentType,
        StoresAssumption, ProcessRepositoryAssumption
    DEF IndInv, TypeOK, StoresTypeOK, ProcessApiTypeOK, CleanupTypeOK,
        Running, Pcs, Ops, Idle, Answers, Fails, storeVars, Labels,
        CreateExclusive, ScanSound, Owed, Writing, Stamped, Doc
<1>1. CASE UNCHANGED <<docs, perms, now, released, req>>
  BY <1>1
<1>2. ASSUME NEW r \in Requests, NEW u \in Users, NEW id \in Ids,
             CreateProcess(r, u, id), UNCHANGED cleaner
      PROVE  CreateExclusive'
  BY <1>2 DEF CreateProcess, Fresh
<1>3. ASSUME NEW r \in Requests, NEW u \in Users, NEW id \in Ids,
             NEW op \in {"update", "publish", "delete"},
             Begin(r, op, u, id), UNCHANGED cleaner
      PROVE  CreateExclusive'
  BY <1>3 DEF Begin, FirstCall, Unheard
<1>4. ASSUME NEW r \in Requests, Check(r), UNCHANGED cleaner
      PROVE  CreateExclusive'
  BY <1>4 DEF Check, FirstCall, Goto, Finish
<1>5. ASSUME NEW r \in Requests, ReadProcess(r), UNCHANGED cleaner
      PROVE  CreateExclusive'
  <2>1. /\ Active(r) /\ ~Creating(r) /\ req[r].pc = "read"
        /\ \A q \in Requests : q # r => req'[q] = req[q]
        /\ Active(r)' => /\ req'[r].id = req[r].id /\ req'[r].op = req[r].op
                          /\ req'[r].stamp = now
        /\ UNCHANGED <<docs, perms, now, released>>
    BY <1>5 DEF ReadProcess, Finish
  <2>2. \A c \in Requests : Unfinished(c) => req[c].stamp <= now
    OBVIOUS
  <2> QED
    BY <2>1, <2>2
<1>6. ASSUME NEW r \in Requests, SetDoc(r), UNCHANGED cleaner
      PROVE  CreateExclusive'
  <2>1. /\ Active(r) /\ req[r].pc = "write" /\ req[r].id \in Ids
        /\ \A q \in Requests : q # r => req'[q] = req[q]
        /\ Active(r)' => req'[r] = [req[r] EXCEPT !.pc = req'[r].pc]
        /\ Active(r)' => req'[r].pc \in {"lookup", "rollback"}
        /\ \A id \in Ids : id # req[r].id => docs'[id] = docs[id]
        /\ docs'[req[r].id] \in {docs[req[r].id], Document(r)}
        /\ Document(r) = [owner |-> req[r].owner, updated |-> req[r].stamp]
        /\ released \subseteq released'
        /\ UNCHANGED <<perms, now>>
    BY <1>6, DocumentWritten DEF SetDoc, ReleaseIf, Abort, Goto, Finish
  <2>2. ASSUME Unfinished(r)'
        PROVE  docs'[req[r].id] = Document(r)
    BY <1>6, <2>1, <2>2, DocumentWritten DEF SetDoc, Abort, Goto, Finish
  <2>3. \A c, q \in Requests :
           Creating(c)' /\ Active(q)' /\ c # q /\ req'[c].id = req'[q].id
             => ~Creating(q)' /\ req'[c].pc # "write"
    BY <2>1
  <2>4. ASSUME NEW c \in Requests, Unfinished(c)'
        PROVE  /\ now' <= req'[c].stamp + RequestTime
               /\ req'[c].id \in Owed' =>
                    /\ ~HasResource(req[c].id)'
                    /\ HasDoc(req[c].id)' <=> req'[c].pc # "write"
                    /\ HasDoc(req[c].id)' =>
                         /\ docs'[req'[c].id].updated >= req'[c].stamp
                         /\ \A q \in Requests : Writing(q, req[c].id)'
                              => req'[q].stamp >= req'[c].stamp
    <3>1. CASE c = r
      BY <2>1, <2>2, <2>4, <3>1
    <3>2. CASE c # r /\ req[c].id # req[r].id
      BY <2>1, <2>4, <3>2
    <3>3. CASE c # r /\ req[c].id = req[r].id
      BY <2>1, <2>4, <3>3
    <3> QED
      BY <3>1, <3>2, <3>3
  <2> QED
    BY <2>3, <2>4
<1>7. ASSUME NEW r \in Requests, GetResource(r), UNCHANGED cleaner
      PROVE  CreateExclusive'
  BY <1>7 DEF GetResource, Confirm, ReleaseIf, Abort, Goto, Finish
<1>8. ASSUME NEW r \in Requests, SetRights(r), UNCHANGED cleaner
      PROVE  CreateExclusive'
  <2>1. /\ Active(r) /\ req[r].pc = "grant" /\ req[r].id \in Ids
        /\ \A q \in Requests : q # r => req'[q] = req[q]
        /\ \A id \in Ids : id # req[r].id => perms'[id] = perms[id]
        /\ released \subseteq released'
        /\ UNCHANGED <<docs, now>>
    BY <1>8 DEF SetRights, SetPermission, Confirm, ReleaseIf, Abort, Finish, Goto
  <2>2. ~Unfinished(r)' /\ (Active(r)' => Creating(r) /\ req'[r].id = req[r].id
                                         /\ req'[r].op = req[r].op
                                         /\ req'[r].pc = "rollback")
    BY <1>8, <2>1 DEF SetRights, Confirm, ReleaseIf, Abort, Finish, Goto
  <2>3. \A c, q \in Requests :
           Creating(c)' /\ Active(q)' /\ c # q /\ req'[c].id = req'[q].id
             => ~Creating(q)' /\ req'[c].pc # "write"
    BY <2>1, <2>2
  <2>4. ASSUME NEW c \in Requests, Unfinished(c)'
        PROVE  /\ now' <= req'[c].stamp + RequestTime
               /\ req'[c].id \in Owed' =>
                    /\ ~HasResource(req[c].id)'
                    /\ HasDoc(req[c].id)' <=> req'[c].pc # "write"
                    /\ HasDoc(req[c].id)' =>
                         /\ docs'[req'[c].id].updated >= req'[c].stamp
                         /\ \A q \in Requests : Writing(q, req[c].id)'
                              => req'[q].stamp >= req'[c].stamp
    <3>1. c # r /\ Unfinished(c) /\ req'[c] = req[c]
      BY <2>1, <2>2, <2>4
    <3>2. \A q \in Requests : Writing(q, req[c].id)' => q # r /\ Writing(q, req[c].id)
      BY <2>1, <2>2, <3>1
    <3>3. req[c].id = req[r].id => req[c].id \in released'
      BY <2>1, <3>1
    <3>4. now <= req[c].stamp + RequestTime
      BY <3>1
    <3>5. ASSUME req[c].id \in Owed'
          PROVE  /\ req[c].id \in Owed /\ req[c].id \in Ids
                 /\ perms'[req[c].id] = perms[req[c].id]
      BY <2>1, <3>1, <3>3, <3>5
    <3> QED
      BY <2>1, <3>1, <3>2, <3>4, <3>5
  <2> QED
    BY <2>3, <2>4
<1>9. ASSUME NEW r \in Requests, Rollback(r), UNCHANGED cleaner
      PROVE  CreateExclusive'
  BY <1>9 DEF Rollback, DbDeleteProcess, Finish
<1>10. ASSUME NEW r \in Requests, RemovePerms(r), UNCHANGED cleaner
      PROVE  CreateExclusive'
  BY <1>10 DEF RemovePerms, RemoveResource, Release, Goto, Finish
<1>11. ASSUME NEW r \in Requests, EraseDoc(r), UNCHANGED cleaner
      PROVE  CreateExclusive'
  BY <1>11 DEF EraseDoc, DbDeleteProcess, Finish
<1>12. ASSUME NEW id \in Ids, CleanResource(id), UNCHANGED req
      PROVE  CreateExclusive'
  BY <1>12 DEF CleanResource, RemoveResource, Rest, GiveUp
<1>13. ASSUME NEW id \in Ids, CleanDoc(id), UNCHANGED req
      PROVE  CreateExclusive'
  BY <1>13 DEF CleanDoc, DbDeleteProcess, Rest, GiveUp
<1>14. ASSUME NEW id \in Ids, NEW u \in Users, Share(id, u)
      PROVE  CreateExclusive'
  BY <1>14, ShareKeeps DEF Share
<1>15. CASE Crash
  BY <1>15 DEF Crash
<1>16. CASE Tick
  BY <1>16 DEF Tick, CreatesInTime, ScansInTime
<1> QED
  BY <1>1, <1>2, <1>3, <1>4, <1>5, <1>6, <1>7, <1>8, <1>9, <1>10, <1>11,
     <1>12, <1>13, <1>14, <1>15, <1>16
     DEF Next, Request, Arrive, Serve, UpdateProcess, UpdateProcessPublic,
         DeleteProcess, Clean, CleanupStep, ListResources, ListDocs,
         ListOrphans, vars

(***************************************************************************)
(* All writes of a document agree on its owner, old.Owner of               *)
(* UpdateProcess.                                                          *)
(***************************************************************************)
LEMMA OwnersAgreeNext ==
  ASSUME IndInv, TypeOK', [Next]_vars
  PROVE  OwnersAgree'
<1> USE RunningFields, AtLabel, FullAccessType, DocumentType,
        StoresAssumption, ProcessRepositoryAssumption
    DEF IndInv, TypeOK, StoresTypeOK, ProcessApiTypeOK, CleanupTypeOK,
        Running, Pcs, Ops, Idle, Answers, Fails, storeVars, Labels,
        CreateExclusive, OwnersAgree, Owed, Writing, OwnerAfterRead, Doc
<1>1. CASE UNCHANGED <<docs, released, req>>
  BY <1>1
<1>2. ASSUME NEW r \in Requests, NEW u \in Users, NEW id \in Ids,
             CreateProcess(r, u, id), UNCHANGED cleaner
      PROVE  OwnersAgree'
  BY <1>2 DEF CreateProcess, Fresh
<1>3. ASSUME NEW r \in Requests, NEW u \in Users, NEW id \in Ids,
             NEW op \in {"update", "publish", "delete"},
             Begin(r, op, u, id), UNCHANGED cleaner
      PROVE  OwnersAgree'
  BY <1>3 DEF Begin, FirstCall, Unheard
<1>4. ASSUME NEW r \in Requests, Check(r), UNCHANGED cleaner
      PROVE  OwnersAgree'
  BY <1>4 DEF Check, FirstCall, Goto, Finish
<1>5. ASSUME NEW r \in Requests, ReadProcess(r), UNCHANGED cleaner
      PROVE  OwnersAgree'
  BY <1>5 DEF ReadProcess, Finish
<1>6. ASSUME NEW r \in Requests, SetDoc(r), UNCHANGED cleaner
      PROVE  OwnersAgree'
  BY <1>6, DocumentWritten DEF SetDoc, ReleaseIf, Abort, Goto, Finish
<1>7. ASSUME NEW r \in Requests, GetResource(r), UNCHANGED cleaner
      PROVE  OwnersAgree'
  BY <1>7 DEF GetResource, Confirm, ReleaseIf, Abort, Goto, Finish
<1>8. ASSUME NEW r \in Requests, SetRights(r), UNCHANGED cleaner
      PROVE  OwnersAgree'
  BY <1>8
     DEF SetRights, SetPermission, Confirm, ReleaseIf, Abort, Goto, Finish
<1>9. ASSUME NEW r \in Requests, Rollback(r), UNCHANGED cleaner
      PROVE  OwnersAgree'
  BY <1>9 DEF Rollback, DbDeleteProcess, Finish
<1>10. ASSUME NEW r \in Requests, RemovePerms(r), UNCHANGED cleaner
      PROVE  OwnersAgree'
  BY <1>10 DEF RemovePerms, RemoveResource, Release, Goto, Finish
<1>11. ASSUME NEW r \in Requests, EraseDoc(r), UNCHANGED cleaner
      PROVE  OwnersAgree'
  BY <1>11 DEF EraseDoc, DbDeleteProcess, Finish
<1>12. ASSUME NEW id \in Ids, CleanDoc(id), UNCHANGED req
      PROVE  OwnersAgree'
  BY <1>12 DEF CleanDoc, DbDeleteProcess, Rest, GiveUp
<1>13. CASE Crash
  BY <1>13 DEF Crash
<1> QED
  BY <1>1, <1>2, <1>3, <1>4, <1>5, <1>6, <1>7, <1>8, <1>9, <1>10, <1>11,
     <1>12, <1>13
     DEF Next, Request, Arrive, Serve, UpdateProcess, UpdateProcessPublic,
         DeleteProcess, Clean, CleanupStep, ListResources, ListDocs,
         ListOrphans, CleanResource, Share, Tick, vars

(***************************************************************************)
(* What CheckIdList found missing is missing, and stays so until the       *)
(* cleanup removes its other half.                                         *)
(***************************************************************************)
LEMMA ScanSoundNext ==
  ASSUME IndInv, TypeOK', [Next]_vars
  PROVE  ScanSound'
<1> USE RunningFields, AtLabel, FullAccessType, DocumentType,
        StoresAssumption, ProcessRepositoryAssumption
    DEF IndInv, TypeOK, StoresTypeOK, ProcessApiTypeOK, CleanupTypeOK,
        Running, Pcs, Ops, Idle, Answers, Fails, storeVars, Labels,
        CreateExclusive, ResourceHasDoc, ScanSound, UnlistedYoung, TooYoung,
        Owed, Scan, Stamped, Doc
<1>1. ASSUME NEW r \in Requests, NEW u \in Users, NEW id \in Ids,
             CreateProcess(r, u, id), UNCHANGED cleaner
      PROVE  ScanSound'
  BY <1>1 DEF CreateProcess, Fresh
<1>2. ASSUME NEW r \in Requests, NEW u \in Users, NEW id \in Ids,
             NEW op \in {"update", "publish", "delete"},
             Begin(r, op, u, id), UNCHANGED cleaner
      PROVE  ScanSound'
  BY <1>2 DEF Begin, FirstCall, Unheard
<1>3. ASSUME NEW r \in Requests, Check(r), UNCHANGED cleaner
      PROVE  ScanSound'
  BY <1>3 DEF Check, FirstCall, Goto, Finish
<1>4. ASSUME NEW r \in Requests, ReadProcess(r), UNCHANGED cleaner
      PROVE  ScanSound'
  BY <1>4 DEF ReadProcess, Finish
<1>5. ASSUME NEW r \in Requests, SetDoc(r), UNCHANGED cleaner
      PROVE  ScanSound'
  BY <1>5, DocumentWritten DEF SetDoc, ReleaseIf, Abort, Goto, Finish
<1>6. ASSUME NEW r \in Requests, GetResource(r), UNCHANGED cleaner
      PROVE  ScanSound'
  BY <1>6 DEF GetResource, Confirm, ReleaseIf, Abort, Goto, Finish
<1>7. ASSUME NEW r \in Requests, SetRights(r), UNCHANGED cleaner
      PROVE  ScanSound'
  BY <1>7
     DEF SetRights, SetPermission, Confirm, ReleaseIf, Abort, Goto, Finish
<1>8. ASSUME NEW r \in Requests, Rollback(r), UNCHANGED cleaner
      PROVE  ScanSound'
  BY <1>8 DEF Rollback, DbDeleteProcess, Finish
<1>9. ASSUME NEW r \in Requests, RemovePerms(r), UNCHANGED cleaner
      PROVE  ScanSound'
  BY <1>9 DEF RemovePerms, RemoveResource, Release, Goto, Finish
<1>10. ASSUME NEW r \in Requests, EraseDoc(r), UNCHANGED cleaner
      PROVE  ScanSound'
  BY <1>10 DEF EraseDoc, DbDeleteProcess, Finish
<1>11. CASE ListResources /\ UNCHANGED req
  BY <1>11 DEF ListResources, AdminListResourceIds, GiveUp
<1>12. CASE ListDocs /\ UNCHANGED req
  BY <1>12 DEF ListDocs, MissingInDb, GiveUp
<1>13. CASE ListOrphans /\ UNCHANGED req
  BY <1>13 DEF ListOrphans, MissingInInput, OldEnough, Rest, GiveUp
<1>14. ASSUME NEW id \in Ids, CleanResource(id), UNCHANGED req
      PROVE  ScanSound'
  BY <1>14 DEF CleanResource, RemoveResource, Rest, GiveUp
<1>15. ASSUME NEW id \in Ids, CleanDoc(id), UNCHANGED req
      PROVE  ScanSound'
  BY <1>15 DEF CleanDoc, DbDeleteProcess, Rest, GiveUp
<1>16. ASSUME NEW id \in Ids, NEW u \in Users, Share(id, u)
      PROVE  ScanSound'
  BY <1>16, ShareKeeps DEF Share
<1>17. CASE Crash
  BY <1>17 DEF Crash
<1>18. CASE Tick
  BY <1>18 DEF Tick, CreatesInTime, ScansInTime
<1>19. CASE UNCHANGED vars
  BY <1>19 DEF vars
<1> QED
  BY <1>1, <1>2, <1>3, <1>4, <1>5, <1>6, <1>7, <1>8, <1>9, <1>10, <1>11,
     <1>12, <1>13, <1>14, <1>15, <1>16, <1>17, <1>18, <1>19
     DEF Next, Request, Arrive, Serve, UpdateProcess, UpdateProcessPublic,
         DeleteProcess, Clean, CleanupStep

(***************************************************************************)
(* A process the list of resources lacks, but which has its rights by now, *)
(* is too young for the cutoff of CheckIdList.                             *)
(***************************************************************************)
LEMMA UnlistedYoungNext ==
  ASSUME IndInv, TypeOK', [Next]_vars
  PROVE  UnlistedYoung'
<1> USE RunningFields, AtLabel, FullAccessType, DocumentType,
        StoresAssumption, ProcessRepositoryAssumption
    DEF IndInv, TypeOK, StoresTypeOK, ProcessApiTypeOK, CleanupTypeOK,
        Running, Pcs, Ops, Idle, Answers, Fails, storeVars, Labels,
        CreateExclusive, ResourceHasDoc, ScanSound, UnlistedYoung, TooYoung,
        Owed, Scan, Writing, Stamped, Doc, Document
<1>1. ASSUME NEW r \in Requests, NEW u \in Users, NEW id \in Ids,
             CreateProcess(r, u, id), UNCHANGED cleaner
      PROVE  UnlistedYoung'
  BY <1>1 DEF CreateProcess, Fresh
<1>2. ASSUME NEW r \in Requests, NEW u \in Users, NEW id \in Ids,
             NEW op \in {"update", "publish", "delete"},
             Begin(r, op, u, id), UNCHANGED cleaner
      PROVE  UnlistedYoung'
  BY <1>2 DEF Begin, FirstCall, Unheard
<1>3. ASSUME NEW r \in Requests, Check(r), UNCHANGED cleaner
      PROVE  UnlistedYoung'
  BY <1>3 DEF Check, FirstCall, Goto, Finish
<1>4. ASSUME NEW r \in Requests, ReadProcess(r), UNCHANGED cleaner
      PROVE  UnlistedYoung'
  BY <1>4 DEF ReadProcess, Finish
<1>5. ASSUME NEW r \in Requests, SetDoc(r), UNCHANGED cleaner
      PROVE  UnlistedYoung'
  BY <1>5, DocumentWritten DEF SetDoc, ReleaseIf, Abort, Goto, Finish
<1>6. ASSUME NEW r \in Requests, GetResource(r), UNCHANGED cleaner
      PROVE  UnlistedYoung'
  BY <1>6 DEF GetResource, Confirm, ReleaseIf, Abort, Goto, Finish
<1>7. ASSUME NEW r \in Requests, SetRights(r), UNCHANGED cleaner
      PROVE  UnlistedYoung'
  BY <1>7
     DEF SetRights, SetPermission, Confirm, ReleaseIf, Abort, Goto, Finish
<1>8. ASSUME NEW r \in Requests, Rollback(r), UNCHANGED cleaner
      PROVE  UnlistedYoung'
  BY <1>8 DEF Rollback, DbDeleteProcess, Finish
<1>9. ASSUME NEW r \in Requests, RemovePerms(r), UNCHANGED cleaner
      PROVE  UnlistedYoung'
  BY <1>9 DEF RemovePerms, RemoveResource, Release, Goto, Finish
<1>10. ASSUME NEW r \in Requests, EraseDoc(r), UNCHANGED cleaner
      PROVE  UnlistedYoung'
  BY <1>10 DEF EraseDoc, DbDeleteProcess, Finish
<1>11. CASE ListResources /\ UNCHANGED req
  BY <1>11 DEF ListResources, AdminListResourceIds, GiveUp
<1>12. CASE ListDocs /\ UNCHANGED req
  BY <1>12 DEF ListDocs, MissingInDb, GiveUp
<1>13. CASE ListOrphans /\ UNCHANGED req
  BY <1>13 DEF ListOrphans, MissingInInput, OldEnough, Rest, GiveUp
<1>14. ASSUME NEW id \in Ids, CleanResource(id), UNCHANGED req
      PROVE  UnlistedYoung'
  BY <1>14 DEF CleanResource, RemoveResource, Rest, GiveUp
<1>15. ASSUME NEW id \in Ids, CleanDoc(id), UNCHANGED req
      PROVE  UnlistedYoung'
  BY <1>15 DEF CleanDoc, DbDeleteProcess, Rest, GiveUp
<1>16. ASSUME NEW id \in Ids, NEW u \in Users, Share(id, u)
      PROVE  UnlistedYoung'
  BY <1>16, ShareKeeps DEF Share
<1>17. CASE Crash
  BY <1>17 DEF Crash
<1>18. CASE Tick
  BY <1>18 DEF Tick, CreatesInTime, ScansInTime
<1>19. CASE UNCHANGED vars
  BY <1>19 DEF vars
<1> QED
  BY <1>1, <1>2, <1>3, <1>4, <1>5, <1>6, <1>7, <1>8, <1>9, <1>10, <1>11,
     <1>12, <1>13, <1>14, <1>15, <1>16, <1>17, <1>18, <1>19
     DEF Next, Request, Arrive, Serve, UpdateProcess, UpdateProcessPublic,
         DeleteProcess, Clean, CleanupStep
-----------------------------------------------------------------------------
(***************************************************************************)
(* The invariant holds at the start.                                       *)
(***************************************************************************)
LEMMA InitIndInv == Init => IndInv
<1> SUFFICES ASSUME Init PROVE IndInv
  OBVIOUS
<1>1. /\ TypeOK /\ released = {} /\ acked = {} /\ cleaner = NoScan
      /\ \A r \in Requests : ~Active(r)
      /\ \A id \in Ids : id \notin Legacy => ~HasDoc(id) /\ ~HasResource(id)
      /\ \A id \in Ids : id \in Legacy => HasDoc(id)
  BY InitType, StoresAssumption
     DEF Init, StoresInit, ProcessApiInit, CleanupInit, Doc
<1> QED
  BY <1>1 DEF IndInv, Durability, ResourceHasDoc, Labels, CreateExclusive,
              OwnersAgree, Writing, ScanSound, UnlistedYoung

(***************************************************************************)
(* Every step keeps the invariant.                                         *)
(***************************************************************************)
LEMMA NextIndInv == IndInv /\ [Next]_vars => IndInv'
<1> SUFFICES ASSUME IndInv, [Next]_vars PROVE IndInv'
  OBVIOUS
<1>1. TypeOK'
  BY NextType DEF IndInv
<1> QED
  BY <1>1, LabelsNext, DurabilityNext, ResourceHasDocNext,
     CreateExclusiveNext, OwnersAgreeNext, ScanSoundNext, UnlistedYoungNext
     DEF IndInv

(***************************************************************************)
(* The strengthening of the invariants holds in every state.               *)
(***************************************************************************)
THEOREM Invariance == Spec => []IndInv
BY InitIndInv, NextIndInv, PTL DEF Spec

(***************************************************************************)
(* What a create, update or publish was confirmed for is there.            *)
(***************************************************************************)
THEOREM DurabilityHolds == Spec => []Durability
BY Invariance, PTL DEF IndInv

(***************************************************************************)
(* The rights on a process never stand without its document.               *)
(***************************************************************************)
THEOREM ResourceHasDocHolds == Spec => []ResourceHasDoc
BY Invariance, PTL DEF IndInv

(***************************************************************************)
(* No step takes away a half of a complete process that is not released.   *)
(***************************************************************************)
LEMMA KeepsIntactStep ==
  ASSUME IndInv, TypeOK', [Next]_vars
  PROVE  StayIntact
<1> USE RunningFields, AtLabel, FullAccessType, DocumentType,
        StoresAssumption, ProcessRepositoryAssumption
    DEF IndInv, TypeOK, StoresTypeOK, ProcessApiTypeOK, CleanupTypeOK,
        Running, Pcs, Ops, Idle, Answers, Fails, storeVars, Labels, ScanSound,
        Owed, Intact, StayIntact
<1>1. CASE UNCHANGED <<docs, perms>>
  BY <1>1
<1>2. ASSUME NEW r \in Requests, SetDoc(r), UNCHANGED cleaner
      PROVE  StayIntact
  BY <1>2, DocumentWritten DEF SetDoc, ReleaseIf, Abort, Goto, Finish
<1>3. ASSUME NEW r \in Requests, SetRights(r), UNCHANGED cleaner
      PROVE  StayIntact
  BY <1>3
     DEF SetRights, SetPermission, Confirm, ReleaseIf, Abort, Goto, Finish
<1>4. ASSUME NEW r \in Requests, Rollback(r), UNCHANGED cleaner
      PROVE  StayIntact
  BY <1>4 DEF Rollback, DbDeleteProcess, Finish
<1>5. ASSUME NEW r \in Requests, RemovePerms(r), UNCHANGED cleaner
      PROVE  StayIntact
  BY <1>5 DEF RemovePerms, RemoveResource, Release, Goto, Finish
<1>6. ASSUME NEW r \in Requests, EraseDoc(r), UNCHANGED cleaner
      PROVE  StayIntact
  BY <1>6 DEF EraseDoc, DbDeleteProcess, Finish
<1>7. ASSUME NEW id \in Ids, CleanResource(id), UNCHANGED req
      PROVE  StayIntact
  BY <1>7 DEF CleanResource, RemoveResource, Rest, GiveUp
<1>8. ASSUME NEW id \in Ids, CleanDoc(id), UNCHANGED req
      PROVE  StayIntact
  BY <1>8 DEF CleanDoc, DbDeleteProcess, Rest, GiveUp
<1>9. ASSUME NEW id \in Ids, NEW u \in Users, Share(id, u)
      PROVE  StayIntact
  BY <1>9, ShareKeeps DEF Share
<1> QED
  BY <1>1, <1>2, <1>3, <1>4, <1>5, <1>6, <1>7, <1>8, <1>9
     DEF Next, Request, Arrive, Serve, UpdateProcess, UpdateProcessPublic,
         DeleteProcess, Clean, CleanupStep, CreateProcess, Begin, Check,
         ReadProcess, ListResources, ListDocs, ListOrphans, Crash, Tick, vars,
         GetResource, ReleaseIf

(***************************************************************************)
(* No step breaks up a complete process that is not released.              *)
(***************************************************************************)
THEOREM KeepsIntactHolds == Spec => KeepsIntact
<1>1. IndInv /\ IndInv' /\ [Next]_vars => [StayIntact]_vars
  BY KeepsIntactStep DEF IndInv
<1> QED
  BY <1>1, Invariance, PTL DEF Spec, KeepsIntact

(***************************************************************************)
(* No step changes the owner of a document that is there before and after. *)
(***************************************************************************)
LEMMA OwnerStableStep ==
  ASSUME IndInv, TypeOK', [Next]_vars
  PROVE  SameOwner
<1> USE RunningFields, AtLabel, FullAccessType, DocumentType,
        StoresAssumption, ProcessRepositoryAssumption
    DEF IndInv, TypeOK, StoresTypeOK, ProcessApiTypeOK, CleanupTypeOK,
        Running, Pcs, Ops, Idle, Answers, Fails, storeVars, Labels,
        OwnersAgree, Writing, Owed, Document, SameOwner
<1>1. CASE UNCHANGED <<docs, perms>>
  BY <1>1
<1>2. ASSUME NEW r \in Requests, SetDoc(r), UNCHANGED cleaner
      PROVE  SameOwner
  BY <1>2, DocumentWritten DEF SetDoc, ReleaseIf, Abort, Goto, Finish
<1>3. ASSUME NEW r \in Requests, SetRights(r), UNCHANGED cleaner
      PROVE  SameOwner
  BY <1>3
     DEF SetRights, SetPermission, Confirm, ReleaseIf, Abort, Goto, Finish
<1>4. ASSUME NEW r \in Requests, Rollback(r), UNCHANGED cleaner
      PROVE  SameOwner
  BY <1>4 DEF Rollback, DbDeleteProcess, Finish
<1>5. ASSUME NEW r \in Requests, RemovePerms(r), UNCHANGED cleaner
      PROVE  SameOwner
  BY <1>5 DEF RemovePerms, RemoveResource, Release, Goto, Finish
<1>6. ASSUME NEW r \in Requests, EraseDoc(r), UNCHANGED cleaner
      PROVE  SameOwner
  BY <1>6 DEF EraseDoc, DbDeleteProcess, Finish
<1>7. ASSUME NEW id \in Ids, CleanResource(id), UNCHANGED req
      PROVE  SameOwner
  BY <1>7 DEF CleanResource, RemoveResource, Rest, GiveUp
<1>8. ASSUME NEW id \in Ids, CleanDoc(id), UNCHANGED req
      PROVE  SameOwner
  BY <1>8 DEF CleanDoc, DbDeleteProcess, Rest, GiveUp
<1>9. ASSUME NEW id \in Ids, NEW u \in Users, Share(id, u)
      PROVE  SameOwner
  BY <1>9, ShareKeeps DEF Share
<1> QED
  BY <1>1, <1>2, <1>3, <1>4, <1>5, <1>6, <1>7, <1>8, <1>9
     DEF Next, Request, Arrive, Serve, UpdateProcess, UpdateProcessPublic,
         DeleteProcess, Clean, CleanupStep, CreateProcess, Begin, Check,
         ReadProcess, ListResources, ListDocs, ListOrphans, Crash, Tick, vars,
         GetResource, ReleaseIf

(***************************************************************************)
(* The owner of a process stays the same.                                  *)
(***************************************************************************)
THEOREM OwnerStableHolds == Spec => OwnerStable
<1>1. IndInv /\ IndInv' /\ [Next]_vars => [SameOwner]_vars
  BY OwnerStableStep DEF IndInv
<1> QED
  BY <1>1, Invariance, PTL DEF Spec, OwnerStable

(***************************************************************************)
(* No step takes a right away from a process that is not released.         *)
(***************************************************************************)
LEMMA RightsKeptStep ==
  ASSUME IndInv, TypeOK', [Next]_vars
  PROVE  NoRightLost
<1> USE RunningFields, AtLabel, FullAccessType, DocumentType,
        StoresAssumption, ProcessRepositoryAssumption
    DEF IndInv, TypeOK, StoresTypeOK, ProcessApiTypeOK, CleanupTypeOK,
        Running, Pcs, Ops, Idle, Answers, Fails, storeVars, Labels,
        CreateExclusive, ScanSound, Owed, Resource, NoRightLost
<1>1. CASE UNCHANGED <<docs, perms>>
  BY <1>1
<1>2. ASSUME NEW r \in Requests, SetDoc(r), UNCHANGED cleaner
      PROVE  NoRightLost
  BY <1>2, DocumentWritten DEF SetDoc, ReleaseIf, Abort, Goto, Finish
<1>3. ASSUME NEW r \in Requests, SetRights(r), UNCHANGED cleaner
      PROVE  NoRightLost
  BY <1>3
     DEF SetRights, SetPermission, Confirm, ReleaseIf, Abort, Goto, Finish
<1>4. ASSUME NEW r \in Requests, Rollback(r), UNCHANGED cleaner
      PROVE  NoRightLost
  BY <1>4 DEF Rollback, DbDeleteProcess, Finish
<1>5. ASSUME NEW r \in Requests, RemovePerms(r), UNCHANGED cleaner
      PROVE  NoRightLost
  BY <1>5 DEF RemovePerms, RemoveResource, Release, Goto, Finish
<1>6. ASSUME NEW r \in Requests, EraseDoc(r), UNCHANGED cleaner
      PROVE  NoRightLost
  BY <1>6 DEF EraseDoc, DbDeleteProcess, Finish
<1>7. ASSUME NEW id \in Ids, CleanResource(id), UNCHANGED req
      PROVE  NoRightLost
  BY <1>7 DEF CleanResource, RemoveResource, Rest, GiveUp
<1>8. ASSUME NEW id \in Ids, CleanDoc(id), UNCHANGED req
      PROVE  NoRightLost
  BY <1>8 DEF CleanDoc, DbDeleteProcess, Rest, GiveUp
<1>9. ASSUME NEW id \in Ids, NEW u \in Users, Share(id, u)
      PROVE  NoRightLost
  BY <1>9, ShareKeeps DEF Share
<1> QED
  BY <1>1, <1>2, <1>3, <1>4, <1>5, <1>6, <1>7, <1>8, <1>9
     DEF Next, Request, Arrive, Serve, UpdateProcess, UpdateProcessPublic,
         DeleteProcess, Clean, CleanupStep, CreateProcess, Begin, Check,
         ReadProcess, ListResources, ListDocs, ListOrphans, Crash, Tick, vars,
         GetResource, ReleaseIf

(***************************************************************************)
(* Rights on a process are neither overwritten nor removed, unless it is   *)
(* released: by a deletion, by a create that fails, or by an update that   *)
(* finds the resource missing, after which rights may be overwritten.      *)
(***************************************************************************)
THEOREM RightsKeptHolds == Spec => RightsKept
<1>1. IndInv /\ IndInv' /\ [Next]_vars => [NoRightLost]_vars
  BY RightsKeptStep DEF IndInv
<1> QED
  BY <1>1, Invariance, PTL DEF Spec, RightsKept
-----------------------------------------------------------------------------
(***************************************************************************)
(* Refinement: every step is a step of the registry on one id, or none.    *)
(***************************************************************************)
Present == {id \in Ids : Intact(id)}

RegistryStep == Registry!RegistryNext \/ UNCHANGED <<Present, released, acked>>

(***************************************************************************)
(* A call of a request is a step of the registry or none.                  *)
(***************************************************************************)
LEMMA RequestRefines ==
  ASSUME IndInv, IndInv', NEW r \in Requests, Request(r)
  PROVE  RegistryStep
<1> USE RunningFields, AtLabel, FullAccessType, DocumentType, StoresAssumption
    DEF IndInv, TypeOK, StoresTypeOK, ProcessApiTypeOK, Labels, Owed,
        Running, Pcs, Idle, Answers, Fails, storeVars, Intact, Present
<1> USE DEF RegistryStep, Registry!RegistryNext
<1>1. CASE UNCHANGED <<docs, perms, released, acked>>
  BY <1>1
<1>2. CASE SetDoc(r)
  <2>1. /\ req[r].id \in Ids
        /\ UNCHANGED <<perms, acked>>
        /\ released' \in {released, released \cup {req[r].id}}
        /\ docs' \in {docs, [docs EXCEPT ![req[r].id] = Document(r)]}
        /\ Document(r) # NoDoc
    BY <1>2, DocumentWritten DEF SetDoc, ReleaseIf
  <2>2. CASE docs' = docs
    BY <2>1, <2>2 DEF Registry!Drop
  <2>3. CASE docs' = [docs EXCEPT ![req[r].id] = Document(r)]
    <3>1. CASE HasResource(req[r].id)
      <4>1. Present' = Present \cup {req[r].id}
        BY <2>1, <2>3, <3>1
      <4> QED
        BY <2>1, <4>1 DEF Registry!Store
    <3>2. CASE ~HasResource(req[r].id)
      <4>1. Present' = Present
        BY <2>1, <2>3, <3>2
      <4> QED
        BY <2>1, <4>1 DEF Registry!Drop
    <3> QED
      BY <3>1, <3>2
  <2> QED
    BY <2>1, <2>2, <2>3
<1>3. CASE GetResource(r)
  <2>1. req[r].id \in Ids /\ Present' = Present
    BY <1>3 DEF GetResource
  <2>2. CASE acked' = acked
    BY <1>3, <2>1, <2>2
       DEF GetResource, ReleaseIf, Confirm, Registry!Drop
  <2>3. CASE acked' = acked \cup {req[r].id} /\ released' = released
    <3>1. req[r].id \in Present \cup released
      BY <1>3, <2>1, <2>3 DEF Durability, GetResource
    <3> QED
      BY <2>1, <2>3, <3>1 DEF Registry!Acknowledge
  <2> QED
    BY <1>3, <2>2, <2>3 DEF GetResource, Confirm
<1>4. CASE SetRights(r)
  <2>1. /\ req[r].id \in Ids
        /\ UNCHANGED docs
        /\ released' \in {released, released \cup {req[r].id}}
        /\ acked' \in {acked, acked \cup {req[r].id}}
        /\ \/ UNCHANGED <<perms, acked>>
           \/ perms' = [perms EXCEPT ![req[r].id] = FullAccess(req[r].user)]
        /\ FullAccess(req[r].user) # NoResource
    BY <1>4 DEF SetRights, SetPermission, ReleaseIf, Confirm
  <2>2. CASE UNCHANGED <<perms, acked>>
    BY <2>1, <2>2 DEF Registry!Drop
  <2>3. CASE perms' = [perms EXCEPT ![req[r].id] = FullAccess(req[r].user)]
    <3>1. /\ perms'[req[r].id] # NoResource
          /\ \A id \in Ids : id # req[r].id => (HasResource(id)' <=> HasResource(id))
      BY <2>1, <2>3
    <3>2. CASE HasDoc(req[r].id)
      <4>1. Present' = Present \cup {req[r].id}
        BY <2>1, <3>1, <3>2
      <4> QED
        BY <2>1, <4>1 DEF Registry!Store
    <3>3. CASE ~HasDoc(req[r].id)
      <4>1. Present' = Present
        BY <2>1, <3>1, <3>3
      <4>2. req[r].id \in released'
        BY <2>1, <3>1, <3>3 DEF ResourceHasDoc
      <4> QED
        BY <2>1, <4>1, <4>2 DEF Registry!Acknowledge, Registry!Drop
    <3> QED
      BY <3>2, <3>3
  <2> QED
    BY <2>1, <2>2, <2>3
<1>5. CASE Rollback(r) \/ RemovePerms(r) \/ EraseDoc(r)
  <2>1. /\ req[r].id \in Ids
        /\ released' = released \cup {req[r].id}
        /\ UNCHANGED acked
    BY <1>5 DEF Rollback, RemovePerms, EraseDoc, Release
  <2>2. Present' \in {Present, Present \ {req[r].id}}
    BY <1>5, <2>1 DEF Rollback, RemovePerms, EraseDoc, RemoveResource,
                      DbDeleteProcess
  <2> QED
    BY <2>1, <2>2 DEF Registry!Withdraw, Registry!Drop
<1> QED
  BY <1>1, <1>2, <1>3, <1>4, <1>5
     DEF Request, Arrive, Serve, CreateProcess, UpdateProcess,
         UpdateProcessPublic, DeleteProcess, Begin, Check, ReadProcess

(***************************************************************************)
(* A call of the cleanup loop is a step of the registry or none.           *)
(***************************************************************************)
LEMMA CleanRefines ==
  ASSUME IndInv, IndInv', Clean
  PROVE  RegistryStep
<1> USE StoresAssumption
    DEF IndInv, TypeOK, StoresTypeOK, ScanSound, Owed, Answers, Fails, Intact,
        Present, RegistryStep, Registry!RegistryNext
<1>1. CASE ListResources \/ ListDocs \/ ListOrphans
  BY <1>1 DEF ListResources, ListDocs, ListOrphans
<1>2. ASSUME NEW id \in Ids, CleanResource(id)
      PROVE  RegistryStep
  <2>1. id \in released /\ UNCHANGED <<docs, released, acked>>
    BY <1>2 DEF CleanResource
  <2>2. Present' \in {Present, Present \ {id}}
    BY <1>2, <2>1 DEF CleanResource, RemoveResource
  <2> QED
    BY <2>1, <2>2 DEF Registry!Withdraw
<1>3. ASSUME NEW id \in Ids, CleanDoc(id)
      PROVE  RegistryStep
  <2>1. UNCHANGED <<perms, released, acked>>
    BY <1>3 DEF CleanDoc
  <2>2. /\ Present' \in {Present, Present \ {id}}
        /\ id \notin released => Present' = Present
    BY <1>3, <2>1 DEF CleanDoc, DbDeleteProcess
  <2> QED
    BY <2>1, <2>2 DEF Registry!Withdraw
<1> QED
  BY <1>1, <1>2, <1>3 DEF Clean, CleanupStep

(***************************************************************************)
(* Every step of the service is a step of the registry or none.            *)
(***************************************************************************)
LEMMA NextRefines ==
  ASSUME IndInv, IndInv', [Next]_vars
  PROVE  RegistryStep
<1>1. ASSUME NEW id \in Ids, NEW u \in Users, Share(id, u)
      PROVE  RegistryStep
  BY <1>1, ShareKeeps DEF IndInv, Share, RegistryStep, Present, Intact
<1>2. CASE Crash \/ Tick \/ UNCHANGED vars
  BY <1>2 DEF Crash, Tick, vars, storeVars, RegistryStep, Present, Intact
<1> QED
  BY <1>1, <1>2, RequestRefines, CleanRefines DEF Next

(***************************************************************************)
(* The stores at the start are a registry at its start.                    *)
(***************************************************************************)
LEMMA InitRefines == Init => Registry!RegistryInit
BY DEF Init, StoresInit, Registry!RegistryInit

(***************************************************************************)
(* The requests, the cleanup and the two stores implement the registry.    *)
(***************************************************************************)
THEOREM Implements == Spec => Refinement
<1>1. IndInv /\ IndInv' /\ [Next]_vars
        => [Registry!RegistryNext]_<<Present, released, acked>>
  BY NextRefines DEF RegistryStep
<1>2. IndInv /\ IndInv' /\ [Next]_vars
        => [Registry!RegistryNext]_<<{id \in Ids : Intact(id)}, released, acked>>
  BY <1>1 DEF Present
<1> QED
  BY <1>2, InitRefines, Invariance, PTL
     DEF Spec, Refinement, Registry!RegistrySpec
=============================================================================
