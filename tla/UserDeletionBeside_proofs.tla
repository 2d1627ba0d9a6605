--------------------- MODULE UserDeletionBeside_proofs ----------------------
(***************************************************************************)
(* What the deletion of a user still guarantees beside the cleanup loop,   *)
(* and with requests and shares in between, for any number of them.        *)
(***************************************************************************)
EXTENDS UserDeletionCleanup, UserDeletionRequests, UserDeletion_proofs,
        ProcessApi_proofs

-----------------------------------------------------------------------------
(***************************************************************************)
(* Beside the cleanup. What somebody else administrates is complete, and   *)
(* no scan has it on a list of what to remove; the handler puts back no    *)
(* other resource that somebody else administrates.                        *)
(***************************************************************************)
Theirs == {id \in Ids : HasResource(id) /\ OtherAdmin(perms[id])}

BothInv ==
  /\ UserDeletionTypeOK /\ Faithful({})
  /\ \A id \in Theirs : HasDoc(id)
  /\ \A s \in Revokes(job) : OtherAdmin(s.perm) => s.id \in Theirs
  /\ cleaner.pc \in {"listed", "known"} => Theirs \subseteq cleaner.ids
  /\ Theirs \cap (cleaner.noDoc \cup cleaner.noPerm) = {}


(***************************************************************************)
(* A step of the handler leaves what somebody else administrates as it is, *)
(* and adds nothing to it.                                                 *)
(***************************************************************************)
LEMMA TheirsStay ==
  ASSUME BothInv, UserDeletionNext
  PROVE  Theirs' = Theirs /\ \A id \in Theirs : docs'[id] = docs[id]
<1>0. /\ job \in Job /\ \A s \in Revokes(job) : s.id \in Ids
      /\ perms \in [Ids -> Resource \cup {NoResource}]
      /\ UserDeletionTypeOK /\ Faithful({})
  BY JobLists DEF BothInv, UserDeletionTypeOK, StoresTypeOK
<1>1. \A id \in Ids : Untouched(id)
  BY <1>0, FaithfulKeeps
<1>2. Theirs \subseteq Theirs' /\ \A id \in Theirs : docs'[id] = docs[id]
  BY <1>1 DEF Theirs, Untouched, OtherAdmin
<1>3. UNCHANGED perms => Theirs' = Theirs
  BY DEF Theirs, HasResource, OtherAdmin
<1>4. ASSUME NEW id \in Ids, RemoveResource(id)
      PROVE  Theirs' \subseteq Theirs
  <2>1. \A i \in Ids : perms'[i] = IF i = id THEN NoResource ELSE perms[i]
    BY <1>0, <1>4 DEF RemoveResource
  <2> QED
    BY <2>1 DEF Theirs, HasResource, OtherAdmin
<1>5. ASSUME NEW s \in Revokes(job), Revoke(s), SetPermission(s.id, Without(s.perm))
      PROVE  Theirs' \subseteq Theirs
  <2>1. \A i \in Ids : perms'[i] = IF i = s.id THEN Without(s.perm) ELSE perms[i]
    BY <1>0, <1>5 DEF SetPermission
  <2>2. OtherAdmin(Without(s.perm)) => OtherAdmin(s.perm)
    BY <1>0, <1>5, RevokeForm DEF OtherAdmin
  <2>3. OtherAdmin(s.perm) => s.id \in Theirs
    BY DEF BothInv
  <2>4. ASSUME NEW i \in Theirs'
        PROVE  i \in Theirs
    <3>1. i \in Ids /\ HasResource(i)' /\ OtherAdmin(perms'[i])
      BY <2>4 DEF Theirs, OtherAdmin
    <3>2. CASE i = s.id
      BY <2>1, <2>2, <2>3, <3>1, <3>2
    <3>3. CASE i # s.id
      BY <2>1, <3>1, <3>3 DEF Theirs, HasResource
    <3> QED
      BY <3>2, <3>3
  <2> QED
    BY <2>4
<1>6. CASE Start \/ ListPage \/ Look \/ Redeliver \/ CrashJob
  BY <1>2, <1>3, <1>6 DEF Start, ListPage, Look, Redeliver, CrashJob, storeVars
<1>7. ASSUME NEW id \in Ids, RemoveRights(id)
      PROVE  Theirs' \subseteq Theirs
  BY <1>0, <1>3, <1>4, <1>7, RemoveForm
<1>8. ASSUME NEW id \in Ids, Erase(id)
      PROVE  Theirs' \subseteq Theirs
  BY <1>3, <1>8 DEF Erase
<1>9. ASSUME NEW s \in Revokes(job), Revoke(s)
      PROVE  Theirs' \subseteq Theirs
  BY <1>0, <1>3, <1>5, <1>9, RevokeForm
<1> QED
  BY <1>2, <1>6, <1>7, <1>8, <1>9 DEF UserDeletionNext, HandleUserDelete

(***************************************************************************)
(* Which snapshots a step of the handler adds: only true ones.             *)
(***************************************************************************)
LEMMA NewSnapshots ==
  ASSUME UserDeletionTypeOK, UserDeletionNext
  PROVE  \A s \in Revokes(job') :
           \/ s \in Revokes(job)
           \/ s.id \in Ids /\ HasResource(s.id) /\ perms[s.id] = s.perm
<1> DEFINE Goal == \A s \in Revokes(job') :
                     \/ s \in Revokes(job)
                     \/ s.id \in Ids /\ HasResource(s.id) /\ perms[s.id] = s.perm
<1>1. ASSUME NEW pc \in Emptied, job' = JobAt(pc, <<>>, <<>>)
      PROVE  Goal
  BY <1>1, EmptyLists
<1>2. ASSUME Revokes(job') \subseteq Revokes(job)
      PROVE  Goal
  BY <1>2
<1>3. CASE Start \/ Redeliver \/ CrashJob
  BY <1>1, <1>3 DEF Start, Redeliver, CrashJob, NewJob, Emptied
<1>4. CASE ListPage
  BY <1>1, <1>2, <1>4, ListPageForm, ProceedForm DEF Emptied
<1>5. CASE Look
  <2>1. CASE job' = JobAt("failed", <<>>, <<>>)
    BY <1>1, <2>1 DEF Emptied
  <2>2. ASSUME NEW id \in job.page, NEW j \in Job, perms[id] \in Resource,
               HasResource(id), job' = Proceed(Sort(j, id)), Revokes(j) = Revokes(job)
        PROVE  Goal
    <3>1. id \in Ids
      BY DEF UserDeletionTypeOK, Job
    <3>2. /\ Sort(j, id) \in Job
          /\ Revokes(Sort(j, id))
               \in {Revokes(j), Revokes(j) \cup {[id |-> id, perm |-> perms[id]]}}
      BY <2>2, <3>1, SortForm
    <3>3. Revokes(job') = Revokes(Sort(j, id))
      BY <2>2, <3>2, ProceedForm
    <3> QED
      BY <2>2, <3>1, <3>2, <3>3
  <2> QED
    BY <1>5, <2>1, <2>2, LookForm
<1>6. ASSUME NEW id \in Ids, RemoveRights(id)
      PROVE  Goal
  BY <1>1, <1>2, <1>6, RemoveForm DEF Emptied
<1>7. ASSUME NEW id \in Ids, Erase(id)
      PROVE  Goal
  BY <1>1, <1>2, <1>7, EraseForm DEF Emptied
<1>8. ASSUME NEW s \in Revokes(job), Revoke(s)
      PROVE  Goal
  BY <1>1, <1>2, <1>8, RevokeForm DEF Emptied
<1> QED
  BY <1>3, <1>4, <1>5, <1>6, <1>7, <1>8 DEF UserDeletionNext, HandleUserDelete

(***************************************************************************)
(* A step of the handler.                                                  *)
(***************************************************************************)
LEMMA HandlerBeside ==
  ASSUME BothInv, UserDeletionNext, cleaner' \in {cleaner, NoScan}
  PROVE  BothInv'
<1>1. UserDeletionTypeOK' /\ Faithful({})'
  BY TypesStep, FaithfulStep DEF BothInv
<1>2. Theirs' = Theirs /\ \A id \in Theirs : docs'[id] = docs[id]
  BY TheirsStay
<1>3. \A id \in Theirs' : HasDoc(id)'
  BY <1>2 DEF BothInv, HasDoc
<1>4. ASSUME NEW s \in Revokes(job'), OtherAdmin(s.perm)
      PROVE  s.id \in Theirs'
  <2>1. CASE s \in Revokes(job)
    BY <1>2, <1>4, <2>1 DEF BothInv
  <2>2. CASE s.id \in Ids /\ HasResource(s.id) /\ perms[s.id] = s.perm
    BY <1>2, <1>4, <2>2 DEF Theirs
  <2> QED
    BY <2>1, <2>2, NewSnapshots DEF BothInv
<1>5. /\ cleaner'.pc \in {"listed", "known"} => Theirs' \subseteq cleaner'.ids
      /\ Theirs' \cap (cleaner'.noDoc \cup cleaner'.noPerm) = {}
  <2>1. CASE cleaner' = cleaner
    BY <1>2, <2>1 DEF BothInv
  <2>2. CASE cleaner' = NoScan
    BY <2>2 DEF NoScan
  <2> QED
    BY <2>1, <2>2
<1> QED
  BY <1>1, <1>3, <1>4, <1>5 DEF BothInv, OtherAdmin

(***************************************************************************)
(* A step of the cleanup: what it lists it does not take for missing, what *)
(* it takes for missing nobody else administrates.                         *)
(***************************************************************************)
LEMMA CleanupBeside ==
  ASSUME BothInv, CleanupStep, UNCHANGED job
  PROVE  BothInv' /\ OthersUntouched
<1>0. /\ docs \in [Ids -> Doc \cup {NoDoc}]
      /\ perms \in [Ids -> Resource \cup {NoResource}]
      /\ faults \in 0 .. MaxFaults /\ StoresTypeOK
      /\ \A id \in Theirs : HasDoc(id)
      /\ \A s \in Revokes(job) : OtherAdmin(s.perm) => s.id \in Theirs
      /\ cleaner.pc \in {"listed", "known"} => Theirs \subseteq cleaner.ids
      /\ Theirs \cap (cleaner.noDoc \cup cleaner.noPerm) = {}
      /\ Faithful({}) /\ UserDeletionTypeOK
  BY DEF BothInv, UserDeletionTypeOK, StoresTypeOK
<1> DEFINE Scanned ==
             /\ cleaner.pc \in {"listed", "known"} => Theirs \subseteq cleaner.ids
             /\ Theirs \cap (cleaner.noDoc \cup cleaner.noPerm) = {}
<1>1. UNCHANGED <<now, released, acked>> /\ (Answers \/ Fails)
  BY DEF CleanupStep, ListResources, ListDocs, ListOrphans, CleanResource, CleanDoc
<1>2. faults' \in 0 .. MaxFaults
  BY <1>0, <1>1, StoresAssumption DEF Answers, Fails
<1>3. ASSUME UNCHANGED <<docs, perms>>, Scanned'
      PROVE  BothInv' /\ OthersUntouched
  <2>1. UserDeletionTypeOK' /\ Faithful({})'
    BY <1>0, <1>1, <1>2, <1>3
    DEF UserDeletionTypeOK, StoresTypeOK, Faithful, HasResource, OtherAdmin
  <2>2. Theirs' = Theirs
    BY <1>3 DEF Theirs, HasResource, OtherAdmin
  <2>3. BothInv'
    BY <1>0, <1>3, <2>1, <2>2 DEF BothInv, HasDoc, OtherAdmin
  <2> QED
    BY <1>3, <2>3 DEF OthersUntouched, Untouched, HasResource
<1>4. ASSUME Theirs' = Theirs, cleaner' = NoScan
      PROVE  Scanned'
  BY <1>4 DEF NoScan
<1>5. ASSUME NEW noDoc, NEW noPerm, cleaner' = Rest(noDoc, noPerm), Theirs' = Theirs,
             Theirs \cap (noDoc \cup noPerm) = {}
      PROVE  Scanned'
  BY <1>5 DEF Rest, NoScan
<1>6. CASE ListResources \/ ListDocs \/ ListOrphans
  <2>1. UNCHANGED <<docs, perms>>
    BY <1>6 DEF ListResources, ListDocs, ListOrphans
  <2>2. Theirs' = Theirs
    BY <2>1 DEF Theirs, HasResource, OtherAdmin
  <2>3. CASE GiveUp
    BY <1>3, <1>4, <2>1, <2>2, <2>3 DEF GiveUp
  <2>4. CASE ListResources /\ ~GiveUp
    <3>1. cleaner'.ids = AdminListResourceIds /\ cleaner'.noDoc = {} /\ cleaner'.noPerm = {}
      BY <2>4 DEF ListResources
    <3>2. Theirs \subseteq AdminListResourceIds
      BY DEF Theirs, AdminListResourceIds
    <3> QED
      BY <1>3, <2>1, <2>2, <3>1, <3>2
  <2>5. CASE ListDocs /\ ~GiveUp
    <3>1. /\ cleaner.pc = "listed" /\ cleaner'.ids = cleaner.ids
          /\ cleaner'.noDoc = MissingInDb(cleaner.ids) /\ cleaner'.noPerm = {}
      BY <2>5 DEF ListDocs
    <3>2. Theirs \cap MissingInDb(cleaner.ids) = {}
      BY <1>0 DEF MissingInDb
    <3> QED
      BY <1>0, <1>3, <2>1, <2>2, <3>1, <3>2
  <2>6. CASE ListOrphans /\ ~GiveUp
    <3>1. /\ cleaner.pc = "known"
          /\ cleaner' = Rest(cleaner.noDoc, MissingInInput(cleaner.ids, cleaner.at))
      BY <2>6 DEF ListOrphans
    <3>2. Theirs \cap MissingInInput(cleaner.ids, cleaner.at) = {}
      BY <1>0, <3>1 DEF MissingInInput
    <3> QED
      BY <1>0, <1>3, <1>5, <2>1, <2>2, <3>1, <3>2
  <2> QED
    BY <1>6, <2>3, <2>4, <2>5, <2>6
<1>7. ASSUME NEW id \in Ids, CleanResource(id)
      PROVE  BothInv' /\ OthersUntouched
  <2>1. id \notin Theirs /\ docs' = docs
    BY <1>0, <1>7 DEF CleanResource
  <2>2. \A i \in Ids : perms'[i] = perms[i] \/ (i = id /\ perms'[i] = NoResource)
    BY <1>0, <1>7 DEF CleanResource, RemoveResource
  <2>3. perms' \in [Ids -> Resource \cup {NoResource}]
    BY <1>0, <1>7 DEF CleanResource, RemoveResource
  <2>4. Theirs' = Theirs /\ \A i \in Theirs : perms'[i] = perms[i]
    BY <2>1, <2>2 DEF Theirs, HasResource, OtherAdmin
  <2>5. UserDeletionTypeOK'
    BY <1>0, <1>1, <1>2, <2>1, <2>3 DEF UserDeletionTypeOK, StoresTypeOK
  <2>6. Faithful({})'
    <3>1. /\ Deletes(job) \subseteq Ids /\ \A s \in Revokes(job) : s.id \in Ids
      BY <1>0, JobLists DEF UserDeletionTypeOK
    <3>2. job.pc = "erase" => Head(job.toDelete) \in Ids
      BY <1>0, JobLists DEF UserDeletionTypeOK
    <3> QED
      BY <1>0, <2>2, <3>1, <3>2 DEF Faithful, HasResource, OtherAdmin
  <2>7. Scanned'
    <3>1. \/ cleaner' = NoScan
          \/ cleaner' = Rest(cleaner.noDoc \ {id}, cleaner.noPerm)
      BY <1>7 DEF CleanResource, GiveUp
    <3> QED
      BY <1>0, <1>4, <1>5, <2>4, <3>1
  <2>8. BothInv'
    BY <1>0, <2>1, <2>4, <2>5, <2>6, <2>7 DEF BothInv, HasDoc, OtherAdmin
  <2>9. OthersUntouched
    BY <2>1, <2>4 DEF OthersUntouched, Untouched, Theirs, HasResource
  <2> QED
    BY <2>8, <2>9
<1>8. ASSUME NEW id \in Ids, CleanDoc(id)
      PROVE  BothInv' /\ OthersUntouched
  <2>1. id \notin Theirs /\ perms' = perms
    BY <1>0, <1>8 DEF CleanDoc
  <2>2. \A i \in Ids \ {id} : docs'[i] = docs[i]
    BY <1>0, <1>8 DEF CleanDoc, DbDeleteProcess
  <2>3. docs' \in [Ids -> Doc \cup {NoDoc}]
    BY <1>0, <1>8 DEF CleanDoc, DbDeleteProcess
  <2>4. Theirs' = Theirs /\ \A i \in Theirs : docs'[i] = docs[i]
    BY <2>1, <2>2 DEF Theirs, HasResource, OtherAdmin
  <2>5. UserDeletionTypeOK' /\ Faithful({})'
    BY <1>0, <1>1, <1>2, <2>1, <2>3
    DEF UserDeletionTypeOK, StoresTypeOK, Faithful, HasResource, OtherAdmin
  <2>6. Scanned'
    <3>1. \/ cleaner' = NoScan
          \/ cleaner' = Rest({}, cleaner.noPerm \ {id})
      BY <1>8 DEF CleanDoc, GiveUp
    <3> QED
      BY <1>0, <1>4, <1>5, <2>4, <3>1
  <2>7. BothInv'
    BY <1>0, <2>4, <2>5, <2>6 DEF BothInv, HasDoc, OtherAdmin
  <2>8. OthersUntouched
    BY <2>1, <2>4 DEF OthersUntouched, Untouched, Theirs, HasResource
  <2> QED
    BY <2>7, <2>8
<1> QED
  BY <1>6, <1>7, <1>8 DEF CleanupStep

(***************************************************************************)
(* Nothing the cleanup may remove belongs to anybody else, in every state. *)
(***************************************************************************)
LEMMA BothInvariance == SystemSpec => []BothInv
<1>1. SystemInit => BothInv
  <2> SUFFICES ASSUME SystemInit PROVE BothInv
    OBVIOUS
  <2>1. DeletionInv
    BY InitDeletion DEF SystemInit
  <2>2. Revokes(job) = {} /\ \A id \in Ids : HasDoc(id)
    BY EmptyLists, StoresAssumption
    DEF SystemInit, UserDeletionInit, NewJob, Emptied, HasDoc, Doc, NoStamp
  <2>3. cleaner.pc = "idle" /\ cleaner.noDoc = {} /\ cleaner.noPerm = {}
    BY DEF SystemInit, CleanupInit, NoScan
  <2> QED
    BY <2>1, <2>2, <2>3 DEF BothInv, DeletionInv, Theirs
<1>2. BothInv /\ [SystemNext]_systemVars => BothInv'
  <2> SUFFICES ASSUME BothInv, [SystemNext]_systemVars PROVE BothInv'
    OBVIOUS
  <2>1. CASE Work \/ (Redeliver /\ UNCHANGED cleaner) \/ CrashBoth
    BY <2>1, HandlerBeside DEF Work, CrashBoth, UserDeletionNext
  <2>2. CASE Sweep
    BY <2>2, CleanupBeside DEF Sweep
  <2>3. CASE UNCHANGED systemVars
    BY <2>3 DEF systemVars, storeVars, BothInv, UserDeletionTypeOK, StoresTypeOK,
                Faithful, Theirs, HasDoc, HasResource, OtherAdmin
  <2> QED
    BY <2>1, <2>2, <2>3 DEF SystemNext
<1> QED
  BY <1>1, <1>2, PTL DEF SystemSpec

(***************************************************************************)
(* Neither the handler nor the cleanup takes a process, or a right on it,  *)
(* from anybody else who administrates it, for any number of processes,    *)
(* users and faults, whatever each finds half done by the other.           *)
(***************************************************************************)
THEOREM OthersKeptBothHolds == SystemSpec => OthersKeptBoth
<1>1. ASSUME BothInv, SystemNext
      PROVE  OthersUntouched
  <2>1. CASE Work \/ (Redeliver /\ UNCHANGED cleaner) \/ CrashBoth
    BY <1>1, <2>1, FaithfulKeeps
    DEF BothInv, Work, CrashBoth, UserDeletionNext, OthersUntouched
  <2>2. CASE Sweep
    BY <1>1, <2>2, CleanupBeside DEF Sweep
  <2> QED
    BY <1>1, <2>1, <2>2 DEF SystemNext
<1>2. BothInv /\ [SystemNext]_systemVars => [OthersUntouched]_systemVars
  BY <1>1
<1> QED
  BY <1>2, BothInvariance, PTL DEF SystemSpec, OthersKeptBoth

-----------------------------------------------------------------------------
(***************************************************************************)
(* With requests and shares in between. The lists of the handler stay true *)
(* to the stores but for the stale ids, and complete but for the late      *)
(* ones: a step of the handler keeps them so (UserDeletion_proofs), and    *)
(* whoever else changes rights makes an id stale, late, or a page shift.   *)
(***************************************************************************)

(***************************************************************************)
(* It holds at the start: nothing is listed yet.                           *)
(***************************************************************************)
LEMMA MeanwhileStart == MeanwhileInit => MeanwhileInv
<1> SUFFICES ASSUME MeanwhileInit PROVE MeanwhileInv
  OBVIOUS
<1>1. StoresTypeOK
  BY StoresAssumption, UserDeletionAssumption
  DEF MeanwhileInit, StoresTypeOK, Doc, NoStamp
<1>2. ProcessApiTypeOK
  BY DEF MeanwhileInit, ProcessApiInit, ProcessApiTypeOK, Stamped, Active, Idle
<1>3. /\ job \in Job /\ job.pc = "idle"
      /\ Deletes(job) = {} /\ Revokes(job) = {}
  BY EmptyLists DEF MeanwhileInit, NewJob, Emptied
<1>4. Turned(late) /\ AllListed(late)
  BY <1>3 DEF Turned, AllListed
<1> QED
  BY <1>1, <1>2, <1>3, <1>4 DEF MeanwhileInv, UserDeletionTypeOK, Faithful

(***************************************************************************)
(* A step of the handler: ids that are on no list any more are not stale.  *)
(***************************************************************************)
LEMMA AttemptStep ==
  ASSUME MeanwhileInv, Attempt
  PROVE  MeanwhileInv'
<1>0. /\ UserDeletionNext /\ UNCHANGED req /\ stale' = stale \cap Listed(job')
      /\ job.pc \notin {"idle", "failed"} => late' = late /\ (shrunk => shrunk')
  BY DEF Attempt, UserDeletionNext
<1>1. UserDeletionTypeOK'
  BY <1>0, TypesStep DEF MeanwhileInv
<1>2. ProcessApiTypeOK'
  <2>1. UNCHANGED now
    BY <1>0 DEF UserDeletionNext, HandleUserDelete, Start, ListPage, Look, RemoveRights,
           Erase, Revoke, Redeliver, CrashJob, storeVars
  <2> QED
    BY <1>0, <2>1 DEF MeanwhileInv, ProcessApiTypeOK, Stamped, Active
<1>3. PICK S : S = stale
  OBVIOUS
<1>4. Faithful(S)'
  BY <1>0, <1>3, FaithfulStep DEF MeanwhileInv
<1>5. Faithful(stale)'
  <2>1. job'.pc = "erase" => Head(job'.toDelete) \in Listed(job')
    BY <1>1, JobLists DEF UserDeletionTypeOK, Listed
  <2> QED
    BY <1>0, <1>3, <1>4, <2>1 DEF Faithful, Listed
<1>6. ASSUME ~shrunk'
      PROVE  Turned(late)' /\ AllListed(late)'
  <2>1. PICK L : L = late'
    OBVIOUS
  <2>2. Turned(L) /\ AllListed(L)
    <3>1. CASE job.pc \in {"idle", "failed"}
      BY <3>1 DEF Turned, AllListed
    <3>2. CASE job.pc \notin {"idle", "failed"}
      BY <1>0, <1>6, <2>1, <3>2 DEF MeanwhileInv
    <3> QED
      BY <3>1, <3>2
  <2>3. Turned(L)' /\ AllListed(L)'
    BY <1>0, <2>2, ListedStep DEF MeanwhileInv
  <2> QED
    BY <2>1, <2>3 DEF Turned, AllListed
<1> QED
  BY <1>1, <1>2, <1>5, <1>6 DEF MeanwhileInv

(***************************************************************************)
(* Who gains a right becomes late, and who loses one lets a page shift.    *)
(***************************************************************************)
LEMMA RightsMeanwhile ==
  ASSUME UserDeletionTypeOK, UserDeletionTypeOK', Meanwhile
  PROVE  /\ late \subseteq late' /\ (~shrunk' => ~shrunk)
         /\ \A right \in Rights : AccessibleIds(right)' \ late' \subseteq AccessibleIds(right)
         /\ ~shrunk' /\ job.pc \in {"list", "look"} =>
              \A right \in Rights : AccessibleIds(right) \subseteq AccessibleIds(right)'
         /\ \A id \in Ids \ late' : HasResource(id)' /\ perms'[id][Gone] # {} =>
              HasResource(id) /\ perms[id][Gone] # {}
<1>1. /\ late' = late \cup {g[1] : g \in RightsOf(Gone)' \ RightsOf(Gone)}
      /\ shrunk' = (shrunk \/ (job.pc \in {"list", "look"}
                              /\ RightsOf(Gone) \ RightsOf(Gone)' # {}))
  BY DEF Meanwhile
<1>2. ASSUME NEW id \in Ids, NEW right \in Rights
      PROVE  /\ <<id, right>> \in RightsOf(Gone) <=> CheckPermission(Gone, id, right)
             /\ <<id, right>> \in RightsOf(Gone)' <=> CheckPermission(Gone, id, right)'
             /\ <<id, right>>[1] = id
  BY DEF RightsOf
<1>3. ASSUME NEW id \in Ids, NEW right \in Rights, CheckPermission(Gone, id, right)',
             ~CheckPermission(Gone, id, right)
      PROVE  id \in late'
  BY <1>1, <1>2, <1>3
<1>4. ASSUME ~shrunk', job.pc \in {"list", "look"}, NEW id \in Ids, NEW right \in Rights,
             CheckPermission(Gone, id, right)
      PROVE  CheckPermission(Gone, id, right)'
  BY <1>1, <1>2, <1>4
<1>5. ASSUME NEW id \in Ids \ late', HasResource(id)', perms'[id][Gone] # {}
      PROVE  HasResource(id) /\ perms[id][Gone] # {}
  <2>1. perms'[id] \in [Users -> SUBSET Rights] /\ Gone \in Users
    BY <1>5, UserDeletionAssumption
    DEF UserDeletionTypeOK, StoresTypeOK, HasResource, Resource
  <2>2. PICK right \in Rights : right \in perms'[id][Gone]
    BY <1>5, <2>1
  <2>3. CheckPermission(Gone, id, right)'
    BY <1>5, <2>2 DEF CheckPermission
  <2> QED
    BY <1>3, <1>5, <2>3 DEF CheckPermission
<1> QED
  BY <1>1, <1>3, <1>4, <1>5 DEF AccessibleIds

(***************************************************************************)
(* With more ids in the list an id does not come forward.                  *)
(***************************************************************************)
LEMMA PositionGrows ==
  ASSUME NEW ids, NEW more \in SUBSET Ids, ids \subseteq more, NEW id
  PROVE  Position(id, ids) <= Position(id, more)
<1>1. {i \in ids : i <= id} \subseteq {i \in more : i <= id}
  OBVIOUS
<1>2. IsFiniteSet({i \in more : i <= id})
  BY UserDeletionAssumption, FS_Subset
<1> QED
  BY <1>1, <1>2, FS_Subset DEF Position

(***************************************************************************)
(* A step of somebody else.                                                *)
(***************************************************************************)
LEMMA MeanwhileStep ==
  ASSUME MeanwhileInv, Meanwhile, StoresTypeOK', ProcessApiTypeOK'
  PROVE  MeanwhileInv'
<1>1. UserDeletionTypeOK'
  BY DEF MeanwhileInv, Meanwhile, UserDeletionTypeOK
<1>2. \A id \in Listed(job) \ stale' : id \notin stale /\ perms'[id] = perms[id]
  BY DEF Meanwhile
<1>3. stale \subseteq stale' /\ job' = job
  BY DEF Meanwhile
<1>4. Faithful(stale)'
  <2>1. job.pc = "erase" => Head(job.toDelete) \in Listed(job)
    BY JobLists DEF MeanwhileInv, UserDeletionTypeOK, Listed
  <2>2. \A s \in Revokes(job) : s.id \in Listed(job)
    BY DEF Listed
  <2>3. Deletes(job) \subseteq Listed(job)
    BY DEF Listed
  <2> QED
    BY <1>2, <1>3, <2>1, <2>2, <2>3 DEF MeanwhileInv, Faithful, HasResource, OtherAdmin
<1>5. ASSUME ~shrunk'
      PROVE  AllListed(late)'
  BY <1>1, <1>3, <1>5, RightsMeanwhile DEF MeanwhileInv, AllListed, Listed
<1>6. ASSUME ~shrunk', job.pc \in {"list", "look"}
      PROVE  Turned(late)'
  <2>1. Turned(late) /\ late \subseteq late'
    BY <1>1, <1>6, RightsMeanwhile DEF MeanwhileInv
  <2>2. ASSUME NEW p \in 1 .. 4
        PROVE  /\ AccessibleIds(Passes[p])' \ late' \subseteq AccessibleIds(Passes[p])
               /\ AccessibleIds(Passes[p]) \subseteq AccessibleIds(Passes[p])'
    <3>1. PICK right \in Rights : right = Passes[p]
      BY DEF Passes, Rights
    <3>2. /\ AccessibleIds(right)' \ late' \subseteq AccessibleIds(right)
          /\ AccessibleIds(right) \subseteq AccessibleIds(right)'
      BY <1>1, <1>6, RightsMeanwhile DEF MeanwhileInv
    <3>3. Passes[p]' = Passes[p]
      BY DEF Passes
    <3> QED
      BY <3>1, <3>2, <3>3 DEF AccessibleIds
  <2>3. job.pass \in 1 .. 4 /\ job.offset \in Nat
    BY PassFacts DEF MeanwhileInv, UserDeletionTypeOK, Job
  <2>4. ASSUME NEW p \in 1 .. job.pass - 1
        PROVE  AccessibleIds(Passes[p])' \ late' \subseteq Listed(job)
    <3>1. p \in 1 .. 4
      BY <2>3
    <3> QED
      BY <1>6, <2>1, <2>2, <3>1 DEF Turned
  <2>5. PICK ids, more : /\ ids = AccessibleIds(Passes[job.pass])
                         /\ more = AccessibleIds(Passes[job.pass])'
    OBVIOUS
  <2>6. /\ more \ late' \subseteq ids /\ ids \subseteq more /\ more \in SUBSET Ids
    <3>1. PICK p \in 1 .. 4 : p = job.pass
      BY <2>3
    <3>2. more = AccessibleIds(Passes[p])'
      BY <1>3, <2>5, <3>1
    <3> QED
      BY <2>2, <2>5, <3>1, <3>2 DEF AccessibleIds
  <2>7. ASSUME NEW id \in more \ late',
               Position(id, more) <= job.offset \/ (job.pc = "look" /\ ~job.full)
        PROVE  id \in Listed(job) \cup job.page
    <3>1. id \in ids /\ id \notin late
      BY <2>1, <2>6, <2>7
    <3>2. Position(id, ids) <= Position(id, more)
      BY <2>6, PositionGrows
    <3>3. Position(id, ids) \in Nat /\ Position(id, more) \in Nat
      BY <2>6, <3>1, Positions
    <3>4. Position(id, ids) <= job.offset \/ (job.pc = "look" /\ ~job.full)
      BY <2>3, <2>7, <3>2, <3>3
    <3> QED
      BY <1>6, <2>1, <2>5, <3>1, <3>4 DEF Turned
  <2> QED
    BY <1>3, <1>6, <2>1, <2>4, <2>5, <2>7 DEF Turned, Listed, Position
<1>7. job.pc \notin {"list", "look"} => Turned(late)'
  BY <1>3 DEF Turned
<1> QED
  BY <1>1, <1>4, <1>5, <1>6, <1>7 DEF MeanwhileInv

(***************************************************************************)
(* Every step keeps the invariant.                                         *)
(***************************************************************************)
LEMMA MeanwhileNextStep ==
  ASSUME MeanwhileInv, [MeanwhileNext]_meanwhileVars
  PROVE  MeanwhileInv'
<1> USE DEF MeanwhileInv
<1>0. StoresTypeOK
  BY DEF UserDeletionTypeOK
<1>1. CASE Attempt
  BY <1>1, AttemptStep
<1>2. CASE CrashAll
  <2>1. job' = JobAt("idle", <<>>, <<>>) /\ stale' = {}
    BY <1>2 DEF CrashAll, CrashJob, NewJob
  <2>2. Faithful(stale)'
    BY <2>1, EmptyLists DEF Faithful, Emptied
  <2>3. UserDeletionTypeOK'
    BY <1>2, TypesStep DEF CrashAll, UserDeletionNext
  <2>4. ProcessApiTypeOK'
    BY <1>2 DEF CrashAll, ProcessApiTypeOK, Stamped, Active, Idle
  <2>5. Turned(late)' /\ AllListed(late)'
    BY <2>1, EmptyLists DEF Turned, AllListed, Emptied
  <2> QED
    BY <2>2, <2>3, <2>4, <2>5
<1>3. ASSUME NEW r \in Requests, AnyRequest(r)
      PROVE  MeanwhileInv'
  BY <1>0, <1>3, ArriveType, ServeType, MeanwhileStep DEF AnyRequest
<1>4. ASSUME NEW id \in Ids, NEW u \in Users, NEW rights \in {{}, {"r"}, Rights},
             Reshare(id, u, rights)
      PROVE  MeanwhileInv'
  <2>1. [perms[id] EXCEPT ![u] = rights] \in Resource
    BY <1>0, <1>4 DEF Reshare, StoresTypeOK, HasResource, Resource, Rights
  <2>2. StoresTypeOK'
    BY <1>0, <1>4, <2>1 DEF Reshare, StoresTypeOK, SetPermission
  <2>3. ProcessApiTypeOK'
    BY <1>4 DEF Reshare, ProcessApiTypeOK, Stamped, Active
  <2> QED
    BY <1>4, <2>2, <2>3, MeanwhileStep DEF Reshare
<1>5. CASE UNCHANGED meanwhileVars
  BY <1>5 DEF meanwhileVars, storeVars, UserDeletionTypeOK, StoresTypeOK,
              ProcessApiTypeOK, Stamped, Active, Faithful, HasResource, OtherAdmin,
              Turned, AllListed, Listed, AccessibleIds, CheckPermission, Position
<1> QED
  BY <1>1, <1>2, <1>3, <1>4, <1>5 DEF MeanwhileNext

(***************************************************************************)
(* The lists are true to the stores but for the stale ids, and complete    *)
(* but for the late ones, in every state.                                  *)
(***************************************************************************)
THEOREM MeanwhileInvariance == MeanwhileSpec => []MeanwhileInv
BY MeanwhileStart, MeanwhileNextStep, PTL DEF MeanwhileSpec

(***************************************************************************)
(* Whatever is created, shared, updated or deleted meanwhile, an attempt   *)
(* that returns without an error has taken every right the user had when   *)
(* it began, if the user lost none while it was listing.                   *)
(***************************************************************************)
THEOREM UserGoneMeanwhileHolds == MeanwhileSpec => []UserGoneMeanwhile
<1>1. MeanwhileInv => UserGoneMeanwhile
  BY DEF MeanwhileInv, AllListed, UserGoneMeanwhile
<1> QED
  BY <1>1, MeanwhileInvariance, PTL

(***************************************************************************)
(* The handler takes nothing from anybody who stays but where the rights   *)
(* have changed after it read them, whoever sends requests or shares.      *)
(***************************************************************************)
THEOREM OthersKeptMeanwhileHolds == MeanwhileSpec => OthersKeptMeanwhile
<1> DEFINE Kept == job' # job => \A id \in Ids \ stale : Untouched(id)
<1>1. ASSUME MeanwhileInv, MeanwhileNext, job' # job
      PROVE  Kept
  <2>1. UserDeletionNext
    BY <1>1 DEF MeanwhileNext, Attempt, CrashAll, AnyRequest, Reshare, Meanwhile,
                UserDeletionNext
  <2>2. PICK S : S = stale
    OBVIOUS
  <2>3. \A id \in Ids \ S : Untouched(id)
    BY <1>1, <2>1, <2>2, FaithfulKeeps DEF MeanwhileInv
  <2> QED
    BY <2>2, <2>3
<1>2. MeanwhileInv /\ [MeanwhileNext]_meanwhileVars => [Kept]_meanwhileVars
  BY <1>1
<1> QED
  BY <1>2, MeanwhileInvariance, PTL DEF MeanwhileSpec, OthersKeptMeanwhile
=============================================================================
