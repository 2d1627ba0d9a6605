------------------------------ MODULE Cleanup -------------------------------
(***************************************************************************)
(* The cleanup loop of lib/controller/cleanup.go: on every tick of its     *)
(* interval it compares the two stores and removes whatever one of them    *)
(* has alone. It runs beside the requests and shares nothing with them but *)
(* the stores. One action is one remote call and the local code after it.  *)
(***************************************************************************)
EXTENDS Stores

VARIABLE cleaner  \* the local variables of Cleanup and CheckIdList

NoScan == [pc |-> "idle", at |-> 0, ids |-> {}, noDoc |-> {}, noPerm |-> {}]

(***************************************************************************)
(* pc: "listed"  ids is what permissions-v2 listed at the tick at,         *)
(*     "known"   noDoc is known, and at is the clock read for the cutoff,  *)
(*     "clean"   noDoc and noPerm are what is left to remove.              *)
(***************************************************************************)
Scan == [pc : {"idle", "listed", "known", "clean"}, at : Nat,
         ids : SUBSET Ids, noDoc : SUBSET Ids, noPerm : SUBSET Ids]

\* Cleanup returns when both loops are through.
Rest(noDoc, noPerm) ==
  IF noDoc = {} /\ noPerm = {}
  THEN NoScan
  ELSE [pc |-> "clean", at |-> 0, ids |-> {},
        noDoc |-> noDoc, noPerm |-> noPerm]

\* Every error ends the run; the next one starts over.
GiveUp == cleaner' = NoScan

-----------------------------------------------------------------------------
ListResources ==
  /\ cleaner.pc = "idle"
  /\ \/ /\ Answers
        /\ cleaner' = [pc |-> "listed", at |-> now,
                        ids |-> AdminListResourceIds,
                        noDoc |-> {}, noPerm |-> {}]
     \/ Fails /\ GiveUp
  /\ UNCHANGED <<docs, perms, now, released, acked>>

\* CheckIdList, the first query.
ListDocs ==
  /\ cleaner.pc = "listed"
  /\ \/ /\ Answers
        /\ cleaner' = [pc |-> "known", at |-> now, ids |-> cleaner.ids,
                        noDoc |-> MissingInDb(cleaner.ids), noPerm |-> {}]
     \/ Fails /\ GiveUp
  /\ UNCHANGED <<docs, perms, now, released, acked>>

\* CheckIdList, the second query.
ListOrphans ==
  /\ cleaner.pc = "known"
  /\ \/ /\ Answers
        /\ cleaner' = Rest(cleaner.noDoc,
                           MissingInInput(cleaner.ids, cleaner.at))
     \/ Fails /\ GiveUp
  /\ UNCHANGED <<docs, perms, now, released, acked>>

\* The first loop of Cleanup.
CleanResource(id) ==
  /\ cleaner.pc = "clean"
  /\ id \in cleaner.noDoc
  /\ \/ /\ Answers
        /\ RemoveResource(id)
        /\ cleaner' = Rest(cleaner.noDoc \ {id}, cleaner.noPerm)
     \/ /\ Fails
        /\ RemoveResource(id) \/ UNCHANGED perms
        /\ GiveUp
  /\ UNCHANGED <<docs, now, released, acked>>

\* The second loop of Cleanup.
CleanDoc(id) ==
  /\ cleaner.pc = "clean"
  /\ cleaner.noDoc = {}
  /\ id \in cleaner.noPerm
  /\ \/ /\ Answers
        /\ DbDeleteProcess(id)
        /\ cleaner' = Rest({}, cleaner.noPerm \ {id})
     \/ /\ Fails
        /\ DbDeleteProcess(id) \/ UNCHANGED docs
        /\ GiveUp
  /\ UNCHANGED <<perms, now, released, acked>>

-----------------------------------------------------------------------------
CleanupInit == cleaner = NoScan

CleanupStep == \/ ListResources \/ ListDocs \/ ListOrphans
               \/ \E id \in Ids : CleanResource(id) \/ CleanDoc(id)

CleanupTypeOK ==
  /\ cleaner \in Scan
  /\ cleaner.at <= now
=============================================================================
