------------------------- MODULE ProcessRepository --------------------------
(***************************************************************************)
(* The process-model-repository in operation: the write requests           *)
(* (ProcessApi) and the cleanup loop (Cleanup) interleave on the two       *)
(* stores, users share processes in permissions-v2, the clock moves and    *)
(* the service may crash and come back.                                    *)
(***************************************************************************)
EXTENDS ProcessApi, Cleanup

CONSTANTS
  RequestTime,  \* a create stores its document and its rights within this
  ScanTime,     \* the cleanup reads its cutoff within this of its list
  MaxTime       \* bound: the last tick of the clock

(***************************************************************************)
(* The assumption behind CleanupLastUpdateTimeBuffer: a create that began  *)
(* before the list of resources was taken has its rights stored before its *)
(* document counts as old. The code bounds the database calls of a create  *)
(* by TIMEOUT (10s, against a buffer of one minute) and nothing else.      *)
(***************************************************************************)
ASSUME ProcessRepositoryAssumption ==
  /\ RequestTime \in Nat
  /\ ScanTime \in Nat
  /\ RequestTime + ScanTime <= Buffer
  /\ MaxTime \in Nat

vars == <<storeVars, req, cleaner>>

-----------------------------------------------------------------------------
\* A user of permissions-v2 lets another user see and change a process.
Share(id, u) ==
  /\ HasResource(id)
  /\ now <= LastArrival
  /\ perms' = [perms EXCEPT ![id][u] = @ \cup {"r", "w"}]
  /\ UNCHANGED <<docs, now, faults, released, acked, req, cleaner>>

\* main.go: every goroutine ends wherever it is; both stores survive.
Crash ==
  /\ Fails
  /\ req' = [r \in Requests |-> Idle]
  /\ cleaner' = NoScan
  /\ UNCHANGED <<docs, perms, now, released, acked>>

\* A create that has not stored its rights, and not been answered, yet.
Unfinished(r) == Creating(r) /\ req[r].pc # "rollback"

CreatesInTime == \A r \in Requests :
                   Unfinished(r) => now < req[r].stamp + RequestTime
ScansInTime   == cleaner.pc = "listed" => now < cleaner.at + ScanTime

\* Bound: after the last arrival the clock waits for requests in flight.
Drained == now > LastArrival => \A r \in Requests : ~Active(r)

Tick ==
  /\ now < MaxTime
  /\ CreatesInTime
  /\ ScansInTime
  /\ Drained
  /\ now' = now + 1
  /\ UNCHANGED <<docs, perms, faults, released, acked, req, cleaner>>

-----------------------------------------------------------------------------
Init == StoresInit /\ ProcessApiInit /\ CleanupInit

Request(r) == (Arrive(r) \/ Serve(r)) /\ UNCHANGED cleaner
Clean      == CleanupStep /\ UNCHANGED req

Next == \/ \E r \in Requests : Request(r)
        \/ Clean
        \/ \E id \in Ids, u \in Users : Share(id, u)
        \/ Crash
        \/ Tick

Spec == Init /\ [][Next]_vars

(***************************************************************************)
(* A goroutine in flight is scheduled until it returns, the ticker of the  *)
(* cleanup loop never stops, and time passes. Nothing makes users act.     *)
(***************************************************************************)
Fairness == /\ \A r \in Requests : WF_vars(Serve(r) /\ UNCHANGED cleaner)
            /\ WF_vars(Clean)
            /\ WF_vars(Tick)

FairSpec == Spec /\ Fairness

-----------------------------------------------------------------------------
\* The values of the variables; no request carries a stamp from the future.
TypeOK == StoresTypeOK /\ ProcessApiTypeOK /\ CleanupTypeOK

(***************************************************************************)
(* A process whose create, update or publish was answered with success is  *)
(* still there, in both stores, unless a user deleted it or it was found   *)
(* incomplete: no interleaving of CreateProcess, UpdateProcess and Cleanup *)
(* loses it.                                                               *)
(***************************************************************************)
Durability == \A id \in acked \ released : Intact(id)

(***************************************************************************)
(* Outside a deletion, a failed create and a repair the rights on a        *)
(* process never stand without its document: SetProcess writes the         *)
(* document first, and CheckIdList spares what it cannot have seen listed. *)
(***************************************************************************)
ResourceHasDoc ==
  \A id \in Ids : id \notin released /\ HasResource(id) => HasDoc(id)

(***************************************************************************)
(* No step, the cleanup's and a crash's included, takes away a document or *)
(* a resource of a complete process that is not released.                  *)
(***************************************************************************)
StayIntact ==
  \A id \in Ids : id \notin released' /\ Intact(id) => Intact(id)'

KeepsIntact == [][StayIntact]_vars

(***************************************************************************)
(* Once written the owner of a process stays the same, whoever updates or  *)
(* publishes it (UpdateProcess keeps old.Owner): a legacy document may be  *)
(* taken over, and an update of a missing one starts anew.                 *)
(***************************************************************************)
SameOwner ==
  \A id \in Ids \ Legacy :
    id \notin released' /\ HasDoc(id) /\ HasDoc(id)'
      => docs'[id].owner = docs[id].owner

OwnerStable == [][SameOwner]_vars

(***************************************************************************)
(* SetProcess writes rights only if it finds none: rights a user was given *)
(* on a process that is not released are neither overwritten nor removed.  *)
(* An update that finds the resource missing releases the process: from    *)
(* there on a second update may overwrite what the first one, or somebody  *)
(* who shares, stored between the look and the write. So do a deletion and *)
(* a create that fails.                                                    *)
(***************************************************************************)
NoRightLost ==
  \A id \in Ids : id \notin released' /\ HasResource(id)
    => /\ HasResource(id)'
       /\ \A u \in Users : perms[id][u] \subseteq perms'[id][u]

RightsKept == [][NoRightLost]_vars

(***************************************************************************)
(* The two stores, the requests and the cleanup together implement the     *)
(* registry of ProcessRegistry.                                            *)
(***************************************************************************)
Registry == INSTANCE ProcessRegistry
              WITH present <- {id \in Ids : Intact(id)}
Refinement == Registry!RegistrySpec

(***************************************************************************)
(* Whatever failed or crashed halfway, once no more requests arrive the    *)
(* cleanup loop leaves the two stores with the same ids, for good.         *)
(***************************************************************************)
Convergence == <>[](\A id \in Ids : HasDoc(id) <=> HasResource(id))

-----------------------------------------------------------------------------
(***************************************************************************)
(* Why they hold: the inductive invariant. Everything is about ids that    *)
(* are not released; released only grows.                                  *)
(***************************************************************************)
Owed == Ids \ released

\* The labels of a request fit its operation; what erases a process, or puts
\* back its rights, has it released.
Labels ==
  /\ \A r \in Requests :
       Creating(r) => req[r].pc \in {"write", "lookup", "grant", "rollback"}
  /\ \A r \in Requests :
       Active(r) /\ (\/ req[r].pc \in {"rollback", "erase"}
                     \/ req[r].pc = "grant" /\ ~Creating(r))
         => req[r].id \in released

\* Requests with the document of id in hand, to be written next.
Writing(r, id) == Active(r) /\ req[r].pc = "write" /\ req[r].id = id

\* A create has its id for itself until its document is stored, and it is
\* in time; no later write of the document carries an older stamp.
CreateExclusive ==
  /\ \A r, q \in Requests :
       Creating(r) /\ Active(q) /\ r # q /\ req[r].id = req[q].id
         => ~Creating(q) /\ req[r].pc # "write"
  /\ \A r \in Requests :
       Unfinished(r) =>
         /\ now <= req[r].stamp + RequestTime
         /\ req[r].id \in Owed =>
              /\ ~HasResource(req[r].id)
              /\ HasDoc(req[r].id) <=> req[r].pc # "write"
              /\ HasDoc(req[r].id) =>
                   /\ docs[req[r].id].updated >= req[r].stamp
                   /\ \A q \in Requests : Writing(q, req[r].id)
                        => req[q].stamp >= req[r].stamp

\* Writes of a document agree on its owner.
OwnersAgree ==
  \A id \in Ids \ Legacy :
    /\ HasDoc(id) => docs[id].owner \in Users
    /\ \A r \in Requests : Writing(r, id) =>
         /\ req[r].owner \in Users
         /\ id \in Owed /\ HasDoc(id) => req[r].owner = docs[id].owner

\* What the cleanup holds is true of the stores, and stays true.
ScanSound ==
  /\ cleaner.pc = "listed" => now <= cleaner.at + ScanTime
  /\ \A id \in Owed :
       /\ id \in cleaner.ids => HasResource(id)
       /\ id \notin cleaner.noDoc
       /\ id \in cleaner.noPerm =>
            /\ HasDoc(id) /\ ~HasResource(id)
            /\ \A r \in Requests : Unfinished(r) => req[r].id # id

\* The age the cleanup sees, or will see, of a process it did not list.
TooYoung(stamp) ==
  /\ stamp # NoStamp
  /\ cleaner.pc = "listed" => stamp + RequestTime >= cleaner.at
  /\ cleaner.pc = "known"  => stamp + RequestTime + ScanTime >= cleaner.at

UnlistedYoung ==
  \A id \in Owed :
    HasResource(id) /\ cleaner.pc \in {"listed", "known"} /\ id \notin cleaner.ids
      => /\ TooYoung(docs[id].updated)
         /\ \A r \in Requests : Writing(r, id) => TooYoung(req[r].stamp)

\* The inductive invariant of the requests and the cleanup.
IndInv == /\ TypeOK
          /\ Durability
          /\ ResourceHasDoc
          /\ Labels
          /\ CreateExclusive
          /\ OwnersAgree
          /\ ScanSound
          /\ UnlistedYoung
=============================================================================
