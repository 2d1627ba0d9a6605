---------------------------- MODULE UserDeletion ----------------------------
(***************************************************************************)
(* HandleUserDelete of lib/controller/users.go: what becomes of the        *)
(* processes of a user whose account is deleted. The handler lists every   *)
(* process the user has a right on, page by page and right by right; it    *)
(* deletes those nobody else administrates and takes the user out of the   *)
(* permissions of the others.                                              *)
(*                                                                         *)
(* The handler runs again from the start after an error or a crash, and    *)
(* whenever the message that asked for it is delivered again               *)
(* (lib/source/consumer). One action is one remote call and the local code *)
(* after it.                                                               *)
(***************************************************************************)
EXTENDS Stores, FiniteSets, Sequences, SequencesExt

CONSTANTS
  Gone,   \* the deleted user
  Batch,  \* ResourcesEffectedByUserDelete_BATCH_SIZE
  Shares  \* bound: the ways processes are shared at the start

ASSUME UserDeletionAssumption ==
  /\ Gone \in Users
  /\ Batch \in Nat \ {0}
  /\ Ids \subseteq Nat
  /\ Shares \subseteq Resource
  /\ \A perm \in Shares : \E u \in Users : "a" \in perm[u]
  /\ IsFiniteSet(Ids)

VARIABLE job   \* the local variables of HandleUserDelete

(***************************************************************************)
(* pass and offset tell which page comes next, page what is left of this   *)
(* one, full whether it was a full one. toDelete and toRevoke are the two  *)
(* lists, worked in order; toRevoke keeps each resource as it was when it  *)
(* was read. An id may be listed twice: when a page shifts under the first *)
(* pass it comes again, and the first pass does not look whether it did.   *)
(***************************************************************************)
JobAt(pc, toDelete, toRevoke) ==
  [pc |-> pc, pass |-> 1, offset |-> 0, page |-> {}, full |-> FALSE,
   toDelete |-> toDelete, toRevoke |-> toRevoke]

NewJob == JobAt("idle", <<>>, <<>>)

Snapshot   == [id : Ids, perm : Resource]
Deletes(j) == ToSet(j.toDelete)
Revokes(j) == ToSet(j.toRevoke)
Listed(j)  == Deletes(j) \cup {s.id : s \in Revokes(j)}

Passes == <<"a", "r", "w", "x">>

Job == [pc : {"idle", "list", "look", "remove", "erase", "revoke", "done", "failed"},
        pass : 1 .. Len(Passes), offset : Nat, page : SUBSET Ids, full : BOOLEAN,
        toDelete : Seq(Ids), toRevoke : Seq(Snapshot)]

-----------------------------------------------------------------------------
(* permissions-v2 lists the ids a user has a right on in a fixed order. *)

AccessibleIds(right) == {id \in Ids : CheckPermission(Gone, id, right)}

Position(id, ids) == Cardinality({i \in ids : i <= id})

ListAccessibleResourceIds(right, offset) ==
  LET ids == AccessibleIds(right)
  IN  {id \in ids : Position(id, ids) \in offset + 1 .. offset + Batch}

First(ids) == CHOOSE id \in ids : \A i \in ids : id <= i

\* containsOtherAdmin
OtherAdmin(perm) == \E u \in Users \ {Gone} : "a" \in perm[u]

-----------------------------------------------------------------------------
(* Local code between two calls. *)

\* Mutant: the permissions are written before the deletions.
RevokeFirst(j) == JobAt(IF j.toRevoke # <<>> THEN "revoke"
                        ELSE IF j.toDelete # <<>> THEN "remove" ELSE "done",
                        j.toDelete, j.toRevoke)

\* From the lists to the calls that empty them.
Act(j) == JobAt(IF j.toDelete # <<>> THEN "remove"
                ELSE IF j.toRevoke # <<>> THEN "revoke" ELSE "done",
                j.toDelete, j.toRevoke)

\* Mutant: the next right is listed from where the last one ended.
KeepOffset(j) == [j EXCEPT !.pc = "list", !.pass = @ + 1]

NextPass(j) == [j EXCEPT !.pc = "list", !.pass = @ + 1, !.offset = 0]

\* Mutants: the first page of a right is its last; only three passes.
OnePageEach(j) == IF j.page # {} THEN [j EXCEPT !.pc = "look"]
                  ELSE IF j.pass < Len(Passes) THEN NextPass(j)
                  ELSE Act(j)
ThreePasses(j) == IF j.page # {} THEN [j EXCEPT !.pc = "look"]
                  ELSE IF j.full THEN [j EXCEPT !.pc = "list"]
                  ELSE IF j.pass < Len(Passes) - 1 THEN NextPass(j)
                  ELSE Act(j)

\* iterateResource goes on after a full page, else the next right follows.
Proceed(j) == IF j.page # {} THEN [j EXCEPT !.pc = "look"]
              ELSE IF j.full THEN [j EXCEPT !.pc = "list"]
              ELSE IF j.pass < Len(Passes) THEN NextPass(j)
              ELSE Act(j)

\* Mutants: any other user will do as an administrator; and the reverse.
AnyOtherUser(j, id) ==
  IF \E u \in Users \ {Gone} : perms[id][u] # {}
  THEN [j EXCEPT !.toRevoke = Append(@, [id |-> id, perm |-> perms[id]])]
  ELSE [j EXCEPT !.toDelete = Append(@, id)]
AlwaysDelete(j, id) == [j EXCEPT !.toDelete = Append(@, id)]

\* The handlers of the four passes. The first decides about deletion, and
\* appends what it is handed; the others spare what has a snapshot already.
Sort(j, id) ==
  IF j.pass = 1 /\ ~OtherAdmin(perms[id])
  THEN [j EXCEPT !.toDelete = Append(@, id)]
  ELSE IF j.pass # 1 /\ \E s \in Revokes(j) : s.id = id
  THEN j
  ELSE [j EXCEPT !.toRevoke = Append(@, [id |-> id, perm |-> perms[id]])]

\* An error ends the attempt.
FailJob == job' = JobAt("failed", <<>>, <<>>)

-----------------------------------------------------------------------------
\* Mutant: a failed attempt is not repeated.
StartOnce ==
  /\ job.pc = "idle"
  /\ job' = JobAt("list", <<>>, <<>>)
  /\ UNCHANGED storeVars

Start ==
  /\ job.pc \in {"idle", "failed"}
  /\ job' = JobAt("list", <<>>, <<>>)
  /\ UNCHANGED storeVars

\* The message comes once more: it was handled, but not committed.
Redeliver ==
  /\ job.pc = "done"
  /\ Fails
  /\ job' = NewJob
  /\ UNCHANGED <<docs, perms, now, released, acked>>

\* The process ends in the middle of the handler.
CrashJob ==
  /\ job.pc \notin {"idle", "done"}
  /\ Fails
  /\ job' = NewJob
  /\ UNCHANGED <<docs, perms, now, released, acked>>

ListPage ==
  /\ job.pc = "list"
  /\ \/ /\ Answers
        /\ LET page == ListAccessibleResourceIds(Passes[job.pass], job.offset)
           IN  job' = Proceed([job EXCEPT !.page = page,
                                          !.offset = @ + Batch,
                                          !.full = Cardinality(page) = Batch])
     \/ Fails /\ FailJob
  /\ UNCHANGED <<docs, perms, now, released, acked>>

\* A resource that is gone by now answers 404, an error like any other.
Look ==
  /\ job.pc = "look"
  /\ LET id == First(job.page)
     IN  \/ /\ Answers
            /\ HasResource(id)
            /\ job' = Proceed(Sort([job EXCEPT !.page = @ \ {id}], id))
         \/ /\ Answers
            /\ ~HasResource(id)
            /\ FailJob
         \/ Fails /\ FailJob
  /\ UNCHANGED <<docs, perms, now, released, acked>>

\* Mutant: the document is left to the cleanup.
RemoveOnlyRights(id) ==
  /\ job.pc = "remove"
  /\ job.toDelete # <<>> /\ id = Head(job.toDelete)
  /\ Release(id)
  /\ Answers
  /\ RemoveResource(id)
  /\ job' = Act([job EXCEPT !.toDelete = Tail(@)])
  /\ UNCHANGED <<docs, now, acked>>

\* deleteProcess of the next id of the list, its two calls.
RemoveRights(id) ==
  /\ job.pc = "remove"
  /\ job.toDelete # <<>> /\ id = Head(job.toDelete)
  /\ Release(id)
  /\ \/ /\ Answers
        /\ RemoveResource(id)
        /\ job' = [job EXCEPT !.pc = "erase"]
     \/ /\ Fails
        /\ RemoveResource(id) \/ UNCHANGED perms
        /\ FailJob
  /\ UNCHANGED <<docs, now, acked>>

Erase(id) ==
  /\ job.pc = "erase"
  /\ job.toDelete # <<>> /\ id = Head(job.toDelete)
  /\ \/ /\ Answers
        /\ DbDeleteProcess(id)
        /\ job' = Act([job EXCEPT !.toDelete = Tail(@)])
     \/ /\ Fails
        /\ DbDeleteProcess(id) \/ UNCHANGED docs
        /\ FailJob
  /\ UNCHANGED <<perms, now, released, acked>>

\* The user's key is taken out; who has no key has no rights.
Without(perm) == [perm EXCEPT ![Gone] = {}]

\* The service may refuse permissions that leave nobody in charge; whether it
\* does is up to permissions-v2.
Refused(perm) == ~OtherAdmin(perm)

Revoke(s) ==
  /\ job.pc = "revoke"
  /\ job.toRevoke # <<>> /\ s = Head(job.toRevoke)
  /\ \/ /\ Answers
        /\ SetPermission(s.id, Without(s.perm))
        /\ job' = Act([job EXCEPT !.toRevoke = Tail(@)])
     \/ /\ Answers
        /\ Refused(s.perm)
        /\ FailJob
        /\ UNCHANGED perms
     \/ /\ Fails
        /\ SetPermission(s.id, Without(s.perm)) \/ UNCHANGED perms
        /\ FailJob
  /\ UNCHANGED <<docs, now, released, acked>>

-----------------------------------------------------------------------------
\* Every process is complete; each is shared in one of the ways of Shares.
UserDeletionInit ==
  /\ docs = [id \in Ids |-> [owner |-> NoOwner, updated |-> NoStamp]]
  /\ perms \in [Ids -> Shares]
  /\ now = 1 /\ faults = 0 /\ released = {} /\ acked = {}
  /\ job = NewJob

\* The steps of a handler at work.
HandleUserDelete == \/ Start \/ ListPage \/ Look
                    \/ \E id \in Ids : RemoveRights(id) \/ Erase(id)
                    \/ \E s \in Revokes(job) : Revoke(s)

UserDeletionNext == HandleUserDelete \/ Redeliver \/ CrashJob

deletionVars == <<storeVars, job>>

\* The consumer keeps calling the handler until it returns without an error.
UserDeletionSpec == /\ UserDeletionInit /\ [][UserDeletionNext]_deletionVars
                    /\ WF_deletionVars(HandleUserDelete)

-----------------------------------------------------------------------------
\* The values of the variables; every resource keeps an entry per user, and
\* there is something to look at, and to erase.
UserDeletionTypeOK ==
  /\ StoresTypeOK
  /\ job \in Job
  /\ job.pc = "look" => job.page # {}
  /\ job.pc = "erase" => job.toDelete # <<>>

(***************************************************************************)
(* Once the handler has returned without an error the deleted user has no  *)
(* right on anything, whatever the number of pages, and whatever failed or *)
(* was repeated before.                                                    *)
(***************************************************************************)
UserGone ==
  job.pc = "done" =>
    \A id \in Ids : HasResource(id) => perms[id][Gone] = {}

(***************************************************************************)
(* A process somebody else administrates survives the deletion of a user   *)
(* (containsOtherAdmin): its document stays and nobody else loses a right. *)
(***************************************************************************)
Untouched(id) ==
  HasResource(id) /\ OtherAdmin(perms[id]) =>
    /\ docs'[id] = docs[id]
    /\ HasResource(id)'
    /\ \A u \in Users \ {Gone} : perms'[id][u] = perms[id][u]

OthersUntouched == \A id \in Ids : Untouched(id)

OthersKeep == [][OthersUntouched]_deletionVars

(***************************************************************************)
(* No process is left that nobody can administrate: what only the deleted  *)
(* user did is not readable for anyone any more.                           *)
(***************************************************************************)
NoneOrphaned ==
  job.pc = "done" => \A id \in Ids : Intact(id) => OtherAdmin(perms[id])

(***************************************************************************)
(* An attempt that met no failure leaves no document without its resource; *)
(* what a failed one leaves is up to the cleanup loop.                     *)
(***************************************************************************)
CleanSweep ==
  job.pc = "done" /\ faults = 0 =>
    \A id \in Ids : HasDoc(id) => HasResource(id)

(***************************************************************************)
(* The handler comes to an end without an error once calls succeed.        *)
(***************************************************************************)
Completes == <>[](job.pc = "done")

-----------------------------------------------------------------------------
(***************************************************************************)
(* Why they hold. The lists are true to the stores, but for the ids in S:  *)
(* a snapshot is what the resource is, or what the handler has made of it  *)
(* with an equal one; a process to be deleted has no other administrator,  *)
(* and the one being erased has no rights any more.                        *)
(***************************************************************************)
Faithful(S) ==
  /\ \A s \in Revokes(job) : s.id \notin S =>
       \/ perms[s.id] \in {s.perm, NoResource}
       \/ job.pc = "revoke" /\ perms[s.id] = Without(s.perm)
  /\ \A s, t \in Revokes(job) : s.id = t.id /\ s.id \notin S => s.perm = t.perm
  /\ \A id \in Deletes(job) \ S : HasResource(id) => ~OtherAdmin(perms[id])
  /\ job.pc = "erase" => Head(job.toDelete) \in S \/ ~HasResource(Head(job.toDelete))
  /\ job.pc = "revoke" => job.toDelete = <<>>

(***************************************************************************)
(* While it lists, everything up to the offset is on a list or the page,   *)
(* and everything of the passes before; then all that is still to be taken *)
(* from the user is on a list, and the one being erased is not among it.   *)
(* Both but for the ids in L.                                              *)
(***************************************************************************)
Turned(L) ==
  job.pc \in {"list", "look"} =>
    /\ \A p \in 1 .. job.pass - 1 : AccessibleIds(Passes[p]) \ L \subseteq Listed(job)
    /\ LET ids == AccessibleIds(Passes[job.pass])
       IN  \A id \in ids \ L :
             \/ Position(id, ids) <= job.offset
             \/ job.pc = "look" /\ ~job.full
             => id \in Listed(job) \cup job.page
    /\ job.pc = "list" => job.page = {}

AllListed(L) ==
  /\ job.pc \in {"remove", "erase", "revoke", "done"} =>
       \A id \in Ids \ L : HasResource(id) /\ perms[id][Gone] # {} =>
         /\ id \in Listed(job)
         /\ job.pc = "erase" => id # Head(job.toDelete)
  /\ job.pc = "done" => Listed(job) = {}

(***************************************************************************)
(* A complete process has an administrator; who has a snapshot without one *)
(* is deleted first. Without a failure a document loses its resource only  *)
(* on the way to being erased.                                             *)
(***************************************************************************)
Administrated ==
  /\ \A id \in Ids : Intact(id) => OtherAdmin(perms[id]) \/ "a" \in perms[id][Gone]
  /\ \A s \in Revokes(job) :
       OtherAdmin(s.perm) \/ s.id \in Deletes(job) \/ ~HasDoc(s.id)

NoneLeft ==
  faults = 0 => \A id \in Ids : HasDoc(id) =>
                  HasResource(id) \/ (job.pc = "erase" /\ id = Head(job.toDelete))

\* The inductive invariant of the handler.
DeletionInv == /\ UserDeletionTypeOK /\ Faithful({}) /\ Turned({}) /\ AllListed({})
               /\ Administrated /\ NoneLeft
=============================================================================
