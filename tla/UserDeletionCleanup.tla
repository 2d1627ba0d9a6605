------------------------ MODULE UserDeletionCleanup -------------------------
(***************************************************************************)
(* The deletion of a user's processes (UserDeletion) and the cleanup loop  *)
(* (Cleanup) at work on the same stores. Each may leave the other half     *)
(* done: the handler stops between the two calls of a deletion, or writes  *)
(* permissions back to a resource it has just removed, because a process   *)
(* that is to be deleted is in the revoke list as well; the cleanup        *)
(* removes what the handler is about to read.                              *)
(***************************************************************************)
EXTENDS UserDeletion, Cleanup

systemVars == <<storeVars, job, cleaner>>

SystemInit == UserDeletionInit /\ CleanupInit

Work  == HandleUserDelete /\ UNCHANGED cleaner
Sweep == CleanupStep /\ UNCHANGED job

\* The handler and the cleanup end together.
CrashBoth == CrashJob /\ cleaner' = NoScan

SystemNext == Work \/ Sweep \/ (Redeliver /\ UNCHANGED cleaner) \/ CrashBoth

\* The consumer and the ticker of the cleanup loop never stop.
SystemSpec == /\ SystemInit /\ [][SystemNext]_systemVars
              /\ WF_systemVars(Work) /\ WF_systemVars(Sweep)

-----------------------------------------------------------------------------
(***************************************************************************)
(* In the end nothing is left of the deleted user, in either store: no     *)
(* right, no document without a resource, no resource without a document   *)
(* and no process without an administrator.                                *)
(***************************************************************************)
Settled ==
  \A id \in Ids :
    /\ HasDoc(id) <=> HasResource(id)
    /\ HasResource(id) => perms[id][Gone] = {} /\ OtherAdmin(perms[id])

Settles == <>[]Settled

(***************************************************************************)
(* The cleanup never takes a process somebody else administrates, either,  *)
(* while the handler changes permissions behind its back.                  *)
(***************************************************************************)
OthersKeptBoth == [][OthersUntouched]_systemVars
=============================================================================
