------------------------ MODULE UserDeletionRequests ------------------------
(***************************************************************************)
(* The deletion of a user's processes (UserDeletion) while requests come   *)
(* in (ProcessApi), from users who stay and from the one who is to go,     *)
(* whose token lives on for a while, and while processes are shared.       *)
(*                                                                         *)
(* The handler lists, reads and writes in calls of its own: pages shift    *)
(* under it, and what it writes back may be out of date. The properties    *)
(* say which damage that can do, and that there is no other.               *)
(***************************************************************************)
EXTENDS UserDeletion, ProcessApi

CONSTANTS
  Unused,    \* ids of processes that are yet to be created
  MaxOthers  \* bound: requests and shares in one behaviour

VARIABLES
  late,    \* history: ids the user got a right on since the attempt began
  shrunk,  \* history: the user lost a right while the attempt was listing
  stale,   \* history: ids on a list whose rights have changed since
  others   \* requests and shares so far

meanwhileVars == <<storeVars, job, req, late, shrunk, stale, others>>

RightsOf(u) == {g \in Ids \X Rights : CheckPermission(u, g[1], g[2])}

-----------------------------------------------------------------------------
MeanwhileInit ==
  /\ docs = [id \in Ids |-> IF id \in Unused THEN NoDoc
                            ELSE [owner |-> NoOwner, updated |-> NoStamp]]
  /\ perms \in [Ids -> Shares \cup {NoResource}]
  /\ \A id \in Ids : HasDoc(id) <=> HasResource(id)
  /\ now = 1 /\ faults = 0 /\ released = {} /\ acked = {}
  /\ job = NewJob /\ ProcessApiInit
  /\ late = {} /\ shrunk = FALSE /\ stale = {} /\ others = 0

\* An attempt starts over with what it finds.
Attempt ==
  LET begins == job.pc \in {"idle", "failed"}
  IN  /\ HandleUserDelete \/ Redeliver
      /\ late'   = IF begins THEN {} ELSE late
      /\ shrunk' = (shrunk /\ ~begins)
      /\ stale'  = stale \cap Listed(job')
      /\ UNCHANGED <<req, others>>

\* What a step of somebody else means for the attempt.
Meanwhile ==
  LET gained == RightsOf(Gone)' \ RightsOf(Gone)
      lost   == RightsOf(Gone) \ RightsOf(Gone)'
  IN  /\ late'   = late \cup {g[1] : g \in gained}
      /\ shrunk' = (shrunk \/ (job.pc \in {"list", "look"} /\ lost # {}))
      /\ stale'  = stale \cup {id \in Listed(job) : perms'[id] # perms[id]}
      /\ UNCHANGED job

Another == others < MaxOthers /\ others' = others + 1

AnyRequest(r) == /\ (Arrive(r) /\ Another) \/ (Serve(r) /\ UNCHANGED others)
                 /\ Meanwhile

\* Another user of permissions-v2 shares a process with a user who stays, or
\* takes a share back; there is an administrator before and after.
Reshare(id, u, rights) ==
  /\ HasResource(id) /\ u # Gone /\ Another
  /\ SetPermission(id, [perms[id] EXCEPT ![u] = rights])
  /\ \E v \in Users : "a" \in perms'[id][v]
  /\ UNCHANGED <<docs, now, faults, released, acked, req>>
  /\ Meanwhile

\* The process ends: the handler and the requests in flight with it.
CrashAll == /\ CrashJob
            /\ req' = [r \in Requests |-> Idle]
            /\ stale' = {}
            /\ UNCHANGED <<late, shrunk, others>>

MeanwhileNext ==
  \/ Attempt \/ CrashAll
  \/ \E r \in Requests : AnyRequest(r)
  \/ \E id \in Ids, u \in Users, rights \in {{}, {"r"}, Rights} : Reshare(id, u, rights)

MeanwhileSpec == MeanwhileInit /\ [][MeanwhileNext]_meanwhileVars

-----------------------------------------------------------------------------
(***************************************************************************)
(* An attempt that returned without an error has taken every right from    *)
(* the user, whatever was created, shared, updated or deleted meanwhile,   *)
(* but for rights the user got after it began. Only when the user lost a   *)
(* right while the attempt was listing may a page have been skipped        *)
(* (iterateResource pages by offset).                                      *)
(***************************************************************************)
UserGoneMeanwhile ==
  job.pc = "done" /\ ~shrunk =>
    \A id \in Ids \ late : HasResource(id) => perms[id][Gone] = {}

(***************************************************************************)
(* The handler takes no process, and no right, from anybody who stays, if  *)
(* the rights on the process did not change after the handler read them:   *)
(* sharing is lost to it only in the time from the page to the write. That *)
(* holds for an id that is listed, and worked, twice, too.                 *)
(***************************************************************************)
OthersKeptMeanwhile ==
  [][job' # job => \A id \in Ids \ stale : Untouched(id)]_meanwhileVars

-----------------------------------------------------------------------------
(***************************************************************************)
(* Why they hold: the inductive invariant. The lists of the handler stay   *)
(* true to the stores but for the stale ids, and complete but for the late *)
(* ones, as long as no page shifted under it.                              *)
(***************************************************************************)
MeanwhileInv == /\ UserDeletionTypeOK /\ ProcessApiTypeOK /\ Faithful(stale)
                /\ ~shrunk => Turned(late) /\ AllListed(late)
=============================================================================
