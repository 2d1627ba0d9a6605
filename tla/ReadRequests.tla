---------------------------- MODULE ReadRequests ----------------------------
(***************************************************************************)
(* The requests that read processes: one of them, the published ones, or a *)
(* list with its ids, search, order, page and total (lib/api/process.go    *)
(* and what it calls).                                                     *)
(*                                                                         *)
(* A request asks permissions-v2 what its user may see, then MongoDB for   *)
(* the documents, and for a list once more for their number. Other         *)
(* requests change documents and rights between these calls, and between   *)
(* the pages a client asks for one after the other.                        *)
(***************************************************************************)
EXTENDS Naturals, SequencesExt, FiniteSetsExt

CONSTANTS
  Ids,       \* process ids
  Keys,      \* what a document says: the values of the field lists are
             \* sorted by, in their order
  Public,    \* the keys of published documents
  Options,   \* what clients ask lists for
  NoDoc,     \* no document under this id
  NoFilter,  \* nil: documents are not selected by their id
  MaxChanges \* bound: steps of other requests during a request or walk

\* ids: nil, or those that are named; search: the keys that match; limit 0
\* stands for none.
ListOptions == [ids : (SUBSET Ids) \cup {NoFilter}, search : SUBSET Keys, limit : Nat,
                offset : Nat, descending : BOOLEAN, admin : BOOLEAN]

ASSUME ReadRequestsAssumption ==
  /\ IsFiniteSet(Ids) /\ Keys \subseteq Nat /\ NoDoc \notin Keys
  /\ \A ids \in SUBSET Ids : ids # NoFilter
  /\ Public \subseteq Keys /\ MaxChanges \in Nat
  /\ Options \subseteq ListOptions

VARIABLES
  docs,    \* docs[id]: the key of the document under id, or NoDoc
  rights,  \* the ids permissions-v2 gives the user the right asked for on
  call,    \* the request and its local variables
  walk     \* history: the pages of a list a client has read so far

readVars == <<docs, rights, call, walk>>

HasDoc(id) == docs[id] # NoDoc

(***************************************************************************)
(* A request for one process, for the published ones, or for a list.       *)
(* filter is what the database is asked for, allowed the answer of         *)
(* permissions-v2; quiet tells that no document has changed since the      *)
(* database was asked for the page.                                        *)
(***************************************************************************)
Idle == [pc |-> "idle", kind |-> "public", ids |-> NoFilter, search |-> Public,
         limit |-> 0, offset |-> 0, descending |-> FALSE, admin |-> FALSE,
         filter |-> NoFilter, allowed |-> {}, found |-> <<>>, total |-> 0,
         quiet |-> TRUE, changes |-> 0]

-----------------------------------------------------------------------------
(* The queries of Mongo.ListProcesses. *)

\* Mutant: an empty list of ids is no filter.
EmptyIsNone(c) == {id \in Ids : /\ HasDoc(id) /\ docs[id] \in c.search
                                /\ c.filter \in {NoFilter, {}} \/ id \in c.filter}

Matching(c) == {id \in Ids : /\ HasDoc(id) /\ docs[id] \in c.search
                             /\ c.filter = NoFilter \/ id \in c.filter}

\* Mutant: in any order.
Unsorted(c) == SetToSeqs(Matching(c))

\* Documents with the same key come in any order, a new one every time.
Sorted(c) ==
  {s \in SetToSeqs(Matching(c)) : \A i, j \in DOMAIN s : i < j =>
     IF c.descending THEN docs[s[j]] <= docs[s[i]] ELSE docs[s[i]] <= docs[s[j]]}

\* Mutant: the offset is forgotten.
NoSkip(c, s) ==
  SubSeq(s, 1, IF c.limit = 0 THEN Len(s) ELSE Min({Len(s), c.limit}))

\* Mutant: one too many is skipped.
SkipMore(c, s) ==
  IF c.limit = 0 THEN SubSeq(s, c.offset + 1, Len(s))
  ELSE SubSeq(s, c.offset + 2, Min({Len(s), c.offset + c.limit + 1}))

Cut(c, s) ==
  SubSeq(s, c.offset + 1, IF c.limit = 0 THEN Len(s)
                          ELSE Min({Len(s), c.offset + c.limit}))

-----------------------------------------------------------------------------
(* The history of a walk. *)

\* What the client of a walk would see if it had everything at once.
Visible == {id \in Ids : /\ HasDoc(id) /\ docs[id] \in call.search
                         /\ call.admin \/ id \in rights}

\* No two documents sort alike.
Distinct == \A i, j \in Ids : i # j /\ HasDoc(i) => docs[i] # docs[j]

Nowhere == [seen |-> <<>>, first |-> {}, grown |-> FALSE, shrunk |-> FALSE,
            over |-> TRUE]

\* Something else has changed docs or rights.
Disturb ==
  LET moved == ~Distinct' \/ \E id \in Ids : /\ HasDoc(id) /\ HasDoc(id)'
                                             /\ docs'[id] # docs[id]
      more  == rights' \ rights # {} \/ \E id \in Ids : HasDoc(id)' /\ ~HasDoc(id)
      less  == rights \ rights' # {} \/ \E id \in Ids : HasDoc(id) /\ ~HasDoc(id)'
  IN  walk' = IF walk.over THEN walk
              ELSE [walk EXCEPT !.grown  = @ \/ moved \/ more,
                                !.shrunk = @ \/ moved \/ less]

-----------------------------------------------------------------------------
(* Arrival of a request. *)

GetProcess(id, admin) ==
  /\ call = Idle
  /\ call' = [Idle EXCEPT !.pc = "rights", !.kind = "one", !.ids = {id},
                          !.search = Keys, !.admin = admin]
  /\ UNCHANGED <<docs, rights, walk>>

GetPublic ==
  /\ call = Idle
  /\ call' = [Idle EXCEPT !.pc = "find", !.allowed = Ids]
  /\ UNCHANGED <<docs, rights, walk>>

List(o) ==
  call' = [Idle EXCEPT !.pc = "rights", !.kind = "list", !.changes = call.changes,
             !.ids = o.ids, !.search = o.search, !.limit = o.limit,
             !.offset = o.offset, !.descending = o.descending, !.admin = o.admin]

\* A list without ids from the start on is the first page of a walk.
ListProcesses(o) ==
  /\ call = Idle
  /\ List(o)
  /\ UNCHANGED <<docs, rights>>
  /\ walk' = IF o.ids # NoFilter \/ o.offset # 0 THEN walk
             ELSE [seen |-> <<>>, first |-> Visible', grown |-> ~Distinct,
                   shrunk |-> ~Distinct, over |-> FALSE]

\* The next page of a walk: the same options with another offset.
NextPage ==
  /\ call.pc = "done" /\ ~walk.over
  /\ List([call EXCEPT !.offset = @ + call.limit])
  /\ UNCHANGED <<docs, rights, walk>>

\* The client has what it asked for.
Leave ==
  /\ call.pc = "done" /\ walk.over
  /\ call' = Idle /\ walk' = Nowhere
  /\ UNCHANGED <<docs, rights>>

-----------------------------------------------------------------------------
(* The calls of a request. *)

\* Mutant: the ids parameter is paged like any list.
KeepPage(c) == c

\* The ids parameter sets limit and offset to 0.
NoPage(c) == IF c.ids = NoFilter THEN c ELSE [c EXCEPT !.limit = 0, !.offset = 0]

\* What is asked for, of all that is allowed.
Select(c, allowed) == IF c.ids = NoFilter THEN allowed ELSE c.ids \cap allowed

\* permissions-v2 lists or checks ids. An admin is not asked about, unless a
\* list of ids is named; a process that may not be read is not looked up.
AskPermissions ==
  LET unasked == call.admin /\ (call.kind = "one" \/ call.ids = NoFilter)
      allowed == IF unasked THEN Ids ELSE rights
  IN  /\ call.pc = "rights"
      /\ call' = [NoPage(call) EXCEPT
           !.pc = IF call.kind = "one" /\ Select(call, allowed) = {}
                  THEN "done" ELSE "find",
           !.allowed = allowed,
           !.filter = IF unasked THEN call.ids ELSE Select(call, allowed)]
      /\ UNCHANGED <<docs, rights, walk>>

\* The published processes come in any order; only a list is counted.
Find ==
  /\ call.pc = "find"
  /\ \E s \in IF call.kind = "public" THEN SetToSeqs(Matching(call)) ELSE Sorted(call) :
       call' = [call EXCEPT !.found = Cut(call, s), !.quiet = TRUE,
                            !.pc = IF call.kind = "list" THEN "count" ELSE "done"]
  /\ UNCHANGED <<docs, rights, walk>>

\* A client takes a page that is not full for the last one.
LastPage(c) == c.limit = 0 \/ Len(c.found) < c.limit

CountDocuments(c) == Cardinality(Matching(c))

\* The answer. The client of a walk puts the page to the others.
Count ==
  /\ call.pc = "count"
  /\ call' = [call EXCEPT !.pc = "done", !.total = CountDocuments(call)]
  /\ walk' = IF walk.over THEN walk
             ELSE [walk EXCEPT !.seen = @ \o call.found, !.over = LastPage(call)]
  /\ UNCHANGED <<docs, rights>>

\* A call fails or takes longer than TIMEOUT: no result, and no more pages.
Fail ==
  /\ call.pc \in {"rights", "find", "count"}
  /\ call' = [call EXCEPT !.pc = "done", !.found = <<>>, !.quiet = FALSE]
  /\ walk' = Nowhere
  /\ UNCHANGED <<docs, rights>>

-----------------------------------------------------------------------------
(* Other requests, while a request or a walk is under way. *)

Elsewhere == /\ call.pc \in {"rights", "find", "count"} \/ ~walk.over
             /\ call.changes < MaxChanges
             /\ call' = [call EXCEPT !.changes = @ + 1,
                          !.quiet = @ /\ (call.pc = "count" => docs' = docs)]
             /\ Disturb

\* A process is created or saved with the key k, or it is deleted.
Change(id, k) == /\ k # docs[id]
                 /\ docs' = [docs EXCEPT ![id] = k]
                 /\ UNCHANGED rights
                 /\ Elsewhere

Share(id) == /\ \/ rights' = rights \ {id}
                \/ rights' = rights \cup {id}
             /\ rights' # rights
             /\ UNCHANGED docs
             /\ Elsewhere

-----------------------------------------------------------------------------
ReadInit ==
  /\ docs \in [Ids -> Keys \cup {NoDoc}]
  /\ rights \in SUBSET Ids
  /\ call = Idle
  /\ walk = Nowhere

Ask == \/ \E o \in Options : ListProcesses(o)
       \/ \E id \in Ids, admin \in BOOLEAN : GetProcess(id, admin)
       \/ GetPublic

ReadNext == \/ Ask \/ NextPage \/ Leave
            \/ AskPermissions \/ Find \/ Count \/ Fail
            \/ \E id \in Ids : Share(id) \/ \E k \in Keys \cup {NoDoc} : Change(id, k)

ReadSpec == ReadInit /\ [][ReadNext]_readVars

-----------------------------------------------------------------------------
\* The values of the variables.
Call == [pc : {"idle", "rights", "find", "count", "done"},
         kind : {"one", "public", "list"}, ids : (SUBSET Ids) \cup {NoFilter},
         search : SUBSET Keys, limit : Nat, offset : Nat, descending : BOOLEAN,
         admin : BOOLEAN, filter : (SUBSET Ids) \cup {NoFilter}, allowed : SUBSET Ids,
         found : Seq(Ids), total : Nat, quiet : BOOLEAN, changes : 0 .. MaxChanges]

Walk == [seen : Seq(Ids), first : SUBSET Ids, grown : BOOLEAN, shrunk : BOOLEAN,
         over : BOOLEAN]

ReadTypeOK ==
  /\ docs \in [Ids -> Keys \cup {NoDoc}] /\ rights \subseteq Ids
  /\ call \in Call /\ walk \in Walk

(***************************************************************************)
(* Nobody is answered with a process permissions-v2 did not allow them to  *)
(* see while they asked, nor with one they did not ask for. That holds for *)
(* somebody who may see nothing, too: for ListProcesses an empty list of   *)
(* ids is another thing than nil.                                          *)
(***************************************************************************)
OnlyPermitted ==
  \A i \in DOMAIN call.found : call.found[i] \in Select(call, call.allowed)

(***************************************************************************)
(* If no document changes between the two queries of ListProcesses, Find   *)
(* and CountDocuments, the total of a page is that of the list the page    *)
(* was cut from: it says how many pages there are, and with the ids        *)
(* parameter there is one. What changed before the first query, or after   *)
(* the second, does not matter.                                            *)
(***************************************************************************)
PageSize(c, total) ==
  LET rest == Max({0, total - c.offset})
  IN  IF c.ids # NoFilter THEN total
      ELSE IF c.limit = 0 THEN rest ELSE Min({c.limit, rest})

TotalExact ==
  call.pc = "done" /\ call.kind = "list" /\ call.quiet =>
    Len(call.found) = PageSize(call, call.total)

(***************************************************************************)
(* A walk through the pages misses no process that was there for its user, *)
(* unless a process or a right was taken away or a process sorted anew in  *)
(* between, or two sort alike.                                             *)
(***************************************************************************)
NoGaps ==
  walk.over /\ ~walk.shrunk => walk.first \subseteq ToSet(walk.seen)

(***************************************************************************)
(* And it shows no process twice, unless a process or a right was added or *)
(* a process sorted anew.                                                  *)
(***************************************************************************)
NoRepeats == ~walk.grown => IsInjective(walk.seen)

-----------------------------------------------------------------------------
(***************************************************************************)
(* Why they hold. What is looked for is what is asked for and allowed, and *)
(* the number of documents fits the page as long as they are the same.     *)
(***************************************************************************)
Asked ==
  /\ call.pc \in {"idle", "rights", "find"} => call.found = <<>>
  /\ call.pc \in {"find", "count"} =>
       IF call.filter = NoFilter THEN call.ids = NoFilter /\ call.allowed = Ids
       ELSE call.filter = Select(call, call.allowed)

Fitting ==
  call.kind = "list" /\ call.pc \in {"find", "count"} =>
    /\ call.ids # NoFilter => call.limit = 0 /\ call.offset = 0
    /\ call.pc = "count" /\ call.quiet =>
         Len(call.found) = PageSize(call, CountDocuments(call))

(***************************************************************************)
(* A walk has read as many processes as its offset says, and never asks    *)
(* for a page that could not exist: an offset beyond all there may be.     *)
(***************************************************************************)
\* What the client has of the list, or is about to get.
ReadSoFar == IF call.pc = "done" THEN walk.seen ELSE walk.seen \o call.found

UnderWay ==
  ~walk.over =>
    /\ call.pc # "idle" /\ call.kind = "list" /\ call.ids = NoFilter
    /\ call.pc \in {"find", "count"} => (call.filter = NoFilter <=> call.admin)
    /\ Len(walk.seen) = IF call.pc = "done" THEN call.offset + call.limit
                        ELSE call.offset
    /\ Len(ReadSoFar) <= Cardinality(Ids)
    /\ call.pc = "done" => call.limit # 0
    /\ call.pc = "count" /\ call.limit # 0 => Len(call.found) <= call.limit

(***************************************************************************)
(* The list the next page is cut from, and the place of an id in it: what  *)
(* was not read yet has a place behind what was, as long as nothing is     *)
(* taken away, and what was read has its place before, as long as nothing  *)
(* is added.                                                               *)
(***************************************************************************)
Upto(d, descending, id, ids) ==
  {i \in ids : IF descending THEN d[id] <= d[i] ELSE d[i] <= d[id]}

Listing == IF call.pc = "find" THEN Matching(call) ELSE Visible

Place(id) == Cardinality(Upto(docs, call.descending, id, Listing))

Ahead ==
  ~walk.over /\ ~walk.shrunk =>
    /\ Distinct /\ walk.first \subseteq Listing
    /\ call.pc = "find" /\ ~call.admin => call.filter \subseteq rights
    /\ \A id \in walk.first \ ToSet(ReadSoFar) :
         /\ Place(id) > Len(ReadSoFar)
         /\ call.pc = "count" => ~LastPage(call)

Behind ==
  ~walk.over /\ ~walk.grown =>
    /\ Distinct /\ IsInjective(ReadSoFar)
    /\ call.pc = "find" /\ ~call.admin => rights \subseteq call.filter
    /\ \A id \in ToSet(ReadSoFar) \cap Listing : Place(id) <= Len(ReadSoFar)

\* The inductive invariant of the read requests.
ReadInv == ReadTypeOK /\ Asked /\ Fitting /\ UnderWay /\ Ahead /\ Behind
=============================================================================
