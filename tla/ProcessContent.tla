--------------------------- MODULE ProcessContent ---------------------------
(***************************************************************************)
(* What the documents say: the requests of ProcessApi with the bodies they *)
(* carry. Validate and GetProcessModelName look at a body before it may be *)
(* stored; an update stores the body as it came, a publish stores what it  *)
(* has read with another publish flag.                                     *)
(*                                                                         *)
(* Neither looks again before it writes. So an update may be lost to a     *)
(* publish that read before it, and two updates may both take over a       *)
(* legacy process. The properties say that nothing else is ever lost.      *)
(***************************************************************************)
EXTENDS ProcessApi

CONSTANTS
  Bodies,    \* the processes clients send
  Original   \* what a legacy document says; it need not be valid

(***************************************************************************)
(* All that is looked at in an XML: whether it parses, and the id of the   *)
(* first bpmn:collaboration and of the first bpmn:process: there is no     *)
(* such element, it has no id, an empty one, or some id.                   *)
(***************************************************************************)
Element == {"absent", "noId", "emptyId", "id"}
Xml     == [parses : BOOLEAN, collaboration : Element, process : Element]
Names   == {"", "given", "id", "process-name"}
Body    == [version : Nat, name : Names, xml : Xml, publish : BOOLEAN]
None    == 0

ASSUME ProcessContentAssumption ==
  /\ Original \in Body /\ Original.version = None
  /\ Bodies \subseteq Body /\ \A b \in Bodies : b.version # None

VARIABLES
  content,     \* content[id]: what the document under id says, if there is one
  held,        \* held[r]: the process (or publish command) request r carries
  overlapped,  \* history: requests that were not alone with their id
  version,     \* history: version[id] is the last update confirmed on id
  owner        \* history: owner[id] is the owner that was confirmed for id

contentVars == <<storeVars, req, content, held, overlapped, version, owner>>

-----------------------------------------------------------------------------
(* A body before it is stored. *)

IdOf(element) == CASE element = "noId"    -> "process-name"
                   [] element = "emptyId" -> ""
                   [] element = "id"      -> "id"

\* GetProcessModelName fails on an XML that does not parse, or has neither.
HasModelName(xml) == /\ xml.parses
                     /\ xml.collaboration # "absent" \/ xml.process # "absent"

GetProcessModelName(xml) == IF xml.collaboration # "absent"
                            THEN IdOf(xml.collaboration)
                            ELSE IdOf(xml.process)

\* Mutant: a process definition is enough, with or without an id.
AnyProcess(body) == body.xml.parses /\ body.xml.process # "absent"

Validate(body) == body.xml.parses /\ body.xml.process = "id"

Nameable(body) == body.name # "" \/ HasModelName(body.xml)

\* Mutant: the name that was made up is not kept.
Unnamed(body) == body

Named(body) == IF body.name # "" THEN body
               ELSE [body EXCEPT !.name = GetProcessModelName(body.xml)]

-----------------------------------------------------------------------------
(* Arrival. Requests refused before their first call leave no trace. *)

Others(r, id) == {s \in Requests \ {r} : Active(s) /\ req[s].id = id}

\* Request r on id carries body.
Carries(r, id, body) ==
  /\ held' = [held EXCEPT ![r] = body]
  /\ overlapped' = IF Others(r, id) = {} THEN overlapped \ {r}
                   ELSE overlapped \cup Others(r, id) \cup {r}
  /\ UNCHANGED <<content, version, owner>>

Create(r, u, id, body) == /\ Nameable(body) /\ Validate(Named(body))
                          /\ CreateProcess(r, u, id)
                          /\ Carries(r, id, Named(body))

Update(r, u, id, body) == /\ Nameable(body)
                          /\ UpdateProcess(r, u, id)
                          /\ Carries(r, id, Named(body))

Publish(r, u, id, flag) == /\ UpdateProcessPublic(r, u, id)
                           /\ Carries(r, id, [Original EXCEPT !.publish = flag])

Delete(r, u, id) == DeleteProcess(r, u, id) /\ Carries(r, id, Original)

-----------------------------------------------------------------------------
(* The calls. *)

\* Mutant: a publish stores nothing but its command.
CommandOnly(r) == held[r]

\* What request r will write, now that it has read the document.
AfterRead(r) == IF req[r].op = "publish"
                THEN [content[req[r].id] EXCEPT !.publish = held[r].publish]
                ELSE held[r]

\* Request r goes on with body, or it is through.
Holds(r, body) ==
  /\ held' = [held EXCEPT ![r] = IF req'[r] = Idle THEN Original ELSE body]
  /\ overlapped' = IF req'[r] = Idle THEN overlapped \ {r} ELSE overlapped

Pass(r) == /\ Check(r) \/ RemovePerms(r)
           /\ Holds(r, held[r])
           /\ UNCHANGED <<content, version, owner>>

\* An update is validated once the document is read.
Rejected(r) == req[r].op = "update" /\ ~Validate(held[r])

Read(r) ==
  /\ req[r].pc = "read"
  /\ \/ ~Rejected(r) /\ ReadProcess(r)
     \/ Rejected(r) /\ Finish(r) /\ UNCHANGED storeVars
  /\ Holds(r, AfterRead(r))
  /\ UNCHANGED <<content, version, owner>>

\* The document is written with its content, if it is written at all.
Write(r) ==
  LET id == req[r].id
  IN  /\ SetDoc(r)
      /\ \/ /\ DbSetProcess(id, Document(r))
            /\ content' = [content EXCEPT ![id] = held[r]]
            /\ version' = IF req[r].op = "publish" THEN version
                          ELSE [version EXCEPT ![id] = None]
         \/ faults' # faults /\ docs' = docs /\ UNCHANGED <<content, version>>
      /\ Holds(r, held[r])
      /\ UNCHANGED owner

\* The last call confirms. Only a request that was alone with its id knows
\* that what it has written is there.
Alone(r) == req'[r] = Idle /\ faults' = faults /\ r \notin overlapped

Complete(r) ==
  LET id == req[r].id
  IN  /\ GetResource(r) \/ SetRights(r)
      /\ version' = IF Alone(r) /\ req[r].op # "publish"
                    THEN [version EXCEPT ![id] = held[r].version] ELSE version
      /\ owner' = IF Alone(r) THEN [owner EXCEPT ![id] = docs[id].owner] ELSE owner
      /\ Holds(r, held[r])
      /\ UNCHANGED content

\* The document goes: a delete, or a create that cleans up behind itself.
Erase(r) ==
  LET id == req[r].id
  IN  /\ EraseDoc(r) \/ Rollback(r)
      /\ content' = IF docs'[id] = NoDoc THEN [content EXCEPT ![id] = Original]
                    ELSE content
      /\ version' = IF docs'[id] = NoDoc THEN [version EXCEPT ![id] = None]
                    ELSE version
      /\ owner' = IF docs'[id] = NoDoc THEN [owner EXCEPT ![id] = NoOwner]
                  ELSE owner
      /\ Holds(r, held[r])

-----------------------------------------------------------------------------
\* An id is unused, or it has a legacy document, with or without a resource.
ContentInit ==
  /\ docs \in [Ids -> {NoDoc, [owner |-> NoOwner, updated |-> NoStamp]}]
  /\ perms \in [Ids -> {NoResource} \cup {FullAccess(u) : u \in Users}]
  /\ \A id \in Ids : HasResource(id) => HasDoc(id)
  /\ now = 1 /\ faults = 0 /\ released = {} /\ acked = {}
  /\ ProcessApiInit
  /\ content = [id \in Ids |-> Original]
  /\ held = [r \in Requests |-> Original]
  /\ overlapped = {}
  /\ version = [id \in Ids |-> None]
  /\ owner = [id \in Ids |-> NoOwner]

Receive(r) == \E u \in Users, id \in Ids :
                \/ \E body \in Bodies : \/ Create(r, u, id, body)
                                        \/ Update(r, u, id, body)
                \/ \E flag \in BOOLEAN : Publish(r, u, id, flag)
                \/ Delete(r, u, id)

Proceed(r) == \/ Pass(r) \/ Read(r) \/ Write(r) \/ Complete(r) \/ Erase(r)

ContentNext == \E r \in Requests : Receive(r) \/ Proceed(r)

ContentSpec == ContentInit /\ [][ContentNext]_contentVars

-----------------------------------------------------------------------------
\* The values of the variables.
ContentTypeOK ==
  /\ StoresTypeOK /\ ProcessApiTypeOK
  /\ content \in [Ids -> Body] /\ held \in [Requests -> Body]
  /\ overlapped \subseteq Requests
  /\ version \in [Ids -> Nat] /\ owner \in [Ids -> Users \cup {NoOwner}]

(***************************************************************************)
(* What an update was confirmed for stays what the document says, through  *)
(* any number of publishes and of requests that fail, until the next       *)
(* update writes. Only an update that was in flight together with another  *)
(* request on its process may be lost (UpdateProcessPublic writes back     *)
(* what it has read).                                                      *)
(***************************************************************************)
UpdateStands ==
  \A id \in Ids :
    HasDoc(id) /\ version[id] # None => content[id].version = version[id]

(***************************************************************************)
(* The first update of a legacy process takes it over for good: once it    *)
(* was confirmed, alone with the process, no later request has it change   *)
(* hands, or leaves it without an owner again.                             *)
(***************************************************************************)
OwnerStands ==
  \A id \in Ids :
    HasDoc(id) /\ owner[id] # NoOwner => docs[id].owner = owner[id]

\* A process with an id, which is what makes it deployable (Validate), and a
\* name, or the empty id of a collaboration for one.
Storable(body) ==
  body.version # None =>
    /\ body.xml.parses /\ body.xml.process = "id"
    /\ body.name = "" => body.xml.collaboration = "emptyId"

(***************************************************************************)
(* Whatever the service has stored could be stored, although a publish     *)
(* looks at neither the XML nor the name: all but what a legacy document   *)
(* said.                                                                   *)
(***************************************************************************)
StoredValid == \A id \in Ids : HasDoc(id) => Storable(content[id])

-----------------------------------------------------------------------------
(***************************************************************************)
(* Why they hold. A request that may still write a document holds one that *)
(* may be stored, does not change a confirmed owner, and as a publish not  *)
(* a confirmed version either: it has read after both were confirmed,      *)
(* because a request confirms them only if it was alone with the process.  *)
(***************************************************************************)
WritesKeep ==
  \A r \in Requests : Active(r) /\ req[r].pc = "write" =>
    LET id == req[r].id
    IN  /\ Storable(held[r])
        /\ owner[id] # NoOwner => req[r].owner = owner[id]
        /\ req[r].op = "publish" /\ version[id] # None =>
             held[r].version = version[id]

\* Until it is validated an update may lack all but the name.
NamesGiven ==
  \A r \in Requests :
    Active(r) /\ req[r].op = "update" /\ held[r].name = "" =>
      "emptyId" \in {held[r].xml.collaboration, held[r].xml.process}

\* Only an update and a publish read; a create has no right to be checked.
Reading ==
  \A r \in Requests : Active(r) =>
    /\ req[r].pc = "check" => req[r].op # "create"
    /\ req[r].pc = "read"  => req[r].op \in {"update", "publish"}

\* Who is not overlapped is alone, and finds in place what it wrote.
AloneInPlace ==
  \A r \in Requests \ overlapped : Active(r) =>
    LET id == req[r].id
    IN  /\ Others(r, id) = {}
        /\ req[r].pc \in {"lookup", "grant"} =>
             /\ HasDoc(id)
             /\ req[r].op # "publish" => content[id].version = held[r].version

Confirmed ==
  \A id \in Ids :
    /\ owner[id] # NoOwner => HasDoc(id) /\ docs[id].owner = owner[id]
    /\ version[id] # None => content[id].version = version[id]

\* The inductive invariant of the contents.
ContentInv == /\ ContentTypeOK
              /\ WritesKeep /\ NamesGiven /\ Reading
              /\ AloneInPlace /\ StoredValid /\ Confirmed
=============================================================================
