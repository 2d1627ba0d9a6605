------------------------ MODULE ReadRequests_proofs -------------------------
(***************************************************************************)
(* What a read request answers, and what a walk through the pages sees,    *)
(* for any documents, rights, options and changes in between.              *)
(***************************************************************************)
EXTENDS ReadRequests, FiniteSetTheorems, SequenceTheorems, TLAPS

-----------------------------------------------------------------------------
(***************************************************************************)
(* The smaller and the larger of two numbers.                              *)
(***************************************************************************)
LEMMA Smaller ==
  ASSUME NEW a \in Int, NEW b \in Int
  PROVE  Min({a, b}) = IF a <= b THEN a ELSE b
<1>1. \E x \in {a, b} : \A y \in {a, b} : x <= y
  OBVIOUS
<1> QED
  BY <1>1 DEF Min

LEMMA Larger ==
  ASSUME NEW a \in Int, NEW b \in Int
  PROVE  Max({a, b}) = IF a >= b THEN a ELSE b
<1>1. \E x \in {a, b} : \A y \in {a, b} : x >= y
  OBVIOUS
<1> QED
  BY <1>1 DEF Max

(***************************************************************************)
(* What the queries match is a finite set of ids.                          *)
(***************************************************************************)
LEMMA MatchingFinite ==
  ASSUME NEW c
  PROVE  /\ Matching(c) \subseteq Ids /\ Visible \subseteq Ids
         /\ IsFiniteSet(Matching(c)) /\ IsFiniteSet(Visible)
         /\ Cardinality(Matching(c)) \in Nat /\ IsFiniteSet(Ids)
         /\ Cardinality(Matching(c)) <= Cardinality(Ids) /\ Cardinality(Ids) \in Nat
<1>1. IsFiniteSet(Ids)
  BY ReadRequestsAssumption
<1>2. Matching(c) \subseteq Ids /\ Visible \subseteq Ids
  BY DEF Matching, Visible
<1> QED
  BY <1>1, <1>2, FS_Subset, FS_CardinalityType

(***************************************************************************)
(* A set in some order: every element once.                                *)
(***************************************************************************)
LEMMA OrderForm ==
  ASSUME NEW S, IsFiniteSet(S), NEW s \in SetToSeqs(S)
  PROVE  /\ s \in Seq(S) /\ Len(s) = Cardinality(S) /\ DOMAIN s = 1 .. Len(s)
         /\ \A i, j \in 1 .. Len(s) : s[i] = s[j] => i = j
         /\ \A x \in S : \E i \in 1 .. Len(s) : s[i] = x
<1> DEFINE n == Cardinality(S)
<1>1. n \in Nat
  BY FS_CardinalityType
<1>2. s \in [1 .. n -> S] /\ \A i, j \in 1 .. n : i # j => s[i] # s[j]
  BY DEF SetToSeqs
<1>3. s \in Injection(1 .. n, S)
  BY <1>2 DEF Injection, IsInjective
<1>4. Cardinality(1 .. n) = n
  BY <1>1, FS_Interval
<1>5. s \in Surjection(1 .. n, S)
  BY <1>3, <1>4, FS_Injection
<1>6. \A x \in S : \E i \in 1 .. n : s[i] = x
  BY <1>5 DEF Surjection
<1>7. s \in Seq(S) /\ Len(s) = n
  BY <1>1, <1>2
<1> QED
  BY <1>2, <1>6, <1>7

(***************************************************************************)
(* A page of a sequence.                                                   *)
(***************************************************************************)
LEMMA CutForm ==
  ASSUME NEW S, NEW s \in Seq(S), NEW c, c.limit \in Nat, c.offset \in Nat
  PROVE  LET rest == IF c.offset >= Len(s) THEN 0 ELSE Len(s) - c.offset
             size == IF c.limit = 0 \/ rest <= c.limit THEN rest ELSE c.limit
         IN  /\ Cut(c, s) \in Seq(S) /\ Len(Cut(c, s)) = size
             /\ \A i \in 1 .. size : /\ Cut(c, s)[i] = s[c.offset + i]
                                     /\ c.offset + i \in 1 .. Len(s)
<1> DEFINE rest == IF c.offset >= Len(s) THEN 0 ELSE Len(s) - c.offset
           size == IF c.limit = 0 \/ rest <= c.limit THEN rest ELSE c.limit
<1>1. PICK m, k : m = c.offset /\ k = c.limit
  OBVIOUS
<1>2. PICK last : last = IF k = 0 \/ Len(s) <= m + k THEN Len(s) ELSE m + k
  OBVIOUS
<1>3. m \in Nat /\ k \in Nat /\ Len(s) \in Nat /\ last \in Nat /\ last <= Len(s)
  BY <1>1, <1>2
<1>4. Cut(c, s) = SubSeq(s, m + 1, last)
  <2>1. CASE k = 0
    BY <1>1, <1>2, <2>1 DEF Cut
  <2>2. CASE k # 0
    <3>1. Min({Len(s), m + k}) = last
      BY <1>2, <1>3, <2>2, Smaller
    <3> QED
      BY <1>1, <2>2, <3>1 DEF Cut
  <2> QED
    BY <2>1, <2>2
<1>5. /\ SubSeq(s, m + 1, last) \in Seq(S)
      /\ Len(SubSeq(s, m + 1, last)) = IF m <= last THEN last - m ELSE 0
      /\ \A i \in 1 .. last - m : SubSeq(s, m + 1, last)[i] = s[m + i]
  BY <1>3
<1>6. size = IF m <= last THEN last - m ELSE 0
  BY <1>1, <1>2, <1>3
<1>7. \A i \in 1 .. size : i \in 1 .. last - m /\ m + i \in 1 .. Len(s)
  BY <1>3, <1>6
<1> QED
  BY <1>1, <1>4, <1>5, <1>6, <1>7
-----------------------------------------------------------------------------
(***************************************************************************)
(* Places in a list.                                                       *)
(***************************************************************************)

(***************************************************************************)
(* A place moves back only by what is added.                               *)
(***************************************************************************)
LEMMA PlaceGrows ==
  ASSUME NEW S, NEW T, S \subseteq T, IsFiniteSet(T), NEW d, NEW e, NEW down,
         NEW id \in S, \A i \in S : d[i] = e[i]
  PROVE  Cardinality(Upto(d, down, id, S)) <= Cardinality(Upto(e, down, id, T))
<1>1. Upto(d, down, id, S) \subseteq Upto(e, down, id, T)
  BY DEF Upto
<1>2. IsFiniteSet(Upto(e, down, id, T))
  BY FS_Subset DEF Upto
<1> QED
  BY <1>1, <1>2, FS_Subset

(***************************************************************************)
(* A place is a number from 1 to the size of the list.                     *)
(***************************************************************************)
LEMMA PlaceForm ==
  ASSUME NEW S \in SUBSET Ids, NEW down, NEW id \in S,
         \A i \in S : HasDoc(i), docs \in [Ids -> Keys \cup {NoDoc}]
  PROVE  Cardinality(Upto(docs, down, id, S)) \in 1 .. Cardinality(S)
<1> DEFINE U == Upto(docs, down, id, S)
<1>1. IsFiniteSet(S) /\ Cardinality(S) \in Nat
  BY ReadRequestsAssumption, FS_Subset, FS_CardinalityType
<1>2. U \subseteq S
  BY DEF Upto
<1>3. IsFiniteSet(U) /\ Cardinality(U) \in Nat /\ Cardinality(U) <= Cardinality(S)
  BY <1>1, <1>2, FS_Subset, FS_CardinalityType
<1>4. docs[id] \in Nat
  BY ReadRequestsAssumption DEF HasDoc
<1>5. id \in U
  BY <1>4 DEF Upto
<1>6. Cardinality(U) # 0
  BY <1>3, <1>5, FS_EmptySet
<1> QED
  BY <1>1, <1>3, <1>6

(***************************************************************************)
(* If no two documents sort alike, the place of each is where it stands.   *)
(***************************************************************************)
LEMMA SortedPlaces ==
  ASSUME docs \in [Ids -> Keys \cup {NoDoc}], Distinct, NEW c, NEW s \in Sorted(c)
  PROVE  \A i \in 1 .. Len(s) :
           Cardinality(Upto(docs, c.descending, s[i], Matching(c))) = i
<1> DEFINE M == Matching(c)
           down == c.descending
<1>1. /\ s \in Seq(M) /\ Len(s) \in Nat
      /\ \A i, j \in 1 .. Len(s) : s[i] = s[j] => i = j
      /\ \A x \in M : \E i \in 1 .. Len(s) : s[i] = x
      /\ DOMAIN s = 1 .. Len(s)
  BY MatchingFinite, OrderForm DEF Sorted
<1>2. \A x \in M : x \in Ids /\ HasDoc(x) /\ docs[x] \in Nat
  BY ReadRequestsAssumption DEF Matching, HasDoc
<1>3. \A i \in 1 .. Len(s) : s[i] \in M
  BY <1>1
<1>4. ASSUME NEW i \in 1 .. Len(s), NEW j \in 1 .. Len(s), i < j
      PROVE  /\ down => docs[s[j]] < docs[s[i]]
             /\ ~down => docs[s[i]] < docs[s[j]]
  <2>1. docs[s[i]] # docs[s[j]] /\ docs[s[i]] \in Nat /\ docs[s[j]] \in Nat
    BY <1>1, <1>2, <1>3, <1>4 DEF Distinct
  <2>2. IF down THEN docs[s[j]] <= docs[s[i]] ELSE docs[s[i]] <= docs[s[j]]
    BY <1>1, <1>4 DEF Sorted
  <2> QED
    BY <2>1, <2>2
<1>5. ASSUME NEW i \in 1 .. Len(s)
      PROVE  Cardinality(Upto(docs, down, s[i], M)) = i
  <2> DEFINE U == Upto(docs, down, s[i], M)
             f == [j \in 1 .. i |-> s[j]]
  <2>1. \A j \in 1 .. i : s[j] \in U
    BY <1>2, <1>3, <1>4 DEF Upto
  <2>2. ASSUME NEW x \in U
        PROVE  \E j \in 1 .. i : f[j] = x
    <3>1. x \in M /\ (IF down THEN docs[s[i]] <= docs[x] ELSE docs[x] <= docs[s[i]])
      BY DEF Upto
    <3>2. PICK j \in 1 .. Len(s) : s[j] = x
      BY <1>1, <3>1
    <3>3. docs[s[i]] \in Nat /\ docs[x] \in Nat
      BY <1>2, <1>3, <3>1
    <3>4. ~(i < j)
      BY <1>4, <3>1, <3>2, <3>3
    <3> QED
      BY <1>1, <3>2, <3>4
  <2>3. f \in Bijection(1 .. i, U)
    <3>1. f \in [1 .. i -> U]
      BY <2>1
    <3>2. \A j, k \in 1 .. i : f[j] = f[k] => j = k
      BY <1>1
    <3> QED
      BY <2>2, <3>1, <3>2 DEF Bijection, Injection, Surjection, IsInjective
  <2> QED
    BY <1>1, <2>3, FS_CountingElements DEF ExistsBijection
<1> QED
  BY <1>5
-----------------------------------------------------------------------------
(***************************************************************************)
(* What the actions do to the request.                                     *)
(***************************************************************************)

(***************************************************************************)
(* Parts of a request that no call changes.                                *)
(***************************************************************************)
SameRequest ==
  /\ call'.kind = call.kind /\ call'.ids = call.ids /\ call'.search = call.search
  /\ call'.limit = call.limit /\ call'.offset = call.offset
  /\ call'.descending = call.descending /\ call'.admin = call.admin
  /\ call'.filter = call.filter /\ call'.allowed = call.allowed

LEMMA CallFields ==
  ASSUME ReadTypeOK
  PROVE  /\ call.pc \in {"idle", "rights", "find", "count", "done"}
         /\ call.kind \in {"one", "public", "list"}
         /\ call.ids \in (SUBSET Ids) \cup {NoFilter} /\ call.search \in SUBSET Keys
         /\ call.limit \in Nat /\ call.offset \in Nat
         /\ call.descending \in BOOLEAN /\ call.admin \in BOOLEAN
         /\ call.filter \in (SUBSET Ids) \cup {NoFilter} /\ call.allowed \in SUBSET Ids
         /\ call.found \in Seq(Ids) /\ call.total \in Nat /\ call.quiet \in BOOLEAN
         /\ call.changes \in 0 .. MaxChanges
         /\ walk.seen \in Seq(Ids) /\ walk.first \in SUBSET Ids
         /\ walk.grown \in BOOLEAN /\ walk.shrunk \in BOOLEAN /\ walk.over \in BOOLEAN
BY DEF ReadTypeOK, Call, Walk

LEMMA IdleForm ==
  /\ Idle \in Call /\ Idle.pc = "idle" /\ Idle.kind = "public" /\ Idle.ids = NoFilter
  /\ Idle.filter = NoFilter /\ Idle.found = <<>> /\ Idle.changes = 0
BY ReadRequestsAssumption DEF Idle, Call

LEMMA GetProcessForm ==
  ASSUME NEW id \in Ids, NEW admin \in BOOLEAN, GetProcess(id, admin)
  PROVE  /\ call' \in Call /\ call'.pc = "rights" /\ call'.kind = "one"
         /\ call'.ids = {id} /\ call'.found = <<>>
<1>1. PICK c : c = Idle
  OBVIOUS
<1>2. call' = [c EXCEPT !.pc = "rights", !.kind = "one", !.ids = {id},
                        !.search = Keys, !.admin = admin]
  BY <1>1 DEF GetProcess
<1>3. c \in Call /\ c.found = <<>>
  BY <1>1, IdleForm
<1> QED
  BY <1>2, <1>3 DEF Call

LEMMA GetPublicForm ==
  ASSUME GetPublic
  PROVE  /\ call' \in Call /\ call'.pc = "find" /\ call'.kind = "public"
         /\ call'.ids = NoFilter /\ call'.found = <<>> /\ call'.filter = NoFilter
         /\ call'.allowed = Ids
<1>1. PICK c : c = Idle
  OBVIOUS
<1>2. call' = [c EXCEPT !.pc = "find", !.allowed = Ids]
  BY <1>1 DEF GetPublic
<1>3. /\ c \in Call /\ c.found = <<>> /\ c.kind = "public" /\ c.ids = NoFilter
      /\ c.filter = NoFilter
  BY <1>1, IdleForm
<1> QED
  BY <1>2, <1>3 DEF Call

LEMMA ListForm ==
  ASSUME ReadTypeOK, NEW o, List(o),
         o.ids \in (SUBSET Ids) \cup {NoFilter}, o.search \in SUBSET Keys,
         o.limit \in Nat, o.offset \in Nat, o.descending \in BOOLEAN, o.admin \in BOOLEAN
  PROVE  /\ call' \in Call /\ call'.pc = "rights" /\ call'.kind = "list"
         /\ call'.ids = o.ids /\ call'.search = o.search /\ call'.limit = o.limit
         /\ call'.offset = o.offset /\ call'.descending = o.descending
         /\ call'.admin = o.admin /\ call'.found = <<>>
<1>1. PICK c : c = Idle
  OBVIOUS
<1>2. call' = [c EXCEPT !.pc = "rights", !.kind = "list", !.changes = call.changes,
                 !.ids = o.ids, !.search = o.search, !.limit = o.limit,
                 !.offset = o.offset, !.descending = o.descending, !.admin = o.admin]
  BY <1>1 DEF List
<1>3. c \in Call /\ c.found = <<>> /\ call.changes \in 0 .. MaxChanges
  BY <1>1, IdleForm, CallFields
<1> QED
  BY <1>2, <1>3 DEF Call

LEMMA NextPageForm ==
  ASSUME ReadTypeOK, NextPage
  PROVE  /\ call' \in Call /\ call'.pc = "rights" /\ call'.kind = "list"
         /\ call'.ids = call.ids /\ call'.search = call.search /\ call'.limit = call.limit
         /\ call'.offset = call.offset + call.limit
         /\ call'.descending = call.descending /\ call'.admin = call.admin
         /\ call'.found = <<>>
<1>1. PICK o : o = [call EXCEPT !.offset = @ + call.limit]
  OBVIOUS
<1>2. /\ o.ids = call.ids /\ o.search = call.search /\ o.limit = call.limit
      /\ o.offset = call.offset + call.limit /\ o.descending = call.descending
      /\ o.admin = call.admin
  BY <1>1 DEF ReadTypeOK, Call
<1>3. List(o)
  BY <1>1 DEF NextPage
<1> QED
  BY <1>2, <1>3, CallFields, ListForm

LEMMA AskForm ==
  ASSUME ReadTypeOK, AskPermissions
  PROVE  LET unasked == call.admin /\ (call.kind = "one" \/ call.ids = NoFilter)
             nopage  == call.ids # NoFilter
         IN  /\ call' \in Call /\ call.pc = "rights" /\ call'.pc \in {"done", "find"}
             /\ call'.pc = "done" => call.kind = "one"
             /\ call'.kind = call.kind /\ call'.ids = call.ids
             /\ call'.search = call.search /\ call'.descending = call.descending
             /\ call'.admin = call.admin /\ call'.found = call.found
             /\ call'.limit = IF nopage THEN 0 ELSE call.limit
             /\ call'.offset = IF nopage THEN 0 ELSE call.offset
             /\ call'.allowed = IF unasked THEN Ids ELSE rights
             /\ call'.filter = IF unasked THEN call.ids
                               ELSE Select(call, call'.allowed)
             /\ UNCHANGED <<docs, rights, walk>>
<1> DEFINE unasked == call.admin /\ (call.kind = "one" \/ call.ids = NoFilter)
           allowed == IF unasked THEN Ids ELSE rights
<1>1. PICK c : c = NoPage(call)
  OBVIOUS
<1>2. /\ c \in Call /\ c.kind = call.kind /\ c.ids = call.ids
      /\ c.search = call.search /\ c.descending = call.descending
      /\ c.admin = call.admin /\ c.found = call.found
      /\ c.limit = IF call.ids # NoFilter THEN 0 ELSE call.limit
      /\ c.offset = IF call.ids # NoFilter THEN 0 ELSE call.offset
  BY <1>1 DEF NoPage, ReadTypeOK, Call
<1>3. allowed \in SUBSET Ids /\ Select(call, allowed) \in SUBSET Ids
  BY CallFields DEF Select, ReadTypeOK
<1>4. PICK filter : filter = IF unasked THEN call.ids ELSE Select(call, allowed)
  OBVIOUS
<1>5. PICK pc : pc = IF call.kind = "one" /\ Select(call, allowed) = {}
                     THEN "done" ELSE "find"
  OBVIOUS
<1>6. filter \in (SUBSET Ids) \cup {NoFilter} /\ pc \in {"done", "find"}
  BY <1>3, <1>4, <1>5, CallFields
<1>7. call' = [c EXCEPT !.pc = pc, !.allowed = allowed, !.filter = filter]
  BY <1>1, <1>4, <1>5 DEF AskPermissions
<1>8. /\ call' \in Call /\ call'.pc = pc /\ call'.allowed = allowed
      /\ call'.filter = filter /\ call'.kind = c.kind /\ call'.ids = c.ids
      /\ call'.search = c.search /\ call'.descending = c.descending
      /\ call'.admin = c.admin /\ call'.found = c.found
      /\ call'.limit = c.limit /\ call'.offset = c.offset
  BY <1>2, <1>3, <1>6, <1>7 DEF Call
<1>9. call.pc = "rights" /\ UNCHANGED <<docs, rights, walk>>
  BY DEF AskPermissions
<1> QED
  BY <1>2, <1>4, <1>5, <1>6, <1>8, <1>9
LEMMA FindForm ==
  ASSUME ReadTypeOK, Find
  PROVE  /\ call.pc = "find" /\ call' \in Call /\ SameRequest
         /\ call'.pc = IF call.kind = "list" THEN "count" ELSE "done"
         /\ \E s \in SetToSeqs(Matching(call)) :
              /\ call'.found = Cut(call, s)
              /\ call.kind # "public" => s \in Sorted(call)
         /\ UNCHANGED <<docs, rights, walk>>
<1>1. PICK s \in SetToSeqs(Matching(call)) :
        /\ call.kind # "public" => s \in Sorted(call)
        /\ call' = [call EXCEPT !.found = Cut(call, s), !.quiet = TRUE,
                                !.pc = IF call.kind = "list" THEN "count" ELSE "done"]
  BY DEF Find, Sorted
<1>2. s \in Seq(Ids) /\ Cut(call, s) \in Seq(Ids)
  <2>1. s \in Seq(Matching(call)) /\ Matching(call) \subseteq Ids
    BY MatchingFinite, OrderForm
  <2>2. s \in Seq(Ids)
    BY <2>1
  <2> QED
    BY <2>2, CallFields, CutForm
<1>3. PICK page, pc : /\ page = Cut(call, s)
                      /\ pc = IF call.kind = "list" THEN "count" ELSE "done"
  OBVIOUS
<1>4. call' = [call EXCEPT !.found = page, !.quiet = TRUE, !.pc = pc]
  BY <1>1, <1>3
<1>5. page \in Seq(Ids) /\ pc \in {"count", "done"}
  BY <1>2, <1>3
<1>6. call' \in Call /\ call'.pc = pc /\ call'.found = page
  BY <1>4, <1>5 DEF ReadTypeOK, Call
<1>7. SameRequest
  BY <1>4 DEF ReadTypeOK, Call, SameRequest
<1>8. call.pc = "find" /\ UNCHANGED <<docs, rights, walk>>
  BY DEF Find
<1> QED
  BY <1>1, <1>3, <1>6, <1>7, <1>8

LEMMA CountForm ==
  ASSUME ReadTypeOK, Count
  PROVE  /\ call.pc = "count" /\ call' \in Call /\ SameRequest
         /\ call'.pc = "done" /\ call'.total = CountDocuments(call)
         /\ call'.found = call.found /\ call'.quiet = call.quiet
         /\ walk.over => walk' = walk
         /\ ~walk.over =>
              /\ walk' \in Walk /\ walk'.seen = walk.seen \o call.found
              /\ walk'.over = LastPage(call) /\ walk'.first = walk.first
              /\ walk'.grown = walk.grown /\ walk'.shrunk = walk.shrunk
         /\ UNCHANGED <<docs, rights>>
<1>1. CountDocuments(call) \in Nat
  BY MatchingFinite DEF CountDocuments
<1>2. call' = [call EXCEPT !.pc = "done", !.total = CountDocuments(call)]
  BY DEF Count
<1>3. /\ call' \in Call /\ call'.pc = "done" /\ call'.total = CountDocuments(call)
      /\ call'.found = call.found /\ call'.quiet = call.quiet
  BY <1>1, <1>2 DEF ReadTypeOK, Call
<1>4. SameRequest
  BY <1>2 DEF ReadTypeOK, Call, SameRequest
<1>5. ASSUME ~walk.over
      PROVE  /\ walk' \in Walk /\ walk'.seen = walk.seen \o call.found
             /\ walk'.over = LastPage(call) /\ walk'.first = walk.first
             /\ walk'.grown = walk.grown /\ walk'.shrunk = walk.shrunk
  <2>1. walk' = [walk EXCEPT !.seen = @ \o call.found, !.over = LastPage(call)]
    BY <1>5 DEF Count
  <2>2. PICK over : over = LastPage(call)
    OBVIOUS
  <2>3. over \in BOOLEAN /\ walk.seen \o call.found \in Seq(Ids)
    BY <2>2, CallFields DEF LastPage
  <2> QED
    BY <2>1, <2>2, <2>3 DEF ReadTypeOK, Walk
<1> QED
  BY <1>3, <1>4, <1>5 DEF Count

LEMMA FailForm ==
  ASSUME ReadTypeOK, Fail
  PROVE  /\ call.pc \in {"rights", "find", "count"} /\ call' \in Call
         /\ call'.pc = "done" /\ call'.found = <<>> /\ call'.quiet = FALSE
         /\ walk' \in Walk /\ walk' = Nowhere /\ UNCHANGED <<docs, rights>>
<1>1. PICK none : none = <<>>
  OBVIOUS
<1>2. none \in Seq(Ids)
  BY <1>1
<1>3. call' = [call EXCEPT !.pc = "done", !.found = none, !.quiet = FALSE]
  BY <1>1 DEF Fail
<1>4. call' \in Call /\ call'.pc = "done" /\ call'.found = none /\ call'.quiet = FALSE
  BY <1>2, <1>3 DEF ReadTypeOK, Call
<1> QED
  BY <1>1, <1>4 DEF Fail, Nowhere, Walk

(***************************************************************************)
(* A step of somebody else tells the walk what it did to the list.         *)
(***************************************************************************)
LEMMA ElsewhereForm ==
  ASSUME ReadTypeOK, Elsewhere
  PROVE  /\ call' \in Call /\ SameRequest
         /\ call'.pc = call.pc /\ call'.found = call.found /\ call'.total = call.total
         /\ call'.quiet => call.quiet /\ (call.pc = "count" => docs' = docs)
         /\ walk' \in Walk /\ walk'.seen = walk.seen /\ walk'.first = walk.first
         /\ walk'.over = walk.over
         /\ walk.over => walk' = walk
         /\ ~walk.over /\ ~walk'.shrunk =>
              /\ ~walk.shrunk /\ Distinct' /\ rights \subseteq rights'
              /\ \A id \in Ids : HasDoc(id) => HasDoc(id)' /\ docs'[id] = docs[id]
         /\ ~walk.over /\ ~walk'.grown =>
              /\ ~walk.grown /\ Distinct' /\ rights' \subseteq rights
              /\ \A id \in Ids : HasDoc(id)' => HasDoc(id) /\ docs'[id] = docs[id]
<1>1. PICK quiet : quiet = (call.quiet /\ (call.pc = "count" => docs' = docs))
  OBVIOUS
<1>2. quiet \in BOOLEAN /\ call.changes + 1 \in 0 .. MaxChanges
  BY <1>1, ReadRequestsAssumption, CallFields DEF Elsewhere
<1>3. call' = [call EXCEPT !.changes = @ + 1, !.quiet = quiet]
  BY <1>1 DEF Elsewhere
<1>4. /\ call' \in Call /\ call'.pc = call.pc /\ call'.found = call.found
      /\ call'.total = call.total /\ call'.quiet = quiet
  BY <1>2, <1>3 DEF ReadTypeOK, Call
<1>5. SameRequest
  BY <1>3 DEF ReadTypeOK, Call, SameRequest
<1>6. ASSUME ~walk.over
      PROVE  /\ walk' \in Walk /\ walk'.seen = walk.seen /\ walk'.first = walk.first
             /\ walk'.over = walk.over
             /\ ~walk'.shrunk =>
                  /\ ~walk.shrunk /\ Distinct' /\ rights \subseteq rights'
                  /\ \A id \in Ids : HasDoc(id) => HasDoc(id)' /\ docs'[id] = docs[id]
             /\ ~walk'.grown =>
                  /\ ~walk.grown /\ Distinct' /\ rights' \subseteq rights
                  /\ \A id \in Ids : HasDoc(id)' => HasDoc(id) /\ docs'[id] = docs[id]
  <2> DEFINE moved == ~Distinct' \/ \E id \in Ids : /\ HasDoc(id) /\ HasDoc(id)'
                                                   /\ docs'[id] # docs[id]
             more == rights' \ rights # {} \/ \E id \in Ids : HasDoc(id)' /\ ~HasDoc(id)
             less == rights \ rights' # {} \/ \E id \in Ids : HasDoc(id) /\ ~HasDoc(id)'
  <2>1. PICK g : g = (walk.grown \/ moved \/ more)
    OBVIOUS
  <2>2. PICK h : h = (walk.shrunk \/ moved \/ less)
    OBVIOUS
  <2>3. walk' = [walk EXCEPT !.grown = g, !.shrunk = h]
    BY <1>6, <2>1, <2>2 DEF Elsewhere, Disturb
  <2>4. g \in BOOLEAN /\ h \in BOOLEAN
    BY <2>1, <2>2
  <2>5. /\ walk' \in Walk /\ walk'.seen = walk.seen /\ walk'.first = walk.first
        /\ walk'.over = walk.over /\ walk'.grown = g /\ walk'.shrunk = h
    BY <2>3, <2>4 DEF ReadTypeOK, Walk
  <2>6. ~h => /\ ~walk.shrunk /\ Distinct' /\ rights \subseteq rights'
              /\ \A id \in Ids : HasDoc(id) => HasDoc(id)' /\ docs'[id] = docs[id]
    BY <2>2
  <2>7. ~g => /\ ~walk.grown /\ Distinct' /\ rights' \subseteq rights
              /\ \A id \in Ids : HasDoc(id)' => HasDoc(id) /\ docs'[id] = docs[id]
    BY <2>1
  <2> QED
    BY <2>5, <2>6, <2>7
<1>7. walk.over => walk' = walk
  BY DEF Elsewhere, Disturb
<1> QED
  BY <1>1, <1>4, <1>5, <1>6, <1>7 DEF ReadTypeOK
(***************************************************************************)
(* A list begins a walk only if it begins at the start.                    *)
(***************************************************************************)
LEMMA ListProcessesForm ==
  ASSUME ReadTypeOK, NEW o \in Options, ListProcesses(o)
  PROVE  /\ call.pc = "idle" /\ call' \in Call /\ call'.pc = "rights"
         /\ call'.kind = "list" /\ call'.ids = o.ids /\ call'.found = <<>>
         /\ UNCHANGED <<docs, rights>>
         /\ walk' \in Walk
         /\ \/ walk' = walk
            \/ /\ call'.ids = NoFilter /\ call'.offset = 0
               /\ walk'.seen = <<>> /\ walk'.first = Visible' /\ walk'.over = FALSE
               /\ walk'.grown = ~Distinct /\ walk'.shrunk = ~Distinct
<1>1. /\ o.ids \in (SUBSET Ids) \cup {NoFilter} /\ o.search \in SUBSET Keys
      /\ o.limit \in Nat /\ o.offset \in Nat /\ o.descending \in BOOLEAN
      /\ o.admin \in BOOLEAN
  BY ReadRequestsAssumption DEF ListOptions
<1>2. List(o) /\ call.pc = "idle" /\ UNCHANGED <<docs, rights>>
  BY IdleForm DEF ListProcesses
<1>3. /\ call' \in Call /\ call'.pc = "rights" /\ call'.kind = "list"
      /\ call'.ids = o.ids /\ call'.offset = o.offset /\ call'.found = <<>>
  BY <1>1, <1>2, ListForm
<1>4. CASE o.ids # NoFilter \/ o.offset # 0
  BY <1>2, <1>3, <1>4 DEF ListProcesses, ReadTypeOK
<1>5. CASE o.ids = NoFilter /\ o.offset = 0
  <2>1. PICK first, odd, none : first = Visible' /\ odd = ~Distinct /\ none = <<>>
    OBVIOUS
  <2>2. walk' = [seen |-> none, first |-> first, grown |-> odd, shrunk |-> odd,
                 over |-> FALSE]
    BY <1>5, <2>1 DEF ListProcesses
  <2>3. first \in SUBSET Ids /\ odd \in BOOLEAN /\ none \in Seq(Ids)
    BY <2>1 DEF Visible
  <2>4. /\ walk' \in Walk /\ walk'.seen = none /\ walk'.first = first
        /\ walk'.over = FALSE /\ walk'.grown = odd /\ walk'.shrunk = odd
    BY <2>2, <2>3 DEF Walk
  <2> QED
    BY <1>2, <1>3, <1>5, <2>1, <2>4
<1> QED
  BY <1>4, <1>5

-----------------------------------------------------------------------------
(***************************************************************************)
(* Types.                                                                  *)
(***************************************************************************)
LEMMA ReadTypes ==
  ASSUME ReadTypeOK, [ReadNext]_readVars
  PROVE  ReadTypeOK'
<1>0. /\ docs \in [Ids -> Keys \cup {NoDoc}] /\ rights \subseteq Ids
      /\ call \in Call /\ walk \in Walk
  BY DEF ReadTypeOK
<1>1. ASSUME NEW o \in Options, ListProcesses(o)
      PROVE  ReadTypeOK'
  BY <1>0, <1>1, ListProcessesForm DEF ReadTypeOK
<1>2. ASSUME NEW id \in Ids, NEW admin \in BOOLEAN, GetProcess(id, admin)
      PROVE  ReadTypeOK'
  BY <1>0, <1>2, GetProcessForm DEF ReadTypeOK, GetProcess
<1>3. CASE GetPublic
  BY <1>0, <1>3, GetPublicForm DEF ReadTypeOK, GetPublic
<1>4. CASE NextPage
  BY <1>0, <1>4, NextPageForm DEF ReadTypeOK, NextPage
<1>5. CASE Leave
  BY <1>0, <1>5, IdleForm DEF ReadTypeOK, Leave, Nowhere, Walk
<1>6. CASE AskPermissions
  BY <1>0, <1>6, AskForm DEF ReadTypeOK
<1>7. CASE Find
  BY <1>0, <1>7, FindForm DEF ReadTypeOK
<1>8. CASE Count
  BY <1>0, <1>8, CountForm DEF ReadTypeOK
<1>9. CASE Fail
  BY <1>0, <1>9, FailForm DEF ReadTypeOK
<1>10. ASSUME NEW id \in Ids, Share(id)
       PROVE  ReadTypeOK'
  BY <1>0, <1>10, ElsewhereForm DEF ReadTypeOK, Share
<1>11. ASSUME NEW id \in Ids, NEW k \in Keys \cup {NoDoc}, Change(id, k)
       PROVE  ReadTypeOK'
  BY <1>0, <1>11, ElsewhereForm DEF ReadTypeOK, Change
<1>12. CASE UNCHANGED readVars
  BY <1>0, <1>12 DEF ReadTypeOK, readVars
<1> QED
  BY <1>1, <1>2, <1>3, <1>4, <1>5, <1>6, <1>7, <1>8, <1>9, <1>10, <1>11, <1>12
  DEF ReadNext, Ask
-----------------------------------------------------------------------------
(***************************************************************************)
(* What is answered.                                                       *)
(***************************************************************************)

(***************************************************************************)
(* As long as the request and the documents are the same, it matches the   *)
(* same.                                                                   *)
(***************************************************************************)
LEMMA SameMatches ==
  ASSUME SameRequest, UNCHANGED docs
  PROVE  Matching(call)' = Matching(call)
BY DEF SameRequest, Matching, HasDoc

(***************************************************************************)
(* What is found is what was looked for: permitted, and asked for.         *)
(***************************************************************************)
LEMMA PermittedStep ==
  ASSUME ReadTypeOK, Asked, [ReadNext]_readVars
  PROVE  Asked' /\ (OnlyPermitted => OnlyPermitted')
<1> DEFINE Goal == Asked' /\ (OnlyPermitted => OnlyPermitted')
<1>0. /\ ReadTypeOK' /\ DOMAIN <<>> = {}
      /\ call'.filter \in (SUBSET Ids) \cup {NoFilter}
  BY ReadTypes DEF ReadTypeOK, Call
<1>1. ASSUME call'.pc \in {"idle", "rights"}, call'.found = <<>>
      PROVE  Goal
  BY <1>0, <1>1 DEF OnlyPermitted, Asked
<1>2. ASSUME SameRequest, call'.pc \in {call.pc, "done"}, call'.found = call.found
      PROVE  Goal
  BY <1>2 DEF SameRequest, OnlyPermitted, Asked, Select
<1>3. ASSUME NEW o \in Options, ListProcesses(o)
      PROVE  Goal
  BY <1>1, <1>3, ListProcessesForm
<1>4. ASSUME NEW id \in Ids, NEW admin \in BOOLEAN, GetProcess(id, admin)
      PROVE  Goal
  BY <1>1, <1>4, GetProcessForm
<1>5. CASE GetPublic
  BY <1>0, <1>5, GetPublicForm DEF OnlyPermitted, Asked
<1>6. CASE NextPage
  BY <1>1, <1>6, NextPageForm
<1>7. CASE Leave
  BY <1>1, <1>7, IdleForm DEF Leave
<1>8. CASE AskPermissions
  <2> DEFINE unasked == call.admin /\ (call.kind = "one" \/ call.ids = NoFilter)
  <2>1. call'.found = <<>> /\ call'.ids = call.ids /\ call.pc = "rights"
    BY <1>8, AskForm DEF Asked
  <2>2. OnlyPermitted'
    BY <1>0, <2>1 DEF OnlyPermitted
  <2>3. CASE unasked
    <3>1. call'.filter = call.ids /\ call'.allowed = Ids
      BY <1>8, <2>3, AskForm
    <3>2. call.ids # NoFilter => call.ids = call.ids \cap Ids
      BY CallFields
    <3> QED
      BY <2>1, <2>2, <3>1, <3>2 DEF Asked, Select
  <2>4. CASE ~unasked
    <3>1. call'.filter = Select(call, call'.allowed)
      BY <1>8, <2>4, AskForm
    <3>2. call'.allowed \in SUBSET Ids
      BY <1>0 DEF ReadTypeOK, Call
    <3>3. call'.filter # NoFilter
      BY <3>1, <3>2, ReadRequestsAssumption, CallFields DEF Select
    <3> QED
      BY <2>1, <2>2, <3>1, <3>3 DEF Asked, Select
  <2> QED
    BY <2>3, <2>4
<1>9. CASE Find
  <2>1. PICK s \in SetToSeqs(Matching(call)) : call'.found = Cut(call, s)
    BY <1>9, FindForm
  <2>2. /\ SameRequest /\ call.pc = "find" /\ call'.pc \in {"count", "done"}
    BY <1>9, FindForm
  <2>3. s \in Seq(Matching(call))
    BY MatchingFinite, OrderForm
  <2>4. call'.found \in Seq(Matching(call))
    BY <2>1, <2>3, CallFields, CutForm
  <2>5. \A i \in DOMAIN call'.found : call'.found[i] \in Matching(call)
    BY <2>4
  <2>6. \A id \in Matching(call) : id \in Select(call, call.allowed)
    BY <2>2, CallFields DEF Matching, Asked, Select
  <2> QED
    BY <2>2, <2>5, <2>6 DEF OnlyPermitted, Asked, SameRequest, Select
<1>10. CASE Count
  BY <1>2, <1>10, CountForm
<1>11. CASE Fail
  BY <1>0, <1>11, FailForm DEF OnlyPermitted, Asked
<1>12. CASE Elsewhere
  BY <1>2, <1>12, ElsewhereForm
<1>13. CASE UNCHANGED readVars
  BY <1>2, <1>13 DEF readVars, SameRequest
<1> QED
  BY <1>3, <1>4, <1>5, <1>6, <1>7, <1>8, <1>9, <1>10, <1>11, <1>12, <1>13
  DEF ReadNext, Ask, Share, Change

(***************************************************************************)
(* The size of a page in terms of the total.                               *)
(***************************************************************************)
LEMMA PageSizeForm ==
  ASSUME NEW c, c.limit \in Nat, c.offset \in Nat, NEW total \in Nat
  PROVE  LET rest == IF c.offset >= total THEN 0 ELSE total - c.offset
         IN  PageSize(c, total) =
               IF c.ids # NoFilter THEN total
               ELSE IF c.limit = 0 \/ rest <= c.limit THEN rest ELSE c.limit
<1>1. PICK k, m : k = c.limit /\ m = c.offset
  OBVIOUS
<1>2. PICK rest : rest = IF m >= total THEN 0 ELSE total - m
  OBVIOUS
<1>3. k \in Nat /\ m \in Nat /\ rest \in Nat
  BY <1>1, <1>2
<1>4. Max({0, total - m}) = rest
  BY <1>2, <1>3, Larger
<1>5. Min({k, rest}) = IF rest <= k THEN rest ELSE k
  BY <1>3, Smaller
<1> QED
  BY <1>1, <1>2, <1>4, <1>5 DEF PageSize

(***************************************************************************)
(* The page and the total fit if both queries met the same documents.      *)
(***************************************************************************)
LEMMA FittingStep ==
  ASSUME ReadTypeOK, Fitting, [ReadNext]_readVars
  PROVE  Fitting' /\ (TotalExact => TotalExact')
<1> DEFINE Goal == Fitting' /\ (TotalExact => TotalExact')
<1>1. ASSUME call'.pc \in {"idle", "rights"} \/ call'.kind # "list"
      PROVE  Goal
  BY <1>1 DEF Fitting, TotalExact
<1>2. ASSUME SameRequest, call'.pc = call.pc, call'.found = call.found,
             call'.total = call.total,
             call'.quiet => call.quiet /\ (call.pc = "count" => docs' = docs)
      PROVE  Goal
  BY <1>2, SameMatches
  DEF SameRequest, Fitting, TotalExact, PageSize, CountDocuments
<1>3. ASSUME NEW o \in Options, ListProcesses(o)
      PROVE  Goal
  BY <1>1, <1>3, ListProcessesForm
<1>4. ASSUME NEW id \in Ids, NEW admin \in BOOLEAN, GetProcess(id, admin)
      PROVE  Goal
  BY <1>1, <1>4, GetProcessForm
<1>5. CASE GetPublic
  BY <1>1, <1>5, GetPublicForm
<1>6. CASE NextPage
  BY <1>1, <1>6, NextPageForm
<1>7. CASE Leave
  BY <1>1, <1>7, IdleForm DEF Leave
<1>8. CASE AskPermissions
  BY <1>8, AskForm DEF Fitting, TotalExact
<1>9. CASE Find /\ call.kind = "list"
  <2>1. PICK s \in SetToSeqs(Matching(call)) : call'.found = Cut(call, s)
    BY <1>9, FindForm
  <2>2. /\ SameRequest /\ call.pc = "find" /\ call'.pc = "count" /\ UNCHANGED docs
    BY <1>9, FindForm
  <2>3. s \in Seq(Matching(call)) /\ Len(s) = CountDocuments(call) /\ Len(s) \in Nat
    BY MatchingFinite, OrderForm DEF CountDocuments
  <2>4. call.ids # NoFilter => call.limit = 0 /\ call.offset = 0
    BY <1>9, <2>2 DEF Fitting
  <2>5. PICK c, k : c = call /\ k = Len(s)
    OBVIOUS
  <2>6. Len(Cut(c, s)) = PageSize(c, k)
    <3> DEFINE rest == IF c.offset >= k THEN 0 ELSE k - c.offset
    <3>1. c.limit \in Nat /\ c.offset \in Nat /\ k \in Nat
      BY <2>3, <2>5, CallFields
    <3>2. Len(Cut(c, s)) = IF c.limit = 0 \/ rest <= c.limit THEN rest ELSE c.limit
      BY <2>3, <2>5, <3>1, CutForm
    <3>3. PageSize(c, k) = IF c.ids # NoFilter THEN k
                           ELSE IF c.limit = 0 \/ rest <= c.limit THEN rest
                           ELSE c.limit
      BY <3>1, PageSizeForm
    <3>4. c.ids # NoFilter => c.limit = 0 /\ rest = k
      BY <2>4, <2>5, <3>1
    <3> HIDE DEF rest
    <3> QED
      BY <3>2, <3>3, <3>4
  <2>7. CountDocuments(call)' = CountDocuments(call)
    BY <2>2, SameMatches DEF CountDocuments
  <2>8. PageSize(call', k) = PageSize(call, k)
    BY <2>2 DEF SameRequest, PageSize
  <2> QED
    BY <2>1, <2>2, <2>3, <2>4, <2>5, <2>6, <2>7, <2>8
    DEF SameRequest, Fitting, TotalExact
<1>10. CASE Find /\ call.kind # "list"
  BY <1>1, <1>10, FindForm DEF SameRequest
<1>11. CASE Count
  BY <1>11, CountForm DEF SameRequest, Fitting, TotalExact, PageSize
<1>12. CASE Fail
  BY <1>12, FailForm DEF Fitting, TotalExact
<1>13. CASE Elsewhere
  BY <1>2, <1>13, ElsewhereForm
<1>14. CASE UNCHANGED readVars
  BY <1>2, <1>14 DEF readVars, SameRequest
<1> QED
  BY <1>3, <1>4, <1>5, <1>6, <1>7, <1>8, <1>9, <1>10, <1>11, <1>12, <1>13, <1>14
  DEF ReadNext, Ask, Share, Change
-----------------------------------------------------------------------------
(***************************************************************************)
(* A walk through the pages.                                               *)
(***************************************************************************)
LEMMA Joined ==
  ASSUME NEW s \in Seq(Ids), NEW t \in Seq(Ids)
  PROVE  /\ s \o t \in Seq(Ids) /\ Len(s \o t) = Len(s) + Len(t)
         /\ \A i \in 1 .. Len(s) + Len(t) :
              (s \o t)[i] = IF i <= Len(s) THEN s[i] ELSE t[i - Len(s)]
         /\ t = <<>> => s \o t = s
         /\ Len(s) \in Nat /\ Len(t) \in Nat
BY ConcatProperties, ConcatEmptySeq

LEMMA ReadSoFarForm ==
  ASSUME ReadTypeOK
  PROVE  /\ ReadSoFar \in Seq(Ids) /\ Len(ReadSoFar) \in Nat
         /\ call.pc = "done" => ReadSoFar = walk.seen
         /\ call.found = <<>> => ReadSoFar = walk.seen
         /\ call.pc # "done" => /\ ReadSoFar = walk.seen \o call.found
                                /\ Len(ReadSoFar) = Len(walk.seen) + Len(call.found)
<1>1. walk.seen \in Seq(Ids) /\ call.found \in Seq(Ids)
  BY CallFields
<1> QED
  BY <1>1, Joined DEF ReadSoFar

(***************************************************************************)
(* A walk has read as much as its offset says.                             *)
(***************************************************************************)
LEMMA UnderWayStep ==
  ASSUME ReadTypeOK, Asked, UnderWay, [ReadNext]_readVars
  PROVE  UnderWay'
<1>0. /\ ReadTypeOK' /\ Asked => (call.pc \in {"idle", "rights", "find"} => call.found = <<>>)
      /\ ReadSoFar' \in Seq(Ids)
      /\ call'.pc = "done" => ReadSoFar' = walk'.seen
      /\ call'.found = <<>> => ReadSoFar' = walk'.seen
      /\ call'.pc # "done" => /\ ReadSoFar' = walk'.seen \o call'.found
                              /\ Len(ReadSoFar') = Len(walk'.seen) + Len(call'.found)
  <2>1. ReadTypeOK'
    BY ReadTypes
  <2>2. /\ walk'.seen \in Seq(Ids) /\ call'.found \in Seq(Ids)
    BY <2>1 DEF ReadTypeOK, Call, Walk
  <2> QED
    BY <2>1, <2>2, Joined DEF ReadSoFar, Asked
<1>1. ASSUME walk'.over
      PROVE  UnderWay'
  BY <1>1 DEF UnderWay
<1>2. call.pc = "idle" => walk.over
  BY CallFields DEF UnderWay
<1>3. ASSUME NEW o \in Options, ListProcesses(o)
      PROVE  UnderWay'
  <2>1. CASE walk' = walk
    BY <1>1, <1>2, <1>3, <2>1, ListProcessesForm
  <2>2. CASE walk' # walk
    <3>1. /\ call'.pc = "rights" /\ call'.kind = "list" /\ call'.ids = NoFilter
          /\ call'.offset = 0 /\ walk'.seen = <<>> /\ call'.found = <<>>
      BY <1>3, <2>2, ListProcessesForm
    <3>2. Len(ReadSoFar') = 0 /\ Len(walk'.seen) = 0
      BY <1>0, <3>1
    <3>3. Cardinality(Ids) \in Nat
      BY MatchingFinite
    <3> QED
      BY <3>1, <3>2, <3>3 DEF UnderWay
  <2> QED
    BY <2>1, <2>2
<1>4. ASSUME NEW id \in Ids, NEW admin \in BOOLEAN, GetProcess(id, admin)
      PROVE  UnderWay'
  BY <1>1, <1>2, <1>4, IdleForm DEF GetProcess
<1>5. CASE GetPublic
  BY <1>1, <1>2, <1>5, IdleForm DEF GetPublic
<1>6. CASE NextPage
  <2>1. call.pc = "done" /\ ~walk.over /\ walk' = walk
    BY <1>6 DEF NextPage
  <2>2. ReadSoFar' = walk.seen /\ ReadSoFar = walk.seen
    BY <1>0, <1>6, <2>1, NextPageForm, ReadSoFarForm
  <2> QED
    BY <1>6, <2>1, <2>2, NextPageForm DEF UnderWay
<1>7. CASE Leave
  BY <1>1, <1>7 DEF Leave, Nowhere
<1>8. CASE AskPermissions /\ ~walk.over
  <2>1. /\ call.pc = "rights" /\ call.kind = "list" /\ call.ids = NoFilter
        /\ Len(walk.seen) = call.offset /\ call.found = <<>>
        /\ Len(ReadSoFar) <= Cardinality(Ids) /\ walk' = walk
    BY <1>0, <1>8, AskForm DEF UnderWay, Asked
  <2>2. /\ call'.pc = "find" /\ call'.kind = "list" /\ call'.ids = NoFilter
        /\ call'.offset = call.offset /\ call'.found = <<>> /\ call'.admin = call.admin
        /\ call.admin => call'.filter = NoFilter
        /\ ~call.admin => call'.filter = rights
    BY <1>8, <2>1, AskForm DEF Select
  <2>3. rights # NoFilter
    BY ReadRequestsAssumption DEF ReadTypeOK
  <2>4. ReadSoFar' = walk.seen /\ ReadSoFar = walk.seen
    BY <1>0, <2>1, <2>2, ReadSoFarForm
  <2> QED
    BY <2>1, <2>2, <2>3, <2>4 DEF UnderWay
<1>9. CASE AskPermissions /\ walk.over
  BY <1>1, <1>9, AskForm
<1>10. CASE Find /\ ~walk.over
  <2>1. PICK s \in SetToSeqs(Matching(call)) : call'.found = Cut(call, s)
    BY <1>10, FindForm
  <2>2. /\ call.pc = "find" /\ call.kind = "list" /\ call.ids = NoFilter
        /\ Len(walk.seen) = call.offset /\ call.found = <<>>
        /\ (call.filter = NoFilter <=> call.admin)
        /\ Len(ReadSoFar) <= Cardinality(Ids) /\ walk' = walk
    BY <1>0, <1>10, FindForm DEF UnderWay, Asked
  <2>3. call'.pc = "count" /\ SameRequest
    BY <1>10, <2>2, FindForm
  <2>4. /\ s \in Seq(Matching(call)) /\ Len(s) \in Nat /\ Cardinality(Ids) \in Nat
        /\ Len(s) <= Cardinality(Ids)
    BY MatchingFinite, OrderForm
  <2>5. ReadSoFar = walk.seen
    BY <2>2, ReadSoFarForm
  <2>6. PICK c : c = call
    OBVIOUS
  <2>7. /\ c.limit \in Nat /\ c.offset \in Nat
        /\ c.offset <= Cardinality(Ids)
    BY <2>2, <2>5, <2>6, CallFields
  <2>8. /\ c.offset + Len(Cut(c, s)) <= Cardinality(Ids)
        /\ c.limit # 0 => Len(Cut(c, s)) <= c.limit
    BY <2>4, <2>7, CutForm
  <2>9. /\ Len(ReadSoFar') = Len(walk.seen) + Len(call'.found)
    BY <1>0, <2>2, <2>3
  <2> QED
    BY <2>1, <2>2, <2>3, <2>6, <2>8, <2>9 DEF SameRequest, UnderWay
<1>11. CASE Find /\ walk.over
  BY <1>1, <1>11, FindForm
<1>12. CASE Count /\ ~walk.over
  <2>1. /\ call.pc = "count" /\ call.kind = "list" /\ call.ids = NoFilter
        /\ Len(walk.seen) = call.offset /\ Len(ReadSoFar) <= Cardinality(Ids)
        /\ call.limit # 0 => Len(call.found) <= call.limit
    BY <1>12, CountForm DEF UnderWay
  <2>2. /\ call'.pc = "done" /\ SameRequest /\ walk'.seen = walk.seen \o call.found
        /\ walk'.over = LastPage(call)
    BY <1>12, CountForm
  <2>3. ReadSoFar' = ReadSoFar
    BY <1>0, <2>1, <2>2, ReadSoFarForm
  <2>4. ~LastPage(call) => call.limit # 0 /\ Len(call.found) = call.limit
    BY <2>1, CallFields DEF LastPage
  <2>5. Len(walk'.seen) = call.offset + Len(call.found)
    BY <2>1, <2>2, CallFields, Joined
  <2> QED
    BY <2>1, <2>2, <2>3, <2>4, <2>5 DEF SameRequest, UnderWay
<1>13. CASE Count /\ walk.over
  BY <1>1, <1>13, CountForm
<1>14. CASE Fail
  BY <1>1, <1>14, FailForm DEF Nowhere
<1>15. CASE Elsewhere
  BY <1>15, ElsewhereForm DEF UnderWay, ReadSoFar, SameRequest
<1>16. CASE UNCHANGED readVars
  BY <1>16 DEF readVars, UnderWay, ReadSoFar
<1> QED
  BY <1>3, <1>4, <1>5, <1>6, <1>7, <1>8, <1>9, <1>10, <1>11, <1>12, <1>13, <1>14,
     <1>15, <1>16
  DEF ReadNext, Ask, Share, Change
(***************************************************************************)
(* A page holds what has its place in it. If something comes after it, the *)
(* page is full.                                                           *)
(***************************************************************************)
LEMMA FoundPlaces ==
  ASSUME ReadTypeOK, Find, call.kind # "public", Distinct
  PROVE  LET M == Matching(call)
             place(id) == Cardinality(Upto(docs, call.descending, id, M))
             n == Len(call'.found)
         IN  /\ call'.found \in Seq(M) /\ n \in Nat
             /\ \A i \in 1 .. n : place(call'.found[i]) = call.offset + i
             /\ \A id \in M : place(id) \in call.offset + 1 .. call.offset + n =>
                                \E i \in 1 .. n : call'.found[i] = id
             /\ \A id \in M : place(id) > call.offset + n =>
                                call.limit # 0 /\ n = call.limit
<1> DEFINE M == Matching(call)
           place(id) == Cardinality(Upto(docs, call.descending, id, M))
           n == Len(call'.found)
<1>1. PICK s \in Sorted(call) : call'.found = Cut(call, s)
  BY FindForm
<1>2. s \in SetToSeqs(M)
  BY <1>1 DEF Sorted
<1>3. /\ s \in Seq(M) /\ Len(s) \in Nat
      /\ \A id \in M : \E i \in 1 .. Len(s) : s[i] = id
  BY <1>2, MatchingFinite, OrderForm
<1>4. \A i \in 1 .. Len(s) : place(s[i]) = i
  BY SortedPlaces DEF ReadTypeOK
<1>5. PICK k, m : k = call.limit /\ m = call.offset
  OBVIOUS
<1>6. k \in Nat /\ m \in Nat
  BY <1>5, CallFields
<1>7. PICK rest : rest = IF m >= Len(s) THEN 0 ELSE Len(s) - m
  OBVIOUS
<1>8. /\ call'.found \in Seq(M)
      /\ n = IF k = 0 \/ rest <= k THEN rest ELSE k
      /\ \A i \in 1 .. n : call'.found[i] = s[m + i] /\ m + i \in 1 .. Len(s)
  <2>1. PICK page : page = Cut(call, s)
    OBVIOUS
  <2>2. /\ page \in Seq(M) /\ Len(page) = IF k = 0 \/ rest <= k THEN rest ELSE k
        /\ \A i \in 1 .. Len(page) : page[i] = s[m + i] /\ m + i \in 1 .. Len(s)
    <3> DEFINE size == IF k = 0 \/ rest <= k THEN rest ELSE k
    <3>1. s \in Seq(M) /\ call.limit \in Nat /\ call.offset \in Nat
      BY <1>3, <1>5, <1>6
    <3>2. /\ page \in Seq(M) /\ Len(page) = size
          /\ \A i \in 1 .. size : page[i] = s[m + i] /\ m + i \in 1 .. Len(s)
      <4> HIDE DEF M
      <4> QED
        BY <1>5, <1>7, <2>1, <3>1, CutForm
    <3> QED
      BY <3>2
  <2> QED
    BY <1>1, <2>1, <2>2
<1>9. n \in Nat /\ rest \in Nat
  <2>1. rest \in Nat
    BY <1>3, <1>6, <1>7
  <2>2. n \in {rest, k}
    BY <1>8
  <2> QED
    BY <1>6, <2>1, <2>2
<1>10. ASSUME NEW i \in 1 .. n
       PROVE  place(call'.found[i]) = m + i
  <2>1. PICK j : j = m + i
    OBVIOUS
  <2>2. call'.found[i] = s[j] /\ j \in 1 .. Len(s)
    BY <1>8, <2>1
  <2>3. place(s[j]) = j
    BY <1>4, <2>2
  <2> QED
    BY <2>1, <2>2, <2>3
<1>11. ASSUME NEW id \in M
       PROVE  /\ place(id) \in m + 1 .. m + n => \E i \in 1 .. n : call'.found[i] = id
              /\ place(id) > m + n => k # 0 /\ n = k
  <2>1. PICK i \in 1 .. Len(s) : s[i] = id
    BY <1>3
  <2>2. place(id) = i
    BY <1>4, <2>1
  <2> HIDE DEF place, M
  <2>3. ASSUME i \in m + 1 .. m + n
        PROVE  \E j \in 1 .. n : call'.found[j] = id
    <3>1. i - m \in 1 .. n /\ m + (i - m) = i
      BY <1>6, <1>9, <2>3
    <3> QED
      BY <1>8, <2>1, <3>1
  <2>4. i > m + n => k # 0 /\ n = k
    BY <1>3, <1>6, <1>7, <1>8
  <2> QED
    BY <2>2, <2>3, <2>4
<1> QED
  BY <1>5, <1>8, <1>9, <1>10, <1>11

(***************************************************************************)
(* What was not read stays ahead while nothing is taken from the list.     *)
(***************************************************************************)
LEMMA ListingForm ==
  ASSUME ReadTypeOK
  PROVE  /\ Listing \in SUBSET Ids /\ IsFiniteSet(Listing)
         /\ \A id \in Listing : HasDoc(id)
BY MatchingFinite DEF Listing, Matching, Visible

LEMMA AheadKept ==
  ASSUME ReadTypeOK, ReadTypeOK', Ahead, ~walk.over, ~walk.shrunk,
         walk'.first = walk.first, ReadSoFar' = ReadSoFar,
         call'.descending = call.descending, Distinct',
         Listing \subseteq Listing',
         call'.pc = "find" /\ ~call'.admin => call'.filter \subseteq rights',
         \A id \in Listing : docs'[id] = docs[id],
         call'.pc = "count" => call.pc = "count" /\ LastPage(call') = LastPage(call)
  PROVE  Ahead'
<1>1. /\ walk.first \subseteq Listing
      /\ \A id \in walk.first \ ToSet(ReadSoFar) :
           /\ Place(id) > Len(ReadSoFar)
           /\ call.pc = "count" => ~LastPage(call)
  BY DEF Ahead
<1>2. Len(ReadSoFar) \in Nat
  BY ReadSoFarForm
<1>3. PICK S, T, d, e, down : /\ S = Listing /\ T = Listing' /\ d = docs /\ e = docs'
                              /\ down = call.descending
  OBVIOUS
<1>4. S \subseteq T /\ T \subseteq Ids /\ IsFiniteSet(T) /\ \A id \in S : d[id] = e[id]
  <2>1. T \subseteq Ids
    BY <1>3 DEF Listing, Matching, Visible
  <2> QED
    BY <1>3, <2>1, MatchingFinite, FS_Subset
<1>5. ASSUME NEW id \in S
      PROVE  /\ Place(id) = Cardinality(Upto(d, down, id, S))
             /\ Place(id)' = Cardinality(Upto(e, down, id, T))
             /\ Place(id) \in Nat /\ Place(id)' \in Nat /\ Place(id) <= Place(id)'
  <2>1. /\ Place(id) = Cardinality(Upto(d, down, id, S))
        /\ Place(id)' = Cardinality(Upto(e, down, id, T))
    BY <1>3 DEF Place
  <2>2. Upto(d, down, id, S) \subseteq S /\ Upto(e, down, id, T) \subseteq T
    BY DEF Upto
  <2>3. IsFiniteSet(S)
    BY <1>4, FS_Subset
  <2>4. /\ Cardinality(Upto(d, down, id, S)) \in Nat
        /\ Cardinality(Upto(e, down, id, T)) \in Nat
    BY <1>4, <2>2, <2>3, FS_Subset, FS_CardinalityType
  <2>5. Cardinality(Upto(d, down, id, S)) <= Cardinality(Upto(e, down, id, T))
    BY <1>4, PlaceGrows
  <2> QED
    BY <2>1, <2>4, <2>5
<1>6. ASSUME NEW id \in walk.first \ ToSet(ReadSoFar)
      PROVE  Place(id)' > Len(ReadSoFar)
  BY <1>1, <1>2, <1>3, <1>5
<1>7. walk'.first \subseteq Listing'
  BY <1>1
<1> QED
  BY <1>1, <1>6, <1>7 DEF Ahead

(***************************************************************************)
(* What was read stays behind while nothing is added to the list.          *)
(***************************************************************************)
LEMMA BehindKept ==
  ASSUME ReadTypeOK, ReadTypeOK', Behind, ~walk.over, ~walk.grown,
         ReadSoFar' = ReadSoFar, call'.descending = call.descending, Distinct',
         Listing' \subseteq Listing,
         call'.pc = "find" /\ ~call'.admin => rights' \subseteq call'.filter,
         \A id \in Listing' : docs'[id] = docs[id]
  PROVE  Behind'
<1>1. /\ IsInjective(ReadSoFar)
      /\ \A id \in ToSet(ReadSoFar) \cap Listing : Place(id) <= Len(ReadSoFar)
  BY DEF Behind
<1>2. Len(ReadSoFar) \in Nat
  BY ReadSoFarForm
<1>3. PICK S, T, d, e, down : /\ S = Listing' /\ T = Listing /\ d = docs' /\ e = docs
                              /\ down = call.descending
  OBVIOUS
<1>4. S \subseteq T /\ T \subseteq Ids /\ IsFiniteSet(T) /\ \A id \in S : d[id] = e[id]
  BY <1>3, ListingForm
<1>5. ASSUME NEW id \in S
      PROVE  /\ Place(id) \in Nat /\ Place(id)' \in Nat /\ Place(id)' <= Place(id)
  <2>1. /\ Place(id)' = Cardinality(Upto(d, down, id, S))
        /\ Place(id) = Cardinality(Upto(e, down, id, T))
    BY <1>3 DEF Place
  <2>2. Upto(d, down, id, S) \subseteq S /\ Upto(e, down, id, T) \subseteq T
    BY DEF Upto
  <2>3. IsFiniteSet(S)
    BY <1>4, FS_Subset
  <2>4. /\ Cardinality(Upto(d, down, id, S)) \in Nat
        /\ Cardinality(Upto(e, down, id, T)) \in Nat
    BY <1>4, <2>2, <2>3, FS_Subset, FS_CardinalityType
  <2>5. Cardinality(Upto(d, down, id, S)) <= Cardinality(Upto(e, down, id, T))
    BY <1>4, PlaceGrows
  <2> QED
    BY <2>1, <2>4, <2>5
<1>6. ASSUME NEW id \in ToSet(ReadSoFar) \cap Listing'
      PROVE  Place(id)' <= Len(ReadSoFar)
  BY <1>1, <1>2, <1>3, <1>4, <1>5
<1> QED
  BY <1>1, <1>6 DEF Behind
(***************************************************************************)
(* A new walk has everything ahead of it, and nothing behind.              *)
(***************************************************************************)
LEMMA WalkBegins ==
  ASSUME ReadTypeOK, NEW o \in Options, ListProcesses(o), ~walk'.over, walk.over
  PROVE  Ahead' /\ Behind'
<1>1. /\ call'.pc = "rights" /\ call'.found = <<>> /\ UNCHANGED <<docs, rights>>
      /\ walk'.seen = <<>> /\ walk'.first = Visible'
      /\ walk'.grown = ~Distinct /\ walk'.shrunk = ~Distinct
  BY ListProcessesForm
<1>2. PICK S, down : S = Visible' /\ down = call'.descending
  OBVIOUS
<1>3. Listing' = S
  BY <1>1, <1>2 DEF Listing
<1>4. S \in SUBSET Ids /\ \A id \in S : HasDoc(id)
  BY <1>1, <1>2 DEF Visible, HasDoc
<1>5. ASSUME NEW id \in S
      PROVE  Place(id)' \in Nat /\ Place(id)' > 0
  <2>1. Place(id)' = Cardinality(Upto(docs, down, id, S))
    BY <1>1, <1>2, <1>3 DEF Place
  <2>2. Cardinality(S) \in Nat
    BY <1>4, ReadRequestsAssumption, FS_Subset, FS_CardinalityType
  <2> QED
    BY <1>4, <2>1, <2>2, PlaceForm DEF ReadTypeOK
<1>6. PICK none : none = <<>>
  OBVIOUS
<1>7. none \in Seq(Ids) /\ Len(none) = 0 /\ ToSet(none) = {} /\ IsInjective(none)
  BY <1>6 DEF ToSet, IsInjective
<1>8. ReadSoFar' = none
  <2>1. ReadSoFar' = none \o none
    BY <1>1, <1>6 DEF ReadSoFar
  <2> QED
    BY <1>6, <1>7, <2>1, Joined
<1>9. Distinct' <=> Distinct
  BY <1>1 DEF Distinct, HasDoc
<1>10. Ahead'
  BY <1>1, <1>2, <1>3, <1>5, <1>7, <1>8, <1>9 DEF Ahead
<1>11. Behind'
  BY <1>1, <1>7, <1>8, <1>9 DEF Behind
<1> QED
  BY <1>10, <1>11
(***************************************************************************)
(* What a walk asks for is what its user sees.                             *)
(***************************************************************************)
LEMMA WalkListing ==
  ASSUME ReadTypeOK, UnderWay, ~walk.over, call.pc = "find"
  PROVE  Matching(call) = {id \in Ids : /\ HasDoc(id) /\ docs[id] \in call.search
                                        /\ call.admin \/ id \in call.filter}
<1>1. (call.filter = NoFilter <=> call.admin) /\ call.admin \in BOOLEAN
  BY CallFields DEF UnderWay
<1> QED
  BY <1>1 DEF Matching

LEMMA AskedListing ==
  ASSUME ReadTypeOK, UnderWay, ~walk.over, AskPermissions
  PROVE  /\ call.pc = "rights" /\ call'.pc = "find" /\ UNCHANGED <<docs, rights, walk>>
         /\ call'.found = call.found /\ call'.descending = call.descending
         /\ call'.admin = call.admin /\ (~call.admin => call'.filter = rights)
         /\ Listing' = Listing
<1>1. call.kind = "list" /\ call.ids = NoFilter /\ call.admin \in BOOLEAN
  BY CallFields DEF UnderWay
<1>2. /\ call.pc = "rights" /\ call'.pc = "find" /\ UNCHANGED <<docs, rights, walk>>
      /\ call'.found = call.found /\ call'.descending = call.descending
      /\ call'.admin = call.admin /\ call'.search = call.search
      /\ call'.allowed = IF call.admin THEN Ids ELSE rights
      /\ call'.filter = IF call.admin THEN call.ids ELSE Select(call, call'.allowed)
  BY <1>1, AskForm
<1>3. /\ ~call.admin => call'.filter = rights
      /\ call.admin => call'.filter = NoFilter
  BY <1>1, <1>2 DEF Select
<1>4. rights # NoFilter
  BY ReadRequestsAssumption DEF ReadTypeOK
<1>5. Matching(call)' = Visible
  BY <1>1, <1>2, <1>3, <1>4 DEF Matching, Visible, HasDoc
<1> QED
  BY <1>2, <1>3, <1>5 DEF Listing

(***************************************************************************)
(* What is in two pages, and when nothing is in them twice.                *)
(***************************************************************************)
LEMMA JoinedSets ==
  ASSUME NEW s \in Seq(Ids), NEW t \in Seq(Ids)
  PROVE  /\ ToSet(s \o t) = ToSet(s) \cup ToSet(t)
         /\ IsInjective(s \o t) => IsInjective(s)
         /\ IsInjective(s) /\ IsInjective(t) /\ ToSet(s) \cap ToSet(t) = {} =>
              IsInjective(s \o t)
<1>1. PICK u : u = s \o t
  OBVIOUS
<1>2. /\ Len(u) = Len(s) + Len(t) /\ Len(s) \in Nat /\ Len(t) \in Nat
      /\ \A i \in 1 .. Len(s) + Len(t) :
           u[i] = IF i <= Len(s) THEN s[i] ELSE t[i - Len(s)]
      /\ u \in Seq(Ids)
  BY <1>1, Joined
<1>3. /\ DOMAIN s = 1 .. Len(s) /\ DOMAIN t = 1 .. Len(t)
      /\ DOMAIN u = 1 .. Len(s) + Len(t)
  BY <1>2
<1>4. ASSUME NEW i \in 1 .. Len(s)
      PROVE  i \in DOMAIN u /\ u[i] = s[i]
  BY <1>2, <1>3
<1>5. ASSUME NEW i \in 1 .. Len(t)
      PROVE  Len(s) + i \in DOMAIN u /\ u[Len(s) + i] = t[i]
  BY <1>2, <1>3
<1>6. ASSUME NEW i \in DOMAIN u
      PROVE  \/ i \in DOMAIN s /\ u[i] = s[i]
             \/ i - Len(s) \in DOMAIN t /\ u[i] = t[i - Len(s)]
  BY <1>2, <1>3
<1>7. ToSet(u) = ToSet(s) \cup ToSet(t)
  <2>1. ToSet(s) \subseteq ToSet(u) /\ ToSet(t) \subseteq ToSet(u)
    BY <1>3, <1>4, <1>5 DEF ToSet
  <2>2. ToSet(u) \subseteq ToSet(s) \cup ToSet(t)
    BY <1>6 DEF ToSet
  <2> QED
    BY <2>1, <2>2
<1>8. IsInjective(u) => IsInjective(s)
  BY <1>3, <1>4 DEF IsInjective
<1>9. ASSUME IsInjective(s), IsInjective(t), ToSet(s) \cap ToSet(t) = {},
             NEW i \in DOMAIN u, NEW j \in DOMAIN u, u[i] = u[j]
      PROVE  i = j
  <2>1. CASE i \in DOMAIN s /\ u[i] = s[i] /\ j \in DOMAIN s /\ u[j] = s[j]
    BY <1>9, <2>1 DEF IsInjective
  <2>2. CASE /\ i - Len(s) \in DOMAIN t /\ u[i] = t[i - Len(s)]
             /\ j - Len(s) \in DOMAIN t /\ u[j] = t[j - Len(s)]
    <3>1. i - Len(s) = j - Len(s)
      BY <1>9, <2>2 DEF IsInjective
    <3> QED
      BY <1>2, <1>3, <3>1
  <2>3. CASE /\ i \in DOMAIN s /\ u[i] = s[i]
             /\ j - Len(s) \in DOMAIN t /\ u[j] = t[j - Len(s)]
    BY <1>9, <2>3 DEF ToSet
  <2>4. CASE /\ j \in DOMAIN s /\ u[j] = s[j]
             /\ i - Len(s) \in DOMAIN t /\ u[i] = t[i - Len(s)]
    BY <1>9, <2>4 DEF ToSet
  <2> QED
    BY <1>6, <2>1, <2>2, <2>3, <2>4
<1> QED
  BY <1>1, <1>7, <1>8, <1>9 DEF IsInjective

(***************************************************************************)
(* A walk's page follows what it read, and holds the next places.          *)
(***************************************************************************)
LEMMA FoundAhead ==
  ASSUME ReadTypeOK, Asked, UnderWay, Ahead, Find, ~walk.over, ~walk.shrunk
  PROVE  Ahead'
<1> DEFINE M == Matching(call)
           place(id) == Cardinality(Upto(docs, call.descending, id, M))
           n == Len(call'.found)
<1>1. /\ call.pc = "find" /\ call.kind = "list" /\ call.found = <<>>
      /\ call.limit \in Nat /\ call.offset \in Nat
      /\ Len(walk.seen) = call.offset
  BY CallFields, FindForm DEF UnderWay, Asked
<1>2. /\ call'.pc = "count" /\ SameRequest /\ call' \in Call
      /\ UNCHANGED <<docs, rights, walk>>
  BY <1>1, FindForm
<1>3. ReadSoFar = walk.seen
  BY <1>1, ReadSoFarForm
<1>4. /\ Distinct /\ walk.first \subseteq M
      /\ ~call.admin => call.filter \subseteq rights
      /\ \A id \in walk.first \ ToSet(walk.seen) : place(id) > call.offset
  BY <1>1, <1>3 DEF Ahead, Listing, Place
<1>5. /\ call'.found \in Seq(M) /\ n \in Nat
      /\ \A id \in M : place(id) \in call.offset + 1 .. call.offset + n =>
                         \E i \in 1 .. n : call'.found[i] = id
      /\ \A id \in M : place(id) > call.offset + n => call.limit # 0 /\ n = call.limit
  BY <1>1, <1>4, FoundPlaces
<1>6. /\ ReadSoFar' = walk.seen \o call'.found
      /\ Len(ReadSoFar') = call.offset + n
      /\ ToSet(walk.seen) \cup ToSet(call'.found) \subseteq ToSet(ReadSoFar')
  <2>1. walk.seen \in Seq(Ids) /\ call'.found \in Seq(Ids)
    BY <1>2, CallFields DEF Call
  <2>2. ReadSoFar' = walk.seen \o call'.found
    BY <1>2 DEF ReadSoFar
  <2> QED
    BY <1>1, <2>1, <2>2, Joined, JoinedSets
<1>7. M \subseteq Visible'
  BY <1>1, <1>2, <1>4, WalkListing DEF Visible, HasDoc, SameRequest
<1>8. ASSUME NEW id \in walk.first \ ToSet(ReadSoFar')
      PROVE  Place(id)' > Len(ReadSoFar') /\ ~LastPage(call')
  <2>1. id \in M /\ id \notin ToSet(walk.seen) /\ id \notin ToSet(call'.found)
    BY <1>4, <1>6, <1>8
  <2>2. place(id) \in Nat /\ place(id) > call.offset
    <3>1. IsFiniteSet(M)
      BY MatchingFinite
    <3>2. Upto(docs, call.descending, id, M) \subseteq M
      BY DEF Upto
    <3> QED
      BY <1>4, <2>1, <3>1, <3>2, FS_Subset, FS_CardinalityType
  <2>3. \A i \in 1 .. n : call'.found[i] # id
    BY <1>5, <2>1 DEF ToSet
  <2>4. place(id) > call.offset + n
    <3> HIDE DEF place
    <3> QED
      BY <1>1, <1>5, <2>1, <2>2, <2>3
  <2>5. call.limit # 0 /\ n = call.limit
    BY <1>5, <2>1, <2>4
  <2>6. ~LastPage(call')
    BY <1>1, <1>2, <1>5, <2>5 DEF LastPage, SameRequest
  <2>7. place(id) <= Place(id)' /\ Place(id)' \in Nat
    <3>1. PICK S, T, down : S = M /\ T = Visible' /\ down = call.descending
      OBVIOUS
    <3>2. Place(id)' = Cardinality(Upto(docs, down, id, T))
      BY <1>2, <3>1 DEF Place, Listing, SameRequest
    <3>3. T \subseteq Ids /\ IsFiniteSet(T)
      BY <3>1, ReadRequestsAssumption, FS_Subset DEF Visible
    <3>4. Upto(docs, down, id, T) \subseteq T
      BY DEF Upto
    <3>5. Cardinality(Upto(docs, down, id, S)) <= Cardinality(Upto(docs, down, id, T))
      BY <1>7, <2>1, <3>1, <3>3, PlaceGrows
    <3> QED
      BY <3>1, <3>2, <3>3, <3>4, <3>5, FS_Subset, FS_CardinalityType
  <2> QED
    <3> HIDE DEF place
    <3> QED
      BY <1>1, <1>5, <1>6, <2>2, <2>4, <2>6, <2>7
<1>9. Distinct'
  BY <1>2, <1>4 DEF Distinct, HasDoc
<1>10. walk'.first \subseteq Listing'
  BY <1>2, <1>4, <1>7 DEF Listing
<1> QED
  BY <1>2, <1>8, <1>9, <1>10 DEF Ahead
LEMMA FoundBehind ==
  ASSUME ReadTypeOK, Asked, UnderWay, Behind, Find, ~walk.over, ~walk.grown
  PROVE  Behind'
<1> DEFINE M == Matching(call)
           place(id) == Cardinality(Upto(docs, call.descending, id, M))
           n == Len(call'.found)
<1>1. /\ call.pc = "find" /\ call.kind = "list" /\ call.found = <<>>
      /\ call.limit \in Nat /\ call.offset \in Nat
      /\ Len(walk.seen) = call.offset
  BY CallFields, FindForm DEF UnderWay, Asked
<1>2. /\ call'.pc = "count" /\ SameRequest /\ call' \in Call
      /\ UNCHANGED <<docs, rights, walk>>
  BY <1>1, FindForm
<1>3. ReadSoFar = walk.seen
  BY <1>1, ReadSoFarForm
<1>4. /\ Distinct /\ IsInjective(walk.seen)
      /\ ~call.admin => rights \subseteq call.filter
      /\ \A id \in ToSet(walk.seen) \cap M : place(id) <= call.offset
  BY <1>1, <1>3 DEF Behind, Listing, Place
<1>5. /\ call'.found \in Seq(M) /\ n \in Nat
      /\ \A i \in 1 .. n : place(call'.found[i]) = call.offset + i
  BY <1>1, <1>4, FoundPlaces
<1>6. /\ walk.seen \in Seq(Ids) /\ call'.found \in Seq(Ids)
      /\ DOMAIN call'.found = 1 .. n
  BY <1>2, <1>5, CallFields DEF Call
<1>7. /\ ReadSoFar' = walk.seen \o call'.found
      /\ Len(ReadSoFar') = call.offset + n
      /\ ToSet(ReadSoFar') = ToSet(walk.seen) \cup ToSet(call'.found)
  <2>1. ReadSoFar' = walk.seen \o call'.found
    BY <1>2 DEF ReadSoFar
  <2> QED
    BY <1>1, <1>6, <2>1, Joined, JoinedSets
<1>8. \A i \in 1 .. n : call'.found[i] \in M
  BY <1>5
<1>9. IsInjective(ReadSoFar')
  <2> HIDE DEF place, M
  <2>1. IsInjective(call'.found)
    BY <1>1, <1>5, <1>6 DEF IsInjective
  <2>2. ASSUME NEW i \in 1 .. n, call'.found[i] \in ToSet(walk.seen)
        PROVE  FALSE
    <3>1. place(call'.found[i]) <= call.offset /\ place(call'.found[i]) = call.offset + i
      BY <1>4, <1>5, <1>8, <2>2
    <3> QED
      BY <1>1, <1>5, <3>1
  <2>3. ToSet(walk.seen) \cap ToSet(call'.found) = {}
    BY <1>6, <2>2 DEF ToSet
  <2> QED
    BY <1>4, <1>6, <1>7, <2>1, <2>3, JoinedSets
<1>10. Visible' \subseteq M
  BY <1>1, <1>2, <1>4, WalkListing DEF Visible, HasDoc, SameRequest
<1>11. ASSUME NEW id \in ToSet(ReadSoFar') \cap Visible'
       PROVE  Place(id)' <= Len(ReadSoFar')
  <2>1. id \in M /\ (id \in ToSet(walk.seen) \/ id \in ToSet(call'.found))
    BY <1>7, <1>10, <1>11
  <2>2. place(id) \in Nat /\ place(id) <= call.offset + n
    <3>1. place(id) \in Nat
      <4>1. Upto(docs, call.descending, id, M) \subseteq M /\ IsFiniteSet(M)
        BY MatchingFinite DEF Upto
      <4> QED
        BY <4>1, FS_Subset, FS_CardinalityType
    <3> HIDE DEF place, M
    <3>2. CASE id \in ToSet(walk.seen)
      BY <1>1, <1>4, <1>5, <2>1, <3>1, <3>2
    <3>3. CASE id \in ToSet(call'.found)
      <4>1. PICK i \in 1 .. n : call'.found[i] = id
        BY <1>6, <3>3 DEF ToSet
      <4>2. place(id) = call.offset + i
        BY <1>5, <4>1
      <4> QED
        BY <1>1, <1>5, <3>1, <4>2
    <3> QED
      BY <2>1, <3>1, <3>2, <3>3
  <2>3. Place(id)' <= place(id) /\ Place(id)' \in Nat
    <3>1. PICK S, T, down : S = Visible' /\ T = M /\ down = call.descending
      OBVIOUS
    <3>2. Place(id)' = Cardinality(Upto(docs, down, id, S))
      BY <1>2, <3>1 DEF Place, Listing, SameRequest
    <3>3. T \subseteq Ids /\ IsFiniteSet(T) /\ S \subseteq T /\ id \in S
      BY <1>10, <1>11, <3>1, MatchingFinite
    <3>4. Upto(docs, down, id, S) \subseteq S /\ IsFiniteSet(S)
      BY <3>3, FS_Subset DEF Upto
    <3>5. Cardinality(Upto(docs, down, id, S)) <= Cardinality(Upto(docs, down, id, T))
      BY <3>3, PlaceGrows
    <3> QED
      BY <3>1, <3>2, <3>4, <3>5, FS_Subset, FS_CardinalityType
  <2> QED
    <3> HIDE DEF place
    <3> QED
      BY <1>1, <1>5, <1>7, <2>2, <2>3
<1>12. Distinct' /\ Listing' = Visible'
  BY <1>2, <1>4 DEF Distinct, HasDoc, Listing
<1> QED
  BY <1>2, <1>9, <1>11, <1>12 DEF Behind
(***************************************************************************)
(* A call that changes nothing about the list.                             *)
(***************************************************************************)
LEMMA WalkKept ==
  ASSUME ReadTypeOK, ReadTypeOK', Ahead, Behind, ~walk.over, UNCHANGED <<docs, rights>>,
         walk'.first = walk.first, walk'.grown = walk.grown, walk'.shrunk = walk.shrunk,
         ReadSoFar' = ReadSoFar, Listing' = Listing, call'.pc # "count",
         call'.descending = call.descending,
         call'.pc = "find" /\ ~call'.admin => call'.filter = rights
  PROVE  Ahead' /\ Behind'
<1>1. ~walk.shrunk \/ ~walk.grown => Distinct'
  BY DEF Ahead, Behind, Distinct, HasDoc
<1>2. Ahead'
  <2>1. CASE walk'.shrunk
    BY <2>1 DEF Ahead
  <2>2. CASE ~walk'.shrunk
    BY <1>1, <2>2, AheadKept
  <2> QED
    BY <2>1, <2>2
<1>3. Behind'
  <2>1. CASE walk'.grown
    BY <2>1 DEF Behind
  <2>2. CASE ~walk'.grown
    BY <1>1, <2>2, BehindKept
  <2> QED
    BY <2>1, <2>2
<1> QED
  BY <1>2, <1>3

(***************************************************************************)
(* Somebody else's step: what the walk is not told of, it does not see.    *)
(***************************************************************************)
LEMMA WalkElsewhere ==
  ASSUME ReadTypeOK, ReadTypeOK', UnderWay, Ahead, Behind, ~walk.over, Elsewhere
  PROVE  Ahead' /\ Behind'
<1>1. /\ SameRequest /\ call'.pc = call.pc /\ call'.found = call.found
      /\ walk'.seen = walk.seen /\ walk'.first = walk.first
      /\ ~walk'.shrunk => /\ ~walk.shrunk /\ Distinct' /\ rights \subseteq rights'
                          /\ \A id \in Ids : HasDoc(id) => /\ HasDoc(id)'
                                                           /\ docs'[id] = docs[id]
      /\ ~walk'.grown => /\ ~walk.grown /\ Distinct' /\ rights' \subseteq rights
                         /\ \A id \in Ids : HasDoc(id)' => /\ HasDoc(id)
                                                           /\ docs'[id] = docs[id]
  BY ElsewhereForm
<1>2. ReadSoFar' = ReadSoFar
  BY <1>1 DEF ReadSoFar
<1>3. call'.descending = call.descending /\ LastPage(call') = LastPage(call)
  BY <1>1 DEF SameRequest, LastPage
<1>4. ASSUME ~walk'.shrunk
      PROVE  Ahead'
  <2>1. /\ Visible \subseteq Visible'
        /\ Matching(call) \subseteq Matching(call)'
        /\ \A id \in Ids : HasDoc(id) => docs'[id] = docs[id]
    BY <1>1, <1>4 DEF Visible, Matching, SameRequest
  <2>2. Listing \subseteq Listing' /\ \A id \in Listing : docs'[id] = docs[id]
    BY <1>1, <2>1, ListingForm DEF Listing
  <2>3. call'.pc = "find" /\ ~call'.admin => call'.filter \subseteq rights'
    BY <1>1, <1>4 DEF Ahead, SameRequest
  <2> QED
    BY <1>1, <1>2, <1>3, <1>4, <2>2, <2>3, AheadKept
<1>5. ASSUME ~walk'.grown
      PROVE  Behind'
  <2>1. /\ Visible' \subseteq Visible
        /\ Matching(call)' \subseteq Matching(call)
        /\ \A id \in Ids : HasDoc(id)' => docs'[id] = docs[id]
    BY <1>1, <1>5 DEF Visible, Matching, SameRequest
  <2>2. Listing' \subseteq Listing /\ \A id \in Listing' : docs'[id] = docs[id]
    BY <1>1, <2>1 DEF Listing, Visible, Matching
  <2>3. call'.pc = "find" /\ ~call'.admin => rights' \subseteq call'.filter
    BY <1>1, <1>5 DEF Behind, SameRequest
  <2> QED
    BY <1>1, <1>2, <1>3, <1>5, <2>2, <2>3, BehindKept
<1> QED
  BY <1>4, <1>5 DEF Ahead, Behind
LEMMA WalkStep ==
  ASSUME ReadTypeOK, Asked, UnderWay, Ahead, Behind, [ReadNext]_readVars
  PROVE  Ahead' /\ Behind'
<1>0. ReadTypeOK'
  BY ReadTypes
<1>1. ASSUME walk'.over
      PROVE  Ahead' /\ Behind'
  BY <1>1 DEF Ahead, Behind
<1>2. call.pc = "idle" => walk.over
  BY CallFields DEF UnderWay
<1>3. walk'.over \/ ~walk'.over
  OBVIOUS
<1>4. ASSUME NEW o \in Options, ListProcesses(o)
      PROVE  Ahead' /\ Behind'
  BY <1>1, <1>2, <1>4, ListProcessesForm, WalkBegins
<1>5. ASSUME NEW id \in Ids, NEW admin \in BOOLEAN, GetProcess(id, admin)
      PROVE  Ahead' /\ Behind'
  BY <1>1, <1>2, <1>5, IdleForm DEF GetProcess
<1>6. CASE GetPublic
  BY <1>1, <1>2, <1>6, IdleForm DEF GetPublic
<1>7. CASE NextPage
  <2>1. /\ call'.pc = "rights" /\ call'.found = <<>> /\ call'.search = call.search
        /\ call'.admin = call.admin /\ call'.descending = call.descending
        /\ UNCHANGED <<docs, rights, walk>> /\ call.pc = "done" /\ ~walk.over
    BY <1>7, NextPageForm DEF NextPage
  <2>2. ReadSoFar' = ReadSoFar
    <3>1. PICK none : none = <<>>
      OBVIOUS
    <3>2. ReadSoFar' = walk.seen \o none /\ ReadSoFar = walk.seen
      BY <2>1, <3>1 DEF ReadSoFar
    <3> QED
      BY <3>1, <3>2, CallFields, Joined
  <2>3. Listing' = Listing
    BY <2>1 DEF Listing, Visible, HasDoc
  <2> QED
    BY <1>0, <2>1, <2>2, <2>3, WalkKept
<1>8. CASE Leave
  BY <1>1, <1>8 DEF Leave, Nowhere
<1>9. CASE AskPermissions
  <2>1. CASE walk.over
    BY <1>1, <1>9, <2>1, AskForm
  <2>2. CASE ~walk.over
    <3>1. /\ call.pc = "rights" /\ call'.pc = "find" /\ UNCHANGED <<docs, rights, walk>>
          /\ call'.found = call.found /\ call'.descending = call.descending
          /\ call'.admin = call.admin /\ (~call.admin => call'.filter = rights)
          /\ Listing' = Listing
      BY <1>9, <2>2, AskedListing
    <3>2. ReadSoFar' = ReadSoFar
      BY <3>1 DEF ReadSoFar
    <3> QED
      BY <1>0, <2>2, <3>1, <3>2, WalkKept
  <2> QED
    BY <2>1, <2>2
<1>10. CASE Find
  <2>1. CASE walk.over
    BY <1>1, <1>10, <2>1, FindForm
  <2>2. CASE ~walk.over
    <3>1. walk' = walk
      BY <1>10, FindForm
    <3>2. Ahead'
      <4>1. CASE walk.shrunk
        BY <3>1, <4>1 DEF Ahead
      <4>2. CASE ~walk.shrunk
        BY <1>10, <2>2, <4>2, FoundAhead
      <4> QED
        BY <4>1, <4>2
    <3>3. Behind'
      <4>1. CASE walk.grown
        BY <3>1, <4>1 DEF Behind
      <4>2. CASE ~walk.grown
        BY <1>10, <2>2, <4>2, FoundBehind
      <4> QED
        BY <4>1, <4>2
    <3> QED
      BY <3>2, <3>3
  <2> QED
    BY <2>1, <2>2
<1>11. CASE Count
  <2>1. CASE walk.over
    BY <1>1, <1>11, <2>1, CountForm
  <2>2. CASE ~walk.over
    <3>1. /\ call.pc = "count" /\ call'.pc = "done" /\ SameRequest
          /\ walk'.seen = walk.seen \o call.found /\ walk'.first = walk.first
          /\ walk'.grown = walk.grown /\ walk'.shrunk = walk.shrunk
          /\ UNCHANGED <<docs, rights>>
      BY <1>11, <2>2, CountForm
    <3>2. ReadSoFar' = ReadSoFar
      BY <3>1 DEF ReadSoFar
    <3>3. Listing' = Listing
      BY <3>1 DEF Listing, Visible, HasDoc, SameRequest
    <3>4. call'.descending = call.descending
      BY <3>1 DEF SameRequest
    <3> QED
      BY <1>0, <2>2, <3>1, <3>2, <3>3, <3>4, WalkKept
  <2> QED
    BY <2>1, <2>2
<1>12. CASE Fail
  BY <1>1, <1>12, FailForm DEF Nowhere
<1>13. CASE Elsewhere
  <2>1. CASE walk.over
    BY <1>1, <1>13, <2>1, ElsewhereForm
  <2>2. CASE ~walk.over
    BY <1>0, <1>13, <2>2, WalkElsewhere
  <2> QED
    BY <2>1, <2>2
<1>14. CASE UNCHANGED readVars
  <2>1. ReadSoFar' = ReadSoFar /\ Listing' = Listing
    BY <1>14 DEF readVars, ReadSoFar, Listing, Matching, Visible, HasDoc
  <2>2. Distinct' = Distinct /\ \A id : Place(id)' = Place(id)
    BY <1>14, <2>1 DEF readVars, Place, Distinct, HasDoc
  <2> QED
    BY <1>14, <2>1, <2>2 DEF readVars, Ahead, Behind
<1> QED
  BY <1>4, <1>5, <1>6, <1>7, <1>8, <1>9, <1>10, <1>11, <1>12, <1>13, <1>14
  DEF ReadNext, Ask, Share, Change
-----------------------------------------------------------------------------
(***************************************************************************)
(* The last page: nothing may be ahead of it, so nothing is left.          *)
(***************************************************************************)
LEMMA WalkEnds ==
  ASSUME ReadTypeOK, UnderWay, NoGaps, NoRepeats, Ahead, Behind, [ReadNext]_readVars
  PROVE  NoGaps' /\ NoRepeats'
<1>1. PICK none : none = <<>>
  OBVIOUS
<1>2. ToSet(none) = {} /\ IsInjective(none)
  BY <1>1 DEF ToSet, IsInjective
<1>3. ASSUME walk' = walk
      PROVE  NoGaps' /\ NoRepeats'
  BY <1>3 DEF NoGaps, NoRepeats
<1>4. ASSUME walk' = Nowhere
      PROVE  NoGaps' /\ NoRepeats'
  <2>1. walk'.seen = none /\ walk'.first = {}
    BY <1>1, <1>4 DEF Nowhere
  <2> QED
    BY <1>2, <2>1 DEF NoGaps, NoRepeats
<1>5. ASSUME NEW o \in Options, ListProcesses(o)
      PROVE  NoGaps' /\ NoRepeats'
  <2>1. CASE walk' = walk
    BY <1>3, <2>1
  <2>2. CASE walk'.over = FALSE /\ walk'.seen = <<>>
    BY <1>1, <1>2, <2>2 DEF NoGaps, NoRepeats
  <2> QED
    BY <1>5, <2>1, <2>2, ListProcessesForm
<1>6. ASSUME NEW id \in Ids, NEW admin \in BOOLEAN, GetProcess(id, admin)
      PROVE  NoGaps' /\ NoRepeats'
  BY <1>3, <1>6 DEF GetProcess
<1>7. CASE GetPublic
  BY <1>3, <1>7 DEF GetPublic
<1>8. CASE NextPage
  BY <1>3, <1>8 DEF NextPage
<1>9. CASE Leave
  BY <1>4, <1>9 DEF Leave
<1>10. CASE AskPermissions
  BY <1>3, <1>10 DEF AskPermissions
<1>11. CASE Find
  BY <1>3, <1>11 DEF Find
<1>12. CASE Count
  <2>1. CASE walk.over
    BY <1>3, <1>12, <2>1, CountForm
  <2>2. CASE ~walk.over
    <3>1. /\ call.pc = "count" /\ walk'.seen = walk.seen \o call.found
          /\ walk'.over = LastPage(call) /\ walk'.first = walk.first
          /\ walk'.grown = walk.grown /\ walk'.shrunk = walk.shrunk
      BY <1>12, <2>2, CountForm
    <3>2. walk'.seen = ReadSoFar
      BY <3>1 DEF ReadSoFar
    <3>3. NoGaps'
      BY <2>2, <3>1, <3>2 DEF NoGaps, Ahead
    <3>4. NoRepeats'
      BY <2>2, <3>1, <3>2 DEF NoRepeats, Behind
    <3> QED
      BY <3>3, <3>4
  <2> QED
    BY <2>1, <2>2
<1>13. CASE Fail
  BY <1>4, <1>13 DEF Fail
<1>14. CASE Elsewhere
  <2>1. CASE walk.over
    BY <1>3, <1>14, <2>1, ElsewhereForm
  <2>2. CASE ~walk.over
    <3>1. /\ walk'.seen = walk.seen /\ walk'.over = walk.over
          /\ ~walk'.grown => ~walk.grown
      BY <1>14, <2>2, ElsewhereForm
    <3> QED
      BY <2>2, <3>1 DEF NoGaps, NoRepeats
  <2> QED
    BY <2>1, <2>2
<1>15. CASE UNCHANGED readVars
  BY <1>3, <1>15 DEF readVars
<1> QED
  BY <1>5, <1>6, <1>7, <1>8, <1>9, <1>10, <1>11, <1>12, <1>13, <1>14, <1>15
  DEF ReadNext, Ask, Share, Change

(***************************************************************************)
(* The places of a walk need nothing of what is read off them; what is     *)
(* read off them is kept along with them.                                  *)
(***************************************************************************)
ReadAnswers == OnlyPermitted /\ TotalExact /\ NoGaps /\ NoRepeats

LEMMA ReadInitInv ==
  ASSUME ReadInit
  PROVE  ReadInv /\ ReadAnswers
<1>1. PICK none, c, w : none = <<>> /\ c = Idle /\ w = Nowhere
  OBVIOUS
<1>2. /\ none \in Seq(Ids) /\ DOMAIN none = {} /\ ToSet(none) = {} /\ IsInjective(none)
  BY <1>1 DEF ToSet, IsInjective
<1>3. /\ c \in Call /\ c.pc = "idle" /\ c.kind = "public" /\ c.found = none
  BY <1>1, IdleForm
<1>4. /\ w = [seen |-> none, first |-> {}, grown |-> FALSE, shrunk |-> FALSE,
              over |-> TRUE]
  BY <1>1 DEF Nowhere
<1>5. /\ w \in Walk /\ w.seen = none /\ w.first = {} /\ w.over = TRUE
  BY <1>2, <1>4 DEF Walk
<1>6. call = c /\ walk = w
  BY <1>1 DEF ReadInit
<1>7. ReadTypeOK
  BY <1>3, <1>5, <1>6 DEF ReadInit, ReadTypeOK
<1>8. OnlyPermitted /\ TotalExact /\ NoGaps /\ NoRepeats
  BY <1>2, <1>3, <1>5, <1>6 DEF OnlyPermitted, TotalExact, NoGaps, NoRepeats
<1>9. Asked /\ Fitting
  BY <1>1, <1>3, <1>6 DEF Asked, Fitting
<1>10. UnderWay /\ Ahead /\ Behind
  BY <1>5, <1>6 DEF UnderWay, Ahead, Behind
<1> QED
  BY <1>7, <1>8, <1>9, <1>10 DEF ReadInv, ReadAnswers

LEMMA ReadStepInv ==
  ASSUME ReadInv, [ReadNext]_readVars
  PROVE  ReadInv'
<1>1. ReadTypeOK'
  BY ReadTypes DEF ReadInv
<1>2. Asked'
  BY PermittedStep DEF ReadInv
<1>3. Fitting'
  BY FittingStep DEF ReadInv
<1>4. UnderWay'
  BY UnderWayStep DEF ReadInv
<1>5. Ahead' /\ Behind'
  BY WalkStep DEF ReadInv
<1> QED
  BY <1>1, <1>2, <1>3, <1>4, <1>5 DEF ReadInv

LEMMA AnswersStep ==
  ASSUME ReadInv, ReadAnswers, [ReadNext]_readVars
  PROVE  ReadAnswers'
<1>1. OnlyPermitted'
  BY PermittedStep DEF ReadInv, ReadAnswers
<1>2. TotalExact'
  BY FittingStep DEF ReadInv, ReadAnswers
<1>3. NoGaps' /\ NoRepeats'
  BY WalkEnds DEF ReadInv, ReadAnswers
<1> QED
  BY <1>1, <1>2, <1>3 DEF ReadAnswers

(***************************************************************************)
(* The inductive invariant: what a request asks the database for is what   *)
(* permissions-v2 allowed, its page has the length the number of documents *)
(* gives it, and every process of the list has its place ahead of or       *)
(* behind the page a walk has come to.                                     *)
(***************************************************************************)
THEOREM ReadInvariance == ReadSpec => []ReadInv
<1>1. ReadInit => ReadInv
  BY ReadInitInv
<1>2. ReadInv /\ [ReadNext]_readVars => ReadInv'
  BY ReadStepInv
<1> QED
  BY <1>1, <1>2, PTL DEF ReadSpec

LEMMA AnswersHold == ReadSpec => []ReadAnswers
<1>1. ReadInit => ReadAnswers
  BY ReadInitInv
<1>2. ReadInv /\ ReadAnswers /\ [ReadNext]_readVars => ReadAnswers'
  BY AnswersStep
<1> QED
  BY <1>1, <1>2, ReadInvariance, PTL DEF ReadSpec

(***************************************************************************)
(* Whatever rights and documents become while a request is under way, it   *)
(* answers only what permissions-v2 allowed and what was asked for         *)
(* (GetProcess, ListProcesses).                                            *)
(***************************************************************************)
THEOREM OnlyPermittedHolds == ReadSpec => []OnlyPermitted
<1>1. ReadAnswers => OnlyPermitted
  BY DEF ReadAnswers
<1> QED
  BY <1>1, AnswersHold, PTL

(***************************************************************************)
(* For all options, the page Mongo.ListProcesses finds has the length its  *)
(* total says, if no document changes between its Find and its             *)
(* CountDocuments, whatever changes before and after.                      *)
(***************************************************************************)
THEOREM TotalExactHolds == ReadSpec => []TotalExact
<1>1. ReadAnswers => TotalExact
  BY DEF ReadAnswers
<1> QED
  BY <1>1, AnswersHold, PTL

(***************************************************************************)
(* For any number of processes, any limit and any changes between the      *)
(* pages, a walk that ends after a page that is not full has missed none   *)
(* of the processes it began with, if none was taken away.                 *)
(***************************************************************************)
THEOREM NoGapsHolds == ReadSpec => []NoGaps
<1>1. ReadAnswers => NoGaps
  BY DEF ReadAnswers
<1> QED
  BY <1>1, AnswersHold, PTL

(***************************************************************************)
(* And it shows none of them twice, if none was added.                     *)
(***************************************************************************)
THEOREM NoRepeatsHolds == ReadSpec => []NoRepeats
<1>1. ReadAnswers => NoRepeats
  BY DEF ReadAnswers
<1> QED
  BY <1>1, AnswersHold, PTL
=============================================================================
