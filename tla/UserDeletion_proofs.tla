------------------------ MODULE UserDeletion_proofs -------------------------
(***************************************************************************)
(* The deletion of a user takes everything from the user and nothing from  *)
(* anybody else, for any number of processes, users, pages and faults.     *)
(***************************************************************************)
EXTENDS UserDeletion, FiniteSetTheorems, TLAPS

(***************************************************************************)
(* There is a pass for every right, and the first is that of the           *)
(* administrators.                                                         *)
(***************************************************************************)
LEMMA PassFacts ==
  /\ Len(Passes) = 4
  /\ Passes[1] = "a"
  /\ \A right \in Rights : \E p \in 1 .. 4 : Passes[p] = right
<1>1. Passes = <<"a", "r", "w", "x">>
  BY DEF Passes
<1>2. /\ Len(Passes) = 4
      /\ Passes[1] = "a" /\ Passes[2] = "r" /\ Passes[3] = "w" /\ Passes[4] = "x"
  BY <1>1
<1>3. 1 \in 1 .. 4 /\ 2 \in 1 .. 4 /\ 3 \in 1 .. 4 /\ 4 \in 1 .. 4
  OBVIOUS
<1> QED
  BY <1>2, <1>3 DEF Rights

-----------------------------------------------------------------------------
(***************************************************************************)
(* Pages.                                                                  *)
(***************************************************************************)

(***************************************************************************)
(* Position numbers a finite set of ids from 1 to its size, each number    *)
(* once.                                                                   *)
(***************************************************************************)
LEMMA Positions ==
  ASSUME NEW ids \in SUBSET Ids
  PROVE  /\ IsFiniteSet(ids) /\ Cardinality(ids) \in Nat
         /\ \A id \in ids : Position(id, ids) \in 1 .. Cardinality(ids)
         /\ \A k \in 1 .. Cardinality(ids) : \E id \in ids : Position(id, ids) = k
         /\ \A i, k \in ids : i < k => Position(i, ids) < Position(k, ids)
         /\ \A i, k \in ids : Position(i, ids) = Position(k, ids) => i = k
<1>1. IsFiniteSet(Ids) /\ Ids \subseteq Nat
  BY UserDeletionAssumption
<1>2. IsFiniteSet(ids) /\ Cardinality(ids) \in Nat
  BY <1>1, FS_Subset, FS_CardinalityType
<1> DEFINE Upto(id) == {i \in ids : i <= id}
<1>3. \A id \in ids : IsFiniteSet(Upto(id)) /\ Cardinality(Upto(id)) \in Nat
  BY <1>2, FS_Subset, FS_CardinalityType
<1>4. ASSUME NEW id \in ids
      PROVE  Position(id, ids) \in 1 .. Cardinality(ids)
  <2>1. Cardinality(Upto(id)) <= Cardinality(ids)
    BY <1>2, FS_Subset
  <2>2. id \in Upto(id)
    BY <1>1
  <2>3. Cardinality(Upto(id)) # 0
    BY <1>3, <2>2, FS_EmptySet
  <2> QED
    BY <1>2, <1>3, <2>1, <2>3 DEF Position
<1>5. ASSUME NEW i \in ids, NEW k \in ids, i < k
      PROVE  Position(i, ids) < Position(k, ids)
  <2>0. \A n \in ids : n \in Nat
    BY <1>1
  <2>1. Upto(i) \in SUBSET Upto(k)
    <3>1. \A n \in ids : n <= i => n <= k
      BY <1>5, <2>0
    <3> QED
      BY <3>1
  <2>2. Upto(i) # Upto(k)
    <3>1. k \in Upto(k) /\ k \notin Upto(i)
      BY <1>5, <2>0
    <3> QED
      BY <3>1
  <2>3. /\ Cardinality(Upto(i)) <= Cardinality(Upto(k))
        /\ Cardinality(Upto(k)) = Cardinality(Upto(i)) => Upto(k) = Upto(i)
    <3> HIDE DEF Upto
    <3>1. IsFiniteSet(Upto(k))
      BY <1>3
    <3> QED
      BY <2>1, <3>1, FS_Subset
  <2> QED
    BY <1>3, <2>2, <2>3 DEF Position
<1>6. ASSUME NEW i \in ids, NEW k \in ids, Position(i, ids) = Position(k, ids)
      PROVE  i = k
  <2>1. i \in Nat /\ k \in Nat
    BY <1>1
  <2>2. Position(i, ids) \in Nat /\ Position(k, ids) \in Nat
    BY <1>2, <1>4
  <2> QED
    BY <1>5, <1>6, <2>1, <2>2
<1> DEFINE f == [id \in ids |-> Position(id, ids)]
<1>7. f \in Injection(ids, 1 .. Cardinality(ids))
  <2>1. f \in [ids -> 1 .. Cardinality(ids)]
    BY <1>4
  <2>2. \A i, k \in ids : f[i] = f[k] => i = k
    BY <1>6
  <2> QED
    BY <2>1, <2>2 DEF Injection, IsInjective
<1>8. /\ IsFiniteSet(1 .. Cardinality(ids))
      /\ Cardinality(1 .. Cardinality(ids)) = Cardinality(ids)
  BY <1>2, FS_Interval
<1>9. f \in Surjection(ids, 1 .. Cardinality(ids))
  BY <1>7, <1>8, FS_Injection
<1>10. ASSUME NEW k \in 1 .. Cardinality(ids)
       PROVE  \E id \in ids : Position(id, ids) = k
  BY <1>9 DEF Surjection
<1> QED
  BY <1>2, <1>4, <1>5, <1>6, <1>10

(***************************************************************************)
(* A page that is not full is the last one: nothing is beyond it.          *)
(***************************************************************************)
LEMMA ShortPage ==
  ASSUME NEW ids \in SUBSET Ids, NEW offset \in Nat,
         Cardinality({id \in ids : Position(id, ids) \in offset + 1 .. offset + Batch})
           # Batch
  PROVE  \A id \in ids : Position(id, ids) <= offset + Batch
<1> DEFINE page == {id \in ids : Position(id, ids) \in offset + 1 .. offset + Batch}
<1>1. Batch \in Nat \ {0}
  BY UserDeletionAssumption
<1> SUFFICES ASSUME NEW far \in ids, ~(Position(far, ids) <= offset + Batch)
             PROVE  Cardinality(page) = Batch
  OBVIOUS
<1>2. Cardinality(ids) \in Nat /\ offset + Batch < Cardinality(ids)
  <2>1. Position(far, ids) \in 1 .. Cardinality(ids) /\ Cardinality(ids) \in Nat
    BY Positions
  <2> QED
    BY <1>1, <2>1
<1> DEFINE f == [id \in page |-> Position(id, ids)]
<1>3. f \in [page -> offset + 1 .. offset + Batch]
  OBVIOUS
<1>4. \A i, k \in page : f[i] = f[k] => i = k
  BY Positions
<1>5. \A k \in offset + 1 .. offset + Batch : \E id \in page : f[id] = k
  <2> TAKE k \in offset + 1 .. offset + Batch
  <2>1. k \in 1 .. Cardinality(ids)
    BY <1>1, <1>2
  <2>2. PICK id \in ids : Position(id, ids) = k
    BY <2>1, Positions
  <2> QED
    BY <2>2
<1>6. f \in Injection(page, offset + 1 .. offset + Batch)
  BY <1>3, <1>4 DEF Injection, IsInjective
<1>7. f \in Surjection(page, offset + 1 .. offset + Batch)
  BY <1>3, <1>5 DEF Surjection
<1>8. /\ IsFiniteSet(offset + 1 .. offset + Batch)
      /\ Cardinality(offset + 1 .. offset + Batch) = Batch
  <2>1. offset + 1 \in Int /\ offset + Batch \in Int /\ ~(offset + 1 > offset + Batch)
        /\ (offset + Batch) - (offset + 1) + 1 = Batch
    BY <1>1
  <2> QED
    BY <2>1, FS_Interval
<1> QED
  BY <1>6, <1>7, <1>8, FS_Injection

(***************************************************************************)
(* A page that is not empty has a first id.                                *)
(***************************************************************************)
LEMMA FirstOfPage ==
  ASSUME NEW page \in SUBSET Ids, page # {}
  PROVE  First(page) \in page
<1>1. Cardinality(page) \in Nat /\ Cardinality(page) # 0
  BY Positions, FS_EmptySet
<1>2. PICK id \in page : Position(id, page) = 1
  <2>1. 1 \in 1 .. Cardinality(page)
    BY <1>1
  <2> QED
    BY <2>1, Positions
<1>3. \A i \in page : id <= i
  <2> SUFFICES ASSUME NEW i \in page, ~(id <= i)
               PROVE  FALSE
    OBVIOUS
  <2>1. i \in Nat /\ id \in Nat
    BY UserDeletionAssumption
  <2>2. Position(i, page) < Position(id, page)
    BY <2>1, Positions
  <2>3. Position(i, page) \in 1 .. Cardinality(page)
    BY Positions
  <2> QED
    BY <1>1, <1>2, <2>2, <2>3
<1> QED
  BY <1>3 DEF First

-----------------------------------------------------------------------------
(***************************************************************************)
(* Local code between two calls.                                           *)
(***************************************************************************)

(***************************************************************************)
(* What a list holds: an append adds its element, and taking the head off  *)
(* loses nothing but the head.                                             *)
(***************************************************************************)
LEMMA ListForm ==
  ASSUME NEW S, NEW list \in Seq(S)
  PROVE  /\ ToSet(list) \in SUBSET S
         /\ list = <<>> <=> ToSet(list) = {}
         /\ \A e \in S : /\ Append(list, e) \in Seq(S)
                         /\ ToSet(Append(list, e)) = ToSet(list) \cup {e}
         /\ list # <<>> => /\ Head(list) \in ToSet(list) /\ Tail(list) \in Seq(S)
                           /\ ToSet(Tail(list)) \subseteq ToSet(list)
                           /\ ToSet(list) \ {Head(list)} \subseteq ToSet(Tail(list))
<1>1. ToSet(list) \in SUBSET S
  BY DEF ToSet
<1>2. list = <<>> <=> ToSet(list) = {}
  <2>1. Len(list) \in Nat /\ DOMAIN list = 1 .. Len(list)
    OBVIOUS
  <2>2. CASE list = <<>>
    BY <2>2 DEF ToSet
  <2>3. CASE list # <<>>
    <3>1. 1 \in DOMAIN list
      BY <2>1, <2>3
    <3> QED
      BY <2>3, <3>1 DEF ToSet
  <2> QED
    BY <2>2, <2>3
<1>3. ASSUME NEW e \in S
      PROVE  Append(list, e) \in Seq(S) /\ ToSet(Append(list, e)) = ToSet(list) \cup {e}
  <2> DEFINE longer == Append(list, e)
  <2>1. /\ longer \in Seq(S) /\ Len(list) \in Nat /\ Len(longer) = Len(list) + 1
        /\ DOMAIN list = 1 .. Len(list) /\ DOMAIN longer = 1 .. Len(list) + 1
        /\ \A i \in 1 .. Len(list) : longer[i] = list[i]
        /\ longer[Len(list) + 1] = e
    OBVIOUS
  <2> HIDE DEF longer
  <2>2. \A i \in DOMAIN longer : longer[i] \in ToSet(list) \cup {e}
    BY <2>1 DEF ToSet
  <2>3. \A i \in DOMAIN list : list[i] \in ToSet(longer)
    BY <2>1 DEF ToSet
  <2>4. e \in ToSet(longer)
    BY <2>1 DEF ToSet
  <2>5. ToSet(longer) = ToSet(list) \cup {e}
    BY <2>2, <2>3, <2>4 DEF ToSet
  <2> QED
    BY <2>1, <2>5 DEF longer
<1>4. ASSUME list # <<>>
      PROVE  /\ Head(list) \in ToSet(list) /\ Tail(list) \in Seq(S)
             /\ ToSet(Tail(list)) \subseteq ToSet(list)
             /\ ToSet(list) \ {Head(list)} \subseteq ToSet(Tail(list))
  <2> DEFINE rest == Tail(list)
  <2>1. /\ Len(list) \in Nat \ {0} /\ rest \in Seq(S) /\ Len(rest) = Len(list) - 1
        /\ DOMAIN list = 1 .. Len(list) /\ DOMAIN rest = 1 .. Len(list) - 1
        /\ \A i \in 1 .. Len(list) - 1 : rest[i] = list[i + 1]
        /\ Head(list) = list[1]
    BY <1>4
  <2> HIDE DEF rest
  <2>2. Head(list) \in ToSet(list)
    BY <2>1 DEF ToSet
  <2>3. \A i \in DOMAIN rest : rest[i] \in ToSet(list)
    BY <2>1 DEF ToSet
  <2>4. ASSUME NEW i \in DOMAIN list, list[i] # Head(list)
        PROVE  list[i] \in ToSet(rest)
    <3>1. i - 1 \in DOMAIN rest /\ rest[i - 1] = list[i]
      BY <2>1, <2>4
    <3> QED
      BY <3>1 DEF ToSet
  <2>5. ToSet(rest) \subseteq ToSet(list) /\ ToSet(list) \ {Head(list)} \subseteq ToSet(rest)
    BY <2>3, <2>4 DEF ToSet
  <2> QED
    BY <2>1, <2>2, <2>5 DEF rest
<1> QED
  BY <1>1, <1>2, <1>3, <1>4

(***************************************************************************)
(* The elements of the two lists.                                          *)
(***************************************************************************)
LEMMA JobLists ==
  ASSUME NEW j \in Job
  PROVE  /\ Deletes(j) \in SUBSET Ids /\ Revokes(j) \in SUBSET Snapshot
         /\ \A s \in Revokes(j) : s.id \in Ids /\ s.perm \in Resource
         /\ j.toDelete # <<>> => Head(j.toDelete) \in Deletes(j)
<1>1. j.toDelete \in Seq(Ids) /\ j.toRevoke \in Seq(Snapshot)
  BY DEF Job
<1>2. Deletes(j) \in SUBSET Ids /\ Revokes(j) \in SUBSET Snapshot
  BY <1>1, ListForm DEF Deletes, Revokes
<1>3. j.toDelete # <<>> => Head(j.toDelete) \in Deletes(j)
  BY <1>1, ListForm DEF Deletes
<1> QED
  BY <1>2, <1>3 DEF Snapshot

(***************************************************************************)
(* Deletions come first, then revocations; an attempt is done when there   *)
(* is nothing of either.                                                   *)
(***************************************************************************)
LEMMA ActForm ==
  ASSUME NEW j, j.toDelete \in Seq(Ids), j.toRevoke \in Seq(Snapshot)
  PROVE  /\ Act(j) \in Job
         /\ Act(j).toDelete = j.toDelete /\ Act(j).toRevoke = j.toRevoke
         /\ Act(j).page = {}
         /\ Act(j).pc \in {"remove", "revoke", "done"}
         /\ Act(j).pc = "remove" => j.toDelete # <<>>
         /\ Act(j).pc = "revoke" => j.toDelete = <<>>
         /\ Act(j).pc = "done" => j.toDelete = <<>> /\ j.toRevoke = <<>>
  BY PassFacts DEF Act, JobAt, Job

(***************************************************************************)
(* What follows when a part of a page is done: the rest of it, the next    *)
(* page, the next pass, or the calls that empty the lists.                 *)
(***************************************************************************)
LEMMA ProceedForm ==
  ASSUME NEW j \in Job
  PROVE  /\ Proceed(j) \in Job
         /\ Proceed(j).toDelete = j.toDelete /\ Proceed(j).toRevoke = j.toRevoke
         /\ Deletes(Proceed(j)) = Deletes(j) /\ Revokes(Proceed(j)) = Revokes(j)
         /\ Proceed(j).page = j.page
         /\ \/ /\ j.page # {} /\ Proceed(j).pc = "look"
               /\ Proceed(j).pass = j.pass /\ Proceed(j).offset = j.offset
               /\ Proceed(j).full = j.full
            \/ /\ j.page = {} /\ j.full /\ Proceed(j).pc = "list"
               /\ Proceed(j).pass = j.pass /\ Proceed(j).offset = j.offset
            \/ /\ j.page = {} /\ ~j.full /\ Proceed(j).pc = "list"
               /\ Proceed(j).pass = j.pass + 1 /\ Proceed(j).offset = 0
            \/ /\ j.page = {} /\ ~j.full /\ j.pass = 4
               /\ Proceed(j).pc \in {"remove", "revoke", "done"}
               /\ Proceed(j).pc = "revoke" => j.toDelete = <<>>
               /\ Proceed(j).pc = "done" => Deletes(j) = {} /\ Revokes(j) = {}
<1>1. CASE j.page # {}
  BY <1>1 DEF Proceed, Job, Deletes, Revokes
<1>2. CASE j.page = {} /\ j.full
  <2>1. Proceed(j) = [j EXCEPT !.pc = "list"]
    BY <1>2 DEF Proceed
  <2>2. /\ Proceed(j) \in Job /\ Proceed(j).pc = "list"
        /\ Proceed(j).toDelete = j.toDelete /\ Proceed(j).toRevoke = j.toRevoke
        /\ Proceed(j).page = j.page
        /\ Proceed(j).pass = j.pass /\ Proceed(j).offset = j.offset
    BY <2>1 DEF Job
  <2> QED
    BY <1>2, <2>2, Zenon DEF Deletes, Revokes
<1>3. CASE j.page = {} /\ ~j.full /\ j.pass < 4
  <2>1. Proceed(j) = [j EXCEPT !.pc = "list", !.pass = j.pass + 1, !.offset = 0]
    BY <1>3, PassFacts DEF Proceed, NextPass
  <2>2. j.pass + 1 \in 1 .. Len(Passes)
    BY <1>3, PassFacts DEF Job
  <2>3. /\ Proceed(j).pc = "list"
        /\ Proceed(j).toDelete = j.toDelete /\ Proceed(j).toRevoke = j.toRevoke
        /\ Proceed(j).page = j.page
        /\ Proceed(j).pass = j.pass + 1 /\ Proceed(j).offset = 0
    BY <2>1 DEF Job
  <2>4. Proceed(j) \in Job
    <3>1. Proceed(j) = [pc |-> "list", pass |-> j.pass + 1, offset |-> 0,
                        page |-> j.page, full |-> j.full,
                        toDelete |-> j.toDelete, toRevoke |-> j.toRevoke]
      BY <2>1 DEF Job
    <3>2. /\ j.page \in SUBSET Ids /\ j.full \in BOOLEAN
          /\ j.toDelete \in Seq(Ids) /\ j.toRevoke \in Seq(Snapshot)
      BY DEF Job
    <3> QED
      BY <2>2, <3>1, <3>2 DEF Job
  <2> QED
    BY <1>3, <2>3, <2>4, Zenon DEF Deletes, Revokes
<1>4. CASE j.page = {} /\ ~j.full /\ ~(j.pass < 4)
  <2>1. Proceed(j) = Act(j) /\ j.pass = 4
    BY <1>4, PassFacts DEF Proceed, Job
  <2>2. j.toDelete \in Seq(Ids) /\ j.toRevoke \in Seq(Snapshot)
    BY DEF Job
  <2>3. /\ j.toDelete = <<>> => Deletes(j) = {}
        /\ j.toRevoke = <<>> => Revokes(j) = {}
    BY <2>2, ListForm DEF Deletes, Revokes
  <2> QED
    BY <1>4, <2>1, <2>2, <2>3, ActForm DEF Deletes, Revokes
<1> QED
  BY <1>1, <1>2, <1>3, <1>4

(***************************************************************************)
(* What is looked at is on a list afterwards; a snapshot of a process      *)
(* without another administrator is not taken in the first pass.           *)
(***************************************************************************)
LEMMA SortForm ==
  ASSUME NEW j \in Job, NEW id \in Ids, perms[id] \in Resource
  PROVE  /\ Sort(j, id) \in Job
         /\ Sort(j, id).pass = j.pass /\ Sort(j, id).offset = j.offset
         /\ Sort(j, id).page = j.page /\ Sort(j, id).full = j.full
         /\ \/ /\ j.pass = 1 /\ ~OtherAdmin(perms[id])
               /\ Deletes(Sort(j, id)) = Deletes(j) \cup {id}
               /\ Revokes(Sort(j, id)) = Revokes(j)
            \/ /\ \E s \in Revokes(j) : s.id = id
               /\ Deletes(Sort(j, id)) = Deletes(j)
               /\ Revokes(Sort(j, id)) = Revokes(j)
            \/ /\ (j.pass # 1 /\ ~\E s \in Revokes(j) : s.id = id)
                  \/ OtherAdmin(perms[id])
               /\ Deletes(Sort(j, id)) = Deletes(j)
               /\ Revokes(Sort(j, id))
                    = Revokes(j) \cup {[id |-> id, perm |-> perms[id]]}
<1> DEFINE snapshot == [id |-> id, perm |-> perms[id]]
<1>1. /\ snapshot \in Snapshot
      /\ j.toDelete \in Seq(Ids) /\ j.toRevoke \in Seq(Snapshot)
  BY DEF Snapshot, Job
<1>2. CASE j.pass = 1 /\ ~OtherAdmin(perms[id])
  <2>1. /\ Append(j.toDelete, id) \in Seq(Ids)
        /\ ToSet(Append(j.toDelete, id)) = Deletes(j) \cup {id}
    BY <1>1, ListForm DEF Deletes
  <2>2. Sort(j, id) = [j EXCEPT !.toDelete = Append(j.toDelete, id)]
    BY <1>2 DEF Sort
  <2> QED
    BY <1>2, <2>1, <2>2 DEF Job, Deletes, Revokes
<1>3. CASE j.pass # 1 /\ \E s \in Revokes(j) : s.id = id
  <2>1. Sort(j, id) = j
    BY <1>3 DEF Sort
  <2> QED
    BY <1>3, <2>1
<1>4. CASE /\ ~(j.pass = 1 /\ ~OtherAdmin(perms[id]))
           /\ ~(j.pass # 1 /\ \E s \in Revokes(j) : s.id = id)
  <2> HIDE DEF snapshot
  <2>1. /\ Append(j.toRevoke, snapshot) \in Seq(Snapshot)
        /\ ToSet(Append(j.toRevoke, snapshot)) = Revokes(j) \cup {snapshot}
    BY <1>1, ListForm DEF Revokes
  <2>2. Sort(j, id) = [j EXCEPT !.toRevoke = Append(j.toRevoke, snapshot)]
    BY <1>4 DEF Sort, snapshot
  <2>3. /\ Sort(j, id) \in Job
        /\ Sort(j, id).pass = j.pass /\ Sort(j, id).offset = j.offset
        /\ Sort(j, id).page = j.page /\ Sort(j, id).full = j.full
        /\ Deletes(Sort(j, id)) = Deletes(j)
        /\ Revokes(Sort(j, id)) = Revokes(j) \cup {snapshot}
    BY <2>1, <2>2 DEF Job, Deletes, Revokes
  <2> QED
    BY <1>4, <2>3 DEF snapshot
<1> QED
  BY <1>2, <1>3, <1>4

-----------------------------------------------------------------------------
(***************************************************************************)
(* The steps of the handler that list.                                     *)
(***************************************************************************)

Emptied == {"idle", "list", "failed"}

(***************************************************************************)
(* A failed attempt, and one that begins, have nothing on their lists.     *)
(***************************************************************************)
LEMMA EmptyLists ==
  ASSUME NEW pc \in Emptied
  PROVE  /\ JobAt(pc, <<>>, <<>>) \in Job
         /\ JobAt(pc, <<>>, <<>>).pc = pc /\ JobAt(pc, <<>>, <<>>).pass = 1
         /\ JobAt(pc, <<>>, <<>>).offset = 0 /\ JobAt(pc, <<>>, <<>>).page = {}
         /\ Deletes(JobAt(pc, <<>>, <<>>)) = {} /\ Revokes(JobAt(pc, <<>>, <<>>)) = {}
<1>1. <<>> \in Seq(Ids) /\ <<>> \in Seq(Snapshot) /\ ToSet(<<>>) = {}
  BY DEF ToSet
<1> QED
  BY <1>1, PassFacts DEF JobAt, Job, Emptied, Deletes, Revokes

(***************************************************************************)
(* A page is read in whole.                                                *)
(***************************************************************************)
LEMMA ListPageForm ==
  ASSUME UserDeletionTypeOK, ListPage
  PROVE  \/ job' = JobAt("failed", <<>>, <<>>)
         \/ \E j \in Job :
              /\ job' = Proceed(j)
              /\ Deletes(j) = Deletes(job) /\ Revokes(j) = Revokes(job)
              /\ j.pass = job.pass /\ j.offset = job.offset + Batch
              /\ j.page = ListAccessibleResourceIds(Passes[job.pass], job.offset)
              /\ j.full = (Cardinality(j.page) = Batch)
<1> DEFINE page == ListAccessibleResourceIds(Passes[job.pass], job.offset)
           full == (Cardinality(page) = Batch)
<1>1. CASE job' = Proceed([job EXCEPT !.page = page, !.offset = @ + Batch,
                                      !.full = full])
  <2> DEFINE j == [job EXCEPT !.page = page, !.offset = @ + Batch, !.full = full]
  <2>1. job \in Job
    BY DEF UserDeletionTypeOK
  <2>2. page \in SUBSET Ids
    BY DEF ListAccessibleResourceIds, AccessibleIds
  <2>3. job.offset + Batch \in Nat
    BY <2>1, UserDeletionAssumption DEF Job
  <2>4. full \in BOOLEAN
    OBVIOUS
  <2>5. job' = Proceed(j)
    BY <1>1
  <2> HIDE DEF page, full
  <2>6. /\ Deletes(j) = Deletes(job) /\ Revokes(j) = Revokes(job)
        /\ j.pass = job.pass /\ j.offset = job.offset + Batch
        /\ j.page = page
    BY <2>1 DEF Job, Deletes, Revokes
  <2>7. j.full = full
    BY <2>1, <2>4 DEF Job
  <2>8. j \in Job
    BY <2>1, <2>2, <2>3, <2>4 DEF Job
  <2> HIDE DEF j
  <2>9. j.page = ListAccessibleResourceIds(Passes[job.pass], job.offset)
        /\ j.full = (Cardinality(j.page) = Batch)
    BY <2>6, <2>7 DEF page, full
  <2> QED
    BY <2>5, <2>6, <2>8, <2>9
<1>2. CASE FailJob
  BY <1>2 DEF FailJob
<1> QED
  BY <1>1, <1>2 DEF ListPage

(***************************************************************************)
(* One id of the page is sorted into a list.                               *)
(***************************************************************************)
LEMMA LookForm ==
  ASSUME UserDeletionTypeOK, Look
  PROVE  \/ job' = JobAt("failed", <<>>, <<>>)
         \/ \E id \in job.page, j \in Job :
              /\ HasResource(id) /\ perms[id] \in Resource
              /\ job' = Proceed(Sort(j, id))
              /\ Deletes(j) = Deletes(job) /\ Revokes(j) = Revokes(job)
              /\ j.pass = job.pass /\ j.offset = job.offset
              /\ j.page = job.page \ {id} /\ j.full = job.full
<1> DEFINE id == First(job.page)
           j  == [job EXCEPT !.page = @ \ {id}]
<1>1. job \in Job /\ job.page \in SUBSET Ids /\ job.page # {}
  BY DEF UserDeletionTypeOK, Job, Look
<1>2. id \in job.page /\ id \in Ids
  BY <1>1, FirstOfPage
<1>3. CASE HasResource(id) /\ job' = Proceed(Sort(j, id))
  <2>1. j \in Job
    BY <1>1 DEF Job
  <2>2. /\ Deletes(j) = Deletes(job) /\ Revokes(j) = Revokes(job)
        /\ j.pass = job.pass /\ j.offset = job.offset
        /\ j.page = job.page \ {id} /\ j.full = job.full
    BY <1>1 DEF Job, Deletes, Revokes
  <2>3. perms[id] \in Resource
    BY <1>2, <1>3 DEF UserDeletionTypeOK, StoresTypeOK, HasResource
  <2> HIDE DEF id, j
  <2> QED
    BY <1>2, <1>3, <2>1, <2>2, <2>3
<1>4. CASE FailJob
  BY <1>4 DEF FailJob
<1> QED
  BY <1>3, <1>4 DEF Look

-----------------------------------------------------------------------------
(***************************************************************************)
(* The steps of the handler that act.                                      *)
(***************************************************************************)

(***************************************************************************)
(* A deletion is taken off its list when the document is gone.             *)
(***************************************************************************)
LEMMA EraseForm ==
  ASSUME UserDeletionTypeOK, NEW id \in Ids, Erase(id)
  PROVE  /\ job.pc = "erase" /\ id = Head(job.toDelete) /\ id \in Deletes(job)
         /\ \/ job' = JobAt("failed", <<>>, <<>>)
            \/ /\ UNCHANGED faults /\ DbDeleteProcess(id)
               /\ job' \in Job /\ job'.page = {}
               /\ Deletes(job') \subseteq Deletes(job)
               /\ Deletes(job) \ {id} \subseteq Deletes(job')
               /\ Revokes(job') = Revokes(job)
               /\ job'.pc \in {"remove", "revoke", "done"}
               /\ job'.pc = "revoke" => job'.toDelete = <<>>
               /\ job'.pc = "done" => Deletes(job') = {} /\ Revokes(job') = {}
<1> DEFINE j == [job EXCEPT !.toDelete = Tail(@)]
<1>1. /\ job \in Job /\ job.toDelete \in Seq(Ids) /\ job.toRevoke \in Seq(Snapshot)
      /\ job.toDelete # <<>> /\ id = Head(job.toDelete) /\ job.pc = "erase"
  BY DEF UserDeletionTypeOK, Job, Erase
<1>2. /\ Tail(job.toDelete) \in Seq(Ids)
      /\ ToSet(Tail(job.toDelete)) \subseteq Deletes(job)
      /\ Deletes(job) \ {id} \subseteq ToSet(Tail(job.toDelete))
      /\ id \in Deletes(job)
  BY <1>1, ListForm DEF Deletes
<1>3. /\ j.toDelete = Tail(job.toDelete) /\ j.toRevoke = job.toRevoke
      /\ j.toDelete \in Seq(Ids) /\ j.toRevoke \in Seq(Snapshot)
  BY <1>1, <1>2 DEF Job
<1>4. \/ Answers /\ DbDeleteProcess(id) /\ job' = Act(j)
      \/ job' = JobAt("failed", <<>>, <<>>)
  BY DEF Erase, FailJob
<1> HIDE DEF j
<1>5. ASSUME job' = Act(j)
      PROVE  /\ job' \in Job /\ job'.page = {}
             /\ job'.toDelete = Tail(job.toDelete) /\ job'.toRevoke = job.toRevoke
             /\ job'.pc \in {"remove", "revoke", "done"}
             /\ job'.pc = "revoke" => job'.toDelete = <<>>
             /\ job'.pc = "done" => job'.toDelete = <<>> /\ job'.toRevoke = <<>>
  BY <1>3, <1>5, ActForm
<1>6. ToSet(<<>>) = {}
  BY DEF ToSet
<1> QED
  BY <1>1, <1>2, <1>4, <1>5, <1>6 DEF Answers, Deletes, Revokes

(***************************************************************************)
(* A revocation is taken off its list when the permissions are written.    *)
(***************************************************************************)
LEMMA RevokeForm ==
  ASSUME UserDeletionTypeOK, NEW s \in Revokes(job), Revoke(s)
  PROVE  /\ s \in Snapshot /\ Without(s.perm) \in Resource /\ job.pc = "revoke"
         /\ Without(s.perm)[Gone] = {}
         /\ \A u \in Users \ {Gone} : Without(s.perm)[u] = s.perm[u]
         /\ SetPermission(s.id, Without(s.perm)) \/ UNCHANGED perms
         /\ \/ job' = JobAt("failed", <<>>, <<>>)
            \/ /\ UNCHANGED faults /\ SetPermission(s.id, Without(s.perm))
               /\ job' \in Job /\ job'.page = {}
               /\ job'.toDelete = job.toDelete /\ Deletes(job') = Deletes(job)
               /\ Revokes(job') \subseteq Revokes(job)
               /\ Revokes(job) \ {s} \subseteq Revokes(job')
               /\ job'.pc \in {"remove", "revoke", "done"}
               /\ job'.pc = "remove" => job'.toDelete # <<>>
               /\ job'.pc = "revoke" => job'.toDelete = <<>>
               /\ job'.pc = "done" => Deletes(job') = {} /\ Revokes(job') = {}
<1> DEFINE j == [job EXCEPT !.toRevoke = Tail(@)]
<1>1. /\ job \in Job /\ job.toDelete \in Seq(Ids) /\ job.toRevoke \in Seq(Snapshot)
      /\ job.toRevoke # <<>> /\ s = Head(job.toRevoke) /\ job.pc = "revoke"
  BY DEF UserDeletionTypeOK, Job, Revoke
<1>2. /\ Tail(job.toRevoke) \in Seq(Snapshot)
      /\ ToSet(Tail(job.toRevoke)) \subseteq Revokes(job)
      /\ Revokes(job) \ {s} \subseteq ToSet(Tail(job.toRevoke))
      /\ s \in Snapshot
  BY <1>1, ListForm DEF Revokes
<1>3. /\ j.toDelete = job.toDelete /\ j.toRevoke = Tail(job.toRevoke)
      /\ j.toDelete \in Seq(Ids) /\ j.toRevoke \in Seq(Snapshot)
  BY <1>1, <1>2 DEF Job
<1>4. /\ SetPermission(s.id, Without(s.perm)) \/ UNCHANGED perms
      /\ \/ Answers /\ SetPermission(s.id, Without(s.perm)) /\ job' = Act(j)
         \/ job' = JobAt("failed", <<>>, <<>>)
  BY DEF Revoke, FailJob
<1> HIDE DEF j
<1>5. ASSUME job' = Act(j)
      PROVE  /\ job' \in Job /\ job'.page = {}
             /\ job'.toDelete = job.toDelete /\ job'.toRevoke = Tail(job.toRevoke)
             /\ job'.pc \in {"remove", "revoke", "done"}
             /\ job'.pc = "remove" => job'.toDelete # <<>>
             /\ job'.pc = "revoke" => job'.toDelete = <<>>
             /\ job'.pc = "done" => job'.toDelete = <<>> /\ job'.toRevoke = <<>>
  BY <1>3, <1>5, ActForm
<1>6. /\ Without(s.perm) \in Resource /\ Without(s.perm)[Gone] = {}
      /\ \A u \in Users \ {Gone} : Without(s.perm)[u] = s.perm[u]
  BY <1>2, UserDeletionAssumption DEF Without, Resource, Snapshot
<1>7. ToSet(<<>>) = {}
  BY DEF ToSet
<1> QED
  BY <1>1, <1>2, <1>4, <1>5, <1>6, <1>7 DEF Answers, Deletes, Revokes

(***************************************************************************)
(* A deletion begins with the rights.                                      *)
(***************************************************************************)
LEMMA RemoveForm ==
  ASSUME UserDeletionTypeOK, NEW id \in Ids, RemoveRights(id)
  PROVE  /\ id \in Deletes(job)
         /\ RemoveResource(id) \/ UNCHANGED perms
         /\ \/ job' = JobAt("failed", <<>>, <<>>) /\ faults' = faults + 1
            \/ /\ UNCHANGED faults /\ RemoveResource(id)
               /\ job' \in Job /\ job'.pc = "erase"
               /\ job'.toDelete # <<>> /\ id = Head(job'.toDelete)
               /\ Deletes(job') = Deletes(job) /\ Revokes(job') = Revokes(job)
<1>1. /\ job \in Job /\ job.toDelete \in Seq(Ids)
      /\ job.toDelete # <<>> /\ id = Head(job.toDelete)
  BY DEF UserDeletionTypeOK, Job, RemoveRights
<1>2. id \in Deletes(job)
  BY <1>1, ListForm DEF Deletes
<1>3. ASSUME job' = [job EXCEPT !.pc = "erase"]
      PROVE  /\ job' \in Job /\ job'.pc = "erase"
             /\ job'.toDelete = job.toDelete /\ job'.toRevoke = job.toRevoke
  BY <1>1, <1>3 DEF Job
<1> QED
  BY <1>1, <1>2, <1>3 DEF RemoveRights, FailJob, Answers, Fails, Deletes, Revokes

-----------------------------------------------------------------------------
(***************************************************************************)
(* A step keeps the types.                                                 *)
(***************************************************************************)
LEMMA TypesStep ==
  ASSUME UserDeletionTypeOK, UserDeletionNext
  PROVE  UserDeletionTypeOK'
<1> DEFINE JobOK == /\ job \in Job /\ (job.pc = "look" => job.page # {})
                    /\ (job.pc = "erase" => job.toDelete # <<>>)
<1>0. StoresTypeOK /\ JobOK
  BY DEF UserDeletionTypeOK
<1>1. ASSUME NEW pc \in Emptied, job' = JobAt(pc, <<>>, <<>>)
      PROVE  JobOK'
  BY <1>1, EmptyLists DEF Emptied
<1>2. ASSUME NEW j \in Job, job' = Proceed(j)
      PROVE  JobOK'
  BY <1>2, ProceedForm
<1>3. StoresTypeOK' /\ JobOK' => UserDeletionTypeOK'
  BY DEF UserDeletionTypeOK
<1>4. ASSUME UNCHANGED <<docs, perms, now, released, acked>>,
             Answers \/ Fails
      PROVE  StoresTypeOK'
  BY <1>0, <1>4, StoresAssumption DEF StoresTypeOK, Answers, Fails
<1>5. CASE Start
  <2>1. UNCHANGED <<docs, perms, now, released, acked>> /\ Answers
    BY <1>5 DEF Start, storeVars, Answers
  <2> QED
    BY <1>1, <1>3, <1>4, <1>5, <2>1 DEF Start, Emptied
<1>6. CASE Redeliver \/ CrashJob
  BY <1>1, <1>3, <1>4, <1>6 DEF Redeliver, CrashJob, NewJob, Emptied
<1>7. CASE ListPage
  <2>1. JobOK'
    BY <1>1, <1>2, <1>7, ListPageForm DEF Emptied
  <2> QED
    BY <1>3, <1>4, <1>7, <2>1 DEF ListPage
<1>8. CASE Look
  <2>1. \A id \in job.page : id \in Ids
    BY <1>0 DEF Job
  <2>2. JobOK'
    BY <1>1, <1>2, <1>8, <2>1, LookForm, SortForm DEF Emptied
  <2> QED
    BY <1>3, <1>4, <1>8, <2>2 DEF Look
<1>9. ASSUME NEW id \in Ids, RemoveRights(id)
      PROVE  UserDeletionTypeOK'
  <2>1. StoresTypeOK'
    BY <1>0, <1>9, StoresAssumption DEF RemoveRights, StoresTypeOK, Release,
       RemoveResource, Answers, Fails
  <2>2. JobOK'
    BY <1>1, <1>9, RemoveForm DEF Emptied
  <2> QED
    BY <1>3, <2>1, <2>2
<1>10. ASSUME NEW id \in Ids, Erase(id)
       PROVE  UserDeletionTypeOK'
  <2>1. StoresTypeOK'
    BY <1>0, <1>10, StoresAssumption DEF Erase, StoresTypeOK, DbDeleteProcess,
       Answers, Fails
  <2>2. JobOK'
    BY <1>1, <1>10, EraseForm DEF Emptied
  <2> QED
    BY <1>3, <2>1, <2>2
<1>11. ASSUME NEW s \in Revokes(job), Revoke(s)
       PROVE  UserDeletionTypeOK'
  <2>1. perms' \in [Ids -> Resource \cup {NoResource}]
    BY <1>0, <1>11, RevokeForm DEF StoresTypeOK, SetPermission, Snapshot
  <2>2. StoresTypeOK'
    BY <1>0, <1>11, <2>1, StoresAssumption DEF Revoke, StoresTypeOK, Answers, Fails
  <2>3. JobOK'
    BY <1>1, <1>11, RevokeForm DEF Emptied
  <2> QED
    BY <1>3, <2>2, <2>3
<1> QED
  BY <1>5, <1>6, <1>7, <1>8, <1>9, <1>10, <1>11 DEF UserDeletionNext, HandleUserDelete

-----------------------------------------------------------------------------
(***************************************************************************)
(* What becomes of the lists. S are ids whose rights somebody else has     *)
(* changed; nobody has when the handler is alone.                          *)
(***************************************************************************)

(***************************************************************************)
(* The lists of an attempt stay true to the stores while it works.         *)
(***************************************************************************)
LEMMA FaithfulStep ==
  ASSUME NEW S, UserDeletionTypeOK, Faithful(S), UserDeletionNext
  PROVE  Faithful(S)'
<1>0. /\ job \in Job /\ Deletes(job) \in SUBSET Ids
      /\ \A s \in Revokes(job) : s.id \in Ids /\ s.perm \in Resource
      /\ perms \in [Ids -> Resource \cup {NoResource}]
  BY JobLists DEF UserDeletionTypeOK, StoresTypeOK
<1>1. ASSUME NEW pc \in Emptied, job' = JobAt(pc, <<>>, <<>>)
      PROVE  Faithful(S)'
  <2>1. Deletes(job') = {} /\ Revokes(job') = {} /\ job'.pc \notin {"erase", "revoke"}
    BY <1>1, EmptyLists DEF Emptied
  <2> QED
    BY <2>1 DEF Faithful
<1>2. CASE Start \/ Redeliver \/ CrashJob
  BY <1>1, <1>2 DEF Start, Redeliver, CrashJob, NewJob, Emptied
<1>3. CASE ListPage
  <2>1. CASE job' = JobAt("failed", <<>>, <<>>)
    BY <1>1, <2>1 DEF Emptied
  <2>2. ASSUME NEW j \in Job, job' = Proceed(j),
               Deletes(j) = Deletes(job), Revokes(j) = Revokes(job)
        PROVE  Faithful(S)'
    <3>1. /\ Deletes(job') = Deletes(job) /\ Revokes(job') = Revokes(job)
          /\ job'.pc # "erase" /\ (job'.pc = "revoke" => job'.toDelete = <<>>)
      BY <2>2, ProceedForm
    <3>2. UNCHANGED perms /\ job.pc # "revoke"
      BY <1>3 DEF ListPage
    <3> QED
      BY <3>1, <3>2 DEF Faithful, HasResource, OtherAdmin
  <2> QED
    BY <1>3, <2>1, <2>2, ListPageForm
<1>4. CASE Look
  <2>1. CASE job' = JobAt("failed", <<>>, <<>>)
    BY <1>1, <2>1 DEF Emptied
  <2>2. ASSUME NEW id \in job.page, NEW j \in Job, perms[id] \in Resource,
               HasResource(id),
               job' = Proceed(Sort(j, id)),
               Deletes(j) = Deletes(job), Revokes(j) = Revokes(job)
        PROVE  Faithful(S)'
    <3>1. id \in Ids
      BY <1>0 DEF Job
    <3>2. Sort(j, id) \in Job
      BY <2>2, <3>1, SortForm
    <3>3. /\ Deletes(job') = Deletes(Sort(j, id)) /\ Revokes(job') = Revokes(Sort(j, id))
          /\ job'.pc # "erase" /\ (job'.pc = "revoke" => job'.toDelete = <<>>)
      BY <2>2, <3>2, ProceedForm
    <3>4. UNCHANGED perms /\ job.pc # "revoke"
      BY <1>4 DEF Look
    <3>5. CASE /\ ~OtherAdmin(perms[id])
               /\ Deletes(job') = Deletes(job) \cup {id}
               /\ Revokes(job') = Revokes(job)
      BY <3>3, <3>4, <3>5 DEF Faithful, HasResource, OtherAdmin
    <3>6. CASE Deletes(job') = Deletes(job) /\ Revokes(job') = Revokes(job)
      BY <3>3, <3>4, <3>6 DEF Faithful, HasResource, OtherAdmin
    <3>7. CASE /\ Deletes(job') = Deletes(job)
               /\ Revokes(job') = Revokes(job) \cup {[id |-> id, perm |-> perms[id]]}
      <4>1. \A s \in Revokes(job) : s.id = id /\ id \notin S => s.perm = perms[id]
        BY <2>2, <3>4 DEF Faithful, HasResource
      <4>2. \A s, t \in Revokes(job') : s.id = t.id /\ s.id \notin S => s.perm = t.perm
        BY <3>7, <4>1 DEF Faithful
      <4>3. \A s \in Revokes(job') : s.id \notin S => perms'[s.id] \in {s.perm, NoResource}
        BY <3>4, <3>7 DEF Faithful
      <4> QED
        BY <3>3, <3>4, <3>7, <4>2, <4>3 DEF Faithful, HasResource, OtherAdmin
    <3> QED
      BY <2>2, <3>1, <3>3, <3>5, <3>6, <3>7, SortForm
  <2> QED
    BY <1>4, <2>1, <2>2, LookForm
<1>5. ASSUME NEW id \in Ids, RemoveRights(id)
      PROVE  Faithful(S)'
  <2>1. CASE job' = JobAt("failed", <<>>, <<>>)
    BY <1>1, <2>1 DEF Emptied
  <2>2. CASE /\ RemoveResource(id) /\ job'.pc = "erase" /\ id = Head(job'.toDelete)
             /\ Deletes(job') = Deletes(job) /\ Revokes(job') = Revokes(job)
    <3>1. id \in Deletes(job)
      BY <1>5, RemoveForm
    <3>2. \A i \in Ids : perms'[i] = IF i = id THEN NoResource ELSE perms[i]
      BY <1>0, <2>2 DEF RemoveResource
    <3>3. job.pc # "revoke"
      BY <1>5 DEF RemoveRights
    <3> QED
      BY <1>0, <2>2, <3>1, <3>2, <3>3 DEF Faithful, HasResource, OtherAdmin
  <2> QED
    BY <1>5, <2>1, <2>2, RemoveForm
<1>6. ASSUME NEW id \in Ids, Erase(id)
      PROVE  Faithful(S)'
  <2>1. CASE job' = JobAt("failed", <<>>, <<>>)
    BY <1>1, <2>1 DEF Emptied
  <2>2. CASE /\ Deletes(job') \subseteq Deletes(job) /\ Revokes(job') = Revokes(job)
             /\ job'.pc \in {"remove", "revoke", "done"}
             /\ job'.pc = "revoke" => job'.toDelete = <<>>
    <3>1. UNCHANGED perms /\ job.pc = "erase"
      BY <1>6 DEF Erase
    <3> QED
      BY <2>2, <3>1 DEF Faithful, HasResource, OtherAdmin
  <2> QED
    BY <1>6, <2>1, <2>2, EraseForm
<1>7. ASSUME NEW s \in Revokes(job), Revoke(s)
      PROVE  Faithful(S)'
  <2>1. CASE job' = JobAt("failed", <<>>, <<>>)
    BY <1>1, <2>1 DEF Emptied
  <2>2. CASE /\ SetPermission(s.id, Without(s.perm))
             /\ job'.toDelete = job.toDelete /\ Deletes(job') = Deletes(job)
             /\ Revokes(job') \subseteq Revokes(job)
             /\ job'.pc \in {"remove", "revoke", "done"}
             /\ job'.pc = "remove" => job'.toDelete # <<>>
             /\ job'.pc = "done" => Revokes(job') = {}
    <3>1. \A i \in Ids : perms'[i] = IF i = s.id THEN Without(s.perm) ELSE perms[i]
      BY <1>0, <2>2 DEF SetPermission
    <3>2. job.pc = "revoke" /\ job.toDelete = <<>>
      BY <1>7, RevokeForm DEF Faithful
    <3>3. Deletes(job') = {}
      <4>1. job.toDelete \in Seq(Ids)
        BY <1>0 DEF Job
      <4>2. ToSet(job.toDelete) = {}
        BY <3>2, <4>1, ListForm
      <4> QED
        BY <2>2, <4>2 DEF Deletes
    <3>4. ASSUME NEW t \in Revokes(job'), t.id \notin S
          PROVE  \/ perms'[t.id] \in {t.perm, NoResource}
                 \/ job'.pc = "revoke" /\ perms'[t.id] = Without(t.perm)
      <4>1. job'.pc = "revoke" /\ t \in Revokes(job) /\ t.id \in Ids
        BY <1>0, <2>2, <3>2, <3>4
      <4>2. CASE t.id = s.id
        <5>1. t.perm = s.perm
          BY <3>4, <4>1, <4>2 DEF Faithful
        <5> QED
          BY <3>1, <4>1, <4>2, <5>1
      <4>3. CASE t.id # s.id
        BY <3>1, <3>4, <4>1, <4>3 DEF Faithful
      <4> QED
        BY <4>2, <4>3
    <3>5. \A t, v \in Revokes(job') : t.id = v.id /\ t.id \notin S => t.perm = v.perm
      BY <2>2 DEF Faithful
    <3> QED
      BY <2>2, <3>2, <3>3, <3>4, <3>5 DEF Faithful
  <2> QED
    BY <1>7, <2>1, <2>2, RevokeForm
<1> QED
  BY <1>2, <1>3, <1>4, <1>5, <1>6, <1>7 DEF UserDeletionNext, HandleUserDelete

(***************************************************************************)
(* As long as its lists are true to the stores, the handler takes nothing  *)
(* from anybody else.                                                      *)
(***************************************************************************)
LEMMA FaithfulKeeps ==
  ASSUME NEW S, UserDeletionTypeOK, Faithful(S), UserDeletionNext,
         NEW id \in Ids \ S
  PROVE  Untouched(id)
<1>0. /\ docs \in [Ids -> Doc \cup {NoDoc}]
      /\ perms \in [Ids -> Resource \cup {NoResource}]
      /\ NoResource \notin Resource
  BY StoresAssumption DEF UserDeletionTypeOK, StoresTypeOK
<1>1. CASE UNCHANGED <<docs, perms>>
  BY <1>1 DEF Untouched, HasResource
<1>2. ASSUME NEW i \in Ids, RemoveRights(i)
      PROVE  Untouched(id)
  <2>1. CASE i = id
    BY <1>2, <2>1, RemoveForm DEF Faithful, Untouched
  <2>2. CASE i # id
    <3>1. docs' = docs /\ perms'[id] = perms[id]
      BY <1>0, <1>2, <2>2 DEF RemoveRights, RemoveResource
    <3> QED
      BY <3>1 DEF Untouched, HasResource
  <2> QED
    BY <2>1, <2>2
<1>3. ASSUME NEW i \in Ids, Erase(i)
      PROVE  Untouched(id)
  <2>1. CASE i = id
    BY <1>3, <2>1, EraseForm DEF Faithful, Untouched
  <2>2. CASE i # id
    <3>1. perms' = perms /\ docs'[id] = docs[id]
      BY <1>0, <1>3, <2>2 DEF Erase, DbDeleteProcess
    <3> QED
      BY <3>1 DEF Untouched, HasResource
  <2> QED
    BY <2>1, <2>2
<1>4. ASSUME NEW s \in Revokes(job), Revoke(s)
      PROVE  Untouched(id)
  <2>1. docs' = docs
    BY <1>4 DEF Revoke
  <2>2. CASE s.id = id /\ SetPermission(s.id, Without(s.perm)) /\ HasResource(id)
    <3>1. perms[id] = s.perm \/ perms[id] = Without(s.perm)
      BY <2>2 DEF Faithful, HasResource
    <3>2. perms'[id] = Without(s.perm)
      BY <1>0, <2>2 DEF SetPermission
    <3>3. \A u \in Users \ {Gone} : perms'[id][u] = perms[id][u]
      BY <1>4, <3>1, <3>2, RevokeForm
    <3>4. HasResource(id)'
      BY <1>0, <1>4, <3>2, RevokeForm DEF HasResource
    <3> QED
      BY <2>1, <3>3, <3>4 DEF Untouched
  <2>3. CASE perms'[id] = perms[id]
    BY <2>1, <2>3 DEF Untouched, HasResource
  <2>4. s.id # id /\ SetPermission(s.id, Without(s.perm)) => perms'[id] = perms[id]
    BY <1>0 DEF SetPermission
  <2> QED
    BY <1>4, <2>2, <2>3, <2>4, RevokeForm DEF Untouched
<1>5. CASE Start \/ ListPage \/ Look \/ Redeliver \/ CrashJob
  BY <1>1, <1>5 DEF Start, ListPage, Look, Redeliver, CrashJob, storeVars
<1> QED
  BY <1>2, <1>3, <1>4, <1>5 DEF UserDeletionNext, HandleUserDelete

-----------------------------------------------------------------------------
(***************************************************************************)
(* That everything gets on a list, when nobody else changes the rights.    *)
(***************************************************************************)

\* All up to the offset of job j, or all there is, is on a list or its page,
\* but for the ids in L, which the user got a right on while it was listed.
Covered(j, L) ==
  /\ \A p \in 1 .. j.pass - 1 : AccessibleIds(Passes[p]) \ L \subseteq Listed(j)
  /\ LET ids == AccessibleIds(Passes[j.pass])
     IN  \A id \in ids \ L : Position(id, ids) <= j.offset \/ ~j.full
                           => id \in Listed(j) \cup j.page

(***************************************************************************)
(* Who has any right is found in one of the passes.                        *)
(***************************************************************************)
LEMMA FoundByRight ==
  ASSUME UserDeletionTypeOK, NEW id \in Ids, HasResource(id), perms[id][Gone] # {}
  PROVE  \E p \in 1 .. 4 : id \in AccessibleIds(Passes[p])
<1>1. perms[id][Gone] \in SUBSET Rights
  BY UserDeletionAssumption
  DEF UserDeletionTypeOK, StoresTypeOK, HasResource, Resource
<1>2. PICK right \in Rights : right \in perms[id][Gone]
  BY <1>1
<1>3. PICK p \in 1 .. 4 : Passes[p] = right
  BY PassFacts
<1> QED
  BY <1>2, <1>3 DEF AccessibleIds, CheckPermission

(***************************************************************************)
(* A listing that is covered goes on covered; when it ends, everything the *)
(* user has a right on is on a list.                                       *)
(***************************************************************************)
LEMMA CoveredProceeds ==
  ASSUME NEW L, UserDeletionTypeOK, NEW j \in Job, Covered(j, L), job' = Proceed(j),
         UNCHANGED perms
  PROVE  Turned(L)' /\ AllListed(L)'
<1>1. /\ Deletes(job') = Deletes(j) /\ Revokes(job') = Revokes(j)
      /\ job'.page = j.page /\ job' \in Job
  BY ProceedForm
<1>2. Listed(job') = Listed(j)
  BY <1>1 DEF Listed
<1>3. \A right : AccessibleIds(right)' = AccessibleIds(right)
  BY DEF AccessibleIds, CheckPermission, HasResource
<1>4. \A p : AccessibleIds(Passes[p])' = AccessibleIds(Passes[p])
  BY <1>3 DEF Passes
<1>5. j.pass \in 1 .. 4
  BY PassFacts DEF Job
<1>6. CASE /\ j.page # {} /\ job'.pc = "look" /\ job'.pass = j.pass
           /\ job'.offset = j.offset /\ job'.full = j.full
  BY <1>1, <1>2, <1>4, <1>6 DEF Covered, Turned, AllListed, Position
<1>7. CASE /\ j.page = {} /\ j.full /\ job'.pc = "list" /\ job'.pass = j.pass
           /\ job'.offset = j.offset
  BY <1>1, <1>2, <1>4, <1>7 DEF Covered, Turned, AllListed, Position
<1>8. CASE /\ j.page = {} /\ ~j.full /\ job'.pc = "list"
           /\ job'.pass = j.pass + 1 /\ job'.offset = 0
  <2>1. \A p \in 1 .. j.pass : AccessibleIds(Passes[p]) \ L \subseteq Listed(j)
    BY <1>5, <1>8 DEF Covered
  <2>2. \A p \in 1 .. job'.pass - 1 :
          AccessibleIds(Passes[p])' \ L \subseteq Listed(job')
    BY <1>2, <1>4, <1>5, <1>8, <2>1
  <2>3. \A ids \in SUBSET Ids : \A id \in ids : ~(Position(id, ids) <= 0)
    <3> TAKE ids \in SUBSET Ids
    <3> TAKE id \in ids
    <3>1. Position(id, ids) \in 1 .. Cardinality(ids) /\ Cardinality(ids) \in Nat
      BY Positions
    <3> QED
      BY <3>1
  <2>4. AccessibleIds(Passes[job'.pass]) \in SUBSET Ids
    BY DEF AccessibleIds
  <2> QED
    BY <1>1, <1>4, <1>8, <2>2, <2>3, <2>4 DEF Turned, AllListed, Position
<1>9. CASE /\ j.page = {} /\ ~j.full /\ j.pass = 4
           /\ job'.pc \in {"remove", "revoke", "done"}
           /\ job'.pc = "done" => Deletes(j) = {} /\ Revokes(j) = {}
  <2>1. \A p \in 1 .. 4 : AccessibleIds(Passes[p]) \ L \subseteq Listed(j)
    BY <1>9 DEF Covered
  <2>2. \A id \in Ids \ L : HasResource(id)' /\ perms'[id][Gone] # {} => id \in Listed(job')
    BY <1>2, <2>1, FoundByRight DEF HasResource
  <2>3. job'.pc = "done" => Listed(job') = {}
    BY <1>1, <1>9 DEF Listed
  <2> QED
    BY <1>9, <2>2, <2>3 DEF Turned, AllListed
<1> QED
  BY <1>6, <1>7, <1>8, <1>9, ProceedForm

(***************************************************************************)
(* A page covers what lies between its offsets, and a short one all that   *)
(* is left.                                                                *)
(***************************************************************************)
LEMMA ListPageCovers ==
  ASSUME NEW L, UserDeletionTypeOK, Turned(L), job.pc = "list", NEW j \in Job,
         Deletes(j) = Deletes(job), Revokes(j) = Revokes(job),
         j.pass = job.pass, j.offset = job.offset + Batch,
         j.page = ListAccessibleResourceIds(Passes[job.pass], job.offset),
         j.full = (Cardinality(j.page) = Batch)
  PROVE  Covered(j, L)
<1> DEFINE ids == AccessibleIds(Passes[job.pass])
<1>1. Listed(j) = Listed(job) /\ job.page = {}
  BY DEF Listed, Turned
<1>2. ids \in SUBSET Ids /\ job.offset \in Nat /\ Batch \in Nat
  BY UserDeletionAssumption DEF AccessibleIds, UserDeletionTypeOK, Job
<1>3. j.page = {id \in ids : Position(id, ids) \in job.offset + 1 .. job.offset + Batch}
  BY DEF ListAccessibleResourceIds
<1>4. ASSUME NEW id \in ids \ L, Position(id, ids) <= j.offset \/ ~j.full
      PROVE  id \in Listed(j) \cup j.page
  <2> HIDE DEF ids
  <2>1. Position(id, ids) \in Nat
    <3>1. Position(id, ids) \in 1 .. Cardinality(ids) /\ Cardinality(ids) \in Nat
      BY <1>2, Positions
    <3> QED
      BY <3>1
  <2>2. Position(id, ids) <= job.offset + Batch
    BY <1>2, <1>3, <1>4, ShortPage
  <2>3. Position(id, ids) <= job.offset => id \in Listed(job)
    BY <1>1 DEF Turned, ids
  <2> QED
    BY <1>1, <1>2, <1>3, <2>1, <2>2, <2>3
<1>5. \A p \in 1 .. j.pass - 1 : AccessibleIds(Passes[p]) \ L \subseteq Listed(j)
  BY <1>1 DEF Turned
<1> QED
  BY <1>4, <1>5 DEF Covered

(***************************************************************************)
(* Looking at an id moves it from the page to a list.                      *)
(***************************************************************************)
LEMMA LookCovers ==
  ASSUME NEW L, UserDeletionTypeOK, Turned(L), job.pc = "look",
         NEW id \in job.page, NEW j \in Job, perms[id] \in Resource,
         Deletes(j) = Deletes(job), Revokes(j) = Revokes(job),
         j.pass = job.pass, j.offset = job.offset,
         j.page = job.page \ {id}, j.full = job.full
  PROVE  Covered(Sort(j, id), L) /\ Sort(j, id) \in Job
<1>1. id \in Ids
  BY DEF UserDeletionTypeOK, Job
<1>2. /\ Sort(j, id) \in Job
      /\ Sort(j, id).pass = job.pass /\ Sort(j, id).offset = job.offset
      /\ Sort(j, id).page = job.page \ {id} /\ Sort(j, id).full = job.full
  BY <1>1, SortForm
<1>3. Listed(job) \cup {id} \subseteq Listed(Sort(j, id))
  <2>1. CASE /\ Deletes(Sort(j, id)) = Deletes(job) \cup {id}
             /\ Revokes(Sort(j, id)) = Revokes(job)
    BY <2>1 DEF Listed
  <2>2. CASE /\ \E s \in Revokes(job) : s.id = id
             /\ Deletes(Sort(j, id)) = Deletes(job)
             /\ Revokes(Sort(j, id)) = Revokes(job)
    BY <2>2 DEF Listed
  <2>3. CASE /\ Deletes(Sort(j, id)) = Deletes(job)
             /\ Revokes(Sort(j, id))
                  = Revokes(job) \cup {[id |-> id, perm |-> perms[id]]}
    BY <2>3 DEF Listed
  <2> QED
    BY <1>1, <2>1, <2>2, <2>3, SortForm
<1>4. \A p \in 1 .. job.pass - 1 : AccessibleIds(Passes[p]) \ L \subseteq Listed(job)
  BY DEF Turned
<1>5. LET ids == AccessibleIds(Passes[job.pass])
      IN  \A i \in ids \ L : Position(i, ids) <= job.offset \/ ~job.full
                           => i \in Listed(job) \cup job.page
  BY DEF Turned
<1> QED
  BY <1>2, <1>3, <1>4, <1>5 DEF Covered

(***************************************************************************)
(* Every step keeps the lists complete.                                    *)
(***************************************************************************)
LEMMA ListedStep ==
  ASSUME NEW L, UserDeletionTypeOK, Turned(L), AllListed(L), UserDeletionNext
  PROVE  Turned(L)' /\ AllListed(L)'
<1>0. /\ job \in Job /\ Deletes(job) \in SUBSET Ids
      /\ \A s \in Revokes(job) : s.id \in Ids /\ s.perm \in Resource
      /\ perms \in [Ids -> Resource \cup {NoResource}]
  BY JobLists DEF UserDeletionTypeOK, StoresTypeOK
<1>1. ASSUME job' = JobAt("failed", <<>>, <<>>) \/ job' = JobAt("idle", <<>>, <<>>)
      PROVE  Turned(L)' /\ AllListed(L)'
  BY <1>1, EmptyLists DEF Turned, AllListed, Emptied
<1>2. CASE Start
  <2>1. /\ job'.pc = "list" /\ job'.pass = 1 /\ job'.offset = 0 /\ job'.page = {}
    BY <1>2, EmptyLists DEF Start, Emptied
  <2>2. \A ids \in SUBSET Ids : \A id \in ids : ~(Position(id, ids) <= 0)
    <3> TAKE ids \in SUBSET Ids
    <3> TAKE id \in ids
    <3>1. Position(id, ids) \in 1 .. Cardinality(ids) /\ Cardinality(ids) \in Nat
      BY Positions
    <3> QED
      BY <3>1
  <2>3. AccessibleIds(Passes[job.pass])' \in SUBSET Ids
    BY DEF AccessibleIds
  <2>4. \A id \in AccessibleIds(Passes[job.pass])' :
          ~(Position(id, AccessibleIds(Passes[job.pass]))' <= job'.offset)
    BY <2>1, <2>2, <2>3 DEF Position
  <2> QED
    BY <2>1, <2>4 DEF Turned, AllListed
<1>3. CASE Redeliver \/ CrashJob
  BY <1>1, <1>3 DEF Redeliver, CrashJob, NewJob
<1>4. CASE ListPage
  BY <1>1, <1>4, ListPageForm, ListPageCovers, CoveredProceeds DEF ListPage
<1>5. CASE Look
  BY <1>1, <1>5, LookForm, LookCovers, CoveredProceeds DEF Look
<1>6. ASSUME NEW id \in Ids, RemoveRights(id)
      PROVE  Turned(L)' /\ AllListed(L)'
  <2>1. CASE /\ RemoveResource(id) /\ job'.pc = "erase" /\ id = Head(job'.toDelete)
             /\ Deletes(job') = Deletes(job) /\ Revokes(job') = Revokes(job)
    <3>1. \A i \in Ids : perms'[i] = IF i = id THEN NoResource ELSE perms[i]
      BY <1>0, <2>1 DEF RemoveResource
    <3>2. job.pc = "remove" /\ Listed(job') = Listed(job)
      BY <1>6, <2>1 DEF RemoveRights, Listed
    <3> QED
      BY <2>1, <3>1, <3>2 DEF Turned, AllListed, HasResource
  <2> QED
    BY <1>1, <1>6, <2>1, RemoveForm
<1>7. ASSUME NEW id \in Ids, Erase(id)
      PROVE  Turned(L)' /\ AllListed(L)'
  <2>1. CASE /\ Deletes(job) \ {id} \subseteq Deletes(job') /\ Revokes(job') = Revokes(job)
             /\ job'.pc \in {"remove", "revoke", "done"}
             /\ job'.pc = "done" => Deletes(job') = {} /\ Revokes(job') = {}
    <3>1. id = Head(job.toDelete) /\ job.pc = "erase"
      BY <1>7, EraseForm
    <3>2. UNCHANGED perms
      BY <1>7 DEF Erase
    <3>3. \A i \in Listed(job) : i = id \/ i \in Listed(job')
      BY <2>1 DEF Listed
    <3>4. job'.pc = "done" => Listed(job') = {}
      BY <2>1 DEF Listed
    <3> QED
      BY <2>1, <3>1, <3>2, <3>3, <3>4 DEF Turned, AllListed, HasResource
  <2> QED
    BY <1>1, <1>7, <2>1, EraseForm
<1>8. ASSUME NEW s \in Revokes(job), Revoke(s)
      PROVE  Turned(L)' /\ AllListed(L)'
  <2>1. CASE /\ SetPermission(s.id, Without(s.perm))
             /\ Deletes(job') = Deletes(job) /\ Revokes(job) \ {s} \subseteq Revokes(job')
             /\ job'.pc \in {"remove", "revoke", "done"}
             /\ job'.pc = "done" => Deletes(job') = {} /\ Revokes(job') = {}
    <3>1. \A i \in Ids : perms'[i] = IF i = s.id THEN Without(s.perm) ELSE perms[i]
      BY <1>0, <2>1 DEF SetPermission
    <3>2. \A i \in Listed(job) : i = s.id \/ i \in Listed(job')
      BY <2>1 DEF Listed
    <3>3. job'.pc = "done" => Listed(job') = {}
      BY <2>1 DEF Listed
    <3>4. Without(s.perm)[Gone] = {} /\ job.pc = "revoke"
      BY <1>8, RevokeForm
    <3> QED
      BY <2>1, <3>1, <3>2, <3>3, <3>4 DEF Turned, AllListed, HasResource
  <2> QED
    BY <1>1, <1>8, <2>1, RevokeForm
<1> QED
  BY <1>2, <1>3, <1>4, <1>5, <1>6, <1>7, <1>8 DEF UserDeletionNext, HandleUserDelete

-----------------------------------------------------------------------------
(***************************************************************************)
(* That somebody administrates what is left.                               *)
(***************************************************************************)

(***************************************************************************)
(* A process the user alone administrates is on the list of deletions      *)
(* before a snapshot of it can be taken.                                   *)
(***************************************************************************)
LEMMA SnapshotAdministrated ==
  ASSUME UserDeletionTypeOK, Turned({}), Administrated, job.pc = "look",
         NEW id \in Ids, HasResource(id), job.pass # 1,
         ~\E s \in Revokes(job) : s.id = id
  PROVE  OtherAdmin(perms[id]) \/ id \in Deletes(job) \/ ~HasDoc(id)
<1> SUFFICES ASSUME ~OtherAdmin(perms[id]), HasDoc(id)
             PROVE  id \in Deletes(job)
  OBVIOUS
<1>1. "a" \in perms[id][Gone]
  BY DEF Administrated, Intact
<1>2. id \in AccessibleIds(Passes[1])
  BY <1>1, PassFacts DEF AccessibleIds, CheckPermission
<1>3. 1 \in 1 .. job.pass - 1
  <2>1. job.pass \in 1 .. 4
    BY PassFacts DEF UserDeletionTypeOK, Job
  <2> QED
    BY <2>1
<1>4. id \in Listed(job)
  BY <1>2, <1>3 DEF Turned
<1> QED
  BY <1>4 DEF Listed

(***************************************************************************)
(* Every step leaves complete processes with an administrator.             *)
(***************************************************************************)
LEMMA AdministratedStep ==
  ASSUME UserDeletionTypeOK, Faithful({}), Turned({}), Administrated, UserDeletionNext
  PROVE  Administrated'
<1>0. /\ job \in Job /\ Deletes(job) \in SUBSET Ids
      /\ \A s \in Revokes(job) : s.id \in Ids /\ s.perm \in Resource
      /\ perms \in [Ids -> Resource \cup {NoResource}]
      /\ docs \in [Ids -> Doc \cup {NoDoc}]
  BY JobLists DEF UserDeletionTypeOK, StoresTypeOK
<1> DEFINE Complete == \A id \in Ids : Intact(id) => OtherAdmin(perms[id])
                                                    \/ "a" \in perms[id][Gone]
<1>1. UNCHANGED <<docs, perms>> => Complete'
  BY DEF Administrated, Intact, HasDoc, HasResource, OtherAdmin
<1>2. ASSUME NEW pc \in Emptied, job' = JobAt(pc, <<>>, <<>>), Complete'
      PROVE  Administrated'
  BY <1>2, EmptyLists DEF Administrated
<1>3. CASE Start \/ Redeliver \/ CrashJob
  BY <1>1, <1>2, <1>3 DEF Start, Redeliver, CrashJob, NewJob, Emptied, storeVars
<1>4. CASE ListPage
  <2>1. UNCHANGED <<docs, perms>>
    BY <1>4 DEF ListPage
  <2>2. ASSUME NEW j \in Job, job' = Proceed(j),
               Deletes(j) = Deletes(job), Revokes(j) = Revokes(job)
        PROVE  Administrated'
    <3>1. Deletes(job') = Deletes(job) /\ Revokes(job') = Revokes(job)
      BY <2>2, ProceedForm
    <3> QED
      BY <1>1, <2>1, <3>1 DEF Administrated, HasDoc, OtherAdmin
  <2> QED
    BY <1>1, <1>2, <1>4, <2>1, <2>2, ListPageForm DEF Emptied
<1>5. CASE Look
  <2>1. UNCHANGED <<docs, perms>> /\ job.pc = "look"
    BY <1>5 DEF Look
  <2>2. ASSUME NEW id \in job.page, NEW j \in Job, perms[id] \in Resource,
               HasResource(id), job' = Proceed(Sort(j, id)), j.pass = job.pass,
               Deletes(j) = Deletes(job), Revokes(j) = Revokes(job)
        PROVE  Administrated'
    <3>1. id \in Ids
      BY <1>0 DEF Job
    <3>2. /\ Deletes(job') = Deletes(Sort(j, id))
          /\ Revokes(job') = Revokes(Sort(j, id))
      BY <2>2, <3>1, SortForm, ProceedForm
    <3>3. CASE /\ Deletes(job) \subseteq Deletes(job')
               /\ Revokes(job') = Revokes(job)
      BY <1>1, <2>1, <3>3 DEF Administrated, HasDoc, OtherAdmin
    <3>4. CASE /\ (job.pass # 1 /\ ~\E s \in Revokes(job) : s.id = id)
                  \/ OtherAdmin(perms[id])
               /\ Deletes(job') = Deletes(job)
               /\ Revokes(job') = Revokes(job) \cup {[id |-> id, perm |-> perms[id]]}
      <4>1. OtherAdmin(perms[id]) \/ id \in Deletes(job) \/ ~HasDoc(id)
        BY <2>1, <2>2, <3>1, <3>4, SnapshotAdministrated
      <4> QED
        BY <1>1, <2>1, <3>4, <4>1 DEF Administrated, HasDoc, OtherAdmin
    <3> QED
      BY <2>2, <3>1, <3>2, <3>3, <3>4, SortForm
  <2> QED
    BY <1>1, <1>2, <1>5, <2>1, <2>2, LookForm DEF Emptied
<1>6. ASSUME NEW id \in Ids, RemoveRights(id)
      PROVE  Administrated'
  <2>1. docs' = docs /\ (RemoveResource(id) \/ UNCHANGED perms)
    BY <1>6, RemoveForm DEF RemoveRights
  <2>2. Complete'
    <3>1. CASE RemoveResource(id)
      <4>1. \A i \in Ids : perms'[i] = IF i = id THEN NoResource ELSE perms[i]
        BY <1>0, <3>1 DEF RemoveResource
      <4> QED
        BY <2>1, <4>1 DEF Administrated, Intact, HasDoc, HasResource, OtherAdmin
    <3> QED
      BY <1>1, <2>1, <3>1
  <2>3. CASE Deletes(job') = Deletes(job) /\ Revokes(job') = Revokes(job)
    BY <2>1, <2>2, <2>3 DEF Administrated, HasDoc, OtherAdmin
  <2> QED
    BY <1>2, <1>6, <2>2, <2>3, RemoveForm DEF Emptied
<1>7. ASSUME NEW id \in Ids, Erase(id)
      PROVE  Administrated'
  <2>1. perms' = perms /\ (DbDeleteProcess(id) \/ UNCHANGED docs)
    BY <1>7 DEF Erase
  <2>2. Complete'
    <3>1. CASE DbDeleteProcess(id)
      <4>1. \A i \in Ids : docs'[i] = IF i = id THEN NoDoc ELSE docs[i]
        BY <1>0, <3>1 DEF DbDeleteProcess
      <4> QED
        BY <2>1, <4>1 DEF Administrated, Intact, HasDoc, HasResource, OtherAdmin
    <3> QED
      BY <1>1, <2>1, <3>1
  <2>3. CASE /\ DbDeleteProcess(id)
             /\ Deletes(job) \ {id} \subseteq Deletes(job') /\ Revokes(job') = Revokes(job)
    <3>1. \A i \in Ids : docs'[i] = IF i = id THEN NoDoc ELSE docs[i]
      BY <1>0, <2>3 DEF DbDeleteProcess
    <3> QED
      BY <1>0, <2>2, <2>3, <3>1 DEF Administrated, HasDoc, OtherAdmin
  <2> QED
    BY <1>2, <1>7, <2>2, <2>3, EraseForm DEF Emptied
<1>8. ASSUME NEW s \in Revokes(job), Revoke(s)
      PROVE  Administrated'
  <2>1. docs' = docs /\ (SetPermission(s.id, Without(s.perm)) \/ UNCHANGED perms)
    BY <1>8, RevokeForm DEF Revoke
  <2>2. Complete'
    <3>1. CASE SetPermission(s.id, Without(s.perm))
      <4>1. \A i \in Ids : perms'[i] = IF i = s.id THEN Without(s.perm) ELSE perms[i]
        BY <1>0, <3>1 DEF SetPermission
      <4>2. job.toDelete = <<>> /\ job.toDelete \in Seq(Ids)
        BY <1>0, <1>8, RevokeForm DEF Faithful, Job
      <4>5. Deletes(job) = {}
        BY <4>2, ListForm DEF Deletes
      <4>3. HasDoc(s.id) => OtherAdmin(s.perm)
        BY <4>5 DEF Administrated
      <4>4. OtherAdmin(s.perm) => OtherAdmin(Without(s.perm))
        BY <1>8, RevokeForm DEF OtherAdmin
      <4> QED
        BY <2>1, <4>1, <4>3, <4>4
        DEF Administrated, Intact, HasDoc, HasResource, OtherAdmin
    <3> QED
      BY <1>1, <2>1, <3>1
  <2>3. CASE Deletes(job') = Deletes(job) /\ Revokes(job') \subseteq Revokes(job)
    BY <2>1, <2>2, <2>3 DEF Administrated, HasDoc, OtherAdmin
  <2> QED
    BY <1>2, <1>8, <2>2, <2>3, RevokeForm DEF Emptied
<1> QED
  BY <1>3, <1>4, <1>5, <1>6, <1>7, <1>8 DEF UserDeletionNext, HandleUserDelete

(***************************************************************************)
(* Without a failure no document is left without its resource.             *)
(***************************************************************************)
LEMMA NoneLeftStep ==
  ASSUME UserDeletionTypeOK, Faithful({}), NoneLeft, UserDeletionNext
  PROVE  NoneLeft'
<1>0. /\ job \in Job /\ Deletes(job) \in SUBSET Ids
      /\ \A s \in Revokes(job) : s.id \in Ids /\ s.perm \in Resource
      /\ perms \in [Ids -> Resource \cup {NoResource}]
      /\ docs \in [Ids -> Doc \cup {NoDoc}]
      /\ faults \in Nat
  BY JobLists DEF UserDeletionTypeOK, StoresTypeOK
<1> SUFFICES ASSUME faults = 0, faults' = 0
             PROVE  NoneLeft'
  <2>1. Answers \/ Fails
    BY DEF UserDeletionNext, HandleUserDelete, Start, ListPage, Look, RemoveRights,
           Erase, Revoke, Redeliver, CrashJob, Answers, storeVars
  <2>2. faults' = 0 => faults = 0
    BY <1>0, <2>1 DEF Answers, Fails
  <2> QED
    BY <2>2 DEF NoneLeft
<1>1. ~Fails
  BY DEF Fails
<1>2. CASE Start \/ ListPage \/ Look
  BY <1>2 DEF Start, ListPage, Look, NoneLeft, HasDoc, HasResource, storeVars
<1>3. CASE Redeliver \/ CrashJob
  BY <1>1, <1>3 DEF Redeliver, CrashJob
<1>4. ASSUME NEW id \in Ids, RemoveRights(id)
      PROVE  NoneLeft'
  <2>1. /\ \A i \in Ids : perms'[i] = IF i = id THEN NoResource ELSE perms[i]
        /\ job'.pc = "erase" /\ id = Head(job'.toDelete)
    BY <1>0, <1>1, <1>4, RemoveForm DEF RemoveResource, RemoveRights
  <2>2. UNCHANGED docs /\ job.pc = "remove"
    BY <1>4 DEF RemoveRights
  <2> QED
    BY <2>1, <2>2 DEF NoneLeft, HasDoc, HasResource
<1>5. ASSUME NEW id \in Ids, Erase(id)
      PROVE  NoneLeft'
  <2>1. \A i \in Ids : docs'[i] = IF i = id THEN NoDoc ELSE docs[i]
    BY <1>0, <1>1, <1>5 DEF Erase, DbDeleteProcess
  <2>2. UNCHANGED perms /\ id = Head(job.toDelete)
    BY <1>5 DEF Erase
  <2> QED
    BY <2>1, <2>2 DEF NoneLeft, HasDoc, HasResource
<1>6. ASSUME NEW s \in Revokes(job), Revoke(s)
      PROVE  NoneLeft'
  <2>1. \A i \in Ids : perms'[i] \in {perms[i], Without(s.perm)}
    BY <1>0, <1>6, RevokeForm DEF SetPermission
  <2>2. Without(s.perm) # NoResource /\ job.pc = "revoke"
    BY <1>6, RevokeForm, StoresAssumption
  <2>3. UNCHANGED docs
    BY <1>6 DEF Revoke
  <2> QED
    BY <2>1, <2>2, <2>3 DEF NoneLeft, HasDoc, HasResource
<1> QED
  BY <1>2, <1>3, <1>4, <1>5, <1>6 DEF UserDeletionNext, HandleUserDelete

-----------------------------------------------------------------------------
(***************************************************************************)
(* When a user is deleted every process is complete.                       *)
(***************************************************************************)
LEMMA InitDeletion == UserDeletionInit => DeletionInv
<1> SUFFICES ASSUME UserDeletionInit
             PROVE  DeletionInv
  OBVIOUS
<1>1. /\ job \in Job /\ job.pc = "idle"
      /\ Deletes(job) = {} /\ Revokes(job) = {}
  BY EmptyLists DEF UserDeletionInit, NewJob, Emptied
<1>2. [owner |-> NoOwner, updated |-> NoStamp] \in Doc
  BY DEF Doc, NoStamp
<1>3. perms \in [Ids -> Resource] /\ docs \in [Ids -> Doc]
  BY <1>2, UserDeletionAssumption DEF UserDeletionInit
<1>4. StoresTypeOK
  BY <1>3, StoresAssumption DEF UserDeletionInit, StoresTypeOK
<1>5. \A id \in Ids : \E u \in Users : "a" \in perms[id][u]
  BY UserDeletionAssumption DEF UserDeletionInit
<1>6. \A id \in Ids : HasResource(id)
  BY <1>3, StoresAssumption DEF HasResource
<1>7. Administrated
  BY <1>1, <1>5 DEF Administrated, OtherAdmin
<1> QED
  BY <1>1, <1>4, <1>6, <1>7
  DEF DeletionInv, UserDeletionTypeOK, Faithful, Turned, AllListed, NoneLeft

(***************************************************************************)
(* The invariant holds throughout.                                         *)
(***************************************************************************)
THEOREM DeletionInvariance == UserDeletionSpec => []DeletionInv
<1>1. UserDeletionInit => DeletionInv
  BY InitDeletion
<1>2. DeletionInv /\ [UserDeletionNext]_deletionVars => DeletionInv'
  <2> SUFFICES ASSUME DeletionInv, [UserDeletionNext]_deletionVars
               PROVE  DeletionInv'
    OBVIOUS
  <2>1. CASE UserDeletionNext
    BY <2>1, TypesStep, FaithfulStep, ListedStep, AdministratedStep, NoneLeftStep
    DEF DeletionInv
  <2>2. CASE UNCHANGED deletionVars
    BY <2>2 DEF deletionVars, storeVars, DeletionInv, UserDeletionTypeOK,
       StoresTypeOK, Faithful, Turned, AllListed, Administrated, NoneLeft,
       AccessibleIds, CheckPermission, Position, Intact, HasDoc, HasResource,
       OtherAdmin
  <2> QED
    BY <2>1, <2>2
<1> QED
  BY <1>1, <1>2, PTL DEF UserDeletionSpec

(***************************************************************************)
(* An attempt that returns without an error has taken every right from the *)
(* user, for any number of processes, rights, pages and failures.          *)
(***************************************************************************)
THEOREM UserGoneHolds == UserDeletionSpec => []UserGone
<1>1. DeletionInv => UserGone
  BY DEF DeletionInv, AllListed, UserGone
<1> QED
  BY <1>1, DeletionInvariance, PTL

(***************************************************************************)
(* What is left of the processes has an administrator.                     *)
(***************************************************************************)
THEOREM NoneOrphanedHolds == UserDeletionSpec => []NoneOrphaned
<1>1. DeletionInv => NoneOrphaned
  BY DEF DeletionInv, AllListed, Administrated, Intact, NoneOrphaned
<1> QED
  BY <1>1, DeletionInvariance, PTL

(***************************************************************************)
(* Without a failure no document is left without its resource.             *)
(***************************************************************************)
THEOREM CleanSweepHolds == UserDeletionSpec => []CleanSweep
<1>1. DeletionInv => CleanSweep
  BY DEF DeletionInv, NoneLeft, CleanSweep
<1> QED
  BY <1>1, DeletionInvariance, PTL

(***************************************************************************)
(* No step of the handler, of a crash or of a redelivery takes a process   *)
(* that somebody else administrates, nor a right from anybody else.        *)
(***************************************************************************)
THEOREM OthersKeepHolds == UserDeletionSpec => OthersKeep
<1>1. DeletionInv /\ [UserDeletionNext]_deletionVars
        => [OthersUntouched]_deletionVars
  <2> SUFFICES ASSUME DeletionInv, UserDeletionNext
               PROVE  OthersUntouched
    OBVIOUS
  <2> QED
    BY FaithfulKeeps DEF DeletionInv, OthersUntouched
<1> QED
  BY <1>1, DeletionInvariance, PTL DEF UserDeletionSpec, OthersKeep
=============================================================================
