------------------------ MODULE IntrusiveListProofs ------------------------
(***************************************************************************)
(* Proofs about IntrusiveList: the links of the list agree in both         *)
(* directions after any adds and deletes, for every set of entries.        *)
(***************************************************************************)
EXTENDS IntrusiveList, MappedMemoryProofs, FiniteSetTheorems, TLAPS

(***************************************************************************)
(* The nodes with links are closed under both of them: no link leads to an *)
(* entry whose links were never set.                                       *)
(***************************************************************************)
Closed ==
    \A n \in Nodes : next[n] # NULL =>
        /\ next[n] \in Nodes /\ next[next[n]] # NULL
        /\ prev[n] \in Nodes /\ next[prev[n]] # NULL

ListInv == TypeOK /\ LinksAgree /\ Closed /\ next[head] # NULL

LEMMA ListInvInit == Init => ListInv
BY EntriesAssumption DEF Init, ListInv, TypeOK, LinksAgree, Closed, Nodes

LEMMA AddPreserves ==
    ASSUME ListInv, NEW e \in Entries, list_add(e)
    PROVE  ListInv'
<1> DEFINE first == next[head]
<1>1. /\ e \in Nodes /\ head \in Nodes /\ e # head /\ NULL \notin Nodes
      /\ first \in Nodes /\ first # NULL
  BY EntriesAssumption DEF ListInv, Closed, Nodes
<1>2. first # e
  BY <1>1 DEF ListInv, LinksAgree, Closed, list_add, Listed
<1>3. /\ next \in [Nodes -> Nodes \cup {NULL}] /\ prev \in [Nodes -> Nodes \cup {NULL}]
      /\ prev' = [prev EXCEPT ![first] = e, ![e] = head]
      /\ next' = [next EXCEPT ![e] = first, ![head] = e]
  BY DEF ListInv, TypeOK, list_add
<1>4. /\ prev[first] = head
      /\ \A n \in Nodes \ {e} : next[n] # e /\ prev[n] # e
  BY <1>1 DEF ListInv, LinksAgree, Closed, TypeOK, list_add, Listed
<1> HIDE DEF first
<1>5. TypeOK'
  <2>1. next[first] # NULL /\ next[head] # NULL
    BY <1>1 DEF ListInv, Closed, first
  <2>2. \A n \in Nodes : next[n] = NULL <=> prev[n] = NULL
    BY DEF ListInv, TypeOK
  <2>3. \A n \in Nodes : next'[n] = NULL <=> prev'[n] = NULL
    BY <1>1, <1>2, <1>3, <2>1, <2>2
  <2> QED BY <1>1, <1>3, <2>3 DEF TypeOK
<1>6. LinksAgree'
  BY <1>1, <1>2, <1>3, <1>4 DEF LinksAgree, ListInv, Closed, TypeOK, first
<1>7. Closed' /\ next'[head] # NULL
  BY <1>1, <1>2, <1>3, <1>4 DEF Closed, ListInv, TypeOK, first
<1> QED BY <1>5, <1>6, <1>7 DEF ListInv

LEMMA DelPreserves ==
    ASSUME ListInv, NEW e \in Entries, list_del(e)
    PROVE  ListInv'
<1> DEFINE p == prev[e]
           n == next[e]
<1>1. /\ e \in Nodes /\ head \in Nodes /\ e # head /\ NULL \notin Nodes
      /\ p \in Nodes /\ n \in Nodes /\ p # e /\ n # e
      /\ next[p] = e /\ prev[n] = e
  BY EntriesAssumption DEF ListInv, LinksAgree, Closed, Nodes, list_del, Listed
<1>2. /\ next \in [Nodes -> Nodes \cup {NULL}] /\ prev \in [Nodes -> Nodes \cup {NULL}]
      /\ next' = [next EXCEPT ![p] = n, ![e] = e]
      /\ prev' = [prev EXCEPT ![n] = p, ![e] = e]
  BY DEF ListInv, TypeOK, list_del
<1> HIDE DEF p, n
<1>3. TypeOK'
  BY <1>1, <1>2 DEF TypeOK, ListInv
<1>4. LinksAgree'
  BY <1>1, <1>2 DEF LinksAgree, ListInv, Closed, TypeOK, p, n
<1>5. Closed' /\ next'[head] # NULL
  BY <1>1, <1>2 DEF Closed, ListInv, LinksAgree, TypeOK, p, n
<1> QED BY <1>3, <1>4, <1>5 DEF ListInv

(***************************************************************************)
(* next and prev are inverse on the listed nodes, whatever sequence of     *)
(* list_add and list_del panwrap performs.                                 *)
(***************************************************************************)
THEOREM LinksAlwaysAgree == Spec => [](TypeOK /\ LinksAgree)
<1>1. ListInv /\ [Next]_links => ListInv'
  <2> SUFFICES ASSUME ListInv, [Next]_links PROVE ListInv'
    OBVIOUS
  <2>1. CASE \E e \in Entries : list_add(e)
    BY <2>1, AddPreserves
  <2>2. CASE \E e \in Entries : list_del(e)
    BY <2>2, DelPreserves
  <2>3. CASE UNCHANGED links
    BY <2>3 DEF links, ListInv, TypeOK, LinksAgree, Closed
  <2> QED BY <2>1, <2>2, <2>3 DEF Next
<1>2. ListInv => TypeOK /\ LinksAgree
  BY DEF ListInv
<1> QED BY <1>1, <1>2, ListInvInit, PTL DEF Spec

-----------------------------------------------------------------------------
(***************************************************************************)
(* The list that next and prev make: the entries of q, in a ring with the  *)
(* head, and the links of no other entry lead anywhere else.               *)
(***************************************************************************)
IsList(q) == /\ q \in Seq(Entries)
             /\ \A i, j \in 1..Len(q) : q[i] = q[j] => i = j
Link(q, k) == IF k \in 1..Len(q) THEN q[k] ELSE head
Linked(q) == \A k \in 0..Len(q) : /\ next[Link(q, k)] = Link(q, k + 1)
                                  /\ prev[Link(q, k + 1)] = Link(q, k)
Others(q) == \A e \in Entries : (\A k \in 1..Len(q) : q[k] # e) => next[e] \in {NULL, e}
IsRing(q) == IsList(q) /\ Linked(q) /\ Others(q)

\* The walk of list_for_each_entry, m steps of it.
IsWalk(at, m) == at = [k \in 0..m |-> IF k = 0 THEN head ELSE next[at[k - 1]]]

LEMMA WalkExists == \A m \in Nat : \E at : IsWalk(at, m)
<1> DEFINE S == {m \in Nat : \E at : IsWalk(at, m)}
<1>1. 0 \in S
  <2>1. IsWalk([k \in 0..0 |-> head], 0)
    BY DEF IsWalk
  <2> QED BY <2>1
<1>2. ASSUME NEW m \in S PROVE m + 1 \in S
  <2>1. PICK f : IsWalk(f, m)
    OBVIOUS
  <2> DEFINE g == [k \in 0..(m + 1) |-> IF k = m + 1 THEN next[f[m]] ELSE f[k]]
  <2>2. ASSUME NEW k \in 0..(m + 1)
        PROVE  g[k] = IF k = 0 THEN head ELSE next[g[k - 1]]
    <3>1. CASE k = m + 1
      BY <3>1
    <3>2. CASE k \in 0..m
      <4>1. f[k] = IF k = 0 THEN head ELSE next[f[k - 1]]
        BY <2>1, <3>2 DEF IsWalk
      <4>2. g[k] = f[k] /\ (k # 0 => g[k - 1] = f[k - 1])
        BY <3>2
      <4> QED BY <4>1, <4>2
    <3> QED BY <3>1, <3>2
  <2>3. IsWalk(g, m + 1)
    BY <2>2 DEF IsWalk
  <2> QED BY <2>3
<1>3. S = Nat
  <2> HIDE DEF S
  <2>1. S \in SUBSET Nat
    BY DEF S
  <2> QED BY <1>1, <1>2, <2>1, Induct
<1> QED BY <1>3

\* It follows the ring.
LEMMA WalkIsRing ==
    ASSUME NEW q, IsRing(q), NEW m \in Nat, NEW at, IsWalk(at, m)
    PROVE  \A k \in 0..m : k <= Len(q) + 1 => at[k] = Link(q, k)
<1> DEFINE S == {k \in Nat : k <= m /\ k <= Len(q) + 1 => at[k] = Link(q, k)}
<1>0. Len(q) \in Nat
  BY DEF IsRing, IsList
<1>1. 0 \in S
  BY <1>0 DEF IsWalk, Link
<1>2. ASSUME NEW k \in S PROVE k + 1 \in S
  <2>1. SUFFICES ASSUME k + 1 <= m, k + 1 <= Len(q) + 1 PROVE at[k + 1] = Link(q, k + 1)
    OBVIOUS
  <2>2. at[k] = Link(q, k) /\ k \in 0..Len(q) /\ k + 1 \in 0..m /\ (k + 1) - 1 = k
    BY <1>0, <2>1
  <2>3. at[k + 1] = next[at[k]]
    BY <2>2 DEF IsWalk
  <2> QED BY <2>2, <2>3 DEF IsRing, Linked
<1>3. S = Nat
  <2> HIDE DEF S
  <2>1. S \in SUBSET Nat
    BY DEF S
  <2> QED BY <1>1, <1>2, <2>1, Induct
<1> QED BY <1>3

\* A list has no more entries than there are.
LEMMA RingFits ==
    ASSUME NEW q, IsList(q)
    PROVE  Len(q) \in Nat /\ Cardinality(Nodes) \in Nat /\ Len(q) <= Cardinality(Nodes)
<1>1. IsFiniteSet(Nodes)
  BY EntriesAssumption, FS_AddElement DEF Nodes
<1>2. Cardinality(Nodes) \in Nat
  BY <1>1, FS_CardinalityType
<1>3. Len(q) \in Nat
  BY DEF IsList
<1>4. q \in Injection(1..Len(q), Nodes)
  BY DEF IsList, Injection, IsInjective, Nodes
<1>5. Cardinality(1..Len(q)) <= Cardinality(Nodes)
  BY <1>1, <1>4, FS_Injection
<1>6. Cardinality(1..Len(q)) = Len(q)
  <2>1. PICK n : n = Len(q)
    OBVIOUS
  <2>2. 1 \in Int /\ n \in Nat /\ n \in Int
    BY <1>3, <2>1
  <2>3. Cardinality(1..n) = IF 1 > n THEN 0 ELSE n - 1 + 1
    BY <2>2, FS_Interval
  <2>4. Cardinality(1..n) = n
    BY <2>2, <2>3
  <2> QED BY <2>1, <2>4
<1> QED BY <1>2, <1>3, <1>5, <1>6

LEMMA ForwardIsRing == ASSUME NEW q, IsRing(q) PROVE Forward = q
<1> DEFINE N == Cardinality(Nodes)
           at == CHOOSE f : IsWalk(f, N)
           visited == {k \in 1..N : \A j \in 1..k : at[j] # head}
<1>1. Len(q) \in Nat /\ N \in Nat /\ Len(q) <= N
  BY RingFits DEF IsRing
<1>2. IsWalk(at, N)
  BY <1>1, WalkExists
<1>3. Forward = [k \in visited |-> at[k]]
  BY DEF Forward, IsWalk
<1> HIDE DEF at, N
<1>4. \A k \in 0..N : k <= Len(q) + 1 => at[k] = Link(q, k)
  BY <1>1, <1>2, WalkIsRing
<1>5. \A k \in 1..Len(q) : at[k] = q[k] /\ q[k] # head
  BY <1>1, <1>4, EntriesAssumption DEF Link, IsRing, IsList
<1>6. Len(q) + 1 <= N => at[Len(q) + 1] = head
  BY <1>1, <1>4 DEF Link
<1>7. visited = 1..Len(q)
  <2>1. ASSUME NEW k \in visited PROVE k \in 1..Len(q)
    BY <1>1, <1>6
  <2>2. ASSUME NEW k \in 1..Len(q) PROVE k \in visited
    BY <1>1, <1>5
  <2> QED BY <2>1, <2>2
<1> HIDE DEF visited
<1>8. Forward = [k \in 1..Len(q) |-> q[k]]
  BY <1>3, <1>5, <1>7
<1> QED BY <1>8 DEF IsRing, IsList

-----------------------------------------------------------------------------
(***************************************************************************)
(* What list_add and list_del make of the ring.                            *)
(***************************************************************************)
LEMMA RingFacts ==
    ASSUME NEW q, IsRing(q)
    PROVE  /\ Len(q) \in Nat /\ q \in Seq(Entries)
           /\ \A k \in 1..Len(q) : q[k] \in Entries
           /\ \A k \in Nat : Link(q, k) \in Nodes
           /\ \A k \in 0..Len(q) : /\ next[Link(q, k)] = Link(q, k + 1)
                                   /\ prev[Link(q, k + 1)] = Link(q, k)
BY EntriesAssumption DEF IsRing, IsList, Linked, Link, Nodes

\* An entry is on the list when its links say so.
LEMMA ListedInRing ==
    ASSUME NEW q, IsRing(q), NEW e \in Entries
    PROVE  Listed(e) <=> \E k \in 1..Len(q) : q[k] = e
<1>1. ASSUME NEW k \in 1..Len(q), q[k] = e PROVE Listed(e)
  <2>1. Len(q) \in Nat /\ k \in 0..Len(q) /\ Link(q, k) = e
    BY <1>1, RingFacts DEF Link
  <2>2. next[e] = Link(q, k + 1)
    BY <2>1, RingFacts
  <2>3. Link(q, k + 1) # e
    BY <1>1, <2>1, EntriesAssumption DEF Link, IsRing, IsList
  <2>4. Link(q, k + 1) # NULL
    BY <2>1, RingFacts, EntriesAssumption DEF Nodes
  <2> QED BY <2>2, <2>3, <2>4 DEF Listed
<1>2. ASSUME Listed(e), \A k \in 1..Len(q) : q[k] # e PROVE FALSE
  BY <1>2 DEF IsRing, Others, Listed
<1> QED BY <1>1, <1>2

LEMMA AddToRing ==
    ASSUME TypeOK, NEW q, IsRing(q), NEW e \in Entries, list_add(e)
    PROVE  IsRing(<<e>> \o q)'
<1> DEFINE r == <<e>> \o q
<1>1. /\ Len(q) \in Nat /\ q \in Seq(Entries) /\ e # head /\ e \in Nodes /\ head \in Nodes
      /\ \A k \in 1..Len(q) : q[k] \in Entries /\ q[k] # e /\ q[k] # head
  BY RingFacts, ListedInRing, EntriesAssumption DEF list_add, Nodes
<1>2. /\ r \in Seq(Entries) /\ Len(r) = Len(q) + 1 /\ r[1] = e
      /\ \A k \in 2..Len(r) : r[k] = q[k - 1]
  BY <1>1
<1> HIDE DEF r
<1>3. IsList(r)
  <2>1. ASSUME NEW i \in 1..Len(r), NEW j \in 1..Len(r), r[i] = r[j] PROVE i = j
    <3>1. CASE i = 1 \/ j = 1
      <4>1. \A k \in 1..Len(r) : k # 1 => r[k] # e
        <5>1. ASSUME NEW k \in 1..Len(r), k # 1 PROVE r[k] # e
          <6>1. k - 1 \in 1..Len(q) /\ r[k] = q[k - 1]
            BY <1>1, <1>2, <5>1
          <6> QED BY <1>1, <6>1
        <5> QED BY <5>1
      <4> QED BY <1>2, <2>1, <3>1, <4>1
    <3>2. CASE i # 1 /\ j # 1
      <4>1. i - 1 \in 1..Len(q) /\ j - 1 \in 1..Len(q) /\ q[i - 1] = q[j - 1]
        BY <1>1, <1>2, <2>1, <3>2
      <4>2. i - 1 = j - 1
        BY <4>1 DEF IsRing, IsList
      <4> QED BY <1>2, <4>2
    <3> QED BY <3>1, <3>2
  <2> QED BY <1>2, <2>1 DEF IsList
<1>4. /\ Link(r, 0) = head /\ Link(r, 1) = e
      /\ \A k \in 1..(Len(q) + 1) : Link(r, k + 1) = Link(q, k)
  <2>1. Link(r, 0) = head /\ Link(r, 1) = e
    BY <1>1, <1>2 DEF Link
  <2>2. ASSUME NEW k \in 1..Len(q) PROVE Link(r, k + 1) = Link(q, k)
    <3>1. k + 1 \in 2..Len(r) /\ (k + 1) - 1 = k
      BY <1>1, <1>2
    <3> QED BY <1>1, <1>2, <3>1 DEF Link
  <2>3. Link(r, (Len(q) + 1) + 1) = Link(q, Len(q) + 1)
    BY <1>1, <1>2 DEF Link
  <2> QED BY <1>1, <2>1, <2>2, <2>3
<1>5. next[head] = Link(q, 1) /\ Link(q, 0) = head /\ Link(q, 1) \in Nodes /\ Link(q, 1) # e
  <2>1. Link(q, 0) = head
    BY <1>1 DEF Link
  <2>2. next[Link(q, 0)] = Link(q, 0 + 1) /\ Link(q, 1) \in Nodes
    BY <1>1, RingFacts
  <2>3. Link(q, 1) # e
    BY <1>1 DEF Link
  <2> QED BY <2>1, <2>2, <2>3
<1>6. /\ next \in [Nodes -> Nodes \cup {NULL}] /\ prev \in [Nodes -> Nodes \cup {NULL}]
      /\ prev' = [prev EXCEPT ![Link(q, 1)] = e, ![e] = head]
      /\ next' = [next EXCEPT ![e] = Link(q, 1), ![head] = e]
  BY <1>5 DEF TypeOK, list_add
<1>7. ASSUME NEW k \in 0..Len(r)
      PROVE  next'[Link(r, k)] = Link(r, k + 1) /\ prev'[Link(r, k + 1)] = Link(r, k)
  <2>1. CASE k = 0
    BY <1>1, <1>4, <1>6, <2>1
  <2>2. CASE k = 1
    BY <1>1, <1>4, <1>5, <1>6, <2>2
  <2>3. CASE k >= 2
    <3>1. k - 1 \in 1..Len(q) /\ k \in 1..(Len(q) + 1)
      BY <1>1, <1>2, <2>3
    <3>2. Link(r, k) = Link(q, k - 1) /\ Link(r, k + 1) = Link(q, k)
      BY <1>4, <3>1
    <3>3. next[Link(q, k - 1)] = Link(q, k) /\ prev[Link(q, k)] = Link(q, k - 1)
      BY <3>1, RingFacts
    <3>4. Link(q, k - 1) = q[k - 1] /\ Link(q, k - 1) \notin {head, e} /\ Link(q, k - 1) \in Nodes
      BY <1>1, <3>1 DEF Link, Nodes
    <3>5. Link(q, k) \in Nodes /\ Link(q, k) # e
      BY <1>1, <3>1, RingFacts DEF Link
    <3>6. Link(q, k) # Link(q, 1)
      BY <1>1, <2>3, <3>1 DEF Link, IsRing, IsList
    <3> QED BY <1>6, <3>2, <3>3, <3>4, <3>5, <3>6
  <2> QED BY <2>1, <2>2, <2>3
<1>8. ASSUME NEW x \in Entries, \A k \in 1..Len(r) : r[k] # x
      PROVE  next'[x] \in {NULL, x}
  <2>1. x # e /\ \A k \in 1..Len(q) : q[k] # x
    <3>1. ASSUME NEW k \in 1..Len(q) PROVE q[k] # x
      <4>1. k + 1 \in 2..Len(r) /\ (k + 1) - 1 = k
        BY <1>1, <1>2
      <4> QED BY <1>2, <1>8, <4>1
    <3> QED BY <1>1, <1>2, <1>8, <3>1
  <2>2. next[x] \in {NULL, x} /\ x # head /\ x \in Nodes
    BY <2>1, EntriesAssumption DEF IsRing, Others, Nodes
  <2> QED BY <1>6, <2>1, <2>2
<1> QED BY <1>3, <1>7, <1>8 DEF IsRing, Linked, Others, r

\* No node is twice on a way around the ring.
LEMMA LinksApart ==
    ASSUME NEW q, IsRing(q)
    PROVE  /\ \A a, b \in 0..Len(q) : Link(q, a) = Link(q, b) => a = b
           /\ \A a, b \in 1..(Len(q) + 1) : Link(q, a) = Link(q, b) => a = b
<1>1. Len(q) \in Nat /\ \A k \in 1..Len(q) : q[k] \in Entries /\ q[k] # head
  BY RingFacts, EntriesAssumption
<1>2. \A i, j \in 1..Len(q) : q[i] = q[j] => i = j
  BY DEF IsRing, IsList
<1> QED BY <1>1, <1>2 DEF Link

LEMMA Removed ==
    ASSUME NEW T, NEW q \in Seq(T), NEW k \in 1..Len(q), NEW r, r = RemoveAt(q, k)
    PROVE  /\ r \in Seq(T) /\ Len(r) = Len(q) - 1
           /\ \A j \in 1..(k - 1) : r[j] = q[j]
           /\ \A j \in k..Len(r) : r[j] = q[j + 1]
<1> DEFINE a == SubSeq(q, 1, k - 1)
           b == SubSeq(q, k + 1, Len(q))
<1>1. Len(q) \in Nat /\ r = a \o b
  BY DEF RemoveAt
<1>2. /\ a \in Seq(T) /\ Len(a) = k - 1
      /\ \A j \in 1..(k - 1) : a[j] = q[j]
  BY <1>1
<1>3. /\ b \in Seq(T) /\ Len(b) = Len(q) - k
      /\ \A j \in 1..(Len(q) - k) : b[j] = q[k + j]
  BY <1>1
<1> HIDE DEF a, b
<1>4. r \in Seq(T) /\ Len(r) = Len(q) - 1
  BY <1>1, <1>2, <1>3
<1>5. ASSUME NEW j \in 1..(k - 1) PROVE r[j] = q[j]
  BY <1>1, <1>2, <1>3
<1>6. ASSUME NEW j \in k..Len(r) PROVE r[j] = q[j + 1]
  <2>1. r[j] = b[j - (k - 1)] /\ j - (k - 1) \in 1..(Len(q) - k)
    BY <1>1, <1>2, <1>3, <1>4
  <2>2. k + (j - (k - 1)) = j + 1
    BY <1>4
  <2> QED BY <1>3, <2>1, <2>2
<1> QED BY <1>4, <1>5, <1>6

LEMMA DelFromRing ==
    ASSUME TypeOK, NEW q, IsRing(q), NEW k \in 1..Len(q), list_del(q[k])
    PROVE  IsRing(RemoveAt(q, k))'
<1> DEFINE e == q[k]
<1>1. PICK r : r = RemoveAt(q, k)
  OBVIOUS
<1>2. Len(q) \in Nat /\ q \in Seq(Entries)
  BY RingFacts
<1>3. /\ r \in Seq(Entries) /\ Len(r) = Len(q) - 1 /\ Len(r) \in Nat
      /\ \A j \in 1..(k - 1) : r[j] = q[j]
      /\ \A j \in k..Len(r) : r[j] = q[j + 1]
  BY <1>1, <1>2, Removed
<1>4. IsList(r)
  <2>1. ASSUME NEW i \in 1..Len(r), NEW j \in 1..Len(r), r[i] = r[j] PROVE i = j
    <3>1. PICK a \in 1..Len(q) : r[i] = q[a] /\ a = IF i < k THEN i ELSE i + 1
      BY <1>2, <1>3
    <3>2. PICK b \in 1..Len(q) : r[j] = q[b] /\ b = IF j < k THEN j ELSE j + 1
      BY <1>2, <1>3
    <3>3. a = b
      BY <2>1, <3>1, <3>2 DEF IsRing, IsList
    <3> QED BY <1>3, <3>1, <3>2, <3>3
  <2> QED BY <1>3, <2>1 DEF IsList
<1>5. /\ \A j \in 0..(k - 1) : Link(r, j) = Link(q, j)
      /\ \A j \in k..(Len(r) + 1) : Link(r, j) = Link(q, j + 1)
  BY <1>2, <1>3 DEF Link
<1>6. /\ Link(q, k) = e /\ next[e] = Link(q, k + 1) /\ prev[e] = Link(q, k - 1)
  <2>1. Link(q, k) = e
    BY DEF Link
  <2>2. next[Link(q, k)] = Link(q, k + 1)
    BY <1>2, RingFacts
  <2>3. k - 1 \in 0..Len(q) /\ (k - 1) + 1 = k
    BY <1>2
  <2>4. prev[Link(q, k)] = Link(q, k - 1)
    BY <2>3, RingFacts
  <2> QED BY <2>1, <2>2, <2>4
<1>7. /\ next' = [next EXCEPT ![Link(q, k - 1)] = Link(q, k + 1), ![e] = e]
      /\ prev' = [prev EXCEPT ![Link(q, k + 1)] = Link(q, k - 1), ![e] = e]
      /\ next \in [Nodes -> Nodes \cup {NULL}] /\ prev \in [Nodes -> Nodes \cup {NULL}]
  BY <1>6 DEF TypeOK, list_del
<1> HIDE DEF e
<1>8. \A j \in 0..(Len(q) + 1) : Link(q, j) \in Nodes
  BY <1>2, RingFacts
<1>9. /\ \A a, b \in 0..Len(q) : Link(q, a) = Link(q, b) => a = b
      /\ \A a, b \in 1..(Len(q) + 1) : Link(q, a) = Link(q, b) => a = b
  BY LinksApart
<1>10. ASSUME NEW j \in 0..Len(r)
       PROVE  next'[Link(r, j)] = Link(r, j + 1) /\ prev'[Link(r, j + 1)] = Link(r, j)
  <2>1. CASE j < k - 1
    <3>1. j \in 0..Len(q) /\ j + 1 \in 1..Len(q) /\ k \in 0..Len(q) /\ k - 1 \in 0..Len(q)
          /\ k + 1 \in 1..(Len(q) + 1)
      BY <1>2, <2>1
    <3>2. Link(r, j) = Link(q, j) /\ Link(r, j + 1) = Link(q, j + 1)
      BY <1>2, <1>5, <2>1
    <3>3. next[Link(q, j)] = Link(q, j + 1) /\ prev[Link(q, j + 1)] = Link(q, j)
      BY <3>1, RingFacts
    <3>4. Link(q, j) # e /\ Link(q, j) # Link(q, k - 1)
      BY <1>6, <1>9, <2>1, <3>1
    <3>5. Link(q, j + 1) # e /\ Link(q, j + 1) # Link(q, k + 1)
      BY <1>6, <1>9, <2>1, <3>1
    <3> QED BY <1>7, <1>8, <3>1, <3>2, <3>3, <3>4, <3>5
  <2>2. CASE j = k - 1
    <3>1. k - 1 \in 0..Len(q) /\ k \in 0..Len(q) /\ k \in 1..(Len(q) + 1)
          /\ k + 1 \in 1..(Len(q) + 1)
      BY <1>2
    <3>2. Link(r, j) = Link(q, k - 1) /\ Link(r, j + 1) = Link(q, k + 1)
      BY <1>2, <1>3, <1>5, <2>2
    <3>3. Link(q, k - 1) # e /\ Link(q, k + 1) # e
      BY <1>6, <1>9, <3>1
    <3> QED BY <1>7, <1>8, <3>1, <3>2, <3>3
  <2>3. CASE j >= k
    <3>1. j + 1 \in 0..Len(q) /\ j + 1 \in 1..(Len(q) + 1) /\ k \in 0..Len(q)
          /\ k - 1 \in 0..Len(q) /\ k + 1 \in 1..(Len(q) + 1)
          /\ (j + 1) + 1 \in 1..(Len(q) + 1) /\ k \in 1..(Len(q) + 1)
      BY <1>2, <1>3, <2>3
    <3>2. Link(r, j) = Link(q, j + 1) /\ Link(r, j + 1) = Link(q, (j + 1) + 1)
      BY <1>2, <1>3, <1>5, <2>3
    <3>3. next[Link(q, j + 1)] = Link(q, (j + 1) + 1) /\ prev[Link(q, (j + 1) + 1)] = Link(q, j + 1)
      BY <3>1, RingFacts
    <3>4. Link(q, j + 1) # e /\ Link(q, j + 1) # Link(q, k - 1)
      BY <1>6, <1>9, <2>3, <3>1
    <3>5. Link(q, (j + 1) + 1) # e /\ Link(q, (j + 1) + 1) # Link(q, k + 1)
      BY <1>6, <1>9, <2>3, <3>1
    <3> QED BY <1>7, <1>8, <3>1, <3>2, <3>3, <3>4, <3>5
  <2> QED BY <1>2, <1>3, <2>1, <2>2, <2>3
<1>11. ASSUME NEW x \in Entries, \A j \in 1..Len(r) : r[j] # x
       PROVE  next'[x] \in {NULL, x}
  <2>1. x \in Nodes /\ x # head
    BY EntriesAssumption DEF Nodes
  <2>2. CASE x = e
    BY <1>7, <2>1, <2>2
  <2>3. CASE x # e
    <3>1. ASSUME NEW j \in 1..Len(q) PROVE q[j] # x
      <4>1. CASE j < k
        BY <1>2, <1>3, <1>11, <4>1
      <4>2. CASE j = k
        BY <2>3, <4>2 DEF e
      <4>3. CASE j > k
        <5>1. j - 1 \in k..Len(r) /\ (j - 1) + 1 = j /\ j - 1 \in 1..Len(r)
          BY <1>2, <1>3, <4>3
        <5> QED BY <1>3, <1>11, <5>1
      <4> QED BY <1>2, <4>1, <4>2, <4>3
    <3>2. next[x] \in {NULL, x}
      BY <3>1 DEF IsRing, Others
    <3>3. Link(q, k - 1) # x
      BY <1>2, <2>1, <3>1 DEF Link
    <3> QED BY <1>7, <2>1, <2>3, <3>2, <3>3
  <2> QED BY <2>2, <2>3
<1> QED BY <1>1, <1>4, <1>10, <1>11 DEF IsRing, Linked, Others

-----------------------------------------------------------------------------
(***************************************************************************)
(* Next and prev always make a ring, and what a walk over it visits is a   *)
(* sequence that changes as EntrySequence allows.                          *)
(***************************************************************************)
RingInv == TypeOK /\ \E q : IsRing(q)
WalkReads == \A q : IsRing(q) => Forward = q

LEMMA RingInit == Init => IsRing(<<>>)
<1> SUFFICES ASSUME Init PROVE IsRing(<<>>)
  OBVIOUS
<1>1. next = [n \in Nodes |-> IF n = head THEN head ELSE NULL] /\ prev = next
      /\ head \in Nodes
  BY DEF Init, Nodes
<1>2. Linked(<<>>)
  BY <1>1 DEF Linked, Link
<1>3. Others(<<>>)
  BY <1>1, EntriesAssumption DEF Others, Nodes
<1> QED BY <1>2, <1>3 DEF IsRing, IsList

LEMMA RingStays ==
    ASSUME NEW q, IsRing(q), UNCHANGED links
    PROVE  IsRing(q)'
BY DEF IsRing, IsList, Linked, Others, Link, links

\* A step of the list is one of the sequence.
LEMMA SequenceStep ==
    ASSUME TypeOK, WalkReads, WalkReads', NEW q, IsRing(q), [Next]_links
    PROVE  /\ \E r : IsRing(r)'
           /\ [Sequence!Next]_Forward
<1>1. Forward = q
  BY DEF WalkReads
<1>2. ASSUME NEW e \in Entries, list_add(e)
      PROVE  (\E r : IsRing(r)') /\ Sequence!Next
  <2>1. IsRing(<<e>> \o q)'
    BY <1>2, AddToRing
  <2>2. PICK r : r = <<e>> \o q
    OBVIOUS
  <2>3. IsRing(r)' /\ Forward' = r
    BY <2>1, <2>2 DEF WalkReads
  <2>4. \A k \in 1..Len(q) : q[k] # e
    BY <1>2, ListedInRing DEF list_add
  <2>5. e \notin Range(q) /\ DOMAIN q = 1..Len(q)
    BY <2>4, RingFacts DEF Range
  <2>6. Sequence!Add(e)
    BY <1>1, <2>2, <2>3, <2>5 DEF Sequence!Add, Sequence!Range, Range
  <2> QED BY <2>3, <2>6 DEF Sequence!Next
<1>3. ASSUME NEW e \in Entries, list_del(e)
      PROVE  (\E r : IsRing(r)') /\ Sequence!Next
  <2>1. PICK k \in 1..Len(q) : q[k] = e
    BY <1>3, ListedInRing DEF list_del
  <2>2. IsRing(RemoveAt(q, k))'
    BY <1>3, <2>1, DelFromRing
  <2>3. PICK r : r = RemoveAt(q, k)
    OBVIOUS
  <2>4. IsRing(r)' /\ Forward' = r
    BY <2>2, <2>3 DEF WalkReads
  <2>5. DOMAIN q = 1..Len(q) /\ r = Sequence!RemoveAt(q, k)
    BY <2>3, RingFacts DEF Sequence!RemoveAt, RemoveAt
  <2>6. Sequence!Del(e)
    BY <1>1, <2>1, <2>4, <2>5 DEF Sequence!Del
  <2> QED BY <2>4, <2>6 DEF Sequence!Next
<1>4. ASSUME UNCHANGED links
      PROVE  (\E r : IsRing(r)') /\ Forward' = Forward
  <2>1. IsRing(q)'
    BY <1>4, RingStays
  <2> QED BY <1>1, <2>1 DEF WalkReads
<1> QED BY <1>2, <1>3, <1>4 DEF Next

(***************************************************************************)
(* What list_for_each_entry visits is a sequence without repetitions, to   *)
(* which list_add adds in front and from which list_del takes one entry:   *)
(* what the tracker is modelled with, for every set of entries.            *)
(***************************************************************************)
THEOREM ListImplementsSequence == Spec => ImplementsSequence
<1>1. WalkReads
  BY ForwardIsRing DEF WalkReads
<1>2. Init => RingInv
  <2>1. Init => TypeOK
    BY ListInvInit DEF ListInv
  <2> QED BY <2>1, RingInit DEF RingInv
<1>3. RingInv /\ TypeOK' /\ WalkReads /\ WalkReads' /\ [Next]_links
      => RingInv' /\ [Sequence!Next]_Forward
  BY SequenceStep DEF RingInv
<1>4. Init /\ WalkReads => Sequence!Init
  BY RingInit DEF WalkReads, Sequence!Init
<1>5. Spec => []TypeOK
  BY LinksAlwaysAgree, PTL
<1> QED BY <1>1, <1>2, <1>3, <1>4, <1>5, PTL DEF Spec, ImplementsSequence, Sequence!Spec

(***************************************************************************)
(* Type correctness of the list: the links of a node lead to nodes, or     *)
(* both of them are NULL, as list_del leaves them and as they are before   *)
(* list_add.                                                               *)
(***************************************************************************)
THEOREM ListTypeCorrect == Spec => []TypeOK
BY LinksAlwaysAgree, PTL
=============================================================================
