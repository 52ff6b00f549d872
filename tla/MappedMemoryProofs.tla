------------------------- MODULE MappedMemoryProofs -------------------------
(***************************************************************************)
(* What the lookups of MappedMemory return, for every list of records, and *)
(* what list_add and list_del make of a list.                              *)
(***************************************************************************)
EXTENDS MappedMemory, SequenceTheorems, WellFoundedInduction, TLAPS

\* A nonempty set of natural numbers has a least element, which Min returns.
LEMMA MinOfNats ==
    ASSUME NEW S \in SUBSET Nat, S # {}
    PROVE  Min(S) \in S /\ \A y \in S : Min(S) <= y
<1>1. PICK x \in S : \A y \in S : <<y, x>> \notin OpToRel(<, Nat)
  BY WFMin, NatLessThanWellFounded
<1>2. ASSUME NEW y \in S PROVE x <= y
  <2>1. SUFFICES ASSUME ~(x <= y) PROVE FALSE
    OBVIOUS
  <2>2. y < x
    BY <2>1
  <2>3. <<y, x>> \in OpToRel(<, Nat)
    BY <2>2 DEF OpToRel
  <2> QED BY <1>1, <2>3
<1>3. \E z \in S : \A y \in S : z <= y
  BY <1>2
<1> QED BY <1>3 DEF Min

\* Induction: a set of natural numbers that has 0 and with each number the next.
LEMMA Induct ==
    ASSUME NEW S \in SUBSET Nat, 0 \in S, \A n \in S : n + 1 \in S
    PROVE  S = Nat
<1> SUFFICES ASSUME Nat \ S # {} PROVE FALSE
  OBVIOUS
<1>1. PICK x \in Nat \ S : \A y \in Nat \ S : x <= y
  BY MinOfNats
<1>2. x - 1 \in Nat /\ x - 1 \notin S
  <2>1. x - 1 \in Nat
    BY <1>1
  <2>2. x = (x - 1) + 1
    BY <1>1
  <2> QED BY <1>1, <2>1, <2>2
<1> QED BY <1>1, <1>2

\* What a search returns that takes the least of the positions I that match.
LEMMA FirstOf ==
    ASSUME NEW n \in Nat, NEW I \in SUBSET (1..n),
           NEW i, i = IF I # {} THEN Min(I) ELSE 0
    PROVE  /\ i \in 0..n
           /\ i = 0 => I = {}
           /\ i # 0 => i \in I /\ \A j \in 1..(i - 1) : j \notin I
<1>1. CASE I = {}
  BY <1>1
<1>2. CASE I # {}
  <2>1. i \in I /\ \A j \in I : i <= j
    BY <1>2, MinOfNats
  <2>2. \A j \in 1..(i - 1) : ~(i <= j)
    BY <2>1
  <2> QED BY <2>1, <2>2
<1> QED BY <1>1, <1>2

-----------------------------------------------------------------------------
(***************************************************************************)
(* The searches.                                                           *)
(***************************************************************************)
\* find_mapped_mem returns the first record that starts at the address, NULL
\* when none does.
LEMMA FindMappedMemSpec ==
    ASSUME NEW T, NEW mm \in Seq(T), NEW addr,
           NEW i, i = FindMappedMem(mm, addr)
    PROVE  /\ i \in 0..Len(mm)
           /\ i = 0 => \A j \in 1..Len(mm) : mm[j].addr # addr
           /\ i # 0 => /\ mm[i].addr = addr
                       /\ \A j \in 1..(i - 1) : mm[j].addr # addr
<1> DEFINE I == {j \in 1..Len(mm) : mm[j].addr = addr}
<1>1. i = IF I # {} THEN Min(I) ELSE 0
  BY DEF FindMappedMem, SelectInSeq
<1>2. Len(mm) \in Nat /\ I \in SUBSET (1..Len(mm))
  OBVIOUS
<1>3. /\ i \in 0..Len(mm)
      /\ i = 0 => I = {}
      /\ i # 0 => i \in I /\ \A j \in 1..(i - 1) : j \notin I
  <2> HIDE DEF I
  <2> QED BY <1>1, <1>2, FirstOf
<1> QED BY <1>3

\* find_mapped_mem_containing, likewise.
LEMMA FindMappedMemContainingSpec ==
    ASSUME NEW T, NEW mm \in Seq(T), NEW addr,
           NEW i, i = FindMappedMemContaining(mm, addr)
    PROVE  /\ i \in 0..Len(mm)
           /\ i = 0 => \A j \in 1..Len(mm) :
                ~(mm[j].addr <= addr /\ addr <= mm[j].addr + mm[j].length)
           /\ i # 0 =>
                /\ mm[i].addr <= addr /\ addr <= mm[i].addr + mm[i].length
                /\ \A j \in 1..(i - 1) :
                     ~(mm[j].addr <= addr /\ addr <= mm[j].addr + mm[j].length)
<1> DEFINE I == {j \in 1..Len(mm) : /\ mm[j].addr <= addr
                                    /\ addr <= mm[j].addr + mm[j].length}
<1>1. i = IF I # {} THEN Min(I) ELSE 0
  BY DEF FindMappedMemContaining, SelectInSeq
<1>2. Len(mm) \in Nat /\ I \in SUBSET (1..Len(mm))
  OBVIOUS
<1>3. /\ i \in 0..Len(mm)
      /\ i = 0 => I = {}
      /\ i # 0 => i \in I /\ \A j \in 1..(i - 1) : j \notin I
  <2> HIDE DEF I
  <2> QED BY <1>1, <1>2, FirstOf
<1> QED BY <1>3

\* find_gpu_mapped_mem, likewise.
LEMMA FindGpuMappedMemSpec ==
    ASSUME NEW T, NEW mm \in Seq(T), NEW gpu,
           NEW i, i = FindGpuMappedMem(mm, gpu)
    PROVE  /\ i \in 0..Len(mm)
           /\ i = 0 => \A j \in 1..Len(mm) :
                ~(mm[j].gpu_va <= gpu /\ gpu <= mm[j].gpu_va + mm[j].length)
           /\ i # 0 => /\ mm[i].gpu_va <= gpu
                       /\ gpu <= mm[i].gpu_va + mm[i].length
<1> DEFINE I == {j \in 1..Len(mm) : /\ mm[j].gpu_va <= gpu
                                    /\ gpu <= mm[j].gpu_va + mm[j].length}
<1>1. i = IF I # {} THEN Min(I) ELSE 0
  BY DEF FindGpuMappedMem, SelectInSeq
<1>2. Len(mm) \in Nat /\ I \in SUBSET (1..Len(mm))
  OBVIOUS
<1>3. i \in 0..Len(mm) /\ (i = 0 => I = {}) /\ (i # 0 => i \in I)
  <2> HIDE DEF I
  <2> QED BY <1>1, <1>2, FirstOf
<1> QED BY <1>3

\* The pointer fetch_mapped_gpu returns lies in a record that holds the GPU
\* address and the whole size, at the same distance from its start.
LEMMA FetchSpec ==
    ASSUME NEW T, NEW mm \in Seq(T), NEW gpu, NEW sz,
           NEW a \in FetchMappedGpu(mm, gpu, sz)
    PROVE  \E i \in 1..Len(mm) :
             /\ gpu # 0 /\ mm[i].gpu_va <= gpu
             /\ gpu <= mm[i].gpu_va + mm[i].length
             /\ ~(gpu - mm[i].gpu_va + sz > mm[i].length)
             /\ a = mm[i].addr + (gpu - mm[i].gpu_va)
<1> DEFINE i == FindGpuMappedMem(mm, gpu)
<1>1. /\ gpu # 0 /\ i # 0
      /\ ~(gpu - mm[i].gpu_va + sz > mm[i].length)
      /\ a = mm[i].addr + (gpu - mm[i].gpu_va)
  <2>1. FetchMappedGpu(mm, gpu, sz) =
          IF gpu = 0 \/ i = 0 THEN {}
          ELSE IF gpu - mm[i].gpu_va + sz > mm[i].length THEN {}
          ELSE {mm[i].addr + (gpu - mm[i].gpu_va)}
    BY DEF FetchMappedGpu
  <2> HIDE DEF i
  <2> QED BY <2>1
<1>2. i \in 1..Len(mm) /\ mm[i].gpu_va <= gpu /\ gpu <= mm[i].gpu_va + mm[i].length
  <2>1. i \in 0..Len(mm) /\ (i # 0 => /\ mm[i].gpu_va <= gpu
                                      /\ gpu <= mm[i].gpu_va + mm[i].length)
    BY FindGpuMappedMemSpec
  <2> HIDE DEF i
  <2> QED BY <1>1, <2>1
<1> QED BY <1>1, <1>2

\* fetch_mapped_gpu finds what a record holds in full when every record that
\* reaches the address holds it in full.
LEMMA FetchFinds ==
    ASSUME NEW T, NEW mm \in Seq(T), NEW gpu, NEW sz, gpu # 0,
           \E j \in 1..Len(mm) : /\ mm[j].gpu_va <= gpu
                                 /\ gpu <= mm[j].gpu_va + mm[j].length,
           \A j \in 1..Len(mm) :
             mm[j].gpu_va <= gpu /\ gpu <= mm[j].gpu_va + mm[j].length
               => ~(gpu - mm[j].gpu_va + sz > mm[j].length)
    PROVE  FetchMappedGpu(mm, gpu, sz) # {}
<1> DEFINE i == FindGpuMappedMem(mm, gpu)
<1>1. /\ i \in 0..Len(mm)
      /\ i = 0 => \A j \in 1..Len(mm) :
           ~(mm[j].gpu_va <= gpu /\ gpu <= mm[j].gpu_va + mm[j].length)
      /\ i # 0 => /\ mm[i].gpu_va <= gpu
                  /\ gpu <= mm[i].gpu_va + mm[i].length
  BY FindGpuMappedMemSpec
<1>2. FetchMappedGpu(mm, gpu, sz) =
        IF gpu = 0 \/ i = 0 THEN {}
        ELSE IF gpu - mm[i].gpu_va + sz > mm[i].length THEN {}
        ELSE {mm[i].addr + (gpu - mm[i].gpu_va)}
  BY DEF FetchMappedGpu
<1> HIDE DEF i
<1>3. i \in 1..Len(mm)
  BY <1>1
<1> QED BY <1>1, <1>2, <1>3

-----------------------------------------------------------------------------
(***************************************************************************)
(* list_add and list_del.                                                  *)
(***************************************************************************)
\* list_del of the i-th record: those behind it move up.
LEMMA RemoveAtElements ==
    ASSUME NEW T, NEW s \in Seq(T), NEW i \in 1..Len(s)
    PROVE  /\ RemoveAt(s, i) \in Seq(T)
           /\ Len(RemoveAt(s, i)) = Len(s) - 1
           /\ \A j \in 1..(Len(s) - 1) :
                RemoveAt(s, i)[j] = IF j < i THEN s[j] ELSE s[j + 1]
<1> DEFINE front == SubSeq(s, 1, i - 1)
           back  == SubSeq(s, i + 1, Len(s))
<1>1. /\ front \in Seq(T) /\ Len(front) = i - 1
      /\ \A j \in 1..(i - 1) : front[j] = s[j]
  BY SubSeqProperties, LenProperties
<1>2. /\ back \in Seq(T) /\ Len(back) = Len(s) - i
      /\ \A j \in 1..(Len(s) - i) : back[j] = s[i + j]
  <2>1. \A j \in 1..(Len(s) - i) : i + j = (i + 1) + j - 1
    BY LenProperties
  <2> QED BY <2>1, SubSeqProperties, LenProperties
<1>3. RemoveAt(s, i) = front \o back
  BY DEF RemoveAt
<1> HIDE DEF front, back
<1>4. /\ front \o back \in Seq(T)
      /\ Len(front \o back) = Len(s) - 1
  BY <1>1, <1>2, ConcatProperties, LenProperties
<1>5. ASSUME NEW j \in 1..(Len(s) - 1)
      PROVE  (front \o back)[j] = IF j < i THEN s[j] ELSE s[j + 1]
  <2>1. (front \o back)[j] = IF j <= Len(front) THEN front[j]
                                               ELSE back[j - Len(front)]
    BY <1>1, <1>2, ConcatProperties, LenProperties
  <2>2. CASE j < i
    BY <1>1, <2>1, <2>2, LenProperties
  <2>3. CASE ~(j < i)
    <3>1. j - (i - 1) \in 1..(Len(s) - i) /\ ~(j <= i - 1)
          /\ i + (j - (i - 1)) = j + 1
      BY <2>3, LenProperties
    <3> QED BY <1>1, <1>2, <2>1, <2>3, <3>1
  <2> QED BY <2>2, <2>3
<1> QED BY <1>3, <1>4, <1>5

\* list_add: the new record is the first, the others move down.
LEMMA ConsElements ==
    ASSUME NEW T, NEW s \in Seq(T), NEW e \in T
    PROVE  /\ Cons(e, s) \in Seq(T)
           /\ Len(Cons(e, s)) = Len(s) + 1
           /\ \A j \in 1..(Len(s) + 1) :
                Cons(e, s)[j] = IF j = 1 THEN e ELSE s[j - 1]
<1>1. <<e>> \in Seq(T) /\ Len(<<e>>) = 1 /\ <<e>>[1] = e
  OBVIOUS
<1>2. Cons(e, s) = <<e>> \o s
  BY DEF Cons
<1>3. /\ <<e>> \o s \in Seq(T)
      /\ Len(<<e>> \o s) = Len(s) + 1
      /\ \A j \in 1..(Len(s) + 1) :
           (<<e>> \o s)[j] = IF j <= 1 THEN <<e>>[j] ELSE s[j - 1]
  BY <1>1, ConcatProperties, LenProperties
<1> QED BY <1>1, <1>2, <1>3, LenProperties
=============================================================================
