----------------------------- MODULE CbmaProofs -----------------------------
(***************************************************************************)
(* Proofs about Cbma: galloc implements Allocator for every size of the    *)
(* pool, wherever the kernel maps it, and for every sequence of requests   *)
(* whose costs fit.                                                        *)
(***************************************************************************)
EXTENDS Cbma, TLAPS

(***************************************************************************)
(* The last block ends in the slot that starts at base + spent, and no     *)
(* block reaches past it.                                                  *)
(***************************************************************************)
Accounts ==
    /\ base = 0 => cbma_bottom = 0 /\ blocks = <<>> /\ spent = 0
    /\ base # 0 => /\ cbma_bottom - (cbma_bottom % Slot) = base + spent
                   /\ cbma_bottom < base + PoolSize
    /\ spent % Slot = 0

Behind ==
    \A i \in DOMAIN blocks :
        base <= blocks[i].addr /\ blocks[i].addr + blocks[i].size <= cbma_bottom

CbmaInv == TypeOK /\ Accounts /\ Behind

(***************************************************************************)
(* Rounding down to a slot, as galloc's mask 0xFFFFFC00 does.              *)
(***************************************************************************)
LEMMA Rounding ==
    ASSUME NEW a \in Nat
    PROVE  /\ a - (a % Slot) \in Nat /\ a - (a % Slot) <= a
           /\ a < a - (a % Slot) + Slot
           /\ (a - (a % Slot)) % Slot = 0
BY DEF Slot

\* A slot's start plus n rounds down to the slot's start plus n rounded down.
LEMMA RoundingSum ==
    ASSUME NEW a \in Nat, NEW n \in Nat, a % Slot = 0
    PROVE  /\ (a + n) - ((a + n) % Slot) = a + (n - (n % Slot))
           /\ (a + Slot) % Slot = 0
BY DEF Slot

\* Sums of whole slots are whole slots.
LEMMA SlotsSum ==
    ASSUME NEW a \in Nat, NEW n \in Nat, a % Slot = 0, n % Slot = 0
    PROVE  (a + n) % Slot = 0
<1>1. n - (n % Slot) = n
  OBVIOUS
<1>2. (a + n) - ((a + n) % Slot) = a + n
  BY <1>1, RoundingSum
<1>3. (a + n) % Slot \in Nat
  BY DEF Slot
<1> QED BY <1>2, <1>3

(***************************************************************************)
(* What one galloc that the caller can afford does: its block starts in    *)
(* the slot after the last block's end, and no sum wraps.                  *)
(***************************************************************************)
LEMMA OneBlock ==
    ASSUME TypeOK, Accounts, NEW sz \in Sizes, Affordable(sz)
    PROVE  /\ NextBlock(cbma_bottom) = base + spent + Slot
           /\ cbma_bottom < NextBlock(cbma_bottom)
           /\ (NextBlock(cbma_bottom) + sz) % Word = NextBlock(cbma_bottom) + sz
           /\ NextBlock(cbma_bottom) + sz < base + PoolSize
           /\ NextBlock(cbma_bottom) % Slot = 0
           /\ base \in Nat /\ base + PoolSize <= Word
           /\ sz \in Nat /\ Cost(sz) \in Nat /\ Cost(sz) % Slot = 0
<1> DEFINE room == PoolSize - Slot - spent
<1>1. /\ sz \in Nat /\ base \in Nat /\ base % Slot = 0 /\ spent \in Nat
      /\ base + PoolSize <= Word /\ Word \in Nat /\ PoolSize \in Nat
      /\ cbma_bottom \in Nat /\ spent % Slot = 0
      /\ cbma_bottom - (cbma_bottom % Slot) = base + spent
      /\ Slot + spent + Cost(sz) <= PoolSize
  BY PoolAssumption DEF TypeOK, Accounts, Affordable
<1>2. Cost(sz) \in Nat /\ sz < Cost(sz) /\ Cost(sz) % Slot = 0
  <2>1. sz - (sz % Slot) \in Nat /\ (sz - (sz % Slot)) % Slot = 0
        /\ sz < sz - (sz % Slot) + Slot
    BY <1>1, Rounding
  <2> QED BY <2>1, RoundingSum DEF Cost, Slot
<1>3. cbma_bottom < base + spent + Slot
  BY <1>1, Rounding
<1>4. base + spent + Slot \in 0..(Word - 1)
  BY <1>1, <1>2 DEF Slot
<1>5. NextBlock(cbma_bottom) = base + spent + Slot
  BY <1>1, <1>4 DEF NextBlock
<1>6. base + spent + Slot + sz \in 0..(Word - 1)
      /\ base + spent + Slot + sz < base + PoolSize
  BY <1>1, <1>2 DEF Slot
<1>7. (base + spent + Slot) % Slot = 0
  BY <1>1 DEF Slot
<1> QED BY <1>1, <1>2, <1>3, <1>5, <1>6, <1>7

LEMMA CbmaInvInit == Init => CbmaInv
<1> SUFFICES ASSUME Init PROVE CbmaInv
  OBVIOUS
<1>1. TypeOK
  BY PoolAssumption DEF Init, TypeOK
<1>2. Accounts /\ Behind
  BY DEF Init, Accounts, Behind, Slot
<1> QED BY <1>1, <1>2 DEF CbmaInv

LEMMA CbmaInvNext == CbmaInv /\ [Next]_cbma => CbmaInv'
<1> SUFFICES ASSUME CbmaInv, [Next]_cbma PROVE CbmaInv'
  OBVIOUS
<1>1. CASE InitCbma
  <2> DEFINE b == base'
  <2>1. b \in Bases /\ cbma_bottom' = b /\ blocks' = <<>> /\ spent' = 0
    BY <1>1 DEF InitCbma, CbmaInv, Accounts
  <2> HIDE DEF b
  <2>a. /\ b \in Nat \ {0} /\ b + PoolSize <= Word
        /\ PoolSize \in Nat \ {0} /\ Word \in Nat
    BY <2>1, PoolAssumption
  <2>b. b % Slot = 0
    BY <2>1, PoolAssumption
  <2>2. TypeOK'
    <3>1. b \in 0..(Word - 1)
      BY <2>a
    <3>2. <<>> \in Seq(Block)
      OBVIOUS
    <3> QED BY <2>1, <3>1, <3>2 DEF TypeOK, b
  <2>3. Accounts'
    <3>1. b - (b % Slot) = b + 0 /\ b < b + PoolSize /\ 0 % Slot = 0
      BY <2>a, <2>b DEF Slot
    <3> QED BY <2>1, <2>a, <3>1 DEF Accounts, b
  <2>4. Behind'
    BY <2>1 DEF Behind
  <2> QED BY <2>2, <2>3, <2>4 DEF CbmaInv
<1>2. ASSUME NEW sz \in Sizes, Affordable(sz), Galloc(sz) PROVE CbmaInv'
  <2> DEFINE addr == NextBlock(cbma_bottom)
  <2>1. /\ addr = base + spent + Slot /\ cbma_bottom < addr
        /\ (addr + sz) % Word = addr + sz /\ addr + sz < base + PoolSize
        /\ base \in Nat /\ base + PoolSize <= Word
        /\ sz \in Nat /\ Cost(sz) \in Nat
    BY <1>2, OneBlock DEF CbmaInv
  <2>m. addr % Slot = 0 /\ Cost(sz) % Slot = 0
    BY <1>2, OneBlock DEF CbmaInv
  <2>2. /\ cbma_bottom' = addr + sz /\ spent' = spent + Cost(sz) /\ base' = base
        /\ blocks' = Append(blocks, [addr |-> addr, size |-> sz])
    BY <1>2, <2>1 DEF Galloc
  <2> HIDE DEF addr
  <2>3. spent \in Nat /\ spent % Slot = 0 /\ base # 0 /\ cbma_bottom \in Nat
        /\ blocks \in Seq(Block) /\ base \in Bases
        /\ PoolSize \in Nat /\ Word \in Nat
    BY <1>2, PoolAssumption DEF CbmaInv, TypeOK, Accounts, Affordable
  <2>4. addr \in Nat /\ [addr |-> addr, size |-> sz] \in Block
    BY <2>1, <2>3 DEF Slot, Block
  <2>n. addr \in Nat /\ base < addr /\ addr + sz \in 0..(Word - 1)
    BY <2>1, <2>3 DEF Slot
  <2>5. TypeOK'
    <3>1. spent + Cost(sz) \in Nat
      BY <2>1, <2>3 DEF Slot
    <3> QED BY <2>2, <2>3, <2>4, <2>n, <3>1 DEF TypeOK
  <2>6. Accounts'
    <3>1. (addr + sz) - ((addr + sz) % Slot) = addr + (sz - (sz % Slot))
      BY <2>1, <2>m, <2>n, RoundingSum
    <3>2. addr + (sz - (sz % Slot)) = base + spent + Cost(sz)
      BY <2>1, <2>3 DEF Cost, Slot
    <3>3. (spent + Cost(sz)) % Slot = 0
      BY <2>1, <2>m, <2>3, SlotsSum
    <3>4. cbma_bottom' - (cbma_bottom' % Slot) = base' + spent'
      <4>1. base + spent + Cost(sz) = base + (spent + Cost(sz))
        BY <2>1, <2>3
      <4> QED BY <2>2, <3>1, <3>2, <4>1
    <3>5. cbma_bottom' < base' + PoolSize /\ spent' % Slot = 0 /\ base' # 0
      BY <2>1, <2>2, <2>3, <3>3
    <3> QED BY <3>4, <3>5 DEF Accounts
  <2>7. Behind'
    <3> SUFFICES ASSUME NEW i \in DOMAIN blocks'
                 PROVE  /\ base' <= blocks'[i].addr
                        /\ blocks'[i].addr + blocks'[i].size <= cbma_bottom'
      BY DEF Behind
    <3>1. CASE i \in DOMAIN blocks
      <4>1. blocks'[i] = blocks[i] /\ blocks[i] \in Block
        BY <2>2, <2>3, <3>1
      <4>2. /\ base <= blocks[i].addr
            /\ blocks[i].addr + blocks[i].size <= cbma_bottom
        BY <3>1 DEF CbmaInv, Behind
      <4>3. cbma_bottom < addr + sz
        <5>1. cbma_bottom \in Nat /\ addr \in Nat /\ sz \in Nat /\ cbma_bottom < addr
          BY <2>1, <2>3, <2>n
        <5> QED BY ONLY <5>1
      <4> QED BY <4>1, <4>2, <4>3, <2>2, <2>3, <2>n DEF Block
    <3>2. CASE i \notin DOMAIN blocks
      <4>1. i = Len(blocks) + 1
        BY <2>2, <2>3, <3>2
      <4>2. blocks'[i] = [addr |-> addr, size |-> sz]
        BY <4>1, <2>2, <2>3
      <4> QED BY <4>2, <2>1, <2>2, <2>n
    <3> QED BY <3>1, <3>2
  <2> QED BY <2>5, <2>6, <2>7 DEF CbmaInv
<1>3. CASE UNCHANGED cbma
  BY <1>3 DEF cbma, CbmaInv, TypeOK, Accounts, Behind
<1> QED BY <1>1, <1>2, <1>3 DEF Next

(***************************************************************************)
(* Type correctness of the allocator; with CbmaInv, cbma_bottom never      *)
(* wraps around.                                                           *)
(***************************************************************************)
THEOREM CbmaTypeCorrect == Spec => []TypeOK
<1>1. CbmaInv => TypeOK
  BY DEF CbmaInv
<1> QED BY <1>1, CbmaInvInit, CbmaInvNext, PTL DEF Spec

(***************************************************************************)
(* galloc hands out disjoint blocks of the pool, as long as their costs    *)
(* fit into it.                                                            *)
(***************************************************************************)
THEOREM CbmaImplementsAllocator == Spec => ImplementsAllocator
<1> DEFINE area == IF base = 0 THEN {} ELSE base..(base + PoolSize - 1)
<1>1. Init => Alloc!Init
  BY DEF Init, Alloc!Init
<1>2. CbmaInv /\ [Next]_cbma => [Alloc!Next]_<<area, blocks>>
  <2> SUFFICES ASSUME CbmaInv, [Next]_cbma
               PROVE  [Alloc!Next]_<<area, blocks>>
    OBVIOUS
  <2>1. CASE InitCbma
    <3>1. /\ base' \in Nat \ {0} /\ PoolSize \in Nat /\ base = 0
          /\ UNCHANGED blocks
      BY <2>1, PoolAssumption DEF InitCbma
    <3>2. blocks = <<>>
      BY <3>1 DEF CbmaInv, Accounts
    <3>3. \A x \in area' : x \in Nat
      BY <3>1
    <3> QED BY <3>1, <3>2, <3>3 DEF Alloc!Next, Alloc!Attach
  <2>2. ASSUME NEW sz \in Sizes, Affordable(sz), Galloc(sz)
        PROVE  Alloc!Allocate
    <3> DEFINE addr == NextBlock(cbma_bottom)
               b == [addr |-> addr, size |-> sz]
    <3>1. /\ addr = base + spent + Slot /\ cbma_bottom < addr
          /\ addr + sz < base + PoolSize
          /\ base \in Nat /\ sz \in Nat
      BY <2>2, OneBlock DEF CbmaInv
    <3>2. blocks' = Append(blocks, b) /\ base' = base /\ base # 0
      BY <2>2 DEF Galloc, Affordable
    <3>3. /\ blocks \in Seq(Block) /\ spent \in Nat /\ PoolSize \in Nat
          /\ cbma_bottom \in Nat
      BY PoolAssumption DEF CbmaInv, TypeOK
    <3> HIDE DEF addr
    <3>4. b \in Alloc!Block /\ addr \in Nat
      BY <3>1, <3>3 DEF Alloc!Block, Slot
    <3>5. Len(blocks') = Len(blocks) + 1 /\ blocks'[Len(blocks) + 1] = b
      BY <3>2, <3>3, <3>4 DEF Block, Alloc!Block
    <3>6. Alloc!Extent(b) \subseteq area
      BY <3>1, <3>2, <3>3, <3>4 DEF Alloc!Extent, Slot
    <3>7. ASSUME NEW i \in DOMAIN blocks
          PROVE  Alloc!Before(blocks[i], b)
      <4>1. blocks[i] \in Block
            /\ blocks[i].addr + blocks[i].size <= cbma_bottom
        BY <3>3, <3>7 DEF CbmaInv, Behind
      <4> QED BY <4>1, <3>1, <3>3, <3>4 DEF Alloc!Before, Block
    <3>8. Alloc!Free(b)
      BY <3>6, <3>7 DEF Alloc!Free
    <3> QED BY <3>2, <3>4, <3>5, <3>8 DEF Alloc!Allocate
  <2>3. CASE UNCHANGED cbma
    BY <2>3 DEF cbma
  <2> QED BY <2>1, <2>2, <2>3 DEF Next, Alloc!Next
<1> QED BY <1>1, <1>2, CbmaInvInit, CbmaInvNext, PTL
     DEF Spec, ImplementsAllocator, Alloc!Spec
=============================================================================
