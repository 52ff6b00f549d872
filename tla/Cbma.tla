-------------------------------- MODULE Cbma --------------------------------
(***************************************************************************)
(* CBMA, the allocator of driver/memory.c: init_cbma maps one region of    *)
(* the GPU, galloc hands out consecutive blocks of it, gfree does nothing. *)
(* Addresses are uint32_t, so sums wrap at Word; the code checks neither   *)
(* the end of the pool nor the wrap.  cbma_top is written once, by         *)
(* init_cbma, and never read.                                              *)
(***************************************************************************)
EXTENDS Integers, Sequences

CONSTANTS Word,      \* 2^32
          PoolSize,  \* CBMA_PAGES << PAGE_SHIFT
          Bases,     \* where the kernel may map the pool
          Sizes      \* what callers ask of galloc

Slot == 1024         \* 0x400: blocks start at multiples of it

\* The kernel maps whole pages below the end of the address space.
ASSUME PoolAssumption ==
    /\ Word \in Nat \ {0} /\ Word % Slot = 0
    /\ PoolSize \in Nat \ {0}
    /\ Sizes \subseteq Nat
    /\ Bases \subseteq Nat \ {0}
    /\ \A b \in Bases : b % Slot = 0 /\ b + PoolSize <= Word

VARIABLES cbma_bottom,  \* end of the last block, 0 before init_cbma
          base,         \* where init_cbma mapped the pool, 0 before
          blocks,       \* blocks handed out, oldest first
          spent         \* what they cost

cbma == <<cbma_bottom, base, blocks, spent>>

Init == /\ cbma_bottom = 0 /\ base = 0
        /\ blocks = <<>>
        /\ spent = 0

\* Mutant: the memory of a mapping that failed is not touched.
InitCbmaUnmapped ==
    /\ base = 0
    /\ base' \in Bases \cup {Word - 1}
    /\ cbma_bottom' = base'
    /\ UNCHANGED <<blocks, spent>>

\* init_cbma, when the mapping succeeds; the program ends in its memset when
\* it fails.
InitCbma ==
    /\ base = 0
    /\ base' \in Bases
    /\ cbma_bottom' = base'
    /\ UNCHANGED <<blocks, spent>>

\* Mutant: the next multiple of 0x400 is where the last block begins or ends.
NextBlockInPlace(bottom) == (bottom - (bottom % Slot)) % Word

NextBlock(bottom) == (bottom - (bottom % Slot) + Slot) % Word

\* A block takes the whole slots it fills, and one more.
Cost(sz) == (sz - (sz % Slot)) + Slot

Galloc(sz) ==
    /\ LET addr == NextBlock(cbma_bottom)
       IN  /\ cbma_bottom' = (addr + sz) % Word
           /\ blocks' = Append(blocks, [addr |-> addr, size |-> sz])
    /\ spent' = spent + Cost(sz)
    /\ UNCHANGED base

\* A caller that counts its blocks' costs, and one slot, stays in the pool.
Affordable(sz) == base # 0 /\ Slot + spent + Cost(sz) <= PoolSize

Next == InitCbma \/ \E sz \in Sizes : Affordable(sz) /\ Galloc(sz)
Spec == Init /\ [][Next]_cbma

-----------------------------------------------------------------------------
Block == [addr : Nat, size : Nat]

TypeOK ==
    /\ cbma_bottom \in 0..(Word - 1) /\ base \in {0} \cup Bases
    /\ blocks \in Seq(Block)
    /\ spent \in Nat

(***************************************************************************)
(* galloc neither hands out memory twice nor leaves the pool, while the    *)
(* costs of the blocks fit into it: every block's first multiple of 0x400  *)
(* is past the block before it, wherever that one ended.                   *)
(***************************************************************************)
Alloc == INSTANCE Allocator WITH
    pool <- IF base = 0 THEN {} ELSE base..(base + PoolSize - 1)
ImplementsAllocator == Alloc!Spec
=============================================================================
