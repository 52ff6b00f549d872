----------------------------- MODULE Allocator -----------------------------
(***************************************************************************)
(* What the users of galloc (driver/memory.c) rely on: each block lies in  *)
(* the pool and overlaps no block handed out before it.  Nothing comes     *)
(* back, gfree does nothing.                                               *)
(***************************************************************************)
EXTENDS Integers, Sequences

VARIABLES pool,   \* addresses of the pool
          blocks  \* blocks handed out, oldest first

Block == [addr : Nat, size : Nat]
Extent(b) == b.addr .. (b.addr + b.size - 1)
Before(b, c) == b.addr + b.size <= c.addr

Init == pool = {} /\ blocks = <<>>

\* The pool stays as it is once a block of it is out.
Attach == /\ blocks = <<>>
          /\ pool' \in SUBSET Nat
          /\ UNCHANGED blocks

\* b may be the next block.
Free(b) == /\ Extent(b) \subseteq pool
           /\ \A i \in DOMAIN blocks : Before(blocks[i], b) \/ Before(b, blocks[i])

Allocate ==
    /\ Len(blocks') = Len(blocks) + 1
    /\ LET b == blocks'[Len(blocks) + 1]
       IN  /\ b \in Block /\ Free(b)
           /\ blocks' = Append(blocks, b)
    /\ UNCHANGED pool

Next == Attach \/ Allocate
Spec == Init /\ [][Next]_<<pool, blocks>>
=============================================================================
