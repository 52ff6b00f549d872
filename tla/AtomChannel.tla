---------------------------- MODULE AtomChannel ----------------------------
(***************************************************************************)
(* What submit_job and flush_job_queue (driver/shim.c) promise: the atoms  *)
(* reach the kernel in the order they were submitted, each once, and at     *)
(* most Capacity of them wait.                                             *)
(***************************************************************************)
EXTENDS Integers, Sequences

CONSTANT Capacity

VARIABLES accepted,  \* atoms submitted, oldest first
          delivered  \* atoms the kernel was given, oldest first

Init == accepted = <<>> /\ delivered = <<>>

\* An atom that fills the queue takes it along to the kernel.
Accept ==
    /\ Len(accepted') = Len(accepted) + 1
    /\ accepted' = Append(accepted, accepted'[Len(accepted) + 1])
    /\ delivered' \in {delivered, accepted'}
    /\ Len(accepted') - Len(delivered') <= Capacity

Flush == delivered' = accepted /\ UNCHANGED accepted

Next == Accept \/ Flush
Spec == Init /\ [][Next]_<<accepted, delivered>>
=============================================================================
