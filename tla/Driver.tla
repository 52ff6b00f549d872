------------------------------- MODULE Driver -------------------------------
(***************************************************************************)
(* pantry's own driver: the shim around the kernel's ioctls and its queue  *)
(* of atoms (driver/shim.c), the synthesis of jobs (driver/synthesise.c)   *)
(* over the allocator CBMA (driver/memory.c), and the program that uses    *)
(* them (prototype/prototype.c).                                           *)
(*                                                                         *)
(* The driver is sequential.  A call is the list of the effects its code   *)
(* has, in order: ioctls, mappings, blocks of CBMA, atoms handed to the    *)
(* queue.  Each step takes the next effect of the call in progress, todo.  *)
(* The kernel may refuse any of them; it refuses all ioctls on a           *)
(* descriptor that is not the device.  The contents of jobs are left out,  *)
(* except for what refers to other jobs and atoms.                         *)
(***************************************************************************)
EXTENDS Integers, Sequences, SequencesExt

CONSTANTS
    Word, PoolSize, Bases, Sizes,  \* as in Cbma
    QueueMax,                      \* ATOM_QUEUE_MAX
    AtomIds,                       \* values of the u8 that numbers an atom
    MaxAtoms                       \* bound on the atoms submitted

ASSUME DriverAssumption ==
    /\ QueueMax \in Nat \ {0} /\ AtomIds \in Nat \ {0, 1}
    /\ MaxAtoms \in Nat

VARIABLES
    cbma_bottom, base, blocks, spent,  \* CBMA, see Cbma
    fd,            \* the descriptor main has, see Descriptors
    handshake,     \* kernel: steps of the handshake it has seen
    atom_queue,    \* the atoms in the queue, atom_queue_size of them
    accepted,      \* atoms given to submit_job, oldest first
    delivered,     \* kernel: atoms of the JOB_SUBMIT ioctls, oldest first
    atom_count,
    packets,       \* the job descriptors in memory, oldest first
    tiler_jc, fragment_jc,  \* what the job chains returned, 0 before
    zero_buffer,   \* of the chain in the making: "none", "mapped", "MAP_FAILED"
    only_main,     \* the program is prototype.c, not any other
    made,          \* calls of main that were made
    todo,          \* what the call in progress still does
    status         \* "running", "exited" by exit(1), "crashed"

Heap == INSTANCE Cbma

\* What the job chains ask of galloc, as in Effects.
ASSUME HeapAssumption ==
    Heap!PoolAssumption /\ {16, 24, 32, 48, 64, 276, 280} \subseteq Sizes

cbma    == <<cbma_bottom, base, blocks, spent>>
shim    == <<fd, handshake>>
queue   == <<atom_queue, accepted, delivered>>
chains  == <<atom_count, packets, tiler_jc, fragment_jc, zero_buffer>>
program == <<only_main, made, todo, status>>
vars    == <<cbma, shim, queue, chains, program>>

-----------------------------------------------------------------------------
(***************************************************************************)
(* The effects of each call.                                               *)
(***************************************************************************)
ioctl           == [op |-> "ioctl"]
galloc(use, sz) == [op |-> "galloc", use |-> use, size |-> sz]
submit_job(kind) == [op |-> "submit", kind |-> kind]

\* Open the device, declare the version, map the tracking handle, set flags.
open_kernel_module ==
    <<[op |-> "open"], [op |-> "handshake"], [op |-> "map_tracking"],
      [op |-> "handshake"]>>

\* Memory of the GPU; with SAME_VA it is mapped too, and the result of the
\* mmap64 is not looked at.
alloc_gpu_pages(mapping) == <<ioctl>> \o mapping

init_cbma == alloc_gpu_pages(<<[op |-> "map_pool"]>>)
zero_buffer_pages == alloc_gpu_pages(<<[op |-> "map_zeroes"]>>)  \* 0x3800

import_shader == alloc_gpu_pages(<<>>) \o <<[op |-> "mmap_gpu"]>>

HeaderSize == 32         \* sizeof(struct job_descriptor_header)

set_value_helper == <<galloc("job", HeaderSize + 16)>>
make_mfbd        == <<galloc("mfbd", 280)>>
upload_vertices  == <<galloc("attribute_buffer", 16), galloc("vertices", 48)>>

vertex_tiler_helper(tiler) ==
    <<galloc("job", HeaderSize + 244),
      galloc("unknown1", 16), galloc("unknown2", 32), galloc("shader_meta", 24),
      galloc("attribute_meta", 16), galloc("unknown5", 32), galloc("unknown6", 64),
      galloc(IF tiler THEN "nullForVertex" ELSE "unknown7", 64)>>
    \o import_shader
    \o <<galloc("writeBuffer", 64)>>

job_chain_vertex_tiler ==
    upload_vertices \o make_mfbd \o zero_buffer_pages \o set_value_helper
    \o vertex_tiler_helper(FALSE) \o vertex_tiler_helper(TRUE)
    \o <<submit_job("vertex_tiler")>>

job_chain_fragment ==
    <<galloc("job", HeaderSize + 16)>> \o make_mfbd \o <<submit_job("fragment")>>

job_chain_replay == <<galloc("replay_payload", 48), submit_job("replay")>>

flush_job_queue == <<[op |-> "flush"]>>

Effects ==
    [open_kernel_module |-> open_kernel_module,
     init_cbma |-> init_cbma,
     ioctl |-> <<ioctl>>,  \* query_gpu_props, stream_create, alloc_gpu_heap, ...
     alloc_gpu_pages |-> alloc_gpu_pages(<<>>),
     vertex_tiler |-> job_chain_vertex_tiler,
     fragment |-> job_chain_fragment,
     replay |-> job_chain_replay,
     flush |-> flush_job_queue]

\* main of prototype.c.
Setup == <<"open_kernel_module", "ioctl", "init_cbma", "ioctl", "ioctl",
           "alloc_gpu_pages", "ioctl">>
Main  == Setup \o <<"vertex_tiler", "fragment", "replay", "flush">>

-----------------------------------------------------------------------------
(***************************************************************************)
(* Descriptors: open_kernel_module returns 1, the standard output, when    *)
(* the device cannot be opened, and -1 when the tracking handle cannot be  *)
(* mapped.                                                                 *)
(***************************************************************************)
Descriptors == {"none", "mali0", "stdout", "-1"}
Kinds       == {"vertex_tiler", "fragment", "replay"}
Ids         == 0..(AtomIds - 1)
ZeroBuffers == {"none", "mapped", "MAP_FAILED"}

\* waits: pre_dep[0] is a data dependency, on the atom atom_id; otherwise it is
\* no_dependency, whose atom_id is 0 as well.
Atom == [kind : Kinds, jc : Nat, atom_number : Ids,
         waits : BOOLEAN, atom_id : Ids, tiler_jc_list : Nat,
         zeroes : ZeroBuffers]

TypeOK ==
    /\ fd \in Descriptors /\ handshake \in 0..3
    /\ {atom_queue, accepted, delivered} \subseteq Seq(Atom)
    /\ status = "running" => Len(atom_queue) < QueueMax
    /\ packets \in Seq(Nat) /\ {atom_count, tiler_jc, fragment_jc} \subseteq Nat
    /\ zero_buffer \in ZeroBuffers
    /\ only_main \in BOOLEAN /\ made \in 0..Len(Main)
    /\ status \in {"running", "exited", "crashed"}

Init ==
    /\ Heap!Init
    /\ fd = "none" /\ handshake = 0
    /\ atom_queue = <<>> /\ accepted = <<>> /\ delivered = <<>>
    /\ atom_count = 0 /\ packets = <<>> /\ tiler_jc = 0 /\ fragment_jc = 0
    /\ zero_buffer = "none"
    /\ only_main \in BOOLEAN
    /\ made = 0 /\ todo = <<>> /\ status = "running"

-----------------------------------------------------------------------------
(***************************************************************************)
(* The steps.  Each takes the first effect of todo.                        *)
(***************************************************************************)
Running(op) == status = "running" /\ todo # <<>> /\ Head(todo).op = op
Done    == todo' = Tail(todo) /\ UNCHANGED <<only_main, made, status>>
Leave   == todo' = <<>> /\ UNCHANGED <<only_main, made, status>>     \* return early
Stop(s) == status' = s /\ todo' = <<>> /\ UNCHANGED <<only_main, made>>

\* A program sets the driver up as main does, then makes calls whose
\* arguments it has.
MayCall(call) ==
    IF only_main \/ made < Len(Setup)
    THEN made < Len(Main) /\ call = Main[made + 1]
    ELSE /\ call \in Kinds \cup {"flush"}
         /\ call \in Kinds => Len(accepted) < MaxAtoms
         /\ call = "replay" => tiler_jc # 0 /\ fragment_jc # 0

Call ==
    /\ status = "running" /\ todo = <<>>
    /\ \E call \in Kinds \cup {"flush"} \cup Range(Setup) :
         /\ MayCall(call)
         /\ todo' = Effects[call]
    /\ made' = IF only_main \/ made < Len(Setup) THEN made + 1 ELSE made
    /\ UNCHANGED <<cbma, shim, queue, chains, only_main, status>>

Open ==
    /\ Running("open")
    /\ \/ fd' = "mali0" /\ Done
       \/ fd' = "stdout" /\ Leave
    /\ UNCHANGED <<cbma, handshake, queue, chains>>

\* Mutant: m_ioctl goes on when the ioctl fails.
IoctlFailsUnnoticed == Done

\* m_ioctl exits when the ioctl fails.
IoctlFails == Stop("exited")

Handshake ==
    /\ Running("handshake")
    /\ \/ fd = "mali0" /\ handshake' = handshake + 1 /\ Done
       \/ IoctlFails /\ UNCHANGED handshake
    /\ UNCHANGED <<cbma, fd, queue, chains>>

MapTracking ==
    /\ Running("map_tracking")
    /\ \/ handshake' = handshake + 1 /\ Done /\ UNCHANGED fd
       \/ fd' = "-1" /\ Leave /\ UNCHANGED handshake
    /\ UNCHANGED <<cbma, queue, chains>>

Ioctl ==
    /\ Running("ioctl")
    /\ (fd = "mali0" /\ Done) \/ IoctlFails
    /\ UNCHANGED <<cbma, shim, queue, chains>>

\* alloc_gpu_pages does not look at the result of its mmap64: without a pool,
\* the memset of init_cbma faults at the end of the address space.
MapPool ==
    /\ Running("map_pool")
    /\ \/ fd = "mali0" /\ Heap!InitCbma /\ Done
       \/ Stop("crashed") /\ UNCHANGED cbma
    /\ UNCHANGED <<shim, queue, chains>>

\* A chain whose zero buffer could not be mapped is submitted all the same.
MapZeroes ==
    /\ Running("map_zeroes")
    /\ zero_buffer' \in {"mapped", "MAP_FAILED"}
    /\ Done
    /\ UNCHANGED <<cbma, shim, queue, atom_count, packets, tiler_jc, fragment_jc>>

MmapGpu ==
    /\ Running("mmap_gpu")
    /\ (fd = "mali0" /\ Done) \/ Stop("exited")
    /\ UNCHANGED <<cbma, shim, queue, chains>>

Galloc ==
    /\ Running("galloc")
    /\ Heap!Galloc(Head(todo).size)
    /\ packets' = IF Head(todo).use = "job"
                    THEN Append(packets, Heap!NextBlock(cbma_bottom)) ELSE packets
    /\ Done
    /\ UNCHANGED <<shim, queue, atom_count, tiler_jc, fragment_jc, zero_buffer>>

\* Mutant: the size of the queue is not reset.
FlushQueueKept(q) ==
    \/ /\ fd = "mali0"
       /\ delivered' = delivered \o q
       /\ atom_queue' = q
       /\ Done
    \/ /\ IoctlFails
       /\ atom_queue' = q
       /\ UNCHANGED delivered

\* flush_job_queue, when the queue holds q.
FlushQueue(q) ==
    \/ /\ fd = "mali0"
       /\ delivered' = delivered \o q
       /\ atom_queue' = <<>>
       /\ Done
    \/ /\ IoctlFails
       /\ atom_queue' = q
       /\ UNCHANGED delivered

\* Mutant: the test for an empty queue is the wrong way round.
FlushInverted ==
    /\ Running("flush")
    /\ \/ atom_queue = <<>> /\ FlushQueue(atom_queue)
       \/ atom_queue # <<>> /\ Done /\ UNCHANGED <<atom_queue, delivered>>
    /\ UNCHANGED <<cbma, shim, accepted, chains>>

Flush ==
    /\ Running("flush")
    /\ \/ atom_queue # <<>> /\ FlushQueue(atom_queue)
       \/ atom_queue = <<>> /\ Done /\ UNCHANGED <<atom_queue, delivered>>
    /\ UNCHANGED <<cbma, shim, accepted, chains>>

\* Mutant: the queue is not flushed when it is full.
EnqueueLate(q) == atom_queue' = q /\ Done /\ UNCHANGED delivered

\* submit_job: the queue, with the new atom q, goes when it is full.
Enqueue(q) ==
    \/ Len(q) = QueueMax /\ FlushQueue(q)
    \/ Len(q) # QueueMax /\ atom_queue' = q /\ Done /\ UNCHANGED delivered

\* Mutant: the dependency is read after the number of the atom was taken.
DependencyLate == (atom_count + 1) % AtomIds

\* depTiler and depFragment, "last one": the number of the atom before, in the
\* eight bits it has.
Dependency == atom_count % AtomIds

\* The atom of a job chain whose first job is jc.
NewAtom(kind, jc) ==
    [kind |-> kind, jc |-> jc,
     atom_number |-> (atom_count + 1) % AtomIds,
     waits |-> kind # "vertex_tiler",
     atom_id |-> IF kind = "vertex_tiler" THEN 0 ELSE Dependency,
     tiler_jc_list |-> IF kind = "replay" THEN tiler_jc ELSE 0,
     zeroes |-> IF kind = "vertex_tiler" THEN zero_buffer ELSE "none"]

\* The end of a job chain: the newest packets are its jobs, in the order set
\* value, vertex, tiler for a vertex and tiler chain; the tiler is what it
\* returns.
Submit ==
    /\ Running("submit")
    /\ LET kind   == Head(todo).kind
           packet(n) == packets[Len(packets) + 1 - n]
           atom   == NewAtom(kind,
                       CASE kind = "vertex_tiler" -> packet(3)
                         [] kind = "fragment"     -> packet(1)
                         [] kind = "replay"       -> Last(blocks).addr)
           q      == Append(atom_queue, atom)
       IN  /\ accepted' = Append(accepted, atom)
           /\ Enqueue(q)
           /\ tiler_jc' = IF kind = "vertex_tiler" THEN packet(1) ELSE tiler_jc
           /\ fragment_jc' = IF kind = "fragment" THEN packet(1) ELSE fragment_jc
    /\ atom_count' = atom_count + 1
    /\ zero_buffer' = "none"
    /\ UNCHANGED <<cbma, shim, packets>>

Next == \/ Call \/ Open \/ Handshake \/ MapTracking \/ Ioctl
        \/ MapPool \/ MapZeroes \/ MmapGpu \/ Galloc \/ Flush \/ Submit
Spec == Init /\ [][Next]_vars

\* The program is scheduled and the kernel answers.
FairSpec == Spec /\ WF_vars(Next)

-----------------------------------------------------------------------------
(***************************************************************************)
(* Every atom reaches the kernel once, in the order of submission, and the *)
(* queue is never overrun.                                                 *)
(***************************************************************************)
Channel == INSTANCE AtomChannel WITH Capacity <- QueueMax
DeliversInOrder == Channel!Spec

(***************************************************************************)
(* The blocks that synthesis takes from galloc are in the pool and         *)
(* disjoint, from the first job of the program to the last: jobs that wait *)
(* in the queue are not overwritten.                                       *)
(***************************************************************************)
BlocksInPool == Heap!ImplementsAllocator

(***************************************************************************)
(* Nothing is allocated or submitted before the kernel has seen the whole  *)
(* handshake: the values 1 and -1 that open_kernel_module returns when it  *)
(* fails look like descriptors, and main does not test them.               *)
(***************************************************************************)
HandshakeFirst == base # 0 \/ accepted # <<>> => handshake = 3 /\ fd = "mali0"

(***************************************************************************)
(* A fragment or replay job waits for the atom submitted just before it:   *)
(* its dependency has that atom's number, which none of the AtomIds - 1    *)
(* atoms before it shares.  Only a number 0, taken when eight bits wrap    *)
(* around, names no atom.                                                  *)
(***************************************************************************)
Waits(i) == accepted[i].waits /\ i > 1
NamedBy(i) == {j \in 1..(i - 1) : /\ i - j < AtomIds
                                  /\ accepted[j].atom_number = accepted[i].atom_id}
WaitsForLast == \A i \in DOMAIN accepted : Waits(i) => NamedBy(i) = {i - 1}

(***************************************************************************)
(* "last one" (driver/synthesise.c:122): a job that waits names an atom,   *)
(* where 0 is what no_dependency has.  Violated when atom_count reaches a  *)
(* multiple of 256: the next dependency is on no atom.                     *)
(***************************************************************************)
DependsOnLast ==
    \A i \in DOMAIN accepted : Waits(i) => accepted[i].atom_id # 0

(***************************************************************************)
(* The program of prototype.c gets its three atoms to the kernel, unless   *)
(* the kernel refuses something on the way.                                *)
(***************************************************************************)
PrototypeDelivers ==
    only_main =>
        <>(status # "running" \/ (Len(delivered) = 3 /\ delivered = accepted))
=============================================================================
