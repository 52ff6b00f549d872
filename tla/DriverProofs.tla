---------------------------- MODULE DriverProofs ----------------------------
(***************************************************************************)
(* What TLAPS proves of Driver, for any length of the queue, any width of  *)
(* the numbers, any pool and any program: how its atoms are numbered and   *)
(* queued, what the kernel has seen before the first of them, and that     *)
(* their jobs find the memory they are made of.                            *)
(***************************************************************************)
EXTENDS Driver, SequenceTheorems, TLAPS

(***************************************************************************)
(* atom_count counts the atoms; the number of the i-th one is i in the     *)
(* bits it has, and if it waits it names the number before.  No atom is    *)
(* lost or sent twice: those that were submitted were sent or are in the   *)
(* queue, also when the kernel has refused them.                           *)
(***************************************************************************)
Numbered ==
    /\ atom_count \in Nat /\ Len(accepted) = atom_count
    /\ \A i \in 1..atom_count :
         /\ accepted[i].atom_number = i % AtomIds
         /\ accepted[i].waits => accepted[i].atom_id = (i - 1) % AtomIds
NothingLost == accepted = delivered \o atom_queue
Sequences == \E T : {atom_queue, accepted, delivered} \subseteq Seq(T)
QueueInv == Numbered /\ NothingLost /\ Sequences

-----------------------------------------------------------------------------
LEMMA DivMod ==
    ASSUME NEW m \in Nat \ {0}, NEW i \in Nat
    PROVE  i \div m \in Int /\ i % m \in Int /\ i = m * (i \div m) + (i % m)
OBVIOUS

\* Two numbers less than m apart differ modulo m.
LEMMA NotCongruent ==
    ASSUME NEW m \in Nat \ {0}, NEW i \in Nat, NEW j \in Nat,
           j < i, i - j < m
    PROVE  i % m # j % m
<1> DEFINE d == (i \div m) - (j \div m)
<1>1. /\ i = m * (i \div m) + (i % m) /\ i \div m \in Int
      /\ j = m * (j \div m) + (j % m) /\ j \div m \in Int
  BY DivMod
<1>2. d \in Int
  BY <1>1
<1>3. SUFFICES ASSUME i % m = j % m PROVE FALSE
  OBVIOUS
<1>4. i - j = m * (i \div m) - m * (j \div m)
  BY <1>1, <1>3
<1>5. m * (i \div m) - m * (j \div m) = m * d
  BY <1>1
<1>6. 0 < m * d /\ m * d < m
  BY <1>4, <1>5
<1> HIDE DEF d
<1>7. CASE d <= 0
  <2>1. m * d <= 0
    BY <1>2, <1>7
  <2> QED BY <1>2, <1>6, <2>1
<1>8. CASE d >= 1
  <2>1. m * d >= m
    BY <1>2, <1>8
  <2> QED BY <1>2, <1>6, <2>1
<1> QED BY <1>2, <1>7, <1>8

-----------------------------------------------------------------------------
\* Of the atoms in the reach of the numbers, only the one before has the number
\* that a waiting atom names.
LEMMA NumberedWaits == Sequences /\ Numbered => WaitsForLast
<1> SUFFICES ASSUME Sequences, Numbered, NEW i \in DOMAIN accepted, Waits(i)
             PROVE  NamedBy(i) = {i - 1}
  BY DEF WaitsForLast
<1> USE DriverAssumption
<1>1. i \in 1..atom_count /\ i > 1
  BY DEF Sequences, Numbered, Waits
<1>2. /\ accepted[i].atom_id = (i - 1) % AtomIds
      /\ accepted[i - 1].atom_number = (i - 1) % AtomIds
  BY <1>1 DEF Numbered, Waits
<1>3. i - 1 \in NamedBy(i)
  BY <1>1, <1>2 DEF NamedBy
<1>4. ASSUME NEW j \in NamedBy(i) PROVE j = i - 1
  <2>1. j \in 1..(i - 1) /\ i - j < AtomIds
    BY DEF NamedBy
  <2>2. accepted[j].atom_number = (i - 1) % AtomIds
    BY <1>2 DEF NamedBy
  <2>3. accepted[j].atom_number = j % AtomIds
    BY <1>1, <2>1 DEF Numbered
  <2>4. SUFFICES ASSUME j < i - 1 PROVE FALSE
    BY <1>1, <2>1
  <2> QED BY <1>1, <2>1, <2>2, <2>3, <2>4, NotCongruent
<1> QED BY <1>3, <1>4

-----------------------------------------------------------------------------
LEMMA QueueInit == Init => QueueInv
<1> SUFFICES ASSUME Init PROVE QueueInv
  OBVIOUS
<1>1. accepted = <<>> /\ delivered = <<>> /\ atom_queue = <<>> /\ atom_count = 0
  BY DEF Init
<1>2. Sequences
  <2>1. {atom_queue, accepted, delivered} \subseteq Seq({})
    BY <1>1
  <2> QED BY <2>1 DEF Sequences
<1>3. Numbered
  BY <1>1 DEF Numbered
<1>4. NothingLost
  BY <1>1 DEF NothingLost
<1> QED BY <1>2, <1>3, <1>4 DEF QueueInv

\* Steps that neither submit nor flush.
LEMMA QueueOther ==
    ASSUME QueueInv, UNCHANGED <<queue, atom_count>>
    PROVE  QueueInv'
BY DEF QueueInv, Numbered, NothingLost, Sequences, queue

\* A flush of the queue q, which holds what was not sent.
LEMMA FlushKeeps ==
    ASSUME NEW T, NEW q \in Seq(T), delivered \in Seq(T), FlushQueue(q)
    PROVE  /\ delivered' \o atom_queue' = delivered \o q
           /\ delivered' \in Seq(T) /\ atom_queue' \in Seq(T)
<1>1. CASE delivered' = delivered \o q /\ atom_queue' = <<>>
  BY <1>1
<1>2. CASE delivered' = delivered /\ atom_queue' = q
  BY <1>2
<1> QED BY <1>1, <1>2 DEF FlushQueue

LEMMA QueueFlush == QueueInv /\ Flush => QueueInv'
<1> SUFFICES ASSUME QueueInv, Flush PROVE QueueInv'
  OBVIOUS
<1>1. accepted' = accepted /\ atom_count' = atom_count
  BY DEF Flush, chains
<1>2. PICK T : {atom_queue, accepted, delivered} \subseteq Seq(T)
  BY DEF QueueInv, Sequences
<1>3. /\ delivered' \o atom_queue' = delivered \o atom_queue
      /\ delivered' \in Seq(T) /\ atom_queue' \in Seq(T)
  <2>1. CASE FlushQueue(atom_queue)
    BY <1>2, <2>1, FlushKeeps
  <2>2. CASE UNCHANGED <<atom_queue, delivered>>
    BY <1>2, <2>2
  <2> QED BY <2>1, <2>2 DEF Flush
<1>4. Sequences'
  BY <1>1, <1>2, <1>3 DEF Sequences
<1>5. NothingLost'
  BY <1>1, <1>3 DEF QueueInv, NothingLost
<1>6. Numbered'
  BY <1>1 DEF QueueInv, Numbered
<1> QED BY <1>4, <1>5, <1>6 DEF QueueInv

LEMMA QueueSubmit == QueueInv /\ Submit => QueueInv'
<1> SUFFICES ASSUME QueueInv, Submit PROVE QueueInv'
  OBVIOUS
<1> USE DriverAssumption
<1>1. PICK a : /\ accepted' = Append(accepted, a)
               /\ a.atom_number = (atom_count + 1) % AtomIds
               /\ a.waits => a.atom_id = atom_count % AtomIds
               /\ Enqueue(Append(atom_queue, a))
  BY DEF Submit, NewAtom, Dependency
<1>2. atom_count' = atom_count + 1
  BY DEF Submit
<1>3. PICK S : {atom_queue, accepted, delivered} \subseteq Seq(S)
  BY DEF QueueInv, Sequences
<1> DEFINE T == S \cup {a}
           q == Append(atom_queue, a)
<1>4. {atom_queue, accepted, delivered, q, accepted'} \subseteq Seq(T)
  BY <1>1, <1>3
<1>5. /\ delivered' \o atom_queue' = delivered \o q
      /\ delivered' \in Seq(T) /\ atom_queue' \in Seq(T)
  <2>1. CASE FlushQueue(q)
    BY <1>4, <2>1, FlushKeeps
  <2>2. CASE atom_queue' = q /\ UNCHANGED delivered
    BY <1>4, <2>2
  <2> QED BY <1>1, <2>1, <2>2 DEF Enqueue
<1>6. Sequences'
  BY <1>4, <1>5 DEF Sequences
<1>7. NothingLost'
  <2>1. accepted = delivered \o atom_queue
    BY DEF QueueInv, NothingLost
  <2>2. Append(delivered \o atom_queue, a) = delivered \o q
    <3>1. /\ delivered \in Seq(T) /\ atom_queue \in Seq(T) /\ a \in T
          /\ <<a>> \in Seq(T) /\ delivered \o atom_queue \in Seq(T)
      BY <1>4
    <3>2. /\ Append(delivered \o atom_queue, a) = (delivered \o atom_queue) \o <<a>>
          /\ q = atom_queue \o <<a>>
      BY <3>1, AppendIsConcat
    <3> QED BY <3>1, <3>2, ConcatAssociative
  <2>3. accepted' = delivered' \o atom_queue'
    BY <1>1, <1>5, <2>1, <2>2
  <2> QED BY <2>3 DEF NothingLost
<1>8. Numbered'
  <2>1. atom_count \in Nat /\ Len(accepted) = atom_count
    BY DEF QueueInv, Numbered
  <2>2. Len(accepted') = atom_count'
    BY <1>1, <1>2, <1>3, <2>1
  <2>3. ASSUME NEW i \in 1..atom_count'
        PROVE  /\ accepted'[i].atom_number = i % AtomIds
               /\ accepted'[i].waits => accepted'[i].atom_id = (i - 1) % AtomIds
    <3>1. CASE i \in 1..atom_count
      <4>1. accepted'[i] = accepted[i]
        BY <1>1, <1>3, <2>1, <3>1
      <4> QED BY <3>1, <4>1 DEF QueueInv, Numbered
    <3>2. CASE i = atom_count + 1
      <4>1. accepted'[i] = a
        BY <1>1, <1>3, <2>1, <3>2
      <4>2. i - 1 = atom_count
        BY <2>1, <3>2
      <4> QED BY <1>1, <3>2, <4>1, <4>2
    <3> QED BY <1>2, <2>1, <3>1, <3>2
  <2>4. atom_count' \in Nat
    BY <1>2, <2>1
  <2> QED BY <2>2, <2>3, <2>4 DEF Numbered
<1> QED BY <1>6, <1>7, <1>8 DEF QueueInv

LEMMA QueueNext == QueueInv /\ [Next]_vars => QueueInv'
<1> SUFFICES ASSUME QueueInv, [Next]_vars PROVE QueueInv'
  OBVIOUS
<1>1. CASE Flush
  BY <1>1, QueueFlush
<1>2. CASE Submit
  BY <1>2, QueueSubmit
<1>3. CASE Call \/ Open \/ Handshake \/ MapTracking \/ Ioctl \/ MapPool
           \/ MapZeroes \/ MmapGpu \/ Galloc \/ UNCHANGED vars
  <2>1. UNCHANGED <<queue, atom_count>>
    BY <1>3 DEF Call, Open, Handshake, MapTracking, Ioctl, MapPool, MapZeroes,
                MmapGpu, Galloc, vars, queue, chains
  <2> QED BY <2>1, QueueOther
<1> QED BY <1>1, <1>2, <1>3 DEF Next

-----------------------------------------------------------------------------
(***************************************************************************)
(* A fragment or replay job waits for the atom submitted just before it,   *)
(* as long as an atom number has at least two values (Dependency).         *)
(***************************************************************************)
THEOREM DependenciesOnLast == Spec => []WaitsForLast
<1>1. QueueInv => WaitsForLast
  BY NumberedWaits DEF QueueInv
<1> QED BY <1>1, QueueInit, QueueNext, PTL DEF Spec

-----------------------------------------------------------------------------
(***************************************************************************)
(* The queue is never overrun: submit_job flushes it when it is full, and  *)
(* a flush that the kernel refuses ends the program.                       *)
(***************************************************************************)
Bounded ==
    /\ Len(atom_queue) <= QueueMax
    /\ status = "running" => Len(atom_queue) < QueueMax

LEMMA BoundedInit == Init => Bounded
BY DriverAssumption DEF Init, Bounded

LEMMA BoundedNext == QueueInv /\ Bounded /\ [Next]_vars => Bounded'
<1> SUFFICES ASSUME QueueInv, Bounded, [Next]_vars PROVE Bounded'
  OBVIOUS
<1> USE DriverAssumption
<1>1. PICK T : {atom_queue, accepted, delivered} \subseteq Seq(T)
  BY DEF QueueInv, Sequences
<1>2. Len(atom_queue) \in Nat
  BY <1>1
<1>3. CASE Flush
  <2>1. status = "running" /\ (status' = "running" \/ status' = "exited")
    BY <1>3 DEF Flush, Running, FlushQueue, Done, IoctlFails, Stop
  <2>2. atom_queue' = <<>> \/ atom_queue' = atom_queue
    BY <1>3 DEF Flush, FlushQueue
  <2> QED BY <1>2, <2>1, <2>2 DEF Bounded
<1>4. CASE Submit
  <2>1. PICK a : Enqueue(Append(atom_queue, a))
    BY <1>4 DEF Submit
  <2> DEFINE q == Append(atom_queue, a)
  <2>2. Len(q) = Len(atom_queue) + 1
    BY <1>1
  <2>3. status = "running"
    BY <1>4 DEF Submit, Running
  <2>4. Len(q) \in Nat /\ Len(q) <= QueueMax
    BY <1>2, <2>2, <2>3 DEF Bounded
  <2> HIDE DEF q
  <2>5. CASE Len(q) = QueueMax /\ FlushQueue(q)
    <3>1. atom_queue' = <<>> \/ (atom_queue' = q /\ status' = "exited")
      BY <2>5 DEF FlushQueue, IoctlFails, Stop
    <3> QED BY <2>4, <3>1 DEF Bounded
  <2>6. CASE Len(q) # QueueMax /\ atom_queue' = q
    BY <2>4, <2>6 DEF Bounded
  <2> QED BY <2>1, <2>5, <2>6 DEF Enqueue, q
<1>5. CASE Call \/ Open \/ Handshake \/ MapTracking \/ Ioctl \/ MapPool
           \/ MapZeroes \/ MmapGpu \/ Galloc
  <2>1. atom_queue' = atom_queue /\ status = "running"
    BY <1>5 DEF Call, Open, Handshake, MapTracking, Ioctl, MapPool, MapZeroes,
                MmapGpu, Galloc, Running, queue
  <2> QED BY <2>1 DEF Bounded
<1>6. CASE UNCHANGED vars
  BY <1>6 DEF vars, queue, program, Bounded
<1> QED BY <1>3, <1>4, <1>5, <1>6 DEF Next

-----------------------------------------------------------------------------
\* Each step is one of the channel's, or is not seen by it.
LEMMA ChannelStep ==
    ASSUME QueueInv, QueueInv', Bounded', [Next]_vars
    PROVE  [Channel!Next]_<<accepted, delivered>>
<1> USE DriverAssumption
<1>1. /\ accepted = delivered \o atom_queue /\ accepted' = delivered' \o atom_queue'
      /\ Len(atom_queue') <= QueueMax
  BY DEF QueueInv, NothingLost, Bounded
<1>2. CASE Flush
  <2>1. accepted' = accepted /\ (delivered' = delivered \o atom_queue \/ delivered' = delivered)
    BY <1>2 DEF Flush, FlushQueue
  <2> QED BY <1>1, <2>1 DEF Channel!Next, Channel!Flush
<1>3. CASE Submit
  <2>1. PICK a : /\ accepted' = Append(accepted, a)
                 /\ Enqueue(Append(atom_queue, a))
    BY <1>3 DEF Submit
  <2>2. PICK S : {atom_queue, accepted, delivered} \subseteq Seq(S)
    BY DEF QueueInv, Sequences
  <2>3. PICK S1 : {atom_queue', accepted', delivered'} \subseteq Seq(S1)
    BY DEF QueueInv, Sequences
  <2>4. Len(accepted') = Len(accepted) + 1 /\ a = accepted'[Len(accepted) + 1]
    BY <2>1, <2>2
  <2>5. delivered' \in {delivered, accepted'}
    <3>1. CASE UNCHANGED delivered
      BY <3>1
    <3>2. CASE atom_queue' = <<>>
      <4>1. delivered' \o <<>> = delivered'
        BY <2>3
      <4> QED BY <1>1, <3>2, <4>1
    <3> QED BY <2>1, <3>1, <3>2 DEF Enqueue, FlushQueue
  <2>6. Len(accepted') - Len(delivered') = Len(atom_queue')
    BY <1>1, <2>3
  <2> QED BY <1>1, <2>1, <2>4, <2>5, <2>6 DEF Channel!Next, Channel!Accept
<1>4. CASE Call \/ Open \/ Handshake \/ MapTracking \/ Ioctl \/ MapPool
           \/ MapZeroes \/ MmapGpu \/ Galloc \/ UNCHANGED vars
  BY <1>4 DEF Call, Open, Handshake, MapTracking, Ioctl, MapPool, MapZeroes,
              MmapGpu, Galloc, vars, queue
<1> QED BY <1>2, <1>3, <1>4 DEF Next

(***************************************************************************)
(* submit_job and flush_job_queue deliver the atoms to the kernel as       *)
(* AtomChannel promises: in the order of submission, each once, with at    *)
(* most ATOM_QUEUE_MAX of them waiting, whatever the kernel refuses.       *)
(***************************************************************************)
THEOREM QueueImplementsChannel == Spec => DeliversInOrder
<1>1. Init => Channel!Init
  BY DEF Init, Channel!Init
<1>2. QueueInv /\ QueueInv' /\ Bounded' /\ [Next]_vars
        => [Channel!Next]_<<accepted, delivered>>
  BY ChannelStep
<1> QED BY <1>1, <1>2, QueueInit, QueueNext, BoundedInit, BoundedNext, PTL
        DEF Spec, DeliversInOrder, Channel!Spec

-----------------------------------------------------------------------------
(***************************************************************************)
(* The handshake.  The first call of every program is open_kernel_module;  *)
(* when it returns early the ioctl that main makes next fails and ends the *)
(* program.  No other call has effects that change the descriptor.         *)
(***************************************************************************)
Uses == {"job", "mfbd", "attribute_buffer", "vertices", "unknown1", "unknown2",
         "shader_meta", "attribute_meta", "unknown5", "unknown6", "unknown7",
         "nullForVertex", "writeBuffer", "replay_payload"}
Quiet == [op : {"ioctl", "map_pool", "map_zeroes", "mmap_gpu", "flush"}]
         \cup [op : {"galloc"}, use : Uses, size : Nat]
         \cup [op : {"submit"}, kind : Kinds]

NotReady == base = 0 /\ accepted = <<>>

\* open_kernel_module, from its first effect to its return.
Opening ==
    \/ todo = open_kernel_module /\ fd = "none" /\ handshake = 0
    \/ /\ todo = <<[op |-> "handshake"], [op |-> "map_tracking"], [op |-> "handshake"]>>
       /\ fd = "mali0" /\ handshake = 0
    \/ /\ todo = <<[op |-> "map_tracking"], [op |-> "handshake"]>>
       /\ fd = "mali0" /\ handshake = 1
    \/ todo = <<[op |-> "handshake"]>> /\ fd = "mali0" /\ handshake = 2
    \/ todo = <<>> /\ (fd = "mali0" => handshake = 3)

HandshakeInv ==
    /\ made \in Nat
    /\ made = 0 => todo = <<>> /\ NotReady /\ fd = "none" /\ handshake = 0
    /\ made = 1 => NotReady /\ (status # "running" \/ Opening)
    /\ made > 1 =>
         /\ todo \in Seq(Quiet)
         /\ fd = "mali0" => handshake = 3
         /\ fd # "mali0" => NotReady /\ (status # "running" \/ todo = <<ioctl>>)

\* The calls but the first have no effect on the descriptor.
LEMMA EffectsQuiet ==
    ASSUME NEW call \in Kinds \cup {"flush", "init_cbma", "ioctl", "alloc_gpu_pages"}
    PROVE  Effects[call] \in Seq(Quiet)
<1>1. /\ ioctl \in Quiet /\ [op |-> "map_pool"] \in Quiet
      /\ [op |-> "map_zeroes"] \in Quiet /\ [op |-> "mmap_gpu"] \in Quiet
      /\ [op |-> "flush"] \in Quiet
  BY DEF Quiet, ioctl
<1>2. ASSUME NEW use \in Uses, NEW sz \in Nat PROVE galloc(use, sz) \in Quiet
  BY DEF Quiet, galloc
<1>3. ASSUME NEW kind \in Kinds PROVE submit_job(kind) \in Quiet
  BY DEF Quiet, submit_job
<1>4. ASSUME NEW x \in Seq(Quiet), NEW y \in Seq(Quiet) PROVE x \o y \in Seq(Quiet)
  OBVIOUS
<1>5. ASSUME NEW x \in Quiet PROVE <<x>> \in Seq(Quiet)
  OBVIOUS
<1>6. /\ init_cbma \in Seq(Quiet) /\ zero_buffer_pages \in Seq(Quiet)
      /\ import_shader \in Seq(Quiet) /\ alloc_gpu_pages(<<>>) \in Seq(Quiet)
  BY <1>1, <1>4, <1>5 DEF init_cbma, zero_buffer_pages, import_shader, alloc_gpu_pages
<1>7. set_value_helper \in Seq(Quiet) /\ make_mfbd \in Seq(Quiet)
  <2>1. galloc("job", HeaderSize + 16) \in Quiet /\ galloc("mfbd", 280) \in Quiet
    BY <1>2 DEF Uses, HeaderSize
  <2> QED BY <2>1, <1>5 DEF set_value_helper, make_mfbd
<1>8. upload_vertices \in Seq(Quiet)
  <2>1. galloc("attribute_buffer", 16) \in Quiet /\ galloc("vertices", 48) \in Quiet
    BY <1>2 DEF Uses
  <2> QED BY <2>1 DEF upload_vertices
<1>9. ASSUME NEW tiler \in BOOLEAN PROVE vertex_tiler_helper(tiler) \in Seq(Quiet)
  <2> DEFINE last == galloc(IF tiler THEN "nullForVertex" ELSE "unknown7", 64)
             first == <<galloc("job", HeaderSize + 244),
                        galloc("unknown1", 16), galloc("unknown2", 32),
                        galloc("shader_meta", 24), galloc("attribute_meta", 16),
                        galloc("unknown5", 32), galloc("unknown6", 64), last>>
             buffer == <<galloc("writeBuffer", 64)>>
  <2>1. /\ galloc("job", HeaderSize + 244) \in Quiet /\ galloc("unknown1", 16) \in Quiet
        /\ galloc("unknown2", 32) \in Quiet /\ galloc("shader_meta", 24) \in Quiet
        /\ galloc("attribute_meta", 16) \in Quiet /\ galloc("unknown5", 32) \in Quiet
        /\ galloc("unknown6", 64) \in Quiet /\ galloc("writeBuffer", 64) \in Quiet
    BY <1>2 DEF Uses, HeaderSize
  <2>2. last \in Quiet
    BY <1>2 DEF Uses
  <2> HIDE DEF last
  <2>3. first \in Seq(Quiet) /\ buffer \in Seq(Quiet)
    BY <2>1, <2>2
  <2>4. vertex_tiler_helper(tiler) = first \o import_shader \o buffer
    BY DEF vertex_tiler_helper, last
  <2> HIDE DEF first, buffer
  <2> QED BY <1>4, <1>6, <2>3, <2>4
<1>10. ASSUME NEW kind \in Kinds PROVE <<submit_job(kind)>> \in Seq(Quiet)
  BY <1>3, <1>5
<1>11. job_chain_vertex_tiler \in Seq(Quiet)
  <2>1. <<submit_job("vertex_tiler")>> \in Seq(Quiet)
    BY <1>10 DEF Kinds
  <2>2. vertex_tiler_helper(FALSE) \in Seq(Quiet) /\ vertex_tiler_helper(TRUE) \in Seq(Quiet)
    BY <1>9
  <2> QED BY <1>4, <1>6, <1>7, <1>8, <2>1, <2>2 DEF job_chain_vertex_tiler
<1>12. job_chain_fragment \in Seq(Quiet)
  <2>1. galloc("job", HeaderSize + 16) \in Quiet
    BY <1>2 DEF Uses, HeaderSize
  <2>2. <<galloc("job", HeaderSize + 16)>> \in Seq(Quiet)
    BY <1>5, <2>1
  <2>3. <<submit_job("fragment")>> \in Seq(Quiet)
    BY <1>10 DEF Kinds
  <2> QED BY <1>4, <1>7, <2>2, <2>3 DEF job_chain_fragment
<1>13. job_chain_replay \in Seq(Quiet)
  <2>1. galloc("replay_payload", 48) \in Quiet /\ submit_job("replay") \in Quiet
    BY <1>2, <1>3 DEF Uses, Kinds
  <2> QED BY <2>1 DEF job_chain_replay
<1>14. flush_job_queue \in Seq(Quiet) /\ <<ioctl>> \in Seq(Quiet)
  BY <1>1, <1>5 DEF flush_job_queue
<1>15. CASE call \in Kinds
  BY <1>11, <1>12, <1>13, <1>15 DEF Effects, Kinds
<1>16. CASE call = "flush"
  BY <1>14, <1>16 DEF Effects
<1>18. CASE call = "ioctl"
  <2>1. Effects["ioctl"] = <<ioctl>>
    BY DEF Effects
  <2> QED BY <1>14, <1>18, <2>1
<1>17. CASE call = "init_cbma" \/ call = "alloc_gpu_pages"
  BY <1>6, <1>17 DEF Effects
<1> QED BY <1>15, <1>16, <1>17, <1>18

-----------------------------------------------------------------------------
LEMMA HandshakeInit == Init => HandshakeInv
BY DEF Init, Heap!Init, HandshakeInv, NotReady

LEMMA HandshakeCall == HandshakeInv /\ Call => HandshakeInv'
<1> SUFFICES ASSUME HandshakeInv, Call PROVE HandshakeInv'
  OBVIOUS
<1>1. PICK call : MayCall(call) /\ todo' = Effects[call]
  BY DEF Call
<1>2. /\ status = "running" /\ todo = <<>> /\ status' = status /\ only_main' = only_main
      /\ base' = base /\ accepted' = accepted /\ fd' = fd /\ handshake' = handshake
      /\ made' = IF only_main \/ made < Len(Setup) THEN made + 1 ELSE made
  BY DEF Call, cbma, shim, queue
<1>3. made \in Nat
  BY DEF HandshakeInv
<1>4. Len(Setup) = 7 /\ Len(Main) = 11
  BY DEF Setup, Main
<1>5. CASE made = 0
  <2>1. call = "open_kernel_module"
    BY <1>1, <1>4, <1>5 DEF MayCall, Main, Setup
  <2>2. todo' = open_kernel_module
    BY <1>1, <2>1 DEF Effects
  <2> QED BY <1>2, <1>4, <1>5, <2>2 DEF HandshakeInv, Opening, NotReady
<1>6. CASE made = 1
  <2>1. call = "ioctl"
    BY <1>1, <1>4, <1>6 DEF MayCall, Main, Setup
  <2>2. todo' = <<ioctl>> /\ todo' \in Seq(Quiet)
    <3>1. todo' = <<ioctl>>
      BY <1>1, <2>1 DEF Effects
    <3>2. Effects[call] \in Seq(Quiet)
      BY <2>1, EffectsQuiet
    <3> QED BY <1>1, <3>1, <3>2
  <2>3. NotReady /\ (fd = "mali0" => handshake = 3)
    BY <1>2, <1>6 DEF HandshakeInv, Opening, open_kernel_module
  <2> QED BY <1>2, <1>4, <1>6, <2>2, <2>3 DEF HandshakeInv, NotReady
<1>7. CASE made > 1
  <2>1. call \in Kinds \cup {"flush", "init_cbma", "ioctl", "alloc_gpu_pages"}
    <3>1. CASE only_main \/ made < Len(Setup)
      <4>1. made + 1 \in 3..11 /\ call = Main[made + 1]
        BY <1>1, <1>3, <1>4, <1>7, <3>1 DEF MayCall
      <4> QED BY <4>1 DEF Main, Setup, Kinds
    <3>2. CASE ~(only_main \/ made < Len(Setup))
      BY <1>1, <3>2 DEF MayCall
    <3> QED BY <3>1, <3>2
  <2>2. todo' \in Seq(Quiet)
    BY <1>1, <2>1, EffectsQuiet
  <2>3. fd = "mali0" /\ handshake = 3
    BY <1>2, <1>7 DEF HandshakeInv
  <2> QED BY <1>2, <1>3, <1>7, <2>2, <2>3 DEF HandshakeInv
<1> QED BY <1>3, <1>5, <1>6, <1>7

\* Steps inside a call after the first.
LEMMA HandshakeLater ==
    ASSUME HandshakeInv, made > 1, Next, ~Call
    PROVE  HandshakeInv'
<1>1. todo \in Seq(Quiet) /\ made \in Nat
  BY DEF HandshakeInv
<1>2. /\ status = "running" /\ todo # <<>>
      /\ \E op : Running(op)
  BY DEF Next, Open, Handshake, MapTracking, Ioctl, MapPool, MapZeroes, MmapGpu,
         Galloc, Flush, Submit, Running
<1>3. Head(todo) \in Quiet /\ Tail(todo) \in Seq(Quiet)
  BY <1>1, <1>2
<1>4. Head(todo).op \notin {"open", "handshake", "map_tracking"}
  BY <1>3 DEF Quiet
<1>5. ~Open /\ ~Handshake /\ ~MapTracking
  BY <1>4 DEF Open, Handshake, MapTracking, Running
<1>6. made' = made /\ fd' = fd /\ handshake' = handshake /\ todo' \in {Tail(todo), <<>>}
  BY <1>5 DEF Next, Ioctl, MapPool, MapZeroes, MmapGpu, Galloc, Flush, Submit,
              FlushQueue, Enqueue, IoctlFails, Done, Stop, shim
<1>7. todo' \in Seq(Quiet)
  <2>1. <<>> \in Seq(Quiet)
    OBVIOUS
  <2> QED BY <1>3, <1>6, <2>1
<1>8. CASE fd = "mali0"
  BY <1>1, <1>6, <1>7, <1>8 DEF HandshakeInv
<1>9. CASE fd # "mali0"
  <2>1. todo = <<ioctl>> /\ NotReady
    BY <1>2, <1>9 DEF HandshakeInv
  <2>2. Head(todo).op = "ioctl"
    BY <2>1 DEF ioctl
  <2>3. Ioctl
    BY <1>5, <2>2 DEF Next, MapPool, MapZeroes, MmapGpu, Galloc, Flush, Submit, Running
  <2>4. status' = "exited" /\ base' = base /\ accepted' = accepted
    BY <1>9, <2>3 DEF Ioctl, IoctlFails, Stop, cbma, queue
  <2> QED BY <1>1, <1>6, <1>7, <1>9, <2>1, <2>4 DEF HandshakeInv, NotReady
<1> QED BY <1>8, <1>9

\* Steps inside open_kernel_module.
LEMMA HandshakeOpen ==
    ASSUME HandshakeInv, made = 1, Next, ~Call
    PROVE  HandshakeInv'
<1>1. /\ status = "running" /\ todo # <<>> /\ NotReady /\ Opening
  BY DEF HandshakeInv, Next, Open, Handshake, MapTracking, Ioctl, MapPool, MapZeroes,
         MmapGpu, Galloc, Flush, Submit, Running
<1>2. Head(todo).op \in {"open", "handshake", "map_tracking"}
  BY <1>1 DEF Opening, open_kernel_module
<1>3. Open \/ Handshake \/ MapTracking
  BY <1>2 DEF Next, Ioctl, MapPool, MapZeroes, MmapGpu, Galloc, Flush, Submit, Running
<1>4. made' = 1 /\ base' = base /\ accepted' = accepted
  BY <1>3 DEF Open, Handshake, MapTracking, Done, Leave, Stop, IoctlFails, cbma, queue
<1>5. status' # "running" \/ Opening'
  <2> DEFINE open  == [op |-> "open"]
             shake == [op |-> "handshake"]
             map   == [op |-> "map_tracking"]
  <2>1. CASE todo = open_kernel_module /\ fd = "none" /\ handshake = 0
    <3>1. Head(todo) = open /\ Tail(todo) = <<shake, map, shake>>
      BY <2>1 DEF open_kernel_module
    <3>2. Open
      BY <1>3, <3>1 DEF Handshake, MapTracking, Running
    <3>3. /\ handshake' = 0
          /\ \/ fd' = "mali0" /\ todo' = Tail(todo)
             \/ fd' = "stdout" /\ todo' = <<>>
      BY <2>1, <3>2 DEF Open, Done, Leave
    <3> QED BY <3>1, <3>3 DEF Opening
  <2>2. CASE todo = <<shake, map, shake>> /\ fd = "mali0" /\ handshake = 0
    <3>1. Head(todo) = shake /\ Tail(todo) = <<map, shake>>
      BY <2>2
    <3>2. Handshake
      BY <1>3, <3>1 DEF Open, MapTracking, Running
    <3>3. status' = "exited" \/ (fd' = "mali0" /\ handshake' = 1 /\ todo' = Tail(todo))
      BY <2>2, <3>2 DEF Handshake, Done, IoctlFails, Stop
    <3> QED BY <3>1, <3>3 DEF Opening
  <2>3. CASE todo = <<map, shake>> /\ fd = "mali0" /\ handshake = 1
    <3>1. Head(todo) = map /\ Tail(todo) = <<shake>>
      BY <2>3
    <3>2. MapTracking
      BY <1>3, <3>1 DEF Open, Handshake, Running
    <3>3. \/ fd' = "mali0" /\ handshake' = 2 /\ todo' = Tail(todo)
          \/ fd' = "-1" /\ todo' = <<>>
      BY <2>3, <3>2 DEF MapTracking, Done, Leave
    <3> QED BY <3>1, <3>3 DEF Opening
  <2>4. CASE todo = <<shake>> /\ fd = "mali0" /\ handshake = 2
    <3>1. Head(todo) = shake /\ Tail(todo) = <<>>
      BY <2>4
    <3>2. Handshake
      BY <1>3, <3>1 DEF Open, MapTracking, Running
    <3>3. status' = "exited" \/ (fd' = "mali0" /\ handshake' = 3 /\ todo' = Tail(todo))
      BY <2>4, <3>2 DEF Handshake, Done, IoctlFails, Stop
    <3> QED BY <3>1, <3>3 DEF Opening
  <2> QED BY <1>1, <2>1, <2>2, <2>3, <2>4 DEF Opening
<1> QED BY <1>1, <1>4, <1>5 DEF HandshakeInv, NotReady

LEMMA HandshakeNext == HandshakeInv /\ [Next]_vars => HandshakeInv'
<1> SUFFICES ASSUME HandshakeInv, [Next]_vars PROVE HandshakeInv'
  OBVIOUS
<1>1. CASE UNCHANGED vars
  BY <1>1 DEF vars, cbma, shim, queue, program, HandshakeInv, NotReady, Opening
<1>2. CASE Call
  BY <1>2, HandshakeCall
<1>3. CASE Next /\ ~Call
  <2>1. made \in Nat
    BY DEF HandshakeInv
  <2>2. made # 0
    BY <1>3 DEF HandshakeInv, Next, Open, Handshake, MapTracking, Ioctl, MapPool,
                MapZeroes, MmapGpu, Galloc, Flush, Submit, Running
  <2> QED BY <1>3, <2>1, <2>2, HandshakeOpen, HandshakeLater
<1> QED BY <1>1, <1>2, <1>3

(***************************************************************************)
(* Nothing is allocated or submitted before the kernel has seen the whole  *)
(* handshake (open_kernel_module, m_ioctl), whatever the program calls     *)
(* after its set-up and wherever the kernel refuses.                       *)
(***************************************************************************)
THEOREM HandshakeComesFirst == Spec => []HandshakeFirst
<1>1. HandshakeInv => HandshakeFirst
  <2> SUFFICES ASSUME HandshakeInv, ~NotReady PROVE fd = "mali0" /\ handshake = 3
    BY DEF HandshakeFirst, NotReady
  <2>1. made > 1
    BY DEF HandshakeInv
  <2> QED BY <2>1 DEF HandshakeInv
<1> QED BY <1>1, HandshakeInit, HandshakeNext, PTL DEF Spec

-----------------------------------------------------------------------------
(***************************************************************************)
(* What a call still does: a job chain ends by handing over its atom, and  *)
(* has no more than ChainLen effects; before that it takes the memory of   *)
(* its jobs, of which the atom's first one is needed.  All other calls     *)
(* take no blocks and submit no atom.                                      *)
(***************************************************************************)
GallocSizes == {16, 24, 32, 48, 64, 276, 280}
Part == [op : {"ioctl", "map_zeroes", "mmap_gpu"}]
        \cup [op : {"galloc"}, use : Uses, size : GallocSizes]
PlainEffect ==
    [op : {"ioctl", "map_pool", "flush", "open", "handshake", "map_tracking"}]
IsGalloc(e) == e.op = "galloc"
IsJob(e) == e.op = "galloc" /\ e.use = "job"

\* x takes memory for n jobs, at least.
Owes(x, n) ==
    \E f \in [1..n -> 1..Len(x)] : /\ \A i, j \in 1..n : i < j => f[i] < f[j]
                                   /\ \A i \in 1..n : IsJob(x[f[i]])
Needs(kind) == CASE kind = "vertex_tiler" -> 3
                 [] kind = "fragment"     -> 1
                 [] OTHER                 -> 0
ChainLen == 29

Supplied(x, kind, n, b) ==
    /\ \E m \in Nat : Owes(x, m) /\ n + m >= Needs(kind)
    /\ b # <<>> \/ \E k \in 1..Len(x) : IsGalloc(x[k])

LEMMA PartIs ==
    ASSUME NEW e \in Part
    PROVE  /\ e.op \in {"ioctl", "map_zeroes", "mmap_gpu", "galloc"}
           /\ IsGalloc(e) => e.size \in GallocSizes /\ e.size \in Nat /\ e.use \in Uses
<1>1. CASE e \in [op : {"ioctl", "map_zeroes", "mmap_gpu"}]
  BY <1>1 DEF IsGalloc
<1>2. CASE e \in [op : {"galloc"}, use : Uses, size : GallocSizes]
  BY <1>2 DEF GallocSizes
<1> QED BY <1>1, <1>2 DEF Part

\* What is owed after the first effect.
LEMMA OwesTail ==
    ASSUME NEW x \in Seq(Part), x # <<>>, NEW m \in Nat, Owes(x, m)
    PROVE  /\ IsJob(Head(x)) /\ m > 0 => Owes(Tail(x), m - 1)
           /\ ~IsJob(Head(x)) => Owes(Tail(x), m)
<1>1. PICK f \in [1..m -> 1..Len(x)] :
         /\ \A i, j \in 1..m : i < j => f[i] < f[j]
         /\ \A i \in 1..m : IsJob(x[f[i]])
  BY DEF Owes
<1>2. /\ Len(x) \in Nat /\ Len(Tail(x)) = Len(x) - 1 /\ Head(x) = x[1]
      /\ \A k \in 1..(Len(x) - 1) : Tail(x)[k] = x[k + 1]
  OBVIOUS
<1>3. ASSUME m > 0 PROVE Owes(Tail(x), m - 1)
  <2> DEFINE g == [i \in 1..(m - 1) |-> f[i + 1] - 1]
  <2>1. ASSUME NEW i \in 1..(m - 1)
        PROVE  g[i] \in 1..(Len(x) - 1) /\ g[i] + 1 = f[i + 1] /\ i + 1 \in 1..m
    <3>1. 1 \in 1..m /\ i + 1 \in 1..m /\ f[1] < f[i + 1] /\ f[1] \in 1..Len(x)
          /\ f[i + 1] \in 1..Len(x)
      BY <1>1, <1>3
    <3> QED BY <1>2, <3>1
  <2>2. g \in [1..(m - 1) -> 1..Len(Tail(x))]
    BY <1>2, <2>1
  <2>3. ASSUME NEW i \in 1..(m - 1), NEW j \in 1..(m - 1), i < j PROVE g[i] < g[j]
    <3>1. f[i + 1] < f[j + 1]
      BY <1>1, <2>1, <2>3
    <3>2. g[i] \in Int /\ g[j] \in Int /\ g[i] + 1 = f[i + 1] /\ g[j] + 1 = f[j + 1]
      BY <2>1
    <3>3. f[i + 1] \in Int /\ f[j + 1] \in Int
      BY <3>2
    <3> HIDE DEF g
    <3> QED BY ONLY <3>1, <3>2, <3>3
  <2>4. ASSUME NEW i \in 1..(m - 1) PROVE IsJob(Tail(x)[g[i]])
    <3>1. Tail(x)[g[i]] = x[f[i + 1]]
      BY <1>2, <2>1
    <3> QED BY <1>1, <2>1, <3>1
  <2> QED BY <2>2, <2>3, <2>4 DEF Owes
<1>4. ASSUME ~IsJob(Head(x)) PROVE Owes(Tail(x), m)
  <2> DEFINE g == [i \in 1..m |-> f[i] - 1]
  <2>1. ASSUME NEW i \in 1..m
        PROVE  g[i] \in 1..(Len(x) - 1) /\ g[i] + 1 = f[i]
    <3>1. f[i] # 1 /\ f[i] \in 1..Len(x)
      BY <1>1, <1>2, <1>4
    <3> QED BY <1>2, <3>1
  <2>2. g \in [1..m -> 1..Len(Tail(x))]
    BY <1>2, <2>1
  <2>3. ASSUME NEW i \in 1..m, NEW j \in 1..m, i < j PROVE g[i] < g[j]
    <3>1. f[i] < f[j]
      BY <1>1, <2>3
    <3>2. g[i] \in Int /\ g[j] \in Int /\ g[i] + 1 = f[i] /\ g[j] + 1 = f[j]
      BY <2>1
    <3> HIDE DEF g
    <3> QED BY <3>1, <3>2
  <2>4. ASSUME NEW i \in 1..m PROVE IsJob(Tail(x)[g[i]])
    <3>1. Tail(x)[g[i]] = x[f[i]]
      BY <1>2, <2>1
    <3> QED BY <1>1, <3>1
  <2> QED BY <2>2, <2>3, <2>4 DEF Owes
<1> QED BY <1>3, <1>4

\* Two parts of a chain, one after the other.
LEMMA PartCat ==
    ASSUME NEW x \in Seq(Part), NEW y \in Seq(Part)
    PROVE  /\ x \o y \in Seq(Part) /\ Len(x \o y) = Len(x) + Len(y)
           /\ \A k \in 1..Len(x) : (x \o y)[k] = x[k]
           /\ \A k \in 1..Len(y) : (x \o y)[Len(x) + k] = y[k]
BY ConcatProperties

LEMMA GallocPart ==
    ASSUME NEW use \in Uses, NEW sz \in GallocSizes
    PROVE  galloc(use, sz) \in Part /\ IsGalloc(galloc(use, sz))
           /\ (IsJob(galloc(use, sz)) <=> use = "job")
BY DEF Part, galloc, IsGalloc, IsJob

\* The pieces of the vertex and tiler chain.
LEMMA VertexTilerPieces ==
    /\ upload_vertices \in Seq(Part) /\ Len(upload_vertices) = 2
    /\ make_mfbd \in Seq(Part) /\ Len(make_mfbd) = 1
    /\ zero_buffer_pages \in Seq(Part) /\ Len(zero_buffer_pages) = 2
    /\ set_value_helper \in Seq(Part) /\ Len(set_value_helper) = 1
    /\ IsJob(set_value_helper[1])
    /\ import_shader \in Seq(Part) /\ Len(import_shader) = 2
<1>1. /\ ioctl \in Part /\ [op |-> "map_zeroes"] \in Part /\ [op |-> "mmap_gpu"] \in Part
  BY DEF Part, ioctl
<1>2. /\ galloc("attribute_buffer", 16) \in Part /\ galloc("vertices", 48) \in Part
      /\ galloc("mfbd", 280) \in Part
  BY GallocPart DEF Uses, GallocSizes
<1>3. galloc("job", HeaderSize + 16) \in Part /\ IsJob(galloc("job", HeaderSize + 16))
  BY GallocPart DEF Uses, GallocSizes, HeaderSize
<1>4. upload_vertices \in Seq(Part) /\ Len(upload_vertices) = 2
  BY <1>2 DEF upload_vertices
<1>5. make_mfbd \in Seq(Part) /\ Len(make_mfbd) = 1
  BY <1>2 DEF make_mfbd
<1>6. /\ set_value_helper \in Seq(Part) /\ Len(set_value_helper) = 1
      /\ IsJob(set_value_helper[1])
  BY <1>3 DEF set_value_helper
<1>7. ASSUME NEW x \in Part, NEW y \in Part
      PROVE  <<x>> \o <<y>> \in Seq(Part) /\ Len(<<x>> \o <<y>>) = 2
             /\ <<x>> \o <<>> = <<x>>
  OBVIOUS
<1>8. zero_buffer_pages \in Seq(Part) /\ Len(zero_buffer_pages) = 2
  BY <1>1, <1>7 DEF zero_buffer_pages, alloc_gpu_pages
<1>9. import_shader \in Seq(Part) /\ Len(import_shader) = 2
  BY <1>1, <1>7 DEF import_shader, alloc_gpu_pages
<1> QED BY <1>4, <1>5, <1>6, <1>8, <1>9

LEMMA HelperPiece ==
    ASSUME NEW tiler \in BOOLEAN
    PROVE  /\ vertex_tiler_helper(tiler) \in Seq(Part)
           /\ Len(vertex_tiler_helper(tiler)) = 11
           /\ IsJob(vertex_tiler_helper(tiler)[1])
<1> DEFINE last == galloc(IF tiler THEN "nullForVertex" ELSE "unknown7", 64)
           first == <<galloc("job", HeaderSize + 244),
                      galloc("unknown1", 16), galloc("unknown2", 32),
                      galloc("shader_meta", 24), galloc("attribute_meta", 16),
                      galloc("unknown5", 32), galloc("unknown6", 64), last>>
           buffer == <<galloc("writeBuffer", 64)>>
<1>1. /\ galloc("job", HeaderSize + 244) \in Part /\ galloc("unknown1", 16) \in Part
      /\ galloc("unknown2", 32) \in Part /\ galloc("shader_meta", 24) \in Part
      /\ galloc("attribute_meta", 16) \in Part /\ galloc("unknown5", 32) \in Part
      /\ galloc("unknown6", 64) \in Part /\ galloc("writeBuffer", 64) \in Part
      /\ last \in Part /\ IsJob(galloc("job", HeaderSize + 244))
  BY GallocPart DEF Uses, GallocSizes, HeaderSize
<1>2. vertex_tiler_helper(tiler) = first \o import_shader \o buffer
  BY DEF vertex_tiler_helper
<1> HIDE DEF last
<1>3. /\ first \in Seq(Part) /\ buffer \in Seq(Part) /\ Len(first) = 8 /\ Len(buffer) = 1
      /\ IsJob(first[1])
  BY <1>1
<1> HIDE DEF first, buffer
<1>4. PICK all : all = first \o import_shader
  OBVIOUS
<1>5. all \in Seq(Part) /\ Len(all) = 10 /\ all[1] = first[1]
  <2>1. /\ all \in Seq(Part) /\ Len(all) = Len(first) + Len(import_shader)
        /\ \A k \in 1..Len(first) : all[k] = first[k]
    <3>1. import_shader \in Seq(Part) /\ first \in Seq(Part)
      BY <1>3, VertexTilerPieces
    <3> HIDE VertexTilerPieces
    <3> QED BY <1>4, <3>1, PartCat
  <2> QED BY <1>3, <2>1, VertexTilerPieces
<1>6. /\ all \o buffer \in Seq(Part) /\ Len(all \o buffer) = Len(all) + Len(buffer)
      /\ \A k \in 1..Len(all) : (all \o buffer)[k] = all[k]
  BY <1>3, <1>5, PartCat
<1>7. vertex_tiler_helper(tiler) = all \o buffer
  BY <1>2, <1>4
<1> QED BY <1>3, <1>5, <1>6, <1>7

\* The three chains.
LEMMA VertexTilerChain ==
    \E x \in Seq(Part) : /\ Effects["vertex_tiler"] = x \o <<submit_job("vertex_tiler")>>
                         /\ Len(x) = 28 /\ Owes(x, 3)
                         /\ \E k \in 1..Len(x) : IsGalloc(x[k])
<1> DEFINE early == upload_vertices \o make_mfbd
<1>1. PICK a : a = early \o zero_buffer_pages
  OBVIOUS
<1>2. PICK b : b = a \o set_value_helper
  OBVIOUS
<1>3. PICK c : c = b \o vertex_tiler_helper(FALSE)
  OBVIOUS
<1>4. PICK x : x = c \o vertex_tiler_helper(TRUE)
  OBVIOUS
<1>11. Effects["vertex_tiler"] = x \o <<submit_job("vertex_tiler")>>
  BY <1>1, <1>2, <1>3, <1>4 DEF Effects, job_chain_vertex_tiler
<1>5. a \in Seq(Part) /\ Len(a) = 5
  <2>1. early \in Seq(Part) /\ Len(early) = 3
    <3>1. early \in Seq(Part) /\ Len(early) = Len(upload_vertices) + Len(make_mfbd)
      BY PartCat, VertexTilerPieces
    <3> QED BY <3>1, VertexTilerPieces
  <2> HIDE DEF early
  <2>2. a \in Seq(Part) /\ Len(a) = Len(early) + Len(zero_buffer_pages)
    BY <1>1, <2>1, PartCat, VertexTilerPieces
  <2> QED BY <2>1, <2>2, VertexTilerPieces
<1>6. b \in Seq(Part) /\ Len(b) = 6 /\ IsJob(b[6])
  <2>1. /\ b \in Seq(Part) /\ Len(b) = Len(a) + Len(set_value_helper)
        /\ \A k \in 1..Len(set_value_helper) : b[Len(a) + k] = set_value_helper[k]
    BY <1>2, <1>5, PartCat, VertexTilerPieces
  <2>2. b[5 + 1] = set_value_helper[1]
    BY <1>5, <2>1, VertexTilerPieces
  <2> QED BY <1>5, <2>1, <2>2, VertexTilerPieces
<1>7. c \in Seq(Part) /\ Len(c) = 17 /\ IsJob(c[6]) /\ IsJob(c[7])
  <2> DEFINE h == vertex_tiler_helper(FALSE)
  <2>1. h \in Seq(Part) /\ Len(h) = 11 /\ IsJob(h[1])
    BY HelperPiece
  <2>2. c = b \o h
    BY <1>3
  <2> HIDE DEF h
  <2>3. /\ c \in Seq(Part) /\ Len(c) = Len(b) + Len(h)
        /\ \A k \in 1..Len(b) : c[k] = b[k]
        /\ \A k \in 1..Len(h) : c[Len(b) + k] = h[k]
    BY <1>6, <2>1, <2>2, PartCat
  <2>4. c[6] = b[6] /\ c[6 + 1] = h[1]
    BY <1>6, <2>1, <2>3
  <2> QED BY <1>6, <2>1, <2>3, <2>4
<1>8. x \in Seq(Part) /\ Len(x) = 28 /\ IsJob(x[6]) /\ IsJob(x[7]) /\ IsJob(x[18])
  <2> DEFINE h == vertex_tiler_helper(TRUE)
  <2>1. h \in Seq(Part) /\ Len(h) = 11 /\ IsJob(h[1])
    BY HelperPiece
  <2>2. x = c \o h
    BY <1>4
  <2> HIDE DEF h
  <2>3. /\ x \in Seq(Part) /\ Len(x) = Len(c) + Len(h)
        /\ \A k \in 1..Len(c) : x[k] = c[k]
        /\ \A k \in 1..Len(h) : x[Len(c) + k] = h[k]
    BY <1>7, <2>1, <2>2, PartCat
  <2>4. x[6] = c[6] /\ x[7] = c[7] /\ x[17 + 1] = h[1]
    BY <1>7, <2>1, <2>3
  <2> QED BY <1>7, <2>1, <2>3, <2>4
<1>9. Owes(x, 3)
  <2> DEFINE f == [i \in 1..3 |-> IF i = 1 THEN 6 ELSE IF i = 2 THEN 7 ELSE 18]
  <2>1. f \in [1..3 -> 1..Len(x)] /\ \A i, j \in 1..3 : i < j => f[i] < f[j]
    BY <1>8
  <2>2. \A i \in 1..3 : IsJob(x[f[i]])
    BY <1>8
  <2> QED BY <2>1, <2>2 DEF Owes
<1>10. 6 \in 1..Len(x) /\ IsGalloc(x[6])
  BY <1>8 DEF IsJob, IsGalloc
<1> QED BY <1>11, <1>8, <1>9, <1>10

LEMMA FragmentChain ==
    \E x \in Seq(Part) : /\ Effects["fragment"] = x \o <<submit_job("fragment")>>
                         /\ Len(x) = 2 /\ Owes(x, 1)
                         /\ \E k \in 1..Len(x) : IsGalloc(x[k])
<1> DEFINE a == <<galloc("job", HeaderSize + 16)>>
           x == a \o make_mfbd
<1>1. a \in Seq(Part) /\ Len(a) = 1 /\ IsJob(a[1])
  <2>1. galloc("job", HeaderSize + 16) \in Part /\ IsJob(galloc("job", HeaderSize + 16))
    BY GallocPart DEF Uses, GallocSizes, HeaderSize
  <2> QED BY <2>1
<1>2. Effects["fragment"] = x \o <<submit_job("fragment")>>
  BY DEF Effects, job_chain_fragment
<1> HIDE DEF a
<1>3. x \in Seq(Part) /\ Len(x) = 2 /\ IsJob(x[1])
  <2>1. /\ x \in Seq(Part) /\ Len(x) = Len(a) + Len(make_mfbd)
        /\ \A k \in 1..Len(a) : x[k] = a[k]
    BY <1>1, PartCat, VertexTilerPieces
  <2> QED BY <1>1, <2>1, VertexTilerPieces
<1> HIDE DEF x
<1>4. Owes(x, 1)
  <2> DEFINE f == [i \in 1..1 |-> 1]
  <2>1. f \in [1..1 -> 1..Len(x)] /\ \A i \in 1..1 : IsJob(x[f[i]])
    BY <1>3
  <2>2. \A i, j \in 1..1 : ~(i < j)
    OBVIOUS
  <2> QED BY <2>1, <2>2 DEF Owes
<1>5. 1 \in 1..Len(x) /\ IsGalloc(x[1])
  BY <1>3 DEF IsJob, IsGalloc
<1> QED BY <1>2, <1>3, <1>4, <1>5

LEMMA TwoEffects ==
    ASSUME NEW e, NEW g
    PROVE  <<e>> \o <<g>> = <<e, g>>
<1> DEFINE s == <<e>> \o <<g>>
           t == <<e, g>>
           T == {e, g}
<1>1. <<e>> \in Seq(T) /\ <<g>> \in Seq(T) /\ t \in Seq(T)
  OBVIOUS
<1>2. /\ s \in Seq(T) /\ Len(s) = Len(<<e>>) + Len(<<g>>)
      /\ \A k \in 1..(Len(<<e>>) + Len(<<g>>)) :
           s[k] = IF k <= Len(<<e>>) THEN <<e>>[k] ELSE <<g>>[k - Len(<<e>>)]
  BY <1>1, ConcatProperties
<1>3. Len(<<e>>) = 1 /\ Len(<<g>>) = 1 /\ Len(t) = 2
  OBVIOUS
<1>4. <<e>>[1] = e /\ <<g>>[1] = g /\ t[1] = e /\ t[2] = g
  OBVIOUS
<1>5. s[1] = e /\ s[2] = g /\ Len(s) = 2
  <2>1. 1 \in 1..2 /\ 2 \in 1..2 /\ ~(2 <= 1) /\ 2 - 1 = 1
    OBVIOUS
  <2> HIDE DEF s
  <2> QED BY <1>2, <1>3, <1>4, <2>1
<1> HIDE DEF s, t
<1>6. \A k \in 1..Len(s) : s[k] = t[k]
  BY <1>3, <1>4, <1>5
<1>7. s = t
  BY <1>1, <1>2, <1>3, <1>5, <1>6, SeqEqual
<1> QED BY <1>7 DEF s, t

LEMMA ReplayChain ==
    \E x \in Seq(Part) : /\ Effects["replay"] = x \o <<submit_job("replay")>>
                         /\ Len(x) = 1
                         /\ \E k \in 1..Len(x) : IsGalloc(x[k])
<1> DEFINE x == <<galloc("replay_payload", 48)>>
<1>1. x \in Seq(Part) /\ Len(x) = 1 /\ IsGalloc(x[1])
  <2>1. galloc("replay_payload", 48) \in Part /\ IsGalloc(galloc("replay_payload", 48))
    BY GallocPart DEF Uses, GallocSizes
  <2> QED BY <2>1
<1>2. Effects["replay"] = x \o <<submit_job("replay")>>
  <2>1. Effects["replay"] = <<galloc("replay_payload", 48), submit_job("replay")>>
    BY DEF Effects, job_chain_replay
  <2> QED BY <2>1, TwoEffects
<1> HIDE DEF x
<1>3. 1 \in 1..Len(x)
  BY <1>1
<1> QED BY <1>1, <1>2, <1>3

-----------------------------------------------------------------------------
(***************************************************************************)
(* The call in progress: the rest of a job chain, with what it needs of    *)
(* the packets and blocks in memory, or of a call that makes no jobs.      *)
(***************************************************************************)
InChain(x, kind) ==
    /\ kind \in Kinds /\ x \in Seq(Part) /\ Len(x) < ChainLen
    /\ todo = x \o <<submit_job(kind)>>
    /\ Supplied(x, kind, Len(packets), blocks)
CallInv == todo \in Seq(PlainEffect) \/ \E kind \in Kinds : \E x \in Seq(Part) : InChain(x, kind)

\* The calls that make no jobs.
LEMMA PlainCalls ==
    ASSUME NEW call \in {"flush"} \cup Range(Setup)
    PROVE  Effects[call] \in Seq(PlainEffect)
<1>1. /\ ioctl \in PlainEffect /\ [op |-> "map_pool"] \in PlainEffect
      /\ [op |-> "flush"] \in PlainEffect /\ [op |-> "open"] \in PlainEffect
      /\ [op |-> "handshake"] \in PlainEffect /\ [op |-> "map_tracking"] \in PlainEffect
  BY DEF PlainEffect, ioctl
<1>2. call \in {"flush", "open_kernel_module", "ioctl", "init_cbma", "alloc_gpu_pages"}
  BY DEF Range, Setup
<1>3. open_kernel_module \in Seq(PlainEffect)
  BY <1>1 DEF open_kernel_module
<1>4. <<ioctl>> \in Seq(PlainEffect) /\ flush_job_queue \in Seq(PlainEffect)
  BY <1>1 DEF flush_job_queue
<1>5. init_cbma \in Seq(PlainEffect) /\ alloc_gpu_pages(<<>>) \in Seq(PlainEffect)
  <2>1. ASSUME NEW s \in Seq(PlainEffect), NEW t \in Seq(PlainEffect)
        PROVE  s \o t \in Seq(PlainEffect)
    OBVIOUS
  <2>2. <<[op |-> "map_pool"]>> \in Seq(PlainEffect) /\ <<>> \in Seq(PlainEffect)
    BY <1>1
  <2> QED BY <1>4, <2>1, <2>2 DEF init_cbma, alloc_gpu_pages
<1>6. /\ Effects["flush"] = flush_job_queue /\ Effects["ioctl"] = <<ioctl>>
      /\ Effects["open_kernel_module"] = open_kernel_module
      /\ Effects["init_cbma"] = init_cbma
      /\ Effects["alloc_gpu_pages"] = alloc_gpu_pages(<<>>)
  BY DEF Effects
<1> QED BY <1>2, <1>3, <1>4, <1>5, <1>6

\* The job chains, when they start: they take the memory of their own jobs.
LEMMA ChainCalls ==
    ASSUME NEW kind \in Kinds, NEW n \in Nat, NEW b
    PROVE  \E x \in Seq(Part) : /\ Effects[kind] = x \o <<submit_job(kind)>>
                                /\ Len(x) < ChainLen /\ Supplied(x, kind, n, b)
<1>1. CASE kind = "vertex_tiler"
  <2>1. PICK x \in Seq(Part) : /\ Effects["vertex_tiler"] = x \o <<submit_job("vertex_tiler")>>
                               /\ Len(x) = 28 /\ Owes(x, 3)
                               /\ \E k \in 1..Len(x) : IsGalloc(x[k])
    BY VertexTilerChain
  <2>2. n + 3 >= Needs(kind) /\ 3 \in Nat
    BY <1>1 DEF Needs
  <2>5. Supplied(x, kind, n, b)
    BY <2>1, <2>2 DEF Supplied
  <2>6. Len(x) < ChainLen
    BY <2>1 DEF ChainLen
  <2> QED BY <1>1, <2>1, <2>5, <2>6
<1>2. CASE kind = "fragment"
  <2>1. PICK x \in Seq(Part) : /\ Effects["fragment"] = x \o <<submit_job("fragment")>>
                               /\ Len(x) = 2 /\ Owes(x, 1)
                               /\ \E k \in 1..Len(x) : IsGalloc(x[k])
    BY FragmentChain
  <2>2. n + 1 >= Needs(kind) /\ 1 \in Nat
    BY <1>2 DEF Needs
  <2>5. Supplied(x, kind, n, b)
    BY <2>1, <2>2 DEF Supplied
  <2>6. Len(x) < ChainLen
    BY <2>1 DEF ChainLen
  <2> QED BY <1>2, <2>1, <2>5, <2>6
<1>3. CASE kind = "replay"
  <2>1. PICK x \in Seq(Part) : /\ Effects["replay"] = x \o <<submit_job("replay")>>
                               /\ Len(x) = 1
                               /\ \E k \in 1..Len(x) : IsGalloc(x[k])
    BY ReplayChain
  <2>2. n + 0 >= Needs(kind) /\ 0 \in Nat
    BY <1>3 DEF Needs
  <2>3. Owes(x, 0)
    <3>1. PICK f : f = [i \in 1..0 |-> 1]
      OBVIOUS
    <3>2. f \in [1..0 -> 1..Len(x)] /\ ~\E i \in 1..0 : TRUE
      BY <3>1
    <3> QED BY <3>2 DEF Owes
  <2>5. Supplied(x, kind, n, b)
    BY <2>1, <2>2, <2>3 DEF Supplied
  <2>6. Len(x) < ChainLen
    BY <2>1 DEF ChainLen
  <2> QED BY <1>3, <2>1, <2>5, <2>6
<1> QED BY <1>1, <1>2, <1>3 DEF Kinds

\* What a chain needs is there when all of it is done.
LEMMA SuppliedAll ==
    ASSUME NEW kind \in Kinds, NEW n \in Nat, NEW b, Supplied(<<>>, kind, n, b)
    PROVE  n >= Needs(kind) /\ b # <<>>
<1>1. PICK m \in Nat : Owes(<<>>, m) /\ n + m >= Needs(kind)
  BY DEF Supplied
<1>2. m = 0
  <2>1. PICK f : f \in [1..m -> 1..Len(<<>>)]
    BY <1>1 DEF Owes
  <2>2. Len(<<>>) = 0
    OBVIOUS
  <2>3. ASSUME m > 0 PROVE FALSE
    <3>1. f[1] \in 1..Len(<<>>)
      BY <2>1, <2>3
    <3> QED BY <2>2, <3>1
  <2> QED BY <2>3
<1>3. ~\E k \in 1..Len(<<>>) : IsGalloc(<<>>[k])
  <2>1. Len(<<>>) = 0
    OBVIOUS
  <2> QED BY <2>1
<1>4. Needs(kind) \in Nat
  BY DEF Needs
<1> QED BY <1>1, <1>2, <1>3, <1>4 DEF Supplied

\* The rest of a chain has what it needs, after an effect of it.
LEMMA SuppliedTail ==
    ASSUME NEW kind \in Kinds, NEW n \in Nat, NEW b, NEW b1, NEW n1 \in Nat,
           NEW x \in Seq(Part), x # <<>>, Supplied(x, kind, n, b),
           n1 = IF IsJob(Head(x)) THEN n + 1 ELSE n,
           b # <<>> => b1 # <<>>, IsGalloc(Head(x)) => b1 # <<>>
    PROVE  Supplied(Tail(x), kind, n1, b1)
<1>1. PICK m \in Nat : Owes(x, m) /\ n + m >= Needs(kind)
  BY DEF Supplied
<1>2. Needs(kind) \in Nat
  BY DEF Needs
<1>3. \E m1 \in Nat : Owes(Tail(x), m1) /\ n1 + m1 >= Needs(kind)
  <2>1. CASE ~IsJob(Head(x))
    BY <1>1, <2>1, OwesTail
  <2>2. CASE IsJob(Head(x)) /\ m > 0
    <3>1. Owes(Tail(x), m - 1) /\ m - 1 \in Nat /\ n1 + (m - 1) >= Needs(kind)
      <4>1. Owes(Tail(x), m - 1)
        BY <1>1, <2>2, OwesTail
      <4> QED BY <1>1, <1>2, <2>2, <4>1
    <3> QED BY <3>1
  <2>3. CASE IsJob(Head(x)) /\ m = 0
    <3>1. Owes(Tail(x), 0)
      <4>1. PICK f : f = [i \in 1..0 |-> 1]
        OBVIOUS
      <4>2. f \in [1..0 -> 1..Len(Tail(x))] /\ ~\E i \in 1..0 : TRUE
        BY <4>1
      <4> QED BY <4>2 DEF Owes
    <3>2. n1 + 0 >= Needs(kind)
      BY <1>1, <1>2, <2>3
    <3> QED BY <3>1, <3>2
  <2> QED BY <1>1, <2>1, <2>2, <2>3
<1>4. b1 # <<>> \/ \E k \in 1..Len(Tail(x)) : IsGalloc(Tail(x)[k])
  <2> SUFFICES ASSUME b = <<>>, ~IsGalloc(Head(x))
               PROVE  \E k \in 1..Len(Tail(x)) : IsGalloc(Tail(x)[k])
    OBVIOUS
  <2>1. PICK k \in 1..Len(x) : IsGalloc(x[k])
    BY DEF Supplied
  <2>2. k # 1
    BY <2>1
  <2>3. /\ k - 1 \in 1..Len(Tail(x)) /\ Tail(x)[k - 1] = x[k]
    BY <2>2
  <2> QED BY <2>1, <2>3
<1> QED BY <1>3, <1>4 DEF Supplied

\* What a running chain does next: an effect of its own, or the submission.
LEMMA ChainHead ==
    ASSUME NEW x, NEW kind, InChain(x, kind)
    PROVE  /\ x # <<>> => /\ Head(x) \in Part /\ Tail(x) \in Seq(Part)
                          /\ Len(Tail(x)) = Len(x) - 1
                          /\ Head(todo) = Head(x)
                          /\ Tail(todo) = Tail(x) \o <<submit_job(kind)>>
           /\ x = <<>> => Head(todo) = submit_job(kind) /\ Tail(todo) = <<>>
           /\ todo # <<>> /\ Len(todo) = Len(x) + 1
<1> DEFINE e == submit_job(kind)
<1>1. x \in Seq(Part) /\ todo = x \o <<e>>
  BY DEF InChain
<1> HIDE DEF e
<1> DEFINE T == Part \cup {e}
<1>2. x \in Seq(T) /\ <<e>> \in Seq(T)
  BY <1>1
<1>3. /\ todo \in Seq(T) /\ Len(todo) = Len(x) + Len(<<e>>)
      /\ \A k \in 1..(Len(x) + Len(<<e>>)) :
           todo[k] = IF k <= Len(x) THEN x[k] ELSE <<e>>[k - Len(x)]
  BY <1>1, <1>2, ConcatProperties
<1>4. Len(<<e>>) = 1 /\ <<e>>[1] = e /\ Len(x) \in Nat
  BY <1>1
<1>5. todo # <<>> /\ Len(todo) = Len(x) + 1
  BY <1>3, <1>4
<1>6. ASSUME x # <<>>
      PROVE  /\ Head(x) \in Part /\ Tail(x) \in Seq(Part) /\ Len(Tail(x)) = Len(x) - 1
             /\ Head(todo) = Head(x) /\ Tail(todo) = Tail(x) \o <<e>>
  <2>1. Head(x) \in Part /\ Tail(x) \in Seq(Part) /\ Len(Tail(x)) = Len(x) - 1 /\ Len(x) >= 1
    BY <1>1, <1>6
  <2>2. Head(todo) = Head(x)
    BY <1>2, <1>3, <1>4, <1>5, <2>1
  <2>3. Tail(todo) = Tail(x) \o <<e>>
    <3> DEFINE s == Tail(todo)
               t == Tail(x) \o <<e>>
    <3>1. s \in Seq(T) /\ Len(s) = Len(x) /\ \A k \in 1..Len(x) : s[k] = todo[k + 1]
      BY <1>3, <1>4, <1>5
    <3>2. Tail(x) \in Seq(T) /\ \A k \in 1..(Len(x) - 1) : Tail(x)[k] = x[k + 1]
      BY <1>2, <1>6
    <3>3. /\ t \in Seq(T) /\ Len(t) = Len(Tail(x)) + Len(<<e>>)
          /\ \A k \in 1..(Len(Tail(x)) + Len(<<e>>)) :
               t[k] = IF k <= Len(Tail(x)) THEN Tail(x)[k] ELSE <<e>>[k - Len(Tail(x))]
      BY <1>2, <3>2, ConcatProperties
    <3> HIDE DEF s, t
    <3>4. Len(t) = Len(x)
      BY <1>4, <2>1, <3>3
    <3>5. ASSUME NEW k \in 1..Len(x) PROVE s[k] = t[k]
      <4>1. CASE k <= Len(x) - 1
        <5>1. t[k] = Tail(x)[k]
          BY <1>4, <2>1, <3>3, <4>1
        <5>2. Tail(x)[k] = x[k + 1]
          BY <1>4, <3>2, <4>1
        <5>3. todo[k + 1] = x[k + 1]
          BY <1>3, <1>4, <4>1
        <5> QED BY <3>1, <5>1, <5>2, <5>3
      <4>2. CASE k = Len(x)
        <5>1. t[k] = e
          BY <1>4, <2>1, <3>3, <4>2
        <5>2. todo[k + 1] = e
          BY <1>3, <1>4, <4>2
        <5> QED BY <3>1, <5>1, <5>2
      <4> QED BY <1>4, <4>1, <4>2
    <3>6. s = t
      BY <3>1, <3>3, <3>4, <3>5, SeqEqual
    <3> QED BY <3>6 DEF s, t
  <2> QED BY <2>1, <2>2, <2>3
<1>7. ASSUME x = <<>> PROVE Head(todo) = e /\ Tail(todo) = <<>>
  <2>1. Len(x) = 0
    BY <1>7
  <2>2. todo[1] = e /\ Len(todo) = 1
    BY <1>3, <1>4, <2>1
  <2>3. Head(todo) = e
    BY <1>3, <2>2
  <2>4. Tail(todo) \in Seq(T) /\ Len(Tail(todo)) = 0
    BY <1>3, <2>2
  <2>5. Tail(todo) = <<>>
    <3>1. PICK t : t = Tail(todo)
      OBVIOUS
    <3>2. t \in Seq(T) /\ Len(t) = 0
      BY <2>4, <3>1
    <3> HIDE DEF T
    <3>3. t = <<>>
      BY <3>2, EmptySeq
    <3> QED BY <3>1, <3>3
  <2> QED BY <2>3, <2>5
<1> QED BY <1>5, <1>6, <1>7 DEF e

\* Only a chain takes blocks, and they have sizes of synthesise.c.
LEMMA ChainGalloc ==
    ASSUME CallInv, Running("galloc")
    PROVE  \E kind \in Kinds : \E x \in Seq(Part) :
             /\ InChain(x, kind) /\ x # <<>> /\ Head(todo) = Head(x)
             /\ IsGalloc(Head(x)) /\ Head(todo).size \in GallocSizes
<1>1. todo # <<>> /\ Head(todo).op = "galloc"
  BY DEF Running
<1>2. todo \notin Seq(PlainEffect)
  <2> SUFFICES ASSUME todo \in Seq(PlainEffect) PROVE FALSE
    OBVIOUS
  <2>1. Head(todo) \in PlainEffect
    BY <1>1
  <2> QED BY <1>1, <2>1 DEF PlainEffect
<1>3. PICK kind \in Kinds, x \in Seq(Part) : InChain(x, kind)
  BY <1>2 DEF CallInv
<1>4. x # <<>>
  <2> SUFFICES ASSUME x = <<>> PROVE FALSE
    OBVIOUS
  <2>1. Head(todo) = submit_job(kind)
    BY <1>3, ChainHead
  <2> QED BY <1>1, <2>1 DEF submit_job
<1>5. Head(todo) = Head(x) /\ Head(x) \in Part
  BY <1>3, <1>4, ChainHead
<1>6. IsGalloc(Head(x))
  BY <1>1, <1>5 DEF IsGalloc
<1>7. Head(todo).size \in GallocSizes
  BY <1>5, <1>6, PartIs
<1> QED BY <1>3, <1>4, <1>5, <1>6, <1>7

\* An atom is submitted at the end of a chain, whose packets are in memory.
LEMMA ChainSubmit ==
    ASSUME CallInv, Running("submit"), packets \in Seq(Nat)
    PROVE  \E kind \in Kinds :
             /\ InChain(<<>>, kind) /\ Head(todo).kind = kind
             /\ Len(packets) >= Needs(kind) /\ blocks # <<>>
<1>1. todo # <<>> /\ Head(todo).op = "submit"
  BY DEF Running
<1>2. todo \notin Seq(PlainEffect)
  <2> SUFFICES ASSUME todo \in Seq(PlainEffect) PROVE FALSE
    OBVIOUS
  <2>1. Head(todo) \in PlainEffect
    BY <1>1
  <2> QED BY <1>1, <2>1 DEF PlainEffect
<1>3. PICK kind \in Kinds, x \in Seq(Part) : InChain(x, kind)
  BY <1>2 DEF CallInv
<1>4. x = <<>>
  <2> SUFFICES ASSUME x # <<>> PROVE FALSE
    OBVIOUS
  <2>1. Head(todo) = Head(x) /\ Head(x) \in Part
    BY <1>3, ChainHead
  <2> QED BY <1>1, <2>1, PartIs
<1>5. Head(todo) = submit_job(kind)
  BY <1>3, <1>4, ChainHead
<1>6. Supplied(<<>>, kind, Len(packets), blocks)
  BY <1>3, <1>4 DEF InChain
<1>7. Len(packets) >= Needs(kind) /\ blocks # <<>>
  <2>1. Len(packets) \in Nat
    OBVIOUS
  <2> QED BY <1>6, <2>1, SuppliedAll
<1> QED BY <1>3, <1>4, <1>5, <1>7 DEF submit_job

\* The actions within a call.
Within == \/ Open \/ Handshake \/ MapTracking \/ Ioctl \/ MapPool \/ MapZeroes
          \/ MmapGpu \/ Galloc \/ Flush \/ Submit

LEMMA WithinTodo ==
    ASSUME Within
    PROVE  /\ status = "running" /\ todo # <<>> /\ Running(Head(todo).op)
           /\ todo' \in {Tail(todo), <<>>} /\ made' = made /\ only_main' = only_main
           /\ status' \in {"running", "exited", "crashed"}
<1>1. status = "running" /\ todo # <<>> /\ Running(Head(todo).op)
  BY DEF Within, Open, Handshake, MapTracking, Ioctl, MapPool, MapZeroes, MmapGpu,
         Galloc, Flush, Submit, Running
<1>2. Done \/ Leave \/ Stop("exited") \/ Stop("crashed")
  BY DEF Within, Open, Handshake, MapTracking, Ioctl, MapPool, MapZeroes, MmapGpu,
         Galloc, Flush, Submit, FlushQueue, Enqueue, IoctlFails
<1> QED BY <1>1, <1>2 DEF Done, Leave, Stop

LEMMA CallStarts ==
    ASSUME packets \in Seq(Nat), Call
    PROVE  CallInv'
<1>1. PICK call \in Kinds \cup {"flush"} \cup Range(Setup) : todo' = Effects[call]
  BY DEF Call
<1>2. packets' = packets /\ blocks' = blocks
  BY DEF Call, chains, cbma
<1>3. CASE call \in Kinds
  <2>1. Len(packets) \in Nat
    OBVIOUS
  <2>2. PICK x \in Seq(Part) : /\ Effects[call] = x \o <<submit_job(call)>>
                               /\ Len(x) < ChainLen
                               /\ Supplied(x, call, Len(packets), blocks)
    BY <1>3, <2>1, ChainCalls
  <2>3. InChain(x, call)'
    BY <1>1, <1>2, <1>3, <2>2 DEF InChain
  <2> QED BY <1>3, <2>3 DEF CallInv
<1>4. CASE call \notin Kinds
  <2>1. Effects[call] \in Seq(PlainEffect)
    BY <1>4, PlainCalls
  <2> QED BY <1>1, <2>1 DEF CallInv
<1> QED BY <1>3, <1>4

LEMMA ChainGoesOn ==
    ASSUME packets \in Seq(Nat), blocks \in Seq(Heap!Block), Within,
           NEW kind \in Kinds, NEW x \in Seq(Part), InChain(x, kind), x # <<>>,
           todo' = Tail(todo)
    PROVE  InChain(Tail(x), kind)'
<1>1. /\ Head(x) \in Part /\ Tail(x) \in Seq(Part) /\ Len(Tail(x)) = Len(x) - 1
      /\ Head(todo) = Head(x) /\ Tail(todo) = Tail(x) \o <<submit_job(kind)>>
  BY ChainHead
<1>2. Head(x).op \in {"ioctl", "map_zeroes", "mmap_gpu", "galloc"}
  BY <1>1, PartIs
<1>3. Ioctl \/ MapZeroes \/ MmapGpu \/ Galloc
  BY <1>1, <1>2 DEF Within, Open, Handshake, MapTracking, MapPool, Flush, Submit, Running
<1>4. /\ Supplied(x, kind, Len(packets), blocks) /\ Len(x) < ChainLen
      /\ Len(packets) \in Nat /\ Len(x) \in Nat
  BY DEF InChain
<1> DEFINE n == Len(packets)
           b == blocks
           n1 == Len(packets')
           b1 == blocks'
<1>5. /\ n1 \in Nat /\ n1 = IF IsJob(Head(x)) THEN n + 1 ELSE n
      /\ b # <<>> => b1 # <<>>
      /\ IsGalloc(Head(x)) => b1 # <<>>
  <2>1. CASE Galloc
    <3>1. Head(x).op = "galloc"
      BY <1>1, <2>1 DEF Galloc, Running
    <3>2. packets' = IF IsJob(Head(x)) THEN Append(packets, Heap!NextBlock(cbma_bottom))
                     ELSE packets
      BY <1>1, <2>1, <3>1 DEF Galloc, IsJob
    <3>3. PICK blk : blocks' = Append(blocks, blk)
      BY <2>1 DEF Galloc, Heap!Galloc
    <3>4. b1 # <<>>
      <4>1. blocks' \in Seq(Heap!Block \cup {blk}) /\ Len(blocks') = Len(blocks) + 1
        BY <3>3
      <4> QED BY <4>1
    <3>5. PICK p : p = Heap!NextBlock(cbma_bottom)
      OBVIOUS
    <3>6. Len(Append(packets, p)) = n + 1
      OBVIOUS
    <3> QED BY <1>4, <3>2, <3>4, <3>5, <3>6
  <2>2. CASE Ioctl \/ MapZeroes \/ MmapGpu
    <3>1. packets' = packets /\ blocks' = blocks
      BY <2>2 DEF Ioctl, MapZeroes, MmapGpu, chains, cbma
    <3>2. Head(x).op # "galloc"
      BY <1>1, <2>2 DEF Ioctl, MapZeroes, MmapGpu, Running
    <3> QED BY <1>4, <3>1, <3>2 DEF IsJob, IsGalloc
  <2> QED BY <1>3, <2>1, <2>2
<1>6. Supplied(Tail(x), kind, n1, b1)
  <2> HIDE DEF n, b, n1, b1
  <2>1. n \in Nat /\ Supplied(x, kind, n, b)
    BY <1>4 DEF n, b
  <2> QED BY <1>5, <2>1, SuppliedTail
<1>7. Len(Tail(x)) < ChainLen
  <2>1. Len(x) - 1 < ChainLen
    BY <1>4 DEF ChainLen
  <2> QED BY <1>1, <2>1
<1>8. todo' = Tail(x) \o <<submit_job(kind)>>
  BY <1>1
<1>9. PICK y : y = Tail(x)
  OBVIOUS
<1>10. InChain(y, kind)'
  BY <1>1, <1>6, <1>7, <1>8, <1>9 DEF InChain
<1> QED BY <1>9, <1>10

LEMMA CallNext ==
    ASSUME packets \in Seq(Nat), blocks \in Seq(Heap!Block), CallInv, [Next]_vars
    PROVE  CallInv'
<1>1. CASE Call
  BY <1>1, CallStarts
<1>2. CASE UNCHANGED vars
  BY <1>2 DEF vars, program, chains, cbma, CallInv, InChain
<1>3. CASE Within
  <2>1. todo # <<>> /\ todo' \in {Tail(todo), <<>>}
    BY <1>3, WithinTodo
  <2>2. CASE todo' = <<>>
    <3>1. <<>> \in Seq(PlainEffect)
      OBVIOUS
    <3> QED BY <2>2, <3>1 DEF CallInv
  <2>3. CASE todo' = Tail(todo) /\ todo \in Seq(PlainEffect)
    <3>1. Tail(todo) \in Seq(PlainEffect)
      BY <2>1, <2>3
    <3> QED BY <2>3, <3>1 DEF CallInv
  <2>4. ASSUME todo' = Tail(todo), NEW kind \in Kinds, NEW x \in Seq(Part), InChain(x, kind)
        PROVE  CallInv'
    <3>1. CASE x = <<>>
      <4>1. todo' = <<>>
        BY <2>4, <3>1, ChainHead
      <4> QED BY <2>2, <4>1
    <3>2. CASE x # <<>>
      <4>1. InChain(Tail(x), kind)' /\ Tail(x) \in Seq(Part)
        BY <1>3, <2>4, <3>2, ChainGoesOn
      <4> QED BY <4>1 DEF CallInv
    <3> QED BY <3>1, <3>2
  <2> QED BY <2>1, <2>2, <2>3, <2>4 DEF CallInv
<1> QED BY <1>1, <1>2, <1>3 DEF Next, Within

-----------------------------------------------------------------------------
(***************************************************************************)
(* Types.                                                                  *)
(***************************************************************************)
MemoryTyped ==
    /\ {cbma_bottom, base, spent} \subseteq Nat
    /\ blocks \in Seq(Heap!Block) /\ packets \in Seq(Nat)
AtomsTyped ==
    /\ {atom_queue, accepted, delivered} \subseteq Seq(Atom)
    /\ {atom_count, tiler_jc, fragment_jc} \subseteq Nat
    /\ zero_buffer \in ZeroBuffers
ProgramTyped ==
    /\ fd \in Descriptors /\ handshake \in 0..3
    /\ only_main \in BOOLEAN /\ made \in 0..Len(Main)
    /\ status \in {"running", "exited", "crashed"}
TypeInv == MemoryTyped /\ AtomsTyped /\ ProgramTyped /\ CallInv

LEMMA NextBlockType ==
    ASSUME NEW bottom \in Nat
    PROVE  /\ Heap!NextBlock(bottom) \in Nat
           /\ \A sz \in Nat : (Heap!NextBlock(bottom) + sz) % Word \in Nat
                              /\ Heap!Cost(sz) \in Nat
<1>1. Word \in Nat \ {0}
  BY HeapAssumption DEF Heap!PoolAssumption
<1>2. Heap!NextBlock(bottom) \in Nat
  BY <1>1 DEF Heap!NextBlock, Heap!Slot
<1>3. ASSUME NEW sz \in Nat PROVE Heap!Cost(sz) \in Nat
  BY DEF Heap!Cost, Heap!Slot
<1>4. ASSUME NEW a \in Nat, NEW sz \in Nat PROVE (a + sz) % Word \in Nat
  BY <1>1
<1> QED BY <1>2, <1>3, <1>4

LEMMA TypeInit == Init => TypeInv
<1> SUFFICES ASSUME Init PROVE TypeInv
  OBVIOUS
<1>1. MemoryTyped
  BY DEF Init, Heap!Init, MemoryTyped
<1>2. AtomsTyped
  BY DEF Init, AtomsTyped, ZeroBuffers
<1>3. ProgramTyped
  <2>1. Len(Main) = 11
    BY DEF Main, Setup
  <2> QED BY <2>1 DEF Init, ProgramTyped, Descriptors
<1>4. CallInv
  <2>1. <<>> \in Seq(PlainEffect)
    OBVIOUS
  <2> QED BY <2>1 DEF Init, CallInv
<1> QED BY <1>1, <1>2, <1>3, <1>4 DEF TypeInv

LEMMA MemoryNext == TypeInv /\ [Next]_vars => MemoryTyped'
<1> SUFFICES ASSUME TypeInv, [Next]_vars PROVE MemoryTyped'
  OBVIOUS
<1>1. MemoryTyped /\ CallInv
  BY DEF TypeInv
<1>2. CASE MapPool
  <2>1. packets' = packets
    BY <1>2 DEF MapPool, chains
  <2>2. CASE UNCHANGED cbma
    BY <1>1, <2>1, <2>2 DEF MemoryTyped, cbma
  <2>3. CASE Heap!InitCbma
    <3>1. base' \in Nat
      BY <2>3, HeapAssumption DEF Heap!InitCbma, Heap!PoolAssumption
    <3> QED BY <1>1, <2>1, <2>3, <3>1 DEF Heap!InitCbma, MemoryTyped
  <2> QED BY <1>2, <2>2, <2>3 DEF MapPool
<1>3. CASE Galloc
  <2>1. Running("galloc")
    BY <1>3 DEF Galloc
  <2>2. Head(todo).size \in GallocSizes
    BY <1>1, <2>1, ChainGalloc
  <2>3. PICK sz : sz = Head(todo).size
    OBVIOUS
  <2>4. PICK addr : addr = Heap!NextBlock(cbma_bottom)
    OBVIOUS
  <2>5. sz \in Nat
    BY <2>2, <2>3 DEF GallocSizes
  <2>6. addr \in Nat /\ (addr + sz) % Word \in Nat /\ Heap!Cost(sz) \in Nat
    BY <1>1, <2>4, <2>5, NextBlockType DEF MemoryTyped
  <2>7. /\ cbma_bottom' = (addr + sz) % Word
        /\ blocks' = Append(blocks, [addr |-> addr, size |-> sz])
        /\ spent' = spent + Heap!Cost(sz) /\ base' = base
    BY <1>3, <2>3, <2>4 DEF Galloc, Heap!Galloc
  <2>8. [addr |-> addr, size |-> sz] \in Heap!Block
    BY <2>5, <2>6 DEF Heap!Block
  <2>9. blocks' \in Seq(Heap!Block)
    BY <1>1, <2>7, <2>8 DEF MemoryTyped
  <2>10. packets' \in Seq(Nat)
    <3>1. packets' = packets \/ packets' = Append(packets, addr)
      BY <1>3, <2>4 DEF Galloc
    <3>2. packets \in Seq(Nat) /\ addr \in Nat
      BY <1>1, <2>6 DEF MemoryTyped
    <3>3. Append(packets, addr) \in Seq(Nat)
      BY <3>2, AppendProperties
    <3> QED BY <3>1, <3>2, <3>3
  <2> QED BY <1>1, <2>6, <2>7, <2>9, <2>10 DEF MemoryTyped
<1>4. CASE Submit
  BY <1>1, <1>4 DEF Submit, cbma, MemoryTyped
<1>5. CASE Call \/ Open \/ Handshake \/ MapTracking \/ Ioctl \/ MapZeroes
           \/ MmapGpu \/ Flush \/ UNCHANGED vars
  <2>1. UNCHANGED cbma /\ packets' = packets
    BY <1>5 DEF Call, Open, Handshake, MapTracking, Ioctl, MapZeroes, MmapGpu,
                Flush, chains, vars
  <2> QED BY <1>1, <2>1 DEF MemoryTyped, cbma
<1> QED BY <1>2, <1>3, <1>4, <1>5 DEF Next

\* The atom that a chain hands over.
LEMMA SubmittedAtom ==
    ASSUME TypeInv, Submit
    PROVE  \E a \in Atom : /\ accepted' = Append(accepted, a)
                           /\ Enqueue(Append(atom_queue, a))
                           /\ {tiler_jc', fragment_jc'} \subseteq Nat
<1>1. Running("submit") /\ CallInv /\ packets \in Seq(Nat) /\ blocks \in Seq(Heap!Block)
  BY DEF Submit, TypeInv, MemoryTyped
<1>2. PICK kind \in Kinds : /\ Head(todo).kind = kind
                            /\ Len(packets) >= Needs(kind) /\ blocks # <<>>
  BY <1>1, ChainSubmit
<1> DEFINE packet(n) == packets[Len(packets) + 1 - n]
           jc == CASE kind = "vertex_tiler" -> packet(3)
                   [] kind = "fragment"     -> packet(1)
                   [] kind = "replay"       -> Last(blocks).addr
<1>3. PICK a : a = NewAtom(kind, jc)
  OBVIOUS
<1>4. /\ accepted' = Append(accepted, a) /\ Enqueue(Append(atom_queue, a))
      /\ tiler_jc' = IF kind = "vertex_tiler" THEN packet(1) ELSE tiler_jc
      /\ fragment_jc' = IF kind = "fragment" THEN packet(1) ELSE fragment_jc
  BY <1>2, <1>3 DEF Submit
<1>5. ASSUME kind # "replay" PROVE packet(1) \in Nat
  <2>1. Len(packets) >= 1
    BY <1>1, <1>2, <1>5 DEF Needs, Kinds
  <2> QED BY <1>1, <2>1
<1>6. jc \in Nat
  <2>1. CASE kind = "vertex_tiler"
    <3>1. Len(packets) >= 3
      BY <1>1, <1>2, <2>1 DEF Needs
    <3>2. packet(3) \in Nat
      BY <1>1, <3>1
    <3> QED BY <2>1, <3>2
  <2>2. CASE kind = "fragment"
    BY <1>5, <2>2
  <2>3. CASE kind = "replay"
    <3>1. blocks[Len(blocks)] \in Heap!Block
      BY <1>1, <1>2
    <3> QED BY <2>3, <3>1 DEF Heap!Block, Last
  <2> QED BY <2>1, <2>2, <2>3 DEF Kinds
<1> HIDE DEF jc
<1>7. a \in Atom
  <2>1. /\ (atom_count + 1) % AtomIds \in Ids /\ atom_count % AtomIds \in Ids /\ 0 \in Ids
        /\ tiler_jc \in Nat /\ zero_buffer \in ZeroBuffers /\ "none" \in ZeroBuffers
    BY DriverAssumption DEF TypeInv, AtomsTyped, Ids, ZeroBuffers
  <2> QED BY <1>3, <1>6, <2>1 DEF NewAtom, Dependency, Atom
<1>8. {tiler_jc', fragment_jc'} \subseteq Nat
  <2>1. tiler_jc \in Nat /\ fragment_jc \in Nat
    BY DEF TypeInv, AtomsTyped
  <2> HIDE DEF packet
  <2>2. tiler_jc' \in Nat
    BY <1>4, <1>5, <2>1
  <2>3. fragment_jc' \in Nat
    BY <1>4, <1>5, <2>1
  <2> QED BY <2>2, <2>3
<1> QED BY <1>4, <1>7, <1>8

LEMMA AtomsNext == TypeInv /\ [Next]_vars => AtomsTyped'
<1> SUFFICES ASSUME TypeInv, [Next]_vars PROVE AtomsTyped'
  OBVIOUS
<1>1. AtomsTyped
  BY DEF TypeInv
<1>2. ASSUME NEW q \in Seq(Atom), FlushQueue(q)
      PROVE  atom_queue' \in Seq(Atom) /\ delivered' \in Seq(Atom)
  <2>1. delivered \in Seq(Atom)
    BY <1>1 DEF AtomsTyped
  <2> QED BY <1>2, <2>1, FlushKeeps
<1>3. CASE Flush
  <2>1. /\ accepted' = accepted /\ atom_count' = atom_count /\ tiler_jc' = tiler_jc
        /\ fragment_jc' = fragment_jc /\ zero_buffer' = zero_buffer
    BY <1>3 DEF Flush, chains
  <2>2. atom_queue' \in Seq(Atom) /\ delivered' \in Seq(Atom)
    BY <1>1, <1>2, <1>3 DEF Flush, AtomsTyped
  <2> QED BY <1>1, <2>1, <2>2 DEF AtomsTyped
<1>4. CASE Submit
  <2>1. PICK a \in Atom : /\ accepted' = Append(accepted, a)
                          /\ Enqueue(Append(atom_queue, a))
                          /\ {tiler_jc', fragment_jc'} \subseteq Nat
    BY <1>4, SubmittedAtom
  <2>2. atom_count' = atom_count + 1 /\ zero_buffer' = "none"
    BY <1>4 DEF Submit
  <2>3. accepted' \in Seq(Atom) /\ Append(atom_queue, a) \in Seq(Atom)
    BY <1>1, <2>1 DEF AtomsTyped
  <2>4. atom_queue' \in Seq(Atom) /\ delivered' \in Seq(Atom)
    BY <1>1, <1>2, <2>1, <2>3 DEF Enqueue, AtomsTyped
  <2> QED BY <1>1, <2>1, <2>2, <2>3, <2>4 DEF AtomsTyped, ZeroBuffers
<1>5. CASE MapZeroes
  BY <1>1, <1>5 DEF MapZeroes, queue, AtomsTyped, ZeroBuffers
<1>6. CASE Call \/ Open \/ Handshake \/ MapTracking \/ Ioctl \/ MapPool
           \/ MmapGpu \/ Galloc \/ UNCHANGED vars
  <2>1. /\ UNCHANGED queue /\ atom_count' = atom_count /\ tiler_jc' = tiler_jc
        /\ fragment_jc' = fragment_jc /\ zero_buffer' = zero_buffer
    BY <1>6 DEF Call, Open, Handshake, MapTracking, Ioctl, MapPool, MmapGpu,
                Galloc, chains, vars
  <2> QED BY <1>1, <2>1 DEF AtomsTyped, queue
<1> QED BY <1>3, <1>4, <1>5, <1>6 DEF Next

LEMMA ProgramNext == HandshakeInv /\ TypeInv /\ [Next]_vars => ProgramTyped'
<1> SUFFICES ASSUME HandshakeInv, TypeInv, [Next]_vars PROVE ProgramTyped'
  OBVIOUS
<1>1. ProgramTyped /\ CallInv
  BY DEF TypeInv
<1>2. Len(Setup) = 7 /\ Len(Main) = 11
  BY DEF Setup, Main
<1>3. CASE UNCHANGED vars
  BY <1>1, <1>3 DEF vars, shim, program, ProgramTyped
<1>4. CASE Call
  <2>1. /\ fd' = fd /\ handshake' = handshake /\ only_main' = only_main /\ status' = status
        /\ made' = IF only_main \/ made < Len(Setup) THEN made + 1 ELSE made
        /\ \E call : MayCall(call)
    BY <1>4 DEF Call, shim
  <2>2. made' \in 0..Len(Main)
    BY <1>1, <1>2, <2>1 DEF MayCall, ProgramTyped
  <2> QED BY <1>1, <2>1, <2>2 DEF ProgramTyped
<1>5. CASE Within
  <2>1. made' = made /\ only_main' = only_main /\ status' \in {"running", "exited", "crashed"}
    BY <1>5, WithinTodo
  <2>2. fd' \in Descriptors
    <3>1. fd' \in {fd, "mali0", "stdout", "-1"}
      BY <1>5 DEF Within, Open, Handshake, MapTracking, Ioctl, MapPool, MapZeroes,
                  MmapGpu, Galloc, Flush, Submit, shim
    <3> QED BY <1>1, <3>1 DEF ProgramTyped, Descriptors
  <2>3. handshake' \in 0..3
    <3>1. CASE handshake' = handshake
      BY <1>1, <3>1 DEF ProgramTyped
    <3>2. CASE handshake' # handshake
      <4>1. (Handshake \/ MapTracking) /\ handshake' = handshake + 1 /\ status = "running"
        BY <1>5, <3>2 DEF Within, Open, Handshake, MapTracking, Ioctl, MapPool,
                          MapZeroes, MmapGpu, Galloc, Flush, Submit, shim, Running
      <4>2. todo # <<>> /\ Head(todo).op \in {"handshake", "map_tracking"}
        BY <4>1 DEF Handshake, MapTracking, Running
      <4>3. made = 1
        <5>1. CASE made > 1
          <6>1. Head(todo) \in Quiet
            BY <4>2, <5>1 DEF HandshakeInv
          <6> QED BY <4>2, <6>1 DEF Quiet
        <5>2. made \in Nat /\ made # 0
          BY <4>2 DEF HandshakeInv
        <5> QED BY <5>1, <5>2
      <4>4. Opening
        BY <4>1, <4>3 DEF HandshakeInv
      <4>5. handshake \in {0, 1, 2}
        BY <4>2, <4>4 DEF Opening
      <4> QED BY <4>1, <4>5
    <3> QED BY <3>1, <3>2
  <2> QED BY <1>1, <2>1, <2>2, <2>3 DEF ProgramTyped
<1> QED BY <1>3, <1>4, <1>5 DEF Next, Within

LEMMA TypeNext == HandshakeInv /\ TypeInv /\ [Next]_vars => TypeInv'
<1> SUFFICES ASSUME HandshakeInv, TypeInv, [Next]_vars PROVE TypeInv'
  OBVIOUS
<1>1. MemoryTyped' /\ AtomsTyped' /\ ProgramTyped'
  BY MemoryNext, AtomsNext, ProgramNext
<1>2. CallInv'
  BY CallNext DEF TypeInv, MemoryTyped
<1> QED BY <1>1, <1>2 DEF TypeInv

(***************************************************************************)
(* Type correctness of the driver: every job chain finds the packets and   *)
(* blocks that its atom points at, whatever calls were made before it.     *)
(***************************************************************************)
THEOREM DriverTypeCorrect == Spec => []TypeOK
<1>1. TypeInv /\ Bounded => TypeOK
  BY DEF TypeInv, MemoryTyped, AtomsTyped, ProgramTyped, Bounded, TypeOK
<1> QED BY <1>1, TypeInit, TypeNext, HandshakeInit, HandshakeNext, QueueInit,
           QueueNext, BoundedInit, BoundedNext, PTL DEF Spec

-----------------------------------------------------------------------------
(***************************************************************************)
(* How many blocks the program takes.  prototype.c starts three chains,    *)
(* another program MaxAtoms, each after the pool is there; a chain takes a *)
(* slot with each of its effects, at most.                                 *)
(***************************************************************************)
Limit == IF only_main THEN IF made <= 7 THEN 0 ELSE IF made <= 10 THEN made - 7 ELSE 3
                      ELSE MaxAtoms

\* The pool holds what that many chains take, and one slot.
PoolHolds == \A n \in {3, MaxAtoms} : Heap!Slot + Heap!Slot * ChainLen * n <= PoolSize

\* init_cbma is the third call of every program.
PoolReady ==
    /\ made = 3 => \/ status # "running" \/ base # 0
                   \/ todo = init_cbma \/ todo = <<[op |-> "map_pool"]>>
    /\ made > 3 => base # 0

Between == /\ todo \in Seq(PlainEffect)
           /\ Len(accepted) <= Limit
           /\ spent <= Heap!Slot * ChainLen * Len(accepted)
Making(x, kind) ==
    /\ InChain(x, kind) /\ made >= 7 /\ Len(accepted) + 1 <= Limit
    /\ spent + Heap!Slot * Len(x) <= Heap!Slot * ChainLen * (Len(accepted) + 1)
RoomInv ==
    /\ PoolReady
    /\ status = "running" =>
         Between \/ \E kind \in Kinds : \E x \in Seq(Part) : Making(x, kind)

LEMMA SetupPlain ==
    /\ Len(Setup) = 7 /\ Len(Main) = 11
    /\ \A k \in 1..7 : Main[k] \in Range(Setup)
    /\ Main[3] = "init_cbma" /\ \A k \in {8, 9, 10} : Main[k] \in Kinds
    /\ Main[11] = "flush"
BY DEF Setup, Main, Range, Kinds

LEMMA InitCbmaEffects ==
    /\ Effects["init_cbma"] = init_cbma
    /\ init_cbma = <<ioctl, [op |-> "map_pool"]>>
<1>1. init_cbma = <<ioctl>> \o <<[op |-> "map_pool"]>>
  BY DEF init_cbma, alloc_gpu_pages
<1>2. init_cbma = <<ioctl, [op |-> "map_pool"]>>
  BY <1>1, TwoEffects
<1> QED BY <1>2 DEF Effects

LEMMA RoomInit == Init => RoomInv
<1> SUFFICES ASSUME Init PROVE RoomInv
  OBVIOUS
<1>1. made = 0 /\ todo = <<>> /\ accepted = <<>> /\ spent = 0
  BY DEF Init, Heap!Init
<1>2. Limit \in Nat /\ 0 <= Limit
  BY <1>1, DriverAssumption DEF Limit
<1>3. Between
  <2>1. todo \in Seq(PlainEffect) /\ Len(accepted) = 0
    BY <1>1
  <2> QED BY <1>1, <1>2, <2>1 DEF Between, ChainLen, Heap!Slot
<1> QED BY <1>1, <1>3 DEF RoomInv, PoolReady

\* The pool is there after the third call.
LEMMA PoolNext == TypeInv /\ PoolReady /\ [Next]_vars => PoolReady'
<1> SUFFICES ASSUME TypeInv, PoolReady, [Next]_vars PROVE PoolReady'
  OBVIOUS
<1>1. made \in 0..11
  BY SetupPlain DEF TypeInv, ProgramTyped
<1>2. CASE UNCHANGED vars
  BY <1>2 DEF vars, cbma, program, PoolReady
<1>3. CASE Call
  <2>1. /\ status = "running" /\ status' = status /\ todo = <<>> /\ base' = base
        /\ made' = IF only_main \/ made < Len(Setup) THEN made + 1 ELSE made
    BY <1>3 DEF Call, cbma
  <2>2. PICK call : MayCall(call) /\ todo' = Effects[call]
    BY <1>3 DEF Call
  <2>3. CASE made = 2
    <3>1. call = "init_cbma"
      BY <2>2, <2>3, SetupPlain DEF MayCall
    <3>2. made' = 3 /\ todo' = init_cbma
      BY <2>1, <2>2, <2>3, <3>1, SetupPlain, InitCbmaEffects
    <3> QED BY <3>2 DEF PoolReady
  <2>4. CASE made >= 3
    <3>1. base # 0
      <4>1. todo # init_cbma /\ todo # <<[op |-> "map_pool"]>>
        BY <2>1, InitCbmaEffects
      <4> QED BY <1>1, <2>1, <2>4, <4>1 DEF PoolReady
    <3> QED BY <2>1, <3>1 DEF PoolReady
  <2>5. CASE made < 2
    BY <1>1, <2>1, <2>5 DEF PoolReady
  <2> QED BY <1>1, <2>3, <2>4, <2>5
<1>4. CASE Within
  <2>1. /\ status = "running" /\ todo # <<>> /\ made' = made
        /\ todo' \in {Tail(todo), <<>>}
    BY <1>4, WithinTodo
  <2>2. base' = base \/ Heap!InitCbma
    BY <1>4 DEF Within, Open, Handshake, MapTracking, Ioctl, MapPool, MapZeroes,
                MmapGpu, Galloc, Flush, Submit, cbma, Heap!Galloc
  <2>3. CASE base # 0
    BY <2>1, <2>2, <2>3 DEF PoolReady, Heap!InitCbma
  <2>4. CASE base = 0 /\ made = 3 /\ todo = init_cbma
    <3>1. Head(todo) = ioctl /\ Tail(todo) = <<[op |-> "map_pool"]>>
      BY <2>4, InitCbmaEffects
    <3>2. Ioctl
      BY <1>4, <3>1 DEF ioctl, Within, Open, Handshake, MapTracking, MapPool,
                  MapZeroes, MmapGpu, Galloc, Flush, Submit, Running
    <3>3. status' # "running" \/ todo' = Tail(todo)
      BY <3>2 DEF Ioctl, IoctlFails, Done, Stop
    <3> QED BY <2>1, <2>4, <3>1, <3>3 DEF PoolReady
  <2>5. CASE base = 0 /\ made = 3 /\ todo = <<[op |-> "map_pool"]>>
    <3>1. Head(todo) = [op |-> "map_pool"]
      BY <2>5
    <3>2. MapPool
      BY <1>4, <3>1 DEF Within, Open, Handshake, MapTracking, Ioctl,
                  MapZeroes, MmapGpu, Galloc, Flush, Submit, Running
    <3>3. status' # "running" \/ Heap!InitCbma
      BY <3>2 DEF MapPool, Stop
    <3>4. ASSUME Heap!InitCbma PROVE base' # 0
      BY <3>4, HeapAssumption DEF Heap!InitCbma, Heap!PoolAssumption
    <3> QED BY <2>1, <2>5, <3>3, <3>4 DEF PoolReady
  <2>6. CASE base = 0 /\ made < 3
    BY <1>1, <2>1, <2>6 DEF PoolReady
  <2> QED BY <1>1, <2>1, <2>3, <2>4, <2>5, <2>6 DEF PoolReady
<1> QED BY <1>2, <1>3, <1>4 DEF Next, Within

LEMMA LimitType ==
    ASSUME made \in 0..11
    PROVE  Limit \in Nat /\ (Limit <= 3 \/ Limit <= MaxAtoms)
BY DriverAssumption DEF Limit

\* The blocks of synthesise.c fit into a slot.
LEMMA SlotEnough ==
    ASSUME NEW sz \in GallocSizes
    PROVE  sz \in Sizes /\ Heap!Cost(sz) = Heap!Slot
<1>1. sz \in Sizes
  BY HeapAssumption DEF GallocSizes
<1>2. sz \in 0..1023 /\ sz % 1024 = sz
  BY DEF GallocSizes
<1> QED BY <1>1, <1>2 DEF Heap!Cost, Heap!Slot

\* A chain in the making can afford its next block.
LEMMA MakingAffords ==
    ASSUME PoolHolds, TypeInv, PoolReady,
           NEW kind \in Kinds, NEW x \in Seq(Part), Making(x, kind), x # <<>>,
           NEW sz \in GallocSizes
    PROVE  Heap!Affordable(sz)
<1>1. Len(x) \in Nat \ {0} /\ Len(accepted) \in Nat /\ spent \in Nat /\ PoolSize \in Nat
  <2>1. PoolSize \in Nat
    BY HeapAssumption DEF Heap!PoolAssumption
  <2> QED BY <2>1 DEF TypeInv, AtomsTyped, MemoryTyped
<1>2. base # 0
  BY SetupPlain DEF Making, PoolReady, TypeInv, ProgramTyped
<1>3. Limit \in Nat /\ (Limit <= 3 \/ Limit <= MaxAtoms)
  BY LimitType, SetupPlain DEF TypeInv, ProgramTyped
<1>4. /\ 1024 + 1024 * 29 * 3 <= PoolSize
      /\ 1024 + 1024 * 29 * MaxAtoms <= PoolSize /\ MaxAtoms \in Nat
  BY DriverAssumption DEF PoolHolds, Heap!Slot, ChainLen
<1>5. 1024 + 1024 * 29 * Limit <= PoolSize
  BY <1>1, <1>3, <1>4
<1>6. /\ Len(accepted) + 1 <= Limit
      /\ spent + 1024 * Len(x) <= 1024 * 29 * (Len(accepted) + 1)
  BY DEF Making, Heap!Slot, ChainLen
<1>7. 1024 + spent + 1024 <= PoolSize
  BY <1>1, <1>3, <1>5, <1>6
<1> QED BY <1>2, <1>7, SlotEnough DEF Heap!Affordable, Heap!Slot

LEMMA RoomCall ==
    ASSUME TypeInv, RoomInv, Call
    PROVE  Between' \/ \E kind \in Kinds : \E x \in Seq(Part) : Making(x, kind)'
<1>1. /\ status = "running" /\ todo = <<>>
      /\ made' = IF only_main \/ made < 7 THEN made + 1 ELSE made
      /\ spent' = spent /\ accepted' = accepted /\ only_main' = only_main
      /\ packets' = packets /\ blocks' = blocks
  BY SetupPlain DEF Call, cbma, queue, chains
<1>2. Between
  BY <1>1, ChainHead DEF RoomInv, Making
<1>3. /\ made \in 0..11 /\ only_main \in BOOLEAN
      /\ Len(accepted) \in Nat /\ spent \in Nat /\ Len(packets) \in Nat
  <2>1. made \in 0..11 /\ only_main \in BOOLEAN
    BY SetupPlain DEF TypeInv, ProgramTyped
  <2>2. accepted \in Seq(Atom)
    BY DEF TypeInv, AtomsTyped
  <2>3. spent \in Nat /\ packets \in Seq(Nat)
    BY DEF TypeInv, MemoryTyped
  <2>4. Len(accepted) \in Nat
    BY <2>2, LenProperties
  <2>5. Len(packets) \in Nat
    BY <2>3, LenProperties
  <2> QED BY <2>1, <2>3, <2>4, <2>5
<1>4. /\ Len(accepted) <= Limit /\ spent <= 1024 * 29 * Len(accepted)
  BY <1>2 DEF Between, Heap!Slot, ChainLen
<1>5. PICK call \in Kinds \cup {"flush"} \cup Range(Setup) :
        MayCall(call) /\ todo' = Effects[call]
  BY DEF Call
<1>6. only_main \/ made < 7 => made < 11
  BY <1>5, SetupPlain DEF MayCall
<1>7. CASE call \in Kinds
  <2>1. PICK x \in Seq(Part) : /\ Effects[call] = x \o <<submit_job(call)>>
                               /\ Len(x) < ChainLen
                               /\ Supplied(x, call, Len(packets), blocks)
    BY <1>3, <1>7, ChainCalls
  <2>2. InChain(x, call)'
    BY <1>1, <1>5, <1>7, <2>1 DEF InChain
  <2>3. made' >= 7 /\ Len(accepted) + 1 <= Limit'
    <3>1. CASE only_main \/ made < 7
      <4>1. call = Main[made + 1] /\ made + 1 \in 1..11
        BY <1>3, <1>5, <1>6, <3>1, SetupPlain DEF MayCall
      <4>2. made + 1 \notin 1..7
        <5>1. \A call1 \in Range(Setup) : call1 \notin Kinds
          BY DEF Range, Setup, Kinds
        <5> QED BY <1>7, <4>1, <5>1, SetupPlain
      <4>3. made + 1 # 11
        BY <1>7, <4>1, SetupPlain DEF Kinds
      <4>4. made \in {7, 8, 9} /\ only_main /\ made' = made + 1
        BY <1>1, <1>3, <3>1, <4>1, <4>2, <4>3
      <4>5. Limit = made - 7 /\ Limit' = made - 6
        BY <1>1, <4>4 DEF Limit
      <4> QED BY <1>3, <1>4, <4>4, <4>5
    <3>2. CASE ~only_main /\ made >= 7
      <4>1. Len(accepted) < MaxAtoms
        BY <1>3, <1>5, <1>7, <3>2, SetupPlain DEF MayCall
      <4>2. Limit' = MaxAtoms /\ made' = made
        BY <1>1, <1>3, <3>2 DEF Limit
      <4> QED BY <1>3, <3>2, <4>1, <4>2, DriverAssumption
    <3> QED BY <1>3, <3>1, <3>2
  <2>4. spent + 1024 * Len(x) <= 1024 * 29 * (Len(accepted) + 1)
    <3>1. Len(x) \in Nat /\ Len(x) < 29
      BY <2>1 DEF ChainLen
    <3> QED BY <1>3, <1>4, <3>1
  <2>5. Making(x, call)'
    BY <1>1, <2>2, <2>3, <2>4 DEF Making, Heap!Slot, ChainLen
  <2> QED BY <1>7, <2>5
<1>8. CASE call \notin Kinds
  <2>1. todo' \in Seq(PlainEffect)
    BY <1>5, <1>8, PlainCalls
  <2>2. Limit <= Limit' /\ Limit \in Nat /\ Limit' \in Nat
    BY <1>1, <1>3, <1>6, DriverAssumption DEF Limit
  <2>3. Len(accepted) <= Limit'
    BY <1>3, <1>4, <2>2
  <2> QED BY <1>1, <1>2, <2>1, <2>3 DEF Between
<1> QED BY <1>7, <1>8

\* An effect of a call that makes no jobs.
LEMMA RoomPlain ==
    ASSUME Within, Between
    PROVE  Between'
<1>1. /\ todo # <<>> /\ made' = made /\ only_main' = only_main
      /\ todo' \in {Tail(todo), <<>>}
  BY WithinTodo
<1>2. todo \in Seq(PlainEffect) /\ Head(todo) \in PlainEffect
  BY <1>1 DEF Between
<1>3. Head(todo).op \notin {"galloc", "submit"}
  BY <1>2 DEF PlainEffect
<1>4. spent' = spent /\ accepted' = accepted
  BY <1>3 DEF Within, Open, Handshake, MapTracking, Ioctl, MapPool, MapZeroes,
              MmapGpu, Galloc, Flush, Submit, cbma, queue, Running, Heap!InitCbma
<1>5. todo' \in Seq(PlainEffect)
  <2>1. <<>> \in Seq(PlainEffect)
    OBVIOUS
  <2>2. Tail(todo) \in Seq(PlainEffect)
    BY <1>1, <1>2
  <2> QED BY <1>1, <2>1, <2>2
<1> QED BY <1>1, <1>4, <1>5 DEF Between, Limit

\* An effect of a job chain.
LEMMA RoomChain ==
    ASSUME TypeInv, Within, status' = "running",
           NEW kind \in Kinds, NEW x \in Seq(Part), Making(x, kind)
    PROVE  Between' \/ \E y \in Seq(Part) : Making(y, kind)'
<1>1. todo # <<>> /\ made' = made /\ only_main' = only_main
  BY WithinTodo
<1>2. /\ InChain(x, kind) /\ made >= 7 /\ Len(accepted) + 1 <= Limit
      /\ spent + 1024 * Len(x) <= 1024 * 29 * (Len(accepted) + 1)
      /\ Len(x) \in Nat
  BY DEF Making, Heap!Slot, ChainLen
<1>3. Len(accepted) \in Nat /\ spent \in Nat /\ packets \in Seq(Nat)
      /\ blocks \in Seq(Heap!Block) /\ CallInv
  BY DEF TypeInv, AtomsTyped, MemoryTyped
<1>4. Limit' = Limit
  BY <1>1 DEF Limit
<1>5. CASE x = <<>>
  <2>1. Head(todo) = submit_job(kind) /\ Tail(todo) = <<>>
    <3>1. InChain(x, kind)
      BY <1>2
    <3> QED BY <1>5, <3>1, ChainHead
  <2>2. Submit
    BY <2>1 DEF submit_job, Within, Open, Handshake, MapTracking, Ioctl, MapPool,
                MapZeroes, MmapGpu, Galloc, Flush, Running
  <2>3. PICK a \in Atom : accepted' = Append(accepted, a)
    BY <2>2, SubmittedAtom
  <2>4. Len(accepted') = Len(accepted) + 1
    BY <2>3 DEF TypeInv, AtomsTyped
  <2>5. spent' = spent
    BY <2>2 DEF Submit, cbma
  <2>6. todo' \in Seq(PlainEffect)
    <3>1. todo' = <<>>
      BY <2>1, WithinTodo
    <3> QED BY <3>1
  <2>7. Len(x) = 0
    BY <1>5
  <2>8. spent' <= 1024 * 29 * Len(accepted')
    BY <1>2, <1>3, <2>4, <2>5, <2>7
  <2> QED BY <1>2, <1>4, <2>4, <2>6, <2>8 DEF Between, Heap!Slot, ChainLen
<1>6. CASE x # <<>>
  <2>1. /\ Head(x) \in Part /\ Tail(x) \in Seq(Part) /\ Len(Tail(x)) = Len(x) - 1
        /\ Head(todo) = Head(x)
    <3>1. InChain(x, kind)
      BY <1>2
    <3> QED BY <1>6, <3>1, ChainHead
  <2>2. Head(x).op \in {"ioctl", "map_zeroes", "mmap_gpu", "galloc"}
    BY <2>1, PartIs
  <2>3. Ioctl \/ MapZeroes \/ MmapGpu \/ Galloc
    BY <2>1, <2>2 DEF Within, Open, Handshake, MapTracking, MapPool, Flush, Submit, Running
  <2>4. todo' = Tail(todo) /\ accepted' = accepted
    BY <2>3 DEF Ioctl, MapZeroes, MmapGpu, Galloc, Done, Stop, IoctlFails, queue
  <2>5. InChain(Tail(x), kind)'
    BY <1>2, <1>3, <1>6, <2>4, ChainGoesOn
  <2>6. spent' = spent \/ spent' = spent + 1024
    <3>1. CASE Galloc
      <4>1. Running("galloc")
        BY <3>1 DEF Galloc
      <4>2. Head(todo).size \in GallocSizes
        BY <1>3, <4>1, ChainGalloc
      <4>3. PICK sz : sz = Head(todo).size
        OBVIOUS
      <4>4. Heap!Cost(sz) = 1024
        BY <4>2, <4>3, SlotEnough DEF Heap!Slot
      <4> QED BY <3>1, <4>3, <4>4 DEF Galloc, Heap!Galloc
    <3>2. CASE Ioctl \/ MapZeroes \/ MmapGpu
      BY <3>2 DEF Ioctl, MapZeroes, MmapGpu, cbma
    <3> QED BY <2>3, <3>1, <3>2
  <2>7. PICK y \in Seq(Part) : y = Tail(x)
    BY <2>1
  <2>8. Len(y) = Len(x) - 1 /\ InChain(y, kind)'
    <3>1. Len(y) = Len(x) - 1
      BY <2>1, <2>7
    <3> QED BY <2>5, <2>7, <3>1
  <2>9. spent' + 1024 * Len(y) <= 1024 * 29 * (Len(accepted) + 1)
    BY <1>2, <1>3, <2>6, <2>8
  <2>10. Making(y, kind)'
    BY <1>1, <1>2, <1>4, <2>4, <2>8, <2>9 DEF Making, Heap!Slot, ChainLen
  <2> QED BY <2>10
<1> QED BY <1>5, <1>6

LEMMA RoomNext == TypeInv /\ RoomInv /\ [Next]_vars => RoomInv'
<1> SUFFICES ASSUME TypeInv, RoomInv, [Next]_vars PROVE RoomInv'
  OBVIOUS
<1>1. PoolReady'
  BY PoolNext DEF RoomInv
<1>2. CASE UNCHANGED vars
  BY <1>2 DEF vars, cbma, queue, chains, program, RoomInv, PoolReady, Between,
              Making, InChain, Limit
<1>3. CASE Call
  BY <1>1, <1>3, RoomCall DEF RoomInv
<1>4. CASE Within
  <2>1. SUFFICES ASSUME status' = "running"
                 PROVE  Between' \/ \E kind \in Kinds : \E x \in Seq(Part) : Making(x, kind)'
    BY <1>1 DEF RoomInv
  <2>2. status = "running"
    BY <1>4, WithinTodo
  <2>3. CASE Between
    BY <1>4, <2>3, RoomPlain
  <2>4. ASSUME NEW kind \in Kinds, NEW x \in Seq(Part), Making(x, kind)
        PROVE  Between' \/ \E y \in Seq(Part) : Making(y, kind)'
    BY <1>4, <2>1, <2>4, RoomChain
  <2> QED BY <2>2, <2>3, <2>4 DEF RoomInv
<1> QED BY <1>2, <1>3, <1>4 DEF Next, Within

-----------------------------------------------------------------------------
HeapProofs == INSTANCE CbmaProofs

\* Each step of the driver is one of the allocator's, or is not seen by it.
LEMMA HeapStep ==
    ASSUME PoolHolds, TypeInv, RoomInv, [Next]_vars
    PROVE  [HeapProofs!Next]_(HeapProofs!cbma)
<1>1. CASE Galloc /\ status' = "running"
  <2>1. Running("galloc") /\ CallInv
    BY <1>1 DEF Galloc, TypeInv
  <2>2. Head(todo).size \in GallocSizes
    BY <2>1, ChainGalloc
  <2>3. PICK sz : sz = Head(todo).size
    OBVIOUS
  <2>4. Heap!Galloc(sz)
    BY <1>1, <2>3 DEF Galloc
  <2>5. ~Between
    <3> SUFFICES ASSUME Between PROVE FALSE
      OBVIOUS
    <3>1. Head(todo) \in PlainEffect /\ Head(todo).op = "galloc"
      BY <2>1 DEF Between, Running
    <3> QED BY <3>1 DEF PlainEffect
  <2>6. PICK kind \in Kinds, x \in Seq(Part) : Making(x, kind)
    BY <2>1, <2>5 DEF RoomInv, Running
  <2>7. x # <<>>
    <3> SUFFICES ASSUME x = <<>> PROVE FALSE
      OBVIOUS
    <3>1. Head(todo) = submit_job(kind)
      BY <2>6, ChainHead DEF Making
    <3> QED BY <2>1, <3>1 DEF submit_job, Running
  <2>8. Heap!Affordable(sz) /\ sz \in Sizes
    <3>1. sz \in GallocSizes
      BY <2>2, <2>3
    <3>2. Heap!Affordable(sz)
      BY <2>6, <2>7, <3>1, MakingAffords DEF RoomInv
    <3> QED BY <3>1, <3>2, SlotEnough
  <2>9. HeapProofs!Affordable(sz) /\ HeapProofs!Galloc(sz)
    BY <2>4, <2>8 DEF Heap!Galloc, Heap!Affordable, Heap!Cost, Heap!Slot, Heap!NextBlock,
       HeapProofs!Galloc, HeapProofs!Affordable, HeapProofs!Cost, HeapProofs!Slot,
       HeapProofs!NextBlock
  <2> QED BY <2>8, <2>9 DEF HeapProofs!Next
<1>2. CASE MapPool
  BY <1>2 DEF MapPool, cbma, Heap!InitCbma, HeapProofs!Next, HeapProofs!InitCbma,
              HeapProofs!cbma
<1>3. CASE Call \/ Open \/ Handshake \/ MapTracking \/ Ioctl \/ MapZeroes
           \/ MmapGpu \/ Flush \/ Submit \/ UNCHANGED vars
  <2>1. UNCHANGED cbma
    BY <1>3 DEF Call, Open, Handshake, MapTracking, Ioctl, MapZeroes, MmapGpu, Flush,
                Submit, vars
  <2> QED BY <2>1 DEF cbma, HeapProofs!cbma
<1>4. Galloc => status' = "running"
  BY DEF Galloc, Done, Running
<1> QED BY <1>1, <1>2, <1>3, <1>4 DEF Next

(***************************************************************************)
(* The blocks that synthesis takes from galloc are in the pool, none of    *)
(* them over an earlier one, if the pool holds what the chains of the      *)
(* program take: init_cbma comes before the first of them, and a chain is  *)
(* finished before the next one starts.                                    *)
(***************************************************************************)
THEOREM BlocksStayInPool == PoolHolds /\ Spec => BlocksInPool
<1> SUFFICES ASSUME PoolHolds PROVE Spec => BlocksInPool
  OBVIOUS
<1> DEFINE area == IF base = 0 THEN {} ELSE base..(base + PoolSize - 1)
<1>1. HeapProofs!Spec => HeapProofs!ImplementsAllocator
  <2>1. HeapProofs!PoolAssumption
    BY HeapAssumption DEF HeapProofs!PoolAssumption, Heap!PoolAssumption,
       HeapProofs!Slot, Heap!Slot
  <2> QED BY <2>1, HeapProofs!CbmaImplementsAllocator
<1>2. Init => HeapProofs!Init
  BY DEF Init, Heap!Init, HeapProofs!Init
<1>3. TypeInv /\ RoomInv /\ [Next]_vars => [HeapProofs!Next]_(HeapProofs!cbma)
  BY HeapStep
<1>4. HeapProofs!Alloc!Init => Heap!Alloc!Init
  BY DEF HeapProofs!Alloc!Init, Heap!Alloc!Init
<1>5. [HeapProofs!Alloc!Next]_<<area, blocks>> => [Heap!Alloc!Next]_<<area, blocks>>
  BY DEF HeapProofs!Alloc!Next, Heap!Alloc!Next, HeapProofs!Alloc!Attach, Heap!Alloc!Attach,
     HeapProofs!Alloc!Allocate, Heap!Alloc!Allocate, HeapProofs!Alloc!Free, Heap!Alloc!Free,
     HeapProofs!Alloc!Block, Heap!Alloc!Block, HeapProofs!Alloc!Extent, Heap!Alloc!Extent,
     HeapProofs!Alloc!Before, Heap!Alloc!Before
<1> QED BY <1>1, <1>2, <1>3, <1>4, <1>5, TypeInit, TypeNext, RoomInit, RoomNext,
           HandshakeInit, HandshakeNext, PTL
        DEF Spec, BlocksInPool, Heap!ImplementsAllocator, Heap!Alloc!Spec,
            HeapProofs!Spec, HeapProofs!ImplementsAllocator, HeapProofs!Alloc!Spec
=============================================================================
