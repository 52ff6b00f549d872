--------------------------- MODULE PanwrapProofs ---------------------------
(***************************************************************************)
(* What TLAPS proves of Panwrap, for every value of its constants.         *)
(***************************************************************************)
EXTENDS Panwrap, MappedMemoryProofs

-----------------------------------------------------------------------------
(***************************************************************************)
(* The search of panwrap_mmap_wrap in the allocations returns one that has *)
(* the offset for its GPU address, NULL when none does.                    *)
(***************************************************************************)
LEMMA FindAllocationSpec ==
    ASSUME NEW T, allocations \in Seq(T), NEW offset,
           NEW i, i = FindAllocation(offset)
    PROVE  /\ i \in 0..Len(allocations)
           /\ i = 0 => \A j \in 1..Len(allocations) :
                         allocations[j].gpu_va # offset
           /\ i # 0 => allocations[i].gpu_va = offset
<1> DEFINE I == {j \in 1..Len(allocations) : allocations[j].gpu_va = offset}
<1>0. I \in SUBSET Nat
  OBVIOUS
<1>1. i = IF I # {} THEN Min(I) ELSE 0
  BY DEF FindAllocation, SelectInSeq
<1>2. CASE I = {}
  BY <1>1, <1>2
<1>3. CASE I # {}
  <2>1. i \in I
    BY <1>0, <1>1, <1>3, MinOfNats
  <2> QED BY <2>1
<1> QED BY <1>2, <1>3

-----------------------------------------------------------------------------
(***************************************************************************)
(* Type correctness.                                                       *)
(***************************************************************************)
LEMMA NoFrameType == NoFrame \in Frames
BY BoundsAssumption DEF NoFrame, Frames, NoFd

\* The address sets hold natural numbers.
LEMMA ZonesType ==
    /\ Pages \subseteq Nat /\ GpuVAs \subseteq Nat /\ Cookies \subseteq Nat
    /\ MapFailed \in Nat /\ Offsets \subseteq Nat /\ Lens \subseteq Nat
    /\ Fds \subseteq Nat
BY ZonesAssumption, BoundsAssumption DEF Offsets

\* A step that only moves thread t keeps pc and frame well typed.
LEMMA CallType ==
    ASSUME TypeOK, NEW t \in Threads, NEW l \in Labels, NEW f \in Frames,
           Call(t, l, f)
    PROVE  pc' \in [Threads -> Labels] /\ frame' \in [Threads -> Frames]
BY DEF Call, TypeOK

LEMMA KnownVAsType ==
    ASSUME TypeOK, NEW fd
    PROVE  KnownVAs(fd) \subseteq Nat
BY DEF KnownVAs, TypeOK, Regions, Mappings

LEMMA ArgumentsType ==
    ASSUME NEW fd \in Fds, NEW known \in SUBSET Nat, NEW f \in Arguments(fd, known)
    PROVE  f \in Frames
<1> DEFINE sized == {IoctlArg(fd, req, 0, n, same) :
                       req \in {"MEM_ALLOC", "MEM_IMPORT"}, n \in Lens,
                       same \in BOOLEAN}
           addressed == {IoctlArg(fd, req, gpu, 0, FALSE) :
                       req \in {"MEM_FREE", "MEM_COMMIT"}, gpu \in known}
           plain == {IoctlArg(fd, req, 0, 0, FALSE) : req \in {"OTHER", "NOARG"}}
<1>1. ASSUME NEW req \in Requests, NEW gpu \in Nat, NEW n \in Nat,
             NEW same \in BOOLEAN
      PROVE  IoctlArg(fd, req, gpu, n, same) \in Frames
  BY DEF IoctlArg, Frames
<1>2. sized \subseteq Frames
  BY <1>1, ZonesType DEF Requests
<1>3. addressed \subseteq Frames
  <2>1. \A req \in {"MEM_FREE", "MEM_COMMIT"}, gpu \in known :
          IoctlArg(fd, req, gpu, 0, FALSE) \in Frames
    BY DEF Requests, IoctlArg, Frames
  <2> QED BY <2>1 DEF IoctlArg
<1>4. plain \subseteq Frames
  BY <1>1 DEF Requests
<1>5. Arguments(fd, known) = (sized \cup addressed) \cup plain
  BY DEF Arguments
<1> HIDE DEF sized, addressed, plain
<1> QED BY <1>2, <1>3, <1>4, <1>5

LEMMA KernelIoctlType ==
    ASSUME TypeOK, NEW f \in Frames, NEW traced \in BOOLEAN, NEW gpu \in Nat,
           KernelIoctl(f, traced, gpu)
    PROVE  regions' \subseteq Regions
<1>1. CASE IsMali(f.fd) /\ regions' = regions \cup
            {[ctx |-> f.fd, va |-> gpu, length |-> f.length,
              due |-> traced /\ f.req = "MEM_ALLOC"]}
  <2>1. f.fd \in Fds /\ f.length \in Nat
    BY <1>1 DEF IsMali, Frames
  <2>2. [ctx |-> f.fd, va |-> gpu, length |-> f.length,
         due |-> traced /\ f.req = "MEM_ALLOC"] \in Regions
    BY <2>1 DEF Regions
  <2> QED BY <1>1, <2>2 DEF TypeOK
<1>2. CASE regions' \subseteq regions
  BY <1>2 DEF TypeOK
<1> QED BY <1>1, <1>2 DEF KernelIoctl

LEMMA KernelMmapType ==
    ASSUME TypeOK, NEW f \in Frames, NEW traced \in BOOLEAN, NEW ret \in Nat,
           KernelMmap(f, traced, ret)
    PROVE  regions' \subseteq Regions /\ cpu' \in [Pages -> Mappings]
<1> DEFINE Place(gpu_va, due) ==
            cpu' = [p \in Pages |-> IF p \in Span(f.addr, f.length)
                      THEN [addr |-> f.addr, length |-> f.length,
                            gpu_va |-> gpu_va, traced |-> traced, due |-> due]
                      ELSE cpu[p]]
           found == {r \in regions : /\ r.ctx = f.fd /\ r.va = f.gpu
                                     /\ f.length <= r.length}
<1>1. ASSUME NEW gpu_va \in Nat, NEW due \in BOOLEAN, Place(gpu_va, due)
      PROVE  cpu' \in [Pages -> Mappings]
  <2>1. [addr |-> f.addr, length |-> f.length, gpu_va |-> gpu_va,
         traced |-> traced, due |-> due] \in Mappings
    BY DEF Frames, Mappings
  <2> QED BY <1>1, <2>1 DEF TypeOK
<1>2. \/ \E r \in found :
             /\ ret = f.addr
             /\ Place(IF r.va \in Cookies THEN ret ELSE r.va, traced /\ r.due)
             /\ regions' = (regions \ {r}) \cup
                  (IF r.va \in Cookies THEN {} ELSE {[r EXCEPT !.due = FALSE]})
      \/ Place(0, FALSE) /\ UNCHANGED regions
      \/ UNCHANGED <<regions, cpu>>
  BY DEF KernelMmap
<1>3. ASSUME NEW r \in found,
             Place(IF r.va \in Cookies THEN ret ELSE r.va, traced /\ r.due),
             regions' = (regions \ {r}) \cup
                  (IF r.va \in Cookies THEN {} ELSE {[r EXCEPT !.due = FALSE]})
      PROVE  regions' \subseteq Regions /\ cpu' \in [Pages -> Mappings]
  <2>1. r \in Regions
    BY DEF TypeOK
  <2>2. [r EXCEPT !.due = FALSE] \in Regions
    BY <2>1 DEF Regions
  <2>3. (IF r.va \in Cookies THEN ret ELSE r.va) \in Nat
         /\ (traced /\ r.due) \in BOOLEAN
    BY <2>1 DEF Regions
  <2>4. cpu' \in [Pages -> Mappings]
    BY <1>1, <1>3, <2>3
  <2>5. regions' \subseteq Regions
    BY <1>3, <2>2 DEF TypeOK
  <2> QED BY <2>4, <2>5
<1>4. CASE Place(0, FALSE) /\ UNCHANGED regions
  BY <1>1, <1>4 DEF TypeOK
<1>5. CASE UNCHANGED <<regions, cpu>>
  BY <1>5 DEF TypeOK
<1> QED BY <1>2, <1>3, <1>4, <1>5

LEMMA LabelsType ==
    {"app", "open_rec", "close_sys", "ioctl_pass", "ioctl_lock", "ioctl_pre",
     "ioctl_sys", "ioctl_post", "mmap_pass", "mmap_lock", "mmap_rec",
     "munmap_rec"} \subseteq Labels
BY DEF Labels

\* The offsets and addresses the steps choose from are natural numbers.
LEMMA ChosenType ==
    /\ \A gpu \in Offsets \cup Pages : gpu \in Nat
    /\ \A ret \in Pages \cup {MapFailed} : ret \in Nat
BY ZonesType

LEMMA TypeInit == Init => TypeOK
<1> SUFFICES ASSUME Init PROVE TypeOK
  OBVIOUS
<1>1. lock \in Threads \cup {NoThread} /\ mali_fd \in Fds
      /\ time_is_frozen \in BOOLEAN
  BY BoundsAssumption DEF Init
<1>2. allocations \in Seq(AllocatedMemory) /\ mmaps \in Seq(MappedMemories)
  BY DEF Init
<1>3. pc \in [Threads -> Labels] /\ frame \in [Threads -> Frames]
  BY NoFrameType, LabelsType DEF Init
<1>4. fds \in [Fds -> {"free", "mali", "other"}] /\ regions \subseteq Regions
  BY DEF Init
<1>5. NoMap \in Mappings
  BY DEF NoMap, Mappings
<1>6. cpu \in [Pages -> Mappings]
  BY <1>5 DEF Init
<1> QED BY <1>1, <1>2, <1>3, <1>4, <1>6 DEF TypeOK

LEMMA TypeBegin ==
    ASSUME TypeOK, NEW t \in Threads, Begin(t)
    PROVE  TypeOK'
<1> USE NoFrameType, LabelsType
<1>1. CASE OpenSys(t)
  <2>1. fds' \in [Fds -> {"free", "mali", "other"}]
    BY <1>1 DEF OpenSys, TypeOK
  <2>2. PICK f \in Frames : Call(t, "open_rec", f)
    <3>1. \A fd \in Fds : [NoFrame EXCEPT !.fd = fd] \in Frames
      BY DEF Frames
    <3> QED BY <1>1, <3>1 DEF OpenSys
  <2>3. pc' \in [Threads -> Labels] /\ frame' \in [Threads -> Frames]
    BY <2>2, CallType
  <2> QED BY <1>1, <2>1, <2>3 DEF OpenSys, TypeOK, tracker
<1>2. CASE CloseReset(t)
  <2>1. PICK fd \in Usable :
          /\ mali_fd' = IF fd > 0 /\ fd = mali_fd THEN 0 ELSE mali_fd
          /\ Call(t, "close_sys", [NoFrame EXCEPT !.fd = fd])
    BY <1>2 DEF CloseReset
  <2>2. fd \in Fds /\ [NoFrame EXCEPT !.fd = fd] \in Frames
    BY DEF Usable, Frames
  <2>3. mali_fd' \in Fds
    BY <2>1, BoundsAssumption DEF TypeOK
  <2>4. pc' \in [Threads -> Labels] /\ frame' \in [Threads -> Frames]
    BY <2>1, <2>2, CallType
  <2> QED BY <1>2, <2>3, <2>4 DEF CloseReset, TypeOK, kernel
<1>3. CASE IoctlCall(t)
  <2>1. PICK fd \in Usable : \E f \in Arguments(fd, KnownVAs(fd)) :
          Call(t, IF fd # 0 /\ fd # mali_fd THEN "ioctl_pass" ELSE "ioctl_lock", f)
    BY <1>3 DEF IoctlCall
  <2>2. PICK f \in Arguments(fd, KnownVAs(fd)) :
          Call(t, IF fd # 0 /\ fd # mali_fd THEN "ioctl_pass" ELSE "ioctl_lock", f)
    BY <2>1
  <2>3. f \in Frames
    BY ArgumentsType, KnownVAsType DEF Usable
  <2>4. pc' \in [Threads -> Labels] /\ frame' \in [Threads -> Frames]
    BY <2>2, <2>3, CallType
  <2> QED BY <1>3, <2>4 DEF IoctlCall, TypeOK, tracker, kernel
<1>4. CASE MmapCall(t)
  <2>1. PICK fd \in Usable \cup {NoFd}, gpu \in Offsets, n \in Lens, a \in Pages :
          Call(t, IF mali_fd = 0 \/ fd # mali_fd THEN "mmap_pass" ELSE "mmap_lock",
               [fd |-> fd, req |-> "none", gpu |-> gpu, length |-> n,
                same_va |-> FALSE, addr |-> a])
    BY <1>4 DEF MmapCall
  <2>2. [fd |-> fd, req |-> "none", gpu |-> gpu, length |-> n,
         same_va |-> FALSE, addr |-> a] \in Frames
    BY ZonesType DEF Frames, Usable
  <2>3. pc' \in [Threads -> Labels] /\ frame' \in [Threads -> Frames]
    BY <2>1, <2>2, CallType
  <2> QED BY <1>4, <2>3 DEF MmapCall, TypeOK, tracker, kernel
<1>5. CASE MunmapSys(t)
  <2>1. PICK a \in Pages, n \in Lens :
          /\ cpu' = [p \in Pages |-> IF p \in Span(a, n) THEN NoMap ELSE cpu[p]]
          /\ Call(t, "munmap_rec", [NoFrame EXCEPT !.addr = a])
    BY <1>5 DEF MunmapSys
  <2>2. NoMap \in Mappings
    BY DEF NoMap, Mappings
  <2>3. cpu' \in [Pages -> Mappings]
    BY <2>1, <2>2 DEF TypeOK
  <2>4. [NoFrame EXCEPT !.addr = a] \in Frames
    BY ZonesType DEF Frames
  <2>5. pc' \in [Threads -> Labels] /\ frame' \in [Threads -> Frames]
    BY <2>1, <2>4, CallType
  <2>6. lock' \in Threads \cup {NoThread} /\ time_is_frozen' \in BOOLEAN
    BY <1>5, BoundsAssumption DEF MunmapSys, LOCK, panwrap_freeze_time
  <2> QED BY <1>5, <2>3, <2>5, <2>6 DEF MunmapSys, TypeOK, tracker
<1> QED BY <1>1, <1>2, <1>3, <1>4, <1>5 DEF Begin

LEMMA TypeContinue ==
    ASSUME TypeOK, NEW t \in Threads, Continue(t)
    PROVE  TypeOK'
<1> USE NoFrameType, LabelsType
<1> DEFINE ThreadsOK == pc' \in [Threads -> Labels] /\ frame' \in [Threads -> Frames]
<1>0. frame[t] \in Frames
  BY DEF TypeOK
<1>1. CASE OpenRecord(t)
  <2>1. mali_fd' \in Fds
    BY <1>1 DEF OpenRecord, IsMali, TypeOK
  <2>2. ThreadsOK
    BY <1>1, CallType DEF OpenRecord, Return
  <2> QED BY <1>1, <2>1, <2>2 DEF OpenRecord, TypeOK, kernel
<1>2. CASE CloseSys(t)
  <2>1. fds' \in [Fds -> {"free", "mali", "other"}] /\ regions' \subseteq Regions
    BY <1>2 DEF CloseSys, TypeOK
  <2>2. ThreadsOK
    BY <1>2, CallType DEF CloseSys, Return
  <2> QED BY <1>2, <2>1, <2>2 DEF CloseSys, TypeOK, tracker
<1>3. CASE IoctlPass(t)
  <2>1. regions' \subseteq Regions
    BY <1>0, <1>3, KernelIoctlType, ChosenType DEF IoctlPass
  <2>2. ThreadsOK
    BY <1>3, CallType DEF IoctlPass, Return
  <2> QED BY <1>3, <2>1, <2>2 DEF IoctlPass, TypeOK, tracker
<1>4. CASE IoctlLock(t)
  <2>1. ThreadsOK
    BY <1>0, <1>4, CallType DEF IoctlLock, Goto
  <2>2. lock' \in Threads \cup {NoThread} /\ time_is_frozen' \in BOOLEAN
    BY <1>4, BoundsAssumption DEF IoctlLock, LOCK, panwrap_freeze_time
  <2> QED BY <1>4, <2>1, <2>2 DEF IoctlLock, TypeOK, tracker, kernel
<1>5. CASE IoctlPre(t)
  <2>1. ThreadsOK
    BY <1>0, <1>5, CallType DEF IoctlPre, Goto
  <2> QED BY <1>5, <2>1 DEF IoctlPre, TypeOK, tracker, kernel, panwrap_unfreeze_time
<1>6. CASE IoctlSys(t)
  <2>1. PICK gpu \in Offsets \cup Pages :
          /\ KernelIoctl(frame[t], TRUE, gpu)
          /\ Call(t, "ioctl_post", [frame[t] EXCEPT !.gpu = gpu])
    BY <1>6 DEF IoctlSys
  <2>2. gpu \in Nat
    BY ChosenType
  <2>3. regions' \subseteq Regions
    BY <1>0, <2>1, <2>2, KernelIoctlType
  <2>4. [frame[t] EXCEPT !.gpu = gpu] \in Frames
    BY <1>0, <2>2 DEF Frames
  <2>5. ThreadsOK
    BY <2>1, <2>4, CallType
  <2> QED BY <1>6, <2>3, <2>5, BoundsAssumption
          DEF IoctlSys, TypeOK, tracker, panwrap_freeze_time
<1>7. CASE IoctlPost(t)
  <2>1. allocations' \in Seq(AllocatedMemory)
    <3>1. post_mem_alloc(frame[t]) \in AllocatedMemory
          /\ post_mem_commit(frame[t]) \in AllocatedMemory
      BY <1>0 DEF Frames, AllocatedMemory, post_mem_alloc, post_mem_commit
    <3>2. allocations \in Seq(AllocatedMemory)
      BY DEF TypeOK
    <3>3. \A e \in AllocatedMemory : Cons(e, allocations) \in Seq(AllocatedMemory)
      BY <3>2, ConsElements
    <3> QED BY <1>7, <3>1, <3>2, <3>3 DEF IoctlPost, DecodePost
  <2>2. ThreadsOK
    BY <1>7, CallType DEF IoctlPost, Return
  <2> QED BY <1>7, <2>1, <2>2
          DEF IoctlPost, TypeOK, kernel, panwrap_unfreeze_time, UNLOCK
<1>8. CASE MmapPass(t)
  <2>1. regions' \subseteq Regions /\ cpu' \in [Pages -> Mappings]
    BY <1>0, <1>8, KernelMmapType, ChosenType DEF MmapPass
  <2>2. ThreadsOK
    BY <1>8, CallType DEF MmapPass, Return
  <2> QED BY <1>8, <2>1, <2>2 DEF MmapPass, TypeOK, tracker
<1>9. CASE MmapSys(t)
  <2>1. PICK ret \in Pages \cup {MapFailed} :
          /\ KernelMmap(frame[t], TRUE, ret)
          /\ Call(t, "mmap_rec", [frame[t] EXCEPT !.addr = ret])
    BY <1>9 DEF MmapSys
  <2>2. ret \in Nat
    BY ChosenType
  <2>3. regions' \subseteq Regions /\ cpu' \in [Pages -> Mappings]
    BY <1>0, <2>1, <2>2, KernelMmapType
  <2>4. [frame[t] EXCEPT !.addr = ret] \in Frames
    BY <1>0, <2>2 DEF Frames
  <2>5. ThreadsOK
    BY <2>1, <2>4, CallType
  <2>6. lock' \in Threads \cup {NoThread} /\ time_is_frozen' \in BOOLEAN
    BY <1>9, BoundsAssumption DEF MmapSys, LOCK, panwrap_freeze_time
  <2> QED BY <1>9, <2>3, <2>5, <2>6 DEF MmapSys, TypeOK, tracker
<1>10. CASE MmapRecord(t)
  <2> DEFINE i == FindAllocation(frame[t].gpu)
             gpu_va == IF i = 0 THEN 0
                       ELSE IF allocations[i].same_va THEN frame[t].addr
                                                      ELSE frame[t].gpu
  <2>1. allocations \in Seq(AllocatedMemory) /\ mmaps \in Seq(MappedMemories)
    BY DEF TypeOK
  <2>2. i \in 0..Len(allocations)
    BY <2>1, FindAllocationSpec
  <2>3. allocations' \in Seq(AllocatedMemory)
    <3>1. CASE i = 0
      BY <1>10, <2>1, <3>1 DEF MmapRecord
    <3>2. CASE i # 0
      <4>1. i \in 1..Len(allocations)
        BY <2>1, <2>2, <3>2, LenProperties
      <4>2. RemoveAt(allocations, i) \in Seq(AllocatedMemory)
        BY <2>1, <4>1, RemoveAtElements
      <4> QED BY <1>10, <3>2, <4>2 DEF MmapRecord
    <3> QED BY <3>1, <3>2
  <2>4. mmaps' \in Seq(MappedMemories)
    <3>1. gpu_va \in Nat
      BY <1>0 DEF Frames
    <3>2. [addr |-> frame[t].addr, length |-> frame[t].length, gpu_va |-> gpu_va]
            \in MappedMemories
      BY <1>0, <3>1 DEF Frames, MappedMemories
    <3>3. mmaps' = Cons([addr |-> frame[t].addr, length |-> frame[t].length,
                         gpu_va |-> gpu_va], mmaps)
      BY <1>10 DEF MmapRecord
    <3> HIDE DEF gpu_va
    <3> QED BY <2>1, <3>2, <3>3, ConsElements
  <2>5. ThreadsOK
    BY <1>10, CallType DEF MmapRecord, Return
  <2> QED BY <1>10, <2>3, <2>4, <2>5
          DEF MmapRecord, TypeOK, kernel, panwrap_unfreeze_time, UNLOCK
<1>11. CASE MunmapRecord(t)
  <2> DEFINE i == FindMappedMem(mmaps, frame[t].addr)
  <2>1. mmaps \in Seq(MappedMemories)
    BY DEF TypeOK
  <2>2. i \in 0..Len(mmaps)
    BY <2>1, FindMappedMemSpec
  <2>3. mmaps' \in Seq(MappedMemories)
    <3>1. CASE i = 0
      BY <1>11, <2>1, <3>1 DEF MunmapRecord
    <3>2. CASE i # 0
      <4>1. i \in 1..Len(mmaps)
        BY <2>1, <2>2, <3>2, LenProperties
      <4>2. RemoveAt(mmaps, i) \in Seq(MappedMemories)
        BY <2>1, <4>1, RemoveAtElements
      <4> QED BY <1>11, <3>2, <4>2 DEF MunmapRecord
    <3> QED BY <3>1, <3>2
  <2>4. ThreadsOK
    BY <1>11, CallType DEF MunmapRecord, Return
  <2> QED BY <1>11, <2>3, <2>4
          DEF MunmapRecord, TypeOK, kernel, panwrap_unfreeze_time, UNLOCK
<1> QED BY <1>1, <1>2, <1>3, <1>4, <1>5, <1>6, <1>7, <1>8, <1>9, <1>10, <1>11
        DEF Continue

LEMMA TypeNext == TypeOK /\ [Next]_vars => TypeOK'
<1> SUFFICES ASSUME TypeOK, [Next]_vars PROVE TypeOK'
  OBVIOUS
<1>1. CASE Next
  BY <1>1, TypeBegin, TypeContinue DEF Next
<1>2. CASE UNCHANGED vars
  BY <1>2 DEF vars, tracker, kernel, TypeOK
<1> QED BY <1>1, <1>2

(***************************************************************************)
(* Every variable keeps its type: in particular every position a lookup    *)
(* returns is one of the list it removes from.                             *)
(***************************************************************************)
THEOREM TypeCorrect == Spec => []TypeOK
BY TypeInit, TypeNext, PTL DEF Spec

-----------------------------------------------------------------------------
(***************************************************************************)
(* The mutex and the frozen time.                                          *)
(***************************************************************************)
\* What a step that moves thread t leaves of the others.
LEMMA CallPc ==
    ASSUME TypeOK, NEW t \in Threads, NEW l, NEW f, Call(t, l, f)
    PROVE  /\ pc'[t] = l /\ frame'[t] = f
           /\ \A u \in Threads \ {t} : pc'[u] = pc[u] /\ frame'[u] = frame[u]
BY DEF Call, TypeOK

\* Every step either takes the mutex that was free, keeps it as it was, or
\* gives it back from the thread that moves.
LEMMA LockStep ==
    ASSUME TypeOK, LockInv, NEW t \in Threads, Begin(t) \/ Continue(t)
    PROVE  /\ \A u \in Threads \ {t} : pc'[u] = pc[u]
           /\ \/ lock = NoThread /\ lock' = t /\ pc'[t] \in Holding
                  /\ pc'[t] # "ioctl_sys" /\ time_is_frozen' = EnableTimestamps
              \/ lock = t /\ lock' = NoThread /\ pc'[t] \notin Holding
                  /\ time_is_frozen' = FALSE
              \/ lock' = lock /\ pc[t] \notin Holding /\ pc'[t] \notin Holding
                  /\ time_is_frozen' = time_is_frozen
              \/ lock = t /\ lock' = t
                  /\ pc[t] = "ioctl_pre" /\ pc'[t] = "ioctl_sys"
                  /\ time_is_frozen' = FALSE
              \/ lock = t /\ lock' = t
                  /\ pc[t] = "ioctl_sys" /\ pc'[t] = "ioctl_post"
                  /\ time_is_frozen' = EnableTimestamps
<1>1. CASE OpenSys(t)
  <2>1. \E f : Call(t, "open_rec", f)
    BY <1>1 DEF OpenSys
  <2> QED BY <1>1, <2>1, CallPc DEF OpenSys, Holding
<1>2. CASE CloseReset(t)
  <2>1. \E f : Call(t, "close_sys", f)
    BY <1>2 DEF CloseReset
  <2> QED BY <1>2, <2>1, CallPc DEF CloseReset, Holding
<1>3. CASE IoctlCall(t)
  <2>1. \E f : \E l \in {"ioctl_pass", "ioctl_lock"} : Call(t, l, f)
    BY <1>3 DEF IoctlCall
  <2> QED BY <1>3, <2>1, CallPc DEF IoctlCall, Holding
<1>4. CASE MmapCall(t)
  <2>1. \E f : \E l \in {"mmap_pass", "mmap_lock"} : Call(t, l, f)
    BY <1>4 DEF MmapCall
  <2> QED BY <1>4, <2>1, CallPc DEF MmapCall, Holding
<1>5. CASE MunmapSys(t)
  <2>1. \E f : Call(t, "munmap_rec", f)
    BY <1>5 DEF MunmapSys
  <2> QED BY <1>5, <2>1, CallPc DEF MunmapSys, Holding, LOCK, panwrap_freeze_time
<1>6. CASE OpenRecord(t)
  BY <1>6, CallPc DEF OpenRecord, Return, Holding
<1>7. CASE CloseSys(t)
  BY <1>7, CallPc DEF CloseSys, Return, Holding
<1>8. CASE IoctlPass(t)
  BY <1>8, CallPc DEF IoctlPass, Return, Holding
<1>9. CASE IoctlLock(t)
  BY <1>9, CallPc DEF IoctlLock, Goto, Holding, LOCK, panwrap_freeze_time
<1>10. CASE IoctlPre(t)
  <2>1. lock = t
    BY <1>10 DEF IoctlPre, LockInv, Holding
  <2> QED BY <1>10, <2>1, CallPc DEF IoctlPre, Goto, panwrap_unfreeze_time
<1>11. CASE IoctlSys(t)
  <2>1. lock = t
    BY <1>11 DEF IoctlSys, LockInv, Holding
  <2>2. \E f : Call(t, "ioctl_post", f)
    BY <1>11 DEF IoctlSys
  <2> QED BY <1>11, <2>1, <2>2, CallPc DEF IoctlSys, panwrap_freeze_time
<1>12. CASE IoctlPost(t)
  <2>1. lock = t
    BY <1>12 DEF IoctlPost, LockInv, Holding
  <2> QED BY <1>12, <2>1, CallPc
          DEF IoctlPost, Return, Holding, UNLOCK, panwrap_unfreeze_time
<1>13. CASE MmapPass(t)
  BY <1>13, CallPc DEF MmapPass, Return, Holding
<1>14. CASE MmapSys(t)
  <2>1. \E f : Call(t, "mmap_rec", f)
    BY <1>14 DEF MmapSys
  <2> QED BY <1>14, <2>1, CallPc DEF MmapSys, Holding, LOCK, panwrap_freeze_time
<1>15. CASE MmapRecord(t)
  <2>1. lock = t
    BY <1>15 DEF MmapRecord, LockInv, Holding
  <2> QED BY <1>15, <2>1, CallPc
          DEF MmapRecord, Return, Holding, UNLOCK, panwrap_unfreeze_time
<1>16. CASE MunmapRecord(t)
  <2>1. lock = t
    BY <1>16 DEF MunmapRecord, LockInv, Holding
  <2> QED BY <1>16, <2>1, CallPc
          DEF MunmapRecord, Return, Holding, UNLOCK, panwrap_unfreeze_time
<1> QED BY <1>1, <1>2, <1>3, <1>4, <1>5, <1>6, <1>7, <1>8, <1>9, <1>10, <1>11,
           <1>12, <1>13, <1>14, <1>15, <1>16 DEF Begin, Continue

LEMMA LockInit == Init => LockInv
BY ThreadsAssumption DEF Init, LockInv, Holding

LEMMA LockNext == TypeOK /\ LockInv /\ [Next]_vars => LockInv'
<1> SUFFICES ASSUME TypeOK, LockInv, [Next]_vars PROVE LockInv'
  OBVIOUS
<1>1. ASSUME NEW t \in Threads, Begin(t) \/ Continue(t) PROVE LockInv'
  BY <1>1, LockStep, ThreadsAssumption DEF LockInv, Holding
<1>2. CASE UNCHANGED vars
  BY <1>2 DEF vars, LockInv
<1> QED BY <1>1, <1>2 DEF Next

(***************************************************************************)
(* The thread that owns the mutex is the one inside a critical section, so *)
(* no two threads are: the lists change under one thread at a time.        *)
(***************************************************************************)
THEOREM LockOwner == Spec => []LockInv
BY TypeCorrect, LockInit, LockNext, PTL DEF Spec

\* No step leaves its thread where it was.
LEMMA StepMoves ==
    ASSUME TypeOK, NEW t \in Threads, Begin(t) \/ Continue(t)
    PROVE  pc'[t] # pc[t]
<1>1. CASE Begin(t)
  <2>1. pc[t] = "app" /\ \E f, l : l # "app" /\ Call(t, l, f)
    <3>1. CASE OpenSys(t)
      BY <3>1 DEF OpenSys
    <3>2. CASE CloseReset(t)
      BY <3>2 DEF CloseReset
    <3>3. CASE IoctlCall(t)
      BY <3>3 DEF IoctlCall
    <3>4. CASE MmapCall(t)
      BY <3>4 DEF MmapCall
    <3>5. CASE MunmapSys(t)
      BY <3>5 DEF MunmapSys
    <3> QED BY <1>1, <3>1, <3>2, <3>3, <3>4, <3>5 DEF Begin
  <2> QED BY <2>1, CallPc
<1>2. CASE Continue(t)
  <2>1. CASE OpenRecord(t) \/ CloseSys(t) \/ IoctlPass(t) \/ IoctlPost(t)
             \/ MmapPass(t) \/ MmapRecord(t) \/ MunmapRecord(t)
    <3>1. pc[t] # "app" /\ Call(t, "app", NoFrame)
      BY <2>1 DEF OpenRecord, CloseSys, IoctlPass, IoctlPost, MmapPass,
                  MmapRecord, MunmapRecord, Return
    <3> QED BY <3>1, CallPc
  <2>2. CASE IoctlLock(t) \/ IoctlPre(t)
    <3>1. \/ pc[t] = "ioctl_lock" /\ Call(t, "ioctl_pre", frame[t])
          \/ pc[t] = "ioctl_pre" /\ Call(t, "ioctl_sys", frame[t])
      BY <2>2 DEF IoctlLock, IoctlPre, Goto
    <3> QED BY <3>1, CallPc
  <2>3. CASE IoctlSys(t) \/ MmapSys(t)
    <3>1. CASE IoctlSys(t)
      <4>1. pc[t] = "ioctl_sys" /\ \E f : Call(t, "ioctl_post", f)
        BY <3>1 DEF IoctlSys
      <4> QED BY <4>1, CallPc
    <3>2. CASE MmapSys(t)
      <4>1. pc[t] = "mmap_lock" /\ \E f : Call(t, "mmap_rec", f)
        BY <3>2 DEF MmapSys
      <4> QED BY <4>1, CallPc
    <3> QED BY <2>3, <3>1, <3>2
  <2> QED BY <1>2, <2>1, <2>2, <2>3 DEF Continue
<1> QED BY <1>1, <1>2

\* The steps that a thread can take at a place before the mutex is free.
StepsLeft(place) ==
    CASE place = "ioctl_pre" -> 3
      [] place = "ioctl_sys" -> 2
      [] place \in {"ioctl_post", "mmap_rec", "munmap_rec"} -> 1
      [] OTHER -> 0

\* The step frees the mutex, or its owner has fewer steps left, or it is
\* another thread's; none hands the mutex to another thread.
Releases(t) ==
    \/ lock' = NoThread
    \/ lock' = t /\ StepsLeft(pc'[t]) < StepsLeft(pc[t])
    \/ lock' = t /\ pc'[t] = pc[t] /\ \E u \in Threads \ {t} : pc'[u] # pc[u]

(***************************************************************************)
(* A wrapper is at most three steps from the unlock, whichever path it     *)
(* takes, and each step of the owner brings it nearer; what other threads  *)
(* do meanwhile takes nothing of that back.  It is the part of             *)
(* LockReleased that needs no fairness.                                    *)
(***************************************************************************)
THEOREM SectionsAreShort ==
    Spec => [][\A t \in Threads : lock = t => Releases(t)]_vars
<1>1. ASSUME TypeOK, LockInv, Next, NEW t \in Threads, lock = t
      PROVE  Releases(t)
  <2>1. PICK u \in Threads : Begin(u) \/ Continue(u)
    BY <1>1 DEF Next
  <2>2. lock # NoThread /\ pc[t] \in Holding
    BY <1>1, ThreadsAssumption DEF LockInv
  <2>3. CASE u = t
    <3>1. \/ lock' = NoThread
          \/ lock' = t /\ pc[t] = "ioctl_pre" /\ pc'[t] = "ioctl_sys"
          \/ lock' = t /\ pc[t] = "ioctl_sys" /\ pc'[t] = "ioctl_post"
      BY <1>1, <2>1, <2>2, <2>3, LockStep
    <3> QED BY <3>1 DEF Releases, StepsLeft
  <2>4. CASE u # t
    <3>1. lock' = t /\ pc'[t] = pc[t]
      BY <1>1, <2>1, <2>2, <2>4, LockStep
    <3>2. pc'[u] # pc[u]
      BY <1>1, <2>1, StepMoves
    <3> QED BY <2>4, <3>1, <3>2 DEF Releases
  <2> QED BY <2>3, <2>4
<1>2. TypeOK /\ LockInv /\ [Next]_vars =>
        [\A t \in Threads : lock = t => Releases(t)]_vars
  BY <1>1
<1> QED BY <1>2, TypeCorrect, LockOwner, PTL DEF Spec

LEMMA FrozenInit == Init => FrozenInPanwrap
BY DEF Init, FrozenInPanwrap

LEMMA FrozenNext ==
    TypeOK /\ LockInv /\ FrozenInPanwrap /\ [Next]_vars => FrozenInPanwrap'
<1> SUFFICES ASSUME TypeOK, LockInv, FrozenInPanwrap, [Next]_vars
             PROVE  FrozenInPanwrap'
  OBVIOUS
<1>1. ASSUME NEW t \in Threads, Begin(t) \/ Continue(t) PROVE FrozenInPanwrap'
  <2>1. lock \in Threads \cup {NoThread}
    BY DEF TypeOK
  <2>2. EnableTimestamps \in BOOLEAN /\ time_is_frozen \in BOOLEAN
    BY BoundsAssumption DEF TypeOK
  <2>3. CASE lock' = lock /\ pc[t] \notin Holding
               /\ time_is_frozen' = time_is_frozen
    <3>1. lock # t
      BY <2>3 DEF LockInv
    <3>2. lock # NoThread => pc'[lock] = pc[lock]
      BY <1>1, <2>1, <3>1, LockStep
    <3> QED BY <2>3, <3>2 DEF FrozenInPanwrap
  <2>4. CASE lock' = NoThread /\ time_is_frozen' = FALSE
    BY <2>4 DEF FrozenInPanwrap
  <2>5. CASE lock' = t /\ pc'[t] # "ioctl_sys" /\ time_is_frozen' = EnableTimestamps
    BY <2>2, <2>5, ThreadsAssumption DEF FrozenInPanwrap
  <2>6. CASE lock' = t /\ pc'[t] = "ioctl_sys" /\ time_is_frozen' = FALSE
    BY <2>6 DEF FrozenInPanwrap
  <2> QED BY <1>1, <2>3, <2>4, <2>5, <2>6, LockStep
<1>2. CASE UNCHANGED vars
  BY <1>2 DEF vars, FrozenInPanwrap
<1> QED BY <1>1, <1>2 DEF Next

(***************************************************************************)
(* The timestamps stand still exactly while the owner of the mutex runs    *)
(* panwrap's own code: every path out of a wrapper unfreezes them.         *)
(***************************************************************************)
THEOREM TimeFrozenInPanwrap == Spec => []FrozenInPanwrap
BY TypeCorrect, LockOwner, FrozenInit, FrozenNext, PTL DEF Spec

-----------------------------------------------------------------------------
(***************************************************************************)
(* The descriptor.  A descriptor that open has obtained and not returned,  *)
(* or that a close is about to give back, belongs to one thread; that is   *)
(* why it is still open when the thread goes on, and why no other thread   *)
(* records or forgets it meanwhile.                                        *)
(***************************************************************************)
Owns(t, fd) == /\ pc[t] \in {"open_rec", "close_sys"}
               /\ frame[t].fd = fd /\ fd # NoFd

OwnedOpen == \A t \in Threads, fd \in Fds : Owns(t, fd) => fds[fd] # "free"
OwnedOnce == \A t, u \in Threads, fd \in Fds :
               Owns(t, fd) /\ Owns(u, fd) => t = u
ClosingForgotten ==
    \A t \in Threads : pc[t] = "close_sys" =>
      frame[t].fd \in Fds /\ (mali_fd # 0 => frame[t].fd # mali_fd)
MaliFdInv == MaliFdOpen /\ OwnedOpen /\ OwnedOnce /\ ClosingForgotten

LEMMA MaliFdInit == Init => MaliFdInv
BY DEF Init, MaliFdInv, MaliFdOpen, OwnedOpen, OwnedOnce, ClosingForgotten, Owns

\* Steps that neither open, close nor record a descriptor.
LEMMA MaliFdOther ==
    ASSUME TypeOK, MaliFdInv, NEW t \in Threads, NEW l, NEW f, Call(t, l, f),
           l \notin {"open_rec", "close_sys"}, UNCHANGED <<mali_fd, fds>>
    PROVE  MaliFdInv'
<1>1. \A u \in Threads, fd \in Fds : Owns(u, fd)' => Owns(u, fd)
  BY CallPc DEF Owns
<1>2. MaliFdOpen' /\ OwnedOpen'
  BY <1>1 DEF MaliFdInv, MaliFdOpen, OwnedOpen
<1>3. OwnedOnce'
  BY <1>1 DEF MaliFdInv, OwnedOnce
<1>4. ClosingForgotten'
  BY CallPc DEF MaliFdInv, ClosingForgotten
<1> QED BY <1>2, <1>3, <1>4 DEF MaliFdInv

LEMMA MaliFdOpenSys ==
    ASSUME TypeOK, MaliFdInv, NEW t \in Threads, OpenSys(t)
    PROVE  MaliFdInv'
<1> USE DEF NoFd
<1>0. \A fd \in Fds : fd # NoFd
  BY BoundsAssumption
<1>1. ASSUME NEW fd \in Fds, NEW kind \in {"mali", "other"}, fds[fd] = "free",
             fds' = [fds EXCEPT ![fd] = kind],
             Call(t, "open_rec", [NoFrame EXCEPT !.fd = fd])
      PROVE  MaliFdInv'
  <2>1. \A u \in Threads : ~Owns(u, fd)
    BY <1>1 DEF MaliFdInv, OwnedOpen
  <2>2. frame'[t].fd = fd /\ pc'[t] = "open_rec"
    BY <1>1, CallPc DEF NoFrame
  <2>3. \A u \in Threads, g \in Fds :
          Owns(u, g)' => (u = t /\ g = fd) \/ (u # t /\ Owns(u, g))
    BY <1>1, <2>2, CallPc DEF Owns
  <2>4. mali_fd' = mali_fd
    BY DEF OpenSys, tracker
  <2>5. MaliFdOpen'
    BY <1>1, <2>4 DEF MaliFdInv, MaliFdOpen, TypeOK
  <2>6. OwnedOpen'
    BY <1>1, <2>3 DEF MaliFdInv, OwnedOpen, TypeOK
  <2>7. OwnedOnce'
    BY <2>1, <2>3 DEF MaliFdInv, OwnedOnce
  <2>8. ClosingForgotten'
    BY <1>1, <2>2, <2>4, CallPc DEF MaliFdInv, ClosingForgotten
  <2> QED BY <2>5, <2>6, <2>7, <2>8 DEF MaliFdInv
<1>2. CASE Call(t, "open_rec", NoFrame) /\ UNCHANGED fds
  <2>1. \A u \in Threads, g \in Fds : Owns(u, g)' => Owns(u, g)
    BY <1>0, <1>2, CallPc DEF Owns, NoFrame
  <2>2. mali_fd' = mali_fd
    BY DEF OpenSys, tracker
  <2>3. MaliFdOpen' /\ OwnedOpen'
    BY <1>2, <2>1, <2>2 DEF MaliFdInv, MaliFdOpen, OwnedOpen
  <2>4. OwnedOnce'
    BY <2>1 DEF MaliFdInv, OwnedOnce
  <2>5. ClosingForgotten'
    BY <1>2, <2>2, CallPc DEF MaliFdInv, ClosingForgotten
  <2> QED BY <2>3, <2>4, <2>5 DEF MaliFdInv
<1> QED BY <1>1, <1>2 DEF OpenSys

LEMMA MaliFdOpenRecord ==
    ASSUME TypeOK, MaliFdInv, NEW t \in Threads, OpenRecord(t)
    PROVE  MaliFdInv'
<1> DEFINE fd == frame[t].fd
<1>1. fds' = fds /\ mali_fd' = (IF IsMali(fd) THEN fd ELSE mali_fd)
  BY DEF OpenRecord, kernel
<1>2. Call(t, "app", NoFrame)
  BY DEF OpenRecord, Return
<1>3. \A u \in Threads, g \in Fds : Owns(u, g)' => u # t /\ Owns(u, g)
  BY <1>2, CallPc DEF Owns
<1>4. MaliFdOpen'
  BY <1>1 DEF MaliFdInv, MaliFdOpen, IsMali
<1>5. OwnedOpen' /\ OwnedOnce'
  BY <1>1, <1>3 DEF MaliFdInv, OwnedOpen, OwnedOnce
<1>6. ClosingForgotten'
  <2>1. SUFFICES ASSUME NEW u \in Threads, pc'[u] = "close_sys"
                 PROVE  frame'[u].fd \in Fds
                        /\ (mali_fd' # 0 => frame'[u].fd # mali_fd')
    BY DEF ClosingForgotten
  <2>2. u # t /\ pc[u] = "close_sys" /\ frame'[u] = frame[u]
    BY <1>2, <2>1, CallPc
  <2>3. frame[u].fd \in Fds /\ (mali_fd # 0 => frame[u].fd # mali_fd)
    BY <2>2 DEF MaliFdInv, ClosingForgotten
  <2>4. fd \in Fds => fd # frame[u].fd
    <3>1. \A g \in Fds : g # NoFd
      BY BoundsAssumption DEF NoFd
    <3>2. pc[t] = "open_rec"
      BY DEF OpenRecord
    <3> QED BY <2>2, <2>3, <3>1, <3>2 DEF MaliFdInv, OwnedOnce, Owns
  <2> QED BY <1>1, <2>2, <2>3, <2>4 DEF IsMali
<1> QED BY <1>4, <1>5, <1>6 DEF MaliFdInv

LEMMA MaliFdCloseReset ==
    ASSUME TypeOK, MaliFdInv, NEW t \in Threads, CloseReset(t)
    PROVE  MaliFdInv'
<1>1. PICK fd \in Usable :
        /\ mali_fd' = IF fd > 0 /\ fd = mali_fd THEN 0 ELSE mali_fd
        /\ Call(t, "close_sys", [NoFrame EXCEPT !.fd = fd])
  BY DEF CloseReset
<1>2. fd \in Fds /\ fd \in Nat /\ fds[fd] # "free"
  BY BoundsAssumption DEF Usable
<1>3. \A u \in Threads : ~Owns(u, fd)
  BY DEF Usable, Owns
<1>4. frame'[t].fd = fd /\ pc'[t] = "close_sys"
  BY <1>1, CallPc DEF NoFrame
<1>5. \A u \in Threads, g \in Fds :
        Owns(u, g)' => (u = t /\ g = fd) \/ (u # t /\ Owns(u, g))
  BY <1>1, <1>4, CallPc DEF Owns
<1>6. fds' = fds
  BY DEF CloseReset, kernel
<1>7. MaliFdOpen'
  BY <1>1, <1>6 DEF MaliFdInv, MaliFdOpen
<1>8. OwnedOpen'
  BY <1>2, <1>5, <1>6 DEF MaliFdInv, OwnedOpen
<1>9. OwnedOnce'
  BY <1>3, <1>5 DEF MaliFdInv, OwnedOnce
<1>10. ClosingForgotten'
  <2>1. fd \in Fds /\ (mali_fd' # 0 => fd # mali_fd')
    BY <1>1, <1>2
  <2>2. ASSUME NEW u \in Threads \ {t}, pc'[u] = "close_sys"
        PROVE  frame'[u].fd \in Fds /\ (mali_fd' # 0 => frame'[u].fd # mali_fd')
    BY <1>1, <2>2, CallPc DEF MaliFdInv, ClosingForgotten
  <2> QED BY <1>4, <2>1, <2>2 DEF ClosingForgotten
<1> QED BY <1>7, <1>8, <1>9, <1>10 DEF MaliFdInv

LEMMA MaliFdCloseSys ==
    ASSUME TypeOK, MaliFdInv, NEW t \in Threads, CloseSys(t)
    PROVE  MaliFdInv'
<1> DEFINE fd == frame[t].fd
<1>1. fd \in Fds /\ (mali_fd # 0 => fd # mali_fd) /\ Owns(t, fd)
  <2>1. pc[t] = "close_sys" /\ \A g \in Fds : g # NoFd
    BY BoundsAssumption DEF CloseSys, NoFd
  <2> QED BY <2>1 DEF MaliFdInv, ClosingForgotten, Owns
<1>2. fds' = [fds EXCEPT ![fd] = "free"] /\ mali_fd' = mali_fd
  BY DEF CloseSys, tracker
<1>3. Call(t, "app", NoFrame)
  BY DEF CloseSys, Return
<1>4. \A u \in Threads, g \in Fds : Owns(u, g)' => u # t /\ Owns(u, g) /\ g # fd
  <2>1. \A u \in Threads, g \in Fds : Owns(u, g)' => u # t /\ Owns(u, g)
    BY <1>3, CallPc DEF Owns
  <2> QED BY <1>1, <2>1 DEF MaliFdInv, OwnedOnce
<1>5. MaliFdOpen'
  BY <1>1, <1>2 DEF MaliFdInv, MaliFdOpen, TypeOK
<1>6. OwnedOpen'
  BY <1>2, <1>4 DEF MaliFdInv, OwnedOpen, TypeOK
<1>7. OwnedOnce'
  BY <1>4 DEF MaliFdInv, OwnedOnce
<1>8. ClosingForgotten'
  BY <1>2, <1>3, CallPc DEF MaliFdInv, ClosingForgotten
<1> QED BY <1>5, <1>6, <1>7, <1>8 DEF MaliFdInv

LEMMA MaliFdNext == TypeOK /\ MaliFdInv /\ [Next]_vars => MaliFdInv'
<1> SUFFICES ASSUME TypeOK, MaliFdInv, [Next]_vars PROVE MaliFdInv'
  OBVIOUS
<1>1. ASSUME NEW t \in Threads, Begin(t) PROVE MaliFdInv'
  <2>1. CASE IoctlCall(t)
    <3>1. \E f : \E l \in {"ioctl_pass", "ioctl_lock"} : Call(t, l, f)
      BY <2>1 DEF IoctlCall
    <3> QED BY <2>1, <3>1, MaliFdOther DEF IoctlCall, tracker, kernel
  <2>2. CASE MmapCall(t)
    <3>1. \E f : \E l \in {"mmap_pass", "mmap_lock"} : Call(t, l, f)
      BY <2>2 DEF MmapCall
    <3> QED BY <2>2, <3>1, MaliFdOther DEF MmapCall, tracker, kernel
  <2>3. CASE MunmapSys(t)
    <3>1. \E f : Call(t, "munmap_rec", f)
      BY <2>3 DEF MunmapSys
    <3> QED BY <2>3, <3>1, MaliFdOther DEF MunmapSys, tracker
  <2> QED BY <1>1, <2>1, <2>2, <2>3, MaliFdOpenSys, MaliFdCloseReset DEF Begin
<1>2. ASSUME NEW t \in Threads, Continue(t) PROVE MaliFdInv'
  <2>1. CASE IoctlPass(t)
    BY <2>1, MaliFdOther DEF IoctlPass, Return, tracker
  <2>2. CASE IoctlLock(t)
    BY <2>2, MaliFdOther DEF IoctlLock, Goto, tracker, kernel
  <2>3. CASE IoctlPre(t)
    BY <2>3, MaliFdOther DEF IoctlPre, Goto, tracker, kernel
  <2>4. CASE IoctlSys(t)
    <3>1. \E f : Call(t, "ioctl_post", f)
      BY <2>4 DEF IoctlSys
    <3> QED BY <2>4, <3>1, MaliFdOther DEF IoctlSys, tracker
  <2>5. CASE IoctlPost(t)
    BY <2>5, MaliFdOther DEF IoctlPost, Return, kernel
  <2>6. CASE MmapPass(t)
    BY <2>6, MaliFdOther DEF MmapPass, Return, tracker
  <2>7. CASE MmapSys(t)
    <3>1. \E f : Call(t, "mmap_rec", f)
      BY <2>7 DEF MmapSys
    <3> QED BY <2>7, <3>1, MaliFdOther DEF MmapSys, tracker
  <2>8. CASE MmapRecord(t)
    BY <2>8, MaliFdOther DEF MmapRecord, Return, kernel
  <2>9. CASE MunmapRecord(t)
    BY <2>9, MaliFdOther DEF MunmapRecord, Return, kernel
  <2> QED BY <1>2, <2>1, <2>2, <2>3, <2>4, <2>5, <2>6, <2>7, <2>8, <2>9,
             MaliFdOpenRecord, MaliFdCloseSys DEF Continue
<1>3. CASE UNCHANGED vars
  BY <1>3 DEF vars, tracker, kernel, MaliFdInv, MaliFdOpen, OwnedOpen, OwnedOnce,
              ClosingForgotten, Owns
<1> QED BY <1>1, <1>2, <1>3 DEF Next

(***************************************************************************)
(* mali_fd never names a descriptor that is closed or belongs to another   *)
(* file, for any number of threads and descriptors, however the program    *)
(* opens and closes.                                                       *)
(***************************************************************************)
THEOREM MaliFdNamesDevice == Spec => []MaliFdOpen
<1>1. Spec => []MaliFdInv
  BY TypeCorrect, MaliFdInit, MaliFdNext, PTL DEF Spec
<1> QED BY <1>1, PTL DEF MaliFdInv

-----------------------------------------------------------------------------
(***************************************************************************)
(* The device.  A disciplined program has one descriptor of it at most,    *)
(* and between the open that obtained it and the close that gives it back  *)
(* mali_fd names it: only the thread inside that open or that close, which *)
(* owns the descriptor, sees it untracked.                                 *)
(***************************************************************************)
OneDevice == \A fd, g \in Fds :
    fds[fd] = "mali" /\ fds[g] = "mali" => fd = g /\ fd # 0
Tracked == \A fd \in Fds :
    fds[fd] = "mali" => mali_fd = fd \/ \E t \in Threads : Owns(t, fd)
DeviceInv == Disciplined => OneDevice /\ Tracked

LEMMA DeviceInit == Init => DeviceInv
BY DEF Init, DeviceInv, OneDevice, Tracked

\* Steps that neither open, close nor record a descriptor.
LEMMA DeviceOther ==
    ASSUME TypeOK, DeviceInv, NEW t \in Threads, NEW l, NEW f, Call(t, l, f),
           pc[t] \notin {"open_rec", "close_sys"}, UNCHANGED <<mali_fd, fds>>
    PROVE  DeviceInv'
<1>1. \A u \in Threads, fd \in Fds : Owns(u, fd) => Owns(u, fd)'
  BY CallPc DEF Owns
<1> QED BY <1>1 DEF DeviceInv, OneDevice, Tracked

LEMMA DeviceOpenSys ==
    ASSUME TypeOK, DeviceInv, NEW t \in Threads, OpenSys(t)
    PROVE  DeviceInv'
<1> SUFFICES ASSUME Disciplined PROVE (OneDevice /\ Tracked)'
  BY DEF DeviceInv
<1>1. pc[t] = "app" /\ mali_fd' = mali_fd
  BY DEF OpenSys, tracker
<1>2. ASSUME NEW fd \in Fds, NEW kind \in {"mali", "other"}, MayOpen(fd, kind),
             fds[fd] = "free", fds' = [fds EXCEPT ![fd] = kind],
             Call(t, "open_rec", [NoFrame EXCEPT !.fd = fd])
      PROVE  (OneDevice /\ Tracked)'
  <2>1. fd # 0 /\ (kind = "mali" => \A g \in Fds : fds[g] # "mali")
    BY <1>2 DEF MayOpen
  <2>2. OneDevice'
    BY <1>2, <2>1 DEF DeviceInv, OneDevice, TypeOK
  <2>3. fd # NoFd /\ frame'[t].fd = fd /\ pc'[t] = "open_rec"
    BY <1>2, CallPc, BoundsAssumption DEF NoFrame, NoFd
  <2>4. \A u \in Threads, g \in Fds : Owns(u, g) => Owns(u, g)'
    BY <1>1, <1>2, CallPc DEF Owns
  <2>5. Owns(t, fd)'
    BY <2>3 DEF Owns
  <2>6. \A g \in Fds : fds'[g] = "mali" => g = fd \/ fds[g] = "mali"
    BY <1>2 DEF TypeOK
  <2>7. Tracked'
    BY <1>1, <2>4, <2>5, <2>6 DEF DeviceInv, Tracked
  <2> QED BY <2>2, <2>7
<1>3. CASE Call(t, "open_rec", NoFrame) /\ UNCHANGED fds
  <2>1. \A u \in Threads, g \in Fds : Owns(u, g) => Owns(u, g)'
    BY <1>1, <1>3, CallPc DEF Owns
  <2> QED BY <1>1, <1>3, <2>1 DEF DeviceInv, OneDevice, Tracked
<1> QED BY <1>2, <1>3 DEF OpenSys

LEMMA DeviceOpenRecord ==
    ASSUME TypeOK, DeviceInv, NEW t \in Threads, OpenRecord(t)
    PROVE  DeviceInv'
<1> SUFFICES ASSUME Disciplined PROVE (OneDevice /\ Tracked)'
  BY DEF DeviceInv
<1>1. /\ fds' = fds /\ Call(t, "app", NoFrame)
      /\ mali_fd' = (IF IsMali(frame[t].fd) THEN frame[t].fd ELSE mali_fd)
  BY DEF OpenRecord, Return, kernel
<1>2. OneDevice'
  BY <1>1 DEF DeviceInv, OneDevice
<1>3. \A u \in Threads, g \in Fds :
        Owns(u, g) => (u = t /\ g = frame[t].fd) \/ Owns(u, g)'
  BY <1>1, CallPc DEF Owns
<1>4. ASSUME NEW g \in Fds, fds[g] = "mali"
      PROVE  mali_fd' = g \/ \E u \in Threads : Owns(u, g)'
  <2>1. IsMali(frame[t].fd) => frame[t].fd = g
    BY <1>4 DEF DeviceInv, OneDevice, IsMali
  <2>2. CASE IsMali(frame[t].fd)
    BY <1>1, <2>1, <2>2
  <2>3. CASE ~IsMali(frame[t].fd)
    BY <1>1, <1>3, <1>4, <2>3 DEF DeviceInv, Tracked, IsMali
  <2> QED BY <2>2, <2>3
<1>5. Tracked'
  BY <1>1, <1>4 DEF Tracked
<1> QED BY <1>2, <1>5

LEMMA DeviceCloseReset ==
    ASSUME TypeOK, DeviceInv, NEW t \in Threads, CloseReset(t)
    PROVE  DeviceInv'
<1> SUFFICES ASSUME Disciplined PROVE (OneDevice /\ Tracked)'
  BY DEF DeviceInv
<1>1. PICK fd \in Usable :
        /\ mali_fd' = IF fd > 0 /\ fd = mali_fd THEN 0 ELSE mali_fd
        /\ Call(t, "close_sys", [NoFrame EXCEPT !.fd = fd])
  BY DEF CloseReset
<1>2. pc[t] = "app" /\ fds' = fds /\ fd \in Fds
  BY DEF CloseReset, kernel, Usable
<1>3. fd # NoFd /\ frame'[t].fd = fd /\ pc'[t] = "close_sys"
  BY <1>1, <1>2, CallPc, BoundsAssumption DEF NoFrame, NoFd
<1>4. Owns(t, fd)' /\ \A u \in Threads, g \in Fds : Owns(u, g) => Owns(u, g)'
  BY <1>1, <1>2, <1>3, CallPc DEF Owns
<1>5. OneDevice'
  BY <1>2 DEF DeviceInv, OneDevice
<1>6. Tracked'
  BY <1>1, <1>2, <1>4 DEF DeviceInv, Tracked
<1> QED BY <1>5, <1>6

LEMMA DeviceCloseSys ==
    ASSUME TypeOK, DeviceInv, NEW t \in Threads, CloseSys(t)
    PROVE  DeviceInv'
<1> SUFFICES ASSUME Disciplined PROVE (OneDevice /\ Tracked)'
  BY DEF DeviceInv
<1>1. /\ fds' = [fds EXCEPT ![frame[t].fd] = "free"] /\ mali_fd' = mali_fd
      /\ Call(t, "app", NoFrame)
  BY DEF CloseSys, Return, tracker
<1>2. \A g \in Fds : fds'[g] = "mali" => fds[g] = "mali" /\ g # frame[t].fd
  BY <1>1 DEF TypeOK
<1>3. OneDevice'
  BY <1>2 DEF DeviceInv, OneDevice
<1>4. \A u \in Threads, g \in Fds :
        Owns(u, g) => g = frame[t].fd \/ Owns(u, g)'
  BY <1>1, CallPc DEF Owns
<1>5. Tracked'
  BY <1>1, <1>2, <1>4 DEF DeviceInv, Tracked
<1> QED BY <1>3, <1>5

LEMMA DeviceNext == TypeOK /\ DeviceInv /\ [Next]_vars => DeviceInv'
<1> SUFFICES ASSUME TypeOK, DeviceInv, [Next]_vars PROVE DeviceInv'
  OBVIOUS
<1>1. ASSUME NEW t \in Threads, Begin(t) PROVE DeviceInv'
  <2>1. CASE IoctlCall(t)
    <3>1. pc[t] = "app" /\ \E f, l : Call(t, l, f)
      BY <2>1 DEF IoctlCall
    <3> QED BY <2>1, <3>1, DeviceOther DEF IoctlCall, tracker, kernel
  <2>2. CASE MmapCall(t)
    <3>1. pc[t] = "app" /\ \E f, l : Call(t, l, f)
      BY <2>2 DEF MmapCall
    <3> QED BY <2>2, <3>1, DeviceOther DEF MmapCall, tracker, kernel
  <2>3. CASE MunmapSys(t)
    <3>1. pc[t] = "app" /\ \E f : Call(t, "munmap_rec", f)
      BY <2>3 DEF MunmapSys
    <3> QED BY <2>3, <3>1, DeviceOther DEF MunmapSys, tracker
  <2> QED BY <1>1, <2>1, <2>2, <2>3, DeviceOpenSys, DeviceCloseReset DEF Begin
<1>2. ASSUME NEW t \in Threads, Continue(t) PROVE DeviceInv'
  <2>1. CASE IoctlPass(t)
    BY <2>1, DeviceOther DEF IoctlPass, Return, tracker
  <2>2. CASE IoctlLock(t)
    BY <2>2, DeviceOther DEF IoctlLock, Goto, tracker, kernel
  <2>3. CASE IoctlPre(t)
    BY <2>3, DeviceOther DEF IoctlPre, Goto, tracker, kernel
  <2>4. CASE IoctlSys(t)
    <3>1. pc[t] = "ioctl_sys" /\ \E f : Call(t, "ioctl_post", f)
      BY <2>4 DEF IoctlSys
    <3> QED BY <2>4, <3>1, DeviceOther DEF IoctlSys, tracker
  <2>5. CASE IoctlPost(t)
    BY <2>5, DeviceOther DEF IoctlPost, Return, kernel
  <2>6. CASE MmapPass(t)
    BY <2>6, DeviceOther DEF MmapPass, Return, tracker
  <2>7. CASE MmapSys(t)
    <3>1. pc[t] = "mmap_lock" /\ \E f : Call(t, "mmap_rec", f)
      BY <2>7 DEF MmapSys
    <3> QED BY <2>7, <3>1, DeviceOther DEF MmapSys, tracker
  <2>8. CASE MmapRecord(t)
    BY <2>8, DeviceOther DEF MmapRecord, Return, kernel
  <2>9. CASE MunmapRecord(t)
    BY <2>9, DeviceOther DEF MunmapRecord, Return, kernel
  <2> QED BY <1>2, <2>1, <2>2, <2>3, <2>4, <2>5, <2>6, <2>7, <2>8, <2>9,
             DeviceOpenRecord, DeviceCloseSys DEF Continue
<1>3. CASE UNCHANGED vars
  BY <1>3 DEF vars, tracker, kernel, DeviceInv, OneDevice, Tracked, Owns
<1> QED BY <1>1, <1>2, <1>3 DEF Next

(***************************************************************************)
(* A program that has one GPU device open at a time meets a mali_fd that   *)
(* names it in each call it makes on the device: panwrap traces all of     *)
(* them, whichever threads open, use and close it.                         *)
(***************************************************************************)
THEOREM DeviceAlwaysTracked == Spec => []DeviceTracked
<1>1. Spec => []DeviceInv
  BY TypeCorrect, DeviceInit, DeviceNext, PTL DEF Spec
<1>2. DeviceInv => DeviceTracked
  <2> SUFFICES ASSUME DeviceInv, Disciplined, NEW fd \in Usable, fds[fd] = "mali"
               PROVE  mali_fd = fd
    BY DEF DeviceTracked
  <2>1. fd \in Fds /\ \A t \in Threads : ~Owns(t, fd)
    BY DEF Usable, Owns
  <2> QED BY <2>1 DEF DeviceInv, Tracked
<1> QED BY <1>1, <1>2, PTL
=============================================================================
