--------------------------- MODULE TrackerProofs ---------------------------
(***************************************************************************)
(* What TLAPS proves of the lists of Panwrap: what mmaps says of the       *)
(* program's memory, for every value of the constants.                     *)
(***************************************************************************)
EXTENDS PanwrapProofs, FiniteSetTheorems

-----------------------------------------------------------------------------
(***************************************************************************)
(* The lists as the thread inside the critical section will leave them.    *)
(* The kernel changes the mappings in the system call and panwrap its      *)
(* lists after it; since the mutex is held meanwhile, what the owner is    *)
(* about to record can be taken for recorded, and the lists then follow    *)
(* the kernel step by step.                                                *)
(***************************************************************************)
At(label) == lock \in Threads /\ pc[lock] = label

\* What MmapRecord records of a mapping and leaves of the allocations, what
\* MunmapRecord leaves of the mappings, IoctlPost of the allocations.
Entry(f) ==
    LET i == FindAllocation(f.gpu)
    IN  [addr |-> f.addr, length |-> f.length,
         gpu_va |-> IF i = 0 THEN 0
                    ELSE IF allocations[i].same_va THEN f.addr ELSE f.gpu]
UsedUp(gpu) ==
    LET i == FindAllocation(gpu)
    IN  IF i = 0 THEN allocations ELSE RemoveAt(allocations, i)
Without(mm, addr) ==
    LET i == FindMappedMem(mm, addr) IN IF i = 0 THEN mm ELSE RemoveAt(mm, i)
Allocated(f) ==
    CASE f.req = "MEM_ALLOC"  -> Cons(post_mem_alloc(f), allocations)
      [] f.req = "MEM_COMMIT" -> Cons(post_mem_commit(f), allocations)
      [] OTHER -> allocations

Settled ==
    IF At("mmap_rec") THEN Cons(Entry(frame[lock]), mmaps)
    ELSE IF At("munmap_rec") THEN Without(mmaps, frame[lock].addr)
    ELSE mmaps
SettledAllocs ==
    IF At("ioctl_post") THEN Allocated(frame[lock])
    ELSE IF At("mmap_rec") THEN UsedUp(frame[lock].gpu)
    ELSE allocations

LEMMA EntryType ==
    ASSUME TypeOK, NEW f \in Frames
    PROVE  Entry(f) \in MappedMemories
<1>1. f.addr \in Nat /\ f.length \in Nat /\ f.gpu \in Nat
  BY DEF Frames
<1> QED BY <1>1 DEF Entry, MappedMemories

LEMMA WithoutType ==
    ASSUME NEW T, NEW mm \in Seq(T), NEW addr
    PROVE  Without(mm, addr) \in Seq(T)
<1> DEFINE i == FindMappedMem(mm, addr)
<1>1. i \in 0..Len(mm)
  BY FindMappedMemSpec
<1>2. Without(mm, addr) = IF i = 0 THEN mm ELSE RemoveAt(mm, i)
  BY DEF Without
<1> HIDE DEF i
<1>3. CASE i # 0
  BY <1>1, <1>2, <1>3, RemoveAtElements
<1> QED BY <1>2, <1>3

LEMMA SettledType == TypeOK => Settled \in Seq(MappedMemories)
<1> SUFFICES ASSUME TypeOK PROVE Settled \in Seq(MappedMemories)
  OBVIOUS
<1>1. mmaps \in Seq(MappedMemories) /\ \A t \in Threads : frame[t] \in Frames
  BY DEF TypeOK
<1>2. \A t \in Threads : Cons(Entry(frame[t]), mmaps) \in Seq(MappedMemories)
  BY <1>1, EntryType, ConsElements
<1>3. \A t \in Threads : Without(mmaps, frame[t].addr) \in Seq(MappedMemories)
  BY <1>1, WithoutType
<1> QED BY <1>1, <1>2, <1>3 DEF Settled, At

LEMMA QuietSettled == LockInv /\ Quiet => Settled = mmaps
<1> SUFFICES ASSUME LockInv, Quiet PROVE Settled = mmaps
  OBVIOUS
<1>1. CASE lock = NoThread
  <2>1. \A t \in Threads : pc[t] \notin Holding
    BY <1>1, ThreadsAssumption DEF LockInv
  <2> QED BY <2>1 DEF Settled, At, Holding
<1>2. CASE \A t \in Threads : pc[t] \notin {"mmap_rec", "munmap_rec"}
  BY <1>2 DEF Settled, At
<1> QED BY <1>1, <1>2 DEF Quiet

\* A thread that stays outside the critical section leaves the lists alone.
LEMMA SettledOutside ==
    ASSUME TypeOK, LockInv, NEW t \in Threads, NEW l, NEW f, Call(t, l, f),
           pc[t] \notin Holding, l \notin Holding,
           UNCHANGED <<lock, allocations, mmaps>>
    PROVE  Settled' = Settled /\ SettledAllocs' = SettledAllocs
<1>1. lock # t
  BY DEF LockInv
<1>2. lock \in Threads => pc'[lock] = pc[lock] /\ frame'[lock] = frame[lock]
  BY <1>1, CallPc
<1>3. \A label \in Labels : At(label)' <=> At(label)
  BY <1>2 DEF At
<1>4. CASE At("mmap_rec")
  <2>1. At("mmap_rec")' /\ frame'[lock] = frame[lock] /\ ~At("ioctl_post")
        /\ ~At("ioctl_post")'
    BY <1>2, <1>4 DEF At
  <2>2. Entry(frame[lock])' = Entry(frame[lock])
        /\ UsedUp(frame[lock].gpu)' = UsedUp(frame[lock].gpu)
    BY <2>1 DEF Entry, UsedUp, FindAllocation, SelectInSeq
  <2> QED BY <1>4, <2>1, <2>2 DEF Settled, SettledAllocs
<1>5. CASE At("munmap_rec")
  <2>1. At("munmap_rec")' /\ frame'[lock] = frame[lock]
        /\ \A label \in {"ioctl_post", "mmap_rec"} : ~At(label) /\ ~At(label)'
    BY <1>2, <1>5 DEF At
  <2> QED BY <1>5, <2>1 DEF Settled, SettledAllocs
<1>6. CASE At("ioctl_post")
  <2>1. At("ioctl_post")' /\ frame'[lock] = frame[lock]
        /\ \A label \in {"munmap_rec", "mmap_rec"} : ~At(label) /\ ~At(label)'
    BY <1>2, <1>6 DEF At
  <2>2. Allocated(frame[lock])' = Allocated(frame[lock])
    BY <2>1 DEF Allocated
  <2> QED BY <1>6, <2>1, <2>2 DEF Settled, SettledAllocs
<1>7. CASE \A label \in {"ioctl_post", "munmap_rec", "mmap_rec"} : ~At(label)
  <2>1. \A label \in {"ioctl_post", "munmap_rec", "mmap_rec"} : ~At(label)'
    BY <1>2, <1>7 DEF At
  <2> QED BY <1>7, <2>1 DEF Settled, SettledAllocs
<1> QED BY <1>4, <1>5, <1>6, <1>7

\* The mutex is free, or its owner is t and has nothing to record.
LEMMA SettledIdle ==
    ASSUME lock = NoThread
             \/ (lock \in Threads /\ pc[lock] \in {"ioctl_pre", "ioctl_sys"})
    PROVE  Settled = mmaps /\ SettledAllocs = allocations
BY ThreadsAssumption DEF Settled, SettledAllocs, At

\* The system calls of mmap, munmap and ioctl settle the record of them.
LEMMA SettledMmapSys ==
    ASSUME TypeOK, NEW t \in Threads, MmapSys(t)
    PROVE  /\ Settled = mmaps /\ SettledAllocs = allocations
           /\ Settled' = Cons(Entry(frame'[t]), mmaps)
           /\ SettledAllocs' = UsedUp(frame'[t].gpu)
<1>1. lock = NoThread /\ lock' = t /\ mmaps' = mmaps /\ allocations' = allocations
  BY DEF MmapSys, LOCK, tracker
<1>2. pc'[t] = "mmap_rec"
  <2>1. \E f : Call(t, "mmap_rec", f)
    BY DEF MmapSys
  <2> QED BY <2>1, CallPc
<1>3. Entry(frame[lock])' = Entry(frame'[t])
      /\ UsedUp(frame[lock].gpu)' = UsedUp(frame'[t].gpu)
  BY <1>1 DEF Entry, UsedUp, FindAllocation, SelectInSeq
<1>4. At("mmap_rec")' /\ ~At("ioctl_post")'
  BY <1>1, <1>2 DEF At
<1> QED BY <1>1, <1>3, <1>4, SettledIdle DEF Settled, SettledAllocs

LEMMA SettledMunmapSys ==
    ASSUME TypeOK, NEW t \in Threads, MunmapSys(t)
    PROVE  /\ Settled = mmaps
           /\ Settled' = Without(mmaps, frame'[t].addr)
           /\ SettledAllocs' = SettledAllocs
<1>1. lock = NoThread /\ lock' = t /\ mmaps' = mmaps /\ allocations' = allocations
  BY DEF MunmapSys, LOCK, tracker
<1>2. pc'[t] = "munmap_rec"
  <2>1. \E f : Call(t, "munmap_rec", f)
    BY DEF MunmapSys
  <2> QED BY <2>1, CallPc
<1>3. At("munmap_rec")' /\ ~At("ioctl_post")' /\ ~At("mmap_rec")'
  BY <1>1, <1>2 DEF At
<1> QED BY <1>1, <1>3, SettledIdle DEF Settled, SettledAllocs

LEMMA SettledIoctlSys ==
    ASSUME TypeOK, LockInv, NEW t \in Threads, IoctlSys(t)
    PROVE  /\ Settled' = Settled
           /\ SettledAllocs = allocations
           /\ SettledAllocs' = Allocated(frame'[t])
<1>1. pc[t] = "ioctl_sys" /\ lock = t /\ lock' = t
      /\ mmaps' = mmaps /\ allocations' = allocations
  BY DEF IoctlSys, LockInv, Holding, tracker
<1>2. pc'[t] = "ioctl_post"
  <2>1. \E f : Call(t, "ioctl_post", f)
    BY DEF IoctlSys
  <2> QED BY <2>1, CallPc
<1>3. At("ioctl_post")' /\ ~At("munmap_rec")' /\ ~At("mmap_rec")'
  BY <1>1, <1>2 DEF At
<1>4. Allocated(frame[lock])' = Allocated(frame'[t])
  BY <1>1 DEF Allocated
<1> QED BY <1>1, <1>3, <1>4, SettledIdle DEF Settled, SettledAllocs

\* No other step changes the settled lists: the record of a mapping only does
\* what was settled when the system call was made.
LEMMA SettledStep ==
    ASSUME TypeOK, LockInv, NEW t \in Threads, Begin(t) \/ Continue(t),
           ~MmapSys(t), ~MunmapSys(t)
    PROVE  Settled' = Settled /\ (~IoctlSys(t) => SettledAllocs' = SettledAllocs)
<1> USE DEF Holding
<1>1. CASE OpenSys(t)
  <2>1. \E f : Call(t, "open_rec", f)
    BY <1>1 DEF OpenSys
  <2> QED BY <1>1, <2>1, SettledOutside DEF OpenSys, tracker
<1>2. CASE CloseReset(t)
  <2>1. \E f : Call(t, "close_sys", f)
    BY <1>2 DEF CloseReset
  <2> QED BY <1>2, <2>1, SettledOutside DEF CloseReset
<1>3. CASE IoctlCall(t)
  <2>1. \E f : \E l \in {"ioctl_pass", "ioctl_lock"} : Call(t, l, f)
    BY <1>3 DEF IoctlCall
  <2> QED BY <1>3, <2>1, SettledOutside DEF IoctlCall, tracker
<1>4. CASE MmapCall(t)
  <2>1. \E f : \E l \in {"mmap_pass", "mmap_lock"} : Call(t, l, f)
    BY <1>4 DEF MmapCall
  <2> QED BY <1>4, <2>1, SettledOutside DEF MmapCall, tracker
<1>5. CASE OpenRecord(t)
  BY <1>5, SettledOutside DEF OpenRecord, Return
<1>6. CASE CloseSys(t)
  BY <1>6, SettledOutside DEF CloseSys, Return, tracker
<1>7. CASE IoctlPass(t)
  BY <1>7, SettledOutside DEF IoctlPass, Return, tracker
<1>8. CASE MmapPass(t)
  BY <1>8, SettledOutside DEF MmapPass, Return, tracker
<1>9. CASE IoctlLock(t)
  <2>1. lock = NoThread /\ lock' = t /\ pc'[t] = "ioctl_pre"
        /\ mmaps' = mmaps /\ allocations' = allocations
    BY <1>9, CallPc DEF IoctlLock, LOCK, Goto, tracker
  <2>2. Settled' = mmaps' /\ SettledAllocs' = allocations'
    BY <2>1 DEF Settled, SettledAllocs, At
  <2> QED BY <2>1, <2>2, SettledIdle
<1>10. CASE IoctlPre(t)
  <2>1. lock = t /\ lock' = t /\ pc[t] = "ioctl_pre" /\ pc'[t] = "ioctl_sys"
        /\ mmaps' = mmaps /\ allocations' = allocations
    BY <1>10, CallPc DEF IoctlPre, LockInv, Goto, tracker
  <2>2. Settled' = mmaps' /\ SettledAllocs' = allocations'
    BY <2>1 DEF Settled, SettledAllocs, At
  <2> QED BY <2>1, <2>2, SettledIdle
<1>11. CASE IoctlSys(t)
  BY <1>11, SettledIoctlSys
<1>12. CASE IoctlPost(t)
  <2>1. lock = t /\ lock' = NoThread /\ pc[t] = "ioctl_post" /\ mmaps' = mmaps
        /\ allocations' = Allocated(frame[t])
    BY <1>12 DEF IoctlPost, LockInv, UNLOCK, DecodePost, Allocated
  <2>2. Settled' = mmaps' /\ SettledAllocs' = allocations'
    BY <2>1, ThreadsAssumption DEF Settled, SettledAllocs, At
  <2>3. Settled = mmaps /\ SettledAllocs = Allocated(frame[t])
    BY <2>1 DEF Settled, SettledAllocs, At
  <2> QED BY <2>1, <2>2, <2>3
<1>13. CASE MmapRecord(t)
  <2>1. lock = t /\ lock' = NoThread /\ pc[t] = "mmap_rec"
    BY <1>13 DEF MmapRecord, LockInv, UNLOCK
  <2>2. mmaps' = Cons(Entry(frame[t]), mmaps)
        /\ allocations' = UsedUp(frame[t].gpu)
    BY <1>13 DEF MmapRecord, Entry, UsedUp
  <2>3. Settled' = mmaps' /\ SettledAllocs' = allocations'
    BY <2>1, ThreadsAssumption DEF Settled, SettledAllocs, At
  <2>4. Settled = Cons(Entry(frame[t]), mmaps)
        /\ SettledAllocs = UsedUp(frame[t].gpu)
    BY <2>1 DEF Settled, SettledAllocs, At
  <2> QED BY <2>2, <2>3, <2>4
<1>14. CASE MunmapRecord(t)
  <2>1. lock = t /\ lock' = NoThread /\ pc[t] = "munmap_rec"
        /\ allocations' = allocations
    BY <1>14 DEF MunmapRecord, LockInv, UNLOCK
  <2>2. mmaps' = Without(mmaps, frame[t].addr)
    BY <1>14 DEF MunmapRecord, Without
  <2>3. Settled' = mmaps' /\ SettledAllocs' = allocations'
    BY <2>1, ThreadsAssumption DEF Settled, SettledAllocs, At
  <2>4. Settled = Without(mmaps, frame[t].addr) /\ SettledAllocs = allocations
    BY <2>1 DEF Settled, SettledAllocs, At
  <2> QED BY <2>1, <2>2, <2>3, <2>4
<1> QED BY <1>1, <1>2, <1>3, <1>4, <1>5, <1>6, <1>7, <1>8, <1>9, <1>10, <1>11,
           <1>12, <1>13, <1>14 DEF Begin, Continue

LEMMA SettledUnchanged ==
    UNCHANGED vars => Settled' = Settled /\ SettledAllocs' = SettledAllocs
<1> SUFFICES ASSUME UNCHANGED vars
             PROVE  Settled' = Settled /\ SettledAllocs' = SettledAllocs
  OBVIOUS
<1>1. UNCHANGED <<lock, pc, frame, mmaps, allocations>>
  BY DEF vars, tracker
<1>2. \A label : At(label)' <=> At(label)
  BY <1>1 DEF At
<1>3. \A f : Entry(f)' = Entry(f) /\ Allocated(f)' = Allocated(f)
  BY <1>1 DEF Entry, Allocated, FindAllocation, SelectInSeq
<1>4. \A gpu : UsedUp(gpu)' = UsedUp(gpu)
  BY <1>1 DEF UsedUp, FindAllocation, SelectInSeq
<1> QED BY <1>1, <1>2, <1>3, <1>4 DEF Settled, SettledAllocs

\* A step of t leaves the position and the arguments of the others alone.
LEMMA OthersStay ==
    ASSUME TypeOK, NEW t \in Threads, Begin(t) \/ Continue(t)
    PROVE  \A u \in Threads \ {t} : pc'[u] = pc[u] /\ frame'[u] = frame[u]
<1>1. \E l, f : Call(t, l, f)
  <2>1. CASE OpenSys(t) \/ CloseReset(t)
    BY <2>1 DEF OpenSys, CloseReset
  <2>2. CASE IoctlCall(t) \/ IoctlSys(t)
    BY <2>2 DEF IoctlCall, IoctlSys
  <2>3. CASE MmapCall(t)
    BY <2>3 DEF MmapCall
  <2>4. CASE MunmapSys(t) \/ MmapSys(t)
    BY <2>4 DEF MunmapSys, MmapSys
  <2>5. CASE OpenRecord(t) \/ CloseSys(t) \/ IoctlPass(t) \/ IoctlPost(t)
               \/ MmapPass(t) \/ MmapRecord(t) \/ MunmapRecord(t)
    BY <2>5 DEF OpenRecord, CloseSys, IoctlPass, IoctlPost, MmapPass,
                MmapRecord, MunmapRecord, Return
  <2>6. CASE IoctlLock(t) \/ IoctlPre(t)
    BY <2>6 DEF IoctlLock, IoctlPre, Goto
  <2> QED BY <2>1, <2>2, <2>3, <2>4, <2>5, <2>6 DEF Begin, Continue
<1> QED BY <1>1, CallPc

-----------------------------------------------------------------------------
(***************************************************************************)
(* The arguments of the calls in progress.                                 *)
(***************************************************************************)
Ioctls == {"ioctl_pass", "ioctl_lock", "ioctl_pre", "ioctl_sys"}
Mmaps  == {"mmap_pass", "mmap_lock"}
Allocates(f) == f.req \in {"MEM_ALLOC", "MEM_IMPORT"}
SpanOf(t) == Span(frame[t].addr, frame[t].length)

Frame(l, f) ==
    /\ l = "app" => f = NoFrame
    /\ l = "munmap_rec" => f.fd = NoFd
    /\ l \in Ioctls \cup {"ioctl_post"} =>
         f.fd \in Fds /\ f.req # "none" /\ f.addr = 0
    /\ l \in Ioctls /\ Allocates(f) => f.gpu = 0 /\ f.length \in Lens
    /\ l \in Mmaps => /\ f.req = "none" /\ f.length \in Lens
                      /\ f.addr \in Pages
                      /\ Span(f.addr, f.length) \subseteq Pages
FrameShape == \A t \in Threads : Frame(pc[t], frame[t])

LEMMA FrameInit == Init => FrameShape
BY DEF Init, FrameShape, Frame, Ioctls, Mmaps

LEMMA ArgumentsShape ==
    ASSUME NEW fd \in Fds, NEW known, NEW f \in Arguments(fd, known)
    PROVE  /\ f.fd = fd /\ f.req \in Requests
           /\ Allocates(f) => f.gpu = 0 /\ f.length \in Lens
           /\ f.req \in {"MEM_FREE", "MEM_COMMIT"} =>
                f.gpu \in known /\ f.same_va = FALSE
BY DEF Arguments, IoctlArg, Allocates, Requests

LEMMA FrameStep ==
    ASSUME TypeOK, FrameShape, NEW t \in Threads, Begin(t) \/ Continue(t)
    PROVE  Frame(pc'[t], frame'[t])
<1> USE DEF Ioctls, Mmaps
<1>0. Frame("app", NoFrame)
  BY DEF Frame
<1>1. CASE OpenSys(t)
  <2>1. \E f : Call(t, "open_rec", f)
    BY <1>1 DEF OpenSys
  <2> QED BY <2>1, CallPc DEF Frame
<1>2. CASE CloseReset(t)
  <2>1. \E f : Call(t, "close_sys", f)
    BY <1>2 DEF CloseReset
  <2> QED BY <2>1, CallPc DEF Frame
<1>3. CASE IoctlCall(t)
  <2>0. PICK fd \in Usable : \E f \in Arguments(fd, KnownVAs(fd)) :
          Call(t, IF fd # 0 /\ fd # mali_fd THEN "ioctl_pass" ELSE "ioctl_lock", f)
    BY <1>3 DEF IoctlCall
  <2>1. PICK f \in Arguments(fd, KnownVAs(fd)) :
          Call(t, IF fd # 0 /\ fd # mali_fd THEN "ioctl_pass" ELSE "ioctl_lock", f)
    BY <2>0
  <2>2. fd \in Fds
    BY DEF Usable
  <2>3. /\ f.fd = fd /\ f.req \in Requests /\ f.addr = 0
        /\ Allocates(f) => f.gpu = 0 /\ f.length \in Lens
    <3> DEFINE known == KnownVAs(fd)
    <3>1. f \in Arguments(fd, known)
      OBVIOUS
    <3> HIDE DEF known
    <3> QED BY <2>2, <3>1 DEF Arguments, IoctlArg, Allocates, Requests
  <2>4. frame'[t] = f /\ pc'[t] \in {"ioctl_pass", "ioctl_lock"}
    BY <2>1, CallPc
  <2> QED BY <2>2, <2>3, <2>4 DEF Frame, Requests
<1>4. CASE MmapCall(t)
  <2>1. PICK fd \in Usable \cup {NoFd}, gpu \in Offsets, n \in Lens, a \in Pages :
          LET f == [fd |-> fd, req |-> "none", gpu |-> gpu, length |-> n,
                    same_va |-> FALSE, addr |-> a]
          IN  /\ MayMmap(f)
              /\ Call(t, IF mali_fd = 0 \/ fd # mali_fd THEN "mmap_pass"
                                                        ELSE "mmap_lock", f)
    BY <1>4 DEF MmapCall
  <2> DEFINE f == [fd |-> fd, req |-> "none", gpu |-> gpu, length |-> n,
                   same_va |-> FALSE, addr |-> a]
  <2>2. frame'[t] = f /\ pc'[t] \in {"mmap_pass", "mmap_lock"}
    BY <2>1, CallPc
  <2>3. Span(f.addr, f.length) \subseteq Pages
    BY <2>1 DEF MayMmap
  <2> QED BY <2>2, <2>3 DEF Frame
<1>5. CASE MunmapSys(t)
  <2>1. \E a : Call(t, "munmap_rec", [NoFrame EXCEPT !.addr = a])
    BY <1>5 DEF MunmapSys
  <2> QED BY <2>1, CallPc DEF Frame, NoFrame
<1>6. CASE OpenRecord(t) \/ CloseSys(t) \/ IoctlPass(t) \/ IoctlPost(t)
             \/ MmapPass(t) \/ MmapRecord(t) \/ MunmapRecord(t)
  <2>1. Return(t)
    BY <1>6 DEF OpenRecord, CloseSys, IoctlPass, IoctlPost, MmapPass,
                MmapRecord, MunmapRecord
  <2> QED BY <1>0, <2>1, CallPc DEF Return
<1>7. CASE IoctlLock(t) \/ IoctlPre(t)
  <2>1. \E l \in Ioctls : Call(t, l, frame[t])
    BY <1>7 DEF IoctlLock, IoctlPre, Goto
  <2>2. pc[t] \in Ioctls
    BY <1>7 DEF IoctlLock, IoctlPre
  <2> QED BY <2>1, <2>2, CallPc DEF FrameShape, Frame
<1>8. CASE IoctlSys(t)
  <2>1. \E gpu : Call(t, "ioctl_post", [frame[t] EXCEPT !.gpu = gpu])
    BY <1>8 DEF IoctlSys
  <2>2. pc[t] \in Ioctls /\ frame[t] \in Frames
    BY <1>8 DEF IoctlSys, TypeOK
  <2>3. frame'[t].fd = frame[t].fd /\ frame'[t].req = frame[t].req
        /\ frame'[t].addr = frame[t].addr /\ pc'[t] = "ioctl_post"
    BY <2>1, <2>2, CallPc DEF Frames
  <2> QED BY <2>2, <2>3 DEF FrameShape, Frame
<1>9. CASE MmapSys(t)
  <2>1. \E f : Call(t, "mmap_rec", f)
    BY <1>9 DEF MmapSys
  <2> QED BY <2>1, CallPc DEF Frame
<1> QED BY <1>1, <1>2, <1>3, <1>4, <1>5, <1>6, <1>7, <1>8, <1>9
        DEF Begin, Continue

LEMMA FrameNext == TypeOK /\ LockInv /\ FrameShape /\ [Next]_vars => FrameShape'
<1> SUFFICES ASSUME TypeOK, LockInv, FrameShape, [Next]_vars PROVE FrameShape'
  OBVIOUS
<1>1. ASSUME NEW t \in Threads, Begin(t) \/ Continue(t) PROVE FrameShape'
  <2>1. \A u \in Threads \ {t} : pc'[u] = pc[u] /\ frame'[u] = frame[u]
    BY <1>1, OthersStay
  <2> QED BY <1>1, <2>1, FrameStep DEF FrameShape
<1>2. CASE UNCHANGED vars
  BY <1>2 DEF vars, FrameShape
<1> QED BY <1>1, <1>2 DEF Next

-----------------------------------------------------------------------------
(***************************************************************************)
(* The newest mapping.  A mapping panwrap made is in place while its first *)
(* page shows it; the newest record of any of its pages is then its own,   *)
(* or one of equal address and length: a later mapping over the page would *)
(* have replaced it there, and munmap takes no record whose first page is  *)
(* still in place.                                                         *)
(***************************************************************************)
Made(p) == cpu[p].traced /\ cpu[cpu[p].addr] = cpu[p]
Covers(e, p) == e.addr <= p /\ p < e.addr + e.length
Placed == \A p \in Pages : cpu[p].traced =>
    cpu[p].addr \in Pages /\ p \in Span(cpu[p].addr, cpu[p].length)
NewestAt(S, p) == \E i \in 1..Len(S) :
    /\ S[i].addr = cpu[p].addr /\ S[i].length = cpu[p].length
    /\ \A j \in 1..(i - 1) : ~Covers(S[j], p)
NewestOf(S) == \A p \in Pages : Made(p) => NewestAt(S, p)
NewestInv == Placed /\ NewestOf(Settled)

\* The system call of mmap leaves the mappings alone, or places one.
Places(m) ==
    cpu' = [p \in Pages |-> IF p \in Span(m.addr, m.length) THEN m ELSE cpu[p]]

\* What it places of region r, and what is left of the region.
Mapping(f, gpu_va, traced, due) ==
    [addr |-> f.addr, length |-> f.length, gpu_va |-> gpu_va,
     traced |-> traced, due |-> due]
Maps(f, r, traced) ==
    /\ Places(Mapping(f, IF r.va \in Cookies THEN f.addr ELSE r.va,
                      traced, traced /\ r.due))
    /\ regions' = (regions \ {r}) \cup
         (IF r.va \in Cookies THEN {} ELSE {[r EXCEPT !.due = FALSE]})

\* What it places when no region is concerned.
MapsOther(f, traced) == Places(Mapping(f, 0, traced, FALSE)) /\ regions' = regions

LEMMA KernelMmapCases ==
    ASSUME NEW f, NEW traced, NEW ret, KernelMmap(f, traced, ret)
    PROVE  \/ ret = f.addr /\ \E r \in regions :
                r.ctx = f.fd /\ r.va = f.gpu /\ f.length <= r.length
                /\ Maps(f, r, traced)
           \/ /\ ~IsMali(f.fd) \/ f.gpu = TrackingHandle
              /\ ret = f.addr /\ MapsOther(f, traced)
           \/ /\ ret = MapFailed /\ regions' = regions /\ cpu' = cpu
              /\ Disciplined => IsMali(f.fd) /\ f.gpu # TrackingHandle
                   /\ \A r \in regions : ~(r.ctx = f.fd /\ r.va = f.gpu
                                           /\ f.length <= r.length)
<1> DEFINE found == {r \in regions : /\ r.ctx = f.fd /\ r.va = f.gpu
                                     /\ f.length <= r.length}
           Place(m) == cpu' = [p \in Pages |-> IF p \in Span(f.addr, f.length)
                                                 THEN m ELSE cpu[p]]
           Left(r) == (regions \ {r}) \cup
                        (IF r.va \in Cookies THEN {} ELSE {[r EXCEPT !.due = FALSE]})
<1>1. \/ \E r \in found :
           /\ ret = f.addr
           /\ Place(Mapping(f, IF r.va \in Cookies THEN ret ELSE r.va,
                            traced, traced /\ r.due))
           /\ regions' = Left(r)
      \/ /\ ~IsMali(f.fd) \/ f.gpu = TrackingHandle
         /\ ret = f.addr /\ Place(Mapping(f, 0, traced, FALSE))
         /\ UNCHANGED regions
      \/ /\ ~Disciplined \/ (IsMali(f.fd) /\ found = {} /\ f.gpu # TrackingHandle)
         /\ ret = MapFailed /\ UNCHANGED <<regions, cpu>>
  BY DEF KernelMmap, Mapping
<1>2. \A gpu_va, due : Place(Mapping(f, gpu_va, traced, due))
                         => Places(Mapping(f, gpu_va, traced, due))
  BY DEF Places, Mapping
<1>3. CASE \E r \in found :
             /\ ret = f.addr
             /\ Place(Mapping(f, IF r.va \in Cookies THEN ret ELSE r.va,
                              traced, traced /\ r.due))
             /\ regions' = Left(r)
  <2>1. PICK r \in found :
          /\ ret = f.addr
          /\ Place(Mapping(f, IF r.va \in Cookies THEN f.addr ELSE r.va,
                           traced, traced /\ r.due))
          /\ regions' = Left(r)
    BY <1>3
  <2>2. r \in regions /\ r.ctx = f.fd /\ r.va = f.gpu /\ f.length <= r.length
    OBVIOUS
  <2> HIDE DEF Place
  <2>3. Maps(f, r, traced)
    BY <1>2, <2>1 DEF Maps
  <2> QED BY <2>1, <2>2, <2>3
<1>4. CASE /\ ~IsMali(f.fd) \/ f.gpu = TrackingHandle
           /\ ret = f.addr /\ Place(Mapping(f, 0, traced, FALSE))
           /\ UNCHANGED regions
  <2> HIDE DEF Place
  <2>1. MapsOther(f, traced)
    BY <1>2, <1>4 DEF MapsOther
  <2> QED BY <1>4, <2>1
<1>5. CASE /\ ~Disciplined \/ (IsMali(f.fd) /\ found = {} /\ f.gpu # TrackingHandle)
           /\ ret = MapFailed /\ UNCHANGED <<regions, cpu>>
  BY <1>5
<1> HIDE DEF found, Place, Left
<1> QED BY <1>1, <1>3, <1>4, <1>5

LEMMA KernelMmapPlaces ==
    ASSUME NEW f, NEW traced, NEW ret, KernelMmap(f, traced, ret)
    PROVE  \/ UNCHANGED cpu /\ ret = MapFailed
           \/ ret = f.addr /\ \E m : /\ m.addr = f.addr /\ m.length = f.length
                                     /\ m.traced = traced /\ Places(m)
<1>1. \A gpu_va, due : /\ Mapping(f, gpu_va, traced, due).addr = f.addr
                       /\ Mapping(f, gpu_va, traced, due).length = f.length
                       /\ Mapping(f, gpu_va, traced, due).traced = traced
  BY DEF Mapping
<1>2. \/ UNCHANGED cpu /\ ret = MapFailed
      \/ ret = f.addr /\ \E gpu_va, due : Places(Mapping(f, gpu_va, traced, due))
  <2>1. ASSUME NEW r \in regions, Maps(f, r, traced)
        PROVE  \E gpu_va, due : Places(Mapping(f, gpu_va, traced, due))
    <3> DEFINE gpu_va == IF r.va \in Cookies THEN f.addr ELSE r.va
               due == traced /\ r.due
    <3>1. Places(Mapping(f, gpu_va, traced, due))
      BY <2>1 DEF Maps
    <3> HIDE DEF gpu_va, due
    <3> QED BY <3>1
  <2>2. ASSUME MapsOther(f, traced)
        PROVE  \E gpu_va, due : Places(Mapping(f, gpu_va, traced, due))
    BY <2>2 DEF MapsOther
  <2> QED BY <2>1, <2>2, KernelMmapCases
<1> QED BY <1>1, <1>2

LEMMA NewestInit == Init => NewestInv
BY DEF Init, NewestInv, Placed, NewestOf, Made, NoMap

\* Steps that change no mapping, and mappings panwrap does not make.
LEMMA NewestOther ==
    ASSUME TypeOK, NewestInv, Settled' = Settled, UNCHANGED cpu
    PROVE  NewestInv'
BY DEF NewestInv, Placed, NewestOf, NewestAt, Made

LEMMA NewestMmapPass ==
    ASSUME TypeOK, NewestInv, NEW t \in Threads, MmapPass(t), Settled' = Settled
    PROVE  NewestInv'
<1>1. PICK ret \in Pages \cup {MapFailed} : KernelMmap(frame[t], FALSE, ret)
  BY DEF MmapPass
<1>2. CASE UNCHANGED cpu
  BY <1>2, NewestOther
<1>3. ASSUME NEW m, m.traced = FALSE, Places(m)
      PROVE  NewestInv'
  <2>1. \A p \in Pages : cpu'[p].traced => cpu'[p] = cpu[p]
    BY <1>3 DEF Places
  <2>2. Placed'
    BY <2>1 DEF NewestInv, Placed
  <2>3. ASSUME NEW p \in Pages, Made(p)' PROVE Made(p) /\ cpu'[p] = cpu[p]
    <3>1. cpu'[p] = cpu[p] /\ cpu[p].traced
      BY <2>1, <2>3 DEF Made
    <3>2. cpu[p].addr \in Pages
      BY <3>1 DEF NewestInv, Placed
    <3> QED BY <2>1, <2>3, <3>1, <3>2 DEF Made
  <2>4. NewestOf(Settled)'
    BY <2>3 DEF NewestInv, NewestOf, NewestAt
  <2> QED BY <2>2, <2>4 DEF NewestInv
<1> QED BY <1>1, <1>2, <1>3, KernelMmapPlaces

LEMMA NewestMmapSys ==
    ASSUME TypeOK, FrameShape, NewestInv, NEW t \in Threads, MmapSys(t)
    PROVE  NewestInv'
<1> DEFINE f == frame[t]
           e == Entry(frame'[t])
<1>1. PICK ret \in Pages \cup {MapFailed} :
        KernelMmap(f, TRUE, ret) /\ Call(t, "mmap_rec", [f EXCEPT !.addr = ret])
  BY DEF MmapSys
<1>2. /\ f.addr \in Pages /\ f.length \in Lens /\ f \in Frames
      /\ f.addr \in Nat /\ f.length \in Nat
  BY ZonesType DEF MmapSys, FrameShape, Frame, Mmaps, TypeOK
<1>3. Settled = mmaps /\ Settled' = Cons(e, mmaps)
  BY SettledMmapSys
<1>4. /\ e.addr = ret /\ e.length = f.length /\ e \in MappedMemories
  <2>1. frame'[t] = [f EXCEPT !.addr = ret] /\ ret \in Nat
    BY <1>1, CallPc, ZonesType
  <2>2. [f EXCEPT !.addr = ret] \in Frames
        /\ [f EXCEPT !.addr = ret].addr = ret
        /\ [f EXCEPT !.addr = ret].length = f.length
    BY <1>2, <2>1 DEF Frames
  <2>3. e \in MappedMemories
    BY <2>1, <2>2, EntryType
  <2> QED BY <2>1, <2>2, <2>3 DEF Entry
<1>5. /\ Len(Settled') = Len(mmaps) + 1 /\ Len(mmaps) \in Nat
      /\ \A j \in 1..(Len(mmaps) + 1) :
           Settled'[j] = IF j = 1 THEN e ELSE mmaps[j - 1]
  <2>1. mmaps \in Seq(MappedMemories)
    BY DEF TypeOK
  <2>2. e \in MappedMemories
    BY <1>4
  <2> HIDE DEF e
  <2>3. /\ Len(Cons(e, mmaps)) = Len(mmaps) + 1
        /\ \A j \in 1..(Len(mmaps) + 1) :
             Cons(e, mmaps)[j] = IF j = 1 THEN e ELSE mmaps[j - 1]
    BY <2>1, <2>2, ConsElements
  <2> QED BY <1>3, <2>1, <2>3
<1> HIDE DEF e
<1>6. ASSUME NEW p \in Pages, cpu'[p] = cpu[p], NewestAt(mmaps, p), ~Covers(e, p)
      PROVE  NewestAt(Settled, p)'
  <2>1. PICK i \in 1..Len(mmaps) :
          /\ mmaps[i].addr = cpu[p].addr /\ mmaps[i].length = cpu[p].length
          /\ \A j \in 1..(i - 1) : ~Covers(mmaps[j], p)
    BY <1>6 DEF NewestAt
  <2>2. i + 1 \in 1..(Len(mmaps) + 1) /\ Settled'[i + 1] = mmaps[i]
    BY <1>5
  <2>3. ASSUME NEW j \in 1..i PROVE ~Covers(Settled'[j], p)
    <3>1. CASE j = 1
      BY <1>5, <1>6, <3>1
    <3>2. CASE j # 1
      <4>1. j - 1 \in 1..(i - 1) /\ Settled'[j] = mmaps[j - 1]
        BY <1>5, <3>2
      <4> QED BY <2>1, <4>1
    <3> QED BY <3>1, <3>2
  <2> QED BY <1>5, <1>6, <2>1, <2>2, <2>3 DEF NewestAt
<1>7. CASE UNCHANGED cpu /\ ret = MapFailed
  <2>1. Placed'
    BY <1>7 DEF NewestInv, Placed
  <2>2. ASSUME NEW p \in Pages, Made(p)' PROVE NewestAt(Settled, p)'
    <3>1. Made(p) /\ NewestAt(mmaps, p)
      BY <1>3, <1>7, <2>2 DEF NewestInv, NewestOf, Made
    <3>2. p < MapFailed /\ p \in Nat /\ MapFailed \in Nat
      BY ZonesAssumption
    <3>3. ~Covers(e, p)
      BY <1>4, <1>7, <3>2 DEF Covers
    <3> QED BY <1>6, <1>7, <3>1, <3>3
  <2> QED BY <2>1, <2>2 DEF NewestInv, NewestOf
<1>8. ASSUME ret = f.addr, NEW m, m.addr = f.addr, m.length = f.length,
             Places(m)
      PROVE  NewestInv'
  <2>1. Placed'
    BY <1>2, <1>8 DEF NewestInv, Placed, Places
  <2>2. \A p \in Pages : Covers(e, p) <=> p \in Span(f.addr, f.length)
    <3>1. /\ e.addr = f.addr /\ e.length = f.length
          /\ f.addr \in Nat /\ f.length \in Nat /\ \A p \in Pages : p \in Nat
      BY <1>2, <1>4, <1>8, ZonesType
    <3> HIDE DEF f
    <3> QED BY <3>1 DEF Covers, Span
  <2>3. ASSUME NEW p \in Pages, Made(p)' PROVE NewestAt(Settled, p)'
    <3>1. CASE p \in Span(f.addr, f.length)
      <4>1. cpu'[p] = m /\ 1 \in 1..Len(Settled') /\ Settled'[1] = e
        BY <1>5, <1>8, <3>1 DEF Places
      <4> QED BY <1>4, <1>8, <4>1 DEF NewestAt
    <3>2. CASE p \notin Span(f.addr, f.length)
      <4>1. cpu'[p] = cpu[p] /\ cpu[p].traced
        BY <1>8, <2>3, <3>2 DEF Made, Places
      <4>2. cpu[p].addr \in Pages /\ p \in Span(cpu[p].addr, cpu[p].length)
        BY <4>1 DEF NewestInv, Placed
      <4>3. cpu[p].addr \notin Span(f.addr, f.length)
        <5>1. SUFFICES ASSUME cpu[p].addr \in Span(f.addr, f.length)
                       PROVE  FALSE
          OBVIOUS
        <5>2. cpu'[cpu[p].addr] = m
          BY <1>8, <4>2, <5>1 DEF Places
        <5>3. cpu[p] = m
          BY <2>3, <4>1, <5>2 DEF Made
        <5> QED BY <1>8, <3>2, <4>2, <5>3
      <4>4. Made(p)
        BY <1>8, <2>3, <4>1, <4>2, <4>3 DEF Made, Places
      <4>5. NewestAt(mmaps, p)
        BY <1>3, <4>4 DEF NewestInv, NewestOf
      <4> QED BY <1>6, <2>2, <3>2, <4>1, <4>5
    <3> QED BY <3>1, <3>2
  <2> QED BY <2>1, <2>3 DEF NewestInv, NewestOf
<1>9. \/ UNCHANGED cpu /\ ret = MapFailed
      \/ ret = f.addr /\ \E m : /\ m.addr = f.addr /\ m.length = f.length
                                /\ m.traced = TRUE /\ Places(m)
  <2>1. PICK traced : traced = TRUE /\ KernelMmap(f, traced, ret)
    BY <1>1
  <2> HIDE DEF f
  <2>2. \/ UNCHANGED cpu /\ ret = MapFailed
        \/ ret = f.addr /\ \E m : /\ m.addr = f.addr /\ m.length = f.length
                                  /\ m.traced = traced /\ Places(m)
    BY <2>1, KernelMmapPlaces
  <2> QED BY <2>1, <2>2
<1> QED BY <1>7, <1>8, <1>9

LEMMA NewestMunmapSys ==
    ASSUME TypeOK, NewestInv, NEW t \in Threads, MunmapSys(t)
    PROVE  NewestInv'
<1>1. PICK a \in Pages, n \in Lens :
        /\ cpu' = [p \in Pages |-> IF p \in Span(a, n) THEN NoMap ELSE cpu[p]]
        /\ Call(t, "munmap_rec", [NoFrame EXCEPT !.addr = a])
  BY DEF MunmapSys
<1>2. frame'[t].addr = a
  BY <1>1, CallPc DEF NoFrame
<1>3. Settled = mmaps /\ Settled' = Without(mmaps, a)
  BY <1>2, SettledMunmapSys
<1>4. \A p \in Pages : cpu'[p].traced => cpu'[p] = cpu[p] /\ p # a
  <2>1. a \in Span(a, n)
    BY ZonesType, BoundsAssumption DEF Span
  <2> QED BY <1>1, <2>1 DEF NoMap
<1>5. Placed'
  BY <1>4 DEF NewestInv, Placed
<1>6. ASSUME NEW p \in Pages, Made(p)' PROVE NewestAt(Settled, p)'
  <2> DEFINE k == FindMappedMem(mmaps, a)
  <2>1. cpu'[p] = cpu[p] /\ cpu[p].traced
    BY <1>4, <1>6 DEF Made
  <2>2. cpu[p].addr \in Pages
    BY <2>1 DEF NewestInv, Placed
  <2>3. Made(p) /\ cpu[p].addr # a
    BY <1>4, <1>6, <2>1, <2>2 DEF Made
  <2>4. PICK i \in 1..Len(mmaps) :
          /\ mmaps[i].addr = cpu[p].addr /\ mmaps[i].length = cpu[p].length
          /\ \A j \in 1..(i - 1) : ~Covers(mmaps[j], p)
    BY <1>3, <2>3 DEF NewestInv, NewestOf, NewestAt
  <2>5. /\ k \in 0..Len(mmaps) /\ (k # 0 => mmaps[k].addr = a)
        /\ mmaps \in Seq(MappedMemories) /\ Len(mmaps) \in Nat
    BY FindMappedMemSpec DEF TypeOK
  <2>6. Settled' = IF k = 0 THEN mmaps ELSE RemoveAt(mmaps, k)
    BY <1>3 DEF Without
  <2> HIDE DEF k
  <2>7. CASE k = 0
    BY <2>1, <2>4, <2>6, <2>7 DEF NewestAt
  <2>8. CASE k # 0
    <3>1. /\ Len(Settled') = Len(mmaps) - 1
          /\ \A j \in 1..(Len(mmaps) - 1) :
               Settled'[j] = IF j < k THEN mmaps[j] ELSE mmaps[j + 1]
      <4>1. k \in 1..Len(mmaps) /\ Settled' = RemoveAt(mmaps, k)
        BY <2>5, <2>6, <2>8
      <4> QED BY <2>5, <4>1, RemoveAtElements
    <3>2. i # k
      BY <2>3, <2>4, <2>5, <2>8
    <3> DEFINE h == IF i < k THEN i ELSE i - 1
    <3>3. h \in 1..(Len(mmaps) - 1) /\ Settled'[h] = mmaps[i]
      <4>1. CASE i < k
        <5>1. i \in 1..(Len(mmaps) - 1) /\ h = i
          BY <2>5, <4>1
        <5> QED BY <3>1, <4>1, <5>1
      <4>2. CASE ~(i < k)
        <5>1. /\ i - 1 \in 1..(Len(mmaps) - 1) /\ h = i - 1 /\ ~(i - 1 < k)
              /\ (i - 1) + 1 = i
          BY <2>5, <2>8, <3>2, <4>2
        <5> QED BY <3>1, <5>1
      <4> QED BY <4>1, <4>2
    <3>4. ASSUME NEW j \in 1..(h - 1) PROVE ~Covers(Settled'[j], p)
      <4>1. j \in 1..(Len(mmaps) - 1) /\ j \in 1..(i - 1)
        BY <2>5, <3>3
      <4>2. CASE j < k
        <5>1. Settled'[j] = mmaps[j]
          BY <3>1, <4>1, <4>2
        <5> QED BY <2>4, <4>1, <5>1
      <4>3. CASE ~(j < k)
        <5>1. j + 1 \in 1..(i - 1)
          BY <2>5, <4>1, <4>3
        <5>2. Settled'[j] = mmaps[j + 1]
          BY <3>1, <4>1, <4>3
        <5> QED BY <2>4, <5>1, <5>2
      <4> QED BY <4>2, <4>3
    <3> HIDE DEF h
    <3> QED BY <2>1, <2>4, <3>1, <3>3, <3>4 DEF NewestAt
  <2> QED BY <2>7, <2>8
<1> QED BY <1>5, <1>6 DEF NewestInv, NewestOf

LEMMA NewestNext ==
    TypeOK /\ LockInv /\ FrameShape /\ NewestInv /\ [Next]_vars => NewestInv'
<1> SUFFICES ASSUME TypeOK, LockInv, FrameShape, NewestInv, [Next]_vars
             PROVE  NewestInv'
  OBVIOUS
<1>1. ASSUME NEW t \in Threads, Begin(t) PROVE NewestInv'
  <2>1. CASE MunmapSys(t)
    BY <2>1, NewestMunmapSys
  <2>2. CASE ~MunmapSys(t)
    <3>1. ~MmapSys(t) \/ NewestInv'
      BY NewestMmapSys
    <3>2. ~MmapSys(t) => Settled' = Settled
      BY <1>1, <2>2, SettledStep
    <3>3. UNCHANGED cpu
      BY <1>1, <2>2 DEF Begin, OpenSys, CloseReset, IoctlCall, MmapCall, kernel
    <3> QED BY <3>1, <3>2, <3>3, NewestOther
  <2> QED BY <2>1, <2>2
<1>2. ASSUME NEW t \in Threads, Continue(t) PROVE NewestInv'
  <2>1. CASE MmapSys(t)
    BY <2>1, NewestMmapSys
  <2>2. CASE MunmapSys(t)
    BY <2>2, NewestMunmapSys
  <2>3. CASE ~MmapSys(t) /\ ~MunmapSys(t)
    <3>1. Settled' = Settled
      BY <1>2, <2>3, SettledStep
    <3>2. CASE MmapPass(t)
      BY <3>1, <3>2, NewestMmapPass
    <3>3. CASE ~MmapPass(t)
      <4>1. UNCHANGED cpu
        BY <1>2, <2>3, <3>3
           DEF Continue, OpenRecord, CloseSys, IoctlPass, IoctlLock, IoctlPre,
               IoctlSys, IoctlPost, MmapRecord, MunmapRecord, kernel
      <4> QED BY <3>1, <4>1, NewestOther
    <3> QED BY <3>2, <3>3
  <2> QED BY <2>1, <2>2, <2>3
<1>3. CASE UNCHANGED vars
  BY <1>3, SettledUnchanged, NewestOther DEF vars, kernel
<1> QED BY <1>1, <1>2, <1>3 DEF Next

LEMMA NewestFound == TypeOK /\ LockInv /\ NewestInv => NewestMappingFound
<1> SUFFICES ASSUME TypeOK, LockInv, NewestInv, Quiet, NEW p \in Pages, cpu[p].traced,
                    cpu[cpu[p].addr] = cpu[p]
             PROVE  LET m == cpu[p]
                        i == FindMappedMemContaining(mmaps, p)
                    IN  /\ i # 0
                        /\ \/ mmaps[i].addr = m.addr /\ mmaps[i].length = m.length
                           \/ mmaps[i].addr + mmaps[i].length = p
  BY DEF NewestMappingFound
<1> DEFINE k == FindMappedMemContaining(mmaps, p)
<1>1. PICK i \in 1..Len(mmaps) :
        /\ mmaps[i].addr = cpu[p].addr /\ mmaps[i].length = cpu[p].length
        /\ \A j \in 1..(i - 1) : ~Covers(mmaps[j], p)
  BY QuietSettled DEF NewestInv, NewestOf, NewestAt, Made
<1>2. /\ p \in Nat /\ Len(mmaps) \in Nat
      /\ \A j \in 1..Len(mmaps) : mmaps[j].addr \in Nat /\ mmaps[j].length \in Nat
  <2>1. mmaps \in Seq(MappedMemories) /\ Len(mmaps) \in Nat
    BY DEF TypeOK
  <2>2. \A j \in 1..Len(mmaps) : mmaps[j] \in MappedMemories
    BY <2>1
  <2> QED BY <2>1, <2>2, ZonesType DEF MappedMemories
<1>3. mmaps[i].addr <= p /\ p <= mmaps[i].addr + mmaps[i].length
  BY <1>1, <1>2 DEF NewestInv, Placed, Span
<1>4. /\ k \in 0..Len(mmaps)
      /\ k = 0 => \A j \in 1..Len(mmaps) :
           ~(mmaps[j].addr <= p /\ p <= mmaps[j].addr + mmaps[j].length)
      /\ k # 0 =>
           /\ mmaps[k].addr <= p /\ p <= mmaps[k].addr + mmaps[k].length
           /\ \A j \in 1..(k - 1) :
                ~(mmaps[j].addr <= p /\ p <= mmaps[j].addr + mmaps[j].length)
  BY FindMappedMemContainingSpec DEF TypeOK
<1> HIDE DEF k
<1>5. k # 0 /\ k \in 1..i
  BY <1>2, <1>3, <1>4
<1>6. CASE k = i
  BY <1>1, <1>5, <1>6 DEF k
<1>7. CASE k # i
  <2>1. k \in 1..(i - 1) /\ k \in 1..Len(mmaps)
    BY <1>4, <1>5, <1>7
  <2>2. ~(p < mmaps[k].addr + mmaps[k].length)
    BY <1>1, <1>4, <1>5, <2>1 DEF Covers
  <2>a. mmaps[k].addr \in Nat /\ mmaps[k].length \in Nat /\ p \in Nat
    BY <1>2, <2>1
  <2>b. p <= mmaps[k].addr + mmaps[k].length
    BY <1>4, <1>5
  <2>3. mmaps[k].addr + mmaps[k].length = p
    BY ONLY <2>2, <2>a, <2>b
  <2> QED BY <1>5, <2>3 DEF k
<1> QED BY <1>6, <1>7

(***************************************************************************)
(* As long as the first page of a mapping that panwrap made is in place, a *)
(* search by CPU address finds its record from each of its pages, or one   *)
(* that ends at the page, and never one of what was there before, for any  *)
(* number of threads and mappings, whatever the program maps over or       *)
(* unmaps.                                                                 *)
(***************************************************************************)
THEOREM NewestAlwaysFound == Spec => []NewestMappingFound
<1>1. Spec => []FrameShape
  BY TypeCorrect, LockOwner, FrameInit, FrameNext, PTL DEF Spec
<1>2. Spec => []NewestInv
  BY <1>1, TypeCorrect, LockOwner, NewestInit, NewestNext, PTL DEF Spec
<1> QED BY <1>2, TypeCorrect, LockOwner, NewestFound, PTL

-----------------------------------------------------------------------------
(***************************************************************************)
(* The kernel under a disciplined program.  First the descriptors: what a  *)
(* call uses stays open, no other call uses what is being closed, and mmap *)
(* takes the mutex exactly on the device.                                  *)
(***************************************************************************)
Opening == {"open_rec", "close_sys"}
UserOpen == \A t \in Threads :
    pc[t] \notin Opening /\ frame[t].fd \in Fds => fds[frame[t].fd] # "free"
ClosingAlone == \A t, u \in Threads :
    pc[u] = "close_sys" /\ t # u => frame[t].fd # frame[u].fd
PassOrLock == \A t \in Threads :
    /\ pc[t] = "mmap_pass" => ~IsMali(frame[t].fd)
    /\ pc[t] = "mmap_lock" => IsMali(frame[t].fd)
Descriptors == Disciplined => UserOpen /\ ClosingAlone /\ PassOrLock

LEMMA FdsProper == NoFd \notin Fds /\ 0 \in Fds
BY BoundsAssumption DEF NoFd

LEMMA DescriptorsInit == Init => Descriptors
BY FdsProper
   DEF Init, Descriptors, UserOpen, ClosingAlone, PassOrLock, Opening, NoFrame

\* Steps in which t keeps the descriptor it uses, or leaves a call.
LEMMA DescriptorsOther ==
    ASSUME TypeOK, MaliFdInv, Descriptors, NEW t \in Threads, NEW l, NEW f,
           Call(t, l, f), l \notin Opening \cup Mmaps, UNCHANGED fds,
           f.fd = NoFd \/ (f.fd = frame[t].fd /\ pc[t] \notin Opening)
    PROVE  Descriptors'
<1> SUFFICES ASSUME Disciplined PROVE (UserOpen /\ ClosingAlone /\ PassOrLock)'
  BY DEF Descriptors
<1>1. /\ pc'[t] = l /\ frame'[t] = f
      /\ \A u \in Threads \ {t} : pc'[u] = pc[u] /\ frame'[u] = frame[u]
  BY CallPc
<1>2. UserOpen'
  BY <1>1, FdsProper DEF Descriptors, UserOpen
<1>3. ClosingAlone'
  BY <1>1, FdsProper
     DEF Descriptors, ClosingAlone, Opening, MaliFdInv, ClosingForgotten
<1>4. PassOrLock'
  BY <1>1 DEF Descriptors, PassOrLock, Mmaps, IsMali
<1> QED BY <1>2, <1>3, <1>4

LEMMA DescriptorsOpenSys ==
    ASSUME TypeOK, MaliFdInv, Descriptors, NEW t \in Threads, OpenSys(t)
    PROVE  Descriptors'
<1> SUFFICES ASSUME Disciplined PROVE (UserOpen /\ ClosingAlone /\ PassOrLock)'
  BY DEF Descriptors
<1>1. PICK f :
        /\ Call(t, "open_rec", f)
        /\ f.fd = NoFd \/ (f.fd \in Fds /\ fds[f.fd] = "free")
        /\ \A g \in Fds : g = f.fd \/ fds'[g] = fds[g]
  <2>1. ASSUME NEW fd \in Fds, NEW kind, fds[fd] = "free",
               fds' = [fds EXCEPT ![fd] = kind],
               Call(t, "open_rec", [NoFrame EXCEPT !.fd = fd])
        PROVE  \E f : /\ Call(t, "open_rec", f)
                      /\ f.fd = NoFd \/ (f.fd \in Fds /\ fds[f.fd] = "free")
                      /\ \A g \in Fds : g = f.fd \/ fds'[g] = fds[g]
    <3> DEFINE f == [NoFrame EXCEPT !.fd = fd]
    <3>1. f.fd = fd
      BY DEF NoFrame
    <3>2. \A g \in Fds : g = fd \/ fds'[g] = fds[g]
      BY <2>1 DEF TypeOK
    <3> HIDE DEF f
    <3> QED BY <2>1, <3>1, <3>2 DEF f
  <2>2. NoFrame.fd = NoFd
    BY DEF NoFrame
  <2> QED BY <2>1, <2>2 DEF OpenSys
<1>2. /\ pc'[t] = "open_rec" /\ frame'[t] = f
      /\ \A u \in Threads \ {t} : pc'[u] = pc[u] /\ frame'[u] = frame[u]
  BY <1>1, CallPc
<1>3. UserOpen'
  BY <1>1, <1>2, FdsProper DEF Descriptors, UserOpen, Opening
<1>4. ASSUME NEW u \in Threads, pc'[u] = "close_sys"
      PROVE  u # t /\ frame[u].fd \in Fds /\ fds[frame[u].fd] # "free"
  <2>1. u # t /\ pc[u] = "close_sys"
    BY <1>2, <1>4
  <2>2. frame[u].fd \in Fds
    BY <2>1 DEF MaliFdInv, ClosingForgotten
  <2> QED BY <2>1, <2>2, FdsProper DEF MaliFdInv, OwnedOpen, Owns
<1>5. ClosingAlone'
  BY <1>1, <1>2, <1>4, FdsProper DEF Descriptors, ClosingAlone
<1>6. ASSUME NEW u \in Threads, pc'[u] \in Mmaps
      PROVE  u # t /\ (IsMali(frame[u].fd)' <=> IsMali(frame[u].fd))
  <2>1. u # t /\ pc[u] \in Mmaps /\ frame'[u] = frame[u]
    BY <1>2, <1>6 DEF Mmaps
  <2>2. frame[u].fd \in Fds => fds[frame[u].fd] # "free"
    BY <2>1 DEF Descriptors, UserOpen, Opening, Mmaps
  <2>3. frame[u].fd \in Fds => fds'[frame[u].fd] = fds[frame[u].fd]
    BY <1>1, <2>2, FdsProper
  <2> QED BY <2>1, <2>3 DEF IsMali
<1>7. PassOrLock'
  BY <1>2, <1>6 DEF Descriptors, PassOrLock, Mmaps
<1> QED BY <1>3, <1>5, <1>7

LEMMA DescriptorsCloseReset ==
    ASSUME TypeOK, MaliFdInv, Descriptors, NEW t \in Threads, CloseReset(t)
    PROVE  Descriptors'
<1> SUFFICES ASSUME Disciplined PROVE (UserOpen /\ ClosingAlone /\ PassOrLock)'
  BY DEF Descriptors
<1>1. PICK fd \in Usable :
        MayClose(fd) /\ Call(t, "close_sys", [NoFrame EXCEPT !.fd = fd])
  BY DEF CloseReset
<1>2. /\ pc'[t] = "close_sys" /\ frame'[t].fd = fd
      /\ \A u \in Threads \ {t} : pc'[u] = pc[u] /\ frame'[u] = frame[u]
  BY <1>1, CallPc DEF NoFrame
<1>3. fds' = fds
  BY DEF CloseReset, kernel
<1>4. \A u \in Threads : frame[u].fd # fd
  BY <1>1 DEF MayClose, InUse
<1>5. UserOpen' /\ ClosingAlone' /\ PassOrLock'
  BY <1>2, <1>3, <1>4
     DEF Descriptors, UserOpen, Opening, ClosingAlone, PassOrLock, IsMali
<1> QED BY <1>5

LEMMA DescriptorsCloseSys ==
    ASSUME TypeOK, MaliFdInv, Descriptors, NEW t \in Threads, CloseSys(t)
    PROVE  Descriptors'
<1> SUFFICES ASSUME Disciplined PROVE (UserOpen /\ ClosingAlone /\ PassOrLock)'
  BY DEF Descriptors
<1>1. /\ pc'[t] = "app" /\ frame'[t].fd = NoFd
      /\ \A u \in Threads \ {t} : pc'[u] = pc[u] /\ frame'[u] = frame[u]
  BY CallPc DEF CloseSys, Return, NoFrame
<1>2. pc[t] = "close_sys" /\ fds' = [fds EXCEPT ![frame[t].fd] = "free"]
  BY DEF CloseSys
<1>3. \A u \in Threads \ {t} : frame[u].fd # frame[t].fd
  BY <1>2 DEF Descriptors, ClosingAlone
<1>4. \A u \in Threads \ {t} : frame[u].fd \in Fds =>
        fds'[frame[u].fd] = fds[frame[u].fd]
  BY <1>2, <1>3 DEF TypeOK
<1>5. UserOpen'
  BY <1>1, <1>4, FdsProper DEF Descriptors, UserOpen, Opening
<1>6. ClosingAlone'
  BY <1>1, FdsProper DEF Descriptors, ClosingAlone, MaliFdInv, ClosingForgotten
<1>7. PassOrLock'
  BY <1>1, <1>4 DEF Descriptors, PassOrLock, IsMali
<1> QED BY <1>5, <1>6, <1>7

\* The calls that begin on a descriptor the program can use.
LEMMA DescriptorsBegin ==
    ASSUME TypeOK, MaliFdInv, Descriptors, NEW t \in Threads, NEW l, NEW f,
           NEW fd \in Usable \cup {NoFd}, Call(t, l, f), f.fd = fd,
           l \notin Opening, UNCHANGED fds,
           l = "mmap_pass" => ~IsMali(fd), l = "mmap_lock" => IsMali(fd)
    PROVE  Descriptors'
<1> SUFFICES ASSUME Disciplined PROVE (UserOpen /\ ClosingAlone /\ PassOrLock)'
  BY DEF Descriptors
<1>1. /\ pc'[t] = l /\ frame'[t] = f
      /\ \A u \in Threads \ {t} : pc'[u] = pc[u] /\ frame'[u] = frame[u]
  BY CallPc
<1>2. UserOpen'
  BY <1>1, FdsProper DEF Descriptors, UserOpen, Usable
<1>3. \A u \in Threads : pc[u] = "close_sys" => frame[u].fd # fd
  BY FdsProper DEF Usable, MaliFdInv, ClosingForgotten
<1>4. ClosingAlone'
  BY <1>1, <1>3 DEF Descriptors, ClosingAlone, Opening
<1>5. PassOrLock'
  BY <1>1 DEF Descriptors, PassOrLock, IsMali
<1> QED BY <1>2, <1>4, <1>5

LEMMA DescriptorsNext ==
    TypeOK /\ FrameShape /\ MaliFdInv /\ DeviceInv /\ Descriptors /\ [Next]_vars
      => Descriptors'
<1> SUFFICES ASSUME TypeOK, FrameShape, MaliFdInv, DeviceInv, Descriptors,
                    Disciplined, [Next]_vars
             PROVE  Descriptors'
  BY DEF Descriptors
<1> USE DEF Opening, Mmaps
<1>0. NoFrame.fd = NoFd
  BY DEF NoFrame
<1>1. ASSUME NEW t \in Threads, Begin(t) PROVE Descriptors'
  <2>1. CASE IoctlCall(t)
    <3>1. PICK fd \in Usable : \E f \in Arguments(fd, KnownVAs(fd)) :
            \E l \in {"ioctl_pass", "ioctl_lock"} : Call(t, l, f)
      BY <2>1 DEF IoctlCall
    <3>2. PICK f \in Arguments(fd, KnownVAs(fd)) :
            \E l \in {"ioctl_pass", "ioctl_lock"} : Call(t, l, f)
      BY <3>1
    <3>3. f.fd = fd
      <4>1. fd \in Fds
        BY DEF Usable
      <4> QED BY <3>2, <4>1, ArgumentsShape
    <3> QED BY <2>1, <3>2, <3>3, DescriptorsBegin DEF IoctlCall, kernel
  <2>2. CASE MmapCall(t)
    <3>1. PICK fd \in Usable \cup {NoFd} : \E f : /\ f.fd = fd
            /\ Call(t, IF mali_fd = 0 \/ fd # mali_fd THEN "mmap_pass"
                                                      ELSE "mmap_lock", f)
      <4>1. PICK fd \in Usable \cup {NoFd}, gpu \in Offsets, n \in Lens, a \in Pages :
              Call(t, IF mali_fd = 0 \/ fd # mali_fd THEN "mmap_pass"
                                                     ELSE "mmap_lock",
                   [fd |-> fd, req |-> "none", gpu |-> gpu, length |-> n,
                    same_va |-> FALSE, addr |-> a])
        BY <2>2 DEF MmapCall
      <4> DEFINE f == [fd |-> fd, req |-> "none", gpu |-> gpu, length |-> n,
                       same_va |-> FALSE, addr |-> a]
      <4>2. f.fd = fd
        OBVIOUS
      <4> HIDE DEF f
      <4> QED BY <4>1, <4>2 DEF f
    <3>2. IsMali(fd) => mali_fd = fd /\ mali_fd # 0
      BY DEF IsMali, Usable, DeviceInv, OneDevice, Tracked, Owns
    <3>3. mali_fd # 0 /\ fd = mali_fd => IsMali(fd)
      BY DEF MaliFdInv, MaliFdOpen, IsMali, TypeOK
    <3> QED BY <2>2, <3>1, <3>2, <3>3, DescriptorsBegin DEF MmapCall, kernel
  <2>3. CASE MunmapSys(t)
    <3>1. PICK a : Call(t, "munmap_rec", [NoFrame EXCEPT !.addr = a])
      BY <2>3 DEF MunmapSys
    <3>2. [NoFrame EXCEPT !.addr = a].fd = NoFd
      BY DEF NoFrame
    <3> QED BY <2>3, <3>1, <3>2, DescriptorsOther DEF MunmapSys
  <2> QED BY <1>1, <2>1, <2>2, <2>3, DescriptorsOpenSys, DescriptorsCloseReset
          DEF Begin
<1>2. ASSUME NEW t \in Threads, Continue(t) PROVE Descriptors'
  <2>1. CASE OpenRecord(t) \/ IoctlPass(t) \/ IoctlPost(t) \/ MmapPass(t)
               \/ MmapRecord(t) \/ MunmapRecord(t)
    BY <1>0, <2>1, DescriptorsOther
       DEF OpenRecord, IoctlPass, IoctlPost, MmapPass, MmapRecord, MunmapRecord,
           Return, kernel
  <2>2. CASE IoctlLock(t) \/ IoctlPre(t)
    BY <2>2, DescriptorsOther DEF IoctlLock, IoctlPre, Goto, kernel
  <2>3. CASE IoctlSys(t)
    <3>1. PICK gpu : Call(t, "ioctl_post", [frame[t] EXCEPT !.gpu = gpu])
      BY <2>3 DEF IoctlSys
    <3>2. [frame[t] EXCEPT !.gpu = gpu].fd = frame[t].fd
      BY DEF TypeOK, Frames
    <3> QED BY <2>3, <3>1, <3>2, DescriptorsOther DEF IoctlSys
  <2>4. CASE MmapSys(t)
    <3>1. PICK a : Call(t, "mmap_rec", [frame[t] EXCEPT !.addr = a])
      BY <2>4 DEF MmapSys
    <3>2. [frame[t] EXCEPT !.addr = a].fd = frame[t].fd
      BY DEF TypeOK, Frames
    <3> QED BY <2>4, <3>1, <3>2, DescriptorsOther DEF MmapSys
  <2> QED BY <1>2, <2>1, <2>2, <2>3, <2>4, DescriptorsCloseSys DEF Continue
<1>3. CASE UNCHANGED vars
  BY <1>3 DEF vars, kernel, Descriptors, UserOpen, ClosingAlone, PassOrLock, IsMali
<1> QED BY <1>1, <1>2, <1>3 DEF Next

-----------------------------------------------------------------------------
(***************************************************************************)
(* The regions: they are the device's, lie in the address zones of the GPU *)
(* and do not overlap.                                                     *)
(***************************************************************************)
RegionOK(r) ==
    /\ IsMali(r.ctx) /\ r.length \in Lens /\ r.va \in GpuVAs \cup Cookies
    /\ RegionSpan(r.va, r.length) \subseteq GpuVAs \cup Cookies
Apart(r, s) == RegionSpan(r.va, r.length) \cap RegionSpan(s.va, s.length) = {}
RegionsTyped == \A r \in regions : RegionOK(r)
RegionsApart == \A r, s \in regions : r = s \/ Apart(r, s)
RegionsInv == Disciplined => RegionsTyped /\ RegionsApart

LEMMA RegionsInit == Init => RegionsInv
BY DEF Init, RegionsInv, RegionsTyped, RegionsApart

\* A region holds its own address, so regions of one address are one region.
LEMMA RegionStart ==
    ASSUME TypeOK, Disciplined, RegionsInv, NEW r \in regions
    PROVE  /\ r.va \in RegionSpan(r.va, r.length)
           /\ \A s \in regions : r.va = s.va => r = s
<1>1. \A s \in regions : s.va \in RegionSpan(s.va, s.length)
  <2> SUFFICES ASSUME NEW s \in regions PROVE s.va \in RegionSpan(s.va, s.length)
    OBVIOUS
  <2>1. s.length \in Nat \ {0} /\ s.va \in Nat
    BY ZonesType, BoundsAssumption DEF RegionsInv, RegionsTyped, RegionOK
  <2> QED BY <2>1 DEF RegionSpan, Span
<1> QED BY <1>1 DEF RegionsInv, RegionsApart, Apart

\* Regions go, and the device stays.
LEMMA RegionsSubset ==
    ASSUME RegionsInv, regions' \subseteq regions,
           \A r \in regions' : IsMali(r.ctx) => IsMali(r.ctx)'
    PROVE  RegionsInv'
BY DEF RegionsInv, RegionsTyped, RegionsApart, RegionOK, Apart

\* The system call of ioctl.
LEMMA RegionsIoctl ==
    ASSUME TypeOK, DeviceInv, RegionsInv, NEW f \in Frames,
           Allocates(f) => f.length \in Lens,
           NEW traced, NEW gpu, KernelIoctl(f, traced, gpu), UNCHANGED fds
    PROVE  RegionsInv'
<1> SUFFICES ASSUME Disciplined PROVE (RegionsTyped /\ RegionsApart)'
  BY DEF RegionsInv
<1>0. \A r : IsMali(r.ctx)' <=> IsMali(r.ctx)
  BY DEF IsMali
<1>1. CASE regions' \subseteq regions
  BY <1>0, <1>1, RegionsSubset DEF RegionsInv
<1>2. CASE /\ Allocates(f) /\ IsMali(f.fd) /\ FreshRange(f, gpu)
           /\ regions' = regions \cup
                {[ctx |-> f.fd, va |-> gpu, length |-> f.length,
                  due |-> traced /\ f.req = "MEM_ALLOC"]}
  <2> DEFINE new == [ctx |-> f.fd, va |-> gpu, length |-> f.length,
                     due |-> traced /\ f.req = "MEM_ALLOC"]
  <2>1. new.ctx = f.fd /\ new.va = gpu /\ new.length = f.length
    OBVIOUS
  <2>2. regions' = regions \cup {new}
    BY <1>2
  <2> HIDE DEF new
  <2>3. gpu \in GpuVAs \cup Cookies
        /\ RegionSpan(gpu, f.length) \subseteq GpuVAs \cup Cookies
    BY <1>2 DEF FreshRange
  <2>4. RegionOK(new)'
    BY <1>0, <1>2, <2>1, <2>3 DEF RegionOK
  <2>5. \A r \in regions : RegionOK(r)'
    BY <1>0 DEF RegionsInv, RegionsTyped, RegionOK
  <2>6. \A r \in regions : Apart(r, new) /\ Apart(new, r)
    <3> SUFFICES ASSUME NEW r \in regions PROVE Apart(r, new) /\ Apart(new, r)
      OBVIOUS
    <3>1. r.ctx = f.fd
      BY <1>2 DEF RegionsInv, RegionsTyped, RegionOK, DeviceInv, OneDevice, IsMali
    <3>2. RegionSpan(r.va, r.length) \cap RegionSpan(gpu, f.length) = {}
      BY <1>2, <3>1 DEF FreshRange
    <3> QED BY <2>1, <3>2 DEF Apart
  <2>7. RegionsTyped'
    BY <2>2, <2>4, <2>5 DEF RegionsTyped
  <2>8. RegionsApart'
    BY <2>2, <2>6 DEF RegionsInv, RegionsApart, Apart
  <2> QED BY <2>7, <2>8
<1> QED BY <1>1, <1>2 DEF KernelIoctl, Allocates

\* The system call of mmap uses up a region with SAME_VA and marks any other.
LEMMA RegionsMaps ==
    ASSUME TypeOK, RegionsInv, NEW f, NEW traced, NEW r \in regions,
           Maps(f, r, traced), UNCHANGED fds
    PROVE  RegionsInv'
<1> SUFFICES ASSUME Disciplined PROVE (RegionsTyped /\ RegionsApart)'
  BY DEF RegionsInv
<1> DEFINE s == [r EXCEPT !.due = FALSE]
<1>1. s.ctx = r.ctx /\ s.va = r.va /\ s.length = r.length
  BY DEF TypeOK, Regions
<1>2. regions' \subseteq (regions \ {r}) \cup {s}
  BY DEF Maps
<1> HIDE DEF s
<1>3. \A q : IsMali(q.ctx)' <=> IsMali(q.ctx)
  BY DEF IsMali
<1>4. RegionsTyped'
  BY <1>1, <1>2, <1>3 DEF RegionsInv, RegionsTyped, RegionOK
<1>5. \A q \in regions \ {r} : Apart(q, s) /\ Apart(s, q)
  BY <1>1 DEF RegionsInv, RegionsApart, Apart
<1>6. \A p, q \in regions \ {r} : p = q \/ Apart(p, q)
  BY DEF RegionsInv, RegionsApart
<1>7. \A p, q \in regions' : p = q \/ Apart(p, q)
  BY <1>2, <1>5, <1>6
<1>8. RegionsApart'
  BY <1>7 DEF RegionsApart, Apart
<1> QED BY <1>4, <1>8

LEMMA RegionsMmap ==
    ASSUME TypeOK, RegionsInv, NEW f, NEW traced, NEW ret,
           KernelMmap(f, traced, ret), UNCHANGED fds
    PROVE  RegionsInv'
<1>1. CASE regions' = regions
  BY <1>1, RegionsSubset DEF IsMali
<1>2. (\E r \in regions : Maps(f, r, traced)) \/ regions' = regions
  BY KernelMmapCases DEF MapsOther
<1> QED BY <1>1, <1>2, RegionsMaps

LEMMA RegionsNext ==
    TypeOK /\ FrameShape /\ DeviceInv /\ RegionsInv /\ [Next]_vars => RegionsInv'
<1> SUFFICES ASSUME TypeOK, FrameShape, DeviceInv, RegionsInv, [Next]_vars
             PROVE  RegionsInv'
  OBVIOUS
<1>1. ASSUME NEW t \in Threads, Begin(t) PROVE RegionsInv'
  <2>1. CASE OpenSys(t)
    <3>1. \A fd \in Fds : IsMali(fd) => IsMali(fd)'
      BY <2>1 DEF OpenSys, IsMali, TypeOK
    <3>2. \A r \in regions : r.ctx \in Fds
      BY DEF TypeOK, Regions
    <3> QED BY <2>1, <3>1, <3>2, RegionsSubset DEF OpenSys
  <2>2. CASE ~OpenSys(t)
    <3>1. fds' = fds /\ regions' = regions
      BY <1>1, <2>2 DEF Begin, CloseReset, IoctlCall, MmapCall, MunmapSys, kernel
    <3> QED BY <3>1, RegionsSubset DEF IsMali
  <2> QED BY <2>1, <2>2
<1>2. ASSUME NEW t \in Threads, Continue(t) PROVE RegionsInv'
  <2> DEFINE f == frame[t]
  <2>0. f \in Frames
    BY DEF TypeOK
  <2>1. CASE CloseSys(t)
    <3>1. fds' = [fds EXCEPT ![f.fd] = "free"]
          /\ regions' = {r \in regions : r.ctx # f.fd}
      BY <2>1 DEF CloseSys
    <3>2. \A r \in regions' : IsMali(r.ctx) => IsMali(r.ctx)'
      BY <3>1 DEF IsMali, TypeOK
    <3> QED BY <3>1, <3>2, RegionsSubset
  <2>2. CASE IoctlPass(t) \/ IoctlSys(t)
    <3>1. PICK gpu, traced : KernelIoctl(f, traced, gpu)
      BY <2>2 DEF IoctlPass, IoctlSys
    <3>2. fds' = fds /\ (Allocates(f) => f.length \in Lens)
      BY <2>2 DEF IoctlPass, IoctlSys, FrameShape, Frame, Ioctls
    <3> QED BY <2>0, <3>1, <3>2, RegionsIoctl
  <2>3. CASE MmapPass(t) \/ MmapSys(t)
    <3>1. \E ret, traced : KernelMmap(f, traced, ret)
      BY <2>3 DEF MmapPass, MmapSys
    <3>2. fds' = fds
      BY <2>3 DEF MmapPass, MmapSys
    <3> QED BY <3>1, <3>2, RegionsMmap
  <2>4. CASE ~(CloseSys(t) \/ IoctlPass(t) \/ IoctlSys(t) \/ MmapPass(t)
                 \/ MmapSys(t))
    <3>1. fds' = fds /\ regions' = regions
      BY <1>2, <2>4 DEF Continue, OpenRecord, IoctlLock, IoctlPre, IoctlPost,
                        MmapRecord, MunmapRecord, kernel
    <3> QED BY <3>1, RegionsSubset DEF IsMali
  <2> QED BY <2>1, <2>2, <2>3, <2>4
<1>3. CASE UNCHANGED vars
  BY <1>3, RegionsSubset DEF vars, kernel, IsMali
<1> QED BY <1>1, <1>2, <1>3 DEF Next

-----------------------------------------------------------------------------
(***************************************************************************)
(* The pages: a mapping shows in all of its pages or in none, and pages    *)
(* that an mmap in progress was promised are free.                         *)
(***************************************************************************)
\* Only a mapping that panwrap makes is one of a region, and what is due has
\* an address of the GPU.
Told(m) == (m.gpu_va # 0 \/ m.due => m.traced) /\ (m.due => m.gpu_va # 0)
Whole == \A p \in Pages : cpu[p] # NoMap =>
    /\ cpu[p].length \in Lens /\ p \in Span(cpu[p].addr, cpu[p].length)
    /\ Span(cpu[p].addr, cpu[p].length) \subseteq Pages
    /\ \A q \in Span(cpu[p].addr, cpu[p].length) : cpu[q] = cpu[p]
    /\ Told(cpu[p])
Reserved ==
    /\ \A t \in Threads : pc[t] \in Mmaps => \A p \in SpanOf(t) : cpu[p] = NoMap
    /\ \A t, u \in Threads : t # u /\ pc[t] \in Mmaps /\ pc[u] \in Mmaps =>
         SpanOf(t) \cap SpanOf(u) = {}
PagesInv == Disciplined => Whole /\ Reserved

LEMMA PagesInit == Init => PagesInv
BY DEF Init, PagesInv, Whole, Reserved, Mmaps

\* Steps that change no mapping and begin no mmap.
LEMMA PagesOther ==
    ASSUME PagesInv, UNCHANGED cpu,
           \A t \in Threads : pc'[t] \in Mmaps =>
             pc[t] \in Mmaps /\ frame'[t] = frame[t]
    PROVE  PagesInv'
BY DEF PagesInv, Whole, Reserved, SpanOf

\* A mapping has its first page.
LEMMA WholeStart ==
    ASSUME TypeOK, Disciplined, PagesInv, NEW p \in Pages, cpu[p] # NoMap
    PROVE  cpu[p].addr \in Pages /\ cpu[cpu[p].addr] = cpu[p]
           /\ cpu[p].addr \in Nat /\ cpu[p].length \in Nat \ {0}
<1> DEFINE m == cpu[p]
<1>1. /\ m.length \in Lens /\ p \in Span(m.addr, m.length)
      /\ Span(m.addr, m.length) \subseteq Pages
      /\ \A q \in Span(m.addr, m.length) : cpu[q] = m
  BY DEF PagesInv, Whole
<1>2. m.length \in Nat \ {0}
  BY <1>1, BoundsAssumption
<1>3. m.addr \in Nat
  BY DEF TypeOK, Mappings
<1>4. m.addr \in Span(m.addr, m.length)
  BY <1>2, <1>3 DEF Span
<1> QED BY <1>1, <1>2, <1>3, <1>4

\* The system call of an mmap fills pages that it was promised.
LEMMA PagesPlaces ==
    ASSUME TypeOK, FrameShape, PagesInv, NEW t \in Threads, pc[t] \in Mmaps,
           NEW m, m.addr = frame[t].addr, m.length = frame[t].length, Told(m),
           Places(m), pc'[t] \notin Mmaps,
           \A u \in Threads \ {t} : pc'[u] = pc[u] /\ frame'[u] = frame[u]
    PROVE  PagesInv'
<1> SUFFICES ASSUME Disciplined PROVE Whole' /\ Reserved'
  BY DEF PagesInv
<1>1. /\ m.addr \in Pages /\ m.length \in Lens
      /\ SpanOf(t) \subseteq Pages /\ SpanOf(t) = Span(m.addr, m.length)
  BY DEF FrameShape, Frame, SpanOf
<1>2. \A p \in Pages : cpu'[p] = IF p \in SpanOf(t) THEN m ELSE cpu[p]
  BY <1>1 DEF Places
<1>3. \A p \in SpanOf(t) : cpu[p] = NoMap
  BY DEF PagesInv, Reserved
<1>4. m # NoMap
  BY <1>1, ZonesAssumption DEF NoMap
<1>5. ASSUME NEW p \in Pages, cpu'[p] # NoMap
      PROVE  /\ cpu'[p].length \in Lens /\ p \in Span(cpu'[p].addr, cpu'[p].length)
             /\ Span(cpu'[p].addr, cpu'[p].length) \subseteq Pages
             /\ \A q \in Span(cpu'[p].addr, cpu'[p].length) : cpu'[q] = cpu'[p]
             /\ Told(cpu'[p])
  <2>1. CASE p \in SpanOf(t)
    BY <1>1, <1>2, <2>1
  <2>2. CASE p \notin SpanOf(t)
    <3>1. cpu'[p] = cpu[p] /\ cpu[p] # NoMap
      BY <1>2, <1>5, <2>2
    <3>2. /\ cpu[p].length \in Lens /\ p \in Span(cpu[p].addr, cpu[p].length)
          /\ Span(cpu[p].addr, cpu[p].length) \subseteq Pages
          /\ \A q \in Span(cpu[p].addr, cpu[p].length) : cpu[q] = cpu[p]
          /\ Told(cpu[p])
      BY <3>1 DEF PagesInv, Whole
    <3>3. ASSUME NEW q \in Span(cpu[p].addr, cpu[p].length) PROVE cpu'[q] = cpu[p]
      <4>1. q \in Pages /\ cpu[q] = cpu[p]
        BY <3>2
      <4>2. q \notin SpanOf(t)
        BY <1>3, <3>1, <4>1
      <4> QED BY <1>2, <4>1, <4>2
    <3> QED BY <3>1, <3>2, <3>3
  <2> QED BY <2>1, <2>2
<1>6. Whole'
  BY <1>5 DEF Whole, Told
<1>7. ASSUME NEW u \in Threads, pc'[u] \in Mmaps
      PROVE  u # t /\ pc[u] \in Mmaps /\ SpanOf(u)' = SpanOf(u)
             /\ SpanOf(u) \subseteq Pages /\ SpanOf(u) \cap SpanOf(t) = {}
  BY <1>7 DEF PagesInv, Reserved, SpanOf, FrameShape, Frame
<1>8. \A u \in Threads : pc'[u] \in Mmaps => \A p \in SpanOf(u)' : cpu'[p] = NoMap
  <2> SUFFICES ASSUME NEW u \in Threads, pc'[u] \in Mmaps, NEW p \in SpanOf(u)'
               PROVE  cpu'[p] = NoMap
    OBVIOUS
  <2>1. p \in SpanOf(u) /\ p \in Pages /\ p \notin SpanOf(t) /\ pc[u] \in Mmaps
    BY <1>7
  <2>2. cpu[p] = NoMap
    BY <2>1 DEF PagesInv, Reserved
  <2> QED BY <1>2, <2>1, <2>2
<1>9. Reserved'
  BY <1>7, <1>8 DEF PagesInv, Reserved
<1> QED BY <1>6, <1>9

\* What a disciplined mmap outside the mutex does: the file is not the device.
LEMMA PassMaps ==
    ASSUME Disciplined, Descriptors, RegionsInv, NEW t \in Threads, MmapPass(t)
    PROVE  MapsOther(frame[t], FALSE)
<1>1. PICK ret : KernelMmap(frame[t], FALSE, ret)
  BY DEF MmapPass
<1>2. ~IsMali(frame[t].fd)
  BY DEF MmapPass, Descriptors, PassOrLock
<1>3. \A r \in regions : r.ctx # frame[t].fd
  BY <1>2 DEF RegionsInv, RegionsTyped, RegionOK
<1> QED BY <1>1, <1>2, <1>3, KernelMmapCases

LEMMA PagesMmapPass ==
    ASSUME TypeOK, FrameShape, Descriptors, RegionsInv, PagesInv,
           NEW t \in Threads, MmapPass(t)
    PROVE  PagesInv'
<1> SUFFICES ASSUME Disciplined PROVE PagesInv'
  BY DEF PagesInv
<1> DEFINE m == Mapping(frame[t], 0, FALSE, FALSE)
<1>1. Places(m)
  BY PassMaps DEF MapsOther
<1>2. m.addr = frame[t].addr /\ m.length = frame[t].length /\ Told(m)
  BY DEF Mapping, Told
<1>3. /\ pc[t] \in Mmaps /\ pc'[t] \notin Mmaps
      /\ \A u \in Threads \ {t} : pc'[u] = pc[u] /\ frame'[u] = frame[u]
  BY CallPc DEF MmapPass, Return, Mmaps
<1> HIDE DEF m
<1> QED BY <1>1, <1>2, <1>3, PagesPlaces

LEMMA PagesMmapSys ==
    ASSUME TypeOK, FrameShape, Descriptors, RegionsInv, PagesInv,
           NEW t \in Threads, MmapSys(t)
    PROVE  PagesInv'
<1> SUFFICES ASSUME Disciplined PROVE PagesInv'
  BY DEF PagesInv
<1>1. /\ pc[t] \in Mmaps /\ pc'[t] \notin Mmaps
      /\ \A u \in Threads \ {t} : pc'[u] = pc[u] /\ frame'[u] = frame[u]
  <2>1. \E f : Call(t, "mmap_rec", f)
    BY DEF MmapSys
  <2> QED BY <2>1, CallPc DEF MmapSys, Mmaps
<1>2. ASSUME NEW gpu_va, NEW due, due => gpu_va # 0,
             Places(Mapping(frame[t], gpu_va, TRUE, due))
      PROVE  PagesInv'
  <2> DEFINE m == Mapping(frame[t], gpu_va, TRUE, due)
  <2>1. /\ m.addr = frame[t].addr /\ m.length = frame[t].length
        /\ m.traced = TRUE /\ m.due = due /\ m.gpu_va = gpu_va
    BY DEF Mapping
  <2>2. Places(m)
    BY <1>2
  <2> HIDE DEF m
  <2>3. Told(m)
    BY <1>2, <2>1 DEF Told
  <2> QED BY <1>1, <2>1, <2>2, <2>3, PagesPlaces
<1>3. ASSUME NEW r \in regions, Maps(frame[t], r, TRUE) PROVE PagesInv'
  <2> DEFINE gpu_va == IF r.va \in Cookies THEN frame[t].addr ELSE r.va
             due == TRUE /\ r.due
  <2>1. gpu_va # 0
    <3>1. frame[t].addr \in Pages
      BY <1>1 DEF FrameShape, Frame
    <3>2. r.va \in GpuVAs \cup Cookies
      BY DEF RegionsInv, RegionsTyped, RegionOK
    <3> QED BY <3>1, <3>2, ZonesAssumption
  <2>2. Places(Mapping(frame[t], gpu_va, TRUE, due))
    BY <1>3 DEF Maps
  <2> HIDE DEF gpu_va, due
  <2> QED BY <1>2, <2>1, <2>2
<1>4. ASSUME MapsOther(frame[t], TRUE) PROVE PagesInv'
  <2>1. Places(Mapping(frame[t], 0, TRUE, FALSE))
    BY <1>4 DEF MapsOther
  <2> QED BY <1>2, <2>1
<1>5. CASE cpu' = cpu
  <2>1. \A u \in Threads : pc'[u] \in Mmaps =>
          pc[u] \in Mmaps /\ frame'[u] = frame[u]
    BY <1>1
  <2> QED BY <1>5, <2>1, PagesOther
<1>6. PICK ret : KernelMmap(frame[t], TRUE, ret)
  BY DEF MmapSys
<1> QED BY <1>3, <1>4, <1>5, <1>6, KernelMmapCases

LEMMA MunmapWhole ==
    ASSUME TypeOK, Disciplined, PagesInv, NEW a \in Pages, NEW n \in Lens,
           MayMunmap(a, n)
    PROVE  /\ Span(a, n) \subseteq Pages /\ cpu[a] # NoMap
           /\ \A p \in Pages : cpu[p] # NoMap =>
                (p \in Span(a, n) <=> cpu[p] = cpu[a])
                /\ (p \in Span(a, n) <=> cpu[p].addr = a)
<1>1. /\ Span(a, n) \subseteq Pages /\ cpu[a] # NoMap
      /\ cpu[a].addr = a /\ cpu[a].length = n
  BY DEF MayMunmap
<1>2. \A q \in Span(a, n) : cpu[q] = cpu[a]
  BY <1>1 DEF PagesInv, Whole
<1>3. ASSUME NEW p \in Pages, cpu[p] # NoMap
      PROVE  cpu[p] = cpu[a] => p \in Span(a, n)
  BY <1>1, <1>3 DEF PagesInv, Whole
<1>4. ASSUME NEW p \in Pages, cpu[p] # NoMap
      PROVE  cpu[p].addr = a => cpu[p] = cpu[a]
  BY <1>4, WholeStart
<1> QED BY <1>1, <1>2, <1>3, <1>4

LEMMA PagesMunmapSys ==
    ASSUME TypeOK, FrameShape, PagesInv, NEW t \in Threads, MunmapSys(t)
    PROVE  PagesInv'
<1> SUFFICES ASSUME Disciplined PROVE Whole' /\ Reserved'
  BY DEF PagesInv
<1>1. PICK a \in Pages, n \in Lens :
        /\ MayMunmap(a, n)
        /\ cpu' = [p \in Pages |-> IF p \in Span(a, n) THEN NoMap ELSE cpu[p]]
        /\ Call(t, "munmap_rec", [NoFrame EXCEPT !.addr = a])
  BY DEF MunmapSys
<1>2. /\ pc'[t] = "munmap_rec"
      /\ \A u \in Threads \ {t} : pc'[u] = pc[u] /\ frame'[u] = frame[u]
  BY <1>1, CallPc
<1>3. \A p \in Pages : /\ cpu'[p] # NoMap => cpu'[p] = cpu[p]
                       /\ cpu[p] = NoMap => cpu'[p] = NoMap
  BY <1>1
<1>4. ASSUME NEW p \in Pages, cpu'[p] # NoMap
      PROVE  /\ cpu'[p].length \in Lens /\ p \in Span(cpu'[p].addr, cpu'[p].length)
             /\ Span(cpu'[p].addr, cpu'[p].length) \subseteq Pages
             /\ \A q \in Span(cpu'[p].addr, cpu'[p].length) : cpu'[q] = cpu'[p]
             /\ Told(cpu'[p])
  <2>1. cpu'[p] = cpu[p] /\ cpu[p] # NoMap /\ p \notin Span(a, n)
    BY <1>1, <1>4
  <2>2. /\ cpu[p].length \in Lens /\ p \in Span(cpu[p].addr, cpu[p].length)
        /\ Span(cpu[p].addr, cpu[p].length) \subseteq Pages
        /\ \A q \in Span(cpu[p].addr, cpu[p].length) : cpu[q] = cpu[p]
        /\ Told(cpu[p])
    BY <2>1 DEF PagesInv, Whole
  <2>3. ASSUME NEW q \in Span(cpu[p].addr, cpu[p].length) PROVE cpu'[q] = cpu[p]
    <3>1. q \in Pages /\ cpu[q] = cpu[p]
      BY <2>2
    <3>2. q \notin Span(a, n)
      BY <1>1, <2>1, <3>1, MunmapWhole
    <3> QED BY <1>1, <3>1, <3>2
  <2> QED BY <2>1, <2>2, <2>3
<1>5. Whole'
  BY <1>4 DEF Whole, Told
<1>6. \A u \in Threads : pc'[u] \in Mmaps =>
        u # t /\ pc[u] \in Mmaps /\ SpanOf(u)' = SpanOf(u)
  BY <1>2 DEF SpanOf, Mmaps
<1>7. \A u \in Threads : pc'[u] \in Mmaps => \A p \in SpanOf(u)' : cpu'[p] = NoMap
  <2> SUFFICES ASSUME NEW u \in Threads, pc'[u] \in Mmaps, NEW p \in SpanOf(u)'
               PROVE  cpu'[p] = NoMap
    OBVIOUS
  <2>1. cpu[p] = NoMap /\ p \in SpanOf(u) /\ pc[u] \in Mmaps
    BY <1>6 DEF PagesInv, Reserved
  <2>2. p \in Pages
    BY <2>1 DEF FrameShape, Frame, SpanOf
  <2> QED BY <1>3, <2>1, <2>2
<1>8. Reserved'
  BY <1>6, <1>7 DEF PagesInv, Reserved
<1> QED BY <1>5, <1>8

LEMMA PagesMmapCall ==
    ASSUME TypeOK, PagesInv, NEW t \in Threads, MmapCall(t)
    PROVE  PagesInv'
<1> SUFFICES ASSUME Disciplined PROVE Whole' /\ Reserved'
  BY DEF PagesInv
<1>1. PICK fd \in Usable \cup {NoFd}, gpu \in Offsets, n \in Lens, a \in Pages :
        LET f == [fd |-> fd, req |-> "none", gpu |-> gpu, length |-> n,
                  same_va |-> FALSE, addr |-> a]
        IN  MayMmap(f) /\ \E l : Call(t, l, f)
  BY DEF MmapCall
<1> DEFINE f == [fd |-> fd, req |-> "none", gpu |-> gpu, length |-> n,
                 same_va |-> FALSE, addr |-> a]
<1>2. /\ frame'[t] = f
      /\ \A u \in Threads \ {t} : pc'[u] = pc[u] /\ frame'[u] = frame[u]
  BY <1>1, CallPc
<1>3. cpu' = cpu
  BY DEF MmapCall, kernel
<1>4. /\ Span(f.addr, f.length) \subseteq Pages
      /\ \A p \in Span(f.addr, f.length) : cpu[p] = NoMap /\ ~Wanted(p)
  BY <1>1 DEF MayMmap
<1> HIDE DEF f
<1>5. SpanOf(t)' = Span(f.addr, f.length)
  BY <1>2 DEF SpanOf
<1>6. \A u \in Threads \ {t} : SpanOf(u)' = SpanOf(u)
  BY <1>2 DEF SpanOf
<1>7. ASSUME NEW u \in Threads, NEW p \in Span(f.addr, f.length)
      PROVE  p \notin SpanOf(u)
  <2>1. ~(frame[u].addr <= p /\ p < frame[u].addr + frame[u].length)
    BY <1>4 DEF Wanted
  <2>2. p \in Nat /\ frame[u].addr \in Nat /\ frame[u].length \in Nat
    BY <1>4, ZonesType DEF TypeOK, Frames
  <2> QED BY <2>1, <2>2 DEF SpanOf, Span
<1>8. Whole'
  BY <1>3 DEF PagesInv, Whole
<1>9. ASSUME NEW u \in Threads, pc'[u] \in Mmaps, NEW p \in SpanOf(u)'
      PROVE  cpu'[p] = NoMap
  BY <1>2, <1>3, <1>4, <1>5, <1>6, <1>9 DEF PagesInv, Reserved
<1>10. ASSUME NEW u \in Threads, NEW v \in Threads, u # v,
              pc'[u] \in Mmaps, pc'[v] \in Mmaps
       PROVE  SpanOf(u)' \cap SpanOf(v)' = {}
  <2>1. CASE u = t
    BY <1>5, <1>6, <1>7, <1>10, <2>1
  <2>2. CASE v = t
    BY <1>5, <1>6, <1>7, <1>10, <2>2
  <2>3. CASE u # t /\ v # t
    BY <1>2, <1>6, <1>10, <2>3 DEF PagesInv, Reserved
  <2> QED BY <2>1, <2>2, <2>3
<1>11. Reserved'
  BY <1>9, <1>10 DEF Reserved
<1> QED BY <1>8, <1>11

LEMMA PagesNext ==
    TypeOK /\ FrameShape /\ Descriptors /\ RegionsInv /\ PagesInv /\ [Next]_vars
      => PagesInv'
<1> SUFFICES ASSUME TypeOK, FrameShape, Descriptors, RegionsInv, PagesInv,
                    [Next]_vars
             PROVE  PagesInv'
  OBVIOUS
<1>1. ASSUME NEW t \in Threads, Begin(t) PROVE PagesInv'
  <2>1. CASE MmapCall(t)
    BY <2>1, PagesMmapCall
  <2>2. CASE MunmapSys(t)
    BY <2>2, PagesMunmapSys
  <2>3. CASE OpenSys(t) \/ CloseReset(t) \/ IoctlCall(t)
    <3>1. \E f : \E l \in {"open_rec", "close_sys", "ioctl_pass", "ioctl_lock"} :
            Call(t, l, f)
      BY <2>3 DEF OpenSys, CloseReset, IoctlCall
    <3>2. cpu' = cpu
      BY <2>3 DEF OpenSys, CloseReset, IoctlCall, kernel
    <3> QED BY <3>1, <3>2, CallPc, PagesOther DEF Mmaps
  <2> QED BY <1>1, <2>1, <2>2, <2>3 DEF Begin
<1>2. ASSUME NEW t \in Threads, Continue(t) PROVE PagesInv'
  <2>1. CASE MmapPass(t)
    BY <2>1, PagesMmapPass
  <2>2. CASE MmapSys(t)
    BY <2>2, PagesMmapSys
  <2>3. CASE ~MmapPass(t) /\ ~MmapSys(t)
    <3>1. \E f, l : Call(t, l, f) /\ l \notin Mmaps
      <4>1. CASE IoctlSys(t)
        BY <4>1 DEF IoctlSys, Mmaps
      <4>2. CASE OpenRecord(t) \/ CloseSys(t) \/ IoctlPass(t) \/ IoctlPost(t)
                   \/ MmapRecord(t) \/ MunmapRecord(t)
        <5>1. Return(t)
          BY <4>2 DEF OpenRecord, CloseSys, IoctlPass, IoctlPost, MmapRecord,
                      MunmapRecord
        <5> QED BY <5>1 DEF Return, Mmaps
      <4>3. CASE IoctlLock(t) \/ IoctlPre(t)
        BY <4>3 DEF IoctlLock, IoctlPre, Goto, Mmaps
      <4> QED BY <1>2, <2>3, <4>1, <4>2, <4>3 DEF Continue
    <3>2. cpu' = cpu
      BY <1>2, <2>3
         DEF Continue, OpenRecord, CloseSys, IoctlPass, IoctlLock, IoctlPre,
             IoctlSys, IoctlPost, MmapRecord, MunmapRecord, kernel
    <3> QED BY <3>1, <3>2, CallPc, PagesOther
  <2> QED BY <2>1, <2>2, <2>3
<1>3. CASE UNCHANGED vars
  BY <1>3, PagesOther DEF vars, kernel
<1> QED BY <1>1, <1>2, <1>3 DEF Next

-----------------------------------------------------------------------------
(***************************************************************************)
(* The addresses of the GPU: which mapping has which, that two mappings do *)
(* not share one, and that the calls in progress do not fight over one.    *)
(***************************************************************************)
DeviceClosing == \A u \in Threads :
    pc[u] = "close_sys" /\ IsMali(frame[u].fd) =>
      \A p \in Pages : cpu[p].gpu_va = 0
HasGpu(m) ==
    \/ m.gpu_va \in {0, m.addr}
    \/ m.gpu_va \in GpuVAs /\ \E r \in regions :
                                r.va = m.gpu_va /\ m.length <= r.length
GpuOfMap == \A p \in Pages : HasGpu(cpu[p])
DistinctGpu == \A p, q \in Pages :
    cpu[p].gpu_va = cpu[q].gpu_va /\ cpu[p].gpu_va # 0 => cpu[p] = cpu[q]
FreeingUnused == \A t \in Threads :
    pc[t] \in Ioctls /\ frame[t].req = "MEM_FREE" =>
      /\ frame[t].gpu \in GpuVAs \cup Cookies /\ ~Mapped(frame[t].gpu)
      /\ \A u \in Threads : pc[u] = "mmap_lock" => frame[u].gpu # frame[t].gpu
Commits == \A t \in Threads :
    pc[t] \in Ioctls /\ frame[t].req = "MEM_COMMIT" =>
      frame[t].gpu \in GpuVAs \cup Pages
MapsRegion == \A t \in Threads :
    pc[t] = "mmap_lock" /\ frame[t].gpu # TrackingHandle =>
      /\ \E r \in regions : /\ r.ctx = frame[t].fd /\ r.va = frame[t].gpu
                            /\ r.length = frame[t].length
      /\ ~Mapped(frame[t].gpu)
      /\ \A u \in Threads \ {t} : pc[u] = "mmap_lock" => frame[u].gpu # frame[t].gpu
GpuInv == Disciplined =>
    /\ DeviceClosing /\ GpuOfMap /\ DistinctGpu /\ FreeingUnused /\ Commits
    /\ MapsRegion

LEMMA GpuInit == Init => GpuInv
BY DEF Init, GpuInv, DeviceClosing, GpuOfMap, HasGpu, DistinctGpu, FreeingUnused,
       Commits, MapsRegion, Ioctls, NoMap

\* The step begins no call that concerns the regions.
Persist == \A u \in Threads :
    pc'[u] \in Ioctls \cup {"close_sys", "mmap_lock"} =>
      /\ frame'[u] = frame[u]
      /\ pc'[u] = pc[u] \/ (pc'[u] \in Ioctls /\ pc[u] \in Ioctls)

LEMMA PersistStep ==
    ASSUME TypeOK, NEW t \in Threads, NEW l, NEW f, Call(t, l, f),
           \/ l \notin Ioctls \cup {"close_sys", "mmap_lock"}
           \/ l \in Ioctls /\ pc[t] \in Ioctls /\ f = frame[t]
    PROVE  Persist
BY CallPc DEF Persist

\* Regions come, and go when nothing maps them or is about to.
LEMMA GpuRegions ==
    ASSUME GpuInv, Persist, UNCHANGED cpu,
           \A u \in Threads : pc'[u] = "close_sys" /\ IsMali(frame[u].fd)' =>
             IsMali(frame[u].fd),
           \A r \in regions : r \in regions' \/
             (~Mapped(r.va) /\ \A u \in Threads :
                 pc'[u] = "mmap_lock" => frame[u].gpu # r.va)
    PROVE  GpuInv'
<1> SUFFICES ASSUME Disciplined
             PROVE  (/\ DeviceClosing /\ GpuOfMap /\ DistinctGpu
                     /\ FreeingUnused /\ Commits /\ MapsRegion)'
  BY DEF GpuInv
<1> USE DEF Mapped
<1>1. DeviceClosing'
  BY DEF GpuInv, DeviceClosing, Persist, Ioctls
<1>2. GpuOfMap'
  BY DEF GpuInv, GpuOfMap, HasGpu
<1>3. DistinctGpu'
  BY DEF GpuInv, DistinctGpu
<1>4. FreeingUnused' /\ Commits'
  BY DEF GpuInv, FreeingUnused, Commits, Persist, Ioctls
<1>5. MapsRegion'
  BY DEF GpuInv, MapsRegion, Persist, Ioctls
<1> QED BY <1>1, <1>2, <1>3, <1>4, <1>5

\* Mappings go, and come without an address of the GPU.
LEMMA GpuPages ==
    ASSUME RegionsInv, GpuInv, Persist, UNCHANGED <<regions, fds>>,
           \A p \in Pages : cpu'[p] = cpu[p] \/ cpu'[p].gpu_va = 0
    PROVE  GpuInv'
<1> SUFFICES ASSUME Disciplined
             PROVE  (/\ DeviceClosing /\ GpuOfMap /\ DistinctGpu
                     /\ FreeingUnused /\ Commits /\ MapsRegion)'
  BY DEF GpuInv
<1>0. \A gpu \in GpuVAs \cup Cookies : ~Mapped(gpu) => ~Mapped(gpu)'
  BY ZonesAssumption DEF Mapped
<1>1. DeviceClosing'
  BY DEF GpuInv, DeviceClosing, Persist, Ioctls, IsMali
<1>2. GpuOfMap'
  BY DEF GpuInv, GpuOfMap, HasGpu
<1>3. DistinctGpu'
  BY DEF GpuInv, DistinctGpu
<1>4. FreeingUnused' /\ Commits'
  BY <1>0 DEF GpuInv, FreeingUnused, Commits, Persist, Ioctls
<1>5. MapsRegion'
  <2> SUFFICES ASSUME NEW u \in Threads, pc'[u] = "mmap_lock",
                      frame'[u].gpu # TrackingHandle
               PROVE  /\ \E r \in regions : /\ r.ctx = frame[u].fd
                                             /\ r.va = frame[u].gpu
                                             /\ r.length = frame[u].length
                      /\ ~Mapped(frame[u].gpu)'
                      /\ \A v \in Threads \ {u} : pc'[v] = "mmap_lock" =>
                           frame'[v].gpu # frame'[u].gpu
    BY DEF MapsRegion, Persist, Mapped
  <2>1. /\ pc[u] = "mmap_lock" /\ frame'[u] = frame[u]
        /\ \A v \in Threads : pc'[v] = "mmap_lock" =>
             pc[v] = "mmap_lock" /\ frame'[v] = frame[v]
    BY DEF Persist, Ioctls
  <2>2. PICK r \in regions : /\ r.ctx = frame[u].fd /\ r.va = frame[u].gpu
                             /\ r.length = frame[u].length
    BY <2>1 DEF GpuInv, MapsRegion
  <2>3. frame'[u].gpu \in GpuVAs \cup Cookies
    BY <2>1, <2>2 DEF RegionsInv, RegionsTyped, RegionOK
  <2>4. ~Mapped(frame[u].gpu)
    BY <2>1 DEF GpuInv, MapsRegion
  <2>5. ~Mapped(frame[u].gpu)'
    BY <1>0, <2>1, <2>3, <2>4 DEF Mapped
  <2> QED BY <2>1, <2>2, <2>5 DEF GpuInv, MapsRegion
<1> QED BY <1>1, <1>2, <1>3, <1>4, <1>5

\* A call that concerns the regions begins.
LEMMA GpuBegins ==
    ASSUME TypeOK, GpuInv, NEW t \in Threads, NEW l, NEW f, Call(t, l, f),
           UNCHANGED <<fds, regions, cpu>>,
           l = "close_sys" /\ IsMali(f.fd) => \A p \in Pages : cpu[p].gpu_va = 0,
           l \in Ioctls /\ f.req = "MEM_FREE" =>
             /\ f.gpu \in GpuVAs \cup Cookies /\ ~Mapped(f.gpu)
             /\ \A u \in Threads \ {t} : frame[u].gpu # f.gpu,
           l \in Ioctls /\ f.req = "MEM_COMMIT" => f.gpu \in GpuVAs \cup Pages,
           l = "mmap_lock" =>
             \/ f.gpu = TrackingHandle
             \/ /\ \E r \in regions : /\ r.ctx = f.fd /\ r.va = f.gpu
                                      /\ r.length = f.length
                /\ ~Mapped(f.gpu) /\ \A u \in Threads \ {t} : frame[u].gpu # f.gpu
    PROVE  GpuInv'
<1> SUFFICES ASSUME Disciplined
             PROVE  (/\ DeviceClosing /\ GpuOfMap /\ DistinctGpu
                     /\ FreeingUnused /\ Commits /\ MapsRegion)'
  BY DEF GpuInv
<1>0. /\ pc'[t] = l /\ frame'[t] = f
      /\ \A u \in Threads \ {t} : pc'[u] = pc[u] /\ frame'[u] = frame[u]
      /\ \A gpu : Mapped(gpu)' <=> Mapped(gpu)
  BY CallPc DEF Mapped
<1>1. DeviceClosing'
  BY <1>0 DEF GpuInv, DeviceClosing, IsMali
<1>2. GpuOfMap'
  BY DEF GpuInv, GpuOfMap, HasGpu
<1>3. DistinctGpu'
  BY DEF GpuInv, DistinctGpu
<1>4. Commits'
  BY <1>0 DEF GpuInv, Commits
<1>5. FreeingUnused'
  <2> SUFFICES ASSUME NEW u \in Threads, pc'[u] \in Ioctls,
                      frame'[u].req = "MEM_FREE"
               PROVE  /\ frame'[u].gpu \in GpuVAs \cup Cookies
                      /\ ~Mapped(frame'[u].gpu)
                      /\ \A v \in Threads : pc'[v] = "mmap_lock" =>
                           frame'[v].gpu # frame'[u].gpu
    BY <1>0 DEF FreeingUnused, Mapped
  <2>1. CASE u = t
    BY <1>0, <2>1 DEF Ioctls
  <2>2. CASE u # t
    <3>1. /\ frame'[u] = frame[u] /\ frame[u].gpu \in GpuVAs \cup Cookies
          /\ ~Mapped(frame[u].gpu)
          /\ \A v \in Threads : pc[v] = "mmap_lock" => frame[v].gpu # frame[u].gpu
      BY <1>0, <2>2 DEF GpuInv, FreeingUnused
    <3>2. frame[u].gpu # TrackingHandle
      BY <3>1, ZonesAssumption
    <3>3. l = "mmap_lock" => f.gpu # frame[u].gpu
      BY <2>2, <3>2
    <3> QED BY <1>0, <3>1, <3>3
  <2> QED BY <2>1, <2>2
<1>6. MapsRegion'
  <2> SUFFICES ASSUME NEW u \in Threads, pc'[u] = "mmap_lock",
                      frame'[u].gpu # TrackingHandle
               PROVE  /\ \E r \in regions : /\ r.ctx = frame'[u].fd
                                            /\ r.va = frame'[u].gpu
                                            /\ r.length = frame'[u].length
                      /\ ~Mapped(frame'[u].gpu)
                      /\ \A v \in Threads \ {u} : pc'[v] = "mmap_lock" =>
                           frame'[v].gpu # frame'[u].gpu
    BY <1>0 DEF MapsRegion, Mapped
  <2>1. CASE u = t
    BY <1>0, <2>1
  <2>2. CASE u # t
    <3>1. /\ frame'[u] = frame[u] /\ ~Mapped(frame[u].gpu)
          /\ \E r \in regions : /\ r.ctx = frame[u].fd /\ r.va = frame[u].gpu
                                /\ r.length = frame[u].length
          /\ \A v \in Threads \ {u} : pc[v] = "mmap_lock" =>
               frame[v].gpu # frame[u].gpu
      BY <1>0, <2>2 DEF GpuInv, MapsRegion
    <3>2. l = "mmap_lock" => f.gpu # frame[u].gpu
      BY <2>2, <3>1
    <3> QED BY <1>0, <3>1, <3>2
  <2> QED BY <2>1, <2>2
<1> QED BY <1>1, <1>2, <1>3, <1>4, <1>5, <1>6

LEMMA GpuCloseReset ==
    ASSUME TypeOK, GpuInv, NEW t \in Threads, CloseReset(t)
    PROVE  GpuInv'
<1> SUFFICES ASSUME Disciplined PROVE GpuInv'
  BY DEF GpuInv
<1>1. PICK fd \in Usable :
        MayClose(fd) /\ Call(t, "close_sys", [NoFrame EXCEPT !.fd = fd])
  BY DEF CloseReset
<1>2. [NoFrame EXCEPT !.fd = fd].fd = fd
  BY DEF NoFrame
<1>3. IsMali(fd) => \A p \in Pages : cpu[p].gpu_va = 0
  BY <1>1 DEF MayClose, IsMali
<1>4. UNCHANGED <<fds, regions, cpu>>
  BY DEF CloseReset, kernel
<1> QED BY <1>1, <1>2, <1>3, <1>4, GpuBegins DEF Ioctls

\* What the program may free or commit is a region of the device, or mapped.
LEMMA KnownGpu ==
    ASSUME TypeOK, Disciplined, RegionsInv, PagesInv, GpuInv, NEW fd,
           NEW gpu \in KnownVAs(fd)
    PROVE  \/ gpu \in GpuVAs \cup Cookies /\ \E r \in regions : r.va = gpu
           \/ gpu \in GpuVAs \cup Pages /\ Mapped(gpu)
<1>1. CASE \E r \in regions : r.va = gpu
  BY <1>1 DEF RegionsInv, RegionsTyped, RegionOK
<1>2. ASSUME NEW p \in Pages, gpu = cpu[p].gpu_va, gpu # 0
      PROVE  gpu \in GpuVAs \cup Pages /\ Mapped(gpu)
  <2>1. cpu[p] # NoMap
    BY <1>2 DEF NoMap
  <2>2. cpu[p].addr \in Pages
    BY <2>1, WholeStart
  <2> QED BY <1>2, <2>2 DEF GpuInv, GpuOfMap, HasGpu, Mapped
<1> QED BY <1>1, <1>2 DEF KnownVAs

LEMMA GpuIoctlCall ==
    ASSUME TypeOK, RegionsInv, PagesInv, GpuInv, NEW t \in Threads, IoctlCall(t)
    PROVE  GpuInv'
<1> SUFFICES ASSUME Disciplined PROVE GpuInv'
  BY DEF GpuInv
<1>0. PICK fd \in Usable : \E f \in Arguments(fd, KnownVAs(fd)) :
        /\ MayIoctl(f)
        /\ \E l \in {"ioctl_pass", "ioctl_lock"} : Call(t, l, f)
  BY DEF IoctlCall
<1> DEFINE known == KnownVAs(fd)
<1>1. PICK f \in Arguments(fd, known) :
        /\ MayIoctl(f)
        /\ \E l \in {"ioctl_pass", "ioctl_lock"} : Call(t, l, f)
  BY <1>0
<1>2. fd \in Fds
  BY DEF Usable
<1>3. \A gpu \in known :
           \/ gpu \in GpuVAs \cup Cookies
           \/ gpu \in GpuVAs \cup Pages /\ Mapped(gpu)
  BY KnownGpu
<1> HIDE DEF known
<1>4. f.req \in {"MEM_FREE", "MEM_COMMIT"} => f.gpu \in known
  BY <1>2, ArgumentsShape
<1>5. f.req = "MEM_FREE" => ~Busy(f.gpu) /\ ~Mapped(f.gpu)
  BY <1>1 DEF MayIoctl
<1>6. f.req = "MEM_COMMIT" => f.gpu \notin Cookies
  BY <1>1 DEF MayIoctl
<1>7. f.req = "MEM_FREE" => \A u \in Threads \ {t} : frame[u].gpu # f.gpu
  BY <1>5 DEF Busy
<1>8. UNCHANGED <<fds, regions, cpu>>
  BY DEF IoctlCall, kernel
<1> QED BY <1>1, <1>3, <1>4, <1>5, <1>6, <1>7, <1>8, GpuBegins

LEMMA GpuMmapCall ==
    ASSUME TypeOK, MaliFdInv, GpuInv, NEW t \in Threads, MmapCall(t)
    PROVE  GpuInv'
<1> SUFFICES ASSUME Disciplined PROVE GpuInv'
  BY DEF GpuInv
<1>1. PICK fd \in Usable \cup {NoFd}, gpu \in Offsets, n \in Lens, a \in Pages :
        LET f == [fd |-> fd, req |-> "none", gpu |-> gpu, length |-> n,
                  same_va |-> FALSE, addr |-> a]
        IN  /\ MayMmap(f)
            /\ Call(t, IF mali_fd = 0 \/ fd # mali_fd THEN "mmap_pass"
                                                      ELSE "mmap_lock", f)
  BY DEF MmapCall
<1> DEFINE f == [fd |-> fd, req |-> "none", gpu |-> gpu, length |-> n,
                 same_va |-> FALSE, addr |-> a]
           l == IF mali_fd = 0 \/ fd # mali_fd THEN "mmap_pass" ELSE "mmap_lock"
<1>2. MayMmap(f) /\ Call(t, l, f) /\ f.req = "none" /\ f.fd = fd
  BY <1>1
<1>3. l = "mmap_lock" => IsMali(fd)
  BY DEF MaliFdInv, MaliFdOpen, IsMali, TypeOK
<1>4. l \in {"mmap_pass", "mmap_lock"}
  OBVIOUS
<1> HIDE DEF f, l
<1>5. IsMali(fd) => \/ f.gpu = TrackingHandle
                    \/ /\ \E r \in regions : /\ r.ctx = f.fd /\ r.va = f.gpu
                                             /\ r.length = f.length
                       /\ ~Busy(f.gpu) /\ ~Mapped(f.gpu)
  BY <1>2 DEF MayMmap
<1>6. ~Busy(f.gpu) => \A u \in Threads \ {t} : frame[u].gpu # f.gpu
  BY DEF Busy
<1>7. UNCHANGED <<fds, regions, cpu>>
  BY DEF MmapCall, kernel
<1>8. l \notin Ioctls /\ l # "close_sys"
  BY <1>4 DEF Ioctls
<1> QED BY <1>2, <1>3, <1>5, <1>6, <1>7, <1>8, GpuBegins

\* The system call of mmap maps a region.
LEMMA GpuMaps ==
    ASSUME TypeOK, FrameShape, DeviceInv, Descriptors, RegionsInv, PagesInv,
           GpuInv, NEW t \in Threads, pc[t] = "mmap_lock", UNCHANGED fds,
           pc'[t] \notin Ioctls \cup {"close_sys", "mmap_lock"},
           \A u \in Threads \ {t} : pc'[u] = pc[u] /\ frame'[u] = frame[u],
           NEW r \in regions, r.ctx = frame[t].fd, r.va = frame[t].gpu,
           frame[t].length <= r.length, Maps(frame[t], r, TRUE)
    PROVE  GpuInv'
<1> SUFFICES ASSUME Disciplined
             PROVE  (/\ DeviceClosing /\ GpuOfMap /\ DistinctGpu
                     /\ FreeingUnused /\ Commits /\ MapsRegion)'
  BY DEF GpuInv
<1> DEFINE g == IF r.va \in Cookies THEN frame[t].addr ELSE r.va
           m == Mapping(frame[t], g, TRUE, TRUE /\ r.due)
           left == IF r.va \in Cookies THEN {} ELSE {[r EXCEPT !.due = FALSE]}
<1>1. /\ Places(m) /\ m.addr = frame[t].addr /\ m.length = frame[t].length
      /\ m.gpu_va = g /\ regions' = (regions \ {r}) \cup left
  BY DEF Maps, Mapping
<1>2. /\ frame[t].addr \in Pages /\ r.va \in GpuVAs \cup Cookies
      /\ \A p \in SpanOf(t) : cpu[p] = NoMap
      /\ SpanOf(t) \subseteq Pages /\ frame[t].addr \in SpanOf(t)
  <2>1. frame[t].addr \in Pages /\ frame[t].length \in Nat \ {0}
        /\ SpanOf(t) \subseteq Pages
    BY BoundsAssumption DEF FrameShape, Frame, Mmaps, SpanOf
  <2>2. frame[t].addr \in SpanOf(t)
    <3>1. frame[t].addr \in Nat
      BY <2>1, ZonesType
    <3> QED BY <2>1, <3>1 DEF SpanOf, Span
  <2>3. r.va \in GpuVAs \cup Cookies
    BY DEF RegionsInv, RegionsTyped, RegionOK
  <2> QED BY <2>1, <2>2, <2>3 DEF PagesInv, Reserved, Mmaps
<1>3. \A p \in Pages : cpu'[p] = IF p \in SpanOf(t) THEN m ELSE cpu[p]
  BY <1>1 DEF Places, SpanOf
<1>4. /\ r.va \in Cookies => left = {} /\ g = frame[t].addr
      /\ r.va \notin Cookies => g = r.va /\ r.va \in GpuVAs
           /\ \E s \in left : s.va = r.va /\ s.length = r.length /\ s.ctx = r.ctx
  BY <1>2 DEF TypeOK, Regions
<1> HIDE DEF g, m, left
<1>5. frame[t].gpu # TrackingHandle
  BY <1>2, ZonesAssumption
<1>6. ~Mapped(g)
  <2>1. CASE r.va \notin Cookies
    BY <1>4, <1>5, <2>1 DEF GpuInv, MapsRegion
  <2>2. ASSUME r.va \in Cookies, NEW p \in Pages, cpu[p].gpu_va = g PROVE FALSE
    <3>1. g = frame[t].addr /\ g \in Pages
      BY <1>2, <1>4, <2>2
    <3>2. g # 0 /\ g \notin GpuVAs
      BY <3>1, ZonesAssumption
    <3>3. cpu[p].addr = g
      BY <2>2, <3>2 DEF GpuInv, GpuOfMap, HasGpu
    <3>4. cpu[p] # NoMap
      BY <2>2, <3>2 DEF NoMap
    <3>5. cpu[g] = cpu[p]
      BY <3>3, <3>4, WholeStart
    <3> QED BY <1>2, <3>1, <3>4, <3>5
  <2> QED BY <2>1, <2>2 DEF Mapped
<1>7. \A gpu \in GpuVAs \cup Cookies :
        gpu # frame[t].gpu /\ ~Mapped(gpu) => ~Mapped(gpu)'
  <2>1. \A gpu \in GpuVAs \cup Cookies : gpu # r.va => gpu # g
    BY <1>2, <1>4, ZonesAssumption
  <2> QED BY <1>1, <1>3, <2>1 DEF Mapped
<1>8. DeviceClosing'
  <2> SUFFICES ASSUME NEW u \in Threads, pc'[u] = "close_sys",
                      IsMali(frame'[u].fd)
               PROVE  FALSE
    BY DEF DeviceClosing, IsMali
  <2>1. u # t /\ pc[u] = "close_sys" /\ frame'[u] = frame[u]
    OBVIOUS
  <2>2. frame[t].fd # frame[u].fd
    BY <2>1 DEF Descriptors, ClosingAlone
  <2>3. IsMali(frame[t].fd)
    BY DEF Descriptors, PassOrLock
  <2> QED BY <2>1, <2>2, <2>3 DEF DeviceInv, OneDevice, IsMali
<1>9. GpuOfMap'
  <2> SUFFICES ASSUME NEW p \in Pages PROVE HasGpu(cpu[p])'
    BY DEF GpuOfMap
  <2>1. CASE p \in SpanOf(t)
    <3>1. cpu'[p] = m
      BY <1>3, <2>1
    <3> QED BY <1>1, <1>4, <3>1 DEF HasGpu
  <2>2. CASE p \notin SpanOf(t)
    <3>1. cpu'[p] = cpu[p] /\ HasGpu(cpu[p])
      BY <1>3, <2>2 DEF GpuInv, GpuOfMap
    <3>2. ASSUME NEW s \in regions, s.va \in GpuVAs
          PROVE  \E q \in regions' : q.va = s.va /\ q.length = s.length
      <4>1. CASE s # r
        BY <1>1, <4>1
      <4>2. CASE s = r
        BY <1>1, <1>4, <3>2, <4>2, ZonesAssumption
      <4> QED BY <4>1, <4>2
    <3> QED BY <3>1, <3>2 DEF HasGpu
  <2> QED BY <2>1, <2>2
<1>10. DistinctGpu'
  <2> SUFFICES ASSUME NEW p \in Pages, NEW q \in Pages,
                      cpu'[p].gpu_va = cpu'[q].gpu_va, cpu'[p].gpu_va # 0
               PROVE  cpu'[p] = cpu'[q]
    BY DEF DistinctGpu
  <2>1. CASE p \in SpanOf(t) <=> q \in SpanOf(t)
    BY <1>3, <2>1 DEF GpuInv, DistinctGpu
  <2>2. CASE p \in SpanOf(t) /\ q \notin SpanOf(t)
    BY <1>1, <1>3, <1>6, <2>2 DEF Mapped
  <2>3. CASE q \in SpanOf(t) /\ p \notin SpanOf(t)
    BY <1>1, <1>3, <1>6, <2>3 DEF Mapped
  <2> QED BY <2>1, <2>2, <2>3
<1>11. Commits'
  BY DEF GpuInv, Commits
<1>12. FreeingUnused'
  <2> SUFFICES ASSUME NEW u \in Threads, pc'[u] \in Ioctls,
                      frame'[u].req = "MEM_FREE"
               PROVE  /\ frame'[u].gpu \in GpuVAs \cup Cookies
                      /\ ~Mapped(frame[u].gpu)'
                      /\ \A v \in Threads : pc'[v] = "mmap_lock" =>
                           frame'[v].gpu # frame'[u].gpu
    BY DEF FreeingUnused, Mapped
  <2>1. /\ frame'[u] = frame[u] /\ frame[u].gpu \in GpuVAs \cup Cookies
        /\ ~Mapped(frame[u].gpu)
        /\ \A v \in Threads : pc[v] = "mmap_lock" => frame[v].gpu # frame[u].gpu
    BY DEF GpuInv, FreeingUnused
  <2>2. ~Mapped(frame[u].gpu)'
    BY <1>7, <2>1 DEF Mapped
  <2> QED BY <2>1, <2>2
<1>13. MapsRegion'
  <2> SUFFICES ASSUME NEW u \in Threads, pc'[u] = "mmap_lock",
                      frame'[u].gpu # TrackingHandle
               PROVE  /\ \E s \in regions' : /\ s.ctx = frame'[u].fd
                                             /\ s.va = frame'[u].gpu
                                             /\ s.length = frame'[u].length
                      /\ ~Mapped(frame[u].gpu)'
                      /\ \A v \in Threads \ {u} : pc'[v] = "mmap_lock" =>
                           frame'[v].gpu # frame'[u].gpu
    BY DEF MapsRegion, Mapped
  <2>1. /\ u # t /\ frame'[u] = frame[u] /\ ~Mapped(frame[u].gpu)
        /\ frame[u].gpu # frame[t].gpu
        /\ \A v \in Threads \ {u} : pc[v] = "mmap_lock" =>
             frame[v].gpu # frame[u].gpu
    BY DEF GpuInv, MapsRegion
  <2>2. PICK s \in regions : /\ s.ctx = frame[u].fd /\ s.va = frame[u].gpu
                             /\ s.length = frame[u].length
    BY DEF GpuInv, MapsRegion
  <2>3. s \in regions' /\ frame[u].gpu \in GpuVAs \cup Cookies
    BY <1>1, <2>1, <2>2 DEF RegionsInv, RegionsTyped, RegionOK
  <2>4. ~Mapped(frame[u].gpu)'
    BY <1>7, <2>1, <2>3 DEF Mapped
  <2> QED BY <2>1, <2>2, <2>3, <2>4
<1> QED BY <1>8, <1>9, <1>10, <1>11, <1>12, <1>13

LEMMA GpuOpenSys ==
    ASSUME TypeOK, MaliFdInv, GpuInv, NEW t \in Threads, OpenSys(t)
    PROVE  GpuInv'
<1>1. PICK f : Call(t, "open_rec", f)
  BY DEF OpenSys
<1>2. Persist
  BY <1>1, PersistStep DEF Ioctls
<1>3. \A fd \in Fds : fds'[fd] # fds[fd] => fds[fd] = "free"
  BY DEF OpenSys, TypeOK
<1>4. ASSUME NEW u \in Threads, pc'[u] = "close_sys"
      PROVE  IsMali(frame[u].fd)' => IsMali(frame[u].fd)
  <2>1. pc[u] = "close_sys" /\ frame'[u] = frame[u]
    BY <1>1, <1>4, CallPc
  <2>2. frame[u].fd \in Fds /\ fds[frame[u].fd] # "free"
    BY <2>1, FdsProper DEF MaliFdInv, ClosingForgotten, OwnedOpen, Owns
  <2> QED BY <1>3, <2>1, <2>2 DEF IsMali
<1>5. cpu' = cpu /\ regions' = regions
  BY DEF OpenSys
<1> QED BY <1>2, <1>4, <1>5, GpuRegions

LEMMA GpuCloseSys ==
    ASSUME TypeOK, DeviceInv, Descriptors, RegionsInv, GpuInv,
           NEW t \in Threads, CloseSys(t)
    PROVE  GpuInv'
<1> SUFFICES ASSUME Disciplined PROVE GpuInv'
  BY DEF GpuInv
<1>1. /\ pc[t] = "close_sys" /\ cpu' = cpu
      /\ fds' = [fds EXCEPT ![frame[t].fd] = "free"]
      /\ regions' = {r \in regions : r.ctx # frame[t].fd}
      /\ Call(t, "app", NoFrame)
  BY DEF CloseSys, Return
<1>2. Persist
  BY <1>1, PersistStep DEF Ioctls
<1>3. ASSUME NEW u \in Threads, pc'[u] = "close_sys"
      PROVE  IsMali(frame[u].fd)' => IsMali(frame[u].fd)
  <2>1. frame'[u] = frame[u]
    BY <1>2, <1>3 DEF Persist
  <2> QED BY <1>1, <2>1 DEF IsMali, TypeOK
<1>4. ASSUME NEW r \in regions, r \notin regions'
      PROVE  ~Mapped(r.va) /\ \A u \in Threads :
               pc'[u] = "mmap_lock" => frame[u].gpu # r.va
  <2>1. r.ctx = frame[t].fd /\ IsMali(r.ctx) /\ r.va # 0
    BY <1>1, <1>4, ZonesAssumption DEF RegionsInv, RegionsTyped, RegionOK
  <2>2. ~Mapped(r.va)
    BY <1>1, <2>1 DEF GpuInv, DeviceClosing, Mapped
  <2>3. ASSUME NEW u \in Threads, pc'[u] = "mmap_lock" PROVE FALSE
    <3>1. u # t /\ pc[u] = "mmap_lock"
      BY <1>1, <2>3, CallPc
    <3>2. IsMali(frame[u].fd) /\ frame[u].fd # frame[t].fd
      BY <1>1, <3>1 DEF Descriptors, PassOrLock, ClosingAlone
    <3> QED BY <2>1, <3>2 DEF DeviceInv, OneDevice, IsMali
  <2> QED BY <2>2, <2>3
<1> QED BY <1>1, <1>2, <1>3, <1>4, GpuRegions

LEMMA GpuIoctlSys ==
    ASSUME TypeOK, GpuInv, NEW t \in Threads, IoctlPass(t) \/ IoctlSys(t)
    PROVE  GpuInv'
<1> SUFFICES ASSUME Disciplined PROVE GpuInv'
  BY DEF GpuInv
<1>1. PICK gpu, traced : KernelIoctl(frame[t], traced, gpu)
  BY DEF IoctlPass, IoctlSys
<1>2. /\ pc[t] \in Ioctls /\ UNCHANGED <<fds, cpu>>
      /\ \E f, l : Call(t, l, f) /\ l \in {"app", "ioctl_post"}
  BY DEF IoctlPass, IoctlSys, Return, Ioctls
<1>3. Persist
  BY <1>2, PersistStep DEF Ioctls
<1>4. ASSUME NEW u \in Threads, pc'[u] = "close_sys"
      PROVE  IsMali(frame[u].fd)' => IsMali(frame[u].fd)
  <2>1. frame'[u] = frame[u]
    BY <1>3, <1>4 DEF Persist
  <2> QED BY <1>2, <2>1 DEF IsMali
<1>5. ASSUME NEW r \in regions, r \notin regions'
      PROVE  ~Mapped(r.va) /\ \A u \in Threads :
               pc'[u] = "mmap_lock" => frame[u].gpu # r.va
  <2>1. frame[t].req = "MEM_FREE" /\ r.va = frame[t].gpu
    BY <1>1, <1>5 DEF KernelIoctl
  <2>2. /\ ~Mapped(frame[t].gpu)
        /\ \A u \in Threads : pc[u] = "mmap_lock" => frame[u].gpu # frame[t].gpu
    BY <1>2, <2>1 DEF GpuInv, FreeingUnused
  <2>3. \A u \in Threads : pc'[u] = "mmap_lock" => pc[u] = "mmap_lock"
    BY <1>3 DEF Persist, Ioctls
  <2> QED BY <2>1, <2>2, <2>3
<1> QED BY <1>2, <1>3, <1>4, <1>5, GpuRegions

LEMMA GpuMmapSys ==
    ASSUME TypeOK, FrameShape, DeviceInv, Descriptors, RegionsInv, PagesInv,
           GpuInv, NEW t \in Threads, MmapSys(t)
    PROVE  GpuInv'
<1>1. PICK ret : KernelMmap(frame[t], TRUE, ret) /\ \E f : Call(t, "mmap_rec", f)
  BY DEF MmapSys
<1>2. /\ pc[t] = "mmap_lock" /\ fds' = fds /\ pc'[t] = "mmap_rec"
      /\ \A u \in Threads \ {t} : pc'[u] = pc[u] /\ frame'[u] = frame[u]
  BY <1>1, CallPc DEF MmapSys
<1>3. Persist
  BY <1>1, PersistStep DEF Ioctls
<1>4. pc'[t] \notin Ioctls \cup {"close_sys", "mmap_lock"}
  BY <1>2 DEF Ioctls
<1>5. ASSUME NEW r \in regions, r.ctx = frame[t].fd, r.va = frame[t].gpu,
             frame[t].length <= r.length, Maps(frame[t], r, TRUE)
      PROVE  GpuInv'
  BY <1>2, <1>4, <1>5, GpuMaps
<1>6. ASSUME MapsOther(frame[t], TRUE) PROVE GpuInv'
  <2>1. \A p \in Pages : cpu'[p] = cpu[p] \/ cpu'[p].gpu_va = 0
    BY <1>6 DEF MapsOther, Places, Mapping
  <2>2. regions' = regions
    BY <1>6 DEF MapsOther
  <2> QED BY <1>2, <1>3, <2>1, <2>2, GpuPages
<1>7. CASE regions' = regions /\ cpu' = cpu
  BY <1>2, <1>3, <1>7, GpuPages
<1> QED BY <1>1, <1>5, <1>6, <1>7, KernelMmapCases

LEMMA GpuNext ==
    TypeOK /\ FrameShape /\ MaliFdInv /\ DeviceInv /\ Descriptors /\ RegionsInv
      /\ PagesInv /\ GpuInv /\ [Next]_vars => GpuInv'
<1> SUFFICES ASSUME TypeOK, FrameShape, MaliFdInv, DeviceInv, Descriptors,
                    RegionsInv, PagesInv, GpuInv, [Next]_vars
             PROVE  GpuInv'
  OBVIOUS
<1>0. ASSUME Persist, UNCHANGED kernel PROVE GpuInv'
  BY <1>0, GpuPages DEF kernel
<1>1. ASSUME NEW t \in Threads, Begin(t) PROVE GpuInv'
  <2>1. CASE MunmapSys(t)
    <3>1. \E f : Call(t, "munmap_rec", f)
      BY <2>1 DEF MunmapSys
    <3>2. Persist
      BY <3>1, PersistStep DEF Ioctls
    <3>3. \A p \in Pages : cpu'[p] = cpu[p] \/ cpu'[p].gpu_va = 0
      BY <2>1 DEF MunmapSys, NoMap
    <3>4. regions' = regions /\ fds' = fds
      BY <2>1 DEF MunmapSys
    <3> QED BY <3>2, <3>3, <3>4, GpuPages
  <2> QED BY <1>1, <2>1, GpuOpenSys, GpuCloseReset, GpuIoctlCall, GpuMmapCall
          DEF Begin
<1>2. ASSUME NEW t \in Threads, Continue(t) PROVE GpuInv'
  <2>1. CASE MmapPass(t)
    <3>1. Persist
      BY <2>1, PersistStep DEF MmapPass, Return, Ioctls
    <3>2. CASE Disciplined
      <4>1. MapsOther(frame[t], FALSE)
        BY <2>1, <3>2, PassMaps
      <4>2. \A p \in Pages : cpu'[p] = cpu[p] \/ cpu'[p].gpu_va = 0
        BY <4>1 DEF MapsOther, Places, Mapping
      <4>3. regions' = regions /\ fds' = fds
        BY <2>1, <4>1 DEF MapsOther, MmapPass
      <4> QED BY <3>1, <4>2, <4>3, GpuPages
    <3>3. CASE ~Disciplined
      BY <3>3 DEF GpuInv
    <3> QED BY <3>2, <3>3
  <2>2. CASE OpenRecord(t) \/ IoctlPost(t) \/ MmapRecord(t) \/ MunmapRecord(t)
    <3>1. Return(t) /\ UNCHANGED kernel
      BY <2>2 DEF OpenRecord, IoctlPost, MmapRecord, MunmapRecord
    <3> QED BY <1>0, <3>1, PersistStep DEF Return, Ioctls
  <2>3. CASE IoctlLock(t) \/ IoctlPre(t)
    <3>1. \E l \in Ioctls : Call(t, l, frame[t])
      BY <2>3 DEF IoctlLock, IoctlPre, Goto, Ioctls
    <3>2. pc[t] \in Ioctls /\ UNCHANGED kernel
      BY <2>3 DEF IoctlLock, IoctlPre, Ioctls
    <3> QED BY <1>0, <3>1, <3>2, PersistStep
  <2> QED BY <1>2, <2>1, <2>2, <2>3, GpuCloseSys, GpuIoctlSys, GpuMmapSys
          DEF Continue
<1>3. CASE UNCHANGED vars
  BY <1>0, <1>3 DEF vars, Persist
<1> QED BY <1>1, <1>2, <1>3 DEF Next

-----------------------------------------------------------------------------
(***************************************************************************)
(* The lists against the kernel, once they are settled: the allocations    *)
(* that wait for their mmap are remembered at the addresses the program    *)
(* will pass as offsets, and the records are those of the live mappings    *)
(* panwrap made, one each.                                                 *)
(***************************************************************************)
AllocTyped(A) == \A i \in 1..Len(A) :
    \/ A[i].gpu_va = 0
    \/ /\ A[i].gpu_va \in GpuVAs \cup Cookies \cup Pages
       /\ A[i].same_va <=> A[i].gpu_va \in Cookies
Due(A) == \A r \in regions :
    r.due => \E i \in 1..Len(A) : A[i].gpu_va = r.va
Recorded(S) == \A i \in 1..Len(S) :
    /\ S[i].addr \in Pages /\ cpu[S[i].addr].traced
    /\ Describes(S[i], cpu[S[i].addr])
Once(S) == \A i, j \in 1..Len(S) : S[i].addr = S[j].addr => i = j
AllRecorded(S) == \A p \in Pages :
    cpu[p].traced => \E i \in 1..Len(S) : S[i].addr = cpu[p].addr
Mirrors(S) == Recorded(S) /\ Once(S) /\ AllRecorded(S)
MirrorInv == Disciplined =>
    AllocTyped(SettledAllocs) /\ Due(SettledAllocs) /\ Mirrors(Settled)

LEMMA MirrorInit == Init => MirrorInv
<1> SUFFICES ASSUME Init PROVE MirrorInv
  OBVIOUS
<1>1. Settled = <<>> /\ SettledAllocs = <<>>
  BY ThreadsAssumption DEF Init, Settled, SettledAllocs, At
<1>2. Len(<<>>) = 0
  OBVIOUS
<1>3. \A i : i \notin 1..0
  OBVIOUS
<1> QED BY <1>1, <1>2, <1>3 DEF Init, MirrorInv, AllocTyped, Due, Mirrors, Recorded, Once,
                    AllRecorded, NoMap

\* Steps that make and remove no mapping of panwrap's and leave none due.
LEMMA MirrorOther ==
    ASSUME MirrorInv, Settled' = Settled, SettledAllocs' = SettledAllocs,
           \A r \in regions' : r.due => r \in regions,
           \A p \in Pages : \/ cpu'[p] = cpu[p]
                            \/ ~cpu'[p].traced /\ ~cpu[p].traced
    PROVE  MirrorInv'
<1> SUFFICES ASSUME Disciplined
             PROVE  (AllocTyped(SettledAllocs) /\ Due(SettledAllocs)
                      /\ Mirrors(Settled))'
  BY DEF MirrorInv
<1>1. AllocTyped(SettledAllocs) /\ Due(SettledAllocs) /\ Mirrors(Settled)
  BY DEF MirrorInv
<1>2. AllocTyped(SettledAllocs)' /\ Due(SettledAllocs)'
  BY <1>1 DEF AllocTyped, Due
<1>3. Recorded(Settled)'
  <2>1. SUFFICES ASSUME NEW i \in 1..Len(Settled)
                 PROVE  LET e == Settled[i] IN
                        /\ e.addr \in Pages /\ cpu'[e.addr].traced
                        /\ Describes(e, cpu'[e.addr])
    BY DEF Recorded, Describes
  <2>2. /\ Settled[i].addr \in Pages /\ cpu[Settled[i].addr].traced
        /\ Describes(Settled[i], cpu[Settled[i].addr])
    BY <1>1 DEF Mirrors, Recorded
  <2>3. cpu'[Settled[i].addr] = cpu[Settled[i].addr]
    BY <2>2
  <2> QED BY <2>2, <2>3
<1>4. Once(Settled)' /\ AllRecorded(Settled)'
  <2>1. Once(Settled)'
    BY <1>1 DEF Mirrors, Once
  <2>2. AllRecorded(Settled)'
    BY <1>1 DEF Mirrors, AllRecorded
  <2> QED BY <2>1, <2>2
<1> QED BY <1>2, <1>3, <1>4 DEF Mirrors

\* Using up an allocation takes at most one, and only one of that address.
LEMMA UsedUpKeeps ==
    ASSUME TypeOK, NEW gpu
    PROVE  /\ \A j \in 1..Len(UsedUp(gpu)) : \E i \in 1..Len(allocations) :
                UsedUp(gpu)[j] = allocations[i]
           /\ \A i \in 1..Len(allocations) : allocations[i].gpu_va # gpu =>
                \E j \in 1..Len(UsedUp(gpu)) : UsedUp(gpu)[j] = allocations[i]
<1> DEFINE k == FindAllocation(gpu)
           n == Len(allocations)
<1>1. allocations \in Seq(AllocatedMemory) /\ n \in Nat
  BY DEF TypeOK
<1>2. k \in 0..n /\ (k # 0 => allocations[k].gpu_va = gpu)
  BY <1>1, FindAllocationSpec
<1>3. UsedUp(gpu) = IF k = 0 THEN allocations ELSE RemoveAt(allocations, k)
  BY DEF UsedUp
<1> HIDE DEF k
<1>4. CASE k = 0
  BY <1>3, <1>4
<1>5. CASE k # 0
  <2>1. k \in 1..n
    BY <1>1, <1>2, <1>5
  <2>2. /\ Len(UsedUp(gpu)) = n - 1
        /\ \A j \in 1..(n - 1) : UsedUp(gpu)[j] =
             IF j < k THEN allocations[j] ELSE allocations[j + 1]
    BY <1>1, <1>3, <1>5, <2>1, RemoveAtElements
  <2> HIDE DEF n
  <2>3. ASSUME NEW j \in 1..(n - 1)
        PROVE  \E i \in 1..n : UsedUp(gpu)[j] = allocations[i]
    <3>1. j \in 1..n /\ j + 1 \in 1..n
      BY <1>1
    <3> QED BY <2>2, <3>1
  <2>4. ASSUME NEW i \in 1..n, allocations[i].gpu_va # gpu
        PROVE  \E j \in 1..(n - 1) : UsedUp(gpu)[j] = allocations[i]
    <3>1. i # k
      BY <1>2, <1>5, <2>4
    <3>2. CASE i < k
      <4>1. i \in 1..(n - 1)
        BY <1>1, <2>1, <3>2
      <4> QED BY <2>2, <3>2, <4>1
    <3>3. CASE i > k
      <4>1. i - 1 \in 1..(n - 1) /\ ~(i - 1 < k) /\ (i - 1) + 1 = i
        BY <1>1, <2>1, <3>3
      <4> QED BY <2>2, <4>1
    <3> QED BY <1>1, <2>1, <3>1, <3>2, <3>3
  <2> QED BY <2>2, <2>3, <2>4 DEF n
<1> QED BY <1>4, <1>5

\* Of records with distinct addresses, munmap takes exactly the one at addr.
LEMMA WithoutKeeps ==
    ASSUME NEW S \in Seq(MappedMemories), Once(S), NEW addr
    PROVE  /\ \A j \in 1..Len(Without(S, addr)) : \E i \in 1..Len(S) :
                S[i].addr # addr /\ Without(S, addr)[j] = S[i]
           /\ \A i \in 1..Len(S) : S[i].addr # addr =>
                \E j \in 1..Len(Without(S, addr)) : Without(S, addr)[j] = S[i]
           /\ Once(Without(S, addr))
<1> DEFINE k == FindMappedMem(S, addr)
           n == Len(S)
           W == Without(S, addr)
<1>1. n \in Nat
  OBVIOUS
<1>2. /\ k \in 0..n /\ (k = 0 => \A j \in 1..n : S[j].addr # addr)
      /\ k # 0 => S[k].addr = addr
  BY FindMappedMemSpec
<1>3. W = IF k = 0 THEN S ELSE RemoveAt(S, k)
  BY DEF Without
<1> HIDE DEF k, W
<1>4. CASE k = 0
  BY <1>2, <1>3, <1>4 DEF W
<1>5. CASE k # 0
  <2>1. k \in 1..n
    BY <1>1, <1>2, <1>5
  <2>2. /\ Len(W) = n - 1
        /\ \A j \in 1..(n - 1) : W[j] = IF j < k THEN S[j] ELSE S[j + 1]
    BY <1>1, <1>3, <1>5, <2>1, RemoveAtElements
  <2>0. \A i, j \in 1..n : S[i].addr = S[j].addr => i = j
    BY DEF Once
  <2> HIDE DEF n
  <2>3. ASSUME NEW j \in 1..(n - 1)
        PROVE  \E i \in 1..n : i = (IF j < k THEN j ELSE j + 1) /\ W[j] = S[i]
                               /\ S[i].addr # addr
    <3>1. j \in 1..n /\ j + 1 \in 1..n /\ (j < k => j # k) /\ (~(j < k) => j + 1 # k)
      BY <1>1, <2>1
    <3> QED BY <1>2, <1>5, <2>0, <2>1, <2>2, <3>1
  <2>4. ASSUME NEW i \in 1..n, S[i].addr # addr
        PROVE  \E j \in 1..(n - 1) : W[j] = S[i]
    <3>1. i # k
      BY <1>2, <1>5, <2>4
    <3>2. CASE i < k
      <4>1. i \in 1..(n - 1)
        BY <1>1, <2>1, <3>2
      <4> QED BY <2>2, <3>2, <4>1
    <3>3. CASE i > k
      <4>1. i - 1 \in 1..(n - 1) /\ ~(i - 1 < k) /\ (i - 1) + 1 = i
        BY <1>1, <2>1, <3>3
      <4> QED BY <2>2, <4>1
    <3> QED BY <1>1, <2>1, <3>1, <3>2, <3>3
  <2>5. ASSUME NEW i \in 1..(n - 1), NEW j \in 1..(n - 1), W[i].addr = W[j].addr
        PROVE  i = j
    <3>1. (IF i < k THEN i ELSE i + 1) = (IF j < k THEN j ELSE j + 1)
      BY <2>0, <2>3, <2>5
    <3> QED BY <1>1, <2>1, <3>1
  <2> QED BY <2>2, <2>3, <2>4, <2>5 DEF n, W, Once
<1> QED BY <1>4, <1>5

\* A new allocation goes to the front of the list; the others move up by one.
LEMMA ConsAllocated ==
    ASSUME NEW s \in Seq(AllocatedMemory), NEW e \in AllocatedMemory
    PROVE  /\ Len(Cons(e, s)) = Len(s) + 1
           /\ \A j \in 1..(Len(s) + 1) :
                Cons(e, s)[j] = IF j = 1 THEN e ELSE s[j - 1]
<1>1. s \in Seq(AllocatedMemory) /\ e \in AllocatedMemory
  OBVIOUS
<1> QED BY ONLY <1>1, ConsElements

\* What ioctl_decode_post will remember.
LEMMA AllocatedKeeps ==
    ASSUME NEW f, allocations \in Seq(AllocatedMemory), NEW e \in AllocatedMemory,
           Allocated(f) = Cons(e, allocations), AllocTyped(allocations),
           \/ e.gpu_va = 0
           \/ /\ e.gpu_va \in GpuVAs \cup Cookies \cup Pages
              /\ e.same_va <=> e.gpu_va \in Cookies
    PROVE  /\ AllocTyped(Allocated(f))
           /\ \E i \in 1..Len(Allocated(f)) : Allocated(f)[i] = e
           /\ \A i \in 1..Len(allocations) : \E j \in 1..Len(Allocated(f)) :
                Allocated(f)[j] = allocations[i]
<1> DEFINE A == Allocated(f)
           n == Len(allocations)
<1>1. n \in Nat /\ Len(A) = n + 1
      /\ \A j \in 1..(n + 1) : A[j] = IF j = 1 THEN e ELSE allocations[j - 1]
  <2>1. n \in Nat
    OBVIOUS
  <2>2. /\ Len(Cons(e, allocations)) = n + 1
        /\ \A j \in 1..(n + 1) : Cons(e, allocations)[j] =
             IF j = 1 THEN e ELSE allocations[j - 1]
    BY ConsAllocated
  <2>3. A = Cons(e, allocations)
    OBVIOUS
  <2> HIDE DEF n, A
  <2> QED BY <2>1, <2>2, <2>3
<1>2. \A i \in 1..n : i + 1 \in 1..(n + 1) /\ A[i + 1] = allocations[i]
  BY <1>1
<1>3. 1 \in 1..(n + 1) /\ A[1] = e
  BY <1>1
<1>4. \A j \in 1..(n + 1) : A[j] = e \/ \E i \in 1..n : A[j] = allocations[i]
  <2> SUFFICES ASSUME NEW j \in 1..(n + 1), j # 1
               PROVE  \E i \in 1..n : A[j] = allocations[i]
    BY <1>1
  <2>1. j - 1 \in 1..n /\ A[j] = allocations[j - 1]
    BY <1>1
  <2> QED BY <2>1
<1> HIDE DEF A
<1>5. AllocTyped(A)
  BY <1>1, <1>4 DEF AllocTyped
<1> QED BY <1>1, <1>2, <1>3, <1>5 DEF A

LEMMA MirrorIoctlSys ==
    ASSUME TypeOK, LockInv, FrameShape, RegionsInv, GpuInv, MirrorInv,
           NEW t \in Threads, IoctlSys(t)
    PROVE  MirrorInv'
<1> SUFFICES ASSUME Disciplined
             PROVE  (AllocTyped(SettledAllocs) /\ Due(SettledAllocs)
                      /\ Mirrors(Settled))'
  BY DEF MirrorInv
<1> DEFINE f == frame[t]
           h == frame'[t]
<1>0. PICK gpu \in Offsets \cup Pages :
        /\ KernelIoctl(f, TRUE, gpu)
        /\ Call(t, "ioctl_post", [f EXCEPT !.gpu = gpu])
  BY DEF IoctlSys
<1>1. /\ h.req = f.req /\ h.gpu = gpu /\ h.same_va = f.same_va
      /\ f.same_va \in BOOLEAN /\ gpu \in Nat
  <2>1. h = [f EXCEPT !.gpu = gpu]
    BY <1>0, CallPc
  <2> QED BY <2>1, ZonesType DEF TypeOK, Frames
<1>2. /\ pc[t] \in Ioctls /\ cpu' = cpu
      /\ (Allocates(f) => f.gpu = 0)
  BY DEF IoctlSys, FrameShape, Frame, Ioctls
<1>3. Settled' = Settled /\ SettledAllocs = allocations
      /\ SettledAllocs' = Allocated(h)
  BY SettledIoctlSys
<1>4. AllocTyped(allocations) /\ Due(allocations) /\ Mirrors(Settled)
  BY <1>3 DEF MirrorInv
<1>5. Mirrors(Settled)'
  BY <1>2, <1>3, <1>4 DEF Mirrors, Recorded, Once, AllRecorded, Describes
<1>6. allocations \in Seq(AllocatedMemory) /\ Len(allocations) \in Nat
  BY DEF TypeOK
<1>7. f.req = "MEM_ALLOC" =>
        gpu = 0 \/ (gpu \in GpuVAs \cup Cookies /\ (f.same_va <=> gpu \in Cookies))
  BY <1>0, <1>2, ZonesAssumption DEF KernelIoctl, FreshRange, Allocates
<1>8. f.req = "MEM_COMMIT" => gpu \in GpuVAs \cup Pages /\ gpu \notin Cookies
  BY <1>0, <1>2, ZonesAssumption DEF KernelIoctl, GpuInv, Commits
<1>9. \A q \in regions' : q.due => \/ q \in regions
                                   \/ f.req = "MEM_ALLOC" /\ q.va = gpu
  <2> DEFINE new == [ctx |-> f.fd, va |-> gpu, length |-> f.length,
                     due |-> TRUE /\ f.req = "MEM_ALLOC"]
  <2>1. new.va = gpu /\ (new.due => f.req = "MEM_ALLOC")
    OBVIOUS
  <2>2. regions' = regions \cup {new} \/ regions' \subseteq regions
    BY <1>0 DEF KernelIoctl
  <2> HIDE DEF new
  <2> QED BY <2>1, <2>2
<1> HIDE DEF f, h
<1>10. CASE f.req \notin {"MEM_ALLOC", "MEM_COMMIT"}
  <2>1. Allocated(h) = allocations
    BY <1>1, <1>10 DEF Allocated
  <2> QED BY <1>3, <1>4, <1>5, <1>9, <1>10, <2>1 DEF AllocTyped, Due
<1>11. CASE f.req \in {"MEM_ALLOC", "MEM_COMMIT"}
  <2> DEFINE e == IF f.req = "MEM_ALLOC" THEN post_mem_alloc(h)
                                         ELSE post_mem_commit(h)
  <2>1. Allocated(h) = Cons(e, allocations)
    BY <1>1, <1>11 DEF Allocated
  <2>2. e \in AllocatedMemory /\ e.gpu_va = gpu
    BY <1>1 DEF AllocatedMemory, post_mem_alloc, post_mem_commit
  <2>3. \/ e.gpu_va = 0
        \/ /\ e.gpu_va \in GpuVAs \cup Cookies \cup Pages
           /\ e.same_va <=> e.gpu_va \in Cookies
    BY <1>1, <1>7, <1>8, <1>11 DEF post_mem_alloc, post_mem_commit
  <2> HIDE DEF e
  <2>4. /\ AllocTyped(Allocated(h))
        /\ \E i \in 1..Len(Allocated(h)) : Allocated(h)[i] = e
        /\ \A i \in 1..Len(allocations) : \E j \in 1..Len(Allocated(h)) :
             Allocated(h)[j] = allocations[i]
    BY <1>4, <1>6, <2>1, <2>2, <2>3, AllocatedKeeps
  <2>5. AllocTyped(SettledAllocs)'
    BY <1>3, <2>4 DEF AllocTyped
  <2>6. Due(SettledAllocs)'
    <3> SUFFICES ASSUME NEW q \in regions', q.due
                 PROVE  \E i \in 1..Len(Allocated(h)) : Allocated(h)[i].gpu_va = q.va
      BY <1>3 DEF Due
    <3> QED BY <1>4, <1>9, <2>2, <2>4 DEF Due
  <2> QED BY <1>5, <2>5, <2>6
<1> QED BY <1>10, <1>11

LEMMA MirrorMunmapSys ==
    ASSUME TypeOK, PagesInv, MirrorInv, NEW t \in Threads, MunmapSys(t)
    PROVE  MirrorInv'
<1> SUFFICES ASSUME Disciplined
             PROVE  (AllocTyped(SettledAllocs) /\ Due(SettledAllocs)
                      /\ Mirrors(Settled))'
  BY DEF MirrorInv
<1>1. PICK a \in Pages, n \in Lens :
        /\ MayMunmap(a, n)
        /\ cpu' = [p \in Pages |-> IF p \in Span(a, n) THEN NoMap ELSE cpu[p]]
        /\ Call(t, "munmap_rec", [NoFrame EXCEPT !.addr = a])
  BY DEF MunmapSys
<1> DEFINE W == Without(mmaps, a)
<1>2. frame'[t].addr = a
  BY <1>1, CallPc DEF NoFrame
<1>3. /\ Settled = mmaps /\ SettledAllocs' = SettledAllocs /\ Settled' = W
  BY <1>2, SettledMunmapSys
<1>4. /\ AllocTyped(SettledAllocs) /\ Due(SettledAllocs)
      /\ Recorded(mmaps) /\ Once(mmaps) /\ AllRecorded(mmaps)
  BY <1>3 DEF MirrorInv, Mirrors
<1>5. AllocTyped(SettledAllocs)' /\ Due(SettledAllocs)'
  BY <1>3, <1>4 DEF AllocTyped, Due, MunmapSys
<1>6. \A p \in Pages : cpu[p].traced /\ cpu[p].addr # a => cpu'[p] = cpu[p]
  <2> SUFFICES ASSUME NEW p \in Pages, cpu[p].traced, cpu[p].addr # a
               PROVE  cpu'[p] = cpu[p]
    OBVIOUS
  <2>1. cpu[p] # NoMap
    BY DEF NoMap
  <2>2. p \notin Span(a, n)
    BY <1>1, <2>1, MunmapWhole
  <2> QED BY <1>1, <2>2
<1>7. \A p \in Pages : cpu'[p].traced => cpu'[p] = cpu[p] /\ cpu[p].addr # a
  <2> SUFFICES ASSUME NEW p \in Pages, cpu'[p].traced
               PROVE  cpu'[p] = cpu[p] /\ cpu[p].addr # a
    OBVIOUS
  <2>1. p \notin Span(a, n) /\ cpu'[p] = cpu[p]
    BY <1>1 DEF NoMap
  <2>2. cpu[p] # NoMap
    BY <2>1 DEF NoMap
  <2> QED BY <1>1, <2>1, <2>2, MunmapWhole
<1>8. /\ \A j \in 1..Len(W) : \E i \in 1..Len(mmaps) :
           mmaps[i].addr # a /\ W[j] = mmaps[i]
      /\ \A i \in 1..Len(mmaps) : mmaps[i].addr # a =>
           \E j \in 1..Len(W) : W[j] = mmaps[i]
      /\ Once(W)
  BY <1>4, WithoutKeeps DEF TypeOK
<1> HIDE DEF W
<1>9. ASSUME NEW j \in 1..Len(W)
      PROVE  /\ W[j].addr \in Pages /\ cpu'[W[j].addr].traced
             /\ Describes(W[j], cpu'[W[j].addr])
  <2>1. PICK i \in 1..Len(mmaps) : mmaps[i].addr # a /\ W[j] = mmaps[i]
    BY <1>8
  <2>2. /\ W[j].addr \in Pages /\ cpu[W[j].addr].traced
        /\ Describes(W[j], cpu[W[j].addr])
    BY <1>4, <2>1 DEF Recorded
  <2>3. cpu[W[j].addr].addr # a
    BY <2>1, <2>2 DEF Describes
  <2>4. cpu'[W[j].addr] = cpu[W[j].addr]
    BY <1>6, <2>2, <2>3
  <2> QED BY <2>2, <2>4
<1>10. Recorded(Settled)'
  BY <1>3, <1>9 DEF Recorded, Describes
<1>11. Once(Settled)'
  BY <1>3, <1>8 DEF Once
<1>12. AllRecorded(Settled)'
  <2> SUFFICES ASSUME NEW p \in Pages, cpu'[p].traced
               PROVE  \E j \in 1..Len(W) : W[j].addr = cpu'[p].addr
    BY <1>3 DEF AllRecorded
  <2>1. cpu'[p] = cpu[p] /\ cpu[p].addr # a
    BY <1>7
  <2>2. PICK i \in 1..Len(mmaps) : mmaps[i].addr = cpu[p].addr
    BY <1>4, <2>1 DEF AllRecorded
  <2>3. PICK j \in 1..Len(W) : W[j] = mmaps[i]
    BY <1>8, <2>1, <2>2
  <2> QED BY <2>1, <2>2, <2>3
<1> QED BY <1>5, <1>10, <1>11, <1>12 DEF Mirrors

\* A mapping made in free pages, and its record in front of the others.
LEMMA MirrorsCons ==
    ASSUME TypeOK, Mirrors(mmaps), NEW e \in MappedMemories, NEW m, Places(m),
           e.addr = m.addr, m.traced, Describes(e, m), m.addr \in Pages,
           m.addr \in Span(m.addr, m.length),
           \A p \in Span(m.addr, m.length) : cpu[p] = NoMap,
           Settled' = Cons(e, mmaps)
    PROVE  Mirrors(Settled)'
<1> DEFINE n == Len(mmaps)
           S == Settled'
           at == Span(m.addr, m.length)
<1>1. /\ n \in Nat /\ Len(S) = n + 1
      /\ \A j \in 1..(n + 1) : S[j] = IF j = 1 THEN e ELSE mmaps[j - 1]
  <2>1. mmaps \in Seq(MappedMemories) /\ Len(mmaps) \in Nat
    BY DEF TypeOK
  <2>2. \A d \in MappedMemories :
          /\ Len(Cons(d, mmaps)) = Len(mmaps) + 1
          /\ \A j \in 1..(Len(mmaps) + 1) : Cons(d, mmaps)[j] =
               IF j = 1 THEN d ELSE mmaps[j - 1]
    BY <2>1, ConsElements
  <2> QED BY <2>1, <2>2
<1>2. \A p \in Pages : cpu'[p] = IF p \in at THEN m ELSE cpu[p]
  BY DEF Places
<1>3. \A p \in Pages : cpu[p].traced => p \notin at
  BY DEF NoMap
<1> HIDE DEF n, S, at
<1>4. \A j \in 1..(n + 1) : \/ j = 1 /\ S[j] = e
                            \/ j - 1 \in 1..n /\ S[j] = mmaps[j - 1]
  BY <1>1
<1>5. \A i \in 1..n : /\ mmaps[i].addr \in Pages /\ cpu[mmaps[i].addr].traced
                      /\ Describes(mmaps[i], cpu[mmaps[i].addr])
                      /\ mmaps[i].addr \notin at
  BY <1>3 DEF Mirrors, Recorded, n
<1>6. m.addr \in at
  BY DEF at
<1>7. ASSUME NEW j \in 1..(n + 1)
      PROVE  /\ S[j].addr \in Pages /\ cpu'[S[j].addr].traced
             /\ Describes(S[j], cpu'[S[j].addr])
  <2>1. CASE j = 1 /\ S[j] = e
    BY <1>2, <1>6, <2>1
  <2>2. CASE j - 1 \in 1..n /\ S[j] = mmaps[j - 1]
    BY <1>2, <1>5, <2>2
  <2> QED BY <1>4, <2>1, <2>2
<1>8. Recorded(Settled)'
  BY <1>1, <1>7 DEF Recorded, Describes, S
<1>9. ASSUME NEW i \in 1..(n + 1), NEW j \in 1..(n + 1), S[i].addr = S[j].addr
      PROVE  i = j
  <2>1. CASE i = 1 /\ S[i] = e /\ j - 1 \in 1..n /\ S[j] = mmaps[j - 1]
    BY <1>5, <1>6, <1>9, <2>1
  <2>2. CASE j = 1 /\ S[j] = e /\ i - 1 \in 1..n /\ S[i] = mmaps[i - 1]
    BY <1>5, <1>6, <1>9, <2>2
  <2>3. CASE i - 1 \in 1..n /\ j - 1 \in 1..n /\ S[i] = mmaps[i - 1]
             /\ S[j] = mmaps[j - 1]
    <3>1. i - 1 = j - 1
      BY <1>9, <2>3 DEF Mirrors, Once, n
    <3> QED BY <1>1, <3>1
  <2> QED BY <1>4, <2>1, <2>2, <2>3
<1>10. Once(Settled)'
  BY <1>1, <1>9 DEF Once, S
<1>11. AllRecorded(Settled)'
  <2> SUFFICES ASSUME NEW p \in Pages, cpu'[p].traced
               PROVE  \E j \in 1..(n + 1) : S[j].addr = cpu'[p].addr
    BY <1>1 DEF AllRecorded, S
  <2>1. CASE p \in at
    <3>1. 1 \in 1..(n + 1) /\ S[1] = e
      BY <1>1
    <3> QED BY <1>2, <2>1, <3>1
  <2>2. CASE p \notin at
    <3>1. PICK i \in 1..n : mmaps[i].addr = cpu[p].addr
      BY <1>2, <2>2 DEF Mirrors, AllRecorded, n
    <3>2. i + 1 \in 1..(n + 1) /\ S[i + 1] = mmaps[i]
      BY <1>1
    <3> QED BY <1>2, <2>2, <3>1, <3>2
  <2> QED BY <2>1, <2>2
<1> QED BY <1>8, <1>10, <1>11 DEF Mirrors

LEMMA MirrorMmapSys ==
    ASSUME TypeOK, FrameShape, Descriptors, RegionsInv, PagesInv, GpuInv,
           MirrorInv, NEW t \in Threads, MmapSys(t)
    PROVE  MirrorInv'
<1> SUFFICES ASSUME Disciplined
             PROVE  (AllocTyped(SettledAllocs) /\ Due(SettledAllocs)
                      /\ Mirrors(Settled))'
  BY DEF MirrorInv
<1> DEFINE f == frame[t]
           i == FindAllocation(f.gpu)
           e == Entry(f)
           A == allocations
<1>0. PICK ret : KernelMmap(f, TRUE, ret) /\ Call(t, "mmap_rec", [f EXCEPT !.addr = ret])
  BY DEF MmapSys
<1>1. /\ pc[t] = "mmap_lock" /\ IsMali(f.fd) /\ f \in Frames
      /\ f.addr \in Pages /\ f.addr \in SpanOf(t)
      /\ \A p \in SpanOf(t) : cpu[p] = NoMap
  <2>1. pc[t] = "mmap_lock" /\ f \in Frames
    BY DEF MmapSys, TypeOK
  <2>2. IsMali(f.fd)
    BY <2>1 DEF Descriptors, PassOrLock
  <2>3. f.addr \in Pages /\ f.length \in Nat \ {0}
    BY <2>1, BoundsAssumption DEF FrameShape, Frame, Mmaps
  <2>4. f.addr \in Nat
    BY <2>3, ZonesType
  <2>5. f.addr \in SpanOf(t)
    BY <2>3, <2>4 DEF SpanOf, Span
  <2> QED BY <2>1, <2>2, <2>3, <2>5 DEF PagesInv, Reserved, Mmaps
<1>2. /\ ret = f.addr
      /\ \/ f.gpu = TrackingHandle /\ MapsOther(f, TRUE)
         \/ \E r \in regions : r.va = f.gpu /\ Maps(f, r, TRUE)
  <2>1. CASE /\ ret = MapFailed /\ regions' = regions /\ cpu' = cpu
             /\ Disciplined => IsMali(f.fd) /\ f.gpu # TrackingHandle
                  /\ \A r \in regions : ~(r.ctx = f.fd /\ r.va = f.gpu
                                          /\ f.length <= r.length)
    <3>1. PICK r \in regions : /\ r.ctx = f.fd /\ r.va = f.gpu
                               /\ r.length = f.length
      BY <1>1, <2>1 DEF GpuInv, MapsRegion
    <3>2. f.length <= f.length
      BY <1>1 DEF Frames
    <3> QED BY <2>1, <3>1, <3>2
  <2>2. \/ ret = f.addr /\ \E r \in regions :
             r.ctx = f.fd /\ r.va = f.gpu /\ f.length <= r.length
             /\ Maps(f, r, TRUE)
        \/ /\ ~IsMali(f.fd) \/ f.gpu = TrackingHandle
           /\ ret = f.addr /\ MapsOther(f, TRUE)
        \/ /\ ret = MapFailed /\ regions' = regions /\ cpu' = cpu
           /\ Disciplined => IsMali(f.fd) /\ f.gpu # TrackingHandle
                /\ \A r \in regions : ~(r.ctx = f.fd /\ r.va = f.gpu
                                        /\ f.length <= r.length)
    BY <1>0, KernelMmapCases
  <2> HIDE DEF f
  <2> QED BY <1>1, <2>1, <2>2
<1>3. frame'[t] = f
  BY <1>0, <1>1, <1>2, CallPc DEF Frames
<1>4. /\ Settled = mmaps /\ SettledAllocs = A
      /\ Settled' = Cons(e, mmaps) /\ SettledAllocs' = UsedUp(f.gpu)
  BY <1>3, SettledMmapSys
<1>5. AllocTyped(A) /\ Due(A) /\ Mirrors(mmaps)
  BY <1>4 DEF MirrorInv
<1>6. /\ i \in 0..Len(A) /\ (i # 0 => A[i].gpu_va = f.gpu)
      /\ i = 0 => \A j \in 1..Len(A) : A[j].gpu_va # f.gpu
  BY FindAllocationSpec DEF TypeOK
<1>7. e = [addr |-> f.addr, length |-> f.length,
           gpu_va |-> IF i = 0 THEN 0 ELSE IF A[i].same_va THEN f.addr ELSE f.gpu]
  BY DEF Entry
<1>8. e \in MappedMemories
  BY <1>1, EntryType
<1>9. i \in 1..Len(A) \/ i = 0
  BY <1>6 DEF TypeOK
<1>10. /\ \A j \in 1..Len(UsedUp(f.gpu)) : \E k \in 1..Len(A) :
             UsedUp(f.gpu)[j] = A[k]
       /\ \A k \in 1..Len(A) : A[k].gpu_va # f.gpu =>
             \E j \in 1..Len(UsedUp(f.gpu)) : UsedUp(f.gpu)[j] = A[k]
  BY UsedUpKeeps
<1> HIDE DEF i, e, A
<1>11. AllocTyped(SettledAllocs)'
  <2>1. AllocTyped(UsedUp(f.gpu))
    BY <1>5, <1>10 DEF AllocTyped
  <2> QED BY <1>4, <2>1 DEF AllocTyped
<1>12. ASSUME NEW q \in regions, q.due, q.va # f.gpu
       PROVE  \E j \in 1..Len(UsedUp(f.gpu)) : UsedUp(f.gpu)[j].gpu_va = q.va
  BY <1>5, <1>10, <1>12 DEF Due
<1>13. ASSUME NEW g, NEW due, Places(Mapping(f, g, TRUE, due)),
              e.gpu_va \in (IF due THEN {g} ELSE {0, g})
       PROVE  Mirrors(Settled)'
  <2> DEFINE m == Mapping(f, g, TRUE, due)
  <2>1. /\ m.addr = f.addr /\ m.length = f.length /\ m.traced = TRUE
        /\ m.gpu_va = g /\ m.due = due /\ Places(m)
    BY <1>13 DEF Mapping
  <2> HIDE DEF m
  <2>2. e.addr = m.addr /\ e.length = m.length /\ Describes(e, m)
    BY <1>7, <1>13, <2>1 DEF Describes
  <2>3. SpanOf(t) = Span(m.addr, m.length)
    BY <2>1 DEF SpanOf
  <2> QED BY <1>1, <1>4, <1>5, <1>8, <2>1, <2>2, <2>3, MirrorsCons
<1>14. ASSUME f.gpu = TrackingHandle, MapsOther(f, TRUE)
       PROVE  Due(SettledAllocs)' /\ Mirrors(Settled)'
  <2>1. regions' = regions /\ Places(Mapping(f, 0, TRUE, FALSE))
    BY <1>14 DEF MapsOther
  <2>2. \A q \in regions : q.va # f.gpu
    BY <1>14, ZonesAssumption DEF RegionsInv, RegionsTyped, RegionOK
  <2>3. Due(SettledAllocs)'
    BY <1>4, <1>12, <2>1, <2>2 DEF Due
  <2>4. \A j \in 1..Len(A) : A[j].gpu_va # f.gpu
    BY <1>5, <1>14, ZonesAssumption DEF AllocTyped
  <2>5. e.gpu_va = 0
    BY <1>6, <1>7, <1>9, <2>4
  <2>6. Mirrors(Settled)'
    BY <1>13, <2>1, <2>5
  <2> QED BY <2>3, <2>6
<1>15. ASSUME NEW r \in regions, r.va = f.gpu, Maps(f, r, TRUE)
       PROVE  Due(SettledAllocs)' /\ Mirrors(Settled)'
  <2> DEFINE g == IF r.va \in Cookies THEN f.addr ELSE r.va
             due == TRUE /\ r.due
             s == [r EXCEPT !.due = FALSE]
  <2>1. /\ Places(Mapping(f, g, TRUE, due))
        /\ regions' \subseteq (regions \ {r}) \cup {s}
    BY <1>15 DEF Maps
  <2>2. s.due = FALSE /\ (due <=> r.due) /\ r.va # 0 /\ (g # 0)
    <3>1. r \in Regions /\ r.va \in GpuVAs \cup Cookies
      BY DEF TypeOK, RegionsInv, RegionsTyped, RegionOK
    <3> QED BY <1>1, <3>1, ZonesAssumption DEF Regions
  <2>3. \A q \in regions \ {r} : q.va # f.gpu
    BY <1>15, RegionStart
  <2>4. Due(SettledAllocs)'
    <3> SUFFICES ASSUME NEW q \in regions', q.due
                 PROVE  \E j \in 1..Len(UsedUp(f.gpu)) :
                          UsedUp(f.gpu)[j].gpu_va = q.va
      BY <1>4 DEF Due
    <3> HIDE DEF s
    <3>1. q \in regions \ {r}
      BY <2>1, <2>2
    <3> QED BY <1>12, <2>3, <3>1
  <2>5. i # 0 => e.gpu_va = g
    <3>1. i # 0 => (A[i].same_va <=> A[i].gpu_va \in Cookies)
      BY <1>5, <1>6, <1>9, <1>15, <2>2 DEF AllocTyped
    <3> QED BY <1>6, <1>7, <1>15, <3>1
  <2>6. r.due => i # 0
    BY <1>5, <1>6, <1>15 DEF Due
  <2>7. i = 0 => e.gpu_va = 0
    BY <1>7
  <2> HIDE DEF g, due
  <2>8. e.gpu_va \in (IF due THEN {g} ELSE {0, g})
    BY <2>2, <2>5, <2>6, <2>7
  <2> QED BY <1>13, <2>1, <2>4, <2>8
<1> HIDE DEF f
<1> QED BY <1>2, <1>11, <1>14, <1>15

LEMMA MirrorNext ==
    TypeOK /\ LockInv /\ FrameShape /\ Descriptors /\ RegionsInv /\ PagesInv
      /\ GpuInv /\ MirrorInv /\ [Next]_vars => MirrorInv'
<1> SUFFICES ASSUME TypeOK, LockInv, FrameShape, Descriptors, RegionsInv,
                    PagesInv, GpuInv, MirrorInv, Disciplined, [Next]_vars
             PROVE  MirrorInv'
  BY DEF MirrorInv
<1>1. ASSUME NEW t \in Threads, Begin(t) \/ Continue(t),
             ~MmapSys(t), ~MunmapSys(t), ~IoctlSys(t)
      PROVE  MirrorInv'
  <2>1. Settled' = Settled /\ SettledAllocs' = SettledAllocs
    BY <1>1, SettledStep
  <2>2. CASE MmapPass(t)
    <3>1. MapsOther(frame[t], FALSE)
      BY <2>2, PassMaps
    <3>2. \A p \in SpanOf(t) : cpu[p] = NoMap
      BY <2>2 DEF MmapPass, Mmaps, PagesInv, Reserved
    <3>3. \A p \in Pages : \/ cpu'[p] = cpu[p]
                           \/ ~cpu'[p].traced /\ ~cpu[p].traced
      BY <3>1, <3>2 DEF MapsOther, Places, Mapping, SpanOf, NoMap
    <3> QED BY <2>1, <3>1, <3>3, MirrorOther DEF MapsOther
  <2>3. CASE IoctlPass(t)
    <3>1. PICK gpu : KernelIoctl(frame[t], FALSE, gpu)
      BY <2>3 DEF IoctlPass
    <3>2. \A r \in regions' : r.due => r \in regions
      <4> DEFINE new == [ctx |-> frame[t].fd, va |-> gpu,
                         length |-> frame[t].length,
                         due |-> FALSE /\ frame[t].req = "MEM_ALLOC"]
      <4>1. ~new.due
        OBVIOUS
      <4>2. regions' = regions \cup {new} \/ regions' \subseteq regions
        BY <3>1 DEF KernelIoctl
      <4> HIDE DEF new
      <4> QED BY <4>1, <4>2
    <3>3. cpu' = cpu
      BY <2>3 DEF IoctlPass
    <3> QED BY <2>1, <3>2, <3>3, MirrorOther
  <2>4. CASE ~MmapPass(t) /\ ~IoctlPass(t)
    <3>1. cpu' = cpu /\ regions' \subseteq regions
      BY <1>1, <2>4
         DEF Begin, OpenSys, CloseReset, IoctlCall, MmapCall, Continue,
             OpenRecord, CloseSys, IoctlLock, IoctlPre, IoctlPost, MmapRecord,
             MunmapRecord, kernel
    <3> QED BY <2>1, <3>1, MirrorOther
  <2> QED BY <2>2, <2>3, <2>4
<1>2. CASE UNCHANGED vars
  <2>1. cpu' = cpu /\ regions' = regions
    BY <1>2 DEF vars, kernel
  <2> QED BY <1>2, <2>1, SettledUnchanged, MirrorOther
<1> QED BY <1>1, <1>2, MirrorIoctlSys, MirrorMmapSys, MirrorMunmapSys DEF Next

\* With no call between its system call and its record, mmaps itself is what
\* mirrors the kernel.
LEMMA QuietMirrors == LockInv /\ MirrorInv /\ Disciplined /\ Quiet => Mirrors(mmaps)
BY QuietSettled DEF MirrorInv

\* The mapping that record i describes, and the record of a live mapping.
LEMMA RecordOf ==
    ASSUME TypeOK, Disciplined, PagesInv, Mirrors(mmaps)
    PROVE  /\ \A i \in 1..Len(mmaps) :
                /\ mmaps[i].addr \in Pages
                /\ cpu[mmaps[i].addr] \in Live
                /\ Describes(mmaps[i], cpu[mmaps[i].addr])
           /\ \A m \in Live : \E i \in 1..Len(mmaps) :
                cpu[mmaps[i].addr] = m
<1>1. \A i \in 1..Len(mmaps) :
        /\ mmaps[i].addr \in Pages
        /\ cpu[mmaps[i].addr] \in Live
        /\ Describes(mmaps[i], cpu[mmaps[i].addr])
  BY DEF Mirrors, Recorded, Live
<1>2. ASSUME NEW m \in Live PROVE \E i \in 1..Len(mmaps) : cpu[mmaps[i].addr] = m
  <2>1. PICK p \in Pages : cpu[p].traced /\ m = cpu[p]
    BY DEF Live
  <2>2. cpu[m.addr] = m
    BY <2>1, WholeStart DEF NoMap
  <2>3. PICK i \in 1..Len(mmaps) : mmaps[i].addr = m.addr
    BY <2>1 DEF Mirrors, AllRecorded
  <2> QED BY <2>2, <2>3
<1> QED BY <1>1, <1>2

LEMMA MirrorCount ==
    TypeOK /\ LockInv /\ PagesInv /\ MirrorInv => MmapsMirrorKernel
<1> SUFFICES ASSUME TypeOK, LockInv, PagesInv, MirrorInv, Disciplined, Quiet
             PROVE  /\ Len(mmaps) = Cardinality(Live)
                    /\ \A m \in Live : \E i \in DOMAIN mmaps : Describes(mmaps[i], m)
  BY DEF MmapsMirrorKernel
<1> DEFINE n == Len(mmaps)
           F == [i \in 1..n |-> cpu[mmaps[i].addr]]
<1>1. n \in Nat /\ DOMAIN mmaps = 1..n
  BY DEF TypeOK
<1>2. Mirrors(mmaps)
  BY QuietMirrors
<1>3. /\ \A i \in 1..n : F[i] \in Live /\ Describes(mmaps[i], F[i])
      /\ \A m \in Live : \E i \in 1..n : F[i] = m
  BY <1>2, RecordOf
<1>4. F \in [1..n -> Live]
  BY <1>3
<1> HIDE DEF F, n
<1>5. ASSUME NEW i \in 1..n, NEW j \in 1..n, F[i] = F[j] PROVE i = j
  <2>1. Describes(mmaps[i], F[i]) /\ Describes(mmaps[j], F[j])
    BY <1>3
  <2>2. mmaps[i].addr = F[i].addr /\ mmaps[j].addr = F[j].addr
    BY <2>1 DEF Describes
  <2>3. mmaps[i].addr = mmaps[j].addr
    BY <1>5, <2>2
  <2> QED BY <1>2, <2>3 DEF Mirrors, Once, n
<1>6. F \in Bijection(1..n, Live)
  BY <1>3, <1>4, <1>5 
     DEF Bijection, Injection, Surjection, IsInjective
<1>7. Cardinality(Live) = n
  BY <1>1, <1>6, FS_CountingElements DEF ExistsBijection
<1> QED BY <1>1, <1>3, <1>7 DEF n

LEMMA FetchIsSound ==
    TypeOK /\ LockInv /\ PagesInv /\ MirrorInv => FetchSound
<1> SUFFICES ASSUME TypeOK, LockInv, PagesInv, MirrorInv, Disciplined, Quiet,
                    NEW gpu \in GpuVAs \cup Pages, NEW n \in Lens,
                    NEW a \in FetchMappedGpu(mmaps, gpu, n), NEW k \in 0..(n - 1)
             PROVE  Shows(a + k, gpu + k)
  BY DEF FetchSound
<1>1. mmaps \in Seq(MappedMemories) /\ Mirrors(mmaps)
  BY QuietMirrors DEF TypeOK
<1>2. PICK i \in 1..Len(mmaps) :
        /\ gpu # 0 /\ mmaps[i].gpu_va <= gpu
        /\ gpu <= mmaps[i].gpu_va + mmaps[i].length
        /\ ~(gpu - mmaps[i].gpu_va + n > mmaps[i].length)
        /\ a = mmaps[i].addr + (gpu - mmaps[i].gpu_va)
  BY <1>1, FetchSpec
<1> DEFINE e == mmaps[i]
           m == cpu[e.addr]
<1>3. e \in MappedMemories
  BY <1>1, ElementOfSeq
<1>4. e.addr \in Pages /\ m \in Live /\ Describes(e, m)
  BY <1>1, RecordOf
<1> HIDE DEF e, m
<1>5. e.addr = m.addr /\ e.length = m.length /\ e.gpu_va \in {0, m.gpu_va}
  BY <1>4 DEF Describes
<1>6. m # NoMap
  BY <1>4 DEF Live, NoMap
<1>7. /\ m.length \in Lens /\ Span(m.addr, m.length) \subseteq Pages
      /\ \A q \in Span(m.addr, m.length) : cpu[q] = m
  BY <1>4, <1>6 DEF PagesInv, Whole, m
<1>8. /\ e.addr \in Nat /\ e.length \in Nat /\ e.gpu_va \in Nat
      /\ gpu \in Nat /\ n \in Nat /\ k \in Nat /\ k < n
  <2>1. n \in Nat /\ gpu \in Nat
    BY ZonesType
  <2> QED BY <1>3, <2>1 DEF MappedMemories
<1>9. e.gpu_va # 0
  <2>1. m.length < gpu
    BY <1>7, ZonesAssumption
  <2> QED BY <1>2, <1>5, <1>8, <2>1 DEF e
<1>10. /\ a = e.addr + (gpu - e.gpu_va) /\ e.gpu_va <= gpu
       /\ gpu - e.gpu_va + n <= e.length
  BY <1>2, <1>8 DEF e
<1>11. a + k \in Span(m.addr, m.length)
  <2> DEFINE x == e.addr
             y == e.length
             d == gpu - e.gpu_va
  <2>0. x \in Nat /\ y \in Nat /\ d \in Nat /\ a = x + d /\ d + n <= y
    BY <1>8, <1>10
  <2> HIDE DEF x, y, d
  <2>1. a + k \in Int /\ x <= a + k /\ a + k <= x + y - 1
    BY <1>8, <2>0
  <2>2. a + k \in x..(x + y - 1)
    BY <1>8, <2>0, <2>1
  <2> QED BY <1>5, <2>2 DEF Span, x, y
<1>12. a + k \in Pages /\ cpu[a + k] = m
  BY <1>7, <1>11
<1>13. (gpu + k) - m.gpu_va = (a + k) - m.addr
  <2>1. PICK x, v : x = e.addr /\ v = e.gpu_va
    OBVIOUS
  <2>2. m.addr = x /\ m.gpu_va = v
    BY <1>5, <1>9, <2>1
  <2>3. x \in Nat /\ v \in Nat /\ gpu \in Nat /\ k \in Nat /\ a = x + (gpu - v)
    BY <1>8, <1>10, <2>1
  <2>4. (gpu + k) - v = (a + k) - x
    BY <2>3
  <2> QED BY <2>2, <2>4
<1> QED BY <1>5, <1>9, <1>12, <1>13 DEF Shows

\* What the GPU sees at an address that a mapping shows: pages of the CPU, or
\* a region.
LEMMA GpuSpan ==
    ASSUME TypeOK, Disciplined, RegionsInv, PagesInv, GpuInv,
           NEW m \in Live, m.gpu_va # 0,
           NEW gpu \in Nat, m.gpu_va <= gpu, gpu < m.gpu_va + m.length
    PROVE  \/ gpu \in Pages /\ cpu[gpu] = m
           \/ /\ gpu \in GpuVAs \cup Cookies
              /\ \E r \in regions : /\ r.va = m.gpu_va
                                    /\ gpu \in RegionSpan(r.va, r.length)
<1>1. PICK p \in Pages : cpu[p].traced /\ m = cpu[p]
  BY DEF Live
<1>2. m # NoMap
  BY <1>1 DEF NoMap
<1>3. /\ Span(m.addr, m.length) \subseteq Pages
      /\ \A q \in Span(m.addr, m.length) : cpu[q] = m
  BY <1>1, <1>2 DEF PagesInv, Whole
<1>4. m.addr \in Nat /\ m.length \in Nat /\ m.gpu_va \in Nat
  BY <1>1 DEF TypeOK, Mappings
<1>5. CASE m.gpu_va = m.addr
  <2>1. gpu \in Span(m.addr, m.length)
    BY <1>4, <1>5 DEF Span
  <2> QED BY <1>3, <2>1
<1>6. CASE m.gpu_va \in GpuVAs /\ \E r \in regions :
                                    r.va = m.gpu_va /\ m.length <= r.length
  <2>1. PICK r \in regions : r.va = m.gpu_va /\ m.length <= r.length
    BY <1>6
  <2>2. r.length \in Nat
    BY DEF TypeOK, Regions
  <2>3. gpu \in Span(r.va, r.length)
    BY <1>4, <2>1, <2>2 DEF Span
  <2>4. r.va \notin Cookies
    BY <1>6, <2>1, ZonesAssumption
  <2>5. gpu \in RegionSpan(r.va, r.length)
    BY <2>3, <2>4 DEF RegionSpan
  <2>6. gpu \in GpuVAs \cup Cookies
    BY <2>5 DEF RegionsInv, RegionsTyped, RegionOK
  <2> QED BY <2>1, <2>5, <2>6
<1> QED BY <1>1, <1>5, <1>6 DEF GpuInv, GpuOfMap, HasGpu

\* So an address is shown by one mapping only.
LEMMA ShownOnce ==
    ASSUME TypeOK, Disciplined, RegionsInv, PagesInv, GpuInv, NEW gpu \in Nat,
           NEW m \in Live, m.gpu_va # 0, m.gpu_va <= gpu,
           gpu < m.gpu_va + m.length,
           NEW q \in Live, q.gpu_va # 0, q.gpu_va <= gpu,
           gpu < q.gpu_va + q.length
    PROVE  m = q
<1> DEFINE InPages(d) == gpu \in Pages /\ cpu[gpu] = d
           InRegion(d) == /\ gpu \in GpuVAs \cup Cookies
                          /\ \E r \in regions : r.va = d.gpu_va
                               /\ gpu \in RegionSpan(r.va, r.length)
<1>1. InPages(m) \/ InRegion(m)
  BY GpuSpan
<1>2. InPages(q) \/ InRegion(q)
  BY GpuSpan
<1>3. ~(gpu \in Pages /\ gpu \in GpuVAs \cup Cookies)
  BY ZonesAssumption
<1>4. CASE InRegion(m) /\ InRegion(q)
  <2>1. PICK r \in regions : r.va = m.gpu_va /\ gpu \in RegionSpan(r.va, r.length)
    BY <1>4
  <2>2. PICK s \in regions : s.va = q.gpu_va /\ gpu \in RegionSpan(s.va, s.length)
    BY <1>4
  <2>3. r = s
    BY <2>1, <2>2 DEF RegionsInv, RegionsApart, Apart
  <2>4. \E x, y \in Pages : m = cpu[x] /\ q = cpu[y]
    BY DEF Live
  <2> QED BY <2>1, <2>2, <2>3, <2>4 DEF GpuInv, DistinctGpu
<1> QED BY <1>1, <1>2, <1>3, <1>4

LEMMA FetchIsComplete ==
    TypeOK /\ LockInv /\ RegionsInv /\ PagesInv /\ GpuInv /\ MirrorInv
      => FetchCompleteInterior
<1> SUFFICES ASSUME TypeOK, LockInv, RegionsInv, PagesInv, GpuInv, MirrorInv,
                    Disciplined, Quiet,
                    NEW gpu \in GpuVAs \cup Pages, NEW n \in Lens,
                    Fetchable(gpu, n),
                    \A i \in DOMAIN mmaps :
                      gpu # mmaps[i].gpu_va + mmaps[i].length
             PROVE  FetchMappedGpu(mmaps, gpu, n) # {}
  BY DEF FetchCompleteInterior
<1>1. mmaps \in Seq(MappedMemories) /\ Mirrors(mmaps) /\ DOMAIN mmaps = 1..Len(mmaps)
  BY QuietMirrors DEF TypeOK
<1>2. PICK m \in Live : m.due /\ m.gpu_va <= gpu /\ gpu + n <= m.gpu_va + m.length
  BY DEF Fetchable
<1>3. gpu \in Nat \ {0} /\ n \in Nat \ {0}
  BY ZonesAssumption, BoundsAssumption
<1>4. PICK p \in Pages : cpu[p].traced /\ m = cpu[p]
  BY DEF Live
<1>5. m.gpu_va # 0 /\ m \in Mappings
  <2>1. m # NoMap
    BY <1>4 DEF NoMap
  <2> QED BY <1>2, <1>4, <2>1 DEF PagesInv, Whole, Told, TypeOK
<1>6. m.gpu_va \in Nat /\ m.length \in Nat /\ gpu < m.gpu_va + m.length
  BY <1>2, <1>3, <1>5 DEF Mappings
<1>7. \E j \in 1..Len(mmaps) : /\ mmaps[j].gpu_va <= gpu
                               /\ gpu <= mmaps[j].gpu_va + mmaps[j].length
  <2>1. PICK j \in 1..Len(mmaps) : cpu[mmaps[j].addr] = m
    BY <1>1, RecordOf
  <2>2. Describes(mmaps[j], m)
    BY <1>1, <2>1, RecordOf
  <2>3. mmaps[j].gpu_va = m.gpu_va /\ mmaps[j].length = m.length
    BY <1>2, <2>2 DEF Describes
  <2> QED BY <1>2, <1>3, <1>6, <2>3
<1>8. ASSUME NEW j \in 1..Len(mmaps), mmaps[j].gpu_va <= gpu,
             gpu <= mmaps[j].gpu_va + mmaps[j].length
      PROVE  ~(gpu - mmaps[j].gpu_va + n > mmaps[j].length)
  <2> DEFINE e == mmaps[j]
             q == cpu[e.addr]
  <2>1. e \in MappedMemories
    BY <1>1, ElementOfSeq
  <2>2. q \in Live /\ Describes(e, q) /\ e.addr \in Pages
    BY <1>1, RecordOf
  <2>3. gpu # e.gpu_va + e.length /\ e.gpu_va <= gpu
        /\ gpu <= e.gpu_va + e.length
    BY <1>1, <1>8
  <2>4. q.length \in Lens
    BY <2>2 DEF Live, NoMap, PagesInv, Whole
  <2> HIDE DEF e, q
  <2>5. e.length = q.length /\ e.gpu_va \in {0, q.gpu_va}
    BY <2>2 DEF Describes
  <2>6. e.gpu_va \in Nat /\ e.length \in Nat
    BY <2>1 DEF MappedMemories
  <2>7. gpu < e.gpu_va + e.length
    BY <1>3, <2>3, <2>6
  <2>8. e.gpu_va # 0
    <3>1. q.length < gpu
      BY <2>4, ZonesAssumption
    <3> QED BY <1>3, <2>3, <2>5, <2>6, <3>1
  <2>9. m = q
    BY <1>2, <1>3, <1>5, <1>6, <2>2, <2>3, <2>5, <2>7, <2>8, ShownOnce
  <2>10. gpu + n <= e.gpu_va + e.length
    BY <1>2, <2>5, <2>8, <2>9
  <2> QED BY <1>3, <2>6, <2>10 DEF e
<1> QED BY <1>1, <1>3, <1>7, <1>8, FetchFinds

\* A page of the address space that a record names.
LEMMA InSpan ==
    ASSUME NEW a \in Nat, NEW n \in Nat, NEW g \in Span(a, n)
    PROVE  g \in Nat /\ a <= g /\ g < a + n
BY DEF Span

LEMMA RecordsAreCurrent ==
    TypeOK /\ LockInv /\ RegionsInv /\ PagesInv /\ GpuInv /\ MirrorInv => RecordsCurrent
<1> SUFFICES ASSUME TypeOK, LockInv, RegionsInv, PagesInv, GpuInv, MirrorInv,
                    Disciplined, Quiet
             PROVE  /\ \A i \in DOMAIN mmaps :
                         \A p \in Span(mmaps[i].addr, mmaps[i].length) :
                           p \in Pages /\ cpu[p].traced /\ Describes(mmaps[i], cpu[p])
                    /\ \A i, j \in DOMAIN mmaps :
                         i # j /\ mmaps[i].gpu_va # 0 /\ mmaps[j].gpu_va # 0
                           => Span(mmaps[i].gpu_va, mmaps[i].length)
                                \cap Span(mmaps[j].gpu_va, mmaps[j].length) = {}
  BY DEF RecordsCurrent
<1>1. mmaps \in Seq(MappedMemories) /\ Mirrors(mmaps) /\ DOMAIN mmaps = 1..Len(mmaps)
  BY QuietMirrors DEF TypeOK
<1>2. \A i \in 1..Len(mmaps) : /\ mmaps[i].addr \in Pages
                               /\ cpu[mmaps[i].addr] \in Live
                               /\ Describes(mmaps[i], cpu[mmaps[i].addr])
  BY <1>1, RecordOf
<1>3. ASSUME NEW i \in DOMAIN mmaps, NEW p \in Span(mmaps[i].addr, mmaps[i].length)
      PROVE  p \in Pages /\ cpu[p].traced /\ Describes(mmaps[i], cpu[p])
  <2>1. PICK a, q : a = mmaps[i].addr /\ q = cpu[a]
    OBVIOUS
  <2>2. a \in Pages /\ q \in Live /\ Describes(mmaps[i], q)
    BY <1>1, <1>2, <2>1
  <2>3. q.traced /\ q # NoMap
    BY <2>2 DEF Live, NoMap
  <2>4. /\ Span(q.addr, q.length) \subseteq Pages
        /\ \A r \in Span(q.addr, q.length) : cpu[r] = q
    BY <2>1, <2>2, <2>3 DEF PagesInv, Whole
  <2>5. p \in Span(q.addr, q.length)
    BY <2>2 DEF Describes
  <2>6. p \in Pages /\ cpu[p] = q
    BY <2>4, <2>5
  <2> QED BY <2>2, <2>3, <2>6
<1>4. ASSUME NEW i \in DOMAIN mmaps, NEW j \in DOMAIN mmaps, i # j,
             mmaps[i].gpu_va # 0, mmaps[j].gpu_va # 0,
             NEW g \in Span(mmaps[i].gpu_va, mmaps[i].length),
             g \in Span(mmaps[j].gpu_va, mmaps[j].length)
      PROVE  FALSE
  <2>1. PICK m, q : m = cpu[mmaps[i].addr] /\ q = cpu[mmaps[j].addr]
    OBVIOUS
  <2>2. /\ m \in Live /\ Describes(mmaps[i], m)
        /\ q \in Live /\ Describes(mmaps[j], q)
    BY <1>1, <1>2, <2>1
  <2>3. /\ m.gpu_va = mmaps[i].gpu_va /\ m.length = mmaps[i].length
        /\ q.gpu_va = mmaps[j].gpu_va /\ q.length = mmaps[j].length
    BY <1>4, <2>2 DEF Describes
  <2>4. /\ mmaps[i].gpu_va \in Nat /\ mmaps[i].length \in Nat
        /\ mmaps[j].gpu_va \in Nat /\ mmaps[j].length \in Nat
    <3>1. mmaps[i] \in MappedMemories /\ mmaps[j] \in MappedMemories
      BY <1>1
    <3> QED BY <3>1 DEF MappedMemories
  <2>5. /\ g \in Nat /\ m.gpu_va <= g /\ g < m.gpu_va + m.length
        /\ q.gpu_va <= g /\ g < q.gpu_va + q.length
    BY <1>4, <2>3, <2>4, InSpan
  <2>6. m = q
    BY <1>4, <2>2, <2>3, <2>5, ShownOnce
  <2>7. mmaps[i].addr = mmaps[j].addr
    BY <2>2, <2>6 DEF Describes
  <2> QED BY <1>1, <1>4, <2>7 DEF Mirrors, Once
<1>5. ASSUME NEW i \in DOMAIN mmaps, NEW j \in DOMAIN mmaps,
             i # j, mmaps[i].gpu_va # 0, mmaps[j].gpu_va # 0
      PROVE  Span(mmaps[i].gpu_va, mmaps[i].length)
               \cap Span(mmaps[j].gpu_va, mmaps[j].length) = {}
  BY <1>4, <1>5
<1> QED BY <1>3, <1>5

-----------------------------------------------------------------------------
(***************************************************************************)
(* The inductive invariant, layer by layer, and what it says of a program  *)
(* that behaves.                                                           *)
(***************************************************************************)
World ==
    /\ TypeOK /\ LockInv /\ FrameShape /\ MaliFdInv /\ DeviceInv
    /\ Descriptors /\ RegionsInv /\ PagesInv /\ GpuInv /\ MirrorInv

LEMMA WorldInv == Spec => []World
<1>1. Init => World
  BY TypeInit, LockInit, FrameInit, MaliFdInit, DeviceInit, DescriptorsInit,
     RegionsInit, PagesInit, GpuInit, MirrorInit DEF World
<1>2. World /\ [Next]_vars => World'
  <2> SUFFICES ASSUME World, [Next]_vars PROVE World'
    OBVIOUS
  <2>1. /\ TypeOK /\ LockInv /\ FrameShape /\ MaliFdInv /\ DeviceInv
        /\ Descriptors /\ RegionsInv /\ PagesInv /\ GpuInv /\ MirrorInv
    BY DEF World
  <2>2. TypeOK' /\ LockInv' /\ FrameShape' /\ MaliFdInv' /\ DeviceInv'
    BY <2>1, TypeNext, LockNext, FrameNext, MaliFdNext, DeviceNext
  <2>3. Descriptors' /\ RegionsInv' /\ PagesInv'
    BY <2>1, DescriptorsNext, RegionsNext, PagesNext
  <2>4. GpuInv' /\ MirrorInv'
    BY <2>1, GpuNext, MirrorNext
  <2> QED BY <2>2, <2>3, <2>4 DEF World
<1> QED BY <1>1, <1>2, PTL DEF Spec

(***************************************************************************)
(* Whenever no mmap or munmap is between its system call and its record,   *)
(* the list mmaps is exactly the set of the live mappings of a disciplined *)
(* program's GPU memory, however its threads interleave, and the first     *)
(* mapping of each allocation that panwrap decoded carries the address the *)
(* GPU has for it.                                                         *)
(***************************************************************************)
THEOREM MmapsAlwaysMirror == Spec => []MmapsMirrorKernel
<1>1. World => MmapsMirrorKernel
  BY MirrorCount DEF World
<1> QED BY <1>1, WorldInv, PTL

(***************************************************************************)
(* A pointer that fetch_mapped_gpu hands out can be read for the size      *)
(* asked for, and shows the GPU memory asked for.                          *)
(***************************************************************************)
THEOREM FetchAlwaysSound == Spec => []FetchSound
<1>1. World => FetchSound
  BY FetchIsSound DEF World
<1> QED BY <1>1, WorldInv, PTL

(***************************************************************************)
(* fetch_mapped_gpu finds the memory of each mapped allocation, at every   *)
(* address where no recorded mapping ends.                                 *)
(***************************************************************************)
THEOREM FetchCompleteInside == Spec => []FetchCompleteInterior
<1>1. World => FetchCompleteInterior
  BY FetchIsComplete DEF World
<1> QED BY <1>1, WorldInv, PTL

(***************************************************************************)
(* What the decoder of ChainTrace takes for granted of the records: while  *)
(* no mmap or munmap is half done, each page of a record is mapped and is  *)
(* the one recorded, so no pointer of a disciplined program's GPU memory   *)
(* is read through a stale record, and no GPU address is in two records.   *)
(***************************************************************************)
THEOREM RecordsAlwaysCurrent == Spec => []RecordsCurrent
<1>1. World => RecordsCurrent
  BY RecordsAreCurrent DEF World
<1> QED BY <1>1, WorldInv, PTL
=============================================================================
