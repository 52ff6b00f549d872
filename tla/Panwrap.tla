------------------------------ MODULE Panwrap ------------------------------
(***************************************************************************)
(* The tracker of panwrap/panwrap-syscall.c: the libc wrappers open,       *)
(* close, ioctl, mmap and munmap that panwrap preloads into a traced       *)
(* program, and the state they share, the descriptor of /dev/mali0 and the *)
(* lists of GPU allocations and of CPU mappings.                           *)
(*                                                                         *)
(* Every thread of the program may be inside one wrapper.  pc[t] says      *)
(* where: "app" outside, otherwise <call>_<what comes next>.  A step runs  *)
(* to the next point where another thread or the kernel can interfere: a   *)
(* system call, the mutex l, or a load of mali_fd outside the mutex.       *)
(* Statements that hold the mutex and touch only what it protects share a  *)
(* step.                                                                   *)
(*                                                                         *)
(* The kernel is external: fds, regions and cpu are what it keeps.  With   *)
(* Disciplined = TRUE the traced program behaves as a well written driver  *)
(* does (one GPU device open at a time, whole mappings unmapped, no object *)
(* used while another thread destroys it, no mmap that fails); FALSE lets  *)
(* it map over, unmap part of or several mappings, close a descriptor in   *)
(* use, open the device twice and see mmap fail.                           *)
(***************************************************************************)
EXTENDS MappedMemory

CONSTANTS
    Threads,          \* threads of the traced program
    NoThread,         \* the mutex has no owner
    Fds,              \* file descriptors, 0 among them
    Pages,            \* CPU page addresses the kernel hands out
    GpuVAs,           \* GPU page addresses of regions that are not SAME_VA
    Cookies,          \* mmap offsets the kernel hands out for SAME_VA regions
    TrackingHandle,   \* an mmap offset of the device that maps no region
    MapFailed,        \* MAP_FAILED, the address at the top of the space
    Asked,            \* the ioctl requests the program makes
    Lens,             \* lengths of regions, mappings and fetches, in pages
    MaxMaps,          \* bound on the mappings recorded
    MaxAllocs,        \* bound on the allocations recorded
    Disciplined,      \* how the traced program behaves
    EnableTimestamps  \* PANWRAP_ENABLE_TIMESTAMPS

Requests == {"MEM_ALLOC", "MEM_IMPORT", "MEM_COMMIT", "MEM_FREE",
             "OTHER",                    \* requests that keep no state
             "NOARG"}                    \* no argument: nothing to decode

(***************************************************************************)
(* The address zones are disjoint and start above every length, as the     *)
(* kernel lays them out: a mapping recorded with gpu_va 0 covers none.     *)
(***************************************************************************)
ASSUME ThreadsAssumption == NoThread \notin Threads
ASSUME BoundsAssumption ==
    /\ Fds \subseteq Nat /\ 0 \in Fds
    /\ Asked \subseteq Requests
    /\ Lens \subseteq Nat \ {0}
    /\ MaxMaps \in Nat /\ MaxAllocs \in Nat
    /\ Disciplined \in BOOLEAN /\ EnableTimestamps \in BOOLEAN
ASSUME ZonesAssumption ==
    /\ Pages \cup GpuVAs \cup Cookies \cup {TrackingHandle, MapFailed}
         \subseteq Nat \ {0}
    /\ \A a \in Pages \cup GpuVAs \cup Cookies \cup {TrackingHandle} :
         a < MapFailed /\ \A n \in Lens : n < a
    /\ Pages \cap GpuVAs = {} /\ Cookies \cap (Pages \cup GpuVAs) = {}
    /\ TrackingHandle \notin Pages \cup GpuVAs \cup Cookies

VARIABLES
    lock,            \* owner of the mutex l, or NoThread
    mali_fd,         \* the descriptor of /dev/mali0, 0 when there is none
    allocations,     \* GPU allocations seen and not mapped yet, newest first
    mmaps,           \* mappings of the GPU's memory, newest first
    time_is_frozen,  \* the timestamps of the log stand still
    pc, frame,       \* per thread: position in a wrapper, its arguments
    fds,             \* kernel: what each descriptor is open on
    regions,         \* kernel: GPU regions that a descriptor can map
    cpu              \* kernel: the mapping at each page

tracker == <<mali_fd, allocations, mmaps>>
kernel  == <<fds, regions, cpu>>
vars    == <<lock, tracker, time_is_frozen, pc, frame, kernel>>

-----------------------------------------------------------------------------
NoFd == -1                               \* mmap of anonymous memory
Offsets == GpuVAs \cup Cookies \cup {TrackingHandle, 0}
Labels  == {"app", "open_rec", "close_sys",
            "ioctl_pass", "ioctl_lock", "ioctl_pre", "ioctl_sys", "ioctl_post",
            "mmap_pass", "mmap_lock", "mmap_rec", "munmap_rec"}

AllocatedMemory == [gpu_va : Nat, same_va : BOOLEAN]
MappedMemories  == [addr : Nat, length : Nat, gpu_va : Nat]

\* Arguments and results of the call a thread is in.  gpu is the gpu_va (or
\* gpu_addr) field of an ioctl's argument, and the offset of an mmap.
Frames == [fd : Fds \cup {NoFd}, req : Requests \cup {"none"}, gpu : Nat,
           length : Nat, same_va : BOOLEAN, addr : Nat]
NoFrame == [fd |-> NoFd, req |-> "none", gpu |-> 0, length |-> 0,
            same_va |-> FALSE, addr |-> 0]

\* due: the region came from an ioctl that panwrap decoded as MEM_ALLOC, and
\* no mmap has used it; traced: panwrap made the mapping while it held l.
Regions  == [ctx : Fds, va : Nat, length : Nat, due : BOOLEAN]
Mappings == [addr : Nat, length : Nat, gpu_va : Nat,
             traced : BOOLEAN, due : BOOLEAN]
NoMap == [addr |-> 0, length |-> 0, gpu_va |-> 0,
          traced |-> FALSE, due |-> FALSE]

TypeOK ==
    /\ lock \in Threads \cup {NoThread}
    /\ mali_fd \in Fds
    /\ allocations \in Seq(AllocatedMemory)
    /\ mmaps \in Seq(MappedMemories)
    /\ time_is_frozen \in BOOLEAN
    /\ pc \in [Threads -> Labels]
    /\ frame \in [Threads -> Frames]
    /\ fds \in [Fds -> {"free", "mali", "other"}]
    /\ regions \subseteq Regions
    /\ cpu \in [Pages -> Mappings]

\* 0 is the standard input of the program; nothing else is open.
Init ==
    /\ lock = NoThread
    /\ mali_fd = 0
    /\ allocations = <<>>
    /\ mmaps = <<>>
    /\ time_is_frozen = FALSE
    /\ pc = [t \in Threads |-> "app"]
    /\ frame = [t \in Threads |-> NoFrame]
    /\ fds = [fd \in Fds |-> IF fd = 0 THEN "other" ELSE "free"]
    /\ regions = {}
    /\ cpu = [p \in Pages |-> NoMap]

-----------------------------------------------------------------------------
(***************************************************************************)
(* The kernel, and what the program may ask of it.                         *)
(***************************************************************************)
Span(a, n) == a..(a + n - 1)
RegionSpan(va, n) == IF va \in Cookies THEN {va} ELSE Span(va, n)
IsMali(fd) == fd \in Fds /\ fds[fd] = "mali"

\* A program uses a descriptor once open has returned it and until it calls
\* close on it.
Usable == {fd \in Fds : /\ fds[fd] # "free"
                        /\ \A t \in Threads : frame[t].fd = fd =>
                             pc[t] \notin {"open_rec", "close_sys"}}

\* What other calls in progress refer to.
InUse(fd)  == \E t \in Threads : frame[t].fd = fd
Busy(gpu)  == \E t \in Threads : frame[t].gpu = gpu
Freeing(gpu) == \E t \in Threads :
    frame[t].gpu = gpu /\ frame[t].req = "MEM_FREE"
Wanted(p)  == \E t \in Threads : frame[t].addr <= p
                              /\ p < frame[t].addr + frame[t].length
Mapped(gpu) == \E p \in Pages : cpu[p].gpu_va = gpu

\* MEM_ALLOC and MEM_IMPORT choose a free range of the address space of the
\* descriptor, or one of the mmap offsets that stand for SAME_VA regions.
FreshRange(f, gpu) ==
    /\ gpu \in (IF f.same_va THEN Cookies ELSE GpuVAs)
    /\ RegionSpan(gpu, f.length) \subseteq GpuVAs \cup Cookies
    /\ \A r \in regions : r.ctx = f.fd =>
         RegionSpan(r.va, r.length) \cap RegionSpan(gpu, f.length) = {}

\* The system call of ioctl: it may fail, and then changes nothing.  gpu is
\* the gpu_va field of the argument when it returns.
KernelIoctl(f, traced, gpu) ==
    \/ /\ f.req \in {"MEM_ALLOC", "MEM_IMPORT"} /\ IsMali(f.fd)
       /\ FreshRange(f, gpu)
       /\ regions' = regions \cup
            {[ctx |-> f.fd, va |-> gpu, length |-> f.length,
              due |-> traced /\ f.req = "MEM_ALLOC"]}
    \/ /\ f.req = "MEM_FREE"
       /\ gpu = f.gpu
       /\ regions' = {r \in regions : ~(r.ctx = f.fd /\ r.va = gpu)}
    \/ /\ f.req # "MEM_FREE"
       /\ gpu = f.gpu
       /\ UNCHANGED regions

\* The system call of mmap returns ret.  The offset selects the region; one
\* with SAME_VA is seen by the GPU at the address of its only mapping.
KernelMmap(f, traced, ret) ==
    LET found == {r \in regions : /\ r.ctx = f.fd /\ r.va = f.gpu
                                  /\ f.length <= r.length}
        Place(gpu_va, due) ==
            cpu' = [p \in Pages |-> IF p \in Span(f.addr, f.length)
                      THEN [addr |-> f.addr, length |-> f.length,
                            gpu_va |-> gpu_va, traced |-> traced, due |-> due]
                      ELSE cpu[p]]
    IN  \/ \E r \in found :
             /\ ret = f.addr
             /\ Place(IF r.va \in Cookies THEN ret ELSE r.va, traced /\ r.due)
             /\ regions' = (regions \ {r}) \cup
                  (IF r.va \in Cookies THEN {} ELSE {[r EXCEPT !.due = FALSE]})
        \/ /\ ~IsMali(f.fd) \/ f.gpu = TrackingHandle
           /\ ret = f.addr
           /\ Place(0, FALSE)
           /\ UNCHANGED regions
        \/ /\ ~Disciplined \/ (IsMali(f.fd) /\ found = {} /\ f.gpu # TrackingHandle)
           /\ ret = MapFailed
           /\ UNCHANGED <<regions, cpu>>

\* The arguments an ioctl on fd can have: MEM_ALLOC and MEM_IMPORT pass a size
\* and flags, MEM_FREE and MEM_COMMIT the address of a region it knows.
IoctlArg(fd, req, gpu, n, same) ==
    [fd |-> fd, req |-> req, gpu |-> gpu, length |-> n, same_va |-> same,
     addr |-> 0]
KnownVAs(fd) == {r.va : r \in {s \in regions : s.ctx = fd}}
                  \cup ({cpu[p].gpu_va : p \in Pages} \ {0})
Arguments(fd, known) ==
    {IoctlArg(fd, req, 0, n, same) :
        req \in {"MEM_ALLOC", "MEM_IMPORT"}, n \in Lens, same \in BOOLEAN}
    \cup {IoctlArg(fd, req, gpu, 0, FALSE) :
            req \in {"MEM_FREE", "MEM_COMMIT"}, gpu \in known}
    \cup {IoctlArg(fd, req, 0, 0, FALSE) : req \in {"OTHER", "NOARG"}}

\* A disciplined program opens the device once at a time, ...
MayOpen(fd, kind) ==
    Disciplined => fd # 0 /\ (kind = "mali" => \A g \in Fds : fds[g] # "mali")
\* ... closes it when nothing uses it and nothing of it is mapped, ...
MayClose(fd) ==
    Disciplined => /\ fd # 0 /\ ~InUse(fd)
                   /\ fds[fd] = "mali" => \A p \in Pages : cpu[p].gpu_va = 0
\* ... frees a region that is neither in use nor mapped, commits one at the
\* address the GPU has for it, ...
MayIoctl(f) ==
    Disciplined =>
      CASE f.req = "MEM_FREE"   -> ~Busy(f.gpu) /\ ~Mapped(f.gpu)
        [] f.req = "MEM_COMMIT" -> f.gpu \notin Cookies /\ ~Freeing(f.gpu)
        [] OTHER -> TRUE
\* ... and maps a whole region, once, into pages that are free.
MayMmap(f) ==
    /\ Span(f.addr, f.length) \subseteq Pages
    /\ ~IsMali(f.fd) => f.gpu = 0
    /\ Disciplined =>
         /\ \A p \in Span(f.addr, f.length) : cpu[p] = NoMap /\ ~Wanted(p)
         /\ IsMali(f.fd) =>
              \/ f.gpu = TrackingHandle
              \/ /\ \E r \in regions : /\ r.ctx = f.fd /\ r.va = f.gpu
                                       /\ r.length = f.length
                 /\ ~Busy(f.gpu) /\ ~Mapped(f.gpu)
MayMunmap(addr, length) ==
    /\ Span(addr, length) \subseteq Pages
    /\ Disciplined => /\ cpu[addr] # NoMap
                      /\ cpu[addr].addr = addr /\ cpu[addr].length = length

\* The lists of the tracker stay within the bounds of the model.
RoomForMap ==
    Len(mmaps) + Cardinality({t \in Threads : pc[t] \in {"mmap_lock", "mmap_rec"}})
      < MaxMaps
RoomForAllocation ==
    Len(allocations)
      + Cardinality({t \in Threads : frame[t].req \in {"MEM_ALLOC", "MEM_COMMIT"}})
      < MaxAllocs

-----------------------------------------------------------------------------
Call(t, label, f) ==
    /\ pc' = [pc EXCEPT ![t] = label]
    /\ frame' = [frame EXCEPT ![t] = f]
Goto(t, label) == Call(t, label, frame[t])
Return(t) == Call(t, "app", NoFrame)

LOCK(t) == lock = NoThread /\ lock' = t
UNLOCK  == lock' = NoThread
panwrap_freeze_time   == time_is_frozen' = EnableTimestamps
panwrap_unfreeze_time == time_is_frozen' = FALSE

(***************************************************************************)
(* panwrap_open_wrap (open, open64): the system call comes first, the      *)
(* record of its result under the mutex.  NoFd stands for the -1 of an     *)
(* open of /dev/mali0 that failed.                                         *)
(***************************************************************************)
OpenSys(t) ==
    /\ pc[t] = "app"
    /\ \/ \E fd \in Fds, kind \in {"mali", "other"} :
            /\ fds[fd] = "free" /\ \A g \in Fds : fds[g] = "free" => fd <= g
            /\ MayOpen(fd, kind)
            /\ fds' = [fds EXCEPT ![fd] = kind]
            /\ Call(t, "open_rec", [NoFrame EXCEPT !.fd = fd])
       \/ /\ Call(t, "open_rec", NoFrame)
          /\ UNCHANGED fds
    /\ UNCHANGED <<lock, tracker, time_is_frozen, regions, cpu>>

\* Mutant: the result of the system call is not compared with -1.
OpenRecordUnchecked(t) ==
    /\ pc[t] = "open_rec"
    /\ lock = NoThread
    /\ mali_fd' = IF frame[t].fd = NoFd \/ IsMali(frame[t].fd)
                    THEN frame[t].fd ELSE mali_fd
    /\ Return(t)
    /\ UNCHANGED <<lock, allocations, mmaps, time_is_frozen, kernel>>

OpenRecord(t) ==
    /\ pc[t] = "open_rec"
    /\ lock = NoThread
    /\ mali_fd' = IF IsMali(frame[t].fd) THEN frame[t].fd ELSE mali_fd
    /\ Return(t)
    /\ UNCHANGED <<lock, allocations, mmaps, time_is_frozen, kernel>>

\* Mutant: close forgets the device whichever descriptor is closed.
CloseResetAny(t) ==
    /\ pc[t] = "app"
    /\ lock = NoThread
    /\ \E fd \in Usable :
         /\ MayClose(fd)
         /\ mali_fd' = IF fd > 0 THEN 0 ELSE mali_fd
         /\ Call(t, "close_sys", [NoFrame EXCEPT !.fd = fd])
    /\ UNCHANGED <<lock, allocations, mmaps, time_is_frozen, kernel>>

\* Mutant: close leaves the descriptor recorded.
CloseResetNever(t) ==
    /\ pc[t] = "app"
    /\ lock = NoThread
    /\ \E fd \in Usable :
         /\ MayClose(fd)
         /\ Call(t, "close_sys", [NoFrame EXCEPT !.fd = fd])
    /\ UNCHANGED <<lock, tracker, time_is_frozen, kernel>>

\* close: forgets the descriptor under the mutex, then closes it.
CloseReset(t) ==
    /\ pc[t] = "app"
    /\ lock = NoThread
    /\ \E fd \in Usable :
         /\ MayClose(fd)
         /\ mali_fd' = IF fd > 0 /\ fd = mali_fd THEN 0 ELSE mali_fd
         /\ Call(t, "close_sys", [NoFrame EXCEPT !.fd = fd])
    /\ UNCHANGED <<lock, allocations, mmaps, time_is_frozen, kernel>>

CloseSys(t) ==
    /\ pc[t] = "close_sys"
    /\ fds' = [fds EXCEPT ![frame[t].fd] = "free"]
    /\ regions' = {r \in regions : r.ctx # frame[t].fd}
    /\ Return(t)
    /\ UNCHANGED <<lock, tracker, time_is_frozen, cpu>>

(***************************************************************************)
(* ioctl: the test of mali_fd is outside the mutex.  Descriptor 0 passes   *)
(* it too.  On the device's side of it the mutex is held over the system   *)
(* call, and time runs during the system call only.                        *)
(***************************************************************************)
IoctlCall(t) ==
    /\ pc[t] = "app"
    /\ \E fd \in Usable : \E f \in Arguments(fd, KnownVAs(fd)) :
         /\ f.req \in (IF IsMali(fd) THEN Asked ELSE Asked \cap {"OTHER", "NOARG"})
         /\ MayIoctl(f)
         /\ f.req \in {"MEM_ALLOC", "MEM_COMMIT"} => RoomForAllocation
         /\ Call(t, IF fd # 0 /\ fd # mali_fd THEN "ioctl_pass" ELSE "ioctl_lock", f)
    /\ UNCHANGED <<lock, tracker, time_is_frozen, kernel>>

IoctlPass(t) ==
    /\ pc[t] = "ioctl_pass"
    /\ \E gpu \in Offsets \cup Pages : KernelIoctl(frame[t], FALSE, gpu)
    /\ Return(t)
    /\ UNCHANGED <<lock, tracker, time_is_frozen, fds, cpu>>

IoctlLock(t) ==
    /\ pc[t] = "ioctl_lock"
    /\ LOCK(t)
    /\ panwrap_freeze_time
    /\ Goto(t, "ioctl_pre")
    /\ UNCHANGED <<tracker, kernel>>

\* ioctl_decode_pre logs the arguments and keeps nothing.  For JOB_SUBMIT it
\* follows the program's chains of jobs (JobSubmit): it is done when the step is
\* taken, and no fairness says that it is, however long the chain.  If it takes
\* the program down nothing happens any more.
IoctlPre(t) ==
    /\ pc[t] = "ioctl_pre"
    /\ panwrap_unfreeze_time
    /\ Goto(t, "ioctl_sys")
    /\ UNCHANGED <<lock, tracker, kernel>>

IoctlSys(t) ==
    /\ pc[t] = "ioctl_sys"
    /\ \E gpu \in Offsets \cup Pages :
         /\ KernelIoctl(frame[t], TRUE, gpu)
         /\ Call(t, "ioctl_post", [frame[t] EXCEPT !.gpu = gpu])
    /\ panwrap_freeze_time
    /\ UNCHANGED <<lock, tracker, fds, cpu>>

\* Mutant: the flag is not kept.
post_mem_alloc_plain(f) == [gpu_va |-> f.gpu, same_va |-> FALSE]

\* What ioctl_decode_post adds to the allocations, whatever the system call
\* returned: MEM_ALLOC and MEM_COMMIT leave one to be mapped, no other request
\* does.
post_mem_alloc(f)  == [gpu_va |-> f.gpu, same_va |-> f.same_va]
post_mem_commit(f) == [gpu_va |-> f.gpu, same_va |-> FALSE]
DecodePost(f) ==
    allocations' =
        CASE f.req = "MEM_ALLOC"  -> Cons(post_mem_alloc(f), allocations)
          [] f.req = "MEM_COMMIT" -> Cons(post_mem_commit(f), allocations)
          [] OTHER -> allocations

IoctlPost(t) ==
    /\ pc[t] = "ioctl_post"
    /\ DecodePost(frame[t])
    /\ panwrap_unfreeze_time
    /\ UNLOCK
    /\ Return(t)
    /\ UNCHANGED <<mali_fd, mmaps, kernel>>

(***************************************************************************)
(* panwrap_mmap_wrap (mmap, mmap64): the test of mali_fd is outside the    *)
(* mutex (the two loads of it are one in the build), the system call under *)
(* it.  The offset finds the newest allocation of that GPU address, which  *)
(* is used up.                                                             *)
(***************************************************************************)
MmapCall(t) ==
    /\ pc[t] = "app"
    /\ \E fd \in Usable \cup {NoFd}, gpu \in Offsets, n \in Lens, a \in Pages :
         LET f == [fd |-> fd, req |-> "none", gpu |-> gpu, length |-> n,
                   same_va |-> FALSE, addr |-> a]
         IN  /\ MayMmap(f)
             /\ RoomForMap
             /\ Call(t, IF mali_fd = 0 \/ fd # mali_fd THEN "mmap_pass"
                                                       ELSE "mmap_lock", f)
    /\ UNCHANGED <<lock, tracker, time_is_frozen, kernel>>

MmapPass(t) ==
    /\ pc[t] = "mmap_pass"
    /\ \E ret \in Pages \cup {MapFailed} : KernelMmap(frame[t], FALSE, ret)
    /\ Return(t)
    /\ UNCHANGED <<lock, tracker, time_is_frozen, fds>>

MmapSys(t) ==
    /\ pc[t] = "mmap_lock"
    /\ LOCK(t)
    /\ \E ret \in Pages \cup {MapFailed} :
         /\ KernelMmap(frame[t], TRUE, ret)
         /\ Call(t, "mmap_rec", [frame[t] EXCEPT !.addr = ret])
    /\ panwrap_freeze_time
    /\ UNCHANGED <<tracker, fds>>

FindAllocation(offset) ==
    SelectInSeq(allocations, LAMBDA a : a.gpu_va = offset)

\* Mutant: list_add_tail instead of list_add.
MmapRecordTail(t) ==
    /\ pc[t] = "mmap_rec"
    /\ LET f == frame[t]
           i == FindAllocation(f.gpu)
           gpu_va == IF i = 0 THEN 0
                     ELSE IF allocations[i].same_va THEN f.addr ELSE f.gpu
       IN  /\ allocations' = IF i = 0 THEN allocations
                                      ELSE RemoveAt(allocations, i)
           /\ mmaps' = Append(mmaps, [addr |-> f.addr, length |-> f.length,
                                      gpu_va |-> gpu_va])
    /\ panwrap_unfreeze_time
    /\ UNLOCK
    /\ Return(t)
    /\ UNCHANGED <<mali_fd, kernel>>

MmapRecord(t) ==
    /\ pc[t] = "mmap_rec"
    /\ LET f == frame[t]
           i == FindAllocation(f.gpu)
           gpu_va == IF i = 0 THEN 0
                     ELSE IF allocations[i].same_va THEN f.addr ELSE f.gpu
       IN  /\ allocations' = IF i = 0 THEN allocations
                                      ELSE RemoveAt(allocations, i)
           /\ mmaps' = Cons([addr |-> f.addr, length |-> f.length,
                             gpu_va |-> gpu_va], mmaps)
    /\ panwrap_unfreeze_time
    /\ UNLOCK
    /\ Return(t)
    /\ UNCHANGED <<mali_fd, kernel>>

(***************************************************************************)
(* munmap: the system call under the mutex, then the newest record that    *)
(* starts at the address goes, whatever was unmapped.                      *)
(***************************************************************************)
\* Mutant: the system call comes before the mutex is taken.
MunmapSysUnlocked(t) ==
    /\ pc[t] = "app"
    /\ \E a \in Pages, n \in Lens :
         /\ MayMunmap(a, n)
         /\ cpu' = [p \in Pages |-> IF p \in Span(a, n) THEN NoMap ELSE cpu[p]]
         /\ Call(t, "munmap_rec", [NoFrame EXCEPT !.addr = a])
    /\ UNCHANGED <<lock, time_is_frozen, tracker, fds, regions>>

MunmapSys(t) ==
    /\ pc[t] = "app"
    /\ LOCK(t)
    /\ \E a \in Pages, n \in Lens :
         /\ MayMunmap(a, n)
         /\ cpu' = [p \in Pages |-> IF p \in Span(a, n) THEN NoMap ELSE cpu[p]]
         /\ Call(t, "munmap_rec", [NoFrame EXCEPT !.addr = a])
    /\ panwrap_freeze_time
    /\ UNCHANGED <<tracker, fds, regions>>

\* Mutants: an address that no record has returns early, without
\* panwrap_unfreeze_time or without UNLOCK.
MunmapRecordFrozen(t) ==
    /\ pc[t] = "munmap_rec"
    /\ LET i == FindMappedMem(mmaps, frame[t].addr)
       IN  /\ mmaps' = IF i = 0 THEN mmaps ELSE RemoveAt(mmaps, i)
           /\ time_is_frozen' = (i = 0 /\ time_is_frozen)
    /\ UNLOCK
    /\ Return(t)
    /\ UNCHANGED <<mali_fd, allocations, kernel>>

MunmapRecordLocked(t) ==
    /\ pc[t] = "munmap_rec"
    /\ LET i == FindMappedMem(mmaps, frame[t].addr)
       IN  /\ mmaps' = IF i = 0 THEN mmaps ELSE RemoveAt(mmaps, i)
           /\ lock' = IF i = 0 THEN lock ELSE NoThread
    /\ panwrap_unfreeze_time
    /\ Return(t)
    /\ UNCHANGED <<mali_fd, allocations, kernel>>

MunmapRecord(t) ==
    /\ pc[t] = "munmap_rec"
    /\ LET i == FindMappedMem(mmaps, frame[t].addr)
       IN  mmaps' = IF i = 0 THEN mmaps ELSE RemoveAt(mmaps, i)
    /\ panwrap_unfreeze_time
    /\ UNLOCK
    /\ Return(t)
    /\ UNCHANGED <<mali_fd, allocations, kernel>>

-----------------------------------------------------------------------------
\* The steps that begin a call are the program's; the others finish it.
Begin(t) ==
    OpenSys(t) \/ CloseReset(t) \/ IoctlCall(t) \/ MmapCall(t) \/ MunmapSys(t)
Continue(t) ==
    \/ OpenRecord(t) \/ CloseSys(t)
    \/ IoctlPass(t) \/ IoctlLock(t) \/ IoctlPre(t) \/ IoctlSys(t) \/ IoctlPost(t)
    \/ MmapPass(t) \/ MmapSys(t) \/ MmapRecord(t)
    \/ MunmapRecord(t)

Next == \E t \in Threads : Begin(t) \/ Continue(t)
Spec == Init /\ [][Next]_vars

\* A thread inside a wrapper is scheduled, and the system calls it makes
\* return.  Nothing makes the program begin a call, nothing makes the decoding
\* before an ioctl end, and nothing makes the mutex fair.
Decoding(t) == pc[t] = "ioctl_pre"
FairSpec == Spec /\ \A t \in Threads : WF_vars(~Decoding(t) /\ Continue(t))

-----------------------------------------------------------------------------
(***************************************************************************)
(* Properties.                                                             *)
(***************************************************************************)
\* A moment when the lists can be read: the mutex is free, or its owner is not
\* between a system call on mappings and its record.
Quiet == \/ lock = NoThread
         \/ \A t \in Threads : pc[t] \notin {"mmap_rec", "munmap_rec"}

\* The mappings of live pages that panwrap saw being made.
Live == {cpu[p] : p \in {q \in Pages : cpu[q].traced}}

\* Record e describes mapping m.  The first mapping of an allocation panwrap
\* decoded carries its GPU address; any other may be "unknown", gpu_va 0.
Describes(e, m) ==
    /\ e.addr = m.addr /\ e.length = m.length
    /\ e.gpu_va \in (IF m.due THEN {m.gpu_va} ELSE {0, m.gpu_va})

\* Page p of the CPU shows page gpu of the GPU.
Shows(p, gpu) ==
    /\ p \in Pages
    /\ cpu[p].gpu_va # 0
    /\ gpu - cpu[p].gpu_va = p - cpu[p].addr

(***************************************************************************)
(* Whenever the mutex is free, and all along an ioctl, the list mmaps is   *)
(* exactly the set of live mappings of the GPU: none is missing, none is   *)
(* stale, none is recorded twice, and the first mapping of an allocation   *)
(* is recorded at the GPU address it shows.  This is what mmap and munmap  *)
(* holding the mutex over the system call and its record, and ioctl over   *)
(* the system call and ioctl_decode_post, are for.                         *)
(***************************************************************************)
MmapsMirrorKernel ==
    Disciplined /\ Quiet =>
      /\ Len(mmaps) = Cardinality(Live)
      /\ \A m \in Live : \E i \in DOMAIN mmaps : Describes(mmaps[i], m)

(***************************************************************************)
(* A pointer that fetch_mapped_gpu hands to the decoder can be read for    *)
(* the size asked for, and what it points to is the GPU memory asked for.  *)
(***************************************************************************)
FetchSound ==
    Disciplined /\ Quiet =>
      \A gpu \in GpuVAs \cup Pages, n \in Lens :
        \A a \in FetchMappedGpu(mmaps, gpu, n) :
          \A k \in 0..(n - 1) : Shows(a + k, gpu + k)

(***************************************************************************)
(* What the decoder takes for granted of the records while a program       *)
(* behaves: each page of a record is still there and is the one that was   *)
(* recorded, and no GPU address is in two records, so the search cannot    *)
(* find the wrong one.                                                     *)
(***************************************************************************)
RecordsCurrent ==
    Disciplined /\ Quiet =>
      /\ \A i \in DOMAIN mmaps :
           \A p \in Span(mmaps[i].addr, mmaps[i].length) :
             p \in Pages /\ cpu[p].traced /\ Describes(mmaps[i], cpu[p])
      /\ \A i, j \in DOMAIN mmaps :
           i # j /\ mmaps[i].gpu_va # 0 /\ mmaps[j].gpu_va # 0
             => Span(mmaps[i].gpu_va, mmaps[i].length)
                  \cap Span(mmaps[j].gpu_va, mmaps[j].length) = {}

\* The GPU pages that a live mapping of a decoded allocation shows.
Fetchable(gpu, n) ==
    \E m \in Live : /\ m.due
                    /\ m.gpu_va <= gpu /\ gpu + n <= m.gpu_va + m.length

(***************************************************************************)
(* fetch_mapped_gpu finds all GPU memory that is mapped: the sanity bounds *)
(* check refuses only what is out of bounds.  It is violated, see          *)
(* README.md: a mapping that ends where another begins can hide the first  *)
(* page of the other, since the search includes the end of a mapping.      *)
(***************************************************************************)
FetchComplete ==
    Disciplined /\ Quiet =>
      \A gpu \in GpuVAs \cup Pages, n \in Lens :
        Fetchable(gpu, n) => FetchMappedGpu(mmaps, gpu, n) # {}

(***************************************************************************)
(* That is the only way to miss: an address where no recorded mapping ends *)
(* is always found.                                                        *)
(***************************************************************************)
FetchCompleteInterior ==
    Disciplined /\ Quiet =>
      \A gpu \in GpuVAs \cup Pages, n \in Lens :
        /\ Fetchable(gpu, n)
        /\ \A i \in DOMAIN mmaps : gpu # mmaps[i].gpu_va + mmaps[i].length
        => FetchMappedGpu(mmaps, gpu, n) # {}

(***************************************************************************)
(* Even when the program maps over its mappings or unmaps parts of them,   *)
(* as long as the first page of a mapping is in place a search by CPU      *)
(* address finds its record from each page left of it, and never a record  *)
(* of what was there before: list_add puts the newest record first.  Only  *)
(* a record that ends at the page can come before it.                      *)
(***************************************************************************)
NewestMappingFound ==
    Quiet =>
      \A p \in Pages :
        LET m == cpu[p]
            i == FindMappedMemContaining(mmaps, p)
        IN  m.traced /\ cpu[m.addr] = m =>
              /\ i # 0
              /\ \/ mmaps[i].addr = m.addr /\ mmaps[i].length = m.length
                 \/ mmaps[i].addr + mmaps[i].length = p

(***************************************************************************)
(* mali_fd never names a descriptor that is closed or open on something    *)
(* else, however opens and closes interleave: ioctls on it are decoded as  *)
(* the GPU's.  It holds because close forgets the descriptor before the    *)
(* system call makes it available to another open.                         *)
(***************************************************************************)
MaliFdOpen == mali_fd # 0 => fds[mali_fd] = "mali"

(***************************************************************************)
(* A program that has one GPU device open at a time is traced throughout:  *)
(* each call it makes on the device meets a mali_fd that names it.         *)
(***************************************************************************)
DeviceTracked ==
    Disciplined => \A fd \in Usable : fds[fd] = "mali" => mali_fd = fd

(***************************************************************************)
(* The mutex is held exactly while some thread is between the lock and the *)
(* unlock of a wrapper, and that thread is its owner.                      *)
(***************************************************************************)
Holding == {"ioctl_pre", "ioctl_sys", "ioctl_post", "mmap_rec", "munmap_rec"}
LockInv == \A t \in Threads : lock = t <=> pc[t] \in Holding

(***************************************************************************)
(* Time stands still exactly while panwrap's own code runs with the mutex: *)
(* never during an ioctl's system call, never after a wrapper returned, on *)
(* whichever path it left.                                                 *)
(***************************************************************************)
FrozenInPanwrap ==
    time_is_frozen <=>
      /\ EnableTimestamps
      /\ lock # NoThread
      /\ pc[lock] # "ioctl_sys"

(***************************************************************************)
(* No wrapper keeps the mutex, on none of its paths, as long as system     *)
(* calls return and no decoding goes on for ever.  The latter is a premise *)
(* and not fairness: the decoder follows what the program made, with the   *)
(* mutex held, and JobSubmit says when it comes to its end.                *)
(***************************************************************************)
LockReleased ==
    (\A t \in Threads : []<>~Decoding(t)) => \A t \in Threads : lock = t ~> lock # t

=============================================================================
