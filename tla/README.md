# Verification of pantry

pantry is a reverse-engineering kit for the Mali GPU: a tracer that is preloaded
into a program that uses the vendor's driver (panwrap), the decoder the tracer
calls, and a small driver of its own (shim, allocator, job synthesis) with a
program that uses it.  This directory models the parts of it that keep state and
checks them with TLC and TLAPS.

## 1. Inventory

| Component | Source | State | Operations | Hard behaviour |
|---|---|---|---|---|
| libc wrappers, tracker | `panwrap/panwrap-syscall.c` | mutex `l`, `mali_fd`, lists `allocations` and `mmaps` | `open`, `close`, `ioctl`, `mmap`, `munmap` and their 64-bit twins | any number of threads; tests of `mali_fd` outside the mutex; mutex held over system calls; a record made after the system call it describes |
| lookups | `panwrap-syscall.c` 216-276 | none, they read `mmaps` | `find_mapped_mem*`, `find_gpu_mapped_mem`, `fetch_mapped_gpu` | overlapping, adjacent, unknown and stale records; inclusive bounds |
| log and timestamps | `panwrap/panwrap-util.c` 194-316 | `start_time`, `total_time_frozen`, `start_freeze_time`, `frozen_timestamp`, `time_is_frozen` | freeze, unfreeze, `timestamp_get`, `panwrap_log` | normalised arithmetic; every path must unfreeze |
| set-up of the tracer | `panwrap-util.c` 168-192, 318-373 | options, resolved libc functions | `PROLOG`, `panwrap_util_init` | constructor order |
| dumps and flags | `panwrap-util.c` 37-156 | none | `panwrap_log_decoded_flags`, `panwrap_log_hexdump(_trimmed)` | boundaries of the trimming |
| ioctl decoding | `panwrap-syscall.c` 278-879, `include/mali-ioctl.h` | none of its own | one printer per request | two unions per atom, pointers into the traced program |
| trace decoder | `decoder/trace.c` | none of its own, writes to vertices | `chai_trace_atom`, `chai_trace_hw_chain` | chains made by the traced program: length and cycles (it recurses), unmapped pointers; sizes in bytes, steps in floats |
| intrusive list | `include/list.h` | `next`, `prev` of each entry | `list_add`, `list_del`, iteration | pointer surgery while iterating |
| kernel shim | `driver/shim.c` | atom queue of 16, descriptor | `open_kernel_module`, `alloc_gpu_pages`, `submit_job`, `flush_job_queue` | queue at its limit, return codes that look like values |
| CBMA allocator | `driver/memory.c` | `cbma_bottom`, `cbma_top` | `init_cbma`, `galloc`, `gfree` | no end check, 32-bit arithmetic |
| job synthesis | `driver/synthesise.c` | `atom_count` | `job_chain_vertex_tiler`, `_fragment`, `_replay` | numbers of atoms in an 8-bit field, dependencies on "the last one" |
| prototype | `prototype/prototype.c` | none | `main` | |

Interactions: the traced program calls the wrappers; each wrapper calls libc's
function and the tracker; the ioctl wrapper calls the decoder, which reads the
traced program's memory through `fetch_mapped_gpu`; all of them log through the
clock.  The prototype calls job synthesis, which allocates with CBMA and the
shim and queues atoms in the shim; the shim makes ioctls, which is where a tracer
meets a driver, this one included (`__PANWRAP`).

What makes each component correct:

- **tracker**: `mali_fd` names the device and nothing else; `mmaps` is what the
  kernel has mapped; every wrapper releases the mutex.
- **lookups**: what `fetch_mapped_gpu` returns is the GPU memory asked for, and
  memory that is mapped is found.
- **clock**: timestamps advance with the program and stand still while panwrap
  runs; they never go back.
- **list**: adds and deletes act on it as on a sequence.
- **shim**: an atom reaches the kernel once and in order; nothing is used before
  the handshake.
- **CBMA**: blocks are disjoint and inside the pool while the pool suffices.
- **job synthesis**: dependencies name the atom meant, pointers have the kind
  their field is declared for.
- **decoder**: it comes to an end, with stack to spare unless the chain is too long or
  loops, describes every job of the chain, follows no
  pointer that leads nowhere, and leaves the traced program's memory alone, but for
  the flare it adds to vertices on purpose.
- **log**: every bit of a word of flags and every byte of a buffer is accounted for.

## 2. Modules

| Module | Models | Composes / implements |
|---|---|---|
| `MappedMemory` | the finders and `fetch_mapped_gpu`, operators on a sequence of records | |
| `Panwrap` | the wrappers, the tracker, the kernel's view of descriptors, regions and pages | extends `MappedMemory` |
| `MCPanwrap` | symmetry of the threads | extends `Panwrap` |
| `AppClock` | abstract: a clock that stands still while stopped | |
| `FrozenClock` | the timestamps | implements `AppClock` |
| `EntrySequence` | abstract: a sequence with `Add` in front and `Del` | |
| `IntrusiveList` | `include/list.h` | implements `EntrySequence`, which is how `Panwrap` uses its lists |
| `Allocator` | abstract: disjoint blocks of a pool | |
| `Cbma` | `driver/memory.c` | implements `Allocator` |
| `AtomChannel` | abstract: a FIFO with a bounded number of waiting atoms | |
| `Driver` | shim, job synthesis and prototype | instantiates `Cbma`, implements `AtomChannel` |
| `LogFormat` | flags and hexdumps, operators on sets of bits and sequences of bytes | |
| `ChainTrace` | the decoder, the memory of the traced program, its other threads | extends `MappedMemory`, `LogFormat` |
| `JobSubmit` | the decoding of JOB_SUBMIT, atom by atom | extends `ChainTrace` |
| `MCJobSubmit` | memories and submissions for `JobSubmit` | extends it |
| `MappedMemoryProofs` | lemmas: what the finders return for every list, induction over the natural numbers | extends `MappedMemory` |
| `TrackerProofs` | theorems about the lists of `Panwrap` | extends `PanwrapProofs` |
| other `*Proofs` | the theorems about the module they are named after | extend it |

### Panwrap

`pc[t]` is where thread `t` is in a wrapper, `frame[t]` the arguments and results
of its call.  A step ends where another thread or the kernel can interfere: at a
system call, at the mutex, at a load of `mali_fd` outside the mutex.  Statements
under the mutex that touch only what it protects share a step.  The decoding before
an ioctl, `IoctlPre`, is one step too, since it touches nothing of the tracker; but
it may take any time, so the step may never be taken (see Fairness), and when the
decoder takes the program down no more steps are.

| Actions | Code |
|---|---|
| `OpenSys`, `OpenRecord` | `open`, `open64`: system call, then `panwrap_open_wrap` under the mutex |
| `CloseReset`, `CloseSys` | `close`: forgets `mali_fd` under the mutex, then the system call |
| `IoctlCall`, `IoctlPass` | `ioctl`: the unlocked test; the path of foreign descriptors |
| `IoctlLock`, `IoctlPre`, `IoctlSys`, `IoctlPost` | the traced path: lock and freeze, decode, system call with time running, `ioctl_decode_post` and unlock |
| `MmapCall`, `MmapPass`, `MmapSys`, `MmapRecord` | `panwrap_mmap_wrap` |
| `MunmapSys`, `MunmapRecord` | `munmap` |

`fds`, `regions` and `cpu` are the kernel's state (external): what each descriptor
is open on, the GPU regions a descriptor can map, the mapping at each page.  The
kernel may refuse any ioctl or hand out any free range.  `Disciplined` chooses the
traced program: TRUE is one that has one device open at a time, unmaps whole
mappings, destroys nothing that another thread uses and whose mmap does not fail;
FALSE is one that does all of that.  Properties that only a disciplined program
can expect say so.

A page is one address.  Lengths are in pages; the zones of CPU pages, GPU addresses,
mmap offsets and lengths are disjoint (`ZonesAssumption`).  That `FetchSound` and
`MmapsMirrorKernel` hold depends on it: a mapping recorded with `gpu_va` 0
("unknown") covers the addresses from 0 to its length, and the kernel hands out
none of these.

### FrozenClock

One action per function, each at the moment it reads the monotonic clock; `Tick`
lets time pass.  The functions run under the mutex of `Panwrap`, whose
`FrozenInPanwrap` shows that freezes and unfreezes alternate, which is the guard
of `panwrap_freeze_time` here.

### Driver

The driver is sequential.  A call is the list of its effects in the order of the
code (`job_chain_vertex_tiler`, ... are those lists); each action takes the next
effect.  A failing ioctl exits (`m_ioctl`), a failing open or mapping of the
tracking handle leaves `open_kernel_module` early with 1 or -1, a failing mapping
of the pool faults in the memset that follows, a failing mapping of the zero
buffer is not noticed.  C leaves the order of the `galloc` calls in one
initialiser open; they are taken in the order written, which changes only which
block is which.  `only_main` is the program, chosen at the start: `main` of
`prototype.c`, or any program that sets up as `main` does and then makes any calls.

### ChainTrace and JobSubmit

`JobSubmit` is one call of the ioctl.  It runs where `Panwrap` has `IoctlPre`, under
the mutex, so the recorded mappings stay as they are; `mmaps` is that list, any list
the tracker may have recorded, stale records included.  The result of the call is
the log, of which `described` (jobs whose header was logged), `dump` (the last
payload) and `shown` (what is said of each atom) are kept.

| Actions | Code |
|---|---|
| `Submit`, `Return` | the test of the stride; the end of the loop |
| `BeginAtom` | `jc` is looked up, then `chai_trace_atom` (`TraceAtom`) |
| `EndAtom` | resources, dependencies, type and requirements of the atom (`Lines`) |
| `Header`, `NextJob` | `chai_trace_hw_chain`: the header is read before the payload, and again for `next_job` after it |
| `SetValue`, `Fragment`, `DumpPayload` | payloads of one step |
| `VertexTiler`, `Attribute`, `VertexTilerWords` | the shader; one entry of the attribute list; framebuffer and the words that follow |
| `Relink` | another thread of the program rewrites a `next_job` |

Memory is made of cells, one per structure the decoder reads; a cell is an address.
`mem` maps CPU addresses to cells, pointers in cells are GPU addresses, and
`Fetch` is `fetch_mapped_gpu` of `MappedMemory`.  A job is two cells, header and
payload.  A structure is one cell, whatever its size; vertices, which the decoder
writes to, are one cell per byte.  Sizes in an attribute buffer are bytes, as in the
code: `VertexCount` divides bytes by bytes (`trace.c:238`), `ComponentCount` divides
bytes by the size of a float (`:239`), and the loop goes from vertex to vertex by
whole floats (`:249`).  So vertices of 6 bytes are counted by 6 and stepped over by 4,
and those of 1 to 3 bytes have no components and are all written at the first one's
place.  `Raw` drops the two bits of flags of the address.  A read through NULL,
or through a record whose memory is gone, is `Crash`: the traced program dies of it.

`chai_trace_hw_chain` calls itself for the next job (`trace.c:489-491`).  `depth` is the
number of its calls in progress, `StackDepth` how many the stack has room for, and a
call beyond that ends the program (`status` "exhausted").  The code does nothing after
the call, so all of them return at once (`ChainReturns`).  The build
(`CMakeLists.txt`) asks for no optimisation; in a build that makes a loop of the
call in tail position, a chain that loops has no end at all, which is one more reason
why `Panwrap` promises nothing about the decoding's length.
Where the code tests a pointer the model has the branch (`Dumpable`,
`HeaderUnmapped`, `TraceAttribute`), where it does not the model has the crash.
`writable` is whether the file of a shader can be opened.

`TraceAtom` keeps the test of the soft-job bits as it is: any soft job passes the
test for a replay.  `PreDep` keeps the index of the loop over dependencies, and
`ExtResource` the step of the loop over resources: an element of `ext_res_list` is 16
bytes, a count and a word, so of a list of words the log takes every second one.

## 3. Runs

| Run | Instance | Shows |
|---|---|---|
| `tracker_mirror` | 2 threads, 3 descriptors, 2 pages, both kinds of region, 2 mappings, 2 allocations | `MmapsMirrorKernel`: when no thread is between a system call and its record, the list is the set of live mappings, with the right GPU addresses, though MEM_FREE leaves stale allocations and failed ioctls add bogus ones; `DeviceTracked`: a device that is open and usable is the one recorded; `RecordsCurrent`, what the decoder takes for granted of the records: each page of a record is still mapped as it was recorded, and no GPU address is in two records |
| `tracker_fetch` | 1 thread, 3 pages, lengths 1 and 2, MEM_COMMIT | `FetchSound`, and `FetchCompleteInterior`: the only memory that is missed is where a recorded mapping ends |
| `tracker_adjacent` | as above, 3 mappings | **violates** `FetchComplete` (section 6) |
| `tracker_overlap` | undisciplined, 3 pages, 3 mappings | `NewestMappingFound`: newest record first survives overmapping, partial unmaps and failing mmaps |
| `tracker_lock` | 2 threads, 3 descriptors, undisciplined, fairness | `FrozenInPanwrap`; `LockReleased`: a mutex that was taken is given back, if no decoding goes on for ever; and `MaliFdOpen`: `mali_fd` never names a closed or foreign descriptor |
| `frozen_clock` | 4 ns per second, steps of 1, 3 and 6 ns, up to 3 s | `ShowsAppTime` (refinement), `LogInOrder` |
| `intrusive_list` | 5 entries | `ImplementsSequence` (refinement), `LinksAgree` |
| `cbma` | pool of 8 slots, at the end of the address space or not, sizes 0, 1, 48, 1023, 1024, 1025, 3000 | `ImplementsAllocator` (refinement) |
| `driver` | queue of 4, 4 atom numbers, 6 atoms, a pool of 4 MiB at the lower and the upper end of the address space, `main` and any other program | `DeliversInOrder` and `BlocksInPool` (refinements), `WaitsForLast`, `HandshakeFirst`, `PrototypeDelivers` |
| `driver_wrap` | | **violates** `DependsOnLast` (section 6) |
| `job_submit` | 635 submissions over memories of 50 cells, a stack for 7 calls, up to 2 relinks | `NoFault`: well-formed jobs are decoded without following a bad pointer; `ChainDescribed`: a chain is described to its end; `StackSuffices`: the recursion fits the stack if the chain does not loop; `TraceEnds`: decoding ends, in any memory; `DecodeAdvances`: no step of the decoder leaves it where it was; `FlareStays`: what it writes to, in bytes; `DumpFaithful`, `FlagsAccounted`: nothing is left out of the log |
| `job_submit_deps` | the same | **violates** `DependenciesShown` (section 6) |

**Bounds.**  `MaxMaps` and `MaxAllocs` bound the tracker's lists, `MaxAtoms` the
atoms, `MaxSec` the clock; each is named in the guard it is part of.  Two threads
suffice for the properties of the lists, since the mutex admits one at a time and
a second is enough to come between two steps.  The descriptors are 0, which the
code takes for none, and two others, so that another file can be opened, closed
and given a number the device had.  Two pages with length 1
give reuse of addresses; runs with three pages and lengths 1 and 2 give adjacency,
overlap and partial unmapping.  Four nanoseconds per second with steps of 3 and 6
reach the carry and the borrow from every remainder.  A queue of 4 holds the three
atoms of `main` without a flush, as the one of 16 does, and fills with six; four
numbers wrap around within them.  `Word` is 2^30 in the driver's runs instead of
2^32, within TLC's integers; the pool is tried at its lower and at its upper end.

The submissions of `job_submit` are listed in `MCJobSubmit`, by the question they
ask: chains of three jobs that begin with one of every type, or end with one,
linked one after the other, in a circle and to an address that is not mapped, with
other threads that relink them twice (once to make a loop, once to undo it); each
pointer of a vertex job good, null, unmapped and, for the attribute list, without an
end; vectors of 0, 1, 3, 4, 6, 8, 12 and 16 bytes in buffers of 0, 2, 7, 12 and 16, which end inside, at and
behind the end of their mapping, at an address with and without flags; all buffers of
up to five bytes with rows of two; atoms of every kind, with all subsets of five
requirement bits; each payload behind the end of a mapping or in memory that is gone;
touching mappings, none, and an old job format.  A stack of 7 calls has room for the
three jobs twice, so `StackSuffices` has to hold after one relink, and is used up by
each chain in a circle.

**Deadlock** is checked, except in `cbma` (the model's caller stops when it cannot
afford a block), in `Driver` (the program ends, by exit or at the end of main) and
in `JobSubmit` (the call returns, or the program is gone).

**Fairness.**  `Panwrap!FairSpec` has weak fairness of each thread's steps inside
a wrapper, but for the decoding before an ioctl: the thread is scheduled and its
system calls return.  Nothing makes the program begin a call, and the mutex is not
fair, so termination of each call is not claimed, only that the mutex is released.
Nothing makes the decoding end either, which follows what the program made;
`LockReleased` has as its premise that no thread decodes for ever.  `Driver!FairSpec`
has weak fairness of the program: it runs and the kernel answers.
`JobSubmit!FairSpec` has weak fairness of the decoding thread only; other threads
relink jobs if and when they like.

`TraceEnds` has no premise: a chain that loops uses up the stack, with the mutex held
meanwhile, and the program dies.  Which chains do not is `StackSuffices`.  It
assumes that no chain is ever a loop, and room for each job once, and once more for
each relink.  It also assumes that recorded mappings do not overlap or touch
(`Apart`): where they do, the search may find another record than the one the GPU
uses, so the decoder follows other links than the GPU, and these may loop though the
GPU's do not.

## 4. Proofs

TLAPS proves, for every value of the constants that satisfies the named
assumptions:

| Theorem | Module | Argument |
|---|---|---|
| `TypeCorrect` | `PanwrapProofs` | `TypeOK` is inductive; it needs that a search returns a position of the list it removes from (`FindMappedMemSpec`, `FindAllocationSpec`, `RemoveAtType`) |
| `LockOwner` | `PanwrapProofs` | `LockInv`: the owner of the mutex is the one thread whose `pc` is in a critical section |
| `TimeFrozenInPanwrap` | `PanwrapProofs` | `FrozenInPanwrap` is inductive given `LockInv` |
| `MaliFdNamesDevice` | `PanwrapProofs` | `MaliFdInv`: besides `MaliFdOpen`, a descriptor that an open or close in progress owns is open, is owned by one thread only, and while it is being closed is not `mali_fd`; without these `MaliFdOpen` is not inductive |
| `ClockImplementsAppClock`, `LogLinesInOrder`, `ClockTypeCorrect` | `FrozenClockProofs` | `timespec_add` and `timespec_subtract` compute sum and difference of nanoseconds (`AddCorrect`, `SubtractCorrect`); the invariant says that the frozen timestamp is the reading at the freeze and that the last stamp is not ahead of the clock |
| `CbmaImplementsAllocator`, `CbmaTypeCorrect` | `CbmaProofs` | `CbmaInv`: the last block ends in the slot at `base + spent`, no block reaches past `cbma_bottom`; one `galloc` then starts in the next slot and no sum wraps (`OneBlock`) |
| `QueueImplementsChannel` | `DriverProofs` | `QueueInv`: what was accepted is what was delivered followed by the queue (`NothingLost`); `Bounded`: a running program's queue has room for one more. Each step is then one of the channel's (`ChannelStep`) |
| `DependenciesOnLast` | `DriverProofs` | `Numbered`: the i-th atom has the number i modulo `AtomIds` and names the one before; two numbers less than `AtomIds` apart are not congruent (`NotCongruent`), so it names no other |
| `HandshakeComesFirst` | `DriverProofs` | `HandshakeInv`: during the first call, which of its effects are left says how far the handshake is (`Opening`); with any other descriptor the second call fails; and no later effect touches the descriptor (`Quiet`, `EffectsQuiet`) |
| `LinksAlwaysAgree` | `IntrusiveListProofs` | `ListInv`: besides `LinksAgree`, the nodes with links are closed under next and prev, so no link leads to an entry that was never added |
| `DeviceAlwaysTracked` | `PanwrapProofs` | `DeviceInv` on top of `MaliFdInv`: there is one descriptor of the device at most, and only the thread inside its open or its close sees it untracked |
| `NewestAlwaysFound` | `TrackerProofs` | below; `FirstOf` (a search returns the first match) and `NewestInv` |
| `MmapsAlwaysMirror`, `FetchAlwaysSound`, `FetchCompleteInside` | `TrackerProofs` | below; `World` |
| `ListTypeCorrect`, `ListImplementsSequence` | `IntrusiveListProofs` | `RingInv`: there is a sequence of distinct entries that next and prev go round both ways, and no other entry links anywhere. The walk of the iteration exists and follows that ring (`WalkExists`, `WalkIsRing`); an add puts the entry in front, a delete closes the gap |
| `DriverTypeCorrect` | `DriverProofs` | `CallInv`: the rest of a job chain's effects still makes the packets it owes before it submits (`Supplied`) |
| `BlocksStayInPool` | `DriverProofs` | below |
| `MemoryStaysTyped` | `JobSubmitProofs` | `Kept`: a step changes a header to one of the same type, a byte of a vertex to another, and nothing else; `Placed`: the decoder is at a job, and in an attribute list only of a vertex or tiler job |
| `FlareStaysNear` | `JobSubmitProofs` | `element_size` bytes from where each vertex is counted lie in the buffer (`VertexInBuffer`), the loop, which goes by whole floats, is never ahead of that (`FloatsInBytes`), and three floats reach no more than the bytes `Lacking` behind it (`FlareNear`) |
| `NeverFaults` | `JobSubmitProofs` | below |
| `StackAlwaysSuffices` | `JobSubmitProofs` | below; `StackInv` |
| `ChainAlwaysDescribed` | `JobSubmitProofs` | below |
| `FlagsAlwaysAccounted`, `DumpsAlwaysFaithful` | `JobSubmitProofs` | below |
| `RecordsAlwaysCurrent` | `TrackerProofs` | from `World` at a moment when no thread is between a system call and its record, where `Settled` is the list itself: a record is of a live mapping, live mappings are whole, none is recorded twice, and no two show a GPU address |
| `DecodeAlwaysAdvances` | `JobSubmitProofs` | each step by the code's order (`Stages`), the place in the attribute list, or the stack's depth; and of a job that is not in a loop the next one has fewer jobs linked (`LinkedShrinks`, from `Acyclic` by `NotLinkedBack`), since what the decoder fetches there is what the GPU would (`Apart`) |
| `SectionsAreShort` | `PanwrapProofs` | `LockStep`, `StepMoves`: the owner of the mutex is at most three steps from the unlock, each step of its own brings it nearer, and others' steps leave it and the mutex alone; that the steps end is not part of it |

**The tracker's lists.**  `MmapsMirrorKernel` speaks of the moments when no thread is
between a system call and its record (`Quiet`), so it is not inductive: a step begins or ends
such a moment.  The proof states everything of the lists as the owner of the mutex
will leave them, `Settled` and `SettledAllocs`; they follow the kernel step by step.
Of those, `MirrorInv` says that each record is of a live mapping, each live mapping
has one record, and each region that waits for its mmap has an allocation.  It stands
on layers, each inductive given the ones before it: what a thread's frame holds
(`FrameShape`), who uses the device's descriptor (`Descriptors`), regions do not
overlap (`RegionsInv`), mappings are whole and what an mmap in progress was promised
is free (`PagesInv`), no two mappings share a GPU address and no two calls fight over
one (`GpuInv`).  `World` is their conjunction.  `NewestMappingFound` holds of any
program, and needs only `NewestInv`: for each mapping whose first page is in place
the first record of `Settled` that covers a page is that mapping's.

**Pool.**  `HeapAssumption` says that the pool is one that `CbmaProofs` is about and
that the sizes synthesis asks for are sizes a caller may ask for.  `BlocksStayInPool`
has the hypothesis `PoolHolds`: the pool has room for the longest chain's 29 effects,
one slot each at most, for the three chains of `main` and for `MaxAtoms` atoms of any
other program.  The code's pool of 4 MiB is 4096 slots and holds 141 chains; the run
has 6.  The code tests nothing, so without the hypothesis the claim is false.
`RoomInv` counts: between chains what was spent is at most 29 slots for each accepted
atom, and within one the rest of the chain still fits.  With it `Driver` keeps to the
one rule of `Cbma`'s caller, and `CbmaImplementsAllocator` gives the rest.

**Decoder.**  `SubmissionsAssumption` is what the theorems ask of the program: pointers
lead to a structure of the kind their field is declared for, or nowhere, and what the
decoder takes for vertices, with the bytes behind them that the last one lacks to three
floats, are bytes of data.  Null
pointers, gone, overlapping and touching mappings, sizes of any kind, loops and other
threads are not excluded.  `NoFault` adds the premise `WellFormed`, which the steps
keep (`WellFormedKept`); `FaultInv` strengthens it by two facts about the job in
work: its shader is not a sabotaged address, and all entries of its attribute list
before the one the decoder has reached have an attribute (`ListedTo`).  For
`ChainDescribed` `ChainInv` says, while the decoder hunts along a chain, that what is
described together with what can be reached from the job it is at is the whole chain;
that holds while it goes round a loop too, since the loop's jobs are in both, but
there the stack ends before the atom does.

**Stack.**  `StackInv` counts: the calls in progress together with the jobs that are
linked from the one the decoder is at are at most one more than
(relinks + 1) times the number of jobs.  A recursive call adds one to the first and
takes at least one from the second, since no chain loops; a relink may link all jobs
again, and raises the bound by as many.  A call that finds the stack full therefore
means that it has no room for that many.

**Log.**  `DecodedFlags` and the flattening in `DumpFaithful` are recursive functions.
Their inductions are over numbers, which `Induct` allows (it takes a set in place of a
predicate): a function that satisfies the code's loop exists (`DecodeExists`), so
the one chosen does, and each pass keeps all bits accounted for (`NamedAccounted`).  The
rows end at multiples of the row's length (`RowBounds`, from the division in
`RowCountSpec`), so each lengthens the prefix put together before it
(`RowsFlattened`).  `FlagTables` says that the code's tables are tables of words.  A soft
atom's word is shown as one name or as the rest (`WholeAccounted`); `PreDepWord` and
`ExtResourceWord` say that the other words shown are words of flags too.

`DriverAssumption` asks for two atom numbers or more: with one, every atom would
have the number of every other.

Every safety property of the passing runs is proved.  Only model-checked are
`LockReleased`, `PrototypeDelivers` and `TraceEnds`, liveness under fairness, which
the prover does not handle.  What two of them need besides fairness is proved:
`SectionsAreShort` for `LockReleased`, `DecodeAlwaysAdvances` for `TraceEnds`, since the
stack's depth and the other measures it names are bounded.

## 5. Not modelled

- The printers of ioctls other than JOB_SUBMIT: each reads one structure of the
  caller and keeps no state.  Those of SYNC (`panwrap-syscall.c:460-494`, `:715-724`) also
  follow a pointer: they dump the memory of the program that is synced, and fault if
  it is not mapped.
- How much of the stack a call takes: `StackDepth` is any number.
- What is only printed: wording, columns, the words of a job that no branch tests.
- Changes to atoms, or to anything but `next_job`, by other threads during the
  decoding; the memory behind `pre_dep` that the dependency loop reads.
- The order in which the two threads' writes reach each other: a relink is one step.
- Interposition and options: dynamic linking and I/O.
- Descriptors that come or go other than by open and close (dup, fork, exec),
  mremap, munmap that fails, addresses inside a page, sums of addresses that wrap.
- The two loads of `mali_fd` in `panwrap_mmap_wrap` are one, as compiled.
- Contents of job descriptors, except numbers, dependencies, links and the
  pointers of the replay payload.  What the GPU does with them.

## 6. Findings

- **A mapping hides its neighbour's first page** (`tracker_adjacent`).
  `find_gpu_mapped_mem` includes the end of a mapping
  (`panwrap-syscall.c:245`).  Allocate two one-page regions at 10 and 11, map
  the second, then the first: a fetch at 11 meets the record of the first, fails
  the bounds check and is reported as an overflow, though 11 is mapped.
- **A wrapped atom number drops a dependency** (`driver_wrap`).  After 256 atoms
  the "last one" of `synthesise.c:122` is 0, the number of `no_dependency`.
- **The log shows the wrong dependencies** (`job_submit_deps`).  The loop over an
  atom's two dependencies indexes with the counter of the atoms
  (`panwrap-syscall.c:583` and `:586`).  The first atom's first dependency is shown
  twice, the second atom's second one twice; for the third the log shows its number
  and priority, and from the seventh on it reads behind the atom.

Seen while modelling, and not stated as a property, since a property could only
repeat the assignment or the test it is about:

- The replay payload's `tiler_jc_list` gets a job descriptor (`synthesise.c:417`)
  where `jobs.h:45` declares a list.
- `jc`, a "job-chain GPU address" (`mali-ioctl.h:685`), is looked up among CPU
  addresses (`panwrap-syscall.c:543`).  A chain that is not mapped at the same
  address on both sides is not decoded; `ChainDescribed` says so in its premise.
- Every soft job is decoded as a replay: `MALI_JD_REQ_SOFT_REPLAY` contains the bit
  of `MALI_JD_REQ_SOFT_JOB` (`trace.c:497`), and "Unknown soft job" is never printed.
- `SHARED`, which is 0, is printed for every external resource, though only exclusive
  access needs decoding (`mali-ioctl.h:661-664`); and a resource is read as 16 bytes
  where `synthesise.c` allocates 8.
- pantry's own replay atoms, `EXTERNAL_RESOURCES | SOFT_REPLAY`, print as "???".
- The flare of a vector with fewer than three components reaches into its neighbour,
  and behind the buffer after the last one (`trace.c:252`); `FlareStays` bounds how far.
- Vertices are counted in bytes and stepped over in floats (`trace.c:238-239`, `:249`): of
  a size that is not a multiple of four the later ones are read and written at the
  wrong place, before where they are.
- A chain that loops, or is too long, ends the traced program (`trace.c:490`), and does
  so with the mutex held.
- `next_job` is read as 64 bits in jobs of both descriptor sizes (`jobs.h:36-39`).
- The file of a shader may not open (`trace.c:336`); `NoFault` says so in its premise.

## 7. Plan

Done, in this order: the tracker with its lookups, its runs and the proofs of its
types, mutex, clock discipline and descriptor; the clock; the list; CBMA; the driver
and the prototype, with the proofs of its queue, dependencies and handshake; the
decoder with the flags, the hexdumps and the job submission that calls it; the proofs
of the tracker's lists, the list's refinement, the driver's types and blocks, and the
decoder; what the tracker guarantees the decoder (`RecordsAlwaysCurrent`), and the
progress of decoder and mutex without fairness; the decoder's recursion with its stack,
and its vertices in bytes.

What is left joins the tracker and the decoder into one specification.  The mappings
of `JobSubmit` are any list.  `RecordsAlwaysCurrent` gives, for a disciplined program,
that none of them is stale (`Live`) and that those with a known GPU address do not
overlap.  `Apart` asks for more, a gap between any two of them, since the search
counts the end of a mapping as part of it; nothing in the code leaves such a gap, and
a record with an unknown address counts as one at 0.  So `Apart` stays a premise, as
the finding of `tracker_adjacent` says it must.
