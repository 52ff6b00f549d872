----------------------------- MODULE ChainTrace -----------------------------
(***************************************************************************)
(* The decoder (decoder/trace.c): it walks a chain of hardware jobs, or    *)
(* reads the payload of a soft job, in the memory of the traced program.   *)
(*                                                                         *)
(* Memory is made of cells, each a structure that the decoder reads; mem   *)
(* maps CPU addresses to cells, an address outside its domain faults.      *)
(* Pointers in cells are GPU addresses, 0 is null.  A job is two cells,    *)
(* its header and its payload.  The decoder runs under panwrap's mutex, so *)
(* mmaps stays as it is, but other threads of the program, if it has any,  *)
(* may write: they relink jobs, at most MaxWrites times.                   *)
(*                                                                         *)
(* A structure is one address, whatever its size; only the vertices, which *)
(* are written to, are one address for each byte.                          *)
(*                                                                         *)
(* A pointer from fetch_mapped_gpu that is dereferenced crashes the        *)
(* program when it is NULL or the record it came from is stale.  So does a *)
(* chain that is too long: the decoder calls itself for the next job, and  *)
(* each call takes its part of the stack (the build asks for no            *)
(* optimisation that would make a loop of it).                             *)
(***************************************************************************)
EXTENDS MappedMemory, LogFormat, FiniteSets

CONSTANTS
    JobAddrs,   \* GPU addresses of the headers of jobs, and of nothing
    Sabotaged,  \* GPU addresses 0x5AB00000 to 0x5ABFFFFF
    RowLen,     \* HEXDUMP_ROW_LEN
    StackDepth, \* calls of chai_trace_hw_chain that the stack has room for
    MaxWrites

ASSUME TraceAssumption ==
    /\ JobAddrs \subseteq Nat \ {0} /\ IsFiniteSet(JobAddrs)
    /\ Sabotaged \subseteq Nat
    /\ {RowLen, StackDepth} \subseteq Nat \ {0} /\ MaxWrites \in Nat

VARIABLES
    mem,        \* CPU address -> cell
    mmaps,      \* the recorded mappings, as in MappedMemory
    threaded,   \* the program has other threads
    writable,   \* the working directory takes the file of a shader
    pc,         \* where the decoder is
    job,        \* GPU address of the job it is at, 0 before the first
    s,          \* in an attribute list: GPU address of the next entry
    depth,      \* calls of chai_trace_hw_chain in progress
    described,  \* jobs of the current chain whose header was logged
    dump,       \* the last payload dumped: its bytes, and the log's
    status,     \* "running", "done", "crashed" by a pointer, or "exhausted":
                \* crashed too, the stack was used up
    writes      \* relinks so far

trace == <<mem, mmaps, threaded, writable, pc, job, s, depth, described, dump, status,
           writes>>
fixed == <<mmaps, threaded, writable, writes>>

-----------------------------------------------------------------------------
(***************************************************************************)
(* The cells of memory: the structures the decoder reads, with the fields  *)
(* that it follows.  A soft job's payload is only printed.  A byte of a    *)
(* vertex is plain, and flared when the decoder has written to it.         *)
(***************************************************************************)
JobTypes == {"NOT_STARTED", "NULL", "SET_VALUE", "CACHE_FLUSH", "COMPUTE",
             "VERTEX", "TILER", "FUSED", "FRAGMENT", "UNKNOWN"}

job_descriptor_header == [kind : {"job"}, type : JobTypes, next : JobAddrs \cup {0}]
payload_set_value == [kind : {"set_value"}]
payload_fragment  == [kind : {"fragment"}, fbd : Nat]
payload_vertex_tiler32 ==
    [kind : {"vertex_tiler"}, shader : Nat, attributes : Nat,
     attribute_meta : Nat, fbd : Nat, unknown1 : Nat, unknown2 : Nat,
     unknown5 : Nat, dumped : SUBSET Nat]
shader_meta      == [kind : {"shader_meta"}, shader : Nat]
attribute_buffer == [kind : {"attribute_buffer"}, elements : Nat,
                     element_size : Nat, total_size : Nat]
attribute_meta_t == [kind : {"attribute_meta"}, has : BOOLEAN, no : Nat]
tentative_mfbd   == [kind : {"mfbd"}, dumped : SUBSET Nat]
Unstructured     == [kind : {"replay_payload", "plain", "flared"}]
                      \cup [kind : {"bytes"}, bytes : Seq(Nat)]

Structures ==
    job_descriptor_header \cup payload_set_value \cup payload_fragment
      \cup payload_vertex_tiler32 \cup shader_meta \cup attribute_buffer
      \cup attribute_meta_t \cup tentative_mfbd \cup Unstructured

-----------------------------------------------------------------------------
(***************************************************************************)
(* Reading memory.                                                         *)
(***************************************************************************)
Fetch(gpu, n) == FetchMappedGpu(mmaps, gpu, n)

\* The cell that a pointer leads to, none when it is NULL or the cell is gone.
Cells(gpu) == {mem[p] : p \in Fetch(gpu, 1) \cap DOMAIN mem}
Readable(gpu) == Cells(gpu) # {}
Cell(gpu) == CHOOSE c \in Cells(gpu) : TRUE

\* quick_dump_gpu, assert_gpu_same and the hexdumps test for NULL.
Dumpable(gpu) == Fetch(gpu, 1) = {} \/ Readable(gpu)

Crash == status' = "crashed" /\ UNCHANGED pc

\* The step reads what ok says, and goes on at next.
Reads(ok, next) ==
    \/ ok /\ pc' = next /\ UNCHANGED status
    \/ ~ok /\ Crash

Running(at) == status = "running" /\ pc = at
IsType(types) == Cell(job).type \in types
payload == job + 1

-----------------------------------------------------------------------------
(***************************************************************************)
(* chai_trace_fbd: the framebuffer descriptor itself is not tested for     *)
(* NULL, the memory it points to is only dumped.                           *)
(***************************************************************************)
FbdReadable(fbd) ==
    \E d \in Cells(fbd) : \A g \in d.dumped : Dumpable(g)

(***************************************************************************)
(* chai_trace_attribute reads the vertices of an attribute buffer and adds *)
(* flare to three floats of each, however many it has.  The sizes in the   *)
(* buffer are bytes, and they count the vertices; from one vertex to the   *)
(* next it goes by whole floats.  p is where the vertices begin: elements  *)
(* without its two bits of flags.                                          *)
(***************************************************************************)
SizeofFloat == 4
VertexCount(vb) == vb.total_size \div vb.element_size
ComponentCount(vb) == vb.element_size \div SizeofFloat
Raw(vb) == vb.elements - (vb.elements % 4)

\* The first n floats of each vertex.
Floats(vb, p, n) ==
    {p + i * (SizeofFloat * ComponentCount(vb)) + c :
        i \in 0..(VertexCount(vb) - 1), c \in 0..(SizeofFloat * n - 1)}

\* Mutant: the pointer to floats is moved on by the bytes of a vertex.
FlareStride(vb, p) ==
    {p + i * (SizeofFloat * vb.element_size) + c :
        i \in 0..(VertexCount(vb) - 1), c \in 0..(SizeofFloat * 3 - 1)}

Flare(vb, p) == Floats(vb, p, 3)

\* chai_trace_vecN reads vectors of one to four floats, and no others.
Printed(vb, p) ==
    IF ComponentCount(vb) \in 1..4 THEN Floats(vb, p, ComponentCount(vb)) ELSE {}

Vertices(vb) == Fetch(Raw(vb), vb.total_size)
Written(vb) == UNION {Flare(vb, p) : p \in Vertices(vb)}
Touched(vb) == Written(vb) \cup UNION {Printed(vb, p) : p \in Vertices(vb)}

\* The division and the vertices are unguarded.
VerticesReadable(vb) ==
    /\ vb.element_size # 0
    /\ VertexCount(vb) > 0 => Vertices(vb) # {}
    /\ Touched(vb) \subseteq DOMAIN mem

WithFlare(vb) ==
    [a \in DOMAIN mem |->
        IF VerticesReadable(vb) /\ a \in Written(vb) THEN [kind |-> "flared"]
        ELSE mem[a]]

\* Nothing is done for a buffer that is not mapped.
TraceAttribute(address) ==
    \/ /\ ~Readable(address)
       /\ Reads(Dumpable(address), "attributes")
       /\ UNCHANGED mem
    \/ \E vb \in Cells(address) :
         /\ Reads(VerticesReadable(vb), "attributes")
         /\ mem' = WithFlare(vb)

-----------------------------------------------------------------------------
(***************************************************************************)
(* chai_trace_hw_chain.                                                    *)
(***************************************************************************)
\* chai_trace_hw_chain(chain): one more call on the stack, if it has room.
TraceChain(chain) ==
    \/ /\ depth < StackDepth
       /\ job' = chain /\ depth' = depth + 1 /\ pc' = "header"
       /\ UNCHANGED status
    \/ /\ depth = StackDepth
       /\ status' = "exhausted" /\ UNCHANGED <<job, depth, pc>>

\* The last call returns, and with it all that led to it, which do nothing more.
ChainReturns == depth' = 0 /\ pc' = "atom_end" /\ UNCHANGED status

\* Mutant: a header that is not mapped is read.
HeaderUnmappedRead == Crash /\ UNCHANGED <<described, depth>>

\* "Failed to map the job chain"
HeaderUnmapped == ChainReturns /\ UNCHANGED described

Header ==
    /\ Running("header")
    /\ \/ Fetch(job, 1) = {} /\ HeaderUnmapped
       \/ /\ Fetch(job, 1) # {}
          /\ Reads(Readable(job), "payload")
          /\ described' = described \cup {job}
          /\ UNCHANGED depth
    /\ UNCHANGED <<mem, fixed, job, s, dump>>

SetValue ==
    /\ Running("payload") /\ IsType({"SET_VALUE"})
    /\ Reads(Readable(payload), "next")
    /\ UNCHANGED <<mem, fixed, job, depth, s, described, dump>>

\* Mutant: a sabotaged job is taken for the end of the chain.
SabotagedEnds == ChainReturns /\ UNCHANGED s

\* The shader is sabotaged: on with the next job.
SabotagedJob == pc' = "next" /\ UNCHANGED <<s, depth, status>>

\* The shader's code is dumped, and written to a file that fopen may not open.
Shader(v) ==
    /\ Reads(/\ \E meta \in Cells(v.shader) : Readable(meta.shader)
             /\ writable,
             "attributes")
    /\ s' = v.attribute_meta
    /\ UNCHANGED depth

VertexTiler ==
    /\ Running("payload") /\ IsType({"VERTEX", "TILER"})
    /\ \/ ~Readable(payload) /\ Crash /\ UNCHANGED <<s, depth>>
       \/ \E v \in Cells(payload) :
            \/ v.shader \in Sabotaged /\ SabotagedJob
            \/ v.shader \notin Sabotaged /\ Shader(v)
    /\ UNCHANGED <<mem, fixed, job, described, dump>>

\* Mutant: the list is not advanced.
NextAttributeStuck == s

NextAttribute == s + 1

\* One entry of the attribute list; zero ends it.
Attribute ==
    /\ Running("attributes")
    /\ \/ ~Readable(s) /\ Crash /\ UNCHANGED <<mem, s>>
       \/ \E meta \in Cells(s), v \in Cells(payload) :
            /\ meta.has
            /\ TraceAttribute(v.attributes + meta.no)
            /\ s' = NextAttribute
       \/ /\ \E meta \in Cells(s) : ~meta.has
          /\ pc' = "framebuffer" /\ UNCHANGED <<mem, s, status>>
    /\ UNCHANGED <<fixed, job, depth, described, dump>>

\* The rest of the payload: the framebuffer descriptor, and the 14 words from
\* zeroes on, of which three are dereferenced when they are not null.
VertexTilerWords ==
    /\ Running("framebuffer")
    /\ \E v \in Cells(payload) :
         LET followed == {v.unknown1, v.unknown5} \cup
                         (IF IsType({"TILER"}) THEN {v.unknown2} ELSE {})
         IN  Reads(/\ FbdReadable(v.fbd)
                   /\ \A g \in followed : g = 0 \/ Readable(g)
                   /\ \A g \in v.dumped \cup {v.unknown2} : Dumpable(g),
                   "next")
    /\ UNCHANGED <<mem, fixed, job, depth, s, described, dump>>

Fragment ==
    /\ Running("payload") /\ IsType({"FRAGMENT"})
    /\ Reads(\E f \in Cells(payload) : FbdReadable(f.fbd), "next")
    /\ UNCHANGED <<mem, fixed, job, depth, s, described, dump>>

\* Jobs of all other types.
DumpPayload ==
    /\ Running("payload")
    /\ ~IsType({"SET_VALUE", "VERTEX", "TILER", "FRAGMENT"})
    /\ Reads(Dumpable(payload), "next")
    /\ \/ ~Readable(payload) /\ UNCHANGED dump
       \/ \E p \in Cells(payload) :
            dump' = [data |-> p.bytes, log |-> HexdumpTrimmed(p.bytes, RowLen)]
    /\ UNCHANGED <<mem, fixed, job, depth, s, described>>

\* Mutant: it calls itself for the same job again.
NextInChainSame == job

NextInChain == Cell(job).next

NextJob ==
    /\ Running("next")
    /\ \/ Cell(job).next # 0 /\ TraceChain(NextInChain)
       \/ Cell(job).next = 0 /\ ChainReturns /\ UNCHANGED job
    /\ UNCHANGED <<mem, fixed, s, described, dump>>

\* Another thread of the program links a job to another one, or to none.
Relink ==
    /\ status = "running" /\ threaded /\ writes < MaxWrites
    /\ \E a \in DOMAIN mem, g \in JobAddrs \cup {0} :
         /\ mem[a].kind = "job" /\ mem[a].next # g
         /\ mem' = [mem EXCEPT ![a].next = g]
    /\ writes' = writes + 1
    /\ UNCHANGED <<mmaps, threaded, writable, pc, job, s, depth, described, dump, status>>

Decode == \/ Header \/ SetValue \/ VertexTiler \/ Attribute \/ VertexTilerWords
          \/ Fragment \/ DumpPayload \/ NextJob

-----------------------------------------------------------------------------
\* Soft jobs have the bit SoftJob; every SOFT_ constant contains it.
SoftJob    == 9
SoftReplay == {SoftJob, 2}

(***************************************************************************)
(* chai_trace_atom.  core_req & MALI_JD_REQ_SOFT_REPLAY is not zero for    *)
(* any soft job, since the constant contains the bit SOFT_JOB: the branch  *)
(* for other soft jobs is never taken, and each one's jc is read as the    *)
(* payload of a replay.                                                    *)
(***************************************************************************)
TraceAtom(v) ==
    /\ IF SoftJob \in v.core_req
       THEN /\ v.core_req \cap SoftReplay # {}
            /\ Reads(Readable(v.jc), "atom_end")
            /\ UNCHANGED <<job, depth>>
       ELSE TraceChain(v.jc)
    /\ described' = {}
=============================================================================
