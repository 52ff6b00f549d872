----------------------------- MODULE JobSubmit -----------------------------
(***************************************************************************)
(* What panwrap logs of a JOB_SUBMIT ioctl before it passes it on          *)
(* (ioctl_decode_pre_job_submit in panwrap/panwrap-syscall.c): the atoms   *)
(* one after the other, each with the chain of jobs it starts, which the   *)
(* decoder of ChainTrace follows.  The atoms are arguments of the call.    *)
(*                                                                         *)
(* A dependency's type, a priority, a core_req and a word of the list of   *)
(* external resources are sets of bits.                                    *)
(***************************************************************************)
EXTENDS ChainTrace

CONSTANTS
    Submissions  \* what a call may find: [mem, mmaps, threaded,
                 \* writable, stride, atoms]

VARIABLES
    stride,  \* the stride of the call is the size of an atom
    atoms,   \* the atoms of the call
    i,       \* the atom being logged
    shown    \* what the log says of the atoms it is done with

vars == <<trace, stride, atoms, i, shown>>
call == <<stride, atoms>>

\* A member of pre_dep.
Dependency == [atom_id : Nat, dependency_type : SUBSET Nat]
Atom == [jc : Nat, core_req : SUBSET Nat, pre_dep : [1..2 -> Dependency],
         atom_number : Nat, prio : SUBSET Nat,
         ext_res_list : Seq(SUBSET Nat), nr_ext_res : Nat]

\* Where the loop reads from other fields, or from the next atom.
Elsewhere == [atom_id |-> 0, dependency_type |-> {}]

-----------------------------------------------------------------------------
(***************************************************************************)
(* The tables of flags, words in the order of the code.                    *)
(***************************************************************************)
jd_req_flag_info ==
    <<{0}, {1}, {2}, {3}, {4}, {13}, {5}, {6}, {7}, {8}, {10}, {11}, {12},
      {14}, {15}, {16}>>
external_resources_access_flag_info == <<{}, {0}>>   \* SHARED is 0
mali_jd_dep_type_flag_info == <<{0}, {1}>>

\* The soft jobs with a name, of number 1 to 12.
SoftNames == {{SoftJob} \cup b : b \in (SUBSET (0..3)) \
                                  {{}, {0, 2, 3}, {1, 2, 3}, 0..3}}

\* ioctl_log_decoded_jd_core_req: for a soft job the whole word is compared with
\* the constants; a word that is none of them is shown as a number, with "???".
CoreReq(req) ==
    IF SoftJob \in req
    THEN [names |-> IF req \in SoftNames THEN <<req>> ELSE <<>>,
          rest |-> IF req \in SoftNames THEN {} ELSE req]
    ELSE DecodedFlags(jd_req_flag_info, req)

\* ioctl_get_job_type_from_jd_core_req: the bits that name the type, that of a
\* soft job or of ONLY_COMPUTE, or else those of FS, CS and T, all of which have
\* a name, none of them too.
JobType(req) ==
    IF SoftJob \in req THEN {SoftJob}
    ELSE IF 10 \in req THEN {10} ELSE req \cap {0, 1, 2}

(***************************************************************************)
(* What the code takes for dependency j of atom n: pre_dep is indexed with *)
(* the atom's counter, n - 1, not with j.  Behind its two members lie the  *)
(* number and the priority of the atom, and then memory not modelled here. *)
(***************************************************************************)
PreDep(n, j) ==
    CASE n \in {1, 2} -> atoms[n].pre_dep[n]
      [] n = 3 -> [atom_id |-> atoms[n].atom_number,
                   dependency_type |-> atoms[n].prio]
      [] OTHER -> Elsewhere

\* Element j of the list, ext_resource[0] of a struct of two words of which the
\* first is a count.  Behind the words the program wrote is other memory.
ExtResource(a, j) ==
    IF 2 * j \in DOMAIN a.ext_res_list THEN a.ext_res_list[2 * j] ELSE {}

\* "<no external resources>" for a null list, here an empty one.
Resources(a) == IF a.ext_res_list = <<>> THEN {} ELSE 1..a.nr_ext_res

Lines(n) ==
    LET a == atoms[n]
    IN  [ext_res |-> [j \in Resources(a) |->
                        DecodedFlags(external_resources_access_flag_info,
                                     ExtResource(a, j))],
         pre_dep |-> [j \in 1..2 |->
                        [atom_id |-> PreDep(n, j).atom_id,
                         flags |-> DecodedFlags(mali_jd_dep_type_flag_info,
                                       PreDep(n, j).dependency_type)]],
         job_type |-> JobType(a.core_req),
         core_req |-> CoreReq(a.core_req)]

-----------------------------------------------------------------------------
(***************************************************************************)
(* Memory as the GPU sees it: what a GPU address is in the mappings that   *)
(* were recorded, without the search of fetch_mapped_gpu, and what kind of *)
(* structure a pointer may lead to, in memory m.  Where pointers are typed *)
(* the program may be wrong in any other way: they may be null or lead     *)
(* nowhere, mappings may be gone or overlap.                               *)
(***************************************************************************)
HoldingIn(mm, gpu) == {k \in DOMAIN mm : /\ mm[k].gpu_va <= gpu
                                         /\ gpu < mm[k].gpu_va + mm[k].length}
CpuIn(mm, gpu) == {mm[k].addr + (gpu - mm[k].gpu_va) : k \in HoldingIn(mm, gpu)}
CellsAt(m, mm, gpu) == {m[p] : p \in CpuIn(mm, gpu) \cap DOMAIN m}
Of(kind, cells) == {c \in cells : c.kind = kind}
Only(kind, cells) == cells = Of(kind, cells)

PayloadKind(type) ==
    CASE type = "SET_VALUE"             -> "set_value"
      [] type \in {"VERTEX", "TILER"}   -> "vertex_tiler"
      [] type = "FRAGMENT"              -> "fragment"
      [] OTHER                          -> "bytes"

\* What flare is added to, see FlareStays: the buffer, and the bytes that its
\* last vector lacks to three floats.
Lacking(vb) ==
    IF vb.element_size < 3 * SizeofFloat THEN 3 * SizeofFloat - vb.element_size ELSE 0
NearIn(mm, vb) ==
    UNION {p..(p + vb.total_size + Lacking(vb) - 1) : p \in CpuIn(mm, Raw(vb))}

JobsTyped(m, mm) ==
    \A g \in JobAddrs :
      \A h \in CellsAt(m, mm, g) :
        h.kind = "job" /\ Only(PayloadKind(h.type), CellsAt(m, mm, g + 1))

AttributesTyped(m, mm) ==
    \A v \in Of("vertex_tiler", Range(m)) :
      /\ Only("attribute_meta", CellsAt(m, mm, v.attribute_meta))
      /\ \A meta \in Of("attribute_meta", Range(m)) :
           meta.has =>
             Only("attribute_buffer", CellsAt(m, mm, v.attributes + meta.no))

ListsTyped(m, mm) ==
    \A k \in DOMAIN mm :
      \A g \in mm[k].gpu_va..(mm[k].gpu_va + mm[k].length - 1) :
        \A meta \in Of("attribute_meta", CellsAt(m, mm, g)) :
          meta.has => Only("attribute_meta", CellsAt(m, mm, g + 1))

VerticesTyped(m, mm) ==
    \A vb \in Of("attribute_buffer", Range(m)) :
      \A p \in NearIn(mm, vb) \cap DOMAIN m : m[p].kind \in {"plain", "flared"}

Record == [addr : Nat \ {0}, length : Nat, gpu_va : Nat]

WellTyped(m, mm) ==
    /\ DOMAIN m \subseteq Nat /\ m \in [DOMAIN m -> Structures]
    /\ mm \in Seq(Record)
    /\ JobsTyped(m, mm) /\ AttributesTyped(m, mm)
    /\ ListsTyped(m, mm) /\ VerticesTyped(m, mm)

ASSUME SubmissionsAssumption ==
    \A c \in Submissions :
      /\ WellTyped(c.mem, c.mmaps)
      /\ {c.threaded, c.writable, c.stride} \subseteq BOOLEAN
      /\ c.atoms \in Seq(Atom)
      /\ \A n \in DOMAIN c.atoms :
           SoftJob \notin c.atoms[n].core_req => c.atoms[n].jc \in JobAddrs \cup {0}

-----------------------------------------------------------------------------
TypeOK ==
    /\ WellTyped(mem, mmaps)
    /\ {threaded, writable, stride} \subseteq BOOLEAN
    /\ atoms \in Seq(Atom) /\ i \in 1..(Len(atoms) + 1)
    /\ job \in JobAddrs \cup {0} /\ {s, writes} \subseteq Nat
    /\ depth \in 0..StackDepth
    /\ pc \in {"call", "atom", "header", "payload", "attributes",
               "framebuffer", "next", "atom_end"}
    /\ status \in {"running", "done", "crashed", "exhausted"}

Init ==
    /\ \E c \in Submissions :
         /\ mem = c.mem /\ mmaps = c.mmaps /\ threaded = c.threaded
         /\ writable = c.writable /\ stride = c.stride /\ atoms = c.atoms
    /\ pc = "call" /\ job = 0 /\ s = 0 /\ depth = 0 /\ described = {}
    /\ dump = [data |-> <<>>, log |-> HexdumpTrimmed(<<>>, RowLen)]
    /\ status = "running" /\ writes = 0
    /\ i = 1 /\ shown = <<>>

Done == status' = "done" /\ UNCHANGED pc

\* "SIZE MISMATCH" for a legacy job format, otherwise the loop begins.
Submit ==
    /\ Running("call")
    /\ IF stride THEN pc' = "atom" /\ UNCHANGED status ELSE Done
    /\ UNCHANGED <<mem, fixed, job, s, depth, described, dump, call, i, shown>>

\* jc is looked up among the CPU addresses.  "unknown memory region"
BeginAtom ==
    /\ Running("atom") /\ i <= Len(atoms)
    /\ IF FindMappedMemContaining(mmaps, atoms[i].jc) # 0
       THEN TraceAtom(atoms[i])
       ELSE /\ pc' = "atom_end" /\ described' = {}
            /\ UNCHANGED <<job, depth, status>>
    /\ UNCHANGED <<mem, fixed, s, dump, call, i, shown>>

\* Mutant: the counter is advanced twice.
NextAtomTwice == i + 2

NextAtom == i + 1

EndAtom ==
    /\ Running("atom_end")
    /\ shown' = Append(shown, Lines(i))
    /\ i' = NextAtom
    /\ pc' = "atom"
    /\ UNCHANGED <<mem, fixed, job, s, depth, described, dump, status, call>>

Return ==
    /\ Running("atom") /\ i > Len(atoms)
    /\ Done
    /\ UNCHANGED <<mem, fixed, job, s, depth, described, dump, call, i, shown>>

Panwrap == \/ Submit \/ BeginAtom \/ EndAtom \/ Return
           \/ (Decode /\ UNCHANGED <<call, i, shown>>)

Next == Panwrap \/ (Relink /\ UNCHANGED <<call, i, shown>>)
Spec == Init /\ [][Next]_vars

\* The thread that called ioctl is scheduled.
FairSpec == Spec /\ WF_vars(Panwrap)

-----------------------------------------------------------------------------
(***************************************************************************)
(* What a GPU address is in the mappings of the call.                      *)
(***************************************************************************)
Holding(gpu) == HoldingIn(mmaps, gpu)
CpuOf(gpu) == CpuIn(mmaps, gpu)
GpuCell(gpu) == mem[CHOOSE p \in CpuOf(gpu) : TRUE]
Points(gpu, kind) == /\ CpuOf(gpu) # {} /\ gpu # 0
                     /\ \A p \in CpuOf(gpu) : p \in DOMAIN mem /\ mem[p].kind = kind

\* No two recorded mappings overlap or touch in the GPU's address space.
Apart ==
    \A k, l \in DOMAIN mmaps :
        k # l => \/ mmaps[k].gpu_va + mmaps[k].length < mmaps[l].gpu_va
                 \/ mmaps[l].gpu_va + mmaps[l].length < mmaps[k].gpu_va

\* What was recorded is still mapped.
Live == \A k \in DOMAIN mmaps :
            mmaps[k].addr..(mmaps[k].addr + mmaps[k].length - 1) \subseteq DOMAIN mem

\* The vertices of a buffer are in one mapping, and memory is behind it for the
\* flare of a vector that is shorter than three floats.
VerticesOK(vb) ==
    /\ vb.element_size # 0 /\ Raw(vb) # 0
    /\ \E k \in Holding(Raw(vb)) :
         Raw(vb) + vb.total_size <= mmaps[k].gpu_va + mmaps[k].length
    /\ \A p \in CpuOf(Raw(vb)) :
         p..(p + vb.total_size + Lacking(vb) - 1) \subseteq DOMAIN mem

\* A list of attributes ends; buffers need not be mapped.
AttributesOK(v) ==
    \E n \in 0..Cardinality(DOMAIN mem) :
        /\ \A k \in 0..n : Points(v.attribute_meta + k, "attribute_meta")
        /\ ~GpuCell(v.attribute_meta + n).has
        /\ \A k \in 0..(n - 1) :
             LET meta   == GpuCell(v.attribute_meta + k)
                 buffer == v.attributes + meta.no
             IN  /\ meta.has
                 /\ CpuOf(buffer) # {} =>
                      /\ Points(buffer, "attribute_buffer")
                      /\ VerticesOK(GpuCell(buffer))

VertexTilerOK(v) ==
    v.shader \notin Sabotaged =>
        /\ Points(v.shader, "shader_meta")
        /\ Points(GpuCell(v.shader).shader, "bytes")
        /\ Points(v.fbd, "mfbd")
        /\ \A g \in {v.unknown1, v.unknown2, v.unknown5} :
             g = 0 \/ Points(g, "bytes")
        /\ AttributesOK(v)

JobOK(g) ==
    CASE GpuCell(g).type = "SET_VALUE" -> Points(g + 1, "set_value")
      [] GpuCell(g).type \in {"VERTEX", "TILER"} ->
            Points(g + 1, "vertex_tiler") /\ VertexTilerOK(GpuCell(g + 1))
      [] GpuCell(g).type = "FRAGMENT" ->
            Points(g + 1, "fragment") /\ Points(GpuCell(g + 1).fbd, "mfbd")
      [] OTHER -> Points(g + 1, "bytes")

\* The jobs and atoms are as the GPU can execute them, and every soft job that
\* the decoder sees is a replay.
WellFormed ==
    /\ Apart /\ Live
    /\ \A g \in JobAddrs : Points(g, "job") => JobOK(g)
    /\ \A n \in DOMAIN atoms :
         SoftJob \in atoms[n].core_req
           /\ FindMappedMemContaining(mmaps, atoms[n].jc) # 0
         => Points(atoms[n].jc, "replay_payload")

(***************************************************************************)
(* No pointer takes the traced program down while it is decoded, as long   *)
(* as its jobs are well-formed and the file of a shader can be opened: of  *)
(* those that the decoder follows without a test none is NULL or stale,    *)
(* whatever the program links meanwhile.  A chain may end at an address    *)
(* that is not mapped, and an attribute may have no buffer.  The stack is  *)
(* another matter: a chain that loops uses it up, see StackSuffices.       *)
(***************************************************************************)
NoFault == WellFormed /\ writable => status # "crashed"

(***************************************************************************)
(* A chain is described to its end: when the decoder is done with an atom  *)
(* of hardware jobs it has described the jobs that can be reached from jc, *)
(* in all mappings, no job of any kind ends it.  The chain begins where    *)
(* the addresses of the GPU are those of the CPU, and the program left it  *)
(* alone.                                                                  *)
(***************************************************************************)
Successors(g) == IF Points(g, "job") THEN {GpuCell(g).next} \ {0} ELSE {}
Linked(g) ==
    LET closed == {A \in SUBSET JobAddrs :
                     /\ g \in A
                     /\ \A a \in A : Successors(a) \subseteq A}
    IN  {a \in JobAddrs : Points(a, "job") /\ \A A \in closed : a \in A}

SameVA(g) == CpuOf(g) = {g}

ChainDescribed ==
    pc = "atom_end" /\ writes = 0 /\ Apart =>
        LET a == atoms[i]
        IN  SoftJob \notin a.core_req /\ SameVA(a.jc) => described = Linked(a.jc)

(***************************************************************************)
(* The decoder leaves the program's memory alone, except that it adds      *)
(* flare to vertices: it changes bytes of a buffer that an attribute of    *)
(* its job names, and, of vectors shorter than three floats, as many bytes *)
(* behind the buffer as these lack.  The sizes are any numbers: those that *)
(* are no multiple of a float's, that do not divide the buffer, and those  *)
(* below a float's, of which each vertex is written over the first.  Jobs  *)
(* are changed by the program only.                                        *)
(***************************************************************************)
Buffers == Of("attribute_buffer", Range(mem))
Near(vb) == NearIn(mmaps, vb)

FlareStays ==
    [][\A a \in DOMAIN mem :
         mem'[a] # mem[a] =>
           \/ writes' # writes /\ mem[a].kind = "job"
           \/ pc = "attributes" /\ \E vb \in Buffers : a \in Near(vb)]_vars

(***************************************************************************)
(* The stack suffices for a chain that does not loop and has no more jobs  *)
(* than it has room for, though the decoder calls itself for each: also    *)
(* when the program relinks jobs behind and ahead of the decoder, as long  *)
(* as it never makes a loop; each relink may send the decoder over all     *)
(* jobs once more.  Where mappings overlap the decoder may follow other    *)
(* links than the GPU.                                                     *)
(***************************************************************************)
Jobs == {g \in JobAddrs : Points(g, "job")}
\* No chain loops: among any jobs is one that links to none of them.
Acyclic == \A A \in SUBSET JobAddrs :
               A # {} => \E a \in A : Successors(a) \cap A = {}
RoomForJobs == \A passes \in {writes + 1} : passes * Cardinality(Jobs) < StackDepth

StackSuffices ==
    Apart /\ []Acyclic => [](RoomForJobs => status # "exhausted")

(***************************************************************************)
(* The decoder comes to an end, in any memory, and with it the mutex is    *)
(* released or the program is gone.  A chain that loops, or that the       *)
(* program keeps relinking, ends when the stack is used up; a list of      *)
(* attributes without an end, at the end of the mapping, by a crash.       *)
(***************************************************************************)
TraceEnds == <>(status # "running")

(***************************************************************************)
(* Why it does: no step of the decoder leaves it where it was.  It goes on *)
(* in the code, in a list of attributes whose entries are mapped, deeper   *)
(* into the stack, to a job from which fewer are linked unless the chain   *)
(* loops, or to the next atom.                                             *)
(***************************************************************************)
Stage(place) ==
    CASE place = "call"       -> 0
      [] place = "atom"       -> 1
      [] place = "header"     -> 2
      [] place = "payload"    -> 3
      [] place = "attributes" -> 4
      [] place = "framebuffer" -> 5
      [] place = "next"       -> 6
      [] place = "atom_end"   -> 7

Later == /\ i' = i /\ Stage(pc) < Stage(pc')
         /\ pc # "atom" => job' = job
LaterEntry == /\ pc = "attributes" /\ pc' = pc /\ i' = i /\ job' = job
              /\ s' = s + 1 /\ Holding(s) # {}
LaterJob == /\ pc = "next" /\ pc' = "header" /\ i' = i /\ depth' = depth + 1
            /\ Apart /\ Acyclic => /\ job \in Linked(job)
                                   /\ Linked(job') \subseteq Linked(job) \ {job}
LaterAtom == pc' = "atom" /\ i <= Len(atoms) /\ i' = i + 1

DecodeAdvances ==
    [][status = "running" /\ writes' = writes =>
         \/ status' # "running"
         \/ Later \/ LaterEntry \/ LaterAtom \/ LaterJob]_vars

(***************************************************************************)
(* A dump is the buffer: its rows, all but the last full, and the zeroes   *)
(* said to follow add up to it, and trimming leaves no zero at the end.    *)
(***************************************************************************)
DumpFaithful ==
    LET rows == dump.log.rows
    IN  /\ FlattenSeq(rows) \o [k \in 1..dump.log.zeroes |-> 0] = dump.data
        /\ \A r \in DOMAIN rows : r < Len(rows) => Len(rows[r]) = RowLen
        /\ \A r \in DOMAIN rows : rows[r] # <<>>
        /\ (\E b \in Range(dump.data) : b # 0) => Last(Last(rows)) # 0

(***************************************************************************)
(* Each bit of a word of flags is shown once, by one name or by the rest:  *)
(* of the requirements, of each external resource and of each dependency,  *)
(* in the words that the log takes for them (PreDep, ExtResource).         *)
(***************************************************************************)
Accounted(d, flags) ==
    /\ (UNION Range(d.names)) \cup d.rest = flags
    /\ \A k \in DOMAIN d.names :
         /\ d.names[k] \cap d.rest = {}
         /\ \A l \in DOMAIN d.names : k # l => d.names[k] \cap d.names[l] = {}

FlagsAccounted ==
    \A n \in DOMAIN shown :
        LET a == atoms[n]
        IN  /\ Accounted(shown[n].core_req, a.core_req)
            /\ \A j \in Resources(a) :
                 Accounted(shown[n].ext_res[j], ExtResource(a, j))
            /\ \A j \in 1..2 :
                 Accounted(shown[n].pre_dep[j].flags, PreDep(n, j).dependency_type)

(***************************************************************************)
(* Under "Pre-dependencies:" the log shows the dependencies of the atom    *)
(* (pre_dep, include/mali-ioctl.h:692).  Violated: of the first atom it    *)
(* shows the first one twice.                                              *)
(***************************************************************************)
DependenciesShown ==
    \A n \in DOMAIN shown, j \in 1..2 :
        shown[n].pre_dep[j].atom_id = atoms[n].pre_dep[j].atom_id
=============================================================================
