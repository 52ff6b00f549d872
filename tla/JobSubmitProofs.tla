--------------------------- MODULE JobSubmitProofs ---------------------------
(***************************************************************************)
(* What TLAPS proves of JobSubmit, for any memory whose pointers are       *)
(* typed, any list of mappings, any jobs and any number of relinks; and of *)
(* LogFormat, for any table of flags and any buffer.                       *)
(***************************************************************************)
EXTENDS JobSubmit, MappedMemoryProofs, FiniteSetTheorems

-----------------------------------------------------------------------------
(***************************************************************************)
(* The kind of a structure says which one it is.                           *)
(***************************************************************************)
LEMMA StructureOfKind ==
    ASSUME NEW c \in Structures
    PROVE  /\ c.kind = "job" => c \in job_descriptor_header
           /\ c.kind = "vertex_tiler" => c \in payload_vertex_tiler32
           /\ c.kind = "attribute_buffer" => c \in attribute_buffer
           /\ c.kind = "attribute_meta" => c \in attribute_meta_t
           /\ c.kind = "fragment" => c \in payload_fragment
           /\ c.kind = "shader_meta" => c \in shader_meta
           /\ c.kind = "mfbd" => c \in tentative_mfbd
BY DEF Structures, job_descriptor_header, payload_set_value, payload_fragment,
       payload_vertex_tiler32, shader_meta, attribute_buffer, attribute_meta_t,
       tentative_mfbd, Unstructured

\* The next job of a job is a job or none.
LEMMA JobNext ==
    ASSUME NEW c \in Structures, c.kind = "job"
    PROVE  c.type \in JobTypes /\ c.next \in JobAddrs \cup {0}
BY StructureOfKind DEF job_descriptor_header

\* A relinked job is a job of the same type.
LEMMA RelinkedJob ==
    ASSUME NEW c \in Structures, c.kind = "job", NEW g \in JobAddrs \cup {0}
    PROVE  /\ [c EXCEPT !.next = g] \in job_descriptor_header
           /\ [c EXCEPT !.next = g].type = c.type
           /\ [c EXCEPT !.next = g].next = g
<1>1. c \in job_descriptor_header
  BY StructureOfKind
<1> QED BY <1>1 DEF job_descriptor_header

LEMMA HeaderIsStructure ==
    ASSUME NEW c \in job_descriptor_header
    PROVE  c \in Structures /\ c.kind = "job"
BY DEF Structures, job_descriptor_header

LEMMA FlaredIsStructure == [kind |-> "flared"] \in Structures
BY DEF Structures, Unstructured

(***************************************************************************)
(* What memory n keeps of memory m, whatever jobs the program relinks and  *)
(* whatever floats the decoder changes.                                    *)
(***************************************************************************)
VertexKinds == {"plain", "flared"}
Relinked(c, d) == /\ c \in job_descriptor_header /\ d \in job_descriptor_header
                  /\ d.type = c.type
Flared(c, d) == c.kind \in VertexKinds /\ d.kind \in VertexKinds
Kept(m, n) ==
    /\ DOMAIN n = DOMAIN m /\ n \in [DOMAIN m -> Structures]
    /\ \A p \in DOMAIN m : \/ n[p] = m[p]
                           \/ Relinked(m[p], n[p])
                           \/ Flared(m[p], n[p])

\* Cells keep their kind, but for floats; of jobs and floats only they keep all
\* their fields.
LEMMA KeptCell ==
    ASSUME NEW m, NEW n, Kept(m, n), NEW p \in DOMAIN m
    PROVE  /\ p \in DOMAIN n
           /\ n[p].kind = m[p].kind \/ (n[p].kind \in VertexKinds /\ m[p].kind \in VertexKinds)
           /\ n[p].kind \notin {"job"} \cup VertexKinds => n[p] = m[p]
           /\ m[p].kind \notin {"job"} \cup VertexKinds => n[p] = m[p]
           /\ m[p].kind = "job" => n[p].kind = "job" /\ n[p].type = m[p].type
<1>1. CASE n[p] = m[p]
  BY <1>1 DEF Kept
<1>2. CASE Relinked(m[p], n[p])
  <2>1. m[p].kind = "job" /\ n[p].kind = "job" /\ n[p].type = m[p].type
    BY <1>2, HeaderIsStructure DEF Relinked
  <2> QED BY <2>1 DEF Kept
<1>3. CASE Flared(m[p], n[p])
  BY <1>3 DEF Kept, Flared, VertexKinds
<1> QED BY <1>1, <1>2, <1>3 DEF Kept

\* A pointer that leads to structures of a kind still does.
LEMMA KeptOnly ==
    ASSUME NEW m, NEW n, NEW mm, NEW g, NEW kind, Kept(m, n),
           kind \notin VertexKinds, Only(kind, CellsAt(m, mm, g))
    PROVE  Only(kind, CellsAt(n, mm, g))
<1> SUFFICES ASSUME NEW d \in CellsAt(n, mm, g) PROVE d.kind = kind
  BY DEF Only, Of
<1>1. PICK p \in CpuIn(mm, g) \cap DOMAIN n : d = n[p]
  BY DEF CellsAt
<1>2. p \in DOMAIN m
  BY DEF Kept
<1>3. m[p].kind = kind
  BY <1>2 DEF CellsAt, Only, Of
<1> QED BY <1>1, <1>2, <1>3, KeptCell

LEMMA KeptJobsTyped ==
    ASSUME NEW m, NEW n, NEW mm, Kept(m, n), JobsTyped(m, mm)
    PROVE  JobsTyped(n, mm)
<1> SUFFICES ASSUME NEW g \in JobAddrs, NEW d \in CellsAt(n, mm, g)
             PROVE  d.kind = "job" /\ Only(PayloadKind(d.type), CellsAt(n, mm, g + 1))
  BY DEF JobsTyped
<1>1. PICK p \in CpuIn(mm, g) \cap DOMAIN n : d = n[p]
  BY DEF CellsAt
<1>2. p \in DOMAIN m /\ m[p] \in CellsAt(m, mm, g)
  BY DEF Kept, CellsAt
<1>3. m[p].kind = "job" /\ Only(PayloadKind(m[p].type), CellsAt(m, mm, g + 1))
  BY <1>2 DEF JobsTyped
<1>4. d.kind = "job" /\ d.type = m[p].type
  BY <1>1, <1>2, <1>3, KeptCell
<1>5. PayloadKind(d.type) \notin VertexKinds
  BY DEF PayloadKind, VertexKinds
<1> QED BY <1>3, <1>4, <1>5, KeptOnly

\* Of the structures that are neither jobs nor floats there are no new ones.
LEMMA KeptRange ==
    ASSUME NEW m, NEW n, NEW kind, Kept(m, n), kind \notin {"job"} \cup VertexKinds
    PROVE  Of(kind, Range(n)) = Of(kind, Range(m))
<1>1. ASSUME NEW c \in Of(kind, Range(n)) PROVE c \in Of(kind, Range(m))
  <2>1. PICK p \in DOMAIN n : c = n[p]
    BY DEF Of, Range
  <2>2. p \in DOMAIN m /\ c.kind = kind
    BY DEF Kept, Of
  <2>3. c = m[p]
    BY <2>1, <2>2, KeptCell
  <2> QED BY <2>2, <2>3 DEF Of, Range
<1>2. ASSUME NEW c \in Of(kind, Range(m)) PROVE c \in Of(kind, Range(n))
  <2>1. PICK p \in DOMAIN m : c = m[p]
    BY DEF Of, Range
  <2>2. p \in DOMAIN n /\ c.kind = kind
    BY DEF Kept, Of
  <2>3. c = n[p]
    BY <2>1, <2>2, KeptCell
  <2> QED BY <2>2, <2>3 DEF Of, Range
<1> QED BY <1>1, <1>2

\* Nor at a pointer.
LEMMA KeptAt ==
    ASSUME NEW m, NEW n, NEW mm, NEW g, NEW kind, Kept(m, n),
           kind \notin {"job"} \cup VertexKinds
    PROVE  Of(kind, CellsAt(n, mm, g)) = Of(kind, CellsAt(m, mm, g))
<1>1. ASSUME NEW c \in Of(kind, CellsAt(n, mm, g))
      PROVE  c \in Of(kind, CellsAt(m, mm, g))
  <2>1. PICK p \in CpuIn(mm, g) \cap DOMAIN n : c = n[p]
    BY DEF Of, CellsAt
  <2>2. p \in DOMAIN m /\ c.kind = kind
    BY DEF Kept, Of
  <2>3. c = m[p]
    BY <2>1, <2>2, KeptCell
  <2> QED BY <2>2, <2>3 DEF Of, CellsAt
<1>2. ASSUME NEW c \in Of(kind, CellsAt(m, mm, g))
      PROVE  c \in Of(kind, CellsAt(n, mm, g))
  <2>1. PICK p \in CpuIn(mm, g) \cap DOMAIN m : c = m[p]
    BY DEF Of, CellsAt
  <2>2. p \in DOMAIN n /\ c.kind = kind
    BY DEF Kept, Of
  <2>3. c = n[p]
    BY <2>1, <2>2, KeptCell
  <2> QED BY <2>2, <2>3 DEF Of, CellsAt
<1> QED BY <1>1, <1>2

\* Memory that the program relinks and the decoder flares stays typed.
LEMMA KeptTyped ==
    ASSUME NEW m, NEW n, NEW mm, Kept(m, n), WellTyped(m, mm)
    PROVE  WellTyped(n, mm)
<1> DEFINE metas == Of("attribute_meta", Range(m))
           tilers == Of("vertex_tiler", Range(m))
           buffers == Of("attribute_buffer", Range(m))
<1>1. /\ Of("attribute_meta", Range(n)) = metas
      /\ Of("vertex_tiler", Range(n)) = tilers
      /\ Of("attribute_buffer", Range(n)) = buffers
  BY KeptRange DEF VertexKinds
<1> HIDE DEF metas, tilers, buffers
<1>2. AttributesTyped(n, mm)
  <2> SUFFICES ASSUME NEW v \in tilers
               PROVE /\ Only("attribute_meta", CellsAt(n, mm, v.attribute_meta))
                     /\ \A meta \in metas :
                          meta.has => Only("attribute_buffer",
                                           CellsAt(n, mm, v.attributes + meta.no))
    BY <1>1 DEF AttributesTyped
  <2>1. /\ Only("attribute_meta", CellsAt(m, mm, v.attribute_meta))
        /\ \A meta \in metas :
             meta.has => Only("attribute_buffer",
                              CellsAt(m, mm, v.attributes + meta.no))
    BY DEF WellTyped, AttributesTyped, tilers, metas
  <2>2. Only("attribute_meta", CellsAt(n, mm, v.attribute_meta))
    BY <2>1, KeptOnly DEF VertexKinds
  <2>3. ASSUME NEW meta \in metas, meta.has
        PROVE  Only("attribute_buffer", CellsAt(n, mm, v.attributes + meta.no))
    <3>1. Only("attribute_buffer", CellsAt(m, mm, v.attributes + meta.no))
      BY <2>1, <2>3
    <3> QED BY <3>1, KeptOnly DEF VertexKinds
  <2> QED BY <2>2, <2>3
<1>3. ListsTyped(n, mm)
  <2> SUFFICES ASSUME NEW k \in DOMAIN mm,
                      NEW g \in mm[k].gpu_va..(mm[k].gpu_va + mm[k].length - 1),
                      NEW meta \in Of("attribute_meta", CellsAt(n, mm, g)),
                      meta.has
               PROVE  Only("attribute_meta", CellsAt(n, mm, g + 1))
    BY DEF ListsTyped
  <2>1. meta \in Of("attribute_meta", CellsAt(m, mm, g))
    BY KeptAt DEF VertexKinds
  <2>2. Only("attribute_meta", CellsAt(m, mm, g + 1))
    BY <2>1 DEF WellTyped, ListsTyped
  <2> QED BY <2>2, KeptOnly DEF VertexKinds
<1>4. VerticesTyped(n, mm)
  <2> SUFFICES ASSUME NEW vb \in buffers, NEW p \in NearIn(mm, vb) \cap DOMAIN n
               PROVE  n[p].kind \in {"plain", "flared"}
    BY <1>1 DEF VerticesTyped
  <2>1. p \in DOMAIN m
    BY DEF Kept
  <2>2. m[p].kind \in {"plain", "flared"}
    BY <2>1 DEF WellTyped, VerticesTyped, buffers
  <2> QED BY <2>1, <2>2, KeptCell DEF VertexKinds
<1>5. JobsTyped(n, mm)
  BY KeptJobsTyped DEF WellTyped
<1>6. DOMAIN n \subseteq Nat /\ n \in [DOMAIN n -> Structures] /\ mm \in Seq(Record)
  BY DEF WellTyped, Kept
<1> QED BY <1>2, <1>3, <1>4, <1>5, <1>6 DEF WellTyped

-----------------------------------------------------------------------------
(***************************************************************************)
(* What fetch_mapped_gpu finds is what the address is in the mappings, and *)
(* all of it when these lie apart.                                         *)
(***************************************************************************)
LEMMA FetchInMapping ==
    ASSUME NEW mm \in Seq(Record), NEW g \in Nat, NEW n \in Nat \ {0}
    PROVE  FetchMappedGpu(mm, g, n) \subseteq CpuIn(mm, g)
<1> SUFFICES ASSUME NEW a \in FetchMappedGpu(mm, g, n) PROVE a \in CpuIn(mm, g)
  OBVIOUS
<1>1. PICK k \in 1..Len(mm) :
        /\ g # 0 /\ mm[k].gpu_va <= g
        /\ g <= mm[k].gpu_va + mm[k].length
        /\ ~(g - mm[k].gpu_va + n > mm[k].length)
        /\ a = mm[k].addr + (g - mm[k].gpu_va)
  BY FetchSpec
<1>2. mm[k] \in Record
  OBVIOUS
<1>3. g < mm[k].gpu_va + mm[k].length
  BY <1>1, <1>2 DEF Record
<1>4. k \in HoldingIn(mm, g)
  BY <1>1, <1>3 DEF HoldingIn
<1> QED BY <1>1, <1>4 DEF CpuIn

LEMMA FetchUnique ==
    ASSUME NEW mm, NEW g, NEW n, NEW a \in FetchMappedGpu(mm, g, n)
    PROVE  FetchMappedGpu(mm, g, n) = {a}
BY DEF FetchMappedGpu

LEMMA FetchNull == ASSUME NEW mm, NEW n PROVE FetchMappedGpu(mm, 0, n) = {}
BY DEF FetchMappedGpu

\* The numbers of a record.
LEMMA RecordNumbers ==
    ASSUME NEW r \in Record
    PROVE  r.addr \in Nat /\ r.addr # 0 /\ r.length \in Nat /\ r.gpu_va \in Nat
BY DEF Record

\* An address where a record holds one is not behind its end.
LEMMA HeldInRecord ==
    ASSUME NEW r \in Record, NEW g \in Nat, g < r.gpu_va + r.length
    PROVE  g <= r.gpu_va + r.length
<1>1. ASSUME NEW x \in Nat, NEW m \in Nat, g < x + m PROVE g <= x + m
  BY <1>1
<1> QED BY <1>1, RecordNumbers

\* Two records that do not even touch cannot both reach to an address.
LEMMA RecordsApart ==
    ASSUME NEW k \in Record, NEW l \in Record, NEW g \in Nat,
           \/ k.gpu_va + k.length < l.gpu_va
           \/ l.gpu_va + l.length < k.gpu_va,
           k.gpu_va <= g, g <= k.gpu_va + k.length,
           l.gpu_va <= g, g <= l.gpu_va + l.length
    PROVE  FALSE
<1>1. ASSUME NEW x \in Nat, NEW m \in Nat, NEW y \in Nat, NEW n \in Nat,
             x <= g, g <= x + m, y <= g, g <= y + n
      PROVE  ~(x + m < y) /\ ~(y + n < x)
  BY <1>1
<1> QED BY <1>1, RecordNumbers

LEMMA OneRecord ==
    ASSUME mmaps \in Seq(Record), Apart, NEW g \in Nat,
           NEW k \in 1..Len(mmaps), NEW l \in 1..Len(mmaps),
           mmaps[k].gpu_va <= g, g <= mmaps[k].gpu_va + mmaps[k].length,
           mmaps[l].gpu_va <= g, g <= mmaps[l].gpu_va + mmaps[l].length
    PROVE  k = l
<1> SUFFICES ASSUME k # l PROVE FALSE
  OBVIOUS
<1>1. mmaps[k] \in Record /\ mmaps[l] \in Record
  OBVIOUS
<1>2. \/ mmaps[k].gpu_va + mmaps[k].length < mmaps[l].gpu_va
      \/ mmaps[l].gpu_va + mmaps[l].length < mmaps[k].gpu_va
  BY DEF Apart
<1> QED BY <1>1, <1>2, RecordsApart

LEMMA CpuUnique ==
    ASSUME mmaps \in Seq(Record), Apart, NEW g \in Nat,
           NEW a \in CpuOf(g), NEW b \in CpuOf(g)
    PROVE  a = b
<1>1. PICK k \in Holding(g) : a = mmaps[k].addr + (g - mmaps[k].gpu_va)
  BY DEF CpuOf, CpuIn, Holding
<1>2. PICK l \in Holding(g) : b = mmaps[l].addr + (g - mmaps[l].gpu_va)
  BY DEF CpuOf, CpuIn, Holding
<1>3. k \in DOMAIN mmaps /\ l \in DOMAIN mmaps /\ mmaps[k] \in Record /\ mmaps[l] \in Record
  BY DEF Holding, HoldingIn
<1>4. k = l
  <2>1. /\ mmaps[k].gpu_va <= g /\ g < mmaps[k].gpu_va + mmaps[k].length
        /\ mmaps[l].gpu_va <= g /\ g < mmaps[l].gpu_va + mmaps[l].length
    BY DEF Holding, HoldingIn
  <2>2. /\ g <= mmaps[k].gpu_va + mmaps[k].length
        /\ g <= mmaps[l].gpu_va + mmaps[l].length
    BY <1>3, <2>1, HeldInRecord
  <2>3. k \in 1..Len(mmaps) /\ l \in 1..Len(mmaps)
    BY <1>3
  <2> QED BY <2>1, <2>2, <2>3, OneRecord
<1> QED BY <1>1, <1>2, <1>4

LEMMA FetchWhenApart ==
    ASSUME mmaps \in Seq(Record), Apart, NEW g \in Nat \ {0}
    PROVE  Fetch(g, 1) = CpuOf(g)
<1>1. Fetch(g, 1) \subseteq CpuOf(g)
  BY FetchInMapping DEF Fetch, CpuOf
<1>2. CASE CpuOf(g) = {}
  BY <1>1, <1>2
<1>3. CASE CpuOf(g) # {}
  <2>1. PICK k \in Holding(g) : TRUE
    BY <1>3 DEF CpuOf, CpuIn, Holding
  <2>2. k \in 1..Len(mmaps) /\ mmaps[k] \in Record
        /\ mmaps[k].gpu_va <= g /\ g < mmaps[k].gpu_va + mmaps[k].length
    BY DEF Holding, HoldingIn
  <2>g. g <= mmaps[k].gpu_va + mmaps[k].length
    BY <2>2, HeldInRecord
  <2>3. ASSUME NEW l \in 1..Len(mmaps),
               mmaps[l].gpu_va <= g, g <= mmaps[l].gpu_va + mmaps[l].length
        PROVE  ~(g - mmaps[l].gpu_va + 1 > mmaps[l].length)
    <3>1. k = l
      BY <2>2, <2>g, <2>3, OneRecord
    <3>2. mmaps[l].gpu_va \in Nat /\ mmaps[l].length \in Nat
      BY <2>2, <3>1, RecordNumbers
    <3> QED BY <2>2, <3>1, <3>2
  <2>4. \E l \in 1..Len(mmaps) : /\ mmaps[l].gpu_va <= g
                                 /\ g <= mmaps[l].gpu_va + mmaps[l].length
    BY <2>2, <2>g
  <2>5. Fetch(g, 1) # {}
    BY <2>3, <2>4, FetchFinds DEF Fetch
  <2>6. PICK a \in Fetch(g, 1) : TRUE
    BY <2>5
  <2>7. \A b \in CpuOf(g) : b = a
    BY <1>1, CpuUnique
  <2> QED BY <1>1, <2>6, <2>7
<1> QED BY <1>2, <1>3

-----------------------------------------------------------------------------
(***************************************************************************)
(* The cells that the decoder reads.                                       *)
(***************************************************************************)
LEMMA CellChosen ==
    ASSUME NEW g, Readable(g)
    PROVE  Cell(g) \in Cells(g) /\ Cells(g) = {Cell(g)}
<1>1. Cell(g) \in Cells(g)
  BY DEF Cell, Readable
<1>2. ASSUME NEW c \in Cells(g), NEW d \in Cells(g) PROVE c = d
  <2>1. PICK p \in Fetch(g, 1) : c = mem[p]
    BY DEF Cells
  <2>2. PICK q \in Fetch(g, 1) : d = mem[q]
    BY DEF Cells
  <2>3. p = q
    BY FetchUnique DEF Fetch
  <2> QED BY <2>1, <2>2, <2>3
<1> QED BY <1>1, <1>2

LEMMA CellsInMapping ==
    ASSUME WellTyped(mem, mmaps), NEW g \in Nat
    PROVE  Cells(g) \subseteq CellsAt(mem, mmaps, g) /\ Cells(g) \subseteq Range(mem)
<1>1. mmaps \in Seq(Record)
  BY DEF WellTyped
<1>2. Fetch(g, 1) \subseteq CpuIn(mmaps, g)
  BY <1>1, FetchInMapping DEF Fetch
<1> QED BY <1>2 DEF Cells, CellsAt, Range

LEMMA CellsTyped ==
    ASSUME WellTyped(mem, mmaps), NEW g, NEW c \in Cells(g)
    PROVE  c \in Structures /\ g # 0
<1>1. c \in Structures
  BY DEF Cells, WellTyped
<1>2. g # 0
  BY FetchNull DEF Cells, Fetch
<1> QED BY <1>1, <1>2

\* A job, and its payload.
LEMMA JobCell ==
    ASSUME WellTyped(mem, mmaps), NEW g \in JobAddrs \cup {0},
           NEW h \in Cells(g)
    PROVE  /\ g \in JobAddrs /\ g \in Nat /\ g + 1 \in Nat
           /\ h \in Structures /\ h.kind = "job"
           /\ h.type \in JobTypes /\ h.next \in JobAddrs \cup {0}
           /\ \A c \in Cells(g + 1) : c \in Structures /\ c.kind = PayloadKind(h.type)
<1>1. g \in JobAddrs /\ h \in Structures
  BY CellsTyped
<1>2. g \in Nat /\ g + 1 \in Nat
  BY <1>1, TraceAssumption
<1>3. h \in CellsAt(mem, mmaps, g)
  BY <1>2, CellsInMapping
<1>4. h.kind = "job" /\ Only(PayloadKind(h.type), CellsAt(mem, mmaps, g + 1))
  BY <1>1, <1>3 DEF WellTyped, JobsTyped
<1>5. Cells(g + 1) \subseteq CellsAt(mem, mmaps, g + 1)
  BY <1>2, CellsInMapping
<1>6. ASSUME NEW c \in Cells(g + 1)
      PROVE  c \in Structures /\ c.kind = PayloadKind(h.type)
  BY <1>4, <1>5, CellsTyped DEF Only, Of
<1> QED BY <1>1, <1>2, <1>4, <1>6, JobNext

-----------------------------------------------------------------------------
(***************************************************************************)
(* Flare lands near the vertices: in the buffer, or in the bytes that its  *)
(* vectors lack.                                                           *)
(***************************************************************************)
LEMMA VertexInBuffer ==
    ASSUME NEW e \in Nat \ {0}, NEW t \in Nat,
           NEW k \in 0..((t \div e) - 1)
    PROVE  k \in Nat /\ k * e \in Nat /\ k * e + e <= t
<1> DEFINE n == t \div e
<1>1. n \in Int /\ e * n <= t
  OBVIOUS
<1> HIDE DEF n
<1>2. k \in Nat /\ k + 1 <= n
  BY <1>1 DEF n
<1>3. k * e + e = e * (k + 1)
  BY <1>2
<1>4. e * (k + 1) <= e * n
  BY <1>1, <1>2
<1> QED BY <1>1, <1>2, <1>3, <1>4

\* From one vertex to the next it is no further in floats than in bytes.
LEMMA FloatsInBytes ==
    ASSUME NEW e \in Nat, NEW k \in Nat
    PROVE  /\ e \div 4 \in Nat /\ 4 * (e \div 4) <= e /\ e < 4 * (e \div 4) + 4
           /\ k * (4 * (e \div 4)) \in Nat /\ k * (4 * (e \div 4)) <= k * e
<1> DEFINE f == 4 * (e \div 4)
<1>1. e \div 4 \in Nat /\ f \in Nat /\ f <= e /\ e < f + 4
  OBVIOUS
<1> HIDE DEF f
<1>2. k * f \in Nat /\ k * f <= k * e
  BY <1>1
<1> QED BY <1>1, <1>2 DEF f

\* The first n floats of the vertices of a buffer.
LEMMA InFloats ==
    ASSUME NEW vb \in attribute_buffer, vb.element_size # 0,
           NEW p \in Nat, NEW n \in Nat, NEW a \in Floats(vb, p, n)
    PROVE  /\ vb.total_size # 0 /\ a \in Int /\ p <= a
           /\ a <= p + (vb.total_size - vb.element_size) + (4 * n - 1)
<1> DEFINE e == vb.element_size
           t == vb.total_size
           f == 4 * (e \div 4)
<1>1. e \in Nat \ {0} /\ t \in Nat
  BY DEF attribute_buffer
<1>2. PICK k \in 0..((t \div e) - 1), c \in 0..(4 * n - 1) : a = p + k * f + c
  BY DEF Floats, VertexCount, ComponentCount, SizeofFloat
<1>3. k \in Nat /\ k * e \in Nat /\ k * e + e <= t
  BY <1>1, VertexInBuffer
<1>4. k * f \in Nat /\ k * f <= k * e
  BY <1>1, <1>3, FloatsInBytes
<1> DEFINE x == k * f
           y == k * e
<1>5. x \in Nat /\ y \in Nat /\ x <= y /\ y + e <= t /\ a = p + x + c
  BY <1>2, <1>3, <1>4
<1> HIDE DEF e, t, f, x, y
<1>6. t # 0 /\ a \in Int /\ p <= a /\ a <= p + (t - e) + (4 * n - 1)
  BY <1>1, <1>5
<1> QED BY <1>6 DEF e, t

LEMMA RawIsNat == ASSUME NEW vb \in attribute_buffer PROVE Raw(vb) \in Nat
<1>1. vb.elements \in Nat
  BY DEF attribute_buffer
<1>2. ASSUME NEW x \in Nat PROVE x - (x % 4) \in Nat
  OBVIOUS
<1> QED BY <1>1, <1>2 DEF Raw

LEMMA LackingSpec ==
    ASSUME NEW vb \in attribute_buffer
    PROVE  Lacking(vb) \in Nat /\ 12 - vb.element_size <= Lacking(vb)
<1>1. vb.element_size \in Nat
  BY DEF attribute_buffer
<1> QED BY <1>1 DEF Lacking, SizeofFloat

\* Where a buffer's vertices may be is a CPU address.
LEMMA CpuIsNat ==
    ASSUME NEW mm \in Seq(Record), NEW g \in Nat, NEW p \in CpuIn(mm, g)
    PROVE  p \in Nat
<1>1. PICK l \in HoldingIn(mm, g) : p = mm[l].addr + (g - mm[l].gpu_va)
  BY DEF CpuIn
<1>2. mm[l] \in Record /\ mm[l].gpu_va <= g
  BY DEF HoldingIn
<1>3. mm[l].addr \in Nat /\ mm[l].gpu_va \in Nat
  BY <1>2, RecordNumbers
<1> QED BY <1>1, <1>2, <1>3

\* Floats of the vertices, up to three, or as many as they have.
LEMMA FloatsNear ==
    ASSUME mmaps \in Seq(Record), NEW vb \in attribute_buffer, vb.element_size # 0,
           NEW p \in Vertices(vb), NEW n \in Nat, n <= 3 \/ n = ComponentCount(vb)
    PROVE  Floats(vb, p, n) \subseteq Near(vb)
<1> DEFINE e == vb.element_size
           t == vb.total_size
<1> SUFFICES ASSUME NEW a \in Floats(vb, p, n) PROVE a \in Near(vb)
  OBVIOUS
<1>1. e \in Nat \ {0} /\ t \in Nat /\ Raw(vb) \in Nat
  BY RawIsNat DEF attribute_buffer
<1>2. t # 0
  <2>1. PICK k \in 0..((t \div e) - 1) : TRUE
    BY DEF Floats, VertexCount
  <2>2. k * e \in Nat /\ k * e + e <= t
    BY <1>1, VertexInBuffer
  <2> QED BY <1>1, <2>2
<1>3. p \in CpuIn(mmaps, Raw(vb))
  BY <1>1, <1>2, FetchInMapping DEF Vertices, Fetch
<1>4. p \in Nat
  BY <1>1, <1>3, CpuIsNat
<1>5. a \in Int /\ p <= a /\ a <= p + (t - e) + (4 * n - 1)
  BY <1>4, InFloats
<1>6. 4 * n <= 12 \/ 4 * n <= e
  <2>1. 4 * (e \div 4) <= e
    BY <1>1, FloatsInBytes
  <2>2. n <= 3 \/ n = e \div 4
    BY DEF ComponentCount, SizeofFloat
  <2> QED BY <2>1, <2>2
<1>7. Lacking(vb) \in Nat /\ 12 - e <= Lacking(vb)
  BY LackingSpec
<1> DEFINE l == Lacking(vb)
<1> HIDE DEF e, t, l
<1>8. a <= p + t + l - 1
  BY <1>1, <1>4, <1>5, <1>6, <1>7 DEF l
<1>9. a \in p..(p + t + l - 1)
  BY <1>1, <1>4, <1>5, <1>7, <1>8 DEF l
<1> QED BY <1>3, <1>9 DEF Near, NearIn, t, l

LEMMA FlareNear ==
    ASSUME mmaps \in Seq(Record), NEW vb \in attribute_buffer, vb.element_size # 0
    PROVE  Written(vb) \subseteq Near(vb) /\ Touched(vb) \subseteq Near(vb)
<1>1. ASSUME NEW p \in Vertices(vb) PROVE Flare(vb, p) \subseteq Near(vb)
  BY FloatsNear DEF Flare
<1>2. ASSUME NEW p \in Vertices(vb) PROVE Printed(vb, p) \subseteq Near(vb)
  BY FloatsNear DEF Printed
<1> QED BY <1>1, <1>2 DEF Written, Touched

-----------------------------------------------------------------------------
(***************************************************************************)
(* What a step does to memory.                                             *)
(***************************************************************************)
LEMMA RelinkKeeps ==
    ASSUME WellTyped(mem, mmaps), NEW a \in DOMAIN mem, NEW g \in JobAddrs \cup {0},
           mem[a].kind = "job", mem' = [mem EXCEPT ![a].next = g]
    PROVE  Kept(mem, mem')
<1>1. mem \in [DOMAIN mem -> Structures]
  BY DEF WellTyped
<1>2. /\ mem[a] \in job_descriptor_header
      /\ [mem[a] EXCEPT !.next = g] \in job_descriptor_header
      /\ [mem[a] EXCEPT !.next = g].type = mem[a].type
  BY <1>1, RelinkedJob, StructureOfKind
<1>3. DOMAIN mem' = DOMAIN mem
  OBVIOUS
<1>4. mem'[a] = [mem[a] EXCEPT !.next = g]
  OBVIOUS
<1>5. \A p \in DOMAIN mem : p # a => mem'[p] = mem[p]
  OBVIOUS
<1>6. Relinked(mem[a], mem'[a])
  BY <1>2, <1>4 DEF Relinked
<1>7. \A p \in DOMAIN mem : mem'[p] \in Structures
  BY <1>1, <1>5, <1>6, HeaderIsStructure DEF Relinked
<1>8. mem' \in [DOMAIN mem -> Structures]
  BY <1>3, <1>7
<1> QED BY <1>3, <1>5, <1>6, <1>8 DEF Kept

\* Flare is added to floats.
LEMMA FlareKeeps ==
    ASSUME WellTyped(mem, mmaps), NEW vb \in Range(mem),
           vb.kind = "attribute_buffer", mem' = WithFlare(vb)
    PROVE  /\ Kept(mem, mem')
           /\ \A a \in DOMAIN mem : mem'[a] # mem[a] => a \in Near(vb)
           /\ \A a \in DOMAIN mem : mem[a].kind = "job" => mem'[a] = mem[a]
<1> DEFINE new == IF VerticesReadable(vb) THEN Written(vb) ELSE {}
<1>1. vb \in attribute_buffer /\ mem \in [DOMAIN mem -> Structures]
  BY StructureOfKind DEF WellTyped, Range
<1>2. new \subseteq DOMAIN mem /\ new \subseteq Near(vb)
  BY <1>1, FlareNear DEF VerticesReadable, Touched, WellTyped
<1>3. \A a \in new : mem[a].kind \in VertexKinds
  BY <1>2 DEF WellTyped, VerticesTyped, Of, Near, VertexKinds
<1>6. DOMAIN mem' = DOMAIN mem
  BY DEF WithFlare
<1>7. mem' = [a \in DOMAIN mem |-> IF a \in new THEN [kind |-> "flared"] ELSE mem[a]]
  BY DEF WithFlare
<1> HIDE DEF new
<1>8. /\ \A a \in new : mem'[a] = [kind |-> "flared"]
      /\ \A a \in DOMAIN mem : a \notin new => mem'[a] = mem[a]
  BY <1>2, <1>7
<1>9. \A a \in DOMAIN mem : mem'[a] \in Structures
  BY <1>1, <1>8, FlaredIsStructure
<1>10. \A a \in new : Flared(mem[a], mem'[a])
  BY <1>3, <1>8 DEF Flared, VertexKinds
<1>11. Kept(mem, mem')
  <2>1. mem' \in [DOMAIN mem -> Structures]
    BY <1>7, <1>9
  <2> QED BY <1>6, <1>8, <1>10, <2>1 DEF Kept
<1>12. \A a \in DOMAIN mem : mem[a].kind = "job" => a \notin new
  BY <1>3 DEF VertexKinds
<1> QED BY <1>2, <1>8, <1>11, <1>12

LEMMA KeptSame ==
    ASSUME WellTyped(mem, mmaps), mem' = mem
    PROVE  Kept(mem, mem')
BY DEF Kept, WellTyped

\* What was readable is, nothing else, and the cell keeps what Kept says.
LEMMA KeptReadable ==
    ASSUME Kept(mem, mem'), mmaps' = mmaps, NEW g
    PROVE  /\ Readable(g)' <=> Readable(g)
           /\ Readable(g) =>
                \E p \in DOMAIN mem : Cell(g) = mem[p] /\ Cell(g)' = mem'[p]
<1>1. Fetch(g, 1)' = Fetch(g, 1) /\ DOMAIN mem' = DOMAIN mem
  BY DEF Fetch, Kept
<1>2. Readable(g)' <=> Readable(g)
  BY <1>1 DEF Readable, Cells
<1>3. ASSUME Readable(g)
      PROVE  \E p \in DOMAIN mem : Cell(g) = mem[p] /\ Cell(g)' = mem'[p]
  <2>1. PICK p \in Fetch(g, 1) : p \in DOMAIN mem /\ Cell(g) = mem[p]
    BY <1>3, CellChosen DEF Cells
  <2>2. Fetch(g, 1)' = {p}
    BY <1>1, FetchUnique DEF Fetch
  <2>3. Cells(g)' = {mem'[p]}
    BY <1>1, <2>1, <2>2 DEF Cells
  <2>4. Cell(g)' = mem'[p]
    BY <2>3 DEF Cell
  <2> QED BY <2>1, <2>4
<1> QED BY <1>2, <1>3

\* A cell of a kind stays of that kind, a job of its type.
LEMMA KeptCellAt ==
    ASSUME Kept(mem, mem'), mmaps' = mmaps, NEW g, Readable(g)
    PROVE  /\ Cell(g)'.kind = Cell(g).kind
                \/ (Cell(g)'.kind \in VertexKinds /\ Cell(g).kind \in VertexKinds)
           /\ Cell(g).kind \notin {"job"} \cup VertexKinds => Cell(g)' = Cell(g)
           /\ Cell(g).kind = "job" => Cell(g)'.kind = "job" /\ Cell(g)'.type = Cell(g).type
<1>1. PICK p \in DOMAIN mem : Cell(g) = mem[p] /\ Cell(g)' = mem'[p]
  BY KeptReadable
<1> QED BY <1>1, KeptCell

-----------------------------------------------------------------------------
(***************************************************************************)
(* Where the decoder is: at an atom of the call, at a job that it can      *)
(* read, in the attributes of a vertex or tiler job.                       *)
(***************************************************************************)
EntryTyped(g) == Readable(g) => Cell(g).kind = "attribute_meta"
AtomsTyped ==
    \A n \in DOMAIN atoms :
        SoftJob \notin atoms[n].core_req => atoms[n].jc \in JobAddrs \cup {0}
AtJob == pc \in {"payload", "attributes", "framebuffer", "next"}
InTiler == pc \in {"attributes", "framebuffer"}

Placed ==
    /\ AtomsTyped
    /\ pc \notin {"call", "atom"} => i \in DOMAIN atoms
    /\ AtJob => Readable(job)
    /\ InTiler => Readable(payload) /\ IsType({"VERTEX", "TILER"})
    /\ pc = "attributes" => EntryTyped(s)
TypeInv == TypeOK /\ Placed

LEMMA TypeInit == Init => TypeInv
<1> SUFFICES ASSUME Init PROVE TypeInv
  OBVIOUS
<1>1. PICK c \in Submissions :
         /\ mem = c.mem /\ mmaps = c.mmaps /\ threaded = c.threaded
         /\ writable = c.writable /\ stride = c.stride /\ atoms = c.atoms
  BY DEF Init
<1>2. /\ WellTyped(mem, mmaps)
      /\ {threaded, writable, stride} \subseteq BOOLEAN
      /\ atoms \in Seq(Atom) /\ AtomsTyped
  BY <1>1, SubmissionsAssumption DEF AtomsTyped
<1>3. /\ pc = "call" /\ job = 0 /\ s = 0 /\ status = "running" /\ writes = 0 /\ i = 1
      /\ depth \in 0..StackDepth
  BY TraceAssumption DEF Init
<1>4. i \in 1..(Len(atoms) + 1)
  BY <1>2, <1>3
<1>5. TypeOK
  BY <1>2, <1>3, <1>4 DEF TypeOK
<1> QED BY <1>2, <1>3, <1>5 DEF TypeInv, Placed, AtJob, InTiler

\* A place that was right in the memory before the step is in the one after.
LEMMA PlacedAt ==
    ASSUME Kept(mem, mem'), mmaps' = mmaps, AtomsTyped,
           atoms' = atoms, pc' \notin {"call", "atom"} => i' \in DOMAIN atoms,
           NEW g, NEW e, g = job', e = s',
           AtJob' => Readable(g),
           InTiler' => /\ Readable(g + 1) /\ Cell(g).kind = "job"
                       /\ Cell(g).type \in {"VERTEX", "TILER"},
           pc' = "attributes" => EntryTyped(e)
    PROVE  Placed'
<1>1. AtomsTyped'
  BY DEF AtomsTyped
<1>2. /\ Readable(job)' <=> Readable(g)'
      /\ Cell(job)' = Cell(g)'
      /\ Readable(payload)' <=> Readable(g + 1)'
      /\ Readable(s)' <=> Readable(e)'
      /\ Cell(s)' = Cell(e)'
  BY DEF Readable, Cell, Cells, Fetch, payload
<1>3. AtJob' => Readable(job)'
  <2>1. Readable(g)' <=> Readable(g)
    BY KeptReadable
  <2> QED BY <1>2, <2>1
<1>4. ASSUME InTiler' PROVE Readable(payload)' /\ IsType({"VERTEX", "TILER"})'
  <2>1. Readable(g)
    BY <1>4 DEF InTiler, AtJob
  <2>2. Readable(g + 1)'
    BY <1>4, KeptReadable
  <2>3. Cell(g)'.type = Cell(g).type
    BY <1>4, <2>1, KeptCellAt
  <2> QED BY <1>2, <1>4, <2>2, <2>3 DEF IsType
<1>5. ASSUME pc' = "attributes" PROVE EntryTyped(s)'
  <2>1. Readable(e) => Cell(e).kind = "attribute_meta"
    BY <1>5 DEF EntryTyped
  <2>2. Readable(e)' <=> Readable(e)
    BY KeptReadable
  <2>3. Readable(e) => Cell(e)' = Cell(e)
    BY <2>1, KeptCellAt DEF VertexKinds
  <2> QED BY <1>2, <2>1, <2>2, <2>3 DEF EntryTyped
<1>6. pc' \notin {"call", "atom"} => i' \in DOMAIN atoms'
  OBVIOUS
<1> QED BY <1>1, <1>3, <1>4, <1>5, <1>6 DEF Placed

\* The job that the decoder is at, and its payload.
LEMMA AtTypedJob ==
    ASSUME TypeInv, Readable(job)
    PROVE  /\ job \in JobAddrs /\ job \in Nat /\ payload \in Nat
           /\ Cell(job) \in Cells(job) /\ Cell(job).kind = "job"
           /\ Cell(job).type \in JobTypes /\ Cell(job).next \in JobAddrs \cup {0}
           /\ \A c \in Cells(payload) : /\ c \in Structures
                                        /\ c.kind = PayloadKind(Cell(job).type)
<1>1. WellTyped(mem, mmaps) /\ job \in JobAddrs \cup {0}
  BY DEF TypeInv, TypeOK
<1>2. Cell(job) \in Cells(job)
  BY CellChosen
<1> QED BY <1>1, <1>2, JobCell DEF payload

LEMMA AtTypedTiler ==
    ASSUME TypeInv, Readable(job), IsType({"VERTEX", "TILER"}), NEW v \in Cells(payload)
    PROVE  /\ v \in payload_vertex_tiler32 /\ v.kind = "vertex_tiler"
           /\ v \in Range(mem)
           /\ v.attribute_meta \in Nat /\ v.attributes \in Nat
           /\ v.shader \in Nat /\ EntryTyped(v.attribute_meta)
<1>1. v \in Structures /\ v.kind = "vertex_tiler"
  BY AtTypedJob DEF IsType, PayloadKind
<1>2. WellTyped(mem, mmaps) /\ payload \in Nat
  BY AtTypedJob DEF TypeInv, TypeOK
<1>3. v \in Range(mem)
  BY <1>2, CellsInMapping
<1>4. v \in payload_vertex_tiler32
  BY <1>1, StructureOfKind
<1>5. v.attribute_meta \in Nat /\ v.attributes \in Nat /\ v.shader \in Nat
  BY <1>4 DEF payload_vertex_tiler32
<1>6. Only("attribute_meta", CellsAt(mem, mmaps, v.attribute_meta))
  BY <1>1, <1>2, <1>3 DEF WellTyped, AttributesTyped, Of
<1>7. EntryTyped(v.attribute_meta)
  BY <1>2, <1>5, <1>6, CellChosen, CellsInMapping DEF EntryTyped, Only, Of
<1> QED BY <1>1, <1>3, <1>4, <1>5, <1>7

\* An entry of an attribute list, the buffer it names, and the next one.
LEMMA AtEntry ==
    ASSUME TypeInv, pc = "attributes", NEW meta \in Cells(s)
    PROVE  /\ meta.has \in BOOLEAN /\ meta.no \in Nat
           /\ meta.kind = "attribute_meta"
           /\ meta.has => EntryTyped(s + 1)
           /\ meta.has =>
                \A v \in Cells(payload) :
                  \A vb \in Cells(v.attributes + meta.no) :
                    vb \in Range(mem) /\ vb.kind = "attribute_buffer"
<1>1. /\ WellTyped(mem, mmaps) /\ s \in Nat /\ s + 1 \in Nat
      /\ Readable(job) /\ IsType({"VERTEX", "TILER"}) /\ EntryTyped(s)
  BY DEF TypeInv, TypeOK, Placed, AtJob, InTiler
<1>2. meta.kind = "attribute_meta" /\ meta \in Structures
  BY <1>1, CellChosen, CellsTyped DEF EntryTyped, Readable
<1>3. meta.has \in BOOLEAN /\ meta.no \in Nat
  BY <1>2, StructureOfKind DEF attribute_meta_t
<1>4. ASSUME meta.has PROVE EntryTyped(s + 1)
  <2>1. meta \in Of("attribute_meta", CellsAt(mem, mmaps, s))
    BY <1>1, <1>2, CellsInMapping DEF Of
  <2>2. PICK k \in HoldingIn(mmaps, s) : TRUE
    BY <2>1 DEF Of, CellsAt, CpuIn
  <2>3. mmaps[k] \in Record /\ k \in DOMAIN mmaps
    BY <1>1 DEF HoldingIn, WellTyped
  <2>4. s \in mmaps[k].gpu_va..(mmaps[k].gpu_va + mmaps[k].length - 1)
    BY <1>1, <2>3 DEF HoldingIn, Record
  <2>5. Only("attribute_meta", CellsAt(mem, mmaps, s + 1))
    BY <1>1, <1>4, <2>1, <2>3, <2>4 DEF WellTyped, ListsTyped
  <2> QED BY <1>1, <2>5, CellChosen, CellsInMapping DEF EntryTyped, Only, Of
<1>5. ASSUME meta.has, NEW v \in Cells(payload), NEW vb \in Cells(v.attributes + meta.no)
      PROVE  vb \in Range(mem) /\ vb.kind = "attribute_buffer"
  <2>1. v \in Of("vertex_tiler", Range(mem)) /\ v.attributes + meta.no \in Nat
    BY <1>1, <1>3, AtTypedTiler DEF Of
  <2>2. meta \in Of("attribute_meta", Range(mem))
    BY <1>1, <1>2, CellsInMapping DEF Of
  <2>3. Only("attribute_buffer", CellsAt(mem, mmaps, v.attributes + meta.no))
    BY <1>1, <1>5, <2>1, <2>2 DEF WellTyped, AttributesTyped
  <2>4. vb \in CellsAt(mem, mmaps, v.attributes + meta.no) /\ vb \in Range(mem)
    BY <1>1, <2>1, CellsInMapping
  <2> QED BY <2>3, <2>4 DEF Only, Of
<1> QED BY <1>2, <1>3, <1>4, <1>5

\* The places of the code, and how a call can be.
Places == {"call", "atom", "header", "payload", "attributes", "framebuffer",
           "next", "atom_end"}
Statuses == {"running", "done", "crashed", "exhausted"}

LEMMA TypeAt ==
    ASSUME TypeInv, Kept(mem, mem'), mmaps' = mmaps, threaded' = threaded,
           writable' = writable, stride' = stride, atoms' = atoms,
           i' \in 1..(Len(atoms) + 1), writes' \in Nat,
           pc' \in Places, status' \in Statuses, depth' \in 0..StackDepth,
           pc' \notin {"call", "atom"} => i' \in DOMAIN atoms,
           NEW g \in JobAddrs \cup {0}, NEW e \in Nat, g = job', e = s',
           AtJob' => Readable(g),
           InTiler' => /\ Readable(g + 1) /\ Cell(g).kind = "job"
                       /\ Cell(g).type \in {"VERTEX", "TILER"},
           pc' = "attributes" => EntryTyped(e)
    PROVE  TypeInv'
<1>1. Placed'
  BY PlacedAt DEF TypeInv, Placed
<1>2. WellTyped(mem', mmaps')
  BY KeptTyped DEF TypeInv, TypeOK
<1>3. /\ {threaded, writable, stride}' \subseteq BOOLEAN
      /\ atoms' \in Seq(Atom) /\ i' \in 1..(Len(atoms') + 1)
      /\ job' \in JobAddrs \cup {0} /\ {s, writes}' \subseteq Nat
      /\ pc' \in Places /\ status' \in Statuses
  BY DEF TypeInv, TypeOK
<1>4. TypeOK'
  BY <1>2, <1>3 DEF TypeOK, Places, Statuses
<1> QED BY <1>1, <1>4 DEF TypeInv

\* A step that reads memory, stays at its job and goes on at another place of the
\* code, where it also may be, or crashes.
LEMMA TypeStays ==
    ASSUME TypeInv, mem' = mem, mmaps' = mmaps, threaded' = threaded,
           writable' = writable, stride' = stride, atoms' = atoms,
           i' = i, writes' = writes, job' = job,
           pc' \in Places, status' \in Statuses, depth' \in 0..StackDepth,
           pc' \notin {"call", "atom"} => pc \notin {"call", "atom"} \/ i \in DOMAIN atoms,
           NEW e \in Nat, e = s',
           AtJob' => Readable(job),
           InTiler' => Readable(payload) /\ IsType({"VERTEX", "TILER"}),
           pc' = "attributes" => EntryTyped(e)
    PROVE  TypeInv'
<1>1. /\ Kept(mem, mem') /\ i' \in 1..(Len(atoms) + 1) /\ writes' \in Nat
      /\ job \in JobAddrs \cup {0}
  BY KeptSame DEF TypeInv, TypeOK
<1>2. pc' \notin {"call", "atom"} => i' \in DOMAIN atoms
  BY DEF TypeInv, Placed
<1>3. InTiler' => Readable(job)
  BY DEF AtJob, InTiler
<1>4. InTiler' => /\ Readable(job + 1) /\ Cell(job).kind = "job"
                  /\ Cell(job).type \in {"VERTEX", "TILER"}
  BY <1>3, AtTypedJob DEF IsType, payload
<1> QED BY <1>1, <1>2, <1>4, TypeAt

-----------------------------------------------------------------------------
(***************************************************************************)
(* Every step keeps the types.                                             *)
(***************************************************************************)
LEMMA TypeHeader ==
    ASSUME TypeInv, Header, UNCHANGED <<call, i, shown>>, depth' \in 0..StackDepth
    PROVE  TypeInv'
<1>1. /\ pc = "header" /\ job' = job /\ s' = s /\ s \in Nat
      /\ pc' = "payload" => Readable(job)
      /\ pc' \in {"header", "payload", "atom_end"} /\ status' \in Statuses
  BY DEF Header, Running, HeaderUnmapped, ChainReturns, Reads, Crash, Statuses, TypeInv, TypeOK
<1>2. /\ mem' = mem /\ mmaps' = mmaps /\ threaded' = threaded
      /\ writable' = writable /\ stride' = stride /\ atoms' = atoms
      /\ i' = i /\ writes' = writes
  BY DEF Header, fixed, call
<1>3. AtJob' => pc' = "payload"
  BY <1>1 DEF AtJob
<1>4. pc' # "attributes" /\ ~InTiler'
  BY <1>1 DEF InTiler
<1> QED BY <1>1, <1>2, <1>3, <1>4, TypeStays DEF Places

\* The steps that go on to the next job.
LEMMA TypeToNext ==
    ASSUME TypeInv, mem' = mem, UNCHANGED fixed, UNCHANGED <<call, i, shown>>,
           job' = job, s' = s, AtJob, pc' \in {"next", pc}, status' \in Statuses,
           depth' \in 0..StackDepth
    PROVE  TypeInv'
<1>1. /\ mmaps' = mmaps /\ threaded' = threaded
      /\ writable' = writable /\ stride' = stride /\ atoms' = atoms
      /\ i' = i /\ writes' = writes
  BY DEF fixed, call
<1>2. /\ Readable(job) /\ s \in Nat /\ pc \in Places
      /\ InTiler' => Readable(payload) /\ IsType({"VERTEX", "TILER"})
      /\ pc' = "attributes" => EntryTyped(s)
  BY DEF TypeInv, TypeOK, Placed, AtJob, InTiler, Places
<1>3. pc' \in Places /\ pc \notin {"call", "atom"}
  BY <1>2 DEF Places, AtJob
<1> QED BY <1>1, <1>2, <1>3, TypeStays

LEMMA TypeSetValue ==
    ASSUME TypeInv, SetValue, UNCHANGED <<call, i, shown>>, depth' \in 0..StackDepth
    PROVE  TypeInv'
<1>1. /\ mem' = mem /\ UNCHANGED fixed /\ job' = job /\ s' = s /\ AtJob
      /\ pc' \in {"next", pc} /\ status' \in Statuses
  BY DEF SetValue, Running, Reads, Crash, AtJob, Statuses, TypeInv, TypeOK
<1> QED BY <1>1, TypeToNext

LEMMA TypeFragment ==
    ASSUME TypeInv, Fragment, UNCHANGED <<call, i, shown>>, depth' \in 0..StackDepth
    PROVE  TypeInv'
<1>1. /\ mem' = mem /\ UNCHANGED fixed /\ job' = job /\ s' = s /\ AtJob
      /\ pc' \in {"next", pc} /\ status' \in Statuses
  BY DEF Fragment, Running, Reads, Crash, AtJob, Statuses, TypeInv, TypeOK
<1> QED BY <1>1, TypeToNext

LEMMA TypeDumpPayload ==
    ASSUME TypeInv, DumpPayload, UNCHANGED <<call, i, shown>>, depth' \in 0..StackDepth
    PROVE  TypeInv'
<1>1. /\ mem' = mem /\ UNCHANGED fixed /\ job' = job /\ s' = s /\ AtJob
      /\ pc' \in {"next", pc} /\ status' \in Statuses
  BY DEF DumpPayload, Running, Reads, Crash, AtJob, Statuses, TypeInv, TypeOK
<1> QED BY <1>1, TypeToNext

LEMMA TypeVertexTilerWords ==
    ASSUME TypeInv, VertexTilerWords, UNCHANGED <<call, i, shown>>, depth' \in 0..StackDepth
    PROVE  TypeInv'
<1>1. /\ mem' = mem /\ UNCHANGED fixed /\ job' = job /\ s' = s /\ AtJob
      /\ pc' \in {"next", pc} /\ status' \in Statuses
  BY DEF VertexTilerWords, Running, Reads, Crash, AtJob, Statuses, TypeInv, TypeOK
<1> QED BY <1>1, TypeToNext

LEMMA TypeVertexTiler ==
    ASSUME TypeInv, VertexTiler, UNCHANGED <<call, i, shown>>, depth' \in 0..StackDepth
    PROVE  TypeInv'
<1>1. /\ mem' = mem /\ job' = job /\ UNCHANGED fixed /\ AtJob
      /\ IsType({"VERTEX", "TILER"}) /\ pc = "payload"
  BY DEF VertexTiler, Running, AtJob
<1>2. Readable(job)
  BY <1>1 DEF TypeInv, Placed
<1>3. CASE ~Readable(payload) /\ Crash /\ UNCHANGED <<s, depth>>
  BY <1>1, <1>3, TypeToNext DEF Crash, Statuses
<1>4. CASE \E v \in Cells(payload) :
             \/ v.shader \in Sabotaged /\ SabotagedJob
             \/ v.shader \notin Sabotaged /\ Shader(v)
  <2>1. PICK v \in Cells(payload) :
             \/ v.shader \in Sabotaged /\ SabotagedJob
             \/ v.shader \notin Sabotaged /\ Shader(v)
    BY <1>4
  <2>2. CASE SabotagedJob
    BY <1>1, <2>2, TypeToNext DEF SabotagedJob, Statuses, TypeInv, TypeOK
  <2>3. CASE Shader(v)
    <3>1. v.attribute_meta \in Nat /\ EntryTyped(v.attribute_meta)
      BY <1>1, <1>2, AtTypedTiler
    <3>2. Readable(payload)
      BY DEF Readable
    <3>3. /\ s' = v.attribute_meta /\ pc' \in {"attributes", "payload"}
          /\ status' \in Statuses
      BY <1>1, <2>3 DEF Shader, Reads, Crash, Statuses, TypeInv, TypeOK
    <3>4. /\ mmaps' = mmaps /\ threaded' = threaded
          /\ writable' = writable /\ stride' = stride /\ atoms' = atoms
          /\ i' = i /\ writes' = writes
      BY <1>1 DEF fixed, call
    <3> QED BY <1>1, <1>2, <3>1, <3>2, <3>3, <3>4, TypeStays DEF Places
  <2> QED BY <2>1, <2>2, <2>3
<1> QED BY <1>3, <1>4 DEF VertexTiler

\* What an entry of an attribute list changes.
LEMMA AttributeMemory ==
    ASSUME TypeInv, Attribute
    PROVE  \/ mem' = mem
           \/ \E vb \in Range(mem) : vb.kind = "attribute_buffer" /\ mem' = WithFlare(vb)
<1>1. pc = "attributes"
  BY DEF Attribute, Running
<1>2. SUFFICES ASSUME mem' # mem
               PROVE  \E vb \in Range(mem) :
                         vb.kind = "attribute_buffer" /\ mem' = WithFlare(vb)
  OBVIOUS
<1>3. PICK meta \in Cells(s), v \in Cells(payload) :
         meta.has /\ TraceAttribute(v.attributes + meta.no)
  BY <1>2 DEF Attribute
<1>4. PICK vb \in Cells(v.attributes + meta.no) : mem' = WithFlare(vb)
  BY <1>2, <1>3 DEF TraceAttribute
<1> QED BY <1>1, <1>3, <1>4, AtEntry

LEMMA AttributeKeeps ==
    ASSUME TypeInv, Attribute
    PROVE  Kept(mem, mem')
BY AttributeMemory, FlareKeeps, KeptSame DEF TypeInv, TypeOK

LEMMA TypeAttribute ==
    ASSUME TypeInv, Attribute, UNCHANGED <<call, i, shown>>, depth' \in 0..StackDepth
    PROVE  TypeInv'
<1>1. /\ pc = "attributes" /\ job' = job /\ job \in JobAddrs \cup {0} /\ s \in Nat
      /\ Readable(job) /\ Readable(payload) /\ IsType({"VERTEX", "TILER"})
      /\ EntryTyped(s) /\ i \in DOMAIN atoms
  BY DEF Attribute, Running, TypeInv, TypeOK, Placed, AtJob, InTiler
<1>2. /\ mmaps' = mmaps /\ threaded' = threaded
      /\ writable' = writable /\ stride' = stride /\ atoms' = atoms
      /\ i' = i /\ writes' = writes /\ i' \in 1..(Len(atoms) + 1) /\ writes' \in Nat
  BY DEF Attribute, fixed, call, TypeInv, TypeOK
<1>3. /\ s' \in Nat /\ EntryTyped(s') /\ pc' \in {"attributes", "framebuffer"}
      /\ status' \in Statuses
  <2>1. CASE ~Readable(s) /\ Crash /\ UNCHANGED <<mem, s>>
    BY <1>1, <2>1 DEF Crash, Statuses
  <2>2. CASE \E meta \in Cells(s), v \in Cells(payload) :
               /\ meta.has
               /\ TraceAttribute(v.attributes + meta.no)
               /\ s' = NextAttribute
    <3>1. PICK meta \in Cells(s), v \in Cells(payload) :
               /\ meta.has
               /\ TraceAttribute(v.attributes + meta.no)
               /\ s' = NextAttribute
      BY <2>2
    <3>2. EntryTyped(s + 1) /\ s' = s + 1
      BY <1>1, <3>1, AtEntry DEF NextAttribute
    <3>3. pc' = "attributes" /\ status' \in Statuses
      BY <1>1, <3>1 DEF TraceAttribute, Reads, Crash, Statuses, TypeInv, TypeOK
    <3> QED BY <1>1, <3>2, <3>3
  <2>3. CASE /\ \E meta \in Cells(s) : ~meta.has
             /\ pc' = "framebuffer" /\ UNCHANGED <<mem, s, status>>
    BY <1>1, <2>3 DEF Statuses, TypeInv, TypeOK
  <2> QED BY <2>1, <2>2, <2>3 DEF Attribute
<1>4. Cell(job).kind = "job"
  BY <1>1, AtTypedJob
<1> QED BY <1>1, <1>2, <1>3, <1>4, AttributeKeeps, TypeAt DEF IsType, payload, Places

LEMMA TypeNextJob ==
    ASSUME TypeInv, NextJob, UNCHANGED <<call, i, shown>>, depth' \in 0..StackDepth
    PROVE  TypeInv'
<1>1. /\ pc = "next" /\ Readable(job) /\ i \in DOMAIN atoms /\ i \in 1..(Len(atoms) + 1)
      /\ s' = s /\ s \in Nat /\ Kept(mem, mem') /\ writes \in Nat
      /\ status \in Statuses /\ mem' = mem /\ UNCHANGED fixed
  BY KeptSame DEF NextJob, Running, TypeInv, TypeOK, Placed, AtJob, Statuses
<1>2. /\ mmaps' = mmaps /\ threaded' = threaded
      /\ writable' = writable /\ stride' = stride /\ atoms' = atoms
      /\ i' = i /\ writes' = writes
  BY DEF NextJob, fixed, call
<1>3. CASE job' = job /\ pc' = pc /\ status' = "exhausted"
  BY <1>1, <1>3, TypeToNext DEF AtJob, Statuses
<1>4. CASE job' \in JobAddrs \cup {0} /\ pc' \in {"header", "atom_end"} /\ status' = status
  <2>1. ~AtJob' /\ ~InTiler' /\ pc' # "attributes" /\ pc' \in Places
    BY <1>4 DEF AtJob, InTiler, Places
  <2> QED BY <1>1, <1>2, <1>4, <2>1, TypeAt
<1>5. job \in JobAddrs \cup {0} /\ NextInChain \in JobAddrs \cup {0}
  BY <1>1, AtTypedJob DEF NextInChain
<1>6. CASE TraceChain(NextInChain)
  BY <1>3, <1>4, <1>5, <1>6 DEF TraceChain
<1>7. CASE ChainReturns /\ UNCHANGED job
  BY <1>4, <1>5, <1>7 DEF ChainReturns
<1> QED BY <1>6, <1>7 DEF NextJob

LEMMA RelinkMemory ==
    ASSUME TypeInv, Relink
    PROVE  /\ Kept(mem, mem')
           /\ \A p \in DOMAIN mem : mem'[p] # mem[p] => mem[p].kind = "job"
<1>1. PICK a \in DOMAIN mem, g \in JobAddrs \cup {0} :
         mem[a].kind = "job" /\ mem' = [mem EXCEPT ![a].next = g]
  BY DEF Relink
<1>2. Kept(mem, mem')
  BY <1>1, RelinkKeeps DEF TypeInv, TypeOK
<1> QED BY <1>1, <1>2

LEMMA TypeRelink ==
    ASSUME TypeInv, Relink, UNCHANGED <<call, i, shown>>, depth' \in 0..StackDepth
    PROVE  TypeInv'
<1>1. /\ mmaps' = mmaps /\ threaded' = threaded /\ writable' = writable
      /\ stride' = stride /\ atoms' = atoms /\ i' = i /\ writes' = writes + 1
      /\ job' = job /\ s' = s /\ pc' = pc /\ status' = status
  BY DEF Relink, call
<1>2. /\ i \in 1..(Len(atoms) + 1) /\ writes + 1 \in Nat /\ pc \in Places
      /\ status \in Statuses /\ job \in JobAddrs \cup {0} /\ s \in Nat
      /\ pc \notin {"call", "atom"} => i \in DOMAIN atoms
      /\ AtJob => Readable(job)
      /\ InTiler => Readable(payload) /\ IsType({"VERTEX", "TILER"})
      /\ pc = "attributes" => EntryTyped(s)
  BY DEF TypeInv, TypeOK, Placed, Places, Statuses
<1>3. InTiler => Readable(job + 1) /\ Cell(job).kind = "job"
                   /\ Cell(job).type \in {"VERTEX", "TILER"}
  BY <1>2, AtTypedJob DEF InTiler, AtJob, IsType, payload
<1>4. (AtJob' => AtJob) /\ (InTiler' => InTiler)
  BY <1>1 DEF AtJob, InTiler
<1> QED BY <1>1, <1>2, <1>3, <1>4, RelinkMemory, TypeAt

\* The steps between the atoms, which are at no job.
LEMMA TypeBetween ==
    ASSUME TypeInv, mem' = mem, UNCHANGED fixed, UNCHANGED call,
           job' \in JobAddrs \cup {0}, s' = s, i' \in 1..(Len(atoms) + 1),
           pc' \in {"call", "atom", "header", "atom_end"}, status' \in Statuses,
           pc' \notin {"call", "atom"} => i' \in DOMAIN atoms,
           depth' \in 0..StackDepth
    PROVE  TypeInv'
<1>1. /\ mmaps' = mmaps /\ threaded' = threaded
      /\ writable' = writable /\ stride' = stride /\ atoms' = atoms
      /\ writes' = writes
  BY DEF fixed, call
<1>2. Kept(mem, mem') /\ writes \in Nat /\ s \in Nat
  BY KeptSame DEF TypeInv, TypeOK
<1>3. ~AtJob' /\ ~InTiler' /\ pc' # "attributes" /\ pc' \in Places
  BY DEF AtJob, InTiler, Places
<1> QED BY <1>1, <1>2, <1>3, TypeAt

LEMMA TypeSubmit ==
    ASSUME TypeInv, Submit, depth' \in 0..StackDepth PROVE TypeInv'
<1>1. /\ mem' = mem /\ UNCHANGED fixed /\ UNCHANGED call /\ job' = job /\ s' = s
      /\ i' = i /\ pc' \in {"call", "atom"} /\ status' \in Statuses
      /\ job \in JobAddrs \cup {0} /\ i \in 1..(Len(atoms) + 1)
  BY DEF Submit, Running, Done, Statuses, TypeInv, TypeOK
<1> QED BY <1>1, TypeBetween

LEMMA TypeReturn ==
    ASSUME TypeInv, Return, depth' \in 0..StackDepth PROVE TypeInv'
<1>1. /\ mem' = mem /\ UNCHANGED fixed /\ UNCHANGED call /\ job' = job /\ s' = s
      /\ i' = i /\ pc' = "atom" /\ status' \in Statuses
      /\ job \in JobAddrs \cup {0} /\ i \in 1..(Len(atoms) + 1)
  BY DEF Return, Running, Done, Statuses, TypeInv, TypeOK
<1> QED BY <1>1, TypeBetween

LEMMA TypeEndAtom ==
    ASSUME TypeInv, EndAtom, depth' \in 0..StackDepth PROVE TypeInv'
<1>1. /\ mem' = mem /\ UNCHANGED fixed /\ UNCHANGED call /\ job' = job /\ s' = s
      /\ i' = i + 1 /\ pc' = "atom" /\ status' \in Statuses
      /\ job \in JobAddrs \cup {0} /\ i \in DOMAIN atoms
  BY DEF EndAtom, NextAtom, Running, Statuses, TypeInv, TypeOK, Placed
<1>2. i + 1 \in 1..(Len(atoms) + 1)
  BY <1>1 DEF TypeInv, TypeOK
<1> QED BY <1>1, <1>2, TypeBetween

LEMMA TypeBeginAtom ==
    ASSUME TypeInv, BeginAtom, depth' \in 0..StackDepth PROVE TypeInv'
<1>1. /\ mem' = mem /\ UNCHANGED fixed /\ UNCHANGED call /\ s' = s
      /\ i' = i /\ pc = "atom" /\ i <= Len(atoms)
      /\ job \in JobAddrs \cup {0} /\ i \in 1..(Len(atoms) + 1)
      /\ status \in Statuses
  BY DEF BeginAtom, Running, Statuses, TypeInv, TypeOK
<1>2. i \in DOMAIN atoms
  BY <1>1 DEF TypeInv, TypeOK
<1>3. CASE TraceAtom(atoms[i])
  <2>1. CASE SoftJob \in atoms[i].core_req
    <3>1. job' = job /\ pc' \in {"atom", "atom_end"} /\ status' \in Statuses
      BY <1>1, <1>3, <2>1 DEF TraceAtom, Reads, Crash, Statuses
    <3> QED BY <1>1, <1>2, <3>1, TypeBetween
  <2>2. CASE SoftJob \notin atoms[i].core_req
    <3>1. /\ job' \in {job, atoms[i].jc} /\ pc' \in {"atom", "header"}
          /\ status' \in Statuses
      BY <1>1, <1>3, <2>2 DEF TraceAtom, TraceChain, Statuses
    <3>2. atoms[i].jc \in JobAddrs \cup {0}
      BY <1>2, <2>2 DEF TypeInv, Placed, AtomsTyped
    <3> QED BY <1>1, <1>2, <3>1, <3>2, TypeBetween
  <2> QED BY <2>1, <2>2
<1>4. CASE pc' = "atom_end" /\ UNCHANGED <<job, depth, status>>
  BY <1>1, <1>2, <1>4, TypeBetween
<1> QED BY <1>3, <1>4 DEF BeginAtom

LEMMA TypeStutter == ASSUME TypeInv, UNCHANGED vars PROVE TypeInv'
<1>1. /\ mem' = mem /\ mmaps' = mmaps /\ threaded' = threaded
      /\ writable' = writable /\ stride' = stride /\ atoms' = atoms /\ i' = i
      /\ writes' = writes /\ pc' = pc /\ job' = job /\ s' = s /\ status' = status
      /\ depth' = depth
  BY DEF vars, trace
<1>2. TypeOK'
  BY <1>1 DEF TypeInv, TypeOK
<1>3. Placed'
  BY <1>1 DEF TypeInv, Placed, AtomsTyped, AtJob, InTiler, EntryTyped, IsType,
              Readable, Cell, Cells, Fetch, payload
<1> QED BY <1>2, <1>3 DEF TypeInv

\* The stack is as deep as there are calls, and has room for them.
LEMMA DepthNext == ASSUME TypeInv, [Next]_vars PROVE depth' \in 0..StackDepth
<1>1. depth \in 0..StackDepth /\ StackDepth \in Nat
  BY TraceAssumption DEF TypeInv, TypeOK
<1>2. ASSUME NEW c, TraceChain(c) PROVE depth' \in 0..StackDepth
  BY <1>1, <1>2 DEF TraceChain
<1>3. ASSUME ChainReturns PROVE depth' \in 0..StackDepth
  BY <1>1, <1>3 DEF ChainReturns
<1>4. CASE NextJob
  BY <1>2, <1>3, <1>4 DEF NextJob
<1>5. CASE BeginAtom
  BY <1>1, <1>2, <1>5 DEF BeginAtom, TraceAtom
<1>6. CASE Header
  BY <1>1, <1>3, <1>6 DEF Header, HeaderUnmapped
<1>7. CASE depth' = depth
  BY <1>1, <1>7
<1>8. depth' = depth \/ NextJob \/ BeginAtom \/ Header
  BY DEF Next, Panwrap, Decode, Submit, EndAtom, Return, SetValue, VertexTiler,
         SabotagedJob, Shader, Attribute, VertexTilerWords, Fragment, DumpPayload,
         Relink, vars, trace
<1> QED BY <1>4, <1>5, <1>6, <1>7, <1>8

LEMMA TypeNext == ASSUME TypeInv, [Next]_vars PROVE TypeInv'
<1> depth' \in 0..StackDepth
  BY DepthNext
<1>1. CASE Submit \/ BeginAtom \/ EndAtom \/ Return
  BY <1>1, TypeSubmit, TypeBeginAtom, TypeEndAtom, TypeReturn
<1>2. CASE Decode /\ UNCHANGED <<call, i, shown>>
  BY <1>2, TypeHeader, TypeSetValue, TypeVertexTiler, TypeAttribute,
     TypeVertexTilerWords, TypeFragment, TypeDumpPayload, TypeNextJob DEF Decode
<1>3. CASE Relink /\ UNCHANGED <<call, i, shown>>
  BY <1>3, TypeRelink
<1>4. CASE UNCHANGED vars
  BY <1>4, TypeStutter
<1> QED BY <1>1, <1>2, <1>3, <1>4 DEF Next, Panwrap

LEMMA TypeInvariant == Spec => []TypeInv
<1>1. TypeInv /\ [Next]_vars => TypeInv'
  BY TypeNext
<1> QED BY <1>1, TypeInit, PTL DEF Spec

(***************************************************************************)
(* Memory stays typed: whatever the program links and the decoder flares,  *)
(* a pointer leads to a structure of its kind or nowhere, and the decoder  *)
(* is at a job, an atom and a place that there are.                        *)
(***************************************************************************)
THEOREM MemoryStaysTyped == Spec => []TypeOK
<1>1. TypeInv => TypeOK
  BY DEF TypeInv
<1> QED BY <1>1, TypeInvariant, PTL

-----------------------------------------------------------------------------
(***************************************************************************)
(* Only Attribute changes memory that is not a job.                        *)
(***************************************************************************)
LEMMA StepMemory ==
    ASSUME TypeInv, [Next]_vars
    PROVE  \/ mem' = mem
           \/ Attribute
           \/ Relink
BY DEF Next, Panwrap, Decode, Submit, BeginAtom, EndAtom, Return, Header, SetValue,
       VertexTiler, VertexTilerWords, Fragment, DumpPayload, NextJob, vars, trace

\* The decoder leaves memory alone but for the floats of the buffers that the
\* attributes of its job name, and a few behind them.
THEOREM FlareStaysNear == Spec => FlareStays
<1> DEFINE Step ==
      \A a \in DOMAIN mem :
         mem'[a] # mem[a] =>
           \/ writes' # writes /\ mem[a].kind = "job"
           \/ pc = "attributes" /\ \E vb \in Buffers : a \in Near(vb)
<1>1. TypeInv /\ [Next]_vars => Step
  <2> SUFFICES ASSUME TypeInv, [Next]_vars,
                      NEW a \in DOMAIN mem, mem'[a] # mem[a]
               PROVE  \/ writes' # writes /\ mem[a].kind = "job"
                      \/ pc = "attributes" /\ \E vb \in Buffers : a \in Near(vb)
    OBVIOUS
  <2>1. CASE Attribute
    <3>1. PICK vb \in Range(mem) : vb.kind = "attribute_buffer" /\ mem' = WithFlare(vb)
      BY <2>1, AttributeMemory
    <3>2. a \in Near(vb)
      BY <3>1, FlareKeeps DEF TypeInv, TypeOK
    <3>3. vb \in Buffers
      BY <3>1 DEF Buffers, Of
    <3>4. pc = "attributes"
      BY <2>1 DEF Attribute, Running
    <3> QED BY <3>2, <3>3, <3>4
  <2>2. CASE Relink
    <3>1. mem[a].kind = "job"
      BY <2>2, RelinkMemory
    <3>2. writes' = writes + 1 /\ writes \in Nat
      BY <2>2 DEF Relink, TypeInv, TypeOK
    <3> QED BY <3>1, <3>2
  <2> QED BY <2>1, <2>2, StepMemory
<1>2. TypeInv /\ [Next]_vars => [Step]_vars
  BY <1>1
<1>3. Spec => [][Step]_vars
  BY <1>2, TypeInvariant, PTL DEF Spec
<1> QED BY <1>3 DEF FlareStays

-----------------------------------------------------------------------------
(***************************************************************************)
(* What a GPU address points to: the decoder finds it when the mappings    *)
(* lie apart, and it stays there.                                          *)
(***************************************************************************)
LEMMA PointsToCell ==
    ASSUME TypeInv, Apart, NEW g \in Nat, NEW kind, Points(g, kind)
    PROVE  /\ Readable(g) /\ Cells(g) = {GpuCell(g)} /\ Cell(g) = GpuCell(g)
           /\ GpuCell(g).kind = kind
<1> DEFINE p == CHOOSE q \in CpuOf(g) : TRUE
<1>1. p \in CpuOf(g) /\ g # 0 /\ p \in DOMAIN mem /\ mem[p].kind = kind
  BY DEF Points
<1>2. GpuCell(g) = mem[p]
  BY DEF GpuCell
<1> HIDE DEF p
<1>3. mmaps \in Seq(Record)
  BY DEF TypeInv, TypeOK, WellTyped
<1>4. CpuOf(g) = {p}
  BY <1>1, <1>3, CpuUnique
<1>5. Fetch(g, 1) = {p}
  BY <1>1, <1>3, <1>4, FetchWhenApart
<1>6. Cells(g) = {mem[p]}
  BY <1>1, <1>5 DEF Cells
<1> QED BY <1>1, <1>2, <1>6, CellChosen DEF Readable

LEMMA CellIsPointedTo ==
    ASSUME TypeInv, Apart, NEW g \in Nat, Readable(g)
    PROVE  Points(g, Cell(g).kind)
<1>1. mmaps \in Seq(Record)
  BY DEF TypeInv, TypeOK, WellTyped
<1>2. g # 0
  BY FetchNull DEF Readable, Cells, Fetch
<1>3. PICK p \in Fetch(g, 1) : p \in DOMAIN mem /\ Cell(g) = mem[p]
  BY CellChosen DEF Cells
<1>4. CpuOf(g) = {p}
  BY <1>1, <1>2, FetchUnique, FetchWhenApart DEF Fetch
<1> QED BY <1>2, <1>3, <1>4 DEF Points

\* Nothing that is found is gone.
LEMMA LiveReadable ==
    ASSUME TypeInv, Live, NEW g \in Nat
    PROVE  /\ CpuOf(g) \subseteq DOMAIN mem
           /\ Fetch(g, 1) # {} => Readable(g)
           /\ Dumpable(g)
<1>1. mmaps \in Seq(Record)
  BY DEF TypeInv, TypeOK, WellTyped
<1>2. ASSUME NEW p \in CpuOf(g) PROVE p \in DOMAIN mem
  <2>1. PICK k \in HoldingIn(mmaps, g) : p = mmaps[k].addr + (g - mmaps[k].gpu_va)
    BY DEF CpuOf, CpuIn
  <2>2. k \in DOMAIN mmaps /\ mmaps[k] \in Record
        /\ mmaps[k].gpu_va <= g /\ g < mmaps[k].gpu_va + mmaps[k].length
    BY <1>1 DEF HoldingIn
  <2>3. p \in mmaps[k].addr..(mmaps[k].addr + mmaps[k].length - 1)
    BY <2>1, <2>2 DEF Record
  <2> QED BY <2>2, <2>3 DEF Live
<1>3. Fetch(g, 1) \subseteq CpuOf(g)
  BY <1>1, FetchInMapping DEF Fetch, CpuOf
<1>4. Fetch(g, 1) # {} => Readable(g)
  BY <1>2, <1>3 DEF Readable, Cells
<1> QED BY <1>2, <1>4 DEF Dumpable

\* Pointers lead to the same structures, but for jobs, of which the type stays,
\* and floats.
LEMMA PointsKept ==
    ASSUME Kept(mem, mem'), mmaps' = mmaps, NEW g, NEW kind, kind \notin VertexKinds
    PROVE  /\ Points(g, kind)' <=> Points(g, kind)
           /\ Points(g, kind) /\ kind # "job" => GpuCell(g)' = GpuCell(g)
           /\ Points(g, "job") => GpuCell(g)'.type = GpuCell(g).type
<1>1. CpuOf(g)' = CpuOf(g) /\ DOMAIN mem' = DOMAIN mem
  BY DEF CpuOf, Kept
<1>2. ASSUME NEW p \in DOMAIN mem PROVE mem'[p].kind = kind <=> mem[p].kind = kind
  BY KeptCell
<1>3. Points(g, kind)' <=> Points(g, kind)
  BY <1>1, <1>2 DEF Points
<1> DEFINE p == CHOOSE q \in CpuOf(g) : TRUE
<1>4. GpuCell(g) = mem[p] /\ GpuCell(g)' = mem'[p]
  BY <1>1 DEF GpuCell
<1>5. \A any : Points(g, any) => p \in DOMAIN mem /\ mem[p].kind = any
  BY DEF Points
<1> HIDE DEF p
<1>6. Points(g, kind) /\ kind # "job" => GpuCell(g)' = GpuCell(g)
  BY <1>4, <1>5, KeptCell
<1>7. Points(g, "job") => GpuCell(g)'.type = GpuCell(g).type
  BY <1>4, <1>5, KeptCell
<1> QED BY <1>3, <1>6, <1>7

(***************************************************************************)
(* A submission is as well-formed after a step as it was before.           *)
(***************************************************************************)
LEMMA AttributesKept ==
    ASSUME Kept(mem, mem'), mmaps' = mmaps, NEW v, AttributesOK(v)'
    PROVE  AttributesOK(v)
<1>1. DOMAIN mem' = DOMAIN mem
  BY DEF Kept
<1>2. /\ \A g : Points(g, "attribute_meta")' <=> Points(g, "attribute_meta")
      /\ \A g : Points(g, "attribute_buffer")' <=> Points(g, "attribute_buffer")
      /\ \A g : Points(g, "attribute_meta") => GpuCell(g)' = GpuCell(g)
      /\ \A g : Points(g, "attribute_buffer") => GpuCell(g)' = GpuCell(g)
  BY PointsKept DEF VertexKinds
<1>3. \A vb : VerticesOK(vb)' <=> VerticesOK(vb)
  BY <1>1 DEF VerticesOK, Holding, CpuOf
<1>4. \A g : CpuOf(g)' = CpuOf(g)
  BY DEF CpuOf
<1>5. PICK n \in 0..Cardinality(DOMAIN mem) :
        /\ \A k \in 0..n : Points(v.attribute_meta + k, "attribute_meta")'
        /\ ~GpuCell(v.attribute_meta + n)'.has
        /\ \A k \in 0..(n - 1) :
             /\ GpuCell(v.attribute_meta + k)'.has
             /\ CpuOf(v.attributes + GpuCell(v.attribute_meta + k).no)' # {} =>
                  /\ Points(v.attributes + GpuCell(v.attribute_meta + k).no,
                            "attribute_buffer")'
                  /\ VerticesOK(GpuCell(v.attributes +
                                        GpuCell(v.attribute_meta + k).no))'
  BY <1>1 DEF AttributesOK
<1>6. \A k \in 0..n : /\ Points(v.attribute_meta + k, "attribute_meta")
                      /\ GpuCell(v.attribute_meta + k)' = GpuCell(v.attribute_meta + k)
  BY <1>2, <1>5
<1>7. ~GpuCell(v.attribute_meta + n).has
  BY <1>5, <1>6
<1>8. ASSUME NEW k \in 0..(n - 1)
      PROVE  /\ GpuCell(v.attribute_meta + k).has
             /\ CpuOf(v.attributes + GpuCell(v.attribute_meta + k).no) # {} =>
                  /\ Points(v.attributes + GpuCell(v.attribute_meta + k).no,
                            "attribute_buffer")
                  /\ VerticesOK(GpuCell(v.attributes +
                                        GpuCell(v.attribute_meta + k).no))
  <2>1. k \in 0..n
    OBVIOUS
  <2>2. PICK c : c = GpuCell(v.attribute_meta + k)
    OBVIOUS
  <2>3. c = GpuCell(v.attribute_meta + k)'
    BY <1>6, <2>1, <2>2
  <2>4. c.has
    BY <1>5, <2>3
  <2>5. ASSUME CpuOf(v.attributes + c.no) # {}
        PROVE  /\ Points(v.attributes + c.no, "attribute_buffer")
               /\ VerticesOK(GpuCell(v.attributes + c.no))
    <3>1. CpuOf(v.attributes + GpuCell(v.attribute_meta + k).no)' # {}
      BY <2>3, <2>5 DEF CpuOf
    <3>2. /\ Points(v.attributes + GpuCell(v.attribute_meta + k).no,
                    "attribute_buffer")'
          /\ VerticesOK(GpuCell(v.attributes + GpuCell(v.attribute_meta + k).no))'
      BY <1>5, <3>1
    <3>3. Points(v.attributes + c.no, "attribute_buffer")'
      BY <2>3, <3>2 DEF Points, CpuOf
    <3>4. Points(v.attributes + c.no, "attribute_buffer")
      BY <1>2, <3>3
    <3>5. GpuCell(v.attributes + GpuCell(v.attribute_meta + k).no)' =
            GpuCell(v.attributes + c.no)'
      BY <2>3 DEF GpuCell, CpuOf
    <3>6. GpuCell(v.attributes + c.no)' = GpuCell(v.attributes + c.no)
      BY <1>2, <3>4
    <3>7. PICK vb : vb = GpuCell(v.attributes + c.no)
      OBVIOUS
    <3>8. VerticesOK(vb)'
      BY <3>2, <3>5, <3>6, <3>7 DEF VerticesOK, Holding, CpuOf
    <3>9. VerticesOK(vb)
      BY <1>3, <3>8
    <3> QED BY <3>4, <3>7, <3>9
  <2> QED BY <2>2, <2>4, <2>5
<1> QED BY <1>6, <1>7, <1>8 DEF AttributesOK

LEMMA VertexTilerKept ==
    ASSUME Kept(mem, mem'), mmaps' = mmaps, NEW v, VertexTilerOK(v)'
    PROVE  VertexTilerOK(v)
<1> SUFFICES ASSUME v.shader \notin Sabotaged PROVE VertexTilerOK(v)
  BY DEF VertexTilerOK
<1>1. \A g, kind : kind \notin VertexKinds => (Points(g, kind)' <=> Points(g, kind))
  BY PointsKept
<1>2. /\ Points(v.shader, "shader_meta")'
      /\ Points(GpuCell(v.shader).shader, "bytes")'
      /\ Points(v.fbd, "mfbd")'
      /\ \A g \in {v.unknown1, v.unknown2, v.unknown5} : g = 0 \/ Points(g, "bytes")'
      /\ AttributesOK(v)'
  BY DEF VertexTilerOK
<1>3. Points(v.shader, "shader_meta")
  BY <1>1, <1>2 DEF VertexKinds
<1>4. PICK c : c = GpuCell(v.shader)
  OBVIOUS
<1>5. c = GpuCell(v.shader)'
  BY <1>3, <1>4, PointsKept DEF VertexKinds
<1>6. Points(c.shader, "bytes")'
  BY <1>2, <1>5 DEF Points, CpuOf
<1>7. Points(c.shader, "bytes")
  BY <1>1, <1>6 DEF VertexKinds
<1>8. Points(v.fbd, "mfbd")
  BY <1>1, <1>2 DEF VertexKinds
<1>9. \A g \in {v.unknown1, v.unknown2, v.unknown5} : g = 0 \/ Points(g, "bytes")
  BY <1>1, <1>2 DEF VertexKinds
<1>10. AttributesOK(v)
  BY <1>2, AttributesKept
<1> QED BY <1>3, <1>4, <1>7, <1>8, <1>9, <1>10 DEF VertexTilerOK

LEMMA JobKept ==
    ASSUME Kept(mem, mem'), mmaps' = mmaps, NEW g, Points(g, "job"), JobOK(g)'
    PROVE  JobOK(g)
<1>1. \A a, kind : kind \notin VertexKinds => (Points(a, kind)' <=> Points(a, kind))
  BY PointsKept
<1>2. PICK t : t = GpuCell(g).type
  OBVIOUS
<1>3. t = GpuCell(g)'.type
  BY <1>2, PointsKept DEF VertexKinds
<1>4. CASE t = "SET_VALUE"
  <2>1. Points(g + 1, "set_value")'
    BY <1>3, <1>4 DEF JobOK
  <2>2. Points(g + 1, "set_value")
    BY <1>1, <2>1 DEF VertexKinds
  <2> QED BY <1>2, <1>4, <2>2 DEF JobOK
<1>5. CASE t \in {"VERTEX", "TILER"}
  <2>1. Points(g + 1, "vertex_tiler")' /\ VertexTilerOK(GpuCell(g + 1))'
    BY <1>3, <1>5 DEF JobOK
  <2>2. Points(g + 1, "vertex_tiler")
    BY <1>1, <2>1 DEF VertexKinds
  <2>3. PICK v : v = GpuCell(g + 1)
    OBVIOUS
  <2>4. v = GpuCell(g + 1)'
    BY <2>2, <2>3, PointsKept DEF VertexKinds
  <2>5. VertexTilerOK(v)'
    BY <2>1, <2>4 DEF VertexTilerOK, AttributesOK
  <2>6. VertexTilerOK(v)
    BY <2>5, VertexTilerKept
  <2> QED BY <1>2, <1>5, <2>2, <2>3, <2>6 DEF JobOK
<1>6. CASE t = "FRAGMENT"
  <2>1. Points(g + 1, "fragment")' /\ Points(GpuCell(g + 1).fbd, "mfbd")'
    BY <1>3, <1>6 DEF JobOK
  <2>2. Points(g + 1, "fragment")
    BY <1>1, <2>1 DEF VertexKinds
  <2>3. PICK f : f = GpuCell(g + 1)
    OBVIOUS
  <2>4. f = GpuCell(g + 1)'
    BY <2>2, <2>3, PointsKept DEF VertexKinds
  <2>5. Points(f.fbd, "mfbd")'
    BY <2>1, <2>4 DEF Points, CpuOf
  <2>6. Points(f.fbd, "mfbd")
    BY <1>1, <2>5 DEF VertexKinds
  <2> QED BY <1>2, <1>6, <2>2, <2>3, <2>6 DEF JobOK
<1>7. CASE t \notin {"SET_VALUE", "VERTEX", "TILER", "FRAGMENT"}
  <2>1. Points(g + 1, "bytes")'
    BY <1>3, <1>7 DEF JobOK
  <2>2. Points(g + 1, "bytes")
    BY <1>1, <2>1 DEF VertexKinds
  <2> QED BY <1>2, <1>7, <2>2 DEF JobOK
<1> QED BY <1>4, <1>5, <1>6, <1>7

LEMMA WellFormedKept ==
    ASSUME Kept(mem, mem'), mmaps' = mmaps, atoms' = atoms, WellFormed'
    PROVE  WellFormed
<1>1. Apart /\ Live
  <2>1. Apart' /\ Live' /\ DOMAIN mem' = DOMAIN mem
    BY DEF WellFormed, Kept
  <2> QED BY <2>1 DEF Apart, Live
<1>2. ASSUME NEW g \in JobAddrs, Points(g, "job") PROVE JobOK(g)
  <2>1. Points(g, "job")'
    BY <1>2, PointsKept DEF VertexKinds
  <2>2. JobOK(g)'
    BY <2>1 DEF WellFormed
  <2> QED BY <1>2, <2>2, JobKept
<1>3. ASSUME NEW n \in DOMAIN atoms, SoftJob \in atoms[n].core_req,
             FindMappedMemContaining(mmaps, atoms[n].jc) # 0
      PROVE  Points(atoms[n].jc, "replay_payload")
  <2>1. PICK c : c = atoms[n].jc
    OBVIOUS
  <2>2. Points(atoms[n].jc, "replay_payload")'
    BY <1>3 DEF WellFormed
  <2>3. Points(c, "replay_payload")'
    BY <2>1, <2>2 DEF Points, CpuOf
  <2>4. Points(c, "replay_payload")
    BY <2>3, PointsKept DEF VertexKinds
  <2> QED BY <2>1, <2>4
<1> QED BY <1>1, <1>2, <1>3 DEF WellFormed

-----------------------------------------------------------------------------
(***************************************************************************)
(* What holds when the submission is well-formed, besides NoFault: the job *)
(* whose attributes are logged has a shader, and the entries up to s have  *)
(* an attribute.                                                           *)
(***************************************************************************)
HasEntry(g) == Points(g, "attribute_meta") /\ GpuCell(g).has
ListedTo(first, g) ==
    \E n \in Nat : g = first + n /\ \A k \in 0..(n - 1) : HasEntry(first + k)
FaultInv ==
    /\ NoFault
    /\ InTiler => Cell(payload).shader \notin Sabotaged
    /\ pc = "attributes" /\ Apart /\ Live => ListedTo(Cell(payload).attribute_meta, s)

\* Every step goes on in the same submission.
LEMMA StepKeeps ==
    ASSUME TypeInv, [Next]_vars
    PROVE  /\ Kept(mem, mem') /\ mmaps' = mmaps /\ atoms' = atoms
           /\ writable' = writable
<1>1. Kept(mem, mem')
  BY StepMemory, AttributeKeeps, RelinkMemory, KeptSame DEF TypeInv, TypeOK
<1>2. mmaps' = mmaps /\ atoms' = atoms /\ writable' = writable
  BY DEF Next, Panwrap, Decode, Submit, BeginAtom, EndAtom, Return, Header, SetValue,
         VertexTiler, Attribute, VertexTilerWords, Fragment, DumpPayload, NextJob,
         Relink, vars, trace, fixed, call
<1> QED BY <1>1, <1>2

LEMMA JobIsOK ==
    ASSUME TypeInv, WellFormed, Readable(job)
    PROVE  /\ JobOK(job) /\ GpuCell(job) = Cell(job) /\ Cell(job).type \in JobTypes
           /\ job \in Nat /\ payload \in Nat
<1>1. /\ job \in JobAddrs /\ job \in Nat /\ payload \in Nat
      /\ Cell(job).kind = "job" /\ Cell(job).type \in JobTypes
  BY AtTypedJob
<1>2. Apart
  BY DEF WellFormed
<1>3. Points(job, "job")
  BY <1>1, <1>2, CellIsPointedTo
<1>4. GpuCell(job) = Cell(job)
  BY <1>1, <1>2, <1>3, PointsToCell
<1> QED BY <1>1, <1>3, <1>4 DEF WellFormed

\* A framebuffer descriptor that is there can be read.
LEMMA FbdIsReadable ==
    ASSUME TypeInv, Apart, Live, NEW fbd \in Nat, Points(fbd, "mfbd")
    PROVE  FbdReadable(fbd)
<1>1. GpuCell(fbd) \in Cells(fbd) /\ GpuCell(fbd).kind = "mfbd"
  BY PointsToCell
<1>2. GpuCell(fbd) \in Structures
  BY <1>1, CellsTyped DEF TypeInv, TypeOK
<1>3. GpuCell(fbd).dumped \subseteq Nat
  BY <1>1, <1>2, StructureOfKind DEF tentative_mfbd
<1> QED BY <1>1, <1>3, LiveReadable DEF FbdReadable

LEMMA NoFaultHeader ==
    ASSUME TypeInv, WellFormed, Header PROVE status' # "crashed"
<1>1. status = "running"
  BY DEF Header, Running
<1>2. CASE Fetch(job, 1) = {} /\ HeaderUnmapped
  BY <1>1, <1>2 DEF HeaderUnmapped, ChainReturns
<1>3. CASE Fetch(job, 1) # {} /\ Reads(Readable(job), "payload")
  <2>1. job \in Nat
    BY TraceAssumption DEF TypeInv, TypeOK
  <2>2. Readable(job)
    BY <1>3, <2>1, LiveReadable DEF WellFormed
  <2> QED BY <1>1, <1>3, <2>2 DEF Reads
<1> QED BY <1>2, <1>3 DEF Header

LEMMA NoFaultSetValue ==
    ASSUME TypeInv, WellFormed, SetValue PROVE status' # "crashed"
<1>1. status = "running" /\ Readable(job) /\ Cell(job).type = "SET_VALUE"
  BY DEF SetValue, Running, IsType, TypeInv, Placed, AtJob
<1>2. Points(payload, "set_value") /\ payload \in Nat
  BY <1>1, JobIsOK DEF JobOK, payload
<1>3. Readable(payload)
  BY <1>2, PointsToCell DEF WellFormed
<1> QED BY <1>1, <1>3 DEF SetValue, Reads

LEMMA NoFaultDumpPayload ==
    ASSUME TypeInv, WellFormed, DumpPayload PROVE status' # "crashed"
<1>1. status = "running" /\ Readable(job)
  BY DEF DumpPayload, Running, TypeInv, Placed, AtJob
<1>2. Dumpable(payload)
  BY <1>1, JobIsOK, LiveReadable DEF WellFormed
<1> QED BY <1>1, <1>2 DEF DumpPayload, Reads

LEMMA NoFaultFragment ==
    ASSUME TypeInv, WellFormed, Fragment PROVE status' # "crashed"
<1>1. status = "running" /\ Readable(job) /\ Cell(job).type = "FRAGMENT"
  BY DEF Fragment, Running, IsType, TypeInv, Placed, AtJob
<1>2. /\ Points(payload, "fragment") /\ payload \in Nat
      /\ Points(GpuCell(payload).fbd, "mfbd")
  BY <1>1, JobIsOK DEF JobOK, payload
<1>3. GpuCell(payload) \in Cells(payload) /\ GpuCell(payload).kind = "fragment"
  BY <1>2, PointsToCell DEF WellFormed
<1>4. GpuCell(payload) \in Structures
  BY <1>3, CellsTyped DEF TypeInv, TypeOK
<1>5. GpuCell(payload).fbd \in Nat
  BY <1>3, <1>4, StructureOfKind DEF payload_fragment
<1>6. FbdReadable(GpuCell(payload).fbd)
  BY <1>2, <1>5, FbdIsReadable DEF WellFormed
<1> QED BY <1>1, <1>3, <1>6 DEF Fragment, Reads

\* The payload of a vertex or tiler job whose shader is there.
LEMMA TilerIsOK ==
    ASSUME TypeInv, WellFormed, Readable(job), IsType({"VERTEX", "TILER"})
    PROVE  /\ Readable(payload) /\ Cells(payload) = {Cell(payload)}
           /\ Cell(payload) \in payload_vertex_tiler32
           /\ Cell(payload).kind = "vertex_tiler"
           /\ VertexTilerOK(Cell(payload))
<1>1. Points(payload, "vertex_tiler") /\ payload \in Nat /\ VertexTilerOK(GpuCell(payload))
  BY JobIsOK DEF IsType, JobOK, payload
<1>2. Readable(payload) /\ Cells(payload) = {GpuCell(payload)}
      /\ Cell(payload) = GpuCell(payload) /\ GpuCell(payload).kind = "vertex_tiler"
  BY <1>1, PointsToCell DEF WellFormed
<1>3. Cell(payload) \in payload_vertex_tiler32
  BY <1>2, AtTypedTiler
<1> QED BY <1>1, <1>2, <1>3

LEMMA NoFaultVertexTiler ==
    ASSUME TypeInv, WellFormed, writable, VertexTiler PROVE status' # "crashed"
<1>1. status = "running" /\ Readable(job) /\ IsType({"VERTEX", "TILER"})
  BY DEF VertexTiler, Running, TypeInv, Placed, AtJob
<1>2. PICK v \in Cells(payload) :
         \/ v.shader \in Sabotaged /\ SabotagedJob
         \/ v.shader \notin Sabotaged /\ Shader(v)
  BY <1>1, TilerIsOK DEF VertexTiler
<1>3. v = Cell(payload) /\ v.shader \in Nat /\ VertexTilerOK(v)
  BY <1>1, TilerIsOK DEF payload_vertex_tiler32
<1>4. CASE SabotagedJob
  BY <1>1, <1>4 DEF SabotagedJob
<1>5. CASE v.shader \notin Sabotaged /\ Shader(v)
  <2>1. Points(v.shader, "shader_meta") /\ Points(GpuCell(v.shader).shader, "bytes")
    BY <1>3, <1>5 DEF VertexTilerOK
  <2>2. GpuCell(v.shader) \in Cells(v.shader) /\ GpuCell(v.shader).kind = "shader_meta"
    BY <1>3, <2>1, PointsToCell DEF WellFormed
  <2>3. GpuCell(v.shader) \in Structures
    BY <2>2, CellsTyped DEF TypeInv, TypeOK
  <2>4. GpuCell(v.shader).shader \in Nat
    BY <2>2, <2>3, StructureOfKind DEF shader_meta
  <2>5. Readable(GpuCell(v.shader).shader)
    BY <2>1, <2>4, PointsToCell DEF WellFormed
  <2> QED BY <1>1, <1>5, <2>2, <2>5 DEF Shader, Reads
<1> QED BY <1>2, <1>4, <1>5

\* The vertices of a buffer that is well-formed can be read and flared.
LEMMA VerticesAreReadable ==
    ASSUME TypeInv, Apart, NEW vb \in attribute_buffer, VerticesOK(vb)
    PROVE  VerticesReadable(vb)
<1> DEFINE t == vb.total_size
           g == Raw(vb)
<1>1. /\ t \in Nat /\ vb.element_size # 0 /\ g \in Nat \ {0}
      /\ mmaps \in Seq(Record)
  BY RawIsNat DEF attribute_buffer, VerticesOK, TypeInv, TypeOK, WellTyped
<1>2. Fetch(g, t) # {}
  <2>1. PICK k \in Holding(g) : g + t <= mmaps[k].gpu_va + mmaps[k].length
    BY DEF VerticesOK
  <2>2. k \in 1..Len(mmaps) /\ mmaps[k] \in Record
        /\ mmaps[k].gpu_va <= g /\ g < mmaps[k].gpu_va + mmaps[k].length
    BY <1>1 DEF Holding, HoldingIn
  <2> HIDE DEF g, t
  <2>g. g <= mmaps[k].gpu_va + mmaps[k].length
    BY <1>1, <2>2, HeldInRecord
  <2>3. ASSUME NEW l \in 1..Len(mmaps),
               mmaps[l].gpu_va <= g, g <= mmaps[l].gpu_va + mmaps[l].length
        PROVE  ~(g - mmaps[l].gpu_va + t > mmaps[l].length)
    <3>1. k = l
      BY <1>1, <2>2, <2>g, <2>3, OneRecord
    <3>2. mmaps[l].gpu_va \in Nat /\ mmaps[l].length \in Nat
      BY <2>2, <3>1, RecordNumbers
    <3> QED BY <1>1, <2>1, <3>1, <3>2
  <2>4. \E l \in 1..Len(mmaps) : /\ mmaps[l].gpu_va <= g
                                 /\ g <= mmaps[l].gpu_va + mmaps[l].length
    BY <2>2, <2>g
  <2>5. g # 0
    BY <1>1
  <2> QED BY <1>1, <2>3, <2>4, <2>5, FetchFinds DEF Fetch
<1>3. Near(vb) \subseteq DOMAIN mem
  BY DEF Near, NearIn, VerticesOK, CpuOf
<1>4. Touched(vb) \subseteq DOMAIN mem
  BY <1>1, <1>3, FlareNear
<1> QED BY <1>1, <1>2, <1>4 DEF VerticesReadable, Vertices

\* The list of attributes goes on to an end that AttributesOK knows.
LEMMA EntryIsOK ==
    ASSUME TypeInv, Apart, Live, NEW v, v.attribute_meta \in Nat, v.attributes \in Nat,
           AttributesOK(v), ListedTo(v.attribute_meta, s)
    PROVE  /\ Readable(s) /\ Cells(s) = {GpuCell(s)}
           /\ GpuCell(s).has /\ CpuOf(v.attributes + GpuCell(s).no) # {} =>
                /\ Points(v.attributes + GpuCell(s).no, "attribute_buffer")
                /\ VerticesOK(GpuCell(v.attributes + GpuCell(s).no))
<1>1. PICK n \in 0..Cardinality(DOMAIN mem) :
        /\ \A k \in 0..n : Points(v.attribute_meta + k, "attribute_meta")
        /\ ~GpuCell(v.attribute_meta + n).has
        /\ \A k \in 0..(n - 1) :
             CpuOf(v.attributes + GpuCell(v.attribute_meta + k).no) # {} =>
                  /\ Points(v.attributes + GpuCell(v.attribute_meta + k).no,
                            "attribute_buffer")
                  /\ VerticesOK(GpuCell(v.attributes +
                                        GpuCell(v.attribute_meta + k).no))
  BY DEF AttributesOK
<1>2. PICK k \in Nat : /\ s = v.attribute_meta + k
                       /\ \A l \in 0..(k - 1) : HasEntry(v.attribute_meta + l)
  BY DEF ListedTo
<1>3. n \in Nat /\ k <= n
  <2> SUFFICES ASSUME n < k PROVE FALSE
    BY <1>1, <1>2
  <2>1. n \in 0..(k - 1)
    BY <1>1, <1>2
  <2>2. GpuCell(v.attribute_meta + n).has
    BY <1>2, <2>1 DEF HasEntry
  <2> QED BY <1>1, <2>2
<1>4. Points(s, "attribute_meta")
  BY <1>1, <1>2, <1>3
<1>5. Readable(s) /\ Cells(s) = {GpuCell(s)}
  BY <1>4, PointsToCell DEF TypeInv, TypeOK
<1>6. GpuCell(s).has => k \in 0..(n - 1)
  BY <1>1, <1>2, <1>3
<1> QED BY <1>1, <1>2, <1>5, <1>6

LEMMA NoFaultAttribute ==
    ASSUME TypeInv, FaultInv, WellFormed, Attribute PROVE status' # "crashed"
<1> DEFINE v == Cell(payload)
<1>1. /\ status = "running" /\ pc = "attributes" /\ Readable(job)
      /\ IsType({"VERTEX", "TILER"}) /\ InTiler
  BY DEF Attribute, Running, TypeInv, Placed, AtJob, InTiler
<1>2. Apart /\ Live
  BY DEF WellFormed
<1>3. /\ Cells(payload) = {v} /\ v \in payload_vertex_tiler32 /\ VertexTilerOK(v)
      /\ v.shader \notin Sabotaged /\ ListedTo(v.attribute_meta, s)
  BY <1>1, <1>2, TilerIsOK DEF FaultInv
<1> HIDE DEF v
<1>4. AttributesOK(v) /\ v.attribute_meta \in Nat /\ v.attributes \in Nat
  BY <1>3 DEF VertexTilerOK, payload_vertex_tiler32
<1> DEFINE meta == GpuCell(s)
           buffer == v.attributes + meta.no
<1>5. /\ Readable(s) /\ Cells(s) = {meta}
      /\ meta.has /\ CpuOf(buffer) # {} =>
           Points(buffer, "attribute_buffer") /\ VerticesOK(GpuCell(buffer))
  BY <1>2, <1>3, <1>4, EntryIsOK
<1>6. buffer \in Nat
  BY <1>1, <1>4, <1>5, AtEntry
<1> HIDE DEF meta
<1>7. CASE pc' = "framebuffer" /\ UNCHANGED <<mem, s, status>>
  BY <1>1, <1>7
<1>8. CASE meta.has /\ TraceAttribute(buffer)
  <2> HIDE DEF buffer
  <2>1. CASE ~Readable(buffer) /\ Reads(Dumpable(buffer), "attributes")
    BY <1>1, <1>2, <1>6, <2>1, LiveReadable DEF Reads
  <2>2. CASE \E vb \in Cells(buffer) : Reads(VerticesReadable(vb), "attributes")
    <3>1. PICK vb \in Cells(buffer) : Reads(VerticesReadable(vb), "attributes")
      BY <2>2
    <3>2. CpuOf(buffer) # {}
      <4>1. mmaps \in Seq(Record)
        BY DEF TypeInv, TypeOK, WellTyped
      <4> QED BY <1>6, <4>1, FetchInMapping DEF Cells, Fetch, CpuOf
    <3>3. Points(buffer, "attribute_buffer") /\ VerticesOK(GpuCell(buffer))
      BY <1>5, <1>8, <3>2 DEF buffer
    <3>4. vb = GpuCell(buffer) /\ vb.kind = "attribute_buffer"
      BY <1>2, <1>6, <3>3, PointsToCell
    <3>5. vb \in attribute_buffer
      BY <3>4, CellsTyped, StructureOfKind DEF TypeInv, TypeOK
    <3>6. VerticesReadable(vb)
      BY <1>2, <3>3, <3>4, <3>5, VerticesAreReadable
    <3> QED BY <1>1, <3>1, <3>6 DEF Reads
  <2> QED BY <1>8, <2>1, <2>2 DEF TraceAttribute
<1> QED BY <1>3, <1>5, <1>7, <1>8 DEF Attribute

LEMMA NoFaultVertexTilerWords ==
    ASSUME TypeInv, FaultInv, WellFormed, VertexTilerWords PROVE status' # "crashed"
<1> DEFINE v == Cell(payload)
<1>1. /\ status = "running" /\ Readable(job) /\ IsType({"VERTEX", "TILER"}) /\ InTiler
  BY DEF VertexTilerWords, Running, TypeInv, Placed, AtJob, InTiler
<1>2. Apart /\ Live
  BY DEF WellFormed
<1>3. /\ Cells(payload) = {v} /\ v \in payload_vertex_tiler32 /\ VertexTilerOK(v)
      /\ v.shader \notin Sabotaged
  BY <1>1, TilerIsOK DEF FaultInv
<1> HIDE DEF v
<1>4. /\ v.fbd \in Nat /\ v.unknown1 \in Nat /\ v.unknown2 \in Nat /\ v.unknown5 \in Nat
      /\ v.dumped \subseteq Nat
  BY <1>3 DEF payload_vertex_tiler32
<1>5. FbdReadable(v.fbd)
  BY <1>2, <1>3, <1>4, FbdIsReadable DEF VertexTilerOK
<1>6. ASSUME NEW g \in {v.unknown1, v.unknown2, v.unknown5} PROVE g = 0 \/ Readable(g)
  <2>1. g \in Nat /\ (g = 0 \/ Points(g, "bytes"))
    BY <1>3, <1>4 DEF VertexTilerOK
  <2> QED BY <1>2, <2>1, PointsToCell
<1>7. \A g \in v.dumped \cup {v.unknown2} : Dumpable(g)
  BY <1>2, <1>4, LiveReadable
<1> QED BY <1>1, <1>3, <1>5, <1>6, <1>7 DEF VertexTilerWords, Reads

LEMMA NoFaultBeginAtom ==
    ASSUME TypeInv, WellFormed, BeginAtom PROVE status' # "crashed"
<1>1. status = "running" /\ i \in DOMAIN atoms
  BY DEF BeginAtom, Running, TypeInv, TypeOK
<1>2. CASE UNCHANGED <<job, status>>
  BY <1>1, <1>2
<1>3. CASE TraceAtom(atoms[i]) /\ FindMappedMemContaining(mmaps, atoms[i].jc) # 0
  <2>1. CASE SoftJob \notin atoms[i].core_req
    BY <1>1, <1>3, <2>1 DEF TraceAtom, TraceChain
  <2>2. CASE SoftJob \in atoms[i].core_req
    <3>1. Points(atoms[i].jc, "replay_payload") /\ Apart
      BY <1>1, <1>3, <2>2 DEF WellFormed
    <3>2. atoms[i].jc \in Nat
      <4>1. atoms \in Seq(Atom)
        BY DEF TypeInv, TypeOK
      <4>2. atoms[i] \in Atom
        BY <1>1, <4>1
      <4> QED BY <4>2 DEF Atom
    <3>3. Readable(atoms[i].jc)
      BY <3>1, <3>2, PointsToCell
    <3> QED BY <1>1, <1>3, <2>2, <3>3 DEF TraceAtom, Reads
  <2> QED BY <2>1, <2>2
<1> QED BY <1>2, <1>3 DEF BeginAtom

\* No step of a well-formed submission crashes.
LEMMA NoFaultStep ==
    ASSUME TypeInv, FaultInv, WellFormed, writable, [Next]_vars
    PROVE  status' # "crashed"
<1>1. status # "crashed"
  BY DEF FaultInv, NoFault
<1>2. CASE Submit \/ EndAtom \/ Return
  BY <1>1, <1>2 DEF Submit, EndAtom, Return, Done
<1>3. CASE NextJob \/ Relink \/ UNCHANGED vars
  BY <1>1, <1>3 DEF NextJob, TraceChain, ChainReturns, Relink, vars, trace
<1> QED
  BY <1>2, <1>3, NoFaultBeginAtom, NoFaultHeader, NoFaultSetValue, NoFaultVertexTiler,
     NoFaultAttribute, NoFaultVertexTilerWords, NoFaultFragment, NoFaultDumpPayload
     DEF Next, Panwrap, Decode

\* The decoder knows a vertex or tiler job by its payload, which stays.
LEMMA TilerStays ==
    ASSUME TypeInv, InTiler, Kept(mem, mem'), mmaps' = mmaps, job' = job
    PROVE  Cell(payload)' = Cell(payload)
<1>1. /\ Readable(job) /\ Readable(payload) /\ IsType({"VERTEX", "TILER"})
  BY DEF TypeInv, Placed, InTiler, AtJob
<1>2. Cell(payload).kind = "vertex_tiler"
  BY <1>1, CellChosen, AtTypedTiler
<1>3. PICK g : g = payload
  OBVIOUS
<1>4. Cell(g)' = Cell(g)
  BY <1>1, <1>2, <1>3, KeptCellAt DEF VertexKinds
<1> QED BY <1>3, <1>4 DEF payload, Cell, Cells, Fetch

LEMMA ListedKept ==
    ASSUME Kept(mem, mem'), mmaps' = mmaps, NEW a, NEW b, ListedTo(a, b)
    PROVE  ListedTo(a, b)'
<1>1. \A g : HasEntry(g)' <=> HasEntry(g)
  BY PointsKept DEF HasEntry, VertexKinds
<1> QED BY <1>1 DEF ListedTo

\* The list of attributes begins, and goes on over an entry.
LEMMA ListBegins == ASSUME NEW a \in Nat PROVE ListedTo(a, a)
<1>1. a = a + 0 /\ \A k \in 0..(0 - 1) : HasEntry(a + k)
  OBVIOUS
<1> QED BY <1>1 DEF ListedTo

LEMMA ListGoesOn ==
    ASSUME NEW a \in Nat, NEW b \in Nat, ListedTo(a, b), HasEntry(b)
    PROVE  ListedTo(a, b + 1)
<1>1. PICK n \in Nat : b = a + n /\ \A k \in 0..(n - 1) : HasEntry(a + k)
  BY DEF ListedTo
<1>2. b + 1 = a + (n + 1) /\ n + 1 \in Nat
  BY <1>1
<1>3. ASSUME NEW k \in 0..((n + 1) - 1) PROVE HasEntry(a + k)
  <2>1. k = n \/ k \in 0..(n - 1)
    BY <1>1
  <2> QED BY <1>1, <2>1
<1> QED BY <1>2, <1>3 DEF ListedTo

\* The job in whose attributes the decoder is has a shader.
LEMMA ShaderStep ==
    ASSUME TypeInv, FaultInv, [Next]_vars, InTiler'
    PROVE  Cell(payload)'.shader \notin Sabotaged
<1>1. Kept(mem, mem') /\ mmaps' = mmaps
  BY StepKeeps
<1>2. CASE InTiler /\ job' = job
  BY <1>1, <1>2, TilerStays DEF FaultInv
<1>3. CASE VertexTiler
  <2>1. PICK v \in Cells(payload) : v.shader \notin Sabotaged
    BY <1>3 DEF VertexTiler, Running, Crash, SabotagedJob, InTiler
  <2>2. v = Cell(payload)
    BY CellChosen DEF Readable
  <2>3. Cell(payload)' = Cell(payload)
    BY <1>3 DEF VertexTiler, fixed, Cell, Cells, Fetch, payload
  <2> QED BY <2>1, <2>2, <2>3
<1>4. (InTiler /\ job' = job) \/ VertexTiler
  BY DEF Next, Panwrap, Decode, Submit, BeginAtom, EndAtom, Return, Header, SetValue,
         Attribute, VertexTilerWords, Fragment, DumpPayload, NextJob,
         Relink, vars, trace, InTiler, Running, Reads, Crash, HeaderUnmapped,
         ChainReturns, TraceChain, TraceAtom, Done
<1> QED BY <1>2, <1>3, <1>4

\* The entries before s have an attribute.
LEMMA ListStep ==
    ASSUME TypeInv, FaultInv, [Next]_vars, pc' = "attributes", Apart, Live
    PROVE  ListedTo(Cell(payload).attribute_meta, s)'
<1> DEFINE v == Cell(payload)
<1>1. Kept(mem, mem') /\ mmaps' = mmaps
  BY StepKeeps
<1>2. CASE pc = "attributes" /\ job' = job /\ s' = s
  <2>1. Cell(payload)' = v /\ ListedTo(v.attribute_meta, s)
    BY <1>1, <1>2, TilerStays DEF FaultInv, InTiler
  <2>2. PICK a, b : a = v.attribute_meta /\ b = s
    OBVIOUS
  <2>3. ListedTo(a, b)'
    BY <1>1, <2>1, <2>2, ListedKept
  <2> QED BY <1>2, <2>1, <2>2, <2>3 DEF ListedTo
<1>3. CASE VertexTiler
  <2>1. PICK w \in Cells(payload) : s' = w.attribute_meta
    BY <1>3 DEF VertexTiler, Running, Crash, SabotagedJob, Shader
  <2>2. w = v
    BY <2>1, CellChosen DEF Readable
  <2>3. Cell(payload)' = v
    BY <1>3 DEF VertexTiler, fixed, Cell, Cells, Fetch, payload
  <2>4. PICK a : a = v.attribute_meta
    OBVIOUS
  <2>5. a \in Nat
    BY <1>3, <2>2, <2>4, AtTypedTiler DEF VertexTiler, Running, TypeInv, Placed, AtJob
  <2>6. ListedTo(a, a)'
    BY <1>1, <2>5, ListBegins, ListedKept
  <2> QED BY <2>1, <2>2, <2>3, <2>4, <2>6 DEF ListedTo
<1>4. CASE Attribute /\ s' # s
  <2>1. /\ pc = "attributes" /\ InTiler /\ Readable(job) /\ job' = job /\ s \in Nat
        /\ EntryTyped(s) /\ IsType({"VERTEX", "TILER"}) /\ Readable(payload)
    BY <1>4 DEF Attribute, Running, InTiler, AtJob, TypeInv, TypeOK, Placed
  <2>2. PICK meta \in Cells(s) : meta.has /\ s' = s + 1
    BY <1>4 DEF Attribute, NextAttribute
  <2>3. Readable(s) /\ meta = Cell(s) /\ meta.kind = "attribute_meta"
    BY <2>1, <2>2, CellChosen DEF Readable, EntryTyped
  <2>4. Points(s, "attribute_meta") /\ GpuCell(s) = meta
    BY <2>1, <2>3, CellIsPointedTo, PointsToCell
  <2>5. HasEntry(s)
    BY <2>2, <2>4 DEF HasEntry
  <2>6. v.attribute_meta \in Nat
    BY <2>1, CellChosen, AtTypedTiler
  <2>7. ListedTo(v.attribute_meta, s + 1)
    BY <2>1, <2>5, <2>6, ListGoesOn DEF FaultInv
  <2>8. Cell(payload)' = v
    BY <1>1, <2>1, TilerStays
  <2>9. PICK a, b : a = v.attribute_meta /\ b = s + 1
    OBVIOUS
  <2>10. ListedTo(a, b)'
    BY <1>1, <2>7, <2>9, ListedKept
  <2> QED BY <2>2, <2>8, <2>9, <2>10 DEF ListedTo
<1>5. (pc = "attributes" /\ job' = job /\ s' = s) \/ VertexTiler \/ (Attribute /\ s' # s)
  BY DEF Next, Panwrap, Decode, Submit, BeginAtom, EndAtom, Return, Header, SetValue,
         Attribute, VertexTilerWords, Fragment, DumpPayload, NextJob,
         Relink, vars, trace, Running, Reads, Crash, HeaderUnmapped,
         ChainReturns, TraceChain, TraceAtom, Done
<1> QED BY <1>2, <1>3, <1>4, <1>5

-----------------------------------------------------------------------------
(***************************************************************************)
(* The decoder crashes on no well-formed submission.                       *)
(***************************************************************************)
LEMMA FaultInit == Init => FaultInv
BY DEF Init, FaultInv, NoFault, InTiler

LEMMA FaultNext == ASSUME TypeInv, FaultInv, [Next]_vars PROVE FaultInv'
<1>1. Kept(mem, mem') /\ mmaps' = mmaps /\ atoms' = atoms /\ writable' = writable
  BY StepKeeps
<1>2. ASSUME WellFormed', writable' PROVE status' # "crashed"
  <2>1. WellFormed /\ writable
    BY <1>1, <1>2, WellFormedKept
  <2> QED BY <2>1, NoFaultStep
<1>3. InTiler' => Cell(payload)'.shader \notin Sabotaged
  BY ShaderStep
<1>4. ASSUME pc' = "attributes", Apart', Live'
      PROVE  ListedTo(Cell(payload).attribute_meta, s)'
  <2>1. Apart /\ Live
    BY <1>1, <1>4 DEF Apart, Live, Kept
  <2> QED BY <1>4, <2>1, ListStep
<1> QED BY <1>2, <1>3, <1>4 DEF FaultInv, NoFault

(***************************************************************************)
(* The decoder takes no program down whose jobs are well-formed, in every  *)
(* state of every such submission, whatever the program links meanwhile.   *)
(***************************************************************************)
THEOREM NeverFaults == Spec => []NoFault
<1>1. TypeInv /\ FaultInv /\ [Next]_vars => FaultInv'
  BY FaultNext
<1>2. FaultInv => NoFault
  BY DEF FaultInv
<1> QED BY <1>1, <1>2, FaultInit, TypeInvariant, PTL DEF Spec

-----------------------------------------------------------------------------
(***************************************************************************)
(* The jobs linked from a job: itself and those linked from the next.      *)
(***************************************************************************)
LEMMA SuccessorOf ==
    ASSUME TypeInv, Apart, NEW g \in JobAddrs, Points(g, "job")
    PROVE  /\ Successors(g) = {GpuCell(g).next} \ {0}
           /\ GpuCell(g).next \in JobAddrs \cup {0}
<1>1. g \in Nat
  BY TraceAssumption
<1>2. GpuCell(g) \in Cells(g)
  BY <1>1, PointsToCell
<1>3. GpuCell(g).next \in JobAddrs \cup {0}
  BY <1>2, JobCell DEF TypeInv, TypeOK
<1> QED BY <1>3 DEF Successors

\* The sets that Linked(g) is the least of.
Closed(g) == {A \in SUBSET JobAddrs : g \in A /\ \A a \in A : Successors(a) \subseteq A}

LEMMA LinkedIn ==
    ASSUME NEW g
    PROVE  \A a : a \in Linked(g) <=> /\ a \in JobAddrs /\ Points(a, "job")
                                      /\ \A A \in Closed(g) : a \in A
BY DEF Linked, Closed

LEMMA LinkedFromNothing ==
    ASSUME NEW g \in JobAddrs, ~Points(g, "job") PROVE Linked(g) = {}
<1>1. {g} \in Closed(g)
  BY DEF Closed, Successors
<1> QED BY <1>1, LinkedIn

LEMMA LinkedFromLast ==
    ASSUME NEW g \in JobAddrs, Points(g, "job"), Successors(g) = {}
    PROVE  Linked(g) = {g}
<1>1. {g} \in Closed(g)
  BY DEF Closed
<1>2. \A A \in Closed(g) : g \in A
  BY DEF Closed
<1> QED BY <1>1, <1>2, LinkedIn

LEMMA LinkedFromJob ==
    ASSUME NEW g \in JobAddrs, Points(g, "job"),
           NEW h \in JobAddrs, Successors(g) = {h}
    PROVE  Linked(g) = {g} \cup Linked(h)
<1>1. ASSUME NEW a \in Linked(g), a # g PROVE a \in Linked(h)
  <2>1. ASSUME NEW A \in Closed(h) PROVE a \in A
    <3>1. A \cup {g} \in Closed(g)
      BY DEF Closed
    <3> QED BY <1>1, <3>1, LinkedIn
  <2> QED BY <1>1, <2>1, LinkedIn
<1>2. ASSUME NEW a \in Linked(h) PROVE a \in Linked(g)
  <2>1. Closed(g) \subseteq Closed(h)
    BY DEF Closed
  <2> QED BY <1>2, <2>1, LinkedIn
<1>3. g \in Linked(g)
  <2>1. \A A \in Closed(g) : g \in A
    BY DEF Closed
  <2> QED BY <2>1, LinkedIn
<1> QED BY <1>1, <1>2, <1>3

\* As long as nothing is relinked, the same jobs are linked.
LEMMA LinkedKept ==
    ASSUME Kept(mem, mem'), mmaps' = mmaps,
           \A p \in DOMAIN mem : mem[p].kind = "job" => mem'[p] = mem[p],
           NEW g
    PROVE  Successors(g)' = Successors(g) /\ Linked(g)' = Linked(g)
<1>1. \A a : Points(a, "job")' <=> Points(a, "job")
  BY PointsKept DEF VertexKinds
<1>2. ASSUME NEW a PROVE Successors(a)' = Successors(a)
  <2>1. CASE Points(a, "job")
    <3> DEFINE p == CHOOSE q \in CpuOf(a) : TRUE
    <3>1. CpuOf(a)' = CpuOf(a)
      BY DEF CpuOf
    <3>2. GpuCell(a) = mem[p] /\ GpuCell(a)' = mem'[p]
      BY <3>1 DEF GpuCell
    <3>3. p \in DOMAIN mem /\ mem[p].kind = "job"
      BY <2>1 DEF Points
    <3>4. GpuCell(a)' = GpuCell(a)
      BY <3>2, <3>3
    <3> QED BY <1>1, <2>1, <3>4 DEF Successors
  <2>2. CASE ~Points(a, "job")
    BY <1>1, <2>2 DEF Successors
  <2> QED BY <2>1, <2>2
<1>3. Linked(g)' = Linked(g)
  BY <1>1, <1>2 DEF Linked
<1> QED BY <1>2, <1>3

-----------------------------------------------------------------------------
(***************************************************************************)
(* What holds along a chain of hardware jobs that the program leaves alone *)
(* and that begins where the addresses of the GPU are those of the CPU:    *)
(* the jobs described, and those linked from the decoder's job, or from    *)
(* its next when it is described, are the jobs linked from jc.             *)
(***************************************************************************)
Hunt == /\ status = "running" /\ writes = 0 /\ Apart
        /\ SoftJob \notin atoms[i].core_req /\ SameVA(atoms[i].jc)
Goal == Linked(atoms[i].jc)
Ahead == UNION {Linked(h) : h \in Successors(job)}

ChainInv ==
    /\ pc = "atom_end" => status = "running"
    /\ Hunt /\ pc = "header" => /\ job \in JobAddrs
                                /\ described \cup Linked(job) = Goal
    /\ Hunt /\ AtJob => /\ job \in JobAddrs /\ Points(job, "job")
                        /\ job \in described /\ described \cup Ahead = Goal
    /\ Hunt /\ pc = "atom_end" => described = Goal

LEMMA LinkedAhead ==
    ASSUME TypeInv, Apart, job \in JobAddrs, Points(job, "job")
    PROVE  Linked(job) = {job} \cup Ahead
<1>1. PICK h : h = GpuCell(job).next
  OBVIOUS
<1>2. Successors(job) = {h} \ {0} /\ h \in JobAddrs \cup {0}
  BY <1>1, SuccessorOf
<1>3. CASE h = 0
  <2>1. Successors(job) = {}
    BY <1>2, <1>3
  <2> QED BY <2>1, LinkedFromLast DEF Ahead
<1>4. CASE h # 0
  <2>1. Successors(job) = {h} /\ h \in JobAddrs
    BY <1>2, <1>4
  <2>2. Linked(job) = {job} \cup Linked(h)
    BY <2>1, LinkedFromJob
  <2>3. Ahead = Linked(h)
    BY <2>1 DEF Ahead
  <2> QED BY <2>2, <2>3
<1> QED BY <1>3, <1>4

\* A step that relinks nothing changes no job.
LEMMA JobsStay ==
    ASSUME TypeInv, [Next]_vars, writes' = writes
    PROVE  \A p \in DOMAIN mem : mem[p].kind = "job" => mem'[p] = mem[p]
<1>1. CASE mem' = mem
  BY <1>1
<1>2. CASE Attribute
  <2>1. CASE mem' = mem
    BY <2>1
  <2>2. CASE \E vb \in Range(mem) : vb.kind = "attribute_buffer" /\ mem' = WithFlare(vb)
    BY <2>2, FlareKeeps DEF TypeInv, TypeOK
  <2> QED BY <1>2, <2>1, <2>2, AttributeMemory
<1>3. CASE Relink
  <2>1. writes' = writes + 1 /\ writes \in Nat
    BY <1>3 DEF Relink, TypeInv, TypeOK
  <2> QED BY <2>1
<1> QED BY <1>1, <1>2, <1>3, StepMemory

\* Within an atom, what is linked stays, and the hunt was already on.
LEMMA HuntStays ==
    ASSUME TypeInv, [Next]_vars, Hunt', i' = i, pc \notin {"call", "atom"}
    PROVE  /\ Hunt /\ Goal' = Goal
           /\ \A g : /\ Linked(g)' = Linked(g) /\ Successors(g)' = Successors(g)
                     /\ Points(g, "job")' <=> Points(g, "job")
<1>1. Kept(mem, mem') /\ mmaps' = mmaps /\ atoms' = atoms
  BY StepKeeps
<1>2. writes' = 0 /\ status' = "running"
  BY DEF Hunt
<1>3. status = "running" /\ writes = 0
  <2>1. CASE Relink
    BY <1>2, <2>1 DEF Relink, TypeInv, TypeOK
  <2>2. CASE UNCHANGED vars
    BY <1>2, <2>2 DEF vars, trace
  <2>3. CASE Submit \/ BeginAtom \/ EndAtom \/ Return
    BY <1>2, <2>3 DEF Submit, BeginAtom, EndAtom, Return, fixed, Running
  <2>4. CASE Decode
    BY <1>2, <2>4 DEF Decode, Header, SetValue, VertexTiler, Attribute,
       VertexTilerWords, Fragment, DumpPayload, NextJob, fixed, Running
  <2> QED BY <2>1, <2>2, <2>3, <2>4 DEF Next, Panwrap
<1>4. \A g : /\ Linked(g)' = Linked(g) /\ Successors(g)' = Successors(g)
             /\ Points(g, "job")' <=> Points(g, "job")
  BY <1>1, <1>2, <1>3, JobsStay, LinkedKept, PointsKept DEF VertexKinds
<1>5. Apart
  <2>1. Apart'
    BY DEF Hunt
  <2> QED BY <1>1, <2>1 DEF Apart
<1>6. PICK c : c = atoms[i].jc
  OBVIOUS
<1>7. SoftJob \notin atoms[i].core_req /\ SameVA(c)
  <2>1. SoftJob \notin atoms'[i'].core_req /\ CpuOf(atoms[i].jc)' = {atoms'[i'].jc}
    BY DEF Hunt, SameVA
  <2> QED BY <1>1, <1>6, <2>1 DEF SameVA, CpuOf
<1>8. Goal' = Linked(c)'
  BY <1>1, <1>6 DEF Goal, Linked
<1>9. Goal' = Goal
  BY <1>4, <1>6, <1>8 DEF Goal
<1> QED BY <1>3, <1>4, <1>5, <1>6, <1>7, <1>9 DEF Hunt

LEMMA ChainHeader ==
    ASSUME TypeInv, ChainInv, Header, i' = i, [Next]_vars PROVE ChainInv'
<1>1. /\ pc = "header" /\ status = "running" /\ job' = job /\ i' = i
      /\ mem' = mem /\ mmaps' = mmaps
  BY DEF Header, Running, fixed, HeaderUnmapped, Reads
<1>2. CASE Fetch(job, 1) = {} /\ HeaderUnmapped
  <2>1. pc' = "atom_end" /\ status' = "running" /\ described' = described
    BY <1>1, <1>2 DEF HeaderUnmapped, ChainReturns
  <2>2. ASSUME Hunt' PROVE described' = Goal'
    <3>1. Hunt /\ Goal' = Goal
      BY <1>1, <2>2, HuntStays
    <3>2. job \in JobAddrs /\ job \in Nat /\ described \cup Linked(job) = Goal
      BY <1>1, <3>1, TraceAssumption DEF ChainInv
    <3>3. ~Readable(job)
      BY <1>2 DEF Readable, Cells
    <3>4. ~Points(job, "job")
      BY <3>1, <3>2, <3>3, PointsToCell DEF Hunt
    <3>5. Linked(job) = {}
      BY <3>2, <3>4, LinkedFromNothing
    <3> QED BY <2>1, <3>1, <3>2, <3>5
  <2> QED BY <2>1, <2>2 DEF ChainInv, AtJob
<1>3. CASE Reads(Readable(job), "payload") /\ described' = described \cup {job}
  <2>1. CASE status' = "crashed"
    BY <1>1, <1>3, <2>1 DEF ChainInv, Hunt, Reads, Crash
  <2>2. CASE Readable(job) /\ pc' = "payload"
    <3>1. ASSUME Hunt'
          PROVE  /\ job' \in JobAddrs /\ Points(job, "job")' /\ job' \in described'
                 /\ described' \cup Ahead' = Goal'
      <4>1. /\ Hunt /\ Goal' = Goal
            /\ \A g : /\ Linked(g)' = Linked(g) /\ Successors(g)' = Successors(g)
                      /\ Points(g, "job")' <=> Points(g, "job")
        BY <1>1, <3>1, HuntStays
      <4>2. job \in JobAddrs /\ described \cup Linked(job) = Goal
        BY <1>1, <4>1 DEF ChainInv
      <4>3. Points(job, "job")
        BY <2>2, <4>1, AtTypedJob, CellIsPointedTo DEF Hunt
      <4>4. Linked(job) = {job} \cup Ahead
        BY <4>1, <4>2, <4>3, LinkedAhead DEF Hunt
      <4>5. Ahead' = Ahead
        BY <1>1 DEF Ahead, Linked, Successors, Points, GpuCell, CpuOf
      <4>6. Points(job, "job")'
        BY <1>1, <4>3 DEF Points, CpuOf
      <4> QED BY <1>1, <1>3, <4>1, <4>2, <4>4, <4>5, <4>6
    <3> QED BY <2>2, <3>1 DEF ChainInv, AtJob
  <2> QED BY <1>3, <2>1, <2>2 DEF Reads, Crash
<1> QED BY <1>2, <1>3 DEF Header

\* A step that stays at the job.
LEMMA ChainWithin ==
    ASSUME TypeInv, ChainInv, [Next]_vars, AtJob, AtJob',
           job' = job, described' = described, i' = i
    PROVE  ChainInv'
<1>1. ASSUME Hunt'
      PROVE  /\ job' \in JobAddrs /\ Points(job, "job")' /\ job' \in described'
             /\ described' \cup Ahead' = Goal'
  <2>1. pc \notin {"call", "atom"}
    BY DEF AtJob
  <2>2. /\ Hunt /\ Goal' = Goal
        /\ \A g : /\ Linked(g)' = Linked(g) /\ Successors(g)' = Successors(g)
                  /\ Points(g, "job")' <=> Points(g, "job")
    BY <1>1, <2>1, HuntStays
  <2>3. PICK c : c = job
    OBVIOUS
  <2>4. Points(c, "job") /\ job \in JobAddrs /\ job \in described
        /\ described \cup Ahead = Goal
    BY <2>2, <2>3 DEF ChainInv
  <2>5. Points(job, "job")'
    <3>1. Points(c, "job")'
      BY <2>2, <2>4
    <3> QED BY <2>3, <3>1 DEF Points, CpuOf
  <2>6. Ahead' = Ahead
    <3>1. Successors(job)' = Successors(job)
      <4>1. Successors(c)' = Successors(c)
        BY <2>2
      <4> QED BY <2>3, <4>1 DEF Successors, Points, GpuCell, CpuOf
    <3> QED BY <2>2, <3>1 DEF Ahead
  <2> QED BY <2>2, <2>4, <2>5, <2>6
<1> QED BY <1>1 DEF ChainInv, AtJob

LEMMA ChainNextJob ==
    ASSUME TypeInv, ChainInv, NextJob, i' = i, [Next]_vars PROVE ChainInv'
<1>1. /\ pc = "next" /\ status = "running" /\ i' = i
      /\ described' = described /\ Readable(job)
  BY DEF NextJob, Running, fixed, TypeInv, Placed, AtJob
<1>2. ASSUME Hunt'
      PROVE  /\ Hunt /\ Goal' = Goal /\ \A g : Linked(g)' = Linked(g)
             /\ job \in described /\ described \cup Ahead = Goal
             /\ Successors(job) = {Cell(job).next} \ {0}
             /\ Cell(job).next \in JobAddrs \cup {0}
  <2>1. Hunt /\ Goal' = Goal /\ \A g : Linked(g)' = Linked(g)
    BY <1>1, <1>2, HuntStays
  <2>2. /\ job \in JobAddrs /\ Points(job, "job") /\ job \in described
        /\ described \cup Ahead = Goal /\ job \in Nat
    BY <1>1, <2>1, TraceAssumption DEF ChainInv, AtJob
  <2>3. Cell(job) = GpuCell(job)
    BY <2>1, <2>2, PointsToCell DEF Hunt
  <2> QED BY <2>1, <2>2, <2>3, SuccessorOf DEF Hunt
<1>3. CASE Cell(job).next # 0 /\ job' = Cell(job).next /\ pc' = "header"
  <2>1. PICK h : h = Cell(job).next
    OBVIOUS
  <2>2. pc' = "header" /\ job' = h
    BY <1>3, <2>1
  <2>3. ASSUME Hunt' PROVE job' \in JobAddrs /\ described' \cup Linked(job)' = Goal'
    <3>1. Successors(job) = {h} /\ h \in JobAddrs
      BY <1>2, <1>3, <2>1, <2>3
    <3>2. Ahead = Linked(h)
      BY <3>1 DEF Ahead
    <3>3. Linked(job)' = Linked(h)'
      BY <2>2 DEF Linked
    <3> QED BY <1>1, <1>2, <2>2, <2>3, <3>1, <3>2, <3>3
  <2> QED BY <2>2, <2>3 DEF ChainInv, AtJob
<1>4. CASE Cell(job).next = 0 /\ pc' = "atom_end" /\ status' = status
  <2>1. ASSUME Hunt' PROVE described' = Goal'
    <3>1. Successors(job) = {}
      BY <1>2, <1>4, <2>1
    <3>2. Ahead = {}
      BY <3>1 DEF Ahead
    <3> QED BY <1>1, <1>2, <2>1, <3>2
  <2> QED BY <1>1, <1>4, <2>1 DEF ChainInv, AtJob
<1>5. CASE status' = "exhausted" /\ pc' = pc
  BY <1>1, <1>5 DEF ChainInv, Hunt
<1>6. CASE Cell(job).next # 0 /\ TraceChain(NextInChain)
  BY <1>3, <1>5, <1>6 DEF TraceChain, NextInChain
<1>7. CASE Cell(job).next = 0 /\ ChainReturns
  BY <1>4, <1>7 DEF ChainReturns
<1> QED BY <1>6, <1>7 DEF NextJob

\* Where the addresses are the same jc is found among the CPU's.
LEMMA SameIsFound ==
    ASSUME TypeInv, NEW c \in Nat, SameVA(c)
    PROVE  c # 0 /\ FindMappedMemContaining(mmaps, c) # 0
<1>1. mmaps \in Seq(Record)
  BY DEF TypeInv, TypeOK, WellTyped
<1>2. PICK k \in HoldingIn(mmaps, c) : c = mmaps[k].addr + (c - mmaps[k].gpu_va)
  BY DEF SameVA, CpuOf, CpuIn
<1>3. /\ k \in 1..Len(mmaps) /\ mmaps[k] \in Record
      /\ mmaps[k].gpu_va <= c /\ c < mmaps[k].gpu_va + mmaps[k].length
  BY <1>1, <1>2 DEF HoldingIn
<1>4. /\ mmaps[k].addr \in Nat \ {0} /\ mmaps[k].length \in Nat /\ mmaps[k].gpu_va \in Nat
  BY <1>3 DEF Record
<1>5. c # 0 /\ mmaps[k].addr <= c /\ c <= mmaps[k].addr + mmaps[k].length
  <2>1. PICK a, l, v : a = mmaps[k].addr /\ l = mmaps[k].length /\ v = mmaps[k].gpu_va
    OBVIOUS
  <2>2. c = a + (c - v) /\ v <= c /\ c < v + l
    BY <1>2, <1>3, <2>1
  <2>3. a \in Nat \ {0} /\ l \in Nat /\ v \in Nat
    BY <1>4, <2>1
  <2>4. c # 0 /\ a <= c /\ c <= a + l
    BY <2>2, <2>3
  <2> QED BY <2>1, <2>4
<1>6. PICK f : f = FindMappedMemContaining(mmaps, c)
  OBVIOUS
<1>7. f # 0
  BY <1>1, <1>3, <1>5, <1>6, FindMappedMemContainingSpec
<1> QED BY <1>5, <1>6, <1>7

LEMMA ChainBeginAtom ==
    ASSUME TypeInv, BeginAtom PROVE ChainInv'
<1> DEFINE c == atoms[i].jc
<1>1. /\ status = "running" /\ pc = "atom" /\ i \in DOMAIN atoms /\ i' = i
      /\ mem' = mem /\ mmaps' = mmaps /\ atoms' = atoms
  BY DEF BeginAtom, Running, fixed, call, TypeInv, TypeOK
<1>2. ASSUME Hunt'
      PROVE  SoftJob \notin atoms[i].core_req /\ c \in JobAddrs
             /\ FindMappedMemContaining(mmaps, c) # 0
  <2>1. SoftJob \notin atoms'[i'].core_req /\ CpuOf(atoms[i].jc)' = {atoms'[i'].jc}
    BY <1>2 DEF Hunt, SameVA
  <2>2. SoftJob \notin atoms[i].core_req /\ SameVA(c)
    BY <1>1, <2>1 DEF SameVA, CpuOf
  <2>3. c \in Nat
    <3>1. atoms \in Seq(Atom)
      BY DEF TypeInv, TypeOK
    <3>2. atoms[i] \in Atom
      BY <1>1, <3>1
    <3> QED BY <3>2 DEF Atom
  <2>4. c # 0 /\ FindMappedMemContaining(mmaps, c) # 0
    BY <2>2, <2>3, SameIsFound
  <2> QED BY <1>1, <2>2, <2>4 DEF TypeInv, Placed, AtomsTyped
<1>3. CASE FindMappedMemContaining(mmaps, c) # 0 /\ TraceAtom(atoms[i])
  <2>1. CASE SoftJob \in atoms[i].core_req
    <3>1. pc' \in {"atom", "atom_end"} /\ (pc' = "atom_end" => status' = "running")
      BY <1>1, <1>3, <2>1 DEF TraceAtom, Reads, Crash
    <3> QED BY <1>2, <2>1, <3>1 DEF ChainInv, AtJob
  <2>2. CASE SoftJob \notin atoms[i].core_req
    <3>1. /\ described' = {}
          /\ \/ pc' = "header" /\ job' = c
             \/ pc' = pc /\ status' = "exhausted"
      BY <1>3, <2>2 DEF TraceAtom, TraceChain
    <3>2. CASE pc' = "header" /\ job' = c
      <4>1. Goal' = Linked(job)'
        BY <1>1, <3>2 DEF Goal, Linked
      <4> QED BY <1>2, <3>1, <3>2, <4>1 DEF ChainInv, AtJob
    <3>3. CASE pc' = pc /\ status' = "exhausted"
      BY <1>1, <3>3 DEF ChainInv, AtJob
    <3> QED BY <3>1, <3>2, <3>3
  <2> QED BY <2>1, <2>2
<1>4. CASE FindMappedMemContaining(mmaps, c) = 0 /\ pc' = "atom_end" /\ UNCHANGED status
  BY <1>1, <1>2, <1>4 DEF ChainInv, AtJob
<1> QED BY <1>3, <1>4 DEF BeginAtom

LEMMA ChainStutter ==
    ASSUME TypeInv, ChainInv, UNCHANGED vars PROVE ChainInv'
<1>1. /\ mem' = mem /\ mmaps' = mmaps /\ atoms' = atoms /\ i' = i /\ job' = job
      /\ pc' = pc /\ status' = status /\ writes' = writes /\ described' = described
  BY DEF vars, trace
<1>2. Hunt' <=> Hunt
  BY <1>1 DEF Hunt, Apart, SameVA, CpuOf
<1>3. Goal' = Goal /\ Linked(job)' = Linked(job)
  BY <1>1 DEF Goal, Linked, Successors, Points, GpuCell, CpuOf
<1>4. Ahead' = Ahead
  BY <1>1 DEF Ahead, Linked, Successors, Points, GpuCell, CpuOf
<1>5. Points(job, "job")' <=> Points(job, "job")
  BY <1>1 DEF Points, CpuOf
<1> QED BY <1>1, <1>2, <1>3, <1>4, <1>5 DEF ChainInv, AtJob

LEMMA ChainNext == ASSUME TypeInv, ChainInv, [Next]_vars PROVE ChainInv'
<1>1. CASE Submit \/ EndAtom \/ Return
  <2>1. pc' \in {"call", "atom"}
    BY <1>1 DEF Submit, EndAtom, Return, Running, Done
  <2> QED BY <2>1 DEF ChainInv, AtJob
<1>2. CASE Relink
  <2>1. writes' # 0 /\ status' = "running"
    BY <1>2 DEF Relink, TypeInv, TypeOK
  <2> QED BY <2>1 DEF ChainInv, Hunt
<1>3. CASE Header /\ i' = i
  BY <1>3, ChainHeader
<1>4. CASE NextJob /\ i' = i
  BY <1>4, ChainNextJob
<1>5. CASE i' = i /\ \/ SetValue \/ VertexTiler \/ Attribute \/ VertexTilerWords
                     \/ Fragment \/ DumpPayload
  <2>1. AtJob /\ AtJob' /\ job' = job /\ described' = described
    <3>1. CASE SetValue \/ Fragment \/ DumpPayload
      BY <3>1 DEF SetValue, Fragment, DumpPayload, Running, Reads, Crash, AtJob
    <3>2. CASE VertexTiler
      BY <3>2 DEF VertexTiler, Running, Shader, SabotagedJob, Reads, Crash, AtJob
    <3>3. CASE Attribute
      BY <3>3 DEF Attribute, TraceAttribute, Running, Reads, Crash, AtJob
    <3>4. CASE VertexTilerWords
      BY <3>4 DEF VertexTilerWords, Running, Reads, Crash, AtJob
    <3> QED BY <1>5, <3>1, <3>2, <3>3, <3>4
  <2> QED BY <1>5, <2>1, ChainWithin
<1> QED
  BY <1>1, <1>2, <1>3, <1>4, <1>5, ChainBeginAtom, ChainStutter
     DEF Next, Panwrap, Decode

(***************************************************************************)
(* A chain is described to its end: in every submission, when the decoder  *)
(* is done with an atom, the jobs whose header it logged are the jobs that *)
(* can be reached from jc, whatever their types, unless the program linked *)
(* them anew.                                                              *)
(***************************************************************************)
THEOREM ChainAlwaysDescribed == Spec => []ChainDescribed
<1>1. Init => ChainInv
  BY DEF Init, ChainInv, AtJob
<1>2. TypeInv /\ ChainInv /\ [Next]_vars => ChainInv'
  BY ChainNext
<1>3. ChainInv => ChainDescribed
  BY DEF ChainInv, ChainDescribed, Hunt, Goal
<1> QED BY <1>1, <1>2, <1>3, TypeInvariant, PTL DEF Spec

-----------------------------------------------------------------------------
(***************************************************************************)
(* The flags.  The loop of panwrap_log_decoded_flags ends, so there is a   *)
(* function that says what it returns from each of its states.             *)
(***************************************************************************)
Named(info, l) == [k |-> l.k + 1, names |-> Append(l.names, info[l.k]),
                   rest |-> Cleared(l.rest, info[l.k])]
Skipped(l) == [l EXCEPT !.k = l.k + 1]
Pass(f, info, l) ==
    IF l.k > Len(info) THEN [names |-> l.names, rest |-> l.rest]
    ELSE IF info[l.k] \subseteq l.rest THEN f[Named(info, l)] ELSE f[Skipped(l)]

LEMMA NamedInLoop ==
    ASSUME NEW info, NEW l \in Loop, info[l.k] \in SUBSET Nat
    PROVE  Named(info, l) \in Loop /\ Named(info, l).k = l.k + 1
<1>1. l.k + 1 \in Nat \ {0} /\ l.names \in Seq(SUBSET Nat) /\ l.rest \in SUBSET Nat
  BY DEF Loop
<1>2. Append(l.names, info[l.k]) \in Seq(SUBSET Nat)
  BY <1>1
<1>3. Cleared(l.rest, info[l.k]) \in SUBSET Nat
  BY <1>1 DEF Cleared
<1> QED BY <1>1, <1>2, <1>3 DEF Named, Loop

\* f is what the loop returns from its last n entries on.
DecodesLast(f, info, n) ==
    /\ f = [l \in Loop |-> f[l]]
    /\ \A l \in Loop : l.k + n > Len(info) => f[l] = Pass(f, info, l)

LEMMA DecodeExists ==
    ASSUME NEW info \in Seq(SUBSET Nat)
    PROVE  \A n \in Nat : \E f : DecodesLast(f, info, n)
<1> DEFINE S == {n \in Nat : \E f : DecodesLast(f, info, n)}
<1>0. Len(info) \in Nat
  OBVIOUS
<1>1. 0 \in S
  <2> DEFINE g == [l \in Loop |-> [names |-> l.names, rest |-> l.rest]]
  <2>1. g = [l \in Loop |-> g[l]]
    OBVIOUS
  <2>2. ASSUME NEW l \in Loop, l.k + 0 > Len(info) PROVE g[l] = Pass(g, info, l)
    <3>1. l.k > Len(info)
      BY <1>0, <2>2 DEF Loop
    <3> QED BY <3>1 DEF Pass
  <2> HIDE DEF g
  <2>3. DecodesLast(g, info, 0)
    BY <2>1, <2>2 DEF DecodesLast
  <2> QED BY <2>3
<1>2. ASSUME NEW n \in S PROVE n + 1 \in S
  <2>1. PICK f : DecodesLast(f, info, n)
    OBVIOUS
  <2> DEFINE g == [l \in Loop |-> IF l.k + n > Len(info) THEN f[l] ELSE Pass(f, info, l)]
  <2>2. g = [l \in Loop |-> g[l]]
    OBVIOUS
  <2>3. ASSUME NEW l \in Loop, l.k + (n + 1) > Len(info) PROVE g[l] = Pass(g, info, l)
    <3>0. l.k \in Nat \ {0} /\ n \in Nat
      BY DEF Loop
    <3>1. g[l] = Pass(f, info, l)
      BY <2>1 DEF DecodesLast
    <3>2. CASE l.k > Len(info)
      BY <3>1, <3>2 DEF Pass
    <3>3. CASE ~(l.k > Len(info))
      <4>1. info[l.k] \in SUBSET Nat
        <5>1. PICK k : k = l.k
          OBVIOUS
        <5>2. k \in 1..Len(info)
          BY <1>0, <3>0, <3>3, <5>1
        <5>3. info[k] \in SUBSET Nat
          BY <5>2, ElementOfSeq
        <5> QED BY <5>1, <5>3
      <4>2. ASSUME NEW m \in Loop, m.k = l.k + 1 PROVE g[m] = f[m]
        <5>1. m.k + n > Len(info)
          BY <1>0, <2>3, <3>0, <4>2
        <5> QED BY <5>1
      <4>3. Skipped(l) \in Loop /\ Skipped(l).k = l.k + 1
        BY <3>0 DEF Skipped, Loop
      <4>4. Named(info, l) \in Loop /\ Named(info, l).k = l.k + 1
        BY <3>0, <4>1, NamedInLoop
      <4>5. g[Skipped(l)] = f[Skipped(l)] /\ g[Named(info, l)] = f[Named(info, l)]
        BY <4>2, <4>3, <4>4
      <4> QED BY <3>1, <4>5 DEF Pass
    <3> QED BY <3>2, <3>3
  <2> HIDE DEF g
  <2>4. DecodesLast(g, info, n + 1)
    BY <2>2, <2>3 DEF DecodesLast
  <2> QED BY <2>4
<1>3. S = Nat
  <2> HIDE DEF S
  <2>1. S \in SUBSET Nat
    BY DEF S
  <2> QED BY <1>1, <1>2, <2>1, Induct
<1> QED BY <1>3

\* So the code's loop is one, in all its states.
LEMMA DecodedIs ==
    ASSUME NEW info \in Seq(SUBSET Nat), NEW flags
    PROVE  \E f : /\ \A l \in Loop : f[l] = Pass(f, info, l)
                 /\ DecodedFlags(info, flags) = f[[k |-> 1, names |-> <<>>, rest |-> flags]]
<1> DEFINE Decodes(f) == f = [l \in Loop |-> Pass(f, info, l)]
           decode == CHOOSE f : Decodes(f)
<1>1. PICK f : DecodesLast(f, info, Len(info))
  <2>1. Len(info) \in Nat
    OBVIOUS
  <2> QED BY <2>1, DecodeExists
<1>2. Decodes(f)
  <2>1. ASSUME NEW l \in Loop PROVE f[l] = Pass(f, info, l)
    <3>1. l.k + Len(info) > Len(info)
      <4>1. l.k \in Nat \ {0} /\ Len(info) \in Nat
        BY DEF Loop
      <4> QED BY <4>1
    <3> QED BY <1>1, <3>1 DEF DecodesLast
  <2>2. f = [l \in Loop |-> f[l]]
    BY <1>1 DEF DecodesLast
  <2> QED BY <2>1, <2>2
<1>3. Decodes(decode)
  BY <1>2
<1>4. DecodedFlags(info, flags) = decode[[k |-> 1, names |-> <<>>, rest |-> flags]]
  BY DEF DecodedFlags, Pass, Named, Skipped
<1> HIDE DEF decode
<1>5. \A l \in Loop : decode[l] = Pass(decode, info, l)
  BY <1>3
<1> QED BY <1>4, <1>5

\* Naming a flag that is left accounts for its bits.
LEMMA NamedAccounted ==
    ASSUME NEW info, NEW l \in Loop, NEW flags, Accounted(l, flags),
           info[l.k] \in SUBSET Nat, info[l.k] \subseteq l.rest
    PROVE  Accounted(Named(info, l), flags)
<1> DEFINE flag == info[l.k]
           names == Append(l.names, flag)
           rest == l.rest \ flag
<1>1. Named(info, l).names = names /\ Named(info, l).rest = rest
  BY DEF Named, Cleared
<1>2. l.names \in Seq(SUBSET Nat) /\ l.rest \in SUBSET Nat
  BY DEF Loop
<1>3. /\ (UNION Range(l.names)) \cup l.rest = flags
      /\ \A k \in DOMAIN l.names : l.names[k] \cap l.rest = {}
      /\ \A k, j \in DOMAIN l.names : k # j => l.names[k] \cap l.names[j] = {}
  BY DEF Accounted
<1> DEFINE n == Len(l.names)
<1>4. /\ n \in Nat /\ DOMAIN l.names = 1..n /\ DOMAIN names = 1..(n + 1)
      /\ \A k \in 1..n : names[k] = l.names[k]
      /\ names[n + 1] = flag
  BY <1>2
<1>5. (UNION Range(names)) \cup rest = flags
  <2>1. Range(names) = Range(l.names) \cup {flag}
    <3>1. ASSUME NEW x \in Range(names) PROVE x \in Range(l.names) \cup {flag}
      <4>1. PICK k \in 1..(n + 1) : x = names[k]
        BY <1>4 DEF Range
      <4>2. CASE k \in 1..n
        BY <1>4, <4>1, <4>2 DEF Range
      <4>3. CASE k = n + 1
        BY <1>4, <4>1, <4>3
      <4> QED BY <1>4, <4>2, <4>3
    <3>2. ASSUME NEW x \in Range(l.names) PROVE x \in Range(names)
      <4>1. PICK k \in 1..n : x = l.names[k]
        BY <1>4 DEF Range
      <4>2. k \in 1..(n + 1) /\ names[k] = x
        BY <1>4, <4>1
      <4> HIDE DEF names
      <4> QED BY <1>4, <4>2 DEF Range
    <3>3. flag \in Range(names)
      <4>1. n + 1 \in 1..(n + 1)
        BY <1>4
      <4> HIDE DEF names
      <4> QED BY <1>4, <4>1 DEF Range
    <3> HIDE DEF names, flag
    <3> QED BY <3>1, <3>2, <3>3
  <2>2. UNION Range(names) = (UNION Range(l.names)) \cup flag
    <3>1. ASSUME NEW A, NEW x PROVE UNION (A \cup {x}) = (UNION A) \cup x
      <4>1. ASSUME NEW y PROVE y \in UNION (A \cup {x}) <=> y \in UNION A \/ y \in x
        OBVIOUS
      <4> QED BY <4>1
    <3> HIDE DEF names, flag
    <3> QED BY <2>1, <3>1
  <2> HIDE DEF names
  <2> QED BY <1>3, <2>2
<1>6. ASSUME NEW k \in 1..(n + 1) PROVE names[k] \cap rest = {}
  BY <1>3, <1>4, <1>6
<1>7. ASSUME NEW k \in 1..(n + 1), NEW j \in 1..(n + 1), k # j
      PROVE  names[k] \cap names[j] = {}
  <2>1. CASE k \in 1..n /\ j \in 1..n
    BY <1>3, <1>4, <1>7, <2>1
  <2>2. CASE k = n + 1 /\ j \in 1..n
    BY <1>3, <1>4, <2>2
  <2>3. CASE k \in 1..n /\ j = n + 1
    BY <1>3, <1>4, <2>3
  <2> QED BY <1>4, <1>7, <2>1, <2>2, <2>3
<1> HIDE DEF names, rest
<1> QED BY <1>1, <1>4, <1>5, <1>6, <1>7 DEF Accounted

LEMMA DecodedAccounted ==
    ASSUME NEW info \in Seq(SUBSET Nat), NEW flags \in SUBSET Nat
    PROVE  Accounted(DecodedFlags(info, flags), flags)
<1>1. PICK f : /\ \A l \in Loop : f[l] = Pass(f, info, l)
               /\ DecodedFlags(info, flags) = f[[k |-> 1, names |-> <<>>, rest |-> flags]]
  BY DecodedIs
<1> DEFINE S == {n \in Nat : \A l \in Loop :
                   l.k + n = Len(info) + 1 /\ Accounted(l, flags) => Accounted(f[l], flags)}
<1>2. Len(info) \in Nat
  OBVIOUS
<1>3. 0 \in S
  <2> SUFFICES ASSUME NEW l \in Loop, l.k + 0 = Len(info) + 1, Accounted(l, flags)
               PROVE  Accounted(f[l], flags)
    OBVIOUS
  <2>1. l.k > Len(info)
    BY <1>2 DEF Loop
  <2>2. f[l] = [names |-> l.names, rest |-> l.rest]
    BY <1>1, <2>1 DEF Pass
  <2> QED BY <2>2 DEF Accounted
<1>4. ASSUME NEW n \in S PROVE n + 1 \in S
  <2> SUFFICES ASSUME NEW l \in Loop, l.k + (n + 1) = Len(info) + 1, Accounted(l, flags)
               PROVE  Accounted(f[l], flags)
    OBVIOUS
  <2>1. PICK k : k = l.k
    OBVIOUS
  <2>2. k \in 1..Len(info) /\ n \in Nat
    BY <1>2, <2>1 DEF Loop
  <2>7. ~(l.k > Len(info))
    BY <1>2, <2>1, <2>2
  <2>3. info[l.k] \in SUBSET Nat
    BY <2>1, <2>2, ElementOfSeq
  <2>4. ASSUME NEW m \in Loop, m.k = l.k + 1, Accounted(m, flags)
        PROVE  Accounted(f[m], flags)
    <3>1. m.k + n = Len(info) + 1
      BY <1>2, <2>1, <2>2, <2>4
    <3> QED BY <2>4, <3>1
  <2>5. CASE info[l.k] \subseteq l.rest
    <3>1. f[l] = f[Named(info, l)]
      BY <1>1, <2>5, <2>7 DEF Pass
    <3> QED BY <2>3, <2>4, <2>5, <3>1, NamedInLoop, NamedAccounted
  <2>6. CASE ~(info[l.k] \subseteq l.rest)
    <3>1. f[l] = f[Skipped(l)]
      BY <1>1, <2>6, <2>7 DEF Pass
    <3>2. Skipped(l) \in Loop /\ Skipped(l).k = l.k + 1
          /\ Skipped(l).names = l.names /\ Skipped(l).rest = l.rest
      <4>1. PICK j \in Nat \ {0}, a \in Seq(SUBSET Nat), r \in SUBSET Nat :
              l = [k |-> j, names |-> a, rest |-> r]
        BY DEF Loop
      <4>2. Skipped(l) = [k |-> j + 1, names |-> a, rest |-> r]
        BY <4>1 DEF Skipped
      <4>3. j + 1 \in Nat \ {0}
        OBVIOUS
      <4>4. Skipped(l) \in Loop
        BY <4>2, <4>3 DEF Loop
      <4> QED BY <4>1, <4>2, <4>4
    <3>3. Accounted(Skipped(l), flags)
      BY <3>2 DEF Accounted
    <3> QED BY <2>4, <3>1, <3>2, <3>3
  <2> QED BY <2>5, <2>6
<1>5. S = Nat
  <2> HIDE DEF S
  <2>1. S \in SUBSET Nat
    BY DEF S
  <2> QED BY <1>3, <1>4, <2>1, Induct
<1> DEFINE l0 == [k |-> 1, names |-> <<>>, rest |-> flags]
<1>6. l0 \in Loop /\ l0.k + Len(info) = Len(info) + 1
  BY <1>2 DEF Loop
<1>7. Accounted(l0, flags)
  <2>1. l0.names = <<>> /\ l0.rest = flags /\ DOMAIN <<>> = {}
    OBVIOUS
  <2>2. Range(<<>>) = {}
    BY <2>1 DEF Range
  <2>3. (UNION Range(l0.names)) \cup l0.rest = flags
    <3>1. UNION {} = {} /\ {} \cup flags = flags
      OBVIOUS
    <3>2. Range(l0.names) = {}
      BY <2>1, <2>2, Zenon
    <3>3. UNION Range(l0.names) = {}
      BY <3>1, <3>2, Zenon
    <3> QED BY <2>1, <3>1, <3>3, Zenon
  <2> HIDE DEF l0
  <2> QED BY <2>1, <2>3 DEF Accounted
<1> HIDE DEF l0
<1>8. Accounted(f[l0], flags)
  BY <1>2, <1>5, <1>6, <1>7
<1> QED BY <1>1, <1>8 DEF l0

\* The log has the lines of the atoms before the i-th.
ShownInv == shown = [n \in 1..(i - 1) |-> Lines(n)]

LEMMA ShownInit == Init => ShownInv
BY DEF Init, ShownInv

LEMMA LinesKept == ASSUME NEW n, atoms' = atoms PROVE Lines(n)' = Lines(n)
BY DEF Lines, PreDep

LEMMA ShownNext == TypeInv /\ ShownInv /\ [Next]_vars => ShownInv'
<1> SUFFICES ASSUME TypeInv, ShownInv, [Next]_vars PROVE ShownInv'
  OBVIOUS
<1>1. CASE EndAtom
  <2>1. /\ shown' = Append(shown, Lines(i)) /\ i' = i + 1 /\ atoms' = atoms
    BY <1>1 DEF EndAtom, NextAtom, call
  <2>2. PICK k : k = i
    OBVIOUS
  <2>3. k \in Nat \ {0}
    <3>1. atoms \in Seq(Atom) /\ i \in 1..(Len(atoms) + 1)
      BY DEF TypeInv, TypeOK
    <3> QED BY <2>2, <3>1
  <2> DEFINE T == {Lines(n) : n \in 1..k}
             t == [n \in 1..k |-> Lines(n)]
  <2>4. /\ shown \in Seq(T) /\ Len(shown) = k - 1
        /\ \A n \in 1..(k - 1) : shown[n] = Lines(n)
    <3>1. shown = [n \in 1..(k - 1) |-> Lines(n)]
      BY <2>2 DEF ShownInv
    <3>2. \A n \in 1..(k - 1) : Lines(n) \in T /\ k - 1 \in Nat
      BY <2>3
    <3> HIDE DEF T
    <3> QED BY <2>3, <3>1, <3>2
  <2>5. Lines(k) \in T
    BY <2>3
  <2>6. t \in Seq(T) /\ Len(t) = k /\ \A n \in 1..k : t[n] = Lines(n)
    <3>1. \A n \in 1..k : Lines(n) \in T
      OBVIOUS
    <3> HIDE DEF T
    <3> QED BY <2>3, <3>1
  <2> HIDE DEF T, t
  <2>7. shown' = Append(shown, Lines(k))
    BY <2>1, <2>2
  <2>8. /\ shown' \in Seq(T) /\ Len(shown') = k
        /\ \A n \in 1..k : shown'[n] = t[n]
    <3>1. PICK e : e = Lines(k)
      OBVIOUS
    <3>2. shown' = Append(shown, e) /\ e \in T
      BY <2>5, <2>7, <3>1
    <3>3. shown' \in Seq(T) /\ Len(shown') = k
      BY <2>3, <2>4, <3>2
    <3>4. ASSUME NEW n \in 1..k PROVE shown'[n] = t[n]
      <4>1. CASE n \in 1..(k - 1)
        BY <2>3, <2>4, <2>6, <3>2, <4>1
      <4>2. CASE n = k
        <5>1. shown'[k] = e
          BY <2>3, <2>4, <3>2
        <5> QED BY <2>3, <2>6, <3>1, <4>2, <5>1
      <4> QED BY <2>3, <4>1, <4>2
    <3> QED BY <3>3, <3>4
  <2>9. shown' = t
    BY <2>6, <2>8, SeqEqual
  <2>10. shown' = [n \in 1..k |-> Lines(n)']
    <3>1. \A n : Lines(n)' = Lines(n)
      BY <2>1, LinesKept
    <3> QED BY <2>9, <3>1 DEF t
  <2>11. i' - 1 = k
    BY <2>1, <2>2, <2>3
  <2> QED BY <2>10, <2>11 DEF ShownInv
<1>2. CASE UNCHANGED <<i, shown, atoms>>
  <2>1. \A n : Lines(n)' = Lines(n)
    BY <1>2, LinesKept
  <2> QED BY <1>2, <2>1 DEF ShownInv
<1>3. ~EndAtom => UNCHANGED <<i, shown, atoms>>
  BY DEF Next, Panwrap, Submit, BeginAtom, Return, vars, call
<1> QED BY <1>1, <1>2, <1>3

LEMMA FlagTables ==
    /\ jd_req_flag_info \in Seq(SUBSET Nat)
    /\ external_resources_access_flag_info \in Seq(SUBSET Nat)
    /\ mali_jd_dep_type_flag_info \in Seq(SUBSET Nat)
BY DEF jd_req_flag_info, external_resources_access_flag_info,
       mali_jd_dep_type_flag_info

\* A word shown as one name, or as a number.
LEMMA WholeAccounted ==
    ASSUME NEW flags
    PROVE  /\ Accounted([names |-> <<flags>>, rest |-> {}], flags)
           /\ Accounted([names |-> <<>>, rest |-> flags], flags)
<1>1. Accounted([names |-> <<flags>>, rest |-> {}], flags)
  <2>1. DOMAIN <<flags>> = {1} /\ <<flags>>[1] = flags
    OBVIOUS
  <2>2. Range(<<flags>>) = {flags}
    BY <2>1 DEF Range
  <2>3. (UNION {flags}) \cup {} = flags /\ flags \cap {} = {}
    OBVIOUS
  <2> QED BY <2>1, <2>2, <2>3 DEF Accounted
<1>2. Accounted([names |-> <<>>, rest |-> flags], flags)
  <2>1. DOMAIN <<>> = {}
    OBVIOUS
  <2>2. Range(<<>>) = {}
    BY <2>1 DEF Range
  <2>3. (UNION {}) \cup flags = flags
    OBVIOUS
  <2> QED BY <2>1, <2>2, <2>3 DEF Accounted
<1> QED BY <1>1, <1>2

LEMMA CoreReqAccounted ==
    ASSUME NEW req \in SUBSET Nat PROVE Accounted(CoreReq(req), req)
<1>1. CASE SoftJob \notin req
  <2>1. CoreReq(req) = DecodedFlags(jd_req_flag_info, req)
    BY <1>1 DEF CoreReq
  <2> QED BY <2>1, DecodedAccounted, FlagTables
<1>2. CASE SoftJob \in req /\ req \in SoftNames
  <2>1. CoreReq(req) = [names |-> <<req>>, rest |-> {}]
    BY <1>2 DEF CoreReq
  <2> QED BY <2>1, WholeAccounted
<1>3. CASE SoftJob \in req /\ req \notin SoftNames
  <2>1. CoreReq(req) = [names |-> <<>>, rest |-> req]
    BY <1>3 DEF CoreReq
  <2> QED BY <2>1, WholeAccounted
<1> QED BY <1>1, <1>2, <1>3

\* What is taken for a dependency or a resource is a word.
LEMMA PreDepWord ==
    ASSUME atoms \in Seq(Atom), NEW n \in DOMAIN atoms, NEW j \in 1..2
    PROVE  PreDep(n, j).dependency_type \in SUBSET Nat
<1>1. PICK a \in Atom : a = atoms[n]
  BY ElementOfSeq
<1>2. a.pre_dep \in [1..2 -> Dependency] /\ a.prio \in SUBSET Nat
  BY DEF Atom
<1>3. CASE n \in {1, 2}
  <2>1. PreDep(n, j) = a.pre_dep[n]
    BY <1>1, <1>3 DEF PreDep
  <2>2. a.pre_dep[n] \in Dependency
    BY <1>2, <1>3
  <2> QED BY <2>1, <2>2 DEF Dependency
<1>4. CASE n \notin {1, 2} /\ n = 3
  <2>1. PreDep(n, j).dependency_type = a.prio
    BY <1>1, <1>4 DEF PreDep
  <2> QED BY <1>2, <2>1
<1>5. CASE n \notin {1, 2, 3}
  <2>1. PreDep(n, j).dependency_type = {}
    BY <1>5 DEF PreDep, Elsewhere
  <2> QED BY <2>1
<1> QED BY <1>3, <1>4, <1>5

LEMMA ExtResourceWord ==
    ASSUME NEW a \in Atom, NEW j PROVE ExtResource(a, j) \in SUBSET Nat
<1>1. a.ext_res_list \in Seq(SUBSET Nat)
  BY DEF Atom
<1>2. CASE 2 * j \in DOMAIN a.ext_res_list
  BY <1>1, <1>2, ElementOfSeq DEF ExtResource
<1>3. CASE 2 * j \notin DOMAIN a.ext_res_list
  BY <1>3 DEF ExtResource
<1> QED BY <1>2, <1>3

(***************************************************************************)
(* The log shows each bit of a word of flags once, by one name or in the   *)
(* rest: of the requirements of every atom, hardware or soft, of each      *)
(* external resource and of each dependency, in the words that the code    *)
(* reads for them, whatever the bits (the table of resources has an entry, *)
(* SHARED, that has none).                                                 *)
(***************************************************************************)
THEOREM FlagsAlwaysAccounted == Spec => []FlagsAccounted
<1>1. TypeInv /\ ShownInv => FlagsAccounted
  <2> SUFFICES ASSUME TypeInv, ShownInv, NEW n \in DOMAIN shown
               PROVE  /\ Accounted(shown[n].core_req, atoms[n].core_req)
                      /\ \A j \in Resources(atoms[n]) :
                           Accounted(shown[n].ext_res[j], ExtResource(atoms[n], j))
                      /\ \A j \in 1..2 :
                           Accounted(shown[n].pre_dep[j].flags,
                                     PreDep(n, j).dependency_type)
    BY DEF FlagsAccounted
  <2>1. /\ atoms \in Seq(Atom) /\ n \in DOMAIN atoms /\ atoms[n] \in Atom
        /\ shown[n] = Lines(n)
    <3>1. atoms \in Seq(Atom) /\ i \in 1..(Len(atoms) + 1)
      BY DEF TypeInv, TypeOK
    <3>2. n \in 1..(i - 1) /\ shown[n] = Lines(n)
      BY DEF ShownInv
    <3>3. n \in 1..Len(atoms)
      BY <3>1, <3>2
    <3> QED BY <3>1, <3>2, <3>3, ElementOfSeq
  <2>2. PICK a \in Atom : a = atoms[n]
    BY <2>1
  <2>3. /\ shown[n].core_req = CoreReq(a.core_req)
        /\ shown[n].ext_res = [j \in Resources(a) |->
             DecodedFlags(external_resources_access_flag_info, ExtResource(a, j))]
        /\ shown[n].pre_dep = [j \in 1..2 |->
             [atom_id |-> PreDep(n, j).atom_id,
              flags |-> DecodedFlags(mali_jd_dep_type_flag_info,
                                     PreDep(n, j).dependency_type)]]
    BY <2>1, <2>2 DEF Lines
  <2>4. Accounted(shown[n].core_req, a.core_req)
    BY <2>3, CoreReqAccounted DEF Atom
  <2>5. ASSUME NEW j \in Resources(a)
        PROVE  Accounted(shown[n].ext_res[j], ExtResource(a, j))
    BY <2>3, ExtResourceWord, DecodedAccounted, FlagTables
  <2>6. ASSUME NEW j \in 1..2
        PROVE  Accounted(shown[n].pre_dep[j].flags, PreDep(n, j).dependency_type)
    <3>1. shown[n].pre_dep[j].flags
            = DecodedFlags(mali_jd_dep_type_flag_info, PreDep(n, j).dependency_type)
      BY <2>3
    <3> QED BY <2>1, <3>1, PreDepWord, DecodedAccounted, FlagTables
  <2> QED BY <2>2, <2>4, <2>5, <2>6
<1> QED BY <1>1, TypeInvariant, ShownInit, ShownNext, PTL DEF Spec

-----------------------------------------------------------------------------
(***************************************************************************)
(* Dumps: the last byte that is not zero, the rows, and the rows put       *)
(* together again.                                                         *)
(***************************************************************************)
LEMMA MaxOfNats ==
    ASSUME NEW n \in Nat, NEW I \in SUBSET (1..n), I # {}
    PROVE  Max(I) \in I /\ \A y \in I : y <= Max(I)
<1> DEFINE D == {n - y : y \in I}
<1>1. D \in SUBSET Nat /\ D # {}
  <2>1. \A y \in I : n - y \in Nat
    OBVIOUS
  <2>2. PICK y \in I : TRUE
    OBVIOUS
  <2>3. n - y \in D
    OBVIOUS
  <2> QED BY <2>1, <2>3
<1>2. PICK d \in D : \A e \in D : d <= e
  BY <1>1, MinOfNats
<1>3. PICK x \in I : d = n - x
  BY <1>2
<1>4. ASSUME NEW y \in I PROVE x >= y
  <2>1. d <= n - y
    BY <1>2
  <2> HIDE DEF D
  <2>2. x \in 1..n /\ y \in 1..n
    OBVIOUS
  <2>3. n - x <= n - y
    BY <1>3, <2>1
  <2> QED BY <2>2, <2>3
<1>5. \E z \in I : \A y \in I : z >= y
  BY <1>4
<1>6. Max(I) \in I /\ \A y \in I : Max(I) >= y
  BY <1>5 DEF Max
<1>7. ASSUME NEW y \in I PROVE y <= Max(I)
  <2>1. PICK x2 : x2 = Max(I)
    OBVIOUS
  <2>2. x2 \in 1..n /\ y \in 1..n /\ x2 >= y
    BY <1>6, <2>1
  <2> QED BY <2>1, <2>2
<1> QED BY <1>6, <1>7

LEMMA LastNonzeroSpec ==
    ASSUME NEW data \in Seq(Nat)
    PROVE  /\ LastNonzero(data) \in 0..Len(data)
           /\ LastNonzero(data) # 0 => data[LastNonzero(data)] # 0
           /\ \A k \in 1..Len(data) : k > LastNonzero(data) => data[k] = 0
<1> DEFINE I == {k \in 1..Len(data) : data[k] # 0}
<1>1. LastNonzero(data) = IF I # {} THEN Max(I) ELSE 0
  BY DEF LastNonzero, SelectLastInSeq
<1>2. I \in SUBSET (1..Len(data)) /\ Len(data) \in Nat
  OBVIOUS
<1>3. CASE I = {}
  BY <1>1, <1>2, <1>3
<1>4. CASE I # {}
  <2>1. LastNonzero(data) \in I /\ \A y \in I : y <= LastNonzero(data)
    <3> HIDE DEF I
    <3> QED BY <1>1, <1>2, <1>4, MaxOfNats
  <2>2. ASSUME NEW k \in 1..Len(data), k > LastNonzero(data) PROVE data[k] = 0
    <3>1. SUFFICES ASSUME data[k] # 0 PROVE FALSE
      OBVIOUS
    <3>2. k <= LastNonzero(data)
      BY <2>1, <3>1
    <3> QED BY <1>2, <2>1, <2>2, <3>2
  <2> QED BY <1>2, <2>1, <2>2
<1> QED BY <1>3, <1>4

LEMMA TrimSizeSpec ==
    ASSUME NEW data \in Seq(Nat)
    PROVE  /\ TrimSize(data) \in 0..Len(data)
           /\ TrimSize(data) = 0 => Len(data) = 0
           /\ (\E b \in Range(data) : b # 0)
                => TrimSize(data) # 0 /\ data[TrimSize(data)] # 0
           /\ \A k \in 1..Len(data) : k > TrimSize(data) => data[k] = 0
<1>1. Len(data) \in Nat
  OBVIOUS
<1>2. CASE LastNonzero(data) = 0
  <2>1. TrimSize(data) = Len(data)
    BY <1>2 DEF TrimSize
  <2>2. \A k \in 1..Len(data) : data[k] = 0
    BY <1>1, <1>2, LastNonzeroSpec
  <2>3. ~\E b \in Range(data) : b # 0
    BY <2>2 DEF Range
  <2> QED BY <1>1, <2>1, <2>3
<1>3. CASE LastNonzero(data) # 0
  <2>1. TrimSize(data) = LastNonzero(data)
    BY <1>3 DEF TrimSize
  <2> QED BY <1>1, <1>3, <2>1, LastNonzeroSpec
<1> QED BY <1>2, <1>3

LEMMA TimesMonotonic ==
    ASSUME NEW a \in Int, NEW b \in Int, NEW c \in Nat, a <= b
    PROVE  a * c <= b * c
OBVIOUS

\* How many rows there are, and where each ends.
RowCount(n) == (n + RowLen - 1) \div RowLen
RowEnd(n, r) == IF r * RowLen <= n THEN r * RowLen ELSE n

LEMMA RowCountSpec ==
    ASSUME NEW n \in Nat
    PROVE  /\ RowCount(n) \in Nat
           /\ RowCount(n) * RowLen >= n
           /\ n # 0 => RowCount(n) # 0 /\ (RowCount(n) - 1) * RowLen < n
           /\ n = 0 => RowCount(n) = 0
<1> DEFINE x == n + RowLen - 1
           m == x \div RowLen
<1>1. RowLen \in Nat \ {0} /\ x \in Nat
  BY TraceAssumption
<1>2. m \in Int /\ m * RowLen <= x /\ x < m * RowLen + RowLen
  <2> HIDE DEF x
  <2> QED BY <1>1
<1>3. m = RowCount(n)
  BY DEF RowCount
<1> HIDE DEF m
<1>4. m * RowLen \in Int
  BY <1>1, <1>2
<1>5. m >= 0
  <2>1. SUFFICES ASSUME m <= -1 PROVE FALSE
    BY <1>2
  <2>2. m * RowLen <= (-1) * RowLen
    BY <1>1, <1>2, <2>1, TimesMonotonic
  <2> QED BY <1>1, <1>2, <1>4, <2>2
<1>6. m * RowLen >= n
  BY <1>1, <1>2, <1>4
<1>7. ASSUME n # 0 PROVE m # 0 /\ (m - 1) * RowLen < n
  <2>1. m # 0
    BY <1>1, <1>6, <1>7
  <2>2. (m - 1) * RowLen = m * RowLen - RowLen
    BY <1>1, <1>2
  <2> QED BY <1>1, <1>2, <1>4, <2>1, <2>2
<1>8. ASSUME n = 0 PROVE m = 0
  <2>1. SUFFICES ASSUME m >= 1 PROVE FALSE
    BY <1>2, <1>5
  <2>2. 1 * RowLen <= m * RowLen
    BY <1>1, <1>2, <2>1, TimesMonotonic
  <2> QED BY <1>1, <1>2, <1>4, <1>8, <2>2
<1> QED BY <1>2, <1>3, <1>5, <1>6, <1>7, <1>8

LEMMA RowBounds ==
    ASSUME NEW n \in Nat, NEW r \in 1..RowCount(n)
    PROVE  /\ (r - 1) * RowLen \in Nat /\ RowEnd(n, r) \in Nat
           /\ (r - 1) * RowLen < RowEnd(n, r) /\ RowEnd(n, r) <= n
           /\ r # 1 => RowEnd(n, r - 1) = (r - 1) * RowLen
           /\ r < RowCount(n) => RowEnd(n, r) = (r - 1) * RowLen + RowLen
           /\ r = RowCount(n) => RowEnd(n, r) = n
<1> DEFINE m == RowCount(n)
<1>1. /\ RowLen \in Nat \ {0} /\ m \in Nat /\ m # 0 /\ r \in Nat /\ r - 1 \in Nat
      /\ n # 0 /\ m - 1 \in Nat /\ r <= m
  <2>1. m \in Nat /\ (n = 0 => m = 0)
    BY RowCountSpec
  <2> QED BY <2>1, TraceAssumption
<1>2. m * RowLen >= n /\ (m - 1) * RowLen < n
  BY <1>1, RowCountSpec
<1> HIDE DEF m
<1>3. r * RowLen = (r - 1) * RowLen + RowLen
  BY <1>1
<1>4. (r - 1) * RowLen \in Nat /\ r * RowLen \in Nat /\ (m - 1) * RowLen \in Nat
      /\ m * RowLen \in Nat
  BY <1>1
<1>5. (r - 1) * RowLen <= (m - 1) * RowLen
  <2>1. r - 1 <= m - 1
    BY <1>1
  <2> QED BY <1>1, <2>1, TimesMonotonic
<1>6. ASSUME r < m PROVE r * RowLen <= (m - 1) * RowLen
  <2>1. r <= m - 1
    BY <1>1, <1>6
  <2> QED BY <1>1, <2>1, TimesMonotonic
<1>7. RowEnd(n, r) = IF r * RowLen <= n THEN r * RowLen ELSE n
  BY DEF RowEnd
<1>8. RowEnd(n, r - 1) = IF (r - 1) * RowLen <= n THEN (r - 1) * RowLen ELSE n
  BY DEF RowEnd
<1>9. r < m => RowEnd(n, r) = (r - 1) * RowLen + RowLen
  BY <1>2, <1>3, <1>4, <1>6, <1>7
<1>10. r = m => RowEnd(n, r) = n
  BY <1>2, <1>4, <1>7
<1>11. RowEnd(n, r - 1) = (r - 1) * RowLen
  BY <1>2, <1>4, <1>5, <1>8
<1>12. (r - 1) * RowLen < RowEnd(n, r) /\ RowEnd(n, r) <= n
  BY <1>1, <1>2, <1>3, <1>4, <1>5, <1>7
<1>13. RowEnd(n, r) \in Nat
  BY <1>4, <1>7
<1> QED BY <1>4, <1>9, <1>10, <1>11, <1>12, <1>13 DEF m

\* Each row is the bytes between the end of the one before and its own.
LEMMA RowsSpec ==
    ASSUME NEW data \in Seq(Nat), NEW n \in 0..Len(data), NEW R, R = Rows(data, n, RowLen)
    PROVE  /\ R \in Seq(Seq(Nat)) /\ Len(R) = RowCount(n)
           /\ \A r \in 1..Len(R) :
                /\ R[r] = SubSeq(data, (r - 1) * RowLen + 1, RowEnd(n, r))
                /\ R[r] \in Seq(Nat)
                /\ Len(R[r]) = RowEnd(n, r) - (r - 1) * RowLen
                /\ R[r][Len(R[r])] = data[RowEnd(n, r)]
<1> DEFINE row(r) == SubSeq(data, (r - 1) * RowLen + 1, RowEnd(n, r))
<1>1. RowCount(n) \in Nat /\ n \in Nat /\ Len(data) \in Nat
  BY RowCountSpec
<1>2. R = [r \in 1..RowCount(n) |-> row(r)]
  BY DEF Rows, RowCount, RowEnd
<1>3. ASSUME NEW r \in 1..RowCount(n)
      PROVE  /\ row(r) \in Seq(Nat)
             /\ Len(row(r)) = RowEnd(n, r) - (r - 1) * RowLen
             /\ row(r)[Len(row(r))] = data[RowEnd(n, r)]
  <2>1. PICK a, e : a = (r - 1) * RowLen /\ e = RowEnd(n, r)
    OBVIOUS
  <2>2. a \in Nat /\ e \in Nat /\ a < e /\ e <= Len(data)
    <3>1. (r - 1) * RowLen \in Nat /\ RowEnd(n, r) \in Nat
          /\ (r - 1) * RowLen < RowEnd(n, r) /\ RowEnd(n, r) <= n
      BY <1>1, RowBounds
    <3> QED BY <1>1, <2>1, <3>1
  <2>3. row(r) = SubSeq(data, a + 1, e)
    BY <2>1
  <2>4. a + 1 \in Int /\ e \in Int /\ \A k \in (a + 1)..e : data[k] \in Nat
    <3>1. \A k \in (a + 1)..e : k \in 1..Len(data)
      BY <1>1, <2>2
    <3> QED BY <2>2, <3>1, ElementOfSeq
  <2>5. PICK q : q = SubSeq(data, a + 1, e)
    OBVIOUS
  <2>6. /\ q \in Seq(Nat)
        /\ Len(q) = IF a + 1 <= e THEN e - (a + 1) + 1 ELSE 0
        /\ \A k \in 1..(e - (a + 1) + 1) : q[k] = data[(a + 1) + k - 1]
    BY <2>4, <2>5, SubSeqProperties
  <2>7. Len(q) = e - a /\ Len(q) \in 1..(e - (a + 1) + 1)
    BY <2>2, <2>6
  <2>8. q[Len(q)] = data[e]
    <3>1. q[Len(q)] = data[(a + 1) + Len(q) - 1]
      BY <2>6, <2>7
    <3>2. (a + 1) + Len(q) - 1 = e
      BY <2>2, <2>7
    <3> QED BY <3>1, <3>2
  <2>9. row(r) = q
    BY <2>3, <2>5
  <2> HIDE DEF row
  <2> QED BY <2>1, <2>6, <2>7, <2>8, <2>9
<1>4. \A r \in 1..RowCount(n) : row(r) \in Seq(Nat)
  BY <1>3
<1>5. R \in Seq(Seq(Nat)) /\ Len(R) = RowCount(n)
  <2> HIDE DEF row
  <2>1. R \in [1..RowCount(n) -> Seq(Nat)]
    BY <1>2, <1>4
  <2> QED BY <1>1, <2>1, IsASeq
<1>6. \A r \in 1..Len(R) : R[r] = row(r)
  <2> HIDE DEF row
  <2> QED BY <1>2, <1>5
<1>7. ASSUME NEW r \in 1..Len(R)
      PROVE  /\ R[r] = SubSeq(data, (r - 1) * RowLen + 1, RowEnd(n, r))
             /\ R[r] \in Seq(Nat)
             /\ Len(R[r]) = RowEnd(n, r) - (r - 1) * RowLen
             /\ R[r][Len(R[r])] = data[RowEnd(n, r)]
  <2>1. R[r] = row(r)
    BY <1>6
  <2>2. /\ row(r) \in Seq(Nat)
        /\ Len(row(r)) = RowEnd(n, r) - (r - 1) * RowLen
        /\ row(r)[Len(row(r))] = data[RowEnd(n, r)]
    BY <1>3, <1>5
  <2> QED BY <2>1, <2>2
<1> QED BY <1>5, <1>7

\* Put together, the rows are the bytes that were not trimmed.
LEMMA RowsFlattened ==
    ASSUME NEW data \in Seq(Nat), NEW n \in 0..Len(data)
    PROVE  FlattenSeq(Rows(data, n, RowLen)) = SubSeq(data, 1, n)
<1>1. PICK R : R = Rows(data, n, RowLen)
  OBVIOUS
<1>2. R \in Seq(Seq(Nat)) /\ Len(R) = RowCount(n) /\ n \in Nat /\ Len(R) \in Nat
  BY <1>1, RowsSpec, RowCountSpec
<1>3. CASE Len(R) = 0
  <2>1. FlattenSeq(R) = R
    BY <1>3 DEF FlattenSeq
  <2>2. R = <<>>
    BY <1>2, <1>3
  <2>3. n = 0
    BY <1>2, <1>3, RowCountSpec
  <2>4. SubSeq(data, 1, 0) = <<>>
    BY SubSeqEmpty
  <2> QED BY <1>1, <2>1, <2>2, <2>3, <2>4
<1>4. CASE Len(R) # 0
  <2> DEFINE D == 1..Len(R)
             Flattens(f) == f = [k \in D |-> IF k = 1 THEN R[k] ELSE f[k - 1] \o R[k]]
             flatten == CHOOSE f : Flattens(f)
             Prefix(k) == SubSeq(data, 1, RowEnd(n, k))
  <2>1. FlattenSeq(R) = flatten[Len(R)]
    BY <1>4 DEF FlattenSeq
  <2>2. ASSUME NEW k \in D
        PROVE  Prefix(k) = IF k = 1 THEN R[k] ELSE Prefix(k - 1) \o R[k]
    <3>1. k \in 1..RowCount(n) /\ k \in Nat
      BY <1>2
    <3>2. R[k] = SubSeq(data, (k - 1) * RowLen + 1, RowEnd(n, k))
      BY <1>1, RowsSpec
    <3>3. CASE k = 1
      <4>1. PICK a, e : a = (k - 1) * RowLen + 1 /\ e = RowEnd(n, k)
        OBVIOUS
      <4>2. a = 1
        <5>1. (1 - 1) * RowLen + 1 = 1
          BY TraceAssumption
        <5> QED BY <3>3, <4>1, <5>1
      <4>3. R[k] = SubSeq(data, a, e)
        BY <3>2, <4>1
      <4> QED BY <3>3, <4>1, <4>2, <4>3
    <3>4. CASE k # 1
      <4>1. PICK a, e : a = (k - 1) * RowLen /\ e = RowEnd(n, k)
        OBVIOUS
      <4>2. a \in Nat /\ e \in Nat /\ a < e /\ e <= n /\ RowEnd(n, k - 1) = a
        BY <1>2, <3>1, <3>4, <4>1, RowBounds
      <4>3. 1 \in 1..(Len(data) + 1) /\ a \in (1 - 1)..Len(data) /\ e \in a..Len(data)
        BY <1>2, <4>2
      <4>4. SubSeq(data, 1, a) \o SubSeq(data, a + 1, e) = SubSeq(data, 1, e)
        BY <4>3, ConcatAdjacentSubSeq
      <4> QED BY <3>2, <3>4, <4>1, <4>2, <4>4
    <3> QED BY <3>3, <3>4
  <2>3. Flattens(flatten)
    <3> DEFINE f == [k \in D |-> Prefix(k)]
    <3>1. ASSUME NEW k \in D PROVE f[k] = IF k = 1 THEN R[k] ELSE f[k - 1] \o R[k]
      <4>1. k # 1 => k - 1 \in D
        BY <1>2
      <4>2. f[k] = Prefix(k) /\ (k # 1 => f[k - 1] = Prefix(k - 1))
        BY <4>1
      <4> HIDE DEF f, Prefix
      <4> QED BY <2>2, <4>2
    <3>2. f = [k \in D |-> f[k]]
      OBVIOUS
    <3> HIDE DEF f
    <3>3. Flattens(f)
      BY <3>1, <3>2
    <3> QED BY <3>3
  <2> HIDE DEF flatten
  <2>4. \A k \in D : flatten[k] = IF k = 1 THEN R[k] ELSE flatten[k - 1] \o R[k]
    BY <2>3
  <2> DEFINE S == {k \in Nat : k + 1 \in D => flatten[k + 1] = Prefix(k + 1)}
  <2> HIDE DEF Prefix
  <2>5. 0 \in S
    <3>1. 0 + 1 = 1 /\ 0 \in Nat
      OBVIOUS
    <3>2. 1 \in D => flatten[1] = Prefix(1)
      BY <2>2, <2>4
    <3> QED BY <3>1, <3>2
  <2>6. ASSUME NEW k \in S PROVE k + 1 \in S
    <3>1. k \in Nat
      OBVIOUS
    <3>2. ASSUME k + 2 \in D PROVE flatten[k + 2] = Prefix(k + 2)
      <4>1. k + 1 \in D /\ k + 2 # 1 /\ (k + 2) - 1 = k + 1
        BY <1>2, <3>1, <3>2
      <4>2. flatten[k + 1] = Prefix(k + 1)
        BY <4>1
      <4>3. flatten[k + 2] = flatten[k + 1] \o R[k + 2]
        BY <2>4, <3>2, <4>1
      <4>4. Prefix(k + 2) = Prefix(k + 1) \o R[k + 2]
        BY <2>2, <3>2, <4>1
      <4> QED BY <4>2, <4>3, <4>4
    <3>3. (k + 1) + 1 = k + 2
      BY <3>1
    <3> QED BY <3>1, <3>2, <3>3
  <2>7. S = Nat
    <3> HIDE DEF S
    <3>1. S \in SUBSET Nat
      BY DEF S
    <3> QED BY <2>5, <2>6, <3>1, Induct
  <2>8. flatten[Len(R)] = Prefix(Len(R))
    <3>1. Len(R) - 1 \in S /\ (Len(R) - 1) + 1 = Len(R) /\ Len(R) \in D
      BY <1>2, <1>4, <2>7
    <3> QED BY <3>1
  <2>9. RowEnd(n, Len(R)) = n
    <3>1. Len(R) \in 1..RowCount(n)
      BY <1>2, <1>4
    <3> QED BY <1>2, <3>1, RowBounds
  <2> QED BY <1>1, <2>1, <2>8, <2>9 DEF Prefix
<1> QED BY <1>3, <1>4

\* Every buffer is dumped faithfully.
LEMMA HexdumpFaithful ==
    ASSUME NEW data \in Seq(Nat),
           dump = [data |-> data, log |-> HexdumpTrimmed(data, RowLen)]
    PROVE  DumpFaithful
<1>1. PICK n : n = TrimSize(data)
  OBVIOUS
<1>2. PICK R : R = Rows(data, n, RowLen)
  OBVIOUS
<1>3. dump.data = data /\ dump.log.rows = R /\ dump.log.zeroes = Len(data) - n
  BY <1>1, <1>2 DEF HexdumpTrimmed
<1>4. n \in 0..Len(data) /\ n \in Nat /\ Len(data) \in Nat
  BY <1>1, TrimSizeSpec
<1>5. R \in Seq(Seq(Nat)) /\ Len(R) = RowCount(n) /\ DOMAIN R = 1..Len(R) /\ Len(R) \in Nat
  BY <1>2, <1>4, RowsSpec
<1>6. FlattenSeq(R) \o [k \in 1..(Len(data) - n) |-> 0] = data
  <2> DEFINE z == [k \in 1..(Len(data) - n) |-> 0]
  <2>1. PICK p : p = SubSeq(data, 1, n)
    OBVIOUS
  <2>2. p \in Seq(Nat) /\ Len(p) = n /\ \A k \in 1..n : p[k] = data[k]
    <3>1. \A k \in 1..n : data[k] \in Nat
      <4>1. \A k \in 1..n : k \in 1..Len(data)
        BY <1>4
      <4> QED BY <4>1, ElementOfSeq
    <3>2. 1 \in Int /\ n \in Int
      BY <1>4
    <3>3. /\ p \in Seq(Nat)
          /\ Len(p) = IF 1 <= n THEN n - 1 + 1 ELSE 0
          /\ \A k \in 1..(n - 1 + 1) : p[k] = data[1 + k - 1]
      BY <2>1, <3>1, <3>2, SubSeqProperties
    <3>4. \A k \in 1..n : k \in 1..(n - 1 + 1) /\ 1 + k - 1 = k
      BY <1>4
    <3> QED BY <1>4, <3>3, <3>4
  <2>3. z \in Seq(Nat) /\ Len(z) = Len(data) - n
        /\ \A k \in 1..(Len(data) - n) : z[k] = 0
    <3>1. Len(data) - n \in Nat
      BY <1>4
    <3>2. z \in [1..(Len(data) - n) -> Nat]
      OBVIOUS
    <3> QED BY <3>1, <3>2, IsASeq
  <2> HIDE DEF z
  <2>4. PICK w : w = p \o z
    OBVIOUS
  <2>5. /\ w \in Seq(Nat) /\ Len(w) = Len(p) + Len(z)
        /\ \A k \in 1..(Len(p) + Len(z)) : w[k] = IF k <= Len(p) THEN p[k] ELSE z[k - Len(p)]
    BY <2>2, <2>3, <2>4, ConcatProperties
  <2>6. Len(w) = Len(data)
    BY <1>4, <2>2, <2>3, <2>5
  <2>7. ASSUME NEW k \in 1..Len(data) PROVE w[k] = data[k]
    <3>1. w[k] = IF k <= n THEN p[k] ELSE z[k - n]
      BY <2>2, <2>5, <2>6, <2>7
    <3>2. CASE k <= n
      BY <1>4, <2>2, <3>1, <3>2
    <3>3. CASE ~(k <= n)
      <4>1. k - n \in 1..(Len(data) - n) /\ k > n
        BY <1>4, <3>3
      <4>2. data[k] = 0
        BY <1>1, <4>1, TrimSizeSpec
      <4> QED BY <2>3, <3>1, <3>3, <4>1, <4>2
    <3> QED BY <3>2, <3>3
  <2>8. w = data
    BY <2>5, <2>6, <2>7, SeqEqual
  <2>9. FlattenSeq(R) = p
    BY <1>2, <1>4, <2>1, RowsFlattened
  <2> QED BY <2>4, <2>8, <2>9 DEF z
<1>7. ASSUME NEW r \in DOMAIN R
      PROVE  R[r] # <<>> /\ (r < Len(R) => Len(R[r]) = RowLen)
  <2>1. r \in 1..RowCount(n) /\ r \in 1..Len(R)
    BY <1>5
  <2>2. /\ Len(R[r]) = RowEnd(n, r) - (r - 1) * RowLen /\ R[r] \in Seq(Nat)
    BY <1>2, <1>4, <2>1, RowsSpec
  <2>3. PICK a : a = (r - 1) * RowLen
    OBVIOUS
  <2>4. /\ a \in Nat /\ RowEnd(n, r) \in Nat /\ a < RowEnd(n, r)
        /\ r < RowCount(n) => RowEnd(n, r) = a + RowLen
    BY <1>4, <2>1, <2>3, RowBounds
  <2>5. Len(R[r]) = RowEnd(n, r) - a
    BY <2>2, <2>3
  <2>6. R[r] # <<>>
    <3>1. Len(R[r]) > 0
      BY <2>4, <2>5
    <3> QED BY <3>1
  <2>7. r < Len(R) => Len(R[r]) = RowLen
    BY <1>5, <2>4, <2>5, TraceAssumption
  <2> QED BY <2>6, <2>7
<1>8. ASSUME \E b \in Range(data) : b # 0 PROVE Last(Last(R)) # 0
  <2>1. n # 0 /\ data[n] # 0
    BY <1>1, <1>8, TrimSizeSpec
  <2>2. PICK r : r = RowCount(n)
    OBVIOUS
  <2>3. r \in 1..RowCount(n) /\ r \in 1..Len(R)
    <3>1. r \in Nat /\ r # 0
      BY <1>4, <2>1, <2>2, RowCountSpec
    <3> QED BY <1>5, <2>2, <3>1
  <2>4. RowEnd(n, r) = n
    BY <1>4, <2>2, <2>3, RowBounds
  <2>5. R[r][Len(R[r])] = data[RowEnd(n, r)]
    BY <1>2, <1>4, <2>3, RowsSpec
  <2>6. Last(Last(R)) = R[r][Len(R[r])]
    BY <1>5, <2>2 DEF Last
  <2> QED BY <2>1, <2>4, <2>5, <2>6
<1> QED BY <1>3, <1>6, <1>7, <1>8 DEF DumpFaithful

DumpInv == \E data \in Seq(Nat) :
             dump = [data |-> data, log |-> HexdumpTrimmed(data, RowLen)]

LEMMA DumpInit == Init => DumpInv
<1>1. <<>> \in Seq(Nat)
  OBVIOUS
<1> QED BY <1>1 DEF Init, DumpInv

LEMMA DumpNext == TypeInv /\ DumpInv /\ [Next]_vars => DumpInv'
<1> SUFFICES ASSUME TypeInv, DumpInv, [Next]_vars PROVE DumpInv'
  OBVIOUS
<1>1. CASE dump' = dump
  BY <1>1 DEF DumpInv
<1>2. ASSUME DumpPayload, dump' # dump PROVE DumpInv'
  <2>1. PICK p \in Cells(payload) :
          dump' = [data |-> p.bytes, log |-> HexdumpTrimmed(p.bytes, RowLen)]
    BY <1>2 DEF DumpPayload
  <2>2. Readable(job) /\ ~IsType({"SET_VALUE", "VERTEX", "TILER", "FRAGMENT"})
    BY <1>2 DEF DumpPayload, Running, TypeInv, Placed, AtJob
  <2>3. p \in Structures /\ p.kind = PayloadKind(Cell(job).type)
    BY <2>2, AtTypedJob
  <2>4. p.kind = "bytes"
    BY <2>2, <2>3 DEF IsType, PayloadKind
  <2>5. p.bytes \in Seq(Nat)
    BY <2>3, <2>4 DEF Structures, job_descriptor_header, payload_set_value,
       payload_fragment, payload_vertex_tiler32, shader_meta, attribute_buffer,
       attribute_meta_t, tentative_mfbd, Unstructured
  <2> QED BY <2>1, <2>5 DEF DumpInv
<1>3. ~DumpPayload => dump' = dump
  BY DEF Next, vars, trace, Panwrap, Submit, BeginAtom, EndAtom, Return, Decode,
     Header, SetValue, VertexTiler, Attribute, VertexTilerWords, Fragment,
     NextJob, Relink
<1> QED BY <1>1, <1>2, <1>3

(***************************************************************************)
(* A dump says what is in the buffer: put together its rows and the zeroes *)
(* that are said to follow are the bytes, all rows but the last are full,  *)
(* and nothing but zeroes was trimmed.                                     *)
(***************************************************************************)
THEOREM DumpsAlwaysFaithful == Spec => []DumpFaithful
<1>1. DumpInv => DumpFaithful
  BY HexdumpFaithful DEF DumpInv
<1>2. TypeInv /\ DumpInv /\ [Next]_vars => DumpInv'
  BY DumpNext
<1> QED BY <1>1, <1>2, TypeInvariant, DumpInit, PTL DEF Spec

-----------------------------------------------------------------------------
(***************************************************************************)
(* The decoder goes on.  Its steps either stop it, go on in the code at    *)
(* the same job, or are one of the three that go back: to the next entry   *)
(* of a list, to the next job, to the next atom.                           *)
(***************************************************************************)
LEMMA Stages ==
    /\ Stage("call") = 0 /\ Stage("atom") = 1 /\ Stage("header") = 2
    /\ Stage("payload") = 3 /\ Stage("attributes") = 4
    /\ Stage("framebuffer") = 5 /\ Stage("next") = 6 /\ Stage("atom_end") = 7
BY DEF Stage

\* Where no chain loops a job is not linked from the next one: the jobs that it
\* is linked from would all link to one of them.
LEMMA NotLinkedBack ==
    ASSUME TypeInv, Apart, Acyclic, NEW g \in JobAddrs,
           NEW h \in JobAddrs, h \in Successors(g)
    PROVE  g \notin Linked(h)
<1> SUFFICES ASSUME g \in Linked(h) PROVE FALSE
  OBVIOUS
<1> DEFINE A == {a \in JobAddrs : g \in Linked(a)}
<1>1. PICK a \in A : Successors(a) \cap A = {}
  <2>1. A \in SUBSET JobAddrs /\ A # {}
    OBVIOUS
  <2> QED BY <2>1 DEF Acyclic
<1>2. Points(a, "job") /\ a # g
  BY <1>1, LinkedFromNothing
<1>3. Successors(a) = {GpuCell(a).next} \ {0} /\ GpuCell(a).next \in JobAddrs \cup {0}
  BY <1>1, <1>2, SuccessorOf
<1>4. CASE Successors(a) = {}
  BY <1>1, <1>2, <1>4, LinkedFromLast
<1>5. CASE Successors(a) # {}
  <2>1. PICK b \in JobAddrs : Successors(a) = {b}
    BY <1>3, <1>5
  <2>2. g \in Linked(b)
    BY <1>1, <1>2, <2>1, LinkedFromJob
  <2> QED BY <1>1, <2>1, <2>2
<1> QED BY <1>4, <1>5

\* From the next job fewer jobs are linked, if no chain loops.
LEMMA LinkedShrinks ==
    ASSUME TypeInv, Apart, Acyclic, Readable(job),
           NEW h \in JobAddrs, h = Cell(job).next
    PROVE  job \in Linked(job) /\ Linked(h) \subseteq Linked(job) \ {job}
<1>1. job \in JobAddrs /\ job \in Nat /\ h # 0
  BY AtTypedJob, TraceAssumption
<1>2. Points(job, "job")
  BY AtTypedJob, CellIsPointedTo
<1>3. Cell(job) = GpuCell(job)
  BY <1>1, <1>2, PointsToCell
<1>4. Successors(job) = {h}
  BY <1>1, <1>2, <1>3, SuccessorOf
<1>5. Linked(job) = {job} \cup Linked(h)
  BY <1>1, <1>2, <1>4, LinkedFromJob
<1>6. job \notin Linked(h)
  <2>1. h \in JobAddrs
    BY <1>1, <1>2, <1>4, SuccessorOf
  <2> QED BY <1>1, <1>4, <2>1, NotLinkedBack
<1> QED BY <1>5, <1>6

LEMMA AdvanceNextJob ==
    ASSUME TypeInv, NextJob, i' = i, status' = "running" PROVE Later \/ LaterJob
<1>0. status' # "exhausted"
  OBVIOUS
<1>1. pc = "next" /\ Readable(job) /\ Cell(job).next \in JobAddrs \cup {0}
  BY AtTypedJob DEF NextJob, Running, TypeInv, Placed, AtJob
<1>2. CASE Cell(job).next # 0 /\ TraceChain(NextInChain)
  <2>1. PICK h : h = Cell(job).next
    OBVIOUS
  <2>2. pc' = "header" /\ job' = h /\ h \in JobAddrs /\ depth' = depth + 1
    BY <1>1, <1>2, <2>1, <1>0 DEF TraceChain, NextInChain
  <2>3. ASSUME Apart, Acyclic
        PROVE  job \in Linked(job) /\ Linked(h) \subseteq Linked(job) \ {job}
    BY <1>1, <2>1, <2>2, <2>3, LinkedShrinks
  <2> QED BY <1>1, <2>2, <2>3 DEF LaterJob
<1>3. CASE Cell(job).next = 0 /\ pc' = "atom_end" /\ job' = job
  BY <1>1, <1>3, Stages DEF Later
<1> QED BY <1>2, <1>3 DEF NextJob, ChainReturns

LEMMA AdvanceAttribute ==
    ASSUME TypeInv, Attribute, i' = i, status' = "running"
    PROVE  Later \/ LaterEntry
<1>1. pc = "attributes" /\ job' = job /\ s \in Nat /\ WellTyped(mem, mmaps)
  BY DEF Attribute, Running, TypeInv, TypeOK
<1>2. CASE pc' = "framebuffer"
  BY <1>1, <1>2, Stages DEF Later
<1>3. ASSUME NEW meta \in Cells(s), NEW a, TraceAttribute(a), s' = NextAttribute
      PROVE  LaterEntry
  <2>1. pc' = "attributes"
    BY <1>1, <1>3 DEF TraceAttribute, Reads, Crash
  <2>2. meta \in CellsAt(mem, mmaps, s)
    BY <1>1, CellsInMapping
  <2>3. Holding(s) # {}
    BY <2>2 DEF CellsAt, CpuIn, Holding
  <2> QED BY <1>1, <1>3, <2>1, <2>3 DEF LaterEntry, NextAttribute
<1>4. ~(~Readable(s) /\ Crash)
  BY DEF Crash
<1> QED BY <1>2, <1>3, <1>4 DEF Attribute

LEMMA AdvanceDecode ==
    ASSUME TypeInv, Decode, i' = i, status' = "running"
    PROVE  Later \/ LaterEntry \/ LaterJob
<1>1. CASE Header
  <2>1. pc = "header" /\ pc' \in {"payload", "atom_end"} /\ job' = job
    BY <1>1 DEF Header, Running, HeaderUnmapped, ChainReturns, Reads, Crash
  <2> QED BY <2>1, Stages DEF Later
<1>2. CASE SetValue \/ Fragment \/ DumpPayload
  <2>1. pc = "payload" /\ pc' = "next" /\ job' = job
    BY <1>2 DEF SetValue, Fragment, DumpPayload, Running, Reads, Crash
  <2> QED BY <2>1, Stages DEF Later
<1>3. CASE VertexTiler
  <2>1. pc = "payload" /\ pc' \in {"next", "attributes"} /\ job' = job
    BY <1>3 DEF VertexTiler, Running, SabotagedJob, Shader, Reads, Crash
  <2> QED BY <2>1, Stages DEF Later
<1>4. CASE VertexTilerWords
  <2>1. pc = "framebuffer" /\ pc' = "next" /\ job' = job
    BY <1>4 DEF VertexTilerWords, Running, Reads, Crash
  <2> QED BY <2>1, Stages DEF Later
<1> QED BY <1>1, <1>2, <1>3, <1>4, AdvanceAttribute, AdvanceNextJob DEF Decode

LEMMA AdvanceCall ==
    ASSUME TypeInv, Submit \/ BeginAtom \/ EndAtom \/ Return, status' = "running"
    PROVE  Later \/ LaterAtom
<1>1. CASE Submit
  <2>1. pc = "call" /\ pc' = "atom" /\ job' = job /\ i' = i
    BY <1>1 DEF Submit, Running, Done
  <2> QED BY <2>1, Stages DEF Later
<1>2. CASE BeginAtom
  <2>1. pc = "atom" /\ pc' \in {"header", "atom_end"} /\ i' = i
    BY <1>2 DEF BeginAtom, Running, TraceAtom, TraceChain, Reads, Crash
  <2> QED BY <2>1, Stages DEF Later
<1>3. CASE EndAtom
  <2>1. pc = "atom_end" /\ pc' = "atom" /\ i' = i + 1
    BY <1>3 DEF EndAtom, Running, NextAtom
  <2>2. i \in DOMAIN atoms /\ atoms \in Seq(Atom)
    BY <2>1 DEF TypeInv, TypeOK, Placed
  <2> QED BY <2>1, <2>2 DEF LaterAtom
<1>4. ~Return
  BY DEF Return, Done
<1> QED BY <1>1, <1>2, <1>3, <1>4

(***************************************************************************)
(* The decoder advances at every step: the atoms left, the room left on    *)
(* the stack, and, as long as no chain loops, the jobs linked from the     *)
(* decoder's, what is left of the code and of the mapping that a list of   *)
(* attributes is in get fewer, whatever the memory is, while the program   *)
(* relinks nothing.  It follows that the decoder comes to an end, as       *)
(* TraceEnds says of the run.                                              *)
(***************************************************************************)
THEOREM DecodeAlwaysAdvances == Spec => DecodeAdvances
<1>1. ASSUME TypeInv, Next, status' = "running", writes' = writes
      PROVE  Later \/ LaterEntry \/ LaterAtom \/ LaterJob
  <2>1. ~Relink
    <3>1. writes \in Nat
      BY <1>1 DEF TypeInv, TypeOK
    <3>2. writes' = writes
      BY <1>1
    <3> QED BY <3>1, <3>2 DEF Relink
  <2>2. CASE Decode /\ i' = i
    BY <1>1, <2>2, AdvanceDecode
  <2>3. CASE Submit \/ BeginAtom \/ EndAtom \/ Return
    BY <1>1, <2>3, AdvanceCall
  <2> QED BY <1>1, <2>1, <2>2, <2>3 DEF Next, Panwrap, call
<1>2. TypeInv /\ [Next]_vars =>
        [status = "running" /\ writes' = writes =>
           \/ status' # "running"
           \/ Later \/ LaterEntry \/ LaterAtom \/ LaterJob]_vars
  <2> SUFFICES ASSUME TypeInv, [Next]_vars, status = "running", writes' = writes,
                      ~(UNCHANGED vars), ~(status' # "running")
               PROVE  Later \/ LaterEntry \/ LaterAtom \/ LaterJob
    OBVIOUS
  <2>1. Next
    OBVIOUS
  <2> QED BY <1>1, <2>1
<1> QED BY <1>2, TypeInvariant, PTL DEF Spec, DecodeAdvances

-----------------------------------------------------------------------------
(***************************************************************************)
(* The stack.  A call is on it for each job before the decoder's, and each *)
(* job that is linked from there may take one more; a relink may link all  *)
(* jobs anew.                                                              *)
(***************************************************************************)
OnStack == pc = "header" \/ AtJob
Calls == (writes + 1) * Cardinality(Jobs)

StackInv ==
    /\ pc \in {"call", "atom", "atom_end"} => depth = 0
    /\ OnStack => depth + Cardinality(Linked(job)) <= Calls + 1
    /\ status = "exhausted" => StackDepth <= Calls

LEMMA LinkedAreJobs ==
    ASSUME NEW g
    PROVE  /\ IsFiniteSet(Jobs) /\ Cardinality(Jobs) \in Nat
           /\ Linked(g) \subseteq Jobs /\ IsFiniteSet(Linked(g))
           /\ Cardinality(Linked(g)) \in Nat
           /\ Cardinality(Linked(g)) <= Cardinality(Jobs)
<1>1. IsFiniteSet(Jobs)
  BY TraceAssumption, FS_Subset DEF Jobs
<1>2. Linked(g) \subseteq Jobs
  BY DEF Linked, Jobs
<1> QED BY <1>1, <1>2, FS_Subset, FS_CardinalityType

\* The same after a step.
LEMMA LinkedAreJobsNext ==
    /\ Linked(job)' \subseteq Jobs' /\ IsFiniteSet(Linked(job)')
    /\ Cardinality(Linked(job)') \in Nat
    /\ Cardinality(Linked(job)') <= Cardinality(Jobs')
<1>1. IsFiniteSet(Jobs')
  BY TraceAssumption, FS_Subset DEF Jobs
<1>2. Linked(job)' \subseteq Jobs'
  BY DEF Linked, Jobs
<1> QED BY <1>1, <1>2, FS_Subset, FS_CardinalityType

LEMMA JobsKept == ASSUME TypeInv, [Next]_vars PROVE Jobs' = Jobs
<1>1. Kept(mem, mem') /\ mmaps' = mmaps
  BY StepKeeps
<1>2. \A g : Points(g, "job")' <=> Points(g, "job")
  BY <1>1, PointsKept DEF VertexKinds
<1> QED BY <1>2 DEF Jobs

LEMMA CallsIsNat ==
    ASSUME TypeInv
    PROVE  writes \in Nat /\ Cardinality(Jobs) \in Nat /\ Calls \in Nat
<1>1. writes \in Nat
  BY DEF TypeInv, TypeOK
<1>2. Cardinality(Jobs) \in Nat
  BY LinkedAreJobs
<1> QED BY <1>1, <1>2 DEF Calls

\* Without a relink the same jobs are linked, and as many calls are allowed.
LEMMA LinkedStays ==
    ASSUME TypeInv, [Next]_vars, writes' = writes, NEW c
    PROVE  Linked(c)' = Linked(c) /\ Calls' = Calls
<1>1. Kept(mem, mem') /\ mmaps' = mmaps
  BY StepKeeps
<1>2. Linked(c)' = Linked(c)
  BY <1>1, JobsStay, LinkedKept
<1> QED BY <1>2, JobsKept DEF Calls

\* Steps that leave the stack and the decoder's job as they are.
LEMMA StackStays ==
    ASSUME TypeInv, StackInv, [Next]_vars, writes' = writes, job' = job,
           depth' = depth, OnStack' => OnStack,
           pc' \in {"call", "atom", "atom_end"} => pc \in {"call", "atom", "atom_end"},
           status' = "exhausted" => status = "exhausted"
    PROVE  StackInv'
<1>1. PICK c : c = job
  OBVIOUS
<1>2. Linked(c)' = Linked(c) /\ Calls' = Calls
  BY LinkedStays
<1>3. Linked(job)' = Linked(job)
  BY <1>1, <1>2 DEF Linked
<1> QED BY <1>2, <1>3 DEF StackInv

\* Steps that leave the chain.
LEMMA StackEmpty ==
    ASSUME depth' = 0, ~OnStack', status' # "exhausted"
    PROVE  StackInv'
BY DEF StackInv

LEMMA StackRelink ==
    ASSUME TypeInv, StackInv, Relink, [Next]_vars PROVE StackInv'
<1>1. /\ writes' = writes + 1 /\ pc' = pc /\ depth' = depth
      /\ status' = "running"
  BY DEF Relink
<1>2. writes \in Nat /\ Cardinality(Jobs) \in Nat /\ Calls \in Nat
  BY CallsIsNat
<1>3. Calls' = Calls + Cardinality(Jobs)
  <2>1. Calls' = (writes + 1 + 1) * Cardinality(Jobs)
    BY <1>1, JobsKept DEF Calls
  <2>2. ASSUME NEW w \in Nat, NEW n \in Nat PROVE (w + 1 + 1) * n = (w + 1) * n + n
    OBVIOUS
  <2> QED BY <1>2, <2>1, <2>2 DEF Calls
<1>4. OnStack => depth <= Calls + 1
  <2>1. depth \in Nat /\ Cardinality(Linked(job)) \in Nat
    BY LinkedAreJobs, TraceAssumption DEF TypeInv, TypeOK
  <2> QED BY <1>2, <2>1 DEF StackInv
<1>5. /\ Cardinality(Linked(job)') \in Nat
      /\ Cardinality(Linked(job)') <= Cardinality(Jobs)
  BY LinkedAreJobsNext, JobsKept
<1>6. OnStack' => OnStack
  BY <1>1 DEF OnStack, AtJob
<1>7. depth \in Nat
  BY TraceAssumption DEF TypeInv, TypeOK
<1>8. OnStack' => depth' + Cardinality(Linked(job)') <= Calls' + 1
  BY <1>1, <1>2, <1>3, <1>4, <1>5, <1>6, <1>7
<1> QED BY <1>1, <1>8 DEF StackInv

LEMMA StackNextJob ==
    ASSUME TypeInv, Apart, Acyclic, StackInv, NextJob, [Next]_vars PROVE StackInv'
<1>1. /\ pc = "next" /\ status = "running" /\ writes' = writes /\ Readable(job)
      /\ NextInChain \in JobAddrs \cup {0} /\ OnStack
  BY AtTypedJob DEF NextJob, Running, fixed, NextInChain, OnStack, TypeInv, Placed, AtJob
<1>2. CASE Cell(job).next = 0 /\ ChainReturns
  <2>1. depth' = 0 /\ ~OnStack' /\ status' # "exhausted"
    BY <1>1, <1>2 DEF ChainReturns, OnStack, AtJob
  <2> QED BY <2>1, StackEmpty
<1>3. CASE Cell(job).next # 0 /\ TraceChain(NextInChain)
  <2>1. PICK h \in JobAddrs : h = Cell(job).next
    BY <1>1, <1>3 DEF NextInChain
  <2>2. job \in Linked(job) /\ Linked(h) \subseteq Linked(job) \ {job}
    BY <1>1, <2>1, LinkedShrinks
  <2>3. Linked(h)' = Linked(h) /\ Calls' = Calls
    BY <1>1, LinkedStays
  <2>4. /\ Cardinality(Linked(job)) \in Nat /\ Cardinality(Linked(h)) \in Nat
        /\ Cardinality(Linked(h)) + 1 <= Cardinality(Linked(job))
    <3>1. /\ IsFiniteSet(Linked(job)) /\ Cardinality(Linked(job)) \in Nat
          /\ Cardinality(Linked(h)) \in Nat
      BY LinkedAreJobs
    <3>2. /\ IsFiniteSet(Linked(job) \ {job})
          /\ Cardinality(Linked(job) \ {job}) = Cardinality(Linked(job)) - 1
      BY <2>2, <3>1, FS_RemoveElement
    <3>3. Cardinality(Linked(h)) <= Cardinality(Linked(job) \ {job})
      BY <2>2, <3>2, FS_Subset
    <3> QED BY <3>1, <3>2, <3>3
  <2>5. /\ depth \in Nat /\ StackDepth \in Nat /\ Calls \in Nat
        /\ depth + Cardinality(Linked(job)) <= Calls + 1
    BY <1>1, CallsIsNat, TraceAssumption DEF StackInv, TypeInv, TypeOK
  <2>6. CASE job' = h /\ depth' = depth + 1 /\ pc' = "header" /\ status' = status
    <3>1. Linked(job)' = Linked(h)'
      BY <2>6 DEF Linked
    <3>2. depth' + Cardinality(Linked(job)') <= Calls' + 1
      BY <2>3, <2>4, <2>5, <2>6, <3>1
    <3> QED BY <1>1, <2>6, <3>2 DEF StackInv
  <2>7. CASE depth = StackDepth /\ status' = "exhausted" /\ UNCHANGED <<job, depth, pc>>
    <3>1. StackDepth <= Calls
      BY <2>4, <2>5, <2>7
    <3>2. PICK c : c = job
      OBVIOUS
    <3>3. Linked(c)' = Linked(c)
      BY <1>1, LinkedStays
    <3>4. Linked(job)' = Linked(job)
      BY <2>7, <3>2, <3>3 DEF Linked
    <3> QED BY <1>1, <2>3, <2>5, <2>7, <3>1, <3>4 DEF StackInv
  <2> QED BY <1>3, <2>1, <2>6, <2>7 DEF TraceChain, NextInChain
<1> QED BY <1>2, <1>3 DEF NextJob

LEMMA StackBeginAtom ==
    ASSUME TypeInv, StackInv, BeginAtom, [Next]_vars PROVE StackInv'
<1>1. pc = "atom" /\ status = "running" /\ depth = 0 /\ writes' = writes
  BY DEF BeginAtom, Running, fixed, StackInv
<1>2. CASE depth' = depth /\ pc' \in {"atom", "atom_end"} /\ status' # "exhausted"
  <2>1. depth' = 0 /\ ~OnStack'
    BY <1>1, <1>2 DEF OnStack, AtJob
  <2> QED BY <1>2, <2>1, StackEmpty
<1>3. CASE depth' = depth + 1 /\ pc' = "header" /\ status' = status
  <2>1. /\ Cardinality(Linked(job)') \in Nat
        /\ Cardinality(Linked(job)') <= Cardinality(Jobs)
    BY LinkedAreJobsNext, JobsKept
  <2>2. Calls' = Calls
    BY <1>1, JobsKept DEF Calls
  <2>3. Cardinality(Jobs) <= Calls
    <3>1. ASSUME NEW w \in Nat, NEW n \in Nat PROVE n <= (w + 1) * n
      <4>1. (w + 1) * n = w * n + n /\ w * n \in Nat
        OBVIOUS
      <4> QED BY <4>1
    <3> QED BY <3>1, CallsIsNat DEF Calls
  <2>4. Calls \in Nat /\ Cardinality(Jobs) \in Nat
    BY CallsIsNat
  <2>5. depth' + Cardinality(Linked(job)') <= Calls' + 1
    BY <1>1, <1>3, <2>1, <2>2, <2>3, <2>4
  <2> QED BY <1>1, <1>3, <2>5 DEF StackInv
<1>4. depth # StackDepth
  BY <1>1, TraceAssumption
<1>5. CASE TraceAtom(atoms[i])
  BY <1>1, <1>2, <1>3, <1>4, <1>5 DEF TraceAtom, TraceChain, Reads, Crash
<1>6. CASE pc' = "atom_end" /\ UNCHANGED <<job, depth, status>>
  BY <1>1, <1>2, <1>6
<1> QED BY <1>5, <1>6 DEF BeginAtom

LEMMA StackHeader ==
    ASSUME TypeInv, StackInv, Header, [Next]_vars PROVE StackInv'
<1>1. pc = "header" /\ status = "running" /\ job' = job /\ writes' = writes
  BY DEF Header, Running, fixed
<1>2. CASE HeaderUnmapped
  <2>1. depth' = 0 /\ ~OnStack' /\ status' # "exhausted"
    BY <1>1, <1>2 DEF HeaderUnmapped, ChainReturns, OnStack, AtJob
  <2> QED BY <2>1, StackEmpty
<1>3. CASE Reads(Readable(job), "payload") /\ UNCHANGED depth
  <2>1. /\ depth' = depth /\ OnStack /\ pc' \in {"header", "payload"}
        /\ status' # "exhausted"
    BY <1>1, <1>3 DEF Reads, Crash, OnStack
  <2> QED BY <1>1, <2>1, StackStays
<1> QED BY <1>2, <1>3 DEF Header

\* The steps that stay at a job.
LEMMA StackWithin ==
    ASSUME TypeInv, StackInv, [Next]_vars,
           \/ SetValue \/ VertexTiler \/ Attribute \/ VertexTilerWords
           \/ Fragment \/ DumpPayload
    PROVE  StackInv'
<1>1. AtJob /\ AtJob' /\ job' = job /\ depth' = depth /\ status' # "exhausted"
  <2>1. CASE SetValue \/ Fragment \/ DumpPayload
    BY <2>1 DEF SetValue, Fragment, DumpPayload, Running, Reads, Crash, AtJob
  <2>2. CASE VertexTiler
    BY <2>2 DEF VertexTiler, Running, Shader, SabotagedJob, Reads, Crash, AtJob
  <2>3. CASE Attribute
    BY <2>3 DEF Attribute, TraceAttribute, Running, Reads, Crash, AtJob
  <2>4. CASE VertexTilerWords
    BY <2>4 DEF VertexTilerWords, Running, Reads, Crash, AtJob
  <2> QED BY <2>1, <2>2, <2>3, <2>4
<1>2. writes' = writes
  BY DEF SetValue, VertexTiler, Attribute, VertexTilerWords, Fragment, DumpPayload, fixed
<1>3. OnStack /\ ~(pc' \in {"call", "atom", "atom_end"})
  BY <1>1 DEF OnStack, AtJob
<1> QED BY <1>1, <1>2, <1>3, StackStays

LEMMA StackNext ==
    ASSUME TypeInv, Apart, Acyclic, StackInv, [Next]_vars PROVE StackInv'
<1>1. CASE Submit \/ EndAtom \/ Return
  <2>1. /\ writes' = writes /\ job' = job /\ depth' = depth
        /\ pc \in {"call", "atom", "atom_end"} /\ pc' \in {"call", "atom", "atom_end"}
        /\ status' # "exhausted"
    BY <1>1 DEF Submit, EndAtom, Return, fixed, Running, Done
  <2>2. ~OnStack'
    BY <2>1 DEF OnStack, AtJob
  <2> QED BY <2>1, <2>2, StackStays
<1>2. CASE UNCHANGED vars
  <2>1. /\ writes' = writes /\ job' = job /\ depth' = depth /\ pc' = pc
        /\ status' = status
    BY <1>2 DEF vars, trace
  <2>2. OnStack' => OnStack
    BY <2>1 DEF OnStack, AtJob
  <2> QED BY <2>1, <2>2, StackStays
<1> QED
  BY <1>1, <1>2, StackRelink, StackNextJob, StackBeginAtom, StackHeader, StackWithin
     DEF Next, Panwrap, Decode

(***************************************************************************)
(* The stack suffices, however deep it is, for every chain that never      *)
(* loops and has fewer jobs than the stack has room for, one more time     *)
(* over for each relink: the decoder calls itself for a job only when      *)
(* fewer are linked from it than from the one before.                      *)
(***************************************************************************)
THEOREM StackAlwaysSuffices == Spec => StackSuffices
<1>1. Init => StackInv
  BY DEF Init, StackInv, OnStack, AtJob
<1>2. TypeInv /\ Apart /\ Acyclic /\ StackInv /\ [Next]_vars => StackInv'
  BY StackNext
<1>3. TypeInv /\ Apart /\ [Next]_vars => Apart'
  <2> SUFFICES ASSUME TypeInv, Apart, [Next]_vars PROVE Apart'
    OBVIOUS
  <2>1. mmaps' = mmaps
    BY StepKeeps
  <2> QED BY <2>1 DEF Apart
<1>4. TypeInv /\ StackInv => (RoomForJobs => status # "exhausted")
  <2> SUFFICES ASSUME TypeInv, StackInv, RoomForJobs, status = "exhausted" PROVE FALSE
    OBVIOUS
  <2>1. Calls < StackDepth /\ StackDepth <= Calls
    BY DEF RoomForJobs, Calls, StackInv
  <2> QED BY <2>1, CallsIsNat, TraceAssumption
<1> QED BY <1>1, <1>2, <1>3, <1>4, TypeInvariant, PTL DEF Spec, StackSuffices
=============================================================================
