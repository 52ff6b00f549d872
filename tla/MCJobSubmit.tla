---------------------------- MODULE MCJobSubmit ----------------------------
(***************************************************************************)
(* JobSubmit for TLC: small memories, each with a chain of up to three     *)
(* jobs, and the submissions that start them.                              *)
(*                                                                         *)
(* Cells 10 to 43 are mapped at the same address on the GPU, cells 70 to   *)
(* 73 at 60; cells 44 to 55 are memory that the GPU does not see.          *)
(***************************************************************************)
EXTENDS JobSubmit

SameVAMapping == [addr |-> 10, length |-> 34, gpu_va |-> 10]
OtherMapping  == [addr |-> 70, length |-> 4, gpu_va |-> 60]
Mappings      == <<OtherMapping, SameVAMapping>>

\* Headers are at 10, 12 and 60; 80 is an address where nothing is mapped.
MCJobAddrs  == {10, 12, 60, 80}
MCSabotaged == {90}

Job(type, next) == [kind |-> "job", type |-> type, next |-> next]

VT == [kind |-> "vertex_tiler", shader |-> 16, attributes |-> 21,
       attribute_meta |-> 62, fbd |-> 20, unknown1 |-> 17, unknown2 |-> 0,
       unknown5 |-> 17, dumped |-> {17, 80}]

\* The payload of a job of this type, when nothing is wrong with it.
Payload(type) ==
    CASE type = "SET_VALUE" -> [kind |-> "set_value"]
      [] type \in {"VERTEX", "TILER"} -> VT
      [] type = "FRAGMENT" -> [kind |-> "fragment", fbd |-> 20]
      [] OTHER -> [kind |-> "bytes", bytes |-> <<1, 0>>]

Plain  == [kind |-> "plain"]
Meta(has, no) == [kind |-> "attribute_meta", has |-> has, no |-> no]
Buffer(elements, size, total) ==
    [kind |-> "attribute_buffer", elements |-> elements,
     element_size |-> size, total_size |-> total]

\* What jobs refer to: a shader, buffers, a framebuffer, a replay.
Rest ==
    [a \in 16..55 |->
        CASE a = 16 -> [kind |-> "shader_meta", shader |-> 17]
          [] a = 17 -> [kind |-> "bytes", bytes |-> <<1, 1>>]
          [] a = 20 -> [kind |-> "mfbd", dumped |-> {17, 80}]
          [] a = 21 -> Buffer(24, 8, 16)
          [] a = 22 -> Buffer(32, 12, 12)
          [] a = 23 -> [kind |-> "replay_payload"]
          [] OTHER -> Plain]

\* Three jobs, at 10, 12 and 60, and the attributes of all of them at 62.
Chain(t1, n1, t2, n2, t3, n3) ==
    (10 :> Job(t1, n1) @@ 11 :> Payload(t1) @@ 12 :> Job(t2, n2)
       @@ 13 :> Payload(t2) @@ 70 :> Job(t3, n3) @@ 71 :> Payload(t3)
       @@ 72 :> Meta(TRUE, 0) @@ 73 :> Meta(FALSE, 0) @@ 14 :> Plain @@ 15 :> Plain) @@ Rest

None == [atom_id |-> 0, dependency_type |-> {}]
HwAtom(jc) == [jc |-> jc, core_req |-> {1, 2, 3, 6}, pre_dep |-> <<None, None>>,
               atom_number |-> 1, prio |-> {}, ext_res_list |-> <<>>, nr_ext_res |-> 1]
Soft(jc, no) == [jc |-> jc, core_req |-> no,
                 pre_dep |-> <<[atom_id |-> 1, dependency_type |-> {0}], None>>,
                 atom_number |-> 2, prio |-> {1}, ext_res_list |-> <<{0}>>, nr_ext_res |-> 1]

Call(m, as) == [mem |-> m, mmaps |-> Mappings, threaded |-> FALSE,
                writable |-> TRUE, stride |-> TRUE, atoms |-> as]

-----------------------------------------------------------------------------
Types == {"VERTEX", "TILER", "SET_VALUE", "FRAGMENT", "COMPUTE"}

\* Chains with a job of each type: in order, in a circle, to nowhere.
Chains ==
    {[Call(Chain(t[1], n[1], t[2], n[2], t[3], n[3]), <<HwAtom(10)>>)
        EXCEPT !.threaded = TRUE] :
        t \in {<<u, "SET_VALUE", "SET_VALUE">> : u \in Types}
               \cup {<<"SET_VALUE", "SET_VALUE", "TILER">>},
        n \in {<<12, 60, 0>>, <<60, 10, 12>>, <<12, 80, 0>>}}

\* One vertex job with any payload that refers to something, nothing or null.
OneJob(v) == [Chain("VERTEX", 12, "SET_VALUE", 0, "SET_VALUE", 0) EXCEPT ![11] = v]
Pointers ==
    {Call(OneJob(v), <<HwAtom(10)>>) :
        v \in UNION {{[VT EXCEPT !.shader = g] : g \in {0, 80, 90}},
                     {[VT EXCEPT !.fbd = g] : g \in {0, 80}},
                     {[VT EXCEPT !.attribute_meta = g] : g \in {0, 63, 80}},
                     {[VT EXCEPT !.attributes = g] : g \in {0, 22, 80}},
                     {[VT EXCEPT !.unknown1 = g] : g \in {0, 80}},
                     {[VT EXCEPT !.unknown5 = g] : g \in {0, 80}},
                     {[VT EXCEPT !.unknown2 = g] : g \in {17, 80}}}}

\* Vectors of no to four floats, and of sizes that are not whole floats, in
\* buffers they divide or not, at the end of a mapping or not, mapped or not.
Vectors ==
    {Call([OneJob(VT) EXCEPT ![21] = Buffer(e, n, t), ![72] = Meta(TRUE, k),
                             ![73] = Meta(l, 1)], <<HwAtom(10)>>) :
        e \in {24, 33, 80}, n \in {0, 1, 3, 4, 6, 8, 12, 16}, t \in {0, 2, 7, 12, 16},
        k \in {0, 1}, l \in BOOLEAN}

\* Buffers of up to five bytes.
Dumps ==
    {Call([Chain("COMPUTE", 0, "SET_VALUE", 0, "SET_VALUE", 0)
             EXCEPT ![11] = [kind |-> "bytes", bytes |-> b]], <<HwAtom(10)>>) :
        b \in UNION {[1..n -> {0, 7}] : n \in 0..5}}

\* Submissions of several atoms, as prototype.c makes them and others.
Plainest == Chain("SET_VALUE", 0, "FRAGMENT", 0, "SET_VALUE", 0)
Atoms ==
    {Call(Plainest, as) :
        as \in {<<HwAtom(10), Soft(23, {2, 8, 9}), Soft(23, {2, 9})>>,
                <<Soft(17, {0, 9}), HwAtom(60)>>, <<Soft(80, {9}), HwAtom(12)>>,
                <<Soft(71, {9})>>,
                <<HwAtom(10), HwAtom(12), HwAtom(60), HwAtom(80)>>}}
        \cup {Call(Plainest, <<[HwAtom(10) EXCEPT !.core_req = r,
                                   !.ext_res_list = <<{1}, {}, {1}, {0, 1}>>,
                                   !.nr_ext_res = 2]>>) :
                r \in SUBSET {0, 2, 10, 16, 17}}

\* A job of any type with its payload behind the end of the mapping, or gone, or
\* with its attribute buffer gone.
Gone(gpu) == <<[addr |-> 90, length |-> 1, gpu_va |-> gpu]>> \o Mappings
Lost ==
    {[Call(Chain(t, 0, "SET_VALUE", 0, "SET_VALUE", 0), <<HwAtom(10)>>)
        EXCEPT !.mmaps = mm] :
        t \in Types,
        mm \in {<<[SameVAMapping EXCEPT !.length = 1]>>, Gone(11), Gone(21)}}

\* A header that is gone, mappings that touch, no mappings, a full directory, an
\* old job format.
Odd ==
    LET c == Call(Chain("SET_VALUE", 12, "FRAGMENT", 60, "VERTEX", 0), <<HwAtom(10)>>)
        touching == [addr |-> 70, length |-> 4, gpu_va |-> 6]
    IN  {[c EXCEPT !.mmaps = Gone(60)],
         [c EXCEPT !.mmaps = <<touching>> \o @],
         [c EXCEPT !.mmaps = <<>>],
         [c EXCEPT !.writable = FALSE],
         [c EXCEPT !.stride = FALSE]}

MCSubmissions == Chains \cup Pointers \cup Vectors \cup Dumps \cup Atoms \cup Lost \cup Odd
=============================================================================
