---------------------------- MODULE MappedMemory ----------------------------
(***************************************************************************)
(* The lookups of panwrap/panwrap-syscall.c in the list of the GPU's       *)
(* memory mappings.  A mapped_memory is a record [addr, length, gpu_va];   *)
(* the intrusive list mmaps is a sequence with the list's head first, the  *)
(* order in which list_for_each_entry visits it.  Addresses and lengths    *)
(* are counted in pages, and no sum of them wraps: the only address at the *)
(* top of the space that ever enters a record is MAP_FAILED, which no      *)
(* other address reaches.                                                  *)
(*                                                                         *)
(* A finder returns the position of the record it finds, 0 for NULL.       *)
(***************************************************************************)
EXTENDS Integers, Sequences, SequencesExt

\* find_mapped_mem: the newest record that starts at the CPU address addr.
FindMappedMem(mm, addr) == SelectInSeq(mm, LAMBDA m : m.addr = addr)

\* find_mapped_mem_containing: the upper bound is inclusive in the code.
FindMappedMemContaining(mm, addr) ==
    SelectInSeq(mm, LAMBDA m : m.addr <= addr /\ addr <= m.addr + m.length)

\* Mutant: the first address of a mapping is left out.
FindGpuMappedMemStrict(mm, gpu) ==
    SelectInSeq(mm, LAMBDA m : m.gpu_va < gpu /\ gpu <= m.gpu_va + m.length)

\* find_gpu_mapped_mem: the same inclusive bound, in the GPU's address space.
FindGpuMappedMem(mm, gpu) ==
    SelectInSeq(mm, LAMBDA m : m.gpu_va <= gpu /\ gpu <= m.gpu_va + m.length)

\* Mutant: no bounds check.
FetchMappedGpuUnchecked(mm, gpu, sz) ==
    LET i == FindGpuMappedMem(mm, gpu)
    IN  IF gpu = 0 \/ i = 0 THEN {} ELSE {mm[i].addr + (gpu - mm[i].gpu_va)}

(***************************************************************************)
(* fetch_mapped_gpu: the set that holds the CPU pointer to the sz pages at *)
(* GPU address gpu, empty when the code returns NULL: for the GPU's null,  *)
(* for an address no record holds, and when the record that was found ends *)
(* before the sz pages do.                                                 *)
(***************************************************************************)
FetchMappedGpu(mm, gpu, sz) ==
    LET i == FindGpuMappedMem(mm, gpu)
    IN  IF gpu = 0 \/ i = 0 THEN {}
        ELSE IF gpu - mm[i].gpu_va + sz > mm[i].length THEN {}
        ELSE {mm[i].addr + (gpu - mm[i].gpu_va)}
=============================================================================
