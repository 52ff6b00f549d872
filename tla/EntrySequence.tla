--------------------------- MODULE EntrySequence ---------------------------
(***************************************************************************)
(* What Panwrap takes a list of include/list.h to be: a sequence without   *)
(* repetitions, to which new entries come in front.                        *)
(***************************************************************************)
EXTENDS Sequences, SequencesExt

CONSTANT Entries
VARIABLE entries

Init == entries = <<>>

Add(e) == /\ e \notin Range(entries)
          /\ entries' = <<e>> \o entries
Del(e) == \E k \in DOMAIN entries :
             entries[k] = e /\ entries' = RemoveAt(entries, k)

Next == \E e \in Entries : Add(e) \/ Del(e)
Spec == Init /\ [][Next]_entries
=============================================================================
