----------------------------- MODULE LogFormat -----------------------------
(***************************************************************************)
(* How panwrap/panwrap-util.c writes words of flags and buffers to the     *)
(* log.  A word is the set of its bits, a table of flags (an array of      *)
(* panwrap_flag_info) the sequence of the words that have names, a buffer  *)
(* the sequence of its bytes.  Wording and columns are left out.           *)
(***************************************************************************)
EXTENDS Integers, Sequences, SequencesExt

\* Mutant: the bits of a flag that was named are not cleared.
ClearedNot(flags, flag) == flags

Cleared(flags, flag) == flags \ flag

(***************************************************************************)
(* panwrap_log_decoded_flags: the flags that are named, in the order of    *)
(* the table, each when all its bits are left, and the bits left at the    *)
(* end.  The loop over the table, l.k is the entry it is at.               *)
(***************************************************************************)
Loop == [k : Nat \ {0}, names : Seq(SUBSET Nat), rest : SUBSET Nat]

DecodedFlags(flag_info, flags) ==
    LET decode[l \in Loop] ==
            IF l.k > Len(flag_info) THEN [names |-> l.names, rest |-> l.rest]
            ELSE IF flag_info[l.k] \subseteq l.rest
                 THEN decode[[k |-> l.k + 1, names |-> Append(l.names, flag_info[l.k]),
                              rest |-> Cleared(l.rest, flag_info[l.k])]]
                 ELSE decode[[l EXCEPT !.k = l.k + 1]]
    IN  decode[[k |-> 1, names |-> <<>>, rest |-> flags]]

-----------------------------------------------------------------------------
\* panwrap_log_hexdump of the first n bytes: the rows, of RowLen bytes each but
\* the last.
Rows(data, n, RowLen) ==
    [r \in 1..((n + RowLen - 1) \div RowLen) |->
        SubSeq(data, (r - 1) * RowLen + 1,
               IF r * RowLen <= n THEN r * RowLen ELSE n)]

\* Position of the last byte that looks initialised, 0 when there is none.
LastNonzero(data) == SelectLastInSeq(data, LAMBDA b : b # 0)

\* Mutant: the offset of the last byte taken for the size.
TrimSizeShort(data) ==
    IF LastNonzero(data) = 0 THEN Len(data) ELSE LastNonzero(data) - 1

\* A buffer of zeroes is not trimmed.
TrimSize(data) ==
    IF LastNonzero(data) = 0 THEN Len(data) ELSE LastNonzero(data)

\* panwrap_log_hexdump_trimmed: the rows, and how many zeroes are said to follow.
HexdumpTrimmed(data, RowLen) ==
    [rows |-> Rows(data, TrimSize(data), RowLen),
     zeroes |-> Len(data) - TrimSize(data)]
=============================================================================
