--------------------------- MODULE IntrusiveList ---------------------------
(***************************************************************************)
(* The circular doubly linked list of include/list.h: a head and entries,  *)
(* each with a next and a prev.  Every user of it holds panwrap's mutex,   *)
(* so list_add and list_del are one step each.  An entry is allocated      *)
(* before it is added and freed after it is deleted; its links mean        *)
(* nothing in between (calloc leaves them NULL).                           *)
(***************************************************************************)
EXTENDS Integers, FiniteSets, Sequences

CONSTANTS Entries,  \* what can be on the list
          head,     \* the head, LIST_HEAD
          NULL

ASSUME EntriesAssumption ==
    IsFiniteSet(Entries) /\ head \notin Entries /\ NULL \notin Entries \cup {head}

VARIABLES next, prev

links == <<next, prev>>
Nodes == Entries \cup {head}

TypeOK ==
    /\ {next, prev} \subseteq [Nodes -> Nodes \cup {NULL}]
    /\ \A n \in Nodes : next[n] = NULL <=> prev[n] = NULL

\* LIST_HEAD_INIT.
Init ==
    /\ next = [n \in Nodes |-> IF n = head THEN head ELSE NULL]
    /\ prev = next

Listed(e) == next[e] \notin {NULL, e}

\* Mutant: __list_add does not link the old first entry back.
list_add_forward(e) ==
    LET first == next[head]
    IN  /\ ~Listed(e)
        /\ prev' = [prev EXCEPT ![e] = head]
        /\ next' = [next EXCEPT ![e] = first, ![head] = e]

\* Mutant: it does not set the new entry's prev.
list_add_rootless(e) ==
    LET first == next[head]
    IN  /\ ~Listed(e)
        /\ prev' = [prev EXCEPT ![first] = e]
        /\ next' = [next EXCEPT ![e] = first, ![head] = e]

\* __list_add(entry, head, head->next).
list_add(e) ==
    LET first == next[head]
    IN  /\ ~Listed(e)
        /\ prev' = [prev EXCEPT ![first] = e, ![e] = head]
        /\ next' = [next EXCEPT ![e] = first, ![head] = e]

\* Mutant: list_init comes before __list_del.
list_del_init(e) ==
    /\ Listed(e)
    /\ next' = [next EXCEPT ![e] = e]
    /\ prev' = [prev EXCEPT ![e] = e]

\* __list_del(entry->prev, entry->next), then list_init(entry).
list_del(e) ==
    /\ Listed(e)
    /\ next' = [next EXCEPT ![prev[e]] = next[e], ![e] = e]
    /\ prev' = [prev EXCEPT ![next[e]] = prev[e], ![e] = e]

Next == \E e \in Entries : list_add(e) \/ list_del(e)
Spec == Init /\ [][Next]_links

-----------------------------------------------------------------------------
\* What list_for_each_entry visits: at[k] is k steps from the head.  A walk
\* that does not come back to the head is cut off after as many steps as there
\* are nodes, more than a walk without repetitions takes.
Forward ==
    LET at[k \in 0..Cardinality(Nodes)] ==
          IF k = 0 THEN head ELSE next[at[k - 1]]
        visits(k) == \A j \in 1..k : at[j] # head
    IN  [k \in {k \in 1..Cardinality(Nodes) : visits(k)} |-> at[k]]

(***************************************************************************)
(* list_for_each_entry sees a sequence that list_add and list_del change   *)
(* as Panwrap's Cons and RemoveAt do: no entry is lost or visited twice,   *)
(* none that was deleted and freed is reached, whatever the order of adds  *)
(* and deletes.                                                            *)
(***************************************************************************)
Sequence == INSTANCE EntrySequence WITH entries <- Forward
ImplementsSequence == Sequence!Spec

(***************************************************************************)
(* The two directions agree on the listed nodes; list_del relies on it.    *)
(***************************************************************************)
LinksAgree ==
    \A n \in Nodes : next[n] # NULL =>
        next[n] \in Nodes /\ prev[next[n]] = n /\ next[prev[n]] = n
=============================================================================
