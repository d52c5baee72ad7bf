------------------------------- MODULE NrList -------------------------------
(***************************************************************************)
(* NR_list_t of the MAC (gNB_scheduler_primitives.c): a list of ids below  *)
(* len, linked through an array.  The HARQ processes of a UE live in three *)
(* of them.                                                                *)
(***************************************************************************)
EXTENDS Integers, Sequences

Ids(l) == DOMAIN l.next

create_nr_list(len) == [head |-> -1, next |-> [i \in 0 .. len - 1 |-> -1], tail |-> -1]

add_tail_nr_list(l, id) ==
    LET linked == IF l.tail < 0 THEN l.next ELSE [l.next EXCEPT ![l.tail] = id]
    IN  [head |-> IF l.tail < 0 THEN id ELSE l.head,
         next |-> [linked EXCEPT ![id] = -1],
         tail |-> id]

\* Mutant of remove_front_nr_list: the tail of an emptied list is not reset.
remove_front_keeps_tail(l) ==
    [head |-> l.next[l.head], next |-> [l.next EXCEPT ![l.head] = -1], tail |-> l.tail]

remove_front_nr_list(l) ==
    [head |-> l.next[l.head],
     next |-> [l.next EXCEPT ![l.head] = -1],
     tail |-> IF l.next[l.head] < 0 THEN -1 ELSE l.tail]

(* cur points at the link that holds id: the head, or the next of the node *)
(* before it.  prev points at the link before cur (or is the head too).    *)
remove_nr_list(l, id) ==
    LET before == CHOOSE q \in Ids(l) : l.next[q] = id
        atHead == l.head = id
        next == IF atHead THEN [l.next EXCEPT ![id] = -1]
                ELSE [l.next EXCEPT ![before] = l.next[id], ![id] = -1]
        prev == IF atHead THEN l.next[id] ELSE before
    IN  [head |-> IF atHead THEN l.next[id] ELSE l.head,
         next |-> next,
         tail |-> IF prev >= 0 /\ next[prev] >= 0 THEN l.tail ELSE prev]
=============================================================================
