------------------------------ MODULE NrRlcUm ------------------------------
(***************************************************************************)
(* The NR RLC unacknowledged-mode entity (nr_rlc_entity_um.c, with the     *)
(* lists of nr_rlc_sdu.c and nr_rlc_pdu.c): one transmitter, one receiver  *)
(* and the MAC between them, which may lose, reorder and repeat PDUs.      *)
(*                                                                         *)
(* An SDU is the position of its submission in 'submitted'; its bytes are  *)
(* (id, offset) pairs, so that a reassembled SDU shows where each of its   *)
(* bytes came from.  tx_next is kept as a count of the segmented SDUs and  *)
(* only its residue goes on the air; 'n' in a PDU is that count.           *)
(***************************************************************************)
EXTENDS Integers, Sequences

CONSTANTS
    LongSn,       \* BOOLEAN: sn_field_length is 12 (else 6): one more header byte
    SnModulus,    \* sn_modulus; the window is half of it
    StartSn,      \* SNs an already used pair of entities may be at
    SduSize,      \* sizes of the SDUs submitted
    Grant,        \* sizes offered by the MAC
    TxMaxSize,    \* tx_maxsize
    RxMaxSize,    \* rx_maxsize
    MaxSdu,       \* bound: SDUs submitted
    MaxAir,       \* bound: PDUs in flight
    MaxRepeat     \* bound: PDUs received again by the receiver

ASSUME SizeAssumption ==
    /\ SnModulus \in Nat /\ SnModulus >= 4 /\ SnModulus % 2 = 0
    /\ StartSn \subseteq 0 .. SnModulus - 1
    /\ SduSize \subseteq Nat \ {0} /\ Grant \subseteq Nat
    /\ LongSn \in BOOLEAN /\ TxMaxSize \in Nat /\ RxMaxSize \in Nat
    /\ MaxSdu \in Nat /\ MaxAir \in Nat /\ MaxRepeat \in Nat

VARIABLES
    tx_list,             \* segments waiting: [id, so, size, first, last]
    tx_next,             \* segmented SDUs sent so far
    tx_size,             \* bytes the entity believes are waiting
    bstatus,             \* common.bstatus.tx_size, what the MAC is told
    rx_list,             \* [id, n, sn, so, size, last, data]
    rx_size,
    rx_next_highest,
    rx_next_reassembly,
    rx_timer_trigger,
    t_reassembly_start,  \* "off" or "on"
    submitted,           \* sizes of the SDUs accepted, in order
    withdrawn,           \* SDUs taken back by discard_sdu
    air,                 \* PDUs in flight
    high,                \* rx_next_highest before it is reduced modulo
    repeats,
    delivered            \* [ids, size] of every SDU handed up

tx_vars == <<tx_list, tx_next, tx_size, bstatus, submitted, withdrawn>>
rx_vars == <<rx_list, rx_size, rx_next_highest, rx_next_reassembly,
             rx_timer_trigger, t_reassembly_start, high, delivered>>
vars == <<tx_vars, rx_vars, air, repeats>>

window_size == SnModulus \div 2

SN == 0 .. SnModulus - 1

\* The least and the greatest of a set of numbers.
Min(S) == CHOOSE x \in S : \A y \in S : x <= y
Max(S) == CHOOSE x \in S : \A y \in S : x >= y

\* Fewer than MaxAir PDUs are in flight: no MaxAir of them are distinct.
AirHasRoom ==
    \A pdus \in [1 .. MaxAir -> air] :
      \E i, j \in 1 .. MaxAir : i # j /\ pdus[i] = pdus[j]

\* The linked lists are sequences: an element linked in before the i-th, and the
\* i-th taken out.
InsertAt(list, i, e) == SubSeq(list, 1, i - 1) \o <<e>> \o SubSeq(list, i, Len(list))
RemoveAt(list, i) == SubSeq(list, 1, i - 1) \o SubSeq(list, i + 1, Len(list))

Total(v) ==
    LET sum[k \in 0 .. Len(v)] == IF k = 0 THEN 0 ELSE sum[k - 1] + v[k]
    IN  sum[Len(v)]

SumSizes(list) == Total([k \in 1 .. Len(list) |-> list[k].size])

----------------------------------------------------------------------------
(* Transmitter.                                                            *)

compute_pdu_header_size(first, last) ==
    1 + (IF LongSn /\ ~(first /\ last) THEN 1 ELSE 0) + (IF first THEN 0 ELSE 2)

HeaderSize(seg) == compute_pdu_header_size(seg.first, seg.last)

PduSize(seg) == HeaderSize(seg) + seg.size

recv_sdu(size) ==
    /\ Len(submitted) < MaxSdu
    /\ tx_size + size <= TxMaxSize
    /\ LET seg == [id |-> Len(submitted) + 1, so |-> 0, size |-> size,
                   first |-> TRUE, last |-> TRUE]
       IN /\ tx_list' = Append(tx_list, seg)
          /\ bstatus' = bstatus + PduSize(seg)
    /\ tx_size' = tx_size + size
    /\ submitted' = Append(submitted, size)
    /\ UNCHANGED <<tx_next, withdrawn, rx_vars, air, repeats>>

\* serialize_sdu: the PDU that carries seg; a whole SDU has no SN.
serialize_sdu(seg) ==
    [id |-> seg.id, n |-> tx_next, sn |-> tx_next % SnModulus, so |-> seg.so,
     size |-> seg.size, first |-> seg.first, last |-> seg.last]

\* resegment: the cut of seg that fits in the grant, and what is left of it.
resegment_cut(seg, size) ==
    [seg EXCEPT !.size = size - compute_pdu_header_size(seg.first, FALSE),
                !.last = FALSE]
\* Mutant of resegment_rest: the rest keeps the size of the whole segment.
resegment_rest_whole(seg, cut) ==
    [seg EXCEPT !.so = seg.so + cut.size, !.first = FALSE]

resegment_rest(seg, cut) ==
    [seg EXCEPT !.so = seg.so + cut.size, !.size = seg.size - cut.size,
                !.first = FALSE]

TxUnchanged == UNCHANGED <<submitted, withdrawn, rx_vars, repeats>>

\* generate_tx_pdu when the head of the list fits in the grant.
generate_tx_pdu_whole(size) ==
    /\ tx_list # <<>> /\ AirHasRoom
    /\ LET seg == Head(tx_list)
       IN /\ PduSize(seg) <= size
          /\ bstatus' = bstatus - PduSize(seg)
          /\ tx_next' = IF ~seg.first /\ seg.last THEN tx_next + 1 ELSE tx_next
          /\ air' = air \cup {serialize_sdu(seg)}
          /\ tx_size' = tx_size - seg.size
    /\ tx_list' = Tail(tx_list)
    /\ TxUnchanged

\* The head is too big and is cut; the rest goes back to the head of the list.
generate_tx_pdu_cut(size) ==
    /\ tx_list # <<>> /\ AirHasRoom
    /\ LET seg  == Head(tx_list)
           cut  == resegment_cut(seg, size)
           rest == resegment_rest(seg, cut)
       IN /\ HeaderSize(seg) + 1 <= size /\ size < PduSize(seg)
          /\ cut.size >= 1
          /\ tx_list' = <<rest>> \o Tail(tx_list)
          /\ bstatus' = (bstatus - PduSize(seg)) + PduSize(rest)
          /\ air' = air \cup {serialize_sdu(cut)}
          /\ tx_size' = tx_size - cut.size
    /\ UNCHANGED tx_next
    /\ TxUnchanged

\* The head is too big and, once its header has grown by the SN byte, no byte
\* of it fits: resegment returns NULL after the head was taken off the list.
generate_tx_pdu_no_room(size) ==
    /\ tx_list # <<>>
    /\ LET seg == Head(tx_list)
       IN /\ HeaderSize(seg) + 1 <= size /\ size < PduSize(seg)
          /\ resegment_cut(seg, size).size < 1
          /\ bstatus' = bstatus - PduSize(seg)
    /\ tx_list' = Tail(tx_list)
    /\ UNCHANGED <<tx_next, tx_size, air>>
    /\ TxUnchanged

discard_sdu(id) ==
    /\ \E k \in 1 .. Len(tx_list) :
         /\ tx_list[k].id = id
         /\ tx_list[k].first /\ tx_list[k].last
         /\ tx_list' = RemoveAt(tx_list, k)
         /\ bstatus' = bstatus - PduSize(tx_list[k])
    /\ withdrawn' = withdrawn \cup {id}
    /\ UNCHANGED <<tx_next, tx_size, submitted, rx_vars, air, repeats>>

----------------------------------------------------------------------------
(* Receiver: comparisons and the questions asked of rx_list.               *)

\* sn_compare_rx is the difference of two of these.
modulus_rx(highest, a) == (a - (highest - window_size)) % SnModulus

sn_compare_rx(highest, a, b) == modulus_rx(highest, a) - modulus_rx(highest, b)

\* Mutant of pdu_list_add: PDUs are kept in the order they come.
pdu_list_append(highest, list, pdu) == Append(list, pdu)

\* nr_rlc_pdu_list_add: ordered by SN, then by SO, equal ones after.
pdu_list_add(highest, list, pdu) ==
    LET After == {k \in 1 .. Len(list) :
                    \/ sn_compare_rx(highest, list[k].sn, pdu.sn) > 0
                    \/ list[k].sn = pdu.sn /\ list[k].so > pdu.so}
    IN InsertAt(list, Min(After \cup {Len(list) + 1}), pdu)

\* The positions of sn in the list, a run because the list is sorted.
Segments(list, sn) == {k \in 1 .. Len(list) : list[k].sn = sn}

\* End of the bytes held by the segments of the same SN before position k.
Reach(list, k) ==
    Max({0} \cup {list[j].so + list[j].size :
                    j \in {i \in Segments(list, list[k].sn) : i < k}})

HasData(list, sn) ==
    Segments(list, sn) # {} /\ list[Min(Segments(list, sn))].data

\* Mutant of sdu_full: the last segment is enough.
sdu_full_last(list, sn) ==
    /\ HasData(list, sn)
    /\ \E k \in Segments(list, sn) : list[k].last

sdu_full(list, sn) ==
    /\ HasData(list, sn)
    /\ \E k \in Segments(list, sn) :
         /\ list[k].last
         /\ \A j \in Segments(list, sn) : j <= k => list[j].so <= Reach(list, j)

sdu_delivered(list, sn) ==
    Segments(list, sn) # {} /\ ~list[Min(Segments(list, sn))].data

sdu_has_missing_bytes(list, sn) ==
    /\ HasData(list, sn)
    /\ \E k \in Segments(list, sn) : list[k].so > Reach(list, k)

\* Mutant of FirstNotDelivered: one SN is passed, whatever follows it.
FirstNotDelivered_next(list, sn) == (sn + 1) % SnModulus

\* The first SN from sn upwards that is not delivered (the while loops around
\* sdu_delivered).
FirstNotDelivered(list, sn) ==
    LET Later(d) == (sn + d) % SnModulus
    IN Later(Min({d \in 0 .. SnModulus : ~sdu_delivered(list, Later(d))}))

\* reassemble_and_deliver: a byte is taken from the first segment that reaches
\* it (0 stands for bytes of no segment); the segments stay in the list without
\* data.
Reassembled(list, sn) ==
    LET segs == Segments(list, sn)
        size == Max({list[k].so + list[k].size : k \in segs})
        From(b) == LET k == Min({i \in segs : list[i].so + list[i].size > b})
                   IN IF list[k].so <= b THEN list[k].id ELSE 0
    IN [ids |-> {From(b) : b \in 0 .. size - 1}, size |-> size]

Emptied(list, sn) ==
    [k \in 1 .. Len(list) |->
       IF list[k].sn = sn THEN [list[k] EXCEPT !.data = FALSE, !.size = 0]
                          ELSE list[k]]

\* The loops that drop PDUs from the front of the list while their SN is in out.
DropWhile(list, out) ==
    SubSeq(list,
           Min({k \in 1 .. Len(list) : list[k].sn \notin out} \cup {Len(list) + 1}),
           Len(list))

\* The condition, written three times in the code, for t_reassembly to run.
ReassemblyGap(highest, next, list) ==
    \/ sn_compare_rx(highest, highest, (next + 1) % SnModulus) > 0
    \/ /\ highest = (next + 1) % SnModulus
       /\ sdu_has_missing_bytes(list, next)

----------------------------------------------------------------------------
(* Receiver: operations.                                                   *)

\* A PDU leaves the air when received, unless the air repeats it.  A whole SDU
\* has no SN by which a repetition could be told, so it is not repeated.
Taken(p) ==
    \/ air' = air \ {p} /\ UNCHANGED repeats
    \/ /\ repeats < MaxRepeat /\ ~(p.first /\ p.last)
       /\ repeats' = repeats + 1 /\ UNCHANGED air

\* External: the MAC gives up on a PDU.
lose(p) == air' = air \ {p} /\ UNCHANGED <<tx_vars, rx_vars, repeats>>

\* External: what the MAC guarantees, half of the SN space on either side.
InWindow(p) == high - window_size <= p.n /\ p.n < high + window_size

\* recv_pdu of a complete SDU.
recv_pdu_full(p) ==
    /\ p.first /\ p.last
    /\ Taken(p)
    /\ delivered' = Append(delivered, [ids |-> {p.id}, size |-> p.size])
    /\ UNCHANGED <<tx_vars, rx_list, rx_size, rx_next_highest, rx_next_reassembly,
                   rx_timer_trigger, t_reassembly_start, high>>

BufferFull(p) == rx_size + p.size > RxMaxSize

Stale(p) == sn_compare_rx(rx_next_highest, p.sn, rx_next_reassembly) < 0

\* recv_pdu's early returns: the buffer is full, or the SN is behind the window.
recv_pdu_discard(p) ==
    /\ ~(p.first /\ p.last)
    /\ BufferFull(p) \/ Stale(p)
    /\ Taken(p)
    /\ UNCHANGED <<tx_vars, rx_vars>>

\* End of reception_actions: t_reassembly is stopped, then maybe started.
UpdateTimer(highest, next, list) ==
    LET stop == \/ t_reassembly_start # "on"
                \/ sn_compare_rx(highest, rx_timer_trigger, next) <= 0
                \/ sn_compare_rx(highest, rx_timer_trigger, highest) > 0
                \/ /\ highest = (next + 1) % SnModulus
                   /\ ~sdu_has_missing_bytes(list, next)
        start == stop /\ ReassemblyGap(highest, next, list)
    IN /\ t_reassembly_start' = IF start THEN "on"
                                ELSE IF stop THEN "off" ELSE "on"
       /\ rx_timer_trigger' = IF start THEN highest ELSE rx_timer_trigger
       /\ rx_next_highest' = highest
       /\ rx_next_reassembly' = next
       /\ rx_list' = list

\* The PDU as it is put in rx_list.
Received(p) ==
    [id |-> p.id, n |-> p.n, sn |-> p.sn, so |-> p.so, size |-> p.size,
     last |-> p.last, data |-> TRUE]

Accepted(p) ==
    /\ ~(p.first /\ p.last)
    /\ ~BufferFull(p) /\ ~Stale(p)
    /\ InWindow(p)
    /\ Taken(p)
    /\ UNCHANGED <<tx_vars>>

\* recv_pdu, the segment completes its SDU.
recv_pdu_completes(p) ==
    LET list  == pdu_list_add(rx_next_highest, rx_list, Received(p))
        after == Emptied(list, p.sn)
    IN /\ Accepted(p)
       /\ sdu_full(list, p.sn)
       /\ delivered' = Append(delivered, Reassembled(list, p.sn))
       /\ rx_size' = rx_size + p.size - (SumSizes(list) - SumSizes(after))
       /\ UpdateTimer(rx_next_highest,
                      IF p.sn = rx_next_reassembly
                      THEN FirstNotDelivered(after, rx_next_reassembly)
                      ELSE rx_next_reassembly,
                      after)
       /\ UNCHANGED high

\* recv_pdu, the SDU stays incomplete and its SN is inside the window.
recv_pdu_inside(p) ==
    LET list == pdu_list_add(rx_next_highest, rx_list, Received(p))
    IN /\ Accepted(p)
       /\ ~sdu_full(list, p.sn)
       /\ sn_compare_rx(rx_next_highest, p.sn, rx_next_highest) < 0
       /\ rx_size' = rx_size + p.size
       /\ UpdateTimer(rx_next_highest, rx_next_reassembly, list)
       /\ UNCHANGED <<high, delivered>>

\* recv_pdu, the SN is above the window, which moves up.
recv_pdu_moves_window(p) ==
    LET list    == pdu_list_add(rx_next_highest, rx_list, Received(p))
        highest == (p.sn + 1) % SnModulus
        out     == {sn \in SN : sn_compare_rx(highest, sn, highest) >= 0}
        kept    == DropWhile(list, out)
    IN /\ Accepted(p)
       /\ ~sdu_full(list, p.sn)
       /\ sn_compare_rx(rx_next_highest, p.sn, rx_next_highest) >= 0
       /\ rx_size' = rx_size + p.size - (SumSizes(list) - SumSizes(kept))
       /\ UpdateTimer(highest,
                      IF rx_next_reassembly \in out
                      THEN FirstNotDelivered(kept, (highest - window_size) % SnModulus)
                      ELSE rx_next_reassembly,
                      kept)
       /\ high' = p.n + 1
       /\ UNCHANGED delivered

recv_pdu(p) ==
    \/ recv_pdu_full(p)
    \/ recv_pdu_discard(p)
    \/ recv_pdu_completes(p)
    \/ recv_pdu_inside(p)
    \/ recv_pdu_moves_window(p)

\* Mutant of RestartGap: t_reassembly runs once.
RestartGap_never(next, list) == FALSE

\* The condition under which check_t_reassembly restarts the timer; unlike
\* reception_actions it adds 1 without reducing modulo.
RestartGap(next, list) ==
    \/ sn_compare_rx(rx_next_highest, rx_next_highest, (next + 1) % SnModulus) > 0
    \/ rx_next_highest = next + 1 /\ sdu_has_missing_bytes(list, next)

\* check_t_reassembly when the timer has expired.
check_t_reassembly ==
    LET next == FirstNotDelivered(rx_list, rx_timer_trigger)
        old  == {sn \in SN : sn_compare_rx(rx_next_highest, sn, next) < 0}
        kept == DropWhile(rx_list, old)
    IN /\ t_reassembly_start = "on"
       /\ rx_next_reassembly' = next
       /\ rx_list' = kept
       /\ t_reassembly_start' = IF RestartGap(next, kept) THEN "on" ELSE "off"
       /\ rx_timer_trigger' =
            IF RestartGap(next, kept) THEN rx_next_highest ELSE rx_timer_trigger
       /\ UNCHANGED <<tx_vars, rx_size, rx_next_highest, high, delivered,
                      air, repeats>>

\* clear_entity on both sides; the MAC is reset with them.
reestablishment ==
    /\ tx_list' = <<>> /\ tx_next' = 0 /\ tx_size' = 0 /\ bstatus' = 0
    /\ withdrawn' = withdrawn \cup {tx_list[k].id : k \in 1 .. Len(tx_list)}
    /\ rx_list' = <<>> /\ rx_size' = 0
    /\ rx_next_highest' = 0 /\ rx_next_reassembly' = 0 /\ rx_timer_trigger' = 0
    /\ t_reassembly_start' = "off"
    /\ high' = 0 /\ air' = {}
    /\ UNCHANGED <<submitted, delivered, repeats>>

\* A pair of entities whose window stands at s: fresh ones for s = 0, and for
\* any other s what is left after t_reassembly expired with all PDUs lost.
Init ==
    /\ tx_list = <<>> /\ tx_size = 0 /\ bstatus = 0
    /\ rx_list = <<>> /\ rx_size = 0
    /\ \E s \in StartSn :
         /\ tx_next = s /\ high = s
         /\ rx_next_highest = s /\ rx_next_reassembly = s /\ rx_timer_trigger = s
    /\ t_reassembly_start = "off"
    /\ submitted = <<>> /\ withdrawn = {} /\ air = {} /\ repeats = 0
    /\ delivered = <<>>

Next ==
    \/ \E size \in SduSize : recv_sdu(size)
    \/ \E size \in Grant :
         \/ generate_tx_pdu_whole(size)
         \/ generate_tx_pdu_cut(size)
         \/ generate_tx_pdu_no_room(size)
    \/ \E id \in 1 .. Len(submitted) : discard_sdu(id)
    \/ \E p \in air : recv_pdu(p) \/ lose(p)
    \/ check_t_reassembly
    \/ reestablishment

Spec == Init /\ [][Next]_vars

----------------------------------------------------------------------------
(* Properties.                                                             *)

\* Types of the state of both entities.
TypeOK ==
    /\ tx_next \in Nat /\ tx_size \in Int /\ bstatus \in Int
    /\ \A k \in 1 .. Len(tx_list) :
         /\ tx_list[k].size >= 1
         /\ tx_list[k].so + tx_list[k].size = submitted[tx_list[k].id]
    /\ \A v \in {rx_next_highest, rx_next_reassembly, rx_timer_trigger} :
         v \in SN
    /\ rx_size \in Int
    /\ t_reassembly_start \in {"off", "on"}
    /\ rx_next_highest = high % SnModulus

\* What deliver_sdu gets is one SDU as it was submitted: all its bytes, and no
\* byte of another SDU, whatever segments were lost, repeated or reordered and
\* however often the SN wrapped; an SDU that was discarded or cleared before it
\* was sent is never delivered.
DeliveredWhole ==
    \A k \in 1 .. Len(delivered) :
      \E id \in 1 .. Len(submitted) \ withdrawn :
        delivered[k] = [ids |-> {id}, size |-> submitted[id]]

\* deliver_sdu is called at most once for an SDU, although processed segments
\* may come again: the empty entries left in rx_list tell them apart.
DeliveredOnce ==
    \A j, k \in 1 .. Len(delivered) :
      delivered[j].ids = delivered[k].ids => j = k

\* deliver_sdu gets SDUs as they were submitted, each at most once.
DeliveredOnceWhole == DeliveredWhole /\ DeliveredOnce

\* rx_list is sorted by SN and SO and holds only SNs of the window below
\* rx_next_highest, so that two entries with one SN belong to one SDU;
\* rx_next_reassembly is in the window or at its upper edge.
WindowOrder ==
    /\ \A k \in 1 .. Len(rx_list) :
         high - window_size <= rx_list[k].n /\ rx_list[k].n < high
    /\ \A k \in 1 .. Len(rx_list) - 1 :
         \/ rx_list[k].n < rx_list[k + 1].n
         \/ rx_list[k].n = rx_list[k + 1].n /\ rx_list[k].so <= rx_list[k + 1].so
    /\ modulus_rx(rx_next_highest, rx_next_reassembly) <= window_size

\* rx_next_reassembly is the first SN still to be delivered: it is not
\* delivered itself and every segment kept below it is of a delivered SDU.
NextReassemblyExact ==
    /\ ~sdu_delivered(rx_list, rx_next_reassembly)
    /\ \A k \in 1 .. Len(rx_list) :
         sn_compare_rx(rx_next_highest, rx_list[k].sn, rx_next_reassembly) < 0
         => sdu_delivered(rx_list, rx_list[k].sn)

\* The buffer status the MAC schedules by is what the waiting segments need,
\* headers included, through cuts, discards and re-establishments; tx_size
\* covers at least their bytes, and neither buffer outgrows its limit or goes
\* below zero.
SizesExact ==
    /\ bstatus = Total([k \in 1 .. Len(tx_list) |-> PduSize(tx_list[k])])
    /\ SumSizes(tx_list) <= tx_size
    /\ tx_size <= TxMaxSize
    /\ rx_size \in 0 .. RxMaxSize

\* While something is missing below rx_next_highest, t_reassembly is running,
\* except with rx_next_reassembly at the last SN (see RestartGap).
GapTimedBelowWrap ==
    /\ ReassemblyGap(rx_next_highest, rx_next_reassembly, rx_list)
    /\ rx_next_reassembly # SnModulus - 1
    => t_reassembly_start = "on"
=============================================================================
