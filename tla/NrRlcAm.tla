------------------------------ MODULE NrRlcAm ------------------------------
(***************************************************************************)
(* The NR RLC acknowledged-mode entity (nr_rlc_entity_am.c, with the lists *)
(* of nr_rlc_sdu.c and nr_rlc_pdu.c): the transmitting half of one entity, *)
(* the receiving half of its peer, data PDUs one way and STATUS PDUs back. *)
(*                                                                         *)
(* An SDU is the position of its submission in 'submitted'.  tx_next is a  *)
(* count and n, in a segment, the count its SDU was given; the code only   *)
(* sees their residues.  The other protocol variables are SNs.             *)
(***************************************************************************)
EXTENDS Integers, Sequences, FiniteSets, SequencesExt, FiniteSetsExt

CONSTANTS
    LongSn,       \* BOOLEAN: sn_field_length is 18 (else 12): one more header byte
    SnModulus,    \* sn_modulus; the window is half of it
    StartSn,      \* SNs an already used pair of entities may be at
    SduSize,      \* sizes of the SDUs submitted
    Grant,        \* sizes the MAC offers for a data PDU
    StatusGrant,  \* sizes the MAC offers for a STATUS PDU
    TxMaxSize,    \* tx_maxsize
    RxMaxSize,    \* rx_maxsize
    PollPdu,      \* poll_pdu, with a number never reached for infinity
    PollByte,     \* poll_byte, likewise
    NackRange,    \* longest range of one NACK, 255 in the code
    MaxSdu,       \* bound: SDUs submitted
    MaxAir        \* bound: data PDUs in flight

ASSUME SizeAssumption ==
    /\ SnModulus \in Nat \ {0} /\ SnModulus % 2 = 0
    /\ StartSn \subseteq 0 .. SnModulus - 1
    /\ SduSize \subseteq Nat \ {0} /\ Grant \subseteq Nat /\ StatusGrant \subseteq Nat
    /\ LongSn \in BOOLEAN /\ TxMaxSize \in Nat /\ RxMaxSize \in Nat
    /\ PollPdu \in Nat /\ PollByte \in Nat /\ NackRange \in Nat \ {0}
    /\ MaxSdu \in Nat /\ MaxAir \in Nat

VARIABLES
    tx_list, wait_list, retransmit_list,  \* [id, n, so, size, first, last]
    wait_end,             \* the segment the pointer was set to, or NoSegment
    tx_next, tx_next_ack, poll_sn,
    pdu_without_poll, byte_without_poll, force_poll,
    t_poll_retransmit_start,  \* "off" or "on"
    tx_size,              \* bytes of the SDUs in the three lists
    tx_bstatus, retx_bstatus, \* common.bstatus
    submitted,            \* sizes of the SDUs accepted, in order
    withdrawn,            \* SDUs discarded or cleared
    freed,                \* bytes of each SDU freed because acknowledged
    rx_list,              \* [id, n, so, size, first, last, data]
    rx_size, rx_next, rx_next_highest, rx_highest_status, rx_next_status_trigger,
    status_triggered,
    t_reassembly_start,   \* as t_poll_retransmit_start
    delivered,            \* [ids, size] of every SDU handed up
    air,                  \* data PDUs in flight
    status,               \* STATUS PDUs in flight, at most one
    crashed               \* the process died on a bad pointer

lists == <<tx_list, wait_list, wait_end, retransmit_list>>
poll_vars == <<poll_sn, pdu_without_poll, byte_without_poll, force_poll,
               t_poll_retransmit_start>>
size_vars == <<tx_size, tx_bstatus, retx_bstatus>>
tx_vars == <<lists, poll_vars, size_vars, tx_next, tx_next_ack, submitted,
             withdrawn, freed>>
rx_vars == <<rx_list, rx_size, rx_next, rx_next_highest, rx_highest_status,
             rx_next_status_trigger, status_triggered, t_reassembly_start,
             delivered>>
vars == <<tx_vars, rx_vars, air, status, crashed>>

window_size == SnModulus \div 2

SN == 0 .. SnModulus - 1

Sn(e) == e.n % SnModulus

ToEnd == -1       \* so_end 0xffff: all bytes to the end

NoSegment == <<0, 0>>

Pointer(seg) == <<seg.id, seg.so>>

----------------------------------------------------------------------------
(* Transmitter: sizes, comparisons, lists.                                 *)

compute_pdu_header_size(seg) ==
    2 + (IF LongSn THEN 1 ELSE 0) + (IF seg.first THEN 0 ELSE 2)

PduSize(seg) == compute_pdu_header_size(seg) + seg.size

SumPduSizes(list) == FoldSeq(LAMBDA seg, sum : PduSize(seg) + sum, 0, list)

SumSizes(list) == FoldSeq(LAMBDA e, sum : e.size + sum, 0, list)

modulus_tx(a) == (a - tx_next_ack) % SnModulus

sn_compare_tx(a, b) == modulus_tx(a) - modulus_tx(b)

\* nr_rlc_sdu_segment_list_add: ordered by SN, then by SO, equal ones after.
segment_list_add(list, seg) ==
    LET After == {k \in 1 .. Len(list) :
                    \/ sn_compare_tx(Sn(list[k]), Sn(seg)) > 0
                    \/ Sn(list[k]) = Sn(seg) /\ list[k].so > seg.so}
    IN InsertAt(list, Min(After \cup {Len(list) + 1}), seg)

\* Where wait_end points in wait_list; nowhere if it is NULL or was freed.
EndPosition == {k \in 1 .. Len(wait_list) : Pointer(wait_list[k]) = wait_end}

\* The test "maybe the new sdu comes after"; what a freed wait_end holds can
\* make it go either way.
AfterEnd(seg) ==
    \/ EndPosition = {}
    \/ \E k \in EndPosition :
         \/ sn_compare_tx(Sn(seg), Sn(wait_list[k])) > 0
         \/ Sn(seg) = Sn(wait_list[k]) /\ seg.so > wait_list[k].so

BeforeEnd(seg) ==
    /\ wait_end # NoSegment
    /\ EndPosition = {} \/ ~AfterEnd(seg)

\* The end of generate_retx_pdu and generate_tx_pdu: seg is put in wait_list.
put_in_wait_list(seg) ==
    \/ /\ AfterEnd(seg)
       /\ wait_list' = Append(SubSeq(wait_list, 1, Max({0} \cup EndPosition)), seg)
       /\ wait_end' = Pointer(seg)
    \/ /\ BeforeEnd(seg)
       /\ wait_list' = segment_list_add(wait_list, seg)
       /\ wait_end' = IF wait_list = <<>> THEN Pointer(seg) ELSE wait_end

\* wait_end is dereferenced although it is NULL or freed.
BadWaitEnd ==
    \/ wait_end = NoSegment /\ wait_list # <<>>
    \/ wait_end # NoSegment /\ EndPosition = {}

----------------------------------------------------------------------------
(* Transmitter: operations.                                                *)

recv_sdu(size) ==
    /\ Len(submitted) < MaxSdu
    /\ tx_size + size <= TxMaxSize
    /\ LET seg == [id |-> Len(submitted) + 1, n |-> -1, so |-> 0, size |-> size,
                   first |-> TRUE, last |-> TRUE]
       IN /\ tx_list' = Append(tx_list, seg)
          /\ tx_bstatus' = tx_bstatus + PduSize(seg)
    /\ tx_size' = tx_size + size
    /\ submitted' = Append(submitted, size)
    /\ UNCHANGED <<wait_list, wait_end, retransmit_list, poll_vars, retx_bstatus,
                   tx_next, tx_next_ack, withdrawn, freed, rx_vars, air,
                   status, crashed>>

\* resegment: the part of seg that fits in size bytes, and the rest (none if
\* all of it fits).
resegment_cut(seg, size) ==
    IF PduSize(seg) <= size THEN seg
    ELSE [seg EXCEPT !.size = size - compute_pdu_header_size(seg), !.last = FALSE]

resegment_rest(seg, size) ==
    LET cut == resegment_cut(seg, size)
    IN IF PduSize(seg) <= size THEN <<>>
       ELSE <<[seg EXCEPT !.so = seg.so + cut.size, !.size = seg.size - cut.size,
                          !.first = FALSE]>>

is_window_stalling(next) ==
    sn_compare_tx(next % SnModulus, (tx_next_ack + window_size) % SnModulus) >= 0

\* Mutant of check_poll_after_pdu_assembly: empty buffers ask for no poll.
check_poll_after_pdu_assembly_stall(txl, retxl, next) == is_window_stalling(next)

check_poll_after_pdu_assembly(txl, retxl, next) ==
    \/ txl = <<>> /\ retxl = <<>>
    \/ is_window_stalling(next)

\* serialize_sdu, with include_poll if p; the PDU is in flight, or lost, and
\* External: none stays in flight when the window has moved past it.
serialize_sdu(seg, p, next, pdus, bytes) ==
    /\ poll_sn' = IF p THEN (next - 1) % SnModulus ELSE poll_sn
    /\ pdu_without_poll' = IF p THEN 0 ELSE pdus
    /\ byte_without_poll' = IF p THEN 0 ELSE bytes
    /\ t_poll_retransmit_start' = IF p THEN "on" ELSE t_poll_retransmit_start
    /\ LET pdu == [id |-> seg.id, n |-> seg.n, so |-> seg.so, size |-> seg.size,
                   first |-> seg.first, last |-> seg.last, p |-> p]
           InTime(pdus_sent) == {q \in pdus_sent : q.n >= next - window_size}
       IN \/ air' = InTime(air)
          \/ Cardinality(air \cup {pdu}) <= MaxAir /\ air' = InTime(air \cup {pdu})

GenerateUnchanged ==
    UNCHANGED <<tx_size, tx_next_ack, submitted, withdrawn, freed, rx_vars, status, crashed>>

Fits(seg, size) == compute_pdu_header_size(seg) + 1 <= size

\* A retransmission is tried first; if its header does not fit, new data is.
RetxReady(size) == retransmit_list # <<>> /\ Fits(Head(retransmit_list), size)

generate_retx_pdu(size) ==
    LET seg   == Head(retransmit_list)
        cut   == resegment_cut(seg, size)
        retxl == resegment_rest(seg, size) \o Tail(retransmit_list)
        p     == check_poll_after_pdu_assembly(tx_list, retxl, tx_next) \/ force_poll
    IN /\ RetxReady(size)
       /\ ~(wait_end = NoSegment /\ wait_list # <<>>)
       /\ retransmit_list' = retxl
       /\ retx_bstatus' = retx_bstatus - PduSize(seg)
                            + SumPduSizes(resegment_rest(seg, size))
       /\ put_in_wait_list(cut)
       /\ serialize_sdu(cut, p, tx_next, pdu_without_poll, byte_without_poll)
       /\ force_poll' = FALSE
       /\ UNCHANGED <<tx_list, tx_next, tx_bstatus>>
       /\ GenerateUnchanged

TxReady(size) ==
    /\ ~RetxReady(size)
    /\ ~is_window_stalling(tx_next)
    /\ tx_list # <<>> /\ Fits(Head(tx_list), size)

generate_tx_pdu(size) ==
    LET seg   == [Head(tx_list) EXCEPT !.n = tx_next]
        cut   == resegment_cut(seg, size)
        txl   == resegment_rest(seg, size) \o Tail(tx_list)
        next  == IF cut.last THEN tx_next + 1 ELSE tx_next
        pdus  == pdu_without_poll + 1
        bytes == byte_without_poll + cut.size
        p     == \/ pdus >= PollPdu \/ bytes >= PollByte
                 \/ check_poll_after_pdu_assembly(txl, retransmit_list, next)
                 \/ force_poll
    IN /\ TxReady(size)
       /\ ~(wait_end = NoSegment /\ wait_list # <<>>)
       /\ tx_list' = txl
       /\ tx_bstatus' = tx_bstatus - PduSize(seg)
                          + SumPduSizes(resegment_rest(seg, size))
       /\ tx_next' = next
       /\ put_in_wait_list(cut)
       /\ serialize_sdu(cut, p, next, pdus, bytes)
       /\ force_poll' = FALSE
       /\ UNCHANGED <<retransmit_list, retx_bstatus>>
       /\ GenerateUnchanged

\* The process dies in generate_pdu.
generate_pdu_crash(size) ==
    /\ BadWaitEnd
    /\ RetxReady(size) \/ TxReady(size)
    /\ crashed' = TRUE
    /\ UNCHANGED <<tx_vars, rx_vars, air, status>>

\* Mutant of discard_sdu: tx_size is not lowered.
discard_sdu_keep_size(id) ==
    /\ \E k \in 1 .. Len(tx_list) :
         /\ tx_list[k].id = id
         /\ tx_list[k].first /\ tx_list[k].last
         /\ tx_list' = RemoveAt(tx_list, k)
         /\ tx_bstatus' = tx_bstatus - PduSize(tx_list[k])
    /\ withdrawn' = withdrawn \cup {id}
    /\ UNCHANGED <<wait_list, wait_end, retransmit_list, poll_vars, tx_size,
                   retx_bstatus, tx_next, tx_next_ack, submitted, freed, rx_vars,
                   air, status, crashed>>

discard_sdu(id) ==
    /\ \E k \in 1 .. Len(tx_list) :
         /\ tx_list[k].id = id
         /\ tx_list[k].first /\ tx_list[k].last
         /\ tx_list' = RemoveAt(tx_list, k)
         /\ tx_bstatus' = tx_bstatus - PduSize(tx_list[k])
         /\ tx_size' = tx_size - tx_list[k].size
    /\ withdrawn' = withdrawn \cup {id}
    /\ UNCHANGED <<wait_list, wait_end, retransmit_list, poll_vars, retx_bstatus,
                   tx_next, tx_next_ack, submitted, freed, rx_vars, air,
                   status, crashed>>

\* check_t_poll_retransmit when the timer has expired: the head of wait_list
\* is to be retransmitted.
check_t_poll_retransmit ==
    /\ t_poll_retransmit_start = "on"
    /\ t_poll_retransmit_start' = "off"
    /\ force_poll' = TRUE
    /\ IF check_poll_after_pdu_assembly(tx_list, retransmit_list, tx_next)
       THEN /\ wait_list # <<>>
            /\ wait_list' = Tail(wait_list)
            /\ wait_end' = IF Len(wait_list) = 1 THEN NoSegment ELSE wait_end
            /\ retransmit_list' = segment_list_add(retransmit_list, Head(wait_list))
            /\ retx_bstatus' = retx_bstatus + PduSize(Head(wait_list))
       ELSE UNCHANGED <<wait_list, wait_end, retransmit_list, retx_bstatus>>
    /\ UNCHANGED <<tx_list, poll_sn, pdu_without_poll, byte_without_poll, tx_size,
                   tx_bstatus, tx_next, tx_next_ack, submitted, withdrawn, freed,
                   rx_vars, air, status, crashed>>

\* The same with nothing in wait_list: the head is dereferenced all the same.
check_t_poll_retransmit_crash ==
    /\ t_poll_retransmit_start = "on"
    /\ check_poll_after_pdu_assembly(tx_list, retransmit_list, tx_next)
    /\ wait_list = <<>>
    /\ crashed' = TRUE
    /\ UNCHANGED <<tx_vars, rx_vars, air, status>>

----------------------------------------------------------------------------
(* Transmitter: STATUS PDUs.  A status is [ack, nacks], each NACK a record *)
(* [sn, start, end, range].  The walk over the two lists is a record:      *)
(*   kept, wait   wait_list before and from cur_wait_list on               *)
(*   new, retx    the new retransmit list, and what is left of the old one *)
(*   end          end_wait_list, or Unset                                  *)
(*   bstatus      common.bstatus.retx_size                                 *)
(*   out          the segments freed                                       *)
(*   prev         the previous NACK, or none                               *)
(*   at           the label the walk stands at                             *)
(*   stop         t_poll_retransmit is to be stopped                       *)

Unset == <<-1, -1>>

\* Mutant of so_overlap: a segment of one byte is missed.
so_overlap_strict(s1, e1, s2, e2) ==
    IF s1 < s2 THEN e1 = ToEnd \/ e1 >= s2
               ELSE e2 = ToEnd \/ s1 < e2

so_overlap(s1, e1, s2, e2) ==
    IF s1 < s2 THEN e1 = ToEnd \/ e1 >= s2
               ELSE e2 = ToEnd \/ s1 <= e2

Overlaps(seg, nack) ==
    /\ Sn(seg) = nack.sn
    /\ so_overlap(nack.start, nack.end, seg.so, seg.so + seg.size - 1)

\* The segment cannot be classified by this NACK yet.
Later(seg, nack) ==
    \/ sn_compare_tx(Sn(seg), nack.sn) > 0
    \/ Sn(seg) = nack.sn /\ seg.so > nack.start

HeadPointer(list) == IF list = <<>> THEN NoSegment ELSE Pointer(Head(list))

LastPointer(list) == IF list = <<>> THEN NoSegment ELSE Pointer(Last(list))

\* end_wait_list after a segment left wait_list, if the code finds that
\* pointer is the end.
EndAfter(w, pointer) == IF pointer = wait_end THEN LastPointer(w.kept) ELSE w.end

\* Which head is processed.  The SNs are compared as they are.
WaitListFirst(w) ==
    \/ w.retx = <<>>
    \/ /\ w.wait # <<>>
       /\ \/ Sn(Head(w.wait)) < Sn(Head(w.retx))
          \/ /\ Sn(Head(w.wait)) = Sn(Head(w.retx))
             /\ Head(w.wait).so < Head(w.retx).so

process_wait_list_head(w, nack, ack) ==
    LET seg  == Head(w.wait)
        tail == Tail(w.wait)
        cmp  == sn_compare_tx(Sn(seg), ack)
    IN IF Overlaps(seg, nack)
       THEN [w EXCEPT !.wait = tail, !.new = Append(@, seg),
                      !.end = EndAfter(w, Pointer(seg)), !.bstatus = @ + PduSize(seg)]
       ELSE IF Later(seg, nack) THEN [w EXCEPT !.at = "done_nack"]
       ELSE IF cmp < 0
       THEN [w EXCEPT !.wait = tail, !.out = Append(@, seg),
                      !.end = EndAfter(w, HeadPointer(tail))]
       ELSE IF cmp > 0 THEN [w EXCEPT !.kept = @ \o w.wait, !.wait = <<>>]
       ELSE [w EXCEPT !.kept = Append(@, seg), !.wait = tail]

\* The last case attaches the rest of the list behind new_retransmit_list and
\* the end of process_control_pdu detaches it again.
process_retransmit_list_head(w, nack, ack) ==
    LET seg  == Head(w.retx)
        tail == Tail(w.retx)
    IN IF Overlaps(seg, nack) THEN [w EXCEPT !.retx = tail, !.new = Append(@, seg)]
       ELSE IF Later(seg, nack) THEN [w EXCEPT !.at = "done_nack"]
       ELSE IF sn_compare_tx(Sn(seg), ack) < 0
       THEN [w EXCEPT !.retx = tail, !.out = Append(@, seg), !.bstatus = @ - PduSize(seg)]
       ELSE IF w.wait # <<>> THEN [w EXCEPT !.retx = tail, !.new = Append(@, seg)]
       ELSE [w EXCEPT !.retx = <<>>, !.at = "lists_over"]

RECURSIVE process_next_pdu(_, _, _)
process_next_pdu(w, nack, ack) ==
    IF w.at # "process_next_pdu" THEN w
    ELSE IF w.wait = <<>> /\ w.retx = <<>> THEN [w EXCEPT !.at = "lists_over"]
    ELSE process_next_pdu(IF WaitListFirst(w)
                          THEN process_wait_list_head(w, nack, ack)
                          ELSE process_retransmit_list_head(w, nack, ack),
                          nack, ack)

\* The checks that the NACKs increase and do not pass the ACK.
BadNack(w, nack, ack) ==
    \/ \E k \in 1 .. Len(w.prev) :
         LET cmp == sn_compare_tx(nack.sn, w.prev[k].sn)
         IN \/ cmp < 0
            \/ cmp = 0 /\ (w.prev[k].end = ToEnd \/ nack.start <= w.prev[k].end)
    \/ sn_compare_tx(nack.sn, ack) > 0

RECURSIVE process_range(_, _, _, _)
process_range(w, nack, i, ack) ==
    LET one == [sn |-> (nack.sn + i) % SnModulus,
                start |-> IF i = 0 THEN nack.start ELSE 0,
                end |-> IF i = nack.range - 1 THEN nack.end ELSE ToEnd]
        v == process_next_pdu([w EXCEPT !.at = "process_next_pdu"], one, ack)
    IN IF i = nack.range THEN [w EXCEPT !.at = "lists_over"]
       ELSE IF BadNack(w, one, ack) THEN [w EXCEPT !.at = "nacks_done"]
       ELSE IF v.at = "lists_over" THEN v
       ELSE process_range([v EXCEPT !.prev = <<one>>], nack, i + 1, ack)

\* One turn of while (e1), up to the stop of t_poll_retransmit for a NACK.
process_nack(w, nack, ack) ==
    LET v == process_range(w, nack, 0, ack)
        poll == /\ sn_compare_tx(nack.sn, poll_sn) <= 0
                /\ sn_compare_tx(poll_sn, (nack.sn + nack.range) % SnModulus) < 0
    IN IF w.at = "nacks_done" THEN w
       ELSE IF v.at = "nacks_done" THEN v
       ELSE [v EXCEPT !.stop = @ \/ poll]

\* Mutant of AckedLength: the SDU of ACK_SN itself counts as acknowledged.
AckedLength_inclusive(list, ack) ==
    Min({k \in 1 .. Len(list) : sn_compare_tx(Sn(list[k]), ack) > 0}
        \cup {Len(list) + 1}) - 1

\* The segments at the front of a list that the ACK covers.
AckedLength(list, ack) ==
    Min({k \in 1 .. Len(list) : sn_compare_tx(Sn(list[k]), ack) >= 0}
        \cup {Len(list) + 1}) - 1

\* nacks_done: what is left of both lists is freed up to the ACK.
process_ack(w, ack) ==
    LET a == AckedLength(w.wait, ack)
        r == AckedLength(w.retx, ack)
        atEnd == \E k \in 1 .. a : Pointer(w.wait[k]) = wait_end
    IN [w EXCEPT !.wait = SubSeq(@, a + 1, Len(@)),
                 !.retx = SubSeq(@, r + 1, Len(@)),
                 !.out = @ \o SubSeq(w.wait, 1, a) \o SubSeq(w.retx, 1, r),
                 !.end = IF atEnd THEN LastPointer(w.kept) ELSE @,
                 !.bstatus = @ - SumPduSizes(SubSeq(w.retx, 1, r))]

Walk(st) ==
    LET start == [kept |-> <<>>, wait |-> wait_list, new |-> <<>>,
                  retx |-> retransmit_list, end |-> Unset, bstatus |-> retx_bstatus,
                  out |-> <<>>, prev |-> <<>>, at |-> "process_next_pdu",
                  stop |-> sn_compare_tx(poll_sn, st.ack) < 0]
    IN process_ack(FoldLeft(LAMBDA w, nack : process_nack(w, nack, st.ack),
                            start, st.nacks),
                   st.ack)

\* Bytes of an SDU among some segments.
BytesOf(id, segs) == SumSizes(SelectSeq(segs, LAMBDA seg : seg.id = id))

\* free_count reached ref_count: sdu_successful_delivery was called.
acked(bytes) == {id \in 1 .. Len(submitted) : bytes[id] = submitted[id]}

\* Mutant of NextAck: the segments to be retransmitted are forgotten.
NextAck_no_retx(waitl, retxl, ack) ==
    LET sns == {tx_next % SnModulus, ack} \cup {Sn(l[1]) : l \in {waitl} \ {<<>>}}
    IN CHOOSE a \in sns : \A b \in sns : sn_compare_tx(a, b) <= 0

\* tx_next_ack: the smallest of tx_next, the heads of both lists and the ACK.
NextAck(waitl, retxl, ack) ==
    LET sns == {tx_next % SnModulus, ack}
                 \cup {Sn(l[1]) : l \in {waitl, retxl} \ {<<>>}}
    IN CHOOSE a \in sns : \A b \in sns : sn_compare_tx(a, b) <= 0

process_control_pdu(st) ==
    LET w     == Walk(st)
        waitl == w.kept \o w.wait
        retxl == w.new \o w.retx
        bytes == [id \in 1 .. MaxSdu |-> freed[id] + BytesOf(id, w.out)]
    IN /\ wait_list' = waitl
       /\ retransmit_list' = retxl
       /\ wait_end' = IF w.end = Unset THEN wait_end ELSE w.end
       /\ retx_bstatus' = w.bstatus
       /\ freed' = bytes
       /\ tx_size' = tx_size - MapThenSumSet(LAMBDA id : submitted[id],
                                             acked(bytes) \ acked(freed))
       /\ tx_next_ack' = NextAck(waitl, retxl, st.ack)
       /\ t_poll_retransmit_start' = IF w.stop THEN "off" ELSE t_poll_retransmit_start
       /\ status' = {}
       /\ UNCHANGED <<tx_list, poll_sn, pdu_without_poll, byte_without_poll,
                      force_poll, tx_bstatus, tx_next, submitted, withdrawn, rx_vars,
                      air, crashed>>

----------------------------------------------------------------------------
(* Receiver: comparisons and the questions asked of rx_list.               *)

modulus_rx(next, a) == (a - next) % SnModulus

sn_compare_rx(next, a, b) == modulus_rx(next, a) - modulus_rx(next, b)

sn_in_recv_window(next, sn) == modulus_rx(next, sn) < window_size

\* segment_already_received: what is left of bytes so .. so+size-1 after each
\* entry of the list; an entry in the middle of them is not seen.
segment_already_received(sn, so, size) ==
    LET Uncovered(r, e) ==
          IF r.size <= 0 \/ Sn(e) # sn THEN r
          ELSE IF e.so <= r.so /\ r.so < e.so + e.size
          THEN LET covered == e.size - (r.so - e.so)
               IN [so |-> r.so + covered, size |-> r.size - covered]
          ELSE IF e.so <= r.so + r.size - 1 /\ r.so + r.size - 1 < e.so + e.size
          THEN [r EXCEPT !.size = e.so - r.so]
          ELSE r
    IN FoldLeft(Uncovered, [so |-> so, size |-> size], rx_list).size <= 0

\* nr_rlc_pdu_list_add.
pdu_list_add(list, pdu) ==
    LET After == {k \in 1 .. Len(list) :
                    \/ sn_compare_rx(rx_next, Sn(list[k]), Sn(pdu)) > 0
                    \/ Sn(list[k]) = Sn(pdu) /\ list[k].so > pdu.so}
    IN InsertAt(list, Min(After \cup {Len(list) + 1}), pdu)

Segments(list, sn) == {k \in 1 .. Len(list) : Sn(list[k]) = sn}

\* End of the bytes held by the segments of the same SN before position k.
Reach(list, k) ==
    Max({0} \cup {list[j].so + list[j].size :
                    j \in {i \in Segments(list, Sn(list[k])) : i < k}})

HasData(list, sn) ==
    Segments(list, sn) # {} /\ list[Min(Segments(list, sn))].data

\* Mutant of sdu_full: the last segment is enough.
sdu_full_last(list, sn) ==
    /\ HasData(list, sn)
    /\ \E k \in Segments(list, sn) : list[k].last

sdu_full(list, sn) ==
    /\ HasData(list, sn)
    /\ \E k \in Segments(list, sn) :
         /\ list[k].last
         /\ \A j \in Segments(list, sn) : j <= k => list[j].so <= Reach(list, j)

sdu_delivered(list, sn) ==
    Segments(list, sn) # {} /\ ~list[Min(Segments(list, sn))].data

sdu_has_missing_bytes(list, sn) ==
    /\ HasData(list, sn)
    /\ \E k \in Segments(list, sn) : list[k].so > Reach(list, k)

\* The first SN from sn upwards that is not delivered.
FirstNotDelivered(list, sn) ==
    LET Up(d) == (sn + d) % SnModulus
    IN Up(Min({d \in 0 .. SnModulus : ~sdu_delivered(list, Up(d))}))

\* reassemble_and_deliver: a byte is taken from the first segment that reaches
\* it (0 stands for bytes of no segment); the segments lose their data.
Reassembled(list, sn) ==
    LET segs == Segments(list, sn)
        size == Max({list[k].so + list[k].size : k \in segs})
        From(b) == LET k == Min({i \in segs : list[i].so + list[i].size > b})
                   IN IF list[k].so <= b THEN list[k].id ELSE 0
    IN [ids |-> {From(b) : b \in 0 .. size - 1}, size |-> size]

Emptied(list, sn) ==
    [k \in 1 .. Len(list) |->
       IF Sn(list[k]) = sn THEN [list[k] EXCEPT !.data = FALSE] ELSE list[k]]

----------------------------------------------------------------------------
(* Receiver: data PDUs.                                                    *)

\* recv_pdu's early returns; a poll is answered all the same.
recv_pdu_discard(p) ==
    /\ \/ rx_size + p.size > RxMaxSize
       \/ ~sn_in_recv_window(rx_next, Sn(p))
       \/ segment_already_received(Sn(p), p.so, p.size)
    /\ air' = air \ {p}
    /\ status_triggered' = (status_triggered \/ p.p)
    /\ UNCHANGED <<tx_vars, rx_list, rx_size, rx_next, rx_next_highest,
                   rx_highest_status, rx_next_status_trigger, t_reassembly_start,
                   delivered, status, crashed>>

\* End of reception_actions: t_reassembly is stopped, then maybe started.
UpdateTimer(next, highest, list) ==
    LET trigger == rx_next_status_trigger
        after   == (next + 1) % SnModulus
        stop == \/ t_reassembly_start # "on"
                \/ trigger = next
                \/ trigger = after /\ ~sdu_has_missing_bytes(list, next)
                \/ /\ ~sn_in_recv_window(next, trigger)
                   /\ trigger # (next + window_size) % SnModulus
        start == /\ stop
                 /\ \/ sn_compare_rx(next, highest, after) > 0
                    \/ highest = after /\ sdu_has_missing_bytes(list, next)
    IN /\ t_reassembly_start' = IF stop /\ ~start THEN "off" ELSE "on"
       /\ rx_next_status_trigger' = IF start THEN highest ELSE trigger

\* recv_pdu of a PDU that is kept, with reception_actions.
recv_pdu_accept(p) ==
    LET sn   == Sn(p)
        pdu  == [id |-> p.id, n |-> p.n, so |-> p.so, size |-> p.size,
                 first |-> p.first, last |-> p.last, data |-> TRUE]
        list == pdu_list_add(rx_list, pdu)
        full == sdu_full(list, sn)
        done == IF full THEN Emptied(list, sn) ELSE list
        next == IF full /\ sn = rx_next THEN FirstNotDelivered(done, rx_next)
                                        ELSE rx_next
        kept == SelectSeq(done, LAMBDA e : sn_compare_rx(rx_next, Sn(e), next) >= 0)
        highest == IF sn_compare_rx(rx_next, sn, rx_next_highest) >= 0
                   THEN (sn + 1) % SnModulus ELSE rx_next_highest
    IN /\ rx_size + p.size <= RxMaxSize
       /\ sn_in_recv_window(rx_next, sn)
       /\ ~segment_already_received(sn, p.so, p.size)
       /\ air' = air \ {p}
       /\ delivered' = IF full THEN Append(delivered, Reassembled(list, sn))
                       ELSE delivered
       /\ rx_size' = rx_size + p.size
                       - (IF full
                          THEN SumSizes(SelectSeq(list, LAMBDA e : Sn(e) = sn)) ELSE 0)
       /\ rx_highest_status' = IF full /\ sn = rx_highest_status
                               THEN FirstNotDelivered(done, sn) ELSE rx_highest_status
       /\ rx_next' = next
       /\ rx_next_highest' = highest
       /\ rx_list' = kept
       /\ UpdateTimer(next, highest, kept)
       /\ status_triggered' = (status_triggered \/ p.p)
       /\ UNCHANGED <<tx_vars, status, crashed>>

\* check_t_reassembly when the timer has expired.
check_t_reassembly ==
    LET top   == FirstNotDelivered(rx_list, rx_next_status_trigger)
        after == (top + 1) % SnModulus
        again == \/ sn_compare_rx(rx_next, rx_next_highest, after) > 0
                 \/ rx_next_highest = after /\ sdu_has_missing_bytes(rx_list, top)
    IN /\ t_reassembly_start = "on"
       /\ rx_highest_status' = top
       /\ status_triggered' = TRUE
       /\ t_reassembly_start' = IF again THEN "on" ELSE "off"
       /\ rx_next_status_trigger' = IF again THEN rx_next_highest
                                    ELSE rx_next_status_trigger
       /\ UNCHANGED <<tx_vars, rx_list, rx_size, rx_next, rx_next_highest, delivered,
                      air, status, crashed>>

----------------------------------------------------------------------------
(* Receiver: STATUS PDUs.                                                  *)

InReport(sn) == sn_compare_rx(rx_next, rx_highest_status, sn) > 0

\* next_missing scans from entry k; of the SDU of entry j it has then seen the
\* bytes up to max_so, and maybe the last one.
max_so(k, j) ==
    Max({0} \cup {rx_list[i].so + rx_list[i].size - 1 :
                    i \in {i \in k .. j : Sn(rx_list[i]) = Sn(rx_list[j])}})

last_reached(k, j) ==
    \E i \in k .. j : Sn(rx_list[i]) = Sn(rx_list[j]) /\ rx_list[i].last

Continues(k, j) ==
    LET cur == rx_list[j + 1]
        sn  == Sn(rx_list[j])
    IN \/ Sn(cur) = sn /\ max_so(k, j) >= cur.so - 1
       \/ Sn(cur) = (sn + 1) % SnModulus /\ last_reached(k, j) /\ cur.first

\* The first byte not seen after entry j.
MissingStart(k, j) ==
    LET sn == Sn(rx_list[j])
    IN IF ~rx_list[j].data \/ last_reached(k, j)
       THEN [sn |-> (sn + 1) % SnModulus, so |-> 0]
       ELSE [sn |-> sn, so |-> max_so(k, j) + 1]

\* The missing part from start up to entry c, or up to rx_highest_status.
MissingTo(start, c) ==
    LET cur == rx_list[c]
        end == IF c = 0 THEN [sn |-> rx_highest_status, so |-> ToEnd]
               ELSE IF cur.first THEN [sn |-> (Sn(cur) - 1) % SnModulus, so |-> ToEnd]
               ELSE [sn |-> Sn(cur), so |-> cur.so - 1]
    IN IF InReport(end.sn) THEN [start |-> start, end |-> end, next |-> c]
       ELSE [start |-> start, next |-> 0,
             end |-> [sn |-> (rx_highest_status - 1) % SnModulus, so |-> ToEnd]]

\* Mutant of next_missing: what is missing before the first entry is not seen.
next_missing_no_head(k, check_head) ==
    LET j     == Min({i \in k .. Len(rx_list) - 1 : ~Continues(k, i)}
                     \cup {Len(rx_list)})
        start == MissingStart(k, j)
    IN IF InReport(start.sn)
       THEN <<MissingTo(start, IF j = Len(rx_list) THEN 0 ELSE j + 1)>> ELSE <<>>

\* The next missing part seen from entry k, or none; 0 is the end of the list.
next_missing(k, check_head) ==
    LET j     == Min({i \in k .. Len(rx_list) - 1 : ~Continues(k, i)}
                     \cup {Len(rx_list)})
        head  == check_head /\ (Sn(rx_list[k]) # rx_next \/ ~rx_list[k].first)
        start == IF head THEN [sn |-> rx_next, so |-> 0] ELSE MissingStart(k, j)
        c     == IF head THEN k ELSE IF j = Len(rx_list) THEN 0 ELSE j + 1
    IN IF InReport(start.sn) THEN <<MissingTo(start, c)>> ELSE <<>>

\* generate_missing: a missing part as NACKs of at most NackRange SNs.
Nacks(m) ==
    LET count == ((m.end.sn - m.start.sn) % SnModulus) + 1
        parts == (count - 1) \div NackRange + 1
    IN [i \in 1 .. parts |->
          [sn |-> (m.start.sn + (i - 1) * NackRange) % SnModulus,
           start |-> IF i = 1 THEN m.start.so ELSE 0,
           end |-> IF i = parts THEN m.end.so ELSE ToEnd,
           range |-> IF i = parts THEN count - (i - 1) * NackRange ELSE NackRange]]

nack_size(nack) ==
    2 + (IF LongSn THEN 1 ELSE 0)
      + (IF nack.start = 0 /\ nack.end = ToEnd THEN 0 ELSE 4)
      + (IF nack.range = 1 THEN 0 ELSE 1)

StatusSize(nacks) == 3 + FoldSeq(LAMBDA nack, sum : nack_size(nack) + sum, 0, nacks)

\* The NACKs that fit; if some do not, the last one is made to reach to the end.
Truncated(nacks, size) ==
    LET fit == Max({k \in 0 .. Len(nacks) : StatusSize(SubSeq(nacks, 1, k)) <= size})
    IN IF fit = 0 \/ fit = Len(nacks) THEN SubSeq(nacks, 1, fit)
       ELSE [SubSeq(nacks, 1, fit) EXCEPT ![fit].end = ToEnd]

RECURSIVE AllNacks(_, _)
AllNacks(k, check_head) ==
    IF k = 0 THEN <<>>
    ELSE LET m == next_missing(k, check_head)
         IN IF m = <<>> THEN <<>> ELSE Nacks(m[1]) \o AllNacks(m[1].next, FALSE)

\* The STATUS PDU for a grant; the ACK is the SN after the last NACK.
StatusPdu(size) ==
    LET nacks == Truncated(AllNacks(IF rx_list = <<>> THEN 0 ELSE 1, TRUE), size)
    IN [ack |-> IF nacks = <<>> THEN rx_next
                ELSE (Last(nacks).sn + Last(nacks).range) % SnModulus,
        nacks |-> nacks]

\* generate_status.  A STATUS PDU still in flight is lost; t_status_prohibit
\* only delays the next one.
generate_status(size) ==
    /\ status_triggered
    /\ size >= 3
    /\ status' = {StatusPdu(size)}
    /\ status_triggered' = FALSE
    /\ UNCHANGED <<tx_vars, rx_list, rx_size, rx_next, rx_next_highest,
                   rx_highest_status, rx_next_status_trigger, t_reassembly_start,
                   delivered, air, crashed>>

----------------------------------------------------------------------------
\* clear_entity on both sides; the MAC is reset with them.
reestablishment ==
    /\ tx_list' = <<>> /\ wait_list' = <<>> /\ retransmit_list' = <<>>
    /\ wait_end' = NoSegment
    /\ tx_next' = 0 /\ tx_next_ack' = 0 /\ poll_sn' = 0
    /\ pdu_without_poll' = 0 /\ byte_without_poll' = 0 /\ force_poll' = FALSE
    /\ t_poll_retransmit_start' = "off"
    /\ tx_size' = 0 /\ tx_bstatus' = 0 /\ retx_bstatus' = 0
    /\ withdrawn' = withdrawn \cup (1 .. Len(submitted) \ acked(freed))
    /\ rx_list' = <<>> /\ rx_size' = 0
    /\ rx_next' = 0 /\ rx_next_highest' = 0 /\ rx_highest_status' = 0
    /\ rx_next_status_trigger' = 0 /\ status_triggered' = FALSE
    /\ t_reassembly_start' = "off"
    /\ air' = {} /\ status' = {}
    /\ UNCHANGED <<submitted, freed, delivered, crashed>>

\* A pair of entities that sent s SDUs, one after the other and without loss.
Init ==
    /\ tx_list = <<>> /\ wait_list = <<>> /\ retransmit_list = <<>>
    /\ wait_end = NoSegment
    /\ \E s \in StartSn :
         /\ tx_next = s /\ tx_next_ack = s /\ poll_sn = IF s = 0 THEN 0 ELSE s - 1
         /\ rx_next = s /\ rx_next_highest = s /\ rx_highest_status = s
    /\ pdu_without_poll = 0 /\ byte_without_poll = 0 /\ force_poll = FALSE
    /\ t_poll_retransmit_start = "off"
    /\ tx_size = 0 /\ tx_bstatus = 0 /\ retx_bstatus = 0
    /\ submitted = <<>> /\ withdrawn = {} /\ freed = [id \in 1 .. MaxSdu |-> 0]
    /\ rx_list = <<>> /\ rx_size = 0 /\ rx_next_status_trigger = 0
    /\ status_triggered = FALSE /\ t_reassembly_start = "off"
    /\ delivered = <<>> /\ air = {} /\ status = {} /\ crashed = FALSE

Next ==
    /\ ~crashed
    /\ \/ \E size \in SduSize : recv_sdu(size)
       \/ \E size \in Grant :
            \/ generate_retx_pdu(size)
            \/ generate_tx_pdu(size)
            \/ generate_pdu_crash(size)
       \/ \E id \in 1 .. Len(submitted) : discard_sdu(id)
       \/ check_t_poll_retransmit
       \/ check_t_poll_retransmit_crash
       \/ \E st \in status : process_control_pdu(st)
       \/ \E p \in air : recv_pdu_discard(p) \/ recv_pdu_accept(p)
       \/ check_t_reassembly
       \/ \E size \in StatusGrant : generate_status(size)
       \/ reestablishment

Spec == Init /\ [][Next]_vars

----------------------------------------------------------------------------
(* Properties.                                                             *)

\* What deliver_sdu gets is one SDU as it was submitted: all its bytes, and no
\* byte of another SDU, whatever was lost, resegmented or retransmitted.
DeliveredWhole ==
    \A k \in 1 .. Len(delivered) :
      \E id \in 1 .. Len(submitted) :
        delivered[k] = [ids |-> {id}, size |-> submitted[id]]

\* deliver_sdu is called at most once for an SDU, although segments of it may
\* still come after it was delivered.
DeliveredOnce ==
    \A j, k \in 1 .. Len(delivered) :
      delivered[j].ids = delivered[k].ids => j = k

\* deliver_sdu gets SDUs as they were submitted, each at most once.
DeliveredOnceWhole == DeliveredWhole /\ DeliveredOnce

IsDelivered(id) == \E k \in 1 .. Len(delivered) : id \in delivered[k].ids

\* sdu_successful_delivery is called only for SDUs the peer has delivered.
AckedDelivered == \A id \in acked(freed) : IsDelivered(id)

Holds(list, id, b) ==
    \E k \in 1 .. Len(list) :
      list[k].id = id /\ list[k].so <= b /\ b < list[k].so + list[k].size

\* Every byte of an accepted SDU that the peer has not got is in one of the
\* three lists of the transmitter, and in only one.
NothingLost ==
    \A id \in 1 .. Len(submitted) \ withdrawn : \A b \in 0 .. submitted[id] - 1 :
      LET places == {l \in {1, 2, 3} :
                       Holds(<<tx_list, wait_list, retransmit_list>>[l], id, b)}
      IN /\ Cardinality(places) <= 1
         /\ places = {} => IsDelivered(id) \/ Holds(rx_list, id, b)

Ordered(list) ==
    \A k \in 1 .. Len(list) - 1 :
      \/ list[k].n < list[k + 1].n
      \/ list[k].n = list[k + 1].n /\ list[k].so < list[k + 1].so

\* wait_list and retransmit_list stay sorted, without repetition, while the
\* base of the comparison moves.
ListsOrdered == Ordered(wait_list) /\ Ordered(retransmit_list)

\* rx_next <= rx_highest_status <= rx_next_highest <= rx_next + window_size,
\* and the transmitter's window never passes the receiver's.
WindowsOrdered ==
    /\ sn_compare_rx(rx_next, rx_highest_status, rx_next_highest) <= 0
    /\ modulus_rx(rx_next, rx_next_highest) <= window_size
    /\ (rx_next - tx_next_ack) % SnModulus <= window_size
    /\ (tx_next - tx_next_ack) % SnModulus <= window_size
    /\ {tx_next_ack, poll_sn, rx_next, rx_next_highest, rx_highest_status,
        rx_next_status_trigger} \subseteq SN

\* The lists of segments and the window they are ordered by fit together.
OrderKept == ListsOrdered /\ WindowsOrdered

\* A transmitter whose segments all wait for an acknowledgment has a poll
\* outstanding: t_poll_retransmit was started, so it will act again.  (After a
\* discard_sdu that empties tx_list it may not: no poll was sent, nor will be.)
PollOutstanding ==
    wait_list # <<>> /\ tx_list = <<>> /\ retransmit_list = <<>> /\ withdrawn = {}
    => t_poll_retransmit_start = "on" \/ force_poll

\* The buffer status is what the waiting segments need, headers included, and
\* tx_size is the size of the SDUs not yet acknowledged; neither buffer
\* outgrows its limit.
SizesExact ==
    /\ tx_bstatus = SumPduSizes(tx_list)
    /\ retx_bstatus = SumPduSizes(retransmit_list)
    /\ tx_size = MapThenSumSet(LAMBDA id : submitted[id],
                               1 .. Len(submitted) \ (withdrawn \cup acked(freed)))
    /\ rx_size = SumSizes(SelectSeq(rx_list, LAMBDA e : e.data))
    /\ tx_size <= TxMaxSize /\ rx_size <= RxMaxSize

\* A STATUS PDU with room for everything NACKs, below its ACK, exactly the
\* bytes that were not received.
StatusExact ==
    LET st == StatusPdu(1000)
        Nacked(sn, b) ==
          \E k \in 1 .. Len(st.nacks) :
            LET nack == st.nacks[k]
                i == (sn - nack.sn) % SnModulus
            IN /\ i < nack.range
               /\ i = 0 => nack.start <= b
               /\ i = nack.range - 1 => nack.end = ToEnd \/ b <= nack.end
        Missing(sn, b) ==
          \A k \in Segments(rx_list, sn) :
            /\ ~(rx_list[k].so <= b /\ b < rx_list[k].so + rx_list[k].size)
            /\ ~(rx_list[k].last /\ rx_list[k].so + rx_list[k].size <= b)
    IN \A sn \in SN : \A b \in 0 .. Max(SduSize) :
         sn_compare_rx(rx_next, sn, st.ack) < 0 => (Nacked(sn, b) <=> Missing(sn, b))
=============================================================================
