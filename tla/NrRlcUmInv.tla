----------------------------- MODULE NrRlcUmInv -----------------------------
(***************************************************************************)
(* The inductive invariants of the UM entities: the reassembly window, the *)
(* place of every byte of an SDU, and the bytes the two buffers count.     *)
(***************************************************************************)
EXTENDS NrRlcUm

-----------------------------------------------------------------------------
(* Arithmetic modulo SnModulus.                                            *)

(* The count in the window at h of an SN.                                  *)
CountOf(h, v) == h - window_size + modulus_rx(h % SnModulus, v)

-----------------------------------------------------------------------------
(* The reassembly list.                                                    *)

Entry == [id : Nat, n : Nat, sn : SN, so : Nat, size : Nat,
          last : BOOLEAN, data : BOOLEAN]

\* Ordered by SN, then by SO.
Sorted(list) ==
    \A i, j \in 1 .. Len(list) :
      i < j => \/ list[i].n < list[j].n
               \/ list[i].n = list[j].n /\ list[i].so <= list[j].so

\* A delivered SDU has lost its data at offset 0 ...
Marked(list) ==
    \A j \in 1 .. Len(list) :
      ~list[j].data => \E i \in 1 .. Len(list) :
                         /\ list[i].n = list[j].n
                         /\ list[i].so = 0 /\ ~list[i].data

\* ... and every entry before that one.
MarkedFirst(list) ==
    \A i, j \in 1 .. Len(list) :
      i < j /\ list[i].n = list[j].n /\ list[j].so = 0 /\ ~list[j].data
      => ~list[i].data

\* The counts are in lo .. hi - 1 and the SNs are their residues.
Within(list, lo, hi) ==
    \A k \in 1 .. Len(list) :
      /\ list[k].sn = list[k].n % SnModulus
      /\ lo <= list[k].n /\ list[k].n < hi

ListOK(list, lo, hi) ==
    /\ list \in Seq(Entry)
    /\ Within(list, lo, hi) /\ Sorted(list)
    /\ Marked(list) /\ MarkedFirst(list)

\* The SDU of count n has been delivered and left its mark.
Deliv(list, n) == \E j \in 1 .. Len(list) : list[j].n = n /\ ~list[j].data

\* What is at position k once e is put at position i of the list.
Inserted(list, i, e, k) ==
    IF k < i THEN list[k] ELSE IF k = i THEN e ELSE list[k - 1]

\* The new list holds the entries of the old one, and e.
Adds(list, e, new) ==
    /\ \A k \in 1 .. Len(new) :
         new[k] = e \/ \E j \in 1 .. Len(list) : new[k] = list[j]
    /\ \A j \in 1 .. Len(list) : \E k \in 1 .. Len(new) : new[k] = list[j]
    /\ \E k \in 1 .. Len(new) : new[k] = e

\* What is left of a list once its counts below c are dropped.
Drops(list, c, kept) ==
    /\ \A k \in 1 .. Len(kept) :
         kept[k].n >= c /\ \E j \in 1 .. Len(list) : kept[k] = list[j]
    /\ \A m \in Int : m >= c => (Deliv(kept, m) <=> Deliv(list, m))

\* The entries of the count n are marked, the others are as in the list.
MarksAll(list, n, after) ==
    /\ Len(after) = Len(list)
    /\ \A k \in 1 .. Len(list) :
         /\ after[k].id = list[k].id /\ after[k].n = list[k].n
         /\ list[k].n = n => ~after[k].data
         /\ list[k].n # n => after[k] = list[k]
    /\ \A m : Deliv(after, m) <=> (Deliv(list, m) \/ m = n)

-----------------------------------------------------------------------------
(* The receiver.                                                           *)

PduOK(p) ==
    /\ p.id \in Nat /\ p.n \in Nat /\ p.so \in Nat /\ p.size \in Nat
    /\ p.first \in BOOLEAN /\ p.last \in BOOLEAN
    /\ p.sn = p.n % SnModulus
    /\ p.first <=> p.so = 0

\* r is the first count still to be delivered.
NextOK(list, r) ==
    /\ ~Deliv(list, r)
    /\ \A k \in 1 .. Len(list) : list[k].n < r => Deliv(list, list[k].n)

\* The window at the count h, with the variables of the receiver.
RecvOK(h, highest, next, trigger, timer, list) ==
    /\ h \in Nat /\ highest = h % SnModulus /\ next \in SN /\ trigger \in SN
    /\ timer \in {"off", "on"}
    /\ ListOK(list, h - window_size, h)
    /\ CountOf(h, next) <= h
    /\ NextOK(list, CountOf(h, next))
    /\ timer = "on" => /\ CountOf(h, next) <= CountOf(h, trigger)
                       /\ CountOf(h, trigger) <= h
    /\ ReassemblyGap(highest, next, list) /\ next # SnModulus - 1 => timer = "on"

RecvInv == RecvOK(high, rx_next_highest, rx_next_reassembly, rx_timer_trigger,
                  t_reassembly_start, rx_list)

\* The count of rx_next_reassembly.
NextCount == CountOf(high, rx_next_reassembly)

AirOK == \A p \in air : PduOK(p)

\* What is true of the list when recv_pdu_completes has added the segment.
Completed(p, list) ==
    /\ ListOK(list, high - window_size, high)
    /\ Adds(rx_list, Received(p), list)
    /\ \A m : Deliv(list, m) <=> Deliv(rx_list, m)
    /\ sdu_full(list, p.sn)
    /\ delivered' = Append(delivered, Reassembled(list, p.sn))
    /\ MarksAll(list, p.n, rx_list')

-----------------------------------------------------------------------------
(* The transmitter.                                                        *)

Waiting == [id : Nat, so : Nat, size : Nat, first : BOOLEAN, last : BOOLEAN]

\* The segments of a list end where their SDUs end, and only the first of them
\* may have lost its front.
Segs(list, sub) ==
    \A k \in 1 .. Len(list) :
      /\ list[k].last /\ list[k].size >= 1
      /\ list[k].first <=> list[k].so = 0
      /\ list[k].id \in 1 .. Len(sub)
      /\ list[k].so + list[k].size = sub[list[k].id]
      /\ k >= 2 => list[k].first

Increasing(list) ==
    \A i, j \in 1 .. Len(list) : i < j => list[i].id < list[j].id

TxShape(list, sub) == list \in Seq(Waiting) /\ Segs(list, sub) /\ Increasing(list)

SendInv == /\ tx_next \in Nat /\ submitted \in Seq(Nat)
           /\ TxShape(tx_list, submitted) /\ AirOK

\* The front of a segment is what is cut off it, the rest keeps at least a byte.
CutOf(seg, cut, rest) ==
    /\ cut.id = seg.id /\ cut.so = seg.so /\ cut.first = seg.first
    /\ cut.last = FALSE /\ cut.size \in Nat /\ cut.size < seg.size
    /\ rest \in Waiting /\ rest.id = seg.id /\ rest.first = FALSE
    /\ rest.last = seg.last /\ rest.so = seg.so + cut.size
    /\ rest.size = seg.size - cut.size

\* The head of a list is replaced by what is left of it.
Replaced(list, rest, new) ==
    /\ Len(new) = Len(list) /\ new[1] = rest /\ new # <<>>
    /\ \A i \in 1 .. Len(list) : new[i].id = list[i].id

-----------------------------------------------------------------------------
(* The window, for every behaviour.                                        *)

WInv == SendInv /\ RecvInv

\* What a step that receives and delivers nothing does to the receiver: nothing,
\* or entries are dropped below rx_next_reassembly, or the segment p is added
\* first.
Receives(p) ==
    /\ NextCount <= NextCount'
    /\ \E list : /\ list = rx_list \/ Adds(rx_list, Received(p), list)
                 /\ \A m : Deliv(list, m) <=> Deliv(rx_list, m)
                 /\ \/ rx_list' = list
                    \/ \E c \in Int : Drops(list, c, rx_list') /\ c <= NextCount'
    /\ UNCHANGED <<tx_vars, delivered>>

-----------------------------------------------------------------------------
(* What reassemble_and_deliver makes of the segments of one SDU.           *)

\* What a full SDU has in the list: nothing marked, a start, and an end that is
\* reached without a gap.
FullShape(list, n) ==
    /\ ~Deliv(list, n)
    /\ \E i \in 1 .. Len(list) : list[i].n = n /\ list[i].so = 0
    /\ \E k \in 1 .. Len(list) :
         /\ list[k].n = n /\ list[k].last
         /\ \A j \in 1 .. Len(list) :
              list[j].n = n /\ j <= k => list[j].so <= Reach(list, j)

\* The entries of the count n are segments of one SDU of s bytes.
OneSdu(list, n, id, s) ==
    \A k \in 1 .. Len(list) : list[k].n = n =>
      /\ list[k].id = id /\ list[k].size >= 1
      /\ list[k].so + list[k].size <= s
      /\ list[k].last <=> list[k].so + list[k].size = s

-----------------------------------------------------------------------------
(* Where the bytes of an SDU are, from its submission to its delivery.     *)

Whole(p) == p.first /\ p.last

WholeInAir(id) == \E p \in air : Whole(p) /\ p.id = id

\* A segment of the SDU is under way, or in the list, with the count n.
Tagged(id, n) ==
    \/ \E p \in air : ~Whole(p) /\ p.id = id /\ p.n = n
    \/ \E k \in 1 .. Len(rx_list) : rx_list[k].id = id /\ rx_list[k].n = n

\* These bytes of the SDU are under way, or in the list with their data.
Held(id, so, size, last) ==
    \/ \E p \in air : p.id = id /\ p.so = so /\ p.size = size /\ p.last = last
    \/ \E k \in 1 .. Len(rx_list) :
         /\ rx_list[k].data /\ rx_list[k].id = id /\ rx_list[k].so = so
         /\ rx_list[k].size = size /\ rx_list[k].last = last

HandedUp(id) == \E k \in 1 .. Len(delivered) : delivered[k].ids = {id}

Live(id) == id \in 1 .. Len(submitted) /\ id \notin withdrawn

\* The SDU has left the transmitter.
Past(list, id) == \A k \in 1 .. Len(list) : id < list[k].id

\* A count in use is below tx_next, or is the one of the SDU being sent.
Placed(id, n, list, next) ==
    \/ n < next /\ Past(list, id)
    \/ n = next /\ list # <<>> /\ id = list[1].id /\ ~list[1].first

\* The bytes are ones of the SDU, and not of what still waits of it.
BytesOK(id, so, size, last, list, sub) ==
    /\ id \in 1 .. Len(sub) /\ size >= 1 /\ so + size <= sub[id]
    /\ last <=> so + size = sub[id]
    /\ list # <<>> /\ list[1].id = id => so + size <= list[1].so

WaitingLive ==
    /\ withdrawn \subseteq 1 .. Len(submitted)
    /\ \A k \in 1 .. Len(tx_list) : tx_list[k].id \notin withdrawn

TagsPlaced ==
    \A id, n : Tagged(id, n) => Live(id) /\ Placed(id, n, tx_list, tx_next)

TagsAgree ==
    \A i, j, m, n : Tagged(i, m) /\ Tagged(j, n) => (i = j <=> m = n)

BytesHeld ==
    \A id, so, size, last :
      Held(id, so, size, last) => BytesOK(id, so, size, last, tx_list, submitted)

WholesOnce ==
    /\ \A id : WholeInAir(id) => /\ Live(id) /\ Past(tx_list, id) /\ ~HandedUp(id)
                                 /\ \A n : ~Tagged(id, n)
    /\ \A p, q \in air : Whole(p) /\ Whole(q) /\ p.id = q.id => p = q

HandedUpMarked ==
    /\ delivered \in Seq([ids : SUBSET Nat, size : Nat])
    /\ \A id : HandedUp(id) => Past(tx_list, id)
    /\ \A id, n : Tagged(id, n) /\ HandedUp(id)
                  => n < NextCount \/ Deliv(rx_list, n)

\* Every SDU is at one place, and known to be delivered once it is.
TrackInv ==
    /\ WInv /\ WaitingLive /\ TagsPlaced /\ TagsAgree /\ BytesHeld
    /\ WholesOnce /\ HandedUpMarked /\ DeliveredOnceWhole

\* The entries of a list that come from rx_list or from a segment under way.
Known(list) ==
    \A k \in 1 .. Len(list) :
      \/ \E j \in 1 .. Len(rx_list) : list[k] = rx_list[j]
      \/ \E p \in air : PduOK(p) /\ ~Whole(p) /\ list[k] = Received(p)

\* generate_tx_pdu sends p, the head of tx_list or the front of it; next and
\* list are tx_next and tx_list afterwards.
Sends(p, next, list) ==
    /\ tx_list # <<>> /\ PduOK(p) /\ p.id = tx_list[1].id /\ p.n = tx_next
    /\ air' = air \cup {p}
    /\ BytesOK(p.id, p.so, p.size, p.last, list, submitted)
    /\ \A k \in 1 .. Len(list) : \E j \in 1 .. Len(tx_list) : list[k].id = tx_list[j].id
    /\ IF Whole(p) THEN tx_list[1].first /\ Past(list, p.id)
       ELSE Placed(p.id, tx_next, list, next)
    /\ \A id, n : Tagged(id, n) => Placed(id, n, list, next)
    /\ \A id, so, size, last : Held(id, so, size, last)
         => BytesOK(id, so, size, last, list, submitted)

\* The prefix sums of v up to n.
Sums(f, v, n) ==
    /\ f \in [0 .. n -> Int] /\ f[0] = 0
    /\ \A k \in 1 .. n : f[k] = f[k - 1] + v[k]

\* A sequence of numbers, and one that has a more at place i.
Numbers(v, n) == v \in Seq(Int) /\ n = Len(v)

-----------------------------------------------------------------------------
(* The bytes of the buffers.                                               *)

Sizes(list) == [k \in 1 .. Len(list) |-> list[k].size]

PduSizes(list) == [k \in 1 .. Len(list) |-> PduSize(list[k])]

Sized(list) ==
    /\ Len(list) \in Nat
    /\ \A k \in 1 .. Len(list) : list[k].size \in Nat

\* new holds the elements of list, and one more at the place i.
Gains(list, new, i) ==
    /\ i \in 1 .. Len(list) + 1 /\ Len(new) = Len(list) + 1
    /\ \A k \in 1 .. Len(list) + 1 : new[k] = Inserted(list, i, new[i], k)

TxSizes ==
    /\ bstatus = Total(PduSizes(tx_list))
    /\ tx_size \in Int /\ SumSizes(tx_list) <= tx_size /\ tx_size <= TxMaxSize

RxSizes ==
    /\ rx_size \in Int /\ SumSizes(rx_list) <= rx_size /\ rx_size <= RxMaxSize

SizeInv == WInv /\ TxSizes /\ RxSizes

-----------------------------------------------------------------------------
(* What the steps of the two entities do.                                  *)

\* recv_pdu on a segment inside the window adds it to the list.
PduInside(p) ==
    /\ RecvInv' /\ NextCount' = NextCount /\ NextCount <= p.n
    /\ Adds(rx_list, Received(p), rx_list')
    /\ \A m : Deliv(rx_list', m) <=> Deliv(rx_list, m)

\* recv_pdu on the segment that completes an SDU.
PduCompletes(p) ==
    /\ RecvInv' /\ NextCount <= NextCount' /\ NextCount <= p.n
    /\ high - window_size <= p.n /\ p.n < high
    /\ \E list : Completed(p, list)
    /\ \A m : Deliv(rx_list', m) <=> (Deliv(rx_list, m) \/ m = p.n)

\* recv_pdu on a segment above the window moves the window.
PduMovesWindow(p) ==
    /\ RecvInv' /\ NextCount <= NextCount' /\ high <= p.n
    /\ \E list : /\ Adds(rx_list, Received(p), list)
                 /\ \A m : Deliv(list, m) <=> Deliv(rx_list, m)
                 /\ \E c \in Int : Drops(list, c, rx_list') /\ c <= NextCount'

\* check_t_reassembly moves rx_next_reassembly past the gap.
WindowChecked ==
    /\ RecvInv' /\ NextCount <= NextCount'
    /\ \E c \in Int : Drops(rx_list, c, rx_list') /\ c <= NextCount'

\* recv_sdu queues one SDU at the end of tx_list.
SduAccepted ==
    /\ SendInv' /\ Len(submitted') = Len(submitted) + 1
    /\ \A id \in 1 .. Len(submitted) : submitted'[id] = submitted[id]
    /\ Len(tx_list') = Len(tx_list) + 1
    /\ \A k \in 1 .. Len(tx_list) : tx_list'[k] = tx_list[k]
    /\ tx_list'[Len(tx_list) + 1].id = Len(submitted) + 1
    /\ tx_list'[Len(tx_list) + 1].first = TRUE

\* generate_tx_pdu sends the rest of the head of tx_list.
WholeSent ==
    /\ SendInv' /\ tx_list # <<>> /\ tx_list' = Tail(tx_list)
    /\ air' = air \cup {serialize_sdu(Head(tx_list))}
    /\ tx_next' = IF Head(tx_list).first THEN tx_next ELSE tx_next + 1
    /\ PduOK(serialize_sdu(Head(tx_list)))

\* generate_tx_pdu cuts the head of tx_list.
SegmentSent ==
    /\ SendInv' /\ tx_list # <<>> /\ tx_next' = tx_next
    /\ Len(tx_list') = Len(tx_list) /\ tx_list' # <<>>
    /\ \A k \in 1 .. Len(tx_list) : tx_list'[k].id = tx_list[k].id
    /\ tx_list'[1].first = FALSE
    /\ \E p : /\ air' = air \cup {p} /\ PduOK(p)
              /\ p.id = tx_list[1].id /\ p.n = tx_next /\ p.last = FALSE
              /\ p.size >= 1 /\ p.so = tx_list[1].so
              /\ p.so + p.size = tx_list'[1].so
              /\ p.so + p.size < submitted[p.id]

\* generate_tx_pdu finds no room for the header and a byte.
HeadDropped ==
    /\ SendInv' /\ tx_list # <<>> /\ tx_list' = Tail(tx_list)
    /\ tx_list[1].first

\* discard_sdu removes an SDU of which nothing was sent.
SduDiscarded(id) ==
    /\ SendInv'
    /\ \E k \in 1 .. Len(tx_list) :
         tx_list[k].id = id /\ tx_list[k].first /\ tx_list' = RemoveAt(tx_list, k)

ReceiverEffects ==
    /\ \A p : PduOK(p) /\ recv_pdu_inside(p) => PduInside(p)
    /\ \A p : PduOK(p) /\ recv_pdu_completes(p) => PduCompletes(p)
    /\ \A p : PduOK(p) /\ recv_pdu_moves_window(p) => PduMovesWindow(p)
    /\ check_t_reassembly => WindowChecked

SenderEffects ==
    /\ \A size \in SduSize : recv_sdu(size) => SduAccepted
    /\ \A size \in Grant : generate_tx_pdu_whole(size) => WholeSent
    /\ \A size \in Grant : generate_tx_pdu_cut(size) => SegmentSent
    /\ \A size \in Grant : generate_tx_pdu_no_room(size) => HeadDropped
    /\ \A id : discard_sdu(id) => SduDiscarded(id)

\* Every set of natural numbers that is not empty has a least element.
Least == \A S \in SUBSET Nat : S # {} => \E x \in S : \A y \in S : x <= y
=============================================================================
