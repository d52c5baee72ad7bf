------------------------------- MODULE NrPdcp -------------------------------
(***************************************************************************)
(* One direction of a PDCP radio bearer: the transmit side of one entity   *)
(* (nr_pdcp_entity_recv_sdu), the receive side of its peer                 *)
(* (nr_pdcp_entity_recv_pdu, check_t_reordering) and, between them, the    *)
(* lower layers, which may lose, duplicate and reorder PDUs.               *)
(*                                                                         *)
(* Every entry point runs under the PDCP manager lock, so each one is a    *)
(* step.  A PDU carries the SN only; the count and the id below are ghosts *)
(* (the COUNT the sender ciphered with, and the SDU inside).  Header       *)
(* layout, key material and sizes are abstracted; the early returns for    *)
(* PDUs too short to hold a header change nothing and are stuttering.      *)
(***************************************************************************)
EXTENDS Integers, Sequences, FiniteSets

CONSTANTS
    SnModulus,      \* 2^sn_size
    HfnModulus,     \* COUNT is SnModulus * HfnModulus wide (2^32 in the code)
    IntModulus,     \* 2^32, the width of the int that stores a timer's start
    t_reordering,   \* ms; -1 is infinity
    StartCounts,    \* the COUNTs at which the model picks the bearer up
    MaxTx,          \* bound: the COUNT of the last SDU submitted, plus one
    MaxInFlight,    \* bound: PDUs in the lower layers
    FirstTick,      \* the clock values the first set_time may bring
    MaxTick         \* bound: ms between two calls of set_time

CountModulus == SnModulus * HfnModulus
window_size == SnModulus \div 2

ASSUME WidthAssumption ==
    /\ window_size \in Nat \ {0}
    /\ SnModulus = 2 * window_size
    /\ HfnModulus \in Nat \ {0}

\* A COUNT is never used twice: the keys are changed before it wraps.
ASSUME CountAssumption == /\ MaxTx \in Nat /\ MaxTx < CountModulus
                          /\ StartCounts \subseteq 0..MaxTx
                          /\ MaxInFlight \in Nat

ASSUME TimeAssumption ==
    /\ IntModulus \in Nat \ {0, 1}
    /\ t_reordering \in Nat \cup {-1}
    /\ FirstTick \subseteq Nat \ {0}
    /\ MaxTick \in Nat \ {0}

VARIABLES
    tx_next,
    channel,             \* PDUs the lower layers hold
    rx_next, rx_deliv, rx_reord,
    rx_list,             \* the SDUs received and not delivered
    t_current,
    t_reordering_start,  \* 0: the timer is not active
    delivered            \* the SDUs handed to deliver_sdu, in order (history)

vars == <<tx_next, channel, rx_next, rx_deliv, rx_reord, rx_list, t_current,
          t_reordering_start, delivered>>

PDU == [sn : 0..SnModulus - 1, count : 0..MaxTx - 1]
SDU == [count : 0..CountModulus - 1, id : 0..MaxTx - 1]

-----------------------------------------------------------------------------
(* nr_pdcp_sdu.c and the loops over rx_list.                                 *)

Min(S) == CHOOSE i \in S : \A j \in S : i <= j

\* Where in the list a loop that stops at the first element of S stops.
StopAt(list, S) == Min(S \cup {Len(list) + 1})

\* Mutant of InList: duplicates are not looked for.
InList_never(list, count) == FALSE

InList(list, count) == \E i \in DOMAIN list : list[i].count = count

\* Mutant of ListAdd: the list is kept in the order of arrival.
ListAdd_append(list, sdu) == Append(list, sdu)

\* The new element goes before the first one with a greater count.
ListAdd(list, sdu) ==
    LET i == StopAt(list, {k \in DOMAIN list : sdu.count < list[k].count})
    IN  SubSeq(list, 1, i - 1) \o <<sdu>> \o SubSeq(list, i, Len(list))

\* Mutant of ConsecutiveFrom: an "if" instead of the "while".
ConsecutiveFrom_once(list, count) ==
    IF list # <<>> /\ list[1].count = count THEN 1 ELSE 0

\* How many elements the loop "while rx_list != NULL && count ==
\* rx_list->count" consumes, count being incremented for each.
ConsecutiveFrom(list, count) ==
    StopAt(list, {k \in DOMAIN list : list[k].count # count + k - 1}) - 1

\* How many elements "while rx_list != NULL && rx_list->count < count" consumes.
Below(list, count) ==
    StopAt(list, {k \in DOMAIN list : ~(list[k].count < count)}) - 1

Take(list, n) == SubSeq(list, 1, n)
Drop(list, n) == SubSeq(list, n + 1, Len(list))

-----------------------------------------------------------------------------
(* The COUNT of a received PDU: the HFN is guessed from the distance between *)
(* the received SN and the SN of rx_deliv.                                   *)

\* Mutant of rcvd_count: ">" for ">=" at the upper edge of the window.
rcvd_count_edge(deliv, sn) ==
    LET deliv_sn  == deliv % SnModulus
        deliv_hfn == deliv \div SnModulus
        hfn == IF sn < deliv_sn - window_size THEN deliv_hfn + 1
               ELSE IF sn > deliv_sn + window_size THEN deliv_hfn - 1
               ELSE deliv_hfn
    IN  (hfn * SnModulus + sn) % CountModulus

rcvd_count(deliv, sn) ==
    LET deliv_sn  == deliv % SnModulus
        deliv_hfn == deliv \div SnModulus
        hfn == IF sn < deliv_sn - window_size THEN deliv_hfn + 1
               ELSE IF sn >= deliv_sn + window_size THEN deliv_hfn - 1
               ELSE deliv_hfn
    IN  (hfn * SnModulus + sn) % CountModulus

\* uint64_t t_current stored in an int.
ToInt(t) ==
    LET r == t % IntModulus
    IN  IF r >= IntModulus \div 2 THEN r - IntModulus ELSE r

\* t_reordering_start + t_reordering is an addition of two ints: when it
\* overflows the build may wrap it or do it in 64 bits.
Deadlines ==
    LET sum == t_reordering_start + t_reordering
    IN  {sum, ToInt(sum)}

\* The comparison is unsigned: a negative deadline is beyond any clock value.
Expired(now, deadline) == deadline >= 0 /\ now > deadline

-----------------------------------------------------------------------------
\* new_nr_pdcp_entity gets the entity from calloc: every variable is 0.  A
\* bearer that has delivered c SDUs in order differs in these counters only.
Init ==
    /\ tx_next \in StartCounts
    /\ channel = {}
    /\ rx_next = tx_next
    /\ rx_deliv = tx_next
    /\ rx_reord = 0
    /\ rx_list = <<>>
    /\ t_current = 0
    /\ t_reordering_start = 0
    /\ delivered = <<>>

recv_sdu ==
    /\ tx_next < MaxTx
    /\ Cardinality(channel) < MaxInFlight
    /\ channel' = channel \cup {[sn |-> tx_next % SnModulus, count |-> tx_next]}
    /\ tx_next' = tx_next + 1
    /\ UNCHANGED <<rx_next, rx_deliv, rx_reord, rx_list, t_current,
                   t_reordering_start, delivered>>

\* What the lower layers must guarantee for SNs to be unambiguous: a PDU
\* arrives while its COUNT is less than a window away from rx_deliv.
InWindow(p) ==
    rx_deliv - window_size <= p.count /\ p.count < rx_deliv + window_size

Lose(p) ==
    /\ channel' = channel \ {p}
    /\ UNCHANGED <<tx_next, rx_next, rx_deliv, rx_reord, rx_list, t_current,
                   t_reordering_start, delivered>>

\* A PDU that is too old or already in the list is discarded.
recv_pdu_discard(p) ==
    LET count == rcvd_count(rx_deliv, p.sn)
    IN  /\ InWindow(p)
        /\ count < rx_deliv \/ InList(rx_list, count)
        /\ channel' = channel \ {p}
        /\ UNCHANGED <<tx_next, rx_next, rx_deliv, rx_reord, rx_list, t_current,
                       t_reordering_start, delivered>>

\* A new PDU is stored, what has become contiguous is delivered, and
\* t-Reordering is stopped and started as the gap moves.
recv_pdu_store(p, duplicated) ==
    LET count == rcvd_count(rx_deliv, p.sn)
        list  == ListAdd(rx_list, [count |-> count, id |-> p.count])
        n     == IF count = rx_deliv THEN ConsecutiveFrom(list, count) ELSE 0
        start == IF rx_deliv + n >= rx_reord THEN 0 ELSE t_reordering_start
    IN  /\ InWindow(p)
        /\ ~(count < rx_deliv) /\ ~InList(rx_list, count)
        /\ channel' = IF duplicated THEN channel ELSE channel \ {p}
        /\ rx_next' = IF count >= rx_next THEN count + 1 ELSE rx_next
        /\ delivered' = delivered \o Take(list, n)
        /\ rx_list' = Drop(list, n)
        /\ rx_deliv' = rx_deliv + n
        /\ IF start = 0 /\ rx_deliv' < rx_next'
           THEN /\ rx_reord' = rx_next'
                /\ t_reordering_start' = ToInt(t_current)
           ELSE /\ rx_reord' = rx_reord
                /\ t_reordering_start' = start
        /\ UNCHANGED <<tx_next, t_current>>

\* Mutant of t_reordering_expiry: the timer is not restarted for a later gap.
t_reordering_expiry_no_restart ==
    LET m    == Below(rx_list, rx_reord)
        rest == Drop(rx_list, m)
        n    == ConsecutiveFrom(rest, rx_reord)
    IN  /\ delivered' = delivered \o Take(rx_list, m) \o Take(rest, n)
        /\ rx_list' = Drop(rest, n)
        /\ rx_deliv' = rx_reord + n
        /\ rx_reord' = rx_reord
        /\ t_reordering_start' = 0

\* check_t_reordering when the timer has expired.
t_reordering_expiry ==
    LET m    == Below(rx_list, rx_reord)
        rest == Drop(rx_list, m)
        n    == ConsecutiveFrom(rest, rx_reord)
    IN  /\ delivered' = delivered \o Take(rx_list, m) \o Take(rest, n)
        /\ rx_list' = Drop(rest, n)
        /\ rx_deliv' = rx_reord + n
        /\ IF rx_deliv' < rx_next
           THEN rx_reord' = rx_next /\ t_reordering_start' = ToInt(t_current')
           ELSE rx_reord' = rx_reord /\ t_reordering_start' = 0

\* nr_pdcp_entity_set_time.  The timer thread brings the clock of the MAC
\* scheduler; a thread that runs late skips some milliseconds.  While no timer
\* can expire, one tick stands for any number of them.
set_time(now) ==
    /\ t_current = 0 \/ (t_reordering_start # 0 /\ t_reordering # -1)
    /\ t_current' = now
    /\ \E deadline \in Deadlines :
       IF t_reordering # -1 /\ t_reordering_start # 0 /\ Expired(now, deadline)
       THEN t_reordering_expiry
       ELSE UNCHANGED <<rx_deliv, rx_reord, rx_list, t_reordering_start, delivered>>
    /\ UNCHANGED <<tx_next, channel, rx_next>>

NextTick == IF t_current = 0 THEN FirstTick ELSE t_current + 1 .. t_current + MaxTick

Tick == \E now \in NextTick : set_time(now)

Next ==
    \/ recv_sdu
    \/ \E p \in channel : \/ Lose(p)
                          \/ recv_pdu_discard(p)
                          \/ \E duplicated \in BOOLEAN : recv_pdu_store(p, duplicated)
    \/ Tick

Spec == Init /\ [][Next]_vars

\* nr_pdcp_tick is called for every slot and the timer thread follows it.
FairSpec == Spec /\ WF_vars(Tick)

-----------------------------------------------------------------------------
TypeOK ==
    /\ tx_next \in 0..MaxTx
    /\ channel \subseteq PDU
    /\ rx_next \in Nat /\ rx_deliv \in Nat /\ rx_reord \in Nat
    /\ rx_list \in Seq(SDU)
    /\ t_current \in Nat
    /\ t_reordering_start \in Int
    /\ delivered \in Seq(SDU)

Increasing(list) == \A i, j \in DOMAIN list : i < j => list[i].count < list[j].count

\* SDUs leave in the order of their COUNT and none leaves twice, whatever the
\* lower layers lose, repeat or reorder and whenever t-Reordering expires.
InOrderDelivery == Increasing(delivered)

\* The HFN guess is right for every PDU that is stored: an SDU is deciphered
\* with the COUNT it was ciphered with.
CountAgreement ==
    /\ \A i \in DOMAIN delivered : delivered[i].count = delivered[i].id
    /\ \A i \in DOMAIN rx_list : rx_list[i].count = rx_list[i].id

\* Nothing deliverable is held back: the first SDU of rx_list lies beyond a
\* gap at rx_deliv, and the list ends just below rx_next.
NothingHeldBack ==
    /\ Increasing(rx_list)
    /\ rx_list # <<>> =>
          /\ rx_deliv < rx_list[1].count
          /\ rx_list[Len(rx_list)].count < rx_next

\* The receive state variables stay ordered, and a running t-Reordering
\* always guards a gap: rx_deliv < rx_reord <= rx_next <= tx_next.
VariablesOrdered ==
    /\ rx_deliv <= rx_next /\ rx_next <= tx_next
    /\ t_reordering_start # 0 => rx_deliv < rx_reord /\ rx_reord <= rx_next

\* The bearer implements the in-order service: an SDU handed up is one that
\* was submitted, never a second time, never after a later one, and nothing
\* that was handed up is taken back.
Service == INSTANCE PdcpService WITH
    submitted <- tx_next,
    out <- [i \in DOMAIN delivered |-> delivered[i].id]

ImplementsService == Service!Spec

\* t-Reordering bounds the wait: once the timer guards a gap, every SDU that
\* is behind it is delivered, even if nothing is received any more.
ReorderingEnds ==
    \A c \in 0..MaxTx - 1 :
        (t_reordering_start # 0 /\ InList(rx_list, c)) ~> ~InList(rx_list, c)
=============================================================================
