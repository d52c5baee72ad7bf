--------------------------- MODULE NrRlcUmProofs ---------------------------
(***************************************************************************)
(* The UM entities for every SN size, buffer size and number of SDUs: the  *)
(* reassembly window is sorted, rx_next_reassembly is the first SN still   *)
(* to be delivered, t_reassembly runs while something is missing, what is  *)
(* delivered are the SDUs submitted, whole and once, and the two buffers   *)
(* count the bytes they hold.                                              *)
(*                                                                         *)
(* The inductive invariants and what the steps do to them are stated in    *)
(* NrRlcUmInv.  The facts about their parts come first, then one lemma per *)
(* argument whose steps are the facts only it needs: SizesSteps,           *)
(* ReceiverSteps, SenderSteps and NextTrack.  Least is the well-ordering   *)
(* of the natural numbers; LeastNumber, before the theorems, takes it from *)
(* the library.                                                            *)
(***************************************************************************)
EXTENDS NrRlcUmInv, TLAPS

\* Zenon is the prover of a leaf that names none; arithmetic names SMT.
USE ZenonT(30)

-----------------------------------------------------------------------------
(* Sequence numbers, lists and headers.                                    *)

LEMMA Widths ==
    /\ SnModulus \in Nat /\ window_size \in Nat /\ window_size >= 2
    /\ SnModulus = 2 * window_size
BY SizeAssumption, SMT DEF window_size

LEMMA Modulo ==
    ASSUME NEW a \in Int
    PROVE  /\ a % SnModulus \in SN
           /\ a = (a \div SnModulus) * SnModulus + (a % SnModulus)
           /\ a \div SnModulus \in Int
<1> USE SMT
<1>1. SnModulus \in Int /\ SnModulus > 0
  BY Widths
<1>2. a % SnModulus \in SN
  BY <1>1 DEF SN
<1>3. a = (a \div SnModulus) * SnModulus + (a % SnModulus)
  BY <1>1
<1>4. a \div SnModulus \in Int
  BY <1>1
<1> QED BY <1>2, <1>3, <1>4, Zenon

(* Two residues that differ by a multiple of the modulus are equal.        *)
LEMMA SameResidue ==
    ASSUME NEW r \in SN, NEW s \in SN, NEW q \in Int, r = q * SnModulus + s
    PROVE  r = s
<1> USE SMT
<1>1. SnModulus \in Nat /\ SnModulus > 0 /\ r \in Int /\ s \in Int
      /\ 0 <= r /\ r < SnModulus /\ 0 <= s /\ s < SnModulus
  BY Widths DEF SN
<1>2. CASE q >= 1
  <2>1. q * SnModulus >= SnModulus
    BY <1>1, <1>2
  <2> QED BY <2>1, <1>1
<1>3. CASE q <= -1
  <2>1. q * SnModulus <= -SnModulus
    BY <1>1, <1>3
  <2> QED BY <2>1, <1>1
<1>4. CASE q = 0
  BY <1>4, <1>1
<1> QED BY <1>2, <1>3, <1>4

(* A number is congruent to its residue.                                   *)
LEMMA Congruent ==
    ASSUME NEW a \in Int, NEW b \in Int, NEW q \in Int, a = q * SnModulus + b
    PROVE  a % SnModulus = b % SnModulus
<1> USE SMT
<1> DEFINE M == SnModulus
<1>1. M \in Nat
  BY Widths, Zenon
<1>2. /\ a % M \in SN /\ b % M \in SN
      /\ a = (a \div M) * M + (a % M) /\ a \div M \in Int
      /\ b = (b \div M) * M + (b % M) /\ b \div M \in Int
  BY Modulo, Zenon
<1> DEFINE i == a \div M
           j == b \div M
           r == a % M
           s == b % M
<1>3. r \in Int /\ s \in Int
  BY <1>2, <1>1 DEF SN
<1>4. r = (q + j - i) * M + s
  <2>1. /\ a = i * M + r /\ b = j * M + s /\ a = q * M + b
        /\ i \in Int /\ j \in Int
    BY <1>2, Zenon
  <2> HIDE DEF i, j, r, s, M
  <2>2. (q + j - i) * M = q * M + j * M - i * M
    BY <2>1, <1>1
  <2> QED BY <2>1, <2>2, <1>1, <1>3
<1>5. q + j - i \in Int
  BY <1>2
<1> QED BY <1>2, <1>4, <1>5, SameResidue

LEMMA Residue == ASSUME NEW r \in SN PROVE r % SnModulus = r
BY Widths, SMT DEF SN

(* modulus_rx tells how far a count of the window is above its lower edge. *)
LEMMA Window ==
    ASSUME NEW h \in Int, NEW n \in Int, h - window_size <= n, n < h + window_size
    PROVE  modulus_rx(h % SnModulus, n % SnModulus) = n - h + window_size
<1> USE SMT
<1> DEFINE r == n % SnModulus
           g == h % SnModulus
           i == h \div SnModulus
           j == n \div SnModulus
           x == r - (g - window_size)
           y == n - h + window_size
<1>1. /\ SnModulus \in Int /\ window_size \in Int /\ SnModulus = 2 * window_size
      /\ r \in Int /\ g \in Int /\ i \in Int /\ j \in Int
      /\ n = j * SnModulus + r /\ h = i * SnModulus + g
  <2>1. r \in SN /\ j \in Int /\ n = j * SnModulus + r
    BY Modulo, Zenon
  <2>2. g \in SN /\ i \in Int /\ h = i * SnModulus + g
    BY Modulo, Zenon
  <2> HIDE DEF r, g, i, j
  <2> QED BY <2>1, <2>2, Widths DEF SN
<1> HIDE DEF r, g, i, j
<1>2. y \in SN
  BY <1>1 DEF SN
<1>3. y = (j - i) * SnModulus + x
  <2>1. (j - i) * SnModulus = j * SnModulus - i * SnModulus
    BY <1>1
  <2> QED BY <2>1, <1>1
<1>4. y % SnModulus = x % SnModulus
  <2>1. y \in Int /\ x \in Int /\ j - i \in Int
    BY <1>1
  <2> HIDE DEF x, y
  <2> QED BY <2>1, <1>3, Congruent
<1>5. y = x % SnModulus
  BY <1>2, <1>4, Residue, Zenon
<1> QED BY <1>5, Zenon DEF modulus_rx, r, g

LEMMA CountOfFacts ==
    ASSUME NEW h \in Int, NEW v \in SN
    PROVE  /\ CountOf(h, v) \in h - window_size .. h + window_size - 1
           /\ CountOf(h, v) % SnModulus = v
<1> DEFINE g == h % SnModulus
           i == h \div SnModulus
           x == v - (g - window_size)
           j == x \div SnModulus
           m == x % SnModulus
           c == h - window_size + m
<1>1. /\ SnModulus \in Int /\ window_size \in Int /\ SnModulus = 2 * window_size
      /\ g \in Int /\ i \in Int /\ h = i * SnModulus + g /\ v \in Int /\ x \in Int
  BY Modulo, Widths, SMT DEF SN
<1>2. m \in 0 .. SnModulus - 1 /\ j \in Int /\ x = j * SnModulus + m
  BY <1>1, Modulo DEF SN
<1>3. x = v - (g - window_size)
  OBVIOUS
<1> HIDE DEF g, i, j, m, x
<1>4. c \in h - window_size .. h + window_size - 1
  BY <1>1, <1>2, SMT
<1>5. c = (i - j) * SnModulus + v
  <2>1. (i - j) * SnModulus = i * SnModulus - j * SnModulus
    BY <1>1, <1>2, SMT
  <2> QED BY <2>1, <1>1, <1>2, <1>3, SMT
<1>6. c % SnModulus = v % SnModulus
  <2>1. c \in Int /\ i - j \in Int /\ v \in Int
    BY <1>1, <1>2, <1>4, SMT
  <2> HIDE DEF c
  <2> QED BY <2>1, <1>5, Congruent
<1>7. c % SnModulus = v
  BY <1>6, Residue
<1>8. CountOf(h, v) = c
  BY DEF CountOf, modulus_rx, m, x, g
<1> QED BY <1>4, <1>7, <1>8

LEMMA CountOfResidue ==
    ASSUME NEW h \in Int, NEW n \in Int, h - window_size <= n, n < h + window_size
    PROVE  CountOf(h, n % SnModulus) = n
<1>1. window_size \in Int
  BY Widths, SMT
<1>2. modulus_rx(h % SnModulus, n % SnModulus) = n - h + window_size
  BY Window
<1> QED BY <1>1, <1>2, SMT DEF CountOf

(* Two counts of one window with the same SN are the same count.           *)
LEMMA SameCount ==
    ASSUME NEW h \in Int, NEW m \in Int, NEW n \in Int,
           h - window_size <= m, m < h + window_size,
           h - window_size <= n, n < h + window_size,
           m % SnModulus = n % SnModulus
    PROVE  m = n
<1>1. CountOf(h, m % SnModulus) = m /\ CountOf(h, n % SnModulus) = n
  BY CountOfResidue
<1> QED BY <1>1

(* sn_compare_rx compares the counts.                                      *)
LEMMA Compare ==
    ASSUME NEW h \in Int, NEW m \in Int, NEW n \in Int,
           h - window_size <= m, m < h + window_size,
           h - window_size <= n, n < h + window_size
    PROVE  sn_compare_rx(h % SnModulus, m % SnModulus, n % SnModulus) = m - n
<1>1. /\ modulus_rx(h % SnModulus, m % SnModulus) = m - h + window_size
      /\ modulus_rx(h % SnModulus, n % SnModulus) = n - h + window_size
  BY Window
<1>2. window_size \in Int
  BY Widths, SMT
<1> QED BY <1>1, <1>2, SMT DEF sn_compare_rx

LEMMA EntryTypes ==
    ASSUME NEW e \in Entry
    PROVE  /\ e.id \in Nat /\ e.n \in Nat /\ e.n \in Int /\ e.sn \in SN
           /\ e.so \in Nat /\ e.size \in Nat
           /\ e.last \in BOOLEAN /\ e.data \in BOOLEAN
BY SMT DEF Entry

LEMMA ListTypes ==
    ASSUME NEW list \in Seq(Entry)
    PROVE  /\ Len(list) \in Nat /\ DOMAIN list = 1 .. Len(list)
           /\ \A k \in 1 .. Len(list) :
                /\ list[k] \in Entry /\ list[k].n \in Nat /\ list[k].so \in Nat
                /\ list[k].size \in Nat /\ list[k].id \in Nat
<1>1. Len(list) \in Nat /\ DOMAIN list = 1 .. Len(list)
  BY SMT
<1>2. \A k \in 1 .. Len(list) : list[k] \in Entry
  BY SMT
<1> QED BY <1>1, <1>2, EntryTypes

\* A non-empty set of naturals has a least element, and Min is it.
LEMMA MinFacts ==
    ASSUME Least, NEW S \in SUBSET Nat, S # {}
    PROVE  Min(S) \in S /\ \A j \in S : Min(S) <= j
<1>1. PICK x \in S : \A y \in S : x <= y
  BY DEF Least
<1> QED BY <1>1 DEF Min

LEMMA InsertFacts ==
    ASSUME NEW list \in Seq(Entry), NEW e \in Entry, NEW i \in 1 .. Len(list) + 1
    PROVE  /\ InsertAt(list, i, e) \in Seq(Entry)
           /\ Len(InsertAt(list, i, e)) = Len(list) + 1
           /\ \A k \in 1 .. Len(list) + 1 :
                InsertAt(list, i, e)[k] = Inserted(list, i, e, k)
<1> USE SMT
<1> DEFINE a == SubSeq(list, 1, i - 1)
           b == SubSeq(list, i, Len(list))
           c == a \o <<e>>
<1>1. Len(list) \in Nat
  OBVIOUS
<1>2. a \in Seq(Entry) /\ Len(a) = i - 1 /\ \A k \in 1 .. i - 1 : a[k] = list[k]
  BY <1>1
<1>3. /\ b \in Seq(Entry) /\ Len(b) = Len(list) - i + 1
      /\ \A k \in 1 .. Len(list) - i + 1 : b[k] = list[i + k - 1]
  BY <1>1
<1>4. InsertAt(list, i, e) = c \o b
  BY Zenon DEF InsertAt
<1> HIDE DEF a, b
<1>5. /\ c \in Seq(Entry) /\ Len(c) = i
      /\ \A k \in 1 .. i : c[k] = IF k < i THEN list[k] ELSE e
  BY <1>1, <1>2
<1> HIDE DEF c
<1>6. /\ c \o b \in Seq(Entry) /\ Len(c \o b) = Len(c) + Len(b)
      /\ \A k \in 1 .. Len(c) + Len(b) :
           (c \o b)[k] = IF k <= Len(c) THEN c[k] ELSE b[k - Len(c)]
  <2>1. b \in Seq(Entry) /\ c \in Seq(Entry)
    BY <1>3, <1>5, Zenon
  <2> QED BY <2>1
<1>7. Len(c) + Len(b) = Len(list) + 1
  BY <1>1, <1>3, <1>5
<1>8. ASSUME NEW k \in 1 .. Len(list) + 1
      PROVE  (c \o b)[k] = IF k < i THEN list[k] ELSE IF k = i THEN e ELSE list[k - 1]
  <2>1. CASE k <= i
    BY <2>1, <1>1, <1>5, <1>6, <1>7
  <2>2. CASE i < k
    <3>1. k - i \in 1 .. Len(list) - i + 1 /\ i + (k - i) - 1 = k - 1
      BY <2>2, <1>1
    <3>2. b[k - i] = list[k - 1]
      BY <3>1, <1>3, Zenon
    <3> QED BY <2>2, <3>2, <1>1, <1>5, <1>6, <1>7
  <2>3. k <= i \/ i < k
    BY <1>1
  <2> QED BY <2>1, <2>2, <2>3, Zenon
<1> QED BY <1>4, <1>6, <1>7, <1>8, Zenon DEF Inserted

\* nr_rlc_pdu_list_add keeps the list in order: what it puts in front of the
\* new entry is not greater, what it leaves behind is.
LEMMA AddPlace ==
    ASSUME Least, NEW h \in Int, NEW list, ListOK(list, h - window_size, h),
           NEW e \in Entry, e.sn = e.n % SnModulus,
           h - window_size <= e.n, e.n < h + window_size
    PROVE  \E i \in 1 .. Len(list) + 1 :
             /\ pdu_list_add(h % SnModulus, list, e) = InsertAt(list, i, e)
             /\ \A k \in 1 .. Len(list) : k < i =>
                  \/ list[k].n < e.n
                  \/ list[k].n = e.n /\ list[k].so <= e.so
             /\ \A k \in 1 .. Len(list) : i <= k =>
                  \/ e.n < list[k].n
                  \/ e.n = list[k].n /\ e.so < list[k].so
<1> DEFINE After == {k \in 1 .. Len(list) :
                       \/ sn_compare_rx(h % SnModulus, list[k].sn, e.sn) > 0
                       \/ list[k].sn = e.sn /\ list[k].so > e.so}
           S == After \cup {Len(list) + 1}
           i == Min(S)
<1>1. /\ Len(list) \in Nat /\ window_size \in Nat /\ e.n \in Int /\ e.so \in Nat
      /\ \A k \in 1 .. Len(list) :
           /\ list[k].n \in Int /\ list[k].so \in Nat
           /\ list[k].sn = list[k].n % SnModulus
           /\ h - window_size <= list[k].n /\ list[k].n < h + window_size
  <2>1. /\ Len(list) \in Nat
        /\ \A k \in 1 .. Len(list) : list[k].n \in Nat /\ list[k].so \in Nat
    BY ListTypes DEF ListOK
  <2>2. window_size \in Nat /\ e.n \in Int /\ e.so \in Nat
    BY Widths, EntryTypes
  <2> QED BY <2>1, <2>2, SMT DEF ListOK, Within
<1>2. \A k \in 1 .. Len(list) :
        k \in After <=> \/ e.n < list[k].n
                        \/ e.n = list[k].n /\ e.so < list[k].so
  <2> SUFFICES ASSUME NEW k \in 1 .. Len(list)
               PROVE  k \in After <=> \/ e.n < list[k].n
                                      \/ e.n = list[k].n /\ e.so < list[k].so
    OBVIOUS
  <2> DEFINE m == list[k].n
  <2>1. /\ m \in Int /\ e.n \in Int /\ list[k].so \in Nat /\ e.so \in Nat
        /\ h - window_size <= m /\ m < h + window_size
        /\ list[k].sn = m % SnModulus
    BY <1>1
  <2> HIDE DEF m
  <2>2. sn_compare_rx(h % SnModulus, m % SnModulus, e.n % SnModulus) = m - e.n
    BY <2>1, Compare
  <2>3. list[k].sn = e.sn <=> m = e.n
    BY <2>1, SameCount
  <2>4. k \in After <=> \/ sn_compare_rx(h % SnModulus, list[k].sn, e.sn) > 0
                        \/ list[k].sn = e.sn /\ list[k].so > e.so
    OBVIOUS
  <2>5. sn_compare_rx(h % SnModulus, list[k].sn, e.sn) = m - e.n
    BY <2>1, <2>2
  <2> HIDE DEF After
  <2>6. k \in After <=> (m - e.n > 0 \/ (m = e.n /\ list[k].so > e.so))
    BY <2>3, <2>4, <2>5
  <2> QED BY <2>1, <2>6, SMT DEF m
<1>3. S \in SUBSET Nat /\ S # {}
  BY <1>1, SMT
<1>4. i \in S /\ \A j \in S : i <= j
  BY <1>3, MinFacts
<1>5. pdu_list_add(h % SnModulus, list, e) = InsertAt(list, i, e)
  BY DEF pdu_list_add
<1>6. i \in 1 .. Len(list) + 1
  <2>1. S \subseteq 1 .. Len(list) + 1
    BY <1>1, SMT
  <2> HIDE DEF S, i
  <2> QED BY <2>1, <1>4
<1>7. i \in After \/ i = Len(list) + 1
  BY <1>4
<1>8. \A k \in 1 .. Len(list) : k < i => k \notin After
  <2>1. \A j \in After : i <= j
    BY <1>4
  <2> HIDE DEF After, i
  <2> QED BY <2>1, <1>6, <1>1, SMT
<1> HIDE DEF After, i
<1>9. ASSUME NEW k \in 1 .. Len(list), k < i
      PROVE  \/ list[k].n < e.n
             \/ list[k].n = e.n /\ list[k].so <= e.so
  BY <1>1, <1>2, <1>8, <1>9, SMTT(30)
<1>10. ASSUME NEW k \in 1 .. Len(list), i <= k
       PROVE  \/ e.n < list[k].n
              \/ e.n = list[k].n /\ e.so < list[k].so
  <2>1. i \in 1 .. Len(list) /\ i \in After
    BY <1>1, <1>6, <1>7, <1>10, SMT
  <2>2. \/ e.n < list[i].n
        \/ e.n = list[i].n /\ e.so < list[i].so
    BY <2>1, <1>2
  <2>3. CASE i = k
    BY <2>2, <2>3
  <2>4. CASE i # k
    <3>1. i < k
      BY <1>10, <2>4, <1>6, <1>1, SMT
    <3>2. \/ list[i].n < list[k].n
          \/ list[i].n = list[k].n /\ list[i].so <= list[k].so
      BY <3>1, <2>1 DEF ListOK, Sorted
    <3>3. /\ list[i].n \in Int /\ list[i].so \in Int /\ list[k].n \in Int
          /\ list[k].so \in Int /\ e.n \in Int /\ e.so \in Int
      BY <2>1, <1>1, SMT
    <3> QED BY <3>2, <3>3, <2>2, SMTT(30)
  <2> QED BY <2>3, <2>4
<1> QED BY <1>5, <1>6, <1>9, <1>10

LEMMA RecvFacts ==
    ASSUME RecvInv
    PROVE  /\ high \in Nat /\ high \in Int /\ window_size \in Nat /\ window_size >= 2
           /\ rx_next_highest = high % SnModulus
           /\ rx_next_reassembly \in SN /\ rx_timer_trigger \in SN
           /\ t_reassembly_start \in {"off", "on"}
           /\ ListOK(rx_list, high - window_size, high)
           /\ NextCount \in Int /\ high - window_size <= NextCount /\ NextCount <= high
           /\ NextCount % SnModulus = rx_next_reassembly
           /\ NextOK(rx_list, NextCount)
<1>1. /\ high \in Nat /\ rx_next_highest = high % SnModulus
      /\ rx_next_reassembly \in SN /\ rx_timer_trigger \in SN
      /\ t_reassembly_start \in {"off", "on"}
      /\ ListOK(rx_list, high - window_size, high)
      /\ NextCount <= high /\ NextOK(rx_list, NextCount)
  BY DEF RecvInv, RecvOK, NextCount
<1>2. high \in Int
  BY <1>1, SMT
<1>3. /\ NextCount \in high - window_size .. high + window_size - 1
      /\ NextCount % SnModulus = rx_next_reassembly
  BY <1>1, <1>2, CountOfFacts DEF NextCount
<1>4. window_size \in Nat /\ window_size >= 2
  BY Widths
<1> QED BY <1>1, <1>2, <1>3, <1>4, SMT

LEMMA ReceivedFacts ==
    ASSUME NEW p, PduOK(p)
    PROVE  /\ Received(p) \in Entry
           /\ Received(p).id = p.id /\ Received(p).n = p.n
           /\ Received(p).sn = Received(p).n % SnModulus
           /\ Received(p).so = p.so /\ Received(p).size = p.size
           /\ Received(p).last = p.last /\ Received(p).data
<1>1. p.sn \in SN
  BY Modulo, SMT DEF PduOK
<1>2. Received(p) \in Entry
  BY <1>1 DEF PduOK, Received, Entry
<1>3. Received(p).sn = Received(p).n % SnModulus
  BY DEF PduOK, Received
<1>4. Received(p).data = TRUE
  BY DEF Received
<1>5. /\ Received(p).id = p.id /\ Received(p).n = p.n
      /\ Received(p).so = p.so /\ Received(p).size = p.size
      /\ Received(p).last = p.last
  BY DEF Received
<1> QED BY <1>2, <1>3, <1>4, <1>5

\* A PDU that is not thrown away is not below rx_next_reassembly.
LEMMA AcceptedFacts ==
    ASSUME RecvInv, NEW p, PduOK(p), ~Stale(p), InWindow(p)
    PROVE  /\ p.n \in Nat /\ p.n \in Int /\ p.sn = p.n % SnModulus
           /\ high - window_size <= p.n /\ p.n < high + window_size
           /\ NextCount <= p.n
           /\ p.sn = rx_next_reassembly <=> p.n = NextCount
           /\ sn_compare_rx(rx_next_highest, p.sn, rx_next_highest) = p.n - high
<1>1. /\ high \in Int /\ NextCount \in Int /\ window_size \in Nat /\ window_size >= 2
      /\ high - window_size <= NextCount /\ NextCount <= high
      /\ NextCount % SnModulus = rx_next_reassembly
      /\ rx_next_highest = high % SnModulus
  BY RecvFacts
<1>2. /\ p.n \in Nat /\ p.n \in Int /\ p.sn = p.n % SnModulus
      /\ high - window_size <= p.n /\ p.n < high + window_size
  BY SMT DEF PduOK, InWindow
<1>3. /\ NextCount < high + window_size /\ high - window_size <= high
      /\ high < high + window_size
  BY <1>1, SMT
<1>4. sn_compare_rx(high % SnModulus, p.n % SnModulus, NextCount % SnModulus) = p.n - NextCount
  BY <1>1, <1>2, <1>3, Compare
<1>5. sn_compare_rx(high % SnModulus, p.n % SnModulus, high % SnModulus) = p.n - high
  BY <1>1, <1>2, <1>3, Compare
<1>6. p.n % SnModulus = NextCount % SnModulus => p.n = NextCount
  BY <1>1, <1>2, <1>3, SameCount
<1>7. ~(p.n - NextCount < 0)
  BY <1>1, <1>2, <1>4 DEF Stale
<1>8. NextCount <= p.n
  BY <1>7, <1>1, <1>2, SMT
<1>9. sn_compare_rx(rx_next_highest, p.sn, rx_next_highest) = p.n - high
  BY <1>1, <1>2, <1>5
<1>10. p.sn = rx_next_reassembly <=> p.n = NextCount
  BY <1>1, <1>2, <1>6
<1> QED BY <1>2, <1>8, <1>9, <1>10

LEMMA WaitingTypes ==
    ASSUME NEW list \in Seq(Waiting)
    PROVE  /\ Len(list) \in Nat
           /\ \A k \in 1 .. Len(list) :
                /\ list[k] \in Waiting /\ list[k].id \in Nat /\ list[k].so \in Nat
                /\ list[k].size \in Nat /\ list[k].first \in BOOLEAN
<1>1. Len(list) \in Nat /\ \A k \in 1 .. Len(list) : list[k] \in Waiting
  BY SMT
<1> QED BY <1>1 DEF Waiting

LEMMA TailShape ==
    ASSUME NEW list, NEW sub, TxShape(list, sub), list # <<>>
    PROVE  /\ TxShape(Tail(list), sub) /\ Len(Tail(list)) = Len(list) - 1
           /\ \A i \in 1 .. Len(Tail(list)) :
                i + 1 \in 1 .. Len(list) /\ Tail(list)[i] = list[i + 1]
           /\ Head(list) = list[1] /\ 1 \in 1 .. Len(list)
<1> DEFINE new == Tail(list)
<1>1. list \in Seq(Waiting) /\ Len(list) \in Nat
  BY SMT DEF TxShape
<1>2. /\ new \in Seq(Waiting) /\ Len(new) = Len(list) - 1 /\ Head(list) = list[1]
      /\ 1 \in 1 .. Len(list)
      /\ \A i \in 1 .. Len(new) : i + 1 \in 1 .. Len(list) /\ new[i] = list[i + 1]
  BY <1>1, SMT
<1> HIDE DEF new
<1>3. Increasing(new)
  <2> SUFFICES ASSUME NEW i \in 1 .. Len(new), NEW j \in 1 .. Len(new), i < j
               PROVE  new[i].id < new[j].id
    BY DEF Increasing
  <2>1. i + 1 < j + 1
    BY SMT
  <2> QED BY <2>1, <1>2 DEF TxShape, Increasing
<1>4. Segs(new, sub)
  <2> SUFFICES ASSUME NEW i \in 1 .. Len(new)
               PROVE  /\ new[i].last /\ new[i].size >= 1
                      /\ new[i].first <=> new[i].so = 0
                      /\ new[i].id \in 1 .. Len(sub)
                      /\ new[i].so + new[i].size = sub[new[i].id]
                      /\ i >= 2 => new[i].first
    BY DEF Segs
  <2>1. i + 1 \in 1 .. Len(list) /\ new[i] = list[i + 1] /\ i + 1 >= 2
    BY <1>2, SMT
  <2> DEFINE j == i + 1
  <2> HIDE DEF j
  <2>2. j \in 1 .. Len(list) /\ new[i] = list[j] /\ j >= 2
    BY <2>1 DEF j
  <2> QED BY <2>2 DEF TxShape, Segs
<1> QED BY <1>2, <1>3, <1>4 DEF TxShape, new

LEMMA HeaderFacts ==
    ASSUME NEW first \in BOOLEAN, NEW last \in BOOLEAN
    PROVE  /\ compute_pdu_header_size(first, last) \in Nat
           /\ compute_pdu_header_size(first, FALSE) \in Nat
           /\ compute_pdu_header_size(first, last) <= compute_pdu_header_size(first, FALSE)
           /\ ~first => compute_pdu_header_size(first, last)
                        = compute_pdu_header_size(first, FALSE)
BY SizeAssumption, SMT DEF compute_pdu_header_size

LEMMA CutFacts ==
    ASSUME NEW seg \in Waiting, seg.last, seg.size >= 1, NEW size \in Nat,
           size < PduSize(seg), resegment_cut(seg, size).size >= 1
    PROVE  CutOf(seg, resegment_cut(seg, size),
                 resegment_rest(seg, resegment_cut(seg, size)))
<1> DEFINE hd == compute_pdu_header_size(seg.first, FALSE)
           cs == size - hd
           cut == resegment_cut(seg, size)
           rest == resegment_rest(seg, cut)
<1>1. /\ seg.id \in Nat /\ seg.so \in Nat /\ seg.size \in Nat
      /\ seg.first \in BOOLEAN /\ seg.last \in BOOLEAN
  BY DEF Waiting
<1>2. /\ hd \in Nat /\ HeaderSize(seg) \in Nat /\ HeaderSize(seg) <= hd
  BY <1>1, HeaderFacts DEF HeaderSize
<1> HIDE DEF hd
<1>3. /\ cut.id = seg.id /\ cut.so = seg.so /\ cut.first = seg.first
      /\ cut.last = FALSE /\ cut.size = cs
  BY DEF resegment_cut, Waiting, hd
<1> HIDE DEF cut
<1>4. cs \in Nat /\ cs >= 1 /\ cs < seg.size
  BY <1>1, <1>2, <1>3, SMT DEF PduSize, cut
<1> HIDE DEF cs
<1>5. /\ rest.id = seg.id /\ rest.first = FALSE /\ rest.last = seg.last
      /\ rest.so = seg.so + cs /\ rest.size = seg.size - cs
  BY <1>3 DEF resegment_rest, Waiting
<1>6. seg.so + cs \in Nat /\ seg.size - cs \in Nat
  BY <1>1, <1>4, SMT
<1>7. rest \in Waiting
  BY <1>3, <1>6 DEF resegment_rest, Waiting
<1>8. CutOf(seg, cut, rest)
  BY <1>3, <1>4, <1>5, <1>7 DEF CutOf
<1> QED BY <1>8 DEF cut

LEMMA HeadFacts ==
    ASSUME SendInv, tx_list # <<>>
    PROVE  LET seg == Head(tx_list)
           IN /\ seg = tx_list[1] /\ 1 \in 1 .. Len(tx_list) /\ Len(tx_list) \in Nat
              /\ seg \in Waiting /\ seg.last = TRUE /\ seg.size >= 1
              /\ seg.id \in Nat /\ seg.so \in Nat /\ seg.size \in Nat
              /\ seg.first \in BOOLEAN
              /\ seg.first <=> seg.so = 0
              /\ seg.id \in 1 .. Len(submitted)
              /\ seg.so + seg.size = submitted[seg.id]
              /\ tx_next \in Nat
<1>1. /\ Head(tx_list) = tx_list[1] /\ 1 \in 1 .. Len(tx_list)
      /\ tx_list \in Seq(Waiting) /\ Segs(tx_list, submitted) /\ tx_next \in Nat
  BY TailShape DEF SendInv, TxShape
<1> DEFINE seg == tx_list[1]
<1>2. /\ seg \in Waiting /\ seg.id \in Nat /\ seg.so \in Nat /\ seg.size \in Nat
      /\ seg.first \in BOOLEAN /\ Len(tx_list) \in Nat
  BY <1>1, WaitingTypes
<1>3. seg.last = TRUE
  <2>1. seg.last \in BOOLEAN
    BY <1>2 DEF Waiting
  <2>2. seg.last
    BY <1>1 DEF Segs
  <2> QED BY <2>1, <2>2
<1>4. /\ seg.size >= 1
      /\ seg.first <=> seg.so = 0
      /\ seg.id \in 1 .. Len(submitted)
      /\ seg.so + seg.size = submitted[seg.id]
  BY <1>1 DEF Segs
<1> QED BY <1>1, <1>2, <1>3, <1>4
-----------------------------------------------------------------------------
(* The bytes of the buffers.                                               *)

\* The sums of the two buffers are set by Init, kept by every step, and what the
\* code's counters say of them.
LEMMA SizesSteps ==
    Least => /\ Init => TxSizes /\ RxSizes
             /\ SizeInv /\ [Next]_vars => TxSizes' /\ RxSizes'
             /\ SizeInv => SizesExact /\ TypeOK
<1> SUFFICES ASSUME Least
             PROVE  /\ Init => TxSizes /\ RxSizes
                    /\ SizeInv /\ [Next]_vars => TxSizes' /\ RxSizes'
                    /\ SizeInv => SizesExact /\ TypeOK
  OBVIOUS
\* Induction up to n: a set that holds 0 and with k - 1 also k.
<1>UpTo.
    ASSUME NEW n \in Nat, NEW T, 0 \in T, \A k \in 1 .. n : k - 1 \in T => k \in T
    PROVE  \A k \in 0 .. n : k \in T
  <2> USE <1>UpTo
  <2> DEFINE S == {k \in 0 .. n : k \notin T}
  <2>1. S \in SUBSET Nat
    BY SMT
  <2>2. ASSUME S # {} PROVE FALSE
    <3> DEFINE x == Min(S)
    <3>1. x \in S /\ \A j \in S : x <= j
      <4> HIDE DEF S
      <4> QED BY <2>1, <2>2, MinFacts
    <3> HIDE DEF x
    <3>2. x \in 0 .. n /\ x \notin T
      BY <3>1
    <3>3. x \in 1 .. n /\ x - 1 \in 0 .. n
      BY <3>2, SMT
    <3>4. x - 1 \in T
      BY <3>1, <3>3, SMT
    <3> QED BY <3>2, <3>3, <3>4
  <2> QED BY <2>2
<1>SumsLonger.
    ASSUME NEW v, NEW x \in Nat, x # 0, v[x] \in Int, NEW g, Sums(g, v, x - 1)
    PROVE  \E f : Sums(f, v, x)
  <2> USE <1>SumsLonger
  <2> DEFINE f == [k \in 0 .. x |-> IF k = x THEN g[x - 1] + v[x] ELSE g[k]]
  <2>1. /\ \A k \in 0 .. x - 1 : g[k] \in Int
        /\ g[0] = 0
        /\ \A k \in 1 .. x - 1 : g[k] = g[k - 1] + v[k]
    BY DEF Sums
  <2>2. /\ f \in [0 .. x -> Int] /\ f[0] = 0 /\ f[x] = f[x - 1] + v[x]
        /\ \A k \in 0 .. x - 1 : f[k] = g[k]
    BY <2>1, SMT
  <2> HIDE DEF f
  <2>3. ASSUME NEW k \in 1 .. x PROVE f[k] = f[k - 1] + v[k]
    <3>1. CASE k = x
      BY <3>1, <2>2
    <3>2. CASE k # x
      <4>1. k \in 1 .. x - 1 /\ k \in 0 .. x - 1 /\ k - 1 \in 0 .. x - 1
        BY <3>2, SMT
      <4> QED BY <4>1, <2>1, <2>2
    <3> QED BY <3>1, <3>2
  <2>4. Sums(f, v, x)
    BY <2>2, <2>3 DEF Sums
  <2> QED BY <2>4
<1>SumsExist.
    ASSUME NEW v, NEW n \in Nat, \A k \in 1 .. n : v[k] \in Int
    PROVE  \E f : Sums(f, v, n)
  <2> USE <1>SumsExist
  <2> DEFINE T == {k \in 0 .. n : \E f : Sums(f, v, k)}
  <2>1. 0 \in T
    <3>1. Sums([k \in 0 .. 0 |-> 0], v, 0)
      BY SMT DEF Sums
    <3> QED BY <3>1, SMT
  <2>2. ASSUME NEW k \in 1 .. n, k - 1 \in T PROVE k \in T
    <3>1. PICK g : Sums(g, v, k - 1)
      BY <2>2
    <3>2. k \in Nat /\ k # 0 /\ v[k] \in Int
      BY SMT
    <3>3. \E f : Sums(f, v, k)
      BY <3>1, <3>2, <1>SumsLonger
    <3> QED BY <3>3, SMT
  <2>3. \A k \in 0 .. n : k \in T
    <3> HIDE DEF T
    <3> QED BY <2>1, <2>2, <1>UpTo
  <2>4. n \in T
    BY <2>3, SMT
  <2> QED BY <2>4
\* The sum of v is the last of its prefix sums.
<1>TotalIs.
    ASSUME NEW v, NEW f, Sums(f, v, Len(v)), Len(v) \in Nat
    PROVE  Total(v) = f[Len(v)]
  <2> USE <1>TotalIs
  <2> DEFINE n == Len(v)
             g == CHOOSE g : g = [k \in 0 .. n |-> IF k = 0 THEN 0 ELSE g[k - 1] + v[k]]
  <2>1. f = [k \in 0 .. n |-> IF k = 0 THEN 0 ELSE f[k - 1] + v[k]]
    BY SMT DEF Sums
  <2>2. g = [k \in 0 .. n |-> IF k = 0 THEN 0 ELSE g[k - 1] + v[k]]
    BY <2>1
  <2>3. Total(v) = g[n]
    BY DEF Total
  <2>4. n \in Nat
    OBVIOUS
  <2> HIDE DEF g, n
  <2>5. g[0] = 0 /\ \A k \in 1 .. n : g[k] = g[k - 1] + v[k]
    BY <2>2, <2>4, SMT
  <2>6. f[0] = 0 /\ \A k \in 1 .. n : f[k] = f[k - 1] + v[k]
    BY DEF Sums, n
  <2> DEFINE T == {k \in 0 .. n : g[k] = f[k]}
  <2>7. 0 \in T
    BY <2>4, <2>5, <2>6, SMT
  <2>8. ASSUME NEW k \in 1 .. n, k - 1 \in T PROVE k \in T
    <3>1. g[k] = g[k - 1] + v[k] /\ f[k] = f[k - 1] + v[k] /\ g[k - 1] = f[k - 1]
      BY <2>5, <2>6, <2>8
    <3> QED BY <3>1, <2>4, SMT
  <2>9. \A k \in 0 .. n : k \in T
    <3> HIDE DEF T
    <3> QED BY <2>4, <2>7, <2>8, <1>UpTo
  <2> QED BY <2>9, <2>3, <2>4, SMT DEF n
<1>SumsFacts.
    ASSUME NEW f, NEW v, NEW n \in Nat, Sums(f, v, n)
    PROVE  /\ \A k \in 0 .. n : f[k] \in Int
           /\ f[0] = 0
           /\ \A k \in 1 .. n : f[k] = f[k - 1] + v[k]
  BY <1>SumsFacts DEF Sums
<1>TotalEmpty.
    Total(<<>>) = 0
  <2>1. Sums([k \in 0 .. 0 |-> 0], <<>>, 0)
    BY SMT DEF Sums
  <2>2. Len(<<>>) = 0
    OBVIOUS
  <2> QED BY <2>1, <2>2, <1>TotalIs, SMT
<1>NumbersFacts.
    ASSUME NEW v, NEW n, Numbers(v, n)
    PROVE  /\ n \in Nat /\ \A k \in 1 .. n : v[k] \in Int
           /\ \E f : Sums(f, v, n)
           /\ \A f : Sums(f, v, n) => Total(v) = f[n]
  <2> USE <1>NumbersFacts
  <2>1. n \in Nat /\ n = Len(v) /\ \A k \in 1 .. n : v[k] \in Int
    BY SMT DEF Numbers
  <2> QED BY <2>1, <1>SumsExist, <1>TotalIs
<1>TotalInt.
    ASSUME NEW v, NEW n, Numbers(v, n)
    PROVE  Total(v) \in Int
  <2> USE <1>TotalInt
  <2>1. n \in Nat
    BY <1>NumbersFacts
  <2>2. PICK f : Sums(f, v, n) /\ Total(v) = f[n]
    BY <1>NumbersFacts
  <2> QED BY <2>1, <2>2, <1>SumsFacts, SMT
<1>TotalInsert.
    ASSUME NEW v, NEW w, NEW n, Numbers(v, n), Numbers(w, n + 1), NEW i \in 1 .. n + 1,
           \A k \in 1 .. n + 1 :
               w[k] = IF k < i THEN v[k] ELSE IF k = i THEN w[i] ELSE v[k - 1]
    PROVE  Total(w) = Total(v) + w[i]
  <2> USE SMT
  <2> USE <1>TotalInsert
  <2>1. n \in Nat /\ \A k \in 1 .. n + 1 : w[k] \in Int
    BY <1>NumbersFacts, Zenon
  <2>2. PICK f : Sums(f, v, n) /\ Total(v) = f[n]
    BY <1>NumbersFacts, Zenon
  <2>3. /\ \A k \in 0 .. n : f[k] \in Int
        /\ f[0] = 0
        /\ \A k \in 1 .. n : f[k] = f[k - 1] + v[k]
    BY <2>1, <2>2, <1>SumsFacts, Zenon
  <2> DEFINE h == [k \in 0 .. n + 1 |-> IF k < i THEN f[k] ELSE f[k - 1] + w[i]]
  <2>4. /\ h \in [0 .. n + 1 -> Int] /\ h[0] = 0 /\ h[n + 1] = f[n] + w[i]
        /\ \A k \in 0 .. n + 1 : h[k] = IF k < i THEN f[k] ELSE f[k - 1] + w[i]
    BY <2>1, <2>3
  <2> HIDE DEF h
  <2>5. ASSUME NEW k \in 1 .. n + 1 PROVE h[k] = h[k - 1] + w[k]
    <3>0. k \in 0 .. n + 1 /\ k - 1 \in 0 .. n + 1 /\ w[i] \in Int
      BY <2>1
    <3>1. CASE k < i
      <4>1. k \in 1 .. n /\ w[k] = v[k] /\ f[k] = f[k - 1] + v[k]
        BY <3>1, <2>1, <2>3
      <4> QED BY <4>1, <3>0, <3>1, <2>1, <2>4, SMTT(30)
    <3>2. CASE k = i
      <4>1. h[i] = f[i - 1] + w[i] /\ h[i - 1] = f[i - 1]
        BY <3>0, <3>2, <2>4
      <4> QED BY <4>1, <3>2, Zenon
    <3>3. CASE k > i
      <4>1. k - 1 \in 1 .. n /\ w[k] = v[k - 1]
        BY <3>3, <2>1
      <4>2. f[k - 1] = f[(k - 1) - 1] + v[k - 1]
        BY <4>1, <2>3, Zenon
      <4>3. h[k] = f[k - 1] + w[i] /\ h[k - 1] = f[(k - 1) - 1] + w[i]
        BY <3>0, <3>3, <2>4, <2>1
      <4>4. f[(k - 1) - 1] \in Int /\ v[k - 1] \in Int
        BY <4>1, <2>3, <2>1, <1>NumbersFacts
      <4> QED BY <4>1, <4>2, <4>3, <4>4, <3>0
    <3> QED BY <3>1, <3>2, <3>3, <2>1
  <2>6. Sums(h, w, n + 1)
    BY <2>4, <2>5, Zenon DEF Sums
  <2>7. Total(w) = h[n + 1]
    BY <2>6, <1>NumbersFacts, Zenon
  <2> QED BY <2>7, <2>4, <2>2, Zenon
<1>TotalLeq.
    ASSUME NEW v, NEW w, NEW n, Numbers(v, n), Numbers(w, n), \A k \in 1 .. n : w[k] <= v[k]
    PROVE  Total(w) <= Total(v)
  <2> USE <1>TotalLeq
  <2>1. n \in Nat /\ \A k \in 1 .. n : v[k] \in Int /\ w[k] \in Int
    BY <1>NumbersFacts
  <2>2. PICK f : Sums(f, v, n) /\ Total(v) = f[n]
    BY <1>NumbersFacts
  <2>3. PICK g : Sums(g, w, n) /\ Total(w) = g[n]
    BY <1>NumbersFacts
  <2>4. /\ \A k \in 0 .. n : f[k] \in Int /\ g[k] \in Int
        /\ f[0] = 0 /\ g[0] = 0
        /\ \A k \in 1 .. n : f[k] = f[k - 1] + v[k] /\ g[k] = g[k - 1] + w[k]
    BY <2>1, <2>2, <2>3, <1>SumsFacts
  <2> DEFINE T == {k \in 0 .. n : g[k] <= f[k]}
  <2>5. 0 \in T
    BY <2>1, <2>4, SMT
  <2>6. ASSUME NEW k \in 1 .. n, k - 1 \in T PROVE k \in T
    <3>1. g[k - 1] <= f[k - 1] /\ w[k] <= v[k] /\ k \in 0 .. n
      BY <2>6, SMT
    <3>2. g[k - 1] \in Int /\ f[k - 1] \in Int /\ w[k] \in Int /\ v[k] \in Int
      BY <2>1, <2>4, SMT
    <3>3. f[k] = f[k - 1] + v[k] /\ g[k] = g[k - 1] + w[k]
      BY <2>4
    <3> QED BY <3>1, <3>2, <3>3, SMT
  <2>7. \A k \in 0 .. n : k \in T
    <3> HIDE DEF T
    <3> QED BY <2>1, <2>5, <2>6, <1>UpTo
  <2> QED BY <2>7, <2>1, <2>2, <2>3, SMT
\* A sequence of which a front of no less than nothing is dropped.
<1>TotalSuffix.
    ASSUME NEW v, NEW w, NEW d \in Nat, NEW m, Numbers(w, m), Numbers(v, d + m),
           \A k \in 1 .. d + m : v[k] >= 0, \A k \in 1 .. m : w[k] = v[d + k]
    PROVE  Total(w) >= 0 /\ Total(w) <= Total(v)
  <2> USE SMT
  <2> USE <1>TotalSuffix
  <2>1. m \in Nat /\ (\A k \in 1 .. d + m : v[k] \in Int) /\ \A k \in 1 .. m : w[k] \in Int
    BY <1>NumbersFacts, Zenon
  <2>2. PICK f : Sums(f, v, d + m) /\ Total(v) = f[d + m]
    BY <1>NumbersFacts, Zenon
  <2>3. PICK g : Sums(g, w, m) /\ Total(w) = g[m]
    BY <1>NumbersFacts, Zenon
  <2>4. /\ \A k \in 0 .. d + m : f[k] \in Int
        /\ f[0] = 0
        /\ \A k \in 1 .. d + m : f[k] = f[k - 1] + v[k]
    <3>1. d + m \in Nat
      BY <2>1
    <3> QED BY <2>2, <3>1, <1>SumsFacts
  <2>5. /\ \A k \in 0 .. m : g[k] \in Int
        /\ g[0] = 0
        /\ \A k \in 1 .. m : g[k] = g[k - 1] + w[k]
    BY <2>1, <2>3, <1>SumsFacts
  <2>6. f[d] >= 0
    <3> DEFINE T == {k \in 0 .. d : f[k] >= 0}
    <3>1. 0 \in T
      BY <2>4
    <3>2. ASSUME NEW k \in 1 .. d, k - 1 \in T PROVE k \in T
      <4>1. k \in 1 .. d + m /\ k - 1 \in 0 .. d + m /\ k \in 0 .. d /\ f[k - 1] >= 0
        BY <2>1, <3>2
      <4>2. f[k] = f[k - 1] + v[k] /\ v[k] >= 0 /\ v[k] \in Int /\ f[k - 1] \in Int
        BY <4>1, <2>1, <2>4, Zenon
      <4> QED BY <4>1, <4>2
    <3>3. \A k \in 0 .. d : k \in T
      <4> HIDE DEF T
      <4> QED BY <3>1, <3>2, <1>UpTo, Zenon
    <3> QED BY <3>3
  <2> DEFINE T == {k \in 0 .. m : g[k] >= 0 /\ g[k] <= f[d + k]}
  <2>7. 0 \in T
    <3>1. d + 0 = d
      OBVIOUS
    <3> QED BY <2>1, <2>5, <2>6, <3>1
  <2>8. ASSUME NEW k \in 1 .. m, k - 1 \in T PROVE k \in T
    <3>1. g[k - 1] >= 0 /\ g[k - 1] <= f[d + (k - 1)] /\ k \in 0 .. m
      BY <2>8
    <3>2. d + k \in 1 .. d + m /\ (d + k) - 1 = d + (k - 1) /\ d + (k - 1) \in 0 .. d + m
          /\ k - 1 \in 0 .. m
      BY <2>1
    <3>3. f[d + k] = f[d + (k - 1)] + v[d + k] /\ g[k] = g[k - 1] + w[k] /\ w[k] = v[d + k]
      BY <3>2, <2>4, <2>5, Zenon
    <3>4. /\ g[k - 1] \in Int /\ f[d + (k - 1)] \in Int
          /\ v[d + k] \in Int /\ v[d + k] >= 0
      BY <3>2, <2>1, <2>4, <2>5, Zenon
    <3> QED BY <3>1, <3>3, <3>4
  <2>9. \A k \in 0 .. m : k \in T
    <3> HIDE DEF T
    <3> QED BY <2>1, <2>7, <2>8, <1>UpTo, Zenon
  <2> QED BY <2>9, <2>1, <2>2, <2>3
<1>SizesFacts.
    ASSUME NEW list, Sized(list)
    PROVE  /\ Numbers(Sizes(list), Len(list))
           /\ SumSizes(list) = Total(Sizes(list))
           /\ SumSizes(list) \in Int
           /\ \A k \in 1 .. Len(list) : Sizes(list)[k] = list[k].size
  <2> USE <1>SizesFacts
  <2> DEFINE n == Len(list)
             v == Sizes(list)
  <2>1. n \in Nat /\ \A k \in 1 .. n : list[k].size \in Int
    BY SMT DEF Sized
  <2>2. v = [k \in 1 .. n |-> list[k].size]
    BY DEF Sizes
  <2>3. v \in Seq(Int) /\ Len(v) = n /\ \A k \in 1 .. n : v[k] = list[k].size
    <3> HIDE DEF n, v
    <3> QED BY <2>1, <2>2, SMT
  <2>4. Numbers(v, n)
    BY <2>3 DEF Numbers
  <2>5. SumSizes(list) = Total(v)
    BY DEF SumSizes, Sizes
  <2>6. Total(v) \in Int
    BY <2>4, <1>TotalInt
  <2> QED BY <2>3, <2>4, <2>5, <2>6
<1>SizesGain.
    ASSUME NEW list, NEW new, NEW i, Sized(list), Sized(new), Gains(list, new, i)
    PROVE  SumSizes(new) = SumSizes(list) + new[i].size
  <2> USE <1>SizesGain
  <2> DEFINE n == Len(list)
             v == Sizes(list)
             w == Sizes(new)
  <2>1. /\ Numbers(v, n) /\ Numbers(w, n + 1)
        /\ SumSizes(list) = Total(v) /\ SumSizes(new) = Total(w)
    BY <1>SizesFacts DEF Gains
  <2>2. n \in Nat /\ i \in 1 .. n + 1
    BY DEF Gains, Sized
  <2>3. \A k \in 1 .. n : v[k] = list[k].size
    BY <1>SizesFacts
  <2>4. \A k \in 1 .. n + 1 : w[k] = new[k].size
    BY <1>SizesFacts DEF Gains
  <2>5. \A k \in 1 .. n + 1 : new[k] = Inserted(list, i, new[i], k)
    BY DEF Gains
  <2> HIDE DEF n, v, w
  <2>6. \A k \in 1 .. n + 1 :
          w[k] = IF k < i THEN v[k] ELSE IF k = i THEN w[i] ELSE v[k - 1]
    <3> SUFFICES ASSUME NEW k \in 1 .. n + 1
                 PROVE  w[k] = IF k < i THEN v[k] ELSE IF k = i THEN w[i] ELSE v[k - 1]
      OBVIOUS
    <3>1. w[k] = Inserted(list, i, new[i], k).size
      BY <2>4, <2>5
    <3>2. CASE k < i
      <4>1. k \in 1 .. n /\ Inserted(list, i, new[i], k) = list[k]
        BY <3>2, <2>2, SMT DEF Inserted
      <4> QED BY <4>1, <3>1, <3>2, <2>3
    <3>3. CASE k = i
      BY <3>3, SMT
    <3>4. CASE i < k
      <4>1. /\ k - 1 \in 1 .. n /\ ~(k < i) /\ k # i
            /\ Inserted(list, i, new[i], k) = list[k - 1]
        BY <3>4, <2>2, SMT DEF Inserted
      <4> QED BY <4>1, <3>1, <2>3
    <3> QED BY <3>2, <3>3, <3>4, <2>2, SMT
  <2>7. Total(w) = Total(v) + w[i]
    BY <2>1, <2>2, <2>6, <1>TotalInsert
  <2> QED BY <2>1, <2>2, <2>4, <2>7
<1>PduSizeInt.
    ASSUME NEW seg \in Waiting
    PROVE  PduSize(seg) \in Int
  <2>1. seg.first \in BOOLEAN /\ seg.last \in BOOLEAN /\ seg.size \in Nat
    BY DEF Waiting
  <2>2. HeaderSize(seg) \in Nat
    BY <2>1, HeaderFacts DEF HeaderSize
  <2> QED BY <2>1, <2>2, SMT DEF PduSize
<1>PduSizesFacts.
    ASSUME NEW list \in Seq(Waiting)
    PROVE  /\ Numbers(PduSizes(list), Len(list))
           /\ \A k \in 1 .. Len(list) : PduSizes(list)[k] = PduSize(list[k])
  <2> DEFINE n == Len(list)
             v == PduSizes(list)
  <2>1. n \in Nat /\ \A k \in 1 .. n : PduSize(list[k]) \in Int
    BY WaitingTypes, <1>PduSizeInt
  <2>2. v = [k \in 1 .. n |-> PduSize(list[k])]
    BY DEF PduSizes
  <2>3. v \in Seq(Int) /\ Len(v) = n /\ \A k \in 1 .. n : v[k] = PduSize(list[k])
    <3> HIDE DEF n, v
    <3> QED BY <2>1, <2>2, SMT
  <2> QED BY <2>3 DEF Numbers
<1>PduSizesGain.
    ASSUME NEW list \in Seq(Waiting), NEW new \in Seq(Waiting), NEW i, Gains(list, new, i)
    PROVE  Total(PduSizes(new)) = Total(PduSizes(list)) + PduSize(new[i])
  <2> USE <1>PduSizesGain
  <2> DEFINE n == Len(list)
             v == PduSizes(list)
             w == PduSizes(new)
  <2>1. Numbers(v, n) /\ Numbers(w, n + 1)
    BY <1>PduSizesFacts DEF Gains
  <2>2. n \in Nat /\ i \in 1 .. n + 1
    BY WaitingTypes DEF Gains
  <2>3. \A k \in 1 .. n : v[k] = PduSize(list[k])
    BY <1>PduSizesFacts
  <2>4. \A k \in 1 .. n + 1 : w[k] = PduSize(new[k])
    BY <1>PduSizesFacts DEF Gains
  <2>5. \A k \in 1 .. n + 1 : new[k] = Inserted(list, i, new[i], k)
    BY DEF Gains
  <2> HIDE DEF n, v, w
  <2>6. \A k \in 1 .. n + 1 :
          w[k] = IF k < i THEN v[k] ELSE IF k = i THEN w[i] ELSE v[k - 1]
    <3> SUFFICES ASSUME NEW k \in 1 .. n + 1
                 PROVE  w[k] = IF k < i THEN v[k] ELSE IF k = i THEN w[i] ELSE v[k - 1]
      OBVIOUS
    <3>1. w[k] = PduSize(Inserted(list, i, new[i], k))
      BY <2>4, <2>5
    <3>2. CASE k < i
      <4>1. k \in 1 .. n /\ Inserted(list, i, new[i], k) = list[k]
        BY <3>2, <2>2, SMT DEF Inserted
      <4> QED BY <4>1, <3>1, <3>2, <2>3
    <3>3. CASE k = i
      BY <3>3, SMT
    <3>4. CASE i < k
      <4>1. /\ k - 1 \in 1 .. n /\ ~(k < i) /\ k # i
            /\ Inserted(list, i, new[i], k) = list[k - 1]
        BY <3>4, <2>2, SMT DEF Inserted
      <4> QED BY <4>1, <3>1, <2>3
    <3> QED BY <3>2, <3>3, <3>4, <2>2, SMT
  <2>7. Total(w) = Total(v) + w[i]
    BY <2>1, <2>2, <2>6, <1>TotalInsert
  <2> QED BY <2>2, <2>4, <2>7 DEF v, w
<1>WaitingSized.
    ASSUME NEW list \in Seq(Waiting) PROVE Sized(list)
  BY WaitingTypes DEF Sized
<1>EntriesSized.
    ASSUME NEW list \in Seq(Entry) PROVE Sized(list)
  BY ListTypes DEF Sized
<1>TailGains.
    ASSUME NEW list \in Seq(Waiting), list # <<>>
    PROVE  /\ Tail(list) \in Seq(Waiting) /\ Head(list) = list[1]
           /\ Gains(Tail(list), list, 1)
  <2> USE <1>TailGains
  <2> DEFINE new == Tail(list)
  <2>1. /\ Len(list) \in Nat /\ Len(list) >= 1 /\ new \in Seq(Waiting)
        /\ Len(new) = Len(list) - 1 /\ Head(list) = list[1]
        /\ \A i \in 1 .. Len(list) - 1 : new[i] = list[i + 1]
    BY SMT
  <2> HIDE DEF new
  <2>2. Len(new) + 1 = Len(list) /\ 1 \in 1 .. Len(new) + 1
    BY <2>1, SMT
  <2>3. ASSUME NEW k \in 1 .. Len(new) + 1 PROVE list[k] = Inserted(new, 1, list[1], k)
    <3>1. CASE k = 1
      BY <3>1, SMT DEF Inserted
    <3>2. CASE k # 1
      <4>1. k - 1 \in 1 .. Len(list) - 1 /\ (k - 1) + 1 = k /\ ~(k < 1)
        BY <3>2, <2>1, SMT
      <4>2. new[k - 1] = list[k]
        BY <4>1, <2>1
      <4> QED BY <3>2, <4>1, <4>2 DEF Inserted
    <3> QED BY <3>1, <3>2
  <2>4. Gains(new, list, 1)
    BY <2>2, <2>3 DEF Gains
  <2> QED BY <2>1, <2>4 DEF new
<1>PrependGains.
    ASSUME NEW list \in Seq(Waiting), NEW seg \in Waiting
    PROVE  LET new == <<seg>> \o list
           IN  new \in Seq(Waiting) /\ new[1] = seg /\ Gains(list, new, 1)
  <2> DEFINE new == <<seg>> \o list
             one == <<seg>>
  <2>1. one \in Seq(Waiting) /\ Len(one) = 1 /\ one[1] = seg
    BY SMT
  <2>2. new = one \o list
    OBVIOUS
  <2> HIDE DEF new, one
  <2>3. Len(list) \in Nat
    BY SMT
  <2>4. /\ new \in Seq(Waiting) /\ Len(new) = Len(one) + Len(list)
        /\ \A i \in 1 .. Len(one) + Len(list) :
             new[i] = IF i <= Len(one) THEN one[i] ELSE list[i - Len(one)]
    <3>1. one \in Seq(Waiting) /\ list \in Seq(Waiting)
      BY <2>1
    <3> QED BY <3>1, <2>2, SMT
  <2>5. new[1] = seg /\ Len(new) = Len(list) + 1 /\ 1 \in 1 .. Len(list) + 1
    BY <2>1, <2>3, <2>4, SMT
  <2>6. \A k \in 1 .. Len(list) + 1 : new[k] = Inserted(list, 1, new[1], k)
    BY <2>1, <2>3, <2>4, <2>5, SMT DEF Inserted
  <2>7. Gains(list, new, 1)
    BY <2>5, <2>6 DEF Gains
  <2> QED BY <2>4, <2>5, <2>7 DEF new
<1>AppendGains.
    ASSUME NEW list \in Seq(Waiting), NEW seg \in Waiting
    PROVE  LET new == Append(list, seg)
           IN  /\ new \in Seq(Waiting) /\ new[Len(list) + 1] = seg
               /\ Gains(list, new, Len(list) + 1)
  <2> USE SMT
  <2> DEFINE new == Append(list, seg)
  <2>1. /\ Len(list) \in Nat /\ new \in Seq(Waiting) /\ Len(new) = Len(list) + 1
        /\ new[Len(list) + 1] = seg /\ \A k \in 1 .. Len(list) : new[k] = list[k]
    OBVIOUS
  <2> HIDE DEF new
  <2>2. \A k \in 1 .. Len(list) + 1 : new[k] = Inserted(list, Len(list) + 1, seg, k)
    BY <2>1 DEF Inserted
  <2>3. Gains(list, new, Len(list) + 1)
    BY <2>1, <2>2 DEF Gains
  <2> QED BY <2>1, <2>3, Zenon DEF new
<1>RemoveGains.
    ASSUME NEW list \in Seq(Waiting), NEW k \in 1 .. Len(list)
    PROVE  RemoveAt(list, k) \in Seq(Waiting) /\ Gains(RemoveAt(list, k), list, k)
  <2> USE SMT
  <2> DEFINE new == RemoveAt(list, k)
             a == SubSeq(list, 1, k - 1)
             b == SubSeq(list, k + 1, Len(list))
  <2>1. Len(list) \in Nat
    OBVIOUS
  <2>2. a \in Seq(Waiting) /\ Len(a) = k - 1 /\ \A i \in 1 .. k - 1 : a[i] = list[i]
    BY <2>1
  <2>3. /\ b \in Seq(Waiting) /\ Len(b) = Len(list) - k
        /\ \A i \in 1 .. Len(list) - k : b[i] = list[k + i]
    BY <2>1
  <2>4. new = a \o b
    BY Zenon DEF RemoveAt
  <2> HIDE DEF a, b, new
  <2>5. /\ new \in Seq(Waiting) /\ Len(new) = Len(a) + Len(b)
        /\ \A i \in 1 .. Len(a) + Len(b) :
             new[i] = IF i <= Len(a) THEN a[i] ELSE b[i - Len(a)]
    <3>1. a \in Seq(Waiting) /\ b \in Seq(Waiting)
      BY <2>2, <2>3, Zenon
    <3> QED BY <3>1, <2>4
  <2>6. new \in Seq(Waiting) /\ Len(new) + 1 = Len(list) /\ k \in 1 .. Len(new) + 1
    BY <2>1, <2>2, <2>3, <2>5
  <2>7. ASSUME NEW i \in 1 .. Len(new) + 1 PROVE list[i] = Inserted(new, k, list[k], i)
    <3>1. CASE i < k
      <4>1. i \in 1 .. Len(a) + Len(b) /\ i <= Len(a) /\ i \in 1 .. k - 1
        BY <3>1, <2>1, <2>2, <2>3
      <4>2. new[i] = list[i]
        BY <4>1, <2>2, <2>5, Zenon
      <4> QED BY <3>1, <4>2, Zenon DEF Inserted
    <3>2. CASE i = k
      BY <3>2 DEF Inserted
    <3>3. CASE k < i
      <4>1. /\ i - 1 \in 1 .. Len(a) + Len(b) /\ ~(i - 1 <= Len(a))
            /\ (i - 1) - Len(a) = i - k
            /\ i - k \in 1 .. Len(list) - k /\ k + (i - k) = i
        BY <3>3, <2>1, <2>2, <2>3, <2>6
      <4>2. new[i - 1] = list[i]
        BY <4>1, <2>3, <2>5, Zenon
      <4>3. ~(i < k) /\ i # k
        BY <3>3
      <4> QED BY <4>2, <4>3, Zenon DEF Inserted
    <3> QED BY <3>1, <3>2, <3>3, <2>1
  <2>8. Gains(new, list, k)
    BY <2>6, <2>7, Zenon DEF Gains
  <2> QED BY <2>6, <2>8, Zenon DEF new
\* What the head of tx_list adds to the sums.
<1>HeadSizes.
    ASSUME NEW list \in Seq(Waiting), list # <<>>
    PROVE  /\ SumSizes(list) = SumSizes(Tail(list)) + Head(list).size
           /\ Total(PduSizes(list)) = Total(PduSizes(Tail(list))) + PduSize(Head(list))
           /\ Tail(list) \in Seq(Waiting) /\ Head(list) \in Waiting
           /\ Head(list).size \in Nat /\ PduSize(Head(list)) \in Int
  <2> USE <1>HeadSizes
  <2>1. Tail(list) \in Seq(Waiting) /\ Head(list) = list[1] /\ Gains(Tail(list), list, 1)
    BY <1>TailGains
  <2>2. Head(list) \in Waiting
    BY SMT
  <2>3. Head(list).size \in Nat /\ PduSize(Head(list)) \in Int
    BY <2>2, <1>PduSizeInt DEF Waiting
  <2>4. SumSizes(list) = SumSizes(Tail(list)) + Head(list).size
    BY <2>1, <1>SizesGain, <1>WaitingSized
  <2>5. Total(PduSizes(list)) = Total(PduSizes(Tail(list))) + PduSize(Head(list))
    <3> DEFINE tl == Tail(list)
               hd == Head(list)
    <3>1. tl \in Seq(Waiting) /\ hd = list[1] /\ Gains(tl, list, 1)
      BY <2>1
    <3> HIDE DEF tl, hd
    <3>2. Total(PduSizes(list)) = Total(PduSizes(tl)) + PduSize(hd)
      BY <3>1, <1>PduSizesGain
    <3> QED BY <3>2 DEF tl, hd
  <2> QED BY <2>1, <2>2, <2>3, <2>4, <2>5
<1>SumsInt.
    ASSUME NEW list \in Seq(Waiting)
    PROVE  SumSizes(list) \in Int /\ Total(PduSizes(list)) \in Int
  <2>1. SumSizes(list) \in Int
    BY <1>WaitingSized, <1>SizesFacts
  <2>2. Total(PduSizes(list)) \in Int
    BY <1>PduSizesFacts, <1>TotalInt
  <2> QED BY <2>1, <2>2
<1>SduSizes.
    ASSUME SendInv, TxSizes, NEW size \in SduSize, recv_sdu(size)
    PROVE  TxSizes'
  <2> USE <1>SduSizes
  <2> DEFINE seg == [id |-> Len(submitted) + 1, so |-> 0, size |-> size,
                     first |-> TRUE, last |-> TRUE]
             new == Append(tx_list, seg)
             i == Len(tx_list) + 1
  <2>1. /\ tx_list' = new /\ bstatus' = bstatus + PduSize(seg)
        /\ tx_size' = tx_size + size /\ tx_size + size <= TxMaxSize
    BY DEF recv_sdu
  <2>2. tx_list \in Seq(Waiting) /\ submitted \in Seq(Nat)
    BY DEF SendInv, TxShape
  <2>3. size \in Nat /\ Len(submitted) \in Nat
    BY <2>2, SizeAssumption, SMT
  <2>4. seg \in Waiting /\ seg.size = size
    BY <2>3, SMT DEF Waiting
  <2> HIDE DEF seg
  <2>5. new \in Seq(Waiting) /\ new[i] = seg /\ Gains(tx_list, new, i)
    BY <2>2, <2>4, <1>AppendGains
  <2> HIDE DEF new, i
  <2>6. SumSizes(new) = SumSizes(tx_list) + size
    BY <2>2, <2>4, <2>5, <1>SizesGain, <1>WaitingSized
  <2>7. Total(PduSizes(new)) = Total(PduSizes(tx_list)) + PduSize(seg)
    BY <2>2, <2>5, <1>PduSizesGain
  <2>8. SumSizes(tx_list) \in Int
    BY <2>2, <1>SumsInt
  <2>9. tx_size' \in Int /\ SumSizes(new) <= tx_size' /\ tx_size' <= TxMaxSize
    BY <2>1, <2>3, <2>6, <2>8, SMT DEF TxSizes
  <2>10. bstatus' = Total(PduSizes(new))
    BY <2>1, <2>7 DEF TxSizes
  <2> QED BY <2>1, <2>9, <2>10 DEF TxSizes
<1>GrantSizes.
    ASSUME SendInv, TxSizes, NEW size \in Grant,
           \/ generate_tx_pdu_whole(size) \/ generate_tx_pdu_cut(size)
           \/ generate_tx_pdu_no_room(size)
    PROVE  TxSizes'
  <2> USE <1>GrantSizes
  <2> DEFINE seg == Head(tx_list)
             tl == Tail(tx_list)
  <2>1. tx_list # <<>> /\ tx_list \in Seq(Waiting)
    BY DEF generate_tx_pdu_whole, generate_tx_pdu_cut, generate_tx_pdu_no_room,
           SendInv, TxShape
  <2>2. /\ SumSizes(tx_list) = SumSizes(tl) + seg.size
        /\ Total(PduSizes(tx_list)) = Total(PduSizes(tl)) + PduSize(seg)
        /\ tl \in Seq(Waiting) /\ seg \in Waiting
        /\ seg.size \in Nat /\ PduSize(seg) \in Int
    BY <2>1, <1>HeadSizes
  <2>3. SumSizes(tl) \in Int /\ Total(PduSizes(tl)) \in Int
    BY <2>2, <1>SumsInt
  <2>4. /\ bstatus = Total(PduSizes(tx_list)) /\ tx_size \in Int
        /\ SumSizes(tx_list) <= tx_size /\ tx_size <= TxMaxSize /\ TxMaxSize \in Nat
    BY SizeAssumption DEF TxSizes
  <2>5. CASE generate_tx_pdu_whole(size)
    <3>1. /\ tx_list' = tl /\ bstatus' = bstatus - PduSize(seg)
          /\ tx_size' = tx_size - seg.size
      BY <2>5 DEF generate_tx_pdu_whole
    <3> HIDE DEF tl, seg
    <3>2. bstatus' = Total(PduSizes(tl))
      BY <3>1, <2>2, <2>3, <2>4, SMT
    <3>3. tx_size' \in Int /\ SumSizes(tl) <= tx_size' /\ tx_size' <= TxMaxSize
      BY <3>1, <2>2, <2>3, <2>4, SMTT(30)
    <3> QED BY <3>1, <3>2, <3>3 DEF TxSizes
  <2>6. CASE generate_tx_pdu_no_room(size)
    <3>1. /\ tx_list' = tl /\ bstatus' = bstatus - PduSize(seg) /\ tx_size' = tx_size
      BY <2>6 DEF generate_tx_pdu_no_room
    <3> HIDE DEF tl, seg
    <3>2. bstatus' = Total(PduSizes(tl))
      BY <3>1, <2>2, <2>3, <2>4, SMT
    <3>3. tx_size' \in Int /\ SumSizes(tl) <= tx_size' /\ tx_size' <= TxMaxSize
      BY <3>1, <2>2, <2>3, <2>4, SMT
    <3> QED BY <3>1, <3>2, <3>3 DEF TxSizes
  <2>7. CASE generate_tx_pdu_cut(size)
    <3> DEFINE cut == resegment_cut(seg, size)
               rest == resegment_rest(seg, cut)
               new == <<rest>> \o tl
    <3>1. /\ tx_list' = new /\ bstatus' = (bstatus - PduSize(seg)) + PduSize(rest)
          /\ tx_size' = tx_size - cut.size
          /\ size < PduSize(seg) /\ cut.size >= 1
      BY <2>7 DEF generate_tx_pdu_cut
    <3>2. seg.last /\ seg.size >= 1
      BY <2>1, HeadFacts
    <3>3. size \in Nat
      BY SizeAssumption
    <3>4. CutOf(seg, cut, rest)
      <4> HIDE DEF seg
      <4> QED BY <3>1, <3>2, <3>3, <2>2, CutFacts
    <3> HIDE DEF seg, tl, cut, rest
    <3>5. rest \in Waiting /\ cut.size \in Nat /\ rest.size = seg.size - cut.size
      BY <3>4 DEF CutOf
    <3>6. new \in Seq(Waiting) /\ new[1] = rest /\ Gains(tl, new, 1)
      BY <3>5, <2>2, <1>PrependGains
    <3> HIDE DEF new
    <3>7. SumSizes(new) = SumSizes(tl) + rest.size
      BY <3>6, <2>2, <1>SizesGain, <1>WaitingSized
    <3>8. Total(PduSizes(new)) = Total(PduSizes(tl)) + PduSize(rest)
      BY <3>6, <2>2, <1>PduSizesGain
    <3>9. PduSize(rest) \in Int
      BY <3>5, <1>PduSizeInt
    <3>10. bstatus' = Total(PduSizes(new))
      BY <3>1, <3>8, <3>9, <2>2, <2>3, <2>4, SMT
    <3>11. tx_size' \in Int /\ SumSizes(new) <= tx_size' /\ tx_size' <= TxMaxSize
      <4>1. SumSizes(new) = SumSizes(tx_list) - cut.size /\ SumSizes(tx_list) \in Int
        BY <3>5, <3>7, <2>2, <2>3, SMT
      <4> QED BY <4>1, <3>1, <3>5, <2>4, SMT
    <3> QED BY <3>1, <3>10, <3>11 DEF TxSizes
  <2> QED BY <2>5, <2>6, <2>7
<1>DiscardSizes.
    ASSUME SendInv, TxSizes, NEW id, discard_sdu(id)
    PROVE  TxSizes'
  <2> USE <1>DiscardSizes
  <2>1. PICK k \in 1 .. Len(tx_list) : /\ tx_list' = RemoveAt(tx_list, k)
                                       /\ bstatus' = bstatus - PduSize(tx_list[k])
    BY DEF discard_sdu
  <2>2. tx_size' = tx_size
    BY DEF discard_sdu
  <2>3. tx_list \in Seq(Waiting)
    BY DEF SendInv, TxShape
  <2> DEFINE new == RemoveAt(tx_list, k)
             seg == tx_list[k]
  <2>4. new \in Seq(Waiting) /\ Gains(new, tx_list, k)
    BY <2>3, <1>RemoveGains
  <2>5. seg \in Waiting
    BY <2>3, SMT
  <2>6. seg.size \in Nat /\ PduSize(seg) \in Int
    BY <2>5, <1>PduSizeInt DEF Waiting
  <2> HIDE DEF new
  <2>7. SumSizes(tx_list) = SumSizes(new) + seg.size
    BY <2>3, <2>4, <1>SizesGain, <1>WaitingSized
  <2>8. Total(PduSizes(tx_list)) = Total(PduSizes(new)) + PduSize(seg)
    BY <2>3, <2>4, <1>PduSizesGain
  <2> HIDE DEF seg
  <2>9. SumSizes(new) \in Int /\ Total(PduSizes(new)) \in Int
    BY <2>4, <1>SumsInt
  <2>10. tx_list' = new /\ bstatus' = bstatus - PduSize(seg)
    BY <2>1 DEF new, seg
  <2>11. bstatus' = Total(PduSizes(new))
    BY <2>6, <2>8, <2>9, <2>10, SMT DEF TxSizes
  <2>12. tx_size' \in Int /\ SumSizes(new) <= tx_size' /\ tx_size' <= TxMaxSize
    BY <2>2, <2>6, <2>7, <2>9, SizeAssumption, SMT DEF TxSizes
  <2> QED BY <2>10, <2>11, <2>12 DEF TxSizes
\* The PDU that recv_pdu puts in rx_list adds its bytes.
<1>AddSizes.
    ASSUME RecvInv, NEW p, PduOK(p), ~Stale(p), InWindow(p)
    PROVE  LET list == pdu_list_add(rx_next_highest, rx_list, Received(p))
           IN  list \in Seq(Entry) /\ SumSizes(list) = SumSizes(rx_list) + p.size
  <2> USE <1>AddSizes
  <2> DEFINE e == Received(p)
             list == pdu_list_add(rx_next_highest, rx_list, e)
  <2>1. /\ high \in Int /\ rx_next_highest = high % SnModulus
        /\ ListOK(rx_list, high - window_size, high)
    BY RecvFacts
  <2>2. /\ e \in Entry /\ e.n = p.n /\ e.sn = e.n % SnModulus /\ e.size = p.size
    BY ReceivedFacts
  <2>3. high - window_size <= e.n /\ e.n < high + window_size
    BY <2>2, AcceptedFacts
  <2>4. rx_list \in Seq(Entry)
    BY <2>1 DEF ListOK
  <2> HIDE DEF e
  <2>5. PICK i \in 1 .. Len(rx_list) + 1 : list = InsertAt(rx_list, i, e)
    BY <2>1, <2>2, <2>3, AddPlace
  <2>6. /\ list \in Seq(Entry) /\ Len(list) = Len(rx_list) + 1
        /\ \A k \in 1 .. Len(rx_list) + 1 : list[k] = Inserted(rx_list, i, e, k)
    BY <2>2, <2>4, <2>5, InsertFacts
  <2> HIDE DEF list
  <2>7. list[i] = e
    <3>1. list[i] = Inserted(rx_list, i, e, i)
      BY <2>6
    <3> QED BY <3>1, SMT DEF Inserted
  <2>8. Gains(rx_list, list, i)
    BY <2>6, <2>7 DEF Gains
  <2>9. SumSizes(list) = SumSizes(rx_list) + e.size
    BY <2>4, <2>6, <2>7, <2>8, <1>SizesGain, <1>EntriesSized
  <2> QED BY <2>2, <2>6, <2>9 DEF list, e
<1>DropSizes.
    ASSUME NEW list \in Seq(Entry), NEW out
    PROVE  /\ SumSizes(DropWhile(list, out)) \in Int
           /\ SumSizes(DropWhile(list, out)) <= SumSizes(list)
  <2> DEFINE S == {k \in 1 .. Len(list) : list[k].sn \notin out} \cup {Len(list) + 1}
             i == Min(S)
             kept == SubSeq(list, i, Len(list))
             d == i - 1
             m == Len(list) - d
  <2>1. Len(list) \in Nat /\ \A k \in 1 .. Len(list) : list[k].size \in Nat
    BY ListTypes
  <2>2. S \in SUBSET Nat /\ S # {} /\ S \subseteq 1 .. Len(list) + 1
    BY <2>1, SMT
  <2>3. i \in 1 .. Len(list) + 1
    <3> HIDE DEF S
    <3> QED BY <2>2, MinFacts
  <2>4. kept = DropWhile(list, out)
    BY DEF DropWhile
  <2> HIDE DEF i
  <2>5. /\ kept \in Seq(Entry) /\ Len(kept) = m /\ d \in Nat /\ m \in Nat /\ Len(list) = d + m
        /\ \A k \in 1 .. m : kept[k] = list[d + k]
    BY <2>1, <2>3, SMT
  <2> HIDE DEF kept, d, m
  <2>6. /\ Numbers(Sizes(list), d + m) /\ SumSizes(list) = Total(Sizes(list))
        /\ \A k \in 1 .. d + m : Sizes(list)[k] = list[k].size
    BY <2>5, <1>EntriesSized, <1>SizesFacts
  <2>7. /\ Numbers(Sizes(kept), m) /\ SumSizes(kept) = Total(Sizes(kept))
        /\ SumSizes(kept) \in Int
        /\ \A k \in 1 .. m : Sizes(kept)[k] = kept[k].size
    BY <2>5, <1>EntriesSized, <1>SizesFacts
  <2> DEFINE v == Sizes(list)
             w == Sizes(kept)
  <2>8. \A k \in 1 .. d + m : v[k] >= 0
    BY <2>1, <2>5, <2>6, SMT
  <2>9. \A k \in 1 .. m : w[k] = v[d + k]
    <3> SUFFICES ASSUME NEW k \in 1 .. m PROVE w[k] = v[d + k]
      OBVIOUS
    <3>1. d + k \in 1 .. d + m
      BY <2>5, SMT
    <3> QED BY <3>1, <2>5, <2>6, <2>7
  <2>10. Numbers(v, d + m) /\ Numbers(w, m)
    BY <2>6, <2>7
  <2> HIDE DEF v, w
  <2>11. Total(w) <= Total(v)
    BY <2>5, <2>8, <2>9, <2>10, <1>TotalSuffix
  <2> QED BY <2>4, <2>6, <2>7, <2>11 DEF v, w
<1>EmptiedSizes.
    ASSUME NEW list \in Seq(Entry), NEW sn
    PROVE  /\ SumSizes(Emptied(list, sn)) \in Int
           /\ SumSizes(Emptied(list, sn)) <= SumSizes(list)
  <2> DEFINE n == Len(list)
             after == Emptied(list, sn)
  <2>1. n \in Nat /\ \A k \in 1 .. n : list[k] \in Entry /\ list[k].size \in Nat
    BY ListTypes
  <2>2. after = [k \in 1 .. n |-> IF list[k].sn = sn
                                  THEN [list[k] EXCEPT !.data = FALSE, !.size = 0]
                                  ELSE list[k]]
    BY DEF Emptied
  <2>3. Len(after) = n
    <3>1. n \in Nat /\ after \in [1 .. n -> {after[k] : k \in 1 .. n}]
      BY <2>1, <2>2
    <3> HIDE DEF n, after
    <3> QED BY <3>1, SMT
  <2>4. ASSUME NEW k \in 1 .. n PROVE after[k].size \in Nat /\ after[k].size <= list[k].size
    <3>1. CASE list[k].sn = sn
      <4>1. after[k] = [list[k] EXCEPT !.data = FALSE, !.size = 0]
        BY <3>1, <2>2
      <4>2. after[k].size = 0
        BY <4>1, <2>1 DEF Entry
      <4> QED BY <4>2, <2>1, SMT
    <3>2. CASE list[k].sn # sn
      <4>1. after[k] = list[k]
        BY <3>2, <2>2
      <4> QED BY <4>1, <2>1, SMT
    <3> QED BY <3>1, <3>2
  <2>5. Sized(after) /\ Sized(list)
    BY <2>1, <2>3, <2>4 DEF Sized
  <2> DEFINE v == Sizes(list)
             w == Sizes(after)
  <2>6. /\ Numbers(v, n) /\ SumSizes(list) = Total(v)
        /\ \A k \in 1 .. n : v[k] = list[k].size
    BY <2>5, <1>SizesFacts
  <2>7. /\ Numbers(w, n) /\ SumSizes(after) = Total(w) /\ SumSizes(after) \in Int
        /\ \A k \in 1 .. n : w[k] = after[k].size
    <3> HIDE DEF after
    <3> QED BY <2>3, <2>5, <1>SizesFacts
  <2> HIDE DEF v, w, after
  <2>8. \A k \in 1 .. n : w[k] <= v[k]
    BY <2>4, <2>6, <2>7
  <2>9. Total(w) <= Total(v)
    BY <2>6, <2>7, <2>8, <1>TotalLeq
  <2> QED BY <2>6, <2>7, <2>9 DEF after
<1>SumNat.
    ASSUME NEW list \in Seq(Entry)
    PROVE  SumSizes(list) \in Int /\ SumSizes(list) >= 0
  <2> DEFINE v == Sizes(list)
             n == Len(list)
  <2>1. n \in Nat /\ \A k \in 1 .. n : list[k].size \in Nat
    BY ListTypes
  <2>2. /\ Numbers(v, n) /\ SumSizes(list) = Total(v) /\ SumSizes(list) \in Int
        /\ \A k \in 1 .. n : v[k] = list[k].size
    BY <1>EntriesSized, <1>SizesFacts
  <2> HIDE DEF v, n
  <2>3. \A k \in 1 .. n : v[k] >= 0
    BY <2>1, <2>2, SMT
  <2>4. 0 + n = n /\ \A k \in 1 .. n : v[k] = v[0 + k]
    BY <2>1, SMT
  <2>5. Numbers(v, 0 + n) /\ \A k \in 1 .. 0 + n : v[k] >= 0
    BY <2>2, <2>3, <2>4
  <2>6. Total(v) >= 0
    BY <2>2, <2>4, <2>5, <1>TotalSuffix
  <2> QED BY <2>2, <2>6
<1>RecvSizes.
    ASSUME RecvInv, RxSizes, NEW p, PduOK(p),
           recv_pdu_completes(p) \/ recv_pdu_inside(p) \/ recv_pdu_moves_window(p)
    PROVE  RxSizes'
  <2> USE <1>RecvSizes
  <2> DEFINE list == pdu_list_add(rx_next_highest, rx_list, Received(p))
  <2>1. ~Stale(p) /\ InWindow(p) /\ ~BufferFull(p)
    BY DEF recv_pdu_completes, recv_pdu_inside, recv_pdu_moves_window, Accepted
  <2>2. list \in Seq(Entry) /\ SumSizes(list) = SumSizes(rx_list) + p.size
    BY <2>1, <1>AddSizes
  <2>3. rx_list \in Seq(Entry)
    BY RecvFacts DEF ListOK
  <2>4. /\ SumSizes(rx_list) \in Int /\ SumSizes(list) \in Int
        /\ rx_size \in Int /\ SumSizes(rx_list) <= rx_size
        /\ p.size \in Nat /\ rx_size + p.size <= RxMaxSize /\ RxMaxSize \in Nat
    BY <2>1, <2>2, <2>3, <1>SumNat, SizeAssumption, SMT DEF RxSizes, PduOK, BufferFull
  <2>5. ASSUME NEW new, SumSizes(new) \in Int, SumSizes(new) <= SumSizes(list),
               rx_size' = rx_size + p.size - (SumSizes(list) - SumSizes(new)), rx_list' = new
        PROVE  RxSizes'
    <3> DEFINE a == SumSizes(rx_list)
               b == SumSizes(list)
               c == SumSizes(new)
    <3>1. /\ a \in Int /\ b \in Int /\ c \in Int /\ c <= b /\ b = a + p.size
          /\ rx_size \in Int /\ a <= rx_size /\ p.size \in Nat
          /\ rx_size + p.size <= RxMaxSize /\ RxMaxSize \in Nat
          /\ rx_size' = rx_size + p.size - (b - c)
      BY <2>2, <2>4, <2>5
    <3> HIDE DEF a, b, c
    <3>2. rx_size' \in Int /\ c <= rx_size' /\ rx_size' <= RxMaxSize
      BY <3>1, SMT
    <3> QED BY <3>2, <2>5 DEF RxSizes, c
  <2>6. CASE recv_pdu_completes(p)
    <3> DEFINE new == Emptied(list, p.sn)
    <3>1. rx_list' = new /\ rx_size' = rx_size + p.size - (SumSizes(list) - SumSizes(new))
      BY <2>6 DEF recv_pdu_completes, UpdateTimer
    <3>2. SumSizes(new) \in Int /\ SumSizes(new) <= SumSizes(list)
      BY <2>2, <1>EmptiedSizes
    <3> HIDE DEF new, list
    <3> QED BY <3>1, <3>2, <2>5
  <2>7. CASE recv_pdu_moves_window(p)
    <3> DEFINE highest == (p.sn + 1) % SnModulus
               out == {sn \in SN : sn_compare_rx(highest, sn, highest) >= 0}
               new == DropWhile(list, out)
    <3>1. rx_list' = new /\ rx_size' = rx_size + p.size - (SumSizes(list) - SumSizes(new))
      BY <2>7 DEF recv_pdu_moves_window, UpdateTimer
    <3> HIDE DEF out
    <3>2. SumSizes(new) \in Int /\ SumSizes(new) <= SumSizes(list)
      BY <2>2, <1>DropSizes
    <3> HIDE DEF new, list
    <3> QED BY <3>1, <3>2, <2>5
  <2>8. CASE recv_pdu_inside(p)
    <3>1. rx_list' = list /\ rx_size' = rx_size + p.size
      BY <2>8 DEF recv_pdu_inside, UpdateTimer
    <3> HIDE DEF list
    <3>2. SumSizes(list) <= rx_size' /\ rx_size' \in Int /\ rx_size' <= RxMaxSize
      BY <3>1, <2>2, <2>4, SMT
    <3> QED BY <3>1, <3>2 DEF RxSizes
  <2> QED BY <2>6, <2>7, <2>8
<1>CheckSizes.
    ASSUME RecvInv, RxSizes, check_t_reassembly
    PROVE  RxSizes'
  <2> USE <1>CheckSizes
  <2> DEFINE next == FirstNotDelivered(rx_list, rx_timer_trigger)
             old == {sn \in SN : sn_compare_rx(rx_next_highest, sn, next) < 0}
             kept == DropWhile(rx_list, old)
  <2>1. rx_list' = kept /\ rx_size' = rx_size
    BY DEF check_t_reassembly
  <2> HIDE DEF old
  <2>2. rx_list \in Seq(Entry)
    BY RecvFacts DEF ListOK
  <2>3. SumSizes(kept) \in Int /\ SumSizes(kept) <= SumSizes(rx_list)
    BY <2>2, <1>DropSizes
  <2> HIDE DEF kept
  <2>4. SumSizes(rx_list) \in Int
    BY <2>2, <1>SumNat
  <2> QED BY <2>1, <2>3, <2>4, SMT DEF RxSizes
<1>EmptySizes.
    SumSizes(<<>>) = 0 /\ Total(PduSizes(<<>>)) = 0
  <2>1. Sizes(<<>>) = <<>> /\ PduSizes(<<>>) = <<>>
    BY SMT DEF Sizes, PduSizes
  <2>2. SumSizes(<<>>) = Total(Sizes(<<>>))
    BY DEF SumSizes, Sizes
  <2> QED BY <2>1, <2>2, <1>TotalEmpty
<1>NextSizes.
    SizeInv /\ [Next]_vars => TxSizes' /\ RxSizes'
  <2> SUFFICES ASSUME SizeInv, [Next]_vars PROVE TxSizes' /\ RxSizes'
    OBVIOUS
  <2>1. SendInv /\ RecvInv /\ TxSizes /\ RxSizes /\ WInv
    BY DEF SizeInv, WInv
  <2>4. ASSUME UNCHANGED tx_vars PROVE TxSizes'
    BY <2>1, <2>4 DEF TxSizes, tx_vars
  <2>5. ASSUME rx_list' = rx_list, rx_size' = rx_size PROVE RxSizes'
    BY <2>1, <2>5 DEF RxSizes
  <2>6. ASSUME NEW size \in SduSize, recv_sdu(size) PROVE TxSizes' /\ RxSizes'
    <3>1. rx_list' = rx_list /\ rx_size' = rx_size
      BY <2>6 DEF recv_sdu, rx_vars
    <3> QED BY <3>1, <2>1, <2>5, <2>6, <1>SduSizes
  <2>7. ASSUME NEW size \in Grant,
               \/ generate_tx_pdu_whole(size) \/ generate_tx_pdu_cut(size)
               \/ generate_tx_pdu_no_room(size)
        PROVE  TxSizes' /\ RxSizes'
    <3>1. rx_list' = rx_list /\ rx_size' = rx_size
      BY <2>7 DEF generate_tx_pdu_whole, generate_tx_pdu_cut, generate_tx_pdu_no_room,
                  TxUnchanged, rx_vars
    <3> QED BY <3>1, <2>1, <2>5, <2>7, <1>GrantSizes
  <2>8. ASSUME NEW id \in 1 .. Len(submitted), discard_sdu(id) PROVE TxSizes' /\ RxSizes'
    <3>1. rx_list' = rx_list /\ rx_size' = rx_size
      BY <2>8 DEF discard_sdu, rx_vars
    <3> QED BY <3>1, <2>1, <2>5, <2>8, <1>DiscardSizes
  <2>9. ASSUME NEW p \in air, recv_pdu_full(p) \/ recv_pdu_discard(p) \/ lose(p)
        PROVE  TxSizes' /\ RxSizes'
    <3>1. UNCHANGED tx_vars /\ rx_list' = rx_list /\ rx_size' = rx_size
      BY <2>9 DEF recv_pdu_full, recv_pdu_discard, lose, rx_vars
    <3> QED BY <3>1, <2>4, <2>5
  <2>10. ASSUME NEW p \in air,
                recv_pdu_completes(p) \/ recv_pdu_inside(p) \/ recv_pdu_moves_window(p)
         PROVE  TxSizes' /\ RxSizes'
    <3>1. UNCHANGED tx_vars
      BY <2>10 DEF recv_pdu_completes, recv_pdu_inside, recv_pdu_moves_window, Accepted
    <3>2. PduOK(p)
      BY <2>1 DEF SendInv, AirOK
    <3> QED BY <3>1, <3>2, <2>1, <2>4, <2>10, <1>RecvSizes
  <2>11. CASE check_t_reassembly
    <3>1. UNCHANGED tx_vars
      BY <2>11 DEF check_t_reassembly
    <3> QED BY <3>1, <2>1, <2>4, <2>11, <1>CheckSizes
  <2>12. CASE reestablishment
    <3>1. /\ tx_list' = <<>> /\ tx_size' = 0 /\ bstatus' = 0
          /\ rx_list' = <<>> /\ rx_size' = 0
      BY <2>12 DEF reestablishment
    <3> QED BY <3>1, <1>EmptySizes, SizeAssumption, SMT DEF TxSizes, RxSizes
  <2>13. CASE UNCHANGED vars
    <3>1. UNCHANGED tx_vars /\ rx_list' = rx_list /\ rx_size' = rx_size
      BY <2>13 DEF vars, rx_vars
    <3> QED BY <3>1, <2>4, <2>5
  <2> QED BY <2>6, <2>7, <2>8, <2>9, <2>10, <2>11, <2>12, <2>13 DEF Next, recv_pdu
<1>SizesHold.
    ASSUME SizeInv
    PROVE  SizesExact
  <2> USE <1>SizesHold
  <2>1. RecvInv /\ TxSizes /\ RxSizes
    BY DEF SizeInv, WInv
  <2>2. rx_list \in Seq(Entry)
    BY <2>1, RecvFacts DEF ListOK
  <2>3. SumSizes(rx_list) \in Int /\ SumSizes(rx_list) >= 0
    BY <2>2, <1>SumNat
  <2>4. rx_size \in 0 .. RxMaxSize
    BY <2>1, <2>3, SizeAssumption, SMT DEF RxSizes
  <2>5. /\ bstatus = Total([k \in 1 .. Len(tx_list) |-> PduSize(tx_list[k])])
        /\ SumSizes(tx_list) <= tx_size /\ tx_size <= TxMaxSize
    BY <2>1 DEF TxSizes, PduSizes
  <2> QED BY <2>4, <2>5 DEF SizesExact
<1>TypesHold.
    ASSUME SizeInv
    PROVE  TypeOK
  <2> USE <1>TypesHold
  <2>1. SendInv /\ RecvInv /\ TxSizes /\ RxSizes
    BY DEF SizeInv, WInv
  <2>2. tx_list \in Seq(Waiting) /\ Segs(tx_list, submitted) /\ tx_next \in Nat
    BY <2>1 DEF SendInv, TxShape
  <2>3. bstatus \in Int /\ tx_size \in Int /\ rx_size \in Int
    BY <2>1, <2>2, <1>SumsInt DEF TxSizes, RxSizes
  <2>4. /\ rx_next_highest = high % SnModulus /\ rx_next_highest \in SN
        /\ rx_next_reassembly \in SN /\ rx_timer_trigger \in SN
        /\ t_reassembly_start \in {"off", "on"}
    BY <2>1, Modulo, SMT DEF RecvInv, RecvOK
  <2>5. \A k \in 1 .. Len(tx_list) :
          /\ tx_list[k].size >= 1
          /\ tx_list[k].so + tx_list[k].size = submitted[tx_list[k].id]
    BY <2>2 DEF Segs
  <2> QED BY <2>2, <2>3, <2>4, <2>5 DEF TypeOK
<1>1. ASSUME Init PROVE TxSizes /\ RxSizes
  <2>1. /\ tx_list = <<>> /\ tx_size = 0 /\ bstatus = 0 /\ rx_list = <<>> /\ rx_size = 0
    BY <1>1 DEF Init
  <2> QED BY <2>1, <1>EmptySizes, SizeAssumption, SMT DEF TxSizes, RxSizes
<1> QED BY <1>1, <1>NextSizes, <1>SizesHold, <1>TypesHold
-----------------------------------------------------------------------------
(* The receiver.                                                           *)

LEMMA Widen ==
    ASSUME NEW lo \in Int, NEW hi \in Int, NEW lo2 \in Int, NEW hi2 \in Int,
           NEW list, ListOK(list, lo, hi), lo2 <= lo, hi <= hi2
    PROVE  ListOK(list, lo2, hi2)
<1>1. list \in Seq(Entry) /\ \A k \in 1 .. Len(list) : list[k].n \in Int
  BY ListTypes, SMT DEF ListOK
<1>2. Within(list, lo2, hi2)
  BY <1>1, SMT DEF ListOK, Within
<1> QED BY <1>2 DEF ListOK

\* The entries found under an SN are the ones of the count it stands for.
LEMMA SegmentsOf ==
    ASSUME NEW h \in Int, NEW list, ListOK(list, h - window_size, h + window_size),
           NEW n \in Int, h - window_size <= n, n < h + window_size
    PROVE  Segments(list, n % SnModulus) = {k \in 1 .. Len(list) : list[k].n = n}
<1>1. \A k \in 1 .. Len(list) :
        /\ list[k].n \in Int /\ list[k].sn = list[k].n % SnModulus
        /\ h - window_size <= list[k].n /\ list[k].n < h + window_size
  BY ListTypes, SMT DEF ListOK, Within
<1>2. \A k \in 1 .. Len(list) : list[k].n % SnModulus = n % SnModulus => list[k].n = n
  BY <1>1, SameCount
<1> QED BY <1>1, <1>2 DEF Segments

\* sdu_delivered looks at the first entry of an SN only; that is enough.
LEMMA DelivIff ==
    ASSUME Least, NEW h \in Int, NEW list, ListOK(list, h - window_size, h + window_size),
           NEW n \in Int, h - window_size <= n, n < h + window_size
    PROVE  sdu_delivered(list, n % SnModulus) <=> Deliv(list, n)
<1> DEFINE S == Segments(list, n % SnModulus)
<1>1. S = {k \in 1 .. Len(list) : list[k].n = n}
  BY SegmentsOf, SMT
<1>2. Len(list) \in Nat /\ S \in SUBSET Nat
  BY <1>1, ListTypes, SMT DEF ListOK
<1>3. S # {} => Min(S) \in S /\ \A j \in S : Min(S) <= j
  BY <1>2, MinFacts
<1>4. sdu_delivered(list, n % SnModulus) <=> (S # {} /\ ~list[Min(S)].data)
  BY DEF sdu_delivered
<1> DEFINE m == Min(S)
<1> HIDE DEF S, m
<1>5. ASSUME S # {} /\ ~list[m].data PROVE Deliv(list, n)
  BY <1>1, <1>3, <1>5 DEF Deliv, m
<1>6. ASSUME Deliv(list, n) PROVE S # {} /\ ~list[m].data
  <2>1. PICK j \in 1 .. Len(list) : list[j].n = n /\ ~list[j].data
    BY <1>6 DEF Deliv
  <2>2. PICK i \in 1 .. Len(list) : list[i].n = n /\ list[i].so = 0 /\ ~list[i].data
    BY <2>1 DEF ListOK, Marked
  <2>3. i \in S /\ m \in S /\ m <= i /\ m \in 1 .. Len(list) /\ list[m].n = n
    BY <1>1, <1>3, <2>2 DEF m
  <2>4. CASE m = i
    BY <2>2, <2>3, <2>4
  <2>5. CASE m # i
    <3>1. m < i
      BY <2>3, <2>5, <1>2, SMT
    <3> QED BY <3>1, <2>2, <2>3 DEF ListOK, MarkedFirst
  <2> QED BY <2>4, <2>5
<1> QED BY <1>4, <1>5, <1>6 DEF m

\* A full SDU was not delivered before, starts at offset 0 and has its last
\* segment, up to which no byte is missing.
LEMMA FullFacts ==
    ASSUME Least, NEW h \in Int, NEW list, ListOK(list, h - window_size, h + window_size),
           NEW n \in Int, h - window_size <= n, n < h + window_size,
           sdu_full(list, n % SnModulus)
    PROVE  FullShape(list, n)
<1> DEFINE v == n % SnModulus
           S == Segments(list, v)
           i == Min(S)
<1>1. S = {k \in 1 .. Len(list) : list[k].n = n}
  BY SegmentsOf, SMT
<1>2. /\ Len(list) \in Nat
      /\ \A k \in 1 .. Len(list) : list[k].n \in Int /\ list[k].so \in Nat
  BY ListTypes, SMT DEF ListOK
<1>3. S # {} /\ list[i].data
  BY DEF sdu_full, HasData
<1>4. PICK k \in S : list[k].last /\ \A j \in S : j <= k => list[j].so <= Reach(list, j)
  BY DEF sdu_full
<1>5. S \in SUBSET Nat
  BY <1>1, <1>2, SMT
<1>6. i \in S /\ \A j \in S : i <= j
  BY <1>3, <1>5, MinFacts
<1>7. ~Deliv(list, n)
  <2>1. ~sdu_delivered(list, v)
    BY <1>3 DEF sdu_delivered
  <2> QED BY <2>1, DelivIff
<1>8. i \in 1 .. Len(list) /\ list[i].n = n /\ list[i].sn = v
  <2>1. i \in 1 .. Len(list) /\ list[i].n = n
    <3> HIDE DEF i, S
    <3> QED BY <1>1, <1>6
  <2>2. list[i].sn = v
    BY <1>6 DEF Segments
  <2> QED BY <2>1, <2>2
<1>9. Reach(list, i) = 0
  <2>1. {j \in Segments(list, list[i].sn) : j < i} = {}
    <3> HIDE DEF i, v
    <3> QED BY <1>5, <1>6, <1>8, SMT
  <2>2. Reach(list, i) = Max({0} \cup {list[j].so + list[j].size : j \in {}})
    BY <2>1 DEF Reach
  <2>3. {0} \cup {list[j].so + list[j].size : j \in {}} = {0}
    OBVIOUS
  <2>4. Max({0}) = 0
    BY SMT DEF Max
  <2> QED BY <2>2, <2>3, <2>4
<1> HIDE DEF i, S, v
<1>10. list[i].so = 0
  <2>1. i <= k
    BY <1>4, <1>6
  <2>2. list[i].so <= 0
    BY <2>1, <1>4, <1>6, <1>9
  <2> QED BY <2>2, <1>2, <1>8, SMT
<1>11. /\ k \in 1 .. Len(list) /\ list[k].n = n /\ list[k].last
       /\ \A j \in 1 .. Len(list) :
            list[j].n = n /\ j <= k => list[j].so <= Reach(list, j)
  BY <1>1, <1>4
<1> QED BY <1>7, <1>8, <1>10, <1>11 DEF FullShape

\* Every step of the receiver keeps its window, and the window is ordered, starts
\* at the first SN still to be delivered and is timed.
LEMMA ReceiverSteps ==
    Least => /\ \A s \in SN : RecvOK(s, s, s, s, "off", <<>>)
             /\ RecvInv => /\ ReceiverEffects
                           /\ WindowOrder /\ NextReassemblyExact /\ GapTimedBelowWrap
<1> SUFFICES ASSUME Least
             PROVE  /\ \A s \in SN : RecvOK(s, s, s, s, "off", <<>>)
                    /\ RecvInv => /\ ReceiverEffects
                                  /\ WindowOrder /\ NextReassemblyExact /\ GapTimedBelowWrap
  OBVIOUS
(* A residue may be replaced by the number in a sum.                       *)
<1>ModuloSum.
    ASSUME NEW a \in Int, NEW b \in Int
    PROVE  ((a % SnModulus) + b) % SnModulus = (a + b) % SnModulus
  <2> DEFINE q == a \div SnModulus
             r == a % SnModulus
  <2>1. a = q * SnModulus + r /\ q \in Int /\ r \in Int /\ SnModulus \in Int
    BY Modulo, Widths, SMT DEF SN
  <2> HIDE DEF q, r
  <2>2. a + b = q * SnModulus + (r + b)
    BY <2>1, SMT
  <2>3. a + b \in Int /\ r + b \in Int
    BY <2>1, SMT
  <2>4. (a + b) % SnModulus = (r + b) % SnModulus
    BY <2>1, <2>2, <2>3, Congruent
  <2> QED BY <2>4 DEF r
<1>InsertAdds.
    ASSUME NEW list \in Seq(Entry), NEW e \in Entry, NEW i \in 1 .. Len(list) + 1
    PROVE  Adds(list, e, InsertAt(list, i, e))
  <2> USE SMT
  <2> DEFINE new == InsertAt(list, i, e)
  <2>1. /\ Len(list) \in Nat /\ Len(new) = Len(list) + 1
        /\ \A k \in 1 .. Len(list) + 1 :
             new[k] = IF k < i THEN list[k] ELSE IF k = i THEN e ELSE list[k - 1]
    <3>1. Len(list) \in Nat
      OBVIOUS
    <3>2. /\ Len(new) = Len(list) + 1
          /\ \A k \in 1 .. Len(list) + 1 : new[k] = Inserted(list, i, e, k)
      BY InsertFacts, Zenon
    <3> QED BY <3>1, <3>2, Zenon DEF Inserted
  <2> HIDE DEF new
  <2>2. ASSUME NEW k \in 1 .. Len(new)
        PROVE  new[k] = e \/ \E j \in 1 .. Len(list) : new[k] = list[j]
    <3>1. CASE k < i
      <4>1. k \in 1 .. Len(list) /\ new[k] = list[k]
        BY <3>1, <2>1
      <4> QED BY <4>1, Zenon
    <3>2. CASE k = i
      BY <3>2, <2>1
    <3>3. CASE i < k
      <4>1. k - 1 \in 1 .. Len(list) /\ new[k] = list[k - 1]
        BY <3>3, <2>1
      <4> QED BY <4>1, Zenon
    <3> QED BY <3>1, <3>2, <3>3, <2>1
  <2>3. ASSUME NEW j \in 1 .. Len(list)
        PROVE  \E k \in 1 .. Len(new) : new[k] = list[j]
    <3>1. CASE j < i
      <4>1. j \in 1 .. Len(new) /\ new[j] = list[j]
        BY <3>1, <2>1
      <4> QED BY <4>1, Zenon
    <3>2. CASE i <= j
      <4>1. j + 1 \in 1 .. Len(new) /\ new[j + 1] = list[(j + 1) - 1]
        BY <3>2, <2>1
      <4>2. (j + 1) - 1 = j
        BY <2>1
      <4> QED BY <4>1, <4>2, Zenon
    <3>3. j < i \/ i <= j
      OBVIOUS
    <3> QED BY <3>1, <3>2, <3>3, Zenon
  <2>4. i \in 1 .. Len(new) /\ new[i] = e
    BY <2>1, SMTT(30)
  <2> QED BY <2>2, <2>3, <2>4, Zenon DEF Adds, new
\* The same list as pairs of positions.
<1>InsertSorted.
    ASSUME NEW list \in Seq(Entry), Sorted(list), NEW e \in Entry,
           NEW i \in 1 .. Len(list) + 1,
           \A k \in 1 .. Len(list) : k < i =>
             \/ list[k].n < e.n
             \/ list[k].n = e.n /\ list[k].so <= e.so,
           \A k \in 1 .. Len(list) : i <= k =>
             \/ e.n < list[k].n
             \/ e.n = list[k].n /\ e.so < list[k].so
    PROVE  Sorted(InsertAt(list, i, e))
  <2> USE SMT
  <2> USE <1>InsertSorted
  <2> DEFINE new == InsertAt(list, i, e)
             Le(x, y) == \/ x.n < y.n
                         \/ x.n = y.n /\ x.so <= y.so
  <2>1. /\ Len(list) \in Nat /\ Len(new) = Len(list) + 1
        /\ \A k \in 1 .. Len(list) + 1 : new[k] = Inserted(list, i, e, k)
    <3>1. Len(list) \in Nat
      OBVIOUS
    <3> QED BY <3>1, InsertFacts, Zenon
  <2>2. /\ e.n \in Int /\ e.so \in Int
        /\ \A k \in 1 .. Len(list) : list[k].n \in Int /\ list[k].so \in Int
    BY ListTypes, EntryTypes
  <2> HIDE DEF new
  <2> SUFFICES ASSUME NEW p \in 1 .. Len(list) + 1, NEW q \in 1 .. Len(list) + 1, p < q
               PROVE  Le(new[p], new[q])
    BY <2>1, Zenon DEF Sorted, new
  <2>3. CASE q < i
    <3>1. /\ p \in 1 .. Len(list) /\ q \in 1 .. Len(list)
          /\ new[p] = list[p] /\ new[q] = list[q]
      BY <2>3, <2>1 DEF Inserted
    <3> QED BY <3>1 DEF Sorted
  <2>4. CASE q = i
    <3>1. p \in 1 .. Len(list) /\ p < i /\ new[p] = list[p] /\ new[q] = e
      BY <2>4, <2>1 DEF Inserted
    <3> QED BY <3>1, Zenon
  <2>5. CASE p = i
    <3>1. q - 1 \in 1 .. Len(list) /\ i <= q - 1 /\ new[p] = e /\ new[q] = list[q - 1]
      BY <2>5, <2>1 DEF Inserted
    <3> QED BY <3>1, <2>2
  <2>6. CASE p < i /\ i < q
    <3>1. /\ p \in 1 .. Len(list) /\ q - 1 \in 1 .. Len(list) /\ i <= q - 1
          /\ new[p] = list[p] /\ new[q] = list[q - 1]
      BY <2>6, <2>1 DEF Inserted
    <3> QED BY <3>1, <2>2, <2>6, SMTT(30)
  <2>7. CASE i < p
    <3>1. /\ p - 1 \in 1 .. Len(list) /\ q - 1 \in 1 .. Len(list) /\ p - 1 < q - 1
          /\ new[p] = list[p - 1] /\ new[q] = list[q - 1]
      BY <2>7, <2>1, SMTT(30) DEF Inserted
    <3> QED BY <3>1, SMTT(30) DEF Sorted
  <2> QED BY <2>3, <2>4, <2>5, <2>6, <2>7, <2>1
\* A received segment joins the list and delivers nothing by itself.
<1>AddFacts.
    ASSUME NEW h \in Int, NEW list, ListOK(list, h - window_size, h),
           NEW e \in Entry, e.sn = e.n % SnModulus, e.data,
           h - window_size <= e.n, e.n < h + window_size,
           NEW hi \in Int, h <= hi, e.n < hi
    PROVE  LET new == pdu_list_add(h % SnModulus, list, e)
           IN /\ ListOK(new, h - window_size, hi)
              /\ Adds(list, e, new)
              /\ \A m : Deliv(new, m) <=> Deliv(list, m)
  <2> USE <1>AddFacts
  <2> DEFINE new == pdu_list_add(h % SnModulus, list, e)
  <2>1. PICK i \in 1 .. Len(list) + 1 :
          /\ new = InsertAt(list, i, e)
          /\ \A k \in 1 .. Len(list) : k < i =>
               \/ list[k].n < e.n
               \/ list[k].n = e.n /\ list[k].so <= e.so
          /\ \A k \in 1 .. Len(list) : i <= k =>
               \/ e.n < list[k].n
               \/ e.n = list[k].n /\ e.so < list[k].so
    BY AddPlace
  <2> HIDE DEF new
  <2>2. /\ list \in Seq(Entry) /\ Sorted(list) /\ Len(list) \in Nat
        /\ Within(list, h - window_size, h) /\ Marked(list) /\ MarkedFirst(list)
        /\ \A k \in 1 .. Len(list) : list[k].n \in Int /\ list[k].so \in Nat
        /\ e.n \in Int /\ e.so \in Nat
    BY ListTypes, EntryTypes DEF ListOK
  <2>3. /\ new \in Seq(Entry) /\ Len(new) = Len(list) + 1
        /\ \A k \in 1 .. Len(list) + 1 : new[k] = Inserted(list, i, e, k)
    BY <2>1, <2>2, InsertFacts
  <2>4. Adds(list, e, new)
    BY <2>1, <2>2, <1>InsertAdds
  <2>5. Sorted(new)
    BY <2>1, <2>2, <1>InsertSorted
  <2>6. Within(new, h - window_size, hi)
    <3> SUFFICES ASSUME NEW k \in 1 .. Len(new)
                 PROVE  /\ new[k].sn = new[k].n % SnModulus
                        /\ h - window_size <= new[k].n /\ new[k].n < hi
      BY DEF Within
    <3>1. CASE new[k] = e
      BY <3>1
    <3>2. ASSUME NEW j \in 1 .. Len(list), new[k] = list[j]
          PROVE  /\ new[k].sn = new[k].n % SnModulus
                 /\ h - window_size <= new[k].n /\ new[k].n < hi
      BY <3>2, <2>2, SMTT(30) DEF Within
    <3> QED BY <3>1, <3>2, <2>4 DEF Adds
  <2>7. \A m : Deliv(new, m) <=> Deliv(list, m)
    <3> SUFFICES ASSUME NEW m PROVE Deliv(new, m) <=> Deliv(list, m)
      OBVIOUS
    <3>1. ASSUME Deliv(new, m) PROVE Deliv(list, m)
      <4>1. PICK k \in 1 .. Len(new) : new[k].n = m /\ ~new[k].data
        BY <3>1 DEF Deliv
      <4>2. new[k] # e
        BY <4>1
      <4>3. PICK j \in 1 .. Len(list) : new[k] = list[j]
        BY <4>2, <2>4 DEF Adds
      <4> QED BY <4>1, <4>3 DEF Deliv
    <3>2. ASSUME Deliv(list, m) PROVE Deliv(new, m)
      <4>1. PICK j \in 1 .. Len(list) : list[j].n = m /\ ~list[j].data
        BY <3>2 DEF Deliv
      <4>2. PICK k \in 1 .. Len(new) : new[k] = list[j]
        BY <2>4 DEF Adds
      <4> QED BY <4>1, <4>2 DEF Deliv
    <3> QED BY <3>1, <3>2
  <2>8. Marked(new)
    <3> SUFFICES ASSUME NEW j \in 1 .. Len(new), ~new[j].data
                 PROVE  \E i2 \in 1 .. Len(new) :
                          new[i2].n = new[j].n /\ new[i2].so = 0 /\ ~new[i2].data
      BY DEF Marked
    <3>1. PICK j2 \in 1 .. Len(list) : new[j] = list[j2]
      BY <2>4 DEF Adds
    <3>2. PICK i2 \in 1 .. Len(list) :
            list[i2].n = list[j2].n /\ list[i2].so = 0 /\ ~list[i2].data
      BY <3>1, <2>2 DEF Marked
    <3>3. PICK i3 \in 1 .. Len(new) : new[i3] = list[i2]
      BY <2>4 DEF Adds
    <3> QED BY <3>1, <3>2, <3>3
  <2>9. MarkedFirst(new)
    <3> SUFFICES ASSUME NEW p \in 1 .. Len(new), NEW q \in 1 .. Len(new), p < q,
                        new[p].n = new[q].n, new[q].so = 0, ~new[q].data
                 PROVE  ~new[p].data
      BY DEF MarkedFirst
    <3>1. q # i
      BY <2>1, <2>3, SMT DEF Inserted
    <3>2. CASE q < i
      <4>1. /\ p \in 1 .. Len(list) /\ q \in 1 .. Len(list)
            /\ new[p] = list[p] /\ new[q] = list[q]
        BY <3>2, <2>2, <2>3, SMTT(30) DEF Inserted
      <4> QED BY <4>1, <2>2 DEF MarkedFirst
    <3>3. CASE i < q
      <4>1. /\ q - 1 \in 1 .. Len(list) /\ i <= q - 1 /\ new[q] = list[q - 1]
        BY <3>3, <2>2, <2>3, SMTT(30) DEF Inserted
      <4>2. p # i
        <5>1. ASSUME p = i PROVE FALSE
          <6>1. new[p] = e
            BY <5>1, <2>3, SMT DEF Inserted
          <6> QED BY <6>1, <4>1, <2>1, <2>2, SMTT(30)
        <5> QED BY <5>1
      <4>3. \E p2 \in 1 .. Len(list) : p2 < q - 1 /\ new[p] = list[p2]
        <5>1. CASE p < i
          <6>1. p \in 1 .. Len(list) /\ p < q - 1 /\ new[p] = list[p]
            BY <5>1, <4>1, <2>2, <2>3, SMTT(30) DEF Inserted
          <6> QED BY <6>1
        <5>2. CASE i < p
          <6>1. p - 1 \in 1 .. Len(list) /\ p - 1 < q - 1 /\ new[p] = list[p - 1]
            BY <5>2, <4>1, <2>2, <2>3, SMT DEF Inserted
          <6> QED BY <6>1
        <5> QED BY <4>2, <5>1, <5>2, <2>2, <2>3, SMT
      <4> QED BY <4>1, <4>3, <2>2 DEF MarkedFirst
    <3> QED BY <3>1, <3>2, <3>3, <2>2, <2>3, SMT
  <2> QED BY <2>3, <2>4, <2>5, <2>6, <2>7, <2>8, <2>9 DEF ListOK, new
<1>DropFacts.
    ASSUME NEW lo \in Int, NEW hi \in Int, NEW list, ListOK(list, lo, hi),
           NEW out, NEW c \in Int,
           \A k \in 1 .. Len(list) : list[k].sn \in out <=> list[k].n < c
    PROVE  /\ ListOK(DropWhile(list, out), c, hi)
           /\ Drops(list, c, DropWhile(list, out))
  <2> USE <1>DropFacts
  <2> DEFINE S == {k \in 1 .. Len(list) : list[k].sn \notin out} \cup {Len(list) + 1}
             i == Min(S)
             kept == SubSeq(list, i, Len(list))
  <2>1. /\ list \in Seq(Entry) /\ Sorted(list) /\ Len(list) \in Nat
        /\ Within(list, lo, hi) /\ Marked(list) /\ MarkedFirst(list)
        /\ \A k \in 1 .. Len(list) : list[k].n \in Int /\ list[k].so \in Nat
    BY ListTypes, SMT DEF ListOK
  <2>2. S \in SUBSET Nat /\ S # {}
    BY <2>1, SMT
  <2>3. i \in S /\ \A j \in S : i <= j
    BY <2>2, MinFacts
  <2>4. i \in 1 .. Len(list) + 1
    <3>1. S \subseteq 1 .. Len(list) + 1
      BY <2>1, SMT
    <3> HIDE DEF S, i
    <3> QED BY <3>1, <2>3
  <2>5. \A k \in 1 .. Len(list) : k < i => list[k].n < c
    <3> SUFFICES ASSUME NEW k \in 1 .. Len(list), k < i PROVE list[k].n < c
      OBVIOUS
    <3>1. k \in S <=> (list[k].sn \notin out \/ k = Len(list) + 1)
      OBVIOUS
    <3> HIDE DEF S, i
    <3>2. k \notin S
      BY <2>3, <2>4, <2>1, SMTT(30)
    <3> QED BY <3>1, <3>2
  <2>6. i <= Len(list) => list[i].n >= c
    <3>1. i \in {k \in 1 .. Len(list) : list[k].sn \notin out} \/ i = Len(list) + 1
      BY <2>3
    <3> HIDE DEF i
    <3> QED BY <3>1, <2>1, <2>4, SMT
  <2>7. \A k \in 1 .. Len(list) : i <= k => list[k].n >= c
    <3> HIDE DEF i
    <3> SUFFICES ASSUME NEW k \in 1 .. Len(list), i <= k PROVE list[k].n >= c
      OBVIOUS
    <3>1. i \in 1 .. Len(list) /\ list[i].n >= c
      BY <2>1, <2>4, <2>6, SMT
    <3>2. CASE i = k
      BY <3>1, <3>2
    <3>3. CASE i < k
      BY <3>1, <3>3, <2>1, SMTT(30) DEF Sorted
    <3> QED BY <3>2, <3>3, <2>4, SMT
  <2>8. DropWhile(list, out) = kept
    BY DEF DropWhile
  <2> HIDE DEF i, S
  <2>9. /\ kept \in Seq(Entry) /\ Len(kept) = Len(list) - i + 1 /\ Len(kept) \in Nat
        /\ \A k \in 1 .. Len(kept) : kept[k] = list[i + k - 1]
    BY <2>1, <2>4, SMTT(30)
  <2> HIDE DEF kept
  <2>10. \A k \in 1 .. Len(kept) :
           i + k - 1 \in 1 .. Len(list) /\ i <= i + k - 1 /\ kept[k] = list[i + k - 1]
    BY <2>1, <2>4, <2>9, SMT
  <2>11. \A k \in 1 .. Len(kept) :
           \E j \in 1 .. Len(list) : kept[k] = list[j] /\ list[j].n >= c
    BY <2>7, <2>10
  <2>12. ASSUME NEW j \in 1 .. Len(list), list[j].n >= c
         PROVE  j - i + 1 \in 1 .. Len(kept) /\ kept[j - i + 1] = list[j]
    <3>1. i <= j
      BY <2>12, <2>5, <2>4, <2>1, SMTT(30)
    <3>2. j - i + 1 \in 1 .. Len(kept) /\ i + (j - i + 1) - 1 = j
      BY <3>1, <2>1, <2>4, <2>9, SMT
    <3> QED BY <3>2, <2>10
  <2>13. \A j \in 1 .. Len(list) :
           list[j].n >= c => \E k \in 1 .. Len(kept) : kept[k] = list[j]
    BY <2>12
  <2>14. Within(kept, c, hi)
    BY <2>1, <2>11 DEF Within
  <2>15. Sorted(kept)
    <3> SUFFICES ASSUME NEW p \in 1 .. Len(kept), NEW q \in 1 .. Len(kept), p < q
                 PROVE  \/ kept[p].n < kept[q].n
                        \/ kept[p].n = kept[q].n /\ kept[p].so <= kept[q].so
      BY DEF Sorted
    <3> DEFINE x == i + p - 1
               y == i + q - 1
    <3>1. x < y
      BY <2>4, SMT
    <3>2. /\ x \in 1 .. Len(list) /\ y \in 1 .. Len(list)
          /\ kept[p] = list[x] /\ kept[q] = list[y]
      BY <2>10
    <3> HIDE DEF x, y
    <3> QED BY <3>1, <3>2, <2>1 DEF Sorted
  <2>16. Marked(kept)
    <3> SUFFICES ASSUME NEW j \in 1 .. Len(kept), ~kept[j].data
                 PROVE  \E k \in 1 .. Len(kept) :
                          kept[k].n = kept[j].n /\ kept[k].so = 0 /\ ~kept[k].data
      BY DEF Marked
    <3>1. PICK j2 \in 1 .. Len(list) : kept[j] = list[j2] /\ list[j2].n >= c
      BY <2>11
    <3>2. PICK k2 \in 1 .. Len(list) :
            list[k2].n = list[j2].n /\ list[k2].so = 0 /\ ~list[k2].data
      BY <3>1, <2>1 DEF Marked
    <3>3. PICK k \in 1 .. Len(kept) : kept[k] = list[k2]
      BY <3>1, <3>2, <2>13
    <3> QED BY <3>1, <3>2, <3>3
  <2>17. MarkedFirst(kept)
    <3> SUFFICES ASSUME NEW p \in 1 .. Len(kept), NEW q \in 1 .. Len(kept), p < q,
                        kept[p].n = kept[q].n, kept[q].so = 0, ~kept[q].data
                 PROVE  ~kept[p].data
      BY DEF MarkedFirst
    <3>1. i + p - 1 < i + q - 1
      BY <2>4, SMT
    <3> QED BY <3>1, <2>1, <2>10 DEF MarkedFirst
  <2>18. \A m \in Int : m >= c => (Deliv(kept, m) <=> Deliv(list, m))
    BY <2>11, <2>13 DEF Deliv
  <2>19. Drops(list, c, kept)
    BY <2>11, <2>18 DEF Drops
  <2>20. ListOK(kept, c, hi)
    BY <2>9, <2>14, <2>15, <2>16, <2>17 DEF ListOK
  <2> QED BY <2>8, <2>19, <2>20
\* The search from the count t stops at or below the upper edge of the window,
\* and everything it passes is delivered.
<1>FirstFacts.
    ASSUME NEW h \in Int, NEW list, ListOK(list, h - window_size, h),
           NEW t \in Int, h - window_size <= t, t <= h
    PROVE  \E u \in t .. h : /\ FirstNotDelivered(list, t % SnModulus) = u % SnModulus
                             /\ ~Deliv(list, u)
                             /\ \A m \in t .. u - 1 : Deliv(list, m)
  <2> USE <1>FirstFacts
  <2> DEFINE Later(d) == ((t % SnModulus) + d) % SnModulus
             D == {d \in 0 .. SnModulus : ~sdu_delivered(list, Later(d))}
             x == Min(D)
  <2>1. SnModulus \in Nat /\ window_size \in Nat /\ SnModulus = 2 * window_size
        /\ window_size >= 2
    BY Widths
  <2>2. ListOK(list, h - window_size, h + window_size)
    <3>1. h - window_size \in Int /\ h + window_size \in Int /\ h <= h + window_size
          /\ h - window_size <= h - window_size
      BY <2>1, SMT
    <3> QED BY <3>1, Widen
  <2>3. ASSUME NEW d \in Int
        PROVE  Later(d) = (t + d) % SnModulus
    BY <1>ModuloSum
  <2>4. ASSUME NEW d \in 0 .. h - t
        PROVE  /\ d \in 0 .. SnModulus
               /\ sdu_delivered(list, Later(d)) <=> Deliv(list, t + d)
    <3>1. d \in Int /\ d \in 0 .. SnModulus /\ t + d \in Int
          /\ h - window_size <= t + d /\ t + d < h + window_size
      BY <2>1, SMT
    <3>2. Later(d) = (t + d) % SnModulus
      BY <3>1, <2>3
    <3>3. sdu_delivered(list, (t + d) % SnModulus) <=> Deliv(list, t + d)
      BY <3>1, <2>2, DelivIff
    <3> QED BY <3>1, <3>2, <3>3
  <2>5. ~Deliv(list, h)
    <3>1. \A j \in 1 .. Len(list) : list[j].n \in Int /\ list[j].n < h
      BY ListTypes, SMT DEF ListOK, Within
    <3> QED BY <3>1, SMTT(30) DEF Deliv
  <2>6. h - t \in 0 .. h - t /\ t + (h - t) = h
    BY SMT
  <2>7. h - t \in D
    <3>1. h - t \in 0 .. SnModulus /\ ~sdu_delivered(list, Later(h - t))
      BY <2>4, <2>5, <2>6
    <3> HIDE DEF Later
    <3> QED BY <3>1
  <2>8. D \in SUBSET Nat /\ D # {}
    <3> HIDE DEF Later
    <3> QED BY <2>1, <2>7, SMT
  <2>9. x \in D /\ \A d \in D : x <= d
    BY <2>8, MinFacts
  <2>10. /\ FirstNotDelivered(list, t % SnModulus) = Later(x)
         /\ \A d \in 0 .. SnModulus : d \in D <=> ~sdu_delivered(list, Later(d))
    BY DEF FirstNotDelivered
  <2> HIDE DEF x, D, Later
  <2>11. x \in 0 .. h - t
    BY <2>7, <2>8, <2>9, SMT
  <2>12. Later(x) = (t + x) % SnModulus
    BY <2>3, <2>11, SMT
  <2>13. ~Deliv(list, t + x)
    BY <2>4, <2>9, <2>10, <2>11
  <2> DEFINE u == t + x
  <2>14. ASSUME NEW m \in t .. u - 1 PROVE Deliv(list, m)
    <3>1. m - t \in 0 .. h - t /\ m - t < x /\ t + (m - t) = m
      BY <2>11, SMT
    <3>2. m - t \notin D
      BY <3>1, <2>9, <2>11, SMT
    <3> QED BY <3>1, <3>2, <2>4, <2>10
  <2>15. t + x \in t .. h
    BY <2>11, SMT
  <2>16. /\ u \in t .. h /\ FirstNotDelivered(list, t % SnModulus) = u % SnModulus
         /\ ~Deliv(list, u) /\ \A m \in t .. u - 1 : Deliv(list, m)
    <3>1. FirstNotDelivered(list, t % SnModulus) = u % SnModulus
      BY <2>10, <2>12
    <3>2. \A m \in t .. u - 1 : Deliv(list, m)
      <4> HIDE DEF u
      <4> QED BY <2>14
    <3> QED BY <3>1, <3>2, <2>13, <2>15
  <2> HIDE DEF u
  <2> QED BY <2>16
\* reassemble_and_deliver leaves the entries where they are, marked.
<1>EmptiedFacts.
    ASSUME NEW h \in Int, NEW lo \in Int, NEW hi \in Int,
           h - window_size <= lo, hi <= h + window_size,
           NEW list, ListOK(list, lo, hi),
           NEW n \in Int, h - window_size <= n, n < h + window_size,
           \E i \in 1 .. Len(list) : list[i].n = n /\ list[i].so = 0
    PROVE  /\ ListOK(Emptied(list, n % SnModulus), lo, hi)
           /\ MarksAll(list, n, Emptied(list, n % SnModulus))
  <2> USE <1>EmptiedFacts
  <2> DEFINE v == n % SnModulus
             after == Emptied(list, v)
             Cleared(e) == [e EXCEPT !.data = FALSE, !.size = 0]
  <2>1. /\ list \in Seq(Entry) /\ Sorted(list) /\ Len(list) \in Nat
        /\ Within(list, lo, hi) /\ Marked(list) /\ MarkedFirst(list)
        /\ \A k \in 1 .. Len(list) :
             list[k] \in Entry /\ list[k].n \in Int /\ list[k].so \in Nat
    BY ListTypes, SMTT(30) DEF ListOK
  <2>2. \A k \in 1 .. Len(list) : list[k].sn = v <=> list[k].n = n
    <3> SUFFICES ASSUME NEW k \in 1 .. Len(list) PROVE list[k].sn = v <=> list[k].n = n
      OBVIOUS
    <3> DEFINE m == list[k].n
    <3>1. m \in Int /\ list[k].sn = m % SnModulus
          /\ h - window_size <= m /\ m < h + window_size
      BY <2>1, Widths, SMTT(30) DEF Within
    <3> HIDE DEF m
    <3>2. m % SnModulus = n % SnModulus => m = n
      BY <3>1, SameCount
    <3> QED BY <3>1, <3>2 DEF m
  <2>3. after = [k \in 1 .. Len(list) |->
                   IF list[k].sn = v THEN Cleared(list[k]) ELSE list[k]]
    BY DEF Emptied
  <2>4. ASSUME NEW e \in Entry
        PROVE  /\ Cleared(e) \in Entry
               /\ Cleared(e).id = e.id /\ Cleared(e).n = e.n /\ Cleared(e).sn = e.sn
               /\ Cleared(e).so = e.so /\ Cleared(e).data = FALSE
    BY DEF Entry
  <2> HIDE DEF Cleared, v
  <2>5. \A k \in 1 .. Len(list) :
          (IF list[k].sn = v THEN Cleared(list[k]) ELSE list[k]) \in Entry
    BY <2>1, <2>4
  <2>6. after \in Seq(Entry) /\ Len(after) = Len(list)
    BY <2>1, <2>3, <2>5, SMT
  <2>7. \A k \in 1 .. Len(list) :
          /\ list[k].n = n => after[k] = Cleared(list[k])
          /\ list[k].n # n => after[k] = list[k]
    BY <2>2, <2>3
  <2> HIDE DEF after
  <2>8. \A k \in 1 .. Len(list) :
          /\ after[k].id = list[k].id /\ after[k].n = list[k].n
          /\ after[k].sn = list[k].sn /\ after[k].so = list[k].so
          /\ list[k].n = n => ~after[k].data
          /\ list[k].n # n => after[k] = list[k]
    <3> SUFFICES ASSUME NEW k \in 1 .. Len(list)
                 PROVE  /\ after[k].id = list[k].id /\ after[k].n = list[k].n
                        /\ after[k].sn = list[k].sn /\ after[k].so = list[k].so
                        /\ list[k].n = n => ~after[k].data
                        /\ list[k].n # n => after[k] = list[k]
      OBVIOUS
    <3>1. CASE list[k].n = n
      <4>1. after[k] = Cleared(list[k]) /\ list[k] \in Entry
        BY <3>1, <2>1, <2>7
      <4> QED BY <4>1, <3>1, <2>4
    <3>2. CASE list[k].n # n
      BY <3>2, <2>7
    <3> QED BY <3>1, <3>2
  <2>9. Within(after, lo, hi) /\ Sorted(after)
    <3>1. Within(after, lo, hi)
      BY <2>1, <2>6, <2>8 DEF Within
    <3>2. ASSUME NEW i \in 1 .. Len(list), NEW j \in 1 .. Len(list), i < j
          PROVE  \/ after[i].n < after[j].n
                 \/ after[i].n = after[j].n /\ after[i].so <= after[j].so
      <4>1. \/ list[i].n < list[j].n
            \/ list[i].n = list[j].n /\ list[i].so <= list[j].so
        BY <3>2, <2>1 DEF Sorted
      <4> QED BY <4>1, <2>8
    <3> QED BY <3>1, <3>2, <2>6 DEF Sorted
  <2>10. Marked(after)
    <3> SUFFICES ASSUME NEW j \in 1 .. Len(list), ~after[j].data
                 PROVE  \E i \in 1 .. Len(list) :
                          after[i].n = after[j].n /\ after[i].so = 0 /\ ~after[i].data
      BY <2>6 DEF Marked
    <3>1. CASE list[j].n = n
      BY <3>1, <2>8
    <3>2. CASE list[j].n # n
      <4>1. PICK i \in 1 .. Len(list) :
              list[i].n = list[j].n /\ list[i].so = 0 /\ ~list[i].data
        BY <3>2, <2>1, <2>8 DEF Marked
      <4> QED BY <3>2, <4>1, <2>8
    <3> QED BY <3>1, <3>2
  <2>11. MarkedFirst(after)
    <3> SUFFICES ASSUME NEW p \in 1 .. Len(list), NEW q \in 1 .. Len(list), p < q,
                        after[p].n = after[q].n, after[q].so = 0, ~after[q].data
                 PROVE  ~after[p].data
      BY <2>6 DEF MarkedFirst
    <3>1. CASE list[p].n = n
      BY <3>1, <2>8
    <3>2. CASE list[p].n # n
      <4>1. /\ after[p] = list[p] /\ after[q] = list[q]
        BY <3>2, <2>8
      <4> QED BY <4>1, <2>1 DEF MarkedFirst
    <3> QED BY <3>1, <3>2
  <2>12. ASSUME NEW m PROVE Deliv(after, m) <=> (Deliv(list, m) \/ m = n)
    <3>1. ASSUME Deliv(after, m), m # n PROVE Deliv(list, m)
      <4>1. PICK j \in 1 .. Len(list) : after[j].n = m /\ ~after[j].data
        BY <3>1, <2>6 DEF Deliv
      <4>2. after[j] = list[j]
        BY <4>1, <3>1, <2>8
      <4> QED BY <4>1, <4>2 DEF Deliv
    <3>2. ASSUME Deliv(list, m), m # n PROVE Deliv(after, m)
      <4>1. PICK j \in 1 .. Len(list) : list[j].n = m /\ ~list[j].data
        BY <3>2 DEF Deliv
      <4>2. after[j] = list[j]
        BY <4>1, <3>2, <2>8
      <4> QED BY <4>1, <4>2, <2>6 DEF Deliv
    <3>3. Deliv(after, n)
      BY <2>6, <2>8 DEF Deliv
    <3> QED BY <3>1, <3>2, <3>3
  <2>13. MarksAll(list, n, after)
    BY <2>6, <2>8, <2>12 DEF MarksAll
  <2>14. ListOK(after, lo, hi)
    BY <2>6, <2>9, <2>10, <2>11 DEF ListOK
  <2> QED BY <2>13, <2>14 DEF after, v
\* sn_compare_rx as a difference of counts, for any two SNs.
<1>CompareCounts.
    ASSUME NEW h \in Int, NEW v \in SN, NEW w \in SN
    PROVE  sn_compare_rx(h % SnModulus, v, w) = CountOf(h, v) - CountOf(h, w)
  <2> USE SMT
  <2> DEFINE g == h % SnModulus
             x == v - (g - window_size)
             y == w - (g - window_size)
  <2>1. g \in Int /\ window_size \in Int /\ v \in Int /\ w \in Int
    BY Modulo, Widths DEF SN
  <2>2. x \in Int /\ y \in Int
    BY <2>1
  <2>3. x % SnModulus \in Int /\ y % SnModulus \in Int
    BY <2>2, Modulo, Widths DEF SN
  <2>4. /\ sn_compare_rx(g, v, w) = (x % SnModulus) - (y % SnModulus)
        /\ CountOf(h, v) = h - window_size + (x % SnModulus)
        /\ CountOf(h, w) = h - window_size + (y % SnModulus)
    BY Zenon DEF sn_compare_rx, modulus_rx, CountOf
  <2> HIDE DEF g, x, y
  <2> QED BY <2>1, <2>3, <2>4 DEF g
\* An SN of the window's upper half is one that the window has left behind.
<1>LeftBehind.
    ASSUME NEW h \in Int, NEW n \in Int, h - SnModulus <= n, n < h
    PROVE  sn_compare_rx(h % SnModulus, n % SnModulus, h % SnModulus) >= 0
           <=> n < h - window_size
  <2> USE SMT
  <2> USE <1>LeftBehind
  <2>1. /\ SnModulus \in Int /\ window_size \in Int /\ window_size >= 2
        /\ SnModulus = 2 * window_size
    BY Widths
  <2>2. CASE h - window_size <= n
    <3>1. /\ n < h + window_size /\ h - window_size <= h /\ h < h + window_size
      BY <2>1
    <3>2. sn_compare_rx(h % SnModulus, n % SnModulus, h % SnModulus) = n - h
      BY <2>2, <3>1, Compare, Zenon
    <3> QED BY <2>1, <2>2, <3>2
  <2>3. CASE n < h - window_size
    <3> DEFINE m == n + SnModulus
    <3>1. /\ m \in Int /\ h <= m /\ m < h + window_size
          /\ h - window_size <= m /\ h - window_size <= h /\ h < h + window_size
      BY <2>1, <2>3
    <3>2. m % SnModulus = n % SnModulus
      <4>1. m = 1 * SnModulus + n
        BY <2>1
      <4> HIDE DEF m
      <4> QED BY <4>1, <3>1, Congruent
    <3> HIDE DEF m
    <3>3. sn_compare_rx(h % SnModulus, m % SnModulus, h % SnModulus) = m - h
      BY <3>1, Compare, Zenon
    <3> QED BY <2>3, <3>1, <3>2, <3>3
  <2> QED BY <2>1, <2>2, <2>3
\* The end of reception_actions: t_reassembly runs if something is missing, and
\* the SN that started it is in the window.
<1>TimerOK.
    ASSUME NEW h \in Nat, NEW list, ListOK(list, h - window_size, h),
           NEW u \in Int, h - window_size <= u, u <= h, NextOK(list, u),
           rx_timer_trigger \in SN, t_reassembly_start \in {"off", "on"},
           UpdateTimer(h % SnModulus, u % SnModulus, list), high' = h
    PROVE  RecvInv' /\ NextCount' = u /\ rx_list' = list
  <2> USE <1>TimerOK
  <2> DEFINE g == h % SnModulus
             v == u % SnModulus
             t == rx_timer_trigger
             stop == \/ t_reassembly_start # "on"
                     \/ sn_compare_rx(g, t, v) <= 0
                     \/ sn_compare_rx(g, t, g) > 0
                     \/ /\ g = (v + 1) % SnModulus
                        /\ ~sdu_has_missing_bytes(list, v)
             start == stop /\ ReassemblyGap(g, v, list)
  <2>1. /\ t_reassembly_start' = IF start THEN "on" ELSE IF stop THEN "off" ELSE "on"
        /\ rx_timer_trigger' = IF start THEN g ELSE t
        /\ rx_next_highest' = g /\ rx_next_reassembly' = v /\ rx_list' = list
    BY DEF UpdateTimer
  <2>2. g \in SN /\ v \in SN /\ t \in SN /\ h \in Int /\ window_size \in Int
        /\ window_size >= 2
    BY Modulo, Widths, SMT
  <2>3. CountOf(h, v) = u /\ CountOf(h, g) = h
    <3>1. u < h + window_size /\ h - window_size <= h /\ h < h + window_size
      BY <2>2, SMT
    <3> QED BY <2>2, <3>1, CountOfResidue
  <2>4. /\ sn_compare_rx(g, t, v) = CountOf(h, t) - u
        /\ sn_compare_rx(g, t, g) = CountOf(h, t) - h
    BY <2>2, <2>3, <1>CompareCounts, SMT
  <2>5. CountOf(h, t) \in Int
    BY <2>2, CountOfFacts, SMT
  <2> HIDE DEF g, v, t
  <2>6. ~stop => u <= CountOf(h, t) /\ CountOf(h, t) <= h
    BY <2>4, <2>5, <2>2, SMT
  <2>7. ReassemblyGap(g, v, list) => (start \/ ~stop)
    OBVIOUS
  <2> HIDE DEF stop
  <2>8. /\ t_reassembly_start' \in {"off", "on"} /\ rx_timer_trigger' \in SN
        /\ ReassemblyGap(g, v, list) => t_reassembly_start' = "on"
        /\ t_reassembly_start' = "on" => /\ u <= CountOf(h, rx_timer_trigger')
                                         /\ CountOf(h, rx_timer_trigger') <= h
    <3>1. CASE start
      BY <3>1, <2>1, <2>2, <2>3, SMT
    <3>2. CASE ~start /\ stop
      BY <3>2, <2>1, <2>2, <2>7
    <3>3. CASE ~start /\ ~stop
      BY <3>3, <2>1, <2>2, <2>6
    <3> QED BY <3>1, <3>2, <3>3
  <2>9. RecvOK(high', rx_next_highest', rx_next_reassembly', rx_timer_trigger',
               t_reassembly_start', rx_list')
    BY <2>1, <2>2, <2>3, <2>8 DEF RecvOK, g
  <2>10. CountOf(high', rx_next_reassembly') = u
    BY <2>1, <2>3
  <2> QED BY <2>1, <2>9, <2>10 DEF RecvInv, NextCount
\* A segment inside the window joins the list.
<1>InsideStep.
    ASSUME RecvInv, NEW p, PduOK(p), recv_pdu_inside(p)
    PROVE  PduInside(p)
  <2> USE <1>InsideStep
  <2> DEFINE e == Received(p)
             list == pdu_list_add(rx_next_highest, rx_list, e)
  <2>1. /\ ~Stale(p) /\ InWindow(p) /\ high' = high
        /\ sn_compare_rx(rx_next_highest, p.sn, rx_next_highest) < 0
        /\ UpdateTimer(rx_next_highest, rx_next_reassembly, list)
    BY DEF recv_pdu_inside, Accepted
  <2>2. /\ p.n \in Int /\ high - window_size <= p.n /\ p.n < high + window_size
        /\ NextCount <= p.n
        /\ sn_compare_rx(rx_next_highest, p.sn, rx_next_highest) = p.n - high
    BY <2>1, AcceptedFacts
  <2>3. /\ high \in Nat /\ high \in Int /\ rx_next_highest = high % SnModulus
        /\ rx_timer_trigger \in SN /\ t_reassembly_start \in {"off", "on"}
        /\ ListOK(rx_list, high - window_size, high)
        /\ NextCount \in Int /\ high - window_size <= NextCount /\ NextCount <= high
        /\ NextCount % SnModulus = rx_next_reassembly /\ NextOK(rx_list, NextCount)
    BY RecvFacts
  <2>4. p.n < high /\ high <= high
    BY <2>1, <2>2, <2>3, SMT
  <2>5. e \in Entry /\ e.n = p.n /\ e.sn = e.n % SnModulus /\ e.data
    BY ReceivedFacts
  <2> HIDE DEF e
  <2>6. /\ ListOK(list, high - window_size, high)
        /\ Adds(rx_list, e, list)
        /\ \A m : Deliv(list, m) <=> Deliv(rx_list, m)
    BY <2>2, <2>3, <2>4, <2>5, <1>AddFacts
  <2> HIDE DEF list
  <2>7. NextOK(list, NextCount)
    <3>1. ~Deliv(list, NextCount)
      BY <2>3, <2>6 DEF NextOK
    <3>2. ASSUME NEW k \in 1 .. Len(list), list[k].n < NextCount
          PROVE  Deliv(list, list[k].n)
      <4>1. list[k] # e
        BY <3>2, <2>2, <2>3, <2>5, SMT
      <4>2. PICK j \in 1 .. Len(rx_list) : list[k] = rx_list[j]
        BY <4>1, <2>6 DEF Adds
      <4> QED BY <4>2, <3>2, <2>3, <2>6 DEF NextOK
    <3> QED BY <3>1, <3>2 DEF NextOK
  <2>8. UpdateTimer(high % SnModulus, NextCount % SnModulus, list)
    BY <2>1, <2>3
  <2>9. RecvInv' /\ NextCount' = NextCount /\ rx_list' = list
    BY <2>1, <2>3, <2>6, <2>7, <2>8, <1>TimerOK
  <2> QED BY <2>2, <2>6, <2>9 DEF e, PduInside
\* The segment that completes its SDU: the SDU is delivered and its entries stay
\* behind; rx_next_reassembly passes what is delivered.
<1>CompletesStep.
    ASSUME RecvInv, NEW p, PduOK(p), recv_pdu_completes(p)
    PROVE  PduCompletes(p)
  <2> USE <1>CompletesStep
  <2> DEFINE e == Received(p)
             list == pdu_list_add(rx_next_highest, rx_list, e)
             after == Emptied(list, p.sn)
             next == IF p.sn = rx_next_reassembly
                     THEN FirstNotDelivered(after, rx_next_reassembly)
                     ELSE rx_next_reassembly
  <2>1. /\ ~(p.first /\ p.last) /\ ~Stale(p) /\ InWindow(p) /\ high' = high
        /\ sdu_full(list, p.sn)
        /\ delivered' = Append(delivered, Reassembled(list, p.sn))
        /\ UpdateTimer(rx_next_highest, next, after)
    BY DEF recv_pdu_completes, Accepted
  <2>2. /\ p.n \in Int /\ high - window_size <= p.n /\ p.n < high + window_size
        /\ NextCount <= p.n /\ p.sn = p.n % SnModulus
        /\ p.sn = rx_next_reassembly <=> p.n = NextCount
    BY <2>1, AcceptedFacts
  <2>3. /\ high \in Nat /\ high \in Int /\ rx_next_highest = high % SnModulus
        /\ rx_timer_trigger \in SN /\ t_reassembly_start \in {"off", "on"}
        /\ ListOK(rx_list, high - window_size, high)
        /\ NextCount \in Int /\ high - window_size <= NextCount /\ NextCount <= high
        /\ NextCount % SnModulus = rx_next_reassembly /\ NextOK(rx_list, NextCount)
        /\ window_size \in Nat /\ window_size >= 2
    BY RecvFacts
  <2>4. /\ e \in Entry /\ e.n = p.n /\ e.sn = e.n % SnModulus /\ e.data
        /\ e.so = p.so /\ e.last = p.last
    BY ReceivedFacts
  <2> HIDE DEF e
  <2>5. /\ ListOK(list, high - window_size, high + window_size)
        /\ Adds(rx_list, e, list)
        /\ \A m : Deliv(list, m) <=> Deliv(rx_list, m)
    <3>1. high + window_size \in Int /\ high <= high + window_size
      BY <2>3, SMT
    <3> QED BY <3>1, <2>2, <2>3, <2>4, <1>AddFacts
  <2> HIDE DEF list, next
  <2>6. /\ ~Deliv(list, p.n)
        /\ \E i \in 1 .. Len(list) : list[i].n = p.n /\ list[i].so = 0
        /\ \E k \in 1 .. Len(list) : list[k].n = p.n /\ list[k].last
    <3>1. sdu_full(list, p.n % SnModulus)
      BY <2>1, <2>2
    <3>2. FullShape(list, p.n)
      BY <3>1, <2>2, <2>3, <2>5, FullFacts
    <3> QED BY <3>2 DEF FullShape
  <2>7. p.n < high
    <3> SUFFICES ASSUME high <= p.n PROVE FALSE
      BY <2>2, <2>3, SMTT(30)
    <3>1. \A j \in 1 .. Len(rx_list) : rx_list[j].n # p.n
      <4>1. \A j \in 1 .. Len(rx_list) : rx_list[j].n \in Int /\ rx_list[j].n < high
        BY <2>3, ListTypes, SMTT(30) DEF ListOK, Within
      <4> QED BY <4>1, <2>2, <2>3, SMTT(30)
    <3>2. \A k \in 1 .. Len(list) : list[k].n = p.n => list[k] = e
      BY <3>1, <2>5, SMT DEF Adds
    <3>3. e.so = 0 /\ e.last
      BY <3>2, <2>6
    <3>4. p.first /\ p.last
      BY <3>3, <2>4 DEF PduOK
    <3> QED BY <3>4, <2>1
  <2>8. ListOK(list, high - window_size, high)
    <3>1. high <= high
      BY <2>3, SMT
    <3> QED BY <3>1, <2>2, <2>3, <2>4, <2>7, <1>AddFacts DEF list
  <2>9. /\ ListOK(after, high - window_size, high)
        /\ Len(after) = Len(list)
        /\ \A k \in 1 .. Len(list) : after[k].n = list[k].n
        /\ \A m : Deliv(after, m) <=> (Deliv(list, m) \/ m = p.n)
        /\ MarksAll(list, p.n, after)
    <3>1. /\ high - window_size \in Int
          /\ high - window_size <= high - window_size
          /\ high <= high + window_size
      BY <2>3, SMT
    <3> DEFINE n == p.n
    <3>2. after = Emptied(list, n % SnModulus)
      BY <2>2
    <3>3. /\ n \in Int /\ high - window_size <= n /\ n < high + window_size
          /\ \E i \in 1 .. Len(list) : list[i].n = n /\ list[i].so = 0
      BY <2>2, <2>6
    <3> HIDE DEF n, after
    <3>4. ListOK(after, high - window_size, high) /\ MarksAll(list, n, after)
      BY <3>1, <3>2, <3>3, <2>3, <2>8, <1>EmptiedFacts
    <3> QED BY <3>4 DEF MarksAll, n
  <2> HIDE DEF after
  <2>10. ASSUME NEW k \in 1 .. Len(after), after[k].n < NextCount
         PROVE  Deliv(after, after[k].n)
    <3>1. k \in 1 .. Len(list) /\ list[k].n = after[k].n
      BY <2>9
    <3>2. list[k] # e
      BY <3>1, <2>10, <2>2, <2>3, <2>4, SMTT(30)
    <3>3. PICK j \in 1 .. Len(rx_list) : list[k] = rx_list[j]
      BY <3>1, <3>2, <2>5 DEF Adds
    <3>4. Deliv(rx_list, after[k].n)
      BY <3>1, <3>3, <2>10, <2>3 DEF NextOK
    <3> QED BY <3>4, <2>5, <2>9
  <2>11. \E u \in Int : /\ NextCount <= u /\ u <= high /\ next = u % SnModulus
                        /\ NextOK(after, u)
    <3>1. CASE p.n = NextCount
      <4>1. PICK u \in NextCount .. high :
              /\ FirstNotDelivered(after, NextCount % SnModulus) = u % SnModulus
              /\ ~Deliv(after, u)
              /\ \A m \in NextCount .. u - 1 : Deliv(after, m)
        BY <2>3, <2>9, <1>FirstFacts
      <4>2. next = u % SnModulus
        BY <3>1, <4>1, <2>2, <2>3 DEF next
      <4>3. ASSUME NEW k \in 1 .. Len(after), after[k].n < u
            PROVE  Deliv(after, after[k].n)
        <5>1. after[k].n \in Int
          BY <2>9, ListTypes, SMTT(30) DEF ListOK
        <5>2. after[k].n < NextCount \/ after[k].n \in NextCount .. u - 1
          BY <5>1, <4>3, <2>3, SMTT(30)
        <5> QED BY <5>2, <4>1, <2>10
      <4>4. NextOK(after, u)
        BY <4>1, <4>3 DEF NextOK
      <4>5. u \in Int /\ NextCount <= u /\ u <= high
        BY <2>3, SMT
      <4> QED BY <4>2, <4>4, <4>5
    <3>2. CASE p.n # NextCount
      <4>1. next = NextCount % SnModulus
        BY <3>2, <2>2, <2>3 DEF next
      <4>2. NextOK(after, NextCount)
        BY <3>2, <2>3, <2>5, <2>9, <2>10 DEF NextOK
      <4>3. NextCount <= NextCount
        BY <2>3, SMT
      <4> QED BY <4>1, <4>2, <4>3, <2>3
    <3> QED BY <3>1, <3>2
  <2>12. PICK u \in Int : /\ NextCount <= u /\ u <= high /\ next = u % SnModulus
                          /\ NextOK(after, u)
    BY <2>11
  <2>13. high - window_size <= u /\ UpdateTimer(high % SnModulus, u % SnModulus, after)
    BY <2>1, <2>3, <2>12, SMT
  <2>14. RecvInv' /\ NextCount' = u /\ rx_list' = after
    BY <2>1, <2>3, <2>9, <2>12, <2>13, <1>TimerOK
  <2>15. Completed(p, list)
    BY <2>1, <2>5, <2>8, <2>9, <2>14 DEF Completed, e
  <2> QED BY <2>2, <2>5, <2>7, <2>9, <2>12, <2>14, <2>15 DEF PduCompletes
\* A segment above the window moves it up; what the window leaves behind is
\* dropped, delivered or not.
<1>MovesStep.
    ASSUME RecvInv, NEW p, PduOK(p), recv_pdu_moves_window(p)
    PROVE  PduMovesWindow(p)
  <2> USE <1>MovesStep
  <2> DEFINE e == Received(p)
             list == pdu_list_add(rx_next_highest, rx_list, e)
             highest == (p.sn + 1) % SnModulus
             out == {sn \in SN : sn_compare_rx(highest, sn, highest) >= 0}
             kept == DropWhile(list, out)
             next == IF rx_next_reassembly \in out
                     THEN FirstNotDelivered(kept, (highest - window_size) % SnModulus)
                     ELSE rx_next_reassembly
             h == p.n + 1
             c == h - window_size
  <2>1. /\ ~Stale(p) /\ InWindow(p) /\ high' = h
        /\ sn_compare_rx(rx_next_highest, p.sn, rx_next_highest) >= 0
        /\ UpdateTimer(highest, next, kept)
    BY DEF recv_pdu_moves_window, Accepted
  <2>2. /\ p.n \in Nat /\ high - window_size <= p.n /\ p.n < high + window_size
        /\ NextCount <= p.n /\ p.sn = p.n % SnModulus
        /\ sn_compare_rx(rx_next_highest, p.sn, rx_next_highest) = p.n - high
    BY <2>1, AcceptedFacts
  <2>3. /\ high \in Nat /\ high \in Int /\ rx_next_highest = high % SnModulus
        /\ rx_timer_trigger \in SN /\ t_reassembly_start \in {"off", "on"}
        /\ ListOK(rx_list, high - window_size, high)
        /\ NextCount \in Int /\ high - window_size <= NextCount /\ NextCount <= high
        /\ NextCount % SnModulus = rx_next_reassembly /\ NextOK(rx_list, NextCount)
        /\ window_size \in Nat /\ window_size >= 2 /\ rx_next_reassembly \in SN
    BY RecvFacts
  <2>4. /\ high <= p.n /\ h \in Nat /\ h \in Int /\ c \in Int /\ high <= h /\ p.n < h
        /\ high - window_size >= h - SnModulus /\ NextCount < h /\ c <= h
    BY <2>1, <2>2, <2>3, Widths, SMT
  <2>5. highest = h % SnModulus
    <3>1. p.n \in Int /\ 1 \in Int
      BY <2>2, SMT
    <3>2. ((p.n % SnModulus) + 1) % SnModulus = (p.n + 1) % SnModulus
      BY <3>1, <1>ModuloSum
    <3> QED BY <3>2, <2>2
  <2>6. e \in Entry /\ e.n = p.n /\ e.sn = e.n % SnModulus /\ e.data
    BY ReceivedFacts
  <2> HIDE DEF e
  <2>7. /\ ListOK(list, high - window_size, h)
        /\ Adds(rx_list, e, list)
        /\ \A m : Deliv(list, m) <=> Deliv(rx_list, m)
    <3>1. p.n \in Int
      BY <2>2, SMT
    <3> QED BY <3>1, <2>2, <2>3, <2>4, <2>6, <1>AddFacts
  <2> HIDE DEF list, h, highest
  <2>8. ASSUME NEW n \in Int, high - window_size <= n, n < h
        PROVE  n % SnModulus \in out <=> n < c
    <3>1. n % SnModulus \in SN
      BY Modulo
    <3>2. h - SnModulus <= n
      BY <2>3, <2>4, <2>8, Widths, SMT
    <3>3. sn_compare_rx(h % SnModulus, n % SnModulus, h % SnModulus) >= 0 <=> n < c
      BY <3>2, <2>4, <2>8, <1>LeftBehind
    <3> QED BY <3>1, <3>3, <2>5
  <2>9. rx_next_reassembly \in out <=> NextCount < c
    BY <2>3, <2>4, <2>8
  <2>10. \A k \in 1 .. Len(list) : list[k].sn \in out <=> list[k].n < c
    <3>1. \A k \in 1 .. Len(list) :
            /\ list[k].n \in Int /\ list[k].sn = list[k].n % SnModulus
            /\ high - window_size <= list[k].n /\ list[k].n < h
      BY <2>7, ListTypes, SMT DEF ListOK, Within
    <3> HIDE DEF out, c
    <3> QED BY <3>1, <2>8
  <2> HIDE DEF out
  <2>11. ListOK(kept, c, h) /\ Drops(list, c, kept)
    <3>1. high - window_size \in Int
      BY <2>3, SMT
    <3> HIDE DEF c
    <3> QED BY <3>1, <2>4, <2>7, <2>10, <1>DropFacts
  <2> HIDE DEF kept, next
  <2>12. \E u \in Int : /\ NextCount <= u /\ c <= u /\ u <= h /\ next = u % SnModulus
                        /\ NextOK(kept, u)
    <3>1. CASE NextCount < c
      <4>1. (highest - window_size) % SnModulus = c % SnModulus
        <5>1. -window_size \in Int
          BY <2>3, SMT
        <5>2. ((h % SnModulus) + (-window_size)) % SnModulus = (h + (-window_size)) % SnModulus
          BY <5>1, <2>4, <1>ModuloSum
        <5>3. h % SnModulus \in Int
          BY <2>4, Modulo, SMT DEF SN
        <5>4. /\ (h % SnModulus) + (-window_size) = highest - window_size
              /\ h + (-window_size) = c
          BY <5>3, <2>3, <2>4, <2>5
        <5> QED BY <5>2, <5>4
      <4>2. c <= c
        BY <2>4, SMT
      <4>3. PICK u \in c .. h :
              /\ FirstNotDelivered(kept, c % SnModulus) = u % SnModulus
              /\ ~Deliv(kept, u)
              /\ \A m \in c .. u - 1 : Deliv(kept, m)
        BY <4>2, <2>4, <2>11, <1>FirstFacts
      <4>4. next = u % SnModulus
        BY <3>1, <4>1, <4>3, <2>9 DEF next
      <4>5. ASSUME NEW k \in 1 .. Len(kept), kept[k].n < u
            PROVE  Deliv(kept, kept[k].n)
        <5>1. kept[k].n \in Int
          BY <2>11, ListTypes, SMTT(30) DEF ListOK
        <5>2. kept[k].n \in c .. u - 1
          BY <5>1, <4>5, <2>4, <2>11, SMTT(30) DEF Drops
        <5> QED BY <5>2, <4>3
      <4>6. NextOK(kept, u)
        BY <4>3, <4>5 DEF NextOK
      <4>7. u \in Int /\ NextCount <= u /\ c <= u /\ u <= h
        BY <3>1, <2>3, <2>4, SMT
      <4> QED BY <4>4, <4>6, <4>7
    <3>2. CASE c <= NextCount
      <4>1. next = NextCount % SnModulus
        BY <3>2, <2>3, <2>4, <2>9, SMTT(30) DEF next
      <4>2. ~Deliv(kept, NextCount)
        BY <3>2, <2>3, <2>7, <2>11 DEF NextOK, Drops
      <4>3. ASSUME NEW k \in 1 .. Len(kept), kept[k].n < NextCount
            PROVE  Deliv(kept, kept[k].n)
        <5>1. kept[k].n \in Int /\ kept[k].n >= c
          BY <2>11, ListTypes, SMT DEF ListOK, Drops
        <5>2. PICK i \in 1 .. Len(list) : kept[k] = list[i]
          BY <2>11 DEF Drops
        <5>3. list[i] # e
          BY <5>2, <4>3, <2>2, <2>3, <2>6, SMTT(30)
        <5>4. PICK j \in 1 .. Len(rx_list) : list[i] = rx_list[j]
          BY <5>3, <2>7 DEF Adds
        <5>5. Deliv(list, kept[k].n)
          BY <5>2, <5>4, <4>3, <2>3, <2>7 DEF NextOK
        <5> QED BY <5>1, <5>5, <2>11 DEF Drops
      <4>4. NextOK(kept, NextCount)
        BY <4>2, <4>3 DEF NextOK
      <4>5. NextCount <= NextCount /\ NextCount <= h
        BY <2>3, <2>4, SMT
      <4> QED BY <3>2, <4>1, <4>4, <4>5, <2>3
    <3> QED BY <3>1, <3>2, <2>3, <2>4, SMT
  <2>13. PICK u \in Int : /\ NextCount <= u /\ c <= u /\ u <= h /\ next = u % SnModulus
                          /\ NextOK(kept, u)
    BY <2>12
  <2>14. UpdateTimer(h % SnModulus, u % SnModulus, kept)
    BY <2>1, <2>5, <2>13
  <2>15. RecvInv' /\ NextCount' = u /\ rx_list' = kept
    BY <2>1, <2>3, <2>4, <2>11, <2>13, <2>14, <1>TimerOK
  <2>16. /\ Adds(rx_list, Received(p), list)
         /\ \A m : Deliv(list, m) <=> Deliv(rx_list, m)
         /\ Drops(list, c, rx_list') /\ c <= NextCount'
    BY <2>7, <2>11, <2>13, <2>15 DEF e
  <2> HIDE DEF c
  <2> QED BY <2>4, <2>13, <2>15, <2>16 DEF PduMovesWindow
\* t_reassembly expires: rx_next_reassembly goes to the first count from the
\* trigger on that is not delivered, and what is below it is dropped.
<1>CheckStep.
    ASSUME RecvInv, check_t_reassembly
    PROVE  WindowChecked
  <2> USE <1>CheckStep
  <2> DEFINE t == CountOf(high, rx_timer_trigger)
             next == FirstNotDelivered(rx_list, rx_timer_trigger)
             old == {sn \in SN : sn_compare_rx(rx_next_highest, sn, next) < 0}
             kept == DropWhile(rx_list, old)
             g == high % SnModulus
  <2>1. /\ t_reassembly_start = "on" /\ rx_next_reassembly' = next /\ rx_list' = kept
        /\ t_reassembly_start' = IF RestartGap(next, kept) THEN "on" ELSE "off"
        /\ rx_timer_trigger' =
             IF RestartGap(next, kept) THEN rx_next_highest ELSE rx_timer_trigger
        /\ rx_next_highest' = rx_next_highest /\ high' = high
    BY DEF check_t_reassembly
  <2>2. /\ high \in Nat /\ high \in Int /\ rx_next_highest = g
        /\ rx_timer_trigger \in SN
        /\ ListOK(rx_list, high - window_size, high)
        /\ NextCount \in Int /\ high - window_size <= NextCount /\ NextCount <= high
        /\ window_size \in Nat /\ window_size >= 2
    BY RecvFacts
  <2>3. NextCount <= t /\ t <= high
    BY <2>1 DEF RecvInv, RecvOK, NextCount
  <2>4. t \in Int /\ t % SnModulus = rx_timer_trigger
    BY <2>2, CountOfFacts, SMT
  <2> HIDE DEF t
  <2>5. PICK u \in t .. high : /\ next = u % SnModulus /\ ~Deliv(rx_list, u)
                               /\ \A m \in t .. u - 1 : Deliv(rx_list, m)
    <3>1. high - window_size <= t
      BY <2>2, <2>3, <2>4, SMT
    <3>2. \E u \in t .. high : /\ FirstNotDelivered(rx_list, t % SnModulus) = u % SnModulus
                               /\ ~Deliv(rx_list, u)
                               /\ \A m \in t .. u - 1 : Deliv(rx_list, m)
      BY <3>1, <2>2, <2>3, <2>4, <1>FirstFacts
    <3> QED BY <3>2, <2>4
  <2>6. /\ u \in Int /\ NextCount <= u /\ u <= high /\ high - window_size <= u
        /\ u < high + window_size /\ high - window_size <= high
        /\ high < high + window_size
    BY <2>2, <2>3, <2>4, SMT
  <2> HIDE DEF next
  <2>7. \A k \in 1 .. Len(rx_list) : rx_list[k].sn \in old <=> rx_list[k].n < u
    <3> SUFFICES ASSUME NEW k \in 1 .. Len(rx_list)
                 PROVE  rx_list[k].sn \in old <=> rx_list[k].n < u
      OBVIOUS
    <3> DEFINE n == rx_list[k].n
    <3>1. /\ n \in Int /\ rx_list[k].sn = n % SnModulus
          /\ high - window_size <= n /\ n < high + window_size
      BY <2>2, ListTypes, SMT DEF ListOK, Within
    <3> HIDE DEF n
    <3>2. sn_compare_rx(high % SnModulus, n % SnModulus, u % SnModulus) = n - u
      BY <3>1, <2>2, <2>6, Compare
    <3>3. n % SnModulus \in SN
      BY <3>1, Modulo
    <3>4. n % SnModulus \in old <=> n - u < 0
      BY <3>2, <3>3, <2>2, <2>5
    <3>5. n - u < 0 <=> n < u
      BY <3>1, <2>6, SMT
    <3> QED BY <3>1, <3>4, <3>5 DEF n
  <2> HIDE DEF old
  <2>8. ListOK(kept, u, high) /\ Drops(rx_list, u, kept)
    <3>1. high - window_size \in Int
      BY <2>2, SMT
    <3> QED BY <3>1, <2>2, <2>6, <2>7, <1>DropFacts
  <2> HIDE DEF kept
  <2>9. ListOK(kept, high - window_size, high)
    <3>1. high - window_size \in Int /\ high <= high
      BY <2>2, SMT
    <3> QED BY <3>1, <2>2, <2>6, <2>8, Widen
  <2>10. NextOK(kept, u)
    <3>1. ~Deliv(kept, u)
      BY <2>5, <2>6, <2>8, SMT DEF Drops
    <3>2. ASSUME NEW k \in 1 .. Len(kept) PROVE ~(kept[k].n < u)
      <4>1. kept[k].n \in Int /\ kept[k].n >= u
        BY <2>8, ListTypes, SMT DEF Drops, ListOK
      <4> QED BY <4>1, <2>6, SMTT(30)
    <3> QED BY <3>1, <3>2 DEF NextOK
  <2>11. g \in SN /\ next \in SN
    BY <2>2, <2>5, <2>6, Modulo
  <2>12. CountOf(high, next) = u /\ CountOf(high, g) = high
    BY <2>2, <2>5, <2>6, CountOfResidue
  <2>13. ReassemblyGap(g, next, kept) /\ next # SnModulus - 1 => RestartGap(next, kept)
    <3>1. next # SnModulus - 1 => next + 1 \in SN
      BY <2>11, Widths, SMT DEF SN
    <3>2. next # SnModulus - 1 => (next + 1) % SnModulus = next + 1
      BY <3>1, Residue
    <3> HIDE DEF g
    <3> QED BY <3>2, <2>2 DEF ReassemblyGap, RestartGap
  <2> HIDE DEF g
  <2>14. /\ t_reassembly_start' \in {"off", "on"} /\ rx_timer_trigger' \in SN
         /\ ReassemblyGap(g, next, kept) /\ next # SnModulus - 1
            => t_reassembly_start' = "on"
         /\ t_reassembly_start' = "on" => /\ u <= CountOf(high, rx_timer_trigger')
                                          /\ CountOf(high, rx_timer_trigger') <= high
    <3>1. CASE RestartGap(next, kept)
      BY <3>1, <2>1, <2>2, <2>6, <2>11, <2>12, SMTT(30)
    <3>2. CASE ~RestartGap(next, kept)
      BY <3>2, <2>1, <2>2, <2>13
    <3> QED BY <3>1, <3>2
  <2>15. RecvOK(high', rx_next_highest', rx_next_reassembly', rx_timer_trigger',
                t_reassembly_start', rx_list')
    BY <2>1, <2>2, <2>6, <2>9, <2>10, <2>11, <2>12, <2>14 DEF RecvOK, g
  <2>16. CountOf(high', rx_next_reassembly') = u /\ u <= u
    BY <2>1, <2>6, <2>12, SMT
  <2> QED BY <2>1, <2>6, <2>8, <2>15, <2>16 DEF RecvInv, NextCount, WindowChecked
\* An empty window at s.
<1>EmptyWindow.
    ASSUME NEW s \in SN
    PROVE  RecvOK(s, s, s, s, "off", <<>>)
  <2> USE SMT
  <2>1. /\ s \in Nat /\ s \in Int /\ s % SnModulus = s /\ window_size \in Nat
        /\ window_size >= 2 /\ s - window_size \in Int
    BY Widths, Residue DEF SN
  <2>2. ListOK(<<>>, s - window_size, s)
    BY DEF ListOK, Within, Sorted, Marked, MarkedFirst
  <2>3. CountOf(s, s) = s
    <3>1. s - window_size <= s /\ s < s + window_size
      BY <2>1
    <3>2. CountOf(s, s % SnModulus) = s
      BY <3>1, <2>1, CountOfResidue, Zenon
    <3> QED BY <3>2, <2>1, Zenon
  <2>4. NextOK(<<>>, s)
    BY DEF NextOK, Deliv
  <2>5. ~ReassemblyGap(s, s, <<>>)
    <3>1. ~sdu_has_missing_bytes(<<>>, s)
      <4>1. Segments(<<>>, s) = {}
        BY DEF Segments
      <4> QED BY <4>1, Zenon DEF sdu_has_missing_bytes, HasData
    <3>2. /\ s + 1 \in Int /\ s - window_size <= s /\ s < s + window_size
          /\ s - window_size <= s + 1 /\ s + 1 < s + window_size
      BY <2>1
    <3>3. sn_compare_rx(s % SnModulus, s % SnModulus, (s + 1) % SnModulus) = s - (s + 1)
      BY <3>2, <2>1, Compare, Zenon
    <3>4. ~(sn_compare_rx(s, s, (s + 1) % SnModulus) > 0)
      BY <3>3, <2>1
    <3> QED BY <3>1, <3>4, Zenon DEF ReassemblyGap
  <2>6. s <= s
    BY <2>1
  <2> QED BY <2>1, <2>2, <2>3, <2>4, <2>5, <2>6, Zenon DEF RecvOK
<1>OrderHolds.
    ASSUME RecvInv
    PROVE  WindowOrder
  <2> USE <1>OrderHolds
  <2>1. /\ ListOK(rx_list, high - window_size, high) /\ high \in Int
        /\ NextCount <= high /\ window_size \in Nat
        /\ rx_next_highest = high % SnModulus /\ NextCount \in Int
    BY RecvFacts
  <2>2. rx_list \in Seq(Entry) /\ Sorted(rx_list) /\ Within(rx_list, high - window_size, high)
    BY <2>1 DEF ListOK
  <2>3. Len(rx_list) \in Nat
    BY <2>2, ListTypes
  <2>4. \A k \in 1 .. Len(rx_list) - 1 :
          \/ rx_list[k].n < rx_list[k + 1].n
          \/ rx_list[k].n = rx_list[k + 1].n /\ rx_list[k].so <= rx_list[k + 1].so
    <3> SUFFICES ASSUME NEW k \in 1 .. Len(rx_list) - 1
                 PROVE  \/ rx_list[k].n < rx_list[k + 1].n
                        \/ /\ rx_list[k].n = rx_list[k + 1].n
                           /\ rx_list[k].so <= rx_list[k + 1].so
      OBVIOUS
    <3>1. k \in 1 .. Len(rx_list) /\ k + 1 \in 1 .. Len(rx_list) /\ k < k + 1
      BY <2>3, SMT
    <3> QED BY <3>1, <2>2 DEF Sorted
  <2>5. modulus_rx(rx_next_highest, rx_next_reassembly) <= window_size
    <3> DEFINE w == modulus_rx(rx_next_highest, rx_next_reassembly)
    <3>1. NextCount = high - window_size + w
      BY <2>1 DEF NextCount, CountOf
    <3>2. w \in Int
      <4>1. rx_next_reassembly \in SN /\ high % SnModulus \in SN
        BY <2>1, RecvFacts, Modulo
      <4>2. rx_next_reassembly - ((high % SnModulus) - window_size) \in Int
        BY <4>1, <2>1, Widths, SMT DEF SN
      <4>3. w = (rx_next_reassembly - ((high % SnModulus) - window_size)) % SnModulus
        BY <2>1 DEF modulus_rx
      <4> QED BY <4>2, <4>3, Modulo, Widths, SMT DEF SN
    <3> HIDE DEF w
    <3>3. w <= window_size
      BY <3>1, <3>2, <2>1, SMT
    <3> QED BY <3>3 DEF w
  <2> QED BY <2>2, <2>4, <2>5 DEF WindowOrder, Within
<1>NextHolds.
    ASSUME RecvInv
    PROVE  NextReassemblyExact
  <2> USE <1>NextHolds
  <2>1. /\ ListOK(rx_list, high - window_size, high) /\ high \in Int
        /\ NextCount <= high /\ high - window_size <= NextCount
        /\ window_size \in Nat /\ window_size >= 2
        /\ rx_next_highest = high % SnModulus /\ NextCount \in Int
        /\ NextCount % SnModulus = rx_next_reassembly /\ NextOK(rx_list, NextCount)
    BY RecvFacts
  <2>2. ListOK(rx_list, high - window_size, high + window_size)
    BY <2>1, Widen, SMT
  <2>3. ~sdu_delivered(rx_list, rx_next_reassembly)
    <3>1. NextCount < high + window_size
      BY <2>1, SMT
    <3>2. sdu_delivered(rx_list, NextCount % SnModulus) <=> Deliv(rx_list, NextCount)
      BY <2>1, <2>2, <3>1, DelivIff
    <3> QED BY <3>2, <2>1 DEF NextOK
  <2>4. ASSUME NEW k \in 1 .. Len(rx_list),
               sn_compare_rx(rx_next_highest, rx_list[k].sn, rx_next_reassembly) < 0
        PROVE  sdu_delivered(rx_list, rx_list[k].sn)
    <3> DEFINE n == rx_list[k].n
    <3>1. /\ rx_list[k].sn = n % SnModulus /\ high - window_size <= n /\ n < high
      BY <2>1 DEF ListOK, Within
    <3>2. n \in Int
      BY <2>1, ListTypes, SMT DEF ListOK
    <3> HIDE DEF n
    <3>3. n < high + window_size /\ NextCount < high + window_size
      BY <2>1, <3>1, <3>2, SMT
    <3>4. sn_compare_rx(high % SnModulus, n % SnModulus, NextCount % SnModulus)
          = n - NextCount
      BY <2>1, <3>1, <3>2, <3>3, Compare
    <3>5. n - NextCount < 0
      BY <2>4, <3>1, <3>4, <2>1
    <3>6. n < NextCount
      BY <3>5, <3>2, <2>1, SMT
    <3>7. Deliv(rx_list, n)
      BY <3>6, <2>1 DEF NextOK, n
    <3>8. sdu_delivered(rx_list, n % SnModulus) <=> Deliv(rx_list, n)
      BY <2>1, <2>2, <3>1, <3>2, <3>3, DelivIff
    <3> QED BY <3>7, <3>8, <3>1
  <2> QED BY <2>3, <2>4 DEF NextReassemblyExact
<1>GapHolds.
    ASSUME RecvInv
    PROVE  GapTimedBelowWrap
  BY <1>GapHolds DEF RecvInv, RecvOK, GapTimedBelowWrap
<1>1. ASSUME RecvInv PROVE ReceiverEffects
  BY <1>1, <1>InsideStep, <1>CompletesStep, <1>MovesStep, <1>CheckStep DEF ReceiverEffects
<1> QED BY <1>1, <1>EmptyWindow, <1>OrderHolds, <1>NextHolds, <1>GapHolds
-----------------------------------------------------------------------------
(* The transmitter.                                                        *)

\* Removing an entry keeps the order; the head stays unless it is removed.
LEMMA RemoveShape ==
    ASSUME NEW list, NEW sub, TxShape(list, sub), NEW k \in 1 .. Len(list)
    PROVE  LET new == RemoveAt(list, k)
           IN /\ TxShape(new, sub)
              /\ Len(new) = Len(list) - 1
              /\ \A i \in 1 .. Len(new) :
                   \E j \in 1 .. Len(list) : new[i] = list[j] /\ i <= j /\ j # k
              /\ k # 1 => Len(new) >= 1 /\ new[1] = list[1]
<1> USE SMT
<1> DEFINE new == RemoveAt(list, k)
           a == SubSeq(list, 1, k - 1)
           b == SubSeq(list, k + 1, Len(list))
<1>1. /\ list \in Seq(Waiting) /\ Len(list) \in Nat
      /\ \A i \in 1 .. Len(list) : list[i] \in Waiting
  BY WaitingTypes, Zenon DEF TxShape
<1>2. a \in Seq(Waiting) /\ Len(a) = k - 1 /\ \A i \in 1 .. k - 1 : a[i] = list[i]
  BY <1>1, SMTT(30)
<1>3. /\ b \in Seq(Waiting) /\ Len(b) = Len(list) - k
      /\ \A i \in 1 .. Len(list) - k : b[i] = list[k + i]
  BY <1>1
<1>4. new = a \o b
  BY Zenon DEF RemoveAt
<1> HIDE DEF a, b
<1>5. /\ a \o b \in Seq(Waiting) /\ Len(a \o b) = Len(a) + Len(b)
      /\ \A i \in 1 .. Len(a) + Len(b) :
           (a \o b)[i] = IF i <= Len(a) THEN a[i] ELSE b[i - Len(a)]
  <2>1. a \in Seq(Waiting) /\ b \in Seq(Waiting)
    BY <1>2, <1>3, Zenon
  <2> QED BY <2>1
<1>6. new \in Seq(Waiting) /\ Len(new) = Len(list) - 1
  BY <1>1, <1>2, <1>3, <1>4, <1>5, SMTT(30)
<1>7. ASSUME NEW i \in 1 .. Len(list) - 1
      PROVE  /\ i < k => new[i] = list[i]
             /\ k <= i => new[i] = list[i + 1]
  <2>1. CASE i < k
    BY <2>1, <1>1, <1>2, <1>3, <1>4, <1>5, SMTT(30)
  <2>2. CASE k <= i
    <3>1. i - (k - 1) \in 1 .. Len(list) - k /\ k + (i - (k - 1)) = i + 1
      BY <2>2, <1>1
    <3>2. b[i - (k - 1)] = list[i + 1]
      BY <3>1, <1>3, Zenon
    <3> QED BY <2>2, <3>2, <1>1, <1>2, <1>3, <1>4, <1>5, SMTT(30)
  <2> QED BY <2>1, <2>2, <1>1, Zenon
<1> HIDE DEF new
<1> DEFINE at(i) == IF i < k THEN i ELSE i + 1
<1>8. \A i \in 1 .. Len(new) : /\ at(i) \in 1 .. Len(list) /\ new[i] = list[at(i)]
                               /\ i <= at(i) /\ at(i) # k
  BY <1>1, <1>6, <1>7, SMTT(30)
<1>9. \A i, j \in 1 .. Len(new) : i < j => at(i) < at(j)
  BY <1>1, <1>6
<1> HIDE DEF at
<1>10. Increasing(new)
  BY <1>8, <1>9, Zenon DEF TxShape, Increasing
<1>11. Segs(new, sub)
  <2> SUFFICES ASSUME NEW i \in 1 .. Len(new)
               PROVE  /\ new[i].last /\ new[i].size >= 1
                      /\ new[i].first <=> new[i].so = 0
                      /\ new[i].id \in 1 .. Len(sub)
                      /\ new[i].so + new[i].size = sub[new[i].id]
                      /\ i >= 2 => new[i].first
    BY Zenon DEF Segs
  <2>1. at(i) \in 1 .. Len(list) /\ new[i] = list[at(i)] /\ (i >= 2 => at(i) >= 2)
    BY <1>6, <1>8
  <2> QED BY <2>1, SMTT(30) DEF TxShape, Segs
<1>12. k # 1 => Len(new) >= 1 /\ new[1] = list[1]
  BY <1>1, <1>6, <1>7
<1> QED BY <1>6, <1>8, <1>10, <1>11, <1>12, Zenon DEF TxShape, new

\* Every step of the transmitter keeps the shape of tx_list.
LEMMA SenderSteps == SendInv => SenderEffects
<1>ReplaceShape.
    ASSUME NEW list, NEW sub, TxShape(list, sub), list # <<>>,
           NEW rest \in Waiting, rest.id = list[1].id, rest.last, rest.size >= 1,
           rest.so + rest.size = list[1].so + list[1].size,
           rest.first <=> rest.so = 0
    PROVE  /\ TxShape(<<rest>> \o Tail(list), sub)
           /\ Replaced(list, rest, <<rest>> \o Tail(list))
  <2> USE <1>ReplaceShape
  <2> DEFINE tl == Tail(list)
             one == <<rest>>
             new == one \o tl
  <2>1. list \in Seq(Waiting) /\ Len(list) \in Nat /\ Segs(list, sub) /\ Increasing(list)
    BY SMT DEF TxShape
  <2>2. /\ tl \in Seq(Waiting) /\ Len(tl) = Len(list) - 1 /\ 1 \in 1 .. Len(list)
        /\ \A i \in 1 .. Len(tl) : tl[i] = list[i + 1]
    BY TailShape DEF TxShape
  <2>3. one \in Seq(Waiting) /\ Len(one) = 1 /\ one[1] = rest
    BY SMT
  <2> HIDE DEF tl, one
  <2>4. /\ new \in Seq(Waiting) /\ Len(new) = Len(one) + Len(tl)
        /\ \A i \in 1 .. Len(one) + Len(tl) :
             new[i] = IF i <= Len(one) THEN one[i] ELSE tl[i - Len(one)]
    <3>1. one \in Seq(Waiting) /\ tl \in Seq(Waiting)
      BY <2>2, <2>3
    <3> QED BY <3>1, SMT
  <2> HIDE DEF new
  <2>5. new \in Seq(Waiting) /\ Len(new) = Len(list) /\ new[1] = rest
    BY <2>1, <2>2, <2>3, <2>4, SMT
  <2>6. ASSUME NEW i \in 2 .. Len(list) PROVE new[i] = list[i]
    <3>1. i - 1 \in 1 .. Len(tl) /\ (i - 1) + 1 = i
      BY <2>1, <2>2, SMT
    <3>2. tl[i - 1] = list[i]
      BY <3>1, <2>2
    <3>3. i \in 1 .. Len(one) + Len(tl) /\ ~(i <= Len(one)) /\ i - Len(one) = i - 1
      BY <2>1, <2>2, <2>3, SMT
    <3> QED BY <3>2, <3>3, <2>4
  <2>7. \A i \in 1 .. Len(list) : new[i].id = list[i].id
    BY <2>1, <2>5, <2>6, SMT
  <2>8. Increasing(new)
    BY <2>1, <2>5, <2>7 DEF Increasing
  <2>9. Segs(new, sub)
    <3> SUFFICES ASSUME NEW i \in 1 .. Len(list)
                 PROVE  /\ new[i].last /\ new[i].size >= 1
                        /\ new[i].first <=> new[i].so = 0
                        /\ new[i].id \in 1 .. Len(sub)
                        /\ new[i].so + new[i].size = sub[new[i].id]
                        /\ i >= 2 => new[i].first
      BY <2>5 DEF Segs
    <3>1. CASE i = 1
      <4>1. new[i] = rest /\ ~(i >= 2)
        BY <3>1, <2>5, SMTT(30)
      <4>2. /\ list[1].id \in 1 .. Len(sub)
            /\ list[1].so + list[1].size = sub[list[1].id]
        BY <2>1, <2>2 DEF Segs
      <4> QED BY <4>1, <4>2
    <3>2. CASE i \in 2 .. Len(list)
      BY <3>2, <2>1, <2>6 DEF Segs
    <3> QED BY <3>1, <3>2, <2>1, SMT
  <2>10. new # <<>>
    BY <2>2, <2>5, SMT
  <2>11. Replaced(list, rest, new)
    BY <2>5, <2>7, <2>10 DEF Replaced
  <2>12. TxShape(new, sub)
    BY <2>5, <2>8, <2>9 DEF TxShape
  <2> QED BY <2>11, <2>12 DEF new, one, tl
\* A segment whose SDU was submitted makes a proper PDU.
<1>SerializeOK.
    ASSUME NEW seg, tx_next \in Nat, seg.id \in Nat, seg.so \in Nat, seg.size \in Nat,
           seg.first \in BOOLEAN, seg.last \in BOOLEAN, seg.first <=> seg.so = 0
    PROVE  LET p == serialize_sdu(seg)
           IN /\ PduOK(p) /\ p.id = seg.id /\ p.n = tx_next /\ p.so = seg.so
              /\ p.size = seg.size /\ p.first = seg.first /\ p.last = seg.last
  <2> USE <1>SerializeOK
  <2> DEFINE p == serialize_sdu(seg)
  <2>1. /\ p.id = seg.id /\ p.n = tx_next /\ p.so = seg.so
        /\ p.size = seg.size /\ p.first = seg.first /\ p.last = seg.last
        /\ p.sn = tx_next % SnModulus
    BY DEF serialize_sdu
  <2> HIDE DEF p
  <2>2. PduOK(p)
    BY <2>1 DEF PduOK
  <2> QED BY <2>1, <2>2 DEF p
\* recv_sdu puts the new SDU, whole, at the end.
<1>SduStep.
    ASSUME SendInv, NEW size \in SduSize, recv_sdu(size)
    PROVE  SduAccepted
  <2> USE SMT
  <2> USE <1>SduStep
  <2> DEFINE seg == [id |-> Len(submitted) + 1, so |-> 0, size |-> size,
                     first |-> TRUE, last |-> TRUE]
  <2>1. /\ tx_list' = Append(tx_list, seg) /\ submitted' = Append(submitted, size)
        /\ tx_next' = tx_next /\ air' = air
    BY Zenon DEF recv_sdu
  <2>2. size \in Nat /\ size >= 1
    BY SizeAssumption, SMTT(30)
  <2>3. /\ submitted \in Seq(Nat) /\ tx_list \in Seq(Waiting)
        /\ Len(submitted) \in Nat /\ Len(tx_list) \in Nat
        /\ Segs(tx_list, submitted) /\ Increasing(tx_list)
        /\ \A k \in 1 .. Len(tx_list) : tx_list[k].id \in Nat
    BY WaitingTypes, SMTT(30) DEF SendInv, TxShape
  <2>4. /\ submitted' \in Seq(Nat) /\ Len(submitted') = Len(submitted) + 1
        /\ \A id \in 1 .. Len(submitted) : submitted'[id] = submitted[id]
        /\ submitted'[Len(submitted) + 1] = size
    BY <2>1, <2>2, <2>3, SMTT(30)
  <2>5. /\ seg \in Waiting /\ seg.id = Len(submitted) + 1 /\ seg.so = 0
        /\ seg.size = size /\ seg.first = TRUE /\ seg.last = TRUE
    BY <2>2, <2>3, SMTT(30) DEF Waiting
  <2> HIDE DEF seg
  <2>6. /\ tx_list' \in Seq(Waiting) /\ Len(tx_list') = Len(tx_list) + 1
        /\ \A k \in 1 .. Len(tx_list) : tx_list'[k] = tx_list[k]
        /\ tx_list'[Len(tx_list) + 1] = seg
    BY <2>1, <2>3, <2>5, SMTT(30)
  <2> DEFINE list == tx_list'
             sub == submitted'
  <2> HIDE DEF list, sub
  <2>7. Segs(list, sub)
    <3> SUFFICES ASSUME NEW k \in 1 .. Len(tx_list) + 1
                 PROVE  /\ list[k].last /\ list[k].size >= 1
                        /\ list[k].first <=> list[k].so = 0
                        /\ list[k].id \in 1 .. Len(sub)
                        /\ list[k].so + list[k].size = sub[list[k].id]
                        /\ k >= 2 => list[k].first
      BY <2>6, Zenon DEF Segs, list
    <3>1. CASE k = Len(tx_list) + 1
      <4>1. list[k] = seg /\ seg.id \in 1 .. Len(sub) /\ sub[seg.id] = size
        BY <3>1, <2>3, <2>4, <2>5, <2>6 DEF list, sub
      <4> QED BY <4>1, <2>2, <2>5, SMTT(30)
    <3>2. CASE k \in 1 .. Len(tx_list)
      <4>1. list[k] = tx_list[k]
        BY <3>2, <2>6, Zenon DEF list
      <4>2. /\ list[k].last /\ list[k].size >= 1
            /\ list[k].first <=> list[k].so = 0
            /\ list[k].id \in 1 .. Len(submitted)
            /\ list[k].so + list[k].size = submitted[list[k].id]
            /\ k >= 2 => list[k].first
        BY <3>2, <4>1, <2>3, Zenon DEF Segs
      <4>3. sub[list[k].id] = submitted[list[k].id] /\ list[k].id \in 1 .. Len(sub)
        BY <4>2, <2>3, <2>4, SMTT(30) DEF sub
      <4> QED BY <4>2, <4>3, Zenon
    <3> QED BY <3>1, <3>2, <2>3
  <2>8. Increasing(list)
    <3> SUFFICES ASSUME NEW i \in 1 .. Len(tx_list) + 1, NEW j \in 1 .. Len(tx_list) + 1,
                        i < j
                 PROVE  list[i].id < list[j].id
      BY <2>6, Zenon DEF Increasing, list
    <3>1. i \in 1 .. Len(tx_list) /\ list[i] = tx_list[i]
      BY <2>3, <2>6, SMTT(30) DEF list
    <3>2. CASE j = Len(tx_list) + 1
      <4>1. tx_list[i].id <= Len(submitted) /\ tx_list[i].id \in Nat
        BY <3>1, <2>3, SMTT(30) DEF Segs
      <4> QED BY <3>1, <3>2, <4>1, <2>3, <2>5, <2>6, SMTT(30) DEF list
    <3>3. CASE j \in 1 .. Len(tx_list)
      BY <3>1, <3>3, <2>3, <2>6, Zenon DEF Increasing, list
    <3> QED BY <3>2, <3>3, <2>3
  <2>9. AirOK'
    BY <2>1, Zenon DEF SendInv, AirOK
  <2>10. tx_next' \in Nat
    BY <2>1, Zenon DEF SendInv
  <2>11. SendInv'
    BY <2>4, <2>6, <2>7, <2>8, <2>9, <2>10, Zenon DEF SendInv, TxShape, list, sub
  <2> QED BY <2>4, <2>5, <2>6, <2>11, Zenon DEF SduAccepted
\* generate_tx_pdu, the whole head.
<1>WholeStep.
    ASSUME SendInv, NEW size \in Grant, generate_tx_pdu_whole(size)
    PROVE  WholeSent
  <2> USE <1>WholeStep
  <2> DEFINE seg == Head(tx_list)
             p == serialize_sdu(seg)
  <2>1. /\ tx_list # <<>> /\ tx_list' = Tail(tx_list) /\ air' = air \cup {p}
        /\ tx_next' = IF ~seg.first /\ seg.last THEN tx_next + 1 ELSE tx_next
        /\ submitted' = submitted
    BY DEF generate_tx_pdu_whole, TxUnchanged
  <2>2. /\ seg.last = TRUE /\ tx_next \in Nat
        /\ seg.id \in Nat /\ seg.so \in Nat /\ seg.size \in Nat
        /\ seg.first \in BOOLEAN
        /\ seg.first <=> seg.so = 0
    BY <2>1, HeadFacts
  <2>3. PduOK(p)
    BY <2>2, <1>SerializeOK
  <2>4. TxShape(tx_list', submitted')
    BY <2>1, TailShape DEF SendInv
  <2>5. AirOK'
    BY <2>1, <2>3 DEF SendInv, AirOK
  <2>6. /\ tx_next' = IF seg.first THEN tx_next ELSE tx_next + 1
        /\ tx_next' \in Nat
    BY <2>1, <2>2, SMT
  <2>7. SendInv'
    BY <2>1, <2>4, <2>5, <2>6 DEF SendInv
  <2> QED BY <2>1, <2>3, <2>6, <2>7 DEF WholeSent
\* generate_tx_pdu, the front of the head.
<1>CutStep.
    ASSUME SendInv, NEW size \in Grant, generate_tx_pdu_cut(size)
    PROVE  SegmentSent
  <2> USE <1>CutStep
  <2> DEFINE seg == Head(tx_list)
             cut == resegment_cut(seg, size)
             rest == resegment_rest(seg, cut)
             p == serialize_sdu(cut)
  <2>1. /\ tx_list # <<>> /\ tx_list' = <<rest>> \o Tail(tx_list)
        /\ air' = air \cup {p} /\ size < PduSize(seg) /\ cut.size >= 1
        /\ tx_next' = tx_next /\ submitted' = submitted
    BY DEF generate_tx_pdu_cut, TxUnchanged
  <2>2. /\ seg = tx_list[1] /\ seg.last = TRUE /\ tx_next \in Nat /\ seg \in Waiting
        /\ seg.id \in Nat /\ seg.so \in Nat /\ seg.size \in Nat /\ seg.size >= 1
        /\ seg.first \in BOOLEAN
        /\ seg.first <=> seg.so = 0
        /\ seg.so + seg.size = submitted[seg.id]
        /\ 1 \in 1 .. Len(tx_list)
    BY <2>1, HeadFacts
  <2>3. size \in Nat
    BY SizeAssumption
  <2>4. /\ cut.id = seg.id /\ cut.so = seg.so /\ cut.first = seg.first
        /\ cut.last = FALSE /\ cut.size \in Nat /\ cut.size < seg.size
        /\ rest \in Waiting /\ rest.id = seg.id /\ rest.first = FALSE
        /\ rest.last = seg.last /\ rest.so = seg.so + cut.size
        /\ rest.size = seg.size - cut.size
    <3> HIDE DEF seg
    <3>1. CutOf(seg, cut, rest)
      BY <2>1, <2>2, <2>3, CutFacts
    <3> QED BY <3>1 DEF CutOf
  <2> HIDE DEF seg, cut, rest
  <2>5. /\ PduOK(p) /\ p.id = seg.id /\ p.n = tx_next /\ p.so = seg.so
        /\ p.size = cut.size /\ p.last = FALSE
    <3>1. /\ cut.id \in Nat /\ cut.so \in Nat /\ cut.size \in Nat
          /\ cut.first \in BOOLEAN /\ cut.last \in BOOLEAN
          /\ cut.first <=> cut.so = 0
      BY <2>2, <2>4
    <3> QED BY <3>1, <2>2, <2>4, <1>SerializeOK
  <2> HIDE DEF p
  <2>6. /\ rest.last /\ rest.size >= 1 /\ rest.so + rest.size = seg.so + seg.size
        /\ rest.first <=> rest.so = 0
    BY <2>1, <2>2, <2>4, SMTT(30)
  <2>7. /\ TxShape(tx_list', submitted) /\ Len(tx_list') = Len(tx_list)
        /\ tx_list'[1] = rest /\ tx_list' # <<>>
        /\ \A i \in 1 .. Len(tx_list) : tx_list'[i].id = tx_list[i].id
    <3>1. /\ TxShape(tx_list, submitted) /\ rest.id = tx_list[1].id
          /\ rest.so + rest.size = tx_list[1].so + tx_list[1].size
      BY <2>2, <2>4, <2>6 DEF SendInv
    <3>2. TxShape(tx_list', submitted) /\ Replaced(tx_list, rest, tx_list')
      BY <3>1, <2>1, <2>4, <2>6, <1>ReplaceShape
    <3> QED BY <3>2 DEF Replaced
  <2>8. AirOK'
    BY <2>1, <2>5 DEF SendInv, AirOK
  <2>9. SendInv'
    BY <2>1, <2>7, <2>8 DEF SendInv
  <2>10. /\ p.size >= 1 /\ p.so + p.size = tx_list'[1].so
         /\ p.so + p.size < submitted[p.id]
    BY <2>1, <2>2, <2>4, <2>5, <2>7, SMT
  <2> QED BY <2>1, <2>2, <2>4, <2>5, <2>7, <2>9, <2>10 DEF SegmentSent
\* generate_tx_pdu drops a whole SDU that it cannot cut.
<1>NoRoomStep.
    ASSUME SendInv, NEW size \in Grant, generate_tx_pdu_no_room(size)
    PROVE  HeadDropped
  <2> USE <1>NoRoomStep
  <2> DEFINE seg == Head(tx_list)
  <2>1. /\ tx_list # <<>> /\ tx_list' = Tail(tx_list) /\ HeaderSize(seg) + 1 <= size
        /\ resegment_cut(seg, size).size < 1
        /\ tx_next' = tx_next /\ air' = air /\ submitted' = submitted
    BY DEF generate_tx_pdu_no_room, TxUnchanged
  <2>2. /\ seg = tx_list[1] /\ seg \in Waiting /\ seg.last = TRUE /\ seg.first \in BOOLEAN
    BY <2>1, HeadFacts
  <2>3. TxShape(tx_list', submitted')
    BY <2>1, TailShape DEF SendInv
  <2>4. SendInv'
    BY <2>1, <2>3 DEF SendInv, AirOK
  <2> HIDE DEF seg
  <2>5. ASSUME ~seg.first PROVE FALSE
    <3> DEFINE hd == compute_pdu_header_size(seg.first, FALSE)
    <3>1. hd \in Nat /\ HeaderSize(seg) = hd
      BY <2>2, <2>5, HeaderFacts DEF HeaderSize
    <3>2. resegment_cut(seg, size).size = size - hd
      BY <2>2 DEF resegment_cut, Waiting
    <3>3. size \in Nat
      BY SizeAssumption
    <3> HIDE DEF hd
    <3> QED BY <3>1, <3>2, <3>3, <2>1, SMT
  <2> QED BY <2>1, <2>2, <2>4, <2>5 DEF HeadDropped
\* discard_sdu takes out an SDU of which nothing was sent.
<1>DiscardStep.
    ASSUME SendInv, NEW id, discard_sdu(id)
    PROVE  SduDiscarded(id)
  <2> USE <1>DiscardStep
  <2>1. PICK k \in 1 .. Len(tx_list) : /\ tx_list[k].id = id /\ tx_list[k].first
                                       /\ tx_list' = RemoveAt(tx_list, k)
    BY DEF discard_sdu
  <2>2. tx_next' = tx_next /\ air' = air /\ submitted' = submitted
    BY DEF discard_sdu
  <2>3. TxShape(tx_list', submitted')
    BY <2>1, <2>2, RemoveShape DEF SendInv
  <2>4. SendInv'
    BY <2>2, <2>3 DEF SendInv, AirOK
  <2> QED BY <2>1, <2>4 DEF SduDiscarded
<1> SUFFICES ASSUME SendInv PROVE SenderEffects
  OBVIOUS
<1> QED BY <1>SduStep, <1>WholeStep, <1>CutStep, <1>NoRoomStep, <1>DiscardStep DEF SenderEffects
-----------------------------------------------------------------------------
(* The window.                                                             *)

LEMMA AirShrinks ==
    ASSUME SendInv, UNCHANGED tx_vars, air' \subseteq air
    PROVE  SendInv'
BY DEF SendInv, AirOK, tx_vars

LEMMA RecvUnchanged ==
    ASSUME RecvInv, UNCHANGED rx_vars
    PROVE  RecvInv' /\ NextCount' = NextCount /\ rx_list' = rx_list /\ delivered' = delivered
BY DEF RecvInv, rx_vars, NextCount

LEMMA TakenShrinks ==
    ASSUME NEW p, Taken(p)
    PROVE  /\ air' = air \/ air' = air \ {p}
           /\ p.first /\ p.last => air' = air \ {p}
BY DEF Taken

\* One of the steps of recv_pdu on a segment, except the one that delivers.
LEMMA SegmentStep ==
    ASSUME Least, WInv, NEW p \in air,
           \/ recv_pdu_discard(p) \/ recv_pdu_inside(p) \/ recv_pdu_moves_window(p)
    PROVE  /\ WInv' /\ Receives(p) /\ air' \subseteq air
           /\ ~(p.first /\ p.last)
<1>1. PduOK(p) /\ SendInv /\ RecvInv
  BY DEF WInv, SendInv, AirOK
<1>2. /\ air' \subseteq air /\ UNCHANGED tx_vars /\ ~(p.first /\ p.last)
  <2>1. Taken(p) /\ UNCHANGED tx_vars /\ ~(p.first /\ p.last)
    BY DEF recv_pdu_discard, recv_pdu_inside, recv_pdu_moves_window, Accepted
  <2> QED BY <2>1, TakenShrinks
<1>3. SendInv'
  BY <1>1, <1>2, AirShrinks
<1>4. NextCount \in Int
  BY <1>1, RecvFacts
<1>5. CASE recv_pdu_discard(p)
  <2>1. RecvInv' /\ NextCount' = NextCount /\ rx_list' = rx_list /\ delivered' = delivered
    BY <1>1, <1>5, RecvUnchanged DEF recv_pdu_discard
  <2>2. Receives(p)
    BY <2>1, <1>2, <1>4, SMT DEF Receives
  <2> QED BY <2>1, <2>2, <1>2, <1>3 DEF WInv
<1>6. CASE recv_pdu_inside(p)
  <2>1. /\ RecvInv' /\ NextCount' = NextCount
        /\ Adds(rx_list, Received(p), rx_list')
        /\ \A m : Deliv(rx_list', m) <=> Deliv(rx_list, m)
    BY <1>1, <1>6, ReceiverSteps DEF ReceiverEffects, PduInside
  <2>2. delivered' = delivered
    BY <1>6 DEF recv_pdu_inside
  <2>3. Receives(p)
    BY <2>1, <2>2, <1>2, <1>4, SMT DEF Receives
  <2> QED BY <2>1, <2>3, <1>2, <1>3 DEF WInv
<1>7. CASE recv_pdu_moves_window(p)
  <2>1. /\ RecvInv' /\ NextCount <= NextCount'
        /\ \E list : /\ Adds(rx_list, Received(p), list)
                     /\ \A m : Deliv(list, m) <=> Deliv(rx_list, m)
                     /\ \E c \in Int : Drops(list, c, rx_list') /\ c <= NextCount'
    BY <1>1, <1>7, ReceiverSteps DEF ReceiverEffects, PduMovesWindow
  <2>2. delivered' = delivered
    BY <1>7 DEF recv_pdu_moves_window
  <2>3. Receives(p)
    BY <2>1, <2>2, <1>2 DEF Receives
  <2> QED BY <2>1, <2>3, <1>2, <1>3 DEF WInv
<1> QED BY <1>5, <1>6, <1>7

LEMMA InitWInv == Least /\ Init => WInv
<1> SUFFICES ASSUME Least, Init PROVE WInv
  OBVIOUS
<1>1. PICK s \in StartSn : /\ tx_next = s /\ high = s
                           /\ rx_next_highest = s /\ rx_next_reassembly = s
                           /\ rx_timer_trigger = s
  BY DEF Init
<1>2. /\ tx_list = <<>> /\ submitted = <<>> /\ air = {} /\ rx_list = <<>>
      /\ t_reassembly_start = "off"
  BY DEF Init
<1>3. s \in SN /\ s \in Nat
  BY SizeAssumption, Widths, SMT DEF SN
<1>4. RecvInv
  BY <1>1, <1>2, <1>3, ReceiverSteps DEF RecvInv
<1>5. TxShape(<<>>, <<>>)
  BY SMT DEF TxShape, Segs, Increasing
<1>6. SendInv
  BY <1>1, <1>2, <1>3, <1>5, SMT DEF SendInv, AirOK
<1> QED BY <1>4, <1>6 DEF WInv

LEMMA ReestablishmentStep ==
    ASSUME Least, WInv, reestablishment
    PROVE  WInv'
<1>1. /\ tx_list' = <<>> /\ tx_next' = 0 /\ rx_list' = <<>>
      /\ rx_next_highest' = 0 /\ rx_next_reassembly' = 0 /\ rx_timer_trigger' = 0
      /\ t_reassembly_start' = "off" /\ high' = 0 /\ air' = {}
      /\ submitted' = submitted
  BY DEF reestablishment
<1>2. 0 \in SN
  BY Widths, SMT DEF SN
<1>3. RecvInv'
  BY <1>1, <1>2, ReceiverSteps DEF RecvInv
<1>4. TxShape(<<>>, submitted)
  BY SMT DEF TxShape, Segs, Increasing
<1>5. SendInv'
  BY <1>1, <1>4 DEF SendInv, AirOK, WInv
<1> QED BY <1>3, <1>5 DEF WInv

LEMMA NextWInv == Least /\ WInv /\ [Next]_vars => WInv'
<1> SUFFICES ASSUME Least, WInv, [Next]_vars PROVE WInv'
  OBVIOUS
<1>1. SendInv /\ RecvInv
  BY DEF WInv
<1>2. ASSUME NEW size \in SduSize, recv_sdu(size) PROVE WInv'
  <2>1. SendInv'
    BY <1>1, <1>2, SenderSteps DEF SenderEffects, SduAccepted
  <2>2. RecvInv'
    BY <1>1, <1>2, RecvUnchanged DEF recv_sdu
  <2> QED BY <2>1, <2>2 DEF WInv
<1>3. ASSUME NEW size \in Grant,
             \/ generate_tx_pdu_whole(size) \/ generate_tx_pdu_cut(size)
             \/ generate_tx_pdu_no_room(size)
      PROVE  WInv'
  <2>1. SendInv'
    BY <1>1, <1>3, SenderSteps DEF SenderEffects, WholeSent, SegmentSent, HeadDropped
  <2>2. UNCHANGED rx_vars
    BY <1>3 DEF generate_tx_pdu_whole, generate_tx_pdu_cut, generate_tx_pdu_no_room,
                TxUnchanged
  <2>3. RecvInv'
    BY <2>2, <1>1, RecvUnchanged
  <2> QED BY <2>1, <2>3 DEF WInv
<1>4. ASSUME NEW id \in 1 .. Len(submitted), discard_sdu(id) PROVE WInv'
  <2>1. SendInv'
    BY <1>1, <1>4, SenderSteps DEF SenderEffects, SduDiscarded
  <2>2. RecvInv'
    BY <1>1, <1>4, RecvUnchanged DEF discard_sdu
  <2> QED BY <2>1, <2>2 DEF WInv
<1>5. ASSUME NEW p \in air, recv_pdu_full(p) \/ lose(p) PROVE WInv'
  <2>1. air' \subseteq air /\ UNCHANGED tx_vars
    BY <1>5, TakenShrinks DEF recv_pdu_full, lose
  <2>2. /\ high' = high /\ rx_next_highest' = rx_next_highest
        /\ rx_next_reassembly' = rx_next_reassembly
        /\ rx_timer_trigger' = rx_timer_trigger
        /\ t_reassembly_start' = t_reassembly_start /\ rx_list' = rx_list
    BY <1>5 DEF recv_pdu_full, lose, rx_vars
  <2>3. RecvInv'
    BY <2>2, <1>1 DEF RecvInv
  <2> QED BY <2>1, <2>3, <1>1, AirShrinks DEF WInv
<1>6. ASSUME NEW p \in air,
             recv_pdu_discard(p) \/ recv_pdu_inside(p) \/ recv_pdu_moves_window(p)
      PROVE  WInv'
  BY <1>6, SegmentStep
<1>7. ASSUME NEW p \in air, recv_pdu_completes(p) PROVE WInv'
  <2>1. air' \subseteq air /\ UNCHANGED tx_vars
    BY <1>7, TakenShrinks DEF recv_pdu_completes, Accepted
  <2>2. RecvInv'
    <3>1. PduOK(p)
      BY <1>1 DEF SendInv, AirOK
    <3> QED BY <3>1, <1>1, <1>7, ReceiverSteps DEF ReceiverEffects, PduCompletes
  <2> QED BY <2>1, <2>2, <1>1, AirShrinks DEF WInv
<1>8. CASE check_t_reassembly
  <2>1. UNCHANGED tx_vars /\ air' \subseteq air
    BY <1>8 DEF check_t_reassembly
  <2>2. RecvInv'
    BY <1>1, <1>8, ReceiverSteps DEF ReceiverEffects, WindowChecked
  <2> QED BY <2>1, <2>2, <1>1, AirShrinks DEF WInv
<1>9. CASE reestablishment
  BY <1>9, ReestablishmentStep
<1>10. CASE UNCHANGED vars
  <2>1. UNCHANGED tx_vars /\ UNCHANGED rx_vars /\ air' \subseteq air
    BY <1>10 DEF vars
  <2> QED BY <2>1, <1>1, AirShrinks, RecvUnchanged DEF WInv
<1> QED BY <1>2, <1>3, <1>4, <1>5, <1>6, <1>7, <1>8, <1>9, <1>10 DEF Next, recv_pdu
-----------------------------------------------------------------------------
(* Where the bytes of an SDU are, from its submission to its delivery.     *)

\* Every step keeps track of the bytes.
LEMMA NextTrack == Least /\ TrackInv /\ [Next]_vars => TrackInv'
<1> SUFFICES ASSUME Least
             PROVE  TrackInv /\ [Next]_vars => TrackInv'
  OBVIOUS
<1>MaxFacts.
    ASSUME NEW S \in SUBSET Nat, S # {}, NEW b \in Nat, \A x \in S : x <= b
    PROVE  Max(S) \in S /\ \A x \in S : x <= Max(S)
  <2> USE <1>MaxFacts
  <2> DEFINE T == {b - x : x \in S}
  <2>1. T \in SUBSET Nat /\ T # {}
    <3>1. \A x \in S : x \in Nat /\ b - x \in Nat
      BY SMT
    <3>2. PICK x : x \in S
      OBVIOUS
    <3>3. b - x \in T
      BY <3>2
    <3> QED BY <3>1, <3>3
  <2>2. Min(T) \in T /\ \A j \in T : Min(T) <= j
    BY <2>1, MinFacts
  <2>3. PICK x \in S : Min(T) = b - x
    BY <2>2
  <2>4. \A y \in S : x >= y
    <3> SUFFICES ASSUME NEW y \in S PROVE x >= y
      OBVIOUS
    <3>1. b - y \in T
      OBVIOUS
    <3>2. b - x <= b - y
      BY <3>1, <2>2, <2>3
    <3> QED BY <3>2, SMT
  <2> QED BY <2>4 DEF Max
\* An SDU that is full is put together from its own bytes, all of them.
<1>ReassembledFacts.
    ASSUME NEW h \in Int, NEW list, ListOK(list, h - window_size, h + window_size),
           NEW n \in Int, h - window_size <= n, n < h + window_size,
           sdu_full(list, n % SnModulus), NEW id, NEW s \in Nat, OneSdu(list, n, id, s)
    PROVE  Reassembled(list, n % SnModulus) = [ids |-> {id}, size |-> s]
  <2>0. /\ \A a, b \in Nat : a + b \in Nat /\ (b >= 1 => a + b >= 1)
        /\ \A l \in Nat : (\A k \in 1 .. l : k \in Nat) /\ (\A k \in 0 .. l - 1 : k \in Nat)
        /\ \A a, b \in Nat : \A k \in Int : a <= k /\ k <= b => a <= b
        /\ \A a, b \in Nat : a < b => ~(b <= a)
    BY SMTT(30)
  <2> USE <1>ReassembledFacts
  <2> DEFINE v == n % SnModulus
             segs == Segments(list, v)
             End(k) == list[k].so + list[k].size
             From(b) == LET k == Min({i \in segs : End(i) > b})
                        IN IF list[k].so <= b THEN list[k].id ELSE 0
  <2>1. segs = {k \in 1 .. Len(list) : list[k].n = n}
    BY SegmentsOf, SMT
  <2>2. PICK z \in 1 .. Len(list) :
          /\ list[z].n = n /\ list[z].last
          /\ \A j \in 1 .. Len(list) :
               list[j].n = n /\ j <= z => list[j].so <= Reach(list, j)
    <3>1. FullShape(list, n)
      BY FullFacts
    <3> QED BY <3>1 DEF FullShape
  <2>3. /\ Len(list) \in Nat
        /\ \A k \in 1 .. Len(list) : list[k].so \in Nat /\ list[k].size \in Nat
    BY ListTypes DEF ListOK
  <2>4. \A k \in segs : /\ k \in 1 .. Len(list) /\ list[k].n = n
                        /\ End(k) \in Nat /\ End(k) <= s /\ list[k].id = id
                        /\ list[k].so \in Nat /\ k \in Nat
    BY <2>0, <2>1, <2>3 DEF OneSdu
  <2>5. z \in segs /\ End(z) = s /\ s >= 1
    <3>1. z \in segs /\ End(z) = s /\ list[z].size >= 1
      BY <2>1, <2>2 DEF OneSdu
    <3> QED BY <3>1, <2>0, <2>1, <2>3
  <2>6. Max({End(k) : k \in segs}) = s
    <3> DEFINE S == {End(k) : k \in segs}
    <3>1. S \in SUBSET Nat /\ s \in S /\ \A x \in S : x <= s
      <4> HIDE DEF segs, End
      <4> QED BY <2>4, <2>5
    <3> HIDE DEF S
    <3>2. Max(S) \in S /\ \A x \in S : x <= Max(S)
      BY <3>1, <1>MaxFacts
    <3>3. Max(S) \in Nat /\ Max(S) <= s /\ s <= Max(S)
      BY <3>1, <3>2
    <3>4. Max(S) = s
      BY <3>3, SMT
    <3> QED BY <3>4 DEF S
  <2>7. ASSUME NEW b \in 0 .. s - 1 PROVE From(b) = id
    <3> DEFINE T == {i \in segs : End(i) > b}
               k == Min(T)
    <3>1. T \in SUBSET Nat /\ z \in T
      <4>1. s > b
        BY SMT
      <4> HIDE DEF End, segs
      <4> QED BY <4>1, <2>4, <2>5
    <3>2. k \in T /\ \A j \in T : k <= j
      <4> HIDE DEF T
      <4> QED BY <3>1, MinFacts
    <3>3. k \in segs /\ k <= z /\ k \in 1 .. Len(list) /\ list[k].n = n /\ z \in Nat
      <4> HIDE DEF k, segs, End
      <4> QED BY <3>1, <3>2, <2>4
    <3>4. list[k].so <= Reach(list, k)
      <4> HIDE DEF k
      <4> QED BY <3>3, <2>2
    <3>5. list[k].sn = v
      BY <3>3 DEF Segments
    <3>6. Reach(list, k) <= b /\ Reach(list, k) \in Nat
      <4> DEFINE B == {End(j) : j \in {i \in segs : i < k}}
      <4>1. Reach(list, k) = Max({0} \cup B)
        BY <3>5 DEF Reach
      <4>2. \A x \in B : x \in Nat /\ x <= b
        <5> SUFFICES ASSUME NEW j \in segs, j < k PROVE End(j) \in Nat /\ End(j) <= b
          OBVIOUS
        <5>1. j \in Nat /\ k \in Nat /\ End(j) \in Nat
          <6> HIDE DEF segs, End, k
          <6> QED BY <3>3, <2>4
        <5>2. j \notin T
          <6> HIDE DEF T, k
          <6> QED BY <3>2, <5>1, <2>0
        <5>3. ~(End(j) > b)
          BY <5>2
        <5> HIDE DEF End
        <5> QED BY <5>1, <5>3, SMT
      <4> HIDE DEF B
      <4>3. /\ {0} \cup B \in SUBSET Nat /\ {0} \cup B # {} /\ b \in Nat
            /\ \A x \in {0} \cup B : x <= b
        BY <4>2, SMT
      <4>4. Max({0} \cup B) \in {0} \cup B
        BY <4>3, <1>MaxFacts
      <4> QED BY <4>1, <4>3, <4>4
    <3>7. Reach(list, k) \in Int /\ list[k].so \in Nat
      <4>1. list[k].so \in Nat
        <5> HIDE DEF k, segs
        <5> QED BY <3>3, <2>3
      <4> QED BY <4>1, <3>6, SMT
    <3>8. list[k].so <= b /\ list[k].id = id
      <4>1. list[k].id = id
        <5> HIDE DEF k, segs, End
        <5> QED BY <3>3, <2>4
      <4> QED BY <4>1, <3>4, <3>6, <3>7, <2>0
    <3> QED BY <3>8
  <2>8. {From(b) : b \in 0 .. s - 1} = {id}
    <3>1. 0 \in 0 .. s - 1
      BY <2>5, SMT
    <3> HIDE DEF From
    <3> QED BY <3>1, <2>7
  <2>9. Reassembled(list, v) = [ids |-> {From(b) : b \in 0 .. Max({End(k) : k \in segs}) - 1},
                                size |-> Max({End(k) : k \in segs})]
    BY DEF Reassembled
  <2> HIDE DEF From, segs, End
  <2> QED BY <2>6, <2>8, <2>9
<1>TagTypes.
    ASSUME WInv, NEW id, NEW n, Tagged(id, n)
    PROVE  id \in Nat /\ n \in Nat
  <2> USE <1>TagTypes
  <2>1. CASE \E p \in air : ~Whole(p) /\ p.id = id /\ p.n = n
    BY <2>1 DEF WInv, SendInv, AirOK, PduOK
  <2>2. CASE \E k \in 1 .. Len(rx_list) : rx_list[k].id = id /\ rx_list[k].n = n
    <3>1. rx_list \in Seq(Entry)
      BY RecvFacts DEF WInv, ListOK
    <3> QED BY <2>2, <3>1, ListTypes
  <2> QED BY <2>1, <2>2 DEF Tagged
\* Bytes under way or in the list belong to an SDU with a count, or travel whole.
<1>HeldKnown.
    ASSUME NEW id, NEW so, NEW size, NEW last, Held(id, so, size, last)
    PROVE  WholeInAir(id) \/ \E n : Tagged(id, n)
  <2> USE <1>HeldKnown
  <2>1. ASSUME NEW p \in air, p.id = id PROVE WholeInAir(id) \/ \E n : Tagged(id, n)
    BY <2>1 DEF WholeInAir, Tagged
  <2>2. ASSUME NEW k \in 1 .. Len(rx_list), rx_list[k].id = id PROVE \E n : Tagged(id, n)
    BY <2>2 DEF Tagged
  <2> QED BY <2>1, <2>2 DEF Held
\* Nothing of an SDU behind the head of tx_list has been sent.
<1>HeldSent.
    ASSUME TrackInv, tx_list # <<>>,
           NEW id, NEW so, NEW size, NEW last, Held(id, so, size, last)
    PROVE  id <= tx_list[1].id
  <2> USE <1>HeldSent
  <2>1. 1 \in 1 .. Len(tx_list) /\ tx_list[1].id \in Nat /\ SendInv
    BY HeadFacts DEF TrackInv, WInv
  <2>2. BytesOK(id, so, size, last, tx_list, submitted)
    BY DEF TrackInv, BytesHeld
  <2>3. id \in Nat
    BY <2>2, <2>1, SMT DEF BytesOK, SendInv
  <2>4. Past(tx_list, id) \/ id = tx_list[1].id
    BY <1>HeldKnown DEF TrackInv, WholesOnce, TagsPlaced, Placed
  <2>5. ASSUME Past(tx_list, id) PROVE id < tx_list[1].id
    BY <2>5, <2>1 DEF Past
  <2> QED BY <2>1, <2>3, <2>4, <2>5, SMT
\* A step of the receiver that delivers nothing.
<1>QuietStep.
    ASSUME TrackInv, WInv', UNCHANGED tx_vars, delivered' = delivered,
           air' \subseteq air, NextCount <= NextCount',
           \A id, n : Tagged(id, n)' => Tagged(id, n),
           \A id, so, size, last : Held(id, so, size, last)' => Held(id, so, size, last),
           \A m \in Nat : m >= NextCount' /\ Deliv(rx_list, m) => Deliv(rx_list, m)'
    PROVE  TrackInv'
  <2> USE <1>QuietStep
  <2>1. /\ tx_list' = tx_list /\ tx_next' = tx_next /\ submitted' = submitted
        /\ withdrawn' = withdrawn
    BY DEF tx_vars
  <2>2. NextCount \in Int /\ NextCount' \in Int
    <3>1. high' \in Int /\ rx_next_reassembly' \in SN
      BY SMT DEF WInv, RecvInv, RecvOK
    <3>2. CountOf(high', rx_next_reassembly') \in Int
      BY <3>1, CountOfFacts, Widths, SMT
    <3>3. NextCount' \in Int
      BY <3>2 DEF NextCount
    <3> QED BY <3>3, RecvFacts DEF WInv, TrackInv
  <2>3. \A id : (Live(id)' <=> Live(id)) /\ (HandedUp(id)' <=> HandedUp(id))
    BY <2>1 DEF Live, HandedUp
  <2>4. \A id : WholeInAir(id)' => WholeInAir(id)
    BY DEF WholeInAir
  <2>5. WaitingLive' /\ DeliveredOnceWhole'
    BY <2>1 DEF TrackInv, WaitingLive, DeliveredOnceWhole, DeliveredWhole, DeliveredOnce
  <2>6. TagsPlaced'
    BY <2>1, <2>3 DEF TrackInv, TagsPlaced
  <2>7. TagsAgree'
    BY SMT DEF TrackInv, TagsAgree
  <2>8. BytesHeld'
    BY <2>1 DEF TrackInv, BytesHeld
  <2>9. WholesOnce'
    BY <2>1, <2>3, <2>4 DEF TrackInv, WholesOnce
  <2>10. HandedUpMarked'
    <3>1. ASSUME NEW id, NEW n, Tagged(id, n)', HandedUp(id)'
          PROVE  n < NextCount' \/ Deliv(rx_list, n)'
      <4>1. Tagged(id, n) /\ HandedUp(id)
        BY <3>1, <2>3
      <4>2. n \in Nat
        BY <4>1, <1>TagTypes DEF TrackInv
      <4>3. n < NextCount \/ Deliv(rx_list, n)
        BY <4>1 DEF TrackInv, HandedUpMarked
      <4>4. CASE n < NextCount
        BY <4>2, <4>4, <2>2, SMT
      <4>5. CASE Deliv(rx_list, n) /\ ~(n < NextCount')
        <5>1. n >= NextCount'
          BY <4>2, <4>5, <2>2, SMT
        <5> QED BY <5>1, <4>2, <4>5
      <4> QED BY <4>3, <4>4, <4>5
    <3>2. /\ delivered' \in Seq([ids : SUBSET Nat, size : Nat])
          /\ \A id : HandedUp(id)' => Past(tx_list, id)'
      BY <2>1, <2>3 DEF TrackInv, HandedUpMarked
    <3> QED BY <3>1, <3>2 DEF HandedUpMarked
  <2> QED BY <2>5, <2>6, <2>7, <2>8, <2>9, <2>10 DEF TrackInv
<1>KnownFacts.
    ASSUME NEW list, Known(list), NEW k \in 1 .. Len(list)
    PROVE  /\ Tagged(list[k].id, list[k].n)
           /\ list[k].data
              => Held(list[k].id, list[k].so, list[k].size, list[k].last)
  <2> USE <1>KnownFacts
  <2>1. CASE \E j \in 1 .. Len(rx_list) : list[k] = rx_list[j]
    BY <2>1 DEF Tagged, Held
  <2>2. CASE \E p \in air : PduOK(p) /\ ~Whole(p) /\ list[k] = Received(p)
    <3>1. PICK p \in air : PduOK(p) /\ ~Whole(p) /\ list[k] = Received(p)
      BY <2>2
    <3>2. /\ p.id = list[k].id /\ p.n = list[k].n /\ p.so = list[k].so
          /\ p.size = list[k].size /\ p.last = list[k].last
      BY <3>1, ReceivedFacts, SMT
    <3> QED BY <3>1, <3>2 DEF Tagged, Held
  <2> QED BY <2>1, <2>2 DEF Known
\* If rx_list only gets known entries, nothing new is tagged or held.
<1>KnownStep.
    ASSUME air' \subseteq air, Known(rx_list')
    PROVE  /\ \A id, n : Tagged(id, n)' => Tagged(id, n)
           /\ \A id, so, size, last : Held(id, so, size, last)' => Held(id, so, size, last)
  <2> USE <1>KnownStep
  <2>1. ASSUME NEW k \in 1 .. Len(rx_list')
        PROVE  /\ Tagged(rx_list'[k].id, rx_list'[k].n)
               /\ rx_list'[k].data
                  => Held(rx_list'[k].id, rx_list'[k].so, rx_list'[k].size, rx_list'[k].last)
    BY <1>KnownFacts
  <2>2. ASSUME NEW id, NEW n, Tagged(id, n)' PROVE Tagged(id, n)
    <3>1. CASE \E p \in air' : ~Whole(p) /\ p.id = id /\ p.n = n
      BY <3>1 DEF Tagged
    <3>2. CASE \E k \in 1 .. Len(rx_list') : rx_list'[k].id = id /\ rx_list'[k].n = n
      BY <3>2, <2>1
    <3> QED BY <2>2, <3>1, <3>2 DEF Tagged
  <2>3. ASSUME NEW id, NEW so, NEW size, NEW last, Held(id, so, size, last)'
        PROVE  Held(id, so, size, last)
    <3>1. CASE \E p \in air' : p.id = id /\ p.so = so /\ p.size = size /\ p.last = last
      BY <3>1 DEF Held
    <3>2. CASE \E k \in 1 .. Len(rx_list') :
                 /\ rx_list'[k].data /\ rx_list'[k].id = id /\ rx_list'[k].so = so
                 /\ rx_list'[k].size = size /\ rx_list'[k].last = last
      BY <3>2, <2>1
    <3> QED BY <2>3, <3>1, <3>2 DEF Held
  <2> QED BY <2>2, <2>3
<1>AddsKnown.
    ASSUME NEW list, NEW p \in air, PduOK(p), ~Whole(p),
           list = rx_list \/ Adds(rx_list, Received(p), list)
    PROVE  Known(list)
  BY <1>AddsKnown DEF Known, Adds
<1>DropsKnown.
    ASSUME NEW list, Known(list), NEW c, NEW kept, Drops(list, c, kept)
    PROVE  Known(kept)
  <2> USE <1>DropsKnown
  <2> SUFFICES ASSUME NEW k \in 1 .. Len(kept)
               PROVE  \/ \E j \in 1 .. Len(rx_list) : kept[k] = rx_list[j]
                      \/ \E p \in air : PduOK(p) /\ ~Whole(p) /\ kept[k] = Received(p)
    BY DEF Known
  <2>1. PICK j \in 1 .. Len(list) : kept[k] = list[j]
    BY DEF Drops
  <2> QED BY <2>1 DEF Known
<1>TrackSegment.
    ASSUME TrackInv, NEW p \in air,
           \/ recv_pdu_discard(p) \/ recv_pdu_inside(p) \/ recv_pdu_moves_window(p)
    PROVE  TrackInv'
  <2> USE <1>TrackSegment
  <2>1. /\ WInv' /\ Receives(p) /\ air' \subseteq air /\ ~Whole(p)
    BY SegmentStep DEF TrackInv, Whole
  <2>2. /\ NextCount <= NextCount' /\ UNCHANGED tx_vars /\ delivered' = delivered
    BY <2>1 DEF Receives
  <2>3. PICK list : /\ list = rx_list \/ Adds(rx_list, Received(p), list)
                    /\ \A m : Deliv(list, m) <=> Deliv(rx_list, m)
                    /\ \/ rx_list' = list
                       \/ \E c \in Int : Drops(list, c, rx_list') /\ c <= NextCount'
    BY <2>1 DEF Receives
  <2>4. PduOK(p)
    BY DEF TrackInv, WInv, SendInv, AirOK
  <2>5. Known(list)
    BY <2>1, <2>3, <2>4, <1>AddsKnown
  <2>6. Known(rx_list')
    BY <2>3, <2>5, <1>DropsKnown
  <2>7. NextCount' \in Int
    <3>1. high' \in Int /\ rx_next_reassembly' \in SN
      BY <2>1, SMT DEF WInv, RecvInv, RecvOK
    <3> QED BY <3>1, CountOfFacts, Widths, SMTT(30) DEF NextCount
  <2>8. ASSUME NEW m \in Nat, m >= NextCount', Deliv(rx_list, m) PROVE Deliv(rx_list, m)'
    <3>1. Deliv(list, m)
      BY <2>3, <2>8
    <3>2. CASE rx_list' = list
      BY <3>1, <3>2 DEF Deliv
    <3>3. CASE \E c \in Int : Drops(list, c, rx_list') /\ c <= NextCount'
      <4>1. PICK c \in Int : Drops(list, c, rx_list') /\ c <= NextCount'
        BY <3>3
      <4>2. m >= c /\ m \in Int
        BY <4>1, <2>7, <2>8, SMT
      <4>3. Deliv(rx_list', m)
        BY <4>1, <4>2, <3>1 DEF Drops
      <4> QED BY <4>3 DEF Deliv
    <3> QED BY <3>2, <3>3, <2>3
  <2>9. /\ \A id, n : Tagged(id, n)' => Tagged(id, n)
        /\ \A id, so, size, last : Held(id, so, size, last)' => Held(id, so, size, last)
    BY <2>1, <2>6, <1>KnownStep
  <2> QED BY <2>1, <2>2, <2>8, <2>9, <1>QuietStep
<1>TrackCheck.
    ASSUME TrackInv, check_t_reassembly
    PROVE  TrackInv'
  <2> USE <1>TrackCheck
  <2>1. /\ UNCHANGED tx_vars /\ air' = air /\ delivered' = delivered
    BY DEF check_t_reassembly
  <2>2. /\ RecvInv' /\ NextCount <= NextCount'
        /\ \E c \in Int : Drops(rx_list, c, rx_list') /\ c <= NextCount'
    BY ReceiverSteps DEF TrackInv, WInv, ReceiverEffects, WindowChecked
  <2>3. PICK c \in Int : Drops(rx_list, c, rx_list') /\ c <= NextCount'
    BY <2>2
  <2>4. WInv'
    BY <2>1, <2>2, AirShrinks DEF TrackInv, WInv
  <2>5. Known(rx_list')
    <3>1. Known(rx_list)
      BY DEF Known
    <3> QED BY <3>1, <2>3, <1>DropsKnown
  <2>6. NextCount' \in Int
    <3>1. high' \in Int /\ rx_next_reassembly' \in SN
      BY <2>2, SMT DEF RecvInv, RecvOK
    <3> QED BY <3>1, CountOfFacts, Widths, SMTT(30) DEF NextCount
  <2>7. ASSUME NEW m \in Nat, m >= NextCount', Deliv(rx_list, m) PROVE Deliv(rx_list, m)'
    <3>1. m >= c /\ m \in Int
      BY <2>3, <2>6, <2>7, SMT
    <3>2. Deliv(rx_list', m)
      BY <2>3, <2>7, <3>1 DEF Drops
    <3> QED BY <3>2 DEF Deliv
  <2>8. air' \subseteq air
    BY <2>1
  <2>9. /\ \A id, n : Tagged(id, n)' => Tagged(id, n)
        /\ \A id, so, size, last : Held(id, so, size, last)' => Held(id, so, size, last)
    BY <2>5, <2>8, <1>KnownStep
  <2> QED BY <2>1, <2>2, <2>4, <2>7, <2>8, <2>9, <1>QuietStep
\* A PDU is lost, or nothing happens.
<1>TrackLose.
    ASSUME TrackInv, air' \subseteq air, UNCHANGED tx_vars, UNCHANGED rx_vars
    PROVE  TrackInv'
  <2> USE <1>TrackLose
  <2>1. /\ RecvInv' /\ NextCount' = NextCount /\ rx_list' = rx_list /\ delivered' = delivered
    BY RecvUnchanged DEF TrackInv, WInv
  <2>2. WInv'
    BY <2>1, AirShrinks DEF TrackInv, WInv
  <2>3. Known(rx_list')
    BY <2>1 DEF Known
  <2>4. NextCount <= NextCount'
    BY <2>1, RecvFacts, SMT DEF TrackInv, WInv
  <2>5. \A m \in Nat : m >= NextCount' /\ Deliv(rx_list, m) => Deliv(rx_list, m)'
    BY <2>1 DEF Deliv
  <2>6. /\ \A id, n : Tagged(id, n)' => Tagged(id, n)
        /\ \A id, so, size, last : Held(id, so, size, last)' => Held(id, so, size, last)
    BY <2>3, <1>KnownStep
  <2> QED BY <2>1, <2>2, <2>4, <2>5, <2>6, <1>QuietStep
\* An SDU that was not handed up before is, as it was submitted.
<1>HandUp.
    ASSUME TrackInv, UNCHANGED tx_vars, NEW id, Live(id), ~HandedUp(id),
           delivered' = Append(delivered, [ids |-> {id}, size |-> submitted[id]])
    PROVE  /\ DeliveredOnceWhole'
           /\ delivered' \in Seq([ids : SUBSET Nat, size : Nat])
           /\ \A i : HandedUp(i)' <=> HandedUp(i) \/ i = id
  <2> USE <1>HandUp
  <2> DEFINE e == [ids |-> {id}, size |-> submitted[id]]
             R == [ids : SUBSET Nat, size : Nat]
  <2>1. submitted' = submitted /\ withdrawn' = withdrawn
    BY DEF tx_vars
  <2>2. id \in 1 .. Len(submitted) /\ id \notin withdrawn
    BY DEF Live
  <2>3. submitted \in Seq(Nat) /\ delivered \in Seq(R)
    BY DEF TrackInv, WInv, SendInv, HandedUpMarked
  <2>4. e \in R
    BY <2>2, <2>3, SMT
  <2>5. e.ids = {id} /\ e = [ids |-> {id}, size |-> submitted[id]]
    OBVIOUS
  <2>6. /\ delivered' \in Seq(R) /\ Len(delivered) \in Nat
        /\ Len(delivered') = Len(delivered) + 1
        /\ \A k \in 1 .. Len(delivered) : delivered'[k] = delivered[k]
        /\ delivered'[Len(delivered) + 1] = e
    <3> HIDE DEF e, R
    <3>1. delivered' = Append(delivered, e)
      BY DEF e
    <3> QED BY <3>1, <2>3, <2>4, SMT
  <2> HIDE DEF e
  <2>7. \A k \in 1 .. Len(delivered') :
          \/ k \in 1 .. Len(delivered) /\ delivered'[k] = delivered[k]
          \/ k = Len(delivered) + 1 /\ delivered'[k] = e
    BY <2>6, SMT
  <2>8. \A k \in 1 .. Len(delivered) : delivered[k].ids # {id}
    BY DEF HandedUp
  <2>9. DeliveredWhole'
    <3> SUFFICES ASSUME NEW k \in 1 .. Len(delivered')
                 PROVE  \E i \in 1 .. Len(submitted) \ withdrawn :
                          delivered'[k] = [ids |-> {i}, size |-> submitted[i]]
      BY <2>1 DEF DeliveredWhole
    <3>1. CASE k \in 1 .. Len(delivered) /\ delivered'[k] = delivered[k]
      BY <3>1 DEF TrackInv, DeliveredOnceWhole, DeliveredWhole
    <3>2. CASE k = Len(delivered) + 1 /\ delivered'[k] = e
      BY <3>2, <2>2, <2>5
    <3> QED BY <2>7, <3>1, <3>2
  <2>10. DeliveredOnce'
    <3> SUFFICES ASSUME NEW j \in 1 .. Len(delivered'), NEW k \in 1 .. Len(delivered'),
                        delivered'[j].ids = delivered'[k].ids
                 PROVE  j = k
      BY DEF DeliveredOnce
    <3>1. CASE j \in 1 .. Len(delivered) /\ k \in 1 .. Len(delivered)
      BY <3>1, <2>6 DEF TrackInv, DeliveredOnceWhole, DeliveredOnce
    <3>2. CASE j \in 1 .. Len(delivered) /\ delivered'[k] = e
      BY <3>2, <2>5, <2>6, <2>8
    <3>3. CASE delivered'[j] = e /\ k \in 1 .. Len(delivered)
      BY <3>3, <2>5, <2>6, <2>8
    <3> QED BY <2>7, <3>1, <3>2, <3>3
  <2>11. ASSUME NEW i PROVE HandedUp(i)' <=> HandedUp(i) \/ i = id
    <3>1. ASSUME HandedUp(i)' PROVE HandedUp(i) \/ i = id
      <4>1. PICK k \in 1 .. Len(delivered') : delivered'[k].ids = {i}
        BY <3>1 DEF HandedUp
      <4>2. CASE k \in 1 .. Len(delivered) /\ delivered'[k] = delivered[k]
        BY <4>1, <4>2 DEF HandedUp
      <4>3. CASE delivered'[k] = e
        BY <4>1, <4>3, <2>5
      <4> QED BY <2>7, <4>2, <4>3
    <3>2. ASSUME HandedUp(i) PROVE HandedUp(i)'
      <4>1. PICK k \in 1 .. Len(delivered) : delivered[k].ids = {i}
        BY <3>2 DEF HandedUp
      <4>2. k \in 1 .. Len(delivered') /\ delivered'[k] = delivered[k]
        BY <2>6, SMT
      <4> QED BY <4>1, <4>2 DEF HandedUp
    <3>3. HandedUp(id)'
      <4>1. Len(delivered) + 1 \in 1 .. Len(delivered')
        BY <2>6, SMT
      <4> QED BY <4>1, <2>5, <2>6 DEF HandedUp
    <3> QED BY <3>1, <3>2, <3>3
  <2> QED BY <2>6, <2>9, <2>10, <2>11 DEF DeliveredOnceWhole
\* A step of the receiver that delivers the SDU id.
<1>DeliverStep.
    ASSUME TrackInv, WInv', UNCHANGED tx_vars, air' \subseteq air,
           NextCount \in Int, NextCount' \in Int, NextCount <= NextCount',
           \A i, n : Tagged(i, n)' => Tagged(i, n),
           \A i, so, size, last : Held(i, so, size, last)' => Held(i, so, size, last),
           \A m : Deliv(rx_list, m) => Deliv(rx_list, m)',
           NEW id, Live(id), Past(tx_list, id), ~HandedUp(id), ~WholeInAir(id)',
           delivered' = Append(delivered, [ids |-> {id}, size |-> submitted[id]]),
           \A n : Tagged(id, n)' => Deliv(rx_list, n)'
    PROVE  TrackInv'
  <2> USE <1>DeliverStep
  <2>1. /\ tx_list' = tx_list /\ tx_next' = tx_next /\ submitted' = submitted
        /\ withdrawn' = withdrawn
    BY DEF tx_vars
  <2>2. /\ DeliveredOnceWhole' /\ delivered' \in Seq([ids : SUBSET Nat, size : Nat])
        /\ \A i : HandedUp(i)' <=> HandedUp(i) \/ i = id
    BY <1>HandUp
  <2>3. \A i : Live(i)' <=> Live(i)
    BY <2>1 DEF Live
  <2>4. \A i : WholeInAir(i)' => WholeInAir(i)
    BY DEF WholeInAir
  <2>5. WaitingLive'
    BY <2>1 DEF TrackInv, WaitingLive
  <2>6. TagsPlaced'
    BY <2>1, <2>3 DEF TrackInv, TagsPlaced
  <2>7. TagsAgree'
    BY DEF TrackInv, TagsAgree
  <2>8. BytesHeld'
    BY <2>1 DEF TrackInv, BytesHeld
  <2>9. WholesOnce'
    BY <2>1, <2>2, <2>3, <2>4 DEF TrackInv, WholesOnce
  <2>10. HandedUpMarked'
    <3>1. ASSUME NEW i, NEW n, Tagged(i, n)', HandedUp(i)'
          PROVE  n < NextCount' \/ Deliv(rx_list, n)'
      <4>1. Tagged(i, n) /\ (HandedUp(i) \/ i = id)
        BY <3>1, <2>2
      <4>2. n \in Nat
        BY <4>1, <1>TagTypes DEF TrackInv
      <4>3. CASE HandedUp(i)
        <5>1. n < NextCount \/ Deliv(rx_list, n)
          BY <4>1, <4>3 DEF TrackInv, HandedUpMarked
        <5>2. CASE n < NextCount
          BY <5>2, <4>2, SMT
        <5> QED BY <5>1, <5>2
      <4>4. CASE i = id
        BY <3>1, <4>4
      <4> QED BY <4>1, <4>3, <4>4
    <3>2. \A i : HandedUp(i)' => Past(tx_list, i)'
      BY <2>1, <2>2 DEF TrackInv, HandedUpMarked
    <3> QED BY <2>2, <3>1, <3>2 DEF HandedUpMarked
  <2> QED BY <2>2, <2>5, <2>6, <2>7, <2>8, <2>9, <2>10 DEF TrackInv
\* recv_pdu of a whole SDU.
<1>TrackFull.
    ASSUME TrackInv, NEW p \in air, recv_pdu_full(p)
    PROVE  TrackInv'
  <2> USE <1>TrackFull
  <2>1. /\ Whole(p) /\ air' = air \ {p} /\ UNCHANGED tx_vars
        /\ delivered' = Append(delivered, [ids |-> {p.id}, size |-> p.size])
        /\ high' = high /\ rx_next_highest' = rx_next_highest
        /\ rx_next_reassembly' = rx_next_reassembly
        /\ rx_timer_trigger' = rx_timer_trigger
        /\ t_reassembly_start' = t_reassembly_start /\ rx_list' = rx_list
    BY TakenShrinks DEF recv_pdu_full, Whole
  <2>2. PduOK(p) /\ WInv
    BY DEF TrackInv, WInv, SendInv, AirOK
  <2>3. RecvInv' /\ NextCount' = NextCount
    BY <2>1, <2>2 DEF WInv, RecvInv, NextCount
  <2>4. air' \subseteq air
    BY <2>1
  <2>5. WInv'
    BY <2>1, <2>2, <2>3, <2>4, AirShrinks DEF WInv
  <2>6. NextCount \in Int
    BY <2>2, RecvFacts DEF WInv
  <2>7. Known(rx_list')
    BY <2>1 DEF Known
  <2>8. /\ \A id, n : Tagged(id, n)' => Tagged(id, n)
        /\ \A id, so, size, last : Held(id, so, size, last)' => Held(id, so, size, last)
    BY <2>4, <2>7, <1>KnownStep
  <2>9. WholeInAir(p.id)
    BY <2>1 DEF WholeInAir
  <2>10. /\ Live(p.id) /\ Past(tx_list, p.id) /\ ~HandedUp(p.id) /\ \A n : ~Tagged(p.id, n)
    BY <2>9 DEF TrackInv, WholesOnce
  <2>11. ~WholeInAir(p.id)'
    BY <2>1 DEF TrackInv, WholesOnce, WholeInAir
  <2>12. p.size = submitted[p.id]
    <3>1. Held(p.id, p.so, p.size, p.last)
      BY DEF Held
    <3>2. p.so + p.size = submitted[p.id]
      <4>1. BytesOK(p.id, p.so, p.size, p.last, tx_list, submitted)
        BY <3>1 DEF TrackInv, BytesHeld
      <4> QED BY <4>1, <2>1 DEF BytesOK, Whole
    <3>3. p.so = 0 /\ p.size \in Nat
      BY <2>1, <2>2 DEF PduOK, Whole
    <3> QED BY <3>2, <3>3, SMT
  <2>13. \A m : Deliv(rx_list, m) => Deliv(rx_list, m)'
    BY <2>1 DEF Deliv
  <2>14. NextCount <= NextCount' /\ NextCount' \in Int
    BY <2>3, <2>6, SMT
  <2>15. \A n : Tagged(p.id, n)' => Deliv(rx_list, n)'
    BY <2>8, <2>10
  <2>16. delivered' = Append(delivered, [ids |-> {p.id}, size |-> submitted[p.id]])
    BY <2>1, <2>12
  <2> QED BY <2>1, <2>4, <2>5, <2>6, <2>8, <2>10, <2>11, <2>13, <2>14, <2>15, <2>16, <1>DeliverStep
\* The entries of a list that completes an SDU are segments of that SDU.
<1>OneSduOf.
    ASSUME TrackInv, NEW list, list \in Seq(Entry), Known(list),
           NEW id, NEW n, Tagged(id, n), ~Deliv(list, n)
    PROVE  OneSdu(list, n, id, submitted[id])
  <2> USE <1>OneSduOf
  <2> SUFFICES ASSUME NEW k \in 1 .. Len(list), list[k].n = n
               PROVE  /\ list[k].id = id /\ list[k].size >= 1
                      /\ list[k].so + list[k].size <= submitted[id]
                      /\ list[k].last <=> list[k].so + list[k].size = submitted[id]
    BY DEF OneSdu
  <2>1. Tagged(list[k].id, n)
    BY <1>KnownFacts
  <2>2. list[k].id = id
    BY <2>1, SMT DEF TrackInv, TagsAgree
  <2>3. list[k].data
    BY DEF Deliv
  <2>4. Held(id, list[k].so, list[k].size, list[k].last)
    BY <2>2, <2>3, <1>KnownFacts
  <2>5. BytesOK(id, list[k].so, list[k].size, list[k].last, tx_list, submitted)
    BY <2>4 DEF TrackInv, BytesHeld
  <2> QED BY <2>2, <2>5 DEF BytesOK
\* An SDU whose last segment has arrived has left the transmitter.
<1>LastPast.
    ASSUME TrackInv, NEW id, NEW n, Tagged(id, n), NEW so, NEW size, so \in Nat, size \in Nat,
           Held(id, so, size, TRUE)
    PROVE  Past(tx_list, id)
  <2> USE <1>LastPast
  <2>1. BytesOK(id, so, size, TRUE, tx_list, submitted)
    BY DEF TrackInv, BytesHeld
  <2>2. so + size = submitted[id] /\ (tx_list # <<>> /\ tx_list[1].id = id
                                       => so + size <= tx_list[1].so)
    BY <2>1 DEF BytesOK
  <2>3. ASSUME tx_list # <<>>, tx_list[1].id = id PROVE FALSE
    <3>1. /\ tx_list[1].size >= 1 /\ tx_list[1].so \in Nat /\ tx_list[1].size \in Nat
          /\ tx_list[1].so + tx_list[1].size = submitted[tx_list[1].id]
      BY <2>3, HeadFacts DEF TrackInv, WInv
    <3> QED BY <3>1, <2>2, <2>3, SMT
  <2>4. Placed(id, n, tx_list, tx_next)
    BY DEF TrackInv, TagsPlaced
  <2> QED BY <2>3, <2>4 DEF Placed
\* recv_pdu of the segment that completes its SDU.
<1>TrackCompletes.
    ASSUME TrackInv, NEW p \in air, recv_pdu_completes(p)
    PROVE  TrackInv'
  <2> USE <1>TrackCompletes
  <2>1. PduOK(p) /\ SendInv /\ RecvInv
    BY DEF TrackInv, WInv, SendInv, AirOK
  <2>2. /\ air' \subseteq air /\ UNCHANGED tx_vars /\ ~Whole(p)
    <3>1. Taken(p) /\ UNCHANGED tx_vars /\ ~Whole(p)
      BY DEF recv_pdu_completes, Accepted, Whole
    <3> QED BY <3>1, TakenShrinks
  <2>3. /\ RecvInv' /\ NextCount <= NextCount' /\ NextCount <= p.n
        /\ high - window_size <= p.n /\ p.n < high
        /\ \E list : Completed(p, list)
        /\ \A m : Deliv(rx_list', m) <=> (Deliv(rx_list, m) \/ m = p.n)
    BY <2>1, ReceiverSteps DEF ReceiverEffects, PduCompletes
  <2>4. WInv'
    BY <2>1, <2>2, <2>3, AirShrinks DEF WInv
  <2>5. PICK list : Completed(p, list)
    BY <2>3
  <2>6. /\ high \in Int /\ p.n \in Int /\ p.n \in Nat /\ p.sn = p.n % SnModulus
        /\ window_size \in Nat /\ NextCount \in Int
    BY <2>1, RecvFacts, SMT DEF PduOK
  <2>7. /\ ListOK(list, high - window_size, high) /\ list \in Seq(Entry)
        /\ Adds(rx_list, Received(p), list)
        /\ \A m : Deliv(list, m) <=> Deliv(rx_list, m)
        /\ sdu_full(list, p.n % SnModulus)
        /\ delivered' = Append(delivered, Reassembled(list, p.n % SnModulus))
        /\ MarksAll(list, p.n, rx_list')
    BY <2>5, <2>6 DEF Completed, ListOK
  <2>8. ListOK(list, high - window_size, high + window_size) /\ p.n < high + window_size
    BY <2>3, <2>6, <2>7, Widen, SMT
  <2>9. Known(list)
    BY <2>1, <2>2, <2>7, <1>AddsKnown
  <2>10. /\ ~Deliv(list, p.n)
         /\ \E k \in 1 .. Len(list) : list[k].n = p.n /\ list[k].last
    <3>1. FullShape(list, p.n)
      BY <2>3, <2>6, <2>7, <2>8, FullFacts
    <3> QED BY <3>1 DEF FullShape
  <2>11. Tagged(p.id, p.n)
    BY <2>2 DEF Tagged
  <2>12. OneSdu(list, p.n, p.id, submitted[p.id])
    BY <2>7, <2>9, <2>10, <2>11, <1>OneSduOf
  <2>13. Live(p.id) /\ submitted[p.id] \in Nat
    BY <2>1, <2>11, SMT DEF TrackInv, TagsPlaced, Live, SendInv
  <2>14. Reassembled(list, p.n % SnModulus) = [ids |-> {p.id}, size |-> submitted[p.id]]
    <3> DEFINE h == high
               n == p.n
               s == submitted[p.id]
    <3>1. /\ h \in Int /\ ListOK(list, h - window_size, h + window_size)
          /\ n \in Int /\ h - window_size <= n /\ n < h + window_size
          /\ sdu_full(list, n % SnModulus) /\ s \in Nat /\ OneSdu(list, n, p.id, s)
      BY <2>3, <2>6, <2>7, <2>8, <2>12, <2>13
    <3> HIDE DEF h, n, s
    <3>2. Reassembled(list, n % SnModulus) = [ids |-> {p.id}, size |-> s]
      BY <3>1, <1>ReassembledFacts
    <3> QED BY <3>2 DEF n, s
  <2>15. Past(tx_list, p.id)
    <3>1. PICK k \in 1 .. Len(list) : list[k].n = p.n /\ list[k].last
      BY <2>10
    <3>2. list[k].data /\ list[k].id = p.id
      BY <3>1, <2>10, <2>12 DEF Deliv, OneSdu
    <3>3. list[k].so \in Nat /\ list[k].size \in Nat /\ list[k].last = TRUE
      <4>1. list[k] \in Entry
        BY <2>7, ListTypes
      <4> QED BY <4>1, <3>1, EntryTypes
    <3>4. Held(p.id, list[k].so, list[k].size, TRUE)
      BY <2>9, <3>2, <3>3, <1>KnownFacts
    <3> QED BY <3>3, <3>4, <2>11, <1>LastPast
  <2>16. ~HandedUp(p.id)
    <3>1. ASSUME HandedUp(p.id) PROVE FALSE
      <4>1. p.n < NextCount \/ Deliv(rx_list, p.n)
        BY <3>1, <2>11 DEF TrackInv, HandedUpMarked
      <4>2. Deliv(rx_list, p.n)
        BY <4>1, <2>3, <2>6, SMT
      <4> QED BY <4>2, <2>7, <2>10
    <3> QED BY <3>1
  <2>17. ~WholeInAir(p.id)'
    <3>1. WholeInAir(p.id)' => WholeInAir(p.id)
      BY <2>2 DEF WholeInAir
    <3> QED BY <3>1, <2>11 DEF TrackInv, WholesOnce
  <2>18. /\ Len(rx_list') = Len(list)
         /\ \A k \in 1 .. Len(list) :
              /\ rx_list'[k].id = list[k].id /\ rx_list'[k].n = list[k].n
              /\ rx_list'[k].data => rx_list'[k] = list[k]
    BY <2>7 DEF MarksAll
  <2>19. \A id, n : Tagged(id, n)' => Tagged(id, n)
    <3> SUFFICES ASSUME NEW id, NEW n, Tagged(id, n)' PROVE Tagged(id, n)
      OBVIOUS
    <3>1. CASE \E q \in air' : ~Whole(q) /\ q.id = id /\ q.n = n
      BY <3>1, <2>2 DEF Tagged
    <3>2. CASE \E k \in 1 .. Len(rx_list') : rx_list'[k].id = id /\ rx_list'[k].n = n
      BY <3>2, <2>9, <2>18, <1>KnownFacts
    <3> QED BY <3>1, <3>2 DEF Tagged
  <2>20. \A id, so, size, last : Held(id, so, size, last)' => Held(id, so, size, last)
    <3> SUFFICES ASSUME NEW id, NEW so, NEW size, NEW last, Held(id, so, size, last)'
                 PROVE  Held(id, so, size, last)
      OBVIOUS
    <3>1. CASE \E q \in air' : q.id = id /\ q.so = so /\ q.size = size /\ q.last = last
      BY <3>1, <2>2 DEF Held
    <3>2. CASE \E k \in 1 .. Len(rx_list') :
                 /\ rx_list'[k].data /\ rx_list'[k].id = id /\ rx_list'[k].so = so
                 /\ rx_list'[k].size = size /\ rx_list'[k].last = last
      <4>1. PICK k \in 1 .. Len(list) :
              /\ list[k].data /\ list[k].id = id /\ list[k].so = so
              /\ list[k].size = size /\ list[k].last = last
        BY <3>2, <2>18
      <4>2. Held(list[k].id, list[k].so, list[k].size, list[k].last)
        BY <4>1, <2>9, <1>KnownFacts
      <4> QED BY <4>1, <4>2
    <3> QED BY <3>1, <3>2 DEF Held
  <2>21. \A m : Deliv(rx_list, m) => Deliv(rx_list, m)'
    BY <2>3 DEF Deliv
  <2>22. \A n : Tagged(p.id, n)' => Deliv(rx_list, n)'
    <3> SUFFICES ASSUME NEW n, Tagged(p.id, n)' PROVE Deliv(rx_list, n)'
      OBVIOUS
    <3>1. n = p.n
      BY <2>11, <2>19 DEF TrackInv, TagsAgree
    <3>2. Deliv(rx_list', n)
      BY <3>1, <2>3
    <3> QED BY <3>2 DEF Deliv
  <2>23. NextCount' \in Int
    <3>1. high' \in Int /\ rx_next_reassembly' \in SN
      BY <2>3, SMTT(30) DEF RecvInv, RecvOK
    <3> QED BY <3>1, CountOfFacts, Widths, SMTT(30) DEF NextCount
  <2>24. delivered' = Append(delivered, [ids |-> {p.id}, size |-> submitted[p.id]])
    BY <2>7, <2>14
  <2> QED BY <2>2, <2>3, <2>4, <2>6, <2>13, <2>15, <2>16, <2>17, <2>19, <2>20, <2>21,
             <2>22, <2>23, <2>24, <1>DeliverStep
<1>SendStep.
    ASSUME TrackInv, SendInv', UNCHANGED rx_vars, UNCHANGED <<submitted, withdrawn>>,
           NEW p, Sends(p, tx_next', tx_list')
    PROVE  TrackInv'
  <2> USE <1>SendStep
  <2>1. /\ RecvInv' /\ NextCount' = NextCount /\ rx_list' = rx_list /\ delivered' = delivered
    BY RecvUnchanged DEF TrackInv, WInv
  <2>2. /\ tx_list # <<>> /\ PduOK(p) /\ p.id = tx_list[1].id /\ p.n = tx_next
        /\ air' = air \cup {p}
    BY DEF Sends
  <2>3. /\ 1 \in 1 .. Len(tx_list) /\ p.id \in Nat /\ p.id \in 1 .. Len(submitted)
        /\ tx_next \in Nat
    BY <2>2, HeadFacts DEF TrackInv, WInv
  <2>4. ~Past(tx_list, p.id)
    BY <2>2, <2>3, SMT DEF Past
  <2>5. Live(p.id)
    BY <2>2, <2>3 DEF TrackInv, WaitingLive, Live
  <2>6. \A id : (Live(id)' <=> Live(id)) /\ (HandedUp(id)' <=> HandedUp(id))
    BY <2>1 DEF Live, HandedUp
  <2>7. \A id : Past(tx_list, id) => Past(tx_list', id)
    BY DEF Sends, Past
  <2>8. WaitingLive'
    BY DEF TrackInv, WaitingLive, Sends
  <2>9. \A id, n : Tagged(id, n)' <=> Tagged(id, n) \/ (~Whole(p) /\ id = p.id /\ n = tx_next)
    <3> SUFFICES ASSUME NEW id, NEW n
                 PROVE  Tagged(id, n)'
                        <=> Tagged(id, n) \/ (~Whole(p) /\ id = p.id /\ n = tx_next)
      OBVIOUS
    <3>1. (\E q \in air' : ~Whole(q) /\ q.id = id /\ q.n = n)
          <=> \/ \E q \in air : ~Whole(q) /\ q.id = id /\ q.n = n
              \/ ~Whole(p) /\ id = p.id /\ n = tx_next
      BY <2>2
    <3> QED BY <3>1, <2>1 DEF Tagged
  <2>10. \A id : WholeInAir(id)' <=> WholeInAir(id) \/ (Whole(p) /\ id = p.id)
    BY <2>2 DEF WholeInAir
  <2>11. TagsPlaced'
    <3> SUFFICES ASSUME NEW id, NEW n, Tagged(id, n)'
                 PROVE  Live(id) /\ Placed(id, n, tx_list', tx_next')
      BY <2>6 DEF TagsPlaced
    <3>1. CASE Tagged(id, n)
      BY <3>1 DEF TrackInv, TagsPlaced, Sends
    <3>2. CASE ~Whole(p) /\ id = p.id /\ n = tx_next
      BY <3>2, <2>5 DEF Sends
    <3> QED BY <2>9, <3>1, <3>2
  <2>12. ASSUME NEW id, NEW n, Tagged(id, n) PROVE id = p.id <=> n = tx_next
    <3>1. Placed(id, n, tx_list, tx_next) /\ n \in Nat
      BY <2>12, <1>TagTypes DEF TrackInv, TagsPlaced
    <3> QED BY <3>1, <2>2, <2>3, <2>4, SMT DEF Placed
  <2>13. TagsAgree'
    BY <2>9, <2>12, SMT DEF TrackInv, TagsAgree
  <2>14. BytesHeld'
    <3> SUFFICES ASSUME NEW id, NEW so, NEW size, NEW last, Held(id, so, size, last)'
                 PROVE  BytesOK(id, so, size, last, tx_list', submitted)
      BY DEF BytesHeld
    <3>1. \/ Held(id, so, size, last)
          \/ p.id = id /\ p.so = so /\ p.size = size /\ p.last = last
      BY <2>1, <2>2 DEF Held
    <3> QED BY <3>1 DEF Sends
  <2>15. WholesOnce'
    <3>1. ASSUME Whole(p)
          PROVE  ~HandedUp(p.id) /\ ~WholeInAir(p.id) /\ \A n : ~Tagged(p.id, n)
      <4>1. tx_list[1].first
        BY <3>1 DEF Sends
      <4> QED BY <4>1, <2>4 DEF TrackInv, WholesOnce, HandedUpMarked, TagsPlaced, Placed
    <3>2. ASSUME NEW id, WholeInAir(id)'
          PROVE  /\ Live(id) /\ Past(tx_list', id) /\ ~HandedUp(id)
                 /\ \A n : ~Tagged(id, n)'
      <4>1. CASE WholeInAir(id)
        <5>1. /\ Live(id) /\ Past(tx_list, id) /\ ~HandedUp(id) /\ \A n : ~Tagged(id, n)
          BY <4>1 DEF TrackInv, WholesOnce
        <5>2. id # p.id
          BY <5>1, <2>4
        <5> QED BY <5>1, <5>2, <2>7, <2>9
      <4>2. CASE Whole(p) /\ id = p.id
        BY <4>2, <3>1, <2>5, <2>9 DEF Sends
      <4> QED BY <3>2, <2>10, <4>1, <4>2
    <3>3. ASSUME NEW q \in air', NEW r \in air', Whole(q), Whole(r), q.id = r.id
          PROVE  q = r
      <4>1. CASE q \in air /\ r \in air
        BY <3>3, <4>1 DEF TrackInv, WholesOnce
      <4>2. CASE q = p /\ r \in air
        BY <3>1, <3>3, <4>2 DEF WholeInAir
      <4>3. CASE q \in air /\ r = p
        BY <3>1, <3>3, <4>3 DEF WholeInAir
      <4> QED BY <4>1, <4>2, <4>3, <2>2
    <3> QED BY <3>2, <3>3, <2>6 DEF WholesOnce
  <2>16. HandedUpMarked'
    <3>1. ASSUME NEW id, NEW n, Tagged(id, n)', HandedUp(id)
          PROVE  n < NextCount \/ Deliv(rx_list, n)
      <4>1. Past(tx_list, id)
        BY <3>1 DEF TrackInv, HandedUpMarked
      <4>2. Tagged(id, n)
        BY <4>1, <3>1, <2>4, <2>9
      <4> QED BY <4>2, <3>1 DEF TrackInv, HandedUpMarked
    <3>2. \A id : HandedUp(id) => Past(tx_list', id)
      BY <2>7 DEF TrackInv, HandedUpMarked
    <3>3. \A n : Deliv(rx_list, n)' <=> Deliv(rx_list, n)
      BY <2>1 DEF Deliv
    <3>4. delivered' \in Seq([ids : SUBSET Nat, size : Nat])
      BY <2>1 DEF TrackInv, HandedUpMarked
    <3> QED BY <3>1, <3>2, <3>3, <3>4, <2>1, <2>6 DEF HandedUpMarked
  <2>17. DeliveredOnceWhole'
    BY <2>1 DEF TrackInv, DeliveredOnceWhole, DeliveredWhole, DeliveredOnce
  <2> QED BY <2>1, <2>8, <2>11, <2>13, <2>14, <2>15, <2>16, <2>17 DEF TrackInv, WInv
\* What follows the head of tx_list was submitted after it.
<1>TailPast.
    ASSUME SendInv, tx_list # <<>>
    PROVE  /\ Past(Tail(tx_list), tx_list[1].id)
           /\ \A id : Past(tx_list, id) => Past(Tail(tx_list), id)
           /\ \A k \in 1 .. Len(Tail(tx_list)) :
                \E j \in 1 .. Len(tx_list) : Tail(tx_list)[k].id = tx_list[j].id
  <2> USE <1>TailPast
  <2>1. /\ \A i \in 1 .. Len(Tail(tx_list)) :
             i + 1 \in 1 .. Len(tx_list) /\ Tail(tx_list)[i] = tx_list[i + 1]
        /\ 1 \in 1 .. Len(tx_list)
    BY TailShape DEF SendInv
  <2>2. Past(Tail(tx_list), tx_list[1].id)
    <3> SUFFICES ASSUME NEW k \in 1 .. Len(Tail(tx_list))
                 PROVE  tx_list[1].id < Tail(tx_list)[k].id
      BY DEF Past
    <3>1. k + 1 \in 1 .. Len(tx_list) /\ Tail(tx_list)[k] = tx_list[k + 1] /\ 1 < k + 1
      BY <2>1, SMT
    <3> QED BY <3>1, <2>1 DEF SendInv, TxShape, Increasing
  <2> QED BY <2>1, <2>2 DEF Past
\* The bytes sent of an SDU that is no longer at the head.
<1>HeldTail.
    ASSUME TrackInv, tx_list # <<>>,
           NEW id, NEW so, NEW size, NEW last, Held(id, so, size, last)
    PROVE  BytesOK(id, so, size, last, Tail(tx_list), submitted)
  <2> USE <1>HeldTail
  <2> DEFINE list == Tail(tx_list)
  <2>1. BytesOK(id, so, size, last, tx_list, submitted) /\ id <= tx_list[1].id
    BY <1>HeldSent DEF TrackInv, BytesHeld
  <2>2. Past(list, tx_list[1].id) /\ tx_list[1].id \in Nat
    BY <1>TailPast, HeadFacts DEF TrackInv, WInv
  <2>3. list \in Seq(Waiting)
    BY TailShape DEF TrackInv, WInv, SendInv, TxShape
  <2>4. id \in Int
    BY <2>1, SMT DEF BytesOK
  <2> HIDE DEF list
  <2>5. ASSUME list # <<>> PROVE list[1].id # id
    <3>1. 1 \in 1 .. Len(list)
      BY <2>3, <2>5, SMT
    <3>2. list[1].id \in Nat
      BY <3>1, <2>3, WaitingTypes
    <3>3. tx_list[1].id < list[1].id
      BY <3>1, <2>2 DEF Past
    <3> QED BY <3>2, <3>3, <2>1, <2>2, <2>4, SMT
  <2>6. BytesOK(id, so, size, last, list, submitted)
    BY <2>1, <2>5 DEF BytesOK
  <2> QED BY <2>6 DEF list
<1>TrackWhole.
    ASSUME TrackInv, NEW size \in Grant, generate_tx_pdu_whole(size)
    PROVE  TrackInv'
  <2> USE <1>TrackWhole
  <2> DEFINE p == serialize_sdu(Head(tx_list))
             list == Tail(tx_list)
  <2>1. SendInv
    BY DEF TrackInv, WInv
  <2>2. /\ SendInv' /\ tx_list # <<>> /\ tx_list' = list /\ air' = air \cup {p}
        /\ tx_next' = IF Head(tx_list).first THEN tx_next ELSE tx_next + 1
        /\ PduOK(p)
    BY <2>1, SenderSteps DEF SenderEffects, WholeSent
  <2>3. UNCHANGED rx_vars /\ UNCHANGED <<submitted, withdrawn>>
    BY DEF generate_tx_pdu_whole, TxUnchanged
  <2>4. /\ Head(tx_list) = tx_list[1] /\ tx_list[1].first \in BOOLEAN
        /\ tx_list[1].last = TRUE /\ tx_list[1].id \in Nat /\ tx_list[1].so \in Nat
        /\ tx_list[1].size \in Nat /\ tx_list[1].size >= 1
        /\ tx_list[1].first <=> tx_list[1].so = 0
        /\ tx_list[1].id \in 1 .. Len(submitted) /\ tx_next \in Nat
        /\ tx_list[1].so + tx_list[1].size = submitted[tx_list[1].id]
    BY <2>1, <2>2, HeadFacts
  <2>5. /\ p.id = tx_list[1].id /\ p.n = tx_next /\ p.so = tx_list[1].so
        /\ p.size = tx_list[1].size /\ p.first = tx_list[1].first /\ p.last = TRUE
    BY <2>4 DEF serialize_sdu
  <2>6. /\ Past(list, p.id)
        /\ \A id : Past(tx_list, id) => Past(list, id)
        /\ \A k \in 1 .. Len(list) : \E j \in 1 .. Len(tx_list) : list[k].id = tx_list[j].id
    BY <2>1, <2>2, <2>5, <1>TailPast
  <2>7. \A id, so, sz, last : Held(id, so, sz, last)
          => BytesOK(id, so, sz, last, list, submitted)
    BY <2>2, <1>HeldTail
  <2>8. list \in Seq(Waiting)
    BY <2>1, <2>2, TailShape DEF SendInv, TxShape
  <2> HIDE DEF p, list
  <2>9. BytesOK(p.id, p.so, p.size, p.last, list, submitted)
    <3>1. ASSUME list # <<>> PROVE list[1].id # p.id
      <4>1. 1 \in 1 .. Len(list)
        BY <2>8, <3>1, SMT
      <4>2. p.id < list[1].id
        BY <4>1, <2>6 DEF Past
      <4> QED BY <4>2, <2>4, <2>5, SMT
    <3>2. p.so + p.size <= submitted[p.id] /\ p.so + p.size = submitted[p.id]
      BY <2>4, <2>5, SMT
    <3> QED BY <3>1, <3>2, <2>4, <2>5 DEF BytesOK
  <2>10. IF Whole(p) THEN tx_list[1].first /\ Past(list, p.id)
         ELSE Placed(p.id, tx_next, list, tx_next')
    <3>1. CASE Whole(p)
      BY <3>1, <2>5, <2>6 DEF Whole
    <3>2. CASE ~Whole(p)
      <4>1. tx_next' = tx_next + 1
        BY <3>2, <2>2, <2>4, <2>5 DEF Whole
      <4>2. tx_next < tx_next'
        BY <4>1, <2>4, SMT
      <4> QED BY <4>2, <3>2, <2>6 DEF Placed
    <3> QED BY <3>1, <3>2
  <2>11. ASSUME NEW id, NEW n, Tagged(id, n) PROVE Placed(id, n, list, tx_next')
    <3>1. Placed(id, n, tx_list, tx_next) /\ n \in Nat
      BY <2>11, <1>TagTypes DEF TrackInv, TagsPlaced
    <3>2. CASE n < tx_next /\ Past(tx_list, id)
      <4>1. n < tx_next'
        BY <3>1, <3>2, <2>2, <2>4, SMTT(30)
      <4> QED BY <4>1, <3>2, <2>6 DEF Placed
    <3>3. CASE n = tx_next /\ id = tx_list[1].id /\ ~tx_list[1].first
      <4>1. n < tx_next'
        BY <3>3, <2>2, <2>4, SMT
      <4> QED BY <4>1, <3>3, <2>5, <2>6 DEF Placed
    <3> QED BY <3>1, <3>2, <3>3 DEF Placed
  <2>12. Sends(p, tx_next', tx_list')
    BY <2>2, <2>5, <2>6, <2>7, <2>9, <2>10, <2>11 DEF Sends
  <2> QED BY <2>2, <2>3, <2>12, <1>SendStep
<1>TrackCut.
    ASSUME TrackInv, NEW size \in Grant, generate_tx_pdu_cut(size)
    PROVE  TrackInv'
  <2> USE <1>TrackCut
  <2>1. SendInv
    BY DEF TrackInv, WInv
  <2>2. /\ SendInv' /\ tx_list # <<>> /\ tx_next' = tx_next
        /\ Len(tx_list') = Len(tx_list) /\ tx_list' # <<>>
        /\ \A k \in 1 .. Len(tx_list) : tx_list'[k].id = tx_list[k].id
        /\ tx_list'[1].first = FALSE
    BY <2>1, SenderSteps DEF SenderEffects, SegmentSent
  <2>3. PICK p : /\ air' = air \cup {p} /\ PduOK(p)
                 /\ p.id = tx_list[1].id /\ p.n = tx_next /\ p.last = FALSE
                 /\ p.size >= 1 /\ p.so = tx_list[1].so
                 /\ p.so + p.size = tx_list'[1].so
                 /\ p.so + p.size < submitted[p.id]
    BY <2>1, SenderSteps DEF SenderEffects, SegmentSent
  <2>4. UNCHANGED rx_vars /\ UNCHANGED <<submitted, withdrawn>>
    BY DEF generate_tx_pdu_cut, TxUnchanged
  <2>5. /\ tx_list[1].so \in Nat /\ tx_list[1].id \in 1 .. Len(submitted)
        /\ 1 \in 1 .. Len(tx_list) /\ submitted \in Seq(Nat)
    BY <2>1, <2>2, HeadFacts DEF SendInv
  <2>6. tx_list'[1].id = tx_list[1].id
    BY <2>2, <2>5
  <2>7. p.so \in Nat /\ p.size \in Nat /\ submitted[p.id] \in Nat /\ p.id \in 1 .. Len(submitted)
    BY <2>3, <2>5, SMTT(30) DEF PduOK
  <2>8. ~Whole(p)
    BY <2>3 DEF Whole
  <2>9. BytesOK(p.id, p.so, p.size, p.last, tx_list', submitted)
    BY <2>3, <2>7, SMT DEF BytesOK
  <2>10. \A id : Past(tx_list, id) => Past(tx_list', id)
    BY <2>2 DEF Past
  <2>11. Placed(p.id, tx_next, tx_list', tx_next')
    BY <2>2, <2>3, <2>6 DEF Placed
  <2>12. \A id, n : Tagged(id, n) => Placed(id, n, tx_list', tx_next')
    BY <2>2, <2>6, <2>10 DEF TrackInv, TagsPlaced, Placed
  <2>13. ASSUME NEW id, NEW so, NEW sz, NEW last, Held(id, so, sz, last)
         PROVE  BytesOK(id, so, sz, last, tx_list', submitted)
    <3>1. BytesOK(id, so, sz, last, tx_list, submitted)
      BY <2>13 DEF TrackInv, BytesHeld
    <3>2. so + sz \in Int
      <4>1. so \in Nat /\ sz \in Nat
        <5>1. rx_list \in Seq(Entry) /\ AirOK
          BY <2>1, RecvFacts DEF TrackInv, WInv, ListOK, SendInv
        <5> QED BY <2>13, <5>1, ListTypes DEF Held, AirOK, PduOK
      <4> QED BY <4>1, SMTT(30)
    <3>3. ASSUME tx_list'[1].id = id PROVE so + sz <= tx_list'[1].so
      <4>1. so + sz <= tx_list[1].so
        BY <3>1, <3>3, <2>2, <2>6 DEF BytesOK
      <4> QED BY <4>1, <3>2, <2>3, <2>5, <2>7, SMTT(30)
    <3> QED BY <3>1, <3>3 DEF BytesOK
  <2>14. Sends(p, tx_next', tx_list')
    BY <2>2, <2>3, <2>8, <2>9, <2>11, <2>12, <2>13 DEF Sends
  <2> QED BY <2>2, <2>4, <2>14, <1>SendStep
\* SDUs are withdrawn from the transmitter.
<1>WithdrawnWhole.
    ASSUME TrackInv, UNCHANGED <<submitted, delivered>>, NEW W,
           withdrawn' = withdrawn \cup W,
           \A w \in W : \E k \in 1 .. Len(tx_list) : tx_list[k].id = w
    PROVE  DeliveredOnceWhole'
  <2> USE <1>WithdrawnWhole
  <2>1. DeliveredOnce'
    BY DEF TrackInv, DeliveredOnceWhole, DeliveredOnce
  <2>2. DeliveredWhole'
    <3> SUFFICES ASSUME NEW k \in 1 .. Len(delivered)
                 PROVE  \E id \in 1 .. Len(submitted) \ (withdrawn \cup W) :
                          delivered[k] = [ids |-> {id}, size |-> submitted[id]]
      BY DEF DeliveredWhole
    <3>1. PICK id \in 1 .. Len(submitted) \ withdrawn :
            delivered[k] = [ids |-> {id}, size |-> submitted[id]]
      BY DEF TrackInv, DeliveredOnceWhole, DeliveredWhole
    <3>2. delivered[k].ids = {id}
      BY <3>1, SMT
    <3>3. Past(tx_list, id)
      BY <3>2 DEF TrackInv, HandedUpMarked, HandedUp
    <3>4. id \notin W
      BY <3>3, SMT DEF Past
    <3> QED BY <3>1, <3>4
  <2> QED BY <2>1, <2>2 DEF DeliveredOnceWhole
\* SDUs of which nothing was sent leave tx_list, withdrawn (those of W) or lost.
<1>LeaveStep.
    ASSUME TrackInv, SendInv', UNCHANGED rx_vars, UNCHANGED <<submitted, air, tx_next>>,
           NEW W, withdrawn' = withdrawn \cup W, tx_list # <<>>,
           \A w \in W : \E k \in 1 .. Len(tx_list) : tx_list[k].id = w /\ tx_list[k].first,
           \A i \in 1 .. Len(tx_list') :
             /\ \E j \in 1 .. Len(tx_list) : tx_list'[i].id = tx_list[j].id
             /\ tx_list'[i].id \notin W,
           \/ tx_list' # <<>> /\ tx_list'[1] = tx_list[1]
           \/ tx_list[1].first /\ Past(tx_list', tx_list[1].id)
    PROVE  TrackInv'
  <2>0. /\ \A t \in Seq(Waiting) : t # <<>> => 1 \in 1 .. Len(t)
        /\ \A i, j, k \in Int : i <= j /\ j < k => i # k
        /\ \A t \in Seq(Waiting) : Len(t) \in Nat
        /\ \A l \in Nat : \A i \in 1 .. l : i \in Int
        /\ \A i \in Nat : i \in Int
    BY SMT
  <2> USE <1>LeaveStep
  <2>1. /\ RecvInv' /\ NextCount' = NextCount /\ rx_list' = rx_list /\ delivered' = delivered
    BY RecvUnchanged DEF TrackInv, WInv
  <2>2. /\ tx_list \in Seq(Waiting) /\ Increasing(tx_list) /\ Segs(tx_list, submitted)
        /\ tx_list' \in Seq(Waiting) /\ Len(tx_list) \in Nat /\ 1 \in 1 .. Len(tx_list)
        /\ \A k \in 1 .. Len(tx_list) : tx_list[k].id \in Nat
    BY HeadFacts, WaitingTypes DEF TrackInv, WInv, SendInv, TxShape
  <2>3. /\ \A id, n : Tagged(id, n)' <=> Tagged(id, n)
        /\ \A id, so, size, last : Held(id, so, size, last)' <=> Held(id, so, size, last)
        /\ \A id : WholeInAir(id)' <=> WholeInAir(id)
        /\ \A id : HandedUp(id)' <=> HandedUp(id)
        /\ \A n : Deliv(rx_list, n)' <=> Deliv(rx_list, n)
    BY <2>1, SMT DEF Tagged, Held, WholeInAir, HandedUp, Deliv
  <2>4. \A id : Past(tx_list, id) => Past(tx_list', id)
    BY DEF Past
  <2>5. ASSUME NEW w \in W PROVE ~Past(tx_list, w) /\ \A n : ~Tagged(w, n)
    <3>1. PICK k \in 1 .. Len(tx_list) : tx_list[k].id = w /\ tx_list[k].first
      OBVIOUS
    <3>2. ~Past(tx_list, w)
      BY <3>1, <2>2, SMTT(30) DEF Past
    <3>3. ASSUME w = tx_list[1].id, ~tx_list[1].first PROVE FALSE
      <4>1. 1 < k
        BY <3>1, <3>3, SMT
      <4>2. tx_list[1].id < tx_list[k].id
        BY <4>1, <2>2 DEF Increasing
      <4> QED BY <4>2, <3>1, <3>3, <2>2, SMTT(30)
    <3> QED BY <3>2, <3>3 DEF TrackInv, TagsPlaced, Placed
  <2>6. \A id : Live(id) /\ id \notin W => Live(id)'
    BY DEF Live
  <2>7. WaitingLive'
    <3>1. \A k \in 1 .. Len(tx_list) : tx_list[k].id \in 1 .. Len(submitted)
      BY <2>2 DEF Segs
    <3>2. withdrawn \subseteq 1 .. Len(submitted) /\ submitted' = submitted
      BY DEF TrackInv, WaitingLive
    <3>3. W \subseteq 1 .. Len(submitted)
      BY <3>1
    <3>4. ASSUME NEW i \in 1 .. Len(tx_list') PROVE tx_list'[i].id \notin withdrawn'
      BY DEF TrackInv, WaitingLive
    <3> QED BY <3>2, <3>3, <3>4 DEF WaitingLive
  <2>8. TagsPlaced'
    <3> SUFFICES ASSUME NEW id, NEW n, Tagged(id, n)
                 PROVE  Live(id)' /\ Placed(id, n, tx_list', tx_next)
      BY <2>3 DEF TagsPlaced
    <3>1. Live(id) /\ Placed(id, n, tx_list, tx_next)
      BY DEF TrackInv, TagsPlaced
    <3>2. Live(id)'
      BY <3>1, <2>5, <2>6
    <3>3. CASE n < tx_next /\ Past(tx_list, id)
      BY <3>3, <3>2, <2>4 DEF Placed
    <3>4. CASE n = tx_next /\ id = tx_list[1].id /\ ~tx_list[1].first
      BY <3>4, <3>2 DEF Placed
    <3> QED BY <3>1, <3>3, <3>4 DEF Placed
  <2>9. TagsAgree'
    BY <2>3, SMT DEF TrackInv, TagsAgree
  <2>10. BytesHeld'
    <3> SUFFICES ASSUME NEW id, NEW so, NEW size, NEW last, Held(id, so, size, last)
                 PROVE  BytesOK(id, so, size, last, tx_list', submitted)
      BY <2>3 DEF BytesHeld
    <3>1. BytesOK(id, so, size, last, tx_list, submitted) /\ id <= tx_list[1].id
      BY <1>HeldSent DEF TrackInv, BytesHeld
    <3>2. CASE tx_list' # <<>> /\ tx_list'[1] = tx_list[1]
      BY <3>1, <3>2 DEF BytesOK
    <3>3. CASE Past(tx_list', tx_list[1].id)
      <4>1. ASSUME tx_list' # <<>> PROVE tx_list'[1].id # id
        <5>1. 1 \in 1 .. Len(tx_list')
          BY <4>1, <2>0, <2>2
        <5>2. tx_list[1].id < tx_list'[1].id /\ tx_list'[1].id \in Nat
          BY <5>1, <3>3, <2>2, WaitingTypes DEF Past
        <5>3. id \in Int /\ tx_list[1].id \in Int
          BY <3>1, <2>2, SMTT(30) DEF BytesOK
        <5> QED BY <5>2, <5>3, <3>1, <2>0
      <4> QED BY <4>1, <3>1 DEF BytesOK
    <3> QED BY <3>2, <3>3
  <2>11. WholesOnce'
    <3>1. ASSUME NEW id, WholeInAir(id)
          PROVE  Live(id)' /\ Past(tx_list', id) /\ ~HandedUp(id) /\ \A n : ~Tagged(id, n)
      <4>1. /\ Live(id) /\ Past(tx_list, id) /\ ~HandedUp(id) /\ \A n : ~Tagged(id, n)
        BY <3>1 DEF TrackInv, WholesOnce
      <4> QED BY <4>1, <2>4, <2>5, <2>6
    <3>2. \A p, q \in air' : Whole(p) /\ Whole(q) /\ p.id = q.id => p = q
      BY DEF TrackInv, WholesOnce
    <3> QED BY <3>1, <3>2, <2>3 DEF WholesOnce
  <2>12. HandedUpMarked'
    BY <2>1, <2>3, <2>4 DEF TrackInv, HandedUpMarked
  <2>13. DeliveredOnceWhole'
    BY <2>1, <1>WithdrawnWhole
  <2> QED BY <2>1, <2>7, <2>8, <2>9, <2>10, <2>11, <2>12, <2>13 DEF TrackInv, WInv
<1>TrackNoRoom.
    ASSUME TrackInv, NEW size \in Grant, generate_tx_pdu_no_room(size)
    PROVE  TrackInv'
  <2> USE <1>TrackNoRoom
  <2>1. SendInv
    BY DEF TrackInv, WInv
  <2>2. /\ SendInv' /\ tx_list # <<>> /\ tx_list' = Tail(tx_list) /\ tx_list[1].first
    BY <2>1, SenderSteps DEF SenderEffects, HeadDropped
  <2>3. /\ UNCHANGED rx_vars /\ UNCHANGED <<submitted, air, tx_next>>
        /\ withdrawn' = withdrawn \cup {}
    BY DEF generate_tx_pdu_no_room, TxUnchanged
  <2>4. /\ Past(tx_list', tx_list[1].id)
        /\ \A k \in 1 .. Len(tx_list') :
             \E j \in 1 .. Len(tx_list) : tx_list'[k].id = tx_list[j].id
    BY <2>1, <2>2, <1>TailPast
  <2> DEFINE W == {}
  <2>5. /\ withdrawn' = withdrawn \cup W
        /\ \A w \in W : \E k \in 1 .. Len(tx_list) : tx_list[k].id = w /\ tx_list[k].first
        /\ \A i \in 1 .. Len(tx_list') :
             /\ \E j \in 1 .. Len(tx_list) : tx_list'[i].id = tx_list[j].id
             /\ tx_list'[i].id \notin W
    BY <2>3, <2>4
  <2>6. /\ UNCHANGED rx_vars /\ UNCHANGED <<submitted, air, tx_next>>
        /\ \/ tx_list' # <<>> /\ tx_list'[1] = tx_list[1]
           \/ tx_list[1].first /\ Past(tx_list', tx_list[1].id)
    BY <2>2, <2>3, <2>4
  <2> HIDE DEF W
  <2>7. SendInv' /\ tx_list # <<>>
    BY <2>2
  <2> QED BY <2>5, <2>6, <2>7, <1>LeaveStep
<1>TrackDiscard.
    ASSUME TrackInv, NEW id, discard_sdu(id)
    PROVE  TrackInv'
  <2> USE <1>TrackDiscard
  <2>1. SendInv
    BY DEF TrackInv, WInv
  <2>2. /\ SendInv'
        /\ \E k \in 1 .. Len(tx_list) :
             tx_list[k].id = id /\ tx_list[k].first /\ tx_list' = RemoveAt(tx_list, k)
    BY <2>1, SenderSteps DEF SenderEffects, SduDiscarded
  <2>3. PICK k \in 1 .. Len(tx_list) :
          tx_list[k].id = id /\ tx_list[k].first /\ tx_list' = RemoveAt(tx_list, k)
    BY <2>2
  <2>4. /\ UNCHANGED rx_vars /\ UNCHANGED <<submitted, air, tx_next>>
        /\ withdrawn' = withdrawn \cup {id}
    BY DEF discard_sdu
  <2>5. /\ Len(tx_list') = Len(tx_list) - 1
        /\ \A i \in 1 .. Len(tx_list') :
             \E j \in 1 .. Len(tx_list) : tx_list'[i] = tx_list[j] /\ i <= j /\ j # k
        /\ k # 1 => Len(tx_list') >= 1 /\ tx_list'[1] = tx_list[1]
    BY <2>1, <2>3, RemoveShape DEF SendInv
  <2>6. /\ tx_list \in Seq(Waiting) /\ Increasing(tx_list) /\ tx_list # <<>>
        /\ Len(tx_list) \in Nat /\ \A j \in 1 .. Len(tx_list) : tx_list[j].id \in Nat
    BY <2>1, <2>3, WaitingTypes, SMTT(30) DEF SendInv, TxShape
  <2>7. \A j \in 1 .. Len(tx_list) : j # k => tx_list[j].id # id
    BY <2>3, <2>6, SMT DEF Increasing
  <2>8. \A i \in 1 .. Len(tx_list') :
          /\ \E j \in 1 .. Len(tx_list) : tx_list'[i].id = tx_list[j].id
          /\ tx_list'[i].id \notin {id}
    BY <2>5, <2>7
  <2>9. CASE k # 1
    <3>1. tx_list' # <<>> /\ tx_list'[1] = tx_list[1]
      BY <2>5, <2>9, SMT
    <3> QED BY <3>1, <2>2, <2>3, <2>4, <2>6, <2>8, <1>LeaveStep
  <2>10. CASE k = 1
    <3>1. Past(tx_list', tx_list[1].id)
      <4> SUFFICES ASSUME NEW i \in 1 .. Len(tx_list')
                   PROVE  tx_list[1].id < tx_list'[i].id
        BY DEF Past
      <4>1. PICK j \in 1 .. Len(tx_list) : tx_list'[i] = tx_list[j] /\ j # 1
        BY <2>5, <2>10
      <4>2. 1 \in 1 .. Len(tx_list) /\ 1 < j
        BY <4>1, <2>6, SMT
      <4> QED BY <4>1, <4>2, <2>6 DEF Increasing
    <3>2. tx_list[1].first
      BY <2>3, <2>10
    <3> QED BY <3>1, <3>2, <2>2, <2>3, <2>4, <2>6, <2>8, <1>LeaveStep
  <2> QED BY <2>9, <2>10
\* recv_sdu: the new SDU has a number of its own, after all the others.
<1>TrackSdu.
    ASSUME TrackInv, NEW size \in SduSize, recv_sdu(size)
    PROVE  TrackInv'
  <2> USE <1>TrackSdu
  <2> DEFINE new == Len(submitted) + 1
  <2>1. SendInv
    BY DEF TrackInv, WInv
  <2>2. /\ SendInv' /\ Len(submitted') = Len(submitted) + 1
        /\ \A id \in 1 .. Len(submitted) : submitted'[id] = submitted[id]
        /\ Len(tx_list') = Len(tx_list) + 1
        /\ \A k \in 1 .. Len(tx_list) : tx_list'[k] = tx_list[k]
        /\ tx_list'[Len(tx_list) + 1].id = new
        /\ tx_list'[Len(tx_list) + 1].first = TRUE
    BY <2>1, SenderSteps DEF SenderEffects, SduAccepted
  <2>3. /\ UNCHANGED rx_vars /\ UNCHANGED <<tx_next, withdrawn, air>>
    BY DEF recv_sdu
  <2>4. /\ RecvInv' /\ NextCount' = NextCount /\ rx_list' = rx_list /\ delivered' = delivered
    BY <2>3, RecvUnchanged DEF TrackInv, WInv
  <2>5. /\ Len(tx_list) \in Nat /\ Len(submitted) \in Nat /\ new \in Nat
        /\ tx_list \in Seq(Waiting) /\ tx_list' \in Seq(Waiting)
        /\ \A k \in 1 .. Len(tx_list) : tx_list[k].id \in 1 .. Len(submitted)
    <3>1. tx_list \in Seq(Waiting) /\ submitted \in Seq(Nat) /\ Segs(tx_list, submitted)
      BY <2>1 DEF SendInv, TxShape
    <3>2. tx_list' \in Seq(Waiting)
      BY <2>2 DEF SendInv, TxShape
    <3> QED BY <3>1, <3>2, SMT DEF Segs
  <2>6. /\ \A id, n : Tagged(id, n)' <=> Tagged(id, n)
        /\ \A id, so, sz, last : Held(id, so, sz, last)' <=> Held(id, so, sz, last)
        /\ \A id : WholeInAir(id)' <=> WholeInAir(id)
        /\ \A id : HandedUp(id)' <=> HandedUp(id)
        /\ \A n : Deliv(rx_list, n)' <=> Deliv(rx_list, n)
    BY <2>3, <2>4 DEF Tagged, Held, WholeInAir, HandedUp, Deliv
  <2> HIDE DEF new
  <2>7. \A k \in 1 .. Len(tx_list') :
          \/ k \in 1 .. Len(tx_list) /\ tx_list'[k] = tx_list[k]
          \/ k = Len(tx_list) + 1 /\ tx_list'[k].id = new
    BY <2>2, <2>5, SMT
  <2>8. new \notin 1 .. Len(submitted) /\ (\A id \in 1 .. Len(submitted) : id < new)
        /\ (\A id \in 1 .. Len(submitted) : id \in 1 .. Len(submitted'))
        /\ new \in 1 .. Len(submitted')
    BY <2>2, <2>5, SMT DEF new
  <2>9. \A id \in 1 .. Len(submitted) : Past(tx_list, id) => Past(tx_list', id)
    BY <2>7, <2>8 DEF Past
  <2>10. \A id : Live(id) => Live(id)' /\ id \in 1 .. Len(submitted)
    BY <2>3, <2>8 DEF Live
  <2>11. /\ tx_list # <<>> => tx_list' # <<>> /\ tx_list'[1] = tx_list[1]
         /\ tx_list = <<>> => tx_list'[1].id = new
    <3>1. CASE tx_list = <<>>
      <4>1. Len(tx_list) = 0
        BY <3>1
      <4> QED BY <4>1, <3>1, <2>2, SMT
    <3>2. CASE tx_list # <<>>
      <4>1. 1 \in 1 .. Len(tx_list) /\ tx_list' # <<>>
        BY <3>2, <2>2, <2>5, SMT
      <4> QED BY <4>1, <3>2, <2>2
    <3> QED BY <3>1, <3>2
  <2>12. WaitingLive'
    <3>1. withdrawn \subseteq 1 .. Len(submitted)
      BY DEF TrackInv, WaitingLive
    <3>2. \A k \in 1 .. Len(tx_list') : tx_list'[k].id \notin withdrawn
      BY <3>1, <2>7, <2>8 DEF TrackInv, WaitingLive
    <3> QED BY <3>1, <3>2, <2>3, <2>8 DEF WaitingLive
  <2>13. TagsPlaced'
    <3> SUFFICES ASSUME NEW id, NEW n, Tagged(id, n)
                 PROVE  Live(id)' /\ Placed(id, n, tx_list', tx_next)
      BY <2>3, <2>6 DEF TagsPlaced
    <3>1. Live(id) /\ Placed(id, n, tx_list, tx_next)
      BY DEF TrackInv, TagsPlaced
    <3> QED BY <3>1, <2>9, <2>10, <2>11 DEF Placed
  <2>14. TagsAgree'
    BY <2>6, SMT DEF TrackInv, TagsAgree
  <2>15. BytesHeld'
    <3> SUFFICES ASSUME NEW id, NEW so, NEW sz, NEW last, Held(id, so, sz, last)
                 PROVE  BytesOK(id, so, sz, last, tx_list', submitted')
      BY <2>6 DEF BytesHeld
    <3>1. BytesOK(id, so, sz, last, tx_list, submitted)
      BY DEF TrackInv, BytesHeld
    <3>2. id \in 1 .. Len(submitted) /\ id \in 1 .. Len(submitted')
          /\ submitted'[id] = submitted[id] /\ id # new
      BY <3>1, <2>2, <2>8 DEF BytesOK
    <3>3. tx_list' # <<>> /\ tx_list'[1].id = id => so + sz <= tx_list'[1].so
      BY <3>1, <3>2, <2>11 DEF BytesOK
    <3> QED BY <3>1, <3>2, <3>3 DEF BytesOK
  <2>16. WholesOnce'
    <3>1. \A p, q \in air' : Whole(p) /\ Whole(q) /\ p.id = q.id => p = q
      BY <2>3 DEF TrackInv, WholesOnce
    <3> QED BY <3>1, <2>6, <2>9, <2>10 DEF TrackInv, WholesOnce
  <2>17. ASSUME NEW id, HandedUp(id) PROVE id \in 1 .. Len(submitted)
    <3>1. PICK k \in 1 .. Len(delivered) : delivered[k].ids = {id}
      BY <2>17 DEF HandedUp
    <3>2. PICK i \in 1 .. Len(submitted) \ withdrawn :
            delivered[k] = [ids |-> {i}, size |-> submitted[i]]
      BY DEF TrackInv, DeliveredOnceWhole, DeliveredWhole
    <3> QED BY <3>1, <3>2, SMT
  <2>18. HandedUpMarked'
    BY <2>4, <2>6, <2>9, <2>17 DEF TrackInv, HandedUpMarked
  <2>19. DeliveredOnceWhole'
    <3>1. DeliveredOnce'
      BY <2>4 DEF TrackInv, DeliveredOnceWhole, DeliveredOnce
    <3>2. DeliveredWhole'
      <4> SUFFICES ASSUME NEW k \in 1 .. Len(delivered)
                   PROVE  \E id \in 1 .. Len(submitted') \ withdrawn :
                            delivered[k] = [ids |-> {id}, size |-> submitted'[id]]
        BY <2>3, <2>4 DEF DeliveredWhole
      <4>1. PICK id \in 1 .. Len(submitted) \ withdrawn :
              delivered[k] = [ids |-> {id}, size |-> submitted[id]]
        BY DEF TrackInv, DeliveredOnceWhole, DeliveredWhole
      <4> QED BY <4>1, <2>2, <2>8
    <3> QED BY <3>1, <3>2 DEF DeliveredOnceWhole
  <2> QED BY <2>2, <2>4, <2>12, <2>13, <2>14, <2>15, <2>16, <2>18, <2>19 DEF TrackInv, WInv
\* Re-establishment: nothing is under way, and what was waiting is withdrawn.
<1>TrackReestablishment.
    ASSUME TrackInv, reestablishment
    PROVE  TrackInv'
  <2> USE <1>TrackReestablishment
  <2> DEFINE W == {tx_list[k].id : k \in 1 .. Len(tx_list)}
  <2>1. /\ tx_list' = <<>> /\ rx_list' = <<>> /\ air' = {}
        /\ withdrawn' = withdrawn \cup W
        /\ submitted' = submitted /\ delivered' = delivered
    BY DEF reestablishment
  <2>2. WInv'
    BY ReestablishmentStep DEF TrackInv
  <2>3. Len(tx_list') = 0 /\ Len(rx_list') = 0 /\ 1 .. 0 = {}
    BY <2>1, SMT
  <2>4. /\ \A id, n : ~Tagged(id, n)'
        /\ \A id, so, size, last : ~Held(id, so, size, last)'
        /\ \A id : ~WholeInAir(id)' /\ Past(tx_list, id)'
    BY <2>1, <2>3 DEF Tagged, Held, WholeInAir, Past
  <2>5. DeliveredOnceWhole'
    <3>1. \A w \in W : \E k \in 1 .. Len(tx_list) : tx_list[k].id = w
      OBVIOUS
    <3> HIDE DEF W
    <3> QED BY <3>1, <2>1, <1>WithdrawnWhole
  <2>6. WaitingLive'
    <3>1. \A k \in 1 .. Len(tx_list) : tx_list[k].id \in 1 .. Len(submitted)
      BY DEF TrackInv, WInv, SendInv, TxShape, Segs
    <3> QED BY <3>1, <2>1, <2>3 DEF TrackInv, WaitingLive
  <2>7. TagsPlaced' /\ TagsAgree' /\ BytesHeld'
    BY <2>4 DEF TagsPlaced, TagsAgree, BytesHeld
  <2>8. WholesOnce'
    BY <2>1, <2>4 DEF WholesOnce
  <2>9. HandedUpMarked'
    BY <2>1, <2>4 DEF TrackInv, HandedUpMarked
  <2> QED BY <2>2, <2>5, <2>6, <2>7, <2>8, <2>9 DEF TrackInv
<1> SUFFICES ASSUME TrackInv, [Next]_vars PROVE TrackInv'
  OBVIOUS
<1>1. ASSUME NEW size \in SduSize, recv_sdu(size) PROVE TrackInv'
  BY <1>1, <1>TrackSdu
<1>2. ASSUME NEW size \in Grant,
             \/ generate_tx_pdu_whole(size) \/ generate_tx_pdu_cut(size)
             \/ generate_tx_pdu_no_room(size)
      PROVE  TrackInv'
  BY <1>2, <1>TrackWhole, <1>TrackCut, <1>TrackNoRoom
<1>3. ASSUME NEW id \in 1 .. Len(submitted), discard_sdu(id) PROVE TrackInv'
  BY <1>3, <1>TrackDiscard
<1>4. ASSUME NEW p \in air, recv_pdu(p) PROVE TrackInv'
  BY <1>4, <1>TrackFull, <1>TrackSegment, <1>TrackCompletes DEF recv_pdu
<1>5. ASSUME NEW p \in air, lose(p) PROVE TrackInv'
  <2>1. air' \subseteq air /\ UNCHANGED tx_vars /\ UNCHANGED rx_vars
    BY <1>5 DEF lose
  <2> QED BY <2>1, <1>TrackLose
<1>6. CASE check_t_reassembly
  BY <1>6, <1>TrackCheck
<1>7. CASE reestablishment
  BY <1>7, <1>TrackReestablishment
<1>8. CASE UNCHANGED vars
  <2>1. air' \subseteq air /\ UNCHANGED tx_vars /\ UNCHANGED rx_vars
    BY <1>8 DEF vars
  <2> QED BY <2>1, <1>TrackLose
<1> QED BY <1>1, <1>2, <1>3, <1>4, <1>5, <1>6, <1>7, <1>8 DEF Next

LEMMA InitTrack == Least /\ Init => TrackInv
<1> SUFFICES ASSUME Least, Init PROVE TrackInv
  OBVIOUS
<1>1. /\ tx_list = <<>> /\ rx_list = <<>> /\ air = {} /\ withdrawn = {}
      /\ delivered = <<>>
  BY DEF Init
<1>2. WInv
  BY InitWInv
<1>3. Len(tx_list) = 0 /\ Len(rx_list) = 0 /\ Len(delivered) = 0 /\ 1 .. 0 = {}
  BY <1>1, SMT
<1>4. /\ \A id, n : ~Tagged(id, n)
      /\ \A id, so, size, last : ~Held(id, so, size, last)
      /\ \A id : ~WholeInAir(id) /\ ~HandedUp(id)
  BY <1>1, <1>3 DEF Tagged, Held, WholeInAir, HandedUp
<1>5. DeliveredOnceWhole
  BY <1>3 DEF DeliveredOnceWhole, DeliveredWhole, DeliveredOnce
<1>6. WaitingLive
  BY <1>1, <1>3 DEF WaitingLive
<1>7. TagsPlaced /\ TagsAgree /\ BytesHeld
  BY <1>4 DEF TagsPlaced, TagsAgree, BytesHeld
<1>8. WholesOnce
  BY <1>1, <1>4 DEF WholesOnce
<1>9. HandedUpMarked
  BY <1>1, <1>4, SMT DEF HandedUpMarked
<1> QED BY <1>2, <1>5, <1>6, <1>7, <1>8, <1>9 DEF TrackInv
-----------------------------------------------------------------------------
(* The theorems.                                                           *)

LOCAL INSTANCE WellFoundedInduction

\* The well-ordering of the natural numbers, from the library's well-founded
\* relations.
LEMMA LeastNumber == Least
<1> SUFFICES ASSUME NEW S \in SUBSET Nat, S # {}
             PROVE  \E x \in S : \A y \in S : x <= y
  BY DEF Least
<1> DEFINE Less == {ss \in Nat \X Nat : ss[1] < ss[2]}
<1>1. Less = OpToRel(<, Nat)
  BY DEF OpToRel
<1>2. IsWellFoundedOn(Less, Nat)
  BY <1>1, NatLessThanWellFounded
<1>3. PICK x \in S : \A y \in S : ~(<<y, x>> \in Less)
  BY <1>2, WFMin
<1>4. ASSUME NEW y \in S PROVE x <= y
  <2>1. x \in Nat /\ y \in Nat
    OBVIOUS
  <2>2. <<y, x>> \in Nat \X Nat
    BY <2>1
  <2>3. <<y, x>> \notin Less
    BY <1>3
  <2>4. ~(y < x)
    BY <2>2, <2>3
  <2> QED BY <2>1, <2>4, SMT
<1> QED BY <1>4

LEMMA AlwaysWInv == Spec => []WInv
<1>1. Init => WInv
  BY LeastNumber, InitWInv
<1>2. WInv /\ [Next]_vars => WInv'
  BY LeastNumber, NextWInv
<1> QED BY <1>1, <1>2, PTL DEF Spec

LEMMA AlwaysSizes == Spec => []SizeInv
<1>1. Init => SizeInv
  BY LeastNumber, InitWInv, SizesSteps DEF SizeInv
<1>2. SizeInv /\ [Next]_vars => SizeInv'
  BY LeastNumber, NextWInv, SizesSteps DEF SizeInv
<1> QED BY <1>1, <1>2, PTL DEF Spec

\* The reassembly list is sorted by SN and SO inside the window below
\* rx_next_highest, and rx_next_reassembly is in the window or at its upper edge
\* (nr_rlc_pdu_list_add, reception_actions and check_t_reassembly keep it so),
\* for every SN length, buffer size and number of PDUs lost, repeated or reordered.
THEOREM WindowIsOrdered == Spec => []WindowOrder
<1>1. WInv => WindowOrder
  BY LeastNumber, ReceiverSteps DEF WInv
<1> QED BY <1>1, AlwaysWInv, PTL

\* rx_next_reassembly is the first SN still to be delivered: reception_actions
\* and check_t_reassembly stop at an SN that is not delivered, and keep below it
\* only the marks of what was.
THEOREM NextReassemblyIsExact == Spec => []NextReassemblyExact
<1>1. WInv => NextReassemblyExact
  BY LeastNumber, ReceiverSteps DEF WInv
<1> QED BY <1>1, AlwaysWInv, PTL

\* While a segment or an SDU is missing below rx_next_highest, t_reassembly runs
\* (the three conditions of reception_actions and check_t_reassembly), unless
\* rx_next_reassembly is the last SN.
THEOREM GapIsTimed == Spec => []GapTimedBelowWrap
<1>1. WInv => GapTimedBelowWrap
  BY LeastNumber, ReceiverSteps DEF WInv
<1> QED BY <1>1, AlwaysWInv, PTL

\* What deliver_sdu gets are SDUs as they were submitted, none twice and none
\* that was withdrawn, whatever the MAC loses, repeats or reorders inside half
\* of the SN space: reassemble_and_deliver takes every byte from a segment of
\* the same SDU, and the entries it leaves behind hold off repeated segments.
THEOREM SdusDeliveredOnceWhole == Spec => []DeliveredOnceWhole
<1>1. Init => TrackInv
  BY LeastNumber, InitTrack
<1>2. TrackInv /\ [Next]_vars => TrackInv'
  BY LeastNumber, NextTrack
<1>3. TrackInv => DeliveredOnceWhole
  BY DEF TrackInv
<1> QED BY <1>1, <1>2, <1>3, PTL DEF Spec

\* The buffer status the MAC schedules by is always what the waiting segments
\* need with their headers, tx_size covers their bytes, and neither buffer grows
\* past its limit or goes below zero (recv_sdu, generate_tx_pdu, discard_sdu,
\* recv_pdu and clear_entity), for every buffer size and every size of SDU and
\* grant.
THEOREM BuffersAreExact == Spec => []SizesExact
<1>1. SizeInv => SizesExact
  BY LeastNumber, SizesSteps
<1> QED BY <1>1, AlwaysSizes, PTL

\* The state of the two entities has the types of TypeOK, and the entries of
\* tx_list end where their SDUs end.
THEOREM TypeCorrect == Spec => []TypeOK
<1>1. SizeInv => TypeOK
  BY LeastNumber, SizesSteps
<1> QED BY <1>1, AlwaysSizes, PTL
=============================================================================
