---------------------------- MODULE NrPdcpProofs ----------------------------
(***************************************************************************)
(* The PDCP bearer for every SN size, window, clock and number of SDUs:    *)
(* the COUNT is reconstructed, delivery is in order and at most once, and  *)
(* the bearer implements PdcpService.                                      *)
(***************************************************************************)
EXTENDS NrPdcp, WellFoundedInduction, TLAPS

LEMMA Widths ==
    /\ SnModulus \in Nat \ {0} /\ window_size \in Nat \ {0}
    /\ SnModulus = 2 * window_size
    /\ CountModulus \in Nat \ {0} /\ MaxTx \in Nat /\ MaxTx < CountModulus
<1>1. /\ SnModulus \in Nat \ {0} /\ window_size \in Nat \ {0}
      /\ SnModulus = 2 * window_size
  BY WidthAssumption
<1>2. SnModulus * HfnModulus \in Nat \ {0} BY <1>1, WidthAssumption
<1> QED BY <1>1, <1>2, CountAssumption DEF CountModulus

-----------------------------------------------------------------------------
(* The HFN guess.                                                            *)

\* A COUNT less than a window away from rx_deliv has the HFN of rx_deliv or
\* one of its neighbours.
LEMMA HfnNeighbour ==
    ASSUME NEW M \in Nat \ {0}, NEW h \in Int, NEW g \in Int, NEW s \in 0..M-1, NEW d \in 0..M-1,
           (g * M + d) - M < h * M + s, h * M + s < (g * M + d) + M
    PROVE  h \in {g - 1, g, g + 1}
<1>1. CASE h >= g + 2
  <2>1. h * M >= (g + 2) * M BY <1>1
  <2> QED BY <2>1
<1>2. CASE h <= g - 2
  <2>1. h * M <= (g - 2) * M BY <1>2
  <2> QED BY <2>1
<1> QED BY <1>1, <1>2

\* recv_pdu finds the COUNT the sender used for every PDU in the window.
LEMMA CountReconstruction ==
    ASSUME NEW deliv \in Nat, NEW c \in Nat, c < CountModulus,
           deliv - window_size <= c, c < deliv + window_size
    PROVE  rcvd_count(deliv, c % SnModulus) = c
<1> DEFINE M == SnModulus
           W == window_size
           s == c % M
           h == c \div M
           d == deliv % M
           g == deliv \div M
<1>1. M \in Nat \ {0} /\ W \in Nat \ {0} /\ M = 2 * W /\ CountModulus \in Nat \ {0}
  BY Widths
<1> HIDE DEF M, W
<1>2. c = h * M + s /\ s \in 0..M-1 /\ h \in Int BY <1>1
<1>3. deliv = g * M + d /\ d \in 0..M-1 /\ g \in Int BY <1>1
<1>4. deliv - W <= c /\ c < deliv + W BY DEF W
<1> HIDE DEF s, h, d, g
<1>5. h \in {g - 1, g, g + 1}
  BY <1>1, <1>2, <1>3, <1>4, HfnNeighbour
<1>6. c % CountModulus = c BY <1>1
<1> DEFINE hfn == IF s < d - W THEN g + 1 ELSE IF s >= d + W THEN g - 1 ELSE g
<1>7. hfn = h
  <2>1. CASE h = g
    BY <2>1, <1>1, <1>2, <1>3, <1>4
  <2>2. CASE h = g + 1
    <3>1. h * M = g * M + M BY <2>2, <1>1, <1>3
    <3> QED BY <3>1, <2>2, <1>1, <1>2, <1>3, <1>4
  <2>3. CASE h = g - 1
    <3>1. h * M = g * M - M BY <2>3, <1>1, <1>3
    <3> QED BY <3>1, <2>3, <1>1, <1>2, <1>3, <1>4
  <2> QED BY <1>5, <2>1, <2>2, <2>3
<1>8. rcvd_count(deliv, s) = (hfn * M + s) % CountModulus
  BY DEF rcvd_count, s, d, g, M, W
<1> QED BY <1>2, <1>6, <1>7, <1>8 DEF s, M

-----------------------------------------------------------------------------
(* The loops over rx_list.                                                   *)

\* A non-empty set of naturals has a least element, and Min is it.
LEMMA MinFacts ==
    ASSUME NEW S \in SUBSET Nat, S # {}
    PROVE  Min(S) \in S /\ \A j \in S : Min(S) <= j
<1> DEFINE Less == {ss \in Nat \X Nat : ss[1] < ss[2]}
<1>1. Less = OpToRel(<, Nat) BY Zenon DEF OpToRel
<1>2. IsWellFoundedOn(Less, Nat) BY <1>1, NatLessThanWellFounded, Zenon
<1>3. PICK x \in S : \A y \in S : ~(<<y, x>> \in Less)
  BY <1>2, WFMin, Zenon
<1>4. ASSUME NEW y \in S PROVE x <= y
  <2>1. x \in Nat /\ y \in Nat OBVIOUS
  <2>2. <<y, x>> \in Nat \X Nat BY <2>1
  <2>3. <<y, x>> \notin Less BY <1>3
  <2>4. ~(y < x) BY <2>2, <2>3, Zenon
  <2> QED BY <2>1, <2>4
<1> QED BY <1>4 DEF Min

\* A loop stops at the first element of S, or at the end of the list.
LEMMA StopFacts ==
    ASSUME NEW list \in Seq(SDU), NEW S \in SUBSET (DOMAIN list)
    PROVE  /\ StopAt(list, S) \in 1..Len(list) + 1
           /\ \A k \in 1..StopAt(list, S) - 1 : k \in DOMAIN list /\ k \notin S
           /\ StopAt(list, S) <= Len(list) => StopAt(list, S) \in S
<1> DEFINE T == S \cup {Len(list) + 1}
<1>1. Len(list) \in Nat /\ DOMAIN list = 1..Len(list) OBVIOUS
<1>2. T \in SUBSET Nat /\ T # {} BY <1>1
<1>3. Min(T) \in T /\ \A j \in T : Min(T) <= j BY <1>2, MinFacts
<1> HIDE DEF T
<1>4. StopAt(list, S) = Min(T) BY DEF StopAt, T
<1>5. Min(T) \in Nat BY <1>2, <1>3
<1>6. Len(list) + 1 \in T /\ \A j \in S : j \in T BY DEF T
<1>7. Min(T) \in S \/ Min(T) = Len(list) + 1 BY <1>3 DEF T
<1>8. Min(T) \in 1..Len(list) + 1 BY <1>1, <1>3, <1>5, <1>6, <1>7
<1>9. \A k \in 1..Min(T) - 1 : k \in DOMAIN list /\ k \notin S
  BY <1>1, <1>3, <1>5, <1>6, <1>8
<1> QED BY <1>1, <1>4, <1>7, <1>8, <1>9

LEMMA SduTypes == \A x \in SDU : x.count \in Int /\ x.count >= 0
BY Widths DEF SDU

\* The counts of SDUs are integers, and elements of a list are SDUs.
LEMMA ListTypes ==
    ASSUME NEW list \in Seq(SDU)
    PROVE  /\ Len(list) \in Nat /\ DOMAIN list = 1..Len(list)
           /\ \A i \in 1..Len(list) : list[i] \in SDU /\ list[i].count \in Int
BY SduTypes

LEMMA IncreasingList ==
    ASSUME NEW list \in Seq(SDU)
    PROVE  Increasing(list) <=>
             \A i, j \in 1..Len(list) : i < j => list[i].count < list[j].count
BY DEF Increasing

\* A count that is not in an increasing list is inserted in its place.
LEMMA ListAddFacts ==
    ASSUME NEW list \in Seq(SDU), Increasing(list),
           NEW sdu \in SDU, ~InList(list, sdu.count)
    PROVE  /\ ListAdd(list, sdu) \in Seq(SDU)
           /\ Len(ListAdd(list, sdu)) = Len(list) + 1
           /\ Increasing(ListAdd(list, sdu))
           /\ \A i \in 1..Len(list) + 1 :
                 \/ ListAdd(list, sdu)[i] = sdu
                 \/ \E j \in 1..Len(list) : ListAdd(list, sdu)[i] = list[j]
           /\ \E i \in 1..Len(list) + 1 : ListAdd(list, sdu)[i] = sdu
<1> DEFINE S == {k \in DOMAIN list : sdu.count < list[k].count}
           i == StopAt(list, S)
           a == SubSeq(list, 1, i - 1)
           b == SubSeq(list, i, Len(list))
           new == a \o <<sdu>> \o b
<1>1. /\ Len(list) \in Nat /\ DOMAIN list = 1..Len(list)
      /\ \A k \in 1..Len(list) : list[k] \in SDU /\ list[k].count \in Int
      /\ sdu.count \in Int
  BY ListTypes, SduTypes
<1>2. /\ i \in 1..Len(list) + 1
      /\ \A k \in 1..i - 1 : k \in 1..Len(list) /\ ~(sdu.count < list[k].count)
      /\ i <= Len(list) => sdu.count < list[i].count
  <2>1. S \in SUBSET (DOMAIN list) OBVIOUS
  <2> QED BY <1>1, <2>1, StopFacts
<1> HIDE DEF i, S
<1>3. /\ a \in Seq(SDU) /\ Len(a) = i - 1
      /\ \A k \in 1..i - 1 : a[k] = list[k]
  BY <1>1, <1>2
<1>4. /\ b \in Seq(SDU) /\ Len(b) = Len(list) - i + 1
      /\ \A k \in 1..Len(list) - i + 1 : b[k] = list[i + k - 1]
  BY <1>1, <1>2
<1> HIDE DEF a, b
<1>5. /\ new \in Seq(SDU) /\ Len(new) = Len(list) + 1
      /\ \A k \in 1..Len(list) + 1 :
            new[k] = IF k < i THEN list[k] ELSE IF k = i THEN sdu ELSE list[k - 1]
  <2> DEFINE c == a \o <<sdu>>
  <2>1. /\ c \in Seq(SDU) /\ Len(c) = i
        /\ \A k \in 1..i : c[k] = IF k < i THEN list[k] ELSE sdu
    BY <1>1, <1>2, <1>3
  <2> HIDE DEF c
  <2>2. new = c \o b BY DEF c
  <2>3. /\ c \o b \in Seq(SDU) /\ Len(c \o b) = Len(list) + 1
        /\ \A k \in 1..Len(list) + 1 : (c \o b)[k] = IF k <= i THEN c[k] ELSE b[k - i]
    <3>1. /\ c \o b \in Seq(SDU) /\ Len(c \o b) = Len(c) + Len(b)
          /\ \A k \in 1..Len(c) + Len(b) :
                (c \o b)[k] = IF k <= Len(c) THEN c[k] ELSE b[k - Len(c)]
      BY <1>4, <2>1
    <3> QED BY <1>1, <1>2, <1>4, <2>1, <3>1
  <2>4. ASSUME NEW k \in 1..Len(list) + 1
        PROVE (c \o b)[k] = IF k < i THEN list[k] ELSE IF k = i THEN sdu ELSE list[k - 1]
    <3>1. CASE k <= i BY <3>1, <1>1, <1>2, <2>1, <2>3
    <3>2. CASE i < k
      <4>1. k - i \in 1..Len(list) - i + 1 /\ i + (k - i) - 1 = k - 1 BY <3>2, <1>1, <1>2
      <4>2. b[k - i] = list[k - 1] BY <4>1, <1>4
      <4> QED BY <3>2, <4>2, <1>1, <1>2, <2>3
    <3>3. k <= i \/ i < k BY <1>1, <1>2
    <3> QED BY <3>1, <3>2, <3>3, Zenon
  <2> QED BY <2>2, <2>3, <2>4
<1> HIDE DEF new
<1>6. \A k \in 1..i - 1 : list[k].count < sdu.count
  BY <1>1, <1>2 DEF InList
<1>7. \A k \in i..Len(list) : sdu.count < list[k].count
  BY <1>1, <1>2 DEF Increasing
<1>8. Increasing(new)
  <2> SUFFICES ASSUME NEW p \in 1..Len(list) + 1, NEW q \in 1..Len(list) + 1, p < q
               PROVE new[p].count < new[q].count
    BY <1>5 DEF Increasing
  <2>6. \A x, y \in 1..Len(list) : x < y => list[x].count < list[y].count
    BY <1>1 DEF Increasing
  <2>1. CASE q < i
    <3>1. p \in 1..Len(list) /\ q \in 1..Len(list) /\ new[p] = list[p] /\ new[q] = list[q]
      BY <2>1, <1>1, <1>2, <1>5
    <3> QED BY <3>1, <2>6
  <2>2. CASE q = i
    <3>1. p \in 1..i - 1 /\ new[p] = list[p] BY <2>2, <1>1, <1>2, <1>5
    <3>2. new[q] = sdu BY <2>2, <1>1, <1>2, <1>5
    <3> QED BY <3>1, <3>2, <1>6
  <2>3. CASE i < q /\ p < i
    <3>1. /\ p \in 1..Len(list) /\ q - 1 \in 1..Len(list) /\ p < q - 1
          /\ new[p] = list[p] /\ new[q] = list[q - 1]
      BY <2>3, <1>1, <1>2, <1>5
    <3> QED BY <3>1, <2>6
  <2>4. CASE i < q /\ p = i
    <3>1. q - 1 \in i..Len(list) /\ new[q] = list[q - 1] BY <2>4, <1>1, <1>2, <1>5
    <3>2. new[p] = sdu BY <2>4, <1>1, <1>2, <1>5
    <3> QED BY <3>1, <3>2, <1>7
  <2>5. CASE i < q /\ i < p
    <3>1. /\ p - 1 \in 1..Len(list) /\ q - 1 \in 1..Len(list) /\ p - 1 < q - 1
          /\ new[p] = list[p - 1] /\ new[q] = list[q - 1]
      BY <2>5, <1>1, <1>2, <1>5
    <3> QED BY <3>1, <2>6
  <2> QED BY <1>2, <2>1, <2>2, <2>3, <2>4, <2>5
<1>9. ListAdd(list, sdu) = new BY DEF ListAdd, new, a, b, i, S
<1>10. \A k \in 1..Len(list) + 1 :
          new[k] = sdu \/ \E j \in 1..Len(list) : new[k] = list[j]
  <2> SUFFICES ASSUME NEW k \in 1..Len(list) + 1, k # i
               PROVE \E j \in 1..Len(list) : new[k] = list[j]
    BY <1>5
  <2>1. CASE k < i BY <2>1, <1>1, <1>2, <1>5
  <2>2. CASE i < k
    <3>1. k - 1 \in 1..Len(list) /\ new[k] = list[k - 1] BY <2>2, <1>1, <1>2, <1>5
    <3> QED BY <3>1
  <2> QED BY <1>2, <2>1, <2>2
<1>11. i \in 1..Len(list) + 1 /\ new[i] = sdu BY <1>1, <1>2, <1>5
<1> QED BY <1>5, <1>8, <1>9, <1>10, <1>11

\* Cutting an increasing list leaves two increasing lists of its elements.
LEMMA CutFacts ==
    ASSUME NEW list \in Seq(SDU), NEW n \in 0..Len(list)
    PROVE  /\ Take(list, n) \in Seq(SDU) /\ Len(Take(list, n)) = n
           /\ \A k \in 1..n : Take(list, n)[k] = list[k]
           /\ Drop(list, n) \in Seq(SDU) /\ Len(Drop(list, n)) = Len(list) - n
           /\ \A k \in 1..Len(list) - n : Drop(list, n)[k] = list[n + k]
           /\ Increasing(list) => Increasing(Take(list, n)) /\ Increasing(Drop(list, n))
<1>1. /\ Take(list, n) \in Seq(SDU) /\ Len(Take(list, n)) = n
      /\ \A k \in 1..n : Take(list, n)[k] = list[k]
  BY DEF Take
<1>2. /\ Drop(list, n) \in Seq(SDU) /\ Len(Drop(list, n)) = Len(list) - n
      /\ \A k \in 1..Len(list) - n : Drop(list, n)[k] = list[n + k]
  BY DEF Drop
<1>3. Increasing(list) => Increasing(Take(list, n)) BY <1>1, ListTypes DEF Increasing
<1>4. ASSUME Increasing(list) PROVE Increasing(Drop(list, n))
  <2> SUFFICES ASSUME NEW i \in 1..Len(list) - n, NEW j \in 1..Len(list) - n, i < j
               PROVE list[n + i].count < list[n + j].count
    BY <1>2, IncreasingList
  <2>1. n + i \in 1..Len(list) /\ n + j \in 1..Len(list) /\ n + i < n + j OBVIOUS
  <2> QED BY <1>4, <2>1, IncreasingList
<1> QED BY <1>1, <1>2, <1>3, <1>4

\* Appending a list of greater counts keeps a list increasing.
LEMMA ConcatIncreasing ==
    ASSUME NEW s \in Seq(SDU), NEW t \in Seq(SDU), Increasing(s), Increasing(t),
           \A i \in 1..Len(s), j \in 1..Len(t) : s[i].count < t[j].count
    PROVE  s \o t \in Seq(SDU) /\ Increasing(s \o t)
<1>1. /\ s \o t \in Seq(SDU) /\ Len(s \o t) = Len(s) + Len(t)
      /\ \A i \in 1..Len(s) + Len(t) :
            (s \o t)[i] = IF i <= Len(s) THEN s[i] ELSE t[i - Len(s)]
  OBVIOUS
<1>2. ASSUME NEW i \in 1..Len(s) + Len(t), NEW j \in 1..Len(s) + Len(t), i < j
      PROVE (s \o t)[i].count < (s \o t)[j].count
  <2>1. CASE j <= Len(s) BY <2>1, <1>1, <1>2, IncreasingList
  <2>2. CASE i <= Len(s) /\ Len(s) < j
    <3>1. j - Len(s) \in 1..Len(t) BY <2>2
    <3> QED BY <2>2, <3>1, <1>1
  <2>3. CASE Len(s) < i
    <3>1. i - Len(s) \in 1..Len(t) /\ j - Len(s) \in 1..Len(t) /\ i - Len(s) < j - Len(s)
      BY <2>3, <1>2
    <3>2. t[i - Len(s)].count < t[j - Len(s)].count BY <3>1, IncreasingList
    <3> QED BY <2>3, <3>2, <1>1, <1>2
  <2> QED BY <1>2, <2>1, <2>2, <2>3
<1> QED BY <1>1, <1>2, IncreasingList

\* The delivery loop consumes exactly the run of consecutive counts.
LEMMA ConsecutiveFacts ==
    ASSUME NEW list \in Seq(SDU), NEW c \in Nat
    PROVE  LET n == ConsecutiveFrom(list, c)
           IN  /\ n \in 0..Len(list)
               /\ \A k \in 1..n : list[k].count = c + k - 1
               /\ n < Len(list) => list[n + 1].count # c + n
<1> DEFINE S == {k \in DOMAIN list : list[k].count # c + k - 1}
<1>1. S \in SUBSET (DOMAIN list) OBVIOUS
<1>2. ConsecutiveFrom(list, c) = StopAt(list, S) - 1 BY DEF ConsecutiveFrom
<1>3. /\ StopAt(list, S) \in 1..Len(list) + 1
      /\ \A k \in 1..StopAt(list, S) - 1 : k \in DOMAIN list /\ k \notin S
      /\ StopAt(list, S) <= Len(list) => StopAt(list, S) \in S
  BY <1>1, StopFacts
<1> QED BY <1>2, <1>3, ListTypes

LEMMA BelowFacts ==
    ASSUME NEW list \in Seq(SDU), NEW c \in Nat, Increasing(list)
    PROVE  LET m == Below(list, c)
           IN  /\ m \in 0..Len(list)
               /\ \A k \in 1..m : list[k].count < c
               /\ \A k \in m + 1..Len(list) : list[k].count >= c
<1> DEFINE S == {k \in DOMAIN list : ~(list[k].count < c)}
<1>1. S \in SUBSET (DOMAIN list) OBVIOUS
<1>2. Below(list, c) = StopAt(list, S) - 1 BY DEF Below
<1>3. /\ StopAt(list, S) \in 1..Len(list) + 1
      /\ \A k \in 1..StopAt(list, S) - 1 : k \in DOMAIN list /\ k \notin S
      /\ StopAt(list, S) <= Len(list) => StopAt(list, S) \in S
  BY <1>1, StopFacts
<1> DEFINE m == StopAt(list, S) - 1
<1>4. m \in 0..Len(list) /\ \A k \in 1..m : list[k].count < c
  BY <1>3, ListTypes
<1>5. m < Len(list) => list[m + 1].count >= c
  BY <1>3, ListTypes
<1> HIDE DEF m
<1>6. ASSUME NEW k \in m + 1..Len(list) PROVE list[k].count >= c
  <2>1. m + 1 \in 1..Len(list) /\ k \in 1..Len(list) /\ list[m + 1].count >= c
    BY <1>4, <1>5
  <2>2. k = m + 1 \/ list[m + 1].count < list[k].count
    BY <1>4, <2>1, IncreasingList
  <2> QED BY <2>1, <2>2, ListTypes
<1> QED BY <1>2, <1>4, <1>6 DEF m

-----------------------------------------------------------------------------
(* Lists with counts in lo .. hi - 1, in order, deciphered correctly.        *)

Good(list, lo, hi) ==
    /\ list \in Seq(SDU)
    /\ Increasing(list)
    /\ \A i \in 1..Len(list) : /\ lo <= list[i].count /\ list[i].count < hi
                               /\ list[i].count = list[i].id

LEMMA GoodAdd ==
    ASSUME NEW lo \in Int, NEW hi \in Int, NEW lo2 \in Int, NEW hi2 \in Int,
           NEW list, Good(list, lo, hi), lo2 <= lo, hi <= hi2,
           NEW sdu \in SDU, sdu.count = sdu.id, lo2 <= sdu.count, sdu.count < hi2,
           ~InList(list, sdu.count)
    PROVE  Good(ListAdd(list, sdu), lo2, hi2)
<1> DEFINE new == ListAdd(list, sdu)
<1>1. /\ new \in Seq(SDU) /\ Len(new) = Len(list) + 1 /\ Increasing(new)
      /\ \A i \in 1..Len(list) + 1 :
            new[i] = sdu \/ \E j \in 1..Len(list) : new[i] = list[j]
  BY ListAddFacts DEF Good
<1>2. /\ sdu.count \in Int
      /\ \A j \in 1..Len(list) : list[j].count \in Int
  BY SduTypes, ListTypes DEF Good
<1> HIDE DEF new
<1>3. ASSUME NEW i \in 1..Len(list) + 1
      PROVE /\ lo2 <= new[i].count /\ new[i].count < hi2
            /\ new[i].count = new[i].id
  <2>1. CASE new[i] = sdu BY <2>1
  <2>2. ASSUME NEW j \in 1..Len(list), new[i] = list[j] PROVE <1>3!2
    BY <2>2, <1>2 DEF Good
  <2> QED BY <1>1, <2>1, <2>2
<1> QED BY <1>1, <1>3 DEF Good, new

LEMMA GoodConcat ==
    ASSUME NEW a \in Int, NEW b \in Int, NEW c \in Int, a <= b, b <= c,
           NEW s, Good(s, a, b), NEW t, Good(t, b, c)
    PROVE  Good(s \o t, a, c)
<1>1. /\ s \in Seq(SDU) /\ t \in Seq(SDU)
      /\ \A i \in 1..Len(s) : s[i].count \in Int
      /\ \A i \in 1..Len(t) : t[i].count \in Int
  BY ListTypes DEF Good
<1>2. \A i \in 1..Len(s), j \in 1..Len(t) : s[i].count < t[j].count
  BY <1>1 DEF Good
<1>3. s \o t \in Seq(SDU) /\ Increasing(s \o t)
  BY <1>1, <1>2, ConcatIncreasing DEF Good
<1>4. /\ Len(s \o t) = Len(s) + Len(t)
      /\ \A i \in 1..Len(s) + Len(t) :
            (s \o t)[i] = IF i <= Len(s) THEN s[i] ELSE t[i - Len(s)]
  BY <1>1
<1>5. ASSUME NEW i \in 1..Len(s) + Len(t)
      PROVE /\ a <= (s \o t)[i].count /\ (s \o t)[i].count < c
            /\ (s \o t)[i].count = (s \o t)[i].id
  <2>1. CASE i <= Len(s)
    <3>1. i \in 1..Len(s) /\ (s \o t)[i] = s[i] BY <2>1, <1>1, <1>4
    <3> QED BY <3>1, <1>1 DEF Good
  <2>2. CASE Len(s) < i
    <3>1. i - Len(s) \in 1..Len(t) /\ (s \o t)[i] = t[i - Len(s)] BY <2>2, <1>1, <1>4
    <3> QED BY <3>1, <1>1 DEF Good
  <2>3. i <= Len(s) \/ Len(s) < i BY <1>1
  <2> QED BY <2>1, <2>2, <2>3, Zenon
<1> QED BY <1>3, <1>4, <1>5 DEF Good

\* The two parts of a list cut where its counts reach mid.
LEMMA GoodCut ==
    ASSUME NEW lo \in Int, NEW hi \in Int, NEW mid \in Int, NEW mid2 \in Int,
           NEW list, Good(list, lo, hi), NEW n \in 0..Len(list),
           \A k \in 1..n : list[k].count < mid,
           \A k \in n + 1..Len(list) : mid2 <= list[k].count
    PROVE  Good(Take(list, n), lo, mid) /\ Good(Drop(list, n), mid2, hi)
<1>1. list \in Seq(SDU) /\ Len(list) \in Nat /\ Increasing(list) BY DEF Good
<1>2. /\ Take(list, n) \in Seq(SDU) /\ Len(Take(list, n)) = n
      /\ \A k \in 1..n : Take(list, n)[k] = list[k]
      /\ Drop(list, n) \in Seq(SDU) /\ Len(Drop(list, n)) = Len(list) - n
      /\ \A k \in 1..Len(list) - n : Drop(list, n)[k] = list[n + k]
      /\ Increasing(Take(list, n)) /\ Increasing(Drop(list, n))
  BY <1>1, CutFacts
<1>3. Good(Take(list, n), lo, mid)
  BY <1>1, <1>2, SMTT(30) DEF Good
<1>4. ASSUME NEW k \in 1..Len(list) - n
      PROVE LET e == Drop(list, n)[k]
            IN  mid2 <= e.count /\ e.count < hi /\ e.count = e.id
  <2>1. n + k \in n + 1..Len(list) /\ n + k \in 1..Len(list) BY <1>1
  <2> QED BY <2>1, <1>2 DEF Good
<1> QED BY <1>2, <1>3, <1>4 DEF Good

LEMMA GoodDeliver ==
    ASSUME NEW c \in Nat, NEW hi \in Int, c <= hi, NEW list, Good(list, c, hi)
    PROVE  LET n == ConsecutiveFrom(list, c)
           IN  /\ n \in Nat /\ c + n <= hi
               /\ Good(Take(list, n), c, c + n)
               /\ Good(Drop(list, n), c + n + 1, hi)
<1> DEFINE n == ConsecutiveFrom(list, c)
<1>1. /\ list \in Seq(SDU) /\ Len(list) \in Nat
      /\ \A i \in 1..Len(list) : list[i].count \in Int
  BY ListTypes DEF Good
<1>2. /\ n \in 0..Len(list)
      /\ \A k \in 1..n : list[k].count = c + k - 1
      /\ n < Len(list) => list[n + 1].count # c + n
  BY <1>1, ConsecutiveFacts
<1> HIDE DEF n
<1>3. \A k \in 1..n : list[k].count < c + n BY <1>1, <1>2
<1>4. ASSUME NEW k \in n + 1..Len(list) PROVE c + n + 1 <= list[k].count
  <2>1. n + 1 \in 1..Len(list) /\ k \in 1..Len(list) BY <1>1, <1>2
  <2>2. c + n <= list[n + 1].count
    <3>1. CASE n = 0 BY <3>1, <1>1, <2>1 DEF Good
    <3>2. CASE n > 0
      <4>1. n \in 1..Len(list) /\ list[n].count = c + n - 1 BY <3>2, <1>1, <1>2
      <4>2. list[n].count < list[n + 1].count
        BY <4>1, <2>1, <1>1, IncreasingList DEF Good
      <4> QED BY <4>1, <4>2, <1>1, <1>2, <2>1
    <3> QED BY <3>1, <3>2, <1>2
  <2>3. c + n + 1 <= list[n + 1].count
    <3>1. n < Len(list) /\ list[n + 1].count \in Int /\ n \in Nat BY <2>1, <1>1, <1>2
    <3>2. list[n + 1].count # c + n BY <3>1, <1>2
    <3> QED BY <2>2, <3>1, <3>2
  <2>4. k = n + 1 \/ list[n + 1].count < list[k].count
    BY <2>1, <1>1, <1>2, IncreasingList DEF Good
  <2> QED BY <2>1, <2>3, <2>4, <1>1, <1>2
<1>5. c + n <= hi
  <2>1. CASE n = 0 BY <2>1
  <2>2. CASE n > 0 BY <2>2, <1>1, <1>2 DEF Good
  <2> QED BY <2>1, <2>2, <1>2
<1>6. Good(Take(list, n), c, c + n) /\ Good(Drop(list, n), c + n + 1, hi)
  <2>1. c \in Int /\ c + n \in Int /\ c + n + 1 \in Int BY <1>1, <1>2
  <2> QED BY <2>1, <1>2, <1>3, <1>4, GoodCut
<1> QED BY <1>1, <1>2, <1>5, <1>6 DEF n

LEMMA GoodBelow ==
    ASSUME NEW lo \in Int, NEW c \in Nat, NEW hi \in Int, NEW list, Good(list, lo, hi)
    PROVE  LET m == Below(list, c)
           IN  Good(Take(list, m), lo, c) /\ Good(Drop(list, m), c, hi)
<1> DEFINE m == Below(list, c)
<1>1. list \in Seq(SDU) /\ Increasing(list) /\ \A i \in 1..Len(list) : list[i].count \in Int
  BY ListTypes DEF Good
<1>2. /\ m \in 0..Len(list)
      /\ \A k \in 1..m : list[k].count < c
      /\ \A k \in m + 1..Len(list) : list[k].count >= c
  BY <1>1, BelowFacts
<1> HIDE DEF m
<1>3. \A k \in m + 1..Len(list) : c <= list[k].count BY <1>1, <1>2
<1>4. c \in Int OBVIOUS
<1>5. Good(Take(list, m), lo, c) /\ Good(Drop(list, m), c, hi)
  BY <1>2, <1>3, <1>4, GoodCut
<1> QED BY <1>5 DEF m

-----------------------------------------------------------------------------
(* The inductive invariant.  rx_deliv splits the counts: everything below it *)
(* has been delivered or given up, everything in rx_list lies strictly above *)
(* it, so whatever is delivered next comes after all that was delivered.     *)

Sent == \A p \in channel : p.count < tx_next /\ p.sn = p.count % SnModulus

IInv ==
    /\ TypeOK
    /\ Sent
    /\ Good(delivered, 0, rx_deliv)
    /\ Good(rx_list, rx_deliv + 1, rx_next)
    /\ VariablesOrdered

LEMMA InitIInv == Init => IInv
<1> SUFFICES ASSUME Init PROVE IInv
  OBVIOUS
<1>1. tx_next \in 0..MaxTx /\ tx_next \in Nat BY CountAssumption DEF Init
<1>2. TypeOK BY <1>1 DEF Init, TypeOK
<1>3. \A lo, hi : Good(<<>>, lo, hi) BY DEF Good, Increasing
<1> QED BY <1>1, <1>2, <1>3 DEF Init, IInv, Sent, VariablesOrdered

LEMMA SendStep == IInv /\ recv_sdu => IInv'
<1> SUFFICES ASSUME IInv, recv_sdu PROVE IInv'
  OBVIOUS
<1> USE Widths DEF IInv
<1> DEFINE p == [sn |-> tx_next % SnModulus, count |-> tx_next]
<1>1. tx_next \in Nat /\ tx_next + 1 \in 0..MaxTx /\ tx_next \in 0..MaxTx - 1
  BY DEF TypeOK, recv_sdu
<1>2. p \in PDU
  <2>1. tx_next % SnModulus \in 0..SnModulus - 1 BY <1>1
  <2> QED BY <1>1, <2>1 DEF PDU
<1>3. channel' = channel \cup {p} /\ tx_next' = tx_next + 1 BY DEF recv_sdu
<1>4. p.count = tx_next /\ p.sn = p.count % SnModulus OBVIOUS
<1> HIDE DEF p
<1>5. TypeOK' BY <1>1, <1>2, <1>3 DEF TypeOK, recv_sdu
<1>6. Sent'
  <2> SUFFICES ASSUME NEW q \in channel' PROVE q.count < tx_next + 1 /\ q.sn = q.count % SnModulus
    BY <1>3 DEF Sent
  <2>1. CASE q = p BY <2>1, <1>1, <1>4
  <2>2. CASE q \in channel
    <3>1. q.count \in Int BY <2>2 DEF TypeOK, PDU
    <3> QED BY <2>2, <3>1, <1>1 DEF Sent
  <2> QED BY <2>1, <2>2, <1>3
<1>7. VariablesOrdered' BY <1>1, <1>3 DEF VariablesOrdered, recv_sdu, TypeOK
<1> QED BY <1>5, <1>6, <1>7 DEF recv_sdu

\* Losing and discarding a PDU changes the channel only.
LEMMA DropStep ==
    ASSUME IInv, NEW p \in channel, Lose(p) \/ recv_pdu_discard(p) PROVE IInv'
<1>1. /\ channel' = channel \ {p}
      /\ UNCHANGED <<tx_next, rx_next, rx_deliv, rx_reord, rx_list, t_current,
                     t_reordering_start, delivered>>
  BY DEF Lose, recv_pdu_discard
<1> QED BY <1>1 DEF IInv, TypeOK, Sent, VariablesOrdered

\* What a step hands up is appended to what was handed up before.
Appends == /\ Len(delivered) <= Len(delivered')
           /\ \A i \in 1..Len(delivered) : delivered'[i] = delivered[i]

LEMMA ConcatAppends ==
    ASSUME NEW s \in Seq(SDU), NEW t \in Seq(SDU)
    PROVE  /\ s \o t \in Seq(SDU) /\ Len(s) <= Len(s \o t)
           /\ \A i \in 1..Len(s) : (s \o t)[i] = s[i]
OBVIOUS

LEMMA ToIntType == ASSUME NEW t \in Nat PROVE ToInt(t) \in Int
<1>1. t % IntModulus \in Int /\ IntModulus \in Int BY TimeAssumption
<1> QED BY <1>1 DEF ToInt

LEMMA StoreStep ==
    ASSUME IInv, NEW p \in channel, NEW dup \in BOOLEAN, recv_pdu_store(p, dup)
    PROVE  IInv' /\ Appends
<1> USE DEF IInv
<1> DEFINE c == p.count
           sdu == [count |-> c, id |-> c]
           list == ListAdd(rx_list, sdu)
           n == IF c = rx_deliv THEN ConsecutiveFrom(list, c) ELSE 0
           start == IF rx_deliv + n >= rx_reord THEN 0 ELSE t_reordering_start
           next == IF c >= rx_next THEN c + 1 ELSE rx_next
<1>1. c \in Nat /\ c < tx_next /\ c < CountModulus /\ c \in 0..MaxTx - 1
  BY Widths DEF TypeOK, PDU, Sent
<1>2. rcvd_count(rx_deliv, p.sn) = c
  <2>1. rx_deliv - window_size <= c /\ c < rx_deliv + window_size
    BY DEF recv_pdu_store, InWindow
  <2>2. p.sn = c % SnModulus BY DEF Sent
  <2> QED BY <1>1, <2>1, <2>2, CountReconstruction DEF TypeOK
<1>3. ~(c < rx_deliv) /\ ~InList(rx_list, c)
  BY <1>2 DEF recv_pdu_store
<1>4. /\ channel' \subseteq channel
      /\ rx_next' = next
      /\ delivered' = delivered \o Take(list, n)
      /\ rx_list' = Drop(list, n)
      /\ rx_deliv' = rx_deliv + n
      /\ IF start = 0 /\ rx_deliv' < rx_next'
         THEN rx_reord' = rx_next' /\ t_reordering_start' = ToInt(t_current)
         ELSE rx_reord' = rx_reord /\ t_reordering_start' = start
      /\ UNCHANGED <<tx_next, t_current>>
  BY <1>2 DEF recv_pdu_store
<1>5. sdu \in SDU /\ sdu.count = c /\ sdu.count = sdu.id
  BY <1>1, Widths DEF SDU
<1>6. /\ rx_deliv \in Nat /\ rx_next \in Nat /\ rx_reord \in Nat /\ rx_deliv <= rx_next
      /\ tx_next \in Nat /\ rx_next <= tx_next /\ next \in Nat
      /\ rx_next <= next /\ c < next /\ next <= tx_next
  BY <1>1, Widths DEF TypeOK, VariablesOrdered
<1> HIDE DEF sdu, next, c
<1>7. /\ n \in Nat /\ rx_deliv + n <= next
      /\ Good(Take(list, n), rx_deliv, rx_deliv + n)
      /\ Good(Drop(list, n), rx_deliv + n + 1, next)
  <2>1. CASE c = rx_deliv
    <3>1. Good(list, rx_deliv, next)
      <4>1. rx_deliv + 1 \in Int /\ rx_deliv <= rx_deliv + 1 BY <1>6
      <4>2. sdu.count = rx_deliv BY <1>5, <2>1, Zenon
      <4>3. rx_deliv <= rx_deliv BY <1>6
      <4> QED BY <4>1, <4>2, <4>3, <1>3, <1>5, <1>6, GoodAdd
    <3>2. rx_deliv <= next BY <1>6
    <3> HIDE DEF list
    <3>3. n = ConsecutiveFrom(list, rx_deliv) BY <2>1
    <3> QED BY <3>1, <3>2, <3>3, <1>6, GoodDeliver
  <2>2. CASE c # rx_deliv
    <3>1. rx_deliv + 1 \in Int /\ rx_deliv + 1 <= sdu.count
      BY <1>1, <1>3, <1>5, <1>6, <2>2
    <3>2. Good(list, rx_deliv + 1, next)
      BY <3>1, <1>3, <1>5, <1>6, GoodAdd
    <3> HIDE DEF list
    <3>3. n = 0 /\ n \in 0..Len(list) /\ list \in Seq(SDU) BY <2>2, <3>2 DEF Good
    <3>4. /\ \A k \in 1..n : list[k].count < rx_deliv
          /\ \A k \in n + 1..Len(list) : rx_deliv + 1 <= list[k].count
      BY <3>2, <3>3 DEF Good
    <3> HIDE DEF n
    <3>5. Good(Take(list, n), rx_deliv + 1, rx_deliv) /\ Good(Drop(list, n), rx_deliv + 1, next)
      <4>1. rx_deliv \in Int /\ next \in Int BY <1>6
      <4> QED BY <3>1, <3>2, <3>3, <3>4, <4>1, GoodCut
    <3>6. Good(Take(list, n), rx_deliv, rx_deliv)
      <4>1. Len(Take(list, n)) = 0 BY <3>3, CutFacts
      <4> QED BY <3>5, <4>1, SMTT(60) DEF Good
    <3>7. rx_deliv + 0 = rx_deliv /\ rx_deliv + 0 + 1 = rx_deliv + 1 BY <1>6
    <3> QED BY <3>3, <3>5, <3>6, <3>7, <1>6
  <2> QED BY <2>1, <2>2
<1> HIDE DEF n, list
<1>8. Good(delivered', 0, rx_deliv')
  <2>1. 0 <= rx_deliv /\ rx_deliv <= rx_deliv + n /\ rx_deliv + n \in Int BY <1>6, <1>7
  <2> QED BY <1>4, <1>6, <1>7, <2>1, GoodConcat
<1>9. Good(rx_list', rx_deliv' + 1, rx_next') BY <1>4, <1>7
<1>10. Sent' BY <1>4 DEF Sent
<1>11. t_reordering_start \in Int /\ start \in Int /\ ToInt(t_current) \in Int
  BY ToIntType DEF TypeOK
<1>12. TypeOK'
  <2>1. rx_next' \in Nat /\ rx_deliv' \in Nat /\ rx_reord' \in Nat /\ t_reordering_start' \in Int
    BY <1>4, <1>6, <1>7, <1>11
  <2> QED BY <2>1, <1>4, <1>8, <1>9 DEF TypeOK, Good
<1>13. VariablesOrdered'
  <2>1. rx_deliv' <= rx_next' /\ rx_next' <= tx_next' BY <1>4, <1>6, <1>7
  <2>2. ASSUME t_reordering_start' # 0 PROVE rx_deliv' < rx_reord' /\ rx_reord' <= rx_next'
    <3>1. CASE start = 0 /\ rx_deliv' < rx_next' BY <3>1, <1>4, <1>6
    <3>2. CASE ~(start = 0 /\ rx_deliv' < rx_next')
      <4>1. start # 0 /\ rx_reord' = rx_reord BY <3>2, <2>2, <1>4
      <4>2. t_reordering_start # 0 /\ rx_deliv + n < rx_reord BY <4>1, <1>6, <1>7
      <4> QED BY <4>1, <4>2, <1>4, <1>6 DEF VariablesOrdered
    <3> QED BY <3>1, <3>2
  <2> QED BY <2>1, <2>2 DEF VariablesOrdered
<1>14. Appends
  <2>1. delivered \in Seq(SDU) /\ Take(list, n) \in Seq(SDU) BY <1>7 DEF Good
  <2> QED BY <1>4, <2>1, ConcatAppends DEF Appends
<1> QED BY <1>8, <1>9, <1>10, <1>12, <1>13, <1>14

LEMMA ExpiryStep ==
    ASSUME IInv, NEW now \in Nat, t_current' = now, t_reordering_start # 0,
           t_reordering_expiry, UNCHANGED <<tx_next, channel, rx_next>>
    PROVE  IInv' /\ Appends
<1> USE DEF IInv
<1> DEFINE m == Below(rx_list, rx_reord)
           rest == Drop(rx_list, m)
           n == ConsecutiveFrom(rest, rx_reord)
<1>1. /\ delivered' = (delivered \o Take(rx_list, m)) \o Take(rest, n)
      /\ rx_list' = Drop(rest, n)
      /\ rx_deliv' = rx_reord + n
      /\ IF rx_deliv' < rx_next
         THEN rx_reord' = rx_next /\ t_reordering_start' = ToInt(t_current')
         ELSE rx_reord' = rx_reord /\ t_reordering_start' = 0
  BY DEF t_reordering_expiry
<1>2. /\ rx_deliv \in Nat /\ rx_next \in Nat /\ rx_reord \in Nat /\ tx_next \in Int
      /\ rx_deliv < rx_reord /\ rx_reord <= rx_next /\ rx_next <= tx_next
  BY Widths DEF TypeOK, VariablesOrdered
<1>3. Good(Take(rx_list, m), rx_deliv + 1, rx_reord) /\ Good(rest, rx_reord, rx_next)
  <2>1. rx_deliv + 1 \in Int /\ rx_next \in Int BY <1>2
  <2> QED BY <1>2, <2>1, GoodBelow
<1>4. Good(Take(rx_list, m), rx_deliv, rx_reord)
  BY <1>2, <1>3, ListTypes, SMTT(60) DEF Good
<1> HIDE DEF m, rest
<1>5. /\ n \in Nat /\ rx_reord + n <= rx_next
      /\ Good(Take(rest, n), rx_reord, rx_reord + n)
      /\ Good(Drop(rest, n), rx_reord + n + 1, rx_next)
  BY <1>2, <1>3, GoodDeliver
<1> HIDE DEF n
<1>6. Good(delivered \o Take(rx_list, m), 0, rx_reord)
  BY <1>2, <1>4, GoodConcat
<1>7. Good(delivered', 0, rx_deliv')
  <2>1. 0 <= rx_reord /\ rx_reord <= rx_reord + n /\ rx_reord + n \in Int BY <1>2, <1>5
  <2> QED BY <1>1, <1>2, <1>5, <1>6, <2>1, GoodConcat
<1>8. Good(rx_list', rx_deliv' + 1, rx_next') BY <1>1, <1>5
<1>9. /\ rx_deliv' \in Nat /\ rx_next' \in Nat /\ rx_reord' \in Nat /\ t_current' \in Nat
      /\ t_reordering_start' \in Int /\ rx_deliv' <= rx_next'
  <2>1. ToInt(t_current') \in Int /\ t_current' \in Nat BY ToIntType
  <2>2. rx_deliv' \in Nat /\ rx_next' \in Nat /\ rx_deliv' <= rx_next' BY <1>1, <1>2, <1>5
  <2> QED BY <1>1, <1>2, <2>1, <2>2
<1>10. TypeOK' BY <1>7, <1>8, <1>9 DEF TypeOK, Good
<1>11. VariablesOrdered' BY <1>1, <1>2, <1>9 DEF VariablesOrdered
<1>12. Sent' BY DEF Sent
<1>13. Appends
  <2> DEFINE d == delivered \o Take(rx_list, m)
  <2>1. delivered \in Seq(SDU) /\ Take(rx_list, m) \in Seq(SDU) /\ Take(rest, n) \in Seq(SDU)
    BY <1>4, <1>5 DEF Good
  <2>2. /\ d \in Seq(SDU) /\ Len(delivered) <= Len(d)
        /\ \A i \in 1..Len(delivered) : d[i] = delivered[i]
    BY <2>1, ConcatAppends
  <2> HIDE DEF d
  <2>3. delivered' = d \o Take(rest, n) BY <1>1 DEF d
  <2>4. Len(d) <= Len(delivered') /\ \A i \in 1..Len(d) : delivered'[i] = d[i]
    BY <2>1, <2>2, <2>3, ConcatAppends
  <2>5. Len(delivered) \in Nat /\ Len(d) \in Nat /\ Len(delivered') \in Nat
    BY <2>1, <2>2, <1>7 DEF Good
  <2> QED BY <2>2, <2>4, <2>5 DEF Appends
<1> QED BY <1>7, <1>8, <1>10, <1>11, <1>12, <1>13

LEMMA TickStep == IInv /\ Tick => IInv' /\ Appends
<1> SUFFICES ASSUME IInv, NEW now \in NextTick, set_time(now) PROVE IInv' /\ Appends
  BY DEF Tick
<1>1. now \in Nat BY TimeAssumption DEF NextTick, IInv, TypeOK
<1> DEFINE fires(d) == t_reordering # -1 /\ t_reordering_start # 0 /\ Expired(now, d)
<1>2. PICK deadline \in Deadlines :
        IF fires(deadline)
        THEN t_reordering_expiry
        ELSE UNCHANGED <<rx_deliv, rx_reord, rx_list, t_reordering_start, delivered>>
  BY DEF set_time
<1>3. t_current' = now /\ UNCHANGED <<tx_next, channel, rx_next>>
  BY DEF set_time
<1>4. CASE fires(deadline)
  BY <1>1, <1>2, <1>3, <1>4, ExpiryStep
<1>5. CASE ~fires(deadline)
  <2>1. UNCHANGED <<rx_deliv, rx_reord, rx_list, t_reordering_start, delivered>>
    BY <1>2, <1>5
  <2>2. IInv' BY <1>1, <1>3, <2>1 DEF IInv, TypeOK, Sent, VariablesOrdered
  <2>3. Appends BY <2>1 DEF Appends, IInv, TypeOK
  <2> QED BY <2>2, <2>3
<1> QED BY <1>4, <1>5

LEMMA NextIInv == IInv /\ [Next]_vars => IInv'
<1> SUFFICES ASSUME IInv, [Next]_vars PROVE IInv'
  OBVIOUS
<1>1. CASE UNCHANGED vars BY <1>1 DEF vars, IInv, TypeOK, Sent, VariablesOrdered
<1>2. CASE recv_sdu BY <1>2, SendStep
<1>3. ASSUME NEW p \in channel, Lose(p) \/ recv_pdu_discard(p) PROVE IInv'
  BY <1>3, DropStep
<1>4. ASSUME NEW p \in channel, NEW dup \in BOOLEAN, recv_pdu_store(p, dup) PROVE IInv'
  BY <1>4, StoreStep
<1>5. CASE Tick BY <1>5, TickStep
<1> QED BY <1>1, <1>2, <1>3, <1>4, <1>5 DEF Next

LEMMA Invariance == Spec => []IInv
BY InitIInv, NextIInv, PTL DEF Spec

\* The state variables of both entities keep their types: recv_sdu never counts
\* past its bound, and what recv_pdu stores and delivers are SDUs with a COUNT.
THEOREM TypeCorrect == Spec => []TypeOK
<1>1. IInv => TypeOK BY DEF IInv
<1> QED BY <1>1, Invariance, PTL

\* SDUs are delivered in the order of their COUNT and at most once, for every
\* SN size, t-Reordering value and pattern of losses and duplicates.
THEOREM InOrderTheorem == Spec => []InOrderDelivery
<1>1. IInv => InOrderDelivery BY DEF IInv, Good, InOrderDelivery
<1> QED BY <1>1, Invariance, PTL

\* Every SDU stored or delivered was deciphered with the COUNT it was ciphered
\* with, as long as PDUs arrive within a window of rx_deliv.
THEOREM CountTheorem == Spec => []CountAgreement
<1>1. IInv => CountAgreement BY DEF IInv, Good, CountAgreement
<1> QED BY <1>1, Invariance, PTL

\* No deliverable SDU waits in rx_list.
THEOREM HeldBackTheorem == Spec => []NothingHeldBack
<1>1. IInv => NothingHeldBack
  <2> SUFFICES ASSUME IInv PROVE NothingHeldBack
    OBVIOUS
  <2>1. /\ rx_list \in Seq(SDU) /\ Increasing(rx_list)
        /\ \A i \in 1..Len(rx_list) :
              rx_deliv + 1 <= rx_list[i].count /\ rx_list[i].count < rx_next
    BY DEF IInv, Good
  <2>2. rx_list # <<>> => 1 \in 1..Len(rx_list) /\ Len(rx_list) \in 1..Len(rx_list)
    BY <2>1
  <2>3. \A i \in 1..Len(rx_list) : rx_list[i].count \in Int BY <2>1, ListTypes
  <2> QED BY <2>1, <2>2, <2>3 DEF NothingHeldBack, IInv, TypeOK
<1> QED BY <1>1, Invariance, PTL

\* A running t-Reordering always guards a gap.
THEOREM OrderedTheorem == Spec => []VariablesOrdered
<1>1. IInv => VariablesOrdered BY DEF IInv
<1> QED BY <1>1, Invariance, PTL

-----------------------------------------------------------------------------
(* Refinement.                                                               *)

Out == [i \in DOMAIN delivered |-> delivered[i].id]

\* A step that leaves tx_next alone and only appends to delivered is a
\* delivery of the service: the invariant orders and bounds the result.
LEMMA DeliverRefines ==
    ASSUME IInv, IInv', UNCHANGED tx_next, Appends
    PROVE  Service!Next
<1>1. /\ delivered \in Seq(SDU) /\ delivered' \in Seq(SDU)
      /\ Len(Out) = Len(delivered) /\ Len(Out') = Len(delivered')
      /\ \A i \in 1..Len(delivered) : Out[i] = delivered[i].id
      /\ \A i \in 1..Len(delivered') : Out'[i] = delivered'[i].id
  <2>1. /\ delivered \in Seq(SDU) /\ delivered' \in Seq(SDU)
        /\ Len(delivered) \in Nat /\ Len(delivered') \in Nat
        /\ DOMAIN delivered = 1..Len(delivered) /\ DOMAIN delivered' = 1..Len(delivered')
    BY DEF IInv, Good
  <2>2. Out = [i \in 1..Len(delivered) |-> delivered[i].id] BY <2>1 DEF Out
  <2>3. Out' = [i \in 1..Len(delivered') |-> delivered'[i].id] BY <2>1 DEF Out
  <2> QED BY <2>1, <2>2, <2>3
<1>2. Service!Extends(Out', Out) BY <1>1 DEF Service!Extends, Appends
<1>3. \A i, j \in 1..Len(Out') : i < j => Out'[i] < Out'[j]
  <2>1. \A i \in 1..Len(delivered') : Out'[i] = delivered'[i].count
    BY <1>1 DEF IInv, Good
  <2>2. \A i, j \in 1..Len(delivered') : i < j => delivered'[i].count < delivered'[j].count
    BY <1>1, IncreasingList DEF IInv, Good
  <2> QED BY <1>1, <2>1, <2>2
<1>4. \A i \in 1..Len(Out') : Out'[i] < tx_next
  <2>1. rx_deliv' <= rx_next' /\ rx_next' <= tx_next /\ rx_deliv' \in Nat /\ rx_next' \in Nat
        /\ tx_next \in Int
    BY Widths DEF IInv, VariablesOrdered, TypeOK
  <2>2. \A i \in 1..Len(delivered') : /\ delivered'[i].count < rx_deliv'
                                      /\ Out'[i] = delivered'[i].count
                                      /\ delivered'[i].count \in Int
    BY <1>1, ListTypes DEF IInv, Good
  <2> QED BY <1>1, <2>1, <2>2
<1> QED BY <1>2, <1>3, <1>4 DEF Service!Next, Service!Deliver, Out

LEMMA StepRefines == IInv /\ IInv' /\ [Next]_vars => [Service!Next]_<<tx_next, Out>>
<1> SUFFICES ASSUME IInv, IInv', [Next]_vars PROVE [Service!Next]_<<tx_next, Out>>
  OBVIOUS
<1> USE DEF Out
<1>1. ASSUME UNCHANGED <<tx_next, delivered>> PROVE [Service!Next]_<<tx_next, Out>>
  BY <1>1
<1>2. CASE recv_sdu BY <1>2 DEF recv_sdu, Service!Next, Service!Submit
<1>3. ASSUME NEW p \in channel, Lose(p) \/ recv_pdu_discard(p)
      PROVE [Service!Next]_<<tx_next, Out>>
  BY <1>1, <1>3 DEF Lose, recv_pdu_discard
<1>4. ASSUME NEW p \in channel, NEW dup \in BOOLEAN, recv_pdu_store(p, dup)
      PROVE [Service!Next]_<<tx_next, Out>>
  <2>1. UNCHANGED tx_next BY <1>4 DEF recv_pdu_store
  <2> QED BY <1>4, <2>1, StoreStep, DeliverRefines
<1>5. CASE Tick
  <2>1. UNCHANGED tx_next BY <1>5 DEF Tick, set_time
  <2> QED BY <1>5, <2>1, TickStep, DeliverRefines
<1> QED BY <1>1, <1>2, <1>3, <1>4, <1>5 DEF Next, vars

\* Initial states map to initial states, and every step of the bearer is a
\* submission, a delivery or a stutter of the in-order service.
THEOREM RefinementTheorem == Spec => ImplementsService
<1>1. Init => Service!Init
  <2> SUFFICES ASSUME Init PROVE Service!Init
    OBVIOUS
  <2>1. tx_next \in Nat BY CountAssumption DEF Init
  <2>2. [i \in DOMAIN delivered |-> delivered[i].id] = <<>> BY DEF Init
  <2> QED BY <2>1, <2>2 DEF Service!Init
<1>2. IInv /\ IInv' /\ [Next]_vars
      => [Service!Next]_<<tx_next, [i \in DOMAIN delivered |-> delivered[i].id]>>
  BY StepRefines DEF Out
<1> QED BY <1>1, <1>2, Invariance, PTL DEF Spec, ImplementsService, Service!Spec
=============================================================================
