--------------------------- MODULE NrDlHarqProofs ---------------------------
(***************************************************************************)
(* The downlink HARQ lists of NrDlHarq stay intact and the processes live  *)
(* as HarqProcs says, for every number of processes and rounds, every slot *)
(* structure and every order of transmissions, answers and losses.         *)
(*                                                                         *)
(* The first part is about the lists alone: for every length, each         *)
(* operation of NrList takes a list that represents a sequence to one that *)
(* represents the expected sequence.  NrUlHarq models its lists as         *)
(* sequences on the strength of these theorems.                            *)
(***************************************************************************)
EXTENDS NrDlHarq, TLAPS

Holds(s, k, p) == \E i \in 1 .. k : s[i] = p

(* The list l of ids below n holds the k ids of s in their order.          *)
Represents(l, s, k, n) ==
    /\ k \in Nat /\ s \in [1 .. k -> 0 .. n - 1]
    /\ \A i, j \in 1 .. k : s[i] = s[j] => i = j
    /\ l.next \in [0 .. n - 1 -> -1 .. n - 1]
    /\ l.head = IF k = 0 THEN -1 ELSE s[1]
    /\ l.tail = IF k = 0 THEN -1 ELSE s[k]
    /\ \A i \in 1 .. k : l.next[s[i]] = IF i = k THEN -1 ELSE s[i + 1]
    /\ \A p \in 0 .. n - 1 : ~Holds(s, k, p) => l.next[p] = -1

(* The sequence with one more element, and without its i-th.               *)
With(s, k, id) == [j \in 1 .. k + 1 |-> IF j = k + 1 THEN id ELSE s[j]]
Without(s, k, i) == [j \in 1 .. k - 1 |-> IF j < i THEN s[j] ELSE s[j + 1]]

(* create_nr_list makes the empty list.                                    *)
THEOREM CreateList ==
    ASSUME NEW n \in Nat
    PROVE  Represents(create_nr_list(n), <<>>, 0, n)
BY DEF Represents, create_nr_list, Holds

(* add_tail_nr_list appends, if the id is not in the list yet.             *)
THEOREM AddTail ==
    ASSUME NEW n \in Nat, NEW s, NEW k, NEW l, Represents(l, s, k, n),
           NEW id \in 0 .. n - 1, ~Holds(s, k, id)
    PROVE  Represents(add_tail_nr_list(l, id), With(s, k, id), k + 1, n)
<1> DEFINE t == With(s, k, id)
           h == l.head
           x == l.next
           z == l.tail
           linked == IF z < 0 THEN x ELSE [x EXCEPT ![z] = id]
           y == [linked EXCEPT ![id] = -1]
           m == add_tail_nr_list(l, id)
           Id == 0 .. n - 1
           Link == -1 .. n - 1
<1>1. k \in Nat /\ s \in [1 .. k -> Id] /\ x \in [Id -> Link] /\ id \in Id
  BY DEF Represents
<1>2. \A i, j \in 1 .. k : s[i] = s[j] => i = j
  BY DEF Represents
<1>3. /\ h = IF k = 0 THEN -1 ELSE s[1]
      /\ z = IF k = 0 THEN -1 ELSE s[k]
  BY DEF Represents
<1>4. \A i \in 1 .. k : x[s[i]] = IF i = k THEN -1 ELSE s[i + 1]
  BY DEF Represents
<1>5. \A p \in Id : ~Holds(s, k, p) => x[p] = -1
  BY DEF Represents
<1>6. m.head = (IF z < 0 THEN id ELSE h) /\ m.next = y /\ m.tail = id
  BY DEF add_tail_nr_list
<1> HIDE DEF m, h, x, z
<1>7. \A i \in 1 .. k : s[i] \in Id /\ s[i] # id /\ s[i] >= 0
  BY <1>1 DEF Holds
<1>8. /\ t \in [1 .. k + 1 -> Id] /\ t[k + 1] = id
      /\ \A i \in 1 .. k : t[i] = s[i]
  BY <1>1, <1>7 DEF With
<1> HIDE DEF t
<1>9. linked \in [Id -> Link]
  <2>1. id \in Link
    BY <1>1
  <2> QED BY <1>1, <2>1
<1>10. \A p \in Id : linked[p] = IF k > 0 /\ p = s[k] THEN id ELSE x[p]
  <2>1. CASE k = 0
    BY <1>1, <1>3, <2>1
  <2>2. CASE k > 0
    <3>1. z = s[k] /\ z \in Id /\ ~(z < 0)
      BY <1>1, <1>3, <1>7, <2>2
    <3> QED BY <1>1, <2>2, <3>1
  <2> QED BY <1>1, <2>1, <2>2
<1> HIDE DEF linked
<1>11. /\ y \in [Id -> Link] /\ y[id] = -1
       /\ \A p \in Id : p # id => y[p] = linked[p]
  BY <1>1, <1>9
<1> HIDE DEF y
<1>12. \A i, j \in 1 .. k + 1 : t[i] = t[j] => i = j
  <2> SUFFICES ASSUME NEW i \in 1 .. k + 1, NEW j \in 1 .. k + 1, t[i] = t[j] PROVE i = j
    OBVIOUS
  <2>1. i \in 1 .. k \/ i = k + 1
    BY <1>1
  <2>2. j \in 1 .. k \/ j = k + 1
    BY <1>1
  <2> QED BY <1>2, <1>7, <1>8, <2>1, <2>2
<1>13. m.head = t[1]
  <2>1. CASE k = 0
    BY <1>3, <1>6, <1>8, <2>1
  <2>2. CASE k > 0
    <3>1. 1 \in 1 .. k /\ k \in 1 .. k
      BY <1>1, <2>2
    <3> QED BY <1>3, <1>6, <1>7, <1>8, <2>2, <3>1
  <2> QED BY <1>1, <2>1, <2>2
<1>14. \A i \in 1 .. k + 1 : m.next[t[i]] = IF i = k + 1 THEN -1 ELSE t[i + 1]
  <2> SUFFICES ASSUME NEW i \in 1 .. k + 1
               PROVE  y[t[i]] = IF i = k + 1 THEN -1 ELSE t[i + 1]
    BY <1>6
  <2>1. CASE i = k + 1
    BY <1>8, <1>11, <2>1
  <2>2. CASE i = k
    <3>1. k \in 1 .. k /\ k > 0 /\ k # k + 1
      BY <1>1, <2>2
    <3>2. y[s[k]] = linked[s[k]] /\ linked[s[k]] = id
      BY <1>7, <1>10, <1>11, <3>1
    <3> QED BY <1>8, <2>2, <3>1, <3>2
  <2>3. CASE i < k
    <3>1. i \in 1 .. k /\ k \in 1 .. k /\ i + 1 \in 1 .. k /\ i # k /\ i # k + 1
      BY <1>1, <2>3
    <3>2. s[i] # s[k] /\ x[s[i]] = s[i + 1]
      BY <1>2, <1>4, <3>1
    <3>3. y[s[i]] = linked[s[i]] /\ linked[s[i]] = x[s[i]]
      BY <1>7, <1>10, <1>11, <3>1, <3>2
    <3> QED BY <1>8, <3>1, <3>2, <3>3
  <2> QED BY <1>1, <2>1, <2>2, <2>3
<1>15. \A p \in Id : ~Holds(t, k + 1, p) => m.next[p] = -1
  <2> SUFFICES ASSUME NEW p \in Id, ~Holds(t, k + 1, p) PROVE y[p] = -1
    BY <1>6
  <2>1. k + 1 \in 1 .. k + 1 /\ \A i \in 1 .. k : i \in 1 .. k + 1
    BY <1>1
  <2>2. p # id /\ ~Holds(s, k, p)
    BY <1>8, <2>1 DEF Holds
  <2>3. k > 0 => p # s[k]
    BY <1>1, <2>2 DEF Holds
  <2> QED BY <1>5, <1>10, <1>11, <2>2, <2>3
<1>16. k + 1 \in Nat /\ k + 1 # 0
  BY <1>1
<1>17. Represents(m, t, k + 1, n)
  BY <1>6, <1>8, <1>11, <1>12, <1>13, <1>14, <1>15, <1>16 DEF Represents
<1> QED BY <1>17 DEF m, t

(* The arithmetic of an index that is not next to the removed one.         *)
LEMMA FarBefore ==
    ASSUME NEW a \in Int, NEW i \in Int, NEW k \in Int, a > 0, a < i - 1, i <= k
    PROVE  i > 1 /\ a + 1 < i /\ a < i /\ a # i /\ a # i - 1 /\ a # k /\ a # k - 1
OBVIOUS

(* What both removals come to: the i-th id is unlinked, the id before it   *)
(* (or the head) takes over its link, and the tail moves if it was last.   *)
LEMMA Unlinked ==
    ASSUME NEW n \in Nat, NEW s, NEW k, NEW l, Represents(l, s, k, n),
           NEW i \in 1 .. k, NEW m,
           m.next \in [0 .. n - 1 -> -1 .. n - 1],
           m.next[s[i]] = -1,
           i > 1 => m.next[s[i - 1]] = l.next[s[i]],
           \A p \in 0 .. n - 1 :
               p # s[i] /\ (i > 1 => p # s[i - 1]) => m.next[p] = l.next[p],
           m.head = IF i = 1 THEN l.next[s[1]] ELSE l.head,
           m.tail = IF i < k THEN l.tail ELSE IF k = 1 THEN -1 ELSE s[k - 1]
    PROVE  Represents(m, Without(s, k, i), k - 1, n)
<1> DEFINE t == Without(s, k, i)
           x == l.next
           y == m.next
           Id == 0 .. n - 1
           Link == -1 .. n - 1
<1>1. /\ k \in Nat /\ i \in Nat /\ k > 0 /\ i > 0 /\ i <= k
      /\ s \in [1 .. k -> Id] /\ x \in [Id -> Link] /\ y \in [Id -> Link]
  <2>1. k \in Nat /\ s \in [1 .. k -> Id] /\ x \in [Id -> Link]
    BY DEF Represents
  <2>2. i \in Nat /\ k > 0 /\ i > 0 /\ i <= k
    BY <2>1
  <2> QED BY <2>1, <2>2
<1>2. \A a, b \in 1 .. k : s[a] = s[b] => a = b
  BY DEF Represents
<1>3. l.head = s[1] /\ l.tail = s[k]
  BY <1>1 DEF Represents
<1>4. \A a \in 1 .. k : x[s[a]] = IF a = k THEN -1 ELSE s[a + 1]
  BY DEF Represents
<1>5. \A p \in Id : ~Holds(s, k, p) => x[p] = -1
  BY DEF Represents
<1>6. /\ y[s[i]] = -1 /\ (i > 1 => y[s[i - 1]] = x[s[i]])
      /\ \A p \in Id : p # s[i] /\ (i > 1 => p # s[i - 1]) => y[p] = x[p]
  OBVIOUS
<1> HIDE DEF x, y
<1>7. /\ t \in [1 .. k - 1 -> Id] /\ k - 1 \in Nat
      /\ \A a \in 1 .. k - 1 : a < i => t[a] = s[a] /\ a \in 1 .. k
      /\ \A a \in 1 .. k - 1 : ~(a < i) => t[a] = s[a + 1] /\ a + 1 \in 1 .. k
  <2>1. \A a \in 1 .. k - 1 : a \in 1 .. k /\ a + 1 \in 1 .. k
    BY <1>1
  <2>2. k - 1 \in Nat
    BY <1>1
  <2> QED BY <1>1, <2>1, <2>2 DEF Without
<1> HIDE DEF t
<1>8. \A a, b \in 1 .. k - 1 : t[a] = t[b] => a = b
  <2> SUFFICES ASSUME NEW a \in 1 .. k - 1, NEW b \in 1 .. k - 1, t[a] = t[b] PROVE a = b
    OBVIOUS
  <2>1. a \in Int /\ b \in Int
    BY <1>1
  <2>2. CASE a < i /\ b < i
    <3>1. a \in 1 .. k /\ b \in 1 .. k /\ s[a] = s[b]
      BY <1>7, <2>2
    <3> QED BY <1>2, <3>1
  <2>3. CASE ~(a < i) /\ ~(b < i)
    <3>1. a + 1 \in 1 .. k /\ b + 1 \in 1 .. k /\ s[a + 1] = s[b + 1]
      BY <1>7, <2>3
    <3>2. a + 1 = b + 1
      BY <1>2, <3>1
    <3> QED BY <2>1, <3>2
  <2>4. CASE a < i /\ ~(b < i)
    <3>1. a \in 1 .. k /\ b + 1 \in 1 .. k /\ s[a] = s[b + 1]
      BY <1>7, <2>4
    <3>2. a = b + 1
      BY <1>2, <3>1
    <3> QED BY <1>1, <2>1, <2>4, <3>2
  <2>5. CASE ~(a < i) /\ b < i
    <3>1. a + 1 \in 1 .. k /\ b \in 1 .. k /\ s[a + 1] = s[b]
      BY <1>7, <2>5
    <3>2. a + 1 = b
      BY <1>2, <3>1
    <3> QED BY <1>1, <2>1, <2>5, <3>2
  <2> QED BY <2>2, <2>3, <2>4, <2>5
<1>9. m.head = IF k - 1 = 0 THEN -1 ELSE t[1]
  <2>1. m.head = IF i = 1 THEN x[s[1]] ELSE s[1]
    BY <1>3 DEF x
  <2>2. 1 \in 1 .. k /\ x[s[1]] = IF 1 = k THEN -1 ELSE s[2]
    BY <1>1, <1>4
  <2>3. CASE k = 1
    <3>1. i = 1
      BY <1>1, <2>3
    <3> QED BY <2>1, <2>2, <2>3, <3>1
  <2>4. CASE k > 1
    <3>1. 1 \in 1 .. k - 1 /\ k - 1 # 0 /\ (1 < i <=> i # 1) /\ 1 # k /\ 1 + 1 = 2
      BY <1>1, <2>4
    <3> QED BY <1>7, <2>1, <2>2, <3>1
  <2> QED BY <1>1, <2>3, <2>4
<1>10. m.tail = IF k - 1 = 0 THEN -1 ELSE t[k - 1]
  <2>1. m.tail = IF i < k THEN s[k] ELSE IF k = 1 THEN -1 ELSE s[k - 1]
    BY <1>3
  <2>2. CASE k = 1
    BY <1>1, <2>1, <2>2
  <2>3. CASE k > 1
    <3>1. /\ k - 1 \in 1 .. k - 1 /\ k - 1 # 0 /\ k # 1 /\ (k - 1) + 1 = k
          /\ (i < k <=> ~(k - 1 < i))
      BY <1>1, <2>3, SMTT(60)
    <3> QED BY <1>7, <2>1, <3>1
  <2> QED BY <1>1, <2>2, <2>3
<1>11. \A a \in 1 .. k - 1 : y[t[a]] = IF a = k - 1 THEN -1 ELSE t[a + 1]
  <2> SUFFICES ASSUME NEW a \in 1 .. k - 1
               PROVE  y[t[a]] = IF a = k - 1 THEN -1 ELSE t[a + 1]
    OBVIOUS
  <2>1. CASE ~(a < i)
    <3>0. a \in Int /\ a + 1 # i /\ i \in 1 .. k /\ (i > 1 => i - 1 \in 1 .. k /\ a + 1 # i - 1)
      BY <1>1, <2>1
    <3>1. a + 1 \in 1 .. k /\ t[a] = s[a + 1]
      BY <1>7, <2>1
    <3>2. s[a + 1] \in Id /\ s[a + 1] # s[i] /\ (i > 1 => s[a + 1] # s[i - 1])
      BY <1>1, <1>2, <3>0, <3>1
    <3>3. y[t[a]] = IF a + 1 = k THEN -1 ELSE s[(a + 1) + 1]
      BY <1>4, <1>6, <3>1, <3>2, ZenonT(60)
    <3>4. (a + 1 = k <=> a = k - 1) /\ (a # k - 1 => a + 1 \in 1 .. k - 1 /\ ~(a + 1 < i))
      BY <1>1, <2>1
    <3> QED BY <1>7, <3>3, <3>4
  <2>2. CASE a = i - 1
    <3>1. a < i /\ i > 1 /\ i \in 1 .. k /\ (i = k <=> a = k - 1) /\ a + 1 = i
          /\ (a # k - 1 => i \in 1 .. k - 1 /\ ~(i < i))
      BY <1>1, <2>2
    <3>2. y[t[a]] = IF i = k THEN -1 ELSE s[i + 1]
      BY <1>4, <1>6, <1>7, <2>2, <3>1
    <3> QED BY <1>7, <3>1, <3>2
  <2>3. CASE a < i - 1
    <3>0. a \in Nat /\ a > 0 /\ i \in 1 .. k /\ a \in Int /\ i \in Int /\ k \in Int /\ i <= k
      BY <1>1
    <3>a. i > 1 /\ a + 1 < i /\ a < i /\ a # i /\ a # i - 1 /\ a # k /\ a # k - 1
      BY <2>3, <3>0, FarBefore, Zenon
    <3>b. a \in 1 .. k /\ i - 1 \in 1 .. k /\ a + 1 \in 1 .. k - 1
      BY <1>1, <3>0, <3>a
    <3>1. /\ a \in 1 .. k /\ i \in 1 .. k /\ i - 1 \in 1 .. k /\ a # i /\ a # i - 1
          /\ a + 1 \in 1 .. k - 1 /\ a + 1 < i /\ a < i /\ a # k /\ a # k - 1 /\ i > 1
      BY <3>0, <3>a, <3>b
    <3>2. s[a] \in Id /\ s[a] # s[i] /\ s[a] # s[i - 1]
      BY <1>1, <1>2, <3>1
    <3>3. y[s[a]] = s[a + 1]
      BY <1>4, <1>6, <3>1, <3>2
    <3> QED BY <1>7, <3>1, <3>3
  <2> QED BY <1>1, <2>1, <2>2, <2>3
<1>12. \A p \in Id : ~Holds(t, k - 1, p) => y[p] = -1
  <2> SUFFICES ASSUME NEW p \in Id, ~Holds(t, k - 1, p), p # s[i] PROVE y[p] = -1
    BY <1>6
  <2>1. ~Holds(s, k, p)
    <3> SUFFICES ASSUME NEW a \in 1 .. k, s[a] = p PROVE FALSE
      BY DEF Holds
    <3>1. a # i
      OBVIOUS
    <3>2. CASE a < i
      <4>1. a \in 1 .. k - 1
        BY <1>1, <3>2
      <4> QED BY <1>7, <3>2, <4>1 DEF Holds
    <3>3. CASE a > i
      <4>1. a - 1 \in 1 .. k - 1 /\ ~(a - 1 < i) /\ (a - 1) + 1 = a
        BY <1>1, <3>3
      <4> QED BY <1>7, <4>1 DEF Holds
    <3> QED BY <1>1, <3>1, <3>2, <3>3
  <2>2. i > 1 => p # s[i - 1]
    <3> SUFFICES ASSUME i > 1 PROVE p # s[i - 1]
      OBVIOUS
    <3>1. i - 1 \in 1 .. k
      BY <1>1
    <3> QED BY <2>1, <3>1 DEF Holds
  <2> QED BY <1>5, <1>6, <2>1, <2>2
<1>13. Represents(m, t, k - 1, n)
  BY <1>1, <1>7, <1>8, <1>9, <1>10, <1>11, <1>12 DEF Represents, y
<1> QED BY <1>13 DEF t

(* remove_front_nr_list takes the first id away.                           *)
THEOREM RemoveFront ==
    ASSUME NEW n \in Nat, NEW s, NEW k, NEW l, Represents(l, s, k, n), k > 0
    PROVE  Represents(remove_front_nr_list(l), Without(s, k, 1), k - 1, n)
<1> DEFINE m == remove_front_nr_list(l)
           x == l.next
           Id == 0 .. n - 1
           Link == -1 .. n - 1
<1>1. k \in Nat /\ s \in [1 .. k -> Id] /\ x \in [Id -> Link] /\ l.head = s[1]
  BY DEF Represents
<1>2. x[s[1]] = IF 1 = k THEN -1 ELSE s[2]
  BY <1>1 DEF Represents
<1>3. /\ m.head = x[l.head] /\ m.next = [x EXCEPT ![l.head] = -1]
      /\ m.tail = IF x[l.head] < 0 THEN -1 ELSE l.tail
  BY DEF remove_front_nr_list
<1> HIDE DEF m, x
<1>4. 1 \in 1 .. k /\ s[1] \in Id /\ (k # 1 => s[2] \in Id)
  BY <1>1
<1>5. /\ m.next \in [Id -> Link] /\ m.next[s[1]] = -1
      /\ \A p \in Id : p # s[1] => m.next[p] = x[p]
  BY <1>1, <1>3, <1>4
<1>6. m.tail = IF 1 < k THEN l.tail ELSE IF k = 1 THEN -1 ELSE s[k - 1]
  BY <1>1, <1>2, <1>3, <1>4
<1>7. m.head = IF 1 = 1 THEN x[s[1]] ELSE l.head
  BY <1>1, <1>3
<1>8. Represents(m, Without(s, k, 1), k - 1, n)
  BY <1>4, <1>5, <1>6, <1>7, Unlinked, SMTT(60) DEF x
<1> QED BY <1>8 DEF m

(* remove_nr_list takes an id of the list away, wherever it is.            *)
THEOREM RemoveId ==
    ASSUME NEW n \in Nat, NEW s, NEW k, NEW l, Represents(l, s, k, n), NEW i \in 1 .. k
    PROVE  Represents(remove_nr_list(l, s[i]), Without(s, k, i), k - 1, n)
<1> DEFINE id == s[i]
           m == remove_nr_list(l, id)
           x == l.next
           Id == 0 .. n - 1
           Link == -1 .. n - 1
           before == CHOOSE q \in Ids(l) : l.next[q] = id
           next == IF l.head = id THEN [l.next EXCEPT ![id] = -1]
                   ELSE [l.next EXCEPT ![before] = l.next[id], ![id] = -1]
           prev == IF l.head = id THEN l.next[id] ELSE before
<1>1. k \in Nat /\ s \in [1 .. k -> Id] /\ x \in [Id -> Link]
  BY DEF Represents
<1>2. \A a, b \in 1 .. k : s[a] = s[b] => a = b
  BY DEF Represents
<1>3. \A a \in 1 .. k : x[s[a]] = IF a = k THEN -1 ELSE s[a + 1]
  BY DEF Represents
<1>4. \A p \in Id : ~Holds(s, k, p) => x[p] = -1
  BY DEF Represents
<1>5. i \in Nat /\ i > 0 /\ i <= k /\ k > 0 /\ 1 \in 1 .. k /\ k \in 1 .. k
  BY <1>1
<1>6. l.head = s[1] /\ l.tail = s[k] /\ \A a \in 1 .. k : s[a] \in Id /\ s[a] >= 0
  BY <1>1, <1>5 DEF Represents
<1>7. l.head = id <=> i = 1
  BY <1>2, <1>5, <1>6
<1>8. i > 1 => before = s[i - 1]
  <2> SUFFICES ASSUME i > 1 PROVE before = s[i - 1]
    OBVIOUS
  <2>1. i - 1 \in 1 .. k /\ i - 1 # k /\ (i - 1) + 1 = i
    BY <1>5
  <2>2. Ids(l) = Id
    BY <1>1 DEF Ids
  <2>3. s[i - 1] \in Id /\ x[s[i - 1]] = id
    BY <1>3, <1>6, <2>1
  <2>4. \A q \in Id : x[q] = id => q = s[i - 1]
    <3> SUFFICES ASSUME NEW q \in Id, x[q] = id PROVE q = s[i - 1]
      OBVIOUS
    <3>1. Holds(s, k, q)
      BY <1>4, <1>6
    <3>2. PICK a \in 1 .. k : s[a] = q
      BY <3>1 DEF Holds
    <3>3. a # k /\ s[a + 1] = s[i]
      BY <1>3, <1>6, <3>2
    <3>4. a + 1 \in 1 .. k /\ a \in Int
      BY <1>1, <3>3
    <3>5. a + 1 = i
      BY <1>2, <3>3, <3>4
    <3>6. a = i - 1
      BY <1>5, <3>4, <3>5
    <3> QED BY <3>2, <3>6
  <2> QED BY <2>2, <2>3, <2>4 DEF x
<1>9. /\ m.head = IF l.head = id THEN x[id] ELSE l.head
      /\ m.next = next
      /\ m.tail = IF prev >= 0 /\ next[prev] >= 0 THEN l.tail ELSE prev
  BY DEF remove_nr_list
<1> HIDE DEF m, before
<1>10. CASE i = 1
  <2>1. next = [x EXCEPT ![id] = -1] /\ prev = x[id]
    BY <1>7, <1>10
  <2> HIDE DEF next, prev, x, id
  <2>2. id \in Id /\ id = s[1] /\ (id = s[i])
    BY <1>6, <1>10 DEF id
  <2>3. next \in [Id -> Link] /\ next[id] = -1 /\ \A p \in Id : p # id => next[p] = x[p]
    BY <1>1, <2>1, <2>2
  <2>4. x[id] = IF 1 = k THEN -1 ELSE s[2]
    <3>1. 1 + 1 = 2
      OBVIOUS
    <3> QED BY <1>3, <1>5, <2>2, <3>1
  <2>5. m.tail = IF i < k THEN l.tail ELSE IF k = 1 THEN -1 ELSE s[k - 1]
    <3>1. CASE k = 1
      BY <1>9, <1>10, <2>1, <2>4, <3>1
    <3>2. CASE k = 2
      <4>1. 2 \in 1 .. k /\ 2 # 1
        BY <3>2
      <4>2. s[2] # id /\ s[2] \in Id /\ prev = s[2]
        BY <1>2, <1>5, <1>6, <2>1, <2>2, <2>4, <3>2, <4>1
      <4>3. next[prev] = -1
        BY <1>3, <2>3, <3>2, <4>1, <4>2
      <4> QED BY <1>6, <1>9, <1>10, <3>2, <4>2, <4>3
    <3>3. CASE k > 2
      <4>1. 2 \in 1 .. k /\ 3 \in 1 .. k /\ 2 # 1 /\ 2 # k /\ 1 # k /\ 2 + 1 = 3
        BY <1>1, <3>3
      <4>2. s[2] # id /\ s[2] \in Id /\ s[2] >= 0 /\ prev = s[2]
        BY <1>2, <1>5, <1>6, <2>1, <2>2, <2>4, <4>1
      <4>3. next[prev] = s[3] /\ s[3] >= 0
        BY <1>3, <1>6, <2>3, <4>1, <4>2
      <4> QED BY <1>1, <1>9, <1>10, <3>3, <4>2, <4>3
    <3> QED BY <1>1, <1>5, <3>1, <3>2, <3>3
  <2>6. m.head = IF i = 1 THEN x[s[1]] ELSE l.head
    BY <1>7, <1>9, <1>10, <2>2
  <2>7. ~(i > 1)
    BY <1>10
  <2> QED BY <1>9, <2>2, <2>3, <2>5, <2>6, <2>7, Unlinked DEF x, m, id
<1>11. CASE i > 1
  <2>0. i - 1 \in 1 .. k /\ i - 1 # i /\ i # 1
    BY <1>5, <1>11
  <2>1. before \in Id /\ id \in Id /\ before # id /\ before = s[i - 1]
    BY <1>2, <1>6, <1>8, <1>11, <2>0
  <2>2. next = [x EXCEPT ![before] = x[id], ![id] = -1] /\ prev = before
    BY <1>7, <2>0
  <2> HIDE DEF next, prev, x, id
  <2>3. /\ next \in [Id -> Link] /\ next[id] = -1 /\ next[before] = x[id]
        /\ \A p \in Id : p # id /\ p # before => next[p] = x[p]
    <3> DEFINE v == x[id]
               w == [x EXCEPT ![before] = v]
    <3>1. v \in Link /\ next = [w EXCEPT ![id] = -1] /\ -1 \in Link
      BY <1>1, <2>1, <2>2
    <3> HIDE DEF v, Link, Id
    <3>2. w \in [Id -> Link] /\ w[before] = v /\ \A p \in Id : p # before => w[p] = x[p]
      BY <1>1, <2>1, <3>1
    <3> HIDE DEF w
    <3>3. /\ next \in [Id -> Link] /\ next[id] = -1
          /\ \A p \in Id : p # id => next[p] = w[p]
      BY <2>1, <3>1, <3>2
    <3> QED BY <2>1, <3>2, <3>3 DEF v
  <2>4. x[id] = IF i = k THEN -1 ELSE s[i + 1]
    BY <1>3 DEF id
  <2>5. m.tail = IF i < k THEN l.tail ELSE IF k = 1 THEN -1 ELSE s[k - 1]
    <3>1. CASE i = k
      <4>1. ~(i < k) /\ k # 1 /\ k - 1 = i - 1
        BY <1>5, <1>11, <3>1
      <4> QED BY <1>9, <2>1, <2>2, <2>3, <2>4, <3>1, <4>1
    <3>2. CASE i < k
      <4>1. i + 1 \in 1 .. k /\ i # k
        BY <1>5, <3>2
      <4>2. before >= 0 /\ next[before] >= 0
        BY <1>6, <2>0, <2>1, <2>3, <2>4, <4>1
      <4> QED BY <1>9, <2>2, <3>2, <4>2
    <3> QED BY <1>5, <3>1, <3>2
  <2>6. m.head = IF i = 1 THEN x[s[1]] ELSE l.head
    BY <1>7, <1>9, <2>0
  <2>7. /\ m.next \in [0 .. n - 1 -> -1 .. n - 1] /\ m.next[s[i]] = -1
        /\ i > 1 => m.next[s[i - 1]] = l.next[s[i]]
        /\ \A p \in 0 .. n - 1 :
              p # s[i] /\ (i > 1 => p # s[i - 1]) => m.next[p] = l.next[p]
    BY <1>9, <1>11, <2>1, <2>3 DEF x, id
  <2>8. m.head = IF i = 1 THEN l.next[s[1]] ELSE l.head
    BY <2>6 DEF x
  <2>9. Represents(m, Without(s, k, i), k - 1, n)
    BY <2>5, <2>7, <2>8, Unlinked
  <2> QED BY <2>9 DEF m, id
<1> QED BY <1>5, <1>10, <1>11 DEF m
-----------------------------------------------------------------------------
Elements(s, k) == {s[i] : i \in 1 .. k}

(* The list l holds the ids of the set S.                                  *)
IsList(l, S) == \E s, k : Represents(l, s, k, NProcs) /\ S = Elements(s, k)

LEMMA NProcsNat == NProcs \in Nat /\ NProcs > 0 /\ Procs = 0 .. NProcs - 1
BY DlHarqAssumption DEF Procs

(* What IsList says of the links.                                          *)
LEMMA ListLinks ==
    ASSUME NEW l, NEW S, IsList(l, S)
    PROVE  /\ S \subseteq Procs
           /\ \A p \in Procs : In(p, l) <=> p \in S
           /\ l.head = -1 \/ l.head \in S
           /\ TailLast(l)
<1>1. PICK s, k : Represents(l, s, k, NProcs) /\ S = Elements(s, k)
  BY DEF IsList
<1>2. /\ k \in Nat /\ s \in [1 .. k -> Procs] /\ l.next \in [Procs -> -1 .. NProcs - 1]
      /\ l.head = IF k = 0 THEN -1 ELSE s[1]
      /\ l.tail = IF k = 0 THEN -1 ELSE s[k]
  BY <1>1, NProcsNat DEF Represents
<1>3. \A i \in 1 .. k : l.next[s[i]] = IF i = k THEN -1 ELSE s[i + 1]
  BY <1>1 DEF Represents
<1>4. \A p \in Procs : ~Holds(s, k, p) => l.next[p] = -1
  BY <1>1, NProcsNat DEF Represents
<1>5. S \subseteq Procs
  BY <1>1, <1>2 DEF Elements
<1>6. \A p \in S : p >= 0
  BY <1>5, NProcsNat
<1>7. \A p \in Procs : In(p, l) => p \in S
  <2> SUFFICES ASSUME NEW p \in Procs, In(p, l) PROVE p \in S
    OBVIOUS
  <2>0. p >= 0
    BY NProcsNat
  <2>1. CASE l.head = p
    <3>1. k # 0 /\ p = s[1] /\ 1 \in 1 .. k
      BY <1>2, <2>0, <2>1
    <3> QED BY <1>1, <3>1 DEF Elements
  <2>2. CASE \E q \in Procs : l.next[q] = p
    <3>1. PICK q \in Procs : l.next[q] = p
      BY <2>2
    <3>2. Holds(s, k, q)
      BY <1>4, <2>0, <3>1
    <3>3. PICK i \in 1 .. k : s[i] = q
      BY <3>2 DEF Holds
    <3>4. i # k /\ p = s[i + 1]
      BY <1>3, <2>0, <3>1, <3>3
    <3>5. i + 1 \in 1 .. k
      BY <1>2, <3>4
    <3> QED BY <1>1, <3>4, <3>5 DEF Elements
  <2> QED BY <2>1, <2>2 DEF In
<1>8. \A p \in S : In(p, l)
  <2> SUFFICES ASSUME NEW i \in 1 .. k PROVE In(s[i], l)
    BY <1>1 DEF Elements
  <2>1. CASE i = 1
    <3>1. l.head = s[1]
      BY <1>2, <2>1
    <3> QED BY <2>1, <3>1 DEF In
  <2>2. CASE i > 1
    <3>1. i - 1 \in 1 .. k /\ i - 1 # k /\ (i - 1) + 1 = i
      BY <1>2, <2>2
    <3>2. s[i - 1] \in Procs /\ l.next[s[i - 1]] = s[i]
      BY <1>2, <1>3, <3>1
    <3> QED BY <3>2 DEF In
  <2> QED BY <1>2, <2>1, <2>2
<1>9. l.head = -1 \/ l.head \in S
  <2>1. k # 0 => 1 \in 1 .. k
    BY <1>2
  <2> QED BY <1>1, <1>2, <2>1 DEF Elements
<1>10. TailLast(l)
  <2>1. CASE k = 0
    BY <1>2, <2>1 DEF TailLast
  <2>2. CASE k # 0
    <3>1. 1 \in 1 .. k /\ k \in 1 .. k
      BY <1>2, <2>2
    <3>2. s[k] \in S /\ s[1] \in S
      BY <1>1, <3>1 DEF Elements
    <3>3. l.head = s[1] /\ l.tail = s[k] /\ l.next[s[k]] = -1
      BY <1>2, <1>3, <2>2, <3>1
    <3>4. s[k] \in Procs /\ In(s[k], l) /\ s[1] \in Procs
      BY <1>5, <1>8, <3>2
    <3>5. ~(l.head < 0)
      BY <3>3, <3>4, NProcsNat
    <3> QED BY <3>3, <3>4, <3>5 DEF TailLast
  <2> QED BY <2>1, <2>2
<1> QED BY <1>5, <1>7, <1>8, <1>9, <1>10

(* The operations of NrList, on the sets of ids.                           *)
LEMMA AddTailSet ==
    ASSUME NEW l, NEW S, IsList(l, S), NEW p \in Procs, p \notin S
    PROVE  IsList(add_tail_nr_list(l, p), S \cup {p})
<1>1. PICK s, k : Represents(l, s, k, NProcs) /\ S = Elements(s, k)
  BY DEF IsList
<1>2. ~Holds(s, k, p)
  BY <1>1 DEF Holds, Elements
<1>3. Represents(add_tail_nr_list(l, p), With(s, k, p), k + 1, NProcs)
  BY <1>1, <1>2, NProcsNat, AddTail
<1>4. k \in Nat
  BY <1>1 DEF Represents
<1>5. Elements(With(s, k, p), k + 1) = S \cup {p}
  <2>1. \A i \in 1 .. k + 1 : With(s, k, p)[i] = IF i = k + 1 THEN p ELSE s[i]
    BY DEF With
  <2>2. k + 1 \in 1 .. k + 1 /\ \A i \in 1 .. k : i \in 1 .. k + 1 /\ i # k + 1
    BY <1>4
  <2>3. \A i \in 1 .. k + 1 : i = k + 1 \/ i \in 1 .. k
    BY <1>4
  <2> QED BY <1>1, <2>1, <2>2, <2>3 DEF Elements
<1> QED BY <1>3, <1>5 DEF IsList

LEMMA WithoutSet ==
    ASSUME NEW l, NEW s, NEW k, Represents(l, s, k, NProcs), NEW i \in 1 .. k
    PROVE  Elements(Without(s, k, i), k - 1) = Elements(s, k) \ {s[i]}
<1>1. k \in Nat /\ \A a, b \in 1 .. k : s[a] = s[b] => a = b
  BY DEF Represents
<1> DEFINE t == Without(s, k, i)
<1>2. \A a \in 1 .. k - 1 : t[a] = IF a < i THEN s[a] ELSE s[a + 1]
  BY DEF Without
<1> HIDE DEF t
<1>3. \A a \in 1 .. k - 1 : t[a] \in Elements(s, k) \ {s[i]}
  <2> SUFFICES ASSUME NEW a \in 1 .. k - 1 PROVE t[a] \in Elements(s, k) \ {s[i]}
    OBVIOUS
  <2>1. CASE a < i
    <3>1. a \in 1 .. k /\ a # i
      BY <1>1, <2>1
    <3> QED BY <1>1, <1>2, <2>1, <3>1 DEF Elements
  <2>2. CASE ~(a < i)
    <3>1. a + 1 \in 1 .. k /\ a + 1 # i
      BY <1>1, <2>2
    <3> QED BY <1>1, <1>2, <2>2, <3>1 DEF Elements
  <2> QED BY <2>1, <2>2
<1>4. \A a \in 1 .. k : a # i => \E b \in 1 .. k - 1 : t[b] = s[a]
  <2> SUFFICES ASSUME NEW a \in 1 .. k, a # i PROVE \E b \in 1 .. k - 1 : t[b] = s[a]
    OBVIOUS
  <2>1. CASE a < i
    <3>1. a \in 1 .. k - 1
      BY <1>1, <2>1
    <3> QED BY <1>2, <2>1, <3>1
  <2>2. CASE a > i
    <3>1. a - 1 \in 1 .. k - 1 /\ ~(a - 1 < i) /\ (a - 1) + 1 = a
      BY <1>1, <2>2
    <3> QED BY <1>2, <3>1
  <2> QED BY <1>1, <2>1, <2>2
<1>5. Elements(t, k - 1) \subseteq Elements(s, k) \ {s[i]}
  BY <1>3 DEF Elements
<1>6. Elements(s, k) \ {s[i]} \subseteq Elements(t, k - 1)
  BY <1>4 DEF Elements
<1> QED BY <1>5, <1>6 DEF t

LEMMA RemoveFrontSet ==
    ASSUME NEW l, NEW S, IsList(l, S), l.head >= 0
    PROVE  l.head \in S /\ IsList(remove_front_nr_list(l), S \ {l.head})
<1>1. PICK s, k : Represents(l, s, k, NProcs) /\ S = Elements(s, k)
  BY DEF IsList
<1>2. k \in Nat /\ k > 0 /\ 1 \in 1 .. k /\ l.head = s[1]
  BY <1>1 DEF Represents
<1>3. Represents(remove_front_nr_list(l), Without(s, k, 1), k - 1, NProcs)
  BY <1>1, <1>2, NProcsNat, RemoveFront
<1>4. Elements(Without(s, k, 1), k - 1) = S \ {l.head}
  BY <1>1, <1>2, WithoutSet
<1>5. l.head \in S
  BY <1>1, <1>2 DEF Elements
<1> QED BY <1>3, <1>4, <1>5 DEF IsList

LEMMA RemoveSet ==
    ASSUME NEW l, NEW S, IsList(l, S), NEW p \in S
    PROVE  IsList(remove_nr_list(l, p), S \ {p})
<1>1. PICK s, k : Represents(l, s, k, NProcs) /\ S = Elements(s, k)
  BY DEF IsList
<1>2. PICK i \in 1 .. k : p = s[i]
  BY <1>1 DEF Elements
<1>3. Represents(remove_nr_list(l, p), Without(s, k, i), k - 1, NProcs)
  BY <1>1, <1>2, NProcsNat, RemoveId
<1>4. Elements(Without(s, k, i), k - 1) = S \ {p}
  BY <1>1, <1>2, WithoutSet
<1> QED BY <1>3, <1>4 DEF IsList

-----------------------------------------------------------------------------
(* A process, whatever the time of its feedback.  (The times come out of a *)
(* search that is a recursive function, about which nothing is needed.)    *)
Harq(T) == [round : 0 .. RoundMax - 1, ndi : {0, 1}, is_waiting : BOOLEAN, feedback : T]

(* Where the state of a process says that it is.                           *)
Waiting(h) == {p \in Procs : h[p].is_waiting}
Again(h) == {p \in Procs : ~h[p].is_waiting /\ h[p].round > 0}
Free(h) == {p \in Procs : ~h[p].is_waiting /\ h[p].round = 0}

(* The inductive invariant: the lists hold what the processes say.         *)
IInv ==
    /\ \E T : harq_processes \in [Procs -> Harq(T)]
    /\ IsList(available_dl_harq, Free(harq_processes))
    /\ IsList(feedback_dl_harq, Waiting(harq_processes))
    /\ IsList(retrans_dl_harq, Again(harq_processes))

LEMMA SentHarq ==
    ASSUME NEW T, NEW h \in Harq(T), NEW t
    PROVE  /\ Sent(h, t) \in Harq(T \cup {t}) /\ Sent(h, t).is_waiting = TRUE
           /\ Sent(h, t).round = h.round /\ Sent(h, t).ndi = h.ndi
BY DEF Sent, Harq

LEMMA ReleasedHarq ==
    ASSUME NEW T, NEW h \in Harq(T)
    PROVE  /\ Released(h) \in Harq(T \cup {NoTime}) /\ Released(h).is_waiting = FALSE
           /\ Released(h).round = 0 /\ Released(h).ndi = 1 - h.ndi
<1>1. RoundMax \in Nat \ {0}
  BY DlHarqAssumption
<1>2. 0 \in 0 .. RoundMax - 1 /\ h.ndi \in {0, 1} /\ 1 - h.ndi \in {0, 1}
  BY <1>1 DEF Harq
<1> QED BY <1>2 DEF Released, Harq

LEMMA NextRoundHarq ==
    ASSUME NEW T, NEW h \in Harq(T), ~LastRound(h)
    PROVE  /\ NextRound(h) \in Harq(T \cup {NoTime}) /\ NextRound(h).is_waiting = FALSE
           /\ NextRound(h).round = h.round + 1 /\ NextRound(h).ndi = h.ndi
           /\ h.round + 1 < RoundMax /\ h.round \in Nat
<1>1. RoundMax \in Nat \ {0}
  BY DlHarqAssumption
<1>2. h.round \in 0 .. RoundMax - 1
  BY DEF Harq
<1>3. h.round + 1 \in 0 .. RoundMax - 1 /\ h.round + 1 < RoundMax /\ h.round \in Nat
  BY <1>1, <1>2 DEF LastRound
<1> QED BY <1>3 DEF NextRound, Harq

LEMMA IInvInit == Init => IInv
<1> SUFFICES ASSUME Init PROVE IInv
  OBVIOUS
<1> DEFINE h == harq_processes
           l == available_dl_harq
           s == [i \in 1 .. NProcs |-> i - 1]
<1>1. h \in [Procs -> Harq({NoTime})] /\ \A p \in Procs : ~h[p].is_waiting /\ h[p].round = 0
  <2>1. 0 \in 0 .. RoundMax - 1
    BY DlHarqAssumption
  <2> QED BY <2>1 DEF Init, Harq
<1>2. Free(h) = Procs /\ Waiting(h) = {} /\ Again(h) = {}
  BY <1>1 DEF Free, Waiting, Again
<1>3. IsList(create_nr_list(NProcs), {})
  <2>1. Elements(<<>>, 0) = {}
    BY DEF Elements
  <2> QED BY <2>1, CreateList, NProcsNat DEF IsList
<1>4. /\ l.head = 0 /\ l.tail = NProcs - 1
      /\ l.next = [p \in 0 .. NProcs - 1 |-> IF p = NProcs - 1 THEN -1 ELSE p + 1]
  BY NProcsNat DEF Init
<1> HIDE DEF l
<1>5. /\ s \in [1 .. NProcs -> 0 .. NProcs - 1] /\ s[1] = 0 /\ s[NProcs] = NProcs - 1
      /\ \A i \in 1 .. NProcs : s[i] = i - 1
  BY NProcsNat
<1> HIDE DEF s
<1>6. \A i, j \in 1 .. NProcs : s[i] = s[j] => i = j
  BY <1>5, NProcsNat
<1>7. l.next \in [0 .. NProcs - 1 -> -1 .. NProcs - 1]
  BY <1>4, NProcsNat
<1>8. \A i \in 1 .. NProcs : l.next[s[i]] = IF i = NProcs THEN -1 ELSE s[i + 1]
  <2> SUFFICES ASSUME NEW i \in 1 .. NProcs
               PROVE  l.next[s[i]] = IF i = NProcs THEN -1 ELSE s[i + 1]
    OBVIOUS
  <2>1. s[i] = i - 1 /\ i - 1 \in 0 .. NProcs - 1 /\ (i - 1 = NProcs - 1 <=> i = NProcs)
    BY <1>5, NProcsNat
  <2>2. l.next[i - 1] = IF i - 1 = NProcs - 1 THEN -1 ELSE (i - 1) + 1
    BY <1>4, <2>1
  <2>3. i # NProcs => i + 1 \in 1 .. NProcs /\ s[i + 1] = (i + 1) - 1 /\ (i - 1) + 1 = (i + 1) - 1
    BY <1>5, NProcsNat
  <2> QED BY <2>1, <2>2, <2>3
<1>9. \A p \in 0 .. NProcs - 1 : p + 1 \in 1 .. NProcs /\ s[p + 1] = p
  BY <1>5, NProcsNat
<1>10. Represents(l, s, NProcs, NProcs)
  <2>1. \A p \in 0 .. NProcs - 1 : Holds(s, NProcs, p)
    BY <1>9 DEF Holds
  <2>2. NProcs # 0 /\ NProcs \in Nat
    BY NProcsNat
  <2> QED BY <1>4, <1>5, <1>6, <1>7, <1>8, <2>1, <2>2 DEF Represents
<1>11. Elements(s, NProcs) = Procs
  BY <1>5, <1>9, NProcsNat DEF Elements
<1>12. IsList(l, Procs)
  BY <1>10, <1>11 DEF IsList
<1> QED BY <1>1, <1>2, <1>3, <1>12 DEF IInv, Init, l

(* nr_schedule_ue_spec: one process starts to wait.                        *)
LEMMA SendFacts ==
    ASSUME IInv, nr_schedule_ue_spec
    PROVE  /\ IInv'
           /\ \E pid \in Procs :
                /\ ~harq_processes[pid].is_waiting
                /\ harq_processes'[pid].is_waiting
                /\ harq_processes'[pid].round = harq_processes[pid].round
                /\ harq_processes'[pid].ndi = harq_processes[pid].ndi
                /\ \A q \in Procs : q # pid => harq_processes'[q] = harq_processes[q]
<1> DEFINE h == harq_processes
           again == retrans_dl_harq.head >= 0
<1>1. PICK T : h \in [Procs -> Harq(T)]
  BY DEF IInv
<1>2. /\ IsList(available_dl_harq, Free(h)) /\ IsList(feedback_dl_harq, Waiting(h))
      /\ IsList(retrans_dl_harq, Again(h))
  BY DEF IInv
<1>3. PICK pid, t :
        /\ pid = IF again THEN retrans_dl_harq.head ELSE available_dl_harq.head
        /\ IF again
             THEN IF h[pid].round = 0
                    THEN /\ available_dl_harq' = remove_nr_list(available_dl_harq, pid)
                         /\ UNCHANGED retrans_dl_harq
                    ELSE /\ retrans_dl_harq' = remove_nr_list(retrans_dl_harq, pid)
                         /\ UNCHANGED available_dl_harq
             ELSE /\ available_dl_harq' = remove_front_nr_list(available_dl_harq)
                  /\ UNCHANGED retrans_dl_harq
        /\ feedback_dl_harq' = add_tail_nr_list(feedback_dl_harq, pid)
        /\ h' = [h EXCEPT ![pid] = Sent(@, t)]
  BY DEF nr_schedule_ue_spec
<1>4. again \/ available_dl_harq.head >= 0
  BY DEF nr_schedule_ue_spec, Wanted
<1>5. again => pid \in Again(h)
  BY <1>2, <1>3, RemoveFrontSet
<1>6. ~again => pid \in Free(h) /\ IsList(available_dl_harq', Free(h) \ {pid})
  BY <1>2, <1>3, <1>4, RemoveFrontSet
<1>7. again => IsList(retrans_dl_harq', Again(h) \ {pid}) /\ UNCHANGED available_dl_harq
  BY <1>2, <1>3, <1>5, RemoveSet DEF Again
<1>8. pid \in Procs /\ ~h[pid].is_waiting
  BY <1>5, <1>6 DEF Again, Free
<1>9. pid \notin Waiting(h)
  BY <1>8 DEF Waiting
<1>10. IsList(feedback_dl_harq', Waiting(h) \cup {pid})
  BY <1>2, <1>3, <1>8, <1>9, AddTailSet
<1>11. /\ h' \in [Procs -> Harq(T \cup {t})]
       /\ h'[pid].is_waiting /\ h'[pid].round = h[pid].round /\ h'[pid].ndi = h[pid].ndi
       /\ \A q \in Procs : q # pid => h'[q] = h[q]
  <2>1. h[pid] \in Harq(T) /\ Harq(T) \subseteq Harq(T \cup {t})
    BY <1>1, <1>8 DEF Harq
  <2>2. /\ Sent(h[pid], t) \in Harq(T \cup {t}) /\ Sent(h[pid], t).is_waiting = TRUE
        /\ Sent(h[pid], t).round = h[pid].round /\ Sent(h[pid], t).ndi = h[pid].ndi
    BY <2>1, SentHarq, ZenonT(60)
  <2>3. h' = [h EXCEPT ![pid] = Sent(h[pid], t)]
    BY <1>3
  <2> DEFINE R == Harq(T)
             R2 == Harq(T \cup {t})
             v == Sent(h[pid], t)
  <2> HIDE DEF R, R2, v
  <2>4. h \in [Procs -> R] /\ R \subseteq R2 /\ v \in R2 /\ h' = [h EXCEPT ![pid] = v]
    BY <1>1, <2>1, <2>2, <2>3 DEF R, R2, v
  <2>5. h' \in [Procs -> R2] /\ h'[pid] = v /\ \A q \in Procs : q # pid => h'[q] = h[q]
    BY <1>8, <2>4
  <2> QED BY <2>2, <2>5 DEF R2, v
<1>12. Waiting(h') = Waiting(h) \cup {pid}
  BY <1>8, <1>11 DEF Waiting
<1>13. Again(h') = Again(h) \ {pid}
  BY <1>8, <1>11 DEF Again
<1>14. Free(h') = Free(h) \ {pid}
  BY <1>8, <1>11 DEF Free
<1>15. IsList(available_dl_harq', Free(h'))
  <2>1. CASE again
    <3>1. pid \notin Free(h)
      BY <1>1, <1>5, <2>1 DEF Again, Free, Harq
    <3>2. Free(h') = Free(h)
      BY <1>14, <3>1
    <3> QED BY <1>2, <1>7, <2>1, <3>2
  <2>2. CASE ~again
    BY <1>6, <1>14, <2>2
  <2> QED BY <2>1, <2>2
<1>16. IsList(retrans_dl_harq', Again(h'))
  <2>1. CASE again
    BY <1>7, <1>13, <2>1
  <2>2. CASE ~again
    <3>1. pid \notin Again(h)
      BY <1>1, <1>6, <2>2 DEF Again, Free, Harq
    <3>2. Again(h') = Again(h) /\ UNCHANGED retrans_dl_harq
      BY <1>3, <1>13, <2>2, <3>1
    <3> QED BY <1>2, <3>2
  <2> QED BY <2>1, <2>2
<1>17. IsList(feedback_dl_harq', Waiting(h'))
  BY <1>10, <1>12
<1>18. (\E U : harq_processes \in [Procs -> Harq(U)])'
  BY <1>11 DEF Harq
<1>19. IInv'
  BY <1>15, <1>16, <1>17, <1>18 DEF IInv, IsList, Waiting, Again, Free, Represents, Elements
<1> QED BY <1>8, <1>11, <1>19

(* handle_dl_harq: the process at the head stops waiting, and is free or   *)
(* has one more round.                                                     *)
LEMMA AnswerFacts ==
    ASSUME IInv, NEW ok, feedback_dl_harq.head >= 0, handle_dl_harq(ok)
    PROVE  /\ IInv'
           /\ \E pid \in Procs :
                /\ harq_processes[pid].is_waiting
                /\ ~harq_processes'[pid].is_waiting
                /\ \A q \in Procs : q # pid => harq_processes'[q] = harq_processes[q]
                /\ \/ /\ harq_processes'[pid].round = 0
                      /\ harq_processes'[pid].ndi = 1 - harq_processes[pid].ndi
                   \/ /\ harq_processes'[pid].round = harq_processes[pid].round + 1
                      /\ harq_processes[pid].round + 1 < RoundMax
                      /\ harq_processes[pid].round \in Nat
                      /\ harq_processes'[pid].ndi = harq_processes[pid].ndi
<1> DEFINE h == harq_processes
           pid == feedback_dl_harq.head
           free == ok \/ LastRound(h[pid])
           v == IF free THEN Released(h[pid]) ELSE NextRound(h[pid])
<1>1. PICK T : h \in [Procs -> Harq(T)]
  BY DEF IInv
<1>2. /\ IsList(available_dl_harq, Free(h)) /\ IsList(feedback_dl_harq, Waiting(h))
      /\ IsList(retrans_dl_harq, Again(h))
  BY DEF IInv
<1>3. /\ feedback_dl_harq' = remove_front_nr_list(feedback_dl_harq)
      /\ free => /\ available_dl_harq' = add_tail_nr_list(available_dl_harq, pid)
                 /\ UNCHANGED retrans_dl_harq
      /\ ~free => /\ retrans_dl_harq' = add_tail_nr_list(retrans_dl_harq, pid)
                  /\ UNCHANGED available_dl_harq
      /\ h' = [h EXCEPT ![pid] = v]
  BY DEF handle_dl_harq
<1>4. pid \in Waiting(h) /\ IsList(feedback_dl_harq', Waiting(h) \ {pid})
  BY <1>2, <1>3, RemoveFrontSet
<1>5. pid \in Procs /\ h[pid].is_waiting /\ pid \notin Free(h) /\ pid \notin Again(h)
  BY <1>4 DEF Waiting, Free, Again
<1>6. h[pid] \in Harq(T)
  BY <1>1, <1>5
<1>7. v \in Harq(T \cup {NoTime}) /\ v.is_waiting = FALSE
  BY <1>6, ReleasedHarq, NextRoundHarq
<1>8. free => v.round = 0 /\ v.ndi = 1 - h[pid].ndi
  BY <1>6, ReleasedHarq
<1>9. ~free => /\ v.round = h[pid].round + 1 /\ v.ndi = h[pid].ndi
               /\ h[pid].round + 1 < RoundMax /\ h[pid].round \in Nat
  BY <1>6, NextRoundHarq
<1>10. /\ h' \in [Procs -> Harq(T \cup {NoTime})] /\ h'[pid] = v
       /\ \A q \in Procs : q # pid => h'[q] = h[q]
  <2> DEFINE R == Harq(T)
             R2 == Harq(T \cup {NoTime})
  <2>1. R \subseteq R2
    BY DEF Harq
  <2> HIDE DEF R, R2, v
  <2>2. h \in [Procs -> R] /\ v \in R2
    BY <1>1, <1>7 DEF R, R2
  <2>3. h' \in [Procs -> R2] /\ h'[pid] = v /\ \A q \in Procs : q # pid => h'[q] = h[q]
    BY <1>3, <1>5, <2>1, <2>2
  <2> QED BY <2>3 DEF R2
<1> HIDE DEF v, free, pid
<1>11. Waiting(h') = Waiting(h) \ {pid}
  BY <1>5, <1>7, <1>10 DEF Waiting
<1>12. Free(h') = IF free THEN Free(h) \cup {pid} ELSE Free(h)
  <2>1. ~free => v.round # 0
    BY <1>9
  <2> QED BY <1>5, <1>7, <1>8, <1>10, <2>1 DEF Free
<1>13. Again(h') = IF free THEN Again(h) ELSE Again(h) \cup {pid}
  <2>1. (~free => v.round > 0) /\ (free => ~(v.round > 0))
    BY <1>8, <1>9
  <2> QED BY <1>5, <1>7, <1>10, <2>1 DEF Again
<1>14. IsList(available_dl_harq', Free(h'))
  <2>1. CASE free
    <3>1. IsList(add_tail_nr_list(available_dl_harq, pid), Free(h) \cup {pid})
      BY <1>2, <1>5, AddTailSet
    <3>2. available_dl_harq' = add_tail_nr_list(available_dl_harq, pid)
      BY <1>3, <2>1
    <3> QED BY <1>12, <2>1, <3>1, <3>2
  <2>2. CASE ~free
    BY <1>2, <1>3, <1>12, <2>2
  <2> QED BY <2>1, <2>2
<1>15. IsList(retrans_dl_harq', Again(h'))
  <2>1. CASE free
    BY <1>2, <1>3, <1>13, <2>1
  <2>2. CASE ~free
    <3>1. IsList(add_tail_nr_list(retrans_dl_harq, pid), Again(h) \cup {pid})
      BY <1>2, <1>5, AddTailSet
    <3>2. retrans_dl_harq' = add_tail_nr_list(retrans_dl_harq, pid)
      BY <1>3, <2>2
    <3> QED BY <1>13, <2>2, <3>1, <3>2
  <2> QED BY <2>1, <2>2
<1>16. IsList(feedback_dl_harq', Waiting(h'))
  BY <1>4, <1>11
<1>17. (\E U : harq_processes \in [Procs -> Harq(U)])'
  BY <1>10 DEF Harq
<1>18. IInv'
  BY <1>14, <1>15, <1>16, <1>17 DEF IInv, IsList, Waiting, Again, Free, Represents, Elements
<1>19. h[pid].is_waiting /\ ~h'[pid].is_waiting /\ h'[pid].round = v.round /\ h'[pid].ndi = v.ndi
  BY <1>5, <1>7, <1>10
<1> QED BY <1>5, <1>8, <1>9, <1>10, <1>18, <1>19

(* The other actions leave the lists and the processes alone.              *)
LEMMA QuietStep ==
    ASSUME IInv, UNCHANGED <<lists, harq_processes>>
    PROVE  IInv'
<1> DEFINE h == harq_processes
<1>1. /\ available_dl_harq' = available_dl_harq /\ feedback_dl_harq' = feedback_dl_harq
      /\ retrans_dl_harq' = retrans_dl_harq /\ h' = h
  BY DEF lists
<1>2. /\ IsList(available_dl_harq', Free(h')) /\ IsList(feedback_dl_harq', Waiting(h'))
      /\ IsList(retrans_dl_harq', Again(h'))
  BY <1>1 DEF IInv
<1>3. (\E U : harq_processes \in [Procs -> Harq(U)])'
  BY <1>1 DEF IInv, Harq
<1> QED BY <1>2, <1>3 DEF IInv, IsList, Waiting, Again, Free, Represents, Elements

LEMMA QuietActions ==
    ASSUME \/ slot_idle \/ slot_no_pucch \/ handle_nr_uci_pucch_0_1 \/ lose
           \/ UNCHANGED vars
    PROVE  UNCHANGED <<lists, harq_processes>>
BY DEF slot_idle, slot_no_pucch, handle_nr_uci_pucch_0_1, lose, vars

LEMMA IInvNext == ASSUME IInv, [Next]_vars PROVE IInv'
<1>1. CASE nr_schedule_ue_spec
  BY <1>1, SendFacts
<1>2. CASE skip_missed
  BY <1>2, AnswerFacts DEF skip_missed
<1>3. CASE harq_bit
  BY <1>3, AnswerFacts DEF harq_bit
<1>4. CASE \/ slot_idle \/ slot_no_pucch \/ handle_nr_uci_pucch_0_1 \/ lose
           \/ UNCHANGED vars
  BY <1>4, QuietActions, QuietStep
<1> QED BY <1>1, <1>2, <1>3, <1>4 DEF Next

LEMMA Invariance == Spec => []IInv
BY IInvInit, IInvNext, PTL DEF Spec

(* The clock of the scheduler and the count of lost reports.               *)
Clock == frame \in 0 .. Frames - 1 /\ slot \in 0 .. Slots - 1 /\ lost \in 0 .. MaxLost

LEMMA DivMod ==
    ASSUME NEW a \in Int, NEW n \in Nat \ {0}
    PROVE  a % n \in 0 .. n - 1 /\ a \div n \in Int
OBVIOUS

LEMMA NextSlot ==
    ASSUME Clock PROVE After(1).frame \in 0 .. Frames - 1 /\ After(1).slot \in 0 .. Slots - 1
<1>1. Slots \in Nat \ {0} /\ Frames \in Nat \ {0} /\ frame \in Int /\ slot \in Int
  BY DlHarqAssumption DEF Clock
<1>2. Linear(frame, slot) + 1 \in Int /\ slot + 1 \in Int
  BY <1>1 DEF Linear
<1>3. (Linear(frame, slot) + 1) \div Slots \in Int
  BY <1>1, <1>2, DivMod
<1>4. ((Linear(frame, slot) + 1) \div Slots) % Frames \in 0 .. Frames - 1
  BY <1>1, <1>3, DivMod
<1>5. (slot + 1) % Slots \in 0 .. Slots - 1
  BY <1>1, <1>2, DivMod
<1> QED BY <1>4, <1>5 DEF After

LEMMA EndOfSlot ==
    ASSUME Clock, NEW p, NEW reqs, end_of_slot(p, reqs), UNCHANGED lost PROVE Clock'
<1>1. frame' = After(1).frame /\ slot' = After(1).slot
  BY DEF end_of_slot
<1> QED BY <1>1, NextSlot DEF Clock

LEMMA ClockNext == ASSUME Clock, [Next]_vars PROVE Clock'
<1>1. CASE slot_idle
  BY <1>1, EndOfSlot DEF slot_idle
<1>2. CASE slot_no_pucch
  BY <1>2, EndOfSlot DEF slot_no_pucch
<1>3. CASE nr_schedule_ue_spec
  BY <1>3, EndOfSlot DEF nr_schedule_ue_spec
<1>4. CASE handle_nr_uci_pucch_0_1
  BY <1>4 DEF handle_nr_uci_pucch_0_1, Clock
<1>5. CASE skip_missed
  BY <1>5 DEF skip_missed, handle_dl_harq, Clock
<1>6. CASE harq_bit
  BY <1>6 DEF harq_bit, handle_dl_harq, Clock
<1>7. CASE lose
  BY <1>7, DlHarqAssumption DEF lose, Clock
<1>8. CASE UNCHANGED vars
  BY <1>8 DEF vars, Clock
<1> QED BY <1>1, <1>2, <1>3, <1>4, <1>5, <1>6, <1>7, <1>8 DEF Next

(* The time stays within the frames, the rounds below harq_round_max:      *)
(* handle_dl_harq gives up a block in time, whatever reports are lost.     *)
THEOREM DlHarqTypes == Spec => []TypeOK
<1>1. Init => Clock
  BY DlHarqAssumption, SMTT(60) DEF Init, Clock
<1>2. Clock /\ [Next]_vars => Clock'
  BY ClockNext
<1>3. Clock /\ IInv => TypeOK
  BY DEF Clock, IInv, Harq, TypeOK
<1> QED BY <1>1, <1>2, <1>3, Invariance, PTL DEF Spec

(* What the invariant says of the links.                                   *)
LEMMA Places ==
    ASSUME IInv
    PROVE  /\ \A p \in Procs :
                /\ In(p, feedback_dl_harq) <=> p \in Waiting(harq_processes)
                /\ In(p, retrans_dl_harq) <=> p \in Again(harq_processes)
                /\ In(p, available_dl_harq) <=> p \in Free(harq_processes)
           /\ TailLast(available_dl_harq) /\ TailLast(feedback_dl_harq)
           /\ TailLast(retrans_dl_harq)
BY ListLinks DEF IInv

(* In every state each downlink HARQ process is in exactly one of the      *)
(* three lists, whose links and tails are intact, and waits exactly while  *)
(* it is in feedback_dl_harq: nr_schedule_ue_spec, find_harq and           *)
(* handle_dl_harq never lose a process or put it into two lists.           *)
THEOREM DlHarqOneList == Spec => []OneList
<1>1. IInv => OneList
  <2> SUFFICES ASSUME IInv PROVE OneList
    OBVIOUS
  <2>1. PICK T : harq_processes \in [Procs -> Harq(T)]
    BY DEF IInv
  <2>2. RoundMax \in Nat \ {0}
    BY DlHarqAssumption
  <2>3. \A p \in Procs : /\ harq_processes[p].round \in 0 .. RoundMax - 1
                         /\ harq_processes[p].is_waiting \in BOOLEAN
    BY <2>1 DEF Harq
  <2>4. \A p \in Procs : harq_processes[p].round > 0 \/ harq_processes[p].round = 0
    BY <2>2, <2>3
  <2>5. \A p \in Procs : ~(harq_processes[p].round > 0 /\ harq_processes[p].round = 0)
    BY <2>2, <2>3
  <2> QED BY <2>3, <2>4, <2>5, Places DEF OneList, Waiting, Again, Free
<1> QED BY <1>1, Invariance, PTL
-----------------------------------------------------------------------------
(* The refinement.                                                         *)
place == [p \in Procs |-> IF In(p, feedback_dl_harq) THEN "feedback"
                          ELSE IF In(p, retrans_dl_harq) THEN "retrans" ELSE "available"]
round == [p \in Procs |-> harq_processes[p].round]
ndi == [p \in Procs |-> harq_processes[p].ndi]

(* The place of a process is what its state says.                          *)
PlaceOf(h, p) == IF p \in Waiting(h) THEN "feedback"
                 ELSE IF p \in Again(h) THEN "retrans" ELSE "available"

LEMMA PlaceIs == ASSUME IInv PROVE place = [p \in Procs |-> PlaceOf(harq_processes, p)]
BY Places DEF place, PlaceOf

LEMMA PlaceIsPrime ==
    ASSUME IInv' PROVE place' = [p \in Procs |-> PlaceOf(harq_processes', p)]
<1>1. \A p \in Procs : /\ In(p, feedback_dl_harq)' <=> p \in Waiting(harq_processes')
                       /\ In(p, retrans_dl_harq)' <=> p \in Again(harq_processes')
  BY ListLinks DEF IInv
<1> QED BY <1>1 DEF place, PlaceOf

LEMMA SendRefines == ASSUME IInv, nr_schedule_ue_spec PROVE HarqService!Next
<1> DEFINE h == harq_processes
<1>1. PICK pid \in Procs :
        /\ ~h[pid].is_waiting /\ h'[pid].is_waiting
        /\ h'[pid].round = h[pid].round /\ h'[pid].ndi = h[pid].ndi
        /\ \A q \in Procs : q # pid => h'[q] = h[q]
  BY SendFacts
<1>2. IInv'
  BY SendFacts
<1>3. /\ place = [p \in Procs |-> PlaceOf(h, p)]
      /\ place' = [p \in Procs |-> PlaceOf(h', p)]
  BY <1>2, PlaceIs, PlaceIsPrime
<1>4. place[pid] # "feedback"
  BY <1>1, <1>3 DEF PlaceOf, Waiting
<1>5. place' = [place EXCEPT ![pid] = "feedback"]
  <2>1. PlaceOf(h', pid) = "feedback"
    BY <1>1 DEF PlaceOf, Waiting
  <2>2. \A q \in Procs : q # pid => PlaceOf(h', q) = PlaceOf(h, q)
    BY <1>1 DEF PlaceOf, Waiting, Again
  <2> QED BY <1>3, <2>1, <2>2
<1>6. round' = round /\ ndi' = ndi
  BY <1>1 DEF round, ndi
<1>7. HarqService!Send(pid)
  BY <1>4, <1>5, <1>6 DEF HarqService!Send, place, round, ndi
<1>8. \E p \in Procs : HarqService!Send(p) \/ HarqService!Release(p) \/ HarqService!Again(p)
  BY <1>7
<1> QED BY <1>8 DEF HarqService!Next

LEMMA AnswerRefines ==
    ASSUME IInv, NEW ok, feedback_dl_harq.head >= 0, handle_dl_harq(ok)
    PROVE  HarqService!Next
<1> DEFINE h == harq_processes
<1>1. PICK pid \in Procs :
        /\ h[pid].is_waiting /\ ~h'[pid].is_waiting
        /\ \A q \in Procs : q # pid => h'[q] = h[q]
        /\ \/ h'[pid].round = 0 /\ h'[pid].ndi = 1 - h[pid].ndi
           \/ /\ h'[pid].round = h[pid].round + 1 /\ h[pid].round + 1 < RoundMax
              /\ h[pid].round \in Nat /\ h'[pid].ndi = h[pid].ndi
  BY AnswerFacts
<1>2. IInv'
  BY AnswerFacts
<1>3. /\ place = [p \in Procs |-> PlaceOf(h, p)]
      /\ place' = [p \in Procs |-> PlaceOf(h', p)]
  BY <1>2, PlaceIs, PlaceIsPrime
<1>4. place[pid] = "feedback"
  BY <1>1, <1>3 DEF PlaceOf, Waiting
<1>5. \A q \in Procs : q # pid => PlaceOf(h', q) = PlaceOf(h, q)
  BY <1>1 DEF PlaceOf, Waiting, Again
<1>6. CASE h'[pid].round = 0 /\ h'[pid].ndi = 1 - h[pid].ndi
  <2>1. PlaceOf(h', pid) = "available"
    BY <1>1, <1>6, SMTT(60) DEF PlaceOf, Waiting, Again
  <2>2. place' = [place EXCEPT ![pid] = "available"]
    BY <1>3, <1>5, <2>1
  <2>3. round' = [round EXCEPT ![pid] = 0] /\ ndi' = [ndi EXCEPT ![pid] = 1 - @]
    BY <1>1, <1>6 DEF round, ndi
  <2>4. HarqService!Release(pid)
    BY <1>4, <2>2, <2>3 DEF HarqService!Release, place, round, ndi
  <2>5. \E p \in Procs : HarqService!Send(p) \/ HarqService!Release(p) \/ HarqService!Again(p)
    BY <2>4
  <2> QED BY <2>5 DEF HarqService!Next
<1>7. CASE /\ h'[pid].round = h[pid].round + 1 /\ h[pid].round + 1 < RoundMax
           /\ h[pid].round \in Nat /\ h'[pid].ndi = h[pid].ndi
  <2>0. h'[pid].round > 0
    BY <1>7
  <2>1. PlaceOf(h', pid) = "retrans"
    BY <1>1, <2>0 DEF PlaceOf, Waiting, Again
  <2>2. place' = [place EXCEPT ![pid] = "retrans"]
    BY <1>3, <1>5, <2>1
  <2>3. round' = [round EXCEPT ![pid] = @ + 1] /\ round[pid] + 1 < RoundMax /\ ndi' = ndi
    BY <1>1, <1>7 DEF round, ndi
  <2>4. HarqService!Again(pid)
    BY <1>4, <2>2, <2>3 DEF HarqService!Again, place, round, ndi
  <2>5. \E p \in Procs : HarqService!Send(p) \/ HarqService!Release(p) \/ HarqService!Again(p)
    BY <2>4
  <2> QED BY <2>5 DEF HarqService!Next
<1> QED BY <1>1, <1>6, <1>7

(* nr_schedule_ue_spec, find_harq and handle_dl_harq together implement    *)
(* the life of a HARQ process that HarqProcs describes: one answer for     *)
(* every transmission, at most harq_round_max rounds, and a new data       *)
(* indicator that toggles exactly when a block is finished.                *)
THEOREM DlHarqImplements == Spec => ImplementsHarq
<1>1. Init => HarqService!Init
  <2> SUFFICES ASSUME Init PROVE HarqService!Init
    OBVIOUS
  <2>1. \A p \in Procs : ~In(p, feedback_dl_harq) /\ ~In(p, retrans_dl_harq)
    BY NProcsNat, SMTT(60) DEF Init, In, create_nr_list
  <2> QED BY <2>1 DEF Init, HarqService!Init
<1>2. IInv /\ [Next]_vars => [HarqService!Next]_(HarqService!procVars)
  <2> SUFFICES ASSUME IInv, [Next]_vars
               PROVE  HarqService!Next \/ UNCHANGED HarqService!procVars
    OBVIOUS
  <2>1. CASE nr_schedule_ue_spec
    BY <2>1, SendRefines
  <2>2. CASE skip_missed
    BY <2>2, AnswerRefines DEF skip_missed
  <2>3. CASE harq_bit
    BY <2>3, AnswerRefines DEF harq_bit
  <2>4. ASSUME UNCHANGED <<lists, harq_processes>>
        PROVE  UNCHANGED HarqService!procVars
    BY <2>4 DEF lists, HarqService!procVars, In
  <2>5. CASE \/ slot_idle \/ slot_no_pucch \/ handle_nr_uci_pucch_0_1 \/ lose
             \/ UNCHANGED vars
    BY <2>4, <2>5, QuietActions
  <2> QED BY <2>1, <2>2, <2>3, <2>5 DEF Next
<1> QED BY <1>1, <1>2, Invariance, PTL DEF Spec, ImplementsHarq, HarqService!Spec
=============================================================================
