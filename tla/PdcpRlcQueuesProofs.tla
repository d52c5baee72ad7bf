------------------------ MODULE PdcpRlcQueuesProofs ------------------------
(***************************************************************************)
(* The two queues between PDCP and RLC for every size and every number of  *)
(* threads: a consumer that reads its slot outside the mutex carries out   *)
(* what was enqueued, in order.                                            *)
(***************************************************************************)
EXTENDS PdcpRlcQueues, SequenceTheorems, TLAPS

Item == [from : Thread \cup {NoThread}, nb : Nat]

HistoryType ==
    /\ buf \in [Layer -> [0 .. QueueSize - 1 -> Item]]
    /\ sent \in [Layer -> Seq(Item)] /\ served \in [Layer -> Seq(Item)]

\* Consumers and producers run their own code.
Roles ==
    /\ \A q \in Layer : pc[Consumer[q]] \in {"fetch", "lock", "serve", "pop"}
    /\ \A t \in Producer : pc[t] \in {"idle", "put", "held"}

\* 1 between the call a consumer carried out and its pop.
Done(q) == IF pc[Consumer[q]] = "pop" THEN 1 ELSE 0

\* Position k of the queue.
At(q, k) == (start[q] + k) % QueueSize

\* The consumer's slot is the head of the queue, which nobody else removes.
SlotIsHead(q) ==
    pc[Consumer[q]] # "fetch" => slot[q] = start[q] /\ length[q] > 0

\* The calls accepted are those served and those in the queue.
Contents(q) ==
    /\ Len(sent[q]) = Len(served[q]) + length[q] - Done(q)
    /\ \A k \in 1 .. Len(served[q]) : served[q][k] = sent[q][k]
    /\ \A k \in Done(q) .. length[q] - 1 :
          buf[q][At(q, k)] = sent[q][Len(served[q]) + 1 + k - Done(q)]

\* The inductive invariant.
IInv ==
    /\ TypeOK /\ HistoryType /\ Roles
    /\ \A q \in Layer : SlotIsHead(q) /\ Contents(q)

----------------------------------------------------------------------------
(* Slots.                                                                   *)

\* Modular addition of less than one turn.
Wrapped(x, N) == IF x < N THEN x ELSE x - N

LEMMA Turn ==
    ASSUME NEW N \in Nat \ {0}, NEW x \in 0 .. 2 * N - 1
    PROVE  x % N = Wrapped(x, N) /\ Wrapped(x, N) \in 0 .. N - 1
<1>1. CASE x < N BY <1>1 DEF Wrapped
<1>2. CASE x >= N
  <2> DEFINE r == x % N
             d == x \div N
  <2>1. x = d * N + r /\ r \in 0 .. N - 1 /\ d \in Int OBVIOUS
  <2> HIDE DEF r, d
  <2>2. d = 1
    <3>1. CASE d <= 0
      <4>1. d * N <= 0 BY <3>1, <2>1
      <4> QED BY <4>1, <2>1, <1>2
    <3>2. CASE d >= 2
      <4>1. d * N >= 2 * N BY <3>2, <2>1
      <4> QED BY <4>1, <2>1, <1>2
    <3> QED BY <2>1, <3>1, <3>2
  <2>3. r = x - N BY <2>1, <2>2
  <2> QED BY <1>2, <2>1, <2>3 DEF Wrapped, r
<1> QED BY <1>1, <1>2

\* Two positions of one queue are two slots.
LEMMA TurnInjective ==
    ASSUME NEW N \in Nat \ {0}, NEW a \in 0 .. N - 1,
           NEW j \in 0 .. N - 1, NEW k \in 0 .. N - 1, j # k
    PROVE  (a + j) % N # (a + k) % N
<1>1. a + j \in 0 .. 2 * N - 1 /\ a + k \in 0 .. 2 * N - 1 OBVIOUS
<1>2. (a + j) % N = Wrapped(a + j, N) /\ (a + k) % N = Wrapped(a + k, N) BY <1>1, Turn
<1>3. Wrapped(a + j, N) # Wrapped(a + k, N) BY DEF Wrapped
<1> QED BY <1>2, <1>3

\* Position k counted from the next start is position k + 1.
LEMMA TurnNext ==
    ASSUME NEW N \in Nat \ {0}, NEW a \in 0 .. N - 1, NEW k \in 0 .. N - 2
    PROVE  (((a + 1) % N) + k) % N = (a + (k + 1)) % N
<1> DEFINE b == Wrapped(a + 1, N)
<1>1. a + 1 \in 0 .. 2 * N - 1 /\ a + (k + 1) \in 0 .. 2 * N - 1 OBVIOUS
<1>2. (a + 1) % N = b /\ b \in 0 .. N - 1 BY <1>1, Turn
<1>3. b + k \in 0 .. 2 * N - 1 BY <1>2
<1>4. (a + (k + 1)) % N = Wrapped(a + (k + 1), N) BY <1>1, Turn
<1>5. (b + k) % N = Wrapped(b + k, N) BY <1>3, Turn
<1>6. Wrapped(b + k, N) = Wrapped(a + (k + 1), N) BY DEF Wrapped
<1> QED BY <1>2, <1>4, <1>5, <1>6

\* Consumers differ from producers and from each other.
LEMMA Threads ==
    /\ \A q \in Layer : Consumer[q] \in Thread /\ Consumer[q] \notin Producer
    /\ \A p, q \in Layer : Consumer[p] = Consumer[q] => p = q
    /\ \A t \in Producer : t \in Thread /\ To(t) \in Layer /\ From(t) \in Layer
<1>1. \A q \in Layer : Consumer[q] \in Thread /\ Consumer[q] \notin Producer
  BY ThreadAssumption DEF Thread
<1>2. \A p, q \in Layer : Consumer[p] = Consumer[q] => p = q
  BY DEF Consumer, Layer
<1>3. \A t \in Producer : t \in Thread /\ To(t) \in Layer /\ From(t) \in Layer
  BY DEF Thread, To, From, Layer
<1> QED BY <1>1, <1>2, <1>3

----------------------------------------------------------------------------
(* Steps.                                                                   *)

\* A queue is left alone by a step that changes neither it nor its consumer.
LEMMA QueueFrame ==
    ASSUME NEW q \in Layer, SlotIsHead(q), Contents(q),
           buf'[q] = buf[q], start'[q] = start[q], length'[q] = length[q],
           sent'[q] = sent[q], served'[q] = served[q], slot'[q] = slot[q],
           pc'[Consumer[q]] = pc[Consumer[q]]
    PROVE  SlotIsHead(q)' /\ Contents(q)'
<1>1. SlotIsHead(q)' BY DEF SlotIsHead
<1>2. Done(q)' = Done(q) /\ \A k : At(q, k)' = At(q, k) BY DEF Done, At
<1>3. Contents(q)' BY <1>2 DEF Contents
<1> QED BY <1>1, <1>3

LEMMA InitIInv == Init => IInv
<1> SUFFICES ASSUME Init PROVE IInv
  OBVIOUS
<1>1. QueueSize \in Nat \ {0} BY ThreadAssumption
<1>2. TypeOK BY <1>1 DEF Init, TypeOK
<1>3. HistoryType
  <2>1. <<>> \in Seq(Item) OBVIOUS
  <2>2. [from |-> NoThread, nb |-> 0] \in Item BY DEF Item
  <2> QED BY <2>1, <2>2 DEF Init, HistoryType
<1>4. Roles BY Threads DEF Init, Roles
<1>5. ASSUME NEW q \in Layer PROVE SlotIsHead(q) /\ Contents(q)
  <2>1. pc[Consumer[q]] = "fetch" /\ length[q] = 0 /\ sent[q] = <<>> /\ served[q] = <<>>
    BY Threads DEF Init
  <2>2. Done(q) = 0 BY <2>1 DEF Done
  <2> QED BY <2>1, <2>2 DEF SlotIsHead, Contents
<1> QED BY <1>2, <1>3, <1>4, <1>5 DEF IInv

\* pthread_cond_signal keeps waiting a set of threads.
LEMMA SignalType ==
    ASSUME TypeOK, NEW q \in Layer, cond_signal(q)
    PROVE  \A r \in Layer : waiting'[r] \subseteq Thread
<1>1. CASE waiting' = waiting BY <1>1 DEF TypeOK
<1>2. CASE \E w \in waiting[q] : waiting' = [waiting EXCEPT ![q] = @ \ {w}]
  BY <1>2 DEF TypeOK
<1> QED BY <1>1, <1>2 DEF cond_signal

\* The steps of producers and of the RRC that leave the queues alone.
LEMMA QuietStep ==
    ASSUME IInv, NEW t \in Producer, NEW l \in Layer,
           \/ call(t) \/ du_rlc_data_req(t) \/ deliver_again(t) \/ return(t)
           \/ enqueue_wait(t) \/ remove_ue(l)
    PROVE  IInv'
<1> USE DEF IInv
<1>1. UNCHANGED <<buf, start, length, slot, sent, served>>
  BY DEF call, du_rlc_data_req, deliver_again, return, enqueue_wait, remove_ue
<1>2. TypeOK' /\ Roles'
  <2>1. CASE call(t) BY <2>1, Threads DEF call, lock, Goto, TypeOK, Roles
  <2>2. CASE du_rlc_data_req(t) BY <2>2, Threads DEF du_rlc_data_req, Goto, TypeOK, Roles
  <2>3. CASE deliver_again(t) BY <2>3, Threads DEF deliver_again, Goto, TypeOK, Roles
  <2>4. CASE return(t) BY <2>4, Threads DEF return, unlock, Goto, TypeOK, Roles
  <2>5. CASE enqueue_wait(t) BY <2>5, Threads DEF enqueue_wait, cond_wait, TypeOK, Roles
  <2>6. CASE remove_ue(l) BY <2>6 DEF remove_ue, TypeOK, Roles
  <2> QED BY <2>1, <2>2, <2>3, <2>4, <2>5, <2>6
<1>3. HistoryType' BY <1>1 DEF HistoryType
<1>4. \A q \in Layer : pc'[Consumer[q]] = pc[Consumer[q]]
  BY Threads DEF call, du_rlc_data_req, deliver_again, return, enqueue_wait, remove_ue,
     Goto, TypeOK
<1>5. \A q \in Layer : SlotIsHead(q)' /\ Contents(q)' BY <1>1, <1>4, QueueFrame
<1> QED BY <1>2, <1>3, <1>5

\* enqueue writes a slot that no item in the queue uses.
LEMMA EnqueueStep ==
    ASSUME IInv, NEW t \in Producer, enqueue(t)
    PROVE  IInv'
<1> USE DEF IInv
<1> DEFINE q == To(t)
           item == [from |-> t, nb |-> Len(sent[q])]
           N == QueueSize
<1>1. q \in Layer /\ t \in Thread /\ N \in Nat \ {0} BY Threads, ThreadAssumption
<1>2. /\ length[q] \in 0 .. N - 1 /\ start[q] \in 0 .. N - 1
      /\ sent[q] \in Seq(Item) /\ served[q] \in Seq(Item)
      /\ Len(sent[q]) \in Nat /\ Len(served[q]) \in Nat
  BY <1>1 DEF TypeOK, HistoryType, enqueue
<1>3. item \in Item BY <1>1, <1>2 DEF Item
<1> HIDE DEF item
<1>4. /\ buf' = [buf EXCEPT ![q] = [buf[q] EXCEPT ![At(q, length[q])] = item]]
      /\ length' = [length EXCEPT ![q] = @ + 1]
      /\ sent' = [sent EXCEPT ![q] = Append(@, item)]
      /\ cond_signal(q)
      /\ UNCHANGED <<start, owner, slot, served>>
  BY DEF enqueue, FreeSlot, At, item
<1>5. /\ pc' \in [Thread -> {"idle", "put", "held", "fetch", "lock", "serve", "pop"}]
      /\ \A r \in Layer : pc'[Consumer[r]] = pc[Consumer[r]]
      /\ \A p \in Producer : pc'[p] \in {"idle", "put", "held"}
  BY <1>1, Threads DEF enqueue, Goto, TypeOK, Roles
<1>6. At(q, length[q]) \in 0 .. N - 1
  <2>1. start[q] + length[q] \in 0 .. 2 * N - 1 BY <1>1, <1>2
  <2> QED BY <1>1, <2>1, Turn DEF At
<1>7. TypeOK' BY <1>1, <1>2, <1>4, <1>5, SignalType, SMTT(60) DEF TypeOK
<1>8. HistoryType' BY <1>1, <1>2, <1>3, <1>4, <1>6 DEF HistoryType
<1>9. Roles' BY <1>5 DEF Roles
<1>10. ASSUME NEW r \in Layer, r # q PROVE SlotIsHead(r)' /\ Contents(r)'
  <2>1. buf'[r] = buf[r] /\ start'[r] = start[r] /\ length'[r] = length[r]
        /\ sent'[r] = sent[r] /\ served'[r] = served[r] /\ slot'[r] = slot[r]
    BY <1>4, <1>10 DEF TypeOK, HistoryType
  <2> QED BY <2>1, <1>5, QueueFrame
<1>11. SlotIsHead(q)' BY <1>1, <1>2, <1>4, <1>5 DEF SlotIsHead, TypeOK
<1>12. Contents(q)'
  <2> DEFINE d == Done(q)
             m == Len(served[q])
  <2>1. d \in {0, 1} /\ Done(q)' = d BY <1>1, <1>5 DEF Done
  <2>2. \A k : At(q, k)' = At(q, k) BY <1>4 DEF At
  <2>3. /\ length'[q] = length[q] + 1 /\ served'[q] = served[q]
        /\ sent'[q] = Append(sent[q], item)
        /\ buf'[q] = [buf[q] EXCEPT ![At(q, length[q])] = item]
    BY <1>1, <1>4 DEF TypeOK, HistoryType
  <2>4. Len(sent[q]) = m + length[q] - d BY <1>1 DEF Contents
  <2>5. d <= length[q] BY <1>1, <1>2 DEF Done, SlotIsHead
  <2> HIDE DEF d
  <2>6. Len(sent'[q]) = Len(served'[q]) + length'[q] - Done(q)'
    <3>1. Len(sent'[q]) = Len(sent[q]) + 1 BY <1>2, <2>3
    <3>2. d \in Int /\ length[q] \in Int /\ m \in Int BY <1>2, <2>1
    <3>3. m + length[q] - d + 1 = m + (length[q] + 1) - d BY <3>2
    <3> QED BY <2>1, <2>3, <2>4, <3>1, <3>3
  <2>7. ASSUME NEW k \in 1 .. Len(served'[q]) PROVE served'[q][k] = sent'[q][k]
    <3>1. k \in 1 .. m /\ k \in 1 .. Len(sent[q]) BY <1>2, <2>1, <2>3, <2>4, <2>5
    <3>2. served[q][k] = sent[q][k] BY <1>1, <3>1 DEF Contents
    <3> QED BY <1>2, <2>3, <3>1, <3>2, SMTT(60)
  <2>8. ASSUME NEW k \in d .. length[q]
        PROVE  buf'[q][At(q, k)] = sent'[q][m + 1 + k - d]
    <3>1. CASE k = length[q]
      <4>1. buf'[q][At(q, k)] = item
        BY <1>1, <1>6, <2>3, <3>1 DEF HistoryType
      <4>2. m + 1 + k - d = Len(sent[q]) + 1 BY <1>2, <2>1, <2>4, <3>1
      <4> QED BY <1>2, <2>3, <4>1, <4>2, SMTT(60)
    <3>2. CASE k # length[q]
      <4>1. k \in d .. length[q] - 1 /\ k \in 0 .. N - 1 BY <1>1, <1>2, <2>1, <3>2
      <4>2. At(q, k) # At(q, length[q]) BY <1>1, <1>2, <3>2, <4>1, TurnInjective DEF At
      <4>3. At(q, k) \in 0 .. N - 1
        <5>1. start[q] + k \in 0 .. 2 * N - 1 BY <1>1, <1>2, <4>1
        <5> QED BY <1>1, <5>1, Turn DEF At
      <4>4. buf'[q][At(q, k)] = buf[q][At(q, k)]
        BY <1>1, <2>3, <4>2, <4>3 DEF HistoryType
      <4>5. buf[q][At(q, k)] = sent[q][m + 1 + k - d] BY <1>1, <4>1 DEF Contents, d
      <4>6. m + 1 + k - d \in 1 .. Len(sent[q])
        <5>1. m \in Nat /\ d \in Int /\ k \in Int /\ length[q] \in Int
          BY <1>2, <2>1, <4>1
        <5>2. d <= k /\ k <= length[q] - 1 BY <1>2, <2>1, <4>1
        <5>3. 1 <= m + 1 + k - d /\ m + 1 + k - d <= m + length[q] - d BY <5>1, <5>2
        <5> QED BY <2>4, <5>1, <5>3
      <4> QED BY <1>2, <2>3, <4>4, <4>5, <4>6, SMTT(60)
    <3> QED BY <3>1, <3>2
  <2>9. length'[q] - 1 = length[q] /\ Len(served'[q]) = m BY <1>2, <2>3
  <2>10. \A k \in Done(q)' .. length'[q] - 1 :
            buf'[q][At(q, k)'] = sent'[q][Len(served'[q]) + 1 + k - Done(q)']
    BY <2>1, <2>2, <2>8, <2>9
  <2> QED BY <2>6, <2>7, <2>10 DEF Contents
<1> QED BY <1>7, <1>8, <1>9, <1>10, <1>11, <1>12

\* fetch_wait, fetch and acquire: the head of the queue becomes the slot.
LEMMA FetchStep ==
    ASSUME IInv, NEW q \in Layer, fetch_wait(q) \/ fetch(q) \/ acquire(q)
    PROVE  IInv'
<1> USE DEF IInv
<1> DEFINE c == Consumer[q]
<1>1. c \in Thread /\ c \notin Producer BY Threads
<1>2. UNCHANGED <<buf, start, length, sent, served>>
  BY DEF fetch_wait, fetch, acquire
<1>3. /\ \A t \in Producer : pc'[t] = pc[t]
      /\ \A r \in Layer : r # q => pc'[Consumer[r]] = pc[Consumer[r]] /\ slot'[r] = slot[r]
  BY <1>1, Threads, SMTT(60) DEF fetch_wait, fetch, acquire, Goto, TypeOK
<1>4. TypeOK'
  <2>1. CASE fetch_wait(q) BY <1>1, <2>1, SMTT(60) DEF fetch_wait, cond_wait, TypeOK
  <2>2. CASE fetch(q) BY <1>1, <2>2 DEF fetch, Goto, TypeOK
  <2>3. CASE acquire(q) BY <1>1, <2>3 DEF acquire, lock, Goto, TypeOK
  <2> QED BY <2>1, <2>2, <2>3
<1>5. HistoryType' BY <1>2 DEF HistoryType
<1>6. /\ pc[c] # "pop" /\ pc'[c] \in {"fetch", "lock", "serve"}
      /\ pc'[c] # "fetch" => slot'[q] = start[q] /\ length[q] > 0
  <2>1. CASE fetch_wait(q) BY <2>1 DEF fetch_wait
  <2>2. CASE fetch(q) BY <1>1, <2>2 DEF fetch, Goto, TypeOK
  <2>3. CASE acquire(q) BY <1>1, <2>3 DEF acquire, Goto, TypeOK, SlotIsHead
  <2> QED BY <2>1, <2>2, <2>3
<1>7. Roles' BY <1>3, <1>6 DEF Roles
<1>8. ASSUME NEW r \in Layer, r # q PROVE SlotIsHead(r)' /\ Contents(r)'
  BY <1>2, <1>3, <1>8, QueueFrame
<1>9. SlotIsHead(q)' BY <1>2, <1>6 DEF SlotIsHead
<1>10. Contents(q)'
  <2>1. Done(q)' = Done(q) /\ \A k : At(q, k)' = At(q, k) BY <1>2, <1>6 DEF Done, At
  <2> QED BY <1>2, <2>1 DEF Contents
<1> QED BY <1>4, <1>5, <1>7, <1>8, <1>9, <1>10

\* serve carries out the oldest call not served.
LEMMA ServeStep ==
    ASSUME IInv, NEW q \in Layer, serve(q)
    PROVE  IInv'
<1> USE DEF IInv
<1> DEFINE c == Consumer[q]
           N == QueueSize
           m == Len(served[q])
           e == buf[q][slot[q]]
<1>1. c \in Thread /\ c \notin Producer /\ N \in Nat \ {0} BY Threads, ThreadAssumption
<1>2. /\ length[q] \in 1 .. N /\ start[q] \in 0 .. N - 1 /\ slot[q] = start[q]
      /\ sent[q] \in Seq(Item) /\ served[q] \in Seq(Item)
      /\ Len(sent[q]) \in Nat /\ m \in Nat
  BY <1>1 DEF TypeOK, HistoryType, serve, SlotIsHead
<1>3. pc[c] = "serve" /\ pc'[c] = "pop" /\ Done(q) = 0 /\ Done(q)' = 1
  BY <1>1 DEF serve, Goto, TypeOK, Done
<1>4. Len(sent[q]) = m + length[q] BY <1>2, <1>3, SMTT(60) DEF Contents
<1>5. e = sent[q][m + 1] /\ e \in Item
  <2>1. start[q] + 0 \in 0 .. 2 * N - 1 /\ start[q] + 0 = start[q] /\ start[q] < N
    BY <1>1, <1>2
  <2>2. At(q, 0) = start[q] BY <1>1, <2>1, Turn DEF At, Wrapped
  <2>3. 0 \in Done(q) .. length[q] - 1 BY <1>2, <1>3
  <2>4. buf[q][At(q, 0)] = sent[q][m + 1 + 0 - Done(q)] BY <2>3 DEF Contents
  <2>5. m + 1 + 0 - Done(q) = m + 1 /\ m + 1 \in 1 .. Len(sent[q]) BY <1>2, <1>3, <1>4
  <2> QED BY <1>2, <2>2, <2>4, <2>5, SMTT(60)
<1> HIDE DEF e
<1>6. UNCHANGED <<buf, start, length, slot, sent>>
      /\ served' = [served EXCEPT ![q] = Append(@, e)]
  BY DEF serve, e
<1>7. served'[q] = Append(served[q], e) /\ Len(served'[q]) = m + 1
  BY <1>2, <1>6 DEF HistoryType
<1>8. /\ \A t \in Producer : pc'[t] = pc[t]
      /\ \A r \in Layer : r # q => pc'[Consumer[r]] = pc[Consumer[r]]
                                   /\ served'[r] = served[r]
  BY <1>1, <1>6, Threads DEF serve, Goto, TypeOK, HistoryType
<1>9. TypeOK' BY <1>1 DEF serve, unlock, Goto, TypeOK
<1>10. HistoryType' BY <1>2, <1>5, <1>6 DEF HistoryType
<1>11. Roles' BY <1>3, <1>8 DEF Roles
<1>12. ASSUME NEW r \in Layer, r # q PROVE SlotIsHead(r)' /\ Contents(r)'
  BY <1>6, <1>8, <1>12, QueueFrame
<1>13. SlotIsHead(q)' BY <1>2, <1>6 DEF SlotIsHead
<1>14. Contents(q)'
  <2>1. Len(sent'[q]) = Len(served'[q]) + length'[q] - Done(q)'
    <3> DEFINE n == length[q]
    <3>0. m \in Int /\ n \in Int BY <1>1, <1>2
    <3> HIDE DEF m, n
    <3>1. m + n = (m + 1) + n - 1 BY <3>0
    <3> USE DEF m, n
    <3> QED BY <1>3, <1>4, <1>6, <1>7, <3>1
  <2>2. ASSUME NEW k \in 1 .. Len(served'[q]) PROVE served'[q][k] = sent'[q][k]
    <3>1. CASE k = m + 1 BY <1>2, <1>5, <1>6, <1>7, <3>1
    <3>2. CASE k # m + 1
      <4>1. k \in 1 .. m BY <1>2, <1>7, <3>2
      <4>2. served[q][k] = sent[q][k] BY <4>1 DEF Contents
      <4> QED BY <1>2, <1>6, <1>7, <4>1, <4>2
    <3> QED BY <3>1, <3>2
  <2>3. ASSUME NEW k \in Done(q)' .. length'[q] - 1
        PROVE  buf'[q][At(q, k)'] = sent'[q][Len(served'[q]) + 1 + k - Done(q)']
    <3>1. k \in Done(q) .. length[q] - 1 /\ k \in Int BY <1>2, <1>3, <1>6
    <3>2. buf[q][At(q, k)] = sent[q][m + 1 + k - Done(q)] BY <3>1 DEF Contents
    <3>3. Len(served'[q]) + 1 + k - Done(q)' = m + 1 + k - Done(q)
      BY <1>2, <1>3, <1>7, <3>1
    <3>4. At(q, k)' = At(q, k) BY <1>6 DEF At
    <3> QED BY <1>6, <3>2, <3>3, <3>4
  <2> QED BY <2>1, <2>2, <2>3 DEF Contents
<1> QED BY <1>9, <1>10, <1>11, <1>12, <1>13, <1>14

\* pop removes the call that was served.
LEMMA PopStep ==
    ASSUME IInv, NEW q \in Layer, pop(q)
    PROVE  IInv'
<1> USE DEF IInv
<1> DEFINE c == Consumer[q]
           N == QueueSize
           m == Len(served[q])
<1>1. c \in Thread /\ c \notin Producer /\ N \in Nat \ {0} BY Threads, ThreadAssumption
<1>2. /\ length[q] \in 1 .. N /\ start[q] \in 0 .. N - 1
      /\ Len(sent[q]) \in Nat /\ m \in Nat
  <2>1. length[q] \in 0 .. N /\ start[q] \in 0 .. N - 1 BY DEF TypeOK
  <2>2. length[q] > 0 BY DEF pop, SlotIsHead
  <2>3. Len(sent[q]) \in Nat /\ m \in Nat BY DEF HistoryType
  <2> QED BY <1>1, <2>1, <2>2, <2>3
<1>3. pc[c] = "pop" /\ pc'[c] = "fetch" /\ Done(q) = 1 /\ Done(q)' = 0
  BY <1>1 DEF pop, Goto, TypeOK, Done
<1>4. Len(sent[q]) = m + length[q] - 1 BY <1>2, <1>3 DEF Contents
<1>5. (start[q] + 1) % N \in 0 .. N - 1
  <2>1. start[q] + 1 \in 0 .. 2 * N - 1 BY <1>1, <1>2
  <2> QED BY <1>1, <2>1, Turn
<1>6. /\ length' = [length EXCEPT ![q] = @ - 1] /\ length'[q] = length[q] - 1
      /\ start' = [start EXCEPT ![q] = (@ + 1) % N] /\ start'[q] = (start[q] + 1) % N
      /\ UNCHANGED <<buf, slot, sent, served>>
  BY DEF pop, TypeOK
<1>7. /\ \A t \in Producer : pc'[t] = pc[t]
      /\ \A r \in Layer : r # q => /\ pc'[Consumer[r]] = pc[Consumer[r]]
                                   /\ length'[r] = length[r] /\ start'[r] = start[r]
  BY <1>1, <1>6, Threads DEF pop, Goto, TypeOK
<1>8. TypeOK'
  <2>1. \A r \in Layer : waiting'[r] \subseteq Thread BY SignalType DEF pop
  <2>2. length' \in [Layer -> 0 .. N] BY <1>1, <1>2, <1>6 DEF TypeOK
  <2>3. start' \in [Layer -> 0 .. N - 1] BY <1>5, <1>6 DEF TypeOK
  <2> QED BY <1>1, <1>6, <2>1, <2>2, <2>3 DEF pop, Goto, TypeOK
<1>9. HistoryType' BY <1>6 DEF HistoryType
<1>10. Roles' BY <1>3, <1>7 DEF Roles
<1>11. ASSUME NEW r \in Layer, r # q PROVE SlotIsHead(r)' /\ Contents(r)'
  BY <1>6, <1>7, <1>11, QueueFrame
<1>12. SlotIsHead(q)' BY <1>3 DEF SlotIsHead
<1>13. Contents(q)'
  <2>1. Len(sent'[q]) = Len(served'[q]) + length'[q] - Done(q)'
    <3>1. m + length[q] - 1 = m + (length[q] - 1) - 0 BY <1>2
    <3> QED BY <1>3, <1>4, <1>6, <3>1
  <2>2. \A k \in 1 .. Len(served'[q]) : served'[q][k] = sent'[q][k]
    BY <1>6 DEF Contents
  <2>3. ASSUME NEW k \in Done(q)' .. length'[q] - 1
        PROVE  buf'[q][At(q, k)'] = sent'[q][Len(served'[q]) + 1 + k - Done(q)']
    <3>1. k \in 0 .. N - 2 /\ k + 1 \in Done(q) .. length[q] - 1
      BY <1>1, <1>2, <1>3, <1>6, SMTT(60)
    <3>2. buf[q][At(q, k + 1)] = sent[q][m + 1 + (k + 1) - Done(q)] BY <3>1 DEF Contents
    <3>3. At(q, k)' = At(q, k + 1)
      <4>1. At(q, k)' = (((start[q] + 1) % N) + k) % N BY <1>6 DEF At
      <4>2. (((start[q] + 1) % N) + k) % N = (start[q] + (k + 1)) % N
        BY <1>1, <1>2, <3>1, TurnNext
      <4> QED BY <4>1, <4>2 DEF At
    <3>4. m + 1 + (k + 1) - 1 = m + 1 + k - 0 BY <1>2, <3>1
    <3> QED BY <1>3, <1>6, <3>2, <3>3, <3>4
  <2> QED BY <2>1, <2>2, <2>3 DEF Contents
<1> QED BY <1>8, <1>9, <1>10, <1>11, <1>12, <1>13

\* Every step keeps IInv.
LEMMA NextIInv == IInv /\ [Next]_vars => IInv'
<1> SUFFICES ASSUME IInv, [Next]_vars PROVE IInv'
  OBVIOUS
<1>1. CASE UNCHANGED vars
  <2>1. TypeOK' /\ HistoryType' /\ Roles'
    BY <1>1 DEF IInv, vars, TypeOK, HistoryType, Roles
  <2>2. \A q \in Layer : SlotIsHead(q)' /\ Contents(q)'
    BY <1>1, QueueFrame DEF IInv, vars
  <2> QED BY <2>1, <2>2 DEF IInv
<1>2. ASSUME NEW t \in Producer,
             call(t) \/ du_rlc_data_req(t) \/ deliver_again(t) \/ Progress(t)
      PROVE  IInv'
  <2>1. "rlc" \in Layer BY DEF Layer
  <2> QED BY <1>2, <2>1, QuietStep, EnqueueStep DEF Progress
<1>3. ASSUME NEW q \in Layer, Consume(q) PROVE IInv'
  BY <1>3, FetchStep, ServeStep, PopStep DEF Consume
<1>4. ASSUME NEW l \in Layer, remove_ue(l) PROVE IInv'
  <2>1. UNCHANGED <<buf, start, length, waiting, owner, pc, slot, sent, served>>
    BY <1>4 DEF remove_ue
  <2>2. TypeOK' /\ HistoryType' /\ Roles'
    BY <2>1 DEF IInv, TypeOK, HistoryType, Roles
  <2>3. \A q \in Layer : SlotIsHead(q)' /\ Contents(q)'
    BY <2>1, QueueFrame DEF IInv
  <2> QED BY <2>2, <2>3 DEF IInv
<1> QED BY <1>1, <1>2, <1>3, <1>4 DEF Next

----------------------------------------------------------------------------
(* Theorems.                                                                *)

\* The queues stay within their array, and threads in their own code
\* (nr_pdcp_oai_api.c: enqueue_rlc_data_req, rlc_data_req_thread and their
\* uplink twins).
THEOREM TypeCorrect == Spec => []TypeOK
<1>1. IInv => TypeOK BY DEF IInv
<1> QED BY <1>1, InitIInv, NextIInv, PTL DEF Spec

\* For every size of the queues and any number of threads: what the consumers
\* carry out is what was enqueued, in order, none lost or twice, although
\* rlc_data_req_thread and pdcp_data_ind_thread read their slot without the
\* mutex while producers write.
THEOREM InOrderTheorem == Spec => []ServedInOrder
<1>1. IInv => ServedInOrder
  <2> SUFFICES ASSUME IInv, NEW q \in Layer PROVE IsPrefix(served[q], sent[q])
    BY DEF ServedInOrder
  <2> DEFINE m == Len(served[q])
  <2>1. /\ served[q] \in Seq(Item) /\ sent[q] \in Seq(Item) /\ m \in Nat
        /\ Len(sent[q]) \in Nat
    BY DEF IInv, HistoryType
  <2>2. length[q] \in Nat /\ Done(q) <= length[q] /\ Done(q) \in {0, 1}
    BY DEF IInv, TypeOK, Done, SlotIsHead
  <2>3. Len(sent[q]) = m + length[q] - Done(q) /\ \A k \in 1 .. m : served[q][k] = sent[q][k]
    BY DEF IInv, Contents
  <2>4. m <= Len(sent[q]) BY <2>1, <2>2, <2>3
  <2>5. SubSeq(served[q], 1, m) = SubSeq(sent[q], 1, m)
    <3>1. \A k \in 1 .. m : served[q][k] = sent[q][k] BY <2>3
    <3>2. [i \in 1 .. m |-> served[q][(i + 1) - 1]] = [i \in 1 .. m |-> sent[q][(i + 1) - 1]]
      BY <2>1, <3>1
    <3> QED BY <2>1, <2>4, <3>1, <3>2
  <2> QED BY <2>4, <2>5 DEF IsPrefix
<1> QED BY <1>1, InitIInv, NextIInv, PTL DEF Spec
============================================================================
