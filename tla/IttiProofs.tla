----------------------------- MODULE IttiProofs -----------------------------
(***************************************************************************)
(* The safety properties of Itti, for any bounds and any set of durations. *)
(***************************************************************************)
EXTENDS Itti, FiniteSetTheorems, TLAPS

\* How far the semaphore may lag behind the queue: by one message between an
\* epoll_wait that read it and the itti_receive_msg that takes the message.
Lag == IF pc \in {"top", "relock", "events"} THEN 1 ELSE 0

Covered == Len(message_queue) <= sem + Lag

\* next_timer is never later than a timer in the map.
NextIsEarliest == \A id \in DOMAIN timer_map : next_timer <= timer_map[id].timeout

\* Where the expiry messages of a timer and the timer itself may coexist.
Pending ==
    \A i \in DOMAIN message_queue : message_queue[i].timer =>
        /\ message_queue[i].id \in 1..setups
        /\ message_queue[i].id \notin removed
        /\ message_queue[i].id \in DOMAIN timer_map =>
              timer_map[message_queue[i].id].periodic

RemovedGone == removed \subseteq 1..setups /\ removed \cap DOMAIN timer_map = {}

\* An event for the socket means a packet: the owner alone reads it.
ReadableHolds == readable => socket > 0

IInv ==
    /\ TypeOK
    /\ ReadableHolds
    /\ Covered
    /\ NextIsEarliest
    /\ NoOversleep
    /\ Pending
    /\ RemovedGone

Asleep == pc \in {"receive_epoll", "events_epoll"}

-----------------------------------------------------------------------------
\* The set of expired timers is finite.
LEMMA ExpiredFinite ==
    ASSUME TypeOK
    PROVE  /\ Expired \subseteq 1..setups
           /\ IsFiniteSet(Expired)
           /\ Cardinality(Expired) \in Nat
           /\ Expired # {} => Cardinality(Expired) > 0
<1>1. Expired \subseteq 1..setups BY DEF Expired, TypeOK
<1>2. IsFiniteSet(1..setups)
  <2>1. setups \in Int BY BoundAssumption DEF TypeOK
  <2> QED BY <2>1, FS_Interval
<1>3. IsFiniteSet(Expired) BY <1>1, <1>2, FS_Subset
<1>4. Cardinality(Expired) \in Nat BY <1>3, FS_CardinalityType
<1>5. Expired # {} => Cardinality(Expired) # 0 BY <1>3, FS_EmptySet
<1> QED BY <1>1, <1>3, <1>4, <1>5

\* A non-empty set of naturals has a least element.
LEMMA LeastElement ==
    ASSUME NEW S \in SUBSET Nat, S # {}
    PROVE  \E x \in S : \A y \in S : x <= y
<1> DEFINE Less == {ss \in Nat \X Nat : ss[1] < ss[2]}
<1>1. Less = OpToRel(<, Nat) BY Zenon DEF OpToRel
<1>2. IsWellFoundedOn(Less, Nat) BY <1>1, NatLessThanWellFounded, Zenon
<1>3. PICK x \in S : \A y \in S : ~(<<y, x>> \in Less)
  BY <1>2, WFMin, Zenon
<1>4. ASSUME NEW y \in S PROVE x <= y
  <2>1. x \in Nat /\ y \in Nat OBVIOUS
  <2>2. <<y, x>> \in Nat \X Nat BY <2>1
  <2>3. <<y, x>> \notin Less BY <1>3
  <2>4. ~(y < x) BY <2>2, <2>3, Zenon
  <2> QED BY <2>1, <2>4
<1> QED BY <1>4

\* Earliest returns the least timeout, or UINT64_MAX.
LEMMA EarliestFacts ==
    ASSUME NEW m, \A id \in DOMAIN m : m[id].timeout \in Nat
    PROVE  /\ Earliest(m) \in Time
           /\ \A id \in DOMAIN m : Earliest(m) <= m[id].timeout
           /\ \/ Earliest(m) = UINT64_MAX
              \/ \E id \in DOMAIN m : Earliest(m) = m[id].timeout
<1> DEFINE T == {m[id].timeout : id \in DOMAIN m} \cup {UINT64_MAX}
<1>0. UINT64_MAX \in Nat BY BoundAssumption DEF UINT64_MAX
<1>1. T \in SUBSET Nat /\ T # {} BY <1>0
<1>2. Earliest(m) = CHOOSE t \in T : \A u \in T : t <= u BY DEF Earliest
<1>3. Earliest(m) \in T /\ \A u \in T : Earliest(m) <= u
  <2> HIDE DEF T
  <2> QED BY <1>1, <1>2, LeastElement
<1>4. Earliest(m) <= UINT64_MAX BY <1>3
<1>5. Earliest(m) \in Time BY <1>0, <1>1, <1>3, <1>4 DEF Time
<1> QED BY <1>3, <1>5

\* What going to sleep does to the queue, the semaphore and the timers.
LEMMA SleepFacts ==
    ASSUME TypeOK, NextIsEarliest, Pending, RemovedGone, Sleep,
           UNCHANGED <<clock, setups, removed>>
    PROVE  /\ message_queue' \in Seq(Message)
           /\ sem' \in Nat
           /\ Len(message_queue') - Len(message_queue) = sem' - sem
           /\ DOMAIN timer_map' \subseteq DOMAIN timer_map
           /\ \A id \in DOMAIN timer_map' : timer_map'[id] \in Timer
           /\ next_timer' \in Time /\ wake' \in Time
           /\ NextIsEarliest'
           /\ Pending'
           /\ sem' = 0 => \A id \in DOMAIN timer_map' : wake' <= timer_map'[id].timeout
<1>1. clock \in Nat /\ UINT64_MAX \in Nat /\ next_timer \in Nat /\ sem \in Nat
      /\ clock < UINT64_MAX
  BY BoundAssumption DEF TypeOK, Time, UINT64_MAX
<1>2. CASE ~(next_timer < clock)
  <2>1. UNCHANGED <<message_queue, sem, timer_map, next_timer>> /\ wake' = next_timer
    BY <1>2 DEF Sleep, ExpireTimers
  <2>2. NextIsEarliest' /\ Pending'
    BY <2>1 DEF NextIsEarliest, Pending
  <2>3. \A id \in DOMAIN timer_map' : wake' <= timer_map'[id].timeout
    BY <2>1 DEF NextIsEarliest
  <2> QED BY <2>1, <2>2, <2>3 DEF TypeOK
<1>3. CASE next_timer < clock
  <2>1. PICK order \in Orders(Expired) :
           message_queue' = message_queue
               \o [i \in DOMAIN order |-> [timer |-> TRUE, id |-> order[i]]]
    BY <1>3 DEF Sleep, ExpireTimers
  <2>2. /\ sem' = sem + Cardinality(Expired)
        /\ timer_map' = AfterExpiry
        /\ next_timer' = Earliest(AfterExpiry)
        /\ wake' = IF next_timer' < clock THEN UINT64_MAX ELSE next_timer'
    BY <1>3 DEF Sleep, ExpireTimers
  <2> DEFINE n == Cardinality(Expired)
             more == [i \in DOMAIN order |-> [timer |-> TRUE, id |-> order[i]]]
  <2>3. n \in Nat /\ (Expired # {} => n > 0) /\ Expired \subseteq 1..setups
    BY ExpiredFinite
  <2>4. order \in [1..n -> Expired] BY DEF Orders
  <2>5. more \in Seq(Message) /\ Len(more) = n
        /\ \A i \in 1..n : more[i] = [timer |-> TRUE, id |-> order[i]]
    <3>1. \A i \in 1..n : [timer |-> TRUE, id |-> order[i]] \in Message
      <4> SUFFICES ASSUME NEW i \in 1..n PROVE order[i] \in 1..MaxSend + MaxSetup
        BY DEF Message
      <4>1. order[i] \in 1..setups BY <2>3, <2>4
      <4> QED BY <4>1, BoundAssumption DEF TypeOK
    <3> QED BY <2>3, <2>4, <3>1
  <2> HIDE DEF n, more
  <2>6. /\ message_queue' \in Seq(Message) /\ Len(message_queue') = Len(message_queue) + n
        /\ \A i \in 1..Len(message_queue) + n : message_queue'[i] =
              IF i <= Len(message_queue) THEN message_queue[i]
              ELSE more[i - Len(message_queue)]
    BY <2>1, <2>3, <2>5 DEF TypeOK, more
  <2>7. /\ DOMAIN AfterExpiry = {i \in DOMAIN timer_map :
                                    i \notin Expired \/ timer_map[i].periodic}
        /\ \A id \in DOMAIN AfterExpiry : AfterExpiry[id] =
              IF id \in Expired
              THEN [timer_map[id] EXCEPT !.timeout = @ + timer_map[id].duration]
              ELSE timer_map[id]
    BY DEF AfterExpiry
  <2>8. \A id \in DOMAIN AfterExpiry :
           AfterExpiry[id] \in Timer /\ AfterExpiry[id].periodic = timer_map[id].periodic
    <3> SUFFICES ASSUME NEW id \in DOMAIN AfterExpiry
                 PROVE AfterExpiry[id] \in Timer
                       /\ AfterExpiry[id].periodic = timer_map[id].periodic
      OBVIOUS
    <3>1. timer_map[id] \in Timer BY <2>7 DEF TypeOK
    <3>2. timer_map[id].timeout + timer_map[id].duration \in Nat
      <4>1. timer_map[id].timeout \in Nat /\ timer_map[id].duration \in Duration
        BY <3>1 DEF Timer
      <4>2. timer_map[id].duration \in Nat BY <4>1, BoundAssumption
      <4> QED BY <4>1, <4>2
    <3> QED BY <2>7, <3>1, <3>2 DEF Timer
  <2>9. /\ next_timer' \in Time /\ NextIsEarliest'
        /\ \/ next_timer' = UINT64_MAX
           \/ \E id \in DOMAIN AfterExpiry : next_timer' = AfterExpiry[id].timeout
    BY <2>2, <2>8, EarliestFacts DEF NextIsEarliest, Timer
  <2>10. next_timer' < clock => sem' > 0
    <3> SUFFICES ASSUME next_timer' < clock PROVE Expired # {}
      BY <1>1, <2>2, <2>3 DEF n
    <3>1. PICK id \in DOMAIN AfterExpiry : next_timer' = AfterExpiry[id].timeout
      BY <1>1, <2>9
    <3>2. CASE id \in Expired BY <3>2
    <3>3. CASE id \notin Expired
      BY <3>1, <3>3, <2>7 DEF Expired
    <3> QED BY <3>2, <3>3
  <2>11. Pending'
    <3> SUFFICES ASSUME NEW i \in DOMAIN message_queue', message_queue'[i].timer
                 PROVE /\ message_queue'[i].id \in 1..setups
                       /\ message_queue'[i].id \notin removed
                       /\ message_queue'[i].id \in DOMAIN AfterExpiry =>
                             AfterExpiry[message_queue'[i].id].periodic
      BY <2>2 DEF Pending
    <3>1. i \in 1..Len(message_queue) + n BY <2>6
    <3>2. CASE i <= Len(message_queue)
      <4>1. i \in DOMAIN message_queue /\ message_queue'[i] = message_queue[i]
        BY <3>1, <3>2, <2>6 DEF TypeOK
      <4> QED BY <4>1, <2>7, <2>8 DEF Pending
    <3>3. CASE Len(message_queue) < i
      <4>1. i - Len(message_queue) \in 1..n BY <2>3, <3>1, <3>3 DEF TypeOK
      <4>2. message_queue'[i] = more[i - Len(message_queue)]
        BY <2>3, <2>6, <3>1, <3>3 DEF TypeOK
      <4>3. message_queue'[i].id \in Expired BY <2>4, <2>5, <4>1, <4>2
      <4>4. message_queue'[i].id \in DOMAIN timer_map BY <4>3 DEF Expired
      <4> QED BY <2>3, <2>7, <2>8, <4>3, <4>4 DEF RemovedGone
    <3>4. i <= Len(message_queue) \/ Len(message_queue) < i BY <3>1, <2>3 DEF TypeOK
    <3> QED BY <3>2, <3>3, <3>4, Zenon
  <2>12. sem' \in Nat /\ Len(message_queue') - Len(message_queue) = sem' - sem
    <3>1. Len(message_queue) \in Nat BY DEF TypeOK
    <3>2. sem' = sem + n BY <2>2 DEF n
    <3>3. n \in Nat /\ Len(message_queue') = Len(message_queue) + n BY <2>3, <2>6
    <3> QED BY <1>1, <3>1, <3>2, <3>3
  <2>13. wake' \in Time BY <1>1, <2>2, <2>9 DEF Time
  <2>14. sem' = 0 => \A id \in DOMAIN timer_map' : wake' <= timer_map'[id].timeout
    BY <2>2, <2>9, <2>10, <2>12 DEF NextIsEarliest
  <2> QED BY <2>2, <2>6, <2>7, <2>8, <2>9, <2>11, <2>12, <2>13, <2>14
<1> QED BY <1>2, <1>3

-----------------------------------------------------------------------------
\* IInv holds initially.
LEMMA InitIInv == Init => IInv
<1> SUFFICES ASSUME Init PROVE IInv
  OBVIOUS
<1>1. TypeOK
  <2>1. DOMAIN timer_map = {} BY DEF Init
  <2>2. 0 \in 0..MaxClock /\ 0 \in 0..MaxSend /\ 0 \in 0..MaxSetup /\ 0 \in 0..MaxPacket
        /\ UINT64_MAX \in Time
    BY BoundAssumption DEF Time, UINT64_MAX
  <2>3. message_queue \in Seq(Message) BY DEF Init
  <2> QED BY <2>1, <2>2, <2>3 DEF Init, TypeOK
<1>2. ReadableHolds /\ Covered /\ NextIsEarliest /\ NoOversleep /\ Pending /\ RemovedGone
  BY DEF Init, ReadableHolds, Covered, Lag, NextIsEarliest, NoOversleep, Pending, RemovedGone
<1> QED BY <1>1, <1>2 DEF IInv

\* The steps that end in Sleep: receive_sleep, itti_get_events and EINTR.
LEMMA SleepStep ==
    ASSUME IInv, Sleep, UNCHANGED <<world, socket, readable, received>>,
           pc' \in {"receive_epoll", "events_epoll"},
           Len(message_queue) <= sem
    PROVE  IInv'
<1>1. UNCHANGED <<clock, setups, removed>> BY DEF world
<1>2. /\ message_queue' \in Seq(Message)
      /\ sem' \in Nat
      /\ Len(message_queue') - Len(message_queue) = sem' - sem
      /\ DOMAIN timer_map' \subseteq DOMAIN timer_map
      /\ \A id \in DOMAIN timer_map' : timer_map'[id] \in Timer
      /\ next_timer' \in Time /\ wake' \in Time
      /\ NextIsEarliest'
      /\ Pending'
      /\ sem' = 0 => \A id \in DOMAIN timer_map' : wake' <= timer_map'[id].timeout
  BY <1>1, SleepFacts DEF IInv
<1>3. TypeOK' /\ ReadableHolds' BY <1>2 DEF IInv, TypeOK, ReadableHolds, world
<1>4. Covered'
  BY <1>2 DEF IInv, Covered, Lag, TypeOK
<1>5. NoOversleep' BY <1>2 DEF NoOversleep
<1>6. RemovedGone' BY <1>1, <1>2 DEF IInv, RemovedGone
<1> QED BY <1>2, <1>3, <1>4, <1>5, <1>6 DEF IInv

\* Taking the head of the queue.
LEMMA PopFacts ==
    ASSUME IInv, Pop, message_queue # <<>>,
           UNCHANGED <<world, timer_map>>
    PROVE  /\ message_queue' \in Seq(Message)
           /\ Len(message_queue') = Len(message_queue) - 1
           /\ received' \in Nat
           /\ Pending'
<1>1. /\ message_queue \in Seq(Message)
      /\ message_queue' = Tail(message_queue)
  BY DEF IInv, TypeOK, Pop
<1>2. /\ message_queue' \in Seq(Message)
      /\ Len(message_queue') = Len(message_queue) - 1
      /\ \A i \in 1..Len(message_queue) - 1 : message_queue'[i] = message_queue[i + 1]
  BY <1>1
<1>3. received' \in Nat BY DEF Pop, IInv, TypeOK
<1>4. Pending'
  <2> SUFFICES ASSUME NEW i \in DOMAIN message_queue', message_queue'[i].timer
               PROVE /\ message_queue'[i].id \in 1..setups
                     /\ message_queue'[i].id \notin removed
                     /\ message_queue'[i].id \in DOMAIN timer_map =>
                           timer_map[message_queue'[i].id].periodic
    BY DEF Pending, world
  <2>1. i + 1 \in DOMAIN message_queue /\ message_queue'[i] = message_queue[i + 1]
    BY <1>1, <1>2
  <2> QED BY <2>1 DEF IInv, Pending
<1> QED BY <1>2, <1>3, <1>4

\* A message is taken by itti_receive_msg or itti_poll_msg.
LEMMA PopStep ==
    ASSUME IInv, Pop, message_queue # <<>>, pc' = "handle",
           UNCHANGED <<world, sem, timer_map, next_timer, wake, socket, readable>>
    PROVE  IInv'
<1>1. /\ message_queue' \in Seq(Message)
      /\ Len(message_queue') = Len(message_queue) - 1
      /\ received' \in Nat
      /\ Pending'
  BY PopFacts
<1>2. TypeOK' /\ ReadableHolds' BY <1>1 DEF IInv, TypeOK, ReadableHolds, world
<1>3. Covered'
  <2>1. Len(message_queue) <= sem + 1 /\ Len(message_queue) \in Nat /\ sem \in Nat
    BY DEF IInv, Covered, Lag, TypeOK
  <2> QED BY <1>1, <2>1 DEF Covered, Lag
<1>4. NextIsEarliest' /\ NoOversleep' /\ RemovedGone'
  BY DEF IInv, NextIsEarliest, NoOversleep, RemovedGone, world
<1> QED BY <1>1, <1>2, <1>3, <1>4 DEF IInv

\* A message is sent.
LEMMA SendStep == IInv /\ itti_send_msg_to_task => IInv'
<1> SUFFICES ASSUME IInv, itti_send_msg_to_task PROVE IInv'
  OBVIOUS
<1> DEFINE msg == [timer |-> FALSE, id |-> sent + 1]
<1>1. msg \in Message BY BoundAssumption DEF itti_send_msg_to_task, IInv, TypeOK, Message
<1>2. /\ message_queue \in Seq(Message)
      /\ message_queue' = Append(message_queue, msg)
  BY DEF IInv, TypeOK, itti_send_msg_to_task
<1>3. msg.timer = FALSE OBVIOUS
<1> HIDE DEF msg
<1>4. /\ message_queue' \in Seq(Message)
      /\ Len(message_queue') = Len(message_queue) + 1
      /\ \A i \in 1..Len(message_queue) + 1 :
            message_queue'[i] = IF i = Len(message_queue) + 1 THEN msg ELSE message_queue[i]
  BY <1>1, <1>2
<1>5. TypeOK'
  BY <1>4, BoundAssumption DEF IInv, TypeOK, itti_send_msg_to_task
<1>6. Covered' BY <1>4 DEF IInv, Covered, Lag, TypeOK, itti_send_msg_to_task
<1>7. NextIsEarliest' /\ RemovedGone' /\ ReadableHolds'
  BY DEF IInv, NextIsEarliest, RemovedGone, ReadableHolds, itti_send_msg_to_task
<1>8. NoOversleep' BY DEF IInv, NoOversleep, TypeOK, itti_send_msg_to_task
<1>9. Pending'
  <2> SUFFICES ASSUME NEW i \in DOMAIN message_queue', message_queue'[i].timer
               PROVE /\ message_queue'[i].id \in 1..setups
                     /\ message_queue'[i].id \notin removed
                     /\ message_queue'[i].id \in DOMAIN timer_map =>
                           timer_map[message_queue'[i].id].periodic
    BY DEF Pending, itti_send_msg_to_task
  <2>1. i \in DOMAIN message_queue /\ message_queue'[i] = message_queue[i]
    BY <1>2, <1>3, <1>4
  <2> QED BY <2>1 DEF IInv, Pending
<1> QED BY <1>5, <1>6, <1>7, <1>8, <1>9 DEF IInv

\* A handler sets a timer.
LEMMA SetupStep ==
    ASSUME IInv, NEW duration \in Duration, NEW periodic \in BOOLEAN,
           timer_setup(duration, periodic)
    PROVE  IInv'
<1> DEFINE timer == [timeout |-> clock + duration, duration |-> duration,
                     periodic |-> periodic]
<1> USE DEF IInv
<1>1. duration \in Nat /\ clock \in Nat /\ MaxClock \in Nat /\ clock + duration < MaxClock
  BY BoundAssumption DEF TypeOK, timer_setup
<1>2. timer \in Timer /\ timer.timeout = clock + duration BY <1>1 DEF Timer
<1>3. /\ timer_map' = [id \in DOMAIN timer_map \cup {setups + 1} |->
                           IF id = setups + 1 THEN timer ELSE timer_map[id]]
      /\ next_timer' = IF timer.timeout < next_timer THEN timer.timeout ELSE next_timer
      /\ setups' = setups + 1 /\ sem' = sem + 1 /\ setups < MaxSetup
      /\ UNCHANGED <<loop, pc, message_queue, wake, nb_fd_epoll, socket, readable,
                     clock, sent, received, removed, packets>>
      /\ pc = "handle"
  BY DEF timer_setup
<1> HIDE DEF timer
<1>4. next_timer \in Nat /\ next_timer' \in Time
  <2>1. next_timer \in 0..MaxClock + 1 BY DEF TypeOK, Time, UINT64_MAX
  <2>2. clock + duration \in 0..MaxClock + 1 BY <1>1
  <2>3. next_timer' = next_timer \/ next_timer' = clock + duration BY <1>2, <1>3
  <2> QED BY <2>1, <2>2, <2>3 DEF Time, UINT64_MAX
<1>5. setups \in Nat /\ MaxSetup \in Nat /\ sem \in Nat BY BoundAssumption DEF TypeOK
<1>6. setups + 1 \notin DOMAIN timer_map /\ setups + 1 \notin removed
  BY <1>5 DEF TypeOK, RemovedGone
<1>7. TypeOK'
  <2>1. DOMAIN timer_map' \subseteq 1..setups' BY <1>3, <1>5 DEF TypeOK
  <2>2. \A id \in DOMAIN timer_map' : timer_map'[id] \in Timer
    BY <1>2, <1>3 DEF TypeOK
  <2>3. setups' \in 0..MaxSetup BY <1>3, <1>5
  <2>4. sem' \in Nat BY <1>3, <1>5
  <2> QED BY <1>3, <1>4, <2>1, <2>2, <2>3, <2>4 DEF TypeOK
<1>8. Covered' BY <1>3, <1>5 DEF Covered, Lag, TypeOK
<1>9. NextIsEarliest'
  <2> SUFFICES ASSUME NEW id \in DOMAIN timer_map'
               PROVE next_timer' <= timer_map'[id].timeout
    BY DEF NextIsEarliest
  <2>1. CASE id = setups + 1 BY <2>1, <1>1, <1>2, <1>3, <1>4
  <2>2. CASE id # setups + 1
    <3>1. timer_map'[id] = timer_map[id] /\ id \in DOMAIN timer_map BY <2>2, <1>3
    <3>2. timer_map[id].timeout \in Nat BY <3>1 DEF TypeOK, Timer
    <3>3. next_timer <= timer_map[id].timeout BY <3>1 DEF NextIsEarliest
    <3> QED BY <1>1, <1>2, <1>3, <1>4, <3>1, <3>2, <3>3
  <2> QED BY <2>1, <2>2
<1>10. NoOversleep' BY <1>3 DEF NoOversleep
<1>11. RemovedGone' /\ ReadableHolds' BY <1>3, <1>5, <1>6 DEF RemovedGone, ReadableHolds
<1>12. Pending'
  <2> SUFFICES ASSUME NEW i \in DOMAIN message_queue, message_queue[i].timer
               PROVE /\ message_queue[i].id \in 1..setups + 1
                     /\ message_queue[i].id \notin removed
                     /\ message_queue[i].id \in DOMAIN timer_map' =>
                           timer_map'[message_queue[i].id].periodic
    BY <1>3 DEF Pending
  <2>1. /\ message_queue[i].id \in 1..setups
        /\ message_queue[i].id \notin removed
        /\ message_queue[i].id \in DOMAIN timer_map =>
              timer_map[message_queue[i].id].periodic
    BY DEF Pending
  <2>2. message_queue[i].id # setups + 1 BY <2>1, <1>5
  <2> QED BY <2>1, <2>2, <1>3, <1>5
<1> QED BY <1>7, <1>8, <1>9, <1>10, <1>11, <1>12

\* A handler removes a timer.
LEMMA RemoveStep ==
    ASSUME IInv, NEW id \in TimerId, timer_remove(id)
    PROVE  IInv'
<1> USE DEF IInv
<1>1. /\ timer_map' = [i \in DOMAIN timer_map \ {id} |-> timer_map[i]]
      /\ removed' = IF timer_map[id].periodic THEN removed ELSE removed \cup {id}
      /\ id \in DOMAIN timer_map /\ pc = "handle"
      /\ UNCHANGED <<loop, pc, message_queue, sem, next_timer, wake, nb_fd_epoll,
                     socket, readable, clock, sent, received, setups, packets>>
  BY DEF timer_remove
<1>2. TypeOK' BY <1>1 DEF TypeOK
<1>3. Covered' BY <1>1 DEF Covered, Lag
<1>4. NextIsEarliest' BY <1>1 DEF NextIsEarliest
<1>5. NoOversleep' BY <1>1 DEF NoOversleep
<1>6. RemovedGone' /\ ReadableHolds' BY <1>1 DEF RemovedGone, ReadableHolds, TypeOK
<1>7. Pending' BY <1>1 DEF Pending
<1> QED BY <1>2, <1>3, <1>4, <1>5, <1>6, <1>7

\* The steps that leave the queue and the timers alone.
LEMMA QuietStep ==
    ASSUME IInv,
           \/ receive_null \/ again \/ read_socket \/ itti_subscribe_event_fd
           \/ itti_unsubscribe_event_fd \/ packet_arrives \/ tick \/ UNCHANGED vars
    PROVE  IInv'
<1> USE DEF IInv, world, vars
<1>1. UNCHANGED <<message_queue, sem, timer_map, next_timer, wake, removed, setups, loop,
                  sent, received>>
  BY DEF receive_null, again, read_socket, itti_subscribe_event_fd,
         itti_unsubscribe_event_fd, packet_arrives, tick
<1>2. \/ UNCHANGED pc
      \/ pc' = "handle" /\ message_queue = <<>>
      \/ pc' = "top"
  BY DEF receive_null, again, read_socket, itti_subscribe_event_fd,
         itti_unsubscribe_event_fd, packet_arrives, tick
<1>3. TypeOK'
  <2>1. CASE receive_null BY <2>1 DEF receive_null, TypeOK
  <2>2. CASE again BY <2>2 DEF again, TypeOK
  <2>3. CASE read_socket
    <3>1. socket' \in Nat BY <2>3 DEF read_socket, TypeOK, ReadableHolds
    <3> QED BY <2>3, <3>1 DEF read_socket, TypeOK
  <2>4. CASE itti_subscribe_event_fd BY <2>4 DEF itti_subscribe_event_fd, TypeOK
  <2>5. CASE itti_unsubscribe_event_fd BY <2>5 DEF itti_unsubscribe_event_fd, TypeOK
  <2>6. CASE packet_arrives BY <2>6, BoundAssumption DEF packet_arrives, TypeOK
  <2>7. CASE tick BY <2>7, BoundAssumption DEF tick, TypeOK
  <2>8. CASE UNCHANGED vars BY <2>8 DEF TypeOK
  <2> QED BY <2>1, <2>2, <2>3, <2>4, <2>5, <2>6, <2>7, <2>8
<1>4. Covered' BY <1>1, <1>2 DEF Covered, Lag, TypeOK
<1>5. NextIsEarliest' /\ Pending' /\ RemovedGone'
  BY <1>1 DEF NextIsEarliest, Pending, RemovedGone
<1>6. NoOversleep' BY <1>1, <1>2 DEF NoOversleep
<1>7. ReadableHolds'
  <2>1. CASE read_socket BY <2>1 DEF read_socket, ReadableHolds
  <2>2. CASE packet_arrives BY <2>2 DEF packet_arrives, ReadableHolds, TypeOK
  <2>3. CASE UNCHANGED <<readable, socket>> BY <2>3 DEF ReadableHolds
  <2>4. read_socket \/ packet_arrives \/ UNCHANGED <<readable, socket>>
    BY DEF receive_null, again, itti_subscribe_event_fd, itti_unsubscribe_event_fd, tick
  <2> QED BY <2>1, <2>2, <2>3, <2>4
<1> QED BY <1>3, <1>4, <1>5, <1>6, <1>7

\* epoll_wait returns.
LEMMA EpollStep == IInv /\ epoll_wait => IInv'
<1> SUFFICES ASSUME IInv, epoll_wait PROVE IInv'
  OBVIOUS
<1> USE DEF IInv, epoll_wait, world
<1>1. TypeOK' BY DEF TypeOK
<1>2. Covered' BY DEF Covered, Lag, TypeOK
<1>3. NextIsEarliest' /\ Pending' /\ RemovedGone'
  BY DEF NextIsEarliest, Pending, RemovedGone
<1>4. NoOversleep' /\ ReadableHolds' BY DEF NoOversleep, ReadableHolds
<1> QED BY <1>1, <1>2, <1>3, <1>4

\* Every step keeps IInv.
LEMMA NextIInv == IInv /\ [Next]_vars => IInv'
<1> SUFFICES ASSUME IInv, [Next]_vars PROVE IInv'
  OBVIOUS
<1>0. Len(message_queue) \in Nat BY DEF IInv, TypeOK
<1>1. CASE receive_pop
  BY <1>1, PopStep DEF receive_pop
<1>2. CASE receive_sleep
  <2>1. Len(message_queue) <= sem BY <1>2 DEF receive_sleep, IInv, TypeOK
  <2> QED BY <1>2, <2>1, SleepStep DEF receive_sleep
<1>3. CASE epoll_wait BY <1>3, EpollStep
<1>4. CASE itti_get_events
  <2>1. Len(message_queue) <= sem BY <1>4, <1>0 DEF itti_get_events, IInv, TypeOK, Covered, Lag
  <2> QED BY <1>4, <2>1, SleepStep DEF itti_get_events
<1>5. CASE itti_poll_msg
  <2>1. CASE message_queue # <<>>
    <3>1. pc' = "handle" /\ Pop BY <1>5, <2>1 DEF itti_poll_msg
    <3> QED BY <1>5, <2>1, <3>1, PopStep DEF itti_poll_msg
  <2>2. CASE message_queue = <<>>
    <3>1. UNCHANGED vars BY <1>5, <2>2 DEF itti_poll_msg, vars, world
    <3> QED BY <3>1, QuietStep
  <2> QED BY <2>1, <2>2
<1>6. CASE Handler
  <2>1. ASSUME NEW duration \in Duration, NEW periodic \in BOOLEAN,
               timer_setup(duration, periodic)
        PROVE IInv'
    BY <2>1, SetupStep
  <2>2. ASSUME NEW id \in TimerId, timer_remove(id) PROVE IInv'
    BY <2>2, RemoveStep
  <2> QED BY <1>6, <2>1, <2>2, QuietStep DEF Handler
<1>7. CASE interrupted
  <2>1. Len(message_queue) <= sem BY <1>7, <1>0 DEF interrupted, IInv, TypeOK, Covered, Lag
  <2> QED BY <1>7, <2>1, SleepStep DEF interrupted
<1>8. CASE itti_send_msg_to_task BY <1>8, SendStep
<1>9. CASE receive_null \/ again \/ read_socket \/ packet_arrives \/ tick \/ UNCHANGED vars
  BY <1>9, QuietStep
<1> QED BY <1>1, <1>2, <1>3, <1>4, <1>5, <1>6, <1>7, <1>8, <1>9 DEF Next, Owner

\* IInv is an invariant.
LEMMA Invariance == Spec => []IInv
BY InitIInv, NextIInv, PTL DEF Spec

\* The variables of a task keep their types.
THEOREM TypeCorrect == Spec => []TypeOK
<1>1. IInv => TypeOK BY DEF IInv
<1> QED BY <1>1, Invariance, PTL

\* The owner of a queue never sleeps in epoll_wait on a message.
THEOREM WakeupTheorem == Spec => []NoLostWakeup
<1>1. IInv => NoLostWakeup
  <2> SUFFICES ASSUME IInv, Asleep, message_queue # <<>> PROVE sem > 0
    BY DEF NoLostWakeup, Asleep
  <2>1. Len(message_queue) <= sem /\ sem \in Nat BY DEF IInv, Covered, Lag, Asleep, TypeOK
  <2>2. Len(message_queue) > 0 BY DEF IInv, TypeOK
  <2> QED BY <2>1, <2>2 DEF IInv, TypeOK
<1> QED BY <1>1, Invariance, PTL

\* The owner of a queue never sleeps in epoll_wait past a timer.
THEOREM OversleepTheorem == Spec => []NoOversleep
<1>1. IInv => NoOversleep BY DEF IInv
<1> QED BY <1>1, Invariance, PTL

\* A one-shot timer that was removed in time never expires.
THEOREM RemovalTheorem == Spec => []RemovalIsFinal
<1>1. IInv => RemovalIsFinal BY DEF IInv, Pending, RemovalIsFinal
<1> QED BY <1>1, Invariance, PTL
=============================================================================
