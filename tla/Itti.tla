-------------------------------- MODULE Itti --------------------------------
(***************************************************************************)
(* One ITTI task of common/utils/ocp_itti: its message queue, the eventfd  *)
(* semaphore that makes the queue pollable, its timers, a socket the task  *)
(* may subscribe, and the thread that owns the queue.                      *)
(*                                                                         *)
(* Senders and the owner work under queue_cond_lock, so a critical section *)
(* is one step.  The owner drops the lock to sleep in epoll_wait; messages *)
(* sent, timers due and packets arriving meanwhile are what the model is   *)
(* about.  A message is a number: user messages are numbered in the order  *)
(* they are sent, TIMER_HAS_EXPIRED carries the id of its timer.           *)
(***************************************************************************)
EXTENDS Integers, Sequences, FiniteSets

CONSTANTS
    Loops,          \* the main loops checked: subset of {"receive", "events", "poll"}
    Duration,       \* the durations of timers
    MaxSend,        \* bound: user messages sent
    MaxSetup,       \* bound: calls of timer_setup
    MaxPacket,      \* bound: packets that arrive on the socket
    MaxClock        \* bound: the last value of the clock

ASSUME BoundAssumption ==
    /\ Loops \subseteq {"receive", "events", "poll"}
    /\ Duration \subseteq Nat
    /\ {MaxSend, MaxSetup, MaxPacket, MaxClock} \subseteq Nat

UINT64_MAX == MaxClock + 1      \* no timer: later than any time
Time == 0..UINT64_MAX
TimerId == 1..MaxSetup

VARIABLES
    loop,           \* "receive": itti_receive_msg only; "events": itti_receive_msg,
                    \* then itti_get_events; "poll": itti_poll_msg
    pc,             \* where the owner is
    message_queue,  \* oldest first
    sem,            \* the counter of sem_fd
    timer_map,
    next_timer,
    wake,           \* when the epoll_wait in progress times out
    nb_fd_epoll,    \* 1: sem_fd; 2: sem_fd and the socket
    socket,         \* packets waiting in the socket
    readable,       \* the socket is in the events epoll_wait returned
    clock,          \* CLOCK_MONOTONIC, in ms
    sent, received, \* user messages sent, and taken by the owner (history)
    setups,         \* calls of timer_setup so far; the next timer's id
    removed,        \* one-shot timers that timer_remove found (history)
    packets         \* packets that have arrived (history)

vars == <<loop, pc, message_queue, sem, timer_map, next_timer, wake, nb_fd_epoll,
          socket, readable, clock, sent, received, setups, removed, packets>>

world == <<loop, nb_fd_epoll, clock, sent, setups, removed, packets>>

Message == [timer : BOOLEAN, id : 1..MaxSend + MaxSetup]
Timer == [timeout : Nat, duration : Duration, periodic : BOOLEAN]

-----------------------------------------------------------------------------
\* itti_create_queue, and the owner at the top of its loop.
Init ==
    /\ loop \in Loops
    /\ pc = IF loop = "poll" THEN "handle" ELSE "top"
    /\ message_queue = <<>>
    /\ sem = 0
    /\ timer_map = <<>>
    /\ next_timer = UINT64_MAX
    /\ wake = UINT64_MAX
    /\ nb_fd_epoll = 1
    /\ socket = 0
    /\ readable = FALSE
    /\ clock = 0
    /\ sent = 0
    /\ received = 0
    /\ setups = 0
    /\ removed = {}
    /\ packets = 0

itti_send_msg_to_task ==
    /\ sent < MaxSend
    /\ sent' = sent + 1
    /\ message_queue' = Append(message_queue, [timer |-> FALSE, id |-> sent + 1])
    /\ sem' = sem + 1
    /\ UNCHANGED <<loop, pc, timer_map, next_timer, wake, nb_fd_epoll, socket,
                   readable, clock, received, setups, removed, packets>>

-----------------------------------------------------------------------------
(* itti_get_events_locked: expired timers are turned into messages, then the *)
(* lock is dropped and the owner sleeps in epoll_wait.                       *)

Expired == {id \in DOMAIN timer_map : timer_map[id].timeout < clock}

\* Timer ids are random numbers: the map yields expired timers in any order.
Orders(S) == {f \in [1..Cardinality(S) -> S] :
                 \A a, b \in DOMAIN f : a # b => f[a] # f[b]}

\* Mutant of AfterExpiry: a one-shot timer stays in the map.
AfterExpiry_keep ==
    [id \in DOMAIN timer_map |->
        IF id \in Expired
        THEN [timer_map[id] EXCEPT !.timeout = @ + timer_map[id].duration]
        ELSE timer_map[id]]

\* A periodic timer is due again one period later; the others are erased.
AfterExpiry ==
    [id \in {i \in DOMAIN timer_map : i \notin Expired \/ timer_map[i].periodic} |->
        IF id \in Expired
        THEN [timer_map[id] EXCEPT !.timeout = @ + timer_map[id].duration]
        ELSE timer_map[id]]

\* The earliest timeout of the timers m.
Earliest(m) ==
    LET timeouts == {m[id].timeout : id \in DOMAIN m} \cup {UINT64_MAX}
    IN  CHOOSE t \in timeouts : \A u \in timeouts : t <= u

ExpireTimers ==
    IF next_timer < clock
    THEN /\ \E order \in Orders(Expired) :
               message_queue' = message_queue
                   \o [i \in DOMAIN order |-> [timer |-> TRUE, id |-> order[i]]]
         /\ sem' = sem + Cardinality(Expired)
         /\ timer_map' = AfterExpiry
         /\ next_timer' = Earliest(AfterExpiry)
    ELSE UNCHANGED <<message_queue, sem, timer_map, next_timer>>

\* epoll_timeout is a signed int: for a timer that is already overdue the
\* difference is negative, which epoll_wait takes for "no timeout".
Sleep ==
    /\ ExpireTimers
    /\ wake' = IF next_timer' < clock THEN UINT64_MAX ELSE next_timer'

\* EINTR: the lock is taken again and the loop starts over.
interrupted ==
    /\ pc \in {"receive_epoll", "events_epoll"}
    /\ Sleep
    /\ UNCHANGED <<world, pc, socket, readable, received>>

\* Mutant of Ready: the socket is not in the epoll set.
Ready_sem_only == sem > 0

Ready == sem > 0 \/ (nb_fd_epoll = 2 /\ socket > 0)

\* Mutant of epoll_wait: an eventfd without EFD_SEMAPHORE, which a read resets.
epoll_wait_drain ==
    /\ pc \in {"receive_epoll", "events_epoll"}
    /\ Ready \/ (wake # UINT64_MAX /\ clock >= wake)
    /\ sem' = 0
    /\ readable' = (nb_fd_epoll = 2 /\ socket > 0)
    /\ pc' = IF pc = "receive_epoll" THEN "relock" ELSE "events"
    /\ UNCHANGED <<world, message_queue, timer_map, next_timer, wake, socket, received>>

\* epoll_wait returns, with at least one event or after its timeout, and the
\* semaphore is read once if it is among the events.
epoll_wait ==
    /\ pc \in {"receive_epoll", "events_epoll"}
    /\ Ready \/ (wake # UINT64_MAX /\ clock >= wake)
    /\ sem' = IF sem > 0 THEN sem - 1 ELSE 0
    /\ readable' = (nb_fd_epoll = 2 /\ socket > 0)
    /\ pc' = IF pc = "receive_epoll" THEN "relock" ELSE "events"
    /\ UNCHANGED <<world, message_queue, timer_map, next_timer, wake, socket, received>>

-----------------------------------------------------------------------------
(* The owner.                                                                *)

Pop ==
    /\ message_queue' = Tail(message_queue)
    /\ received' = IF Head(message_queue).timer THEN received ELSE received + 1

\* itti_receive_msg finds a message, at once or after a sleep.
receive_pop ==
    /\ pc \in {"top", "relock"}
    /\ message_queue # <<>>
    /\ Pop
    /\ pc' = "handle"
    /\ UNCHANGED <<world, sem, timer_map, next_timer, wake, socket, readable>>

\* With sem_fd as the only descriptor it sleeps until there is a message,
\* with another one it sleeps once.
receive_sleep ==
    /\ pc = "top" \/ (pc = "relock" /\ nb_fd_epoll = 1)
    /\ message_queue = <<>>
    /\ Sleep
    /\ pc' = "receive_epoll"
    /\ UNCHANGED <<world, socket, readable, received>>

\* "Legacy design: we return even if we have no message".
receive_null ==
    /\ pc = "relock" /\ nb_fd_epoll # 1
    /\ message_queue = <<>>
    /\ pc' = "handle"
    /\ UNCHANGED <<world, message_queue, sem, timer_map, next_timer, wake, socket,
                   readable, received>>

\* The end of an iteration for a task that only receives messages.
again ==
    /\ pc = "handle" /\ loop = "receive"
    /\ pc' = "top"
    /\ UNCHANGED <<world, message_queue, sem, timer_map, next_timer, wake, socket,
                   readable, received>>

\* The GTP-U, SCTP and NAS tasks go on with itti_get_events.
itti_get_events ==
    /\ pc = "handle" /\ loop = "events"
    /\ Sleep
    /\ pc' = "events_epoll"
    /\ UNCHANGED <<world, socket, readable, received>>

\* They read the socket if it is among the events; an event seen by the
\* epoll_wait of itti_receive_msg is not looked at.
read_socket ==
    /\ pc = "events"
    /\ socket' = IF readable THEN socket - 1 ELSE socket
    /\ readable' = FALSE
    /\ pc' = "top"
    /\ UNCHANGED <<world, message_queue, sem, timer_map, next_timer, wake, received>>

itti_poll_msg ==
    /\ pc = "handle" /\ loop = "poll"
    /\ IF message_queue # <<>> THEN Pop ELSE UNCHANGED <<message_queue, received>>
    /\ UNCHANGED <<world, pc, sem, timer_map, next_timer, wake, socket, readable>>

-----------------------------------------------------------------------------
(* What a handler may do with its own task.                                  *)

\* Mutant of timer_setup: next_timer is not brought forward.
timer_setup_keep_next(duration, periodic) ==
    /\ pc = "handle" /\ loop # "poll"
    /\ setups < MaxSetup
    /\ clock + duration < MaxClock
    /\ periodic => duration > 0
    /\ setups' = setups + 1
    /\ timer_map' = [id \in DOMAIN timer_map \cup {setups + 1} |->
                        IF id = setups + 1
                        THEN [timeout |-> clock + duration, duration |-> duration,
                              periodic |-> periodic]
                        ELSE timer_map[id]]
    /\ sem' = sem + 1
    /\ UNCHANGED <<loop, pc, message_queue, next_timer, wake, nb_fd_epoll, socket,
                   readable, clock, sent, received, removed, packets>>

\* Callers give periodic timers a period.
timer_setup(duration, periodic) ==
    /\ pc = "handle" /\ loop # "poll"
    /\ setups < MaxSetup
    /\ clock + duration < MaxClock
    /\ periodic => duration > 0
    /\ setups' = setups + 1
    /\ LET timer == [timeout |-> clock + duration, duration |-> duration,
                     periodic |-> periodic]
       IN  /\ timer_map' = [id \in DOMAIN timer_map \cup {setups + 1} |->
                               IF id = setups + 1 THEN timer ELSE timer_map[id]]
           /\ next_timer' = IF timer.timeout < next_timer THEN timer.timeout
                            ELSE next_timer
    /\ sem' = sem + 1
    /\ UNCHANGED <<loop, pc, message_queue, wake, nb_fd_epoll, socket, readable,
                   clock, sent, received, removed, packets>>

\* next_timer is not recomputed.
timer_remove(id) ==
    /\ pc = "handle"
    /\ id \in DOMAIN timer_map
    /\ timer_map' = [i \in DOMAIN timer_map \ {id} |-> timer_map[i]]
    /\ removed' = IF timer_map[id].periodic THEN removed ELSE removed \cup {id}
    /\ UNCHANGED <<loop, pc, message_queue, sem, next_timer, wake, nb_fd_epoll,
                   socket, readable, clock, sent, received, setups, packets>>

itti_subscribe_event_fd ==
    /\ pc = "handle" /\ loop = "events" /\ nb_fd_epoll = 1
    /\ nb_fd_epoll' = 2
    /\ UNCHANGED <<loop, pc, message_queue, sem, timer_map, next_timer, wake, socket,
                   readable, clock, sent, received, setups, removed, packets>>

itti_unsubscribe_event_fd ==
    /\ pc = "handle" /\ nb_fd_epoll = 2
    /\ nb_fd_epoll' = 1
    /\ UNCHANGED <<loop, pc, message_queue, sem, timer_map, next_timer, wake, socket,
                   readable, clock, sent, received, setups, removed, packets>>

-----------------------------------------------------------------------------
packet_arrives ==
    /\ packets < MaxPacket
    /\ packets' = packets + 1
    /\ socket' = socket + 1
    /\ UNCHANGED <<loop, pc, message_queue, sem, timer_map, next_timer, wake,
                   nb_fd_epoll, readable, clock, sent, received, setups, removed>>

tick ==
    /\ clock < MaxClock
    /\ clock' = clock + 1
    /\ UNCHANGED <<loop, pc, message_queue, sem, timer_map, next_timer, wake,
                   nb_fd_epoll, socket, readable, sent, received, setups, removed,
                   packets>>

Handler ==
    \/ \E duration \in Duration, periodic \in BOOLEAN : timer_setup(duration, periodic)
    \/ \E id \in TimerId : timer_remove(id)
    \/ itti_subscribe_event_fd
    \/ itti_unsubscribe_event_fd

Owner ==
    \/ receive_pop
    \/ receive_sleep
    \/ receive_null
    \/ epoll_wait
    \/ again
    \/ itti_get_events
    \/ read_socket
    \/ itti_poll_msg

Next ==
    \/ Owner
    \/ Handler
    \/ interrupted
    \/ itti_send_msg_to_task
    \/ packet_arrives
    \/ tick

Spec == Init /\ [][Next]_vars

\* The owner is a real-time thread whose handlers return; time passes.
FairSpec == Spec /\ WF_vars(Owner) /\ WF_vars(tick)

-----------------------------------------------------------------------------
TypeOK ==
    /\ loop \in Loops
    /\ pc \in {"top", "receive_epoll", "relock", "handle", "events_epoll", "events"}
    /\ message_queue \in Seq(Message)
    /\ sem \in Nat
    /\ DOMAIN timer_map \subseteq 1..setups
    /\ \A id \in DOMAIN timer_map : timer_map[id] \in Timer
    /\ next_timer \in Time /\ wake \in Time
    /\ nb_fd_epoll \in {1, 2}
    /\ socket \in Nat /\ readable \in BOOLEAN
    /\ clock \in 0..MaxClock
    /\ sent \in 0..MaxSend /\ received \in Nat
    /\ setups \in 0..MaxSetup
    /\ removed \subseteq TimerId
    /\ packets \in 0..MaxPacket

\* No message is slept on: when the owner is in epoll_wait with messages in
\* its queue the semaphore is positive, although itti_receive_msg takes
\* messages without reading the semaphore and itti_get_events reads the
\* semaphore without taking a message.
NoLostWakeup ==
    pc \in {"receive_epoll", "events_epoll"} /\ message_queue # <<>> => sem > 0

\* No timer is slept on: an epoll_wait that nothing else ends times out no
\* later than the earliest timer, timers set and removed since the last
\* computation of next_timer and overdue periodic timers included.
NoOversleep ==
    pc \in {"receive_epoll", "events_epoll"} /\ sem = 0 =>
        \A id \in DOMAIN timer_map : wake <= timer_map[id].timeout

\* A one-shot timer that timer_remove found does not expire any more: no
\* TIMER_HAS_EXPIRED of it is or gets into the queue.
RemovalIsFinal ==
    \A i \in DOMAIN message_queue :
        message_queue[i].timer => message_queue[i].id \notin removed

\* One epoll_wait serves three sources and none starves another: the task
\* always gets to a moment with no message in its queue, no timer that is
\* overdue and, while it is subscribed, no packet in its socket.
EveryEventServed ==
    []<>(/\ message_queue = <<>>
         /\ \A id \in DOMAIN timer_map :
                timer_map[id].periodic \/ clock < timer_map[id].timeout
         /\ nb_fd_epoll = 2 => socket = 0)
=============================================================================
