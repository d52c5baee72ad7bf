--------------------------- MODULE PdcpRlcQueues ---------------------------
(***************************************************************************)
(* How the NR PDCP and RLC layers of one process call each other: each     *)
(* layer has a big lock (nr_pdcp_manager_lock, nr_rlc_manager_lock), and   *)
(* calls that cross from one layer to the other go through a queue and a   *)
(* thread that empties it (nr_pdcp_oai_api.c): rlc_data_req for downlink   *)
(* SDUs, pdcp_data_ind for uplink ones.  Both queues have one mutex and    *)
(* one condition variable on which the consumer waits when the queue is    *)
(* empty and the producers when it is full.                                *)
(*                                                                         *)
(* A queue is named after the layer that consumes it and whose lock its    *)
(* consumer takes.  A section under a queue's mutex is one step.           *)
(***************************************************************************)
EXTENDS Integers, Sequences, FiniteSets, SequencesExt

CONSTANTS
    DownThread,  \* tasks that call pdcp_data_req or du_rlc_data_req (GTP-U, RRC)
    UpThread,    \* threads of the MAC that call mac_rlc_data_ind
    QueueSize,   \* RLC_DATA_REQ_QUEUE_SIZE and PDCP_DATA_IND_QUEUE_SIZE
    MaxDown,     \* bound: SDUs going down
    MaxUp,       \* bound: SDUs going up
    NoThread

Layer == {"rlc", "pdcp"}
Consumer == [q \in Layer |-> IF q = "rlc" THEN "rlc_data_req_thread"
                                         ELSE "pdcp_data_ind_thread"]
Producer == DownThread \cup UpThread
Thread == Producer \cup {Consumer[q] : q \in Layer}

ASSUME ThreadAssumption ==
    /\ QueueSize \in Nat \ {0} /\ MaxDown \in Nat /\ MaxUp \in Nat
    /\ DownThread \cap UpThread = {}
    /\ NoThread \notin Thread /\ \A q \in Layer : Consumer[q] \notin Producer

VARIABLES
    buf,      \* q.q and pq.q: the slots
    start,    \* q.start
    length,   \* q.length
    waiting,  \* threads in pthread_cond_wait on q.c
    owner,    \* holder of each layer's big lock
    pc,
    slot,     \* i of each consumer: the slot it serves without the mutex
    bearer,   \* whether the UE's radio bearer exists in each layer
    exited,   \* the process has called exit(1)
    sent,     \* calls accepted by each queue, in order
    served    \* calls carried out, in order

vars == <<buf, start, length, waiting, owner, pc, slot, bearer, exited, sent, served>>

\* The layer a producer calls from, and the queue of the layer it calls.
From(t) == IF t \in DownThread THEN "pdcp" ELSE "rlc"
To(t)   == IF t \in DownThread THEN "rlc" ELSE "pdcp"
Bound(q) == IF q = "rlc" THEN MaxDown ELSE MaxUp

\* Calls accepted or about to be.
Started(q) == Len(sent[q]) + Cardinality({t \in Producer : To(t) = q /\ pc[t] = "put"})

\* pthread_cond_signal: one of the waiting threads, if any, runs again.
cond_signal(q) ==
    IF waiting[q] = {} THEN UNCHANGED waiting
    ELSE \E w \in waiting[q] : waiting' = [waiting EXCEPT ![q] = @ \ {w}]

cond_wait(q, t) == waiting' = [waiting EXCEPT ![q] = @ \cup {t}]

Goto(t, label) == pc' = [pc EXCEPT ![t] = label]

lock(l, t) ==
    /\ owner[l] = NoThread
    /\ owner' = [owner EXCEPT ![l] = t]

unlock(l) == owner' = [owner EXCEPT ![l] = NoThread]

----------------------------------------------------------------------------
(* Producers.                                                              *)

\* pdcp_data_req, or mac_rlc_data_ind: take the lock of the layer called; the
\* entity hands an SDU to the other layer.  Without a bearer nothing happens.
call(t) ==
    /\ pc[t] = "idle"
    /\ Started(To(t)) < Bound(To(t))
    /\ bearer[From(t)]
    /\ lock(From(t), t)
    /\ Goto(t, "put")
    /\ UNCHANGED <<buf, start, length, waiting, slot, bearer, exited, sent, served>>

\* du_rlc_data_req: no lock is taken.
du_rlc_data_req(t) ==
    /\ t \in DownThread /\ pc[t] = "idle"
    /\ Started("rlc") < Bound("rlc")
    /\ Goto(t, "put")
    /\ UNCHANGED <<buf, start, length, waiting, owner, slot, bearer, exited, sent,
                   served>>

\* enqueue_rlc_data_req and enqueue_pdcp_data_ind: the queue is full.
enqueue_wait(t) ==
    LET q == To(t)
    IN /\ pc[t] = "put" /\ t \notin waiting[q]
       /\ length[q] = QueueSize
       /\ cond_wait(q, t)
       /\ UNCHANGED <<buf, start, length, owner, pc, slot, bearer, exited, sent, served>>

\* Mutant of FreeSlot: the start is forgotten.
FreeSlot_from_zero(q) == length[q] % QueueSize

\* The slot behind the last one in use.
FreeSlot(q) == (start[q] + length[q]) % QueueSize

\* The queue has room.
enqueue(t) ==
    LET q == To(t)
        item == [from |-> t, nb |-> Len(sent[q])]
    IN /\ pc[t] = "put" /\ t \notin waiting[q]
       /\ length[q] < QueueSize
       /\ buf' = [buf EXCEPT ![q][FreeSlot(q)] = item]
       /\ length' = [length EXCEPT ![q] = @ + 1]
       /\ cond_signal(q)
       /\ sent' = [sent EXCEPT ![q] = Append(@, item)]
       /\ Goto(t, IF owner[From(t)] = t THEN "held" ELSE "idle")
       /\ UNCHANGED <<start, owner, slot, bearer, exited, served>>

\* One uplink PDU may complete several SDUs.
deliver_again(t) ==
    /\ t \in UpThread /\ pc[t] = "held"
    /\ Started(To(t)) < Bound(To(t))
    /\ Goto(t, "put")
    /\ UNCHANGED <<buf, start, length, waiting, owner, slot, bearer, exited, sent,
                   served>>

return(t) ==
    /\ pc[t] = "held"
    /\ unlock(From(t))
    /\ Goto(t, "idle")
    /\ UNCHANGED <<buf, start, length, waiting, slot, bearer, exited, sent, served>>

----------------------------------------------------------------------------
(* Consumers: rlc_data_req_thread and pdcp_data_ind_thread.                *)

fetch_wait(q) ==
    /\ pc[Consumer[q]] = "fetch" /\ Consumer[q] \notin waiting[q]
    /\ length[q] = 0
    /\ cond_wait(q, Consumer[q])
    /\ UNCHANGED <<buf, start, length, owner, pc, slot, bearer, exited, sent, served>>

fetch(q) ==
    /\ pc[Consumer[q]] = "fetch" /\ Consumer[q] \notin waiting[q]
    /\ length[q] > 0
    /\ slot' = [slot EXCEPT ![q] = start[q]]
    /\ Goto(Consumer[q], "lock")
    /\ UNCHANGED <<buf, start, length, waiting, owner, bearer, exited, sent, served>>

acquire(q) ==
    /\ pc[Consumer[q]] = "lock"
    /\ lock(q, Consumer[q])
    /\ Goto(Consumer[q], "serve")
    /\ UNCHANGED <<buf, start, length, waiting, slot, bearer, exited, sent, served>>

\* rlc_data_req, do_pdcp_data_ind: the arguments are read from the slot.  An SDU
\* for a bearer that does not exist is dropped by the RLC; the PDCP exits.
serve(q) ==
    /\ pc[Consumer[q]] = "serve"
    /\ exited' = (q = "pdcp" /\ ~bearer[q])
    /\ served' = [served EXCEPT ![q] = Append(@, buf[q][slot[q]])]
    /\ unlock(q)
    /\ Goto(Consumer[q], "pop")
    /\ UNCHANGED <<buf, start, length, waiting, slot, bearer, sent>>

\* Mutant of pop: only a producer would signal.
pop_no_signal(q) ==
    /\ pc[Consumer[q]] = "pop"
    /\ length' = [length EXCEPT ![q] = @ - 1]
    /\ start' = [start EXCEPT ![q] = (@ + 1) % QueueSize]
    /\ Goto(Consumer[q], "fetch")
    /\ UNCHANGED <<buf, waiting, owner, slot, bearer, exited, sent, served>>

pop(q) ==
    /\ pc[Consumer[q]] = "pop"
    /\ length' = [length EXCEPT ![q] = @ - 1]
    /\ start' = [start EXCEPT ![q] = (@ + 1) % QueueSize]
    /\ cond_signal(q)
    /\ Goto(Consumer[q], "fetch")
    /\ UNCHANGED <<buf, owner, slot, bearer, exited, sent, served>>

----------------------------------------------------------------------------
\* rrc_rlc_remove_ue and pdcp_remove_UE, called by the RRC one after the other.
remove_ue(l) ==
    /\ bearer[l] /\ owner[l] = NoThread
    /\ bearer' = [bearer EXCEPT ![l] = FALSE]
    /\ UNCHANGED <<buf, start, length, waiting, owner, pc, slot, exited, sent, served>>

Init ==
    /\ buf = [q \in Layer |-> [i \in 0 .. QueueSize - 1 |-> [from |-> NoThread, nb |-> 0]]]
    /\ start = [q \in Layer |-> 0] /\ length = [q \in Layer |-> 0]
    /\ waiting = [q \in Layer |-> {}]
    /\ owner = [l \in Layer |-> NoThread]
    /\ pc = [t \in Thread |-> IF t \in Producer THEN "idle" ELSE "fetch"]
    /\ slot = [q \in Layer |-> 0]
    /\ bearer = [l \in Layer |-> TRUE] /\ exited = FALSE
    /\ sent = [q \in Layer |-> <<>>] /\ served = [q \in Layer |-> <<>>]

\* The steps of a call in progress, which the scheduler lets end.
Progress(t) == enqueue_wait(t) \/ enqueue(t) \/ return(t)

Consume(q) == fetch_wait(q) \/ fetch(q) \/ acquire(q) \/ serve(q) \/ pop(q)

Next ==
    /\ ~exited
    /\ \/ \E t \in Producer : \/ call(t)
                              \/ du_rlc_data_req(t)
                              \/ deliver_again(t)
                              \/ Progress(t)
       \/ \E q \in Layer : Consume(q) \/ remove_ue(q)

Spec == Init /\ [][Next]_vars

\* Every thread is scheduled; a call, once made, is carried on.
FairSpec ==
    /\ Spec
    /\ \A t \in Producer : WF_vars(~exited /\ Progress(t))
    /\ \A q \in Layer : WF_vars(~exited /\ Consume(q))

----------------------------------------------------------------------------
(* Properties.                                                             *)

\* Types.
TypeOK ==
    /\ length \in [Layer -> 0 .. QueueSize] /\ start \in [Layer -> 0 .. QueueSize - 1]
    /\ slot \in [Layer -> 0 .. QueueSize - 1]
    /\ owner \in [Layer -> Thread \cup {NoThread}]
    /\ \A q \in Layer : waiting[q] \subseteq Thread
    /\ pc \in [Thread -> {"idle", "put", "held", "fetch", "lock", "serve", "pop"}]

\* A consumer reads its slot outside the mutex, while producers write: what is
\* carried out is nevertheless what was enqueued, in order, none lost or twice.
ServedInOrder == \A q \in Layer : IsPrefix(served[q], sent[q])

\* One condition variable serves producers and consumer and each signal wakes
\* a single thread; nevertheless none is left asleep: unless the process has
\* exited there is always a later moment when every call of pdcp_data_req,
\* du_rlc_data_req and mac_rlc_data_ind has returned and been carried out.
CallsEnd ==
    []<>(\/ exited
         \/ /\ \A q \in Layer : served[q] = sent[q]
            /\ \A t \in Producer : pc[t] = "idle")

\* The queues remove the deadlock between the two big locks: it never happens
\* that each layer's lock is held by a thread that waits for room in the queue
\* the other lock's owner keeps from being emptied.
NoCircularWait ==
    ~ \A l \in Layer :
        /\ owner[l] \in Producer
        /\ owner[l] \in waiting[To(owner[l])]
        /\ pc[Consumer[l]] = "lock"
=============================================================================
