----------------------------- MODULE ThreadPool -----------------------------
(***************************************************************************)
(* The thread pool of common/utils/threadPool: clients push jobs on one    *)
(* incoming FIFO, workers pull them, run processingFunc and post the job   *)
(* on its response FIFO, and a client may abort every job of a key.        *)
(*                                                                         *)
(* Every operation on a FIFO runs under that FIFO's mutex, and the only    *)
(* nesting (a worker posts a response while it holds the incoming lock)    *)
(* always takes the two locks in the same order, so a critical section is  *)
(* one step.  What interleaves is the code between critical sections: a    *)
(* worker asleep in pthread_cond_wait, a job being run, a finished job     *)
(* whose worker has not taken the lock yet.                                *)
(***************************************************************************)
EXTENDS Sequences, FiniteSets, Naturals

CONSTANTS
    Job,            \* the notifiedFIFO_elt_t the clients allocate, each pushed once
    Worker,         \* the one_thread threads of the pool
    Key,            \* the keys jobs are tagged with
    KeyOf,          \* KeyOf[j] is elt->key
    HasResponse,    \* the jobs whose reponseFifo is set
    AbortKeys,      \* the keys clients call abortTpool/abortNotifiedFIFO with
    NoKey,          \* runningOnKey of a worker between two jobs ((uint64_t)-1)
    NoJob           \* the NULL pointer

ASSUME KeyAssumption == /\ KeyOf \in [Job -> Key]
                        /\ HasResponse \subseteq Job
                        /\ AbortKeys \subseteq Key
                        /\ NoKey \notin Key
                        /\ NoJob \notin Job

\* initNamedTpool exits when it has created no thread and no 'N' was given.
ASSUME WorkerAssumption == Worker # {}

VARIABLES
    activated,      \* tpool_t.activated: FALSE when the params hold an 'N'
    incoming,       \* tpool_t.incomingFifo: the chain from outF, and inF
    response,       \* the clients' response FIFO
    pc,             \* where each worker is
    elt,            \* the job a worker holds
    runningOnKey,   \* one_thread.runningOnKey
    abortFlag,      \* one_thread.abortFlag
    pushed,         \* jobs handed to pushTpool
    freed,          \* jobs released by delNotifiedFIFO_elt
    finished,       \* jobs whose processingFunc has returned
    posted,         \* jobs that were put on the response FIFO (history)
    aborted         \* jobs an abortTpool found queued or running (history)

vars == <<activated, incoming, response, pc, elt, runningOnKey, abortFlag,
          pushed, freed, finished, posted, aborted>>

worker == <<pc, elt, runningOnKey, abortFlag>>

-----------------------------------------------------------------------------
(* notifiedFIFO_t.  list is the chain of elements reachable from outF; inF   *)
(* is the pointer the next push writes through.                              *)

FIFO == [list : Seq(Job), inF : Job \cup {NoJob}]

initNotifiedFIFO == [list |-> <<>>, inF |-> NoJob]

\* A push links the element behind inF.  The element joins the chain when
\* outF is NULL or inF is the chain's last element; behind any other inF it
\* is unreachable from outF.
pushNotifiedFIFO(f, j) ==
    [list |-> IF f.list = <<>> \/ f.inF = f.list[Len(f.list)]
              THEN Append(f.list, j)
              ELSE f.list,
     inF  |-> j]

pullNotifiedFIFO(f) ==
    [list |-> Tail(f.list),
     inF  |-> IF Tail(f.list) = <<>> THEN NoJob ELSE f.inF]

\* The chain once the elements of key k are unlinked: the other elements in
\* their order.  The set has one member, the rest of the list read through the
\* increasing enumeration of the positions that are kept.
Unlinked(list, k) ==
    LET kept  == {i \in DOMAIN list : KeyOf[list[i]] # k}
        n     == Cardinality(kept)
        enums == {g \in [1..n -> kept] : \A a, b \in 1..n : a < b => g[a] < g[b]}
    IN  {[i \in 1..n |-> list[g[i]]] : g \in enums}

\* The abort loop unlinks the matching elements and resets inF only when the
\* whole chain is gone.
abortNotifiedFIFO(f, k) ==
    {[list |-> rest, inF |-> IF rest = <<>> THEN NoJob ELSE f.inF] :
        rest \in Unlinked(f.list, k)}

Elements(f) == {f.list[i] : i \in DOMAIN f.list}

Matching(f, k) == {j \in Elements(f) : KeyOf[j] = k}

-----------------------------------------------------------------------------
\* A worker is allocated with malloc: runningOnKey and abortFlag hold
\* whatever the memory held.
Init ==
    /\ activated \in BOOLEAN
    /\ incoming = initNotifiedFIFO
    /\ response = initNotifiedFIFO
    /\ pc = [w \in Worker |-> "pull"]
    /\ elt = [w \in Worker |-> NoJob]
    /\ runningOnKey \in [Worker -> Key \cup {NoKey}]
    /\ abortFlag \in [Worker -> BOOLEAN]
    /\ pushed = {}
    /\ freed = {}
    /\ finished = {}
    /\ posted = {}
    /\ aborted = {}

\* Mutant of condsignal: a push that does not signal.
condsignal_forgotten == pc' = pc

\* condsignal wakes one of the workers asleep on notifF, if there is one.
condsignal ==
    LET asleep == {w \in Worker : pc[w] = "wait"}
    IN  IF asleep = {}
        THEN pc' = pc
        ELSE \E w \in asleep : pc' = [pc EXCEPT ![w] = "pull"]

\* pushTpool with the pool activated: the job goes to the workers.
pushTpool(j) ==
    /\ activated
    /\ j \notin pushed
    /\ pushed' = pushed \cup {j}
    /\ incoming' = pushNotifiedFIFO(incoming, j)
    /\ condsignal
    /\ UNCHANGED <<activated, response, elt, runningOnKey, abortFlag, freed,
                   finished, posted, aborted>>

\* pushTpool in 'N' mode: the caller runs the job itself.
pushTpoolInline(j) ==
    /\ ~activated
    /\ j \notin pushed
    /\ pushed' = pushed \cup {j}
    /\ finished' = finished \cup {j}
    /\ IF j \in HasResponse
       THEN /\ response' = pushNotifiedFIFO(response, j)
            /\ posted' = posted \cup {j}
       ELSE UNCHANGED <<response, posted>>
    /\ UNCHANGED <<activated, incoming, worker, freed, aborted>>

\* pullNotifiedFifoRemember with nothing to do: sleep in condwait.
pullEmpty(w) ==
    /\ pc[w] = "pull"
    /\ incoming.list = <<>>
    /\ pc' = [pc EXCEPT ![w] = "wait"]
    /\ UNCHANGED <<activated, incoming, response, elt, runningOnKey, abortFlag,
                   pushed, freed, finished, posted, aborted>>

\* Mutant of pullNotifiedFifoRemember: abortFlag is not reset for the new job.
pullNotifiedFifoRemember_keep_flag(w) ==
    /\ pc[w] = "pull"
    /\ incoming.list # <<>>
    /\ elt' = [elt EXCEPT ![w] = Head(incoming.list)]
    /\ runningOnKey' = [runningOnKey EXCEPT ![w] = KeyOf[Head(incoming.list)]]
    /\ incoming' = pullNotifiedFIFO(incoming)
    /\ pc' = [pc EXCEPT ![w] = "run"]
    /\ UNCHANGED <<activated, response, abortFlag, pushed, freed, finished,
                   posted, aborted>>

pullNotifiedFifoRemember(w) ==
    /\ pc[w] = "pull"
    /\ incoming.list # <<>>
    /\ LET j == Head(incoming.list)
       IN  /\ elt' = [elt EXCEPT ![w] = j]
           /\ runningOnKey' = [runningOnKey EXCEPT ![w] = KeyOf[j]]
    /\ incoming' = pullNotifiedFIFO(incoming)
    /\ abortFlag' = [abortFlag EXCEPT ![w] = FALSE]
    /\ pc' = [pc EXCEPT ![w] = "run"]
    /\ UNCHANGED <<activated, response, pushed, freed, finished, posted, aborted>>

processingFunc(w) ==
    /\ pc[w] = "run"
    /\ finished' = finished \cup {elt[w]}
    /\ pc' = [pc EXCEPT ![w] = "done"]
    /\ UNCHANGED <<activated, incoming, response, elt, runningOnKey, abortFlag,
                   pushed, freed, posted, aborted>>

\* The tail of the worker loop for a job with a response FIFO, under the
\* incoming lock: an aborted job is freed, any other is posted.
respond(w) ==
    /\ pc[w] = "done"
    /\ elt[w] \in HasResponse
    /\ IF abortFlag[w]
       THEN /\ freed' = freed \cup {elt[w]}
            /\ UNCHANGED <<response, posted>>
       ELSE /\ response' = pushNotifiedFIFO(response, elt[w])
            /\ posted' = posted \cup {elt[w]}
            /\ UNCHANGED freed
    /\ runningOnKey' = [runningOnKey EXCEPT ![w] = NoKey]
    /\ elt' = [elt EXCEPT ![w] = NoJob]
    /\ pc' = [pc EXCEPT ![w] = "pull"]
    /\ UNCHANGED <<activated, incoming, abortFlag, pushed, finished, aborted>>

\* Without a response FIFO the loop goes back to the pull at once: the job
\* is not freed and runningOnKey keeps its value.
noResponse(w) ==
    /\ pc[w] = "done"
    /\ elt[w] \notin HasResponse
    /\ elt' = [elt EXCEPT ![w] = NoJob]
    /\ pc' = [pc EXCEPT ![w] = "pull"]
    /\ UNCHANGED <<activated, incoming, response, runningOnKey, abortFlag,
                   pushed, freed, finished, posted, aborted>>

\* Mutant of RunningOn: abortTpool looks at the queue only.
RunningOn_nobody(k) == {}

\* The workers abortTpool finds on the key, and the jobs it takes away.
RunningOn(k) == {w \in Worker : runningOnKey[w] = k}

\* Mutant of abortTpool: the job a worker is running is freed at once.
abortTpool_free_running(k) ==
    /\ incoming' \in abortNotifiedFIFO(incoming, k)
    /\ freed' = freed \cup Matching(incoming, k)
                      \cup {elt[w] : w \in {v \in RunningOn(k) : elt[v] # NoJob}}
    /\ abortFlag' = [w \in Worker |-> abortFlag[w] \/ w \in RunningOn(k)]
    /\ UNCHANGED <<activated, response, pc, elt, runningOnKey, pushed, finished,
                   posted, aborted>>

abortTpool(k) ==
    /\ incoming' \in abortNotifiedFIFO(incoming, k)
    /\ freed' = freed \cup Matching(incoming, k)
    /\ abortFlag' = [w \in Worker |-> abortFlag[w] \/ w \in RunningOn(k)]
    /\ aborted' = aborted \cup Matching(incoming, k)
                          \cup {elt[w] : w \in {v \in Worker :
                                  elt[v] # NoJob /\ KeyOf[elt[v]] = k}}
    /\ UNCHANGED <<activated, response, pc, elt, runningOnKey, pushed, finished,
                   posted>>

\* abortNotifiedFIFO on the response FIFO, which clients call next to
\* abortTpool to drop the answers already posted.
abortResponse(k) ==
    /\ response' \in abortNotifiedFIFO(response, k)
    /\ freed' = freed \cup Matching(response, k)
    /\ UNCHANGED <<activated, incoming, worker, pushed, finished, posted, aborted>>

\* pullTpool and tryPullTpool: the client takes an answer.  A client blocked
\* in pullTpool is the only sleeper on its FIFO, so sleeping and being
\* signalled is the guard of this step.
pullTpool ==
    /\ response.list # <<>>
    /\ response' = pullNotifiedFIFO(response)
    /\ UNCHANGED <<activated, incoming, worker, pushed, freed, finished, posted,
                   aborted>>

Next ==
    \/ \E j \in Job : pushTpool(j) \/ pushTpoolInline(j)
    \/ \E w \in Worker : \/ pullEmpty(w)
                         \/ pullNotifiedFifoRemember(w)
                         \/ processingFunc(w)
                         \/ respond(w)
                         \/ noResponse(w)
    \/ \E k \in AbortKeys : abortTpool(k) \/ abortResponse(k)
    \/ pullTpool

Spec == Init /\ [][Next]_vars

\* A worker is a real-time thread that is scheduled again and again, and
\* processingFunc returns; nothing is assumed of the clients.
WorkerStep(w) == \/ pullNotifiedFifoRemember(w)
                 \/ processingFunc(w)
                 \/ respond(w)
                 \/ noResponse(w)

FairSpec == Spec /\ \A w \in Worker : WF_vars(WorkerStep(w))

-----------------------------------------------------------------------------
TypeOK ==
    /\ activated \in BOOLEAN
    /\ incoming \in FIFO
    /\ response \in FIFO
    /\ pc \in [Worker -> {"pull", "wait", "run", "done"}]
    /\ elt \in [Worker -> Job \cup {NoJob}]
    /\ runningOnKey \in [Worker -> Key \cup {NoKey}]
    /\ abortFlag \in [Worker -> BOOLEAN]
    /\ pushed \subseteq Job /\ freed \subseteq Job /\ finished \subseteq Job
    /\ posted \subseteq Job /\ aborted \subseteq Job

\* No wakeup is lost: while a job waits in the incoming FIFO the pool is
\* never entirely asleep in pthread_cond_wait, although pushNotifiedFIFO
\* signals one worker only and that worker may find the job already taken.
NoLostWakeup ==
    incoming.list # <<>> => \E w \in Worker : pc[w] # "wait"

\* The promise of abortTpool: a job it found queued, running, or finished but
\* not yet answered is never posted afterwards.
AbortGuarantee == aborted \cap posted = {}

\* A job has one owner at a time: it is in one FIFO, once, or held by one
\* worker, and memory that was freed is owned by nobody.
SingleOwner ==
    LET holders(j) == {w \in Worker : elt[w] = j}
        places(f, j) == {i \in DOMAIN f.list : f.list[i] = j}
        owners(j) == Cardinality(holders(j)) + Cardinality(places(incoming, j))
                     + Cardinality(places(response, j))
    IN  \A j \in Job : owners(j) <= (IF j \in pushed \ freed THEN 1 ELSE 0)

\* A job pushed with a response FIFO is answered, unless an abort took a job:
\* after that inF may point to a freed element and a pushed job be out of the
\* workers' reach (abortTpool).
EveryJobAnswered ==
    \A j \in HasResponse : j \in pushed ~> (j \in posted \/ aborted # {})
=============================================================================
