-------------------------- MODULE ThreadPoolProofs --------------------------
(***************************************************************************)
(* The thread pool for any set of jobs, workers and keys: no wakeup of a   *)
(* worker is lost, and abortTpool keeps its promise.                       *)
(***************************************************************************)
EXTENDS ThreadPool, FiniteSetTheorems, TLAPS

NoDuplicates(f) == \A a, b \in DOMAIN f.list : f.list[a] = f.list[b] => a = b

\* Linking an element adds at most that element to the chain.
LEMMA PushFacts ==
    ASSUME NEW f \in FIFO, NEW j \in Job
    PROVE  /\ pushNotifiedFIFO(f, j) \in FIFO
           /\ Elements(pushNotifiedFIFO(f, j)) \subseteq Elements(f) \cup {j}
           /\ NoDuplicates(f) /\ j \notin Elements(f)
              => NoDuplicates(pushNotifiedFIFO(f, j))
BY DEF FIFO, pushNotifiedFIFO, Elements, NoDuplicates

\* Unlinking the head leaves elements that were there, and not the head.
LEMMA PullFacts ==
    ASSUME NEW f \in FIFO, f.list # <<>>
    PROVE  /\ pullNotifiedFIFO(f) \in FIFO
           /\ Head(f.list) \in Job
           /\ Head(f.list) \in Elements(f)
           /\ Elements(pullNotifiedFIFO(f)) \subseteq Elements(f)
           /\ NoDuplicates(f)
              => /\ NoDuplicates(pullNotifiedFIFO(f))
                 /\ Head(f.list) \notin Elements(pullNotifiedFIFO(f))
BY DEF FIFO, pullNotifiedFIFO, Elements, NoDuplicates

\* The abort loop leaves only elements that were there and have another key.
LEMMA AbortFacts ==
    ASSUME NEW f \in FIFO, NEW k \in Key, NEW g \in abortNotifiedFIFO(f, k)
    PROVE  /\ g \in FIFO
           /\ \A j \in Elements(g) : j \in Elements(f) /\ KeyOf[j] # k
           /\ NoDuplicates(f) => NoDuplicates(g)
<1> DEFINE kept == {i \in DOMAIN f.list : KeyOf[f.list[i]] # k}
           n == Cardinality(kept)
<1>1. n \in Nat
  <2>1. IsFiniteSet(1..Len(f.list)) BY FS_Interval DEF FIFO
  <2>2. kept \subseteq 1..Len(f.list) BY DEF FIFO
  <2> QED BY <2>1, <2>2, FS_Subset, FS_CardinalityType
<1>8. PICK rest \in Unlinked(f.list, k) :
         g = [list |-> rest, inF |-> IF rest = <<>> THEN NoJob ELSE f.inF]
  BY DEF abortNotifiedFIFO
<1>9. g.list = rest /\ g.inF \in {NoJob, f.inF}
  BY <1>8
<1>2. PICK e \in [1..n -> kept] :
         /\ \A a, b \in 1..n : a < b => e[a] < e[b]
         /\ rest = [i \in 1..n |-> f.list[e[i]]]
  BY DEF Unlinked
<1> HIDE DEF n
<1>3. \A i \in 1..n : e[i] \in DOMAIN f.list /\ KeyOf[f.list[e[i]]] # k
  BY <1>2
<1>4. g.list \in Seq(Job) /\ Len(g.list) = n /\ DOMAIN g.list = 1..n
  <2>1. f.list \in [1..Len(f.list) -> Job] BY DEF FIFO
  <2>2. g.list \in [1..n -> Job] BY <1>9, <1>2, <1>3, <2>1
  <2> QED BY <1>1, <2>2
<1>5. g \in FIFO
  BY <1>8, <1>9, <1>4 DEF FIFO
<1>6. \A j \in Elements(g) : j \in Elements(f) /\ KeyOf[j] # k
  BY <1>9, <1>2, <1>3, <1>4 DEF Elements
<1>7. ASSUME NoDuplicates(f) PROVE NoDuplicates(g)
  <2> SUFFICES ASSUME NEW a \in 1..n, NEW b \in 1..n, g.list[a] = g.list[b], a # b
               PROVE FALSE
    BY <1>4 DEF NoDuplicates
  <2>1. e[a] = e[b] BY <1>9, <1>2, <1>3, <1>7 DEF NoDuplicates
  <2>2. e[a] \in Int /\ e[b] \in Int BY <1>3 DEF FIFO
  <2>3. a < b \/ b < a BY <1>1
  <2> QED BY <1>2, <2>1, <2>2, <2>3
<1> QED BY <1>5, <1>6, <1>7
-----------------------------------------------------------------------------
(* The inductive invariant.  A worker that holds a job advertises its key in *)
(* runningOnKey until it has answered, so an abort always finds it; a job    *)
(* that is queued or held has not been posted; an aborted job can only be    *)
(* held by a worker whose abortFlag is set.                                  *)

HeldJob ==
    \A w \in Worker :
        IF pc[w] \in {"run", "done"}
        THEN /\ elt[w] \in pushed \ posted
             /\ elt[w] \notin Elements(incoming)
             /\ runningOnKey[w] = KeyOf[elt[w]]
        ELSE elt[w] = NoJob

HeldOnce ==
    \A v, w \in Worker : elt[v] = elt[w] /\ elt[v] # NoJob => v = w

QueuedJob ==
    /\ NoDuplicates(incoming)
    /\ Elements(incoming) \subseteq pushed \ (posted \cup aborted)

AbortedJob ==
    /\ aborted \subseteq pushed \ posted
    /\ posted \subseteq pushed
    /\ \A w \in Worker : elt[w] \in aborted => abortFlag[w]

IInv == TypeOK /\ NoLostWakeup /\ HeldJob /\ HeldOnce /\ QueuedJob /\ AbortedJob

LEMMA InitIInv == Init => IInv
BY KeyAssumption, WorkerAssumption
   DEF Init, IInv, TypeOK, NoLostWakeup, HeldJob, HeldOnce, QueuedJob, AbortedJob,
       NoDuplicates, Elements, FIFO, initNotifiedFIFO

LEMMA PushStep ==
    ASSUME IInv, NEW j \in Job, pushTpool(j) PROVE IInv'
<1> USE KeyAssumption DEF IInv
<1>1. /\ incoming' \in FIFO
      /\ Elements(incoming') \subseteq Elements(incoming) \cup {j}
      /\ NoDuplicates(incoming)'
  BY PushFacts DEF TypeOK, pushTpool, QueuedJob, NoDuplicates
<1>2. /\ pc' \in [Worker -> {"pull", "wait", "run", "done"}]
      /\ \E w \in Worker : pc'[w] # "wait"
      /\ \A w \in Worker : pc'[w] \in {"run", "done"} <=> pc[w] \in {"run", "done"}
  BY WorkerAssumption DEF TypeOK, pushTpool, condsignal
<1>3. TypeOK' BY <1>1, <1>2 DEF TypeOK, pushTpool
<1>4. NoLostWakeup' BY <1>2 DEF NoLostWakeup
<1>5. HeldJob' BY <1>1, <1>2 DEF HeldJob, pushTpool, TypeOK
<1>6. HeldOnce' BY DEF HeldOnce, pushTpool
<1>7. QueuedJob' BY <1>1 DEF QueuedJob, pushTpool, AbortedJob
<1>8. AbortedJob' BY DEF AbortedJob, pushTpool
<1> QED BY <1>3, <1>4, <1>5, <1>6, <1>7, <1>8

LEMMA InlineStep ==
    ASSUME IInv, NEW j \in Job, pushTpoolInline(j) PROVE IInv'
<1> USE KeyAssumption DEF IInv
<1>1. response' \in FIFO
  BY PushFacts DEF TypeOK, pushTpoolInline
<1>2. /\ pushed' = pushed \cup {j} /\ j \notin pushed
      /\ posted \subseteq posted' /\ posted' \subseteq posted \cup {j}
      /\ UNCHANGED <<activated, incoming, pc, elt, runningOnKey, abortFlag, freed, aborted>>
  BY DEF pushTpoolInline, worker
<1>3. TypeOK' BY <1>1, <1>2 DEF TypeOK, pushTpoolInline
<1>4. NoLostWakeup' BY <1>2 DEF NoLostWakeup
<1>5. HeldJob' BY <1>2 DEF HeldJob, Elements
<1>6. HeldOnce' BY <1>2 DEF HeldOnce
<1>7. QueuedJob' BY <1>2 DEF QueuedJob, AbortedJob, NoDuplicates, Elements
<1>8. AbortedJob' BY <1>2 DEF AbortedJob
<1> QED BY <1>3, <1>4, <1>5, <1>6, <1>7, <1>8

LEMMA PullStep ==
    ASSUME IInv, NEW w \in Worker, pullNotifiedFifoRemember(w) PROVE IInv'
<1> USE KeyAssumption DEF IInv
<1> DEFINE j == Head(incoming.list)
<1>1. /\ incoming' \in FIFO
      /\ j \in Job /\ j \in Elements(incoming)
      /\ Elements(incoming') \subseteq Elements(incoming)
      /\ NoDuplicates(incoming)'
      /\ j \notin Elements(incoming')
  BY PullFacts DEF TypeOK, pullNotifiedFifoRemember, QueuedJob, NoDuplicates
<1> HIDE DEF j
<1>2. /\ elt' = [elt EXCEPT ![w] = j]
      /\ runningOnKey' = [runningOnKey EXCEPT ![w] = KeyOf[j]]
      /\ abortFlag' = [abortFlag EXCEPT ![w] = FALSE]
      /\ pc' = [pc EXCEPT ![w] = "run"]
      /\ UNCHANGED <<activated, response, pushed, freed, finished, posted, aborted>>
  BY DEF pullNotifiedFifoRemember, j
<1>3. j \in pushed /\ j \notin posted /\ j \notin aborted
  BY <1>1 DEF QueuedJob
<1>4. \A v \in Worker : elt[v] # j
  BY <1>1 DEF HeldJob
<1>5. TypeOK' BY <1>1, <1>2 DEF TypeOK
<1>6. NoLostWakeup' BY <1>2 DEF NoLostWakeup, TypeOK
<1>7. HeldJob'
  <2> SUFFICES ASSUME NEW v \in Worker
               PROVE IF pc'[v] \in {"run", "done"}
                     THEN /\ elt'[v] \in pushed' \ posted'
                          /\ elt'[v] \notin Elements(incoming')
                          /\ runningOnKey'[v] = KeyOf[elt'[v]]
                     ELSE elt'[v] = NoJob
    BY DEF HeldJob, Elements
  <2>1. CASE v = w BY <2>1, <1>1, <1>2, <1>3 DEF TypeOK
  <2>2. CASE v # w BY <2>2, <1>1, <1>2 DEF TypeOK, HeldJob
  <2> QED BY <2>1, <2>2
<1>8. HeldOnce' BY <1>2, <1>4 DEF HeldOnce, TypeOK
<1>9. QueuedJob' BY <1>1, <1>2 DEF QueuedJob, Elements
<1>10. AbortedJob' BY <1>2, <1>3 DEF AbortedJob, TypeOK
<1> QED BY <1>5, <1>6, <1>7, <1>8, <1>9, <1>10

LEMMA EmptyStep ==
    ASSUME IInv, NEW w \in Worker, pullEmpty(w) PROVE IInv'
BY DEF IInv, pullEmpty, TypeOK, NoLostWakeup, HeldJob, HeldOnce, QueuedJob, AbortedJob,
       NoDuplicates, Elements

LEMMA RunStep ==
    ASSUME IInv, NEW w \in Worker, processingFunc(w) PROVE IInv'
<1> USE DEF IInv
<1>1. elt[w] \in Job BY DEF processingFunc, HeldJob, TypeOK
<1>2. TypeOK' BY <1>1 DEF processingFunc, TypeOK
<1>3. NoLostWakeup' BY DEF processingFunc, NoLostWakeup, TypeOK
<1>4. HeldJob' /\ HeldOnce'
  BY DEF processingFunc, HeldJob, HeldOnce, Elements, TypeOK
<1>5. QueuedJob' /\ AbortedJob'
  BY DEF processingFunc, QueuedJob, AbortedJob, Elements, NoDuplicates
<1> QED BY <1>2, <1>3, <1>4, <1>5

LEMMA RespondStep ==
    ASSUME IInv, NEW w \in Worker, respond(w) PROVE IInv'
<1> USE KeyAssumption DEF IInv
<1>1. elt[w] \in Job /\ elt[w] \in pushed \ posted /\ elt[w] \notin Elements(incoming)
  BY DEF respond, HeldJob, TypeOK
<1>2. /\ elt' = [elt EXCEPT ![w] = NoJob]
      /\ runningOnKey' = [runningOnKey EXCEPT ![w] = NoKey]
      /\ pc' = [pc EXCEPT ![w] = "pull"]
      /\ UNCHANGED <<activated, incoming, abortFlag, pushed, finished, aborted>>
  BY DEF respond
<1>3. /\ response' \in FIFO
      /\ freed' \subseteq Job
      /\ posted' \subseteq posted \cup {elt[w]}
      /\ elt[w] \in posted' => ~abortFlag[w]
  BY <1>1, PushFacts DEF respond, TypeOK
<1>4. elt[w] \in posted' => elt[w] \notin aborted
  BY <1>3 DEF AbortedJob
<1>5. TypeOK' BY <1>1, <1>2, <1>3 DEF TypeOK
<1>6. NoLostWakeup' BY <1>2 DEF NoLostWakeup, TypeOK
<1>7. HeldJob'
  BY <1>1, <1>2, <1>3 DEF HeldJob, HeldOnce, TypeOK, Elements
<1>8. HeldOnce' BY <1>2 DEF HeldOnce, TypeOK
<1>9. QueuedJob' BY <1>1, <1>2, <1>3 DEF QueuedJob, Elements, NoDuplicates
<1>10. AbortedJob' BY <1>1, <1>2, <1>3, <1>4 DEF AbortedJob, TypeOK
<1> QED BY <1>5, <1>6, <1>7, <1>8, <1>9, <1>10

LEMMA NoResponseStep ==
    ASSUME IInv, NEW w \in Worker, noResponse(w) PROVE IInv'
<1> USE KeyAssumption DEF IInv
<1>1. TypeOK' BY DEF noResponse, TypeOK
<1>2. NoLostWakeup' BY DEF noResponse, NoLostWakeup, TypeOK
<1>3. HeldJob' /\ HeldOnce'
  BY DEF noResponse, HeldJob, HeldOnce, Elements, TypeOK
<1>4. QueuedJob' /\ AbortedJob'
  BY DEF noResponse, QueuedJob, AbortedJob, Elements, NoDuplicates, TypeOK
<1> QED BY <1>1, <1>2, <1>3, <1>4

LEMMA AbortStep ==
    ASSUME IInv, NEW k \in AbortKeys, abortTpool(k) PROVE IInv'
<1> USE KeyAssumption DEF IInv
<1>1. /\ incoming' \in FIFO
      /\ \A j \in Elements(incoming') : j \in Elements(incoming) /\ KeyOf[j] # k
      /\ NoDuplicates(incoming)'
  <2>1. k \in Key OBVIOUS
  <2> QED BY <2>1, AbortFacts DEF TypeOK, abortTpool, QueuedJob, NoDuplicates
<1>2. Elements(incoming) \subseteq Job BY DEF TypeOK, FIFO, Elements
<1>3. incoming'.list # <<>> => incoming.list # <<>>
  <2>1. incoming'.list # <<>> => \E j : j \in Elements(incoming')
    BY <1>1 DEF FIFO, Elements
  <2>2. incoming.list = <<>> => Elements(incoming) = {} BY DEF Elements
  <2> QED BY <1>1, <2>1, <2>2
<1>4. \A j \in aborted' \ aborted :
         /\ KeyOf[j] = k
         /\ \/ j \in Elements(incoming)
            \/ \E w \in Worker : elt[w] = j /\ elt[w] # NoJob
  BY DEF abortTpool, Matching
<1>5. \A w \in Worker : elt[w] # NoJob => runningOnKey[w] = KeyOf[elt[w]]
  BY DEF HeldJob
<1>6. \A w \in Worker : elt[w] # NoJob => elt[w] \in pushed \ posted
  BY DEF HeldJob
<1>7. /\ abortFlag' = [w \in Worker |-> abortFlag[w] \/ w \in RunningOn(k)]
      /\ UNCHANGED <<activated, response, pc, elt, runningOnKey, pushed, finished, posted>>
  BY DEF abortTpool
<1>8. TypeOK'
  <2>1. abortFlag' \in [Worker -> BOOLEAN] BY <1>7
  <2>2. freed' \subseteq Job BY <1>2 DEF abortTpool, Matching, TypeOK
  <2>3. aborted' \subseteq Job BY <1>2, <1>4 DEF TypeOK
  <2> QED BY <1>1, <1>7, <2>1, <2>2, <2>3 DEF TypeOK
<1>9. NoLostWakeup' BY <1>3, <1>7 DEF NoLostWakeup
<1>10. HeldJob' BY <1>1, <1>7 DEF HeldJob, Elements
<1>11. HeldOnce' BY <1>7 DEF HeldOnce
<1>12. QueuedJob'
  <2>1. \A j \in Elements(incoming') : j \notin aborted' BY <1>1, <1>4 DEF QueuedJob
  <2> QED BY <1>1, <1>7, <2>1 DEF QueuedJob, Elements
<1>13. AbortedJob'
  <2>1. aborted' \subseteq pushed \ posted
    BY <1>4, <1>6 DEF QueuedJob, AbortedJob
  <2>2. ASSUME NEW w \in Worker, elt[w] \in aborted' PROVE abortFlag'[w]
    <3>1. elt[w] # NoJob BY <1>8, <2>2 DEF TypeOK
    <3>2. CASE elt[w] \in aborted BY <1>7, <3>2 DEF AbortedJob
    <3>3. CASE elt[w] \notin aborted
      BY <1>4, <1>5, <1>7, <2>2, <3>1, <3>3 DEF RunningOn
    <3> QED BY <3>2, <3>3
  <2> QED BY <1>7, <2>1, <2>2 DEF AbortedJob
<1> QED BY <1>8, <1>9, <1>10, <1>11, <1>12, <1>13

\* The client's operations on the response FIFO touch nothing the invariant
\* relates.
LEMMA ResponseStep ==
    ASSUME IInv, pullTpool \/ \E k \in AbortKeys : abortResponse(k) PROVE IInv'
<1> USE KeyAssumption DEF IInv
<1>1. /\ response' \in FIFO
      /\ freed' \subseteq Job
      /\ UNCHANGED <<activated, incoming, pc, elt, runningOnKey, abortFlag, pushed,
                     finished, posted, aborted>>
  <2>1. CASE pullTpool BY <2>1, PullFacts DEF pullTpool, TypeOK, worker
  <2>2. ASSUME NEW k \in AbortKeys, abortResponse(k) PROVE <1>1!:
    <3>1. k \in Key OBVIOUS
    <3>2. response' \in FIFO BY <2>2, <3>1, AbortFacts DEF abortResponse, TypeOK
    <3>3. Elements(response) \subseteq Job BY DEF TypeOK, FIFO, Elements
    <3> QED BY <2>2, <3>2, <3>3 DEF abortResponse, TypeOK, worker, Matching
  <2> QED BY <2>1, <2>2
<1>2. TypeOK' BY <1>1 DEF TypeOK
<1>3. NoLostWakeup' BY <1>1 DEF NoLostWakeup
<1>4. HeldJob' /\ HeldOnce' BY <1>1 DEF HeldJob, HeldOnce, Elements
<1>5. QueuedJob' /\ AbortedJob' BY <1>1 DEF QueuedJob, AbortedJob, Elements, NoDuplicates
<1> QED BY <1>2, <1>3, <1>4, <1>5

LEMMA NextIInv == IInv /\ [Next]_vars => IInv'
<1> SUFFICES ASSUME IInv, [Next]_vars PROVE IInv'
  OBVIOUS
<1>1. CASE UNCHANGED vars
  BY <1>1, SMTT(60) DEF vars, IInv, TypeOK, NoLostWakeup, HeldJob, HeldOnce, QueuedJob, AbortedJob,
              Elements, NoDuplicates
<1>2. ASSUME NEW j \in Job, pushTpool(j) \/ pushTpoolInline(j) PROVE IInv'
  BY <1>2, PushStep, InlineStep
<1>3. ASSUME NEW w \in Worker,
             \/ pullEmpty(w) \/ pullNotifiedFifoRemember(w) \/ processingFunc(w)
             \/ respond(w) \/ noResponse(w)
      PROVE IInv'
  BY <1>3, EmptyStep, PullStep, RunStep, RespondStep, NoResponseStep
<1>4. ASSUME NEW k \in AbortKeys, abortTpool(k) PROVE IInv'
  BY <1>4, AbortStep
<1>5. CASE pullTpool \/ \E k \in AbortKeys : abortResponse(k)
  BY <1>5, ResponseStep
<1> QED BY <1>1, <1>2, <1>3, <1>4, <1>5 DEF Next

LEMMA Invariance == Spec => []IInv
BY InitIInv, NextIInv, PTL DEF Spec

\* Every variable of the pool keeps its type.
THEOREM TypeCorrect == Spec => []TypeOK
<1>1. IInv => TypeOK BY DEF IInv
<1> QED BY <1>1, Invariance, PTL

\* pushNotifiedFIFO's single condsignal is enough: with any number of workers
\* and jobs, a queued job never finds the whole pool asleep.
THEOREM WakeupTheorem == Spec => []NoLostWakeup
<1>1. IInv => NoLostWakeup BY DEF IInv
<1> QED BY <1>1, Invariance, PTL

\* abortTpool's promise holds for every pool: no job it found is posted.
THEOREM AbortTheorem == Spec => []AbortGuarantee
<1>1. IInv => AbortGuarantee BY DEF IInv, AbortedJob, AbortGuarantee
<1> QED BY <1>1, Invariance, PTL
-----------------------------------------------------------------------------
(* What makes SingleOwner inductive: an answer in the response FIFO is there *)
(* once and was posted, so it is neither queued nor held, and memory that    *)
(* was freed is not reached from a FIFO or from a worker.                    *)

Owned ==
    /\ NoDuplicates(response)
    /\ Elements(response) \subseteq posted
    /\ freed \subseteq pushed
    /\ freed \cap Elements(incoming) = {}
    /\ freed \cap Elements(response) = {}
    /\ \A w \in Worker : elt[w] \notin freed

LEMMA OwnedPush ==
    ASSUME IInv, Owned, NEW j \in Job, pushTpool(j) \/ pushTpoolInline(j) PROVE Owned'
<1> USE DEF IInv
<1>1. j \notin pushed /\ pushed' = pushed \cup {j} /\ freed' = freed /\ elt' = elt
  BY DEF pushTpool, pushTpoolInline, worker
<1>2. j \notin freed /\ j \notin posted /\ j \notin Elements(response)
  BY <1>1 DEF Owned, AbortedJob
<1>3. CASE pushTpool(j)
  <2>1. Elements(incoming') \subseteq Elements(incoming) \cup {j}
    BY <1>3, PushFacts DEF TypeOK, pushTpool
  <2>2. response' = response /\ posted' = posted BY <1>3 DEF pushTpool
  <2>3. Elements(response)' = Elements(response) BY <2>2 DEF Elements
  <2>4. Elements(incoming)' = Elements(incoming') BY DEF Elements
  <2> QED BY <1>1, <1>2, <2>1, <2>2, <2>3, <2>4 DEF Owned, NoDuplicates
<1>4. CASE pushTpoolInline(j)
  <2>1. incoming' = incoming BY <1>4 DEF pushTpoolInline
  <2>2. CASE j \in HasResponse
    <3>1. /\ response' = pushNotifiedFIFO(response, j) /\ posted' = posted \cup {j}
      BY <1>4, <2>2 DEF pushTpoolInline
    <3>2. Elements(response') \subseteq Elements(response) \cup {j} /\ NoDuplicates(response')
      BY <1>2, <3>1, PushFacts DEF TypeOK, Owned
    <3> QED BY <1>1, <1>2, <2>1, <3>1, <3>2, SMTT(60) DEF Owned, NoDuplicates, Elements
  <2>3. CASE j \notin HasResponse
    <3>1. response' = response /\ posted' = posted BY <1>4, <2>3 DEF pushTpoolInline
    <3> QED BY <1>1, <2>1, <3>1, SMTT(60) DEF Owned, NoDuplicates, Elements
  <2> QED BY <2>2, <2>3
<1> QED BY <1>3, <1>4

LEMMA OwnedPull ==
    ASSUME IInv, Owned, NEW w \in Worker, pullNotifiedFifoRemember(w) PROVE Owned'
<1> USE DEF IInv
<1>1. /\ Head(incoming.list) \in Elements(incoming)
      /\ Elements(incoming') \subseteq Elements(incoming)
  BY PullFacts DEF TypeOK, pullNotifiedFifoRemember
<1>2. /\ elt' = [elt EXCEPT ![w] = Head(incoming.list)]
      /\ UNCHANGED <<response, pushed, freed, posted>>
  BY DEF pullNotifiedFifoRemember
<1>3. \A v \in Worker : elt'[v] \notin freed
  BY <1>1, <1>2 DEF Owned, TypeOK
<1> QED BY <1>1, <1>2, <1>3, SMTT(60) DEF Owned, NoDuplicates, Elements

LEMMA OwnedRespond ==
    ASSUME IInv, Owned, NEW w \in Worker, respond(w) PROVE Owned'
<1> USE KeyAssumption DEF IInv
<1>1. /\ elt[w] \in Job /\ elt[w] \in pushed \ posted
      /\ elt[w] \notin Elements(incoming) /\ elt[w] \notin Elements(response)
  BY DEF respond, HeldJob, TypeOK, Owned
<1>2. /\ elt' = [elt EXCEPT ![w] = NoJob]
      /\ UNCHANGED <<incoming, pushed>>
  BY DEF respond
<1>3. \A v \in Worker : elt'[v] # elt[w] /\ (elt'[v] = NoJob \/ elt'[v] = elt[v])
  BY <1>1, <1>2 DEF HeldOnce, TypeOK
<1>4. NoJob \notin freed BY DEF TypeOK
<1>5. CASE abortFlag[w]
  <2>1. freed' = freed \cup {elt[w]} /\ response' = response /\ posted' = posted
    BY <1>5 DEF respond
  <2>2. \A v \in Worker : elt'[v] \notin freed'
    BY <1>1, <1>3, <1>4, <2>1 DEF Owned
  <2> QED BY <1>1, <1>2, <2>1, <2>2, SMTT(60) DEF Owned, NoDuplicates, Elements
<1>6. CASE ~abortFlag[w]
  <2>1. /\ response' = pushNotifiedFIFO(response, elt[w])
        /\ posted' = posted \cup {elt[w]} /\ freed' = freed
    BY <1>6 DEF respond
  <2>2. /\ Elements(response') \subseteq Elements(response) \cup {elt[w]}
        /\ NoDuplicates(response')
    BY <1>1, <2>1, PushFacts DEF TypeOK, Owned
  <2>3. elt[w] \notin freed BY DEF Owned
  <2>4. \A v \in Worker : elt'[v] \notin freed'
    BY <1>3, <1>4, <2>1 DEF Owned
  <2> QED BY <1>1, <1>2, <2>1, <2>2, <2>3, <2>4, SMTT(60) DEF Owned, NoDuplicates, Elements
<1> QED BY <1>5, <1>6

LEMMA OwnedAbort ==
    ASSUME IInv, Owned, NEW k \in AbortKeys, abortTpool(k) \/ abortResponse(k) PROVE Owned'
<1> USE KeyAssumption DEF IInv
<1>1. k \in Key OBVIOUS
<1>2. UNCHANGED <<elt, pushed, posted>> BY DEF abortTpool, abortResponse, worker
<1>3. \A w \in Worker : elt[w] \notin Elements(incoming) /\ elt[w] \notin Elements(response)
  <2>1. \A w \in Worker : elt[w] # NoJob => elt[w] \notin Elements(incoming) \cup posted
    BY DEF HeldJob
  <2>2. NoJob \notin Elements(incoming) \cup posted BY DEF TypeOK, QueuedJob
  <2> QED BY <2>1, <2>2 DEF Owned
<1>4. CASE abortTpool(k)
  <2>1. \A j \in Elements(incoming') : j \in Elements(incoming) /\ KeyOf[j] # k
    BY <1>1, <1>4, AbortFacts DEF TypeOK, abortTpool
  <2>2. freed' = freed \cup Matching(incoming, k) /\ response' = response
    BY <1>4 DEF abortTpool
  <2>3. freed' \cap Elements(incoming') = {} BY <2>1, <2>2 DEF Owned, Matching
  <2>4. Matching(incoming, k) \subseteq Elements(incoming) BY DEF Matching
  <2>5. Elements(incoming) \subseteq pushed \ posted BY DEF QueuedJob
  <2> QED BY <1>2, <1>3, <2>2, <2>3, <2>4, <2>5, SMTT(60) DEF Owned, NoDuplicates, Elements
<1>5. CASE abortResponse(k)
  <2>1. /\ \A j \in Elements(response') : j \in Elements(response) /\ KeyOf[j] # k
        /\ NoDuplicates(response')
    BY <1>1, <1>5, AbortFacts DEF TypeOK, abortResponse, Owned
  <2>2. freed' = freed \cup Matching(response, k) /\ incoming' = incoming
    BY <1>5 DEF abortResponse
  <2>3. freed' \cap Elements(response') = {} BY <2>1, <2>2 DEF Owned, Matching
  <2>4. Matching(response, k) \subseteq posted BY DEF Matching, Owned
  <2>5. posted \subseteq pushed /\ posted \cap Elements(incoming) = {}
    BY DEF QueuedJob, AbortedJob
  <2>6. \A w \in Worker : elt[w] \notin Matching(response, k) BY <1>3 DEF Matching
  <2> QED BY <1>2, <2>1, <2>2, <2>3, <2>4, <2>5, <2>6, SMTT(60) DEF Owned, NoDuplicates, Elements
<1> QED BY <1>4, <1>5

LEMMA OwnedNext == IInv /\ Owned /\ [Next]_vars => Owned'
<1> SUFFICES ASSUME IInv, Owned, [Next]_vars PROVE Owned'
  OBVIOUS
<1>1. CASE UNCHANGED vars
  BY <1>1 DEF vars, Owned, NoDuplicates, Elements
<1>2. ASSUME NEW j \in Job, pushTpool(j) \/ pushTpoolInline(j) PROVE Owned'
  BY <1>2, OwnedPush
<1>3. ASSUME NEW w \in Worker, pullEmpty(w) \/ processingFunc(w) PROVE Owned'
  BY <1>3 DEF pullEmpty, processingFunc, Owned, NoDuplicates, Elements
<1>4. ASSUME NEW w \in Worker, pullNotifiedFifoRemember(w) \/ respond(w) PROVE Owned'
  BY <1>4, OwnedPull, OwnedRespond
<1>5. ASSUME NEW w \in Worker, noResponse(w) PROVE Owned'
  <2>1. /\ elt' = [elt EXCEPT ![w] = NoJob]
        /\ UNCHANGED <<incoming, response, pushed, freed, posted>>
    BY <1>5 DEF noResponse
  <2>2. NoJob \notin freed BY KeyAssumption DEF IInv, TypeOK
  <2>3. \A v \in Worker : elt'[v] \notin freed BY <2>1, <2>2 DEF Owned, IInv, TypeOK
  <2> QED BY <2>1, <2>3, SMTT(60) DEF Owned, NoDuplicates, Elements
<1>6. ASSUME NEW k \in AbortKeys, abortTpool(k) \/ abortResponse(k) PROVE Owned'
  BY <1>6, OwnedAbort
<1>7. CASE pullTpool
  <2>1. Elements(response') \subseteq Elements(response) /\ NoDuplicates(response')
    BY <1>7, PullFacts DEF pullTpool, IInv, TypeOK, Owned
  <2>2. UNCHANGED <<incoming, elt, pushed, freed, posted>> BY <1>7 DEF pullTpool, worker
  <2> QED BY <2>1, <2>2 DEF Owned, NoDuplicates, Elements
<1> QED BY <1>1, <1>2, <1>3, <1>4, <1>5, <1>6, <1>7 DEF Next

\* A set whose elements are all equal counts at most one.
LEMMA AtMostOne ==
    ASSUME NEW S, \A a, b \in S : a = b
    PROVE  Cardinality(S) = IF S = {} THEN 0 ELSE 1
<1>1. CASE S = {} BY <1>1, FS_EmptySet
<1>2. ASSUME NEW a \in S PROVE Cardinality(S) = 1
  <2>1. S = {a} OBVIOUS
  <2> QED BY <2>1, FS_Singleton
<1> QED BY <1>1, <1>2

LEMMA OwnedOnce == IInv /\ Owned => SingleOwner
<1> SUFFICES ASSUME IInv, Owned PROVE SingleOwner
  OBVIOUS
<1> SUFFICES ASSUME NEW j \in Job
             PROVE Cardinality({w \in Worker : elt[w] = j})
                   + Cardinality({i \in DOMAIN incoming.list : incoming.list[i] = j})
                   + Cardinality({i \in DOMAIN response.list : response.list[i] = j})
                   <= (IF j \in pushed \ freed THEN 1 ELSE 0)
  BY DEF SingleOwner
<1> DEFINE held == {w \in Worker : elt[w] = j}
           queued == {i \in DOMAIN incoming.list : incoming.list[i] = j}
           answered == {i \in DOMAIN response.list : response.list[i] = j}
<1>1. Cardinality(held) = IF held = {} THEN 0 ELSE 1
  <2>1. \A v, w \in held : v = w BY KeyAssumption DEF IInv, HeldOnce
  <2> HIDE DEF held
  <2> QED BY <2>1, AtMostOne
<1>2. Cardinality(queued) = IF queued = {} THEN 0 ELSE 1
  <2>1. \A a, b \in queued : a = b BY DEF IInv, QueuedJob, NoDuplicates
  <2> HIDE DEF queued
  <2> QED BY <2>1, AtMostOne
<1>3. Cardinality(answered) = IF answered = {} THEN 0 ELSE 1
  <2>1. \A a, b \in answered : a = b BY DEF Owned, NoDuplicates
  <2> HIDE DEF answered
  <2> QED BY <2>1, AtMostOne
<1>4. held # {} => j \in pushed \ (posted \cup freed) /\ j \notin Elements(incoming)
  BY KeyAssumption DEF IInv, HeldJob, Owned
<1>5. queued # {} => j \in Elements(incoming) BY DEF Elements
<1>6. j \in Elements(incoming) => j \in pushed \ (posted \cup freed)
  BY DEF IInv, QueuedJob, Owned
<1>7. answered # {} => j \in posted /\ j \notin freed /\ j \in pushed
  BY DEF IInv, AbortedJob, Owned, Elements
<1> HIDE DEF held, queued, answered
<1>8. /\ ~(held # {} /\ queued # {}) /\ ~(held # {} /\ answered # {})
      /\ ~(queued # {} /\ answered # {})
  BY <1>4, <1>5, <1>6, <1>7
<1>9. held # {} \/ queued # {} \/ answered # {} => j \in pushed \ freed
  BY <1>4, <1>5, <1>6, <1>7
<1>10. Cardinality(held) + Cardinality(queued) + Cardinality(answered)
          <= (IF j \in pushed \ freed THEN 1 ELSE 0)
  BY <1>1, <1>2, <1>3, <1>8, <1>9
<1> QED BY <1>10 DEF held, queued, answered

\* A job has one owner at a time and freed memory none, whatever jobs are
\* pushed, pulled, answered and aborted by any number of workers and clients:
\* no element is linked twice, run twice, freed twice or used after its free.
THEOREM OwnerTheorem == Spec => []SingleOwner
<1>1. Init => Owned
  BY KeyAssumption DEF Init, Owned, NoDuplicates, Elements, initNotifiedFIFO
<1>2. Spec => []Owned BY <1>1, Invariance, OwnedNext, PTL DEF Spec
<1> QED BY <1>2, Invariance, OwnedOnce, PTL
=============================================================================
