--------------------------- MODULE NrUlHarqProofs ---------------------------
(***************************************************************************)
(* For every number of processes, rounds and results lost: each HARQ       *)
(* process of the uplink is in exactly one list, the results to come are   *)
(* awaited in their order, and the lists implement HarqProcs.              *)
(***************************************************************************)
EXTENDS NrUlHarq, SequenceTheorems, WellFoundedInduction, TLAPS

(* What Append does to the members of a list and to their distinctness.    *)
LEMMA AppendList ==
    ASSUME NEW S, NEW list \in Seq(S), NEW x \in S
    PROVE  LET new == Append(list, x)
           IN  /\ new \in Seq(S)
               /\ \A p : In(p, new) <=> (In(p, list) \/ p = x)
               /\ Distinct(list) /\ ~In(x, list) => Distinct(new)
<1> DEFINE new == Append(list, x)
<1>1. /\ new \in Seq(S) /\ Len(new) = Len(list) + 1 /\ Len(list) \in Nat
      /\ DOMAIN list = 1 .. Len(list) /\ DOMAIN new = 1 .. Len(list) + 1
      /\ \A i \in 1 .. Len(list) : new[i] = list[i]
      /\ new[Len(list) + 1] = x
  OBVIOUS
<1> HIDE DEF new
<1>2. \A p : In(p, new) <=> (In(p, list) \/ p = x)
  <2> SUFFICES ASSUME NEW p PROVE In(p, new) <=> (In(p, list) \/ p = x)
    OBVIOUS
  <2>1. In(p, new) => In(p, list) \/ p = x
    BY <1>1 DEF In
  <2>2. In(p, list) => In(p, new)
    BY <1>1 DEF In
  <2>3. p = x => In(p, new)
    BY <1>1 DEF In
  <2> QED BY <2>1, <2>2, <2>3
<1>3. Distinct(list) /\ ~In(x, list) => Distinct(new)
  BY <1>1 DEF In, Distinct
<1> QED BY <1>1, <1>2, <1>3 DEF new

(* What Tail does to them: the head, and only the head, leaves the list.   *)
LEMMA TailList ==
    ASSUME NEW S, NEW list \in Seq(S), list # <<>>, Distinct(list)
    PROVE  /\ Tail(list) \in Seq(S) /\ Head(list) \in S
           /\ In(Head(list), list)
           /\ \A p : In(p, Tail(list)) <=> (In(p, list) /\ p # Head(list))
           /\ Distinct(Tail(list))
<1> DEFINE new == Tail(list)
<1>1. /\ new \in Seq(S) /\ Len(list) \in Nat /\ Len(list) >= 1
      /\ DOMAIN list = 1 .. Len(list) /\ DOMAIN new = 1 .. Len(list) - 1
      /\ \A i \in 1 .. Len(list) - 1 : new[i] = list[i + 1]
      /\ Head(list) = list[1] /\ Head(list) \in S
  OBVIOUS
<1> HIDE DEF new
<1>2. In(Head(list), list)
  BY <1>1 DEF In
<1>3. \A p : In(p, new) <=> (In(p, list) /\ p # Head(list))
  <2> SUFFICES ASSUME NEW p
               PROVE  In(p, new) <=> (In(p, list) /\ p # Head(list))
    OBVIOUS
  <2>1. In(p, new) => In(p, list) /\ p # Head(list)
    <3> SUFFICES ASSUME NEW i \in 1 .. Len(list) - 1, new[i] = p
                 PROVE  In(p, list) /\ p # Head(list)
      BY <1>1 DEF In
    <3>1. i + 1 \in DOMAIN list /\ 1 \in DOMAIN list /\ list[i + 1] = p
      BY <1>1
    <3>2. p # list[1]
      BY <3>1 DEF Distinct
    <3> QED BY <3>1, <3>2, <1>1 DEF In
  <2>2. In(p, list) /\ p # Head(list) => In(p, new)
    <3> SUFFICES ASSUME NEW i \in 1 .. Len(list), list[i] = p, p # list[1]
                 PROVE  In(p, new)
      BY <1>1 DEF In
    <3>1. i - 1 \in DOMAIN new /\ new[i - 1] = p
      BY <1>1
    <3> QED BY <3>1 DEF In
  <2> QED BY <2>1, <2>2
<1>4. Distinct(new)
  <2> SUFFICES ASSUME NEW i \in 1 .. Len(list) - 1, NEW j \in 1 .. Len(list) - 1,
                      new[i] = new[j]
               PROVE  i = j
    BY <1>1 DEF Distinct
  <2>1. i + 1 \in DOMAIN list /\ j + 1 \in DOMAIN list /\ list[i + 1] = list[j + 1]
    BY <1>1
  <2> QED BY <2>1 DEF Distinct
<1> QED BY <1>1, <1>2, <1>3, <1>4 DEF new
-----------------------------------------------------------------------------
Harq == [round : 0 .. RoundMax - 1, ndi : {0, 1}, is_waiting : BOOLEAN, tb_size : Nat]
Pusch == [rbs : BOOLEAN, pid : Procs \cup {NoProc}, tb_size : Nat]

(* The invariant that is inductive: the results awaited are what keeps the *)
(* head of the feedback list, which nr_rx_sdu reads, defined.              *)
IInv == TypeOK /\ OneList /\ ResultsAwaited

(* No process is numbered -1.                                              *)
LEMMA NoProcIsNone == NoProc \notin Procs
  BY DEF NoProc, Procs

(* max(0, n) is a natural number.                                          *)
LEMMA Max0Nat == ASSUME NEW n \in Int PROVE Max0(n) \in Nat
  BY DEF Max0

(* What pf_ul decides: sizes are natural numbers, and the process is the   *)
(* head of the retransmissions or none.                                    *)
LEMMA PfUlType ==
    ASSUME TypeOK, NEW pusch \in pf_ul
    PROVE  /\ pusch \in Pusch
           /\ IF retrans_ul_harq = <<>> THEN pusch.pid = NoProc
              ELSE pusch.pid = Head(retrans_ul_harq)
<1> DEFINE pid == IF retrans_ul_harq = <<>> THEN NoProc ELSE Head(retrans_ul_harq)
           B == Max0(estimated_ul_buffer - sched_ul_bytes)
           size == CASE pid # NoProc -> ul_harq_processes[pid].tb_size
                     [] pid = NoProc /\ B = 0 -> MinTb
                     [] pid = NoProc /\ B > 0 -> IF B < MaxTb THEN B ELSE MaxTb
<1>1. pid \in Procs \cup {NoProc}
  BY DEF TypeOK
<1>2. B \in Nat
  <2>1. estimated_ul_buffer - sched_ul_bytes \in Int
    BY DEF TypeOK
  <2> QED BY <2>1, Max0Nat
<1>3. size \in Nat
  <2>1. CASE pid # NoProc
    BY <1>1, <2>1 DEF TypeOK
  <2>2. CASE pid = NoProc
    <3> HIDE DEF B
    <3> QED BY <1>2, <2>2, UlHarqAssumption
  <2> QED BY <2>1, <2>2
<1>4. pusch \in {[sched_pusch EXCEPT !.pid = pid],
                 [rbs |-> TRUE, pid |-> pid, tb_size |-> size]}
  BY DEF pf_ul
<1> HIDE DEF pid, size
<1>5. pusch \in Pusch /\ pusch.pid = pid
  <2>1. CASE pusch = [sched_pusch EXCEPT !.pid = pid]
    <3>1. sched_pusch \in Pusch
      BY DEF TypeOK, Pusch
    <3> QED BY <1>1, <2>1, <3>1 DEF Pusch
  <2>2. CASE pusch = [rbs |-> TRUE, pid |-> pid, tb_size |-> size]
    BY <1>1, <1>3, <2>2 DEF Pusch
  <2> QED BY <1>4, <2>1, <2>2
<1> QED BY <1>5 DEF pid

(* What a grant does to the record of a process.                           *)
LEMMA GrantedHarq ==
    ASSUME NEW x \in Harq, NEW tb \in Nat
    PROVE  /\ Granted(x, tb) \in Harq /\ Granted(x, tb).is_waiting = TRUE
           /\ Granted(x, tb).round = x.round /\ Granted(x, tb).ndi = x.ndi
<1> DEFINE size == IF x.round = 0 THEN tb ELSE x.tb_size
           y == [x EXCEPT !.is_waiting = TRUE]
           z == [y EXCEPT !.tb_size = size]
<1>1. y \in Harq /\ y.is_waiting = TRUE /\ y.ndi = x.ndi /\ y.round = x.round
  BY DEF Harq
<1>2. size \in Nat
  BY DEF Harq
<1> HIDE DEF y, size
<1>3. z \in Harq /\ z.is_waiting = TRUE /\ z.ndi = x.ndi /\ z.round = x.round
  BY <1>1, <1>2 DEF Harq
<1> HIDE DEF z
<1>4. Granted(x, tb) = z
  BY Zenon DEF Granted, size, y, z
<1> QED BY <1>3, <1>4

(* The grant takes the head of the free processes or of the                *)
(* retransmissions and appends it to the feedback list.                    *)
LEMMA GrantFacts ==
    ASSUME IInv, NEW pusch \in pf_ul,
           pusch.pid = NoProc => available_ul_harq # <<>>, Grant(pusch)
    PROVE  LET pid == SchedPid(pusch)
               h == ul_harq_processes
           IN  /\ pid \in Procs
               /\ \/ /\ available_ul_harq # <<>> /\ pid = Head(available_ul_harq)
                     /\ available_ul_harq' = Tail(available_ul_harq)
                     /\ UNCHANGED retrans_ul_harq
                  \/ /\ retrans_ul_harq # <<>> /\ pid = Head(retrans_ul_harq)
                     /\ retrans_ul_harq' = Tail(retrans_ul_harq)
                     /\ UNCHANGED available_ul_harq
               /\ feedback_ul_harq' = Append(feedback_ul_harq, pid)
               /\ h' \in [Procs -> Harq]
               /\ \A q \in Procs : /\ h'[q].round = h[q].round /\ h'[q].ndi = h[q].ndi
                                    /\ h'[q].is_waiting = IF q = pid THEN TRUE
                                                          ELSE h[q].is_waiting
<1> DEFINE pid == SchedPid(pusch)
           h == ul_harq_processes
<1>0. TypeOK /\ OneList /\ h \in [Procs -> Harq]
  BY DEF IInv, TypeOK, Harq
<1>1. /\ pusch \in Pusch
      /\ IF retrans_ul_harq = <<>> THEN pusch.pid = NoProc
         ELSE pusch.pid = Head(retrans_ul_harq)
  BY <1>0, PfUlType
<1>4. \A x \in Harq : LET y == Granted(x, pusch.tb_size)
                     IN  /\ y \in Harq /\ y.is_waiting = TRUE
                         /\ y.round = x.round /\ y.ndi = x.ndi
  BY <1>1, GrantedHarq DEF Pusch
<1>2. CASE pusch.pid = NoProc
  <2>1. available_ul_harq # <<>> /\ pid = Head(available_ul_harq) /\ pid \in Procs
    BY <1>0, <1>2 DEF SchedPid, TypeOK
  <2>2. In(pid, available_ul_harq)
    BY <2>1, <1>0, TailList DEF TypeOK, OneList
  <2>3. h[pid].round = 0
    BY <1>0, <2>1, <2>2 DEF OneList
  <2>4. /\ available_ul_harq' = Tail(available_ul_harq) /\ UNCHANGED retrans_ul_harq
        /\ feedback_ul_harq' = Append(feedback_ul_harq, pid)
        /\ h' = [h EXCEPT ![pid] = Granted(@, pusch.tb_size)]
    BY <2>1, <2>3 DEF Grant, remove_nr_list, add_tail_nr_list
  <2> HIDE DEF pid
  <2>5. /\ h' \in [Procs -> Harq]
        /\ \A q \in Procs : /\ h'[q].round = h[q].round /\ h'[q].ndi = h[q].ndi
                             /\ h'[q].is_waiting = IF q = pid THEN TRUE ELSE h[q].is_waiting
    BY <2>1, <2>4, <1>0, <1>4
  <2> QED BY <2>1, <2>4, <2>5 DEF pid
<1>3. CASE pusch.pid # NoProc
  <2>1. retrans_ul_harq # <<>> /\ pid = Head(retrans_ul_harq) /\ pid \in Procs
    <3>1. retrans_ul_harq # <<>> /\ pusch.pid = Head(retrans_ul_harq)
      BY <1>1, <1>3
    <3>2. Head(retrans_ul_harq) \in Procs
      BY <1>0, <3>1 DEF TypeOK
    <3> QED BY <1>3, <3>1, <3>2 DEF SchedPid
  <2>2. In(pid, retrans_ul_harq)
    BY <2>1, <1>0, TailList DEF TypeOK, OneList
  <2>3. h[pid].round # 0
    BY <1>0, <2>1, <2>2 DEF OneList, TypeOK
  <2>4. /\ retrans_ul_harq' = Tail(retrans_ul_harq) /\ UNCHANGED available_ul_harq
        /\ feedback_ul_harq' = Append(feedback_ul_harq, pid)
        /\ h' = [h EXCEPT ![pid] = Granted(@, pusch.tb_size)]
    BY <2>1, <2>3 DEF Grant, remove_nr_list, add_tail_nr_list
  <2> HIDE DEF pid
  <2>5. /\ h' \in [Procs -> Harq]
        /\ \A q \in Procs : /\ h'[q].round = h[q].round /\ h'[q].ndi = h[q].ndi
                             /\ h'[q].is_waiting = IF q = pid THEN TRUE ELSE h[q].is_waiting
    BY <2>1, <2>4, <1>0, <1>4
  <2> QED BY <2>1, <2>4, <2>5 DEF pid
<1> QED BY <1>2, <1>3

(* What the release and the next round do to the record of a process.      *)
LEMMA ReleasedHarq ==
    ASSUME NEW x \in Harq
    PROVE  /\ Released(x) \in Harq /\ ~Released(x).is_waiting
           /\ Released(x).round = 0 /\ Released(x).ndi = 1 - x.ndi
<1> DEFINE y == [x EXCEPT !.is_waiting = FALSE]
           z == [y EXCEPT !.round = 0]
           w == [z EXCEPT !.ndi = 1 - x.ndi]
<1>1. y \in Harq /\ ~y.is_waiting /\ y.ndi = x.ndi
  BY DEF Harq
<1> HIDE DEF y
<1>2. z \in Harq /\ ~z.is_waiting /\ z.round = 0 /\ z.ndi = x.ndi
  BY <1>1, UlHarqAssumption DEF Harq
<1> HIDE DEF z
<1>3. w \in Harq /\ ~w.is_waiting /\ w.round = 0 /\ w.ndi = 1 - x.ndi
  BY <1>2 DEF Harq
<1> HIDE DEF w
<1>4. Released(x) = w
  BY Zenon DEF Released, y, z, w
<1> QED BY <1>3, <1>4

LEMMA NextRoundHarq ==
    ASSUME NEW x \in Harq, ~LastRound(x)
    PROVE  /\ NextRound(x) \in Harq /\ ~NextRound(x).is_waiting
           /\ NextRound(x).round = x.round + 1 /\ NextRound(x).ndi = x.ndi
           /\ x.round + 1 < RoundMax
<1> DEFINE y == [x EXCEPT !.is_waiting = FALSE]
           z == [y EXCEPT !.round = x.round + 1]
<1>1. y \in Harq /\ ~y.is_waiting /\ y.ndi = x.ndi
  BY DEF Harq
<1> HIDE DEF y
<1>2. x.round + 1 < RoundMax /\ x.round + 1 \in 0 .. RoundMax - 1
  BY UlHarqAssumption DEF LastRound, Harq
<1>3. z \in Harq /\ ~z.is_waiting /\ z.round = x.round + 1 /\ z.ndi = x.ndi
  BY <1>1, <1>2 DEF Harq
<1> HIDE DEF z
<1>4. NextRound(x) = z
  BY Zenon DEF NextRound, y, z
<1> QED BY <1>2, <1>3, <1>4

(* The head of the feedback list is answered: it becomes free, its round   *)
(* reset and its indicator toggled, or awaits its next round.              *)
LEMMA AnsweredFacts ==
    ASSUME IInv, NEW ok \in BOOLEAN, feedback_ul_harq # <<>>, Answered(ok)
    PROVE  LET pid == Head(feedback_ul_harq)
               h == ul_harq_processes
           IN  /\ pid \in Procs
               /\ feedback_ul_harq' = Tail(feedback_ul_harq)
               /\ h' \in [Procs -> Harq] /\ sched_ul_bytes' \in Nat
               /\ \A q \in Procs : q # pid => h'[q] = h[q]
               /\ ~h'[pid].is_waiting
               /\ \/ /\ available_ul_harq' = Append(available_ul_harq, pid)
                     /\ UNCHANGED retrans_ul_harq
                     /\ h'[pid].round = 0 /\ h'[pid].ndi = 1 - h[pid].ndi
                  \/ /\ retrans_ul_harq' = Append(retrans_ul_harq, pid)
                     /\ UNCHANGED available_ul_harq
                     /\ h'[pid].round = h[pid].round + 1 /\ h'[pid].ndi = h[pid].ndi
                     /\ h[pid].round + 1 < RoundMax
<1> DEFINE pid == Head(feedback_ul_harq)
           h == ul_harq_processes
<1>1. /\ pid \in Procs /\ h \in [Procs -> Harq] /\ sched_ul_bytes \in Nat
      /\ RoundMax \in Nat \ {0}
  BY UlHarqAssumption DEF IInv, TypeOK, Harq
<1>2. feedback_ul_harq' = Tail(feedback_ul_harq)
  BY DEF Answered
<1>3. CASE /\ available_ul_harq' = Append(available_ul_harq, pid)
           /\ h' = [h EXCEPT ![pid] = Released(@)]
           /\ sched_ul_bytes' \in {sched_ul_bytes, Max0(sched_ul_bytes - h[pid].tb_size)}
           /\ UNCHANGED retrans_ul_harq
  <2>1. sched_ul_bytes' \in Nat
    <3>1. h[pid].tb_size \in Nat
      BY <1>1 DEF Harq
    <3>2. sched_ul_bytes - h[pid].tb_size \in Int
      BY <1>1, <3>1
    <3>3. Max0(sched_ul_bytes - h[pid].tb_size) \in Nat
      BY <3>2, Max0Nat
    <3> QED BY <1>1, <1>3, <3>3
  <2> HIDE DEF pid
  <2>2. Released(h[pid]) \in Harq /\ ~Released(h[pid]).is_waiting
        /\ Released(h[pid]).round = 0 /\ Released(h[pid]).ndi = 1 - h[pid].ndi
    BY <1>1, ReleasedHarq
  <2>3. h' \in [Procs -> Harq] /\ (\A q \in Procs : q # pid => h'[q] = h[q])
        /\ h'[pid] = Released(h[pid])
    BY <1>1, <1>3, <2>2
  <2> QED BY <1>1, <1>2, <1>3, <2>1, <2>2, <2>3 DEF pid
<1>4. CASE /\ retrans_ul_harq' = Append(retrans_ul_harq, pid)
           /\ ~LastRound(h[pid])
           /\ h' = [h EXCEPT ![pid] = NextRound(@)]
           /\ UNCHANGED <<available_ul_harq, sched_ul_bytes>>
  <2> HIDE DEF pid
  <2>2. /\ NextRound(h[pid]) \in Harq /\ ~NextRound(h[pid]).is_waiting
        /\ NextRound(h[pid]).round = h[pid].round + 1
        /\ NextRound(h[pid]).ndi = h[pid].ndi /\ h[pid].round + 1 < RoundMax
    BY <1>1, <1>4, NextRoundHarq
  <2>3. h' \in [Procs -> Harq] /\ (\A q \in Procs : q # pid => h'[q] = h[q])
        /\ h'[pid] = NextRound(h[pid])
    BY <1>1, <1>4, <2>2
  <2> QED BY <1>1, <1>2, <1>4, <2>2, <2>3 DEF pid
<1>5. \/ /\ available_ul_harq' = Append(available_ul_harq, pid)
         /\ h' = [h EXCEPT ![pid] = Released(@)]
         /\ sched_ul_bytes' \in {sched_ul_bytes, Max0(sched_ul_bytes - h[pid].tb_size)}
         /\ UNCHANGED retrans_ul_harq
      \/ /\ retrans_ul_harq' = Append(retrans_ul_harq, pid)
         /\ ~LastRound(h[pid])
         /\ h' = [h EXCEPT ![pid] = NextRound(@)]
         /\ UNCHANGED <<available_ul_harq, sched_ul_bytes>>
  BY DEF Answered, add_tail_nr_list
<1> QED BY <1>3, <1>4, <1>5

(* A grant keeps every process in exactly one list.                        *)
LEMMA GrantOneList ==
    ASSUME IInv, NEW pusch \in pf_ul,
           pusch.pid = NoProc => available_ul_harq # <<>>, Grant(pusch)
    PROVE  OneList'
<1> DEFINE pid == SchedPid(pusch)
           h == ul_harq_processes
<1>1. /\ pid \in Procs /\ feedback_ul_harq' = Append(feedback_ul_harq, pid)
      /\ \A q \in Procs : /\ h'[q].round = h[q].round
                           /\ h'[q].is_waiting = IF q = pid THEN TRUE ELSE h[q].is_waiting
      /\ \/ /\ available_ul_harq # <<>> /\ pid = Head(available_ul_harq)
            /\ available_ul_harq' = Tail(available_ul_harq)
            /\ UNCHANGED retrans_ul_harq
         \/ /\ retrans_ul_harq # <<>> /\ pid = Head(retrans_ul_harq)
            /\ retrans_ul_harq' = Tail(retrans_ul_harq)
            /\ UNCHANGED available_ul_harq
  BY GrantFacts
<1> HIDE DEF pid
<1>2. /\ available_ul_harq \in Seq(Procs) /\ feedback_ul_harq \in Seq(Procs)
      /\ retrans_ul_harq \in Seq(Procs) /\ OneList
  BY DEF IInv, TypeOK
<1>3. CASE /\ available_ul_harq # <<>> /\ pid = Head(available_ul_harq)
           /\ available_ul_harq' = Tail(available_ul_harq)
           /\ UNCHANGED retrans_ul_harq
  <2>1. /\ In(pid, available_ul_harq) /\ Distinct(available_ul_harq')
        /\ \A p : In(p, available_ul_harq') <=> (In(p, available_ul_harq) /\ p # pid)
    BY <1>2, <1>3, TailList DEF OneList
  <2>2. ~In(pid, feedback_ul_harq) /\ ~In(pid, retrans_ul_harq) /\ h[pid].round = 0
    BY <1>1, <1>2, <2>1 DEF OneList
  <2>3. /\ Distinct(feedback_ul_harq')
        /\ \A p : In(p, feedback_ul_harq') <=> (In(p, feedback_ul_harq) \/ p = pid)
    BY <1>1, <1>2, <2>2, AppendList DEF OneList
  <2> QED BY <1>1, <1>2, <1>3, <2>1, <2>2, <2>3 DEF OneList
<1>4. CASE /\ retrans_ul_harq # <<>> /\ pid = Head(retrans_ul_harq)
           /\ retrans_ul_harq' = Tail(retrans_ul_harq)
           /\ UNCHANGED available_ul_harq
  <2>1. /\ In(pid, retrans_ul_harq) /\ Distinct(retrans_ul_harq')
        /\ \A p : In(p, retrans_ul_harq') <=> (In(p, retrans_ul_harq) /\ p # pid)
    BY <1>2, <1>4, TailList DEF OneList
  <2>2. ~In(pid, feedback_ul_harq) /\ ~In(pid, available_ul_harq)
    BY <1>1, <1>2, <2>1 DEF OneList
  <2>3. /\ Distinct(feedback_ul_harq')
        /\ \A p : In(p, feedback_ul_harq') <=> (In(p, feedback_ul_harq) \/ p = pid)
    BY <1>1, <1>2, <2>2, AppendList DEF OneList
  <2> QED BY <1>1, <1>2, <1>4, <2>1, <2>2, <2>3 DEF OneList
<1> QED BY <1>1, <1>3, <1>4

(* So does the answer of the head of the feedback list.                    *)
LEMMA AnsweredOneList ==
    ASSUME IInv, NEW ok \in BOOLEAN, feedback_ul_harq # <<>>, Answered(ok)
    PROVE  OneList'
<1> DEFINE pid == Head(feedback_ul_harq)
           h == ul_harq_processes
<1>1. /\ pid \in Procs /\ feedback_ul_harq' = Tail(feedback_ul_harq)
      /\ h' \in [Procs -> Harq]
      /\ \A q \in Procs : q # pid => h'[q] = h[q]
      /\ ~h'[pid].is_waiting
      /\ \/ /\ available_ul_harq' = Append(available_ul_harq, pid)
            /\ UNCHANGED retrans_ul_harq
            /\ h'[pid].round = 0
         \/ /\ retrans_ul_harq' = Append(retrans_ul_harq, pid)
            /\ UNCHANGED available_ul_harq
            /\ h'[pid].round = h[pid].round + 1
  BY AnsweredFacts
<1>2. /\ available_ul_harq \in Seq(Procs) /\ feedback_ul_harq \in Seq(Procs)
      /\ retrans_ul_harq \in Seq(Procs) /\ OneList /\ h[pid].round \in Nat
  <2>1. TypeOK /\ OneList
    BY DEF IInv
  <2> QED BY <1>1, <2>1, SMTT(60) DEF TypeOK
<1>3. /\ In(pid, feedback_ul_harq) /\ Distinct(feedback_ul_harq')
      /\ \A p : In(p, feedback_ul_harq') <=> (In(p, feedback_ul_harq) /\ p # pid)
  BY <1>1, <1>2, TailList DEF OneList
<1> HIDE DEF pid
<1>4. ~In(pid, available_ul_harq) /\ ~In(pid, retrans_ul_harq)
  BY <1>1, <1>2, <1>3 DEF OneList
<1>5. CASE /\ available_ul_harq' = Append(available_ul_harq, pid)
           /\ UNCHANGED retrans_ul_harq /\ h'[pid].round = 0
  <2>1. /\ Distinct(available_ul_harq')
        /\ \A p : In(p, available_ul_harq') <=> (In(p, available_ul_harq) \/ p = pid)
    BY <1>1, <1>2, <1>4, <1>5, AppendList DEF OneList
  <2> QED BY <1>1, <1>2, <1>3, <1>4, <1>5, <2>1 DEF OneList
<1>6. CASE /\ retrans_ul_harq' = Append(retrans_ul_harq, pid)
           /\ UNCHANGED available_ul_harq /\ h'[pid].round = h[pid].round + 1
  <2>1. /\ Distinct(retrans_ul_harq')
        /\ \A p : In(p, retrans_ul_harq') <=> (In(p, retrans_ul_harq) \/ p = pid)
    BY <1>1, <1>2, <1>4, <1>6, AppendList DEF OneList
  <2>2. h'[pid].round > 0
    BY <1>2, <1>6
  <2> QED BY <1>1, <1>2, <1>3, <1>4, <1>6, <2>1, <2>2 DEF OneList
<1> QED BY <1>1, <1>5, <1>6
-----------------------------------------------------------------------------
(* Subsequences: appending to both, and removing heads.                    *)
LEMMA EmbeddedAppend ==
    ASSUME NEW S, NEW short \in Seq(S), NEW long \in Seq(S), NEW x \in S,
           Embedded(short, long)
    PROVE  Embedded(Append(short, x), Append(long, x))
<1> DEFINE n == Len(short)  m == Len(long)
           short2 == Append(short, x)  long2 == Append(long, x)
<1>0. DOMAIN short = 1 .. n /\ DOMAIN long = 1 .. m
  OBVIOUS
<1> HIDE DEF n, m
<1>1. PICK f \in [1 .. n -> 1 .. m] :
            /\ \A i, j \in 1 .. n : i < j => f[i] < f[j]
            /\ \A i \in 1 .. n : long[f[i]] = short[i]
  BY <1>0 DEF Embedded
<1> USE DEF n, m
<1>2. /\ n \in Nat /\ m \in Nat
      /\ DOMAIN short2 = 1 .. n + 1 /\ DOMAIN long2 = 1 .. m + 1
      /\ \A i \in 1 .. n : short2[i] = short[i] /\ short2[n + 1] = x
      /\ \A i \in 1 .. m : long2[i] = long[i]
      /\ short2[n + 1] = x /\ long2[m + 1] = x
  OBVIOUS
<1> DEFINE g == [i \in 1 .. n + 1 |-> IF i = n + 1 THEN m + 1 ELSE f[i]]
<1> HIDE DEF n, m, short2, long2
<1>3. g \in [1 .. n + 1 -> 1 .. m + 1]
  BY <1>2
<1>4. \A i, j \in 1 .. n + 1 : i < j => g[i] < g[j]
  <2> SUFFICES ASSUME NEW i \in 1 .. n + 1, NEW j \in 1 .. n + 1, i < j
               PROVE  g[i] < g[j]
    OBVIOUS
  <2>1. i \in 1 .. n /\ f[i] \in 1 .. m /\ g[i] = f[i]
    BY <1>2
  <2>2. CASE j = n + 1
    BY <1>2, <2>1, <2>2
  <2>3. CASE j # n + 1
    <3>1. j \in 1 .. n /\ g[j] = f[j]
      BY <1>2, <2>3
    <3> QED BY <1>1, <2>1, <3>1
  <2> QED BY <2>2, <2>3
<1>5. \A i \in 1 .. n + 1 : long2[g[i]] = short2[i]
  <2> SUFFICES ASSUME NEW i \in 1 .. n + 1 PROVE long2[g[i]] = short2[i]
    OBVIOUS
  <2>1. CASE i = n + 1
    BY <1>2, <2>1
  <2>2. CASE i # n + 1
    <3>1. i \in 1 .. n /\ g[i] = f[i] /\ f[i] \in 1 .. m
      BY <1>2, <2>2
    <3> QED BY <1>1, <1>2, <3>1
  <2> QED BY <2>1, <2>2
<1> HIDE DEF g
<1>6. Embedded(short2, long2)
  BY <1>2, <1>3, <1>4, <1>5, ZenonT(60) DEF Embedded
<1> QED BY <1>6 DEF short2, long2

LEMMA EmbeddedTails ==
    ASSUME NEW S, NEW short \in Seq(S), NEW long \in Seq(S), Embedded(short, long),
           short # <<>>
    PROVE  /\ long # <<>>
           /\ Embedded(Tail(short), long)
           /\ short[1] = Head(long) => Embedded(Tail(short), Tail(long))
           /\ short[1] # Head(long) => Embedded(short, Tail(long))
<1> DEFINE n == Len(short)  m == Len(long)
           short2 == Tail(short)  long2 == Tail(long)
<1>0. DOMAIN short = 1 .. n /\ DOMAIN long = 1 .. m
  OBVIOUS
<1> HIDE DEF n, m
<1>1. PICK f \in [1 .. n -> 1 .. m] :
            /\ \A i, j \in 1 .. n : i < j => f[i] < f[j]
            /\ \A i \in 1 .. n : long[f[i]] = short[i]
  BY <1>0 DEF Embedded
<1> USE DEF n, m
<1>2. n \in Nat /\ n >= 1 /\ m \in Nat /\ f[1] \in 1 .. m
  OBVIOUS
<1>3. long # <<>> /\ m >= 1
  BY <1>2
<1>4. /\ DOMAIN short = 1 .. n /\ DOMAIN long = 1 .. m
      /\ DOMAIN short2 = 1 .. n - 1 /\ DOMAIN long2 = 1 .. m - 1
      /\ \A i \in 1 .. n - 1 : short2[i] = short[i + 1]
      /\ \A i \in 1 .. m - 1 : long2[i] = long[i + 1]
      /\ Head(long) = long[1]
  BY <1>3
<1> HIDE DEF n, m, short2, long2
<1>5. Embedded(short2, long)
  <2> DEFINE g == [i \in 1 .. n - 1 |-> f[i + 1]]
  <2>1. g \in [1 .. n - 1 -> 1 .. m]
    BY <1>2
  <2>2. \A i, j \in 1 .. n - 1 : i < j => g[i] < g[j]
    BY <1>1, <1>2
  <2>3. \A i \in 1 .. n - 1 : long[g[i]] = short2[i]
    BY <1>1, <1>2, <1>4
  <2> HIDE DEF g
  <2> QED BY <1>4, <2>1, <2>2, <2>3, ZenonT(60) DEF Embedded
<1>6. ASSUME short[1] = Head(long) PROVE Embedded(short2, long2)
  <2> DEFINE g == [i \in 1 .. n - 1 |-> f[i + 1] - 1]
  <2>0. \A i \in 1 .. n - 1 : i + 1 \in 1 .. n /\ f[i + 1] \in 2 .. m
    <3> SUFFICES ASSUME NEW i \in 1 .. n - 1
                 PROVE  i + 1 \in 1 .. n /\ f[i + 1] \in 2 .. m
      OBVIOUS
    <3>1. i + 1 \in 1 .. n /\ 1 \in 1 .. n /\ 1 < i + 1
      BY <1>2
    <3>2. f[1] < f[i + 1] /\ f[i + 1] \in 1 .. m
      BY <1>1, <3>1
    <3> QED BY <1>2, <3>1, <3>2
  <2>1. g \in [1 .. n - 1 -> 1 .. m - 1]
    BY <1>2, <2>0
  <2>2. \A i, j \in 1 .. n - 1 : i < j => g[i] < g[j]
    BY <1>1, <1>2, <2>0
  <2>3. \A i \in 1 .. n - 1 : long2[g[i]] = short2[i]
    <3> SUFFICES ASSUME NEW i \in 1 .. n - 1 PROVE long2[g[i]] = short2[i]
      OBVIOUS
    <3>1. g[i] \in 1 .. m - 1 /\ g[i] + 1 = f[i + 1] /\ i + 1 \in 1 .. n
      BY <1>2, <2>0, <2>1
    <3>2. long[g[i] + 1] = short[i + 1]
      BY <1>1, <3>1
    <3>3. long2[g[i]] = long[g[i] + 1] /\ short2[i] = short[i + 1]
      BY <1>4, <3>1
    <3> QED BY <3>2, <3>3
  <2> HIDE DEF g
  <2> QED BY <1>4, <2>1, <2>2, <2>3, ZenonT(60) DEF Embedded
<1>7. ASSUME short[1] # Head(long) PROVE Embedded(short, long2)
  <2> DEFINE g == [i \in 1 .. n |-> f[i] - 1]
  <2>0. \A i \in 1 .. n : f[i] \in 2 .. m
    <3>1. f[1] # 1
      BY <1>1, <1>2, <1>4, <1>7
    <3>2. ASSUME NEW i \in 1 .. n PROVE f[i] \in 2 .. m
      <4>1. f[i] \in 1 .. m /\ (i # 1 => f[1] < f[i])
        BY <1>1, <1>2
      <4> QED BY <1>2, <3>1, <4>1
    <3> QED BY <3>2
  <2>1. g \in [1 .. n -> 1 .. m - 1]
    BY <1>2, <2>0
  <2>2. \A i, j \in 1 .. n : i < j => g[i] < g[j]
    BY <1>1, <1>2, <2>0
  <2>3. \A i \in 1 .. n : long2[g[i]] = short[i]
    <3> SUFFICES ASSUME NEW i \in 1 .. n PROVE long2[g[i]] = short[i]
      OBVIOUS
    <3>1. g[i] \in 1 .. m - 1 /\ g[i] + 1 = f[i]
      BY <1>2, <2>0, <2>1
    <3> QED BY <1>1, <1>4, <3>1
  <2> HIDE DEF g
  <2> QED BY <1>4, <2>1, <2>2, <2>3 DEF Embedded
<1> QED BY <1>3, <1>5, <1>6, <1>7 DEF short2, long2

(* Every PUSCH in flight has a process.                                    *)
LEMMA AirProcs ==
    ASSUME TypeOK
    PROVE  Len(air) \in Nat /\ \A i \in 1 .. Len(air) : air[i].pid \in Procs
<1> DEFINE R == [pid : Procs, tb_size : Nat]
<1>1. air \in Seq(R)
  BY DEF TypeOK
<1>2. \A r \in R : r.pid \in Procs
  OBVIOUS
<1> HIDE DEF R
<1>3. Len(air) \in Nat /\ \A i \in 1 .. Len(air) : air[i] \in R
  BY <1>1
<1> QED BY <1>2, <1>3

(* The results to come as a sequence of processes.                         *)
LEMMA PendingFacts ==
    ASSUME TypeOK
    PROVE  /\ Pending \in Seq(Procs)
           /\ Len(Pending) = Len(air) + (IF crc = NoCrc THEN 0 ELSE 1)
           /\ crc # NoCrc => Pending[1] = crc.harq_id
           /\ Pending # <<>> <=> air # <<>> \/ crc # NoCrc
<1> DEFINE n == Len(air) + (IF crc = NoCrc THEN 0 ELSE 1)
<1>1. n \in Nat /\ Len(air) \in Nat /\ (n = 0 <=> air = <<>> /\ crc = NoCrc)
  BY SMTT(60) DEF TypeOK
<1>2. \A i \in 1 .. n : (IF crc = NoCrc THEN air[i].pid
                         ELSE IF i = 1 THEN crc.harq_id ELSE air[i - 1].pid) \in Procs
  <2>1. CASE crc = NoCrc
    BY <1>1, <2>1, AirProcs
  <2>2. CASE crc # NoCrc
    <3>1. crc.harq_id \in Procs
      BY <2>2 DEF TypeOK
    <3>2. \A i \in 1 .. n : i # 1 => air[i - 1].pid \in Procs
      <4> SUFFICES ASSUME NEW i \in 1 .. n, i # 1 PROVE air[i - 1].pid \in Procs
        OBVIOUS
      <4>1. i - 1 \in 1 .. Len(air)
        BY <1>1, <2>2
      <4> QED BY <4>1, AirProcs
    <3> QED BY <2>2, <3>1, <3>2
  <2> QED BY <2>1, <2>2
<1>3. Pending = [i \in 1 .. n |-> IF crc = NoCrc THEN air[i].pid
                         ELSE IF i = 1 THEN crc.harq_id ELSE air[i - 1].pid]
  BY DEF Pending
<1> HIDE DEF n
<1>4. Pending \in Seq(Procs) /\ Len(Pending) = n
  BY <1>1, <1>2, <1>3
<1>5. crc # NoCrc => Pending[1] = crc.harq_id
  <2>1. crc # NoCrc => 1 \in 1 .. n
    BY <1>1
  <2> QED BY <1>3, <2>1
<1>6. Pending # <<>> <=> air # <<>> \/ crc # NoCrc
  BY <1>1, <1>4
<1> QED BY <1>4, <1>5, <1>6 DEF n

(* How the steps change the results to come.                               *)
LEMMA PendingGrant ==
    ASSUME TypeOK, TypeOK', crc = NoCrc, crc' = NoCrc, NEW p \in Procs, NEW tb \in Nat,
           air' = Append(air, [pid |-> p, tb_size |-> tb])
    PROVE  Pending' = Append(Pending, p)
<1>1. /\ air \in Seq([pid : Procs, tb_size : Nat]) /\ Len(air) \in Nat
      /\ Len(air') = Len(air) + 1
      /\ \A i \in 1 .. Len(air) : air'[i] = air[i]
      /\ air'[Len(air) + 1].pid = p
  <2> DEFINE r == [pid |-> p, tb_size |-> tb]
  <2>1. air \in Seq([pid : Procs, tb_size : Nat]) /\ r \in [pid : Procs, tb_size : Nat]
    BY DEF TypeOK
  <2>2. r.pid = p /\ air' = Append(air, r)
    OBVIOUS
  <2> HIDE DEF r
  <2> QED BY <2>1, <2>2
<1>2. Pending = [i \in 1 .. Len(air) |-> air[i].pid]
  BY <1>1 DEF Pending
<1>3. Pending' = [i \in 1 .. Len(air) + 1 |-> air'[i].pid]
  BY <1>1 DEF Pending
<1>4. Pending \in Seq(Procs) /\ Len(Pending) = Len(air)
  BY PendingFacts, <1>1
<1>5. Pending' \in Seq(Procs) /\ Len(Pending') = Len(air) + 1
  <2>1. \A i \in 1 .. Len(air) + 1 : air'[i].pid \in Procs
    BY <1>1, AirProcs
  <2> QED BY <1>1, <1>3, <2>1
<1>6. \A i \in 1 .. Len(air) + 1 : Pending'[i] = Append(Pending, p)[i]
  BY <1>1, <1>2, <1>3, <1>4
<1> QED BY <1>1, <1>4, <1>5, <1>6

LEMMA PendingRx ==
    ASSUME TypeOK, crc = NoCrc, air # <<>>, air' = Tail(air),
           crc' # NoCrc, crc'.harq_id = Head(air).pid
    PROVE  Pending' = Pending
<1>1. /\ air \in Seq([pid : Procs, tb_size : Nat]) /\ Len(air) \in Nat /\ Len(air) >= 1
      /\ Len(air') = Len(air) - 1
      /\ \A i \in 1 .. Len(air) - 1 : air'[i] = air[i + 1]
      /\ Head(air) = air[1]
  BY SMTT(60) DEF TypeOK
<1>2. Pending = [i \in 1 .. Len(air) |-> air[i].pid]
  BY <1>1 DEF Pending
<1>3. Pending' = [i \in 1 .. Len(air) |->
                    IF i = 1 THEN crc'.harq_id ELSE air'[i - 1].pid]
  BY <1>1 DEF Pending
<1>4. \A i \in 1 .. Len(air) :
        (IF i = 1 THEN crc'.harq_id ELSE air'[i - 1].pid) = air[i].pid
  BY <1>1
<1> QED BY <1>2, <1>3, <1>4

LEMMA PendingDone ==
    ASSUME TypeOK, crc' = NoCrc,
           \/ crc # NoCrc /\ UNCHANGED air
           \/ crc = NoCrc /\ air # <<>> /\ air' = Tail(air)
    PROVE  Pending' = Tail(Pending)
<1>1. /\ air \in Seq([pid : Procs, tb_size : Nat]) /\ Len(air) \in Nat
      /\ Pending \in Seq(Procs) /\ Pending # <<>>
      /\ Len(Pending) = Len(air) + (IF crc = NoCrc THEN 0 ELSE 1)
  BY PendingFacts, SMTT(60) DEF TypeOK
<1>2. /\ Tail(Pending) \in Seq(Procs) /\ Len(Tail(Pending)) = Len(Pending) - 1
      /\ \A i \in 1 .. Len(Pending) - 1 : Tail(Pending)[i] = Pending[i + 1]
      /\ \A i \in 1 .. Len(Pending) - 1 : Pending[i + 1] \in Procs
  BY <1>1
<1>3. Pending' = [i \in 1 .. Len(air') |-> air'[i].pid] /\ Len(air') \in Nat
      /\ Len(air') = Len(Pending) - 1
  BY <1>1 DEF Pending
<1>4. \A i \in 1 .. Len(Pending) - 1 : air'[i].pid = Pending[i + 1]
  <2> SUFFICES ASSUME NEW i \in 1 .. Len(Pending) - 1 PROVE air'[i].pid = Pending[i + 1]
    OBVIOUS
  <2>0. i + 1 \in 1 .. Len(Pending) /\ i + 1 # 1 /\ (i + 1) - 1 = i
    BY <1>1
  <2>1. CASE crc # NoCrc /\ UNCHANGED air
    <3>1. Pending[i + 1] = air[(i + 1) - 1].pid
      BY <1>1, <2>0, <2>1 DEF Pending
    <3> QED BY <2>0, <2>1, <3>1
  <2>2. CASE crc = NoCrc /\ air # <<>> /\ air' = Tail(air)
    <3>1. Pending[i + 1] = air[i + 1].pid
      BY <1>1, <2>0, <2>2 DEF Pending
    <3>2. Tail(air)[i] = air[i + 1]
      BY <1>1, <2>2
    <3> QED BY <2>2, <3>1, <3>2
  <2> QED BY <2>1, <2>2
<1>5. Pending' \in Seq(Procs) /\ Len(Pending') = Len(Pending) - 1
      /\ \A i \in 1 .. Len(Pending) - 1 : Pending'[i] = Tail(Pending)[i]
  BY <1>2, <1>3, <1>4
<1> QED BY <1>2, <1>3, <1>5, SeqEqual
-----------------------------------------------------------------------------
(* One step per action: the invariant is inductive.                        *)
LEMMA IInvInit == Init => IInv
<1> SUFFICES ASSUME Init PROVE IInv
  OBVIOUS
<1> DEFINE l == [i \in 1 .. NProcs |-> i - 1]
<1>0. NProcs \in Nat \ {0} /\ RoundMax \in Nat \ {0}
  BY UlHarqAssumption
<1>1. l \in Seq(Procs) /\ DOMAIN l = 1 .. NProcs /\ available_ul_harq = l
  BY <1>0 DEF Init, Procs
<1>2. Distinct(l)
  BY <1>0 DEF Distinct
<1>3. \A p \in Procs : In(p, l)
  <2> SUFFICES ASSUME NEW p \in Procs PROVE In(p, l)
    OBVIOUS
  <2>1. p + 1 \in 1 .. NProcs /\ l[p + 1] = p
    BY <1>0 DEF Procs
  <2> QED BY <1>1, <2>1 DEF In
<1>4. \A p : ~In(p, <<>>)
  BY DEF In
<1>5. Distinct(<<>>)
  BY DEF Distinct
<1>6. TypeOK
  <2>1. /\ available_ul_harq \in Seq(Procs) /\ feedback_ul_harq \in Seq(Procs)
        /\ retrans_ul_harq \in Seq(Procs) /\ air \in Seq([pid : Procs, tb_size : Nat])
    BY <1>1 DEF Init
  <2>2. ul_harq_processes \in [Procs -> Harq]
    BY <1>0 DEF Init, Harq
  <2>3. sched_pusch \in Pusch
    BY DEF Init, NoPusch, Pusch
  <2>4. crc = NoCrc /\ lost \in 0 .. MaxLost /\ dtx_cnt \in 0 .. DtxThres
    BY UlHarqAssumption DEF Init
  <2>5. sched_ul_bytes \in Nat /\ estimated_ul_buffer \in Nat /\ ul_failure \in BOOLEAN
    BY DEF Init
  <2> QED BY <2>1, <2>2, <2>3, <2>4, <2>5 DEF TypeOK, Harq, Pusch
<1> HIDE DEF l
<1>7. OneList
  BY <1>1, <1>2, <1>3, <1>4, <1>5 DEF OneList, Init
<1>8. ResultsAwaited
  <2>1. Pending = <<>>
    BY <1>6, PendingFacts DEF Init
  <2>2. Embedded(<<>>, feedback_ul_harq)
    <3> DEFINE f == [i \in {} |-> i]
    <3>1. f \in [DOMAIN <<>> -> DOMAIN feedback_ul_harq] /\ DOMAIN <<>> = {}
      OBVIOUS
    <3> QED BY <3>1 DEF Embedded
  <2> QED BY <2>1, <2>2 DEF ResultsAwaited
<1> QED BY <1>6, <1>7, <1>8 DEF IInv

LEMMA ScheduleStep ==
    ASSUME IInv, nr_schedule_ulsch PROVE IInv'
<1>0. TypeOK /\ ResultsAwaited /\ crc = NoCrc
  BY DEF IInv, nr_schedule_ulsch
<1>1. PICK pusch \in pf_ul :
        pusch.rbs /\ (pusch.pid = NoProc => available_ul_harq # <<>>) /\ Grant(pusch)
  BY DEF nr_schedule_ulsch
<1> DEFINE pid == SchedPid(pusch)
<1>2. /\ pid \in Procs /\ feedback_ul_harq' = Append(feedback_ul_harq, pid)
      /\ ul_harq_processes' \in [Procs -> Harq]
      /\ \/ /\ available_ul_harq # <<>>
            /\ available_ul_harq' = Tail(available_ul_harq)
            /\ UNCHANGED retrans_ul_harq
         \/ /\ retrans_ul_harq # <<>>
            /\ retrans_ul_harq' = Tail(retrans_ul_harq)
            /\ UNCHANGED available_ul_harq
  BY <1>1, GrantFacts
<1>3. pusch.tb_size \in Nat
  BY <1>0, <1>1, PfUlType DEF Pusch
<1>4. OneList'
  BY <1>1, GrantOneList
<1>5. /\ sched_ul_bytes' \in {sched_ul_bytes, sched_ul_bytes + pusch.tb_size}
      /\ air' = Append(air, [pid |-> pid, tb_size |-> pusch.tb_size])
      /\ sched_pusch' = NoPusch
      /\ UNCHANGED <<estimated_ul_buffer, dtx_cnt, ul_failure, crc, lost>>
  BY <1>1 DEF Grant
<1> HIDE DEF pid
<1>6. TypeOK'
  <2>1. /\ available_ul_harq' \in Seq(Procs) /\ feedback_ul_harq' \in Seq(Procs)
        /\ retrans_ul_harq' \in Seq(Procs)
    <3>1. /\ available_ul_harq \in Seq(Procs) /\ feedback_ul_harq \in Seq(Procs)
          /\ retrans_ul_harq \in Seq(Procs)
      BY <1>0 DEF TypeOK
    <3>2. \A l \in Seq(Procs) : l # <<>> => Tail(l) \in Seq(Procs)
      OBVIOUS
    <3>3. Append(feedback_ul_harq, pid) \in Seq(Procs)
      BY <1>2, <3>1
    <3> QED BY <1>2, <3>1, <3>2, <3>3
  <2>2. air' \in Seq([pid : Procs, tb_size : Nat])
    <3> DEFINE R == [pid : Procs, tb_size : Nat]
    <3>1. air \in Seq(R) /\ [pid |-> pid, tb_size |-> pusch.tb_size] \in R
      BY <1>0, <1>2, <1>3 DEF TypeOK
    <3> HIDE DEF R
    <3>2. air' \in Seq(R)
      BY <1>5, <3>1
    <3> QED BY <3>2 DEF R
  <2>3. sched_ul_bytes' \in Nat /\ sched_pusch' \in Pusch
    BY <1>0, <1>3, <1>5 DEF TypeOK, NoPusch, Pusch
  <2> QED BY <1>0, <1>2, <1>5, <2>1, <2>2, <2>3 DEF TypeOK, Harq, Pusch
<1>7. Pending' = Append(Pending, pid)
  BY <1>0, <1>2, <1>3, <1>5, <1>6, PendingGrant
<1>8. Pending \in Seq(Procs) /\ feedback_ul_harq \in Seq(Procs)
  BY <1>0, PendingFacts DEF TypeOK
<1>9. ResultsAwaited'
  BY <1>0, <1>2, <1>7, <1>8, EmbeddedAppend DEF ResultsAwaited
<1> QED BY <1>4, <1>6, <1>9 DEF IInv

(* The result read by nr_rx_sdu, the loss of one, and the answers.         *)
LEMMA RxStep ==
    ASSUME IInv, rx_ok \/ rx_null PROVE IInv'
<1>0. TypeOK /\ OneList /\ ResultsAwaited /\ crc = NoCrc /\ air # <<>>
  BY DEF IInv, rx_ok, rx_null
<1>1. Pending \in Seq(Procs) /\ Pending # <<>> /\ feedback_ul_harq \in Seq(Procs)
  BY <1>0, PendingFacts DEF TypeOK
<1>2. feedback_ul_harq # <<>>
  BY <1>0, <1>1, EmbeddedTails DEF ResultsAwaited
<1>3. /\ UNCHANGED <<lists, ul_harq_processes, sched_pusch, lost>> /\ air' = Tail(air)
      /\ crc' \in [harq_id : {Head(air).pid}, ok : BOOLEAN]
  <2>1. CASE rx_ok
    BY <2>1 DEF rx_ok
  <2>2. CASE rx_null
    BY <2>2 DEF rx_null
  <2> QED BY <2>1, <2>2
<1>4. Head(air).pid \in Procs /\ Tail(air) \in Seq([pid : Procs, tb_size : Nat])
  <2> DEFINE R == [pid : Procs, tb_size : Nat]
  <2>1. air \in Seq(R)
    BY <1>0 DEF TypeOK
  <2>2. \A r \in R : r.pid \in Procs
    OBVIOUS
  <2> HIDE DEF R
  <2>3. Head(air) \in R /\ Tail(air) \in Seq(R)
    BY <1>0, <2>1
  <2> QED BY <2>2, <2>3 DEF R
<1>5. crc' # NoCrc /\ crc'.harq_id = Head(air).pid
  BY <1>3, <1>4, NoProcIsNone DEF NoCrc
<1>6. /\ sched_ul_bytes' \in Nat /\ estimated_ul_buffer' \in Nat
      /\ dtx_cnt' \in 0 .. DtxThres /\ ul_failure' \in BOOLEAN
  <2> DEFINE harq == ul_harq_processes[Head(feedback_ul_harq)]
  <2>1. harq.tb_size \in Nat
    <3>1. Head(feedback_ul_harq) \in Procs
      BY <1>1, <1>2
    <3>2. ul_harq_processes \in [Procs -> [round : 0 .. RoundMax - 1, ndi : {0, 1},
                                          is_waiting : BOOLEAN, tb_size : Nat]]
      BY <1>0 DEF TypeOK
    <3> QED BY <3>1, <3>2
  <2>2. Max0(sched_ul_bytes - harq.tb_size) \in Nat
    <3> HIDE DEF harq
    <3>1. sched_ul_bytes - harq.tb_size \in Int
      BY <1>0, <2>1, SMTT(60) DEF TypeOK
    <3> QED BY <3>1, Max0Nat
  <2>3. CASE rx_ok
    <3>1. PICK sdu \in {0, Head(air).tb_size}, bsr \in Bsr \cup {-1} : nr_rx_sdu(sdu, bsr)
      BY <2>3 DEF rx_ok
    <3>2. sdu \in Nat /\ bsr \in Int
      <4> DEFINE R == [pid : Procs, tb_size : Nat]
      <4>1. air \in Seq(R) /\ \A r \in R : r.tb_size \in Nat
        BY <1>0 DEF TypeOK
      <4> HIDE DEF R
      <4>2. Head(air) \in R
        BY <1>0, <4>1
      <4> QED BY <4>1, <4>2, UlHarqAssumption
    <3>3. Max0(estimated_ul_buffer - sdu) \in Nat
      <4>1. estimated_ul_buffer - sdu \in Int
        BY <1>0, <3>2 DEF TypeOK
      <4> QED BY <4>1, Max0Nat
    <3>4. /\ dtx_cnt' = 0 /\ sched_ul_bytes' = Max0(sched_ul_bytes - harq.tb_size)
          /\ estimated_ul_buffer' = (IF bsr >= 0 THEN bsr ELSE Max0(estimated_ul_buffer - sdu))
          /\ ul_failure' = ul_failure
      BY <3>1 DEF nr_rx_sdu
    <3> HIDE DEF harq
    <3> QED BY <1>0, <2>2, <3>2, <3>3, <3>4, UlHarqAssumption DEF TypeOK
  <2>4. CASE rx_null
    <3>1. PICK dtx \in BOOLEAN : nr_rx_sdu_null(dtx)
      BY <2>4 DEF rx_null
    <3>2. sched_ul_bytes' \in Nat
      BY <1>0, <2>2, <3>1 DEF nr_rx_sdu_null, TypeOK
    <3>3. dtx_cnt' \in 0 .. DtxThres /\ ul_failure' \in BOOLEAN
      BY <1>0, <3>1, UlHarqAssumption DEF nr_rx_sdu_null, TypeOK
    <3>4. estimated_ul_buffer' \in Nat
      BY <1>0, <3>1 DEF nr_rx_sdu_null, TypeOK
    <3> QED BY <3>2, <3>3, <3>4
  <2> QED BY <2>3, <2>4
<1>7. TypeOK'
  <2>1. crc' \in [harq_id : Procs, ok : BOOLEAN]
    BY <1>3, <1>4
  <2> QED BY <1>0, <1>3, <1>4, <1>6, <2>1 DEF TypeOK, lists
<1>8. OneList'
  BY <1>0, <1>3 DEF OneList, lists
<1>9. Pending' = Pending
  BY <1>0, <1>3, <1>5, PendingRx
<1> QED BY <1>0, <1>3, <1>7, <1>8, <1>9 DEF IInv, ResultsAwaited, lists

LEMMA AnsweredType ==
    ASSUME IInv, NEW ok \in BOOLEAN, feedback_ul_harq # <<>>, Answered(ok),
           crc' \in [harq_id : Procs, ok : BOOLEAN] \cup {NoCrc}
    PROVE  TypeOK'
<1>0. TypeOK
  BY DEF IInv
<1> DEFINE pid == Head(feedback_ul_harq)
<1>1. /\ pid \in Procs /\ feedback_ul_harq' = Tail(feedback_ul_harq)
      /\ ul_harq_processes' \in [Procs -> Harq] /\ sched_ul_bytes' \in Nat
      /\ \/ available_ul_harq' = Append(available_ul_harq, pid) /\ UNCHANGED retrans_ul_harq
         \/ retrans_ul_harq' = Append(retrans_ul_harq, pid) /\ UNCHANGED available_ul_harq
  BY AnsweredFacts
<1> HIDE DEF pid
<1>2. /\ available_ul_harq \in Seq(Procs) /\ feedback_ul_harq \in Seq(Procs)
      /\ retrans_ul_harq \in Seq(Procs)
  BY <1>0 DEF TypeOK
<1>3. feedback_ul_harq' \in Seq(Procs)
  BY <1>1, <1>2
<1>4. /\ Append(available_ul_harq, pid) \in Seq(Procs)
      /\ Append(retrans_ul_harq, pid) \in Seq(Procs)
  BY <1>1, <1>2
<1>5. UNCHANGED <<sched_pusch, estimated_ul_buffer, dtx_cnt, ul_failure, air, lost>>
  BY DEF Answered
<1> QED BY <1>0, <1>1, <1>2, <1>3, <1>4, <1>5 DEF TypeOK, Harq

LEMMA SkipStep ==
    ASSUME IInv, skip_missed PROVE IInv'
<1>0. /\ TypeOK /\ ResultsAwaited /\ crc # NoCrc /\ UNCHANGED <<crc, air>>
      /\ feedback_ul_harq # <<>> /\ Head(feedback_ul_harq) # crc.harq_id
      /\ Answered(FALSE)
  BY DEF IInv, skip_missed, Answered
<1>1. OneList'
  BY <1>0, AnsweredOneList
<1>2. TypeOK'
  <2>1. crc' \in [harq_id : Procs, ok : BOOLEAN] \cup {NoCrc}
    BY <1>0 DEF TypeOK
  <2> QED BY <1>0, <2>1, AnsweredType
<1>3. feedback_ul_harq' = Tail(feedback_ul_harq) /\ Pending' = Pending
  BY <1>0 DEF Answered, Pending
<1>4. /\ Pending \in Seq(Procs) /\ Pending # <<>> /\ feedback_ul_harq \in Seq(Procs)
      /\ Pending[1] = crc.harq_id
  BY <1>0, PendingFacts DEF TypeOK
<1>5. Embedded(Pending, Tail(feedback_ul_harq))
  BY <1>0, <1>4, EmbeddedTails DEF ResultsAwaited
<1> QED BY <1>1, <1>2, <1>3, <1>5 DEF IInv, ResultsAwaited

LEMMA HandleStep ==
    ASSUME IInv, handle_nr_ul_harq PROVE IInv'
<1>0. /\ TypeOK /\ ResultsAwaited /\ crc # NoCrc /\ crc' = NoCrc /\ UNCHANGED air
      /\ feedback_ul_harq # <<>> /\ Head(feedback_ul_harq) = crc.harq_id
      /\ Answered(crc.ok)
  BY DEF IInv, handle_nr_ul_harq, Answered
<1>1. crc.ok \in BOOLEAN /\ crc' \in [harq_id : Procs, ok : BOOLEAN] \cup {NoCrc}
  BY <1>0 DEF TypeOK
<1>2. OneList'
  BY <1>0, <1>1, AnsweredOneList
<1>3. TypeOK'
  BY <1>0, <1>1, AnsweredType
<1>4. feedback_ul_harq' = Tail(feedback_ul_harq) /\ Pending' = Tail(Pending)
  BY <1>0, PendingDone DEF Answered
<1>5. /\ Pending \in Seq(Procs) /\ Pending # <<>> /\ feedback_ul_harq \in Seq(Procs)
      /\ Pending[1] = crc.harq_id
  BY <1>0, PendingFacts DEF TypeOK
<1>6. Embedded(Tail(Pending), Tail(feedback_ul_harq))
  BY <1>0, <1>5, EmbeddedTails DEF ResultsAwaited
<1> QED BY <1>2, <1>3, <1>4, <1>6 DEF IInv, ResultsAwaited

LEMMA LoseStep ==
    ASSUME IInv, lose PROVE IInv'
<1>0. /\ TypeOK /\ OneList /\ ResultsAwaited /\ crc = NoCrc /\ air # <<>>
      /\ lost < MaxLost /\ air' = Tail(air) /\ lost' = lost + 1
      /\ UNCHANGED <<lists, ul_harq_processes, ueVars, crc>>
  BY DEF IInv, lose
<1>1. TypeOK'
  <2>1. air' \in Seq([pid : Procs, tb_size : Nat])
    <3> DEFINE R == [pid : Procs, tb_size : Nat]
    <3>1. air \in Seq(R)
      BY <1>0 DEF TypeOK
    <3> HIDE DEF R
    <3>2. air' \in Seq(R)
      BY <1>0, <3>1
    <3> QED BY <3>2 DEF R
  <2>2. lost' \in 0 .. MaxLost
    BY <1>0, UlHarqAssumption DEF TypeOK
  <2> QED BY <1>0, <2>1, <2>2 DEF TypeOK, lists, ueVars
<1>2. OneList'
  BY <1>0 DEF OneList, lists
<1>3. Pending' = Tail(Pending)
  BY <1>0, PendingDone
<1>4. /\ Pending \in Seq(Procs) /\ Pending # <<>> /\ feedback_ul_harq \in Seq(Procs)
  BY <1>0, PendingFacts DEF TypeOK
<1>5. Embedded(Tail(Pending), feedback_ul_harq)
  BY <1>0, <1>4, EmbeddedTails DEF ResultsAwaited
<1> QED BY <1>0, <1>1, <1>2, <1>3, <1>5 DEF IInv, ResultsAwaited, lists

(* The steps that leave the lists and the results alone.                   *)
LEMMA QuietStep ==
    ASSUME IInv, schedule_nothing \/ ul_failure_reset \/ UNCHANGED vars PROVE IInv'
<1>0. TypeOK /\ OneList /\ ResultsAwaited
  BY DEF IInv
<1>1. UNCHANGED <<lists, ul_harq_processes, sched_ul_bytes, estimated_ul_buffer,
                  air, crc, lost>>
  BY DEF schedule_nothing, ul_failure_reset, vars, ueVars
<1>2. OneList' /\ ResultsAwaited'
  BY <1>0, <1>1 DEF OneList, ResultsAwaited, Pending, lists
<1>3. sched_pusch' \in Pusch /\ dtx_cnt' \in 0 .. DtxThres /\ ul_failure' \in BOOLEAN
  <2>1. CASE schedule_nothing
    <3>1. PICK pusch \in pf_ul : sched_pusch' = pusch
      BY <2>1 DEF schedule_nothing
    <3>2. UNCHANGED <<dtx_cnt, ul_failure>>
      BY <2>1 DEF schedule_nothing
    <3>3. pusch \in Pusch
      BY <1>0, PfUlType
    <3> QED BY <1>0, <3>1, <3>2, <3>3 DEF TypeOK
  <2>2. CASE ul_failure_reset
    <3>1. sched_pusch' \in Pusch
      BY <1>0, <2>2 DEF ul_failure_reset, TypeOK, Pusch
    <3>2. dtx_cnt' = 0 /\ ul_failure' = FALSE
      BY <2>2 DEF ul_failure_reset
    <3>3. 0 \in 0 .. DtxThres
      BY UlHarqAssumption
    <3> QED BY <3>1, <3>2, <3>3
  <2>3. CASE UNCHANGED vars
    BY <1>0, <2>3 DEF vars, ueVars, TypeOK, Pusch
  <2> QED BY <2>1, <2>2, <2>3
<1>4. TypeOK'
  BY <1>0, <1>1, <1>3 DEF TypeOK, lists, Pusch
<1> QED BY <1>2, <1>4 DEF IInv

LEMMA IInvNext == ASSUME IInv, [Next]_vars PROVE IInv'
BY ScheduleStep, RxStep, SkipStep, HandleStep, LoseStep, QuietStep DEF Next

LEMMA Invariance == Spec => []IInv
<1>1. Init => IInv
  BY IInvInit
<1>2. IInv /\ [Next]_vars => IInv'
  BY IInvNext
<1> QED BY <1>1, <1>2, PTL DEF Spec

(* Every variable of the uplink HARQ keeps its type: in particular no      *)
(* process passes harq_round_max - 1 rounds and no byte counter of the UE  *)
(* is negative.                                                            *)
THEOREM UlHarqTypes == Spec => []TypeOK
<1>1. IInv => TypeOK
  BY DEF IInv
<1> QED BY <1>1, Invariance, PTL

(* Each process is in exactly one of the three lists of the UE, with the   *)
(* is_waiting flag and the round that belong to it, whatever results are   *)
(* missed: the DevAsserts of nr_schedule_ulsch and handle_nr_ul_harq hold. *)
THEOREM UlHarqOneList == Spec => []OneList
<1>1. IInv => OneList
  BY DEF IInv
<1> QED BY <1>1, Invariance, PTL

(* Whatever results the PHY fails to report, those still to come are       *)
(* awaited by the feedback list in their order: handle_nr_ul_harq finds    *)
(* the process of every result before the list is empty.                   *)
THEOREM UlHarqResultsAwaited == Spec => []ResultsAwaited
<1>1. IInv => ResultsAwaited
  BY DEF IInv
<1> QED BY <1>1, Invariance, PTL
-----------------------------------------------------------------------------
(* The free processes.  The lists hold as many entries as there are        *)
(* processes, and no more of them await a result than there are results    *)
(* on their way, in hand or lost.                                          *)
Counted ==
    /\ Len(available_ul_harq) + Len(feedback_ul_harq) + Len(retrans_ul_harq) = NProcs
    /\ Len(feedback_ul_harq) <= Len(air) + (IF crc = NoCrc THEN 0 ELSE 1) + lost

Lengths(s) == Len(s) \in Nat /\ (s = <<>> <=> Len(s) = 0)

LEMMA SeqLengths ==
    ASSUME NEW S, NEW s \in Seq(S)
    PROVE  /\ Lengths(s)
           /\ s # <<>> => Len(Tail(s)) = Len(s) - 1
           /\ \A x \in S : Len(Append(s, x)) = Len(s) + 1
BY DEF Lengths

LEMMA ListLengths ==
    ASSUME TypeOK
    PROVE  /\ Lengths(available_ul_harq) /\ Lengths(feedback_ul_harq)
           /\ Lengths(retrans_ul_harq) /\ Lengths(air)
           /\ lost \in Nat
<1>1. /\ available_ul_harq \in Seq(Procs) /\ feedback_ul_harq \in Seq(Procs)
      /\ retrans_ul_harq \in Seq(Procs) /\ air \in Seq([pid : Procs, tb_size : Nat])
      /\ lost \in Nat
  BY UlHarqAssumption, SMTT(60) DEF TypeOK
<1> QED BY <1>1, SeqLengths

LEMMA CountedGrant == ASSUME IInv, Counted, nr_schedule_ulsch PROVE Counted'
<1>1. PICK pusch \in pf_ul : /\ pusch.pid = NoProc => available_ul_harq # <<>>
                             /\ Grant(pusch)
  BY DEF nr_schedule_ulsch
<1> DEFINE pid == SchedPid(pusch)
<1>2. /\ pid \in Procs
      /\ \/ /\ available_ul_harq # <<>>
            /\ available_ul_harq' = Tail(available_ul_harq)
            /\ UNCHANGED retrans_ul_harq
         \/ /\ retrans_ul_harq # <<>>
            /\ retrans_ul_harq' = Tail(retrans_ul_harq)
            /\ UNCHANGED available_ul_harq
      /\ feedback_ul_harq' = Append(feedback_ul_harq, pid)
  BY <1>1, GrantFacts
<1>3. /\ air' = Append(air, [pid |-> pid, tb_size |-> pusch.tb_size])
      /\ crc' = crc /\ lost' = lost
  BY <1>1 DEF Grant
<1>4. /\ available_ul_harq \in Seq(Procs) /\ feedback_ul_harq \in Seq(Procs)
      /\ retrans_ul_harq \in Seq(Procs) /\ air \in Seq([pid : Procs, tb_size : Nat])
  BY DEF IInv, TypeOK
<1>5. [pid |-> pid, tb_size |-> pusch.tb_size] \in [pid : Procs, tb_size : Nat]
  BY <1>1, <1>2, PfUlType DEF IInv, Pusch
<1>6. Lengths(available_ul_harq) /\ Lengths(feedback_ul_harq) /\ Lengths(retrans_ul_harq)
      /\ Lengths(air) /\ lost \in Nat
  BY ListLengths DEF IInv
<1>7. /\ Len(feedback_ul_harq') = Len(feedback_ul_harq) + 1
      /\ Len(air') = Len(air) + 1
  BY <1>2, <1>3, <1>4, <1>5, SeqLengths
<1>8. Len(available_ul_harq') + Len(retrans_ul_harq')
        = Len(available_ul_harq) + Len(retrans_ul_harq) - 1
  <2>1. CASE /\ available_ul_harq # <<>>
             /\ available_ul_harq' = Tail(available_ul_harq)
             /\ UNCHANGED retrans_ul_harq
    <3>1. Len(available_ul_harq') = Len(available_ul_harq) - 1
      BY <2>1, <1>4, SeqLengths
    <3> QED BY <2>1, <3>1, <1>6 DEF Lengths
  <2>2. CASE /\ retrans_ul_harq # <<>>
             /\ retrans_ul_harq' = Tail(retrans_ul_harq)
             /\ UNCHANGED available_ul_harq
    <3>1. Len(retrans_ul_harq') = Len(retrans_ul_harq) - 1
      BY <2>2, <1>4, SeqLengths
    <3> QED BY <2>2, <3>1, <1>6 DEF Lengths
  <2> QED BY <1>2, <2>1, <2>2
<1>9. Len(available_ul_harq') \in Nat /\ Len(retrans_ul_harq') \in Nat
  <2>1. TypeOK' BY ScheduleStep DEF IInv
  <2> QED BY <2>1 DEF TypeOK
<1>10. Len(available_ul_harq') + Len(feedback_ul_harq') + Len(retrans_ul_harq') = NProcs
  BY <1>6, <1>7, <1>8, <1>9, UlHarqAssumption, SMTT(60) DEF Counted, Lengths
<1>11. Len(feedback_ul_harq') <= Len(air') + (IF crc' = NoCrc THEN 0 ELSE 1) + lost'
  BY <1>3, <1>6, <1>7, SMTT(60) DEF Counted, Lengths
<1> QED BY <1>10, <1>11 DEF Counted

LEMMA CountedAnswer ==
    ASSUME IInv, Counted, skip_missed \/ handle_nr_ul_harq PROVE Counted'
<1>1. PICK ok \in BOOLEAN : feedback_ul_harq # <<>> /\ Answered(ok)
  <2>1. CASE skip_missed BY <2>1 DEF skip_missed
  <2>2. CASE handle_nr_ul_harq
    <3>1. crc \in [harq_id : Procs, ok : BOOLEAN] \cup {NoCrc} BY DEF IInv, TypeOK
    <3>3. crc \in [harq_id : Procs, ok : BOOLEAN] BY <2>2, <3>1 DEF handle_nr_ul_harq
    <3>2. crc.ok \in BOOLEAN BY <3>3, Zenon
    <3> QED BY <2>2, <3>2 DEF handle_nr_ul_harq
  <2> QED BY <2>1, <2>2
<1> DEFINE pid == Head(feedback_ul_harq)
<1>2. /\ pid \in Procs
      /\ feedback_ul_harq' = Tail(feedback_ul_harq)
      /\ \/ /\ available_ul_harq' = Append(available_ul_harq, pid)
            /\ UNCHANGED retrans_ul_harq
         \/ /\ retrans_ul_harq' = Append(retrans_ul_harq, pid)
            /\ UNCHANGED available_ul_harq
  BY <1>1, AnsweredFacts
<1>3. /\ air' = air /\ lost' = lost
  BY <1>1 DEF Answered
<1>4. /\ available_ul_harq \in Seq(Procs) /\ feedback_ul_harq \in Seq(Procs)
      /\ retrans_ul_harq \in Seq(Procs)
  BY DEF IInv, TypeOK
<1>5. crc' = crc \/ (crc' = NoCrc /\ crc # NoCrc)
  BY DEF skip_missed, handle_nr_ul_harq
<1>6. Lengths(available_ul_harq) /\ Lengths(feedback_ul_harq) /\ Lengths(retrans_ul_harq)
      /\ Lengths(air) /\ lost \in Nat
  BY ListLengths DEF IInv
<1>7. Len(feedback_ul_harq') = Len(feedback_ul_harq) - 1
  BY <1>1, <1>2, <1>4, SeqLengths
<1> HIDE DEF pid
<1>8. Len(available_ul_harq') + Len(retrans_ul_harq')
        = Len(available_ul_harq) + Len(retrans_ul_harq) + 1
  <2>1. CASE available_ul_harq' = Append(available_ul_harq, pid) /\ UNCHANGED retrans_ul_harq
    <3>1. Len(available_ul_harq') = Len(available_ul_harq) + 1
      BY <2>1, <1>2, <1>4, SeqLengths
    <3> QED BY <2>1, <3>1, <1>6 DEF Lengths
  <2>2. CASE retrans_ul_harq' = Append(retrans_ul_harq, pid) /\ UNCHANGED available_ul_harq
    <3>1. Len(retrans_ul_harq') = Len(retrans_ul_harq) + 1
      BY <2>2, <1>2, <1>4, SeqLengths
    <3> QED BY <2>2, <3>1, <1>6 DEF Lengths
  <2> QED BY <1>2, <2>1, <2>2
<1>9. Len(available_ul_harq') \in Nat /\ Len(retrans_ul_harq') \in Nat
  <2>1. TypeOK' BY SkipStep, HandleStep DEF IInv
  <2> QED BY <2>1 DEF TypeOK
<1> QED BY <1>3, <1>5, <1>6, <1>7, <1>8, <1>9, SMTT(60) DEF Counted, Lengths

LEMMA CountedAir == ASSUME IInv, Counted, rx_ok \/ rx_null \/ lose PROVE Counted'
<1>1. air # <<>> /\ air' = Tail(air) /\ UNCHANGED lists /\ crc = NoCrc
  BY DEF rx_ok, rx_null, lose
<1>2. \/ crc' = crc /\ lost' = lost + 1
      \/ crc' # NoCrc /\ lost' = lost
  <2>1. CASE lose BY <2>1 DEF lose
  <2>2. CASE rx_ok \/ rx_null
    <3>3. air \in Seq([pid : Procs, tb_size : Nat]) BY DEF IInv, TypeOK
    <3>1. Head(air).pid \in Procs
      <4>1. Head(air) \in [pid : Procs, tb_size : Nat] BY <1>1, <3>3, HeadTailProperties
      <4> QED BY <4>1
    <3>2. crc'.harq_id = Head(air).pid /\ lost' = lost BY <2>2, SMTT(60) DEF rx_ok, rx_null
    <3> QED BY <3>1, <3>2, NoProcIsNone DEF NoCrc
  <2> QED BY <2>1, <2>2
<1>3. air \in Seq([pid : Procs, tb_size : Nat]) BY DEF IInv, TypeOK
<1>4. Len(air') = Len(air) - 1 BY <1>1, <1>3, SeqLengths
<1>5. Lengths(available_ul_harq) /\ Lengths(feedback_ul_harq) /\ Lengths(retrans_ul_harq)
      /\ Lengths(air) /\ lost \in Nat
  BY ListLengths DEF IInv
<1> QED BY <1>1, <1>2, <1>4, <1>5 DEF Counted, Lengths, lists

LEMMA CountedInvariance == Spec => []Counted
<1>1. Init => Counted
  <2> SUFFICES ASSUME Init PROVE Counted
    OBVIOUS
  <2>1. Len(available_ul_harq) = NProcs /\ feedback_ul_harq = <<>> /\ retrans_ul_harq = <<>>
        /\ air = <<>> /\ crc = NoCrc /\ lost = 0
    BY UlHarqAssumption DEF Init
  <2> QED BY <2>1, UlHarqAssumption DEF Counted
<1>2. IInv /\ Counted /\ [Next]_vars => Counted'
  <2>1. CASE schedule_nothing \/ ul_failure_reset \/ UNCHANGED vars
    BY <2>1 DEF schedule_nothing, ul_failure_reset, vars, lists, Counted
  <2> QED BY <2>1, CountedGrant, CountedAnswer, CountedAir DEF Next
<1> QED BY <1>1, <1>2, Invariance, PTL DEF Spec

(* With at least as many processes as PUSCHs in flight and results lost    *)
(* together, nr_schedule_ulsch finds a free process for every new block,   *)
(* although pf_ul never checks that there is one: the assertion on         *)
(* available_ul_harq.head cannot fail.                                     *)
THEOREM UlHarqFreeProcess ==
    ASSUME MaxAir + MaxLost <= NProcs
    PROVE  Spec => []FreeProcess
<1>1. IInv /\ Counted => FreeProcess
  <2> SUFFICES ASSUME IInv, Counted, crc = NoCrc, Len(air) < MaxAir, retrans_ul_harq = <<>>
               PROVE  available_ul_harq # <<>>
    BY DEF FreeProcess
  <2>1. Lengths(available_ul_harq) /\ Lengths(feedback_ul_harq) /\ Lengths(retrans_ul_harq)
        /\ Lengths(air) /\ lost \in 0 .. MaxLost
    BY ListLengths DEF IInv, TypeOK
  <2> QED BY <2>1, UlHarqAssumption DEF Counted, Lengths
<1> QED BY <1>1, Invariance, CountedInvariance, PTL
-----------------------------------------------------------------------------
(* The refinement.                                                         *)
place == [p \in Procs |-> IF In(p, feedback_ul_harq) THEN "feedback"
                          ELSE IF In(p, retrans_ul_harq) THEN "retrans" ELSE "available"]
round == [p \in Procs |-> ul_harq_processes[p].round]
ndi == [p \in Procs |-> ul_harq_processes[p].ndi]

(* A grant is one abstract transmission.                                   *)
LEMMA GrantRefines ==
    ASSUME IInv, nr_schedule_ulsch PROVE HarqService!Next
<1>0. TypeOK /\ OneList
  BY DEF IInv
<1>1. PICK pusch \in pf_ul :
        pusch.rbs /\ (pusch.pid = NoProc => available_ul_harq # <<>>) /\ Grant(pusch)
  BY DEF nr_schedule_ulsch
<1> DEFINE pid == SchedPid(pusch)
           h == ul_harq_processes
<1>2. /\ pid \in Procs
      /\ \/ /\ available_ul_harq # <<>> /\ pid = Head(available_ul_harq)
            /\ available_ul_harq' = Tail(available_ul_harq)
            /\ UNCHANGED retrans_ul_harq
         \/ /\ retrans_ul_harq # <<>> /\ pid = Head(retrans_ul_harq)
            /\ retrans_ul_harq' = Tail(retrans_ul_harq)
            /\ UNCHANGED available_ul_harq
      /\ feedback_ul_harq' = Append(feedback_ul_harq, pid)
      /\ \A q \in Procs : h'[q].round = h[q].round /\ h'[q].ndi = h[q].ndi
  BY <1>1, GrantFacts
<1> HIDE DEF pid
<1>3. /\ available_ul_harq \in Seq(Procs) /\ feedback_ul_harq \in Seq(Procs)
      /\ retrans_ul_harq \in Seq(Procs)
  BY <1>0 DEF TypeOK
<1>4. \A q : In(q, feedback_ul_harq)' <=> (In(q, feedback_ul_harq) \/ q = pid)
  BY <1>2, <1>3, AppendList
<1>5. ~In(pid, feedback_ul_harq)
  <2>1. In(pid, available_ul_harq) \/ In(pid, retrans_ul_harq)
    BY <1>0, <1>2, <1>3, TailList DEF OneList
  <2> QED BY <1>0, <1>2, <2>1 DEF OneList
<1>6. \A q \in Procs : q # pid => (In(q, retrans_ul_harq)' <=> In(q, retrans_ul_harq))
  <2>1. CASE UNCHANGED retrans_ul_harq
    BY <2>1
  <2>2. CASE /\ retrans_ul_harq # <<>> /\ pid = Head(retrans_ul_harq)
             /\ retrans_ul_harq' = Tail(retrans_ul_harq)
    BY <1>0, <1>3, <2>2, TailList DEF OneList
  <2> QED BY <1>2, <2>1, <2>2
<1>7. place[pid] # "feedback"
  BY <1>2, <1>5 DEF place
<1>8. place' = [place EXCEPT ![pid] = "feedback"]
  BY <1>2, <1>4, <1>6 DEF place
<1>9. round' = round /\ ndi' = ndi
  BY <1>2 DEF round, ndi
<1>10. HarqService!Send(pid)
  BY <1>7, <1>8, <1>9 DEF HarqService!Send, place, round, ndi
<1> QED BY <1>2, <1>10 DEF HarqService!Next

(* An answer, given or missed, is one abstract release or retry.           *)
LEMMA AnswerRefines ==
    ASSUME IInv, NEW ok \in BOOLEAN, feedback_ul_harq # <<>>, Answered(ok)
    PROVE  HarqService!Next
<1>0. TypeOK /\ OneList
  BY DEF IInv
<1> DEFINE h == ul_harq_processes
<1>9. PICK pid \in Procs : pid = Head(feedback_ul_harq)
  BY AnsweredFacts
<1>1. /\ feedback_ul_harq' = Tail(feedback_ul_harq)
      /\ \A q \in Procs : q # pid => h'[q] = h[q]
      /\ \/ /\ available_ul_harq' = Append(available_ul_harq, pid)
            /\ UNCHANGED retrans_ul_harq
            /\ h'[pid].round = 0 /\ h'[pid].ndi = 1 - h[pid].ndi
         \/ /\ retrans_ul_harq' = Append(retrans_ul_harq, pid)
            /\ UNCHANGED available_ul_harq
            /\ h'[pid].round = h[pid].round + 1 /\ h'[pid].ndi = h[pid].ndi
            /\ h[pid].round + 1 < RoundMax
  BY <1>9, AnsweredFacts
<1>2. /\ feedback_ul_harq \in Seq(Procs) /\ retrans_ul_harq \in Seq(Procs)
      /\ Distinct(feedback_ul_harq)
  BY <1>0 DEF TypeOK, OneList
<1>3. /\ In(pid, feedback_ul_harq)
      /\ \A q : In(q, feedback_ul_harq)' <=> (In(q, feedback_ul_harq) /\ q # pid)
  BY <1>9, <1>1, <1>2, TailList
<1>4. ~In(pid, retrans_ul_harq)
  BY <1>0, <1>1, <1>3 DEF OneList
<1>5. place[pid] = "feedback"
  BY <1>1, <1>3 DEF place
<1>6. CASE /\ UNCHANGED retrans_ul_harq
           /\ h'[pid].round = 0 /\ h'[pid].ndi = 1 - h[pid].ndi
  <2>1. place' = [place EXCEPT ![pid] = "available"]
    BY <1>1, <1>3, <1>4, <1>6 DEF place
  <2>2. round' = [round EXCEPT ![pid] = 0]
    BY <1>1, <1>6 DEF round
  <2>3. ndi' = [ndi EXCEPT ![pid] = 1 - @]
    BY <1>1, <1>6 DEF ndi
  <2>4. HarqService!Release(pid)
    BY <1>5, <2>1, <2>2, <2>3 DEF HarqService!Release, place, round, ndi
  <2>5. \E p \in Procs : HarqService!Send(p) \/ HarqService!Release(p) \/ HarqService!Again(p)
    BY <2>4
  <2> QED BY <2>5 DEF HarqService!Next
<1>7. CASE /\ retrans_ul_harq' = Append(retrans_ul_harq, pid)
           /\ h'[pid].round = h[pid].round + 1 /\ h'[pid].ndi = h[pid].ndi
           /\ h[pid].round + 1 < RoundMax
  <2>0. \A q : In(q, retrans_ul_harq)' <=> (In(q, retrans_ul_harq) \/ q = pid)
    BY <1>1, <1>2, <1>7, AppendList
  <2>1. place' = [place EXCEPT ![pid] = "retrans"]
    BY <1>1, <1>3, <2>0 DEF place
  <2>2. round' = [round EXCEPT ![pid] = @ + 1] /\ round[pid] + 1 < RoundMax
    BY <1>1, <1>7 DEF round
  <2>3. ndi' = ndi
    BY <1>1, <1>7 DEF ndi
  <2>4. HarqService!Again(pid)
    BY <1>5, <2>1, <2>2, <2>3 DEF HarqService!Again, place, round, ndi
  <2>5. \E p \in Procs : HarqService!Send(p) \/ HarqService!Release(p) \/ HarqService!Again(p)
    BY <2>4
  <2> QED BY <2>5 DEF HarqService!Next
<1> QED BY <1>1, <1>6, <1>7

(* pf_ul, nr_schedule_ulsch, nr_rx_sdu and handle_nr_ul_harq together      *)
(* implement the life of a HARQ process that HarqProcs describes: one      *)
(* answer for every transmission, at most harq_round_max rounds, and a new *)
(* data indicator that toggles exactly when a block is finished.           *)
THEOREM UlHarqImplements == Spec => ImplementsHarq
<1>1. Init => HarqService!Init
  <2> SUFFICES ASSUME Init PROVE HarqService!Init
    OBVIOUS
  <2>1. \A p : ~In(p, <<>>)
    BY DEF In
  <2> QED BY <2>1 DEF Init, HarqService!Init
<1>2. IInv /\ [Next]_vars => [HarqService!Next]_(HarqService!procVars)
  <2> SUFFICES ASSUME IInv, [Next]_vars
               PROVE  HarqService!Next \/ UNCHANGED HarqService!procVars
    OBVIOUS
  <2>1. CASE nr_schedule_ulsch
    BY <2>1, GrantRefines
  <2>2. CASE skip_missed
    BY <2>2, AnswerRefines DEF skip_missed
  <2>3. CASE handle_nr_ul_harq
    <3>1. crc.ok \in BOOLEAN
      BY <2>3 DEF IInv, TypeOK, handle_nr_ul_harq
    <3> QED BY <2>3, <3>1, AnswerRefines DEF handle_nr_ul_harq
  <2>4. ASSUME UNCHANGED <<lists, ul_harq_processes>>
        PROVE  UNCHANGED HarqService!procVars
    BY <2>4 DEF lists, HarqService!procVars
  <2>5. CASE \/ schedule_nothing \/ rx_ok \/ rx_null \/ ul_failure_reset \/ lose
             \/ UNCHANGED vars
    <3>1. UNCHANGED <<lists, ul_harq_processes>>
      BY <2>5 DEF schedule_nothing, rx_ok, rx_null, ul_failure_reset, lose, vars
    <3> QED BY <3>1, <2>4
  <2> QED BY <2>1, <2>2, <2>3, <2>5 DEF Next
<1> QED BY <1>1, <1>2, Invariance, PTL DEF Spec, ImplementsHarq, HarqService!Spec
-----------------------------------------------------------------------------
(* Sums over the processes.  Induction up to n is over the set of the      *)
(* numbers for which a fact holds.                                         *)
LEMMA UpTo ==
    ASSUME NEW n \in Nat, NEW T, 0 \in T, \A k \in 1 .. n : k - 1 \in T => k \in T
    PROVE  \A k \in 0 .. n : k \in T
<1> DEFINE Less == {ss \in Nat \X Nat : ss[1] < ss[2]}
           S == {k \in 0 .. n : k \notin T}
<1>1. Less = OpToRel(<, Nat)
  BY Zenon DEF OpToRel
<1>2. IsWellFoundedOn(Less, Nat)
  BY <1>1, NatLessThanWellFounded, Zenon
<1>3. S \subseteq Nat
  OBVIOUS
<1>4. ASSUME S # {} PROVE FALSE
  <2>1. PICK x \in S : \A y \in S : ~(<<y, x>> \in Less)
    <3> HIDE DEF S, Less
    <3> QED BY <1>2, <1>3, <1>4, WFMin, Zenon
  <2>2. x \in 0 .. n /\ x \notin T
    OBVIOUS
  <2>3. x \in 1 .. n /\ x - 1 \in 0 .. n
    BY <2>2
  <2>4. x - 1 \in T
    <3> SUFFICES ASSUME x - 1 \notin T PROVE FALSE
      OBVIOUS
    <3>1. x - 1 \in S
      BY <2>3
    <3>2. <<x - 1, x>> \in Less
      BY <2>3
    <3> QED BY <2>1, <3>1, <3>2, Zenon
  <2> QED BY <2>2, <2>3, <2>4
<1> QED BY <1>4

(* The sums of the first processes.                                        *)
Sums(f, w, n) ==
    /\ f \in [0 .. n -> Int] /\ f[0] = 0
    /\ \A k \in 1 .. n : f[k] = f[k - 1] + w[k - 1]

LEMMA SumsLonger ==
    ASSUME NEW w, NEW x \in Nat, x # 0, w[x - 1] \in Int, NEW g, Sums(g, w, x - 1)
    PROVE  \E f : Sums(f, w, x)
<1> DEFINE f == [k \in 0 .. x |-> IF k = x THEN g[x - 1] + w[x - 1] ELSE g[k]]
<1>1. /\ \A k \in 0 .. x - 1 : g[k] \in Int
      /\ g[0] = 0
      /\ \A k \in 1 .. x - 1 : g[k] = g[k - 1] + w[k - 1]
  BY DEF Sums
<1>2. /\ f \in [0 .. x -> Int] /\ f[0] = 0 /\ f[x] = f[x - 1] + w[x - 1]
      /\ \A k \in 0 .. x - 1 : f[k] = g[k]
  BY <1>1
<1> HIDE DEF f
<1>3. ASSUME NEW k \in 1 .. x PROVE f[k] = f[k - 1] + w[k - 1]
  <2>1. CASE k = x
    BY <2>1, <1>2
  <2>2. CASE k # x
    <3>1. k \in 1 .. x - 1 /\ k \in 0 .. x - 1 /\ k - 1 \in 0 .. x - 1
      BY <2>2
    <3> QED BY <3>1, <1>1, <1>2
  <2> QED BY <2>1, <2>2
<1>4. Sums(f, w, x)
  BY <1>2, <1>3 DEF Sums
<1> QED BY <1>4

LEMMA SumsExist ==
    ASSUME NEW w, NEW n \in Nat, \A k \in 1 .. n : w[k - 1] \in Int
    PROVE  \E f : Sums(f, w, n)
<1> DEFINE T == {k \in 0 .. n : \E f : Sums(f, w, k)}
<1>1. 0 \in T
  <2>1. Sums([k \in 0 .. 0 |-> 0], w, 0)
    BY DEF Sums
  <2> QED BY <2>1
<1>2. ASSUME NEW k \in 1 .. n, k - 1 \in T PROVE k \in T
  <2>1. PICK g : Sums(g, w, k - 1)
    BY <1>2
  <2>2. k \in Nat /\ k # 0 /\ w[k - 1] \in Int
    OBVIOUS
  <2>3. \E f : Sums(f, w, k)
    BY <2>1, <2>2, SumsLonger, Zenon
  <2> QED BY <2>3
<1>3. \A k \in 0 .. n : k \in T
  <2> HIDE DEF T
  <2> QED BY <1>1, <1>2, UpTo
<1>4. n \in T
  BY <1>3
<1> QED BY <1>4

(* The total is the last of the sums.                                      *)
LEMMA TotalIs ==
    ASSUME NEW w, NEW f, Sums(f, w, NProcs)
    PROVE  Total(w) = f[NProcs]
<1> DEFINE g == CHOOSE g : g = [k \in 0 .. NProcs |->
                                  IF k = 0 THEN 0 ELSE g[k - 1] + w[k - 1]]
<1>1. f = [k \in 0 .. NProcs |-> IF k = 0 THEN 0 ELSE f[k - 1] + w[k - 1]]
  BY DEF Sums
<1>2. g = [k \in 0 .. NProcs |-> IF k = 0 THEN 0 ELSE g[k - 1] + w[k - 1]]
  BY <1>1, Zenon
<1>3. Total(w) = g[NProcs]
  BY DEF Total
<1>4. NProcs \in Nat
  BY UlHarqAssumption
<1> HIDE DEF g
<1>5. g[0] = 0 /\ \A k \in 1 .. NProcs : g[k] = g[k - 1] + w[k - 1]
  <2>1. \A k \in 0 .. NProcs : g[k] = IF k = 0 THEN 0 ELSE g[k - 1] + w[k - 1]
    BY <1>2, Zenon
  <2>2. 0 \in 0 .. NProcs /\ \A k \in 1 .. NProcs : k \in 0 .. NProcs /\ k # 0
    BY <1>4
  <2> QED BY <2>1, <2>2, Zenon
<1>6. f[0] = 0 /\ \A k \in 1 .. NProcs : f[k] = f[k - 1] + w[k - 1]
  BY DEF Sums
<1> DEFINE T == {k \in 0 .. NProcs : g[k] = f[k]}
<1>7. 0 \in T
  BY <1>4, <1>5, <1>6
<1>8. ASSUME NEW k \in 1 .. NProcs, k - 1 \in T PROVE k \in T
  <2>1. g[k] = g[k - 1] + w[k - 1] /\ f[k] = f[k - 1] + w[k - 1] /\ g[k - 1] = f[k - 1]
    BY <1>5, <1>6, <1>8
  <2> QED BY <2>1, <1>4
<1>9. \A k \in 0 .. NProcs : k \in T
  <2> HIDE DEF T
  <2> QED BY <1>4, <1>7, <1>8, UpTo
<1> QED BY <1>9, <1>3, <1>4

LEMMA TotalFacts ==
    ASSUME NEW w \in [Procs -> Nat]
    PROVE  /\ Total(w) \in Nat
           /\ \E f : Sums(f, w, NProcs) /\ Total(w) = f[NProcs]
<1>1. NProcs \in Nat /\ \A k \in 1 .. NProcs : k - 1 \in Procs
  BY UlHarqAssumption DEF Procs
<1>2. \A k \in 1 .. NProcs : w[k - 1] \in Nat
  BY <1>1
<1>3. PICK f : Sums(f, w, NProcs)
  <2>1. \A k \in 1 .. NProcs : w[k - 1] \in Int
    BY <1>2
  <2> QED BY <1>1, <2>1, SumsExist
<1>4. Total(w) = f[NProcs]
  BY <1>3, TotalIs
<1>5. f[0] = 0 /\ \A k \in 1 .. NProcs : f[k] = f[k - 1] + w[k - 1]
  BY <1>3 DEF Sums
<1> DEFINE T == {k \in 0 .. NProcs : f[k] \in Nat}
<1>6. 0 \in T
  BY <1>1, <1>5
<1>7. ASSUME NEW k \in 1 .. NProcs, k - 1 \in T PROVE k \in T
  BY <1>1, <1>2, <1>5, <1>7
<1>8. \A k \in 0 .. NProcs : k \in T
  <2> HIDE DEF T
  <2> QED BY <1>1, <1>6, <1>7, UpTo
<1>9. f[NProcs] \in Nat
  BY <1>1, <1>8
<1> QED BY <1>3, <1>4, <1>9

(* When the bytes of one process change, the total changes by as much.     *)
LEMMA TotalChange ==
    ASSUME NEW v \in [Procs -> Nat], NEW w \in [Procs -> Nat], NEW q \in Procs,
           \A p \in Procs : p # q => w[p] = v[p]
    PROVE  Total(w) = Total(v) + w[q] - v[q]
<1>1. /\ NProcs \in Nat /\ q \in 0 .. NProcs - 1 /\ v[q] \in Nat /\ w[q] \in Nat
      /\ \A k \in 1 .. NProcs : k - 1 \in Procs
  BY UlHarqAssumption DEF Procs
<1>2. \A k \in 1 .. NProcs : /\ v[k - 1] \in Nat /\ w[k - 1] \in Nat
                             /\ k - 1 # q => w[k - 1] = v[k - 1]
  BY <1>1
<1>3. PICK f : Sums(f, v, NProcs) /\ Total(v) = f[NProcs]
  BY TotalFacts
<1>4. /\ \A k \in 0 .. NProcs : f[k] \in Int
      /\ f[0] = 0
      /\ \A k \in 1 .. NProcs : f[k] = f[k - 1] + v[k - 1]
  BY <1>3 DEF Sums
<1> DEFINE h == [k \in 0 .. NProcs |-> IF k <= q THEN f[k] ELSE f[k] + w[q] - v[q]]
<1>5. /\ h \in [0 .. NProcs -> Int] /\ h[0] = 0
      /\ \A k \in 0 .. NProcs : h[k] = IF k <= q THEN f[k] ELSE f[k] + w[q] - v[q]
  BY <1>1, <1>4
<1> HIDE DEF h
<1>6. ASSUME NEW k \in 1 .. NProcs PROVE h[k] = h[k - 1] + w[k - 1]
  <2>1. /\ k \in 0 .. NProcs /\ k - 1 \in 0 .. NProcs /\ f[k] = f[k - 1] + v[k - 1]
        /\ f[k - 1] \in Int /\ v[k - 1] \in Nat /\ w[k - 1] \in Nat
    BY <1>1, <1>2, <1>4
  <2>2. CASE k - 1 = q
    BY <2>1, <2>2, <1>1, <1>5
  <2>3. CASE k - 1 < q
    BY <2>1, <2>3, <1>1, <1>2, <1>5
  <2>4. CASE k - 1 > q
    BY <2>1, <2>4, <1>1, <1>2, <1>5
  <2> QED BY <2>2, <2>3, <2>4, <1>1
<1>7. Sums(h, w, NProcs)
  BY <1>5, <1>6 DEF Sums
<1>8. Total(w) = h[NProcs]
  BY <1>7, TotalIs
<1> QED BY <1>1, <1>3, <1>5, <1>8
-----------------------------------------------------------------------------
(* The scheduled bytes.  While no result is lost, the feedback list is the *)
(* list of the results to come, and the bytes that are scheduled are those *)
(* of granted blocks; a block whose arrival is being handled is counted    *)
(* out already.                                                            *)
Accounted ==
    lost = 0 => /\ feedback_ul_harq = Pending
                /\ sched_ul_bytes <= Outstanding
                     - (IF crc # NoCrc /\ crc.ok THEN ul_harq_processes[crc.harq_id].tb_size
                        ELSE 0)

LEMMA BytesFacts ==
    ASSUME TypeOK
    PROVE  /\ Bytes \in [Procs -> Nat] /\ Outstanding \in Nat
           /\ \A q \in Procs : ul_harq_processes[q].tb_size \in Nat
<1>1. ul_harq_processes \in [Procs -> Harq]
  BY DEF TypeOK, Harq
<1>2. \A q \in Procs : ul_harq_processes[q].tb_size \in Nat
  BY <1>1 DEF Harq
<1>3. Bytes \in [Procs -> Nat]
  BY <1>2 DEF Bytes
<1> QED BY <1>2, <1>3, TotalFacts DEF Outstanding

(* What a process has outstanding is part of the total.                    *)
LEMMA PartOfTotal ==
    ASSUME TypeOK, NEW q \in Procs, In(q, feedback_ul_harq)
    PROVE  /\ Bytes[q] = ul_harq_processes[q].tb_size
           /\ ul_harq_processes[q].tb_size <= Outstanding
<1>1. Bytes[q] = ul_harq_processes[q].tb_size
  BY DEF Bytes
<1> DEFINE w == [p \in Procs |-> IF p = q THEN 0 ELSE Bytes[p]]
<1>2. Bytes \in [Procs -> Nat] /\ Outstanding \in Nat /\ Bytes[q] \in Nat
  BY BytesFacts
<1>3. w \in [Procs -> Nat] /\ w[q] = 0 /\ \A p \in Procs : p # q => w[p] = Bytes[p]
  BY <1>2
<1> HIDE DEF w
<1>4. Total(w) = Total(Bytes) + w[q] - Bytes[q]
  BY <1>2, <1>3, TotalChange
<1>5. Total(w) \in Nat
  BY <1>3, TotalFacts
<1>6. Outstanding = Total(Bytes)
  BY DEF Outstanding
<1> QED BY <1>1, <1>2, <1>3, <1>4, <1>5, <1>6

LEMMA AccountedGrant == ASSUME IInv, Accounted, nr_schedule_ulsch PROVE Accounted'
<1>1. PICK pusch \in pf_ul : /\ pusch.pid = NoProc => available_ul_harq # <<>>
                             /\ Grant(pusch)
  BY DEF nr_schedule_ulsch
<1> DEFINE pid == SchedPid(pusch)
           h == ul_harq_processes
           tb == pusch.tb_size
<1>2. IInv' /\ TypeOK /\ TypeOK' /\ OneList /\ OneList'
  BY ScheduleStep DEF IInv
<1>3. /\ pid \in Procs
      /\ \/ /\ available_ul_harq # <<>> /\ pid = Head(available_ul_harq)
            /\ UNCHANGED retrans_ul_harq
         \/ /\ retrans_ul_harq # <<>> /\ pid = Head(retrans_ul_harq)
            /\ retrans_ul_harq' = Tail(retrans_ul_harq)
      /\ feedback_ul_harq' = Append(feedback_ul_harq, pid)
  BY <1>1, GrantFacts
<1>4. /\ air' = Append(air, [pid |-> pid, tb_size |-> tb]) /\ lost' = lost
      /\ crc = NoCrc /\ crc' = NoCrc
      /\ h' = [h EXCEPT ![pid] = Granted(@, tb)]
      /\ sched_ul_bytes' = IF h[pid].round = 0 THEN sched_ul_bytes + tb ELSE sched_ul_bytes
  BY <1>1 DEF Grant, nr_schedule_ulsch
<1>5. tb \in Nat
  BY <1>1, <1>2, PfUlType DEF Pusch
<1>6. h \in [Procs -> Harq] /\ sched_ul_bytes \in Nat
  BY <1>2 DEF TypeOK, Harq
<1>7. /\ \A q \in Procs : q # pid => h'[q] = h[q]
      /\ h'[pid].tb_size = IF h[pid].round = 0 THEN tb ELSE h[pid].tb_size
  <2>1. h'[pid] = Granted(h[pid], tb) /\ h[pid] \in Harq
    BY <1>3, <1>4, <1>6
  <2>2. Granted(h[pid], tb).tb_size = IF h[pid].round = 0 THEN tb ELSE h[pid].tb_size
    BY <2>1 DEF Granted, Harq
  <2>3. \A q \in Procs : q # pid => h'[q] = h[q]
    BY <1>4, <1>6
  <2> QED BY <2>1, <2>2, <2>3
<1> HIDE DEF pid, h, tb
<1>8. /\ feedback_ul_harq \in Seq(Procs) /\ retrans_ul_harq \in Seq(Procs)
      /\ available_ul_harq \in Seq(Procs)
      /\ Distinct(retrans_ul_harq) /\ Distinct(available_ul_harq)
  BY <1>2 DEF TypeOK, OneList
<1>9. \A q \in Procs : In(q, feedback_ul_harq') <=> (In(q, feedback_ul_harq) \/ q = pid)
  BY <1>3, <1>8, AppendList
<1>10. \A q \in Procs : q # pid => (In(q, retrans_ul_harq') <=> In(q, retrans_ul_harq))
  <2>1. CASE UNCHANGED retrans_ul_harq
    BY <2>1
  <2>2. CASE retrans_ul_harq # <<>> /\ pid = Head(retrans_ul_harq)
             /\ retrans_ul_harq' = Tail(retrans_ul_harq)
    BY <2>2, <1>8, TailList
  <2> QED BY <1>3, <2>1, <2>2
<1>11. IF h[pid].round = 0 THEN ~In(pid, feedback_ul_harq) /\ ~In(pid, retrans_ul_harq)
       ELSE In(pid, retrans_ul_harq)
  <2>1. CASE available_ul_harq # <<>> /\ pid = Head(available_ul_harq)
    <3>1. In(pid, available_ul_harq)
      BY <2>1, <1>8, TailList
    <3> QED BY <3>1, <1>2, <1>3 DEF OneList, h
  <2>2. CASE retrans_ul_harq # <<>> /\ pid = Head(retrans_ul_harq)
    <3>1. In(pid, retrans_ul_harq)
      BY <2>2, <1>8, TailList
    <3>2. h[pid].round > 0 /\ h[pid].round \in Nat
      BY <3>1, <1>2, <1>3, <1>6 DEF OneList, h, Harq
    <3> QED BY <3>1, <3>2
  <2> QED BY <1>3, <2>1, <2>2
<1>12. /\ Bytes \in [Procs -> Nat] /\ Bytes' \in [Procs -> Nat]
       /\ Outstanding \in Nat /\ Outstanding' \in Nat
  <2>1. Bytes \in [Procs -> Nat] /\ Outstanding \in Nat
    BY <1>2, BytesFacts
  <2>2. Bytes' \in [Procs -> Nat]
    <3>1. \A q \in Procs : h'[q].tb_size \in Nat
      BY <1>3, <1>5, <1>6, <1>7 DEF Harq
    <3> QED BY <3>1 DEF Bytes, h
  <2> QED BY <2>1, <2>2, TotalFacts DEF Outstanding
<1>13. \A q \in Procs : q # pid => Bytes'[q] = Bytes[q]
  BY <1>7, <1>9, <1>10 DEF Bytes, h
<1>14. Bytes'[pid] = Bytes[pid] + (IF h[pid].round = 0 THEN tb ELSE 0)
  <2>1. Bytes'[pid] = h'[pid].tb_size
    BY <1>3, <1>9 DEF Bytes, h
  <2>2. Bytes[pid] = IF h[pid].round = 0 THEN 0 ELSE h[pid].tb_size
    BY <1>3, <1>11 DEF Bytes, h
  <2>3. h[pid].tb_size \in Nat
    BY <1>3, <1>6 DEF Harq
  <2> QED BY <2>1, <2>2, <2>3, <1>5, <1>7
<1>15. Outstanding' = Outstanding + Bytes'[pid] - Bytes[pid]
  BY <1>3, <1>12, <1>13, TotalChange DEF Outstanding
<1>16. Bytes[pid] \in Nat
  BY <1>3, <1>12
<1>17. \E d \in Nat : /\ sched_ul_bytes' = sched_ul_bytes + d
                      /\ Outstanding' = Outstanding + d
  <2>1. CASE h[pid].round = 0
    <3>1. Outstanding' = Outstanding + tb
      BY <2>1, <1>5, <1>12, <1>14, <1>15, <1>16
    <3> QED BY <2>1, <3>1, <1>4, <1>5
  <2>2. CASE h[pid].round # 0
    <3>1. Outstanding' = Outstanding + 0
      BY <2>2, <1>12, <1>14, <1>15, <1>16
    <3>2. sched_ul_bytes' = sched_ul_bytes + 0
      BY <2>2, <1>4, <1>6
    <3> QED BY <3>1, <3>2
  <2> QED BY <2>1, <2>2
<1>18. ASSUME lost' = 0 PROVE sched_ul_bytes' <= Outstanding' /\ feedback_ul_harq' = Pending'
  <2>1. sched_ul_bytes <= Outstanding /\ feedback_ul_harq = Pending
    BY <1>4, <1>12, <1>18 DEF Accounted
  <2>2. Pending' = Append(Pending, pid)
    BY <1>2, <1>3, <1>4, <1>5, PendingGrant
  <2>3. sched_ul_bytes' <= Outstanding'
    BY <2>1, <1>6, <1>12, <1>17
  <2> QED BY <2>1, <2>2, <2>3, <1>3
<1> QED BY <1>4, <1>12, <1>18 DEF Accounted

(* The result in hand is that of the head of the feedback list.            *)
LEMMA HeadOfPending ==
    ASSUME TypeOK, feedback_ul_harq = Pending, air # <<>> \/ crc # NoCrc
    PROVE  /\ feedback_ul_harq # <<>> /\ Head(feedback_ul_harq) \in Procs
           /\ In(Head(feedback_ul_harq), feedback_ul_harq)
           /\ crc # NoCrc => Head(feedback_ul_harq) = crc.harq_id
<1>1. /\ Pending \in Seq(Procs) /\ Pending # <<>>
      /\ crc # NoCrc => Pending[1] = crc.harq_id
  BY PendingFacts
<1>2. Head(Pending) = Pending[1] /\ Head(Pending) \in Procs /\ 1 \in DOMAIN Pending
  BY <1>1
<1> QED BY <1>1, <1>2 DEF In

LEMMA AccountedRx == ASSUME IInv, Accounted, rx_ok \/ rx_null PROVE Accounted'
<1> DEFINE h == ul_harq_processes
           pid == Head(feedback_ul_harq)
<1>1. IInv' /\ TypeOK /\ TypeOK'
  BY RxStep DEF IInv
<1>2. /\ crc = NoCrc /\ air # <<>> /\ air' = Tail(air) /\ lost' = lost
      /\ UNCHANGED <<lists, h>> /\ crc'.harq_id = Head(air).pid
  BY DEF rx_ok, rx_null
<1>3. /\ rx_ok => sched_ul_bytes' = Max0(sched_ul_bytes - h[pid].tb_size)
      /\ rx_null => /\ crc'.ok = FALSE
                    /\ \/ sched_ul_bytes' = sched_ul_bytes
                       \/ sched_ul_bytes' = Max0(sched_ul_bytes - h[pid].tb_size)
  BY DEF rx_ok, rx_null, nr_rx_sdu, nr_rx_sdu_null
<1>4. Outstanding' = Outstanding /\ Outstanding \in Nat /\ sched_ul_bytes \in Nat
  BY <1>1, <1>2, BytesFacts DEF Outstanding, Bytes, lists, TypeOK
<1>5. SUFFICES ASSUME lost = 0 PROVE Accounted'
  BY <1>2 DEF Accounted
<1>6. feedback_ul_harq = Pending /\ sched_ul_bytes <= Outstanding
  BY <1>2, <1>4, <1>5 DEF Accounted
<1>7. crc' # NoCrc
  <2>1. air \in Seq([pid : Procs, tb_size : Nat])
    BY <1>1 DEF TypeOK
  <2>2. Head(air) \in [pid : Procs, tb_size : Nat]
    BY <1>2, <2>1, HeadTailProperties
  <2>3. crc'.harq_id \in Procs
    BY <1>2, <2>2
  <2> QED BY <2>3, NoProcIsNone DEF NoCrc
<1>8. Pending' = Pending
  BY <1>1, <1>2, <1>7, PendingRx
<1>9. pid \in Procs /\ In(pid, feedback_ul_harq)
  BY <1>1, <1>2, <1>6, HeadOfPending
<1>10. h[pid].tb_size \in Nat /\ h[pid].tb_size <= Outstanding
  BY <1>1, <1>9, PartOfTotal, BytesFacts
<1>11. feedback_ul_harq' = Pending'
  BY <1>2, <1>6, <1>8 DEF lists
<1>12. crc'.harq_id = pid
  <2>1. feedback_ul_harq' = feedback_ul_harq
    BY <1>2 DEF lists
  <2>2. Pending'[1] = crc'.harq_id /\ Pending \in Seq(Procs) /\ Pending # <<>>
    <3>1. Pending \in Seq(Procs) /\ Pending # <<>>
      BY <1>1, <1>2, PendingFacts
    <3>2. 1 \in 1 .. Len(Pending) /\ Len(Pending) = Len(air)
      BY <3>1, <1>1, <1>2, PendingFacts
    <3>3. Pending[1] = air[1].pid
      BY <3>2, <1>2 DEF Pending
    <3>4. Head(air) = air[1]
      OBVIOUS
    <3> QED BY <3>1, <3>3, <3>4, <1>2, <1>8
  <2> QED BY <2>2, <1>6, <1>8
<1> HIDE DEF pid, h
<1>13. CASE rx_ok
  <2>1. sched_ul_bytes' <= Outstanding - h[pid].tb_size
    BY <1>3, <1>4, <1>6, <1>10, <1>13 DEF Max0
  <2>2. h'[crc'.harq_id].tb_size = h[pid].tb_size
    BY <1>2, <1>12
  <2>3. sched_ul_bytes' \in Nat
    BY <1>1 DEF TypeOK
  <2> QED BY <2>1, <2>2, <2>3, <1>4, <1>6, <1>10, <1>11 DEF Accounted, h
<1>14. CASE rx_null
  <2>1. sched_ul_bytes' <= Outstanding
    BY <1>3, <1>4, <1>6, <1>10, <1>14 DEF Max0
  <2>2. crc'.ok = FALSE
    BY <1>3, <1>14
  <2> QED BY <2>1, <2>2, <1>4, <1>11 DEF Accounted
<1> QED BY <1>13, <1>14

LEMMA AccountedHandle == ASSUME IInv, Accounted, handle_nr_ul_harq PROVE Accounted'
<1> DEFINE h == ul_harq_processes
           pid == Head(feedback_ul_harq)
<1>1. IInv' /\ TypeOK /\ TypeOK' /\ OneList
  BY HandleStep DEF IInv
<1>2. /\ crc # NoCrc /\ crc' = NoCrc /\ feedback_ul_harq # <<>> /\ pid = crc.harq_id
      /\ Answered(crc.ok) /\ UNCHANGED air /\ lost' = lost
  BY DEF handle_nr_ul_harq, Answered
<1>3. crc.ok \in BOOLEAN
  <2>1. crc \in [harq_id : Procs, ok : BOOLEAN]
    BY <1>1, <1>2 DEF TypeOK
  <2> QED BY <2>1, Zenon
<1>4. /\ pid \in Procs /\ feedback_ul_harq' = Tail(feedback_ul_harq)
      /\ h' \in [Procs -> Harq]
      /\ \A q \in Procs : q # pid => h'[q] = h[q]
  BY <1>2, <1>3, AnsweredFacts
<1>5. /\ feedback_ul_harq \in Seq(Procs) /\ retrans_ul_harq \in Seq(Procs)
      /\ Distinct(feedback_ul_harq)
      /\ h \in [Procs -> Harq] /\ sched_ul_bytes \in Nat
  BY <1>1 DEF TypeOK, OneList, Harq
<1>6. /\ In(pid, feedback_ul_harq) /\ ~In(pid, retrans_ul_harq)
      /\ \A q \in Procs : In(q, feedback_ul_harq') <=> (In(q, feedback_ul_harq) /\ q # pid)
  BY <1>1, <1>2, <1>4, <1>5, TailList DEF OneList
<1>7. /\ Bytes[pid] = h[pid].tb_size /\ h[pid].tb_size <= Outstanding
      /\ h[pid].tb_size \in Nat /\ Outstanding \in Nat /\ Bytes \in [Procs -> Nat]
  BY <1>1, <1>4, <1>6, PartOfTotal, BytesFacts
<1>8. /\ Bytes' \in [Procs -> Nat] /\ Outstanding' \in Nat
  <2>1. \A q \in Procs : h'[q].tb_size \in Nat
    BY <1>4 DEF Harq
  <2>2. Bytes' \in [Procs -> Nat]
    BY <2>1 DEF Bytes
  <2> QED BY <2>2, TotalFacts DEF Outstanding
<1>9. SUFFICES ASSUME lost = 0 PROVE Accounted'
  BY <1>2 DEF Accounted
<1>10. feedback_ul_harq = Pending
       /\ sched_ul_bytes <= Outstanding - (IF crc.ok THEN h[pid].tb_size ELSE 0)
  BY <1>2, <1>9 DEF Accounted
<1>11. feedback_ul_harq' = Pending'
  BY <1>1, <1>2, <1>4, <1>10, PendingDone
<1> HIDE DEF pid, h
<1>12. SUFFICES sched_ul_bytes' <= Outstanding'
  BY <1>2, <1>8, <1>11 DEF Accounted
<1>13. ASSUME \A q \in Procs : q # pid => (In(q, retrans_ul_harq') <=> In(q, retrans_ul_harq))
       PROVE  Outstanding' = Outstanding + Bytes'[pid] - Bytes[pid]
  <2>1. \A q \in Procs : q # pid => Bytes'[q] = Bytes[q]
    BY <1>4, <1>6, <1>13 DEF Bytes, h
  <2> QED BY <2>1, <1>4, <1>7, <1>8, TotalChange DEF Outstanding
<1>14. CASE UNCHANGED retrans_ul_harq /\ sched_ul_bytes' <= Outstanding - h[pid].tb_size
  <2>1. Bytes'[pid] = 0
    BY <1>4, <1>6, <1>14 DEF Bytes
  <2>2. Outstanding' = Outstanding + Bytes'[pid] - Bytes[pid]
    BY <1>13, <1>14
  <2> QED BY <2>1, <2>2, <1>7, <1>14
<1>15. CASE /\ retrans_ul_harq' = add_tail_nr_list(retrans_ul_harq, pid)
            /\ h' = [h EXCEPT ![pid] = NextRound(@)]
            /\ sched_ul_bytes' = sched_ul_bytes /\ ~crc.ok
  <2>1. \A q \in Procs : In(q, retrans_ul_harq') <=> (In(q, retrans_ul_harq) \/ q = pid)
    BY <1>4, <1>5, <1>15, AppendList DEF add_tail_nr_list
  <2>2. h'[pid].tb_size = h[pid].tb_size
    <3>1. h'[pid] = NextRound(h[pid]) /\ h[pid] \in Harq
      BY <1>4, <1>5, <1>15 DEF h
    <3> QED BY <3>1 DEF NextRound, Harq
  <2>3. Bytes'[pid] = Bytes[pid]
    BY <2>1, <2>2, <1>4, <1>7 DEF Bytes, h
  <2>4. Outstanding' = Outstanding + Bytes'[pid] - Bytes[pid]
    BY <2>1, <1>13
  <2> QED BY <2>3, <2>4, <1>5, <1>7, <1>10, <1>15
<1>16. CASE crc.ok /\ UNCHANGED <<retrans_ul_harq, sched_ul_bytes>>
  BY <1>10, <1>14, <1>16
<1>17. CASE /\ ~crc.ok /\ UNCHANGED retrans_ul_harq
            /\ sched_ul_bytes' = Max0(sched_ul_bytes - h[pid].tb_size)
  <2>1. sched_ul_bytes <= Outstanding
    BY <1>7, <1>10, <1>17
  <2>2. sched_ul_bytes' <= Outstanding - h[pid].tb_size
    BY <2>1, <1>5, <1>7, <1>17 DEF Max0
  <2> QED BY <2>2, <1>14, <1>17
<1> QED BY <1>2, <1>15, <1>16, <1>17 DEF Answered, pid, h

LEMMA AccountedInvariance == Spec => []Accounted
<1>1. Init => Accounted
  <2> SUFFICES ASSUME Init PROVE Accounted
    OBVIOUS
  <2>1. TypeOK
    BY IInvInit DEF IInv
  <2>2. Outstanding \in Nat
    BY <2>1, BytesFacts
  <2>3. /\ feedback_ul_harq = <<>> /\ sched_ul_bytes = 0 /\ crc = NoCrc /\ air = <<>>
    BY DEF Init
  <2>4. Pending = <<>>
    BY <2>1, <2>3, PendingFacts
  <2> QED BY <2>2, <2>3, <2>4 DEF Accounted
<1>2. IInv /\ Accounted /\ [Next]_vars => Accounted'
  <2> SUFFICES ASSUME IInv, Accounted, [Next]_vars PROVE Accounted'
    OBVIOUS
  <2>1. CASE schedule_nothing \/ ul_failure_reset \/ UNCHANGED vars
    <3>1. UNCHANGED <<lists, ul_harq_processes, sched_ul_bytes, air, crc, lost>>
      BY <2>1 DEF schedule_nothing, ul_failure_reset, vars, ueVars
    <3>2. Pending' = Pending /\ Outstanding' = Outstanding
      BY <3>1 DEF Pending, Outstanding, Bytes, lists
    <3> QED BY <3>1, <3>2 DEF Accounted, lists
  <2>2. CASE lose
    <3>1. lost' # 0
      BY <2>2 DEF lose, IInv, TypeOK
    <3> QED BY <3>1 DEF Accounted
  <2>3. CASE skip_missed
    <3>1. lost' = lost /\ crc # NoCrc /\ Head(feedback_ul_harq) # crc.harq_id
      BY <2>3 DEF skip_missed, Answered
    <3>2. ~(lost = 0)
      BY <3>1, HeadOfPending DEF Accounted, IInv
    <3> QED BY <3>1, <3>2 DEF Accounted
  <2> QED BY <2>1, <2>2, <2>3, AccountedGrant, AccountedRx, AccountedHandle DEF Next
<1> QED BY <1>1, <1>2, Invariance, PTL DEF Spec

(* For every number of processes, rounds and block sizes: while every      *)
(* result is reported, no more bytes are scheduled than the granted blocks *)
(* have that neither arrived nor were given up, whether nr_rx_sdu takes    *)
(* the bytes of a block off (once or, in the round numbered 3, before      *)
(* abort_nr_ul_harq does it again) or only abort_nr_ul_harq.               *)
THEOREM UlHarqNoByteLeaks == Spec => []NoByteLeaks
<1>1. IInv /\ Accounted => NoByteLeaks
  <2> SUFFICES ASSUME IInv, Accounted, lost = 0, crc = NoCrc
               PROVE  sched_ul_bytes <= Outstanding
    BY DEF NoByteLeaks
  <2>1. Outstanding \in Nat
    BY BytesFacts DEF IInv
  <2> QED BY <2>1 DEF Accounted
<1> QED BY <1>1, Invariance, AccountedInvariance, PTL
=============================================================================
