------------------------------ MODULE NrUlHarq ------------------------------
(***************************************************************************)
(* Uplink HARQ of one UE in the MAC of the gNB (gNB_scheduler_ulsch.c):    *)
(* the preprocessor pf_ul and nr_schedule_ulsch, which grant a PUSCH in a  *)
(* downlink slot, and nr_rx_sdu and handle_nr_ul_harq, which take the      *)
(* result of a PUSCH from the PHY.  A process is identified by its place   *)
(* in one of three lists; NrDlHarqProofs shows that the linked lists of    *)
(* the code behave as the sequences used here.  handle_nr_ul_harq pops the *)
(* processes whose result never came one by one: each pop is a step, and   *)
(* nothing else of this single-threaded MAC runs in between.               *)
(***************************************************************************)
EXTENDS Integers, Sequences

CONSTANTS
    NProcs,      \* HARQ processes of the UE (16 in add_new_nr_ue)
    RoundMax,    \* harq_round_max
    Round3,      \* the literal 3 in nr_rx_sdu
    MinTb,       \* bytes of the 5 RB granted without a buffer status
    MaxTb,       \* bytes of the largest grant
    Bsr,         \* buffer sizes a BSR can report
    DtxThres,    \* pusch_failure_thres
    MaxAir,      \* bound: PUSCHs granted and not yet answered (K2 and PHY delay)
    MaxLost      \* bound: results the PHY never reports

ASSUME UlHarqAssumption ==
    /\ NProcs \in Nat \ {0} /\ RoundMax \in Nat \ {0} /\ Round3 \in Nat
    /\ MinTb \in Nat \ {0} /\ MaxTb \in Nat \ {0} /\ Bsr \subseteq Nat
    /\ DtxThres \in Nat \ {0} /\ MaxAir \in Nat /\ MaxLost \in Nat

Procs == 0 .. NProcs - 1
NoProc == -1

VARIABLES
    available_ul_harq,    \* processes that are free
    feedback_ul_harq,     \* processes that await the result of a PUSCH
    retrans_ul_harq,      \* processes that await a retransmission
    ul_harq_processes,    \* round, ndi, is_waiting and the saved tb_size
    sched_pusch,          \* the preprocessor's decision: rbs > 0, process, size
    sched_ul_bytes,
    estimated_ul_buffer,
    dtx_cnt,              \* pusch_consecutive_dtx_cnt
    ul_failure,
    air,                  \* PUSCHs granted, in the order of their slots
    crc,                  \* the result being handled, or no process
    lost                  \* results lost so far

lists == <<available_ul_harq, feedback_ul_harq, retrans_ul_harq>>
ueVars == <<sched_pusch, sched_ul_bytes, estimated_ul_buffer, dtx_cnt, ul_failure>>
vars == <<lists, ul_harq_processes, ueVars, air, crc, lost>>

Max0(n) == IF n < 0 THEN 0 ELSE n
NoCrc == [harq_id |-> NoProc, ok |-> FALSE]
NoPusch == [rbs |-> FALSE, pid |-> NoProc, tb_size |-> 0]

Init ==
    /\ available_ul_harq = [i \in 1 .. NProcs |-> i - 1]
    /\ feedback_ul_harq = <<>> /\ retrans_ul_harq = <<>>
    /\ ul_harq_processes = [p \in Procs |-> [round |-> 0, ndi |-> 0,
                                            is_waiting |-> FALSE, tb_size |-> 0]]
    /\ sched_pusch = NoPusch /\ sched_ul_bytes = 0 /\ estimated_ul_buffer = 0
    /\ dtx_cnt = 0 /\ ul_failure = FALSE
    /\ air = <<>> /\ crc = NoCrc /\ lost = 0
-----------------------------------------------------------------------------
(* The scheduler.                                                          *)

(* add_tail_nr_list and remove_nr_list.                                    *)
\* Mutant of add_tail_nr_list: the process is put in front.
add_front(list, pid) == <<pid>> \o list
add_tail_nr_list(list, pid) == Append(list, pid)
\* Mutant of remove_nr_list: the process stays in the list.
remove_nothing(list, pid) == list
remove_nr_list(list, pid) ==
    IF list # <<>> /\ Head(list) = pid THEN Tail(list)
    ELSE SelectSeq(list, LAMBDA p : p # pid)

(* What pf_ul leaves in sched_pusch: a retransmission when one is awaited, *)
(* else a grant for the bytes not scheduled yet, or the smallest grant on  *)
(* a scheduling request or after inactivity.  Without resources (or        *)
(* nothing to grant) only the process number is overwritten.               *)
pf_ul ==
    LET pid == IF retrans_ul_harq = <<>> THEN NoProc ELSE Head(retrans_ul_harq)
        B == Max0(estimated_ul_buffer - sched_ul_bytes)
        size == CASE pid # NoProc -> ul_harq_processes[pid].tb_size
                  [] pid = NoProc /\ B = 0 -> MinTb
                  [] pid = NoProc /\ B > 0 -> IF B < MaxTb THEN B ELSE MaxTb
    IN  {[sched_pusch EXCEPT !.pid = pid],
         [rbs |-> TRUE, pid |-> pid, tb_size |-> size]}

(* A slot in which the UE is granted nothing: pf_ul found nothing to       *)
(* grant, or the UE is in uplink failure, where pf_ul's decision is kept.  *)
schedule_nothing ==
    /\ crc = NoCrc
    /\ \E pusch \in pf_ul :
        /\ ul_failure \/ ~pusch.rbs
        /\ sched_pusch' = pusch
    /\ UNCHANGED <<lists, ul_harq_processes, sched_ul_bytes, estimated_ul_buffer,
                   dtx_cnt, ul_failure, air, crc, lost>>

(* The process nr_schedule_ulsch takes for a decision of pf_ul.            *)
SchedPid(pusch) ==
    IF pusch.pid = NoProc THEN Head(available_ul_harq) ELSE pusch.pid

(* The process once it is granted: the size of a new block is saved for    *)
(* its retransmissions.                                                    *)
Granted(harq, tb_size) ==
    [harq EXCEPT !.is_waiting = TRUE,
                 !.tb_size = IF harq.round = 0 THEN tb_size ELSE @]

(* nr_schedule_ulsch for a decision that passed its guards.                *)
Grant(pusch) ==
    LET pid == SchedPid(pusch)
        harq == ul_harq_processes[pid]
        new == harq.round = 0
    IN  /\ IF new
             THEN /\ available_ul_harq' = remove_nr_list(available_ul_harq, pid)
                  /\ UNCHANGED retrans_ul_harq
             ELSE /\ retrans_ul_harq' = remove_nr_list(retrans_ul_harq, pid)
                  /\ UNCHANGED available_ul_harq
        /\ feedback_ul_harq' = add_tail_nr_list(feedback_ul_harq, pid)
        /\ ul_harq_processes' =
             [ul_harq_processes EXCEPT ![pid] = Granted(@, pusch.tb_size)]
        /\ sched_ul_bytes' = IF new THEN sched_ul_bytes + pusch.tb_size
                                    ELSE sched_ul_bytes
        /\ air' = Append(air, [pid |-> pid, tb_size |-> pusch.tb_size])
        /\ sched_pusch' = NoPusch
        /\ UNCHANGED <<estimated_ul_buffer, dtx_cnt, ul_failure, crc, lost>>

(* A slot in which the UE is granted a PUSCH.  That a new block finds a    *)
(* process which is not waiting, as the code asserts, follows from OneList *)
(* and FreeProcess.                                                        *)
nr_schedule_ulsch ==
    /\ crc = NoCrc /\ ~ul_failure /\ Len(air) < MaxAir
    /\ \E pusch \in pf_ul :
        /\ pusch.rbs /\ (pusch.pid = NoProc => available_ul_harq # <<>>)
        /\ Grant(pusch)
-----------------------------------------------------------------------------
(* The result of a PUSCH (handle_nr_ulsch: nr_rx_sdu, handle_nr_ul_harq).  *)

(* nr_rx_sdu with a transport block: the bytes of the process at the head  *)
(* of the feedback list are no longer scheduled; the block carries sdu     *)
(* bytes of data and perhaps a buffer status report.                       *)
\* Mutant of nr_rx_sdu: the bytes of the block stay scheduled.
nr_rx_sdu_keeps_bytes(sdu, bsr) ==
    /\ dtx_cnt' = 0
    /\ estimated_ul_buffer' = IF bsr >= 0 THEN bsr ELSE Max0(estimated_ul_buffer - sdu)
    /\ UNCHANGED <<sched_ul_bytes, ul_failure>>

nr_rx_sdu(sdu, bsr) ==
    LET harq == ul_harq_processes[Head(feedback_ul_harq)]
    IN  /\ dtx_cnt' = 0
        /\ sched_ul_bytes' = Max0(sched_ul_bytes - harq.tb_size)
        /\ estimated_ul_buffer' = IF bsr >= 0 THEN bsr
                                  ELSE Max0(estimated_ul_buffer - sdu)
        /\ UNCHANGED ul_failure

(* nr_rx_sdu without one: in the round numbered 3 the bytes are given up;  *)
(* enough PUSCHs without a signal are an uplink failure.                   *)
nr_rx_sdu_null(dtx) ==
    LET harq == ul_harq_processes[Head(feedback_ul_harq)]
        cnt == IF dtx /\ dtx_cnt < DtxThres THEN dtx_cnt + 1 ELSE dtx_cnt
    IN  /\ sched_ul_bytes' = IF harq.round = Round3
                               THEN Max0(sched_ul_bytes - harq.tb_size)
                               ELSE sched_ul_bytes
        /\ dtx_cnt' = cnt
        /\ ul_failure' = (ul_failure \/ cnt >= DtxThres)
        /\ UNCHANGED estimated_ul_buffer

rx_ok ==
    /\ crc = NoCrc /\ air # <<>>
    /\ crc' = [harq_id |-> Head(air).pid, ok |-> TRUE]
    /\ air' = Tail(air)
    /\ \E sdu \in {0, Head(air).tb_size}, bsr \in Bsr \cup {-1} : nr_rx_sdu(sdu, bsr)
    /\ UNCHANGED <<lists, ul_harq_processes, sched_pusch, lost>>

rx_null ==
    /\ crc = NoCrc /\ air # <<>>
    /\ crc' = [harq_id |-> Head(air).pid, ok |-> FALSE]
    /\ air' = Tail(air)
    /\ \E dtx \in BOOLEAN : nr_rx_sdu_null(dtx)
    /\ UNCHANGED <<lists, ul_harq_processes, sched_pusch, lost>>

(* The process after its release (abort_nr_ul_harq and the good result),   *)
(* and after a failure with a round left.                                  *)
\* Mutant of Released: the new data indicator is not toggled.
Released_same_ndi(harq) == [harq EXCEPT !.is_waiting = FALSE, !.round = 0]
Released(harq) == [harq EXCEPT !.is_waiting = FALSE, !.round = 0, !.ndi = 1 - @]
NextRound(harq) == [harq EXCEPT !.is_waiting = FALSE, !.round = @ + 1]
LastRound(harq) == harq.round >= RoundMax - 1

(* What both branches of handle_nr_ul_harq do with the process at the head *)
(* of the feedback list once its result, ok or not, is known.              *)
Answered(ok) ==
    LET pid == Head(feedback_ul_harq)
        harq == ul_harq_processes[pid]
    IN  /\ feedback_ul_harq' = Tail(feedback_ul_harq)
        /\ \/ /\ ok
              /\ available_ul_harq' = add_tail_nr_list(available_ul_harq, pid)
              /\ ul_harq_processes' = [ul_harq_processes EXCEPT ![pid] = Released(@)]
              /\ UNCHANGED <<retrans_ul_harq, sched_ul_bytes>>
           \/ /\ ~ok /\ LastRound(harq)
              /\ available_ul_harq' = add_tail_nr_list(available_ul_harq, pid)
              /\ ul_harq_processes' = [ul_harq_processes EXCEPT ![pid] = Released(@)]
              /\ sched_ul_bytes' = Max0(sched_ul_bytes - harq.tb_size)
              /\ UNCHANGED retrans_ul_harq
           \/ /\ ~ok /\ ~LastRound(harq)
              /\ retrans_ul_harq' = add_tail_nr_list(retrans_ul_harq, pid)
              /\ ul_harq_processes' = [ul_harq_processes EXCEPT ![pid] = NextRound(@)]
              /\ UNCHANGED <<available_ul_harq, sched_ul_bytes>>
        /\ UNCHANGED <<sched_pusch, estimated_ul_buffer, dtx_cnt, ul_failure,
                       air, lost>>

(* The loop of handle_nr_ul_harq: the head awaits an older result, which   *)
(* never came: it is treated as a failure.                                 *)
\* Mutant of skip_missed: the result is dropped, not the process in front of it.
skip_result ==
    /\ crc # NoCrc /\ feedback_ul_harq # <<>>
    /\ Head(feedback_ul_harq) # crc.harq_id
    /\ crc' = NoCrc
    /\ UNCHANGED <<lists, ul_harq_processes, ueVars, air, lost>>

skip_missed ==
    /\ crc # NoCrc /\ feedback_ul_harq # <<>>
    /\ Head(feedback_ul_harq) # crc.harq_id
    /\ Answered(FALSE)
    /\ UNCHANGED crc

(* The head is the process of the result.                                  *)
handle_nr_ul_harq ==
    /\ crc # NoCrc /\ feedback_ul_harq # <<>>
    /\ Head(feedback_ul_harq) = crc.harq_id
    /\ Answered(crc.ok)
    /\ crc' = NoCrc

(* The UE answers a random access with its C-RNTI: nr_rx_sdu of the Msg3   *)
(* ends the uplink failure.                                                *)
\* Mutant of ul_failure_reset: only the counter is reset.
ul_failure_kept ==
    /\ crc = NoCrc /\ ul_failure /\ dtx_cnt' = 0
    /\ UNCHANGED <<lists, ul_harq_processes, sched_pusch, sched_ul_bytes,
                   estimated_ul_buffer, ul_failure, air, crc, lost>>

ul_failure_reset ==
    /\ crc = NoCrc /\ ul_failure
    /\ ul_failure' = FALSE /\ dtx_cnt' = 0
    /\ UNCHANGED <<lists, ul_harq_processes, sched_pusch, sched_ul_bytes,
                   estimated_ul_buffer, air, crc, lost>>

(* The PHY missed its deadline and reports nothing for a PUSCH.            *)
lose ==
    /\ crc = NoCrc /\ air # <<>> /\ lost < MaxLost
    /\ air' = Tail(air) /\ lost' = lost + 1
    /\ UNCHANGED <<lists, ul_harq_processes, ueVars, crc>>

Next == \/ schedule_nothing \/ nr_schedule_ulsch \/ rx_ok \/ rx_null
        \/ skip_missed \/ handle_nr_ul_harq \/ ul_failure_reset \/ lose

(* A handler runs to its end, the PHY answers, UEs in failure come back,   *)
(* and a UE that can be granted a PUSCH infinitely often is.               *)
Spec == /\ Init /\ [][Next]_vars
        /\ WF_vars(skip_missed \/ handle_nr_ul_harq)
        /\ WF_vars(rx_ok \/ rx_null) /\ WF_vars(ul_failure_reset)
        /\ SF_vars(nr_schedule_ulsch)
-----------------------------------------------------------------------------
In(p, list) == \E i \in DOMAIN list : list[i] = p
Distinct(list) == \A i, j \in DOMAIN list : list[i] = list[j] => i = j

(* Every variable has the type of its declaration in nr_mac_gNB.h.         *)
TypeOK ==
    /\ available_ul_harq \in Seq(Procs) /\ feedback_ul_harq \in Seq(Procs)
    /\ retrans_ul_harq \in Seq(Procs)
    /\ ul_harq_processes \in [Procs -> [round : 0 .. RoundMax - 1, ndi : {0, 1},
                                         is_waiting : BOOLEAN, tb_size : Nat]]
    /\ sched_pusch \in [rbs : BOOLEAN, pid : Procs \cup {NoProc}, tb_size : Nat]
    /\ sched_ul_bytes \in Nat /\ estimated_ul_buffer \in Nat
    /\ dtx_cnt \in 0 .. DtxThres /\ ul_failure \in BOOLEAN
    /\ air \in Seq([pid : Procs, tb_size : Nat])
    /\ crc \in [harq_id : Procs, ok : BOOLEAN] \cup {NoCrc} /\ lost \in 0 .. MaxLost

(* "HARQ processes that are free", "that await feedback" and "that await   *)
(* retransmission" (nr_mac_gNB.h:658-663) are each process once: no        *)
(* process is leaked or in two lists however many results are missed; it   *)
(* is marked waiting exactly when it awaits feedback, as the DevAsserts of *)
(* nr_schedule_ulsch and handle_nr_ul_harq demand; and it has a round      *)
(* behind it in the list of retransmissions and none in the list of free   *)
(* processes, by which nr_schedule_ulsch chooses the list to remove from.  *)
OneList ==
    /\ Distinct(available_ul_harq) /\ Distinct(feedback_ul_harq) /\ Distinct(retrans_ul_harq)
    /\ \A p \in Procs :
        /\ In(p, available_ul_harq) \/ In(p, feedback_ul_harq) \/ In(p, retrans_ul_harq)
        /\ ~(In(p, available_ul_harq) /\ In(p, retrans_ul_harq))
        /\ In(p, feedback_ul_harq) => ~In(p, available_ul_harq) /\ ~In(p, retrans_ul_harq)
        /\ ul_harq_processes[p].is_waiting <=> In(p, feedback_ul_harq)
        /\ In(p, available_ul_harq) => ul_harq_processes[p].round = 0
        /\ In(p, retrans_ul_harq) => ul_harq_processes[p].round > 0

(* The results still to come belong, in their order, to processes that     *)
(* await feedback: nr_rx_sdu never indexes ul_harq_processes with the -1   *)
(* of an empty list, and handle_nr_ul_harq always finds the process of the *)
(* result it was given.                                                    *)
Pending == [i \in 1 .. Len(air) + (IF crc = NoCrc THEN 0 ELSE 1) |->
              IF crc = NoCrc THEN air[i].pid
              ELSE IF i = 1 THEN crc.harq_id ELSE air[i - 1].pid]
Embedded(short, long) ==
    \E f \in [DOMAIN short -> DOMAIN long] :
        /\ \A i, j \in DOMAIN short : i < j => f[i] < f[j]
        /\ \A i \in DOMAIN short : long[f[i]] = short[i]
ResultsAwaited == Embedded(Pending, feedback_ul_harq)

(* nr_schedule_ulsch asserts a free process that pf_ul never checked for:  *)
(* with more processes than PUSCHs in flight and results lost there is one *)
(* whenever nothing awaits retransmission.                                 *)
FreeProcess ==
    crc = NoCrc /\ Len(air) < MaxAir /\ retrans_ul_harq = <<>>
        => available_ul_harq # <<>>

(* The bytes of the blocks that are granted and neither arrived nor given up. *)
Total(bytes) ==
    LET sum[n \in 0 .. NProcs] == IF n = 0 THEN 0 ELSE sum[n - 1] + bytes[n - 1]
    IN  sum[NProcs]
Bytes == [p \in Procs |-> IF In(p, feedback_ul_harq) \/ In(p, retrans_ul_harq)
                          THEN ul_harq_processes[p].tb_size ELSE 0]
Outstanding == Total(Bytes)

(* While every result is reported, no byte stays scheduled after its block *)
(* has arrived or been given up: a leak would hide that many bytes of the  *)
(* UE's buffer from pf_ul for good.                                        *)
NoByteLeaks == lost = 0 /\ crc = NoCrc => sched_ul_bytes <= Outstanding

(* The three lists implement the life of a HARQ process.                   *)
HarqService == INSTANCE HarqProcs WITH
    place <- [p \in Procs |-> IF In(p, feedback_ul_harq) THEN "feedback"
                              ELSE IF In(p, retrans_ul_harq) THEN "retrans"
                              ELSE "available"],
    round <- [p \in Procs |-> ul_harq_processes[p].round],
    ndi <- [p \in Procs |-> ul_harq_processes[p].ndi]
ImplementsHarq == HarqService!Spec

(* A process always becomes free again, also when the result it awaits was *)
(* lost: the next result moves it on.                                      *)
EveryProcessFreed ==
    \A p \in Procs : ~In(p, available_ul_harq) ~> In(p, available_ul_harq)
=============================================================================
