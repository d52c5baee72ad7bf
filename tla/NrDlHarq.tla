------------------------------ MODULE NrDlHarq ------------------------------
(***************************************************************************)
(* Downlink HARQ of one UE in the MAC of the gNB.  In every slot the       *)
(* scheduler may send the UE a PDSCH (nr_schedule_ue_spec), for which      *)
(* nr_acknack_scheduling finds a PUCCH occasion: at most two PDSCHs share  *)
(* one, and the occasion is handed to the PHY (nr_fill_nfapi_pucch) when   *)
(* it is full, out of reach or due.  The PHY reports the bits of each      *)
(* occasion, in order, some slots later or not at all                      *)
(* (handle_nr_uci_pucch_0_1).  A bit is matched to its process by the time *)
(* of the occasion only.                                                   *)
(***************************************************************************)
EXTENDS NrList, FiniteSets, FiniteSetsExt

CONSTANTS
    NProcs,      \* nrofHARQ-ProcessesForPDSCH
    RoundMax,    \* harq_round_max
    Slots,       \* n_slots_frame
    Frames,      \* the SFN counts modulo this (1024 in the code)
    Period,      \* nr_slots_period, the slots of a TDD period
    DlSlots,     \* nrofDownlinkSlots; the next slot is mixed, the rest are uplink
    K1,          \* pdsch_to_harq_feedback, those of at least minRXTXTIMEpdsch
    SrSlots,     \* slots with a scheduling request occasion of the UE
    Taken,       \* times (frame * Slots + slot) when a PUSCH may take the PUCCH's PRBs
    Delay,       \* slots until the PHY reports an occasion (the scheduler runs ahead)
    MaxWait,     \* bound: slots a missed feedback is not noticed (a PDSCH for the
                 \* timing advance is due every 10 frames, long before the SFN wraps)
    MaxLost      \* bound: occasions the PHY never reports

ASSUME DlHarqAssumption ==
    /\ NProcs \in Nat \ {0} /\ RoundMax \in Nat \ {0} /\ Slots \in Nat \ {0}
    /\ Frames \in Nat \ {0} /\ Period \in 1 .. Slots /\ DlSlots \in 0 .. Period - 1
    /\ K1 \subseteq Nat \ {0} /\ K1 # {} /\ SrSlots \subseteq 0 .. Slots - 1
    /\ Taken \subseteq 0 .. Frames * Slots - 1
    /\ Delay \in 1 .. Slots /\ MaxWait \in Nat /\ MaxLost \in Nat
    \* From every slot an uplink slot is out of the feedback limits: otherwise the
    \* search of nr_acknack_scheduling need not end.
    /\ \A s \in 0 .. Slots - 1 :
        \E u \in 0 .. Slots - 1 : u % Period >= DlSlots /\ \A k \in K1 : (u - s) % Slots > k

Procs == 0 .. NProcs - 1
NoTime == [frame |-> -1, slot |-> -1]
NoUci == [time |-> NoTime, bits |-> 0]
NoPucch == [frame |-> 0, ul_slot |-> 0, dai_c |-> 0, sr_flag |-> FALSE]

VARIABLES
    frame, slot,          \* the slot that is scheduled next
    available_dl_harq,
    feedback_dl_harq,
    retrans_dl_harq,
    harq_processes,       \* round, ndi, is_waiting and the time of the feedback
    pucch,                \* sched_pucch[0]
    vrb_map_UL,           \* slots in which the PRBs of the PUCCH are taken
    UL_tti_req,           \* occasions handed to the PHY and not reported yet
    uci,                  \* the report being handled
    lost

lists == <<available_dl_harq, feedback_dl_harq, retrans_dl_harq>>
vars == <<frame, slot, lists, harq_processes, pucch, vrb_map_UL, UL_tti_req, uci, lost>>

Init ==
    /\ frame = 0 /\ slot = 0
    /\ available_dl_harq = [head |-> 0, tail |-> NProcs - 1,
                            next |-> [p \in Procs |-> IF p = NProcs - 1 THEN -1 ELSE p + 1]]
    /\ feedback_dl_harq = create_nr_list(NProcs) /\ retrans_dl_harq = create_nr_list(NProcs)
    /\ harq_processes = [p \in Procs |-> [round |-> 0, ndi |-> 0, is_waiting |-> FALSE,
                                         feedback |-> NoTime]]
    /\ pucch = NoPucch /\ vrb_map_UL = {} /\ UL_tti_req = <<>> /\ uci = NoUci /\ lost = 0

(* The slot a number of slots later, and how long ago a time was.          *)
Linear(f, s) == f * Slots + s
After(k) == [frame |-> ((Linear(frame, slot) + k) \div Slots) % Frames,
             slot |-> (slot + k) % Slots]
Age(t) == (Linear(frame, slot) - Linear(t.frame, t.slot)) % (Frames * Slots)

IsDl(s) == s % Period <= DlSlots
IsUl(s) == s % Period >= DlSlots
-----------------------------------------------------------------------------
(* nr_acknack_scheduling                                                   *)

Time(p) == [frame |-> p.frame, slot |-> p.ul_slot]

\* Mutant of NextUl: no carry into the frame.
NextUl_same_frame(p) ==
    [p EXCEPT !.ul_slot = IF (@ + 1) % Period = 0 THEN (@ + 1 + DlSlots) % Slots
                                                  ELSE (@ + 1) % Slots]

(* The next uplink slot.                                                   *)
NextUl(p) ==
    LET s == p.ul_slot
    IN  [p EXCEPT !.frame = IF s = Slots - 1 THEN (@ + 1) % Frames ELSE @,
                  !.ul_slot = IF (s + 1) % Period = 0 THEN (s + 1 + DlSlots) % Slots
                                                      ELSE (s + 1) % Slots]
(* ... in a PUCCH that is cleared.                                         *)
Cleared(p) == [NextUl(p) EXCEPT !.dai_c = 0, !.sr_flag = FALSE]

(* Slots from the current one to the PUCCH, within a frame.                *)
Diff(p) == (Slots + p.ul_slot - slot) % Slots
Reachable(p) == Diff(p) \in K1

(* A pointer that is not set, or behind.                                   *)
Stale(p) ==
    \/ p.frame = 0 /\ p.ul_slot = 0
    \/ Linear(p.frame, p.ul_slot) < Linear(frame, slot)
Reset(p) ==
    LET s == DlSlots + Period * (slot \div Period)
    IN  [p EXCEPT !.frame = IF s < Slots THEN frame ELSE (frame + 1) % Frames,
                  !.ul_slot = s % Slots]

(* The search for an occasion from p: it ends with the first that is free  *)
(* and has an indicator, or out of the feedback limits.                    *)
Search(p, taken) ==
    LET at[k \in 0 .. Slots] == IF k = 0 THEN p ELSE NextUl(at[k - 1])
        Found(q) == q.ul_slot \notin taken /\ Reachable(q)
        Stops(q) == Diff(q) > Max(K1) \/ Found(q)
        k == CHOOSE k \in 0 .. Slots : Stops(at[k]) /\ \A j \in 0 .. k - 1 : ~Stops(at[j])
    IN  [pucch |-> at[k], ok |-> Diff(at[k]) <= Max(K1)]

(* The whole function, with the PRBs taken by PUSCHs so far: the occasion  *)
(* it hands to the PHY, where it leaves the pointer, the PRBs it marks,    *)
(* and whether it found an occasion.                                       *)
nr_acknack_scheduling(taken) ==
    LET full == pucch.dai_c = 2
        late == pucch.dai_c = 1 /\ ~Reachable(pucch)
        p == IF full \/ late THEN Cleared(pucch) ELSE pucch
        s == Search(IF Stale(p) THEN Reset(p) ELSE p, taken)
    IN  [filled |-> IF full \/ late THEN <<[time |-> Time(pucch), bits |-> pucch.dai_c]>>
                                    ELSE <<>>,
         pucch |-> IF p.dai_c = 1 THEN [p EXCEPT !.dai_c = 2]
                   ELSE IF s.ok THEN [s.pucch EXCEPT !.dai_c = 1] ELSE s.pucch,
         vrb |-> IF p.dai_c = 0 /\ s.ok THEN taken \cup {s.pucch.ul_slot} ELSE taken,
         ok |-> p.dai_c = 1 \/ s.ok]
-----------------------------------------------------------------------------
(* gNB_dlsch_ulsch_scheduler: one slot                                     *)

(* The PRBs taken when the downlink is scheduled: the map of the last slot *)
(* is cleared and PUSCHs may take others.                                  *)
vrb_maps ==
    {(vrb_map_UL \ {(slot + Slots - 1) % Slots}) \cup push :
        push \in SUBSET {After(k).slot : k \in {k \in 1 .. Slots - 1 :
                            Linear(After(k).frame, After(k).slot) \in Taken}}}

(* nr_sr_reporting: the PUCCH p is marked if it is (still) at this slot and *)
(* no PUCCH of the UE was handed over for it.                              *)
nr_sr_reporting(p, reqs) ==
    LET found == /\ IsUl(slot) /\ slot \in SrSlots /\ Time(p) = After(0)
                 /\ \A i \in DOMAIN reqs : reqs[i].time # After(0)
    IN  [p EXCEPT !.sr_flag = @ \/ found]

(* The end of the slot: nr_schedule_pucch hands over the PUCCH p if it is  *)
(* due, then nr_sr_reporting runs.                                         *)
end_of_slot(p, reqs) ==
    LET due == IsUl(slot) /\ (p.dai_c > 0 \/ p.sr_flag) /\ Time(p) = After(0)
        all == IF due THEN Append(reqs, [time |-> Time(p), bits |-> p.dai_c]) ELSE reqs
    IN  /\ pucch' = nr_sr_reporting(IF due THEN NoPucch ELSE p, all)
        /\ UL_tti_req' = all
        /\ frame' = After(1).frame /\ slot' = After(1).slot

Reported == UL_tti_req # <<>> /\ Age(Head(UL_tti_req).time) = Delay
Ready == uci = NoUci /\ ~Reported

(* pf_dl wants to send, a retransmission first, and there is a process.    *)
Wanted == IsDl(slot) /\ (retrans_dl_harq.head >= 0 \/ available_dl_harq.head >= 0)

(* A feedback was missed long ago and no report is on its way.             *)
Overdue == /\ UL_tti_req = <<>> /\ pucch.dai_c = 0
           /\ \E p \in Procs : /\ harq_processes[p].is_waiting
                               /\ Age(harq_processes[p].feedback)
                                    \in MaxWait .. Frames * Slots - Slots

(* The UE gets no PDSCH: uplink slot, nothing to send, or no resources.    *)
slot_idle ==
    /\ Ready /\ ~(Wanted /\ Overdue)
    /\ vrb_map_UL' \in vrb_maps
    /\ end_of_slot(pucch, UL_tti_req)
    /\ UNCHANGED <<lists, harq_processes, uci, lost>>

(* pf_dl finds no PUCCH occasion.                                          *)
slot_no_pucch ==
    /\ Ready /\ Wanted
    /\ \E taken \in vrb_maps :
        LET a == nr_acknack_scheduling(taken)
        IN  /\ ~a.ok
            /\ vrb_map_UL' = a.vrb
            /\ end_of_slot(a.pucch, UL_tti_req \o a.filled)
    /\ UNCHANGED <<lists, harq_processes, uci, lost>>

(* The process that waits for its feedback.                                *)
Sent(harq, t) == [harq EXCEPT !.is_waiting = TRUE, !.feedback = t]

(* nr_schedule_ue_spec sends the PDSCH.                                    *)
nr_schedule_ue_spec ==
    /\ Ready /\ Wanted
    /\ \E taken \in vrb_maps :
        LET a == nr_acknack_scheduling(taken)
            again == retrans_dl_harq.head >= 0
            pid == IF again THEN retrans_dl_harq.head ELSE available_dl_harq.head
        IN  /\ a.ok
            /\ vrb_map_UL' = a.vrb
            /\ IF again
                 THEN IF harq_processes[pid].round = 0
                        THEN /\ available_dl_harq' = remove_nr_list(available_dl_harq, pid)
                             /\ UNCHANGED retrans_dl_harq
                        ELSE /\ retrans_dl_harq' = remove_nr_list(retrans_dl_harq, pid)
                             /\ UNCHANGED available_dl_harq
                 ELSE /\ available_dl_harq' = remove_front_nr_list(available_dl_harq)
                      /\ UNCHANGED retrans_dl_harq
            /\ feedback_dl_harq' = add_tail_nr_list(feedback_dl_harq, pid)
            /\ harq_processes' = [harq_processes EXCEPT ![pid] = Sent(@, Time(a.pucch))]
            /\ end_of_slot(a.pucch, UL_tti_req \o a.filled)
    /\ UNCHANGED <<uci, lost>>
-----------------------------------------------------------------------------
(* handle_nr_uci_pucch_0_1, bit by bit                                     *)

handle_nr_uci_pucch_0_1 ==
    /\ uci = NoUci /\ Reported
    /\ uci' = IF Head(UL_tti_req).bits = 0 THEN NoUci ELSE Head(UL_tti_req)
    /\ UL_tti_req' = Tail(UL_tti_req)
    /\ UNCHANGED <<frame, slot, lists, harq_processes, pucch, vrb_map_UL, lost>>

\* Mutant of Released: the new data indicator is not toggled.
Released_same_ndi(harq) == [harq EXCEPT !.is_waiting = FALSE, !.feedback = NoTime,
                                        !.round = 0]
Released(harq) == [harq EXCEPT !.is_waiting = FALSE, !.feedback = NoTime,
                               !.round = 0, !.ndi = 1 - @]
NextRound(harq) == [harq EXCEPT !.is_waiting = FALSE, !.feedback = NoTime,
                                !.round = @ + 1]
LastRound(harq) == harq.round >= RoundMax - 1

(* The head of the feedback list is answered (remove_front_nr_list and     *)
(* handle_dl_harq).  The frame of a feedback that is not awaited is never  *)
(* read and not kept.                                                      *)
handle_dl_harq(success) ==
    LET pid == feedback_dl_harq.head
        harq == harq_processes[pid]
        free == success \/ LastRound(harq)
    IN  /\ feedback_dl_harq' = remove_front_nr_list(feedback_dl_harq)
        /\ IF free THEN /\ available_dl_harq' = add_tail_nr_list(available_dl_harq, pid)
                        /\ UNCHANGED retrans_dl_harq
                   ELSE /\ retrans_dl_harq' = add_tail_nr_list(retrans_dl_harq, pid)
                        /\ UNCHANGED available_dl_harq
        /\ harq_processes' = [harq_processes EXCEPT ![pid] = IF free THEN Released(@)
                                                             ELSE NextRound(@)]
        /\ UNCHANGED <<frame, slot, pucch, vrb_map_UL, UL_tti_req, lost>>

\* Mutant of Missed: the frame of the feedback is not looked at.
Missed_in_frame ==
    harq_processes[feedback_dl_harq.head].feedback.slot < uci.time.slot

(* find_harq: the head awaits a feedback that was missed.                  *)
Missed ==
    LET t == harq_processes[feedback_dl_harq.head].feedback
    IN  t.frame # uci.time.frame \/ t.slot < uci.time.slot

skip_missed ==
    /\ uci.bits > 0 /\ feedback_dl_harq.head >= 0 /\ Missed
    /\ handle_dl_harq(FALSE)
    /\ UNCHANGED uci

(* ... or the bit is the answer to the process at the head.                *)
harq_bit ==
    /\ uci.bits > 0 /\ feedback_dl_harq.head >= 0 /\ ~Missed
    /\ harq_processes[feedback_dl_harq.head].feedback.slot <= uci.time.slot
    /\ \E success \in BOOLEAN : handle_dl_harq(success)
    /\ uci' = IF uci.bits = 1 THEN NoUci ELSE [uci EXCEPT !.bits = @ - 1]

(* The PHY missed its deadline and reports nothing for an occasion.        *)
lose ==
    /\ uci = NoUci /\ Reported /\ lost < MaxLost
    /\ UL_tti_req' = Tail(UL_tti_req) /\ lost' = lost + 1
    /\ UNCHANGED <<frame, slot, lists, harq_processes, pucch, vrb_map_UL, uci>>

Next == \/ slot_idle \/ slot_no_pucch \/ nr_schedule_ue_spec
        \/ handle_nr_uci_pucch_0_1 \/ skip_missed \/ harq_bit \/ lose

Spec == Init /\ [][Next]_vars
-----------------------------------------------------------------------------
TypeOK ==
    /\ frame \in 0 .. Frames - 1 /\ slot \in 0 .. Slots - 1
    /\ DOMAIN harq_processes = Procs
    /\ \A p \in Procs :
        /\ harq_processes[p].round \in 0 .. RoundMax - 1
        /\ harq_processes[p].ndi \in {0, 1} /\ harq_processes[p].is_waiting \in BOOLEAN
    /\ lost \in 0 .. MaxLost

(* Whether p is in the list l, and whether the tail of l is its last id.   *)
In(p, l) == l.head = p \/ \E q \in Procs : l.next[q] = p
TailLast(l) == IF l.head < 0 THEN l.tail = -1
               ELSE l.tail \in Procs /\ In(l.tail, l) /\ l.next[l.tail] = -1

(* Each process is in exactly one of the three lists, and no sequence of   *)
(* transmissions, answers and missed feedbacks breaks a list or its tail.  *)
(* The process waits exactly while it is in feedback_dl_harq (DevAsserts   *)
(* of nr_schedule_ue_spec and handle_nr_uci_pucch_0_1), and one that is to *)
(* be retransmitted has a round: nr_schedule_ue_spec removes it from the   *)
(* list its round tells.                                                   *)
OneList ==
    /\ \A p \in Procs :
        /\ In(p, feedback_dl_harq) <=> harq_processes[p].is_waiting
        /\ In(p, retrans_dl_harq) => harq_processes[p].round > 0
        /\ ~(In(p, feedback_dl_harq) /\ In(p, retrans_dl_harq))
        /\ In(p, available_dl_harq)
              <=> ~In(p, feedback_dl_harq) /\ ~In(p, retrans_dl_harq)
    /\ TailLast(available_dl_harq) /\ TailLast(feedback_dl_harq) /\ TailLast(retrans_dl_harq)

(* The occasions whose bits are still to come.                             *)
Occasions ==
    (IF uci.bits > 0 THEN <<uci>> ELSE <<>>) \o UL_tti_req
        \o (IF pucch.dai_c > 0 THEN <<[time |-> Time(pucch), bits |-> pucch.dai_c]>>
            ELSE <<>>)

(* However occasions are shared, handed over, lost and reported late, an   *)
(* occasion to come has as many bits as there are processes that await it, *)
(* so no process is skipped as missed whose bit is still to come; and the  *)
(* bit in hand always finds a process (the "Oh no!" branch of              *)
(* handle_nr_uci_pucch_0_1, and the one for a feedback in the future of    *)
(* find_harq, are never taken).  See PucchAhead for the last frame.        *)
OccasionBits ==
    /\ \A i \in DOMAIN Occasions :
        Cardinality({p \in Procs : harq_processes[p].is_waiting
                          /\ harq_processes[p].feedback = Occasions[i].time})
            = Occasions[i].bits
    /\ uci.bits > 0 =>
        /\ feedback_dl_harq.head >= 0
        /\ Missed \/ harq_processes[feedback_dl_harq.head].feedback.slot = uci.time.slot

(* The pointer always names an uplink slot, or the first slot if it is not *)
(* set, and a PUCCH that holds bits is in the frame for which the PHY's    *)
(* request of its slot is being filled, as the first AssertFatal of        *)
(* nr_fill_nfapi_pucch demands.  That is so as long as no search fails in  *)
(* the last frame (Taken has no time in it): a pointer that was left       *)
(* behind there is compared as if it were ahead once the SFN has wrapped.  *)
PucchAhead ==
    /\ pucch.frame \in 0 .. Frames - 1 /\ pucch.ul_slot \in 0 .. Slots - 1
    /\ IsUl(pucch.ul_slot) \/ Time(pucch) = [frame |-> 0, slot |-> 0]
    /\ pucch.dai_c > 0 =>
        pucch.frame = IF pucch.ul_slot >= slot THEN frame ELSE (frame + 1) % Frames

(* A pointer that fell behind carries no scheduling request that was never *)
(* handed over: the AssertFatal of nr_acknack_scheduling.                  *)
SrSent == pucch.dai_c = 0 /\ Stale(pucch) => ~pucch.sr_flag

(* The lists, the occasions and the recovery from missed feedbacks         *)
(* implement the service: a process moves only from free to awaiting its   *)
(* feedback, from there to free (round reset, new data indicator toggled)  *)
(* or to its retransmission, of which there are at most RoundMax - 1.      *)
HarqService == INSTANCE HarqProcs WITH
    place <- [p \in Procs |-> IF In(p, feedback_dl_harq) THEN "feedback"
                              ELSE IF In(p, retrans_dl_harq) THEN "retrans" ELSE "available"],
    round <- [p \in Procs |-> harq_processes[p].round],
    ndi <- [p \in Procs |-> harq_processes[p].ndi]
ImplementsHarq == HarqService!Spec
=============================================================================
