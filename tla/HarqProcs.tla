----------------------------- MODULE HarqProcs -----------------------------
(***************************************************************************)
(* What the MAC of the gNB promises about the HARQ processes of one UE in  *)
(* one direction.  A process is free, awaits the result of a transmission, *)
(* or awaits its retransmission.  A result either releases the process,    *)
(* which resets its round and toggles its new data indicator, or asks for  *)
(* one more round, of which there are at most RoundMax.  The lists and the *)
(* recovery from missed results of NrUlHarq and NrDlHarq implement this.   *)
(***************************************************************************)
EXTENDS Integers

CONSTANTS
    Procs,     \* the HARQ processes
    RoundMax   \* harq_round_max

VARIABLES
    place,     \* "available", "feedback" or "retrans"
    round,     \* transmissions of the current block already answered
    ndi        \* the new data indicator of the current block

procVars == <<place, round, ndi>>

Init ==
    /\ place = [p \in Procs |-> "available"]
    /\ round = [p \in Procs |-> 0]
    /\ ndi = [p \in Procs |-> 0]

(* A transmission: of a new block from a free process, of the same block   *)
(* from one that awaits it.                                                *)
Send(p) ==
    /\ place[p] # "feedback"
    /\ place' = [place EXCEPT ![p] = "feedback"]
    /\ UNCHANGED <<round, ndi>>

(* The block got through, or was given up after the last round.            *)
Release(p) ==
    /\ place[p] = "feedback"
    /\ place' = [place EXCEPT ![p] = "available"]
    /\ round' = [round EXCEPT ![p] = 0]
    /\ ndi' = [ndi EXCEPT ![p] = 1 - @]

(* The block did not get through and a round is left.                      *)
Again(p) ==
    /\ place[p] = "feedback" /\ round[p] + 1 < RoundMax
    /\ place' = [place EXCEPT ![p] = "retrans"]
    /\ round' = [round EXCEPT ![p] = @ + 1]
    /\ UNCHANGED ndi

Next == \E p \in Procs : Send(p) \/ Release(p) \/ Again(p)

Spec == Init /\ [][Next]_procVars
=============================================================================
