---------------------------- MODULE PdcpService ----------------------------
(***************************************************************************)
(* What a PDCP bearer promises its upper layer: the SDUs that come out     *)
(* were submitted, come out once, in the order of their submission; some   *)
(* may be missing.                                                         *)
(***************************************************************************)
EXTENDS Integers, Sequences

VARIABLES
    submitted,      \* SDUs 0 .. submitted - 1 have been submitted
    out             \* the SDUs handed up, in order

Init == submitted \in Nat /\ out = <<>>

Submit == submitted' = submitted + 1 /\ UNCHANGED out

Extends(new, old) == /\ Len(old) <= Len(new)
                     /\ \A i \in 1..Len(old) : new[i] = old[i]

Deliver ==
    /\ Extends(out', out)
    /\ \A i, j \in 1..Len(out') : i < j => out'[i] < out'[j]
    /\ \A i \in 1..Len(out') : out'[i] < submitted
    /\ UNCHANGED submitted

Next == Submit \/ Deliver

Spec == Init /\ [][Next]_<<submitted, out>>
=============================================================================
