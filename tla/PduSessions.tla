---------------------------- MODULE PduSessions ----------------------------
(***************************************************************************)
(* PDU sessions in the RRC of the gNB (openair2/RRC/NR/rrc_gNB.c and       *)
(* rrc_gNB_NGAP.c) and their GTP-U tunnels (Gtpu).  The RRC task keeps, per *)
(* UE, a table of sessions (pduSession) with the TEIDs of their tunnels     *)
(* (gnb_gtp_teid, gnb_gtp_psi), a count (setup_pdu_sessions) and flags that *)
(* say what the next RRCReconfigurationComplete answers.  Its peers are the *)
(* AMF, which requests and releases sessions, and the UE, which answers     *)
(* every RRCReconfiguration in order.                                      *)
(*                                                                         *)
(* The 5QIs of the sessions are supported and the initial context has no   *)
(* session.  PDCP, SDAP, the modification of sessions and the split of the *)
(* gNB over F1 are left out.  A TEID, 31 random bits, is not drawn twice.  *)
(***************************************************************************)
EXTENDS Gtpu, Sequences, FiniteSets, FiniteSetsExt

CONSTANTS
    Rntis,      \* UEs, by RNTI (never 0)
    Psis,       \* PDU session ids (never 0)
    NSlots,     \* NR_NB_RB_MAX - 3, the length of pduSession
    NXids,      \* NR_RRC_TRANSACTION_IDENTIFIER_NUMBER
    MaxTeid,    \* bound on the TEIDs that gtpv1uNewTeid draws
    MaxPending, \* bound on the reconfigurations outstanding at one UE
    MaxRetries  \* bound on the releases of sessions that are not up

ASSUME ConstantsAssumption ==
    /\ 0 \notin Rntis /\ 0 \notin Psis /\ IsFiniteSet(Psis)
    /\ NSlots \in Nat \ {0} /\ NSlots <= 255 /\ NXids \in Nat \ {0}
    /\ MaxTeid \in Nat /\ MaxPending \in Nat /\ MaxRetries \in Nat

VARIABLES
    xid,                \* nr_rrc_transaction_identifier
    pduSession,         \* per UE and slot: status, session id, transaction
    gnb_gtp,            \* per UE and slot: gnb_gtp_teid and gnb_gtp_psi
    setup_pdu_sessions, \* per UE
    nb_of_pdusessions,  \* per UE
    release_flag,       \* per UE: pdu_session_release_command_flag
    releasing,          \* per UE: ue_release_timer_rrc runs
    gtp,                \* the tunnel tables
    drawn,              \* number of TEIDs drawn so far
    reconf,             \* per UE: transactions of the outstanding messages
    amf,                \* per UE and session: what the AMF knows
    retries,            \* number of releases of sessions that are not up
    clean               \* per UE: no two procedures overlapped, and every
                        \* request configured its own slots only (ghost)

ueVars == <<pduSession, gnb_gtp, setup_pdu_sessions, nb_of_pdusessions,
            release_flag, releasing, reconf, clean>>
vars == <<xid, ueVars, gtp, drawn, amf, retries>>

Slots == 1..NSlots
Teids == 1..MaxTeid
NoXid == NXids            \* (uint8_t)-1, which no transaction has
NoSession == [state |-> "none", teid |-> 0, outgoing |-> 0]
FreeSlot == [status |-> "new", psi |-> 0, xid |-> NoXid]
NoTunnel == [teid |-> 0, psi |-> 0]

Init ==
    /\ xid = 0
    /\ pduSession = [u \in Rntis |-> [i \in Slots |-> FreeSlot]]
    /\ gnb_gtp = [u \in Rntis |-> [i \in Slots |-> NoTunnel]]
    /\ setup_pdu_sessions = [u \in Rntis |-> 0]
    /\ nb_of_pdusessions = [u \in Rntis |-> 0]
    /\ release_flag = [u \in Rntis |-> FALSE]
    /\ releasing = [u \in Rntis |-> FALSE]
    /\ gtp = NoTunnels /\ drawn = 0 /\ retries = 0
    /\ reconf = [u \in Rntis |-> <<>>]
    /\ amf = [u \in Rntis |-> [p \in Psis |-> NoSession]]
    /\ clean = [u \in Rntis |-> TRUE]
-----------------------------------------------------------------------------
\* Mutant of next_xid: the identifier does not wrap.
next_xid_no_wrap == xid + 1

(* rrc_gNB_get_next_transaction_identifier: one counter for all UEs.       *)
next_xid == (xid + 1) % NXids

(* Another RRC message takes a transaction identifier.                     *)
other_message ==
    /\ xid' = next_xid
    /\ UNCHANGED <<ueVars, gtp, drawn, amf, retries>>
-----------------------------------------------------------------------------
(* Setup of sessions.                                                      *)

(* The first n slots that are not in use, which a request for n sessions   *)
(* takes.                                                                  *)
NewSlots(u) == {i \in Slots : pduSession[u][i].status = "new"}
FirstNew(u, n) ==
    {i \in NewSlots(u) : Cardinality({j \in NewSlots(u) : j < i}) < n}

(* gtpv1uNewTeid for the session of each of these slots, drawn until it is *)
(* not in use, and the TEID the UPF gave.  Only their identity matters.    *)
NewTeids(slot) ==
    {teid \in [DOMAIN slot -> drawn + 1..drawn + Cardinality(DOMAIN slot)] :
        \A p, q \in DOMAIN slot : slot[p] < slot[q] => teid[p] < teid[q]}
UpfTeid(t) == MaxTeid + t

\* Mutant of Configured: the count is not looked at.
Configured_all(slots, count, x) ==
    [i \in Slots |-> IF slots[i].status = "new"
        THEN [slots[i] EXCEPT !.status = "done", !.xid = x] ELSE slots[i]]

(* rrc_gNB_generate_dedicatedRRCReconfiguration: every new slot below the  *)
(* count is configured, those of the request and any other.                *)
Configured(slots, count, x) ==
    [i \in Slots |->
        IF i <= count /\ slots[i].status = "new"
        THEN [slots[i] EXCEPT !.status = "done", !.xid = x] ELSE slots[i]]

(* rrc_gNB_process_NGAP_PDUSESSION_SETUP_REQ for the sessions req, in some *)
(* order.                                                                  *)
setup_request(u, req) ==
    LET n == Cardinality(req)
        new == FirstNew(u, n)
        count == (setup_pdu_sessions[u] + n) % 256
    IN  /\ ~releasing[u] /\ Len(reconf[u]) < MaxPending
        /\ \A p \in req : amf[u][p].state = "none"
        /\ Cardinality(new) = n /\ drawn + n <= MaxTeid
        /\ \E slot \in Bijection(req, new) : \E teid \in NewTeids(slot) :
            /\ gtp' = gtpv1u_create_ngu_tunnel(gtp, u, teid,
                                               [p \in req |-> UpfTeid(teid[p])])
            /\ gnb_gtp' = [gnb_gtp EXCEPT ![u] = [i \in Slots |->
                    IF i \in new THEN [teid |-> teid[KeyOf(slot, i)],
                                       psi |-> KeyOf(slot, i)] ELSE @[i]]]
            /\ pduSession' = [pduSession EXCEPT ![u] = Configured(
                    [i \in Slots |-> IF i \in new
                        THEN [@[i] EXCEPT !.psi = KeyOf(slot, i)] ELSE @[i]],
                    count, next_xid)]
            /\ amf' = [amf EXCEPT ![u] = [p \in Psis |-> IF p \notin req THEN @[p]
                    ELSE [state |-> "setup", teid |-> 0,
                          outgoing |-> UpfTeid(teid[p])]]]
        /\ drawn' = drawn + n
        /\ nb_of_pdusessions' = [nb_of_pdusessions EXCEPT ![u] = n]
        /\ setup_pdu_sessions' = [setup_pdu_sessions EXCEPT ![u] = count]
        /\ xid' = next_xid
        /\ reconf' = [reconf EXCEPT ![u] = Append(@, next_xid)]
        /\ clean' = [clean EXCEPT ![u] = /\ @ /\ reconf[u] = <<>>
                                         /\ new = {i \in NewSlots(u) : i <= count}]
        /\ UNCHANGED <<release_flag, releasing, retries>>
-----------------------------------------------------------------------------
(* Release of sessions.                                                    *)

(* The slots of a transaction, and what is left of the table without it.   *)
OfTransaction(slots, x) == {i \in Slots : slots[i].xid = x}
Unmarked(slots) == [i \in Slots |-> [slots[i] EXCEPT !.xid = NoXid]]

(* rrc_gNB_send_NGAP_PDUSESSION_RELEASE_RESPONSE for the slots of one      *)
(* transaction, and the lines before each of its calls, which give up the  *)
(* tunnels of those slots: rnti is the one of the delete request.  The     *)
(* response ends the release of the sessions asked for, and tells of those *)
(* in the slots.                                                           *)
release_response(u, slots, x, rnti, asked) ==
    LET rel == OfTransaction(slots, x)
        psis == asked \union {slots[i].psi : i \in rel}
    IN  /\ gtp' = newGtpuDeleteTunnels(gtp, rnti, {gnb_gtp[u][i].psi : i \in rel})
        /\ gnb_gtp' = [gnb_gtp EXCEPT ![u] =
                          [i \in Slots |-> IF i \in rel THEN NoTunnel ELSE @[i]]]
        /\ pduSession' = [pduSession EXCEPT ![u] = Unmarked(
                [i \in Slots |-> IF i \in rel THEN FreeSlot ELSE slots[i]])]
        /\ setup_pdu_sessions' =
             [setup_pdu_sessions EXCEPT ![u] = (@ + 256 - Cardinality(rel)) % 256]
        /\ amf' = [amf EXCEPT ![u] =
                     [p \in Psis |-> IF p \in psis THEN NoSession ELSE @[p]]]

(* The first slots of the sessions of a command that are in some state.    *)
SlotsOf(u, req, status) ==
    {i \in Slots : /\ pduSession[u][i].psi \in req
                   /\ pduSession[u][i].status = status
                   /\ \A j \in 1..i - 1 : pduSession[u][j].psi # pduSession[u][i].psi}

(* The table once rrc_gNB_process_NGAP_PDUSESSION_RELEASE_COMMAND has      *)
(* marked the sessions it releases.                                        *)
Marked(u, req) ==
    [i \in Slots |->
        IF i \in SlotsOf(u, req, "established")
        THEN [pduSession[u][i] EXCEPT !.status = "torelease", !.xid = next_xid]
        ELSE IF i \in SlotsOf(u, req, "failed")
        THEN [pduSession[u][i] EXCEPT !.xid = next_xid]
        ELSE pduSession[u][i]]

(* The AMF releases sessions that are up; some that it awaits an answer    *)
(* for, it gives up or asks for again.                                     *)
ReleaseCommand(u, req) ==
    /\ ~releasing[u] /\ \A p \in req : amf[u][p].state # "none"
    /\ LET again == \E p \in req : amf[u][p].state # "up"
       IN  /\ again => retries < MaxRetries
           /\ retries' = IF again THEN retries + 1 ELSE retries
    /\ xid' = next_xid
    /\ clean' = [clean EXCEPT ![u] = @ /\ reconf[u] = <<>>]

\* Mutant of release_established: the flag that awaits the Complete is not set.
release_established_no_flag(u, req) ==
    /\ ReleaseCommand(u, req) /\ Len(reconf[u]) < MaxPending
    /\ SlotsOf(u, req, "established") # {}
    /\ pduSession' = [pduSession EXCEPT ![u] = Marked(u, req)]
    /\ reconf' = [reconf EXCEPT ![u] = Append(@, next_xid)]
    /\ amf' = [amf EXCEPT ![u] = [p \in Psis |->
            IF p \in req THEN [@[p] EXCEPT !.state = "release"] ELSE @[p]]]
    /\ UNCHANGED <<gnb_gtp, setup_pdu_sessions, nb_of_pdusessions, releasing,
                   gtp, drawn, release_flag>>

(* rrc_gNB_process_NGAP_PDUSESSION_RELEASE_COMMAND with an established     *)
(* session: the UE is told first.                                          *)
release_established(u, req) ==
    /\ ReleaseCommand(u, req) /\ Len(reconf[u]) < MaxPending
    /\ SlotsOf(u, req, "established") # {}
    /\ pduSession' = [pduSession EXCEPT ![u] = Marked(u, req)]
    /\ release_flag' = [release_flag EXCEPT ![u] = TRUE]
    /\ reconf' = [reconf EXCEPT ![u] = Append(@, next_xid)]
    /\ amf' = [amf EXCEPT ![u] = [p \in Psis |->
            IF p \in req THEN [@[p] EXCEPT !.state = "release"] ELSE @[p]]]
    /\ UNCHANGED <<gnb_gtp, setup_pdu_sessions, nb_of_pdusessions, releasing,
                   gtp, drawn>>

(* The same with none: the sessions are failed, unknown or in another      *)
(* state, and the command is answered at once.                             *)
release_other(u, req) ==
    /\ ReleaseCommand(u, req)
    /\ SlotsOf(u, req, "established") = {}
    /\ release_response(u, Marked(u, req), next_xid, u, req)
    /\ UNCHANGED <<nb_of_pdusessions, release_flag, releasing, reconf, drawn>>
-----------------------------------------------------------------------------
(* RRCReconfigurationComplete (rrc_gNB_decode_dcch).                       *)

(* While a release is under way every Complete is taken for its answer.    *)
(* The delete request leaves the RNTI 0.                                   *)
complete_release(u) ==
    /\ reconf[u] # <<>> /\ release_flag[u]
    /\ release_response(u, pduSession[u], Head(reconf[u]), 0,
                        {p \in Psis : amf[u][p].state = "release"})
    /\ release_flag' = [release_flag EXCEPT ![u] = FALSE]
    /\ reconf' = [reconf EXCEPT ![u] = Tail(@)]
    /\ UNCHANGED <<xid, nb_of_pdusessions, releasing, drawn, retries, clean>>

(* rrc_gNB_send_NGAP_PDUSESSION_SETUP_RESP: the status of a slot below the *)
(* count once the response is built.                                       *)
Answered(status) ==
    CASE status \in {"done", "established"} -> "established"
      [] status = "new" -> "new"
      [] OTHER -> "failed"

(* The response has one entry per slot and counts the slots that are done; *)
(* the encoder takes that many entries from the start.                     *)
Told(done) == {i \in done : i <= Cardinality(done)}

complete_setup(u) ==
    LET below == {i \in Slots : i <= setup_pdu_sessions[u]}
        done == {i \in below : pduSession[u][i].status = "done"}
        told == Told(done)
    IN  /\ reconf[u] # <<>> /\ ~release_flag[u] /\ nb_of_pdusessions[u] > 0
        /\ pduSession' = [pduSession EXCEPT ![u] = Unmarked(
                [i \in Slots |-> IF i \in below
                    THEN [@[i] EXCEPT !.status = Answered(pduSession[u][i].status)]
                    ELSE @[i]])]
        /\ amf' = [amf EXCEPT ![u] = [p \in Psis |->
                IF @[p].state = "setup" /\ \E i \in told : pduSession[u][i].psi = p
                THEN LET i == CHOOSE j \in told : pduSession[u][j].psi = p
                     IN  [@[p] EXCEPT !.state = "up", !.teid = gnb_gtp[u][i].teid]
                ELSE @[p]]]
        /\ nb_of_pdusessions' = [nb_of_pdusessions EXCEPT ![u] = 0]
        /\ reconf' = [reconf EXCEPT ![u] = Tail(@)]
        /\ UNCHANGED <<xid, gnb_gtp, setup_pdu_sessions, release_flag, releasing,
                       gtp, drawn, retries, clean>>

(* Nothing is waiting for this answer.                                     *)
complete_other(u) ==
    /\ reconf[u] # <<>> /\ ~release_flag[u] /\ nb_of_pdusessions[u] = 0
    /\ reconf' = [reconf EXCEPT ![u] = Tail(@)]
    /\ UNCHANGED <<xid, pduSession, gnb_gtp, setup_pdu_sessions,
                   nb_of_pdusessions, release_flag, releasing, gtp, drawn,
                   amf, retries, clean>>
-----------------------------------------------------------------------------
(* Release of a UE.                                                        *)

(* rrc_gNB_process_NGAP_UE_CONTEXT_RELEASE_COMMAND: RRCRelease is sent, the *)
(* AMF has its answer and the timer starts.                                *)
release_command(u) ==
    /\ ~releasing[u]
    /\ releasing' = [releasing EXCEPT ![u] = TRUE]
    /\ xid' = next_xid
    /\ amf' = [amf EXCEPT ![u] = [p \in Psis |-> NoSession]]
    /\ UNCHANGED <<pduSession, gnb_gtp, setup_pdu_sessions, nb_of_pdusessions,
                   release_flag, reconf, gtp, drawn, retries, clean>>

(* nr_rrc_subframe_process: the timer expires and the UE is removed.  The  *)
(* RNTI may come back with a new context (rrc_gNB_allocate_new_UE_context). *)
remove_ue(u) ==
    /\ releasing[u]
    /\ gtp' = newGtpuDeleteAllTunnels(gtp, u)
    /\ pduSession' = [pduSession EXCEPT ![u] = [i \in Slots |-> FreeSlot]]
    /\ gnb_gtp' = [gnb_gtp EXCEPT ![u] = [i \in Slots |-> NoTunnel]]
    /\ setup_pdu_sessions' = [setup_pdu_sessions EXCEPT ![u] = 0]
    /\ nb_of_pdusessions' = [nb_of_pdusessions EXCEPT ![u] = 0]
    /\ release_flag' = [release_flag EXCEPT ![u] = FALSE]
    /\ releasing' = [releasing EXCEPT ![u] = FALSE]
    /\ reconf' = [reconf EXCEPT ![u] = <<>>]
    /\ clean' = [clean EXCEPT ![u] = TRUE]
    /\ UNCHANGED <<xid, drawn, amf, retries>>
-----------------------------------------------------------------------------
Complete(u) == complete_release(u) \/ complete_setup(u) \/ complete_other(u)

Next ==
    \/ other_message
    \/ \E u \in Rntis :
        \/ \E req \in (SUBSET Psis) \ {{}} :
            \/ setup_request(u, req)
            \/ release_established(u, req)
            \/ release_other(u, req)
        \/ Complete(u)
        \/ release_command(u)
        \/ remove_ue(u)

Spec == Init /\ [][Next]_vars
-----------------------------------------------------------------------------
Statuses == {"new", "done", "established", "failed", "torelease"}

TypeOK ==
    /\ xid \in 0..NXids - 1 /\ drawn \in 0..MaxTeid
    /\ pduSession \in [Rntis -> [Slots ->
            [status : Statuses, psi : Psis \union {0}, xid : 0..NXids]]]
    /\ gnb_gtp \in [Rntis -> [Slots ->
            [teid : Teids \union {0}, psi : Psis \union {0}]]]
    /\ setup_pdu_sessions \in [Rntis -> 0..255]
    /\ nb_of_pdusessions \in [Rntis -> 0..Cardinality(Psis)]
    /\ release_flag \in [Rntis -> BOOLEAN] /\ releasing \in [Rntis -> BOOLEAN]
    /\ clean \in [Rntis -> BOOLEAN]
    /\ reconf \in [Rntis -> Seq(0..NXids - 1)]
    /\ amf \in [Rntis -> [Psis -> [state : {"none", "setup", "up", "release"},
            teid : Teids \union {0}, outgoing : 0..2 * MaxTeid]]]
    /\ DOMAIN gtp.te2ue \subseteq 1..drawn

Up(u, p) == amf[u][p].state = "up"

(* A session the AMF has seen established is the one the table gives, and  *)
(* its tunnel is in both maps with the TEIDs the AMF told and was told:    *)
(* its packets arrive and leave, whatever the other UEs and sessions do,   *)
(* as long as the UE is clean.                                             *)
SessionsRouted ==
    \A u \in Rntis, p \in Psis : clean[u] /\ Up(u, p) =>
        LET s == amf[u][p] IN
        /\ \E i \in Slots :
            /\ i \in SlotsOf(u, {p}, "established")
            /\ gnb_gtp[u][i] = [teid |-> s.teid, psi |-> p]
        /\ s.teid \in DOMAIN gtp.te2ue
        /\ Gtpv1uHandleGpdu(gtp, s.teid) = [rnti |-> u, psi |-> p]
        /\ HasBearer(gtp, u, p) /\ gtpv1uSend2(gtp, u, p) = s.outgoing

(* setup_pdu_sessions, the "total number of pdu session already setup in   *)
(* the list", is the number of slots in use, through any requests and      *)
(* releases of a UE that is clean.                                         *)
SetupCount ==
    \A u \in Rntis : clean[u] =>
        setup_pdu_sessions[u] =
            Cardinality({i \in Slots : pduSession[u][i].status # "new"})

(* Once the UE has answered every reconfiguration, the AMF has the answer  *)
(* to every release, and to the setup of every session in the first slot,  *)
(* as long as the UE is clean: the flag, the count and the transactions of *)
(* the slots lead each Complete to its procedure.                          *)
RequestsAnswered ==
    \A u \in Rntis, p \in Psis : clean[u] /\ reconf[u] = <<>> =>
        /\ amf[u][p].state # "release"
        /\ amf[u][p].state = "setup" => pduSession[u][1].psi # p

(* What the setup response lists are the sessions that were set up: once   *)
(* the UE has answered, the AMF has its answer for each session, also at a *)
(* UE that had one before.                                                 *)
SetupAnswered ==
    \A u \in Rntis, p \in Psis :
        clean[u] /\ reconf[u] = <<>> => amf[u][p].state # "setup"
=============================================================================
