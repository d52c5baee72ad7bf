-------------------------------- MODULE Gtpu --------------------------------
(***************************************************************************)
(* The tunnel tables of GTP-U (openair3/ocp-gtpu/gtp_itf.cpp) as operators *)
(* on a record of two maps: ue2te from RNTI and PDU session to the bearer  *)
(* with its incoming and outgoing TEID, and te2ue from incoming TEID to    *)
(* RNTI and PDU session.  Each operator is one critical section of         *)
(* gtp_lock.  The radio bearer, the addresses and the callback of a tunnel *)
(* go with its session and are left out.                                   *)
(***************************************************************************)
EXTENDS Naturals, Functions

NoEntries == [k \in {} |-> 0]
NoTunnels == [ue2te |-> NoEntries, te2ue |-> NoEntries]

\* Mutant of PutAll: an entry that is there is kept, as by insert.
PutAll_insert(map, new) ==
    [k \in DOMAIN map \union DOMAIN new |->
        IF k \in DOMAIN map THEN map[k] ELSE new[k]]

(* Entries added to a C++ map or replaced, and erased.                     *)
PutAll(map, new) ==
    [k \in DOMAIN map \union DOMAIN new |->
        IF k \in DOMAIN new THEN new[k] ELSE map[k]]
Erase(map, keys) == Restrict(map, DOMAIN map \ keys)

(* The key of a value in a map whose values are distinct.                  *)
KeyOf(map, value) == CHOOSE k \in DOMAIN map : map[k] = value

Known(gtp, rnti) == rnti \in DOMAIN gtp.ue2te
HasBearer(gtp, rnti, psi) ==
    Known(gtp, rnti) /\ psi \in DOMAIN gtp.ue2te[rnti]

(* The incoming TEIDs of some bearers of a UE.                             *)
Incoming(gtp, rnti, psis) ==
    {gtp.ue2te[rnti][psi].teid_incoming :
        psi \in {p \in psis : HasBearer(gtp, rnti, p)}}

(* gtpv1u_create_ngu_tunnel, which calls newGtpuCreateTunnel for each      *)
(* session of a request: the entries of the new TEIDs, and the bearers of  *)
(* the sessions, which replace any that are there.                         *)
gtpv1u_create_ngu_tunnel(gtp, rnti, incoming, outgoing) ==
    [te2ue |-> PutAll(gtp.te2ue,
            [t \in Range(incoming) |-> [rnti |-> rnti, psi |-> KeyOf(incoming, t)]]),
     ue2te |-> PutAll(gtp.ue2te, [u \in {rnti} |->
            PutAll(IF Known(gtp, rnti) THEN gtp.ue2te[rnti] ELSE NoEntries,
                   [p \in DOMAIN incoming |-> [teid_incoming |-> incoming[p],
                                               teid_outgoing |-> outgoing[p]]])])]

(* newGtpuDeleteTunnels: the entries of the TEIDs go, the bearers stay; so *)
(* the UE goes only when it had none.                                      *)
newGtpuDeleteTunnels(gtp, rnti, psis) ==
    [te2ue |-> Erase(gtp.te2ue, Incoming(gtp, rnti, psis)),
     ue2te |-> IF Known(gtp, rnti) /\ DOMAIN gtp.ue2te[rnti] = {}
               THEN Erase(gtp.ue2te, {rnti}) ELSE gtp.ue2te]

(* newGtpuDeleteAllTunnels.                                                *)
newGtpuDeleteAllTunnels(gtp, rnti) ==
    IF Known(gtp, rnti)
    THEN [te2ue |-> Erase(gtp.te2ue,
                          Incoming(gtp, rnti, DOMAIN gtp.ue2te[rnti])),
          ue2te |-> Erase(gtp.ue2te, {rnti})]
    ELSE gtp

(* The UE and session that Gtpv1uHandleGpdu finds for a downlink packet    *)
(* with a known TEID.                                                      *)
Gtpv1uHandleGpdu(gtp, teid) == gtp.te2ue[teid]

(* What gtpv1uSend2 finds for an uplink packet, once it has found the      *)
(* bearer: the TEID it sends to.                                           *)
gtpv1uSend2(gtp, rnti, psi) == gtp.ue2te[rnti][psi].teid_outgoing
=============================================================================
