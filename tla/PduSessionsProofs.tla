------------------------- MODULE PduSessionsProofs -------------------------
(***************************************************************************)
(* That the sessions of a clean UE are routed, counted and answered, for   *)
(* any UEs, sessions and table sizes.  The invariant says what each slot   *)
(* of the table means in each phase of the UE's procedures, and that the   *)
(* two tunnel maps agree on every TEID that is still known; a second one,  *)
(* on top of it, is about the count and about what the AMF awaits.         *)
(***************************************************************************)
EXTENDS PduSessions, FiniteSetTheorems, TLAPS


(* Every bearer has a TEID drawn before, and the other map, where it knows *)
(* that TEID, gives the bearer back.                                       *)
Agree(g, d) ==
    /\ DOMAIN g.te2ue \subseteq 1..d
    /\ \A v \in DOMAIN g.ue2te : \A q \in DOMAIN g.ue2te[v] :
        LET t == g.ue2te[v][q].teid_incoming IN
        /\ t \in 1..d
        /\ t \in DOMAIN g.te2ue => g.te2ue[t] = [rnti |-> v, psi |-> q]

(* A session has both its entries.                                         *)
Routed(g, u, p, t, o) ==
    /\ t \in DOMAIN g.te2ue /\ g.te2ue[t] = [rnti |-> u, psi |-> p]
    /\ u \in DOMAIN g.ue2te /\ p \in DOMAIN g.ue2te[u]
    /\ g.ue2te[u][p] = [teid_incoming |-> t, teid_outgoing |-> o]

(* The phases of a clean UE: idle, a setup or a release under way.         *)
Idle(u) ==
    /\ reconf[u] = <<>> /\ ~release_flag[u]
    /\ \A i \in Slots : /\ pduSession[u][i].status \in {"new", "established"}
                        /\ pduSession[u][i].xid = NoXid
SettingUp(u) ==
    /\ \E x \in 0..NXids - 1 : reconf[u] = <<x>>
    /\ ~release_flag[u] /\ nb_of_pdusessions[u] > 0
    /\ \A i \in Slots :
        /\ pduSession[u][i].status \in {"new", "done", "established"}
        /\ pduSession[u][i].status = "done" => i <= setup_pdu_sessions[u]
Releasing(u) ==
    /\ release_flag[u]
    /\ \E x \in 0..NXids - 1 :
        /\ reconf[u] = <<x>>
        /\ \A i \in Slots :
            /\ pduSession[u][i].status \in {"new", "established", "torelease"}
            /\ pduSession[u][i].xid = x <=> pduSession[u][i].status = "torelease"

(* What the table of a clean UE holds.                                     *)
Slot(u, i) ==
    LET p == pduSession[u][i].psi IN
    IF pduSession[u][i].status = "new" THEN p = 0
    ELSE /\ p \in Psis /\ amf[u][p].state # "none"
         /\ pduSession[u][i].status # "torelease" => amf[u][p].state # "release"
         /\ gnb_gtp[u][i].psi = p
         /\ Routed(gtp, u, p, gnb_gtp[u][i].teid, amf[u][p].outgoing)
Distinct(u) ==
    \A i, j \in Slots :
        pduSession[u][i].psi = pduSession[u][j].psi
        /\ pduSession[u][i].status # "new" => i = j
UpSessions(u) ==
    \A p \in Psis : Up(u, p) =>
        \E i \in Slots : /\ pduSession[u][i].psi = p
                         /\ pduSession[u][i].status = "established"
                         /\ amf[u][p].teid = gnb_gtp[u][i].teid

Orderly(u) ==
    /\ Idle(u) \/ SettingUp(u) \/ Releasing(u)
    /\ \A i \in Slots : Slot(u, i)
    /\ Distinct(u) /\ UpSessions(u)

IInv ==
    /\ TypeOK /\ Agree(gtp, drawn)
    /\ \A u \in Rntis : releasing[u] => \A p \in Psis : amf[u][p].state = "none"
    /\ \A u \in Rntis : clean[u] /\ ~releasing[u] => Orderly(u)
-----------------------------------------------------------------------------
(* The tunnel tables.                                                      *)

(* newGtpuDeleteTunnels keeps the maps in agreement, and every session     *)
(* other than those it is asked to delete.                                 *)
LEMMA DeleteTunnels ==
    ASSUME NEW g, NEW d, Agree(g, d), NEW r, NEW ps,
           NEW G, G = newGtpuDeleteTunnels(g, r, ps)
    PROVE  /\ Agree(G, d)
           /\ \A v, q, t, o : Routed(g, v, q, t, o) /\ ~(v = r /\ q \in ps)
                                => Routed(G, v, q, t, o)
<1> DEFINE gone == Incoming(g, r, ps)
<1>1. /\ G.te2ue = [t \in DOMAIN g.te2ue \ gone |-> g.te2ue[t]]
      /\ DOMAIN G.te2ue = DOMAIN g.te2ue \ gone
  BY Zenon DEF newGtpuDeleteTunnels, Erase, Restrict
<1>2. \/ G.ue2te = g.ue2te
      \/ /\ DOMAIN g.ue2te[r] = {}
         /\ G.ue2te = [v \in DOMAIN g.ue2te \ {r} |-> g.ue2te[v]]
  BY Zenon DEF newGtpuDeleteTunnels, Erase, Restrict
<1>3. \A v \in DOMAIN G.ue2te : v \in DOMAIN g.ue2te /\ G.ue2te[v] = g.ue2te[v]
  BY <1>2, Zenon
<1>4. Agree(G, d)
  <2>1. DOMAIN G.te2ue \subseteq 1..d
    BY <1>1, Zenon DEF Agree
  <2>2. \A t \in DOMAIN G.te2ue : t \in DOMAIN g.te2ue /\ G.te2ue[t] = g.te2ue[t]
    BY <1>1, Zenon
  <2>3. ASSUME NEW v \in DOMAIN G.ue2te, NEW q \in DOMAIN G.ue2te[v]
        PROVE  LET t == G.ue2te[v][q].teid_incoming IN
               /\ t \in 1..d
               /\ t \in DOMAIN G.te2ue => G.te2ue[t] = [rnti |-> v, psi |-> q]
    <3>1. v \in DOMAIN g.ue2te /\ G.ue2te[v] = g.ue2te[v] /\ q \in DOMAIN g.ue2te[v]
      BY <1>3, Zenon
    <3>2. LET t == g.ue2te[v][q].teid_incoming IN
          /\ t \in 1..d
          /\ t \in DOMAIN g.te2ue => g.te2ue[t] = [rnti |-> v, psi |-> q]
      BY <3>1, Zenon DEF Agree
    <3> QED BY <3>1, <3>2, <2>2, Zenon
  <2> QED BY <2>1, <2>3, Zenon DEF Agree
<1>5. ASSUME NEW v, NEW q, NEW t, NEW o, Routed(g, v, q, t, o), ~(v = r /\ q \in ps)
      PROVE  Routed(G, v, q, t, o)
  <2>1. t \notin gone
    <3>1. SUFFICES ASSUME t \in gone PROVE FALSE
      BY Zenon
    <3>2. PICK p \in ps : HasBearer(g, r, p) /\ t = g.ue2te[r][p].teid_incoming
      BY <3>1, Zenon DEF Incoming
    <3>3. g.te2ue[t] = [rnti |-> r, psi |-> p]
      BY <1>5, <3>2, Zenon DEF Agree, Routed, HasBearer, Known
    <3>4. g.te2ue[t].rnti = r /\ g.te2ue[t].psi = p
      BY <3>3
    <3>5. g.te2ue[t].rnti = v /\ g.te2ue[t].psi = q
      BY <1>5 DEF Routed
    <3> QED BY <3>2, <3>4, <3>5, <1>5, Zenon
  <2>2. v \in DOMAIN G.ue2te
    BY <1>2, <1>5, Zenon DEF Routed
  <2> HIDE DEF gone
  <2> QED BY <1>1, <1>3, <1>5, <2>1, <2>2, Zenon DEF Routed
<1> QED BY <1>4, <1>5, Zenon

(* newGtpuDeleteAllTunnels keeps the maps in agreement, and every session  *)
(* of the other UEs.                                                       *)
LEMMA DeleteAllTunnels ==
    ASSUME NEW g, NEW d, Agree(g, d), NEW r,
           NEW G, G = newGtpuDeleteAllTunnels(g, r)
    PROVE  /\ Agree(G, d)
           /\ \A v, q, t, o : Routed(g, v, q, t, o) /\ v # r => Routed(G, v, q, t, o)
<1>1. CASE ~Known(g, r)
  BY <1>1, Zenon DEF newGtpuDeleteAllTunnels
<1>2. CASE Known(g, r)
  <2> DEFINE gone == Incoming(g, r, DOMAIN g.ue2te[r])
  <2>1. /\ G.te2ue = [t \in DOMAIN g.te2ue \ gone |-> g.te2ue[t]]
        /\ DOMAIN G.te2ue = DOMAIN g.te2ue \ gone
    BY <1>2, Zenon DEF newGtpuDeleteAllTunnels, Erase, Restrict
  <2>2. G.ue2te = [v \in DOMAIN g.ue2te \ {r} |-> g.ue2te[v]]
    BY <1>2, Zenon DEF newGtpuDeleteAllTunnels, Erase, Restrict
  <2>3. \A v \in DOMAIN G.ue2te : v \in DOMAIN g.ue2te /\ G.ue2te[v] = g.ue2te[v]
    BY <2>2, Zenon
  <2>4. Agree(G, d)
    BY <2>1, <2>3, SMTT(60) DEF Agree
  <2>5. ASSUME NEW v, NEW q, NEW t, NEW o, Routed(g, v, q, t, o), v # r
        PROVE  Routed(G, v, q, t, o)
    <3>1. t \notin gone
      <4>1. SUFFICES ASSUME t \in gone PROVE FALSE
        BY Zenon
      <4>2. PICK p : HasBearer(g, r, p) /\ t = g.ue2te[r][p].teid_incoming
        BY <4>1, Zenon DEF Incoming
      <4>3. g.te2ue[t] = [rnti |-> r, psi |-> p]
        BY <2>5, <4>2, Zenon DEF Agree, Routed, HasBearer, Known
      <4>4. g.te2ue[t].rnti = r
        BY <4>3
      <4>5. g.te2ue[t].rnti = v
        BY <2>5 DEF Routed
      <4> QED BY <4>4, <4>5, <2>5, Zenon
    <3>2. v \in DOMAIN G.ue2te
      BY <2>2, <2>5, Zenon DEF Routed
    <3> HIDE DEF gone
    <3> QED BY <2>1, <2>3, <2>5, <3>1, <3>2, Zenon DEF Routed
  <2> QED BY <2>4, <2>5, Zenon
<1> QED BY <1>1, <1>2, Zenon

(* gtpv1u_create_ngu_tunnel routes the sessions of the request to new      *)
(* TEIDs and keeps every other session.                                    *)
NewSessions(d, n, req, teid, out) ==
    /\ d \in Nat /\ n \in Nat
    /\ teid \in [req -> d + 1..d + n] /\ out \in [req -> Int]
    /\ \A p, q \in req : teid[p] = teid[q] => p = q
RoutesNew(G, u, req, teid, out) == \A p \in req : Routed(G, u, p, teid[p], out[p])
KeepsOther(g, G, u, req) ==
    \A v, q, t, o : Routed(g, v, q, t, o) /\ ~(v = u /\ q \in req) => Routed(G, v, q, t, o)

LEMMA CreateTunnels ==
    ASSUME NEW g, NEW d, NEW n, NEW u, NEW req, NEW teid, NEW out, Agree(g, d),
           NewSessions(d, n, req, teid, out),
           NEW G, G = gtpv1u_create_ngu_tunnel(g, u, teid, out)
    PROVE  Agree(G, d + n) /\ RoutesNew(G, u, req, teid, out) /\ KeepsOther(g, G, u, req)
<1>0. /\ d \in Nat /\ n \in Nat
      /\ teid \in [req -> d + 1..d + n] /\ out \in [req -> Int]
      /\ \A p, q \in req : teid[p] = teid[q] => p = q
  BY Zenon DEF NewSessions
<1> USE <1>0
<1> DEFINE new == Range(teid)
           old == IF Known(g, u) THEN g.ue2te[u] ELSE NoEntries
           bearers == [p \in DOMAIN old \union req |->
                        IF p \in req THEN [teid_incoming |-> teid[p],
                                           teid_outgoing |-> out[p]]
                        ELSE old[p]]
<1>1. /\ G.te2ue = [t \in DOMAIN g.te2ue \union new |->
                      IF t \in new THEN [rnti |-> u, psi |-> KeyOf(teid, t)]
                      ELSE g.te2ue[t]]
      /\ DOMAIN G.te2ue = DOMAIN g.te2ue \union new
  BY Zenon DEF gtpv1u_create_ngu_tunnel, PutAll
<1>2. /\ G.ue2te = [v \in DOMAIN g.ue2te \union {u} |->
                      IF v = u THEN bearers ELSE g.ue2te[v]]
      /\ DOMAIN G.ue2te = DOMAIN g.ue2te \union {u}
  <2>1. DOMAIN teid = req
    BY Zenon
  <2> QED BY <2>1, Zenon DEF gtpv1u_create_ngu_tunnel, PutAll
<1>3. \A t \in new : t \in d + 1..d + n
  BY Zenon DEF Range
<1>4. \A p \in req : teid[p] \in new /\ KeyOf(teid, teid[p]) = p
  BY Zenon DEF Range, KeyOf
<1>5. \A t \in DOMAIN g.te2ue : t \in 1..d /\ t \notin new
  BY <1>3 DEF Agree
<1>6. 1..d \subseteq 1..d + n /\ d + 1..d + n \subseteq 1..d + n
  OBVIOUS
<1>7. DOMAIN G.te2ue \subseteq 1..d + n
  BY <1>1, <1>3, <1>5, <1>6, Zenon
<1>8. DOMAIN bearers = DOMAIN old \union req
  BY Zenon
<1>9. \A q \in DOMAIN old : u \in DOMAIN g.ue2te /\ q \in DOMAIN g.ue2te[u]
                            /\ old[q] = g.ue2te[u][q]
  BY Zenon DEF Known, NoEntries
<1>10. ASSUME NEW p \in req PROVE Routed(G, u, p, teid[p], out[p])
  <2>1. bearers[p] = [teid_incoming |-> teid[p], teid_outgoing |-> out[p]]
    BY <1>8, Zenon
  <2>2. G.te2ue[teid[p]] = [rnti |-> u, psi |-> p] /\ teid[p] \in DOMAIN G.te2ue
    BY <1>1, <1>4, Zenon
  <2>3. G.ue2te[u] = bearers /\ u \in DOMAIN G.ue2te
    BY <1>2, Zenon
  <2> HIDE DEF bearers, new, old
  <2> QED BY <2>1, <2>2, <2>3, <1>8, Zenon DEF Routed
<1>11. ASSUME NEW v \in DOMAIN G.ue2te, NEW q \in DOMAIN G.ue2te[v]
       PROVE  LET t == G.ue2te[v][q].teid_incoming
              IN  /\ t \in 1..d + n
                  /\ t \in DOMAIN G.te2ue => G.te2ue[t] = [rnti |-> v, psi |-> q]
  <2>1. CASE v = u /\ q \in req
    <3>1. Routed(G, u, q, teid[q], out[q])
      BY <1>10, <2>1, Zenon
    <3>2. G.ue2te[v][q].teid_incoming = teid[q]
      BY <2>1, <3>1 DEF Routed
    <3>3. teid[q] \in 1..d + n
      BY <2>1, <1>6, Zenon
    <3> HIDE DEF new, bearers, old
    <3> QED BY <2>1, <3>1, <3>2, <3>3, Zenon DEF Routed
  <2>2. CASE ~(v = u /\ q \in req)
    <3>1. v \in DOMAIN g.ue2te /\ q \in DOMAIN g.ue2te[v] /\ G.ue2te[v][q] = g.ue2te[v][q]
      BY <1>2, <1>8, <1>9, <2>2
    <3>2. g.ue2te[v][q].teid_incoming \in 1..d
      BY <3>1, Zenon DEF Agree
    <3>3. g.ue2te[v][q].teid_incoming \notin new
      BY <3>2, <1>3
    <3> HIDE DEF new, bearers, old
    <3> QED BY <1>1, <1>6, <3>1, <3>2, <3>3, SMTT(60) DEF Agree
  <2> QED BY <2>1, <2>2, Zenon
<1>12. ASSUME NEW v, NEW q, NEW t, NEW o, Routed(g, v, q, t, o), ~(v = u /\ q \in req)
       PROVE  Routed(G, v, q, t, o)
  <2>1. t \in DOMAIN G.te2ue /\ G.te2ue[t] = g.te2ue[t]
    BY <1>1, <1>5, <1>12, Zenon DEF Routed
  <2>2. CASE v # u
    BY <1>2, <1>12, <2>1, <2>2, Zenon DEF Routed
  <2>3. CASE v = u
    <3>1. q \in DOMAIN old /\ old[q] = g.ue2te[u][q]
      BY <1>12, <2>3, Zenon DEF Routed, Known
    <3>2. bearers[q] = old[q] /\ q \in DOMAIN bearers
      BY <3>1, <1>8, <1>12, <2>3, Zenon
    <3>3. G.ue2te[u] = bearers /\ u \in DOMAIN G.ue2te
      BY <1>2, Zenon
    <3> HIDE DEF bearers, old, new
    <3> QED BY <1>12, <2>1, <2>3, <3>1, <3>2, <3>3, Zenon DEF Routed
  <2> QED BY <2>2, <2>3, Zenon
<1>13. Agree(G, d + n)
  BY <1>7, <1>11, Zenon DEF Agree
<1> QED BY <1>10, <1>12, <1>13, Zenon DEF RoutesNew, KeepsOther
-----------------------------------------------------------------------------
(* The table of a UE that a step leaves alone.                             *)

Same(v) ==
    /\ pduSession'[v] = pduSession[v] /\ gnb_gtp'[v] = gnb_gtp[v]
    /\ setup_pdu_sessions'[v] = setup_pdu_sessions[v]
    /\ nb_of_pdusessions'[v] = nb_of_pdusessions[v]
    /\ release_flag'[v] = release_flag[v] /\ reconf'[v] = reconf[v]
    /\ amf'[v] = amf[v] /\ releasing'[v] = releasing[v] /\ clean'[v] = clean[v]

(* It stays orderly when its tunnels stay.                                 *)
LEMMA OtherUe ==
    ASSUME NEW v, Same(v), Orderly(v),
           \A q, t, o : Routed(gtp, v, q, t, o) => Routed(gtp', v, q, t, o)
    PROVE  Orderly(v)'
<1>1. (Idle(v) => Idle(v)') /\ (SettingUp(v) => SettingUp(v)')
      /\ (Releasing(v) => Releasing(v)')
  BY DEF Same, Idle, SettingUp, Releasing, Slots, NoXid
<1>2. \A i \in Slots : Slot(v, i)'
  BY Zenon DEF Same, Orderly, Slot
<1>3. Distinct(v)' /\ UpSessions(v)'
  BY DEF Same, Orderly, Distinct, UpSessions, Up, Slots
<1> QED BY <1>1, <1>2, <1>3, Zenon DEF Orderly, Slots

(* A step of one UE keeps the invariant when it keeps the types and the    *)
(* agreement of the maps, leaves the other UEs and their tunnels alone,    *)
(* and leaves its own UE orderly if it leaves it clean.                    *)
LEMMA OneUe ==
    ASSUME IInv, NEW u \in Rntis, TypeOK', Agree(gtp, drawn)',
           \A v \in Rntis \ {u} : Same(v),
           \A v \in Rntis \ {u} : \A q, t, o :
               Routed(gtp, v, q, t, o) => Routed(gtp', v, q, t, o),
           releasing'[u] => \A p \in Psis : amf'[u][p].state = "none",
           clean'[u] /\ ~releasing'[u] => Orderly(u)'
    PROVE  IInv'
<1>1. ASSUME NEW v \in Rntis \ {u}, clean'[v] /\ ~releasing'[v]
      PROVE  Orderly(v)'
  <2>1. Orderly(v)
    BY <1>1, Zenon DEF IInv, Same
  <2> QED BY <2>1, <1>1, OtherUe, Zenon
<1>2. \A v \in Rntis \ {u} : releasing'[v] => \A p \in Psis : amf'[v][p].state = "none"
  BY DEF IInv, Same
<1> QED BY <1>1, <1>2, Zenon DEF IInv

(* The next transaction identifier is one.                                 *)
LEMMA NextXid == ASSUME TypeOK PROVE next_xid \in 0..NXids - 1 /\ next_xid # NoXid
BY ConstantsAssumption, SMTT(60) DEF TypeOK, next_xid, NoXid

LEMMA OtherMessage == ASSUME IInv, other_message PROVE IInv'
<1>1. TypeOK'
  BY NextXid, Zenon DEF IInv, other_message, TypeOK, ueVars
<1>2. Agree(gtp, drawn)'
  BY Zenon DEF IInv, other_message
<1>3. \A v \in Rntis : Same(v)
  BY Zenon DEF other_message, ueVars, Same
<1>4. gtp' = gtp
  BY Zenon DEF other_message
<1>5. ASSUME NEW v \in Rntis, clean'[v] /\ ~releasing'[v] PROVE Orderly(v)'
  BY <1>3, <1>4, <1>5, OtherUe, Zenon DEF IInv, Same
<1>6. \A v \in Rntis : releasing'[v] => \A p \in Psis : amf'[v][p].state = "none"
  BY <1>3 DEF IInv, Same
<1> QED BY <1>1, <1>2, <1>5, <1>6, Zenon DEF IInv

(* The records of the tables.                                              *)
SlotRecord == [status : Statuses, psi : Psis \union {0}, xid : 0..NXids]
GtpRecord == [teid : Teids \union {0}, psi : Psis \union {0}]
AmfRecord == [state : {"none", "setup", "up", "release"},
              teid : Teids \union {0}, outgoing : 0..2 * MaxTeid]

(* A step that replaces the table of one UE.                               *)
LEMMA Row ==
    ASSUME NEW f, NEW g, NEW S, NEW u \in Rntis, NEW r \in S,
           f \in [Rntis -> S], g = [f EXCEPT ![u] = r]
    PROVE  g \in [Rntis -> S] /\ g[u] = r /\ \A v \in Rntis \ {u} : g[v] = f[v]
BY Zenon

(* The types of the tables of one UE.                                      *)
LEMMA RowTypes ==
    ASSUME TypeOK, NEW u \in Rntis
    PROVE  /\ \A i \in Slots : pduSession[u][i] \in SlotRecord
           /\ \A i \in Slots : gnb_gtp[u][i] \in GtpRecord
           /\ \A p \in Psis : amf[u][p] \in AmfRecord
           /\ setup_pdu_sessions[u] \in 0..255
<1>1. /\ pduSession[u] \in [Slots -> SlotRecord]
      /\ gnb_gtp[u] \in [Slots -> GtpRecord]
      /\ amf[u] \in [Psis -> AmfRecord]
      /\ setup_pdu_sessions[u] \in 0..255
  BY Zenon DEF TypeOK, SlotRecord, GtpRecord, AmfRecord
<1> QED BY <1>1, Zenon

LEMMA ReleaseUe == ASSUME IInv, NEW u \in Rntis, release_command(u) PROVE IInv'
<1> USE DEF release_command
<1>1. TypeOK'
  <2>1. NoSession \in [state : {"none", "setup", "up", "release"},
                       teid : Teids \union {0}, outgoing : 0..2 * MaxTeid]
    BY ConstantsAssumption DEF NoSession
  <2> QED BY NextXid, <2>1, Zenon DEF IInv, TypeOK
<1>2. Agree(gtp, drawn)'
  BY Zenon DEF IInv
<1>3. \A v \in Rntis \ {u} : Same(v)
  BY Zenon DEF Same, IInv, TypeOK
<1>4. gtp' = gtp /\ releasing'[u]
  BY Zenon DEF IInv, TypeOK
<1>5. \A p \in Psis : amf'[u][p].state = "none"
  BY Zenon DEF IInv, TypeOK, NoSession
<1> QED BY <1>1, <1>2, <1>3, <1>4, <1>5, OneUe, Zenon

LEMMA RemoveUe == ASSUME IInv, NEW u \in Rntis, remove_ue(u) PROVE IInv'
<1>1. Agree(gtp, drawn)' /\ \A v, q, t, o : Routed(gtp, v, q, t, o) /\ v # u
                                          => Routed(gtp', v, q, t, o)
  BY DeleteAllTunnels, ZenonT(60) DEF IInv, remove_ue
<1>2. TypeOK'
  <2>1. FreeSlot \in SlotRecord /\ NoTunnel \in GtpRecord
    BY ConstantsAssumption DEF FreeSlot, NoTunnel, NoXid, Statuses, SlotRecord, GtpRecord
  <2>2. Cardinality(Psis) \in Nat
    BY ConstantsAssumption, FS_CardinalityType, Zenon
  <2>3. DOMAIN gtp'.te2ue \subseteq 1..drawn'
    BY <1>1, Zenon DEF Agree
  <2>4. pduSession' \in [Rntis -> [Slots -> SlotRecord]]
    BY <2>1, Zenon DEF IInv, TypeOK, remove_ue, SlotRecord
  <2>5. gnb_gtp' \in [Rntis -> [Slots -> GtpRecord]]
    BY <2>1, Zenon DEF IInv, TypeOK, remove_ue, GtpRecord
  <2>6. /\ setup_pdu_sessions' \in [Rntis -> 0..255]
        /\ release_flag' \in [Rntis -> BOOLEAN] /\ releasing' \in [Rntis -> BOOLEAN]
        /\ clean' \in [Rntis -> BOOLEAN] /\ reconf' \in [Rntis -> Seq(0..NXids - 1)]
    <3>1. /\ setup_pdu_sessions' = [setup_pdu_sessions EXCEPT ![u] = 0]
          /\ release_flag' = [release_flag EXCEPT ![u] = FALSE]
          /\ releasing' = [releasing EXCEPT ![u] = FALSE]
          /\ reconf' = [reconf EXCEPT ![u] = <<>>]
          /\ clean' = [clean EXCEPT ![u] = TRUE]
      BY Zenon DEF remove_ue
    <3>2. /\ setup_pdu_sessions \in [Rntis -> 0..255]
          /\ release_flag \in [Rntis -> BOOLEAN] /\ releasing \in [Rntis -> BOOLEAN]
          /\ clean \in [Rntis -> BOOLEAN] /\ reconf \in [Rntis -> Seq(0..NXids - 1)]
      BY Zenon DEF IInv, TypeOK
    <3>3. 0 \in 0..255 /\ <<>> \in Seq(0..NXids - 1)
      OBVIOUS
    <3> QED BY <3>1, <3>2, <3>3, Zenon
  <2>7. nb_of_pdusessions' \in [Rntis -> 0..Cardinality(Psis)]
    BY <2>2 DEF IInv, TypeOK, remove_ue
  <2>8. UNCHANGED <<xid, drawn, amf>>
    BY Zenon DEF remove_ue
  <2> QED BY <2>3, <2>4, <2>5, <2>6, <2>7, <2>8, Zenon DEF IInv, TypeOK, SlotRecord, GtpRecord
<1>3. \A v \in Rntis \ {u} : Same(v)
  BY ZenonT(60) DEF Same, IInv, TypeOK, remove_ue
<1>4. Orderly(u)'
  <2>1. /\ \A i \in Slots : pduSession'[u][i] = FreeSlot
        /\ amf'[u] = amf[u] /\ reconf'[u] = <<>> /\ ~release_flag'[u]
    BY Zenon DEF remove_ue, IInv, TypeOK
  <2>2. \A p \in Psis : amf'[u][p].state = "none"
    BY <2>1, Zenon DEF remove_ue, IInv
  <2>3. \A i \in Slots : /\ pduSession'[u][i].status = "new"
                         /\ pduSession'[u][i].psi = 0 /\ pduSession'[u][i].xid = NoXid
    BY <2>1 DEF FreeSlot
  <2>4. Idle(u)'
    BY <2>1, <2>3, Zenon DEF Idle, Slots, NoXid
  <2>5. \A i \in Slots : Slot(u, i)'
    BY <2>3, Zenon DEF Slot
  <2>6. Distinct(u)' /\ UpSessions(u)'
    BY <2>2, <2>3, Zenon DEF Distinct, UpSessions, Up, Slots
  <2> QED BY <2>4, <2>5, <2>6, Zenon DEF Orderly, Slots
<1>5. ~releasing'[u]
  BY Zenon DEF remove_ue, IInv, TypeOK
<1> QED BY <1>1, <1>2, <1>3, <1>4, <1>5, OneUe, Zenon
-----------------------------------------------------------------------------
(* The answers of the UE.                                                  *)

(* A transaction leaves the outstanding ones, or joins them.               *)
LEMMA TailXids ==
    ASSUME NEW S, NEW s \in Seq(S), s # <<>> PROVE Tail(s) \in Seq(S)
OBVIOUS
LEMMA AppendXids ==
    ASSUME NEW S, NEW s \in Seq(S), NEW x \in S PROVE Append(s, x) \in Seq(S)
OBVIOUS

LEMMA CompleteOther == ASSUME IInv, NEW u \in Rntis, complete_other(u) PROVE IInv'
<1> USE DEF complete_other
<1>1. TypeOK'
  <2>1. Tail(reconf[u]) \in Seq(0..NXids - 1)
    BY TailXids, Zenon DEF IInv, TypeOK
  <2> QED BY <2>1, Zenon DEF IInv, TypeOK
<1>2. Agree(gtp, drawn)' /\ gtp' = gtp
  BY Zenon DEF IInv
<1>3. \A v \in Rntis \ {u} : Same(v)
  BY Zenon DEF Same, IInv, TypeOK
<1>4. releasing'[u] => \A p \in Psis : amf'[u][p].state = "none"
  BY Zenon DEF IInv
<1>5. ~(clean[u] /\ ~releasing[u])
  BY DEF IInv, Orderly, Idle, SettingUp, Releasing
<1> QED BY <1>1, <1>2, <1>3, <1>4, <1>5, OneUe, Zenon

(* The tables once a setup is answered, and which sessions the AMF is told *)
(* of.                                                                     *)
Below(u) == {i \in Slots : i <= setup_pdu_sessions[u]}
DoneBelow(u) == {i \in Below(u) : pduSession[u][i].status = "done"}
First(u, p) == CHOOSE j \in Told(DoneBelow(u)) : pduSession[u][j].psi = p
Now(u, p) == amf[u][p].state = "setup"
             /\ \E i \in Told(DoneBelow(u)) : pduSession[u][i].psi = p
AnsweredTable(u) ==
    Unmarked([i \in Slots |-> IF i \in Below(u)
        THEN [pduSession[u][i] EXCEPT !.status = Answered(pduSession[u][i].status)]
        ELSE pduSession[u][i]])
AnsweredAmf(u) ==
    [p \in Psis |-> IF Now(u, p)
        THEN [amf[u][p] EXCEPT !.state = "up", !.teid = gnb_gtp[u][First(u, p)].teid]
        ELSE amf[u][p]]

(* What the Complete does to the tables of the UE.                         *)
AnsweredUe(u) ==
    /\ pduSession' \in [Rntis -> [Slots -> SlotRecord]]
    /\ amf' \in [Rntis -> [Psis -> AmfRecord]]
    /\ \A v \in Rntis \ {u} : pduSession'[v] = pduSession[v] /\ amf'[v] = amf[v]
    /\ \A i \in Slots :
        /\ pduSession'[u][i].psi = pduSession[u][i].psi
        /\ pduSession'[u][i].xid = NoXid
        /\ pduSession'[u][i].status = IF i \in Below(u)
                THEN Answered(pduSession[u][i].status) ELSE pduSession[u][i].status
    /\ \A p \in Psis :
        /\ amf'[u][p].outgoing = amf[u][p].outgoing
        /\ Now(u, p) => /\ amf'[u][p].state = "up"
                        /\ amf'[u][p].teid = gnb_gtp[u][First(u, p)].teid
        /\ ~Now(u, p) => amf'[u][p] = amf[u][p]

LEMMA FirstDone ==
    ASSUME NEW u, NEW p \in Psis, Now(u, p)
    PROVE  /\ First(u, p) \in Slots
           /\ pduSession[u][First(u, p)].psi = p
           /\ pduSession[u][First(u, p)].status = "done"
<1>1. Told(DoneBelow(u)) \subseteq DoneBelow(u)
  BY Zenon DEF Told
<1>2. First(u, p) \in Told(DoneBelow(u)) /\ pduSession[u][First(u, p)].psi = p
  BY Zenon DEF First, Now
<1> QED BY <1>1, <1>2, Zenon DEF DoneBelow, Below

LEMMA SetupAnswers ==
    ASSUME TypeOK, NEW u \in Rntis, complete_setup(u)
    PROVE  AnsweredUe(u)
<1> DEFINE table == AnsweredTable(u)
           known == AnsweredAmf(u)
<1>1. /\ pduSession' = [pduSession EXCEPT ![u] = table]
      /\ amf' = [amf EXCEPT ![u] = known]
  BY Zenon DEF complete_setup, AnsweredTable, AnsweredAmf, Now, First, DoneBelow, Below
<1>2. /\ TypeOK
      /\ \A i \in Slots : pduSession[u][i] \in SlotRecord
      /\ \A p \in Psis : amf[u][p] \in AmfRecord
      /\ \A i \in Slots : gnb_gtp[u][i] \in GtpRecord
  BY RowTypes, Zenon
<1>3. ASSUME NEW i \in Slots
      PROVE  /\ table[i] \in SlotRecord
             /\ table[i].psi = pduSession[u][i].psi /\ table[i].xid = NoXid
             /\ table[i].status = IF i \in Below(u) THEN Answered(pduSession[u][i].status)
                                                 ELSE pduSession[u][i].status
  <2>1. Answered(pduSession[u][i].status) \in Statuses /\ NoXid \in 0..NXids
    BY <1>2, ConstantsAssumption DEF Answered, Statuses, NoXid, SlotRecord
  <2>2. table[i] = [(IF i \in Below(u)
                THEN [pduSession[u][i] EXCEPT !.status = Answered(pduSession[u][i].status)]
                ELSE pduSession[u][i]) EXCEPT !.xid = NoXid]
    BY Zenon DEF AnsweredTable, Unmarked
  <2> HIDE DEF table
  <2> QED BY <1>2, <2>1, <2>2, Zenon DEF SlotRecord
<1>4. ASSUME NEW p \in Psis
      PROVE  /\ known[p] \in AmfRecord /\ known[p].outgoing = amf[u][p].outgoing
             /\ Now(u, p) => known[p].state = "up" /\ known[p].teid = gnb_gtp[u][First(u, p)].teid
             /\ ~Now(u, p) => known[p] = amf[u][p]
  <2>1. Now(u, p) => gnb_gtp[u][First(u, p)].teid \in Teids \union {0}
    BY FirstDone, <1>2, Zenon DEF GtpRecord
  <2>2. known[p] = IF Now(u, p)
                THEN [amf[u][p] EXCEPT !.state = "up", !.teid = gnb_gtp[u][First(u, p)].teid]
                ELSE amf[u][p]
    BY Zenon DEF AnsweredAmf
  <2> HIDE DEF known
  <2> QED BY <1>2, <2>1, <2>2, Zenon DEF AmfRecord
<1>5. table \in [Slots -> SlotRecord] /\ known \in [Psis -> AmfRecord]
  <2>1. table = [i \in Slots |-> table[i]] /\ known = [p \in Psis |-> known[p]]
    BY Zenon DEF AnsweredTable, AnsweredAmf, Unmarked
  <2> HIDE DEF table, known
  <2> QED BY <1>3, <1>4, <2>1, Zenon
<1> HIDE DEF table, known
<1>6. /\ pduSession' \in [Rntis -> [Slots -> SlotRecord]] /\ pduSession'[u] = table
      /\ \A v \in Rntis \ {u} : pduSession'[v] = pduSession[v]
  BY <1>1, <1>2, <1>5, Row, SMTT(60) DEF TypeOK, SlotRecord
<1>7. /\ amf' \in [Rntis -> [Psis -> AmfRecord]] /\ amf'[u] = known
       /\ \A v \in Rntis \ {u} : amf'[v] = amf[v]
  BY <1>1, <1>2, <1>5, Row, SMTT(60) DEF TypeOK, AmfRecord
<1> QED BY <1>3, <1>4, <1>6, <1>7, Zenon DEF AnsweredUe

LEMMA CompleteSetup == ASSUME IInv, NEW u \in Rntis, complete_setup(u) PROVE IInv'
<1>1. /\ reconf[u] # <<>> /\ ~release_flag[u] /\ nb_of_pdusessions[u] > 0
      /\ nb_of_pdusessions' = [nb_of_pdusessions EXCEPT ![u] = 0]
      /\ reconf' = [reconf EXCEPT ![u] = Tail(reconf[u])]
      /\ UNCHANGED <<xid, gnb_gtp, setup_pdu_sessions, release_flag, releasing,
                     gtp, drawn, retries, clean>>
  BY Zenon DEF complete_setup
<1>2. TypeOK /\ AnsweredUe(u)
  BY SetupAnswers, Zenon DEF IInv
<1>3. ASSUME NEW i \in Slots
      PROVE  /\ pduSession'[u][i].psi = pduSession[u][i].psi
             /\ pduSession'[u][i].xid = NoXid
             /\ pduSession'[u][i].status = IF i \in Below(u)
                    THEN Answered(pduSession[u][i].status) ELSE pduSession[u][i].status
  BY <1>2, Zenon DEF AnsweredUe
<1>4. ASSUME NEW p \in Psis
      PROVE  /\ amf'[u][p].outgoing = amf[u][p].outgoing
             /\ Now(u, p) => /\ amf'[u][p].state = "up"
                             /\ amf'[u][p].teid = gnb_gtp[u][First(u, p)].teid
             /\ ~Now(u, p) => amf'[u][p] = amf[u][p]
  BY <1>2, Zenon DEF AnsweredUe
<1>5. \A p \in Psis : Now(u, p) => amf[u][p].state = "setup"
  BY Zenon DEF Now
<1>6. /\ pduSession' \in [Rntis -> [Slots -> SlotRecord]]
      /\ amf' \in [Rntis -> [Psis -> AmfRecord]]
      /\ \A v \in Rntis \ {u} : pduSession'[v] = pduSession[v] /\ amf'[v] = amf[v]
  BY <1>2, Zenon DEF AnsweredUe
<1>7. TypeOK'
  <2>1. Tail(reconf[u]) \in Seq(0..NXids - 1)
    BY <1>1, <1>2, TailXids, Zenon DEF TypeOK
  <2>2. reconf' \in [Rntis -> Seq(0..NXids - 1)]
    BY <1>1, <2>1, <1>2, Zenon DEF TypeOK
  <2>3. Cardinality(Psis) \in Nat
    BY ConstantsAssumption, FS_CardinalityType, Zenon
  <2>4. nb_of_pdusessions' \in [Rntis -> 0..Cardinality(Psis)]
    <3>1. nb_of_pdusessions' = [nb_of_pdusessions EXCEPT ![u] = 0]
      BY <1>1, Zenon
    <3>2. 0 \in 0..Cardinality(Psis) /\ nb_of_pdusessions \in [Rntis -> 0..Cardinality(Psis)]
      BY <2>3, <1>2 DEF TypeOK
    <3> QED BY <3>1, <3>2, Row, Zenon
  <2>5. UNCHANGED <<xid, gnb_gtp, setup_pdu_sessions, release_flag, releasing,
                    gtp, drawn, retries, clean>>
    BY <1>1, Zenon
  <2> QED BY <2>2, <2>4, <2>5, <1>2, <1>6, Zenon DEF TypeOK, SlotRecord, AmfRecord
<1>8. Agree(gtp, drawn)' /\ gtp' = gtp
  BY <1>1, Zenon DEF IInv
<1>9. \A v \in Rntis \ {u} : Same(v)
  BY <1>1, <1>2, <1>6, Zenon DEF Same, TypeOK
<1>10. releasing'[u] => \A p \in Psis : amf'[u][p].state = "none"
  <2>1. releasing' = releasing
    BY <1>1, Zenon
  <2> QED BY <2>1, <1>4, <1>5 DEF IInv
<1>11. ASSUME clean'[u] /\ ~releasing'[u] PROVE Orderly(u)'
  <2>1. Orderly(u) /\ SettingUp(u)
    BY <1>1, <1>11, Zenon DEF IInv, Orderly, Idle, Releasing
  <2>2. \A i \in Slots :
            /\ pduSession'[u][i].psi = pduSession[u][i].psi
            /\ pduSession'[u][i].xid = NoXid
            /\ pduSession'[u][i].status =
                 IF pduSession[u][i].status = "new" THEN "new" ELSE "established"
    <3>1. \A i \in Slots : /\ pduSession[u][i].status \in {"new", "done", "established"}
                           /\ pduSession[u][i].status = "done" => i \in Below(u)
      BY <2>1, Zenon DEF SettingUp, Below
    <3>2. Answered("new") = "new" /\ Answered("done") = "established"
          /\ Answered("established") = "established"
      BY Zenon DEF Answered
    <3> QED BY <3>1, <3>2, <1>3, Zenon
  <2>3. Idle(u)'
    <3>1. PICK x \in 0..NXids - 1 : reconf[u] = <<x>>
      BY <2>1, Zenon DEF SettingUp
    <3>2. reconf'[u] = Tail(reconf[u])
      BY <1>1, <1>2, Zenon DEF TypeOK
    <3>3. reconf'[u] = <<>>
      BY <3>1, <3>2
    <3>4. ~release_flag'[u]
      BY <1>1, Zenon
    <3> QED BY <3>3, <3>4, <2>2, Zenon DEF Idle, Slots, NoXid
  <2>4. /\ gnb_gtp' = gnb_gtp
        /\ \A p \in Psis : /\ amf'[u][p].outgoing = amf[u][p].outgoing
                           /\ \/ amf'[u][p].state = amf[u][p].state
                              \/ (amf'[u][p].state = "up" /\ amf[u][p].state = "setup")
    <3>1. gnb_gtp' = gnb_gtp
      BY <1>1, Zenon
    <3>2. ASSUME NEW p \in Psis
          PROVE  /\ amf'[u][p].outgoing = amf[u][p].outgoing
                 /\ \/ amf'[u][p].state = amf[u][p].state
                    \/ (amf'[u][p].state = "up" /\ amf[u][p].state = "setup")
      BY <1>4, <1>5, Zenon
    <3> QED BY <3>1, <3>2, Zenon
  <2>5. ASSUME NEW i \in Slots PROVE Slot(u, i)'
    <3>1. Slot(u, i)
      BY <2>1, Zenon DEF Orderly
    <3> QED BY <3>1, <2>1, <2>2, <2>4, <1>8, ZenonT(60) DEF Slot, SettingUp
  <2>6. Distinct(u)'
    BY <2>1, <2>2, Zenon DEF Distinct, Orderly, Slots
  <2>7. ASSUME NEW p \in Psis, amf'[u][p].state = "up"
        PROVE  \E i \in Slots : /\ pduSession'[u][i].psi = p
                                /\ pduSession'[u][i].status = "established"
                                /\ amf'[u][p].teid = gnb_gtp'[u][i].teid
    <3>1. CASE Now(u, p)
      BY <3>1, FirstDone, <1>4, <2>2, <2>4
    <3>2. CASE ~Now(u, p)
      <4>1. amf'[u][p] = amf[u][p]
        BY <1>4, <3>2, Zenon
      <4> QED BY <4>1, <2>1, <2>2, <2>4, <2>7 DEF Orderly, UpSessions, Up
    <3> QED BY <3>1, <3>2, Zenon
  <2>8. UpSessions(u)'
    BY <2>7, Zenon DEF UpSessions, Up, Slots
  <2> QED BY <2>3, <2>5, <2>6, <2>8, Zenon DEF Orderly, Slots
<1> QED BY <1>7, <1>8, <1>9, <1>10, <1>11, OneUe, Zenon
-----------------------------------------------------------------------------
(* The release of sessions.                                                *)

(* setup_pdu_sessions is a uint8_t.                                        *)
LEMMA Count == ASSUME NEW a \in Int PROVE a % 256 \in 0..255
OBVIOUS

(* What release_response does to the tables: the slots of the transaction  *)
(* are free, the others lose their mark only, and the AMF is told.         *)
ToldOf(slots, rel, asked) == asked \union {slots[i].psi : i \in rel}
Freed(u, slots, rel, psis) ==
    /\ pduSession' \in [Rntis -> [Slots -> SlotRecord]]
    /\ gnb_gtp' \in [Rntis -> [Slots -> GtpRecord]]
    /\ amf' \in [Rntis -> [Psis -> AmfRecord]]
    /\ setup_pdu_sessions' \in [Rntis -> 0..255]
    /\ \A v \in Rntis \ {u} :
        /\ pduSession'[v] = pduSession[v] /\ gnb_gtp'[v] = gnb_gtp[v]
        /\ amf'[v] = amf[v] /\ setup_pdu_sessions'[v] = setup_pdu_sessions[v]
    /\ \A i \in Slots : i \in rel => pduSession'[u][i].status = "new"
                                     /\ pduSession'[u][i].psi = 0
    /\ \A i \in Slots : i \notin rel => /\ pduSession'[u][i].status = slots[i].status
                                        /\ pduSession'[u][i].psi = slots[i].psi
                                        /\ gnb_gtp'[u][i] = gnb_gtp[u][i]
    /\ \A i \in Slots : pduSession'[u][i].xid = NoXid
    /\ \A p \in Psis : amf'[u][p] = IF p \in psis THEN NoSession ELSE amf[u][p]

LEMMA ReleaseResponse ==
    ASSUME TypeOK, NEW u \in Rntis, NEW slots \in [Slots -> SlotRecord], NEW x,
           NEW rnti, NEW asked, release_response(u, slots, x, rnti, asked)
    PROVE  Freed(u, slots, OfTransaction(slots, x),
                 ToldOf(slots, OfTransaction(slots, x), asked))
<1> DEFINE rel == OfTransaction(slots, x)
           psis == ToldOf(slots, rel, asked)
           kept == [i \in Slots |-> IF i \in rel THEN FreeSlot ELSE slots[i]]
           table == Unmarked(kept)
           tunnels == [i \in Slots |-> IF i \in rel THEN NoTunnel ELSE gnb_gtp[u][i]]
           known == [p \in Psis |-> IF p \in psis THEN NoSession ELSE amf[u][p]]
           count == (setup_pdu_sessions[u] + 256 - Cardinality(rel)) % 256
<1>1. /\ pduSession' = [pduSession EXCEPT ![u] = table]
      /\ gnb_gtp' = [gnb_gtp EXCEPT ![u] = tunnels]
      /\ amf' = [amf EXCEPT ![u] = known]
      /\ setup_pdu_sessions' = [setup_pdu_sessions EXCEPT ![u] = count]
  BY Zenon DEF release_response, ToldOf
<1>2. FreeSlot \in SlotRecord /\ NoTunnel \in GtpRecord /\ NoSession \in AmfRecord
      /\ NoXid \in 0..NXids
  BY ConstantsAssumption DEF FreeSlot, NoTunnel, NoSession, SlotRecord, GtpRecord,
                             AmfRecord, NoXid, Statuses
<1>3. count \in 0..255
  <2>1. rel \subseteq 1..NSlots
    BY Zenon DEF OfTransaction, Slots
  <2>2. Cardinality(rel) \in Nat
    <3>1. 1 \in Int /\ NSlots \in Int
      BY ConstantsAssumption
    <3>2. IsFiniteSet(1..NSlots)
      BY <3>1, FS_Interval, Zenon
    <3>3. IsFiniteSet(rel)
      BY <2>1, <3>2, FS_Subset, Zenon
    <3> QED BY <3>3, FS_CardinalityType, Zenon
  <2>3. setup_pdu_sessions[u] \in 0..255
    BY RowTypes, Zenon
  <2>4. setup_pdu_sessions[u] + 256 - Cardinality(rel) \in Int
    BY <2>2, <2>3
  <2> QED BY <2>4, Count, Zenon
<1>4. kept \in [Slots -> SlotRecord]
  BY <1>2, Zenon
<1>5. ASSUME NEW i \in Slots
      PROVE  /\ table[i] \in SlotRecord /\ table[i].xid = NoXid
             /\ table[i].status = kept[i].status /\ table[i].psi = kept[i].psi
  <2>1. kept[i] \in SlotRecord
    BY <1>4, Zenon
  <2>2. table[i] = [kept[i] EXCEPT !.xid = NoXid]
    BY Zenon DEF Unmarked
  <2> HIDE DEF kept, table
  <2> QED BY <1>2, <2>1, <2>2, Zenon DEF SlotRecord
<1>6. table \in [Slots -> SlotRecord]
  <2>1. table = [i \in Slots |-> table[i]]
    BY Zenon DEF Unmarked
  <2> HIDE DEF table
  <2> QED BY <1>5, <2>1, Zenon
<1>7. tunnels \in [Slots -> GtpRecord] /\ known \in [Psis -> AmfRecord]
  BY <1>2, RowTypes, Zenon
<1>8. \A i \in Slots : /\ kept[i] = IF i \in rel THEN FreeSlot ELSE slots[i]
                       /\ tunnels[i] = IF i \in rel THEN NoTunnel ELSE gnb_gtp[u][i]
  BY Zenon
<1>9. \A p \in Psis : known[p] = IF p \in psis THEN NoSession ELSE amf[u][p]
  BY Zenon
<1>10. FreeSlot.status = "new" /\ FreeSlot.psi = 0
  BY Zenon DEF FreeSlot
<1> HIDE DEF kept, table, tunnels, known, count
<1>11. /\ pduSession \in [Rntis -> [Slots -> SlotRecord]]
       /\ gnb_gtp \in [Rntis -> [Slots -> GtpRecord]]
       /\ amf \in [Rntis -> [Psis -> AmfRecord]]
       /\ setup_pdu_sessions \in [Rntis -> 0..255]
  BY Zenon DEF TypeOK, SlotRecord, GtpRecord, AmfRecord
<1>12. /\ pduSession' \in [Rntis -> [Slots -> SlotRecord]] /\ pduSession'[u] = table
       /\ \A v \in Rntis \ {u} : pduSession'[v] = pduSession[v]
  BY <1>1, <1>6, <1>11, Row, ZenonT(60)
<1>13. /\ gnb_gtp' \in [Rntis -> [Slots -> GtpRecord]] /\ gnb_gtp'[u] = tunnels
       /\ \A v \in Rntis \ {u} : gnb_gtp'[v] = gnb_gtp[v]
  BY <1>1, <1>7, <1>11, Row, ZenonT(60)
<1>14. /\ amf' \in [Rntis -> [Psis -> AmfRecord]] /\ amf'[u] = known
       /\ \A v \in Rntis \ {u} : amf'[v] = amf[v]
  BY <1>1, <1>7, <1>11, Row, ZenonT(60)
<1>15. /\ setup_pdu_sessions' \in [Rntis -> 0..255]
       /\ \A v \in Rntis \ {u} : setup_pdu_sessions'[v] = setup_pdu_sessions[v]
  BY <1>1, <1>3, <1>11, Row, ZenonT(60)
<1>16. ASSUME NEW i \in Slots
       PROVE  /\ i \in rel => pduSession'[u][i].status = "new" /\ pduSession'[u][i].psi = 0
              /\ i \notin rel => /\ pduSession'[u][i].status = slots[i].status
                                 /\ pduSession'[u][i].psi = slots[i].psi
                                 /\ gnb_gtp'[u][i] = gnb_gtp[u][i]
              /\ pduSession'[u][i].xid = NoXid
  <2>1. pduSession'[u][i] = table[i] /\ gnb_gtp'[u][i] = tunnels[i]
    BY <1>12, <1>13, Zenon
  <2>2. CASE i \in rel
    BY <2>1, <2>2, <1>5, <1>8, <1>10, Zenon
  <2>3. CASE i \notin rel
    BY <2>1, <2>3, <1>5, <1>8, Zenon
  <2> QED BY <2>2, <2>3, Zenon
<1>17. \A p \in Psis : amf'[u][p] = IF p \in psis THEN NoSession ELSE amf[u][p]
  BY <1>9, <1>14, Zenon
<1> HIDE DEF rel, psis
<1>18. Freed(u, slots, rel, psis)
  BY <1>12, <1>13, <1>14, <1>15, <1>16, <1>17, Zenon DEF Freed
<1> QED BY <1>18, Zenon DEF rel, psis

LEMMA CompleteRelease == ASSUME IInv, NEW u \in Rntis, complete_release(u) PROVE IInv'
<1> DEFINE x == Head(reconf[u])
           asked == {p \in Psis : amf[u][p].state = "release"}
           rel == OfTransaction(pduSession[u], x)
           psis == ToldOf(pduSession[u], rel, asked)
<1>1. TypeOK /\ pduSession[u] \in [Slots -> SlotRecord] /\ IsFiniteSet(Psis)
  BY ConstantsAssumption, Zenon DEF IInv, TypeOK, SlotRecord
<1>2. /\ reconf[u] # <<>> /\ release_flag[u]
      /\ release_response(u, pduSession[u], x, 0, asked)
      /\ release_flag' = [release_flag EXCEPT ![u] = FALSE]
      /\ reconf' = [reconf EXCEPT ![u] = Tail(reconf[u])]
      /\ UNCHANGED <<xid, nb_of_pdusessions, releasing, drawn, retries, clean>>
  BY Zenon DEF complete_release
<1>3. gtp' = newGtpuDeleteTunnels(gtp, 0, {gnb_gtp[u][i].psi : i \in rel})
  BY <1>2, Zenon DEF release_response
<1>4. /\ Agree(gtp, drawn)'
      /\ \A v \in Rntis : \A q, t, o : Routed(gtp, v, q, t, o) => Routed(gtp', v, q, t, o)
  <2>1. Agree(gtp', drawn) /\ \A v, q, t, o :
            Routed(gtp, v, q, t, o) /\ ~(v = 0 /\ q \in {gnb_gtp[u][i].psi : i \in rel})
                => Routed(gtp', v, q, t, o)
    BY <1>3, DeleteTunnels DEF IInv
  <2> QED BY <2>1, <1>2, ConstantsAssumption, Zenon
<1> HIDE DEF x, asked, rel, psis
<1>5. Freed(u, pduSession[u], rel, psis)
  BY <1>1, <1>2, ReleaseResponse, Zenon DEF rel, psis
<1>6. /\ \A i \in Slots : i \in rel => pduSession'[u][i].status = "new"
                                       /\ pduSession'[u][i].psi = 0
      /\ \A i \in Slots : i \notin rel =>
            /\ pduSession'[u][i].status = pduSession[u][i].status
            /\ pduSession'[u][i].psi = pduSession[u][i].psi
            /\ gnb_gtp'[u][i] = gnb_gtp[u][i]
      /\ \A i \in Slots : pduSession'[u][i].xid = NoXid
      /\ \A p \in Psis : amf'[u][p] = IF p \in psis THEN NoSession ELSE amf[u][p]
  BY <1>5, Zenon DEF Freed
<1>7. TypeOK'
  <2>1. Tail(reconf[u]) \in Seq(0..NXids - 1)
    BY <1>1, <1>2, TailXids, Zenon DEF TypeOK
  <2>2. reconf' \in [Rntis -> Seq(0..NXids - 1)]
    BY <2>1, <1>1, <1>2, Zenon DEF TypeOK
  <2>3. DOMAIN gtp'.te2ue \subseteq 1..drawn'
    BY <1>4, Zenon DEF Agree
  <2>4. release_flag' \in [Rntis -> BOOLEAN]
    BY <1>1, <1>2, Zenon DEF TypeOK
  <2> QED BY <2>2, <2>3, <2>4, <1>1, <1>2, <1>5, Zenon DEF Freed, TypeOK, SlotRecord, GtpRecord, AmfRecord
<1>8. \A v \in Rntis \ {u} : Same(v)
  BY <1>1, <1>2, <1>5, ZenonT(60) DEF Freed, Same, TypeOK
<1>9. releasing'[u] => \A p \in Psis : amf'[u][p].state = "none"
  <2>1. NoSession.state = "none"
    BY Zenon DEF NoSession
  <2> QED BY <2>1, <1>2, <1>6 DEF IInv
<1>10. ASSUME clean'[u] /\ ~releasing'[u] PROVE Orderly(u)'
  <2>1. Orderly(u) /\ Releasing(u)
    BY <1>2, <1>10, Zenon DEF IInv, Orderly, Idle, SettingUp
  <2>2. reconf[u] = <<x>>
    BY <2>1 DEF Releasing, x
  <2>3. \A i \in Slots : /\ pduSession[u][i].status \in {"new", "established", "torelease"}
                         /\ i \in rel <=> pduSession[u][i].status = "torelease"
    BY <2>1, <2>2 DEF Releasing, rel, OfTransaction
  <2>4. Idle(u)'
    <3>1. reconf'[u] = <<>> /\ ~release_flag'[u]
      BY <1>1, <1>2, <2>2 DEF TypeOK
    <3> QED BY <3>1, <2>3, <1>6, Zenon DEF Idle, Slots, NoXid
  <2>5. \A i \in Slots : Slot(u, i) /\ Distinct(u)
    BY <2>1, Zenon DEF Orderly
  <2>6. ASSUME NEW i \in Slots, pduSession[u][i].status = "established"
        PROVE  pduSession[u][i].psi \in Psis /\ pduSession[u][i].psi \notin psis
    <3>1. pduSession[u][i].psi \in Psis /\ pduSession[u][i].psi \notin asked
      BY <2>5, <2>6, Zenon DEF Slot, asked
    <3>2. ASSUME NEW j \in rel, pduSession[u][j].psi = pduSession[u][i].psi PROVE FALSE
      <4>1. j \in Slots /\ pduSession[u][j].status = "torelease"
        BY <2>3, Zenon DEF rel, OfTransaction
      <4> QED BY <4>1, <3>2, <2>5, <2>6, Zenon DEF Distinct
    <3> QED BY <3>1, <3>2, Zenon DEF psis, ToldOf
  <2>7. ASSUME NEW i \in Slots PROVE Slot(u, i)'
    <3>1. CASE pduSession[u][i].status = "established"
      <4>1. amf'[u][pduSession[u][i].psi] = amf[u][pduSession[u][i].psi]
        BY <2>6, <3>1, <1>6, Zenon
      <4>2. i \notin rel
        BY <2>3, <3>1, Zenon
      <4>3. Slot(u, i)
        BY <2>5, Zenon
      <4> QED BY <3>1, <4>1, <4>2, <4>3, <1>4, <1>6, Zenon DEF Slot
    <3>2. CASE pduSession[u][i].status # "established"
      BY <3>2, <2>3, <2>5, <1>6, Zenon DEF Slot
    <3> QED BY <3>1, <3>2, Zenon
  <2>8. Distinct(u)'
    <3>1. ASSUME NEW i \in Slots, NEW j \in Slots,
                 pduSession'[u][i].psi = pduSession'[u][j].psi,
                 pduSession'[u][i].status # "new"
          PROVE  i = j
      <4>1. i \notin rel
        BY <3>1, <1>6, Zenon
      <4>2. pduSession[u][i].psi \in Psis /\ pduSession[u][i].status # "new"
        BY <4>1, <3>1, <1>6, <2>5, Zenon DEF Slot
      <4>3. j \notin rel
        BY <4>1, <4>2, <3>1, <1>6, ConstantsAssumption, ZenonT(60)
      <4> QED BY <4>1, <4>2, <4>3, <3>1, <1>6, <2>5, ZenonT(60) DEF Distinct
    <3> QED BY <3>1, Zenon DEF Distinct, Slots
  <2>9. UpSessions(u)'
    <3>1. ASSUME NEW p \in Psis, amf'[u][p].state = "up"
          PROVE  \E i \in Slots : /\ pduSession'[u][i].psi = p
                                  /\ pduSession'[u][i].status = "established"
                                  /\ amf'[u][p].teid = gnb_gtp'[u][i].teid
      <4>1. NoSession.state = "none"
        BY Zenon DEF NoSession
      <4>2. amf'[u][p] = amf[u][p]
        BY <4>1, <3>1, <1>6, Zenon
      <4>3. PICK i \in Slots : /\ pduSession[u][i].psi = p
                               /\ pduSession[u][i].status = "established"
                               /\ amf[u][p].teid = gnb_gtp[u][i].teid
        BY <4>2, <3>1, <2>1, SMTT(60) DEF Orderly, UpSessions, Up
      <4> QED BY <4>2, <4>3, <2>3, <1>6, ZenonT(60)
    <3> QED BY <3>1, Zenon DEF UpSessions, Up, Slots
  <2> QED BY <2>4, <2>7, <2>8, <2>9, Zenon DEF Orderly, Slots
<1> QED BY <1>4, <1>7, <1>8, <1>9, <1>10, OneUe, Zenon

(* What a release command marks in the table of an idle UE: the slots of   *)
(* its sessions that are established.                                      *)
LEMMA MarkedTypes ==
    ASSUME TypeOK, NEW u \in Rntis, NEW req
    PROVE  /\ Marked(u, req) \in [Slots -> SlotRecord]
           /\ \A i \in Slots : Marked(u, req)[i].psi = pduSession[u][i].psi
           /\ \A i \in SlotsOf(u, req, "established") :
                /\ i \in Slots /\ pduSession[u][i].psi \in req
                /\ pduSession[u][i].status = "established"
                /\ Marked(u, req)[i].status = "torelease"
                /\ Marked(u, req)[i].xid = next_xid
           /\ \A i \in Slots : i \notin SlotsOf(u, req, "established")
                               /\ pduSession[u][i].status # "failed" =>
                /\ Marked(u, req)[i] = pduSession[u][i]
<1> DEFINE est == SlotsOf(u, req, "established")
           fail == SlotsOf(u, req, "failed")
<1>1. next_xid \in 0..NXids /\ "torelease" \in Statuses
  BY NextXid, ConstantsAssumption DEF Statuses
<1>2. \A i \in est : /\ i \in Slots /\ pduSession[u][i].psi \in req
                     /\ pduSession[u][i].status = "established"
  BY Zenon DEF SlotsOf
<1>3. \A i \in fail : pduSession[u][i].status = "failed"
  BY Zenon DEF SlotsOf
<1>4. ASSUME NEW i \in Slots
      PROVE  Marked(u, req)[i] = IF i \in est
                THEN [pduSession[u][i] EXCEPT !.status = "torelease", !.xid = next_xid]
                ELSE IF i \in fail THEN [pduSession[u][i] EXCEPT !.xid = next_xid]
                ELSE pduSession[u][i]
  BY Zenon DEF Marked
<1>5. Marked(u, req) = [i \in Slots |-> Marked(u, req)[i]]
  BY Zenon DEF Marked
<1> HIDE DEF est, fail
<1>6. ASSUME NEW i \in Slots
      PROVE  /\ Marked(u, req)[i] \in SlotRecord
             /\ Marked(u, req)[i].psi = pduSession[u][i].psi
             /\ i \in est => /\ Marked(u, req)[i].status = "torelease"
                             /\ Marked(u, req)[i].xid = next_xid
             /\ i \notin est /\ pduSession[u][i].status # "failed" =>
                    Marked(u, req)[i] = pduSession[u][i]
  <2>1. pduSession[u][i] \in SlotRecord
    BY RowTypes, Zenon
  <2> QED BY <2>1, <1>1, <1>3, <1>4, Zenon DEF SlotRecord
<1>7. Marked(u, req) \in [Slots -> SlotRecord]
  BY <1>5, <1>6, Zenon
<1> QED BY <1>2, <1>6, <1>7, Zenon DEF est

(* The slots of a clean UE in which the sessions of a command are          *)
(* established are the ones the command finds.                             *)
LEMMA FoundSlots ==
    ASSUME NEW u \in Rntis, Distinct(u), NEW req, NEW i \in Slots,
           pduSession[u][i].psi \in req, pduSession[u][i].status = "established"
    PROVE  i \in SlotsOf(u, req, "established")
<1>1. ASSUME NEW j \in 1..i - 1, pduSession[u][j].psi = pduSession[u][i].psi PROVE FALSE
  <2>1. j \in Slots /\ j # i
    BY <1>1, ConstantsAssumption DEF Slots
  <2> QED BY <1>1, <2>1, Zenon DEF Distinct
<1> QED BY <1>1, Zenon DEF SlotsOf

LEMMA ReleaseEstablished ==
    ASSUME IInv, NEW u \in Rntis, NEW req, release_established(u, req)
    PROVE  IInv'
<1> DEFINE est == SlotsOf(u, req, "established")
           known == [p \in Psis |-> IF p \in req
                        THEN [amf[u][p] EXCEPT !.state = "release"] ELSE amf[u][p]]
<1>1. TypeOK /\ next_xid \in 0..NXids - 1 /\ next_xid # NoXid
  BY NextXid, Zenon DEF IInv
<1>2. /\ ~releasing[u] /\ \A p \in req : amf[u][p].state # "none"
      /\ xid' = next_xid
      /\ clean' = [clean EXCEPT ![u] = @ /\ reconf[u] = <<>>]
      /\ pduSession' = [pduSession EXCEPT ![u] = Marked(u, req)]
      /\ release_flag' = [release_flag EXCEPT ![u] = TRUE]
      /\ reconf' = [reconf EXCEPT ![u] = Append(reconf[u], next_xid)]
      /\ amf' = [amf EXCEPT ![u] = known]
      /\ UNCHANGED <<gnb_gtp, setup_pdu_sessions, nb_of_pdusessions, releasing, gtp, drawn>>
  BY Zenon DEF release_established, ReleaseCommand
<1>3. ASSUME NEW p \in Psis
      PROVE  /\ known[p] \in AmfRecord /\ known[p].outgoing = amf[u][p].outgoing
             /\ p \in req => known[p].state = "release"
             /\ p \notin req => known[p] = amf[u][p]
  <2>1. known[p] = IF p \in req THEN [amf[u][p] EXCEPT !.state = "release"] ELSE amf[u][p]
    BY Zenon
  <2>2. amf[u][p] \in AmfRecord
    BY <1>1, RowTypes, Zenon
  <2> HIDE DEF known
  <2> QED BY <2>1, <2>2, Zenon DEF AmfRecord
<1>4. known \in [Psis -> AmfRecord]
  <2>1. known = [p \in Psis |-> known[p]]
    BY Zenon
  <2> HIDE DEF known
  <2> QED BY <2>1, <1>3, Zenon
<1> HIDE DEF known, est
<1>5. /\ pduSession' \in [Rntis -> [Slots -> SlotRecord]] /\ pduSession'[u] = Marked(u, req)
      /\ \A v \in Rntis \ {u} : pduSession'[v] = pduSession[v]
  <2>1. Marked(u, req) \in [Slots -> SlotRecord]
    BY <1>1, MarkedTypes, Zenon
  <2>2. pduSession \in [Rntis -> [Slots -> SlotRecord]]
    BY <1>1, Zenon DEF TypeOK, SlotRecord
  <2> QED BY <2>1, <2>2, <1>2, Row, Zenon
<1>6. /\ amf' \in [Rntis -> [Psis -> AmfRecord]] /\ amf'[u] = known
      /\ \A v \in Rntis \ {u} : amf'[v] = amf[v]
  BY <1>1, <1>2, <1>4, Row, SMTT(60) DEF TypeOK, AmfRecord
<1>7. /\ reconf' \in [Rntis -> Seq(0..NXids - 1)] /\ reconf'[u] = Append(reconf[u], next_xid)
      /\ \A v \in Rntis \ {u} : reconf'[v] = reconf[v]
  <2>1. Append(reconf[u], next_xid) \in Seq(0..NXids - 1)
    <3>1. reconf[u] \in Seq(0..NXids - 1)
      BY <1>1, Zenon DEF TypeOK
    <3> QED BY <3>1, <1>1, AppendXids, Zenon
  <2> QED BY <2>1, <1>1, <1>2, Row, SMTT(60) DEF TypeOK
<1>8. /\ clean' \in [Rntis -> BOOLEAN] /\ (clean'[u] => clean[u] /\ reconf[u] = <<>>)
      /\ \A v \in Rntis \ {u} : clean'[v] = clean[v]
  BY <1>1, <1>2, Zenon DEF TypeOK
<1>9. /\ release_flag' \in [Rntis -> BOOLEAN] /\ release_flag'[u]
      /\ \A v \in Rntis \ {u} : release_flag'[v] = release_flag[v]
  BY <1>1, <1>2, Zenon DEF TypeOK
<1>10. TypeOK'
  BY <1>1, <1>2, <1>5, <1>6, <1>7, <1>8, <1>9, Zenon DEF TypeOK, SlotRecord, AmfRecord
<1>11. \A v \in Rntis \ {u} : Same(v)
  BY <1>2, <1>5, <1>6, <1>7, <1>8, <1>9, Zenon DEF Same
<1>12. Agree(gtp, drawn)' /\ gtp' = gtp /\ ~releasing'[u] /\ gnb_gtp' = gnb_gtp
  BY <1>2, Zenon DEF IInv
<1>13. ASSUME clean'[u] PROVE Orderly(u)'
  <2>1. Orderly(u) /\ Idle(u)
    <3>1. Orderly(u) /\ reconf[u] = <<>>
      BY <1>2, <1>8, <1>13, Zenon DEF IInv
    <3>2. \A y : <<y>> # <<>>
      BY Zenon
    <3> QED BY <3>1, <3>2, Zenon DEF Orderly, SettingUp, Releasing
  <2>2. \A i \in Slots : /\ pduSession'[u][i].psi = pduSession[u][i].psi
                         /\ i \in est => /\ pduSession[u][i].status = "established"
                                         /\ pduSession[u][i].psi \in req
                                         /\ pduSession'[u][i].status = "torelease"
                                         /\ pduSession'[u][i].xid = next_xid
                         /\ i \notin est => pduSession'[u][i] = pduSession[u][i]
    BY <2>1, <1>1, <1>5, MarkedTypes DEF Idle, est
  <2>3. \A i \in Slots : pduSession[u][i].status = "established" /\ i \notin est
                         => pduSession[u][i].psi \notin req
    BY <2>1, FoundSlots, Zenon DEF Orderly, est
  <2>4. Releasing(u)'
    <3>1. reconf'[u] = <<next_xid>>
      BY <1>7, <2>1 DEF Idle
    <3>2. \A i \in Slots :
            /\ pduSession'[u][i].status \in {"new", "established", "torelease"}
            /\ pduSession'[u][i].xid = next_xid <=> pduSession'[u][i].status = "torelease"
      BY <1>1, <2>1, <2>2, Zenon DEF Idle
    <3> QED BY <3>1, <3>2, <1>1, <1>9, Zenon DEF Releasing, Slots
  <2>5. ASSUME NEW i \in Slots PROVE Slot(u, i)'
    <3>1. Slot(u, i)
      BY <2>1, Zenon DEF Orderly
    <3>2. CASE pduSession[u][i].status = "new"
      <4>1. pduSession'[u][i] = pduSession[u][i]
        BY <2>2, <3>2, Zenon
      <4> QED BY <4>1, <3>1, <3>2, Zenon DEF Slot
    <3>3. CASE pduSession[u][i].status # "new"
      <4> DEFINE p == pduSession[u][i].psi
      <4>1. /\ p \in Psis /\ amf[u][p].state # "none" /\ amf[u][p].state # "release"
            /\ gnb_gtp[u][i].psi = p
            /\ Routed(gtp, u, p, gnb_gtp[u][i].teid, amf[u][p].outgoing)
            /\ pduSession[u][i].status = "established"
        BY <3>1, <3>3, <2>1, Zenon DEF Slot, Idle
      <4>2. /\ amf'[u][p].outgoing = amf[u][p].outgoing /\ amf'[u][p].state # "none"
            /\ i \notin est => amf'[u][p].state # "release"
        BY <4>1, <2>3, <1>3, <1>6, Zenon
      <4>3. pduSession'[u][i].psi = p /\ pduSession'[u][i].status # "new"
            /\ (i \in est => pduSession'[u][i].status = "torelease")
        BY <4>1, <2>2, Zenon
      <4> HIDE DEF p
      <4> QED BY <4>1, <4>2, <4>3, <1>12, Zenon DEF Slot
    <3> QED BY <3>2, <3>3, Zenon
  <2>6. Distinct(u)'
    BY <2>1, <2>2, ZenonT(60) DEF Orderly, Distinct, Slots
  <2>7. UpSessions(u)'
    <3>1. ASSUME NEW p \in Psis, amf'[u][p].state = "up"
          PROVE  \E i \in Slots : /\ pduSession'[u][i].psi = p
                                  /\ pduSession'[u][i].status = "established"
                                  /\ amf'[u][p].teid = gnb_gtp'[u][i].teid
      <4>1. p \notin req /\ amf'[u][p] = amf[u][p]
        BY <3>1, <1>3, <1>6, Zenon
      <4>2. PICK i \in Slots : /\ pduSession[u][i].psi = p
                               /\ pduSession[u][i].status = "established"
                               /\ amf[u][p].teid = gnb_gtp[u][i].teid
        BY <4>1, <3>1, <2>1 DEF Orderly, UpSessions, Up
      <4> QED BY <4>1, <4>2, <2>2, <1>12, Zenon
    <3> QED BY <3>1, Zenon DEF UpSessions, Up, Slots
  <2> QED BY <2>4, <2>5, <2>6, <2>7, Zenon DEF Orderly, Slots
<1> QED BY <1>10, <1>11, <1>12, <1>13, OneUe, Zenon

LEMMA ReleaseOther ==
    ASSUME IInv, NEW u \in Rntis, NEW req, release_other(u, req)
    PROVE  IInv'
<1> DEFINE slots == Marked(u, req)
           rel == OfTransaction(slots, next_xid)
           psis == ToldOf(slots, rel, req)
<1>1. TypeOK /\ next_xid \in 0..NXids - 1 /\ next_xid # NoXid
  BY NextXid, Zenon DEF IInv
<1>2. /\ ~releasing[u] /\ \A p \in req : amf[u][p].state # "none"
      /\ xid' = next_xid
      /\ clean' = [clean EXCEPT ![u] = @ /\ reconf[u] = <<>>]
      /\ SlotsOf(u, req, "established") = {}
      /\ release_response(u, slots, next_xid, u, req)
      /\ UNCHANGED <<nb_of_pdusessions, release_flag, releasing, reconf, drawn>>
  BY Zenon DEF release_other, ReleaseCommand
<1>3. gtp' = newGtpuDeleteTunnels(gtp, u, {gnb_gtp[u][i].psi : i \in rel})
  BY <1>2, Zenon DEF release_response
<1>4. Agree(gtp', drawn) /\ \A v, q, t, o :
            Routed(gtp, v, q, t, o) /\ ~(v = u /\ q \in {gnb_gtp[u][i].psi : i \in rel})
                => Routed(gtp', v, q, t, o)
  BY <1>3, DeleteTunnels, SMTT(60) DEF IInv
<1>5. slots \in [Slots -> SlotRecord]
  BY <1>1, MarkedTypes, Zenon
<1>6. Freed(u, slots, rel, psis)
  BY <1>1, <1>2, <1>5, ReleaseResponse, Zenon
<1>7. /\ clean' \in [Rntis -> BOOLEAN] /\ (clean'[u] => clean[u] /\ reconf[u] = <<>>)
      /\ \A v \in Rntis \ {u} : clean'[v] = clean[v]
  BY <1>1, <1>2, Zenon DEF TypeOK
<1>8. TypeOK'
  <2>1. DOMAIN gtp'.te2ue \subseteq 1..drawn'
    BY <1>2, <1>4, Zenon DEF Agree
  <2> HIDE DEF slots, rel, psis
  <2> QED BY <2>1, <1>1, <1>2, <1>6, <1>7, Zenon DEF Freed, TypeOK, SlotRecord, GtpRecord, AmfRecord
<1>9. \A v \in Rntis \ {u} : Same(v)
  <2> HIDE DEF slots, rel, psis
  <2> QED BY <1>2, <1>6, <1>7, Zenon DEF Freed, Same
<1>10. Agree(gtp, drawn)' /\ ~releasing'[u]
  BY <1>2, <1>4, Zenon
<1>11. ASSUME clean'[u] PROVE Orderly(u)'
  <2>1. Orderly(u) /\ Idle(u)
    <3>1. Orderly(u) /\ reconf[u] = <<>>
      BY <1>2, <1>7, <1>11, Zenon DEF IInv
    <3>2. \A y : <<y>> # <<>>
      BY Zenon
    <3> QED BY <3>1, <3>2, Zenon DEF Orderly, SettingUp, Releasing
  <2>2. \A i \in Slots : slots[i] = pduSession[u][i]
    <3>1. \A i \in Slots : pduSession[u][i].status # "failed"
      BY <2>1, Zenon DEF Idle
    <3> QED BY <3>1, <1>1, <1>2, MarkedTypes, SMTT(60)
  <2>3. \A i \in Slots : pduSession[u][i].status = "established"
                         => pduSession[u][i].psi \notin req
    <3>1. Distinct(u)
      BY <2>1, Zenon DEF Orderly
    <3> QED BY <3>1, <1>2, FoundSlots, Zenon
  <2> HIDE DEF slots
  <2>4. rel = {}
    BY <2>1, <2>2, <1>1, Zenon DEF Idle, OfTransaction
  <2>5. psis = req
    BY <2>4, Zenon DEF ToldOf
  <2>6. \A q, t, o : Routed(gtp, u, q, t, o) => Routed(gtp', u, q, t, o)
    BY <2>4, <1>4, Zenon
  <2> HIDE DEF rel, psis
  <2>7. \A i \in Slots : /\ pduSession'[u][i].status = pduSession[u][i].status
                         /\ pduSession'[u][i].psi = pduSession[u][i].psi
                         /\ pduSession'[u][i].xid = NoXid
                         /\ gnb_gtp'[u][i] = gnb_gtp[u][i]
    BY <2>2, <2>4, <1>6, ZenonT(60) DEF Freed
  <2>8. \A p \in Psis : amf'[u][p] = IF p \in req THEN NoSession ELSE amf[u][p]
    BY <2>5, <1>6, Zenon DEF Freed
  <2>9. Idle(u)'
    BY <2>1, <2>7, <1>2, Zenon DEF Idle, Slots, NoXid
  <2>10. ASSUME NEW i \in Slots PROVE Slot(u, i)'
    <3>1. Slot(u, i)
      BY <2>1, Zenon DEF Orderly
    <3>2. CASE pduSession[u][i].status = "new"
      BY <2>7, <3>1, <3>2, Zenon DEF Slot
    <3>3. CASE pduSession[u][i].status # "new"
      <4> DEFINE p == pduSession[u][i].psi
      <4>1. /\ p \in Psis /\ amf[u][p].state # "none" /\ amf[u][p].state # "release"
            /\ gnb_gtp[u][i].psi = p /\ p \notin req
            /\ Routed(gtp, u, p, gnb_gtp[u][i].teid, amf[u][p].outgoing)
        BY <3>1, <3>3, <2>1, <2>3, Zenon DEF Slot, Idle
      <4>2. amf'[u][p] = amf[u][p]
        BY <4>1, <2>8, Zenon
      <4>3. pduSession'[u][i].psi = p
        BY <2>7, Zenon
      <4> HIDE DEF p
      <4> QED BY <4>1, <4>2, <4>3, <2>6, <2>7, <3>3, ZenonT(60) DEF Slot
    <3> QED BY <3>2, <3>3, Zenon
  <2>11. Distinct(u)'
    BY <2>1, <2>7, Zenon DEF Orderly, Distinct, Slots
  <2>12. UpSessions(u)'
    <3>1. ASSUME NEW p \in Psis, amf'[u][p].state = "up"
          PROVE  \E i \in Slots : /\ pduSession'[u][i].psi = p
                                  /\ pduSession'[u][i].status = "established"
                                  /\ amf'[u][p].teid = gnb_gtp'[u][i].teid
      <4>1. NoSession.state = "none"
        BY Zenon DEF NoSession
      <4>2. amf'[u][p] = amf[u][p]
        BY <4>1, <3>1, <2>8, Zenon
      <4>3. PICK i \in Slots : /\ pduSession[u][i].psi = p
                               /\ pduSession[u][i].status = "established"
                               /\ amf[u][p].teid = gnb_gtp[u][i].teid
        BY <4>2, <3>1, <2>1, SMTT(60) DEF Orderly, UpSessions, Up
      <4> QED BY <4>2, <4>3, <2>7, Zenon
    <3> QED BY <3>1, Zenon DEF UpSessions, Up, Slots
  <2> QED BY <2>9, <2>10, <2>11, <2>12, Zenon DEF Orderly, Slots
<1>12. \A v \in Rntis \ {u} : \A q, t, o : Routed(gtp, v, q, t, o) => Routed(gtp', v, q, t, o)
  BY <1>4, Zenon
<1> QED BY <1>8, <1>9, <1>10, <1>11, <1>12, OneUe, Zenon
-----------------------------------------------------------------------------

(* The setup of sessions.                                                  *)

(* The slots and TEIDs of a request: each session has a slot and a TEID of *)
(* its own.                                                                *)
LEMMA SlotKeys ==
    ASSUME NEW req, NEW new, NEW slot \in Bijection(req, new)
    PROVE  /\ slot \in [req -> new] /\ DOMAIN slot = req
           /\ \A p, q \in req : slot[p] = slot[q] => p = q
           /\ \A i \in new : KeyOf(slot, i) \in req /\ slot[KeyOf(slot, i)] = i
<1>1. /\ slot \in [req -> new] /\ \A i \in new : \E p \in req : slot[p] = i
      /\ IsInjective(slot)
  BY Zenon DEF Bijection, Injection, Surjection
<1>2. DOMAIN slot = req
  BY <1>1, Zenon
<1>3. \A p, q \in req : slot[p] = slot[q] => p = q
  BY <1>1, <1>2, Zenon DEF IsInjective
<1>4. \A i \in new : KeyOf(slot, i) \in req /\ slot[KeyOf(slot, i)] = i
  BY <1>1, <1>2, Zenon DEF KeyOf
<1> QED BY <1>1, <1>2, <1>3, <1>4, Zenon

LEMMA TeidKeys ==
    ASSUME NEW req, NEW slot, DOMAIN slot = req, \A p \in req : slot[p] \in Int,
           \A p, q \in req : slot[p] = slot[q] => p = q, drawn \in Nat,
           NEW teid \in NewTeids(slot), Cardinality(req) \in Nat
    PROVE  /\ teid \in [req -> drawn + 1..drawn + Cardinality(req)]
           /\ \A p, q \in req : teid[p] = teid[q] => p = q
<1>1. /\ teid \in [req -> drawn + 1..drawn + Cardinality(req)]
      /\ \A p, q \in req : slot[p] < slot[q] => teid[p] < teid[q]
  BY Zenon DEF NewTeids
<1>2. ASSUME NEW p \in req, NEW q \in req, teid[p] = teid[q] PROVE p = q
  <2>1. teid[p] \in Int /\ teid[q] \in Int
    BY <1>1
  <2>2. ~(slot[p] < slot[q]) /\ ~(slot[q] < slot[p])
    BY <1>1, <1>2, <2>1
  <2>3. slot[p] = slot[q]
    BY <2>2
  <2> QED BY <2>3, Zenon
<1> QED BY <1>1, <1>2, Zenon

(* The size of a request.                                                  *)
LEMMA RequestSize ==
    ASSUME NEW req \in SUBSET Psis, req # {}
    PROVE  Cardinality(req) \in Nat /\ Cardinality(req) > 0
           /\ Cardinality(req) \in 0..Cardinality(Psis)
<1>1. IsFiniteSet(Psis) /\ IsFiniteSet(req) /\ Cardinality(req) <= Cardinality(Psis)
  BY ConstantsAssumption, FS_Subset, Zenon
<1>2. Cardinality(Psis) \in Nat /\ Cardinality(req) \in Nat
  BY <1>1, FS_CardinalityType, Zenon
<1>3. Cardinality(req) # 0
  BY <1>1, FS_EmptySet, Zenon
<1> QED BY <1>1, <1>2, <1>3

(* The table of a request: its slots have its sessions, and every new slot *)
(* below the count is done.                                                *)
SetupTable(u, new, slot, count) ==
    Configured([i \in Slots |-> IF i \in new
                    THEN [pduSession[u][i] EXCEPT !.psi = KeyOf(slot, i)]
                    ELSE pduSession[u][i]], count, next_xid)

IsSetupTable(table, u, new, slot, count) ==
    /\ table \in [Slots -> SlotRecord]
    /\ \A i \in Slots :
        /\ table[i].psi = IF i \in new THEN KeyOf(slot, i) ELSE pduSession[u][i].psi
        /\ table[i].status = IF i <= count /\ pduSession[u][i].status = "new"
                             THEN "done" ELSE pduSession[u][i].status

LEMMA ConfiguredTypes ==
    ASSUME TypeOK, NEW u \in Rntis, NEW new, NEW slot, NEW count,
           \A i \in new : KeyOf(slot, i) \in Psis
    PROVE  IsSetupTable(SetupTable(u, new, slot, count), u, new, slot, count)
<1> DEFINE table == SetupTable(u, new, slot, count)
<1> DEFINE taken == [i \in Slots |-> IF i \in new
                        THEN [pduSession[u][i] EXCEPT !.psi = KeyOf(slot, i)]
                        ELSE pduSession[u][i]]
<1>1. next_xid \in 0..NXids /\ "done" \in Statuses
  BY NextXid, ConstantsAssumption DEF Statuses
<1>2. ASSUME NEW i \in Slots
      PROVE  /\ taken[i] \in SlotRecord /\ taken[i].status = pduSession[u][i].status
             /\ taken[i].psi = IF i \in new THEN KeyOf(slot, i) ELSE pduSession[u][i].psi
  <2>1. pduSession[u][i] \in SlotRecord
    BY RowTypes, Zenon
  <2>2. taken[i] = IF i \in new THEN [pduSession[u][i] EXCEPT !.psi = KeyOf(slot, i)]
                                ELSE pduSession[u][i]
    BY Zenon
  <2> HIDE DEF taken
  <2> QED BY <2>1, <2>2, Zenon DEF SlotRecord
<1>3. table = Configured(taken, count, next_xid)
  BY Zenon DEF SetupTable
<1> HIDE DEF taken, table
<1>4. ASSUME NEW i \in Slots
      PROVE  table[i] = IF i <= count /\ taken[i].status = "new"
                        THEN [taken[i] EXCEPT !.status = "done", !.xid = next_xid]
                        ELSE taken[i]
  BY <1>3, Zenon DEF Configured
<1>5. ASSUME NEW i \in Slots
      PROVE  /\ table[i] \in SlotRecord /\ table[i].psi = taken[i].psi
             /\ table[i].status = IF i <= count /\ taken[i].status = "new"
                                  THEN "done" ELSE taken[i].status
  BY <1>1, <1>2, <1>4, ZenonT(60) DEF SlotRecord
<1>6. table = [i \in Slots |-> table[i]]
  BY <1>3, Zenon DEF Configured
<1>7. table \in [Slots -> SlotRecord]
  BY <1>5, <1>6, Zenon
<1>8. IsSetupTable(table, u, new, slot, count)
  BY <1>2, <1>5, <1>7, Zenon DEF IsSetupTable
<1> QED BY <1>8, Zenon DEF table

LEMMA SetupRequest ==
    ASSUME IInv, NEW u \in Rntis, NEW req \in (SUBSET Psis) \ {{}}, setup_request(u, req)
    PROVE  IInv'
<1> DEFINE n == Cardinality(req)
           new == FirstNew(u, n)
           count == (setup_pdu_sessions[u] + n) % 256
<1>1. TypeOK /\ next_xid \in 0..NXids - 1 /\ n \in Nat /\ n > 0
      /\ n \in 0..Cardinality(Psis) /\ drawn \in Nat /\ MaxTeid \in Nat
      /\ req \subseteq Psis /\ 0 \notin Psis
  <2>1. TypeOK /\ next_xid \in 0..NXids - 1
    BY NextXid, Zenon DEF IInv
  <2>2. n \in Nat /\ n > 0 /\ n \in 0..Cardinality(Psis)
    BY RequestSize, Zenon
  <2>3. drawn \in Nat /\ MaxTeid \in Nat
    BY <2>1, ConstantsAssumption DEF TypeOK
  <2> HIDE DEF n
  <2> QED BY <2>1, <2>2, <2>3, ConstantsAssumption, Zenon
<1>2. /\ ~releasing[u] /\ \A p \in req : amf[u][p].state = "none"
      /\ drawn + n <= MaxTeid /\ drawn' = drawn + n
      /\ nb_of_pdusessions' = [nb_of_pdusessions EXCEPT ![u] = n]
      /\ setup_pdu_sessions' = [setup_pdu_sessions EXCEPT ![u] = count]
      /\ xid' = next_xid
      /\ reconf' = [reconf EXCEPT ![u] = Append(reconf[u], next_xid)]
      /\ UNCHANGED <<release_flag, releasing, retries>>
  BY Zenon DEF setup_request
<1>3. clean' = [clean EXCEPT ![u] = /\ @ /\ reconf[u] = <<>>
                                    /\ new = {i \in NewSlots(u) : i <= count}]
  BY Zenon DEF setup_request
<1>4. PICK slot \in Bijection(req, new) : \E teid \in NewTeids(slot) :
            /\ gtp' = gtpv1u_create_ngu_tunnel(gtp, u, teid,
                                               [p \in req |-> UpfTeid(teid[p])])
            /\ gnb_gtp' = [gnb_gtp EXCEPT ![u] = [i \in Slots |->
                    IF i \in new THEN [teid |-> teid[KeyOf(slot, i)],
                                       psi |-> KeyOf(slot, i)] ELSE @[i]]]
            /\ pduSession' = [pduSession EXCEPT ![u] = Configured(
                    [i \in Slots |-> IF i \in new
                        THEN [@[i] EXCEPT !.psi = KeyOf(slot, i)] ELSE @[i]],
                    count, next_xid)]
            /\ amf' = [amf EXCEPT ![u] = [p \in Psis |-> IF p \notin req THEN @[p]
                    ELSE [state |-> "setup", teid |-> 0,
                          outgoing |-> UpfTeid(teid[p])]]]
  BY Zenon DEF setup_request
<1>5. PICK teid \in NewTeids(slot) :
            /\ gtp' = gtpv1u_create_ngu_tunnel(gtp, u, teid,
                                               [p \in req |-> UpfTeid(teid[p])])
            /\ gnb_gtp' = [gnb_gtp EXCEPT ![u] = [i \in Slots |->
                    IF i \in new THEN [teid |-> teid[KeyOf(slot, i)],
                                       psi |-> KeyOf(slot, i)] ELSE gnb_gtp[u][i]]]
            /\ pduSession' = [pduSession EXCEPT ![u] = Configured(
                    [i \in Slots |-> IF i \in new
                        THEN [pduSession[u][i] EXCEPT !.psi = KeyOf(slot, i)]
                        ELSE pduSession[u][i]], count, next_xid)]
            /\ amf' = [amf EXCEPT ![u] = [p \in Psis |-> IF p \notin req
                    THEN amf[u][p]
                    ELSE [state |-> "setup", teid |-> 0,
                          outgoing |-> UpfTeid(teid[p])]]]
  BY <1>4, Zenon
<1> DEFINE out == [p \in req |-> UpfTeid(teid[p])]
           tunnels == [i \in Slots |-> IF i \in new
                THEN [teid |-> teid[KeyOf(slot, i)], psi |-> KeyOf(slot, i)]
                ELSE gnb_gtp[u][i]]
           table == SetupTable(u, new, slot, count)
           known == [p \in Psis |-> IF p \notin req THEN amf[u][p]
                        ELSE [state |-> "setup", teid |-> 0, outgoing |-> out[p]]]
<1>6. /\ gtp' = gtpv1u_create_ngu_tunnel(gtp, u, teid, out)
      /\ gnb_gtp' = [gnb_gtp EXCEPT ![u] = tunnels]
      /\ pduSession' = [pduSession EXCEPT ![u] = table]
  BY <1>5, Zenon DEF SetupTable
<1>7. amf' = [amf EXCEPT ![u] = known]
  <2>1. known = [p \in Psis |-> IF p \notin req THEN amf[u][p]
                    ELSE [state |-> "setup", teid |-> 0, outgoing |-> UpfTeid(teid[p])]]
    BY Zenon
  <2> HIDE DEF known, tunnels, table
  <2> QED BY <2>1, <1>5, Zenon
<1>8. /\ new \subseteq Slots /\ \A i \in new : pduSession[u][i].status = "new"
      /\ slot \in [req -> new] /\ DOMAIN slot = req
      /\ \A i \in new : KeyOf(slot, i) \in req /\ slot[KeyOf(slot, i)] = i
      /\ \A p, q \in req : slot[p] = slot[q] => p = q
  <2>1. new \subseteq Slots /\ \A i \in new : pduSession[u][i].status = "new"
    BY Zenon DEF FirstNew, NewSlots
  <2> QED BY <2>1, SlotKeys
<1>9. /\ teid \in [req -> drawn + 1..drawn + n]
      /\ \A p, q \in req : teid[p] = teid[q] => p = q
  <2>1. \A p \in req : slot[p] \in Int
    BY <1>8 DEF Slots
  <2> HIDE DEF new
  <2> QED BY <2>1, <1>1, <1>8, TeidKeys
<1>10. /\ \A p \in req : teid[p] \in Teids /\ out[p] \in 0..2 * MaxTeid
       /\ out \in [req -> Int]
  <2>1. ASSUME NEW p \in req PROVE teid[p] \in Teids /\ out[p] \in 0..2 * MaxTeid
    <3>1. teid[p] \in drawn + 1..drawn + n
      BY <1>9, Zenon
    <3>2. teid[p] \in Teids
      BY <3>1, <1>1, <1>2 DEF Teids
    <3>3. out[p] = MaxTeid + teid[p]
      BY Zenon DEF UpfTeid
    <3> QED BY <3>2, <3>3, <1>1 DEF Teids
  <2>2. \A p \in req : out[p] \in Int
    BY <2>1
  <2>3. out = [p \in req |-> out[p]]
    BY Zenon
  <2> HIDE DEF out
  <2> QED BY <2>1, <2>2, <2>3, Zenon
<1>11. \A i \in Slots : tunnels[i] = IF i \in new
            THEN [teid |-> teid[KeyOf(slot, i)], psi |-> KeyOf(slot, i)] ELSE gnb_gtp[u][i]
  BY Zenon
<1>12. \A p \in Psis : known[p] = IF p \notin req THEN amf[u][p]
            ELSE [state |-> "setup", teid |-> 0, outgoing |-> out[p]]
  BY Zenon
<1>13. tunnels = [i \in Slots |-> tunnels[i]] /\ known = [p \in Psis |-> known[p]]
  <2>1. tunnels = [i \in Slots |-> tunnels[i]]
    BY Zenon
  <2>2. known = [p \in Psis |-> known[p]]
    BY Zenon
  <2> QED BY <2>1, <2>2, Zenon
<1>14. /\ table \in [Slots -> SlotRecord]
       /\ \A i \in Slots :
            /\ table[i].psi = IF i \in new THEN KeyOf(slot, i) ELSE pduSession[u][i].psi
            /\ table[i].status = IF i <= count /\ pduSession[u][i].status = "new"
                                 THEN "done" ELSE pduSession[u][i].status
  <2> HIDE DEF new, count, tunnels, known
  <2>1. \A i \in new : KeyOf(slot, i) \in Psis
    BY <1>1, <1>8, Zenon
  <2>2. IsSetupTable(table, u, new, slot, count)
    BY <2>1, <1>1, ConfiguredTypes, Zenon
  <2> HIDE DEF table
  <2> QED BY <2>2, Zenon DEF IsSetupTable
<1> HIDE DEF table, tunnels, known, out
<1>15. tunnels \in [Slots -> GtpRecord]
  <2>1. ASSUME NEW i \in Slots PROVE tunnels[i] \in GtpRecord
    <3> HIDE DEF new
    <3>1. CASE i \in new
      <4>1. KeyOf(slot, i) \in Psis /\ teid[KeyOf(slot, i)] \in Teids
        BY <3>1, <1>1, <1>8, <1>10, Zenon
      <4>2. tunnels[i] = [teid |-> teid[KeyOf(slot, i)], psi |-> KeyOf(slot, i)]
        BY <3>1, <1>11, Zenon
      <4> QED BY <4>1, <4>2 DEF GtpRecord
    <3>2. CASE i \notin new
      BY <3>2, <1>1, <1>11, RowTypes, Zenon
    <3> QED BY <3>1, <3>2, Zenon
  <2> QED BY <2>1, <1>13, Zenon
<1>16. known \in [Psis -> AmfRecord]
  <2>1. ASSUME NEW p \in Psis PROVE known[p] \in AmfRecord
    <3>1. CASE p \in req
      <4>1. known[p] = [state |-> "setup", teid |-> 0, outgoing |-> out[p]]
        BY <3>1, <1>12, Zenon
      <4>2. out[p] \in 0..2 * MaxTeid
        BY <3>1, <1>10, Zenon
      <4> QED BY <4>1, <4>2, SMTT(60) DEF AmfRecord
    <3>2. CASE p \notin req
      BY <3>2, <1>1, <1>12, RowTypes, Zenon
    <3> QED BY <3>1, <3>2, Zenon
  <2> QED BY <2>1, <1>13, Zenon
<1>17. count \in 0..255
  <2>1. setup_pdu_sessions[u] + n \in Int
    BY <1>1, RowTypes, SMTT(60)
  <2> QED BY <2>1, Count, Zenon
<1>18. /\ Agree(gtp, drawn)'
       /\ \A p \in req : Routed(gtp', u, p, teid[p], out[p])
       /\ \A v, q, t, o : Routed(gtp, v, q, t, o) /\ ~(v = u /\ q \in req)
                            => Routed(gtp', v, q, t, o)
  <2>1. /\ Agree(gtp', drawn + n)
        /\ \A p \in req : Routed(gtp', u, p, teid[p], out[p])
        /\ \A v, q, t, o : Routed(gtp, v, q, t, o) /\ ~(v = u /\ q \in req)
                             => Routed(gtp', v, q, t, o)
    <3> HIDE DEF n
    <3>1. Agree(gtp, drawn)
      BY Zenon DEF IInv
    <3>2. drawn \in Nat /\ n \in Nat
      BY <1>1, Zenon
    <3>3. gtp' = gtpv1u_create_ngu_tunnel(gtp, u, teid, out) /\ out \in [req -> Int]
      BY <1>6, <1>10, Zenon
    <3>4. NewSessions(drawn, n, req, teid, out)
      BY <3>2, <3>3, <1>9, Zenon DEF NewSessions
    <3>5. Agree(gtp', drawn + n) /\ RoutesNew(gtp', u, req, teid, out)
          /\ KeepsOther(gtp, gtp', u, req)
      BY <3>1, <3>3, <3>4, CreateTunnels, Zenon
    <3> QED BY <3>5, Zenon DEF RoutesNew, KeepsOther
  <2> QED BY <2>1, <1>2, Zenon
<1>19. /\ clean' \in [Rntis -> BOOLEAN]
       /\ clean'[u] => /\ clean[u] /\ reconf[u] = <<>>
                       /\ new = {i \in NewSlots(u) : i <= count}
       /\ \A v \in Rntis \ {u} : clean'[v] = clean[v]
  <2> HIDE DEF new, count
  <2> QED BY <1>1, <1>3, ZenonT(60) DEF TypeOK
<1> HIDE DEF new, count, n
<1>20. /\ pduSession' \in [Rntis -> [Slots -> SlotRecord]] /\ pduSession'[u] = table
       /\ \A v \in Rntis \ {u} : pduSession'[v] = pduSession[v]
  <2>1. pduSession \in [Rntis -> [Slots -> SlotRecord]]
    BY <1>1, Zenon DEF TypeOK, SlotRecord
  <2> QED BY <2>1, <1>6, <1>14, Row, ZenonT(60)
<1>21. /\ gnb_gtp' \in [Rntis -> [Slots -> GtpRecord]] /\ gnb_gtp'[u] = tunnels
       /\ \A v \in Rntis \ {u} : gnb_gtp'[v] = gnb_gtp[v]
  <2>1. gnb_gtp \in [Rntis -> [Slots -> GtpRecord]]
    BY <1>1, Zenon DEF TypeOK, GtpRecord
  <2> QED BY <2>1, <1>6, <1>15, Row, ZenonT(60)
<1>22. /\ amf' \in [Rntis -> [Psis -> AmfRecord]] /\ amf'[u] = known
       /\ \A v \in Rntis \ {u} : amf'[v] = amf[v]
  <2>1. amf \in [Rntis -> [Psis -> AmfRecord]]
    BY <1>1, Zenon DEF TypeOK, AmfRecord
  <2> QED BY <2>1, <1>7, <1>16, Row, ZenonT(60)
<1>23. /\ setup_pdu_sessions' \in [Rntis -> 0..255] /\ setup_pdu_sessions'[u] = count
       /\ \A v \in Rntis \ {u} : setup_pdu_sessions'[v] = setup_pdu_sessions[v]
  <2>1. setup_pdu_sessions \in [Rntis -> 0..255]
    BY <1>1, Zenon DEF TypeOK
  <2> QED BY <2>1, <1>2, <1>17, Row, ZenonT(60)
<1>24. /\ nb_of_pdusessions' \in [Rntis -> 0..Cardinality(Psis)] /\ nb_of_pdusessions'[u] = n
       /\ \A v \in Rntis \ {u} : nb_of_pdusessions'[v] = nb_of_pdusessions[v]
  <2>1. nb_of_pdusessions \in [Rntis -> 0..Cardinality(Psis)]
    BY <1>1, Zenon DEF TypeOK
  <2> QED BY <2>1, <1>1, <1>2, Row, ZenonT(60)
<1>25. /\ reconf' \in [Rntis -> Seq(0..NXids - 1)] /\ reconf'[u] = Append(reconf[u], next_xid)
       /\ \A v \in Rntis \ {u} : reconf'[v] = reconf[v]
  <2>1. reconf \in [Rntis -> Seq(0..NXids - 1)] /\ reconf[u] \in Seq(0..NXids - 1)
    BY <1>1, Zenon DEF TypeOK
  <2>2. Append(reconf[u], next_xid) \in Seq(0..NXids - 1)
    BY <2>1, <1>1, AppendXids, Zenon
  <2> QED BY <2>1, <2>2, <1>2, Row, Zenon
<1>26. TypeOK'
  <2>1. DOMAIN gtp'.te2ue \subseteq 1..drawn'
    BY <1>18, Zenon DEF Agree
  <2>2. drawn' \in 0..MaxTeid
    BY <1>1, <1>2
  <2> QED BY <2>1, <2>2, <1>1, <1>2, <1>19, <1>20, <1>21, <1>22, <1>23, <1>24, <1>25, Zenon DEF TypeOK, SlotRecord, GtpRecord, AmfRecord
<1>27. \A v \in Rntis \ {u} : Same(v)
  BY <1>2, <1>19, <1>20, <1>21, <1>22, <1>23, <1>24, <1>25, Zenon DEF Same
<1>28. ~releasing'[u] /\ release_flag' = release_flag
  BY <1>2, Zenon
<1>29. ASSUME clean'[u] PROVE Orderly(u)'
  <2>1. Orderly(u) /\ Idle(u)
    <3>1. Orderly(u) /\ reconf[u] = <<>>
      BY <1>2, <1>19, <1>29, Zenon DEF IInv
    <3>2. \A y : <<y>> # <<>>
      BY Zenon
    <3> QED BY <3>1, <3>2, Zenon DEF Orderly, SettingUp, Releasing
  <2>2. \A i \in Slots : i \in new <=> pduSession[u][i].status = "new" /\ i <= count
    BY <1>19, <1>29, Zenon DEF NewSlots
  <2>3. \A i \in new : /\ i \in Slots /\ i <= count
                       /\ pduSession'[u][i].status = "done"
                       /\ pduSession'[u][i].psi = KeyOf(slot, i)
                       /\ gnb_gtp'[u][i].psi = KeyOf(slot, i)
                       /\ gnb_gtp'[u][i].teid = teid[KeyOf(slot, i)]
    <3>1. ASSUME NEW i \in new
          PROVE  /\ i \in Slots /\ i <= count
                 /\ pduSession'[u][i].status = "done"
                 /\ pduSession'[u][i].psi = KeyOf(slot, i)
                 /\ gnb_gtp'[u][i] = [teid |-> teid[KeyOf(slot, i)], psi |-> KeyOf(slot, i)]
      <4>1. i \in Slots /\ i <= count /\ pduSession[u][i].status = "new"
        BY <2>2, <1>8, Zenon
      <4> QED BY <4>1, <1>11, <1>14, <1>20, <1>21, Zenon
    <3>2. ASSUME NEW i \in new
          PROVE  /\ gnb_gtp'[u][i].psi = KeyOf(slot, i)
                 /\ gnb_gtp'[u][i].teid = teid[KeyOf(slot, i)]
      <4>1. gnb_gtp'[u][i] = [teid |-> teid[KeyOf(slot, i)], psi |-> KeyOf(slot, i)]
        BY <3>1, Zenon
      <4> QED BY <4>1
    <3> QED BY <3>1, <3>2, Zenon
  <2>4. \A i \in Slots : i \notin new =>
                       /\ pduSession'[u][i].status = pduSession[u][i].status
                       /\ pduSession'[u][i].psi = pduSession[u][i].psi
                       /\ gnb_gtp'[u][i] = gnb_gtp[u][i]
    BY <2>2, <1>11, <1>14, <1>20, <1>21, Zenon
  <2>5. /\ \A p \in req : amf'[u][p].state = "setup" /\ amf'[u][p].outgoing = out[p]
        /\ \A p \in Psis : p \notin req => amf'[u][p] = amf[u][p]
    <3>1. ASSUME NEW p \in req
          PROVE  amf'[u][p].state = "setup" /\ amf'[u][p].outgoing = out[p]
      <4>1. amf'[u][p] = [state |-> "setup", teid |-> 0, outgoing |-> out[p]]
        BY <1>1, <1>12, <1>22, Zenon
      <4> QED BY <4>1
    <3>2. \A p \in Psis : p \notin req => amf'[u][p] = amf[u][p]
      BY <1>12, <1>22, Zenon
    <3> QED BY <3>1, <3>2, Zenon
  <2>6. \A i \in Slots : i \notin new /\ pduSession[u][i].status # "new" =>
            /\ pduSession[u][i].psi \in Psis \ req
            /\ pduSession[u][i].status = "established"
    BY <2>1, <1>2, Zenon DEF Orderly, Idle, Slot
  <2>7. \A i \in Slots : i \notin new /\ pduSession[u][i].status = "new" =>
            pduSession[u][i].psi = 0
    BY <2>1, Zenon DEF Orderly, Slot
  <2>8. SettingUp(u)'
    <3>1. reconf'[u] = <<next_xid>>
      BY <1>25, <2>1 DEF Idle
    <3>2. ~release_flag'[u] /\ nb_of_pdusessions'[u] > 0
      BY <1>1, <1>24, <1>28, <2>1, Zenon DEF Idle
    <3>3. \A i \in Slots :
            /\ pduSession'[u][i].status \in {"new", "done", "established"}
            /\ pduSession'[u][i].status = "done" => i <= setup_pdu_sessions'[u]
      BY <1>23, <2>1, <2>3, <2>4, ZenonT(60) DEF Idle
    <3> QED BY <3>1, <3>2, <3>3, <1>1, Zenon DEF SettingUp, Slots
  <2>9. ASSUME NEW i \in Slots PROVE Slot(u, i)'
    <3>1. CASE i \in new
      <4>1. KeyOf(slot, i) \in req /\ KeyOf(slot, i) \in Psis
        BY <3>1, <1>1, <1>8, Zenon
      <4> QED BY <3>1, <4>1, <2>3, <2>5, <1>18, ZenonT(60) DEF Slot
    <3>2. CASE i \notin new /\ pduSession[u][i].status = "new"
      BY <3>2, <2>4, <2>7, Zenon DEF Slot
    <3>3. CASE i \notin new /\ pduSession[u][i].status # "new"
      <4> DEFINE p == pduSession[u][i].psi
      <4>1. p \in Psis /\ p \notin req
        BY <3>3, <2>6, Zenon
      <4>2. /\ amf[u][p].state # "none" /\ amf[u][p].state # "release"
            /\ gnb_gtp[u][i].psi = p
            /\ Routed(gtp, u, p, gnb_gtp[u][i].teid, amf[u][p].outgoing)
        BY <3>3, <2>1, Zenon DEF Orderly, Slot, Idle
      <4>3. amf'[u][p] = amf[u][p]
        BY <4>1, <2>5, Zenon
      <4>4. Routed(gtp', u, p, gnb_gtp[u][i].teid, amf[u][p].outgoing)
        BY <4>1, <4>2, <1>18, Zenon
      <4>5. pduSession'[u][i].psi = p
        BY <3>3, <2>4, Zenon
      <4> HIDE DEF p
      <4> QED BY <3>3, <4>1, <4>2, <4>3, <4>4, <4>5, <2>4, Zenon DEF Slot
    <3> QED BY <3>1, <3>2, <3>3, Zenon
  <2>10. Distinct(u)'
    <3>1. ASSUME NEW i \in Slots, NEW j \in Slots,
                 pduSession'[u][i].psi = pduSession'[u][j].psi,
                 pduSession'[u][i].status # "new"
          PROVE  i = j
      <4>1. CASE i \in new /\ j \in new
        BY <4>1, <3>1, <2>3, <1>8
      <4>2. CASE i \in new /\ j \notin new
        <5>1. pduSession'[u][i].psi \in req
          BY <4>2, <2>3, <1>8
        <5> QED BY <5>1, <4>2, <3>1, <2>4, <2>6, <2>7, <1>1, ZenonT(60)
      <4>3. CASE i \notin new /\ j \in new
        <5>1. pduSession'[u][j].psi \in req
          BY <4>3, <2>3, <1>8
        <5> QED BY <5>1, <4>3, <3>1, <2>4, <2>6, Zenon
      <4>4. CASE i \notin new /\ j \notin new
        BY <4>4, <3>1, <2>4, <2>1, Zenon DEF Orderly, Distinct
      <4> QED BY <4>1, <4>2, <4>3, <4>4, Zenon
    <3> QED BY <3>1, Zenon DEF Distinct, Slots
  <2>11. UpSessions(u)'
    <3>1. ASSUME NEW p \in Psis, amf'[u][p].state = "up"
          PROVE  \E i \in Slots : /\ pduSession'[u][i].psi = p
                                  /\ pduSession'[u][i].status = "established"
                                  /\ amf'[u][p].teid = gnb_gtp'[u][i].teid
      <4>1. amf'[u][p] = amf[u][p]
        BY <3>1, <2>5, Zenon
      <4>2. PICK i \in Slots : /\ pduSession[u][i].psi = p
                               /\ pduSession[u][i].status = "established"
                               /\ amf[u][p].teid = gnb_gtp[u][i].teid
        BY <4>1, <3>1, <2>1, SMTT(60) DEF Orderly, UpSessions, Up
      <4>3. i \notin new
        BY <4>2, <2>2, Zenon
      <4> QED BY <4>1, <4>2, <4>3, <2>4, Zenon
    <3> QED BY <3>1, Zenon DEF UpSessions, Up, Slots
  <2> QED BY <2>8, <2>9, <2>10, <2>11, Zenon DEF Orderly, Slots
<1>30. \A v \in Rntis \ {u} : \A q, t, o : Routed(gtp, v, q, t, o) => Routed(gtp', v, q, t, o)
  BY <1>18, Zenon
<1>31. Agree(gtp, drawn)'
  BY <1>18, Zenon
<1> QED BY <1>26, <1>27, <1>28, <1>29, <1>30, <1>31, OneUe, Zenon
-----------------------------------------------------------------------------
LEMMA InitIInv == Init => IInv
<1> SUFFICES ASSUME Init PROVE IInv
  BY Zenon
<1>1. gtp.te2ue = NoEntries /\ gtp.ue2te = NoEntries /\ DOMAIN NoEntries = {}
  BY Zenon DEF Init, NoTunnels, NoEntries
<1>2. Agree(gtp, drawn)
  BY <1>1, Zenon DEF Agree
<1>3. FreeSlot \in SlotRecord /\ NoTunnel \in GtpRecord /\ NoSession \in AmfRecord
  BY ConstantsAssumption DEF FreeSlot, NoTunnel, NoSession, SlotRecord, GtpRecord,
                             AmfRecord, NoXid, Statuses
<1>4. Cardinality(Psis) \in Nat /\ NXids \in Nat \ {0} /\ MaxTeid \in Nat
  BY ConstantsAssumption, FS_CardinalityType, Zenon
<1>5. /\ pduSession \in [Rntis -> [Slots -> SlotRecord]]
      /\ gnb_gtp \in [Rntis -> [Slots -> GtpRecord]]
      /\ amf \in [Rntis -> [Psis -> AmfRecord]]
  BY <1>3, Zenon DEF Init
<1>6. /\ xid \in 0..NXids - 1 /\ drawn \in 0..MaxTeid
      /\ setup_pdu_sessions \in [Rntis -> 0..255]
      /\ nb_of_pdusessions \in [Rntis -> 0..Cardinality(Psis)]
      /\ release_flag \in [Rntis -> BOOLEAN] /\ releasing \in [Rntis -> BOOLEAN]
      /\ clean \in [Rntis -> BOOLEAN]
  BY <1>4 DEF Init
<1>7. reconf \in [Rntis -> Seq(0..NXids - 1)]
  BY DEF Init
<1>8. TypeOK
  BY <1>1, <1>5, <1>6, <1>7, Zenon DEF TypeOK, SlotRecord, GtpRecord, AmfRecord
<1>9. ASSUME NEW u \in Rntis PROVE Orderly(u) /\ ~releasing[u]
  <2>1. /\ \A i \in Slots : pduSession[u][i].status = "new" /\ pduSession[u][i].psi = 0
                            /\ pduSession[u][i].xid = NoXid
        /\ \A p \in Psis : amf[u][p].state = "none"
        /\ reconf[u] = <<>> /\ ~release_flag[u] /\ ~releasing[u]
    BY Zenon DEF Init, FreeSlot, NoSession
  <2> QED BY <2>1, Zenon DEF Orderly, Idle, Slot, Distinct, UpSessions, Up
<1> QED BY <1>2, <1>8, <1>9, Zenon DEF IInv

LEMMA Unchanged == ASSUME IInv, UNCHANGED vars PROVE IInv'
<1>1. UNCHANGED <<xid, pduSession, gnb_gtp, setup_pdu_sessions, nb_of_pdusessions,
                  release_flag, releasing, reconf, clean, gtp, drawn, amf>>
  BY Zenon DEF vars, ueVars
<1>2. TypeOK' /\ Agree(gtp, drawn)'
  BY <1>1, Zenon DEF IInv, TypeOK
<1>3. ASSUME NEW v \in Rntis, clean'[v] /\ ~releasing'[v] PROVE Orderly(v)'
  <2>1. Same(v) /\ Orderly(v) /\ gtp' = gtp
    BY <1>1, <1>3, Zenon DEF Same, IInv
  <2> QED BY <2>1, OtherUe, Zenon
<1>4. \A v \in Rntis : releasing'[v] => \A p \in Psis : amf'[v][p].state = "none"
  BY <1>1, Zenon DEF IInv
<1> QED BY <1>2, <1>3, <1>4, Zenon DEF IInv

LEMMA NextIInv == IInv /\ [Next]_vars => IInv'
<1> SUFFICES ASSUME IInv, [Next]_vars PROVE IInv'
  BY Zenon
<1>1. CASE other_message
  BY <1>1, OtherMessage, Zenon
<1>2. ASSUME NEW u \in Rntis, NEW req \in (SUBSET Psis) \ {{}},
             setup_request(u, req) \/ release_established(u, req) \/ release_other(u, req)
      PROVE  IInv'
  BY <1>2, SetupRequest, ReleaseEstablished, ReleaseOther, Zenon
<1>3. ASSUME NEW u \in Rntis, Complete(u) PROVE IInv'
  BY <1>3, CompleteRelease, CompleteSetup, CompleteOther, Zenon DEF Complete
<1>4. ASSUME NEW u \in Rntis, release_command(u) \/ remove_ue(u) PROVE IInv'
  BY <1>4, ReleaseUe, RemoveUe, Zenon
<1>5. CASE UNCHANGED vars
  BY <1>5, Unchanged, Zenon
<1> QED BY <1>1, <1>2, <1>3, <1>4, <1>5, Zenon DEF Next

LEMMA IInvRouted == IInv => SessionsRouted
<1> SUFFICES ASSUME IInv, NEW u \in Rntis, NEW p \in Psis, clean[u], Up(u, p)
             PROVE  LET s == amf[u][p] IN
                    /\ \E i \in Slots :
                        /\ i \in SlotsOf(u, {p}, "established")
                        /\ gnb_gtp[u][i] = [teid |-> s.teid, psi |-> p]
                    /\ s.teid \in DOMAIN gtp.te2ue
                    /\ Gtpv1uHandleGpdu(gtp, s.teid) = [rnti |-> u, psi |-> p]
                    /\ HasBearer(gtp, u, p) /\ gtpv1uSend2(gtp, u, p) = s.outgoing
  BY ZenonT(60) DEF SessionsRouted
<1>1. Orderly(u)
  BY Zenon DEF IInv, Up
<1>2. PICK i \in Slots : /\ pduSession[u][i].psi = p
                         /\ pduSession[u][i].status = "established"
                         /\ amf[u][p].teid = gnb_gtp[u][i].teid
  BY <1>1, Zenon DEF Orderly, UpSessions
<1>3. /\ gnb_gtp[u][i].psi = p
      /\ Routed(gtp, u, p, gnb_gtp[u][i].teid, amf[u][p].outgoing)
  BY <1>1, <1>2, Zenon DEF Orderly, Slot
<1>4. i \in SlotsOf(u, {p}, "established")
  BY <1>1, <1>2, FoundSlots, Zenon DEF Orderly
<1>5. gnb_gtp[u][i] = [teid |-> amf[u][p].teid, psi |-> p]
  <2>1. gnb_gtp[u][i] \in GtpRecord
    BY RowTypes, Zenon DEF IInv
  <2> QED BY <2>1, <1>2, <1>3, Zenon DEF GtpRecord
<1>6. gtp.ue2te[u][p].teid_outgoing = amf[u][p].outgoing
  BY <1>3 DEF Routed
<1> QED BY <1>2, <1>3, <1>4, <1>5, <1>6, Zenon DEF Routed, Gtpv1uHandleGpdu, gtpv1uSend2, HasBearer, Known

(* The tables stay of their types for every number of UEs, sessions, slots *)
(* and transactions; in particular no TEID is known that was not drawn.    *)
THEOREM PduSessionsTypes == Spec => []TypeOK
<1>1. IInv => TypeOK
  BY Zenon DEF IInv
<1> QED BY <1>1, InitIInv, NextIInv, PTL DEF Spec

(* Whatever the AMF requests and releases and whichever UEs come and go,   *)
(* an established session of a clean UE keeps its slot, its TEIDs and its  *)
(* entries in both tunnel maps.                                            *)
THEOREM SessionsAreRouted == Spec => []SessionsRouted
BY InitIInv, NextIInv, IInvRouted, PTL DEF Spec
-----------------------------------------------------------------------------

(* The count and the answers.  The phases hold also while the UE is being  *)
(* released; the count is the number of slots in use; a release the AMF    *)
(* awaits has its flag, and an established first slot is answered.         *)
Phased(u) == Idle(u) \/ SettingUp(u) \/ Releasing(u)
Used(u) == {i \in Slots : pduSession[u][i].status # "new"}
Counts(u) == setup_pdu_sessions[u] = Cardinality(Used(u))
Answering(u) ==
    /\ \A p \in Psis : amf[u][p].state = "release" => release_flag[u]
    /\ pduSession[u][1].status = "established"
         => amf[u][pduSession[u][1].psi].state # "setup"

CInv ==
    \A u \in Rntis : clean[u] =>
        Phased(u) /\ Counts(u) /\ (~releasing[u] => Answering(u))

LEMMA FirstSlot == 1 \in Slots
BY ConstantsAssumption DEF Slots

(* The slots are finitely many, and fewer than a uint8_t counts.           *)
LEMMA SlotSets ==
    ASSUME NEW S \in SUBSET Slots
    PROVE  IsFiniteSet(S) /\ Cardinality(S) \in Nat /\ Cardinality(S) <= 255
<1>1. 1 \in Int /\ NSlots \in Int /\ NSlots \in Nat /\ NSlots <= 255
  BY ConstantsAssumption
<1>2. IsFiniteSet(1..NSlots) /\ Cardinality(1..NSlots) = NSlots
  BY <1>1, FS_Interval
<1>3. IsFiniteSet(S) /\ Cardinality(S) <= Cardinality(Slots)
  BY <1>2, FS_Subset, Zenon DEF Slots
<1>4. Cardinality(S) \in Nat
  BY <1>3, FS_CardinalityType, Zenon
<1> QED BY <1>1, <1>2, <1>3, <1>4 DEF Slots

(* A step that leaves a UE alone.                                          *)
LEMMA CountedOther ==
    ASSUME NEW v, Same(v)
    PROVE  /\ Phased(v) => Phased(v)'
           /\ Counts(v) => Counts(v)'
           /\ Answering(v) => Answering(v)'
<1>1. (Idle(v) => Idle(v)') /\ (SettingUp(v) => SettingUp(v)')
      /\ (Releasing(v) => Releasing(v)')
  BY SMTT(60) DEF Same, Idle, SettingUp, Releasing, Slots, NoXid
<1>2. Used(v)' = Used(v)
  BY Zenon DEF Same, Used, Slots
<1>3. Counts(v) => Counts(v)'
  BY <1>2, Zenon DEF Counts, Same
<1>4. Answering(v) => Answering(v)'
  BY Zenon DEF Same, Answering
<1> QED BY <1>1, <1>3, <1>4, Zenon DEF Phased

LEMMA OneUeCounted ==
    ASSUME CInv, NEW u \in Rntis, \A v \in Rntis \ {u} : Same(v),
           clean'[u] => Phased(u)' /\ Counts(u)' /\ (~releasing'[u] => Answering(u)')
    PROVE  CInv'
<1>1. ASSUME NEW v \in Rntis \ {u}, clean'[v]
      PROVE  Phased(v)' /\ Counts(v)' /\ (~releasing'[v] => Answering(v)')
  <2>1. Same(v) /\ clean'[v] = clean[v] /\ releasing'[v] = releasing[v]
    BY Zenon DEF Same
  <2>2. Phased(v) /\ Counts(v) /\ (~releasing[v] => Answering(v))
    BY <1>1, <2>1, Zenon DEF CInv
  <2> QED BY <2>1, <2>2, CountedOther, Zenon
<1> QED BY <1>1, Zenon DEF CInv

(* A clean UE with nothing outstanding is idle.                            *)
LEMMA CleanIdle ==
    ASSUME CInv, NEW u \in Rntis, clean[u], reconf[u] = <<>>
    PROVE  Idle(u)
<1>1. \A y : <<y>> # <<>>
  BY Zenon
<1> QED BY <1>1, Zenon DEF CInv, Phased, SettingUp, Releasing
-----------------------------------------------------------------------------
LEMMA CountSetup ==
    ASSUME IInv, CInv, NEW u \in Rntis, NEW req \in (SUBSET Psis) \ {{}},
           setup_request(u, req)
    PROVE  CInv'
<1> DEFINE n == Cardinality(req)
           new == FirstNew(u, n)
           count == (setup_pdu_sessions[u] + n) % 256
<1>1. TypeOK /\ IInv' /\ n \in Nat
  BY SetupRequest, RequestSize, Zenon DEF IInv
<1>2. /\ ~releasing[u] /\ \A p \in req : amf[u][p].state = "none"
      /\ Cardinality(new) = n
      /\ nb_of_pdusessions' = [nb_of_pdusessions EXCEPT ![u] = n]
      /\ setup_pdu_sessions' = [setup_pdu_sessions EXCEPT ![u] = count]
      /\ reconf' = [reconf EXCEPT ![u] = Append(reconf[u], next_xid)]
      /\ UNCHANGED <<release_flag, releasing, retries>>
  BY Zenon DEF setup_request
<1>3. clean' = [clean EXCEPT ![u] = /\ @ /\ reconf[u] = <<>>
                                    /\ new = {i \in NewSlots(u) : i <= count}]
  BY Zenon DEF setup_request
<1>4. PICK slot \in Bijection(req, new) : \E teid \in NewTeids(slot) :
            /\ gnb_gtp' = [gnb_gtp EXCEPT ![u] = [i \in Slots |->
                    IF i \in new THEN [teid |-> teid[KeyOf(slot, i)],
                                       psi |-> KeyOf(slot, i)] ELSE gnb_gtp[u][i]]]
            /\ pduSession' = [pduSession EXCEPT ![u] = SetupTable(u, new, slot, count)]
            /\ amf' = [amf EXCEPT ![u] = [p \in Psis |-> IF p \notin req THEN amf[u][p]
                    ELSE [state |-> "setup", teid |-> 0,
                          outgoing |-> UpfTeid(teid[p])]]]
  BY ZenonT(60) DEF setup_request, SetupTable
<1>5. PICK tunnels, known :
            /\ gnb_gtp' = [gnb_gtp EXCEPT ![u] = tunnels]
            /\ pduSession' = [pduSession EXCEPT ![u] = SetupTable(u, new, slot, count)]
            /\ amf' = [amf EXCEPT ![u] = known]
            /\ \A p \in Psis : p \notin req => known[p] = amf[u][p]
            /\ \A p \in req : known[p].state = "setup"
  <2>1. PICK teid \in NewTeids(slot) :
            /\ gnb_gtp' = [gnb_gtp EXCEPT ![u] = [i \in Slots |->
                    IF i \in new THEN [teid |-> teid[KeyOf(slot, i)],
                                       psi |-> KeyOf(slot, i)] ELSE gnb_gtp[u][i]]]
            /\ pduSession' = [pduSession EXCEPT ![u] = SetupTable(u, new, slot, count)]
            /\ amf' = [amf EXCEPT ![u] = [p \in Psis |-> IF p \notin req THEN amf[u][p]
                    ELSE [state |-> "setup", teid |-> 0,
                          outgoing |-> UpfTeid(teid[p])]]]
    BY <1>4, Zenon
  <2> DEFINE known == [p \in Psis |-> IF p \notin req THEN amf[u][p]
                    ELSE [state |-> "setup", teid |-> 0, outgoing |-> UpfTeid(teid[p])]]
  <2>2. \A p \in Psis : p \notin req => known[p] = amf[u][p]
    BY Zenon
  <2>3. ASSUME NEW p \in req PROVE known[p].state = "setup"
    <3>1. known[p] = [state |-> "setup", teid |-> 0, outgoing |-> UpfTeid(teid[p])]
      BY Zenon
    <3> HIDE DEF known
    <3> QED BY <3>1
  <2>4. amf' = [amf EXCEPT ![u] = known]
    BY <2>1, Zenon
  <2> HIDE DEF known
  <2> QED BY <2>1, <2>2, <2>3, <2>4, ZenonT(60)
<1>6. \A v \in Rntis \ {u} : Same(v)
  <2> HIDE DEF new, count, n
  <2> QED BY <1>1, <1>2, <1>3, <1>5, ZenonT(60) DEF Same, TypeOK
<1>7. SUFFICES ASSUME clean'[u] PROVE Phased(u)' /\ Counts(u)' /\ Answering(u)'
  <2> HIDE DEF new, count, n
  <2> QED BY <1>6, OneUeCounted, Zenon
<1>8. clean[u] /\ reconf[u] = <<>> /\ new = {i \in NewSlots(u) : i <= count}
  <2> HIDE DEF new, count, n
  <2> QED BY <1>1, <1>3, <1>7, Zenon DEF TypeOK
<1>9. Idle(u) /\ Counts(u) /\ Answering(u) /\ Orderly(u)
  BY <1>2, <1>8, CleanIdle, Zenon DEF CInv, IInv
<1>10. Phased(u)'
  BY <1>1, <1>2, <1>7, Zenon DEF IInv, Orderly, Phased
<1>11. \A i \in new : KeyOf(slot, i) \in req
  <2> HIDE DEF new
  <2> QED BY SlotKeys, Zenon
<1>12. \A i \in Slots : pduSession'[u][i].psi = (IF i \in new THEN KeyOf(slot, i) ELSE pduSession[u][i].psi)
            /\ pduSession'[u][i].status = IF i <= count /\ pduSession[u][i].status = "new"
                                 THEN "done" ELSE pduSession[u][i].status
  <2> DEFINE table == SetupTable(u, new, slot, count)
  <2> HIDE DEF new, count, n
  <2>1. \A i \in new : KeyOf(slot, i) \in Psis
    BY <1>11, Zenon
  <2>2. IsSetupTable(table, u, new, slot, count)
    BY <2>1, <1>1, ConfiguredTypes, Zenon
  <2>3. pduSession'[u] = table
    BY <1>1, <1>5, Zenon DEF TypeOK
  <2> HIDE DEF table
  <2> QED BY <2>2, <2>3, Zenon DEF IsSetupTable
<1>13. Used(u)' = Used(u) \union new /\ Used(u) \intersect new = {}
  <2>1. \A i \in Slots : i \in new <=> pduSession[u][i].status = "new" /\ i <= count
    BY <1>8, Zenon DEF NewSlots
  <2>2. new \subseteq Slots
    BY Zenon DEF FirstNew, NewSlots
  <2> HIDE DEF new, count, n
  <2>3. \A i \in Slots : pduSession'[u][i].status # "new"
                            <=> pduSession[u][i].status # "new" \/ i \in new
    BY <2>1, <1>12, Zenon
  <2>4. \A i \in Slots : i \in Used(u)' <=> i \in Used(u) \/ i \in new
    BY <2>3, Zenon DEF Used, Slots
  <2>5. Used(u)' \subseteq Slots /\ Used(u) \subseteq Slots
    BY Zenon DEF Used, Slots
  <2>6. Used(u) \intersect new = {}
    BY <2>1, Zenon DEF Used
  <2> QED BY <2>2, <2>4, <2>5, <2>6, Zenon
<1>14. Counts(u)'
  <2>1. Used(u) \in SUBSET Slots /\ new \in SUBSET Slots /\ Used(u)' \in SUBSET Slots
    <3>1. new \in SUBSET Slots /\ Used(u) \in SUBSET Slots
      BY Zenon DEF FirstNew, NewSlots, Used
    <3> HIDE DEF new
    <3> QED BY <3>1, <1>13, Zenon
  <2> HIDE DEF new
  <2>2. /\ IsFiniteSet(Used(u)) /\ IsFiniteSet(new)
        /\ Cardinality(Used(u)) \in Nat /\ Cardinality(Used(u)') <= 255
    BY <2>1, SlotSets, Zenon
  <2>3. Cardinality(Used(u) \union new) = Cardinality(Used(u)) + Cardinality(new)
    <3>1. Cardinality(Used(u) \union new) = Cardinality(Used(u)) + Cardinality(new)
                                          - Cardinality(Used(u) \intersect new)
      BY <2>2, FS_Union, Zenon
    <3>2. Cardinality(Used(u) \intersect new) = 0
      BY <1>13, FS_EmptySet, Zenon
    <3> HIDE DEF n
    <3> QED BY <3>1, <3>2, <2>2, <1>1, <1>2, SMTT(60)
  <2>4. Cardinality(Used(u)') = setup_pdu_sessions[u] + n
    BY <2>3, <1>2, <1>9, <1>13, Zenon DEF Counts
  <2>5. setup_pdu_sessions[u] \in Nat
    BY <2>2, <1>9, Zenon DEF Counts
  <2> HIDE DEF n
  <2>6. count = setup_pdu_sessions[u] + n
    BY <2>2, <2>4, <2>5, <1>1
  <2>7. setup_pdu_sessions'[u] = count
    <3> HIDE DEF count
    <3> QED BY <1>1, <1>2, Zenon DEF TypeOK
  <2> HIDE DEF count
  <2> QED BY <2>4, <2>6, <2>7, Zenon DEF Counts
<1>15. Answering(u)'
  <2> HIDE DEF new, count, n
  <2>1. amf'[u] = known /\ release_flag' = release_flag
    BY <1>1, <1>2, <1>5, Zenon DEF TypeOK
  <2>2. ASSUME NEW p \in Psis, amf'[u][p].state = "release" PROVE release_flag'[u]
    <3>1. p \notin req
      BY <2>1, <2>2, <1>5, Zenon
    <3> QED BY <3>1, <2>1, <2>2, <1>5, <1>9, Zenon DEF Answering
  <2>3. ASSUME pduSession'[u][1].status = "established"
        PROVE  amf'[u][pduSession'[u][1].psi].state # "setup"
    <3>1. pduSession[u][1].status = "established"
      BY <2>3, <1>12, FirstSlot, Zenon
    <3>2. 1 \notin new
      BY <3>1, <1>8, Zenon DEF NewSlots
    <3>3. pduSession'[u][1].psi = pduSession[u][1].psi
      BY <3>2, <1>12, FirstSlot, Zenon
    <3>4. pduSession[u][1].psi \in Psis /\ amf[u][pduSession[u][1].psi].state # "none"
      BY <3>1, <1>9, FirstSlot, Zenon DEF Orderly, Slot
    <3>5. pduSession[u][1].psi \notin req
      BY <3>4, <1>2, Zenon
    <3> QED BY <3>1, <3>3, <3>4, <3>5, <2>1, <1>5, <1>9, ZenonT(60) DEF Answering
  <2> QED BY <2>2, <2>3, Zenon DEF Answering
<1> QED BY <1>10, <1>14, <1>15, Zenon

LEMMA CountEstablished ==
    ASSUME IInv, CInv, NEW u \in Rntis, NEW req, release_established(u, req)
    PROVE  CInv'
<1> DEFINE known == [p \in Psis |-> IF p \in req
                        THEN [amf[u][p] EXCEPT !.state = "release"] ELSE amf[u][p]]
<1>1. TypeOK /\ IInv'
  BY ReleaseEstablished, Zenon DEF IInv
<1>2. /\ ~releasing[u] /\ clean' = [clean EXCEPT ![u] = @ /\ reconf[u] = <<>>]
      /\ pduSession' = [pduSession EXCEPT ![u] = Marked(u, req)]
      /\ release_flag' = [release_flag EXCEPT ![u] = TRUE]
      /\ reconf' = [reconf EXCEPT ![u] = Append(reconf[u], next_xid)]
      /\ amf' = [amf EXCEPT ![u] = known]
      /\ UNCHANGED <<gnb_gtp, setup_pdu_sessions, nb_of_pdusessions, releasing>>
  BY Zenon DEF release_established, ReleaseCommand
<1>3. \A p \in Psis : p \notin req => known[p] = amf[u][p]
  BY Zenon
<1>4. ASSUME NEW p \in Psis, p \in req PROVE known[p].state = "release"
  <2>1. amf[u][p] \in AmfRecord
    BY <1>1, RowTypes, Zenon
  <2>2. known[p] = [amf[u][p] EXCEPT !.state = "release"]
    BY <1>4, Zenon
  <2> HIDE DEF known
  <2> QED BY <2>1, <2>2, Zenon DEF AmfRecord
<1> HIDE DEF known
<1>5. \A v \in Rntis \ {u} : Same(v)
  BY <1>1, <1>2, Zenon DEF Same, TypeOK
<1>6. SUFFICES ASSUME clean'[u] PROVE Phased(u)' /\ Counts(u)' /\ Answering(u)'
  BY <1>5, OneUeCounted, Zenon
<1>7. clean[u] /\ reconf[u] = <<>>
  BY <1>1, <1>2, <1>6, Zenon DEF TypeOK
<1>8. Idle(u) /\ Counts(u) /\ Answering(u) /\ Orderly(u)
  BY <1>2, <1>7, CleanIdle, Zenon DEF CInv, IInv
<1>9. Phased(u)'
  BY <1>1, <1>2, <1>6, Zenon DEF IInv, Orderly, Phased
<1>10. pduSession'[u] = Marked(u, req) /\ amf'[u] = known /\ release_flag'[u]
  BY <1>1, <1>2, Zenon DEF TypeOK
<1>11. ASSUME NEW i \in Slots
       PROVE  \/ /\ i \in SlotsOf(u, req, "established")
                 /\ pduSession[u][i].status = "established"
                 /\ pduSession'[u][i].status = "torelease"
              \/ /\ i \notin SlotsOf(u, req, "established")
                 /\ pduSession'[u][i] = pduSession[u][i]
  <2>1. pduSession[u][i].status # "failed"
    BY <1>8, Zenon DEF Idle
  <2>2. i \in SlotsOf(u, req, "established") =>
            /\ pduSession[u][i].status = "established"
            /\ Marked(u, req)[i].status = "torelease"
    BY <1>1, MarkedTypes
  <2>3. i \notin SlotsOf(u, req, "established") => Marked(u, req)[i] = pduSession[u][i]
    BY <2>1, <1>1, MarkedTypes
  <2> QED BY <2>2, <2>3, <1>10, Zenon
<1>12. Counts(u)'
  <2>1. \A i \in Slots : pduSession'[u][i].status # "new" <=> pduSession[u][i].status # "new"
    BY <1>11, Zenon
  <2>2. Used(u)' = Used(u)
    BY <2>1, Zenon DEF Used, Slots
  <2> QED BY <2>2, <1>2, <1>8, Zenon DEF Counts
<1>13. Answering(u)'
  <2>1. ASSUME pduSession'[u][1].status = "established"
        PROVE  amf'[u][pduSession'[u][1].psi].state # "setup"
    <3>1. pduSession'[u][1] = pduSession[u][1] /\ pduSession[u][1].status = "established"
      BY <2>1, <1>11, FirstSlot, Zenon
    <3>2. pduSession[u][1].psi \in Psis /\ amf[u][pduSession[u][1].psi].state # "setup"
      BY <3>1, <1>8, FirstSlot, Zenon DEF Orderly, Slot, Answering
    <3>3. CASE pduSession[u][1].psi \in req
      BY <3>1, <3>2, <3>3, <1>4, <1>10, Zenon
    <3>4. CASE pduSession[u][1].psi \notin req
      BY <3>1, <3>2, <3>4, <1>3, <1>10, Zenon
    <3> QED BY <3>3, <3>4, Zenon
  <2> QED BY <2>1, <1>10, Zenon DEF Answering
<1> QED BY <1>9, <1>12, <1>13, Zenon

(* What release_response does to the count of a table with no failed slot. *)
LEMMA CountFreed ==
    ASSUME TypeOK, NEW u \in Rntis, NEW slots \in [Slots -> SlotRecord], NEW x,
           NEW rnti, NEW asked, release_response(u, slots, x, rnti, asked),
           \A i \in Slots : slots[i].status # "new" <=> pduSession[u][i].status # "new",
           \A i \in OfTransaction(slots, x) : slots[i].status # "new", Counts(u)
    PROVE  Counts(u)'
<1> DEFINE rel == OfTransaction(slots, x)
           count == (setup_pdu_sessions[u] + 256 - Cardinality(rel)) % 256
<1>1. Freed(u, slots, rel, ToldOf(slots, rel, asked))
  BY ReleaseResponse, Zenon
<1>2. rel \in SUBSET Slots /\ Used(u) \in SUBSET Slots /\ rel \subseteq Used(u)
  BY Zenon DEF OfTransaction, Used
<1>3. setup_pdu_sessions' = [setup_pdu_sessions EXCEPT ![u] = count]
  BY Zenon DEF release_response
<1>4. setup_pdu_sessions'[u] = count
  <2> HIDE DEF count
  <2> QED BY <1>3, Zenon DEF TypeOK
<1> HIDE DEF rel
<1>5. \A i \in Slots : i \in Used(u)' <=> i \in Used(u) /\ i \notin rel
  <2>1. \A i \in Slots : pduSession'[u][i].status # "new"
                         <=> pduSession[u][i].status # "new" /\ i \notin rel
    BY <1>1, ZenonT(60) DEF Freed
  <2> QED BY <2>1, Zenon DEF Used, Slots
<1>6. Used(u)' = Used(u) \ rel
  <2>1. Used(u)' \subseteq Slots
    BY Zenon DEF Used, Slots
  <2> QED BY <2>1, <1>2, <1>5, Zenon
<1>7. /\ IsFiniteSet(Used(u)) /\ Cardinality(Used(u)) \in Nat
      /\ Cardinality(Used(u)) <= 255
      /\ IsFiniteSet(rel) /\ Cardinality(rel) \in Nat
  BY <1>2, SlotSets, Zenon
<1>8. Cardinality(Used(u)') = Cardinality(Used(u)) - Cardinality(rel)
  <2>1. Used(u) \intersect rel = rel
    BY <1>2, Zenon
  <2> QED BY <1>6, <1>7, <2>1, FS_Difference, Zenon
<1>9. Cardinality(rel) <= Cardinality(Used(u))
  BY <1>2, <1>7, FS_Subset, Zenon
<1>10. setup_pdu_sessions[u] = Cardinality(Used(u))
  BY Zenon DEF Counts
<1>11. count = Cardinality(Used(u)) - Cardinality(rel)
  <2> DEFINE a == Cardinality(Used(u))
             b == Cardinality(rel)
  <2>1. a \in Nat /\ b \in Nat /\ a <= 255 /\ b <= a /\ count = (a + 256 - b) % 256
    BY <1>7, <1>9, <1>10, Zenon
  <2> HIDE DEF a, b, count
  <2>2. count = a - b
    BY <2>1
  <2> QED BY <2>2, Zenon DEF a, b
<1> HIDE DEF count
<1> QED BY <1>4, <1>8, <1>11, Zenon DEF Counts

LEMMA CountOther ==
    ASSUME IInv, CInv, NEW u \in Rntis, NEW req, release_other(u, req)
    PROVE  CInv'
<1> DEFINE slots == Marked(u, req)
           rel == OfTransaction(slots, next_xid)
           psis == ToldOf(slots, rel, req)
<1>1. TypeOK /\ IInv' /\ next_xid # NoXid
  BY ReleaseOther, NextXid, Zenon DEF IInv
<1>2. /\ ~releasing[u] /\ clean' = [clean EXCEPT ![u] = @ /\ reconf[u] = <<>>]
      /\ SlotsOf(u, req, "established") = {}
      /\ release_response(u, slots, next_xid, u, req)
      /\ UNCHANGED <<nb_of_pdusessions, release_flag, releasing, reconf>>
  BY Zenon DEF release_other, ReleaseCommand
<1>3. slots \in [Slots -> SlotRecord]
  BY <1>1, MarkedTypes, Zenon
<1>4. Freed(u, slots, rel, psis)
  BY <1>1, <1>2, <1>3, ReleaseResponse, Zenon
<1> HIDE DEF psis
<1>5. \A v \in Rntis \ {u} : Same(v)
  BY <1>1, <1>2, <1>4, Zenon DEF Same, TypeOK, Freed
<1>6. SUFFICES ASSUME clean'[u] PROVE Phased(u)' /\ Counts(u)' /\ Answering(u)'
  BY <1>5, OneUeCounted, Zenon
<1>7. clean[u] /\ reconf[u] = <<>>
  BY <1>1, <1>2, <1>6, Zenon DEF TypeOK
<1>8. Idle(u) /\ Counts(u) /\ Answering(u) /\ Orderly(u)
  BY <1>2, <1>7, CleanIdle, Zenon DEF CInv, IInv
<1>9. Phased(u)'
  BY <1>1, <1>2, <1>6, Zenon DEF IInv, Orderly, Phased
<1>10. \A i \in Slots : slots[i] = pduSession[u][i]
  <2>1. \A i \in Slots : i \notin SlotsOf(u, req, "established")
                         /\ pduSession[u][i].status # "failed"
    BY <1>2, <1>8, Zenon DEF Idle
  <2> QED BY <2>1, <1>1, MarkedTypes
<1>11. \A i \in Slots : i \notin rel
  BY <1>1, <1>8, <1>10, Zenon DEF OfTransaction, Idle
<1>12. Counts(u)'
  <2>1. \A i \in Slots : slots[i].status # "new" <=> pduSession[u][i].status # "new"
    BY <1>10, Zenon
  <2>2. \A i \in rel : slots[i].status # "new"
    BY <1>11, Zenon DEF OfTransaction
  <2> HIDE DEF slots
  <2> QED BY <1>1, <1>2, <1>3, <1>8, <2>1, <2>2, CountFreed, Zenon
<1> HIDE DEF rel, slots
<1>13. /\ \A i \in Slots : pduSession'[u][i].status = pduSession[u][i].status
                           /\ pduSession'[u][i].psi = pduSession[u][i].psi
       /\ \A p \in Psis : amf'[u][p] = IF p \in psis THEN NoSession ELSE amf[u][p]
  BY <1>4, <1>10, <1>11, Zenon DEF Freed
<1>14. NoSession.state = "none"
  BY DEF NoSession
<1>15. Answering(u)'
  <2>1. ASSUME NEW p \in Psis, amf'[u][p].state = "release" PROVE release_flag'[u]
    BY <2>1, <1>2, <1>8, <1>13, <1>14, Zenon DEF Answering
  <2>2. ASSUME pduSession'[u][1].status = "established"
        PROVE  amf'[u][pduSession'[u][1].psi].state # "setup"
    <3>1. pduSession[u][1].psi \in Psis /\ amf[u][pduSession[u][1].psi].state # "setup"
      BY <2>2, <1>8, <1>13, FirstSlot, Zenon DEF Orderly, Slot, Answering
    <3> QED BY <3>1, <1>13, <1>14, FirstSlot, Zenon
  <2> QED BY <2>1, <2>2, Zenon DEF Answering
<1> QED BY <1>9, <1>12, <1>15, Zenon

(* A Complete answers the one reconfiguration of a clean UE.               *)
LEMMA LastComplete ==
    ASSUME TypeOK, NEW u \in Rntis, SettingUp(u) \/ Releasing(u),
           reconf' = [reconf EXCEPT ![u] = Tail(reconf[u])]
    PROVE  reconf[u] = <<Head(reconf[u])>> /\ reconf'[u] = <<>>
<1>1. PICK x \in 0..NXids - 1 : reconf[u] = <<x>>
  BY Zenon DEF SettingUp, Releasing
<1>2. reconf'[u] = Tail(reconf[u])
  BY Zenon DEF TypeOK
<1> QED BY <1>1, <1>2

LEMMA CountComplete ==
    ASSUME IInv, CInv, NEW u \in Rntis, complete_setup(u)
    PROVE  CInv'
<1>1. TypeOK /\ AnsweredUe(u)
  BY SetupAnswers, Zenon DEF IInv
<1>2. /\ reconf[u] # <<>> /\ ~release_flag[u]
      /\ nb_of_pdusessions' = [nb_of_pdusessions EXCEPT ![u] = 0]
      /\ reconf' = [reconf EXCEPT ![u] = Tail(reconf[u])]
      /\ UNCHANGED <<gnb_gtp, setup_pdu_sessions, release_flag, releasing, clean>>
  BY Zenon DEF complete_setup
<1>3. \A v \in Rntis \ {u} : Same(v)
  BY <1>1, <1>2, Zenon DEF Same, TypeOK, AnsweredUe
<1>4. SUFFICES ASSUME clean'[u]
               PROVE  Phased(u)' /\ Counts(u)' /\ (~releasing'[u] => Answering(u)')
  BY <1>3, OneUeCounted, Zenon
<1>5. SettingUp(u) /\ Counts(u) /\ (~releasing[u] => Answering(u) /\ Orderly(u))
  BY <1>2, <1>4, Zenon DEF CInv, IInv, Phased, Idle, Releasing
<1>6. \A i \in Slots :
        /\ pduSession[u][i].status \in {"new", "done", "established"}
        /\ pduSession[u][i].status = "done" => i \in Below(u)
  BY <1>5, Zenon DEF SettingUp, Below
<1>7. \A i \in Slots :
        /\ pduSession'[u][i].psi = pduSession[u][i].psi /\ pduSession'[u][i].xid = NoXid
        /\ pduSession'[u][i].status =
             IF pduSession[u][i].status = "new" THEN "new" ELSE "established"
  <2>1. Answered("new") = "new" /\ Answered("done") = "established"
        /\ Answered("established") = "established"
    BY Zenon DEF Answered
  <2>2. \A i \in Slots :
        /\ pduSession'[u][i].psi = pduSession[u][i].psi /\ pduSession'[u][i].xid = NoXid
        /\ pduSession'[u][i].status = IF i \in Below(u)
                THEN Answered(pduSession[u][i].status) ELSE pduSession[u][i].status
    BY <1>1, Zenon DEF AnsweredUe
  <2> QED BY <2>1, <2>2, <1>6, Zenon
<1>8. Phased(u)'
  <2>1. reconf'[u] = <<>> /\ ~release_flag'[u]
    BY <1>1, <1>2, <1>5, LastComplete, Zenon
  <2> QED BY <2>1, <1>7, Zenon DEF Phased, Idle, Slots, NoXid
<1>9. Counts(u)'
  <2>1. Used(u)' = Used(u)
    <3>1. \A i \in Slots : pduSession'[u][i].status # "new"
                           <=> pduSession[u][i].status # "new"
      BY <1>7, Zenon
    <3> QED BY <3>1, Zenon DEF Used, Slots
  <2> QED BY <2>1, <1>2, <1>5, Zenon DEF Counts
<1>10. ASSUME ~releasing'[u] PROVE Answering(u)'
  <2>1. Answering(u) /\ Orderly(u)
    BY <1>2, <1>5, <1>10, Zenon
  <2>2. \A p \in Psis : /\ Now(u, p) => amf'[u][p].state = "up"
                        /\ ~Now(u, p) => amf'[u][p] = amf[u][p]
    BY <1>1, Zenon DEF AnsweredUe
  <2>3. ASSUME NEW p \in Psis, amf'[u][p].state = "release" PROVE release_flag'[u]
    <3>1. amf[u][p].state = "release"
      BY <2>2, <2>3, Zenon
    <3> QED BY <3>1, <2>1, <1>2, Zenon DEF Answering
  <2>4. ASSUME pduSession'[u][1].status = "established"
        PROVE  amf'[u][pduSession'[u][1].psi].state # "setup"
    <3> DEFINE p == pduSession[u][1].psi
    <3>1. pduSession'[u][1].psi = p /\ pduSession[u][1].status # "new"
      BY <2>4, <1>7, FirstSlot, Zenon
    <3>2. p \in Psis
      BY <3>1, <2>1, FirstSlot, Zenon DEF Orderly, Slot
    <3>3. CASE pduSession[u][1].status = "established"
      <4>1. amf[u][p].state # "setup"
        BY <3>3, <2>1, Zenon DEF Answering
      <4> QED BY <4>1, <3>1, <3>2, <2>2, Zenon
    <3>4. CASE pduSession[u][1].status = "done"
      <4>1. 1 \in DoneBelow(u) /\ DoneBelow(u) \in SUBSET Slots
        BY <3>4, <1>6, FirstSlot, Zenon DEF DoneBelow, Below
      <4>2. IsFiniteSet(DoneBelow(u)) /\ Cardinality(DoneBelow(u)) \in Nat
        BY <4>1, SlotSets, Zenon
      <4>3. Cardinality(DoneBelow(u)) # 0
        BY <4>1, <4>2, FS_EmptySet, Zenon
      <4>4. 1 <= Cardinality(DoneBelow(u))
        BY <4>2, <4>3
      <4>5. 1 \in Told(DoneBelow(u))
        BY <4>1, <4>4, Zenon DEF Told
      <4>6. amf[u][p].state = "setup" => Now(u, p)
        BY <4>5, Zenon DEF Now
      <4> QED BY <4>6, <3>1, <3>2, <2>2, Zenon
    <3> QED BY <3>1, <3>3, <3>4, <1>6, FirstSlot, Zenon
  <2> QED BY <2>3, <2>4, Zenon DEF Answering
<1> QED BY <1>8, <1>9, <1>10, Zenon

LEMMA CountRelease ==
    ASSUME IInv, CInv, NEW u \in Rntis, complete_release(u)
    PROVE  CInv'
<1> DEFINE x == Head(reconf[u])
           asked == {p \in Psis : amf[u][p].state = "release"}
           rel == OfTransaction(pduSession[u], x)
           psis == ToldOf(pduSession[u], rel, asked)
<1>1. TypeOK /\ pduSession[u] \in [Slots -> SlotRecord]
  BY Zenon DEF IInv, TypeOK, SlotRecord
<1>2. /\ reconf[u] # <<>> /\ release_flag[u]
      /\ release_response(u, pduSession[u], x, 0, asked)
      /\ release_flag' = [release_flag EXCEPT ![u] = FALSE]
      /\ reconf' = [reconf EXCEPT ![u] = Tail(reconf[u])]
      /\ UNCHANGED <<nb_of_pdusessions, releasing, clean>>
  BY Zenon DEF complete_release
<1>3. Freed(u, pduSession[u], rel, psis)
  BY <1>1, <1>2, ReleaseResponse, Zenon
<1> HIDE DEF x, asked, rel, psis
<1>4. \A v \in Rntis \ {u} : Same(v)
  BY <1>1, <1>2, <1>3, ZenonT(60) DEF Freed, Same, TypeOK
<1>5. SUFFICES ASSUME clean'[u]
               PROVE  Phased(u)' /\ Counts(u)' /\ (~releasing'[u] => Answering(u)')
  BY <1>4, OneUeCounted, Zenon
<1>6. Releasing(u) /\ Counts(u) /\ (~releasing[u] => Answering(u) /\ Orderly(u))
  BY <1>2, <1>5, Zenon DEF CInv, IInv, Phased, Idle, SettingUp
<1>7. reconf[u] = <<x>> /\ reconf'[u] = <<>>
  BY <1>1, <1>2, <1>6, LastComplete, Zenon DEF x
<1>8. \A i \in Slots : /\ pduSession[u][i].status \in {"new", "established", "torelease"}
                       /\ i \in rel <=> pduSession[u][i].status = "torelease"
  BY <1>6, <1>7 DEF Releasing, rel, OfTransaction
<1>9. /\ \A i \in Slots : i \in rel => pduSession'[u][i].status = "new"
      /\ \A i \in Slots : i \notin rel =>
            /\ pduSession'[u][i].status = pduSession[u][i].status
            /\ pduSession'[u][i].psi = pduSession[u][i].psi
      /\ \A i \in Slots : pduSession'[u][i].xid = NoXid
      /\ \A p \in Psis : amf'[u][p] = IF p \in psis THEN NoSession ELSE amf[u][p]
  BY <1>3, Zenon DEF Freed
<1>10. Phased(u)'
  <2>1. ~release_flag'[u]
    BY <1>1, <1>2, Zenon DEF TypeOK
  <2> QED BY <2>1, <1>7, <1>8, <1>9, Zenon DEF Phased, Idle, Slots, NoXid
<1>11. Counts(u)'
  <2>1. \A i \in OfTransaction(pduSession[u], x) : pduSession[u][i].status # "new"
    BY <1>8, Zenon DEF rel, OfTransaction
  <2> QED BY <2>1, <1>1, <1>2, <1>6, CountFreed, Zenon
<1>12. NoSession.state = "none"
  BY DEF NoSession
<1>13. ASSUME ~releasing'[u] PROVE Answering(u)'
  <2>1. Answering(u) /\ Orderly(u)
    BY <1>2, <1>6, <1>13, Zenon
  <2>2. ASSUME NEW p \in Psis PROVE amf'[u][p].state # "release"
    <3>1. CASE amf[u][p].state = "release"
      <4>1. p \in psis
        BY <3>1, Zenon DEF psis, ToldOf, asked
      <4> QED BY <4>1, <1>9, <1>12, Zenon
    <3>2. CASE amf[u][p].state # "release"
      BY <3>2, <1>9, <1>12, Zenon
    <3> QED BY <3>1, <3>2, Zenon
  <2>3. ASSUME pduSession'[u][1].status = "established"
        PROVE  amf'[u][pduSession'[u][1].psi].state # "setup"
    <3>1. /\ pduSession'[u][1].psi = pduSession[u][1].psi
          /\ pduSession[u][1].status = "established"
      BY <2>3, <1>9, FirstSlot, Zenon
    <3>2. pduSession[u][1].psi \in Psis /\ amf[u][pduSession[u][1].psi].state # "setup"
      BY <3>1, <2>1, FirstSlot, Zenon DEF Orderly, Slot, Answering
    <3> QED BY <3>1, <3>2, <1>9, <1>12, Zenon
  <2> QED BY <2>2, <2>3, Zenon DEF Answering
<1> QED BY <1>10, <1>11, <1>13, Zenon

LEMMA CountRemove ==
    ASSUME IInv, CInv, NEW u \in Rntis, release_command(u) \/ remove_ue(u)
    PROVE  CInv'
<1>1. TypeOK
  BY Zenon DEF IInv
<1>2. releasing[u] => \A p \in Psis : amf[u][p].state = "none"
  BY Zenon DEF IInv
<1>3. CASE release_command(u)
  <2> USE <1>3 DEF release_command
  <2>1. \A v \in Rntis \ {u} : Same(v)
    BY <1>1, Zenon DEF Same, TypeOK
  <2>2. releasing'[u] /\ clean' = clean
    BY <1>1, Zenon DEF TypeOK
  <2>3. UNCHANGED <<pduSession, setup_pdu_sessions, nb_of_pdusessions, release_flag, reconf>>
    BY Zenon
  <2>4. Phased(u) => Phased(u)'
    BY <2>3, SMTT(60) DEF Phased, Idle, SettingUp, Releasing, Slots, NoXid
  <2>5. Used(u)' = Used(u)
    BY <2>3, Zenon DEF Used, Slots
  <2>6. Counts(u) => Counts(u)'
    BY <2>3, <2>5, Zenon DEF Counts
  <2> QED BY <2>1, <2>2, <2>4, <2>6, OneUeCounted, Zenon DEF CInv
<1>4. CASE remove_ue(u)
  <2> USE <1>4 DEF remove_ue
  <2>1. \A v \in Rntis \ {u} : Same(v)
    BY <1>1, ZenonT(60) DEF Same, TypeOK
  <2>2. /\ pduSession'[u] = [i \in Slots |-> FreeSlot] /\ setup_pdu_sessions'[u] = 0
        /\ reconf'[u] = <<>> /\ ~release_flag'[u] /\ amf' = amf
    BY <1>1, ZenonT(60) DEF TypeOK
  <2>3. \A i \in Slots : pduSession'[u][i].status = "new" /\ pduSession'[u][i].xid = NoXid
    <3>1. FreeSlot.status = "new" /\ FreeSlot.xid = NoXid
      BY DEF FreeSlot
    <3>2. \A i \in Slots : pduSession'[u][i] = FreeSlot
      BY <2>2, ZenonT(60)
    <3> QED BY <3>1, <3>2, Zenon
  <2>4. Phased(u)'
    BY <2>2, <2>3, Zenon DEF Phased, Idle, Slots, NoXid
  <2>5. Counts(u)'
    <3>1. Used(u)' = {}
      BY <2>3, Zenon DEF Used, Slots
    <3> QED BY <3>1, <2>2, FS_EmptySet, Zenon DEF Counts
  <2>6. Answering(u)'
    <3>1. \A p \in Psis : amf'[u][p].state = "none"
      <4>1. amf' = amf
        BY <2>2, Zenon
      <4>2. releasing[u]
        BY Zenon
      <4> HIDE <1>4 DEF remove_ue
      <4> QED BY <4>1, <4>2, <1>2, Zenon
    <3>2. pduSession'[u][1].status = "new"
      BY <2>3, FirstSlot, Zenon
    <3> QED BY <3>1, <3>2, Zenon DEF Answering
  <2> QED BY <2>1, <2>4, <2>5, <2>6, OneUeCounted, Zenon
<1> QED BY <1>3, <1>4, Zenon
-----------------------------------------------------------------------------
LEMMA InitCInv == Init => CInv
<1> SUFFICES ASSUME Init, NEW u \in Rntis PROVE Phased(u) /\ Counts(u) /\ Answering(u)
  BY Zenon DEF CInv
<1>1. /\ \A i \in Slots : pduSession[u][i].status = "new" /\ pduSession[u][i].xid = NoXid
      /\ \A p \in Psis : amf[u][p].state = "none"
      /\ reconf[u] = <<>> /\ ~release_flag[u] /\ setup_pdu_sessions[u] = 0
  BY Zenon DEF Init, FreeSlot, NoSession
<1>2. Used(u) = {}
  BY <1>1, Zenon DEF Used
<1>3. Counts(u)
  BY <1>1, <1>2, FS_EmptySet, Zenon DEF Counts
<1> QED BY <1>1, <1>3, FirstSlot, Zenon DEF Phased, Idle, Answering

LEMMA NextCInv == IInv /\ CInv /\ [Next]_vars => CInv'
<1> SUFFICES ASSUME IInv, CInv, [Next]_vars PROVE CInv'
  BY Zenon
<1>1. CASE other_message \/ UNCHANGED vars
  <2>1. \A v \in Rntis : Same(v)
    BY <1>1, Zenon DEF other_message, ueVars, vars, Same
  <2>2. ASSUME NEW v \in Rntis, clean'[v]
        PROVE  Phased(v)' /\ Counts(v)' /\ (~releasing'[v] => Answering(v)')
    <3>1. Same(v) /\ clean'[v] = clean[v] /\ releasing'[v] = releasing[v]
      BY <2>1, Zenon DEF Same
    <3>2. Phased(v) /\ Counts(v) /\ (~releasing[v] => Answering(v))
      BY <2>2, <3>1, Zenon DEF CInv
    <3> QED BY <3>1, <3>2, CountedOther, Zenon
  <2> QED BY <2>2, Zenon DEF CInv
<1>2. ASSUME NEW u \in Rntis, NEW req \in (SUBSET Psis) \ {{}},
             setup_request(u, req) \/ release_established(u, req) \/ release_other(u, req)
      PROVE  CInv'
  BY <1>2, CountSetup, CountEstablished, CountOther, Zenon
<1>3. ASSUME NEW u \in Rntis, complete_other(u) PROVE CInv'
  <2>1. ~clean[u]
    BY <1>3, SMTT(60) DEF complete_other, CInv, Phased, Idle, SettingUp, Releasing
  <2>2. TypeOK /\ clean' = clean
    BY <1>3, Zenon DEF complete_other, IInv
  <2>3. \A v \in Rntis \ {u} : Same(v)
    BY <1>3, <2>2, Zenon DEF complete_other, Same, TypeOK
  <2> QED BY <2>1, <2>2, <2>3, OneUeCounted, Zenon
<1>4. ASSUME NEW u \in Rntis, Complete(u) PROVE CInv'
  BY <1>3, <1>4, CountRelease, CountComplete, Zenon DEF Complete
<1>5. ASSUME NEW u \in Rntis, release_command(u) \/ remove_ue(u) PROVE CInv'
  BY <1>5, CountRemove, Zenon
<1> QED BY <1>1, <1>2, <1>4, <1>5, Zenon DEF Next

LEMMA CInvAnswered == IInv /\ CInv => RequestsAnswered
<1> SUFFICES ASSUME IInv, CInv, NEW u \in Rntis, NEW p \in Psis, clean[u],
                    reconf[u] = <<>>
             PROVE  /\ amf[u][p].state # "release"
                    /\ amf[u][p].state = "setup" => pduSession[u][1].psi # p
  BY Zenon DEF RequestsAnswered
<1>1. Idle(u)
  BY CleanIdle, Zenon
<1>2. CASE releasing[u]
  BY <1>2, Zenon DEF IInv
<1>3. CASE ~releasing[u]
  <2>1. Answering(u) /\ Orderly(u) /\ 0 \notin Psis
    BY <1>3, ConstantsAssumption, Zenon DEF CInv, IInv
  <2>2. amf[u][p].state # "release"
    BY <1>1, <2>1, Zenon DEF Answering, Idle
  <2>3. ASSUME pduSession[u][1].psi = p PROVE amf[u][p].state # "setup"
    <3>1. pduSession[u][1].status # "new"
      BY <2>1, <2>3, FirstSlot, Zenon DEF Orderly, Slot
    <3>2. pduSession[u][1].status = "established"
      BY <3>1, <1>1, FirstSlot, Zenon DEF Idle
    <3> QED BY <3>2, <2>1, <2>3, Zenon DEF Answering
  <2> QED BY <2>2, <2>3, Zenon
<1> QED BY <1>2, <1>3, Zenon

(* setup_pdu_sessions, a uint8_t that every setup adds to and every release *)
(* takes from, is the number of slots in use at a clean UE.                *)
THEOREM SessionsAreCounted == Spec => []SetupCount
<1>1. CInv => SetupCount
  BY Zenon DEF CInv, SetupCount, Counts, Used
<1> QED BY <1>1, InitIInv, NextIInv, InitCInv, NextCInv, PTL DEF Spec

(* Every Complete of a clean UE ends the procedure it belongs to: once none *)
(* is outstanding the AMF awaits no release, and no setup of the session in *)
(* the first slot.                                                         *)
THEOREM RequestsAreAnswered == Spec => []RequestsAnswered
BY InitIInv, NextIInv, InitCInv, NextCInv, CInvAnswered, PTL DEF Spec
=============================================================================
