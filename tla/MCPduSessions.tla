--------------------------- MODULE MCPduSessions ---------------------------
(* Small instances of PduSessions.  UEs and session ids are interchangeable. *)
EXTENDS PduSessions, TLC

Symmetry == Permutations(Rntis) \union Permutations(Psis)
=============================================================================
