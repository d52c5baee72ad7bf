---------------------------- MODULE MCThreadPool ----------------------------
(* Small instances of ThreadPool: two workers, jobs of two keys.            *)
EXTENDS ThreadPool, TLC

CONSTANTS j1, j2, j3, w1, w2, k1, k2

\* j1 and j3 share a key, as the segments of one transport block do.
MCKeyOf == j1 :> k1 @@ j2 :> k2 @@ j3 :> k1
=============================================================================
