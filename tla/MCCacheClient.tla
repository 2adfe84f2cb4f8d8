--------------------------- MODULE MCCacheClient ---------------------------
(* Model values for CacheClient. *)
EXTENDS CacheClient

CONSTANTS n1, n2, c1, c2, c3, k1, k2

(* A refresh takes the lock; a plain call comes with and without it. *)
SomeOptions == {[force |-> f, lock |-> l] : f \in {FALSE}, l \in BOOLEAN}
                 \cup {[force |-> TRUE, lock |-> TRUE]}
=============================================================================
