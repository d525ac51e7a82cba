---------------------------- MODULE MCDbHandler ----------------------------
(* Instances of DbHandler for TLC. *)
EXTENDS DbHandler

CONSTANTS w1, w2

TwoWorkers == {w1, w2}

OneWorker == {w1}
============================================================================
