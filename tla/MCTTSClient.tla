------------------------------ MODULE MCTTSClient ------------------------------
(***************************************************************************)
(* TTSClient for TLC: a process is started with one of the two backends.   *)
(***************************************************************************)
EXTENDS TTSClient, TLC

\* Each backend selected in a way of its own.
MCEnvironments ==
  { [default |-> "unset", backend |-> "comrpc", thunder |-> "unset"],
    [default |-> "firebolt", backend |-> "unset", thunder |-> "unset"] }

\* The applications are alike, and so are the threads of the pool.
Symmetry == Permutations(Apps) \cup Permutations(Pool)
================================================================================
