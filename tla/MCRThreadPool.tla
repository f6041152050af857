--------------------------- MODULE MCRThreadPool ---------------------------
(* Small instances of RThreadPool for TLC. *)
EXTENDS RThreadPool, TLC

\* All jobs of one priority, as the callers in rpc_srv_demo_linux/src submit them.
OnePriority == [j \in Jobs |-> 0]

PoolSymmetry == Permutations(Jobs) \cup Permutations(Threads) \cup Permutations(Submitters)
=============================================================================
