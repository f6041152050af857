--------------------------- MODULE MCWThreadPool ---------------------------
(* Small instances of WThreadPool for TLC. *)
EXTENDS WThreadPool

OnePriority == [j \in Jobs |-> 0]
AllPoll == Jobs
=============================================================================
