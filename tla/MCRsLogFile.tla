---------------------------- MODULE MCRsLogFile ----------------------------
(* Small instances of RsLogFile for TLC. *)
EXTENDS RsLogFile, TLC

LogSymmetry == Permutations(Threads) \cup Permutations(Paths)
=============================================================================
