------------------------------ MODULE MCBcache ------------------------------
(* The buffer cache for TLC.                                               *)
EXTENDS Bcache, TLC

Sym == Permutations(Procs) \cup Permutations(Blocks)

=============================================================================
