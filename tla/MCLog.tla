------------------------------- MODULE MCLog -------------------------------
(* The log for TLC: system calls are interchangeable, and so are blocks.   *)
EXTENDS Log, TLC

Sym == Permutations(Ops) \cup Permutations(Blocks)

=============================================================================
