------------------------------- MODULE MCProc -------------------------------
(* The process table for TLC: the CPUs are interchangeable.                *)
EXTENDS Proc, TLC

Sym == Permutations(Cpus)

=============================================================================
