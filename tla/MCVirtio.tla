------------------------------ MODULE MCVirtio ------------------------------
(* The disk driver for TLC.                                                *)
EXTENDS Virtio, TLC

Sym == Permutations(Procs) \cup Permutations(Bufs)

=============================================================================
