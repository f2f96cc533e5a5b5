---------------------------- MODULE MCInterrupts ----------------------------
(***************************************************************************)
(* The CPUs and the console, the two parts of the kernel whose handlers    *)
(* interrupt other code.  They share no variable: each behaviour is one of *)
(* one part, chosen at the start, while the other stays as it was.         *)
(***************************************************************************)
EXTENDS Console, Cpu

CONSTANTS rd, w1, w2

VARIABLE part

MCSessions == {
  [users |-> {rd}, typed |-> {"x", "\r", "^U"}], [users |-> {rd}, typed |-> {"x", "^D"}],
  [users |-> {w1}, typed |-> {"x", "^H"}], [users |-> {w1, w2}, typed |-> {"x"}]}

MCInit ==
  /\ part \in {"console", "cpu"}
  /\ CpuInit
  /\ ConsInit /\ (part = "cpu" => session = CHOOSE s \in Sessions : TRUE)

MCNext ==
  \/ part = "console" /\ ConsNext /\ UNCHANGED <<part, cpuVars>>
  \/ part = "cpu" /\ CpuNext /\ UNCHANGED <<part, conVars>>

MCSpec == MCInit /\ [][MCNext]_<<part, conVars, cpuVars>> /\ ConsFair
=============================================================================
