------------------------------ MODULE ProcTree ------------------------------
(***************************************************************************)
(* What fork, exit and wait promise about the family of processes, without *)
(* locks, CPUs, scheduling or sleeping: a process is created by a living   *)
(* parent, starts only once it has a parent, dies only when it has no      *)
(* children left (they are given to init first), and disappears only when  *)
(* its living parent collects it.                                          *)
(***************************************************************************)
CONSTANTS
  Procs,      \* the slots a process can have
  initproc,   \* the slot of init
  Null        \* no parent

VARIABLES
  life,       \* "none", "embryo", "live" or "dead"
  par         \* the parent

vars == <<life, par>>

Init ==
  /\ life = [p \in Procs |-> IF p = initproc THEN "live" ELSE "none"]
  /\ par = [p \in Procs |-> Null]

(* A slot is taken for a child of somebody alive; it may be given back.    *)
Reserve(q) ==
  /\ life[q] = "none"
  /\ life' = [life EXCEPT ![q] = "embryo"]
  /\ UNCHANGED par

(* A live process becomes the parent of an embryo.                         *)
Bear(p, q) ==
  /\ life[p] = "live" /\ life[q] = "embryo" /\ par[q] = Null
  /\ par' = [par EXCEPT ![q] = p]
  /\ UNCHANGED life

(* The child starts.                                                       *)
Start(q) ==
  /\ life[q] = "embryo" /\ par[q] # Null
  /\ life' = [life EXCEPT ![q] = "live"]
  /\ UNCHANGED par

(* A child of a live process is given to init.                             *)
Adopt(p, q) ==
  /\ life[p] = "live" /\ p # initproc /\ par[q] = p
  /\ par' = [par EXCEPT ![q] = initproc]
  /\ UNCHANGED life

(* A process without children dies; init never does.                       *)
Die(p) ==
  /\ life[p] = "live" /\ p # initproc
  /\ \A q \in Procs : par[q] # p
  /\ life' = [life EXCEPT ![p] = "dead"]
  /\ UNCHANGED par

(* A dead process is collected by its live parent.                         *)
Collect(p, q) ==
  /\ life[p] = "live" /\ life[q] = "dead" /\ par[q] = p
  /\ life' = [life EXCEPT ![q] = "none"]
  /\ par' = [par EXCEPT ![q] = Null]

Next == \E q \in Procs : \/ Reserve(q) \/ Start(q) \/ Die(q)
                         \/ \E p \in Procs : Bear(p, q) \/ Adopt(p, q) \/ Collect(p, q)

Spec == Init /\ [][Next]_vars
=============================================================================
