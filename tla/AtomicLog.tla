----------------------------- MODULE AtomicLog -----------------------------
(***************************************************************************)
(* What kernel/log.c promises to the file system.  The blocks have a value *)
(* that a crash cannot take away (stable) and a value that system calls    *)
(* see (view).  System calls update the view one block at a time; what     *)
(* becomes stable is always the whole view, at a moment when no system     *)
(* call is between begin_op() and end_op(), so that a crash leaves all the *)
(* updates of a system call or none.                                       *)
(***************************************************************************)
CONSTANTS Blocks, Vals, Ops

VARIABLES stable, view, active

avars == <<stable, view, active>>

Init ==
  /\ stable \in [Blocks -> Vals]
  /\ view = stable
  /\ active = {}

Begin(o) ==
  /\ active' = active \cup {o}
  /\ UNCHANGED <<stable, view>>

Write(o, b, v) ==
  /\ o \in active
  /\ view' = [view EXCEPT ![b] = v]
  /\ UNCHANGED <<stable, active>>

End(o) ==
  /\ active' = active \ {o}
  /\ UNCHANGED <<stable, view>>

Commit ==
  /\ active = {}
  /\ stable' = view
  /\ UNCHANGED <<view, active>>

Crash ==
  /\ view' = stable
  /\ active' = {}
  /\ UNCHANGED stable

Next ==
  \/ \E o \in Ops : Begin(o) \/ End(o)
  \/ \E o \in Ops, b \in Blocks, v \in Vals : Write(o, b, v)
  \/ Commit
  \/ Crash

Spec == Init /\ [][Next]_avars

=============================================================================
