------------------------------ MODULE ProcInv ------------------------------
(***************************************************************************)
(* The inductive invariant behind the safety properties of Proc, in three  *)
(* layers: who owns which lock and stack; how fork, exit and reparent keep *)
(* the family together; why exit() never misses a parent in wait().        *)
(***************************************************************************)
EXTENDS Proc

ForkPcs == {"fork_parent", "fork_run"}
ExitPcs == {"reparent", "reparent_wakeup", "exit_wakeup", "exit_zombie", "gone"}
Started == {"SLEEPING", "RUNNABLE", "RUNNING"}
OnCpu(p) == \E c \in Cpus : cproc[c] = p

(* p->lock is owned exactly by the CPU that is on p's stack inside         *)
(* sched(), wait_lock exactly by the CPU whose thread is between its       *)
(* acquire and release.                                                    *)
PLockInv == \A p \in Procs, c \in Cpus : plock[p] = c <=> cproc[c] = p /\ InSched(p)

WaitLockInv ==
  /\ \A c \in Cpus : waitLock = c => cproc[c] # Null /\ pc[cproc[c]] \in WaitLockPcs
  /\ \A p \in Procs : pc[p] \in WaitLockPcs =>
       ~inyield[p] /\ \E c \in Cpus : cproc[c] = p /\ waitLock = c

StackInv == \A c, d \in Cpus : cproc[c] # Null /\ cproc[c] = cproc[d] => c = d

(* What p->state says about the thread of p.                               *)
StateInv ==
  \A p \in Procs :
    /\ OnCpu(p) => state[p] \in Started \cup {"ZOMBIE"}
    /\ ~InSched(p) => state[p] = "RUNNING"
    /\ state[p] = "RUNNING" => OnCpu(p)
    /\ inyield[p] => pc[p] \notin SchedPcs
    /\ state[p] = "SLEEPING" => pc[p] = "wait_slept" /\ chan[p] = p
    /\ state[p] \in {"UNUSED", "ZOMBIE"} <=> pc[p] = "gone"
    /\ state[p] = "USED" => pc[p] = "forkret"

(* fork()'s child is USED and belongs to one forking thread.               *)
ChildInv ==
  /\ \A p \in Procs : pc[p] \in ForkPcs => np[p] \in Procs /\ state[np[p]] = "USED"
  /\ \A p, q \in Procs : pc[p] \in ForkPcs /\ pc[q] \in ForkPcs /\ np[p] = np[q] => p = q

LockInv == PLockInv /\ WaitLockInv /\ StackInv /\ StateInv /\ ChildInv

(* A loop index is 0 outside its loop.                                     *)
LocalInv ==
  \A p \in Procs :
    /\ pc[p] \notin {"fork_scan", "kill_scan", "reparent", "reparent_wakeup",
                     "wait_scan", "wait_sleep"} => idx[p] = 0
    /\ pc[p] \notin {"reparent_wakeup", "exit_wakeup"} => widx[p] = 0

(* fork()'s child is younger, and p's child only once p has said so.       *)
ForkInv ==
  \A p \in Procs : pc[p] \in ForkPcs =>
    /\ pid[p] < pid[np[p]]
    /\ parent[np[p]] = IF pc[p] = "fork_run" THEN p ELSE Null

(* A parent has started, is not dead and is older than its child; init is  *)
(* never freed.                                                            *)
ParentInv ==
  /\ state[initproc] \in Started /\ pid[initproc] = 1 /\ parent[initproc] = Null
  /\ \A p \in Procs : pc[p] \in ExitPcs => p # initproc
  /\ \A q \in Procs : state[q] \in Started \cup {"ZOMBIE"} /\ q # initproc => parent[q] # Null
  /\ \A q \in Procs : parent[q] # Null => /\ state[q] # "UNUSED"
                                          /\ state[parent[q]] \in Started
                                          /\ pid[parent[q]] < pid[q]

(* How far reparent() has come.                                            *)
ReparentInv ==
  \A p \in Procs :
    /\ pc[p] = "reparent" => \A q \in Procs : q < idx[p] => parent[q] # p
    /\ pc[p] = "reparent_wakeup" => \A q \in Procs : q <= idx[p] => parent[q] # p
    /\ pc[p] \in {"exit_wakeup", "exit_zombie"} => \A q \in Procs : parent[q] # p

PidInv ==
  /\ \A p \in Procs : pid[p] < nextpid /\ (state[p] # "UNUSED" => pid[p] # 0)
  /\ \A p, q \in Procs : pid[p] = pid[q] /\ state[p] # "UNUSED" => p = q

FamilyInv == LocalInv /\ ForkInv /\ ParentInv /\ ReparentInv /\ PidInv

(* A parent asleep with a ZOMBIE child is init, about to be woken by the   *)
(* reparent() that gave it the child.                                      *)
SleepInv ==
  \A p, q \in Procs :
    state[p] = "SLEEPING" /\ parent[q] = p /\ state[q] = "ZOMBIE" =>
      \E r \in Procs : pc[r] = "reparent_wakeup" /\ p = initproc /\ widx[r] <= initproc

(* wait()'s scan has passed no ZOMBIE child, and exit()'s wakeup has passed *)
(* no sleeping parent.                                                     *)
ScanInv ==
  \A p, q \in Procs :
    /\ pc[p] = "wait_scan" /\ parent[q] = p /\ state[q] = "ZOMBIE" => idx[p] <= q
    /\ pc[p] = "wait_sleep" /\ parent[q] = p => state[q] # "ZOMBIE"
    /\ pc[q] = "exit_wakeup" /\ parent[q] = p /\ state[p] = "SLEEPING" => widx[q] <= p
    /\ pc[q] = "exit_zombie" /\ parent[q] = p => state[p] # "SLEEPING"

WakeInv == SleepInv /\ ScanInv

IInv == TypeOK /\ LockInv /\ FamilyInv /\ WakeInv
=============================================================================
