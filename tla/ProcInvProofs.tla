--------------------------- MODULE ProcInvProofs ----------------------------
(***************************************************************************)
(* For any number of processes and CPUs, every action keeps the family and *)
(* the wakeup layers of the inductive invariant of ProcInv, given the type *)
(* and lock layers.  Most actions are calm or quiet: they change nothing a *)
(* layer speaks of; the others have a lemma each.                          *)
(***************************************************************************)
EXTENDS ProcInv, TLAPS

(* Ranges of indexes and pids.                                             *)
LEMMA IndexFacts ==
    /\ Null \notin Procs /\ initproc \in Procs /\ 0 \in Indexes /\ 0 \in Pids
    /\ \A p \in Procs : 0 <= p
    /\ Procs \subseteq Nat /\ Indexes \subseteq Nat /\ Pids \subseteq Nat /\ NextPids \subseteq Nat
    /\ \A i \in Indexes : i < NPROC => i \in Procs /\ i + 1 \in Indexes
    /\ \A n \in NextPids : 0 < n /\ (n <= MaxPid => n \in Pids /\ n + 1 \in NextPids)
    /\ 0 .. MaxPid \subseteq Pids
    /\ \A p \in Procs : NextEntry(p) \in Procs
  <1>1. \A p \in Procs : NextEntry(p) \in Procs
    BY NPROCAssumption DEF Procs, NextEntry
  <1> QED
    BY <1>1, NPROCAssumption, NullAssumption, MaxPidAssumption
    DEF Procs, Indexes, Pids, NextPids, initproc

(* The labels, without the grouping by lock.                               *)
LEMMA PcFacts ==
    Pcs = {"user", "fork_scan", "fork_parent", "fork_run", "exit", "wait", "kill_scan",
           "trapret", "panicked", "reparent", "reparent_wakeup", "exit_wakeup",
           "exit_zombie", "wait_scan", "wait_sleep", "forkret", "wait_slept", "gone"}
  BY DEF Pcs, WaitLockPcs, SchedPcs

(* Where a system call starts.                                             *)
LEMMA EntryFacts ==
    \A call \in Syscalls : Entry[call] \in {"fork_scan", "exit", "wait", "kill_scan"}
  BY SyscallsAssumption DEF Entry, ProcNames

(* Comparisons of table indexes.                                           *)
LEMMA IndexOrder ==
    \A q \in Procs, i \in Indexes : (q < i + 1 => q < i \/ q = i) /\ (q < i => q <= i)
  BY NPROCAssumption DEF Procs, Indexes

(* A step that leaves the family alone: no parent, pid or slot changes     *)
(* hands, a process that has started stays started, and a thread that goes *)
(* on does so outside fork(), reparent() and exit().                       *)
Calm ==
  /\ UNCHANGED <<parent, pid, nextpid>>
  /\ \A q \in Procs : state'[q] = state[q] \/ (state[q] \in Started /\ state'[q] \in Started)
  /\ \A q \in Procs :
       \/ /\ pc'[q] = pc[q] /\ idx'[q] = idx[q] /\ np'[q] = np[q]
          /\ widx'[q] = widx[q] \/ pc[q] \in {"reparent_wakeup", "exit_wakeup"}
       \/ /\ pc'[q] \notin ForkPcs \cup ExitPcs
          /\ idx'[q] = 0 \/ pc'[q] \in {"fork_scan", "kill_scan", "wait_scan", "wait_sleep"}
          /\ widx'[q] = 0

(* A step that hides nobody from a wakeup: no process gains a parent, falls *)
(* asleep or becomes a ZOMBIE, and a thread that moves neither ends a      *)
(* wakeup nor enters a loop that looks for ZOMBIEs or sleepers.            *)
Quiet ==
  /\ \A q, x \in Procs : parent'[q] = x => parent[q] = x
  /\ \A q \in Procs : \A s \in {"SLEEPING", "ZOMBIE"} : state'[q] = s => state[q] = s
  /\ \A q \in Procs :
       \/ pc'[q] = pc[q] /\ idx'[q] = idx[q] /\ widx'[q] = widx[q]
       \/ /\ pc[q] # "reparent_wakeup"
          /\ pc'[q] \notin {"reparent_wakeup", "wait_scan", "wait_sleep",
                            "exit_wakeup", "exit_zombie"}

(* A calm step keeps the family together.                                  *)
LEMMA CalmKeeps ==
    ASSUME TypeOK, FamilyInv, Calm PROVE FamilyInv'
  <1>a. LocalInv /\ ForkInv /\ ParentInv /\ ReparentInv /\ PidInv
    BY Zenon DEF FamilyInv
  <1>1. LocalInv'
    BY SMTT(60), <1>a DEF LocalInv, Calm, ForkPcs, ExitPcs
  <1>2. ForkInv'
    BY SMTT(60), <1>a DEF ForkInv, Calm, ForkPcs
  <1>3. ParentInv'
    <2>1. initproc \in Procs /\ \A q \in Procs : parent[q] # Null => parent[q] \in Procs
      BY Zenon, IndexFacts DEF TypeOK
    <2> QED
      BY SMTT(60), <1>a, <2>1 DEF ParentInv, Calm, ExitPcs, Started
  <1>4. ReparentInv'
    BY SMTT(60), <1>a DEF ReparentInv, Calm, ExitPcs
  <1>5. PidInv'
    BY SMTT(60), <1>a DEF PidInv, Calm, Started
  <1> QED
    BY Zenon, <1>1, <1>2, <1>3, <1>4, <1>5 DEF FamilyInv

(* A quiet step keeps the wakeup layer.                                    *)
LEMMA QuietKeeps ==
    ASSUME WakeInv, Quiet PROVE WakeInv'
  <1>a. SleepInv /\ ScanInv
    BY Zenon DEF WakeInv
  <1>1. SleepInv'
    BY SMTT(60), <1>a DEF SleepInv, Quiet
  <1>2. ScanInv'
    BY SMTT(60), <1>a DEF ScanInv, Quiet
  <1> QED
    BY Zenon, <1>1, <1>2 DEF WakeInv

(* Every step outside fork(), reparent() and the end of exit() is calm, and *)
(* so is a wakeup: SLEEPING to RUNNABLE.                                   *)
LEMMA CalmSteps ==
    ASSUME TypeOK, LockInv, LocalInv, NEW c \in Cpus, NEW p \in Procs
    PROVE
       \/ SchedSkip(c) \/ SchedRun(c) \/ Swtch(c, p) \/ YieldReturn(c, p) \/ Forkret(c, p)
       \/ SleepReturn(c, p) \/ TrapReturn(c, p) \/ ForkSkip(c, p) \/ ForkFull(c, p)
       \/ ExitPanic(c, p) \/ ReparentWakeup(c, p) \/ ExitWakeup(c, p) \/ WaitLock(c, p)
       \/ WaitSkip(c, p) \/ WaitCopyoutFail(c, p) \/ WaitNone(c, p) \/ WaitCheckKilled(c, p)
       \/ WaitSleep(c, p) \/ KillSkip(c, p) \/ KillFound(c, p) \/ KillNone(c, p)
       \/ Syscall(c, p) \/ Fault(c, p) \/ TrapKilled(c, p) \/ UserTimer(c, p)
       \/ KernelTimer(c, p)
       => Calm
  <1>t. /\ state \in [Procs -> ProcStates] /\ pc \in [Procs -> Pcs] /\ parent \in [Procs -> Procs \cup {Null}]
        /\ idx \in [Procs -> Indexes] /\ widx \in [Procs -> Indexes] /\ np \in [Procs -> Procs \cup {Null}]
        /\ sidx \in [Cpus -> Procs] /\ Null \notin Procs
        /\ \A i \in Indexes : i < NPROC => i \in Procs
    BY Zenon, IndexFacts DEF TypeOK
  <1>s. ~InSched(p) => state[p] = "RUNNING"
    BY Zenon DEF LockInv, StateInv
  <1>r. ~inyield[p] /\ pc[p] \in {"user", "wait_sleep"} => state[p] = "RUNNING"
    BY SMTT(60), <1>s DEF InSched, SchedPcs
  <1>l. /\ pc[p] \notin {"fork_scan", "kill_scan", "reparent", "reparent_wakeup",
                        "wait_scan", "wait_sleep"} => idx[p] = 0
        /\ pc[p] \notin {"reparent_wakeup", "exit_wakeup"} => widx[p] = 0
    BY Zenon DEF LocalInv
  <1> USE <1>t, <1>l DEF Calm, ForkPcs, ExitPcs, Started
  <1>1. ASSUME SchedSkip(c) PROVE Calm
    BY SMTT(60), <1>1 DEF SchedSkip, procVars, lockVars, threadVars, cpuVars, localVars
  <1>2. ASSUME SchedRun(c) PROVE Calm
    BY SMTT(60), <1>2 DEF SchedRun, threadVars, procVars, lockVars, cpuVars, localVars
  <1>3. ASSUME Swtch(c, p) PROVE Calm
    BY SMTT(60), <1>3 DEF Swtch, procVars, threadVars, lockVars, cpuVars, localVars
  <1>4. ASSUME YieldReturn(c, p) PROVE Calm
    BY SMTT(60), <1>4 DEF YieldReturn, procVars, cpuVars, localVars
  <1>5. ASSUME Forkret(c, p) PROVE Calm
    BY SMTT(60), <1>5 DEF Forkret, At, Goto, procVars, cpuVars, localVars
  <1>6. ASSUME SleepReturn(c, p) PROVE Calm
    BY SMTT(60), <1>6 DEF SleepReturn, At, Goto, cpuVars, localVars
  <1>7. ASSUME TrapReturn(c, p) PROVE Calm
    BY SMTT(60), <1>7 DEF TrapReturn, At, Goto, procVars, lockVars, cpuVars, localVars
  <1>8. ASSUME ForkSkip(c, p) PROVE Calm
    BY SMTT(60), <1>8 DEF ForkSkip, At, procVars, lockVars, cpuVars
  <1>9. ASSUME ForkFull(c, p) PROVE Calm
    BY SMTT(60), <1>9 DEF ForkFull, At, Goto, procVars, lockVars, cpuVars
  <1>10. ASSUME ExitPanic(c, p) PROVE Calm
    BY SMTT(60), <1>10 DEF ExitPanic, At, Goto, procVars, lockVars, cpuVars, localVars
  <1>11. ASSUME ReparentWakeup(c, p) PROVE Calm
    BY SMTT(60), <1>11 DEF ReparentWakeup, At, WakeupEntry, lockVars, cpuVars
  <1>12. ASSUME ExitWakeup(c, p) PROVE Calm
    BY SMTT(60), <1>12 DEF ExitWakeup, At, WakeupEntry, lockVars, cpuVars
  <1>13. ASSUME WaitLock(c, p) PROVE Calm
    BY SMTT(60), <1>13 DEF WaitLock, At, Goto, procVars, cpuVars, localVars
  <1>14. ASSUME WaitSkip(c, p) PROVE Calm
    BY SMTT(60), <1>14 DEF WaitSkip, At, procVars, lockVars, cpuVars
  <1>15. ASSUME WaitCopyoutFail(c, p) PROVE Calm
    BY SMTT(60), <1>15 DEF WaitCopyoutFail, procVars, cpuVars, FoundZombie, At, WaitLeave, Goto
  <1>16. ASSUME WaitNone(c, p) PROVE Calm
    BY SMTT(60), <1>16 DEF WaitNone, At, procVars, cpuVars, WaitLeave, Goto
  <1>17. ASSUME WaitCheckKilled(c, p) PROVE Calm
    BY SMTT(60), <1>17 DEF WaitCheckKilled, At, Goto, procVars, lockVars, cpuVars, localVars
  <1>18. ASSUME WaitSleep(c, p) PROVE Calm
    BY SMTT(60), <1>18, <1>r DEF WaitSleep, At, cpuVars, WaitLeave, Goto
  <1>19. ASSUME KillSkip(c, p) PROVE Calm
    BY SMTT(60), <1>19 DEF KillSkip, At, procVars, lockVars, cpuVars
  <1>20. ASSUME KillFound(c, p) PROVE Calm
    BY SMTT(60), <1>20 DEF KillFound, At, lockVars, cpuVars, KillLeave, Goto
  <1>21. ASSUME KillNone(c, p) PROVE Calm
    BY SMTT(60), <1>21 DEF KillNone, At, procVars, lockVars, cpuVars, KillLeave, Goto
  <1>22. ASSUME Syscall(c, p) PROVE Calm
    BY SMTT(60), <1>22, EntryFacts DEF Syscall, At, Goto, procVars, lockVars, cpuVars
  <1>23. ASSUME Fault(c, p) PROVE Calm
    BY SMTT(60), <1>23 DEF Fault, At, Goto, lockVars, cpuVars, localVars
  <1>24. ASSUME TrapKilled(c, p) PROVE Calm
    BY SMTT(60), <1>24 DEF TrapKilled, At, Goto, procVars, lockVars, cpuVars, localVars
  <1>25. ASSUME UserTimer(c, p) PROVE Calm
    BY SMTT(60), <1>25, <1>r DEF UserTimer, At, EnterYield, cpuVars, localVars
  <1>26. ASSUME KernelTimer(c, p) PROVE Calm
    BY SMTT(60), <1>26 DEF KernelTimer, EnterYield, cpuVars, localVars
  <1> QED
    BY Zenon, <1>1, <1>2, <1>3, <1>4, <1>5, <1>6, <1>7, <1>8, <1>9, <1>10, <1>11, <1>12, <1>13,
      <1>14, <1>15, <1>16, <1>17, <1>18, <1>19, <1>20, <1>21, <1>22, <1>23, <1>24, <1>25, <1>26

(* Every step is quiet that neither takes part in wait(), in reparent() or *)
(* in the end of exit() nor makes fork()'s child a child.                  *)
LEMMA QuietSteps ==
    ASSUME TypeOK, LockInv, NEW c \in Cpus, NEW p \in Procs
    PROVE
       \/ SchedSkip(c) \/ SchedRun(c) \/ Swtch(c, p) \/ YieldReturn(c, p) \/ Forkret(c, p)
       \/ SleepReturn(c, p) \/ TrapReturn(c, p) \/ ForkSkip(c, p) \/ ForkAlloc(c, p)
       \/ ForkFail(c, p) \/ ForkFull(c, p) \/ ForkRun(c, p) \/ ExitPanic(c, p)
       \/ ExitLock(c, p) \/ ReparentSkip(c, p) \/ WaitReap(c, p) \/ WaitCopyoutFail(c, p)
       \/ WaitNone(c, p) \/ KillSkip(c, p) \/ KillFound(c, p) \/ KillNone(c, p)
       \/ Syscall(c, p) \/ Fault(c, p) \/ TrapKilled(c, p) \/ UserTimer(c, p)
       \/ KernelTimer(c, p)
       => Quiet
  <1>t. /\ state \in [Procs -> ProcStates] /\ pc \in [Procs -> Pcs] /\ parent \in [Procs -> Procs \cup {Null}]
        /\ idx \in [Procs -> Indexes] /\ widx \in [Procs -> Indexes] /\ np \in [Procs -> Procs \cup {Null}]
        /\ sidx \in [Cpus -> Procs] /\ Null \notin Procs
        /\ \A i \in Indexes : i < NPROC => i \in Procs
    BY Zenon, IndexFacts DEF TypeOK
  <1>r. \A q \in Procs : state[q] = "UNUSED" => pc[q] = "gone"
    BY Zenon DEF LockInv, StateInv
  <1> USE <1>t DEF Quiet
  <1>1. ASSUME SchedSkip(c) PROVE Quiet
    BY SMTT(60), <1>1 DEF SchedSkip, procVars, lockVars, threadVars, cpuVars, localVars
  <1>2. ASSUME SchedRun(c) PROVE Quiet
    BY SMTT(60), <1>2 DEF SchedRun, threadVars, procVars, lockVars, cpuVars, localVars
  <1>3. ASSUME Swtch(c, p) PROVE Quiet
    BY SMTT(60), <1>3 DEF Swtch, procVars, threadVars, lockVars, cpuVars, localVars
  <1>4. ASSUME YieldReturn(c, p) PROVE Quiet
    BY SMTT(60), <1>4 DEF YieldReturn, procVars, cpuVars, localVars
  <1>5. ASSUME Forkret(c, p) PROVE Quiet
    BY SMTT(60), <1>5 DEF Forkret, At, Goto, procVars, cpuVars, localVars
  <1>6. ASSUME SleepReturn(c, p) PROVE Quiet
    BY SMTT(60), <1>6 DEF SleepReturn, At, Goto, cpuVars, localVars
  <1>7. ASSUME TrapReturn(c, p) PROVE Quiet
    BY SMTT(60), <1>7 DEF TrapReturn, At, Goto, procVars, lockVars, cpuVars, localVars
  <1>8. ASSUME ForkSkip(c, p) PROVE Quiet
    BY SMTT(60), <1>8 DEF ForkSkip, At, procVars, lockVars, cpuVars
  <1>9. ASSUME ForkAlloc(c, p) PROVE Quiet
    BY SMTT(60), <1>9, <1>r DEF ForkAlloc, At, lockVars, cpuVars, Allocpid
  <1>10. ASSUME ForkFail(c, p) PROVE Quiet
    BY SMTT(60), <1>10 DEF ForkFail, At, Goto, lockVars, cpuVars, Freeproc
  <1>11. ASSUME ForkFull(c, p) PROVE Quiet
    BY SMTT(60), <1>11 DEF ForkFull, At, Goto, procVars, lockVars, cpuVars
  <1>12. ASSUME ForkRun(c, p) PROVE Quiet
    BY SMTT(60), <1>12 DEF ForkRun, At, Goto, lockVars, cpuVars
  <1>13. ASSUME ExitPanic(c, p) PROVE Quiet
    BY SMTT(60), <1>13 DEF ExitPanic, At, Goto, procVars, lockVars, cpuVars, localVars
  <1>14. ASSUME ExitLock(c, p) PROVE Quiet
    BY SMTT(60), <1>14 DEF ExitLock, At, Goto, procVars, cpuVars, localVars
  <1>15. ASSUME ReparentSkip(c, p) PROVE Quiet
    BY SMTT(60), <1>15 DEF ReparentSkip, At, procVars, lockVars, cpuVars
  <1>16. ASSUME WaitReap(c, p) PROVE Quiet
    BY SMTT(60), <1>16 DEF WaitReap, cpuVars, FoundZombie, At, WaitLeave, Goto, Freeproc
  <1>17. ASSUME WaitCopyoutFail(c, p) PROVE Quiet
    BY SMTT(60), <1>17 DEF WaitCopyoutFail, procVars, cpuVars, FoundZombie, At, WaitLeave, Goto
  <1>18. ASSUME WaitNone(c, p) PROVE Quiet
    BY SMTT(60), <1>18 DEF WaitNone, At, procVars, cpuVars, WaitLeave, Goto
  <1>19. ASSUME KillSkip(c, p) PROVE Quiet
    BY SMTT(60), <1>19 DEF KillSkip, At, procVars, lockVars, cpuVars
  <1>20. ASSUME KillFound(c, p) PROVE Quiet
    BY SMTT(60), <1>20 DEF KillFound, At, lockVars, cpuVars, KillLeave, Goto
  <1>21. ASSUME KillNone(c, p) PROVE Quiet
    BY SMTT(60), <1>21 DEF KillNone, At, procVars, lockVars, cpuVars, KillLeave, Goto
  <1>22. ASSUME Syscall(c, p) PROVE Quiet
    BY SMTT(60), <1>22, EntryFacts DEF Syscall, At, Goto, procVars, lockVars, cpuVars
  <1>23. ASSUME Fault(c, p) PROVE Quiet
    BY SMTT(60), <1>23 DEF Fault, At, Goto, lockVars, cpuVars, localVars
  <1>24. ASSUME TrapKilled(c, p) PROVE Quiet
    BY SMTT(60), <1>24 DEF TrapKilled, At, Goto, procVars, lockVars, cpuVars, localVars
  <1>25. ASSUME UserTimer(c, p) PROVE Quiet
    BY SMTT(60), <1>25 DEF UserTimer, At, EnterYield, cpuVars, localVars
  <1>26. ASSUME KernelTimer(c, p) PROVE Quiet
    BY SMTT(60), <1>26 DEF KernelTimer, EnterYield, cpuVars, localVars
  <1> QED
    BY Zenon, <1>1, <1>2, <1>3, <1>4, <1>5, <1>6, <1>7, <1>8, <1>9, <1>10, <1>11, <1>12, <1>13,
      <1>14, <1>15, <1>16, <1>17, <1>18, <1>19, <1>20, <1>21, <1>22, <1>23, <1>24, <1>25, <1>26

(* A step that changes nothing is calm and quiet.                          *)
LEMMA Stutter == ASSUME UNCHANGED vars PROVE Calm /\ Quiet
  <1>1. UNCHANGED <<state, pid, parent, nextpid, pc, idx, widx, np>>
    BY Zenon DEF vars, procVars, threadVars, localVars
  <1> QED
    BY SMTT(60), <1>1 DEF Calm, Quiet

(* What the lock layer says about the threads that the family layer needs. *)
LockFacts ==
  /\ \A q \in Procs : state[q] \in {"UNUSED", "ZOMBIE"} <=> pc[q] = "gone"
  /\ \A q \in Procs : state[q] = "USED" => pc[q] = "forkret"
  /\ \A q \in Procs : state[q] = "SLEEPING" => chan[q] = q
  /\ \A q \in Procs : ~inyield[q] /\ pc[q] \notin SchedPcs => state[q] = "RUNNING"
  /\ \A q \in Procs : pc[q] \in ForkPcs => np[q] \in Procs /\ state[np[q]] = "USED"
  /\ \A q, r \in Procs : pc[q] \in ForkPcs /\ pc[r] \in ForkPcs /\ np[q] = np[r] => q = r

(* They follow from StateInv and ChildInv.                                 *)
LEMMA LockGives == LockInv => LockFacts
  BY SMTT(60) DEF LockInv, StateInv, ChildInv, LockFacts, InSched

(* allocproc() takes a free slot, whose old thread is gone, and a new pid.  *)
LEMMA FamilyForkAlloc ==
    ASSUME TypeOK, LockInv, FamilyInv, NEW c \in Cpus, NEW p \in Procs, ForkAlloc(c, p)
    PROVE  FamilyInv'
  <1>t. /\ state \in [Procs -> ProcStates] /\ pc \in [Procs -> Pcs]
        /\ parent \in [Procs -> Procs \cup {Null}] /\ np \in [Procs -> Procs \cup {Null}]
        /\ idx \in [Procs -> Indexes] /\ widx \in [Procs -> Indexes]
        /\ pid \in [Procs -> Pids] /\ nextpid \in NextPids
    BY Zenon DEF TypeOK
  <1>i. /\ initproc \in Procs /\ Null \notin Procs /\ Pids \subseteq Nat /\ NextPids \subseteq Nat
        /\ \A i \in Indexes : i < NPROC => i \in Procs
    BY Zenon, IndexFacts
  <1>a. LocalInv /\ ForkInv /\ ParentInv /\ ReparentInv /\ PidInv
    BY Zenon DEF FamilyInv
  <1> DEFINE i == idx[p]
  <1>0. /\ i \in Procs /\ i # p /\ state[i] = "UNUSED" /\ pc[i] = "gone" /\ pc[p] = "fork_scan"
        /\ nextpid' = nextpid + 1 /\ UNCHANGED <<parent, widx>>
    <2>1. /\ i \in Procs /\ state[i] = "UNUSED" /\ pc[p] = "fork_scan"
          /\ nextpid' = nextpid + 1 /\ UNCHANGED <<parent, widx>>
      BY Zenon, <1>t, <1>i DEF ForkAlloc, At, lockVars, cpuVars, Allocpid
    <2> QED
      BY SMTT(60), <2>1, LockGives DEF LockFacts
  <1>f. \A x \in Procs :
          /\ pid'[x] = IF x = i THEN nextpid ELSE pid[x]
          /\ state'[x] = IF x = i THEN "USED" ELSE state[x]
          /\ pc'[x] = IF x = p THEN "fork_parent" ELSE IF x = i THEN "forkret" ELSE pc[x]
          /\ np'[x] = IF x = p THEN i ELSE np[x]
          /\ idx'[x] = IF x = p THEN 0 ELSE idx[x]
    BY SMTT(60), <1>t, <1>0 DEF ForkAlloc, At, lockVars, cpuVars, Allocpid
  <1>g. parent[i] = Null /\ pid[p] < nextpid /\ \A x \in Procs : pid[x] < nextpid
    BY Zenon, <1>a, <1>0 DEF ParentInv, PidInv
  <1>n. nextpid \in Nat /\ 0 < nextpid /\ \A x \in Procs : pid[x] \in Nat
    BY Zenon, <1>t, <1>i, IndexFacts
  <1>1. LocalInv'
    BY SMTT(60), <1>a, <1>0, <1>f DEF LocalInv
  <1>2. ForkInv'
    <2>1. ASSUME NEW q \in Procs, pc'[q] \in ForkPcs, q # p
          PROVE  pid'[q] < pid'[np'[q]] /\ parent'[np'[q]] = IF pc'[q] = "fork_run" THEN q ELSE Null
      <3>1. q # i /\ pc'[q] = pc[q] /\ np'[q] = np[q]
        BY SMTT(60), <1>0, <1>f, <2>1 DEF ForkPcs
      <3>2. np[q] \in Procs /\ np[q] # i
        BY SMTT(60), <1>0, <2>1, <3>1, LockGives DEF LockFacts
      <3> QED
        BY SMTT(60), <1>a, <1>0, <1>f, <2>1, <3>1, <3>2 DEF ForkInv
    <2>2. pid'[p] < pid'[np'[p]] /\ parent'[np'[p]] = Null /\ pc'[p] = "fork_parent"
      BY SMTT(60), <1>0, <1>f, <1>g
    <2> QED
      BY SMTT(60), <2>1, <2>2 DEF ForkInv
  <1>3. ParentInv'
    BY SMTT(60), <1>t, <1>i, <1>a, <1>0, <1>f, <1>g DEF ParentInv, ExitPcs, Started
  <1>4. ReparentInv'
    BY SMTT(60), <1>a, <1>0, <1>f DEF ReparentInv
  <1>5. PidInv'
    <2>1. \A x \in Procs : pid'[x] < nextpid' /\ (state'[x] # "UNUSED" => pid'[x] # 0)
      BY SMTT(60), <1>a, <1>0, <1>f, <1>g, <1>n DEF PidInv
    <2>2. \A x \in Procs : x # i => pid'[x] # pid'[i]
      BY SMTT(60), <1>0, <1>f, <1>g, <1>n
    <2> QED
      BY SMTT(60), <1>a, <1>0, <1>f, <2>1, <2>2 DEF PidInv
  <1> QED
    BY Zenon, <1>1, <1>2, <1>3, <1>4, <1>5 DEF FamilyInv

(* A failed fork() frees the slot it took; only the pid is used up.        *)
LEMMA FamilyForkFail ==
    ASSUME TypeOK, LockInv, FamilyInv, NEW c \in Cpus, NEW p \in Procs, ForkFail(c, p)
    PROVE  FamilyInv'
  <1>t. /\ state \in [Procs -> ProcStates] /\ pc \in [Procs -> Pcs]
        /\ parent \in [Procs -> Procs \cup {Null}] /\ np \in [Procs -> Procs \cup {Null}]
        /\ idx \in [Procs -> Indexes] /\ widx \in [Procs -> Indexes]
        /\ pid \in [Procs -> Pids] /\ nextpid \in NextPids
    BY Zenon DEF TypeOK
  <1>i. /\ initproc \in Procs /\ Null \notin Procs /\ Pids \subseteq Nat /\ NextPids \subseteq Nat
        /\ \A i \in Indexes : i < NPROC => i \in Procs
    BY Zenon, IndexFacts
  <1>a. LocalInv /\ ForkInv /\ ParentInv /\ ReparentInv /\ PidInv
    BY Zenon DEF FamilyInv
  <1>0. /\ idx[p] \in Procs /\ state[idx[p]] = "UNUSED"
        /\ nextpid' \in {nextpid, nextpid + 1}
    BY SMTT(60), <1>t, <1>i DEF ForkFail, At, Goto, lockVars, cpuVars, Freeproc
  <1>f. \A x \in Procs : /\ pid'[x] = IF x = idx[p] THEN 0 ELSE pid[x]
                         /\ state'[x] = IF x = idx[p] THEN "UNUSED" ELSE state[x]
    BY SMTT(60), <1>t, <1>0 DEF ForkFail, Freeproc
  <1>1. LocalInv'
    BY SMTT(60), <1>t, <1>i, <1>a DEF ForkFail, At, Goto, lockVars, cpuVars, Freeproc, LocalInv
  <1>2. ForkInv'
    BY SMTT(60), <1>t, <1>i, <1>a, <1>0, LockGives DEF ForkFail, At, Goto, lockVars, cpuVars,
      Freeproc, ForkInv, ForkPcs, LockFacts
  <1>3. ParentInv'
    BY SMTT(60), <1>t, <1>i, <1>a DEF ForkFail, At, Goto, lockVars, cpuVars, Freeproc,
      ParentInv, ExitPcs, Started
  <1>4. ReparentInv'
    BY SMTT(60), <1>t, <1>i, <1>a DEF ForkFail, At, Goto, lockVars, cpuVars, Freeproc, ReparentInv
  <1>5. PidInv'
    <2>1. nextpid \in Nat /\ 0 < nextpid /\ \A x \in Procs : pid[x] \in Nat
      BY Zenon, <1>t, <1>i, IndexFacts
    <2>2. \A x \in Procs : pid'[x] < nextpid' /\ (state'[x] # "UNUSED" => pid'[x] # 0)
      BY SMTT(60), <1>a, <1>0, <1>f, <2>1 DEF PidInv
    <2> QED
      BY SMTT(60), <1>a, <1>0, <1>f, <2>2 DEF PidInv
  <1> QED
    BY Zenon, <1>1, <1>2, <1>3, <1>4, <1>5 DEF FamilyInv

(* fork() makes its USED child a child of the running process p.          *)
LEMMA FamilyForkParent ==
    ASSUME TypeOK, LockInv, FamilyInv, NEW c \in Cpus, NEW p \in Procs, ForkParent(c, p)
    PROVE  FamilyInv'
  <1>t. /\ state \in [Procs -> ProcStates] /\ pc \in [Procs -> Pcs]
        /\ parent \in [Procs -> Procs \cup {Null}] /\ np \in [Procs -> Procs \cup {Null}]
        /\ idx \in [Procs -> Indexes] /\ widx \in [Procs -> Indexes]
        /\ pid \in [Procs -> Pids] /\ nextpid \in NextPids
    BY Zenon DEF TypeOK
  <1>i. /\ initproc \in Procs /\ Null \notin Procs /\ Pids \subseteq Nat /\ NextPids \subseteq Nat
        /\ \A i \in Indexes : i < NPROC => i \in Procs
    BY Zenon, IndexFacts
  <1>a. LocalInv /\ ForkInv /\ ParentInv /\ ReparentInv /\ PidInv
    BY Zenon DEF FamilyInv
  <1>0. /\ pc[p] = "fork_parent" /\ np[p] \in Procs /\ state[np[p]] = "USED"
        /\ state[p] = "RUNNING" /\ pid[p] < pid[np[p]]
    <2>1. pc[p] = "fork_parent" /\ ~inyield[p]
      BY Zenon DEF ForkParent, At
    <2>2. np[p] \in Procs /\ state[np[p]] = "USED" /\ state[p] = "RUNNING"
      BY SMTT(60), <2>1, LockGives DEF LockFacts, ForkPcs, SchedPcs
    <2> QED
      BY SMTT(60), <1>a, <2>1, <2>2 DEF ForkInv, ForkPcs
  <1>1. LocalInv'
    BY SMTT(60), <1>t, <1>i, <1>a DEF ForkParent, At, Goto, lockVars, cpuVars, localVars, LocalInv
  <1>2. ForkInv'
    BY SMTT(60), <1>t, <1>i, <1>a, <1>0, LockGives DEF ForkParent, At, Goto, lockVars, cpuVars,
      localVars, ForkInv, ForkPcs, LockFacts
  <1>3. ParentInv'
    BY SMTT(60), <1>t, <1>i, <1>a, <1>0 DEF ForkParent, At, Goto, lockVars, cpuVars, localVars,
      ParentInv, ExitPcs, Started
  <1>4. ReparentInv'
    BY SMTT(60), <1>t, <1>i, <1>a DEF ForkParent, At, Goto, lockVars, cpuVars, localVars,
      ReparentInv
  <1>5. PidInv'
    BY SMTT(60), <1>t, <1>i, <1>a DEF ForkParent, At, Goto, lockVars, cpuVars, localVars, PidInv
  <1> QED
    BY Zenon, <1>1, <1>2, <1>3, <1>4, <1>5 DEF FamilyInv

(* The child starts: it has a parent already, and a pid.                  *)
LEMMA FamilyForkRun ==
    ASSUME TypeOK, LockInv, FamilyInv, NEW c \in Cpus, NEW p \in Procs, ForkRun(c, p)
    PROVE  FamilyInv'
  <1>t. /\ state \in [Procs -> ProcStates] /\ pc \in [Procs -> Pcs]
        /\ parent \in [Procs -> Procs \cup {Null}] /\ np \in [Procs -> Procs \cup {Null}]
        /\ idx \in [Procs -> Indexes] /\ widx \in [Procs -> Indexes]
        /\ pid \in [Procs -> Pids] /\ nextpid \in NextPids
    BY Zenon DEF TypeOK
  <1>i. /\ initproc \in Procs /\ Null \notin Procs /\ Pids \subseteq Nat /\ NextPids \subseteq Nat
        /\ \A i \in Indexes : i < NPROC => i \in Procs
    BY Zenon, IndexFacts
  <1>a. LocalInv /\ ForkInv /\ ParentInv /\ ReparentInv /\ PidInv
    BY Zenon DEF FamilyInv
  <1>0. /\ pc[p] = "fork_run" /\ np[p] \in Procs /\ state[np[p]] = "USED" /\ parent[np[p]] = p
    <2>1. pc[p] = "fork_run"
      BY Zenon DEF ForkRun, At
    <2>2. np[p] \in Procs /\ state[np[p]] = "USED"
      BY SMTT(60), <2>1, LockGives DEF LockFacts, ForkPcs
    <2> QED
      BY SMTT(60), <1>a, <2>1, <2>2 DEF ForkInv, ForkPcs
  <1>1. LocalInv'
    BY SMTT(60), <1>t, <1>i, <1>a DEF ForkRun, At, Goto, lockVars, cpuVars, LocalInv
  <1>2. ForkInv'
    BY SMTT(60), <1>t, <1>i, <1>a, <1>0 DEF ForkRun, At, Goto, lockVars, cpuVars, ForkInv, ForkPcs
  <1>3. ParentInv'
    BY SMTT(60), <1>t, <1>i, <1>a, <1>0 DEF ForkRun, At, Goto, lockVars, cpuVars, ParentInv,
      ExitPcs, Started
  <1>4. ReparentInv'
    BY SMTT(60), <1>t, <1>i, <1>a DEF ForkRun, At, Goto, lockVars, cpuVars, ReparentInv
  <1>5. PidInv'
    BY SMTT(60), <1>t, <1>i, <1>a, <1>0 DEF ForkRun, At, Goto, lockVars, cpuVars, PidInv
  <1> QED
    BY Zenon, <1>1, <1>2, <1>3, <1>4, <1>5 DEF FamilyInv

(* reparent() starts at entry 0.                                           *)
LEMMA FamilyExitLock ==
    ASSUME TypeOK, LockInv, FamilyInv, NEW c \in Cpus, NEW p \in Procs, ExitLock(c, p)
    PROVE  FamilyInv'
  <1>t. /\ state \in [Procs -> ProcStates] /\ pc \in [Procs -> Pcs]
        /\ parent \in [Procs -> Procs \cup {Null}] /\ np \in [Procs -> Procs \cup {Null}]
        /\ idx \in [Procs -> Indexes] /\ widx \in [Procs -> Indexes]
        /\ pid \in [Procs -> Pids] /\ nextpid \in NextPids
    BY Zenon DEF TypeOK
  <1>i. /\ initproc \in Procs /\ Null \notin Procs /\ Pids \subseteq Nat /\ NextPids \subseteq Nat
        /\ \A i \in Indexes : i < NPROC => i \in Procs
    BY Zenon, IndexFacts
  <1>a. LocalInv /\ ForkInv /\ ParentInv /\ ReparentInv /\ PidInv
    BY Zenon DEF FamilyInv
  <1>0. idx[p] = 0 /\ \A q \in Procs : q \in Nat
    BY SMTT(60), <1>a, IndexFacts DEF ExitLock, At, Goto, procVars, cpuVars, localVars, LocalInv
  <1>1. LocalInv'
    BY SMTT(60), <1>t, <1>i, <1>a DEF ExitLock, At, Goto, procVars, cpuVars, localVars, LocalInv
  <1>2. ForkInv'
    BY SMTT(60), <1>t, <1>i, <1>a DEF ExitLock, At, Goto, procVars, cpuVars, localVars, ForkInv,
      ForkPcs
  <1>3. ParentInv'
    BY SMTT(60), <1>t, <1>i, <1>a DEF ExitLock, At, Goto, procVars, cpuVars, localVars,
      ParentInv, ExitPcs, Started
  <1>4. ReparentInv'
    BY SMTT(60), <1>t, <1>i, <1>a, <1>0 DEF ExitLock, At, Goto, procVars, cpuVars, localVars,
      ReparentInv
  <1>5. PidInv'
    BY SMTT(60), <1>t, <1>i, <1>a DEF ExitLock, At, Goto, procVars, cpuVars, localVars, PidInv
  <1> QED
    BY Zenon, <1>1, <1>2, <1>3, <1>4, <1>5 DEF FamilyInv

(* reparent() gives a child of p to init, which is older than all others.  *)
LEMMA FamilyReparentChild ==
    ASSUME TypeOK, LockInv, FamilyInv, NEW c \in Cpus, NEW p \in Procs, ReparentChild(c, p)
    PROVE  FamilyInv'
  <1>t. /\ state \in [Procs -> ProcStates] /\ pc \in [Procs -> Pcs]
        /\ parent \in [Procs -> Procs \cup {Null}] /\ np \in [Procs -> Procs \cup {Null}]
        /\ idx \in [Procs -> Indexes] /\ widx \in [Procs -> Indexes]
        /\ pid \in [Procs -> Pids] /\ nextpid \in NextPids
    BY Zenon DEF TypeOK
  <1>i. /\ initproc \in Procs /\ Null \notin Procs /\ Pids \subseteq Nat /\ NextPids \subseteq Nat
        /\ \A i \in Indexes : i < NPROC => i \in Procs
    BY Zenon, IndexFacts
  <1>a. LocalInv /\ ForkInv /\ ParentInv /\ ReparentInv /\ PidInv
    BY Zenon DEF FamilyInv
  <1>0. /\ idx[p] \in Procs /\ p # initproc /\ idx[p] # initproc /\ parent[idx[p]] = p
        /\ pc[p] = "reparent"
    <2>1. idx[p] \in Procs /\ parent[idx[p]] = p /\ pc[p] = "reparent"
      BY Zenon, <1>t, <1>i DEF ReparentChild, At
    <2> QED
      BY SMTT(60), <1>i, <1>a, <2>1 DEF ParentInv, ExitPcs
  <1>g. 1 < pid[idx[p]]
    <2>1. pid[p] \in Nat \ {0} /\ pid[idx[p]] \in Nat /\ pid[p] < pid[idx[p]]
      <3>1. state[p] \in Started /\ pid[p] < pid[idx[p]]
        BY SMTT(60), <1>i, <1>a, <1>0 DEF ParentInv
      <3>2. state[p] # "UNUSED"
        BY SMTT(60), <3>1 DEF Started
      <3>3. pid[p] # 0
        BY Zenon, <1>a, <3>2 DEF PidInv
      <3> QED
        BY Zenon, <1>t, <1>i, <1>0, <3>1, <3>3
    <2> QED
      BY SMTT(60), <2>1
  <1>1. LocalInv'
    BY SMTT(60), <1>t, <1>i, <1>a DEF ReparentChild, At, Goto, lockVars, cpuVars, localVars,
      LocalInv
  <1>2. ForkInv'
    BY SMTT(60), <1>t, <1>i, <1>a, <1>0 DEF ReparentChild, At, Goto, lockVars, cpuVars,
      localVars, ForkInv, ForkPcs
  <1>3. ParentInv'
    BY SMTT(60), <1>t, <1>i, <1>a, <1>0, <1>g DEF ReparentChild, At, Goto, lockVars, cpuVars,
      localVars, ParentInv, ExitPcs, Started
  <1>4. ReparentInv'
    <2>1. \A r, q \in Procs : parent'[q] = r => parent[q] = r \/ r = initproc
      BY SMTT(60), <1>t, <1>i, <1>0 DEF ReparentChild
    <2>2. \A q \in Procs : q <= idx[p] => q < idx[p] \/ q = idx[p]
      BY SMTT(60), <1>0, NPROCAssumption DEF Procs
    <2>3. \A r \in Procs : pc[r] \in ExitPcs => r # initproc
      BY Zenon, <1>a DEF ParentInv
    <2>4. parent'[idx[p]] # p /\ UNCHANGED idx
      BY SMTT(60), <1>t, <1>0 DEF ReparentChild, localVars
    <2>5. \A r \in Procs : pc'[r] = IF r = p THEN "reparent_wakeup" ELSE pc[r]
      BY SMTT(60), <1>t DEF ReparentChild, Goto
    <2> QED
      BY SMTT(60), <1>a, <1>0, <2>1, <2>2, <2>3, <2>4, <2>5 DEF ReparentInv, ExitPcs
  <1>5. PidInv'
    BY SMTT(60), <1>t, <1>i, <1>a DEF ReparentChild, At, Goto, lockVars, cpuVars, localVars,
      PidInv
  <1> QED
    BY Zenon, <1>1, <1>2, <1>3, <1>4, <1>5 DEF FamilyInv

(* reparent() passes an entry that is not a child of p.                   *)
LEMMA FamilyReparentSkip ==
    ASSUME TypeOK, LockInv, FamilyInv, NEW c \in Cpus, NEW p \in Procs, ReparentSkip(c, p)
    PROVE  FamilyInv'
  <1>t. /\ state \in [Procs -> ProcStates] /\ pc \in [Procs -> Pcs]
        /\ parent \in [Procs -> Procs \cup {Null}] /\ np \in [Procs -> Procs \cup {Null}]
        /\ idx \in [Procs -> Indexes] /\ widx \in [Procs -> Indexes]
        /\ pid \in [Procs -> Pids] /\ nextpid \in NextPids
    BY Zenon DEF TypeOK
  <1>i. /\ initproc \in Procs /\ Null \notin Procs /\ Pids \subseteq Nat /\ NextPids \subseteq Nat
        /\ \A i \in Indexes : i < NPROC => i \in Procs
    BY Zenon, IndexFacts
  <1>a. LocalInv /\ ForkInv /\ ParentInv /\ ReparentInv /\ PidInv
    BY Zenon DEF FamilyInv
  <1>0. \A q \in Procs : q < idx[p] + 1 => q < idx[p] \/ q = idx[p]
    BY Zenon, <1>t, IndexOrder
  <1>1. LocalInv'
    BY SMTT(60), <1>t, <1>i, <1>a DEF ReparentSkip, At, procVars, lockVars, cpuVars, LocalInv
  <1>2. ForkInv'
    BY SMTT(60), <1>t, <1>i, <1>a DEF ReparentSkip, At, procVars, lockVars, cpuVars, ForkInv,
      ForkPcs
  <1>3. ParentInv'
    BY SMTT(60), <1>t, <1>i, <1>a DEF ReparentSkip, At, procVars, lockVars, cpuVars, ParentInv,
      ExitPcs, Started
  <1>4. ReparentInv'
    BY SMTT(60), <1>t, <1>i, <1>a, <1>0 DEF ReparentSkip, At, procVars, lockVars, cpuVars,
      ReparentInv
  <1>5. PidInv'
    BY SMTT(60), <1>t, <1>i, <1>a DEF ReparentSkip, At, procVars, lockVars, cpuVars, PidInv
  <1> QED
    BY Zenon, <1>1, <1>2, <1>3, <1>4, <1>5 DEF FamilyInv

(* reparent() has passed every entry.                                     *)
LEMMA FamilyReparentDone ==
    ASSUME TypeOK, LockInv, FamilyInv, NEW c \in Cpus, NEW p \in Procs, ReparentDone(c, p)
    PROVE  FamilyInv'
  <1>t. /\ state \in [Procs -> ProcStates] /\ pc \in [Procs -> Pcs]
        /\ parent \in [Procs -> Procs \cup {Null}] /\ np \in [Procs -> Procs \cup {Null}]
        /\ idx \in [Procs -> Indexes] /\ widx \in [Procs -> Indexes]
        /\ pid \in [Procs -> Pids] /\ nextpid \in NextPids
    BY Zenon DEF TypeOK
  <1>i. /\ initproc \in Procs /\ Null \notin Procs /\ Pids \subseteq Nat /\ NextPids \subseteq Nat
        /\ \A i \in Indexes : i < NPROC => i \in Procs
    BY Zenon, IndexFacts
  <1>a. LocalInv /\ ForkInv /\ ParentInv /\ ReparentInv /\ PidInv
    BY Zenon DEF FamilyInv
  <1>0. \A q \in Procs : q < NPROC
    BY SMTT(60), NPROCAssumption DEF Procs
  <1>1. LocalInv'
    BY SMTT(60), <1>t, <1>i, <1>a DEF ReparentDone, At, Goto, procVars, lockVars, cpuVars,
      LocalInv
  <1>2. ForkInv'
    BY SMTT(60), <1>t, <1>i, <1>a DEF ReparentDone, At, Goto, procVars, lockVars, cpuVars,
      ForkInv, ForkPcs
  <1>3. ParentInv'
    BY SMTT(60), <1>t, <1>i, <1>a DEF ReparentDone, At, Goto, procVars, lockVars, cpuVars,
      ParentInv, ExitPcs, Started
  <1>4. ReparentInv'
    BY SMTT(60), <1>t, <1>i, <1>a, <1>0 DEF ReparentDone, At, Goto, procVars, lockVars, cpuVars,
      ReparentInv
  <1>5. PidInv'
    BY SMTT(60), <1>t, <1>i, <1>a DEF ReparentDone, At, Goto, procVars, lockVars, cpuVars, PidInv
  <1> QED
    BY Zenon, <1>1, <1>2, <1>3, <1>4, <1>5 DEF FamilyInv

(* reparent() goes on at the child it has given away.                     *)
LEMMA FamilyReparentWakeupDone ==
    ASSUME TypeOK, LockInv, FamilyInv, NEW c \in Cpus, NEW p \in Procs, ReparentWakeupDone(c, p)
    PROVE  FamilyInv'
  <1>t. /\ state \in [Procs -> ProcStates] /\ pc \in [Procs -> Pcs]
        /\ parent \in [Procs -> Procs \cup {Null}] /\ np \in [Procs -> Procs \cup {Null}]
        /\ idx \in [Procs -> Indexes] /\ widx \in [Procs -> Indexes]
        /\ pid \in [Procs -> Pids] /\ nextpid \in NextPids
    BY Zenon DEF TypeOK
  <1>i. /\ initproc \in Procs /\ Null \notin Procs /\ Pids \subseteq Nat /\ NextPids \subseteq Nat
        /\ \A i \in Indexes : i < NPROC => i \in Procs
    BY Zenon, IndexFacts
  <1>a. LocalInv /\ ForkInv /\ ParentInv /\ ReparentInv /\ PidInv
    BY Zenon DEF FamilyInv
  <1>0. \A q \in Procs : q < idx[p] => q <= idx[p]
    BY Zenon, <1>t, IndexOrder
  <1>1. LocalInv'
    BY SMTT(60), <1>t, <1>i, <1>a DEF ReparentWakeupDone, At, WakeupDone, Goto, procVars,
      lockVars, cpuVars, LocalInv
  <1>2. ForkInv'
    BY SMTT(60), <1>t, <1>i, <1>a DEF ReparentWakeupDone, At, WakeupDone, Goto, procVars,
      lockVars, cpuVars, ForkInv, ForkPcs
  <1>3. ParentInv'
    BY SMTT(60), <1>t, <1>i, <1>a DEF ReparentWakeupDone, At, WakeupDone, Goto, procVars,
      lockVars, cpuVars, ParentInv, ExitPcs, Started
  <1>4. ReparentInv'
    BY SMTT(60), <1>t, <1>i, <1>a, <1>0 DEF ReparentWakeupDone, At, WakeupDone, Goto, procVars,
      lockVars, cpuVars, ReparentInv
  <1>5. PidInv'
    BY SMTT(60), <1>t, <1>i, <1>a DEF ReparentWakeupDone, At, WakeupDone, Goto, procVars,
      lockVars, cpuVars, PidInv
  <1> QED
    BY Zenon, <1>1, <1>2, <1>3, <1>4, <1>5 DEF FamilyInv

(* exit() has woken its parent.                                            *)
LEMMA FamilyExitWakeupDone ==
    ASSUME TypeOK, LockInv, FamilyInv, NEW c \in Cpus, NEW p \in Procs, ExitWakeupDone(c, p)
    PROVE  FamilyInv'
  <1>t. /\ state \in [Procs -> ProcStates] /\ pc \in [Procs -> Pcs]
        /\ parent \in [Procs -> Procs \cup {Null}] /\ np \in [Procs -> Procs \cup {Null}]
        /\ idx \in [Procs -> Indexes] /\ widx \in [Procs -> Indexes]
        /\ pid \in [Procs -> Pids] /\ nextpid \in NextPids
    BY Zenon DEF TypeOK
  <1>i. /\ initproc \in Procs /\ Null \notin Procs /\ Pids \subseteq Nat /\ NextPids \subseteq Nat
        /\ \A i \in Indexes : i < NPROC => i \in Procs
    BY Zenon, IndexFacts
  <1>a. LocalInv /\ ForkInv /\ ParentInv /\ ReparentInv /\ PidInv
    BY Zenon DEF FamilyInv
  <1>1. LocalInv'
    BY SMTT(60), <1>t, <1>i, <1>a DEF ExitWakeupDone, At, WakeupDone, Goto, procVars, lockVars,
      cpuVars, LocalInv
  <1>2. ForkInv'
    BY SMTT(60), <1>t, <1>i, <1>a DEF ExitWakeupDone, At, WakeupDone, Goto, procVars, lockVars,
      cpuVars, ForkInv, ForkPcs
  <1>3. ParentInv'
    BY SMTT(60), <1>t, <1>i, <1>a DEF ExitWakeupDone, At, WakeupDone, Goto, procVars, lockVars,
      cpuVars, ParentInv, ExitPcs, Started
  <1>4. ReparentInv'
    BY SMTT(60), <1>t, <1>i, <1>a DEF ExitWakeupDone, At, WakeupDone, Goto, procVars, lockVars,
      cpuVars, ReparentInv
  <1>5. PidInv'
    BY SMTT(60), <1>t, <1>i, <1>a DEF ExitWakeupDone, At, WakeupDone, Goto, procVars, lockVars,
      cpuVars, PidInv
  <1> QED
    BY Zenon, <1>1, <1>2, <1>3, <1>4, <1>5 DEF FamilyInv

(* A process without children, and never init, becomes a ZOMBIE.           *)
LEMMA FamilyExitZombie ==
    ASSUME TypeOK, LockInv, FamilyInv, NEW c \in Cpus, NEW p \in Procs, ExitZombie(c, p)
    PROVE  FamilyInv'
  <1>t. /\ state \in [Procs -> ProcStates] /\ pc \in [Procs -> Pcs]
        /\ parent \in [Procs -> Procs \cup {Null}] /\ np \in [Procs -> Procs \cup {Null}]
        /\ idx \in [Procs -> Indexes] /\ widx \in [Procs -> Indexes]
        /\ pid \in [Procs -> Pids] /\ nextpid \in NextPids
    BY Zenon DEF TypeOK
  <1>i. /\ initproc \in Procs /\ Null \notin Procs /\ Pids \subseteq Nat /\ NextPids \subseteq Nat
        /\ \A i \in Indexes : i < NPROC => i \in Procs
    BY Zenon, IndexFacts
  <1>a. LocalInv /\ ForkInv /\ ParentInv /\ ReparentInv /\ PidInv
    BY Zenon DEF FamilyInv
  <1>0. state[p] = "RUNNING" /\ p # initproc /\ \A q \in Procs : parent[q] # p
    <2>1. pc[p] = "exit_zombie" /\ ~inyield[p]
      BY Zenon DEF ExitZombie, At
    <2>2. state[p] = "RUNNING"
      BY SMTT(60), <2>1, LockGives DEF LockFacts, SchedPcs
    <2> QED
      BY SMTT(60), <1>a, <2>1, <2>2 DEF ParentInv, ReparentInv, ExitPcs
  <1>1. LocalInv'
    BY SMTT(60), <1>t, <1>i, <1>a DEF ExitZombie, At, Goto, cpuVars, localVars, LocalInv
  <1>2. ForkInv'
    BY SMTT(60), <1>t, <1>i, <1>a DEF ExitZombie, At, Goto, cpuVars, localVars, ForkInv, ForkPcs
  <1>3. ParentInv'
    BY SMTT(60), <1>t, <1>i, <1>a, <1>0 DEF ExitZombie, At, Goto, cpuVars, localVars, ParentInv,
      ExitPcs, Started
  <1>4. ReparentInv'
    BY SMTT(60), <1>t, <1>i, <1>a DEF ExitZombie, At, Goto, cpuVars, localVars, ReparentInv
  <1>5. PidInv'
    BY SMTT(60), <1>t, <1>i, <1>a, <1>0 DEF ExitZombie, At, Goto, cpuVars, localVars, PidInv
  <1> QED
    BY Zenon, <1>1, <1>2, <1>3, <1>4, <1>5 DEF FamilyInv

(* wait() frees a ZOMBIE, which nobody has as parent or as fork()ed child. *)
LEMMA FamilyWaitReap ==
    ASSUME TypeOK, LockInv, FamilyInv, NEW c \in Cpus, NEW p \in Procs, WaitReap(c, p)
    PROVE  FamilyInv'
  <1>t. /\ state \in [Procs -> ProcStates] /\ pc \in [Procs -> Pcs]
        /\ parent \in [Procs -> Procs \cup {Null}] /\ np \in [Procs -> Procs \cup {Null}]
        /\ idx \in [Procs -> Indexes] /\ widx \in [Procs -> Indexes]
        /\ pid \in [Procs -> Pids] /\ nextpid \in NextPids
    BY Zenon DEF TypeOK
  <1>i. /\ initproc \in Procs /\ Null \notin Procs /\ Pids \subseteq Nat /\ NextPids \subseteq Nat
        /\ \A i \in Indexes : i < NPROC => i \in Procs
    BY Zenon, IndexFacts
  <1>a. LocalInv /\ ForkInv /\ ParentInv /\ ReparentInv /\ PidInv
    BY Zenon DEF FamilyInv
  <1>0. idx[p] \in Procs /\ state[idx[p]] = "ZOMBIE"
    BY Zenon, <1>t, <1>i DEF WaitReap, FoundZombie
  <1>f. \A x \in Procs : /\ pid'[x] = IF x = idx[p] THEN 0 ELSE pid[x]
                         /\ state'[x] = IF x = idx[p] THEN "UNUSED" ELSE state[x]
    BY SMTT(60), <1>t, <1>0 DEF WaitReap, Freeproc
  <1>n. UNCHANGED nextpid /\ 0 < nextpid
    BY Zenon, <1>t, IndexFacts DEF WaitReap
  <1>1. LocalInv'
    BY SMTT(60), <1>t, <1>i, <1>a DEF WaitReap, cpuVars, FoundZombie, At, WaitLeave, Goto,
      Freeproc, LocalInv
  <1>2. ForkInv'
    BY SMTT(60), <1>t, <1>i, <1>a, <1>0, LockGives DEF WaitReap, cpuVars, FoundZombie, At,
      WaitLeave, Goto, Freeproc, ForkInv, ForkPcs, LockFacts
  <1>3. ParentInv'
    BY SMTT(60), <1>t, <1>i, <1>a DEF WaitReap, cpuVars, FoundZombie, At, WaitLeave, Goto,
      Freeproc, ParentInv, ExitPcs, Started
  <1>4. ReparentInv'
    BY SMTT(60), <1>t, <1>i, <1>a DEF WaitReap, cpuVars, FoundZombie, At, WaitLeave, Goto,
      Freeproc, ReparentInv
  <1>5. PidInv'
    BY SMTT(60), <1>a, <1>0, <1>f, <1>n DEF PidInv
  <1> QED
    BY Zenon, <1>1, <1>2, <1>3, <1>4, <1>5 DEF FamilyInv

(* Every step keeps the family together.                                   *)
LEMMA FamilyNext ==
    TypeOK /\ LockInv /\ FamilyInv /\ [Next]_vars => FamilyInv'
  <1> SUFFICES ASSUME TypeOK, LockInv, FamilyInv, [Next]_vars PROVE FamilyInv'
    OBVIOUS
  <1>l. LocalInv
    BY Zenon DEF FamilyInv
  <1>1. CASE UNCHANGED vars
    BY Zenon, <1>1, Stutter, CalmKeeps
  <1>2. ASSUME NEW c \in Cpus, NEW p \in Procs,
       \/ SchedSkip(c) \/ SchedRun(c) \/ Swtch(c, p) \/ YieldReturn(c, p) \/ Forkret(c, p)
       \/ SleepReturn(c, p) \/ TrapReturn(c, p) \/ ForkSkip(c, p) \/ ForkFull(c, p)
       \/ ExitPanic(c, p) \/ ReparentWakeup(c, p) \/ ExitWakeup(c, p) \/ WaitLock(c, p)
       \/ WaitSkip(c, p) \/ WaitCopyoutFail(c, p) \/ WaitNone(c, p) \/ WaitCheckKilled(c, p)
       \/ WaitSleep(c, p) \/ KillSkip(c, p) \/ KillFound(c, p) \/ KillNone(c, p)
       \/ Syscall(c, p) \/ Fault(c, p) \/ TrapKilled(c, p) \/ UserTimer(c, p)
       \/ KernelTimer(c, p)
        PROVE  FamilyInv'
    <2>1. Calm
      BY Zenon, <1>2, CalmSteps, <1>l
    <2> QED
      BY Zenon, <2>1, CalmKeeps
  <1>3. ASSUME NEW c \in Cpus, NEW p \in Procs, ForkAlloc(c, p) PROVE FamilyInv'
    BY Zenon, <1>3, FamilyForkAlloc
  <1>4. ASSUME NEW c \in Cpus, NEW p \in Procs, ForkFail(c, p) PROVE FamilyInv'
    BY Zenon, <1>4, FamilyForkFail
  <1>5. ASSUME NEW c \in Cpus, NEW p \in Procs, ForkParent(c, p) PROVE FamilyInv'
    BY Zenon, <1>5, FamilyForkParent
  <1>6. ASSUME NEW c \in Cpus, NEW p \in Procs, ForkRun(c, p) PROVE FamilyInv'
    BY Zenon, <1>6, FamilyForkRun
  <1>7. ASSUME NEW c \in Cpus, NEW p \in Procs, ExitLock(c, p) PROVE FamilyInv'
    BY Zenon, <1>7, FamilyExitLock
  <1>8. ASSUME NEW c \in Cpus, NEW p \in Procs, ReparentChild(c, p) PROVE FamilyInv'
    BY Zenon, <1>8, FamilyReparentChild
  <1>9. ASSUME NEW c \in Cpus, NEW p \in Procs, ReparentSkip(c, p) PROVE FamilyInv'
    BY Zenon, <1>9, FamilyReparentSkip
  <1>10. ASSUME NEW c \in Cpus, NEW p \in Procs, ReparentDone(c, p) PROVE FamilyInv'
    BY Zenon, <1>10, FamilyReparentDone
  <1>11. ASSUME NEW c \in Cpus, NEW p \in Procs, ReparentWakeupDone(c, p) PROVE FamilyInv'
    BY Zenon, <1>11, FamilyReparentWakeupDone
  <1>12. ASSUME NEW c \in Cpus, NEW p \in Procs, ExitWakeupDone(c, p) PROVE FamilyInv'
    BY Zenon, <1>12, FamilyExitWakeupDone
  <1>13. ASSUME NEW c \in Cpus, NEW p \in Procs, ExitZombie(c, p) PROVE FamilyInv'
    BY Zenon, <1>13, FamilyExitZombie
  <1>14. ASSUME NEW c \in Cpus, NEW p \in Procs, WaitReap(c, p) PROVE FamilyInv'
    BY Zenon, <1>14, FamilyWaitReap
  <1>15. ASSUME NEW c \in Cpus, NEW p \in Procs, SchedStep(c) PROVE FamilyInv'
    BY SMTT(60), <1>15, <1>2 DEF SchedStep
  <1>16. ASSUME NEW c \in Cpus, NEW p \in Procs, SwitchStep(c, p) PROVE FamilyInv'
    BY SMTT(60), <1>16, <1>2 DEF SwitchStep
  <1>17. ASSUME NEW c \in Cpus, NEW p \in Procs, ForkStep(c, p) PROVE FamilyInv'
    BY SMTT(60), <1>17, <1>2, <1>3, <1>4, <1>5, <1>6 DEF ForkStep
  <1>18. ASSUME NEW c \in Cpus, NEW p \in Procs, ExitStep(c, p) PROVE FamilyInv'
    BY SMTT(60), <1>18, <1>2, <1>7, <1>8, <1>9, <1>10, <1>11, <1>12, <1>13 DEF ExitStep
  <1>19. ASSUME NEW c \in Cpus, NEW p \in Procs, WaitStep(c, p) PROVE FamilyInv'
    BY SMTT(60), <1>19, <1>2, <1>14 DEF WaitStep
  <1>20. ASSUME NEW c \in Cpus, NEW p \in Procs, KillStep(c, p) PROVE FamilyInv'
    BY SMTT(60), <1>20, <1>2 DEF KillStep
  <1>21. ASSUME NEW c \in Cpus, NEW p \in Procs, TrapStep(c, p) PROVE FamilyInv'
    BY SMTT(60), <1>21, <1>2 DEF TrapStep
  <1>22. ASSUME NEW c \in Cpus, NEW p \in Procs, CallStep(c, p) PROVE FamilyInv'
    BY SMTT(60), <1>22, <1>2, <1>17, <1>18, <1>19, <1>20 DEF CallStep
  <1>23. initproc \in Procs
    BY Zenon, IndexFacts
  <1> QED
    BY Zenon, <1>1, <1>15, <1>16, <1>21, <1>22, <1>23 DEF Next

(* One thread at a time is inside wait_lock.                               *)
LEMMA OneHolder ==
    ASSUME TypeOK, LockInv
    PROVE  /\ \A p, q \in Procs : pc[p] \in WaitLockPcs /\ pc[q] \in WaitLockPcs => p = q
           /\ waitLock = Null => \A p \in Procs : pc[p] \notin WaitLockPcs
  BY SMTT(60), NullAssumption DEF TypeOK, LockInv, WaitLockInv

(* The new child is not a ZOMBIE, and its thread is not in exit().         *)
LEMMA WakeForkParent ==
    ASSUME TypeOK, LockInv, FamilyInv, WakeInv, NEW c \in Cpus, NEW p \in Procs, ForkParent(c, p)
    PROVE  WakeInv'
  <1>t. /\ state \in [Procs -> ProcStates] /\ pc \in [Procs -> Pcs]
        /\ parent \in [Procs -> Procs \cup {Null}] /\ np \in [Procs -> Procs \cup {Null}]
        /\ idx \in [Procs -> Indexes] /\ widx \in [Procs -> Indexes]
        /\ pid \in [Procs -> Pids] /\ nextpid \in NextPids
    BY Zenon DEF TypeOK
  <1>i. /\ initproc \in Procs /\ Null \notin Procs /\ Pids \subseteq Nat /\ NextPids \subseteq Nat
        /\ \A i \in Indexes : i < NPROC => i \in Procs
    BY Zenon, IndexFacts
  <1>a. SleepInv /\ ScanInv
    BY Zenon DEF WakeInv
  <1>0. np[p] \in Procs /\ state[np[p]] = "USED" /\ pc[np[p]] = "forkret"
    <2>1. pc[p] = "fork_parent"
      BY Zenon DEF ForkParent, At
    <2> QED
      BY SMTT(60), <2>1, LockGives DEF LockFacts, ForkPcs
  <1>1. SleepInv'
    BY SMTT(60), <1>t, <1>i, <1>a, <1>0 DEF ForkParent, At, Goto, lockVars, cpuVars, localVars,
      SleepInv
  <1>2. ScanInv'
    BY SMTT(60), <1>t, <1>i, <1>a, <1>0 DEF ForkParent, At, Goto, lockVars, cpuVars, localVars,
      ScanInv
  <1> QED
    BY Zenon, <1>1, <1>2 DEF WakeInv

(* init may be asleep when it is given a ZOMBIE; p is about to wake it.    *)
LEMMA WakeReparentChild ==
    ASSUME TypeOK, LockInv, FamilyInv, WakeInv, NEW c \in Cpus, NEW p \in Procs, ReparentChild(c, p)
    PROVE  WakeInv'
  <1>t. /\ state \in [Procs -> ProcStates] /\ pc \in [Procs -> Pcs]
        /\ parent \in [Procs -> Procs \cup {Null}] /\ np \in [Procs -> Procs \cup {Null}]
        /\ idx \in [Procs -> Indexes] /\ widx \in [Procs -> Indexes]
        /\ pid \in [Procs -> Pids] /\ nextpid \in NextPids
    BY Zenon DEF TypeOK
  <1>i. /\ initproc \in Procs /\ Null \notin Procs /\ Pids \subseteq Nat /\ NextPids \subseteq Nat
        /\ \A i \in Indexes : i < NPROC => i \in Procs
    BY Zenon, IndexFacts
  <1>a. SleepInv /\ ScanInv
    BY Zenon DEF WakeInv
  <1>0. \A r \in Procs : pc[r] \in WaitLockPcs => r = p
    <2>1. pc[p] = "reparent"
      BY Zenon DEF ReparentChild, At
    <2>2. pc[p] \in WaitLockPcs
      BY SMTT(60), <2>1 DEF WaitLockPcs
    <2> QED
      BY Zenon, <2>2, OneHolder
  <1>b. idx[p] \in Procs /\ widx[p] = 0 /\ pc[p] = "reparent"
    BY SMTT(60), <1>t, <1>i DEF ReparentChild, At, FamilyInv, LocalInv
  <1>1. SleepInv'
    <2>1. \A x, y \in Procs : parent'[y] = x => parent[y] = x \/ x = initproc
      BY SMTT(60), <1>t, <1>b DEF ReparentChild
    <2>2. pc'[p] = "reparent_wakeup" /\ widx'[p] <= initproc /\ state' = state
      BY SMTT(60), <1>t, <1>b DEF ReparentChild, Goto, localVars, initproc
    <2>3. \A x \in Procs : pc[x] # "reparent_wakeup"
      BY SMTT(60), <1>0, <1>b DEF WaitLockPcs
    <2> QED
      BY SMTT(60), <1>a, <2>1, <2>2, <2>3 DEF SleepInv
  <1>2. ScanInv'
    BY SMTT(60), <1>t, <1>i, <1>a, <1>0 DEF ReparentChild, At, Goto, lockVars, cpuVars,
      localVars, ScanInv, WaitLockPcs
  <1> QED
    BY Zenon, <1>1, <1>2 DEF WakeInv

(* exit() starts its wakeup at entry 0.                                    *)
LEMMA WakeReparentDone ==
    ASSUME TypeOK, LockInv, FamilyInv, WakeInv, NEW c \in Cpus, NEW p \in Procs, ReparentDone(c, p)
    PROVE  WakeInv'
  <1>t. /\ state \in [Procs -> ProcStates] /\ pc \in [Procs -> Pcs]
        /\ parent \in [Procs -> Procs \cup {Null}] /\ np \in [Procs -> Procs \cup {Null}]
        /\ idx \in [Procs -> Indexes] /\ widx \in [Procs -> Indexes]
        /\ pid \in [Procs -> Pids] /\ nextpid \in NextPids
    BY Zenon DEF TypeOK
  <1>i. /\ initproc \in Procs /\ Null \notin Procs /\ Pids \subseteq Nat /\ NextPids \subseteq Nat
        /\ \A i \in Indexes : i < NPROC => i \in Procs
    BY Zenon, IndexFacts
  <1>a. SleepInv /\ ScanInv
    BY Zenon DEF WakeInv
  <1>0. \A r \in Procs : pc[r] \in WaitLockPcs => r = p
    <2>1. pc[p] = "reparent"
      BY Zenon DEF ReparentDone, At
    <2>2. pc[p] \in WaitLockPcs
      BY SMTT(60), <2>1 DEF WaitLockPcs
    <2> QED
      BY Zenon, <2>2, OneHolder
  <1>b. widx[p] = 0 /\ \A q \in Procs : 0 <= q
    BY SMTT(60), IndexFacts DEF ReparentDone, At, FamilyInv, LocalInv
  <1>1. SleepInv'
    BY SMTT(60), <1>t, <1>i, <1>a, <1>0 DEF ReparentDone, At, Goto, procVars, lockVars, cpuVars,
      SleepInv
  <1>2. ScanInv'
    BY SMTT(60), <1>t, <1>i, <1>a, <1>0, <1>b DEF ReparentDone, At, Goto, procVars, lockVars,
      cpuVars, ScanInv, WaitLockPcs
  <1> QED
    BY Zenon, <1>1, <1>2 DEF WakeInv

(* When the wakeup reaches init, init is RUNNABLE.                         *)
LEMMA WakeReparentWakeup ==
    ASSUME TypeOK, LockInv, FamilyInv, WakeInv, NEW c \in Cpus, NEW p \in Procs, ReparentWakeup(c, p)
    PROVE  WakeInv'
  <1>t. /\ state \in [Procs -> ProcStates] /\ pc \in [Procs -> Pcs]
        /\ parent \in [Procs -> Procs \cup {Null}] /\ np \in [Procs -> Procs \cup {Null}]
        /\ idx \in [Procs -> Indexes] /\ widx \in [Procs -> Indexes]
        /\ pid \in [Procs -> Pids] /\ nextpid \in NextPids
    BY Zenon DEF TypeOK
  <1>i. /\ initproc \in Procs /\ Null \notin Procs /\ Pids \subseteq Nat /\ NextPids \subseteq Nat
        /\ \A i \in Indexes : i < NPROC => i \in Procs
    BY Zenon, IndexFacts
  <1>a. SleepInv /\ ScanInv
    BY Zenon DEF WakeInv
  <1>0. \A r \in Procs : pc[r] \in WaitLockPcs => r = p
    <2>1. pc[p] = "reparent_wakeup"
      BY Zenon DEF ReparentWakeup, At
    <2>2. pc[p] \in WaitLockPcs
      BY SMTT(60), <2>1 DEF WaitLockPcs
    <2> QED
      BY Zenon, <2>2, OneHolder
  <1>b. widx[p] \in Procs /\ p # initproc /\ pc[p] = "reparent_wakeup"
    <2>1. widx[p] \in Procs /\ pc[p] = "reparent_wakeup"
      BY Zenon, <1>t, <1>i DEF ReparentWakeup, WakeupEntry, At
    <2> QED
      BY SMTT(60), <2>1 DEF FamilyInv, ParentInv, ExitPcs
  <1>c. \A x \in Procs : /\ state'[x] = "SLEEPING" => state[x] = "SLEEPING"
                         /\ state'[x] = "ZOMBIE" => state[x] = "ZOMBIE"
    BY SMTT(60), <1>t, <1>b DEF ReparentWakeup, WakeupEntry
  <1>d. UNCHANGED <<pc, parent, idx>> /\ widx' = [widx EXCEPT ![p] = widx[p] + 1]
    BY Zenon DEF ReparentWakeup, WakeupEntry
  <1>1. SleepInv'
    <2>1. SUFFICES ASSUME NEW x \in Procs, NEW y \in Procs, state'[x] = "SLEEPING",
                          parent'[y] = x, state'[y] = "ZOMBIE"
                   PROVE  FALSE
      BY Zenon DEF SleepInv
    <2>2. state[x] = "SLEEPING" /\ parent[y] = x /\ state[y] = "ZOMBIE"
      BY SMTT(60), <1>c, <1>d, <2>1
    <2>3. x = initproc /\ widx[p] <= initproc
      BY SMTT(60), <1>a, <1>0, <2>2 DEF SleepInv, WaitLockPcs
    <2>4. widx[p] = initproc
      BY SMTT(60), <1>b, <2>3, NPROCAssumption DEF initproc, Procs
    <2>5. chan[initproc] = initproc
      BY SMTT(60), <2>2, <2>3, LockGives DEF LockFacts
    <2>6. state'[initproc] = "RUNNABLE"
      BY SMTT(60), <1>t, <1>i, <1>b, <2>2, <2>3, <2>4, <2>5 DEF ReparentWakeup, WakeupEntry
    <2> QED
      BY SMTT(60), <2>1, <2>3, <2>6
  <1>2. ScanInv'
    BY SMTT(60), <1>t, <1>a, <1>0, <1>b, <1>c, <1>d DEF ScanInv, WaitLockPcs
  <1> QED
    BY Zenon, <1>1, <1>2 DEF WakeInv

(* reparent()'s wakeup has passed init.                                    *)
LEMMA WakeReparentWakeupDone ==
    ASSUME TypeOK, LockInv, FamilyInv, WakeInv, NEW c \in Cpus, NEW p \in Procs, ReparentWakeupDone(c, p)
    PROVE  WakeInv'
  <1>t. /\ state \in [Procs -> ProcStates] /\ pc \in [Procs -> Pcs]
        /\ parent \in [Procs -> Procs \cup {Null}] /\ np \in [Procs -> Procs \cup {Null}]
        /\ idx \in [Procs -> Indexes] /\ widx \in [Procs -> Indexes]
        /\ pid \in [Procs -> Pids] /\ nextpid \in NextPids
    BY Zenon DEF TypeOK
  <1>i. /\ initproc \in Procs /\ Null \notin Procs /\ Pids \subseteq Nat /\ NextPids \subseteq Nat
        /\ \A i \in Indexes : i < NPROC => i \in Procs
    BY Zenon, IndexFacts
  <1>a. SleepInv /\ ScanInv
    BY Zenon DEF WakeInv
  <1>0. \A r \in Procs : pc[r] \in WaitLockPcs => r = p
    <2>1. pc[p] = "reparent_wakeup"
      BY Zenon DEF ReparentWakeupDone, At
    <2>2. pc[p] \in WaitLockPcs
      BY SMTT(60), <2>1 DEF WaitLockPcs
    <2> QED
      BY Zenon, <2>2, OneHolder
  <1>b. widx[p] = NPROC /\ ~(NPROC <= initproc)
    BY SMTT(60), NPROCAssumption DEF ReparentWakeupDone, WakeupDone, initproc
  <1>1. SleepInv'
    BY SMTT(60), <1>t, <1>i, <1>a, <1>0, <1>b DEF ReparentWakeupDone, At, WakeupDone, Goto,
      procVars, lockVars, cpuVars, SleepInv, WaitLockPcs
  <1>2. ScanInv'
    BY SMTT(60), <1>t, <1>i, <1>a, <1>0 DEF ReparentWakeupDone, At, WakeupDone, Goto, procVars,
      lockVars, cpuVars, ScanInv
  <1> QED
    BY Zenon, <1>1, <1>2 DEF WakeInv

(* When the wakeup reaches the parent of p, the parent is RUNNABLE.        *)
LEMMA WakeExitWakeup ==
    ASSUME TypeOK, LockInv, FamilyInv, WakeInv, NEW c \in Cpus, NEW p \in Procs, ExitWakeup(c, p)
    PROVE  WakeInv'
  <1>t. /\ state \in [Procs -> ProcStates] /\ pc \in [Procs -> Pcs]
        /\ parent \in [Procs -> Procs \cup {Null}] /\ np \in [Procs -> Procs \cup {Null}]
        /\ idx \in [Procs -> Indexes] /\ widx \in [Procs -> Indexes]
        /\ pid \in [Procs -> Pids] /\ nextpid \in NextPids
    BY Zenon DEF TypeOK
  <1>i. /\ initproc \in Procs /\ Null \notin Procs /\ Pids \subseteq Nat /\ NextPids \subseteq Nat
        /\ \A i \in Indexes : i < NPROC => i \in Procs
    BY Zenon, IndexFacts
  <1>a. SleepInv /\ ScanInv
    BY Zenon DEF WakeInv
  <1>0. \A r \in Procs : pc[r] \in WaitLockPcs => r = p
    <2>1. pc[p] = "exit_wakeup"
      BY Zenon DEF ExitWakeup, At
    <2>2. pc[p] \in WaitLockPcs
      BY SMTT(60), <2>1 DEF WaitLockPcs
    <2> QED
      BY Zenon, <2>2, OneHolder
  <1>b. widx[p] \in Procs /\ parent[p] # p /\ pc[p] = "exit_wakeup"
    <2>1. widx[p] \in Procs /\ pc[p] = "exit_wakeup"
      BY Zenon, <1>t, <1>i DEF ExitWakeup, WakeupEntry, At
    <2>2. parent[p] = p => pid[p] < pid[p]
      BY SMTT(60), <1>i DEF FamilyInv, ParentInv
    <2>3. pid[p] \in Nat
      BY Zenon, <1>t, <1>i
    <2> QED
      BY SMTT(60), <2>1, <2>2, <2>3
  <1>c. \A x \in Procs : /\ state'[x] = "SLEEPING" => state[x] = "SLEEPING"
                         /\ state'[x] = "ZOMBIE" => state[x] = "ZOMBIE"
    BY SMTT(60), <1>t, <1>b DEF ExitWakeup, WakeupEntry
  <1>d. UNCHANGED <<pc, parent, idx>> /\ widx' = [widx EXCEPT ![p] = widx[p] + 1]
    BY Zenon DEF ExitWakeup, WakeupEntry
  <1>1. SleepInv'
    BY SMTT(60), <1>t, <1>a, <1>0, <1>b, <1>c, <1>d DEF SleepInv, WaitLockPcs
  <1>2. ScanInv'
    <2>1. ASSUME NEW x \in Procs, parent[p] = x, state'[x] = "SLEEPING"
          PROVE  widx'[p] <= x
      <3>1. state[x] = "SLEEPING" /\ chan[x] = x /\ x # p
        <4>1. state[x] = "SLEEPING"
          BY Zenon, <1>c, <2>1
        <4> QED
          BY Zenon, <1>b, <2>1, <4>1, LockGives DEF LockFacts
      <3>2. widx[p] # x
        BY SMTT(60), <1>t, <1>b, <2>1, <3>1 DEF ExitWakeup, WakeupEntry
      <3>3. widx[p] <= x
        BY SMTT(60), <1>a, <1>b, <2>1, <3>1 DEF ScanInv
      <3>4. widx'[p] = widx[p] + 1
        BY SMTT(60), <1>t, <1>d
      <3> QED
        BY SMTT(60), <1>b, <3>2, <3>3, <3>4, NPROCAssumption DEF Procs
    <2> QED
      BY SMTT(60), <1>t, <1>a, <1>0, <1>b, <1>c, <1>d, <2>1 DEF ScanInv, WaitLockPcs
  <1> QED
    BY Zenon, <1>1, <1>2 DEF WakeInv

(* exit()'s wakeup has passed the parent.                                  *)
LEMMA WakeExitWakeupDone ==
    ASSUME TypeOK, LockInv, FamilyInv, WakeInv, NEW c \in Cpus, NEW p \in Procs, ExitWakeupDone(c, p)
    PROVE  WakeInv'
  <1>t. /\ state \in [Procs -> ProcStates] /\ pc \in [Procs -> Pcs]
        /\ parent \in [Procs -> Procs \cup {Null}] /\ np \in [Procs -> Procs \cup {Null}]
        /\ idx \in [Procs -> Indexes] /\ widx \in [Procs -> Indexes]
        /\ pid \in [Procs -> Pids] /\ nextpid \in NextPids
    BY Zenon DEF TypeOK
  <1>i. /\ initproc \in Procs /\ Null \notin Procs /\ Pids \subseteq Nat /\ NextPids \subseteq Nat
        /\ \A i \in Indexes : i < NPROC => i \in Procs
    BY Zenon, IndexFacts
  <1>a. SleepInv /\ ScanInv
    BY Zenon DEF WakeInv
  <1>0. \A r \in Procs : pc[r] \in WaitLockPcs => r = p
    <2>1. pc[p] = "exit_wakeup"
      BY Zenon DEF ExitWakeupDone, At
    <2>2. pc[p] \in WaitLockPcs
      BY SMTT(60), <2>1 DEF WaitLockPcs
    <2> QED
      BY Zenon, <2>2, OneHolder
  <1>b. widx[p] = NPROC /\ \A x \in Procs : ~(NPROC <= x)
    BY SMTT(60), NPROCAssumption DEF ExitWakeupDone, WakeupDone, Procs
  <1>1. SleepInv'
    BY SMTT(60), <1>t, <1>i, <1>a, <1>0 DEF ExitWakeupDone, At, WakeupDone, Goto, procVars,
      lockVars, cpuVars, SleepInv
  <1>2. ScanInv'
    BY SMTT(60), <1>t, <1>i, <1>a, <1>0, <1>b DEF ExitWakeupDone, At, WakeupDone, Goto,
      procVars, lockVars, cpuVars, ScanInv, WaitLockPcs
  <1> QED
    BY Zenon, <1>1, <1>2 DEF WakeInv

(* The parent of a new ZOMBIE is neither asleep nor scanning.              *)
LEMMA WakeExitZombie ==
    ASSUME TypeOK, LockInv, FamilyInv, WakeInv, NEW c \in Cpus, NEW p \in Procs, ExitZombie(c, p)
    PROVE  WakeInv'
  <1>t. /\ state \in [Procs -> ProcStates] /\ pc \in [Procs -> Pcs]
        /\ parent \in [Procs -> Procs \cup {Null}] /\ np \in [Procs -> Procs \cup {Null}]
        /\ idx \in [Procs -> Indexes] /\ widx \in [Procs -> Indexes]
        /\ pid \in [Procs -> Pids] /\ nextpid \in NextPids
    BY Zenon DEF TypeOK
  <1>i. /\ initproc \in Procs /\ Null \notin Procs /\ Pids \subseteq Nat /\ NextPids \subseteq Nat
        /\ \A i \in Indexes : i < NPROC => i \in Procs
    BY Zenon, IndexFacts
  <1>a. SleepInv /\ ScanInv
    BY Zenon DEF WakeInv
  <1>0. \A r \in Procs : pc[r] \in WaitLockPcs => r = p
    <2>1. pc[p] = "exit_zombie"
      BY Zenon DEF ExitZombie, At
    <2>2. pc[p] \in WaitLockPcs
      BY SMTT(60), <2>1 DEF WaitLockPcs
    <2> QED
      BY Zenon, <2>2, OneHolder
  <1>1. SleepInv'
    BY SMTT(60), <1>t, <1>i, <1>a, <1>0 DEF ExitZombie, At, Goto, cpuVars, localVars, SleepInv,
      ScanInv, WaitLockPcs
  <1>2. ScanInv'
    BY SMTT(60), <1>t, <1>i, <1>a, <1>0 DEF ExitZombie, At, Goto, cpuVars, localVars, ScanInv,
      WaitLockPcs
  <1> QED
    BY Zenon, <1>1, <1>2 DEF WakeInv

(* wait() starts its scan at entry 0, with nobody else in wait_lock.       *)
LEMMA WakeWaitLock ==
    ASSUME TypeOK, LockInv, FamilyInv, WakeInv, NEW c \in Cpus, NEW p \in Procs, WaitLock(c, p)
    PROVE  WakeInv'
  <1>t. /\ state \in [Procs -> ProcStates] /\ pc \in [Procs -> Pcs]
        /\ parent \in [Procs -> Procs \cup {Null}] /\ np \in [Procs -> Procs \cup {Null}]
        /\ idx \in [Procs -> Indexes] /\ widx \in [Procs -> Indexes]
        /\ pid \in [Procs -> Pids] /\ nextpid \in NextPids
    BY Zenon DEF TypeOK
  <1>i. /\ initproc \in Procs /\ Null \notin Procs /\ Pids \subseteq Nat /\ NextPids \subseteq Nat
        /\ \A i \in Indexes : i < NPROC => i \in Procs
    BY Zenon, IndexFacts
  <1>a. SleepInv /\ ScanInv
    BY Zenon DEF WakeInv
  <1>0. (\A r \in Procs : pc[r] \notin WaitLockPcs) /\ idx[p] = 0 /\ \A x \in Procs : 0 <= x
    BY SMTT(60), OneHolder, IndexFacts DEF WaitLock, At, FamilyInv, LocalInv
  <1>1. SleepInv'
    BY SMTT(60), <1>t, <1>i, <1>a, <1>0 DEF WaitLock, At, Goto, procVars, cpuVars, localVars,
      SleepInv
  <1>2. ScanInv'
    BY SMTT(60), <1>t, <1>i, <1>a, <1>0 DEF WaitLock, At, Goto, procVars, cpuVars, localVars,
      ScanInv, WaitLockPcs
  <1> QED
    BY Zenon, <1>1, <1>2 DEF WakeInv

(* wait() passes an entry that is not a ZOMBIE child.                      *)
LEMMA WakeWaitSkip ==
    ASSUME TypeOK, LockInv, FamilyInv, WakeInv, NEW c \in Cpus, NEW p \in Procs, WaitSkip(c, p)
    PROVE  WakeInv'
  <1>t. /\ state \in [Procs -> ProcStates] /\ pc \in [Procs -> Pcs]
        /\ parent \in [Procs -> Procs \cup {Null}] /\ np \in [Procs -> Procs \cup {Null}]
        /\ idx \in [Procs -> Indexes] /\ widx \in [Procs -> Indexes]
        /\ pid \in [Procs -> Pids] /\ nextpid \in NextPids
    BY Zenon DEF TypeOK
  <1>i. /\ initproc \in Procs /\ Null \notin Procs /\ Pids \subseteq Nat /\ NextPids \subseteq Nat
        /\ \A i \in Indexes : i < NPROC => i \in Procs
    BY Zenon, IndexFacts
  <1>a. SleepInv /\ ScanInv
    BY Zenon DEF WakeInv
  <1>0. \A r \in Procs : pc[r] \in WaitLockPcs => r = p
    <2>1. pc[p] = "wait_scan"
      BY Zenon DEF WaitSkip, At
    <2>2. pc[p] \in WaitLockPcs
      BY SMTT(60), <2>1 DEF WaitLockPcs
    <2> QED
      BY Zenon, <2>2, OneHolder
  <1>b. idx[p] \in Procs /\ \A x \in Procs : idx[p] <= x => x = idx[p] \/ idx[p] + 1 <= x
    <2>1. idx[p] \in Procs
      BY Zenon, <1>t, <1>i DEF WaitSkip
    <2> QED
      BY SMTT(60), <2>1, NPROCAssumption DEF Procs
  <1>1. SleepInv'
    BY SMTT(60), <1>t, <1>i, <1>a, <1>0 DEF WaitSkip, At, procVars, lockVars, cpuVars, SleepInv
  <1>2. ScanInv'
    BY SMTT(60), <1>t, <1>i, <1>a, <1>0, <1>b DEF WaitSkip, At, procVars, lockVars, cpuVars,
      ScanInv, WaitLockPcs
  <1> QED
    BY Zenon, <1>1, <1>2 DEF WakeInv

(* The scan is over and found no ZOMBIE child.                             *)
LEMMA WakeWaitCheckKilled ==
    ASSUME TypeOK, LockInv, FamilyInv, WakeInv, NEW c \in Cpus, NEW p \in Procs, WaitCheckKilled(c, p)
    PROVE  WakeInv'
  <1>t. /\ state \in [Procs -> ProcStates] /\ pc \in [Procs -> Pcs]
        /\ parent \in [Procs -> Procs \cup {Null}] /\ np \in [Procs -> Procs \cup {Null}]
        /\ idx \in [Procs -> Indexes] /\ widx \in [Procs -> Indexes]
        /\ pid \in [Procs -> Pids] /\ nextpid \in NextPids
    BY Zenon DEF TypeOK
  <1>i. /\ initproc \in Procs /\ Null \notin Procs /\ Pids \subseteq Nat /\ NextPids \subseteq Nat
        /\ \A i \in Indexes : i < NPROC => i \in Procs
    BY Zenon, IndexFacts
  <1>a. SleepInv /\ ScanInv
    BY Zenon DEF WakeInv
  <1>0. \A r \in Procs : pc[r] \in WaitLockPcs => r = p
    <2>1. pc[p] = "wait_scan"
      BY Zenon DEF WaitCheckKilled, At
    <2>2. pc[p] \in WaitLockPcs
      BY SMTT(60), <2>1 DEF WaitLockPcs
    <2> QED
      BY Zenon, <2>2, OneHolder
  <1>b. idx[p] = NPROC /\ \A x \in Procs : ~(NPROC <= x)
    BY SMTT(60), NPROCAssumption DEF WaitCheckKilled, Procs
  <1>1. SleepInv'
    BY SMTT(60), <1>t, <1>i, <1>a, <1>0 DEF WaitCheckKilled, At, Goto, procVars, lockVars,
      cpuVars, localVars, SleepInv
  <1>2. ScanInv'
    BY SMTT(60), <1>t, <1>i, <1>a, <1>0, <1>b DEF WaitCheckKilled, At, Goto, procVars, lockVars,
      cpuVars, localVars, ScanInv, WaitLockPcs
  <1> QED
    BY Zenon, <1>1, <1>2 DEF WakeInv

(* A parent falls asleep: no child is a ZOMBIE or past its wakeup.         *)
LEMMA WakeWaitSleep ==
    ASSUME TypeOK, LockInv, FamilyInv, WakeInv, NEW c \in Cpus, NEW p \in Procs, WaitSleep(c, p)
    PROVE  WakeInv'
  <1>t. /\ state \in [Procs -> ProcStates] /\ pc \in [Procs -> Pcs]
        /\ parent \in [Procs -> Procs \cup {Null}] /\ np \in [Procs -> Procs \cup {Null}]
        /\ idx \in [Procs -> Indexes] /\ widx \in [Procs -> Indexes]
        /\ pid \in [Procs -> Pids] /\ nextpid \in NextPids
    BY Zenon DEF TypeOK
  <1>i. /\ initproc \in Procs /\ Null \notin Procs /\ Pids \subseteq Nat /\ NextPids \subseteq Nat
        /\ \A i \in Indexes : i < NPROC => i \in Procs
    BY Zenon, IndexFacts
  <1>a. SleepInv /\ ScanInv
    BY Zenon DEF WakeInv
  <1>0. \A r \in Procs : pc[r] \in WaitLockPcs => r = p
    <2>1. pc[p] = "wait_sleep"
      BY Zenon DEF WaitSleep, At
    <2>2. pc[p] \in WaitLockPcs
      BY SMTT(60), <2>1 DEF WaitLockPcs
    <2> QED
      BY Zenon, <2>2, OneHolder
  <1>1. SleepInv'
    BY SMTT(60), <1>t, <1>i, <1>a, <1>0 DEF WaitSleep, At, cpuVars, WaitLeave, Goto, SleepInv,
      ScanInv, WaitLockPcs
  <1>2. ScanInv'
    BY SMTT(60), <1>t, <1>i, <1>a, <1>0 DEF WaitSleep, At, cpuVars, WaitLeave, Goto, ScanInv,
      WaitLockPcs
  <1> QED
    BY Zenon, <1>1, <1>2 DEF WakeInv

(* Every step keeps exit()'s wakeup in time.                               *)
LEMMA WakeNext ==
    TypeOK /\ LockInv /\ FamilyInv /\ WakeInv /\ [Next]_vars => WakeInv'
  <1> SUFFICES ASSUME TypeOK, LockInv, FamilyInv, WakeInv, [Next]_vars PROVE WakeInv'
    OBVIOUS
  <1>1. CASE UNCHANGED vars
    BY Zenon, <1>1, Stutter, QuietKeeps
  <1>2. ASSUME NEW c \in Cpus, NEW p \in Procs,
       \/ SchedSkip(c) \/ SchedRun(c) \/ Swtch(c, p) \/ YieldReturn(c, p) \/ Forkret(c, p)
       \/ SleepReturn(c, p) \/ TrapReturn(c, p) \/ ForkSkip(c, p) \/ ForkAlloc(c, p)
       \/ ForkFail(c, p) \/ ForkFull(c, p) \/ ForkRun(c, p) \/ ExitPanic(c, p)
       \/ ExitLock(c, p) \/ ReparentSkip(c, p) \/ WaitReap(c, p) \/ WaitCopyoutFail(c, p)
       \/ WaitNone(c, p) \/ KillSkip(c, p) \/ KillFound(c, p) \/ KillNone(c, p)
       \/ Syscall(c, p) \/ Fault(c, p) \/ TrapKilled(c, p) \/ UserTimer(c, p)
       \/ KernelTimer(c, p)
        PROVE  WakeInv'
    <2>1. Quiet
      BY Zenon, <1>2, QuietSteps
    <2> QED
      BY Zenon, <2>1, QuietKeeps
  <1>3. ASSUME NEW c \in Cpus, NEW p \in Procs, ForkParent(c, p) PROVE WakeInv'
    BY Zenon, <1>3, WakeForkParent
  <1>4. ASSUME NEW c \in Cpus, NEW p \in Procs, ReparentChild(c, p) PROVE WakeInv'
    BY Zenon, <1>4, WakeReparentChild
  <1>5. ASSUME NEW c \in Cpus, NEW p \in Procs, ReparentDone(c, p) PROVE WakeInv'
    BY Zenon, <1>5, WakeReparentDone
  <1>6. ASSUME NEW c \in Cpus, NEW p \in Procs, ReparentWakeup(c, p) PROVE WakeInv'
    BY Zenon, <1>6, WakeReparentWakeup
  <1>7. ASSUME NEW c \in Cpus, NEW p \in Procs, ReparentWakeupDone(c, p) PROVE WakeInv'
    BY Zenon, <1>7, WakeReparentWakeupDone
  <1>8. ASSUME NEW c \in Cpus, NEW p \in Procs, ExitWakeup(c, p) PROVE WakeInv'
    BY Zenon, <1>8, WakeExitWakeup
  <1>9. ASSUME NEW c \in Cpus, NEW p \in Procs, ExitWakeupDone(c, p) PROVE WakeInv'
    BY Zenon, <1>9, WakeExitWakeupDone
  <1>10. ASSUME NEW c \in Cpus, NEW p \in Procs, ExitZombie(c, p) PROVE WakeInv'
    BY Zenon, <1>10, WakeExitZombie
  <1>11. ASSUME NEW c \in Cpus, NEW p \in Procs, WaitLock(c, p) PROVE WakeInv'
    BY Zenon, <1>11, WakeWaitLock
  <1>12. ASSUME NEW c \in Cpus, NEW p \in Procs, WaitSkip(c, p) PROVE WakeInv'
    BY Zenon, <1>12, WakeWaitSkip
  <1>13. ASSUME NEW c \in Cpus, NEW p \in Procs, WaitCheckKilled(c, p) PROVE WakeInv'
    BY Zenon, <1>13, WakeWaitCheckKilled
  <1>14. ASSUME NEW c \in Cpus, NEW p \in Procs, WaitSleep(c, p) PROVE WakeInv'
    BY Zenon, <1>14, WakeWaitSleep
  <1>15. ASSUME NEW c \in Cpus, NEW p \in Procs, SchedStep(c) PROVE WakeInv'
    BY SMTT(60), <1>15, <1>2 DEF SchedStep
  <1>16. ASSUME NEW c \in Cpus, NEW p \in Procs, SwitchStep(c, p) PROVE WakeInv'
    BY SMTT(60), <1>16, <1>2 DEF SwitchStep
  <1>17. ASSUME NEW c \in Cpus, NEW p \in Procs, ForkStep(c, p) PROVE WakeInv'
    BY SMTT(60), <1>17, <1>2, <1>3 DEF ForkStep
  <1>18. ASSUME NEW c \in Cpus, NEW p \in Procs, ExitStep(c, p) PROVE WakeInv'
    BY SMTT(60), <1>18, <1>2, <1>4, <1>5, <1>6, <1>7, <1>8, <1>9, <1>10 DEF ExitStep
  <1>19. ASSUME NEW c \in Cpus, NEW p \in Procs, WaitStep(c, p) PROVE WakeInv'
    BY SMTT(60), <1>19, <1>2, <1>11, <1>12, <1>13, <1>14 DEF WaitStep
  <1>20. ASSUME NEW c \in Cpus, NEW p \in Procs, KillStep(c, p) PROVE WakeInv'
    BY SMTT(60), <1>20, <1>2 DEF KillStep
  <1>21. ASSUME NEW c \in Cpus, NEW p \in Procs, TrapStep(c, p) PROVE WakeInv'
    BY SMTT(60), <1>21, <1>2 DEF TrapStep
  <1>22. ASSUME NEW c \in Cpus, NEW p \in Procs, CallStep(c, p) PROVE WakeInv'
    BY SMTT(60), <1>22, <1>2, <1>17, <1>18, <1>19, <1>20 DEF CallStep
  <1>23. initproc \in Procs
    BY Zenon, IndexFacts
  <1> QED
    BY Zenon, <1>1, <1>15, <1>16, <1>21, <1>22, <1>23 DEF Next

=============================================================================
