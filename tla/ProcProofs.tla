----------------------------- MODULE ProcProofs -----------------------------
(***************************************************************************)
(* The theorems about Proc that follow from its inductive invariant: the   *)
(* safety properties, and that the process table implements ProcTree.      *)
(***************************************************************************)
EXTENDS ProcInvProofs

(* Every step keeps the types.                                             *)
LEMMA TypeNext == TypeOK /\ [Next]_vars => TypeOK'
  <1> SUFFICES ASSUME TypeOK, [Next]_vars PROVE TypeOK'
    BY Zenon
  <1> USE IndexFacts, PcFacts DEF TypeOK,
      At, Goto, procVars, lockVars, cpuVars, threadVars, localVars, ProcStates
  <1> DEFINE Kept == TypeOK'
  <1> HIDE DEF Kept
  <1>1. ASSUME UNCHANGED vars PROVE Kept
    <2>z. TypeOK'
      BY <1>1 DEF vars
    <2> QED
      BY Zenon, <2>z DEF Kept
  <1>2. ASSUME NEW c \in Cpus, SchedSkip(c) PROVE Kept
    <2>z. TypeOK'
      BY Zenon, <1>2 DEF SchedSkip
    <2> QED
      BY Zenon, <2>z DEF Kept
  <1>3. ASSUME NEW c \in Cpus, SchedRun(c) PROVE Kept
    <2>z. TypeOK'
      BY <1>3 DEF SchedRun
    <2> QED
      BY Zenon, <2>z DEF Kept
  <1>4. ASSUME NEW c \in Cpus, NEW p \in Procs, Swtch(c, p) PROVE Kept
    <2>z. TypeOK'
      BY <1>4 DEF Swtch
    <2> QED
      BY Zenon, <2>z DEF Kept
  <1>5. ASSUME NEW c \in Cpus, NEW p \in Procs, YieldReturn(c, p) PROVE Kept
    <2>z. TypeOK'
      BY <1>5 DEF YieldReturn
    <2> QED
      BY Zenon, <2>z DEF Kept
  <1>6. ASSUME NEW c \in Cpus, NEW p \in Procs, Forkret(c, p) PROVE Kept
    <2>z. TypeOK'
      BY <1>6 DEF Forkret
    <2> QED
      BY Zenon, <2>z DEF Kept
  <1>7. ASSUME NEW c \in Cpus, NEW p \in Procs, SleepReturn(c, p) PROVE Kept
    <2>z. TypeOK'
      BY <1>7 DEF SleepReturn
    <2> QED
      BY Zenon, <2>z DEF Kept
  <1>8. ASSUME NEW c \in Cpus, NEW p \in Procs, TrapReturn(c, p) PROVE Kept
    <2>z. TypeOK'
      BY <1>8 DEF TrapReturn
    <2> QED
      BY Zenon, <2>z DEF Kept
  <1>9. ASSUME NEW c \in Cpus, NEW p \in Procs, ForkSkip(c, p) PROVE Kept
    <2>z. TypeOK'
      BY Zenon, <1>9 DEF ForkSkip
    <2> QED
      BY Zenon, <2>z DEF Kept
  <1>10. ASSUME NEW c \in Cpus, NEW p \in Procs, ForkAlloc(c, p) PROVE Kept
    <2>z. TypeOK'
      BY Zenon, <1>10 DEF ForkAlloc, Allocpid
    <2> QED
      BY Zenon, <2>z DEF Kept
  <1>11. ASSUME NEW c \in Cpus, NEW p \in Procs, ForkFail(c, p) PROVE Kept
    <2>z. TypeOK'
      BY Zenon, <1>11 DEF ForkFail, Freeproc
    <2> QED
      BY Zenon, <2>z DEF Kept
  <1>12. ASSUME NEW c \in Cpus, NEW p \in Procs, ForkFull(c, p) PROVE Kept
    <2>z. TypeOK'
      BY <1>12 DEF ForkFull
    <2> QED
      BY Zenon, <2>z DEF Kept
  <1>13. ASSUME NEW c \in Cpus, NEW p \in Procs, ForkParent(c, p) PROVE Kept
    <2>z. TypeOK'
      BY Zenon, <1>13 DEF ForkParent
    <2> QED
      BY Zenon, <2>z DEF Kept
  <1>14. ASSUME NEW c \in Cpus, NEW p \in Procs, ForkRun(c, p) PROVE Kept
    <2>z. TypeOK'
      BY Zenon, <1>14 DEF ForkRun
    <2> QED
      BY Zenon, <2>z DEF Kept
  <1>15. ASSUME NEW c \in Cpus, NEW p \in Procs, ExitPanic(c, p) PROVE Kept
    <2>z. TypeOK'
      BY <1>15 DEF ExitPanic
    <2> QED
      BY Zenon, <2>z DEF Kept
  <1>16. ASSUME NEW c \in Cpus, NEW p \in Procs, ExitLock(c, p) PROVE Kept
    <2>z. TypeOK'
      BY <1>16 DEF ExitLock
    <2> QED
      BY Zenon, <2>z DEF Kept
  <1>17. ASSUME NEW c \in Cpus, NEW p \in Procs, ReparentChild(c, p) PROVE Kept
    <2>z. TypeOK'
      BY Zenon, <1>17 DEF ReparentChild
    <2> QED
      BY Zenon, <2>z DEF Kept
  <1>18. ASSUME NEW c \in Cpus, NEW p \in Procs, ReparentSkip(c, p) PROVE Kept
    <2>z. TypeOK'
      BY Zenon, <1>18 DEF ReparentSkip
    <2> QED
      BY Zenon, <2>z DEF Kept
  <1>19. ASSUME NEW c \in Cpus, NEW p \in Procs, ReparentDone(c, p) PROVE Kept
    <2>z. TypeOK'
      BY <1>19 DEF ReparentDone
    <2> QED
      BY Zenon, <2>z DEF Kept
  <1>20. ASSUME NEW c \in Cpus, NEW p \in Procs, ReparentWakeup(c, p) PROVE Kept
    <2>z. TypeOK'
      BY Zenon, <1>20 DEF ReparentWakeup, WakeupEntry
    <2> QED
      BY Zenon, <2>z DEF Kept
  <1>21. ASSUME NEW c \in Cpus, NEW p \in Procs, ReparentWakeupDone(c, p) PROVE Kept
    <2>z. TypeOK'
      BY <1>21 DEF ReparentWakeupDone, WakeupDone
    <2> QED
      BY Zenon, <2>z DEF Kept
  <1>22. ASSUME NEW c \in Cpus, NEW p \in Procs, ExitWakeup(c, p) PROVE Kept
    <2>z. TypeOK'
      BY Zenon, <1>22 DEF ExitWakeup, WakeupEntry
    <2> QED
      BY Zenon, <2>z DEF Kept
  <1>23. ASSUME NEW c \in Cpus, NEW p \in Procs, ExitWakeupDone(c, p) PROVE Kept
    <2>z. TypeOK'
      BY <1>23 DEF ExitWakeupDone, WakeupDone
    <2> QED
      BY Zenon, <2>z DEF Kept
  <1>24. ASSUME NEW c \in Cpus, NEW p \in Procs, ExitZombie(c, p) PROVE Kept
    <2>z. TypeOK'
      BY <1>24 DEF ExitZombie
    <2> QED
      BY Zenon, <2>z DEF Kept
  <1>25. ASSUME NEW c \in Cpus, NEW p \in Procs, WaitLock(c, p) PROVE Kept
    <2>z. TypeOK'
      BY <1>25 DEF WaitLock
    <2> QED
      BY Zenon, <2>z DEF Kept
  <1>26. ASSUME NEW c \in Cpus, NEW p \in Procs, WaitSkip(c, p) PROVE Kept
    <2>z. TypeOK'
      BY Zenon, <1>26 DEF WaitSkip
    <2> QED
      BY Zenon, <2>z DEF Kept
  <1>27. ASSUME NEW c \in Cpus, NEW p \in Procs, WaitReap(c, p) PROVE Kept
    <2>z. TypeOK'
      BY Zenon, <1>27 DEF WaitReap, Freeproc, FoundZombie, WaitLeave
    <2> QED
      BY Zenon, <2>z DEF Kept
  <1>28. ASSUME NEW c \in Cpus, NEW p \in Procs, WaitCopyoutFail(c, p) PROVE Kept
    <2>z. TypeOK'
      BY <1>28 DEF WaitCopyoutFail, FoundZombie, WaitLeave
    <2> QED
      BY Zenon, <2>z DEF Kept
  <1>29. ASSUME NEW c \in Cpus, NEW p \in Procs, WaitNone(c, p) PROVE Kept
    <2>z. TypeOK'
      BY <1>29 DEF WaitNone, WaitLeave
    <2> QED
      BY Zenon, <2>z DEF Kept
  <1>30. ASSUME NEW c \in Cpus, NEW p \in Procs, WaitCheckKilled(c, p) PROVE Kept
    <2>z. TypeOK'
      BY <1>30 DEF WaitCheckKilled
    <2> QED
      BY Zenon, <2>z DEF Kept
  <1>31. ASSUME NEW c \in Cpus, NEW p \in Procs, WaitSleep(c, p) PROVE Kept
    <2>z. TypeOK'
      BY <1>31 DEF WaitSleep, WaitLeave
    <2> QED
      BY Zenon, <2>z DEF Kept
  <1>32. ASSUME NEW c \in Cpus, NEW p \in Procs, KillSkip(c, p) PROVE Kept
    <2>z. TypeOK'
      BY Zenon, <1>32 DEF KillSkip
    <2> QED
      BY Zenon, <2>z DEF Kept
  <1>33. ASSUME NEW c \in Cpus, NEW p \in Procs, KillFound(c, p) PROVE Kept
    <2>z. TypeOK'
      BY Zenon, <1>33 DEF KillFound, KillLeave
    <2> QED
      BY Zenon, <2>z DEF Kept
  <1>34. ASSUME NEW c \in Cpus, NEW p \in Procs, KillNone(c, p) PROVE Kept
    <2>z. TypeOK'
      BY <1>34 DEF KillNone, KillLeave
    <2> QED
      BY Zenon, <2>z DEF Kept
  <1>35. ASSUME NEW c \in Cpus, NEW p \in Procs, Syscall(c, p) PROVE Kept
    <2>z. TypeOK'
      BY SMTT(60), <1>35, EntryFacts DEF Syscall
    <2> QED
      BY Zenon, <2>z DEF Kept
  <1>36. ASSUME NEW c \in Cpus, NEW p \in Procs, Fault(c, p) PROVE Kept
    <2>z. TypeOK'
      BY <1>36 DEF Fault
    <2> QED
      BY Zenon, <2>z DEF Kept
  <1>37. ASSUME NEW c \in Cpus, NEW p \in Procs, TrapKilled(c, p) PROVE Kept
    <2>z. TypeOK'
      BY SMTT(60), <1>37 DEF TrapKilled
    <2> QED
      BY Zenon, <2>z DEF Kept
  <1>38. ASSUME NEW c \in Cpus, NEW p \in Procs, UserTimer(c, p) PROVE Kept
    <2>z. TypeOK'
      BY <1>38 DEF UserTimer, EnterYield
    <2> QED
      BY Zenon, <2>z DEF Kept
  <1>39. ASSUME NEW c \in Cpus, NEW p \in Procs, KernelTimer(c, p) PROVE Kept
    <2>z. TypeOK'
      BY SMTT(60), <1>39 DEF KernelTimer, EnterYield
    <2> QED
      BY Zenon, <2>z DEF Kept
  <1> QED
    BY ZenonT(60), <1>1, <1>2, <1>3, <1>4, <1>5, <1>6, <1>7, <1>8, <1>9, <1>10, <1>11, <1>12, <1>13,
      <1>14, <1>15, <1>16, <1>17, <1>18, <1>19, <1>20, <1>21, <1>22, <1>23, <1>24, <1>25,
      <1>26, <1>27, <1>28, <1>29, <1>30, <1>31, <1>32, <1>33, <1>34, <1>35, <1>36, <1>37,
      <1>38, <1>39
    DEF Kept, Next, SchedStep, SwitchStep, CallStep, TrapStep, ForkStep, ExitStep, WaitStep,
      KillStep

(* No CPU is on the stack of a process that is inside sched() and whose    *)
(* lock is free.                                                           *)
LEMMA FreeOffCpu ==
    PLockInv => \A q \in Procs, d \in Cpus : plock[q] = Null /\ InSched(q) => cproc[d] # q
  BY NullAssumption DEF PLockInv

(* A RUNNABLE process whose lock is free is on no CPU.                     *)
LEMMA RunnableOffCpu ==
    ASSUME LockInv, NEW q \in Procs, state[q] = "RUNNABLE", plock[q] = Null
    PROVE  InSched(q) /\ \A d \in Cpus : cproc[d] # q
  <1>1. InSched(q)
    BY Zenon DEF LockInv, StateInv
  <1> QED
    BY Zenon, <1>1, FreeOffCpu DEF LockInv

(* A step that takes and releases no lock and switches no stack: a thread  *)
(* goes on outside sched(), and at most wakes a sleeper.                   *)
Plain ==
  /\ UNCHANGED <<plock, waitLock, cproc, inyield>>
  /\ \A q \in Procs :
       /\ pc'[q] = pc[q] \/ (pc[q] \notin SchedPcs /\ pc'[q] \notin SchedPcs)
       /\ pc'[q] \in WaitLockPcs <=> pc[q] \in WaitLockPcs
       /\ pc'[q] \in ForkPcs => pc[q] \in ForkPcs /\ np'[q] = np[q]
       /\ state'[q] = state[q] \/ (state[q] = "SLEEPING" /\ state'[q] = "RUNNABLE")
       /\ chan'[q] = chan[q] \/ state[q] = "UNUSED"

(* A plain step keeps locks, stacks and states consistent.                 *)
LEMMA PlainKeeps ==
    ASSUME TypeOK, LockInv, Plain PROVE LockInv'
  <1>t. /\ state \in [Procs -> ProcStates] /\ pc \in [Procs -> Pcs] /\ chan \in [Procs -> Procs \cup {Null}]
        /\ plock \in [Procs -> Cpus \cup {Null}] /\ waitLock \in Cpus \cup {Null}
        /\ cproc \in [Cpus -> Procs \cup {Null}] /\ inyield \in [Procs -> BOOLEAN]
        /\ np \in [Procs -> Procs \cup {Null}] /\ idx \in [Procs -> Indexes] /\ sidx \in [Cpus -> Procs]
    BY Zenon DEF TypeOK
  <1>i. /\ Null \notin Procs /\ Null \notin Cpus /\ \A i \in Indexes : i < NPROC => i \in Procs
    BY Zenon, IndexFacts, NullAssumption
  <1>a. PLockInv /\ WaitLockInv /\ StackInv /\ StateInv /\ ChildInv
    BY Zenon DEF LockInv
  <1>1. PLockInv'
    BY SMTT(60), <1>a DEF PLockInv, Plain, InSched
  <1>2. WaitLockInv'
    BY SMTT(60), <1>t, <1>a DEF WaitLockInv, Plain
  <1>3. StackInv'
    BY SMTT(60), <1>a DEF StackInv, Plain
  <1>4. StateInv'
    BY SMTT(60), <1>a DEF StateInv, Plain, InSched, OnCpu, Started, SchedPcs
  <1>5. ChildInv'
    BY SMTT(60), <1>a DEF ChildInv, Plain
  <1> QED
    BY Zenon, <1>1, <1>2, <1>3, <1>4, <1>5 DEF LockInv

(* Most steps of a system call are plain.                                  *)
LEMMA PlainSteps ==
    ASSUME TypeOK, LockInv, NEW c \in Cpus, NEW p \in Procs
    PROVE
       \/ SchedSkip(c) \/ TrapReturn(c, p) \/ Syscall(c, p) \/ Fault(c, p)
       \/ TrapKilled(c, p) \/ ForkSkip(c, p) \/ ForkFail(c, p) \/ ForkFull(c, p)
       \/ ForkParent(c, p) \/ ExitPanic(c, p) \/ ReparentChild(c, p) \/ ReparentSkip(c, p)
       \/ ReparentDone(c, p) \/ ReparentWakeup(c, p) \/ ReparentWakeupDone(c, p)
       \/ ExitWakeup(c, p) \/ ExitWakeupDone(c, p) \/ WaitSkip(c, p)
       \/ WaitCheckKilled(c, p) \/ KillSkip(c, p) \/ KillFound(c, p) \/ KillNone(c, p)
       => Plain
  <1>t. /\ state \in [Procs -> ProcStates] /\ pc \in [Procs -> Pcs] /\ chan \in [Procs -> Procs \cup {Null}]
        /\ widx \in [Procs -> Indexes] /\ waitLock \in Cpus \cup {Null}
        /\ cproc \in [Cpus -> Procs \cup {Null}] /\ inyield \in [Procs -> BOOLEAN]
        /\ np \in [Procs -> Procs \cup {Null}] /\ idx \in [Procs -> Indexes] /\ sidx \in [Cpus -> Procs]
    BY Zenon DEF TypeOK
  <1>i. /\ Null \notin Procs /\ Null \notin Cpus /\ \A i \in Indexes : i < NPROC => i \in Procs
    BY Zenon, IndexFacts, NullAssumption
  <1> USE <1>t, <1>i DEF Plain, SchedPcs, WaitLockPcs, ForkPcs
  <1>1. ASSUME SchedSkip(c) PROVE Plain
    BY SMTT(60), <1>1 DEF SchedSkip, procVars, lockVars, threadVars, cpuVars, localVars
  <1>2. ASSUME TrapReturn(c, p) PROVE Plain
    BY SMTT(60), <1>2 DEF TrapReturn, At, Goto, procVars, lockVars, cpuVars, localVars
  <1>3. ASSUME Syscall(c, p) PROVE Plain
    BY SMTT(60), <1>3, EntryFacts DEF Syscall, At, Goto, procVars, lockVars, cpuVars
  <1>4. ASSUME Fault(c, p) PROVE Plain
    BY SMTT(60), <1>4 DEF Fault, At, Goto, lockVars, cpuVars, localVars
  <1>5. ASSUME TrapKilled(c, p) PROVE Plain
    BY SMTT(60), <1>5 DEF TrapKilled, At, Goto, procVars, lockVars, cpuVars, localVars
  <1>6. ASSUME ForkSkip(c, p) PROVE Plain
    BY SMTT(60), <1>6 DEF ForkSkip, At, procVars, lockVars, cpuVars
  <1>7. ASSUME ForkFail(c, p) PROVE Plain
    BY SMTT(60), <1>7 DEF ForkFail, At, Goto, lockVars, cpuVars, Freeproc
  <1>8. ASSUME ForkFull(c, p) PROVE Plain
    BY SMTT(60), <1>8 DEF ForkFull, At, Goto, procVars, lockVars, cpuVars
  <1>9. ASSUME ForkParent(c, p) PROVE Plain
    BY SMTT(60), <1>9 DEF ForkParent, At, Goto, lockVars, cpuVars, localVars
  <1>10. ASSUME ExitPanic(c, p) PROVE Plain
    BY SMTT(60), <1>10 DEF ExitPanic, At, Goto, procVars, lockVars, cpuVars, localVars
  <1>11. ASSUME ReparentChild(c, p) PROVE Plain
    BY SMTT(60), <1>11 DEF ReparentChild, At, Goto, lockVars, cpuVars, localVars
  <1>12. ASSUME ReparentSkip(c, p) PROVE Plain
    BY SMTT(60), <1>12 DEF ReparentSkip, At, procVars, lockVars, cpuVars
  <1>13. ASSUME ReparentDone(c, p) PROVE Plain
    BY SMTT(60), <1>13 DEF ReparentDone, At, Goto, procVars, lockVars, cpuVars
  <1>14. ASSUME ReparentWakeup(c, p) PROVE Plain
    BY SMTT(60), <1>14 DEF ReparentWakeup, At, WakeupEntry, lockVars, cpuVars
  <1>15. ASSUME ReparentWakeupDone(c, p) PROVE Plain
    BY SMTT(60), <1>15 DEF ReparentWakeupDone, At, WakeupDone, Goto, procVars, lockVars, cpuVars
  <1>16. ASSUME ExitWakeup(c, p) PROVE Plain
    BY SMTT(60), <1>16 DEF ExitWakeup, At, WakeupEntry, lockVars, cpuVars
  <1>17. ASSUME ExitWakeupDone(c, p) PROVE Plain
    BY SMTT(60), <1>17 DEF ExitWakeupDone, At, WakeupDone, Goto, procVars, lockVars, cpuVars
  <1>18. ASSUME WaitSkip(c, p) PROVE Plain
    BY SMTT(60), <1>18 DEF WaitSkip, At, procVars, lockVars, cpuVars
  <1>19. ASSUME WaitCheckKilled(c, p) PROVE Plain
    BY SMTT(60), <1>19 DEF WaitCheckKilled, At, Goto, procVars, lockVars, cpuVars, localVars
  <1>20. ASSUME KillSkip(c, p) PROVE Plain
    BY SMTT(60), <1>20 DEF KillSkip, At, procVars, lockVars, cpuVars
  <1>21. ASSUME KillFound(c, p) PROVE Plain
    BY SMTT(60), <1>21 DEF KillFound, At, lockVars, cpuVars, KillLeave, Goto
  <1>22. ASSUME KillNone(c, p) PROVE Plain
    BY SMTT(60), <1>22 DEF KillNone, At, procVars, lockVars, cpuVars, KillLeave, Goto
  <1> QED
    BY Zenon, <1>1, <1>2, <1>3, <1>4, <1>5, <1>6, <1>7, <1>8, <1>9, <1>10, <1>11, <1>12, <1>13, <1>14, <1>15, <1>16, <1>17, <1>18, <1>19, <1>20, <1>21, <1>22

(* scheduler() runs a RUNNABLE process that is on no CPU.                  *)
LEMMA LockSchedRun ==
    ASSUME TypeOK, LockInv, NEW c \in Cpus, SchedRun(c)
    PROVE  LockInv'
  <1>t. /\ state \in [Procs -> ProcStates] /\ pc \in [Procs -> Pcs] /\ chan \in [Procs -> Procs \cup {Null}]
        /\ plock \in [Procs -> Cpus \cup {Null}] /\ waitLock \in Cpus \cup {Null}
        /\ cproc \in [Cpus -> Procs \cup {Null}] /\ inyield \in [Procs -> BOOLEAN]
        /\ np \in [Procs -> Procs \cup {Null}] /\ idx \in [Procs -> Indexes] /\ sidx \in [Cpus -> Procs]
    BY Zenon DEF TypeOK
  <1>i. /\ Null \notin Procs /\ Null \notin Cpus /\ \A i \in Indexes : i < NPROC => i \in Procs
    BY Zenon, IndexFacts, NullAssumption
  <1>a. PLockInv /\ WaitLockInv /\ StackInv /\ StateInv /\ ChildInv
    BY Zenon DEF LockInv
  <1> DEFINE q == sidx[c]
  <1>0. q \in Procs /\ InSched(q) /\ \A d \in Cpus : cproc[d] # q
    <2>1. q \in Procs /\ state[q] = "RUNNABLE" /\ plock[q] = Null
      BY Zenon, <1>t DEF SchedRun
    <2> QED
      BY Zenon, <2>1, RunnableOffCpu
  <1>1. PLockInv'
    BY SMTT(60), <1>t, <1>i, <1>a, <1>0 DEF SchedRun, threadVars, procVars, lockVars, cpuVars, localVars, PLockInv, InSched, SchedPcs
  <1>2. WaitLockInv'
    BY SMTT(60), <1>t, <1>i, <1>a, <1>0 DEF SchedRun, threadVars, procVars, lockVars, cpuVars, localVars, WaitLockInv, WaitLockPcs
  <1>3. StackInv'
    BY SMTT(60), <1>t, <1>i, <1>a, <1>0 DEF SchedRun, threadVars, procVars, lockVars, cpuVars, localVars, StackInv
  <1>4. StateInv'
    BY SMTT(60), <1>t, <1>i, <1>a, <1>0 DEF SchedRun, threadVars, procVars, lockVars, cpuVars, localVars, StateInv, InSched, OnCpu, SchedPcs, Started
  <1>5. ChildInv'
    BY SMTT(60), <1>t, <1>i, <1>a, <1>0 DEF SchedRun, threadVars, procVars, lockVars, cpuVars, localVars, ChildInv, ForkPcs
  <1> QED
    BY Zenon, <1>1, <1>2, <1>3, <1>4, <1>5 DEF LockInv

(* sched() leaves the stack of p with the lock of p.                       *)
LEMMA LockSwtch ==
    ASSUME TypeOK, LockInv, NEW c \in Cpus, NEW p \in Procs, Swtch(c, p)
    PROVE  LockInv'
  <1>t. /\ state \in [Procs -> ProcStates] /\ pc \in [Procs -> Pcs] /\ chan \in [Procs -> Procs \cup {Null}]
        /\ plock \in [Procs -> Cpus \cup {Null}] /\ waitLock \in Cpus \cup {Null}
        /\ cproc \in [Cpus -> Procs \cup {Null}] /\ inyield \in [Procs -> BOOLEAN]
        /\ np \in [Procs -> Procs \cup {Null}] /\ idx \in [Procs -> Indexes] /\ sidx \in [Cpus -> Procs]
    BY Zenon DEF TypeOK
  <1>i. /\ Null \notin Procs /\ Null \notin Cpus /\ \A i \in Indexes : i < NPROC => i \in Procs
    BY Zenon, IndexFacts, NullAssumption
  <1>a. PLockInv /\ WaitLockInv /\ StackInv /\ StateInv /\ ChildInv
    BY Zenon DEF LockInv
  <1>0. cproc[c] = p /\ pc[p] \notin WaitLockPcs
    BY SMTT(60), <1>a DEF Swtch, WaitLockInv, InSched, WaitLockPcs, SchedPcs
  <1>1. PLockInv'
    BY SMTT(60), <1>t, <1>i, <1>a DEF Swtch, procVars, threadVars, lockVars, cpuVars, localVars, PLockInv, InSched, SchedPcs
  <1>2. WaitLockInv'
    BY SMTT(60), <1>t, <1>i, <1>a, <1>0 DEF Swtch, procVars, threadVars, lockVars, cpuVars, localVars, WaitLockInv, WaitLockPcs
  <1>3. StackInv'
    BY SMTT(60), <1>t, <1>i, <1>a DEF Swtch, procVars, threadVars, lockVars, cpuVars, localVars, StackInv
  <1>4. StateInv'
    BY SMTT(60), <1>t, <1>i, <1>a DEF Swtch, procVars, threadVars, lockVars, cpuVars, localVars, StateInv, InSched, OnCpu, SchedPcs, Started
  <1>5. ChildInv'
    BY SMTT(60), <1>t, <1>i, <1>a DEF Swtch, procVars, threadVars, lockVars, cpuVars, localVars, ChildInv, ForkPcs
  <1> QED
    BY Zenon, <1>1, <1>2, <1>3, <1>4, <1>5 DEF LockInv

(* yield() releases the lock scheduler() took for it.                      *)
LEMMA LockYieldReturn ==
    ASSUME TypeOK, LockInv, NEW c \in Cpus, NEW p \in Procs, YieldReturn(c, p)
    PROVE  LockInv'
  <1>t. /\ state \in [Procs -> ProcStates] /\ pc \in [Procs -> Pcs] /\ chan \in [Procs -> Procs \cup {Null}]
        /\ plock \in [Procs -> Cpus \cup {Null}] /\ waitLock \in Cpus \cup {Null}
        /\ cproc \in [Cpus -> Procs \cup {Null}] /\ inyield \in [Procs -> BOOLEAN]
        /\ np \in [Procs -> Procs \cup {Null}] /\ idx \in [Procs -> Indexes] /\ sidx \in [Cpus -> Procs]
    BY Zenon DEF TypeOK
  <1>i. /\ Null \notin Procs /\ Null \notin Cpus /\ \A i \in Indexes : i < NPROC => i \in Procs
    BY Zenon, IndexFacts, NullAssumption
  <1>a. PLockInv /\ WaitLockInv /\ StackInv /\ StateInv /\ ChildInv
    BY Zenon DEF LockInv
  <1>0. pc[p] \notin SchedPcs
    BY Zenon, <1>a DEF YieldReturn, StateInv
  <1>1. PLockInv'
    BY SMTT(60), <1>t, <1>i, <1>a, <1>0 DEF YieldReturn, procVars, cpuVars, localVars, PLockInv, InSched, SchedPcs
  <1>2. WaitLockInv'
    BY SMTT(60), <1>t, <1>i, <1>a DEF YieldReturn, procVars, cpuVars, localVars, WaitLockInv, WaitLockPcs
  <1>3. StackInv'
    BY SMTT(60), <1>t, <1>i, <1>a DEF YieldReturn, procVars, cpuVars, localVars, StackInv
  <1>4. StateInv'
    BY SMTT(60), <1>t, <1>i, <1>a DEF YieldReturn, procVars, cpuVars, localVars, StateInv, InSched, OnCpu, SchedPcs, Started
  <1>5. ChildInv'
    BY SMTT(60), <1>t, <1>i, <1>a DEF YieldReturn, procVars, cpuVars, localVars, ChildInv, ForkPcs
  <1> QED
    BY Zenon, <1>1, <1>2, <1>3, <1>4, <1>5 DEF LockInv

(* forkret() releases the lock scheduler() took for it.                    *)
LEMMA LockForkret ==
    ASSUME TypeOK, LockInv, NEW c \in Cpus, NEW p \in Procs, Forkret(c, p)
    PROVE  LockInv'
  <1>t. /\ state \in [Procs -> ProcStates] /\ pc \in [Procs -> Pcs] /\ chan \in [Procs -> Procs \cup {Null}]
        /\ plock \in [Procs -> Cpus \cup {Null}] /\ waitLock \in Cpus \cup {Null}
        /\ cproc \in [Cpus -> Procs \cup {Null}] /\ inyield \in [Procs -> BOOLEAN]
        /\ np \in [Procs -> Procs \cup {Null}] /\ idx \in [Procs -> Indexes] /\ sidx \in [Cpus -> Procs]
    BY Zenon DEF TypeOK
  <1>i. /\ Null \notin Procs /\ Null \notin Cpus /\ \A i \in Indexes : i < NPROC => i \in Procs
    BY Zenon, IndexFacts, NullAssumption
  <1>a. PLockInv /\ WaitLockInv /\ StackInv /\ StateInv /\ ChildInv
    BY Zenon DEF LockInv
  <1>1. PLockInv'
    BY SMTT(60), <1>t, <1>i, <1>a DEF Forkret, At, Goto, procVars, cpuVars, localVars, PLockInv, InSched, SchedPcs
  <1>2. WaitLockInv'
    BY SMTT(60), <1>t, <1>i, <1>a DEF Forkret, At, Goto, procVars, cpuVars, localVars, WaitLockInv, WaitLockPcs
  <1>3. StackInv'
    BY SMTT(60), <1>t, <1>i, <1>a DEF Forkret, At, Goto, procVars, cpuVars, localVars, StackInv
  <1>4. StateInv'
    BY SMTT(60), <1>t, <1>i, <1>a DEF Forkret, At, Goto, procVars, cpuVars, localVars, StateInv, InSched, OnCpu, SchedPcs, Started
  <1>5. ChildInv'
    BY SMTT(60), <1>t, <1>i, <1>a DEF Forkret, At, Goto, procVars, cpuVars, localVars, ChildInv, ForkPcs
  <1> QED
    BY Zenon, <1>1, <1>2, <1>3, <1>4, <1>5 DEF LockInv

(* sleep() releases the lock scheduler() took for it.                      *)
LEMMA LockSleepReturn ==
    ASSUME TypeOK, LockInv, NEW c \in Cpus, NEW p \in Procs, SleepReturn(c, p)
    PROVE  LockInv'
  <1>t. /\ state \in [Procs -> ProcStates] /\ pc \in [Procs -> Pcs] /\ chan \in [Procs -> Procs \cup {Null}]
        /\ plock \in [Procs -> Cpus \cup {Null}] /\ waitLock \in Cpus \cup {Null}
        /\ cproc \in [Cpus -> Procs \cup {Null}] /\ inyield \in [Procs -> BOOLEAN]
        /\ np \in [Procs -> Procs \cup {Null}] /\ idx \in [Procs -> Indexes] /\ sidx \in [Cpus -> Procs]
    BY Zenon DEF TypeOK
  <1>i. /\ Null \notin Procs /\ Null \notin Cpus /\ \A i \in Indexes : i < NPROC => i \in Procs
    BY Zenon, IndexFacts, NullAssumption
  <1>a. PLockInv /\ WaitLockInv /\ StackInv /\ StateInv /\ ChildInv
    BY Zenon DEF LockInv
  <1>1. PLockInv'
    BY SMTT(60), <1>t, <1>i, <1>a DEF SleepReturn, At, Goto, cpuVars, localVars, PLockInv, InSched, SchedPcs
  <1>2. WaitLockInv'
    BY SMTT(60), <1>t, <1>i, <1>a DEF SleepReturn, At, Goto, cpuVars, localVars, WaitLockInv, WaitLockPcs
  <1>3. StackInv'
    BY SMTT(60), <1>t, <1>i, <1>a DEF SleepReturn, At, Goto, cpuVars, localVars, StackInv
  <1>4. StateInv'
    BY SMTT(60), <1>t, <1>i, <1>a DEF SleepReturn, At, Goto, cpuVars, localVars, StateInv, InSched, OnCpu, SchedPcs, Started
  <1>5. ChildInv'
    BY SMTT(60), <1>t, <1>i, <1>a DEF SleepReturn, At, Goto, cpuVars, localVars, ChildInv, ForkPcs
  <1> QED
    BY Zenon, <1>1, <1>2, <1>3, <1>4, <1>5 DEF LockInv

(* allocproc() takes a slot that no CPU is on and no fork() has taken.     *)
LEMMA LockForkAlloc ==
    ASSUME TypeOK, LockInv, NEW c \in Cpus, NEW p \in Procs, ForkAlloc(c, p)
    PROVE  LockInv'
  <1>t. /\ state \in [Procs -> ProcStates] /\ pc \in [Procs -> Pcs] /\ chan \in [Procs -> Procs \cup {Null}]
        /\ plock \in [Procs -> Cpus \cup {Null}] /\ waitLock \in Cpus \cup {Null}
        /\ cproc \in [Cpus -> Procs \cup {Null}] /\ inyield \in [Procs -> BOOLEAN]
        /\ np \in [Procs -> Procs \cup {Null}] /\ idx \in [Procs -> Indexes] /\ sidx \in [Cpus -> Procs]
    BY Zenon DEF TypeOK
  <1>i. /\ Null \notin Procs /\ Null \notin Cpus /\ \A i \in Indexes : i < NPROC => i \in Procs
    BY Zenon, IndexFacts, NullAssumption
  <1>a. PLockInv /\ WaitLockInv /\ StackInv /\ StateInv /\ ChildInv
    BY Zenon DEF LockInv
  <1> DEFINE i == idx[p]
  <1>0. /\ i \in Procs /\ i # p /\ pc[i] = "gone" /\ ~inyield[i] /\ pc[p] = "fork_scan"
        /\ state[i] = "UNUSED" /\ \A d \in Cpus : cproc[d] # i
    <2>1. i \in Procs /\ state[i] = "UNUSED" /\ pc[p] = "fork_scan"
      BY Zenon, <1>t, <1>i DEF ForkAlloc, At
    <2> QED
      BY SMTT(60), <1>a, <2>1 DEF StateInv, OnCpu, Started, SchedPcs
  <1>f. /\ UNCHANGED <<plock, waitLock, cproc, inyield, chan>>
        /\ \A x \in Procs :
             /\ pc'[x] = IF x = p THEN "fork_parent" ELSE IF x = i THEN "forkret" ELSE pc[x]
             /\ np'[x] = IF x = p THEN i ELSE np[x]
             /\ state'[x] = IF x = i THEN "USED" ELSE state[x]
    BY SMTT(60), <1>t, <1>0 DEF ForkAlloc, At, lockVars, cpuVars, Allocpid
  <1>1. PLockInv'
    BY SMTT(60), <1>a, <1>0, <1>f DEF PLockInv, InSched, SchedPcs
  <1>2. WaitLockInv'
    <2>1. \A x \in Procs : pc'[x] \in WaitLockPcs <=> pc[x] \in WaitLockPcs
      BY SMTT(60), <1>0, <1>f DEF WaitLockPcs
    <2> QED
      BY SMTT(60), <1>t, <1>a, <1>f, <2>1 DEF WaitLockInv
  <1>3. StackInv'
    BY SMTT(60), <1>a, <1>f DEF StackInv
  <1>4. StateInv'
    BY SMTT(60), <1>a, <1>0, <1>f DEF StateInv, InSched, OnCpu, SchedPcs, Started
  <1>5. ChildInv'
    BY SMTT(60), <1>a, <1>0, <1>f DEF ChildInv, ForkPcs
  <1> QED
    BY Zenon, <1>1, <1>2, <1>3, <1>4, <1>5 DEF LockInv

(* fork() makes its USED child RUNNABLE.                                   *)
LEMMA LockForkRun ==
    ASSUME TypeOK, LockInv, NEW c \in Cpus, NEW p \in Procs, ForkRun(c, p)
    PROVE  LockInv'
  <1>t. /\ state \in [Procs -> ProcStates] /\ pc \in [Procs -> Pcs] /\ chan \in [Procs -> Procs \cup {Null}]
        /\ plock \in [Procs -> Cpus \cup {Null}] /\ waitLock \in Cpus \cup {Null}
        /\ cproc \in [Cpus -> Procs \cup {Null}] /\ inyield \in [Procs -> BOOLEAN]
        /\ np \in [Procs -> Procs \cup {Null}] /\ idx \in [Procs -> Indexes] /\ sidx \in [Cpus -> Procs]
    BY Zenon DEF TypeOK
  <1>i. /\ Null \notin Procs /\ Null \notin Cpus /\ \A i \in Indexes : i < NPROC => i \in Procs
    BY Zenon, IndexFacts, NullAssumption
  <1>a. PLockInv /\ WaitLockInv /\ StackInv /\ StateInv /\ ChildInv
    BY Zenon DEF LockInv
  <1>0. np[p] \in Procs /\ pc[np[p]] = "forkret" /\ state[np[p]] = "USED"
    BY SMTT(60), <1>a DEF ForkRun, At, ChildInv, StateInv, ForkPcs
  <1>1. PLockInv'
    BY SMTT(60), <1>t, <1>i, <1>a, <1>0 DEF ForkRun, At, Goto, lockVars, cpuVars, PLockInv, InSched, SchedPcs
  <1>2. WaitLockInv'
    BY SMTT(60), <1>t, <1>i, <1>a DEF ForkRun, At, Goto, lockVars, cpuVars, WaitLockInv, WaitLockPcs
  <1>3. StackInv'
    BY SMTT(60), <1>t, <1>i, <1>a DEF ForkRun, At, Goto, lockVars, cpuVars, StackInv
  <1>4. StateInv'
    BY SMTT(60), <1>t, <1>i, <1>a, <1>0 DEF ForkRun, At, Goto, lockVars, cpuVars, StateInv, InSched, OnCpu, SchedPcs, Started
  <1>5. ChildInv'
    BY SMTT(60), <1>t, <1>i, <1>a, <1>0 DEF ForkRun, At, Goto, lockVars, cpuVars, ChildInv, ForkPcs
  <1> QED
    BY Zenon, <1>1, <1>2, <1>3, <1>4, <1>5 DEF LockInv

(* exit() takes wait_lock.                                                 *)
LEMMA LockExitLock ==
    ASSUME TypeOK, LockInv, NEW c \in Cpus, NEW p \in Procs, ExitLock(c, p)
    PROVE  LockInv'
  <1>t. /\ state \in [Procs -> ProcStates] /\ pc \in [Procs -> Pcs] /\ chan \in [Procs -> Procs \cup {Null}]
        /\ plock \in [Procs -> Cpus \cup {Null}] /\ waitLock \in Cpus \cup {Null}
        /\ cproc \in [Cpus -> Procs \cup {Null}] /\ inyield \in [Procs -> BOOLEAN]
        /\ np \in [Procs -> Procs \cup {Null}] /\ idx \in [Procs -> Indexes] /\ sidx \in [Cpus -> Procs]
    BY Zenon DEF TypeOK
  <1>i. /\ Null \notin Procs /\ Null \notin Cpus /\ \A i \in Indexes : i < NPROC => i \in Procs
    BY Zenon, IndexFacts, NullAssumption
  <1>a. PLockInv /\ WaitLockInv /\ StackInv /\ StateInv /\ ChildInv
    BY Zenon DEF LockInv
  <1>1. PLockInv'
    BY SMTT(60), <1>t, <1>i, <1>a DEF ExitLock, At, Goto, procVars, cpuVars, localVars, PLockInv, InSched, SchedPcs
  <1>2. WaitLockInv'
    BY SMTT(60), <1>t, <1>i, <1>a DEF ExitLock, At, Goto, procVars, cpuVars, localVars, WaitLockInv, WaitLockPcs
  <1>3. StackInv'
    BY SMTT(60), <1>t, <1>i, <1>a DEF ExitLock, At, Goto, procVars, cpuVars, localVars, StackInv
  <1>4. StateInv'
    BY SMTT(60), <1>t, <1>i, <1>a DEF ExitLock, At, Goto, procVars, cpuVars, localVars, StateInv, InSched, OnCpu, SchedPcs, Started
  <1>5. ChildInv'
    BY SMTT(60), <1>t, <1>i, <1>a DEF ExitLock, At, Goto, procVars, cpuVars, localVars, ChildInv, ForkPcs
  <1> QED
    BY Zenon, <1>1, <1>2, <1>3, <1>4, <1>5 DEF LockInv

(* exit() enters sched() with the lock of p, without wait_lock.            *)
LEMMA LockExitZombie ==
    ASSUME TypeOK, LockInv, NEW c \in Cpus, NEW p \in Procs, ExitZombie(c, p)
    PROVE  LockInv'
  <1>t. /\ state \in [Procs -> ProcStates] /\ pc \in [Procs -> Pcs] /\ chan \in [Procs -> Procs \cup {Null}]
        /\ plock \in [Procs -> Cpus \cup {Null}] /\ waitLock \in Cpus \cup {Null}
        /\ cproc \in [Cpus -> Procs \cup {Null}] /\ inyield \in [Procs -> BOOLEAN]
        /\ np \in [Procs -> Procs \cup {Null}] /\ idx \in [Procs -> Indexes] /\ sidx \in [Cpus -> Procs]
    BY Zenon DEF TypeOK
  <1>i. /\ Null \notin Procs /\ Null \notin Cpus /\ \A i \in Indexes : i < NPROC => i \in Procs
    BY Zenon, IndexFacts, NullAssumption
  <1>a. PLockInv /\ WaitLockInv /\ StackInv /\ StateInv /\ ChildInv
    BY Zenon DEF LockInv
  <1>0. state[p] = "RUNNING" /\ \A d \in Cpus : cproc[d] = p <=> d = c
    BY SMTT(60), <1>i, <1>a DEF ExitZombie, At, StackInv, StateInv, InSched, SchedPcs
  <1>1. PLockInv'
    BY SMTT(60), <1>t, <1>i, <1>a, <1>0 DEF ExitZombie, At, Goto, cpuVars, localVars, PLockInv, InSched, SchedPcs
  <1>2. WaitLockInv'
    BY SMTT(60), <1>t, <1>i, <1>a DEF ExitZombie, At, Goto, cpuVars, localVars, WaitLockInv, WaitLockPcs
  <1>3. StackInv'
    BY SMTT(60), <1>t, <1>i, <1>a DEF ExitZombie, At, Goto, cpuVars, localVars, StackInv
  <1>4. StateInv'
    BY SMTT(60), <1>t, <1>i, <1>a, <1>0 DEF ExitZombie, At, Goto, cpuVars, localVars, StateInv, InSched, OnCpu, SchedPcs, Started
  <1>5. ChildInv'
    BY SMTT(60), <1>t, <1>i, <1>a, <1>0 DEF ExitZombie, At, Goto, cpuVars, localVars, ChildInv, ForkPcs
  <1> QED
    BY Zenon, <1>1, <1>2, <1>3, <1>4, <1>5 DEF LockInv

(* wait() takes wait_lock.                                                 *)
LEMMA LockWaitLock ==
    ASSUME TypeOK, LockInv, NEW c \in Cpus, NEW p \in Procs, WaitLock(c, p)
    PROVE  LockInv'
  <1>t. /\ state \in [Procs -> ProcStates] /\ pc \in [Procs -> Pcs] /\ chan \in [Procs -> Procs \cup {Null}]
        /\ plock \in [Procs -> Cpus \cup {Null}] /\ waitLock \in Cpus \cup {Null}
        /\ cproc \in [Cpus -> Procs \cup {Null}] /\ inyield \in [Procs -> BOOLEAN]
        /\ np \in [Procs -> Procs \cup {Null}] /\ idx \in [Procs -> Indexes] /\ sidx \in [Cpus -> Procs]
    BY Zenon DEF TypeOK
  <1>i. /\ Null \notin Procs /\ Null \notin Cpus /\ \A i \in Indexes : i < NPROC => i \in Procs
    BY Zenon, IndexFacts, NullAssumption
  <1>a. PLockInv /\ WaitLockInv /\ StackInv /\ StateInv /\ ChildInv
    BY Zenon DEF LockInv
  <1>1. PLockInv'
    BY SMTT(60), <1>t, <1>i, <1>a DEF WaitLock, At, Goto, procVars, cpuVars, localVars, PLockInv, InSched, SchedPcs
  <1>2. WaitLockInv'
    BY SMTT(60), <1>t, <1>i, <1>a DEF WaitLock, At, Goto, procVars, cpuVars, localVars, WaitLockInv, WaitLockPcs
  <1>3. StackInv'
    BY SMTT(60), <1>t, <1>i, <1>a DEF WaitLock, At, Goto, procVars, cpuVars, localVars, StackInv
  <1>4. StateInv'
    BY SMTT(60), <1>t, <1>i, <1>a DEF WaitLock, At, Goto, procVars, cpuVars, localVars, StateInv, InSched, OnCpu, SchedPcs, Started
  <1>5. ChildInv'
    BY SMTT(60), <1>t, <1>i, <1>a DEF WaitLock, At, Goto, procVars, cpuVars, localVars, ChildInv, ForkPcs
  <1> QED
    BY Zenon, <1>1, <1>2, <1>3, <1>4, <1>5 DEF LockInv

(* wait() frees a ZOMBIE that is off its stack and releases wait_lock.     *)
LEMMA LockWaitReap ==
    ASSUME TypeOK, LockInv, NEW c \in Cpus, NEW p \in Procs, WaitReap(c, p)
    PROVE  LockInv'
  <1>t. /\ state \in [Procs -> ProcStates] /\ pc \in [Procs -> Pcs] /\ chan \in [Procs -> Procs \cup {Null}]
        /\ plock \in [Procs -> Cpus \cup {Null}] /\ waitLock \in Cpus \cup {Null}
        /\ cproc \in [Cpus -> Procs \cup {Null}] /\ inyield \in [Procs -> BOOLEAN]
        /\ np \in [Procs -> Procs \cup {Null}] /\ idx \in [Procs -> Indexes] /\ sidx \in [Cpus -> Procs]
    BY Zenon DEF TypeOK
  <1>i. /\ Null \notin Procs /\ Null \notin Cpus /\ \A i \in Indexes : i < NPROC => i \in Procs
    BY Zenon, IndexFacts, NullAssumption
  <1>a. PLockInv /\ WaitLockInv /\ StackInv /\ StateInv /\ ChildInv
    BY Zenon DEF LockInv
  <1> DEFINE i == idx[p]
  <1>0. i \in Procs /\ state[i] = "ZOMBIE" /\ pc[i] = "gone" /\ \A d \in Cpus : cproc[d] # i
    <2>1. i \in Procs /\ state[i] = "ZOMBIE" /\ plock[i] = Null
      BY Zenon, <1>t, <1>i DEF WaitReap, FoundZombie
    <2>2. pc[i] = "gone"
      BY SMTT(60), <1>a, <2>1 DEF StateInv
    <2> QED
      BY SMTT(60), <1>a, <2>1, <2>2, FreeOffCpu DEF InSched, SchedPcs
  <1>1. PLockInv'
    BY SMTT(60), <1>t, <1>i, <1>a DEF WaitReap, cpuVars, FoundZombie, At, WaitLeave, Goto, Freeproc, PLockInv, InSched, SchedPcs
  <1>2. WaitLockInv'
    BY SMTT(60), <1>t, <1>i, <1>a DEF WaitReap, cpuVars, FoundZombie, At, WaitLeave, Goto, Freeproc, WaitLockInv, WaitLockPcs
  <1>3. StackInv'
    BY SMTT(60), <1>t, <1>i, <1>a DEF WaitReap, cpuVars, FoundZombie, At, WaitLeave, Goto, Freeproc, StackInv
  <1>4. StateInv'
    BY SMTT(60), <1>t, <1>i, <1>a, <1>0 DEF WaitReap, cpuVars, FoundZombie, At, WaitLeave, Goto, Freeproc, StateInv, InSched, OnCpu, SchedPcs, Started
  <1>5. ChildInv'
    BY SMTT(60), <1>t, <1>i, <1>a, <1>0 DEF WaitReap, cpuVars, FoundZombie, At, WaitLeave, Goto, Freeproc, ChildInv, ForkPcs
  <1> QED
    BY Zenon, <1>1, <1>2, <1>3, <1>4, <1>5 DEF LockInv

(* wait() releases wait_lock.                                              *)
LEMMA LockWaitCopyoutFail ==
    ASSUME TypeOK, LockInv, NEW c \in Cpus, NEW p \in Procs, WaitCopyoutFail(c, p)
    PROVE  LockInv'
  <1>t. /\ state \in [Procs -> ProcStates] /\ pc \in [Procs -> Pcs] /\ chan \in [Procs -> Procs \cup {Null}]
        /\ plock \in [Procs -> Cpus \cup {Null}] /\ waitLock \in Cpus \cup {Null}
        /\ cproc \in [Cpus -> Procs \cup {Null}] /\ inyield \in [Procs -> BOOLEAN]
        /\ np \in [Procs -> Procs \cup {Null}] /\ idx \in [Procs -> Indexes] /\ sidx \in [Cpus -> Procs]
    BY Zenon DEF TypeOK
  <1>i. /\ Null \notin Procs /\ Null \notin Cpus /\ \A i \in Indexes : i < NPROC => i \in Procs
    BY Zenon, IndexFacts, NullAssumption
  <1>a. PLockInv /\ WaitLockInv /\ StackInv /\ StateInv /\ ChildInv
    BY Zenon DEF LockInv
  <1>1. PLockInv'
    BY SMTT(60), <1>t, <1>i, <1>a DEF WaitCopyoutFail, procVars, cpuVars, FoundZombie, At, WaitLeave, Goto, PLockInv, InSched, SchedPcs
  <1>2. WaitLockInv'
    BY SMTT(60), <1>t, <1>i, <1>a DEF WaitCopyoutFail, procVars, cpuVars, FoundZombie, At, WaitLeave, Goto, WaitLockInv, WaitLockPcs
  <1>3. StackInv'
    BY SMTT(60), <1>t, <1>i, <1>a DEF WaitCopyoutFail, procVars, cpuVars, FoundZombie, At, WaitLeave, Goto, StackInv
  <1>4. StateInv'
    BY SMTT(60), <1>t, <1>i, <1>a DEF WaitCopyoutFail, procVars, cpuVars, FoundZombie, At, WaitLeave, Goto, StateInv, InSched, OnCpu, SchedPcs, Started
  <1>5. ChildInv'
    BY SMTT(60), <1>t, <1>i, <1>a DEF WaitCopyoutFail, procVars, cpuVars, FoundZombie, At, WaitLeave, Goto, ChildInv, ForkPcs
  <1> QED
    BY Zenon, <1>1, <1>2, <1>3, <1>4, <1>5 DEF LockInv

(* wait() releases wait_lock.                                              *)
LEMMA LockWaitNone ==
    ASSUME TypeOK, LockInv, NEW c \in Cpus, NEW p \in Procs, WaitNone(c, p)
    PROVE  LockInv'
  <1>t. /\ state \in [Procs -> ProcStates] /\ pc \in [Procs -> Pcs] /\ chan \in [Procs -> Procs \cup {Null}]
        /\ plock \in [Procs -> Cpus \cup {Null}] /\ waitLock \in Cpus \cup {Null}
        /\ cproc \in [Cpus -> Procs \cup {Null}] /\ inyield \in [Procs -> BOOLEAN]
        /\ np \in [Procs -> Procs \cup {Null}] /\ idx \in [Procs -> Indexes] /\ sidx \in [Cpus -> Procs]
    BY Zenon DEF TypeOK
  <1>i. /\ Null \notin Procs /\ Null \notin Cpus /\ \A i \in Indexes : i < NPROC => i \in Procs
    BY Zenon, IndexFacts, NullAssumption
  <1>a. PLockInv /\ WaitLockInv /\ StackInv /\ StateInv /\ ChildInv
    BY Zenon DEF LockInv
  <1>1. PLockInv'
    BY SMTT(60), <1>t, <1>i, <1>a DEF WaitNone, At, procVars, cpuVars, WaitLeave, Goto, PLockInv, InSched, SchedPcs
  <1>2. WaitLockInv'
    BY SMTT(60), <1>t, <1>i, <1>a DEF WaitNone, At, procVars, cpuVars, WaitLeave, Goto, WaitLockInv, WaitLockPcs
  <1>3. StackInv'
    BY SMTT(60), <1>t, <1>i, <1>a DEF WaitNone, At, procVars, cpuVars, WaitLeave, Goto, StackInv
  <1>4. StateInv'
    BY SMTT(60), <1>t, <1>i, <1>a DEF WaitNone, At, procVars, cpuVars, WaitLeave, Goto, StateInv, InSched, OnCpu, SchedPcs, Started
  <1>5. ChildInv'
    BY SMTT(60), <1>t, <1>i, <1>a DEF WaitNone, At, procVars, cpuVars, WaitLeave, Goto, ChildInv, ForkPcs
  <1> QED
    BY Zenon, <1>1, <1>2, <1>3, <1>4, <1>5 DEF LockInv

(* sleep() takes the lock of p before it releases wait_lock.               *)
LEMMA LockWaitSleep ==
    ASSUME TypeOK, LockInv, NEW c \in Cpus, NEW p \in Procs, WaitSleep(c, p)
    PROVE  LockInv'
  <1>t. /\ state \in [Procs -> ProcStates] /\ pc \in [Procs -> Pcs] /\ chan \in [Procs -> Procs \cup {Null}]
        /\ plock \in [Procs -> Cpus \cup {Null}] /\ waitLock \in Cpus \cup {Null}
        /\ cproc \in [Cpus -> Procs \cup {Null}] /\ inyield \in [Procs -> BOOLEAN]
        /\ np \in [Procs -> Procs \cup {Null}] /\ idx \in [Procs -> Indexes] /\ sidx \in [Cpus -> Procs]
    BY Zenon DEF TypeOK
  <1>i. /\ Null \notin Procs /\ Null \notin Cpus /\ \A i \in Indexes : i < NPROC => i \in Procs
    BY Zenon, IndexFacts, NullAssumption
  <1>a. PLockInv /\ WaitLockInv /\ StackInv /\ StateInv /\ ChildInv
    BY Zenon DEF LockInv
  <1>0. state[p] = "RUNNING" /\ \A d \in Cpus : cproc[d] = p <=> d = c
    BY SMTT(60), <1>i, <1>a DEF WaitSleep, At, StackInv, StateInv, InSched, SchedPcs
  <1>1. PLockInv'
    BY SMTT(60), <1>t, <1>i, <1>a, <1>0 DEF WaitSleep, At, cpuVars, WaitLeave, Goto, PLockInv, InSched, SchedPcs
  <1>2. WaitLockInv'
    BY SMTT(60), <1>t, <1>i, <1>a DEF WaitSleep, At, cpuVars, WaitLeave, Goto, WaitLockInv, WaitLockPcs
  <1>3. StackInv'
    BY SMTT(60), <1>t, <1>i, <1>a DEF WaitSleep, At, cpuVars, WaitLeave, Goto, StackInv
  <1>4. StateInv'
    BY SMTT(60), <1>t, <1>i, <1>a, <1>0 DEF WaitSleep, At, cpuVars, WaitLeave, Goto, StateInv, InSched, OnCpu, SchedPcs, Started
  <1>5. ChildInv'
    BY SMTT(60), <1>t, <1>i, <1>a, <1>0 DEF WaitSleep, At, cpuVars, WaitLeave, Goto, ChildInv, ForkPcs
  <1> QED
    BY Zenon, <1>1, <1>2, <1>3, <1>4, <1>5 DEF LockInv

(* yield() enters sched() from a thread that runs and holds no lock.        *)
LEMMA LockEnterYield ==
    ASSUME TypeOK, LockInv, NEW c \in Cpus, NEW p \in Procs, EnterYield(c, p),
           cproc[c] = p, ~InSched(p), waitLock # c
    PROVE  LockInv'
  <1>t. /\ state \in [Procs -> ProcStates] /\ pc \in [Procs -> Pcs] /\ chan \in [Procs -> Procs \cup {Null}]
        /\ plock \in [Procs -> Cpus \cup {Null}] /\ waitLock \in Cpus \cup {Null}
        /\ cproc \in [Cpus -> Procs \cup {Null}] /\ inyield \in [Procs -> BOOLEAN]
        /\ np \in [Procs -> Procs \cup {Null}] /\ idx \in [Procs -> Indexes] /\ sidx \in [Cpus -> Procs]
    BY Zenon DEF TypeOK
  <1>i. /\ Null \notin Procs /\ Null \notin Cpus /\ \A i \in Indexes : i < NPROC => i \in Procs
    BY Zenon, IndexFacts, NullAssumption
  <1>a. PLockInv /\ WaitLockInv /\ StackInv /\ StateInv /\ ChildInv
    BY Zenon DEF LockInv
  <1>0. state[p] = "RUNNING" /\ pc[p] \notin WaitLockPcs /\ \A d \in Cpus : cproc[d] = p <=> d = c
    BY SMTT(60), <1>i, <1>a DEF StackInv, StateInv, WaitLockInv
  <1>1. PLockInv'
    BY SMTT(60), <1>t, <1>i, <1>a, <1>0 DEF EnterYield, cpuVars, localVars, PLockInv, InSched, SchedPcs
  <1>2. WaitLockInv'
    BY SMTT(60), <1>t, <1>i, <1>a, <1>0 DEF EnterYield, cpuVars, localVars, WaitLockInv, WaitLockPcs
  <1>3. StackInv'
    BY SMTT(60), <1>t, <1>i, <1>a, <1>0 DEF EnterYield, cpuVars, localVars, StackInv
  <1>4. StateInv'
    BY SMTT(60), <1>t, <1>i, <1>a, <1>0 DEF EnterYield, cpuVars, localVars, StateInv, InSched, OnCpu, SchedPcs, Started
  <1>5. ChildInv'
    BY SMTT(60), <1>t, <1>i, <1>a, <1>0 DEF EnterYield, cpuVars, localVars, ChildInv, ForkPcs
  <1> QED
    BY Zenon, <1>1, <1>2, <1>3, <1>4, <1>5 DEF LockInv

(* A step of one thread keeps locks, stacks and states consistent.         *)
LEMMA LockCall ==
    ASSUME TypeOK, LockInv, NEW c \in Cpus, NEW p \in Procs
    PROVE  SwitchStep(c, p) \/ CallStep(c, p) \/ TrapStep(c, p) => LockInv'
  <1>1. UserTimer(c, p) => LockInv'
    <2> HAVE UserTimer(c, p)
    <2>1. EnterYield(c, p) /\ cproc[c] = p /\ ~inyield[p] /\ pc[p] = "user"
      BY Zenon DEF UserTimer, At
    <2>2. WaitLockInv
      BY Zenon DEF LockInv
    <2>3. ~InSched(p) /\ waitLock # c
      BY SMTT(60), <2>1, <2>2 DEF InSched, SchedPcs, WaitLockInv, WaitLockPcs
    <2> QED
      BY Zenon, <2>1, <2>3, LockEnterYield
  <1>2. KernelTimer(c, p) => LockInv'
    BY Zenon, LockEnterYield DEF KernelTimer, HoldsNoLock
  <1>3. TrapReturn(c, p) => LockInv'
    BY Zenon, PlainSteps, PlainKeeps
  <1>4. SwitchStep(c, p) => LockInv'
    BY SMTT(60), LockSwtch, LockYieldReturn, LockForkret, LockSleepReturn DEF SwitchStep
  <1>5. TrapStep(c, p) => LockInv'
    BY SMTT(60), PlainSteps, PlainKeeps, <1>1, <1>2 DEF TrapStep
  <1>6. ForkStep(c, p) => LockInv'
    BY SMTT(60), PlainSteps, PlainKeeps, LockForkAlloc, LockForkRun DEF ForkStep
  <1>7. ExitStep(c, p) => LockInv'
    BY SMTT(60), PlainSteps, PlainKeeps, LockExitLock, LockExitZombie DEF ExitStep
  <1>8. WaitStep(c, p) => LockInv'
    BY SMTT(60), PlainSteps, PlainKeeps, LockWaitLock, LockWaitReap, LockWaitCopyoutFail, LockWaitNone, LockWaitSleep DEF WaitStep
  <1>9. KillStep(c, p) => LockInv'
    BY SMTT(60), PlainSteps, PlainKeeps DEF KillStep
  <1> QED
    BY Zenon, <1>3, <1>4, <1>5, <1>6, <1>7, <1>8, <1>9 DEF CallStep

(* Every step keeps locks, stacks and states consistent.                   *)
LEMMA LockNext == TypeOK /\ LockInv /\ [Next]_vars => LockInv'
  <1> SUFFICES ASSUME TypeOK, LockInv, [Next]_vars PROVE LockInv'
    BY Zenon
  <1>1. CASE UNCHANGED vars
    <2>1. UNCHANGED <<state, chan, plock, waitLock, cproc, pc, inyield, np>>
      BY Zenon, <1>1 DEF vars, procVars, threadVars, lockVars, cpuVars, localVars
    <2>2. Plain
      BY SMTT(60), <2>1 DEF Plain
    <2> QED
      BY Zenon, <2>2, PlainKeeps
  <1>2. ASSUME NEW c \in Cpus, SchedStep(c) PROVE LockInv'
    BY Zenon, <1>2, PlainSteps, PlainKeeps, LockSchedRun, IndexFacts DEF SchedStep
  <1> QED
    BY Zenon, <1>1, <1>2, LockCall DEF Next

(* procinit() and userinit() establish the invariant.                      *)
LEMMA InitInv == Init => IInv
  <1> SUFFICES ASSUME Init PROVE IInv
    BY Zenon
  <1> USE IndexFacts, NullAssumption, MaxPidAssumption, NPROCAssumption DEF Init
  <1>1. TypeOK
    BY SMTT(60), PcFacts DEF TypeOK, ProcStates, Pids, NextPids
  <1>2. PLockInv /\ StackInv
    BY SMTT(60) DEF PLockInv, StackInv, InSched, SchedPcs
  <1>3. WaitLockInv /\ ChildInv
    BY SMTT(60) DEF WaitLockInv, ChildInv, WaitLockPcs, ForkPcs
  <1>4. StateInv
    BY SMTT(60) DEF StateInv, InSched, OnCpu, SchedPcs, Started
  <1>5. LocalInv /\ ForkInv /\ PidInv
    BY SMTT(60) DEF LocalInv, ForkInv, PidInv, ForkPcs
  <1>6. ParentInv /\ ReparentInv
    BY SMTT(60) DEF ParentInv, ReparentInv, ExitPcs, Started
  <1>7. WakeInv
    BY SMTT(60) DEF WakeInv, SleepInv, ScanInv
  <1> QED
    BY Zenon, <1>1, <1>2, <1>3, <1>4, <1>5, <1>6, <1>7 DEF IInv, LockInv, FamilyInv

(* IInv is an invariant of the process table.                              *)
THEOREM Inductive == Spec => []IInv
  <1>1. IInv /\ [Next]_vars => IInv'
    BY TypeNext, LockNext, FamilyNext, WakeNext DEF IInv
  <1> QED
    BY InitInv, <1>1, PTL DEF Spec

(* The type invariant of proc.c's tables.                                  *)
THEOREM TypeCorrect == Spec => []TypeOK
  BY Inductive, PTL DEF IInv

(* However many CPUs there are, no kernel stack is shared between CPUs or  *)
(* handed out while a CPU is on it.                                        *)
THEOREM StackSafe == Spec => []StackExclusive
  <1>1. IInv => StackExclusive
    BY DEF IInv, TypeOK, LockInv, StackInv, StateInv, OnCpu, Started, StackExclusive
  <1> QED
    BY <1>1, Inductive, PTL

(* sched()'s checks of the locks held never fail.                          *)
THEOREM SchedSafe == Spec => []SchedLocks
  <1>1. ASSUME IInv PROVE SchedLocks
    <2> SUFFICES ASSUME NEW c \in Cpus, NEW p \in Procs, cproc[c] = p, InSched(p)
                 PROVE  /\ plock[p] = c
                        /\ waitLock # c
                        /\ \A q \in Procs : plock[q] = c => q = p
      BY DEF SchedLocks
    <2>1. plock[p] = c /\ \A q \in Procs : plock[q] = c => q = p
      BY <1>1 DEF IInv, LockInv, PLockInv
    <2>2. waitLock # c
      BY <1>1 DEF IInv, LockInv, WaitLockInv, StateInv, InSched, WaitLockPcs, SchedPcs
    <2> QED
      BY <2>1, <2>2
  <1> QED
    BY <1>1, Inductive, PTL

(* No parent sleeps through the exit of a child.                           *)
THEOREM WakeupSafe == Spec => []NoLostWakeup
  <1>1. IInv => NoLostWakeup
    BY OneHolder DEF IInv, WakeInv, SleepInv, NoLostWakeup, WaitLockPcs
  <1> QED
    BY <1>1, Inductive, PTL

(* No orphans: every started process has a live, older parent.             *)
THEOREM FamilySafe == Spec => []Family
  <1>1. IInv => Family
    BY DEF IInv, TypeOK, FamilyInv, ParentInv, Started, ProcStates, Family
  <1> QED
    BY <1>1, Inductive, PTL

(* No two processes have the same pid.                                     *)
THEOREM PidSafe == Spec => []PidUnique
  <1>1. IInv => PidUnique
    BY DEF IInv, FamilyInv, PidInv, PidUnique
  <1> QED
    BY <1>1, Inductive, PTL

-----------------------------------------------------------------------------
(* What a change of one p->state means for ProcTree.                       *)
LEMMA LifeFacts ==
    /\ LifeOf["UNUSED"] = "none" /\ LifeOf["USED"] = "embryo" /\ LifeOf["ZOMBIE"] = "dead"
    /\ LifeOf["SLEEPING"] = "live" /\ LifeOf["RUNNABLE"] = "live" /\ LifeOf["RUNNING"] = "live"
  BY DEF LifeOf

(* Setting the state of q sets the life of q to that of the new state.     *)
LEMMA LifeChange ==
    ASSUME TypeOK, NEW q \in Procs, NEW s \in ProcStates, state' = [state EXCEPT ![q] = s]
    PROVE  Life' = [Life EXCEPT ![q] = LifeOf[s]]
  BY Zenon DEF Life, TypeOK

(* scheduler(), sleep(), wakeup() and yield() move a process among states  *)
(* of the same life.                                                       *)
LEMMA LifeSame ==
    ASSUME TypeOK, NEW q \in Procs, NEW s \in ProcStates, state' = [state EXCEPT ![q] = s],
           LifeOf[s] = LifeOf[state[q]]
    PROVE  Life' = Life
  BY LifeChange DEF Life, TypeOK

(* A step leaves p->state and p->parent alone, moves one process between   *)
(* SLEEPING, RUNNABLE and RUNNING, or is one of six actions.               *)
StepKind ==
  \/ UNCHANGED <<state, parent>>
  \/ /\ UNCHANGED parent
     /\ \E q \in Procs, s \in Started : state[q] \in Started /\ state' = [state EXCEPT ![q] = s]
  \/ \E c \in Cpus, p \in Procs : \/ ForkAlloc(c, p) \/ ForkParent(c, p) \/ ForkRun(c, p)
                                  \/ ReparentChild(c, p) \/ ExitZombie(c, p) \/ WaitReap(c, p)

(* Steps that leave p->state and p->parent alone.                          *)
LEMMA InertSteps ==
    ASSUME NEW c \in Cpus, NEW p \in Procs
    PROVE  \/ SchedSkip(c) \/ SwitchStep(c, p) \/ KillSkip(c, p) \/ KillNone(c, p)
           \/ TrapReturn(c, p) \/ Syscall(c, p) \/ Fault(c, p) \/ TrapKilled(c, p)
           \/ ForkSkip(c, p) \/ ForkFull(c, p) \/ ExitPanic(c, p) \/ ExitLock(c, p)
           \/ ReparentSkip(c, p) \/ ReparentDone(c, p) \/ ReparentWakeupDone(c, p)
           \/ ExitWakeupDone(c, p) \/ WaitLock(c, p) \/ WaitSkip(c, p)
           \/ WaitCopyoutFail(c, p) \/ WaitNone(c, p) \/ WaitCheckKilled(c, p)
           => UNCHANGED <<state, parent>>
  <1>1. SchedSkip(c) \/ KillSkip(c, p) \/ KillNone(c, p) => UNCHANGED <<state, parent>>
    BY Zenon DEF SchedSkip, KillSkip, KillNone, procVars
  <1>2. SwitchStep(c, p) => UNCHANGED <<state, parent>>
    BY Zenon DEF SwitchStep, Swtch, YieldReturn, Forkret, SleepReturn, procVars
  <1>3. TrapReturn(c, p) \/ Syscall(c, p) \/ Fault(c, p) \/ TrapKilled(c, p)
        => UNCHANGED <<state, parent>>
    BY Zenon DEF TrapReturn, Syscall, Fault, TrapKilled, procVars
  <1>4. ForkSkip(c, p) \/ ForkFull(c, p) \/ ExitPanic(c, p) \/ ExitLock(c, p)
        => UNCHANGED <<state, parent>>
    BY Zenon DEF ForkSkip, ForkFull, ExitPanic, ExitLock, procVars
  <1>5. \/ ReparentSkip(c, p) \/ ReparentDone(c, p) \/ ReparentWakeupDone(c, p)
        \/ ExitWakeupDone(c, p)
        => UNCHANGED <<state, parent>>
    BY Zenon DEF ReparentSkip, ReparentDone, ReparentWakeupDone, ExitWakeupDone, WakeupDone, procVars
  <1>6. \/ WaitLock(c, p) \/ WaitSkip(c, p) \/ WaitCopyoutFail(c, p) \/ WaitNone(c, p)
        \/ WaitCheckKilled(c, p)
        => UNCHANGED <<state, parent>>
    BY Zenon DEF WaitLock, WaitSkip, WaitCopyoutFail, WaitNone, WaitCheckKilled, procVars
  <1> QED
    BY Zenon, <1>1, <1>2, <1>3, <1>4, <1>5, <1>6

(* The other steps, except those that change the family.                   *)
LEMMA MovingSteps ==
    ASSUME IInv, NEW c \in Cpus, NEW p \in Procs
    PROVE  \/ SchedRun(c) \/ ForkFail(c, p) \/ ReparentWakeup(c, p) \/ ExitWakeup(c, p)
           \/ WaitSleep(c, p) \/ UserTimer(c, p) \/ KernelTimer(c, p) \/ KillFound(c, p)
           => StepKind
  <1>t. /\ state \in [Procs -> ProcStates] /\ parent \in [Procs -> Procs \cup {Null}]
        /\ idx \in [Procs -> Indexes] /\ widx \in [Procs -> Indexes] /\ sidx \in [Cpus -> Procs]
    BY Zenon DEF IInv, TypeOK
  <1>i. \A i \in Indexes : i < NPROC => i \in Procs
    BY Zenon, IndexFacts
  <1>1. ASSUME SchedRun(c) PROVE StepKind
    <2>1. /\ sidx[c] \in Procs /\ state[sidx[c]] = "RUNNABLE" /\ UNCHANGED parent
          /\ state' = [state EXCEPT ![sidx[c]] = "RUNNING"]
      BY Zenon, <1>1, <1>t DEF SchedRun
    <2> QED
      BY Zenon, <2>1 DEF StepKind, Started
  <1>2. ASSUME ForkFail(c, p) PROVE StepKind
    <2>1. idx[p] \in Procs /\ state[idx[p]] = "UNUSED"
      BY Zenon, <1>2, <1>t, <1>i DEF ForkFail
    <2>2. parent[idx[p]] = Null
      BY Zenon, <2>1 DEF IInv, FamilyInv, ParentInv
    <2> QED
      BY SMTT(60), <1>2, <1>t, <2>1, <2>2 DEF ForkFail, Freeproc, StepKind
  <1>3. ASSUME ReparentWakeup(c, p) \/ ExitWakeup(c, p) PROVE StepKind
    <2>1. /\ UNCHANGED parent
          /\ \/ UNCHANGED state
             \/ \E i \in Procs : state[i] = "SLEEPING" /\ state' = [state EXCEPT ![i] = "RUNNABLE"]
      BY SMTT(60), <1>3, <1>t, <1>i DEF ReparentWakeup, ExitWakeup, WakeupEntry
    <2> QED
      BY Zenon, <2>1 DEF StepKind, Started
  <1>4. ASSUME WaitSleep(c, p) \/ UserTimer(c, p) \/ KernelTimer(c, p) PROVE StepKind
    <2>1. StateInv
      BY Zenon DEF IInv, LockInv
    <2> DEFINE Moves(s) == ~InSched(p) /\ UNCHANGED parent /\ state' = [state EXCEPT ![p] = s]
    <2>2. CASE WaitSleep(c, p)
      <3>1. Moves("SLEEPING")
        BY Zenon, <2>2 DEF WaitSleep, At, InSched, SchedPcs
      <3> QED
        BY Zenon, <2>1, <3>1 DEF StateInv, StepKind, Started
    <2>3. CASE UserTimer(c, p) \/ KernelTimer(c, p)
      <3>1. Moves("RUNNABLE")
        BY Zenon, <2>3 DEF UserTimer, KernelTimer, EnterYield, At, InSched, SchedPcs
      <3> QED
        BY Zenon, <2>1, <3>1 DEF StateInv, StepKind, Started
    <2> QED
      BY Zenon, <1>4, <2>2, <2>3
  <1>5. ASSUME KillFound(c, p) PROVE StepKind
    <2>1. idx[p] \in Procs
      BY Zenon, <1>5, <1>t, <1>i DEF KillFound
    <2>2. CASE state[idx[p]] = "SLEEPING"
      BY Zenon, <1>5, <2>1, <2>2 DEF KillFound, StepKind, Started
    <2>3. CASE state[idx[p]] # "SLEEPING"
      <3>1. state' = state
        BY SMTT(60), <1>5, <1>t, <2>1, <2>3 DEF KillFound
      <3> QED
        BY Zenon, <1>5, <3>1 DEF KillFound, StepKind
    <2> QED
      BY Zenon, <2>2, <2>3
  <1> QED
    BY Zenon, <1>1, <1>2, <1>3, <1>4, <1>5

(* Every step of a kernel thread or of the scheduler is of one of these    *)
(* kinds.                                                                  *)
LEMMA Kinds == IInv /\ [Next]_vars => StepKind
  <1> SUFFICES ASSUME IInv, [Next]_vars PROVE StepKind
    BY Zenon
  <1>0. UNCHANGED <<state, parent>> => StepKind
    BY Zenon DEF StepKind
  <1>1. CASE UNCHANGED vars
    BY Zenon, <1>0, <1>1 DEF vars, procVars
  <1>2. ASSUME NEW c \in Cpus, SchedStep(c) PROVE StepKind
    BY Zenon, <1>0, <1>2, InertSteps, MovingSteps, IndexFacts DEF SchedStep
  <1>3. ASSUME NEW c \in Cpus, NEW p \in Procs,
               SwitchStep(c, p) \/ TrapStep(c, p) \/ KillStep(c, p) \/ TrapReturn(c, p)
        PROVE  StepKind
    BY Zenon, <1>0, <1>3, InertSteps, MovingSteps DEF TrapStep, KillStep
  <1>4. ASSUME NEW c \in Cpus, NEW p \in Procs,
               \/ ForkAlloc(c, p) \/ ForkParent(c, p) \/ ForkRun(c, p)
               \/ ReparentChild(c, p) \/ ExitZombie(c, p) \/ WaitReap(c, p)
        PROVE  StepKind
    BY Zenon, <1>4 DEF StepKind
  <1>5. ASSUME NEW c \in Cpus, NEW p \in Procs, ForkStep(c, p) \/ WaitStep(c, p) PROVE StepKind
    BY Zenon, <1>0, <1>4, <1>5, InertSteps, MovingSteps DEF ForkStep, WaitStep
  <1>6. ASSUME NEW c \in Cpus, NEW p \in Procs, ExitStep(c, p) PROVE StepKind
    BY Zenon, <1>0, <1>4, <1>6, InertSteps, MovingSteps DEF ExitStep
  <1> QED
    BY Zenon, <1>1, <1>2, <1>3, <1>5, <1>6 DEF Next, CallStep

(* A ZOMBIE leaves the table only through its parent's wait().             *)
THEOREM ZombieSafe == Spec => ZombieOnlyReaped
  <1> DEFINE A == \A q \in Procs : state[q] = "ZOMBIE" /\ state'[q] # "ZOMBIE" =>
                    /\ state'[q] = "UNUSED"
                    /\ \E c \in Cpus : cproc[c] = parent[q] /\ waitLock = c
  <1>1. ASSUME IInv, [Next]_vars PROVE A
    <2>t. /\ state \in [Procs -> ProcStates] /\ parent \in [Procs -> Procs \cup {Null}]
          /\ idx \in [Procs -> Indexes] /\ np \in [Procs -> Procs \cup {Null}]
      BY Zenon, <1>1 DEF IInv, TypeOK
    <2>i. Null \notin Procs /\ \A i \in Indexes : i < NPROC => i \in Procs
      BY Zenon, IndexFacts
    <2>a. WaitLockInv /\ StackInv /\ ChildInv
      BY Zenon, <1>1 DEF IInv, LockInv
    <2>1. CASE UNCHANGED state
      BY Zenon, <2>1
    <2>2. ASSUME NEW q \in Procs, NEW s \in Started, state[q] \in Started,
                 state' = [state EXCEPT ![q] = s]
          PROVE  A
      BY SMTT(60), <2>t, <2>2 DEF Started
    <2>3. ASSUME NEW c \in Cpus, NEW p \in Procs, ForkAlloc(c, p) PROVE A
      <3>1. /\ idx[p] \in Procs /\ state[idx[p]] = "UNUSED"
            /\ state' = [state EXCEPT ![idx[p]] = "USED"]
        BY Zenon, <2>t, <2>i, <2>3 DEF ForkAlloc
      <3> QED
        BY SMTT(60), <2>t, <3>1
    <2>4. ASSUME NEW c \in Cpus, NEW p \in Procs, ForkRun(c, p) PROVE A
      <3>1. /\ np[p] \in Procs /\ state[np[p]] = "USED"
            /\ state' = [state EXCEPT ![np[p]] = "RUNNABLE"]
        BY Zenon, <2>a, <2>4 DEF ForkRun, At, ChildInv, ForkPcs
      <3> QED
        BY SMTT(60), <2>t, <3>1
    <2>5. ASSUME NEW c \in Cpus, NEW p \in Procs, ExitZombie(c, p) PROVE A
      BY SMTT(60), <2>t, <2>5 DEF ExitZombie
    <2>6. ASSUME NEW c \in Cpus, NEW p \in Procs, WaitReap(c, p) PROVE A
      <3>1. idx[p] \in Procs /\ parent[idx[p]] = p /\ cproc[c] = p /\ pc[p] = "wait_scan"
            /\ state' = [state EXCEPT ![idx[p]] = "UNUSED"]
        BY Zenon, <2>t, <2>i, <2>6 DEF WaitReap, FoundZombie, Freeproc, At
      <3>2. waitLock = c
        BY SMTT(60), <2>a, <2>i, <3>1 DEF WaitLockInv, WaitLockPcs, StackInv
      <3> QED
        BY SMTT(60), <2>t, <3>1, <3>2
    <2>7. StepKind
      BY Zenon, <1>1, Kinds
    <2>8. ASSUME NEW c \in Cpus, NEW p \in Procs, ForkParent(c, p) \/ ReparentChild(c, p)
          PROVE  UNCHANGED state
      BY Zenon, <2>8 DEF ForkParent, ReparentChild
    <2> HIDE DEF A
    <2> QED
      BY Zenon, <2>1, <2>2, <2>3, <2>4, <2>5, <2>6, <2>7, <2>8 DEF StepKind
  <1>2. IInv /\ [Next]_vars => [A]_vars
    BY <1>1
  <1> QED
    BY <1>2, Inductive, PTL DEF Spec, ZombieOnlyReaped

(* The process table implements the family of ProcTree.                    *)
THEOREM TreeRefinement == Spec => TreeSpec
  <1>1. Init => Tree!Init
    BY LifeFacts, IndexFacts DEF Init, Tree!Init, Life
  <1>2. ASSUME IInv, [Next]_vars PROVE [Tree!Next]_(Tree!vars)
    <2>t. /\ state \in [Procs -> ProcStates] /\ parent \in [Procs -> Procs \cup {Null}]
          /\ idx \in [Procs -> Indexes] /\ np \in [Procs -> Procs \cup {Null}] /\ TypeOK
      BY Zenon, <1>2 DEF IInv, TypeOK
    <2>i. Null \notin Procs /\ initproc \in Procs /\ \A i \in Indexes : i < NPROC => i \in Procs
      BY Zenon, IndexFacts
    <2>a. StateInv /\ ChildInv /\ ForkInv /\ ParentInv /\ ReparentInv
      BY Zenon, <1>2 DEF IInv, LockInv, FamilyInv
    <2>0. \A x \in Procs : Life[x] = LifeOf[state[x]]
      BY Zenon DEF Life
    <2>1. CASE UNCHANGED <<state, parent>>
      BY Zenon, <2>1 DEF Life, Tree!vars
    <2>2. ASSUME NEW q \in Procs, NEW s \in Started, state[q] \in Started,
                 state' = [state EXCEPT ![q] = s], UNCHANGED parent
          PROVE  UNCHANGED Tree!vars
      <3>1. s \in ProcStates /\ LifeOf[s] = LifeOf[state[q]]
        BY <2>2, LifeFacts DEF Started, ProcStates
      <3> QED
        BY Zenon, <2>t, <2>2, <3>1, LifeSame DEF Tree!vars
    <2>3. ASSUME NEW c \in Cpus, NEW p \in Procs, ForkAlloc(c, p) PROVE Tree!Reserve(idx[p])
      <3>1. PICK i \in Procs : i = idx[p]
        BY Zenon, <2>t, <2>i, <2>3 DEF ForkAlloc
      <3>2. state[i] = "UNUSED" /\ state' = [state EXCEPT ![i] = "USED"] /\ UNCHANGED parent
        BY SMTT(60), <2>3, <3>1 DEF ForkAlloc
      <3>3. Life' = [Life EXCEPT ![i] = "embryo"]
        <4>1. "USED" \in ProcStates /\ state' = [state EXCEPT ![i] = "USED"]
          BY <3>2 DEF ProcStates
        <4>2. Life' = [Life EXCEPT ![i] = LifeOf["USED"]]
          BY Zenon, <2>t, <4>1, LifeChange
        <4> QED
          BY <4>2, LifeFacts
      <3> QED
        BY <2>0, <3>1, <3>2, <3>3, LifeFacts DEF Tree!Reserve
    <2>4. ASSUME NEW c \in Cpus, NEW p \in Procs, ForkParent(c, p) PROVE Tree!Bear(p, np[p])
      <3>1. state[p] = "RUNNING" /\ np[p] \in Procs /\ state[np[p]] = "USED"
        <4>1. pc[p] \in ForkPcs /\ ~InSched(p)
          BY Zenon, <2>4 DEF ForkParent, At, ForkPcs, InSched, SchedPcs
        <4> QED
          BY Zenon, <2>a, <4>1 DEF StateInv, ChildInv
      <3>2. parent[np[p]] = Null /\ parent' = [parent EXCEPT ![np[p]] = p] /\ UNCHANGED state
        <4>1. /\ pc[p] = "fork_parent" /\ parent' = [parent EXCEPT ![np[p]] = p] /\ UNCHANGED state
          BY Zenon, <2>4 DEF ForkParent, At
        <4> QED
          BY SMTT(60), <2>a, <4>1 DEF ForkInv, ForkPcs
      <3> QED
        BY Zenon, <2>0, <3>1, <3>2, LifeFacts DEF Tree!Bear, Life
    <2>5. ASSUME NEW c \in Cpus, NEW p \in Procs, ForkRun(c, p) PROVE Tree!Start(np[p])
      <3>1. np[p] \in Procs /\ state[np[p]] = "USED" /\ parent[np[p]] = p
        <4>1. pc[p] = "fork_run"
          BY Zenon, <2>5 DEF ForkRun, At
        <4> QED
          BY SMTT(60), <2>a, <4>1 DEF ChildInv, ForkInv, ForkPcs
      <3>2. state' = [state EXCEPT ![np[p]] = "RUNNABLE"] /\ UNCHANGED parent
        BY SMTT(60), <2>5 DEF ForkRun
      <3>3. Life' = [Life EXCEPT ![np[p]] = "live"]
        <4>1. PICK i \in Procs : i = np[p]
          BY Zenon, <3>1
        <4>2. "RUNNABLE" \in ProcStates /\ state' = [state EXCEPT ![i] = "RUNNABLE"]
          BY <3>2, <4>1 DEF ProcStates
        <4>3. Life' = [Life EXCEPT ![i] = LifeOf["RUNNABLE"]]
          BY Zenon, <2>t, <4>2, LifeChange
        <4> QED
          BY <4>1, <4>3, LifeFacts
      <3> QED
        BY Zenon, <2>i, <2>0, <3>1, <3>2, <3>3, LifeFacts DEF Tree!Start
    <2>6. ASSUME NEW c \in Cpus, NEW p \in Procs, ReparentChild(c, p)
          PROVE  Tree!Adopt(p, idx[p])
      <3>1. state[p] = "RUNNING" /\ p # initproc
        <4>1. pc[p] \in ExitPcs /\ ~InSched(p)
          BY Zenon, <2>6 DEF ReparentChild, At, InSched, SchedPcs, ExitPcs
        <4> QED
          BY SMTT(60), <2>a, <4>1 DEF StateInv, ParentInv
      <3>2. parent[idx[p]] = p /\ parent' = [parent EXCEPT ![idx[p]] = initproc]
            /\ UNCHANGED state
        BY SMTT(60), <2>6 DEF ReparentChild
      <3> QED
        BY SMTT(60), <2>0, <3>1, <3>2, LifeFacts DEF Tree!Adopt, Life
    <2>7. ASSUME NEW c \in Cpus, NEW p \in Procs, ExitZombie(c, p) PROVE Tree!Die(p)
      <3>1. state[p] = "RUNNING" /\ p # initproc /\ \A q \in Procs : parent[q] # p
        <4>1. pc[p] = "exit_zombie" /\ pc[p] \in ExitPcs /\ ~InSched(p)
          BY Zenon, <2>7 DEF ExitZombie, At, InSched, SchedPcs, ExitPcs
        <4> QED
          BY SMTT(60), <2>a, <4>1 DEF StateInv, ParentInv, ReparentInv
      <3>2. state' = [state EXCEPT ![p] = "ZOMBIE"] /\ UNCHANGED parent
        BY SMTT(60), <2>7 DEF ExitZombie
      <3>3. Life' = [Life EXCEPT ![p] = "dead"]
        BY Zenon, <2>t, <3>2, LifeChange, LifeFacts DEF ProcStates
      <3> QED
        BY SMTT(60), <2>0, <3>1, <3>2, <3>3, LifeFacts DEF Tree!Die
    <2>8. ASSUME NEW c \in Cpus, NEW p \in Procs, WaitReap(c, p) PROVE Tree!Collect(p, idx[p])
      <3>1. state[p] = "RUNNING" /\ idx[p] \in Procs /\ state[idx[p]] = "ZOMBIE"
            /\ parent[idx[p]] = p
        BY Zenon, <2>t, <2>i, <2>a, <2>8 DEF WaitReap, FoundZombie, At, StateInv, InSched, SchedPcs
      <3>2. /\ state' = [state EXCEPT ![idx[p]] = "UNUSED"]
            /\ parent' = [parent EXCEPT ![idx[p]] = Null]
        BY SMTT(60), <2>8 DEF WaitReap, Freeproc
      <3>3. Life' = [Life EXCEPT ![idx[p]] = "none"]
        <4>1. PICK i \in Procs : i = idx[p]
          BY Zenon, <3>1
        <4>2. "UNUSED" \in ProcStates /\ state' = [state EXCEPT ![i] = "UNUSED"]
          BY Zenon, <3>2, <4>1 DEF ProcStates
        <4>3. Life' = [Life EXCEPT ![i] = LifeOf["UNUSED"]]
          BY Zenon, <2>t, <4>2, LifeChange
        <4> QED
          BY Zenon, <4>1, <4>3, LifeFacts
      <3> QED
        BY Zenon, <2>0, <3>1, <3>2, <3>3, LifeFacts DEF Tree!Collect
    <2>9. ASSUME NEW c \in Cpus, NEW p \in Procs,
                 ForkAlloc(c, p) \/ ForkParent(c, p) \/ ForkRun(c, p)
                 \/ ReparentChild(c, p) \/ ExitZombie(c, p) \/ WaitReap(c, p)
          PROVE  Tree!Next
      <3>1. ForkAlloc(c, p) \/ ReparentChild(c, p) \/ WaitReap(c, p) => idx[p] \in Procs
        BY Zenon, <2>t, <2>i DEF ForkAlloc, ReparentChild, WaitReap, FoundZombie
      <3>2. ForkParent(c, p) \/ ForkRun(c, p) => np[p] \in Procs
        BY Zenon, <2>a DEF ForkParent, ForkRun, At, ChildInv, ForkPcs
      <3>3. CASE ForkAlloc(c, p)
        BY Zenon, <2>3, <3>1, <3>3 DEF Tree!Next
      <3>4. CASE ForkParent(c, p)
        BY Zenon, <2>4, <3>2, <3>4 DEF Tree!Next
      <3>5. CASE ForkRun(c, p)
        BY Zenon, <2>5, <3>2, <3>5 DEF Tree!Next
      <3>6. CASE ReparentChild(c, p)
        BY Zenon, <2>6, <3>1, <3>6 DEF Tree!Next
      <3>7. CASE ExitZombie(c, p)
        BY SMTT(60), <2>7, <3>7 DEF Tree!Next
      <3>8. CASE WaitReap(c, p)
        BY Zenon, <2>8, <3>1, <3>8 DEF Tree!Next
      <3> QED
        BY Zenon, <2>9, <3>3, <3>4, <3>5, <3>6, <3>7, <3>8
    <2>10. StepKind
      BY Zenon, <1>2, Kinds
    <2> QED
      BY Zenon, <2>1, <2>2, <2>9, <2>10 DEF StepKind
  <1> QED
    BY <1>1, <1>2, Inductive, PTL DEF Spec, TreeSpec, Tree!Spec

=============================================================================
