-------------------------------- MODULE Proc --------------------------------
(***************************************************************************)
(* The process table of kernel/proc.c: the per-CPU schedulers, sleep and   *)
(* wakeup, fork, exit, wait, kill and timer preemption, at the grain of    *)
(* the spinlocks.                                                          *)
(*                                                                         *)
(* A kernel thread or scheduler step is one critical section: a section    *)
(* that acquires p->lock, works and releases it is one action whose guard  *)
(* is that the lock is free.  The sections that stay open over several     *)
(* steps keep the lock visibly owned: wait_lock in exit() and wait(), and  *)
(* p->lock from the change of p->state, through swtch(), to the scheduler  *)
(* that releases it (and from the scheduler, through swtch(), to the       *)
(* resumed thread).  A lock is owned by a CPU, as in spinlock.c.           *)
(*                                                                         *)
(* The state of an address space, the open files, the name and the exit    *)
(* status of a process decide no branch of this code and are left out;     *)
(* that kalloc, uvmcopy or copyout may fail is kept.                       *)
(***************************************************************************)
EXTENDS Naturals

CONSTANTS
  NPROC,      \* size of the process table
  Cpus,       \* the CPUs
  Null,       \* a null pointer, and the owner of a free lock
  MaxPid,     \* bound on the pids that allocpid hands out
  Syscalls    \* the system calls the user programs make

ProcNames == {"fork", "exit", "wait", "kill"}

ASSUME NPROCAssumption == NPROC \in Nat \ {0}
ASSUME MaxPidAssumption == MaxPid \in Nat
ASSUME NullAssumption == Null \notin Cpus /\ Null \notin Nat
ASSUME SyscallsAssumption == Syscalls \subseteq ProcNames

Procs == 0 .. NPROC - 1
Indexes == 0 .. NPROC           \* of a loop over the table
Pids == 0 .. MaxPid + 1
NextPids == 2 .. MaxPid + 2
initproc == 0

VARIABLES
  state,      \* p->state
  chan,       \* p->chan
  killed,     \* p->killed
  pid,        \* p->pid
  parent,     \* p->parent
  nextpid,    \* the pid allocpid hands out next
  plock,      \* the CPU that holds p->lock, or Null
  waitLock,   \* the CPU that holds wait_lock, or Null
  cproc,      \* c->proc: the process whose kernel stack CPU c is on, or Null
  sidx,       \* the position of CPU c's scheduler() in the table
  pc,         \* where the kernel thread of p is
  inyield,    \* the thread of p is inside yield()
  idx,        \* loop index of fork, reparent, wait and kill
  widx,       \* loop index of wakeup
  np,         \* fork's child
  havekids,   \* wait's flag
  target      \* kill's argument

procVars   == <<state, chan, killed, pid, parent, nextpid>>
lockVars   == <<plock, waitLock>>
cpuVars    == <<cproc, sidx>>
localVars  == <<idx, widx, np, havekids, target>>
threadVars == <<pc, inyield, localVars>>
vars       == <<procVars, lockVars, cpuVars, threadVars>>

ProcStates == {"UNUSED", "USED", "SLEEPING", "RUNNABLE", "RUNNING", "ZOMBIE"}

(* Labels at which the thread holds wait_lock.                             *)
WaitLockPcs == {"reparent", "reparent_wakeup", "exit_wakeup", "exit_zombie",
                "wait_scan", "wait_sleep"}

(* Labels at which a thread is between its change of p->state and its      *)
(* return from sched(): it holds p->lock whenever it is on a CPU.  "gone"  *)
(* is exit()'s sched(), which never returns, and a thread never created.   *)
SchedPcs == {"forkret", "wait_slept", "gone"}

Pcs == {"user", "fork_scan", "fork_parent", "fork_run", "exit", "wait",
        "kill_scan", "trapret", "panicked"} \cup WaitLockPcs \cup SchedPcs

Goto(p, l) == pc' = [pc EXCEPT ![p] = l]

InSched(p) == inyield[p] \/ pc[p] \in SchedPcs

(* CPU c executes the thread of p, at label l, outside yield().            *)
At(c, p, l) == cproc[c] = p /\ ~inyield[p] /\ pc[p] = l

(* noff = 0 on CPU c: interrupts may be on.                                *)
HoldsNoLock(c) == waitLock # c /\ \A q \in Procs : plock[q] # c

-----------------------------------------------------------------------------
(* Scheduling.                                                             *)

(* The entry scheduler() looks at after p, round the table.                *)
NextEntry(p) == (p + 1) % NPROC

(* scheduler() passes over an entry that is not RUNNABLE.                  *)
SchedSkip(c) ==
  LET p == sidx[c] IN
  /\ cproc[c] = Null
  /\ plock[p] = Null
  /\ state[p] # "RUNNABLE"
  /\ sidx' = [sidx EXCEPT ![c] = NextEntry(p)]
  /\ UNCHANGED <<procVars, lockVars, cproc, threadVars>>

(* scheduler() switches to a RUNNABLE process, with its lock held.         *)
SchedRun(c) ==
  LET p == sidx[c] IN
  /\ cproc[c] = Null
  /\ plock[p] = Null
  /\ state[p] = "RUNNABLE"
  /\ state' = [state EXCEPT ![p] = "RUNNING"]
  /\ cproc' = [cproc EXCEPT ![c] = p]
  /\ plock' = [plock EXCEPT ![p] = c]
  /\ UNCHANGED <<chan, killed, pid, parent, nextpid, waitLock, sidx, threadVars>>

(* Mutant: the scan starts over after every process that ran.              *)
SwtchRestartScan(c, p) ==
  /\ cproc[c] = p
  /\ InSched(p)
  /\ state[p] # "RUNNING"
  /\ cproc' = [cproc EXCEPT ![c] = Null]
  /\ plock' = [plock EXCEPT ![p] = Null]
  /\ sidx' = [sidx EXCEPT ![c] = 0]
  /\ UNCHANGED <<procVars, waitLock, threadVars>>

(* sched() switches to the scheduler, which clears c->proc, releases       *)
(* p->lock and goes on with the next entry.                                *)
Swtch(c, p) ==
  /\ cproc[c] = p
  /\ InSched(p)
  /\ state[p] # "RUNNING"
  /\ cproc' = [cproc EXCEPT ![c] = Null]
  /\ plock' = [plock EXCEPT ![p] = Null]
  /\ sidx' = [sidx EXCEPT ![c] = NextEntry(p)]
  /\ UNCHANGED <<procVars, waitLock, threadVars>>

(* yield() up to swtch: the thread keeps the label it was interrupted at.  *)
EnterYield(c, p) ==
  /\ plock[p] = Null
  /\ plock' = [plock EXCEPT ![p] = c]
  /\ state' = [state EXCEPT ![p] = "RUNNABLE"]
  /\ inyield' = [inyield EXCEPT ![p] = TRUE]
  /\ UNCHANGED <<chan, killed, pid, parent, nextpid, waitLock, cpuVars, pc, localVars>>

(* kerneltrap(): a timer interrupt while the kernel runs p's thread.       *)
KernelTimer(c, p) ==
  /\ cproc[c] = p /\ ~InSched(p)
  /\ pc[p] # "user"
  /\ state[p] = "RUNNING"
  /\ HoldsNoLock(c)
  /\ EnterYield(c, p)

(* usertrap() for a timer interrupt from user space (TrapKilled if p is    *)
(* killed).  A kill() that lands between killed() and yield() has the same *)
(* effect as one right after yield()'s section, so the two are one step.   *)
UserTimer(c, p) ==
  /\ At(c, p, "user")
  /\ ~killed[p]
  /\ EnterYield(c, p)

(* yield() after swtch.                                                    *)
YieldReturn(c, p) ==
  /\ cproc[c] = p /\ inyield[p] /\ state[p] = "RUNNING"
  /\ plock' = [plock EXCEPT ![p] = Null]
  /\ inyield' = [inyield EXCEPT ![p] = FALSE]
  /\ UNCHANGED <<procVars, waitLock, cpuVars, pc, localVars>>

(* forkret(): the first run of a new process.                              *)
Forkret(c, p) ==
  /\ At(c, p, "forkret") /\ state[p] = "RUNNING"
  /\ plock' = [plock EXCEPT ![p] = Null]
  /\ Goto(p, "user")
  /\ UNCHANGED <<procVars, waitLock, cpuVars, inyield, localVars>>

-----------------------------------------------------------------------------
(* Traps from user space.                                                  *)

Entry == [fork |-> "fork_scan", exit |-> "exit", wait |-> "wait", kill |-> "kill_scan"]

(* usertrap() for a system call or a timer interrupt finds p killed.       *)
TrapKilled(c, p) ==
  /\ At(c, p, "user")
  /\ plock[p] = Null
  /\ killed[p]
  /\ Goto(p, "exit")
  /\ UNCHANGED <<procVars, lockVars, cpuVars, inyield, localVars>>

(* usertrap() and syscall(): p starts a system call; kill's argument is    *)
(* any pid.                                                                *)
Syscall(c, p) ==
  /\ At(c, p, "user")
  /\ plock[p] = Null
  /\ ~killed[p]
  /\ \E call \in Syscalls, t \in 0 .. MaxPid :
       /\ call # "kill" => t = 0
       /\ Goto(p, Entry[call])
       /\ target' = [target EXCEPT ![p] = t]
  /\ UNCHANGED <<procVars, lockVars, cpuVars, inyield, idx, widx, np, havekids>>

(* usertrap() for an exception: setkilled(p).                              *)
Fault(c, p) ==
  /\ At(c, p, "user")
  /\ plock[p] = Null
  /\ killed' = [killed EXCEPT ![p] = TRUE]
  /\ Goto(p, "trapret")
  /\ UNCHANGED <<state, chan, pid, parent, nextpid, lockVars, cpuVars, inyield, localVars>>

(* The end of usertrap(): exit(-1) if killed, else back to user space.     *)
TrapReturn(c, p) ==
  /\ At(c, p, "trapret")
  /\ plock[p] = Null
  /\ Goto(p, IF killed[p] THEN "exit" ELSE "user")
  /\ UNCHANGED <<procVars, lockVars, cpuVars, inyield, localVars>>

-----------------------------------------------------------------------------
(* fork().                                                                 *)

(* freeproc(q).                                                            *)
Freeproc(q) ==
  /\ state'  = [state EXCEPT ![q] = "UNUSED"]
  /\ chan'   = [chan EXCEPT ![q] = Null]
  /\ killed' = [killed EXCEPT ![q] = FALSE]
  /\ pid'    = [pid EXCEPT ![q] = 0]
  /\ parent' = [parent EXCEPT ![q] = Null]

(* allocpid() for entry i, up to the bound on pids.                        *)
Allocpid(i) ==
  /\ nextpid <= MaxPid
  /\ pid' = [pid EXCEPT ![i] = nextpid]
  /\ nextpid' = nextpid + 1

(* allocproc() looks at one entry of the table.                            *)
ForkSkip(c, p) ==
  /\ At(c, p, "fork_scan") /\ idx[p] < NPROC
  /\ plock[idx[p]] = Null
  /\ state[idx[p]] # "UNUSED"
  /\ idx' = [idx EXCEPT ![p] = @ + 1]
  /\ UNCHANGED <<procVars, lockVars, cpuVars, pc, inyield, widx, np, havekids, target>>

(* allocproc() finds an UNUSED entry i, and fork() copies the parent into  *)
(* it: one section of i's lock.  allocproc() does not touch i->killed.     *)
ForkAlloc(c, p) ==
  LET i == idx[p] IN
  /\ At(c, p, "fork_scan") /\ i < NPROC
  /\ plock[i] = Null
  /\ state[i] = "UNUSED"
  /\ Allocpid(i)
  /\ state' = [state EXCEPT ![i] = "USED"]
  /\ pc' = [pc EXCEPT ![i] = "forkret", ![p] = "fork_parent"]
  /\ np' = [np EXCEPT ![p] = i]
  /\ idx' = [idx EXCEPT ![p] = 0]
  /\ UNCHANGED <<chan, killed, parent, lockVars, cpuVars, inyield, widx, havekids, target>>

(* kalloc(), proc_pagetable() or uvmcopy() fails: freeproc(i), return -1.  *)
(* At the bound on pids this is the only outcome.                          *)
ForkFail(c, p) ==
  LET i == idx[p] IN
  /\ At(c, p, "fork_scan") /\ i < NPROC
  /\ plock[i] = Null
  /\ state[i] = "UNUSED"
  /\ nextpid' = IF nextpid <= MaxPid THEN nextpid + 1 ELSE nextpid
  /\ Freeproc(i)
  /\ Goto(p, "trapret")
  /\ idx' = [idx EXCEPT ![p] = 0]
  /\ UNCHANGED <<lockVars, cpuVars, inyield, widx, np, havekids, target>>

(* The table is full: fork() returns -1.                                   *)
ForkFull(c, p) ==
  /\ At(c, p, "fork_scan") /\ idx[p] = NPROC
  /\ Goto(p, "trapret")
  /\ idx' = [idx EXCEPT ![p] = 0]
  /\ UNCHANGED <<procVars, lockVars, cpuVars, inyield, widx, np, havekids, target>>

(* Mutant: fork() does not record the parent.                              *)
ForkParentMissing(c, p) ==
  /\ At(c, p, "fork_parent")
  /\ waitLock = Null
  /\ Goto(p, "fork_run")
  /\ UNCHANGED <<procVars, lockVars, cpuVars, inyield, localVars>>

(* np->parent = p under wait_lock.                                         *)
ForkParent(c, p) ==
  /\ At(c, p, "fork_parent")
  /\ waitLock = Null
  /\ parent' = [parent EXCEPT ![np[p]] = p]
  /\ Goto(p, "fork_run")
  /\ UNCHANGED <<state, chan, killed, pid, nextpid, lockVars, cpuVars, inyield, localVars>>

(* np->state = RUNNABLE under np->lock; fork() returns the pid.            *)
ForkRun(c, p) ==
  /\ At(c, p, "fork_run")
  /\ plock[np[p]] = Null
  /\ state' = [state EXCEPT ![np[p]] = "RUNNABLE"]
  /\ np' = [np EXCEPT ![p] = Null]
  /\ Goto(p, "trapret")
  /\ UNCHANGED <<chan, killed, pid, parent, nextpid, lockVars, cpuVars, inyield,
                 idx, widx, havekids, target>>

-----------------------------------------------------------------------------
(* exit().                                                                 *)

(* init must not exit; another process closes its files and takes          *)
(* wait_lock.                                                              *)
ExitPanic(c, p) ==
  /\ At(c, p, "exit") /\ p = initproc
  /\ Goto(p, "panicked")
  /\ UNCHANGED <<procVars, lockVars, cpuVars, inyield, localVars>>

(* Mutant: exit() forgets reparent().                                      *)
ExitLockNoReparent(c, p) ==
  /\ At(c, p, "exit") /\ p # initproc
  /\ waitLock = Null
  /\ waitLock' = c
  /\ Goto(p, "exit_wakeup")
  /\ UNCHANGED <<procVars, plock, cpuVars, inyield, localVars>>

ExitLock(c, p) ==
  /\ At(c, p, "exit") /\ p # initproc
  /\ waitLock = Null
  /\ waitLock' = c
  /\ Goto(p, "reparent")
  /\ UNCHANGED <<procVars, plock, cpuVars, inyield, localVars>>

(* reparent(): one entry of the table; a child is given to init, and init  *)
(* is woken.                                                               *)
ReparentChild(c, p) ==
  /\ At(c, p, "reparent") /\ idx[p] < NPROC
  /\ parent[idx[p]] = p
  /\ parent' = [parent EXCEPT ![idx[p]] = initproc]
  /\ Goto(p, "reparent_wakeup")
  /\ UNCHANGED <<state, chan, killed, pid, nextpid, lockVars, cpuVars, inyield, localVars>>

ReparentSkip(c, p) ==
  /\ At(c, p, "reparent") /\ idx[p] < NPROC
  /\ parent[idx[p]] # p
  /\ idx' = [idx EXCEPT ![p] = @ + 1]
  /\ UNCHANGED <<procVars, lockVars, cpuVars, pc, inyield, widx, np, havekids, target>>

ReparentDone(c, p) ==
  /\ At(c, p, "reparent") /\ idx[p] = NPROC
  /\ idx' = [idx EXCEPT ![p] = 0]
  /\ Goto(p, "exit_wakeup")
  /\ UNCHANGED <<procVars, lockVars, cpuVars, inyield, widx, np, havekids, target>>

(* One entry of wakeup(ch) by p, under the entry's lock.                   *)
WakeupEntry(p, ch) ==
  LET j == widx[p] IN
  /\ j < NPROC
  /\ j # p => plock[j] = Null
  /\ state' = [state EXCEPT ![j] =
                 IF j # p /\ @ = "SLEEPING" /\ chan[j] = ch THEN "RUNNABLE" ELSE @]
  /\ widx' = [widx EXCEPT ![p] = @ + 1]
  /\ UNCHANGED <<chan, killed, pid, parent, nextpid, lockVars, cpuVars, pc, inyield,
                 idx, np, havekids, target>>

(* wakeup() returns and the thread goes on at l.                           *)
WakeupDone(p, l) ==
  /\ widx[p] = NPROC
  /\ widx' = [widx EXCEPT ![p] = 0]
  /\ Goto(p, l)
  /\ UNCHANGED <<procVars, lockVars, cpuVars, inyield, idx, np, havekids, target>>

ReparentWakeup(c, p) == At(c, p, "reparent_wakeup") /\ WakeupEntry(p, initproc)

ReparentWakeupDone(c, p) == At(c, p, "reparent_wakeup") /\ WakeupDone(p, "reparent")

(* Mutant: exit() wakes its own channel, not its parent's.                 *)
ExitWakeupSelf(c, p) == At(c, p, "exit_wakeup") /\ WakeupEntry(p, p)

ExitWakeup(c, p) == At(c, p, "exit_wakeup") /\ WakeupEntry(p, parent[p])

ExitWakeupDone(c, p) == At(c, p, "exit_wakeup") /\ WakeupDone(p, "exit_zombie")

(* Under p->lock, become a ZOMBIE, release wait_lock and enter sched().    *)
ExitZombie(c, p) ==
  /\ At(c, p, "exit_zombie")
  /\ plock[p] = Null
  /\ plock' = [plock EXCEPT ![p] = c]
  /\ state' = [state EXCEPT ![p] = "ZOMBIE"]
  /\ waitLock' = Null
  /\ Goto(p, "gone")
  /\ UNCHANGED <<chan, killed, pid, parent, nextpid, cpuVars, inyield, localVars>>

-----------------------------------------------------------------------------
(* wait().                                                                 *)

(* acquire(&wait_lock), on entry and at the end of sleep(); a new scan.    *)
WaitLock(c, p) ==
  /\ At(c, p, "wait")
  /\ waitLock = Null
  /\ waitLock' = c
  /\ Goto(p, "wait_scan")
  /\ UNCHANGED <<procVars, plock, cpuVars, inyield, localVars>>

(* Mutant: wait_lock is kept.                                              *)
WaitLeaveKeepLock(p, l) ==
  /\ UNCHANGED waitLock
  /\ Goto(p, l)
  /\ idx' = [idx EXCEPT ![p] = 0]
  /\ havekids' = [havekids EXCEPT ![p] = FALSE]

(* wait() leaves its scan: release(&wait_lock), go on at l.                *)
WaitLeave(p, l) ==
  /\ waitLock' = Null
  /\ Goto(p, l)
  /\ idx' = [idx EXCEPT ![p] = 0]
  /\ havekids' = [havekids EXCEPT ![p] = FALSE]

(* An entry that is no child, or a child that is no ZOMBIE.                *)
WaitSkip(c, p) ==
  LET i == idx[p] IN
  /\ At(c, p, "wait_scan") /\ i < NPROC
  /\ parent[i] = p => plock[i] = Null /\ state[i] # "ZOMBIE"
  /\ idx' = [idx EXCEPT ![p] = @ + 1]
  /\ havekids' = [havekids EXCEPT ![p] = @ \/ parent[i] = p]
  /\ UNCHANGED <<procVars, lockVars, cpuVars, pc, inyield, widx, np, target>>

(* Mutant: wait() looks at the child without its lock.                     *)
FoundZombieUnlocked(c, p) ==
  LET i == idx[p] IN
  /\ At(c, p, "wait_scan") /\ i < NPROC
  /\ parent[i] = p
  /\ state[i] = "ZOMBIE"

(* A ZOMBIE child whose lock is free: it is off its kernel stack.          *)
FoundZombie(c, p) ==
  LET i == idx[p] IN
  /\ At(c, p, "wait_scan") /\ i < NPROC
  /\ parent[i] = p
  /\ plock[i] = Null
  /\ state[i] = "ZOMBIE"

WaitReap(c, p) ==
  /\ FoundZombie(c, p)
  /\ Freeproc(idx[p])
  /\ WaitLeave(p, "trapret")
  /\ UNCHANGED <<nextpid, plock, cpuVars, inyield, widx, np, target>>

(* copyout() of the status fails: the child stays a ZOMBIE, wait() is -1.  *)
WaitCopyoutFail(c, p) ==
  /\ FoundZombie(c, p)
  /\ WaitLeave(p, "trapret")
  /\ UNCHANGED <<procVars, plock, cpuVars, inyield, widx, np, target>>

(* The scan is over: return -1 without children or when killed.            *)
WaitNone(c, p) ==
  /\ At(c, p, "wait_scan") /\ idx[p] = NPROC
  /\ \/ ~havekids[p]
     \/ plock[p] = Null /\ killed[p]
  /\ WaitLeave(p, "trapret")
  /\ UNCHANGED <<procVars, plock, cpuVars, inyield, widx, np, target>>

(* Mutant: wait_lock is released before sleep() takes p->lock.             *)
WaitCheckKilledUnlock(c, p) ==
  /\ At(c, p, "wait_scan") /\ idx[p] = NPROC
  /\ havekids[p] /\ plock[p] = Null /\ ~killed[p]
  /\ waitLock' = Null
  /\ Goto(p, "wait_sleep")
  /\ UNCHANGED <<procVars, plock, cpuVars, inyield, localVars>>

WaitCheckKilled(c, p) ==
  /\ At(c, p, "wait_scan") /\ idx[p] = NPROC
  /\ havekids[p] /\ plock[p] = Null /\ ~killed[p]
  /\ Goto(p, "wait_sleep")
  /\ UNCHANGED <<procVars, lockVars, cpuVars, inyield, localVars>>

(* sleep(p, &wait_lock) up to swtch.                                       *)
WaitSleep(c, p) ==
  /\ At(c, p, "wait_sleep")
  /\ plock[p] = Null
  /\ plock' = [plock EXCEPT ![p] = c]
  /\ chan' = [chan EXCEPT ![p] = p]
  /\ state' = [state EXCEPT ![p] = "SLEEPING"]
  /\ WaitLeave(p, "wait_slept")
  /\ UNCHANGED <<killed, pid, parent, nextpid, cpuVars, inyield, widx, np, target>>

(* sleep() after swtch, up to the acquire of wait_lock.                    *)
SleepReturn(c, p) ==
  /\ At(c, p, "wait_slept") /\ state[p] = "RUNNING"
  /\ chan' = [chan EXCEPT ![p] = Null]
  /\ plock' = [plock EXCEPT ![p] = Null]
  /\ Goto(p, "wait")
  /\ UNCHANGED <<state, killed, pid, parent, nextpid, waitLock, cpuVars, inyield, localVars>>

-----------------------------------------------------------------------------
(* kill().                                                                 *)

KillSkip(c, p) ==
  /\ At(c, p, "kill_scan") /\ idx[p] < NPROC
  /\ plock[idx[p]] = Null
  /\ pid[idx[p]] # target[p]
  /\ idx' = [idx EXCEPT ![p] = @ + 1]
  /\ UNCHANGED <<procVars, lockVars, cpuVars, pc, inyield, widx, np, havekids, target>>

(* kill() leaves: back to user space.                                      *)
KillLeave(p) ==
  /\ Goto(p, "trapret")
  /\ idx' = [idx EXCEPT ![p] = 0]
  /\ target' = [target EXCEPT ![p] = 0]

(* Mutant: kill() makes any victim RUNNABLE.                               *)
KillFoundAnyState(c, p) ==
  LET i == idx[p] IN
  /\ At(c, p, "kill_scan") /\ i < NPROC
  /\ plock[i] = Null
  /\ pid[i] = target[p]
  /\ killed' = [killed EXCEPT ![i] = TRUE]
  /\ state' = [state EXCEPT ![i] = "RUNNABLE"]
  /\ KillLeave(p)
  /\ UNCHANGED <<chan, pid, parent, nextpid, lockVars, cpuVars, inyield, widx, np, havekids>>

KillFound(c, p) ==
  LET i == idx[p] IN
  /\ At(c, p, "kill_scan") /\ i < NPROC
  /\ plock[i] = Null
  /\ pid[i] = target[p]
  /\ killed' = [killed EXCEPT ![i] = TRUE]
  /\ state' = [state EXCEPT ![i] = IF @ = "SLEEPING" THEN "RUNNABLE" ELSE @]
  /\ KillLeave(p)
  /\ UNCHANGED <<chan, pid, parent, nextpid, lockVars, cpuVars, inyield, widx, np, havekids>>

KillNone(c, p) ==
  /\ At(c, p, "kill_scan") /\ idx[p] = NPROC
  /\ KillLeave(p)
  /\ UNCHANGED <<procVars, lockVars, cpuVars, inyield, widx, np, havekids>>

-----------------------------------------------------------------------------
(* procinit() and userinit(): init is RUNNABLE, every other entry UNUSED.  *)
Init ==
  /\ state = [p \in Procs |-> IF p = initproc THEN "RUNNABLE" ELSE "UNUSED"]
  /\ pid = [p \in Procs |-> IF p = initproc THEN 1 ELSE 0]
  /\ pc = [p \in Procs |-> IF p = initproc THEN "forkret" ELSE "gone"]
  /\ nextpid = 2
  /\ chan = [p \in Procs |-> Null]
  /\ killed = [p \in Procs |-> FALSE]
  /\ parent = [p \in Procs |-> Null]
  /\ plock = [p \in Procs |-> Null]
  /\ waitLock = Null
  /\ cproc = [c \in Cpus |-> Null]
  /\ sidx = [c \in Cpus |-> 0]
  /\ inyield = [p \in Procs |-> FALSE]
  /\ idx = [p \in Procs |-> 0]
  /\ widx = [p \in Procs |-> 0]
  /\ np = [p \in Procs |-> Null]
  /\ havekids = [p \in Procs |-> FALSE]
  /\ target = [p \in Procs |-> 0]

ForkStep(c, p) == ForkSkip(c, p) \/ ForkAlloc(c, p) \/ ForkFail(c, p)
                    \/ ForkFull(c, p) \/ ForkParent(c, p) \/ ForkRun(c, p)

ExitStep(c, p) == ExitPanic(c, p) \/ ExitLock(c, p) \/ ReparentChild(c, p)
                    \/ ReparentSkip(c, p) \/ ReparentDone(c, p)
                    \/ ReparentWakeup(c, p) \/ ReparentWakeupDone(c, p)
                    \/ ExitWakeup(c, p) \/ ExitWakeupDone(c, p) \/ ExitZombie(c, p)

WaitStep(c, p) == WaitLock(c, p) \/ WaitSkip(c, p) \/ WaitReap(c, p)
                    \/ WaitCopyoutFail(c, p) \/ WaitNone(c, p)
                    \/ WaitCheckKilled(c, p) \/ WaitSleep(c, p)

KillStep(c, p) == KillSkip(c, p) \/ KillFound(c, p) \/ KillNone(c, p)

(* Leaving for the scheduler and coming back from it.                      *)
SwitchStep(c, p) ==
  Swtch(c, p) \/ YieldReturn(c, p) \/ Forkret(c, p) \/ SleepReturn(c, p)

(* The code of the system calls.                                           *)
CallStep(c, p) ==
  TrapReturn(c, p) \/ ForkStep(c, p) \/ ExitStep(c, p) \/ WaitStep(c, p) \/ KillStep(c, p)

(* What user programs and the timer do.                                    *)
TrapStep(c, p) ==
  \/ Syscall(c, p) \/ Fault(c, p) \/ TrapKilled(c, p)
  \/ UserTimer(c, p) \/ KernelTimer(c, p)

SchedStep(c) == SchedSkip(c) \/ SchedRun(c)

Next == \E c \in Cpus :
          \/ SchedStep(c)
          \/ \E p \in Procs : SwitchStep(c, p) \/ CallStep(c, p) \/ TrapStep(c, p)

Spec == Init /\ [][Next]_vars

(* The CPUs keep executing.  A lock that is free again and again is        *)
(* acquired in the end: acquire() retries every few cycles and a critical  *)
(* section is short.  Timer interrupts never stop, and are far apart: a    *)
(* thread that is run again and again executes its next step in the end.   *)
Fairness ==
  /\ \A c \in Cpus : SF_vars(SchedStep(c))
  /\ \A p \in Procs : /\ SF_vars(\E c \in Cpus : SwitchStep(c, p))
                      /\ SF_vars(\E c \in Cpus : CallStep(c, p))
                      /\ SF_vars(\E c \in Cpus : TrapKilled(c, p) \/ UserTimer(c, p))

FairSpec == Spec /\ Fairness

-----------------------------------------------------------------------------
(* Properties.                                                             *)

(* Every field of a struct proc, struct cpu and thread has its C type.     *)
TypeOK ==
  /\ state \in [Procs -> ProcStates]
  /\ chan \in [Procs -> Procs \cup {Null}]
  /\ killed \in [Procs -> BOOLEAN]
  /\ pid \in [Procs -> Pids]
  /\ parent \in [Procs -> Procs \cup {Null}]
  /\ nextpid \in NextPids
  /\ plock \in [Procs -> Cpus \cup {Null}]
  /\ waitLock \in Cpus \cup {Null}
  /\ cproc \in [Cpus -> Procs \cup {Null}]
  /\ sidx \in [Cpus -> Procs]
  /\ pc \in [Procs -> Pcs]
  /\ inyield \in [Procs -> BOOLEAN]
  /\ idx \in [Procs -> Indexes]
  /\ widx \in [Procs -> Indexes]
  /\ np \in [Procs -> Procs \cup {Null}]
  /\ havekids \in [Procs -> BOOLEAN]
  /\ target \in [Procs -> Pids]

(* A kernel stack is used by one CPU at most, and never while its slot can *)
(* be handed to a new process: wait() frees a child, and scheduler() picks *)
(* a process, only after the CPU it ran on is off its stack ("make sure    *)
(* the child isn't still in exit() or swtch()").                           *)
StackExclusive ==
  \A c \in Cpus : cproc[c] # Null =>
    /\ state[cproc[c]] \notin {"UNUSED", "USED"}
    /\ \A d \in Cpus : cproc[d] = cproc[c] => d = c

(* sched()'s panics about locks never happen: a thread that enters or      *)
(* leaves the scheduler holds p->lock and no other lock, wherever it slept *)
(* or was preempted and whichever CPU it comes back on.                    *)
SchedLocks ==
  \A c \in Cpus, p \in Procs : cproc[c] = p /\ InSched(p) =>
    /\ plock[p] = c
    /\ waitLock # c
    /\ \A q \in Procs : plock[q] = c => q = p

(* No lost wakeup between exit() and wait(): while nobody is inside        *)
(* wait_lock, no process sleeps in wait() with a ZOMBIE child, not even    *)
(* init with one it was just given by reparent().                          *)
NoLostWakeup ==
  waitLock = Null =>
    \A p, q \in Procs :
      state[p] = "SLEEPING" /\ parent[q] = p => state[q] # "ZOMBIE"

(* Every process that has started, and is not init, has a parent that can  *)
(* still wait() for it and that is older (has a smaller pid), so that the  *)
(* parents form a tree with init at its root; exit() leaves no orphan.     *)
Family ==
  \A q \in Procs : state[q] \notin {"UNUSED", "USED"} /\ q # initproc =>
    /\ parent[q] # Null
    /\ state[parent[q]] \in {"SLEEPING", "RUNNABLE", "RUNNING"}
    /\ pid[parent[q]] < pid[q]

(* Two slots in use never have the same pid, so that kill() and wait()     *)
(* name one process.                                                       *)
PidUnique ==
  \A p, q \in Procs : pid[p] = pid[q] /\ state[p] # "UNUSED" => p = q

(* A ZOMBIE stays a ZOMBIE, whoever kills it or wakes its channel, until   *)
(* its own parent frees it inside wait().                                  *)
ZombieOnlyReaped ==
  [][\A q \in Procs : state[q] = "ZOMBIE" /\ state'[q] # "ZOMBIE" =>
       /\ state'[q] = "UNUSED"
       /\ \E c \in Cpus : cproc[c] = parent[q] /\ waitLock = c]_vars

(* What ProcTree sees of the process table.                                *)
LifeOf == [UNUSED |-> "none", USED |-> "embryo", SLEEPING |-> "live",
           RUNNABLE |-> "live", RUNNING |-> "live", ZOMBIE |-> "dead"]

Life == [p \in Procs |-> LifeOf[state[p]]]

Tree == INSTANCE ProcTree WITH life <- Life, par <- parent

(* The table behaves as the family of processes that ProcTree describes:   *)
(* locks, preemption, kills and failures in fork() or wait() do not show.  *)
TreeSpec == Tree!Spec

(* exit() of init stops init for good.                                     *)
InitPanicked == pc[initproc] = "panicked"

(* A RUNNABLE process is run in the end: scheduler() goes round the table  *)
(* and does not restart at the front after a process gave up the CPU.      *)
RunnableRuns ==
  \A p \in Procs : state[p] = "RUNNABLE" ~> state[p] = "RUNNING" \/ InitPanicked

InWait(p) == pc[p] \in {"wait", "wait_scan", "wait_sleep", "wait_slept"}

(* wait() returns once a child is a ZOMBIE.                                *)
WaitReturns ==
  \A p \in Procs :
    InWait(p) /\ (\E q \in Procs : parent[q] = p /\ state[q] = "ZOMBIE")
      ~> ~InWait(p) \/ InitPanicked

(* An UNUSED entry is as freeproc() left it, not marked for killing:       *)
(* allocproc() does not clear p->killed.                                   *)
UnusedNotKilled == \A p \in Procs : state[p] = "UNUSED" => ~killed[p]

(* "Wake process from sleep()": a process that is killed while it is in    *)
(* wait() does not stay there.                                             *)
KilledLeavesWait ==
  \A p \in Procs : InWait(p) /\ killed[p] ~> ~InWait(p) \/ InitPanicked

=============================================================================
