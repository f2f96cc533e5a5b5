--------------------------------- MODULE Cpu ---------------------------------
(***************************************************************************)
(* Interrupts on the CPUs: push_off() and pop_off() of kernel/spinlock.c,  *)
(* the trap handlers of kernel/trap.c with the clock, and the code that    *)
(* they interrupt: the schedulers, and processes in sys_sleep() and        *)
(* sys_uptime().                                                           *)
(*                                                                         *)
(* A context is a process, or the scheduler of a CPU.  It has a place in   *)
(* its own code, pc, and one in the trap handler that has interrupted it,  *)
(* tr.  Where it acquires a lock, one step turns interrupts off, and the   *)
(* next one, which has to find the lock free, takes it and does what       *)
(* follows; a lock that is released in the same step is never seen taken.  *)
(* intena is FALSE while noff is 0 and it says nothing.  The clock is what *)
(* it is to a sleeper: the ticks since its ticks0, up to those it waits    *)
(* for.                                                                    *)
(***************************************************************************)
EXTENDS Naturals, FiniteSets

CONSTANTS
  NCPU, NTHREAD,   \* CPUs 0 .. NCPU - 1 and processes 1 .. NTHREAD
  Sleepers,        \* the processes that call sys_sleep() and may be killed;
                   \* the others call sys_uptime()
  MaxTicks,        \* the longest sys_sleep()
  Null

ASSUME CpuAssumption == NCPU \in Nat /\ NTHREAD \in Nat \ {0} /\ MaxTicks \in Nat /\ Null \notin Nat

Cpus == 0 .. NCPU - 1
Threads == 1 .. NTHREAD
Ticks == 0                    \* tickslock; the lock of process p is p
Locks == {Ticks} \cup Threads

Sched(c) == NTHREAD + 1 + c    \* the scheduler of c, as a context
Contexts == Threads \cup {Sched(c) : c \in Cpus}

VARIABLES
  noff, intena,    \* struct cpu
  cproc,           \* c->proc
  sie,             \* the interrupt-enable bit of each CPU
  pending,         \* its timer interrupt is pending
  spin,            \* the lock it is spinning for
  lock,            \* the CPU that holds each lock
  pc, tr,          \* the contexts
  sidx,            \* the scheduler's position
  widx,            \* the position of clockintr()'s wakeup()
  pstate, pkilled, \* struct proc
  saved,           \* sched()'s intena
  left             \* how many ticks each process still waits for

intrVars == <<noff, intena, sie, spin, lock>>
where == <<cproc, pc, tr, sidx, widx>>
sleepVars == <<pstate, pkilled, saved, left>>
cpuVars == <<intrVars, where, pending, sleepVars>>

-----------------------------------------------------------------------------
(* spinlock.c                                                              *)

PushOff(c) ==
  /\ intena' = IF noff[c] = 0 THEN [intena EXCEPT ![c] = sie[c]] ELSE intena
  /\ noff' = [noff EXCEPT ![c] = @ + 1]
  /\ sie' = [sie EXCEPT ![c] = FALSE]

(* pop_off() when c->intena is i.                                          *)
PopOff(c, i) ==
  /\ noff' = [noff EXCEPT ![c] = @ - 1]
  /\ sie' = [sie EXCEPT ![c] = @ \/ (noff[c] = 1 /\ i)]
  /\ intena' = [intena EXCEPT ![c] = i /\ noff[c] > 1]

Acquire(c, l) == PushOff(c) /\ spin' = [spin EXCEPT ![c] = l] /\ UNCHANGED lock

(* The end of the loop of acquire(): the lock is free, and taken ...       *)
Free(c) == spin[c] # Null /\ lock[spin[c]] = Null
Take(c) ==
  /\ lock' = [lock EXCEPT ![spin[c]] = c]
  /\ spin' = [spin EXCEPT ![c] = Null]
  /\ UNCHANGED <<noff, intena, sie>>

(* ... or taken and released.                                              *)
Pass(c) ==
  /\ spin' = [spin EXCEPT ![c] = Null]
  /\ PopOff(c, intena[c])
  /\ UNCHANGED lock

Release(c, l) ==
  /\ lock' = [lock EXCEPT ![l] = Null]
  /\ PopOff(c, intena[c])
  /\ UNCHANGED spin

-----------------------------------------------------------------------------
(* What runs on c, and where it is.                                        *)

Cur(c) == IF cproc[c] = Null THEN Sched(c) ELSE cproc[c]
Main(c, x, l) == Cur(c) = x /\ tr[x] = "none" /\ pc[x] = l
InTrap(c, l) == tr[Cur(c)] = l

GoMain(x, l) == pc' = [pc EXCEPT ![x] = l] /\ UNCHANGED <<cproc, tr, sidx, widx>>
GoTrap(c, l) == tr' = [tr EXCEPT ![Cur(c)] = l] /\ UNCHANGED <<cproc, pc, sidx, widx>>

(* sched(): intena is kept on the kernel stack of p ...                    *)
Swtch(c, p) ==
  /\ saved' = [saved EXCEPT ![p] = intena[c]]
  /\ cproc' = [cproc EXCEPT ![c] = Null]

(* Mutant: the CPU's intena is used.                                      *)
SchedReturnCpus(c, p) ==
  /\ lock' = [lock EXCEPT ![p] = Null]
  /\ PopOff(c, intena[c])
  /\ saved' = [saved EXCEPT ![p] = FALSE]
  /\ UNCHANGED spin

(* ... and restored when p runs again; then p->lock is released.           *)
SchedReturn(c, p) ==
  /\ lock' = [lock EXCEPT ![p] = Null]
  /\ PopOff(c, saved[p])
  /\ saved' = [saved EXCEPT ![p] = FALSE]
  /\ UNCHANGED spin

-----------------------------------------------------------------------------
(* scheduler()                                                             *)

IntrOn(c) ==
  /\ Main(c, Sched(c), "on")
  /\ sie' = [sie EXCEPT ![c] = TRUE]
  /\ GoMain(Sched(c), "scan")
  /\ UNCHANGED <<noff, intena, spin, lock, pending, sleepVars>>

Scan(c) ==
  /\ Main(c, Sched(c), "scan")
  /\ Acquire(c, sidx[c])
  /\ GoMain(Sched(c), "test")
  /\ UNCHANGED <<pending, sleepVars>>

RunProc(c) ==
  LET p == sidx[c]
  IN /\ Main(c, Sched(c), "test") /\ Free(c) /\ pstate[p] = "runnable"
     /\ Take(c)
     /\ pstate' = [pstate EXCEPT ![p] = "running"]
     /\ cproc' = [cproc EXCEPT ![c] = p]
     /\ pc' = [pc EXCEPT ![Sched(c)] = "back"]
     /\ UNCHANGED <<tr, sidx, widx, pending, pkilled, saved, left>>

SchedNext(c) ==
  /\ sidx' = [sidx EXCEPT ![c] = IF @ = NTHREAD THEN 1 ELSE @ + 1]
  /\ pc' = [pc EXCEPT ![Sched(c)] = IF sidx[c] = NTHREAD THEN "on" ELSE "scan"]
  /\ UNCHANGED <<cproc, tr, widx, pending, sleepVars>>

SkipProc(c) ==
  /\ Main(c, Sched(c), "test") /\ Free(c) /\ pstate[sidx[c]] # "runnable"
  /\ Pass(c)
  /\ SchedNext(c)

Back(c) ==
  /\ Main(c, Sched(c), "back")
  /\ Release(c, sidx[c])
  /\ SchedNext(c)

SchedStep(c) == IntrOn(c) \/ Scan(c) \/ RunProc(c) \/ SkipProc(c) \/ Back(c)

-----------------------------------------------------------------------------
(* A process.  forkret() and the start of a system call.                   *)

Forkret(c, p) ==
  /\ Main(c, p, "forkret")
  /\ Release(c, p)
  /\ GoMain(p, "forked")
  /\ UNCHANGED <<pending, sleepVars>>

(* usertrapret(): in user space the enable bit does not matter.            *)
Usertrapret(c, p) ==
  /\ sie' = [sie EXCEPT ![c] = FALSE]
  /\ UNCHANGED <<noff, intena, spin, lock, pending, sleepVars>>

ForkretReturn(c, p) ==
  /\ Main(c, p, "forked")
  /\ GoMain(p, "user")
  /\ Usertrapret(c, p)

(* usertrap() of an ecall; killed() takes and releases p->lock.             *)
Ecall(c, p) ==
  /\ Main(c, p, "user") /\ lock[p] = Null
  /\ IF pkilled[p] THEN GoMain(p, "exit") /\ UNCHANGED sie
     ELSE sie' = [sie EXCEPT ![c] = TRUE] /\ GoMain(p, "call")
  /\ UNCHANGED <<noff, intena, spin, lock, pending, sleepVars>>

CallReturn(c, p) ==
  /\ Main(c, p, "ret") /\ lock[p] = Null
  /\ IF pkilled[p] THEN GoMain(p, "exit") /\ UNCHANGED <<intrVars, pending, sleepVars>>
     ELSE GoMain(p, "user") /\ Usertrapret(c, p)

(* exit() from its acquire(&p->lock) on.  It holds wait_lock too, which    *)
(* nobody waits for here, and lets it go before sched(); module Proc has   *)
(* that lock.                                                              *)
ExitAcquire(c, p) ==
  /\ Main(c, p, "exit")
  /\ Acquire(c, p)
  /\ GoMain(p, "exiting")
  /\ UNCHANGED <<pending, sleepVars>>

Exited(c, p) ==
  /\ Main(c, p, "exiting") /\ Free(c)
  /\ Take(c)
  /\ pstate' = [pstate EXCEPT ![p] = "zombie"]
  /\ pc' = [pc EXCEPT ![p] = "gone"]
  /\ Swtch(c, p)
  /\ UNCHANGED <<tr, sidx, widx, pending, pkilled, left>>

(* kill() by another process.                                              *)
KillSleeper(p) ==
  /\ p \in Sleepers /\ ~pkilled[p] /\ lock[p] = Null /\ pstate[p] # "zombie"
  /\ pkilled' = [pkilled EXCEPT ![p] = TRUE]
  /\ pstate' = [pstate EXCEPT ![p] = IF @ = "sleeping" THEN "runnable" ELSE @]
  /\ UNCHANGED <<intrVars, where, pending, saved, left>>

-----------------------------------------------------------------------------
(* sys_uptime() and sys_sleep()                                            *)

CallTicks(c, p) ==
  /\ Main(c, p, "call")
  /\ Acquire(c, Ticks)
  /\ GoMain(p, IF p \in Sleepers THEN "sys_sleep" ELSE "uptime")
  /\ UNCHANGED <<pending, sleepVars>>

Uptime(c, p) ==
  /\ Main(c, p, "uptime") /\ Free(c)
  /\ Pass(c)
  /\ GoMain(p, "ret")
  /\ UNCHANGED <<pending, sleepVars>>

(* The loop, with k ticks still to wait for: return, or go on to sleep().  *)
(* killed() takes and releases p->lock.                                    *)
SleepReturn(c, p, k) ==
  /\ k = 0 \/ (lock[p] = Null /\ pkilled[p])
  /\ Pass(c)
  /\ left' = [left EXCEPT ![p] = 0]
  /\ GoMain(p, "ret")

SleepAgain(c, p, k) ==
  /\ k > 0 /\ lock[p] = Null /\ ~pkilled[p]
  /\ Take(c)
  /\ left' = [left EXCEPT ![p] = k]
  /\ GoMain(p, "sleep")

SleepLoop(c, p, k) ==
  /\ Free(c)
  /\ SleepReturn(c, p, k) \/ SleepAgain(c, p, k)
  /\ UNCHANGED <<pending, pstate, pkilled, saved>>

SysSleep(c, p) == Main(c, p, "sys_sleep") /\ \E n \in 0 .. MaxTicks : SleepLoop(c, p, n)

(* sleep(): p->lock is taken before tickslock is released.                 *)
Sleep(c, p) ==
  /\ Main(c, p, "sleep")
  /\ Acquire(c, p)
  /\ GoMain(p, "sleeping")
  /\ UNCHANGED <<pending, sleepVars>>

Sleeping(c, p) ==
  /\ Main(c, p, "sleeping") /\ Free(c)
  /\ lock' = [lock EXCEPT ![p] = c, ![Ticks] = Null]
  /\ spin' = [spin EXCEPT ![c] = Null]
  /\ PopOff(c, intena[c])
  /\ GoMain(p, "asleep")
  /\ UNCHANGED <<pending, sleepVars>>

Asleep(c, p) ==
  /\ Main(c, p, "asleep")
  /\ pstate' = [pstate EXCEPT ![p] = "sleeping"]
  /\ pc' = [pc EXCEPT ![p] = "slept"]
  /\ Swtch(c, p)
  /\ UNCHANGED <<intrVars, tr, sidx, widx, pending, pkilled, left>>

Slept(c, p) ==
  /\ Main(c, p, "slept")
  /\ SchedReturn(c, p)
  /\ GoMain(p, "woken")
  /\ UNCHANGED <<pending, pstate, pkilled, left>>

Reacquire(c, p) ==
  /\ Main(c, p, "woken")
  /\ Acquire(c, Ticks)
  /\ GoMain(p, "loop")
  /\ UNCHANGED <<pending, sleepVars>>

Loop(c, p) == Main(c, p, "loop") /\ SleepLoop(c, p, left[p])

ThreadStep(c, p) ==
  \/ Forkret(c, p) \/ ForkretReturn(c, p) \/ Ecall(c, p) \/ CallReturn(c, p)
  \/ ExitAcquire(c, p) \/ Exited(c, p) \/ CallTicks(c, p) \/ Uptime(c, p)
  \/ SysSleep(c, p) \/ Loop(c, p) \/ Sleep(c, p) \/ Sleeping(c, p) \/ Asleep(c, p)
  \/ Slept(c, p) \/ Reacquire(c, p)

-----------------------------------------------------------------------------
(* The timer: timervec raises a software interrupt.                        *)

Timer(c) ==
  /\ ~pending[c]
  /\ pending' = [pending EXCEPT ![c] = TRUE]
  /\ UNCHANGED <<intrVars, where, sleepVars>>

(* devintr() acknowledges it.  A process then yields, in kerneltrap() and, *)
(* if it has not been killed, in usertrap().                                *)
Ack(c) ==
  /\ pending' = [pending EXCEPT ![c] = FALSE]
  /\ GoTrap(c, IF cproc[c] = Null THEN "return" ELSE "which")

(* It is taken in user space, and in the kernel if interrupts are on.      *)
(* Only CPU 0 keeps the clock; the others acknowledge it at once.          *)
Trap(c) ==
  LET x == Cur(c)
  IN /\ pending[c] /\ tr[x] = "none"
     /\ sie[c] \/ pc[x] = "user"
     /\ sie' = [sie EXCEPT ![c] = FALSE]
     /\ IF c = 0 THEN GoTrap(c, "clock") /\ UNCHANGED pending ELSE Ack(c)
     /\ UNCHANGED <<noff, intena, spin, lock, sleepVars>>

(* clockintr()                                                             *)
Clock(c) ==
  /\ InTrap(c, "clock")
  /\ Acquire(c, Ticks)
  /\ GoTrap(c, "tick")
  /\ UNCHANGED <<pending, sleepVars>>

Tick(c) ==
  /\ InTrap(c, "tick") /\ Free(c)
  /\ Take(c)
  /\ left' = [p \in Threads |-> IF left[p] > 0 THEN left[p] - 1 ELSE 0]
  /\ GoTrap(c, "wakeup")
  /\ UNCHANGED <<pending, pstate, pkilled, saved>>

(* Mutant: wakeup() does not acquire p->lock.                              *)
WakeupUnlocked(c) ==
  LET q == widx
  IN /\ InTrap(c, "wakeup") /\ q <= NTHREAD
     /\ pstate' = [pstate EXCEPT ![q] = IF q # Cur(c) /\ @ = "sleeping" THEN "runnable" ELSE @]
     /\ widx' = q + 1
     /\ UNCHANGED <<intrVars, cproc, pc, tr, sidx, pending, pkilled, saved, left>>

WakeupNext(c) ==
  LET q == widx
  IN /\ InTrap(c, "wakeup") /\ q <= NTHREAD
     /\ q = Cur(c) \/ lock[q] = Null
     /\ pstate' = [pstate EXCEPT ![q] = IF q # Cur(c) /\ @ = "sleeping" THEN "runnable" ELSE @]
     /\ widx' = q + 1
     /\ UNCHANGED <<intrVars, cproc, pc, tr, sidx, pending, pkilled, saved, left>>

Tock(c) ==
  /\ InTrap(c, "wakeup") /\ widx > NTHREAD
  /\ Release(c, Ticks)
  /\ pending' = [pending EXCEPT ![c] = FALSE]
  /\ tr' = [tr EXCEPT ![Cur(c)] = IF cproc[c] = Null THEN "return" ELSE "which"]
  /\ widx' = 1
  /\ UNCHANGED <<cproc, pc, sidx, sleepVars>>

TrapExit(c) ==
  LET p == cproc[c]
  IN /\ InTrap(c, "which") /\ pc[p] = "user" /\ lock[p] = Null /\ pkilled[p]
     /\ tr' = [tr EXCEPT ![p] = "none"]
     /\ pc' = [pc EXCEPT ![p] = "exit"]
     /\ UNCHANGED <<intrVars, cproc, sidx, widx, pending, sleepVars>>

YieldAcquire(c) ==
  LET p == cproc[c]
  IN /\ InTrap(c, "which") /\ (pc[p] = "user" => lock[p] = Null /\ ~pkilled[p])
     /\ Acquire(c, p)
     /\ GoTrap(c, "yield")
     /\ UNCHANGED <<pending, sleepVars>>

Yield(c) ==
  LET p == cproc[c]
  IN /\ InTrap(c, "yield") /\ Free(c)
     /\ Take(c)
     /\ pstate' = [pstate EXCEPT ![p] = "runnable"]
     /\ tr' = [tr EXCEPT ![p] = "yielded"]
     /\ Swtch(c, p)
     /\ UNCHANGED <<pc, sidx, widx, pending, pkilled, left>>

Yielded(c) ==
  /\ InTrap(c, "yielded")
  /\ SchedReturn(c, cproc[c])
  /\ GoTrap(c, "return")
  /\ UNCHANGED <<pending, pstate, pkilled, left>>

(* The end of kerneltrap(), which restores sstatus, or usertrapret().      *)
TrapReturn(c) ==
  /\ InTrap(c, "return")
  /\ sie' = [sie EXCEPT ![c] = pc[Cur(c)] # "user"]
  /\ GoTrap(c, "none")
  /\ UNCHANGED <<noff, intena, spin, lock, pending, sleepVars>>

TrapStep(c) ==
  \/ Clock(c) \/ Tick(c) \/ WakeupNext(c) \/ Tock(c) \/ TrapExit(c)
  \/ YieldAcquire(c) \/ Yield(c) \/ Yielded(c) \/ TrapReturn(c)

-----------------------------------------------------------------------------
(* main() has started the schedulers, and each process is ready to run for *)
(* the first time.                                                         *)
CpuInit ==
  /\ noff = [c \in Cpus |-> 0] /\ intena = [c \in Cpus |-> FALSE]
  /\ sie = [c \in Cpus |-> FALSE] /\ pending = [c \in Cpus |-> FALSE]
  /\ cproc = [c \in Cpus |-> Null] /\ spin = [c \in Cpus |-> Null]
  /\ lock = [l \in Locks |-> Null]
  /\ pc = [x \in Contexts |-> IF x \in Threads THEN "forkret" ELSE "on"]
  /\ tr = [x \in Contexts |-> "none"]
  /\ sidx = [c \in Cpus |-> 1] /\ widx = 1
  /\ pstate = [p \in Threads |-> "runnable"]
  /\ pkilled = [p \in Threads |-> FALSE] /\ saved = [p \in Threads |-> FALSE]
  /\ left = [p \in Threads |-> 0]

CpuNext ==
  \/ \E c \in Cpus : SchedStep(c) \/ Timer(c) \/ Trap(c) \/ TrapStep(c)
  \/ \E c \in Cpus, p \in Threads : ThreadStep(c, p)
  \/ \E p \in Threads : KillSleeper(p)

CpuSpec == CpuInit /\ [][CpuNext]_cpuVars

-----------------------------------------------------------------------------
(* Properties.                                                             *)

(* Interrupts are off exactly as long as they have to be.  noff counts the *)
(* locks that the CPU holds or spins for; while there is one, and in a     *)
(* trap handler, interrupts are off, although a process that yielded in a  *)
(* handler may go on, on another CPU, after a scheduler that had them on;  *)
(* and a system call, which was entered with interrupts on, has them on    *)
(* whenever it holds no lock, although it may have slept and gone on after *)
(* a process that had them off.  So no CPU spins for a lock that it holds  *)
(* itself, as one would that is interrupted between acquire() and          *)
(* release().                                                              *)
CallPcs == {"call", "uptime", "sys_sleep", "sleep", "sleeping", "asleep", "woken", "loop",
            "ret"}

IntrExact ==
  \A c \in Cpus :
    LET x == Cur(c)
        off == noff[c] > 0
    IN /\ noff[c] = Cardinality({l \in Locks : lock[l] = c}) + (IF spin[c] = Null THEN 0 ELSE 1)
       /\ spin[c] # Null => lock[spin[c]] # c
       /\ off \/ tr[x] # "none" => ~sie[c]
       /\ off /\ tr[x] \notin {"none", "yielded"} => ~intena[c]
       /\ tr[x] = "none" /\ pc[x] \in CallPcs => IF off THEN intena[c] ELSE sie[c]

(* No tick is lost on a sleeper: a process that sleeps in sys_sleep() has  *)
(* ticks to wait for, or the clockintr() that counted the last of them has *)
(* yet to come to it.  tickslock keeps the clock out from the test of the  *)
(* loop until p->lock is held, and wakeup() waits for p->lock.             *)
TickWakes ==
  \A p \in Threads :
    pstate[p] = "sleeping" /\ left[p] = 0 =>
      \E c \in Cpus : InTrap(c, "wakeup") /\ widx <= p
=============================================================================
