------------------------------ MODULE CpuProofs ------------------------------
(***************************************************************************)
(* Proofs about interrupts and the clock for any number of CPUs and        *)
(* processes.  Where a context is determines how many locks its CPU holds  *)
(* or spins for, and which; a step of one CPU leaves what is said about    *)
(* the others alone.                                                       *)
(***************************************************************************)
EXTENDS Cpu, TLAPS

(* The labels of a scheduler, a process and a trap handler.                *)
SchedPcs == {"on", "scan", "test", "back"}
ThreadPcs == {"forkret", "forked", "user", "call", "uptime", "sys_sleep", "sleep", "sleeping", "asleep",
              "slept", "woken", "loop", "ret", "exit", "exiting", "gone"}
TrapPcs == {"none", "clock", "tick", "wakeup", "which", "yield", "yielded", "return"}

(* Where a context is, in its own code or in the handler.                  *)
Place(x) == IF tr[x] = "none" THEN pc[x] ELSE tr[x]
At(c) == Place(Cur(c))

(* Whose lock a scheduler or a process takes.                              *)
Own(c) == IF cproc[c] = Null THEN sidx[c] ELSE cproc[c]

IntrType ==
  /\ noff \in [Cpus -> Nat] /\ intena \in [Cpus -> BOOLEAN] /\ sie \in [Cpus -> BOOLEAN]
  /\ spin \in [Cpus -> Locks \cup {Null}] /\ lock \in [Locks -> Cpus \cup {Null}]
WhereType ==
  /\ cproc \in [Cpus -> Threads \cup {Null}] /\ sidx \in [Cpus -> Threads]
  /\ widx \in 1 .. NTHREAD + 1
  /\ pc \in [Contexts -> SchedPcs \cup ThreadPcs] /\ tr \in [Contexts -> TrapPcs]
SleepType ==
  /\ pstate \in [Threads -> {"runnable", "running", "sleeping", "zombie"}]
  /\ pkilled \in [Threads -> BOOLEAN] /\ saved \in [Threads -> BOOLEAN]
  /\ left \in [Threads -> Nat]
TypeOK == IntrType /\ WhereType /\ SleepType

(* Where tickslock, the lock of a process, is held and spun for.           *)
TicksPcs == {"wakeup", "sleep", "sleeping"}
OwnPcs == {"back", "forkret", "asleep", "slept", "yielded"}
SpinTicksPcs == {"tick", "uptime", "sys_sleep", "loop"}
SpinOwnPcs == {"test", "yield", "sleeping", "exiting"}

Depth(l) == IF l = "sleeping" THEN 2
            ELSE IF l \in TicksPcs \cup OwnPcs \cup SpinTicksPcs \cup SpinOwnPcs THEN 1 ELSE 0

(* The locks that are held at l, and the one that is spun for, by a CPU    *)
(* that works with the lock o.                                             *)
HeldAt(l, o) == IF l \in TicksPcs THEN {Ticks} ELSE IF l \in OwnPcs THEN {o} ELSE {}
SpunAt(l, o) == IF l \in SpinTicksPcs THEN Ticks ELSE IF l \in SpinOwnPcs THEN o ELSE Null

LockOK(c) ==
  /\ noff[c] = Depth(At(c))
  /\ spin[c] = SpunAt(At(c), Own(c))
  /\ \A l \in Locks : lock[l] = c <=> l \in HeldAt(At(c), Own(c))

(* Whether interrupts are, or will be, on.                                 *)
IntrOK(c) ==
  /\ noff[c] > 0 \/ tr[Cur(c)] # "none" => ~sie[c]
  /\ noff[c] > 0 /\ tr[Cur(c)] \notin {"none", "yielded"} => ~intena[c]
  /\ tr[Cur(c)] = "none" /\ pc[Cur(c)] \in CallPcs => IF noff[c] > 0 THEN intena[c] ELSE sie[c]

(* A handler interrupts code that holds no lock; what sched() has saved.   *)
ContextOK(x) ==
  /\ IF x \in Threads THEN pc[x] \in ThreadPcs
     ELSE pc[x] \in SchedPcs /\ tr[x] \notin {"which", "yield", "yielded"}
  /\ tr[x] # "none" => Depth(pc[x]) = 0

SavedOK(p) ==
  /\ Place(p) = "yielded" => ~saved[p]
  /\ Place(p) = "slept" => saved[p]

(* A process runs on one CPU, whose scheduler waits for it.                *)
RunOK ==
  /\ \A c, d \in Cpus : cproc[c] = cproc[d] /\ cproc[c] # Null => c = d
  /\ \A p \in Threads : pstate[p] = "running" <=> \E c \in Cpus : cproc[c] = p
  /\ \A c \in Cpus : cproc[c] # Null => sidx[c] = cproc[c] /\ Place(Sched(c)) = "back"
  /\ \A p \in Threads : pstate[p] = "runnable" => Place(p) \in {"forkret", "slept", "yielded"}
  /\ \A p \in Threads : pstate[p] = "sleeping" => Place(p) = "slept"
  /\ \A p \in Threads : pstate[p] = "zombie" => Place(p) = "gone"

(* The clock and the sleepers.                                             *)
Passing(p) == \E c \in Cpus : At(c) = "wakeup" /\ widx <= p
TickOK ==
  /\ widx # 1 => \E c \in Cpus : At(c) = "wakeup"
  /\ \A p \in Threads : Place(p) \in {"sleep", "sleeping"} => left[p] > 0
  /\ \A p \in Threads : (Place(p) = "asleep" \/ pstate[p] = "sleeping") /\ left[p] = 0 => Passing(p)

(* Locks, interrupts and contexts, CPU by CPU.                             *)
CpuOK ==
  /\ \A c \in Cpus : LockOK(c) /\ IntrOK(c)
  /\ \A x \in Contexts : ContextOK(x)
  /\ \A p \in Threads : SavedOK(p)

IInv == TypeOK /\ RunOK /\ TickOK /\ CpuOK

-----------------------------------------------------------------------------
(* Processes, schedulers and locks are numbered apart.                     *)
LEMMA ConstFacts ==
    /\ Null \notin Threads /\ Null \notin Cpus /\ Null \notin Locks /\ Null \notin Contexts
    /\ Threads \subseteq Contexts /\ Threads \subseteq Locks /\ Ticks \in Locks /\ Ticks \notin Threads
    /\ \A l \in Locks : l = Ticks \/ l \in Threads
    /\ \A c \in Cpus : Sched(c) \in Contexts /\ Sched(c) \notin Threads
    /\ \A c, d \in Cpus : Sched(c) = Sched(d) => c = d
    /\ \A p \in Threads : (p = NTHREAD \/ p + 1 \in Threads) /\ p \in 1 .. NTHREAD + 1
    /\ 1 \in Threads /\ 1 \in 1 .. NTHREAD + 1
  <1>1. \A c \in Cpus : c \in Nat
    BY SMTT(60), CpuAssumption DEF Cpus
  <1>2. Null \notin Threads /\ Null \notin Cpus /\ Null \notin Locks
    BY SMTT(60), CpuAssumption, <1>1 DEF Threads, Locks, Ticks
  <1>3. \A c \in Cpus : Sched(c) \in Nat /\ Sched(c) \notin Threads
    BY SMTT(60), CpuAssumption, <1>1 DEF Threads, Sched
  <1>4. \A c, d \in Cpus : Sched(c) = Sched(d) => c = d
    BY SMTT(60), CpuAssumption, <1>1 DEF Sched
  <1>5. Null \notin Contexts
    BY Zenon, CpuAssumption, <1>2, <1>3 DEF Contexts
  <1>6. /\ Threads \subseteq Contexts /\ Threads \subseteq Locks /\ Ticks \in Locks
        /\ \A l \in Locks : l = Ticks \/ l \in Threads
        /\ \A c \in Cpus : Sched(c) \in Contexts
    BY Zenon DEF Contexts, Locks
  <1>7. /\ Ticks \notin Threads
        /\ \A p \in Threads : (p = NTHREAD \/ p + 1 \in Threads) /\ p \in 1 .. NTHREAD + 1
        /\ 1 \in Threads /\ 1 \in 1 .. NTHREAD + 1
    BY SMTT(60), CpuAssumption DEF Threads, Ticks
  <1> QED
    BY Zenon, <1>2, <1>3, <1>4, <1>5, <1>6, <1>7

(* No two CPUs run the same context.                                       *)
LEMMA CurFacts ==
    ASSUME TypeOK, RunOK
    PROVE  /\ \A c \in Cpus : /\ Cur(c) \in Contexts
                              /\ cproc[c] = Null => Cur(c) = Sched(c)
                              /\ cproc[c] # Null => cproc[c] \in Threads /\ Cur(c) = cproc[c]
           /\ \A c, d \in Cpus : Cur(c) = Cur(d) => c = d
  <1>1. cproc \in [Cpus -> Threads \cup {Null}]
    BY Zenon DEF TypeOK, WhereType, SleepType
  <1>2. \A c, d \in Cpus : cproc[c] = cproc[d] /\ cproc[c] # Null => c = d
    BY Zenon DEF RunOK
  <1>3. \A c \in Cpus : /\ cproc[c] = Null => Cur(c) = Sched(c)
                        /\ cproc[c] # Null => cproc[c] \in Threads /\ Cur(c) = cproc[c]
    BY Zenon, <1>1 DEF Cur
  <1>4. \A c \in Cpus : Cur(c) \in Contexts
    BY Zenon, <1>3, ConstFacts
  <1>5. \A c, d \in Cpus : Cur(c) = Cur(d) => c = d
    <2>0. \A c \in Cpus : Sched(c) \notin Threads
      BY Zenon, ConstFacts
    <2> TAKE c, d \in Cpus
    <2>1. CASE cproc[c] = Null /\ cproc[d] = Null
      BY Zenon, <2>1, <1>3, ConstFacts
    <2>2. CASE cproc[c] # Null /\ cproc[d] # Null
      BY Zenon, <2>2, <1>2, <1>3
    <2>3. CASE cproc[c] = Null /\ cproc[d] # Null
      BY Zenon, <2>0, <2>3, <1>3
    <2>4. CASE cproc[c] # Null /\ cproc[d] = Null
      BY Zenon, <2>0, <2>4, <1>3
    <2> QED
      BY Zenon, <2>1, <2>2, <2>3, <2>4
  <1> QED
    BY Zenon, <1>3, <1>4, <1>5

(* A step on c is not seen on the other CPUs, nor by the contexts that c   *)
(* does not run.                                                           *)
Frame(c) ==
  /\ \A d \in Cpus \ {c} :
       /\ cproc'[d] = cproc[d] /\ sidx'[d] = sidx[d] /\ noff'[d] = noff[d]
       /\ intena'[d] = intena[d] /\ sie'[d] = sie[d] /\ spin'[d] = spin[d]
       /\ \A l \in Locks : lock'[l] = d <=> lock[l] = d
  /\ \A x \in Contexts \ {Cur(c)} : pc'[x] = pc[x] /\ tr'[x] = tr[x]
  /\ \A q \in Threads \ {Cur(c)} : saved'[q] = saved[q]

(* What a step on c has to show for c and the context that runs there.     *)
Mine(c) ==
  /\ LockOK(c)' /\ IntrOK(c)'
  /\ \A x \in Contexts : x = Cur(c) => ContextOK(x)'
  /\ \A q \in Threads : q = Cur(c) => SavedOK(q)'

(* So a step on c has to be looked at on c alone.                          *)
LEMMA FrameKeeps ==
    ASSUME TypeOK, RunOK, CpuOK, NEW c \in Cpus, Frame(c), Mine(c)
    PROVE  CpuOK'
  <1>1. ASSUME NEW d \in Cpus, d # c PROVE LockOK(d)' /\ IntrOK(d)'
    <2>1. Cur(d) \in Contexts \ {Cur(c)} /\ Cur(d)' = Cur(d) /\ Own(d)' = Own(d)
      BY Zenon, <1>1, CurFacts DEF Frame, Cur, Own
    <2>2. /\ tr'[Cur(d)] = tr[Cur(d)] /\ pc'[Cur(d)] = pc[Cur(d)]
          /\ tr'[Cur(d)'] = tr[Cur(d)] /\ pc'[Cur(d)'] = pc[Cur(d)]
      BY Zenon, <2>1 DEF Frame
    <2>3. At(d)' = At(d)
      BY Zenon, <2>2 DEF At, Place
    <2>4. LockOK(d) /\ IntrOK(d)
      BY Zenon DEF CpuOK
    <2>5. /\ noff'[d] = noff[d] /\ intena'[d] = intena[d] /\ sie'[d] = sie[d] /\ spin'[d] = spin[d]
          /\ \A l \in Locks : lock'[l] = d <=> lock[l] = d
      BY Zenon, <1>1 DEF Frame
    <2>6. LockOK(d)'
      BY SMTT(60), <2>1, <2>3, <2>4, <2>5, ConstFacts DEF LockOK
    <2>7. IntrOK(d)'
      BY SMTT(60), <2>2, <2>4, <2>5 DEF IntrOK
    <2> QED
      BY Zenon, <2>6, <2>7
  <1>2. ASSUME NEW x \in Contexts, x # Cur(c) PROVE ContextOK(x)'
    <2>1. pc'[x] = pc[x] /\ tr'[x] = tr[x] /\ ContextOK(x)
      BY Zenon, <1>2 DEF Frame, CpuOK
    <2> QED
      BY SMTT(60), <2>1 DEF ContextOK
  <1>3. ASSUME NEW q \in Threads, q # Cur(c) PROVE SavedOK(q)'
    <2>1. pc'[q] = pc[q] /\ tr'[q] = tr[q] /\ saved'[q] = saved[q] /\ SavedOK(q)
      BY Zenon, <1>3, ConstFacts DEF Frame, CpuOK
    <2> QED
      BY SMTT(60), <2>1 DEF SavedOK, Place
  <1> QED
    BY Zenon, <1>1, <1>2, <1>3 DEF Mine, CpuOK

(* The parts of the invariant.                                             *)
LEMMA Parts ==
    ASSUME IInv
    PROVE  TypeOK /\ RunOK /\ TickOK /\ CpuOK /\ IntrType /\ WhereType /\ SleepType
  BY Zenon DEF IInv, TypeOK

(* What the invariant says of c at a place l, with the context x and the   *)
(* lock o.                                                                 *)
Now(c, x, l, o) ==
  /\ Cur(c) = x /\ At(c) = l /\ Own(c) = o /\ o \in Threads
  /\ noff[c] = Depth(l) /\ spin[c] = SpunAt(l, o)
  /\ \A m \in Locks : lock[m] = c <=> m \in HeldAt(l, o)
  /\ IntrOK(c) /\ ContextOK(x)

(* Own is the lock of a process.                                           *)
LEMMA NowFacts ==
    ASSUME IInv, NEW c \in Cpus PROVE Now(c, Cur(c), At(c), Own(c)) /\ Cur(c) \in Contexts
  <1>1. WhereType /\ CpuOK /\ Cur(c) \in Contexts
    BY Zenon, Parts, CurFacts
  <1>2. Own(c) \in Threads
    BY Zenon, <1>1 DEF Own, WhereType
  <1> QED
    BY Zenon, <1>1, <1>2 DEF Now, CpuOK, LockOK

(* The scheduler of c is at l.                                             *)
LEMMA SchedAt ==
    ASSUME IInv, NEW c \in Cpus, NEW l, Main(c, Sched(c), l)
    PROVE  /\ Now(c, Sched(c), l, sidx[c])
           /\ cproc[c] = Null /\ tr[Sched(c)] = "none" /\ pc[Sched(c)] = l
  <1>0. Sched(c) \notin Threads
    BY Zenon, ConstFacts
  <1>1. cproc[c] = Null /\ Cur(c) = Sched(c) /\ tr[Sched(c)] = "none" /\ pc[Sched(c)] = l
    BY Zenon, <1>0, Parts, CurFacts DEF Main
  <1>2. At(c) = l /\ Own(c) = sidx[c]
    BY Zenon, <1>1 DEF At, Place, Own
  <1> QED
    BY Zenon, <1>1, <1>2, NowFacts

(* The process p is at l on c.                                             *)
LEMMA ThreadAt ==
    ASSUME IInv, NEW c \in Cpus, NEW p \in Threads, NEW l, Main(c, p, l)
    PROVE  Now(c, p, l, p) /\ cproc[c] = p /\ tr[p] = "none" /\ pc[p] = l /\ Place(p) = l
  <1>1. cproc[c] = p /\ Cur(c) = p /\ tr[p] = "none" /\ pc[p] = l
    BY Zenon, Parts, CurFacts, ConstFacts DEF Main
  <1>2. At(c) = l /\ Own(c) = p /\ Place(p) = l
    BY Zenon, <1>1, ConstFacts DEF At, Place, Own
  <1> QED
    BY Zenon, <1>1, <1>2, NowFacts

(* A trap handler is at l on c.                                            *)
LEMMA TrapAt ==
    ASSUME IInv, NEW c \in Cpus, NEW l, InTrap(c, l), l # "none"
    PROVE  /\ Now(c, Cur(c), l, Own(c)) /\ tr[Cur(c)] = l
           /\ Cur(c) \in Contexts /\ (cproc[c] # Null <=> Cur(c) \in Threads)
           /\ l \in {"which", "yield", "yielded"} =>
                Cur(c) \in Threads /\ cproc[c] = Cur(c) /\ Own(c) = Cur(c)
  <1>1. tr[Cur(c)] = l /\ At(c) = l
    BY Zenon DEF InTrap, At, Place
  <1>2. /\ Cur(c) \in Contexts /\ (cproc[c] # Null <=> Cur(c) \in Threads)
        /\ cproc[c] # Null => cproc[c] = Cur(c) /\ Own(c) = Cur(c)
    BY Zenon, Parts, CurFacts, ConstFacts DEF Own
  <1>3. l \in {"which", "yield", "yielded"} => Cur(c) \in Threads
    BY Zenon, <1>1, NowFacts DEF Now, ContextOK
  <1> QED
    BY Zenon, <1>1, <1>2, <1>3, NowFacts

(* The scheduler of a CPU that runs p waits for it.                        *)
LEMMA SchedWaits ==
    ASSUME IInv, NEW c \in Cpus, cproc[c] # Null
    PROVE  sidx[c] = cproc[c] /\ tr[Sched(c)] = "none" /\ pc[Sched(c)] = "back"
  <1>1. sidx[c] = cproc[c] /\ Place(Sched(c)) = "back"
    BY Zenon, Parts DEF RunOK
  <1>2. tr[Sched(c)] \in TrapPcs
    BY Zenon, Parts, ConstFacts DEF WhereType
  <1>3. tr[Sched(c)] = "none"
    BY SMTT(60), <1>1, <1>2 DEF Place, TrapPcs
  <1> QED
    BY Zenon, <1>1, <1>3 DEF Place

-----------------------------------------------------------------------------
(* What the primitives do to the CPU, the locks and the place.             *)

(* c holds the locks H.                                                    *)
Holds(c, H) == \A l \in Locks : lock[l] = c <=> l \in H

(* noff, intena, the enable bit and the lock that is spun for become n, i, *)
(* s and m, the locks held H, and the other CPUs see nothing of it.        *)
IntrFrame(c) ==
  \A d \in Cpus \ {c} :
    /\ noff'[d] = noff[d] /\ intena'[d] = intena[d] /\ sie'[d] = sie[d] /\ spin'[d] = spin[d]
    /\ \A l \in Locks : lock'[l] = d <=> lock[l] = d
IntrNow(c, n, i, s, m, H) ==
  /\ noff'[c] = n /\ (intena'[c] <=> i) /\ (sie'[c] <=> s) /\ spin'[c] = m
  /\ \A l \in Locks : lock'[l] = c <=> l \in H
IntrStep(c, n, i, s, m, H) == IntrType' /\ IntrFrame(c) /\ IntrNow(c, n, i, s, m, H)

(* acquire() before it has the lock, the first one and a second one.      *)
LEMMA AcquireIs ==
    ASSUME IntrType, NEW c \in Cpus, NEW H, Holds(c, H), NEW l \in Locks, Acquire(c, l), noff[c] = 0
    PROVE  IntrStep(c, 1, sie[c], FALSE, l, H)
  <1>1. IntrType'
    BY SMTT(60) DEF IntrType, Acquire, PushOff
  <1>2. IntrFrame(c)
    BY SMTT(60) DEF IntrType, Acquire, PushOff, IntrFrame
  <1>3. IntrNow(c, 1, sie[c], FALSE, l, H)
    BY SMTT(60) DEF IntrType, Acquire, PushOff, IntrNow, Holds
  <1> QED
    BY Zenon, <1>1, <1>2, <1>3 DEF IntrStep

(* push_off() with interrupts off already.                                 *)
LEMMA AcquireMoreIs ==
    ASSUME IntrType, NEW c \in Cpus, NEW H, Holds(c, H), NEW l \in Locks, Acquire(c, l), noff[c] = 1
    PROVE  IntrStep(c, 2, intena[c], FALSE, l, H)
  <1>1. IntrType'
    BY SMTT(60) DEF IntrType, Acquire, PushOff
  <1>2. IntrFrame(c)
    BY SMTT(60) DEF IntrType, Acquire, PushOff, IntrFrame
  <1>3. IntrNow(c, 2, intena[c], FALSE, l, H)
    BY SMTT(60) DEF IntrType, Acquire, PushOff, IntrNow, Holds
  <1> QED
    BY Zenon, <1>1, <1>2, <1>3 DEF IntrStep

(* It has the lock.                                                        *)
LEMMA TakeIs ==
    ASSUME IntrType, NEW c \in Cpus, Holds(c, {}), NEW m, spin[c] = m, noff[c] = 1, Free(c), Take(c)
    PROVE  IntrStep(c, 1, intena[c], sie[c], Null, {m})
  <1>0. spin[c] \in Locks /\ Null \notin Cpus /\ lock[spin[c]] = Null
    <2>1. spin[c] \in Locks \cup {Null} /\ spin[c] # Null /\ lock[spin[c]] = Null
      BY Zenon DEF IntrType, Free
    <2> QED
      BY Zenon, <2>1, ConstFacts
  <1>1. IntrType'
    BY SMTT(60), <1>0 DEF IntrType, Take
  <1>2. IntrFrame(c)
    BY SMTT(60), <1>0 DEF IntrType, Take, IntrFrame
  <1>3. IntrNow(c, 1, intena[c], sie[c], Null, {m})
    BY SMTT(60), <1>0 DEF IntrType, Take, IntrNow, Holds
  <1> QED
    BY Zenon, <1>1, <1>2, <1>3 DEF IntrStep

(* It has the lock and has released it.                                    *)
LEMMA PassIs ==
    ASSUME IntrType, NEW c \in Cpus, NEW H, Holds(c, H), noff[c] = 1, Pass(c)
    PROVE  IntrStep(c, 0, FALSE, sie[c] \/ intena[c], Null, H)
  <1>1. IntrType'
    BY SMTT(60) DEF IntrType, Pass, PopOff
  <1>2. IntrFrame(c)
    BY SMTT(60) DEF IntrType, Pass, PopOff, IntrFrame
  <1>3. IntrNow(c, 0, FALSE, sie[c] \/ intena[c], Null, H)
    <2>1. /\ intena'[c] = (intena[c] /\ noff[c] > 1)
          /\ sie'[c] = (sie[c] \/ (noff[c] = 1 /\ intena[c]))
      BY Zenon DEF IntrType, Pass, PopOff
    <2>2. noff'[c] = 0 /\ ~(1 > 1)
      BY SMTT(60) DEF IntrType, Pass, PopOff
    <2>3. spin'[c] = Null /\ \A l \in Locks : lock'[l] = c <=> l \in H
      BY SMTT(60) DEF IntrType, Pass, Holds
    <2> QED
      BY Zenon, <2>1, <2>2, <2>3 DEF IntrNow
  <1> QED
    BY Zenon, <1>1, <1>2, <1>3 DEF IntrStep

(* release() of the only lock, when c->intena is i.                        *)
LEMMA ReleaseIs ==
    ASSUME IntrType, NEW c \in Cpus, NEW l \in Locks, Holds(c, {l}), noff[c] = 1, spin[c] = Null,
           NEW i \in BOOLEAN, lock' = [lock EXCEPT ![l] = Null], PopOff(c, i), UNCHANGED spin
    PROVE  IntrStep(c, 0, FALSE, sie[c] \/ i, Null, {})
  <1>0. lock[l] = c /\ Null \notin Cpus
    BY Zenon, ConstFacts DEF Holds
  <1>1. IntrType'
    BY SMTT(60), <1>0 DEF IntrType, PopOff
  <1>2. IntrFrame(c)
    BY SMTT(60), <1>0 DEF IntrType, PopOff, IntrFrame
  <1>3. IntrNow(c, 0, FALSE, sie[c] \/ i, Null, {})
    <2>1. /\ intena'[c] = (i /\ noff[c] > 1) /\ sie'[c] = (sie[c] \/ (noff[c] = 1 /\ i))
      BY Zenon DEF IntrType, PopOff
    <2>2. noff'[c] = 0 /\ ~(1 > 1)
      BY SMTT(60) DEF IntrType, PopOff
    <2>3. spin'[c] = Null /\ \A k \in Locks : lock'[k] = c <=> k \in {}
      BY SMTT(60), <1>0 DEF IntrType, Holds
    <2> QED
      BY Zenon, <2>1, <2>2, <2>3 DEF IntrNow
  <1> QED
    BY Zenon, <1>1, <1>2, <1>3 DEF IntrStep

(* Interrupts are turned on or off.                                        *)
LEMMA SieIs ==
    ASSUME IntrType, NEW c \in Cpus, NEW H, Holds(c, H), NEW n, noff[c] = n,
           NEW m, spin[c] = m, NEW s \in BOOLEAN, sie' = [sie EXCEPT ![c] = s], UNCHANGED <<noff, intena, spin, lock>>
    PROVE  IntrStep(c, n, intena[c], s, m, H)
  <1>1. IntrType'
    BY SMTT(60) DEF IntrType
  <1>2. IntrFrame(c)
    BY SMTT(60) DEF IntrType, IntrFrame
  <1>3. IntrNow(c, n, intena[c], s, m, H)
    BY SMTT(60) DEF IntrType, IntrNow, Holds
  <1> QED
    BY Zenon, <1>1, <1>2, <1>3 DEF IntrStep

(* Nothing changes.                                                        *)
LEMMA SameIs ==
    ASSUME IntrType, NEW c \in Cpus, NEW H, Holds(c, H), NEW n, noff[c] = n,
           NEW m, spin[c] = m, UNCHANGED intrVars
    PROVE  IntrStep(c, n, intena[c], sie[c], m, H)
  BY Zenon DEF IntrType, IntrStep, IntrFrame, IntrNow, Holds, intrVars

(* The context x goes to l in its own code and to t in the handler.        *)
WhereFrame(c, x) ==
  /\ \A d \in Cpus \ {c} : cproc'[d] = cproc[d] /\ sidx'[d] = sidx[d]
  /\ \A y \in Contexts \ {x} : pc'[y] = pc[y] /\ tr'[y] = tr[y]
WhereStep(c, x, l, t) == WhereType' /\ WhereFrame(c, x) /\ pc'[x] = l /\ tr'[x] = t

(* The context x goes to l of its main code.                               *)
LEMMA GoMainIs ==
    ASSUME WhereType, NEW c \in Cpus, NEW x \in Contexts, NEW l \in SchedPcs \cup ThreadPcs,
           GoMain(x, l)
    PROVE  WhereStep(c, x, l, tr[x]) /\ UNCHANGED <<cproc, sidx, widx>>
  <1>1. /\ UNCHANGED <<cproc, sidx, widx, tr>> /\ pc' = [pc EXCEPT ![x] = l]
        /\ pc \in [Contexts -> SchedPcs \cup ThreadPcs]
    BY Zenon DEF GoMain, WhereType
  <1>2. /\ pc' \in [Contexts -> SchedPcs \cup ThreadPcs] /\ pc'[x] = l
        /\ \A y \in Contexts \ {x} : pc'[y] = pc[y]
    BY SMTT(60), <1>1
  <1> QED
    BY Zenon, <1>1, <1>2 DEF WhereType, WhereFrame, WhereStep

(* The context x goes to l of its trap handler.                            *)
LEMMA GoTrapIs ==
    ASSUME WhereType, NEW c \in Cpus, NEW x \in Contexts, x = Cur(c), NEW l \in TrapPcs,
           GoTrap(c, l)
    PROVE  WhereStep(c, x, pc[x], l) /\ UNCHANGED <<cproc, sidx, widx>>
  <1>1. /\ UNCHANGED <<cproc, sidx, widx, pc>> /\ tr' = [tr EXCEPT ![x] = l]
        /\ tr \in [Contexts -> TrapPcs]
    BY Zenon DEF GoTrap, WhereType
  <1>2. /\ tr' \in [Contexts -> TrapPcs] /\ tr'[x] = l
        /\ \A y \in Contexts \ {x} : tr'[y] = tr[y]
    BY SMTT(60), <1>1
  <1> QED
    BY Zenon, <1>1, <1>2 DEF WhereType, WhereFrame, WhereStep

(* What sched() saves is changed for the context of c at most.             *)
SleepStep(c) == SleepType' /\ \A q \in Threads \ {Cur(c)} : saved'[q] = saved[q]

(* So the parts of a step make its frame.                                  *)
LEMMA FrameIs ==
    ASSUME NEW c \in Cpus, IntrFrame(c), WhereFrame(c, Cur(c)), SleepStep(c)
    PROVE  Frame(c)
  BY Zenon DEF Frame, IntrFrame, WhereFrame, SleepStep

-----------------------------------------------------------------------------
(* A context that c does not run stays where it is, and so does what runs  *)
(* on another CPU.                                                         *)
LEMMA PlaceSame ==
    ASSUME TypeOK, RunOK, NEW c \in Cpus, Frame(c)
    PROVE  /\ \A x \in Contexts : x # Cur(c) => Place(x)' = Place(x)
           /\ \A d \in Cpus : d # c => At(d)' = At(d)
  <1>1. \A x \in Contexts : x # Cur(c) => Place(x)' = Place(x)
    BY Zenon DEF Frame, Place
  <1>2. ASSUME NEW d \in Cpus, d # c PROVE At(d)' = At(d)
    <2>0. cproc'[d] = cproc[d]
      BY Zenon, <1>2 DEF Frame
    <2>1. Cur(d) \in Contexts \ {Cur(c)} /\ Cur(d)' = Cur(d)
      <3>1. Cur(d) \in Contexts \ {Cur(c)}
        BY Zenon, <1>2, CurFacts
      <3> QED
        BY Zenon, <2>0, <3>1 DEF Cur
    <2> QED
      <3>1. /\ tr'[Cur(d)] = tr[Cur(d)] /\ pc'[Cur(d)] = pc[Cur(d)]
            /\ tr'[Cur(d)'] = tr[Cur(d)] /\ pc'[Cur(d)'] = pc[Cur(d)]
        BY Zenon, <2>1 DEF Frame
      <3> QED
        BY Zenon, <3>1 DEF At, Place
  <1> QED
    BY Zenon, <1>1, <1>2

(* The scheduler of a CPU that runs a process waits, and a process that is *)
(* not running is on no CPU.                                               *)
LEMMA NotRun ==
    ASSUME TypeOK, RunOK, NEW c \in Cpus
    PROVE  /\ \A d \in Cpus : cproc[d] # Null => Sched(d) # Cur(c)
           /\ \A p \in Threads : pstate[p] # "running" => p # Cur(c) /\ cproc[c] # p
  <1>1. ASSUME NEW d \in Cpus, cproc[d] # Null PROVE Sched(d) # Cur(c)
    <2>1. Sched(d) \notin Threads /\ (Sched(d) = Sched(c) => d = c)
      BY Zenon, ConstFacts
    <2> QED
      BY Zenon, <1>1, <2>1, CurFacts
  <1>2. ASSUME NEW p \in Threads, pstate[p] # "running" PROVE p # Cur(c) /\ cproc[c] # p
    <2>1. cproc[c] # p
      BY Zenon, <1>2 DEF RunOK
    <2> QED
      BY Zenon, <2>1, CurFacts, ConstFacts
  <1> QED
    BY Zenon, <1>1, <1>2

(* The three things that p->state says about where p is.                   *)
StateAt(s, l) ==
  /\ s = "runnable" => l \in {"forkret", "slept", "yielded"}
  /\ s = "sleeping" => l = "slept"
  /\ s = "zombie" => l = "gone"

(* RunOK in parts.                                                         *)
LEMMA RunParts == RunOK => \A p \in Threads : StateAt(pstate[p], Place(p))
  BY Zenon DEF RunOK, StateAt

(* RunOK from its parts, in the state after a step.                        *)
LEMMA RunMade ==
    ASSUME \A c, d \in Cpus : cproc'[c] = cproc'[d] /\ cproc'[c] # Null => c = d,
           \A p \in Threads : pstate'[p] = "running" <=> \E c \in Cpus : cproc'[c] = p,
           \A c \in Cpus : cproc'[c] # Null => sidx'[c] = cproc'[c] /\ Place(Sched(c))' = "back",
           \A p \in Threads : StateAt(pstate'[p], Place(p)')
    PROVE  RunOK'
  <1>1. /\ \A p \in Threads : pstate'[p] = "runnable" => Place(p)' \in {"forkret", "slept", "yielded"}
        /\ \A p \in Threads : pstate'[p] = "sleeping" => Place(p)' = "slept"
        /\ \A p \in Threads : pstate'[p] = "zombie" => Place(p)' = "gone"
    BY Zenon DEF StateAt
  <1> QED
    BY Zenon, <1>1 DEF RunOK

(* A step that switches no context keeps who runs where.                   *)
LEMMA StayKeeps ==
    ASSUME TypeOK, RunOK, NEW c \in Cpus, Frame(c), UNCHANGED <<cproc, pstate>>,
           sidx'[c] = sidx[c] \/ cproc[c] = Null
    PROVE  RunOK'
  <1>1. ASSUME NEW d \in Cpus, cproc[d] # Null
        PROVE  sidx'[d] = cproc[d] /\ Place(Sched(d))' = "back"
    <2>1. sidx[d] = cproc[d] /\ Place(Sched(d)) = "back"
      BY Zenon, <1>1 DEF RunOK
    <2>2. Place(Sched(d))' = Place(Sched(d))
      BY Zenon, <1>1, NotRun, PlaceSame, ConstFacts
    <2>3. sidx'[d] = sidx[d]
      BY Zenon, <1>1 DEF Frame
    <2> QED
      BY Zenon, <2>1, <2>2, <2>3
  <1>2. ASSUME NEW p \in Threads PROVE StateAt(pstate[p], Place(p)')
    <2>1. StateAt(pstate[p], Place(p))
      BY Zenon, RunParts
    <2>2. CASE pstate[p] = "running"
      BY Zenon, <2>2 DEF StateAt
    <2>3. CASE pstate[p] # "running"
      <3>1. Place(p)' = Place(p)
        BY Zenon, <2>3, NotRun, PlaceSame, ConstFacts
      <3> QED
        BY Zenon, <2>1, <3>1
    <2> QED
      BY Zenon, <2>2, <2>3
  <1>3. /\ \A d, e \in Cpus : cproc[d] = cproc[e] /\ cproc[d] # Null => d = e
        /\ \A p \in Threads : pstate[p] = "running" <=> \E d \in Cpus : cproc[d] = p
    BY Zenon DEF RunOK
  <1> QED
    BY Zenon, <1>1, <1>2, <1>3, RunMade

(* A context switch from p to the scheduler.                               *)
LEMMA LeaveKeeps ==
    ASSUME TypeOK, RunOK, NEW c \in Cpus, NEW p \in Threads, cproc[c] = p, Frame(c), UNCHANGED sidx,
           NEW s, s # "running", StateAt(s, Place(p)'),
           cproc' = [cproc EXCEPT ![c] = Null], pstate' = [pstate EXCEPT ![p] = s]
    PROVE  RunOK'
  <1>t. cproc \in [Cpus -> Threads \cup {Null}]
        /\ pstate \in [Threads -> {"runnable", "running", "sleeping", "zombie"}]
    BY Zenon DEF TypeOK, WhereType, SleepType
  <1>0. /\ \A d, e \in Cpus : cproc[d] = cproc[e] /\ cproc[d] # Null => d = e
        /\ \A q \in Threads : pstate[q] = "running" <=> \E d \in Cpus : cproc[d] = q
    BY Zenon DEF RunOK
  <1>n. Null \notin Threads
    BY Zenon, ConstFacts
  <1>1. ASSUME NEW d \in Cpus, cproc'[d] # Null
        PROVE  sidx'[d] = cproc'[d] /\ Place(Sched(d))' = "back"
    <2>1. cproc'[d] = cproc[d] /\ cproc[d] # Null
      BY SMTT(60), <1>1, <1>t
    <2>2. sidx[d] = cproc[d] /\ Place(Sched(d)) = "back"
      BY Zenon, <2>1 DEF RunOK
    <2>3. Place(Sched(d))' = Place(Sched(d))
      BY Zenon, <2>1, NotRun, PlaceSame, ConstFacts
    <2> QED
      BY Zenon, <2>1, <2>2, <2>3
  <1>2. ASSUME NEW q \in Threads PROVE StateAt(pstate'[q], Place(q)')
    <2>1. CASE q = p
      BY SMTT(60), <2>1, <1>t
    <2>2. CASE q # p
      <3>1. pstate'[q] = pstate[q] /\ StateAt(pstate[q], Place(q))
        BY Zenon, <2>2, <1>t, RunParts
      <3>2. CASE pstate[q] = "running"
        BY Zenon, <3>1, <3>2 DEF StateAt
      <3>3. CASE pstate[q] # "running"
        <4>1. Place(q)' = Place(q)
          BY Zenon, <3>3, NotRun, PlaceSame, ConstFacts
        <4> QED
          BY Zenon, <3>1, <4>1
      <3> QED
        BY Zenon, <3>2, <3>3
    <2> QED
      BY Zenon, <2>1, <2>2
  <1>3. /\ \A d, e \in Cpus : cproc'[d] = cproc'[e] /\ cproc'[d] # Null => d = e
        /\ \A q \in Threads : pstate'[q] = "running" <=> \E d \in Cpus : cproc'[d] = q
    BY SMTT(60), <1>0, <1>t, <1>n
  <1> QED
    BY Zenon, <1>1, <1>2, <1>3, RunMade

(* The scheduler runs the process at sidx.                                 *)
LEMMA EnterKeeps ==
    ASSUME TypeOK, RunOK, NEW c \in Cpus, RunProc(c), Frame(c)
    PROVE  RunOK'
  <1>t. /\ cproc \in [Cpus -> Threads \cup {Null}] /\ sidx \in [Cpus -> Threads]
        /\ pstate \in [Threads -> {"runnable", "running", "sleeping", "zombie"}]
        /\ pc \in [Contexts -> SchedPcs \cup ThreadPcs]
    BY Zenon DEF TypeOK, WhereType, SleepType
  <1>n. Null \notin Threads /\ Sched(c) \in Contexts /\ Sched(c) \notin Threads
    BY Zenon, ConstFacts
  <1>p. PICK p \in Threads : p = sidx[c]
    BY Zenon, <1>t
  <1>0. /\ \A d, e \in Cpus : cproc[d] = cproc[e] /\ cproc[d] # Null => d = e
        /\ \A q \in Threads : pstate[q] = "running" <=> \E d \in Cpus : cproc[d] = q
    BY Zenon DEF RunOK
  <1>f. /\ cproc' = [cproc EXCEPT ![c] = p] /\ pstate' = [pstate EXCEPT ![p] = "running"]
        /\ pstate[p] = "runnable" /\ UNCHANGED <<tr, sidx>> /\ tr[Sched(c)] = "none"
        /\ pc' = [pc EXCEPT ![Sched(c)] = "back"] /\ cproc[c] = Null
    <2>1. cproc[c] = Null
      BY Zenon, <1>n, CurFacts DEF RunProc, Main
    <2> QED
      BY Zenon, <1>p, <2>1 DEF RunProc, Main
  <1>1. ASSUME NEW d \in Cpus, cproc'[d] # Null
        PROVE  sidx'[d] = cproc'[d] /\ Place(Sched(d))' = "back"
    <2>1. CASE d = c
      <3>1. sidx'[d] = cproc'[d] /\ tr'[Sched(d)] = "none" /\ pc'[Sched(d)] = "back"
        BY SMTT(60), <2>1, <1>t, <1>n, <1>p, <1>f
      <3> QED
        BY Zenon, <3>1 DEF Place
    <2>2. CASE d # c
      <3>1. cproc'[d] = cproc[d] /\ cproc[d] # Null
        BY SMTT(60), <1>1, <1>t, <1>f, <2>2
      <3>2. sidx[d] = cproc[d] /\ Place(Sched(d)) = "back"
        BY Zenon, <3>1 DEF RunOK
      <3>3. Place(Sched(d))' = Place(Sched(d))
        BY Zenon, <3>1, NotRun, PlaceSame, ConstFacts
      <3> QED
        BY Zenon, <1>f, <3>1, <3>2, <3>3
    <2> QED
      BY Zenon, <2>1, <2>2
  <1>2. ASSUME NEW q \in Threads PROVE StateAt(pstate'[q], Place(q)')
    <2>1. CASE pstate'[q] = "running"
      BY Zenon, <2>1 DEF StateAt
    <2>2. CASE pstate'[q] # "running"
      <3>1. pstate'[q] = pstate[q]
        BY SMTT(60), <1>t, <1>f, <2>2
      <3>2. Place(q)' = Place(q) /\ StateAt(pstate[q], Place(q))
        BY Zenon, <2>2, <3>1, NotRun, PlaceSame, ConstFacts, RunParts
      <3> QED
        BY Zenon, <3>1, <3>2
    <2> QED
      BY Zenon, <2>1, <2>2
  <1>3. \A d \in Cpus : cproc[d] # p
    BY Zenon, <1>0, <1>f
  <1>4. /\ \A d, e \in Cpus : cproc'[d] = cproc'[e] /\ cproc'[d] # Null => d = e
        /\ \A q \in Threads : pstate'[q] = "running" <=> \E d \in Cpus : cproc'[d] = q
    <2>1. cproc'[c] = p /\ pstate'[p] = "running"
      BY SMTT(60), <1>f, <1>t
    <2>2. \A d \in Cpus : d # c => cproc'[d] = cproc[d]
      BY SMTT(60), <1>f, <1>t
    <2>3. \A q \in Threads : q # p => pstate'[q] = pstate[q]
      BY SMTT(60), <1>f, <1>t
    <2>4. cproc[c] = Null
      BY Zenon, <1>f
    <2>5. ASSUME NEW q \in Threads PROVE pstate'[q] = "running" <=> \E d \in Cpus : cproc'[d] = q
      <3>1. CASE q = p
        BY Zenon, <2>1, <3>1
      <3>2. CASE q # p
        <4>1. ASSUME NEW d \in Cpus PROVE cproc[d] = q <=> cproc'[d] = q
          <5>1. CASE d = c
            BY Zenon, <1>n, <2>1, <2>4, <3>2, <5>1
          <5>2. CASE d # c
            BY Zenon, <2>2, <5>2
          <5> QED
            BY Zenon, <5>1, <5>2
        <4>2. pstate'[q] = pstate[q] /\ (pstate[q] = "running" <=> \E d \in Cpus : cproc[d] = q)
          BY Zenon, <1>0, <2>3, <3>2
        <4> QED
          BY Zenon, <4>1, <4>2
      <3> QED
        BY Zenon, <3>1, <3>2
    <2>6. \A d, e \in Cpus : cproc'[d] = cproc'[e] /\ cproc'[d] # Null => d = e
      <3> SUFFICES ASSUME NEW d \in Cpus, NEW e \in Cpus, cproc'[d] = cproc'[e], cproc'[d] # Null
                   PROVE  d = e
        BY Zenon
      <3>1. CASE d = c
        BY Zenon, <1>3, <2>1, <2>2, <3>1
      <3>2. CASE e = c
        BY Zenon, <1>3, <2>1, <2>2, <3>2
      <3>3. CASE d # c /\ e # c
        BY SMTT(60), <1>0, <2>2, <3>3
      <3> QED
        BY Zenon, <3>1, <3>2, <3>3
    <2> QED
      BY Zenon, <2>5, <2>6
  <1> QED
    BY Zenon, <1>1, <1>2, <1>4, RunMade

(* wakeup() and kill() make a sleeper runnable.                            *)
LEMMA WakeKeeps ==
    ASSUME TypeOK, RunOK, UNCHANGED <<cproc, sidx, pc, tr>>,
           \A q \in Threads : \/ pstate'[q] = pstate[q]
                              \/ pstate[q] = "sleeping" /\ pstate'[q] = "runnable"
    PROVE  RunOK'
  <1>1. \A x : Place(x)' = Place(x)
    BY Zenon DEF Place
  <1>2. /\ \A d, e \in Cpus : cproc'[d] = cproc'[e] /\ cproc'[d] # Null => d = e
        /\ \A q \in Threads : pstate'[q] = "running" <=> \E d \in Cpus : cproc'[d] = q
        /\ \A d \in Cpus : cproc'[d] # Null => sidx'[d] = cproc'[d] /\ Place(Sched(d))' = "back"
    <2>1. /\ \A d, e \in Cpus : cproc[d] = cproc[e] /\ cproc[d] # Null => d = e
          /\ \A q \in Threads : pstate[q] = "running" <=> \E d \in Cpus : cproc[d] = q
          /\ \A d \in Cpus : cproc[d] # Null => sidx[d] = cproc[d] /\ Place(Sched(d)) = "back"
      BY Zenon DEF RunOK
    <2>2. \A q \in Threads : pstate'[q] = "running" <=> pstate[q] = "running"
      BY Zenon
    <2> QED
      <3>1. \A q \in Threads : pstate'[q] = "running" <=> \E d \in Cpus : cproc'[d] = q
        BY SMTT(60), <2>1, <2>2
      <3>2. \A d \in Cpus : cproc'[d] # Null => sidx'[d] = cproc'[d] /\ Place(Sched(d))' = "back"
        BY SMTT(60), <1>1, <2>1
      <3>3. \A d, e \in Cpus : cproc'[d] = cproc'[e] /\ cproc'[d] # Null => d = e
        BY SMTT(60), <2>1
      <3> QED
        BY Zenon, <3>1, <3>2, <3>3
  <1>3. \A q \in Threads : StateAt(pstate'[q], Place(q)')
    BY Zenon, <1>1, RunParts DEF StateAt
  <1> QED
    BY Zenon, <1>1, <1>2, <1>3, RunMade

-----------------------------------------------------------------------------
(* The clock and the sleepers.                                             *)

(* A step that is not of clockintr()'s wakeup, and puts nobody to sleep.   *)
TickFrame(c) ==
  /\ UNCHANGED widx /\ At(c) # "wakeup"
  /\ \A p \in Threads :
       /\ p # Cur(c) => left'[p] = left[p]
       /\ p = Cur(c) => (Place(p)' \in {"sleep", "sleeping", "asleep"} => left'[p] > 0)
       /\ pstate'[p] = "sleeping" => pstate[p] = "sleeping"

(* Such a step leaves the sleepers their ticks or their wakeup.            *)
LEMMA TickFrameKeeps ==
    ASSUME TypeOK, RunOK, TickOK, NEW c \in Cpus, Frame(c), TickFrame(c)
    PROVE  TickOK'
  <1>t. left \in [Threads -> Nat]
    BY Zenon DEF TypeOK, WhereType, SleepType
  <1>0. \A d \in Cpus : At(d) = "wakeup" => At(d)' = "wakeup"
    BY Zenon, PlaceSame DEF TickFrame
  <1>1. widx' # 1 => \E d \in Cpus : At(d)' = "wakeup"
    BY Zenon, <1>0 DEF TickFrame, TickOK
  <1>2. ASSUME NEW p \in Threads, Place(p)' \in {"sleep", "sleeping"} PROVE left'[p] > 0
    <2>1. CASE p = Cur(c)
      BY Zenon, <1>2, <2>1 DEF TickFrame
    <2>2. CASE p # Cur(c)
      <3>1. Place(p)' = Place(p) /\ left'[p] = left[p]
        BY Zenon, <2>2, PlaceSame, ConstFacts DEF TickFrame
      <3> QED
        BY Zenon, <1>2, <3>1 DEF TickOK
    <2> QED
      BY Zenon, <2>1, <2>2
  <1>3. ASSUME NEW p \in Threads, Place(p)' = "asleep" \/ pstate'[p] = "sleeping", left'[p] = 0
        PROVE  Passing(p)'
    <2>1. p # Cur(c)
      <3>1. CASE pstate'[p] = "sleeping"
        BY Zenon, <3>1, NotRun DEF TickFrame
      <3>2. CASE Place(p)' = "asleep"
        <4>1. ~(0 > 0)
          BY SMTT(60)
        <4> QED
          BY Zenon, <1>3, <3>2, <4>1 DEF TickFrame
      <3> QED
        BY Zenon, <1>3, <3>1, <3>2
    <2>2. Place(p)' = Place(p) /\ left'[p] = left[p]
      BY Zenon, <2>1, PlaceSame, ConstFacts DEF TickFrame
    <2>3. Passing(p)
      BY Zenon, <1>3, <2>2 DEF TickOK, TickFrame
    <2> QED
      BY Zenon, <2>3, <1>0 DEF Passing, TickFrame
  <1> QED
    BY Zenon, <1>1, <1>2, <1>3 DEF TickOK

(* Who holds tickslock, or the lock of a process that goes to sleep, is    *)
(* known from where it is.                                                 *)
LEMMA HolderFacts ==
    ASSUME TypeOK, RunOK, CpuOK
    PROVE  /\ \A d \in Cpus : At(d) \in TicksPcs => lock[Ticks] = d
           /\ \A p \in Threads : Place(p) \in {"sleep", "sleeping", "asleep"} =>
                \E d \in Cpus : cproc[d] = p /\ At(d) = Place(p)
           /\ \A p \in Threads : Place(p) \in {"sleep", "sleeping"} => lock[Ticks] # Null
           /\ \A p \in Threads : Place(p) = "asleep" => lock[p] # Null
  <1>c. Null \notin Cpus /\ Null \notin Threads /\ Ticks \in Locks /\ Threads \subseteq Locks
    BY Zenon, ConstFacts
  <1>1. ASSUME NEW d \in Cpus, At(d) \in TicksPcs PROVE lock[Ticks] = d
    <2>1. LockOK(d)
      BY Zenon DEF CpuOK
    <2> QED
      BY Zenon, <1>c, <1>1, <2>1 DEF LockOK, HeldAt
  <1>2. ASSUME NEW p \in Threads, Place(p) \in {"sleep", "sleeping", "asleep"}
        PROVE  \E d \in Cpus : cproc[d] = p /\ At(d) = Place(p)
    <2>1. pstate[p] \in {"runnable", "running", "sleeping", "zombie"}
          /\ StateAt(pstate[p], Place(p))
      BY Zenon, RunParts DEF TypeOK, WhereType, SleepType
    <2>2. pstate[p] = "running"
      BY SMTT(60), <1>2, <2>1 DEF StateAt
    <2>3. PICK d \in Cpus : cproc[d] = p
      BY Zenon, <2>2 DEF RunOK
    <2>4. Cur(d) = p
      BY Zenon, <2>3, <1>c, CurFacts
    <2> QED
      BY Zenon, <2>3, <2>4 DEF At
  <1>3. ASSUME NEW p \in Threads, Place(p) \in {"sleep", "sleeping"} PROVE lock[Ticks] # Null
    BY Zenon, <1>c, <1>1, <1>2, <1>3 DEF TicksPcs
  <1>4. ASSUME NEW p \in Threads, Place(p) = "asleep" PROVE lock[p] # Null
    <2>1. PICK d \in Cpus : cproc[d] = p /\ At(d) = "asleep"
      BY Zenon, <1>2, <1>4
    <2>2. LockOK(d)
      BY Zenon DEF CpuOK
    <2>3. Own(d) = p
      BY Zenon, <2>1, <1>c DEF Own
    <2>4. p \in HeldAt("asleep", p)
      BY Zenon DEF HeldAt, TicksPcs, OwnPcs
    <2> QED
      BY Zenon, <1>c, <2>1, <2>2, <2>3, <2>4 DEF LockOK
  <1> QED
    BY Zenon, <1>1, <1>2, <1>3, <1>4

(* sleep() puts p to sleep with ticks to wait for, or with a wakeup to     *)
(* come.                                                                   *)
LEMMA TickAsleep ==
    ASSUME TypeOK, RunOK, TickOK, NEW c \in Cpus, NEW p \in Threads, Asleep(c, p), Frame(c)
    PROVE  TickOK'
  <1>t. pstate \in [Threads -> {"runnable", "running", "sleeping", "zombie"}]
        /\ pc \in [Contexts -> SchedPcs \cup ThreadPcs]
    BY Zenon DEF TypeOK, WhereType, SleepType
  <1>c. Null \notin Threads /\ p \in Contexts
    BY Zenon, ConstFacts
  <1>0. /\ Cur(c) = p /\ tr[p] = "none" /\ pc[p] = "asleep" /\ UNCHANGED <<tr, widx, left>>
        /\ pc' = [pc EXCEPT ![p] = "slept"] /\ pstate' = [pstate EXCEPT ![p] = "sleeping"]
    BY Zenon DEF Asleep, Main
  <1>1. Place(p) = "asleep" /\ Place(p)' = "slept" /\ At(c) = "asleep"
    BY SMTT(60), <1>c, <1>t, <1>0 DEF Place, At
  <1>2. \A d \in Cpus : At(d) = "wakeup" => At(d)' = "wakeup"
    BY Zenon, <1>1, PlaceSame
  <1>3. widx' # 1 => \E d \in Cpus : At(d)' = "wakeup"
    BY Zenon, <1>0, <1>2 DEF TickOK
  <1>4. ASSUME NEW q \in Threads, Place(q)' \in {"sleep", "sleeping"} PROVE left'[q] > 0
    <2>1. q # p
      BY Zenon, <1>1, <1>4
    <2> QED
      BY Zenon, <1>0, <1>4, <2>1, PlaceSame, ConstFacts DEF TickOK
  <1>5. ASSUME NEW q \in Threads, Place(q)' = "asleep" \/ pstate'[q] = "sleeping", left'[q] = 0
        PROVE  Passing(q)'
    <2>1. Place(q) = "asleep" \/ pstate[q] = "sleeping"
      <3>1. CASE q = p
        BY Zenon, <1>1, <3>1
      <3>2. CASE q # p
        <4>1. Place(q)' = Place(q)
          BY Zenon, <1>0, <3>2, PlaceSame, ConstFacts
        <4>2. pstate'[q] = pstate[q]
          BY Zenon, <1>0, <1>t, <3>2
        <4> QED
          BY Zenon, <1>5, <4>1, <4>2
      <3> QED
        BY Zenon, <3>1, <3>2
    <2>2. Passing(q)
      BY Zenon, <1>0, <1>5, <2>1 DEF TickOK
    <2> QED
      BY Zenon, <1>0, <1>2, <2>2 DEF Passing
  <1> QED
    BY Zenon, <1>3, <1>4, <1>5 DEF TickOK

(* clockintr() counts a tick for everyone and starts its wakeup.           *)
LEMMA TickTick ==
    ASSUME TypeOK, RunOK, TickOK, CpuOK, NEW c \in Cpus, Tick(c), Frame(c)
    PROVE  TickOK'
  <1>t. /\ left \in [Threads -> Nat] /\ tr \in [Contexts -> TrapPcs] /\ widx \in 1 .. NTHREAD + 1
        /\ cproc \in [Cpus -> Threads \cup {Null}]
    BY Zenon DEF TypeOK, WhereType, SleepType
  <1>x. PICK x \in Contexts : x = Cur(c)
    BY Zenon, CurFacts
  <1>0. /\ tr[x] = "tick" /\ lock[spin[c]] = Null /\ UNCHANGED <<cproc, pc, widx, pstate>>
        /\ left' = [p \in Threads |-> IF left[p] > 0 THEN left[p] - 1 ELSE 0]
        /\ tr' = [tr EXCEPT ![x] = "wakeup"]
    BY Zenon, <1>x DEF Tick, InTrap, Free, GoTrap
  <1>1. At(c) = "tick" /\ At(c)' = "wakeup" /\ Place(x)' = "wakeup"
    <2>1. Cur(c)' = x /\ tr'[x] = "wakeup"
      BY Zenon, <1>0, <1>t, <1>x DEF Cur
    <2> QED
      BY Zenon, <1>0, <1>x, <2>1 DEF At, Place
  <1>2. lock[Ticks] = Null
    <2>1. LockOK(c)
      BY Zenon DEF CpuOK
    <2>2. SpunAt("tick", Own(c)) = Ticks
      BY Zenon DEF SpunAt, SpinTicksPcs
    <2> QED
      BY Zenon, <1>0, <1>1, <2>1, <2>2 DEF LockOK
  <1>c. Null \notin Cpus
    BY Zenon, ConstFacts
  <1>3. widx = 1
    BY Zenon, <1>2, <1>c, HolderFacts DEF TickOK, TicksPcs
  <1>4. \A p \in Threads : Place(p)' \notin {"sleep", "sleeping"}
    <2> SUFFICES ASSUME NEW p \in Threads, Place(p)' \in {"sleep", "sleeping"} PROVE FALSE
      BY Zenon
    <2>1. p # x
      BY Zenon, <1>1
    <2>2. Place(p) \in {"sleep", "sleeping"}
      BY Zenon, <2>1, <1>x, PlaceSame, ConstFacts
    <2> QED
      BY Zenon, <1>2, <2>2, HolderFacts
  <1>5. \A p \in Threads : widx' <= p
    BY SMTT(60), <1>0, <1>3, CpuAssumption DEF Threads
  <1>6. \A p \in Threads : Passing(p)'
    BY Zenon, <1>1, <1>5 DEF Passing
  <1> QED
    BY Zenon, <1>1, <1>4, <1>6 DEF TickOK

(* wakeup() does not pass over a sleeper.                                  *)
LEMMA TickWakeup ==
    ASSUME TypeOK, RunOK, TickOK, CpuOK, NEW c \in Cpus, WakeupNext(c)
    PROVE  TickOK'
  <1>t. /\ pstate \in [Threads -> {"runnable", "running", "sleeping", "zombie"}]
        /\ widx \in 1 .. NTHREAD + 1
    BY Zenon DEF TypeOK, WhereType, SleepType
  <1>x. PICK x \in Contexts : x = Cur(c)
    BY Zenon, CurFacts
  <1>0. /\ tr[x] = "wakeup" /\ widx <= NTHREAD /\ (widx = x \/ lock[widx] = Null)
        /\ UNCHANGED <<cproc, pc, tr, left>> /\ widx' = widx + 1
        /\ pstate' = [pstate EXCEPT ![widx] = IF widx # x /\ @ = "sleeping" THEN "runnable" ELSE @]
    BY Zenon, <1>x DEF WakeupNext, InTrap
  <1>1. widx \in Threads
    BY SMTT(60), <1>t, <1>0, CpuAssumption DEF Threads
  <1>2. Place(x) = "wakeup" /\ At(c) = "wakeup"
    BY Zenon, <1>0, <1>x DEF At, Place
  <1>3. (\A y : Place(y)' = Place(y)) /\ (\A d : At(d)' = At(d))
    BY Zenon, <1>0 DEF At, Place, Cur
  <1>4. ASSUME NEW p \in Threads, Place(p) = "asleep" \/ pstate'[p] = "sleeping", left[p] = 0
        PROVE  Passing(p)'
    <2>1. Place(p) = "asleep" \/ pstate[p] = "sleeping"
      BY SMTT(60), <1>0, <1>1, <1>t, <1>4
    <2>2. PICK d \in Cpus : At(d) = "wakeup" /\ widx <= p
      BY Zenon, <1>4, <2>1 DEF TickOK, Passing
    <2>3. widx # p
      <3>1. CASE Place(p) = "asleep"
        <4>1. lock[p] # Null /\ p # x
          BY Zenon, <1>2, <3>1, HolderFacts
        <4> QED
          BY Zenon, <1>0, <4>1
      <3>2. CASE pstate'[p] = "sleeping"
        <4>1. SUFFICES ASSUME widx = p PROVE FALSE
          BY Zenon
        <4>2. p = x /\ pstate[p] = "sleeping"
          BY SMTT(60), <1>0, <1>1, <1>t, <3>2, <4>1
        <4> QED
          BY Zenon, <1>x, <4>2, NotRun
      <3> QED
        BY Zenon, <1>4, <3>1, <3>2
    <2>4. widx' <= p
      BY SMTT(60), <1>0, <1>1, <2>2, <2>3 DEF Threads
    <2> QED
      BY Zenon, <1>3, <2>2, <2>4 DEF Passing
  <1>5. widx' # 1 => \E d \in Cpus : At(d)' = "wakeup"
    BY Zenon, <1>2, <1>3
  <1>6. \A p \in Threads : Place(p) \in {"sleep", "sleeping"} => left[p] > 0
    BY Zenon DEF TickOK
  <1> QED
    BY Zenon, <1>0, <1>3, <1>4, <1>5, <1>6 DEF TickOK

(* The wakeup is over: no sleeper is without ticks to wait for.            *)
LEMMA TickTock ==
    ASSUME TypeOK, RunOK, TickOK, NEW c \in Cpus, Tock(c), Frame(c)
    PROVE  TickOK'
  <1>t. widx \in 1 .. NTHREAD + 1 /\ tr \in [Contexts -> TrapPcs]
    BY Zenon DEF TypeOK, WhereType, SleepType
  <1>x. PICK x \in Contexts : x = Cur(c)
    BY Zenon, CurFacts
  <1>0. /\ widx > NTHREAD /\ widx' = 1 /\ UNCHANGED <<left, pstate>>
        /\ tr' = [tr EXCEPT ![x] = IF cproc[c] = Null THEN "return" ELSE "which"]
    BY Zenon, <1>x DEF Tock, sleepVars
  <1>1. Place(x)' \in {"return", "which"}
    BY SMTT(60), <1>t, <1>0 DEF Place
  <1>2. \A p \in Threads : ~(widx <= p)
    BY SMTT(60), <1>t, <1>0, CpuAssumption DEF Threads
  <1>3. \A p \in Threads : ~Passing(p)
    BY Zenon, <1>2 DEF Passing
  <1>4. ASSUME NEW p \in Threads, Place(p)' \in {"sleep", "sleeping", "asleep"}
        PROVE  Place(p) = Place(p)'
    <2>1. p # x
      BY SMTT(60), <1>1, <1>4
    <2> QED
      BY Zenon, <1>x, <2>1, PlaceSame, ConstFacts
  <1>5. \A p \in Threads : Place(p)' \in {"sleep", "sleeping"} => left'[p] > 0
    BY Zenon, <1>0, <1>4 DEF TickOK
  <1>6. \A p \in Threads : ~((Place(p)' = "asleep" \/ pstate'[p] = "sleeping") /\ left'[p] = 0)
    BY Zenon, <1>0, <1>3, <1>4 DEF TickOK
  <1> QED
    BY Zenon, <1>0, <1>5, <1>6 DEF TickOK

(* swtch() and the end of a step of the scheduler's loop.                   *)
LEMMA SwtchIs ==
    ASSUME WhereType, NEW c \in Cpus, NEW x \in Contexts, NEW l \in SchedPcs \cup ThreadPcs,
           NEW v \in Threads \cup {Null}, cproc' = [cproc EXCEPT ![c] = v],
           pc' = [pc EXCEPT ![x] = l], UNCHANGED <<tr, sidx, widx>>
    PROVE  WhereStep(c, x, l, tr[x]) /\ cproc'[c] = v /\ UNCHANGED <<sidx, widx>>
  <1>1. /\ cproc \in [Cpus -> Threads \cup {Null}] /\ pc \in [Contexts -> SchedPcs \cup ThreadPcs]
    BY Zenon DEF WhereType
  <1>2. /\ pc' \in [Contexts -> SchedPcs \cup ThreadPcs] /\ pc'[x] = l
        /\ \A y \in Contexts \ {x} : pc'[y] = pc[y]
    BY SMTT(60), <1>1
  <1>3. /\ cproc' \in [Cpus -> Threads \cup {Null}] /\ cproc'[c] = v
        /\ \A d \in Cpus \ {c} : cproc'[d] = cproc[d]
    BY SMTT(60), <1>1
  <1> QED
    BY Zenon, <1>2, <1>3 DEF WhereType, WhereFrame, WhereStep

(* c takes up v, and the handler of x waits at t.                          *)
LEMMA YieldIs ==
    ASSUME WhereType, NEW c \in Cpus, NEW x \in Contexts, NEW t \in TrapPcs,
           NEW v \in Threads \cup {Null}, cproc' = [cproc EXCEPT ![c] = v],
           tr' = [tr EXCEPT ![x] = t], UNCHANGED <<pc, sidx, widx>>
    PROVE  WhereStep(c, x, pc[x], t) /\ cproc'[c] = v /\ UNCHANGED <<sidx, widx>>
  <1>1. /\ cproc \in [Cpus -> Threads \cup {Null}] /\ tr \in [Contexts -> TrapPcs]
    BY Zenon DEF WhereType
  <1>2. /\ tr' \in [Contexts -> TrapPcs] /\ tr'[x] = t
        /\ \A y \in Contexts \ {x} : tr'[y] = tr[y]
    BY SMTT(60), <1>1
  <1>3. /\ cproc' \in [Cpus -> Threads \cup {Null}] /\ cproc'[c] = v
        /\ \A d \in Cpus \ {c} : cproc'[d] = cproc[d]
    BY SMTT(60), <1>1
  <1> QED
    BY Zenon, <1>2, <1>3 DEF WhereType, WhereFrame, WhereStep

(* scheduler() moves on to the next process of its loop.                   *)
LEMMA SchedNextIs ==
    ASSUME WhereType, NEW c \in Cpus, SchedNext(c)
    PROVE  \E l \in {"on", "scan"} :
             /\ WhereStep(c, Sched(c), l, tr[Sched(c)]) /\ sidx'[c] \in Threads
             /\ UNCHANGED <<cproc, widx>>
  <1>0. /\ \A p \in Threads : p = NTHREAD \/ p + 1 \in Threads
        /\ 1 \in Threads /\ Sched(c) \in Contexts
    BY Zenon, ConstFacts
  <1>l. PICK l \in {"on", "scan"} : l = IF sidx[c] = NTHREAD THEN "on" ELSE "scan"
    BY Zenon
  <1>p. PICK p \in Threads : p = IF sidx[c] = NTHREAD THEN 1 ELSE sidx[c] + 1
    BY Zenon, <1>0 DEF WhereType
  <1>1. /\ sidx \in [Cpus -> Threads] /\ pc \in [Contexts -> SchedPcs \cup ThreadPcs]
        /\ sidx' = [sidx EXCEPT ![c] = p] /\ pc' = [pc EXCEPT ![Sched(c)] = l]
        /\ UNCHANGED <<cproc, tr, widx>>
    BY Zenon, <1>l, <1>p DEF SchedNext, WhereType
  <1>2. l \in SchedPcs \cup ThreadPcs
    BY Zenon, <1>l DEF SchedPcs
  <1>3. /\ pc' \in [Contexts -> SchedPcs \cup ThreadPcs] /\ pc'[Sched(c)] = l
        /\ \A y \in Contexts \ {Sched(c)} : pc'[y] = pc[y]
    BY SMTT(60), <1>0, <1>1, <1>2
  <1>4. /\ sidx' \in [Cpus -> Threads] /\ sidx'[c] = p
        /\ \A d \in Cpus \ {c} : sidx'[d] = sidx[d]
    BY SMTT(60), <1>1
  <1>5. WhereStep(c, Sched(c), l, tr[Sched(c)]) /\ sidx'[c] \in Threads
    BY Zenon, <1>1, <1>3, <1>4 DEF WhereType, WhereFrame, WhereStep
  <1> QED
    BY Zenon, <1>1, <1>5

(* sleep() exchanges tickslock for p->lock.                                *)
LEMMA SleepingIs ==
    ASSUME IntrType, NEW c \in Cpus, NEW p \in Threads, Holds(c, {Ticks}), noff[c] = 2,
           spin[c] = p, Free(c),
           lock' = [lock EXCEPT ![p] = c, ![Ticks] = Null],
           spin' = [spin EXCEPT ![c] = Null], PopOff(c, intena[c])
    PROVE  IntrStep(c, 1, intena[c], sie[c], Null, {p})
  <1>0. /\ p \in Locks /\ Ticks \in Locks /\ p # Ticks /\ Null \notin Cpus
        /\ lock[p] = Null /\ lock[Ticks] = c
    BY Zenon, ConstFacts DEF Free, Holds
  <1>1. IntrType'
    BY SMTT(60), <1>0 DEF IntrType, PopOff
  <1>2. IntrFrame(c)
    BY SMTT(60), <1>0 DEF IntrType, PopOff, IntrFrame
  <1>3. IntrNow(c, 1, intena[c], sie[c], Null, {p})
    <2>1. /\ intena'[c] = (intena[c] /\ noff[c] > 1)
          /\ sie'[c] = (sie[c] \/ (noff[c] = 1 /\ intena[c]))
      BY Zenon DEF IntrType, PopOff
    <2>2. noff'[c] = 1 /\ 2 > 1 /\ 2 # 1
      BY SMTT(60) DEF IntrType, PopOff
    <2>3. spin'[c] = Null /\ \A k \in Locks : lock'[k] = c <=> k \in {p}
      BY SMTT(60), <1>0 DEF IntrType, Holds
    <2>4. (intena'[c] <=> intena[c]) /\ (sie'[c] <=> sie[c])
      BY Zenon, <2>1, <2>2
    <2> QED
      BY Zenon, <2>2, <2>3, <2>4 DEF IntrNow
  <1> QED
    BY Zenon, <1>1, <1>2, <1>3 DEF IntrStep

(* What is left to show of a step on c, once its parts are known.          *)
LEMMA Settle ==
    ASSUME IInv, NEW c \in Cpus, NEW x, Cur(c) = x, SleepStep(c),
           NEW n, NEW i, NEW s, NEW m, NEW H, IntrStep(c, n, i, s, m, H),
           NEW l, NEW t, WhereStep(c, x, l, t),
           LockOK(c)', IntrOK(c)', ContextOK(x)', \A q \in Threads : q = x => SavedOK(q)'
    PROVE  TypeOK' /\ CpuOK' /\ Frame(c) /\ TypeOK /\ RunOK /\ TickOK /\ CpuOK
  <1>1. TypeOK /\ RunOK /\ TickOK /\ CpuOK
    BY Zenon, Parts
  <1>2. Frame(c)
    BY Zenon, FrameIs DEF IntrStep, WhereStep
  <1>3. Mine(c)
    BY Zenon DEF Mine
  <1>4. CpuOK'
    BY Zenon, <1>1, <1>2, <1>3, FrameKeeps
  <1>5. TypeOK'
    BY Zenon DEF TypeOK, IntrStep, WhereStep, SleepStep
  <1> QED
    BY Zenon, <1>1, <1>2, <1>4, <1>5

(* A place where no lock is held or spun for.                              *)
LEMMA CalmRow ==
    ASSUME NEW l, NEW o, Depth(l) = 0 PROVE SpunAt(l, o) = Null /\ HeldAt(l, o) = {}
  BY SMTT(60) DEF Depth, SpunAt, HeldAt, TicksPcs, OwnPcs, SpinTicksPcs, SpinOwnPcs

(* What is held and spun for at the labels.                                *)
CalmPcs == {"on", "scan", "forked", "user", "call", "woken", "ret", "exit", "gone",
            "clock", "which", "return"}

(* No lock is held or spun for.                                            *)
LEMMA CalmRows ==
    ASSUME NEW o, NEW l \in CalmPcs PROVE Depth(l) = 0 /\ SpunAt(l, o) = Null /\ HeldAt(l, o) = {}
  BY SMTT(60) DEF CalmPcs, Depth, SpunAt, HeldAt, TicksPcs, OwnPcs, SpinTicksPcs, SpinOwnPcs

(* tickslock is held.                                                      *)
LEMMA TicksRows ==
    ASSUME NEW o, NEW l \in {"wakeup", "sleep"}
    PROVE  Depth(l) = 1 /\ SpunAt(l, o) = Null /\ HeldAt(l, o) = {Ticks}
  BY SMTT(60) DEF Depth, SpunAt, HeldAt, TicksPcs, OwnPcs, SpinTicksPcs, SpinOwnPcs

(* The lock of the process is held.                                        *)
LEMMA OwnRows ==
    ASSUME NEW o, NEW l \in OwnPcs
    PROVE  Depth(l) = 1 /\ SpunAt(l, o) = Null /\ HeldAt(l, o) = {o}
  BY SMTT(60) DEF Depth, SpunAt, HeldAt, TicksPcs, OwnPcs, SpinTicksPcs, SpinOwnPcs

(* acquire(&tickslock) spins.                                              *)
LEMMA SpinTicksRows ==
    ASSUME NEW o, NEW l \in SpinTicksPcs
    PROVE  Depth(l) = 1 /\ SpunAt(l, o) = Ticks /\ HeldAt(l, o) = {}
  BY SMTT(60) DEF Depth, SpunAt, HeldAt, TicksPcs, OwnPcs, SpinTicksPcs, SpinOwnPcs

(* acquire(&p->lock) spins.                                                *)
LEMMA SpinOwnRows ==
    ASSUME NEW o, NEW l \in {"test", "yield", "exiting"}
    PROVE  Depth(l) = 1 /\ SpunAt(l, o) = o /\ HeldAt(l, o) = {}
  BY SMTT(60) DEF Depth, SpunAt, HeldAt, TicksPcs, OwnPcs, SpinTicksPcs, SpinOwnPcs

(* sleep() holds tickslock and spins for p->lock.                          *)
LEMMA SleepingRow ==
    ASSUME NEW o, NEW l \in {"sleeping"}
    PROVE  Depth(l) = 2 /\ SpunAt(l, o) = o /\ HeldAt(l, o) = {Ticks}
  BY SMTT(60) DEF Depth, SpunAt, HeldAt, TicksPcs, OwnPcs, SpinTicksPcs, SpinOwnPcs

(* The locks of c are those of the place it comes to.                      *)
LEMMA LockIs ==
    ASSUME NEW c, NEW n, NEW i, NEW s, NEW m, NEW H, IntrNow(c, n, i, s, m, H),
           NEW l, NEW o, At(c)' = l, Own(c)' = o,
           Depth(l) = n /\ SpunAt(l, o) = m /\ HeldAt(l, o) = H
    PROVE  LockOK(c)'
  BY Zenon DEF IntrNow, LockOK

(* What a CPU that holds or spins for a lock knows of its interrupts.      *)
LEMMA IntrHeld ==
    ASSUME NEW c, IntrOK(c), noff[c] = 1
    PROVE  /\ ~sie[c]
           /\ tr[Cur(c)] \notin {"none", "yielded"} => ~intena[c]
           /\ tr[Cur(c)] = "none" /\ pc[Cur(c)] \in CallPcs => intena[c]
  <1>1. noff[c] > 0
    BY SMTT(60)
  <1> QED
    BY Zenon, <1>1 DEF IntrOK

(* How x goes on: the interrupts of c are those of a handler or of a       *)
(* system call after a step only if they were before.                      *)
Onward(x) ==
  /\ tr'[x] # "none" => tr[x] # "none"
  /\ tr'[x] \notin {"none", "yielded"} => tr[x] \notin {"none", "yielded"}
  /\ tr'[x] = "none" /\ pc'[x] \in CallPcs => tr[x] = "none" /\ pc[x] \in CallPcs

(* push_off() saves the enable bit in intena.                              *)
LEMMA IntrPush ==
    ASSUME NEW c, IntrOK(c), NEW x, Cur(c) = x, Cur(c)' = x, noff[c] = 0, Onward(x),
           NEW m, NEW H, IntrNow(c, 1, sie[c], FALSE, m, H)
    PROVE  IntrOK(c)'
  <1>1. 1 > 0 /\ ~(0 > 0)
    BY SMTT(60)
  <1> QED
    BY Zenon, <1>1 DEF IntrOK, IntrNow, Onward

(* A second push_off() leaves intena.                                      *)
LEMMA IntrMore ==
    ASSUME NEW c, IntrOK(c), NEW x, Cur(c) = x, Cur(c)' = x, noff[c] = 1, Onward(x),
           NEW m, NEW H, IntrNow(c, 2, intena[c], FALSE, m, H)
    PROVE  IntrOK(c)'
  <1>1. 1 > 0 /\ 2 > 0
    BY SMTT(60)
  <1> QED
    BY Zenon, <1>1 DEF IntrOK, IntrNow, Onward

(* Neither noff nor intena changes while the lock is taken.                *)
LEMMA IntrDeep ==
    ASSUME NEW c, IntrOK(c), NEW x, Cur(c) = x, Cur(c)' = x, noff[c] > 0, Onward(x),
           NEW m, NEW H, IntrNow(c, 1, intena[c], sie[c], m, H)
    PROVE  IntrOK(c)'
  <1>1. 1 > 0
    BY SMTT(60)
  <1> QED
    BY Zenon, <1>1 DEF IntrOK, IntrNow, Onward

(* pop_off() restores what push_off() saved, the last one.                 *)
LEMMA IntrPop ==
    ASSUME NEW c, IntrOK(c), NEW x, Cur(c)' = x, noff[c] = 1,
           NEW m, NEW H, NEW i, IntrNow(c, 0, FALSE, sie[c] \/ i, m, H),
           tr'[x] # "none" => ~i, tr'[x] = "none" /\ pc'[x] \in CallPcs => i
    PROVE  IntrOK(c)'
  <1>1. ~(0 > 0) /\ ~sie[c]
    BY SMTT(60), IntrHeld
  <1> QED
    BY Zenon, <1>1 DEF IntrOK, IntrNow

(* intr_on(), intr_off() and sret.                                         *)
LEMMA IntrSet ==
    ASSUME NEW c, NEW x, Cur(c)' = x, NEW m, NEW H, NEW i, NEW s, IntrNow(c, 0, i, s, m, H),
           tr'[x] # "none" => ~s, tr'[x] = "none" /\ pc'[x] \in CallPcs => s
    PROVE  IntrOK(c)'
  <1>1. ~(0 > 0)
    BY SMTT(60)
  <1> QED
    BY Zenon, <1>1 DEF IntrOK, IntrNow

(* swtch() to y, with the lock of the process held.                        *)
LEMMA IntrSwtch ==
    ASSUME NEW c, IntrOK(c), noff[c] = 1, NEW y, Cur(c)' = y,
           NEW m, NEW H, IntrNow(c, 1, intena[c], sie[c], m, H),
           tr'[y] \in {"none", "yielded"}, tr'[y] = "none" => pc'[y] \notin CallPcs
    PROVE  IntrOK(c)'
  <1>1. 1 > 0 /\ ~sie[c]
    BY SMTT(60), IntrHeld
  <1> QED
    BY Zenon, <1>1 DEF IntrOK, IntrNow

(* A step that leaves the clock and the states of the processes alone.     *)
LEMMA TickStill ==
    ASSUME NEW c, NEW x, Cur(c) = x, NEW l, At(c) = l, l # "wakeup", UNCHANGED <<widx, pstate>>,
           \A q \in Threads : q # x => left'[q] = left[q],
           NEW l2, Place(x)' = l2, l2 \in {"sleep", "sleeping", "asleep"} => left'[x] > 0
    PROVE  TickFrame(c)
  BY Zenon DEF TickFrame

(* The ticks that p waits for, and what sched() keeps for it.              *)
LEMMA LeftIs ==
    ASSUME SleepType, NEW c, NEW p \in Threads, NEW v \in Nat, left' = [left EXCEPT ![p] = v],
           UNCHANGED <<pstate, pkilled, saved>>
    PROVE  SleepStep(c) /\ left'[p] = v /\ \A q \in Threads : q # p => left'[q] = left[q]
  <1>1. /\ left' \in [Threads -> Nat] /\ left'[p] = v
        /\ \A q \in Threads : q # p => left'[q] = left[q]
    BY SMTT(60) DEF SleepType
  <1> QED
    BY Zenon, <1>1 DEF SleepType, SleepStep

(* sched() puts intena back from the stack of p.                           *)
LEMMA SavedIs ==
    ASSUME SleepType, NEW c, NEW p \in Threads, p = Cur(c), NEW v \in BOOLEAN,
           saved' = [saved EXCEPT ![p] = v], UNCHANGED <<pstate, pkilled, left>>
    PROVE  SleepStep(c)
  <1>1. /\ saved' \in [Threads -> BOOLEAN] /\ \A q \in Threads \ {p} : saved'[q] = saved[q]
    BY SMTT(60) DEF SleepType
  <1> QED
    BY Zenon, <1>1 DEF SleepType, SleepStep

(* p gives up the CPU in state s, with intena v on its stack.              *)
LEMMA StateIs ==
    ASSUME SleepType, NEW c, NEW p \in Threads, p = Cur(c), NEW v \in BOOLEAN,
           NEW s \in {"runnable", "running", "sleeping", "zombie"},
           pstate' = [pstate EXCEPT ![p] = s], saved' = [saved EXCEPT ![p] = v],
           UNCHANGED <<pkilled, left>>
    PROVE  /\ SleepStep(c) /\ saved'[p] = v /\ pstate'[p] = s
           /\ \A q \in Threads : q # p => pstate'[q] = pstate[q]
  <1>1. /\ saved' \in [Threads -> BOOLEAN] /\ \A q \in Threads \ {p} : saved'[q] = saved[q]
        /\ saved'[p] = v
    BY SMTT(60) DEF SleepType
  <1>2. /\ pstate' \in [Threads -> {"runnable", "running", "sleeping", "zombie"}] /\ pstate'[p] = s
        /\ \A q \in Threads : q # p => pstate'[q] = pstate[q]
    BY SMTT(60) DEF SleepType
  <1> QED
    BY Zenon, <1>1, <1>2 DEF SleepType, SleepStep

(* Nothing is saved for x elsewhere than in sched().                       *)
LEMMA SavedNot ==
    ASSUME NEW x, NEW l, Place(x)' = l, l # "yielded", l # "slept"
    PROVE  \A q \in Threads : q = x => SavedOK(q)'
  BY Zenon DEF SavedOK

(* scheduler() turns interrupts on at the head of its loop.                *)
LEMMA IntrOnKeeps ==
    ASSUME IInv, NEW c \in Cpus, IntrOn(c)
    PROVE  IInv'
  <1>g. IntrType /\ WhereType /\ SleepType
    BY Zenon, Parts
  <1>c. /\ Null \notin Threads /\ Threads \subseteq Locks /\ Threads \subseteq Contexts
        /\ Ticks \in Locks /\ Sched(c) \in Contexts /\ Sched(c) \notin Threads
    BY Zenon, ConstFacts
  <1>0. Now(c, Sched(c), "on", sidx[c]) /\ cproc[c] = Null /\ tr[Sched(c)] = "none"
        /\ pc[Sched(c)] = "on"
    BY Zenon, SchedAt DEF IntrOn
  <1>r. Depth("on") = 0 /\ SpunAt("on", sidx[c]) = Null /\ HeldAt("on", sidx[c]) = {}
    BY Zenon, CalmRows DEF CalmPcs
  <1>n. /\ noff[c] = 0 /\ spin[c] = Null /\ Holds(c, {}) /\ Cur(c) = Sched(c) /\ At(c) = "on"
        /\ Own(c) = sidx[c]
        /\ IntrOK(c) /\ ContextOK(Sched(c)) /\ intena[c] \in BOOLEAN /\ sie[c] \in BOOLEAN
    BY Zenon, <1>g, <1>0, <1>r DEF Now, Holds, IntrType
  <1>i. IntrStep(c, 0, intena[c], TRUE, Null, {})
    BY Zenon, <1>g, <1>c, <1>n, SieIs DEF IntrOn
  <1>p. WhereStep(c, Sched(c), "scan", tr[Sched(c)]) /\ UNCHANGED <<cproc, sidx, widx>>
    BY Zenon, <1>g, <1>c, <1>n, GoMainIs DEF IntrOn, SchedPcs, ThreadPcs
  <1>s. SleepStep(c)
    BY Zenon, <1>g DEF IntrOn, GoMain, sleepVars, SleepType, SleepStep
  <1>j. pc'[Sched(c)] = "scan" /\ tr'[Sched(c)] = "none" /\ IntrNow(c, 0, intena[c], TRUE, Null, {})
    BY Zenon, <1>0, <1>i, <1>p DEF IntrStep, WhereStep
  <1>w. Cur(c)' = Sched(c) /\ Own(c)' = sidx[c] /\ At(c)' = "scan" /\ Place(Sched(c))' = "scan"
    BY Zenon, <1>c, <1>0, <1>n, <1>j, <1>p DEF Cur, Own, At, Place
  <1>a. Depth("scan") = 0 /\ SpunAt("scan", sidx[c]) = Null /\ HeldAt("scan", sidx[c]) = {}
    BY Zenon, CalmRows DEF CalmPcs
  <1>2. LockOK(c)'
    BY Zenon, <1>j, <1>w, <1>a, LockIs
  <1>3. IntrOK(c)'
    BY Zenon, <1>0, <1>n, <1>j, <1>w, IntrSet DEF CallPcs
  <1>4. ContextOK(Sched(c))'
    BY Zenon, <1>c, <1>0, <1>n, <1>j DEF ContextOK, SchedPcs, ThreadPcs
  <1>5. \A q \in Threads : q = Sched(c) => SavedOK(q)'
    BY Zenon, <1>w, SavedNot
  <1>6. TypeOK' /\ CpuOK' /\ Frame(c) /\ TypeOK /\ RunOK /\ TickOK /\ CpuOK
    BY Zenon, <1>n, <1>i, <1>p, <1>s, <1>2, <1>3, <1>4, <1>5, Settle
  <1>7. RunOK'
    <2>1. UNCHANGED <<cproc, pstate>> /\ (sidx'[c] = sidx[c] \/ cproc[c] = Null)
      BY Zenon, <1>0, <1>p DEF IntrOn, GoMain, sleepVars
    <2> QED
      BY Zenon, <1>6, <2>1, StayKeeps
  <1>8. TickOK'
    <2>1. UNCHANGED <<left, pstate>>
      BY Zenon DEF IntrOn, GoMain, sleepVars
    <2>2. TickFrame(c)
      BY Zenon, <1>n, <1>w, <1>p, <2>1, TickStill
    <2> QED
      BY Zenon, <1>6, <2>2, TickFrameKeeps
  <1> QED
    BY Zenon, <1>6, <1>7, <1>8 DEF IInv

(* scheduler() begins the acquire() of the next process's lock.            *)
LEMMA ScanKeeps ==
    ASSUME IInv, NEW c \in Cpus, Scan(c)
    PROVE  IInv'
  <1>g. IntrType /\ WhereType /\ SleepType
    BY Zenon, Parts
  <1>c. /\ Null \notin Threads /\ Threads \subseteq Locks /\ Threads \subseteq Contexts
        /\ Ticks \in Locks /\ Sched(c) \in Contexts /\ Sched(c) \notin Threads
    BY Zenon, ConstFacts
  <1>0. Now(c, Sched(c), "scan", sidx[c]) /\ cproc[c] = Null /\ tr[Sched(c)] = "none"
        /\ pc[Sched(c)] = "scan"
    BY Zenon, SchedAt DEF Scan
  <1>r. Depth("scan") = 0 /\ SpunAt("scan", sidx[c]) = Null /\ HeldAt("scan", sidx[c]) = {}
    BY Zenon, CalmRows DEF CalmPcs
  <1>n. /\ noff[c] = 0 /\ spin[c] = Null /\ Holds(c, {}) /\ Cur(c) = Sched(c) /\ At(c) = "scan"
        /\ Own(c) = sidx[c]
        /\ IntrOK(c) /\ ContextOK(Sched(c)) /\ intena[c] \in BOOLEAN /\ sie[c] \in BOOLEAN
    BY Zenon, <1>g, <1>0, <1>r DEF Now, Holds, IntrType
  <1>h. sidx[c] \in Threads
    BY Zenon, <1>0 DEF Now
  <1>i. IntrStep(c, 1, sie[c], FALSE, sidx[c], {})
    BY Zenon, <1>g, <1>c, <1>n, <1>h, AcquireIs DEF Scan
  <1>p. WhereStep(c, Sched(c), "test", tr[Sched(c)]) /\ UNCHANGED <<cproc, sidx, widx>>
    BY Zenon, <1>g, <1>c, <1>n, GoMainIs DEF Scan, SchedPcs, ThreadPcs
  <1>s. SleepStep(c)
    BY Zenon, <1>g DEF Scan, GoMain, sleepVars, SleepType, SleepStep
  <1>j. pc'[Sched(c)] = "test" /\ tr'[Sched(c)] = "none"
        /\ IntrNow(c, 1, sie[c], FALSE, sidx[c], {})
    BY Zenon, <1>0, <1>i, <1>p DEF IntrStep, WhereStep
  <1>w. Cur(c)' = Sched(c) /\ Own(c)' = sidx[c] /\ At(c)' = "test" /\ Place(Sched(c))' = "test"
    BY Zenon, <1>c, <1>0, <1>n, <1>j, <1>p DEF Cur, Own, At, Place
  <1>a. Depth("test") = 1 /\ SpunAt("test", sidx[c]) = sidx[c] /\ HeldAt("test", sidx[c]) = {}
    BY Zenon, SpinOwnRows
  <1>2. LockOK(c)'
    BY Zenon, <1>j, <1>w, <1>a, LockIs
  <1>3. IntrOK(c)'
    <2>1. Onward(Sched(c))
      BY Zenon, <1>0, <1>j DEF Onward, CallPcs
    <2> QED
      BY Zenon, <1>n, <1>j, <1>w, <2>1, IntrPush
  <1>4. ContextOK(Sched(c))'
    BY Zenon, <1>c, <1>0, <1>n, <1>j DEF ContextOK, SchedPcs, ThreadPcs
  <1>5. \A q \in Threads : q = Sched(c) => SavedOK(q)'
    BY Zenon, <1>w, SavedNot
  <1>6. TypeOK' /\ CpuOK' /\ Frame(c) /\ TypeOK /\ RunOK /\ TickOK /\ CpuOK
    BY Zenon, <1>n, <1>i, <1>p, <1>s, <1>2, <1>3, <1>4, <1>5, Settle
  <1>7. RunOK'
    <2>1. UNCHANGED <<cproc, pstate>> /\ (sidx'[c] = sidx[c] \/ cproc[c] = Null)
      BY Zenon, <1>0, <1>p DEF Scan, GoMain, sleepVars
    <2> QED
      BY Zenon, <1>6, <2>1, StayKeeps
  <1>8. TickOK'
    <2>1. UNCHANGED <<left, pstate>>
      BY Zenon DEF Scan, GoMain, sleepVars
    <2>2. TickFrame(c)
      BY Zenon, <1>n, <1>w, <1>p, <2>1, TickStill
    <2> QED
      BY Zenon, <1>6, <2>2, TickFrameKeeps
  <1> QED
    BY Zenon, <1>6, <1>7, <1>8 DEF IInv

(* scheduler() has the lock of a runnable process and switches to it, lock *)
(* and all.                                                                *)
LEMMA RunProcKeeps ==
    ASSUME IInv, NEW c \in Cpus, RunProc(c)
    PROVE  IInv'
  <1>g. IntrType /\ WhereType /\ SleepType
    BY Zenon, Parts
  <1>c. /\ Null \notin Threads /\ Threads \subseteq Locks /\ Threads \subseteq Contexts
        /\ Ticks \in Locks /\ Sched(c) \in Contexts /\ Sched(c) \notin Threads
    BY Zenon, ConstFacts
  <1>0. Now(c, Sched(c), "test", sidx[c]) /\ cproc[c] = Null /\ tr[Sched(c)] = "none"
        /\ pc[Sched(c)] = "test"
    BY Zenon, SchedAt DEF RunProc
  <1>r. Depth("test") = 1 /\ SpunAt("test", sidx[c]) = sidx[c] /\ HeldAt("test", sidx[c]) = {}
    BY Zenon, SpinOwnRows
  <1>n. /\ noff[c] = 1 /\ spin[c] = sidx[c] /\ Holds(c, {}) /\ Cur(c) = Sched(c) /\ At(c) = "test"
        /\ Own(c) = sidx[c]
        /\ IntrOK(c) /\ ContextOK(Sched(c)) /\ intena[c] \in BOOLEAN /\ sie[c] \in BOOLEAN
    BY Zenon, <1>g, <1>0, <1>r DEF Now, Holds, IntrType
  <1>q. PICK p \in Threads : p = sidx[c]
    BY Zenon, <1>0 DEF Now
  <1>i. IntrStep(c, 1, intena[c], sie[c], Null, {sidx[c]})
    BY Zenon, <1>g, <1>c, <1>n, TakeIs DEF RunProc
  <1>p. WhereStep(c, Sched(c), "back", tr[Sched(c)]) /\ cproc'[c] = p /\ UNCHANGED <<sidx, widx>>
    <2>1. /\ cproc' = [cproc EXCEPT ![c] = p] /\ pc' = [pc EXCEPT ![Sched(c)] = "back"]
          /\ UNCHANGED <<tr, sidx, widx>>
      BY Zenon, <1>q DEF RunProc
    <2>2. "back" \in SchedPcs \cup ThreadPcs /\ p \in Threads \cup {Null}
      BY Zenon DEF SchedPcs
    <2> QED
      BY Zenon, <1>g, <1>c, <2>1, <2>2, SwtchIs
  <1>s. /\ SleepStep(c) /\ UNCHANGED left /\ pstate'[p] = "running"
        /\ \A q \in Threads : q # p => pstate'[q] = pstate[q]
    <2>1. /\ pstate' = [pstate EXCEPT ![p] = "running"] /\ UNCHANGED <<pkilled, saved, left>>
      BY Zenon, <1>q DEF RunProc
    <2>2. /\ pstate' \in [Threads -> {"runnable", "running", "sleeping", "zombie"}]
          /\ pstate'[p] = "running" /\ \A q \in Threads : q # p => pstate'[q] = pstate[q]
      BY SMTT(60), <1>g, <2>1 DEF SleepType
    <2> QED
      BY Zenon, <1>g, <2>1, <2>2 DEF SleepType, SleepStep
  <1>j. pc'[Sched(c)] = "back" /\ tr'[Sched(c)] = "none"
        /\ IntrNow(c, 1, intena[c], sie[c], Null, {sidx[c]})
    BY Zenon, <1>0, <1>i, <1>p DEF IntrStep, WhereStep
  <1>b. pstate[p] = "runnable" /\ Place(p) \in {"forkret", "slept", "yielded"} /\ p # Sched(c)
        /\ p \in Contexts
    BY Zenon, <1>c, <1>q, Parts DEF RunProc, RunOK
  <1>e. tr[p] = "yielded" \/ (tr[p] = "none" /\ pc[p] \in {"forkret", "slept"})
    <2>1. tr[p] \in TrapPcs /\ pc[p] \in SchedPcs \cup ThreadPcs
      BY Zenon, <1>g, <1>b DEF WhereType
    <2> QED
      BY Zenon, <1>b, <2>1 DEF Place, TrapPcs, SchedPcs, ThreadPcs
  <1>w. Cur(c)' = p /\ Own(c)' = p /\ At(c)' = Place(p) /\ tr'[p] = tr[p] /\ pc'[p] = pc[p]
    <2>1. tr'[p] = tr[p] /\ pc'[p] = pc[p]
      BY Zenon, <1>b, <1>p DEF WhereStep, WhereFrame
    <2>2. Cur(c)' = p /\ Own(c)' = p
      BY Zenon, <1>c, <1>p, <1>q DEF Cur, Own
    <2> QED
      BY Zenon, <2>1, <2>2 DEF At, Place
  <1>a. Depth(Place(p)) = 1 /\ SpunAt(Place(p), p) = Null /\ HeldAt(Place(p), p) = {p}
    BY Zenon, <1>b, OwnRows DEF OwnPcs
  <1>2. LockOK(c)'
    BY Zenon, <1>j, <1>w, <1>a, <1>q, LockIs
  <1>3. IntrOK(c)'
    BY Zenon, <1>e, <1>n, <1>j, <1>w, IntrSwtch DEF CallPcs
  <1>4. ContextOK(Sched(c))'
    BY Zenon, <1>c, <1>0, <1>n, <1>j DEF ContextOK, SchedPcs, ThreadPcs
  <1>5. \A q \in Threads : q = Sched(c) => SavedOK(q)'
    BY Zenon, <1>c
  <1>6. TypeOK' /\ CpuOK' /\ Frame(c) /\ TypeOK /\ RunOK /\ TickOK /\ CpuOK
    BY Zenon, <1>n, <1>i, <1>p, <1>s, <1>2, <1>3, <1>4, <1>5, Settle
  <1>7. RunOK'
    BY Zenon, <1>6, EnterKeeps
  <1>8. TickOK'
    <2>1. TickFrame(c)
      BY Zenon, <1>c, <1>n, <1>p, <1>s DEF TickFrame
    <2> QED
      BY Zenon, <1>6, <2>1, TickFrameKeeps
  <1> QED
    BY Zenon, <1>6, <1>7, <1>8 DEF IInv

(* scheduler() has the lock of a process that is not runnable and releases *)
(* it.                                                                     *)
LEMMA SkipProcKeeps ==
    ASSUME IInv, NEW c \in Cpus, SkipProc(c)
    PROVE  IInv'
  <1>g. IntrType /\ WhereType /\ SleepType
    BY Zenon, Parts
  <1>c. /\ Null \notin Threads /\ Threads \subseteq Locks /\ Threads \subseteq Contexts
        /\ Ticks \in Locks /\ Sched(c) \in Contexts /\ Sched(c) \notin Threads
    BY Zenon, ConstFacts
  <1>0. Now(c, Sched(c), "test", sidx[c]) /\ cproc[c] = Null /\ tr[Sched(c)] = "none"
        /\ pc[Sched(c)] = "test"
    BY Zenon, SchedAt DEF SkipProc
  <1>r. Depth("test") = 1 /\ SpunAt("test", sidx[c]) = sidx[c] /\ HeldAt("test", sidx[c]) = {}
    BY Zenon, SpinOwnRows
  <1>n. /\ noff[c] = 1 /\ spin[c] = sidx[c] /\ Holds(c, {}) /\ Cur(c) = Sched(c) /\ At(c) = "test"
        /\ Own(c) = sidx[c]
        /\ IntrOK(c) /\ ContextOK(Sched(c)) /\ intena[c] \in BOOLEAN /\ sie[c] \in BOOLEAN
    BY Zenon, <1>g, <1>0, <1>r DEF Now, Holds, IntrType
  <1>i. IntrStep(c, 0, FALSE, sie[c] \/ intena[c], Null, {})
    BY Zenon, <1>g, <1>c, <1>n, PassIs DEF SkipProc
  <1>p. PICK l2 \in {"on", "scan"} :
          /\ WhereStep(c, Sched(c), l2, tr[Sched(c)]) /\ sidx'[c] \in Threads /\ UNCHANGED <<cproc, widx>>
    BY Zenon, <1>g, SchedNextIs DEF SkipProc
  <1>s. SleepStep(c)
    BY Zenon, <1>g DEF SkipProc, SchedNext, sleepVars, SleepType, SleepStep
  <1>j. pc'[Sched(c)] = l2 /\ tr'[Sched(c)] = "none"
        /\ IntrNow(c, 0, FALSE, sie[c] \/ intena[c], Null, {})
    BY Zenon, <1>0, <1>i, <1>p DEF IntrStep, WhereStep
  <1>w. Cur(c)' = Sched(c) /\ Own(c)' = sidx'[c] /\ At(c)' = l2 /\ Place(Sched(c))' = l2
    BY Zenon, <1>c, <1>0, <1>n, <1>j, <1>p DEF Cur, Own, At, Place
  <1>a. Depth(l2) = 0 /\ SpunAt(l2, sidx'[c]) = Null /\ HeldAt(l2, sidx'[c]) = {}
    BY Zenon, <1>p, CalmRows DEF CalmPcs
  <1>2. LockOK(c)'
    BY Zenon, <1>j, <1>w, <1>a, LockIs
  <1>3. IntrOK(c)'
    <2>1. (tr'[Sched(c)] # "none" => ~intena[c]) /\ (tr'[Sched(c)] = "none" /\ pc'[Sched(c)] \in CallPcs => intena[c])
      BY Zenon, <1>0, <1>n, <1>j, <1>p, IntrHeld DEF CallPcs
    <2> QED
      BY Zenon, <1>n, <1>j, <1>w, <2>1, IntrPop
  <1>4. ContextOK(Sched(c))'
    BY Zenon, <1>c, <1>0, <1>n, <1>j, <1>p DEF ContextOK, SchedPcs, ThreadPcs
  <1>5. \A q \in Threads : q = Sched(c) => SavedOK(q)'
    BY Zenon, <1>w, <1>p, SavedNot
  <1>6. TypeOK' /\ CpuOK' /\ Frame(c) /\ TypeOK /\ RunOK /\ TickOK /\ CpuOK
    BY Zenon, <1>n, <1>i, <1>p, <1>s, <1>2, <1>3, <1>4, <1>5, Settle
  <1>7. RunOK'
    <2>1. UNCHANGED <<cproc, pstate>> /\ (sidx'[c] = sidx[c] \/ cproc[c] = Null)
      BY Zenon, <1>0, <1>p DEF SkipProc, SchedNext, sleepVars
    <2> QED
      BY Zenon, <1>6, <2>1, StayKeeps
  <1>8. TickOK'
    <2>1. UNCHANGED <<left, pstate>>
      BY Zenon DEF SkipProc, SchedNext, sleepVars
    <2>2. TickFrame(c)
      BY Zenon, <1>n, <1>w, <1>p, <2>1, TickStill
    <2> QED
      BY Zenon, <1>6, <2>2, TickFrameKeeps
  <1> QED
    BY Zenon, <1>6, <1>7, <1>8 DEF IInv

(* swtch() has come back to scheduler(), which releases the lock of the    *)
(* process it ran.                                                         *)
LEMMA BackKeeps ==
    ASSUME IInv, NEW c \in Cpus, Back(c)
    PROVE  IInv'
  <1>g. IntrType /\ WhereType /\ SleepType
    BY Zenon, Parts
  <1>c. /\ Null \notin Threads /\ Threads \subseteq Locks /\ Threads \subseteq Contexts
        /\ Ticks \in Locks /\ Sched(c) \in Contexts /\ Sched(c) \notin Threads
    BY Zenon, ConstFacts
  <1>0. Now(c, Sched(c), "back", sidx[c]) /\ cproc[c] = Null /\ tr[Sched(c)] = "none"
        /\ pc[Sched(c)] = "back"
    BY Zenon, SchedAt DEF Back
  <1>r. Depth("back") = 1 /\ SpunAt("back", sidx[c]) = Null /\ HeldAt("back", sidx[c]) = {sidx[c]}
    BY Zenon, OwnRows DEF OwnPcs
  <1>n. /\ noff[c] = 1 /\ spin[c] = Null /\ Holds(c, {sidx[c]}) /\ Cur(c) = Sched(c)
        /\ At(c) = "back" /\ Own(c) = sidx[c]
        /\ IntrOK(c) /\ ContextOK(Sched(c)) /\ intena[c] \in BOOLEAN /\ sie[c] \in BOOLEAN
    BY Zenon, <1>g, <1>0, <1>r DEF Now, Holds, IntrType
  <1>h. sidx[c] \in Threads
    BY Zenon, <1>0 DEF Now
  <1>i. IntrStep(c, 0, FALSE, sie[c] \/ intena[c], Null, {})
    BY Zenon, <1>g, <1>c, <1>n, <1>h, ReleaseIs DEF Back, Release
  <1>p. PICK l2 \in {"on", "scan"} :
          /\ WhereStep(c, Sched(c), l2, tr[Sched(c)]) /\ sidx'[c] \in Threads /\ UNCHANGED <<cproc, widx>>
    BY Zenon, <1>g, SchedNextIs DEF Back
  <1>s. SleepStep(c)
    BY Zenon, <1>g DEF Back, SchedNext, sleepVars, SleepType, SleepStep
  <1>j. pc'[Sched(c)] = l2 /\ tr'[Sched(c)] = "none"
        /\ IntrNow(c, 0, FALSE, sie[c] \/ intena[c], Null, {})
    BY Zenon, <1>0, <1>i, <1>p DEF IntrStep, WhereStep
  <1>w. Cur(c)' = Sched(c) /\ Own(c)' = sidx'[c] /\ At(c)' = l2 /\ Place(Sched(c))' = l2
    BY Zenon, <1>c, <1>0, <1>n, <1>j, <1>p DEF Cur, Own, At, Place
  <1>a. Depth(l2) = 0 /\ SpunAt(l2, sidx'[c]) = Null /\ HeldAt(l2, sidx'[c]) = {}
    BY Zenon, <1>p, CalmRows DEF CalmPcs
  <1>2. LockOK(c)'
    BY Zenon, <1>j, <1>w, <1>a, LockIs
  <1>3. IntrOK(c)'
    <2>1. (tr'[Sched(c)] # "none" => ~intena[c]) /\ (tr'[Sched(c)] = "none" /\ pc'[Sched(c)] \in CallPcs => intena[c])
      BY Zenon, <1>0, <1>n, <1>j, <1>p, IntrHeld DEF CallPcs
    <2> QED
      BY Zenon, <1>n, <1>j, <1>w, <2>1, IntrPop
  <1>4. ContextOK(Sched(c))'
    BY Zenon, <1>c, <1>0, <1>n, <1>j, <1>p DEF ContextOK, SchedPcs, ThreadPcs
  <1>5. \A q \in Threads : q = Sched(c) => SavedOK(q)'
    BY Zenon, <1>w, <1>p, SavedNot
  <1>6. TypeOK' /\ CpuOK' /\ Frame(c) /\ TypeOK /\ RunOK /\ TickOK /\ CpuOK
    BY Zenon, <1>n, <1>i, <1>p, <1>s, <1>2, <1>3, <1>4, <1>5, Settle
  <1>7. RunOK'
    <2>1. UNCHANGED <<cproc, pstate>> /\ (sidx'[c] = sidx[c] \/ cproc[c] = Null)
      BY Zenon, <1>0, <1>p DEF Back, SchedNext, sleepVars
    <2> QED
      BY Zenon, <1>6, <2>1, StayKeeps
  <1>8. TickOK'
    <2>1. UNCHANGED <<left, pstate>>
      BY Zenon DEF Back, SchedNext, sleepVars
    <2>2. TickFrame(c)
      BY Zenon, <1>n, <1>w, <1>p, <2>1, TickStill
    <2> QED
      BY Zenon, <1>6, <2>2, TickFrameKeeps
  <1> QED
    BY Zenon, <1>6, <1>7, <1>8 DEF IInv

(* A new process releases, in forkret(), the lock that scheduler() took.   *)
LEMMA ForkretKeeps ==
    ASSUME IInv, NEW c \in Cpus, NEW p \in Threads, Forkret(c, p)
    PROVE  IInv'
  <1>g. IntrType /\ WhereType /\ SleepType
    BY Zenon, Parts
  <1>c. /\ Null \notin Threads /\ Threads \subseteq Locks /\ Threads \subseteq Contexts
        /\ Ticks \in Locks /\ Sched(c) \in Contexts /\ Sched(c) \notin Threads
    BY Zenon, ConstFacts
  <1>0. Now(c, p, "forkret", p) /\ cproc[c] = p /\ tr[p] = "none" /\ pc[p] = "forkret"
        /\ Place(p) = "forkret"
    BY Zenon, ThreadAt DEF Forkret
  <1>r. Depth("forkret") = 1 /\ SpunAt("forkret", p) = Null /\ HeldAt("forkret", p) = {p}
    BY Zenon, OwnRows DEF OwnPcs
  <1>n. /\ noff[c] = 1 /\ spin[c] = Null /\ Holds(c, {p}) /\ Cur(c) = p /\ At(c) = "forkret"
        /\ Own(c) = p
        /\ IntrOK(c) /\ ContextOK(p) /\ intena[c] \in BOOLEAN /\ sie[c] \in BOOLEAN
    BY Zenon, <1>g, <1>0, <1>r DEF Now, Holds, IntrType
  <1>i. IntrStep(c, 0, FALSE, sie[c] \/ intena[c], Null, {})
    BY Zenon, <1>g, <1>c, <1>n, ReleaseIs DEF Forkret, Release
  <1>p. WhereStep(c, p, "forked", tr[p]) /\ UNCHANGED <<cproc, sidx, widx>>
    BY Zenon, <1>g, <1>c, <1>n, GoMainIs DEF Forkret, SchedPcs, ThreadPcs
  <1>s. SleepStep(c)
    BY Zenon, <1>g DEF Forkret, GoMain, sleepVars, SleepType, SleepStep
  <1>j. pc'[p] = "forked" /\ tr'[p] = "none" /\ IntrNow(c, 0, FALSE, sie[c] \/ intena[c], Null, {})
    BY Zenon, <1>0, <1>i, <1>p DEF IntrStep, WhereStep
  <1>w. Cur(c)' = p /\ Own(c)' = p /\ At(c)' = "forked" /\ Place(p)' = "forked"
    BY Zenon, <1>c, <1>0, <1>n, <1>j, <1>p DEF Cur, Own, At, Place
  <1>a. Depth("forked") = 0 /\ SpunAt("forked", p) = Null /\ HeldAt("forked", p) = {}
    BY Zenon, CalmRows DEF CalmPcs
  <1>2. LockOK(c)'
    BY Zenon, <1>j, <1>w, <1>a, LockIs
  <1>3. IntrOK(c)'
    <2>1. (tr'[p] # "none" => ~intena[c]) /\ (tr'[p] = "none" /\ pc'[p] \in CallPcs => intena[c])
      BY Zenon, <1>0, <1>n, <1>j, IntrHeld DEF CallPcs
    <2> QED
      BY Zenon, <1>n, <1>j, <1>w, <2>1, IntrPop
  <1>4. ContextOK(p)'
    BY Zenon, <1>c, <1>0, <1>n, <1>j DEF ContextOK, SchedPcs, ThreadPcs
  <1>5. \A q \in Threads : q = p => SavedOK(q)'
    BY Zenon, <1>w, SavedNot
  <1>6. TypeOK' /\ CpuOK' /\ Frame(c) /\ TypeOK /\ RunOK /\ TickOK /\ CpuOK
    BY Zenon, <1>n, <1>i, <1>p, <1>s, <1>2, <1>3, <1>4, <1>5, Settle
  <1>7. RunOK'
    <2>1. UNCHANGED <<cproc, pstate>> /\ (sidx'[c] = sidx[c] \/ cproc[c] = Null)
      BY Zenon, <1>0, <1>p DEF Forkret, GoMain, sleepVars
    <2> QED
      BY Zenon, <1>6, <2>1, StayKeeps
  <1>8. TickOK'
    <2>1. UNCHANGED <<left, pstate>>
      BY Zenon DEF Forkret, GoMain, sleepVars
    <2>2. TickFrame(c)
      BY Zenon, <1>n, <1>w, <1>p, <2>1, TickStill
    <2> QED
      BY Zenon, <1>6, <2>2, TickFrameKeeps
  <1> QED
    BY Zenon, <1>6, <1>7, <1>8 DEF IInv

(* forkret() goes on to usertrapret(), with interrupts off.                *)
LEMMA ForkretReturnKeeps ==
    ASSUME IInv, NEW c \in Cpus, NEW p \in Threads, ForkretReturn(c, p)
    PROVE  IInv'
  <1>g. IntrType /\ WhereType /\ SleepType
    BY Zenon, Parts
  <1>c. /\ Null \notin Threads /\ Threads \subseteq Locks /\ Threads \subseteq Contexts
        /\ Ticks \in Locks /\ Sched(c) \in Contexts /\ Sched(c) \notin Threads
    BY Zenon, ConstFacts
  <1>0. Now(c, p, "forked", p) /\ cproc[c] = p /\ tr[p] = "none" /\ pc[p] = "forked"
        /\ Place(p) = "forked"
    BY Zenon, ThreadAt DEF ForkretReturn
  <1>r. Depth("forked") = 0 /\ SpunAt("forked", p) = Null /\ HeldAt("forked", p) = {}
    BY Zenon, CalmRows DEF CalmPcs
  <1>n. /\ noff[c] = 0 /\ spin[c] = Null /\ Holds(c, {}) /\ Cur(c) = p /\ At(c) = "forked"
        /\ Own(c) = p
        /\ IntrOK(c) /\ ContextOK(p) /\ intena[c] \in BOOLEAN /\ sie[c] \in BOOLEAN
    BY Zenon, <1>g, <1>0, <1>r DEF Now, Holds, IntrType
  <1>i. IntrStep(c, 0, intena[c], FALSE, Null, {})
    BY Zenon, <1>g, <1>c, <1>n, SieIs DEF ForkretReturn, Usertrapret
  <1>p. WhereStep(c, p, "user", tr[p]) /\ UNCHANGED <<cproc, sidx, widx>>
    BY Zenon, <1>g, <1>c, <1>n, GoMainIs DEF ForkretReturn, SchedPcs, ThreadPcs
  <1>s. SleepStep(c)
    BY Zenon, <1>g DEF ForkretReturn, Usertrapret, GoMain, sleepVars, SleepType, SleepStep
  <1>j. pc'[p] = "user" /\ tr'[p] = "none" /\ IntrNow(c, 0, intena[c], FALSE, Null, {})
    BY Zenon, <1>0, <1>i, <1>p DEF IntrStep, WhereStep
  <1>w. Cur(c)' = p /\ Own(c)' = p /\ At(c)' = "user" /\ Place(p)' = "user"
    BY Zenon, <1>c, <1>0, <1>n, <1>j, <1>p DEF Cur, Own, At, Place
  <1>a. Depth("user") = 0 /\ SpunAt("user", p) = Null /\ HeldAt("user", p) = {}
    BY Zenon, CalmRows DEF CalmPcs
  <1>2. LockOK(c)'
    BY Zenon, <1>j, <1>w, <1>a, LockIs
  <1>3. IntrOK(c)'
    BY Zenon, <1>0, <1>n, <1>j, <1>w, IntrSet DEF CallPcs
  <1>4. ContextOK(p)'
    BY Zenon, <1>c, <1>0, <1>n, <1>j DEF ContextOK, SchedPcs, ThreadPcs
  <1>5. \A q \in Threads : q = p => SavedOK(q)'
    BY Zenon, <1>w, SavedNot
  <1>6. TypeOK' /\ CpuOK' /\ Frame(c) /\ TypeOK /\ RunOK /\ TickOK /\ CpuOK
    BY Zenon, <1>n, <1>i, <1>p, <1>s, <1>2, <1>3, <1>4, <1>5, Settle
  <1>7. RunOK'
    <2>1. UNCHANGED <<cproc, pstate>> /\ (sidx'[c] = sidx[c] \/ cproc[c] = Null)
      BY Zenon, <1>0, <1>p DEF ForkretReturn, Usertrapret, GoMain, sleepVars
    <2> QED
      BY Zenon, <1>6, <2>1, StayKeeps
  <1>8. TickOK'
    <2>1. UNCHANGED <<left, pstate>>
      BY Zenon DEF ForkretReturn, Usertrapret, GoMain, sleepVars
    <2>2. TickFrame(c)
      BY Zenon, <1>n, <1>w, <1>p, <2>1, TickStill
    <2> QED
      BY Zenon, <1>6, <2>2, TickFrameKeeps
  <1> QED
    BY Zenon, <1>6, <1>7, <1>8 DEF IInv

(* usertrap() turns interrupts on for a system call.                       *)
LEMMA EcallKeeps ==
    ASSUME IInv, NEW c \in Cpus, NEW p \in Threads, Ecall(c, p)
    PROVE  IInv'
  <1>g. IntrType /\ WhereType /\ SleepType
    BY Zenon, Parts
  <1>c. /\ Null \notin Threads /\ Threads \subseteq Locks /\ Threads \subseteq Contexts
        /\ Ticks \in Locks /\ Sched(c) \in Contexts /\ Sched(c) \notin Threads
    BY Zenon, ConstFacts
  <1>0. Now(c, p, "user", p) /\ cproc[c] = p /\ tr[p] = "none" /\ pc[p] = "user"
        /\ Place(p) = "user"
    BY Zenon, ThreadAt DEF Ecall
  <1>r. Depth("user") = 0 /\ SpunAt("user", p) = Null /\ HeldAt("user", p) = {}
    BY Zenon, CalmRows DEF CalmPcs
  <1>n. /\ noff[c] = 0 /\ spin[c] = Null /\ Holds(c, {}) /\ Cur(c) = p /\ At(c) = "user"
        /\ Own(c) = p
        /\ IntrOK(c) /\ ContextOK(p) /\ intena[c] \in BOOLEAN /\ sie[c] \in BOOLEAN
    BY Zenon, <1>g, <1>0, <1>r DEF Now, Holds, IntrType
  <1>q. PICK s \in BOOLEAN, l2 \in {"exit", "call"} :
          /\ IntrStep(c, 0, intena[c], s, Null, {}) /\ WhereStep(c, p, l2, tr[p])
          /\ UNCHANGED <<cproc, sidx, widx, sleepVars>> /\ (l2 = "call" => s)
    <2>1. CASE pkilled[p]
      <3>1. GoMain(p, "exit") /\ UNCHANGED <<intrVars, sleepVars>>
        BY Zenon, <2>1 DEF Ecall, intrVars
      <3>2. "exit" \in SchedPcs \cup ThreadPcs /\ "exit" # "call"
        BY Zenon DEF ThreadPcs
      <3> QED
        BY Zenon, <1>g, <1>c, <1>n, <3>1, <3>2, GoMainIs, SameIs
    <2>2. CASE ~pkilled[p]
      <3>1. /\ GoMain(p, "call") /\ UNCHANGED <<noff, intena, spin, lock, sleepVars>>
            /\ sie' = [sie EXCEPT ![c] = TRUE]
        BY Zenon, <2>2 DEF Ecall
      <3>2. "call" \in SchedPcs \cup ThreadPcs
        BY Zenon DEF ThreadPcs
      <3> QED
        BY Zenon, <1>g, <1>c, <1>n, <3>1, <3>2, GoMainIs, SieIs
    <2> QED
      BY Zenon, <2>1, <2>2
  <1>i. IntrStep(c, 0, intena[c], s, Null, {})
    BY Zenon, <1>q
  <1>p. l2 \in {"exit", "call"} /\ WhereStep(c, p, l2, tr[p]) /\ UNCHANGED <<cproc, sidx, widx, sleepVars>> /\ (l2 = "call" => s)
    BY Zenon, <1>q
  <1>s. SleepStep(c)
    BY Zenon, <1>g, <1>p DEF sleepVars, SleepType, SleepStep
  <1>j. pc'[p] = l2 /\ tr'[p] = "none" /\ IntrNow(c, 0, intena[c], s, Null, {})
    BY Zenon, <1>0, <1>i, <1>p DEF IntrStep, WhereStep
  <1>w. Cur(c)' = p /\ Own(c)' = p /\ At(c)' = l2 /\ Place(p)' = l2
    BY Zenon, <1>c, <1>0, <1>n, <1>j, <1>p DEF Cur, Own, At, Place
  <1>a. Depth(l2) = 0 /\ SpunAt(l2, p) = Null /\ HeldAt(l2, p) = {}
    BY Zenon, <1>p, CalmRows DEF CalmPcs
  <1>2. LockOK(c)'
    BY Zenon, <1>j, <1>w, <1>a, LockIs
  <1>3. IntrOK(c)'
    BY Zenon, <1>0, <1>n, <1>j, <1>w, <1>p, IntrSet DEF CallPcs
  <1>4. ContextOK(p)'
    BY Zenon, <1>c, <1>0, <1>n, <1>j, <1>p DEF ContextOK, SchedPcs, ThreadPcs
  <1>5. \A q \in Threads : q = p => SavedOK(q)'
    BY Zenon, <1>w, <1>p, SavedNot
  <1>6. TypeOK' /\ CpuOK' /\ Frame(c) /\ TypeOK /\ RunOK /\ TickOK /\ CpuOK
    BY Zenon, <1>n, <1>i, <1>p, <1>s, <1>2, <1>3, <1>4, <1>5, Settle
  <1>7. RunOK'
    <2>1. UNCHANGED <<cproc, pstate>> /\ sidx'[c] = sidx[c]
      BY Zenon, <1>p DEF sleepVars
    <2> QED
      BY Zenon, <1>6, <2>1, StayKeeps
  <1>8. TickOK'
    <2>1. UNCHANGED <<left, pstate>>
      BY Zenon, <1>p DEF sleepVars
    <2>2. TickFrame(c)
      BY Zenon, <1>n, <1>w, <1>p, <2>1, TickStill
    <2> QED
      BY Zenon, <1>6, <2>2, TickFrameKeeps
  <1> QED
    BY Zenon, <1>6, <1>7, <1>8 DEF IInv

(* A system call is over: usertrapret() turns interrupts off.              *)
LEMMA CallReturnKeeps ==
    ASSUME IInv, NEW c \in Cpus, NEW p \in Threads, CallReturn(c, p)
    PROVE  IInv'
  <1>g. IntrType /\ WhereType /\ SleepType
    BY Zenon, Parts
  <1>c. /\ Null \notin Threads /\ Threads \subseteq Locks /\ Threads \subseteq Contexts
        /\ Ticks \in Locks /\ Sched(c) \in Contexts /\ Sched(c) \notin Threads
    BY Zenon, ConstFacts
  <1>0. Now(c, p, "ret", p) /\ cproc[c] = p /\ tr[p] = "none" /\ pc[p] = "ret" /\ Place(p) = "ret"
    BY Zenon, ThreadAt DEF CallReturn
  <1>r. Depth("ret") = 0 /\ SpunAt("ret", p) = Null /\ HeldAt("ret", p) = {}
    BY Zenon, CalmRows DEF CalmPcs
  <1>n. /\ noff[c] = 0 /\ spin[c] = Null /\ Holds(c, {}) /\ Cur(c) = p /\ At(c) = "ret"
        /\ Own(c) = p
        /\ IntrOK(c) /\ ContextOK(p) /\ intena[c] \in BOOLEAN /\ sie[c] \in BOOLEAN
    BY Zenon, <1>g, <1>0, <1>r DEF Now, Holds, IntrType
  <1>q. PICK s \in BOOLEAN, l2 \in {"exit", "user"} :
          /\ IntrStep(c, 0, intena[c], s, Null, {}) /\ WhereStep(c, p, l2, tr[p])
          /\ UNCHANGED <<cproc, sidx, widx, sleepVars>>
    <2>1. CASE pkilled[p]
      <3>1. GoMain(p, "exit") /\ UNCHANGED <<intrVars, sleepVars>>
        BY Zenon, <2>1 DEF CallReturn
      <3>2. "exit" \in SchedPcs \cup ThreadPcs
        BY Zenon DEF ThreadPcs
      <3> QED
        BY Zenon, <1>g, <1>c, <1>n, <3>1, <3>2, GoMainIs, SameIs
    <2>2. CASE ~pkilled[p]
      <3>1. /\ GoMain(p, "user") /\ UNCHANGED <<noff, intena, spin, lock, sleepVars>>
            /\ sie' = [sie EXCEPT ![c] = FALSE]
        BY Zenon, <2>2 DEF CallReturn, Usertrapret
      <3>2. "user" \in SchedPcs \cup ThreadPcs
        BY Zenon DEF ThreadPcs
      <3> QED
        BY Zenon, <1>g, <1>c, <1>n, <3>1, <3>2, GoMainIs, SieIs
    <2> QED
      BY Zenon, <2>1, <2>2
  <1>i. IntrStep(c, 0, intena[c], s, Null, {})
    BY Zenon, <1>q
  <1>p. l2 \in {"exit", "user"} /\ WhereStep(c, p, l2, tr[p])
        /\ UNCHANGED <<cproc, sidx, widx, sleepVars>>
    BY Zenon, <1>q
  <1>s. SleepStep(c)
    BY Zenon, <1>g, <1>p DEF sleepVars, SleepType, SleepStep
  <1>j. pc'[p] = l2 /\ tr'[p] = "none" /\ IntrNow(c, 0, intena[c], s, Null, {})
    BY Zenon, <1>0, <1>i, <1>p DEF IntrStep, WhereStep
  <1>w. Cur(c)' = p /\ Own(c)' = p /\ At(c)' = l2 /\ Place(p)' = l2
    BY Zenon, <1>c, <1>0, <1>n, <1>j, <1>p DEF Cur, Own, At, Place
  <1>a. Depth(l2) = 0 /\ SpunAt(l2, p) = Null /\ HeldAt(l2, p) = {}
    BY Zenon, <1>p, CalmRows DEF CalmPcs
  <1>2. LockOK(c)'
    BY Zenon, <1>j, <1>w, <1>a, LockIs
  <1>3. IntrOK(c)'
    BY Zenon, <1>0, <1>n, <1>j, <1>w, <1>p, IntrSet DEF CallPcs
  <1>4. ContextOK(p)'
    BY Zenon, <1>c, <1>0, <1>n, <1>j, <1>p DEF ContextOK, SchedPcs, ThreadPcs
  <1>5. \A q \in Threads : q = p => SavedOK(q)'
    BY Zenon, <1>w, <1>p, SavedNot
  <1>6. TypeOK' /\ CpuOK' /\ Frame(c) /\ TypeOK /\ RunOK /\ TickOK /\ CpuOK
    BY Zenon, <1>n, <1>i, <1>p, <1>s, <1>2, <1>3, <1>4, <1>5, Settle
  <1>7. RunOK'
    <2>1. UNCHANGED <<cproc, pstate>> /\ sidx'[c] = sidx[c]
      BY Zenon, <1>p DEF sleepVars
    <2> QED
      BY Zenon, <1>6, <2>1, StayKeeps
  <1>8. TickOK'
    <2>1. UNCHANGED <<left, pstate>>
      BY Zenon, <1>p DEF sleepVars
    <2>2. TickFrame(c)
      BY Zenon, <1>n, <1>w, <1>p, <2>1, TickStill
    <2> QED
      BY Zenon, <1>6, <2>2, TickFrameKeeps
  <1> QED
    BY Zenon, <1>6, <1>7, <1>8 DEF IInv

(* exit() begins the acquire() of p->lock.                                 *)
LEMMA ExitAcquireKeeps ==
    ASSUME IInv, NEW c \in Cpus, NEW p \in Threads, ExitAcquire(c, p)
    PROVE  IInv'
  <1>g. IntrType /\ WhereType /\ SleepType
    BY Zenon, Parts
  <1>c. /\ Null \notin Threads /\ Threads \subseteq Locks /\ Threads \subseteq Contexts
        /\ Ticks \in Locks /\ Sched(c) \in Contexts /\ Sched(c) \notin Threads
    BY Zenon, ConstFacts
  <1>0. Now(c, p, "exit", p) /\ cproc[c] = p /\ tr[p] = "none" /\ pc[p] = "exit"
        /\ Place(p) = "exit"
    BY Zenon, ThreadAt DEF ExitAcquire
  <1>r. Depth("exit") = 0 /\ SpunAt("exit", p) = Null /\ HeldAt("exit", p) = {}
    BY Zenon, CalmRows DEF CalmPcs
  <1>n. /\ noff[c] = 0 /\ spin[c] = Null /\ Holds(c, {}) /\ Cur(c) = p /\ At(c) = "exit"
        /\ Own(c) = p
        /\ IntrOK(c) /\ ContextOK(p) /\ intena[c] \in BOOLEAN /\ sie[c] \in BOOLEAN
    BY Zenon, <1>g, <1>0, <1>r DEF Now, Holds, IntrType
  <1>i. IntrStep(c, 1, sie[c], FALSE, p, {})
    BY Zenon, <1>g, <1>c, <1>n, AcquireIs DEF ExitAcquire
  <1>p. WhereStep(c, p, "exiting", tr[p]) /\ UNCHANGED <<cproc, sidx, widx>>
    BY Zenon, <1>g, <1>c, <1>n, GoMainIs DEF ExitAcquire, SchedPcs, ThreadPcs
  <1>s. SleepStep(c)
    BY Zenon, <1>g DEF ExitAcquire, GoMain, sleepVars, SleepType, SleepStep
  <1>j. pc'[p] = "exiting" /\ tr'[p] = "none" /\ IntrNow(c, 1, sie[c], FALSE, p, {})
    BY Zenon, <1>0, <1>i, <1>p DEF IntrStep, WhereStep
  <1>w. Cur(c)' = p /\ Own(c)' = p /\ At(c)' = "exiting" /\ Place(p)' = "exiting"
    BY Zenon, <1>c, <1>0, <1>n, <1>j, <1>p DEF Cur, Own, At, Place
  <1>a. Depth("exiting") = 1 /\ SpunAt("exiting", p) = p /\ HeldAt("exiting", p) = {}
    BY Zenon, SpinOwnRows
  <1>2. LockOK(c)'
    BY Zenon, <1>j, <1>w, <1>a, LockIs
  <1>3. IntrOK(c)'
    <2>1. Onward(p)
      BY Zenon, <1>0, <1>j DEF Onward, CallPcs
    <2> QED
      BY Zenon, <1>n, <1>j, <1>w, <2>1, IntrPush
  <1>4. ContextOK(p)'
    BY Zenon, <1>c, <1>0, <1>n, <1>j DEF ContextOK, SchedPcs, ThreadPcs
  <1>5. \A q \in Threads : q = p => SavedOK(q)'
    BY Zenon, <1>w, SavedNot
  <1>6. TypeOK' /\ CpuOK' /\ Frame(c) /\ TypeOK /\ RunOK /\ TickOK /\ CpuOK
    BY Zenon, <1>n, <1>i, <1>p, <1>s, <1>2, <1>3, <1>4, <1>5, Settle
  <1>7. RunOK'
    <2>1. UNCHANGED <<cproc, pstate>> /\ (sidx'[c] = sidx[c] \/ cproc[c] = Null)
      BY Zenon, <1>0, <1>p DEF ExitAcquire, GoMain, sleepVars
    <2> QED
      BY Zenon, <1>6, <2>1, StayKeeps
  <1>8. TickOK'
    <2>1. UNCHANGED <<left, pstate>>
      BY Zenon DEF ExitAcquire, GoMain, sleepVars
    <2>2. TickFrame(c)
      BY Zenon, <1>n, <1>w, <1>p, <2>1, TickStill
    <2> QED
      BY Zenon, <1>6, <2>2, TickFrameKeeps
  <1> QED
    BY Zenon, <1>6, <1>7, <1>8 DEF IInv

(* exit() has p->lock and leaves the CPU for good, through sched().        *)
LEMMA ExitedKeeps ==
    ASSUME IInv, NEW c \in Cpus, NEW p \in Threads, Exited(c, p)
    PROVE  IInv'
  <1>g. IntrType /\ WhereType /\ SleepType
    BY Zenon, Parts
  <1>c. /\ Null \notin Threads /\ Threads \subseteq Locks /\ Threads \subseteq Contexts
        /\ Ticks \in Locks /\ Sched(c) \in Contexts /\ Sched(c) \notin Threads
    BY Zenon, ConstFacts
  <1>0. Now(c, p, "exiting", p) /\ cproc[c] = p /\ tr[p] = "none" /\ pc[p] = "exiting"
        /\ Place(p) = "exiting"
    BY Zenon, ThreadAt DEF Exited
  <1>r. Depth("exiting") = 1 /\ SpunAt("exiting", p) = p /\ HeldAt("exiting", p) = {}
    BY Zenon, SpinOwnRows
  <1>n. /\ noff[c] = 1 /\ spin[c] = p /\ Holds(c, {}) /\ Cur(c) = p /\ At(c) = "exiting"
        /\ Own(c) = p
        /\ IntrOK(c) /\ ContextOK(p) /\ intena[c] \in BOOLEAN /\ sie[c] \in BOOLEAN
    BY Zenon, <1>g, <1>0, <1>r DEF Now, Holds, IntrType
  <1>i. IntrStep(c, 1, intena[c], sie[c], Null, {p})
    BY Zenon, <1>g, <1>c, <1>n, TakeIs DEF Exited
  <1>p. WhereStep(c, p, "gone", tr[p]) /\ cproc'[c] = Null /\ UNCHANGED <<sidx, widx>>
    <2>1. /\ cproc' = [cproc EXCEPT ![c] = Null] /\ pc' = [pc EXCEPT ![p] = "gone"]
          /\ UNCHANGED <<tr, sidx, widx>>
      BY Zenon DEF Exited, Swtch
    <2>2. "gone" \in SchedPcs \cup ThreadPcs /\ Null \in Threads \cup {Null}
      BY Zenon DEF ThreadPcs
    <2> QED
      BY Zenon, <1>g, <1>c, <2>1, <2>2, SwtchIs
  <1>s. /\ SleepStep(c) /\ saved'[p] = intena[c] /\ pstate'[p] = "zombie" /\ UNCHANGED left
        /\ \A q \in Threads : q # p => pstate'[q] = pstate[q]
    <2>1. /\ pstate' = [pstate EXCEPT ![p] = "zombie"] /\ saved' = [saved EXCEPT ![p] = intena[c]]
          /\ UNCHANGED <<pkilled, left>>
      BY Zenon DEF Exited, Swtch
    <2> QED
      BY Zenon, <1>g, <1>n, <2>1, StateIs
  <1>j. pc'[p] = "gone" /\ tr'[p] = "none" /\ IntrNow(c, 1, intena[c], sie[c], Null, {p})
    BY Zenon, <1>0, <1>i, <1>p DEF IntrStep, WhereStep
  <1>b. sidx[c] = p /\ tr[Sched(c)] = "none" /\ pc[Sched(c)] = "back"
    BY Zenon, <1>c, <1>0, SchedWaits
  <1>w. /\ Cur(c)' = Sched(c) /\ Own(c)' = p /\ At(c)' = "back" /\ Place(p)' = "gone"
        /\ tr'[Sched(c)] = "none" /\ pc'[Sched(c)] = "back"
    <2>1. tr'[Sched(c)] = "none" /\ pc'[Sched(c)] = "back"
      BY Zenon, <1>b, <1>c, <1>p, <1>0 DEF WhereStep, WhereFrame
    <2>2. Cur(c)' = Sched(c) /\ Own(c)' = p
      BY Zenon, <1>b, <1>p DEF Cur, Own
    <2> QED
      BY Zenon, <2>1, <2>2, <1>j DEF At, Place
  <1>a. Depth("back") = 1 /\ SpunAt("back", p) = Null /\ HeldAt("back", p) = {p}
    BY Zenon, OwnRows DEF OwnPcs
  <1>2. LockOK(c)'
    BY Zenon, <1>j, <1>w, <1>a, LockIs
  <1>3. IntrOK(c)'
    BY Zenon, <1>n, <1>j, <1>w, IntrSwtch DEF CallPcs
  <1>4. ContextOK(p)'
    BY Zenon, <1>c, <1>0, <1>n, <1>j DEF ContextOK, SchedPcs, ThreadPcs
  <1>5. \A q \in Threads : q = p => SavedOK(q)'
    BY Zenon, <1>w, SavedNot
  <1>6. TypeOK' /\ CpuOK' /\ Frame(c) /\ TypeOK /\ RunOK /\ TickOK /\ CpuOK
    BY Zenon, <1>n, <1>i, <1>p, <1>s, <1>2, <1>3, <1>4, <1>5, Settle
  <1>7. RunOK'
    <2>1. /\ cproc[c] = p /\ UNCHANGED sidx /\ cproc' = [cproc EXCEPT ![c] = Null]
          /\ pstate' = [pstate EXCEPT ![p] = "zombie"]
      BY Zenon, <1>0 DEF Exited, Swtch
    <2>2. "zombie" # "running" /\ StateAt("zombie", Place(p)')
      BY Zenon, <1>w DEF StateAt
    <2> QED
      BY Zenon, <1>0, <1>6, <2>1, <2>2, LeaveKeeps
  <1>8. TickOK'
    <2>1. TickFrame(c)
      BY Zenon, <1>n, <1>w, <1>p, <1>s DEF TickFrame
    <2> QED
      BY Zenon, <1>6, <2>1, TickFrameKeeps
  <1> QED
    BY Zenon, <1>6, <1>7, <1>8 DEF IInv

(* sys_uptime() and sys_sleep() begin the acquire() of tickslock.          *)
LEMMA CallTicksKeeps ==
    ASSUME IInv, NEW c \in Cpus, NEW p \in Threads, CallTicks(c, p)
    PROVE  IInv'
  <1>g. IntrType /\ WhereType /\ SleepType
    BY Zenon, Parts
  <1>c. /\ Null \notin Threads /\ Threads \subseteq Locks /\ Threads \subseteq Contexts
        /\ Ticks \in Locks /\ Sched(c) \in Contexts /\ Sched(c) \notin Threads
    BY Zenon, ConstFacts
  <1>0. Now(c, p, "call", p) /\ cproc[c] = p /\ tr[p] = "none" /\ pc[p] = "call"
        /\ Place(p) = "call"
    BY Zenon, ThreadAt DEF CallTicks
  <1>r. Depth("call") = 0 /\ SpunAt("call", p) = Null /\ HeldAt("call", p) = {}
    BY Zenon, CalmRows DEF CalmPcs
  <1>n. /\ noff[c] = 0 /\ spin[c] = Null /\ Holds(c, {}) /\ Cur(c) = p /\ At(c) = "call"
        /\ Own(c) = p
        /\ IntrOK(c) /\ ContextOK(p) /\ intena[c] \in BOOLEAN /\ sie[c] \in BOOLEAN
    BY Zenon, <1>g, <1>0, <1>r DEF Now, Holds, IntrType
  <1>i. IntrStep(c, 1, sie[c], FALSE, Ticks, {})
    BY Zenon, <1>g, <1>c, <1>n, AcquireIs DEF CallTicks
  <1>p. PICK l2 \in {"sys_sleep", "uptime"} : WhereStep(c, p, l2, tr[p]) /\ UNCHANGED <<cproc, sidx, widx>>
    <2>1. \E l \in {"sys_sleep", "uptime"} : GoMain(p, l)
      BY Zenon DEF CallTicks
    <2> QED
      BY Zenon, <1>g, <1>c, <2>1, GoMainIs DEF ThreadPcs
  <1>s. SleepStep(c)
    BY Zenon, <1>g DEF CallTicks, GoMain, sleepVars, SleepType, SleepStep
  <1>j. pc'[p] = l2 /\ tr'[p] = "none" /\ IntrNow(c, 1, sie[c], FALSE, Ticks, {})
    BY Zenon, <1>0, <1>i, <1>p DEF IntrStep, WhereStep
  <1>w. Cur(c)' = p /\ Own(c)' = p /\ At(c)' = l2 /\ Place(p)' = l2
    BY Zenon, <1>c, <1>0, <1>n, <1>j, <1>p DEF Cur, Own, At, Place
  <1>a. Depth(l2) = 1 /\ SpunAt(l2, p) = Ticks /\ HeldAt(l2, p) = {}
    BY Zenon, <1>p, SpinTicksRows DEF SpinTicksPcs
  <1>2. LockOK(c)'
    BY Zenon, <1>j, <1>w, <1>a, LockIs
  <1>3. IntrOK(c)'
    <2>1. Onward(p)
      BY Zenon, <1>0, <1>j, <1>p DEF Onward, CallPcs
    <2> QED
      BY Zenon, <1>n, <1>j, <1>w, <2>1, IntrPush
  <1>4. ContextOK(p)'
    BY Zenon, <1>c, <1>0, <1>n, <1>j, <1>p DEF ContextOK, SchedPcs, ThreadPcs
  <1>5. \A q \in Threads : q = p => SavedOK(q)'
    BY Zenon, <1>w, <1>p, SavedNot
  <1>6. TypeOK' /\ CpuOK' /\ Frame(c) /\ TypeOK /\ RunOK /\ TickOK /\ CpuOK
    BY Zenon, <1>n, <1>i, <1>p, <1>s, <1>2, <1>3, <1>4, <1>5, Settle
  <1>7. RunOK'
    <2>1. UNCHANGED <<cproc, pstate>> /\ (sidx'[c] = sidx[c] \/ cproc[c] = Null)
      BY Zenon, <1>0, <1>p DEF CallTicks, GoMain, sleepVars
    <2> QED
      BY Zenon, <1>6, <2>1, StayKeeps
  <1>8. TickOK'
    <2>1. UNCHANGED <<left, pstate>>
      BY Zenon DEF CallTicks, GoMain, sleepVars
    <2>2. TickFrame(c)
      BY Zenon, <1>n, <1>w, <1>p, <2>1, TickStill
    <2> QED
      BY Zenon, <1>6, <2>2, TickFrameKeeps
  <1> QED
    BY Zenon, <1>6, <1>7, <1>8 DEF IInv

(* sys_uptime() has tickslock, reads ticks and releases it.                *)
LEMMA UptimeKeeps ==
    ASSUME IInv, NEW c \in Cpus, NEW p \in Threads, Uptime(c, p)
    PROVE  IInv'
  <1>g. IntrType /\ WhereType /\ SleepType
    BY Zenon, Parts
  <1>c. /\ Null \notin Threads /\ Threads \subseteq Locks /\ Threads \subseteq Contexts
        /\ Ticks \in Locks /\ Sched(c) \in Contexts /\ Sched(c) \notin Threads
    BY Zenon, ConstFacts
  <1>0. Now(c, p, "uptime", p) /\ cproc[c] = p /\ tr[p] = "none" /\ pc[p] = "uptime"
        /\ Place(p) = "uptime"
    BY Zenon, ThreadAt DEF Uptime
  <1>r. Depth("uptime") = 1 /\ SpunAt("uptime", p) = Ticks /\ HeldAt("uptime", p) = {}
    BY Zenon, SpinTicksRows DEF SpinTicksPcs
  <1>n. /\ noff[c] = 1 /\ spin[c] = Ticks /\ Holds(c, {}) /\ Cur(c) = p /\ At(c) = "uptime"
        /\ Own(c) = p
        /\ IntrOK(c) /\ ContextOK(p) /\ intena[c] \in BOOLEAN /\ sie[c] \in BOOLEAN
    BY Zenon, <1>g, <1>0, <1>r DEF Now, Holds, IntrType
  <1>i. IntrStep(c, 0, FALSE, sie[c] \/ intena[c], Null, {})
    BY Zenon, <1>g, <1>c, <1>n, PassIs DEF Uptime
  <1>p. WhereStep(c, p, "ret", tr[p]) /\ UNCHANGED <<cproc, sidx, widx>>
    BY Zenon, <1>g, <1>c, <1>n, GoMainIs DEF Uptime, SchedPcs, ThreadPcs
  <1>s. SleepStep(c)
    BY Zenon, <1>g DEF Uptime, GoMain, sleepVars, SleepType, SleepStep
  <1>j. pc'[p] = "ret" /\ tr'[p] = "none" /\ IntrNow(c, 0, FALSE, sie[c] \/ intena[c], Null, {})
    BY Zenon, <1>0, <1>i, <1>p DEF IntrStep, WhereStep
  <1>w. Cur(c)' = p /\ Own(c)' = p /\ At(c)' = "ret" /\ Place(p)' = "ret"
    BY Zenon, <1>c, <1>0, <1>n, <1>j, <1>p DEF Cur, Own, At, Place
  <1>a. Depth("ret") = 0 /\ SpunAt("ret", p) = Null /\ HeldAt("ret", p) = {}
    BY Zenon, CalmRows DEF CalmPcs
  <1>2. LockOK(c)'
    BY Zenon, <1>j, <1>w, <1>a, LockIs
  <1>3. IntrOK(c)'
    <2>1. (tr'[p] # "none" => ~intena[c]) /\ (tr'[p] = "none" /\ pc'[p] \in CallPcs => intena[c])
      BY Zenon, <1>0, <1>n, <1>j, IntrHeld DEF CallPcs
    <2> QED
      BY Zenon, <1>n, <1>j, <1>w, <2>1, IntrPop
  <1>4. ContextOK(p)'
    BY Zenon, <1>c, <1>0, <1>n, <1>j DEF ContextOK, SchedPcs, ThreadPcs
  <1>5. \A q \in Threads : q = p => SavedOK(q)'
    BY Zenon, <1>w, SavedNot
  <1>6. TypeOK' /\ CpuOK' /\ Frame(c) /\ TypeOK /\ RunOK /\ TickOK /\ CpuOK
    BY Zenon, <1>n, <1>i, <1>p, <1>s, <1>2, <1>3, <1>4, <1>5, Settle
  <1>7. RunOK'
    <2>1. UNCHANGED <<cproc, pstate>> /\ (sidx'[c] = sidx[c] \/ cproc[c] = Null)
      BY Zenon, <1>0, <1>p DEF Uptime, GoMain, sleepVars
    <2> QED
      BY Zenon, <1>6, <2>1, StayKeeps
  <1>8. TickOK'
    <2>1. UNCHANGED <<left, pstate>>
      BY Zenon DEF Uptime, GoMain, sleepVars
    <2>2. TickFrame(c)
      BY Zenon, <1>n, <1>w, <1>p, <2>1, TickStill
    <2> QED
      BY Zenon, <1>6, <2>2, TickFrameKeeps
  <1> QED
    BY Zenon, <1>6, <1>7, <1>8 DEF IInv

(* sys_sleep() holds tickslock, has no tick to wait for or is killed, and  *)
(* releases it.                                                            *)
LEMMA SleepReturnKeeps ==
    ASSUME IInv, NEW c \in Cpus, NEW p \in Threads, NEW l \in {"sys_sleep", "loop"}, NEW k \in Nat,
           Main(c, p, l), Free(c), SleepReturn(c, p, k), UNCHANGED <<pending, pstate, pkilled, saved>>
    PROVE  IInv'
  <1>g. IntrType /\ WhereType /\ SleepType
    BY Zenon, Parts
  <1>c. /\ Null \notin Threads /\ Threads \subseteq Locks /\ Threads \subseteq Contexts
        /\ Ticks \in Locks /\ Sched(c) \in Contexts /\ Sched(c) \notin Threads
    BY Zenon, ConstFacts
  <1>0. Now(c, p, l, p) /\ cproc[c] = p /\ tr[p] = "none" /\ pc[p] = l /\ Place(p) = l
    BY Zenon, ThreadAt
  <1>r. Depth(l) = 1 /\ SpunAt(l, p) = Ticks /\ HeldAt(l, p) = {}
    BY Zenon, SpinTicksRows DEF SpinTicksPcs
  <1>n. /\ noff[c] = 1 /\ spin[c] = Ticks /\ Holds(c, {}) /\ Cur(c) = p /\ At(c) = l /\ Own(c) = p
        /\ IntrOK(c) /\ ContextOK(p) /\ intena[c] \in BOOLEAN /\ sie[c] \in BOOLEAN
    BY Zenon, <1>g, <1>0, <1>r DEF Now, Holds, IntrType
  <1>i. IntrStep(c, 0, FALSE, sie[c] \/ intena[c], Null, {})
    BY Zenon, <1>g, <1>c, <1>n, PassIs DEF SleepReturn
  <1>p. WhereStep(c, p, "ret", tr[p]) /\ UNCHANGED <<cproc, sidx, widx>>
    BY Zenon, <1>g, <1>c, <1>n, GoMainIs DEF SleepReturn, SchedPcs, ThreadPcs
  <1>s. SleepStep(c) /\ left'[p] = 0 /\ \A q \in Threads : q # p => left'[q] = left[q]
    <2>1. left' = [left EXCEPT ![p] = 0] /\ 0 \in Nat
      BY Zenon, ConstFacts DEF SleepReturn
    <2> QED
      BY Zenon, <1>g, <2>1, LeftIs
  <1>j. pc'[p] = "ret" /\ tr'[p] = "none" /\ IntrNow(c, 0, FALSE, sie[c] \/ intena[c], Null, {})
    BY Zenon, <1>0, <1>i, <1>p DEF IntrStep, WhereStep
  <1>w. Cur(c)' = p /\ Own(c)' = p /\ At(c)' = "ret" /\ Place(p)' = "ret"
    BY Zenon, <1>c, <1>0, <1>n, <1>j, <1>p DEF Cur, Own, At, Place
  <1>a. Depth("ret") = 0 /\ SpunAt("ret", p) = Null /\ HeldAt("ret", p) = {}
    BY Zenon, CalmRows DEF CalmPcs
  <1>2. LockOK(c)'
    BY Zenon, <1>j, <1>w, <1>a, LockIs
  <1>3. IntrOK(c)'
    <2>1. (tr'[p] # "none" => ~intena[c]) /\ (tr'[p] = "none" /\ pc'[p] \in CallPcs => intena[c])
      BY Zenon, <1>0, <1>n, <1>j, IntrHeld DEF CallPcs
    <2> QED
      BY Zenon, <1>n, <1>j, <1>w, <2>1, IntrPop
  <1>4. ContextOK(p)'
    BY Zenon, <1>c, <1>0, <1>n, <1>j DEF ContextOK, SchedPcs, ThreadPcs
  <1>5. \A q \in Threads : q = p => SavedOK(q)'
    BY Zenon, <1>w, SavedNot
  <1>6. TypeOK' /\ CpuOK' /\ Frame(c) /\ TypeOK /\ RunOK /\ TickOK /\ CpuOK
    BY Zenon, <1>n, <1>i, <1>p, <1>s, <1>2, <1>3, <1>4, <1>5, Settle
  <1>7. RunOK'
    <2>1. UNCHANGED <<cproc, pstate>> /\ (sidx'[c] = sidx[c] \/ cproc[c] = Null)
      BY Zenon, <1>0, <1>p DEF SleepReturn, GoMain
    <2> QED
      BY Zenon, <1>6, <2>1, StayKeeps
  <1>8. TickOK'
    <2>1. UNCHANGED pstate
      BY Zenon DEF SleepReturn
    <2>2. TickFrame(c)
      BY Zenon, <1>n, <1>s, <1>w, <1>p, <2>1, TickStill
    <2> QED
      BY Zenon, <1>6, <2>2, TickFrameKeeps
  <1> QED
    BY Zenon, <1>6, <1>7, <1>8 DEF IInv

(* sys_sleep() holds tickslock and has ticks to wait for: it keeps the     *)
(* lock on its way to sleep().                                             *)
LEMMA SleepAgainKeeps ==
    ASSUME IInv, NEW c \in Cpus, NEW p \in Threads, NEW l \in {"sys_sleep", "loop"}, NEW k \in Nat,
           Main(c, p, l), Free(c), SleepAgain(c, p, k), UNCHANGED <<pending, pstate, pkilled, saved>>
    PROVE  IInv'
  <1>g. IntrType /\ WhereType /\ SleepType
    BY Zenon, Parts
  <1>c. /\ Null \notin Threads /\ Threads \subseteq Locks /\ Threads \subseteq Contexts
        /\ Ticks \in Locks /\ Sched(c) \in Contexts /\ Sched(c) \notin Threads
    BY Zenon, ConstFacts
  <1>0. Now(c, p, l, p) /\ cproc[c] = p /\ tr[p] = "none" /\ pc[p] = l /\ Place(p) = l
    BY Zenon, ThreadAt
  <1>r. Depth(l) = 1 /\ SpunAt(l, p) = Ticks /\ HeldAt(l, p) = {}
    BY Zenon, SpinTicksRows DEF SpinTicksPcs
  <1>n. /\ noff[c] = 1 /\ spin[c] = Ticks /\ Holds(c, {}) /\ Cur(c) = p /\ At(c) = l /\ Own(c) = p
        /\ IntrOK(c) /\ ContextOK(p) /\ intena[c] \in BOOLEAN /\ sie[c] \in BOOLEAN
    BY Zenon, <1>g, <1>0, <1>r DEF Now, Holds, IntrType
  <1>i. IntrStep(c, 1, intena[c], sie[c], Null, {Ticks})
    BY Zenon, <1>g, <1>c, <1>n, TakeIs DEF SleepAgain
  <1>p. WhereStep(c, p, "sleep", tr[p]) /\ UNCHANGED <<cproc, sidx, widx>>
    BY Zenon, <1>g, <1>c, <1>n, GoMainIs DEF SleepAgain, SchedPcs, ThreadPcs
  <1>s. SleepStep(c) /\ left'[p] = k /\ \A q \in Threads : q # p => left'[q] = left[q]
    <2>1. left' = [left EXCEPT ![p] = k] /\ k \in Nat
      BY Zenon DEF SleepAgain
    <2> QED
      BY Zenon, <1>g, <2>1, LeftIs
  <1>j. pc'[p] = "sleep" /\ tr'[p] = "none" /\ IntrNow(c, 1, intena[c], sie[c], Null, {Ticks})
    BY Zenon, <1>0, <1>i, <1>p DEF IntrStep, WhereStep
  <1>w. Cur(c)' = p /\ Own(c)' = p /\ At(c)' = "sleep" /\ Place(p)' = "sleep"
    BY Zenon, <1>c, <1>0, <1>n, <1>j, <1>p DEF Cur, Own, At, Place
  <1>a. Depth("sleep") = 1 /\ SpunAt("sleep", p) = Null /\ HeldAt("sleep", p) = {Ticks}
    BY Zenon, TicksRows
  <1>2. LockOK(c)'
    BY Zenon, <1>j, <1>w, <1>a, LockIs
  <1>3. IntrOK(c)'
    <2>1. Onward(p)
      BY Zenon, <1>0, <1>j DEF Onward, CallPcs
    <2>2. noff[c] > 0
      BY SMTT(60), <1>n
    <2> QED
      BY Zenon, <1>n, <1>j, <1>w, <2>1, <2>2, IntrDeep
  <1>4. ContextOK(p)'
    BY Zenon, <1>c, <1>0, <1>n, <1>j DEF ContextOK, SchedPcs, ThreadPcs
  <1>5. \A q \in Threads : q = p => SavedOK(q)'
    BY Zenon, <1>w, SavedNot
  <1>6. TypeOK' /\ CpuOK' /\ Frame(c) /\ TypeOK /\ RunOK /\ TickOK /\ CpuOK
    BY Zenon, <1>n, <1>i, <1>p, <1>s, <1>2, <1>3, <1>4, <1>5, Settle
  <1>7. RunOK'
    <2>1. UNCHANGED <<cproc, pstate>> /\ (sidx'[c] = sidx[c] \/ cproc[c] = Null)
      BY Zenon, <1>0, <1>p DEF SleepAgain, GoMain
    <2> QED
      BY Zenon, <1>6, <2>1, StayKeeps
  <1>8. TickOK'
    <2>1. UNCHANGED pstate /\ k > 0
      BY Zenon DEF SleepAgain
    <2>2. TickFrame(c)
      BY Zenon, <1>n, <1>s, <1>w, <1>p, <2>1, TickStill
    <2> QED
      BY Zenon, <1>6, <2>2, TickFrameKeeps
  <1> QED
    BY Zenon, <1>6, <1>7, <1>8 DEF IInv

(* sleep() begins the acquire() of p->lock, with tickslock held.           *)
LEMMA SleepKeeps ==
    ASSUME IInv, NEW c \in Cpus, NEW p \in Threads, Sleep(c, p)
    PROVE  IInv'
  <1>g. IntrType /\ WhereType /\ SleepType
    BY Zenon, Parts
  <1>c. /\ Null \notin Threads /\ Threads \subseteq Locks /\ Threads \subseteq Contexts
        /\ Ticks \in Locks /\ Sched(c) \in Contexts /\ Sched(c) \notin Threads
    BY Zenon, ConstFacts
  <1>0. Now(c, p, "sleep", p) /\ cproc[c] = p /\ tr[p] = "none" /\ pc[p] = "sleep"
        /\ Place(p) = "sleep"
    BY Zenon, ThreadAt DEF Sleep
  <1>r. Depth("sleep") = 1 /\ SpunAt("sleep", p) = Null /\ HeldAt("sleep", p) = {Ticks}
    BY Zenon, TicksRows
  <1>n. /\ noff[c] = 1 /\ spin[c] = Null /\ Holds(c, {Ticks}) /\ Cur(c) = p /\ At(c) = "sleep"
        /\ Own(c) = p
        /\ IntrOK(c) /\ ContextOK(p) /\ intena[c] \in BOOLEAN /\ sie[c] \in BOOLEAN
    BY Zenon, <1>g, <1>0, <1>r DEF Now, Holds, IntrType
  <1>i. IntrStep(c, 2, intena[c], FALSE, p, {Ticks})
    BY Zenon, <1>g, <1>c, <1>n, AcquireMoreIs DEF Sleep
  <1>p. WhereStep(c, p, "sleeping", tr[p]) /\ UNCHANGED <<cproc, sidx, widx>>
    BY Zenon, <1>g, <1>c, <1>n, GoMainIs DEF Sleep, SchedPcs, ThreadPcs
  <1>s. SleepStep(c)
    BY Zenon, <1>g DEF Sleep, GoMain, sleepVars, SleepType, SleepStep
  <1>j. pc'[p] = "sleeping" /\ tr'[p] = "none" /\ IntrNow(c, 2, intena[c], FALSE, p, {Ticks})
    BY Zenon, <1>0, <1>i, <1>p DEF IntrStep, WhereStep
  <1>w. Cur(c)' = p /\ Own(c)' = p /\ At(c)' = "sleeping" /\ Place(p)' = "sleeping"
    BY Zenon, <1>c, <1>0, <1>n, <1>j, <1>p DEF Cur, Own, At, Place
  <1>a. Depth("sleeping") = 2 /\ SpunAt("sleeping", p) = p /\ HeldAt("sleeping", p) = {Ticks}
    BY Zenon, SleepingRow
  <1>2. LockOK(c)'
    BY Zenon, <1>j, <1>w, <1>a, LockIs
  <1>3. IntrOK(c)'
    <2>1. Onward(p)
      BY Zenon, <1>0, <1>j DEF Onward, CallPcs
    <2> QED
      BY Zenon, <1>n, <1>j, <1>w, <2>1, IntrMore
  <1>4. ContextOK(p)'
    BY Zenon, <1>c, <1>0, <1>n, <1>j DEF ContextOK, SchedPcs, ThreadPcs
  <1>5. \A q \in Threads : q = p => SavedOK(q)'
    BY Zenon, <1>w, SavedNot
  <1>6. TypeOK' /\ CpuOK' /\ Frame(c) /\ TypeOK /\ RunOK /\ TickOK /\ CpuOK
    BY Zenon, <1>n, <1>i, <1>p, <1>s, <1>2, <1>3, <1>4, <1>5, Settle
  <1>7. RunOK'
    <2>1. UNCHANGED <<cproc, pstate>> /\ (sidx'[c] = sidx[c] \/ cproc[c] = Null)
      BY Zenon, <1>0, <1>p DEF Sleep, GoMain, sleepVars
    <2> QED
      BY Zenon, <1>6, <2>1, StayKeeps
  <1>8. TickOK'
    <2>1. UNCHANGED <<left, pstate>> /\ left[p] > 0
      BY Zenon, <1>0, Parts DEF Sleep, sleepVars, TickOK
    <2>2. TickFrame(c)
      BY Zenon, <1>n, <1>w, <1>p, <2>1, TickStill
    <2> QED
      BY Zenon, <1>6, <2>2, TickFrameKeeps
  <1> QED
    BY Zenon, <1>6, <1>7, <1>8 DEF IInv

(* sleep() has p->lock and releases tickslock: noff goes from two to one.  *)
LEMMA SleepingKeeps ==
    ASSUME IInv, NEW c \in Cpus, NEW p \in Threads, Sleeping(c, p)
    PROVE  IInv'
  <1>g. IntrType /\ WhereType /\ SleepType
    BY Zenon, Parts
  <1>c. /\ Null \notin Threads /\ Threads \subseteq Locks /\ Threads \subseteq Contexts
        /\ Ticks \in Locks /\ Sched(c) \in Contexts /\ Sched(c) \notin Threads
    BY Zenon, ConstFacts
  <1>0. Now(c, p, "sleeping", p) /\ cproc[c] = p /\ tr[p] = "none" /\ pc[p] = "sleeping"
        /\ Place(p) = "sleeping"
    BY Zenon, ThreadAt DEF Sleeping
  <1>r. Depth("sleeping") = 2 /\ SpunAt("sleeping", p) = p /\ HeldAt("sleeping", p) = {Ticks}
    BY Zenon, SleepingRow
  <1>n. /\ noff[c] = 2 /\ spin[c] = p /\ Holds(c, {Ticks}) /\ Cur(c) = p /\ At(c) = "sleeping"
        /\ Own(c) = p
        /\ IntrOK(c) /\ ContextOK(p) /\ intena[c] \in BOOLEAN /\ sie[c] \in BOOLEAN
    BY Zenon, <1>g, <1>0, <1>r DEF Now, Holds, IntrType
  <1>i. IntrStep(c, 1, intena[c], sie[c], Null, {p})
    BY Zenon, <1>g, <1>c, <1>n, SleepingIs DEF Sleeping
  <1>p. WhereStep(c, p, "asleep", tr[p]) /\ UNCHANGED <<cproc, sidx, widx>>
    BY Zenon, <1>g, <1>c, <1>n, GoMainIs DEF Sleeping, SchedPcs, ThreadPcs
  <1>s. SleepStep(c)
    BY Zenon, <1>g DEF Sleeping, GoMain, sleepVars, SleepType, SleepStep
  <1>j. pc'[p] = "asleep" /\ tr'[p] = "none" /\ IntrNow(c, 1, intena[c], sie[c], Null, {p})
    BY Zenon, <1>0, <1>i, <1>p DEF IntrStep, WhereStep
  <1>w. Cur(c)' = p /\ Own(c)' = p /\ At(c)' = "asleep" /\ Place(p)' = "asleep"
    BY Zenon, <1>c, <1>0, <1>n, <1>j, <1>p DEF Cur, Own, At, Place
  <1>a. Depth("asleep") = 1 /\ SpunAt("asleep", p) = Null /\ HeldAt("asleep", p) = {p}
    BY Zenon, OwnRows DEF OwnPcs
  <1>2. LockOK(c)'
    BY Zenon, <1>j, <1>w, <1>a, LockIs
  <1>3. IntrOK(c)'
    <2>1. Onward(p)
      BY Zenon, <1>0, <1>j DEF Onward, CallPcs
    <2>2. noff[c] > 0
      BY SMTT(60), <1>n
    <2> QED
      BY Zenon, <1>n, <1>j, <1>w, <2>1, <2>2, IntrDeep
  <1>4. ContextOK(p)'
    BY Zenon, <1>c, <1>0, <1>n, <1>j DEF ContextOK, SchedPcs, ThreadPcs
  <1>5. \A q \in Threads : q = p => SavedOK(q)'
    BY Zenon, <1>w, SavedNot
  <1>6. TypeOK' /\ CpuOK' /\ Frame(c) /\ TypeOK /\ RunOK /\ TickOK /\ CpuOK
    BY Zenon, <1>n, <1>i, <1>p, <1>s, <1>2, <1>3, <1>4, <1>5, Settle
  <1>7. RunOK'
    <2>1. UNCHANGED <<cproc, pstate>> /\ (sidx'[c] = sidx[c] \/ cproc[c] = Null)
      BY Zenon, <1>0, <1>p DEF Sleeping, GoMain, sleepVars
    <2> QED
      BY Zenon, <1>6, <2>1, StayKeeps
  <1>8. TickOK'
    <2>1. UNCHANGED <<left, pstate>> /\ left[p] > 0
      BY Zenon, <1>0, Parts DEF Sleeping, sleepVars, TickOK
    <2>2. TickFrame(c)
      BY Zenon, <1>n, <1>w, <1>p, <2>1, TickStill
    <2> QED
      BY Zenon, <1>6, <2>2, TickFrameKeeps
  <1> QED
    BY Zenon, <1>6, <1>7, <1>8 DEF IInv

(* sleep() marks p as sleeping and switches to scheduler(), with intena    *)
(* saved by sched().                                                       *)
LEMMA AsleepKeeps ==
    ASSUME IInv, NEW c \in Cpus, NEW p \in Threads, Asleep(c, p)
    PROVE  IInv'
  <1>g. IntrType /\ WhereType /\ SleepType
    BY Zenon, Parts
  <1>c. /\ Null \notin Threads /\ Threads \subseteq Locks /\ Threads \subseteq Contexts
        /\ Ticks \in Locks /\ Sched(c) \in Contexts /\ Sched(c) \notin Threads
    BY Zenon, ConstFacts
  <1>0. Now(c, p, "asleep", p) /\ cproc[c] = p /\ tr[p] = "none" /\ pc[p] = "asleep"
        /\ Place(p) = "asleep"
    BY Zenon, ThreadAt DEF Asleep
  <1>r. Depth("asleep") = 1 /\ SpunAt("asleep", p) = Null /\ HeldAt("asleep", p) = {p}
    BY Zenon, OwnRows DEF OwnPcs
  <1>n. /\ noff[c] = 1 /\ spin[c] = Null /\ Holds(c, {p}) /\ Cur(c) = p /\ At(c) = "asleep"
        /\ Own(c) = p
        /\ IntrOK(c) /\ ContextOK(p) /\ intena[c] \in BOOLEAN /\ sie[c] \in BOOLEAN
    BY Zenon, <1>g, <1>0, <1>r DEF Now, Holds, IntrType
  <1>i. IntrStep(c, 1, intena[c], sie[c], Null, {p})
    BY Zenon, <1>g, <1>c, <1>n, SameIs DEF Asleep
  <1>p. WhereStep(c, p, "slept", tr[p]) /\ cproc'[c] = Null /\ UNCHANGED <<sidx, widx>>
    <2>1. /\ cproc' = [cproc EXCEPT ![c] = Null] /\ pc' = [pc EXCEPT ![p] = "slept"]
          /\ UNCHANGED <<tr, sidx, widx>>
      BY Zenon DEF Asleep, Swtch
    <2>2. "slept" \in SchedPcs \cup ThreadPcs /\ Null \in Threads \cup {Null}
      BY Zenon DEF ThreadPcs
    <2> QED
      BY Zenon, <1>g, <1>c, <2>1, <2>2, SwtchIs
  <1>s. /\ SleepStep(c) /\ saved'[p] = intena[c] /\ pstate'[p] = "sleeping" /\ UNCHANGED left
        /\ \A q \in Threads : q # p => pstate'[q] = pstate[q]
    <2>1. /\ pstate' = [pstate EXCEPT ![p] = "sleeping"] /\ saved' = [saved EXCEPT ![p] = intena[c]]
          /\ UNCHANGED <<pkilled, left>>
      BY Zenon DEF Asleep, Swtch
    <2> QED
      BY Zenon, <1>g, <1>n, <2>1, StateIs
  <1>j. pc'[p] = "slept" /\ tr'[p] = "none" /\ IntrNow(c, 1, intena[c], sie[c], Null, {p})
    BY Zenon, <1>0, <1>i, <1>p DEF IntrStep, WhereStep
  <1>b. sidx[c] = p /\ tr[Sched(c)] = "none" /\ pc[Sched(c)] = "back"
    BY Zenon, <1>c, <1>0, SchedWaits
  <1>w. /\ Cur(c)' = Sched(c) /\ Own(c)' = p /\ At(c)' = "back" /\ Place(p)' = "slept"
        /\ tr'[Sched(c)] = "none" /\ pc'[Sched(c)] = "back"
    <2>1. tr'[Sched(c)] = "none" /\ pc'[Sched(c)] = "back"
      BY Zenon, <1>b, <1>c, <1>p, <1>0 DEF WhereStep, WhereFrame
    <2>2. Cur(c)' = Sched(c) /\ Own(c)' = p
      BY Zenon, <1>b, <1>p DEF Cur, Own
    <2> QED
      BY Zenon, <2>1, <2>2, <1>j DEF At, Place
  <1>a. Depth("back") = 1 /\ SpunAt("back", p) = Null /\ HeldAt("back", p) = {p}
    BY Zenon, OwnRows DEF OwnPcs
  <1>2. LockOK(c)'
    BY Zenon, <1>j, <1>w, <1>a, LockIs
  <1>3. IntrOK(c)'
    BY Zenon, <1>n, <1>j, <1>w, IntrSwtch DEF CallPcs
  <1>4. ContextOK(p)'
    BY Zenon, <1>c, <1>0, <1>n, <1>j DEF ContextOK, SchedPcs, ThreadPcs
  <1>5. \A q \in Threads : q = p => SavedOK(q)'
    <2>1. intena[c]
      BY Zenon, <1>0, <1>n, IntrHeld DEF CallPcs
    <2> QED
      BY Zenon, <1>w, <1>s, <2>1 DEF SavedOK
  <1>6. TypeOK' /\ CpuOK' /\ Frame(c) /\ TypeOK /\ RunOK /\ TickOK /\ CpuOK
    BY Zenon, <1>n, <1>i, <1>p, <1>s, <1>2, <1>3, <1>4, <1>5, Settle
  <1>7. RunOK'
    <2>1. /\ cproc[c] = p /\ UNCHANGED sidx /\ cproc' = [cproc EXCEPT ![c] = Null]
          /\ pstate' = [pstate EXCEPT ![p] = "sleeping"]
      BY Zenon, <1>0 DEF Asleep, Swtch
    <2>2. "sleeping" # "running" /\ StateAt("sleeping", Place(p)')
      BY Zenon, <1>w DEF StateAt
    <2> QED
      BY Zenon, <1>0, <1>6, <2>1, <2>2, LeaveKeeps
  <1>8. TickOK'
    BY Zenon, <1>6, TickAsleep
  <1> QED
    BY Zenon, <1>6, <1>7, <1>8 DEF IInv

(* sched() has come back in sleep(), which restores intena and releases    *)
(* p->lock.                                                                *)
LEMMA SleptKeeps ==
    ASSUME IInv, NEW c \in Cpus, NEW p \in Threads, Slept(c, p)
    PROVE  IInv'
  <1>g. IntrType /\ WhereType /\ SleepType
    BY Zenon, Parts
  <1>c. /\ Null \notin Threads /\ Threads \subseteq Locks /\ Threads \subseteq Contexts
        /\ Ticks \in Locks /\ Sched(c) \in Contexts /\ Sched(c) \notin Threads
    BY Zenon, ConstFacts
  <1>0. Now(c, p, "slept", p) /\ cproc[c] = p /\ tr[p] = "none" /\ pc[p] = "slept"
        /\ Place(p) = "slept"
    BY Zenon, ThreadAt DEF Slept
  <1>r. Depth("slept") = 1 /\ SpunAt("slept", p) = Null /\ HeldAt("slept", p) = {p}
    BY Zenon, OwnRows DEF OwnPcs
  <1>n. /\ noff[c] = 1 /\ spin[c] = Null /\ Holds(c, {p}) /\ Cur(c) = p /\ At(c) = "slept"
        /\ Own(c) = p
        /\ IntrOK(c) /\ ContextOK(p) /\ intena[c] \in BOOLEAN /\ sie[c] \in BOOLEAN
    BY Zenon, <1>g, <1>0, <1>r DEF Now, Holds, IntrType
  <1>h. saved[p] \in BOOLEAN /\ saved[p]
    BY Zenon, <1>g, <1>0, Parts DEF SleepType, CpuOK, SavedOK
  <1>i. IntrStep(c, 0, FALSE, sie[c] \/ saved[p], Null, {})
    BY Zenon, <1>g, <1>c, <1>n, <1>h, ReleaseIs DEF Slept, SchedReturn
  <1>p. WhereStep(c, p, "woken", tr[p]) /\ UNCHANGED <<cproc, sidx, widx>>
    BY Zenon, <1>g, <1>c, <1>n, GoMainIs DEF Slept, SchedPcs, ThreadPcs
  <1>s. SleepStep(c)
    <2>1. saved' = [saved EXCEPT ![p] = FALSE] /\ UNCHANGED <<pstate, pkilled, left>>
      BY Zenon DEF Slept, SchedReturn
    <2> QED
      BY Zenon, <1>g, <1>n, <2>1, SavedIs
  <1>j. pc'[p] = "woken" /\ tr'[p] = "none" /\ IntrNow(c, 0, FALSE, sie[c] \/ saved[p], Null, {})
    BY Zenon, <1>0, <1>i, <1>p DEF IntrStep, WhereStep
  <1>w. Cur(c)' = p /\ Own(c)' = p /\ At(c)' = "woken" /\ Place(p)' = "woken"
    BY Zenon, <1>c, <1>0, <1>n, <1>j, <1>p DEF Cur, Own, At, Place
  <1>a. Depth("woken") = 0 /\ SpunAt("woken", p) = Null /\ HeldAt("woken", p) = {}
    BY Zenon, CalmRows DEF CalmPcs
  <1>2. LockOK(c)'
    BY Zenon, <1>j, <1>w, <1>a, LockIs
  <1>3. IntrOK(c)'
    <2>1. (tr'[p] # "none" => ~saved[p]) /\ (tr'[p] = "none" /\ pc'[p] \in CallPcs => saved[p])
      BY Zenon, <1>0, <1>n, <1>j, <1>h, IntrHeld DEF CallPcs
    <2> QED
      BY Zenon, <1>n, <1>j, <1>w, <2>1, IntrPop
  <1>4. ContextOK(p)'
    BY Zenon, <1>c, <1>0, <1>n, <1>j DEF ContextOK, SchedPcs, ThreadPcs
  <1>5. \A q \in Threads : q = p => SavedOK(q)'
    BY Zenon, <1>w, SavedNot
  <1>6. TypeOK' /\ CpuOK' /\ Frame(c) /\ TypeOK /\ RunOK /\ TickOK /\ CpuOK
    BY Zenon, <1>n, <1>i, <1>p, <1>s, <1>2, <1>3, <1>4, <1>5, Settle
  <1>7. RunOK'
    <2>1. UNCHANGED <<cproc, pstate>> /\ (sidx'[c] = sidx[c] \/ cproc[c] = Null)
      BY Zenon, <1>0, <1>p DEF Slept, GoMain
    <2> QED
      BY Zenon, <1>6, <2>1, StayKeeps
  <1>8. TickOK'
    <2>1. UNCHANGED <<left, pstate>>
      BY Zenon DEF Slept, GoMain
    <2>2. TickFrame(c)
      BY Zenon, <1>n, <1>w, <1>p, <2>1, TickStill
    <2> QED
      BY Zenon, <1>6, <2>2, TickFrameKeeps
  <1> QED
    BY Zenon, <1>6, <1>7, <1>8 DEF IInv

(* sleep() begins the acquire() of tickslock again.                        *)
LEMMA ReacquireKeeps ==
    ASSUME IInv, NEW c \in Cpus, NEW p \in Threads, Reacquire(c, p)
    PROVE  IInv'
  <1>g. IntrType /\ WhereType /\ SleepType
    BY Zenon, Parts
  <1>c. /\ Null \notin Threads /\ Threads \subseteq Locks /\ Threads \subseteq Contexts
        /\ Ticks \in Locks /\ Sched(c) \in Contexts /\ Sched(c) \notin Threads
    BY Zenon, ConstFacts
  <1>0. Now(c, p, "woken", p) /\ cproc[c] = p /\ tr[p] = "none" /\ pc[p] = "woken"
        /\ Place(p) = "woken"
    BY Zenon, ThreadAt DEF Reacquire
  <1>r. Depth("woken") = 0 /\ SpunAt("woken", p) = Null /\ HeldAt("woken", p) = {}
    BY Zenon, CalmRows DEF CalmPcs
  <1>n. /\ noff[c] = 0 /\ spin[c] = Null /\ Holds(c, {}) /\ Cur(c) = p /\ At(c) = "woken"
        /\ Own(c) = p
        /\ IntrOK(c) /\ ContextOK(p) /\ intena[c] \in BOOLEAN /\ sie[c] \in BOOLEAN
    BY Zenon, <1>g, <1>0, <1>r DEF Now, Holds, IntrType
  <1>i. IntrStep(c, 1, sie[c], FALSE, Ticks, {})
    BY Zenon, <1>g, <1>c, <1>n, AcquireIs DEF Reacquire
  <1>p. WhereStep(c, p, "loop", tr[p]) /\ UNCHANGED <<cproc, sidx, widx>>
    BY Zenon, <1>g, <1>c, <1>n, GoMainIs DEF Reacquire, SchedPcs, ThreadPcs
  <1>s. SleepStep(c)
    BY Zenon, <1>g DEF Reacquire, GoMain, sleepVars, SleepType, SleepStep
  <1>j. pc'[p] = "loop" /\ tr'[p] = "none" /\ IntrNow(c, 1, sie[c], FALSE, Ticks, {})
    BY Zenon, <1>0, <1>i, <1>p DEF IntrStep, WhereStep
  <1>w. Cur(c)' = p /\ Own(c)' = p /\ At(c)' = "loop" /\ Place(p)' = "loop"
    BY Zenon, <1>c, <1>0, <1>n, <1>j, <1>p DEF Cur, Own, At, Place
  <1>a. Depth("loop") = 1 /\ SpunAt("loop", p) = Ticks /\ HeldAt("loop", p) = {}
    BY Zenon, SpinTicksRows DEF SpinTicksPcs
  <1>2. LockOK(c)'
    BY Zenon, <1>j, <1>w, <1>a, LockIs
  <1>3. IntrOK(c)'
    <2>1. Onward(p)
      BY Zenon, <1>0, <1>j DEF Onward, CallPcs
    <2> QED
      BY Zenon, <1>n, <1>j, <1>w, <2>1, IntrPush
  <1>4. ContextOK(p)'
    BY Zenon, <1>c, <1>0, <1>n, <1>j DEF ContextOK, SchedPcs, ThreadPcs
  <1>5. \A q \in Threads : q = p => SavedOK(q)'
    BY Zenon, <1>w, SavedNot
  <1>6. TypeOK' /\ CpuOK' /\ Frame(c) /\ TypeOK /\ RunOK /\ TickOK /\ CpuOK
    BY Zenon, <1>n, <1>i, <1>p, <1>s, <1>2, <1>3, <1>4, <1>5, Settle
  <1>7. RunOK'
    <2>1. UNCHANGED <<cproc, pstate>> /\ (sidx'[c] = sidx[c] \/ cproc[c] = Null)
      BY Zenon, <1>0, <1>p DEF Reacquire, GoMain, sleepVars
    <2> QED
      BY Zenon, <1>6, <2>1, StayKeeps
  <1>8. TickOK'
    <2>1. UNCHANGED <<left, pstate>>
      BY Zenon DEF Reacquire, GoMain, sleepVars
    <2>2. TickFrame(c)
      BY Zenon, <1>n, <1>w, <1>p, <2>1, TickStill
    <2> QED
      BY Zenon, <1>6, <2>2, TickFrameKeeps
  <1> QED
    BY Zenon, <1>6, <1>7, <1>8 DEF IInv

(* clockintr() begins the acquire() of tickslock.                          *)
LEMMA ClockKeeps ==
    ASSUME IInv, NEW c \in Cpus, Clock(c)
    PROVE  IInv'
  <1>g. IntrType /\ WhereType /\ SleepType
    BY Zenon, Parts
  <1>c. /\ Null \notin Threads /\ Threads \subseteq Locks /\ Threads \subseteq Contexts
        /\ Ticks \in Locks /\ Sched(c) \in Contexts /\ Sched(c) \notin Threads
    BY Zenon, ConstFacts
  <1>x. PICK x \in Contexts, o \in Threads : x = Cur(c) /\ o = Own(c)
    BY Zenon, NowFacts DEF Now
  <1>0. Now(c, x, "clock", o) /\ tr[x] = "clock" /\ (cproc[c] # Null <=> x \in Threads)
    BY Zenon, <1>x, TrapAt DEF Clock
  <1>r. Depth("clock") = 0 /\ SpunAt("clock", o) = Null /\ HeldAt("clock", o) = {}
    BY Zenon, CalmRows DEF CalmPcs
  <1>n. /\ noff[c] = 0 /\ spin[c] = Null /\ Holds(c, {}) /\ Cur(c) = x /\ At(c) = "clock"
        /\ Own(c) = o
        /\ IntrOK(c) /\ ContextOK(x) /\ intena[c] \in BOOLEAN /\ sie[c] \in BOOLEAN
    BY Zenon, <1>g, <1>0, <1>r DEF Now, Holds, IntrType
  <1>i. IntrStep(c, 1, sie[c], FALSE, Ticks, {})
    BY Zenon, <1>g, <1>c, <1>n, AcquireIs DEF Clock
  <1>p. WhereStep(c, x, pc[x], "tick") /\ UNCHANGED <<cproc, sidx, widx>>
    BY Zenon, <1>g, <1>0, <1>n, GoTrapIs DEF Clock, TrapPcs
  <1>s. SleepStep(c)
    BY Zenon, <1>g DEF Clock, GoTrap, sleepVars, SleepType, SleepStep
  <1>j. pc'[x] = pc[x] /\ tr'[x] = "tick" /\ IntrNow(c, 1, sie[c], FALSE, Ticks, {})
    BY Zenon, <1>0, <1>i, <1>p DEF IntrStep, WhereStep
  <1>w. Cur(c)' = x /\ Own(c)' = o /\ At(c)' = "tick" /\ Place(x)' = "tick"
    BY Zenon, <1>c, <1>0, <1>n, <1>j, <1>p DEF Cur, Own, At, Place
  <1>a. Depth("tick") = 1 /\ SpunAt("tick", o) = Ticks /\ HeldAt("tick", o) = {}
    BY Zenon, SpinTicksRows DEF SpinTicksPcs
  <1>2. LockOK(c)'
    BY Zenon, <1>j, <1>w, <1>a, LockIs
  <1>3. IntrOK(c)'
    <2>1. Onward(x)
      BY Zenon, <1>0, <1>j DEF Onward, CallPcs
    <2> QED
      BY Zenon, <1>n, <1>j, <1>w, <2>1, IntrPush
  <1>4. ContextOK(x)'
    BY Zenon, <1>c, <1>0, <1>n, <1>j DEF ContextOK, SchedPcs, ThreadPcs
  <1>5. \A q \in Threads : q = x => SavedOK(q)'
    BY Zenon, <1>w, SavedNot
  <1>6. TypeOK' /\ CpuOK' /\ Frame(c) /\ TypeOK /\ RunOK /\ TickOK /\ CpuOK
    BY Zenon, <1>n, <1>i, <1>p, <1>s, <1>2, <1>3, <1>4, <1>5, Settle
  <1>7. RunOK'
    <2>1. UNCHANGED <<cproc, pstate>> /\ (sidx'[c] = sidx[c] \/ cproc[c] = Null)
      BY Zenon, <1>0, <1>p DEF Clock, GoTrap, sleepVars
    <2> QED
      BY Zenon, <1>6, <2>1, StayKeeps
  <1>8. TickOK'
    <2>1. UNCHANGED <<left, pstate>>
      BY Zenon DEF Clock, GoTrap, sleepVars
    <2>2. TickFrame(c)
      BY Zenon, <1>n, <1>w, <1>p, <2>1, TickStill
    <2> QED
      BY Zenon, <1>6, <2>2, TickFrameKeeps
  <1> QED
    BY Zenon, <1>6, <1>7, <1>8 DEF IInv

(* clockintr() has tickslock, counts the tick and starts its wakeup().     *)
LEMMA TickKeeps ==
    ASSUME IInv, NEW c \in Cpus, Tick(c)
    PROVE  IInv'
  <1>g. IntrType /\ WhereType /\ SleepType
    BY Zenon, Parts
  <1>c. /\ Null \notin Threads /\ Threads \subseteq Locks /\ Threads \subseteq Contexts
        /\ Ticks \in Locks /\ Sched(c) \in Contexts /\ Sched(c) \notin Threads
    BY Zenon, ConstFacts
  <1>x. PICK x \in Contexts, o \in Threads : x = Cur(c) /\ o = Own(c)
    BY Zenon, NowFacts DEF Now
  <1>0. Now(c, x, "tick", o) /\ tr[x] = "tick" /\ (cproc[c] # Null <=> x \in Threads)
    BY Zenon, <1>x, TrapAt DEF Tick
  <1>r. Depth("tick") = 1 /\ SpunAt("tick", o) = Ticks /\ HeldAt("tick", o) = {}
    BY Zenon, SpinTicksRows DEF SpinTicksPcs
  <1>n. /\ noff[c] = 1 /\ spin[c] = Ticks /\ Holds(c, {}) /\ Cur(c) = x /\ At(c) = "tick"
        /\ Own(c) = o
        /\ IntrOK(c) /\ ContextOK(x) /\ intena[c] \in BOOLEAN /\ sie[c] \in BOOLEAN
    BY Zenon, <1>g, <1>0, <1>r DEF Now, Holds, IntrType
  <1>i. IntrStep(c, 1, intena[c], sie[c], Null, {Ticks})
    BY Zenon, <1>g, <1>c, <1>n, TakeIs DEF Tick
  <1>p. WhereStep(c, x, pc[x], "wakeup") /\ UNCHANGED <<cproc, sidx, widx>>
    BY Zenon, <1>g, <1>0, <1>n, GoTrapIs DEF Tick, TrapPcs
  <1>s. SleepStep(c)
    <2>1. /\ left' = [p \in Threads |-> IF left[p] > 0 THEN left[p] - 1 ELSE 0]
          /\ UNCHANGED <<pstate, pkilled, saved>>
      BY Zenon DEF Tick
    <2>2. left' \in [Threads -> Nat]
      BY SMTT(60), <1>g, <2>1 DEF SleepType
    <2> QED
      BY Zenon, <1>g, <2>1, <2>2 DEF SleepType, SleepStep
  <1>j. pc'[x] = pc[x] /\ tr'[x] = "wakeup" /\ IntrNow(c, 1, intena[c], sie[c], Null, {Ticks})
    BY Zenon, <1>0, <1>i, <1>p DEF IntrStep, WhereStep
  <1>w. Cur(c)' = x /\ Own(c)' = o /\ At(c)' = "wakeup" /\ Place(x)' = "wakeup"
    BY Zenon, <1>c, <1>0, <1>n, <1>j, <1>p DEF Cur, Own, At, Place
  <1>a. Depth("wakeup") = 1 /\ SpunAt("wakeup", o) = Null /\ HeldAt("wakeup", o) = {Ticks}
    BY Zenon, TicksRows
  <1>2. LockOK(c)'
    BY Zenon, <1>j, <1>w, <1>a, LockIs
  <1>3. IntrOK(c)'
    <2>1. Onward(x)
      BY Zenon, <1>0, <1>j DEF Onward, CallPcs
    <2>2. noff[c] > 0
      BY SMTT(60), <1>n
    <2> QED
      BY Zenon, <1>n, <1>j, <1>w, <2>1, <2>2, IntrDeep
  <1>4. ContextOK(x)'
    BY Zenon, <1>c, <1>0, <1>n, <1>j DEF ContextOK, SchedPcs, ThreadPcs
  <1>5. \A q \in Threads : q = x => SavedOK(q)'
    BY Zenon, <1>w, SavedNot
  <1>6. TypeOK' /\ CpuOK' /\ Frame(c) /\ TypeOK /\ RunOK /\ TickOK /\ CpuOK
    BY Zenon, <1>n, <1>i, <1>p, <1>s, <1>2, <1>3, <1>4, <1>5, Settle
  <1>7. RunOK'
    <2>1. UNCHANGED <<cproc, pstate>> /\ (sidx'[c] = sidx[c] \/ cproc[c] = Null)
      BY Zenon, <1>0, <1>p DEF Tick, GoTrap
    <2> QED
      BY Zenon, <1>6, <2>1, StayKeeps
  <1>8. TickOK'
    BY Zenon, <1>6, TickTick
  <1> QED
    BY Zenon, <1>6, <1>7, <1>8 DEF IInv

(* wakeup() passes one process, and makes it runnable if it sleeps on      *)
(* ticks.                                                                  *)
LEMMA WakeupNextKeeps ==
    ASSUME IInv, NEW c \in Cpus, WakeupNext(c)
    PROVE  IInv'
  <1>g. IntrType /\ WhereType /\ SleepType
    BY Zenon, Parts
  <1>c. /\ Null \notin Threads /\ Threads \subseteq Locks /\ Threads \subseteq Contexts
        /\ Ticks \in Locks /\ Sched(c) \in Contexts /\ Sched(c) \notin Threads
    BY Zenon, ConstFacts
  <1>x. PICK x \in Contexts, o \in Threads : x = Cur(c) /\ o = Own(c)
    BY Zenon, NowFacts DEF Now
  <1>0. Now(c, x, "wakeup", o) /\ tr[x] = "wakeup" /\ (cproc[c] # Null <=> x \in Threads)
    BY Zenon, <1>x, TrapAt DEF WakeupNext
  <1>r. Depth("wakeup") = 1 /\ SpunAt("wakeup", o) = Null /\ HeldAt("wakeup", o) = {Ticks}
    BY Zenon, TicksRows
  <1>n. /\ noff[c] = 1 /\ spin[c] = Null /\ Holds(c, {Ticks}) /\ Cur(c) = x /\ At(c) = "wakeup"
        /\ Own(c) = o
        /\ IntrOK(c) /\ ContextOK(x) /\ intena[c] \in BOOLEAN /\ sie[c] \in BOOLEAN
    BY Zenon, <1>g, <1>0, <1>r DEF Now, Holds, IntrType
  <1>i. IntrStep(c, 1, intena[c], sie[c], Null, {Ticks})
    BY Zenon, <1>g, <1>c, <1>n, SameIs DEF WakeupNext
  <1>p. WhereStep(c, x, pc[x], "wakeup") /\ UNCHANGED <<cproc, sidx>>
    <2>1. UNCHANGED <<cproc, pc, tr, sidx>> /\ widx <= NTHREAD /\ widx' = widx + 1
      BY Zenon DEF WakeupNext
    <2>2. widx' \in 1 .. NTHREAD + 1
      BY SMTT(60), <1>g, <2>1, CpuAssumption DEF WhereType
    <2> QED
      BY Zenon, <1>g, <1>0, <2>1, <2>2 DEF WhereType, WhereFrame, WhereStep
  <1>u. /\ UNCHANGED <<pkilled, saved, left>>
        /\ pstate' \in [Threads -> {"runnable", "running", "sleeping", "zombie"}]
        /\ \A q \in Threads : \/ pstate'[q] = pstate[q]
                              \/ pstate[q] = "sleeping" /\ pstate'[q] = "runnable"
    <2>1. widx \in Threads
      BY SMTT(60), <1>g, CpuAssumption DEF WakeupNext, WhereType, Threads
    <2>w. PICK w \in Threads : w = widx
      BY Zenon, <2>1
    <2>2. /\ pstate' = [pstate EXCEPT ![w] = IF w # Cur(c) /\ pstate[w] = "sleeping" THEN "runnable" ELSE pstate[w]]
          /\ UNCHANGED <<pkilled, saved, left>>
          /\ pstate \in [Threads -> {"runnable", "running", "sleeping", "zombie"}]
      BY Zenon, <1>g, <2>w DEF WakeupNext, SleepType
    <2>s. PICK s \in {"runnable", "running", "sleeping", "zombie"} :
            /\ s = pstate[w] \/ (pstate[w] = "sleeping" /\ s = "runnable")
            /\ pstate' = [pstate EXCEPT ![w] = s]
      BY Zenon, <2>2
    <2> QED
      BY SMTT(60), <2>2, <2>s
  <1>s. SleepStep(c)
    BY Zenon, <1>g, <1>u DEF SleepType, SleepStep
  <1>j. pc'[x] = pc[x] /\ tr'[x] = "wakeup" /\ IntrNow(c, 1, intena[c], sie[c], Null, {Ticks})
    BY Zenon, <1>0, <1>i, <1>p DEF IntrStep, WhereStep
  <1>w. Cur(c)' = x /\ Own(c)' = o /\ At(c)' = "wakeup" /\ Place(x)' = "wakeup"
    BY Zenon, <1>c, <1>0, <1>n, <1>j, <1>p DEF Cur, Own, At, Place
  <1>a. Depth("wakeup") = 1 /\ SpunAt("wakeup", o) = Null /\ HeldAt("wakeup", o) = {Ticks}
    BY Zenon, TicksRows
  <1>2. LockOK(c)'
    BY Zenon, <1>j, <1>w, <1>a, LockIs
  <1>3. IntrOK(c)'
    <2>1. Onward(x)
      BY Zenon, <1>0, <1>j DEF Onward, CallPcs
    <2>2. noff[c] > 0
      BY SMTT(60), <1>n
    <2> QED
      BY Zenon, <1>n, <1>j, <1>w, <2>1, <2>2, IntrDeep
  <1>4. ContextOK(x)'
    BY Zenon, <1>c, <1>0, <1>n, <1>j DEF ContextOK, SchedPcs, ThreadPcs
  <1>5. \A q \in Threads : q = x => SavedOK(q)'
    BY Zenon, <1>w, SavedNot
  <1>6. TypeOK' /\ CpuOK' /\ Frame(c) /\ TypeOK /\ RunOK /\ TickOK /\ CpuOK
    BY Zenon, <1>n, <1>i, <1>p, <1>s, <1>2, <1>3, <1>4, <1>5, Settle
  <1>7. RunOK'
    <2>1. UNCHANGED <<cproc, sidx, pc, tr>>
      BY Zenon DEF WakeupNext
    <2> QED
      BY Zenon, <1>6, <1>u, <2>1, WakeKeeps
  <1>8. TickOK'
    BY Zenon, <1>6, TickWakeup
  <1> QED
    BY Zenon, <1>6, <1>7, <1>8 DEF IInv

(* clockintr() is done with its wakeup() and releases tickslock.           *)
LEMMA TockKeeps ==
    ASSUME IInv, NEW c \in Cpus, Tock(c)
    PROVE  IInv'
  <1>g. IntrType /\ WhereType /\ SleepType
    BY Zenon, Parts
  <1>c. /\ Null \notin Threads /\ Threads \subseteq Locks /\ Threads \subseteq Contexts
        /\ Ticks \in Locks /\ Sched(c) \in Contexts /\ Sched(c) \notin Threads
    BY Zenon, ConstFacts
  <1>x. PICK x \in Contexts, o \in Threads : x = Cur(c) /\ o = Own(c)
    BY Zenon, NowFacts DEF Now
  <1>0. Now(c, x, "wakeup", o) /\ tr[x] = "wakeup" /\ (cproc[c] # Null <=> x \in Threads)
    BY Zenon, <1>x, TrapAt DEF Tock
  <1>r. Depth("wakeup") = 1 /\ SpunAt("wakeup", o) = Null /\ HeldAt("wakeup", o) = {Ticks}
    BY Zenon, TicksRows
  <1>n. /\ noff[c] = 1 /\ spin[c] = Null /\ Holds(c, {Ticks}) /\ Cur(c) = x /\ At(c) = "wakeup"
        /\ Own(c) = o
        /\ IntrOK(c) /\ ContextOK(x) /\ intena[c] \in BOOLEAN /\ sie[c] \in BOOLEAN
    BY Zenon, <1>g, <1>0, <1>r DEF Now, Holds, IntrType
  <1>i. IntrStep(c, 0, FALSE, sie[c] \/ intena[c], Null, {})
    BY Zenon, <1>g, <1>c, <1>n, ReleaseIs DEF Tock, Release
  <1>p. PICK l2 \in {"return", "which"} :
          /\ WhereStep(c, x, pc[x], l2) /\ UNCHANGED <<cproc, sidx>> /\ (l2 = "which" => x \in Threads)
    <2>l. PICK l2 \in {"return", "which"} : l2 = IF cproc[c] = Null THEN "return" ELSE "which"
      BY Zenon
    <2>1. /\ tr' = [tr EXCEPT ![x] = l2] /\ UNCHANGED <<cproc, pc, sidx>> /\ widx' = 1
          /\ tr \in [Contexts -> TrapPcs]
      BY Zenon, <1>g, <1>n, <2>l DEF Tock, WhereType
    <2>2. l2 \in TrapPcs /\ 1 \in 1 .. NTHREAD + 1
      BY Zenon, <2>l, ConstFacts DEF TrapPcs
    <2>3. /\ tr' \in [Contexts -> TrapPcs] /\ tr'[x] = l2 /\ \A y \in Contexts \ {x} : tr'[y] = tr[y]
      BY SMTT(60), <2>1, <2>2
    <2>4. WhereStep(c, x, pc[x], l2)
      BY Zenon, <1>g, <2>1, <2>2, <2>3 DEF WhereType, WhereFrame, WhereStep
    <2>5. "return" # "which"
      BY Zenon
    <2> QED
      BY Zenon, <1>0, <2>l, <2>1, <2>4, <2>5
  <1>s. SleepStep(c)
    BY Zenon, <1>g DEF Tock, sleepVars, SleepType, SleepStep
  <1>j. pc'[x] = pc[x] /\ tr'[x] = l2 /\ IntrNow(c, 0, FALSE, sie[c] \/ intena[c], Null, {})
    BY Zenon, <1>0, <1>i, <1>p DEF IntrStep, WhereStep
  <1>w. Cur(c)' = x /\ Own(c)' = o /\ At(c)' = l2 /\ Place(x)' = l2
    BY Zenon, <1>c, <1>0, <1>n, <1>j, <1>p DEF Cur, Own, At, Place
  <1>a. Depth(l2) = 0 /\ SpunAt(l2, o) = Null /\ HeldAt(l2, o) = {}
    BY Zenon, <1>p, CalmRows DEF CalmPcs
  <1>2. LockOK(c)'
    BY ZenonT(40), <1>j, <1>w, <1>a, LockIs
  <1>3. IntrOK(c)'
    <2>1. (tr'[x] # "none" => ~intena[c]) /\ (tr'[x] = "none" /\ pc'[x] \in CallPcs => intena[c])
      BY Zenon, <1>0, <1>n, <1>j, <1>p, IntrHeld DEF CallPcs
    <2> QED
      BY Zenon, <1>n, <1>j, <1>w, <2>1, IntrPop
  <1>4. ContextOK(x)'
    BY Zenon, <1>c, <1>0, <1>n, <1>j, <1>p DEF ContextOK, SchedPcs, ThreadPcs
  <1>5. \A q \in Threads : q = x => SavedOK(q)'
    BY Zenon, <1>w, <1>p, SavedNot
  <1>6. TypeOK' /\ CpuOK' /\ Frame(c) /\ TypeOK /\ RunOK /\ TickOK /\ CpuOK
    BY Zenon, <1>n, <1>i, <1>p, <1>s, <1>2, <1>3, <1>4, <1>5, Settle
  <1>7. RunOK'
    <2>1. UNCHANGED <<cproc, pstate>> /\ (sidx'[c] = sidx[c] \/ cproc[c] = Null)
      BY Zenon, <1>0, <1>p DEF Tock, sleepVars
    <2> QED
      BY Zenon, <1>6, <2>1, StayKeeps
  <1>8. TickOK'
    BY Zenon, <1>6, TickTock
  <1> QED
    BY Zenon, <1>6, <1>7, <1>8 DEF IInv

(* The handler of a killed process goes to exit().                         *)
LEMMA TrapExitKeeps ==
    ASSUME IInv, NEW c \in Cpus, TrapExit(c)
    PROVE  IInv'
  <1>g. IntrType /\ WhereType /\ SleepType
    BY Zenon, Parts
  <1>c. /\ Null \notin Threads /\ Threads \subseteq Locks /\ Threads \subseteq Contexts
        /\ Ticks \in Locks /\ Sched(c) \in Contexts /\ Sched(c) \notin Threads
    BY Zenon, ConstFacts
  <1>t. /\ Now(c, Cur(c), "which", Own(c)) /\ tr[Cur(c)] = "which"
        /\ Cur(c) \in Threads /\ cproc[c] = Cur(c) /\ Own(c) = Cur(c)
    <2>1. InTrap(c, "which")
      BY Zenon DEF TrapExit
    <2> QED
      BY Zenon, <2>1, TrapAt
  <1>x. PICK x \in Threads : x = Cur(c)
    BY Zenon, <1>t
  <1>0. Now(c, x, "which", x) /\ tr[x] = "which" /\ x \in Contexts /\ cproc[c] = x
    BY Zenon, <1>c, <1>t, <1>x
  <1>r. Depth("which") = 0 /\ SpunAt("which", x) = Null /\ HeldAt("which", x) = {}
    BY Zenon, CalmRows DEF CalmPcs
  <1>n. /\ noff[c] = 0 /\ spin[c] = Null /\ Holds(c, {}) /\ Cur(c) = x /\ At(c) = "which"
        /\ Own(c) = x
        /\ IntrOK(c) /\ ContextOK(x) /\ intena[c] \in BOOLEAN /\ sie[c] \in BOOLEAN
    BY Zenon, <1>g, <1>0, <1>r DEF Now, Holds, IntrType
  <1>i. IntrStep(c, 0, intena[c], sie[c], Null, {})
    BY Zenon, <1>g, <1>c, <1>n, <1>0, SameIs DEF TrapExit
  <1>p. WhereStep(c, x, "exit", "none") /\ UNCHANGED <<cproc, sidx, widx>>
    <2>1. /\ tr' = [tr EXCEPT ![x] = "none"] /\ pc' = [pc EXCEPT ![x] = "exit"]
          /\ UNCHANGED <<cproc, sidx, widx>>
          /\ pc \in [Contexts -> SchedPcs \cup ThreadPcs] /\ tr \in [Contexts -> TrapPcs]
      BY Zenon, <1>g, <1>0 DEF TrapExit, WhereType
    <2>2. "none" \in TrapPcs /\ "exit" \in SchedPcs \cup ThreadPcs
      BY Zenon DEF TrapPcs, ThreadPcs
    <2>3. /\ tr' \in [Contexts -> TrapPcs] /\ tr'[x] = "none" /\ \A y \in Contexts \ {x} : tr'[y] = tr[y]
      BY SMTT(60), <1>0, <2>1, <2>2
    <2>4. /\ pc' \in [Contexts -> SchedPcs \cup ThreadPcs] /\ pc'[x] = "exit"
          /\ \A y \in Contexts \ {x} : pc'[y] = pc[y]
      BY SMTT(60), <1>0, <2>1, <2>2
    <2> QED
      BY Zenon, <1>g, <2>1, <2>3, <2>4 DEF WhereType, WhereFrame, WhereStep
  <1>s. SleepStep(c)
    BY Zenon, <1>g DEF TrapExit, sleepVars, SleepType, SleepStep
  <1>j. pc'[x] = "exit" /\ tr'[x] = "none" /\ IntrNow(c, 0, intena[c], sie[c], Null, {})
    BY Zenon, <1>0, <1>i, <1>p DEF IntrStep, WhereStep
  <1>w. Cur(c)' = x /\ Own(c)' = x /\ At(c)' = "exit" /\ Place(x)' = "exit"
    BY Zenon, <1>c, <1>0, <1>n, <1>j, <1>p DEF Cur, Own, At, Place
  <1>a. Depth("exit") = 0 /\ SpunAt("exit", x) = Null /\ HeldAt("exit", x) = {}
    BY Zenon, CalmRows DEF CalmPcs
  <1>2. LockOK(c)'
    BY Zenon, <1>j, <1>w, <1>a, LockIs
  <1>3. IntrOK(c)'
    BY Zenon, <1>0, <1>n, <1>j, <1>w, IntrSet DEF CallPcs
  <1>4. ContextOK(x)'
    BY Zenon, <1>c, <1>0, <1>n, <1>j DEF ContextOK, SchedPcs, ThreadPcs
  <1>5. \A q \in Threads : q = x => SavedOK(q)'
    BY Zenon, <1>w, SavedNot
  <1>6. TypeOK' /\ CpuOK' /\ Frame(c) /\ TypeOK /\ RunOK /\ TickOK /\ CpuOK
    BY Zenon, <1>n, <1>i, <1>p, <1>s, <1>2, <1>3, <1>4, <1>5, Settle
  <1>7. RunOK'
    <2>1. UNCHANGED <<cproc, pstate>> /\ (sidx'[c] = sidx[c] \/ cproc[c] = Null)
      BY Zenon, <1>0, <1>p DEF TrapExit, sleepVars
    <2> QED
      BY Zenon, <1>6, <2>1, StayKeeps
  <1>8. TickOK'
    <2>1. UNCHANGED <<left, pstate>>
      BY Zenon DEF TrapExit, sleepVars
    <2>2. TickFrame(c)
      BY Zenon, <1>n, <1>w, <1>p, <2>1, TickStill
    <2> QED
      BY Zenon, <1>6, <2>2, TickFrameKeeps
  <1> QED
    BY Zenon, <1>6, <1>7, <1>8 DEF IInv

(* yield() begins the acquire() of p->lock.                                *)
LEMMA YieldAcquireKeeps ==
    ASSUME IInv, NEW c \in Cpus, YieldAcquire(c)
    PROVE  IInv'
  <1>g. IntrType /\ WhereType /\ SleepType
    BY Zenon, Parts
  <1>c. /\ Null \notin Threads /\ Threads \subseteq Locks /\ Threads \subseteq Contexts
        /\ Ticks \in Locks /\ Sched(c) \in Contexts /\ Sched(c) \notin Threads
    BY Zenon, ConstFacts
  <1>t. /\ Now(c, Cur(c), "which", Own(c)) /\ tr[Cur(c)] = "which"
        /\ Cur(c) \in Threads /\ cproc[c] = Cur(c) /\ Own(c) = Cur(c)
    <2>1. InTrap(c, "which")
      BY Zenon DEF YieldAcquire
    <2> QED
      BY Zenon, <2>1, TrapAt
  <1>x. PICK x \in Threads : x = Cur(c)
    BY Zenon, <1>t
  <1>0. Now(c, x, "which", x) /\ tr[x] = "which" /\ x \in Contexts /\ cproc[c] = x
    BY Zenon, <1>c, <1>t, <1>x
  <1>r. Depth("which") = 0 /\ SpunAt("which", x) = Null /\ HeldAt("which", x) = {}
    BY Zenon, CalmRows DEF CalmPcs
  <1>n. /\ noff[c] = 0 /\ spin[c] = Null /\ Holds(c, {}) /\ Cur(c) = x /\ At(c) = "which"
        /\ Own(c) = x
        /\ IntrOK(c) /\ ContextOK(x) /\ intena[c] \in BOOLEAN /\ sie[c] \in BOOLEAN
    BY Zenon, <1>g, <1>0, <1>r DEF Now, Holds, IntrType
  <1>i. IntrStep(c, 1, sie[c], FALSE, x, {})
    BY Zenon, <1>g, <1>c, <1>n, <1>0, AcquireIs DEF YieldAcquire
  <1>p. WhereStep(c, x, pc[x], "yield") /\ UNCHANGED <<cproc, sidx, widx>>
    BY Zenon, <1>g, <1>0, <1>n, GoTrapIs DEF YieldAcquire, TrapPcs
  <1>s. SleepStep(c)
    BY Zenon, <1>g DEF YieldAcquire, GoTrap, sleepVars, SleepType, SleepStep
  <1>j. pc'[x] = pc[x] /\ tr'[x] = "yield" /\ IntrNow(c, 1, sie[c], FALSE, x, {})
    BY Zenon, <1>0, <1>i, <1>p DEF IntrStep, WhereStep
  <1>w. Cur(c)' = x /\ Own(c)' = x /\ At(c)' = "yield" /\ Place(x)' = "yield"
    BY Zenon, <1>c, <1>0, <1>n, <1>j, <1>p DEF Cur, Own, At, Place
  <1>a. Depth("yield") = 1 /\ SpunAt("yield", x) = x /\ HeldAt("yield", x) = {}
    BY Zenon, SpinOwnRows
  <1>2. LockOK(c)'
    BY Zenon, <1>j, <1>w, <1>a, LockIs
  <1>3. IntrOK(c)'
    <2>1. Onward(x)
      BY Zenon, <1>0, <1>j DEF Onward, CallPcs
    <2> QED
      BY Zenon, <1>n, <1>j, <1>w, <2>1, IntrPush
  <1>4. ContextOK(x)'
    BY Zenon, <1>c, <1>0, <1>n, <1>j DEF ContextOK, SchedPcs, ThreadPcs
  <1>5. \A q \in Threads : q = x => SavedOK(q)'
    BY Zenon, <1>w, SavedNot
  <1>6. TypeOK' /\ CpuOK' /\ Frame(c) /\ TypeOK /\ RunOK /\ TickOK /\ CpuOK
    BY Zenon, <1>n, <1>i, <1>p, <1>s, <1>2, <1>3, <1>4, <1>5, Settle
  <1>7. RunOK'
    <2>1. UNCHANGED <<cproc, pstate>> /\ (sidx'[c] = sidx[c] \/ cproc[c] = Null)
      BY Zenon, <1>0, <1>p DEF YieldAcquire, GoTrap, sleepVars
    <2> QED
      BY Zenon, <1>6, <2>1, StayKeeps
  <1>8. TickOK'
    <2>1. UNCHANGED <<left, pstate>>
      BY Zenon DEF YieldAcquire, GoTrap, sleepVars
    <2>2. TickFrame(c)
      BY Zenon, <1>n, <1>w, <1>p, <2>1, TickStill
    <2> QED
      BY Zenon, <1>6, <2>2, TickFrameKeeps
  <1> QED
    BY Zenon, <1>6, <1>7, <1>8 DEF IInv

(* yield() has p->lock, marks p as runnable and switches to scheduler(),   *)
(* with intena saved by sched().                                           *)
LEMMA YieldKeeps ==
    ASSUME IInv, NEW c \in Cpus, Yield(c)
    PROVE  IInv'
  <1>g. IntrType /\ WhereType /\ SleepType
    BY Zenon, Parts
  <1>c. /\ Null \notin Threads /\ Threads \subseteq Locks /\ Threads \subseteq Contexts
        /\ Ticks \in Locks /\ Sched(c) \in Contexts /\ Sched(c) \notin Threads
    BY Zenon, ConstFacts
  <1>t. /\ Now(c, Cur(c), "yield", Own(c)) /\ tr[Cur(c)] = "yield"
        /\ Cur(c) \in Threads /\ cproc[c] = Cur(c) /\ Own(c) = Cur(c)
    <2>1. InTrap(c, "yield")
      BY Zenon DEF Yield
    <2> QED
      BY Zenon, <2>1, TrapAt
  <1>x. PICK x \in Threads : x = Cur(c)
    BY Zenon, <1>t
  <1>0. Now(c, x, "yield", x) /\ tr[x] = "yield" /\ x \in Contexts /\ cproc[c] = x
    BY Zenon, <1>c, <1>t, <1>x
  <1>r. Depth("yield") = 1 /\ SpunAt("yield", x) = x /\ HeldAt("yield", x) = {}
    BY Zenon, SpinOwnRows
  <1>n. /\ noff[c] = 1 /\ spin[c] = x /\ Holds(c, {}) /\ Cur(c) = x /\ At(c) = "yield" /\ Own(c) = x
        /\ IntrOK(c) /\ ContextOK(x) /\ intena[c] \in BOOLEAN /\ sie[c] \in BOOLEAN
    BY Zenon, <1>g, <1>0, <1>r DEF Now, Holds, IntrType
  <1>i. IntrStep(c, 1, intena[c], sie[c], Null, {x})
    BY Zenon, <1>g, <1>c, <1>n, <1>0, TakeIs DEF Yield
  <1>p. WhereStep(c, x, pc[x], "yielded") /\ cproc'[c] = Null /\ UNCHANGED <<sidx, widx>>
    <2>1. /\ cproc' = [cproc EXCEPT ![c] = Null] /\ tr' = [tr EXCEPT ![x] = "yielded"]
          /\ UNCHANGED <<pc, sidx, widx>>
      BY Zenon, <1>0 DEF Yield, Swtch
    <2>2. "yielded" \in TrapPcs /\ Null \in Threads \cup {Null}
      BY Zenon DEF TrapPcs
    <2> QED
      BY Zenon, <1>g, <1>0, <2>1, <2>2, YieldIs
  <1>s. /\ SleepStep(c) /\ saved'[x] = intena[c] /\ pstate'[x] = "runnable" /\ UNCHANGED left
        /\ \A q \in Threads : q # x => pstate'[q] = pstate[q]
    <2>1. /\ pstate' = [pstate EXCEPT ![x] = "runnable"] /\ saved' = [saved EXCEPT ![x] = intena[c]]
          /\ UNCHANGED <<pkilled, left>>
      BY Zenon, <1>0 DEF Yield, Swtch
    <2> QED
      BY ZenonT(40), <1>g, <1>n, <2>1, StateIs
  <1>j. pc'[x] = pc[x] /\ tr'[x] = "yielded" /\ IntrNow(c, 1, intena[c], sie[c], Null, {x})
    BY Zenon, <1>0, <1>i, <1>p DEF IntrStep, WhereStep
  <1>b. sidx[c] = x /\ tr[Sched(c)] = "none" /\ pc[Sched(c)] = "back"
    BY Zenon, <1>c, <1>0, SchedWaits
  <1>w. /\ Cur(c)' = Sched(c) /\ Own(c)' = x /\ At(c)' = "back" /\ Place(x)' = "yielded"
        /\ tr'[Sched(c)] = "none" /\ pc'[Sched(c)] = "back"
    <2>1. tr'[Sched(c)] = "none" /\ pc'[Sched(c)] = "back"
      BY Zenon, <1>b, <1>c, <1>p, <1>0 DEF WhereStep, WhereFrame
    <2>2. Cur(c)' = Sched(c) /\ Own(c)' = x
      BY Zenon, <1>b, <1>p DEF Cur, Own
    <2> QED
      BY Zenon, <2>1, <2>2, <1>j DEF At, Place
  <1>a. Depth("back") = 1 /\ SpunAt("back", x) = Null /\ HeldAt("back", x) = {x}
    BY Zenon, OwnRows DEF OwnPcs
  <1>2. LockOK(c)'
    BY Zenon, <1>j, <1>w, <1>a, LockIs
  <1>3. IntrOK(c)'
    BY Zenon, <1>n, <1>j, <1>w, IntrSwtch DEF CallPcs
  <1>4. ContextOK(x)'
    BY Zenon, <1>c, <1>0, <1>n, <1>j DEF ContextOK, SchedPcs, ThreadPcs
  <1>5. \A q \in Threads : q = x => SavedOK(q)'
    <2>1. ~intena[c]
      BY Zenon, <1>0, <1>n, IntrHeld DEF CallPcs
    <2> QED
      BY Zenon, <1>w, <1>s, <2>1 DEF SavedOK
  <1>6. TypeOK' /\ CpuOK' /\ Frame(c) /\ TypeOK /\ RunOK /\ TickOK /\ CpuOK
    BY Zenon, <1>n, <1>i, <1>p, <1>s, <1>2, <1>3, <1>4, <1>5, Settle
  <1>7. RunOK'
    <2>1. /\ cproc[c] = x /\ UNCHANGED sidx /\ cproc' = [cproc EXCEPT ![c] = Null]
          /\ pstate' = [pstate EXCEPT ![x] = "runnable"]
      BY Zenon, <1>0 DEF Yield, Swtch
    <2>2. "runnable" # "running" /\ StateAt("runnable", Place(x)')
      BY Zenon, <1>w DEF StateAt
    <2> QED
      BY Zenon, <1>0, <1>6, <2>1, <2>2, LeaveKeeps
  <1>8. TickOK'
    <2>1. TickFrame(c)
      BY Zenon, <1>n, <1>w, <1>p, <1>s DEF TickFrame
    <2> QED
      BY Zenon, <1>6, <2>1, TickFrameKeeps
  <1> QED
    BY Zenon, <1>6, <1>7, <1>8 DEF IInv

(* sched() has come back in yield(), which restores intena and releases    *)
(* p->lock.                                                                *)
LEMMA YieldedKeeps ==
    ASSUME IInv, NEW c \in Cpus, Yielded(c)
    PROVE  IInv'
  <1>g. IntrType /\ WhereType /\ SleepType
    BY Zenon, Parts
  <1>c. /\ Null \notin Threads /\ Threads \subseteq Locks /\ Threads \subseteq Contexts
        /\ Ticks \in Locks /\ Sched(c) \in Contexts /\ Sched(c) \notin Threads
    BY Zenon, ConstFacts
  <1>t. /\ Now(c, Cur(c), "yielded", Own(c)) /\ tr[Cur(c)] = "yielded"
        /\ Cur(c) \in Threads /\ cproc[c] = Cur(c) /\ Own(c) = Cur(c)
    <2>1. InTrap(c, "yielded")
      BY Zenon DEF Yielded
    <2> QED
      BY Zenon, <2>1, TrapAt
  <1>x. PICK x \in Threads : x = Cur(c)
    BY Zenon, <1>t
  <1>0. Now(c, x, "yielded", x) /\ tr[x] = "yielded" /\ x \in Contexts /\ cproc[c] = x
    BY Zenon, <1>c, <1>t, <1>x
  <1>r. Depth("yielded") = 1 /\ SpunAt("yielded", x) = Null /\ HeldAt("yielded", x) = {x}
    BY Zenon, OwnRows DEF OwnPcs
  <1>n. /\ noff[c] = 1 /\ spin[c] = Null /\ Holds(c, {x}) /\ Cur(c) = x /\ At(c) = "yielded"
        /\ Own(c) = x
        /\ IntrOK(c) /\ ContextOK(x) /\ intena[c] \in BOOLEAN /\ sie[c] \in BOOLEAN
    BY Zenon, <1>g, <1>0, <1>r DEF Now, Holds, IntrType
  <1>h. saved[x] \in BOOLEAN /\ ~saved[x]
    <2>1. Place(x) = "yielded"
      BY Zenon, <1>0 DEF Place
    <2> QED
      BY Zenon, <1>g, <2>1, Parts DEF SleepType, CpuOK, SavedOK
  <1>i. IntrStep(c, 0, FALSE, sie[c] \/ saved[x], Null, {})
    BY Zenon, <1>g, <1>c, <1>n, <1>h, <1>0, ReleaseIs DEF Yielded, SchedReturn
  <1>p. WhereStep(c, x, pc[x], "return") /\ UNCHANGED <<cproc, sidx, widx>>
    BY Zenon, <1>g, <1>0, <1>n, GoTrapIs DEF Yielded, TrapPcs
  <1>s. SleepStep(c)
    <2>1. saved' = [saved EXCEPT ![x] = FALSE] /\ UNCHANGED <<pstate, pkilled, left>>
      BY Zenon, <1>0 DEF Yielded, SchedReturn
    <2> QED
      BY Zenon, <1>g, <1>n, <2>1, SavedIs
  <1>j. pc'[x] = pc[x] /\ tr'[x] = "return" /\ IntrNow(c, 0, FALSE, sie[c] \/ saved[x], Null, {})
    BY Zenon, <1>0, <1>i, <1>p DEF IntrStep, WhereStep
  <1>w. Cur(c)' = x /\ Own(c)' = x /\ At(c)' = "return" /\ Place(x)' = "return"
    BY Zenon, <1>c, <1>0, <1>n, <1>j, <1>p DEF Cur, Own, At, Place
  <1>a. Depth("return") = 0 /\ SpunAt("return", x) = Null /\ HeldAt("return", x) = {}
    BY Zenon, CalmRows DEF CalmPcs
  <1>2. LockOK(c)'
    BY Zenon, <1>j, <1>w, <1>a, LockIs
  <1>3. IntrOK(c)'
    <2>1. (tr'[x] # "none" => ~saved[x]) /\ (tr'[x] = "none" /\ pc'[x] \in CallPcs => saved[x])
      BY Zenon, <1>0, <1>n, <1>j, <1>h, IntrHeld DEF CallPcs
    <2> QED
      BY Zenon, <1>n, <1>j, <1>w, <2>1, IntrPop
  <1>4. ContextOK(x)'
    BY Zenon, <1>c, <1>0, <1>n, <1>j DEF ContextOK, SchedPcs, ThreadPcs
  <1>5. \A q \in Threads : q = x => SavedOK(q)'
    BY Zenon, <1>w, SavedNot
  <1>6. TypeOK' /\ CpuOK' /\ Frame(c) /\ TypeOK /\ RunOK /\ TickOK /\ CpuOK
    BY Zenon, <1>n, <1>i, <1>p, <1>s, <1>2, <1>3, <1>4, <1>5, Settle
  <1>7. RunOK'
    <2>1. UNCHANGED <<cproc, pstate>> /\ (sidx'[c] = sidx[c] \/ cproc[c] = Null)
      BY Zenon, <1>0, <1>p DEF Yielded, GoTrap
    <2> QED
      BY Zenon, <1>6, <2>1, StayKeeps
  <1>8. TickOK'
    <2>1. UNCHANGED <<left, pstate>>
      BY Zenon DEF Yielded, GoTrap
    <2>2. TickFrame(c)
      BY Zenon, <1>n, <1>w, <1>p, <2>1, TickStill
    <2> QED
      BY Zenon, <1>6, <2>2, TickFrameKeeps
  <1> QED
    BY Zenon, <1>6, <1>7, <1>8 DEF IInv

(* The handler returns: sret restores the interrupt enable of what was     *)
(* interrupted.                                                            *)
LEMMA TrapReturnKeeps ==
    ASSUME IInv, NEW c \in Cpus, TrapReturn(c)
    PROVE  IInv'
  <1>g. IntrType /\ WhereType /\ SleepType
    BY Zenon, Parts
  <1>c. /\ Null \notin Threads /\ Threads \subseteq Locks /\ Threads \subseteq Contexts
        /\ Ticks \in Locks /\ Sched(c) \in Contexts /\ Sched(c) \notin Threads
    BY Zenon, ConstFacts
  <1>x. PICK x \in Contexts, o \in Threads : x = Cur(c) /\ o = Own(c)
    BY Zenon, NowFacts DEF Now
  <1>0. Now(c, x, "return", o) /\ tr[x] = "return" /\ (cproc[c] # Null <=> x \in Threads)
    BY Zenon, <1>x, TrapAt DEF TrapReturn
  <1>r. Depth("return") = 0 /\ SpunAt("return", o) = Null /\ HeldAt("return", o) = {}
    BY Zenon, CalmRows DEF CalmPcs
  <1>n. /\ noff[c] = 0 /\ spin[c] = Null /\ Holds(c, {}) /\ Cur(c) = x /\ At(c) = "return"
        /\ Own(c) = o
        /\ IntrOK(c) /\ ContextOK(x) /\ intena[c] \in BOOLEAN /\ sie[c] \in BOOLEAN
    BY Zenon, <1>g, <1>0, <1>r DEF Now, Holds, IntrType
  <1>i. IntrStep(c, 0, intena[c], pc[Cur(c)] # "user", Null, {})
    BY Zenon, <1>g, <1>c, <1>n, SieIs DEF TrapReturn
  <1>p. WhereStep(c, x, pc[x], "none") /\ UNCHANGED <<cproc, sidx, widx>>
    BY Zenon, <1>g, <1>0, <1>n, GoTrapIs DEF TrapReturn, TrapPcs
  <1>s. SleepStep(c)
    BY Zenon, <1>g DEF TrapReturn, GoTrap, sleepVars, SleepType, SleepStep
  <1>j. pc'[x] = pc[x] /\ tr'[x] = "none" /\ IntrNow(c, 0, intena[c], pc[Cur(c)] # "user", Null, {})
    BY Zenon, <1>0, <1>i, <1>p DEF IntrStep, WhereStep
  <1>w. Cur(c)' = x /\ Own(c)' = o /\ At(c)' = pc[x] /\ Place(x)' = pc[x]
    BY Zenon, <1>c, <1>0, <1>n, <1>j, <1>p DEF Cur, Own, At, Place
  <1>a. Depth(pc[x]) = 0 /\ SpunAt(pc[x], o) = Null /\ HeldAt(pc[x], o) = {}
    <2>1. Depth(pc[x]) = 0
      BY Zenon, <1>0, <1>n DEF ContextOK
    <2> QED
      BY Zenon, <2>1, CalmRow
  <1>2. LockOK(c)'
    BY Zenon, <1>j, <1>w, <1>a, LockIs
  <1>3. IntrOK(c)'
    BY Zenon, <1>0, <1>n, <1>j, <1>w, IntrSet DEF CallPcs
  <1>4. ContextOK(x)'
    BY Zenon, <1>c, <1>0, <1>n, <1>j DEF ContextOK, SchedPcs, ThreadPcs
  <1>5. \A q \in Threads : q = x => SavedOK(q)'
    <2>1. pc[x] # "yielded" /\ pc[x] # "slept"
      BY SMTT(60), <1>a DEF Depth, OwnPcs
    <2> QED
      BY Zenon, <1>w, <2>1 DEF SavedOK
  <1>6. TypeOK' /\ CpuOK' /\ Frame(c) /\ TypeOK /\ RunOK /\ TickOK /\ CpuOK
    BY Zenon, <1>n, <1>i, <1>p, <1>s, <1>2, <1>3, <1>4, <1>5, Settle
  <1>7. RunOK'
    <2>1. UNCHANGED <<cproc, pstate>> /\ (sidx'[c] = sidx[c] \/ cproc[c] = Null)
      BY Zenon, <1>0, <1>p DEF TrapReturn, GoTrap, sleepVars
    <2> QED
      BY Zenon, <1>6, <2>1, StayKeeps
  <1>8. TickOK'
    <2>1. UNCHANGED <<left, pstate>> /\ pc[x] \notin {"sleep", "sleeping", "asleep"}
      <3>1. UNCHANGED <<left, pstate>>
        BY Zenon DEF TrapReturn, sleepVars
      <3>2. pc[x] \notin {"sleep", "sleeping", "asleep"}
        BY SMTT(60), <1>a DEF Depth, OwnPcs, TicksPcs
      <3> QED
        BY Zenon, <3>1, <3>2
    <2>2. TickFrame(c)
      BY Zenon, <1>n, <1>w, <1>p, <2>1, TickStill
    <2> QED
      BY Zenon, <1>6, <2>2, TickFrameKeeps
  <1> QED
    BY Zenon, <1>6, <1>7, <1>8 DEF IInv

(* The timer interrupt is taken where interrupts are on, so that the code  *)
(* it interrupts holds no lock.                                            *)
LEMMA TrapKeeps == ASSUME IInv, NEW c \in Cpus, Trap(c) PROVE IInv'
  <1>g. IntrType /\ WhereType /\ SleepType
    BY Zenon, Parts
  <1>x. PICK x \in Contexts, o \in Threads : x = Cur(c) /\ o = Own(c)
    BY Zenon, NowFacts DEF Now
  <1>0. Now(c, x, pc[x], o) /\ tr[x] = "none" /\ (cproc[c] # Null <=> x \in Threads)
    <2>1. tr[x] = "none" /\ At(c) = pc[x]
      BY Zenon, <1>x DEF Trap, At, Place
    <2>2. cproc[c] # Null <=> x \in Threads
      <3>1. Sched(c) \notin Threads
        BY Zenon, ConstFacts
      <3> QED
        BY Zenon, <1>x, <3>1, Parts, CurFacts
    <2> QED
      BY Zenon, <1>x, <2>1, <2>2, NowFacts
  <1>r. Depth(pc[x]) = 0 /\ SpunAt(pc[x], o) = Null /\ HeldAt(pc[x], o) = {}
    <2>1. noff[c] = Depth(pc[x]) /\ IntrOK(c) /\ noff[c] \in Nat /\ Cur(c) = x
          /\ (sie[c] \/ pc[x] = "user")
      BY Zenon, <1>g, <1>0, <1>x DEF Now, Trap, IntrType
    <2>2. sie[c] => Depth(pc[x]) = 0
      BY SMTT(60), <2>1 DEF IntrOK
    <2>3. Depth("user") = 0
      BY Zenon, CalmRows DEF CalmPcs
    <2>4. Depth(pc[x]) = 0
      BY Zenon, <2>1, <2>2, <2>3
    <2> QED
      BY Zenon, <2>4, CalmRow
  <1>n. /\ noff[c] = 0 /\ spin[c] = Null /\ Holds(c, {}) /\ Cur(c) = x /\ At(c) = pc[x]
        /\ Own(c) = o
        /\ ContextOK(x)
    BY Zenon, <1>0, <1>r DEF Now, Holds
  <1>i. IntrStep(c, 0, intena[c], FALSE, Null, {})
    BY Zenon, <1>g, <1>n, SieIs DEF Trap
  <1>p. PICK t \in {"clock", "return", "which"} :
          /\ WhereStep(c, x, pc[x], t) /\ UNCHANGED <<cproc, sidx, widx>> /\ (t = "which" => x \in Threads)
    <2>1. "clock" # "which" /\ "return" # "which"
      BY Zenon
    <2>2. \E t \in {"clock", "return", "which"} : GoTrap(c, t) /\ (t = "which" => x \in Threads)
      BY Zenon, <1>0, <2>1 DEF Trap, Ack
    <2> QED
      BY Zenon, <1>g, <1>n, <2>2, GoTrapIs DEF TrapPcs
  <1>s. SleepStep(c)
    BY Zenon, <1>g DEF Trap, sleepVars, SleepType, SleepStep
  <1>j. pc'[x] = pc[x] /\ tr'[x] = t /\ IntrNow(c, 0, intena[c], FALSE, Null, {})
    BY Zenon, <1>i, <1>p DEF IntrStep, WhereStep
  <1>w. Cur(c)' = x /\ Own(c)' = o /\ At(c)' = t /\ Place(x)' = t
    <2>1. t # "none"
      BY Zenon, <1>p
    <2> QED
      BY Zenon, <1>n, <1>j, <1>p, <2>1 DEF Cur, Own, At, Place
  <1>a. Depth(t) = 0 /\ SpunAt(t, o) = Null /\ HeldAt(t, o) = {}
    BY Zenon, <1>p, CalmRows DEF CalmPcs
  <1>2. LockOK(c)'
    BY ZenonT(40), <1>j, <1>w, <1>a, LockIs
  <1>3. IntrOK(c)'
    BY Zenon, <1>j, <1>w, <1>p, IntrSet
  <1>4. ContextOK(x)'
    BY Zenon, <1>r, <1>n, <1>j, <1>p DEF ContextOK
  <1>5. \A q \in Threads : q = x => SavedOK(q)'
    BY Zenon, <1>w, <1>p, SavedNot
  <1>6. TypeOK' /\ CpuOK' /\ Frame(c) /\ TypeOK /\ RunOK /\ TickOK /\ CpuOK
    BY Zenon, <1>n, <1>i, <1>p, <1>s, <1>2, <1>3, <1>4, <1>5, Settle
  <1>7. RunOK'
    <2>1. UNCHANGED <<cproc, pstate>> /\ sidx'[c] = sidx[c]
      BY Zenon, <1>p DEF Trap, sleepVars
    <2> QED
      BY Zenon, <1>6, <2>1, StayKeeps
  <1>8. TickOK'
    <2>1. UNCHANGED <<left, pstate>>
      BY Zenon DEF Trap, sleepVars
    <2>2. pc[x] # "wakeup"
      BY SMTT(60), <1>r DEF Depth, TicksPcs
    <2>3. TickFrame(c)
      BY Zenon, <1>n, <1>w, <1>p, <2>1, <2>2, TickStill
    <2> QED
      BY Zenon, <1>6, <2>3, TickFrameKeeps
  <1> QED
    BY Zenon, <1>6, <1>7, <1>8 DEF IInv

(* A timer interrupt that becomes pending, a kill() and a stuttering step  *)
(* leave the CPUs as they are.                                             *)
LEMMA SameKeeps ==
    ASSUME IInv, UNCHANGED <<intrVars, where, saved, left>>, SleepType',
           \A q \in Threads : \/ pstate'[q] = pstate[q]
                              \/ pstate[q] = "sleeping" /\ pstate'[q] = "runnable"
    PROVE  IInv'
  <1>g. TypeOK /\ RunOK /\ TickOK /\ CpuOK /\ IntrType /\ WhereType
    BY Zenon, Parts
  <1>0. /\ UNCHANGED <<noff, intena, sie, spin, lock>> /\ UNCHANGED <<cproc, pc, tr, sidx, widx>>
        /\ UNCHANGED <<saved, left>>
    BY Zenon DEF intrVars, where
  <1>1. TypeOK'
    BY Zenon, <1>g, <1>0 DEF TypeOK, IntrType, WhereType
  <1>2. /\ \A x : Place(x)' = Place(x)
        /\ \A c : Cur(c)' = Cur(c) /\ Own(c)' = Own(c)
    BY Zenon, <1>0 DEF Place, Cur, Own
  <1>3. \A c : At(c)' = At(c)
    BY Zenon, <1>0 DEF At, Place, Cur
  <1>4. RunOK'
    BY Zenon, <1>g, <1>0, WakeKeeps
  <1>5. CpuOK'
    <2>1. ASSUME NEW c \in Cpus PROVE LockOK(c)' /\ IntrOK(c)'
      <3>1. LockOK(c) /\ IntrOK(c)
        BY Zenon, <1>g DEF CpuOK
      <3>2. LockOK(c)'
        BY Zenon, <1>0, <1>2, <1>3, <3>1 DEF LockOK
      <3>3. IntrOK(c)'
        BY Zenon, <1>0, <3>1 DEF IntrOK, Cur
      <3> QED
        BY Zenon, <3>2, <3>3
    <2>2. ASSUME NEW x \in Contexts PROVE ContextOK(x)'
      BY Zenon, <1>g, <1>0 DEF CpuOK, ContextOK
    <2>3. ASSUME NEW p \in Threads PROVE SavedOK(p)'
      BY Zenon, <1>g, <1>0, <1>2 DEF CpuOK, SavedOK
    <2> QED
      BY Zenon, <2>1, <2>2, <2>3 DEF CpuOK
  <1>6. TickOK'
    <2>1. \A p \in Threads : pstate'[p] = "sleeping" => pstate[p] = "sleeping"
      BY SMTT(60)
    <2>2. \A p : Passing(p)' <=> Passing(p)
      BY Zenon, <1>0, <1>3 DEF Passing
    <2>3. widx' # 1 => \E c \in Cpus : At(c)' = "wakeup"
      BY Zenon, <1>g, <1>0, <1>3 DEF TickOK
    <2>4. \A p \in Threads : Place(p)' \in {"sleep", "sleeping"} => left'[p] > 0
      BY Zenon, <1>g, <1>0, <1>2 DEF TickOK
    <2>5. ASSUME NEW p \in Threads, Place(p)' = "asleep" \/ pstate'[p] = "sleeping", left'[p] = 0
          PROVE  Passing(p)'
      BY Zenon, <1>g, <1>0, <1>2, <2>1, <2>2, <2>5 DEF TickOK
    <2> QED
      BY Zenon, <2>3, <2>4, <2>5 DEF TickOK
  <1> QED
    BY Zenon, <1>1, <1>4, <1>5, <1>6 DEF IInv

(* The timer raises an interrupt, which stays pending.                     *)
LEMMA TimerKeeps == ASSUME IInv, NEW c \in Cpus, Timer(c) PROVE IInv'
  <1>1. UNCHANGED <<intrVars, where, sleepVars>>
    BY Zenon DEF Timer
  <1>2. SleepType
    BY Zenon, Parts
  <1> QED
    BY Zenon, <1>1, <1>2, SameKeeps DEF sleepVars, SleepType

(* kill() makes a sleeper runnable, which is where its sched() returns.    *)
LEMMA KillKeeps == ASSUME IInv, NEW p \in Threads, KillSleeper(p) PROVE IInv'
  <1>1. /\ UNCHANGED <<intrVars, where, saved, left>> /\ pkilled' = [pkilled EXCEPT ![p] = TRUE]
        /\ pstate' = [pstate EXCEPT ![p] = IF pstate[p] = "sleeping" THEN "runnable" ELSE pstate[p]]
    BY Zenon DEF KillSleeper
  <1>2. SleepType
    BY Zenon, Parts
  <1>3. SleepType'
    BY SMTT(60), <1>1, <1>2 DEF SleepType
  <1>4. \A q \in Threads : \/ pstate'[q] = pstate[q]
                           \/ pstate[q] = "sleeping" /\ pstate'[q] = "runnable"
    BY SMTT(60), <1>1, <1>2 DEF SleepType
  <1> QED
    BY Zenon, <1>1, <1>3, <1>4, SameKeeps

(* The loop of sys_sleep(), the first time and after a wakeup.             *)
LEMMA LoopKeeps ==
    ASSUME IInv, NEW c \in Cpus, NEW p \in Threads, NEW l \in {"sys_sleep", "loop"}, NEW k \in Nat,
           Main(c, p, l), SleepLoop(c, p, k)
    PROVE  IInv'
  BY Zenon, SleepReturnKeeps, SleepAgainKeeps DEF SleepLoop

-----------------------------------------------------------------------------
(* Every step, and the state in which main() leaves the CPUs.              *)
LEMMA SchedStepKeeps == ASSUME IInv, NEW c \in Cpus, SchedStep(c) PROVE IInv'
  BY Zenon, IntrOnKeeps, ScanKeeps, RunProcKeeps, SkipProcKeeps, BackKeeps DEF SchedStep

(* A step of kerneltrap() or usertrap() on c.                              *)
LEMMA TrapStepKeeps == ASSUME IInv, NEW c \in Cpus, TrapStep(c) PROVE IInv'
  <1>1. CASE Clock(c) \/ Tick(c) \/ WakeupNext(c) \/ Tock(c)
    BY Zenon, <1>1, ClockKeeps, TickKeeps, WakeupNextKeeps, TockKeeps
  <1>2. CASE TrapExit(c) \/ YieldAcquire(c) \/ Yield(c) \/ Yielded(c) \/ TrapReturn(c)
    BY Zenon, <1>2, TrapExitKeeps, YieldAcquireKeeps, YieldKeeps, YieldedKeeps, TrapReturnKeeps
  <1> QED
    BY Zenon, <1>1, <1>2 DEF TrapStep

(* A step of the process p on c.                                           *)
LEMMA ThreadStepKeeps == ASSUME IInv, NEW c \in Cpus, NEW p \in Threads, ThreadStep(c, p) PROVE IInv'
  <1>1. CASE Forkret(c, p) \/ ForkretReturn(c, p) \/ Ecall(c, p) \/ CallReturn(c, p)
    BY Zenon, <1>1, ForkretKeeps, ForkretReturnKeeps, EcallKeeps, CallReturnKeeps
  <1>2. CASE ExitAcquire(c, p) \/ Exited(c, p) \/ CallTicks(c, p) \/ Uptime(c, p)
    BY Zenon, <1>2, ExitAcquireKeeps, ExitedKeeps, CallTicksKeeps, UptimeKeeps
  <1>3. CASE SysSleep(c, p)
    <2>1. \A n \in 0 .. MaxTicks : n \in Nat
      BY SMTT(60), CpuAssumption
    <2> QED
      BY Zenon, <1>3, <2>1, LoopKeeps DEF SysSleep
  <1>4. CASE Loop(c, p)
    <2>1. left[p] \in Nat
      BY Zenon, Parts DEF SleepType
    <2> QED
      BY Zenon, <1>4, <2>1, LoopKeeps DEF Loop
  <1>5. CASE Sleep(c, p) \/ Sleeping(c, p) \/ Asleep(c, p) \/ Slept(c, p) \/ Reacquire(c, p)
    BY Zenon, <1>5, SleepKeeps, SleepingKeeps, AsleepKeeps, SleptKeeps, ReacquireKeeps
  <1> QED
    BY Zenon, <1>1, <1>2, <1>3, <1>4, <1>5 DEF ThreadStep

(* Every step keeps the invariant.                                         *)
LEMMA NextKeeps == IInv /\ [CpuNext]_cpuVars => IInv'
  <1> SUFFICES ASSUME IInv, [CpuNext]_cpuVars PROVE IInv'
    BY Zenon
  <1>1. ASSUME NEW c \in Cpus, SchedStep(c) \/ Timer(c) \/ Trap(c) \/ TrapStep(c) PROVE IInv'
    BY Zenon, <1>1, SchedStepKeeps, TimerKeeps, TrapKeeps, TrapStepKeeps
  <1>2. ASSUME NEW c \in Cpus, NEW p \in Threads, ThreadStep(c, p) PROVE IInv'
    BY Zenon, <1>2, ThreadStepKeeps
  <1>3. ASSUME NEW p \in Threads, KillSleeper(p) PROVE IInv'
    BY Zenon, <1>3, KillKeeps
  <1>4. CASE UNCHANGED cpuVars
    <2>1. UNCHANGED <<intrVars, where, sleepVars>>
      BY Zenon, <1>4 DEF cpuVars
    <2>2. SleepType
      BY Zenon, Parts
    <2> QED
      BY Zenon, <2>1, <2>2, SameKeeps DEF sleepVars, SleepType
  <1> QED
    BY Zenon, <1>1, <1>2, <1>3, <1>4 DEF CpuNext

(* main() has started the schedulers and the processes are new.            *)
LEMMA InitInv == CpuInit => IInv
  <1> SUFFICES ASSUME CpuInit PROVE IInv
    BY Zenon
  <1>c. /\ Null \notin Threads /\ Null \notin Cpus /\ Threads \subseteq Contexts /\ 1 \in Threads
        /\ 1 \in 1 .. NTHREAD + 1
        /\ \A c \in Cpus : Sched(c) \in Contexts /\ Sched(c) \notin Threads
    BY Zenon, ConstFacts
  <1>1. IntrType
    BY SMTT(60) DEF CpuInit, IntrType
  <1>2. WhereType
    BY SMTT(60), <1>c DEF CpuInit, WhereType, SchedPcs, ThreadPcs, TrapPcs
  <1>3. SleepType
    BY SMTT(60) DEF CpuInit, SleepType
  <1>4. /\ \A p \in Threads : /\ pc[p] = "forkret" /\ tr[p] = "none" /\ pstate[p] = "runnable" /\ left[p] = 0
        /\ \A c \in Cpus : /\ pc[Sched(c)] = "on" /\ tr[Sched(c)] = "none" /\ cproc[c] = Null /\ sidx[c] = 1
                           /\ noff[c] = 0 /\ spin[c] = Null /\ ~intena[c] /\ ~sie[c]
        /\ \A l \in Locks : lock[l] = Null
        /\ widx = 1
        /\ \A x \in Contexts : tr[x] = "none" /\ pc[x] = IF x \in Threads THEN "forkret" ELSE "on"
    BY Zenon, <1>c DEF CpuInit
  <1>5. \A p \in Threads : Place(p) = "forkret"
    BY Zenon, <1>4 DEF Place
  <1>6. \A c \in Cpus : Cur(c) = Sched(c) /\ Own(c) = 1 /\ At(c) = "on"
    BY Zenon, <1>4 DEF Cur, Own, At, Place
  <1>7. RunOK
    <2>1. "runnable" # "running" /\ "runnable" # "sleeping" /\ "runnable" # "zombie"
      BY SMTT(60)
    <2> QED
      BY Zenon, <1>c, <1>4, <1>5, <2>1 DEF RunOK
  <1>8. TickOK
    <2>1. /\ "forkret" \notin {"sleep", "sleeping"} /\ "forkret" # "asleep"
          /\ "runnable" # "sleeping"
      BY SMTT(60)
    <2> QED
      BY Zenon, <1>4, <1>5, <2>1 DEF TickOK
  <1>9. CpuOK
    <2>1. ASSUME NEW c \in Cpus PROVE LockOK(c) /\ IntrOK(c)
      <3>1. Depth("on") = 0 /\ SpunAt("on", 1) = Null /\ HeldAt("on", 1) = {}
        BY SMTT(60) DEF Depth, SpunAt, HeldAt, TicksPcs, OwnPcs, SpinTicksPcs, SpinOwnPcs
      <3>2. \A l \in Locks : lock[l] # c
        BY Zenon, <1>c, <1>4
      <3>0. /\ noff[c] = 0 /\ spin[c] = Null /\ At(c) = "on" /\ Own(c) = 1
        BY Zenon, <1>4, <1>6
      <3>3. LockOK(c)
        BY Zenon, <3>0, <3>1, <3>2 DEF LockOK
      <3>4. /\ noff[c] = 0 /\ ~sie[c] /\ Cur(c) = Sched(c) /\ tr[Sched(c)] = "none"
            /\ pc[Sched(c)] = "on"
        BY Zenon, <1>4, <1>6
      <3>5. IntrOK(c)
        BY SMTT(60), <3>4 DEF IntrOK, CallPcs
      <3> QED
        BY Zenon, <3>3, <3>5
    <2>2. ASSUME NEW x \in Contexts PROVE ContextOK(x)
      <3>1. tr[x] = "none" /\ pc[x] = IF x \in Threads THEN "forkret" ELSE "on"
        BY Zenon, <1>4
      <3> QED
        BY SMTT(60), <3>1 DEF ContextOK, ThreadPcs, SchedPcs
    <2>3. ASSUME NEW p \in Threads PROVE SavedOK(p)
      <3>1. "forkret" # "yielded" /\ "forkret" # "slept"
        BY SMTT(60)
      <3> QED
        BY Zenon, <1>5, <3>1 DEF SavedOK
    <2> QED
      BY Zenon, <2>1, <2>2, <2>3 DEF CpuOK
  <1> QED
    BY Zenon, <1>1, <1>2, <1>3, <1>7, <1>8, <1>9 DEF IInv, TypeOK

-----------------------------------------------------------------------------
(* The theorems.                                                           *)

(* The locks and interrupts of a CPU follow from the place of what it      *)
(* runs, and the clock and the sleepers agree, in every reachable state.   *)
THEOREM Inductive == CpuSpec => []IInv
  BY InitInv, NextKeeps, PTL DEF CpuSpec

(* The types of struct cpu, struct proc, the locks and the contexts.       *)
THEOREM TypeCorrect == CpuSpec => []TypeOK
  BY Inductive, PTL DEF IInv

(* No tick is lost on a process that sleeps in sys_sleep(): clockintr()    *)
(* has yet to come to it, if it has counted the last tick.                 *)
THEOREM TickWakesAlways == CpuSpec => []TickWakes
  <1>1. IInv => TickWakes
    <2> SUFFICES ASSUME IInv, NEW p \in Threads, pstate[p] = "sleeping", left[p] = 0
                 PROVE  \E c \in Cpus : InTrap(c, "wakeup") /\ widx <= p
      BY Zenon DEF TickWakes
    <2>1. PICK c \in Cpus : At(c) = "wakeup" /\ widx <= p
      BY Zenon, Parts DEF TickOK, Passing
    <2>2. Cur(c) \in Contexts
      BY Zenon, Parts, CurFacts
    <2>3. pc[Cur(c)] \in SchedPcs \cup ThreadPcs /\ (tr[Cur(c)] = "none" => pc[Cur(c)] = "wakeup")
          /\ (tr[Cur(c)] # "none" => tr[Cur(c)] = "wakeup")
      BY Zenon, <2>1, <2>2, Parts DEF At, Place, WhereType
    <2>4. "wakeup" \notin SchedPcs \cup ThreadPcs
      BY SMTT(60) DEF SchedPcs, ThreadPcs
    <2>5. tr[Cur(c)] = "wakeup"
      BY Zenon, <2>3, <2>4
    <2> QED
      BY Zenon, <2>1, <2>5 DEF InTrap
  <1> QED
    BY Inductive, <1>1, PTL

INSTANCE FiniteSetTheorems

(* noff counts the locks that are held at l.                               *)
LEMMA HeldCount ==
    ASSUME NEW l, NEW o
    PROVE  Depth(l) = Cardinality(HeldAt(l, o)) + (IF l \in SpinTicksPcs \cup SpinOwnPcs THEN 1 ELSE 0)
  <1>1. /\ Cardinality({}) = 0 /\ Cardinality({Ticks}) = 1 /\ Cardinality({o}) = 1
    BY Zenon, FS_EmptySet, FS_Singleton
  <1>2. CASE l \in TicksPcs
    <2>1. HeldAt(l, o) = {Ticks}
      BY Zenon, <1>2 DEF HeldAt
    <2> QED
      BY SMTT(60), <1>1, <1>2, <2>1 DEF Depth, TicksPcs, SpinTicksPcs, SpinOwnPcs
  <1>3. CASE l \in OwnPcs
    <2>1. l \notin TicksPcs
      BY SMTT(60), <1>3 DEF TicksPcs, OwnPcs
    <2>2. HeldAt(l, o) = {o}
      BY Zenon, <1>3, <2>1 DEF HeldAt
    <2> QED
      BY SMTT(60), <1>1, <1>3, <2>2 DEF Depth, OwnPcs, SpinTicksPcs, SpinOwnPcs
  <1>4. CASE l \notin TicksPcs /\ l \notin OwnPcs
    <2>1. HeldAt(l, o) = {}
      BY Zenon, <1>4 DEF HeldAt
    <2> QED
      BY SMTT(60), <1>1, <1>4, <2>1 DEF Depth, TicksPcs
  <1> QED
    BY Zenon, <1>2, <1>3, <1>4

(* noff counts the locks that a CPU holds or spins for, none of which it   *)
(* holds and spins for at once; interrupts are off while there is one and  *)
(* in a handler, and on in a system call that holds none.                  *)
THEOREM IntrExactAlways == CpuSpec => []IntrExact
  <1>1. IInv => IntrExact
    <2> SUFFICES ASSUME IInv, NEW c \in Cpus
                 PROVE  /\ noff[c] = Cardinality({l \in Locks : lock[l] = c}) + (IF spin[c] = Null THEN 0 ELSE 1)
                        /\ spin[c] # Null => lock[spin[c]] # c
                        /\ noff[c] > 0 \/ tr[Cur(c)] # "none" => ~sie[c]
                        /\ noff[c] > 0 /\ tr[Cur(c)] \notin {"none", "yielded"} => ~intena[c]
                        /\ tr[Cur(c)] = "none" /\ pc[Cur(c)] \in CallPcs => IF noff[c] > 0 THEN intena[c] ELSE sie[c]
      BY Zenon DEF IntrExact
    <2>0. Now(c, Cur(c), At(c), Own(c))
      BY Zenon, NowFacts
    <2>1. /\ noff[c] = Depth(At(c)) /\ spin[c] = SpunAt(At(c), Own(c)) /\ Own(c) \in Threads
          /\ \A m \in Locks : lock[m] = c <=> m \in HeldAt(At(c), Own(c))
          /\ IntrOK(c)
      BY Zenon, <2>0 DEF Now
    <2>c. Null \notin Threads /\ Null # Ticks /\ Threads \subseteq Locks /\ Ticks \in Locks
          /\ Ticks \notin Threads
      BY Zenon, ConstFacts
    <2>2. HeldAt(At(c), Own(c)) \subseteq Locks
      BY SMTT(60), <2>1, <2>c DEF HeldAt
    <2>3. {l \in Locks : lock[l] = c} = HeldAt(At(c), Own(c))
      BY Zenon, <2>1, <2>2
    <2>4. spin[c] = Null <=> At(c) \notin SpinTicksPcs \cup SpinOwnPcs
      BY SMTT(60), <2>1, <2>c DEF SpunAt
    <2>5. noff[c] = Cardinality({l \in Locks : lock[l] = c}) + (IF spin[c] = Null THEN 0 ELSE 1)
      BY SMTT(60), <2>1, <2>3, <2>4, HeldCount
    <2>6. spin[c] # Null => spin[c] \in Locks /\ spin[c] \notin HeldAt(At(c), Own(c))
      BY SMTT(60), <2>1, <2>c DEF SpunAt, HeldAt, TicksPcs, OwnPcs, SpinTicksPcs, SpinOwnPcs
    <2>7. spin[c] # Null => lock[spin[c]] # c
      BY Zenon, <2>1, <2>6
    <2> QED
      BY Zenon, <2>1, <2>5, <2>7 DEF IntrOK
  <1> QED
    BY Inductive, <1>1, PTL

=============================================================================
