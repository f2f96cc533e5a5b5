----------------------------- MODULE LogProofs ------------------------------
(***************************************************************************)
(* The theorems about Log: the cache, durability and sleepers, and that the *)
(* log implements AtomicLog whatever crashes happen.                       *)
(***************************************************************************)
EXTENDS LogInvProofs

(* The type invariant of struct log, its header and the buffers.           *)
THEOREM TypeCorrect == Spec => []TypeOK
  BY Inductive, PTL DEF IInv

(* For any log size and any number of system calls: bget() may recycle a   *)
(* buffer that log_write() has not pinned, since the disk has its contents. *)
THEOREM CacheSafe == Spec => []UnpinnedClean
  <1>1. IInv => UnpinnedClean
    BY DEF IInv, CacheInv, UnpinnedClean
  <1> QED
    BY Inductive, <1>1, PTL

(* More blocks and more system calls need more room.                       *)
LEMMA RoomGrows ==
    ASSUME NEW m \in Nat, NEW n \in Nat, NEW x \in Nat, NEW y \in Nat, m <= n, x <= y,
           m + (x + 1) * MAXOPBLOCKS > LOGSIZE
    PROVE  n + (y + 1) * MAXOPBLOCKS > LOGSIZE
  BY ReserveAssumption

(* Every step that removes a reason to sleep wakes the sleepers.           *)
LEMMA WakerNext == IInv /\ SleeperHasWaker /\ [Next]_vars => SleeperHasWaker'
  <1> SUFFICES ASSUME IInv, SleeperHasWaker, [Next]_vars PROVE SleeperHasWaker'
    OBVIOUS
  <1> USE DEF Goto, diskVars, logVars, bufVars
  <1>1. CASE UNCHANGED vars
    BY SMTT(60), <1>1 DEF vars, SleeperHasWaker, NoRoom
  <1>2. ASSUME ReadHead PROVE SleeperHasWaker'
    BY SMTT(60), <1>2, ThreadFacts DEF ReadHead, IInv, SleeperHasWaker, ThreadInv, CommitPcs
  <1>3. ASSUME Recover PROVE SleeperHasWaker'
    BY SMTT(60), <1>3 DEF Recover, InstallBlock, SleeperHasWaker, NoRoom
  <1>4. ASSUME RecoverDone PROVE SleeperHasWaker'
    BY SMTT(60), <1>4 DEF RecoverDone, SleeperHasWaker, NoRoom
  <1>5. ASSUME RecoverClear PROVE SleeperHasWaker'
    BY SMTT(60), <1>5, ThreadFacts DEF RecoverClear, ClearHead, IInv, SleeperHasWaker, ThreadInv,
      CommitPcs
  <1>6. ASSUME NEW o \in Ops, Call(o) PROVE SleeperHasWaker'
    BY SMTT(60), <1>6 DEF Call, SleeperHasWaker, NoRoom
  <1>7. ASSUME NEW o \in Ops, BeginSleep(o) PROVE SleeperHasWaker'
    <2>1. committing \/ outstanding > 0
      <3>1. SUFFICES ASSUME ~committing, outstanding = 0 PROVE FALSE
        BY SMTT(60), ThreadFacts DEF IInv, SleeperHasWaker, TypeOK
      <3>2. lh = <<>> /\ NoRoom
        BY SMTT(60), <1>7, <3>1, ThreadFacts DEF BeginSleep, HeaderInv, InCommit, IInv,
          SleeperHasWaker, ThreadInv, CommitPcs
      <3>3. 0 + (0 + 1) * MAXOPBLOCKS > LOGSIZE
        BY SMTT(60), <3>1, <3>2 DEF SleeperHasWaker, NoRoom
      <3> QED
        BY SMTT(60), <3>3, ReserveAssumption
    <2> QED
      BY SMTT(60), <1>7, <2>1 DEF BeginSleep, SleeperHasWaker, NoRoom
  <1>8. ASSUME NEW o \in Ops, BeginOp(o) PROVE SleeperHasWaker'
    <2>1. NoRoom => NoRoom'
      BY SMTT(60), <1>8, RoomGrows DEF BeginOp
    <2> QED
      BY SMTT(60), <1>8, <2>1 DEF BeginOp, SleeperHasWaker
  <1>9. ASSUME NEW o \in Ops, KillWake(o) PROVE SleeperHasWaker'
    BY SMTT(60), <1>9 DEF KillWake, SleeperHasWaker, NoRoom
  <1>10. ASSUME NEW o \in Ops, NEW b \in Blocks, NEW v \in Vals, LogWrite(o, b, v)
         PROVE  SleeperHasWaker'
    <2>1. Len(lh') \in Nat /\ Len(lh) <= Len(lh') /\ outstanding' = outstanding
      BY SMTT(60), <1>10 DEF LogWrite, AddBlock
    <2>2. NoRoom => NoRoom'
      <3>1. (outstanding + 1) * MAXOPBLOCKS \in Nat
        BY SMTT(60), ReserveAssumption, ThreadFacts DEF IInv, SleeperHasWaker, TypeOK
      <3> QED
        BY SMTT(60), <2>1, <3>1, ThreadFacts, SeqFacts DEF IInv, SleeperHasWaker, TypeOK, NoRoom
    <2> QED
      BY SMTT(60), <1>10, <2>2 DEF LogWrite, SleeperHasWaker
  <1>11. ASSUME NEW o \in Ops, EndOp(o) PROVE SleeperHasWaker'
    BY SMTT(60), <1>11, ThreadFacts DEF EndOp, Wakeup, SleeperHasWaker
  <1>12. ASSUME NEW o \in Ops, LastEndOp(o) PROVE SleeperHasWaker'
    BY SMTT(60), <1>12 DEF LastEndOp, SleeperHasWaker
  <1>13. ASSUME NEW o \in Ops, WriteLog(o) PROVE SleeperHasWaker'
    BY SMTT(60), <1>13 DEF WriteLog, SleeperHasWaker, NoRoom
  <1>14. ASSUME NEW o \in Ops, WriteLogDone(o) PROVE SleeperHasWaker'
    BY SMTT(60), <1>14 DEF WriteLogDone, SleeperHasWaker, NoRoom
  <1>15. ASSUME NEW o \in Ops, WriteHead(o) PROVE SleeperHasWaker'
    BY SMTT(60), <1>15 DEF WriteHead, SleeperHasWaker, NoRoom
  <1>16. ASSUME NEW o \in Ops, Install(o) PROVE SleeperHasWaker'
    BY SMTT(60), <1>16 DEF Install, InstallBlock, SleeperHasWaker, NoRoom
  <1>17. ASSUME NEW o \in Ops, InstallDone(o) PROVE SleeperHasWaker'
    BY SMTT(60), <1>17 DEF InstallDone, SleeperHasWaker, NoRoom
  <1>18. ASSUME NEW o \in Ops, CommitClear(o) PROVE SleeperHasWaker'
    BY SMTT(60), <1>18, ThreadFacts DEF CommitClear, ClearHead, IInv, SleeperHasWaker, ThreadInv,
      CommitPcs
  <1>19. ASSUME NEW o \in Ops, EndCommit(o) PROVE SleeperHasWaker'
    BY SMTT(60), <1>19, ThreadFacts DEF EndCommit, Wakeup, SleeperHasWaker
  <1>20. ASSUME NEW b \in Blocks, Evict(b) PROVE SleeperHasWaker'
    BY SMTT(60), <1>20 DEF Evict, SleeperHasWaker, NoRoom
  <1>21. ASSUME Crash PROVE SleeperHasWaker'
    BY SMTT(60), <1>21, ThreadFacts DEF Crash, SleeperHasWaker
  <1> QED
    BY SMTT(60), <1>1, <1>2, <1>3, <1>4, <1>5, <1>6, <1>7, <1>8, <1>9, <1>10, <1>11, <1>12,
      <1>13, <1>14, <1>15, <1>16, <1>17, <1>18, <1>19, <1>20, <1>21 DEF Next, BootStep, OpStep,
      BeginStep, EndStep, CommitStep

(* No process sleeps in begin_op() without a commit or another system call *)
(* that will wake it, for every LOGSIZE and MAXOPBLOCKS with room for one. *)
THEOREM WakerSafe == Spec => []SleeperHasWaker
  <1>1. Init => SleeperHasWaker
    BY ThreadFacts DEF Init, SleeperHasWaker
  <1> QED
    BY Inductive, WakerNext, <1>1, PTL DEF Spec

(* What recovery yields, block by block.                                   *)
LEMMA RecoveredFacts ==
    ASSUME NEW h \in Seq(Blocks), NEW l, NEW d, Distinct(h)
    PROVE  /\ \A i \in 1 .. Len(h) : Recovered(h, l, d)[h[i]] = l[i]
           /\ \A b \in Blocks \ Logged(h) : Recovered(h, l, d)[b] = d[b]
  <1>1. ASSUME NEW i \in 1 .. Len(h) PROVE Recovered(h, l, d)[h[i]] = l[i]
    <2>1. (CHOOSE j \in 1 .. Len(h) : h[j] = h[i]) = i
      BY DEF Distinct
    <2>2. h[i] \in Blocks /\ h[i] \in Logged(h)
      BY DEF Logged
    <2> QED
      BY Zenon, <2>1, <2>2 DEF Recovered
  <1> QED
    BY Zenon, <1>1 DEF Recovered

(* Two recoveries that agree on every block are the same.                  *)
LEMMA RecoveredEqual ==
    ASSUME NEW h, NEW l, NEW d, NEW f \in [Blocks -> Vals],
           \A b \in Blocks : Recovered(h, l, d)[b] = f[b]
    PROVE  Recovered(h, l, d) = f
  BY Zenon DEF Recovered

(* An empty log: the disk is the home blocks.                              *)
LEMMA RecoveredEmpty ==
    ASSUME NEW l, NEW d \in [Blocks -> Vals] PROVE Recovered(<<>>, l, d) = d
  <1>1. Logged(<<>>) = {} /\ Distinct(<<>>) /\ <<>> \in Seq(Blocks)
    BY DEF Logged, Distinct
  <1>2. \A b \in Blocks : Recovered(<<>>, l, d)[b] = d[b]
    BY <1>1 DEF Recovered
  <1> QED
    BY <1>2, RecoveredEqual

(* A log that has been installed: the same.                                *)
LEMMA RecoveredInstalled ==
    ASSUME NEW h \in Seq(Blocks), NEW l, NEW d \in [Blocks -> Vals], Distinct(h),
           \A i \in 1 .. Len(h) : d[h[i]] = l[i]
    PROVE  Recovered(h, l, d) = d
  <1>1. \A b \in Blocks : Recovered(h, l, d)[b] = d[b]
    BY RecoveredFacts DEF Logged
  <1> QED
    BY <1>1, RecoveredEqual

(* Once every logged block is home, recovery would change nothing.         *)
LEMMA InstalledStable ==
    ASSUME TypeOK, Distinct(hdr), \A i \in 1 .. Len(hdr) : home[hdr[i]] = logblk[i]
    PROVE  Stable = home
  <1>1. hdr \in Seq(Blocks) /\ home \in [Blocks -> Vals]
    BY Zenon DEF TypeOK
  <1>2. Recovered(hdr, logblk, home) = home
    BY Zenon, <1>1, RecoveredInstalled
  <1> QED
    BY Zenon, <1>2 DEF Stable

(* Installing a logged block does not show.                                *)
LEMMA InstallStable ==
    ASSUME TypeOK, HeaderInv, lh = hdr, NEW t \in Threads, InstallBlock(t)
    PROVE  Stable' = Stable
  <1> DEFINE i == tail[t] + 1
  <1>1. i \in 1 .. Len(hdr) /\ hdr[i] \in Logged(hdr)
    BY SMTT(60), SeqFacts DEF TypeOK, InstallBlock, Logged
  <1>2. \A b \in Blocks \ Logged(hdr) : home'[b] = home[b]
    BY <1>1 DEF InstallBlock, TypeOK
  <1>3. hdr' = hdr /\ logblk' = logblk
    BY DEF InstallBlock
  <1> QED
    BY <1>2, <1>3 DEF Stable, Recovered

(* When the last end_op() has returned, all that was written is durable.   *)
THEOREM DurableSafe == Spec => []QuiescentDurable
  <1>1. IInv => QuiescentDurable
    <2> SUFFICES ASSUME IInv, pc[Boot] = "up", outstanding = 0, ~committing
                 PROVE  Stable = cache
      BY DEF QuiescentDurable
    <2>1. \A o \in Ops : pc[o] \notin CommitPcs
      BY DEF IInv, ThreadInv
    <2>2. hdr = <<>> /\ lh = <<>>
      BY <2>1 DEF IInv, HeaderInv, InCommit, Committed, CommitPcs
    <2>3. \A b \in Blocks : cache[b] = home[b]
      BY <2>2, SeqFacts DEF IInv, CacheInv, Logged
    <2>4. Stable = home
      BY <2>2, RecoveredEmpty DEF Stable, IInv, TypeOK
    <2> QED
      BY <2>3, <2>4 DEF IInv, TypeOK
  <1> QED
    BY Inductive, <1>1, PTL

(* Every step of the log is a step of AtomicLog, or does not show: writing *)
(* the header is the commit, installing and recovering do not show.        *)
LEMMA AtomicNext == IInv /\ [Next]_vars => [Atomic!Next]_Atomic!avars
  <1> SUFFICES ASSUME IInv, [Next]_vars PROVE [Atomic!Next]_Atomic!avars
    OBVIOUS
  <1> USE DEF Goto, diskVars, logVars, bufVars, Atomic!Next, Atomic!avars
  <1>1. CASE UNCHANGED vars
    BY SMTT(60), <1>1 DEF vars, Stable, View, Active
  <1>2. ASSUME ReadHead PROVE [Atomic!Next]_Atomic!avars
    BY SMTT(60), <1>2 DEF ReadHead, Stable, View, Active
  <1>3. ASSUME Recover PROVE [Atomic!Next]_Atomic!avars
    <2>1. Stable' = Stable
      BY SMTT(60), <1>3, InstallStable, ThreadFacts DEF Recover, RecoverInv, IInv, View
    <2> QED
      BY SMTT(60), <1>3, <2>1 DEF Recover, InstallBlock, View, Active
  <1>4. ASSUME RecoverDone PROVE [Atomic!Next]_Atomic!avars
    BY SMTT(60), <1>4 DEF RecoverDone, Stable, View, Active
  <1>5. ASSUME RecoverClear PROVE [Atomic!Next]_Atomic!avars
    <2>1. Stable = home
      <3>1. Distinct(hdr) /\ \A i \in 1 .. Len(hdr) : home[hdr[i]] = logblk[i]
        BY SMTT(60), <1>5 DEF RecoverClear, RecoverInv, HeaderInv, Installed, IInv, View
      <3> QED
        BY Zenon, <3>1, InstalledStable DEF IInv, View
    <2>2. Stable' = home
      BY SMTT(60), <1>5, RecoveredEmpty, ThreadFacts DEF RecoverClear, ClearHead, Stable, IInv,
        View, TypeOK
    <2>3. cache' = home
      BY SMTT(60), <1>5 DEF RecoverClear, ClearHead, RecoverInv, IInv, View
    <2> QED
      BY SMTT(60), <1>5, <2>1, <2>2, <2>3 DEF RecoverClear, View, Active
  <1>6. ASSUME NEW o \in Ops, Call(o) PROVE [Atomic!Next]_Atomic!avars
    BY SMTT(60), <1>6 DEF Call, Stable, View, Active
  <1>7. ASSUME NEW o \in Ops, BeginSleep(o) PROVE [Atomic!Next]_Atomic!avars
    BY SMTT(60), <1>7 DEF BeginSleep, Stable, View, Active
  <1>8. ASSUME NEW o \in Ops, BeginOp(o) PROVE [Atomic!Next]_Atomic!avars
    <2>1. Atomic!Begin(o)
      BY SMTT(60), <1>8, ThreadFacts DEF BeginOp, Atomic!Begin, Stable, IInv, View, TypeOK,
        Active
    <2> QED
      BY SMTT(60), <2>1
  <1>9. ASSUME NEW o \in Ops, KillWake(o) PROVE [Atomic!Next]_Atomic!avars
    BY SMTT(60), <1>9 DEF KillWake, Stable, View, Active
  <1>10. ASSUME NEW o \in Ops, NEW b \in Blocks, NEW v \in Vals, LogWrite(o, b, v)
         PROVE  [Atomic!Next]_Atomic!avars
    <2>1. pc[Boot] = "up"
      BY SMTT(60), <1>10, ThreadFacts DEF LogWrite, IInv, View, ThreadInv, CommitPcs
    <2>2. Atomic!Write(o, b, v)
      BY SMTT(60), <1>10, <2>1 DEF LogWrite, Atomic!Write, Stable, View, Active
    <2> QED
      BY SMTT(60), <2>2
  <1>11. ASSUME NEW o \in Ops, EndOp(o) PROVE [Atomic!Next]_Atomic!avars
    <2>1. Atomic!End(o)
      BY SMTT(60), <1>11, ThreadFacts DEF EndOp, Wakeup, Atomic!End, Stable, View, Active
    <2> QED
      BY SMTT(60), <2>1
  <1>12. ASSUME NEW o \in Ops, LastEndOp(o) PROVE [Atomic!Next]_Atomic!avars
    <2>1. Atomic!End(o)
      BY SMTT(60), <1>12, ThreadFacts DEF LastEndOp, Atomic!End, Stable, IInv, View, TypeOK,
        Active
    <2> QED
      BY SMTT(60), <2>1
  <1>13. ASSUME NEW o \in Ops, WriteLog(o) PROVE [Atomic!Next]_Atomic!avars
    <2>1. pc[Boot] = "up" /\ \A q \in Ops : ~Committed(q)
      BY SMTT(60), <1>13, ThreadFacts DEF WriteLog, Committed, IInv, View, ThreadInv, CommitPcs
    <2>2. hdr = <<>> /\ hdr' = <<>>
      BY SMTT(60), <1>13, <2>1 DEF WriteLog, HeaderInv, IInv, View
    <2>3. Stable = home /\ Stable' = home
      BY SMTT(60), <1>13, <2>2, RecoveredEmpty, ThreadFacts DEF WriteLog, Stable, IInv, View,
        TypeOK
    <2> QED
      BY SMTT(60), <1>13, <2>1, <2>3 DEF WriteLog, View, Active
  <1>14. ASSUME NEW o \in Ops, WriteLogDone(o) PROVE [Atomic!Next]_Atomic!avars
    BY SMTT(60), <1>14 DEF WriteLogDone, Stable, View, Active
  <1>15. ASSUME NEW o \in Ops, WriteHead(o) PROVE [Atomic!Next]_Atomic!avars
    <2>1. pc[Boot] = "up" /\ Active = {}
      BY SMTT(60), <1>15, ActiveCount, ThreadFacts DEF WriteHead, IInv, View, ThreadInv,
        CommitPcs
    <2>a. Stable' = Recovered(lh, logblk, home)
      BY SMTT(60), <1>15 DEF WriteHead, Stable
    <2>2. \A x \in Blocks : Recovered(lh, logblk, home)[x] = cache[x]
      <3>2. \A x \in Blocks \ Logged(lh) : cache[x] = home[x]
        BY SMTT(60), <2>1 DEF CacheInv, IInv, View
      <3>3. \A i \in 1 .. Len(lh) : logblk[i] = cache[lh[i]]
        BY SMTT(60), <1>15 DEF WriteHead, PhaseInv, Copied, IInv, View
      <3>4. /\ \A i \in 1 .. Len(lh) : Recovered(lh, logblk, home)[lh[i]] = logblk[i]
            /\ \A b \in Blocks \ Logged(lh) : Recovered(lh, logblk, home)[b] = home[b]
        BY SMTT(60), RecoveredFacts, ThreadFacts DEF HeaderInv, IInv, View, TypeOK
      <3>5. \A x \in Logged(lh) : Recovered(lh, logblk, home)[x] = cache[x]
        BY SMTT(60), <3>3, <3>4 DEF Logged
      <3> QED
        BY Zenon, <3>2, <3>4, <3>5
    <2>3. Stable' = cache
      <3>1. cache \in [Blocks -> Vals]
        BY SMTT(60), ThreadFacts DEF IInv, View, TypeOK
      <3>2. Recovered(lh, logblk, home) = cache
        BY SMTT(60), <2>2, <3>1, RecoveredEqual
      <3> QED
        BY SMTT(60), <2>a, <3>2
    <2>4. Atomic!Commit
      BY SMTT(60), <1>15, <2>1, <2>3 DEF WriteHead, Atomic!Commit, View, Active
    <2> QED
      BY SMTT(60), <2>4
  <1>16. ASSUME NEW o \in Ops, Install(o) PROVE [Atomic!Next]_Atomic!avars
    <2>1. Stable' = Stable
      BY SMTT(60), <1>16, InstallStable, ThreadFacts DEF Install, HeaderInv, Committed, IInv,
        View
    <2>2. cache' = cache
      BY SMTT(60), <1>16, InstallCache DEF IInv, View
    <2> QED
      BY Zenon, <1>16, <2>1, <2>2 DEF Install, InstallBlock, View, Active
  <1>17. ASSUME NEW o \in Ops, InstallDone(o) PROVE [Atomic!Next]_Atomic!avars
    BY SMTT(60), <1>17 DEF InstallDone, Stable, View, Active
  <1>18. ASSUME NEW o \in Ops, CommitClear(o) PROVE [Atomic!Next]_Atomic!avars
    <2>1. Stable = home
      <3>1. lh = hdr /\ Distinct(hdr) /\ \A i \in 1 .. Len(hdr) : home[hdr[i]] = logblk[i]
        BY SMTT(60), <1>18 DEF CommitClear, HeaderInv, PhaseInv, Committed, Installed, IInv, View
      <3> QED
        BY Zenon, <3>1, InstalledStable DEF IInv, View
    <2>2. Stable' = home
      BY SMTT(60), <1>18, RecoveredEmpty, ThreadFacts DEF CommitClear, ClearHead, Stable, IInv,
        View, TypeOK
    <2> QED
      BY SMTT(60), <1>18, <2>1, <2>2 DEF CommitClear, ClearHead, View, Active
  <1>19. ASSUME NEW o \in Ops, EndCommit(o) PROVE [Atomic!Next]_Atomic!avars
    BY SMTT(60), <1>19, ThreadFacts DEF EndCommit, Wakeup, Stable, View, Active
  <1>20. ASSUME NEW b \in Blocks, Evict(b) PROVE [Atomic!Next]_Atomic!avars
    <2>1. cache' = cache
      BY SMTT(60), <1>20, EvictCache DEF IInv, View
    <2> QED
      BY SMTT(60), <1>20, <2>1 DEF Evict, Stable, View, Active
  <1>21. ASSUME Crash PROVE [Atomic!Next]_Atomic!avars
    <2>1. Stable' = Stable /\ View' = Stable' /\ Active' = {}
      BY SMTT(60), <1>21, ThreadFacts DEF Crash, Stable, View, Active
    <2>2. Atomic!Crash
      BY SMTT(60), <2>1 DEF Atomic!Crash
    <2> QED
      BY SMTT(60), <2>2
  <1> QED
    BY ZenonT(60), <1>1, <1>2, <1>3, <1>4, <1>5, <1>6, <1>7, <1>8, <1>9, <1>10, <1>11, <1>12,
      <1>13, <1>14, <1>15, <1>16, <1>17, <1>18, <1>19, <1>20, <1>21 DEF Next, BootStep, OpStep,
      BeginStep, EndStep, CommitStep

(* Crash safety of the log, for any number of blocks, system calls, log    *)
(* blocks and crashes: log.c implements AtomicLog.                         *)
THEOREM CrashSafe == Spec => AtomicSpec
  <1>1. Init => Atomic!Init
    <2> SUFFICES ASSUME Init PROVE Atomic!Init
      OBVIOUS
    <2>1. Stable = home
      BY RecoveredEmpty DEF Init, Stable
    <2> QED
      BY <2>1, ThreadFacts DEF Init, Atomic!Init, View, Active
  <1> QED
    BY <1>1, AtomicNext, Inductive, PTL DEF Spec, AtomicSpec, Atomic!Spec


-----------------------------------------------------------------------------
(* The space in the log.                                                   *)
INSTANCE FiniteSetTheorems

(* A running system call has logged what it wrote; the blocks in the log   *)
(* and those still to come have room in it.                                *)
WroteInv ==
  \A o \in Ops : /\ wrote[o] \subseteq Logged(lh) /\ Cardinality(wrote[o]) <= OpBlocks
                 /\ pc[o] # "op" => wrote[o] = {}
RoomInv == Len(lh) + Cardinality(Reserved) <= LOGSIZE

(* The space that a system call gives back, or does not need alone.        *)
SlackInv ==
  outstanding > 0 =>
    \/ Len(lh) + Cardinality(Reserved) < LOGSIZE
    \/ outstanding >= 2
    \/ \E o \in Active : Len(lh) <= Cardinality(wrote[o])

SpaceInv == WroteInv /\ RoomInv /\ (OpBlocks < MAXOPBLOCKS => SlackInv)

(* log.outstanding is the number of running system calls.                  *)
LEMMA ActiveCard ==
    ASSUME TypeOK, CountInv PROVE IsFiniteSet(Active) /\ Cardinality(Active) = outstanding
  <1>1. PICK f : Enumerates(f, outstanding, Active)
    BY Zenon DEF CountInv
  <1>2. outstanding \in Nat
    BY Zenon DEF TypeOK
  <1>3. IsFiniteSet(1 .. outstanding) /\ Cardinality(1 .. outstanding) = outstanding
    <2>1. 1 \in Int /\ outstanding \in Int
      BY SMTT(60), <1>2
    <2>2. /\ IsFiniteSet(1 .. outstanding)
          /\ Cardinality(1 .. outstanding) = IF 1 > outstanding THEN 0 ELSE outstanding - 1 + 1
      BY Zenon, <2>1, FS_Interval
    <2> QED
      BY SMTT(60), <1>2, <2>2
  <1>4. f \in [1 .. outstanding -> Active] /\ DOMAIN f = 1 .. outstanding
    BY Zenon, <1>1 DEF Enumerates
  <1>5. f \in Injection(1 .. outstanding, Active) /\ f \in Surjection(1 .. outstanding, Active)
    BY Zenon, <1>1, <1>4 DEF Enumerates, Injection, IsInjective, Surjection
  <1> QED
    BY Zenon, <1>3, <1>5, FS_Surjection

(* What is reserved is finite, and is no more than begin_op() reserved.    *)
LEMMA ReservedBound ==
    ASSUME TypeOK, CountInv
    PROVE  /\ IsFiniteSet(Reserved) /\ Cardinality(Reserved) \in Nat
           /\ Cardinality(Reserved) <= outstanding * MAXOPBLOCKS
  <1>1. IsFiniteSet(Active) /\ Cardinality(Active) = outstanding
    BY Zenon, ActiveCard
  <1>2. IsFiniteSet(1 .. MAXOPBLOCKS) /\ Cardinality(1 .. MAXOPBLOCKS) = MAXOPBLOCKS
    <2>1. 1 \in Int /\ MAXOPBLOCKS \in Int
      BY SMTT(60), ReserveAssumption
    <2>2. /\ IsFiniteSet(1 .. MAXOPBLOCKS)
          /\ Cardinality(1 .. MAXOPBLOCKS) = IF 1 > MAXOPBLOCKS THEN 0 ELSE MAXOPBLOCKS - 1 + 1
      BY Zenon, <2>1, FS_Interval
    <2> QED
      BY SMTT(60), <2>2, ReserveAssumption
  <1>3. /\ IsFiniteSet(Active \X (1 .. MAXOPBLOCKS))
        /\ Cardinality(Active \X (1 .. MAXOPBLOCKS)) = outstanding * MAXOPBLOCKS
    BY Zenon, <1>1, <1>2, FS_Product
  <1>4. Reserved \in SUBSET (Active \X (1 .. MAXOPBLOCKS))
    BY Zenon DEF Reserved
  <1> QED
    BY Zenon, <1>3, <1>4, FS_Subset, FS_CardinalityType

(* Members of Reserved.                                                    *)
LEMMA ReservedIs ==
    ASSUME NEW o, NEW k
    PROVE  <<o, k>> \in Reserved <=> o \in Active /\ k \in 1 .. MAXOPBLOCKS /\ k > Cardinality(wrote[o])
  BY SMTT(60) DEF Reserved

(* A block that is logged can be counted.                                  *)
LEMMA WroteFinite ==
    ASSUME TypeOK, WroteInv, NEW o \in Ops PROVE IsFiniteSet(wrote[o]) /\ Cardinality(wrote[o]) \in Nat
  <1>1. lh \in Seq(Blocks) /\ Len(lh) \in Nat
    BY Zenon, SeqFacts DEF TypeOK
  <1>2. IsFiniteSet(1 .. Len(lh))
    <2>1. 1 \in Int /\ Len(lh) \in Int
      BY SMTT(60), <1>1
    <2> QED
      BY Zenon, <2>1, FS_Interval
  <1>3. IsFiniteSet(Logged(lh))
    <2> DEFINE f == [i \in 1 .. Len(lh) |-> lh[i]]
    <2>1. f \in Surjection(1 .. Len(lh), Logged(lh))
      BY Zenon DEF Logged, Surjection
    <2> QED
      BY Zenon, <1>2, <2>1, FS_Surjection
  <1>4. wrote[o] \in SUBSET Logged(lh)
    BY Zenon DEF WroteInv
  <1> QED
    BY Zenon, <1>3, <1>4, FS_Subset, FS_CardinalityType

(* The same of the next state.                                             *)
LEMMA ReservedNext ==
    TypeOK' /\ CountInv' =>
      Cardinality(Reserved') \in Nat /\ Cardinality(Reserved') <= outstanding' * MAXOPBLOCKS
  <1>1. TypeOK /\ CountInv => Cardinality(Reserved) \in Nat /\ Cardinality(Reserved) <= outstanding * MAXOPBLOCKS
    BY Zenon, ReservedBound
  <1>2. (TypeOK /\ CountInv)' => (Cardinality(Reserved) \in Nat /\ Cardinality(Reserved) <= outstanding * MAXOPBLOCKS)'
    BY <1>1, PTL
  <1> QED
    BY Zenon, <1>2

(* A system call alone in the log.                                         *)
LEMMA OneActive ==
    ASSUME TypeOK, CountInv, outstanding < 2, NEW o \in Active, NEW q \in Active PROVE o = q
  <1>1. PICK f : Enumerates(f, outstanding, Active)
    BY Zenon DEF CountInv
  <1>2. PICK i \in 1 .. outstanding : f[i] = o
    BY Zenon, <1>1 DEF Enumerates
  <1>3. PICK j \in 1 .. outstanding : f[j] = q
    BY Zenon, <1>1 DEF Enumerates
  <1>4. i = j
    <2>1. outstanding \in Nat
      BY Zenon DEF TypeOK
    <2> QED
      BY SMTT(60), <1>2, <1>3, <2>1
  <1> QED
    BY Zenon, <1>2, <1>3, <1>4

(* System calls that write less than their reservation each leave a block. *)
LEMMA ReservedLow ==
    ASSUME TypeOK, CountInv, WroteInv, OpBlocks < MAXOPBLOCKS
    PROVE  /\ outstanding <= Cardinality(Reserved)
           /\ \A o \in Active : <<o, MAXOPBLOCKS>> \in Reserved
  <1>1. ASSUME NEW o \in Active PROVE <<o, MAXOPBLOCKS>> \in Reserved
    <2>1. o \in Ops
      BY Zenon DEF Active
    <2>2. Cardinality(wrote[o]) \in Nat /\ Cardinality(wrote[o]) <= OpBlocks
      BY Zenon, <2>1, WroteFinite DEF WroteInv
    <2>3. MAXOPBLOCKS \in 1 .. MAXOPBLOCKS /\ MAXOPBLOCKS > Cardinality(wrote[o])
      BY SMTT(60), <2>2, ReserveAssumption
    <2> QED
      BY Zenon, <2>3, ReservedIs
  <1> DEFINE g == [o \in Active |-> <<o, MAXOPBLOCKS>>]
  <1>2. g \in [Active -> Reserved] /\ DOMAIN g = Active /\ \A o \in Active : g[o] = <<o, MAXOPBLOCKS>>
    BY Zenon, <1>1
  <1>3. \A o, q \in Active : g[o] = g[q] => o = q
    BY SMTT(60), <1>2
  <1>4. g \in Injection(Active, Reserved)
    BY Zenon, <1>2, <1>3 DEF Injection, IsInjective
  <1>5. IsFiniteSet(Reserved) /\ Cardinality(Active) = outstanding
    BY Zenon, ActiveCard, ReservedBound
  <1>6. Cardinality(Active) <= Cardinality(Reserved)
    BY Zenon, <1>4, <1>5, FS_Injection
  <1> QED
    BY Zenon, <1>1, <1>5, <1>6

(* Steps that leave the log and the system calls alone.                    *)
Calm == lh' = lh /\ wrote' = wrote /\ outstanding' = outstanding /\ Active' = Active

(* Steps after which no system call is running.                            *)
Emptied == Active' = {} /\ outstanding' = 0 /\ \A o \in Ops : wrote'[o] = {}

(* A step moves one thread, and not to or from the body of a system call.  *)
LEMMA GotoCalm ==
    ASSUME TypeOK, NEW t, NEW l, Goto(t, l), t = Boot \/ pc[t] # "op", l # "op" PROVE Active' = Active
  <1>1. \A o \in Ops : pc'[o] = "op" <=> pc[o] = "op"
    BY SMTT(60), ThreadFacts DEF TypeOK, Goto
  <1> QED
    BY Zenon, <1>1 DEF Active

(* wakeup() moves sleepers only.                                           *)
LEMMA WakeCalm ==
    ASSUME NEW o \in Ops, Wakeup(o, "idle") PROVE Active' = Active \ {o}
  <1>1. \A q \in Ops : pc'[q] = "op" <=> pc[q] = "op" /\ q # o
    BY SMTT(60), ThreadFacts DEF Wakeup
  <1> QED
    BY SMTT(60), <1>1 DEF Active

(* Nobody is running a system call.                                        *)
LEMMA NobodyWrote ==
    ASSUME TypeOK, CountInv, WroteInv, outstanding = 0, wrote' = wrote, outstanding' = 0, Active' = Active
    PROVE  Emptied
  <1>1. Active = {}
    BY Zenon, ActiveCount
  <1>2. \A o \in Ops : pc[o] # "op"
    BY Zenon, <1>1 DEF Active
  <1> QED
    BY Zenon, <1>1, <1>2 DEF Emptied, WroteInv

(* The boot thread's steps.                                                *)
LEMMA BootSpace ==
    ASSUME IInv, WroteInv, BootStep PROVE Calm \/ Emptied
  <1>0. TypeOK /\ CountInv /\ ThreadInv
    BY Zenon DEF IInv
  <1>1. \A l : Goto(Boot, l) /\ l # "op" => Active' = Active
    BY Zenon, <1>0, GotoCalm
  <1>2. pc[Boot] # "up" => outstanding = 0
    <2>1. pc[Boot] # "up" => Active = {}
      BY SMTT(60), <1>0 DEF ThreadInv, Active
    <2> QED
      BY Zenon, <1>0, <2>1, ActiveCount
  <1>3. CASE ReadHead
    <2>1. Active' = Active /\ wrote' = wrote /\ outstanding = 0 /\ outstanding' = outstanding
      BY SMTT(60), <1>1, <1>2, <1>3 DEF ReadHead
    <2> QED
      BY Zenon, <1>0, <2>1, NobodyWrote
  <1>4. CASE Recover
    <2>1. pc' = pc /\ lh' = lh /\ wrote' = wrote /\ outstanding' = outstanding
      BY Zenon, <1>4 DEF Recover, InstallBlock, logVars
    <2> QED
      BY Zenon, <2>1 DEF Calm, Active
  <1>5. CASE RecoverDone
    BY SMTT(60), <1>1, <1>5 DEF RecoverDone, logVars, Calm
  <1>6. CASE RecoverClear
    <2>1. Active' = Active /\ wrote' = wrote /\ outstanding = 0 /\ outstanding' = outstanding
      BY SMTT(60), <1>1, <1>2, <1>6 DEF RecoverClear, ClearHead
    <2> QED
      BY Zenon, <1>0, <2>1, NobodyWrote
  <1> QED
    BY Zenon, <1>3, <1>4, <1>5, <1>6 DEF BootStep

(* The steps of commit().                                                  *)
LEMMA CommitSpace ==
    ASSUME IInv, WroteInv, NEW o \in Ops, CommitStep(o) PROVE Calm \/ Emptied
  <1>0. TypeOK /\ CountInv /\ ThreadInv
    BY Zenon DEF IInv
  <1>1. \A l : Goto(o, l) /\ pc[o] # "op" /\ l # "op" => Active' = Active
    BY Zenon, <1>0, GotoCalm
  <1>2. CASE WriteLog(o) \/ Install(o)
    <2>1. pc' = pc /\ lh' = lh /\ wrote' = wrote /\ outstanding' = outstanding
      BY Zenon, <1>2 DEF WriteLog, Install, InstallBlock, logVars
    <2> QED
      BY Zenon, <2>1 DEF Calm, Active
  <1>3. CASE WriteLogDone(o)
    BY SMTT(60), <1>1, <1>3 DEF WriteLogDone, logVars, Calm
  <1>4. CASE WriteHead(o)
    BY SMTT(60), <1>1, <1>4 DEF WriteHead, logVars, Calm
  <1>5. CASE InstallDone(o)
    BY SMTT(60), <1>1, <1>5 DEF InstallDone, logVars, Calm
  <1>6. CASE CommitClear(o)
    <2>1. Active' = Active /\ wrote' = wrote /\ outstanding' = outstanding
      BY SMTT(60), <1>1, <1>6 DEF CommitClear, ClearHead
    <2>2. outstanding = 0
      BY SMTT(60), <1>0, <1>6 DEF CommitClear, ThreadInv, CommitPcs
    <2> QED
      BY Zenon, <1>0, <2>1, <2>2, NobodyWrote
  <1>7. CASE EndCommit(o)
    <2>1. Active' = Active \ {o}
      BY Zenon, <1>7, WakeCalm DEF EndCommit
    <2>2. o \notin Active
      BY SMTT(60), <1>7 DEF EndCommit, Active
    <2>3. Active' = Active
      BY SMTT(60), <2>1, <2>2
    <2> QED
      BY Zenon, <1>7, <2>3 DEF EndCommit, Calm
  <1> QED
    BY Zenon, <1>2, <1>3, <1>4, <1>5, <1>6, <1>7 DEF CommitStep

(* Every step leaves the space alone, empties the log, or is one of        *)
(* begin_op(), log_write() and end_op().                                   *)
LEMMA SpaceSteps ==
    ASSUME IInv, WroteInv, [Next]_vars
    PROVE  \/ Calm \/ Emptied
           \/ \E o \in Ops : BeginOp(o) \/ EndOp(o) \/ \E b \in Blocks, v \in Vals : LogWrite(o, b, v)
  <1>0. TypeOK
    BY Zenon DEF IInv
  <1>1. CASE UNCHANGED vars
    BY Zenon, <1>1 DEF vars, logVars, Calm, Active
  <1>2. CASE BootStep
    BY Zenon, <1>2, BootSpace
  <1>3. ASSUME NEW o \in Ops, CommitStep(o) PROVE Calm \/ Emptied
    BY Zenon, <1>3, CommitSpace
  <1>4. ASSUME NEW o \in Ops, Call(o) \/ BeginSleep(o) \/ KillWake(o) PROVE Calm
    <2>1. pc[o] # "op" /\ \E l : Goto(o, l) /\ l # "op"
      <3>1. "begin" # "op" /\ "sleeping" # "op" /\ "idle" # "op"
        BY SMTT(60)
      <3> QED
        BY Zenon, <1>4, <3>1 DEF Call, BeginSleep, KillWake
    <2>2. lh' = lh /\ wrote' = wrote /\ outstanding' = outstanding
      BY Zenon, <1>4 DEF Call, BeginSleep, KillWake, logVars
    <2>3. Active' = Active
      BY Zenon, <1>0, <2>1, GotoCalm
    <2> QED
      BY Zenon, <2>2, <2>3 DEF Calm
  <1>5. ASSUME NEW o \in Ops, LastEndOp(o) PROVE Emptied
    <2>1. outstanding = 1 /\ outstanding' = 0 /\ o \in Active
      BY Zenon, <1>5 DEF LastEndOp, Active
    <2>2. \A q \in Active : q = o
      <3>1. CountInv /\ outstanding < 2
        BY SMTT(60), <2>1 DEF IInv
      <3> QED
        BY Zenon, <1>0, <2>1, <3>1, OneActive
    <2>3. \A q \in Ops : pc'[q] # "op"
      <3>1. pc \in [Threads -> OpPcs \cup BootPcs] /\ pc' = [pc EXCEPT ![o] = IF lh = <<>> THEN "end_commit" ELSE "write_log"]
        BY Zenon, <1>0, <1>5 DEF TypeOK, LastEndOp, Goto
      <3>2. \A q \in Ops : pc[q] = "op" => q = o
        BY Zenon, <2>2 DEF Active
      <3> QED
        BY SMTT(60), <3>1, <3>2, ThreadFacts
    <2>4. \A q \in Ops : wrote'[q] = {}
      <3>1. \A q \in Ops : q # o => wrote[q] = {}
        BY Zenon, <2>2 DEF WroteInv, Active
      <3>2. wrote \in [Ops -> SUBSET Blocks] /\ wrote' = [wrote EXCEPT ![o] = {}]
        BY Zenon, <1>0, <1>5 DEF TypeOK, LastEndOp
      <3> QED
        BY SMTT(60), <3>1, <3>2
    <2> QED
      BY Zenon, <2>1, <2>3, <2>4 DEF Emptied, Active
  <1>6. ASSUME NEW b \in Blocks, Evict(b) PROVE Calm
    BY Zenon, <1>6 DEF Evict, logVars, Calm, Active
  <1>7. ASSUME Crash PROVE Emptied
    <2>1. \A q \in Ops : pc'[q] # "op" /\ wrote'[q] = {}
      BY SMTT(60), <1>7, ThreadFacts DEF Crash
    <2> QED
      BY Zenon, <1>7, <2>1 DEF Crash, Emptied, Active
  <1> QED
    BY Zenon, <1>1, <1>2, <1>3, <1>4, <1>5, <1>6, <1>7
    DEF Next, OpStep, BeginStep, EndStep

(* The space after a step that leaves it alone.                            *)
LEMMA CalmSpace ==
    ASSUME WroteInv, RoomInv, Calm
    PROVE  WroteInv' /\ RoomInv' /\ (SlackInv => SlackInv')
  <1>1. lh' = lh /\ wrote' = wrote /\ outstanding' = outstanding /\ Active' = Active
    BY Zenon DEF Calm
  <1>2. Reserved' = Reserved
    BY Zenon, <1>1 DEF Reserved
  <1>3. \A o \in Ops : pc'[o] = "op" <=> pc[o] = "op"
    BY Zenon, <1>1 DEF Active
  <1>4. WroteInv'
    BY Zenon, <1>1, <1>3 DEF WroteInv
  <1> QED
    BY Zenon, <1>1, <1>2, <1>4 DEF RoomInv, SlackInv

(* The space of a log that no system call uses.                            *)
LEMMA EmptySpace ==
    ASSUME TypeOK', Emptied PROVE WroteInv' /\ RoomInv' /\ SlackInv'
  <1>1. Cardinality({}) = 0
    BY Zenon, FS_EmptySet
  <1>2. Reserved' = {}
    BY SMTT(60) DEF Emptied, Reserved
  <1>3. lh' \in Seq(Blocks) /\ Len(lh') <= LOGSIZE
    BY Zenon DEF TypeOK
  <1>4. RoomInv'
    BY SMTT(60), <1>1, <1>2, <1>3, ReserveAssumption DEF RoomInv
  <1>5. 0 <= OpBlocks
    BY SMTT(60), ReserveAssumption
  <1>6. WroteInv'
    <2> SUFFICES ASSUME NEW o \in Ops PROVE /\ wrote'[o] \subseteq Logged(lh') /\ Cardinality(wrote'[o]) <= OpBlocks
                                            /\ pc'[o] # "op" => wrote'[o] = {}
      BY Zenon DEF WroteInv
    <2> QED
      BY Zenon, <1>1, <1>5 DEF Emptied
  <1>7. SlackInv'
    BY SMTT(60) DEF Emptied, SlackInv
  <1> QED
    BY Zenon, <1>4, <1>6, <1>7

(* begin_op() reserves what it found room for.                             *)
LEMMA BeginSpace ==
    ASSUME IInv, WroteInv, RoomInv, TypeOK', CountInv', NEW o \in Ops, BeginOp(o)
    PROVE  WroteInv' /\ RoomInv' /\ SlackInv'
  <1>0. TypeOK /\ ThreadInv /\ HeaderInv /\ CountInv
    BY Zenon DEF IInv
  <1>1. /\ outstanding' = outstanding + 1 /\ lh' = lh /\ wrote' = wrote
        /\ pc[o] = "begin" /\ pc' = [pc EXCEPT ![o] = "op"] /\ ~committing
    BY Zenon DEF BeginOp, Goto
  <1>2. outstanding \in Nat /\ Len(lh) \in Nat /\ pc \in [Threads -> OpPcs \cup BootPcs]
    BY Zenon, <1>0, SeqFacts DEF TypeOK
  <1>3. \A q \in Ops : (pc'[q] = "op" <=> pc[q] = "op" \/ q = o) /\ pc[o] # "op"
    BY SMTT(60), <1>1, <1>2, ThreadFacts
  <1>4. WroteInv'
    BY Zenon, <1>1, <1>3 DEF WroteInv
  <1>5. Cardinality(Reserved') \in Nat /\ Cardinality(Reserved') <= outstanding' * MAXOPBLOCKS
    BY Zenon, ReservedNext
  <1>6. RoomInv'
    <2>1. Len(lh) + (outstanding + 1) * MAXOPBLOCKS <= LOGSIZE
      BY SMTT(60), <1>2, ReserveAssumption DEF BeginOp, NoRoom
    <2>2. (outstanding + 1) * MAXOPBLOCKS \in Nat
      BY SMTT(60), <1>2, ReserveAssumption
    <2>3. Cardinality(Reserved') <= (outstanding + 1) * MAXOPBLOCKS
      BY Zenon, <1>1, <1>5
    <2>4. Len(lh) + Cardinality(Reserved') <= LOGSIZE
      BY SMTT(60), <1>2, <1>5, <2>1, <2>2, <2>3, ReserveAssumption
    <2> QED
      BY Zenon, <1>1, <2>4 DEF RoomInv
  <1>7. CASE outstanding = 0
    <2>1. pc[Boot] = "up" /\ \A q \in Ops : ~InCommit(q)
      BY SMTT(60), <1>0, <1>1 DEF ThreadInv, CommitPcs, InCommit
    <2>2. lh = <<>>
      BY Zenon, <1>0, <1>7, <2>1 DEF HeaderInv
    <2>3. Len(lh') = 0 /\ Cardinality(wrote'[o]) \in Nat
      BY Zenon, <1>0, <1>1, <2>2, SeqFacts, WroteFinite
    <2>4. Len(lh') <= Cardinality(wrote'[o])
      BY SMTT(60), <2>3
    <2>5. o \in Active'
      BY Zenon, <1>3 DEF Active
    <2> QED
      BY Zenon, <1>4, <1>6, <2>4, <2>5 DEF SlackInv
  <1>8. CASE outstanding # 0
    <2>1. outstanding' >= 2
      BY SMTT(60), <1>1, <1>2, <1>8
    <2> QED
      BY Zenon, <1>4, <1>6, <2>1 DEF SlackInv
  <1> QED
    BY Zenon, <1>7, <1>8

(* The next step reserves nothing new, and gives back r.                   *)
LEMMA GivenBack ==
    ASSUME IInv, NEW r \in Reserved, Reserved' \subseteq Reserved \ {r}
    PROVE  /\ Cardinality(Reserved) \in Nat /\ Cardinality(Reserved') \in Nat
           /\ Cardinality(Reserved') < Cardinality(Reserved)
  <1>1. IsFiniteSet(Reserved) /\ Cardinality(Reserved) \in Nat
    BY Zenon, ReservedBound DEF IInv
  <1>2. IsFiniteSet(Reserved \ {r}) /\ Cardinality(Reserved \ {r}) = Cardinality(Reserved) - 1
    BY Zenon, <1>1, FS_RemoveElement
  <1>3. /\ IsFiniteSet(Reserved') /\ Cardinality(Reserved') <= Cardinality(Reserved \ {r})
        /\ Cardinality(Reserved') \in Nat
    BY Zenon, <1>2, FS_Subset, FS_CardinalityType
  <1> QED
    BY SMTT(60), <1>1, <1>2, <1>3

(* The next step reserves nothing new.                                     *)
LEMMA NotMore ==
    ASSUME IInv, Reserved' \subseteq Reserved
    PROVE  /\ Cardinality(Reserved) \in Nat /\ Cardinality(Reserved') \in Nat
           /\ Cardinality(Reserved') <= Cardinality(Reserved)
  <1>1. IsFiniteSet(Reserved)
    BY Zenon, ReservedBound DEF IInv
  <1> QED
    BY Zenon, <1>1, FS_Subset, FS_CardinalityType

(* end_op() gives back what the system call did not write.                 *)
LEMMA EndSpace ==
    ASSUME IInv, WroteInv, RoomInv, NEW o \in Ops, EndOp(o)
    PROVE  WroteInv' /\ RoomInv' /\ (OpBlocks < MAXOPBLOCKS => SlackInv')
  <1>0. TypeOK /\ CountInv
    BY Zenon DEF IInv
  <1>1. pc[o] = "op" /\ Wakeup(o, "idle") /\ wrote' = [wrote EXCEPT ![o] = {}] /\ lh' = lh
    BY Zenon DEF EndOp
  <1>2. /\ Active' = Active \ {o} /\ o \in Active /\ wrote \in [Ops -> SUBSET Blocks]
        /\ lh \in Seq(Blocks) /\ Len(lh) \in Nat
    BY Zenon, <1>0, <1>1, WakeCalm, SeqFacts DEF Active, TypeOK
  <1>3. \A q \in Ops : wrote'[q] = IF q = o THEN {} ELSE wrote[q]
    BY SMTT(60), <1>1, <1>2
  <1>4. \A q \in Ops : pc'[q] # "op" => q = o \/ pc[q] # "op"
    BY SMTT(60), <1>2 DEF Active
  <1>5. WroteInv'
    <2>1. Cardinality({}) = 0
      BY Zenon, FS_EmptySet
    <2>2. Cardinality({}) <= OpBlocks
      BY SMTT(60), <2>1, ReserveAssumption
    <2> SUFFICES ASSUME NEW q \in Ops
                 PROVE  /\ wrote'[q] \subseteq Logged(lh') /\ Cardinality(wrote'[q]) <= OpBlocks
                        /\ pc'[q] # "op" => wrote'[q] = {}
      BY Zenon DEF WroteInv
    <2>3. CASE q = o
      <3>1. wrote'[q] = {}
        BY Zenon, <1>3, <2>3
      <3> QED
        BY Zenon, <2>2, <3>1
    <2>4. CASE q # o
      <3>1. wrote'[q] = wrote[q]
        BY Zenon, <1>3, <2>4
      <3>2. wrote[q] \subseteq Logged(lh) /\ Cardinality(wrote[q]) <= OpBlocks /\ (pc[q] # "op" => wrote[q] = {})
        BY Zenon DEF WroteInv
      <3> QED
        BY Zenon, <1>1, <1>4, <2>4, <3>1, <3>2
    <2> QED
      BY Zenon, <2>3, <2>4
  <1>6. Reserved' \subseteq Reserved /\ \A r \in Reserved' : r[1] # o
    <2>1. ASSUME NEW r \in Reserved' PROVE r \in Reserved /\ r[1] # o
      <3>1. r \in Active' \X (1 .. MAXOPBLOCKS) /\ r[2] > Cardinality(wrote'[r[1]])
        BY Zenon, <2>1 DEF Reserved
      <3>2. r[1] \in Active /\ r[1] # o /\ r \in Active \X (1 .. MAXOPBLOCKS)
        BY SMTT(60), <1>2, <3>1
      <3>3. r[1] \in Ops
        BY Zenon, <3>2 DEF Active
      <3>4. wrote'[r[1]] = wrote[r[1]]
        BY Zenon, <1>3, <3>2, <3>3
      <3> QED
        BY Zenon, <3>1, <3>2, <3>4 DEF Reserved
    <2> QED
      BY Zenon, <2>1
  <1>7. RoomInv'
    <2>1. /\ Cardinality(Reserved) \in Nat /\ Cardinality(Reserved') \in Nat
          /\ Cardinality(Reserved') <= Cardinality(Reserved)
      BY Zenon, <1>6, NotMore
    <2> QED
      BY SMTT(60), <1>1, <1>2, <2>1, ReserveAssumption DEF RoomInv
  <1>8. ASSUME OpBlocks < MAXOPBLOCKS PROVE SlackInv'
    <2>1. <<o, MAXOPBLOCKS>> \in Reserved
      BY Zenon, <1>0, <1>2, <1>8, ReservedLow
    <2>2. Reserved' \subseteq Reserved \ {<<o, MAXOPBLOCKS>>}
      BY SMTT(60), <1>6
    <2>3. /\ Cardinality(Reserved) \in Nat /\ Cardinality(Reserved') \in Nat
          /\ Cardinality(Reserved') < Cardinality(Reserved)
      BY Zenon, <2>1, <2>2, GivenBack
    <2>4. Len(lh') + Cardinality(Reserved') < LOGSIZE
      BY SMTT(60), <1>1, <1>2, <2>3, ReserveAssumption DEF RoomInv
    <2> QED
      BY Zenon, <2>4 DEF SlackInv
  <1> QED
    BY Zenon, <1>5, <1>7, <1>8

(* What log_write() does to the blocks that o has written.                 *)
LEMMA WriteCount ==
    ASSUME IInv, WroteInv, NEW o \in Ops, NEW b \in Blocks, NEW v \in Vals, LogWrite(o, b, v)
    PROVE  /\ Active' = Active /\ o \in Active /\ outstanding' = outstanding
           /\ \A q \in Ops : wrote'[q] = IF q = o THEN wrote[o] \cup {b} ELSE wrote[q]
           /\ Cardinality(wrote[o]) \in Nat /\ Cardinality(wrote'[o]) \in Nat
           /\ Cardinality(wrote[o]) <= Cardinality(wrote'[o]) /\ Cardinality(wrote'[o]) <= OpBlocks
           /\ b \notin wrote[o] => Cardinality(wrote'[o]) = Cardinality(wrote[o]) + 1
  <1>0. TypeOK /\ wrote \in [Ops -> SUBSET Blocks]
    BY Zenon DEF IInv, TypeOK
  <1>1. /\ pc[o] = "op" /\ pc' = pc /\ outstanding' = outstanding
        /\ wrote' = [wrote EXCEPT ![o] = @ \cup {b}]
        /\ b \in wrote[o] \/ Cardinality(wrote[o]) < OpBlocks
    BY Zenon DEF LogWrite
  <1>2. \A q \in Ops : wrote'[q] = IF q = o THEN wrote[o] \cup {b} ELSE wrote[q]
    BY SMTT(60), <1>0, <1>1
  <1>3. IsFiniteSet(wrote[o]) /\ Cardinality(wrote[o]) \in Nat /\ Cardinality(wrote[o]) <= OpBlocks
    BY Zenon, <1>0, WroteFinite DEF WroteInv
  <1>4. /\ Cardinality(wrote[o] \cup {b}) \in Nat
        /\ Cardinality(wrote[o] \cup {b}) = IF b \in wrote[o] THEN Cardinality(wrote[o]) ELSE Cardinality(wrote[o]) + 1
    BY Zenon, <1>3, FS_AddElement, FS_CardinalityType
  <1>5. wrote'[o] = wrote[o] \cup {b}
    BY Zenon, <1>2
  <1>6. Active' = Active /\ o \in Active
    BY Zenon, <1>1 DEF Active
  <1>7. /\ Cardinality(wrote'[o]) \in Nat
        /\ Cardinality(wrote[o]) <= Cardinality(wrote'[o]) /\ Cardinality(wrote'[o]) <= OpBlocks
        /\ b \notin wrote[o] => Cardinality(wrote'[o]) = Cardinality(wrote[o]) + 1
    BY SMTT(60), <1>1, <1>3, <1>4, <1>5, ReserveAssumption
  <1> QED
    BY Zenon, <1>1, <1>2, <1>3, <1>6, <1>7

(* log_write() takes a new block from the reservation of its system call,  *)
(* or absorbs the write.                                                   *)
LEMMA WriteReserved ==
    ASSUME IInv, WroteInv, NEW o \in Ops, NEW b \in Blocks, NEW v \in Vals, LogWrite(o, b, v),
           OpBlocks <= MAXOPBLOCKS
    PROVE  /\ Cardinality(Reserved) \in Nat /\ Cardinality(Reserved') \in Nat
           /\ Cardinality(Reserved') <= Cardinality(Reserved)
           /\ b \notin wrote[o] => Cardinality(Reserved') < Cardinality(Reserved)
  <1>1. /\ Active' = Active /\ o \in Active
        /\ \A q \in Ops : wrote'[q] = IF q = o THEN wrote[o] \cup {b} ELSE wrote[q]
        /\ Cardinality(wrote[o]) \in Nat /\ Cardinality(wrote'[o]) \in Nat
        /\ Cardinality(wrote[o]) <= Cardinality(wrote'[o]) /\ Cardinality(wrote'[o]) <= OpBlocks
        /\ b \notin wrote[o] => Cardinality(wrote'[o]) = Cardinality(wrote[o]) + 1
    BY Zenon, WriteCount
  <1>2. Reserved' \subseteq Reserved
    <2>1. ASSUME NEW r \in Reserved' PROVE r \in Reserved
      <3>1. r \in Active \X (1 .. MAXOPBLOCKS) /\ r[2] > Cardinality(wrote'[r[1]])
        BY Zenon, <1>1, <2>1 DEF Reserved
      <3>2. r[1] \in Active /\ r[2] \in 1 .. MAXOPBLOCKS
        BY SMTT(60), <3>1
      <3>3. r[1] \in Ops
        BY Zenon, <3>2 DEF Active
      <3>4. CASE r[1] = o
        <4>1. r[2] > Cardinality(wrote'[o])
          BY Zenon, <3>1, <3>4
        <4>2. r[2] > Cardinality(wrote[o])
          BY SMTT(60), <1>1, <3>2, <4>1, ReserveAssumption
        <4> QED
          BY Zenon, <3>1, <3>4, <4>2 DEF Reserved
      <3>5. CASE r[1] # o
        <4>1. wrote'[r[1]] = wrote[r[1]]
          BY Zenon, <1>1, <3>3, <3>5
        <4> QED
          BY Zenon, <3>1, <4>1 DEF Reserved
      <3> QED
        BY Zenon, <3>4, <3>5
    <2> QED
      BY Zenon, <2>1
  <1>3. ASSUME b \notin wrote[o] PROVE Cardinality(Reserved') < Cardinality(Reserved)
    <2> DEFINE k == Cardinality(wrote[o]) + 1
    <2>1. k \in 1 .. MAXOPBLOCKS /\ k > Cardinality(wrote[o]) /\ ~(k > Cardinality(wrote'[o]))
      BY SMTT(60), <1>1, <1>3, ReserveAssumption
    <2>2. <<o, k>> \in Reserved
      BY Zenon, <1>1, <2>1, ReservedIs
    <2>3. <<o, k>> \notin Reserved'
      <3>1. \A r \in Reserved' : r[2] > Cardinality(wrote'[r[1]])
        BY Zenon DEF Reserved
      <3> QED
        BY SMTT(60), <2>1, <3>1
    <2>4. Reserved' \subseteq Reserved \ {<<o, k>>}
      BY Zenon, <1>2, <2>3
    <2> QED
      BY Zenon, <2>2, <2>4, GivenBack
  <1> QED
    BY Zenon, <1>2, <1>3, NotMore

(* What log_write() does to the log.                                       *)
LEMMA WriteLength ==
    ASSUME IInv, WroteInv, NEW o \in Ops, NEW b \in Blocks, NEW v \in Vals, LogWrite(o, b, v)
    PROVE  /\ Len(lh) \in Nat /\ Logged(lh) \subseteq Logged(lh') /\ b \in Logged(lh')
           /\ \/ lh' = lh
              \/ b \notin wrote[o] /\ Len(lh') = Len(lh) + 1
  <1>1. lh \in Seq(Blocks) /\ Len(lh) \in Nat
    BY Zenon, SeqFacts DEF IInv, TypeOK
  <1>2. CASE b \in Logged(lh) /\ lh' = lh
    BY Zenon, <1>1, <1>2
  <1>3. CASE b \notin Logged(lh) /\ lh' = Append(lh, b)
    <2>1. Logged(lh') = Logged(lh) \cup {b} /\ Len(lh') = Len(lh) + 1
      BY Zenon, <1>1, <1>3, AppendFacts, SeqFacts
    <2>2. b \notin wrote[o]
      BY Zenon, <1>3 DEF WroteInv
    <2> QED
      BY Zenon, <1>1, <2>1, <2>2
  <1> QED
    BY Zenon, <1>2, <1>3 DEF LogWrite, AddBlock

(* log_write() keeps to the space of its system call.                      *)
LEMMA WriteSpace ==
    ASSUME IInv, WroteInv, RoomInv, NEW o \in Ops, NEW b \in Blocks, NEW v \in Vals, LogWrite(o, b, v),
           OpBlocks <= MAXOPBLOCKS
    PROVE  WroteInv' /\ RoomInv' /\ (SlackInv => SlackInv')
  <1>1. /\ Active' = Active /\ o \in Active /\ outstanding' = outstanding
        /\ \A q \in Ops : wrote'[q] = IF q = o THEN wrote[o] \cup {b} ELSE wrote[q]
        /\ Cardinality(wrote[o]) \in Nat /\ Cardinality(wrote'[o]) \in Nat
        /\ Cardinality(wrote[o]) <= Cardinality(wrote'[o]) /\ Cardinality(wrote'[o]) <= OpBlocks
        /\ b \notin wrote[o] => Cardinality(wrote'[o]) = Cardinality(wrote[o]) + 1
    BY Zenon, WriteCount
  <1>2. /\ Cardinality(Reserved) \in Nat /\ Cardinality(Reserved') \in Nat
        /\ Cardinality(Reserved') <= Cardinality(Reserved)
        /\ b \notin wrote[o] => Cardinality(Reserved') < Cardinality(Reserved)
    BY Zenon, WriteReserved
  <1>3. /\ Len(lh) \in Nat /\ Logged(lh) \subseteq Logged(lh') /\ b \in Logged(lh')
        /\ \/ lh' = lh
           \/ b \notin wrote[o] /\ Len(lh') = Len(lh) + 1
    BY Zenon, WriteLength
  <1>4. \A q \in Ops : pc'[q] = pc[q]
    BY Zenon DEF LogWrite
  <1>5. WroteInv'
    <2> SUFFICES ASSUME NEW q \in Ops
                 PROVE  /\ wrote'[q] \subseteq Logged(lh') /\ Cardinality(wrote'[q]) <= OpBlocks
                        /\ pc'[q] # "op" => wrote'[q] = {}
      BY Zenon DEF WroteInv
    <2>1. wrote[q] \subseteq Logged(lh) /\ Cardinality(wrote[q]) <= OpBlocks /\ (pc[q] # "op" => wrote[q] = {})
      BY Zenon DEF WroteInv
    <2>2. CASE q = o
      <3>1. wrote'[q] = wrote[q] \cup {b} /\ pc[o] = "op"
        BY Zenon, <1>1, <2>2 DEF Active
      <3> QED
        BY Zenon, <1>1, <1>3, <1>4, <2>1, <2>2, <3>1
    <2>3. CASE q # o
      <3>1. wrote'[q] = wrote[q]
        BY Zenon, <1>1, <2>3
      <3> QED
        BY Zenon, <1>3, <1>4, <2>1, <3>1
    <2> QED
      BY Zenon, <2>2, <2>3
  <1>6. Len(lh') + Cardinality(Reserved') <= Len(lh) + Cardinality(Reserved) /\ Len(lh') \in Nat
    BY SMTT(60), <1>2, <1>3
  <1>7. RoomInv'
    BY SMTT(60), <1>2, <1>3, <1>6, ReserveAssumption DEF RoomInv
  <1>8. ASSUME SlackInv PROVE SlackInv'
    <2>0. outstanding \in Nat /\ TypeOK /\ CountInv
      BY Zenon DEF IInv, TypeOK
    <2>1. CASE outstanding' = 0 \/ outstanding' >= 2
      BY SMTT(60), <2>1 DEF SlackInv
    <2>2. CASE Len(lh) + Cardinality(Reserved) < LOGSIZE
      <3>1. Len(lh') + Cardinality(Reserved') < LOGSIZE
        BY SMTT(60), <1>2, <1>3, <1>6, <2>2, ReserveAssumption
      <3> QED
        BY Zenon, <3>1 DEF SlackInv
    <2>3. ASSUME outstanding < 2, NEW q \in Active, Len(lh) <= Cardinality(wrote[q]) PROVE SlackInv'
      <3>1. q = o
        BY Zenon, <1>1, <2>0, <2>3, OneActive
      <3>2. Len(lh) <= Cardinality(wrote[o])
        BY Zenon, <2>3, <3>1
      <3>3. Len(lh') <= Cardinality(wrote'[o])
        BY SMTT(60), <1>1, <1>3, <3>2
      <3> QED
        BY Zenon, <1>1, <3>3 DEF SlackInv
    <2>4. outstanding' = 0 \/ outstanding' >= 2 \/ (outstanding > 0 /\ outstanding < 2)
      BY SMTT(60), <1>1, <2>0
    <2>5. CASE outstanding > 0 /\ outstanding < 2
      <3>1. ~(outstanding >= 2)
        BY SMTT(60), <2>0, <2>5
      <3> QED
        BY Zenon, <1>8, <2>2, <2>3, <2>5, <3>1 DEF SlackInv
    <2> QED
      BY Zenon, <2>1, <2>4, <2>5
  <1> QED
    BY Zenon, <1>5, <1>7, <1>8

(* Every step keeps to the space that begin_op() reserved.                 *)
LEMMA SpaceNext ==
    ASSUME OpBlocks <= MAXOPBLOCKS PROVE IInv /\ IInv' /\ SpaceInv /\ [Next]_vars => SpaceInv'
  <1> SUFFICES ASSUME IInv, IInv', SpaceInv, [Next]_vars PROVE SpaceInv'
    OBVIOUS
  <1>1. WroteInv /\ RoomInv /\ (OpBlocks < MAXOPBLOCKS => SlackInv) /\ TypeOK' /\ CountInv'
    BY Zenon DEF SpaceInv, IInv
  <1>2. CASE Calm
    BY Zenon, <1>1, <1>2, CalmSpace DEF SpaceInv
  <1>3. CASE Emptied
    BY Zenon, <1>1, <1>3, EmptySpace DEF SpaceInv
  <1>4. ASSUME NEW o \in Ops, BeginOp(o) PROVE SpaceInv'
    BY Zenon, <1>1, <1>4, BeginSpace DEF SpaceInv
  <1>5. ASSUME NEW o \in Ops, EndOp(o) PROVE SpaceInv'
    BY Zenon, <1>1, <1>5, EndSpace DEF SpaceInv
  <1>6. ASSUME NEW o \in Ops, NEW b \in Blocks, NEW v \in Vals, LogWrite(o, b, v) PROVE SpaceInv'
    BY Zenon, <1>1, <1>6, WriteSpace DEF SpaceInv
  <1> QED
    BY Zenon, <1>1, <1>2, <1>3, <1>4, <1>5, <1>6, SpaceSteps

(* An empty log has all its space.                                         *)
LEMMA SpaceInit == Init => SpaceInv
  <1> SUFFICES ASSUME Init PROVE SpaceInv
    OBVIOUS
  <1>1. lh = <<>> /\ outstanding = 0 /\ (\A o \in Ops : wrote[o] = {} /\ pc[o] = "idle") /\ Cardinality({}) = 0
    BY SMTT(60), ThreadFacts, FS_EmptySet DEF Init
  <1>2. Active = {}
    BY SMTT(60), <1>1 DEF Active
  <1>3. Reserved = {}
    BY SMTT(60), <1>2 DEF Reserved
  <1>4. WroteInv
    <2>1. 0 <= OpBlocks
      BY SMTT(60), ReserveAssumption
    <2> QED
      BY Zenon, <1>1, <2>1 DEF WroteInv
  <1>5. RoomInv
    BY SMTT(60), <1>1, <1>3, ReserveAssumption DEF RoomInv
  <1>6. SlackInv
    BY SMTT(60), <1>1 DEF SlackInv
  <1> QED
    BY Zenon, <1>4, <1>5, <1>6 DEF SpaceInv

(* For any number of system calls and any log: the blocks in the log and   *)
(* those that the running system calls may still write never exceed the    *)
(* header's array, if no system call writes more than begin_op() reserves. *)
THEOREM SpaceAlways == OpBlocks <= MAXOPBLOCKS => (Spec => []SpaceInv)
  <1> SUFFICES ASSUME OpBlocks <= MAXOPBLOCKS PROVE Spec => []SpaceInv
    OBVIOUS
  <1>1. IInv /\ IInv' /\ SpaceInv /\ [Next]_vars => SpaceInv'
    BY SpaceNext
  <1> QED
    BY Inductive, SpaceInit, <1>1, PTL DEF Spec

(* For any number of system calls: log_write() does not panic when each    *)
(* writes fewer blocks than begin_op() reserves for it, even though the    *)
(* log region holds one block less than the header has entries.            *)
THEOREM LogFitsAlways ==
    OpBlocks < MAXOPBLOCKS /\ MAXOPBLOCKS < LOGSIZE /\ LOGSIZE <= Size => (Spec => []LogFits)
  <1> SUFFICES ASSUME OpBlocks < MAXOPBLOCKS, MAXOPBLOCKS < LOGSIZE, LOGSIZE <= Size
               PROVE  Spec => []LogFits
    OBVIOUS
  <1>1. IInv /\ SpaceInv => LogFits
    <2> SUFFICES ASSUME IInv, SpaceInv, outstanding > 0 PROVE ~LogFull
      BY Zenon DEF LogFits
    <2>1. TypeOK /\ CountInv /\ WroteInv /\ RoomInv /\ SlackInv
      BY Zenon DEF IInv, SpaceInv
    <2>2. outstanding <= Cardinality(Reserved) /\ Cardinality(Reserved) \in Nat
      BY Zenon, <2>1, ReservedLow, ReservedBound
    <2>3. outstanding \in Nat /\ Len(lh) \in Nat
      BY Zenon, <2>1, SeqFacts DEF TypeOK
    <2>4. Len(lh) + Cardinality(Reserved) <= LOGSIZE
      BY Zenon, <2>1 DEF RoomInv
    <2>5. CASE Len(lh) + Cardinality(Reserved) < LOGSIZE \/ outstanding >= 2
      BY SMTT(60), <2>2, <2>3, <2>4, <2>5, ReserveAssumption DEF LogFull
    <2>6. ASSUME NEW o \in Active, Len(lh) <= Cardinality(wrote[o]) PROVE ~LogFull
      <3>1. o \in Ops
        BY Zenon DEF Active
      <3>2. Cardinality(wrote[o]) \in Nat /\ Cardinality(wrote[o]) <= OpBlocks
        BY Zenon, <2>1, <3>1, WroteFinite DEF WroteInv
      <3> QED
        BY SMTT(60), <2>3, <2>6, <3>2, ReserveAssumption DEF LogFull
    <2> QED
      BY Zenon, <2>1, <2>5, <2>6 DEF SlackInv
  <1>2. OpBlocks <= MAXOPBLOCKS
    BY SMTT(60), ReserveAssumption
  <1>3. Spec => []SpaceInv
    BY Zenon, <1>2, SpaceAlways
  <1> QED
    BY Inductive, <1>1, <1>3, PTL

(* For the log that mkfs makes, Size = LOGSIZE, and system calls that may  *)
(* write all that begin_op() reserves: log_write() panics at the last of   *)
(* all reserved blocks at the earliest, for any number of calls.           *)
THEOREM AllButOneAlways ==
    OpBlocks <= MAXOPBLOCKS /\ LOGSIZE <= Size => (Spec => []AllButOneFits)
  <1> SUFFICES ASSUME OpBlocks <= MAXOPBLOCKS, LOGSIZE <= Size PROVE Spec => []AllButOneFits
    OBVIOUS
  <1>1. IInv /\ SpaceInv => AllButOneFits
    <2> SUFFICES ASSUME IInv, SpaceInv, LogFull PROVE Cardinality(Reserved) <= 1
      BY Zenon DEF AllButOneFits
    <2>1. TypeOK /\ CountInv /\ RoomInv
      BY Zenon DEF IInv, SpaceInv
    <2>2. Cardinality(Reserved) \in Nat /\ Len(lh) \in Nat
      BY Zenon, <2>1, ReservedBound, SeqFacts DEF TypeOK
    <2>3. Len(lh) + Cardinality(Reserved) <= LOGSIZE
      BY Zenon, <2>1 DEF RoomInv
    <2> QED
      BY SMTT(60), <2>2, <2>3, ReserveAssumption DEF LogFull
  <1>2. Spec => []SpaceInv
    BY Zenon, SpaceAlways
  <1> QED
    BY Inductive, <1>1, <1>2, PTL

=============================================================================
