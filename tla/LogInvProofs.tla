---------------------------- MODULE LogInvProofs ----------------------------
(***************************************************************************)
(* The invariant IInv of LogInv is inductive, for any blocks, values, system *)
(* calls and sizes of the log.                                             *)
(***************************************************************************)
EXTENDS LogThreadProofs

(* The indexes after k in a list of length n are indexes other than k, as  *)
(* install_trans() meets them after block k.                               *)
LEMMA IndexOrder ==
  \A n : \A k \in 1 .. n : \A i \in k + 1 .. n : i \in 1 .. n /\ i # k /\ i \in k .. n
BY SMT

(* A system call in progress keeps commits away.                           *)
LEMMA ActiveAlone ==
    ASSUME TypeOK, CountInv, ThreadInv, NEW o \in Ops, pc[o] = "op"
    PROVE  /\ outstanding # 0 /\ ~committing /\ pc[Boot] = "up"
           /\ \A q \in Ops : pc[q] \notin CommitPcs
  <1>1. outstanding # 0
    BY ActiveCount DEF Active
  <1> QED
    BY <1>1 DEF ThreadInv, CommitPcs

(* install_trans() moves the boundary between installed blocks and others. *)
LEMMA InstallKeeps ==
    ASSUME TypeOK, Distinct(lh), NEW t \in Threads, tail[t] + 1 <= Len(lh), Installed(tail[t]),
           home' = [home EXCEPT ![lh[tail[t] + 1]] = logblk[tail[t] + 1]],
           logblk' = logblk, lh' = lh
    PROVE  \A i \in 1 .. tail[t] + 1 : home'[lh'[i]] = logblk'[i]
  <1> DEFINE k == tail[t]
  <1>0. k \in Nat /\ Len(lh) \in Nat /\ k + 1 \in 1 .. Len(lh)
    BY SMTT(60), SeqFacts DEF TypeOK
  <1>1. TAKE i \in 1 .. k + 1
  <1>2. i \in 1 .. Len(lh) /\ lh[i] \in Blocks /\ lh[k + 1] \in Blocks
    BY SMTT(60), <1>0, <1>1, SeqFacts DEF TypeOK
  <1>3. CASE i = k + 1
    BY <1>2, <1>3 DEF TypeOK
  <1>4. CASE i # k + 1
    <2>1. i \in 1 .. k /\ lh[i] # lh[k + 1]
      BY <1>0, <1>2, <1>4 DEF Distinct
    <2> QED
      BY SMTT(60), <1>2, <2>1 DEF TypeOK, Installed
  <1> QED
    BY <1>3, <1>4

(* A block that is new in the log.                                         *)
LEMMA AppendFacts ==
    ASSUME NEW s \in Seq(Blocks), NEW b \in Blocks, b \notin Logged(s)
    PROVE  /\ Logged(Append(s, b)) = Logged(s) \cup {b}
           /\ Distinct(s) => Distinct(Append(s, b))
  <1> DEFINE a == Append(s, b)
             n == Len(s)
  <1>1. /\ n \in Nat /\ Len(a) = n + 1 /\ a[n + 1] = b
        /\ \A i \in 1 .. n : a[i] = s[i] /\ s[i] # b
    BY DEF Logged
  <1>2. 1 .. Len(a) = (1 .. n) \cup {n + 1} /\ n + 1 \notin 1 .. n
    BY <1>1
  <1> HIDE DEF a, n
  <1>3. Logged(a) = Logged(s) \cup {b}
    BY <1>1, <1>2 DEF Logged, n
  <1>4. Distinct(s) => Distinct(a)
    BY <1>1, <1>2 DEF Distinct, n
  <1> QED
    BY <1>3, <1>4 DEF a

(* Nothing changes in the cache when a committed block is installed.       *)
LEMMA InstallCache ==
    ASSUME TypeOK, PhaseInv, NEW o \in Ops, Install(o)
    PROVE  cache' = cache
  <1>1. tail[o] + 1 \in 1 .. Len(lh) /\ lh[tail[o] + 1] \in Blocks
    BY SMTT(60), ThreadFacts, SeqFacts DEF TypeOK, Install, InstallBlock
  <1>2. logblk[tail[o] + 1] = cache[lh[tail[o] + 1]]
    BY <1>1 DEF PhaseInv, Install, Committed, Copied
  <1> QED
    BY <1>1, <1>2 DEF TypeOK, Install, InstallBlock

(* A buffer that may be recycled has the contents of the disk.             *)
LEMMA EvictCache == ASSUME TypeOK, CacheInv, NEW b \in Blocks, Evict(b) PROVE cache' = cache
  BY DEF TypeOK, CacheInv, Evict

(* Every step keeps what holds during recovery.                            *)
LEMMA RecoverNext == IInv /\ [Next]_vars => RecoverInv'
  <1> SUFFICES ASSUME IInv, [Next]_vars PROVE RecoverInv'
    OBVIOUS
  <1> USE DEF Goto, diskVars, logVars, bufVars
  <1> DEFINE Kept == RecoverInv'
  <1> HIDE DEF Kept
  <1>1. ASSUME UNCHANGED vars PROVE Kept
    <2>z. RecoverInv'
      BY SMTT(60), <1>1 DEF vars, IInv, RecoverInv, Installed
    <2> QED
      BY Zenon, <2>z DEF Kept
  <1>2. ASSUME ReadHead PROVE Kept
    <2>1. tail'[Boot] = 0
      BY Zenon, <1>2, ThreadFacts DEF ReadHead, IInv, RecoverInv, ThreadInv, CommitPcs
    <2>2. 1 .. tail'[Boot] = {}
      BY SMTT(60), <2>1
    <2>z. RecoverInv'
      BY SMTT(60), <1>2, <2>2 DEF ReadHead, IInv, RecoverInv, Installed
    <2> QED
      BY Zenon, <2>z DEF Kept
  <1>3. ASSUME Recover PROVE Kept
    <2>1. \A i \in 1 .. tail[Boot] + 1 : home'[lh'[i]] = logblk'[i]
      BY Zenon, <1>3, InstallKeeps, ThreadFacts DEF Recover, InstallBlock, HeaderInv, IInv,
        RecoverInv
    <2>2. tail'[Boot] = tail[Boot] + 1
      BY SMTT(60), <1>3, ThreadFacts DEF Recover, InstallBlock, IInv, RecoverInv, TypeOK
    <2>3. cache' = home'
      BY SMTT(60), <1>3 DEF Recover, InstallBlock, IInv, RecoverInv
    <2>z. RecoverInv'
      BY SMTT(60), <1>3, <2>1, <2>2, <2>3 DEF Recover, InstallBlock, IInv, RecoverInv, Installed
    <2> QED
      BY Zenon, <2>z DEF Kept
  <1>4. ASSUME RecoverDone PROVE Kept
    <2>z. RecoverInv'
      BY SMTT(60), <1>4 DEF RecoverDone, IInv, RecoverInv, Installed
    <2> QED
      BY Zenon, <2>z DEF Kept
  <1>5. ASSUME RecoverClear PROVE Kept
    <2>z. RecoverInv'
      BY SMTT(60), <1>5 DEF RecoverClear, ClearHead, IInv, RecoverInv, Installed
    <2> QED
      BY Zenon, <2>z DEF Kept
  <1>6. ASSUME NEW o \in Ops, Call(o) PROVE Kept
    <2>z. RecoverInv'
      BY SMTT(60), <1>6 DEF Call, RecoverInv
    <2> QED
      BY Zenon, <2>z DEF Kept
  <1>7. ASSUME NEW o \in Ops, BeginSleep(o) PROVE Kept
    <2>z. RecoverInv'
      BY SMTT(60), <1>7 DEF BeginSleep, IInv, RecoverInv, Installed
    <2> QED
      BY Zenon, <2>z DEF Kept
  <1>8. ASSUME NEW o \in Ops, BeginOp(o) PROVE Kept
    <2>z. RecoverInv'
      BY SMTT(60), <1>8 DEF BeginOp, IInv, RecoverInv, Installed
    <2> QED
      BY Zenon, <2>z DEF Kept
  <1>9. ASSUME NEW o \in Ops, KillWake(o) PROVE Kept
    <2>z. RecoverInv'
      BY SMTT(60), <1>9 DEF KillWake, IInv, RecoverInv, Installed
    <2> QED
      BY Zenon, <2>z DEF Kept
  <1>10. ASSUME NEW o \in Ops, NEW b \in Blocks, NEW v \in Vals, LogWrite(o, b, v)
         PROVE  Kept
    <2>z. RecoverInv'
      BY SMTT(60), <1>10, ThreadFacts DEF LogWrite, AddBlock, IInv, RecoverInv, ThreadInv,
        CommitPcs
    <2> QED
      BY Zenon, <2>z DEF Kept
  <1>11. ASSUME NEW o \in Ops, EndOp(o) PROVE Kept
    <2>z. RecoverInv'
      BY SMTT(60), <1>11, ThreadFacts DEF EndOp, Wakeup, IInv, RecoverInv, Installed
    <2> QED
      BY Zenon, <2>z DEF Kept
  <1>12. ASSUME NEW o \in Ops, LastEndOp(o) PROVE Kept
    <2>z. RecoverInv'
      BY SMTT(60), <1>12 DEF LastEndOp, IInv, RecoverInv, Installed
    <2> QED
      BY Zenon, <2>z DEF Kept
  <1>13. ASSUME NEW o \in Ops, WriteLog(o) PROVE Kept
    <2>z. RecoverInv'
      BY SMTT(60), <1>13 DEF WriteLog, IInv, RecoverInv, Installed
    <2> QED
      BY Zenon, <2>z DEF Kept
  <1>14. ASSUME NEW o \in Ops, WriteLogDone(o) PROVE Kept
    <2>z. RecoverInv'
      BY SMTT(60), <1>14 DEF WriteLogDone, IInv, RecoverInv, Installed
    <2> QED
      BY Zenon, <2>z DEF Kept
  <1>15. ASSUME NEW o \in Ops, WriteHead(o) PROVE Kept
    <2>z. RecoverInv'
      BY SMTT(60), <1>15 DEF WriteHead, IInv, RecoverInv, Installed
    <2> QED
      BY Zenon, <2>z DEF Kept
  <1>16. ASSUME NEW o \in Ops, Install(o) PROVE Kept
    <2>z. RecoverInv'
      BY SMTT(60), <1>16, ThreadFacts DEF Install, InstallBlock, IInv, RecoverInv, ThreadInv,
        CommitPcs
    <2> QED
      BY Zenon, <2>z DEF Kept
  <1>17. ASSUME NEW o \in Ops, InstallDone(o) PROVE Kept
    <2>z. RecoverInv'
      BY SMTT(60), <1>17 DEF InstallDone, IInv, RecoverInv, Installed
    <2> QED
      BY Zenon, <2>z DEF Kept
  <1>18. ASSUME NEW o \in Ops, CommitClear(o) PROVE Kept
    <2>z. RecoverInv'
      BY SMTT(60), <1>18, ThreadFacts DEF CommitClear, ClearHead, IInv, RecoverInv, ThreadInv,
        CommitPcs
    <2> QED
      BY Zenon, <2>z DEF Kept
  <1>19. ASSUME NEW o \in Ops, EndCommit(o) PROVE Kept
    <2>z. RecoverInv'
      BY SMTT(60), <1>19, ThreadFacts DEF EndCommit, Wakeup, IInv, RecoverInv, Installed
    <2> QED
      BY Zenon, <2>z DEF Kept
  <1>20. ASSUME NEW b \in Blocks, Evict(b) PROVE Kept
    <2>z. RecoverInv'
      BY SMTT(60), <1>20, ThreadFacts DEF Evict, IInv, RecoverInv, TypeOK, Installed
    <2> QED
      BY Zenon, <2>z DEF Kept
  <1>21. ASSUME Crash PROVE Kept
    <2>z. RecoverInv'
      BY SMTT(60), <1>21, ThreadFacts DEF Crash, RecoverInv
    <2> QED
      BY Zenon, <2>z DEF Kept
  <1> QED
    BY ZenonT(60), <1>1, <1>2, <1>3, <1>4, <1>5, <1>6, <1>7, <1>8, <1>9, <1>10, <1>11, <1>12,
      <1>13, <1>14, <1>15, <1>16, <1>17, <1>18, <1>19, <1>20, <1>21 DEF Kept, Next, BootStep, OpStep,
      BeginStep, EndStep, CommitStep

(* Every step keeps the agreement between the log and its header.          *)
LEMMA HeaderNext == IInv /\ [Next]_vars => HeaderInv'
  <1> SUFFICES ASSUME IInv, [Next]_vars PROVE HeaderInv'
    OBVIOUS
  <1> USE DEF Goto, diskVars, logVars, bufVars
  <1> DEFINE Kept == HeaderInv'
  <1> HIDE DEF Kept
  <1>1. ASSUME UNCHANGED vars PROVE Kept
    <2>z. HeaderInv'
      BY SMTT(60), <1>1 DEF vars, IInv, HeaderInv, InCommit, Committed
    <2> QED
      BY Zenon, <2>z DEF Kept
  <1>2. ASSUME ReadHead PROVE Kept
    <2>z. HeaderInv'
      BY SMTT(60), <1>2, ThreadFacts DEF ReadHead, IInv, HeaderInv, ThreadInv, CommitPcs
    <2> QED
      BY Zenon, <2>z DEF Kept
  <1>3. ASSUME Recover PROVE Kept
    <2>z. HeaderInv'
      BY SMTT(60), <1>3 DEF Recover, InstallBlock, IInv, HeaderInv, InCommit, Committed
    <2> QED
      BY Zenon, <2>z DEF Kept
  <1>4. ASSUME RecoverDone PROVE Kept
    <2>z. HeaderInv'
      BY SMTT(60), <1>4 DEF RecoverDone, IInv, HeaderInv, InCommit, Committed
    <2> QED
      BY Zenon, <2>z DEF Kept
  <1>5. ASSUME RecoverClear PROVE Kept
    <2>z. HeaderInv'
      BY SMTT(60), <1>5 DEF RecoverClear, ClearHead, Distinct, HeaderInv
    <2> QED
      BY Zenon, <2>z DEF Kept
  <1>6. ASSUME NEW o \in Ops, Call(o) PROVE Kept
    <2>z. HeaderInv'
      BY SMTT(60), <1>6 DEF Call, IInv, HeaderInv, InCommit, Committed
    <2> QED
      BY Zenon, <2>z DEF Kept
  <1>7. ASSUME NEW o \in Ops, BeginSleep(o) PROVE Kept
    <2>z. HeaderInv'
      BY SMTT(60), <1>7 DEF BeginSleep, IInv, HeaderInv, InCommit, Committed
    <2> QED
      BY Zenon, <2>z DEF Kept
  <1>8. ASSUME NEW o \in Ops, BeginOp(o) PROVE Kept
    <2>z. HeaderInv'
      BY SMTT(60), <1>8, ThreadFacts DEF BeginOp, IInv, HeaderInv, TypeOK, InCommit, Committed
    <2> QED
      BY Zenon, <2>z DEF Kept
  <1>9. ASSUME NEW o \in Ops, KillWake(o) PROVE Kept
    <2>z. HeaderInv'
      BY SMTT(60), <1>9 DEF KillWake, IInv, HeaderInv, InCommit, Committed
    <2> QED
      BY Zenon, <2>z DEF Kept
  <1>10. ASSUME NEW o \in Ops, NEW b \in Blocks, NEW v \in Vals, LogWrite(o, b, v)
         PROVE  Kept
    <2>1. outstanding # 0 /\ \A q \in Ops : pc[q] \notin CommitPcs
      BY SMTT(60), <1>10, ActiveAlone DEF LogWrite, IInv, HeaderInv
    <2>2. Distinct(lh')
      <3>1. CASE UNCHANGED lh
        BY SMTT(60), <3>1 DEF IInv, HeaderInv
      <3>2. CASE b \notin Logged(lh) /\ lh' = Append(lh, b)
        BY SMTT(60), <3>2, AppendFacts, ThreadFacts DEF IInv, HeaderInv, TypeOK
      <3> QED
        BY SMTT(60), <1>10, <3>1, <3>2 DEF LogWrite, AddBlock
    <2>3. UNCHANGED <<hdr, pc, outstanding>>
      BY SMTT(60), <1>10 DEF LogWrite
    <2>z. HeaderInv'
      BY SMTT(60), <2>1, <2>2, <2>3, ThreadFacts DEF Distinct, IInv, HeaderInv, ThreadInv,
        CommitPcs, InCommit, Committed
    <2> QED
      BY Zenon, <2>z DEF Kept
  <1>11. ASSUME NEW o \in Ops, EndOp(o) PROVE Kept
    <2>z. HeaderInv'
      BY SMTT(60), <1>11, ThreadFacts DEF EndOp, Wakeup, IInv, HeaderInv, InCommit, Committed
    <2> QED
      BY Zenon, <2>z DEF Kept
  <1>12. ASSUME NEW o \in Ops, LastEndOp(o) PROVE Kept
    <2>1. \A q \in Ops : pc[q] \notin CommitPcs
      BY SMTT(60), <1>12, ActiveAlone DEF LastEndOp, IInv, HeaderInv
    <2>2. \A q \in Ops : pc'[q] \in CommitPcs =>
             q = o /\ pc'[q] = (IF lh = <<>> THEN "end_commit" ELSE "write_log")
      BY SMTT(60), <1>12, <2>1 DEF LastEndOp
    <2>3. pc'[o] = IF lh = <<>> THEN "end_commit" ELSE "write_log"
      BY SMTT(60), <1>12, ThreadFacts DEF LastEndOp, IInv, HeaderInv, TypeOK
    <2>4. hdr = <<>> /\ UNCHANGED <<hdr, lh>>
      BY SMTT(60), <1>12, <2>1, ActiveAlone, ThreadFacts DEF LastEndOp, IInv, HeaderInv,
        ThreadInv, CommitPcs, InCommit, Committed
    <2>z. HeaderInv'
      BY SMTT(60), <2>2, <2>3, <2>4, ThreadFacts DEF Distinct, IInv, HeaderInv, ThreadInv,
        CommitPcs, InCommit, Committed
    <2> QED
      BY Zenon, <2>z DEF Kept
  <1>13. ASSUME NEW o \in Ops, WriteLog(o) PROVE Kept
    <2>z. HeaderInv'
      BY SMTT(60), <1>13 DEF WriteLog, IInv, HeaderInv, InCommit, Committed
    <2> QED
      BY Zenon, <2>z DEF Kept
  <1>14. ASSUME NEW o \in Ops, WriteLogDone(o) PROVE Kept
    <2>z. HeaderInv'
      BY SMTT(60), <1>14 DEF WriteLogDone, IInv, HeaderInv, InCommit, Committed
    <2> QED
      BY Zenon, <2>z DEF Kept
  <1>15. ASSUME NEW o \in Ops, WriteHead(o) PROVE Kept
    <2>z. HeaderInv'
      BY SMTT(60), <1>15, ThreadFacts DEF WriteHead, IInv, HeaderInv, TypeOK, InCommit, Committed
    <2> QED
      BY Zenon, <2>z DEF Kept
  <1>16. ASSUME NEW o \in Ops, Install(o) PROVE Kept
    <2>z. HeaderInv'
      BY SMTT(60), <1>16 DEF Install, InstallBlock, IInv, HeaderInv, InCommit, Committed
    <2> QED
      BY Zenon, <2>z DEF Kept
  <1>17. ASSUME NEW o \in Ops, InstallDone(o) PROVE Kept
    <2>z. HeaderInv'
      BY SMTT(60), <1>17 DEF InstallDone, IInv, HeaderInv, InCommit, Committed
    <2> QED
      BY Zenon, <2>z DEF Kept
  <1>18. ASSUME NEW o \in Ops, CommitClear(o) PROVE Kept
    <2>z. HeaderInv'
      BY SMTT(60), <1>18 DEF CommitClear, ClearHead, Distinct, HeaderInv
    <2> QED
      BY Zenon, <2>z DEF Kept
  <1>19. ASSUME NEW o \in Ops, EndCommit(o) PROVE Kept
    <2>z. HeaderInv'
      BY SMTT(60), <1>19, ThreadFacts DEF EndCommit, Wakeup, IInv, HeaderInv, InCommit, Committed
    <2> QED
      BY Zenon, <2>z DEF Kept
  <1>20. ASSUME NEW b \in Blocks, Evict(b) PROVE Kept
    <2>z. HeaderInv'
      BY SMTT(60), <1>20 DEF Evict, IInv, HeaderInv, InCommit, Committed
    <2> QED
      BY Zenon, <2>z DEF Kept
  <1>21. ASSUME Crash PROVE Kept
    <2>z. HeaderInv'
      BY SMTT(60), <1>21, ThreadFacts DEF Crash, Distinct, IInv, HeaderInv, InCommit, Committed
    <2> QED
      BY Zenon, <2>z DEF Kept
  <1> QED
    BY ZenonT(60), <1>1, <1>2, <1>3, <1>4, <1>5, <1>6, <1>7, <1>8, <1>9, <1>10, <1>11, <1>12,
      <1>13, <1>14, <1>15, <1>16, <1>17, <1>18, <1>19, <1>20, <1>21 DEF Kept, Next, BootStep, OpStep,
      BeginStep, EndStep, CommitStep

(* Every step keeps what a commit has copied or installed so far.          *)
LEMMA PhaseNext == IInv /\ [Next]_vars => PhaseInv'
  <1> SUFFICES ASSUME IInv, [Next]_vars PROVE PhaseInv'
    OBVIOUS
  <1> USE DEF Goto, diskVars, logVars, bufVars
  <1> DEFINE Kept == PhaseInv'
  <1> HIDE DEF Kept
  <1>1. ASSUME UNCHANGED vars PROVE Kept
    <2>z. PhaseInv'
      BY SMTT(60), <1>1 DEF vars, IInv, PhaseInv, Committed, Copied, Installed
    <2> QED
      BY Zenon, <2>z DEF Kept
  <1>2. ASSUME ReadHead PROVE Kept
    <2>z. PhaseInv'
      BY SMTT(60), <1>2, ThreadFacts DEF ReadHead, IInv, PhaseInv, ThreadInv, CommitPcs, Committed,
        Copied, Installed
    <2> QED
      BY Zenon, <2>z DEF Kept
  <1>3. ASSUME Recover PROVE Kept
    <2>z. PhaseInv'
      BY SMTT(60), <1>3, ThreadFacts DEF Recover, InstallBlock, IInv, PhaseInv, ThreadInv,
        CommitPcs, Committed, Copied, Installed
    <2> QED
      BY Zenon, <2>z DEF Kept
  <1>4. ASSUME RecoverDone PROVE Kept
    <2>z. PhaseInv'
      BY SMTT(60), <1>4 DEF RecoverDone, IInv, PhaseInv, Committed, Copied, Installed
    <2> QED
      BY Zenon, <2>z DEF Kept
  <1>5. ASSUME RecoverClear PROVE Kept
    <2>z. PhaseInv'
      BY SMTT(60), <1>5, ThreadFacts DEF RecoverClear, ClearHead, IInv, PhaseInv, ThreadInv,
        CommitPcs, Committed, Copied, Installed
    <2> QED
      BY Zenon, <2>z DEF Kept
  <1>6. ASSUME NEW o \in Ops, Call(o) PROVE Kept
    <2>z. PhaseInv'
      BY SMTT(60), <1>6 DEF Call, IInv, PhaseInv, Committed, Copied, Installed
    <2> QED
      BY Zenon, <2>z DEF Kept
  <1>7. ASSUME NEW o \in Ops, BeginSleep(o) PROVE Kept
    <2>z. PhaseInv'
      BY SMTT(60), <1>7 DEF BeginSleep, IInv, PhaseInv, Committed, Copied, Installed
    <2> QED
      BY Zenon, <2>z DEF Kept
  <1>8. ASSUME NEW o \in Ops, BeginOp(o) PROVE Kept
    <2>z. PhaseInv'
      BY SMTT(60), <1>8 DEF BeginOp, IInv, PhaseInv, Committed, Copied, Installed
    <2> QED
      BY Zenon, <2>z DEF Kept
  <1>9. ASSUME NEW o \in Ops, KillWake(o) PROVE Kept
    <2>z. PhaseInv'
      BY SMTT(60), <1>9 DEF KillWake, IInv, PhaseInv, Committed, Copied, Installed
    <2> QED
      BY Zenon, <2>z DEF Kept
  <1>10. ASSUME NEW o \in Ops, NEW b \in Blocks, NEW v \in Vals, LogWrite(o, b, v)
         PROVE  Kept
    <2>1. \A q \in Ops : pc[q] \notin CommitPcs
      BY SMTT(60), <1>10, ActiveAlone DEF LogWrite, IInv, PhaseInv
    <2>z. PhaseInv'
      BY SMTT(60), <1>10, <2>1, ThreadFacts DEF LogWrite, IInv, PhaseInv, ThreadInv, CommitPcs,
        Committed, Copied, Installed
    <2> QED
      BY Zenon, <2>z DEF Kept
  <1>11. ASSUME NEW o \in Ops, EndOp(o) PROVE Kept
    <2>z. PhaseInv'
      BY SMTT(60), <1>11, ThreadFacts DEF EndOp, Wakeup, IInv, PhaseInv, Committed, Copied,
        Installed
    <2> QED
      BY Zenon, <2>z DEF Kept
  <1>12. ASSUME NEW o \in Ops, LastEndOp(o) PROVE Kept
    <2>1. \A q \in Ops : pc[q] \notin CommitPcs
      BY SMTT(60), <1>12, ActiveAlone DEF LastEndOp, IInv, PhaseInv
    <2>2. tail'[o] = 0 /\ 1 .. 0 = {}
      BY SMTT(60), <1>12, ThreadFacts DEF LastEndOp, IInv, PhaseInv, ThreadInv, CommitPcs
    <2>z. PhaseInv'
      BY SMTT(60), <1>12, <2>1, <2>2 DEF LastEndOp, IInv, PhaseInv, Committed, Copied, Installed
    <2> QED
      BY Zenon, <2>z DEF Kept
  <1>13. ASSUME NEW o \in Ops, WriteLog(o) PROVE Kept
    <2>1. \A q \in Ops : q # o => pc[q] \notin CommitPcs
      BY SMTT(60), <1>13, ThreadFacts DEF WriteLog, IInv, PhaseInv, ThreadInv, CommitPcs
    <2>2. UNCHANGED <<lh, cache, pc>> /\ pc[o] = "write_log" /\ tail'[o] = tail[o] + 1
      BY SMTT(60), <1>13, ThreadFacts DEF WriteLog, IInv, PhaseInv, TypeOK
    <2>3. \A i \in 1 .. tail[o] + 1 : logblk'[i] = cache[lh[i]]
      <3>1. tail[o] \in Nat /\ tail[o] + 1 \in LogIndexes
        BY SMTT(60), <1>13, SeqFacts, ThreadFacts DEF WriteLog, IInv, PhaseInv, TypeOK
      <3>2. \A i \in 1 .. tail[o] + 1 : i \in 1 .. tail[o] \/ i = tail[o] + 1
        BY SMTT(60), <3>1
      <3>3. logblk'[tail[o] + 1] = cache[lh[tail[o] + 1]]
        BY SMTT(60), <1>13, <3>1, ThreadFacts DEF WriteLog, IInv, PhaseInv, TypeOK
      <3>4. \A i \in 1 .. tail[o] : logblk'[i] = cache[lh[i]]
        BY SMTT(60), <1>13, <3>1 DEF WriteLog, LogIndexes, IInv, PhaseInv, Committed, Copied,
          Installed
      <3> QED
        BY SMTT(60), <3>2, <3>3, <3>4
    <2>z. PhaseInv'
      BY SMTT(60), <2>1, <2>2, <2>3, ThreadFacts DEF IInv, PhaseInv, ThreadInv, CommitPcs,
        Committed, Copied, Installed
    <2> QED
      BY Zenon, <2>z DEF Kept
  <1>14. ASSUME NEW o \in Ops, WriteLogDone(o) PROVE Kept
    <2>z. PhaseInv'
      BY SMTT(60), <1>14 DEF WriteLogDone, IInv, PhaseInv, Committed, Copied, Installed
    <2> QED
      BY Zenon, <2>z DEF Kept
  <1>15. ASSUME NEW o \in Ops, WriteHead(o) PROVE Kept
    <2>1. tail[o] = 0
      BY Zenon, <1>15, ThreadFacts DEF WriteHead, IInv, PhaseInv, ThreadInv, CommitPcs
    <2>2. 1 .. 0 = {}
      BY SMTT(60)
    <2>z. PhaseInv'
      BY SMTT(60), <1>15, <2>1, <2>2 DEF WriteHead, IInv, PhaseInv, Committed, Copied, Installed
    <2> QED
      BY Zenon, <2>z DEF Kept
  <1>16. ASSUME NEW o \in Ops, Install(o) PROVE Kept
    <2>1. \A q \in Ops : q # o => pc[q] \notin CommitPcs
      BY SMTT(60), <1>16, ThreadFacts DEF Install, IInv, PhaseInv, ThreadInv, CommitPcs
    <2>2. UNCHANGED <<lh, logblk, pc>> /\ pc[o] = "install" /\ tail'[o] = tail[o] + 1
      BY SMTT(60), <1>16, ThreadFacts DEF Install, InstallBlock, IInv, PhaseInv, TypeOK
    <2>3. cache' = cache
      BY SMTT(60), <1>16, InstallCache DEF IInv, PhaseInv
    <2>4. \A i \in 1 .. tail[o] + 1 : home'[lh'[i]] = logblk'[i]
      BY Zenon, <1>16, InstallKeeps, ThreadFacts DEF Install, InstallBlock, HeaderInv, IInv,
        PhaseInv
    <2>z. PhaseInv'
      BY SMTT(60), <2>1, <2>2, <2>3, <2>4, ThreadFacts DEF IInv, PhaseInv, ThreadInv, CommitPcs,
        Committed, Copied, Installed
    <2> QED
      BY Zenon, <2>z DEF Kept
  <1>17. ASSUME NEW o \in Ops, InstallDone(o) PROVE Kept
    <2>z. PhaseInv'
      BY SMTT(60), <1>17 DEF InstallDone, IInv, PhaseInv, Committed, Copied, Installed
    <2> QED
      BY Zenon, <2>z DEF Kept
  <1>18. ASSUME NEW o \in Ops, CommitClear(o) PROVE Kept
    <2>z. PhaseInv'
      BY SMTT(60), <1>18, ThreadFacts DEF CommitClear, ClearHead, IInv, PhaseInv, ThreadInv,
        CommitPcs, Committed, Copied, Installed
    <2> QED
      BY Zenon, <2>z DEF Kept
  <1>19. ASSUME NEW o \in Ops, EndCommit(o) PROVE Kept
    <2>z. PhaseInv'
      BY SMTT(60), <1>19, ThreadFacts DEF EndCommit, Wakeup, IInv, PhaseInv, Committed, Copied,
        Installed
    <2> QED
      BY Zenon, <2>z DEF Kept
  <1>20. ASSUME NEW b \in Blocks, Evict(b) PROVE Kept
    <2>1. cache' = cache
      BY SMTT(60), <1>20, EvictCache DEF IInv, PhaseInv
    <2>z. PhaseInv'
      BY SMTT(60), <1>20, <2>1 DEF Evict, IInv, PhaseInv, Committed, Copied, Installed
    <2> QED
      BY Zenon, <2>z DEF Kept
  <1>21. ASSUME Crash PROVE Kept
    <2>z. PhaseInv'
      BY SMTT(60), <1>21, ThreadFacts DEF Crash, PhaseInv, Committed, Copied, Installed
    <2> QED
      BY Zenon, <2>z DEF Kept
  <1> QED
    BY ZenonT(60), <1>1, <1>2, <1>3, <1>4, <1>5, <1>6, <1>7, <1>8, <1>9, <1>10, <1>11, <1>12,
      <1>13, <1>14, <1>15, <1>16, <1>17, <1>18, <1>19, <1>20, <1>21 DEF Kept, Next, BootStep, OpStep,
      BeginStep, EndStep, CommitStep

(* Every step keeps the agreement between the cache and the disk.          *)
LEMMA CacheNext == IInv /\ [Next]_vars => CacheInv'
  <1> SUFFICES ASSUME IInv, [Next]_vars PROVE CacheInv'
    OBVIOUS
  <1> USE DEF Goto, diskVars, logVars, bufVars
  <1> DEFINE Kept == CacheInv'
  <1> HIDE DEF Kept
  <1>1. ASSUME UNCHANGED vars PROVE Kept
    <2>z. CacheInv'
      BY SMTT(60), <1>1 DEF vars, IInv, CacheInv, Committed
    <2> QED
      BY Zenon, <2>z DEF Kept
  <1>2. ASSUME ReadHead PROVE Kept
    <2>z. CacheInv'
      BY SMTT(60), <1>2, ThreadFacts DEF ReadHead, IInv, CacheInv, ThreadInv, CommitPcs
    <2> QED
      BY Zenon, <2>z DEF Kept
  <1>3. ASSUME Recover PROVE Kept
    <2>z. CacheInv'
      BY SMTT(60), <1>3, ThreadFacts DEF Recover, InstallBlock, IInv, CacheInv, TypeOK
    <2> QED
      BY Zenon, <2>z DEF Kept
  <1>4. ASSUME RecoverDone PROVE Kept
    <2>z. CacheInv'
      BY SMTT(60), <1>4 DEF RecoverDone, IInv, CacheInv
    <2> QED
      BY Zenon, <2>z DEF Kept
  <1>5. ASSUME RecoverClear PROVE Kept
    <2>1. Logged(lh') = {} /\ cache' = home'
      BY SMTT(60), <1>5 DEF RecoverClear, ClearHead, RecoverInv, Logged, IInv, CacheInv
    <2>z. CacheInv'
      BY SMTT(60), <1>5, <2>1, ThreadFacts DEF RecoverClear, ClearHead, IInv, CacheInv,
        ThreadInv, CommitPcs
    <2> QED
      BY Zenon, <2>z DEF Kept
  <1>6. ASSUME NEW o \in Ops, Call(o) PROVE Kept
    <2>z. CacheInv'
      BY SMTT(60), <1>6 DEF Call, IInv, CacheInv, Committed
    <2> QED
      BY Zenon, <2>z DEF Kept
  <1>7. ASSUME NEW o \in Ops, BeginSleep(o) PROVE Kept
    <2>z. CacheInv'
      BY SMTT(60), <1>7 DEF BeginSleep, IInv, CacheInv, Committed
    <2> QED
      BY Zenon, <2>z DEF Kept
  <1>8. ASSUME NEW o \in Ops, BeginOp(o) PROVE Kept
    <2>z. CacheInv'
      BY SMTT(60), <1>8 DEF BeginOp, IInv, CacheInv, Committed
    <2> QED
      BY Zenon, <2>z DEF Kept
  <1>9. ASSUME NEW o \in Ops, KillWake(o) PROVE Kept
    <2>z. CacheInv'
      BY SMTT(60), <1>9 DEF KillWake, IInv, CacheInv, Committed
    <2> QED
      BY Zenon, <2>z DEF Kept
  <1>10. ASSUME NEW o \in Ops, NEW b \in Blocks, NEW v \in Vals, LogWrite(o, b, v)
         PROVE  Kept
    <2>1. \A q \in Ops : pc[q] \notin CommitPcs
      BY Zenon, <1>10, ActiveAlone DEF LogWrite, IInv, CacheInv
    <2>2. UNCHANGED <<home, pc, tail>> /\ pc[Boot] = "up"
      BY SMTT(60), <1>10, ActiveAlone DEF LogWrite, IInv, CacheInv
    <2>3. cache' = [cache EXCEPT ![b] = v]
      BY SMTT(60), <1>10 DEF LogWrite
    <2>4. ASSUME b \in Logged(lh), UNCHANGED <<lh, pins>> PROVE CacheInv'
      <3>1. pins[b] > 0
        BY Zenon, <2>1, <2>2, <2>4, ThreadFacts DEF IInv, CacheInv, ThreadInv, CommitPcs,
          Committed
      <3> QED
        BY SMTT(60), <2>1, <2>2, <2>3, <2>4, <3>1 DEF IInv, CacheInv, Committed
    <2>5. ASSUME b \notin Logged(lh), AddBlock(b) PROVE CacheInv'
      <3>1. Logged(lh') = Logged(lh) \cup {b}
        BY SMTT(60), <2>5, AppendFacts, ThreadFacts DEF AddBlock, IInv, CacheInv, TypeOK
      <3>2. \A x \in Blocks : /\ pins'[x] = IF x = b THEN pins[b] + 1 ELSE pins[x]
                              /\ pins[x] \in Nat
        BY SMTT(60), <2>5, ThreadFacts DEF AddBlock, IInv, CacheInv, TypeOK
      <3>3. Logged(lh) \subseteq Blocks
        BY SMTT(60), ThreadFacts DEF Logged, IInv, CacheInv, TypeOK
      <3> QED
        BY SMTT(60), <2>1, <2>2, <2>3, <3>1, <3>2, <3>3, ThreadFacts DEF IInv, CacheInv,
          ThreadInv, CommitPcs, Committed
    <2>z. CacheInv'
      BY SMTT(60), <1>10, <2>4, <2>5 DEF LogWrite
    <2> QED
      BY Zenon, <2>z DEF Kept
  <1>11. ASSUME NEW o \in Ops, EndOp(o) PROVE Kept
    <2>z. CacheInv'
      BY SMTT(60), <1>11, ThreadFacts DEF EndOp, Wakeup, IInv, CacheInv, Committed
    <2> QED
      BY Zenon, <2>z DEF Kept
  <1>12. ASSUME NEW o \in Ops, LastEndOp(o) PROVE Kept
    <2>z. CacheInv'
      BY SMTT(60), <1>12 DEF LastEndOp, IInv, CacheInv, Committed
    <2> QED
      BY Zenon, <2>z DEF Kept
  <1>13. ASSUME NEW o \in Ops, WriteLog(o) PROVE Kept
    <2>z. CacheInv'
      BY SMTT(60), <1>13 DEF WriteLog, IInv, CacheInv, Committed
    <2> QED
      BY Zenon, <2>z DEF Kept
  <1>14. ASSUME NEW o \in Ops, WriteLogDone(o) PROVE Kept
    <2>z. CacheInv'
      BY SMTT(60), <1>14 DEF WriteLogDone, IInv, CacheInv, Committed
    <2> QED
      BY Zenon, <2>z DEF Kept
  <1>15. ASSUME NEW o \in Ops, WriteHead(o) PROVE Kept
    <2>1. tail[o] = 0 /\ pc[Boot] = "up" /\ \A q \in Ops : ~Committed(q)
      BY Zenon, <1>15, ThreadFacts DEF WriteHead, IInv, CacheInv, ThreadInv, CommitPcs, Committed
    <2>2. \A i \in tail[o] + 1 .. Len(lh) : pins[lh[i]] > 0
      BY SMTT(60), <2>1 DEF Logged, IInv, CacheInv
    <2>z. CacheInv'
      BY SMTT(60), <1>15, <2>1, <2>2 DEF WriteHead, IInv, CacheInv
    <2> QED
      BY Zenon, <2>z DEF Kept
  <1>16. ASSUME NEW o \in Ops, Install(o) PROVE Kept
    <2> DEFINE k == tail[o] + 1
    <2>t. /\ tail \in [Threads -> Tails] /\ o \in Threads /\ lh \in Seq(Blocks)
          /\ home \in [Blocks -> Vals] /\ pins \in [Blocks -> Nat]
      BY Zenon, ThreadFacts DEF IInv, TypeOK
    <2>a. /\ pc[o] = "install" /\ k <= Len(lh) /\ UNCHANGED <<lh, pc>>
          /\ tail' = [tail EXCEPT ![o] = k] /\ home' = [home EXCEPT ![lh[k]] = logblk[k]]
          /\ cache' = [cache EXCEPT ![lh[k]] = logblk[k]]
          /\ pins' = [pins EXCEPT ![lh[k]] = @ - 1]
      BY Zenon, <1>16 DEF Install, InstallBlock
    <2>1. cache' = cache
      BY SMTT(60), <1>16, InstallCache DEF IInv
    <2>b. k \in 1 .. Len(lh) /\ lh[k] \in Blocks
      <3>1. tail[o] \in Tails
        BY Zenon, <2>t
      <3>2. tail[o] \in Nat /\ Len(lh) \in Nat /\ lh[k] \in Blocks
        BY Zenon, <2>t, <2>a, <3>1, SeqFacts
      <3> QED
        BY SMTT(60), <2>a, <3>2
    <2>c. tail'[o] = k
      BY SMTT(60), <2>t, <2>a
    <2>d. \A q \in Ops : q # o => pc[q] # "install"
      <3>1. ThreadInv
        BY Zenon DEF IInv
      <3> QED
        BY SMTT(60), <2>a, <3>1 DEF ThreadInv, CommitPcs
    <2>3. \A x \in Blocks : home'[x] = IF x = lh[k] THEN cache[x] ELSE home[x]
      <3>1. \A x \in Blocks : home'[x] = IF x = lh[k] THEN logblk[k] ELSE home[x]
        BY SMTT(60), <2>t, <2>a
      <3>2. cache[lh[k]] = logblk[k]
        <4>1. cache \in [Blocks -> Vals]
          BY Zenon DEF IInv, TypeOK
        <4> QED
          BY SMTT(60), <2>a, <2>b, <2>1, <4>1
      <3> QED
        BY Zenon, <3>1, <3>2
    <2>4. \A x \in Blocks : (x # lh[k] => pins'[x] = pins[x]) /\ pins[x] \in Nat
      BY SMTT(60), <2>t, <2>a
    <2>5. \A i \in k + 1 .. Len(lh) : i \in 1 .. Len(lh) /\ i # k /\ i \in k .. Len(lh)
      BY Zenon, <2>b, IndexOrder
    <2>6. \A i \in k + 1 .. Len(lh) : pins'[lh[i]] > 0
      <3>1. ASSUME NEW i \in k + 1 .. Len(lh) PROVE pins'[lh[i]] > 0
        <4>1. i \in 1 .. Len(lh) /\ i # k /\ i \in k .. Len(lh)
          BY Zenon, <2>5, <3>1
        <4>2. Distinct(lh) /\ CacheInv
          BY Zenon DEF IInv, HeaderInv
        <4>3. lh[i] # lh[k]
          BY Zenon, <2>b, <4>1, <4>2 DEF Distinct
        <4>4. lh[i] \in Blocks
          BY Zenon, <2>t, <4>1, SeqFacts
        <4>5. pins[lh[i]] > 0
          BY Zenon, <2>a, <4>1, <4>2 DEF CacheInv
        <4> QED
          BY Zenon, <2>4, <4>3, <4>4, <4>5
      <3> QED
        BY Zenon, <3>1
    <2>z. CacheInv'
      <3>1. CacheInv
        BY Zenon DEF IInv
      <3> QED
        BY SMTT(60), <2>a, <2>b, <2>c, <2>d, <2>1, <2>3, <2>4, <2>6, <3>1 DEF CacheInv, Committed
    <2> QED
      BY Zenon, <2>z DEF Kept
  <1>17. ASSUME NEW o \in Ops, InstallDone(o) PROVE Kept
    <2>z. CacheInv'
      BY SMTT(60), <1>17, ThreadFacts DEF InstallDone, IInv, CacheInv, TypeOK, Committed
    <2> QED
      BY Zenon, <2>z DEF Kept
  <1>18. ASSUME NEW o \in Ops, CommitClear(o) PROVE Kept
    <2>1. \A x \in Blocks : cache[x] = home[x]
      <3>1. Installed(Len(lh)) /\ Copied(Len(lh))
        BY SMTT(60), <1>18 DEF CommitClear, PhaseInv, IInv, CacheInv, Committed
      <3>2. \A x \in Logged(lh) : cache[x] = home[x]
        BY SMTT(60), <3>1 DEF Installed, Copied, Logged
      <3>3. pc[Boot] = "up"
        BY SMTT(60), <1>18, ThreadFacts DEF CommitClear, IInv, CacheInv, ThreadInv, CommitPcs
      <3> QED
        BY SMTT(60), <3>2, <3>3 DEF IInv, CacheInv
    <2>2. Logged(lh') = {}
      BY SMTT(60), <1>18 DEF CommitClear, ClearHead, Logged
    <2>z. CacheInv'
      BY SMTT(60), <1>18, <2>1, <2>2, ThreadFacts DEF CommitClear, ClearHead, IInv, CacheInv,
        ThreadInv, CommitPcs
    <2> QED
      BY Zenon, <2>z DEF Kept
  <1>19. ASSUME NEW o \in Ops, EndCommit(o) PROVE Kept
    <2>z. CacheInv'
      BY SMTT(60), <1>19, ThreadFacts DEF EndCommit, Wakeup, IInv, CacheInv, Committed
    <2> QED
      BY Zenon, <2>z DEF Kept
  <1>20. ASSUME NEW b \in Blocks, Evict(b) PROVE Kept
    <2>z. CacheInv'
      BY SMTT(60), <1>20 DEF Evict, IInv, CacheInv, Committed
    <2> QED
      BY Zenon, <2>z DEF Kept
  <1>21. ASSUME Crash PROVE Kept
    <2>z. CacheInv'
      BY SMTT(60), <1>21, ThreadFacts DEF Crash, CacheInv
    <2> QED
      BY Zenon, <2>z DEF Kept
  <1> QED
    BY ZenonT(60), <1>1, <1>2, <1>3, <1>4, <1>5, <1>6, <1>7, <1>8, <1>9, <1>10, <1>11, <1>12,
      <1>13, <1>14, <1>15, <1>16, <1>17, <1>18, <1>19, <1>20, <1>21 DEF Kept, Next, BootStep, OpStep,
      BeginStep, EndStep, CommitStep

(* The state after boot.                                                   *)
LEMMA InitInv == Init => IInv
  <1> SUFFICES ASSUME Init PROVE IInv
    OBVIOUS
  <1> USE ThreadFacts, SeqFacts DEF Init
  <1>1. TypeOK
    <2>1. /\ pc \in [Threads -> OpPcs \cup BootPcs]
          /\ pc[Boot] \in BootPcs /\ \A o \in Ops : pc[o] \in OpPcs
      BY SMTT(60) DEF BootPcs, OpPcs
    <2>2. pins \in [Blocks -> Nat] /\ tail \in [Threads -> Tails]
          /\ wrote \in [Ops -> SUBSET Blocks]
      BY SMTT(60)
    <2>3. hdr \in Seq(Blocks) /\ lh \in Seq(Blocks) /\ Len(hdr) <= LOGSIZE /\ Len(lh) <= LOGSIZE
      BY SMTT(60)
    <2>4. home \in [Blocks -> Vals] /\ cache \in [Blocks -> Vals]
          /\ logblk \in [LogIndexes -> Vals]
      BY SMTT(60)
    <2>5. outstanding \in Nat /\ committing \in BOOLEAN
      BY Zenon
    <2> QED
      BY Zenon, <2>1, <2>2, <2>3, <2>4, <2>5 DEF TypeOK
  <1>2. CountInv
    <2>1. Active = {}
      BY SMTT(60) DEF Active
    <2>2. Enumerates([i \in 1 .. 0 |-> i], 0, {})
      BY SMTT(60) DEF Enumerates
    <2> QED
      BY Zenon, <2>1, <2>2 DEF CountInv, Enumerates
  <1>3. ThreadInv
    BY SMTT(60) DEF ThreadInv, CommitPcs
  <1>4. RecoverInv
    BY SMTT(60) DEF RecoverInv
  <1>5. HeaderInv
    BY SMTT(60) DEF HeaderInv, Distinct, Committed, InCommit
  <1>6. PhaseInv
    BY SMTT(60) DEF PhaseInv, Committed
  <1>7. CacheInv
    BY SMTT(60) DEF CacheInv
  <1> QED
    BY SMTT(60), <1>1, <1>2, <1>3, <1>4, <1>5, <1>6, <1>7 DEF IInv

(* The inductive invariant holds in every reachable state.                 *)
THEOREM Inductive == Spec => []IInv
  <1>1. IInv /\ [Next]_vars => IInv'
    BY TypeNext, CountNext, ThreadNext, RecoverNext, HeaderNext, PhaseNext, CacheNext
    DEF IInv
  <1> QED
    BY InitInv, <1>1, PTL DEF Spec

=============================================================================
