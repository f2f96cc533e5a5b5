-------------------------- MODULE LogThreadProofs ---------------------------
(***************************************************************************)
(* Types, and who may run when: the first layers of the inductive invariant *)
(* of LogInv are kept by every step, for any blocks, values, system calls  *)
(* and sizes of the log.                                                   *)
(***************************************************************************)
EXTENDS LogInv, TLAPS

(* The booting thread is none of the system calls.                         *)
LEMMA ThreadFacts == Boot \in Threads /\ Boot \notin Ops /\ Ops \subseteq Threads
  BY OpsAssumption DEF Threads

(* Lengths of the log, and the range of a loop index over it.              *)
LEMMA SeqFacts ==
    /\ <<>> \in Seq(Blocks) /\ Len(<<>>) = 0 /\ 0 \in Tails /\ LOGSIZE \in Nat
    /\ \A s \in Seq(Blocks) : Len(s) \in Nat /\ (Len(s) = 0 <=> s = <<>>)
    /\ \A s \in Seq(Blocks) : \A i \in 1 .. Len(s) : s[i] \in Blocks
    /\ \A k \in Tails : k \in Nat
    /\ \A k \in Tails : k + 1 <= LOGSIZE => k + 1 \in Tails /\ k + 1 \in LogIndexes
    /\ \A k \in Tails, s \in Seq(Blocks) : k + 1 <= Len(s) => s[k + 1] \in Blocks
    /\ \A s \in Seq(Blocks), b \in Blocks :
         Append(s, b) \in Seq(Blocks) /\ Len(Append(s, b)) = Len(s) + 1
  <1>1. <<>> \in Seq(Blocks) /\ Len(<<>>) = 0 /\ 0 \in Tails /\ LOGSIZE \in Nat
    BY ReserveAssumption DEF Tails
  <1>2. \A s \in Seq(Blocks) : Len(s) \in Nat /\ (Len(s) = 0 <=> s = <<>>)
    OBVIOUS
  <1>3. \A s \in Seq(Blocks) : \A i \in 1 .. Len(s) : s[i] \in Blocks
    OBVIOUS
  <1>4. \A k \in Tails : k \in Nat
    BY ReserveAssumption DEF Tails
  <1>5. \A k \in Tails : k + 1 <= LOGSIZE => k + 1 \in Tails /\ k + 1 \in LogIndexes
    BY ReserveAssumption DEF Tails, LogIndexes
  <1>6. \A k \in Tails, s \in Seq(Blocks) : k + 1 <= Len(s) => s[k + 1] \in Blocks
    BY ReserveAssumption DEF Tails
  <1>7. \A s \in Seq(Blocks), b \in Blocks :
         Append(s, b) \in Seq(Blocks) /\ Len(Append(s, b)) = Len(s) + 1
    OBVIOUS
  <1> QED
    BY <1>1, <1>2, <1>3, <1>4, <1>5, <1>6, <1>7

(* Every step keeps the types.                                             *)
LEMMA TypeNext == TypeOK /\ ThreadInv /\ CacheInv /\ [Next]_vars => TypeOK'
  <1> SUFFICES ASSUME TypeOK, ThreadInv, CacheInv, [Next]_vars PROVE TypeOK'
    OBVIOUS
  <1> USE ThreadFacts, SeqFacts DEF TypeOK, OpPcs, BootPcs, CommitPcs, Goto,
      diskVars, logVars, bufVars
  <1> DEFINE Kept == TypeOK'
  <1> HIDE DEF Kept
  <1>1. ASSUME UNCHANGED vars PROVE Kept
    <2>z. TypeOK'
      BY <1>1 DEF vars
    <2> QED
      BY Zenon, <2>z DEF Kept
  <1>2. ASSUME ReadHead PROVE Kept
    <2>z. TypeOK'
      BY <1>2 DEF ReadHead
    <2> QED
      BY Zenon, <2>z DEF Kept
  <1>3. ASSUME Recover PROVE Kept
    <2>z. TypeOK'
      BY SMTT(60), <1>3 DEF Recover, InstallBlock
    <2> QED
      BY Zenon, <2>z DEF Kept
  <1>4. ASSUME RecoverDone PROVE Kept
    <2>z. TypeOK'
      BY <1>4 DEF RecoverDone
    <2> QED
      BY Zenon, <2>z DEF Kept
  <1>5. ASSUME RecoverClear PROVE Kept
    <2>z. TypeOK'
      BY <1>5 DEF RecoverClear, ClearHead
    <2> QED
      BY Zenon, <2>z DEF Kept
  <1>6. ASSUME NEW o \in Ops, Call(o) PROVE Kept
    <2>z. TypeOK'
      BY <1>6 DEF Call
    <2> QED
      BY Zenon, <2>z DEF Kept
  <1>7. ASSUME NEW o \in Ops, BeginSleep(o) PROVE Kept
    <2>z. TypeOK'
      BY <1>7 DEF BeginSleep
    <2> QED
      BY Zenon, <2>z DEF Kept
  <1>8. ASSUME NEW o \in Ops, BeginOp(o) PROVE Kept
    <2>z. TypeOK'
      BY <1>8 DEF BeginOp
    <2> QED
      BY Zenon, <2>z DEF Kept
  <1>9. ASSUME NEW o \in Ops, KillWake(o) PROVE Kept
    <2>z. TypeOK'
      BY <1>9 DEF KillWake
    <2> QED
      BY Zenon, <2>z DEF Kept
  <1>10. ASSUME NEW o \in Ops, NEW b \in Blocks, NEW v \in Vals, LogWrite(o, b, v)
         PROVE  Kept
    <2>1. lh' \in Seq(Blocks) /\ Len(lh') <= LOGSIZE /\ pins' \in [Blocks -> Nat]
      <3>1. Len(lh) < LOGSIZE
        BY <1>10 DEF LogWrite, LogFull
      <3>2. CASE UNCHANGED <<lh, pins>>
        BY <3>2
      <3>3. CASE AddBlock(b)
        BY SMTT(60), <3>1, <3>3 DEF AddBlock
      <3> QED
        BY <1>10, <3>2, <3>3 DEF LogWrite
    <2>2. wrote' \in [Ops -> SUBSET Blocks]
      BY <1>10 DEF LogWrite
    <2>z. TypeOK'
      BY Zenon, <1>10, <2>1, <2>2 DEF LogWrite
    <2> QED
      BY Zenon, <2>z DEF Kept
  <1>11. ASSUME NEW o \in Ops, EndOp(o) PROVE Kept
    <2>z. TypeOK'
      BY <1>11 DEF EndOp, Wakeup
    <2> QED
      BY Zenon, <2>z DEF Kept
  <1>12. ASSUME NEW o \in Ops, LastEndOp(o) PROVE Kept
    <2>z. TypeOK'
      BY <1>12 DEF LastEndOp
    <2> QED
      BY Zenon, <2>z DEF Kept
  <1>13. ASSUME NEW o \in Ops, WriteLog(o) PROVE Kept
    <2>z. TypeOK'
      BY SMTT(60), <1>13 DEF WriteLog
    <2> QED
      BY Zenon, <2>z DEF Kept
  <1>14. ASSUME NEW o \in Ops, WriteLogDone(o) PROVE Kept
    <2>z. TypeOK'
      BY <1>14 DEF WriteLogDone
    <2> QED
      BY Zenon, <2>z DEF Kept
  <1>15. ASSUME NEW o \in Ops, WriteHead(o) PROVE Kept
    <2>z. TypeOK'
      BY SMTT(60), <1>15 DEF WriteHead
    <2> QED
      BY Zenon, <2>z DEF Kept
  <1>16. ASSUME NEW o \in Ops, Install(o) PROVE Kept
    <2>1. pins[lh[tail[o] + 1]] > 0
      <3>1. tail[o] + 1 \in tail[o] + 1 .. Len(lh)
        BY SMTT(60), <1>16 DEF Install, InstallBlock
      <3> QED
        BY SMTT(60), <1>16, <3>1 DEF Install, CacheInv
    <2>2. pins' \in [Blocks -> Nat]
      BY SMTT(60), <1>16, <2>1 DEF Install, InstallBlock
    <2>z. TypeOK'
      BY SMTT(60), <1>16, <2>2 DEF Install, InstallBlock
    <2> QED
      BY Zenon, <2>z DEF Kept
  <1>17. ASSUME NEW o \in Ops, InstallDone(o) PROVE Kept
    <2>z. TypeOK'
      BY <1>17 DEF InstallDone
    <2> QED
      BY Zenon, <2>z DEF Kept
  <1>18. ASSUME NEW o \in Ops, CommitClear(o) PROVE Kept
    <2>z. TypeOK'
      BY <1>18 DEF CommitClear, ClearHead
    <2> QED
      BY Zenon, <2>z DEF Kept
  <1>19. ASSUME NEW o \in Ops, EndCommit(o) PROVE Kept
    <2>z. TypeOK'
      BY Zenon, <1>19 DEF EndCommit, Wakeup
    <2> QED
      BY Zenon, <2>z DEF Kept
  <1>20. ASSUME NEW b \in Blocks, Evict(b) PROVE Kept
    <2>z. TypeOK'
      BY SMTT(60), <1>20 DEF Evict
    <2> QED
      BY Zenon, <2>z DEF Kept
  <1>21. ASSUME Crash PROVE Kept
    <2>1. /\ pc' \in [Threads -> OpPcs \cup BootPcs]
          /\ pc'[Boot] \in BootPcs /\ \A o \in Ops : pc'[o] \in OpPcs
      BY <1>21 DEF Crash
    <2>2. pins' \in [Blocks -> Nat] /\ tail' \in [Threads -> Tails]
      BY <1>21 DEF Crash
    <2>3. wrote' \in [Ops -> SUBSET Blocks]
      BY <1>21 DEF Crash
    <2>4. /\ home' = home /\ logblk' = logblk /\ hdr' = hdr /\ cache' = home
          /\ lh' = <<>> /\ outstanding' = 0 /\ committing' = FALSE
      BY <1>21 DEF Crash
    <2>5. 0 \in Nat /\ FALSE \in BOOLEAN /\ Len(lh') <= LOGSIZE
      BY <2>4
    <2>6. lh' \in Seq(Blocks) /\ outstanding' \in Nat /\ committing' \in BOOLEAN
      BY Zenon, <2>4
    <2>7. home' \in [Blocks -> Vals] /\ cache' \in [Blocks -> Vals]
      BY <2>4
    <2>8. logblk' \in [LogIndexes -> Vals] /\ hdr' \in Seq(Blocks) /\ Len(hdr') <= LOGSIZE
      BY <2>4
    <2>z. TypeOK'
      BY SMTT(60), <2>1, <2>2, <2>3, <2>5, <2>6, <2>7, <2>8
    <2> QED
      BY Zenon, <2>z DEF Kept
  <1> QED
    BY ZenonT(60), <1>1, <1>2, <1>3, <1>4, <1>5, <1>6, <1>7, <1>8, <1>9, <1>10, <1>11, <1>12,
      <1>13, <1>14, <1>15, <1>16, <1>17, <1>18, <1>19, <1>20, <1>21
    DEF Kept, Next, BootStep, OpStep, BeginStep, EndStep, CommitStep

(* No system call is counted exactly when none is in progress.             *)
LEMMA ActiveCount ==
    ASSUME TypeOK, CountInv PROVE outstanding = 0 <=> Active = {}
  <1>1. PICK f : Enumerates(f, outstanding, Active)
    BY DEF CountInv
  <1>2. outstanding = 0 => 1 .. outstanding = {}
    BY DEF TypeOK
  <1>3. outstanding # 0 => 1 \in 1 .. outstanding
    BY DEF TypeOK
  <1> QED
    BY <1>1, <1>2, <1>3 DEF Enumerates

(* An enumeration of the system calls in progress after a step.            *)
LEMMA CountIntro ==
    ASSUME NEW f, Enumerates(f, outstanding', Active') PROVE CountInv'
  BY Zenon DEF CountInv, Enumerates

(* One more system call to enumerate.                                      *)
LEMMA AddOne ==
    ASSUME NEW n \in Nat, NEW S, NEW x, x \notin S, NEW f, Enumerates(f, n, S)
    PROVE  \E g : Enumerates(g, n + 1, S \cup {x})
  <1> DEFINE g == [i \in 1 .. n + 1 |-> IF i = n + 1 THEN x ELSE f[i]]
  <1>1. \A i \in 1 .. n + 1 : i = n + 1 \/ i \in 1 .. n
    OBVIOUS
  <1>2. n + 1 \in 1 .. n + 1 /\ n + 1 \notin 1 .. n /\ \A i \in 1 .. n : i \in 1 .. n + 1
    OBVIOUS
  <1>3. Enumerates(g, n + 1, S \cup {x})
    BY <1>1, <1>2 DEF Enumerates
  <1> QED
    BY <1>3

(* One system call less: the last one takes its place.                     *)
LEMMA DropOne ==
    ASSUME NEW n \in Nat, NEW S, NEW x \in S, NEW f, Enumerates(f, n, S)
    PROVE  \E g : Enumerates(g, n - 1, S \ {x})
  <1>1. PICK k \in 1 .. n : f[k] = x
    BY DEF Enumerates
  <1> DEFINE g == [i \in 1 .. n - 1 |-> IF i = k THEN f[n] ELSE f[i]]
  <1>2. n \in 1 .. n /\ n \notin 1 .. n - 1 /\ \A i \in 1 .. n - 1 : i \in 1 .. n
    BY <1>1
  <1>3. \A i \in 1 .. n : i = n \/ i \in 1 .. n - 1
    OBVIOUS
  <1>4. g \in [1 .. n - 1 -> S \ {x}]
    BY <1>1, <1>2 DEF Enumerates
  <1>5. \A i, j \in 1 .. n - 1 : g[i] = g[j] => i = j
    BY <1>1, <1>2 DEF Enumerates
  <1>6. ASSUME NEW y \in S \ {x} PROVE \E i \in 1 .. n - 1 : g[i] = y
    <2>1. PICK i \in 1 .. n : f[i] = y
      BY DEF Enumerates
    <2>2. i # k
      BY <1>1, <1>6, <2>1
    <2>3. CASE i = n
      <3>1. k \in 1 .. n - 1 /\ g[k] = y
        BY <1>3, <2>1, <2>2, <2>3
      <3> QED
        BY <3>1
    <2>4. CASE i # n
      <3>1. i \in 1 .. n - 1 /\ g[i] = y
        BY <1>3, <2>1, <2>2, <2>4
      <3> QED
        BY <3>1
    <2> QED
      BY <2>3, <2>4
  <1> HIDE DEF g
  <1>7. Enumerates(g, n - 1, S \ {x})
    BY <1>4, <1>5, <1>6 DEF Enumerates
  <1> QED
    BY <1>7

(* A step that leaves the set of system calls in progress alone.           *)
LEMMA CountSame ==
    ASSUME CountInv, outstanding' = outstanding,
           \A o \in Ops : pc'[o] = "op" <=> pc[o] = "op"
    PROVE  CountInv'
  <1>1. Active' = Active
    BY DEF Active
  <1> QED
    BY <1>1 DEF CountInv

(* begin_op() and end_op() keep log.outstanding exact.                     *)
LEMMA CountNext == TypeOK /\ CountInv /\ [Next]_vars => CountInv'
  <1> SUFFICES ASSUME TypeOK, CountInv, [Next]_vars PROVE CountInv'
    OBVIOUS
  <1> USE ThreadFacts DEF TypeOK, OpPcs, BootPcs, CommitPcs, Goto,
      diskVars, logVars, bufVars
  <1>1. CASE UNCHANGED vars
    BY <1>1, CountSame DEF vars
  <1>2. ASSUME ReadHead PROVE CountInv'
    BY <1>2, CountSame DEF ReadHead
  <1>3. ASSUME Recover PROVE CountInv'
    BY <1>3, CountSame DEF Recover, InstallBlock
  <1>4. ASSUME RecoverDone PROVE CountInv'
    BY <1>4, CountSame DEF RecoverDone
  <1>5. ASSUME RecoverClear PROVE CountInv'
    BY <1>5, CountSame DEF RecoverClear, ClearHead
  <1>6. ASSUME NEW o \in Ops, Call(o) PROVE CountInv'
    BY <1>6, CountSame DEF Call
  <1>7. ASSUME NEW o \in Ops, BeginSleep(o) PROVE CountInv'
    BY <1>7, CountSame DEF BeginSleep
  <1>8. ASSUME NEW o \in Ops, BeginOp(o) PROVE CountInv'
    <2>1. Active' = Active \cup {o} /\ o \notin Active
      BY <1>8 DEF BeginOp, Active
    <2>2. PICK f : Enumerates(f, outstanding, Active)
      BY DEF CountInv
    <2>3. PICK g : Enumerates(g, outstanding + 1, Active \cup {o})
      BY Zenon, <2>1, <2>2, AddOne
    <2>4. Enumerates(g, outstanding', Active')
      BY <1>8, <2>1, <2>3 DEF BeginOp
    <2> QED
      BY <2>4, CountIntro
  <1>9. ASSUME NEW o \in Ops, KillWake(o) PROVE CountInv'
    BY <1>9, CountSame DEF KillWake
  <1>10. ASSUME NEW o \in Ops, NEW b \in Blocks, NEW v \in Vals, LogWrite(o, b, v)
         PROVE  CountInv'
    BY <1>10, CountSame DEF LogWrite, AddBlock
  <1>11. ASSUME NEW o \in Ops, EndOp(o) PROVE CountInv'
    <2>1. Active' = Active \ {o} /\ o \in Active /\ outstanding' = outstanding - 1
      BY <1>11 DEF EndOp, Wakeup, Active
    <2>2. PICK f : Enumerates(f, outstanding, Active)
      BY DEF CountInv
    <2>3. PICK g : Enumerates(g, outstanding - 1, Active \ {o})
      BY Zenon, <2>1, <2>2, DropOne
    <2>4. Enumerates(g, outstanding', Active')
      BY <2>1, <2>3
    <2> QED
      BY <2>4, CountIntro
  <1>12. ASSUME NEW o \in Ops, LastEndOp(o) PROVE CountInv'
    <2>1. Active' = Active \ {o} /\ o \in Active /\ outstanding' = outstanding - 1
      BY <1>12 DEF LastEndOp, Active
    <2>2. PICK f : Enumerates(f, outstanding, Active)
      BY DEF CountInv
    <2>3. PICK g : Enumerates(g, outstanding - 1, Active \ {o})
      BY Zenon, <2>1, <2>2, DropOne
    <2>4. Enumerates(g, outstanding', Active')
      BY <2>1, <2>3
    <2> QED
      BY <2>4, CountIntro
  <1>13. ASSUME NEW o \in Ops, WriteLog(o) PROVE CountInv'
    BY <1>13, CountSame DEF WriteLog
  <1>14. ASSUME NEW o \in Ops, WriteLogDone(o) PROVE CountInv'
    BY <1>14, CountSame DEF WriteLogDone
  <1>15. ASSUME NEW o \in Ops, WriteHead(o) PROVE CountInv'
    BY <1>15, CountSame DEF WriteHead
  <1>16. ASSUME NEW o \in Ops, Install(o) PROVE CountInv'
    BY <1>16, CountSame DEF Install, InstallBlock
  <1>17. ASSUME NEW o \in Ops, InstallDone(o) PROVE CountInv'
    BY <1>17, CountSame DEF InstallDone
  <1>18. ASSUME NEW o \in Ops, CommitClear(o) PROVE CountInv'
    BY <1>18, CountSame DEF CommitClear, ClearHead
  <1>19. ASSUME NEW o \in Ops, EndCommit(o) PROVE CountInv'
    BY <1>19, CountSame DEF EndCommit, Wakeup
  <1>20. ASSUME NEW b \in Blocks, Evict(b) PROVE CountInv'
    BY <1>20, CountSame DEF Evict
  <1>21. ASSUME Crash PROVE CountInv'
    <2>1. Active' = {} /\ outstanding' = 0 /\ 1 .. 0 = {}
      BY <1>21 DEF Crash, Active
    <2>2. Enumerates([i \in 1 .. 0 |-> i], 0, {})
      BY <2>1 DEF Enumerates
    <2> QED
      BY <2>1, <2>2, CountIntro
  <1> QED
    BY <1>1, <1>2, <1>3, <1>4, <1>5, <1>6, <1>7, <1>8, <1>9, <1>10, <1>11, <1>12,
      <1>13, <1>14, <1>15, <1>16, <1>17, <1>18, <1>19, <1>20, <1>21
    DEF Next, BootStep, OpStep, BeginStep, EndStep, CommitStep

(* Every step keeps recovery, system calls and commits apart.              *)
LEMMA ThreadNext == TypeOK /\ CountInv /\ ThreadInv /\ [Next]_vars => ThreadInv'
  <1> SUFFICES ASSUME TypeOK, CountInv, ThreadInv, [Next]_vars PROVE ThreadInv'
    OBVIOUS
  <1> USE ThreadFacts, SeqFacts DEF TypeOK, ThreadInv, OpPcs, BootPcs, CommitPcs,
      Goto, diskVars, logVars, bufVars
  <1> DEFINE Kept == ThreadInv'
  <1> HIDE DEF Kept
  <1>1. ASSUME UNCHANGED vars PROVE Kept
    <2>z. ThreadInv'
      BY SMTT(60), <1>1 DEF vars
    <2> QED
      BY Zenon, <2>z DEF Kept
  <1>2. ASSUME ReadHead PROVE Kept
    <2>1. \A t \in Threads : tail[t] = 0
      BY SMTT(60), <1>2 DEF ReadHead, Threads
    <2>z. ThreadInv'
      BY SMTT(60), <1>2, <2>1 DEF ReadHead
    <2> QED
      BY Zenon, <2>z DEF Kept
  <1>3. ASSUME Recover PROVE Kept
    <2>z. ThreadInv'
      BY SMTT(60), <1>3 DEF Recover, InstallBlock
    <2> QED
      BY Zenon, <2>z DEF Kept
  <1>4. ASSUME RecoverDone PROVE Kept
    <2>z. ThreadInv'
      BY SMTT(60), <1>4 DEF RecoverDone
    <2> QED
      BY Zenon, <2>z DEF Kept
  <1>5. ASSUME RecoverClear PROVE Kept
    <2>1. \A t \in Threads : tail[t] = 0
      BY SMTT(60), <1>5 DEF RecoverClear, Threads
    <2>z. ThreadInv'
      BY SMTT(60), <1>5, <2>1 DEF RecoverClear, ClearHead
    <2> QED
      BY Zenon, <2>z DEF Kept
  <1>6. ASSUME NEW o \in Ops, Call(o) PROVE Kept
    <2>z. ThreadInv'
      BY SMTT(60), <1>6 DEF Call
    <2> QED
      BY Zenon, <2>z DEF Kept
  <1>7. ASSUME NEW o \in Ops, BeginSleep(o) PROVE Kept
    <2>z. ThreadInv'
      BY SMTT(60), <1>7 DEF BeginSleep
    <2> QED
      BY Zenon, <2>z DEF Kept
  <1>8. ASSUME NEW o \in Ops, BeginOp(o) PROVE Kept
    <2>z. ThreadInv'
      BY SMTT(60), <1>8 DEF BeginOp
    <2> QED
      BY Zenon, <2>z DEF Kept
  <1>9. ASSUME NEW o \in Ops, KillWake(o) PROVE Kept
    <2>z. ThreadInv'
      BY SMTT(60), <1>9 DEF KillWake
    <2> QED
      BY Zenon, <2>z DEF Kept
  <1>10. ASSUME NEW o \in Ops, NEW b \in Blocks, NEW v \in Vals, LogWrite(o, b, v)
         PROVE  Kept
    <2>z. ThreadInv'
      BY SMTT(60), <1>10 DEF LogWrite, AddBlock
    <2> QED
      BY Zenon, <2>z DEF Kept
  <1>11. ASSUME NEW o \in Ops, EndOp(o) PROVE Kept
    <2>z. ThreadInv'
      BY SMTT(60), <1>11 DEF EndOp, Wakeup
    <2> QED
      BY Zenon, <2>z DEF Kept
  <1>12. ASSUME NEW o \in Ops, LastEndOp(o) PROVE Kept
    <2>1. o \in Active
      BY SMTT(60), <1>12 DEF LastEndOp, Active
    <2>2. ~committing
      BY SMTT(60), <2>1, ActiveCount
    <2>z. ThreadInv'
      BY SMTT(60), <1>12, <2>2 DEF LastEndOp
    <2> QED
      BY Zenon, <2>z DEF Kept
  <1>13. ASSUME NEW o \in Ops, WriteLog(o) PROVE Kept
    <2>z. ThreadInv'
      BY SMTT(60), <1>13 DEF WriteLog
    <2> QED
      BY Zenon, <2>z DEF Kept
  <1>14. ASSUME NEW o \in Ops, WriteLogDone(o) PROVE Kept
    <2>z. ThreadInv'
      BY SMTT(60), <1>14 DEF WriteLogDone
    <2> QED
      BY Zenon, <2>z DEF Kept
  <1>15. ASSUME NEW o \in Ops, WriteHead(o) PROVE Kept
    <2>z. ThreadInv'
      BY SMTT(60), <1>15 DEF WriteHead
    <2> QED
      BY Zenon, <2>z DEF Kept
  <1>16. ASSUME NEW o \in Ops, Install(o) PROVE Kept
    <2>z. ThreadInv'
      BY SMTT(60), <1>16 DEF Install, InstallBlock
    <2> QED
      BY Zenon, <2>z DEF Kept
  <1>17. ASSUME NEW o \in Ops, InstallDone(o) PROVE Kept
    <2>z. ThreadInv'
      BY SMTT(60), <1>17 DEF InstallDone
    <2> QED
      BY Zenon, <2>z DEF Kept
  <1>18. ASSUME NEW o \in Ops, CommitClear(o) PROVE Kept
    <2>1. \A t \in Threads : tail[t] = 0
      BY Zenon, <1>18 DEF CommitClear, Threads
    <2>z. ThreadInv'
      BY SMTT(60), <1>18, <2>1 DEF CommitClear, ClearHead
    <2> QED
      BY Zenon, <2>z DEF Kept
  <1>19. ASSUME NEW o \in Ops, EndCommit(o) PROVE Kept
    <2>z. ThreadInv'
      BY SMTT(60), <1>19 DEF EndCommit, Wakeup
    <2> QED
      BY Zenon, <2>z DEF Kept
  <1>20. ASSUME NEW b \in Blocks, Evict(b) PROVE Kept
    <2>z. ThreadInv'
      BY SMTT(60), <1>20 DEF Evict
    <2> QED
      BY Zenon, <2>z DEF Kept
  <1>21. ASSUME Crash PROVE Kept
    <2>z. ThreadInv'
      BY SMTT(60), <1>21 DEF Crash
    <2> QED
      BY Zenon, <2>z DEF Kept
  <1> QED
    BY ZenonT(60), <1>1, <1>2, <1>3, <1>4, <1>5, <1>6, <1>7, <1>8, <1>9, <1>10, <1>11, <1>12,
      <1>13, <1>14, <1>15, <1>16, <1>17, <1>18, <1>19, <1>20, <1>21
    DEF Kept, Next, BootStep, OpStep, BeginStep, EndStep, CommitStep

=============================================================================
