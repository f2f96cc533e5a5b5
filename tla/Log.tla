-------------------------------- MODULE Log --------------------------------
(***************************************************************************)
(* The write-ahead log of kernel/log.c: the transactions that system calls *)
(* join, group commit, the copy of the blocks to their home locations,     *)
(* and recovery after a crash at any point.                                *)
(*                                                                         *)
(* The disk is home (the file system's blocks), logblk (the blocks after   *)
(* the log header) and hdr (the header block).  A bwrite() is one step:    *)
(* virtio_disk_rw() returns when the write is done, and a crash comes      *)
(* before or after it.  cache is what bread() returns for a home block: a  *)
(* buffer that is not pinned can be recycled and read again from the disk. *)
(* log.lock sections are one action each.                                  *)
(***************************************************************************)
EXTENDS Naturals, Sequences, FiniteSets

CONSTANTS
  Blocks,        \* block numbers of the file system
  Vals,          \* contents of a block
  Ops,           \* processes that make FS system calls
  Boot,          \* the thread that runs fsinit()
  MAXOPBLOCKS,   \* blocks that begin_op() reserves for a system call
  LOGSIZE,       \* entries of the header's block array
  Size,          \* log.size, the superblock's nlog: header and log blocks
  OpBlocks       \* distinct blocks a system call really writes, at most

ASSUME OpsAssumption == Boot \notin Ops
ASSUME ReserveAssumption ==
  /\ MAXOPBLOCKS \in Nat \ {0} /\ LOGSIZE \in Nat /\ MAXOPBLOCKS <= LOGSIZE
  /\ Size \in Nat \ {0} /\ OpBlocks \in Nat

VARIABLES
  home, logblk, hdr,             \* the disk
  lh, outstanding, committing,   \* struct log: lh.block[0 .. lh.n-1] as a sequence
  cache, pins,                   \* the buffer cache: contents, counts of bpin()
  pc,                            \* where each thread is
  tail,                          \* its loop index in write_log, install_trans
  wrote                          \* the blocks a system call has written so far

diskVars == <<home, logblk, hdr>>
logVars  == <<lh, outstanding, committing>>
bufVars  == <<cache, pins>>
vars     == <<diskVars, logVars, bufVars, pc, tail, wrote>>

Threads == Ops \cup {Boot}
LogIndexes == 1 .. LOGSIZE
Tails == 0 .. LOGSIZE

CommitPcs == {"write_log", "write_head", "install", "clear", "end_commit"}
OpPcs     == {"idle", "begin", "sleeping", "op"} \cup CommitPcs
BootPcs   == {"read_head", "recover", "clear_head", "up"}

Goto(t, l) == pc' = [pc EXCEPT ![t] = l]

Logged(s) == {s[i] : i \in 1 .. Len(s)}

-----------------------------------------------------------------------------
(* Booting: initlog() and recover_from_log().                              *)

(* read_head().                                                            *)
ReadHead ==
  /\ pc[Boot] = "read_head"
  /\ lh' = hdr
  /\ Goto(Boot, "recover")
  /\ UNCHANGED <<diskVars, outstanding, committing, bufVars, tail, wrote>>

(* One block of install_trans(), by t.                                     *)
InstallBlock(t) ==
  LET i == tail[t] + 1 IN
  /\ i <= Len(lh)
  /\ home' = [home EXCEPT ![lh[i]] = logblk[i]]
  /\ cache' = [cache EXCEPT ![lh[i]] = logblk[i]]
  /\ tail' = [tail EXCEPT ![t] = i]
  /\ UNCHANGED <<logblk, hdr, logVars, pc, wrote>>

(* install_trans(1).                                                       *)
Recover ==
  /\ pc[Boot] = "recover"
  /\ InstallBlock(Boot)
  /\ UNCHANGED pins

RecoverDone ==
  /\ pc[Boot] = "recover"
  /\ tail[Boot] = Len(lh)
  /\ tail' = [tail EXCEPT ![Boot] = 0]
  /\ Goto(Boot, "clear_head")
  /\ UNCHANGED <<diskVars, logVars, bufVars, wrote>>

(* log.lh.n = 0 and write_head().                                          *)
ClearHead ==
  /\ lh' = <<>>
  /\ hdr' = <<>>
  /\ UNCHANGED <<home, logblk, outstanding, committing, bufVars, tail, wrote>>

RecoverClear ==
  /\ pc[Boot] = "clear_head"
  /\ ClearHead
  /\ Goto(Boot, "up")

-----------------------------------------------------------------------------
(* begin_op().                                                             *)

(* A process makes an FS system call, which calls begin_op().              *)
Call(o) ==
  /\ pc[Boot] = "up" /\ pc[o] = "idle"
  /\ Goto(o, "begin")
  /\ UNCHANGED <<diskVars, logVars, bufVars, tail, wrote>>

(* Mutant: the reservations of the running system calls only.              *)
NoRoomOffByOne == Len(lh) + outstanding * MAXOPBLOCKS > LOGSIZE

(* "this op might exhaust log space".                                      *)
NoRoom == Len(lh) + (outstanding + 1) * MAXOPBLOCKS > LOGSIZE

BeginSleep(o) ==
  /\ pc[o] = "begin"
  /\ committing \/ NoRoom
  /\ Goto(o, "sleeping")
  /\ UNCHANGED <<diskVars, logVars, bufVars, tail, wrote>>

BeginOp(o) ==
  /\ pc[o] = "begin"
  /\ ~committing /\ ~NoRoom
  /\ outstanding' = outstanding + 1
  /\ Goto(o, "op")
  /\ UNCHANGED <<diskVars, lh, committing, bufVars, tail, wrote>>

(* kill() makes a sleeper RUNNABLE; begin_op() looks again.                *)
KillWake(o) ==
  /\ pc[o] = "sleeping"
  /\ Goto(o, "begin")
  /\ UNCHANGED <<diskVars, logVars, bufVars, tail, wrote>>

-----------------------------------------------------------------------------
(* log_write(): o has changed block b, which it holds locked, to v.        *)

(* Mutant: a block is not pinned.                                          *)
AddBlockUnpinned(b) ==
  /\ lh' = Append(lh, b)
  /\ UNCHANGED pins

(* A block that is new in this transaction.                                *)
AddBlock(b) ==
  /\ lh' = Append(lh, b)
  /\ pins' = [pins EXCEPT ![b] = @ + 1]

(* The two panics of log_write().                                          *)
LogFull == Len(lh) >= LOGSIZE \/ Len(lh) >= Size - 1

LogWrite(o, b, v) ==
  /\ pc[o] = "op"
  /\ b \in wrote[o] \/ Cardinality(wrote[o]) < OpBlocks
  /\ ~LogFull
  /\ cache' = [cache EXCEPT ![b] = v]
  /\ wrote' = [wrote EXCEPT ![o] = @ \cup {b}]
  /\ \/ b \in Logged(lh) /\ UNCHANGED <<lh, pins>>    \* log absorption
     \/ b \notin Logged(lh) /\ AddBlock(b)
  /\ UNCHANGED <<diskVars, outstanding, committing, pc, tail>>

-----------------------------------------------------------------------------
(* end_op() and commit().                                                  *)

Wakeup(o, l) ==
  pc' = [t \in Threads |-> IF t = o THEN l
                           ELSE IF pc[t] = "sleeping" THEN "begin" ELSE pc[t]]

(* Mutant: the space that was given back is not announced.                 *)
EndOpQuiet(o) ==
  /\ pc[o] = "op" /\ outstanding > 1
  /\ outstanding' = outstanding - 1
  /\ Goto(o, "idle")
  /\ wrote' = [wrote EXCEPT ![o] = {}]
  /\ UNCHANGED <<diskVars, lh, committing, bufVars, tail>>

(* Other system calls are still running.                                   *)
EndOp(o) ==
  /\ pc[o] = "op" /\ outstanding > 1
  /\ outstanding' = outstanding - 1
  /\ Wakeup(o, "idle")
  /\ wrote' = [wrote EXCEPT ![o] = {}]
  /\ UNCHANGED <<diskVars, lh, committing, bufVars, tail>>

(* Mutant: the header is written before the log blocks.                    *)
LastEndOpHeadFirst(o) ==
  /\ pc[o] = "op" /\ outstanding = 1
  /\ outstanding' = 0
  /\ committing' = TRUE
  /\ hdr' = lh
  /\ Goto(o, IF lh = <<>> THEN "end_commit" ELSE "write_log")
  /\ wrote' = [wrote EXCEPT ![o] = {}]
  /\ UNCHANGED <<home, logblk, lh, bufVars, tail>>

(* The last system call commits; an empty transaction writes nothing.      *)
LastEndOp(o) ==
  /\ pc[o] = "op" /\ outstanding = 1
  /\ outstanding' = 0
  /\ committing' = TRUE
  /\ Goto(o, IF lh = <<>> THEN "end_commit" ELSE "write_log")
  /\ wrote' = [wrote EXCEPT ![o] = {}]
  /\ UNCHANGED <<diskVars, lh, bufVars, tail>>

(* One block of write_log().                                               *)
WriteLog(o) ==
  LET i == tail[o] + 1 IN
  /\ pc[o] = "write_log" /\ i <= Len(lh)
  /\ logblk' = [logblk EXCEPT ![i] = cache[lh[i]]]
  /\ tail' = [tail EXCEPT ![o] = i]
  /\ UNCHANGED <<home, hdr, logVars, bufVars, pc, wrote>>

WriteLogDone(o) ==
  /\ pc[o] = "write_log" /\ tail[o] = Len(lh)
  /\ tail' = [tail EXCEPT ![o] = 0]
  /\ Goto(o, "write_head")
  /\ UNCHANGED <<diskVars, logVars, bufVars, wrote>>

(* write_head(): "the real commit".                                        *)
WriteHead(o) ==
  /\ pc[o] = "write_head"
  /\ hdr' = lh
  /\ Goto(o, "install")
  /\ UNCHANGED <<home, logblk, logVars, bufVars, tail, wrote>>

(* install_trans(0): a block is unpinned once it is home.                  *)
Install(o) ==
  /\ pc[o] = "install"
  /\ InstallBlock(o)
  /\ pins' = [pins EXCEPT ![lh[tail[o] + 1]] = @ - 1]

(* Mutant: the loop stops one block early.                                 *)
InstallDoneEarly(o) ==
  /\ pc[o] = "install" /\ tail[o] + 1 = Len(lh)
  /\ tail' = [tail EXCEPT ![o] = 0]
  /\ Goto(o, "clear")
  /\ UNCHANGED <<diskVars, logVars, bufVars, wrote>>

InstallDone(o) ==
  /\ pc[o] = "install" /\ tail[o] = Len(lh)
  /\ tail' = [tail EXCEPT ![o] = 0]
  /\ Goto(o, "clear")
  /\ UNCHANGED <<diskVars, logVars, bufVars, wrote>>

CommitClear(o) ==
  /\ pc[o] = "clear"
  /\ ClearHead
  /\ Goto(o, "end_commit")

(* Mutant: nobody is told that the commit is over.                         *)
EndCommitQuiet(o) ==
  /\ pc[o] = "end_commit"
  /\ committing' = FALSE
  /\ Goto(o, "idle")
  /\ UNCHANGED <<diskVars, lh, outstanding, bufVars, tail, wrote>>

(* end_op() after commit().                                                *)
EndCommit(o) ==
  /\ pc[o] = "end_commit"
  /\ committing' = FALSE
  /\ Wakeup(o, "idle")
  /\ UNCHANGED <<diskVars, lh, outstanding, bufVars, tail, wrote>>

-----------------------------------------------------------------------------
(* The environment.                                                        *)

(* bget() recycles the buffer of b; the next bread() reads the disk.       *)
Evict(b) ==
  /\ pins[b] = 0
  /\ cache' = [cache EXCEPT ![b] = home[b]]
  /\ UNCHANGED <<diskVars, logVars, pins, pc, tail, wrote>>

(* Power fails and the machine boots: memory is zeroed, the cache empty.   *)
Crash ==
  /\ lh' = <<>> /\ outstanding' = 0 /\ committing' = FALSE
  /\ cache' = home
  /\ pins' = [b \in Blocks |-> 0]
  /\ pc' = [t \in Threads |-> IF t = Boot THEN "read_head" ELSE "idle"]
  /\ tail' = [t \in Threads |-> 0]
  /\ wrote' = [o \in Ops |-> {}]
  /\ UNCHANGED diskVars

(* The first boot of a disk that mkfs wrote: the log is zeroed.            *)
Init ==
  /\ home \in [Blocks -> Vals]
  /\ \E zeroes \in Vals : logblk = [i \in LogIndexes |-> zeroes]
  /\ hdr = <<>>
  /\ lh = <<>> /\ outstanding = 0 /\ committing = FALSE
  /\ cache = home
  /\ pins = [b \in Blocks |-> 0]
  /\ pc = [t \in Threads |-> IF t = Boot THEN "read_head" ELSE "idle"]
  /\ tail = [t \in Threads |-> 0]
  /\ wrote = [o \in Ops |-> {}]

BootStep == ReadHead \/ Recover \/ RecoverDone \/ RecoverClear

CommitStep(o) == WriteLog(o) \/ WriteLogDone(o) \/ WriteHead(o) \/ Install(o)
                   \/ InstallDone(o) \/ CommitClear(o) \/ EndCommit(o)

BeginStep(o) == BeginSleep(o) \/ BeginOp(o)

EndStep(o) == EndOp(o) \/ LastEndOp(o)

OpStep(o) == BeginStep(o) \/ EndStep(o) \/ CommitStep(o) \/ Call(o) \/ KillWake(o)
               \/ \E b \in Blocks, v \in Vals : LogWrite(o, b, v)

Next ==
  \/ BootStep
  \/ \E o \in Ops : OpStep(o)
  \/ \E b \in Blocks : Evict(b)
  \/ Crash

Spec == Init /\ [][Next]_vars

(* Threads keep running and system calls end.  Nothing is assumed of       *)
(* crashes, of kill() or of which buffers are recycled.                    *)
Fairness ==
  /\ WF_vars(BootStep)
  /\ \A o \in Ops : WF_vars(BeginStep(o)) /\ WF_vars(EndStep(o)) /\ WF_vars(CommitStep(o))

FairSpec == Spec /\ Fairness

-----------------------------------------------------------------------------
(* Properties.                                                             *)

(* Types; the log header, in memory and on disk, never outgrows its array, *)
(* and install_trans() never unpins a buffer more often than it was pinned.*)
TypeOK ==
  /\ home \in [Blocks -> Vals]
  /\ logblk \in [LogIndexes -> Vals]
  /\ hdr \in Seq(Blocks) /\ Len(hdr) <= LOGSIZE
  /\ lh \in Seq(Blocks) /\ Len(lh) <= LOGSIZE
  /\ outstanding \in Nat
  /\ committing \in BOOLEAN
  /\ cache \in [Blocks -> Vals]
  /\ pins \in [Blocks -> Nat]
  /\ pc \in [Threads -> OpPcs \cup BootPcs]
  /\ pc[Boot] \in BootPcs /\ \A o \in Ops : pc[o] \in OpPcs
  /\ tail \in [Threads -> Tails]
  /\ wrote \in [Ops -> SUBSET Blocks]

(* Recovery from header h and log blocks l on top of the home blocks d.    *)
Recovered(h, l, d) ==
  [b \in Blocks |-> IF b \in Logged(h) THEN l[CHOOSE i \in 1 .. Len(h) : h[i] = b] ELSE d[b]]

(* The contents that recovery would leave on the disk.                     *)
Stable == Recovered(hdr, logblk, home)

(* The contents that system calls see.                                     *)
View == IF pc[Boot] = "up" THEN cache ELSE Stable

Active == {o \in Ops : pc[o] = "op"}

Atomic == INSTANCE AtomicLog WITH stable <- Stable, view <- View, active <- Active

(* Crash safety: whatever is running when the machine stops, and however   *)
(* often it stops again during recovery, the disk holds all the updates of *)
(* a system call or none.                                                  *)
AtomicSpec == Atomic!Spec

(* When no system call and no commit is running, everything written is     *)
(* durable: a process whose end_op() was the last one finds its updates on *)
(* the disk when end_op() returns.                                         *)
QuiescentDurable ==
  pc[Boot] = "up" /\ outstanding = 0 /\ ~committing => Stable = cache

(* bget() may recycle any buffer that the log has not pinned: the disk has *)
(* the same contents at home, even half way through install_trans().       *)
UnpinnedClean == \A b \in Blocks : pins[b] = 0 => cache[b] = home[b]

(* log_write() of a system call in progress does not panic, whatever the   *)
(* others wrote before it, when system calls stay below MAXOPBLOCKS.       *)
LogFits == outstanding > 0 => ~LogFull

(* A system call that has written less than the MAXOPBLOCKS that begin_op()*)
(* reserved for it may write one more block.                               *)
ReservationHonoured ==
  \A o \in Active : Cardinality(wrote[o]) < MAXOPBLOCKS => ~LogFull

(* What the running system calls may still write, one by one.              *)
Reserved == {r \in Active \X (1 .. MAXOPBLOCKS) : r[2] > Cardinality(wrote[r[1]])}

(* When log_write() would panic, no more than one block is left of all     *)
(* that begin_op() has reserved for the running system calls.              *)
AllButOneFits == LogFull => Cardinality(Reserved) <= 1

(* Sleepers in begin_op() have a reason to sleep and somebody to wake      *)
(* them: no wakeup(&log) is missing.                                       *)
SleeperHasWaker ==
  \A o \in Ops : pc[o] = "sleeping" => committing \/ (outstanding > 0 /\ NoRoom)

(* A process that sleeps in begin_op() is woken in the end.                *)
SleeperWakes == \A o \in Ops : pc[o] = "sleeping" ~> pc[o] # "sleeping"

=============================================================================
