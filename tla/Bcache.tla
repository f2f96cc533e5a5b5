------------------------------- MODULE Bcache -------------------------------
(***************************************************************************)
(* The buffer cache of kernel/bio.c with the sleep locks of                *)
(* kernel/sleeplock.c, over a disk that behaves as BlockDev (which Virtio  *)
(* implements).  Sections of bcache.lock and of a sleep lock's spinlock    *)
(* are one action each.  A process reads a block, changes the buffer,      *)
(* writes it, pins and unpins it as log.c does, and releases it.           *)
(***************************************************************************)
EXTENDS Naturals, Sequences, FiniteSets

CONSTANTS
  Procs,     \* processes that use blocks
  Bufs,      \* the NBUF struct bufs
  Blocks,    \* block numbers
  Vals,      \* contents of a block
  None       \* no block, no process, no request

ASSUME NoneAssumption == None \notin Procs \cup Bufs \cup Blocks
ASSUME FiniteAssumption == IsFiniteSet(Procs) /\ IsFiniteSet(Bufs)

VARIABLES
  disk, data, req, done,            \* the disk, b->data and the requests: BlockDev
  lru,                              \* the list, most recently used first
  blockno, valid, refcnt,           \* fields of each struct buf
  owner,                            \* the process that has b->lock, or None
  pinned,                           \* the blocks with a bpin()
  panicked,                         \* bget() found no buffer
  pc, cur, want                     \* each process: where it is, its buffer and block

devVars == <<disk, data, req, done>>
bufVars == <<lru, blockno, valid, refcnt>>
vars == <<devVars, bufVars, owner, pinned, panicked, pc, cur, want>>

Dev == INSTANCE BlockDev

HoldPcs == {"read", "reading", "hold", "writing"}

Goto(p, l) == pc' = [pc EXCEPT ![p] = l]

-----------------------------------------------------------------------------
(* bget().                                                                 *)

Cached(k) == {b \in Bufs : blockno[b] = k}

(* bget() has chosen buffer b for p.                                       *)
Take(p, b, k) ==
  /\ cur' = [cur EXCEPT ![p] = b]
  /\ want' = [want EXCEPT ![p] = k]
  /\ Goto(p, "lock")
  /\ UNCHANGED <<devVars, lru, owner, pinned, panicked>>

(* "Is the block already cached?"  The first match in the list.            *)
BgetHit(p, k) ==
  /\ ~panicked /\ pc[p] = "idle"
  /\ \E i \in 1 .. Len(lru) :
       LET b == lru[i] IN
       /\ blockno[b] = k
       /\ \A j \in 1 .. i - 1 : blockno[lru[j]] # k
       /\ refcnt' = [refcnt EXCEPT ![b] = @ + 1]
       /\ Take(p, b, k)
  /\ UNCHANGED <<blockno, valid>>

Unused(b) == refcnt[b] = 0

(* Mutant: any buffer that is not locked is recycled.                      *)
RecycledUnlocked(i) == owner[lru[i]] = None

(* The entry of the list that is recycled: the last unused one.            *)
Recycled(i) == Unused(lru[i]) /\ \A j \in i + 1 .. Len(lru) : ~Unused(lru[j])

(* Mutant: the buffer keeps the valid flag of its old block.               *)
RecycleStale(b, k) ==
  /\ blockno' = [blockno EXCEPT ![b] = k]
  /\ refcnt' = [refcnt EXCEPT ![b] = 1]
  /\ UNCHANGED valid

Recycle(b, k) ==
  /\ blockno' = [blockno EXCEPT ![b] = k]
  /\ valid' = [valid EXCEPT ![b] = FALSE]
  /\ refcnt' = [refcnt EXCEPT ![b] = 1]

BgetMiss(p, k) ==
  /\ ~panicked /\ pc[p] = "idle"
  /\ Cached(k) = {}
  /\ \E i \in 1 .. Len(lru) :
       /\ Recycled(i)
       /\ Recycle(lru[i], k)
       /\ Take(p, lru[i], k)

(* panic("bget: no buffers").                                              *)
BgetPanic(p, k) ==
  /\ ~panicked /\ pc[p] = "idle"
  /\ Cached(k) = {} /\ \A b \in Bufs : ~Unused(b)
  /\ panicked' = TRUE
  /\ UNCHANGED <<devVars, bufVars, owner, pinned, pc, cur, want>>

-----------------------------------------------------------------------------
(* acquiresleep() at the end of bget(), and the test of b->valid in        *)
(* bread().                                                                *)
AcquireSleep(p) ==
  LET b == cur[p] IN
  /\ ~panicked /\ pc[p] = "lock"
  /\ owner[b] = None
  /\ owner' = [owner EXCEPT ![b] = p]
  /\ Goto(p, IF valid[b] THEN "hold" ELSE "read")
  /\ UNCHANGED <<devVars, bufVars, pinned, panicked, cur, want>>

SleepOnLock(p) ==
  /\ ~panicked /\ pc[p] = "lock"
  /\ owner[cur[p]] # None
  /\ Goto(p, "sleep_lock")
  /\ UNCHANGED <<devVars, bufVars, owner, pinned, panicked, cur, want>>

(* kill() makes a sleeper RUNNABLE; acquiresleep() looks again.            *)
KillWake(p) ==
  /\ ~panicked /\ pc[p] = "sleep_lock"
  /\ Goto(p, "lock")
  /\ UNCHANGED <<devVars, bufVars, owner, pinned, panicked, cur, want>>

(* bread(): virtio_disk_rw(b, 0).                                          *)
BreadStart(p) ==
  LET b == cur[p] IN
  /\ ~panicked /\ pc[p] = "read"
  /\ Dev!Start(p, [buf |-> b, block |-> blockno[b], write |-> FALSE], data[b])
  /\ Goto(p, "reading")
  /\ UNCHANGED <<bufVars, owner, pinned, panicked, cur, want>>

BreadDone(p) ==
  /\ ~panicked /\ pc[p] = "reading"
  /\ Dev!Return(p)
  /\ valid' = [valid EXCEPT ![cur[p]] = TRUE]
  /\ Goto(p, "hold")
  /\ UNCHANGED <<lru, blockno, refcnt, owner, pinned, panicked, cur, want>>

-----------------------------------------------------------------------------
(* What the holder of a locked buffer does.                                *)

Modify(p, v) ==
  /\ ~panicked /\ pc[p] = "hold"
  /\ data' = [data EXCEPT ![cur[p]] = v]
  /\ UNCHANGED <<disk, req, done, bufVars, owner, pinned, panicked, pc, cur, want>>

(* bwrite(): virtio_disk_rw(b, 1).                                         *)
BwriteStart(p) ==
  LET b == cur[p] IN
  /\ ~panicked /\ pc[p] = "hold"
  /\ Dev!Start(p, [buf |-> b, block |-> blockno[b], write |-> TRUE], data[b])
  /\ Goto(p, "writing")
  /\ UNCHANGED <<bufVars, owner, pinned, panicked, cur, want>>

BwriteDone(p) ==
  /\ ~panicked /\ pc[p] = "writing"
  /\ Dev!Return(p)
  /\ Goto(p, "hold")
  /\ UNCHANGED <<bufVars, owner, pinned, panicked, cur, want>>

(* Mutant: bpin() leaves refcnt alone.                                     *)
BpinUncounted(p) ==
  /\ ~panicked /\ pc[p] = "hold" /\ want[p] \notin pinned
  /\ pinned' = pinned \cup {want[p]}
  /\ UNCHANGED <<devVars, bufVars, owner, panicked, pc, cur, want>>

Bpin(p) ==
  /\ ~panicked /\ pc[p] = "hold" /\ want[p] \notin pinned
  /\ refcnt' = [refcnt EXCEPT ![cur[p]] = @ + 1]
  /\ pinned' = pinned \cup {want[p]}
  /\ UNCHANGED <<devVars, lru, blockno, valid, owner, panicked, pc, cur, want>>

Bunpin(p) ==
  /\ ~panicked /\ pc[p] = "hold" /\ want[p] \in pinned
  /\ refcnt' = [refcnt EXCEPT ![cur[p]] = @ - 1]
  /\ pinned' = pinned \ {want[p]}
  /\ UNCHANGED <<devVars, lru, blockno, valid, owner, panicked, pc, cur, want>>

-----------------------------------------------------------------------------
(* brelse().                                                               *)

(* Mutant: only the lock is given back, nobody is woken.                   *)
ReleaseSleepQuiet(p) ==
  /\ ~panicked /\ pc[p] = "hold"
  /\ owner' = [owner EXCEPT ![cur[p]] = None]
  /\ Goto(p, "brelse")
  /\ UNCHANGED <<devVars, bufVars, pinned, panicked, cur, want>>

(* releasesleep().                                                         *)
ReleaseSleep(p) ==
  /\ ~panicked /\ pc[p] = "hold"
  /\ owner' = [owner EXCEPT ![cur[p]] = None]
  /\ pc' = [q \in Procs |->
              IF q = p THEN "brelse"
              ELSE IF pc[q] = "sleep_lock" /\ cur[q] = cur[p] THEN "lock" ELSE pc[q]]
  /\ UNCHANGED <<devVars, bufVars, pinned, panicked, cur, want>>

MoveToFront(b) ==
  LET i == CHOOSE n \in DOMAIN lru : lru[n] = b
  IN [n \in 1 .. Len(lru) |-> IF n = 1 THEN b ELSE IF n <= i THEN lru[n - 1] ELSE lru[n]]

(* refcnt-- and, when nobody is waiting, to the head of the list.          *)
Brelse(p) ==
  LET b == cur[p] IN
  /\ ~panicked /\ pc[p] = "brelse"
  /\ refcnt' = [refcnt EXCEPT ![b] = @ - 1]
  /\ lru' = IF refcnt[b] = 1 THEN MoveToFront(b) ELSE lru
  /\ cur' = [cur EXCEPT ![p] = None]
  /\ want' = [want EXCEPT ![p] = None]
  /\ Goto(p, "idle")
  /\ UNCHANGED <<devVars, blockno, valid, owner, pinned, panicked>>

-----------------------------------------------------------------------------
(* The disk carries out a request.                                         *)
Transfer(p) ==
  /\ ~panicked
  /\ Dev!Transfer(p)
  /\ UNCHANGED <<bufVars, owner, pinned, panicked, pc, cur, want>>

(* binit(): a list of all buffers, none of which caches a block.           *)
Init ==
  /\ disk \in [Blocks -> Vals]
  /\ \E v \in Vals : data = [b \in Bufs |-> v]
  /\ req = [p \in Procs |-> None] /\ done = {}
  /\ lru = CHOOSE s \in [1 .. Cardinality(Bufs) -> Bufs] : {s[i] : i \in DOMAIN s} = Bufs
  /\ blockno = [b \in Bufs |-> None]
  /\ valid = [b \in Bufs |-> FALSE]
  /\ refcnt = [b \in Bufs |-> 0]
  /\ owner = [b \in Bufs |-> None]
  /\ pinned = {} /\ panicked = FALSE
  /\ pc = [p \in Procs |-> "idle"]
  /\ cur = [p \in Procs |-> None]
  /\ want = [p \in Procs |-> None]

LockStep(p) == AcquireSleep(p) \/ SleepOnLock(p)

IoStep(p) == BreadStart(p) \/ BreadDone(p) \/ BwriteDone(p) \/ Transfer(p)

HolderStep(p) == BwriteStart(p) \/ Bpin(p) \/ Bunpin(p) \/ \E v \in Vals : Modify(p, v)

Next ==
  \E p \in Procs :
    \/ \E k \in Blocks : BgetHit(p, k) \/ BgetMiss(p, k) \/ BgetPanic(p, k)
    \/ LockStep(p) \/ IoStep(p) \/ HolderStep(p)
    \/ ReleaseSleep(p) \/ Brelse(p) \/ KillWake(p)

Spec == Init /\ [][Next]_vars

-----------------------------------------------------------------------------
(* Properties.                                                             *)

(* A block is in one buffer at most, and the buffer that a process waits   *)
(* for or uses is not given to another block under it.                     *)
OneBuffer ==
  /\ \A k \in Blocks : Cardinality(Cached(k)) <= 1
  /\ \A p \in Procs : cur[p] # None => blockno[cur[p]] = want[p]

(* b->refcnt counts the processes between bget() and the end of brelse(),  *)
(* and the pin: a buffer is neither leaked nor recycled in use.            *)
RefExact ==
  \A b \in Bufs : refcnt[b] = Cardinality({p \in Procs : cur[p] = b})
                                + Cardinality(pinned \cap {blockno[b]})

(* What BlockCache sees of the buffers.                                    *)
Cache == [k \in Blocks |-> IF \E b \in Bufs : blockno[b] = k /\ valid[b]
                           THEN data[CHOOSE b \in Bufs : blockno[b] = k /\ valid[b]]
                           ELSE disk[k]]

Holder == [k \in Blocks |-> IF \E b \in Bufs : blockno[b] = k /\ owner[b] # None
                            THEN owner[CHOOSE b \in Bufs : blockno[b] = k /\ owner[b] # None]
                            ELSE None]

BC == INSTANCE BlockCache WITH cache <- Cache, holder <- Holder

(* The cache is coherent: bread() returns what the last holder left, or    *)
(* what is on the disk for a block that nobody held or pinned since; only  *)
(* the holder of b->lock changes or writes the block.                      *)
CacheSpec == BC!Spec

(* A sleeper in acquiresleep() waits for somebody who has the lock and     *)
(* whose releasesleep() will wake it.                                      *)
SleeperHasHolder == \A p \in Procs : pc[p] = "sleep_lock" => owner[cur[p]] # None

=============================================================================
