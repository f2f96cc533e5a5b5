---------------------------- MODULE BcacheProofs ----------------------------
(***************************************************************************)
(* For any number of processes, buffers and blocks, the buffer cache keeps *)
(* a block in one buffer, counts the references to it exactly, and lets    *)
(* nobody sleep for a lock that is free.  With any number of values too,   *)
(* it implements BlockCache, over a disk that behaves as BlockDev.         *)
(***************************************************************************)
EXTENDS Bcache, Integers, TLAPS

Pcs == {"idle", "lock", "sleep_lock", "brelse"} \cup HoldPcs

BufType ==
  /\ lru \in Seq(Bufs)
  /\ blockno \in [Bufs -> Blocks \cup {None}]
  /\ refcnt \in [Bufs -> Int]
  /\ owner \in [Bufs -> Procs \cup {None}]
  /\ pinned \subseteq Blocks
  /\ pc \in [Procs -> Pcs]
  /\ cur \in [Procs -> Bufs \cup {None}]
  /\ want \in [Procs -> Blocks \cup {None}]

(* Where a process is tells whether it has a buffer and its lock.          *)
UseInv ==
  \A p \in Procs :
    /\ pc[p] = "idle" <=> cur[p] = None
    /\ cur[p] # None => want[p] = blockno[cur[p]] /\ want[p] \in Blocks
    /\ pc[p] \in HoldPcs => owner[cur[p]] = p
    /\ pc[p] = "sleep_lock" => owner[cur[p]] # None

(* Buffers have different blocks, and every pinned block has one.          *)
BlockInv ==
  /\ \A b, c \in Bufs : blockno[b] = blockno[c] /\ blockno[b] # None => b = c
  /\ \A k \in pinned : \E b \in Bufs : blockno[b] = k

Users(b) == {p \in Procs : cur[p] = b}

RefInv ==
  \A b \in Bufs : refcnt[b] = Cardinality(Users(b)) + (IF blockno[b] \in pinned THEN 1 ELSE 0)

CacheInv == BufType /\ UseInv /\ BlockInv /\ RefInv

(* What Cardinality does on the sets of processes.                         *)
CardLaws ==
  \A S \in SUBSET Procs :
    /\ Cardinality(S) \in Nat /\ (Cardinality(S) = 0 => S = {})
    /\ \A x \in Procs \ S : Cardinality(S \cup {x}) = Cardinality(S) + 1
    /\ \A x \in S : Cardinality(S \ {x}) = Cardinality(S) - 1

-----------------------------------------------------------------------------
(* The parts of CacheInv.                                                  *)
LEMMA CacheParts == CacheInv => BufType /\ UseInv /\ BlockInv /\ RefInv
  BY Zenon DEF CacheInv

(* The users of a buffer, and none when it counts none.                    *)
LEMMA UsersFinite ==
    ASSUME CardLaws, NEW b
    PROVE /\ Users(b) \in SUBSET Procs /\ Cardinality(Users(b)) \in Nat
          /\ Cardinality(Users(b)) = 0 => \A p \in Procs : cur[p] # b
  <1>1. Users(b) \in SUBSET Procs
    BY Zenon DEF Users
  <1>2. Cardinality(Users(b)) \in Nat /\ (Cardinality(Users(b)) = 0 => Users(b) = {})
    BY Zenon, <1>1 DEF CardLaws
  <1> QED
    BY Zenon, <1>1, <1>2 DEF Users

(* bget() adds one user to one buffer.                                     *)
LEMMA UsersTake ==
    ASSUME CardLaws, BufType, NEW p \in Procs, NEW b \in Bufs, cur[p] = None,
           cur' = [cur EXCEPT ![p] = b], NEW d \in Bufs
    PROVE Cardinality(Users(d)') = Cardinality(Users(d)) + (IF d = b THEN 1 ELSE 0)
  <1>0. None \notin Bufs
    BY NoneAssumption
  <1>1. Users(d)' = IF d = b THEN Users(d) \cup {p} ELSE Users(d)
    BY <1>0 DEF Users, BufType
  <1>2. p \notin Users(d)
    BY <1>0 DEF Users
  <1>3. Cardinality(Users(d) \cup {p}) = Cardinality(Users(d)) + 1
    BY Zenon, <1>2, UsersFinite DEF CardLaws
  <1>4. Cardinality(Users(d)) \in Nat
    BY UsersFinite
  <1> QED
    BY <1>1, <1>3, <1>4

(* brelse() takes one away.                                                *)
LEMMA UsersDrop ==
    ASSUME CardLaws, BufType, NEW p \in Procs, cur[p] # None,
           cur' = [cur EXCEPT ![p] = None], NEW d \in Bufs
    PROVE Cardinality(Users(d)') = Cardinality(Users(d)) - (IF d = cur[p] THEN 1 ELSE 0)
  <1>0. None \notin Bufs
    BY NoneAssumption
  <1>1. Users(d)' = IF d = cur[p] THEN Users(d) \ {p} ELSE Users(d)
    BY <1>0 DEF Users, BufType
  <1>2. d = cur[p] => Cardinality(Users(d) \ {p}) = Cardinality(Users(d)) - 1
    <2>1. d = cur[p] => p \in Users(d)
      BY DEF Users
    <2> QED
      BY Zenon, <2>1, UsersFinite DEF CardLaws
  <1>4. Cardinality(Users(d)) \in Nat
    BY UsersFinite
  <1> QED
    BY <1>1, <1>2, <1>4

(* References depend on refcnt, blockno, pinned and the users only.        *)
LEMMA RefSame ==
    ASSUME RefInv, UNCHANGED <<refcnt, blockno, pinned, cur>>
    PROVE RefInv'
  BY DEF RefInv, Users

(* A block that is in a buffer: one more reference.                        *)
LEMMA HitNext ==
    ASSUME CardLaws, CacheInv, NEW p \in Procs, NEW k \in Blocks, BgetHit(p, k)
    PROVE CacheInv'
  <1> USE CacheParts
  <1>0. None \notin Bufs /\ None \notin Procs /\ None \notin Blocks
    BY NoneAssumption
  <1>1. PICK i \in 1 .. Len(lru) :
          /\ blockno[lru[i]] = k
          /\ refcnt' = [refcnt EXCEPT ![lru[i]] = @ + 1]
          /\ Take(p, lru[i], k)
    BY Zenon DEF BgetHit
  <1> DEFINE b == lru[i]
  <1>2. b \in Bufs /\ cur[p] = None /\ pc[p] = "idle"
    BY <1>1 DEF BgetHit, BufType, UseInv
  <1>3. /\ cur' = [cur EXCEPT ![p] = b] /\ want' = [want EXCEPT ![p] = k]
        /\ pc' = [pc EXCEPT ![p] = "lock"]
        /\ UNCHANGED <<lru, owner, pinned, blockno>>
    BY Zenon, <1>1 DEF BgetHit, Take, Goto
  <1> HIDE DEF b
  <1>4. refcnt' = [refcnt EXCEPT ![b] = @ + 1] /\ blockno[b] = k
    BY <1>1 DEF b
  <1>5. BufType'
    BY <1>2, <1>3, <1>4 DEF BufType, Pcs, HoldPcs
  <1>6. UseInv'
    BY <1>0, <1>2, <1>3, <1>4 DEF UseInv, BufType, Pcs, HoldPcs
  <1>7. BlockInv'
    BY <1>3 DEF BlockInv
  <1>8. RefInv'
    <2> SUFFICES ASSUME NEW d \in Bufs
                 PROVE refcnt'[d] = Cardinality(Users(d)') + (IF blockno'[d] \in pinned' THEN 1 ELSE 0)
      BY DEF RefInv
    <2>1. Cardinality(Users(d)') = Cardinality(Users(d)) + (IF d = b THEN 1 ELSE 0)
      BY Zenon, <1>2, <1>3, UsersTake
    <2>2. Cardinality(Users(d)) \in Nat
      BY UsersFinite
    <2> QED
      BY SMTT(60), <2>1, <2>2, <1>2, <1>3, <1>4 DEF RefInv, BufType
  <1> QED
    BY Zenon, <1>5, <1>6, <1>7, <1>8 DEF CacheInv

(* A block that is in none: an unused buffer changes its block.  Nobody    *)
(* uses or has pinned the old one, and nobody has pinned the new one.      *)
LEMMA MissNext ==
    ASSUME CardLaws, CacheInv, NEW p \in Procs, NEW k \in Blocks, BgetMiss(p, k)
    PROVE CacheInv'
  <1> USE CacheParts
  <1>0. None \notin Bufs /\ None \notin Procs /\ None \notin Blocks
    BY NoneAssumption
  <1>1. PICK i \in 1 .. Len(lru) : Recycled(i) /\ Recycle(lru[i], k) /\ Take(p, lru[i], k)
    BY DEF BgetMiss
  <1> DEFINE b == lru[i]
  <1>2. b \in Bufs /\ cur[p] = None /\ pc[p] = "idle" /\ refcnt[b] = 0
    BY <1>1 DEF BgetMiss, BufType, UseInv, Recycled, Unused
  <1>3. /\ cur' = [cur EXCEPT ![p] = b] /\ want' = [want EXCEPT ![p] = k]
        /\ pc' = [pc EXCEPT ![p] = "lock"]
        /\ blockno' = [blockno EXCEPT ![b] = k] /\ refcnt' = [refcnt EXCEPT ![b] = 1]
        /\ UNCHANGED <<lru, owner, pinned>>
    BY Zenon, <1>1 DEF BgetMiss, Take, Goto, Recycle
  <1> HIDE DEF b
  <1>4. \A d \in Bufs : blockno[d] # k
    BY DEF BgetMiss, Cached
  <1>5. /\ Cardinality(Users(b)) = 0 /\ blockno[b] \notin pinned
        /\ \A q \in Procs : cur[q] # b
    <2>1. Cardinality(Users(b)) \in Nat
      BY UsersFinite
    <2>2. Cardinality(Users(b)) = 0 /\ blockno[b] \notin pinned
      BY <1>2, <2>1 DEF RefInv
    <2> QED
      BY <2>2, UsersFinite
  <1>6. k \notin pinned
    BY <1>4 DEF BlockInv
  <1>7. BufType'
    BY <1>2, <1>3 DEF BufType, Pcs, HoldPcs
  <1>8. UseInv'
    BY <1>0, <1>2, <1>3, <1>5 DEF UseInv, BufType, Pcs, HoldPcs
  <1>9. BlockInv'
    BY SMTT(60), <1>2, <1>3, <1>4, <1>5 DEF BlockInv, BufType
  <1>10. RefInv'
    <2> SUFFICES ASSUME NEW d \in Bufs
                 PROVE refcnt'[d] = Cardinality(Users(d)') + (IF blockno'[d] \in pinned' THEN 1 ELSE 0)
      BY DEF RefInv
    <2>1. Cardinality(Users(d)') = Cardinality(Users(d)) + (IF d = b THEN 1 ELSE 0)
      BY Zenon, <1>2, <1>3, UsersTake
    <2>2. Cardinality(Users(d)) \in Nat
      BY UsersFinite
    <2>3. CASE d = b
      <3>1. refcnt'[d] = 1 /\ blockno'[d] = k
        BY <2>3, <1>3 DEF BufType
      <3> QED
        BY <3>1, <2>1, <2>3, <1>3, <1>5, <1>6
    <2>4. CASE d # b
      <3>1. refcnt'[d] = refcnt[d] /\ blockno'[d] = blockno[d]
        BY <2>4, <1>3 DEF BufType
      <3> QED
        BY <3>1, <2>1, <2>2, <2>4, <1>3 DEF RefInv
    <2> QED
      BY <2>3, <2>4
  <1> QED
    BY Zenon, <1>7, <1>8, <1>9, <1>10 DEF CacheInv

(* bpin() and bunpin() by the holder: the block is in the holder's buffer  *)
(* and in no other.                                                        *)
LEMMA PinNext ==
    ASSUME CardLaws, CacheInv, NEW p \in Procs, Bpin(p) \/ Bunpin(p)
    PROVE CacheInv'
  <1> USE CacheParts
  <1> DEFINE b == cur[p]
             k == want[p]
  <1>1. b \in Bufs /\ k \in Blocks /\ blockno[b] = k
    BY NoneAssumption DEF Bpin, Bunpin, UseInv, BufType
  <1>2. \A d \in Bufs : blockno[d] = k <=> d = b
    BY <1>1, NoneAssumption DEF BlockInv
  <1>3. UNCHANGED <<lru, blockno, owner, pc, cur, want>>
    BY SMTT(60) DEF Bpin, Bunpin
  <1>4. \/ /\ k \notin pinned /\ pinned' = pinned \cup {k}
           /\ refcnt' = [refcnt EXCEPT ![b] = @ + 1]
        \/ /\ k \in pinned /\ pinned' = pinned \ {k}
           /\ refcnt' = [refcnt EXCEPT ![b] = @ - 1]
    BY SMTT(60) DEF Bpin, Bunpin
  <1> HIDE DEF b, k
  <1>5. BufType'
    BY SMTT(60), <1>1, <1>3, <1>4 DEF BufType
  <1>6. UseInv'
    BY SMTT(60), <1>3 DEF UseInv
  <1>7. BlockInv'
    BY <1>1, <1>3, <1>4 DEF BlockInv
  <1>8. RefInv'
    <2> SUFFICES ASSUME NEW d \in Bufs
                 PROVE refcnt'[d] = Cardinality(Users(d)') + (IF blockno'[d] \in pinned' THEN 1 ELSE 0)
      BY DEF RefInv
    <2>1. Users(d)' = Users(d) /\ Cardinality(Users(d)) \in Nat
      <3>1. Users(d)' = Users(d)
        BY Zenon, <1>3 DEF Users
      <3> QED
        BY Zenon, <3>1, UsersFinite
    <2>2. refcnt[d] = Cardinality(Users(d)) + (IF blockno[d] \in pinned THEN 1 ELSE 0)
      BY DEF RefInv
    <2>3. CASE d = b
      <3>1. blockno'[d] = k /\ blockno[d] = k
        BY <2>3, <1>1, <1>3
      <3>2. \/ k \notin pinned /\ k \in pinned' /\ refcnt'[d] = refcnt[d] + 1
            \/ k \in pinned /\ k \notin pinned' /\ refcnt'[d] = refcnt[d] - 1
        BY <2>3, <1>4 DEF BufType
      <3> QED
        BY SMTT(60), <3>1, <3>2, <2>1, <2>2
    <2>4. CASE d # b
      <3>1. blockno'[d] = blockno[d] /\ blockno[d] # k
        BY <2>4, <1>2, <1>3
      <3>2. refcnt'[d] = refcnt[d] /\ (blockno[d] \in pinned' <=> blockno[d] \in pinned)
        BY <3>1, <2>4, <1>4 DEF BufType
      <3> QED
        BY <3>1, <3>2, <2>1, <2>2
    <2> QED
      BY SMTT(60), <2>3, <2>4
  <1> QED
    BY Zenon, <1>5, <1>6, <1>7, <1>8 DEF CacheInv

(* The end of brelse().                                                    *)
LEMMA BrelseNext ==
    ASSUME CardLaws, CacheInv, NEW p \in Procs, Brelse(p)
    PROVE CacheInv'
  <1> USE CacheParts
  <1>0. None \notin Bufs /\ None \notin Procs /\ None \notin Blocks
    BY NoneAssumption
  <1>1. cur[p] \in Bufs /\ cur[p] # None
    BY DEF Brelse, UseInv, BufType
  <1>2. /\ cur' = [cur EXCEPT ![p] = None] /\ want' = [want EXCEPT ![p] = None]
        /\ pc' = [pc EXCEPT ![p] = "idle"] /\ refcnt' = [refcnt EXCEPT ![cur[p]] = @ - 1]
        /\ UNCHANGED <<owner, blockno, pinned>>
    BY DEF Brelse, Goto
  <1>3. lru' \in Seq(Bufs)
    <2>1. MoveToFront(cur[p]) \in Seq(Bufs)
      <3>1. ASSUME NEW i PROVE [n \in 1 .. Len(lru) |->
                IF n = 1 THEN cur[p] ELSE IF n <= i THEN lru[n - 1] ELSE lru[n]] \in Seq(Bufs)
        BY <1>1 DEF BufType
      <3> QED
        BY <3>1 DEF MoveToFront
    <2> QED
      BY <2>1 DEF Brelse, BufType
  <1>4. BufType'
    BY <1>1, <1>2, <1>3 DEF BufType, Pcs, HoldPcs
  <1>5. UseInv'
    BY <1>0, <1>1, <1>2 DEF UseInv, BufType, Pcs, HoldPcs
  <1>6. BlockInv'
    BY <1>2 DEF BlockInv
  <1>7. RefInv'
    <2> SUFFICES ASSUME NEW d \in Bufs
                 PROVE refcnt'[d] = Cardinality(Users(d)') + (IF blockno'[d] \in pinned' THEN 1 ELSE 0)
      BY DEF RefInv
    <2>1. Cardinality(Users(d)') = Cardinality(Users(d)) - (IF d = cur[p] THEN 1 ELSE 0)
      BY Zenon, <1>1, <1>2, UsersDrop
    <2>2. Cardinality(Users(d)) \in Nat
      BY UsersFinite
    <2> QED
      BY SMTT(60), <2>1, <2>2, <1>1, <1>2 DEF RefInv, BufType
  <1> QED
    BY Zenon, <1>4, <1>5, <1>6, <1>7 DEF CacheInv

(* Every step keeps the invariant.                                         *)
LEMMA CacheNext == CardLaws /\ CacheInv /\ [Next]_vars => CacheInv'
  <1> SUFFICES ASSUME CardLaws, CacheInv, [Next]_vars PROVE CacheInv'
    OBVIOUS
  <1>0. None \notin Bufs /\ None \notin Procs /\ None \notin Blocks
    BY NoneAssumption
  <1>1. CASE UNCHANGED vars
    BY SMTT(60), <1>1, RefSame DEF vars, bufVars, CacheInv, BufType, UseInv, BlockInv
  <1>2. ASSUME NEW p \in Procs, NEW k \in Blocks, BgetPanic(p, k) PROVE CacheInv'
    BY <1>2, RefSame DEF BgetPanic, bufVars, CacheInv, BufType, UseInv, BlockInv
  <1>3. ASSUME NEW p \in Procs, AcquireSleep(p) PROVE CacheInv'
    <2>1. cur[p] \in Bufs
      BY <1>3, CacheParts DEF AcquireSleep, UseInv, BufType
    <2>2. /\ owner[cur[p]] = None /\ owner' = [owner EXCEPT ![cur[p]] = p]
          /\ pc[p] = "lock" /\ \E l \in {"hold", "read"} : pc' = [pc EXCEPT ![p] = l]
          /\ UNCHANGED <<lru, blockno, refcnt, pinned, cur, want>>
      BY Zenon, <1>3 DEF AcquireSleep, Goto, bufVars
    <2>3. BufType'
      BY <2>1, <2>2, CacheParts DEF BufType, Pcs, HoldPcs
    <2>4. UseInv'
      BY <1>0, <2>1, <2>2, CacheParts DEF UseInv, BufType, Pcs, HoldPcs
    <2> QED
      BY SMTT(60), <2>2, <2>3, <2>4, RefSame DEF CacheInv, BlockInv
  <1>4. ASSUME NEW p \in Procs, ReleaseSleep(p) PROVE CacheInv'
    <2>1. cur[p] \in Bufs /\ owner[cur[p]] = p
      BY <1>4, CacheParts DEF ReleaseSleep, UseInv, BufType, HoldPcs
    <2>2. BufType'
      BY <1>4, <2>1, CacheParts DEF ReleaseSleep, bufVars, BufType, Pcs, HoldPcs
    <2>3. ASSUME NEW q \in Procs
          PROVE /\ pc'[q] = "idle" <=> pc[q] = "idle"
                /\ pc'[q] \in HoldPcs => pc[q] \in HoldPcs /\ q # p
                /\ pc'[q] = "sleep_lock" => pc[q] = "sleep_lock" /\ cur[q] # cur[p]
      BY <1>4, <2>3 DEF ReleaseSleep, HoldPcs
    <2>4. UseInv'
      <3> SUFFICES ASSUME NEW q \in Procs
                   PROVE /\ pc'[q] = "idle" <=> cur[q] = None
                         /\ cur[q] # None => want[q] = blockno[cur[q]] /\ want[q] \in Blocks
                         /\ pc'[q] \in HoldPcs => owner'[cur[q]] = q
                         /\ pc'[q] = "sleep_lock" => owner'[cur[q]] # None
        BY SMTT(60), <1>4 DEF UseInv, ReleaseSleep, bufVars
      <3>1. owner' = [owner EXCEPT ![cur[p]] = None]
        BY <1>4 DEF ReleaseSleep
      <3>2. q # p /\ pc[q] \in HoldPcs => cur[q] # cur[p] /\ owner[cur[q]] = q
        BY <2>1, CacheParts DEF UseInv
      <3>3. pc'[q] \in HoldPcs => cur[q] \in Bufs /\ owner'[cur[q]] = q
        BY SMTT(60), <2>3, <3>1, <3>2, CacheParts DEF UseInv, BufType, HoldPcs
      <3>4. pc'[q] = "sleep_lock" => owner'[cur[q]] # None
        BY <2>3, <3>1, CacheParts DEF UseInv, BufType
      <3> QED
        BY SMTT(60), <2>3, <3>3, <3>4, CacheParts DEF UseInv
    <2> QED
      BY SMTT(60), <1>4, <2>2, <2>4, RefSame DEF ReleaseSleep, bufVars, CacheInv, BlockInv
  <1>5. ASSUME NEW p \in Procs, NEW l \in Pcs, NEW m \in Pcs, pc[p] = l, pc' = [pc EXCEPT ![p] = m],
               m # "idle" /\ l # "idle", m \in HoldPcs => l \in HoldPcs,
               m = "sleep_lock" => owner[cur[p]] # None,
               UNCHANGED <<lru, blockno, refcnt, owner, pinned, cur, want>>
        PROVE CacheInv'
    <2>1. BufType'
      BY <1>5, CacheParts DEF BufType
    <2>2. UseInv'
      BY SMTT(60), <1>5, CacheParts DEF UseInv, BufType
    <2> QED
      BY SMTT(60), <1>5, <2>1, <2>2, RefSame DEF CacheInv, BlockInv
  <1>6. ASSUME NEW p \in Procs, SleepOnLock(p) PROVE CacheInv'
    BY Zenon, <1>5, <1>6 DEF SleepOnLock, Goto, bufVars, Pcs, HoldPcs
  <1>7. ASSUME NEW p \in Procs, KillWake(p) PROVE CacheInv'
    BY Zenon, <1>5, <1>7 DEF KillWake, Goto, bufVars, Pcs, HoldPcs
  <1>8. ASSUME NEW p \in Procs, BreadStart(p) PROVE CacheInv'
    BY Zenon, <1>5, <1>8 DEF BreadStart, Goto, bufVars, Pcs, HoldPcs
  <1>9. ASSUME NEW p \in Procs, BreadDone(p) PROVE CacheInv'
    BY Zenon, <1>5, <1>9 DEF BreadDone, Goto, bufVars, Pcs, HoldPcs
  <1>10. ASSUME NEW p \in Procs, BwriteStart(p) PROVE CacheInv'
    BY Zenon, <1>5, <1>10 DEF BwriteStart, Goto, bufVars, Pcs, HoldPcs
  <1>11. ASSUME NEW p \in Procs, BwriteDone(p) PROVE CacheInv'
    BY Zenon, <1>5, <1>11 DEF BwriteDone, Goto, bufVars, Pcs, HoldPcs
  <1>12. ASSUME NEW p \in Procs, Transfer(p) \/ \E v \in Vals : Modify(p, v) PROVE CacheInv'
    BY SMTT(60), <1>12, RefSame DEF Transfer, Modify, bufVars, CacheInv, BufType, UseInv, BlockInv
  <1> QED
    BY Zenon, <1>1, <1>2, <1>3, <1>4, <1>6, <1>7, <1>8, <1>9, <1>10, <1>11, <1>12,
      HitNext, MissNext, PinNext, BrelseNext
    DEF Next, LockStep, IoStep, HolderStep

-----------------------------------------------------------------------------
(* What a buffer and the requests of the disk have to do with each other.  *)

DataType ==
  /\ valid \in [Bufs -> BOOLEAN]
  /\ data \in [Bufs -> Vals] /\ disk \in [Blocks -> Vals]
  /\ done \subseteq Procs

(* The owner of a lock is where it uses the buffer.                        *)
OwnInv == \A b \in Bufs : owner[b] # None => pc[owner[b]] \in HoldPcs /\ cur[owner[b]] = b

(* A buffer is valid when its holder has read it.                          *)
ValidInv ==
  /\ \A b \in Bufs : valid[b] => blockno[b] # None
  /\ \A p \in Procs : pc[p] \in {"hold", "writing"} => valid[cur[p]]
  /\ \A p \in Procs : pc[p] \in {"read", "reading"} => ~valid[cur[p]]

(* The requests of the disk are those of holders.                          *)
Request(p) ==
  IF pc[p] = "reading" THEN [buf |-> cur[p], block |-> want[p], write |-> FALSE]
  ELSE IF pc[p] = "writing" THEN [buf |-> cur[p], block |-> want[p], write |-> TRUE]
  ELSE None

ReqInv == req = [p \in Procs |-> Request(p)]

(* What has been read is in the buffer.                                    *)
DoneInv ==
  \A p \in done : /\ pc[p] \in {"reading", "writing"}
                  /\ pc[p] = "reading" => data[cur[p]] = disk[want[p]]

IoInv == DataType /\ OwnInv /\ ValidInv /\ ReqInv /\ DoneInv

(* The step of bget() that recycles a buffer: one with no user.            *)
Recycles(p, k) ==
  \E b \in Bufs :
    /\ blockno[b] \notin pinned /\ \A q \in Procs : cur[q] # b
    /\ cur' = [cur EXCEPT ![p] = b] /\ blockno' = [blockno EXCEPT ![b] = k]
    /\ valid' = [valid EXCEPT ![b] = FALSE]

(* The parts of IoInv.                                                     *)
LEMMA IoParts == IoInv => DataType /\ OwnInv /\ ValidInv /\ ReqInv /\ DoneInv
  BY Zenon DEF IoInv

(* binit() leaves no request at the disk and no buffer valid.              *)
LEMMA IoInit == Init => IoInv
  <1> SUFFICES ASSUME Init PROVE IoInv
    OBVIOUS
  <1>1. ReqInv
    BY DEF Init, ReqInv, Request
  <1> QED
    BY SMTT(60), <1>1 DEF Init, IoInv, DataType, OwnInv, ValidInv, DoneInv, HoldPcs

(* Nobody else uses the buffer that a process has locked.                  *)
LEMMA Exclusive ==
    ASSUME CacheInv, NEW p \in Procs, NEW q \in Procs, pc[p] \in HoldPcs, pc[q] \in HoldPcs,
           cur[p] = cur[q] \/ want[p] = want[q]
    PROVE p = q
  <1>1. cur[p] \in Bufs /\ cur[q] \in Bufs
    BY CacheParts DEF UseInv, BufType, HoldPcs
  <1>2. cur[p] = cur[q]
    BY <1>1, NoneAssumption, CacheParts DEF UseInv, BlockInv
  <1> QED
    BY <1>2, CacheParts DEF UseInv

(* bget() with a buffer that has the block.                                *)
LEMMA IoHit ==
    ASSUME CacheInv, IoInv, NEW p \in Procs, NEW k \in Blocks, BgetHit(p, k)
    PROVE IoInv'
  <1>1. PICK b : cur' = [cur EXCEPT ![p] = b]
    BY Zenon DEF BgetHit, Take
  <1>2. /\ pc[p] = "idle" /\ pc' = [pc EXCEPT ![p] = "lock"] /\ want' = [want EXCEPT ![p] = k]
        /\ UNCHANGED <<disk, data, req, done, blockno, valid, owner>>
    BY DEF BgetHit, Take, Goto, devVars
  <1>3. OwnInv'
    BY <1>1, <1>2, NoneAssumption, CacheParts, IoParts DEF BufType, OwnInv, HoldPcs
  <1>4. ValidInv'
    BY <1>1, <1>2, CacheParts, IoParts DEF BufType, ValidInv
  <1>5. ReqInv'
    BY Zenon, <1>1, <1>2, CacheParts, IoParts DEF BufType, ReqInv, Request
  <1>6. DoneInv' /\ DataType'
    BY <1>1, <1>2, CacheParts, IoParts DEF BufType, DoneInv, DataType
  <1> QED
    BY Zenon, <1>3, <1>4, <1>5, <1>6 DEF IoInv

(* bget() with a recycled buffer.                                          *)
LEMMA IoMiss ==
    ASSUME CacheInv, IoInv, NEW p \in Procs, NEW k \in Blocks, BgetMiss(p, k), Recycles(p, k)
    PROVE IoInv'
  <1>1. PICK b \in Bufs :
          /\ \A q \in Procs : cur[q] # b
          /\ cur' = [cur EXCEPT ![p] = b] /\ blockno' = [blockno EXCEPT ![b] = k]
          /\ valid' = [valid EXCEPT ![b] = FALSE]
    BY Zenon DEF Recycles
  <1>2. /\ pc[p] = "idle" /\ pc' = [pc EXCEPT ![p] = "lock"] /\ want' = [want EXCEPT ![p] = k]
        /\ UNCHANGED <<disk, data, req, done, owner>>
    BY DEF BgetMiss, Take, Goto, devVars
  <1>3. OwnInv'
    BY <1>1, <1>2, NoneAssumption, CacheParts, IoParts DEF BufType, OwnInv, HoldPcs
  <1>4. ValidInv'
    BY <1>1, <1>2, CacheParts, IoParts DEF BufType, UseInv, ValidInv, DataType
  <1>5. ReqInv'
    BY Zenon, <1>1, <1>2, CacheParts, IoParts DEF BufType, ReqInv, Request
  <1>6. DoneInv' /\ DataType'
    BY <1>1, <1>2, CacheParts, IoParts DEF BufType, DoneInv, DataType
  <1> QED
    BY Zenon, <1>3, <1>4, <1>5, <1>6 DEF IoInv

(* The sleep lock: the process that gets it sees whether the buffer is     *)
(* valid; the one that gives it back is done with the buffer.              *)
LEMMA IoLock ==
    ASSUME CacheInv, IoInv, NEW p \in Procs,
           AcquireSleep(p) \/ SleepOnLock(p) \/ KillWake(p) \/ ReleaseSleep(p)
    PROVE IoInv'
  <1>1. cur[p] \in Bufs
    BY SMTT(60), CacheParts DEF AcquireSleep, SleepOnLock, KillWake, ReleaseSleep, UseInv,
      BufType
  <1>2. UNCHANGED <<disk, data, req, done, blockno, valid, cur, want>>
    BY DEF AcquireSleep, SleepOnLock, KillWake, ReleaseSleep, devVars, bufVars
  <1>3. /\ pc[p] \notin {"reading", "writing"} /\ pc'[p] \notin {"reading", "writing"}
        /\ \A q \in Procs : pc'[q] \in HoldPcs /\ q # p => pc'[q] = pc[q]
        /\ \A q \in Procs : pc[q] \in HoldPcs /\ q # p => pc'[q] = pc[q]
    BY CacheParts DEF AcquireSleep, SleepOnLock, KillWake, ReleaseSleep, Goto, BufType, HoldPcs
  <1>4. \/ pc'[p] = IF valid[cur[p]] THEN "hold" ELSE "read"
        \/ pc'[p] \notin HoldPcs
    BY CacheParts DEF AcquireSleep, SleepOnLock, KillWake, ReleaseSleep, Goto, BufType, HoldPcs
  <1>5. OwnInv'
    <2>1. CASE AcquireSleep(p)
      <3>1. owner' = [owner EXCEPT ![cur[p]] = p] /\ pc'[p] \in HoldPcs /\ pc[p] = "lock"
        BY SMTT(60), <2>1, CacheParts DEF AcquireSleep, Goto, BufType, HoldPcs
      <3>2. owner \in [Bufs -> Procs \cup {None}] /\ pc[p] \notin HoldPcs
        BY Zenon, <3>1, CacheParts DEF BufType, HoldPcs
      <3> SUFFICES ASSUME NEW b \in Bufs, owner'[b] # None
                   PROVE pc'[owner'[b]] \in HoldPcs /\ cur[owner'[b]] = b
        BY Zenon, <1>2 DEF OwnInv
      <3>3. CASE b = cur[p]
        <4>1. owner'[b] = p
          BY SMTT(60), <3>1, <3>2, <3>3
        <4> QED
          BY Zenon, <3>1, <3>3, <4>1
      <3>4. CASE b # cur[p]
        <4>1. owner'[b] = owner[b] /\ owner[b] \in Procs
          BY SMTT(60), <3>1, <3>2, <3>4
        <4>2. pc[owner[b]] \in HoldPcs /\ cur[owner[b]] = b
          BY Zenon, <4>1, IoParts DEF OwnInv
        <4> QED
          BY Zenon, <1>3, <3>2, <4>1, <4>2
      <3> QED
        BY Zenon, <3>3, <3>4
    <2>2. CASE ReleaseSleep(p)
      <3>1. owner' = [owner EXCEPT ![cur[p]] = None]
        BY <2>2 DEF ReleaseSleep
      <3> SUFFICES ASSUME NEW b \in Bufs, owner'[b] # None
                   PROVE pc'[owner'[b]] \in HoldPcs /\ cur[owner'[b]] = b
        BY <1>2 DEF OwnInv
      <3>2. b # cur[p] /\ owner'[b] = owner[b] /\ owner[b] \in Procs
        BY <3>1, <1>1, CacheParts DEF BufType
      <3>3. pc[owner[b]] \in HoldPcs /\ cur[owner[b]] = b
        BY <3>2, IoParts DEF OwnInv
      <3> QED
        BY <3>2, <3>3, <1>3
    <2>3. CASE SleepOnLock(p) \/ KillWake(p)
      <3>1. owner' = owner /\ pc[p] \notin HoldPcs
        BY <2>3 DEF SleepOnLock, KillWake, HoldPcs
      <3> SUFFICES ASSUME NEW b \in Bufs, owner[b] # None
                   PROVE pc'[owner[b]] \in HoldPcs /\ cur[owner[b]] = b
        BY Zenon, <1>2, <3>1 DEF OwnInv
      <3>2. owner[b] \in Procs
        BY SMTT(60), CacheParts DEF BufType
      <3>3. pc[owner[b]] \in HoldPcs /\ cur[owner[b]] = b
        BY Zenon, IoParts DEF OwnInv
      <3> QED
        BY Zenon, <1>3, <3>1, <3>2, <3>3
    <2> QED
      BY <2>1, <2>2, <2>3
  <1>6. ValidInv'
    BY SMTT(60), <1>1, <1>2, <1>3, <1>4, IoParts DEF ValidInv, HoldPcs
  <1>7. \A q \in Procs : Request(q)' = Request(q)
    BY <1>2, <1>3 DEF Request, HoldPcs
  <1>8. ReqInv'
    BY SMTT(60), <1>2, <1>7, IoParts DEF ReqInv
  <1>9. DoneInv' /\ DataType'
    BY SMTT(60), <1>2, <1>3, IoParts DEF DoneInv, DataType, HoldPcs
  <1> QED
    BY Zenon, <1>5, <1>6, <1>8, <1>9 DEF IoInv

(* bread() and bwrite() hand the locked buffer to the disk.                *)
LEMMA IoStart ==
    ASSUME CacheInv, IoInv, NEW p \in Procs, BreadStart(p) \/ BwriteStart(p)
    PROVE IoInv'
  <1>1. cur[p] \in Bufs /\ blockno[cur[p]] = want[p]
    BY SMTT(60), CacheParts DEF BreadStart, BwriteStart, UseInv, BufType
  <1>2. /\ UNCHANGED <<disk, done, blockno, valid, owner, cur, want>>
        /\ \/ /\ pc[p] = "read" /\ pc' = [pc EXCEPT ![p] = "reading"]
              /\ req' = [req EXCEPT ![p] = [buf |-> cur[p], block |-> want[p], write |-> FALSE]]
           \/ /\ pc[p] = "hold" /\ pc' = [pc EXCEPT ![p] = "writing"]
              /\ req' = [req EXCEPT ![p] = [buf |-> cur[p], block |-> want[p], write |-> TRUE]]
    BY SMTT(60), <1>1 DEF BreadStart, BwriteStart, Goto, bufVars, Dev!Start
  <1>3. data' = data
    BY SMTT(60), <1>1, IoParts DEF BreadStart, BwriteStart, Dev!Start, DataType
  <1>4. OwnInv'
    <2>1. \A q \in Procs : pc[q] \in HoldPcs => pc'[q] \in HoldPcs
      BY <1>2, CacheParts DEF BufType, HoldPcs
    <2> QED
      BY SMTT(60), <2>1, <1>2, CacheParts, IoParts DEF BufType, OwnInv
  <1>5. ValidInv'
    BY SMTT(60), <1>1, <1>2, CacheParts, IoParts DEF BufType, ValidInv
  <1>6. ReqInv'
    <2>1. pc \in [Procs -> Pcs]
      BY Zenon, CacheParts DEF BufType
    <2>2. ASSUME NEW q \in Procs, q # p PROVE Request(q)' = Request(q)
      <3>1. pc'[q] = pc[q]
        BY SMTT(60), <1>2, <2>1, <2>2
      <3> QED
        BY Zenon, <1>2, <3>1 DEF Request
    <2>3. req' = [req EXCEPT ![p] = Request(p)']
      BY SMTT(60), <1>2, <2>1 DEF Request
    <2>4. req = [q \in Procs |-> Request(q)]
      BY Zenon, IoParts DEF ReqInv
    <2>5. req' = [q \in Procs |-> Request(q)']
      BY SMTT(60), <2>2, <2>3, <2>4
    <2> QED
      BY Zenon, <2>5 DEF ReqInv
  <1>7. DoneInv' /\ DataType'
    BY SMTT(60), <1>1, <1>2, <1>3, CacheParts, IoParts DEF BufType, DoneInv, DataType
  <1> QED
    BY Zenon, <1>4, <1>5, <1>6, <1>7 DEF IoInv

(* They return when the disk is done with it.                              *)
LEMMA IoReturn ==
    ASSUME CacheInv, IoInv, NEW p \in Procs, BreadDone(p) \/ BwriteDone(p)
    PROVE IoInv'
  <1>1. cur[p] \in Bufs /\ blockno[cur[p]] = want[p] /\ want[p] # None
    BY NoneAssumption, CacheParts DEF BreadDone, BwriteDone, UseInv, BufType
  <1>2. /\ UNCHANGED <<disk, data, blockno, owner, cur, want>>
        /\ pc[p] \in {"reading", "writing"} /\ pc' = [pc EXCEPT ![p] = "hold"]
        /\ req' = [req EXCEPT ![p] = None] /\ done' = done \ {p}
    BY SMTT(60) DEF BreadDone, BwriteDone, Goto, bufVars, Dev!Return
  <1>3. valid' = [valid EXCEPT ![cur[p]] = TRUE]
    BY SMTT(60), <1>1, <1>2, IoParts DEF BreadDone, BwriteDone, bufVars, DataType, ValidInv
  <1>4. OwnInv'
    <2>1. \A q \in Procs : pc[q] \in HoldPcs => pc'[q] \in HoldPcs
      BY <1>2, CacheParts DEF BufType, HoldPcs
    <2> QED
      BY <2>1, <1>2, CacheParts, IoParts DEF BufType, OwnInv
  <1>5. \A q \in Procs : q # p /\ pc[q] \in HoldPcs => cur[q] # cur[p]
    BY <1>2, Exclusive DEF HoldPcs
  <1>6. ValidInv'
    BY SMTT(60), <1>1, <1>2, <1>3, <1>5, CacheParts, IoParts DEF BufType, UseInv, ValidInv,
      DataType, HoldPcs
  <1>7. ReqInv'
    BY Zenon, <1>1, <1>2, CacheParts, IoParts DEF BufType, ReqInv, Request
  <1>8. DoneInv' /\ DataType'
    BY SMTT(60), <1>1, <1>2, <1>3, CacheParts, IoParts DEF BufType, DoneInv, DataType
  <1> QED
    BY Zenon, <1>4, <1>6, <1>7, <1>8 DEF IoInv

(* What the disk carries out is the request of a holder.                   *)
LEMMA TransferFacts ==
    ASSUME CacheInv, IoInv, NEW p \in Procs, Transfer(p)
    PROVE /\ cur[p] \in Bufs /\ want[p] \in Blocks /\ blockno[cur[p]] = want[p]
          /\ \/ /\ pc[p] = "reading" /\ disk' = disk
                /\ data' = [data EXCEPT ![cur[p]] = disk[want[p]]]
             \/ /\ pc[p] = "writing" /\ data' = data
                /\ disk' = [disk EXCEPT ![want[p]] = data[cur[p]]]
          /\ done' = done \cup {p}
  <1>1. req[p] = Request(p) /\ req[p] # None
    BY Zenon, IoParts DEF Transfer, Dev!Transfer, ReqInv
  <1>2. pc[p] \in {"reading", "writing"}
    BY Zenon, <1>1 DEF Request
  <1>3. cur[p] \in Bufs /\ want[p] \in Blocks /\ blockno[cur[p]] = want[p]
    BY SMTT(60), <1>2, CacheParts DEF UseInv, BufType
  <1>4. Dev!Transfer(p)
    BY DEF Transfer
  <1>5. CASE pc[p] = "reading"
    <2>1. req[p] = [buf |-> cur[p], block |-> want[p], write |-> FALSE]
      BY Zenon, <1>1, <1>5 DEF Request
    <2> QED
      BY SMTT(60), <1>3, <1>4, <1>5, <2>1 DEF Dev!Transfer
  <1>6. CASE pc[p] = "writing"
    <2>1. req[p] = [buf |-> cur[p], block |-> want[p], write |-> TRUE]
      <3>1. pc[p] # "reading"
        BY SMTT(60), <1>6
      <3> QED
        BY Zenon, <1>1, <1>6, <3>1 DEF Request
    <2> QED
      BY SMTT(60), <1>3, <1>4, <1>6, <2>1 DEF Dev!Transfer
  <1> QED
    BY Zenon, <1>2, <1>5, <1>6

(* The transfer of a request, and a change by the holder, leave the other  *)
(* holders' buffers and blocks alone.                                      *)
LEMMA IoData ==
    ASSUME CacheInv, IoInv, NEW p \in Procs, Transfer(p) \/ \E v \in Vals : Modify(p, v)
    PROVE IoInv'
  <1>1. /\ UNCHANGED <<req, blockno, valid, owner, pc, cur, want>>
        /\ cur[p] \in Bufs /\ want[p] \in Blocks /\ pc[p] \in HoldPcs
    <2>1. UNCHANGED <<req, blockno, valid, owner, pc, cur, want>>
      BY Zenon DEF Transfer, Modify, Dev!Transfer, bufVars
    <2>2. pc[p] \in {"hold", "reading", "writing"}
      BY Zenon, TransferFacts DEF Modify
    <2>3. pc[p] \in HoldPcs
      BY SMTT(60), <2>2 DEF HoldPcs
    <2> QED
      BY SMTT(60), <2>1, <2>2, <2>3, CacheParts DEF UseInv, BufType
  <1>2. OwnInv' /\ ValidInv' /\ ReqInv'
    BY Zenon, <1>1, IoParts DEF OwnInv, ValidInv, ReqInv, Request
  <1>3. DataType'
    <2>1. DataType
      BY Zenon, IoParts
    <2>2. CASE Transfer(p)
      BY SMTT(60), <1>1, <2>1, <2>2, TransferFacts DEF DataType
    <2>3. CASE \E v \in Vals : Modify(p, v)
      <3>1. disk' = disk /\ done' = done /\ \E v \in Vals : data' = [data EXCEPT ![cur[p]] = v]
        BY Zenon, <2>3 DEF Modify
      <3> QED
        BY SMTT(60), <1>1, <2>1, <3>1 DEF DataType
    <2> QED
      BY Zenon, <2>2, <2>3
  <1>4. DoneInv'
    <2> SUFFICES ASSUME NEW q \in done'
                 PROVE /\ pc[q] \in {"reading", "writing"}
                       /\ pc[q] = "reading" => data'[cur[q]] = disk'[want[q]]
      BY Zenon, <1>1 DEF DoneInv
    <2>1. q \in Procs
      BY <1>3 DEF DataType
    <2>2. CASE q = p
      <3>1. Transfer(p) \/ pc[p] = "hold"
        BY SMTT(60) DEF Modify
      <3>2. CASE Transfer(p)
        BY SMTT(60), <2>2, <3>2, TransferFacts, IoParts DEF DataType
      <3>3. CASE ~Transfer(p)
        BY SMTT(60), <2>2, <3>3, IoParts DEF Modify, DoneInv
      <3> QED
        BY <3>2, <3>3
    <2>3. CASE q # p
      <3>1. q \in done
        BY SMTT(60), <2>3, TransferFacts DEF Modify
      <3>2. pc[q] \in {"reading", "writing"} /\ (pc[q] = "reading" => data[cur[q]] = disk[want[q]])
        BY <3>1, IoParts DEF DoneInv
      <3>3. cur[q] # cur[p] /\ want[q] # want[p]
        BY SMTT(60), <1>1, <2>1, <2>3, <3>2, Exclusive DEF HoldPcs
      <3>4. data'[cur[q]] = data[cur[q]] /\ disk'[want[q]] = disk[want[q]]
        <4>1. cur[q] \in Bufs /\ want[q] \in Blocks
          BY SMTT(60), <2>1, <3>2, CacheParts DEF UseInv, BufType
        <4> QED
          <5>1. data \in [Bufs -> Vals] /\ disk \in [Blocks -> Vals]
            BY Zenon, IoParts DEF DataType
          <5>2. CASE Transfer(p)
            BY SMTT(60), <3>3, <4>1, <5>1, <5>2, TransferFacts
          <5>3. CASE \E v \in Vals : Modify(p, v)
            <6>1. disk' = disk /\ \E v \in Vals : data' = [data EXCEPT ![cur[p]] = v]
              BY Zenon, <5>3 DEF Modify
            <6> QED
              BY SMTT(60), <3>3, <4>1, <5>1, <6>1
          <5> QED
            BY Zenon, <5>2, <5>3
      <3> QED
        BY Zenon, <3>2, <3>4
    <2> QED
      BY Zenon, <2>2, <2>3
  <1> QED
    BY Zenon, <1>2, <1>3, <1>4 DEF IoInv

(* The other steps move nothing that IoInv is about.                       *)
LEMMA IoOther ==
    ASSUME CacheInv, IoInv, NEW p \in Procs,
           Bpin(p) \/ Bunpin(p) \/ Brelse(p) \/ \E k \in Blocks : BgetPanic(p, k)
    PROVE IoInv'
  <1>1. UNCHANGED <<disk, data, req, done, blockno, valid, owner>>
    BY Zenon DEF Bpin, Bunpin, Brelse, BgetPanic, devVars, bufVars
  <1>2. CASE Brelse(p)
    <2>1. /\ pc[p] = "brelse" /\ pc' = [pc EXCEPT ![p] = "idle"]
          /\ cur' = [cur EXCEPT ![p] = None] /\ want' = [want EXCEPT ![p] = None]
      BY SMTT(60), <1>2 DEF Brelse, Goto
    <2>2. OwnInv' /\ ValidInv'
      BY SMTT(60), <1>1, <2>1, NoneAssumption, CacheParts, IoParts DEF BufType, OwnInv,
        ValidInv, HoldPcs
    <2>3. ReqInv'
      BY Zenon, <1>1, <2>1, CacheParts, IoParts DEF BufType, ReqInv, Request
    <2>4. DoneInv' /\ DataType'
      BY SMTT(60), <1>1, <2>1, CacheParts, IoParts DEF BufType, DoneInv, DataType
    <2> QED
      BY Zenon, <2>2, <2>3, <2>4 DEF IoInv
  <1>3. CASE UNCHANGED <<pc, cur, want>>
    BY Zenon, <1>1, <1>3 DEF IoInv, OwnInv, ValidInv, ReqInv, Request, DoneInv, DataType
  <1> QED
    BY Zenon, <1>2, <1>3 DEF Bpin, Bunpin, BgetPanic

(* A recycled buffer has no user.                                          *)
LEMMA MissFacts ==
    ASSUME CardLaws, CacheInv, NEW p \in Procs, NEW k \in Blocks, BgetMiss(p, k)
    PROVE Recycles(p, k)
  <1>1. PICK i \in 1 .. Len(lru) : Recycled(i) /\ Recycle(lru[i], k) /\ Take(p, lru[i], k)
    BY DEF BgetMiss
  <1> DEFINE b == lru[i]
  <1>2. b \in Bufs /\ refcnt[b] = 0
    BY <1>1, CacheParts DEF BufType, Recycled, Unused
  <1>3. /\ cur' = [cur EXCEPT ![p] = b] /\ blockno' = [blockno EXCEPT ![b] = k]
        /\ valid' = [valid EXCEPT ![b] = FALSE]
    BY <1>1 DEF Take, Recycle
  <1> HIDE DEF b
  <1>4. Cardinality(Users(b)) \in Nat
    BY UsersFinite
  <1>5. Cardinality(Users(b)) = 0 /\ blockno[b] \notin pinned
    BY <1>2, <1>4, CacheParts DEF RefInv
  <1>6. \A q \in Procs : cur[q] # b
    BY <1>5, UsersFinite
  <1> QED
    BY Zenon, <1>2, <1>3, <1>5, <1>6 DEF Recycles

(* Every step keeps IoInv.                                                 *)
LEMMA IoNext == CardLaws /\ CacheInv /\ IoInv /\ [Next]_vars => IoInv'
  <1> SUFFICES ASSUME CardLaws, CacheInv, IoInv, [Next]_vars PROVE IoInv'
    OBVIOUS
  <1>1. CASE UNCHANGED vars
    BY Zenon, <1>1 DEF vars, devVars, bufVars, IoInv, OwnInv, ValidInv, ReqInv, Request, DoneInv, DataType
  <1>2. CASE Next
    BY <1>2, Zenon, IoHit, IoMiss, MissFacts, IoLock, IoStart, IoReturn, IoData, IoOther
       DEF Next, LockStep, IoStep, HolderStep
  <1> QED
    BY <1>1, <1>2

-----------------------------------------------------------------------------
(* What BlockCache sees of a block: the one buffer that has it, or the     *)
(* disk.                                                                   *)
Abs ==
  \A k \in Blocks :
    /\ \A b \in Bufs : blockno[b] = k => /\ Cache[k] = (IF valid[b] THEN data[b] ELSE disk[k])
                                         /\ Holder[k] = owner[b]
    /\ (\A b \in Bufs : blockno[b] # k) => Cache[k] = disk[k] /\ Holder[k] = None

Maps == Cache = [k \in Blocks |-> Cache[k]] /\ Holder = [k \in Blocks |-> Holder[k]]

(* A block is in one buffer, so the buffer chosen in Cache is that one.    *)
LEMMA AbsOne == CacheInv => Abs /\ Maps
  <1> SUFFICES ASSUME CacheInv PROVE Abs /\ Maps
    OBVIOUS
  <1>1. Maps
    BY SMTT(60) DEF Maps, Cache, Holder
  <1>2. ASSUME NEW k \in Blocks, NEW b \in Bufs, blockno[b] = k
        PROVE /\ Cache[k] = (IF valid[b] THEN data[b] ELSE disk[k])
              /\ Holder[k] = owner[b]
    <2>1. \A c \in Bufs : blockno[c] = k => c = b
      BY <1>2, NoneAssumption, CacheParts DEF BlockInv
    <2>2. Cache[k] = (IF valid[b] THEN data[b] ELSE disk[k])
      BY SMTT(60), <1>2, <2>1 DEF Cache
    <2>3. Holder[k] = owner[b]
      BY <1>2, <2>1 DEF Holder
    <2> QED
      BY <2>2, <2>3
  <1>3. ASSUME NEW k \in Blocks, \A b \in Bufs : blockno[b] # k
        PROVE Cache[k] = disk[k] /\ Holder[k] = None
    BY SMTT(60), <1>3 DEF Cache, Holder
  <1> QED
    BY Zenon, <1>1, <1>2, <1>3 DEF Abs

(* The same of the state after a step.                                     *)
LEMMA AbsNext == CacheInv' => Abs' /\ Maps'
  BY AbsOne, PTL

(* A block that bget() has put in a buffer is what that buffer holds once  *)
(* it is valid, and is locked by the holder of the buffer.                 *)
LEMMA InBuffer ==
    ASSUME CacheInv, NEW k \in Blocks, NEW b \in Bufs, blockno[b] = k
    PROVE  Cache[k] = (IF valid[b] THEN data[b] ELSE disk[k]) /\ Holder[k] = owner[b]
  BY Zenon, AbsOne DEF Abs

(* The same of the state after a step.                                     *)
LEMMA InBufferNext ==
    ASSUME CacheInv', NEW k \in Blocks, NEW b \in Bufs, blockno'[b] = k
    PROVE  Cache'[k] = (IF valid'[b] THEN data'[b] ELSE disk'[k]) /\ Holder'[k] = owner'[b]
  BY Zenon, AbsNext DEF Abs

(* A block that bget() has put in no buffer is what the disk holds, and    *)
(* nobody has locked it.                                                   *)
LEMMA OnDisk ==
    ASSUME CacheInv, NEW k \in Blocks, \A b \in Bufs : blockno[b] # k
    PROVE  Cache[k] = disk[k] /\ Holder[k] = None
  BY Zenon, AbsOne DEF Abs

(* The same of the state after a step.                                     *)
LEMMA OnDiskNext ==
    ASSUME CacheInv', NEW k \in Blocks, \A b \in Bufs : blockno'[b] # k
    PROVE  Cache'[k] = disk'[k] /\ Holder'[k] = None
  BY Zenon, AbsNext DEF Abs

(* What Cache and Holder are as functions, from their values.              *)
LEMMA CacheSame ==
    ASSUME CacheInv, CacheInv', \A j \in Blocks : Cache'[j] = Cache[j]
    PROVE  Cache' = Cache
  BY SMTT(60), AbsOne, AbsNext DEF Maps

(* The same of the holders of the locks.                                   *)
LEMMA HolderSame ==
    ASSUME CacheInv, CacheInv', \A j \in Blocks : Holder'[j] = Holder[j]
    PROVE  Holder' = Holder
  BY SMTT(60), AbsOne, AbsNext DEF Maps

(* A step that changes what one block is seen as, and no other.            *)
LEMMA CacheExcept ==
    ASSUME CacheInv, CacheInv', NEW k \in Blocks, NEW v, Cache'[k] = v,
           \A j \in Blocks : j # k => Cache'[j] = Cache[j]
    PROVE  Cache' = [Cache EXCEPT ![k] = v]
  BY SMTT(60), AbsOne, AbsNext DEF Maps

(* A step that changes the holder of one block, and of no other.           *)
LEMMA HolderExcept ==
    ASSUME CacheInv, CacheInv', NEW k \in Blocks, NEW v, Holder'[k] = v,
           \A j \in Blocks : j # k => Holder'[j] = Holder[j]
    PROVE  Holder' = [Holder EXCEPT ![k] = v]
  BY SMTT(60), AbsOne, AbsNext DEF Maps

(* A block whose buffer, and copy on the disk where that is the one to     *)
(* see, stay the same.                                                     *)
LEMMA BlockSame ==
    ASSUME CacheInv, CacheInv', NEW j \in Blocks, blockno' = blockno,
           \A c \in Bufs : blockno[c] = j => /\ valid'[c] <=> valid[c]
                                             /\ valid[c] => data'[c] = data[c]
                                             /\ ~valid[c] => disk'[j] = disk[j],
           (\A c \in Bufs : blockno[c] # j) => disk'[j] = disk[j]
    PROVE  Cache'[j] = Cache[j]
  <1>1. CASE \A c \in Bufs : blockno[c] # j
    <2>1. Cache[j] = disk[j]
      BY Zenon, <1>1, OnDisk
    <2>2. Cache'[j] = disk'[j]
      BY Zenon, <1>1, OnDiskNext
    <2> QED
      BY Zenon, <1>1, <2>1, <2>2
  <1>2. ASSUME NEW c \in Bufs, blockno[c] = j PROVE Cache'[j] = Cache[j]
    <2>1. Cache[j] = (IF valid[c] THEN data[c] ELSE disk[j])
      BY Zenon, <1>2, InBuffer
    <2>2. Cache'[j] = (IF valid'[c] THEN data'[c] ELSE disk'[j])
      BY Zenon, <1>2, InBufferNext
    <2> QED
      BY Zenon, <1>2, <2>1, <2>2
  <1> QED
    BY Zenon, <1>1, <1>2

(* The step of BlockCache for a step that leaves the buffers and their     *)
(* locks alone: none, or a pin by the holder.                              *)
LEMMA SameStep ==
    ASSUME CacheInv, NEW p \in Procs, UNCHANGED <<disk, data, blockno, valid, owner>>,
           pinned' = pinned \/ Bpin(p) \/ Bunpin(p)
    PROVE [BC!Next]_(BC!bvars)
  <1>1. Cache' = Cache /\ Holder' = Holder
    BY Zenon DEF Cache, Holder
  <1>2. CASE Bpin(p) \/ Bunpin(p)
    <2>1. cur[p] \in Bufs /\ want[p] \in Blocks /\ blockno[cur[p]] = want[p] /\ owner[cur[p]] = p
      <3>1. pc[p] \in HoldPcs
        BY SMTT(60), <1>2 DEF Bpin, Bunpin, HoldPcs
      <3> QED
        BY SMTT(60), <3>1, CacheParts DEF UseInv, BufType, HoldPcs
    <2>2. Holder[want[p]] = p
      BY Zenon, <2>1, InBuffer
    <2>3. BC!Pin(want[p])
      BY Zenon, <1>1, <1>2, <2>2, NoneAssumption DEF BC!Pin, Bpin, Bunpin
    <2> QED
      BY Zenon, <2>1, <2>3 DEF BC!Next
  <1> QED
    BY Zenon, <1>1, <1>2 DEF BC!bvars

(* acquiresleep() and releasesleep() are Lock and Unlock of the block.     *)
LEMMA LockRef ==
    ASSUME CacheInv, CacheInv', NEW p \in Procs, AcquireSleep(p) \/ ReleaseSleep(p)
    PROVE BC!Next
  <1> DEFINE b == cur[p]
             k == want[p]
             w == IF AcquireSleep(p) THEN p ELSE None
  <1>1. b \in Bufs /\ k \in Blocks /\ blockno[b] = k
    BY SMTT(60), CacheParts DEF AcquireSleep, ReleaseSleep, UseInv, BufType
  <1>2. /\ UNCHANGED <<disk, data, blockno, valid, pinned>>
        /\ owner' = [owner EXCEPT ![b] = w]
        /\ AcquireSleep(p) => owner[b] = None
    BY Zenon DEF AcquireSleep, ReleaseSleep, devVars, bufVars
  <1>t. owner \in [Bufs -> Procs \cup {None}]
    BY Zenon, CacheParts DEF BufType
  <1> HIDE DEF b, k, w
  <1>3. Cache' = Cache
    BY Zenon, <1>2 DEF Cache
  <1>4. Holder'[k] = w
    <2>1. Holder'[k] = owner'[b]
      BY Zenon, <1>1, <1>2, InBufferNext
    <2> QED
      BY SMTT(60), <1>1, <1>2, <1>t, <2>1
  <1>5. ASSUME NEW j \in Blocks, j # k PROVE Holder'[j] = Holder[j]
    <2>1. CASE \A c \in Bufs : blockno[c] # j
      <3>1. Holder[j] = None
        BY Zenon, <2>1, OnDisk
      <3>2. Holder'[j] = None
        BY Zenon, <1>2, <2>1, OnDiskNext
      <3> QED
        BY Zenon, <3>1, <3>2
    <2>2. ASSUME NEW c \in Bufs, blockno[c] = j PROVE Holder'[j] = Holder[j]
      <3>1. Holder[j] = owner[c]
        BY Zenon, <2>2, InBuffer
      <3>2. Holder'[j] = owner'[c]
        BY Zenon, <1>2, <2>2, InBufferNext
      <3>3. owner'[c] = owner[c]
        BY SMTT(60), <1>1, <1>2, <1>5, <1>t, <2>2
      <3> QED
        BY Zenon, <3>1, <3>2, <3>3
    <2> QED
      BY Zenon, <2>1, <2>2
  <1>6. Holder' = [Holder EXCEPT ![k] = w]
    BY Zenon, <1>1, <1>4, <1>5, HolderExcept
  <1>7. AcquireSleep(p) => Holder[k] = None
    BY Zenon, <1>1, <1>2, InBuffer
  <1>8. BC!Lock(p, k) \/ BC!Unlock(k)
    BY Zenon, <1>2, <1>3, <1>6, <1>7 DEF w, BC!Lock, BC!Unlock
  <1> QED
    BY Zenon, <1>1, <1>8 DEF BC!Next

(* The end of bread(): the buffer has what is on the disk, which is what   *)
(* the block was before.                                                   *)
LEMMA ReadRef ==
    ASSUME CacheInv, CacheInv', IoInv, NEW p \in Procs, BreadDone(p)
    PROVE UNCHANGED (BC!bvars)
  <1>1. cur[p] \in Bufs /\ want[p] \in Blocks /\ blockno[cur[p]] = want[p]
    BY SMTT(60), CacheParts DEF BreadDone, UseInv, BufType
  <1>2. /\ UNCHANGED <<disk, data, blockno, owner, pinned>>
        /\ valid' = [valid EXCEPT ![cur[p]] = TRUE]
        /\ ~valid[cur[p]] /\ data[cur[p]] = disk[want[p]]
    <2>1. p \in done /\ pc[p] = "reading"
      BY Zenon DEF BreadDone, Dev!Return
    <2>2. ~valid[cur[p]] /\ data[cur[p]] = disk[want[p]]
      BY Zenon, <2>1, IoParts DEF ValidInv, DoneInv
    <2> QED
      BY Zenon, <2>2 DEF BreadDone, Dev!Return
  <1>t. valid \in [Bufs -> BOOLEAN]
    BY Zenon, IoParts DEF DataType
  <1>3. Holder' = Holder
    BY Zenon, <1>2 DEF Holder
  <1>4. ASSUME NEW j \in Blocks PROVE Cache'[j] = Cache[j]
    <2>1. CASE j = want[p]
      <3>1. Cache[j] = disk[j]
        BY Zenon, <1>1, <1>2, <2>1, InBuffer
      <3>2. valid'[cur[p]]
        BY SMTT(60), <1>1, <1>2, <1>t
      <3>3. blockno'[cur[p]] = j
        BY Zenon, <1>1, <1>2, <2>1
      <3>4. Cache'[j] = (IF valid'[cur[p]] THEN data'[cur[p]] ELSE disk'[j])
        BY Zenon, <1>1, <3>3, InBufferNext
      <3> QED
        BY Zenon, <1>2, <2>1, <3>1, <3>2, <3>4
    <2>2. CASE j # want[p]
      <3>1. \A c \in Bufs : blockno[c] = j => (valid'[c] <=> valid[c])
        BY SMTT(60), <1>1, <1>2, <1>t, <2>2
      <3> QED
        BY Zenon, <1>2, <3>1, BlockSame
    <2> QED
      BY Zenon, <2>1, <2>2
  <1>5. Cache' = Cache
    BY Zenon, <1>4, CacheSame
  <1> QED
    BY Zenon, <1>2, <1>3, <1>5 DEF BC!bvars

(* The disk carries out a request: to read, into a buffer that is not yet  *)
(* valid, which nobody sees; to write, the Flush of the block.             *)
LEMMA TransferRef ==
    ASSUME CacheInv, CacheInv', IoInv, NEW p \in Procs, Transfer(p)
    PROVE [BC!Next]_(BC!bvars)
  <1> DEFINE b == cur[p]
             k == want[p]
  <1>1. /\ b \in Bufs /\ k \in Blocks /\ blockno[b] = k
        /\ owner[b] = p /\ UNCHANGED <<blockno, valid, owner, pinned>>
    BY Zenon, TransferFacts, CacheParts DEF Transfer, bufVars, UseInv, HoldPcs
  <1>2. \/ ~valid[b] /\ disk' = disk /\ data' = [data EXCEPT ![b] = disk[k]]
        \/ valid[b] /\ data' = data /\ disk' = [disk EXCEPT ![k] = data[b]]
    BY Zenon, TransferFacts, IoParts DEF ValidInv
  <1>t. data \in [Bufs -> Vals] /\ disk \in [Blocks -> Vals]
    BY Zenon, IoParts DEF DataType
  <1> HIDE DEF b, k
  <1>3. Holder' = Holder /\ Holder[k] # None
    <2>1. Holder[k] = p
      BY Zenon, <1>1, InBuffer
    <2> QED
      BY Zenon, <1>1, <2>1, NoneAssumption DEF Holder
  <1>4. ASSUME NEW j \in Blocks PROVE Cache'[j] = Cache[j]
    <2>1. (\A c \in Bufs : blockno[c] # j) => disk'[j] = disk[j]
      BY SMTT(60), <1>1, <1>2, <1>t
    <2>2. ASSUME NEW c \in Bufs, blockno[c] = j, valid[c] PROVE data'[c] = data[c]
      BY SMTT(60), <1>1, <1>2, <1>t, <2>2
    <2>3. ASSUME NEW c \in Bufs, blockno[c] = j, ~valid[c] PROVE disk'[j] = disk[j]
      <3>1. j = k => c = b
        BY Zenon, <1>1, <2>3, NoneAssumption, CacheParts DEF BlockInv
      <3> QED
        BY SMTT(60), <1>1, <1>2, <1>t, <2>3, <3>1
    <2> QED
      BY Zenon, <1>1, <2>1, <2>2, <2>3, BlockSame
  <1>5. Cache' = Cache
    BY Zenon, <1>4, CacheSame
  <1>6. CASE disk' = disk
    BY Zenon, <1>1, <1>3, <1>5, <1>6 DEF BC!bvars
  <1>7. CASE valid[b] /\ disk' = [disk EXCEPT ![k] = data[b]]
    <2>1. Cache[k] = data[b]
      BY Zenon, <1>1, <1>7, InBuffer
    <2>2. BC!Flush(k)
      BY Zenon, <1>1, <1>3, <1>5, <1>7, <2>1 DEF BC!Flush
    <2> QED
      BY Zenon, <1>1, <2>2 DEF BC!Next
  <1> QED
    BY Zenon, <1>2, <1>6, <1>7

(* A change of b->data by its holder is a change of the block.             *)
LEMMA ModifyRef ==
    ASSUME CacheInv, CacheInv', IoInv, NEW p \in Procs, NEW v \in Vals, Modify(p, v)
    PROVE BC!Next
  <1> DEFINE b == cur[p]
             k == want[p]
  <1>0. pc[p] = "hold" /\ data' = [data EXCEPT ![b] = v]
        /\ UNCHANGED <<disk, blockno, valid, owner, pinned>>
    BY Zenon DEF Modify, bufVars
  <1>1. b \in Bufs /\ k \in Blocks /\ blockno[b] = k /\ owner[b] = p
    BY SMTT(60), <1>0, CacheParts DEF UseInv, BufType, HoldPcs
  <1>2. valid[b]
    BY Zenon, <1>0, IoParts DEF ValidInv
  <1>t. data \in [Bufs -> Vals]
    BY Zenon, IoParts DEF DataType
  <1> HIDE DEF b, k
  <1>3. Holder' = Holder /\ Holder[k] # None
    <2>1. Holder[k] = p
      BY Zenon, <1>1, InBuffer
    <2> QED
      BY Zenon, <1>0, <2>1, NoneAssumption DEF Holder
  <1>4. Cache'[k] = v
    <2>1. Cache'[k] = data'[b]
      BY Zenon, <1>0, <1>1, <1>2, InBufferNext
    <2> QED
      BY SMTT(60), <1>0, <1>1, <1>t, <2>1
  <1>5. ASSUME NEW j \in Blocks, j # k PROVE Cache'[j] = Cache[j]
    <2>1. \A c \in Bufs : blockno[c] = j => data'[c] = data[c]
      BY SMTT(60), <1>0, <1>1, <1>t, <1>5
    <2> QED
      BY Zenon, <1>0, <2>1, BlockSame
  <1>6. Cache' = [Cache EXCEPT ![k] = v]
    BY Zenon, <1>1, <1>4, <1>5, CacheExcept
  <1>7. BC!Modify(k, v)
    BY Zenon, <1>0, <1>3, <1>6 DEF BC!Modify
  <1> QED
    BY Zenon, <1>1, <1>7 DEF BC!Next

(* Recycling a buffer gives up the value of its old block, which nobody    *)
(* holds and nobody has pinned.                                            *)
LEMMA MissRef ==
    ASSUME CacheInv, CacheInv', IoInv, NEW p \in Procs, NEW k \in Blocks, BgetMiss(p, k),
           Recycles(p, k)
    PROVE [BC!Next]_(BC!bvars)
  <1>1. PICK b \in Bufs :
          /\ blockno[b] \notin pinned /\ \A q \in Procs : cur[q] # b
          /\ cur' = [cur EXCEPT ![p] = b] /\ blockno' = [blockno EXCEPT ![b] = k]
          /\ valid' = [valid EXCEPT ![b] = FALSE]
    BY Zenon DEF Recycles
  <1>2. UNCHANGED <<disk, data, owner, pinned>> /\ \A c \in Bufs : blockno[c] # k
    BY SMTT(60) DEF BgetMiss, Take, Cached, devVars
  <1>t. /\ blockno \in [Bufs -> Blocks \cup {None}] /\ owner \in [Bufs -> Procs \cup {None}]
        /\ valid \in [Bufs -> BOOLEAN]
    BY Zenon, CacheParts, IoParts DEF BufType, DataType
  <1>3. owner[b] = None
    BY SMTT(60), <1>1, <1>t, IoParts DEF OwnInv
  <1> DEFINE o == blockno[b]
  <1>4. /\ \A c \in Bufs : c # b => blockno'[c] = blockno[c] /\ (valid'[c] <=> valid[c])
        /\ blockno'[b] = k /\ ~valid'[b]
    BY SMTT(60), <1>1, <1>t
  <1>5. Cache[k] = disk[k] /\ Holder[k] = None /\ Cache'[k] = disk[k] /\ Holder'[k] = None
    <2>1. Cache[k] = disk[k] /\ Holder[k] = None
      BY Zenon, <1>2, OnDisk
    <2>2. Cache'[k] = disk'[k] /\ Holder'[k] = owner'[b]
      BY Zenon, <1>4, InBufferNext
    <2> QED
      BY Zenon, <1>2, <1>3, <2>1, <2>2
  <1>6. ASSUME NEW j \in Blocks, j # k, j # o PROVE Cache'[j] = Cache[j] /\ Holder'[j] = Holder[j]
    <2>1. CASE \A c \in Bufs : blockno[c] # j
      <3>1. \A c \in Bufs : blockno'[c] # j
        BY SMTT(60), <1>4, <1>6, <2>1
      <3>2. Cache[j] = disk[j] /\ Holder[j] = None
        BY Zenon, <2>1, OnDisk
      <3>3. Cache'[j] = disk'[j] /\ Holder'[j] = None
        BY Zenon, <3>1, OnDiskNext
      <3> QED
        BY Zenon, <1>2, <3>2, <3>3
    <2>2. ASSUME NEW c \in Bufs, blockno[c] = j PROVE Cache'[j] = Cache[j] /\ Holder'[j] = Holder[j]
      <3>1. blockno'[c] = j /\ (valid'[c] <=> valid[c])
        BY SMTT(60), <1>4, <1>6, <2>2
      <3>2. Cache[j] = (IF valid[c] THEN data[c] ELSE disk[j]) /\ Holder[j] = owner[c]
        BY Zenon, <2>2, InBuffer
      <3>3. Cache'[j] = (IF valid'[c] THEN data'[c] ELSE disk'[j]) /\ Holder'[j] = owner'[c]
        BY Zenon, <3>1, InBufferNext
      <3> QED
        BY Zenon, <1>2, <3>1, <3>2, <3>3
    <2> QED
      BY Zenon, <2>1, <2>2
  <1>7. CASE o = None
    <2>1. \A j \in Blocks : Cache'[j] = Cache[j] /\ Holder'[j] = Holder[j]
      BY SMTT(60), <1>5, <1>6, <1>7, NoneAssumption
    <2>2. Cache' = Cache /\ Holder' = Holder
      BY Zenon, <2>1, CacheSame, HolderSame
    <2> QED
      BY Zenon, <1>2, <2>2 DEF BC!bvars
  <1>8. CASE o # None
    <2>1. o \in Blocks /\ o # k
      BY SMTT(60), <1>2, <1>8, <1>t
    <2>2. \A c \in Bufs : blockno'[c] # o
      <3>1. \A c \in Bufs : blockno[c] = o => c = b
        BY Zenon, <1>8, CacheParts DEF BlockInv
      <3> QED
        BY SMTT(60), <1>4, <2>1, <3>1
    <2>3. Holder[o] = None /\ Holder'[o] = None /\ Cache'[o] = disk[o]
      <3>1. Holder[o] = None
        BY Zenon, <1>3, <2>1, InBuffer
      <3>2. Cache'[o] = disk'[o] /\ Holder'[o] = None
        BY Zenon, <2>1, <2>2, OnDiskNext
      <3> QED
        BY Zenon, <1>2, <3>1, <3>2
    <2>4. Holder' = Holder
      <3>1. \A j \in Blocks : Holder'[j] = Holder[j]
        BY SMTT(60), <1>5, <1>6, <2>3
      <3> QED
        BY Zenon, <3>1, HolderSame
    <2>5. Cache' = [Cache EXCEPT ![o] = disk[o]]
      <3>1. \A j \in Blocks : j # o => Cache'[j] = Cache[j]
        BY SMTT(60), <1>5, <1>6
      <3> HIDE DEF o
      <3> QED
        BY Zenon, <2>1, <2>3, <3>1, CacheExcept
    <2>6. BC!Evict(o)
      BY SMTT(60), <1>1, <1>2, <2>3, <2>4, <2>5 DEF BC!Evict
    <2> HIDE DEF o
    <2> QED
      BY Zenon, <2>1, <2>6 DEF BC!Next
  <1> QED
    BY Zenon, <1>7, <1>8

(* Every step of the buffer cache is a step of BlockCache or none.         *)
LEMMA CacheStep == CardLaws /\ CacheInv /\ CacheInv' /\ IoInv /\ [Next]_vars => [BC!Next]_(BC!bvars)
  <1> SUFFICES ASSUME CardLaws, CacheInv, CacheInv', IoInv, [Next]_vars PROVE [BC!Next]_(BC!bvars)
    OBVIOUS
  <1>1. CASE UNCHANGED vars
    BY SMTT(60), <1>1 DEF vars, devVars, bufVars, BC!bvars, Cache, Holder
  <1>2. ASSUME NEW p \in Procs,
               \/ \E k \in Blocks : BgetHit(p, k) \/ BgetPanic(p, k)
               \/ SleepOnLock(p) \/ KillWake(p) \/ Brelse(p) \/ Bpin(p) \/ Bunpin(p)
               \/ BwriteDone(p)
        PROVE [BC!Next]_(BC!bvars)
    <2>1. UNCHANGED <<disk, data, blockno, valid, owner>>
      BY Zenon, <1>2 DEF BgetHit, BgetPanic, Take, SleepOnLock, KillWake, Brelse, Bpin, Bunpin,
                  BwriteDone, Dev!Return, devVars, bufVars
    <2>2. pinned' = pinned \/ Bpin(p) \/ Bunpin(p)
      BY Zenon, <1>2 DEF BgetHit, BgetPanic, Take, SleepOnLock, KillWake, Brelse, BwriteDone
    <2> QED
      BY <2>1, <2>2, SameStep
  <1>3. ASSUME NEW p \in Procs, BreadStart(p) \/ BwriteStart(p) PROVE [BC!Next]_(BC!bvars)
    <2>1. UNCHANGED <<disk, blockno, valid, owner, pinned>>
      BY Zenon, <1>3 DEF BreadStart, BwriteStart, Dev!Start, bufVars
    <2>2. data' = data
      BY SMTT(60), <1>3, IoParts DEF BreadStart, BwriteStart, Dev!Start, DataType
    <2> QED
      BY <2>1, <2>2, SameStep
  <1>4. CASE Next
    BY <1>4, <1>2, <1>3, Zenon, LockRef, ReadRef, TransferRef, ModifyRef, MissRef, MissFacts
       DEF Next, LockStep, IoStep, HolderStep
  <1> QED
    BY <1>1, <1>4

(* binit() leaves every block on the disk, unlocked and unpinned.          *)
LEMMA CacheStart == Init => BC!Init
  <1> SUFFICES ASSUME Init PROVE BC!Init
    OBVIOUS
  <1>1. Holder = [k \in Blocks |-> None]
    BY DEF Init, Holder
  <1>2. Cache = [k \in Blocks |-> disk[k]]
    BY SMTT(60) DEF Init, Cache
  <1> QED
    BY <1>1, <1>2 DEF Init, BC!Init

-----------------------------------------------------------------------------
(* The initial state and the theorems.                                     *)

INSTANCE FiniteSetTheorems

(* There are finitely many processes, so the laws hold.                    *)
LEMMA Cards == CardLaws
  <1> SUFFICES ASSUME NEW S \in SUBSET Procs
               PROVE /\ Cardinality(S) \in Nat /\ (Cardinality(S) = 0 => S = {})
                     /\ \A x \in Procs \ S : Cardinality(S \cup {x}) = Cardinality(S) + 1
                     /\ \A x \in S : Cardinality(S \ {x}) = Cardinality(S) - 1
    BY Zenon DEF CardLaws
  <1>1. IsFiniteSet(S)
    BY Zenon, FS_Subset, FiniteAssumption
  <1> QED
    BY Zenon, <1>1, FS_CardinalityType, FS_EmptySet, FS_AddElement, FS_RemoveElement

(* The pin of a block counts once.                                         *)
LEMMA PinCount ==
    ASSUME NEW S, NEW x
    PROVE Cardinality(S \cap {x}) = IF x \in S THEN 1 ELSE 0
  <1>1. CASE x \in S
    <2>1. S \cap {x} = {x}
      BY <1>1
    <2> QED
      BY <1>1, <2>1, FS_Singleton
  <1>2. CASE x \notin S
    <2>1. S \cap {x} = {}
      BY <1>2
    <2> QED
      BY <1>2, <2>1, FS_EmptySet
  <1> QED
    BY <1>1, <1>2

(* RefInv is RefExact, with the pins counted.                              *)
LEMMA RefForm == RefInv <=> RefExact
  <1>1. \A b \in Bufs : Cardinality(pinned \cap {blockno[b]}) = IF blockno[b] \in pinned THEN 1 ELSE 0
    BY PinCount
  <1> QED
    BY Zenon, <1>1 DEF RefInv, RefExact, Users

(* binit().                                                                *)
LEMMA CacheInit == Init => CacheInv
  <1> SUFFICES ASSUME Init PROVE CacheInv
    OBVIOUS
  <1>0. None \notin Bufs /\ None \notin Procs /\ None \notin Blocks
    BY NoneAssumption
  <1>1. lru \in Seq(Bufs)
    <2> DEFINE N == Cardinality(Bufs)
    <2>1. N \in Nat /\ ExistsBijection(1 .. N, Bufs)
      BY FiniteAssumption, FS_CardinalityType
    <2>2. \E s \in [1 .. N -> Bufs] : {s[i] : i \in DOMAIN s} = Bufs
      <3>1. PICK s \in [1 .. N -> Bufs] : \A x \in Bufs : \E i \in 1 .. N : s[i] = x
        BY <2>1, Zenon DEF ExistsBijection, Bijection, Surjection
      <3> QED
        BY Zenon, <3>1
    <2>3. lru \in [1 .. N -> Bufs]
      BY <2>2, Zenon DEF Init
    <2> QED
      BY <2>1, <2>3
  <1>2. BufType /\ UseInv /\ BlockInv
    BY <1>0, <1>1 DEF Init, BufType, UseInv, BlockInv, Pcs, HoldPcs
  <1>3. RefInv
    <2> SUFFICES ASSUME NEW b \in Bufs
                 PROVE refcnt[b] = Cardinality(Users(b)) + (IF blockno[b] \in pinned THEN 1 ELSE 0)
      BY DEF RefInv
    <2>1. Users(b) = {}
      BY <1>0 DEF Init, Users
    <2> QED
      BY <2>1, FS_EmptySet DEF Init
  <1> QED
    BY <1>2, <1>3 DEF CacheInv

(* The inductive invariant: who has which buffer and lock, and what the    *)
(* reference counts count.                                                 *)
THEOREM CacheInductive == Spec => []CacheInv
  BY CacheInit, CacheNext, Cards, PTL DEF Spec

(* A block is in one buffer, and a buffer in use keeps its block, however  *)
(* bget() and brelse() interleave and whatever is recycled.                *)
THEOREM BufferSafe == Spec => []OneBuffer
  <1>1. CacheInv => OneBuffer
    <2> SUFFICES ASSUME CacheInv PROVE OneBuffer
      OBVIOUS
    <2>1. ASSUME NEW k \in Blocks PROVE Cardinality(Cached(k)) <= 1
      <3>1. CASE Cached(k) = {}
        BY <3>1, FS_EmptySet
      <3>2. CASE Cached(k) # {}
        <4>1. PICK b \in Bufs : blockno[b] = k
          BY <3>2 DEF Cached
        <4>2. Cached(k) = {b}
          BY <4>1, NoneAssumption, CacheParts DEF Cached, BlockInv
        <4>3. Cardinality(Cached(k)) = 1
          BY Zenon, <4>2, FS_Singleton
        <4> QED
          BY <4>3
      <3> QED
        BY <3>1, <3>2
    <2> QED
      BY SMTT(60), <2>1, CacheParts DEF OneBuffer, UseInv
  <1> QED
    BY <1>1, CacheInductive, PTL

(* The reference count of every buffer is the number of its users, and     *)
(* one more when its block is pinned: bget() recycles no buffer in use.    *)
THEOREM RefSafe == Spec => []RefExact
  <1>1. CacheInv => RefExact
    BY RefForm, CacheParts
  <1> QED
    BY <1>1, CacheInductive, PTL

(* Nobody sleeps in acquiresleep() for a lock that is free.                *)
THEOREM SleeperSafe == Spec => []SleeperHasHolder
  <1>1. CacheInv => SleeperHasHolder
    BY CacheParts DEF UseInv, SleeperHasHolder
  <1> QED
    BY <1>1, CacheInductive, PTL

(* bread(), bwrite(), bpin(), bunpin() and brelse() of any processes over  *)
(* any buffers implement a coherent cache of the blocks.                   *)
THEOREM CacheRefines == Spec => CacheSpec
  <1>1. Init => CacheInv /\ IoInv /\ BC!Init
    BY CacheInit, IoInit, CacheStart
  <1>2. CacheInv /\ IoInv /\ [Next]_vars => CacheInv' /\ IoInv'
    BY Zenon, CacheNext, IoNext, Cards
  <1>3. CacheInv /\ CacheInv' /\ IoInv /\ [Next]_vars => [BC!Next]_(BC!bvars)
    BY Zenon, CacheStep, Cards
  <1> QED
    BY <1>1, <1>2, <1>3, PTL DEF Spec, CacheSpec, BC!Spec

=============================================================================
