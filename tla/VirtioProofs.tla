---------------------------- MODULE VirtioProofs ----------------------------
(***************************************************************************)
(* Proofs about the disk driver for any number of callers and descriptors: *)
(* the descriptors and the rings are never used for two requests at once,  *)
(* no completion and no wakeup is lost, and virtio_disk_rw() implements    *)
(* the abstract device BlockDev.  The inductive invariant says in which    *)
(* one place each unfinished request is: the available ring, the device,   *)
(* or the used ring.                                                       *)
(***************************************************************************)
EXTENDS Virtio, FiniteSetTheorems, TLAPS

Pcs == {"idle", "rw", "wait_desc", "wait_io", "woken"}
Commands == [block : Blocks, write : BOOLEAN]
Indexes == 0 .. Wrap - 1

TypeOK ==
  /\ disk \in [Blocks -> Vals] /\ data \in [Bufs -> Vals] /\ bdisk \subseteq Bufs
  /\ free \subseteq Descs
  /\ next \in [Descs -> Descs \cup {None}] /\ addr \in [Descs -> Bufs \cup {None}]
  /\ ops \in [Descs -> Commands \cup {None}] /\ info \in [Descs -> Bufs \cup {None}]
  /\ status \in [Descs -> BOOLEAN]
  /\ availRing \in [Descs -> Descs \cup {None}] /\ usedRing \in [Descs -> Descs \cup {None}]
  /\ availIdx \in Indexes /\ devIdx \in Indexes /\ usedIdx \in Indexes /\ seen \in Indexes
  /\ taken \subseteq Descs /\ isr \in BOOLEAN /\ intr \in BOOLEAN
  /\ pc \in [Procs -> Pcs]
  /\ req \in [Procs -> Requests \cup {None}] /\ head \in [Procs -> Descs \cup {None}]

(* The chain of a request has three descriptors of its own, and nothing    *)
(* else is allocated.                                                      *)
Second(p) == next[head[p]]
Third(p) == next[next[head[p]]]
Three(p) == {head[p], Second(p), Third(p)}
ChainInv ==
  /\ \A p \in Submitted :
       /\ head[p] \in Descs \ free /\ Second(p) \in Descs \ free /\ Third(p) \in Descs \ free
       /\ head[p] # Second(p) /\ head[p] # Third(p) /\ Second(p) # Third(p)
  /\ \A p, q \in Submitted : p # q => Three(p) \cap Three(q) = {}
  /\ \A d \in Descs \ free : \E p \in Submitted : d \in Three(p)

(* No two callers use a buffer.                                            *)
CallerInv ==
  /\ \A p \in Procs : IF pc[p] = "idle" THEN req[p] = None ELSE req[p] \in Requests
  /\ \A p, q \in Procs :
       pc[p] # "idle" /\ pc[q] # "idle" /\ req[p].buf = req[q].buf => p = q

(* The descriptors say what the caller asked for, and b->disk is set for   *)
(* submitted requests only.                                                *)
CommandInv ==
  /\ \A p \in Submitted :
       /\ info[head[p]] = req[p].buf /\ addr[Second(p)] = req[p].buf
       /\ ops[head[p]] = [block |-> req[p].block, write |-> req[p].write]
  /\ \A b \in bdisk : \E p \in Submitted : req[p].buf = b

(* The number of live entries of a ring, and that none is there twice.     *)
Live(i, j) == (j + Wrap - i) % Wrap
Once(ring, i, j) ==
  \A k, l \in 0 .. Live(i, j) - 1 : ring[(i + k) % NUM] = ring[(i + l) % NUM] => k = l

(* The first descriptors of the requests that b->disk says are not         *)
(* finished.                                                               *)
Pending == {d \in Descs : \E p \in Submitted : head[p] = d /\ req[p].buf \in bdisk}

(* No ring overflows.                                                      *)
AvailInv == Live(devIdx, availIdx) < NUM /\ Once(availRing, devIdx, availIdx)
UsedInv == Live(seen, usedIdx) < NUM /\ Once(usedRing, seen, usedIdx)

(* A request that is not finished is in one place.                         *)
PlaceInv ==
  /\ Waiting \cup taken \cup Finished = Pending
  /\ Waiting \cap taken = {} /\ Waiting \cap Finished = {} /\ taken \cap Finished = {}

(* A finished request has succeeded and is about to be noticed.            *)
NoticeInv ==
  /\ \A h \in Finished : status[h]
  /\ seen # usedIdx => isr \/ intr

IInv == TypeOK /\ ChainInv /\ CallerInv /\ CommandInv /\ AvailInv /\ UsedInv /\ PlaceInv /\ NoticeInv

-----------------------------------------------------------------------------
(* Arithmetic of the rings.                                                *)

(* A set of natural numbers has a least one, which alloc_desc() finds.     *)
LEMMA Least == ASSUME NEW S, S \subseteq Nat, S # {} PROVE \E i \in S : \A j \in S : i <= j
  <1>1. PICK i \in S : \A j \in S : <<j, i>> \notin OpToRel(<, Nat)
    BY Zenon, WFMin, NatLessThanWellFounded
  <1>2. ASSUME NEW j \in S PROVE i <= j
    <2>1. ~(j < i)
      BY Zenon, <1>1 DEF OpToRel
    <2> QED
      BY SMTT(60), <2>1
  <1> QED
    BY Zenon, <1>2

(* What % computes, for a positive divisor.                                *)
LEMMA ModFacts ==
    ASSUME NEW a \in Int, NEW n \in Nat, n > 0
    PROVE  a % n \in 0 .. n - 1 /\ \E q \in Int : a = n * q + (a % n)
  <1>1. a % n \in 0 .. n - 1
    BY SMTT(60)
  <1>2. a = n * (a \div n) + (a % n)
    BY SMTT(60)
  <1>3. a \div n \in Int
    BY SMTT(60)
  <1> QED
    BY Zenon, <1>1, <1>2, <1>3

(* The remainder is the only one in its range.                             *)
LEMMA ModUnique ==
    ASSUME NEW a \in Int, NEW n \in Nat, n > 0, NEW q \in Int, NEW r \in 0 .. n - 1, a = n * q + r
    PROVE  a % n = r
  BY SMTT(60)

(* Adding a multiple of n leaves the remainder.                            *)
LEMMA ModShift ==
    ASSUME NEW b \in Int, NEW n \in Nat, n > 0, NEW q \in Int
    PROVE  (b + n * q) % n = b % n
  <1>1. PICK s \in Int : b = n * s + (b % n)
    BY Zenon, ModFacts
  <1>2. b % n \in 0 .. n - 1
    BY Zenon, ModFacts
  <1>3. s + q \in Int /\ b + n * q \in Int /\ b + n * q = n * (s + q) + (b % n)
    BY SMTT(60), <1>1, <1>2
  <1> QED
    BY Zenon, <1>2, <1>3, ModUnique

(* Fewer than n successive numbers have different remainders.              *)
LEMMA ModInjective ==
    ASSUME NEW i \in Int, NEW n \in Nat, n > 0, NEW k \in 0 .. n - 1, NEW l \in 0 .. n - 1,
           (i + k) % n = (i + l) % n
    PROVE  k = l
  <1>1. i + k \in Int /\ i + l \in Int
    BY SMTT(60)
  <1>2. PICK s \in Int : i + k = n * s + ((i + k) % n)
    BY Zenon, <1>1, ModFacts
  <1>3. PICK t \in Int : i + l = n * t + ((i + l) % n)
    BY Zenon, <1>1, ModFacts
  <1>4. (i + k) % n \in Int
    BY SMTT(60), <1>1
  <1>5. k - l = n * (s - t)
    BY SMTT(60), <1>2, <1>3, <1>4
  <1>6. CASE s - t >= 1
    BY SMTT(60), <1>5, <1>6
  <1>7. CASE s - t <= -1
    BY SMTT(60), <1>5, <1>7
  <1>8. CASE s = t
    BY SMTT(60), <1>5, <1>8
  <1> QED
    BY SMTT(60), <1>6, <1>7, <1>8

(* The number of live entries, without the remainder.                      *)
LEMMA LiveIs ==
    ASSUME NEW i \in Indexes, NEW j \in Indexes
    PROVE  Live(i, j) = IF i <= j THEN j - i ELSE j + Wrap - i
  <1>1. Wrap \in Nat /\ Wrap > 0 /\ i \in 0 .. Wrap - 1 /\ j \in 0 .. Wrap - 1
    BY SMTT(60), NumAssumption, WrapAssumption DEF Indexes
  <1>2. CASE i <= j
    <2>1. 1 \in Int /\ j - i \in 0 .. Wrap - 1 /\ j + Wrap - i = Wrap * 1 + (j - i) /\ j + Wrap - i \in Int
      BY SMTT(60), <1>1, <1>2
    <2> QED
      BY Zenon, <1>1, <1>2, <2>1, ModUnique DEF Live
  <1>3. CASE ~(i <= j)
    <2>1. 0 \in Int /\ j + Wrap - i \in 0 .. Wrap - 1 /\ j + Wrap - i = Wrap * 0 + (j + Wrap - i)
          /\ j + Wrap - i \in Int
      BY SMTT(60), <1>1, <1>3
    <2> QED
      BY Zenon, <1>1, <1>3, <2>1, ModUnique DEF Live
  <1> QED
    BY Zenon, <1>2, <1>3

(* The next index of a ring, which wraps like a uint16.                    *)
LEMMA Plus1Is ==
    ASSUME NEW i \in Indexes
    PROVE  Plus1(i) \in Indexes /\ Plus1(i) = IF i = Wrap - 1 THEN 0 ELSE i + 1
  <1>1. Wrap \in Nat /\ Wrap > 0 /\ i \in 0 .. Wrap - 1 /\ i + 1 \in Int
    BY SMTT(60), NumAssumption, WrapAssumption DEF Indexes
  <1>2. CASE i = Wrap - 1
    <2>1. 1 \in Int /\ 0 \in 0 .. Wrap - 1 /\ i + 1 = Wrap * 1 + 0
      BY SMTT(60), <1>1, <1>2
    <2>2. (i + 1) % Wrap = 0
      BY Zenon, <1>1, <2>1, ModUnique
    <2> QED
      BY Zenon, <1>2, <2>1, <2>2 DEF Plus1, Indexes
  <1>3. CASE i # Wrap - 1
    <2>1. 0 \in Int /\ i + 1 \in 0 .. Wrap - 1 /\ i + 1 = Wrap * 0 + (i + 1)
      BY SMTT(60), <1>1, <1>3
    <2>2. (i + 1) % Wrap = i + 1
      BY Zenon, <1>1, <2>1, ModUnique
    <2> QED
      BY Zenon, <1>3, <2>1, <2>2 DEF Plus1, Indexes
  <1> QED
    BY Zenon, <1>2, <1>3

(* One more entry, one entry less.                                         *)
LEMMA LiveSteps ==
    ASSUME NEW i \in Indexes, NEW j \in Indexes
    PROVE  /\ Live(i, j) \in Nat /\ (Live(i, j) = 0 <=> i = j)
           /\ Live(i, j) + 1 < Wrap => Live(i, Plus1(j)) = Live(i, j) + 1
           /\ i # j => Live(Plus1(i), j) = Live(i, j) - 1
  <1>1. Wrap \in Nat /\ i \in 0 .. Wrap - 1 /\ j \in 0 .. Wrap - 1
    BY SMTT(60), WrapAssumption DEF Indexes
  <1>2. Live(i, j) \in Nat /\ (Live(i, j) = 0 <=> i = j)
    BY SMTT(60), <1>1, LiveIs
  <1>3. Live(i, j) + 1 < Wrap => Live(i, Plus1(j)) = Live(i, j) + 1
    <2>1. Live(i, Plus1(j)) = IF i <= Plus1(j) THEN Plus1(j) - i ELSE Plus1(j) + Wrap - i
      BY Zenon, Plus1Is, LiveIs
    <2> QED
      BY SMTT(60), <1>1, <2>1, LiveIs, Plus1Is
  <1>4. i # j => Live(Plus1(i), j) = Live(i, j) - 1
    <2>1. Live(Plus1(i), j) = IF Plus1(i) <= j THEN j - Plus1(i) ELSE j + Wrap - Plus1(i)
      BY Zenon, Plus1Is, LiveIs
    <2> QED
      BY SMTT(60), <1>1, <2>1, LiveIs, Plus1Is
  <1> QED
    BY Zenon, <1>2, <1>3, <1>4

(* Indexes wrap at a multiple of NUM, so the entries of the rings follow   *)
(* each other across the wrap.                                             *)
LEMMA Slots ==
    ASSUME NEW i \in Indexes, NEW j \in Indexes
    PROVE  /\ (i + Live(i, j)) % NUM = j % NUM
           /\ \A k \in Nat : (Plus1(i) + k) % NUM = (i + (k + 1)) % NUM
  <1>1. /\ Wrap \in Nat /\ Wrap \in Int /\ NUM \in Nat /\ NUM > 0
        /\ i \in 0 .. Wrap - 1 /\ j \in 0 .. Wrap - 1 /\ i \in Int /\ j \in Int
    BY SMTT(60), NumAssumption, WrapAssumption DEF Indexes
  <1>2. PICK q \in Int : Wrap = NUM * q
    <2>1. PICK q \in Int : Wrap = NUM * q + (Wrap % NUM)
      BY Zenon, <1>1, ModFacts
    <2> QED
      BY SMTT(60), <1>1, <2>1, WrapAssumption
  <1>3. (i + Live(i, j)) % NUM = j % NUM
    <2>1. PICK s \in Int : i + Live(i, j) = j + NUM * s
      <3>1. i + Live(i, j) = j + NUM * 0 \/ i + Live(i, j) = j + NUM * q
        BY SMTT(60), <1>1, <1>2, LiveIs
      <3> QED
        BY SMTT(60), <3>1
    <2>2. i + Live(i, j) \in Int
      BY SMTT(60), <1>1, LiveSteps
    <2>3. (j + NUM * s) % NUM = j % NUM
      BY Zenon, <1>1, ModShift
    <2> QED
      BY Zenon, <2>1, <2>3
  <1>4. ASSUME NEW k \in Nat PROVE (Plus1(i) + k) % NUM = (i + (k + 1)) % NUM
    <2>1. PICK s \in Int : i + (k + 1) = (Plus1(i) + k) + NUM * s
      <3>1. i + (k + 1) = (Plus1(i) + k) + NUM * 0 \/ i + (k + 1) = (Plus1(i) + k) + NUM * q
        BY SMTT(60), <1>1, <1>2, Plus1Is
      <3> QED
        BY SMTT(60), <3>1
    <2>2. Plus1(i) + k \in Int /\ i + (k + 1) \in Int
      BY SMTT(60), <1>1, Plus1Is DEF Indexes
    <2>3. ((Plus1(i) + k) + NUM * s) % NUM = (Plus1(i) + k) % NUM
      BY Zenon, <1>1, <2>2, ModShift
    <2> QED
      BY Zenon, <2>1, <2>3
  <1> QED
    BY Zenon, <1>3, <1>4

-----------------------------------------------------------------------------
(* The rings.                                                              *)

(* Between, with Live.                                                     *)
LEMMA BetweenIs ==
    ASSUME NEW ring, NEW i, NEW j
    PROVE  Between(ring, i, j) = {ring[(i + k) % NUM] : k \in 0 .. Live(i, j) - 1}
  BY Zenon DEF Between, Live

(* A ring index names an entry of the ring.                                *)
LEMMA SlotIn == ASSUME NEW i \in Indexes, NEW k \in Nat PROVE (i + k) % NUM \in Descs
  <1>1. i + k \in Int /\ NUM \in Nat /\ NUM > 0
    BY SMTT(60), NumAssumption, WrapAssumption DEF Indexes
  <1> QED
    BY Zenon, <1>1, ModFacts DEF Descs

(* Putting h in a ring that is not full: virtio_disk_rw() in the avail     *)
(* ring, the device in the used ring.                                      *)
LEMMA Push ==
    ASSUME NEW ring, DOMAIN ring = Descs, NEW i \in Indexes, NEW j \in Indexes, NEW h,
           Live(i, j) < NUM, Live(i, j) + 1 < Wrap, Once(ring, i, j), h \notin Between(ring, i, j)
    PROVE  /\ Between([ring EXCEPT ![j % NUM] = h], i, Plus1(j)) = Between(ring, i, j) \cup {h}
           /\ Once([ring EXCEPT ![j % NUM] = h], i, Plus1(j))
  <1> DEFINE n == Live(i, j)
             after == [ring EXCEPT ![j % NUM] = h]
  <1>1. n \in Nat /\ n < NUM /\ NUM \in Nat /\ NUM > 0 /\ i \in Int /\ Live(i, Plus1(j)) = n + 1
    BY SMTT(60), LiveSteps, NumAssumption DEF Indexes
  <1>2. n \in 0 .. NUM - 1 /\ n \in 0 .. Live(i, Plus1(j)) - 1
    BY SMTT(60), <1>1
  <1>3. (i + n) % NUM = j % NUM /\ j % NUM \in Descs
    BY Zenon, <1>1, Slots, SlotIn
  <1>4. after[(i + n) % NUM] = h
    BY Zenon, <1>3
  <1>5. ASSUME NEW k \in 0 .. n - 1 PROVE after[(i + k) % NUM] = ring[(i + k) % NUM]
    <2>1. k \in 0 .. NUM - 1 /\ k # n /\ k \in Nat
      BY SMTT(60), <1>1
    <2>2. (i + k) % NUM # j % NUM
      BY Zenon, <1>1, <1>2, <1>3, <2>1, ModInjective
    <2>3. (i + k) % NUM \in Descs
      BY Zenon, <2>1, SlotIn
    <2> QED
      BY Zenon, <2>2, <2>3
  <1> HIDE DEF after
  <1>6. \A k \in 0 .. Live(i, Plus1(j)) - 1 : k \in 0 .. n - 1 \/ k = n
    BY SMTT(60), <1>1
  <1>7. \A k \in 0 .. n - 1 : k \in 0 .. Live(i, Plus1(j)) - 1
    BY SMTT(60), <1>1
  <1>8. \A k \in 0 .. n - 1 : ring[(i + k) % NUM] \in Between(ring, i, j)
    BY Zenon, BetweenIs
  <1>9. Between(after, i, Plus1(j)) \subseteq Between(ring, i, j) \cup {h}
    <2> SUFFICES ASSUME NEW k \in 0 .. Live(i, Plus1(j)) - 1
                 PROVE  after[(i + k) % NUM] \in Between(ring, i, j) \cup {h}
      BY Zenon, BetweenIs
    <2> QED
      BY Zenon, <1>4, <1>5, <1>6, <1>8
  <1>10. Between(ring, i, j) \cup {h} \subseteq Between(after, i, Plus1(j))
    <2>1. ASSUME NEW k \in 0 .. n - 1 PROVE ring[(i + k) % NUM] \in Between(after, i, Plus1(j))
      <3>1. after[(i + k) % NUM] \in {after[(i + m) % NUM] : m \in 0 .. Live(i, Plus1(j)) - 1}
        BY Zenon, <1>7
      <3>2. after[(i + k) % NUM] \in Between(after, i, Plus1(j))
        BY Zenon, <3>1, BetweenIs
      <3> QED
        BY Zenon, <3>2, <1>5
    <2>2. h \in Between(after, i, Plus1(j))
      BY Zenon, <1>2, <1>4, BetweenIs
    <2> QED
      BY Zenon, <2>1, <2>2, BetweenIs
  <1>11. Once(after, i, Plus1(j))
    <2> SUFFICES ASSUME NEW k \in 0 .. Live(i, Plus1(j)) - 1, NEW l \in 0 .. Live(i, Plus1(j)) - 1,
                        after[(i + k) % NUM] = after[(i + l) % NUM]
                 PROVE  k = l
      BY Zenon DEF Once
    <2>1. \A m \in 0 .. n - 1 : after[(i + m) % NUM] # h
      BY Zenon, <1>5, <1>8
    <2>2. CASE k \in 0 .. n - 1 /\ l \in 0 .. n - 1
      <3>1. ring[(i + k) % NUM] = ring[(i + l) % NUM]
        BY Zenon, <1>5, <2>2
      <3> QED
        BY Zenon, <2>2, <3>1 DEF Once
    <2> QED
      BY Zenon, <1>4, <1>6, <2>1, <2>2
  <1> QED
    BY Zenon, <1>9, <1>10, <1>11 DEF after

(* Taking the first entry of a ring: the device from the avail ring,       *)
(* virtio_disk_intr() from the used ring.                                  *)
LEMMA Pop ==
    ASSUME NEW ring, DOMAIN ring = Descs, NEW i \in Indexes, NEW j \in Indexes, i # j,
           Live(i, j) < NUM, Once(ring, i, j),
           NEW after, after = [ring EXCEPT ![i % NUM] = None]
    PROVE  /\ ring[i % NUM] \in Between(ring, i, j)
           /\ Between(after, Plus1(i), j) = Between(ring, i, j) \ {ring[i % NUM]}
           /\ Once(after, Plus1(i), j)
           /\ Live(Plus1(i), j) < NUM
  <1> DEFINE n == Live(i, j)
  <1>1. /\ n \in Nat /\ n > 0 /\ n < NUM /\ NUM \in Nat /\ NUM > 0 /\ i \in Int
        /\ Live(Plus1(i), j) = n - 1
    BY SMTT(60), LiveSteps, NumAssumption DEF Indexes
  <1>2. 0 \in 0 .. n - 1 /\ 0 \in 0 .. NUM - 1 /\ i + 0 = i /\ Live(Plus1(i), j) < NUM
    BY SMTT(60), <1>1
  <1>3. ring[i % NUM] \in Between(ring, i, j)
    BY Zenon, <1>2, BetweenIs
  <1>4. ASSUME NEW k \in 0 .. Live(Plus1(i), j) - 1
        PROVE  k + 1 \in 0 .. n - 1 /\ after[(Plus1(i) + k) % NUM] = ring[(i + (k + 1)) % NUM]
    <2>1. k \in Nat /\ k + 1 \in 0 .. n - 1 /\ k + 1 \in 0 .. NUM - 1 /\ k + 1 # 0 /\ k + 1 \in Nat
      BY SMTT(60), <1>1
    <2>2. (i + (k + 1)) % NUM # i % NUM
      BY Zenon, <1>1, <1>2, <2>1, ModInjective
    <2>3. (i + (k + 1)) % NUM \in Descs
      BY Zenon, <2>1, SlotIn
    <2>4. after[(i + (k + 1)) % NUM] = ring[(i + (k + 1)) % NUM]
      BY Zenon, <2>2, <2>3
    <2> QED
      BY Zenon, <2>1, <2>4, Slots
  <1>5. ASSUME NEW k \in 0 .. n - 1, k # 0
        PROVE  k - 1 \in 0 .. Live(Plus1(i), j) - 1 /\ (k - 1) + 1 = k
    BY SMTT(60), <1>1, <1>5
  <1>6. ASSUME NEW k \in 0 .. Live(Plus1(i), j) - 1
        PROVE  ring[(i + (k + 1)) % NUM] # ring[i % NUM]
    <2>1. k + 1 # 0
      BY SMTT(60), <1>1
    <2> QED
      BY Zenon, <1>2, <1>4, <2>1 DEF Once
  <1>7. Between(after, Plus1(i), j) \subseteq Between(ring, i, j) \ {ring[i % NUM]}
    <2> SUFFICES ASSUME NEW k \in 0 .. Live(Plus1(i), j) - 1
                 PROVE  after[(Plus1(i) + k) % NUM] \in Between(ring, i, j) \ {ring[i % NUM]}
      BY Zenon, BetweenIs
    <2>1. ring[(i + (k + 1)) % NUM] \in Between(ring, i, j)
      BY Zenon, <1>4, BetweenIs
    <2> QED
      BY Zenon, <1>4, <1>6, <2>1
  <1>8. Between(ring, i, j) \ {ring[i % NUM]} \subseteq Between(after, Plus1(i), j)
    <2> SUFFICES ASSUME NEW k \in 0 .. n - 1, ring[(i + k) % NUM] # ring[i % NUM]
                 PROVE  ring[(i + k) % NUM] \in Between(after, Plus1(i), j)
      BY Zenon, BetweenIs
    <2>1. k # 0
      BY Zenon, <1>2
    <2>2. after[(Plus1(i) + (k - 1)) % NUM] \in Between(after, Plus1(i), j)
      <3>1. k - 1 \in 0 .. Live(Plus1(i), j) - 1
        BY Zenon, <1>5, <2>1
      <3>2. after[(Plus1(i) + (k - 1)) % NUM]
            \in {after[(Plus1(i) + m) % NUM] : m \in 0 .. Live(Plus1(i), j) - 1}
        BY Zenon, <3>1
      <3> QED
        BY Zenon, <3>2, BetweenIs
    <2>3. after[(Plus1(i) + (k - 1)) % NUM] = ring[(i + ((k - 1) + 1)) % NUM]
      BY Zenon, <1>4, <1>5, <2>1
    <2>4. (k - 1) + 1 = k
      BY Zenon, <1>5, <2>1
    <2> QED
      BY Zenon, <2>2, <2>3, <2>4
  <1>9. Once(after, Plus1(i), j)
    <2> SUFFICES ASSUME NEW k \in 0 .. Live(Plus1(i), j) - 1, NEW l \in 0 .. Live(Plus1(i), j) - 1,
                        after[(Plus1(i) + k) % NUM] = after[(Plus1(i) + l) % NUM]
                 PROVE  k = l
      BY Zenon DEF Once
    <2>1. ring[(i + (k + 1)) % NUM] = ring[(i + (l + 1)) % NUM]
      BY Zenon, <1>4
    <2>2. k + 1 = l + 1
      BY Zenon, <1>4, <2>1 DEF Once
    <2> QED
      BY SMTT(60), <2>2
  <1> QED
    BY Zenon, <1>2, <1>3, <1>7, <1>8, <1>9

(* A ring whose entries are in S has no more entries than S.               *)
LEMMA Room ==
    ASSUME NEW ring, NEW i \in Indexes, NEW j \in Indexes, Once(ring, i, j),
           NEW S, IsFiniteSet(S), Between(ring, i, j) \subseteq S
    PROVE  Live(i, j) <= Cardinality(S)
  <1> DEFINE n == Live(i, j)
  <1> DEFINE f == [k \in 0 .. n - 1 |-> ring[(i + k) % NUM]]
  <1>1. n \in Nat /\ Cardinality(S) \in Nat /\ 0 \in Int /\ n - 1 \in Int
    <2>1. n \in Nat /\ Cardinality(S) \in Nat
      BY Zenon, LiveSteps, FS_CardinalityType
    <2> QED
      BY SMTT(60), <2>1
  <1>2. f \in [0 .. n - 1 -> S]
    BY Zenon, BetweenIs
  <1>3. IsFiniteSet(0 .. n - 1) /\ Cardinality(0 .. n - 1) = n
    <2> HIDE DEF n
    <2>1. IsFiniteSet(0 .. n - 1) /\ Cardinality(0 .. n - 1) = IF 0 > n - 1 THEN 0 ELSE n - 1 - 0 + 1
      BY Zenon, <1>1, FS_Interval
    <2> QED
      BY SMTT(60), <1>1, <2>1
  <1>4. ASSUME Cardinality(S) < n PROVE FALSE
    <2>1. PICK x \in 0 .. n - 1, y \in 0 .. n - 1 : x # y /\ f[x] = f[y]
      <3>1. Cardinality(S) < Cardinality(0 .. n - 1)
        BY Zenon, <1>3, <1>4
      <3> HIDE DEF n, f
      <3> QED
        BY Zenon, <1>2, <1>3, <3>1, FS_PigeonHole
    <2> QED
      BY Zenon, <2>1 DEF Once
  <1> HIDE DEF n
  <1>5. ~(Cardinality(S) < n) => n <= Cardinality(S)
    BY SMTT(60), <1>1
  <1> QED
    BY Zenon, <1>4, <1>5 DEF n

-----------------------------------------------------------------------------
(* What the operators and the actions do.                                  *)

(* There are NUM descriptors.                                              *)
LEMMA DescFacts ==
    /\ IsFiniteSet(Descs) /\ Cardinality(Descs) = NUM /\ Descs \subseteq Nat /\ None \notin Descs
    /\ \A i \in Indexes : i % NUM \in Descs
  <1>1. 0 \in Int /\ NUM - 1 \in Int /\ NUM - 1 - 0 + 1 = NUM /\ ~(0 > NUM - 1) /\ Descs \subseteq Nat
    BY SMTT(60), NumAssumption DEF Descs
  <1>2. IsFiniteSet(Descs) /\ Cardinality(Descs) = IF 0 > NUM - 1 THEN 0 ELSE NUM - 1 - 0 + 1
    BY Zenon, <1>1, FS_Interval DEF Descs
  <1>3. ASSUME NEW i \in Indexes PROVE i % NUM \in Descs
    <2>1. i + 0 = i /\ 0 \in Nat
      BY SMTT(60), WrapAssumption DEF Indexes
    <2> QED
      BY Zenon, <2>1, SlotIn
  <1> QED
    BY Zenon, <1>1, <1>2, <1>3, NoneAssumption

(* Removing two or three members of a set of descriptors.                  *)
LEMMA RemoveFacts ==
    ASSUME NEW S, IsFiniteSet(S), NEW a \in S, NEW b \in S, a # b
    PROVE  /\ IsFiniteSet(S \ {a, b}) /\ Cardinality(S \ {a, b}) = Cardinality(S) - 2
           /\ Cardinality(S) \in Nat
  <1>1. IsFiniteSet(S \ {a}) /\ Cardinality(S \ {a}) = Cardinality(S) - 1
    BY Zenon, FS_RemoveElement
  <1>2. S \ {a, b} = (S \ {a}) \ {b} /\ b \in S \ {a}
    BY Zenon
  <1>3. IsFiniteSet(S \ {a, b}) /\ Cardinality(S \ {a, b}) = Cardinality(S \ {a}) - 1
    BY Zenon, <1>1, <1>2, FS_RemoveElement
  <1>4. Cardinality(S) \in Nat
    BY Zenon, FS_CardinalityType
  <1>5. Cardinality(S) - 1 - 1 = Cardinality(S) - 2
    BY SMTT(60), <1>4
  <1> QED
    BY Zenon, <1>1, <1>3, <1>4, <1>5

(* alloc_desc() finds a free descriptor if there is one.                   *)
LEMMA LowestIn == ASSUME NEW S, S \subseteq Nat, S # {} PROVE Lowest(S) \in S
  BY Zenon, Least DEF Lowest

(* alloc3_desc() finds three different free descriptors.                   *)
LEMMA AllocFacts ==
    ASSUME free \subseteq Descs, Cardinality(free) >= 3
    PROVE  \E a, b, c \in free : a # b /\ a # c /\ b # c /\ Alloc3 = <<a, b, c>>
  <1> DEFINE a == Lowest(free)
             b == Lowest(free \ {a})
             c == Lowest(free \ {a, b})
  <1>1. IsFiniteSet(free) /\ free \subseteq Nat /\ Cardinality(free) \in Nat
    BY Zenon, DescFacts, FS_Subset, FS_CardinalityType
  <1>2. a \in free
    <2>1. free # {}
      <3>1. Cardinality(free) # 0
        BY SMTT(60)
      <3> QED
        BY Zenon, <3>1, FS_EmptySet
    <2> QED
      BY Zenon, <1>1, <2>1, LowestIn
  <1> HIDE DEF a
  <1>3. b \in free \ {a}
    <2>1. IsFiniteSet(free \ {a}) /\ Cardinality(free \ {a}) = Cardinality(free) - 1
      BY Zenon, <1>1, <1>2, FS_RemoveElement
    <2>2. Cardinality(free \ {a}) # 0
      BY SMTT(60), <1>1, <2>1
    <2>3. free \ {a} # {} /\ free \ {a} \subseteq Nat
      BY Zenon, <1>1, <2>1, <2>2, FS_EmptySet
    <2> QED
      BY Zenon, <2>3, LowestIn
  <1> HIDE DEF b
  <1>4. c \in free \ {a, b}
    <2>1. IsFiniteSet(free \ {a, b}) /\ Cardinality(free \ {a, b}) = Cardinality(free) - 2
      BY Zenon, <1>1, <1>2, <1>3, RemoveFacts
    <2>2. Cardinality(free \ {a, b}) # 0
      BY SMTT(60), <1>1, <2>1
    <2>3. free \ {a, b} # {} /\ free \ {a, b} \subseteq Nat
      BY Zenon, <1>1, <2>1, <2>2, FS_EmptySet
    <2> QED
      BY Zenon, <2>3, LowestIn
  <1>5. Alloc3 = <<a, b, c>>
    BY Zenon DEF Alloc3, a, b
  <1> QED
    BY Zenon, <1>2, <1>3, <1>4, <1>5

(* A request that is not finished has its buffer and its command in its    *)
(* first two descriptors.                                                  *)
LEMMA PendingFacts ==
    ASSUME IInv, NEW h \in Pending
    PROVE  \E p \in Submitted :
             /\ head[p] = h /\ h \in Descs /\ next[h] \in Descs /\ req[p].buf \in bdisk
             /\ req[p] \in Requests /\ info[h] = req[p].buf /\ addr[next[h]] = req[p].buf
             /\ ops[h] = [block |-> req[p].block, write |-> req[p].write]
  <1>1. PICK p \in Submitted : head[p] = h /\ req[p].buf \in bdisk
    BY Zenon DEF Pending
  <1>2. h \in Descs /\ next[h] \in Descs
    BY Zenon, <1>1 DEF IInv, ChainInv, Second
  <1>3. req[p] \in Requests
    <2>1. p \in Procs /\ pc[p] # "idle"
      BY Zenon DEF Submitted
    <2> QED
      BY Zenon, <2>1 DEF IInv, CallerInv
  <1>4. /\ info[h] = req[p].buf /\ addr[next[h]] = req[p].buf
        /\ ops[h] = [block |-> req[p].block, write |-> req[p].write]
    BY Zenon, <1>1 DEF IInv, CommandInv, Second
  <1> QED
    BY Zenon, <1>1, <1>2, <1>3, <1>4

(* Two submitted requests have different first descriptors and buffers,    *)
(* and a second descriptor is not the first of another request.            *)
LEMMA HeadFacts ==
    ASSUME IInv, NEW p \in Submitted, NEW q \in Submitted
    PROVE  /\ head[p] = head[q] => p = q
           /\ req[p].buf = req[q].buf => p = q
           /\ Second(p) # head[q]
  <1>1. p # q => Three(p) \cap Three(q) = {}
    BY Zenon DEF IInv, ChainInv
  <1>2. Second(p) # head[p]
    BY Zenon DEF IInv, ChainInv
  <1>3. p \in Procs /\ q \in Procs /\ pc[p] # "idle" /\ pc[q] # "idle"
    BY Zenon DEF Submitted
  <1>4. req[p].buf = req[q].buf => p = q
    BY Zenon, <1>3 DEF IInv, CallerInv
  <1> QED
    BY Zenon, <1>1, <1>2, <1>4 DEF Three

(* Submitting: three free descriptors become the chain of the request,     *)
(* whose first one goes in the avail ring.                                 *)
Submits(p, a, b, c) ==
  /\ a # b /\ a # c /\ b # c
  /\ free' = free \ {a, b, c}
  /\ next' = [next EXCEPT ![a] = b, ![b] = c, ![c] = None]
  /\ addr' = [addr EXCEPT ![b] = req[p].buf]
  /\ ops' = [ops EXCEPT ![a] = [block |-> req[p].block, write |-> req[p].write]]
  /\ status' = [status EXCEPT ![a] = FALSE]
  /\ bdisk' = bdisk \cup {req[p].buf} /\ info' = [info EXCEPT ![a] = req[p].buf]
  /\ availRing' = [availRing EXCEPT ![availIdx % NUM] = a]
  /\ head' = [head EXCEPT ![p] = a]

(* What virtio_disk_rw() does when it has three descriptors.               *)
LEMMA SubmitIs ==
    ASSUME IInv, NEW p \in Procs, RwSubmit(p)
    PROVE  \E a, b, c \in free : Submits(p, a, b, c)
  <1>1. free \subseteq Descs /\ Cardinality(free) >= 3
    BY Zenon DEF IInv, TypeOK, RwSubmit
  <1>2. PICK a \in free, b \in free, c \in free : a # b /\ a # c /\ b # c /\ Alloc3 = <<a, b, c>>
    BY Zenon, <1>1, AllocFacts
  <1>3. Alloc3[1] = a /\ Alloc3[2] = b /\ Alloc3[3] = c
    BY SMTT(60), <1>2
  <1>4. Submits(p, a, b, c)
    BY Zenon, <1>2, <1>3 DEF Submits, RwSubmit, Record
  <1> QED
    BY Zenon, <1>4

(* The avail ring has room for it.                                         *)
LEMMA SubmitRing ==
    ASSUME IInv, NEW a \in free, NEW b \in free, a # b, availIdx' = Plus1(availIdx),
           devIdx' = devIdx, availRing' = [availRing EXCEPT ![availIdx % NUM] = a]
    PROVE  a \notin Waiting /\ Waiting' = Waiting \cup {a} /\ AvailInv'
  <1>1. /\ devIdx \in Indexes /\ availIdx \in Indexes /\ DOMAIN availRing = Descs
        /\ a \in Descs /\ b \in Descs
    BY Zenon DEF IInv, TypeOK
  <1>2. Waiting \subseteq Descs \ {a, b}
    <2>1. Waiting \subseteq Pending
      BY Zenon DEF IInv, PlaceInv
    <2>2. Pending \subseteq Descs \ {a, b}
      BY Zenon DEF Pending, IInv, ChainInv
    <2> QED
      BY Zenon, <2>1, <2>2
  <1>3. /\ IsFiniteSet(Descs \ {a, b}) /\ Cardinality(Descs \ {a, b}) = NUM - 2
    BY Zenon, <1>1, RemoveFacts, DescFacts
  <1>4. Live(devIdx, availIdx) <= NUM - 2
    <2>1. /\ Live(devIdx, availIdx) < NUM /\ Once(availRing, devIdx, availIdx)
          /\ Between(availRing, devIdx, availIdx) \subseteq Descs \ {a, b}
      BY Zenon, <1>2 DEF Waiting, IInv, AvailInv
    <2>2. Live(devIdx, availIdx) <= Cardinality(Descs \ {a, b})
      BY Zenon, <1>1, <1>3, <2>1, Room
    <2> QED
      BY Zenon, <1>3, <2>2
  <1>5. /\ Live(devIdx, availIdx) < NUM /\ Live(devIdx, availIdx) + 1 < Wrap
        /\ Live(devIdx, Plus1(availIdx)) < NUM
    BY SMTT(60), <1>1, <1>4, LiveSteps, NumAssumption, WrapAssumption
  <1>6. Once(availRing, devIdx, availIdx) /\ a \notin Between(availRing, devIdx, availIdx)
    BY Zenon, <1>2 DEF IInv, AvailInv, Waiting
  <1>7. /\ Between([availRing EXCEPT ![availIdx % NUM] = a], devIdx, Plus1(availIdx)) =
              Between(availRing, devIdx, availIdx) \cup {a}
        /\ Once([availRing EXCEPT ![availIdx % NUM] = a], devIdx, Plus1(availIdx))
    BY Zenon, <1>1, <1>5, <1>6, Push
  <1> QED
    BY Zenon, <1>5, <1>6, <1>7 DEF Waiting, AvailInv

(* The device takes the first entry of the avail ring.                     *)
LEMMA TakeIs ==
    ASSUME IInv, DevTake
    PROVE  \E h \in Waiting : Waiting' = Waiting \ {h} /\ taken' = taken \cup {h} /\ AvailInv'
  <1>1. /\ devIdx \in Indexes /\ availIdx \in Indexes /\ devIdx # availIdx
        /\ DOMAIN availRing = Descs
        /\ Live(devIdx, availIdx) < NUM /\ Once(availRing, devIdx, availIdx)
    BY Zenon DEF IInv, TypeOK, AvailInv, DevTake
  <1>2. /\ devIdx' = Plus1(devIdx) /\ availIdx' = availIdx
        /\ availRing' = [availRing EXCEPT ![devIdx % NUM] = None]
        /\ taken' = taken \cup {availRing[devIdx % NUM]}
    BY Zenon DEF DevTake
  <1>3. /\ availRing[devIdx % NUM] \in Waiting
        /\ Between(availRing', Plus1(devIdx), availIdx) = Waiting \ {availRing[devIdx % NUM]}
        /\ Once(availRing', Plus1(devIdx), availIdx) /\ Live(Plus1(devIdx), availIdx) < NUM
    BY Zenon, <1>1, <1>2, Pop DEF Waiting
  <1>4. Waiting' = Waiting \ {availRing[devIdx % NUM]} /\ AvailInv'
    BY Zenon, <1>2, <1>3 DEF Waiting, AvailInv
  <1> QED
    BY Zenon, <1>2, <1>3, <1>4

(* The used ring has room for the chain that the device finishes.          *)
LEMMA FinishRing ==
    ASSUME IInv, NEW h \in Descs, DevFinish(h)
    PROVE  /\ h \in taken /\ h \in Pending /\ h \notin Finished
           /\ Finished' = Finished \cup {h} /\ UsedInv'
  <1>1. /\ seen \in Indexes /\ usedIdx \in Indexes /\ DOMAIN usedRing = Descs
        /\ usedIdx' = Plus1(usedIdx) /\ seen' = seen
        /\ usedRing' = [usedRing EXCEPT ![usedIdx % NUM] = h] /\ h \in taken
    BY Zenon DEF IInv, TypeOK, DevFinish
  <1>2. h \in Pending /\ h \notin Finished /\ Finished \subseteq Pending
    BY Zenon, <1>1 DEF IInv, PlaceInv
  <1>3. PICK p \in Submitted : head[p] = h /\ next[h] \in Descs
    BY Zenon, <1>2, PendingFacts
  <1>4. next[h] # h
    BY Zenon, <1>3, HeadFacts DEF Second
  <1>5. next[h] \notin Pending
    BY Zenon, <1>3, HeadFacts DEF Second, Pending
  <1>6. Pending \subseteq Descs
    BY Zenon DEF Pending
  <1>7. Finished \subseteq Descs \ {h, next[h]}
    BY Zenon, <1>2, <1>5, <1>6
  <1>8. IsFiniteSet(Descs \ {h, next[h]}) /\ Cardinality(Descs \ {h, next[h]}) = NUM - 2
    BY Zenon, <1>3, <1>4, RemoveFacts, DescFacts
  <1>9. Live(seen, usedIdx) <= NUM - 2
    <2>1. /\ Live(seen, usedIdx) < NUM /\ Once(usedRing, seen, usedIdx)
          /\ Between(usedRing, seen, usedIdx) \subseteq Descs \ {h, next[h]}
      BY Zenon, <1>7 DEF Finished, IInv, UsedInv
    <2>2. Live(seen, usedIdx) <= Cardinality(Descs \ {h, next[h]})
      BY Zenon, <1>1, <1>8, <2>1, Room
    <2> QED
      BY Zenon, <1>8, <2>2
  <1>10. /\ Live(seen, usedIdx) < NUM /\ Live(seen, usedIdx) + 1 < Wrap
         /\ Live(seen, Plus1(usedIdx)) < NUM
    BY SMTT(60), <1>1, <1>9, LiveSteps, NumAssumption, WrapAssumption
  <1>11. Once(usedRing, seen, usedIdx) /\ h \notin Between(usedRing, seen, usedIdx)
    BY Zenon, <1>2 DEF IInv, UsedInv, Finished
  <1>12. /\ Between([usedRing EXCEPT ![usedIdx % NUM] = h], seen, Plus1(usedIdx)) =
              Between(usedRing, seen, usedIdx) \cup {h}
         /\ Once([usedRing EXCEPT ![usedIdx % NUM] = h], seen, Plus1(usedIdx))
    BY Zenon, <1>1, <1>10, <1>11, Push
  <1>13. Finished' = Finished \cup {h} /\ UsedInv'
    BY Zenon, <1>1, <1>10, <1>12 DEF Finished, UsedInv
  <1> QED
    BY Zenon, <1>1, <1>2, <1>13

(* The interrupt handler takes the first entry of the used ring, which is  *)
(* a request that waits for it, and clears its b->disk.                    *)
LEMMA EntryIs ==
    ASSUME IInv, IntrEntry
    PROVE  \E p \in Submitted :
             /\ head[p] \in Finished /\ req[p].buf \in bdisk
             /\ Finished' = Finished \ {head[p]} /\ UsedInv'
             /\ bdisk' = bdisk \ {req[p].buf}
             /\ pc' = [q \in Procs |-> IF pc[q] = "wait_io" /\ req[q].buf = req[p].buf
                                         THEN "woken" ELSE pc[q]]
  <1> DEFINE h == usedRing[seen % NUM]
  <1>1. /\ seen \in Indexes /\ usedIdx \in Indexes /\ seen # usedIdx /\ DOMAIN usedRing = Descs
        /\ Live(seen, usedIdx) < NUM /\ Once(usedRing, seen, usedIdx)
    BY Zenon DEF IInv, TypeOK, UsedInv, IntrEntry
  <1>2. /\ seen' = Plus1(seen) /\ usedIdx' = usedIdx
        /\ usedRing' = [usedRing EXCEPT ![seen % NUM] = None]
    BY Zenon DEF IntrEntry, devVars
  <1>3. /\ h \in Finished /\ Between(usedRing', Plus1(seen), usedIdx) = Finished \ {h}
        /\ Once(usedRing', Plus1(seen), usedIdx) /\ Live(Plus1(seen), usedIdx) < NUM
    BY Zenon, <1>1, <1>2, Pop DEF Finished
  <1>4. Finished' = Finished \ {h} /\ UsedInv'
    BY Zenon, <1>2, <1>3 DEF Finished, UsedInv
  <1>5. h \in Pending
    BY Zenon, <1>3 DEF IInv, PlaceInv
  <1>6. PICK p \in Submitted : head[p] = h /\ req[p].buf \in bdisk /\ info[h] = req[p].buf
    BY Zenon, <1>5, PendingFacts
  <1>7. /\ bdisk' = bdisk \ {info[h]}
        /\ pc' = [q \in Procs |-> IF pc[q] = "wait_io" /\ req[q].buf = info[h]
                                    THEN "woken" ELSE pc[q]]
    BY Zenon DEF IntrEntry
  <1> QED
    BY Zenon, <1>3, <1>4, <1>6, <1>7

(* free_chain() follows a chain to its end.                                *)
LEMMA ChainIs == ASSUME IInv, NEW p \in Submitted PROVE Chain(head[p]) = Three(p)
  <1>1. Second(p) \in Descs /\ Third(p) \in Descs
    BY Zenon DEF IInv, ChainInv
  <1>2. next[head[p]] # None /\ next[next[head[p]]] # None
    BY Zenon, <1>1, DescFacts DEF Second, Third
  <1> QED
    BY Zenon, <1>2 DEF Chain, Three, Second, Third

(* Who has submitted a request, after each step.                           *)
LEMMA SubmitSubmitted ==
    ASSUME IInv, NEW p \in Procs, RwSubmit(p)
    PROVE  p \notin Submitted /\ Submitted' = Submitted \cup {p} /\ req' = req
  <1>1. pc \in [Procs -> Pcs] /\ pc[p] = "rw" /\ pc' = [pc EXCEPT ![p] = "wait_io"] /\ req' = req
    BY Zenon DEF IInv, TypeOK, RwSubmit, Goto
  <1> QED
    BY SMTT(60), <1>1 DEF Submitted

(* virtio_disk_rw() returns: its request was submitted, and b->disk is     *)
(* clear.                                                                  *)
LEMMA DoneSubmitted ==
    ASSUME IInv, NEW p \in Procs, RwDone(p)
    PROVE  /\ p \in Submitted /\ Submitted' = Submitted \ {p} /\ req[p].buf \notin bdisk
           /\ req' = [req EXCEPT ![p] = None] /\ head' = [head EXCEPT ![p] = None]
  <1>1. /\ pc \in [Procs -> Pcs] /\ pc[p] = "woken" /\ req[p].buf \notin bdisk
        /\ pc' = [q \in Procs |-> IF q = p THEN "idle"
                                  ELSE IF pc[q] = "wait_desc" THEN "rw" ELSE pc[q]]
    BY Zenon DEF IInv, TypeOK, RwDone, RwReturn, WakeFree
  <1>2. p \in Submitted /\ Submitted' = Submitted \ {p}
    BY SMTT(60), <1>1 DEF Submitted
  <1> QED
    BY Zenon, <1>1, <1>2 DEF RwDone, RwReturn

(* The steps that submit nothing and finish nothing.                       *)
Steady ==
  /\ Submitted' = Submitted /\ UNCHANGED <<free, next, addr, ops, info, head>>
  /\ \A p \in Submitted : req'[p] = req[p]

(* A caller enters virtio_disk_rw(): no descriptor and no ring changes.    *)
LEMMA CallSteady ==
    ASSUME IInv, NEW p \in Procs, NEW r \in Requests, NEW v \in Vals, Call(p, r, v)
    PROVE  Steady /\ p \notin Submitted /\ pc' = [pc EXCEPT ![p] = "rw"] /\ req' = [req EXCEPT ![p] = r]
  <1>1. /\ pc \in [Procs -> Pcs] /\ req \in [Procs -> Requests \cup {None}] /\ pc[p] = "idle"
        /\ pc' = [pc EXCEPT ![p] = "rw"] /\ req' = [req EXCEPT ![p] = r]
    BY Zenon DEF IInv, TypeOK, Call, Goto
  <1>2. UNCHANGED <<free, next, addr, ops, info, head>>
    BY Zenon DEF Call, descVars
  <1>3. Submitted' = Submitted /\ p \notin Submitted
    BY SMTT(60), <1>1 DEF Submitted
  <1>4. \A q \in Submitted : q \in Procs /\ q # p
    BY Zenon, <1>3 DEF Submitted
  <1>5. \A q \in Submitted : req'[q] = req[q]
    BY Zenon, <1>1, <1>4
  <1> QED
    BY Zenon, <1>1, <1>2, <1>3, <1>5 DEF Steady

(* virtio_disk_rw() sleeps or looks again: no descriptor and no ring       *)
(* changes.                                                                *)
LEMMA RwSteady ==
    ASSUME IInv, NEW p \in Procs, RwNoDesc(p) \/ RwAgain(p) \/ KillWake(p)
    PROVE  Steady /\ req' = req /\ \A q \in Procs : pc'[q] = "idle" <=> pc[q] = "idle"
  <1>1. pc \in [Procs -> Pcs]
    BY Zenon DEF IInv, TypeOK
  <1>2. UNCHANGED <<free, next, addr, ops, info, head>> /\ req' = req
    BY Zenon DEF RwNoDesc, RwAgain, KillWake, descVars
  <1>3. \/ pc[p] = "rw" /\ pc' = [pc EXCEPT ![p] = "wait_desc"]
        \/ /\ pc[p] = "rw"
           /\ pc' = [q \in Procs |-> IF q = p THEN "wait_desc"
                                     ELSE IF pc[q] = "wait_desc" THEN "rw" ELSE pc[q]]
        \/ pc[p] = "wait_desc" /\ pc' = [pc EXCEPT ![p] = "rw"]
        \/ pc[p] = "woken" /\ pc' = [pc EXCEPT ![p] = "wait_io"]
        \/ pc[p] = "wait_io" /\ pc' = [pc EXCEPT ![p] = "woken"]
    BY Zenon DEF RwNoDesc, RwAgain, KillWake, Goto, WakeFree
  <1>4. Submitted' = Submitted /\ \A q \in Procs : pc'[q] = "idle" <=> pc[q] = "idle"
    BY SMTT(60), <1>1, <1>3 DEF Submitted
  <1> QED
    BY Zenon, <1>2, <1>4 DEF Steady

(* The interrupt handler leaves the descriptors to their requests.         *)
LEMMA IntrSteady ==
    ASSUME IInv, IntrStep
    PROVE  Steady /\ req' = req /\ \A q \in Procs : pc'[q] = "idle" <=> pc[q] = "idle"
  <1>1. pc \in [Procs -> Pcs]
    BY Zenon DEF IInv, TypeOK
  <1>2. UNCHANGED <<free, next, addr, ops, info, head>> /\ req' = req
    BY Zenon DEF IntrStep, IntrAck, IntrEntry, IntrExit, descVars
  <1>3. CASE IntrEntry
    <2>1. PICK p \in Submitted :
            pc' = [q \in Procs |-> IF pc[q] = "wait_io" /\ req[q].buf = req[p].buf
                                     THEN "woken" ELSE pc[q]]
      BY Zenon, <1>3, EntryIs
    <2>2. Submitted' = Submitted /\ \A q \in Procs : pc'[q] = "idle" <=> pc[q] = "idle"
      BY SMTT(60), <1>1, <2>1 DEF Submitted
    <2> QED
      BY Zenon, <1>2, <2>2 DEF Steady
  <1>4. CASE pc' = pc
    BY Zenon, <1>2, <1>4 DEF Steady, Submitted
  <1> QED
    BY Zenon, <1>3, <1>4 DEF IntrStep, IntrAck, IntrExit

(* The device leaves the descriptors to their requests.                    *)
LEMMA DevSteady ==
    ASSUME NEW h \in Descs, DevStep(h)
    PROVE  Steady /\ req' = req /\ pc' = pc
  <1>1. UNCHANGED <<free, next, addr, ops, info, head>> /\ req' = req /\ pc' = pc
    BY Zenon DEF DevStep, DevTake, DevFinish, descVars
  <1> QED
    BY Zenon, <1>1 DEF Steady, Submitted

(* Only a submission and a return change whose the descriptors are.        *)
LEMMA NextSteady ==
    ASSUME IInv, Next
    PROVE  Steady \/ \E p \in Procs : RwSubmit(p) \/ RwDone(p)
  BY Zenon, CallSteady, RwSteady, IntrSteady, DevSteady DEF Next, RwStep

-----------------------------------------------------------------------------
(* Every step keeps the invariant.                                         *)

(* A submission, seen from the chains: those of the others stay.           *)
LEMMA SubmitChains ==
    ASSUME IInv, NEW p \in Procs, RwSubmit(p), NEW a \in free, NEW b \in free, NEW c \in free,
           Submits(p, a, b, c)
    PROVE  /\ head'[p] = a /\ Second(p)' = b /\ Third(p)' = c
           /\ \A q \in Submitted : head'[q] = head[q] /\ Second(q)' = Second(q) /\ Third(q)' = Third(q)
  <1>1. /\ DOMAIN next = Descs /\ DOMAIN head = Procs
        /\ a \in Descs /\ b \in Descs /\ c \in Descs
    BY Zenon DEF IInv, TypeOK
  <1>2. head'[p] = a
    BY Zenon, <1>1 DEF Submits
  <1>3. next'[a] = b /\ next'[b] = c
    BY SMTT(60), <1>1 DEF Submits
  <1>4. ASSUME NEW d \in Descs \ free PROVE next'[d] = next[d]
    BY SMTT(60), <1>1 DEF Submits
  <1>5. ASSUME NEW q \in Submitted
        PROVE  head'[q] = head[q] /\ Second(q)' = Second(q) /\ Third(q)' = Third(q)
    <2>1. q \in Procs /\ q # p
      BY Zenon, SubmitSubmitted DEF Submitted
    <2>2. head'[q] = head[q]
      BY Zenon, <1>1, <2>1 DEF Submits
    <2>3. head[q] \in Descs \ free /\ next[head[q]] \in Descs \ free
      BY Zenon DEF IInv, ChainInv, Second
    <2> QED
      BY Zenon, <1>4, <2>2, <2>3 DEF Second, Third
  <1> QED
    BY Zenon, <1>2, <1>3, <1>5 DEF Second, Third

(* A submission takes three free descriptors.                              *)
LEMMA SubmitChain == ASSUME IInv, NEW p \in Procs, RwSubmit(p) PROVE ChainInv'
  <1>1. PICK a \in free, b \in free, c \in free : Submits(p, a, b, c)
    BY Zenon, SubmitIs
  <1>2. /\ a # b /\ a # c /\ b # c /\ free' = free \ {a, b, c}
        /\ head'[p] = a /\ Second(p)' = b /\ Third(p)' = c
        /\ \A q \in Submitted : head'[q] = head[q] /\ Second(q)' = Second(q) /\ Third(q)' = Third(q)
    BY Zenon, <1>1, SubmitChains DEF Submits
  <1>3. Three(p)' = {a, b, c} /\ \A q \in Submitted : Three(q)' = Three(q)
    BY Zenon, <1>2 DEF Three
  <1>4. Submitted' = Submitted \cup {p} /\ p \notin Submitted
    BY Zenon, SubmitSubmitted
  <1>5. a \in Descs /\ b \in Descs /\ c \in Descs
    BY Zenon DEF IInv, TypeOK
  <1>6. \A q \in Submitted : Three(q) \cap free = {}
    BY SMTT(60) DEF IInv, ChainInv, Three
  <1>7. ASSUME NEW q \in Submitted'
        PROVE  /\ head'[q] \in Descs \ free' /\ Second(q)' \in Descs \ free' /\ Third(q)' \in Descs \ free'
               /\ head'[q] # Second(q)' /\ head'[q] # Third(q)' /\ Second(q)' # Third(q)'
    <2>1. CASE q = p
      BY SMTT(60), <1>2, <1>5, <2>1
    <2>2. CASE q \in Submitted
      BY SMTT(60), <1>2, <2>2 DEF IInv, ChainInv
    <2> QED
      BY Zenon, <1>4, <2>1, <2>2
  <1>8. ASSUME NEW q \in Submitted', NEW r \in Submitted', q # r PROVE Three(q)' \cap Three(r)' = {}
    <2>1. CASE q \in Submitted /\ r \in Submitted
      BY Zenon, <1>3, <1>8, <2>1 DEF IInv, ChainInv
    <2>2. CASE q = p /\ r \in Submitted
      BY Zenon, <1>3, <1>6, <2>2
    <2>3. CASE r = p /\ q \in Submitted
      BY Zenon, <1>3, <1>6, <2>3
    <2> QED
      BY Zenon, <1>4, <1>8, <2>1, <2>2, <2>3
  <1>9. ASSUME NEW d \in Descs \ free' PROVE \E q \in Submitted' : d \in Three(q)'
    <2>1. CASE d \in {a, b, c}
      BY Zenon, <1>3, <1>4, <2>1
    <2>2. CASE d \in Descs \ free
      BY SMTT(60), <1>3, <1>4, <2>2 DEF IInv, ChainInv
    <2> QED
      BY Zenon, <1>2, <2>1, <2>2
  <1> QED
    BY Zenon, <1>7, <1>8, <1>9 DEF ChainInv

(* A return, seen from the chains.                                         *)
LEMMA DoneChains ==
    ASSUME IInv, NEW p \in Procs, RwDone(p)
    PROVE  /\ free' = free \cup Three(p)
           /\ \A d \in Descs \ Three(p) : next'[d] = next[d] /\ addr'[d] = addr[d]
           /\ \A q \in Submitted \ {p} :
                head'[q] = head[q] /\ Second(q)' = Second(q) /\ Third(q)' = Third(q)
  <1>1. p \in Submitted /\ head' = [head EXCEPT ![p] = None] /\ DOMAIN head = Procs
    BY Zenon, DoneSubmitted DEF IInv, TypeOK
  <1>2. Chain(head[p]) = Three(p)
    BY Zenon, <1>1, ChainIs
  <1>3. /\ free' = free \cup Three(p)
        /\ next' = [d \in Descs |-> IF d \in Three(p) THEN None ELSE next[d]]
        /\ addr' = [d \in Descs |-> IF d \in Three(p) THEN None ELSE addr[d]]
    BY Zenon, <1>2 DEF RwDone, RwReturn, FreeChain
  <1>4. \A d \in Descs \ Three(p) : next'[d] = next[d] /\ addr'[d] = addr[d]
    BY Zenon, <1>3
  <1>5. ASSUME NEW q \in Submitted \ {p}
        PROVE  head'[q] = head[q] /\ Second(q)' = Second(q) /\ Third(q)' = Third(q)
    <2>1. head'[q] = head[q]
      BY Zenon, <1>1 DEF Submitted
    <2>2. Three(q) \cap Three(p) = {} /\ head[q] \in Descs /\ Second(q) \in Descs
      BY Zenon, <1>1 DEF IInv, ChainInv
    <2>3. head[q] \in Descs \ Three(p) /\ next[head[q]] \in Descs \ Three(p)
      BY Zenon, <2>2 DEF Three, Second
    <2> QED
      BY Zenon, <1>4, <2>1, <2>3 DEF Second, Third
  <1> QED
    BY Zenon, <1>3, <1>4, <1>5

(* free_chain() frees the three descriptors of the request and no others.  *)
LEMMA DoneChain == ASSUME IInv, NEW p \in Procs, RwDone(p) PROVE ChainInv'
  <1>1. /\ free' = free \cup Three(p)
        /\ \A q \in Submitted \ {p} :
             head'[q] = head[q] /\ Second(q)' = Second(q) /\ Third(q)' = Third(q)
    BY Zenon, DoneChains
  <1>2. p \in Submitted /\ Submitted' = Submitted \ {p}
    BY Zenon, DoneSubmitted
  <1>3. \A q \in Submitted' : Three(q)' = Three(q) /\ Three(q) \cap Three(p) = {}
    BY Zenon, <1>1, <1>2 DEF Three, IInv, ChainInv
  <1>4. ASSUME NEW q \in Submitted'
        PROVE  /\ head'[q] \in Descs \ free' /\ Second(q)' \in Descs \ free' /\ Third(q)' \in Descs \ free'
               /\ head'[q] # Second(q)' /\ head'[q] # Third(q)' /\ Second(q)' # Third(q)'
    <2>1. head[q] \notin Three(p) /\ Second(q) \notin Three(p) /\ Third(q) \notin Three(p)
      BY Zenon, <1>3 DEF Three
    <2>2. /\ head[q] \in Descs \ free /\ Second(q) \in Descs \ free /\ Third(q) \in Descs \ free
          /\ head[q] # Second(q) /\ head[q] # Third(q) /\ Second(q) # Third(q)
      BY Zenon, <1>2 DEF IInv, ChainInv
    <2>3. head'[q] = head[q] /\ Second(q)' = Second(q) /\ Third(q)' = Third(q)
      BY Zenon, <1>1, <1>2
    <2> QED
      BY Zenon, <1>1, <2>1, <2>2, <2>3
  <1>5. ASSUME NEW q \in Submitted', NEW r \in Submitted', q # r PROVE Three(q)' \cap Three(r)' = {}
    BY Zenon, <1>2, <1>3, <1>5 DEF IInv, ChainInv
  <1>6. ASSUME NEW d \in Descs \ free' PROVE \E q \in Submitted' : d \in Three(q)'
    <2>1. d \in Descs \ free /\ d \notin Three(p)
      BY Zenon, <1>1
    <2>2. PICK q \in Submitted : d \in Three(q)
      BY Zenon, <2>1 DEF IInv, ChainInv
    <2>3. q \in Submitted'
      BY Zenon, <1>2, <2>1, <2>2
    <2> QED
      BY Zenon, <1>3, <2>2, <2>3
  <1> QED
    BY Zenon, <1>4, <1>5, <1>6 DEF ChainInv

(* The chains stay disjoint and nothing leaks.                             *)
LEMMA ChainNext == ASSUME IInv, Next PROVE ChainInv'
  <1>1. CASE Steady
    <2>1. Submitted' = Submitted /\ free' = free /\ next' = next /\ head' = head
      BY Zenon, <1>1 DEF Steady
    <2> QED
      BY Zenon, <2>1 DEF IInv, ChainInv, Three, Second, Third
  <1> QED
    BY Zenon, <1>1, NextSteady, SubmitChain, DoneChain

(* No two callers get the same buffer: the caller holds its sleep lock.    *)
LEMMA CallCaller ==
    ASSUME IInv, NEW p \in Procs, NEW r \in Requests, NEW v \in Vals, Call(p, r, v)
    PROVE  CallerInv'
  <1>1. /\ pc' = [pc EXCEPT ![p] = "rw"] /\ req' = [req EXCEPT ![p] = r]
        /\ DOMAIN pc = Procs /\ DOMAIN req = Procs
    BY Zenon, CallSteady DEF IInv, TypeOK
  <1>2. \A q \in Procs : pc[q] # "idle" => req[q].buf # r.buf
    BY Zenon DEF Call, Busy
  <1>3. pc'[p] = "rw" /\ req'[p] = r
    BY Zenon, <1>1
  <1>4. \A q \in Procs \ {p} : pc'[q] = pc[q] /\ req'[q] = req[q]
    BY Zenon, <1>1
  <1>5. ASSUME NEW q \in Procs PROVE IF pc'[q] = "idle" THEN req'[q] = None ELSE req'[q] \in Requests
    BY SMTT(60), <1>3, <1>4 DEF IInv, CallerInv
  <1>6. ASSUME NEW q \in Procs, NEW s \in Procs, pc'[q] # "idle", pc'[s] # "idle",
               req'[q].buf = req'[s].buf
        PROVE  q = s
    BY SMTT(60), <1>2, <1>3, <1>4, <1>6 DEF IInv, CallerInv
  <1> QED
    BY Zenon, <1>5, <1>6 DEF CallerInv

(* A return leaves the other callers their buffers.                        *)
LEMMA DoneCaller == ASSUME IInv, NEW p \in Procs, RwDone(p) PROVE CallerInv'
  <1>1. /\ req' = [req EXCEPT ![p] = None] /\ DOMAIN req = Procs
        /\ pc' = [q \in Procs |-> IF q = p THEN "idle"
                                  ELSE IF pc[q] = "wait_desc" THEN "rw" ELSE pc[q]]
    BY Zenon, DoneSubmitted DEF IInv, TypeOK, RwDone, WakeFree
  <1>2. pc'[p] = "idle" /\ req'[p] = None
    BY Zenon, <1>1
  <1>3. \A q \in Procs \ {p} : (pc'[q] = "idle" <=> pc[q] = "idle") /\ req'[q] = req[q]
    BY SMTT(60), <1>1
  <1>4. ASSUME NEW q \in Procs PROVE IF pc'[q] = "idle" THEN req'[q] = None ELSE req'[q] \in Requests
    BY SMTT(60), <1>2, <1>3 DEF IInv, CallerInv
  <1>5. ASSUME NEW q \in Procs, NEW s \in Procs, pc'[q] # "idle", pc'[s] # "idle",
               req'[q].buf = req'[s].buf
        PROVE  q = s
    BY SMTT(60), <1>2, <1>3, <1>5 DEF IInv, CallerInv
  <1> QED
    BY Zenon, <1>4, <1>5 DEF CallerInv

(* Every step keeps the callers apart.                                     *)
LEMMA CallerNext == ASSUME IInv, Next PROVE CallerInv'
  <1>1. CASE req' = req /\ \A q \in Procs : pc'[q] = "idle" <=> pc[q] = "idle"
    BY Zenon, <1>1 DEF IInv, CallerInv
  <1>2. ASSUME NEW p \in Procs, RwSubmit(p) PROVE CallerInv'
    <2>1. pc \in [Procs -> Pcs] /\ pc[p] = "rw" /\ pc' = [pc EXCEPT ![p] = "wait_io"] /\ req' = req
      BY Zenon, <1>2 DEF IInv, TypeOK, RwSubmit, Goto
    <2>2. \A q \in Procs : pc'[q] = "idle" <=> pc[q] = "idle"
      BY SMTT(60), <2>1
    <2> QED
      BY Zenon, <1>1, <2>1, <2>2
  <1>3. ASSUME NEW p \in Procs, RwNoDesc(p) \/ RwAgain(p) \/ KillWake(p) PROVE CallerInv'
    BY Zenon, <1>1, <1>3, RwSteady
  <1>4. CASE IntrStep
    BY Zenon, <1>1, <1>4, IntrSteady
  <1>5. ASSUME NEW h \in Descs, DevStep(h) PROVE CallerInv'
    BY Zenon, <1>1, <1>5, DevSteady
  <1> QED
    BY Zenon, <1>2, <1>3, <1>4, <1>5, CallCaller, DoneCaller DEF Next, RwStep

(* The descriptors of a request keep saying what the caller asked for.     *)
LEMMA SubmitCommand == ASSUME IInv, NEW p \in Procs, RwSubmit(p) PROVE CommandInv'
  <1>1. PICK a \in free, b \in free, c \in free : Submits(p, a, b, c)
    BY Zenon, SubmitIs
  <1>2. /\ head'[p] = a /\ Second(p)' = b
        /\ \A q \in Submitted : head'[q] = head[q] /\ Second(q)' = Second(q)
    BY Zenon, <1>1, SubmitChains
  <1>3. Submitted' = Submitted \cup {p} /\ req' = req
    BY Zenon, SubmitSubmitted
  <1>4. DOMAIN addr = Descs /\ DOMAIN ops = Descs /\ DOMAIN info = Descs /\ free \subseteq Descs
    BY Zenon DEF IInv, TypeOK
  <1>5. /\ info'[a] = req[p].buf /\ addr'[b] = req[p].buf
        /\ ops'[a] = [block |-> req[p].block, write |-> req[p].write]
        /\ bdisk' = bdisk \cup {req[p].buf}
    BY Zenon, <1>1, <1>4 DEF Submits
  <1>6. \A d \in Descs \ free : info'[d] = info[d] /\ addr'[d] = addr[d] /\ ops'[d] = ops[d]
    BY Zenon, <1>1 DEF Submits, IInv, TypeOK
  <1>7. ASSUME NEW q \in Submitted
        PROVE  /\ info'[head'[q]] = req[q].buf /\ addr'[Second(q)'] = req[q].buf
               /\ ops'[head'[q]] = [block |-> req[q].block, write |-> req[q].write]
    <2>1. head[q] \in Descs \ free /\ Second(q) \in Descs \ free
      BY Zenon DEF IInv, ChainInv
    <2>2. /\ info[head[q]] = req[q].buf /\ addr[Second(q)] = req[q].buf
          /\ ops[head[q]] = [block |-> req[q].block, write |-> req[q].write]
      BY Zenon DEF IInv, CommandInv
    <2> QED
      BY SMTT(60), <1>2, <1>6, <2>1, <2>2
  <1>8. \A q \in Submitted' : /\ info'[head'[q]] = req'[q].buf /\ addr'[Second(q)'] = req'[q].buf
                              /\ ops'[head'[q]] = [block |-> req'[q].block, write |-> req'[q].write]
    BY Zenon, <1>2, <1>3, <1>5, <1>7
  <1>9. \A x \in bdisk' : \E q \in Submitted' : req'[q].buf = x
    BY Zenon, <1>3, <1>5 DEF IInv, CommandInv
  <1> QED
    BY Zenon, <1>8, <1>9 DEF CommandInv

(* free_chain() clears the descriptors of its own request only.            *)
LEMMA DoneCommand == ASSUME IInv, NEW p \in Procs, RwDone(p) PROVE CommandInv'
  <1>1. /\ \A d \in Descs \ Three(p) : addr'[d] = addr[d]
        /\ \A q \in Submitted \ {p} : head'[q] = head[q] /\ Second(q)' = Second(q)
    BY Zenon, DoneChains
  <1>2. /\ p \in Submitted /\ Submitted' = Submitted \ {p} /\ req[p].buf \notin bdisk
        /\ req' = [req EXCEPT ![p] = None] /\ DOMAIN req = Procs
    BY Zenon, DoneSubmitted DEF IInv, TypeOK
  <1>3. /\ info' = [info EXCEPT ![head[p]] = None] /\ ops' = [ops EXCEPT ![head[p]] = None]
        /\ bdisk' = bdisk /\ DOMAIN info = Descs /\ DOMAIN ops = Descs
    BY Zenon DEF RwDone, RwReturn, FreeChain, bufVars, IInv, TypeOK
  <1>4. ASSUME NEW q \in Submitted'
        PROVE  /\ info'[head'[q]] = req'[q].buf /\ addr'[Second(q)'] = req'[q].buf
               /\ ops'[head'[q]] = [block |-> req'[q].block, write |-> req'[q].write]
    <2>1. q \in Submitted /\ q # p /\ q \in Procs
      BY Zenon, <1>2 DEF Submitted
    <2>2. req'[q] = req[q]
      BY Zenon, <1>2, <2>1
    <2>3. Three(q) \cap Three(p) = {} /\ head[q] \in Descs /\ Second(q) \in Descs
      BY Zenon, <1>2, <2>1 DEF IInv, ChainInv
    <2>4. head[q] # head[p] /\ Second(q) \in Descs \ Three(p)
      BY Zenon, <2>3 DEF Three
    <2>5. /\ info[head[q]] = req[q].buf /\ addr[Second(q)] = req[q].buf
          /\ ops[head[q]] = [block |-> req[q].block, write |-> req[q].write]
      BY Zenon, <2>1 DEF IInv, CommandInv
    <2>6. info'[head[q]] = info[head[q]] /\ ops'[head[q]] = ops[head[q]]
      BY Zenon, <1>3, <2>3, <2>4
    <2> QED
      BY Zenon, <1>1, <2>1, <2>2, <2>4, <2>5, <2>6
  <1>5. ASSUME NEW x \in bdisk' PROVE \E q \in Submitted' : req'[q].buf = x
    <2>1. PICK q \in Submitted : req[q].buf = x
      BY Zenon, <1>3 DEF IInv, CommandInv
    <2>2. q \in Submitted' /\ req'[q] = req[q]
      BY Zenon, <1>2, <1>3, <2>1 DEF Submitted
    <2> QED
      BY Zenon, <2>1, <2>2
  <1> QED
    BY Zenon, <1>4, <1>5 DEF CommandInv

(* Every step keeps the descriptors what the callers asked for.            *)
LEMMA CommandNext == ASSUME IInv, Next PROVE CommandInv'
  <1>1. CASE Steady
    <2>1. /\ Submitted' = Submitted /\ info' = info /\ addr' = addr /\ ops' = ops
          /\ next' = next /\ head' = head /\ \A p \in Submitted : req'[p] = req[p]
      BY Zenon, <1>1 DEF Steady
    <2>2. CASE bdisk' \subseteq bdisk
      <3>1. \A x \in bdisk' : \E q \in Submitted' : req'[q].buf = x
        BY Zenon, <2>1, <2>2 DEF IInv, CommandInv
      <3>2. ASSUME NEW q \in Submitted'
            PROVE  /\ info'[head'[q]] = req'[q].buf /\ addr'[Second(q)'] = req'[q].buf
                   /\ ops'[head'[q]] = [block |-> req'[q].block, write |-> req'[q].write]
        <4>1. q \in Submitted /\ Second(q)' = Second(q) /\ req'[q] = req[q]
          BY Zenon, <2>1 DEF Second
        <4>2. /\ info[head[q]] = req[q].buf /\ addr[Second(q)] = req[q].buf
              /\ ops[head[q]] = [block |-> req[q].block, write |-> req[q].write]
          BY Zenon, <4>1 DEF IInv, CommandInv
        <4> QED
          BY Zenon, <2>1, <4>1, <4>2
      <3> QED
        BY Zenon, <3>1, <3>2 DEF CommandInv
    <2>3. bdisk' \subseteq bdisk \/ \E p \in Procs : RwSubmit(p)
      BY Zenon DEF Next, RwStep, RwNoDesc, RwAgain, RwDone, RwReturn, KillWake, Call, IntrStep, IntrAck,
        IntrEntry, IntrExit, DevStep, DevTake, DevFinish, bufVars
    <2> QED
      BY Zenon, <2>2, <2>3, SubmitCommand
  <1> QED
    BY Zenon, <1>1, NextSteady, SubmitCommand, DoneCommand

(* A request that is not finished is in one place: the avail ring, the     *)
(* device or the used ring.                                                *)
LEMMA SubmitPlace == ASSUME IInv, NEW p \in Procs, RwSubmit(p) PROVE AvailInv' /\ PlaceInv'
  <1>1. PICK a \in free, b \in free, c \in free : Submits(p, a, b, c)
    BY Zenon, SubmitIs
  <1>2. /\ availIdx' = Plus1(availIdx) /\ devIdx' = devIdx /\ taken' = taken
        /\ usedRing' = usedRing /\ seen' = seen /\ usedIdx' = usedIdx
    BY Zenon DEF RwSubmit, devVars
  <1>3. Waiting' = Waiting \cup {a} /\ AvailInv'
    BY Zenon, <1>1, <1>2, SubmitRing DEF Submits
  <1>4. Finished' = Finished
    BY Zenon, <1>2 DEF Finished
  <1>5. a \notin Pending /\ a \in Descs
    BY Zenon DEF Pending, IInv, ChainInv, TypeOK
  <1>6. /\ head'[p] = a /\ \A q \in Submitted : head'[q] = head[q]
        /\ bdisk' = bdisk \cup {req[p].buf} /\ req' = req /\ Submitted' = Submitted \cup {p}
        /\ p \notin Submitted
    BY Zenon, <1>1, SubmitChains, SubmitSubmitted DEF Submits
  <1>7. \A q \in Submitted : req[q].buf # req[p].buf
    <2>1. p \in Procs /\ pc[p] # "idle" /\ \A q \in Submitted : q \in Procs /\ pc[q] # "idle"
      BY Zenon DEF RwSubmit, Submitted
    <2> QED
      BY Zenon, <1>6, <2>1 DEF IInv, CallerInv
  <1>8. Pending' = Pending \cup {a}
    BY SMTT(60), <1>5, <1>6, <1>7 DEF Pending
  <1> QED
    BY SMTT(60), <1>2, <1>3, <1>4, <1>5, <1>8 DEF IInv, PlaceInv

(* A request that returns is in no ring.                                   *)
LEMMA DonePlace == ASSUME IInv, NEW p \in Procs, RwDone(p) PROVE PlaceInv'
  <1>1. /\ p \in Submitted /\ Submitted' = Submitted \ {p} /\ req[p].buf \notin bdisk
        /\ \A q \in Submitted \ {p} : head'[q] = head[q]
    BY Zenon, DoneSubmitted, DoneChains
  <1>2. \A q \in Submitted \ {p} : req'[q] = req[q]
    BY Zenon, DoneSubmitted DEF IInv, TypeOK, Submitted
  <1>3. bdisk' = bdisk /\ taken' = taken /\ Waiting' = Waiting /\ Finished' = Finished
    BY Zenon DEF RwDone, RwReturn, bufVars, ringVars, devVars, Waiting, Finished
  <1>4. Pending' = Pending
    BY SMTT(60), <1>1, <1>2, <1>3 DEF Pending
  <1> QED
    BY Zenon, <1>3, <1>4 DEF IInv, PlaceInv

(* The handler takes one request off the used ring and clears its          *)
(* b->disk.                                                                *)
LEMMA EntryPlace == ASSUME IInv, IntrEntry PROVE UsedInv' /\ PlaceInv'
  <1>1. PICK p \in Submitted :
          /\ head[p] \in Finished /\ req[p].buf \in bdisk
          /\ Finished' = Finished \ {head[p]} /\ UsedInv' /\ bdisk' = bdisk \ {req[p].buf}
    BY Zenon, EntryIs
  <1>2. taken' = taken /\ Waiting' = Waiting
    BY Zenon DEF IntrEntry, devVars, Waiting
  <1>3. Submitted' = Submitted /\ head' = head /\ req' = req
    BY Zenon, IntrSteady DEF IntrStep, Steady
  <1>4. \A q \in Submitted : (req[q].buf = req[p].buf => q = p) /\ (head[q] = head[p] => q = p)
    BY Zenon, HeadFacts
  <1>5. Pending' = Pending \ {head[p]}
    BY SMTT(60), <1>1, <1>3, <1>4 DEF Pending
  <1> QED
    BY SMTT(60), <1>1, <1>2, <1>5 DEF IInv, PlaceInv

(* The device takes a request off the available ring, or puts a finished   *)
(* one on the used ring.                                                   *)
LEMMA DevPlace ==
    ASSUME IInv, NEW h \in Descs, DevStep(h)
    PROVE  AvailInv' /\ UsedInv' /\ PlaceInv'
  <1>1. Pending' = Pending
    <2>1. Submitted' = Submitted /\ head' = head /\ req' = req /\ bdisk' = bdisk
      BY Zenon, DevSteady DEF Steady, DevStep, DevTake, DevFinish, bufVars
    <2> QED
      BY Zenon, <2>1 DEF Pending
  <1>2. CASE DevTake
    <2>1. PICK k \in Waiting : Waiting' = Waiting \ {k} /\ taken' = taken \cup {k} /\ AvailInv'
      BY Zenon, <1>2, TakeIs
    <2>2. Finished' = Finished /\ UsedInv'
      BY Zenon, <1>2 DEF DevTake, Finished, UsedInv, IInv
    <2>3. PlaceInv'
      BY SMTT(60), <1>1, <2>1, <2>2 DEF IInv, PlaceInv
    <2> QED
      BY Zenon, <2>1, <2>2, <2>3
  <1>3. CASE DevFinish(h)
    <2>1. h \in taken /\ h \notin Finished /\ Finished' = Finished \cup {h} /\ UsedInv'
      BY Zenon, <1>3, FinishRing
    <2>2. Waiting' = Waiting /\ AvailInv' /\ taken' = taken \ {h}
      BY Zenon, <1>3 DEF DevFinish, Waiting, AvailInv, IInv
    <2>3. PlaceInv'
      BY SMTT(60), <1>1, <2>1, <2>2 DEF IInv, PlaceInv
    <2> QED
      BY Zenon, <2>1, <2>2, <2>3
  <1> QED
    BY Zenon, <1>2, <1>3 DEF DevStep

(* The steps that touch no ring.                                           *)
LEMMA RingFrame ==
    ASSUME IInv, Steady, bdisk' = bdisk, UNCHANGED <<ringVars, devVars, seen>>
    PROVE  AvailInv' /\ UsedInv' /\ PlaceInv'
  <1>1. /\ availRing' = availRing /\ availIdx' = availIdx /\ usedRing' = usedRing
        /\ usedIdx' = usedIdx /\ devIdx' = devIdx /\ taken' = taken /\ seen' = seen
    BY Zenon DEF ringVars, devVars
  <1>2. Pending' = Pending
    BY Zenon DEF Steady, Pending
  <1>3. Waiting' = Waiting /\ Finished' = Finished
    BY Zenon, <1>1 DEF Waiting, Finished
  <1> QED
    BY Zenon, <1>1, <1>2, <1>3 DEF IInv, AvailInv, UsedInv, PlaceInv

(* Every step keeps each unfinished request in one place.                  *)
LEMMA PlaceNext == ASSUME IInv, Next PROVE AvailInv' /\ UsedInv' /\ PlaceInv'
  <1>1. ASSUME NEW p \in Procs, NEW r \in Requests, NEW v \in Vals, Call(p, r, v)
        PROVE  AvailInv' /\ UsedInv' /\ PlaceInv'
    <2>1. bdisk' = bdisk /\ UNCHANGED <<ringVars, devVars, seen>>
      BY Zenon, <1>1 DEF Call
    <2> QED
      BY Zenon, <1>1, <2>1, CallSteady, RingFrame
  <1>2. ASSUME NEW p \in Procs, RwNoDesc(p) \/ RwAgain(p) \/ KillWake(p)
        PROVE  AvailInv' /\ UsedInv' /\ PlaceInv'
    <2>1. bdisk' = bdisk /\ UNCHANGED <<ringVars, devVars, seen>>
      BY Zenon, <1>2 DEF RwNoDesc, RwAgain, KillWake, bufVars
    <2> QED
      BY Zenon, <1>2, <2>1, RwSteady, RingFrame
  <1>3. ASSUME NEW p \in Procs, RwSubmit(p) PROVE AvailInv' /\ UsedInv' /\ PlaceInv'
    <2>1. UsedInv'
      BY Zenon, <1>3 DEF RwSubmit, devVars, UsedInv, IInv
    <2> QED
      BY Zenon, <1>3, <2>1, SubmitPlace
  <1>4. ASSUME NEW p \in Procs, RwDone(p) PROVE AvailInv' /\ UsedInv' /\ PlaceInv'
    <2>1. AvailInv' /\ UsedInv'
      BY Zenon, <1>4 DEF RwDone, RwReturn, ringVars, devVars, AvailInv, UsedInv, IInv
    <2> QED
      BY Zenon, <1>4, <2>1, DonePlace
  <1>5. CASE IntrEntry
    <2>1. AvailInv'
      BY Zenon, <1>5 DEF IntrEntry, devVars, AvailInv, IInv
    <2> QED
      BY Zenon, <1>5, <2>1, EntryPlace
  <1>6. CASE IntrAck \/ IntrExit
    <2>1. bdisk' = bdisk /\ UNCHANGED <<ringVars, devVars, seen>> /\ IntrStep
      BY Zenon, <1>6 DEF IntrAck, IntrExit, bufVars, IntrStep
    <2> QED
      BY Zenon, <2>1, IntrSteady, RingFrame
  <1> QED
    BY Zenon, <1>1, <1>2, <1>3, <1>4, <1>5, <1>6, DevPlace DEF Next, RwStep, IntrStep

(* A finished request has succeeded, and an interrupt is on its way.       *)
LEMMA NoticeNext == ASSUME IInv, Next PROVE NoticeInv'
  <1>1. CASE Finished' \subseteq Finished /\ status' = status /\ (seen' # usedIdx' => isr' \/ intr')
    BY Zenon, <1>1 DEF IInv, NoticeInv
  <1>2. CASE usedRing' = usedRing /\ seen' = seen /\ usedIdx' = usedIdx /\ status' = status
             /\ isr' = isr /\ intr' = intr
    <2>1. Finished' = Finished
      BY Zenon, <1>2 DEF Finished
    <2> QED
      BY Zenon, <1>2, <2>1 DEF IInv, NoticeInv
  <1>3. ASSUME NEW p \in Procs, RwSubmit(p) PROVE NoticeInv'
    <2>1. PICK a \in free, b \in free, c \in free : Submits(p, a, b, c)
      BY Zenon, <1>3, SubmitIs
    <2>2. UNCHANGED <<usedRing, seen, usedIdx, isr, intr>>
      BY Zenon, <1>3 DEF RwSubmit, devVars
    <2>3. Finished' = Finished /\ Finished \subseteq Descs \ free
      <3>1. Finished \subseteq Pending
        BY Zenon DEF IInv, PlaceInv
      <3>2. Pending \subseteq Descs \ free
        BY Zenon DEF Pending, IInv, ChainInv
      <3>3. Finished' = Finished
        BY Zenon, <2>2 DEF Finished
      <3> QED
        BY Zenon, <3>1, <3>2, <3>3
    <2>4. \A d \in Descs \ free : status'[d] = status[d]
      BY Zenon, <2>1 DEF Submits, IInv, TypeOK
    <2> QED
      BY Zenon, <2>2, <2>3, <2>4 DEF IInv, NoticeInv
  <1>4. ASSUME NEW h \in Descs, DevFinish(h) PROVE NoticeInv'
    <2>1. Finished' = Finished \cup {h} /\ Finished \subseteq Descs
      BY Zenon, <1>4, FinishRing DEF IInv, PlaceInv, Pending
    <2>2. isr' = TRUE /\ status'[h] /\ \A d \in Descs : status[d] => status'[d]
      BY Zenon, <1>4 DEF DevFinish, IInv, TypeOK
    <2> QED
      BY Zenon, <2>1, <2>2 DEF IInv, NoticeInv
  <1>5. CASE IntrEntry
    <2>1. Finished' \subseteq Finished
      BY Zenon, <1>5, EntryIs
    <2> QED
      BY Zenon, <1>1, <1>5, <2>1 DEF IntrEntry
  <1>6. CASE IntrAck \/ IntrExit
    <2>1. usedRing' = usedRing /\ seen' = seen /\ usedIdx' = usedIdx /\ status' = status
      BY Zenon, <1>6 DEF IntrAck, IntrExit, ringVars, devVars
    <2>2. Finished' = Finished /\ (seen' # usedIdx' => isr' \/ intr')
      BY Zenon, <1>6, <2>1 DEF IntrAck, IntrExit, Finished
    <2> QED
      BY Zenon, <1>1, <2>1, <2>2
  <1> QED
    BY Zenon, <1>2, <1>3, <1>4, <1>5, <1>6 DEF Next, RwStep, IntrStep, DevStep, RwNoDesc, RwAgain,
      RwDone, RwReturn, KillWake, Call, DevTake, ringVars, devVars

(* An assignment to an element of an array keeps its type.                 *)
LEMMA ExceptType ==
    ASSUME NEW S, NEW T, NEW f \in [S -> T], NEW x, NEW v \in T
    PROVE  [f EXCEPT ![x] = v] \in [S -> T]
  BY Zenon

(* Every step keeps the types.                                             *)
LEMMA CallType ==
    ASSUME IInv, NEW p \in Procs, NEW r \in Requests, NEW v \in Vals, Call(p, r, v)
    PROVE  TypeOK'
  <1>1. data' \in [Bufs -> Vals]
    <2>1. r.buf \in Bufs /\ data \in [Bufs -> Vals]
      BY SMTT(60) DEF Requests, IInv, TypeOK
    <2> QED
      BY SMTT(60), <2>1 DEF Call
  <1>2. pc' \in [Procs -> Pcs] /\ req' \in [Procs -> Requests \cup {None}]
    BY Zenon, ExceptType DEF Call, Goto, Pcs, IInv, TypeOK
  <1>3. UNCHANGED <<disk, bdisk, free, next, addr, ops, info, status, availRing, availIdx, usedRing,
                    usedIdx, devIdx, taken, seen, isr, intr, head>>
    BY Zenon DEF Call, descVars, ringVars, devVars
  <1> QED
    BY Zenon, <1>1, <1>2, <1>3 DEF TypeOK, IInv

(* Types, when virtio_disk_rw() sleeps or looks again.                     *)
LEMMA PcType ==
    ASSUME IInv, NEW p \in Procs, RwNoDesc(p) \/ RwAgain(p) \/ KillWake(p)
    PROVE  TypeOK'
  <1>1. pc' \in [Procs -> Pcs]
    <2>1. pc \in [Procs -> Pcs]
      BY Zenon DEF IInv, TypeOK
    <2>2. \/ \E l \in Pcs : pc' = [pc EXCEPT ![p] = l]
          \/ pc' = [q \in Procs |-> IF q = p THEN "wait_desc"
                                    ELSE IF pc[q] = "wait_desc" THEN "rw" ELSE pc[q]]
      BY Zenon DEF RwNoDesc, RwAgain, KillWake, Goto, WakeFree, Pcs
    <2> QED
      BY SMTT(60), <2>1, <2>2 DEF Pcs
  <1>2. UNCHANGED <<disk, data, bdisk, free, next, addr, ops, info, status, availRing, availIdx, usedRing,
                    usedIdx, devIdx, taken, seen, isr, intr, req, head>>
    BY Zenon DEF RwNoDesc, RwAgain, KillWake, bufVars, descVars, ringVars, devVars
  <1> QED
    BY Zenon, <1>1, <1>2 DEF TypeOK, IInv

(* Types, after a submission.                                              *)
LEMMA SubmitType == ASSUME IInv, NEW p \in Procs, RwSubmit(p) PROVE TypeOK'
  <1>1. PICK a \in free, b \in free, c \in free : Submits(p, a, b, c)
    BY Zenon, SubmitIs
  <1>2. /\ a \in Descs /\ b \in Descs /\ c \in Descs
        /\ req[p] \in Requests /\ availIdx' \in Indexes /\ availIdx % NUM \in Descs
    BY Zenon, Plus1Is, DescFacts DEF IInv, TypeOK, CallerInv, RwSubmit
  <1>3. req[p].buf \in Bufs /\ [block |-> req[p].block, write |-> req[p].write] \in Commands
    BY SMTT(60), <1>2 DEF Requests, Commands
  <1>4. free' \subseteq Descs /\ bdisk' \subseteq Bufs
    BY Zenon, <1>1, <1>3 DEF Submits, IInv, TypeOK
  <1>5. next' \in [Descs -> Descs \cup {None}]
    <2>1. /\ next \in [Descs -> Descs \cup {None}]
          /\ next' = [next EXCEPT ![a] = b, ![b] = c, ![c] = None]
      BY Zenon, <1>1 DEF Submits, IInv, TypeOK
    <2> QED
      BY SMTT(60), <1>2, <2>1
  <1>6. /\ addr' \in [Descs -> Bufs \cup {None}] /\ info' \in [Descs -> Bufs \cup {None}]
        /\ ops' \in [Descs -> Commands \cup {None}]
    BY Zenon, <1>1, <1>3, ExceptType DEF Submits, IInv, TypeOK
  <1>7. /\ status' \in [Descs -> BOOLEAN] /\ availRing' \in [Descs -> Descs \cup {None}]
        /\ head' \in [Procs -> Descs \cup {None}]
    BY Zenon, <1>1, <1>2, ExceptType DEF Submits, IInv, TypeOK
  <1>8. pc' \in [Procs -> Pcs]
    BY Zenon, ExceptType DEF RwSubmit, Goto, Pcs, IInv, TypeOK
  <1>9. UNCHANGED <<disk, data, usedRing, usedIdx, devIdx, taken, seen, isr, intr, req>>
    BY Zenon DEF RwSubmit, devVars
  <1> QED
    BY Zenon, <1>2, <1>4, <1>5, <1>6, <1>7, <1>8, <1>9 DEF TypeOK, IInv

(* Types, after a return.                                                  *)
LEMMA DoneType == ASSUME IInv, NEW p \in Procs, RwDone(p) PROVE TypeOK'
  <1>1. p \in Submitted
    BY Zenon, DoneSubmitted
  <1>2. Chain(head[p]) \subseteq Descs
    <2>1. Three(p) \subseteq Descs
      BY SMTT(60), <1>1 DEF IInv, ChainInv, Three
    <2> QED
      BY Zenon, <1>1, <2>1, ChainIs
  <1>3. free' \subseteq Descs
    BY Zenon, <1>2 DEF RwDone, RwReturn, FreeChain, IInv, TypeOK
  <1>4. next' \in [Descs -> Descs \cup {None}] /\ addr' \in [Descs -> Bufs \cup {None}]
    <2>1. /\ next \in [Descs -> Descs \cup {None}] /\ addr \in [Descs -> Bufs \cup {None}]
          /\ next' = [d \in Descs |-> IF d \in Chain(head[p]) THEN None ELSE next[d]]
          /\ addr' = [d \in Descs |-> IF d \in Chain(head[p]) THEN None ELSE addr[d]]
      BY Zenon DEF RwDone, RwReturn, FreeChain, IInv, TypeOK
    <2> QED
      BY SMTT(60), <2>1
  <1>5. ops' \in [Descs -> Commands \cup {None}] /\ info' \in [Descs -> Bufs \cup {None}]
    BY Zenon, ExceptType DEF RwDone, RwReturn, FreeChain, IInv, TypeOK
  <1>6. req' \in [Procs -> Requests \cup {None}] /\ head' \in [Procs -> Descs \cup {None}]
    BY Zenon, DoneSubmitted, ExceptType DEF IInv, TypeOK
  <1>7. pc' \in [Procs -> Pcs]
    <2>1. pc \in [Procs -> Pcs]
      BY Zenon DEF IInv, TypeOK
    <2> QED
      BY SMTT(60), <2>1 DEF RwDone, WakeFree, Pcs
  <1>8. UNCHANGED <<disk, data, bdisk, status, availRing, availIdx, usedRing, usedIdx, devIdx, taken,
                    seen, isr, intr>>
    BY Zenon DEF RwDone, RwReturn, bufVars, ringVars, devVars
  <1> QED
    BY Zenon, <1>3, <1>4, <1>5, <1>6, <1>7, <1>8 DEF TypeOK, IInv

(* Types, in the interrupt handler.                                        *)
LEMMA IntrType == ASSUME IInv, IntrStep PROVE TypeOK'
  <1>1. CASE IntrAck \/ IntrExit
    <2>1. isr' \in BOOLEAN /\ intr' \in BOOLEAN
      BY Zenon, <1>1 DEF IntrAck, IntrExit, IInv, TypeOK
    <2>2. UNCHANGED <<disk, data, bdisk, free, next, addr, ops, info, status, availRing, availIdx,
                      usedRing, usedIdx, devIdx, taken, seen, pc, req, head>>
      BY Zenon, <1>1 DEF IntrAck, IntrExit, bufVars, descVars, ringVars, devVars
    <2> QED
      BY Zenon, <2>1, <2>2 DEF TypeOK, IInv
  <1>2. CASE IntrEntry
    <2>1. bdisk' \subseteq Bufs /\ seen' \in Indexes
      BY Zenon, <1>2, Plus1Is DEF IntrEntry, IInv, TypeOK
    <2>2. usedRing' \in [Descs -> Descs \cup {None}]
      BY Zenon, <1>2, ExceptType DEF IntrEntry, IInv, TypeOK
    <2>4. pc' \in [Procs -> Pcs]
      <3>1. PICK p \in Submitted :
              pc' = [q \in Procs |-> IF pc[q] = "wait_io" /\ req[q].buf = req[p].buf
                                       THEN "woken" ELSE pc[q]]
        BY Zenon, <1>2, EntryIs
      <3>2. pc \in [Procs -> Pcs]
        BY Zenon DEF IInv, TypeOK
      <3> QED
        BY SMTT(60), <3>1, <3>2 DEF Pcs
    <2>3. UNCHANGED <<disk, data, free, next, addr, ops, info, status, availRing, availIdx,
                      usedIdx, devIdx, taken, isr, intr, req, head>>
      BY Zenon, <1>2 DEF IntrEntry, descVars, devVars
    <2> QED
      BY Zenon, <2>1, <2>2, <2>3, <2>4 DEF TypeOK, IInv
  <1> QED
    BY Zenon, <1>1, <1>2 DEF IntrStep

(* The transfer that the device makes when it finishes chain h.            *)
LEMMA FinishIs ==
    ASSUME IInv, NEW h \in Descs, DevFinish(h)
    PROVE  \E p \in Submitted :
             /\ head[p] = h /\ req[p] \in Requests /\ req[p].buf \in bdisk
             /\ IF req[p].write
                  THEN disk' = [disk EXCEPT ![req[p].block] = data[req[p].buf]] /\ data' = data
                  ELSE data' = [data EXCEPT ![req[p].buf] = disk[req[p].block]] /\ disk' = disk
  <1>1. h \in Pending
    BY Zenon, FinishRing
  <1>2. PICK p \in Submitted :
          /\ head[p] = h /\ req[p].buf \in bdisk /\ req[p] \in Requests /\ addr[next[h]] = req[p].buf
          /\ ops[h] = [block |-> req[p].block, write |-> req[p].write]
    BY Zenon, <1>1, PendingFacts
  <1>3. ops[h].block = req[p].block /\ ops[h].write = req[p].write
    BY SMTT(60), <1>2
  <1> QED
    BY Zenon, <1>2, <1>3 DEF DevFinish

(* Types, after a step of the device.                                      *)
LEMMA DevType == ASSUME IInv, NEW h \in Descs, DevStep(h) PROVE TypeOK'
  <1>1. UNCHANGED <<bdisk, free, next, addr, ops, info, availIdx, seen, intr, pc, req, head>>
    BY Zenon DEF DevStep, DevTake, DevFinish, bufVars, descVars
  <1>2. CASE DevTake
    <2>1. taken' \subseteq Descs
      <3>1. PICK k \in Waiting : taken' = taken \cup {k}
        BY Zenon, <1>2, TakeIs
      <3>2. Waiting \subseteq Descs
        BY Zenon DEF IInv, PlaceInv, Pending
      <3> QED
        BY Zenon, <3>1, <3>2 DEF IInv, TypeOK
    <2>2. devIdx' \in Indexes
      BY Zenon, <1>2, Plus1Is DEF DevTake, IInv, TypeOK
    <2>3. availRing' \in [Descs -> Descs \cup {None}]
      BY Zenon, <1>2, ExceptType DEF DevTake, IInv, TypeOK
    <2>4. UNCHANGED <<disk, data, status, usedRing, usedIdx, isr>>
      BY Zenon, <1>2 DEF DevTake, bufVars
    <2> QED
      BY Zenon, <1>1, <2>1, <2>2, <2>3, <2>4 DEF TypeOK, IInv
  <1>3. CASE DevFinish(h)
    <2>1. disk' \in [Blocks -> Vals] /\ data' \in [Bufs -> Vals]
      <3>1. PICK p \in Submitted :
              /\ req[p] \in Requests
              /\ IF req[p].write
                   THEN disk' = [disk EXCEPT ![req[p].block] = data[req[p].buf]] /\ data' = data
                   ELSE data' = [data EXCEPT ![req[p].buf] = disk[req[p].block]] /\ disk' = disk
        BY Zenon, <1>3, FinishIs
      <3>2. req[p].buf \in Bufs /\ req[p].block \in Blocks /\ req[p].write \in BOOLEAN
        BY SMTT(60), <3>1 DEF Requests
      <3>3. disk \in [Blocks -> Vals] /\ data \in [Bufs -> Vals]
        BY Zenon DEF IInv, TypeOK
      <3> QED
        BY SMTT(60), <3>1, <3>2, <3>3
    <2>2. usedIdx' \in Indexes /\ taken' \subseteq Descs /\ isr' \in BOOLEAN
      BY Zenon, <1>3, Plus1Is DEF DevFinish, IInv, TypeOK
    <2>3. status' \in [Descs -> BOOLEAN] /\ usedRing' \in [Descs -> Descs \cup {None}]
      BY Zenon, <1>3, ExceptType DEF DevFinish, IInv, TypeOK
    <2>4. UNCHANGED <<availRing, devIdx>>
      BY Zenon, <1>3 DEF DevFinish
    <2> QED
      BY Zenon, <1>1, <2>1, <2>2, <2>3, <2>4 DEF TypeOK, IInv
  <1> QED
    BY Zenon, <1>2, <1>3 DEF DevStep

(* Every step keeps the types.                                             *)
LEMMA TypeNext == ASSUME IInv, Next PROVE TypeOK'
  BY Zenon, CallType, PcType, SubmitType, DoneType, IntrType, DevType DEF Next, RwStep

-----------------------------------------------------------------------------
(* The theorems.                                                           *)

(* virtio_disk_init() establishes the invariant.                           *)
LEMMA InitIInv == Init => IInv
  <1> SUFFICES ASSUME Init PROVE IInv
    OBVIOUS
  <1>1. Submitted = {}
    BY Zenon DEF Init, Submitted
  <1>2. 0 \in Indexes /\ 0 .. -1 = {} /\ 0 < NUM /\ 0 \in Nat
    BY SMTT(60), NumAssumption, WrapAssumption DEF Indexes
  <1>3. Live(0, 0) = 0
    BY Zenon, <1>2, LiveSteps
  <1>4. 0 .. Live(0, 0) - 1 = {}
    BY SMTT(60), <1>3
  <1>5. Waiting = {} /\ Finished = {}
    <2>1. \A ring : Between(ring, 0, 0) = {}
      BY Zenon, <1>4, BetweenIs
    <2> QED
      BY Zenon, <2>1 DEF Init, Waiting, Finished
  <1>6. AvailInv /\ UsedInv
    BY Zenon, <1>2, <1>3, <1>4 DEF Init, AvailInv, UsedInv, Once
  <1>7. PlaceInv
    BY Zenon, <1>1, <1>5 DEF Init, PlaceInv, Pending
  <1>8. ChainInv /\ CommandInv /\ CallerInv /\ NoticeInv
    BY Zenon, <1>1, <1>5 DEF Init, ChainInv, CommandInv, CallerInv, NoticeInv
  <1>9. TypeOK
    BY Zenon, <1>2 DEF Init, TypeOK, Pcs
  <1> QED
    BY Zenon, <1>6, <1>7, <1>8, <1>9 DEF IInv

(* The invariant says nothing of a step that changes no variable.          *)
LEMMA StutterIInv == ASSUME IInv, UNCHANGED vars PROVE IInv'
  <1>1. /\ UNCHANGED <<disk, data, bdisk, free, next, addr, ops, info, status, availRing, availIdx,
                       usedRing, usedIdx, devIdx, taken, seen, isr, intr, pc, req, head>>
    BY Zenon DEF vars, bufVars, descVars, ringVars, devVars
  <1>2. Submitted' = Submitted /\ Waiting' = Waiting /\ Finished' = Finished
    BY Zenon, <1>1 DEF Submitted, Waiting, Finished
  <1>3. Pending' = Pending /\ TypeOK' /\ CallerInv' /\ AvailInv' /\ UsedInv'
    BY Zenon, <1>1, <1>2 DEF IInv, Pending, TypeOK, CallerInv, AvailInv, UsedInv
  <1>4. PlaceInv' /\ NoticeInv'
    BY Zenon, <1>1, <1>2, <1>3 DEF IInv, PlaceInv, NoticeInv
  <1>5. ChainInv' /\ CommandInv'
    BY Zenon, <1>1, <1>2 DEF IInv, ChainInv, CommandInv, Three, Second, Third
  <1> QED
    BY Zenon, <1>3, <1>4, <1>5 DEF IInv

(* Every step keeps the invariant.                                         *)
LEMMA NextIInv == IInv /\ [Next]_vars => IInv'
  BY Zenon, TypeNext, ChainNext, CallerNext, CommandNext, PlaceNext, NoticeNext, StutterIInv DEF IInv

(* virtio_disk.c keeps the inductive invariant: chains of three            *)
(* descriptors, each request in one place, room in both rings.             *)
THEOREM VirtioInv == Spec => []IInv
  BY PTL, InitIInv, NextIInv DEF Spec

(* alloc3_desc() and free_chain() never leak, share or free twice a        *)
(* descriptor.                                                             *)
THEOREM DescriptorsOwnedAlways == Spec => []DescriptorsOwned
  <1>1. ASSUME IInv PROVE DescriptorsOwned
    <2>1. \A p \in Submitted : Chain(head[p]) = Three(p)
      BY Zenon, ChainIs, <1>1
    <2>2. ASSUME NEW p \in Submitted PROVE Cardinality(Chain(head[p])) = 3
      <3>1. head[p] # Second(p) /\ head[p] # Third(p) /\ Second(p) # Third(p)
        BY Zenon, <1>1 DEF IInv, ChainInv
      <3>2. IsFiniteSet({head[p]}) /\ Cardinality({head[p]}) = 1
        BY Zenon, FS_Singleton
      <3>3. /\ IsFiniteSet({head[p]} \cup {Second(p)})
            /\ Cardinality({head[p]} \cup {Second(p)}) = Cardinality({head[p]}) + 1
        BY Zenon, <3>1, <3>2, FS_AddElement
      <3>4. Cardinality({head[p]} \cup {Second(p)} \cup {Third(p)})
            = Cardinality({head[p]} \cup {Second(p)}) + 1
        BY Zenon, <3>1, <3>3, FS_AddElement
      <3>5. Three(p) = {head[p]} \cup {Second(p)} \cup {Third(p)}
        BY Zenon DEF Three
      <3> QED
        BY SMTT(60), <2>1, <3>2, <3>3, <3>4, <3>5
    <2>3. UNION {Chain(head[p]) : p \in Submitted} = Descs \ free
      <3>1. \A p \in Submitted : Three(p) \subseteq Descs \ free
        BY SMTT(60), <1>1 DEF IInv, ChainInv, Three
      <3>2. \A d \in Descs \ free : \E p \in Submitted : d \in Three(p)
        BY Zenon, <1>1 DEF IInv, ChainInv
      <3> QED
        BY Zenon, <2>1, <3>1, <3>2
    <2>4. \A p, q \in Submitted : p # q => Chain(head[p]) \cap Chain(head[q]) = {}
      BY Zenon, <1>1, <2>1 DEF IInv, ChainInv
    <2> QED
      BY Zenon, <2>2, <2>3, <2>4 DEF DescriptorsOwned
  <1> QED
    BY PTL, <1>1, VirtioInv

(* No completion is lost, however the handler's loop, the device and the   *)
(* callers interleave.                                                     *)
THEOREM CompletionPendingAlways == Spec => []CompletionPending
  <1>1. ASSUME IInv PROVE CompletionPending
    <2>1. ASSUME NEW p \in Submitted, req[p].buf \in bdisk
          PROVE  Cardinality({S \in {1, 2, 3} : head[p] \in <<Waiting, taken, Finished>>[S]}) = 1
      <3>1. head[p] \in Pending
        BY Zenon, <1>1, <2>1 DEF Pending, IInv, ChainInv
      <3>2. \/ head[p] \in Waiting /\ head[p] \notin taken /\ head[p] \notin Finished
            \/ head[p] \notin Waiting /\ head[p] \in taken /\ head[p] \notin Finished
            \/ head[p] \notin Waiting /\ head[p] \notin taken /\ head[p] \in Finished
        BY SMTT(60), <1>1, <3>1 DEF IInv, PlaceInv
      <3>3. \E k : {S \in {1, 2, 3} : head[p] \in <<Waiting, taken, Finished>>[S]} = {k}
        <4>1. /\ <<Waiting, taken, Finished>>[1] = Waiting /\ <<Waiting, taken, Finished>>[2] = taken
              /\ <<Waiting, taken, Finished>>[3] = Finished
          BY SMTT(60)
        <4> HIDE DEF Waiting, Finished
        <4>2. 1 # 2 /\ 1 # 3 /\ 2 # 3
          BY SMTT(60)
        <4>3. CASE head[p] \in Waiting /\ head[p] \notin taken /\ head[p] \notin Finished
          <5>1. {S \in {1, 2, 3} : head[p] \in <<Waiting, taken, Finished>>[S]} = {1}
            BY Zenon, <4>1, <4>2, <4>3
          <5> QED
            BY Zenon, <5>1
        <4>4. CASE head[p] \notin Waiting /\ head[p] \in taken /\ head[p] \notin Finished
          <5>1. {S \in {1, 2, 3} : head[p] \in <<Waiting, taken, Finished>>[S]} = {2}
            BY Zenon, <4>1, <4>2, <4>4
          <5> QED
            BY Zenon, <5>1
        <4>5. CASE head[p] \notin Waiting /\ head[p] \notin taken /\ head[p] \in Finished
          <5>1. {S \in {1, 2, 3} : head[p] \in <<Waiting, taken, Finished>>[S]} = {3}
            BY Zenon, <4>1, <4>2, <4>5
          <5> QED
            BY Zenon, <5>1
        <4> QED
          BY Zenon, <3>2, <4>3, <4>4, <4>5
      <3> QED
        BY Zenon, <3>3, FS_Singleton
    <2>2. Finished # {} => isr \/ intr
      <3>1. CASE seen = usedIdx
        <4>1. Live(seen, usedIdx) = 0
          BY Zenon, <1>1, <3>1, LiveSteps DEF IInv, TypeOK
        <4>2. 0 .. Live(seen, usedIdx) - 1 = {}
          BY SMTT(60), <4>1
        <4> QED
          BY Zenon, <4>2, BetweenIs DEF Finished
      <3> QED
        BY Zenon, <1>1, <3>1 DEF IInv, NoticeInv
    <2>3. ASSUME NEW h \in Finished
          PROVE  /\ status[h] /\ info[h] \in bdisk
                 /\ \E p \in Submitted : head[p] = h /\ req[p].buf = info[h]
      <3>1. h \in Pending /\ status[h]
        BY Zenon, <1>1 DEF IInv, PlaceInv, NoticeInv
      <3>2. PICK p \in Submitted : head[p] = h /\ req[p].buf \in bdisk /\ info[h] = req[p].buf
        BY Zenon, <1>1, <3>1, PendingFacts
      <3> QED
        BY Zenon, <3>1, <3>2
    <2> QED
      BY Zenon, <2>1, <2>2, <2>3 DEF CompletionPending
  <1> QED
    BY PTL, <1>1, VirtioInv

(* Whoever sleeps on disk.free[0] is woken when descriptors are freed.     *)
LEMMA DescWakeupNext == ASSUME IInv, DescWakeup, Next PROVE DescWakeup'
  <1>1. CASE /\ \A p \in Procs : pc'[p] = "wait_desc" => pc[p] = "wait_desc"
             /\ free' = free
    BY Zenon, <1>1 DEF DescWakeup
  <1>2. pc \in [Procs -> Pcs]
    BY Zenon DEF IInv, TypeOK
  <1>3. ASSUME NEW p \in Procs, NEW l \in {"rw", "wait_io", "woken"}, pc' = [pc EXCEPT ![p] = l],
               free' = free
        PROVE  DescWakeup'
    <2>1. \A q \in Procs : pc'[q] = "wait_desc" => pc[q] = "wait_desc"
      BY SMTT(60), <1>2, <1>3
    <2> QED
      BY Zenon, <1>1, <1>3, <2>1
  <1>4. ASSUME NEW p \in Procs, NEW r \in Requests, NEW v \in Vals, Call(p, r, v) PROVE DescWakeup'
    BY Zenon, <1>3, <1>4 DEF Call, Goto, descVars
  <1>5. ASSUME NEW p \in Procs, RwAgain(p) \/ KillWake(p) PROVE DescWakeup'
    BY Zenon, <1>3, <1>5 DEF RwAgain, KillWake, Goto, descVars
  <1>6. ASSUME NEW p \in Procs, RwNoDesc(p) PROVE DescWakeup'
    BY Zenon, <1>6 DEF RwNoDesc, descVars, DescWakeup
  <1>7. ASSUME NEW p \in Procs, RwSubmit(p) PROVE DescWakeup'
    <2>1. /\ free' \subseteq free /\ pc' = [pc EXCEPT ![p] = "wait_io"]
          /\ free \subseteq Descs
      BY Zenon, <1>7 DEF RwSubmit, Goto, IInv, TypeOK
    <2>2. Cardinality(free') \in Nat /\ Cardinality(free) \in Nat /\ Cardinality(free') <= Cardinality(free)
      BY Zenon, <2>1, FS_Subset, FS_CardinalityType, DescFacts
    <2>3. \A q \in Procs : pc'[q] = "wait_desc" => pc[q] = "wait_desc"
      BY SMTT(60), <1>2, <2>1
    <2>4. Cardinality(free) < 3 => Cardinality(free') < 3
      BY SMTT(60), <2>2
    <2> QED
      BY Zenon, <2>3, <2>4 DEF DescWakeup
  <1>8. ASSUME NEW p \in Procs, RwDone(p) PROVE DescWakeup'
    <2>1. \A q \in Procs : pc'[q] # "wait_desc"
      BY SMTT(60), <1>2, <1>8 DEF RwDone, WakeFree
    <2> QED
      BY Zenon, <2>1 DEF DescWakeup
  <1>9. CASE IntrEntry
    <2>1. PICK p \in Submitted :
            pc' = [q \in Procs |-> IF pc[q] = "wait_io" /\ req[q].buf = req[p].buf
                                     THEN "woken" ELSE pc[q]]
      BY Zenon, <1>9, EntryIs
    <2>2. \A q \in Procs : pc'[q] = "wait_desc" => pc[q] = "wait_desc"
      BY SMTT(60), <1>2, <2>1
    <2> QED
      BY Zenon, <1>1, <1>9, <2>2 DEF IntrEntry, descVars
  <1>10. CASE pc' = pc /\ free' = free
    BY Zenon, <1>1, <1>10
  <1> QED
    BY Zenon, <1>4, <1>5, <1>6, <1>7, <1>8, <1>9, <1>10
      DEF Next, RwStep, IntrStep, IntrAck, IntrExit, DevStep, DevTake, DevFinish, descVars

(* Nobody sleeps for descriptors in virtio_disk_rw() while three are free. *)
THEOREM DescWakeupAlways == Spec => []DescWakeup
  <1>1. Init => DescWakeup
    BY Zenon DEF Init, DescWakeup
  <1>2. IInv /\ DescWakeup /\ [Next]_vars => DescWakeup'
    <2>1. ASSUME DescWakeup, UNCHANGED vars PROVE DescWakeup'
      BY Zenon, <2>1 DEF DescWakeup, vars, descVars
    <2> QED
      BY Zenon, <2>1, DescWakeupNext
  <1> QED
    BY PTL, <1>1, <1>2, VirtioInv DEF Spec

(* The steps that neither transfer a block nor change who waits for one.   *)
LEMMA DoneFrame ==
    ASSUME Steady, bdisk' = bdisk, usedRing' = usedRing, seen' = seen, usedIdx' = usedIdx
    PROVE  Done' = Done
  <1>1. Finished' = Finished
    BY Zenon DEF Finished
  <1> QED
    BY Zenon, <1>1 DEF Steady, Done

(* Entering virtio_disk_rw() starts a transfer of the abstract device.     *)
LEMMA CallDev ==
    ASSUME IInv, NEW p \in Procs, NEW r \in Requests, NEW v \in Vals, Call(p, r, v)
    PROVE  Dev!Start(p, r, v)
  <1>1. Done' = Done
    BY Zenon, CallSteady, DoneFrame DEF Call, ringVars, devVars
  <1>2. req[p] = None
    BY Zenon DEF Call, IInv, CallerInv
  <1>3. ~Dev!Busy(r.buf)
    BY Zenon DEF Dev!Busy, Call, Busy, IInv, CallerInv
  <1> QED
    BY Zenon, <1>1, <1>2, <1>3 DEF Call, Dev!Start

(* A submission is not visible to the caller.                              *)
LEMMA SubmitDev == ASSUME IInv, NEW p \in Procs, RwSubmit(p) PROVE UNCHANGED Dev!dvars
  <1>1. PICK a \in free, b \in free, c \in free : Submits(p, a, b, c)
    BY Zenon, SubmitIs
  <1>2. /\ head'[p] = a /\ \A q \in Submitted : head'[q] = head[q]
        /\ bdisk' = bdisk \cup {req[p].buf} /\ req' = req /\ Submitted' = Submitted \cup {p}
        /\ p \notin Submitted
    BY Zenon, <1>1, SubmitChains, SubmitSubmitted DEF Submits
  <1>3. a \notin Finished /\ Finished' = Finished
    <2>1. a \notin Pending
      BY Zenon DEF Pending, IInv, ChainInv
    <2>2. Finished' = Finished
      BY Zenon DEF RwSubmit, devVars, Finished
    <2> QED
      BY Zenon, <2>1, <2>2 DEF IInv, PlaceInv
  <1>4. \A q \in Submitted : req[q].buf # req[p].buf
    <2>1. p \in Procs /\ pc[p] # "idle" /\ \A q \in Submitted : q \in Procs /\ pc[q] # "idle"
      BY Zenon DEF RwSubmit, Submitted
    <2> QED
      BY Zenon, <1>2, <2>1 DEF IInv, CallerInv
  <1>5. Done' = Done
    BY SMTT(60), <1>2, <1>3, <1>4 DEF Done
  <1> QED
    BY Zenon, <1>2, <1>5 DEF RwSubmit, Dev!dvars

(* A return of virtio_disk_rw() is a return of the abstract device.        *)
LEMMA DoneDev == ASSUME IInv, NEW p \in Procs, RwDone(p) PROVE Dev!Return(p)
  <1>1. /\ p \in Submitted /\ Submitted' = Submitted \ {p} /\ req[p].buf \notin bdisk
        /\ req' = [req EXCEPT ![p] = None] /\ \A q \in Submitted \ {p} : head'[q] = head[q]
    BY Zenon, DoneSubmitted, DoneChains
  <1>2. \A q \in Submitted \ {p} : req'[q] = req[q]
    BY Zenon, DoneSubmitted DEF IInv, TypeOK, Submitted
  <1>3. bdisk' = bdisk /\ Finished' = Finished /\ disk' = disk /\ data' = data
    BY Zenon DEF RwDone, RwReturn, bufVars, ringVars, devVars, Finished
  <1>4. p \in Done /\ Done' = Done \ {p}
    BY SMTT(60), <1>1, <1>2, <1>3 DEF Done
  <1> QED
    BY Zenon, <1>1, <1>3, <1>4 DEF Dev!Return

(* The handler's step is not visible to the caller.                        *)
LEMMA EntryDev == ASSUME IInv, IntrEntry PROVE UNCHANGED Dev!dvars
  <1>1. PICK p \in Submitted :
          /\ head[p] \in Finished /\ req[p].buf \in bdisk
          /\ Finished' = Finished \ {head[p]} /\ bdisk' = bdisk \ {req[p].buf}
    BY Zenon, EntryIs
  <1>2. Submitted' = Submitted /\ head' = head /\ req' = req
    BY Zenon, IntrSteady DEF IntrStep, Steady
  <1>3. \A q \in Submitted : (req[q].buf = req[p].buf => q = p) /\ (head[q] = head[p] => q = p)
    BY Zenon, HeadFacts
  <1>4. Done' = Done
    BY SMTT(60), <1>1, <1>2, <1>3 DEF Done
  <1> QED
    BY Zenon, <1>2, <1>4 DEF IntrEntry, Dev!dvars

(* The device's transfer is the transfer of the abstract device.           *)
LEMMA FinishDev ==
    ASSUME IInv, NEW h \in Descs, DevFinish(h)
    PROVE  \E p \in Procs : Dev!Transfer(p)
  <1>1. PICK p \in Submitted :
          /\ head[p] = h /\ req[p] \in Requests /\ req[p].buf \in bdisk
          /\ IF req[p].write
               THEN disk' = [disk EXCEPT ![req[p].block] = data[req[p].buf]] /\ data' = data
               ELSE data' = [data EXCEPT ![req[p].buf] = disk[req[p].block]] /\ disk' = disk
    BY Zenon, FinishIs
  <1>2. p \in Procs /\ req[p] # None
    BY Zenon, <1>1, NoneAssumption DEF Submitted, Requests
  <1>3. Submitted' = Submitted /\ head' = head /\ req' = req /\ bdisk' = bdisk
    BY Zenon, DevSteady DEF DevStep, Steady, DevFinish
  <1>4. h \notin Finished /\ Finished' = Finished \cup {h}
    BY Zenon, FinishRing
  <1>5. \A q \in Submitted : head[q] = head[p] => q = p
    BY Zenon, HeadFacts
  <1>6. p \notin Done /\ Done' = Done \cup {p}
    BY SMTT(60), <1>1, <1>3, <1>4, <1>5 DEF Done
  <1>7. Dev!Transfer(p)
    BY Zenon, <1>1, <1>2, <1>3, <1>6 DEF Dev!Transfer
  <1> QED
    BY Zenon, <1>2, <1>7

(* Every step is a step of the abstract device, or changes nothing it      *)
(* has.                                                                    *)
LEMMA DevNext == ASSUME IInv, [Next]_vars PROVE [Dev!Next]_(Dev!dvars)
  <1>1. CASE Steady /\ bdisk' = bdisk /\ usedRing' = usedRing /\ seen' = seen /\ usedIdx' = usedIdx
             /\ disk' = disk /\ data' = data /\ req' = req
    BY Zenon, <1>1, DoneFrame DEF Dev!dvars
  <1>2. ASSUME NEW p \in Procs, RwNoDesc(p) \/ RwAgain(p) \/ KillWake(p) PROVE [Dev!Next]_(Dev!dvars)
    <2>1. UNCHANGED <<bdisk, usedRing, seen, usedIdx, disk, data, req>>
      BY Zenon, <1>2 DEF RwNoDesc, RwAgain, KillWake, bufVars, ringVars, devVars
    <2> QED
      BY Zenon, <1>1, <1>2, <2>1, RwSteady
  <1>3. CASE IntrAck \/ IntrExit
    <2>1. UNCHANGED <<bdisk, usedRing, seen, usedIdx, disk, data, req>>
      BY Zenon, <1>3 DEF IntrAck, IntrExit, bufVars, ringVars, devVars
    <2> QED
      BY Zenon, <1>1, <1>3, <2>1, IntrSteady DEF IntrStep
  <1>4. ASSUME NEW h \in Descs, DevTake PROVE [Dev!Next]_(Dev!dvars)
    <2>1. UNCHANGED <<bdisk, usedRing, seen, usedIdx, disk, data, req>>
      BY Zenon, <1>4 DEF DevTake, bufVars
    <2> QED
      BY Zenon, <1>1, <1>4, <2>1, DevSteady DEF DevStep
  <1>5. CASE UNCHANGED vars
    <2>1. UNCHANGED <<disk, data, bdisk, usedRing, usedIdx, seen, pc, req, head>>
      BY Zenon, <1>5 DEF vars, bufVars, ringVars, devVars
    <2>2. Done' = Done
      BY Zenon, <2>1 DEF Done, Finished, Submitted
    <2> QED
      BY Zenon, <2>1, <2>2 DEF Dev!dvars
  <1>6. ASSUME NEW p \in Procs, NEW r \in Requests, NEW v \in Vals, Call(p, r, v)
        PROVE  Dev!Next
    BY Zenon, <1>6, CallDev DEF Dev!Next, Dev!Requests, Requests
  <1>7. ASSUME NEW p \in Procs, RwDone(p) PROVE Dev!Next
    BY Zenon, <1>7, DoneDev DEF Dev!Next
  <1>8. ASSUME NEW h \in Descs, DevFinish(h) PROVE Dev!Next
    BY Zenon, <1>8, FinishDev DEF Dev!Next
  <1>9. CASE Next
    BY Zenon, <1>2, <1>3, <1>4, <1>6, <1>7, <1>8, <1>9, SubmitDev, EntryDev
      DEF Next, RwStep, IntrStep, DevStep
  <1> QED
    BY Zenon, <1>5, <1>9

(* virtio_disk_rw() transfers the right block, once, before it returns:    *)
(* the driver and the device implement BlockDev.                           *)
THEOREM VirtioImplementsBlockDev == Spec => DevSpec
  <1>1. Init => Dev!Init
    <2> SUFFICES ASSUME Init PROVE Dev!Init
      OBVIOUS
    <2>1. Done = {}
      BY Zenon DEF Init, Done, Submitted
    <2>2. data \in [Bufs -> Vals]
      BY Zenon DEF Init
    <2> QED
      BY Zenon, <2>1, <2>2 DEF Init, Dev!Init
  <1>2. IInv /\ [Next]_vars => [Dev!Next]_(Dev!dvars)
    BY Zenon, DevNext
  <1> QED
    BY PTL, <1>1, <1>2, VirtioInv DEF Spec, DevSpec, Dev!Spec

=============================================================================
