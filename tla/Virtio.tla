------------------------------- MODULE Virtio -------------------------------
(***************************************************************************)
(* The virtio disk driver of kernel/virtio_disk.c with the device it       *)
(* drives.  Sections of vdisk_lock are one action each, except the         *)
(* interrupt handler, during whose loop the device goes on working.        *)
(*                                                                         *)
(* A descriptor keeps its successor and the buffer it points to; the       *)
(* command header and the status byte of a chain belong to its first       *)
(* descriptor.  The device is external: it takes chains from the avail     *)
(* ring in order, finishes them in any order, puts each one in the used    *)
(* ring and raises an interrupt.  A ring entry that was consumed, and the  *)
(* command of a chain that was freed, are dead: the model forgets them.    *)
(***************************************************************************)
EXTENDS Integers, FiniteSets

CONSTANTS
  Procs,    \* processes that call virtio_disk_rw
  Bufs,     \* struct bufs
  Blocks,   \* block numbers
  Vals,     \* contents of a block
  None,     \* no request, and a null pointer
  NUM,      \* descriptors, and entries of the rings
  Wrap      \* ring indexes count modulo Wrap (2^16 in the code)

ASSUME NumAssumption == NUM \in Nat /\ NUM >= 3
ASSUME WrapAssumption == Wrap \in Nat /\ Wrap >= NUM /\ Wrap % NUM = 0
ASSUME NoneAssumption == /\ None \notin Bufs /\ None \notin Nat
                         /\ None \notin [buf : Bufs, block : Blocks, write : BOOLEAN]

Descs == 0 .. NUM - 1

VARIABLES
  disk,                     \* the blocks on the disk
  data, bdisk,              \* b->data; b->disk, as a set of buffers
  free, next, addr,         \* the free descriptors; desc[i].next, .addr
  ops, status, info,        \* by first descriptor: command, status is 0, info[i].b
  availRing, availIdx,      \* the avail ring
  usedRing, usedIdx,        \* the used ring
  seen,                     \* disk.used_idx
  devIdx, taken, isr,       \* device: next avail entry, chains in work, interrupt
  intr,                     \* virtio_disk_intr() is in its loop, with vdisk_lock
  pc, req, head             \* each process: where it is, b and write, idx[0]

bufVars  == <<data, bdisk>>
descVars == <<free, next, addr, ops, info>>
devVars  == <<usedIdx, devIdx, taken>>
ringVars == <<availRing, availIdx, usedRing>>
vars == <<disk, bufVars, descVars, status, ringVars, devVars, seen, isr,
          intr, pc, req, head>>

Requests == [buf : Bufs, block : Blocks, write : BOOLEAN]

Plus1(i) == (i + 1) % Wrap

Goto(p, l) == pc' = [pc EXCEPT ![p] = l]

-----------------------------------------------------------------------------
(* Callers.                                                                *)

Busy(b) == \E p \in Procs : pc[p] # "idle" /\ req[p].buf = b

(* The caller holds b's sleep lock; the data it writes is v.               *)
Call(p, r, v) ==
  /\ pc[p] = "idle" /\ ~Busy(r.buf)
  /\ data' = IF r.write THEN [data EXCEPT ![r.buf] = v] ELSE data
  /\ req' = [req EXCEPT ![p] = r]
  /\ Goto(p, "rw")
  /\ UNCHANGED <<disk, bdisk, descVars, status, ringVars, devVars, seen,
                 isr, intr, head>>

-----------------------------------------------------------------------------
(* virtio_disk_rw().                                                       *)

(* The descriptor that alloc_desc() finds in S.                            *)
Lowest(S) == CHOOSE i \in S : \A j \in S : i <= j

(* alloc3_desc(), when three are free: idx[0], idx[1] and idx[2].          *)
Alloc3 ==
  LET i == Lowest(free)
      j == Lowest(free \ {i})
  IN  <<i, j, Lowest(free \ {i, j})>>

(* wakeup(&disk.free[0]) by p, which goes on at l.                         *)
WakeFree(p, l) ==
  pc' = [q \in Procs |-> IF q = p THEN l ELSE IF pc[q] = "wait_desc" THEN "rw" ELSE pc[q]]

(* Fewer than three descriptors: what was allocated is freed again, which  *)
(* wakes the other waiters, and p sleeps.                                  *)
RwNoDesc(p) ==
  /\ pc[p] = "rw" /\ ~intr
  /\ Cardinality(free) < 3
  /\ IF free = {} THEN Goto(p, "wait_desc") ELSE WakeFree(p, "wait_desc")
  /\ UNCHANGED <<disk, bufVars, descVars, status, ringVars, devVars, seen,
                 isr, intr, req, head>>

(* "record struct buf for virtio_disk_intr()".                             *)
Record(h, b) ==
  /\ bdisk' = bdisk \cup {b}
  /\ info' = [info EXCEPT ![h] = b]

(* Format a chain of three, put it in the avail ring, notify, and sleep.   *)
RwSubmit(p) ==
  LET idx == Alloc3
      r   == req[p]
  IN
  /\ pc[p] = "rw" /\ ~intr
  /\ Cardinality(free) >= 3
  /\ free' = free \ {idx[1], idx[2], idx[3]}
  /\ next' = [next EXCEPT ![idx[1]] = idx[2], ![idx[2]] = idx[3], ![idx[3]] = None]
  /\ addr' = [addr EXCEPT ![idx[2]] = r.buf]
  /\ ops' = [ops EXCEPT ![idx[1]] = [block |-> r.block, write |-> r.write]]
  /\ status' = [status EXCEPT ![idx[1]] = FALSE]
  /\ Record(idx[1], r.buf)
  /\ availRing' = [availRing EXCEPT ![availIdx % NUM] = idx[1]]
  /\ availIdx' = Plus1(availIdx)
  /\ head' = [head EXCEPT ![p] = idx[1]]
  /\ Goto(p, "wait_io")
  /\ UNCHANGED <<disk, data, usedRing, devVars, seen, isr, intr, req>>

(* while(b->disk == 1): the request is not finished.                       *)
RwAgain(p) ==
  /\ pc[p] = "woken" /\ ~intr
  /\ req[p].buf \in bdisk
  /\ Goto(p, "wait_io")
  /\ UNCHANGED <<disk, bufVars, descVars, status, ringVars, devVars, seen,
                 isr, intr, req, head>>

(* The descriptors that free_chain(h) visits; a chain has three at most.   *)
Chain(h) ==
  {h} \cup (IF next[h] = None THEN {}
            ELSE {next[h]} \cup (IF next[next[h]] = None THEN {} ELSE {next[next[h]]}))

(* Mutant: the chain is not followed.                                      *)
FreeChainHead(h) ==
  /\ free' = free \cup {h}
  /\ next' = [next EXCEPT ![h] = None]
  /\ UNCHANGED addr
  /\ ops' = [ops EXCEPT ![h] = None]

(* free_chain(h), except for its wakeups.                                  *)
FreeChain(h) ==
  /\ free' = free \cup Chain(h)
  /\ next' = [d \in Descs |-> IF d \in Chain(h) THEN None ELSE next[d]]
  /\ addr' = [d \in Descs |-> IF d \in Chain(h) THEN None ELSE addr[d]]
  /\ ops' = [ops EXCEPT ![h] = None]

(* info[idx[0]].b = 0, free_chain() and return.                            *)
RwReturn(p) ==
  /\ pc[p] = "woken" /\ ~intr
  /\ info' = [info EXCEPT ![head[p]] = None]
  /\ FreeChain(head[p])
  /\ req' = [req EXCEPT ![p] = None]
  /\ head' = [head EXCEPT ![p] = None]
  /\ UNCHANGED <<disk, bufVars, status, ringVars, devVars, seen, isr, intr>>

(* Mutant: b->disk is not tested again after sleep().                      *)
RwDoneUnchecked(p) == RwReturn(p) /\ WakeFree(p, "idle")

(* Mutant: the waiters for a descriptor are not woken.                     *)
RwDoneQuiet(p) == RwReturn(p) /\ req[p].buf \notin bdisk /\ Goto(p, "idle")

(* The request is finished.                                                *)
RwDone(p) == RwReturn(p) /\ req[p].buf \notin bdisk /\ WakeFree(p, "idle")

(* kill() makes a sleeper RUNNABLE.                                        *)
KillWake(p) ==
  /\ \/ pc[p] = "wait_desc" /\ Goto(p, "rw")
     \/ pc[p] = "wait_io" /\ Goto(p, "woken")
  /\ UNCHANGED <<disk, bufVars, descVars, status, ringVars, devVars, seen,
                 isr, intr, req, head>>

-----------------------------------------------------------------------------
(* virtio_disk_intr().                                                     *)

(* acquire(&vdisk_lock) and acknowledge.                                   *)
IntrAck ==
  /\ isr /\ ~intr
  /\ isr' = FALSE
  /\ intr' = TRUE
  /\ UNCHANGED <<disk, bufVars, descVars, status, ringVars, devVars, seen,
                 pc, req, head>>

(* Mutant: one entry only for each interrupt.                              *)
IntrEntryOnce ==
  LET b == info[usedRing[seen % NUM]] IN
  /\ intr /\ seen # usedIdx
  /\ bdisk' = bdisk \ {b}
  /\ pc' = [p \in Procs |-> IF pc[p] = "wait_io" /\ req[p].buf = b THEN "woken" ELSE pc[p]]
  /\ seen' = Plus1(seen)
  /\ usedRing' = [usedRing EXCEPT ![seen % NUM] = None]
  /\ intr' = FALSE
  /\ UNCHANGED <<disk, data, descVars, status, availRing, availIdx, devVars, isr, req, head>>

(* One entry of the used ring: the request is done, wake its process.      *)
IntrEntry ==
  LET b == info[usedRing[seen % NUM]] IN
  /\ intr /\ seen # usedIdx
  /\ bdisk' = bdisk \ {b}
  /\ pc' = [p \in Procs |-> IF pc[p] = "wait_io" /\ req[p].buf = b THEN "woken" ELSE pc[p]]
  /\ seen' = Plus1(seen)
  /\ usedRing' = [usedRing EXCEPT ![seen % NUM] = None]
  /\ UNCHANGED <<disk, data, descVars, status, availRing, availIdx, devVars, isr,
                 intr, req, head>>

IntrExit ==
  /\ intr /\ seen = usedIdx
  /\ intr' = FALSE
  /\ UNCHANGED <<disk, bufVars, descVars, status, ringVars, devVars, seen, isr,
                 pc, req, head>>

-----------------------------------------------------------------------------
(* The device.                                                             *)

DevTake ==
  /\ devIdx # availIdx
  /\ taken' = taken \cup {availRing[devIdx % NUM]}
  /\ availRing' = [availRing EXCEPT ![devIdx % NUM] = None]
  /\ devIdx' = Plus1(devIdx)
  /\ UNCHANGED <<disk, bufVars, descVars, status, availIdx, usedRing, usedIdx,
                 seen, isr, intr, pc, req, head>>

DevFinish(h) ==
  LET b == addr[next[h]] IN
  /\ h \in taken
  /\ IF ops[h].write
       THEN disk' = [disk EXCEPT ![ops[h].block] = data[b]] /\ UNCHANGED data
       ELSE data' = [data EXCEPT ![b] = disk[ops[h].block]] /\ UNCHANGED disk
  /\ status' = [status EXCEPT ![h] = TRUE]
  /\ taken' = taken \ {h}
  /\ usedRing' = [usedRing EXCEPT ![usedIdx % NUM] = h]
  /\ usedIdx' = Plus1(usedIdx)
  /\ isr' = TRUE
  /\ UNCHANGED <<bdisk, descVars, availRing, availIdx, devIdx, seen, intr, pc, req, head>>

-----------------------------------------------------------------------------
(* virtio_disk_init(): every descriptor is free, the rings are zeroed.     *)
Init ==
  /\ disk \in [Blocks -> Vals]
  /\ \E v \in Vals : data = [b \in Bufs |-> v]
  /\ bdisk = {}
  /\ free = Descs
  /\ next = [d \in Descs |-> None]
  /\ addr = [d \in Descs |-> None]
  /\ ops = [d \in Descs |-> None]
  /\ status = [d \in Descs |-> TRUE]
  /\ info = [d \in Descs |-> None]
  /\ availRing = [d \in Descs |-> None] /\ availIdx = 0
  /\ usedRing = [d \in Descs |-> None] /\ usedIdx = 0
  /\ seen = 0
  /\ devIdx = 0 /\ taken = {} /\ isr = FALSE
  /\ intr = FALSE
  /\ pc = [p \in Procs |-> "idle"]
  /\ req = [p \in Procs |-> None]
  /\ head = [p \in Procs |-> None]

RwStep(p) == RwNoDesc(p) \/ RwSubmit(p) \/ RwAgain(p) \/ RwDone(p)

IntrStep == IntrAck \/ IntrEntry \/ IntrExit

DevStep(h) == DevTake \/ DevFinish(h)

Next ==
  \/ \E p \in Procs : RwStep(p) \/ KillWake(p) \/ \E r \in Requests, v \in Vals : Call(p, r, v)
  \/ IntrStep
  \/ \E h \in Descs : DevStep(h)

Spec == Init /\ [][Next]_vars

-----------------------------------------------------------------------------
(* Properties.                                                             *)

Submitted == {p \in Procs : pc[p] \in {"wait_io", "woken"}}

(* Every descriptor that is not free is in the chain of exactly one        *)
(* request, and that chain has its three descriptors: none leaks, none is  *)
(* freed twice ("free_desc 2"), none is shared by two requests.            *)
DescriptorsOwned ==
  /\ UNION {Chain(head[p]) : p \in Submitted} = Descs \ free
  /\ \A p \in Submitted : Cardinality(Chain(head[p])) = 3
  /\ \A p, q \in Submitted : p # q => Chain(head[p]) \cap Chain(head[q]) = {}

(* The entries of a ring from index i up to index j.                       *)
Between(ring, i, j) == {ring[(i + k) % NUM] : k \in 0 .. ((j + Wrap - i) % Wrap) - 1}

Waiting == Between(availRing, devIdx, availIdx)
Finished == Between(usedRing, seen, usedIdx)

(* No completion is lost.  A request that is not finished is in exactly    *)
(* one place, the avail ring, the device or the used ring, and a request   *)
(* in the used ring has an interrupt pending or being handled, has         *)
(* succeeded, and has its buffer still waiting for it.                     *)
CompletionPending ==
  /\ \A p \in Submitted : req[p].buf \in bdisk =>
       Cardinality({S \in {1, 2, 3} : head[p] \in <<Waiting, taken, Finished>>[S]}) = 1
  /\ Finished # {} => isr \/ intr
  /\ \A h \in Finished : status[h] /\ info[h] \in bdisk
                          /\ \E p \in Submitted : head[p] = h /\ req[p].buf = info[h]

(* Nobody sleeps for descriptors while three are free.                     *)
DescWakeup == \A p \in Procs : pc[p] = "wait_desc" => Cardinality(free) < 3

Done == {p \in Submitted : head[p] \in Finished \/ req[p].buf \notin bdisk}

Dev == INSTANCE BlockDev WITH done <- Done

(* virtio_disk_rw() transfers the right block, once, before it returns,    *)
(* whatever the order in which the device finishes requests.               *)
DevSpec == Dev!Spec

=============================================================================
