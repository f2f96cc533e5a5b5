----------------------------- MODULE BlockCache -----------------------------
(***************************************************************************)
(* What kernel/bio.c promises to the log and the file system: every block  *)
(* has one cached value, used by one process at a time; it changes only in *)
(* the hands of its holder, except that a block that is neither held nor   *)
(* pinned may fall back to what is on the disk.                            *)
(***************************************************************************)
CONSTANTS Procs, Blocks, Vals, None

VARIABLES
  cache,    \* the value that a holder of the block finds
  disk,     \* the value on the disk
  holder,   \* the process between bread() and brelse() of the block, or None
  pinned    \* the blocks between bpin() and bunpin()

bvars == <<cache, disk, holder, pinned>>

Init ==
  /\ disk \in [Blocks -> Vals]
  /\ cache = disk
  /\ holder = [k \in Blocks |-> None]
  /\ pinned = {}

Lock(p, k) ==
  /\ holder[k] = None
  /\ holder' = [holder EXCEPT ![k] = p]
  /\ UNCHANGED <<cache, disk, pinned>>

Unlock(k) ==
  /\ holder' = [holder EXCEPT ![k] = None]
  /\ UNCHANGED <<cache, disk, pinned>>

Modify(k, v) ==
  /\ holder[k] # None
  /\ cache' = [cache EXCEPT ![k] = v]
  /\ UNCHANGED <<disk, holder, pinned>>

Flush(k) ==
  /\ holder[k] # None
  /\ disk' = [disk EXCEPT ![k] = cache[k]]
  /\ UNCHANGED <<cache, holder, pinned>>

Pin(k) ==
  /\ holder[k] # None
  /\ \/ pinned' = pinned \cup {k}
     \/ pinned' = pinned \ {k}
  /\ UNCHANGED <<cache, disk, holder>>

Evict(k) ==
  /\ holder[k] = None /\ k \notin pinned
  /\ cache' = [cache EXCEPT ![k] = disk[k]]
  /\ UNCHANGED <<disk, holder, pinned>>

Next == \E k \in Blocks :
          \/ Unlock(k) \/ Flush(k) \/ Pin(k) \/ Evict(k)
          \/ \E p \in Procs : Lock(p, k)
          \/ \E v \in Vals : Modify(k, v)

Spec == Init /\ [][Next]_bvars

=============================================================================
