------------------------------ MODULE BlockDev ------------------------------
(***************************************************************************)
(* What kernel/virtio_disk.c promises to the buffer cache: the request of  *)
(* virtio_disk_rw(b, write) moves one whole block between the buffer and   *)
(* the disk, once, at one moment between the call and its return.          *)
(***************************************************************************)
CONSTANTS Procs, Bufs, Blocks, Vals, None

VARIABLES
  disk,    \* the contents of each block
  data,    \* b->data
  req,     \* the request each process is in, or None
  done     \* the processes whose request has been carried out

dvars == <<disk, data, req, done>>

Requests == [buf : Bufs, block : Blocks, write : BOOLEAN]

(* The buffer is locked: it is in one request at most.                     *)
Busy(b) == \E p \in Procs : req[p] # None /\ req[p].buf = b

Init ==
  /\ disk \in [Blocks -> Vals]
  /\ data \in [Bufs -> Vals]
  /\ req = [p \in Procs |-> None]
  /\ done = {}

(* A request to write carries the data that the caller put in the buffer.  *)
Start(p, r, v) ==
  /\ req[p] = None /\ ~Busy(r.buf)
  /\ data' = IF r.write THEN [data EXCEPT ![r.buf] = v] ELSE data
  /\ req' = [req EXCEPT ![p] = r]
  /\ UNCHANGED <<disk, done>>

Transfer(p) ==
  LET r == req[p] IN
  /\ r # None /\ p \notin done
  /\ IF r.write
       THEN disk' = [disk EXCEPT ![r.block] = data[r.buf]] /\ UNCHANGED data
       ELSE data' = [data EXCEPT ![r.buf] = disk[r.block]] /\ UNCHANGED disk
  /\ done' = done \cup {p}
  /\ UNCHANGED req

Return(p) ==
  /\ p \in done
  /\ req' = [req EXCEPT ![p] = None]
  /\ done' = done \ {p}
  /\ UNCHANGED <<disk, data>>

Next ==
  \E p \in Procs : Transfer(p) \/ Return(p) \/ \E r \in Requests, v \in Vals : Start(p, r, v)

Spec == Init /\ [][Next]_dvars

=============================================================================
