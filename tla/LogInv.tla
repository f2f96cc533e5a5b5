------------------------------- MODULE LogInv -------------------------------
(***************************************************************************)
(* The inductive invariant of Log: which of the cache, the log and the     *)
(* home blocks agree in each phase of a commit and of recovery.            *)
(***************************************************************************)
EXTENDS Log

Distinct(s) == \A i, j \in 1 .. Len(s) : s[i] = s[j] => i = j

(* The first k logged blocks are in the log, are at home.                  *)
Copied(k) == \A i \in 1 .. k : logblk[i] = cache[lh[i]]
Installed(k) == \A i \in 1 .. k : home[lh[i]] = logblk[i]

(* The thread is inside commit() with a transaction; the header is on disk.*)
InCommit(o) == pc[o] \in {"write_log", "write_head", "install", "clear"}
Committed(o) == pc[o] \in {"install", "clear"}

(* log.outstanding counts the system calls between begin_op and end_op.    *)
Enumerates(f, n, S) ==
  /\ f \in [1 .. n -> S]
  /\ \A i, j \in 1 .. n : f[i] = f[j] => i = j
  /\ \A x \in S : \E i \in 1 .. n : f[i] = x

CountInv == \E f \in [1 .. outstanding -> Active] : Enumerates(f, outstanding, Active)

(* Who is where: booting excludes system calls, committing excludes all    *)
(* other system calls.                                                     *)
ThreadInv ==
  /\ pc[Boot] # "up" => \A o \in Ops : pc[o] = "idle"
  /\ committing => outstanding = 0
  /\ \A o \in Ops : pc[o] \in CommitPcs => committing
  /\ \A o, q \in Ops : pc[o] \in CommitPcs /\ pc[q] \in CommitPcs => o = q
  /\ \A t \in Threads : pc[t] \notin {"recover", "write_log", "install"} => tail[t] = 0
  /\ \A t \in Threads : tail[t] <= Len(lh)

(* Recovery.                                                               *)
RecoverInv ==
  pc[Boot] # "up" =>
    /\ cache = home
    /\ \A b \in Blocks : pins[b] = 0
    /\ pc[Boot] # "read_head" => lh = hdr
    /\ pc[Boot] = "recover" => Installed(tail[Boot])
    /\ pc[Boot] = "clear_head" => Installed(Len(lh))

(* The log header of a running system.                                     *)
HeaderInv ==
  /\ Distinct(lh) /\ Distinct(hdr)
  /\ pc[Boot] = "up" /\ (\A o \in Ops : ~Committed(o)) => hdr = <<>>
  /\ pc[Boot] = "up" /\ outstanding = 0 /\ (\A o \in Ops : ~InCommit(o)) => lh = <<>>
  /\ \A o \in Ops : Committed(o) => hdr = lh
  /\ \A o \in Ops : pc[o] = "end_commit" => lh = <<>>

(* How far a commit is.                                                    *)
PhaseInv ==
  \A o \in Ops :
    /\ pc[o] = "write_log" => Copied(tail[o])
    /\ pc[o] = "write_head" \/ Committed(o) => Copied(Len(lh))
    /\ pc[o] = "install" => Installed(tail[o])
    /\ pc[o] = "clear" => Installed(Len(lh))

(* The buffer cache of a running system.                                   *)
CacheInv ==
  /\ \A b \in Blocks : pins[b] = 0 => cache[b] = home[b]
  /\ pc[Boot] = "up" => \A b \in Blocks : b \notin Logged(lh) => cache[b] = home[b]
  /\ pc[Boot] = "up" /\ (\A o \in Ops : ~Committed(o)) =>
       \A b \in Logged(lh) : pins[b] > 0
  /\ \A o \in Ops : pc[o] = "install" => \A i \in tail[o] + 1 .. Len(lh) : pins[lh[i]] > 0

IInv == TypeOK /\ CountInv /\ ThreadInv /\ RecoverInv /\ HeaderInv /\ PhaseInv /\ CacheInv

=============================================================================
