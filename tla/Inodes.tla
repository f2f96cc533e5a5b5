------------------------------- MODULE Inodes -------------------------------
(***************************************************************************)
(* Inodes, directories and path names: kernel/fs.c and the system calls of *)
(* kernel/sysfile.c that work on names.                                    *)
(*                                                                         *)
(* A section under one inode's sleep lock is one action, which waits until *)
(* the lock is free; where a second lock is taken inside, each is taken by *)
(* an action of its own, so that processes wait with locks held.  iput()   *)
(* is up to four actions: the test under itable.lock, truncating, freeing, *)
(* and dropping the reference.  The log and the buffer cache make updates  *)
(* of blocks atomic (modules Log and Bcache); sizes within a block and     *)
(* file contents are left out, all blocks of an inode are direct, and an   *)
(* entry of the inode table is named by its inode number, which iget()     *)
(* makes unique.                                                           *)
(***************************************************************************)
EXTENDS Integers, Sequences, SequencesExt, FiniteSets, TLC

CONSTANTS
  Procs,      \* processes
  Files,      \* names of files and directories, other than . and ..
  NINODES,    \* inodes on disk
  NBLOCKS,    \* data blocks on the largest disk
  MAXFILE,    \* blocks of an inode
  DPB,        \* directory entries in a block: BSIZE / sizeof(struct dirent)
  Programs,   \* what is run: [size, calls], the blocks of the disk and the calls of each
              \* process, [op, abs, elems]: an operation and its path
  NewPaths,   \* the second argument of link(): [abs, elems]
  None        \* no process

ASSUME InodeAssumption ==
  /\ {NINODES, NBLOCKS, MAXFILE, DPB} \subseteq Nat \ {0}
  /\ Files \cap {".", ".."} = {} /\ None \notin Procs
  /\ \A f \in Programs : f.size <= NBLOCKS
  /\ \A f \in Programs, p \in Procs : {c.op : c \in f.calls[p]} \subseteq
       {"open", "trunc", "creat", "mkdir", "mknod", "unlink", "link", "chdir", "exec"}

Inums == 1 .. NINODES
Blocks == 1 .. NBLOCKS
ROOTINO == 1
Names == Files \cup {".", ".."}
NoEntry == [name |-> "", inum |-> 0]

VARIABLES
  disk,        \* dinodes: [type, nlink, addrs]
  mem,         \* the same fields of the inode table
  bitmap,      \* blocks in use
  ent,         \* the directory entries in each block, in order
  ref, valid,  \* struct inode
  lk,          \* the holder of each inode's sleep lock
  cwd, fd,     \* p->cwd, and the inode of the one file that p may have open
  pc,          \* <<phase, label>>: waiting for a lock, running or in iput() before label
  call,        \* locals of a system call
  prog,        \* what is run, on which disk: chosen once
  lost,        \* history: entries that went with the directory they were in
  stale        \* history: .. of a removed directory has been followed

diskVars == <<disk, bitmap, ent>>
itableVars == <<mem, ref, valid, lk>>
vars == <<diskVars, itableVars, cwd, fd, pc, call, prog, lost, stale>>

NoCall == [op |-> "none", rest |-> <<>>, name |-> "", cur |-> 0, ip |-> 0, dp |-> 0, put |-> 0]

With(c, new) == [f \in DOMAIN c |-> IF f \in DOMAIN new THEN new[f] ELSE c[f]]

-----------------------------------------------------------------------------
(* Where p goes next, with some locals changed.  Most labels start with    *)
(* ilock().                                                                *)

LockDp == {"create", "unlink", "link_dir"}
LockIp == {"open", "exec", "chdir", "link", "link_bad", "exist", "new", "child"}
Target(p, l) == CASE l = "walk" -> call[p].cur
                  [] l = "rw" -> fd[p]
                  [] l \in LockDp -> call[p].dp
                  [] OTHER -> call[p].ip

Enter(l) == IF l \in LockDp \cup LockIp \cup {"walk", "rw"} THEN <<"lock", l>> ELSE <<"run", l>>
Goto(p, l, new) ==
  /\ pc' = [pc EXCEPT ![p] = Enter(l)]
  /\ call' = [call EXCEPT ![p] = IF l = "user" THEN NoCall ELSE With(@, new)]

(* iput(i), and then l.                                                    *)
PutThen(p, i, l, new) ==
  /\ pc' = [pc EXCEPT ![p] = <<"put", l>>]
  /\ call' = [call EXCEPT ![p] = [With(@, new) EXCEPT !.put = i]]

At(p, l) == pc[p] = <<"run", l>>

Unlock(i) == lk' = [lk EXCEPT ![i] = None]

-----------------------------------------------------------------------------
(* The inode table.                                                        *)

(* iget() or idup() of i: a new entry is not valid.                        *)
Iget(i) ==
  /\ ref' = [ref EXCEPT ![i] = @ + 1]
  /\ valid' = IF ref[i] = 0 THEN [valid EXCEPT ![i] = FALSE] ELSE valid

(* iget(i) in a section that has loaded d.                                 *)
IgetIn(d, i) ==
  /\ mem' = [mem EXCEPT ![d] = IF valid[d] THEN mem[d] ELSE disk[d]]
  /\ ref' = [ref EXCEPT ![i] = @ + 1]
  /\ valid' = [valid EXCEPT ![d] = TRUE, ![i] = IF ref[i] = 0 THEN FALSE ELSE @]

(* Inode i as ilock() leaves it, and its panic on one that is free.        *)
Inode(i) == IF valid[i] THEN mem[i] ELSE disk[i]
NoType(i) == ~valid[i] /\ disk[i].type = "free"

Load(i) == mem' = [mem EXCEPT ![i] = Inode(i)] /\ valid' = [valid EXCEPT ![i] = TRUE]

(* A section that starts with ilock(i) in p, before label l ...            *)
Locks(p, l) ==
  LET i == Target(p, l)
  IN pc[p] = <<"lock", l>> /\ lk[i] = None /\ ~NoType(i)

(* ... and the outer lock of two.                                          *)
Ilock(p) ==
  \E l \in {"create", "unlink", "new", "child"} :
    LET i == Target(p, l)
    IN /\ Locks(p, l)
       /\ lk' = [lk EXCEPT ![i] = p]
       /\ Load(i)
       /\ pc' = [pc EXCEPT ![p] = <<"run", l>>]
       /\ UNCHANGED <<diskVars, ref, cwd, fd, call, lost, stale, prog>>

(* The panic stops the kernel.                                             *)
IlockPanic(p) ==
  LET i == Target(p, pc[p][2])
  IN /\ pc[p][1] = "lock" /\ lk[i] = None /\ NoType(i)
     /\ lk' = [lk EXCEPT ![i] = p]
     /\ Load(i)
     /\ pc' = [q \in Procs |-> <<"run", "panic">>]
     /\ UNCHANGED <<diskVars, ref, cwd, fd, call, lost, stale, prog>>

(* A change of inodes' fields with its iupdate().                          *)
Iupdate(new) == mem' = new @@ mem /\ disk' = new @@ disk

(* iput(): the last reference to an inode without links is kept, with the  *)
(* inode locked, until it is freed; any other one is dropped.              *)
LastUse(i) == ref[i] = 1 /\ valid[i] /\ mem[i].nlink = 0

Iput(p) ==
  LET i == call[p].put
  IN /\ pc[p][1] = "put"
     /\ IF LastUse(i)
        THEN /\ lk[i] = None
             /\ lk' = [lk EXCEPT ![i] = p]
             /\ pc' = [pc EXCEPT ![p][1] = "trunc"]
             /\ UNCHANGED <<ref, call>>
        ELSE /\ ref' = [ref EXCEPT ![i] = @ - 1]
             /\ Goto(p, pc[p][2], [put |-> 0])
             /\ UNCHANGED lk
     /\ UNCHANGED <<diskVars, mem, valid, cwd, fd, lost, stale, prog>>

Bfree(bs) == bitmap' = bitmap \ bs

(* What readi() finds in a directory: the entries in its blocks.           *)
Entries(e, node) == FlattenSeq([k \in DOMAIN node.addrs |-> e[node.addrs[k]]])

(* itrunc(): give the blocks back, with whatever entries are still there.  *)
Trunc(i) ==
  LET bs == Range(Inode(i).addrs)
      es == Entries(ent, Inode(i))
  IN /\ Bfree(bs)
     /\ Iupdate(i :> [Inode(i) EXCEPT !.addrs = <<>>])
     /\ ent' = [b \in Blocks |-> IF b \in bs THEN <<>> ELSE ent[b]]
     /\ lost' = [j \in Inums |->
                   lost[j] + Cardinality({k \in DOMAIN es : es[k].inum = j /\ es[k].name \in Files})]

IputTrunc(p) ==
  /\ pc[p][1] = "trunc"
  /\ Trunc(call[p].put)
  /\ pc' = [pc EXCEPT ![p][1] = "free"]
  /\ UNCHANGED <<ref, valid, lk, cwd, fd, call, stale, prog>>

(* A mutant that leaves the freed inode valid in the table.                *)
IputFreeKeepsValid(p) ==
  LET i == call[p].put
  IN /\ pc[p][1] = "free"
     /\ Iupdate(i :> [Inode(i) EXCEPT !.type = "free"])
     /\ Unlock(i)
     /\ pc' = [pc EXCEPT ![p][1] = "deref"]
     /\ UNCHANGED <<bitmap, ent, ref, valid, cwd, fd, call, lost, stale, prog>>

(* ip->type = 0, iupdate(), ip->valid = 0, releasesleep().                 *)
IputFree(p) ==
  LET i == call[p].put
  IN /\ pc[p][1] = "free"
     /\ Iupdate(i :> [Inode(i) EXCEPT !.type = "free"])
     /\ valid' = [valid EXCEPT ![i] = FALSE]
     /\ Unlock(i)
     /\ pc' = [pc EXCEPT ![p][1] = "deref"]
     /\ UNCHANGED <<bitmap, ent, ref, cwd, fd, call, lost, stale, prog>>

IputDeref(p) ==
  /\ pc[p][1] = "deref"
  /\ ref' = [ref EXCEPT ![call[p].put] = @ - 1]
  /\ Goto(p, pc[p][2], [put |-> 0])
  /\ UNCHANGED <<diskVars, mem, valid, lk, cwd, fd, lost, stale, prog>>

-----------------------------------------------------------------------------
(* Directories.  dirlookup() and dirlink() of the directory i, locked.     *)

EntryOf(es, n) ==
  LET k == SelectInSeq(es, LAMBDA e : e.inum # 0 /\ e.name = n)
  IN IF k = 0 THEN 0 ELSE es[k].inum
Lookup(i, n) == EntryOf(Entries(ent, Inode(i)), n)

(* balloc(): the first free block, or 0.                                   *)
Balloc(used) ==
  LET free == (1 .. prog.size) \ used
  IN IF free = {} THEN 0 ELSE CHOOSE b \in free : \A c \in free : b <= c

(* bmap(): block n of an inode, found if it has none; writei() asks for no *)
(* block after the last.                                                   *)
Bmap(node, n, used) ==
  IF n <= Len(node.addrs) THEN node.addrs[n] ELSE IF n > MAXFILE THEN 0 ELSE Balloc(used)

(* What dirlink() works on; ok until one has failed.                       *)
Dir(i) == [node |-> Inode(i), ent |-> ent, used |-> bitmap, ok |-> TRUE]

(* dirlink(): the name is not there, and the entry goes to the first slot  *)
(* that is free or after the last, perhaps into a new block.               *)
Dirlink(d, n, i) ==
  LET es == Entries(d.ent, d.node)
      free == SelectInSeq(es, LAMBDA e : e.inum = 0)
      slot == IF free = 0 THEN Len(es) + 1 ELSE free
      b == Bmap(d.node, ((slot - 1) \div DPB) + 1, d.used)
      k == ((slot - 1) % DPB) + 1
      entry == [name |-> n, inum |-> i]
  IN IF ~d.ok \/ EntryOf(es, n) # 0 \/ b = 0 THEN [d EXCEPT !.ok = FALSE]
     ELSE [d EXCEPT !.node.addrs = IF b \in Range(@) THEN @ ELSE Append(@, b),
                    !.used = @ \cup {b},
                    !.ent[b] = IF k > Len(@) THEN Append(@, entry) ELSE [@ EXCEPT ![k] = entry]]

Clear(es, n) == [k \in DOMAIN es |-> IF es[k].name = n THEN NoEntry ELSE es[k]]

(* isdirempty() skips the first two entries, which are . and .. .          *)
IsEmpty(i) ==
  LET es == Entries(ent, Inode(i)) IN \A k \in DOMAIN es : k > 2 => es[k].inum = 0

-----------------------------------------------------------------------------
(* namex().                                                                *)

(* nameiparent() stops one level early; link() calls namei() first.        *)
Creates == {"creat", "mkdir", "mknod"}
Parent(c) == c.op \in Creates \cup {"unlink"} \/ (c.op = "link" /\ c.ip # 0)

NotFound(c) == IF c.op = "link" /\ c.ip # 0 THEN "link_bad" ELSE "user"

Found(c) == IF c.op = "trunc" THEN "open" ELSE c.op

FoundDir(c) == CASE c.op \in Creates -> "create" [] c.op = "unlink" -> "unlink" [] OTHER -> "link_dir"

(* The names an inode has.                                                 *)
Dirs == {i \in Inums : disk[i].type = "dir"}
Entry(d, n) == EntryOf(Entries(ent, disk[d]), n)
NamesOf(i) == {x \in Dirs \X Files : Entry(x[1], x[2]) = i}

(* The walk begins at the root or at p->cwd; "/" has no elements at all.   *)
Namex(p, path, op) ==
  LET i == IF path.abs THEN ROOTINO ELSE cwd[p]
      c == [call[p] EXCEPT !.op = op]
  IN /\ Iget(i)
     /\ IF path.elems # <<>> THEN Goto(p, "walk", [op |-> op, rest |-> path.elems, cur |-> i])
        ELSE IF Parent(c) THEN PutThen(p, i, NotFound(c), [op |-> op])
        ELSE Goto(p, Found(c), [op |-> op, ip |-> i])

Skipelem(c) == [name |-> Head(c.rest), rest |-> Tail(c.rest)]

(* One element of the path: the end of the walk ...                        *)
WalkEnds(p) ==
  LET c == call[p]
  IN /\ Locks(p, "walk")
     /\ \/ /\ Inode(c.cur).type # "dir"
           /\ PutThen(p, c.cur, NotFound(c), [cur |-> 0, rest |-> <<>>])
        \/ /\ Inode(c.cur).type = "dir" /\ Parent(c) /\ Len(c.rest) = 1
           /\ Goto(p, FoundDir(c), Skipelem(c) @@ [dp |-> c.cur, cur |-> 0])
        \/ /\ Inode(c.cur).type = "dir" /\ ~(Parent(c) /\ Len(c.rest) = 1)
           /\ Lookup(c.cur, Head(c.rest)) = 0
           /\ PutThen(p, c.cur, NotFound(c), [cur |-> 0, rest |-> <<>>])
     /\ Load(c.cur)
     /\ UNCHANGED <<diskVars, ref, lk, cwd, fd, lost, stale, prog>>

(* ... or on to the next.                                                  *)
WalkNext(p) ==
  LET c == call[p]
      next == Lookup(c.cur, Head(c.rest))
  IN /\ Locks(p, "walk") /\ Inode(c.cur).type = "dir" /\ ~(Parent(c) /\ Len(c.rest) = 1)
     /\ next # 0
     /\ IgetIn(c.cur, next)
     /\ stale' = (stale \/ (Head(c.rest) = ".." /\ c.cur # ROOTINO /\ NamesOf(c.cur) = {}))
     /\ IF Len(c.rest) > 1 THEN PutThen(p, c.cur, "walk", Skipelem(c) @@ [cur |-> next])
        ELSE PutThen(p, c.cur, Found(c), Skipelem(c) @@ [cur |-> 0, ip |-> next])
     /\ UNCHANGED <<diskVars, lk, cwd, fd, lost, prog>>

-----------------------------------------------------------------------------
(* sys_open(), sys_mkdir(), sys_mknod() and create().                      *)

(* The inode is locked: refuse it, or install a file descriptor; all but   *)
(* "open" come with O_TRUNC, as they do from the shell.  The major number  *)
(* of a device may be out of range.                                        *)
OpenLocked(p) ==
  LET c == call[p]
      i == c.ip
      t == Inode(i).type
  IN /\ \/ /\ (t = "dir" /\ c.op # "open") \/ t = "dev" \/ fd[p] # 0
           /\ PutThen(p, i, "user", [ip |-> 0])
           /\ Load(i)
           /\ UNCHANGED <<diskVars, fd, lost>>
        \/ /\ ~(t = "dir" /\ c.op # "open") /\ fd[p] = 0
           /\ fd' = [fd EXCEPT ![p] = i]
           /\ IF c.op # "open" /\ t = "file"
              THEN Trunc(i) /\ valid' = [valid EXCEPT ![i] = TRUE]
              ELSE Load(i) /\ UNCHANGED <<diskVars, lost>>
           /\ Goto(p, "user", <<>>)
     /\ Unlock(i)
     /\ UNCHANGED <<ref, cwd, stale, prog>>

Open(p) == Locks(p, "open") /\ OpenLocked(p)

TypeOf(op) == CASE op = "creat" -> "file" [] op = "mkdir" -> "dir" [] OTHER -> "dev"

(* create() with the parent locked: the name exists ...                    *)
CreateExists(p) ==
  LET c == call[p]
      i == Lookup(c.dp, c.name)
  IN /\ At(p, "create") /\ i # 0
     /\ Iget(i)
     /\ Unlock(c.dp)
     /\ PutThen(p, c.dp, "exist", [ip |-> i, dp |-> 0])
     /\ UNCHANGED <<diskVars, mem, cwd, fd, lost, stale, prog>>

Exist(p) ==
  LET c == call[p]
  IN /\ Locks(p, "exist")
     /\ \/ /\ c.op = "creat" /\ Inode(c.ip).type \in {"file", "dev"}
           /\ OpenLocked(p)
        \/ /\ ~(c.op = "creat" /\ Inode(c.ip).type \in {"file", "dev"})
           /\ PutThen(p, c.ip, "user", [ip |-> 0])
           /\ Load(c.ip)
           /\ UNCHANGED <<diskVars, ref, lk, cwd, fd, lost, stale, prog>>

(* ... or ialloc() takes the first inode that is free on disk, if any.     *)
CreateIalloc(p) ==
  LET c == call[p]
      free == {i \in Inums : disk[i].type = "free"}
      i == CHOOSE x \in free : \A y \in free : x <= y
  IN /\ At(p, "create") /\ Lookup(c.dp, c.name) = 0
     /\ IF free = {}
        THEN /\ Unlock(c.dp)
             /\ PutThen(p, c.dp, "user", [dp |-> 0])
             /\ UNCHANGED <<disk, ref, valid>>
        ELSE /\ disk' = [disk EXCEPT ![i] = [type |-> TypeOf(c.op), nlink |-> 0, addrs |-> <<>>]]
             /\ Iget(i)
             /\ Goto(p, "new", [ip |-> i])
             /\ UNCHANGED lk
     /\ UNCHANGED <<bitmap, ent, mem, cwd, fd, lost, stale, prog>>

(* Both are locked: a directory gets its block with . and .., and the      *)
(* parent its entry, for which it may need another block.                  *)
New(p) ==
  LET c == call[p]
      node == Dir(c.ip)
      dots == IF c.op = "mkdir" THEN Dirlink(Dirlink(node, ".", c.ip), "..", c.dp) ELSE node
      made == Dirlink([dots EXCEPT !.node = Inode(c.dp)], c.name, c.ip)
  IN /\ At(p, "new")
     /\ bitmap' = made.used
     /\ ent' = made.ent
     /\ IF made.ok
        THEN /\ Iupdate(c.ip :> [dots.node EXCEPT !.nlink = 1]
                        @@ c.dp :> [made.node EXCEPT !.nlink = IF c.op = "mkdir" THEN @ + 1 ELSE @])
             /\ Unlock(c.dp)
             /\ PutThen(p, c.dp, "created", [dp |-> 0])
        ELSE /\ Iupdate(c.ip :> [dots.node EXCEPT !.nlink = 0])
             /\ Unlock(c.ip)
             /\ PutThen(p, c.ip, "undo", [ip |-> 0])
     /\ UNCHANGED <<ref, valid, cwd, fd, lost, stale, prog>>

(* create() returns the new inode locked.                                  *)
Created(p) ==
  LET c == call[p]
  IN /\ At(p, "created")
     /\ \/ c.op = "creat" /\ OpenLocked(p)
        \/ /\ c.op # "creat"
           /\ PutThen(p, c.ip, "user", [ip |-> 0])
           /\ Unlock(c.ip)
           /\ UNCHANGED <<diskVars, mem, ref, valid, cwd, fd, lost, stale, prog>>

(* The parent is let go when create() or unlink() gives up.                *)
Undo(p) ==
  /\ At(p, "undo")
  /\ Unlock(call[p].dp)
  /\ PutThen(p, call[p].dp, "user", [dp |-> 0])
  /\ UNCHANGED <<diskVars, mem, ref, valid, cwd, fd, lost, stale, prog>>

-----------------------------------------------------------------------------
(* sys_unlink(): the directory is locked first, then what it names.        *)

(* A mutant without the test for . and .. .                                *)
UnlinkDots(p) ==
  LET c == call[p]
      i == Lookup(c.dp, c.name)
  IN /\ At(p, "unlink")
     /\ IF i = 0
        THEN /\ Unlock(c.dp)
             /\ PutThen(p, c.dp, "user", [dp |-> 0])
             /\ UNCHANGED <<ref, valid>>
        ELSE /\ Iget(i)
             /\ Goto(p, "child", [ip |-> i])
             /\ UNCHANGED lk
     /\ UNCHANGED <<diskVars, mem, cwd, fd, lost, stale, prog>>

Unlink(p) ==
  LET c == call[p]
      i == Lookup(c.dp, c.name)
  IN /\ At(p, "unlink")
     /\ IF c.name \in {".", ".."} \/ i = 0
        THEN /\ Unlock(c.dp)
             /\ PutThen(p, c.dp, "user", [dp |-> 0])
             /\ UNCHANGED <<ref, valid>>
        ELSE /\ Iget(i)
             /\ Goto(p, "child", [ip |-> i])
             /\ UNCHANGED lk
     /\ UNCHANGED <<diskVars, mem, cwd, fd, lost, stale, prog>>

Child(p) ==
  LET c == call[p]
      isdir == Inode(c.ip).type = "dir"
  IN /\ At(p, "child")
     /\ IF isdir /\ ~IsEmpty(c.ip)
        THEN /\ PutThen(p, c.ip, "undo", [ip |-> 0])
             /\ Unlock(c.ip)
             /\ UNCHANGED <<disk, mem, ent>>
        ELSE /\ ent' = [b \in Blocks |->
                          IF b \in Range(Inode(c.dp).addrs) THEN Clear(ent[b], c.name) ELSE ent[b]]
             /\ Iupdate(c.dp :> [Inode(c.dp) EXCEPT !.nlink = IF isdir THEN @ - 1 ELSE @])
             /\ PutThen(p, c.dp, "unlinked", [dp |-> 0])
             /\ Unlock(c.dp)
     /\ UNCHANGED <<bitmap, ref, valid, cwd, fd, lost, stale, prog>>

Unlinked(p) ==
  LET i == call[p].ip
  IN /\ At(p, "unlinked")
     /\ Iupdate(i :> [Inode(i) EXCEPT !.nlink = @ - 1])
     /\ PutThen(p, i, "user", [ip |-> 0])
     /\ Unlock(i)
     /\ UNCHANGED <<bitmap, ent, ref, valid, cwd, fd, lost, stale, prog>>

-----------------------------------------------------------------------------
(* sys_link(): the link is counted before the second path is walked, and   *)
(* taken back when the entry cannot be made.                               *)

Link(p) ==
  LET i == call[p].ip
  IN /\ Locks(p, "link")
     /\ \/ /\ Inode(i).type = "dir"
           /\ PutThen(p, i, "user", [ip |-> 0])
           /\ Load(i)
           /\ UNCHANGED disk
        \/ /\ Inode(i).type # "dir"
           /\ Iupdate(i :> [Inode(i) EXCEPT !.nlink = @ + 1])
           /\ valid' = [valid EXCEPT ![i] = TRUE]
           /\ Goto(p, "link_new", <<>>)
     /\ UNCHANGED <<bitmap, ent, ref, lk, cwd, fd, lost, stale, prog>>

LinkNew(p) ==
  /\ At(p, "link_new")
  /\ \E path \in NewPaths : Namex(p, path, "link")
  /\ UNCHANGED <<diskVars, mem, lk, cwd, fd, lost, stale, prog>>

(* A mutant that does not take the count back when the entry is refused.   *)
LinkDirKeepsCount(p) ==
  LET c == call[p]
      made == Dirlink(Dir(c.dp), c.name, c.ip)
  IN /\ Locks(p, "link_dir")
     /\ bitmap' = made.used
     /\ ent' = made.ent
     /\ Iupdate(c.dp :> made.node)
     /\ valid' = [valid EXCEPT ![c.dp] = TRUE]
     /\ PutThen(p, c.dp, "link_put", [dp |-> 0])
     /\ UNCHANGED <<ref, lk, cwd, fd, lost, stale, prog>>

(* dirlink() in the second directory.  Its iget() and iput() of an inode   *)
(* that has the name already cancel out under the directory's lock.        *)
LinkDir(p) ==
  LET c == call[p]
      made == Dirlink(Dir(c.dp), c.name, c.ip)
  IN /\ Locks(p, "link_dir")
     /\ bitmap' = made.used
     /\ ent' = made.ent
     /\ Iupdate(c.dp :> made.node)
     /\ valid' = [valid EXCEPT ![c.dp] = TRUE]
     /\ PutThen(p, c.dp, IF made.ok THEN "link_put" ELSE "link_bad", [dp |-> 0])
     /\ UNCHANGED <<ref, lk, cwd, fd, lost, stale, prog>>

LinkPut(p) ==
  /\ At(p, "link_put")
  /\ PutThen(p, call[p].ip, "user", [ip |-> 0])
  /\ UNCHANGED <<diskVars, itableVars, cwd, fd, lost, stale, prog>>

LinkBad(p) ==
  LET i == call[p].ip
  IN /\ Locks(p, "link_bad")
     /\ Iupdate(i :> [Inode(i) EXCEPT !.nlink = @ - 1])
     /\ valid' = [valid EXCEPT ![i] = TRUE]
     /\ PutThen(p, i, "user", [ip |-> 0])
     /\ UNCHANGED <<bitmap, ent, ref, lk, cwd, fd, lost, stale, prog>>

-----------------------------------------------------------------------------
(* sys_chdir(), the path of exec(), and reading, writing and closing the   *)
(* open file.                                                              *)

Chdir(p) ==
  LET i == call[p].ip
  IN /\ Locks(p, "chdir")
     /\ Load(i)
     /\ IF Inode(i).type # "dir"
        THEN PutThen(p, i, "user", [ip |-> 0]) /\ UNCHANGED cwd
        ELSE PutThen(p, cwd[p], "chdir_set", <<>>) /\ cwd' = [cwd EXCEPT ![p] = 0]
     /\ UNCHANGED <<diskVars, ref, lk, fd, lost, stale, prog>>

ChdirSet(p) ==
  /\ At(p, "chdir_set")
  /\ cwd' = [cwd EXCEPT ![p] = call[p].ip]
  /\ Goto(p, "user", <<>>)
  /\ UNCHANGED <<diskVars, itableVars, fd, lost, stale, prog>>

Exec(p) ==
  /\ Locks(p, "exec")
  /\ Load(call[p].ip)
  /\ PutThen(p, call[p].ip, "user", [ip |-> 0])
  /\ UNCHANGED <<diskVars, ref, lk, cwd, fd, lost, stale, prog>>

(* fileread() and filestat().                                              *)
Readi(p) ==
  /\ Locks(p, "rw")
  /\ Load(fd[p])
  /\ Goto(p, "user", <<>>)
  /\ UNCHANGED <<diskVars, ref, lk, cwd, fd, lost, stale, prog>>

(* A mutant of writei() without its last iupdate().                        *)
WriteiNoIupdate(p) ==
  LET i == fd[p]
      b == Bmap(Inode(i), Len(Inode(i).addrs) + 1, bitmap)
  IN /\ Locks(p, "rw") /\ Inode(i).type = "file" /\ b # 0
     /\ bitmap' = bitmap \cup {b}
     /\ mem' = [mem EXCEPT ![i] = [Inode(i) EXCEPT !.addrs = Append(@, b)]]
     /\ valid' = [valid EXCEPT ![i] = TRUE]
     /\ Goto(p, "user", <<>>)
     /\ UNCHANGED <<disk, ent, ref, lk, cwd, fd, lost, stale, prog>>

(* filewrite() at the end of a file's blocks: one more is found for it.    *)
(* (Within them, or on a full disk, it changes no more than readi() does.) *)
Writei(p) ==
  LET i == fd[p]
      b == Bmap(Inode(i), Len(Inode(i).addrs) + 1, bitmap)
  IN /\ Locks(p, "rw") /\ Inode(i).type = "file" /\ b # 0
     /\ bitmap' = bitmap \cup {b}
     /\ Iupdate(i :> [Inode(i) EXCEPT !.addrs = Append(@, b)])
     /\ valid' = [valid EXCEPT ![i] = TRUE]
     /\ Goto(p, "user", <<>>)
     /\ UNCHANGED <<ent, ref, lk, cwd, fd, lost, stale, prog>>

SysClose(p) ==
  /\ At(p, "user") /\ fd[p] # 0
  /\ fd' = [fd EXCEPT ![p] = 0]
  /\ PutThen(p, fd[p], "user", <<>>)
  /\ UNCHANGED <<diskVars, itableVars, cwd, lost, stale, prog>>

SysRw(p) ==
  /\ At(p, "user") /\ fd[p] # 0
  /\ Goto(p, "rw", [op |-> "rw"])
  /\ UNCHANGED <<diskVars, itableVars, cwd, fd, lost, stale, prog>>

(* Every other call begins with a path.                                    *)
SysPath(p) ==
  /\ At(p, "user")
  /\ \E c \in prog.calls[p] : Namex(p, c, c.op)
  /\ UNCHANGED <<diskVars, mem, lk, cwd, fd, lost, stale, prog>>

-----------------------------------------------------------------------------
(* The image mkfs makes, with the root directory alone; every process      *)
(* starts there.                                                           *)
Init ==
  LET free == [type |-> "free", nlink |-> 0, addrs |-> <<>>]
      root == [type |-> "dir", nlink |-> 1, addrs |-> <<1>>]
      dot(n) == [name |-> n, inum |-> ROOTINO]
  IN /\ disk = [i \in Inums |-> IF i = ROOTINO THEN root ELSE free]
     /\ mem = [i \in Inums |-> free]
     /\ bitmap = {1}
     /\ ent = [b \in Blocks |-> IF b = 1 THEN <<dot("."), dot("..")>> ELSE <<>>]
     /\ ref = [i \in Inums |-> IF i = ROOTINO THEN Cardinality(Procs) ELSE 0]
     /\ valid = [i \in Inums |-> FALSE]
     /\ lk = [i \in Inums |-> None]
     /\ cwd = [p \in Procs |-> ROOTINO]
     /\ fd = [p \in Procs |-> 0]
     /\ pc = [p \in Procs |-> <<"run", "user">>]
     /\ call = [p \in Procs |-> NoCall]
     /\ prog \in Programs
     /\ lost = [i \in Inums |-> 0]
     /\ stale = FALSE

IputStep(p) == Iput(p) \/ IputTrunc(p) \/ IputFree(p) \/ IputDeref(p)
WalkStep(p) == WalkEnds(p) \/ WalkNext(p)
CreateStep(p) == CreateExists(p) \/ Exist(p) \/ CreateIalloc(p) \/ New(p) \/ Created(p) \/ Undo(p)
UnlinkStep(p) == Unlink(p) \/ Child(p) \/ Unlinked(p)
LinkStep(p) == Link(p) \/ LinkNew(p) \/ LinkDir(p) \/ LinkPut(p) \/ LinkBad(p)
UserStep(p) == SysClose(p) \/ SysRw(p) \/ SysPath(p)

Next == \E p \in Procs :
  \/ Ilock(p) \/ IlockPanic(p) \/ IputStep(p) \/ WalkStep(p) \/ Open(p) \/ CreateStep(p) \/ UnlinkStep(p)
  \/ LinkStep(p) \/ Chdir(p) \/ ChdirSet(p) \/ Exec(p) \/ Readi(p) \/ Writei(p) \/ UserStep(p)

Spec == Init /\ [][Next]_vars

-----------------------------------------------------------------------------
(* Properties.                                                             *)

(* References to inodes: p->cwd, open files, and the locals of system      *)
(* calls.                                                                  *)
Holders(i) ==
  Cardinality({p \in Procs : cwd[p] = i}) + Cardinality({p \in Procs : fd[p] = i})
  + Cardinality({x \in Procs \X {"cur", "ip", "dp", "put"} : call[x[1]][x[2]] = i})

(* ip->ref counts the pointers to an inode exactly, and the table agrees   *)
(* with the disk.  While a process has an inode open or as its directory   *)
(* the inode is not free on disk, whoever unlinks it or creates others.    *)
(* The one way to lock a free inode, which stops the kernel in ilock(), is *)
(* .. of a removed directory.                                              *)
InodeInUse ==
  /\ \A i \in Inums : ref[i] = Holders(i)
  /\ \A i \in Inums : ref[i] > 0 /\ valid[i] /\ disk[i].type # "free" => mem[i] = disk[i]
  /\ \A p \in Procs : \A i \in {cwd[p], fd[p]} \ {0} : disk[i].type # "free"
  /\ \A i \in Inums : lk[i] # None /\ disk[i].type = "free" => stale

Subdirs(i) == {d \in Dirs : Entry(d, "..") = i /\ NamesOf(d) # {}}

(* Calls of link() and unlink() between the count and the entry.           *)
Underway(i) == {p \in Procs : call[p].ip = i /\
  \/ call[p].op = "link" /\ pc[p][2] \notin {"link", "link_put"}
  \/ call[p].op = "unlink" /\ pc[p][2] = "unlinked"}

(* The link count of every inode is the number of names it has, of the     *)
(* subdirectories in it and of the calls that are about to make or have    *)
(* just removed a name, whatever link(), unlink() and mkdir() do at the    *)
(* same time, so that sys_unlink() does not panic on a name of an inode    *)
(* without links; the only links that stay behind are those from entries   *)
(* made in a directory that had been removed.                              *)
LinkCount == stale \/
  \A i \in Inums : disk[i].nlink = Cardinality(NamesOf(i)) + Cardinality(Subdirs(i))
                     + Cardinality(Underway(i)) + lost[i] + (IF i = ROOTINO THEN 1 ELSE 0)

Waits(p, q) ==
  \/ pc[p][1] = "lock" /\ lk[Target(p, pc[p][2])] = q
  \/ pc[p][1] = "put" /\ LastUse(call[p].put) /\ lk[call[p].put] = q

(* Processes that hold a directory and wait for a file in it, or for the   *)
(* next directory of a path, never wait for each other; and iput(), which  *)
(* sleeps for the inode's lock with itable.lock held, never has to.        *)
NoLockCycle ==
  /\ \A S \in SUBSET Procs \ {{}} : \E p \in S : \A q \in S : ~Waits(p, q)
  /\ \A p \in Procs : pc[p][1] = "put" /\ LastUse(call[p].put) => lk[call[p].put] = None

(* A block is in use when one inode on disk has it, in one place, and      *)
(* never by two: nothing is lost when create() or link() runs out of       *)
(* blocks, for the new directory or for its parent's entry, and nothing is *)
(* freed twice or handed out while it is still part of a file.             *)
BlocksOwned ==
  /\ bitmap = UNION {Range(disk[i].addrs) : i \in Inums}
  /\ \A i, j \in Inums : \A k \in DOMAIN disk[i].addrs, l \in DOMAIN disk[j].addrs :
       disk[i].addrs[k] = disk[j].addrs[l] => i = j /\ k = l
  /\ \A i \in Inums : disk[i].type = "free" => disk[i].addrs = <<>>
=============================================================================
