------------------------------- MODULE Files -------------------------------
(***************************************************************************)
(* The open files of kernel/file.c, the pipes of kernel/pipe.c and the     *)
(* descriptors of kernel/sysfile.c, for processes that make pipes, share   *)
(* them by dup and fork, read, write, close, exit and are killed.          *)
(*                                                                         *)
(* Sections of ftable.lock and of pi->lock are one action each, but for    *)
(* pipewrite() and piperead(), which keep pi->lock over several: a kill()  *)
(* may come at each byte, and before each sleep().  A process has one      *)
(* thread, so its descriptors are its own.                                 *)
(* Only pipes are modelled; an inode file shares the reference counts.     *)
(* What can no longer be read (a byte that was taken, the fields of a free *)
(* file or pipe) is forgotten, where the code leaves it in memory.         *)
(***************************************************************************)
EXTENDS Integers, Sequences, FiniteSets

CONSTANTS
  Procs,       \* process slots, each used once
  First,       \* the process that is there at the start
  NFILE,       \* open files per system
  NOFILE,      \* open files per process
  Pages,       \* pages that kalloc() can return for a pipe
  Bytes,       \* the values of a byte
  PIPESIZE,    \* capacity of a pipe
  Wrap,        \* nread and nwrite count modulo Wrap (2^32 in the code)
  MaxN,        \* bound on the length of a read or write
  None         \* a null pointer

ASSUME FirstAssumption == First \in Procs /\ None \notin Pages \cup Procs \cup Bytes
ASSUME SizeAssumption ==
  /\ {NFILE, NOFILE, PIPESIZE, Wrap, MaxN} \subseteq Nat \ {0}
  /\ Wrap > PIPESIZE /\ Wrap % PIPESIZE = 0

FileIds == 0 .. NFILE - 1
Fds == 0 .. NOFILE - 1
NoFile == -1
NoBytes == [i \in 0 .. PIPESIZE - 1 |-> None]      \* an empty ring

VARIABLES
  ref, ftype, fpipe, writable,     \* struct file
  ofile,                           \* p->ofile
  page,                            \* what each page is used for
  nread, nwrite, data,             \* struct pipe
  readopen, writeopen,             \* struct pipe: sets of pages
  plock,                           \* the process that holds pi->lock over steps
  missed,                          \* history: readers that a killed writer did not wake
  killed, life,                    \* p->killed as a set; whether p exists
  pc,
  file,                            \* the file a system call is about
  count,                           \* n - i: bytes still to read or write
  fresh,                           \* pipealloc's f0 and f1
  closing,                         \* files still to be closed by fileclose
  ending                           \* the pipe end that fileclose gives to pipeclose

fileVars == <<ref, ftype, fpipe, writable>>
pipeVars == <<nread, nwrite, data, readopen, writeopen>>
callVars == <<file, count, fresh, closing, ending>>
vars == <<fileVars, ofile, page, pipeVars, plock, missed, killed, life, pc, callVars>>

Goto(p, l) == pc' = [pc EXCEPT ![p] = l]

Pipe(p) == fpipe[file[p]]

(* Where p goes when the files of s are still to be closed.                *)
After(p, s) == IF s # <<>> THEN "close" ELSE IF life[p] = "dead" THEN "exit" ELSE "user"

-----------------------------------------------------------------------------
(* System calls from user space; a killed process can only exit.           *)

Running(p) == life[p] = "alive" /\ pc[p] = "user" /\ p \notin killed

(* fdalloc(): the lowest free descriptor.                                  *)
FreeFd(fds, fd) == fds[fd] = NoFile /\ \A e \in 0 .. fd - 1 : fds[e] # NoFile

SysDup(p) ==
  /\ Running(p)
  /\ \E fd, new \in Fds :
       /\ ofile[p][fd] # NoFile
       /\ FreeFd(ofile[p], new)
       /\ ofile' = [ofile EXCEPT ![p][new] = ofile[p][fd]]
       /\ ref' = [ref EXCEPT ![ofile[p][fd]] = @ + 1]
  /\ UNCHANGED <<ftype, fpipe, writable, page, pipeVars, plock, missed, killed, life, pc, callVars>>

SysClose(p) ==
  /\ Running(p)
  /\ \E fd \in Fds :
       /\ ofile[p][fd] # NoFile
       /\ ofile' = [ofile EXCEPT ![p][fd] = NoFile]
       /\ closing' = [closing EXCEPT ![p] = <<ofile[p][fd]>>]
  /\ Goto(p, "close")
  /\ UNCHANGED <<fileVars, page, pipeVars, plock, missed, killed, life, file, count, fresh, ending>>

(* sys_read(), sys_write(): fileread() and filewrite() refuse the wrong    *)
(* end of a pipe.                                                          *)
SysReadWrite(p) ==
  /\ Running(p)
  /\ \E fd \in Fds, n \in 1 .. MaxN :
       /\ ofile[p][fd] # NoFile
       /\ file' = [file EXCEPT ![p] = ofile[p][fd]]
       /\ count' = [count EXCEPT ![p] = n]
       /\ Goto(p, IF writable[ofile[p][fd]] THEN "write" ELSE "read")
  /\ UNCHANGED <<fileVars, ofile, page, pipeVars, plock, missed, killed, life, fresh, closing, ending>>

(* fork(): the child gets a reference for each open descriptor.            *)
Fork(p) ==
  /\ Running(p)
  /\ \E q \in Procs :
       /\ life[q] = "new"
       /\ life' = [life EXCEPT ![q] = "alive"]
       /\ ofile' = [ofile EXCEPT ![q] = ofile[p]]
  /\ ref' = [f \in FileIds |-> ref[f] + Cardinality({fd \in Fds : ofile[p][fd] = f})]
  /\ UNCHANGED <<ftype, fpipe, writable, page, pipeVars, plock, missed, killed, pc, callVars>>

(* exit(), called or forced by a kill: close every descriptor.             *)
Exit(p) ==
  /\ life[p] = "alive" /\ pc[p] = "user"
  /\ life' = [life EXCEPT ![p] = "dead"]
  /\ ofile' = [ofile EXCEPT ![p] = [fd \in Fds |-> NoFile]]
  /\ closing' = [closing EXCEPT ![p] = SelectSeq([i \in 1 .. NOFILE |-> ofile[p][i - 1]],
                                                 LAMBDA f : f # NoFile)]
  /\ Goto(p, IF closing'[p] = <<>> THEN "exit" ELSE "close")
  /\ UNCHANGED <<fileVars, page, pipeVars, plock, missed, killed, file, count, fresh, ending>>

-----------------------------------------------------------------------------
(* sys_pipe() and pipealloc().                                             *)

(* filealloc() finds f.                                                    *)
FileAlloc(f) ==
  /\ ref[f] = 0 /\ \A e \in 0 .. f - 1 : ref[e] # 0
  /\ ref' = [ref EXCEPT ![f] = 1]

(* sys_pipe() gets *f0 and then *f1 from filealloc().                      *)
PipeFile(p) ==
  /\ Running(p) \/ pc[p] = "pipe_file"
  /\ \E f \in FileIds : FileAlloc(f) /\ fresh' = [fresh EXCEPT ![p] = Append(@, f)]
  /\ Goto(p, IF fresh[p] = <<>> THEN "pipe_file" ELSE "pipe_page")
  /\ UNCHANGED <<ftype, fpipe, writable, ofile, page, pipeVars, plock, missed, killed, life,
                 file, count, closing, ending>>

(* "bad": filealloc() or kalloc() returned 0.  (If that is the first       *)
(* filealloc(), nothing changes.)                                          *)
PipeBad(p) ==
  /\ \/ pc[p] = "pipe_file" /\ \A f \in FileIds : ref[f] # 0
     \/ pc[p] = "pipe_page"
  /\ closing' = [closing EXCEPT ![p] = fresh[p]]
  /\ fresh' = [fresh EXCEPT ![p] = <<>>]
  /\ Goto(p, "close")
  /\ UNCHANGED <<fileVars, ofile, page, pipeVars, plock, missed, killed, life, file, count, ending>>

(* The pipe in page g with its two files.                                  *)
MakePipe(g, rf, wf) ==
  /\ page[g] = "free"
  /\ page' = [page EXCEPT ![g] = "pipe"]
  /\ nread' = [nread EXCEPT ![g] = 0]
  /\ nwrite' = [nwrite EXCEPT ![g] = 0]
  /\ readopen' = readopen \cup {g}
  /\ writeopen' = writeopen \cup {g}
  /\ ftype' = [ftype EXCEPT ![rf] = "pipe", ![wf] = "pipe"]
  /\ fpipe' = [fpipe EXCEPT ![rf] = g, ![wf] = g]
  /\ writable' = [writable EXCEPT ![rf] = FALSE, ![wf] = TRUE]
  /\ UNCHANGED <<data, ref>>

(* pipealloc() succeeds; fdalloc() for both files.                         *)
PipeFds(p) ==
  LET rf == fresh[p][1]
      wf == fresh[p][2]
  IN
  /\ pc[p] = "pipe_page"
  /\ \E g \in Pages : MakePipe(g, rf, wf)
  /\ \E fd0, fd1 \in Fds :
       /\ FreeFd(ofile[p], fd0)
       /\ FreeFd([ofile[p] EXCEPT ![fd0] = rf], fd1)
       /\ ofile' = [ofile EXCEPT ![p][fd0] = rf, ![p][fd1] = wf]
  /\ fresh' = [fresh EXCEPT ![p] = <<>>]
  /\ Goto(p, "user")
  /\ UNCHANGED <<plock, missed, killed, life, file, count, closing, ending>>

(* Mutant: on failure only the read end is closed.                         *)
PipeNoFdsHalf(p) ==
  /\ pc[p] = "pipe_page"
  /\ \E g \in Pages : MakePipe(g, fresh[p][1], fresh[p][2])
  /\ closing' = [closing EXCEPT ![p] = <<fresh[p][1]>>]
  /\ fresh' = [fresh EXCEPT ![p] = <<>>]
  /\ Goto(p, "close")
  /\ UNCHANGED <<ofile, plock, missed, killed, life, file, count, ending>>

(* Too few descriptors, or copyout() fails: both files are closed.         *)
PipeNoFds(p) ==
  /\ pc[p] = "pipe_page"
  /\ \E g \in Pages : MakePipe(g, fresh[p][1], fresh[p][2])
  /\ closing' = [closing EXCEPT ![p] = fresh[p]]
  /\ fresh' = [fresh EXCEPT ![p] = <<>>]
  /\ Goto(p, "close")
  /\ UNCHANGED <<ofile, plock, missed, killed, life, file, count, ending>>

-----------------------------------------------------------------------------
(* fileclose() and pipeclose().                                            *)

(* Mutant: the first fileclose() closes the end, whatever f->ref is.       *)
FileCloseShared(p) ==
  LET f == Head(closing[p]) IN
  /\ pc[p] = "close" /\ closing[p] # <<>>
  /\ ref' = [ref EXCEPT ![f] = @ - 1]
  /\ closing' = [closing EXCEPT ![p] = Tail(@)]
  /\ \/ ftype[f] = "none" /\ UNCHANGED <<ftype, ending>> /\ Goto(p, After(p, Tail(closing[p])))
     \/ /\ ftype[f] = "pipe" /\ UNCHANGED ftype
        /\ ending' = [ending EXCEPT ![p] = [pipe |-> fpipe[f], write |-> writable[f]]]
        /\ Goto(p, "pipeclose")
  /\ UNCHANGED <<fpipe, writable, ofile, page, pipeVars, plock, missed, killed, life, file, count, fresh>>

(* fileclose(f); the last reference closes the pipe's end.                 *)
FileClose(p) ==
  LET f == Head(closing[p]) IN
  /\ pc[p] = "close" /\ closing[p] # <<>>
  /\ ref' = [ref EXCEPT ![f] = @ - 1]
  /\ closing' = [closing EXCEPT ![p] = Tail(@)]
  /\ \/ /\ ref[f] > 1 \/ ftype[f] = "none"
        /\ Goto(p, After(p, Tail(closing[p])))
        /\ UNCHANGED <<ftype, fpipe, writable, ending>>
     \/ /\ ref[f] = 1 /\ ftype[f] = "pipe"
        /\ ftype' = [ftype EXCEPT ![f] = "none"]
        /\ fpipe' = [fpipe EXCEPT ![f] = None]
        /\ writable' = [writable EXCEPT ![f] = FALSE]
        /\ ending' = [ending EXCEPT ![p] = [pipe |-> fpipe[f], write |-> writable[f]]]
        /\ Goto(p, "pipeclose")
  /\ UNCHANGED <<ofile, page, pipeVars, plock, missed, killed, life, file, count, fresh>>

(* wakeup() of those that sleep at l on pipe g; p goes on at m.            *)
WakeAt(p, m, g, l) ==
  LET woken == {q \in Procs : pc[q] = l /\ Pipe(q) = g}
  IN /\ pc' = [q \in Procs |-> IF q = p THEN m
                               ELSE IF q \notin woken THEN pc[q]
                               ELSE IF l = "read_sleep" THEN "read" ELSE "write"]
     /\ missed' = missed \ woken

(* pi->readopen == 0 && pi->writeopen == 0.                                *)
Unused(g, r, w) == g \notin r /\ g \notin w

PipeClose(p) ==
  LET g == ending[p].pipe
      w == ending[p].write
  IN
  /\ pc[p] = "pipeclose" /\ plock[g] = None
  /\ writeopen' = IF w THEN writeopen \ {g} ELSE writeopen
  /\ readopen' = IF w THEN readopen ELSE readopen \ {g}
  /\ WakeAt(p, After(p, closing[p]), g, IF w THEN "read_sleep" ELSE "write_sleep")
  /\ IF ~Unused(g, readopen', writeopen')
       THEN UNCHANGED <<page, nread, nwrite, data>>
       ELSE /\ page' = [page EXCEPT ![g] = "free"]
            /\ nread' = [nread EXCEPT ![g] = 0]
            /\ nwrite' = [nwrite EXCEPT ![g] = 0]
            /\ data' = [data EXCEPT ![g] = NoBytes]
  /\ ending' = [ending EXCEPT ![p] = None]
  /\ UNCHANGED <<fileVars, ofile, plock, killed, life, file, count, fresh, closing>>

-----------------------------------------------------------------------------
(* piperead().                                                             *)

Unread(g) == (nwrite[g] + Wrap - nread[g]) % Wrap

Leave(p) ==
  /\ file' = [file EXCEPT ![p] = NoFile]
  /\ count' = [count EXCEPT ![p] = 0]

(* Empty, and a writer may come: go to sleep, or give up if killed.        *)
ReadEmpty(p) ==
  LET g == Pipe(p) IN
  /\ pc[p] = "read" /\ plock[g] = None
  /\ Unread(g) = 0 /\ g \in writeopen
  /\ \/ p \in killed /\ Goto(p, "user") /\ Leave(p) /\ UNCHANGED plock
     \/ /\ p \notin killed /\ Goto(p, "read_to_sleep")
        /\ plock' = [plock EXCEPT ![g] = p]
        /\ UNCHANGED <<file, count>>
  /\ UNCHANGED <<fileVars, ofile, page, pipeVars, missed, killed, life, fresh, closing, ending>>

(* sleep(), in piperead() or pipewrite(), with pi->lock held since the     *)
(* test of killed(); it lets go of the lock.                               *)
PipeSleep(p) ==
  /\ pc[p] \in {"read_to_sleep", "write_to_sleep"}
  /\ Goto(p, IF pc[p] = "read_to_sleep" THEN "read_sleep" ELSE "write_sleep")
  /\ plock' = [plock EXCEPT ![Pipe(p)] = None]
  /\ UNCHANGED <<fileVars, ofile, page, pipeVars, missed, killed, life, callVars>>

(* The loop of piperead() takes k bytes: all it wants or all there are, or *)
(* fewer when copyout() fails, after the byte it failed on was taken.      *)
ReadBytes(p) ==
  LET g == Pipe(p)
      most == IF Unread(g) < count[p] THEN Unread(g) ELSE count[p]
  IN
  /\ pc[p] = "read" /\ plock[g] = None
  /\ Unread(g) # 0 \/ g \notin writeopen
  /\ \E k \in 0 .. most :
       /\ k = 0 => most = 0
       /\ nread' = [nread EXCEPT ![g] = (@ + k) % Wrap]
       /\ data' = [data EXCEPT ![g] = [i \in 0 .. PIPESIZE - 1 |->
                     IF \E j \in 0 .. k - 1 : i = (nread[g] + j) % PIPESIZE THEN None ELSE @[i]]]
  /\ WakeAt(p, "user", g, "write_sleep")
  /\ Leave(p)
  /\ UNCHANGED <<fileVars, ofile, page, nwrite, readopen, writeopen, plock, killed,
                 life, fresh, closing, ending>>

-----------------------------------------------------------------------------
(* pipewrite().                                                            *)

WriteLock(p) ==
  /\ pc[p] = "write" /\ plock[Pipe(p)] = None
  /\ plock' = [plock EXCEPT ![Pipe(p)] = p]
  /\ Goto(p, "write_loop")
  /\ UNCHANGED <<fileVars, ofile, page, pipeVars, missed, killed, life, callVars>>

InLoop(p) == pc[p] = "write_loop" /\ count[p] > 0

(* No reader, or killed: return -1, without wakeup(&pi->nread).            *)
WriteFail(p) ==
  LET g == Pipe(p) IN
  /\ InLoop(p)
  /\ g \notin readopen \/ p \in killed
  /\ missed' = missed \cup {q \in Procs : /\ p \in killed /\ Unread(g) # 0
                                         /\ pc[q] = "read_sleep" /\ Pipe(q) = g}
  /\ plock' = [plock EXCEPT ![g] = None]
  /\ Goto(p, "user")
  /\ Leave(p)
  /\ UNCHANGED <<fileVars, ofile, page, pipeVars, killed, life, fresh, closing, ending>>

(* nwrite == nread + PIPESIZE.                                             *)
FullPipe(g) == Unread(g) = PIPESIZE

(* Mutant: a writer that finds the pipe full does not wake the readers.    *)
WriteFullQuiet(p) ==
  LET g == Pipe(p) IN
  /\ InLoop(p) /\ g \in readopen /\ p \notin killed
  /\ FullPipe(g)
  /\ Goto(p, "write_to_sleep")
  /\ UNCHANGED <<fileVars, ofile, page, pipeVars, plock, missed, killed, life, callVars>>

WriteFull(p) ==
  LET g == Pipe(p) IN
  /\ InLoop(p) /\ g \in readopen /\ p \notin killed
  /\ FullPipe(g)
  /\ WakeAt(p, "write_to_sleep", g, "read_sleep")
  /\ UNCHANGED <<fileVars, ofile, page, pipeVars, plock, killed, life, callVars>>

(* Mutant: nwrite is advanced before the byte is stored.                   *)
SlotAfter(g) == (nwrite[g] + 1) % PIPESIZE

Slot(g) == nwrite[g] % PIPESIZE

WriteByte(p) ==
  LET g == Pipe(p) IN
  /\ InLoop(p) /\ g \in readopen /\ p \notin killed
  /\ ~FullPipe(g)
  /\ \E v \in Bytes : data' = [data EXCEPT ![g][Slot(g)] = v]
  /\ nwrite' = [nwrite EXCEPT ![g] = (@ + 1) % Wrap]
  /\ count' = [count EXCEPT ![p] = @ - 1]
  /\ UNCHANGED <<fileVars, ofile, page, nread, readopen, writeopen, plock, missed, killed, life, pc,
                 file, fresh, closing, ending>>

(* All bytes are written, or copyin() fails: wake the readers and return.  *)
WriteDone(p) ==
  LET g == Pipe(p) IN
  /\ pc[p] = "write_loop"
  /\ count[p] > 0 => g \in readopen /\ p \notin killed /\ ~FullPipe(g)
  /\ plock' = [plock EXCEPT ![g] = None]
  /\ WakeAt(p, "user", g, "read_sleep")
  /\ Leave(p)
  /\ UNCHANGED <<fileVars, ofile, page, pipeVars, killed, life, fresh, closing, ending>>

-----------------------------------------------------------------------------
(* kill(): a sleeper is made RUNNABLE and looks at its condition again.    *)
Kill(p) ==
  /\ life[p] = "alive" /\ p \notin killed
  /\ killed' = killed \cup {p}
  /\ Goto(p, CASE pc[p] = "read_sleep" -> "read"
               [] pc[p] = "write_sleep" -> "write"
               [] OTHER -> pc[p])
  /\ missed' = missed \ {p}
  /\ UNCHANGED <<fileVars, ofile, page, pipeVars, plock, life, callVars>>

(* fileinit(), and one process without open files.                         *)
Init ==
  /\ ref = [f \in FileIds |-> 0]
  /\ ftype = [f \in FileIds |-> "none"]
  /\ fpipe = [f \in FileIds |-> None]
  /\ writable = [f \in FileIds |-> FALSE]
  /\ ofile = [p \in Procs |-> [fd \in Fds |-> NoFile]]
  /\ page = [g \in Pages |-> "free"]
  /\ nread = [g \in Pages |-> 0] /\ nwrite = [g \in Pages |-> 0]
  /\ data = [g \in Pages |-> NoBytes]
  /\ readopen = {} /\ writeopen = {}
  /\ plock = [g \in Pages |-> None]
  /\ missed = {} /\ killed = {}
  /\ life = [p \in Procs |-> IF p = First THEN "alive" ELSE "new"]
  /\ pc = [p \in Procs |-> "user"]
  /\ file = [p \in Procs |-> NoFile]
  /\ count = [p \in Procs |-> 0]
  /\ fresh = [p \in Procs |-> <<>>]
  /\ closing = [p \in Procs |-> <<>>]
  /\ ending = [p \in Procs |-> None]

UserStep(p) == SysDup(p) \/ SysClose(p) \/ SysReadWrite(p) \/ Fork(p) \/ Exit(p)

PipeStep(p) == PipeFile(p) \/ PipeBad(p) \/ PipeFds(p) \/ PipeNoFds(p)

CloseStep(p) == FileClose(p) \/ PipeClose(p)

ReadStep(p) == ReadEmpty(p) \/ PipeSleep(p) \/ ReadBytes(p)

WriteStep(p) == WriteLock(p) \/ WriteFail(p) \/ WriteFull(p) \/ WriteByte(p) \/ WriteDone(p)

Next == \E p \in Procs : UserStep(p) \/ PipeStep(p) \/ CloseStep(p) \/ ReadStep(p)
                           \/ WriteStep(p) \/ Kill(p)

Spec == Init /\ [][Next]_vars

-----------------------------------------------------------------------------
(* Properties.                                                             *)

(* f->ref counts the descriptors of all processes and the references that  *)
(* pipealloc() and fileclose() have in hand: no failure path of sys_pipe() *)
(* and no order of fork, dup, close and exit loses or doubles one.         *)
RefExact ==
  \A f \in FileIds :
    ref[f] = Cardinality({x \in Procs \X Fds : ofile[x[1]][x[2]] = f})
               + Cardinality({p \in Procs : f \in {fresh[p][i] : i \in 1 .. Len(fresh[p])}})
               + Cardinality({x \in Procs \X (1 .. NOFILE) :
                                x[2] <= Len(closing[x[1]]) /\ closing[x[1]][x[2]] = f})

(* The files and fileclose()s that have end w of pipe g.                   *)
HasEnd(g, w) ==
  \/ \E f \in FileIds : ref[f] > 0 /\ ftype[f] = "pipe" /\ fpipe[f] = g /\ writable[f] = w
  \/ \E p \in Procs : ending[p] = [pipe |-> g, write |-> w]

(* A pipe lives exactly as long as its ends.  pi->readopen and             *)
(* pi->writeopen say which ends still have a file, and the page is a pipe  *)
(* as long as one of them is open: it is freed once and does not leak; and *)
(* a process that reads, writes or sleeps in a pipe keeps its file, its    *)
(* end and the page, whatever the others close.                            *)
PipeLives ==
  /\ \A g \in Pages :
       /\ g \in readopen <=> HasEnd(g, FALSE)
       /\ g \in writeopen <=> HasEnd(g, TRUE)
       /\ page[g] = "pipe" <=> g \in readopen \cup writeopen
  /\ \A p \in Procs : file[p] # NoFile =>
       /\ ref[file[p]] > 0 /\ ftype[file[p]] = "pipe" /\ page[Pipe(p)] = "pipe"
       /\ Pipe(p) \in IF writable[file[p]] THEN writeopen ELSE readopen

(* No lost wakeup in a pipe.  A reader sleeps only while the pipe is empty *)
(* and has a writer, or a writer in its loop is about to wake it; and a    *)
(* writer only while the pipe is full and has a reader.  The exception is  *)
(* a reader that was asleep when a writer, killed half way, left without   *)
(* wakeup(&pi->nread): the bytes are there and it sleeps on.               *)
PipeWakeup ==
  \A p \in Procs :
    LET g == Pipe(p) IN
    /\ pc[p] = "read_sleep" =>
         \/ Unread(g) = 0 /\ g \in writeopen
         \/ plock[g] # None /\ pc[plock[g]] = "write_loop"
         \/ p \in missed
    /\ pc[p] = "write_sleep" => FullPipe(g) /\ g \in readopen

(* The bytes in pipe g, oldest first.                                      *)
Contents(g) == [i \in 1 .. Unread(g) |-> data[g][(nread[g] + i - 1) % PIPESIZE]]

(* A pipe is a queue: a step appends one byte at the end or takes bytes    *)
(* from the front, and leaves the others in their order.                   *)
PipeFifo ==
  [][\A g \in Pages : page[g] = "pipe" /\ page'[g] = "pipe" =>
       \/ \E k \in 0 .. Unread(g) : Contents(g)' = SubSeq(Contents(g), k + 1, Unread(g))
       \/ \E v \in Bytes : Contents(g)' = Append(Contents(g), v)]_vars

=============================================================================
