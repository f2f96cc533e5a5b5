------------------------------- MODULE Memory -------------------------------
(***************************************************************************)
(* Physical pages and address spaces: the allocator of kernel/kalloc.c,    *)
(* the page tables of kernel/vm.c, and the calls that build, grow, copy    *)
(* and free them: sbrk, fork, exec, exit and wait.                         *)
(*                                                                         *)
(* Every kalloc() is a step of its own, so that processes compete for the  *)
(* last pages and each of them can fail at each allocation.  kfree() never *)
(* fails and only helps the others, so a run of frees is part of the step  *)
(* that decides on it.  Pages are interchangeable and are counted: a leak  *)
(* or a double free shows as a wrong sum.  A page table is the set of its  *)
(* directory pages and the permissions of the pages it maps; addresses     *)
(* are numbered by page, sizes are in units of memory.                     *)
(***************************************************************************)
EXTENDS Integers, FiniteSets, FiniteSetsExt, Functions, TLC

CONSTANTS
  NPROC,       \* process slots 1 .. NPROC; the first one is init
  NPAGE,       \* physical pages
  Fan,         \* PTEs in a page-table page (512 in the code)
  PGSIZE,      \* units of memory in a page
  Incs, Decs,  \* sbrk(n) for n in Incs, sbrk(-n) for n in Decs
  Word,        \* addresses are modulo Word
  MaxSz,       \* bound on the size sbrk asks for
  SegEnds,     \* possible ends of a program segment
  MaxSegs,     \* bound on the segments of a program
  MaxArgs,     \* bound on the arguments of exec
  Held         \* how many pages pipes may hold all the while

ASSUME MemAssumption ==
  /\ {NPROC, NPAGE, PGSIZE, Word, MaxSz, MaxSegs} \subseteq Nat \ {0}
  /\ Fan \in Nat \ {0, 1} /\ MaxArgs \in Nat /\ Held \subseteq 0 .. NPAGE - 7
  /\ Incs \cup Decs \subseteq Nat \ {0} /\ SegEnds \subseteq 1 .. MaxSz
  /\ MaxSz + 2 * PGSIZE < (Fan * Fan * Fan - 2) * PGSIZE

Slots == 1 .. NPROC
TRAMPOLINE == Fan * Fan * Fan - 1
TRAPFRAME == TRAMPOLINE - 1
High == {TRAMPOLINE, TRAPFRAME}

(* The page tables: the one of each process, and the one its exec builds.  *)
Image(p) == <<p, "image">>
Fresh(p) == <<p, "fresh">>
TableIds == {Image(p) : p \in Slots} \cup {Fresh(p) : p \in Slots}

VARIABLES
  nfree,       \* the length of kmem.freelist
  dirs,        \* the page-table pages of each table: <<level, number>>
  pte,         \* the permissions of each page that it maps
  state, sz,   \* struct proc
  scall,       \* the system call of each process
  held         \* the pages of pipes: pipealloc() takes them from the same list

memVars == <<nfree, dirs, pte, state, sz, scall, held>>

(* A call: where it is, what it allocates for, and its locals.  In user    *)
(* space there are none.                                                   *)
User == [at |-> "user", for |-> "none", t |-> <<>>, a |-> 0, lo |-> 0, end |-> 0,
         mem |-> 0, perm |-> {}, sz |-> 0, segs |-> 0, argv |-> 0]

-----------------------------------------------------------------------------
(* kalloc.c and vm.c                                                       *)

Kalloc == nfree > 0 /\ nfree' = nfree - 1
Kfree(n) == nfree' = nfree + n

PGROUNDUP(n) == (n + PGSIZE - 1) \div PGSIZE      \* as a number of pages
Below(size) == 0 .. PGROUNDUP(size) - 1           \* the user pages below size

(* The directory pages that walk() goes through, the root first.           *)
Path(va) == <<<<3, 0>>, <<2, va \div (Fan * Fan)>>, <<1, va \div Fan>>>>
Missing(t, va) == {i \in 1 .. 3 : Path(va)[i] \notin dirs[t]}

Unmap(t, vas) == [pte EXCEPT ![t] = Restrict(@, DOMAIN @ \ vas)]

(* What proc_freepagetable() gives back: uvmunmap() of the pages below     *)
(* size, and freewalk().                                                   *)
TableSize(t, size) == PGROUNDUP(size) + Cardinality(dirs[t])

NoMap == [va \in {} |-> {}]
Drop(t) == dirs' = [dirs EXCEPT ![t] = {}] /\ pte' = [pte EXCEPT ![t] = NoMap]

-----------------------------------------------------------------------------
(* The call of p goes on with the locals in new changed, or returns.       *)

Having(c, new) == [f \in DOMAIN c |-> IF f \in DOMAIN new THEN new[f] ELSE c[f]]
Proceed(p, new) == scall' = [scall EXCEPT ![p] = Having(@, new)]
Return(p) == scall' = [scall EXCEPT ![p] = User]

Doing(p, l) == scall[p].at = l
Running(p) == state[p] = "running" /\ Doing(p, "user")

-----------------------------------------------------------------------------
(* What is undone when memory runs out; n pages have to be freed besides.  *)

(* exec's "bad", then sys_exec's.                                          *)
ExecBad(p, n) ==
  /\ Kfree(n + TableSize(Fresh(p), scall[p].sz) + scall[p].argv)
  /\ Drop(Fresh(p))
  /\ Return(p)
  /\ UNCHANGED <<state, sz>>

(* freeproc(): the trapframe, and the page table if there is one.          *)
Freeproc(q, n) ==
  /\ Kfree(n + 1 + TableSize(Image(q), sz[q]))
  /\ Drop(Image(q))
  /\ state' = [state EXCEPT ![q] = "unused"]
  /\ sz' = [sz EXCEPT ![q] = 0]

(* Mutant: the page that could not be mapped is not freed.                 *)
UndoneButOne(c) == c.a - c.lo

(* uvmalloc() and uvmcopy() free the pages they have added, and the one    *)
(* they could not map; then their callers give up.                         *)
Undone(c) == c.a - c.lo + c.mem

NoMemory(p) ==
  LET c == scall[p]
      n == Undone(c)
  IN /\ nfree = 0
     /\ CASE c.for = "sbrk" -> /\ Kfree(n)
                               /\ pte' = Unmap(c.t, c.lo .. c.a - 1)
                               /\ Return(p)
                               /\ UNCHANGED <<dirs, state, sz>>
          [] c.for \in {"seg", "stack"} -> ExecBad(p, n)
          [] c.for = "copy" -> Freeproc(c.t[1], n) /\ Return(p)
          [] OTHER -> IF c.t = Fresh(p) THEN ExecBad(p, 0) ELSE Freeproc(c.t[1], 0) /\ Return(p)

-----------------------------------------------------------------------------
(* Adding pages to a table.                                                *)

(* walk() adds a missing directory page.  For proc_pagetable() the first   *)
(* one is uvmcreate()'s root.                                              *)
WalkAlloc(p) ==
  LET c == scall[p]
      m == Missing(c.t, c.a)
  IN /\ Doing(p, "map") /\ m # {}
     /\ \/ /\ Kalloc
           /\ dirs' = [dirs EXCEPT ![c.t] = @ \cup {Path(c.a)[CHOOSE i \in m : \A j \in m : i <= j]}]
           /\ UNCHANGED <<pte, state, sz, scall>>
        \/ NoMemory(p)

(* mappages() sets the PTE.                                                *)
SetPte(p) ==
  LET c == scall[p]
  IN /\ Doing(p, "map") /\ c.for # "high" /\ Missing(c.t, c.a) = {}
     /\ pte' = [pte EXCEPT ![c.t] = (c.a :> c.perm) @@ @]
     /\ Proceed(p, [at |-> "alloc", a |-> c.a + 1, mem |-> 0])
     /\ UNCHANGED <<nfree, dirs, state, sz>>

(* proc_pagetable() maps the trampoline and the trapframe, which are in    *)
(* the same directory page, and returns to exec() or to fork().            *)
MapHigh(p) ==
  LET c == scall[p]
  IN /\ Doing(p, "map") /\ c.for = "high" /\ Missing(c.t, c.a) = {}
     /\ pte' = [pte EXCEPT ![c.t] = (TRAMPOLINE :> {"R", "X"}) @@ (TRAPFRAME :> {"R", "W"}) @@ @]
     /\ Proceed(p, IF c.t = Fresh(p) THEN [at |-> "phdr", for |-> "none", a |-> 0]
                ELSE [at |-> "alloc", for |-> "copy", a |-> 0])
     /\ UNCHANGED <<nfree, dirs, state, sz>>

(* The next page of uvmalloc(), or of uvmcopy(), which copies the          *)
(* permissions too.                                                        *)
AllocPage(p) ==
  LET c == scall[p]
  IN /\ Doing(p, "alloc") /\ c.a * PGSIZE < c.end
     /\ \/ /\ Kalloc
           /\ Proceed(p, [at |-> "map", mem |-> 1,
                       perm |-> IF c.for = "copy" THEN pte[Image(p)][c.a] ELSE c.perm])
           /\ UNCHANGED <<dirs, pte, state, sz>>
        \/ NoMemory(p)

AllocDone(p, what) ==
  Doing(p, "alloc") /\ scall[p].for = what /\ scall[p].a * PGSIZE >= scall[p].end

(* uvmalloc() of the pages from size to end in table t.                    *)
Uvmalloc(what, t, size, end, perm) ==
  [at |-> "alloc", for |-> what, t |-> t, lo |-> PGROUNDUP(size), a |-> PGROUNDUP(size),
   end |-> end, perm |-> perm]

(* proc_pagetable() in table t.                                            *)
ProcPagetable(t) == [at |-> "map", for |-> "high", t |-> t, a |-> TRAMPOLINE]

-----------------------------------------------------------------------------
(* sbrk: growproc().                                                       *)

(* Mutant: the new size is rounded down.                                   *)
ShrinkDown(p, n) ==
  LET new == (sz[p] - n) % Word
  IN /\ Running(p) /\ new < sz[p]
     /\ Kfree(PGROUNDUP(sz[p]) - new \div PGSIZE)
     /\ pte' = Unmap(Image(p), new \div PGSIZE .. PGROUNDUP(sz[p]) - 1)
     /\ sz' = [sz EXCEPT ![p] = new]
     /\ UNCHANGED <<dirs, state, scall>>

(* uvmdealloc() returns the old size when the new one is not below it; a   *)
(* negative sum has wrapped around and is a large number.                  *)
Shrink(p, n) ==
  LET new == (sz[p] - n) % Word
  IN /\ Running(p) /\ new < sz[p]
     /\ Kfree(PGROUNDUP(sz[p]) - PGROUNDUP(new))
     /\ pte' = Unmap(Image(p), PGROUNDUP(new) .. PGROUNDUP(sz[p]) - 1)
     /\ sz' = [sz EXCEPT ![p] = new]
     /\ UNCHANGED <<dirs, state, scall>>

Grow(p, n) ==
  /\ Running(p) /\ sz[p] + n <= MaxSz
  /\ Proceed(p, Uvmalloc("sbrk", Image(p), sz[p], sz[p] + n, {"R", "W", "U"}))
  /\ UNCHANGED <<nfree, dirs, pte, state, sz>>

GrowDone(p) ==
  /\ AllocDone(p, "sbrk")
  /\ sz' = [sz EXCEPT ![p] = scall[p].end]
  /\ Return(p)
  /\ UNCHANGED <<nfree, dirs, pte, state>>

-----------------------------------------------------------------------------
(* fork, exit and wait.                                                    *)

(* allocproc() with a slot and a trapframe.  (Without one of them fork()   *)
(* returns and nothing has changed.)                                       *)
Fork(p) ==
  /\ Running(p)
  /\ \E np \in Slots :
       /\ state[np] = "unused" /\ \A q \in 1 .. np - 1 : state[q] # "unused"
       /\ state' = [state EXCEPT ![np] = "used"]
       /\ Proceed(p, ProcPagetable(Image(np)) @@ [end |-> sz[p]])
  /\ Kalloc
  /\ UNCHANGED <<dirs, pte, sz>>

ForkDone(p) ==
  LET np == scall[p].t[1]
  IN /\ AllocDone(p, "copy")
     /\ sz' = [sz EXCEPT ![np] = sz[p]]
     /\ state' = [state EXCEPT ![np] = "running"]
     /\ Return(p)
     /\ UNCHANGED <<nfree, dirs, pte>>

(* exit(); init never does.                                                *)
Exit(p) ==
  /\ Running(p) /\ p # 1
  /\ state' = [state EXCEPT ![p] = "zombie"]
  /\ UNCHANGED <<nfree, dirs, pte, sz, scall>>

(* wait(), called by p: whether p is q's parent makes no difference here.  *)
Wait(p, q) ==
  /\ Running(p) /\ state[q] = "zombie"
  /\ Freeproc(q, 0)
  /\ UNCHANGED scall

-----------------------------------------------------------------------------
(* exec.                                                                   *)

(* sys_exec() copies the arguments, a page for each.                       *)
SysExec(p) ==
  /\ Running(p)
  /\ Proceed(p, [at |-> "argv"])
  /\ UNCHANGED <<nfree, dirs, pte, state, sz>>

FetchArg(p) ==
  /\ Doing(p, "argv") /\ scall[p].argv < MaxArgs
  /\ Kalloc
  /\ Proceed(p, [argv |-> scall[p].argv + 1])
  /\ UNCHANGED <<dirs, pte, state, sz>>

(* A page or a string cannot be had, there is no such file, a header is    *)
(* bad, loadseg() fails, or the arguments do not fit on the stack.         *)
ExecFails(p) == scall[p].at \in {"argv", "phdr", "args"} /\ ExecBad(p, 0)

(* exec() finds the file, and its ELF header is good.                      *)
ExecHeader(p) ==
  /\ Doing(p, "argv")
  /\ Proceed(p, ProcPagetable(Fresh(p)))
  /\ UNCHANGED <<nfree, dirs, pte, state, sz>>

(* A segment to load: uvmalloc() does nothing when it ends below sz.       *)
ExecSegment(p) ==
  /\ Doing(p, "phdr") /\ scall[p].segs < MaxSegs
  /\ \E end \in SegEnds :
       Proceed(p, Uvmalloc("seg", Fresh(p), scall[p].sz,
                        IF end < scall[p].sz THEN scall[p].sz ELSE end, {"R", "X", "U"}))
  /\ UNCHANGED <<nfree, dirs, pte, state, sz>>

AtRest == [for |-> "none", a |-> 0, lo |-> 0, end |-> 0, perm |-> {}]

(* uvmalloc() is done, and loadseg() reads the segment.                    *)
SegmentDone(p) ==
  /\ AllocDone(p, "seg")
  /\ Proceed(p, AtRest @@ [at |-> "phdr", sz |-> scall[p].end, segs |-> scall[p].segs + 1])
  /\ UNCHANGED <<nfree, dirs, pte, state, sz>>

(* No more headers: two pages for the stack.                               *)
ExecStack(p) ==
  LET size == PGROUNDUP(scall[p].sz) * PGSIZE
  IN /\ Doing(p, "phdr")
     /\ Proceed(p, Uvmalloc("stack", Fresh(p), size, size + 2 * PGSIZE, {"R", "W", "U"})
                @@ [sz |-> size])
     /\ UNCHANGED <<nfree, dirs, pte, state, sz>>

(* Mutant: uvmclear() of the current page table.                           *)
StackDoneOld(p) ==
  /\ AllocDone(p, "stack")
  /\ pte' = [pte EXCEPT ![Image(p)][PGROUNDUP(scall[p].end) - 2] = @ \ {"U"}]
  /\ Proceed(p, AtRest @@ [at |-> "args", sz |-> scall[p].end])
  /\ UNCHANGED <<nfree, dirs, state, sz>>

(* uvmclear() makes the lower one a guard.                                 *)
StackDone(p) ==
  /\ AllocDone(p, "stack")
  /\ pte' = [pte EXCEPT ![Fresh(p)][PGROUNDUP(scall[p].end) - 2] = @ \ {"U"}]
  /\ Proceed(p, AtRest @@ [at |-> "args", sz |-> scall[p].end])
  /\ UNCHANGED <<nfree, dirs, state, sz>>

(* The arguments fit: commit to the new image and free the old one.        *)
ExecCommit(p) ==
  /\ Doing(p, "args")
  /\ Kfree(TableSize(Image(p), sz[p]) + scall[p].argv)
  /\ dirs' = [dirs EXCEPT ![Image(p)] = dirs[Fresh(p)], ![Fresh(p)] = {}]
  /\ pte' = [pte EXCEPT ![Image(p)] = pte[Fresh(p)], ![Fresh(p)] = NoMap]
  /\ sz' = [sz EXCEPT ![p] = scall[p].sz]
  /\ Return(p)
  /\ UNCHANGED state

-----------------------------------------------------------------------------
(* userinit(): the first process has one page, its trapframe, and the      *)
(* directory pages for both ends of its address space.                     *)
MemInit ==
  /\ dirs = [t \in TableIds |-> IF t = Image(1) THEN Range(Path(0)) \cup Range(Path(TRAMPOLINE))
                                ELSE {}]
  /\ pte = [t \in TableIds |-> IF t # Image(1) THEN NoMap
                               ELSE (0 :> {"R", "W", "X", "U"}) @@ (TRAMPOLINE :> {"R", "X"})
                                      @@ (TRAPFRAME :> {"R", "W"})]
  /\ held \in Held
  /\ nfree = NPAGE - 7 - held
  /\ state = [p \in Slots |-> IF p = 1 THEN "running" ELSE "unused"]
  /\ sz = [p \in Slots |-> IF p = 1 THEN PGSIZE ELSE 0]
  /\ scall = [p \in Slots |-> User]

MemStep(p) ==
  \/ (\E n \in Decs : Shrink(p, n)) \/ (\E n \in Incs : Grow(p, n)) \/ GrowDone(p)
  \/ WalkAlloc(p) \/ SetPte(p) \/ MapHigh(p) \/ AllocPage(p)
  \/ Fork(p) \/ ForkDone(p) \/ Exit(p) \/ (\E q \in Slots : Wait(p, q))
  \/ SysExec(p) \/ FetchArg(p) \/ ExecHeader(p) \/ ExecSegment(p) \/ SegmentDone(p)
  \/ ExecStack(p) \/ StackDone(p) \/ ExecCommit(p) \/ ExecFails(p)

MemNext == (\E p \in Slots : MemStep(p)) /\ UNCHANGED held

MemSpec == MemInit /\ [][MemNext]_memVars

-----------------------------------------------------------------------------
(* Properties.                                                             *)

(* Every physical page is free or has one owner: a trapframe, a page       *)
(* table, one user page of one table, or a call under way.  Nothing is     *)
(* leaked or freed twice, whichever allocation of fork(), exec() or sbrk() *)
(* fails and whoever else takes the pages meanwhile.                       *)
PagesOwned ==
  NPAGE = nfree + held + Cardinality({p \in Slots : state[p] # "unused"})
            + MapThenSumSet(LAMBDA t : Cardinality(dirs[t]) + Cardinality(DOMAIN pte[t] \ High),
                            TableIds)
            + MapThenSumSet(LAMBDA p : scall[p].mem + scall[p].argv, Slots)

(* A page table maps exactly the pages that its owner's size says and      *)
(* those a call has added so far, and has the directory pages for them.    *)
(* So uvmunmap() finds every page that it is to free and uvmcopy() every   *)
(* page it is to copy, mappages() finds no PTE in use and freewalk() no    *)
(* leaf: none of the panics of vm.c is reached.                            *)
Added(p, t) ==
  IF scall[p].t = t /\ scall[p].for \in {"sbrk", "seg", "stack", "copy"}
  THEN scall[p].lo .. scall[p].a - 1 ELSE {}

TableExact ==
  /\ \A t \in TableIds : \A va \in DOMAIN pte[t] : Missing(t, va) = {}
  /\ \A p \in Slots :
       /\ DOMAIN pte[Image(p)] = Below(sz[p]) \cup UNION {Added(q, Image(p)) : q \in Slots}
            \cup IF state[p] \in {"running", "zombie"}
                    \/ \E q \in Slots : scall[q].t = Image(p) /\ scall[q].for = "copy"
                 THEN High ELSE {}
       /\ DOMAIN pte[Fresh(p)] = Below(scall[p].sz) \cup Added(p, Fresh(p))
            \cup IF scall[p].t = Fresh(p) /\ scall[p].for # "high" THEN High ELSE {}

(* The memory of p as its program sees it.                                 *)
Memory(p) == Restrict(pte[Image(p)], Below(sz[p]))

(* A process' memory is its own.  It changes in four steps only: its own   *)
(* sbrk() cuts it off or adds to it and leaves the rest, its own exec()    *)
(* commits a new image, in which the page below the stack and no other is  *)
(* out of the program's reach; it begins as a copy of the memory that the  *)
(* parent has when fork() returns; and wait() takes it once p has exited.  *)
(* Nothing else that p or anybody does changes it: not an sbrk(), fork()   *)
(* or exec() that fails half way, and no call of another process.          *)
MemoryStable ==
  [][\A p \in Slots : Memory(p)' # Memory(p) =>
       \/ \E n \in Decs : Shrink(p, n) /\ Memory(p)' = Restrict(Memory(p), Below(sz'[p]))
       \/ GrowDone(p) /\ Restrict(Memory(p)', Below(sz[p])) = Memory(p)
       \/ /\ ExecCommit(p)
          /\ {va \in Below(sz'[p]) : "U" \notin Memory(p)'[va]} = {PGROUNDUP(sz'[p]) - 2}
       \/ \E q \in Slots \ {p} : ForkDone(q) /\ state[p] = "used" /\ Memory(p)' = Memory(q)
       \/ \E q \in Slots \ {p} : Wait(q, p)]_memVars

=============================================================================
