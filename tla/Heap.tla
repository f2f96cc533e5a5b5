-------------------------------- MODULE Heap --------------------------------
(***************************************************************************)
(* malloc() and free() of user/umalloc.c, in one program.                  *)
(*                                                                         *)
(* Addresses count headers: a block is its header and the units that       *)
(* follow.  The free blocks form a ring, which starts with the empty block *)
(* base, below the heap; what malloc() has handed out has a header with a  *)
(* size and no place in the ring.  The program may call sbrk() itself, so  *)
(* that the heap has holes.  Sizes do not wrap: requests so large that     *)
(* nbytes, a uint, or the int argument of sbrk() overflows are left out.   *)
(***************************************************************************)
EXTENDS Integers, FiniteSets, FiniteSetsExt, Functions, TLC

CONSTANTS
  Units,     \* what malloc() is asked for, as numbers of units (nunits)
  Core,      \* the least that morecore() asks for (4096 in the code)
  HeapEnd    \* bound on the addresses

ASSUME HeapAssumption == Units \cup {Core} \subseteq Nat \ {0} /\ HeapEnd \in Nat

base == 0
NoBlock == -1

VARIABLES
  brk,       \* where the next sbrk() will be
  freep,
  next,      \* s.ptr of the blocks in the ring
  hsize,     \* s.size of every block
  want,      \* nunits of the malloc() under way, or 0
  given,     \* the blocks that the program has, and what it asked for
  taken      \* history: units that came from sbrk()

heapVars == <<brk, freep, next, hsize, want, given, taken>>

(* The blocks of the ring in order, from p on: all of them, and p again.   *)
Ring(p) ==
  LET blk[k \in 0 .. Cardinality(DOMAIN next)] == IF k = 0 THEN p ELSE next[blk[k - 1]]
  IN blk

FirstBlock(p, blocks) ==
  LET hits == {k \in DOMAIN Ring(p) : Ring(p)[k] \in blocks}
  IN IF hits = {} THEN NoBlock ELSE Ring(p)[Min(hits)]

-----------------------------------------------------------------------------
(* free(): where the block belongs, between two blocks or at the end of    *)
(* the addresses ...                                                       *)
Place(bp) ==
  FirstBlock(freep, {p \in DOMAIN next : \/ p < bp /\ bp < next[p]
                                         \/ p >= next[p] /\ (bp > p \/ bp < next[p])})

(* Mutant: the block is not joined to the one above it.                    *)
FreeUpperApart(bp, size) ==
  LET p == Place(bp)
  IN /\ freep' = p
     /\ IF p + size[p] = bp
        THEN /\ next' = next
             /\ hsize' = (p :> size[p] + size[bp]) @@ Restrict(size, DOMAIN size \ {bp})
        ELSE next' = (bp :> next[p]) @@ (p :> bp) @@ next /\ hsize' = size

(* ... and joined to the one above it, and to the one below.               *)
Free(bp, size) ==
  LET p == Place(bp)
      upper == next[p]
      join == IF bp + size[bp] = upper THEN {upper} ELSE {}
      ptr == IF join = {} THEN upper ELSE next[upper]
      units == size[bp] + (IF join = {} THEN 0 ELSE size[upper])
      ring == Restrict(next, DOMAIN next \ join)
      rest == Restrict(size, DOMAIN size \ (join \cup {bp}))
  IN /\ freep' = p
     /\ IF p + size[p] = bp
        THEN next' = (p :> ptr) @@ ring /\ hsize' = (p :> size[p] + units) @@ rest
        ELSE next' = (bp :> ptr) @@ (p :> bp) @@ ring /\ hsize' = (bp :> units) @@ rest

CallFree(bp) ==
  /\ want = 0 /\ bp \in DOMAIN given
  /\ Free(bp, hsize)
  /\ given' = Restrict(given, DOMAIN given \ {bp})
  /\ UNCHANGED <<brk, want, taken>>

-----------------------------------------------------------------------------
(* malloc(); the first call makes the ring.                                *)
CallMalloc(n) ==
  /\ want = 0
  /\ want' = n
  /\ IF freep = NoBlock
     THEN freep' = base /\ next' = (base :> base) /\ hsize' = (base :> 0)
     ELSE UNCHANGED <<freep, next, hsize>>
  /\ UNCHANGED <<brk, given, taken>>

Fit == FirstBlock(next[freep], {p \in DOMAIN next : hsize[p] >= want})

(* The first block that is large enough, or the tail end of it.            *)
MallocReturn ==
  LET p == Fit
      prevp == CHOOSE q \in DOMAIN next : next[q] = p
      bp == p + hsize[p] - want
  IN /\ want # 0 /\ p # NoBlock
     /\ IF bp = p
        THEN /\ next' = (prevp :> next[p]) @@ Restrict(next, DOMAIN next \ {p})
             /\ UNCHANGED hsize
        ELSE /\ hsize' = (bp :> want) @@ (p :> hsize[p] - want) @@ hsize
             /\ UNCHANGED next
     /\ freep' = prevp
     /\ given' = (bp :> want) @@ given
     /\ want' = 0
     /\ UNCHANGED <<brk, taken>>

(* morecore(): the search goes on with the new block freed.                *)
Morecore ==
  LET nu == IF want < Core THEN Core ELSE want
  IN /\ want # 0 /\ Fit = NoBlock /\ brk + nu <= HeapEnd
     /\ Free(brk, (brk :> nu) @@ hsize)
     /\ brk' = brk + nu
     /\ taken' = taken + nu
     /\ UNCHANGED <<want, given>>

MorecoreFails ==
  /\ want # 0 /\ Fit = NoBlock
  /\ want' = 0
  /\ UNCHANGED <<brk, freep, next, hsize, given, taken>>

Sbrk ==
  /\ want = 0 /\ brk < HeapEnd
  /\ brk' = brk + 1
  /\ UNCHANGED <<freep, next, hsize, want, given, taken>>

-----------------------------------------------------------------------------
HeapInit ==
  /\ brk = 1 /\ freep = NoBlock
  /\ next = [b \in {} |-> 0] /\ hsize = [b \in {} |-> 0] /\ given = [b \in {} |-> 0]
  /\ want = 0 /\ taken = 0

HeapNext ==
  \/ \E n \in Units : CallMalloc(n)
  \/ \E bp \in DOMAIN given : CallFree(bp)
  \/ MallocReturn \/ Morecore \/ MorecoreFails \/ Sbrk

HeapSpec == HeapInit /\ [][HeapNext]_heapVars

-----------------------------------------------------------------------------
(* Properties.                                                             *)

Extent(b) == b .. b + hsize[b] - 1

(* Whatever the order of malloc() and free(), the memory that came from    *)
(* sbrk() is divided into blocks that neither overlap nor leave anything   *)
(* out.  Those that the program has are of the size it asked for; the      *)
(* others are all in the ring, in the order of their addresses, and no two *)
(* of them touch: free() has always joined them.                           *)
HeapExact ==
  LET blocks == DOMAIN hsize \ {base}
      free == DOMAIN next
  IN /\ \A b, c \in blocks : b = c \/ Extent(b) \cap Extent(c) = {}
     /\ MapThenSumSet(LAMBDA b : hsize[b], blocks) = taken
     /\ DOMAIN given = blocks \ free /\ \A b \in DOMAIN given : hsize[b] = given[b]
     /\ freep # NoBlock =>
          /\ Range(Ring(freep)) = free
          /\ Cardinality({b \in free : next[b] <= b}) = 1
          /\ \A b \in free \ {base} : b + hsize[b] \notin free
=============================================================================
