------------------------------- MODULE PosAlloc -------------------------------
(***************************************************************************)
(* The free-list allocator of the PULP runtime (sw/pulp-runtime/kernel/    *)
(* alloc.c), used for the L1 and L2 heaps.  A free block carries its own   *)
(* header {size, next} in its first eight bytes; the list is singly        *)
(* linked, kept in address order and fully coalesced; a block that is      *)
(* handed out has no metadata at all, its owner gives the size back.       *)
(*                                                                         *)
(* One caller at a time uses a heap: nothing in the code locks it.  The    *)
(* two list walks are one step per iteration, the pointer surgery that     *)
(* ends a call is one step.                                                *)
(***************************************************************************)
EXTENDS Integers

CONSTANTS
  Base,        \* the address pos_alloc_init is given, after ALIGN_UP
  Size,        \* its size in bytes, after ALIGN_DOWN
  Requests,      \* the sizes callers of pos_alloc ask for
  AlignRequests, \* the sizes callers of pos_alloc_align ask for
  Aligns         \* the alignments they ask for

MIN_CHUNK_SIZE == 8     \* also sizeof(pos_alloc_chunk_t)
NULL == 0

ASSUME HeapAssumption ==
  /\ Base \in Nat \ {0} /\ Base % MIN_CHUNK_SIZE = 0
  /\ Size \in Nat \ {0} /\ Size % MIN_CHUNK_SIZE = 0

ASSUME RequestAssumption == Requests \union AlignRequests \subseteq Nat

\* ALIGN_UP and the mask -align are what AlignUp says for powers of two only.
ASSUME AlignAssumption ==
  /\ Aligns \subseteq {2^i : i \in 0 .. 30}
  /\ \A a \in Aligns :
       /\ a \in Nat \ {0}
       /\ IF a < MIN_CHUNK_SIZE THEN MIN_CHUNK_SIZE % a = 0 ELSE a % MIN_CHUNK_SIZE = 0

VARIABLES
  first_free,  \* head of the free list, or NULL
  hdr,         \* the headers of the free blocks: address -> [size, next]
  owned,       \* the blocks callers hold, [base, size], size as they asked
  pc,          \* "idle", or inside which function the caller is
  n,           \* "size" of pos_alloc or pos_free, rounded
  prev, pt,    \* the two cursors of the walk ("prev" and "pt" or "next")
  chunk,       \* the block pos_free inserts
  want,        \* what the caller asked for: [base, size, align]
  head, tail   \* what pos_alloc_align still has to free

vars == <<first_free, hdr, owned, pc, n, prev, pt, chunk, want, head, tail>>
locals == <<n, prev, pt, chunk>>

Addr == Base .. (Base + Size - 1)
Block(b, s) == [base |-> b, size |-> s]
NoBlock == Block(NULL, 0)
NoWant == [base |-> NULL, size |-> 0, align |-> 0]

\* Mutant: the "- 1" of ALIGN_UP is forgotten.
AlignUp_Past(x, a) == (x + a) - (x % a)

(* ALIGN_UP(addr, size): the next multiple of a.                            *)
AlignUp(x, a) == x + ((-x) % a)
Round(s) == AlignUp(s, MIN_CHUNK_SIZE)

(* Write the header of the free block at a; drop headers that cease to be.  *)
SetHdr(h, a, s, nx) ==
  [x \in DOMAIN h \union {a} |->
     IF x = a THEN [size |-> s, next |-> nx] ELSE h[x]]
DropHdr(h, S) == [x \in DOMAIN h \ S |-> h[x]]

(* Make the link that led to pt ("if (prev) prev->next = .. else            *)
(* a->first_free = ..") lead to nx instead, in the headers h.               *)
Relink(h, nx) ==
  /\ first_free' = IF prev = NULL THEN nx ELSE first_free
  /\ hdr' = IF prev = NULL THEN h ELSE SetHdr(h, prev, h[prev].size, nx)

(* pos_alloc_init: one free block, the whole heap.                          *)
Init ==
  /\ first_free = Base
  /\ hdr = [x \in {Base} |-> [size |-> Size, next |-> NULL]]
  /\ owned = {}
  /\ pc = "idle"
  /\ n = 0 /\ prev = NULL /\ pt = NULL /\ chunk = NULL
  /\ want = NoWant /\ head = NoBlock /\ tail = NoBlock

-----------------------------------------------------------------------------
(* Entry of pos_alloc with a size not yet rounded.                          *)
EnterAlloc(s) ==
  /\ pc' = "alloc"
  /\ n' = Round(s)
  /\ pt' = first_free /\ prev' = NULL
  /\ UNCHANGED <<first_free, hdr, owned, chunk, head, tail>>

PosAlloc(s) ==
  /\ pc = "idle"
  /\ want' = [base |-> NULL, size |-> s, align |-> 0]
  /\ EnterAlloc(s)

(* pos_alloc_align: a small alignment needs nothing; otherwise a block is   *)
(* asked for that has room for a header before and after the aligned one.   *)
SizeAlign(s, a) == s + a + 2 * MIN_CHUNK_SIZE

PosAllocAlign(s, a) ==
  /\ pc = "idle"
  /\ IF a < MIN_CHUNK_SIZE
       THEN /\ want' = [base |-> NULL, size |-> s, align |-> 0]
            /\ EnterAlloc(s)
       ELSE /\ want' = [base |-> NULL, size |-> s, align |-> a]
            /\ EnterAlloc(SizeAlign(s, a))

\* Mutant: the walk passes a block of exactly the right size.
AllocScan_PassesExact ==
  /\ pc = "alloc"
  /\ pt # NULL /\ hdr[pt].size <= n
  /\ prev' = pt /\ pt' = hdr[pt].next
  /\ UNCHANGED <<first_free, hdr, owned, pc, n, chunk, want, head, tail>>

(* while (pt && (pt->size < size))                                          *)
AllocScan ==
  /\ pc = "alloc"
  /\ pt # NULL /\ hdr[pt].size < n
  /\ prev' = pt /\ pt' = hdr[pt].next
  /\ UNCHANGED <<first_free, hdr, owned, pc, n, chunk, want, head, tail>>

AllocFail ==
  /\ pc = "alloc" /\ pt = NULL
  /\ pc' = "idle" /\ want' = NoWant
  /\ n' = 0 /\ prev' = NULL /\ pt' = NULL
  /\ UNCHANGED <<first_free, hdr, owned, chunk, head, tail>>

(* pos_alloc returns r, to its caller or into pos_alloc_align.  There a     *)
(* header of fewer than eight bytes moves the result to the next aligned    *)
(* address, without a change of headersize.                                 *)
Return(r) ==
  /\ n' = 0 /\ prev' = NULL /\ pt' = NULL
  /\ IF want.align = 0
       THEN /\ owned' = owned \union {Block(r, want.size)}
            /\ pc' = "idle" /\ want' = NoWant
            /\ UNCHANGED <<head, tail>>
       ELSE LET up == AlignUp(r, want.align)
                headersize == up - r
                result == IF headersize \in 1 .. (MIN_CHUNK_SIZE - 1)
                            THEN up + want.align ELSE up
            IN /\ head' = Block(r, headersize)
               /\ tail' = Block(result + want.size,
                                SizeAlign(want.size, want.align)
                                  - headersize - want.size)
               /\ want' = [want EXCEPT !.base = result]
               /\ pc' = "align"
               /\ UNCHANGED owned

AllocExact ==
  /\ pc = "alloc"
  /\ pt # NULL /\ hdr[pt].size = n
  /\ Relink(DropHdr(hdr, {pt}), hdr[pt].next)
  /\ Return(pt)
  /\ UNCHANGED chunk

AllocSplit ==
  /\ pc = "alloc"
  /\ pt # NULL /\ hdr[pt].size > n
  /\ LET rest == pt + n
     IN Relink(SetHdr(DropHdr(hdr, {pt}), rest, hdr[pt].size - n, hdr[pt].next),
               rest)
  /\ Return(pt)
  /\ UNCHANGED chunk

-----------------------------------------------------------------------------
\* Mutant: pos_free takes the size as the caller gave it.
EnterFree_Unrounded(b) ==
  /\ pc' = "free"
  /\ chunk' = b.base
  /\ n' = b.size
  /\ pt' = first_free /\ prev' = NULL
  /\ UNCHANGED <<first_free, hdr, want>>

(* Entry of pos_free.                                                       *)
EnterFree(b) ==
  /\ pc' = "free"
  /\ chunk' = b.base
  /\ n' = Round(b.size)
  /\ pt' = first_free /\ prev' = NULL
  /\ UNCHANGED <<first_free, hdr, want>>

(* The caller gives a block back, with the size it asked for.               *)
PosFree(b) ==
  /\ pc = "idle" /\ b \in owned
  /\ owned' = owned \ {b}
  /\ EnterFree(b)
  /\ UNCHANGED <<head, tail>>

(* pos_alloc_align frees what is before the aligned block, if anything,     *)
(* then what is after it, then returns.                                     *)
FreeHead ==
  /\ pc = "align" /\ head.size # 0
  /\ EnterFree(head)
  /\ head' = NoBlock
  /\ UNCHANGED <<owned, tail>>

\* Mutant: what remains after the aligned block is forgotten.
FreeTail_Forgotten ==
  /\ pc = "align" /\ head.size = 0 /\ tail # NoBlock
  /\ head' = NoBlock /\ tail' = NoBlock
  /\ UNCHANGED <<first_free, hdr, owned, pc, want>> /\ UNCHANGED locals

FreeTail ==
  /\ pc = "align" /\ head.size = 0 /\ tail # NoBlock
  /\ EnterFree(tail)
  /\ head' = NoBlock /\ tail' = NoBlock
  /\ UNCHANGED owned

AlignReturn ==
  /\ pc = "align" /\ head.size = 0 /\ tail = NoBlock
  /\ owned' = owned \union {Block(want.base, want.size)}
  /\ want' = NoWant /\ pc' = "idle"
  /\ UNCHANGED <<first_free, hdr, head, tail>> /\ UNCHANGED locals

FreeScan_NextStays ==
  /\ pc = "free"
  /\ pt # NULL /\ pt < chunk
  /\ prev' = pt /\ pt' = pt
  /\ UNCHANGED <<first_free, hdr, owned, pc, n, chunk, want, head, tail>>

(* while (next && next < chunk)                                             *)
FreeScan ==
  /\ pc = "free"
  /\ pt # NULL /\ pt < chunk
  /\ prev' = pt /\ pt' = hdr[pt].next
  /\ UNCHANGED <<first_free, hdr, owned, pc, n, chunk, want, head, tail>>

(* Coalesce with the next block, then with the previous one.                *)
FreeLink ==
  /\ pc = "free"
  /\ pt = NULL \/ pt >= chunk
  /\ LET meetsNext == pt # NULL /\ chunk + n = pt
         withNext  == IF meetsNext
                        THEN SetHdr(DropHdr(hdr, {pt}), chunk,
                                    n + hdr[pt].size, hdr[pt].next)
                        ELSE SetHdr(hdr, chunk, n, pt)
         new       == withNext[chunk]
     IN IF prev # NULL /\ prev + hdr[prev].size = chunk
          THEN /\ hdr' = SetHdr(DropHdr(withNext, {chunk}), prev,
                                hdr[prev].size + new.size, new.next)
               /\ UNCHANGED first_free
          ELSE Relink(withNext, chunk)
  /\ pc' = IF want = NoWant THEN "idle" ELSE "align"
  /\ n' = 0 /\ prev' = NULL /\ pt' = NULL /\ chunk' = NULL
  /\ UNCHANGED <<owned, want, head, tail>>

-----------------------------------------------------------------------------
Call ==
  \/ \E s \in Requests : PosAlloc(s)
  \/ \E s \in AlignRequests, a \in Aligns : PosAllocAlign(s, a)
  \/ \E b \in owned : PosFree(b)

Step ==
  \/ AllocScan \/ AllocFail \/ AllocExact \/ AllocSplit
  \/ FreeHead \/ FreeTail \/ AlignReturn
  \/ FreeScan \/ FreeLink

Next == Call \/ Step

Spec == Init /\ [][Next]_vars

(* A call that was entered is executed: the processor keeps fetching.       *)
FairSpec == Spec /\ WF_vars(Step)

-----------------------------------------------------------------------------
(* The blocks the heap is cut into: on the free list, with a caller, or in  *)
(* the hands of the call in progress.                                       *)
FreeBlocks  == {Block(c, hdr[c].size) : c \in DOMAIN hdr}
OwnedBlocks == {Block(b.base, Round(b.size)) : b \in owned}
Flight == <<IF pc = "free" THEN Block(chunk, n) ELSE NoBlock,
            head, tail, Block(want.base, want.size)>>
Live(b) == b.base # NULL /\ b.size # 0
InFlight == {b \in {Flight[k] : k \in 1 .. 4} : Live(b)}

Bytes(b) == b.base .. (b.base + b.size - 1)
BytesOf(S) == UNION {Bytes(b) : b \in S}
FreeBytes == BytesOf(FreeBlocks)
Apart(b, c) == b.base + b.size <= c.base \/ c.base + c.size <= b.base

(* Requests for which the allocator's own assumptions hold: no empty block, *)
(* and aligned blocks that end on a chunk boundary.                         *)
SaneRequests ==
  /\ 0 \notin Requests \union AlignRequests
  /\ \A s \in AlignRequests : s % MIN_CHUNK_SIZE = 0

TypeOK ==
  /\ first_free \in Addr \union {NULL}
  /\ DOMAIN hdr \subseteq Addr
  /\ hdr \in [DOMAIN hdr -> [size : 1 .. Size, next : Addr \union {NULL}]]
  /\ owned \subseteq [base : Addr, size : Requests \union AlignRequests]
  /\ pc \in {"idle", "alloc", "align", "free"}
  /\ n \in Nat
  /\ prev \in Addr \union {NULL} /\ pt \in Addr \union {NULL}
  /\ chunk \in Addr \union {NULL}
  /\ want \in [base : Addr \union {NULL},
               size : Requests \union AlignRequests \union {0},
               align : Aligns \union {0}]
  /\ head \in [base : Addr \union {NULL}, size : Nat]
  /\ tail \in [base : Addr \union {NULL}, size : Nat]

(* Following next from first_free visits every free block once, in address  *)
(* order, and two of them never touch: each free block ends strictly before *)
(* the next one begins, and none is skipped.                                *)
FreeListSorted ==
  /\ first_free = NULL => DOMAIN hdr = {}
  /\ first_free # NULL =>
       /\ first_free \in DOMAIN hdr
       /\ \A c \in DOMAIN hdr : first_free <= c
  /\ \A c \in DOMAIN hdr :
       LET nx == hdr[c].next
       IN IF nx = NULL
            THEN \A d \in DOMAIN hdr : d <= c
            ELSE /\ nx \in DOMAIN hdr
                 /\ c + hdr[c].size < nx
                 /\ \A d \in DOMAIN hdr : d <= c \/ nx <= d

(* No byte is in two blocks: a caller never shares memory with another      *)
(* caller, with a free block or with the block being returned.              *)
NoOverlap ==
  LET kinds == <<FreeBlocks, OwnedBlocks, InFlight>>
  IN \A i, j \in 1 .. 3 : \A b \in kinds[i], c \in kinds[j] :
       (i # j \/ b # c) => Apart(b, c)

(* No byte is lost: pos_alloc_align gives back all it took too much, and    *)
(* what callers give back can be allocated again.                           *)
NoLeak == Addr = BytesOf(FreeBlocks \union OwnedBlocks \union InFlight)

(* pos_alloc returns NULL only when no run of n free bytes exists: free     *)
(* space is never cut in pieces that touch, and the walk misses none.       *)
RefusedOnlyWhenFull ==
  pc = "alloc" /\ pt = NULL =>
    \A b \in FreeBytes : ~(b .. (b + n - 1) \subseteq FreeBytes)

(* "We must allocate an aligned chunk with exactly the right size"          *)
(* (alloc.c:262): the bytes a caller asked for are its own, whatever sizes  *)
(* the callers of pos_alloc_align choose.                                   *)
CallersApart == \A b, c \in owned : b # c => Apart(b, c)

(* The heap as its callers see it; what a call still has in its hands       *)
(* counts as free.                                                          *)
AbstractHeap ==
  INSTANCE Heap WITH free <- BytesOf(FreeBlocks \union InFlight),
                     held <- owned, Room <- Round
ImplementsHeap == AbstractHeap!Spec

(* Every call returns: the walks end, the list has no cycle.                *)
CallsReturn == pc # "idle" ~> pc = "idle"

-----------------------------------------------------------------------------
(* The inductive invariant behind NoOverlap and FreeListSorted.             *)

(* A block that lies in the heap, on chunk boundaries.                      *)
WellPlaced(b) ==
  /\ b.base \in Addr /\ b.size \in Nat \ {0}
  /\ b.base % MIN_CHUNK_SIZE = 0 /\ b.size % MIN_CHUNK_SIZE = 0
  /\ b.base + b.size <= Base + Size

Placed ==
  /\ \A c \in DOMAIN hdr : WellPlaced(Block(c, hdr[c].size))
  /\ \A b \in owned : WellPlaced(Block(b.base, Round(b.size)))
  /\ \A k \in 1 .. 4 : Live(Flight[k]) => WellPlaced(Flight[k])

KindsApart ==
  /\ \A c \in DOMAIN hdr, b \in owned :
       Apart(Block(c, hdr[c].size), Block(b.base, Round(b.size)))
  /\ \A b, c \in owned :
       b # c => Apart(Block(b.base, Round(b.size)), Block(c.base, Round(c.size)))
  /\ \A k \in 1 .. 4 : Live(Flight[k]) =>
       /\ \A c \in DOMAIN hdr : Apart(Block(c, hdr[c].size), Flight[k])
       /\ \A b \in owned : Apart(Block(b.base, Round(b.size)), Flight[k])
       /\ \A j \in 1 .. 4 : j # k /\ Live(Flight[j]) => Apart(Flight[j], Flight[k])

(* The cursors are neighbours in the list, and all before them was passed.  *)
Cursors ==
  pc \in {"alloc", "free"} =>
    /\ prev = NULL => pt = first_free
    /\ prev # NULL => prev \in DOMAIN hdr /\ hdr[prev].next = pt
    /\ pc = "free" /\ prev # NULL => prev < chunk

(* What each stage of a call has in its hands.                              *)
Stages ==
  /\ pc = "idle" => want = NoWant
  /\ want = NoWant => head.size = 0 /\ tail = NoBlock
  /\ pc = "alloc" =>
       /\ want.size # 0 /\ want.base = NULL /\ head.size = 0 /\ tail = NoBlock
       /\ n = Round(IF want.align = 0 THEN want.size
                    ELSE SizeAlign(want.size, want.align))
  /\ pc = "free" => chunk # NULL /\ n # 0
  /\ pc = "align" => want # NoWant
  /\ pc \in {"align", "free"} /\ want # NoWant =>
       want.size # 0 /\ want.base # NULL /\ want.align # 0
  /\ want.align # 0 =>
       want.size % MIN_CHUNK_SIZE = 0 /\ want.align >= MIN_CHUNK_SIZE
  /\ tail # NoBlock => Live(tail)
  /\ head.size # 0 => head.base # NULL

IInv == TypeOK /\ Placed /\ FreeListSorted /\ KindsApart /\ Cursors /\ Stages

(* And behind RefusedOnlyWhenFull: the walk of pos_alloc has only passed    *)
(* blocks that are too small.                                               *)
PassedTooSmall ==
  pc = "alloc" =>
    \A c \in DOMAIN hdr : pt = NULL \/ c < pt => hdr[c].size < n

(* And behind ImplementsHeap: what is on its way to a caller is of a size   *)
(* and at an alignment that a caller has asked for together.                *)
WantedTogether ==
  /\ want # NoWant /\ want.align = 0 =>
       \/ want.size \in Requests
       \/ want.size \in AlignRequests /\ \E a \in Aligns : a < MIN_CHUNK_SIZE
  /\ want.align # 0 => want.size \in AlignRequests /\ want.base % want.align = 0
=============================================================================
