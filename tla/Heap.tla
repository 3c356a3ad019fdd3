--------------------------------- MODULE Heap ---------------------------------
(***************************************************************************)
(* What the runtime's allocator promises to its callers, with no free      *)
(* list: a heap is a set of bytes, some of them held by callers as         *)
(* disjoint blocks.  An allocation takes a run of free bytes; a block that *)
(* is given back makes exactly its own bytes free again.                   *)
(***************************************************************************)
EXTENDS Integers

CONSTANTS
  Addr,            \* the bytes of the heap
  Requests,        \* sizes callers ask for without an alignment
  AlignRequests,   \* sizes callers ask for with an alignment
  Aligns,          \* the alignments
  Room(_)          \* the bytes a block of a given size takes

VARIABLES
  free,            \* the bytes nobody holds
  held             \* the blocks callers hold, [base, size]

Run(b, s) == b .. (b + s - 1)

Init == free = Addr /\ held = {}

(* A block of size s leaves the free bytes, at a multiple of a.             *)
Take(s, a) ==
  \E b \in free :
    /\ b % a = 0
    /\ Run(b, Room(s)) \subseteq free
    /\ free' = free \ Run(b, Room(s))
    /\ held' = held \union {[base |-> b, size |-> s]}

GiveBack(blk) ==
  /\ free' = free \union Run(blk.base, Room(blk.size))
  /\ held' = held \ {blk}

Next ==
  \/ \E s \in Requests : Take(s, 1)
  \/ \E s \in AlignRequests, a \in Aligns : Take(s, a)
  \/ \E blk \in held : GiveBack(blk)

Spec == Init /\ [][Next]_<<free, held>>
=============================================================================
