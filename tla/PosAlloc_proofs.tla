---------------------------- MODULE PosAlloc_proofs ----------------------------
(***************************************************************************)
(* For every heap, every set of request sizes the allocator is meant for   *)
(* and every set of alignments: the free list stays sorted and coalesced,  *)
(* and no byte is ever in two blocks.                                      *)
(***************************************************************************)
EXTENDS PosAlloc, TLAPS

(* ALIGN_UP(s, 8) is the next multiple of eight.                            *)
LEMMA RoundFacts ==
  \A s \in Nat : /\ Round(s) \in Nat
                 /\ Round(s) >= s
                 /\ Round(s) < s + MIN_CHUNK_SIZE
                 /\ Round(s) % MIN_CHUNK_SIZE = 0
                 /\ s % MIN_CHUNK_SIZE = 0 => Round(s) = s
  BY DEF Round, AlignUp, MIN_CHUNK_SIZE

(* ALIGN_UP of a chunk boundary to a larger alignment stays a boundary.     *)
LEMMA AlignUpFacts ==
  ASSUME NEW r \in Nat, r % MIN_CHUNK_SIZE = 0,
         NEW a \in Nat \ {0}, a % MIN_CHUNK_SIZE = 0
  PROVE  /\ AlignUp(r, a) \in Nat
         /\ AlignUp(r, a) >= r
         /\ AlignUp(r, a) < r + a
         /\ AlignUp(r, a) % MIN_CHUNK_SIZE = 0
<1> DEFINE q == (-r) \div a
           k == a \div 8
<1>1. (-r) % a \in 0 .. (a - 1)
  OBVIOUS
<1>2. -r = a * q + ((-r) % a) /\ q \in Int
  OBVIOUS
<1>3. a = 8 * k /\ k \in Nat
  BY DEF MIN_CHUNK_SIZE
<1>4. AlignUp(r, a) = -(a * q)
  BY <1>2 DEF AlignUp
<1>5. a * q = 8 * (k * q) /\ k * q \in Int
  BY <1>2, <1>3
<1>6. AlignUp(r, a) % 8 = 0
  <2> DEFINE z == k * q
  <2>1. z \in Int /\ AlignUp(r, a) = -(8 * z)
    BY <1>4, <1>5
  <2> HIDE DEF z
  <2> QED BY <2>1
<1> QED BY <1>1, <1>6 DEF AlignUp, MIN_CHUNK_SIZE

(* The address x is one of the bytes of block b.                            *)
Within(x, b) == b.base <= x /\ x < b.base + b.size

-----------------------------------------------------------------------------
(* After pos_alloc_init the whole heap is one free block.                   *)
LEMMA InitOK == Init => IInv
<1> SUFFICES ASSUME Init PROVE IInv
  OBVIOUS
<1> USE HeapAssumption DEF Init, NULL, NoBlock, NoWant, Block
<1>1. DOMAIN hdr = {Base} /\ hdr[Base] = [size |-> Size, next |-> NULL] /\ Base \in Addr
  BY DEF Addr
<1>2. TypeOK
  BY <1>1 DEF TypeOK
<1>3. \A k \in 1 .. 4 : ~Live(Flight[k])
  BY DEF Live, Flight
<1>4. Placed
  BY <1>1, <1>3 DEF Placed, WellPlaced
<1>5. FreeListSorted
  BY <1>1 DEF FreeListSorted
<1>6. KindsApart
  BY <1>3 DEF KindsApart
<1>7. Cursors /\ Stages
  BY DEF Cursors, Stages
<1> QED BY <1>2, <1>4, <1>5, <1>6, <1>7 DEF IInv

(* Entering pos_alloc moves no block.                                       *)
LEMMA EnterAllocOK ==
  ASSUME SaneRequests, IInv, pc = "idle", NEW s \in Nat,
         want' \in [base : {NULL}, size : (Requests \union AlignRequests) \ {0},
                    align : Aligns \union {0}],
         want'.align # 0 => /\ want'.size \in AlignRequests
                            /\ want'.align >= MIN_CHUNK_SIZE,
         s = IF want'.align = 0 THEN want'.size
             ELSE SizeAlign(want'.size, want'.align),
         EnterAlloc(s)
  PROVE  IInv'
<1> USE DEF EnterAlloc
<1>0. want'.base = NULL /\ want'.size # 0 /\ want' # NoWant
  BY DEF NoWant
<1>1. TypeOK'
  BY RoundFacts, HeapAssumption, RequestAssumption, AlignAssumption
  DEF IInv, TypeOK
<1>2. \A k \in 1 .. 4 : ~Live(Flight'[k])
  BY <1>0 DEF IInv, Stages, Live, Flight, NoBlock, Block
<1>3. Placed' /\ KindsApart'
  BY <1>2 DEF IInv, Placed, KindsApart
<1>4. FreeListSorted'
  BY DEF IInv, FreeListSorted
<1>5. Cursors'
  BY DEF Cursors
<1>6. Stages'
  BY <1>0 DEF IInv, Stages, SaneRequests
<1> QED BY <1>1, <1>3, <1>4, <1>5, <1>6 DEF IInv

(* A walk moves its cursors and nothing else.                               *)
LEMMA ScanOK ==
  ASSUME IInv, AllocScan \/ FreeScan
  PROVE  IInv'
<1> USE DEF AllocScan, FreeScan
<1>0. pt \in DOMAIN hdr /\ pt # NULL
  BY DEF IInv, Cursors, FreeListSorted
<1>1. TypeOK'
  BY <1>0 DEF IInv, TypeOK
<1>2. Flight' = Flight
  BY DEF Flight
<1>3. Placed' /\ KindsApart'
  BY <1>2 DEF IInv, Placed, KindsApart
<1>4. FreeListSorted'
  BY DEF IInv, FreeListSorted
<1>5. Cursors'
  BY <1>0 DEF Cursors
<1>6. Stages'
  BY DEF IInv, Stages
<1> QED BY <1>1, <1>3, <1>4, <1>5, <1>6 DEF IInv

(* A refused allocation leaves the heap as it was.                          *)
LEMMA AllocFailOK ==
  ASSUME IInv, AllocFail
  PROVE  IInv'
<1> USE DEF AllocFail
<1>1. TypeOK'
  BY DEF IInv, TypeOK, NoWant
<1>2. \A k \in 1 .. 4 : ~Live(Flight'[k])
  BY DEF IInv, Stages, Live, Flight, NoBlock, NoWant, Block
<1>3. Placed' /\ KindsApart'
  BY <1>2 DEF IInv, Placed, KindsApart
<1>4. FreeListSorted' /\ Cursors'
  BY DEF IInv, FreeListSorted, Cursors
<1>6. Stages'
  BY DEF IInv, Stages, NoWant
<1> QED BY <1>1, <1>3, <1>4, <1>6 DEF IInv

(* In a sorted list a free block ends before any later one begins.          *)
LEMMA SortedApart ==
  ASSUME TypeOK, FreeListSorted, NEW c \in DOMAIN hdr, NEW d \in DOMAIN hdr, c < d
  PROVE  c + hdr[c].size < d
<1>1. c \in Int /\ d \in Int /\ hdr[c].size \in Int /\ hdr[c].next \in Int
  BY HeapAssumption DEF TypeOK, Addr, NULL
<1> QED BY <1>1 DEF FreeListSorted

(* pos_alloc cuts n bytes from the front of the free block at pt.           *)
LEMMA TakeOK ==
  ASSUME IInv, AllocExact \/ AllocSplit
  PROVE  /\ pt \in DOMAIN hdr /\ n <= hdr[pt].size
         /\ first_free' \in Addr \union {NULL}
         /\ DOMAIN hdr' \subseteq Addr
         /\ hdr' \in [DOMAIN hdr' -> [size : 1 .. Size, next : Addr \union {NULL}]]
         /\ FreeListSorted'
         /\ \A c \in DOMAIN hdr' : WellPlaced(Block(c, hdr'[c].size))
         /\ \A c \in DOMAIN hdr' : Apart(Block(c, hdr'[c].size), Block(pt, n))
         /\ \A c \in DOMAIN hdr' : \E d \in DOMAIN hdr :
              d <= c /\ c + hdr'[c].size <= d + hdr[d].size
         /\ \A c \in DOMAIN hdr, x \in Int : Within(x, Block(c, hdr[c].size)) =>
              \/ Within(x, Block(pt, n))
              \/ \E d \in DOMAIN hdr' : Within(x, Block(d, hdr'[d].size))
<1>1. /\ pt \in DOMAIN hdr /\ pt # NULL /\ pt \in Addr
      /\ n \in Nat /\ n % 8 = 0 /\ n > 0
      /\ pt % 8 = 0 /\ hdr[pt].size % 8 = 0
      /\ pt + hdr[pt].size <= Base + Size
  <2>1. pt \in DOMAIN hdr /\ pt # NULL
    BY DEF IInv, Cursors, FreeListSorted, AllocExact, AllocSplit
  <2>2. (IF want.align = 0 THEN want.size ELSE SizeAlign(want.size, want.align))
          \in Nat \ {0}
    BY RequestAssumption, AlignAssumption
    DEF IInv, TypeOK, Stages, AllocExact, AllocSplit, SizeAlign, MIN_CHUNK_SIZE
  <2>3. n \in Nat /\ n % 8 = 0 /\ n > 0
    BY <2>2, RoundFacts DEF IInv, Stages, AllocExact, AllocSplit, MIN_CHUNK_SIZE
  <2> QED BY <2>1, <2>3 DEF IInv, TypeOK, Placed, WellPlaced, Block, MIN_CHUNK_SIZE
<1>0. /\ DOMAIN hdr \subseteq Addr
      /\ \A c \in DOMAIN hdr : /\ hdr[c].size \in 1 .. Size
                               /\ hdr[c].size \in Int
                               /\ hdr[c].next \in Addr \union {NULL}
                               /\ hdr[c].next \in Int
                               /\ c \in Int
  BY HeapAssumption DEF IInv, TypeOK, Addr, NULL
<1>s. \A c \in DOMAIN hdr :
        /\ hdr[c].next = NULL => \A d \in DOMAIN hdr : d <= c
        /\ hdr[c].next # NULL => /\ hdr[c].next \in DOMAIN hdr
                                 /\ c + hdr[c].size < hdr[c].next
                                 /\ \A d \in DOMAIN hdr : d <= c \/ hdr[c].next <= d
  BY DEF IInv, FreeListSorted
<1>a. ASSUME prev # NULL
      PROVE  prev \in DOMAIN hdr /\ hdr[prev].next = pt /\ prev # pt /\ prev < pt
  <2>1. prev \in DOMAIN hdr /\ hdr[prev].next = pt
    BY <1>a DEF IInv, Cursors, AllocExact, AllocSplit
  <2>2. prev + hdr[prev].size < pt
    BY <2>1, <1>1 DEF IInv, FreeListSorted
  <2> QED BY <2>1, <2>2, <1>0, <1>1
<1>b. prev = NULL => first_free = pt
  BY DEF IInv, Cursors, AllocExact, AllocSplit
<1>p. ASSUME NEW c \in DOMAIN hdr, c # prev
      PROVE  hdr[c].next # pt
  <2>1. SUFFICES ASSUME hdr[c].next = pt PROVE FALSE
    OBVIOUS
  <2>2. c < pt
    BY <2>1, <1>0, <1>1, <1>s
  <2>3. CASE prev = NULL
    BY <2>2, <2>3, <1>0, <1>1, <1>b DEF IInv, FreeListSorted
  <2>4. CASE prev # NULL
    BY <2>1, <2>2, <2>4, <1>0, <1>1, <1>a, <1>s, <1>p
  <2> QED BY <2>3, <2>4
<1>2. CASE AllocExact
  <2>1. DOMAIN hdr' = DOMAIN hdr \ {pt}
    BY <1>2, <1>a DEF AllocExact, Relink, DropHdr, SetHdr
  <2>2. \A c \in DOMAIN hdr' :
          hdr'[c] = [size |-> hdr[c].size,
                     next |-> IF c = prev THEN hdr[pt].next ELSE hdr[c].next]
    <3>1. CASE prev = NULL
      BY <1>2, <3>1, <1>0, <2>1, HeapAssumption
      DEF AllocExact, Relink, DropHdr, Addr, NULL, IInv, TypeOK
    <3>2. CASE prev # NULL
      BY <1>2, <3>2, <1>0, <1>a, <2>1
      DEF AllocExact, Relink, DropHdr, SetHdr, IInv, TypeOK
    <3> QED BY <3>1, <3>2
  <2>3. first_free' = IF prev = NULL THEN hdr[pt].next ELSE first_free
    BY <1>2 DEF AllocExact, Relink
  <2>4. FreeListSorted'
    <3>1. /\ first_free' = NULL => DOMAIN hdr' = {}
          /\ first_free' # NULL =>
               first_free' \in DOMAIN hdr' /\ \A c \in DOMAIN hdr' : first_free' <= c
      BY <1>0, <1>1, <1>a, <1>b, <2>1, <2>3 DEF IInv, FreeListSorted
    <3>2. ASSUME NEW c \in DOMAIN hdr'
          PROVE  IF hdr'[c].next = NULL
                   THEN \A d \in DOMAIN hdr' : d <= c
                   ELSE /\ hdr'[c].next \in DOMAIN hdr'
                        /\ c + hdr'[c].size < hdr'[c].next
                        /\ \A d \in DOMAIN hdr' : d <= c \/ hdr'[c].next <= d
      <4>1. CASE c = prev
        <5>1. /\ prev # NULL /\ c \in DOMAIN hdr
              /\ hdr'[c].next = hdr[pt].next /\ hdr'[c].size = hdr[c].size
          BY <4>1, <1>1, <2>1, <2>2, <1>0, <3>2, HeapAssumption DEF Addr, NULL
        <5> QED BY <4>1, <5>1, <1>0, <1>1, <1>a, <1>s, <2>1, <3>2
      <4>2. CASE c # prev
        <5>1. /\ hdr'[c].next = hdr[c].next /\ hdr'[c].size = hdr[c].size
              /\ c \in DOMAIN hdr
          BY <4>2, <2>1, <2>2, <3>2
        <5>2. hdr[c].next # pt
          BY <4>2, <5>1, <1>p
        <5> QED BY <5>1, <5>2, <1>0, <1>1, <1>s, <2>1, <3>2
      <4> QED BY <4>1, <4>2
    <3> QED BY <3>1, <3>2 DEF FreeListSorted
  <2>5. hdr' \in [DOMAIN hdr' -> [size : 1 .. Size, next : Addr \union {NULL}]]
    <3>1. hdr' = [c \in DOMAIN hdr' |-> hdr'[c]]
      BY <1>2 DEF AllocExact, Relink, DropHdr, SetHdr
    <3> QED BY <3>1, <2>1, <2>2, <1>0, <1>1
  <2>6. \A c \in DOMAIN hdr' : Apart(Block(c, hdr'[c].size), Block(pt, n))
    BY <1>0, <1>1, <1>2, <2>1, <2>2, SortedApart
    DEF IInv, AllocExact, Apart, Block
  <2>7. \A c \in DOMAIN hdr' : WellPlaced(Block(c, hdr'[c].size))
    BY <2>1, <2>2 DEF IInv, Placed
  <2>8. first_free' \in Addr \union {NULL} /\ DOMAIN hdr' \subseteq Addr
    BY <1>0, <1>1, <2>1, <2>3 DEF IInv, TypeOK
  <2>9. \A c \in DOMAIN hdr' : \E d \in DOMAIN hdr :
          d <= c /\ c + hdr'[c].size <= d + hdr[d].size
    BY <1>0, <2>1, <2>2
  <2>10. ASSUME NEW c \in DOMAIN hdr, NEW x \in Int, Within(x, Block(c, hdr[c].size))
         PROVE  \/ Within(x, Block(pt, n))
                \/ \E d \in DOMAIN hdr' : Within(x, Block(d, hdr'[d].size))
    <3>1. CASE c = pt
      BY <3>1, <2>10, <1>2 DEF AllocExact
    <3>2. CASE c # pt
      <4>1. c \in DOMAIN hdr' /\ hdr'[c].size = hdr[c].size
        BY <3>2, <2>1, <2>2
      <4> QED BY <4>1, <2>10
    <3> QED BY <3>1, <3>2
  <2> QED BY <1>1, <1>2, <2>4, <2>5, <2>6, <2>7, <2>8, <2>9, <2>10 DEF AllocExact
<1>3. CASE AllocSplit
  <2> DEFINE rest == pt + n
  <2>0. /\ rest \in Addr /\ rest # NULL /\ rest \notin DOMAIN hdr /\ rest # prev
        /\ hdr[pt].size - n \in 1 .. Size
        /\ rest % 8 = 0 /\ (hdr[pt].size - n) % 8 = 0
    <3>1. n < hdr[pt].size
      BY <1>0, <1>1, <1>3 DEF AllocSplit
    <3>2. rest \notin DOMAIN hdr
      BY <3>1, <1>0, <1>1, SortedApart DEF IInv
    <3> QED BY <3>1, <3>2, <1>0, <1>1, <1>a, HeapAssumption DEF Addr, NULL
  <2>1. DOMAIN hdr' = (DOMAIN hdr \ {pt}) \union {rest}
    BY <1>3, <1>a, <2>0 DEF AllocSplit, Relink, DropHdr, SetHdr
  <2>2. /\ \A c \in DOMAIN hdr \ {pt} :
             hdr'[c] = [size |-> hdr[c].size,
                        next |-> IF c = prev THEN rest ELSE hdr[c].next]
        /\ hdr'[rest] = [size |-> hdr[pt].size - n, next |-> hdr[pt].next]
    <3>1. CASE prev = NULL
      BY <1>3, <3>1, <1>0, <2>0, <2>1, HeapAssumption
      DEF AllocSplit, Relink, DropHdr, SetHdr, Addr, NULL, IInv, TypeOK
    <3>2. CASE prev # NULL
      BY <1>3, <3>2, <1>0, <1>a, <2>0, <2>1
      DEF AllocSplit, Relink, DropHdr, SetHdr, IInv, TypeOK
    <3> QED BY <3>1, <3>2
  <2>3. first_free' = IF prev = NULL THEN rest ELSE first_free
    BY <1>3 DEF AllocSplit, Relink
  <2> HIDE DEF rest
  <2>r. rest = pt + n
    BY DEF rest
  <2>c. /\ rest \in Int
        /\ \A c \in DOMAIN hdr' \ {rest} :
             /\ c \in DOMAIN hdr /\ c # pt
             /\ hdr'[c].size = hdr[c].size
             /\ hdr'[c].next = IF c = prev THEN rest ELSE hdr[c].next
    <3>1. rest \in Int
      BY <1>0, <1>1, <2>r
    <3>2. ASSUME NEW c \in DOMAIN hdr' \ {rest}
          PROVE  /\ c \in DOMAIN hdr /\ c # pt
                 /\ hdr'[c].size = hdr[c].size
                 /\ hdr'[c].next = IF c = prev THEN rest ELSE hdr[c].next
      <4>1. c \in DOMAIN hdr /\ c # pt
        BY <2>1
      <4>2. hdr'[c] = [size |-> hdr[c].size,
                       next |-> IF c = prev THEN rest ELSE hdr[c].next]
        BY <4>1, <2>2
      <4> QED BY <4>1, <4>2
    <3> QED BY <3>1, <3>2
  <2>d. /\ rest \in DOMAIN hdr'
        /\ hdr'[rest].size = hdr[pt].size - n /\ hdr'[rest].next = hdr[pt].next
    BY <2>1, <2>2
  <2>e. \A c \in DOMAIN hdr \ {pt} : c < pt \/ rest < c
    BY <1>0, <1>1, <2>r, <2>0, SortedApart DEF IInv
  <2>4. FreeListSorted'
    <3>1. /\ first_free' # NULL
          /\ first_free' \in DOMAIN hdr' /\ \A c \in DOMAIN hdr' : first_free' <= c
      <4>1. CASE prev = NULL
        BY <4>1, <1>0, <1>1, <1>b, <2>0, <2>1, <2>3, <2>c, <2>e DEF IInv, FreeListSorted
      <4>2. CASE prev # NULL
        BY <4>2, <1>0, <1>1, <1>a, <2>0, <2>1, <2>3, <2>r, <2>c DEF IInv, FreeListSorted
      <4> QED BY <4>1, <4>2
    <3>2. ASSUME NEW c \in DOMAIN hdr'
          PROVE  IF hdr'[c].next = NULL
                   THEN \A d \in DOMAIN hdr' : d <= c
                   ELSE /\ hdr'[c].next \in DOMAIN hdr'
                        /\ c + hdr'[c].size < hdr'[c].next
                        /\ \A d \in DOMAIN hdr' : d <= c \/ hdr'[c].next <= d
      <4>1. CASE c = rest
        BY <4>1, <1>0, <1>1, <1>s, <2>0, <2>1, <2>c, <2>d, <2>e, <2>r
      <4>2. CASE c # rest /\ c = prev
        <5>1. prev # NULL /\ hdr'[c].next = rest /\ hdr'[c].size = hdr[c].size
          BY <4>2, <2>c, <3>2, <1>0, HeapAssumption DEF Addr, NULL
        <5> QED BY <4>2, <5>1, <1>0, <1>1, <1>a, <1>s, <2>0, <2>1, <2>c, <2>e, <2>r, <3>2
      <4>3. CASE c # rest /\ c # prev
        <5>1. /\ hdr'[c].next = hdr[c].next /\ hdr'[c].size = hdr[c].size
              /\ c \in DOMAIN hdr /\ c # pt
          BY <4>3, <2>c, <3>2
        <5>2. hdr[c].next # pt
          BY <4>3, <5>1, <1>p
        <5> QED BY <5>1, <5>2, <1>0, <1>1, <1>s, <2>0, <2>1, <2>c, <2>e, <2>r, <3>2
      <4> QED BY <4>1, <4>2, <4>3
    <3> QED BY <3>1, <3>2 DEF FreeListSorted
  <2>5. hdr' \in [DOMAIN hdr' -> [size : 1 .. Size, next : Addr \union {NULL}]]
    <3>1. hdr' = [c \in DOMAIN hdr' |-> hdr'[c]]
      BY <1>3 DEF AllocSplit, Relink, DropHdr, SetHdr
    <3>2. \A c \in DOMAIN hdr' : hdr'[c] \in [size : 1 .. Size, next : Addr \union {NULL}]
      <4>1. ASSUME NEW c \in DOMAIN hdr \ {pt}
            PROVE  hdr'[c] \in [size : 1 .. Size, next : Addr \union {NULL}]
        <5>1. hdr'[c] = [size |-> hdr[c].size,
                         next |-> IF c = prev THEN rest ELSE hdr[c].next]
          BY <2>2
        <5> QED BY <5>1, <2>0, <1>0
      <4>2. hdr'[rest] \in [size : 1 .. Size, next : Addr \union {NULL}]
        BY <2>0, <2>2, <1>0, <1>1
      <4> QED BY <4>1, <4>2, <2>1
    <3> QED BY <3>1, <3>2
  <2>6. \A c \in DOMAIN hdr' : Apart(Block(c, hdr'[c].size), Block(pt, n))
    BY <1>0, <1>1, <2>0, <2>c, <2>d, <2>r, SortedApart DEF IInv, Apart, Block
  <2>7. \A c \in DOMAIN hdr' : WellPlaced(Block(c, hdr'[c].size))
    BY <1>0, <1>1, <2>0, <2>c, <2>d, <2>r, HeapAssumption
    DEF IInv, Placed, WellPlaced, Block, MIN_CHUNK_SIZE
  <2>8. first_free' \in Addr \union {NULL} /\ DOMAIN hdr' \subseteq Addr
    BY <1>0, <1>1, <2>0, <2>1, <2>3 DEF IInv, TypeOK
  <2>9. \A c \in DOMAIN hdr' : \E d \in DOMAIN hdr :
          d <= c /\ c + hdr'[c].size <= d + hdr[d].size
    BY <1>0, <1>1, <2>0, <2>c, <2>d, <2>r
  <2>10. ASSUME NEW c \in DOMAIN hdr, NEW x \in Int, Within(x, Block(c, hdr[c].size))
         PROVE  \/ Within(x, Block(pt, n))
                \/ \E d \in DOMAIN hdr' : Within(x, Block(d, hdr'[d].size))
    <3>1. CASE c = pt
      BY <3>1, <2>10, <1>0, <1>1, <2>c, <2>d, <2>r DEF Within, Block
    <3>2. CASE c # pt
      <4>1. c \in DOMAIN hdr' /\ c # rest
        BY <3>2, <2>0, <2>1
      <4>2. hdr'[c].size = hdr[c].size
        BY <4>1, <2>c
      <4> QED BY <4>1, <4>2, <2>10
    <3> QED BY <3>1, <3>2
  <2> QED BY <1>0, <1>1, <1>3, <2>4, <2>5, <2>6, <2>7, <2>8, <2>9, <2>10 DEF AllocSplit
<1> QED BY <1>2, <1>3

(* pos_alloc returns: the n bytes cut off go to the caller, or              *)
(* pos_alloc_align divides them in what it keeps and what it frees.         *)
LEMMA AllocDoneOK ==
  ASSUME SaneRequests, IInv, AllocExact \/ AllocSplit
  PROVE  IInv'
<1>1. /\ pc = "alloc" /\ Return(pt) /\ chunk' = chunk
      /\ n' = 0 /\ prev' = NULL /\ pt' = NULL
      /\ pt \in DOMAIN hdr /\ n <= hdr[pt].size /\ pt # NULL
  BY TakeOK DEF AllocExact, AllocSplit, Return
<1>2. /\ first_free' \in Addr \union {NULL}
      /\ DOMAIN hdr' \subseteq Addr
      /\ hdr' \in [DOMAIN hdr' -> [size : 1 .. Size, next : Addr \union {NULL}]]
      /\ FreeListSorted'
      /\ \A c \in DOMAIN hdr' : WellPlaced(Block(c, hdr'[c].size))
      /\ \A c \in DOMAIN hdr' : Apart(Block(c, hdr'[c].size), Block(pt, n))
  BY TakeOK
<1>3. /\ pt \in Addr /\ pt \in Nat /\ pt % 8 = 0
      /\ hdr[pt].size \in Nat /\ pt + hdr[pt].size <= Base + Size
  BY <1>1, HeapAssumption
  DEF IInv, TypeOK, Placed, WellPlaced, Block, MIN_CHUNK_SIZE, Addr
<1>4. /\ want.size \in Nat \ {0} /\ want.base = NULL
      /\ head.size = 0 /\ tail = NoBlock
      /\ n = Round(IF want.align = 0 THEN want.size
                   ELSE SizeAlign(want.size, want.align))
      /\ want.size \in Requests \union AlignRequests
  BY <1>1, RequestAssumption DEF IInv, Stages, TypeOK
<1>5. \A b \in owned : Apart(Block(b.base, Round(b.size)), Block(pt, n))
  <2> TAKE b \in owned
  <2>1. Apart(Block(pt, hdr[pt].size), Block(b.base, Round(b.size)))
    BY <1>1 DEF IInv, KindsApart
  <2>2. WellPlaced(Block(b.base, Round(b.size)))
    BY DEF IInv, Placed
  <2>3. n \in Int
    BY DEF IInv, TypeOK
  <2> QED BY <1>1, <1>3, <2>1, <2>2, <2>3, HeapAssumption
          DEF Apart, Block, WellPlaced, Addr
<1>6. \A c \in DOMAIN hdr', b \in owned :
        Apart(Block(c, hdr'[c].size), Block(b.base, Round(b.size)))
  <2> TAKE c \in DOMAIN hdr', b \in owned
  <2>1. PICK d \in DOMAIN hdr : d <= c /\ c + hdr'[c].size <= d + hdr[d].size
    BY TakeOK
  <2>2. Apart(Block(d, hdr[d].size), Block(b.base, Round(b.size)))
    BY DEF IInv, KindsApart
  <2>3. WellPlaced(Block(b.base, Round(b.size)))
    BY DEF IInv, Placed
  <2>4. WellPlaced(Block(c, hdr'[c].size)) /\ WellPlaced(Block(d, hdr[d].size))
    BY <1>2 DEF IInv, Placed
  <2> QED BY <2>1, <2>2, <2>3, <2>4, HeapAssumption DEF Apart, Block, WellPlaced, Addr
<1>7. CASE want.align = 0
  <2>1. /\ owned' = owned \union {Block(pt, want.size)}
        /\ pc' = "idle" /\ want' = NoWant /\ head' = head /\ tail' = tail
    BY <1>1, <1>7 DEF Return
  <2>2. n = Round(want.size) /\ n % 8 = 0 /\ n \in Nat \ {0}
    BY <1>4, <1>7, RoundFacts DEF MIN_CHUNK_SIZE
  <2>3. \A k \in 1 .. 4 : ~Live(Flight'[k])
    BY <1>4, <2>1 DEF Flight, Live, NoBlock, NoWant, Block
  <2>4. TypeOK'
    BY <1>1, <1>2, <1>3, <1>4, <2>1 DEF IInv, TypeOK, NoWant, Block
  <2>5. Placed'
    <3>1. WellPlaced(Block(pt, n))
      BY <1>1, <1>3, <2>2, HeapAssumption DEF WellPlaced, Block, MIN_CHUNK_SIZE
    <3> QED BY <3>1, <1>2, <2>1, <2>2, <2>3 DEF IInv, Placed, Block
  <2>6. KindsApart'
    <3>1. \A b \in owned : Apart(Block(pt, n), Block(b.base, Round(b.size)))
      BY <1>5 DEF Apart, Block
    <3> QED BY <3>1, <1>2, <1>5, <1>6, <2>1, <2>2, <2>3 DEF IInv, KindsApart, Block
  <2>7. Cursors' /\ Stages'
    BY <1>4, <2>1 DEF Cursors, Stages, NoWant, NoBlock, Block, IInv
  <2> QED BY <1>2, <2>4, <2>5, <2>6, <2>7 DEF IInv
<1>8. CASE want.align # 0
  <2> DEFINE a == want.align
             up == AlignUp(pt, a)
             hs == up - pt
  <2>1. a \in Nat /\ a % 8 = 0 /\ a >= 8 /\ want.size % 8 = 0
    BY <1>8, AlignAssumption DEF IInv, TypeOK, Stages, MIN_CHUNK_SIZE
  <2>2. up \in Nat /\ up >= pt /\ up < pt + a /\ up % 8 = 0
    BY <1>3, <2>1, AlignUpFacts DEF MIN_CHUNK_SIZE
  <2>3. n = want.size + a + 16
    <3>1. /\ SizeAlign(want.size, a) = want.size + a + 16
          /\ SizeAlign(want.size, a) \in Nat
          /\ SizeAlign(want.size, a) % 8 = 0
      BY <1>4, <2>1 DEF SizeAlign, MIN_CHUNK_SIZE
    <3> QED BY <3>1, <1>4, <1>8, RoundFacts DEF MIN_CHUNK_SIZE
  <2>4. hs \in Nat /\ hs < a /\ hs % 8 = 0 /\ hs \notin 1 .. 7
    BY <1>3, <2>1, <2>2
  <2>5. /\ head' = Block(pt, hs)
        /\ tail' = Block(up + want.size, n - hs - want.size)
        /\ want' = [want EXCEPT !.base = up]
        /\ pc' = "align" /\ owned' = owned
    BY <1>1, <1>8, <2>3, <2>4 DEF Return, SizeAlign, MIN_CHUNK_SIZE
  <2> HIDE DEF up, hs, a
  <2>h. up = pt + hs
    BY <1>3, <2>2 DEF hs
  <2>6. want' = [base |-> up, size |-> want.size, align |-> want.align]
    BY <2>5 DEF IInv, TypeOK
  <2>7. up \in Addr /\ up # NULL /\ up + want.size \in Addr
    BY <1>1, <1>3, <1>4, <2>1, <2>2, <2>3, HeapAssumption DEF Addr, NULL
  <2>8. TypeOK'
    BY <1>1, <1>2, <1>3, <1>4, <2>1, <2>3, <2>4, <2>5, <2>6, <2>7
    DEF IInv, TypeOK, Block
  <2>9. /\ Flight'[1] = NoBlock
        /\ Flight'[2] = Block(pt, hs)
        /\ Flight'[3] = Block(up + want.size, n - hs - want.size)
        /\ Flight'[4] = Block(up, want.size)
    BY <2>5, <2>6 DEF Flight
  <2>10. \A k \in 1 .. 4 : Live(Flight'[k]) =>
           /\ WellPlaced(Flight'[k])
           /\ pt <= Flight'[k].base /\ Flight'[k].base + Flight'[k].size <= pt + n
    <3>a. /\ n \in Nat /\ pt + n <= Base + Size
          /\ (n - hs - want.size) \in Nat \ {0} /\ (n - hs - want.size) % 8 = 0
          /\ (up + want.size) % 8 = 0
          /\ (up + want.size) + (n - hs - want.size) = pt + n
          /\ pt <= up /\ up + want.size <= pt + n
      <4>1. n \in Nat /\ pt + n <= Base + Size
        BY <1>1, <1>3, <1>4, <2>1, <2>3, HeapAssumption
      <4>2. n - hs - want.size = a + 16 - hs
        BY <1>4, <2>1, <2>3, <2>4
      <4>3. (a + 16 - hs) \in Nat \ {0} /\ (a + 16 - hs) % 8 = 0
        BY <2>1, <2>4
      <4>4. (up + want.size) % 8 = 0
        BY <1>4, <2>1, <2>2
      <4>5. /\ (up + want.size) + (n - hs - want.size) = pt + n
            /\ pt <= up /\ up + want.size <= pt + n
        BY <1>3, <1>4, <2>1, <2>3, <2>4, <2>h
      <4> QED BY <4>1, <4>2, <4>3, <4>4, <4>5
    <3>1. ~Live(Flight'[1])
      BY <2>9 DEF Live, NoBlock, Block
    <3>2. Live(Flight'[2]) =>
           /\ WellPlaced(Flight'[2])
           /\ pt <= Flight'[2].base /\ Flight'[2].base + Flight'[2].size <= pt + n
      BY <1>3, <1>4, <2>1, <2>3, <2>4, <2>9, <3>a, HeapAssumption
      DEF WellPlaced, Live, Block, MIN_CHUNK_SIZE
    <3>3. /\ WellPlaced(Flight'[3])
          /\ pt <= Flight'[3].base /\ Flight'[3].base + Flight'[3].size <= pt + n
      <4>1. Flight'[3].base = up + want.size /\ Flight'[3].size = n - hs - want.size
        BY <2>9 DEF Block
      <4> QED BY <4>1, <1>3, <1>4, <2>2, <2>7, <3>a DEF WellPlaced, MIN_CHUNK_SIZE
    <3>4. /\ WellPlaced(Flight'[4])
          /\ pt <= Flight'[4].base /\ Flight'[4].base + Flight'[4].size <= pt + n
      <4>1. Flight'[4].base = up /\ Flight'[4].size = want.size
        BY <2>9 DEF Block
      <4>2. up + want.size <= Base + Size
        BY <1>3, <1>4, <2>2, <3>a, HeapAssumption
      <4> QED BY <4>1, <4>2, <1>3, <1>4, <2>1, <2>2, <2>7, <3>a DEF WellPlaced, MIN_CHUNK_SIZE
    <3> QED BY <3>1, <3>2, <3>3, <3>4
  <2>11. \A j, k \in 1 .. 4 : j # k /\ Live(Flight'[j]) /\ Live(Flight'[k]) =>
           Apart(Flight'[j], Flight'[k])
    <3>1. ~Live(Flight'[1])
      BY <2>9 DEF Live, NoBlock, Block
    <3>2. \A j, k \in {2, 3, 4} : j # k => Apart(Flight'[j], Flight'[k])
      BY <1>3, <1>4, <2>1, <2>3, <2>4, <2>9, <2>h DEF Apart, Block
    <3> QED BY <3>1, <3>2
  <2>12. Placed'
    BY <1>2, <2>5, <2>10 DEF IInv, Placed
  <2>13. KindsApart'
    <3>1. ASSUME NEW k \in 1 .. 4, Live(Flight'[k])
          PROVE  /\ \A c \in DOMAIN hdr' : Apart(Block(c, hdr'[c].size), Flight'[k])
                 /\ \A b \in owned : Apart(Block(b.base, Round(b.size)), Flight'[k])
      <4>1. /\ WellPlaced(Flight'[k])
            /\ pt <= Flight'[k].base /\ Flight'[k].base + Flight'[k].size <= pt + n
        BY <3>1, <2>10
      <4>2. \A c \in DOMAIN hdr' : Apart(Block(c, hdr'[c].size), Flight'[k])
        <5> TAKE c \in DOMAIN hdr'
        <5>1. WellPlaced(Block(c, hdr'[c].size)) /\ Apart(Block(c, hdr'[c].size), Block(pt, n))
          BY <1>2
        <5> QED BY <5>1, <4>1, <1>3, HeapAssumption DEF WellPlaced, Apart, Block, Addr, IInv, TypeOK
      <4>3. \A b \in owned : Apart(Block(b.base, Round(b.size)), Flight'[k])
        <5> TAKE b \in owned
        <5>1. /\ WellPlaced(Block(b.base, Round(b.size)))
              /\ Apart(Block(b.base, Round(b.size)), Block(pt, n))
          BY <1>5 DEF IInv, Placed
        <5> QED BY <5>1, <4>1, <1>3, HeapAssumption DEF WellPlaced, Apart, Block, Addr, IInv, TypeOK
      <4> QED BY <4>2, <4>3
    <3> QED BY <3>1, <1>6, <2>5, <2>11 DEF IInv, KindsApart
  <2>14. Cursors'
    BY <2>5 DEF Cursors
  <2>15. Stages'
    <3>1. Live(tail')
      BY <1>4, <2>1, <2>3, <2>4, <2>5, <2>7, HeapAssumption DEF Live, Block, NULL, Addr
    <3> QED BY <3>1, <1>1, <1>4, <1>8, <2>1, <2>5, <2>6, <2>7
            DEF Stages, NoWant, NoBlock, Block, NULL, MIN_CHUNK_SIZE, a
  <2> QED BY <1>2, <2>8, <2>12, <2>13, <2>14, <2>15 DEF IInv
<1> QED BY <1>7, <1>8

(* A caller's block passes from the caller to pos_free.                     *)
LEMMA PosFreeOK ==
  ASSUME SaneRequests, IInv, NEW b \in owned, PosFree(b)
  PROVE  IInv'
<1> USE DEF PosFree, EnterFree
<1>1. /\ b.base \in Addr /\ b.size \in Nat \ {0}
      /\ WellPlaced(Block(b.base, Round(b.size)))
  BY RequestAssumption DEF IInv, TypeOK, Placed, SaneRequests
<1>2. Round(b.size) \in Nat \ {0} /\ b.base # NULL
  BY <1>1, RoundFacts, HeapAssumption DEF Addr, NULL
<1>3. want = NoWant /\ head.size = 0 /\ tail = NoBlock
  BY DEF IInv, Stages
<1>4. Flight'[1] = Block(b.base, Round(b.size)) /\ \A k \in 2 .. 4 : ~Live(Flight'[k])
  BY <1>3 DEF Flight, Live, NoWant, NoBlock, Block
<1>5. TypeOK'
  BY <1>1, <1>2 DEF IInv, TypeOK
<1>6. Placed'
  BY <1>1, <1>4 DEF IInv, Placed
<1>7. KindsApart'
  BY <1>4 DEF IInv, KindsApart
<1>8. FreeListSorted' /\ Cursors'
  BY DEF IInv, FreeListSorted, Cursors
<1>9. Stages'
  BY <1>2, <1>3 DEF IInv, Stages, NoWant, NoBlock, Block
<1> QED BY <1>5, <1>6, <1>7, <1>8, <1>9 DEF IInv

(* pos_alloc_align passes what is before its block to pos_free ...          *)
LEMMA FreeHeadOK ==
  ASSUME IInv, FreeHead
  PROVE  IInv'
<1> USE DEF FreeHead, EnterFree
<1>1. Live(head) /\ head = Flight[2] /\ Flight[3] = tail
      /\ Flight[4] = Block(want.base, want.size)
  BY DEF IInv, Stages, Live, Flight
<1>2. WellPlaced(head) /\ Round(head.size) = head.size
  BY <1>1, RoundFacts DEF IInv, Placed, WellPlaced
<1>3. Flight'[1] = head
  BY <1>2 DEF Flight, Block, IInv, TypeOK
<1>4. Flight'[2] = NoBlock /\ Flight'[3] = tail /\ Flight'[4] = Flight[4]
  BY <1>1 DEF Flight
<1>5. ~Live(Flight'[2])
  BY <1>4 DEF Live, NoBlock, Block
<1>6. TypeOK'
  BY <1>2 DEF IInv, TypeOK, NoBlock, Block, WellPlaced
<1>7. Placed'
  BY <1>1, <1>3, <1>4, <1>5 DEF IInv, Placed
<1>8. KindsApart'
  <2>1. \A b \in owned, c \in DOMAIN hdr :
          Apart(Block(c, hdr[c].size), Block(b.base, Round(b.size)))
    BY DEF IInv, KindsApart
  <2>2. \A b, c \in owned :
          b # c => Apart(Block(b.base, Round(b.size)), Block(c.base, Round(c.size)))
    BY DEF IInv, KindsApart
  <2>3. ASSUME NEW k \in 1 .. 4, Live(Flight'[k])
        PROVE  /\ \A c \in DOMAIN hdr : Apart(Block(c, hdr[c].size), Flight'[k])
               /\ \A b \in owned : Apart(Block(b.base, Round(b.size)), Flight'[k])
               /\ \A j \in 1 .. 4 : j # k /\ Live(Flight'[j])
                                      => Apart(Flight'[j], Flight'[k])
    BY <2>3, <1>1, <1>3, <1>4, <1>5 DEF IInv, KindsApart
  <2> QED BY <2>1, <2>2, <2>3 DEF KindsApart
<1>9. FreeListSorted' /\ Cursors'
  BY DEF IInv, FreeListSorted, Cursors
<1>10. Stages'
  BY <1>1, <1>2 DEF IInv, Stages, Live, NoBlock, Block
<1> QED BY <1>6, <1>7, <1>8, <1>9, <1>10 DEF IInv

(* ... then what is after it ...                                            *)
LEMMA FreeTailOK ==
  ASSUME IInv, FreeTail
  PROVE  IInv'
<1> USE DEF FreeTail, EnterFree
<1>1. Live(tail) /\ tail = Flight[3] /\ Flight[4] = Block(want.base, want.size)
  BY DEF IInv, Stages, Flight
<1>2. WellPlaced(tail) /\ Round(tail.size) = tail.size
  BY <1>1, RoundFacts DEF IInv, Placed, WellPlaced
<1>3. Flight'[1] = tail
  BY <1>2 DEF Flight, Block, IInv, TypeOK
<1>4. Flight'[2] = NoBlock /\ Flight'[3] = NoBlock /\ Flight'[4] = Flight[4]
  BY <1>1 DEF Flight
<1>5. ~Live(NoBlock)
  BY DEF Live, NoBlock, Block
<1>6. TypeOK'
  BY <1>2 DEF IInv, TypeOK, NoBlock, Block, WellPlaced
<1>7. Placed'
  BY <1>1, <1>3, <1>4, <1>5 DEF IInv, Placed
<1>8. KindsApart'
  <2>1. \A b \in owned, c \in DOMAIN hdr :
          Apart(Block(c, hdr[c].size), Block(b.base, Round(b.size)))
    BY DEF IInv, KindsApart
  <2>2. \A b, c \in owned :
          b # c => Apart(Block(b.base, Round(b.size)), Block(c.base, Round(c.size)))
    BY DEF IInv, KindsApart
  <2>3. ASSUME NEW k \in 1 .. 4, Live(Flight'[k])
        PROVE  /\ \A c \in DOMAIN hdr : Apart(Block(c, hdr[c].size), Flight'[k])
               /\ \A b \in owned : Apart(Block(b.base, Round(b.size)), Flight'[k])
               /\ \A j \in 1 .. 4 : j # k /\ Live(Flight'[j])
                                      => Apart(Flight'[j], Flight'[k])
    BY <2>3, <1>1, <1>3, <1>4, <1>5 DEF IInv, KindsApart
  <2> QED BY <2>1, <2>2, <2>3 DEF KindsApart
<1>9. FreeListSorted' /\ Cursors'
  BY DEF IInv, FreeListSorted, Cursors
<1>10. Stages'
  BY <1>1, <1>2 DEF IInv, Stages, Live, NoBlock, Block
<1> QED BY <1>6, <1>7, <1>8, <1>9, <1>10 DEF IInv

(* ... and hands the aligned block to its caller.                           *)
LEMMA AlignReturnOK ==
  ASSUME IInv, AlignReturn
  PROVE  IInv'
<1> USE DEF AlignReturn, locals
<1>1. /\ want # NoWant /\ want.size # 0 /\ want.base # NULL
      /\ want.size % MIN_CHUNK_SIZE = 0
  BY DEF IInv, Stages
<1>2. Live(Flight[4]) /\ Flight[4] = Block(want.base, want.size)
  BY <1>1 DEF Flight, Live, Block
<1>3. Round(want.size) = want.size
  BY <1>1, RoundFacts, RequestAssumption DEF IInv, TypeOK
<1>4. \A k \in 1 .. 4 : ~Live(Flight'[k])
  BY DEF Flight, Live, NoBlock, NoWant, Block
<1>5. TypeOK'
  <2>1. want.base \in Addr /\ want.size \in Requests \union AlignRequests
    BY <1>1 DEF IInv, TypeOK
  <2> QED BY <2>1 DEF IInv, TypeOK, NoWant, Block
<1>6. Placed'
  BY <1>2, <1>3, <1>4 DEF IInv, Placed, Block
<1>7. KindsApart'
  <2>1. /\ \A c \in DOMAIN hdr : Apart(Block(c, hdr[c].size), Flight[4])
        /\ \A b \in owned : Apart(Block(b.base, Round(b.size)), Flight[4])
    BY <1>2 DEF IInv, KindsApart
  <2>2. \A b \in owned : Apart(Flight[4], Block(b.base, Round(b.size)))
    BY <2>1 DEF Apart
  <2> QED BY <2>1, <2>2, <1>2, <1>3, <1>4 DEF IInv, KindsApart, Block
<1>8. FreeListSorted' /\ Cursors'
  BY DEF IInv, FreeListSorted, Cursors
<1>9. Stages'
  BY DEF IInv, Stages, NoWant, NoBlock, Block
<1> QED BY <1>5, <1>6, <1>7, <1>8, <1>9 DEF IInv

(* What pos_free finds when its walk ends: the block at hand fits between   *)
(* its two neighbours in the list.                                          *)
LEMMA GapFacts ==
  ASSUME IInv, FreeLink
  PROVE  /\ chunk \in Addr /\ chunk \in Nat \ {0} /\ n \in Nat \ {0}
         /\ chunk % 8 = 0 /\ n % 8 = 0 /\ chunk + n <= Base + Size
         /\ prev = NULL => first_free = pt
         /\ prev # NULL => /\ prev \in DOMAIN hdr /\ hdr[prev].next = pt
                           /\ prev + hdr[prev].size <= chunk
         /\ pt # NULL => pt \in DOMAIN hdr /\ chunk + n <= pt
         /\ chunk \notin DOMAIN hdr
         /\ \A c \in DOMAIN hdr : c < chunk \/ (pt # NULL /\ pt <= c)
         /\ \A c \in DOMAIN hdr : c # prev => hdr[c].next # pt \/ pt = NULL
         /\ \A c \in DOMAIN hdr : c < chunk => prev # NULL /\ c <= prev
<1> USE DEF FreeLink
<1>1. Live(Flight[1]) /\ Flight[1] = Block(chunk, n)
  BY DEF IInv, Stages, Flight, Live, Block
<1>2. WellPlaced(Block(chunk, n))
  BY <1>1 DEF IInv, Placed
<1>3. /\ chunk \in Addr /\ chunk \in Nat \ {0} /\ n \in Nat \ {0}
      /\ chunk % 8 = 0 /\ n % 8 = 0 /\ chunk + n <= Base + Size
  BY <1>2, HeapAssumption DEF WellPlaced, Block, MIN_CHUNK_SIZE, Addr
<1>4. \A c \in DOMAIN hdr : /\ c \in Nat /\ hdr[c].size \in Nat \ {0}
                            /\ hdr[c].next \in Nat
  BY HeapAssumption DEF IInv, TypeOK, Addr, NULL
<1>5. \A c \in DOMAIN hdr : c + hdr[c].size <= chunk \/ chunk + n <= c
  BY <1>1 DEF IInv, KindsApart, Apart, Block
<1>6. /\ prev = NULL => first_free = pt
      /\ prev # NULL => prev \in DOMAIN hdr /\ hdr[prev].next = pt /\ prev < chunk
  BY DEF IInv, Cursors
<1>7. pt # NULL => pt \in DOMAIN hdr
  BY <1>6 DEF IInv, FreeListSorted
<1>8. pt # NULL => chunk + n <= pt
  BY <1>3, <1>4, <1>5, <1>7
<1>9. prev # NULL => prev + hdr[prev].size <= chunk
  BY <1>3, <1>4, <1>5, <1>6
<1>s. \A c \in DOMAIN hdr :
        /\ hdr[c].next = NULL => \A d \in DOMAIN hdr : d <= c
        /\ hdr[c].next # NULL => /\ hdr[c].next \in DOMAIN hdr
                                 /\ c + hdr[c].size < hdr[c].next
                                 /\ \A d \in DOMAIN hdr : d <= c \/ hdr[c].next <= d
  BY DEF IInv, FreeListSorted
<1>10. \A c \in DOMAIN hdr : \/ prev # NULL /\ c <= prev
                             \/ pt # NULL /\ pt <= c
  <2>1. CASE prev = NULL
    BY <2>1, <1>6 DEF IInv, FreeListSorted
  <2>2. CASE prev # NULL
    BY <2>2, <1>6, <1>s
  <2> QED BY <2>1, <2>2
<1>11. \A c \in DOMAIN hdr : c < chunk \/ (pt # NULL /\ pt <= c)
  BY <1>3, <1>4, <1>6, <1>10
<1>12. \A c \in DOMAIN hdr : c < chunk => prev # NULL /\ c <= prev
  BY <1>3, <1>4, <1>7, <1>8, <1>10
<1>13. ASSUME NEW c \in DOMAIN hdr, c # prev, pt # NULL, hdr[c].next = pt
       PROVE  FALSE
  <2>1. c < pt
    BY <1>13, <1>4, <1>7, <1>s
  <2>2. prev # NULL /\ c <= prev
    BY <2>1, <1>4, <1>7, <1>10, <1>13
  <2>3. prev < pt
    BY <2>2, <1>13, <1>4, <1>6, <1>7, <1>s
  <2>4. c < prev
    BY <2>2, <1>4, <1>6, <1>13
  <2> QED BY <2>2, <2>3, <2>4, <1>13, <1>4, <1>6, <1>7, <1>s
<1>14. chunk \notin DOMAIN hdr
  BY <1>3, <1>4, <1>5
<1> QED BY <1>3, <1>6, <1>7, <1>8, <1>9, <1>11, <1>12, <1>13, <1>14

(* The free list after pos_free: the block joins the list, merged with the  *)
(* neighbours it touches.                                                   *)
LEMMA LinkOK ==
  ASSUME IInv, FreeLink
  PROVE  /\ first_free' \in Addr \union {NULL}
         /\ DOMAIN hdr' \subseteq Addr
         /\ hdr' \in [DOMAIN hdr' -> [size : 1 .. Size, next : Addr \union {NULL}]]
         /\ FreeListSorted'
         /\ \A c \in DOMAIN hdr' : WellPlaced(Block(c, hdr'[c].size))
         /\ \A b : (/\ WellPlaced(b) /\ Apart(Block(chunk, n), b)
                    /\ \A c \in DOMAIN hdr : Apart(Block(c, hdr[c].size), b))
                   => \A c \in DOMAIN hdr' : Apart(Block(c, hdr'[c].size), b)
         /\ \A x \in Int :
              Within(x, Block(chunk, n))
              \/ (\E c \in DOMAIN hdr : Within(x, Block(c, hdr[c].size)))
              => \E d \in DOMAIN hdr' : Within(x, Block(d, hdr'[d].size))
<1> DEFINE mN == pt # NULL /\ chunk + n = pt
           mP == prev # NULL /\ prev + hdr[prev].size = chunk
           s1 == IF mN THEN n + hdr[pt].size ELSE n
           nx == IF mN THEN hdr[pt].next ELSE pt
           D0 == IF mN THEN DOMAIN hdr \ {pt} ELSE DOMAIN hdr
           withNext == IF mN THEN SetHdr(DropHdr(hdr, {pt}), chunk, s1, nx)
                       ELSE SetHdr(hdr, chunk, s1, nx)
<1>0. /\ chunk \in Addr /\ chunk \in Nat \ {0} /\ n \in Nat \ {0}
      /\ chunk % 8 = 0 /\ n % 8 = 0 /\ chunk + n <= Base + Size
      /\ prev = NULL => first_free = pt
      /\ prev # NULL => /\ prev \in DOMAIN hdr /\ hdr[prev].next = pt
                        /\ prev + hdr[prev].size <= chunk
      /\ pt # NULL => pt \in DOMAIN hdr /\ chunk + n <= pt
      /\ chunk \notin DOMAIN hdr
      /\ \A c \in DOMAIN hdr : c < chunk \/ (pt # NULL /\ pt <= c)
      /\ \A c \in DOMAIN hdr : c # prev => hdr[c].next # pt \/ pt = NULL
      /\ \A c \in DOMAIN hdr : c < chunk => prev # NULL /\ c <= prev
  BY GapFacts
<1>1. /\ DOMAIN hdr \subseteq Addr
      /\ \A c \in DOMAIN hdr : /\ c \in Nat /\ hdr[c].size \in Nat \ {0}
                               /\ hdr[c].size \in 1 .. Size
                               /\ hdr[c].next \in Nat /\ hdr[c].next \in Addr \union {NULL}
                               /\ c % 8 = 0 /\ hdr[c].size % 8 = 0
                               /\ c + hdr[c].size <= Base + Size
  BY HeapAssumption DEF IInv, TypeOK, Placed, WellPlaced, Block, Addr, NULL, MIN_CHUNK_SIZE
<1>s. \A c \in DOMAIN hdr :
        /\ hdr[c].next = NULL => \A d \in DOMAIN hdr : d <= c
        /\ hdr[c].next # NULL => /\ hdr[c].next \in DOMAIN hdr
                                 /\ c + hdr[c].size < hdr[c].next
                                 /\ \A d \in DOMAIN hdr : d <= c \/ hdr[c].next <= d
  BY DEF IInv, FreeListSorted
<1>2. withNext = [c \in D0 \union {chunk} |->
                    IF c = chunk THEN [size |-> s1, next |-> nx] ELSE hdr[c]]
  BY <1>0 DEF SetHdr, DropHdr
<1>3. /\ mP => /\ hdr' = SetHdr(DropHdr(withNext, {chunk}), prev,
                                hdr[prev].size + s1, nx)
               /\ first_free' = first_free
      /\ ~mP => Relink(withNext, chunk)
  BY <1>2 DEF FreeLink
<1>4. /\ s1 \in Nat \ {0} /\ s1 % 8 = 0 /\ chunk + s1 <= Base + Size
      /\ nx \in Addr \union {NULL} /\ nx \in Nat
  <2>1. CASE mN
    <3>1. pt \in DOMAIN hdr /\ pt = chunk + n /\ s1 = n + hdr[pt].size /\ nx = hdr[pt].next
      BY <2>1, <1>0
    <3>2. /\ hdr[pt].size \in Nat \ {0} /\ hdr[pt].size % 8 = 0
          /\ pt + hdr[pt].size <= Base + Size
      BY <3>1, <1>1
    <3>3. s1 \in Nat \ {0} /\ s1 % 8 = 0 /\ chunk + s1 = pt + hdr[pt].size
      BY <3>1, <3>2, <1>0
    <3> QED BY <3>1, <3>2, <3>3, <1>1
  <2>2. CASE ~mN
    <3>1. pt \in Addr \union {NULL} /\ pt \in Nat
      BY HeapAssumption DEF IInv, TypeOK, NULL, Addr
    <3> QED BY <2>2, <3>1, <1>0
  <2> QED BY <2>1, <2>2
<1>5. D0 \subseteq DOMAIN hdr /\ (prev # NULL => prev \in D0)
  BY <1>0, <1>1
<1>6. /\ nx = NULL => \A d \in D0 : d < chunk
      /\ nx # NULL => /\ nx \in D0 /\ chunk + s1 < nx
                      /\ \A d \in D0 : d < chunk \/ nx <= d
  BY <1>0, <1>1, <1>s
<1>7. \A c \in D0 : c # prev =>
        /\ hdr[c].next = NULL => \A d \in D0 : d <= c
        /\ hdr[c].next # NULL => /\ hdr[c].next \in D0
                                 /\ c + hdr[c].size < hdr[c].next
                                 /\ \A d \in D0 : d <= c \/ hdr[c].next <= d
  BY <1>0, <1>1, <1>s, <1>5
<1>8. \A c \in D0 : c < chunk => prev # NULL /\ c <= prev
  BY <1>0, <1>5
<1>9. ASSUME NEW b, WellPlaced(b), Apart(Block(chunk, n), b),
             \A c \in DOMAIN hdr : Apart(Block(c, hdr[c].size), b)
      PROVE  Apart(Block(chunk, s1), b)
  <2>1. CASE mN
    <3>1. Apart(Block(pt, hdr[pt].size), b)
      BY <1>9, <1>0, <2>1
    <3> QED BY <3>1, <1>9, <1>0, <1>1, <2>1, HeapAssumption
            DEF WellPlaced, Apart, Block, Addr
  <2>2. CASE ~mN
    BY <1>9, <2>2
  <2> QED BY <2>1, <2>2
<1>a. D0 \subseteq Addr /\ Size \in Nat /\ Base \in Nat /\ chunk \in Base .. (Base + Size - 1)
  BY <1>0, <1>1, <1>5, HeapAssumption DEF Addr
<1>b. ASSUME NEW x \in Int,
             Within(x, Block(chunk, n)) \/ \E c \in DOMAIN hdr : Within(x, Block(c, hdr[c].size))
      PROVE  Within(x, Block(chunk, s1)) \/ \E c \in D0 : Within(x, Block(c, hdr[c].size))
  <2>1. CASE Within(x, Block(chunk, n))
    BY <2>1, <1>0, <1>1 DEF Within, Block
  <2>2. CASE \E c \in DOMAIN hdr : Within(x, Block(c, hdr[c].size))
    <3>1. PICK c \in DOMAIN hdr : Within(x, Block(c, hdr[c].size))
      BY <2>2
    <3>2. CASE c \in D0
      BY <3>1, <3>2
    <3>3. CASE c \notin D0
      BY <3>1, <3>3, <1>0, <1>1 DEF Within, Block
    <3> QED BY <3>2, <3>3
  <2> QED BY <1>b, <2>1, <2>2
<1> HIDE DEF s1, nx, D0, withNext, mN
<1>11. CASE mP
  <2> DEFINE S == hdr[prev].size + s1
  <2>1. /\ prev # NULL /\ prev \in D0 /\ prev \in DOMAIN hdr /\ prev # chunk
        /\ prev + hdr[prev].size = chunk
        /\ S \in 1 .. Size /\ S \in Nat \ {0} /\ S % 8 = 0 /\ prev + S = chunk + s1
        /\ prev \in Addr
    <3>1. /\ prev # NULL /\ prev \in D0 /\ prev \in DOMAIN hdr /\ prev # chunk
          /\ prev + hdr[prev].size = chunk
      BY <1>11, <1>0, <1>5
    <3>2. /\ prev \in Nat /\ prev >= Base /\ prev \in Addr
          /\ hdr[prev].size \in Nat \ {0} /\ hdr[prev].size % 8 = 0
      BY <3>1, <1>1, <1>a, HeapAssumption DEF Addr
    <3>3. S \in Nat \ {0} /\ S % 8 = 0
      BY <3>2, <1>4
    <3>4. prev + S = chunk + s1
      BY <3>1, <3>2, <1>4
    <3>5. S <= Size
      BY <3>2, <3>3, <3>4, <1>0, <1>4, <1>a
    <3> QED BY <3>1, <3>2, <3>3, <3>4, <3>5, <1>a
  <2>2. hdr' = [c \in D0 |-> IF c = prev THEN [size |-> S, next |-> nx] ELSE hdr[c]]
    BY <1>11, <1>0, <1>2, <1>3, <1>5, <2>1 DEF SetHdr, DropHdr
  <2>3. first_free' = first_free
    BY <1>3, <1>11
  <2> HIDE DEF S
  <2>4. /\ DOMAIN hdr' = D0
        /\ hdr'[prev] = [size |-> S, next |-> nx]
        /\ \A c \in D0 : c # prev => hdr'[c] = hdr[c]
    BY <2>1, <2>2
  <2>5. hdr' \in [DOMAIN hdr' -> [size : 1 .. Size, next : Addr \union {NULL}]]
    <3>1. \A c \in D0 : hdr'[c] \in [size : 1 .. Size, next : Addr \union {NULL}]
      <4> TAKE c \in D0
      <4>1. CASE c = prev
        BY <4>1, <2>1, <2>4, <1>4
      <4>2. CASE c # prev
        BY <4>2, <2>4, <1>5 DEF IInv, TypeOK
      <4> QED BY <4>1, <4>2
    <3>2. hdr' = [c \in DOMAIN hdr' |-> hdr'[c]]
      BY <2>2
    <3> QED BY <3>1, <3>2, <2>4
  <2>6. FreeListSorted'
    <3>1. /\ first_free' # NULL /\ first_free' \in DOMAIN hdr'
          /\ \A c \in DOMAIN hdr' : first_free' <= c
      <4>1. first_free # NULL /\ first_free \in DOMAIN hdr /\ \A c \in DOMAIN hdr : first_free <= c
        BY <2>1 DEF IInv, FreeListSorted
      <4>2. first_free <= prev /\ prev < chunk
        BY <4>1, <2>1, <1>1, <1>0
      <4>3. first_free \in D0
        BY <4>1, <4>2, <1>0, <1>1, <2>1 DEF D0, mN
      <4> QED BY <4>1, <4>3, <2>3, <2>4, <1>5
    <3>2. ASSUME NEW c \in DOMAIN hdr'
          PROVE  IF hdr'[c].next = NULL
                   THEN \A d \in DOMAIN hdr' : d <= c
                   ELSE /\ hdr'[c].next \in DOMAIN hdr'
                        /\ c + hdr'[c].size < hdr'[c].next
                        /\ \A d \in DOMAIN hdr' : d <= c \/ hdr'[c].next <= d
      <4>1. CASE c = prev
        <5>1. hdr'[c].next = nx /\ hdr'[c].size = S
          BY <4>1, <2>4
        <5> QED BY <4>1, <5>1, <1>0, <1>1, <1>4, <1>5, <1>6, <1>8, <2>1, <2>4
      <4>2. CASE c # prev
        <5>1. hdr'[c] = hdr[c] /\ c \in D0
          BY <4>2, <3>2, <2>4
        <5> QED BY <4>2, <5>1, <1>7, <2>4
      <4> QED BY <4>1, <4>2
    <3> QED BY <3>1, <3>2 DEF FreeListSorted
  <2>7. \A c \in DOMAIN hdr' : WellPlaced(Block(c, hdr'[c].size))
    <3> TAKE c \in DOMAIN hdr'
    <3>1. CASE c = prev
      <4>1. hdr'[c].size = S
        BY <3>1, <2>4
      <4> QED BY <3>1, <4>1, <1>1, <1>4, <2>1 DEF WellPlaced, Block, MIN_CHUNK_SIZE
    <3>2. CASE c # prev
      BY <3>2, <2>4, <1>5 DEF IInv, Placed
    <3> QED BY <3>1, <3>2
  <2>8. ASSUME NEW b, WellPlaced(b), Apart(Block(chunk, n), b),
               \A c \in DOMAIN hdr : Apart(Block(c, hdr[c].size), b),
               NEW c \in DOMAIN hdr'
        PROVE  Apart(Block(c, hdr'[c].size), b)
    <3>1. CASE c = prev
      <4>1. hdr'[c].size = S
        BY <3>1, <2>4
      <4>2. Apart(Block(chunk, s1), b)
        BY <2>8, <1>9
      <4>3. Apart(Block(prev, hdr[prev].size), b)
        BY <2>8, <2>1
      <4> QED BY <3>1, <4>1, <4>2, <4>3, <2>8, <1>0, <1>1, <1>4, <2>1, HeapAssumption
              DEF WellPlaced, Apart, Block, Addr
    <3>2. CASE c # prev
      BY <3>2, <2>4, <2>8, <1>5
    <3> QED BY <3>1, <3>2
  <2>9. first_free' \in Addr \union {NULL} /\ DOMAIN hdr' \subseteq Addr
    BY <2>3, <2>4, <1>a DEF IInv, TypeOK
  <2>10. ASSUME NEW x \in Int,
                Within(x, Block(chunk, n)) \/ \E c \in DOMAIN hdr : Within(x, Block(c, hdr[c].size))
         PROVE  \E d \in DOMAIN hdr' : Within(x, Block(d, hdr'[d].size))
    <3>1. prev \in DOMAIN hdr' /\ hdr'[prev].size = S
      BY <2>1, <2>4
    <3>2. CASE Within(x, Block(chunk, s1)) \/ Within(x, Block(prev, hdr[prev].size))
      <4>1. Within(x, Block(prev, S))
        BY <3>2, <2>1, <1>0, <1>1, <1>4 DEF Within, Block
      <4> QED BY <4>1, <3>1
    <3>3. CASE \E c \in D0 : c # prev /\ Within(x, Block(c, hdr[c].size))
      BY <3>3, <2>4
    <3> QED BY <2>10, <3>2, <3>3, <1>b
  <2> QED BY <2>5, <2>6, <2>7, <2>8, <2>9, <2>10
<1>12. CASE ~mP
  <2>0. prev # NULL => prev + hdr[prev].size < chunk /\ prev \in D0 /\ prev # chunk
    BY <1>12, <1>0, <1>1, <1>5
  <2>1. DOMAIN withNext = D0 \union {chunk} /\ chunk \notin D0
    BY <1>0, <1>2, <1>5
  <2>2. /\ first_free' = IF prev = NULL THEN chunk ELSE first_free
        /\ hdr' = IF prev = NULL THEN withNext
                  ELSE SetHdr(withNext, prev, withNext[prev].size, chunk)
    BY <1>3, <1>12 DEF Relink
  <2>3. /\ DOMAIN hdr' = D0 \union {chunk}
        /\ hdr' = [c \in DOMAIN hdr' |-> hdr'[c]]
        /\ hdr'[chunk] = [size |-> s1, next |-> nx]
        /\ prev # NULL => hdr'[prev] = [size |-> hdr[prev].size, next |-> chunk]
        /\ \A c \in D0 : c # prev => hdr'[c] = hdr[c]
    <3>1. CASE prev = NULL
      <4>1. hdr' = withNext
        BY <3>1, <2>2
      <4> QED BY <3>1, <4>1, <2>1, <1>2
    <3>2. CASE prev # NULL
      <4>1. hdr' = [c \in D0 \union {chunk} |->
                      IF c = prev THEN [size |-> withNext[prev].size, next |-> chunk]
                      ELSE withNext[c]]
        BY <3>2, <2>0, <2>1, <2>2 DEF SetHdr
      <4>2. withNext[prev] = hdr[prev]
        BY <3>2, <2>0, <1>2
      <4> QED BY <3>2, <4>1, <4>2, <2>0, <2>1, <1>2
    <3> QED BY <3>1, <3>2
  <2>4. hdr' \in [DOMAIN hdr' -> [size : 1 .. Size, next : Addr \union {NULL}]]
    <3>1. s1 \in 1 .. Size
      BY <1>4, <1>a
    <3>2. \A c \in D0 \union {chunk} :
            hdr'[c] \in [size : 1 .. Size, next : Addr \union {NULL}]
      <4> TAKE c \in D0 \union {chunk}
      <4>1. CASE c = chunk
        BY <4>1, <3>1, <2>3, <1>4
      <4>2. CASE c # chunk /\ c = prev
        <5>1. prev # NULL
          BY <4>2, <1>0, <1>a, <1>5, HeapAssumption DEF NULL, Addr
        <5> QED BY <4>2, <5>1, <2>3, <1>0, <1>1
      <4>3. CASE c # chunk /\ c # prev
        BY <4>3, <2>3, <1>5 DEF IInv, TypeOK
      <4> QED BY <4>1, <4>2, <4>3
    <3> QED BY <3>2, <2>3
  <2>5. FreeListSorted'
    <3>1. /\ first_free' # NULL /\ first_free' \in DOMAIN hdr'
          /\ \A c \in DOMAIN hdr' : first_free' <= c
      <4>1. CASE prev = NULL
        <5>1. \A c \in D0 : chunk < c
          BY <4>1, <1>0, <1>1, <1>5, <1>8
        <5> QED BY <4>1, <5>1, <1>0, <1>1, <1>5, <2>2, <2>3, HeapAssumption DEF NULL
      <4>2. CASE prev # NULL
        <5>1. first_free # NULL /\ first_free \in DOMAIN hdr /\ \A c \in DOMAIN hdr : first_free <= c
          BY <4>2, <1>0 DEF IInv, FreeListSorted
        <5>2. first_free <= prev /\ prev < chunk
          BY <5>1, <4>2, <2>0, <1>1, <1>0
        <5>3. first_free \in D0
          BY <5>1, <5>2, <4>2, <1>0, <1>1 DEF D0, mN
        <5> QED BY <4>2, <5>1, <5>2, <5>3, <1>0, <1>1, <1>5, <2>2, <2>3
      <4> QED BY <4>1, <4>2
    <3>2. ASSUME NEW c \in DOMAIN hdr'
          PROVE  IF hdr'[c].next = NULL
                   THEN \A d \in DOMAIN hdr' : d <= c
                   ELSE /\ hdr'[c].next \in DOMAIN hdr'
                        /\ c + hdr'[c].size < hdr'[c].next
                        /\ \A d \in DOMAIN hdr' : d <= c \/ hdr'[c].next <= d
      <4>1. CASE c = chunk
        <5>1. hdr'[c].next = nx /\ hdr'[c].size = s1
          BY <4>1, <2>3
        <5> QED BY <4>1, <5>1, <1>0, <1>1, <1>4, <1>5, <1>6, <2>3
      <4>2. CASE c # chunk /\ c = prev
        <5>1. /\ prev # NULL
          BY <4>2, <3>2, <2>3, <1>0, <1>a, <1>5, HeapAssumption DEF NULL, Addr
        <5>2. hdr'[c].next = chunk /\ hdr'[c].size = hdr[prev].size
          BY <4>2, <5>1, <2>3
        <5>3. chunk # NULL
          BY <1>0 DEF NULL
        <5> QED BY <4>2, <5>1, <5>2, <5>3, <1>0, <1>1, <1>5, <1>8, <2>0, <2>3
      <4>3. CASE c # chunk /\ c # prev
        <5>1. hdr'[c] = hdr[c] /\ c \in D0
          BY <4>3, <3>2, <2>3
        <5>2. c < chunk => prev # NULL /\ c < prev
          BY <5>1, <4>3, <1>0, <1>1, <1>5, <1>8
        <5>3. c < chunk => hdr[c].next # NULL /\ hdr[c].next <= prev
          BY <5>1, <5>2, <1>1, <1>5, <1>7, <2>0, <4>3
        <5> QED BY <4>3, <5>1, <5>2, <5>3, <1>0, <1>1, <1>5, <1>7, <2>0, <2>3
      <4> QED BY <4>1, <4>2, <4>3
    <3> QED BY <3>1, <3>2 DEF FreeListSorted
  <2>6. \A c \in DOMAIN hdr' : c # chunk => c \in DOMAIN hdr /\ hdr'[c].size = hdr[c].size
    <3> SUFFICES ASSUME NEW c \in D0 PROVE c \in DOMAIN hdr /\ hdr'[c].size = hdr[c].size
      BY <2>3
    <3>1. CASE c = prev
      <4>1. prev # NULL
        BY <3>1, <1>a, HeapAssumption DEF NULL, Addr
      <4> QED BY <3>1, <4>1, <1>0, <2>3
    <3>2. CASE c # prev
      BY <3>2, <2>3, <1>5
    <3> QED BY <3>1, <3>2
  <2>7. \A c \in DOMAIN hdr' : WellPlaced(Block(c, hdr'[c].size))
    <3> TAKE c \in DOMAIN hdr'
    <3>1. CASE c = chunk
      <4>1. hdr'[c].size = s1
        BY <3>1, <2>3
      <4> QED BY <3>1, <4>1, <1>0, <1>4 DEF WellPlaced, Block, MIN_CHUNK_SIZE
    <3>2. CASE c # chunk
      BY <3>2, <2>6 DEF IInv, Placed
    <3> QED BY <3>1, <3>2
  <2>8. ASSUME NEW b, WellPlaced(b), Apart(Block(chunk, n), b),
               \A c \in DOMAIN hdr : Apart(Block(c, hdr[c].size), b),
               NEW c \in DOMAIN hdr'
        PROVE  Apart(Block(c, hdr'[c].size), b)
    <3>1. CASE c = chunk
      <4>1. hdr'[c].size = s1
        BY <3>1, <2>3
      <4> QED BY <3>1, <4>1, <2>8, <1>9
    <3>2. CASE c # chunk
      BY <3>2, <2>6, <2>8
    <3> QED BY <3>1, <3>2
  <2>9. first_free' \in Addr \union {NULL} /\ DOMAIN hdr' \subseteq Addr
    BY <2>2, <2>3, <1>0, <1>a DEF IInv, TypeOK
  <2>10. ASSUME NEW x \in Int,
                Within(x, Block(chunk, n)) \/ \E c \in DOMAIN hdr : Within(x, Block(c, hdr[c].size))
         PROVE  \E d \in DOMAIN hdr' : Within(x, Block(d, hdr'[d].size))
    <3>1. chunk \in DOMAIN hdr' /\ hdr'[chunk].size = s1
      BY <2>3
    <3>2. \A c \in D0 : c \in DOMAIN hdr' /\ c # chunk
      BY <2>1, <2>3
    <3>3. \A c \in D0 : hdr'[c].size = hdr[c].size
      BY <3>2, <2>6
    <3> QED BY <2>10, <3>1, <3>2, <3>3, <1>b
  <2> QED BY <2>4, <2>5, <2>7, <2>8, <2>9, <2>10
<1> QED BY <1>11, <1>12

(* pos_free ends: the block is free, everything else stays apart from it.   *)
LEMMA FreeLinkOK ==
  ASSUME IInv, FreeLink
  PROVE  IInv'
<1>1. /\ first_free' \in Addr \union {NULL}
      /\ DOMAIN hdr' \subseteq Addr
      /\ hdr' \in [DOMAIN hdr' -> [size : 1 .. Size, next : Addr \union {NULL}]]
      /\ FreeListSorted'
      /\ \A c \in DOMAIN hdr' : WellPlaced(Block(c, hdr'[c].size))
  BY LinkOK
<1>2. ASSUME NEW b, WellPlaced(b), Apart(Block(chunk, n), b),
             \A c \in DOMAIN hdr : Apart(Block(c, hdr[c].size), b),
             NEW c \in DOMAIN hdr'
      PROVE  Apart(Block(c, hdr'[c].size), b)
  BY <1>2, LinkOK
<1>3. /\ pc = "free" /\ n' = 0 /\ prev' = NULL /\ pt' = NULL /\ chunk' = NULL
      /\ owned' = owned /\ want' = want /\ head' = head /\ tail' = tail
      /\ pc' = IF want = NoWant THEN "idle" ELSE "align"
  BY DEF FreeLink
<1>4. Live(Flight[1]) /\ Flight[1] = Block(chunk, n)
  BY <1>3 DEF IInv, Stages, Flight, Live, Block
<1>5. /\ ~Live(Flight'[1])
      /\ \A k \in 2 .. 4 : Flight'[k] = Flight[k]
  <2>1. Flight'[1] = NoBlock
    BY <1>3 DEF Flight
  <2>2. Flight'[2] = Flight[2] /\ Flight'[3] = Flight[3] /\ Flight'[4] = Flight[4]
    BY <1>3 DEF Flight
  <2> QED BY <2>1, <2>2 DEF Live, NoBlock, Block
<1>6. TypeOK'
  BY <1>1, <1>3 DEF IInv, TypeOK
<1>7. Placed'
  BY <1>1, <1>3, <1>5 DEF IInv, Placed
<1>8. KindsApart'
  <2>1. ASSUME NEW c \in DOMAIN hdr', NEW b \in owned
        PROVE  Apart(Block(c, hdr'[c].size), Block(b.base, Round(b.size)))
    <3>1. WellPlaced(Block(b.base, Round(b.size)))
      BY DEF IInv, Placed
    <3>2. Apart(Block(chunk, n), Block(b.base, Round(b.size)))
      BY <1>4 DEF IInv, KindsApart, Apart
    <3>3. \A d \in DOMAIN hdr : Apart(Block(d, hdr[d].size), Block(b.base, Round(b.size)))
      BY DEF IInv, KindsApart
    <3> QED BY <3>1, <3>2, <3>3, <1>2
  <2>2. ASSUME NEW c \in DOMAIN hdr', NEW k \in 2 .. 4, Live(Flight[k])
        PROVE  Apart(Block(c, hdr'[c].size), Flight[k])
    <3>1. WellPlaced(Flight[k])
      BY <2>2 DEF IInv, Placed
    <3>2. Apart(Block(chunk, n), Flight[k])
      BY <2>2, <1>4 DEF IInv, KindsApart
    <3>3. \A d \in DOMAIN hdr : Apart(Block(d, hdr[d].size), Flight[k])
      BY <2>2 DEF IInv, KindsApart
    <3> QED BY <3>1, <3>2, <3>3, <1>2
  <2>3. ASSUME NEW k \in 1 .. 4, Live(Flight'[k])
        PROVE  /\ \A c \in DOMAIN hdr' : Apart(Block(c, hdr'[c].size), Flight'[k])
               /\ \A b \in owned : Apart(Block(b.base, Round(b.size)), Flight'[k])
               /\ \A j \in 1 .. 4 : j # k /\ Live(Flight'[j])
                                      => Apart(Flight'[j], Flight'[k])
    <3>1. k \in 2 .. 4 /\ Flight'[k] = Flight[k] /\ Live(Flight[k])
      BY <2>3, <1>5
    <3> QED BY <3>1, <2>2, <1>5 DEF IInv, KindsApart
  <2> QED BY <2>1, <2>3, <1>3 DEF IInv, KindsApart
<1>9. Cursors' /\ Stages'
  BY <1>3 DEF IInv, Cursors, Stages
<1> QED BY <1>1, <1>6, <1>7, <1>8, <1>9 DEF IInv

-----------------------------------------------------------------------------
(* The invariant is inductive: every action of the allocator preserves it.  *)
THEOREM Inductive ==
  ASSUME SaneRequests
  PROVE  Spec => []IInv
<1>1. IInv /\ [Next]_vars => IInv'
  <2> SUFFICES ASSUME IInv, [Next]_vars PROVE IInv'
    OBVIOUS
  <2>1. CASE Call
    <3>1. ASSUME NEW s \in Requests, PosAlloc(s) PROVE IInv'
      <4>1. s \in Nat \ {0}
        BY RequestAssumption DEF SaneRequests
      <4>2. /\ pc = "idle" /\ EnterAlloc(s)
            /\ want' = [base |-> NULL, size |-> s, align |-> 0]
        BY <3>1 DEF PosAlloc
      <4> QED BY <4>1, <4>2, EnterAllocOK
    <3>2. ASSUME NEW s \in AlignRequests, NEW a \in Aligns, PosAllocAlign(s, a)
          PROVE  IInv'
      <4>1. s \in Nat \ {0} /\ a \in Nat \ {0}
        BY RequestAssumption, AlignAssumption DEF SaneRequests
      <4>2. CASE a < MIN_CHUNK_SIZE
        <5>1. /\ pc = "idle" /\ EnterAlloc(s)
              /\ want' = [base |-> NULL, size |-> s, align |-> 0]
          BY <3>2, <4>2 DEF PosAllocAlign
        <5> QED BY <4>1, <5>1, EnterAllocOK
      <4>3. CASE ~(a < MIN_CHUNK_SIZE)
        <5>1. /\ pc = "idle" /\ EnterAlloc(SizeAlign(s, a))
              /\ want' = [base |-> NULL, size |-> s, align |-> a]
          BY <3>2, <4>3 DEF PosAllocAlign
        <5>2. SizeAlign(s, a) \in Nat /\ a >= MIN_CHUNK_SIZE
          BY <4>1, <4>3 DEF SizeAlign, MIN_CHUNK_SIZE
        <5> QED BY <4>1, <5>1, <5>2, EnterAllocOK
      <4> QED BY <4>2, <4>3
    <3>3. ASSUME NEW b \in owned, PosFree(b) PROVE IInv'
      BY <3>3, PosFreeOK
    <3> QED BY <2>1, <3>1, <3>2, <3>3 DEF Call
  <2>2. CASE AllocScan \/ FreeScan
    BY <2>2, ScanOK
  <2>3. CASE AllocFail
    BY <2>3, AllocFailOK
  <2>4. CASE AllocExact \/ AllocSplit
    BY <2>4, AllocDoneOK
  <2>5. CASE FreeHead
    BY <2>5, FreeHeadOK
  <2>6. CASE FreeTail
    BY <2>6, FreeTailOK
  <2>7. CASE AlignReturn
    BY <2>7, AlignReturnOK
  <2>8. CASE FreeLink
    BY <2>8, FreeLinkOK
  <2>9. CASE UNCHANGED vars
    <3>1. Flight' = Flight
      BY <2>9 DEF vars, Flight
    <3>2. TypeOK' /\ FreeListSorted' /\ Cursors' /\ Stages'
      BY <2>9 DEF vars, IInv, TypeOK, FreeListSorted, Cursors, Stages
    <3>3. Placed' /\ KindsApart'
      BY <2>9, <3>1 DEF vars, IInv, Placed, KindsApart
    <3> QED BY <3>2, <3>3 DEF IInv
  <2> QED BY <2>1, <2>2, <2>3, <2>4, <2>5, <2>6, <2>7, <2>8, <2>9 DEF Next, Step
<1> QED BY <1>1, InitOK, PTL DEF Spec

(* Every variable keeps its type.                                           *)
THEOREM TypeCorrect ==
  ASSUME SaneRequests
  PROVE  Spec => []TypeOK
<1>1. IInv => TypeOK
  BY DEF IInv
<1> QED BY <1>1, Inductive, PTL

(* Following next visits the free blocks in address order, none twice, none *)
(* missed, and no two of them touch.                                        *)
THEOREM ListSorted ==
  ASSUME SaneRequests
  PROVE  Spec => []FreeListSorted
<1>1. IInv => FreeListSorted
  BY DEF IInv
<1> QED BY <1>1, Inductive, PTL

(* No byte of the heap is in two blocks, be they free, with a caller or in  *)
(* the hands of the call in progress.                                       *)
THEOREM BlocksApart ==
  ASSUME SaneRequests
  PROVE  Spec => []NoOverlap
<1>1. IInv => NoOverlap
  <2> SUFFICES ASSUME IInv PROVE NoOverlap
    OBVIOUS
  <2>1. \A b, c : Apart(b, c) => Apart(c, b)
    BY DEF Apart
  <2>2. \A b, c \in FreeBlocks : b # c => Apart(b, c)
    <3> SUFFICES ASSUME NEW c \in DOMAIN hdr, NEW d \in DOMAIN hdr,
                        Block(c, hdr[c].size) # Block(d, hdr[d].size)
                 PROVE  Apart(Block(c, hdr[c].size), Block(d, hdr[d].size))
      BY DEF FreeBlocks
    <3>1. c # d /\ c \in Int /\ d \in Int /\ hdr[c].size \in Int /\ hdr[d].size \in Int
      BY HeapAssumption DEF IInv, TypeOK, Addr
    <3> QED BY <3>1, SortedApart DEF IInv, Apart, Block
  <2>3. \A b \in FreeBlocks, c \in OwnedBlocks : Apart(b, c)
    BY DEF IInv, KindsApart, FreeBlocks, OwnedBlocks
  <2>4. \A b, c \in OwnedBlocks : b # c => Apart(b, c)
    BY DEF IInv, KindsApart, OwnedBlocks
  <2>5. \A b \in InFlight : \E k \in 1 .. 4 : b = Flight[k] /\ Live(Flight[k])
    BY DEF InFlight
  <2>6. \A b \in FreeBlocks, c \in InFlight : Apart(b, c)
    BY <2>5 DEF IInv, KindsApart, FreeBlocks
  <2>7. \A b \in OwnedBlocks, c \in InFlight : Apart(b, c)
    BY <2>5 DEF IInv, KindsApart, OwnedBlocks
  <2>8. \A b, c \in InFlight : b # c => Apart(b, c)
    BY <2>5 DEF IInv, KindsApart
  <2> QED BY <2>1, <2>2, <2>3, <2>4, <2>6, <2>7, <2>8 DEF NoOverlap
<1> QED BY <1>1, Inductive, PTL

-----------------------------------------------------------------------------
(* No byte is lost.                                                         *)
Pieces == FreeBlocks \union OwnedBlocks \union InFlight
Covers == \A x \in Addr : \E b \in Pieces : Within(x, b)

LEMMA CoversInit == Init => Covers
<1> SUFFICES ASSUME Init PROVE Covers
  OBVIOUS
<1>1. DOMAIN hdr = {Base} /\ hdr[Base].size = Size
  BY DEF Init
<1>2. Block(Base, Size) \in Pieces
  BY <1>1 DEF Pieces, FreeBlocks
<1>3. \A x \in Addr : Within(x, Block(Base, Size))
  BY HeapAssumption DEF Addr, Within, Block
<1> QED BY <1>2, <1>3 DEF Covers

(* The blocks passed on from hand to hand unchanged are still there.        *)
LEMMA CoversKept ==
  ASSUME Covers, hdr' = hdr, owned' = owned,
         \A k \in 1 .. 4 : Live(Flight[k]) => \E j \in 1 .. 4 : Flight'[j] = Flight[k]
  PROVE  Covers'
<1>1. FreeBlocks' = FreeBlocks /\ OwnedBlocks' = OwnedBlocks
  BY DEF FreeBlocks, OwnedBlocks
<1>2. InFlight \subseteq InFlight'
  BY DEF InFlight
<1> QED BY <1>1, <1>2 DEF Covers, Pieces

LEMMA CoversFree ==
  ASSUME IInv, Covers, SaneRequests, NEW b \in owned, PosFree(b)
  PROVE  Covers'
<1>1. WellPlaced(Block(b.base, Round(b.size)))
  BY DEF IInv, Placed
<1>2. Flight'[1] = Block(b.base, Round(b.size)) /\ Live(Flight'[1])
  BY <1>1, HeapAssumption DEF PosFree, EnterFree, Flight, Live, WellPlaced, Block, Addr, NULL
<1>3. Block(b.base, Round(b.size)) \in InFlight'
  BY <1>2 DEF InFlight
<1>4. FreeBlocks' = FreeBlocks
  BY DEF PosFree, EnterFree, FreeBlocks
<1>5. OwnedBlocks \subseteq OwnedBlocks' \union InFlight'
  BY <1>3 DEF PosFree, OwnedBlocks
<1>6. InFlight = {}
  <2>1. pc = "idle" /\ want = NoWant /\ head.size = 0 /\ tail = NoBlock
    BY DEF IInv, Stages, PosFree
  <2> QED BY <2>1 DEF InFlight, Live, Flight, NoBlock, NoWant, Block
<1> QED BY <1>4, <1>5, <1>6 DEF Covers, Pieces

LEMMA CoversAlignReturn ==
  ASSUME IInv, Covers, AlignReturn
  PROVE  Covers'
<1>1. /\ want.size % MIN_CHUNK_SIZE = 0 /\ want.size \in Nat /\ head.size = 0 /\ tail = NoBlock
      /\ pc = "align" /\ hdr' = hdr /\ owned' = owned \union {Block(want.base, want.size)}
  BY RequestAssumption DEF IInv, Stages, TypeOK, AlignReturn
<1>2. Round(want.size) = want.size
  BY <1>1, RoundFacts
<1>3. InFlight \subseteq {Block(want.base, want.size)}
  BY <1>1 DEF InFlight, Live, Flight, NoBlock, Block
<1>4. Block(want.base, want.size) \in OwnedBlocks'
  BY <1>1, <1>2 DEF OwnedBlocks, Block
<1>5. OwnedBlocks \subseteq OwnedBlocks' /\ FreeBlocks' = FreeBlocks
  BY <1>1 DEF OwnedBlocks, FreeBlocks
<1> QED BY <1>3, <1>4, <1>5 DEF Covers, Pieces

LEMMA CoversLink ==
  ASSUME IInv, Covers, FreeLink
  PROVE  Covers'
<1>1. /\ pc = "free" /\ owned' = owned /\ want' = want /\ head' = head /\ tail' = tail
      /\ Flight[1] = Block(chunk, n)
  BY DEF FreeLink, Flight
<1>2. OwnedBlocks' = OwnedBlocks
  BY <1>1 DEF OwnedBlocks
<1>3. \A b \in InFlight : b = Block(chunk, n) \/ b \in InFlight'
  <2>1. \A k \in 2 .. 4 : Flight'[k] = Flight[k]
    <3>1. Flight'[2] = Flight[2] /\ Flight'[3] = Flight[3] /\ Flight'[4] = Flight[4]
      BY <1>1 DEF Flight
    <3> QED BY <3>1
  <2> QED BY <1>1, <2>1 DEF InFlight
<1>4. ASSUME NEW x \in Addr, NEW b \in Pieces, Within(x, b)
      PROVE  \E d \in Pieces' : Within(x, d)
  <2>1. CASE b \in OwnedBlocks \union InFlight'
    BY <1>2, <1>4, <2>1 DEF Pieces
  <2>2. CASE b \in FreeBlocks \/ b = Block(chunk, n)
    <3>1. x \in Int
      BY HeapAssumption DEF Addr
    <3>2. \/ Within(x, Block(chunk, n))
          \/ \E c \in DOMAIN hdr : Within(x, Block(c, hdr[c].size))
      BY <1>4, <2>2 DEF FreeBlocks
    <3>3. \E d \in DOMAIN hdr' : Within(x, Block(d, hdr'[d].size))
      BY <3>1, <3>2, LinkOK
    <3> QED BY <3>3 DEF Pieces, FreeBlocks
  <2> QED BY <1>3, <1>4, <2>1, <2>2 DEF Pieces
<1> QED BY <1>4 DEF Covers

(* What pos_alloc cut off is, byte for byte, in the block it returns, or in *)
(* the three pos_alloc_align divides it in.                                 *)
LEMMA CoversAlloc ==
  ASSUME SaneRequests, IInv, Covers, AllocExact \/ AllocSplit
  PROVE  Covers'
<1>1. /\ pc = "alloc" /\ Return(pt) /\ pt \in DOMAIN hdr /\ pt # NULL
  BY TakeOK DEF AllocExact, AllocSplit
<1>2. /\ pt \in Nat /\ pt % 8 = 0 /\ pt \in Addr
  BY <1>1, HeapAssumption
  DEF IInv, TypeOK, Placed, WellPlaced, Block, MIN_CHUNK_SIZE, Addr
<1>3. /\ want.size \in Nat \ {0} /\ want.base = NULL
      /\ head.size = 0 /\ tail = NoBlock
      /\ n = Round(IF want.align = 0 THEN want.size
                   ELSE SizeAlign(want.size, want.align))
  BY <1>1, RequestAssumption DEF IInv, Stages, TypeOK
<1>4. InFlight = {}
  BY <1>1, <1>3 DEF InFlight, Live, Flight, NoBlock, Block
<1>5. OwnedBlocks \subseteq OwnedBlocks'
  BY <1>1 DEF Return, OwnedBlocks
<1>6. ASSUME NEW x \in Int, Within(x, Block(pt, n))
      PROVE  \E d \in Pieces' : Within(x, d)
  <2>1. CASE want.align = 0
    <3>1. owned' = owned \union {Block(pt, want.size)} /\ n = Round(want.size)
      BY <1>1, <1>3, <2>1 DEF Return
    <3>2. PICK w \in owned' : w.base = pt /\ w.size = want.size
      <4>1. Block(pt, want.size) \in owned'
        BY <3>1
      <4>2. Block(pt, want.size).base = pt /\ Block(pt, want.size).size = want.size
        BY DEF Block
      <4> QED BY <4>1, <4>2
    <3>3. Block(pt, n) \in OwnedBlocks'
      BY <3>1, <3>2 DEF OwnedBlocks
    <3> QED BY <1>6, <3>3 DEF Pieces
  <2>2. CASE want.align # 0
    <3> DEFINE a == want.align
               s == want.size
               up == AlignUp(pt, a)
               hs == up - pt
    <3>1. a \in Nat /\ a % 8 = 0 /\ a >= 8 /\ s % 8 = 0 /\ s \in Nat \ {0}
      BY <1>3, <2>2, AlignAssumption DEF IInv, TypeOK, Stages, MIN_CHUNK_SIZE
    <3>2. up \in Nat /\ up >= pt /\ up < pt + a /\ up % 8 = 0
      <4> HIDE DEF a
      <4>1. a \in Nat \ {0} /\ a % MIN_CHUNK_SIZE = 0 /\ pt % MIN_CHUNK_SIZE = 0
        BY <1>2, <3>1 DEF MIN_CHUNK_SIZE
      <4>2. up % MIN_CHUNK_SIZE = 0 /\ up \in Nat /\ up >= pt /\ up < pt + a
        BY <1>2, <4>1, AlignUpFacts
      <4> QED BY <4>2 DEF MIN_CHUNK_SIZE
    <3>3. n = s + a + 16
      <4>1. SizeAlign(s, a) = s + a + 16 /\ SizeAlign(s, a) \in Nat /\ SizeAlign(s, a) % 8 = 0
        BY <3>1 DEF SizeAlign, MIN_CHUNK_SIZE
      <4> QED BY <4>1, <1>3, <2>2, RoundFacts DEF MIN_CHUNK_SIZE
    <3>4. hs \in Nat /\ hs < a /\ hs % 8 = 0 /\ hs \notin 1 .. 7
      BY <1>2, <3>1, <3>2
    <3>5. /\ head' = Block(pt, hs)
          /\ tail' = Block(up + s, n - hs - s)
          /\ want' = [want EXCEPT !.base = up]
      BY <1>1, <2>2, <3>3, <3>4 DEF Return, SizeAlign, MIN_CHUNK_SIZE
    <3> HIDE DEF up, hs, a, s
    <3>6. want'.base = up /\ want'.size = s
      BY <3>5 DEF IInv, TypeOK, s
    <3>7. up = pt + hs /\ pt > 0
      BY <1>1, <1>2, <3>2 DEF hs, NULL
    <3>8. Flight'[2] = Block(pt, hs) /\ Flight'[3] = Block(up + s, n - hs - s)
          /\ Flight'[4] = Block(up, s)
      BY <3>5, <3>6 DEF Flight
    <3>9. \/ Within(x, Block(pt, hs)) /\ Live(Block(pt, hs))
          \/ Within(x, Block(up, s)) /\ Live(Block(up, s))
          \/ Within(x, Block(up + s, n - hs - s)) /\ Live(Block(up + s, n - hs - s))
      BY <1>2, <1>6, <3>1, <3>2, <3>3, <3>4, <3>7 DEF Within, Live, Block, NULL
    <3>10. \A k \in 2 .. 4 : Live(Flight'[k]) => Flight'[k] \in InFlight'
      BY DEF InFlight
    <3> QED BY <3>8, <3>9, <3>10 DEF Pieces
  <2> QED BY <2>1, <2>2
<1>7. ASSUME NEW x \in Addr, NEW b \in Pieces, Within(x, b)
      PROVE  \E d \in Pieces' : Within(x, d)
  <2>1. CASE b \in OwnedBlocks
    BY <1>5, <1>7, <2>1 DEF Pieces
  <2>2. CASE b \in FreeBlocks
    <3>1. x \in Int
      BY HeapAssumption DEF Addr
    <3>2. PICK c \in DOMAIN hdr : Within(x, Block(c, hdr[c].size))
      BY <1>7, <2>2 DEF FreeBlocks
    <3>3. \/ Within(x, Block(pt, n))
          \/ \E d \in DOMAIN hdr' : Within(x, Block(d, hdr'[d].size))
      BY <3>1, <3>2, TakeOK
    <3> QED BY <1>6, <3>1, <3>3 DEF Pieces, FreeBlocks
  <2> QED BY <1>4, <1>7, <2>1, <2>2 DEF Pieces
<1> QED BY <1>7 DEF Covers

LEMMA CoversStep ==
  ASSUME SaneRequests, IInv, Covers, [Next]_vars
  PROVE  Covers'
<1>1. CASE \/ \E s \in Requests : PosAlloc(s)
           \/ \E s \in AlignRequests, a \in Aligns : PosAllocAlign(s, a)
  <2>1. /\ pc = "idle" /\ pc' = "alloc" /\ hdr' = hdr /\ owned' = owned
    BY <1>1 DEF PosAlloc, PosAllocAlign, EnterAlloc
  <2>2. want = NoWant /\ head.size = 0 /\ tail = NoBlock
    BY <2>1 DEF IInv, Stages
  <2>3. \A k \in 1 .. 4 : ~Live(Flight[k])
    BY <2>1, <2>2 DEF Live, Flight, NoBlock, NoWant, Block
  <2> QED BY <2>1, <2>3, CoversKept
<1>2. CASE \E b \in owned : PosFree(b)
  BY <1>2, CoversFree
<1>3. CASE AllocScan \/ FreeScan \/ UNCHANGED vars
  <2>1. Flight' = Flight /\ hdr' = hdr /\ owned' = owned
    BY <1>3 DEF AllocScan, FreeScan, vars, Flight
  <2> QED BY <2>1, CoversKept
<1>4. CASE AllocFail
  <2>1. \A k \in 1 .. 4 : ~Live(Flight[k])
    BY <1>4 DEF AllocFail, IInv, Stages, Live, Flight, NoBlock, Block
  <2> QED BY <1>4, <2>1, CoversKept DEF AllocFail
<1>5. CASE AllocExact \/ AllocSplit
  BY <1>5, CoversAlloc
<1>6. CASE FreeHead
  <2>1. pc = "align" /\ Live(head) /\ head = Flight[2] /\ WellPlaced(head)
    BY <1>6 DEF FreeHead, IInv, Stages, Live, Flight, Placed
  <2>2. Round(head.size) = head.size
    BY <2>1, RoundFacts DEF WellPlaced
  <2>3. Flight'[1] = head /\ Flight'[3] = Flight[3] /\ Flight'[4] = Flight[4]
        /\ hdr' = hdr /\ owned' = owned
    BY <1>6, <2>2 DEF FreeHead, EnterFree, Flight, Block, IInv, TypeOK
  <2>4. ~Live(Flight[1])
    BY <2>1 DEF Flight, Live, NoBlock, Block
  <2>5. \A k \in 1 .. 4 : Live(Flight[k]) => \E j \in 1 .. 4 : Flight'[j] = Flight[k]
    BY <2>1, <2>3, <2>4
  <2> QED BY <2>3, <2>5, CoversKept
<1>7. CASE FreeTail
  <2>1. pc = "align" /\ Live(tail) /\ tail = Flight[3] /\ WellPlaced(tail) /\ head.size = 0
    BY <1>7 DEF FreeTail, IInv, Stages, Flight, Placed
  <2>2. Round(tail.size) = tail.size
    BY <2>1, RoundFacts DEF WellPlaced
  <2>3. Flight'[1] = tail /\ Flight'[4] = Flight[4] /\ hdr' = hdr /\ owned' = owned
    BY <1>7, <2>2 DEF FreeTail, EnterFree, Flight, Block, IInv, TypeOK
  <2>4. ~Live(Flight[1]) /\ ~Live(Flight[2])
    BY <2>1 DEF Flight, Live, NoBlock, Block
  <2>5. \A k \in 1 .. 4 : Live(Flight[k]) => \E j \in 1 .. 4 : Flight'[j] = Flight[k]
    BY <2>1, <2>3, <2>4
  <2> QED BY <2>3, <2>5, CoversKept
<1>8. CASE AlignReturn
  BY <1>8, CoversAlignReturn
<1>9. CASE FreeLink
  BY <1>9, CoversLink
<1> QED BY <1>1, <1>2, <1>3, <1>4, <1>5, <1>6, <1>7, <1>8, <1>9 DEF Next, Call, Step

LEMMA AllCovered == ASSUME SaneRequests PROVE Spec => []Covers
<1>1. IInv /\ Covers /\ [Next]_vars => Covers'
  BY CoversStep
<1> QED BY <1>1, CoversInit, Inductive, PTL DEF Spec

(* Every block lies in the heap.                                            *)
LEMMA PiecesInHeap == ASSUME IInv, NEW b \in Pieces PROVE WellPlaced(b)
BY DEF IInv, Placed, Pieces, FreeBlocks, OwnedBlocks, InFlight

(* A byte of a block, as an address.                                        *)
LEMMA ByteOf ==
  ASSUME NEW b, b.base \in Int, b.size \in Int, NEW x
  PROVE  x \in Bytes(b) <=> x \in Int /\ Within(x, b)
BY DEF Bytes, Within

(* No byte of the heap is lost: each one is free, with a caller, or in the  *)
(* hands of the call in progress.                                           *)
THEOREM NothingLost == ASSUME SaneRequests PROVE Spec => []NoLeak
<1>1. IInv /\ Covers => NoLeak
  <2> SUFFICES ASSUME IInv, Covers PROVE NoLeak
    OBVIOUS
  <2>1. \A b \in Pieces : b.base \in Int /\ b.size \in Int /\ Bytes(b) \subseteq Addr
    <3> SUFFICES ASSUME NEW b \in Pieces
                 PROVE  b.base \in Int /\ b.size \in Int /\ Bytes(b) \subseteq Addr
      OBVIOUS
    <3>1. b.base \in Addr /\ b.size \in Nat /\ b.base + b.size <= Base + Size
      BY PiecesInHeap DEF WellPlaced
    <3> QED BY <3>1, HeapAssumption DEF Addr, Bytes
  <2>2. BytesOf(Pieces) \subseteq Addr
    BY <2>1 DEF BytesOf
  <2>3. ASSUME NEW x \in Addr PROVE x \in BytesOf(Pieces)
    <3>1. PICK b \in Pieces : Within(x, b)
      BY DEF Covers
    <3>2. x \in Int
      BY HeapAssumption DEF Addr
    <3>3. x \in Bytes(b)
      BY <2>1, <3>1, <3>2, ByteOf
    <3> QED BY <3>3 DEF BytesOf
  <2> QED BY <2>2, <2>3 DEF NoLeak, Pieces
<1> QED BY <1>1, Inductive, AllCovered, PTL

-----------------------------------------------------------------------------
(* A walk that found nothing: no free bytes in a row are left out.          *)
LEMMA PassedInit == Init => PassedTooSmall
BY DEF Init, PassedTooSmall

LEMMA PassedStep ==
  ASSUME IInv, PassedTooSmall, [Next]_vars
  PROVE  PassedTooSmall'
<1>1. ASSUME pc = "alloc", pc' = "alloc", AllocScan
      PROVE  PassedTooSmall'
  <2>1. pt \in DOMAIN hdr /\ pt # NULL /\ hdr[pt].size < n /\ pt' = hdr[pt].next
        /\ hdr' = hdr /\ n' = n
    BY <1>1 DEF AllocScan, IInv, Cursors, FreeListSorted
  <2>2. \A c \in DOMAIN hdr : c \in Int /\ hdr[c].next \in Int
    BY HeapAssumption DEF IInv, TypeOK, Addr, NULL
  <2>3. ASSUME NEW c \in DOMAIN hdr, pt' = NULL \/ c < pt' PROVE c <= pt
    BY <2>1, <2>2, <2>3 DEF IInv, FreeListSorted
  <2>4. ASSUME NEW c \in DOMAIN hdr, pt' = NULL \/ c < pt' PROVE hdr[c].size < n
    <3>1. CASE c = pt
      BY <2>1, <3>1
    <3>2. CASE c < pt
      BY <1>1, <3>2 DEF PassedTooSmall
    <3> QED BY <2>1, <2>2, <2>3, <2>4, <3>1, <3>2
  <2> QED BY <2>1, <2>4 DEF PassedTooSmall
<1>2. ASSUME pc' = "alloc", pt' = first_free, hdr' = hdr
      PROVE  PassedTooSmall'
  <2>1. \A c \in DOMAIN hdr : c \in Int
    BY HeapAssumption DEF IInv, TypeOK, Addr
  <2>2. \A c \in DOMAIN hdr : ~(pt' = NULL \/ c < pt')
    BY <1>2, <2>1 DEF IInv, FreeListSorted
  <2> QED BY <1>2, <2>2 DEF PassedTooSmall
<1>3. CASE \/ \E s \in Requests : PosAlloc(s)
           \/ \E s \in AlignRequests, a \in Aligns : PosAllocAlign(s, a)
  BY <1>2, <1>3 DEF PosAlloc, PosAllocAlign, EnterAlloc
<1>4. CASE AllocScan
  BY <1>1, <1>4 DEF AllocScan
<1>5. CASE UNCHANGED vars
  BY <1>5 DEF vars, PassedTooSmall
<1>6. CASE \/ AllocFail \/ FreeHead \/ FreeTail \/ AlignReturn \/ FreeScan \/ FreeLink
           \/ \E b \in owned : PosFree(b)
  <2>1. pc' # "alloc"
    BY <1>6 DEF AllocFail, FreeHead, FreeTail, AlignReturn, FreeScan, FreeLink, PosFree, EnterFree
  <2> QED BY <2>1 DEF PassedTooSmall
<1>7. CASE AllocExact \/ AllocSplit
  <2>1. pc' # "alloc"
    BY <1>7 DEF AllocExact, AllocSplit, Return
  <2> QED BY <2>1 DEF PassedTooSmall
<1> QED BY <1>3, <1>4, <1>5, <1>6, <1>7 DEF Next, Call, Step

(* Free bytes in a row are in one free block, as no two blocks touch.       *)
LEMMA RunInOneBlock ==
  ASSUME IInv, NEW b \in Int, NEW m \in Nat \ {0}, b .. (b + m - 1) \subseteq FreeBytes
  PROVE  \E c \in DOMAIN hdr : m <= hdr[c].size
<1>1. \A c \in DOMAIN hdr : c \in Int /\ hdr[c].size \in Int
  BY HeapAssumption DEF IInv, TypeOK, Addr
<1>2. ASSUME NEW x \in b .. (b + m - 1)
      PROVE  \E c \in DOMAIN hdr : c <= x /\ x < c + hdr[c].size
  <2>1. PICK f \in FreeBlocks : x \in Bytes(f)
    BY DEF FreeBytes, BytesOf
  <2>2. PICK c \in DOMAIN hdr : f = Block(c, hdr[c].size)
    BY DEF FreeBlocks
  <2> QED BY <1>1, <2>1, <2>2 DEF Bytes, Block
<1>3. PICK c \in DOMAIN hdr : c <= b /\ b < c + hdr[c].size
  BY <1>2
<1>4. CASE b + m - 1 < c + hdr[c].size
  BY <1>1, <1>3, <1>4
<1>5. CASE ~(b + m - 1 < c + hdr[c].size)
  <2> DEFINE x == c + hdr[c].size
  <2>1. x \in b .. (b + m - 1)
    BY <1>1, <1>3, <1>5
  <2>2. PICK d \in DOMAIN hdr : d <= x /\ x < d + hdr[d].size
    BY <1>2, <2>1
  <2>3. d < c => d + hdr[d].size < c
    BY SortedApart DEF IInv
  <2>4. c < d => c + hdr[c].size < d
    BY SortedApart DEF IInv
  <2>5. hdr[c].size > 0
    BY <1>1, <1>3
  <2> QED BY <1>1, <2>2, <2>3, <2>4, <2>5
<1> QED BY <1>4, <1>5

(* pos_alloc returns NULL only when no run of free bytes of the size exists:*)
(* what pos_free puts back is merged, and the walk misses no block.         *)
THEOREM RefusalHonest == ASSUME SaneRequests PROVE Spec => []RefusedOnlyWhenFull
<1>1. IInv /\ PassedTooSmall /\ [Next]_vars => PassedTooSmall'
  BY PassedStep
<1>2. IInv /\ PassedTooSmall => RefusedOnlyWhenFull
  <2> SUFFICES ASSUME IInv, PassedTooSmall, pc = "alloc", pt = NULL, NEW b \in FreeBytes,
                      b .. (b + n - 1) \subseteq FreeBytes
               PROVE  FALSE
    BY DEF RefusedOnlyWhenFull
  <2>1. n \in Nat \ {0}
    <3>1. (IF want.align = 0 THEN want.size ELSE SizeAlign(want.size, want.align))
            \in Nat \ {0}
      BY RequestAssumption, AlignAssumption DEF IInv, TypeOK, Stages, SizeAlign, MIN_CHUNK_SIZE
    <3> QED BY <3>1, RoundFacts DEF IInv, Stages
  <2>2. b \in Int
    BY DEF FreeBytes, BytesOf, Bytes
  <2>3. PICK c \in DOMAIN hdr : n <= hdr[c].size
    BY <2>1, <2>2, RunInOneBlock
  <2>4. hdr[c].size < n /\ hdr[c].size \in Int
    BY HeapAssumption DEF PassedTooSmall, IInv, TypeOK
  <2> QED BY <2>1, <2>3, <2>4
<1> QED BY <1>1, <1>2, PassedInit, Inductive, PTL DEF Spec

-----------------------------------------------------------------------------
(* The allocator implements the heap its callers see.                       *)
LEMMA Multiple ==
  ASSUME NEW a \in Nat \ {0}, NEW m \in Int
  PROVE  (a * m) % a = 0
<1> DEFINE z == a * m
           q == z \div a
           k == m - q
           r == z % a
<1>1. z \in Int /\ q \in Int /\ k \in Int
  OBVIOUS
<1>2. z = a * q + r /\ r \in 0 .. (a - 1)
  BY <1>1
<1>3. a * k = r
  <2>1. a * k = a * m - a * q
    BY <1>1
  <2> QED BY <1>1, <1>2, <2>1
<1>4. k = 0
  <2> HIDE DEF k
  <2>1. k >= 1 => a * k >= a
    BY <1>1
  <2>2. k <= -1 => a * k <= -a
    BY <1>1
  <2> QED BY <1>1, <1>2, <1>3, <2>1, <2>2
<1> QED BY <1>3, <1>4

LEMMA AlignUpMultiple ==
  ASSUME NEW r \in Nat, NEW a \in Nat \ {0}
  PROVE  AlignUp(r, a) % a = 0 /\ (AlignUp(r, a) + a) % a = 0
<1> DEFINE q == (-r) \div a
           u == AlignUp(r, a)
<1>1. -r = a * q + ((-r) % a) /\ q \in Int
  OBVIOUS
<1>2. u = a * (-q) /\ u + a = a * (-q + 1)
  BY <1>1 DEF AlignUp
<1>3. -q \in Int /\ -q + 1 \in Int
  BY <1>1
<1> HIDE DEF u, q
<1>4. u % a = 0 /\ (u + a) % a = 0
  BY <1>2, <1>3, Multiple
<1> QED BY <1>4 DEF u

LEMMA WantedInit == Init => WantedTogether
BY DEF Init, WantedTogether, NoWant

LEMMA WantedStep ==
  ASSUME IInv, WantedTogether, [Next]_vars
  PROVE  WantedTogether'
<1> USE DEF WantedTogether
<1>1. ASSUME NEW s \in Requests, PosAlloc(s) PROVE WantedTogether'
  BY <1>1 DEF PosAlloc
<1>2. ASSUME NEW s \in AlignRequests, NEW a \in Aligns, PosAllocAlign(s, a)
      PROVE  WantedTogether'
  <2>1. CASE a < MIN_CHUNK_SIZE
    BY <1>2, <2>1 DEF PosAllocAlign
  <2>2. CASE ~(a < MIN_CHUNK_SIZE)
    <3>1. want' = [base |-> NULL, size |-> s, align |-> a]
      BY <1>2, <2>2 DEF PosAllocAlign
    <3>2. NULL % a = 0
      BY AlignAssumption DEF NULL
    <3>3. a # 0
      BY AlignAssumption
    <3> QED BY <3>1, <3>2, <3>3
  <2> QED BY <2>1, <2>2
<1>3. CASE AllocExact \/ AllocSplit
  <2>1. Return(pt) /\ pt \in Nat
    BY <1>3, TakeOK, HeapAssumption DEF AllocExact, AllocSplit, IInv, TypeOK, Addr
  <2>2. CASE want.align = 0
    BY <2>1, <2>2 DEF Return, NoWant
  <2>3. CASE want.align # 0
    <3> DEFINE up == AlignUp(pt, want.align)
    <3>1. want.align \in Nat \ {0}
      BY <2>3, AlignAssumption DEF IInv, TypeOK
    <3>2. up % want.align = 0 /\ (up + want.align) % want.align = 0
      BY <2>1, <3>1, AlignUpMultiple
    <3>3. PICK result \in {up, up + want.align} : want' = [want EXCEPT !.base = result]
      BY <2>1, <2>3 DEF Return
    <3>4. want'.base = result /\ want'.align = want.align /\ want'.size = want.size
      BY <3>3 DEF IInv, TypeOK
    <3> HIDE DEF up
    <3>5. result % want.align = 0
      BY <3>2
    <3> QED BY <2>3, <3>4, <3>5
  <2> QED BY <2>2, <2>3
<1>4. CASE AllocFail \/ AlignReturn
  BY <1>4 DEF AllocFail, AlignReturn, NoWant
<1>5. CASE \/ AllocScan \/ FreeScan \/ FreeHead \/ FreeTail \/ FreeLink \/ UNCHANGED vars
           \/ \E b \in owned : PosFree(b)
  <2>1. want' = want
    BY <1>5 DEF AllocScan, FreeScan, FreeHead, FreeTail, FreeLink, vars, PosFree, EnterFree
  <2> QED BY <2>1
<1> QED BY <1>1, <1>2, <1>3, <1>4, <1>5 DEF Next, Call, Step

OwnedBytes == BytesOf(OwnedBlocks)
FreeToCallers == BytesOf(FreeBlocks \union InFlight)

FreeIsRest == FreeToCallers = Addr \ OwnedBytes

(* What no caller holds is free to the callers.                             *)
LEMMA FreeIsTheRest ==
  ASSUME IInv, NoLeak
  PROVE  FreeIsRest
<1>1. ASSUME NEW b \in FreeBlocks \union InFlight, NEW c \in OwnedBlocks,
             NEW x \in Bytes(b), x \in Bytes(c)
      PROVE  FALSE
  <2>1. Apart(b, c) \/ Apart(c, b)
    BY <1>1 DEF IInv, KindsApart, FreeBlocks, OwnedBlocks, InFlight
  <2>2. WellPlaced(b) /\ WellPlaced(c)
    BY <1>1, PiecesInHeap DEF Pieces
  <2> QED BY <1>1, <2>1, <2>2, HeapAssumption DEF Apart, Bytes, WellPlaced, Addr
<1>2. FreeToCallers \intersect OwnedBytes = {}
  BY <1>1 DEF FreeToCallers, OwnedBytes, BytesOf
<1>3. Addr = FreeToCallers \union OwnedBytes
  BY DEF NoLeak, FreeToCallers, OwnedBytes, BytesOf
<1> QED BY <1>2, <1>3 DEF FreeIsRest

LEMMA ImplementsInit == Init => AbstractHeap!Init
<1> SUFFICES ASSUME Init PROVE AbstractHeap!Init
  OBVIOUS
<1>1. IInv /\ owned = {} /\ OwnedBlocks = {}
  BY InitOK DEF Init, OwnedBlocks
<1>2. FreeBlocks = {Block(Base, Size)} /\ InFlight = {}
  BY DEF Init, FreeBlocks, InFlight, Live, Flight, NoBlock, NoWant, Block
<1>3. BytesOf(FreeBlocks \union InFlight) = Addr
  BY <1>2 DEF BytesOf, Bytes, Block, Addr
<1> QED BY <1>1, <1>3 DEF AbstractHeap!Init

(* A block that passes from the free bytes to a caller.                     *)
LEMMA ImplementsTake ==
  ASSUME IInv, FreeIsRest, FreeIsRest',
         NEW b \in Addr, NEW s \in Nat \ {0}, NEW a \in Nat \ {0}, b % a = 0,
         owned' = owned \union {Block(b, s)}, WellPlaced(Block(b, Round(s))),
         \A c \in owned : Apart(Block(c.base, Round(c.size)), Block(b, Round(s)))
  PROVE  AbstractHeap!Take(s, a)
<1> DEFINE run == b .. (b + Round(s) - 1)
           new == Block(b, Round(s))
<1>1. OwnedBlocks' = OwnedBlocks \union {new}
  <2>1. Block(b, s).base = b /\ Block(b, s).size = s
    BY DEF Block
  <2> QED BY <2>1 DEF OwnedBlocks
<1>2. Bytes(new) = run
  BY DEF Bytes, Block
<1>3. OwnedBytes' = OwnedBytes \union run
  BY <1>1, <1>2 DEF OwnedBytes, BytesOf
<1>4. FreeToCallers' = FreeToCallers \ run
  BY <1>3 DEF FreeIsRest
<1>5. /\ b \in Int /\ Round(s) \in Nat \ {0} /\ run \subseteq Addr
  BY HeapAssumption DEF WellPlaced, Block, Addr
<1>6. ASSUME NEW c \in owned, NEW x \in run, x \in Bytes(Block(c.base, Round(c.size)))
      PROVE  FALSE
  <2>1. Apart(Block(c.base, Round(c.size)), Block(b, Round(s)))
    OBVIOUS
  <2>2. c.base \in Int /\ Round(c.size) \in Int
    <3>1. WellPlaced(Block(c.base, Round(c.size)))
      BY DEF IInv, Placed
    <3> QED BY <3>1, HeapAssumption DEF WellPlaced, Block, Addr
  <2> QED BY <1>5, <1>6, <2>1, <2>2 DEF Apart, Bytes, Block
<1>7. run \subseteq FreeToCallers /\ b \in FreeToCallers
  <2>1. run \intersect OwnedBytes = {}
    BY <1>6 DEF OwnedBytes, BytesOf, OwnedBlocks
  <2>2. b \in run
    BY <1>5
  <2> QED BY <1>5, <2>1, <2>2 DEF FreeIsRest
<1> QED BY <1>4, <1>7 DEF AbstractHeap!Take, AbstractHeap!Run, FreeToCallers, Block

(* A block that passes from a caller to pos_free.                           *)
LEMMA ImplementsGiveBack ==
  ASSUME IInv, FreeIsRest, FreeIsRest', NEW b \in owned, owned' = owned \ {b}
  PROVE  AbstractHeap!GiveBack(b)
<1> DEFINE run == b.base .. (b.base + Round(b.size) - 1)
           old == Block(b.base, Round(b.size))
<1>1. OwnedBlocks = OwnedBlocks' \union {old}
  BY DEF OwnedBlocks
<1>2. Bytes(old) = run
  BY DEF Bytes, Block
<1>3. OwnedBytes = OwnedBytes' \union run
  BY <1>1, <1>2 DEF OwnedBytes, BytesOf
<1>4. \A c \in owned : c.base \in Int /\ Round(c.size) \in Int
  <2> SUFFICES ASSUME NEW c \in owned PROVE c.base \in Int /\ Round(c.size) \in Int
    OBVIOUS
  <2>1. WellPlaced(Block(c.base, Round(c.size)))
    BY DEF IInv, Placed
  <2> QED BY <2>1, HeapAssumption DEF WellPlaced, Block, Addr
<1>5. run \subseteq Addr
  <2>1. WellPlaced(old)
    BY DEF IInv, Placed
  <2> QED BY <2>1, HeapAssumption DEF WellPlaced, Block, Addr
<1>6. ASSUME NEW c \in owned', NEW x \in run, x \in Bytes(Block(c.base, Round(c.size)))
      PROVE  FALSE
  <2>1. c \in owned /\ Apart(old, Block(c.base, Round(c.size)))
    BY DEF IInv, KindsApart
  <2> QED BY <1>4, <1>6, <2>1 DEF Apart, Bytes, Block
<1>7. run \intersect OwnedBytes' = {}
  BY <1>6 DEF OwnedBytes, BytesOf, OwnedBlocks
<1>8. FreeToCallers' = FreeToCallers \union run
  BY <1>3, <1>5, <1>7 DEF FreeIsRest
<1> QED BY <1>8 DEF AbstractHeap!GiveBack, AbstractHeap!Run, FreeToCallers

(* What divides a chunk boundary.                                           *)
LEMMA SmallAlign ==
  ASSUME NEW b \in Nat, b % MIN_CHUNK_SIZE = 0, NEW a \in Aligns, a < MIN_CHUNK_SIZE
  PROVE  b % a = 0
<1>1. a \in 1 .. 7 /\ 8 % a = 0
  BY AlignAssumption DEF MIN_CHUNK_SIZE
<1>2. a \in {1, 2, 4}
  BY <1>1
<1>3. b % 1 = 0 /\ b % 2 = 0 /\ b % 4 = 0
  BY DEF MIN_CHUNK_SIZE
<1> QED BY <1>2, <1>3

LEMMA ImplementsStep ==
  ASSUME SaneRequests, IInv, WantedTogether, FreeIsRest, FreeIsRest', [Next]_vars
  PROVE  [AbstractHeap!Next]_<<FreeToCallers, owned>>
<1>1. ASSUME UNCHANGED owned PROVE UNCHANGED <<FreeToCallers, owned>>
  <2>1. OwnedBytes' = OwnedBytes
    BY <1>1 DEF OwnedBytes, OwnedBlocks
  <2> QED BY <1>1, <2>1 DEF FreeIsRest
<1>2. ASSUME NEW b \in owned, PosFree(b) PROVE AbstractHeap!Next
  <2>1. owned' = owned \ {b}
    BY <1>2 DEF PosFree
  <2>2. AbstractHeap!GiveBack(b)
    BY <2>1, ImplementsGiveBack
  <2> QED BY <2>2 DEF AbstractHeap!Next
<1>3. ASSUME AllocExact \/ AllocSplit, want.align = 0 PROVE AbstractHeap!Next
  <2> DEFINE s == want.size
  <2>1. /\ pc = "alloc" /\ Return(pt) /\ pt \in DOMAIN hdr /\ n <= hdr[pt].size
    BY <1>3, TakeOK DEF AllocExact, AllocSplit
  <2>2. /\ pt \in Addr /\ pt \in Nat /\ pt % MIN_CHUNK_SIZE = 0 /\ n = Round(s)
        /\ s \in Nat \ {0} /\ hdr[pt].size \in Nat /\ pt + hdr[pt].size <= Base + Size
    BY <1>3, <2>1, HeapAssumption, RequestAssumption
    DEF IInv, TypeOK, Placed, WellPlaced, Block, Addr, Stages
  <2>3. owned' = owned \union {Block(pt, s)}
    BY <1>3, <2>1 DEF Return
  <2>4. WellPlaced(Block(pt, Round(s)))
    <3>1. Round(s) \in Nat \ {0} /\ Round(s) % MIN_CHUNK_SIZE = 0
      BY <2>2, RoundFacts
    <3> QED BY <2>1, <2>2, <3>1, HeapAssumption DEF WellPlaced, Block
  <2>5. \A c \in owned : Apart(Block(c.base, Round(c.size)), Block(pt, Round(s)))
    <3> TAKE c \in owned
    <3>1. Apart(Block(pt, hdr[pt].size), Block(c.base, Round(c.size)))
      BY <2>1 DEF IInv, KindsApart
    <3>2. c.base \in Int /\ Round(c.size) \in Int
      <4>1. WellPlaced(Block(c.base, Round(c.size)))
        BY DEF IInv, Placed
      <4> QED BY <4>1, HeapAssumption DEF WellPlaced, Block, Addr
    <3>3. Round(s) \in Int /\ Round(s) <= hdr[pt].size
      BY <2>1, <2>2, RoundFacts
    <3> HIDE DEF s
    <3> QED BY <2>2, <3>1, <3>2, <3>3 DEF Apart, Block
  <2>6. \A a \in Nat \ {0} : pt % a = 0 => AbstractHeap!Take(s, a)
    <3> HIDE DEF s
    <3> QED BY <2>2, <2>3, <2>4, <2>5, ImplementsTake
  <2>7. want # NoWant
    BY <2>2 DEF NoWant
  <2>8. CASE s \in Requests
    <3>1. AbstractHeap!Take(s, 1)
      BY <2>2, <2>6
    <3> QED BY <2>8, <3>1 DEF AbstractHeap!Next
  <2>9. CASE s \in AlignRequests /\ \E a \in Aligns : a < MIN_CHUNK_SIZE
    <3>1. PICK a \in Aligns : a < MIN_CHUNK_SIZE
      BY <2>9
    <3>2. pt % a = 0 /\ a \in Nat \ {0}
      BY <2>2, <3>1, SmallAlign, AlignAssumption
    <3>3. AbstractHeap!Take(s, a)
      BY <2>6, <3>2
    <3> QED BY <2>9, <3>3 DEF AbstractHeap!Next
  <2> QED BY <1>3, <2>7, <2>8, <2>9 DEF WantedTogether
<1>4. ASSUME AllocExact \/ AllocSplit, want.align # 0 PROVE UNCHANGED owned
  BY <1>4 DEF AllocExact, AllocSplit, Return
<1>5. ASSUME AlignReturn PROVE AbstractHeap!Next
  <2> DEFINE s == want.size
             b == want.base
             a == want.align
  <2>1. /\ want # NoWant /\ b # NULL /\ s # 0 /\ a # 0 /\ s % MIN_CHUNK_SIZE = 0
    BY <1>5 DEF IInv, Stages, AlignReturn
  <2>2. /\ s \in AlignRequests /\ s \in Nat \ {0} /\ a \in Aligns /\ a \in Nat \ {0}
        /\ b \in Addr /\ b % a = 0
    BY <2>1, RequestAssumption, AlignAssumption DEF IInv, TypeOK, WantedTogether
  <2>3. Round(s) = s
    BY <2>1, <2>2, RoundFacts
  <2>4. Live(Flight[4]) /\ Flight[4] = Block(b, s)
    BY <2>1 DEF Flight, Live, Block
  <2>5. WellPlaced(Block(b, s)) /\ \A c \in owned :
          Apart(Block(c.base, Round(c.size)), Block(b, s))
    BY <2>4 DEF IInv, Placed, KindsApart
  <2>6. owned' = owned \union {Block(b, s)}
    BY <1>5 DEF AlignReturn
  <2> HIDE DEF s, b, a
  <2>7. AbstractHeap!Take(s, a)
    BY <2>2, <2>3, <2>5, <2>6, ImplementsTake
  <2> QED BY <2>2, <2>7 DEF AbstractHeap!Next
<1>6. CASE \/ \E s \in Requests : PosAlloc(s)
           \/ \E s \in AlignRequests, a \in Aligns : PosAllocAlign(s, a)
           \/ AllocScan \/ AllocFail \/ FreeHead \/ FreeTail \/ FreeScan \/ FreeLink
           \/ UNCHANGED vars
  <2>1. UNCHANGED owned
    BY <1>6 DEF PosAlloc, PosAllocAlign, EnterAlloc, AllocScan, AllocFail,
                FreeHead, FreeTail, FreeScan, FreeLink, vars
  <2> QED BY <1>1, <2>1
<1> QED BY <1>1, <1>2, <1>3, <1>4, <1>5, <1>6 DEF Next, Call, Step

(* pos_alloc, pos_alloc_align and pos_free, with all the steps of their      *)
(* walks, are what callers expect: a block leaves the free bytes in one step,*)
(* of the size and at the alignment asked for, and exactly it comes back.    *)
THEOREM Implements == ASSUME SaneRequests PROVE Spec => ImplementsHeap
<1>1. Init => AbstractHeap!Init
  BY ImplementsInit
<1>2. IInv /\ WantedTogether /\ FreeIsRest /\ FreeIsRest' /\ [Next]_vars
        => [AbstractHeap!Next]_<<FreeToCallers, owned>>
  BY ImplementsStep
<1>3. IInv /\ NoLeak => FreeIsRest
  BY FreeIsTheRest
<1>4. IInv /\ WantedTogether /\ [Next]_vars => WantedTogether'
  BY WantedStep
<1> QED BY <1>1, <1>2, <1>3, <1>4, WantedInit, Inductive, NothingLost, PTL
        DEF Spec, ImplementsHeap, AbstractHeap!Spec, FreeToCallers
=============================================================================
