---------------------------- MODULE Boot_proofs ----------------------------
(***************************************************************************)
(* For every size of word, block, loader and table, and for every program, *)
(* what the model checker finds of the flash boot loader on a small        *)
(* instance: it does not overwrite itself, and it leaves in memory the     *)
(* program and nothing else.                                               *)
(***************************************************************************)
EXTENDS BootRom, Arithmetic, Sequences

-----------------------------------------------------------------------------
(* Multiples.                                                              *)

\* RoundUp gives a multiple, at most m - 1 higher.
LEMMA RoundUpIs ==
  ASSUME NEW n \in Nat, NEW m \in Nat \ {0}
  PROVE  /\ (n + m - 1) \div m \in Nat
         /\ Qspi!RoundUp(n, m) = ((n + m - 1) \div m) * m
         /\ Qspi!RoundUp(n, m) \in Nat
         /\ n <= Qspi!RoundUp(n, m) /\ Qspi!RoundUp(n, m) < n + m
<1>1. n + m - 1 \in Nat
  OBVIOUS
<1> DEFINE q == (n + m - 1) \div m
           r == (n + m - 1) % m
           x == q * m
<1>2. q \in Nat /\ r \in 0 .. m - 1 /\ n + m - 1 = x + r
  BY <1>1, Division
<1>3. x \in Nat
  <2> HIDE DEF q
  <2> QED BY <1>2
<1>4. Qspi!RoundUp(n, m) = x
  BY DEF Qspi!RoundUp
<1> HIDE DEF q, r, x
<1>5. n <= x /\ x < n + m
  BY <1>2, <1>3
<1> QED BY <1>2, <1>3, <1>4, <1>5 DEF q, x

\* The least one: no multiple lies between.
LEMMA RoundUpLeast ==
  ASSUME NEW n \in Nat, NEW m \in Nat \ {0}, NEW c \in Int, n <= c * m
  PROVE  Qspi!RoundUp(n, m) <= c * m
<1> DEFINE q == (n + m - 1) \div m
<1>1. q \in Nat /\ q * m < n + m /\ Qspi!RoundUp(n, m) = q * m /\ q * m \in Nat
  BY RoundUpIs
<1> HIDE DEF q
<1> SUFFICES ASSUME c < q PROVE FALSE
  <2>1. c \in Int /\ q \in Int /\ m \in Nat
    BY <1>1
  <2>2. q <= c => q * m <= c * m
    BY <2>1
  <2> QED BY <2>1, <2>2, <1>1
<1>2. q - c - 1 \in Nat
  BY <1>1
<1>3. (q - c - 1) * m \in Nat
  BY <1>2
<1>4. q * m = (q - c - 1) * m + c * m + m
  BY <1>1
<1>5. c * m \in Int
  OBVIOUS
<1> DEFINE x == q * m
           y == c * m
           z == (q - c - 1) * m
<1>6. x = z + y + m /\ z \in Nat /\ y \in Int /\ x < n + m /\ n <= y
  BY <1>1, <1>3, <1>4, <1>5
<1> HIDE DEF x, y, z
<1> QED BY <1>6

\* To round up from a multiple further.
LEMMA RoundUpPlus ==
  ASSUME NEW n \in Nat, NEW m \in Nat \ {0}, NEW c \in Nat
  PROVE  Qspi!RoundUp(c * m + n, m) = c * m + Qspi!RoundUp(n, m)
<1> DEFINE q == (n + m - 1) \div m
           y == c * m
<1>1. y \in Nat /\ y + n \in Nat
  OBVIOUS
<1>2. q \in Nat /\ Qspi!RoundUp(n, m) = q * m /\ n <= q * m /\ q * m < n + m /\ q * m \in Nat
  BY RoundUpIs
<1> DEFINE p == (y + n + m - 1) \div m
<1>3. p \in Nat /\ Qspi!RoundUp(y + n, m) = p * m /\ y + n <= p * m /\ p * m < y + n + m
      /\ p * m \in Nat
  BY <1>1, RoundUpIs
<1> HIDE DEF q, p
<1>4. (c + q) * m = y + q * m
  BY <1>2
<1>5. p * m <= y + q * m
  <2>1. c + q \in Int /\ y + n <= (c + q) * m
    BY <1>1, <1>2, <1>4
  <2> QED BY <2>1, <1>1, <1>3, <1>4, RoundUpLeast
<1>6. q * m <= p * m - y
  <2>1. (p - c) * m = p * m - y
    BY <1>3
  <2>2. p - c \in Int /\ n <= (p - c) * m
    BY <1>1, <1>3, <2>1
  <2> QED BY <2>1, <2>2, <1>2, RoundUpLeast
<1> QED BY <1>1, <1>2, <1>3, <1>5, <1>6

-----------------------------------------------------------------------------
(* The image.                                                              *)

LEMMA Sizes ==
  /\ WORD \in Nat \ {0} /\ BLOCK \in Nat \ {0} /\ LOADER \in Nat \ {0}
  /\ L2 \in Nat \ {0} /\ Top \in Nat /\ L2 + LOADER <= Top
  /\ MaxSegments \in Nat /\ MaxSegments <= MAX_NB_AREA /\ MaxLen \in Nat
  /\ BLOCK % WORD = 0 /\ L2 % BLOCK = 0
  <1>1. Qspi!BootFlashAssumption
    BY BootAssumption DEF BootAssumption
  <1>2. MaxSegments \in Nat
    BY <1>1 DEF Qspi!BootFlashAssumption
  <1>3. L2 \in Nat \ {0} /\ Top \in Nat
    BY <1>1 DEF Qspi!BootFlashAssumption
  <1> QED BY <1>1, <1>2, <1>3 DEF Qspi!BootFlashAssumption

\* A segment and its place.
LEMMA SegmentsOf ==
  ASSUME NEW p \in Qspi!Programs
  PROVE  /\ Len(p) \in 0 .. MaxSegments /\ p \in [1 .. Len(p) -> Qspi!Segments]
         /\ \A s \in 1 .. Len(p) :
              /\ p[s].base \in Nat /\ p[s].len \in 0 .. MaxLen /\ p[s].base % WORD = 0
              /\ p[s].base + p[s].len + BLOCK + LOADER <= Top
         /\ \A m, n \in 1 .. Len(p) : m < n => p[m].base + p[m].len <= p[n].base
<1>1. PICK n \in 0 .. MaxSegments : p \in [1 .. n -> Qspi!Segments]
  BY DEF Qspi!Programs, Qspi!SeqOf
<1>2. n \in Nat /\ Len(p) = n
  BY <1>1, Sizes
<1>3. \A s \in 1 .. n : p[s] \in Qspi!Segments
  BY <1>1
<1>4. ASSUME NEW e \in Qspi!Segments
      PROVE  /\ e.base \in Nat /\ e.len \in 0 .. MaxLen /\ e.base % WORD = 0
             /\ e.base + e.len + BLOCK + LOADER <= Top
  BY Sizes DEF Qspi!Segments, Qspi!Addresses
<1> QED BY <1>1, <1>2, <1>3, <1>4 DEF Qspi!Programs

\* Each segment starts in the flash behind the block that the last one ends in.
LEMMA Offsets ==
  ASSUME NEW p \in Qspi!Programs
  PROVE  /\ Qspi!Offset(p) \in [1 .. Len(p) -> Nat]
         /\ \A s \in 1 .. Len(p) : s + 1 <= Len(p) =>
              Qspi!Offset(p)[s + 1] = Qspi!Offset(p)[s] + Qspi!RoundUp(p[s].len, BLOCK)
<1> DEFINE N == Len(p)
           up(s) == Qspi!RoundUp(p[s].len, BLOCK)
           Unfold(h) == [s \in 0 .. N |-> IF s = 0 THEN BLOCK ELSE h[s - 1] + up(s)]
           at == CHOOSE h : h = Unfold(h)
           step == [s \in 1 .. N |-> [x \in Nat |-> x + up(s)]]
<1>1. N \in Nat /\ \A s \in 1 .. N : up(s) \in Nat
  <2>1. N \in Nat
    BY SegmentsOf, Sizes
  <2>2. ASSUME NEW s \in 1 .. N PROVE up(s) \in Nat
    <3>1. p[s].len \in Nat /\ BLOCK \in Nat \ {0}
      BY SegmentsOf, Sizes
    <3> QED BY <3>1, RoundUpIs
  <2> QED BY <2>1, <2>2
<1>2. PICK g \in [0 .. N -> Nat] : Obeys(g, BLOCK, N, step)
  <2>1. step \in Rules(N, Nat)
    BY <1>1 DEF Rules
  <2>2. BLOCK \in Nat
    BY Sizes
  <2> HIDE DEF step, N
  <2> QED BY <1>1, <2>1, <2>2, Recursion
<1>3. g = Unfold(g)
  <2> SUFFICES ASSUME NEW s \in 0 .. N PROVE g[s] = Unfold(g)[s]
    OBVIOUS
  <2>1. s = 0 \/ (s \in 1 .. N /\ s - 1 \in 0 .. N)
    BY <1>1
  <2> HIDE DEF up
  <2> QED BY <2>1, <1>1, <1>2 DEF Obeys
<1>4. at = Unfold(at)
  <2> HIDE DEF Unfold
  <2> QED BY <1>3
<1>5. Qspi!Offset(p) = [s \in 1 .. N |-> at[s - 1]]
  BY DEF Qspi!Offset
<1> HIDE DEF at, up
<1>6. at[0] = BLOCK /\ \A s \in 1 .. N : at[s] = at[s - 1] + up(s)
  <2>1. 0 \in 0 .. N /\ \A s \in 1 .. N : s \in 0 .. N /\ s # 0
    BY <1>1
  <2> DEFINE r == Unfold(at)
  <2>2. r[0] = BLOCK /\ \A s \in 1 .. N : r[s] = at[s - 1] + up(s)
    BY <2>1
  <2> HIDE DEF r
  <2>3. at = r
    BY <1>4 DEF r
  <2> QED BY <2>2, <2>3
<1> DEFINE T == {n \in Nat : n <= N => at[n] \in Nat}
<1>7. Nat \subseteq T
  <2>1. 0 \in T
    BY <1>6, Sizes
  <2>2. ASSUME NEW n \in Nat, n \in T PROVE n + 1 \in T
    <3> SUFFICES ASSUME n + 1 <= N PROVE at[n + 1] \in Nat
      OBVIOUS
    <3>1. n + 1 \in 1 .. N /\ n + 1 - 1 = n /\ at[n] \in Nat
      BY <2>2
    <3> QED BY <3>1, <1>6, <1>1
  <2> HIDE DEF T
  <2> QED BY <2>1, <2>2, SetInduction
<1>8. \A s \in 1 .. N : at[s - 1] \in Nat
  <2> SUFFICES ASSUME NEW s \in 1 .. N PROVE at[s - 1] \in Nat
    OBVIOUS
  <2>1. s - 1 \in Nat /\ s - 1 <= N
    BY <1>1
  <2> QED BY <2>1, <1>7
<1>9. ASSUME NEW s \in 1 .. N, s + 1 <= N
      PROVE  Qspi!Offset(p)[s + 1] = Qspi!Offset(p)[s] + up(s)
  <2>1. s + 1 \in 1 .. N /\ s + 1 - 1 = s
    BY <1>1, <1>9
  <2>2. Qspi!Offset(p)[s + 1] = at[s] /\ Qspi!Offset(p)[s] = at[s - 1]
    BY <2>1, <1>5
  <2> QED BY <2>2, <1>6
<1> QED BY <1>5, <1>8, <1>9 DEF up

\* No two segments share a byte of the flash.
LEMMA ApartInFlash ==
  ASSUME NEW p \in Qspi!Programs,
         NEW m \in 1 .. Len(p), NEW n \in 1 .. Len(p), m < n
  PROVE  Qspi!Offset(p)[m] + p[m].len <= Qspi!Offset(p)[n]
<1> DEFINE off == Qspi!Offset(p)
           T == {d \in Nat : m + 1 + d <= Len(p) => off[m] + p[m].len <= off[m + 1 + d]}
<1>1. Len(p) \in Nat /\ off \in [1 .. Len(p) -> Nat]
  BY SegmentsOf, Sizes, Offsets
<1>2. \A s \in 1 .. Len(p) : p[s].len \in Nat /\ Qspi!RoundUp(p[s].len, BLOCK) \in Nat
                             /\ p[s].len <= Qspi!RoundUp(p[s].len, BLOCK)
  <2> SUFFICES ASSUME NEW s \in 1 .. Len(p)
               PROVE  /\ p[s].len \in Nat /\ Qspi!RoundUp(p[s].len, BLOCK) \in Nat
                      /\ p[s].len <= Qspi!RoundUp(p[s].len, BLOCK)
    OBVIOUS
  <2>1. p[s].len \in Nat /\ BLOCK \in Nat \ {0}
    BY SegmentsOf, Sizes
  <2> QED BY <2>1, RoundUpIs
<1>3. \A s \in 1 .. Len(p) : s + 1 <= Len(p) =>
         off[s + 1] = off[s] + Qspi!RoundUp(p[s].len, BLOCK)
  BY Offsets
<1> HIDE DEF off
<1>4. 0 \in T
  <2> SUFFICES ASSUME m + 1 <= Len(p) PROVE off[m] + p[m].len <= off[m + 1]
    OBVIOUS
  <2> QED BY <1>1, <1>2, <1>3
<1>5. ASSUME NEW d \in Nat, d \in T PROVE d + 1 \in T
  <2> SUFFICES ASSUME m + 1 + (d + 1) <= Len(p)
               PROVE  off[m] + p[m].len <= off[m + 1 + (d + 1)]
    OBVIOUS
  <2> DEFINE s == m + 1 + d
  <2>1. s \in 1 .. Len(p) /\ s + 1 <= Len(p) /\ s + 1 = m + 1 + (d + 1) /\ s + 1 \in 1 .. Len(p)
    BY <1>1
  <2>2. off[m] + p[m].len <= off[s]
    BY <1>5, <2>1
  <2>3. off[s + 1] = off[s] + Qspi!RoundUp(p[s].len, BLOCK)
    BY <2>1, <1>3
  <2>4. off[m] \in Nat /\ off[s] \in Nat /\ Qspi!RoundUp(p[s].len, BLOCK) \in Nat
        /\ p[m].len \in Nat
    BY <2>1, <1>1, <1>2
  <2> HIDE DEF s
  <2> QED BY <2>1, <2>2, <2>3, <2>4
<1>6. Nat \subseteq T
  <2> HIDE DEF T
  <2> QED BY <1>4, <1>5, SetInduction
<1>7. n - m - 1 \in Nat /\ m + 1 + (n - m - 1) = n /\ n <= Len(p)
  BY <1>1
<1>8. off[m] + p[m].len <= off[n]
  <2>1. n - m - 1 \in T
    BY <1>6, <1>7
  <2>2. m + 1 + (n - m - 1) <= Len(p) => off[m] + p[m].len <= off[m + 1 + (n - m - 1)]
    BY <2>1
  <2> QED BY <2>2, <1>7
<1> QED BY <1>8 DEF off

\* What the flash holds of a segment.
LEMMA InFlash ==
  ASSUME program \in Qspi!Programs,
         NEW s \in 1 .. Len(program), NEW n \in 0 .. program[s].len - 1
  PROVE  Qspi!Flash(Qspi!Offset(program)[s] + n) = Qspi!Id(s, n)
<1> DEFINE off == Qspi!Offset(program)
           a == off[s] + n
           In == {c \in 1 .. Len(program) : a - off[c] \in 0 .. program[c].len - 1}
<1>1. Len(program) \in Nat /\ off \in [1 .. Len(program) -> Nat]
  BY SegmentsOf, Sizes, Offsets
<1>2. \A c \in 1 .. Len(program) : program[c].len \in Nat
  BY SegmentsOf
<1>3. \A c, d \in 1 .. Len(program) : c < d => off[c] + program[c].len <= off[d]
  BY ApartInFlash
<1>4. Qspi!Flash(a) = IF In = {} THEN Qspi!Pad
                      ELSE Qspi!Id(CHOOSE c \in In : TRUE, a - off[CHOOSE c \in In : TRUE])
  BY DEF Qspi!Flash
<1> HIDE DEF off
<1>5. a - off[s] = n /\ s \in In
  BY <1>1, <1>2
<1>6. ASSUME NEW c \in In PROVE c = s
  <2>1. off[c] <= a /\ a < off[c] + program[c].len /\ c \in 1 .. Len(program) /\ off[c] \in Nat
    BY <1>1, <1>2
  <2>2. off[s] <= a /\ a < off[s] + program[s].len /\ off[s] \in Nat /\ a \in Int
    BY <1>1, <1>2
  <2> HIDE DEF a, In
  <2>3. ~(c < s) /\ ~(s < c)
    BY <2>1, <2>2, <1>2, <1>3
  <2> QED BY <2>1, <2>3
<1>7. (CHOOSE c \in In : TRUE) = s
  <2> HIDE DEF In
  <2> QED BY <1>5, <1>6
<1>8. Qspi!Flash(a) = Qspi!Id(s, n)
  <2>1. In # {}
    BY <1>5
  <2> HIDE DEF In, a
  <2> QED BY <1>4, <1>5, <1>7, <2>1
<1> QED BY <1>8 DEF off

-----------------------------------------------------------------------------
(* Where the loader goes.                                                  *)

\* The bytes that loading a segment writes: up to the end of its last word.
WordsEnd(s) == program[s].base + Qspi!RoundUp(program[s].len, WORD)

ApartFrom(s, to) == WordsEnd(s) <= to \/ to + LOADER <= program[s].base

\* A block that starts behind a segment starts behind the segment's last word.
LEMMA BehindWords ==
  ASSUME program \in Qspi!Programs, NEW s \in 1 .. Len(program), NEW c \in Nat,
         program[s].base + program[s].len <= c * BLOCK
  PROVE  WordsEnd(s) <= c * BLOCK
<1> DEFINE b == program[s].base
           n == program[s].len
           w == BLOCK \div WORD
           q == b \div WORD
<1>1. b \in Nat /\ n \in Nat /\ b % WORD = 0 /\ WORD \in Nat \ {0} /\ BLOCK \in Nat \ {0}
  BY SegmentsOf, Sizes
<1>2. w \in Nat /\ BLOCK = w * WORD
  BY <1>1, Sizes, Exact
<1>3. q \in Nat /\ b = q * WORD
  BY <1>1, Exact
<1> HIDE DEF w, q, b, n
<1>4. c * BLOCK = (c * w) * WORD /\ c * w \in Int
  BY <1>1, <1>2
<1>5. Qspi!RoundUp(b + n, WORD) <= (c * w) * WORD
  <2>1. b + n \in Nat /\ b + n <= (c * w) * WORD
    BY <1>1, <1>4 DEF b, n
  <2> QED BY <2>1, <1>1, <1>4, RoundUpLeast
<1>6. Qspi!RoundUp(b + n, WORD) = b + Qspi!RoundUp(n, WORD)
  BY <1>1, <1>3, RoundUpPlus
<1> QED BY <1>4, <1>5, <1>6 DEF WordsEnd, b, n

\* What a place for the loader is, as far as the first areas of the table go.
Place(to, n) ==
  /\ to \in Nat /\ L2 <= to /\ to + LOADER <= Top
  /\ to % BLOCK = 0
  /\ \A s \in 1 .. n : ApartFrom(s, to)

Moved(s, to) ==
  IF Qspi!Overlaps(to, Qspi!Table(program)[s])
  THEN Qspi!RoundUp(program[s].base + program[s].len, BLOCK) ELSE to

LEMMA TableIs ==
  ASSUME program \in Qspi!Programs
  PROVE  /\ Len(Qspi!Table(program)) = Len(program) /\ Len(program) \in Nat
         /\ \A s \in 1 .. Len(program) :
              /\ Qspi!Table(program)[s].ptr = program[s].base
              /\ Qspi!Table(program)[s].size = program[s].len
              /\ Qspi!Table(program)[s].start = Qspi!Offset(program)[s]
              /\ Qspi!Table(program)[s].blocks = Qspi!RoundUp(program[s].len, BLOCK) \div BLOCK
<1>1. Len(program) \in Nat
  BY SegmentsOf, Sizes
<1> QED BY <1>1 DEF Qspi!Table

\* One area more: behind it there is room, and no area before it is met again.
LEMMA MovedOn ==
  ASSUME program \in Qspi!Programs, NEW s \in 1 .. Len(program), NEW to, Place(to, s - 1)
  PROVE  Place(Moved(s, to), s)
<1> DEFINE b == program[s].base
           n == program[s].len
           new == Moved(s, to)
<1>1. b \in Nat /\ n \in Nat /\ b + n + BLOCK + LOADER <= Top /\ BLOCK \in Nat \ {0}
      /\ LOADER \in Nat \ {0} /\ Top \in Nat /\ L2 \in Nat
  BY SegmentsOf, Sizes
<1>2. Qspi!Table(program)[s].ptr = b /\ Qspi!Table(program)[s].size = n
  BY TableIs
<1>3. to \in Nat /\ L2 <= to /\ to + LOADER <= Top
  BY DEF Place
<1>4. CASE Qspi!Overlaps(to, Qspi!Table(program)[s])
  <2> DEFINE q == (b + n + BLOCK - 1) \div BLOCK
  <2>1. q \in Nat /\ new = q * BLOCK /\ new \in Nat /\ b + n <= new /\ new < b + n + BLOCK
    <3>1. b + n \in Nat /\ new = Qspi!RoundUp(b + n, BLOCK)
      BY <1>1, <1>4 DEF Moved
    <3> HIDE DEF new, b, n
    <3> QED BY <3>1, <1>1, RoundUpIs
  <2> HIDE DEF q, new, b, n
  <2>2. to < b + n
    BY <1>1, <1>2, <1>3, <1>4 DEF Qspi!Overlaps
  <2>3. ASSUME NEW m \in 1 .. s PROVE ApartFrom(m, new)
    <3>1. program[m].base + program[m].len <= new
      <4>1. CASE m = s
        BY <4>1, <2>1 DEF b, n
      <4>2. CASE m # s
        <5>1. m \in 1 .. Len(program) /\ m < s /\ program[m].base \in Nat /\ program[m].len \in Nat
          BY <4>2, SegmentsOf
        <5>2. program[m].base + program[m].len <= b
          BY <5>1, SegmentsOf DEF b
        <5> QED BY <5>1, <5>2, <2>1, <1>1
      <4> QED BY <4>1, <4>2
    <3>2. m \in 1 .. Len(program)
      BY SegmentsOf
    <3>3. WordsEnd(m) <= q * BLOCK
      BY <3>1, <3>2, <2>1, BehindWords
    <3> QED BY <3>3, <2>1 DEF ApartFrom
  <2>4. L2 <= new /\ new + LOADER <= Top
    BY <1>1, <1>3, <2>1, <2>2
  <2>5. new % BLOCK = 0
    BY <1>1, <2>1, Multiple
  <2> QED BY <2>1, <2>3, <2>4, <2>5 DEF Place, new
<1>5. CASE ~Qspi!Overlaps(to, Qspi!Table(program)[s])
  <2>1. new = to
    BY <1>5 DEF Moved
  <2>2. PICK c \in Nat : to = c * BLOCK
    <3>1. to % BLOCK = 0
      BY DEF Place
    <3> QED BY <3>1, <1>1, <1>3, Exact
  <2>3. b + n <= to \/ to + LOADER <= b
    <3> HIDE DEF b, n
    <3> QED BY <1>1, <1>2, <1>3, <1>5 DEF Qspi!Overlaps
  <2>4. ApartFrom(s, to)
    <3>1. CASE b + n <= to
      BY <3>1, <2>2, BehindWords DEF ApartFrom
    <3>2. CASE to + LOADER <= b
      BY <3>2 DEF ApartFrom
    <3> QED BY <2>3, <3>1, <3>2
  <2>5. \A m \in 1 .. s : m = s \/ m \in 1 .. s - 1
    BY SegmentsOf
  <2> QED BY <2>1, <2>4, <2>5 DEF Place
<1> QED BY <1>4, <1>5

\* The place that the loader finds is in L2, has room, and is in no segment's way.
LEMMA DataFit ==
  ASSUME program \in Qspi!Programs
  PROVE  Place(Qspi!find_data_fit(Qspi!Table(program)), Len(program))
<1> DEFINE tab == Qspi!Table(program)
           N == Len(program)
           to(a, addr) == IF Qspi!Overlaps(addr, a) THEN Qspi!RoundUp(a.ptr + a.size, BLOCK)
                                                    ELSE addr
           Unfold(h) == [s \in 0 .. Len(tab) |-> IF s = 0 THEN L2 ELSE to(tab[s], h[s - 1])]
           fit == CHOOSE h : h = Unfold(h)
           step == [s \in 1 .. N |-> [x \in Nat |-> Moved(s, x)]]
<1>1. Len(tab) = N /\ N \in Nat
      /\ \A s \in 1 .. N : tab[s].ptr = program[s].base /\ tab[s].size = program[s].len
  BY TableIs
<1>2. \A s \in 1 .. N : \A x : to(tab[s], x) = Moved(s, x)
  BY <1>1 DEF Moved
<1>3. ASSUME NEW s \in 1 .. N, NEW x \in Nat PROVE Moved(s, x) \in Nat
  <2>1. program[s].base + program[s].len \in Nat /\ BLOCK \in Nat \ {0}
    BY SegmentsOf, Sizes
  <2> QED BY <2>1, RoundUpIs DEF Moved
<1>4. PICK g \in [0 .. N -> Nat] : Obeys(g, L2, N, step)
  <2>1. step \in Rules(N, Nat)
    BY <1>3 DEF Rules
  <2>2. L2 \in Nat
    BY Sizes
  <2> HIDE DEF step, N
  <2> QED BY <1>1, <2>1, <2>2, Recursion
<1>5. g = Unfold(g)
  <2> SUFFICES ASSUME NEW s \in 0 .. N PROVE g[s] = Unfold(g)[s]
    BY <1>1
  <2>1. CASE s = 0
    BY <2>1, <1>1, <1>4 DEF Obeys
  <2>2. CASE s # 0
    <3>1. s \in 1 .. N /\ s - 1 \in 0 .. N
      BY <2>2, <1>1
    <3>2. g[s] = Moved(s, g[s - 1])
      BY <3>1, <1>4 DEF Obeys
    <3>3. Unfold(g)[s] = to(tab[s], g[s - 1])
      BY <2>2, <1>1
    <3> HIDE DEF to, Unfold
    <3> QED BY <3>1, <3>2, <3>3, <1>2
  <2> QED BY <2>1, <2>2
<1>6. fit = Unfold(fit)
  <2> HIDE DEF Unfold
  <2> QED BY <1>5
<1>7. Qspi!find_data_fit(tab) = fit[N]
  BY <1>1 DEF Qspi!find_data_fit
<1>8. fit[0] = L2 /\ \A s \in 1 .. N : fit[s] = Moved(s, fit[s - 1])
  <2> DEFINE r == Unfold(fit)
  <2>1. 0 \in 0 .. N /\ \A s \in 1 .. N : s \in 0 .. N /\ s # 0
    BY <1>1
  <2> HIDE DEF fit, to
  <2>2. r[0] = L2 /\ \A s \in 1 .. N : r[s] = to(tab[s], fit[s - 1])
    BY <2>1, <1>1
  <2> HIDE DEF r
  <2>3. fit = r
    BY <1>6 DEF r
  <2> QED BY <2>2, <2>3, <1>2
<1> HIDE DEF fit
<1> DEFINE T == {n \in Nat : n <= N => Place(fit[n], n)}
<1>9. 0 \in T
  <2>1. L2 \in Nat /\ L2 + LOADER <= Top
    BY Sizes
  <2>2. L2 % BLOCK = 0
    BY Sizes
  <2>3. Place(L2, 0)
    BY <2>1, <2>2 DEF Place
  <2> QED BY <2>3, <1>8
<1>10. ASSUME NEW n \in Nat, n \in T PROVE n + 1 \in T
  <2> SUFFICES ASSUME n + 1 <= N PROVE Place(fit[n + 1], n + 1)
    OBVIOUS
  <2>1. n + 1 \in 1 .. N /\ n + 1 - 1 = n /\ n <= N
    BY <1>1
  <2>2. Place(fit[n], n + 1 - 1)
    BY <1>10, <2>1
  <2>3. fit[n + 1] = Moved(n + 1, fit[n])
    BY <2>1, <1>8
  <2> QED BY <2>1, <2>2, <2>3, MovedOn
<1>11. N \in T
  <2> HIDE DEF T
  <2> QED BY <1>1, <1>9, <1>10, SetInduction
<1> QED BY <1>1, <1>7, <1>11

-----------------------------------------------------------------------------
(* The invariant of the flash loader.                                      *)

flash_table == Qspi!Table(program)

Request(what, from, to, len) ==
  [on |-> TRUE, what |-> what, from |-> from, to |-> to, len |-> len]

\* A transfer is under way, or its end has given the event.
Awaits(r) == (udma = r /\ event = FALSE) \/ (udma = Qspi!Idle /\ event = TRUE)
Quiet == udma = Qspi!Idle /\ event = FALSE

\* What each wait is for, and what has been read when it ends.
Reading ==
  /\ pc \in {"start", "header", "table", "tableRead", "area", "block", "blockRead", "jumped"}
  /\ Len(program) = 0 => mem_area = <<>>
  /\ pc \in {"start", "tableRead", "area", "block", "jumped"} => Quiet
  /\ pc = "start" => loader = 0
  /\ pc = "header" => /\ Awaits(Request("header", 0, 0, 1))
                      /\ event => nbAreas = Len(program)
  /\ pc = "table" => /\ Awaits(Request("table", 1, 0, Len(program)))
                     /\ event => mem_area = flash_table
                     /\ Len(program) > 0 /\ nbAreas = Len(program)
  /\ pc \in {"tableRead", "area", "block", "blockRead", "jumped"} =>
       nbAreas = Len(program) /\ mem_area = flash_table
  /\ pc \in {"area", "block", "blockRead", "jumped"} => loader # 0

\* The loader is where it is in no segment's way, and whole.
Placed ==
  /\ loader # 0 => Place(loader, Len(program))
  /\ Qspi!LoaderUntouched

\* The first n bytes of a segment are at their addresses.
There(s, n) ==
  \A m \in 0 .. program[s].len - 1 : m < n => mem[program[s].base + m] = Qspi!Id(s, m)

AllThere(n) == \A s \in 1 .. n : There(s, program[s].len)

\* How much of the area is done, and what is left of it.
Done == area_addr - program[i].base
Progress ==
  /\ i \in 1 .. Len(program) /\ AllThere(i - 1)
  /\ block \in Nat /\ area_addr \in Nat /\ Done \in Nat
  /\ flash_addr = Qspi!Offset(program)[i] + Done /\ size = program[i].len - Done
  /\ block < flash_table[i].blocks => Done = block * BLOCK
  /\ block >= flash_table[i].blocks => Done >= program[i].len
  /\ There(i, Done)

\* The block that is being read, straight to its place or to the buffer.
OneBlock ==
  /\ block < flash_table[i].blocks /\ iter_size = Qspi!IterSize
  /\ Awaits(IF Qspi!InL2 THEN Request("mem", flash_addr, area_addr, iter_size)
                         ELSE Request("buffer", flash_addr, 0, iter_size))
  /\ event => IF Qspi!InL2 THEN There(i, Done + iter_size) ELSE flash_buffer = flash_addr

Loading ==
  /\ pc = "area" => i \in 1 .. Len(program) + 1 /\ AllThere(i - 1)
  /\ pc = "jumped" => AllThere(Len(program))
  /\ pc \in {"block", "blockRead"} => Progress
  /\ pc = "blockRead" => OneBlock

Touched(a) == \E s \in 1 .. Len(program) : a \in program[s].base .. WordsEnd(s) - 1
OnlyProgram == \A a \in Qspi!Addresses : mem[a] \notin {Qspi!Old, Qspi!Own} => Touched(a)

FlashInv ==
  /\ program \in Qspi!Programs
  /\ Reading /\ Placed /\ Loading /\ OnlyProgram

-----------------------------------------------------------------------------
(* One block.                                                              *)

LEMMA Times ==
  ASSUME NEW a \in Int, NEW b \in Int, NEW m \in Nat, a <= b
  PROVE  a * m <= b * m
<1>1. (b - a) * m \in Nat /\ b * m = a * m + (b - a) * m /\ a * m \in Int
  OBVIOUS
<1> DEFINE x == a * m
           y == b * m
           z == (b - a) * m
<1>2. z \in Nat /\ y = x + z /\ x \in Int
  BY <1>1
<1> HIDE DEF x, y, z
<1>3. x <= y
  BY <1>2
<1> QED BY <1>3 DEF x, y

\* The blocks of a segment are those that start inside it.
LEMMA BlocksIs ==
  ASSUME program \in Qspi!Programs, NEW s \in 1 .. Len(program), NEW c \in Nat
  PROVE  c < flash_table[s].blocks <=> c * BLOCK < program[s].len
<1> DEFINE n == program[s].len
           q == (n + BLOCK - 1) \div BLOCK
<1>1. n \in Nat /\ BLOCK \in Nat \ {0}
  BY SegmentsOf, Sizes
<1>2. q \in Nat /\ Qspi!RoundUp(n, BLOCK) = q * BLOCK /\ n <= q * BLOCK /\ q * BLOCK < n + BLOCK
  BY <1>1, RoundUpIs
<1> HIDE DEF q
<1>3. (q * BLOCK) \div BLOCK = q
  BY <1>1, <1>2
<1>4. flash_table[s].blocks = q
  BY <1>2, <1>3, TableIs DEF flash_table
<1> HIDE DEF n
<1>5. ASSUME c < q PROVE c * BLOCK < n
  <2>1. (c + 1) * BLOCK <= q * BLOCK
    BY <1>1, <1>2, <1>5, Times
  <2>2. (c + 1) * BLOCK = c * BLOCK + BLOCK /\ c * BLOCK \in Nat /\ q * BLOCK \in Nat
    BY <1>1, <1>2
  <2> QED BY <2>1, <2>2, <1>1, <1>2
<1>6. ASSUME q <= c PROVE n <= c * BLOCK
  <2>1. q * BLOCK <= c * BLOCK
    BY <1>1, <1>2, <1>6, Times
  <2>2. q * BLOCK \in Nat /\ c * BLOCK \in Nat
    BY <1>1, <1>2
  <2> QED BY <2>1, <2>2, <1>1, <1>2
<1>7. c * BLOCK \in Nat
  BY <1>1
<1> QED BY <1>1, <1>2, <1>4, <1>5, <1>6, <1>7 DEF n

\* A block ends in the segment's last word, and the next one follows it.
LEMMA BlockIs ==
  ASSUME program \in Qspi!Programs, Progress, block < flash_table[i].blocks
  PROVE  /\ Qspi!IterSize \in Nat /\ Done \in Nat
         /\ area_addr = program[i].base + Done /\ Done < program[i].len
         /\ program[i].base \in Nat /\ program[i].len \in Nat
         /\ area_addr + Qspi!IterSize <= WordsEnd(i)
         /\ block + 1 < flash_table[i].blocks => Done + Qspi!IterSize = (block + 1) * BLOCK
         /\ block + 1 >= flash_table[i].blocks => Done + Qspi!IterSize >= program[i].len
<1> DEFINE b == program[i].base
           n == program[i].len
           d == Done
           x == Qspi!IterSize
<1>1. b \in Nat /\ n \in Nat /\ BLOCK \in Nat \ {0} /\ WORD \in Nat \ {0}
  BY SegmentsOf, Sizes DEF Progress
<1>2. block \in Nat /\ d = block * BLOCK /\ d \in Nat /\ size = n - d /\ i \in 1 .. Len(program)
  BY DEF Progress
<1>3. area_addr = b + d
  <2>1. area_addr \in Int
    BY DEF Progress
  <2>2. d = area_addr - b
    BY DEF Done
  <2> HIDE DEF d, b
  <2> QED BY <2>1, <2>2, <1>1, <1>2
<1>4. d < n
  BY <1>2, BlocksIs
<1>5. (block + 1) * BLOCK = d + BLOCK
  BY <1>1, <1>2
<1>6. block + 1 < flash_table[i].blocks => d + BLOCK < n
  <2>1. block + 1 \in Nat /\ (block + 1 < flash_table[i].blocks <=> (block + 1) * BLOCK < n)
    BY <1>2, BlocksIs
  <2> HIDE DEF n, d
  <2> QED BY <2>1, <1>5
<1>7. block + 1 >= flash_table[i].blocks => d + BLOCK >= n
  <2>1. flash_table[i].blocks \in Int
    <3>1. Qspi!RoundUp(n, BLOCK) \in Nat
      BY <1>1, RoundUpIs
    <3>2. flash_table[i].blocks = Qspi!RoundUp(n, BLOCK) \div BLOCK
      BY <1>2, TableIs DEF flash_table
    <3> HIDE DEF n
    <3> QED BY <3>1, <3>2, <1>1
  <2>2. block + 1 \in Nat /\ (block + 1 < flash_table[i].blocks <=> (block + 1) * BLOCK < n)
    BY <1>2, BlocksIs
  <2> HIDE DEF n, d
  <2> QED BY <2>1, <2>2, <1>1, <1>2, <1>5
<1> DEFINE w == Qspi!RoundUp(n - d, WORD)
           w0 == Qspi!RoundUp(n, WORD)
<1>8. w \in Nat /\ n - d <= w /\ w0 \in Nat /\ n <= w0 /\ w0 = d + w
  <2>1. n - d \in Nat
    <3> HIDE DEF n, d
    <3> QED BY <1>1, <1>2, <1>4
  <2>2. w \in Nat /\ n - d <= w /\ w0 \in Nat /\ n <= w0
    BY <2>1, <1>1, RoundUpIs
  <2> DEFINE v == BLOCK \div WORD
  <2>3. v \in Nat /\ BLOCK = v * WORD
    BY <1>1, Sizes, Exact
  <2> HIDE DEF v, w, w0
  <2>4. block * v \in Nat /\ d = (block * v) * WORD
    BY <1>1, <1>2, <2>3
  <2>5. Qspi!RoundUp((block * v) * WORD + (n - d), WORD)
          = (block * v) * WORD + Qspi!RoundUp(n - d, WORD)
    BY <1>1, <2>1, <2>4, RoundUpPlus
  <2>6. (block * v) * WORD + (n - d) = n
    <3> HIDE DEF n, d
    <3> QED BY <1>1, <1>2, <2>4
  <2>7. w0 = d + w
    BY <2>4, <2>5, <2>6 DEF w, w0
  <2> QED BY <2>2, <2>7
<1>9. x = IF BLOCK > n - d THEN w ELSE BLOCK
  BY <1>2 DEF Qspi!IterSize
<1>10. WordsEnd(i) = b + w0
  BY DEF WordsEnd
<1> HIDE DEF b, n, d, x, w, w0
<1>11. x \in Nat /\ area_addr + x <= WordsEnd(i)
  BY <1>1, <1>2, <1>3, <1>4, <1>8, <1>9, <1>10
<1>12. block + 1 < flash_table[i].blocks => d + x = (block + 1) * BLOCK
  BY <1>1, <1>2, <1>5, <1>6, <1>8, <1>9
<1>13. block + 1 >= flash_table[i].blocks => d + x >= n
  BY <1>1, <1>2, <1>7, <1>8, <1>9
<1> QED BY <1>1, <1>2, <1>3, <1>4, <1>11, <1>12, <1>13 DEF b, n, d, x

\* A block from the flash is where it belongs, and nothing else is touched.
LEMMA BlockCopied ==
  ASSUME FlashInv, Progress, block < flash_table[i].blocks, iter_size = Qspi!IterSize,
         loader # 0, UNCHANGED <<program, loader>>,
         mem' = Qspi!Copied(flash_addr, area_addr, iter_size)
  PROVE  /\ Placed' /\ OnlyProgram'
         /\ \A s \in 1 .. i - 1 : There(s, program[s].len)'
         /\ \A m \in 0 .. program[i].len - 1 : m < Done + iter_size =>
              mem'[program[i].base + m] = Qspi!Id(i, m)
<1> DEFINE b == program[i].base
           n == program[i].len
           d == Done
           x == iter_size
<1>1. program \in Qspi!Programs
  BY DEF FlashInv
<1>2. /\ x \in Nat /\ d \in Nat /\ area_addr = b + d /\ d < n /\ b \in Nat /\ n \in Nat
      /\ area_addr + x <= WordsEnd(i)
  BY <1>1, BlockIs
<1>3. i \in 1 .. Len(program) /\ Len(program) \in Nat
  BY <1>1, TableIs DEF Progress
<1>4. \A a \in Qspi!Addresses :
        mem'[a] = IF a \in b + d .. b + d + x - 1 THEN Qspi!Flash(flash_addr + a - area_addr)
                                                 ELSE mem[a]
  BY <1>2 DEF Qspi!Copied
<1>5. \A s \in 1 .. Len(program) :
        /\ program[s].base \in Nat /\ program[s].len \in Nat /\ WordsEnd(s) \in Nat
        /\ program[s].base + program[s].len <= Top /\ Top \in Nat
  <2> SUFFICES ASSUME NEW s \in 1 .. Len(program)
               PROVE  /\ program[s].base \in Nat /\ program[s].len \in Nat /\ WordsEnd(s) \in Nat
                      /\ program[s].base + program[s].len <= Top /\ Top \in Nat
    OBVIOUS
  <2>1. /\ program[s].base \in Nat /\ program[s].len \in Nat /\ Top \in Nat
        /\ program[s].base + program[s].len + BLOCK + LOADER <= Top
        /\ BLOCK \in Nat /\ LOADER \in Nat /\ WORD \in Nat \ {0}
    BY <1>1, SegmentsOf, Sizes
  <2>2. Qspi!RoundUp(program[s].len, WORD) \in Nat
    BY <2>1, RoundUpIs
  <2> QED BY <2>1, <2>2 DEF WordsEnd
<1>6. Place(loader, Len(program)) /\ \A a \in loader .. loader + LOADER - 1 : mem[a] = Qspi!Own
  BY DEF FlashInv, Placed, Qspi!LoaderUntouched
<1>7. LOADER \in Nat \ {0} /\ Top \in Nat
  BY Sizes
<1>8. loader \in Nat /\ loader + LOADER <= Top /\ (WordsEnd(i) <= loader \/ loader + LOADER <= b)
  BY <1>3, <1>6 DEF Place, ApartFrom
<1>9. Placed'
  <2>1. \A a \in loader .. loader + LOADER - 1 : mem'[a] = Qspi!Own
    <3> SUFFICES ASSUME NEW a \in loader .. loader + LOADER - 1 PROVE mem'[a] = Qspi!Own
      OBVIOUS
    <3>1. a \in Qspi!Addresses
      BY <1>7, <1>8 DEF Qspi!Addresses
    <3>2. a \notin b + d .. b + d + x - 1
      <4>1. WordsEnd(i) \in Nat
        BY <1>3, <1>5
      <4> HIDE DEF b, d, x
      <4> QED BY <4>1, <1>2, <1>7, <1>8
    <3> QED BY <3>1, <3>2, <1>4, <1>6
  <2>2. Place(loader, Len(program))'
    BY <1>6 DEF Place, ApartFrom, WordsEnd
  <2> QED BY <2>1, <2>2 DEF Placed, Qspi!LoaderUntouched
<1>10. OnlyProgram'
  <2> SUFFICES ASSUME NEW a \in Qspi!Addresses, mem'[a] \notin {Qspi!Old, Qspi!Own}
               PROVE  Touched(a)
    BY DEF OnlyProgram, Touched, WordsEnd
  <2>1. CASE a \in b + d .. b + d + x - 1
    <3>1. WordsEnd(i) \in Nat /\ a \in Int
      BY <1>3, <1>5 DEF Qspi!Addresses
    <3>2. a \in b .. WordsEnd(i) - 1
      <4> HIDE DEF b, d, x
      <4> QED BY <3>1, <1>2, <2>1
    <3> QED BY <3>2, <1>3 DEF Touched
  <2>2. CASE a \notin b + d .. b + d + x - 1
    <3>1. mem[a] \notin {Qspi!Old, Qspi!Own}
      BY <2>2, <1>4
    <3> QED BY <3>1 DEF FlashInv, OnlyProgram
  <2> QED BY <2>1, <2>2
<1>11. \A s \in 1 .. i - 1 : There(s, program[s].len)'
  <2> SUFFICES ASSUME NEW s \in 1 .. i - 1, NEW m \in 0 .. program[s].len - 1
               PROVE  mem'[program[s].base + m] = Qspi!Id(s, m)
    BY DEF There
  <2>1. s \in 1 .. Len(program) /\ s < i
    BY <1>3
  <2>2. program[s].base + program[s].len <= b
    BY <2>1, <1>1, <1>3, SegmentsOf
  <2>3. mem[program[s].base + m] = Qspi!Id(s, m)
    <3>1. m < program[s].len
      BY <1>5, <2>1
    <3> QED BY <3>1 DEF Progress, AllThere, There
  <2>4. program[s].base + m \in Qspi!Addresses
    BY <1>5, <2>1 DEF Qspi!Addresses
  <2>5. program[s].base + m \notin b + d .. b + d + x - 1
    <3>1. program[s].base \in Nat /\ program[s].len \in Nat
      BY <2>1, <1>5
    <3> HIDE DEF b, d, x
    <3> QED BY <3>1, <1>2, <2>2
  <2> QED BY <2>3, <2>4, <2>5, <1>4
<1>13. ASSUME NEW m \in 0 .. n - 1, m < d + x PROVE mem'[b + m] = Qspi!Id(i, m)
  <2>1. b + m \in Qspi!Addresses
    BY <1>3, <1>5 DEF Qspi!Addresses
  <2>2. CASE m < d
    <3>1. mem[b + m] = Qspi!Id(i, m)
      BY <2>2 DEF Progress, There
    <3>2. b + m \notin b + d .. b + d + x - 1
      <4> HIDE DEF b, d, x, n
      <4> QED BY <1>2, <2>2
    <3> QED BY <3>1, <3>2, <2>1, <1>4
  <2>3. CASE m >= d
    <3>1. flash_addr = Qspi!Offset(program)[i] + d
      BY DEF Progress
    <3>2. Qspi!Offset(program)[i] \in Nat
      BY <1>1, <1>3, Offsets
    <3> DEFINE o == Qspi!Offset(program)[i]
    <3>3. flash_addr + (b + m) - area_addr = o + m /\ b + m \in b + d .. b + d + x - 1
      <4> HIDE DEF b, d, x, n, o
      <4> QED BY <1>2, <1>13, <2>3, <3>1, <3>2 DEF o
    <3>4. Qspi!Flash(o + m) = Qspi!Id(i, m)
      BY <1>1, <1>3, InFlash
    <3> HIDE DEF o
    <3> QED BY <3>3, <3>4, <2>1, <1>4
  <2>4. m < d \/ m >= d
    <3> HIDE DEF d, n
    <3> QED BY <1>2
  <2> QED BY <2>2, <2>3, <2>4
<1> QED BY <1>9, <1>10, <1>11, <1>13

-----------------------------------------------------------------------------
(* The steps of the flash loader.                                          *)

\* What depends on the program and on memory only.
LEMMA MemoryKept ==
  ASSUME FlashInv, UNCHANGED <<program, loader, mem>>
  PROVE  /\ (program \in Qspi!Programs)' /\ Placed' /\ OnlyProgram'
         /\ flash_table' = flash_table
         /\ \A s, n : There(s, n)' <=> There(s, n)
<1>1. program' = program /\ loader' = loader /\ mem' = mem
  OBVIOUS
<1>2. Placed'
  BY <1>1 DEF FlashInv, Placed, Qspi!LoaderUntouched, Place, ApartFrom, WordsEnd
<1>3. OnlyProgram'
  BY <1>1 DEF FlashInv, OnlyProgram, Touched, WordsEnd
<1>4. flash_table' = flash_table
  BY <1>1 DEF flash_table
<1>5. \A s, n : There(s, n)' <=> There(s, n)
  BY <1>1 DEF There
<1> QED BY <1>1, <1>2, <1>3, <1>4, <1>5 DEF FlashInv

LEMMA StartStep ==
  ASSUME FlashInv, Qspi!Start
  PROVE  FlashInv'
<1>1. UNCHANGED <<program, loader, mem, mem_area, nbAreas, event>> /\ pc = "start" /\ pc' = "header"
      /\ udma' = Request("header", 0, 0, 1)
  BY DEF Qspi!Start, Qspi!Read, Request
<1>2. Reading'
  BY <1>1 DEF FlashInv, Reading, Quiet, Awaits, Request
<1>3. Loading'
  BY <1>1 DEF Loading
<1> QED BY <1>1, <1>2, <1>3, MemoryKept DEF FlashInv

LEMMA HeaderStep ==
  ASSUME FlashInv, Qspi!GotHeader
  PROVE  FlashInv'
<1>1. UNCHANGED <<program, loader, mem, mem_area, nbAreas>> /\ pc = "header"
  BY DEF Qspi!GotHeader
<1>2. event = TRUE /\ event' = FALSE /\ udma = Qspi!Idle /\ nbAreas = Len(program)
  BY <1>1 DEF Qspi!GotHeader, Qspi!Waited, FlashInv, Reading, Awaits
<1>3. Len(program) \in 0 .. MaxSegments /\ MaxSegments \in Nat /\ MaxSegments <= MAX_NB_AREA
  BY SegmentsOf, Sizes DEF FlashInv
<1> DEFINE n == IF nbAreas >= MAX_NB_AREA THEN MAX_NB_AREA ELSE nbAreas
<1>4. n = Len(program)
  <2>1. MAX_NB_AREA \in Int
    BY BootAssumption DEF BootAssumption, Qspi!BootFlashAssumption
  <2> QED BY <1>2, <1>3, <2>1
<1>5. IF n > 0 THEN pc' = "table" /\ udma' = Request("table", 1, 0, n)
                ELSE pc' = "tableRead" /\ UNCHANGED udma
  BY DEF Qspi!GotHeader, Qspi!Read, Request
<1> HIDE DEF n
<1>6. Len(program) = 0 => flash_table = mem_area
  <2> SUFFICES ASSUME Len(program) = 0 PROVE flash_table = <<>>
    BY DEF FlashInv, Reading
  <2> QED BY DEF flash_table, Qspi!Table
<1>7. flash_table' = flash_table
  BY <1>1 DEF flash_table
<1>8. Reading'
  <2>1. CASE n > 0
    BY <2>1, <1>1, <1>2, <1>3, <1>4, <1>5 DEF FlashInv, Reading, Awaits
  <2>2. CASE ~(n > 0)
    <3>1. Len(program) = 0
      BY <2>2, <1>3, <1>4
    <3> QED BY <3>1, <2>2, <1>1, <1>2, <1>5, <1>6, <1>7 DEF FlashInv, Reading, Quiet
  <2> QED BY <2>1, <2>2
<1>9. Loading'
  BY <1>5 DEF Loading
<1> QED BY <1>1, <1>8, <1>9, MemoryKept DEF FlashInv

LEMMA TableStep ==
  ASSUME FlashInv, Qspi!GotTable
  PROVE  FlashInv'
<1>1. UNCHANGED <<program, loader, mem, mem_area, nbAreas, udma>> /\ pc = "table"
      /\ pc' = "tableRead" /\ event = TRUE /\ event' = FALSE
  BY DEF Qspi!GotTable, Qspi!Waited
<1>2. flash_table' = flash_table
  BY <1>1 DEF flash_table
<1>3. Reading'
  BY <1>1, <1>2 DEF FlashInv, Reading, Awaits, Quiet
<1>4. Loading'
  BY <1>1 DEF Loading
<1> QED BY <1>1, <1>3, <1>4, MemoryKept DEF FlashInv

\* The loader's own move: to a place that is in no segment's way.
LEMMA RelocateStep ==
  ASSUME FlashInv, Qspi!Relocate
  PROVE  FlashInv'
<1> DEFINE to == Qspi!find_data_fit(mem_area)
<1>1. /\ UNCHANGED <<program, mem_area, nbAreas, event>> /\ pc = "tableRead" /\ pc' = "header"
      /\ loader' = to /\ udma' = Request("header", 0, 0, 1)
      /\ mem' = [a \in Qspi!Addresses |->
                   IF a \in to .. to + LOADER - 1 THEN Qspi!Own ELSE mem[a]]
  BY DEF Qspi!Relocate, Qspi!Read, Request
<1>2. Place(to, Len(program))
  BY <1>1, DataFit DEF FlashInv, Reading, flash_table
<1>3. Place(to, Len(program))'
  BY <1>1, <1>2 DEF Place, ApartFrom, WordsEnd
<1> HIDE DEF to
<1>4. Reading'
  <2>1. loader' # 0
    BY <1>1, <1>2, Sizes DEF Place
  <2>2. Quiet
    BY <1>1 DEF FlashInv, Reading
  <2> QED BY <2>1, <2>2, <1>1 DEF FlashInv, Reading, Awaits, Quiet
<1>5. Placed'
  <2>1. \A a \in to .. to + LOADER - 1 : a \in Qspi!Addresses
    <3>1. to \in Nat /\ to + LOADER <= Top /\ LOADER \in Nat /\ Top \in Nat
      BY <1>2, Sizes DEF Place
    <3> QED BY <3>1 DEF Qspi!Addresses
  <2>2. \A a \in to .. to + LOADER - 1 : mem'[a] = Qspi!Own
    BY <2>1, <1>1
  <2>3. to' = to
    BY <1>1 DEF to
  <2> QED BY <2>2, <2>3, <1>1, <1>2, <1>3 DEF Placed, Qspi!LoaderUntouched
<1>6. OnlyProgram'
  <2> SUFFICES ASSUME NEW a \in Qspi!Addresses, mem'[a] \notin {Qspi!Old, Qspi!Own}
               PROVE  Touched(a)
    BY <1>1 DEF OnlyProgram, Touched, WordsEnd
  <2>1. mem'[a] = mem[a]
    BY <1>1
  <2> QED BY <2>1 DEF FlashInv, OnlyProgram
<1>7. Loading'
  BY <1>1 DEF Loading
<1> QED BY <1>1, <1>4, <1>5, <1>6, <1>7 DEF FlashInv

LEMMA BeginLoadStep ==
  ASSUME FlashInv, Qspi!BeginLoad
  PROVE  FlashInv'
<1>1. /\ UNCHANGED <<program, loader, mem, mem_area, nbAreas, udma, event>>
      /\ pc = "tableRead" /\ loader # 0 /\ pc' = "area" /\ i' = 1
  BY DEF Qspi!BeginLoad, Qspi!ioVars
<1>2. flash_table' = flash_table
  BY <1>1 DEF flash_table
<1>3. Reading'
  BY <1>1, <1>2 DEF FlashInv, Reading, Quiet
<1>4. Loading'
  <2>1. Len(program) \in Nat
    BY TableIs DEF FlashInv
  <2>2. i' \in 1 .. Len(program') + 1
    BY <2>1, <1>1
  <2>3. AllThere(i - 1)'
    BY <1>1 DEF AllThere
  <2> QED BY <2>2, <2>3, <1>1 DEF Loading
<1> QED BY <1>1, <1>3, <1>4, MemoryKept DEF FlashInv

LEMMA BeginAreaStep ==
  ASSUME FlashInv, Qspi!BeginArea
  PROVE  FlashInv'
<1>1. /\ UNCHANGED <<program, loader, mem, mem_area, nbAreas, udma, event, i>>
      /\ pc = "area" /\ pc' = "block" /\ i <= nbAreas /\ block' = 0
      /\ area_addr' = mem_area[i].ptr /\ flash_addr' = mem_area[i].start
      /\ size' = mem_area[i].size
  BY DEF Qspi!BeginArea, Qspi!ioVars
<1>2. flash_table' = flash_table /\ \A s, n : There(s, n)' <=> There(s, n)
  BY <1>1, MemoryKept
<1>3. Reading'
  BY <1>1, <1>2 DEF FlashInv, Reading, Quiet
<1>4. program \in Qspi!Programs /\ mem_area = flash_table /\ nbAreas = Len(program)
  BY <1>1 DEF FlashInv, Reading
<1>5. i \in 1 .. Len(program)
  BY <1>1, <1>4, TableIs DEF FlashInv, Loading
<1>6. /\ program[i].base \in Nat /\ program[i].len \in Nat /\ Qspi!Offset(program)[i] \in Nat
      /\ area_addr' = program[i].base /\ flash_addr' = Qspi!Offset(program)[i]
      /\ size' = program[i].len
  BY <1>1, <1>4, <1>5, SegmentsOf, Offsets, TableIs DEF flash_table
<1>7. Progress'
  <2>1. Done' = 0
    BY <1>1, <1>6 DEF Done
  <2>2. AllThere(i - 1)'
    <3>1. AllThere(i - 1)
      BY <1>1 DEF FlashInv, Loading
    <3> QED BY <3>1, <1>1, <1>2 DEF AllThere
  <2>3. There(i, Done)'
    <3>1. \A m \in 0 .. program'[i'].len - 1 : ~(m < 0)
      BY <1>1, <1>6
    <3> QED BY <2>1, <3>1 DEF There
  <2>4. 0 * BLOCK = 0 /\ BLOCK \in Nat
    BY Sizes
  <2>5. block' >= flash_table'[i'].blocks => Done' >= program'[i'].len
    <3>1. flash_table[i].blocks \in Int
      <4>1. Qspi!RoundUp(program[i].len, BLOCK) \in Nat /\ BLOCK \in Nat \ {0}
        BY <1>6, Sizes, RoundUpIs
      <4>2. flash_table[i].blocks = Qspi!RoundUp(program[i].len, BLOCK) \div BLOCK
        BY <1>4, <1>5, TableIs DEF flash_table
      <4> QED BY <4>1, <4>2
    <3>2. 0 < program[i].len => 0 < flash_table[i].blocks
      BY <2>4, <1>4, <1>5, BlocksIs
    <3> QED BY <3>1, <3>2, <2>1, <1>1, <1>2, <1>6
  <2> QED BY <2>1, <2>2, <2>3, <2>4, <2>5, <1>1, <1>2, <1>5, <1>6 DEF Progress
<1>8. Loading'
  BY <1>1, <1>7 DEF Loading
<1> QED BY <1>1, <1>3, <1>8, MemoryKept DEF FlashInv

LEMMA ReadBlockStep ==
  ASSUME FlashInv, Qspi!ReadBlock
  PROVE  FlashInv'
<1>1. /\ UNCHANGED <<program, loader, mem, mem_area, nbAreas, event, i, block, area_addr,
                     flash_addr, size, flash_buffer>>
      /\ pc = "block" /\ pc' = "blockRead" /\ block < mem_area[i].blocks
      /\ iter_size' = Qspi!IterSize
      /\ udma' = IF Qspi!InL2 THEN Request("mem", flash_addr, area_addr, iter_size')
                              ELSE Request("buffer", flash_addr, 0, iter_size')
  BY DEF Qspi!ReadBlock, Qspi!Read, Request
<1>2. flash_table' = flash_table /\ \A s, n : There(s, n)' <=> There(s, n)
  BY <1>1, MemoryKept
<1>3. event = FALSE /\ mem_area = flash_table
  BY <1>1 DEF FlashInv, Reading, Quiet
<1>4. Reading'
  BY <1>1, <1>2 DEF FlashInv, Reading
<1>5. Progress'
  <2>1. Progress
    BY <1>1 DEF FlashInv, Loading
  <2>2. Done' = Done
    BY <1>1 DEF Done
  <2>3. AllThere(i - 1)' /\ There(i, Done)'
    BY <2>1, <2>2, <1>1, <1>2 DEF Progress, AllThere, There
  <2> QED BY <2>1, <2>2, <2>3, <1>1, <1>2 DEF Progress
<1>6. OneBlock'
  <2>1. Qspi!IterSize' = Qspi!IterSize /\ (Qspi!InL2' <=> Qspi!InL2)
    BY <1>1 DEF Qspi!IterSize, Qspi!InL2
  <2>2. udma' = IF Qspi!InL2' THEN Request("mem", flash_addr', area_addr', iter_size')
                              ELSE Request("buffer", flash_addr', 0, iter_size')
    BY <2>1, <1>1
  <2> QED BY <2>1, <2>2, <1>1, <1>2, <1>3 DEF OneBlock, Awaits, Request
<1>7. Loading'
  BY <1>1, <1>5, <1>6 DEF Loading
<1> QED BY <1>1, <1>4, <1>7, MemoryKept DEF FlashInv

LEMMA GotBlockStep ==
  ASSUME FlashInv, Qspi!GotBlock
  PROVE  FlashInv'
<1>1. /\ UNCHANGED <<program, loader, mem_area, nbAreas, udma, i, iter_size>>
      /\ pc = "blockRead" /\ pc' = "block" /\ event = TRUE /\ event' = FALSE
      /\ area_addr' = area_addr + iter_size /\ flash_addr' = flash_addr + iter_size
      /\ size' = size - iter_size /\ block' = block + 1
      /\ mem' = IF Qspi!InL2 THEN mem ELSE Qspi!Copied(flash_buffer, area_addr, iter_size)
  BY DEF Qspi!GotBlock, Qspi!Waited
<1>2. /\ program \in Qspi!Programs /\ Progress /\ OneBlock /\ loader # 0
      /\ mem_area = flash_table /\ nbAreas = Len(program)
  BY <1>1 DEF FlashInv, Loading, Reading
<1>3. block < flash_table[i].blocks /\ iter_size = Qspi!IterSize /\ udma = Qspi!Idle
  BY <1>1, <1>2 DEF OneBlock, Awaits
<1>4. /\ iter_size \in Nat /\ Done \in Nat /\ area_addr = program[i].base + Done
      /\ program[i].base \in Nat /\ program[i].len \in Nat
      /\ block + 1 < flash_table[i].blocks => Done + iter_size = (block + 1) * BLOCK
      /\ block + 1 >= flash_table[i].blocks => Done + iter_size >= program[i].len
  BY <1>2, <1>3, BlockIs
<1>5. flash_table' = flash_table
  BY <1>1 DEF flash_table
<1>6. /\ Placed' /\ OnlyProgram'
      /\ \A s \in 1 .. i - 1 : There(s, program[s].len)'
      /\ \A m \in 0 .. program[i].len - 1 : m < Done + iter_size =>
           mem'[program[i].base + m] = Qspi!Id(i, m)
  <2>1. CASE Qspi!InL2
    <3>1. mem' = mem
      BY <1>1, <2>1
    <3>2. There(i, Done + iter_size) /\ AllThere(i - 1)
      BY <1>1, <1>2, <2>1 DEF OneBlock, Progress
    <3>3. Placed' /\ OnlyProgram' /\ \A s, n : There(s, n)' <=> There(s, n)
      BY <1>1, <3>1, MemoryKept
    <3>4. \A s \in 1 .. i - 1 : There(s, program[s].len)'
      BY <3>2, <3>3, <1>1 DEF AllThere, There
    <3>5. \A m \in 0 .. program[i].len - 1 : m < Done + iter_size =>
            mem'[program[i].base + m] = Qspi!Id(i, m)
      BY <3>1, <3>2 DEF There
    <3> QED BY <3>3, <3>4, <3>5
  <2>2. CASE ~Qspi!InL2
    <3>1. flash_buffer = flash_addr
      BY <1>1, <1>2, <2>2 DEF OneBlock
    <3>2. mem' = Qspi!Copied(flash_addr, area_addr, iter_size)
      BY <1>1, <2>2, <3>1
    <3> QED BY <3>2, <1>1, <1>2, <1>3, BlockCopied
  <2> QED BY <2>1, <2>2
<1>7. Done' = Done + iter_size
  BY <1>1, <1>4 DEF Done
<1>8. AllThere(i - 1)'
  BY <1>1, <1>6 DEF AllThere
<1>9. There(i, Done)'
  BY <1>1, <1>6, <1>7 DEF There
<1>10. Progress'
  <2>1. /\ i' \in 1 .. Len(program') /\ block \in Nat
        /\ flash_addr = Qspi!Offset(program)[i] + Done /\ size = program[i].len - Done
        /\ Qspi!Offset(program)[i] \in Nat
    BY <1>1, <1>2, Offsets DEF Progress
  <2>2. flash_addr' = Qspi!Offset(program)[i] + Done' /\ size' = program[i].len - Done'
        /\ area_addr' \in Nat /\ Done' \in Nat /\ block' \in Nat
    <3> DEFINE o == Qspi!Offset(program)[i]
               n == program[i].len
               b == program[i].base
               d == Done
               d1 == Done'
    <3>1. /\ o \in Nat /\ n \in Nat /\ b \in Nat /\ d \in Nat /\ iter_size \in Nat
          /\ flash_addr = o + d /\ size = n - d /\ area_addr = b + d /\ d1 = d + iter_size
      BY <2>1, <1>4, <1>7
    <3> HIDE DEF o, n, b, d, d1
    <3>2. flash_addr' = o + d1 /\ size' = n - d1 /\ area_addr' \in Nat /\ d1 \in Nat
          /\ block' \in Nat
      BY <3>1, <2>1, <1>1
    <3> QED BY <3>2 DEF o, n, d1
  <2>3. /\ block' < flash_table'[i'].blocks => Done' = block' * BLOCK
        /\ block' >= flash_table'[i'].blocks => Done' >= program'[i'].len
    BY <1>1, <1>4, <1>5, <1>7
  <2> QED BY <2>1, <2>2, <2>3, <1>1, <1>8, <1>9 DEF Progress
<1>11. Reading'
  BY <1>1, <1>2, <1>3, <1>5 DEF FlashInv, Reading, Quiet
<1>12. Loading'
  BY <1>1, <1>10 DEF Loading
<1> QED BY <1>1, <1>2, <1>6, <1>11, <1>12 DEF FlashInv

LEMMA EndAreaStep ==
  ASSUME FlashInv, Qspi!EndArea
  PROVE  FlashInv'
<1>1. /\ UNCHANGED <<program, loader, mem, mem_area, nbAreas, udma, event>>
      /\ pc = "block" /\ pc' = "area" /\ block >= mem_area[i].blocks /\ i' = i + 1
  BY DEF Qspi!EndArea, Qspi!ioVars
<1>2. flash_table' = flash_table /\ \A s, n : There(s, n)' <=> There(s, n)
  BY <1>1, MemoryKept
<1>3. Progress /\ mem_area = flash_table /\ program \in Qspi!Programs
  BY <1>1 DEF FlashInv, Reading, Loading
<1>4. i \in 1 .. Len(program) /\ Len(program) \in Nat /\ Done >= program[i].len /\ Done \in Nat
      /\ program[i].len \in Nat
  BY <1>1, <1>3, SegmentsOf, TableIs DEF Progress
<1>5. There(i, program[i].len)
  <2>1. There(i, Done)
    BY <1>3 DEF Progress
  <2>2. \A m \in 0 .. program[i].len - 1 : m < Done
    <3> HIDE DEF Done
    <3> QED BY <1>4
  <2> QED BY <2>1, <2>2 DEF There
<1>6. AllThere(i - 1)'
  <2> SUFFICES ASSUME NEW s \in 1 .. i' - 1 PROVE There(s, program[s].len)'
    BY DEF AllThere
  <2>1. s = i \/ s \in 1 .. i - 1
    BY <1>1, <1>4
  <2>2. There(s, program[s].len)
    BY <2>1, <1>3, <1>5 DEF Progress, AllThere
  <2> QED BY <2>2, <1>1, <1>2 DEF There
<1>7. Reading'
  BY <1>1, <1>2 DEF FlashInv, Reading, Quiet
<1>8. Loading'
  <2>1. i' \in 1 .. Len(program') + 1
    BY <1>1, <1>4
  <2> QED BY <2>1, <1>1, <1>6 DEF Loading
<1> QED BY <1>1, <1>7, <1>8, MemoryKept DEF FlashInv

LEMMA JumpStep ==
  ASSUME FlashInv, Qspi!Jump
  PROVE  FlashInv'
<1>1. /\ UNCHANGED <<program, loader, mem, mem_area, nbAreas, udma, event, i>>
      /\ pc = "area" /\ pc' = "jumped" /\ i > nbAreas
  BY DEF Qspi!Jump, Qspi!ioVars, Qspi!loopVars
<1>2. flash_table' = flash_table /\ \A s, n : There(s, n)' <=> There(s, n)
  BY <1>1, MemoryKept
<1>3. nbAreas = Len(program) /\ i \in 1 .. Len(program) + 1 /\ AllThere(i - 1)
      /\ Len(program) \in Nat
  BY <1>1, TableIs DEF FlashInv, Reading, Loading
<1>4. i - 1 = Len(program)
  BY <1>1, <1>3
<1>5. AllThere(Len(program))'
  <2>1. AllThere(Len(program))
    BY <1>3, <1>4
  <2> QED BY <2>1, <1>1, <1>2 DEF AllThere, There
<1>6. Reading'
  BY <1>1, <1>2 DEF FlashInv, Reading, Quiet
<1>7. Loading'
  BY <1>1, <1>5 DEF Loading
<1> QED BY <1>1, <1>6, <1>7, MemoryKept DEF FlashInv

LEMMA TransferStep ==
  ASSUME FlashInv, Qspi!Transfer
  PROVE  FlashInv'
<1>1. /\ UNCHANGED <<program, pc, loader, i, block, area_addr, flash_addr, size, iter_size>>
      /\ udma.on /\ udma' = Qspi!Idle /\ event' = TRUE
      /\ nbAreas' = IF udma.what = "header" THEN Len(program) ELSE nbAreas
      /\ mem_area' = IF udma.what = "table" THEN SubSeq(flash_table, 1, udma.len) ELSE mem_area
      /\ flash_buffer' = IF udma.what = "buffer" THEN udma.from ELSE flash_buffer
      /\ mem' = IF udma.what = "mem" THEN Qspi!Copied(udma.from, udma.to, udma.len) ELSE mem
  BY DEF Qspi!Transfer, Qspi!loopVars, flash_table
<1>2. Qspi!Idle.on = FALSE
  BY DEF Qspi!Idle
<1>3. program \in Qspi!Programs /\ ~Quiet
  BY <1>1, <1>2 DEF FlashInv, Quiet
<1>4. flash_table' = flash_table
  BY <1>1 DEF flash_table
<1>5. pc \in {"header", "table", "blockRead"}
  BY <1>3 DEF FlashInv, Reading
<1>6. CASE pc = "header"
  <2>1. udma.what = "header"
    BY <1>1, <1>2, <1>6 DEF FlashInv, Reading, Awaits, Request
  <2>2. mem' = mem /\ mem_area' = mem_area /\ nbAreas' = Len(program)
    BY <1>1, <2>1
  <2>3. Reading'
    BY <1>1, <1>6, <2>2 DEF FlashInv, Reading, Awaits
  <2>4. Loading'
    BY <1>1, <1>6 DEF Loading
  <2> QED BY <2>2, <2>3, <2>4, <1>1, MemoryKept DEF FlashInv
<1>7. CASE pc = "table"
  <2>1. udma.what = "table" /\ udma.len = Len(program) /\ Len(program) > 0
        /\ nbAreas = Len(program)
    BY <1>1, <1>2, <1>7 DEF FlashInv, Reading, Awaits, Request
  <2>2. mem' = mem /\ nbAreas' = nbAreas /\ mem_area' = SubSeq(flash_table, 1, Len(program))
    BY <1>1, <2>1
  <2>3. SubSeq(flash_table, 1, Len(program)) = flash_table
    <3>1. Len(program) \in Nat
      BY <1>3, TableIs
    <3> DEFINE row(s) == [start |-> Qspi!Offset(program)[s], ptr |-> program[s].base,
                          size |-> program[s].len,
                          blocks |-> Qspi!RoundUp(program[s].len, BLOCK) \div BLOCK]
    <3>2. flash_table = [s \in 1 .. Len(program) |-> row(s)]
      BY DEF flash_table, Qspi!Table
    <3> HIDE DEF row
    <3> QED BY <3>1, <3>2
  <2>4. Reading'
    BY <1>1, <1>4, <1>7, <2>1, <2>2, <2>3 DEF FlashInv, Reading, Awaits
  <2>5. Loading'
    BY <1>1, <1>7 DEF Loading
  <2> QED BY <2>2, <2>4, <2>5, <1>1, MemoryKept DEF FlashInv
<1>8. CASE pc = "blockRead"
  <2>1. Progress /\ OneBlock /\ loader # 0
    BY <1>8 DEF FlashInv, Loading, Reading
  <2>2. udma # Qspi!Idle
    BY <1>1, <1>2
  <2>3. /\ udma = IF Qspi!InL2 THEN Request("mem", flash_addr, area_addr, iter_size)
                               ELSE Request("buffer", flash_addr, 0, iter_size)
        /\ block < flash_table[i].blocks /\ iter_size = Qspi!IterSize
    BY <2>1, <2>2 DEF OneBlock, Awaits
  <2>4. udma.what \in {"mem", "buffer"}
    BY <2>3 DEF Request
  <2>5. nbAreas' = nbAreas /\ mem_area' = mem_area
    BY <1>1, <2>4
  <2>6. Reading'
    BY <1>1, <1>4, <1>8, <2>5 DEF FlashInv, Reading
  <2>7. /\ Qspi!IterSize' = Qspi!IterSize /\ (Qspi!InL2' <=> Qspi!InL2) /\ Done' = Done
    BY <1>1 DEF Qspi!IterSize, Qspi!InL2, Done
  <2>8. CASE Qspi!InL2
    <3>1. udma.what = "mem" /\ udma.from = flash_addr /\ udma.to = area_addr
          /\ udma.len = iter_size
      BY <2>3, <2>8 DEF Request
    <3>2. mem' = Qspi!Copied(flash_addr, area_addr, iter_size)
      BY <1>1, <3>1
    <3>3. /\ Placed' /\ OnlyProgram'
          /\ \A s \in 1 .. i - 1 : There(s, program[s].len)'
          /\ \A m \in 0 .. program[i].len - 1 : m < Done + iter_size =>
               mem'[program[i].base + m] = Qspi!Id(i, m)
      BY <3>2, <2>1, <2>3, <1>1, BlockCopied
    <3>4. AllThere(i - 1)'
      BY <3>3, <1>1 DEF AllThere
    <3>5. There(i, Done + iter_size)'
      BY <3>3, <1>1, <2>7 DEF There
    <3>6. There(i, Done)'
      <4>1. iter_size \in Nat /\ Done \in Nat
        BY <1>3, <2>1, <2>3, BlockIs
      <4>2. \A m \in 0 .. program[i].len - 1 : m < Done => m < Done + iter_size
        <5>1. program[i].len \in Nat
          BY <1>3, <2>1, <2>3, BlockIs
        <5> HIDE DEF Done
        <5> QED BY <4>1, <5>1
      <4> QED BY <4>2, <3>3, <1>1, <2>7 DEF There
    <3>7. Progress'
      BY <2>1, <2>7, <3>4, <3>6, <1>1, <1>4 DEF Progress
    <3>8. OneBlock'
      BY <2>3, <2>7, <2>8, <3>5, <1>1, <1>4 DEF OneBlock, Awaits
    <3>9. Loading'
      BY <3>7, <3>8, <1>1, <1>8 DEF Loading
    <3> QED BY <1>1, <1>3, <2>6, <3>3, <3>9 DEF FlashInv
  <2>9. CASE ~Qspi!InL2
    <3>1. udma.what = "buffer" /\ udma.from = flash_addr
      BY <2>3, <2>9 DEF Request
    <3>2. mem' = mem /\ flash_buffer' = flash_addr
      BY <1>1, <3>1
    <3>3. \A s, n : There(s, n)' <=> There(s, n)
      BY <1>1, <3>2, MemoryKept
    <3>4. AllThere(i - 1)' /\ There(i, Done)'
      BY <2>1, <2>7, <3>2, <3>3, <1>1 DEF Progress, AllThere, There
    <3>5. Progress'
      BY <2>1, <2>7, <3>4, <1>1, <1>4 DEF Progress
    <3>6. OneBlock'
      BY <2>3, <2>7, <2>9, <3>2, <1>1, <1>4 DEF OneBlock, Awaits
    <3>7. Loading'
      BY <3>5, <3>6, <1>1, <1>8 DEF Loading
    <3> QED BY <1>1, <2>6, <3>2, <3>7, MemoryKept DEF FlashInv
  <2> QED BY <2>8, <2>9
<1> QED BY <1>5, <1>6, <1>7, <1>8

-----------------------------------------------------------------------------
(* The boot ROM.                                                           *)

bootVars == <<mainVars, qspiVars, uartVars>>

LEMMA FlashInit ==
  ASSUME Init
  PROVE  FlashInv
<1>1. Qspi!Reset
  BY DEF Init
<1>2. program \in Qspi!Programs
  <2>1. <<>> \in Qspi!Programs
    <3>1. <<>> \in [1 .. 0 -> Qspi!Segments] /\ 0 \in 0 .. MaxSegments /\ Len(<<>>) = 0
      BY Sizes
    <3>2. <<>> \in Qspi!SeqOf(Qspi!Segments, MaxSegments)
      BY <3>1 DEF Qspi!SeqOf
    <3>3. \A m, n \in 1 .. Len(<<>>) : m < n => <<>>[m].base + <<>>[m].len <= <<>>[n].base
      BY <3>1
    <3> QED BY <3>2, <3>3 DEF Qspi!Programs
  <2> QED BY <2>1 DEF Init
<1>3. Reading
  BY <1>1 DEF Qspi!Reset, Reading, Quiet
<1>4. Placed
  BY <1>1 DEF Qspi!Reset, Placed, Qspi!LoaderUntouched
<1>5. Loading
  BY <1>1 DEF Qspi!Reset, Loading
<1>6. OnlyProgram
  BY <1>1 DEF Qspi!Reset, OnlyProgram
<1> QED BY <1>2, <1>3, <1>4, <1>5, <1>6 DEF FlashInv

LEMMA FlashStep ==
  ASSUME FlashInv, [Next]_bootVars
  PROVE  FlashInv'
<1>1. CASE UNCHANGED qspiVars
  <2>1. UNCHANGED <<program, pc, nbAreas, mem_area, loader, i, block, area_addr, flash_addr, size,
                    iter_size, flash_buffer, udma, event, mem>>
    BY <1>1 DEF qspiVars
  <2>2. flash_table' = flash_table /\ \A s, n : There(s, n)' <=> There(s, n)
    BY <2>1, MemoryKept
  <2>3. Reading'
    BY <2>1, <2>2 DEF FlashInv, Reading, Quiet, Awaits
  <2>4. Loading'
    <3>1. Done' = Done /\ Qspi!IterSize' = Qspi!IterSize /\ (Qspi!InL2' <=> Qspi!InL2)
      BY <2>1 DEF Done, Qspi!IterSize, Qspi!InL2
    <3>2. \A n : AllThere(n)' <=> AllThere(n)
      BY <2>1, <2>2 DEF AllThere, There
    <3>3. Progress => Progress'
      BY <2>1, <2>2, <3>1, <3>2 DEF Progress, There
    <3>4. OneBlock => OneBlock'
      BY <2>1, <2>2, <3>1 DEF OneBlock, Awaits, There
    <3>5. AllThere(i - 1)' <=> AllThere(i - 1)
      BY <2>1, <3>2 DEF AllThere, There
    <3>6. AllThere(Len(program))' <=> AllThere(Len(program))
      BY <2>1, <3>2 DEF AllThere, There
    <3> QED BY <2>1, <3>3, <3>4, <3>5, <3>6 DEF FlashInv, Loading
  <2> QED BY <2>1, <2>3, <2>4, MemoryKept DEF FlashInv
<1>2. CASE Qspi!Next
  BY <1>2, StartStep, HeaderStep, TableStep, RelocateStep, BeginLoadStep, BeginAreaStep,
     ReadBlockStep, GotBlockStep, EndAreaStep, JumpStep, TransferStep DEF Qspi!Next
<1>3. UNCHANGED qspiVars \/ Qspi!Next
  BY DEF Next, main, boot_preloaded, boot_qspi, boot_srec_uart, Jump, bootVars
<1> QED BY <1>1, <1>2, <1>3

LEMMA FlashInvariant == Spec => []FlashInv
<1>1. Init => FlashInv
  BY FlashInit
<1>2. FlashInv /\ [Next]_bootVars => FlashInv'
  BY FlashStep
<1> QED BY <1>1, <1>2, PTL DEF Spec, bootVars

\* What has its type though no wait depends on it.
FlashTypes ==
  /\ nbAreas \in 0 .. MaxSegments /\ mem_area \in {<<>>, flash_table}
  /\ i \in 1 .. MaxSegments + 1 /\ block \in 0 .. MaxLen
  /\ area_addr \in Nat /\ flash_addr \in Nat /\ iter_size \in Nat /\ size \in -WORD .. MaxLen

LEMMA BlockTypes ==
  ASSUME FlashInv, FlashTypes, Qspi!GotBlock
  PROVE  FlashTypes'
<1>1. /\ UNCHANGED <<program, mem_area, nbAreas, i, iter_size>> /\ pc = "blockRead"
      /\ area_addr' = area_addr + iter_size /\ flash_addr' = flash_addr + iter_size
      /\ size' = size - iter_size /\ block' = block + 1
  BY DEF Qspi!GotBlock
<1>2. Progress /\ OneBlock /\ program \in Qspi!Programs
  BY <1>1 DEF FlashInv, Loading
<1>3. flash_table' = flash_table
  BY <1>1 DEF flash_table
<1> DEFINE n == program[i].len
           d == Done
<1>4. /\ n \in 1 .. MaxLen /\ WORD \in Nat \ {0} /\ BLOCK \in Nat \ {0} /\ MaxLen \in Nat
      /\ d \in Nat /\ d < n /\ size = n - d /\ block \in Nat /\ d = block * BLOCK
      /\ iter_size = IF BLOCK > size THEN Qspi!RoundUp(size, WORD) ELSE BLOCK
  BY <1>2, BlockIs, SegmentsOf, Sizes DEF Progress, OneBlock, Qspi!IterSize
<1> HIDE DEF n, d
<1>5. size \in Nat /\ size > 0 /\ size <= MaxLen
  BY <1>4
<1>6. size' \in -WORD .. MaxLen
  <2>1. CASE BLOCK > size
    <3>1. /\ Qspi!RoundUp(size, WORD) \in Nat /\ size <= Qspi!RoundUp(size, WORD)
          /\ Qspi!RoundUp(size, WORD) < size + WORD
      BY <1>4, <1>5, RoundUpIs
    <3>2. size' = size - Qspi!RoundUp(size, WORD)
      BY <2>1, <1>1, <1>4
    <3> QED BY <3>1, <3>2, <1>4, <1>5
  <2>2. CASE ~(BLOCK > size)
    <3>1. size' = size - BLOCK
      BY <2>2, <1>1, <1>4
    <3> QED BY <3>1, <2>2, <1>4, <1>5
  <2> QED BY <2>1, <2>2
<1>7. block' \in 0 .. MaxLen
  <2>1. 1 * block <= BLOCK * block
    BY <1>4, Times
  <2>2. BLOCK * block = block * BLOCK /\ block * BLOCK \in Nat
    BY <1>4
  <2>3. block < n
    BY <2>1, <2>2, <1>4
  <2> QED BY <2>3, <1>1, <1>4
<1> QED BY <1>1, <1>3, <1>6, <1>7 DEF FlashTypes

LEMMA FlashTypesStep ==
  ASSUME FlashInv, FlashInv', FlashTypes, [Next]_bootVars
  PROVE  FlashTypes'
<1>1. program \in Qspi!Programs /\ Len(program) \in 0 .. MaxSegments /\ MaxSegments \in Nat
  BY SegmentsOf, Sizes DEF FlashInv
<1>2. CASE UNCHANGED <<program, nbAreas, mem_area, i, block, area_addr, flash_addr, size, iter_size>>
  BY <1>2 DEF FlashTypes, flash_table
<1>3. ASSUME Qspi!Start \/ Qspi!GotHeader \/ Qspi!GotTable \/ Qspi!Relocate \/ Qspi!Jump
      PROVE  FlashTypes'
  BY <1>2, <1>3 DEF Qspi!Start, Qspi!GotHeader, Qspi!GotTable, Qspi!Relocate, Qspi!Jump, Qspi!loopVars
<1>4. CASE Qspi!BeginLoad
  <2>1. 1 \in 1 .. MaxSegments + 1
    BY <1>1
  <2> QED BY <1>4, <2>1 DEF Qspi!BeginLoad, FlashTypes, flash_table
<1>5. CASE Qspi!BeginArea
  <2>1. /\ pc = "area" /\ i <= nbAreas /\ UNCHANGED <<program, nbAreas, mem_area, i, iter_size>>
        /\ block' = 0 /\ area_addr' = mem_area[i].ptr /\ flash_addr' = mem_area[i].start
        /\ size' = mem_area[i].size
    BY <1>5 DEF Qspi!BeginArea
  <2>2. mem_area = flash_table /\ nbAreas = Len(program) /\ i \in 1 .. Len(program) + 1
    BY <2>1 DEF FlashInv, Reading, Loading
  <2>3. i \in 1 .. Len(program)
    BY <2>1, <2>2, <1>1
  <2>4. /\ area_addr' = program[i].base /\ flash_addr' = Qspi!Offset(program)[i]
        /\ size' = program[i].len
    BY <2>1, <2>2, <2>3, <1>1, TableIs DEF flash_table
  <2>5. /\ program[i].base \in Nat /\ program[i].len \in 0 .. MaxLen
        /\ Qspi!Offset(program)[i] \in Nat /\ MaxLen \in Nat /\ WORD \in Nat
    BY <2>3, <1>1, SegmentsOf, Offsets, Sizes
  <2>6. /\ area_addr' \in Nat /\ flash_addr' \in Nat /\ size' \in -WORD .. MaxLen
        /\ block' \in 0 .. MaxLen
    <3>1. size' \in 0 .. MaxLen
      BY <2>4, <2>5
    <3> QED BY <3>1, <2>1, <2>4, <2>5
  <2>7. flash_table' = flash_table
    BY <2>1 DEF flash_table
  <2> QED BY <2>1, <2>6, <2>7 DEF FlashTypes
<1>6. CASE Qspi!ReadBlock
  <2>1. /\ pc = "block" /\ block < mem_area[i].blocks /\ iter_size' = Qspi!IterSize
        /\ UNCHANGED <<program, nbAreas, mem_area, i, block, area_addr, flash_addr, size>>
    BY <1>6 DEF Qspi!ReadBlock
  <2>2. mem_area = flash_table /\ Progress
    BY <2>1 DEF FlashInv, Reading, Loading
  <2>3. Qspi!IterSize \in Nat
    BY <2>1, <2>2, <1>1, BlockIs
  <2> QED BY <2>1, <2>3 DEF FlashTypes, flash_table
<1>7. CASE Qspi!GotBlock
  BY <1>7, BlockTypes
<1>8. CASE Qspi!EndArea
  <2>1. /\ pc = "block" /\ i' = i + 1
        /\ UNCHANGED <<program, nbAreas, mem_area, block, area_addr, flash_addr, size, iter_size>>
    BY <1>8 DEF Qspi!EndArea
  <2>2. i \in 1 .. Len(program)
    BY <2>1 DEF FlashInv, Loading, Progress
  <2>3. i' \in 1 .. MaxSegments + 1
    BY <2>1, <2>2, <1>1
  <2> QED BY <2>1, <2>3 DEF FlashTypes, flash_table
<1>9. CASE Qspi!Transfer
  <2>1. /\ UNCHANGED <<program, pc, i, block, area_addr, flash_addr, size, iter_size>> /\ udma.on
        /\ nbAreas' = (IF udma.what = "header" THEN Len(program) ELSE nbAreas)
        /\ udma.what # "table" => mem_area' = mem_area
        /\ event' = TRUE
    BY <1>9 DEF Qspi!Transfer, Qspi!loopVars
  <2>2. udma # Qspi!Idle
    BY <2>1 DEF Qspi!Idle
  <2>3. udma.what = "table" => pc = "table"
    <3>1. pc \in {"header", "table", "blockRead"}
      BY <2>2 DEF FlashInv, Reading, Quiet
    <3>2. pc = "header" => udma.what = "header"
      BY <2>2 DEF FlashInv, Reading, Awaits, Request
    <3>3. pc = "blockRead" => udma.what \in {"mem", "buffer"}
      BY <2>2 DEF FlashInv, Loading, OneBlock, Awaits, Request
    <3> QED BY <3>1, <3>2, <3>3
  <2>4. flash_table' = flash_table
    BY <2>1 DEF flash_table
  <2>5. pc = "table" => mem_area' = flash_table'
    BY <2>1 DEF FlashInv, Reading
  <2>6. nbAreas' \in 0 .. MaxSegments /\ mem_area' \in {<<>>, flash_table'}
    BY <2>1, <2>3, <2>4, <2>5, <1>1 DEF FlashTypes
  <2> QED BY <2>1, <2>6 DEF FlashTypes
<1>10. UNCHANGED qspiVars \/ Qspi!Next
  BY DEF Next, main, boot_preloaded, boot_qspi, boot_srec_uart, Jump, bootVars
<1>11. UNCHANGED qspiVars => FlashTypes'
  BY <1>2 DEF qspiVars
<1> QED BY <1>3, <1>4, <1>5, <1>6, <1>7, <1>8, <1>9, <1>10, <1>11 DEF Qspi!Next

LEMMA FlashTypesInit ==
  ASSUME Init
  PROVE  FlashTypes
<1>1. /\ nbAreas = 0 /\ mem_area = <<>> /\ i = 1 /\ block = 0 /\ area_addr = 0
      /\ flash_addr = 0 /\ size = 0 /\ iter_size = 0
  BY DEF Init, Qspi!Reset
<1>2. 0 \in -WORD .. MaxLen /\ 0 \in 0 .. MaxLen /\ 0 \in 0 .. MaxSegments /\ 1 \in 1 .. MaxSegments + 1
  BY Sizes
<1> QED BY <1>1, <1>2 DEF FlashTypes

LEMMA FlashTyped ==
  ASSUME FlashInv, FlashTypes
  PROVE  Qspi!TypeOK
<1>1. program \in Qspi!Programs
  BY DEF FlashInv
<1>2. /\ Len(program) \in 0 .. MaxSegments /\ program \in [1 .. Len(program) -> Qspi!Segments]
      /\ MaxSegments \in Nat /\ MaxSegments <= MAX_NB_AREA /\ Top \in Nat /\ LOADER \in Nat
  BY <1>1, SegmentsOf, Sizes
<1>3. MAX_NB_AREA \in Int
  BY BootAssumption DEF BootAssumption, Qspi!BootFlashAssumption
<1>4. Len(mem_area) <= MAX_NB_AREA
  <2>1. Len(<<>>) <= MAX_NB_AREA
    BY <1>2, <1>3
  <2>2. Len(flash_table) <= MAX_NB_AREA
    <3>1. Len(flash_table) = Len(program)
      BY <1>1, TableIs DEF flash_table
    <3> QED BY <3>1, <1>2, <1>3
  <2> QED BY <2>1, <2>2 DEF FlashTypes
<1>5. loader \in Qspi!Addresses
  <2>1. CASE loader = 0
    BY <2>1, <1>2 DEF Qspi!Addresses
  <2>2. CASE loader # 0
    <3>1. loader \in Nat /\ loader + LOADER <= Top
      BY <2>2 DEF FlashInv, Placed, Place
    <3> QED BY <3>1, <1>2 DEF Qspi!Addresses
  <2> QED BY <2>1, <2>2
<1>6. udma.on \in BOOLEAN /\ event \in BOOLEAN
  <2>1. \A what, from, to, len : Request(what, from, to, len).on = TRUE
    BY DEF Request
  <2>2. Qspi!Idle.on = FALSE
    BY DEF Qspi!Idle
  <2>3. Quiet => udma.on = FALSE /\ event = FALSE
    BY <2>2 DEF Quiet
  <2>4. \A what, from, to, len : Awaits(Request(what, from, to, len)) =>
          (udma.on = TRUE /\ event = FALSE) \/ (udma.on = FALSE /\ event = TRUE)
    BY <2>1, <2>2 DEF Awaits
  <2>5. pc \in {"start", "header", "table", "tableRead", "area", "block", "blockRead", "jumped"}
        /\ (pc \in {"start", "tableRead", "area", "block", "jumped"} => Quiet)
    BY DEF FlashInv, Reading
  <2>6. CASE pc = "header"
    BY <2>4, <2>6 DEF FlashInv, Reading
  <2>7. CASE pc = "table"
    BY <2>4, <2>7 DEF FlashInv, Reading
  <2>8. CASE pc = "blockRead"
    BY <2>4, <2>8 DEF FlashInv, Loading, OneBlock
  <2> QED BY <2>3, <2>5, <2>6, <2>7, <2>8
<1>7. \A s \in 1 .. Len(program) : program[s] \in Qspi!Segments
  BY <1>2
<1>8. Len(program) <= MaxSegments
  BY <1>2
<1>9. {udma.on, event} \subseteq BOOLEAN
  BY <1>6
<1>10. /\ nbAreas \in 0 .. MaxSegments /\ i \in 1 .. MaxSegments + 1 /\ block \in 0 .. MaxLen
       /\ {area_addr, flash_addr, iter_size} \subseteq Nat /\ size \in -WORD .. MaxLen
  BY DEF FlashTypes
<1>11. pc \in {"start", "header", "table", "tableRead", "area", "block", "blockRead", "jumped"}
  BY DEF FlashInv, Reading
<1> QED BY <1>4, <1>5, <1>7, <1>8, <1>9, <1>10, <1>11 DEF Qspi!TypeOK

LEMMA FlashTypesInvariant == Spec => []Qspi!TypeOK
<1>1. Init => FlashInv /\ FlashTypes
  BY FlashInit, FlashTypesInit
<1>2. FlashInv /\ FlashTypes /\ [Next]_bootVars => FlashInv' /\ FlashTypes'
  BY FlashStep, FlashTypesStep
<1>3. FlashInv /\ FlashTypes => Qspi!TypeOK
  BY FlashTyped
<1> QED BY <1>1, <1>2, <1>3, PTL DEF Spec, bootVars

\* The flash loader never overwrites its own data and stack (find_data_fit and
\* flash_load_section), whatever the segments of the program are: the place it moves to
\* is behind the last word of each segment or wholly before the segment.
THEOREM LoaderSafe == Spec => []LoaderUntouched
<1>1. FlashInv => LoaderUntouched
  BY DEF FlashInv, Placed, LoaderUntouched
<1> QED BY <1>1, FlashInvariant, PTL

\* When the loader jumps every byte of every segment is at its address (flash_load_and_start),
\* and at no time has memory outside the segments' words been written but by the loader's move.
THEOREM ProgramLoaded == Spec => []MemoryIsProgram
<1>1. FlashInv => MemoryIsProgram
  <2> SUFFICES ASSUME FlashInv PROVE Qspi!ProgramInMemory /\ Qspi!NothingElse
    BY DEF MemoryIsProgram
  <2>1. Qspi!ProgramInMemory
    <3> SUFFICES ASSUME pc = "jumped", NEW s \in 1 .. Len(program),
                        NEW m \in 0 .. program[s].len - 1
                 PROVE  mem[program[s].base + m] = Qspi!Id(s, m)
      BY DEF Qspi!ProgramInMemory
    <3>1. There(s, program[s].len)
      BY DEF FlashInv, Loading, AllThere
    <3>2. m < program[s].len
      BY SegmentsOf DEF FlashInv
    <3> QED BY <3>1, <3>2 DEF There
  <2>2. Qspi!NothingElse
    <3> SUFFICES ASSUME NEW a \in Qspi!Addresses, mem[a] \notin {Qspi!Old, Qspi!Own}
                 PROVE  \E s \in 1 .. Len(program) :
                          a \in program[s].base ..
                                program[s].base + Qspi!RoundUp(program[s].len, WORD) - 1
      BY Zenon DEF Qspi!NothingElse
    <3>1. PICK s \in 1 .. Len(program) : a \in program[s].base .. WordsEnd(s) - 1
      BY DEF FlashInv, OnlyProgram, Touched
    <3>2. a \in program[s].base ..
                program[s].base + Qspi!RoundUp(program[s].len, WORD) - 1
      <4>1. program[s].base \in Nat /\ program[s].len \in Nat /\ WORD \in Nat \ {0}
        BY SegmentsOf, Sizes DEF FlashInv
      <4>2. Qspi!RoundUp(program[s].len, WORD) \in Nat
        BY <4>1, RoundUpIs
      <4> QED BY <3>1, <4>1, <4>2 DEF WordsEnd
    <3> QED BY <3>2, Zenon
  <2> QED BY <2>1, <2>2
<1> QED BY <1>1, FlashInvariant, PTL

=============================================================================
