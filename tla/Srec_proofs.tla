---------------------------- MODULE Srec_proofs ----------------------------
(***************************************************************************)
(* For every file, and every way of losing characters of it, what the      *)
(* model checker finds of the S-record loader on a few files: the machine  *)
(* of kk_srec.c stays within its array, a file that arrives whole is       *)
(* loaded, and damage behind a line's head does not go unnoticed.          *)
(***************************************************************************)
EXTENDS Boot_proofs, FiniteSetTheorems

-----------------------------------------------------------------------------
(* The invariants.                                                         *)

\* Lines that have lost a character, and those of them before the present one.
Hit       == {p[1] : p \in lost}
HitBefore == Hit \ {k}

Armed  == {"type", "countHigh", "countLow"}
InData == {"dataHigh", "dataLow"}

\* Where the host is, and what was lost: behind it, and at most once in each place.
Places ==
  /\ file \in Files /\ text = [n \in 1 .. Len(file) |-> Uart!Line(file[n])]
  /\ k \in 1 .. Len(file) + 1 /\ j \in Nat \ {0} /\ j <= (IF k <= Len(file) THEN Len(text[k]) ELSE 1)
  /\ lost \subseteq (1 .. Len(file)) \X (Nat \ {0})
  /\ \A p \in lost : p[1] < k \/ (p[1] = k /\ p[2] < j)
  /\ IsFiniteSet(lost) /\ Cardinality(lost) <= MaxLost
  /\ IsFiniteSet(Hit) /\ Cardinality(Hit) <= Cardinality(lost)

\* A count is kept only while the record's bytes come.
Registers ==
  /\ srec \in [state : {"start"} \union Armed \union InData, type : 0 .. 15,
               byte_count : 0 .. MAX, length : 0 .. MAX, data : [0 .. MAX -> 0 .. 255]]
  /\ srec.byte_count > 0 => srec.state \in InData
  /\ srec_mem \in [Uart!Addresses -> 0 .. 255 \union {Uart!Old}] /\ complaints \subseteq 1 .. Len(file)

\* In a line of which nothing was lost the states up to the count follow the places.
Aligned ==
  /\ srec.state = "type" => j = 2
  /\ srec.state = "countHigh" => j = 3
  /\ srec.state = "countLow" => j = 4 /\ srec.data[srec.length] = 16 * (Uart!Count(file[k]) \div 16)

\* Why length stays within the data array: a record that is handed over or cut short
\* clears it, and the only other way back to start, a count of 0, takes a lost character;
\* so it counts lines that were hit.
Lengths ==
  /\ srec.state = "start" => srec.length <= Cardinality(Hit)
  /\ srec.state \in Armed => /\ srec.length <= Cardinality(HitBefore)
                             /\ j > 1 /\ k \notin Hit => Aligned
  /\ srec.state \in InData /\ srec.byte_count = 0 => srec.length + 1 <= Cardinality(Hit)

MachineInv == Places /\ Registers /\ Lengths

\* What DamageReported asks for: the S, the type and the count of each line arrive.
HeadsWhole == \A p \in lost : p[2] > 4

\* The place of the line end, and that of the next digit of data.
LastPlace == 2 * Uart!Count(file[k]) + 5
Due == 2 * srec.length + (IF srec.state = "dataHigh" THEN 5 ELSE 6)

Received == \A x \in 0 .. srec.length - 1 : srec.data[x] = Uart!Octets(file[k])[x + 2]

\* The machine is where the host is: nothing of this record was lost yet.
InStep ==
  /\ j = 1 \/ j = LastPlace => srec.state = "start"
  /\ j = 2 => srec.state = "type"
  /\ j = 3 => srec.state = "countHigh"
  /\ j = 4 => srec.state = "countLow" /\ srec.data[0] = 16 * (Uart!Count(file[k]) \div 16)
  /\ j \in {3, 4} => srec.type = file[k].type
  /\ j <= 4 \/ j = LastPlace => srec.byte_count = 0 /\ srec.length = 0
  /\ j \in 5 .. LastPlace - 1 =>
       /\ srec.state \in InData /\ srec.type = file[k].type /\ srec.byte_count = Uart!Count(file[k])
       /\ j = Due /\ Received
       /\ srec.state = "dataLow" =>
            srec.data[srec.length] = 16 * (Uart!Octets(file[k])[srec.length + 2] \div 16)

\* A digit of the record was lost: the machine will not have all its bytes when the line
\* ends, and knows its count.
Behind ==
  /\ srec.state \in InData
  /\ \/ j = 1 /\ srec.length < srec.byte_count
     \/ j > 5 /\ srec.byte_count = Uart!Count(file[k]) /\ Due < j

\* Records that have been handed over are in memory.
InPlace(n) == \A m \in 1 .. Len(file[n].data) : srec_mem[file[n].address + m - 1] = file[n].data[m]
Stored == \A n \in Uart!DataRecords : n < k \/ (n = k /\ j = LastPlace) => InPlace(n)

\* As long as there was no error message, everything up to here is in place, or the next
\* S will bring one.
DamageInv ==
  /\ lost = {} => complaints = {}
  /\ HeadsWhole /\ complaints = {} =>
       /\ target # Uart!Nowhere => Uart!Loaded
       /\ target = Uart!Nowhere /\ k <= Len(file) =>
            (InStep /\ Stored) \/ (Behind /\ lost # {})

\* FiniteSets, seen from inside and from outside the loader's module.
LEMMA SameCount ==
  ASSUME NEW X
  PROVE  Uart!Cardinality(X) = Cardinality(X)
BY DEF Uart!Cardinality, Cardinality

-----------------------------------------------------------------------------
(* Constants and digits.                                                   *)

\* The constants.
LEMMA MAXIs ==
  ASSUME Uart!SrecAssumption
  PROVE  MAX \in Nat /\ 4 <= MAX /\ MAX <= 254 /\ SrecTop \in Nat /\ MaxLost \in Nat
BY DEF Uart!SrecAssumption

\* Or-ing a digit to a byte.
New(old, c, b) == IF (c \div b) % 2 > (old \div b) % 2 THEN b ELSE 0
OrLow(old, c)  == old + New(old, c, 1) + New(old, c, 2) + New(old, c, 4) + New(old, c, 8)

\* Or-ing a digit leaves a byte,
LEMMA OrType ==
  ASSUME NEW old \in 0 .. 255, NEW c \in 0 .. 15
  PROVE  OrLow(old, c) \in 0 .. 255
BY DEF OrLow, New

\* and adds it to one whose low digit is 0.
LEMMA OrExact ==
  ASSUME NEW h \in 0 .. 15, NEW c \in 0 .. 15
  PROVE  OrLow(16 * h, c) = 16 * h + c
BY DEF OrLow, New

LEMMA LowIs ==
  ASSUME NEW s, NEW c
  PROVE  Uart!Low(s, c) = [s EXCEPT !.data[s.length] = OrLow(s.data[s.length], c)]
  BY DEF Uart!Low, OrLow, New

-----------------------------------------------------------------------------
(* Records and their lines.                                                *)

Records == [type : 0 .. 9, address : Nat, data : Seq(0 .. 255)]

\* Addresses have two to four bytes.
LEMMA AddressBytes ==
  ASSUME NEW t \in 0 .. 15
  PROVE  Uart!AddressByteCount(t) \in 2 .. 4
  BY DEF Uart!AddressByteCount

\* What the assumption says of a file and its records.
LEMMA FileIs ==
  ASSUME Uart!SrecAssumption, NEW f \in Files
  PROVE  /\ f \in Seq(Records) /\ Len(f) \in Nat /\ Len(f) >= 1
         /\ \A n \in 1 .. Len(f) :
              /\ f[n] \in Records /\ Uart!Count(f[n]) \in 3 .. MAX
              /\ f[n].address \div 256 < Uart!Weight[Uart!AddressByteCount(f[n].type)]
              /\ Uart!IsData(f[n].type) => f[n].address + Len(f[n].data) <= SrecTop + 1
              /\ Uart!IsTermination(f[n].type) => f[n].address <= SrecTop
              /\ Uart!IsTermination(f[n].type) <=> n = Len(f)
         /\ \A m, n \in 1 .. Len(f) : m < n /\ Uart!IsData(f[m].type) /\ Uart!IsData(f[n].type) =>
              f[m].address + Len(f[m].data) <= f[n].address
<1>1. Uart!WellFormed(f)
  BY DEF Uart!SrecAssumption
<1>2. f \in Seq(Records) /\ f # <<>>
  BY <1>1 DEF Uart!WellFormed, Records
<1>3. Len(f) \in Nat /\ Len(f) >= 1
  BY <1>2
<1>4. ASSUME NEW n \in 1 .. Len(f)
      PROVE  f[n] \in Records /\ Uart!Count(f[n]) \in 3 .. MAX
  <2>1. f[n] \in Records
    BY <1>2
  <2>2. Uart!AddressByteCount(f[n].type) \in 2 .. 4
    <3>1. f[n].type \in 0 .. 15
      BY <2>1 DEF Records
    <3> QED BY <3>1, AddressBytes
  <2>3. Len(f[n].data) \in Nat
    BY <2>1 DEF Records
  <2>4. Uart!Count(f[n]) <= MAX
    BY <1>1 DEF Uart!WellFormed
  <2>5. Uart!Count(f[n]) = Uart!AddressByteCount(f[n].type) + Len(f[n].data) + 1
    BY DEF Uart!Count
  <2>6. Uart!Count(f[n]) \in 3 .. MAX
    <3> DEFINE bytes == Uart!AddressByteCount(f[n].type)
               count == Uart!Count(f[n])
               len == Len(f[n].data)
    <3>1. bytes \in 2 .. 4 /\ len \in Nat /\ count = bytes + len + 1 /\ count <= MAX
      BY <2>2, <2>3, <2>4, <2>5
    <3> HIDE DEF bytes, count, len
    <3>2. count \in 3 .. MAX
      BY <3>1, MAXIs
    <3> QED BY <3>2 DEF count
  <2> QED BY <2>1, <2>6
<1> QED BY <1>1, <1>2, <1>3, <1>4 DEF Uart!WellFormed

\* A record's count, address and data, byte by byte.
LEMMA BodyIs ==
  ASSUME NEW r \in Records, Uart!Count(r) <= 254
  PROVE  LET bytes == Uart!AddressByteCount(r.type)
         IN  /\ bytes \in 2 .. 4 /\ Len(r.data) \in Nat /\ Uart!Count(r) = bytes + Len(r.data) + 1
             /\ Uart!Body(r) \in Seq(0 .. 255) /\ Len(Uart!Body(r)) = Uart!Count(r) /\ Uart!Body(r)[1] = Uart!Count(r)
             /\ \A n \in 1 .. bytes : Uart!Body(r)[n + 1] = (r.address \div Uart!Weight[bytes - n + 1]) % 256
             /\ \A n \in 1 .. Len(r.data) : Uart!Body(r)[bytes + n + 1] = r.data[n]
<1> DEFINE bytes == Uart!AddressByteCount(r.type)
           at    == [n \in 1 .. bytes |-> (r.address \div Uart!Weight[bytes - n + 1]) % 256]
<1>1. bytes \in 2 .. 4 /\ Len(r.data) \in Nat /\ Uart!Count(r) = bytes + Len(r.data) + 1
      /\ r.data \in Seq(0 .. 255) /\ r.address \in Nat
  <2>1. r.type \in 0 .. 15 /\ r.data \in Seq(0 .. 255) /\ r.address \in Nat
    BY DEF Records
  <2> QED BY <2>1, AddressBytes DEF Uart!Count
<1> HIDE DEF bytes
<1>2. at \in Seq(0 .. 255) /\ Len(at) = bytes
  <2>1. ASSUME NEW n \in 1 .. bytes PROVE at[n] \in 0 .. 255
    <3>1. bytes - n + 1 \in 1 .. 4
      BY <1>1
    <3>2. Uart!Weight[bytes - n + 1] \in Nat \ {0}
      BY <3>1 DEF Uart!Weight
    <3>3. r.address \div Uart!Weight[bytes - n + 1] \in Nat
      BY <3>2, <1>1, Quotients
    <3> HIDE DEF Uart!Weight
    <3> QED BY <3>3
  <2>2. bytes \in Nat /\ at \in [1 .. bytes -> 0 .. 255]
    BY <1>1, <2>1
  <2> QED BY <2>2
<1>3. \A n \in 1 .. bytes : at[n] = (r.address \div Uart!Weight[bytes - n + 1]) % 256
  OBVIOUS
<1>4. Uart!Body(r) = <<Uart!Count(r)>> \o at \o r.data
  BY DEF Uart!Body, bytes
<1> HIDE DEF at
<1> DEFINE c == Uart!Count(r)
           D == Len(r.data)
<1>b. bytes \in 2 .. 4 /\ D \in Nat /\ c = bytes + D + 1 /\ c <= 254
  BY <1>1
<1> HIDE DEF c, D
<1>c. c \in 0 .. 255
  BY <1>b
<1>5. <<c>> \in Seq(0 .. 255) /\ Len(<<c>>) = 1 /\ <<c>>[1] = c
  BY <1>c
<1> DEFINE h == <<c>> \o at
<1>6. h \in Seq(0 .. 255) /\ Len(h) = 1 + bytes /\ h[1] = c
  BY <1>1, <1>2, <1>5
<1>7. ASSUME NEW n \in 1 .. bytes PROVE h[n + 1] = at[n]
  BY <1>1, <1>2, <1>5
<1> HIDE DEF h
<1>a. Uart!Body(r) = h \o r.data
  BY <1>4 DEF h, c
<1>8. /\ Uart!Body(r) \in Seq(0 .. 255) /\ Len(Uart!Body(r)) = 1 + bytes + Len(r.data) /\ Uart!Body(r)[1] = c
      /\ (\A n \in 1 .. bytes : Uart!Body(r)[n + 1] = at[n])
      /\ (\A n \in 1 .. Len(r.data) : Uart!Body(r)[bytes + n + 1] = r.data[n])
  <2> DEFINE d == r.data
  <2>1. d \in Seq(0 .. 255) /\ Len(d) \in Nat
    BY <1>1
  <2> HIDE DEF d
  <2>2. h \o d \in Seq(0 .. 255) /\ Len(h \o d) = 1 + bytes + Len(d) /\ (h \o d)[1] = h[1]
    BY <2>1, <1>1, <1>6
  <2>3. ASSUME NEW n \in 1 .. bytes PROVE (h \o d)[n + 1] = h[n + 1]
    BY <2>1, <1>1, <1>6
  <2>4. ASSUME NEW n \in 1 .. Len(d) PROVE (h \o d)[bytes + n + 1] = d[n]
    BY <2>1, <1>1, <1>6
  <2> QED BY <2>2, <2>3, <2>4, <1>6, <1>7, <1>a DEF d
<1>9. Len(Uart!Body(r)) = c
  <2>1. Len(Uart!Body(r)) = 1 + bytes + D
    BY <1>8 DEF D
  <2>2. 1 + bytes + D = bytes + D + 1
    BY <1>b
  <2> QED BY <2>1, <2>2, <1>b
<1> QED BY <1>1, <1>3, <1>8, <1>9 DEF bytes, c, D

-----------------------------------------------------------------------------
(* The checksum.                                                           *)

\* Sum adds the bytes one by one.
LEMMA SumIs ==
  ASSUME NEW s \in Seq(Nat)
  PROVE  \E g : (\A n \in 0 .. Len(s) : g[n] \in Nat) /\
           g[0] = 0 /\ (\A n \in 1 .. Len(s) : g[n] = g[n - 1] + s[n]) /\ Uart!Sum(s) = g[Len(s)]
<1> DEFINE N == Len(s)
           Unfold(h) == [n \in 0 .. N |-> IF n = 0 THEN 0 ELSE h[n - 1] + s[n]]
           upTo == CHOOSE h : h = Unfold(h)
           step == [n \in 1 .. N |-> [x \in Nat |-> x + s[n]]]
<1>1. N \in Nat /\ \A n \in 1 .. N : s[n] \in Nat
  OBVIOUS
<1>2. PICK g \in [0 .. N -> Nat] : Obeys(g, 0, N, step)
  <2>1. step \in Rules(N, Nat)
    BY <1>1 DEF Rules
  <2> HIDE DEF step, N
  <2> QED BY <1>1, <2>1, Recursion
<1>3. g = Unfold(g)
  <2> SUFFICES ASSUME NEW n \in 0 .. N PROVE g[n] = Unfold(g)[n]
    OBVIOUS
  <2>1. n = 0 \/ (n \in 1 .. N /\ n - 1 \in 0 .. N)
    BY <1>1
  <2> QED BY <2>1, <1>1, <1>2 DEF Obeys
<1>4. upTo = Unfold(upTo)
  <2> HIDE DEF Unfold
  <2> QED BY <1>3
<1>5. Uart!Sum(s) = upTo[N]
  BY DEF Uart!Sum
<1> HIDE DEF upTo
<1>6. upTo[0] = 0 /\ \A n \in 1 .. N : upTo[n] = upTo[n - 1] + s[n]
  <2>1. 0 \in 0 .. N /\ \A n \in 1 .. N : n \in 0 .. N /\ n # 0
    BY <1>1
  <2> DEFINE r == Unfold(upTo)
  <2>2. r[0] = 0 /\ \A n \in 1 .. N : r[n] = upTo[n - 1] + s[n]
    BY <2>1
  <2> HIDE DEF r
  <2>3. upTo = r
    BY <1>4 DEF r
  <2> QED BY <2>2, <2>3
<1>7. \A n \in 0 .. N : upTo[n] \in Nat
  <2> DEFINE T == {n \in Nat : n <= N => upTo[n] \in Nat}
  <2>1. 0 \in T
    BY <1>6
  <2>2. ASSUME NEW n \in Nat, n \in T PROVE n + 1 \in T
    <3> SUFFICES ASSUME n + 1 <= N PROVE upTo[n + 1] \in Nat
      OBVIOUS
    <3>1. n + 1 \in 1 .. N /\ n + 1 - 1 = n /\ upTo[n] \in Nat
      BY <2>2, <1>1
    <3>2. upTo[n + 1] = upTo[n] + s[n + 1] /\ s[n + 1] \in Nat
      <4> HIDE DEF N
      <4> QED BY <3>1, <1>1, <1>6
    <3> QED BY <3>1, <3>2
  <2>3. Nat \subseteq T
    <3> HIDE DEF T
    <3> QED BY <2>1, <2>2, SetInduction
  <2>4. \A n \in 0 .. N : upTo[n] \in Nat
    BY <2>3, <1>1
  <2> QED BY <2>4
<1> QED BY <1>5, <1>6, <1>7

\* Two sums that run over the same numbers, one of them d places behind.
Alike(s, g, h, d, L) ==
  /\ g[0] = 0
  /\ \A n \in 0 .. L : g[n] \in Nat /\ h[n + d] \in Nat
  /\ \A n \in 0 .. L - 1 : /\ s[n + 1] \in Nat /\ g[n + 1] = g[n] + s[n + 1]
                           /\ h[n + 1 + d] = h[n + d] + s[n + 1]

\* They differ by what the second had before.
LEMMA SumsAlike ==
  ASSUME NEW s, NEW g, NEW h, NEW d \in Nat, NEW L \in Nat, Alike(s, g, h, d, L)
  PROVE  h[L + d] = h[d] + g[L]
<1>. USE DEF Alike
<1> DEFINE T == {n \in Nat : n <= L => h[n + d] = h[d] + g[n]}
<1>0. h[d] \in Nat /\ 0 + d = d
  <2>1. 0 \in 0 .. L /\ 0 + d = d
    OBVIOUS
  <2>2. h[0 + d] \in Nat
    BY <2>1
  <2> QED BY <2>1, <2>2
<1>1. 0 \in T
  BY <1>0
<1>2. ASSUME NEW n \in Nat, n \in T PROVE n + 1 \in T
  <2> SUFFICES ASSUME n + 1 <= L PROVE h[n + 1 + d] = h[d] + g[n + 1]
    OBVIOUS
  <2>1. h[n + d] = h[d] + g[n]
    BY <1>2
  <2>2. n \in 0 .. L - 1 /\ n \in 0 .. L
    OBVIOUS
  <2> DEFINE a == g[n]
             b == h[d]
             x == s[n + 1]
  <2>3. g[n + 1] = a + x /\ h[n + 1 + d] = h[n + d] + x /\ x \in Nat /\ a \in Nat
    BY <2>2
  <2>4. h[n + d] = b + a /\ b \in Nat
    BY <2>1, <1>0
  <2> HIDE DEF a, b, x
  <2>5. h[n + 1 + d] = (b + a) + x
    BY <2>3, <2>4
  <2>6. (b + a) + x = b + (a + x)
    BY <2>3, <2>4
  <2>7. h[n + 1 + d] = b + g[n + 1]
    BY <2>3, <2>5, <2>6
  <2> QED BY <2>7 DEF b
<1>3. Nat \subseteq T
  <2> HIDE DEF T
  <2> QED BY <1>1, <1>2, SetInduction
<1> QED BY <1>3

\* One more byte at the end,
LEMMA SumAppend ==
  ASSUME NEW s \in Seq(Nat), NEW x \in Nat
  PROVE  Uart!Sum(Append(s, x)) = Uart!Sum(s) + x /\ Uart!Sum(s) \in Nat
<1> DEFINE t == Append(s, x)
           N == Len(s)
           M == Len(t)
<1>1. t \in Seq(Nat) /\ M = N + 1 /\ N \in Nat /\ t[N + 1] = x
      /\ (\A n \in 1 .. N : t[n] = s[n] /\ s[n] \in Nat)
  OBVIOUS
<1> HIDE DEF t
<1>2. PICK g : (\A n \in 0 .. N : g[n] \in Nat) /\
        g[0] = 0 /\ (\A n \in 1 .. N : g[n] = g[n - 1] + s[n]) /\ Uart!Sum(s) = g[N]
  BY SumIs
<1>3. PICK h : (\A n \in 0 .. M : h[n] \in Nat) /\
        h[0] = 0 /\ (\A n \in 1 .. M : h[n] = h[n - 1] + t[n]) /\ Uart!Sum(t) = h[M]
  BY <1>1, SumIs
<1> HIDE DEF N, M
<1>4. h[N + 0] = h[0] + g[N]
  <2>1. \A n \in 0 .. N : g[n] \in Nat /\ h[n + 0] \in Nat
    BY <1>1, <1>2, <1>3
  <2>2. ASSUME NEW n \in 0 .. N - 1
        PROVE  /\ s[n + 1] \in Nat /\ g[n + 1] = g[n] + s[n + 1]
               /\ h[n + 1 + 0] = h[n + 0] + s[n + 1]
    <3>1. n + 1 \in 1 .. N /\ n + 1 \in 1 .. M /\ n + 1 - 1 = n /\ n + 0 = n /\ n + 1 + 0 = n + 1
      BY <1>1
    <3>2. g[n + 1] = g[n + 1 - 1] + s[n + 1] /\ h[n + 1] = h[n + 1 - 1] + t[n + 1]
      BY <3>1, <1>2, <1>3
    <3>3. t[n + 1] = s[n + 1] /\ s[n + 1] \in Nat
      BY <3>1, <1>1
    <3> QED BY <3>1, <3>2, <3>3
  <2>3. Alike(s, g, h, 0, N)
    BY <2>1, <2>2, <1>2 DEF Alike
  <2>4. N \in Nat /\ 0 \in Nat
    BY <1>1
  <2> QED BY <2>3, <2>4, SumsAlike
<1>5. N + 1 \in 1 .. M /\ N + 1 - 1 = N /\ N + 0 = N /\ N \in 0 .. N
  BY <1>1
<1>6. h[N + 1] = h[N] + t[N + 1]
  BY <1>3, <1>5
<1>7. g[N] \in Nat
  BY <1>2, <1>5
<1>8. h[N] = g[N]
  BY <1>3, <1>4, <1>5, <1>7
<1> QED BY <1>1, <1>2, <1>3, <1>6, <1>7, <1>8 DEF t

\* and one more in front.
LEMMA SumTail ==
  ASSUME NEW s \in Seq(Nat), NEW t \in Seq(Nat), Len(t) = Len(s) + 1,
         \A n \in 1 .. Len(s) : t[n + 1] = s[n]
  PROVE  Uart!Sum(t) = t[1] + Uart!Sum(s) /\ Uart!Sum(s) \in Nat
<1> DEFINE N == Len(s)
           M == Len(t)
<1>1. N \in Nat /\ M = N + 1 /\ t[1] \in Nat
  OBVIOUS
<1>0. \A n \in 1 .. N : t[n + 1] = s[n] /\ s[n] \in Nat
  OBVIOUS
<1>2. PICK g : (\A n \in 0 .. N : g[n] \in Nat) /\
        g[0] = 0 /\ (\A n \in 1 .. N : g[n] = g[n - 1] + s[n]) /\ Uart!Sum(s) = g[N]
  BY SumIs
<1>3. PICK h : (\A n \in 0 .. M : h[n] \in Nat) /\
        h[0] = 0 /\ (\A n \in 1 .. M : h[n] = h[n - 1] + t[n]) /\ Uart!Sum(t) = h[M]
  BY SumIs
<1> HIDE DEF N, M
<1>4. h[N + 1] = h[1] + g[N]
  <2>1. \A n \in 0 .. N : g[n] \in Nat /\ h[n + 1] \in Nat
    BY <1>1, <1>2, <1>3
  <2>2. ASSUME NEW n \in 0 .. N - 1
        PROVE  /\ s[n + 1] \in Nat /\ g[n + 1] = g[n] + s[n + 1]
               /\ h[n + 1 + 1] = h[n + 1] + s[n + 1]
    <3>1. n + 1 \in 1 .. N /\ n + 1 + 1 \in 1 .. M /\ n + 1 - 1 = n /\ n + 1 + 1 - 1 = n + 1
      BY <1>1
    <3>2. g[n + 1] = g[n + 1 - 1] + s[n + 1] /\ h[n + 1 + 1] = h[n + 1 + 1 - 1] + t[n + 1 + 1]
      BY <3>1, <1>2, <1>3
    <3>3. t[n + 1 + 1] = s[n + 1] /\ s[n + 1] \in Nat
      BY <3>1, <1>0
    <3> QED BY <3>1, <3>2, <3>3
  <2>3. Alike(s, g, h, 1, N)
    BY <2>1, <2>2, <1>2 DEF Alike
  <2>4. N \in Nat /\ 1 \in Nat
    BY <1>1
  <2> QED BY <2>3, <2>4, SumsAlike
<1>5. 1 \in 1 .. M /\ 1 - 1 = 0 /\ N \in 0 .. N
  BY <1>1
<1>6. h[1] = h[0] + t[1]
  BY <1>3, <1>5
<1>7. g[N] \in Nat
  BY <1>2, <1>5
<1> QED BY <1>1, <1>2, <1>3, <1>4, <1>6, <1>7

\* Sequences of bytes.
LEMMA Widened ==
  ASSUME NEW X, NEW Y, X \subseteq Y, NEW s \in Seq(X)
  PROVE  s \in Seq(Y)
OBVIOUS

LEMMA Members ==
  ASSUME NEW X, NEW s \in Seq(X)
  PROVE  Len(s) \in Nat /\ \A n \in 1 .. Len(s) : s[n] \in X
OBVIOUS

LEMMA Bytes ==
  ASSUME NEW s \in Seq(0 .. 255)
  PROVE  s \in Seq(Nat) /\ Len(s) \in Nat /\ \A n \in 1 .. Len(s) : s[n] \in 0 .. 255
<1>1. 0 .. 255 \subseteq Nat
  OBVIOUS
<1>2. s \in Seq(Nat)
  BY <1>1, Widened
<1>3. Len(s) \in Nat /\ \A n \in 1 .. Len(s) : s[n] \in 0 .. 255
  BY Members
<1> QED BY <1>2, <1>3

LEMMA Concat ==
  ASSUME NEW X, NEW p \in Seq(X), NEW q \in Seq(X)
  PROVE  /\ p \o q \in Seq(X) /\ Len(p \o q) = Len(p) + Len(q)
         /\ (\A n \in 1 .. Len(p) : (p \o q)[n] = p[n])
         /\ (\A n \in 1 .. Len(q) : (p \o q)[Len(p) + n] = q[n])
OBVIOUS

\* The bytes of a line, the checksum last.
LEMMA OctetsIs ==
  ASSUME NEW r \in Records, Uart!Count(r) <= 254
  PROVE  /\ Uart!Octets(r) \in Seq(0 .. 255) /\ Len(Uart!Octets(r)) = Uart!Count(r) + 1 /\ Uart!Octets(r)[1] = Uart!Count(r)
         /\ Uart!Count(r) \in 3 .. 254
         /\ \A n \in 1 .. Uart!Count(r) : Uart!Octets(r)[n] = Uart!Body(r)[n]
         /\ Uart!Octets(r)[Uart!Count(r) + 1] = 255 - (Uart!Sum(Uart!Body(r)) % 256) /\ Uart!Sum(Uart!Body(r)) \in Nat
<1> DEFINE b == Uart!Body(r)
           c == Uart!Count(r)
           x == Uart!Sum(b)
           y == 255 - (x % 256)
<1>1. b \in Seq(0 .. 255) /\ Len(b) = c /\ b[1] = c
  BY BodyIs
<1>2. c \in 3 .. 254
  <2> DEFINE a == Uart!AddressByteCount(r.type)
             L == Len(r.data)
  <2>1. a \in 2 .. 4 /\ L \in Nat /\ c = a + L + 1 /\ c <= 254
    BY BodyIs
  <2> HIDE DEF a, L, c
  <2> QED BY <2>1
<1>3. x \in Nat
  <2>1. b \in Seq(Nat)
    <3> HIDE DEF b
    <3> QED BY <1>1, Bytes
  <2> HIDE DEF b
  <2> QED BY <2>1, SumAppend
<1>4. Uart!Octets(r) = Append(b, y)
  BY DEF Uart!Octets
<1> HIDE DEF x
<1>5. y \in 0 .. 255
  BY <1>3
<1> HIDE DEF b, c, y
<1>6. Append(b, y) \in Seq(0 .. 255) /\ Len(Append(b, y)) = c + 1 /\ Append(b, y)[1] = c
      /\ (\A n \in 1 .. c : Append(b, y)[n] = b[n]) /\ Append(b, y)[c + 1] = y
  BY <1>1, <1>2, <1>5
<1> QED BY <1>2, <1>3, <1>4, <1>6 DEF b, c, x, y

\* The last byte makes the sum of the line's bytes and of one a multiple of 256.
LEMMA CheckSum ==
  ASSUME NEW r \in Records, Uart!Count(r) <= 254, NEW t \in Seq(Nat), Len(t) = Uart!Count(r),
         \A n \in 1 .. Uart!Count(r) : t[n] = Uart!Octets(r)[n + 1]
  PROVE  (Uart!Count(r) + Uart!Sum(t) + 1) % 256 = 0
<1> DEFINE o == Uart!Octets(r)
           b == Uart!Body(r)
           c == Uart!Count(r)
           x == Uart!Sum(b)
<1>1. b \in Seq(Nat) /\ Len(b) = c
  <2>1. b \in Seq(0 .. 255) /\ Len(b) = c
    BY BodyIs
  <2> HIDE DEF b, c
  <2> QED BY <2>1, Bytes
<1>2. o \in Seq(Nat) /\ Len(o) = c + 1 /\ o[1] = c /\ c \in 3 .. 254 /\ x \in Nat
  <2>1. o \in Seq(0 .. 255) /\ Len(o) = c + 1 /\ o[1] = c /\ c \in 3 .. 254 /\ x \in Nat
    BY OctetsIs
  <2> HIDE DEF o, c, x
  <2> QED BY <2>1, Bytes
<1>3. Uart!Sum(o) = x + (255 - (x % 256))
  <2>1. 255 - (x % 256) \in Nat /\ o = Append(b, 255 - (x % 256))
    BY <1>2 DEF Uart!Octets
  <2> HIDE DEF o, b
  <2> QED BY <1>1, <2>1, SumAppend
<1>4. Uart!Sum(o) = c + Uart!Sum(t) /\ Uart!Sum(t) \in Nat
  <2> HIDE DEF o, c
  <2>1. Len(o) = Len(t) + 1 /\ \A n \in 1 .. Len(t) : o[n + 1] = t[n]
    BY <1>2 DEF o, c
  <2> QED BY <1>2, <2>1, SumTail
<1> DEFINE y == Uart!Sum(t)
<1>5. c + y = x + (255 - (x % 256)) /\ y \in Nat
  BY <1>3, <1>4
<1> HIDE DEF c, x, y, o
<1>6. c + y + 1 = 256 * (x \div 256) + 256
  <2>1. x \in Nat
    BY <1>2
  <2>2. x = 256 * (x \div 256) + (x % 256) /\ x % 256 \in 0 .. 255
    BY <2>1
  <2> QED BY <2>1, <2>2, <1>2, <1>5
<1>7. (c + y + 1) % 256 = 0
  BY <1>2, <1>6
<1> QED BY <1>7 DEF c, y

\* A line's characters.
LEMMA LineIs ==
  ASSUME NEW r \in Records, Uart!Count(r) <= 254
  PROVE  /\ Len(Uart!Line(r)) = 2 * Uart!Count(r) + 5 /\ Uart!Count(r) \in 3 .. 254
         /\ Uart!Line(r)[1] = Uart!S /\ Uart!Line(r)[2] = r.type /\ Uart!Line(r)[2 * Uart!Count(r) + 5] = Uart!Other
         /\ \A m \in 1 .. Uart!Count(r) + 1 :
              /\ Uart!Octets(r)[m] \in 0 .. 255
              /\ Uart!Line(r)[2 * m + 1] = Uart!Octets(r)[m] \div 16
              /\ Uart!Line(r)[2 * m + 2] = Uart!Octets(r)[m] % 16
<1> DEFINE o == Uart!Octets(r)
           c == Uart!Count(r)
           d == Uart!Nibbles(o)
           e == <<Uart!S, r.type>>
<1>1. Len(o) = c + 1 /\ c \in 3 .. 254 /\ \A m \in 1 .. c + 1 : o[m] \in 0 .. 255
  <2>1. o \in Seq(0 .. 255) /\ Len(o) = c + 1 /\ c \in 3 .. 254
    BY OctetsIs
  <2> HIDE DEF o, c
  <2> QED BY <2>1, Bytes
<1>2. r.type \in 0 .. 9
  BY DEF Records
<1>3. Uart!Line(r) = e \o d \o <<Uart!Other>>
  BY DEF Uart!Line
<1> HIDE DEF o, c
<1>4. d = [n \in 1 .. 2 * (c + 1) |-> IF n % 2 = 1 THEN o[(n + 1) \div 2] \div 16
                                                  ELSE o[n \div 2] % 16]
  BY <1>1 DEF Uart!Nibbles
<1>5. ASSUME NEW m \in 1 .. c + 1
      PROVE  d[2 * m - 1] = o[m] \div 16 /\ d[2 * m] = o[m] % 16
  <2>1. 2 * m - 1 \in 1 .. 2 * (c + 1) /\ 2 * m \in 1 .. 2 * (c + 1)
    BY <1>1
  <2>2. (2 * m - 1) % 2 = 1 /\ ((2 * m - 1) + 1) \div 2 = m /\ (2 * m) % 2 # 1 /\ (2 * m) \div 2 = m
    BY <1>1
  <2> QED BY <2>1, <2>2, <1>4
<1>6. d \in Seq(0 .. 15) /\ Len(d) = 2 * (c + 1)
  <2>1. ASSUME NEW n \in 1 .. 2 * (c + 1) PROVE d[n] \in 0 .. 15
    <3>1. CASE n % 2 = 1
      <4>1. (n + 1) \div 2 \in 1 .. c + 1
        BY <3>1, <1>1
      <4>2. o[(n + 1) \div 2] \in 0 .. 255
        BY <4>1, <1>1
      <4>3. o[(n + 1) \div 2] \div 16 \in 0 .. 15
        BY <4>2
      <4> QED BY <3>1, <4>3, <1>4
    <3>2. CASE n % 2 # 1
      <4>1. n \div 2 \in 1 .. c + 1
        BY <3>2, <1>1
      <4>2. o[n \div 2] \in 0 .. 255
        BY <4>1, <1>1
      <4>3. o[n \div 2] % 16 \in 0 .. 15
        BY <4>2
      <4> QED BY <3>2, <4>3, <1>4
    <3> QED BY <3>1, <3>2
  <2>2. 2 * (c + 1) \in Nat
    BY <1>1
  <2>3. d \in [1 .. 2 * (c + 1) -> 0 .. 15]
    <3> HIDE DEF d
    <3> QED BY <2>1, <1>4
  <2> HIDE DEF d
  <2> QED BY <2>2, <2>3
<1>7. e \in Seq(0 .. 17) /\ Len(e) = 2 /\ e[1] = Uart!S /\ e[2] = r.type
  <2> DEFINE t == r.type
  <2>1. t \in 0 .. 9
    BY <1>2
  <2> HIDE DEF t
  <2>2. <<16, t>> \in Seq(0 .. 17) /\ Len(<<16, t>>) = 2 /\ <<16, t>>[1] = 16 /\ <<16, t>>[2] = t
    BY <2>1
  <2> QED BY <2>2 DEF Uart!S, t
<1> HIDE DEF d, e
<1> DEFINE ed == e \o d
<1>8. /\ ed \in Seq(0 .. 17) /\ Len(ed) = 2 * c + 4 /\ ed[1] = e[1] /\ ed[2] = e[2]
      /\ \A n \in 1 .. 2 * (c + 1) : ed[n + 2] = d[n]
  <2>1. d \in Seq(0 .. 17)
    <3>1. d \in [1 .. Len(d) -> 0 .. 15] /\ Len(d) \in Nat
      BY <1>6
    <3>2. d \in [1 .. Len(d) -> 0 .. 17]
      BY <3>1
    <3> QED BY <3>1, <3>2
  <2>2. /\ ed \in Seq(0 .. 17) /\ Len(ed) = 2 + Len(d)
        /\ (\A n \in 1 .. 2 : ed[n] = e[n]) /\ (\A n \in 1 .. Len(d) : ed[2 + n] = d[n])
    <3>1. /\ e \o d \in Seq(0 .. 17) /\ Len(e \o d) = Len(e) + Len(d)
          /\ (\A n \in 1 .. Len(e) : (e \o d)[n] = e[n])
          /\ (\A n \in 1 .. Len(d) : (e \o d)[Len(e) + n] = d[n])
      <4>1. e \in Seq(0 .. 17)
        BY <1>7
      <4> QED BY <4>1, <2>1, Concat
    <3> QED BY <3>1, <1>7
  <2> HIDE DEF ed
  <2>3. 1 \in 1 .. 2 /\ 2 \in 1 .. 2 /\ 2 + 2 * (c + 1) = 2 * c + 4
    BY <1>1
  <2>4. \A n \in 1 .. 2 * (c + 1) : 2 + n = n + 2
    BY <1>1
  <2> QED BY <2>2, <2>3, <2>4, <1>6
<1> HIDE DEF ed
<1>10. Uart!Line(r) = ed \o <<Uart!Other>>
  BY <1>3 DEF ed
<1> DEFINE l == Append(ed, Uart!Other)
<1>11. ed \o <<Uart!Other>> = l
  BY <1>8
<1>12. /\ Len(Uart!Line(r)) = 2 * c + 5 /\ Uart!Line(r)[2 * c + 5] = Uart!Other
       /\ \A n \in 1 .. 2 * c + 4 : Uart!Line(r)[n] = ed[n]
  <2>1. Uart!Other \in 0 .. 17 /\ 2 * c + 4 \in Nat /\ (2 * c + 4) + 1 = 2 * c + 5
    BY <1>1 DEF Uart!Other
  <2>2. /\ Len(l) = 2 * c + 5 /\ l[2 * c + 5] = Uart!Other
        /\ \A n \in 1 .. 2 * c + 4 : l[n] = ed[n]
    BY <2>1, <1>8
  <2> HIDE DEF l
  <2> QED BY <2>2, <1>10, <1>11
<1>13. Uart!Line(r)[1] = Uart!S /\ Uart!Line(r)[2] = r.type
  BY <1>1, <1>7, <1>8, <1>12
<1>14. ASSUME NEW m \in 1 .. c + 1
       PROVE  Uart!Line(r)[2 * m + 1] = o[m] \div 16 /\ Uart!Line(r)[2 * m + 2] = o[m] % 16
  <2>1. /\ 2 * m - 1 \in 1 .. 2 * (c + 1) /\ 2 * m \in 1 .. 2 * (c + 1)
        /\ (2 * m - 1) + 2 = 2 * m + 1 /\ 2 * m + 1 \in 1 .. 2 * c + 4
        /\ 2 * m + 2 \in 1 .. 2 * c + 4
    BY <1>1
  <2>2. ed[2 * m + 1] = d[2 * m - 1] /\ ed[2 * m + 2] = d[2 * m]
    BY <2>1, <1>8
  <2> QED BY <2>1, <2>2, <1>5, <1>12
<1> QED BY <1>1, <1>12, <1>13, <1>14 DEF o, c

-----------------------------------------------------------------------------
(* Addresses and memory.                                                   *)

Onto(x, b) == IF x > SrecTop THEN x ELSE 256 * x + b

\* Address takes in one byte after the other,
LEMMA AddressSteps ==
  ASSUME SrecTop \in Nat, NEW s \in Seq(Nat)
  PROVE  \E g : (\A n \in 0 .. Len(s) : g[n] \in Nat) /\
           g[0] = 0 /\ (\A n \in 1 .. Len(s) : g[n] = Onto(g[n - 1], s[n])) /\ Uart!Address(s) = g[Len(s)]
<1> DEFINE N == Len(s)
           Unfold(h) == [n \in 0 .. N |-> IF n = 0 THEN 0 ELSE Onto(h[n - 1], s[n])]
           upTo == CHOOSE h : h = Unfold(h)
           step == [n \in 1 .. N |-> [x \in Nat |-> Onto(x, s[n])]]
<1>1. N \in Nat /\ \A n \in 1 .. N : s[n] \in Nat
  OBVIOUS
<1>0. \A x, b \in Nat : Onto(x, b) \in Nat
  BY DEF Onto
<1>2. PICK g \in [0 .. N -> Nat] : Obeys(g, 0, N, step)
  <2>1. step \in Rules(N, Nat)
    BY <1>0, <1>1 DEF Rules
  <2> HIDE DEF step, N
  <2> QED BY <1>1, <2>1, Recursion
<1>3. g = Unfold(g)
  <2> SUFFICES ASSUME NEW n \in 0 .. N PROVE g[n] = Unfold(g)[n]
    OBVIOUS
  <2>1. n = 0 \/ (n \in 1 .. N /\ n - 1 \in 0 .. N)
    BY <1>1
  <2> QED BY <2>1, <1>1, <1>2 DEF Obeys
<1>4. upTo = Unfold(upTo)
  <2> HIDE DEF Unfold
  <2> QED BY <1>3
<1>5. Uart!Address(s) = upTo[N]
  BY DEF Uart!Address, Onto
<1> HIDE DEF upTo
<1>6. upTo[0] = 0 /\ \A n \in 1 .. N : upTo[n] = Onto(upTo[n - 1], s[n])
  <2>1. 0 \in 0 .. N /\ \A n \in 1 .. N : n \in 0 .. N /\ n # 0
    BY <1>1
  <2> DEFINE r == Unfold(upTo)
  <2>2. r[0] = 0 /\ \A n \in 1 .. N : r[n] = Onto(upTo[n - 1], s[n])
    BY <2>1
  <2> HIDE DEF r
  <2>3. upTo = r
    BY <1>4 DEF r
  <2> QED BY <2>2, <2>3
<1>7. \A n \in 0 .. N : upTo[n] \in Nat
  <2> DEFINE T == {n \in Nat : n <= N => upTo[n] \in Nat}
  <2>1. 0 \in T
    BY <1>6
  <2>2. ASSUME NEW n \in Nat, n \in T PROVE n + 1 \in T
    <3> SUFFICES ASSUME n + 1 <= N PROVE upTo[n + 1] \in Nat
      OBVIOUS
    <3>1. n + 1 \in 1 .. N /\ n + 1 - 1 = n /\ upTo[n] \in Nat
      BY <2>2, <1>1
    <3>2. upTo[n + 1] = Onto(upTo[n], s[n + 1]) /\ s[n + 1] \in Nat
      <4> HIDE DEF N
      <4> QED BY <3>1, <1>1, <1>6
    <3> QED BY <3>1, <3>2, <1>0
  <2>3. Nat \subseteq T
    <3> HIDE DEF T
    <3> QED BY <2>1, <2>2, SetInduction
  <2>4. \A n \in 0 .. N : upTo[n] \in Nat
    BY <2>3, <1>1
  <2> QED BY <2>4
<1> QED BY <1>5, <1>6, <1>7

\* and is a number.
LEMMA AddressType ==
  ASSUME SrecTop \in Nat, NEW s \in Seq(Nat)
  PROVE  Uart!Address(s) \in Nat
<1>1. Len(s) \in 0 .. Len(s)
  OBVIOUS
<1> QED BY <1>1, AddressSteps

\* An address of memory, taken apart into two to four bytes, is put together again.
LEMMA Parts ==
  ASSUME NEW a \in Nat
  PROVE  /\ a = 256 * (a \div 256) + (a % 256)
         /\ a \div 65536 = (a \div 256) \div 256 /\ a \div 16777216 = ((a \div 256) \div 256) \div 256
OBVIOUS

\* The bytes of an address give the address.
LEMMA AddressIs ==
  ASSUME SrecTop \in Nat, NEW a \in Nat, a <= SrecTop, NEW L \in 2 .. 4, a \div 256 < Uart!Weight[L],
         NEW s \in Seq(Nat), Len(s) = L, \A n \in 1 .. L : s[n] = (a \div Uart!Weight[L - n + 1]) % 256
  PROVE  Uart!Address(s) = a
<1> DEFINE a1 == a \div 256
           a2 == a1 \div 256
           a3 == a2 \div 256
<1>1. PICK g : /\ \A n \in 0 .. Len(s) : g[n] \in Nat
               /\ g[0] = 0 /\ (\A n \in 1 .. Len(s) : g[n] = Onto(g[n - 1], s[n]))
               /\ Uart!Address(s) = g[Len(s)]
  BY AddressSteps
<1>2. Uart!Weight[1] = 1 /\ Uart!Weight[2] = 256 /\ Uart!Weight[3] = 65536 /\ Uart!Weight[4] = 16777216
  BY DEF Uart!Weight
<1>3. /\ a \div 256 = a1 /\ a \div 65536 = a2 /\ a \div 16777216 = a3 /\ a \div 1 = a
      /\ a1 \in Nat /\ a2 \in Nat /\ a3 \in Nat
  BY Parts
<1>a. /\ a \div Uart!Weight[1] = a /\ a \div Uart!Weight[2] = a1
      /\ a \div Uart!Weight[3] = a2 /\ a \div Uart!Weight[4] = a3
  <2> HIDE DEF a1, a2, a3
  <2> QED BY <1>2, <1>3
<1>4. a = 256 * a1 + (a % 256) /\ a1 = 256 * a2 + (a1 % 256) /\ a2 = 256 * a3 + (a2 % 256)
      /\ a % 256 \in 0 .. 255 /\ a1 % 256 \in 0 .. 255 /\ a2 % 256 \in 0 .. 255
  <2>1. a1 \in Nat /\ a2 \in Nat
    BY <1>3
  <2> HIDE DEF a1, a2, a3
  <2>2. a = 256 * (a \div 256) + (a % 256) /\ a % 256 \in 0 .. 255
    OBVIOUS
  <2>3. a1 = 256 * (a1 \div 256) + (a1 % 256) /\ a1 % 256 \in 0 .. 255
    BY <2>1
  <2>4. a2 = 256 * (a2 \div 256) + (a2 % 256) /\ a2 % 256 \in 0 .. 255
    BY <2>1
  <2> QED BY <2>2, <2>3, <2>4 DEF a1, a2, a3
<1>5. a1 <= SrecTop /\ a2 <= SrecTop /\ a3 <= SrecTop
  BY <1>3, <1>4
<1>6. /\ L >= 1 /\ g[0] = 0 /\ g[1] = Onto(g[0], s[1])
      /\ g[2] = Onto(g[1], s[2])
      /\ (L >= 3 => g[3] = Onto(g[2], s[3]))
      /\ (L >= 4 => g[4] = Onto(g[3], s[4]))
  BY <1>1
<1>7. CASE L = 2
  <2>1. s[1] = a1 % 256 /\ s[2] = a % 256
    <3>1. \A n \in 1 .. 2 : s[n] = (a \div Uart!Weight[2 - n + 1]) % 256
      BY <1>7
    <3>2. s[1] = (a \div Uart!Weight[2]) % 256 /\ s[2] = (a \div Uart!Weight[1]) % 256
      BY <3>1
    <3> HIDE DEF a1, a2, a3
    <3> QED BY <3>2, <1>a
  <2>2. a1 % 256 = a1
    <3>1. a1 < 256
      BY <1>2, <1>3, <1>7
    <3> HIDE DEF a1
    <3> QED BY <3>1, <1>3
  <2> HIDE DEF a1, a2, a3
  <2>3. g[1] = a1
    BY <2>1, <2>2, <1>6, <1>3 DEF Onto
  <2>4. g[2] = a
    BY <2>1, <2>3, <1>6, <1>3, <1>4, <1>5 DEF Onto
  <2> QED BY <2>4, <1>1, <1>7
<1>8. CASE L = 3
  <2>1. s[1] = a2 % 256 /\ s[2] = a1 % 256 /\ s[3] = a % 256
    <3>1. \A n \in 1 .. 3 : s[n] = (a \div Uart!Weight[3 - n + 1]) % 256
      BY <1>8
    <3>2. s[1] = (a \div Uart!Weight[3]) % 256 /\ s[2] = (a \div Uart!Weight[2]) % 256 /\ s[3] = (a \div Uart!Weight[1]) % 256
      BY <3>1
    <3> HIDE DEF a1, a2, a3
    <3> QED BY <3>2, <1>a
  <2>2. a2 % 256 = a2
    <3>1. a1 < 65536
      BY <1>2, <1>3, <1>8
    <3>2. a2 < 256
      BY <3>1, <1>3, <1>4
    <3> HIDE DEF a2
    <3> QED BY <3>2, <1>3
  <2> HIDE DEF a1, a2, a3
  <2>3. g[1] = a2
    BY <2>1, <2>2, <1>6, <1>3 DEF Onto
  <2>4. g[2] = a1
    BY <2>1, <2>3, <1>6, <1>3, <1>4, <1>5 DEF Onto
  <2>5. g[3] = a
    <3>1. g[3] = Onto(a1, a % 256)
      BY <2>1, <2>4, <1>6, <1>8
    <3> QED BY <3>1, <1>3, <1>4, <1>5 DEF Onto
  <2> QED BY <2>5, <1>1, <1>8
<1>9. CASE L = 4
  <2>1. s[1] = a3 % 256 /\ s[2] = a2 % 256 /\ s[3] = a1 % 256 /\ s[4] = a % 256
    <3>1. \A n \in 1 .. 4 : s[n] = (a \div Uart!Weight[4 - n + 1]) % 256
      BY <1>9
    <3>2. s[1] = (a \div Uart!Weight[4]) % 256 /\ s[2] = (a \div Uart!Weight[3]) % 256 /\ s[3] = (a \div Uart!Weight[2]) % 256 /\ s[4] = (a \div Uart!Weight[1]) % 256
      BY <3>1
    <3> HIDE DEF a1, a2, a3
    <3> QED BY <3>2, <1>a
  <2>2. a3 % 256 = a3
    <3>1. a1 < 16777216
      BY <1>2, <1>3, <1>9
    <3>2. a3 < 256
      BY <3>1, <1>3, <1>4
    <3> HIDE DEF a3
    <3> QED BY <3>2, <1>3
  <2> HIDE DEF a1, a2, a3
  <2>3. g[1] = a3
    BY <2>1, <2>2, <1>6, <1>3 DEF Onto
  <2>4. g[2] = a2
    BY <2>1, <2>3, <1>6, <1>3, <1>4, <1>5 DEF Onto
  <2>5. g[3] = a1
    <3>1. g[3] = Onto(a2, a1 % 256)
      BY <2>1, <2>4, <1>6, <1>9
    <3> QED BY <3>1, <1>3, <1>4, <1>5 DEF Onto
  <2>6. g[4] = a
    <3>1. g[4] = Onto(a1, a % 256)
      BY <2>1, <2>5, <1>6, <1>9
    <3> QED BY <3>1, <1>3, <1>4, <1>5 DEF Onto
  <2> QED BY <2>6, <1>1, <1>9
<1> QED BY <1>7, <1>8, <1>9

\* What memory holds.
Memories == [Uart!Addresses -> 0 .. 255 \union {Uart!Old}]

\* Store writes one word after the other.
LEMMA StoreSteps ==
  ASSUME NEW m \in Memories, NEW r, r.address \in Nat, r.data \in Seq(0 .. 255)
  PROVE  \E g : /\ (\A n \in 0 .. Len(r.data) : g[n] \in Memories)
                /\ g[0] = m /\ Uart!Store(m, r) = g[Len(r.data)]
                /\ \A n \in 1 .. Len(r.data) :
                     g[n] = Uart!StoreWord(g[n - 1], r.address + n - 1, r.data[n])
<1> DEFINE N == Len(r.data)
           d == r.data
           a == r.address
           Unfold(h) == [n \in 0 .. N |-> IF n = 0 THEN m ELSE Uart!StoreWord(h[n - 1], a + n - 1, d[n])]
           after == CHOOSE h : h = Unfold(h)
           step == [n \in 1 .. N |-> [x \in Memories |-> Uart!StoreWord(x, a + n - 1, d[n])]]
<1>1. N \in Nat /\ a \in Nat /\ \A n \in 1 .. N : d[n] \in 0 .. 255
  BY Members
<1>0. ASSUME NEW x \in Memories, NEW n \in Nat, NEW b \in 0 .. 255
      PROVE  Uart!StoreWord(x, n, b) \in Memories
  BY DEF Uart!StoreWord, Memories
<1> HIDE DEF d, a
<1>9. ASSUME NEW n \in 1 .. N PROVE a + n - 1 \in Nat /\ d[n] \in 0 .. 255
  <2> HIDE DEF N
  <2> QED BY <1>1
<1>2. PICK g \in [0 .. N -> Memories] : Obeys(g, m, N, step)
  <2>1. step \in Rules(N, Memories)
    <3> HIDE DEF N
    <3> QED BY <1>0, <1>9 DEF Rules
  <2> HIDE DEF step, N
  <2> QED BY <1>1, <2>1, Recursion
<1>3. g = Unfold(g)
  <2> SUFFICES ASSUME NEW n \in 0 .. N PROVE g[n] = Unfold(g)[n]
    OBVIOUS
  <2>1. n = 0 \/ (n \in 1 .. N /\ n - 1 \in 0 .. N)
    BY <1>1
  <2> QED BY <2>1, <1>1, <1>2 DEF Obeys
<1>4. after = Unfold(after)
  <2> HIDE DEF Unfold
  <2> QED BY <1>3
<1>5. Uart!Store(m, r) = after[N]
  BY DEF Uart!Store, d, a
<1> HIDE DEF after
<1>6. after[0] = m /\ \A n \in 1 .. N : after[n] = Uart!StoreWord(after[n - 1], a + n - 1, d[n])
  <2>1. 0 \in 0 .. N /\ \A n \in 1 .. N : n \in 0 .. N /\ n # 0
    BY <1>1
  <2> DEFINE u == Unfold(after)
  <2>2. u[0] = m /\ \A n \in 1 .. N : u[n] = Uart!StoreWord(after[n - 1], a + n - 1, d[n])
    BY <2>1
  <2> HIDE DEF u
  <2>3. after = u
    BY <1>4 DEF u
  <2> QED BY <2>2, <2>3
<1>7. \A n \in 0 .. N : after[n] \in Memories
  <2> DEFINE T == {n \in Nat : n <= N => after[n] \in Memories}
  <2>1. 0 \in T
    BY <1>6
  <2>2. ASSUME NEW n \in Nat, n \in T PROVE n + 1 \in T
    <3> SUFFICES ASSUME n + 1 <= N PROVE after[n + 1] \in Memories
      OBVIOUS
    <3>1. n + 1 \in 1 .. N /\ n + 1 - 1 = n /\ after[n] \in Memories
      BY <2>2, <1>1
    <3>2. after[n + 1] = Uart!StoreWord(after[n], a + (n + 1) - 1, d[n + 1])
      <4> HIDE DEF N
      <4> QED BY <3>1, <1>6
    <3> QED BY <3>1, <3>2, <1>0, <1>9
  <2>3. Nat \subseteq T
    <3> HIDE DEF T
    <3> QED BY <2>1, <2>2, SetInduction
  <2>4. \A n \in 0 .. N : after[n] \in Memories
    BY <2>3, <1>1
  <2> QED BY <2>4
<1> QED BY <1>5, <1>6, <1>7 DEF d, a

\* All bytes of a record are in place afterwards, the zeros of the words before them
\* overwritten, and nothing before the record has changed.
LEMMA StoreIs ==
  ASSUME SrecTop \in Nat, NEW m \in Memories, NEW r, r.address \in Nat, r.data \in Seq(0 .. 255)
  PROVE  /\ Uart!Store(m, r) \in Memories
         /\ \A x \in Uart!Addresses : x < r.address => Uart!Store(m, r)[x] = m[x]
         /\ \A n \in 1 .. Len(r.data) :
              r.address + n - 1 \in Uart!Addresses => Uart!Store(m, r)[r.address + n - 1] = r.data[n]
<1> DEFINE N == Len(r.data)
           d == r.data
           a == r.address
<1>1. N \in Nat /\ a \in Nat /\ \A n \in 1 .. N : d[n] \in 0 .. 255
  BY Members
<1>2. PICK g : /\ (\A n \in 0 .. N : g[n] \in Memories) /\ g[0] = m /\ Uart!Store(m, r) = g[N]
               /\ \A n \in 1 .. N : g[n] = Uart!StoreWord(g[n - 1], a + n - 1, d[n])
  BY StoreSteps
<1> HIDE DEF d, a, N
<1> DEFINE Right(n) == /\ (\A x \in Uart!Addresses : x < a => g[n][x] = m[x])
                       /\ (\A x \in 1 .. n : a + x - 1 \in Uart!Addresses => g[n][a + x - 1] = d[x])
           T == {n \in Nat : n <= N => Right(n)}
<1>3. 0 \in T
  BY <1>2
<1>4. ASSUME NEW n \in Nat, n \in T PROVE n + 1 \in T
  <2> SUFFICES ASSUME n + 1 <= N PROVE Right(n + 1)
    OBVIOUS
  <2>1. n \in 0 .. N /\ n + 1 \in 1 .. N /\ n + 1 - 1 = n /\ Right(n)
    BY <1>1, <1>4
  <2>2. g[n] \in Memories /\ g[n + 1] = Uart!StoreWord(g[n], a + (n + 1) - 1, d[n + 1])
    BY <2>1, <1>2
  <2>3. a + (n + 1) - 1 = a + n
    BY <1>1
  <2>4. \A x \in Uart!Addresses : g[n + 1][x] = (IF x = a + n THEN d[n + 1]
                                            ELSE IF x \in (a + n) + 1 .. (a + n) + 3 THEN 0
                                            ELSE g[n][x])
    BY <2>2, <2>3 DEF Uart!StoreWord, Memories
  <2>5. ASSUME NEW x \in Uart!Addresses, x < a + n PROVE g[n + 1][x] = g[n][x]
    <3>1. x \in Nat /\ x # a + n /\ x \notin (a + n) + 1 .. (a + n) + 3
      BY <2>5, <1>1 DEF Uart!Addresses
    <3> QED BY <3>1, <2>4
  <2>6. ASSUME NEW x \in Uart!Addresses, x < a PROVE g[n + 1][x] = m[x]
    <3>1. x < a + n
      BY <2>6, <1>1 DEF Uart!Addresses
    <3> QED BY <3>1, <2>1, <2>5, <2>6
  <2>7. ASSUME NEW x \in 1 .. n + 1, a + x - 1 \in Uart!Addresses PROVE g[n + 1][a + x - 1] = d[x]
    <3>1. CASE x = n + 1
      <4>1. a + x - 1 = a + n
        BY <3>1, <2>3
      <4> QED BY <4>1, <3>1, <2>4, <2>7
    <3>2. CASE x # n + 1
      <4>1. x \in 1 .. n /\ a + x - 1 < a + n
        BY <3>2, <1>1
      <4> QED BY <4>1, <2>1, <2>5, <2>7
    <3> QED BY <3>1, <3>2
  <2> QED BY <2>6, <2>7
<1>5. Nat \subseteq T
  <2> HIDE DEF T
  <2> QED BY <1>3, <1>4, SetInduction
<1>6. N \in 0 .. N /\ N <= N
  BY <1>1
<1>7. Right(N) /\ g[N] \in Memories
  BY <1>1, <1>2, <1>5, <1>6
<1> QED BY <1>2, <1>7 DEF d, a, N

-----------------------------------------------------------------------------
(* What a character does to the state.                                     *)

Datas    == [0 .. MAX -> 0 .. 255]
\* struct srec_state between two characters.
Machines == [state : {"start"} \union Armed \union InData, type : 0 .. 15,
             byte_count : 0 .. MAX, length : 0 .. MAX, data : Datas]

\* srec_state with whatever length or count.
Loose == [state : {"start"} \union Armed \union InData, type : 0 .. 15,
          byte_count : 0 .. 255, length : 0 .. MAX + 1, data : Datas]

\* The first bytes of the data array.
LEMMA FirstIs ==
  ASSUME Uart!SrecAssumption, NEW s \in Loose, NEW n \in 0 .. MAX + 1
  PROVE  /\ Uart!First(s, n) \in Seq(0 .. 255) /\ Len(Uart!First(s, n)) = n
         /\ \A x \in 1 .. n : Uart!First(s, n)[x] = s.data[x - 1]
<1>1. MAX \in Nat /\ n \in Nat
  BY MAXIs
<1>2. \A x \in 1 .. n : s.data[x - 1] \in 0 .. 255
  BY <1>1 DEF Loose, Datas
<1> DEFINE f == [x \in 1 .. n |-> s.data[x - 1]]
<1>3. f \in [1 .. n -> 0 .. 255]
  BY <1>2
<1>4. \A x \in 1 .. n : f[x] = s.data[x - 1]
  OBVIOUS
<1>5. Uart!First(s, n) = f
  BY DEF Uart!First
<1> HIDE DEF f
<1>6. f \in Seq(0 .. 255) /\ Len(f) = n
  BY <1>1, <1>3
<1> QED BY <1>4, <1>5, <1>6

Handed(r) == r.type \in 0 .. 15 /\ r.address \in Nat /\ r.data \in Seq(0 .. 255)

\* The end of a sequence.
LEMMA PartOf ==
  ASSUME NEW X, NEW s \in Seq(X), NEW m \in Nat, m <= Len(s)
  PROVE  /\ SubSeq(s, m + 1, Len(s)) \in Seq(X) /\ Len(SubSeq(s, m + 1, Len(s))) = Len(s) - m
         /\ \A n \in 1 .. Len(s) - m : SubSeq(s, m + 1, Len(s))[n] = s[m + n]
OBVIOUS

\* What srec_end_read hands over.
LEMMA RecordIs ==
  ASSUME Uart!SrecAssumption, NEW s \in Loose
  PROVE  /\ Handed(Uart!Record(s)) /\ Uart!Record(s) # Uart!NoCall /\ Uart!Record(s).type = s.type
         /\ Uart!Record(s).address = Uart!Address(Uart!First(s, Uart!AddressByteCount(s.type)))
         /\ s.length > Uart!AddressByteCount(s.type) =>
              /\ Len(Uart!Record(s).data) = s.length - 1 - Uart!AddressByteCount(s.type)
              /\ \A n \in 1 .. Len(Uart!Record(s).data) :
                   Uart!Record(s).data[n] = s.data[Uart!AddressByteCount(s.type) + n - 1]
         /\ Uart!Record(s).complaint <=>
              s.length # s.byte_count \/ (s.length + Uart!Sum(Uart!First(s, s.length)) + 1) % 256 # 0
<1> DEFINE b == Uart!AddressByteCount(s.type)
           L == s.length
           f == Uart!First(s, L - 1)
           d == SubSeq(f, b + 1, L - 1)
<1>1. b \in 2 .. 4 /\ L \in 0 .. MAX + 1 /\ s.type \in 0 .. 15 /\ MAX \in Nat /\ 4 <= MAX
  BY AddressBytes, MAXIs DEF Loose
<1>2. /\ Uart!Record(s).type = s.type /\ Uart!Record(s).address = Uart!Address(Uart!First(s, b))
      /\ Uart!Record(s).data = (IF L > b THEN d ELSE <<>>)
      /\ Uart!Record(s).complaint =
           (s.length # s.byte_count \/ (s.length + Uart!Sum(Uart!First(s, s.length)) + 1) % 256 # 0)
  BY DEF Uart!Record
<1>3. Uart!Record(s).address \in Nat
  <2>1. b \in 0 .. MAX + 1
    BY <1>1
  <2> HIDE DEF b
  <2>2. Uart!First(s, b) \in Seq(Nat)
    BY <2>1, FirstIs, Bytes
  <2> QED BY <2>2, <1>2, AddressType, MAXIs
<1>4. ASSUME L > b
      PROVE  d \in Seq(0 .. 255) /\ Len(d) = L - 1 - b
             /\ \A n \in 1 .. Len(d) : d[n] = s.data[b + n - 1]
  <2>1. L - 1 \in 0 .. MAX + 1 /\ b \in Nat /\ b <= L - 1
    BY <1>1, <1>4
  <2>2. f \in Seq(0 .. 255) /\ Len(f) = L - 1 /\ \A x \in 1 .. L - 1 : f[x] = s.data[x - 1]
    BY <2>1, FirstIs
  <2> HIDE DEF f, b, L
  <2>3. /\ SubSeq(f, b + 1, L - 1) \in Seq(0 .. 255) /\ Len(SubSeq(f, b + 1, L - 1)) = (L - 1) - b
        /\ \A n \in 1 .. (L - 1) - b : SubSeq(f, b + 1, L - 1)[n] = f[b + n]
    <3> DEFINE M == L - 1
    <3>1. M = Len(f) /\ b <= Len(f)
      BY <2>1, <2>2
    <3> HIDE DEF M
    <3>2. /\ SubSeq(f, b + 1, Len(f)) \in Seq(0 .. 255) /\ Len(SubSeq(f, b + 1, Len(f))) = Len(f) - b
          /\ \A n \in 1 .. Len(f) - b : SubSeq(f, b + 1, Len(f))[n] = f[b + n]
      BY <3>1, <2>1, <2>2, PartOf
    <3>3. M = L - 1
      BY DEF M
    <3> QED BY <3>1, <3>2, <3>3
  <2>4. ASSUME NEW n \in 1 .. (L - 1) - b PROVE f[b + n] = s.data[b + n - 1]
    <3>1. b + n \in 1 .. L - 1 /\ (b + n) - 1 = b + n - 1
      BY <1>1
    <3> QED BY <3>1, <2>2
  <2> HIDE DEF d
  <2>5. (L - 1) - b = L - 1 - b
    BY <1>1
  <2> QED BY <2>3, <2>4, <2>5 DEF d
<1>5. Uart!Record(s).data \in Seq(0 .. 255)
  <2>1. CASE L > b
    BY <2>1, <1>2, <1>4
  <2>2. CASE ~(L > b)
    <3>1. Uart!Record(s).data = <<>>
      BY <2>2, <1>2
    <3>2. <<>> \in Seq(0 .. 255)
      OBVIOUS
    <3> QED BY <3>1, <3>2
  <2> QED BY <2>1, <2>2
<1>6. Uart!Record(s) # Uart!NoCall
  BY <1>1, <1>2 DEF Uart!NoCall, Uart!Nowhere
<1> QED BY <1>1, <1>2, <1>3, <1>4, <1>5, <1>6 DEF Handed

States == {"start"} \union Armed \union InData
\* struct srec_state, written out.
Struct(a, b, c, l, d) == [state |-> a, type |-> b, byte_count |-> c, length |-> l, data |-> d]

\* Fields, types and changes of such a record.
LEMMA Fields ==
  ASSUME NEW a, NEW b, NEW c, NEW l, NEW d
  PROVE  LET t == Struct(a, b, c, l, d)
         IN  t.state = a /\ t.type = b /\ t.byte_count = c /\ t.length = l /\ t.data = d
BY DEF Struct

LEMMA Typed ==
  ASSUME NEW a \in States, NEW b \in 0 .. 15, NEW l, NEW c, NEW d \in Datas
  PROVE  /\ c \in 0 .. MAX /\ l \in 0 .. MAX => Struct(a, b, c, l, d) \in Machines
         /\ c \in 0 .. 255 /\ l \in 0 .. MAX + 1 => Struct(a, b, c, l, d) \in Loose
BY DEF States, Struct, Machines, Loose

LEMMA WrittenOut ==
  ASSUME NEW s \in Machines
  PROVE  /\ s = Struct(s.state, s.type, s.byte_count, s.length, s.data)
         /\ s.state \in States /\ s.type \in 0 .. 15 /\ s.byte_count \in 0 .. MAX
         /\ s.length \in 0 .. MAX /\ s.data \in Datas
BY DEF Machines, States, Struct

WithState(s, x)  == [s EXCEPT !.state = x]
WithType(s, x)   == [s EXCEPT !.type = x]
WithCount(s, x)  == [s EXCEPT !.byte_count = x]
WithLength(s, x) == [s EXCEPT !.length = x]

LEMMA Changed ==
  ASSUME NEW a, NEW b, NEW c, NEW l, NEW d, NEW x
  PROVE  LET t == Struct(a, b, c, l, d)
         IN  /\ WithState(t, x) = Struct(x, b, c, l, d)
             /\ WithType(t, x) = Struct(a, x, c, l, d)
             /\ WithCount(t, x) = Struct(a, b, x, l, d)
             /\ WithLength(t, x) = Struct(a, b, c, x, d)
BY DEF Struct, WithState, WithType, WithCount, WithLength

LEMMA ClearedIs ==
  ASSUME NEW a, NEW b, NEW c, NEW l, NEW d
  PROVE  Uart!Cleared(Struct(a, b, c, l, d)) = Struct("start", 0, 0, 0, d)
<1> DEFINE s == Struct(a, b, c, l, d)
<1>1. Uart!Cleared(s) = [[[[s EXCEPT !.state = "start"] EXCEPT !.type = 0] EXCEPT !.length = 0]
                    EXCEPT !.byte_count = 0]
  BY DEF Uart!Cleared, Struct
<1> QED BY <1>1 DEF Struct

LEMMA MachinesLoose ==
  ASSUME Uart!SrecAssumption, NEW s \in Machines
  PROVE  s \in Loose
BY MAXIs DEF Machines, Loose

\* The data with a high and a low digit.
HighOf(s, c) == [s.data EXCEPT ![s.length] = 16 * c]
LowOf(s, c)  == [s.data EXCEPT ![s.length] = OrLow(s.data[s.length], c)]

\* A digit changes one byte of the data,
LEMMA LowOfIs ==
  ASSUME NEW s \in Machines, NEW c \in 0 .. 15
  PROVE  /\ OrLow(s.data[s.length], c) \in 0 .. 255
         /\ LowOf(s, c) \in Datas /\ LowOf(s, c)[s.length] = OrLow(s.data[s.length], c)
         /\ \A x \in 0 .. MAX : x # s.length => LowOf(s, c)[x] = s.data[x]
<1> DEFINE y == OrLow(s.data[s.length], c)
           d == s.data
           l == s.length
<1>1. d \in Datas /\ l \in 0 .. MAX
  BY WrittenOut
<1>2. d[l] \in 0 .. 255
  BY <1>1 DEF Datas
<1>3. y \in 0 .. 255
  BY <1>2, OrType
<1>4. LowOf(s, c) = [d EXCEPT ![l] = y]
  BY DEF LowOf
<1> HIDE DEF y, d, l
<1>5. LowOf(s, c) \in Datas
  BY <1>1, <1>3, <1>4 DEF Datas
<1>6. LowOf(s, c)[l] = y /\ \A x \in 0 .. MAX : x # l => LowOf(s, c)[x] = d[x]
  BY <1>1, <1>4 DEF Datas
<1> QED BY <1>3, <1>5, <1>6 DEF y, d, l

\* as the high one,
LEMMA HighOfIs ==
  ASSUME NEW s \in Machines, NEW c \in 0 .. 15
  PROVE  /\ HighOf(s, c) \in Datas /\ HighOf(s, c)[s.length] = 16 * c
         /\ \A x \in 0 .. MAX : x # s.length => HighOf(s, c)[x] = s.data[x]
<1> DEFINE y == 16 * c
           d == s.data
           l == s.length
<1>1. d \in Datas /\ l \in 0 .. MAX
  BY WrittenOut
<1>3. y \in 0 .. 255
  OBVIOUS
<1>4. HighOf(s, c) = [d EXCEPT ![l] = y]
  BY DEF HighOf
<1> HIDE DEF y, d, l
<1>5. HighOf(s, c) \in Datas
  BY <1>1, <1>3, <1>4 DEF Datas
<1>6. HighOf(s, c)[l] = y /\ \A x \in 0 .. MAX : x # l => HighOf(s, c)[x] = d[x]
  BY <1>1, <1>4 DEF Datas
<1> QED BY <1>5, <1>6 DEF y, d, l

\* and nothing else of the state.
LEMMA LowHigh ==
  ASSUME NEW s \in Machines, NEW c \in 0 .. 15
  PROVE  /\ Uart!Low(s, c)  = Struct(s.state, s.type, s.byte_count, s.length, LowOf(s, c))
         /\ Uart!High(s, c) = Struct(s.state, s.type, s.byte_count, s.length, HighOf(s, c))
<1> DEFINE x == OrLow(s.data[s.length], c)
           y == 16 * c
<1>1. Uart!Low(s, c) = [s EXCEPT !.data[s.length] = x]
  BY LowIs
<1>2. Uart!High(s, c) = [s EXCEPT !.data[s.length] = y]
  BY DEF Uart!High
<1>3. LowOf(s, c) = [s.data EXCEPT ![s.length] = x] /\ HighOf(s, c) = [s.data EXCEPT ![s.length] = y]
  BY DEF LowOf, HighOf
<1> HIDE DEF x, y
<1>4. \A z : [s EXCEPT !.data[s.length] = z]
             = Struct(s.state, s.type, s.byte_count, s.length, [s.data EXCEPT ![s.length] = z])
  BY DEF Machines, Struct
<1> QED BY <1>1, <1>2, <1>3, <1>4

\* One character, state by state.
To(s, r) == [s |-> s, call |-> r]

\* srec_read_byte case by case: the state after it and the call.
LEMMA ToIs == ASSUME NEW s, NEW r PROVE To(s, r).s = s /\ To(s, r).call = r
BY DEF To

LEMMA ThenIs ==
  ASSUME NEW s, NEW r, NEW x
  PROVE  Uart!ThenState(To(s, r), x) = To(WithState(s, x), r)
BY DEF Uart!ThenState, To, WithState

LEMMA EndReadIs ==
  ASSUME NEW s
  PROVE  Uart!EndRead(s) = IF s.byte_count = 0 THEN To(s, Uart!NoCall) ELSE To(Uart!Cleared(s), Uart!Record(s))
BY DEF Uart!EndRead, To

\* S ends a record whose count is known, and begins one.
LEMMA OnS ==
  ASSUME NEW s \in Machines
  PROVE  Uart!srec_read_byte(s, Uart!S) = IF s.byte_count = 0
                                THEN To(Struct("type", s.type, 0, s.length, s.data), Uart!NoCall)
                                ELSE To(Struct("type", 0, 0, 0, s.data), Uart!Record(s))
<1>1. Uart!srec_read_byte(s, Uart!S) = Uart!ThenState(Uart!EndRead(s), "type")
  BY DEF Uart!srec_read_byte, Uart!S, Uart!Other
<1>2. s = Struct(s.state, s.type, s.byte_count, s.length, s.data)
  BY WrittenOut
<1>3. WithState(s, "type") = Struct("type", s.type, s.byte_count, s.length, s.data)
  BY <1>2, Changed
<1>4. Uart!Cleared(s) = Struct("start", 0, 0, 0, s.data)
  BY <1>2, ClearedIs
<1>5. WithState(Uart!Cleared(s), "type") = Struct("type", 0, 0, 0, s.data)
  BY <1>4, Changed
<1> QED BY <1>1, <1>3, <1>5, EndReadIs, ThenIs

\* Other characters do nothing; digits go by the state.
LEMMA OnOther ==
  ASSUME NEW s
  PROVE  Uart!srec_read_byte(s, Uart!Other) = To(s, Uart!NoCall)
BY DEF Uart!srec_read_byte, Uart!Other, Uart!S, Uart!Silent, To

LEMMA OnDigit ==
  ASSUME NEW s, NEW c \in 0 .. 15
  PROVE  Uart!srec_read_byte(s, c) = Uart!Digit(s, c)
BY DEF Uart!srec_read_byte, Uart!Other, Uart!S

LEMMA OnStart ==
  ASSUME NEW s \in Machines, NEW c \in 0 .. 15, s.state = "start"
  PROVE  Uart!srec_read_byte(s, c) = To(Struct("start", s.type, s.byte_count, s.length, LowOf(s, c)), Uart!NoCall)
BY OnDigit, LowHigh DEF Uart!Digit, Uart!Silent, To

LEMMA OnType ==
  ASSUME NEW s \in Machines, NEW c \in 0 .. 15, s.state = "type"
  PROVE  Uart!srec_read_byte(s, c) = To(Struct("countHigh", c, s.byte_count, s.length, s.data), Uart!NoCall)
<1>1. Uart!srec_read_byte(s, c) = To([s EXCEPT !.type = c, !.state = "countHigh"], Uart!NoCall)
  BY OnDigit DEF Uart!Digit, Uart!Silent, To
<1>2. s = Struct(s.state, s.type, s.byte_count, s.length, s.data)
  BY WrittenOut
<1>3. [s EXCEPT !.type = c, !.state = "countHigh"] = WithState(WithType(s, c), "countHigh")
  BY <1>2 DEF Struct, WithState, WithType
<1>4. WithState(WithType(s, c), "countHigh")
      = Struct("countHigh", c, s.byte_count, s.length, s.data)
  BY <1>2, Changed
<1> QED BY <1>1, <1>3, <1>4

LEMMA OnCountHigh ==
  ASSUME NEW s \in Machines, NEW c \in 0 .. 15, s.state = "countHigh"
  PROVE  Uart!srec_read_byte(s, c)
         = To(Struct("countLow", s.type, s.byte_count, s.length, HighOf(s, c)), Uart!NoCall)
<1>1. Uart!srec_read_byte(s, c) = To(WithState(Uart!High(s, c), "countLow"), Uart!NoCall)
  BY OnDigit DEF Uart!Digit, Uart!Silent, To, WithState
<1> QED BY <1>1, LowHigh, Changed

LEMMA OnDataHigh ==
  ASSUME NEW s \in Machines, NEW c \in 0 .. 15, s.state = "dataHigh"
  PROVE  Uart!srec_read_byte(s, c)
         = To(Struct("dataLow", s.type, s.byte_count, s.length, HighOf(s, c)), Uart!NoCall)
<1>1. Uart!srec_read_byte(s, c) = To(WithState(Uart!High(s, c), "dataLow"), Uart!NoCall)
  BY OnDigit DEF Uart!Digit, Uart!Silent, To, WithState
<1> QED BY <1>1, LowHigh, Changed

LEMMA OnCountLow ==
  ASSUME NEW s \in Machines, NEW c \in 0 .. 15, s.state = "countLow", Uart!SrecAssumption
  PROVE  LET y == OrLow(s.data[s.length], c)
             t == Struct("countLow", s.type, y, s.length, LowOf(s, c))
         IN  Uart!srec_read_byte(s, c) =
               IF y > MAX THEN To(Struct("start", 0, 0, 0, LowOf(s, c)), Uart!Record(t))
               ELSE To(Struct("dataHigh", s.type, y, s.length, LowOf(s, c)), Uart!NoCall)
<1> DEFINE y == OrLow(s.data[s.length], c)
           l == Uart!Low(s, c)
           t == Struct("countLow", s.type, y, s.length, LowOf(s, c))
           u == WithCount(l, l.data[l.length])
<1>1. Uart!srec_read_byte(s, c) = IF u.byte_count > MAX THEN Uart!EndRead(u)
                             ELSE To(WithState(u, "dataHigh"), Uart!NoCall)
  BY OnDigit DEF Uart!Digit, Uart!GotCount, Uart!Silent, To, WithState, WithCount
<1>2. l = Struct("countLow", s.type, s.byte_count, s.length, LowOf(s, c))
  BY LowHigh
<1> HIDE DEF l
<1>3. l.data = LowOf(s, c) /\ l.length = s.length
  BY <1>2, Fields
<1>4. LowOf(s, c)[s.length] = y /\ y \in 0 .. 255
  BY LowOfIs
<1> HIDE DEF y
<1>5. u = t
  BY <1>2, <1>3, <1>4, Changed
<1>6. t.byte_count = y /\ Uart!Cleared(t) = Struct("start", 0, 0, 0, LowOf(s, c))
      /\ WithState(t, "dataHigh") = Struct("dataHigh", s.type, y, s.length, LowOf(s, c))
  BY Fields, Changed, ClearedIs
<1>7. y > MAX => y # 0
  BY <1>4, MAXIs
<1> HIDE DEF u, t
<1> QED BY <1>1, <1>5, <1>6, <1>7, EndReadIs DEF y, t

\* srec_state with one more byte.
Longer(s, c) == Struct("dataLow", s.type, s.byte_count, s.length + 1, LowOf(s, c))

LEMMA OnDataLow ==
  ASSUME NEW s \in Machines, NEW c \in 0 .. 15, s.state = "dataLow", Uart!SrecAssumption
  PROVE  /\ Longer(s, c) \in Loose
         /\ Uart!srec_read_byte(s, c) =
              IF s.length + 1 < s.byte_count
              THEN To(Struct("dataHigh", s.type, s.byte_count, s.length + 1, LowOf(s, c)), Uart!NoCall)
              ELSE IF s.byte_count = 0
              THEN To(Struct("start", s.type, 0, s.length + 1, LowOf(s, c)), Uart!NoCall)
              ELSE To(Struct("start", 0, 0, 0, LowOf(s, c)), Uart!Record(Longer(s, c)))
<1> DEFINE l == Uart!Low(s, c)
           t == Longer(s, c)
           u == WithLength(l, l.length + 1)
<1>1. Uart!srec_read_byte(s, c) = IF u.length < u.byte_count THEN To(WithState(u, "dataHigh"), Uart!NoCall)
                             ELSE Uart!ThenState(Uart!EndRead(u), "start")
  BY OnDigit DEF Uart!Digit, Uart!GotData, Uart!Silent, To, WithState, WithLength
<1>2. l = Struct("dataLow", s.type, s.byte_count, s.length, LowOf(s, c))
  BY LowHigh
<1> HIDE DEF l
<1>3. u = t
  BY <1>2, Changed, Fields DEF Longer
<1>4. t.length = s.length + 1 /\ t.byte_count = s.byte_count
      /\ Uart!Cleared(t) = Struct("start", 0, 0, 0, LowOf(s, c))
      /\ WithState(t, "dataHigh")
         = Struct("dataHigh", s.type, s.byte_count, s.length + 1, LowOf(s, c))
      /\ WithState(t, "start")
         = Struct("start", s.type, s.byte_count, s.length + 1, LowOf(s, c))
  BY Fields, Changed, ClearedIs DEF Longer
<1>5. WithState(Uart!Cleared(t), "start") = Struct("start", 0, 0, 0, LowOf(s, c))
  BY <1>4, Changed
<1>6. t \in Loose
  <2>1. /\ s.length \in 0 .. MAX /\ s.byte_count \in 0 .. MAX /\ s.type \in 0 .. 15
        /\ LowOf(s, c) \in Datas
    BY WrittenOut, LowOfIs
  <2>2. "dataLow" \in States
    BY DEF States, InData
  <2>3. s.byte_count \in 0 .. 255 /\ s.length + 1 \in 0 .. MAX + 1
    BY <2>1, MAXIs
  <2> QED BY <2>1, <2>2, <2>3, Typed DEF Longer
<1> HIDE DEF t, u
<1>7. Uart!ThenState(Uart!EndRead(t), "start") =
        IF s.byte_count = 0 THEN To(Struct("start", s.type, 0, s.length + 1, LowOf(s, c)), Uart!NoCall)
        ELSE To(Struct("start", 0, 0, 0, LowOf(s, c)), Uart!Record(t))
  BY <1>4, <1>5, EndReadIs, ThenIs
<1> QED BY <1>1, <1>3, <1>4, <1>6, <1>7 DEF t

\* What a character makes of the machine, and a record that it may hand over.
Sound(r) == r.s \in Machines /\ (r.call = Uart!NoCall \/ (r.call # Uart!NoCall /\ Handed(r.call)))

\* Values that states start from.
LEMMA Zeros ==
  ASSUME Uart!SrecAssumption
  PROVE  0 \in 0 .. MAX /\ 0 \in 0 .. 15 /\ MAX \in Nat /\ 4 <= MAX /\ MAX <= 254
         /\ "start" \in States /\ "type" \in States /\ "countHigh" \in States
         /\ "countLow" \in States /\ "dataHigh" \in States /\ "dataLow" \in States
BY MAXIs DEF States, Armed, InData

\* The same with types: after S,
LEMMA SStep ==
  ASSUME Uart!SrecAssumption, NEW s \in Machines
  PROVE  LET r == Uart!srec_read_byte(s, Uart!S)
         IN  /\ Sound(r) /\ r.s.state = "type" /\ r.s.byte_count = 0
             /\ r.s.length = (IF s.byte_count = 0 THEN s.length ELSE 0)
             /\ r.call = (IF s.byte_count = 0 THEN Uart!NoCall ELSE Uart!Record(s))
<1>1. /\ s.type \in 0 .. 15 /\ s.length \in 0 .. MAX /\ s.data \in Datas
      /\ s \in Loose
  BY WrittenOut, MachinesLoose
<1>2. Handed(Uart!Record(s)) /\ Uart!Record(s) # Uart!NoCall
  BY <1>1, RecordIs
<1> DEFINE x == Struct("type", s.type, 0, s.length, s.data)
           y == Struct("type", 0, 0, 0, s.data)
<1>3. /\ x \in Machines /\ x.state = "type" /\ x.byte_count = 0 /\ x.length = s.length
      /\ y \in Machines /\ y.state = "type" /\ y.byte_count = 0 /\ y.length = 0
  BY <1>1, Zeros, Typed, Fields
<1> HIDE DEF x, y
<1>4. Uart!srec_read_byte(s, Uart!S) = IF s.byte_count = 0 THEN To(x, Uart!NoCall) ELSE To(y, Uart!Record(s))
  BY OnS DEF x, y
<1> QED BY <1>2, <1>3, <1>4, ToIs DEF Sound

\* after another character,
LEMMA OtherStep ==
  ASSUME NEW s \in Machines
  PROVE  LET r == Uart!srec_read_byte(s, Uart!Other)
         IN  Sound(r) /\ r.s = s /\ r.call = Uart!NoCall
BY OnOther, ToIs DEF Sound

\* after a digit outside a record,
LEMMA OutsideStep ==
  ASSUME Uart!SrecAssumption, NEW s \in Machines, NEW c \in 0 .. 15, s.state = "start"
  PROVE  LET r == Uart!srec_read_byte(s, c)
         IN  /\ Sound(r) /\ r.s.state = "start" /\ r.s.length = s.length
             /\ r.s.byte_count = s.byte_count
<1>1. /\ s.type \in 0 .. 15 /\ s.length \in 0 .. MAX /\ s.byte_count \in 0 .. MAX
      /\ LowOf(s, c) \in Datas
  BY WrittenOut, LowOfIs
<1> DEFINE x == Struct("start", s.type, s.byte_count, s.length, LowOf(s, c))
<1>2. x \in Machines /\ x.state = "start" /\ x.byte_count = s.byte_count /\ x.length = s.length
  BY <1>1, Zeros, Typed, Fields
<1> HIDE DEF x
<1>3. Uart!srec_read_byte(s, c) = To(x, Uart!NoCall)
  BY OnStart DEF x
<1> QED BY <1>2, <1>3, ToIs DEF Sound

\* of the type,
LEMMA TypeStep ==
  ASSUME Uart!SrecAssumption, NEW s \in Machines, NEW c \in 0 .. 15, s.state = "type"
  PROVE  LET r == Uart!srec_read_byte(s, c)
         IN  /\ Sound(r) /\ r.s.state = "countHigh" /\ r.s.length = s.length
             /\ r.s.byte_count = s.byte_count /\ r.s.type = c /\ r.call = Uart!NoCall
<1>1. /\ s.length \in 0 .. MAX /\ s.byte_count \in 0 .. MAX /\ s.data \in Datas
  BY WrittenOut
<1> DEFINE x == Struct("countHigh", c, s.byte_count, s.length, s.data)
<1>2. x \in Machines /\ x.state = "countHigh" /\ x.byte_count = s.byte_count
      /\ x.length = s.length /\ x.type = c
  BY <1>1, Zeros, Typed, Fields
<1> HIDE DEF x
<1>3. Uart!srec_read_byte(s, c) = To(x, Uart!NoCall)
  BY OnType DEF x
<1> QED BY <1>2, <1>3, ToIs DEF Sound

\* of the count,
LEMMA CountHighStep ==
  ASSUME Uart!SrecAssumption, NEW s \in Machines, NEW c \in 0 .. 15, s.state = "countHigh"
  PROVE  LET r == Uart!srec_read_byte(s, c)
         IN  /\ Sound(r) /\ r.s.state = "countLow" /\ r.s.length = s.length
             /\ r.s.byte_count = s.byte_count /\ r.s.type = s.type /\ r.call = Uart!NoCall
             /\ r.s.data[s.length] = 16 * c
<1>1. /\ s.type \in 0 .. 15 /\ s.length \in 0 .. MAX /\ s.byte_count \in 0 .. MAX
      /\ HighOf(s, c) \in Datas /\ HighOf(s, c)[s.length] = 16 * c
  BY WrittenOut, HighOfIs
<1> DEFINE x == Struct("countLow", s.type, s.byte_count, s.length, HighOf(s, c))
<1>2. x \in Machines /\ x.state = "countLow" /\ x.byte_count = s.byte_count
      /\ x.length = s.length /\ x.type = s.type /\ x.data = HighOf(s, c)
  BY <1>1, Zeros, Typed, Fields
<1> HIDE DEF x
<1>3. Uart!srec_read_byte(s, c) = To(x, Uart!NoCall)
  BY OnCountHigh DEF x
<1> QED BY <1>1, <1>2, <1>3, ToIs DEF Sound

\* which is refused when it is higher than MAX,
LEMMA CountLowStep ==
  ASSUME Uart!SrecAssumption, NEW s \in Machines, NEW c \in 0 .. 15, s.state = "countLow"
  PROVE  LET r == Uart!srec_read_byte(s, c)
             y == OrLow(s.data[s.length], c)
         IN  /\ Sound(r) /\ y \in 0 .. 255
             /\ y > MAX => r.s.state = "start" /\ r.s.length = 0 /\ r.s.byte_count = 0
             /\ y <= MAX => /\ r.s.state = "dataHigh" /\ r.s.length = s.length /\ r.s.type = s.type
                            /\ r.s.byte_count = y /\ r.call = Uart!NoCall
<1> DEFINE y == OrLow(s.data[s.length], c)
           t == Struct("countLow", s.type, y, s.length, LowOf(s, c))
           x == Struct("start", 0, 0, 0, LowOf(s, c))
           z == Struct("dataHigh", s.type, y, s.length, LowOf(s, c))
<1>1. /\ s.type \in 0 .. 15 /\ s.length \in 0 .. MAX
      /\ LowOf(s, c) \in Datas /\ y \in 0 .. 255
  BY WrittenOut, LowOfIs
<1>2. Uart!srec_read_byte(s, c) = IF y > MAX THEN To(x, Uart!Record(t)) ELSE To(z, Uart!NoCall)
  BY OnCountLow
<1> HIDE DEF y
<1>3. x \in Machines /\ x.state = "start" /\ x.byte_count = 0 /\ x.length = 0
  BY <1>1, Zeros, Typed, Fields
<1>4. Handed(Uart!Record(t)) /\ Uart!Record(t) # Uart!NoCall
  <2>1. s.length \in 0 .. MAX + 1
    BY <1>1, MAXIs
  <2>2. t \in Loose
    BY <1>1, <2>1, Zeros, Typed
  <2> QED BY <2>2, RecordIs
<1>5. y <= MAX => /\ z \in Machines /\ z.state = "dataHigh" /\ z.length = s.length
                  /\ z.type = s.type /\ z.byte_count = y
  <2> SUFFICES ASSUME y <= MAX PROVE /\ z \in Machines /\ z.state = "dataHigh"
                                     /\ z.length = s.length /\ z.type = s.type /\ z.byte_count = y
    OBVIOUS
  <2>1. y \in 0 .. MAX
    BY <1>1, MAXIs
  <2> QED BY <2>1, <1>1, Zeros, Typed, Fields
<1> HIDE DEF x, z, t
<1>6. CASE y > MAX
  <2>1. ~(y <= MAX)
    BY <1>6, <1>1, MAXIs
  <2> QED BY <2>1, <1>1, <1>2, <1>3, <1>4, <1>6, ToIs DEF Sound, y
<1>7. CASE y <= MAX
  <2>1. ~(y > MAX)
    BY <1>7, <1>1, MAXIs
  <2> QED BY <2>1, <1>1, <1>2, <1>5, <1>7, ToIs DEF Sound, y
<1>8. y > MAX \/ y <= MAX
  BY <1>1, MAXIs
<1> QED BY <1>6, <1>7, <1>8

\* and of a byte of the record,
LEMMA DataHighStep ==
  ASSUME Uart!SrecAssumption, NEW s \in Machines, NEW c \in 0 .. 15, s.state = "dataHigh"
  PROVE  LET r == Uart!srec_read_byte(s, c)
         IN  /\ Sound(r) /\ r.s.state = "dataLow" /\ r.s.length = s.length
             /\ r.s.byte_count = s.byte_count /\ r.s.type = s.type /\ r.call = Uart!NoCall
             /\ r.s.data[s.length] = 16 * c
             /\ \A x \in 0 .. MAX : x # s.length => r.s.data[x] = s.data[x]
<1>1. /\ s.type \in 0 .. 15 /\ s.length \in 0 .. MAX /\ s.byte_count \in 0 .. MAX
      /\ HighOf(s, c) \in Datas /\ HighOf(s, c)[s.length] = 16 * c
      /\ \A x \in 0 .. MAX : x # s.length => HighOf(s, c)[x] = s.data[x]
  BY WrittenOut, HighOfIs
<1> DEFINE z == Struct("dataLow", s.type, s.byte_count, s.length, HighOf(s, c))
<1>2. z \in Machines /\ z.state = "dataLow" /\ z.byte_count = s.byte_count
      /\ z.length = s.length /\ z.type = s.type /\ z.data = HighOf(s, c)
  BY <1>1, Zeros, Typed, Fields
<1> HIDE DEF z
<1>3. Uart!srec_read_byte(s, c) = To(z, Uart!NoCall)
  BY OnDataHigh DEF z
<1> QED BY <1>1, <1>2, <1>3, ToIs DEF Sound

\* which may be the last one.
LEMMA DataLowStep ==
  ASSUME Uart!SrecAssumption, NEW s \in Machines, NEW c \in 0 .. 15, s.state = "dataLow",
         s.byte_count = 0 => s.length + 1 <= MAX
  PROVE  LET r == Uart!srec_read_byte(s, c)
         IN  /\ Sound(r)
             /\ s.length + 1 < s.byte_count =>
                  /\ r.s.state = "dataHigh" /\ r.s.length = s.length + 1 /\ r.call = Uart!NoCall
                  /\ r.s.byte_count = s.byte_count /\ r.s.type = s.type
                  /\ r.s.data = LowOf(s, c)
             /\ ~(s.length + 1 < s.byte_count) /\ s.byte_count # 0 =>
                  /\ r.s.state = "start" /\ r.s.length = 0 /\ r.s.byte_count = 0
                  /\ r.call = Uart!Record(Longer(s, c)) /\ Longer(s, c) \in Loose
             /\ s.byte_count = 0 =>
                  r.s.state = "start" /\ r.s.length = s.length + 1 /\ r.s.byte_count = 0
<1> DEFINE d == LowOf(s, c)
           n == s.length + 1
           more == Struct("dataHigh", s.type, s.byte_count, n, d)
           stray == Struct("start", s.type, 0, n, d)
           done == Struct("start", 0, 0, 0, d)
<1>1. /\ s.type \in 0 .. 15 /\ s.length \in 0 .. MAX /\ s.byte_count \in 0 .. MAX /\ d \in Datas
  BY WrittenOut, LowOfIs
<1>2. /\ Longer(s, c) \in Loose
      /\ Uart!srec_read_byte(s, c) = IF n < s.byte_count THEN To(more, Uart!NoCall)
                                ELSE IF s.byte_count = 0 THEN To(stray, Uart!NoCall)
                                ELSE To(done, Uart!Record(Longer(s, c)))
  BY OnDataLow
<1>3. Handed(Uart!Record(Longer(s, c))) /\ Uart!Record(Longer(s, c)) # Uart!NoCall
  BY <1>2, RecordIs
<1>4. n \in Nat /\ (n < s.byte_count => n \in 0 .. MAX) /\ (s.byte_count = 0 => n \in 0 .. MAX)
      /\ (s.byte_count = 0 => ~(n < s.byte_count))
  BY <1>1, MAXIs
<1> HIDE DEF n
<1>5. done \in Machines /\ done.state = "start" /\ done.length = 0 /\ done.byte_count = 0
  BY <1>1, Zeros, Typed, Fields
<1>6. n < s.byte_count => /\ more \in Machines /\ more.state = "dataHigh" /\ more.length = n
                          /\ more.byte_count = s.byte_count /\ more.type = s.type /\ more.data = d
  BY <1>1, <1>4, Zeros, Typed, Fields
<1>7. s.byte_count = 0 => /\ stray \in Machines /\ stray.state = "start" /\ stray.length = n
                          /\ stray.byte_count = 0
  BY <1>1, <1>4, Zeros, Typed, Fields
<1> HIDE DEF done, more, stray
<1>8. CASE n < s.byte_count
  BY <1>2, <1>4, <1>6, <1>8, ToIs DEF Sound, n
<1>9. CASE s.byte_count = 0
  BY <1>2, <1>4, <1>7, <1>9, ToIs DEF Sound, n
<1>10. CASE ~(n < s.byte_count) /\ s.byte_count # 0
  BY <1>2, <1>3, <1>5, <1>10, ToIs DEF Sound, n
<1> QED BY <1>8, <1>9, <1>10

-----------------------------------------------------------------------------
(* Where the host is.                                                      *)

\* The character of each place of a line.
LEMMA CharIs ==
  ASSUME Uart!SrecAssumption, Places, k <= Len(file)
  PROVE  /\ k \in 1 .. Len(file) /\ file \in Files /\ file[k] \in Records
         /\ Uart!Count(file[k]) \in 3 .. MAX /\ Len(text[k]) = LastPlace
         /\ LastPlace = 2 * Uart!Count(file[k]) + 5 /\ j \in 1 .. LastPlace
         /\ j = 1 => Uart!Char = Uart!S
         /\ j = 2 => Uart!Char = file[k].type
         /\ j = LastPlace => Uart!Char = Uart!Other
         /\ j # 1 /\ j # LastPlace => Uart!Char \in 0 .. 15
         /\ \A m \in 1 .. Uart!Count(file[k]) + 1 :
              /\ Uart!Octets(file[k])[m] \in 0 .. 255
              /\ j = 2 * m + 1 => Uart!Char = Uart!Octets(file[k])[m] \div 16
              /\ j = 2 * m + 2 => Uart!Char = Uart!Octets(file[k])[m] % 16
<1> DEFINE r == file[k]
           c == Uart!Count(r)
           l == Uart!Line(r)
<1>1. k \in 1 .. Len(file) /\ file \in Files /\ text = [n \in 1 .. Len(file) |-> Uart!Line(file[n])]
      /\ j \in Nat \ {0} /\ j <= Len(text[k])
  BY DEF Places
<1>2. r \in Records /\ c \in 3 .. MAX
  BY <1>1, FileIs
<1>3. text[k] = l /\ Uart!Char = l[j]
  BY <1>1 DEF Uart!Char
<1>4. c <= 254
  BY <1>2, MAXIs
<1>5. /\ Len(l) = 2 * c + 5 /\ l[1] = Uart!S /\ l[2] = r.type /\ l[2 * c + 5] = Uart!Other
      /\ \A m \in 1 .. c + 1 : /\ Uart!Octets(r)[m] \in 0 .. 255
                               /\ l[2 * m + 1] = Uart!Octets(r)[m] \div 16
                               /\ l[2 * m + 2] = Uart!Octets(r)[m] % 16
  BY <1>2, <1>4, LineIs
<1>6. r.type \in 0 .. 9
  BY <1>2 DEF Records
<1>7. LastPlace = 2 * c + 5
  BY DEF LastPlace
<1> DEFINE o == Uart!Octets(r)
<1> HIDE DEF r, c, l, o
<1>8. j \in 1 .. 2 * c + 5
  BY <1>1, <1>2, <1>3, <1>5, MAXIs
<1>9. ASSUME j # 1, j # 2 * c + 5 PROVE l[j] \in 0 .. 15
  <2>1. CASE j = 2
    BY <2>1, <1>5, <1>6
  <2>2. CASE j # 2
    <3>1. /\ (j - 1) \div 2 \in 1 .. c + 1
          /\ j = 2 * ((j - 1) \div 2) + 1 \/ j = 2 * ((j - 1) \div 2) + 2
      BY <2>2, <1>2, <1>8, <1>9, MAXIs
    <3>2. PICK m \in 1 .. c + 1 : j = 2 * m + 1 \/ j = 2 * m + 2
      BY <3>1
    <3>3. o[m] \in 0 .. 255 /\ (l[j] = o[m] \div 16 \/ l[j] = o[m] % 16)
      BY <3>2, <1>5 DEF o
    <3>4. \A x \in 0 .. 255 : x \div 16 \in 0 .. 15 /\ x % 16 \in 0 .. 15
      OBVIOUS
    <3> QED BY <3>3, <3>4
  <2> QED BY <2>1, <2>2
<1>10. /\ j = 1 => l[j] = Uart!S
       /\ j = 2 => l[j] = r.type
       /\ j = 2 * c + 5 => l[j] = Uart!Other
       /\ \A m \in 1 .. c + 1 : /\ o[m] \in 0 .. 255
                                /\ j = 2 * m + 1 => l[j] = o[m] \div 16
                                /\ j = 2 * m + 2 => l[j] = o[m] % 16
  BY <1>5 DEF o
<1> QED BY <1>1, <1>2, <1>3, <1>5, <1>7, <1>8, <1>9, <1>10 DEF r, c, l, o

\* The next place.
LEMMA AdvanceIs ==
  ASSUME Uart!SrecAssumption, Places, k <= Len(file), Uart!Advance
  PROVE  \/ j < LastPlace /\ j' = j + 1 /\ k' = k
         \/ j = LastPlace /\ j' = 1 /\ k' = k + 1
<1>1. Len(text[k]) = LastPlace /\ LastPlace = 2 * Uart!Count(file[k]) + 5 /\ j \in 1 .. LastPlace
      /\ Uart!Count(file[k]) \in 3 .. MAX
  BY CharIs
<1>2. LastPlace \in Nat
  BY <1>1, MAXIs
<1> QED BY <1>1, <1>2 DEF Uart!Advance

\* Lines that were hit before, counted.
LEMMA HitsAre ==
  ASSUME Uart!SrecAssumption, Places
  PROVE  /\ Cardinality(Hit) \in Nat /\ Cardinality(HitBefore) \in Nat
         /\ Cardinality(Hit) <= MaxLost
         /\ Cardinality(Hit) = Cardinality(HitBefore) + (IF k \in Hit THEN 1 ELSE 0)
<1>1. IsFiniteSet(Hit) /\ Cardinality(Hit) <= Cardinality(lost) /\ Cardinality(lost) <= MaxLost
      /\ IsFiniteSet(lost)
  BY DEF Places
<1>2. Cardinality(Hit) \in Nat /\ Cardinality(lost) \in Nat
  BY <1>1, FS_CardinalityType
<1>3. IsFiniteSet(HitBefore)
      /\ Cardinality(HitBefore) = IF k \in Hit THEN Cardinality(Hit) - 1 ELSE Cardinality(Hit)
  BY <1>1, FS_RemoveElement DEF HitBefore
<1>4. Cardinality(HitBefore) \in Nat
  BY <1>3, FS_CardinalityType
<1> QED BY <1>1, <1>2, <1>3, <1>4, MAXIs

\* A character is sent, and arrives or not.
LEMMA PlacesOn ==
  ASSUME Uart!SrecAssumption, Places, k <= Len(file), Uart!Advance, UNCHANGED <<file, text>>,
         \/ lost' = lost
         \/ lost' = lost \union {<<k, j>>} /\ Cardinality(lost) < MaxLost
  PROVE  /\ Places' /\ k' \in Nat
         /\ k' = k + 1 => k' \notin Hit'
<1>1. /\ k \in 1 .. Len(file) /\ LastPlace \in Nat /\ LastPlace > 1 /\ j \in 1 .. LastPlace
      /\ Len(file) \in Nat
  <2>1. file \in Files /\ Uart!Count(file[k]) \in 3 .. MAX /\ LastPlace = 2 * Uart!Count(file[k]) + 5
        /\ k \in 1 .. Len(file) /\ j \in 1 .. LastPlace
    BY CharIs
  <2>2. Len(file) \in Nat
    BY <2>1, FileIs
  <2>3. LastPlace \in Nat /\ LastPlace > 1
    BY <2>1, MAXIs
  <2> QED BY <2>1, <2>2, <2>3
<1>2. \/ j < LastPlace /\ j' = j + 1 /\ k' = k
      \/ j = LastPlace /\ j' = 1 /\ k' = k + 1
  BY AdvanceIs
<1>3. k' \in 1 .. Len(file)' + 1 /\ j' \in Nat \ {0} /\ k' \in Nat
  BY <1>1, <1>2
<1>4. lost \subseteq (1 .. Len(file)) \X (Nat \ {0})
      /\ \A p \in lost : p[1] < k \/ (p[1] = k /\ p[2] < j)
  BY DEF Places
<1>5. lost' \subseteq (1 .. Len(file)) \X (Nat \ {0})
  BY <1>1, <1>4
<1>6. ASSUME NEW p \in lost' PROVE p[1] < k' \/ (p[1] = k' /\ p[2] < j')
  <2>1. p[1] \in Nat /\ p[2] \in Nat
    BY <1>5, <1>1
  <2>2. p[1] < k \/ (p[1] = k /\ p[2] < j) \/ (p[1] = k /\ p[2] = j)
    <3>1. CASE p \in lost
      BY <3>1, <1>4
    <3>2. CASE p = <<k, j>>
      BY <3>2
    <3> QED BY <3>1, <3>2
  <2> QED BY <2>1, <2>2, <1>1, <1>2
<1>7. k' = k + 1 => k' \notin Hit'
  <2> SUFFICES ASSUME k' = k + 1, NEW p \in lost', p[1] = k' PROVE FALSE
    BY DEF Hit
  <2>1. p[1] \in Nat
    BY <1>5, <1>1
  <2>2. j' = 1 /\ p[2] \in Nat \ {0}
    BY <1>1, <1>2, <1>5
  <2> QED BY <2>1, <2>2, <1>1, <1>6
<1>8. file' \in Files /\ text' = [n \in 1 .. Len(file)' |-> Uart!Line(file[n]')]
  BY DEF Places
<1>9. j' <= IF k' <= Len(file)' THEN Len(text[k])' ELSE 1
  <2>1. CASE k' = k
    <3>1. Len(text[k]) = LastPlace
      BY CharIs
    <3>2. text[k]' = text[k]
      BY <2>1
    <3> QED BY <2>1, <3>1, <3>2, <1>1, <1>2
  <2>2. CASE k' # k
    <3>1. j' = 1 /\ k' = k + 1
      BY <2>2, <1>1, <1>2
    <3>2. CASE k' <= Len(file)'
      <4>1. k' \in 1 .. Len(file)
        BY <3>2, <1>3
      <4>2. text[k]' = Uart!Line(file[k'])
        BY <4>1, <1>8
      <4>3. file[k'] \in Records /\ Uart!Count(file[k']) \in 3 .. MAX
        BY <4>1, <1>8, FileIs
      <4>4. Uart!Count(file[k']) <= 254
        BY <4>3, MAXIs
      <4>5. Len(Uart!Line(file[k'])) = 2 * Uart!Count(file[k']) + 5
        BY <4>3, <4>4, LineIs
      <4>6. 1 <= 2 * Uart!Count(file[k']) + 5
        BY <4>3, MAXIs
      <4> QED BY <3>1, <3>2, <4>2, <4>5, <4>6
    <3>3. CASE ~(k' <= Len(file)')
      BY <3>1, <3>3
    <3> QED BY <3>2, <3>3
  <2> QED BY <2>1, <2>2
<1>10. /\ IsFiniteSet(lost') /\ Cardinality(lost') <= MaxLost
       /\ IsFiniteSet(Hit') /\ Cardinality(Hit') <= Cardinality(lost')
  <2>1. /\ IsFiniteSet(lost) /\ Cardinality(lost) <= MaxLost
        /\ IsFiniteSet(Hit) /\ Cardinality(Hit) <= Cardinality(lost)
    BY DEF Places
  <2>2. CASE lost' = lost
    BY <2>1, <2>2 DEF Hit
  <2>3. CASE lost' = lost \union {<<k, j>>} /\ Cardinality(lost) < MaxLost
    <3>1. <<k, j>> \notin lost
      <4> SUFFICES ASSUME <<k, j>> \in lost PROVE FALSE
        OBVIOUS
      <4>1. k < k \/ j < j
        BY <1>4
      <4> QED BY <4>1, <1>1
    <3>2. IsFiniteSet(lost') /\ Cardinality(lost') = Cardinality(lost) + 1
      BY <2>1, <2>3, <3>1, FS_AddElement
    <3>3. Hit' = Hit \union {k}
      <4>1. Hit' = {p[1] : p \in lost'}
        BY DEF Hit
      <4>2. \A x : x \in Hit' <=> (\E p \in lost : x = p[1]) \/ x = k
        <5>1. <<k, j>>[1] = k
          OBVIOUS
        <5>2. ASSUME NEW x PROVE x \in Hit' <=> \E p \in lost' : x = p[1]
          BY <4>1
        <5>3. ASSUME NEW x PROVE (\E p \in lost' : x = p[1]) <=> (\E p \in lost : x = p[1]) \/ x = k
          BY <2>3, <5>1
        <5> QED BY <5>2, <5>3
      <4> QED BY <4>2 DEF Hit
    <3>4. IsFiniteSet(Hit \union {k})
          /\ Cardinality(Hit \union {k}) = IF k \in Hit THEN Cardinality(Hit) ELSE Cardinality(Hit) + 1
      BY <2>1, FS_AddElement
    <3>5. Cardinality(lost) \in Nat /\ Cardinality(Hit) \in Nat
      BY <2>1, FS_CardinalityType
    <3> QED BY <2>1, <2>3, <3>2, <3>3, <3>4, <3>5, MAXIs
  <2> QED BY <2>2, <2>3
<1> QED BY <1>3, <1>5, <1>6, <1>7, <1>8, <1>9, <1>10 DEF Places

-----------------------------------------------------------------------------
(* The machine stays within its array.                                     *)

\* The registers, in the words of the lemmas.
LEMMA RegistersAre ==
  ASSUME Uart!SrecAssumption
  PROVE  Registers <=> /\ srec \in Machines /\ (srec.byte_count > 0 => srec.state \in InData)
                       /\ srec_mem \in Memories /\ complaints \subseteq 1 .. Len(file)
BY DEF Registers, Machines, Memories, Datas

\* What srec_data_read leaves.
LEMMA DataRead ==
  ASSUME Uart!SrecAssumption, srec_mem \in Memories, complaints \subseteq 1 .. Len(file),
         k \in 1 .. Len(file), NEW r, r = Uart!NoCall \/ (r # Uart!NoCall /\ Handed(r)), Uart!srec_data_read(r)
  PROVE  /\ srec_mem' \in Memories /\ complaints' \subseteq 1 .. Len(file)
         /\ complaints \subseteq complaints'
         /\ r = Uart!NoCall => srec_mem' = srec_mem /\ target' = target /\ complaints' = complaints
<1>1. CASE r = Uart!NoCall
  <2>1. r.type = -1
    BY <1>1 DEF Uart!NoCall, Uart!Nowhere
  <2>2. ~Uart!IsData(r.type) /\ ~Uart!IsTermination(r.type)
    BY <2>1 DEF Uart!IsData, Uart!IsTermination
  <2> QED BY <1>1, <2>2 DEF Uart!srec_data_read
<1>2. CASE r # Uart!NoCall /\ Handed(r)
  <2>1. Uart!Store(srec_mem, r) \in Memories
    BY <1>2, StoreIs, MAXIs DEF Handed
  <2> QED BY <1>2, <2>1 DEF Uart!srec_data_read
<1> QED BY <1>1, <1>2

\* The machine's part of the invariant.
Within(s, h, b) ==
  /\ s.state = "start" => s.length <= h
  /\ s.state \in Armed => s.length <= b
  /\ s.state \in InData /\ s.byte_count = 0 => s.length + 1 <= h

\* A character arrives: state by state, length and what the place says of it.
LEMMA MachineRead ==
  ASSUME Uart!SrecAssumption, MaxLost <= MAX, MachineInv, Uart!ReadChar
  PROVE  MachineInv'
<1> DEFINE s == srec
           c == Uart!Char
           r == Uart!srec_read_byte(s, c)
           h == Cardinality(Hit)
           b == Cardinality(HitBefore)
           n == Uart!Count(file[k])
<1>1. Places /\ Registers /\ Lengths
  BY DEF MachineInv
<1>2. /\ k <= Len(file) /\ srec' = r.s /\ Uart!srec_data_read(r.call) /\ Uart!Advance
      /\ UNCHANGED <<file, text, lost>>
  BY DEF Uart!ReadChar, Uart!Sending
<1>3. /\ k \in 1 .. Len(file) /\ n \in 3 .. MAX /\ LastPlace = 2 * n + 5 /\ j \in 1 .. LastPlace
      /\ file \in Files /\ file[k] \in Records
      /\ (j = 1 => c = Uart!S) /\ (j = 2 => c = file[k].type) /\ (j = LastPlace => c = Uart!Other)
      /\ (j # 1 /\ j # LastPlace => c \in 0 .. 15)
      /\ \A m \in 1 .. n + 1 : /\ Uart!Octets(file[k])[m] \in 0 .. 255
                               /\ j = 2 * m + 1 => c = Uart!Octets(file[k])[m] \div 16
                               /\ j = 2 * m + 2 => c = Uart!Octets(file[k])[m] % 16
  BY <1>1, <1>2, CharIs
<1>4. /\ s \in Machines /\ (s.byte_count > 0 => s.state \in InData)
      /\ srec_mem \in Memories /\ complaints \subseteq 1 .. Len(file)
  BY <1>1, RegistersAre
<1>5. /\ s.type \in 0 .. 15 /\ s.byte_count \in 0 .. MAX /\ s.length \in 0 .. MAX
      /\ s.state \in States /\ s.data \in Datas
  BY <1>4, WrittenOut
<1>6. /\ h \in Nat /\ b \in Nat /\ h <= MaxLost /\ h = b + (IF k \in Hit THEN 1 ELSE 0)
  BY <1>1, HitsAre
<1>7. Within(s, h, b) /\ (s.state \in Armed /\ j > 1 /\ k \notin Hit => Aligned)
  BY <1>1 DEF Lengths, Within
<1>8. /\ Places' /\ Hit' = Hit
      /\ \/ j < LastPlace /\ j' = j + 1 /\ k' = k /\ HitBefore' = HitBefore
         \/ j = LastPlace /\ j' = 1 /\ k' = k + 1 /\ HitBefore' = Hit
  <2>1. Places' /\ (k' = k + 1 => k' \notin Hit')
    BY <1>1, <1>2, PlacesOn
  <2>2. Hit' = Hit
    BY <1>2 DEF Hit
  <2>3. \/ j < LastPlace /\ j' = j + 1 /\ k' = k
        \/ j = LastPlace /\ j' = 1 /\ k' = k + 1
    BY <1>1, <1>2, AdvanceIs
  <2>4. HitBefore' = Hit \ {k'}
    BY <2>2 DEF HitBefore
  <2> QED BY <2>1, <2>2, <2>3, <2>4 DEF HitBefore
<1>9. MAX \in Nat /\ MaxLost \in Nat /\ 4 <= MAX /\ MAX <= 254
  BY MAXIs
<1>10. SUFFICES /\ Sound(r) /\ (r.s.byte_count > 0 => r.s.state \in InData)
                /\ Within(r.s, h, Cardinality(HitBefore)')
                /\ r.s.state \in Armed /\ j' > 1 /\ k \notin Hit /\ k' = k => Aligned'
  <2>1. Registers'
    <3>1. r.s \in Machines /\ (r.call = Uart!NoCall \/ (r.call # Uart!NoCall /\ Handed(r.call)))
      BY <1>10 DEF Sound
    <3>2. srec_mem' \in Memories /\ complaints' \subseteq 1 .. Len(file)
      BY <1>2, <1>3, <1>4, <3>1, DataRead
    <3>3. srec' \in Machines /\ (srec.byte_count > 0 => srec.state \in InData)'
      BY <1>2, <1>10, <3>1
    <3> HIDE DEF r
    <3> QED BY <3>2, <3>3, <1>2 DEF Registers, Machines, Memories, Datas, Uart!Addresses
  <2>2. Lengths'
    <3>1. Cardinality(Hit)' = h
      BY <1>8
    <3>2. j' > 1 => k' = k
      BY <1>8
    <3> HIDE DEF r, h
    <3> QED BY <1>2, <1>8, <1>10, <3>1, <3>2 DEF Lengths, Within
  <2> QED BY <2>1, <2>2, <1>8 DEF MachineInv
<1>11. CASE j = 1
  <2>1. c = Uart!S /\ j < LastPlace
    BY <1>3, <1>9, <1>11
  <2>2. k \notin Hit
    <3> SUFFICES ASSUME NEW p \in lost, p[1] = k PROVE FALSE
      BY DEF Hit
    <3>1. p[2] \in Nat \ {0} /\ (p[1] < k \/ (p[1] = k /\ p[2] < j))
      BY <1>1 DEF Places
    <3> QED BY <3>1, <1>3, <1>11
  <2>3. h = b
    BY <1>6, <2>2
  <2>4. /\ Sound(r) /\ r.s.state = "type" /\ r.s.byte_count = 0
        /\ r.s.length = (IF s.byte_count = 0 THEN s.length ELSE 0)
    BY <1>4, <2>1, SStep
  <2>5. j' = 2 /\ k' = k /\ HitBefore' = HitBefore
    BY <1>8, <1>3, <1>9, <1>11
  <2>6. r.s.length <= b
    <3>1. CASE s.byte_count # 0
      BY <3>1, <2>4, <1>6
    <3>2. CASE s.byte_count = 0
      <4>1. s.length <= b
        BY <3>2, <2>3, <1>5, <1>6, <1>7 DEF Within, States
      <4> QED BY <4>1, <3>2, <2>4
    <3> QED BY <3>1, <3>2
  <2>7. r.s.state \notin InData /\ r.s.state # "start" /\ r.s.state # "countHigh"
        /\ r.s.state # "countLow"
    BY <2>4 DEF InData
  <2>8. Aligned'
    <3> HIDE DEF r
    <3> QED BY <2>4, <2>5, <2>7, <1>2 DEF Aligned
  <2> HIDE DEF r, h, b
  <2> QED BY <2>4, <2>5, <2>6, <2>7, <2>8 DEF Within, b
<1>12. CASE j = LastPlace
  <2>1. Sound(r) /\ r.s = s
    BY <1>3, <1>4, <1>12, OtherStep
  <2>2. j' = 1 /\ HitBefore' = Hit
    BY <1>8, <1>3, <1>9, <1>12
  <2>3. Within(s, h, h)
    <3> HIDE DEF s
    <3>1. s.length \in Nat
      BY <1>5, <1>9
    <3> QED BY <3>1, <1>6, <1>7 DEF Within
  <2>4. ~(j' > 1)
    BY <2>2
  <2> HIDE DEF r
  <2> QED BY <2>1, <2>2, <2>3, <2>4, <1>4
<1>13. CASE j # 1 /\ j # LastPlace
  <2>1. c \in 0 .. 15 /\ j > 1 /\ j' = j + 1 /\ k' = k /\ HitBefore' = HitBefore
    BY <1>3, <1>8, <1>9, <1>13
  <2>2. Cardinality(HitBefore)' = b
    BY <2>1
  <2>3. /\ j = 3 => c = n \div 16
        /\ j = 4 => c = n % 16
    <3>1. 1 \in 1 .. n + 1 /\ 3 = 2 * 1 + 1 /\ 4 = 2 * 1 + 2
      BY <1>3, <1>9
    <3>2. Uart!Octets(file[k])[1] = n
      <4>1. n <= 254
        BY <1>3, <1>9
      <4> QED BY <4>1, <1>3, OctetsIs
    <3> QED BY <3>1, <3>2, <1>3
  <2> HIDE DEF c, s, b, h
  <2>4. CASE s.state = "start"
    <3>1. /\ Sound(r) /\ r.s.state = "start" /\ r.s.length = s.length
          /\ r.s.byte_count = s.byte_count
      BY <2>1, <2>4, <1>4, OutsideStep
    <3> HIDE DEF r
    <3>2. "start" \notin Armed /\ "start" \notin InData
      BY DEF Armed, InData
    <3> QED BY <3>1, <3>2, <2>2, <2>4, <1>4, <1>7 DEF Within
  <2>5. CASE s.state = "type"
    <3>1. /\ Sound(r) /\ r.s.state = "countHigh" /\ r.s.length = s.length
          /\ r.s.byte_count = s.byte_count
      BY <2>1, <2>5, <1>4, TypeStep
    <3> HIDE DEF r
    <3>2. "type" \in Armed /\ "type" \notin InData /\ "countHigh" \in Armed /\ "countHigh" \notin InData
      BY DEF Armed, InData
    <3>3. ~(s.byte_count > 0) /\ s.length <= b
      BY <3>2, <2>5, <1>4, <1>7 DEF Within
    <3>4. k \notin Hit => j = 2
      BY <3>2, <2>1, <2>5, <1>7 DEF Aligned, s
    <3>5. k \notin Hit => Aligned'
      <4> SUFFICES ASSUME k \notin Hit PROVE Aligned'
        OBVIOUS
      <4>1. j' = 3 /\ srec'.state = "countHigh"
        BY <3>1, <3>4, <2>1, <1>2 DEF r, s, c
      <4> QED BY <4>1 DEF Aligned
    <3> QED BY <3>1, <3>2, <3>3, <3>5, <2>2 DEF Within
  <2>6. CASE s.state = "countHigh"
    <3>1. /\ Sound(r) /\ r.s.state = "countLow" /\ r.s.length = s.length
          /\ r.s.byte_count = s.byte_count /\ r.s.data[s.length] = 16 * c
      BY <2>1, <2>6, <1>4, CountHighStep
    <3> HIDE DEF r
    <3>2. "countLow" \in Armed /\ "countLow" \notin InData /\ "countHigh" \in Armed /\ "countHigh" \notin InData
      BY DEF Armed, InData
    <3>3. ~(s.byte_count > 0) /\ s.length <= b
      BY <3>2, <2>6, <1>4, <1>7 DEF Within
    <3>4. k \notin Hit => j = 3
      BY <3>2, <2>1, <2>6, <1>7 DEF Aligned, s
    <3>5. k \notin Hit => Aligned'
      <4> SUFFICES ASSUME k \notin Hit PROVE Aligned'
        OBVIOUS
      <4>1. j' = 4 /\ srec' = r.s /\ file' = file /\ k' = k
        BY <3>4, <2>1, <1>2 DEF r, s, c
      <4>2. srec'.data[srec'.length] = 16 * (Uart!Count(file[k]) \div 16)
        BY <4>1, <3>1, <3>4, <2>3
      <4>3. srec'.state = "countLow" /\ Uart!Count(file[k])' = Uart!Count(file[k])
        BY <4>1, <3>1
      <4> QED BY <4>1, <4>2, <4>3 DEF Aligned
    <3> QED BY <3>1, <3>2, <3>3, <3>5, <2>2 DEF Within
  <2>7. CASE s.state = "countLow"
    <3> DEFINE y == OrLow(s.data[s.length], c)
    <3>1. /\ Sound(r) /\ y \in 0 .. 255
          /\ y > MAX => r.s.state = "start" /\ r.s.length = 0 /\ r.s.byte_count = 0
          /\ y <= MAX => r.s.state = "dataHigh" /\ r.s.length = s.length /\ r.s.byte_count = y
      BY <2>1, <2>7, <1>4, CountLowStep
    <3> HIDE DEF r, y
    <3>2. "countLow" \in Armed /\ "countLow" \notin InData /\ "dataHigh" \in InData
          /\ "dataHigh" \notin Armed /\ "start" \notin Armed /\ "start" \notin InData
      BY DEF Armed, InData
    <3>3. s.length <= b /\ s.length \in Nat
      BY <3>2, <2>7, <1>5, <1>7, <1>9 DEF Within
    <3>4. k \notin Hit => y = n
      <4> SUFFICES ASSUME k \notin Hit PROVE y = n
        OBVIOUS
      <4>1. j = 4 /\ s.data[s.length] = 16 * (n \div 16)
        BY <3>2, <2>1, <2>7, <1>7 DEF Aligned, s
      <4>2. c = n % 16
        BY <4>1, <2>3
      <4>3. n \div 16 \in 0 .. 15 /\ n % 16 \in 0 .. 15 /\ n = 16 * (n \div 16) + (n % 16)
        <5> HIDE DEF n
        <5> QED BY <1>3, <1>9
      <4>4. y = 16 * (n \div 16) + (n % 16)
        BY <4>1, <4>2, <4>3, OrExact DEF y
      <4> QED BY <4>3, <4>4
    <3>5. CASE y > MAX
      BY <3>1, <3>2, <3>5, <2>2, <1>6 DEF Within
    <3>6. CASE y <= MAX
      <4>1. y = 0 => s.length + 1 <= h
        <5> SUFFICES ASSUME y = 0 PROVE s.length + 1 <= h
          OBVIOUS
        <5>1. k \in Hit
          BY <3>4, <1>3
        <5> QED BY <5>1, <3>3, <1>6
      <4> QED BY <4>1, <3>1, <3>2, <3>6, <2>2 DEF Within
    <3> QED BY <3>1, <3>5, <3>6, <1>9
  <2>8. CASE s.state = "dataHigh"
    <3>1. /\ Sound(r) /\ r.s.state = "dataLow" /\ r.s.length = s.length
          /\ r.s.byte_count = s.byte_count
      BY <2>1, <2>8, <1>4, DataHighStep
    <3> HIDE DEF r
    <3>2. "dataLow" \in InData /\ "dataLow" \notin Armed /\ "dataHigh" \in InData /\ "dataLow" # "start"
      BY DEF Armed, InData
    <3> QED BY <3>1, <3>2, <2>2, <2>8, <1>7 DEF Within
  <2>9. CASE s.state = "dataLow"
    <3>2. "dataLow" \in InData /\ "dataHigh" \in InData /\ "dataHigh" \notin Armed
          /\ "start" \notin Armed /\ "start" \notin InData /\ "dataHigh" # "start"
      BY DEF Armed, InData
    <3>3. s.byte_count = 0 => s.length + 1 <= h
      BY <3>2, <2>9, <1>7 DEF Within
    <3>4. s.byte_count = 0 => s.length + 1 <= MAX
      BY <3>3, <1>5, <1>6, <1>9
    <3>1. /\ Sound(r)
          /\ s.length + 1 < s.byte_count =>
               r.s.state = "dataHigh" /\ r.s.byte_count = s.byte_count
          /\ ~(s.length + 1 < s.byte_count) /\ s.byte_count # 0 =>
               r.s.state = "start" /\ r.s.length = 0 /\ r.s.byte_count = 0
          /\ s.byte_count = 0 =>
               r.s.state = "start" /\ r.s.length = s.length + 1 /\ r.s.byte_count = 0
      BY <2>1, <2>9, <3>4, <1>4, DataLowStep
    <3> HIDE DEF r
    <3>5. CASE s.byte_count = 0
      BY <3>1, <3>2, <3>3, <3>5, <2>2 DEF Within
    <3>6. CASE s.length + 1 < s.byte_count
      <4>1. s.byte_count # 0
        BY <3>6, <1>5, <1>9
      <4> QED BY <4>1, <3>1, <3>2, <3>6, <2>2 DEF Within
    <3>7. CASE ~(s.length + 1 < s.byte_count) /\ s.byte_count # 0
      BY <3>1, <3>2, <3>7, <2>2, <1>6 DEF Within
    <3> QED BY <3>5, <3>6, <3>7
  <2> QED BY <2>4, <2>5, <2>6, <2>7, <2>8, <2>9, <1>5 DEF States, Armed, InData
<1> QED BY <1>11, <1>12, <1>13

\* A character gets lost: its line joins those that were hit, which makes up for
\* whatever the machine will take the next one for.
LEMMA MachineLose ==
  ASSUME Uart!SrecAssumption, MachineInv, Uart!Lose
  PROVE  MachineInv'
<1> DEFINE s == srec
           h == Cardinality(Hit)
           b == Cardinality(HitBefore)
<1>1. Places /\ Registers /\ Lengths
  BY DEF MachineInv
<1>2. /\ k <= Len(file) /\ Cardinality(lost) < MaxLost /\ lost' = lost \union {<<k, j>>}
      /\ Uart!Advance /\ UNCHANGED <<file, text, srec, complaints, srec_mem, target>>
  BY SameCount DEF Uart!Lose, Uart!Sending
<1>3. Places' /\ (k' = k + 1 => k' \notin Hit')
  BY <1>1, <1>2, PlacesOn
<1>4. Hit' = Hit \union {k}
  <2>1. Hit' = {p[1] : p \in lost'}
    BY DEF Hit
  <2>2. <<k, j>>[1] = k
    OBVIOUS
  <2>3. ASSUME NEW x PROVE x \in Hit' <=> \E p \in lost' : x = p[1]
    BY <2>1
  <2>4. ASSUME NEW x PROVE (\E p \in lost' : x = p[1]) <=> (\E p \in lost : x = p[1]) \/ x = k
    BY <1>2, <2>2
  <2> QED BY <2>3, <2>4 DEF Hit
<1>5. /\ h \in Nat /\ b \in Nat /\ h = b + (IF k \in Hit THEN 1 ELSE 0)
  BY <1>1, HitsAre
<1>6. Cardinality(Hit)' = b + 1
  <2>1. IsFiniteSet(Hit)
    BY <1>1 DEF Places
  <2>2. Cardinality(Hit)' = IF k \in Hit THEN h ELSE h + 1
    BY <1>4, <2>1, FS_AddElement
  <2> QED BY <2>2, <1>5
<1>7. \/ j' > 1 /\ k' = k
      \/ j' = 1 /\ k' = k + 1
  <2>1. \/ j < LastPlace /\ j' = j + 1 /\ k' = k
        \/ j = LastPlace /\ j' = 1 /\ k' = k + 1
    BY <1>1, <1>2, AdvanceIs
  <2>2. j \in Nat \ {0}
    BY <1>1 DEF Places
  <2> QED BY <2>1, <2>2
<1>8. Cardinality(HitBefore)' \in Nat /\ b <= Cardinality(HitBefore)'
  <2>1. Cardinality(HitBefore)' \in Nat
        /\ Cardinality(Hit)' = Cardinality(HitBefore)' + (IF k' \in Hit' THEN 1 ELSE 0)
    <3>1. IsFiniteSet(Hit')
      BY <1>3 DEF Places
    <3>2. HitBefore' = Hit' \ {k'}
      BY DEF HitBefore
    <3>3. /\ IsFiniteSet(HitBefore')
          /\ Cardinality(HitBefore') = IF k' \in Hit' THEN Cardinality(Hit') - 1 ELSE Cardinality(Hit')
      BY <3>1, <3>2, FS_RemoveElement
    <3>4. Cardinality(HitBefore') \in Nat /\ Cardinality(Hit') \in Nat
      BY <3>1, <3>3, FS_CardinalityType
    <3> QED BY <3>3, <3>4
  <2> QED BY <2>1, <1>5, <1>6
<1>9. s \in Machines /\ s.length \in Nat
  <2>1. s \in Machines
    BY <1>1, RegistersAre
  <2>2. s.length \in 0 .. MAX
    BY <2>1, WrittenOut
  <2> QED BY <2>1, <2>2, MAXIs
<1>10. Within(s, h, b)
  BY <1>1 DEF Lengths, Within
<1>11. Within(s, b + 1, Cardinality(HitBefore)')
  BY <1>5, <1>8, <1>9, <1>10 DEF Within
<1>12. Lengths'
  <2>1. j' > 1 => k' \in Hit'
    BY <1>4, <1>7
  <2>2. srec' = s
    BY <1>2
  <2> HIDE DEF s
  <2> QED BY <2>1, <2>2, <1>6, <1>11 DEF Lengths, Within
<1>13. Registers'
  BY <1>1, <1>2 DEF Registers, Uart!Addresses
<1> QED BY <1>3, <1>12, <1>13 DEF MachineInv

\* The machine starts so, keeps it, and is typed.
LEMMA MachineInit ==
  ASSUME Uart!SrecAssumption, file \in Files, NEW garbage \in {0, 255}, Uart!BeginRead(garbage)
  PROVE  MachineInv
<1>1. /\ srec = [state |-> "start", type |-> 0, byte_count |-> 0, length |-> 0,
                 data |-> [n \in 0 .. MAX |-> garbage]]
      /\ text = [n \in 1 .. Len(file) |-> Uart!Line(file[n])] /\ k = 1 /\ j = 1 /\ lost = {}
      /\ complaints = {} /\ srec_mem = [a \in Uart!Addresses |-> Uart!Old]
  BY DEF Uart!BeginRead
<1>2. Hit = {} /\ IsFiniteSet(Hit) /\ Cardinality(Hit) = 0 /\ IsFiniteSet(lost) /\ Cardinality(lost) = 0
  BY <1>1, FS_EmptySet DEF Hit
<1>3. Len(file) \in Nat /\ Len(file) >= 1 /\ file[1] \in Records /\ Uart!Count(file[1]) \in 3 .. MAX
  <2>1. Len(file) \in Nat /\ Len(file) >= 1
    BY FileIs
  <2>2. 1 \in 1 .. Len(file)
    BY <2>1
  <2> QED BY <2>1, <2>2, FileIs
<1>4. text[1] = Uart!Line(file[1]) /\ Len(text[1]) = 2 * Uart!Count(file[1]) + 5
  <2>1. 1 \in 1 .. Len(file)
    BY <1>3
  <2>2. Uart!Count(file[1]) <= 254
    BY <1>3, MAXIs
  <2> QED BY <2>1, <2>2, <1>1, <1>3, LineIs
<1>5. Places
  <2>1. 1 <= Len(text[1])
    BY <1>3, <1>4, MAXIs
  <2> QED BY <2>1, <1>1, <1>2, <1>3, MAXIs DEF Places
<1>6. Registers
  <2>1. [n \in 0 .. MAX |-> garbage] \in [0 .. MAX -> 0 .. 255]
    OBVIOUS
  <2>2. [a \in Uart!Addresses |-> Uart!Old] \in [Uart!Addresses -> 0 .. 255 \union {Uart!Old}]
    OBVIOUS
  <2>3. 0 \in 0 .. MAX /\ ~(0 > 0)
    BY MAXIs
  <2> QED BY <2>1, <2>2, <2>3, <1>1 DEF Registers
<1>7. Lengths
  BY <1>1, <1>2 DEF Lengths, Armed, InData
<1> QED BY <1>5, <1>6, <1>7 DEF MachineInv

LEMMA MachineStep ==
  ASSUME Uart!SrecAssumption, MaxLost <= MAX, MachineInv, [Uart!Next]_Uart!vars
  PROVE  MachineInv'
<1>1. CASE Uart!Next
  BY <1>1, MachineRead, MachineLose DEF Uart!Next
<1>2. CASE UNCHANGED Uart!vars
  BY <1>2 DEF Uart!vars, MachineInv, Places, Registers, Lengths, Hit, HitBefore, Aligned, Uart!Addresses
<1> QED BY <1>1, <1>2

LEMMA MachineTypes ==
  ASSUME Uart!SrecAssumption, MachineInv
  PROVE  Uart!TypeOK
BY MAXIs, SameCount DEF MachineInv, Places, Registers, Uart!TypeOK, Uart!Addresses, Armed, InData

-----------------------------------------------------------------------------
(* The file is loaded, or the host told.                                   *)

\* A character that arrives.
LEMMA ReadIs ==
  ASSUME Uart!SrecAssumption, MachineInv, Uart!ReadChar
  PROVE  LET n == Uart!Count(file[k])
             r == Uart!srec_read_byte(srec, Uart!Char)
         IN  /\ file \in Files /\ k \in 1 .. Len(file) /\ k \in Nat /\ file[k] \in Records
             /\ n \in 3 .. MAX /\ n <= 254 /\ LastPlace = 2 * n + 5 /\ j \in 1 .. LastPlace
             /\ srec \in Machines /\ srec.state \in States /\ srec.length \in 0 .. MAX
             /\ srec.byte_count \in 0 .. MAX
             /\ srec_mem \in Memories /\ complaints \subseteq 1 .. Len(file)
             /\ srec' = r.s /\ Uart!srec_data_read(r.call) /\ target = Uart!Nowhere
             /\ UNCHANGED <<file, text, lost>>
             /\ \/ j < LastPlace /\ j' = j + 1 /\ k' = k
                \/ j = LastPlace /\ j' = 1 /\ k' = k + 1
<1>1. Places /\ Registers
  BY DEF MachineInv
<1>2. /\ k <= Len(file) /\ srec' = Uart!srec_read_byte(srec, Uart!Char).s
      /\ Uart!srec_data_read(Uart!srec_read_byte(srec, Uart!Char).call) /\ Uart!Advance /\ target = Uart!Nowhere
      /\ UNCHANGED <<file, text, lost>>
  BY DEF Uart!ReadChar, Uart!Sending
<1>3. /\ k \in 1 .. Len(file) /\ file \in Files /\ file[k] \in Records
      /\ Uart!Count(file[k]) \in 3 .. MAX /\ LastPlace = 2 * Uart!Count(file[k]) + 5 /\ j \in 1 .. LastPlace
  BY <1>1, <1>2, CharIs
<1>4. srec \in Machines /\ srec_mem \in Memories /\ complaints \subseteq 1 .. Len(file)
  BY <1>1, RegistersAre
<1>5. srec.length \in 0 .. MAX /\ srec.byte_count \in 0 .. MAX /\ srec.state \in States
  BY <1>4, WrittenOut
<1>6. \/ j < LastPlace /\ j' = j + 1 /\ k' = k
      \/ j = LastPlace /\ j' = 1 /\ k' = k + 1
  BY <1>1, <1>2, AdvanceIs
<1>7. Uart!Count(file[k]) <= 254 /\ k \in Nat
  <2>1. Len(file) \in Nat
    BY <1>3, FileIs
  <2> QED BY <2>1, <1>3, MAXIs
<1> QED BY <1>2, <1>3, <1>4, <1>5, <1>6, <1>7

\* A character that hands nothing over.
LEMMA NothingHanded ==
  ASSUME Uart!SrecAssumption, MachineInv, Uart!ReadChar, Uart!srec_read_byte(srec, Uart!Char).call = Uart!NoCall
  PROVE  srec_mem' = srec_mem /\ target' = target /\ complaints' = complaints
<1>1. /\ k \in 1 .. Len(file) /\ srec_mem \in Memories /\ complaints \subseteq 1 .. Len(file)
      /\ Uart!srec_data_read(Uart!srec_read_byte(srec, Uart!Char).call)
  BY ReadIs
<1> QED BY <1>1, DataRead

\* Stored is about lines that have ended.
LEMMA StoredOn ==
  ASSUME Uart!SrecAssumption, file \in Files, k \in Nat, Stored, UNCHANGED <<file, srec_mem>>,
         \/ k' = k /\ j' # LastPlace
         \/ k' = k + 1 /\ j' = 1 /\ j = LastPlace
  PROVE  Stored'
<1> SUFFICES ASSUME NEW n \in Uart!DataRecords, n < k' \/ (n = k' /\ j' = LastPlace')
             PROVE  InPlace(n)
  BY DEF Stored, InPlace, Uart!DataRecords
<1>1. n \in 1 .. Len(file) /\ Len(file) \in Nat /\ Uart!Count(file[n]) \in 3 .. MAX
  BY FileIs DEF Uart!DataRecords
<1>2. n < k \/ (n = k /\ j = LastPlace)
  <2>1. CASE k' = k /\ j' # LastPlace
    <3>1. LastPlace' = LastPlace
      BY <2>1 DEF LastPlace
    <3> QED BY <2>1, <3>1
  <2>2. CASE k' = k + 1 /\ j' = 1 /\ j = LastPlace
    <3>1. ~(n = k' /\ j' = LastPlace')
      <4>1. LastPlace' = 2 * Uart!Count(file[k']) + 5
        BY DEF LastPlace
      <4> QED BY <4>1, <2>2, <1>1, MAXIs
    <3>2. n < k + 1
      BY <3>1, <2>2
    <3> QED BY <3>2, <2>2, <1>1
  <2> QED BY <2>1, <2>2
<1> QED BY <1>2 DEF Stored

\* The bytes of a record's line, behind its count, handed over.
LEMMA WholeRecord ==
  ASSUME Uart!SrecAssumption, NEW f \in Records, Uart!Count(f) <= MAX,
         f.address \div 256 < Uart!Weight[Uart!AddressByteCount(f.type)],
         NEW t \in Loose, t.type = f.type, t.length = Uart!Count(f), t.byte_count = Uart!Count(f),
         \A x \in 0 .. Uart!Count(f) - 1 : t.data[x] = Uart!Octets(f)[x + 2]
  PROVE  /\ ~Uart!Record(t).complaint /\ Uart!Record(t).type = f.type /\ Handed(Uart!Record(t))
         /\ Uart!Record(t) # Uart!NoCall
         /\ f.address <= SrecTop => Uart!Record(t).address = f.address
         /\ Len(Uart!Record(t).data) = Len(f.data) /\ Len(f.data) \in Nat
         /\ \A n \in 1 .. Len(f.data) : Uart!Record(t).data[n] = f.data[n]
<1> DEFINE b == Uart!AddressByteCount(f.type)
           L == Len(f.data)
           c == Uart!Count(f)
<1>1. /\ b \in 2 .. 4 /\ L \in Nat /\ c = b + L + 1 /\ c <= 254
      /\ \A n \in 1 .. b : Uart!Body(f)[n + 1] = (f.address \div Uart!Weight[b - n + 1]) % 256
      /\ \A n \in 1 .. L : Uart!Body(f)[b + n + 1] = f.data[n]
  <2>1. b \in 2 .. 4 /\ L \in Nat /\ c = b + L + 1
    <3>1. f.type \in 0 .. 15 /\ f.data \in Seq(0 .. 255)
      BY DEF Records
    <3>2. b \in 2 .. 4
      BY <3>1, AddressBytes
    <3>3. L \in Nat
      BY <3>1
    <3>4. c = b + L + 1
      BY DEF Uart!Count
    <3> QED BY <3>2, <3>3, <3>4
  <2>2. c <= 254
    <3> HIDE DEF b, L
    <3> QED BY <2>1, MAXIs
  <2> QED BY <2>2, BodyIs
<1>2. \A n \in 1 .. c : Uart!Octets(f)[n] = Uart!Body(f)[n]
  BY <1>1, OctetsIs
<1>3. f.address \in Nat /\ f.type \in 0 .. 9
  BY DEF Records
<1>4. MAX \in Nat /\ SrecTop \in Nat
  BY MAXIs
<1>5. /\ Handed(Uart!Record(t)) /\ Uart!Record(t) # Uart!NoCall /\ Uart!Record(t).type = f.type
      /\ Uart!Record(t).address = Uart!Address(Uart!First(t, b))
      /\ c > b => /\ Len(Uart!Record(t).data) = c - 1 - b
                  /\ \A n \in 1 .. Len(Uart!Record(t).data) : Uart!Record(t).data[n] = t.data[b + n - 1]
      /\ Uart!Record(t).complaint <=> c # c \/ (c + Uart!Sum(Uart!First(t, c)) + 1) % 256 # 0
  BY RecordIs
<1> DEFINE R == Uart!Record(t)
           p == Uart!First(t, b)
           q == Uart!First(t, c)
<1>6. /\ p \in Seq(0 .. 255) /\ Len(p) = b /\ \A x \in 1 .. b : p[x] = t.data[x - 1]
      /\ q \in Seq(0 .. 255) /\ Len(q) = c /\ \A x \in 1 .. c : q[x] = t.data[x - 1]
  <2>1. b \in 0 .. MAX + 1 /\ c \in 0 .. MAX + 1
    <3> HIDE DEF b, L, c
    <3> QED BY <1>1, <1>4 DEF c
  <2> HIDE DEF b, c
  <2> QED BY <2>1, FirstIs
<1>7. ~R.complaint
  <2>1. q \in Seq(Nat)
    BY <1>6, Bytes
  <2>2. ASSUME NEW n \in 1 .. c PROVE q[n] = Uart!Octets(f)[n + 1]
    <3>1. n - 1 \in 0 .. c - 1 /\ (n - 1) + 2 = n + 1
      <4> HIDE DEF c, b, L
      <4> QED BY <1>1
    <3>2. t.data[n - 1] = Uart!Octets(f)[(n - 1) + 2]
      BY <3>1
    <3> QED BY <3>1, <3>2, <1>6
  <2>3. (c + Uart!Sum(q) + 1) % 256 = 0
    BY <2>1, <2>2, <1>1, <1>6, CheckSum
  <2> QED BY <2>3, <1>5
<1>8. c > b /\ c - 1 - b = L
  <2> HIDE DEF c, b, L
  <2> QED BY <1>1
<1>9. Len(R.data) = L
  BY <1>5, <1>8
<1>10. ASSUME NEW n \in 1 .. L PROVE R.data[n] = f.data[n]
  <2>1. /\ b + n - 1 \in 0 .. c - 1 /\ (b + n - 1) + 2 = b + n + 1 /\ b + n + 1 \in 1 .. c
    <3> HIDE DEF c, b, L
    <3> QED BY <1>1
  <2>2. R.data[n] = t.data[b + n - 1]
    BY <1>5, <1>8, <1>9
  <2>3. t.data[b + n - 1] = Uart!Octets(f)[b + n + 1]
    BY <2>1
  <2> QED BY <2>1, <2>2, <2>3, <1>1, <1>2
<1>11. ASSUME f.address <= SrecTop PROVE R.address = f.address
  <2>1. p \in Seq(Nat)
    BY <1>6, Bytes
  <2>2. ASSUME NEW n \in 1 .. b PROVE p[n] = (f.address \div Uart!Weight[b - n + 1]) % 256
    <3>1. n - 1 \in 0 .. c - 1 /\ (n - 1) + 2 = n + 1 /\ n + 1 \in 1 .. c
      <4> HIDE DEF c, b, L
      <4> QED BY <1>1
    <3>2. p[n] = t.data[n - 1] /\ t.data[n - 1] = Uart!Octets(f)[n + 1]
      BY <3>1, <1>6
    <3> QED BY <3>1, <3>2, <1>1, <1>2
  <2>3. Uart!Address(p) = f.address
    <3> HIDE DEF p, b
    <3>1. f.address \div 256 < Uart!Weight[b]
      BY DEF b
    <3> QED BY <3>1, <2>1, <2>2, <1>1, <1>3, <1>4, <1>6, <1>11, AddressIs DEF p
  <2> QED BY <2>3, <1>5
<1> QED BY <1>1, <1>5, <1>7, <1>9, <1>10, <1>11

\* A record without data leaves memory as it is.
LEMMA StoreNothing ==
  ASSUME NEW m \in Memories, NEW r, r.address \in Nat, r.data \in Seq(0 .. 255), Len(r.data) = 0
  PROVE  Uart!Store(m, r) = m
BY StoreSteps

\* What reading a character must keep.
Fine  == /\ complaints' = complaints
         /\ (target' # Uart!Nowhere => Uart!Loaded')
         /\ (target' = Uart!Nowhere /\ k' <= Len(file)' => InStep' /\ Stored')

\* The first four characters: S, the type, and the two digits of the count.
LEMMA HeadRead ==
  ASSUME Uart!SrecAssumption, MachineInv, InStep, Stored, Uart!ReadChar, j <= 4
  PROVE  Fine
<1> DEFINE n == Uart!Count(file[k])
           r == Uart!srec_read_byte(srec, Uart!Char)
<1>1. /\ file \in Files /\ k \in Nat /\ file[k] \in Records /\ k \in 1 .. Len(file)
      /\ n \in 3 .. MAX /\ n <= 254 /\ LastPlace = 2 * n + 5 /\ j \in 1 .. LastPlace
      /\ srec \in Machines /\ srec' = r.s /\ target = Uart!Nowhere /\ UNCHANGED <<file, text, lost>>
      /\ \/ j < LastPlace /\ j' = j + 1 /\ k' = k
         \/ j = LastPlace /\ j' = 1 /\ k' = k + 1
  BY ReadIs
<1>2. MAX \in Nat /\ MAX <= 254 /\ 4 <= MAX
  BY MAXIs
<1> DEFINE c == Uart!Char
<1>3. /\ j = 1 => c = Uart!S
      /\ j = 2 => c = file[k].type /\ c \in 0 .. 15
      /\ j = 3 => c = n \div 16 /\ c \in 0 .. 15
      /\ j = 4 => c = n % 16 /\ c \in 0 .. 15
  <2>1. /\ (j = 1 => c = Uart!S) /\ (j = 2 => c = file[k].type)
        /\ (j # 1 /\ j # LastPlace => c \in 0 .. 15)
        /\ \A m \in 1 .. n + 1 : /\ j = 2 * m + 1 => c = Uart!Octets(file[k])[m] \div 16
                                 /\ j = 2 * m + 2 => c = Uart!Octets(file[k])[m] % 16
    BY CharIs DEF MachineInv, Uart!ReadChar, Uart!Sending
  <2>2. Uart!Octets(file[k])[1] = n
    BY <1>1, OctetsIs
  <2>3. 1 \in 1 .. n + 1 /\ 3 = 2 * 1 + 1 /\ 4 = 2 * 1 + 2
    BY <1>1
  <2>4. /\ j = 3 => c = Uart!Octets(file[k])[1] \div 16
        /\ j = 4 => c = Uart!Octets(file[k])[1] % 16
    BY <2>1, <2>3
  <2>5. j <= 4 /\ j # 1 => j # 1 /\ j # LastPlace
    BY <1>1
  <2> QED BY <2>1, <2>2, <2>4, <2>5
<1> HIDE DEF r, c, n
<1>4. j # LastPlace /\ j < LastPlace
  BY <1>1, <1>2
<1>5. /\ srec.byte_count = 0 /\ srec.length = 0
      /\ j = 1 => srec.state = "start"
      /\ j = 2 => srec.state = "type"
      /\ j = 3 => srec.state = "countHigh"
      /\ j = 4 => srec.state = "countLow" /\ srec.data[0] = 16 * (n \div 16)
      /\ j \in {3, 4} => srec.type = file[k].type
  BY DEF InStep, n
<1>6. j' = j + 1 /\ k' = k /\ file' = file /\ LastPlace' = LastPlace
  BY <1>1, <1>4 DEF LastPlace
<1>7. j \in {1, 2, 3, 4}
  BY <1>1, <1>2
<1>8. SUFFICES r.call = Uart!NoCall /\ InStep'
  <2>1. srec_mem' = srec_mem /\ target' = target /\ complaints' = complaints
    BY <1>8, NothingHanded DEF r
  <2>2. j' # LastPlace
    BY <1>1, <1>6
  <2>3. Stored'
    BY <2>1, <2>2, <1>1, <1>6, StoredOn
  <2> QED BY <2>1, <2>3, <1>1, <1>8 DEF Fine
<1>9. CASE j = 1
  <2>1. /\ r.s.state = "type" /\ r.s.byte_count = 0 /\ r.s.length = 0 /\ r.call = Uart!NoCall
    BY <1>1, <1>3, <1>5, <1>9, SStep DEF r, c
  <2>2. j' = 2 /\ j' # LastPlace'
    BY <1>1, <1>6, <1>9
  <2> QED BY <2>1, <2>2, <1>1 DEF InStep
<1>10. CASE j = 2
  <2>1. /\ r.s.state = "countHigh" /\ r.s.length = 0 /\ r.s.byte_count = 0
        /\ r.s.type = file[k].type /\ r.call = Uart!NoCall
    BY <1>1, <1>3, <1>5, <1>10, TypeStep DEF r, c
  <2>2. j' = 3 /\ j' # LastPlace'
    BY <1>1, <1>6, <1>10
  <2>3. srec'.type = file'[k'].type
    BY <2>1, <1>1, <1>6
  <2> QED BY <2>1, <2>2, <2>3, <1>1 DEF InStep
<1>11. CASE j = 3
  <2>1. /\ r.s.state = "countLow" /\ r.s.length = 0 /\ r.s.byte_count = 0
        /\ r.s.type = file[k].type /\ r.call = Uart!NoCall /\ r.s.data[0] = 16 * c
    <3>1. c \in 0 .. 15 /\ srec.state = "countHigh" /\ srec.length = 0 /\ srec.byte_count = 0
          /\ srec.type = file[k].type
      BY <1>3, <1>5, <1>11
    <3>2. /\ r.s.state = "countLow" /\ r.s.length = srec.length
          /\ r.s.byte_count = srec.byte_count /\ r.s.type = srec.type /\ r.call = Uart!NoCall
          /\ r.s.data[srec.length] = 16 * c
      BY <3>1, <1>1, CountHighStep DEF r, c
    <3> QED BY <3>1, <3>2
  <2>2. j' = 4 /\ j' # LastPlace'
    BY <1>1, <1>6, <1>11
  <2>3. srec'.type = file'[k'].type /\ srec'.data[0] = 16 * (Uart!Count(file'[k']) \div 16)
    BY <2>1, <1>1, <1>3, <1>6, <1>11 DEF n
  <2> QED BY <2>1, <2>2, <2>3, <1>1 DEF InStep
<1>12. CASE j = 4
  <2>1. c \in 0 .. 15 /\ c = n % 16 /\ srec.state = "countLow" /\ srec.length = 0
        /\ srec.data[srec.length] = 16 * (n \div 16) /\ srec.type = file[k].type
    BY <1>3, <1>5, <1>12
  <2> DEFINE y == OrLow(srec.data[srec.length], c)
  <2>2. y = n
    <3>1. n \div 16 \in 0 .. 15 /\ n % 16 \in 0 .. 15 /\ n = 16 * (n \div 16) + (n % 16)
      BY <1>1, <1>2
    <3> QED BY <3>1, <2>1, OrExact
  <2>3. y <= MAX => /\ r.s.state = "dataHigh" /\ r.s.length = srec.length /\ r.s.type = srec.type
                    /\ r.s.byte_count = y /\ r.call = Uart!NoCall
    BY <2>1, <1>1, CountLowStep DEF r, c
  <2> HIDE DEF y
  <2>4. /\ r.s.state = "dataHigh" /\ r.s.length = 0 /\ r.s.type = file[k].type
        /\ r.s.byte_count = n /\ r.call = Uart!NoCall
    BY <2>1, <2>2, <2>3, <1>1, <1>2
  <2>5. j' = 5 /\ j' # LastPlace'
    BY <1>1, <1>6, <1>12
  <2>6. srec'.type = file'[k'].type /\ srec'.byte_count = Uart!Count(file'[k'])
    BY <2>4, <1>1, <1>6 DEF n
  <2>7. Due' = 5 /\ Received'
    BY <2>4, <1>1 DEF Due, Received
  <2> QED BY <2>4, <2>5, <2>6, <2>7, <1>1 DEF InStep, InData
<1> QED BY <1>7, <1>9, <1>10, <1>11, <1>12

\* The end of the line.
LEMMA TailRead ==
  ASSUME Uart!SrecAssumption, MachineInv, InStep, Stored, Uart!ReadChar, j = LastPlace
  PROVE  Fine
<1> DEFINE r == Uart!srec_read_byte(srec, Uart!Char)
           n == Uart!Count(file[k])
<1>1. /\ file \in Files /\ k \in Nat /\ n \in 3 .. MAX /\ LastPlace = 2 * n + 5
      /\ srec \in Machines /\ srec' = r.s /\ target = Uart!Nowhere /\ UNCHANGED <<file, text, lost>>
      /\ j' = 1 /\ k' = k + 1
  BY ReadIs
<1>2. Uart!Char = Uart!Other
  BY CharIs DEF MachineInv, Uart!ReadChar, Uart!Sending
<1>3. r.s = srec /\ r.call = Uart!NoCall
  BY <1>1, <1>2, OtherStep
<1>4. srec_mem' = srec_mem /\ target' = target /\ complaints' = complaints
  BY <1>3, NothingHanded
<1>5. Stored'
  BY <1>1, <1>4, StoredOn
<1>6. srec.state = "start" /\ srec.byte_count = 0 /\ srec.length = 0
  BY DEF InStep
<1> HIDE DEF r
<1>7. InStep'
  BY <1>1, <1>3, <1>6 DEF InStep
<1> QED BY <1>1, <1>4, <1>5, <1>7 DEF Fine

\* The first digit of a byte.
LEMMA HighRead ==
  ASSUME Uart!SrecAssumption, MachineInv, InStep, Stored, Uart!ReadChar, j > 4, j # LastPlace,
         srec.state = "dataHigh"
  PROVE  Fine
<1> DEFINE n == Uart!Count(file[k])
           o == Uart!Octets(file[k])
           s == srec
           r == Uart!srec_read_byte(srec, Uart!Char)
           c == Uart!Char
<1>1. /\ file \in Files /\ k \in Nat /\ n \in 3 .. MAX /\ n <= 254 /\ LastPlace = 2 * n + 5
      /\ j \in 1 .. LastPlace /\ s.length \in 0 .. MAX
      /\ s \in Machines /\ srec' = r.s /\ target = Uart!Nowhere /\ UNCHANGED <<file, text, lost>>
      /\ \/ j < LastPlace /\ j' = j + 1 /\ k' = k
         \/ j = LastPlace /\ j' = 1 /\ k' = k + 1
  BY ReadIs
<1>2. MAX \in Nat
  BY MAXIs
<1>3. /\ (j # 1 /\ j # LastPlace => c \in 0 .. 15)
      /\ \A m \in 1 .. n + 1 : o[m] \in 0 .. 255 /\ (j = 2 * m + 1 => c = o[m] \div 16)
  BY CharIs DEF MachineInv, Uart!ReadChar, Uart!Sending
<1> HIDE DEF n, o, r, c
<1>4. j \in 5 .. LastPlace - 1 /\ j' = j + 1 /\ k' = k /\ file' = file /\ j \in Nat
  BY <1>1, <1>2
<1>5. /\ s.type = file[k].type /\ s.byte_count = n /\ j = 2 * s.length + 5
      /\ \A x \in 0 .. s.length - 1 : s.data[x] = o[x + 2]
  BY <1>4 DEF InStep, Due, Received, n, o
<1>6. s.length + 2 \in 1 .. n + 1 /\ j = 2 * (s.length + 2) + 1 /\ j' < LastPlace /\ j > 4
  <2> HIDE DEF s
  <2> QED BY <1>1, <1>2, <1>4, <1>5
<1>7. c \in 0 .. 15 /\ c = o[s.length + 2] \div 16
  BY <1>3, <1>4, <1>6
<1>8. /\ r.s.state = "dataLow" /\ r.s.length = s.length
      /\ r.s.byte_count = s.byte_count /\ r.s.type = s.type /\ r.call = Uart!NoCall
      /\ r.s.data[s.length] = 16 * c
      /\ \A x \in 0 .. MAX : x # s.length => r.s.data[x] = s.data[x]
  BY <1>1, <1>7, DataHighStep DEF r, c
<1>9. srec_mem' = srec_mem /\ target' = target /\ complaints' = complaints
  BY <1>8, NothingHanded DEF r
<1>10. Stored'
  <2>1. j' # LastPlace
    BY <1>6, <1>1
  <2> QED BY <2>1, <1>1, <1>4, <1>9, StoredOn
<1>11. Received'
  <2>1. ASSUME NEW x \in 0 .. s.length - 1 PROVE r.s.data[x] = o[x + 2]
    <3>1. x \in 0 .. MAX /\ x # s.length
      BY <1>1, <1>2
    <3> QED BY <3>1, <1>5, <1>8
  <2> QED BY <2>1, <1>1, <1>4, <1>8 DEF Received, o
<1>12. j' = Due'
  <2>1. Due' = 2 * s.length + 6
    BY <1>1, <1>8 DEF Due
  <2> QED BY <2>1, <1>1, <1>2, <1>4, <1>5
<1>13. InStep'
  <2>1. LastPlace' = LastPlace
    BY <1>4 DEF LastPlace
  <2>2. j' > 4 /\ j' # LastPlace' /\ j' \in Nat
    BY <2>1, <1>1, <1>4, <1>6
  <2>3. j' # 1 /\ j' # 2 /\ j' # 3 /\ j' # 4 /\ ~(j' <= 4) /\ j' \notin {3, 4}
    BY <2>2
  <2>4. srec'.state = "dataLow" /\ srec'.type = file'[k'].type /\ srec'.byte_count = Uart!Count(file'[k'])
        /\ srec'.length = s.length
        /\ srec'.data[srec'.length] = 16 * (Uart!Octets(file'[k'])[srec'.length + 2] \div 16)
    BY <1>1, <1>4, <1>5, <1>7, <1>8 DEF n, o
  <2> QED BY <2>2, <2>3, <2>4, <1>11, <1>12 DEF InStep, InData
<1> QED BY <1>1, <1>9, <1>10, <1>13 DEF Fine

\* The second digit, in the middle of a record or at its end.
LEMMA LowRead ==
  ASSUME Uart!SrecAssumption, MachineInv, InStep, Uart!ReadChar, j > 4, j # LastPlace,
         srec.state = "dataLow"
  PROVE  LET n == Uart!Count(file[k])
             o == Uart!Octets(file[k])
             d == LowOf(srec, Uart!Char)
         IN  /\ Uart!Char \in 0 .. 15 /\ k' = k /\ j' = j + 1 /\ j = 2 * srec.length + 6
             /\ srec.length + 1 <= n /\ srec.byte_count = n /\ srec.type = file[k].type
             /\ \A x \in 0 .. srec.length : d[x] = o[x + 2]
<1> DEFINE n == Uart!Count(file[k])
           o == Uart!Octets(file[k])
           s == srec
           c == Uart!Char
           d == LowOf(s, c)
<1>1. /\ n \in 3 .. MAX /\ LastPlace = 2 * n + 5 /\ j \in 1 .. LastPlace /\ s.length \in 0 .. MAX
      /\ s \in Machines
      /\ \/ j < LastPlace /\ j' = j + 1 /\ k' = k
         \/ j = LastPlace /\ j' = 1 /\ k' = k + 1
  BY ReadIs
<1>2. MAX \in Nat
  BY MAXIs
<1>3. /\ (j # 1 /\ j # LastPlace => c \in 0 .. 15)
      /\ \A m \in 1 .. n + 1 : o[m] \in 0 .. 255 /\ (j = 2 * m + 2 => c = o[m] % 16)
  BY CharIs DEF MachineInv, Uart!ReadChar, Uart!Sending
<1> HIDE DEF n, o, c
<1>4. j \in 5 .. LastPlace - 1 /\ j' = j + 1 /\ k' = k /\ j \in Nat
  BY <1>1, <1>2
<1>5. /\ s.type = file[k].type /\ s.byte_count = n /\ j = 2 * s.length + 6
      /\ \A x \in 0 .. s.length - 1 : s.data[x] = o[x + 2]
      /\ s.data[s.length] = 16 * (o[s.length + 2] \div 16)
  BY <1>4 DEF InStep, Due, Received, n, o
<1>6. s.length + 2 \in 1 .. n + 1 /\ j = 2 * (s.length + 2) + 2 /\ s.length + 1 <= n
  <2> HIDE DEF s
  <2> QED BY <1>1, <1>2, <1>4, <1>5
<1> DEFINE z == o[s.length + 2]
<1>7. c \in 0 .. 15 /\ c = z % 16 /\ z \in 0 .. 255
  BY <1>3, <1>4, <1>6
<1>8. OrLow(s.data[s.length], c) = z
  <2> HIDE DEF z
  <2>1. z \div 16 \in 0 .. 15 /\ z % 16 \in 0 .. 15 /\ z = 16 * (z \div 16) + (z % 16)
    BY <1>7
  <2>2. s.data[s.length] = 16 * (z \div 16)
    BY <1>5 DEF z
  <2> QED BY <2>1, <2>2, <1>7, OrExact
<1>9. d[s.length] = z /\ \A x \in 0 .. MAX : x # s.length => d[x] = s.data[x]
  BY <1>1, <1>7, <1>8, LowOfIs
<1> HIDE DEF d
<1>10. ASSUME NEW x \in 0 .. s.length PROVE d[x] = o[x + 2]
  <2>1. CASE x = s.length
    BY <2>1, <1>9 DEF z
  <2>2. CASE x # s.length
    <3>1. x \in 0 .. MAX /\ x \in 0 .. s.length - 1
      BY <2>2, <1>1, <1>2
    <3> QED BY <2>2, <3>1, <1>5, <1>9
  <2> QED BY <2>1, <2>2
<1> QED BY <1>4, <1>5, <1>6, <1>7, <1>10 DEF n, o, c, d

\* In the middle the next byte follows.
LEMMA MiddleRead ==
  ASSUME Uart!SrecAssumption, MachineInv, InStep, Stored, Uart!ReadChar, j > 4, j # LastPlace,
         srec.state = "dataLow", srec.length + 1 < srec.byte_count
  PROVE  Fine
<1> DEFINE n == Uart!Count(file[k])
           o == Uart!Octets(file[k])
           s == srec
           r == Uart!srec_read_byte(srec, Uart!Char)
           d == LowOf(srec, Uart!Char)
           l == s.length
<1>1. /\ file \in Files /\ k \in Nat /\ n \in 3 .. MAX /\ LastPlace = 2 * n + 5
      /\ j \in 1 .. LastPlace /\ s.length \in 0 .. MAX
      /\ s \in Machines /\ srec' = r.s /\ target = Uart!Nowhere /\ UNCHANGED <<file, text, lost>>
  BY ReadIs
<1>2. MAX \in Nat
  BY MAXIs
<1>3. /\ Uart!Char \in 0 .. 15 /\ k' = k /\ j' = j + 1 /\ j = 2 * l + 6
      /\ l + 1 <= n /\ s.byte_count = n /\ s.type = file[k].type
      /\ \A x \in 0 .. l : d[x] = o[x + 2]
  BY LowRead
<1>4. s.byte_count = 0 => s.length + 1 <= MAX
  BY <1>1, <1>2, <1>3
<1>5. /\ r.s.state = "dataHigh" /\ r.s.length = l + 1 /\ r.call = Uart!NoCall
      /\ r.s.byte_count = s.byte_count /\ r.s.type = s.type /\ r.s.data = d
  BY <1>1, <1>3, <1>4, DataLowStep
<1>6. srec_mem' = srec_mem /\ target' = target /\ complaints' = complaints
  BY <1>5, NothingHanded
<1> HIDE DEF n, o, r, d
<1>7. l \in Nat /\ l + 1 < n /\ j' = 2 * l + 7 /\ j' < LastPlace
  <2>1. l + 1 < n
    BY <1>3
  <2> HIDE DEF l
  <2> QED BY <2>1, <1>1, <1>2, <1>3 DEF l
<1>8. Stored'
  <2>1. j' # LastPlace
    BY <1>7, <1>1
  <2> QED BY <2>1, <1>1, <1>3, <1>6, StoredOn
<1> HIDE DEF l, s
<1>9. Received'
  <2>1. \A x \in 0 .. (l + 1) - 1 : d[x] = o[x + 2]
    BY <1>3, <1>7
  <2> QED BY <2>1, <1>1, <1>3, <1>5 DEF Received, o
<1>10. j' = Due'
  <2>1. Due' = 2 * (l + 1) + 5
    BY <1>1, <1>5 DEF Due
  <2> QED BY <2>1, <1>7
<1>11. InStep'
  <2>1. LastPlace' = LastPlace /\ LastPlace \in Nat
    BY <1>1, <1>2, <1>3 DEF LastPlace
  <2>2. j' > 4 /\ j' # LastPlace' /\ j' \in Nat
    BY <2>1, <1>7
  <2>3. j' # 1 /\ j' # 2 /\ j' # 3 /\ j' # 4 /\ ~(j' <= 4) /\ j' \notin {3, 4}
    BY <2>2
  <2>4. srec'.state = "dataHigh" /\ srec'.type = file'[k'].type
        /\ srec'.byte_count = Uart!Count(file'[k'])
    BY <1>1, <1>3, <1>5 DEF n
  <2> QED BY <2>2, <2>3, <2>4, <1>9, <1>10 DEF InStep, InData
<1> QED BY <1>1, <1>6, <1>8, <1>11 DEF Fine

\* The last byte of the line: the record is stored, or the core sent to the entry.
LEMMA LastRead ==
  ASSUME Uart!SrecAssumption, MachineInv, InStep, Stored, Uart!ReadChar, j > 4, j # LastPlace,
         srec.state = "dataLow", ~(srec.length + 1 < srec.byte_count)
  PROVE  Fine
<1> DEFINE n == Uart!Count(file[k])
           f == file[k]
           s == srec
           r == Uart!srec_read_byte(srec, Uart!Char)
           t == Longer(srec, Uart!Char)
           R == Uart!Record(t)
           d == LowOf(srec, Uart!Char)
<1>1. /\ file \in Files /\ k \in 1 .. Len(file) /\ k \in Nat /\ f \in Records
      /\ n \in 3 .. MAX /\ LastPlace = 2 * n + 5
      /\ j \in 1 .. LastPlace /\ s.length \in 0 .. MAX /\ srec_mem \in Memories
      /\ s \in Machines /\ srec' = r.s /\ Uart!srec_data_read(r.call)
      /\ target = Uart!Nowhere /\ UNCHANGED <<file, text, lost>>
  BY ReadIs
<1>2. MAX \in Nat /\ SrecTop \in Nat
  BY MAXIs
<1>3. /\ Uart!Char \in 0 .. 15 /\ k' = k /\ j' = j + 1 /\ j = 2 * s.length + 6
      /\ s.length + 1 <= n /\ s.byte_count = n /\ s.type = f.type
      /\ \A x \in 0 .. s.length : d[x] = Uart!Octets(f)[x + 2]
  BY LowRead
<1>4. s.length + 1 = n /\ s.length = n - 1 /\ s.byte_count # 0
  <2> DEFINE l == s.length
  <2>1. ~(l + 1 < n) /\ l + 1 <= n /\ l \in 0 .. MAX /\ n \in 3 .. MAX /\ s.byte_count = n
    BY <1>1, <1>3
  <2>2. l + 1 = n /\ l = n - 1 /\ n # 0
    <3> HIDE DEF n, l
    <3> QED BY <2>1, <1>2
  <2> QED BY <2>1, <2>2
<1>5. /\ r.s.state = "start" /\ r.s.length = 0 /\ r.s.byte_count = 0 /\ r.call = R /\ t \in Loose
  BY <1>1, <1>3, <1>4, DataLowStep
<1>6. /\ t.type = f.type /\ t.length = n /\ t.byte_count = n
      /\ \A x \in 0 .. n - 1 : t.data[x] = Uart!Octets(f)[x + 2]
  <2>1. t.type = s.type /\ t.length = s.length + 1 /\ t.byte_count = s.byte_count /\ t.data = d
    BY Fields DEF Longer
  <2> QED BY <2>1, <1>3, <1>4
<1>7. /\ f.address \div 256 < Uart!Weight[Uart!AddressByteCount(f.type)] /\ n <= MAX
      /\ (Uart!IsData(f.type) => f.address + Len(f.data) <= SrecTop + 1)
      /\ (Uart!IsTermination(f.type) => f.address <= SrecTop)
      /\ (Uart!IsTermination(f.type) <=> k = Len(file))
      /\ \A m \in 1 .. Len(file) : m < k /\ Uart!IsData(file[m].type) /\ Uart!IsData(f.type) =>
           file[m].address + Len(file[m].data) <= f.address
  BY <1>1, FileIs
<1> HIDE DEF t, r, d
<1>8. /\ ~R.complaint /\ R.type = f.type /\ Handed(R) /\ R # Uart!NoCall
      /\ f.address <= SrecTop => R.address = f.address
      /\ Len(R.data) = Len(f.data) /\ Len(f.data) \in Nat
      /\ \A m \in 1 .. Len(f.data) : R.data[m] = f.data[m]
  BY <1>1, <1>5, <1>6, <1>7, WholeRecord
<1> HIDE DEF R
<1>9. /\ complaints' = complaints
      /\ srec_mem' = IF Uart!IsData(f.type) THEN Uart!Store(srec_mem, R) ELSE srec_mem
      /\ target' = IF Uart!IsTermination(f.type) THEN R.address ELSE target
  BY <1>1, <1>5, <1>8 DEF Uart!srec_data_read
<1>10. f.address \in Nat /\ R.address \in Nat /\ R.data \in Seq(0 .. 255)
  BY <1>1, <1>8 DEF Records, Handed
<1>11. j' = LastPlace /\ LastPlace \in Nat /\ LastPlace > 5
  <2> DEFINE l == s.length
  <2>1. j' = 2 * l + 6 + 1 /\ l = n - 1 /\ n \in 3 .. MAX /\ LastPlace = 2 * n + 5
    BY <1>1, <1>3, <1>4
  <2> HIDE DEF n, l
  <2> QED BY <2>1, <1>2
\* What was stored stays, and the record is added to it.
<1>12. ASSUME NEW m \in Uart!DataRecords, m <= k PROVE InPlace(m)'
  <2>1. m \in 1 .. Len(file) /\ Uart!IsData(file[m].type) /\ Len(file) \in Nat
    BY <1>1, FileIs DEF Uart!DataRecords
  <2>2. SUFFICES ASSUME NEW x \in 1 .. Len(file[m].data)
                 PROVE  srec_mem'[file[m].address + x - 1] = file[m].data[x]
    BY <1>1 DEF InPlace
  <2>3. /\ file[m].address \in Nat /\ Len(file[m].data) \in Nat
        /\ file[m].address + Len(file[m].data) <= SrecTop + 1
    <3>1. file[m] \in Records /\ file[m].address + Len(file[m].data) <= SrecTop + 1
      BY <1>1, <2>1, FileIs
    <3>2. file[m].address \in Nat /\ file[m].data \in Seq(0 .. 255)
      BY <3>1 DEF Records
    <3> QED BY <3>1, <3>2
  <2> DEFINE a == file[m].address + x - 1
  <2>4. a \in Uart!Addresses /\ a < file[m].address + Len(file[m].data)
    BY <2>3, <1>2 DEF Uart!Addresses
  <2>5. CASE m < k
    <3>1. InPlace(m)
      BY <2>5 DEF Stored
    <3>2. srec_mem[a] = file[m].data[x]
      BY <3>1 DEF InPlace
    <3>3. CASE ~Uart!IsData(f.type)
      BY <3>2, <3>3, <1>9
    <3>4. CASE Uart!IsData(f.type)
      <4>1. file[m].address + Len(file[m].data) <= f.address
        BY <2>1, <2>5, <3>4, <1>7
      <4>2. CASE f.address <= SrecTop
        <5>1. a < R.address
          <6>1. a < f.address
            <7>1. a \in Int
              BY <2>4, <1>2 DEF Uart!Addresses
            <7> HIDE DEF a, f
            <7> QED BY <7>1, <4>1, <2>3, <2>4, <1>10
          <6> QED BY <6>1, <4>2, <1>8
        <5>2. Uart!Store(srec_mem, R)[a] = srec_mem[a]
          BY <5>1, <2>4, <1>1, <1>2, <1>10, StoreIs
        <5> QED BY <5>2, <3>2, <3>4, <1>9
      <4>3. CASE ~(f.address <= SrecTop)
        <5>1. Len(R.data) = 0
          <6>1. f.address + Len(f.data) <= SrecTop + 1
            BY <3>4, <1>7
          <6> HIDE DEF f
          <6> QED BY <6>1, <4>3, <1>2, <1>8, <1>10
        <5>2. Uart!Store(srec_mem, R) = srec_mem
          BY <5>1, <1>1, <1>10, StoreNothing
        <5> QED BY <5>2, <3>2, <3>4, <1>9
      <4> QED BY <4>2, <4>3
    <3> QED BY <3>3, <3>4
  <2>6. CASE m = k
    <3>1. f.address <= SrecTop /\ R.address = f.address
      <4>1. f.address <= SrecTop
        <5>1. x <= Len(f.data) /\ 1 <= x /\ x \in Int /\ f.address + Len(f.data) <= SrecTop + 1
          BY <2>3, <2>6
        <5> HIDE DEF f
        <5> QED BY <5>1, <1>2, <1>8, <1>10
      <4> QED BY <4>1, <1>8
    <3>2. x \in 1 .. Len(R.data) /\ R.address + x - 1 = a /\ R.data[x] = f.data[x]
      BY <2>6, <3>1, <1>8
    <3>3. Uart!Store(srec_mem, R)[R.address + x - 1] = R.data[x]
      BY <3>2, <2>4, <1>1, <1>2, <1>10, StoreIs
    <3> QED BY <3>2, <3>3, <2>1, <2>6, <1>9
  <2>7. m < k \/ m = k
    BY <2>1, <1>1, <1>12
  <2> QED BY <2>5, <2>6, <2>7
<1>13. CASE Uart!IsTermination(f.type)
  <2>1. target' = f.address /\ k = Len(file)
    BY <1>7, <1>8, <1>9, <1>13
  <2>2. target' # Uart!Nowhere
    BY <2>1, <1>10 DEF Uart!Nowhere
  <2>3. Uart!Loaded'
    <3>1. \A m \in Uart!DataRecords : m <= k
      <4>1. Len(file) \in Nat
        BY <1>1, FileIs
      <4> QED BY <4>1, <2>1 DEF Uart!DataRecords
    <3>2. Uart!DataRecords' = Uart!DataRecords
      BY <1>1 DEF Uart!DataRecords
    <3> QED BY <3>1, <3>2, <2>1, <1>1, <1>12 DEF Uart!Loaded, InPlace
  <2> QED BY <2>2, <2>3, <1>9 DEF Fine
<1>14. CASE ~Uart!IsTermination(f.type)
  <2>1. target' = Uart!Nowhere
    BY <1>1, <1>9, <1>14
  <2>2. LastPlace' = LastPlace
    BY <1>1, <1>3 DEF LastPlace
  <2>3. InStep'
    <3>1. j' > 5 /\ j' \in Nat /\ j' = LastPlace'
      BY <2>2, <1>11
    <3>2. j' # 1 /\ j' # 2 /\ j' # 3 /\ j' # 4 /\ j' \notin {3, 4}
      BY <3>1
    <3>3. j' \notin 5 .. LastPlace' - 1
      <4>1. \A x \in Nat : x \notin 5 .. x - 1
        OBVIOUS
      <4> QED BY <4>1, <3>1
    <3> QED BY <3>1, <3>2, <3>3, <1>1, <1>5 DEF InStep
  <2>4. Stored'
    <3>1. ASSUME NEW m \in Uart!DataRecords', m < k' \/ (m = k' /\ j' = LastPlace') PROVE InPlace(m)'
      <4>1. m \in Uart!DataRecords
        BY <1>1 DEF Uart!DataRecords
      <4>2. m \in Nat
        <5>1. m \in 1 .. Len(file)
          BY <4>1 DEF Uart!DataRecords
        <5> QED BY <5>1
      <4>3. m <= k
        BY <3>1, <4>2, <1>1, <1>3
      <4> QED BY <4>1, <4>3, <1>12
    <3> QED BY <3>1 DEF Stored
  <2> QED BY <2>1, <2>3, <2>4, <1>9 DEF Fine
<1> QED BY <1>13, <1>14

\* Every place of a line taken together.
LEMMA InStepRead ==
  ASSUME Uart!SrecAssumption, MachineInv, InStep, Stored, Uart!ReadChar
  PROVE  Fine
<1>1. j \in 1 .. LastPlace /\ LastPlace \in Nat /\ srec.state \in States
  <2>1. /\ Uart!Count(file[k]) \in 3 .. MAX /\ LastPlace = 2 * Uart!Count(file[k]) + 5 /\ j \in 1 .. LastPlace
        /\ srec.state \in States
    BY ReadIs
  <2> QED BY <2>1, MAXIs
<1>2. CASE j <= 4
  BY <1>2, HeadRead
<1>3. CASE j = LastPlace
  BY <1>3, TailRead
<1>4. CASE j > 4 /\ j # LastPlace
  <2>1. srec.state \in InData
    <3>1. j \in 5 .. LastPlace - 1
      BY <1>1, <1>4
    <3> QED BY <3>1 DEF InStep
  <2>2. srec.state = "dataHigh" \/ srec.state = "dataLow"
    BY <2>1 DEF InData
  <2> QED BY <2>2, <1>4, HighRead, MiddleRead, LastRead
<1> QED BY <1>1, <1>2, <1>3, <1>4

\* Behind: the next S finds the record short, and the host is told.
LEMMA BehindRead ==
  ASSUME Uart!SrecAssumption, MachineInv, Behind, Uart!ReadChar
  PROVE  complaints' # {} \/ (Behind' /\ complaints' = complaints /\ target' = target)
<1> DEFINE n == Uart!Count(file[k])
           r == Uart!srec_read_byte(srec, Uart!Char)
           l == srec.length
<1>1. /\ k \in 1 .. Len(file) /\ n \in 3 .. MAX /\ LastPlace = 2 * n + 5 /\ j \in 1 .. LastPlace
      /\ l \in 0 .. MAX /\ srec.byte_count \in 0 .. MAX
      /\ srec \in Machines /\ srec' = r.s /\ Uart!srec_data_read(r.call) /\ UNCHANGED <<file, text, lost>>
      /\ \/ j < LastPlace /\ j' = j + 1 /\ k' = k
         \/ j = LastPlace /\ j' = 1 /\ k' = k + 1
  BY ReadIs
<1>2. MAX \in Nat
  BY MAXIs
<1>3. /\ j = 1 => Uart!Char = Uart!S
      /\ j = LastPlace => Uart!Char = Uart!Other
      /\ j # 1 /\ j # LastPlace => Uart!Char \in 0 .. 15
  BY CharIs DEF MachineInv, Uart!ReadChar, Uart!Sending
<1>4. /\ srec.state = "dataHigh" \/ srec.state = "dataLow"
      /\ \/ j = 1 /\ l < srec.byte_count
         \/ j > 5 /\ srec.byte_count = n /\ Due < j
  BY DEF Behind, InData
<1>5. r.call = Uart!NoCall => srec_mem' = srec_mem /\ target' = target /\ complaints' = complaints
  BY NothingHanded
<1>6. /\ srec.state = "dataHigh" => Due = 2 * l + 5
      /\ srec.state = "dataLow" => Due = 2 * l + 6
  BY DEF Due
<1> HIDE DEF n, r, l
<1>7. CASE j = 1
  <2>1. l < srec.byte_count
    BY <1>4, <1>7
  <2>2. srec.byte_count # 0 /\ l # srec.byte_count
    BY <2>1, <1>1, <1>2
  <2>3. r.call = Uart!Record(srec)
    BY <2>2, <1>1, <1>3, <1>7, SStep DEF r
  <2>4. srec \in Loose
    BY <1>1, MachinesLoose
  <2>5. Uart!Record(srec) # Uart!NoCall /\ Uart!Record(srec).complaint
    BY <2>2, <2>4, RecordIs DEF l
  <2>6. complaints' = complaints \union {k}
    BY <2>3, <2>5, <1>1 DEF Uart!srec_data_read
  <2> QED BY <2>6
<1>8. CASE j # 1 /\ j = LastPlace
  <2>1. r.s = srec /\ r.call = Uart!NoCall
    BY <1>1, <1>3, <1>8, OtherStep DEF r
  <2>2. j' = 1
    BY <1>1, <1>8
  <2>3. l < srec.byte_count
    <3>1. srec.byte_count = n /\ (2 * l + 5 < 2 * n + 5 \/ 2 * l + 6 < 2 * n + 5)
      BY <1>1, <1>4, <1>6, <1>8
    <3>2. l < n
      BY <3>1, <1>1, <1>2
    <3> QED BY <3>1, <3>2
  <2>4. Behind'
    BY <2>1, <2>2, <2>3, <1>1, <1>4 DEF Behind, InData, l
  <2> QED BY <2>1, <2>4, <1>5
<1>9. CASE j # 1 /\ j # LastPlace
  <2>1. /\ Uart!Char \in 0 .. 15 /\ j' = j + 1 /\ k' = k /\ j > 5 /\ srec.byte_count = n /\ Due < j
        /\ j \in Nat /\ j <= 2 * n + 4
    BY <1>1, <1>2, <1>3, <1>4, <1>9
  <2>2. Uart!Count(file[k])' = n
    BY <2>1, <1>1 DEF n
  <2>3. j' > 5
    BY <2>1
  <2>4. CASE srec.state = "dataHigh"
    <3>1. /\ r.s.state = "dataLow" /\ r.s.length = l /\ r.s.byte_count = n /\ r.call = Uart!NoCall
      BY <2>1, <2>4, <1>1, DataHighStep DEF r, l
    <3>2. Due' = 2 * l + 6
      BY <3>1, <1>1 DEF Due
    <3>3. Due' < j'
      BY <3>2, <2>1, <2>4, <1>1, <1>2, <1>6
    <3>4. Behind'
      BY <3>1, <3>3, <2>2, <2>3, <1>1 DEF Behind, InData
    <3> QED BY <3>1, <3>4, <1>5
  <2>5. CASE srec.state = "dataLow"
    <3>1. l + 1 < n
      BY <2>1, <2>5, <1>1, <1>2, <1>6
    <3>2. srec.byte_count # 0 /\ srec.length + 1 < srec.byte_count
      BY <3>1, <2>1, <1>1 DEF l
    <3>3. /\ r.s.state = "dataHigh" /\ r.s.length = l + 1 /\ r.s.byte_count = n /\ r.call = Uart!NoCall
      BY <3>2, <2>1, <2>5, <1>1, DataLowStep DEF r, l
    <3>4. Due' = 2 * (l + 1) + 5
      BY <3>3, <1>1 DEF Due
    <3>5. Due' < j'
      BY <3>4, <2>1, <2>5, <1>1, <1>2, <1>6
    <3>6. Behind'
      BY <3>3, <3>5, <2>2, <2>3, <1>1 DEF Behind, InData
    <3> QED BY <3>3, <3>6, <1>5
  <2> QED BY <2>4, <2>5, <1>4
<1> QED BY <1>7, <1>8, <1>9

\* A digit behind the count is lost.
LEMMA DigitLost ==
  ASSUME Uart!SrecAssumption, MachineInv, Uart!Lose, j > 4,
         (InStep /\ Stored) \/ Behind
  PROVE  (InStep' /\ Stored') \/ Behind'
<1> DEFINE n == Uart!Count(file[k])
           l == srec.length
<1>1. /\ file \in Files /\ k \in 1 .. Len(file) /\ k \in Nat
      /\ n \in 3 .. MAX /\ LastPlace = 2 * n + 5 /\ j \in 1 .. LastPlace
      /\ l \in 0 .. MAX /\ UNCHANGED <<file, text, srec, complaints, srec_mem, target>>
      /\ \/ j < LastPlace /\ j' = j + 1 /\ k' = k
         \/ j = LastPlace /\ j' = 1 /\ k' = k + 1
  <2>1. Places /\ Registers /\ k <= Len(file) /\ Uart!Advance
        /\ UNCHANGED <<file, text, srec, complaints, srec_mem, target>>
    BY DEF MachineInv, Uart!Lose, Uart!Sending
  <2>2. /\ file \in Files /\ k \in 1 .. Len(file)
        /\ n \in 3 .. MAX /\ LastPlace = 2 * n + 5 /\ j \in 1 .. LastPlace
    BY <2>1, CharIs
  <2>3. l \in 0 .. MAX
    BY <2>1, RegistersAre, WrittenOut
  <2>4. k \in Nat
    <3>1. Len(file) \in Nat
      BY <2>2, FileIs
    <3> QED BY <3>1, <2>2
  <2> QED BY <2>1, <2>2, <2>3, <2>4, AdvanceIs
<1>2. MAX \in Nat
  BY MAXIs
<1>3. /\ srec.state = "dataHigh" => Due = 2 * l + 5
      /\ srec.state = "dataLow" => Due = 2 * l + 6
  BY DEF Due
<1> HIDE DEF n, l
<1>4. j > 4 /\ j \in Nat
  BY <1>1, <1>2
<1>5. CASE InStep /\ Stored /\ j = LastPlace
  <2>1. Stored'
    BY <1>1, <1>5, StoredOn
  <2>2. srec.state = "start" /\ srec.byte_count = 0 /\ srec.length = 0
    BY <1>5 DEF InStep
  <2>3. j' = 1
    BY <1>1, <1>5
  <2>4. InStep'
    BY <2>2, <2>3, <1>1 DEF InStep
  <2> QED BY <2>1, <2>4
<1>6. CASE InStep /\ j # LastPlace
  <2>1. j \in 5 .. LastPlace - 1 /\ j' = j + 1 /\ k' = k
    BY <1>1, <1>2, <1>4, <1>6
  <2>2. srec.state \in InData /\ srec.byte_count = n /\ j = Due
    BY <2>1, <1>6 DEF InStep, n
  <2>3. Due' = Due /\ Uart!Count(file[k])' = n
    BY <2>1, <1>1 DEF Due, n
  <2>4. j' > 5 /\ Due' < j'
    BY <2>1, <2>2, <2>3, <1>4
  <2> QED BY <2>2, <2>3, <2>4, <1>1 DEF Behind
<1>7. CASE Behind
  <2>1. /\ srec.state = "dataHigh" \/ srec.state = "dataLow"
        /\ j > 5 /\ srec.byte_count = n /\ Due < j
    BY <1>4, <1>7 DEF Behind, InData, n
  <2>2. CASE j < LastPlace
    <3>1. j' = j + 1 /\ k' = k
      BY <2>2, <1>1, <1>2
    <3>2. Due' = Due /\ Uart!Count(file[k])' = n
      BY <3>1, <1>1 DEF Due, n
    <3>3. j' > 5 /\ Due' < j'
      BY <3>1, <3>2, <2>1, <1>1, <1>2, <1>3, <1>4
    <3> QED BY <3>2, <3>3, <2>1, <1>1 DEF Behind, InData
  <2>3. CASE j = LastPlace
    <3>1. j' = 1
      BY <2>3, <1>1, <1>2
    <3>2. 2 * l + 5 < 2 * n + 5 \/ 2 * l + 6 < 2 * n + 5
      BY <2>1, <2>3, <1>1, <1>3
    <3>3. l < n
      BY <3>2, <1>1, <1>2
    <3> QED BY <3>1, <3>3, <2>1, <1>1 DEF Behind, InData, l
  <2> QED BY <2>2, <2>3, <1>1
<1> QED BY <1>5, <1>6, <1>7

\* Both taken together: the invariant is kept,
LEMMA DamageRead ==
  ASSUME Uart!SrecAssumption, MachineInv, DamageInv, Uart!ReadChar
  PROVE  DamageInv'
<1>1. /\ k <= Len(file) /\ target = Uart!Nowhere /\ UNCHANGED <<file, text, lost>>
      /\ Uart!srec_data_read(Uart!srec_read_byte(srec, Uart!Char).call)
  BY DEF Uart!ReadChar, Uart!Sending
<1>2. complaints \subseteq complaints'
  <2>1. complaints' = complaints \/ complaints' = complaints \union {k}
    BY <1>1 DEF Uart!srec_data_read
  <2> QED BY <2>1
<1>3. HeadsWhole' = HeadsWhole
  BY <1>1 DEF HeadsWhole
<1>4. HeadsWhole /\ complaints = {} => (InStep /\ Stored) \/ (Behind /\ lost # {})
  BY <1>1 DEF DamageInv
<1>5. lost = {} => HeadsWhole /\ complaints = {}
  BY DEF DamageInv, HeadsWhole
<1>6. ASSUME lost' = {} PROVE complaints' = {}
  <2>1. InStep /\ Stored /\ complaints = {}
    BY <1>1, <1>4, <1>5, <1>6
  <2> QED BY <2>1, InStepRead DEF Fine
<1>7. ASSUME HeadsWhole', complaints' = {}
      PROVE  /\ target' # Uart!Nowhere => Uart!Loaded'
             /\ target' = Uart!Nowhere /\ k' <= Len(file)' =>
                  (InStep' /\ Stored') \/ (Behind' /\ lost' # {})
  <2>1. (InStep /\ Stored) \/ (Behind /\ lost # {})
    BY <1>2, <1>3, <1>4, <1>7
  <2>2. CASE InStep /\ Stored
    BY <2>2, InStepRead DEF Fine
  <2>3. CASE Behind /\ lost # {}
    BY <2>3, <1>1, <1>7, BehindRead
  <2> QED BY <2>1, <2>2, <2>3
<1> QED BY <1>6, <1>7 DEF DamageInv

\* when a character gets lost too,
LEMMA DamageLose ==
  ASSUME Uart!SrecAssumption, MachineInv, DamageInv, Uart!Lose
  PROVE  DamageInv'
<1>1. /\ k <= Len(file) /\ target = Uart!Nowhere /\ lost' = lost \union {<<k, j>>}
      /\ UNCHANGED <<file, complaints, target>>
  BY DEF Uart!Lose, Uart!Sending
<1>2. lost' # {} /\ <<k, j>> \in lost'
  BY <1>1
<1>3. ASSUME HeadsWhole', complaints' = {} PROVE (InStep' /\ Stored') \/ Behind'
  <2>1. j > 4 /\ HeadsWhole
    <3>1. \A p \in lost' : p[2] > 4
      BY <1>3 DEF HeadsWhole
    <3>2. <<k, j>>[2] > 4
      BY <3>1, <1>2
    <3>3. j > 4
      BY <3>2
    <3> QED BY <3>1, <3>3, <1>1 DEF HeadsWhole
  <2>2. (InStep /\ Stored) \/ Behind
    BY <2>1, <1>1, <1>3 DEF DamageInv
  <2> QED BY <2>1, <2>2, DigitLost
<1> QED BY <1>1, <1>2, <1>3 DEF DamageInv

\* holds at the start,
LEMMA DamageInit ==
  ASSUME Uart!SrecAssumption, file \in Files, NEW garbage \in {0, 255}, Uart!BeginRead(garbage)
  PROVE  DamageInv
<1>1. /\ srec = [state |-> "start", type |-> 0, byte_count |-> 0, length |-> 0,
                 data |-> [n \in 0 .. MAX |-> garbage]]
      /\ k = 1 /\ j = 1 /\ lost = {} /\ complaints = {} /\ target = Uart!Nowhere
  BY DEF Uart!BeginRead
<1>2. Len(file) \in Nat /\ Len(file) >= 1 /\ 1 \in 1 .. Len(file) /\ Uart!Count(file[1]) \in 3 .. MAX
  <2>1. Len(file) \in Nat /\ Len(file) >= 1
    BY FileIs
  <2>2. 1 \in 1 .. Len(file)
    BY <2>1
  <2> QED BY <2>1, <2>2, FileIs
<1>3. LastPlace = 2 * Uart!Count(file[1]) + 5 /\ LastPlace > 1
  <2>1. LastPlace = 2 * Uart!Count(file[1]) + 5
    BY <1>1 DEF LastPlace
  <2> QED BY <2>1, <1>2, MAXIs
<1>4. InStep
  BY <1>1, <1>3 DEF InStep
<1>5. Stored
  <2>1. ASSUME NEW n \in Uart!DataRecords, n < k \/ (n = k /\ j = LastPlace) PROVE FALSE
    <3>1. n \in 1 .. Len(file)
      BY DEF Uart!DataRecords
    <3> QED BY <3>1, <2>1, <1>1, <1>2, <1>3
  <2> QED BY <2>1 DEF Stored
<1> QED BY <1>1, <1>4, <1>5 DEF DamageInv

\* and in every step.
LEMMA DamageStep ==
  ASSUME Uart!SrecAssumption, MachineInv, DamageInv, [Uart!Next]_Uart!vars
  PROVE  DamageInv'
<1>1. CASE Uart!Next
  BY <1>1, DamageRead, DamageLose DEF Uart!Next
<1>2. CASE UNCHANGED Uart!vars
  <2>1. /\ InStep' = InStep /\ Stored' = Stored /\ Behind' = Behind /\ Uart!Loaded' = Uart!Loaded
        /\ HeadsWhole' = HeadsWhole
    BY <1>2 DEF Uart!vars, InStep, Stored, Behind, Uart!Loaded, HeadsWhole, LastPlace, Due, Received,
                InPlace, Uart!DataRecords
  <2> QED BY <2>1, <1>2 DEF Uart!vars, DamageInv
<1> QED BY <1>1, <1>2

\* It says what the properties ask for.
LEMMA DamageShows ==
  ASSUME DamageInv
  PROVE  Uart!WholeFileLoaded /\ Uart!DamageReported
BY DEF DamageInv, Uart!WholeFileLoaded, Uart!DamageReported, HeadsWhole

-----------------------------------------------------------------------------
(* The boot ROM.                                                           *)

\* The loader starts when main has chosen it, as it was from the beginning.
LEMMA UartInit ==
  ASSUME Init
  PROVE  MachineInv /\ DamageInv
<1>1. Uart!SrecAssumption
  BY BootAssumption DEF BootAssumption
<1>2. file \in Files
  <2>1. Files # {}
    BY <1>1 DEF Uart!SrecAssumption
  <2> QED BY <2>1 DEF Init
<1>3. PICK garbage \in {0, 255} : Uart!BeginRead(garbage)
  BY DEF Init
<1> QED BY <1>1, <1>2, <1>3, MachineInit, DamageInit

\* Only boot_srec_uart changes what is the loader's.
LEMMA UartStep ==
  ASSUME MaxLost <= MAX, MachineInv, DamageInv, [Next]_bootVars
  PROVE  MachineInv' /\ DamageInv'
<1>1. Uart!SrecAssumption
  BY BootAssumption DEF BootAssumption
<1>2. UNCHANGED uartVars \/ Uart!Next
  BY DEF Next, main, boot_preloaded, boot_qspi, boot_srec_uart, Jump, bootVars
<1>3. [Uart!Next]_Uart!vars
  BY <1>2 DEF uartVars, Uart!vars
<1> QED BY <1>1, <1>3, MachineStep, DamageStep

\* Both invariants hold, if no more characters get lost than the data array is long.
LEMMA UartInvariant ==
  ASSUME MaxLost <= MAX
  PROVE  Spec => [](MachineInv /\ DamageInv)
<1>1. Init => MachineInv /\ DamageInv
  BY UartInit
<1>2. MachineInv /\ DamageInv /\ [Next]_bootVars => MachineInv' /\ DamageInv'
  BY UartStep
<1> QED BY <1>1, <1>2, PTL DEF Spec, bootVars

\* No sequence of characters that arrive or get lost makes srec_read_byte write behind its
\* data array, or gives any variable of either loader a value that is none of its type, as
\* long as no more characters get lost than the array is long.
THEOREM NeverOverruns ==
  ASSUME MaxLost <= MAX
  PROVE  Spec => []BootTypeOK
<1>1. MachineInv => Uart!TypeOK
  BY MachineTypes, BootAssumption DEF BootAssumption
<1>2. Spec => []Uart!TypeOK
  BY <1>1, UartInvariant, PTL
<1>3. Qspi!TypeOK /\ Uart!TypeOK => BootTypeOK
  BY DEF BootTypeOK
<1> QED BY <1>2, <1>3, FlashTypesInvariant, PTL

\* A file that arrives whole is in memory when the core jumps to its entry, and
\* srec_data_read has printed no error.
THEOREM WholeFileBoots ==
  ASSUME MaxLost <= MAX
  PROVE  Spec => []WholeFileLoaded
<1>1. MachineInv /\ DamageInv => WholeFileLoaded
  BY DamageShows DEF WholeFileLoaded
<1> QED BY <1>1, UartInvariant, PTL

\* A program with a hole, or with a record in a wrong place, is never entered without an
\* error on the host's terminal, if the start, type and count of every record arrive.
THEOREM NoSilentDamage ==
  ASSUME MaxLost <= MAX
  PROVE  Spec => []DamageReported
<1>1. MachineInv /\ DamageInv => DamageReported
  BY DamageShows DEF DamageReported
<1> QED BY <1>1, UartInvariant, PTL
=============================================================================
