------------------------------ MODULE Arithmetic ------------------------------
(***************************************************************************)
(* What the proofs need of numbers beyond what the provers know: division, *)
(* powers of two, induction over sets of numbers, and that a function      *)
(* defined by recursion over an index is the one the recursion says.       *)
(***************************************************************************)
EXTENDS Integers, NaturalsInduction, WellFoundedInduction, TLAPS

LEMMA Division ==
  ASSUME NEW n \in Nat, NEW m \in Nat \ {0}
  PROVE  /\ n \div m \in Nat /\ n % m \in 0 .. m - 1
         /\ n = (n \div m) * m + (n % m)
OBVIOUS

LEMMA Quotients ==
  ASSUME NEW n \in Nat, NEW m \in Nat \ {0}
  PROVE  /\ n \div m \in Nat /\ (n \div m) * m \in Nat
         /\ (n \div m) * m <= n /\ n < (n \div m) * m + m
<1> DEFINE q == n \div m
           x == q * m
           r == n % m
<1>1. q \in Nat /\ r \in 0 .. m - 1 /\ n = x + r
  BY Division
<1> HIDE DEF r, q
<1>2. x \in Nat
  BY <1>1
<1> HIDE DEF x
<1>3. x <= n /\ n < x + m
  BY <1>1, <1>2
<1> QED BY <1>1, <1>2, <1>3 DEF x, q

LEMMA Exact ==
  ASSUME NEW n \in Nat, NEW m \in Nat \ {0}, n % m = 0
  PROVE  n \div m \in Nat /\ n = (n \div m) * m
<1> DEFINE q == n \div m
           x == q * m
<1>1. q \in Nat /\ n = x + (n % m) /\ x \in Nat
  BY Division
<1> HIDE DEF x
<1>2. n = x
  BY <1>1
<1> QED BY <1>1, <1>2 DEF x

LEMMA Multiple ==
  ASSUME NEW q \in Nat, NEW m \in Nat \ {0}
  PROVE  (q * m) % m = 0
OBVIOUS

\* The quotient is the only number between.
LEMMA Quotient ==
  ASSUME NEW q \in Nat, NEW m \in Nat \ {0}, NEW n \in Nat, q * m <= n, n < q * m + m
  PROVE  n \div m = q
<1> DEFINE d == n \div m
<1>1. d \in Nat /\ d * m <= n /\ n < d * m + m
  BY Division
<1> HIDE DEF d
<1>2. ASSUME NEW a \in Nat, NEW b \in Nat, a < b PROVE a * m + m <= b * m
  <2>1. b - a - 1 \in Nat
    BY <1>2
  <2>2. (b - a - 1) * m \in Nat /\ a * m \in Nat /\ b * m \in Nat
    BY <2>1
  <2>3. b * m = (b - a - 1) * m + a * m + m
    OBVIOUS
  <2> QED BY <2>2, <2>3
<1>3. d * m \in Nat /\ q * m \in Nat
  BY <1>1
<1>4. ~(d < q)
  <2> SUFFICES ASSUME d < q PROVE FALSE
    OBVIOUS
  <2>1. d * m + m <= q * m
    BY <1>1, <1>2
  <2> QED BY <2>1, <1>1, <1>3
<1>5. ~(q < d)
  <2> SUFFICES ASSUME q < d PROVE FALSE
    OBVIOUS
  <2>1. q * m + m <= d * m
    BY <1>1, <1>2
  <2> QED BY <2>1, <1>1, <1>3
<1> QED BY <1>1, <1>4, <1>5 DEF d

-----------------------------------------------------------------------------
(* Induction, and functions defined by recursion over an index.            *)

Below == {ss \in Nat \X Nat : ss[1] < ss[2]}

LEMMA Least ==
  ASSUME NEW T \in SUBSET Nat, T # {}
  PROVE  \E x \in T : \A y \in T : x <= y
<1>1. IsWellFoundedOn(Below, Nat)
  <2>1. OpToRel(<, Nat) = Below
    BY DEF OpToRel, Below
  <2> QED BY <2>1, NatLessThanWellFounded
<1>2. PICK x \in T : \A y \in T : <<y, x>> \notin Below
  BY <1>1, WFMin
<1>3. \A y \in T : ~(y < x)
  <2> SUFFICES ASSUME NEW y \in T, y < x PROVE FALSE
    OBVIOUS
  <2>1. <<y, x>> \in Nat \X Nat /\ <<y, x>>[1] = y /\ <<y, x>>[2] = x
    OBVIOUS
  <2>2. <<y, x>> \in Below
    BY <2>1 DEF Below
  <2> QED BY <1>2, <2>2
<1> QED BY <1>2, <1>3

LEMMA SetInduction ==
  ASSUME NEW T, 0 \in T, \A n \in Nat : n \in T => n + 1 \in T
  PROVE  Nat \subseteq T
<1> SUFFICES ASSUME Nat \ T # {} PROVE FALSE
  OBVIOUS
<1>1. PICK x \in Nat \ T : \A y \in Nat \ T : x <= y
  BY Least
<1>2. x - 1 \in Nat /\ x - 1 \in T
  BY <1>1
<1> QED BY <1>1, <1>2

\* There is a function whose value at s its value at s - 1 determines.
Rules(N, X) == [1 .. N -> [X -> X]]
Obeys(g, base, N, step) == g[0] = base /\ \A s \in 1 .. N : g[s] = step[s][g[s - 1]]

LEMMA Recursion ==
  ASSUME NEW X, NEW base \in X, NEW N \in Nat, NEW step \in Rules(N, X)
  PROVE  \E g \in [0 .. N -> X] : Obeys(g, base, N, step)
<1> USE DEF Rules
<1> DEFINE Good(n, g) == g[0] = base /\ \A s \in 1 .. n : g[s] = step[s][g[s - 1]]
           T == {n \in Nat : n <= N => \E g \in [0 .. n -> X] : Good(n, g)}
<1>1. 0 \in T
  <2> DEFINE g == [x \in 0 .. 0 |-> base]
  <2>1. g \in [0 .. 0 -> X] /\ Good(0, g)
    OBVIOUS
  <2> QED BY <2>1
<1>2. ASSUME NEW n \in Nat, n \in T PROVE n + 1 \in T
  <2> SUFFICES ASSUME n + 1 <= N PROVE \E g \in [0 .. n + 1 -> X] : Good(n + 1, g)
    OBVIOUS
  <2>1. PICK f \in [0 .. n -> X] : Good(n, f)
    BY <1>2
  <2> DEFINE g == [x \in 0 .. n + 1 |-> IF x = n + 1 THEN step[n + 1][f[n]] ELSE f[x]]
  <2>2. n + 1 \in 1 .. N /\ f[n] \in X /\ step[n + 1] \in [X -> X]
    BY <2>1
  <2>3. step[n + 1][f[n]] \in X
    BY <2>2
  <2>4. g \in [0 .. n + 1 -> X]
    <3>1. \A x \in 0 .. n + 1 : g[x] \in X
      <4> SUFFICES ASSUME NEW x \in 0 .. n + 1 PROVE g[x] \in X
        OBVIOUS
      <4>1. x = n + 1 \/ x \in 0 .. n
        OBVIOUS
      <4> QED BY <4>1, <2>1, <2>3
    <3> QED BY <3>1
  <2>5. g[0] = base
    BY <2>1
  <2>6. ASSUME NEW s \in 1 .. n + 1 PROVE g[s] = step[s][g[s - 1]]
    <3>1. CASE s = n + 1
      BY <3>1
    <3>2. CASE s # n + 1
      <4>1. s \in 1 .. n /\ s \in 0 .. n + 1 /\ s - 1 \in 0 .. n + 1 /\ s - 1 # n + 1
        BY <3>2
      <4>2. g[s] = f[s] /\ g[s - 1] = f[s - 1]
        BY <4>1, <3>2
      <4> QED BY <4>1, <4>2, <2>1
    <3> QED BY <3>1, <3>2
  <2> HIDE DEF g
  <2>7. Good(n + 1, g)
    BY <2>5, <2>6
  <2> QED BY <2>4, <2>7
<1>3. N \in T
  <2>1. Nat \subseteq T
    <3> HIDE DEF T
    <3> QED BY <1>1, <1>2, SetInduction
  <2> QED BY <2>1
<1> QED BY <1>3 DEF Obeys
=============================================================================
