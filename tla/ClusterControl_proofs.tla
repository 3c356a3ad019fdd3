------------------------ MODULE ClusterControl_proofs ------------------------
(***************************************************************************)
(* For every number of PEs, of controlled cores and of calls: the PEs go   *)
(* through the program in step, although the hardware barrier does not     *)
(* know at which synch_barrier of the program a PE waits; each loop        *)
(* handles each core once a call; and the FC hears of it when all is done. *)
(***************************************************************************)
EXTENDS ClusterControl, TLAPS, WellFoundedInduction

-----------------------------------------------------------------------------
(* Division, by which the cores are shared out.                            *)

LEMMA Division ==
  ASSUME NEW N \in Nat \ {0}, NEW a \in Nat
  PROVE  /\ a % N \in 0 .. N - 1 /\ a \div N \in Nat
         /\ a = N * (a \div N) + (a % N)
BY Z3

LEMMA Uniquely ==
  ASSUME NEW N \in Nat \ {0}, NEW d \in Int, NEW r \in 0 .. N - 1, NEW t \in 0 .. N - 1,
         N * d = t - r
  PROVE  t = r
<1>1. CASE d > 0
  <2>1. N * d >= N
    BY <1>1
  <2> QED BY <2>1
<1>2. CASE d < 0
  <2>1. N * d <= -N
    BY <1>2
  <2> QED BY <2>1
<1>3. CASE d = 0
  BY <1>3
<1> QED BY <1>1, <1>2, <1>3

LEMMA Congruent ==
  ASSUME NEW N \in Nat \ {0}, NEW a \in Nat, NEW b \in Nat, b = a + N
  PROVE  b % N = a % N
<1>1. b = N * (b \div N) + (b % N) /\ b % N \in 0 .. N - 1 /\ b \div N \in Nat
  BY Division
<1>2. a = N * (a \div N) + (a % N) /\ a % N \in 0 .. N - 1 /\ a \div N \in Nat
  BY Division
<1> DEFINE x == a \div N
           y == b \div N
           r == a % N
           t == b % N
<1>3. x \in Nat /\ y \in Nat /\ r \in 0 .. N - 1 /\ t \in 0 .. N - 1
      /\ a = N * x + r /\ a + N = N * y + t
  BY <1>1, <1>2
<1> HIDE DEF x, y, r, t
<1>4. N * (x + 1 - y) = t - r
  BY <1>3
<1>5. t = r
  BY <1>3, <1>4, Uniquely
<1> QED BY <1>5 DEF r, t

LEMMA Small ==
  ASSUME NEW N \in Nat \ {0}, NEW a \in 0 .. N - 1
  PROVE  a % N = a
BY Z3

(* Cores of the same PE lie a whole round apart.                            *)
LEMMA Apart ==
  ASSUME NEW N \in Nat \ {0}, NEW a \in Nat, NEW b \in Nat, a % N = b % N, a < b
  PROVE  a + N <= b
<1>1. /\ a = N * (a \div N) + (a % N) /\ a \div N \in Nat
      /\ b = N * (b \div N) + (b % N) /\ b \div N \in Nat
  BY Division
<1>2. N * (b \div N) - N * (a \div N) = N * ((b \div N) - (a \div N))
  BY <1>1
<1>3. (b \div N) - (a \div N) > 0
  BY <1>1
<1>4. N * ((b \div N) - (a \div N)) >= N
  BY <1>1, <1>3
<1> QED BY <1>1, <1>2, <1>4

(* The loops of every PE go up to the last core.                            *)
LEMMA EndIs ==
  ASSUME ClusterAssumption, NEW p \in PEs
  PROVE  End(p) = l_num_core
<1> DEFINE N == ARCHI_CLUSTER_NB_PE
           q == l_num_core \div N
           r == l_num_core % N
<1>1. N \in Nat \ {0} /\ l_num_core \in Nat /\ p \in Nat
  BY DEF ClusterAssumption, PEs
<1>2. l_num_core = N * q + r /\ q \in Nat /\ r \in 0 .. N - 1
  BY <1>1, Division
<1> HIDE DEF q, r
<1>3. N * (q + 1) = N * q + N
  BY <1>1, <1>2
<1>4. End(p) = IF p + N * (q + (IF r # 0 THEN 1 ELSE 0)) > l_num_core
                 THEN l_num_core ELSE p + N * (q + (IF r # 0 THEN 1 ELSE 0))
  BY DEF End, q, r
<1>5. CASE r # 0
  BY <1>1, <1>2, <1>3, <1>4, <1>5
<1>6. CASE r = 0
  BY <1>1, <1>2, <1>4, <1>6
<1> QED BY <1>5, <1>6

-----------------------------------------------------------------------------
(* The program's text.                                                     *)

LEMMA Text ==
  /\ Len(Phases) = 6 /\ Phases = <<"boot", "power", "alpha", "pid", "freq", "end">>
  /\ Steps[Phases[1]] = <<"boot", "sync">>
  /\ Steps[Phases[2]] = <<"enter", "work", "sync", "reduce", "leave", "between">>
  /\ Steps[Phases[3]] = <<"enter", "work", "sync", "reduce", "sync", "normalise", "apply",
                          "sync", "reduce", "sync", "leave", "between">>
  /\ Steps[Phases[4]] = <<"enter", "work", "sync", "leave", "between">>
  /\ Steps[Phases[5]] = <<"enter", "work", "sync", "leave", "between">>
  /\ Steps[Phases[6]] = <<"sync", "stub", "stopped">>
BY DEF Phases, Steps

LEMMA Lengths ==
  /\ Len(Phases) = 6
  /\ Len(Steps[Phases[1]]) = 2 /\ Len(Steps[Phases[2]]) = 6 /\ Len(Steps[Phases[3]]) = 12
  /\ Len(Steps[Phases[4]]) = 5 /\ Len(Steps[Phases[5]]) = 5 /\ Len(Steps[Phases[6]]) = 3
BY Text

LEMMA SomeSteps ==
  ASSUME NEW h \in 1 .. 6
  PROVE  Len(Steps[Phases[h]]) \in Nat \ {0}
<1>1. CASE h = 1
  BY <1>1, Lengths
<1>2. CASE h = 2
  BY <1>2, Lengths
<1>3. CASE h = 3
  BY <1>3, Lengths
<1>4. CASE h = 4
  BY <1>4, Lengths
<1>5. CASE h = 5
  BY <1>5, Lengths
<1>6. CASE h = 6
  BY <1>6, Lengths
<1> QED BY <1>1, <1>2, <1>3, <1>4, <1>5, <1>6

(* A function's last step is a barrier, but for the stub's sleep; leave is  *)
(* never last, and between comes after it and nowhere else.                 *)
LEMMA Program ==
  ASSUME NEW h \in 1 .. 6, NEW s \in 1 .. Len(Steps[Phases[h]])
  PROVE  /\ s = Len(Steps[Phases[h]]) => Steps[Phases[h]][s] \in Barriers \union {"stopped"}
         /\ Steps[Phases[h]][s] = "stopped" <=> h = 6 /\ s = Len(Steps[Phases[h]])
         /\ Steps[Phases[h]][s] = "leave" => s < Len(Steps[Phases[h]])
         /\ Steps[Phases[h]][s] = "between" => s > 1 /\ Steps[Phases[h]][s - 1] = "leave"
         /\ Steps[Phases[h]][s] = "stub" => h = 6 /\ s = Len(Steps[Phases[h]]) - 1
         /\ Steps[Phases[h]][s] = "leave" => h \in 2 .. 5
<1>1. CASE h = 1
  BY <1>1, Text DEF Barriers
<1>2. CASE h = 2
  BY <1>2, Text DEF Barriers
<1>3. CASE h = 3
  BY <1>3, Text DEF Barriers
<1>4. CASE h = 4
  BY <1>4, Text DEF Barriers
<1>5. CASE h = 5
  BY <1>5, Text DEF Barriers
<1>6. CASE h = 6
  BY <1>6, Text DEF Barriers
<1> QED BY <1>1, <1>2, <1>3, <1>4, <1>5, <1>6

(* Where the loops are: behind the function's first barrier, with another   *)
(* barrier between them and its end.                                        *)
LEMMA Loop ==
  ASSUME NEW l \in LoopNames
  PROVE  LET h == LoopPhase[l]
             text == Steps[Phases[h]]
         IN  /\ h \in 2 .. 5
             /\ LoopPos[l] \in 2 .. Len(text)
             /\ text[LoopPos[l]] \in Loops
             /\ (IF text[LoopPos[l]] = "work" THEN Phases[h] ELSE text[LoopPos[l]]) = l
             /\ text[Len(text)] = "between" /\ LoopPos[l] < Len(text)
             /\ \A s \in 1 .. Len(text) :
                  text[s] = "leave" =>
                    \E b \in 1 .. s - 1 : b > LoopPos[l] /\ text[b] \in Barriers
<1>1. CASE l = "power"
  <2>1. LoopPhase[l] = 2 /\ LoopPos[l] = 2
    BY <1>1 DEF LoopPhase, LoopPos
  <2> QED BY <1>1, <2>1, Text DEF Barriers, Loops
<1>2. CASE l = "alpha"
  <2>1. LoopPhase[l] = 3 /\ LoopPos[l] = 2
    BY <1>2 DEF LoopPhase, LoopPos
  <2> QED BY <1>2, <2>1, Text DEF Barriers, Loops
<1>3. CASE l = "normalise"
  <2>1. LoopPhase[l] = 3 /\ LoopPos[l] = 6
    BY <1>3 DEF LoopPhase, LoopPos
  <2> QED BY <1>3, <2>1, Text DEF Barriers, Loops
<1>4. CASE l = "apply"
  <2>1. LoopPhase[l] = 3 /\ LoopPos[l] = 7
    BY <1>4 DEF LoopPhase, LoopPos
  <2> QED BY <1>4, <2>1, Text DEF Barriers, Loops
<1>5. CASE l = "pid"
  <2>1. LoopPhase[l] = 4 /\ LoopPos[l] = 2
    BY <1>5 DEF LoopPhase, LoopPos
  <2> QED BY <1>5, <2>1, Text DEF Barriers, Loops
<1>6. CASE l = "freq"
  <2>1. LoopPhase[l] = 5 /\ LoopPos[l] = 2
    BY <1>6 DEF LoopPhase, LoopPos
  <2> QED BY <1>6, <2>1, Text DEF Barriers, Loops
<1> QED BY <1>1, <1>2, <1>3, <1>4, <1>5, <1>6 DEF LoopNames

LEMMA LoopHere ==
  ASSUME NEW h \in 1 .. 6, NEW s \in 1 .. Len(Steps[Phases[h]]),
         Steps[Phases[h]][s] \in Loops
  PROVE  LET l == IF Steps[Phases[h]][s] = "work" THEN Phases[h] ELSE Steps[Phases[h]][s]
         IN  l \in LoopNames /\ LoopPhase[l] = h /\ LoopPos[l] = s
<1>1. CASE h = 1
  BY <1>1, Text DEF Loops
<1>2. CASE h = 2
  BY <1>2, Text DEF Loops, LoopNames, LoopPhase, LoopPos
<1>3. CASE h = 3
  BY <1>3, Text DEF Loops, LoopNames, LoopPhase, LoopPos
<1>4. CASE h = 4
  BY <1>4, Text DEF Loops, LoopNames, LoopPhase, LoopPos
<1>5. CASE h = 5
  BY <1>5, Text DEF Loops, LoopNames, LoopPhase, LoopPos
<1>6. CASE h = 6
  BY <1>6, Text DEF Loops
<1> QED BY <1>1, <1>2, <1>3, <1>4, <1>5, <1>6

-----------------------------------------------------------------------------
(* What ControlInv says of one PE, with its place spelt out.                *)
LEMMA Here ==
  ASSUME ControlInv, NEW p \in PEs
  PROVE  /\ phase[p] \in 1 .. 6 /\ iter[p] \in 1 .. FOR_IN /\ pos[p] \in Nat
         /\ pos[p] \in 1 .. Len(Steps[Phases[phase[p]]])
         /\ Step(p) = Steps[Phases[phase[p]]][pos[p]]
         /\ idx[p] \in Nat /\ idx[p] % ARCHI_CLUSTER_NB_PE = p
BY Lengths DEF ControlInv, Places, Shares, Step, Fn

LEMMA Numbers ==
  ASSUME ClusterAssumption
  PROVE  /\ ARCHI_CLUSTER_NB_PE \in Nat \ {0} /\ PEs \subseteq Nat /\ 0 \in PEs
         /\ FOR_IN \in Nat \ {0} /\ Cores \subseteq Nat
         /\ \A c \in Cores : c % ARCHI_CLUSTER_NB_PE \in PEs
BY Division DEF ClusterAssumption, PEs, Cores

LEMMA InitOK == ASSUME ClusterAssumption PROVE ControlInit => ControlInv
<1> SUFFICES ASSUME ControlInit PROVE ControlInv
  OBVIOUS
<1>1. \A p \in PEs : phase[p] = 1 /\ iter[p] = 1 /\ pos[p] = 1 /\ idx[p] = p /\ Fn(p) = Phases[1]
  BY DEF ControlInit, Fn
<1>2. Places
  <2>1. /\ phase \in [PEs -> 1 .. Len(Phases)] /\ iter \in [PEs -> 1 .. FOR_IN]
        /\ pos \in [PEs -> Nat]
    BY Lengths, Numbers DEF ControlInit
  <2>2. 1 \in 1 .. Len(Steps[Phases[1]])
    BY Lengths
  <2>3. \A p \in PEs : pos[p] \in 1 .. Len(Steps[Fn(p)])
    BY <1>1, <2>2
  <2> QED BY <2>1, <2>3 DEF Places
<1>3. Together
  BY DEF ControlInit, Together, PassedSet, Fn
<1>4. Shares
  <2>1. idx \in [PEs -> Nat] /\ \A p \in PEs : idx[p] % ARCHI_CLUSTER_NB_PE = p
    BY <1>1, Small, Numbers DEF ControlInit, PEs
  <2>2. \A p \in PEs : Step(p) # "between"
    BY <1>1, Text DEF Step
  <2>3. handled \in [LoopNames -> Sums] /\ \A l \in LoopNames, c \in Cores : handled[l][c] = 0
    BY DEF ControlInit, Zero, Sums
  <2>4. \A l \in LoopNames, c \in Cores : Counted(c % ARCHI_CLUSTER_NB_PE, l, c) = 0
    BY <1>1, Loop, Numbers DEF Counted
  <2> QED BY <2>1, <2>2, <2>3, <2>4 DEF Shares
<1>5. Flag
  BY DEF ControlInit, Flag
<1> QED BY <1>2, <1>3, <1>4, <1>5 DEF ControlInv
-----------------------------------------------------------------------------
(* The same of Program.                                                     *)
LEMMA Near ==
  ASSUME ControlInv, NEW p \in PEs
  PROVE  /\ pos[p] = Len(Steps[Fn(p)]) => Step(p) \in Barriers \union {"stopped"}
         /\ Step(p) = "stopped" <=> phase[p] = 6 /\ pos[p] = Len(Steps[Fn(p)])
         /\ Step(p) = "leave" => pos[p] < Len(Steps[Fn(p)])
         /\ Step(p) = "between" => pos[p] > 1 /\ Steps[Fn(p)][pos[p] - 1] = "leave"
         /\ Step(p) = "stub" => phase[p] = 6 /\ pos[p] = Len(Steps[Fn(p)]) - 1
         /\ Step(p) = "leave" => phase[p] \in 2 .. 5
         /\ Fn(p) = Phases[phase[p]] /\ Len(Steps[Fn(p)]) \in Nat \ {0}
<1> DEFINE h == phase[p]
           s == pos[p]
<1>1. h \in 1 .. 6 /\ s \in 1 .. Len(Steps[Phases[h]]) /\ Step(p) = Steps[Phases[h]][s]
  BY Here
<1>2. Fn(p) = Phases[h]
  BY DEF Fn
<1> HIDE DEF h, s
<1>3. /\ s = Len(Steps[Phases[h]]) => Steps[Phases[h]][s] \in Barriers \union {"stopped"}
      /\ Steps[Phases[h]][s] = "stopped" <=> h = 6 /\ s = Len(Steps[Phases[h]])
      /\ Steps[Phases[h]][s] = "leave" => s < Len(Steps[Phases[h]])
      /\ Steps[Phases[h]][s] = "between" => s > 1 /\ Steps[Phases[h]][s - 1] = "leave"
      /\ Steps[Phases[h]][s] = "stub" => h = 6 /\ s = Len(Steps[Phases[h]]) - 1
      /\ Steps[Phases[h]][s] = "leave" => h \in 2 .. 5
  BY <1>1, Program
<1>4. Len(Steps[Phases[h]]) \in Nat \ {0}
  BY <1>1, SomeSteps
<1> QED BY <1>1, <1>2, <1>3, <1>4 DEF h, s

(* A PE that goes on from a step that is no barrier goes to the next one.   *)
LEMMA Moved ==
  ASSUME ControlInv, NEW p \in PEs,
         Step(p) \notin Barriers \union {"stopped"}, MoveOn({p})
  PROVE  /\ phase' = phase /\ iter' = iter
         /\ pos' = [pos EXCEPT ![p] = @ + 1] /\ idx' = [idx EXCEPT ![p] = p]
         /\ pos[p] < Len(Steps[Phases[phase[p]]])
<1>1. Step(p) # "leave" /\ pos[p] # Len(Steps[Fn(p)]) /\ pos[p] < Len(Steps[Phases[phase[p]]])
  <2>1. Step(p) # "leave" /\ pos[p] # Len(Steps[Fn(p)])
    BY Near DEF Barriers
  <2>2. pos[p] \in 1 .. Len(Steps[Fn(p)]) /\ Len(Steps[Fn(p)]) \in Nat /\ Fn(p) = Phases[phase[p]]
    BY Near, Here
  <2> QED BY <2>1, <2>2
<1>2. Advance(p) = [phase |-> phase[p], iter |-> iter[p], pos |-> pos[p] + 1]
  BY <1>1 DEF Advance
<1>3. phase' = phase /\ iter' = iter
  <2>1. \A q \in PEs : (IF q \in {p} THEN Advance(q).phase ELSE phase[q]) = phase[q]
    BY <1>2
  <2>2. \A q \in PEs : (IF q \in {p} THEN Advance(q).iter ELSE iter[q]) = iter[q]
    BY <1>2
  <2>3. phase' = [q \in PEs |-> phase[q]] /\ iter' = [q \in PEs |-> iter[q]]
    BY <2>1, <2>2 DEF MoveOn
  <2>4. phase = [q \in PEs |-> phase[q]] /\ iter = [q \in PEs |-> iter[q]]
    BY DEF ControlInv, Places
  <2> QED BY <2>3, <2>4
<1>4. pos' = [pos EXCEPT ![p] = @ + 1]
  <2>1. \A q \in PEs : (IF q \in {p} THEN Advance(q).pos ELSE pos[q])
                       = (IF q = p THEN pos[p] + 1 ELSE pos[q])
    BY <1>2
  <2>2. pos' = [q \in PEs |-> IF q = p THEN pos[p] + 1 ELSE pos[q]]
    BY <2>1 DEF MoveOn
  <2> QED BY <2>2 DEF ControlInv, Places
<1>5. idx' = [idx EXCEPT ![p] = p]
  BY DEF MoveOn, ControlInv, Shares
<1> QED BY <1>1, <1>3, <1>4, <1>5

(* It stays between the same two barriers.                                  *)
LEMMA OneMoves ==
  ASSUME ControlInv, NEW p \in PEs,
         Step(p) \notin Barriers \union {"stopped"}, MoveOn({p})
  PROVE  Places' /\ Together'
<1>1. /\ phase' = phase /\ iter' = iter /\ pos' = [pos EXCEPT ![p] = @ + 1]
      /\ pos[p] < Len(Steps[Phases[phase[p]]])
  BY Moved
<1>2. \A q \in PEs : Fn(q)' = Fn(q)
  BY <1>1 DEF Fn
<1>3. Places'
  <2>1. pos' \in [PEs -> Nat]
    BY <1>1 DEF ControlInv, Places
  <2>2. \A q \in PEs : pos'[q] \in 1 .. Len(Steps[Fn(q)'])
    <3> TAKE q \in PEs
    <3>1. pos[q] \in 1 .. Len(Steps[Fn(q)]) /\ pos[q] \in Nat
      BY DEF ControlInv, Places
    <3>2. Len(Steps[Fn(q)]) \in Nat
      BY Here, SomeSteps DEF Fn
    <3>3. pos'[q] = IF q = p THEN pos[p] + 1 ELSE pos[q]
      BY <1>1 DEF ControlInv, Places
    <3>4. pos[p] < Len(Steps[Fn(p)])
      BY <1>1 DEF Fn
    <3> QED BY <1>2, <3>1, <3>2, <3>3, <3>4
  <2> QED BY <1>1, <2>1, <2>2 DEF ControlInv, Places
<1>4. \A q \in PEs : PassedSet(q)' = PassedSet(q)
  <2> TAKE q \in PEs
  <2>1. CASE q # p
    BY <1>1, <1>2, <2>1 DEF PassedSet, ControlInv, Places
  <2>2. CASE q = p
    <3>1. pos'[p] - 1 = pos[p] /\ pos[p] \in Nat
      BY <1>1, Here DEF ControlInv, Places
    <3>2. Steps[Fn(p)][pos[p]] \notin Barriers
      BY DEF Step
    <3>3. \A i \in 1 .. pos[p] : Steps[Fn(p)][i] \in Barriers => i \in 1 .. pos[p] - 1
      BY <3>1, <3>2
    <3> QED BY <1>2, <2>2, <3>1, <3>3 DEF PassedSet
  <2> QED BY <2>1, <2>2
<1> QED BY <1>1, <1>3, <1>4 DEF ControlInv, Together

(* And no loop has handled more or less by it: one it leaves is at its end, *)
(* one it comes to has not begun.                                           *)
LEMMA OneShares ==
  ASSUME ClusterAssumption, ControlInv, NEW p \in PEs,
         Step(p) \notin Barriers \union {"stopped"}, MoveOn({p}), handled' = handled,
         Step(p) \in Loops => idx[p] >= l_num_core
  PROVE  Shares'
<1> DEFINE N == ARCHI_CLUSTER_NB_PE
<1>1. /\ phase' = phase /\ iter' = iter
      /\ pos' = [pos EXCEPT ![p] = @ + 1] /\ idx' = [idx EXCEPT ![p] = p]
      /\ pos[p] < Len(Steps[Phases[phase[p]]])
  BY Moved
<1>2. p \in Nat /\ p % N = p
  BY Numbers, Small DEF PEs
<1>3. idx' \in [PEs -> Nat] /\ \A q \in PEs : idx'[q] % N = q
  BY <1>1, <1>2 DEF ControlInv, Shares
<1>4. \A q \in PEs : Step(q)' = "between" => iter'[q] = FOR_IN
  <2> TAKE q \in PEs
  <2>1. CASE q # p
    BY <1>1, <2>1 DEF ControlInv, Shares, Places, Step, Fn
  <2>2. CASE q = p
    <3>1. Step(p)' = Steps[Phases[phase[p]]][pos[p] + 1]
      BY <1>1, Here DEF Step, Fn, ControlInv, Places
    <3>2. pos[p] + 1 \in 1 .. Len(Steps[Phases[phase[p]]]) /\ phase[p] \in 1 .. 6
          /\ (pos[p] + 1) - 1 = pos[p]
      BY <1>1, Here, SomeSteps
    <3>3. Steps[Phases[phase[p]]][pos[p]] # "leave"
      BY Here DEF Barriers
    <3>4. Steps[Phases[phase[p]]][pos[p] + 1] # "between"
      <4> DEFINE h == phase[p]
                 s == pos[p] + 1
      <4>1. h \in 1 .. 6 /\ s \in 1 .. Len(Steps[Phases[h]])
            /\ Steps[Phases[h]][s - 1] # "leave"
        BY <3>2, <3>3
      <4> HIDE DEF h, s
      <4>2. Steps[Phases[h]][s] # "between"
        BY <4>1, Program
      <4> QED BY <4>2 DEF h, s
    <3> QED BY <2>2, <3>1, <3>4
  <2> QED BY <2>1, <2>2
<1>5. ASSUME NEW q \in PEs, NEW l \in LoopNames, NEW c \in Cores, c % N = q
      PROVE  Counted(q, l, c)' = Counted(q, l, c)
  <2>1. LoopPhase[l] \in 2 .. 5 /\ LoopPos[l] \in Nat
    BY Loop
  <2>2. CASE q # p
    BY <1>1, <2>2 DEF Counted, ControlInv, Shares, Places
  <2>3. CASE q = p /\ phase[p] # LoopPhase[l]
    BY <1>1, <2>1, <2>3, Here DEF Counted
  <2>4. CASE q = p /\ phase[p] = LoopPhase[l]
    <3>1. p <= c
      <4>1. c \in Nat /\ N \in Nat \ {0} /\ p \in Nat
        BY Numbers
      <4>2. c = N * (c \div N) + (c % N) /\ c \div N \in Nat
        BY <4>1, Division
      <4>3. N * (c \div N) >= 0
        BY <4>1, <4>2
      <4> QED BY <1>5, <2>4, <4>1, <4>2, <4>3
    <3>2. /\ phase'[p] = phase[p] /\ iter'[p] = iter[p]
          /\ pos'[p] = pos[p] + 1 /\ idx'[p] = p /\ pos[p] \in Nat
      BY <1>1, Here DEF ControlInv, Places, Shares
    <3>3. Counted(p, l, c)' = IF pos[p] + 1 > LoopPos[l] THEN iter[p] ELSE iter[p] - 1
      <4>1. c \in Nat /\ ~(c < p)
        BY <3>1, Numbers
      <4> QED BY <2>1, <2>4, <3>2, <4>1 DEF Counted
    <3>4. Counted(p, l, c) = IF pos[p] > LoopPos[l] \/ (pos[p] = LoopPos[l] /\ c < idx[p])
                               THEN iter[p] ELSE iter[p] - 1
      BY <2>1, <2>4, Here DEF Counted
    <3>5. pos[p] = LoopPos[l] => c < idx[p]
      <4>1. pos[p] = LoopPos[l] => Step(p) \in Loops
        BY <2>4, Here, Loop
      <4> QED BY <4>1, Here DEF Cores, ClusterAssumption
    <3>6. Counted(p, l, c)' = Counted(p, l, c)
      BY <2>1, <3>2, <3>3, <3>4, <3>5
    <3> QED BY <2>4, <3>6
  <2> QED BY <2>2, <2>3, <2>4
<1>6. \A l \in LoopNames, c \in Cores : Counted(c % N, l, c)' = Counted(c % N, l, c)
  BY <1>5, Numbers
<1> QED BY <1>3, <1>4, <1>6 DEF ControlInv, Shares
-----------------------------------------------------------------------------
(* PEs that wait are at the same place: of two places between the same two  *)
(* barriers only one is a barrier.                                          *)
LEMMA Alike ==
  ASSUME ControlInv, \A p \in PEs : InBarrier(p)
  PROVE  \A p, q \in PEs : phase[p] = phase[q] /\ iter[p] = iter[q] /\ pos[p] = pos[q]
<1>1. \A p, q \in PEs : ~(pos[p] < pos[q])
  <2> SUFFICES ASSUME NEW p \in PEs, NEW q \in PEs, pos[p] < pos[q] PROVE FALSE
    OBVIOUS
  <2>1. Fn(p) = Fn(q) /\ PassedSet(p) = PassedSet(q)
    BY DEF ControlInv, Together, Fn
  <2>2. pos[p] \in 1 .. Len(Steps[Fn(p)]) /\ pos[p] \in Nat /\ pos[q] \in Nat
    BY DEF ControlInv, Places
  <2>3. Steps[Fn(p)][pos[p]] \in Barriers
    BY DEF InBarrier, Step
  <2>4. pos[p] \in 1 .. pos[q] - 1
    BY <2>2
  <2>5. pos[p] \in PassedSet(q)
    BY <2>1, <2>3, <2>4 DEF PassedSet
  <2>6. pos[p] \notin PassedSet(p)
    BY <2>2 DEF PassedSet
  <2> QED BY <2>1, <2>5, <2>6
<1>2. \A p \in PEs : pos[p] \in Nat
  BY DEF ControlInv, Places
<1> QED BY <1>1, <1>2 DEF ControlInv, Together

(* Where the barrier takes a PE: to the next call of the function, to the   *)
(* next function, or one step on.                                           *)
LEMMA Advanced ==
  ASSUME ClusterAssumption, ControlInv, NEW p \in PEs, InBarrier(p)
  PROVE  \/ /\ Step(p) = "leave" /\ iter[p] < FOR_IN
            /\ Advance(p) = [phase |-> phase[p], iter |-> iter[p] + 1, pos |-> 1]
         \/ /\ pos[p] = Len(Steps[Fn(p)]) /\ phase[p] < 6
            /\ Advance(p) = [phase |-> phase[p] + 1, iter |-> 1, pos |-> 1]
         \/ /\ Step(p) = "leave" => iter[p] = FOR_IN
            /\ pos[p] < Len(Steps[Fn(p)])
            /\ Advance(p) = [phase |-> phase[p], iter |-> iter[p], pos |-> pos[p] + 1]
<1>1. Step(p) # "stopped" /\ Step(p) \in Barriers
  BY DEF InBarrier, Barriers
<1>2. phase[p] \in 1 .. 6 /\ iter[p] \in 1 .. FOR_IN /\ pos[p] \in Nat
      /\ pos[p] \in 1 .. Len(Steps[Fn(p)]) /\ Len(Steps[Fn(p)]) \in Nat
  BY Here, Near
<1>3. CASE Step(p) = "leave" /\ iter[p] < FOR_IN
  <2>1. pos[p] # Len(Steps[Fn(p)])
    BY <1>2, <1>3, Near
  <2> QED BY <1>3, <2>1 DEF Advance
<1>4. CASE ~(Step(p) = "leave" /\ iter[p] < FOR_IN) /\ pos[p] = Len(Steps[Fn(p)])
  <2>1. phase[p] # 6
    BY <1>1, <1>4, Near
  <2>2. Advance(p) = [phase |-> phase[p] + 1, iter |-> 1, pos |-> 1]
    BY <1>4 DEF Advance
  <2> QED BY <1>2, <1>4, <2>1, <2>2
<1>5. CASE ~(Step(p) = "leave" /\ iter[p] < FOR_IN) /\ pos[p] # Len(Steps[Fn(p)])
  <2>1. Advance(p) = [phase |-> phase[p], iter |-> iter[p], pos |-> pos[p] + 1]
    BY <1>5 DEF Advance
  <2>2. Step(p) = "leave" => iter[p] = FOR_IN
    BY <1>2, <1>5, Numbers
  <2> QED BY <1>2, <1>5, <2>1, <2>2
<1> QED BY <1>3, <1>4, <1>5

LEMMA AllMove ==
  ASSUME ClusterAssumption, ControlInv, Barrier
  PROVE  /\ Places' /\ Together'
         /\ \A p \in PEs : /\ phase'[p] = Advance(p).phase /\ iter'[p] = Advance(p).iter
                           /\ pos'[p] = Advance(p).pos /\ idx'[p] = p
<1>1. \A p \in PEs : InBarrier(p)
  BY DEF Barrier
<1>2. \A p \in PEs : /\ phase'[p] = Advance(p).phase /\ iter'[p] = Advance(p).iter
                     /\ pos'[p] = Advance(p).pos /\ idx'[p] = p
  BY DEF Barrier, MoveOn
<1>3. ASSUME NEW p \in PEs
      PROVE  /\ Advance(p).phase \in 1 .. 6 /\ Advance(p).iter \in 1 .. FOR_IN
             /\ Advance(p).pos \in 1 .. Len(Steps[Phases[Advance(p).phase]])
             /\ Advance(p).pos \in Nat
  <2>1. /\ phase[p] \in 1 .. 6 /\ iter[p] \in 1 .. FOR_IN /\ pos[p] \in Nat
        /\ Fn(p) = Phases[phase[p]] /\ Len(Steps[Phases[phase[p]]]) \in Nat \ {0}
        /\ pos[p] \in 1 .. Len(Steps[Phases[phase[p]]])
    BY Here, Near
  <2>2. CASE Step(p) = "leave" /\ iter[p] < FOR_IN
             /\ Advance(p) = [phase |-> phase[p], iter |-> iter[p] + 1, pos |-> 1]
    BY <2>1, <2>2, Numbers
  <2>3. CASE phase[p] < 6 /\ Advance(p) = [phase |-> phase[p] + 1, iter |-> 1, pos |-> 1]
    <3>1. phase[p] + 1 \in 1 .. 6
      BY <2>1, <2>3
    <3>2. Len(Steps[Phases[phase[p] + 1]]) \in Nat \ {0}
      BY <3>1, SomeSteps
    <3> QED BY <2>3, <3>1, <3>2, Numbers
  <2>4. CASE /\ pos[p] < Len(Steps[Fn(p)])
             /\ Advance(p) = [phase |-> phase[p], iter |-> iter[p], pos |-> pos[p] + 1]
    BY <2>1, <2>4
  <2> QED BY <1>1, <2>2, <2>3, <2>4, Advanced
<1>4. Places'
  <2>1. phase' \in [PEs -> 1 .. Len(Phases)] /\ iter' \in [PEs -> 1 .. FOR_IN]
        /\ pos' \in [PEs -> Nat]
    BY <1>3, Lengths DEF Barrier, MoveOn
  <2>2. \A p \in PEs : pos'[p] \in 1 .. Len(Steps[Fn(p)'])
    BY <1>2, <1>3 DEF Fn
  <2> QED BY <2>1, <2>2 DEF Places
<1>5. Together'
  <2>1. \A p, q \in PEs : Advance(p) = Advance(q)
    BY <1>1, Alike DEF Advance, Step, Fn
  <2>2. \A p, q \in PEs : phase'[p] = phase'[q] /\ iter'[p] = iter'[q] /\ pos'[p] = pos'[q]
    BY <1>2, <2>1
  <2> QED BY <2>2 DEF Together, PassedSet, Fn
<1> QED BY <1>2, <1>4, <1>5

(* A PE is past all loops of the function when it waits at leave.           *)
LEMMA PastLoop ==
  ASSUME ControlInv, NEW p \in PEs, NEW l \in LoopNames,
         phase[p] = LoopPhase[l], Step(p) = "leave"
  PROVE  \E b \in 1 .. pos[p] - 1 : b > LoopPos[l] /\ Steps[Fn(p)][b] \in Barriers
<1> DEFINE h == LoopPhase[l]
           s == pos[p]
<1>1. s \in 1 .. Len(Steps[Phases[h]]) /\ Steps[Phases[h]][s] = "leave" /\ Fn(p) = Phases[h]
  BY Here, Near
<1>2. \A t \in 1 .. Len(Steps[Phases[h]]) :
        Steps[Phases[h]][t] = "leave" =>
          \E b \in 1 .. t - 1 : b > LoopPos[l] /\ Steps[Phases[h]][b] \in Barriers
  BY Loop
<1> HIDE DEF s
<1>3. \E b \in 1 .. s - 1 : b > LoopPos[l] /\ Steps[Phases[h]][b] \in Barriers
  BY <1>1, <1>2
<1> QED BY <1>1, <1>3 DEF s

(* At the barrier no PE is in a loop: behind it, none has begun the next.   *)
LEMMA BarrierShares ==
  ASSUME ClusterAssumption, ControlInv, Barrier
  PROVE  Shares'
<1> DEFINE N == ARCHI_CLUSTER_NB_PE
<1>1. \A p \in PEs : /\ phase'[p] = Advance(p).phase /\ iter'[p] = Advance(p).iter
                     /\ pos'[p] = Advance(p).pos /\ idx'[p] = p
  BY AllMove
<1>2. \A p \in PEs : InBarrier(p) /\ Step(p) \in Barriers
  BY DEF Barrier, InBarrier
<1>3. idx' \in [PEs -> Nat] /\ \A p \in PEs : idx'[p] % N = p
  <2>1. idx' = [p \in PEs |-> p]
    BY DEF Barrier, MoveOn
  <2>2. \A p \in PEs : p \in Nat /\ p % N = p
    BY Numbers, Small DEF PEs
  <2> QED BY <2>1, <2>2
<1>4. ASSUME NEW p \in PEs, Step(p)' = "between" PROVE iter'[p] = FOR_IN
  <2>1. Places'
    BY AllMove
  <2> DEFINE h == phase'[p]
             s == pos'[p]
  <2>2. h \in 1 .. 6 /\ s \in 1 .. Len(Steps[Phases[h]]) /\ s \in Nat
        /\ Steps[Phases[h]][s] = "between"
    BY <1>4, <2>1, Lengths DEF Places, Step, Fn
  <2> HIDE DEF h, s
  <2>3. s > 1 /\ Steps[Phases[h]][s - 1] = "leave"
    BY <2>2, Program
  <2>4. Advance(p).pos > 1 /\ Steps[Phases[Advance(p).phase]][Advance(p).pos - 1] = "leave"
    BY <1>1, <2>3 DEF h, s
  <2>5. /\ Step(p) = "leave" => iter[p] = FOR_IN
        /\ Advance(p) = [phase |-> phase[p], iter |-> iter[p], pos |-> pos[p] + 1]
    <3>1. Advance(p).pos # 1
      BY <2>4
    <3> QED BY <1>2, <3>1, Advanced
  <2>6. (pos[p] + 1) - 1 = pos[p]
    BY Here
  <2>7. Step(p) = "leave"
    BY <2>4, <2>5, <2>6, Here
  <2> QED BY <1>1, <2>5, <2>7
<1>5. ASSUME NEW q \in PEs, NEW l \in LoopNames, NEW c \in Cores, c % N = q
      PROVE  Counted(q, l, c)' = Counted(q, l, c)
  <2>1. LoopPhase[l] \in 2 .. 5 /\ LoopPos[l] \in Nat /\ LoopPos[l] > 1
    BY Loop
  <2>2. /\ phase[q] \in 1 .. 6 /\ iter[q] \in 1 .. FOR_IN /\ pos[q] \in Nat
        /\ pos[q] \in 1 .. Len(Steps[Fn(q)]) /\ Fn(q) = Phases[phase[q]]
        /\ Len(Steps[Fn(q)]) \in Nat
    BY Here, Near
  <2>3. idx'[q] = q /\ c \in Nat /\ q \in Nat /\ ~(c < q)
    <3>1. c \in Nat /\ N \in Nat \ {0} /\ q \in Nat
      BY Numbers
    <3>2. c = N * (c \div N) + (c % N) /\ c \div N \in Nat
      BY <3>1, Division
    <3>3. N * (c \div N) >= 0
      BY <3>1, <3>2
    <3> QED BY <1>1, <1>5, <3>1, <3>2, <3>3
  <2>4. phase[q] = LoopPhase[l] => pos[q] # LoopPos[l]
    <3>1. phase[q] = LoopPhase[l] /\ pos[q] = LoopPos[l] => Step(q) \in Loops
      BY <2>2, Here, Loop
    <3> QED BY <1>2, <3>1 DEF Loops, Barriers
  <2>5. CASE /\ Step(q) = "leave" /\ iter[q] < FOR_IN
             /\ Advance(q) = [phase |-> phase[q], iter |-> iter[q] + 1, pos |-> 1]
    <3>1. phase'[q] = phase[q] /\ iter'[q] = iter[q] + 1 /\ pos'[q] = 1
      BY <1>1, <2>5
    <3>2. phase[q] = LoopPhase[l] => pos[q] > LoopPos[l]
      BY <2>1, <2>2, <2>5, PastLoop
    <3>3. CASE phase[q] = LoopPhase[l]
      <4>1. Counted(q, l, c)' = iter[q]
        BY <2>1, <2>2, <3>1, <3>3 DEF Counted
      <4>2. Counted(q, l, c) = iter[q]
        BY <2>1, <2>2, <3>2, <3>3 DEF Counted
      <4> QED BY <4>1, <4>2
    <3>4. CASE phase[q] # LoopPhase[l]
      BY <2>1, <2>2, <3>1, <3>4 DEF Counted
    <3> QED BY <3>3, <3>4
  <2>6. CASE /\ pos[q] = Len(Steps[Fn(q)]) /\ phase[q] < 6
             /\ Advance(q) = [phase |-> phase[q] + 1, iter |-> 1, pos |-> 1]
    <3>1. phase'[q] = phase[q] + 1 /\ iter'[q] = 1 /\ pos'[q] = 1
      BY <1>1, <2>6
    <3>2. CASE phase[q] = LoopPhase[l]
      <4>1. Step(q) = "between" /\ LoopPos[l] < pos[q]
        BY <2>2, <2>6, <3>2, Loop, Here
      <4>2. iter[q] = FOR_IN
        BY <4>1 DEF ControlInv, Shares
      <4>3. Counted(q, l, c) = FOR_IN
        BY <2>1, <2>2, <3>2, <4>1, <4>2 DEF Counted
      <4>4. Counted(q, l, c)' = FOR_IN
        BY <2>1, <2>2, <3>1, <3>2 DEF Counted
      <4> QED BY <4>3, <4>4
    <3>3. CASE phase[q] < LoopPhase[l]
      <4>1. Counted(q, l, c) = 0
        BY <2>1, <2>2, <3>3 DEF Counted
      <4>2. Counted(q, l, c)' = 0
        BY <2>1, <2>2, <3>1, <3>3 DEF Counted
      <4> QED BY <4>1, <4>2
    <3>4. CASE phase[q] > LoopPhase[l]
      BY <2>1, <2>2, <3>1, <3>4 DEF Counted
    <3> QED BY <2>1, <2>2, <3>2, <3>3, <3>4
  <2>7. CASE /\ pos[q] < Len(Steps[Fn(q)])
             /\ Advance(q) = [phase |-> phase[q], iter |-> iter[q], pos |-> pos[q] + 1]
    <3>1. phase'[q] = phase[q] /\ iter'[q] = iter[q] /\ pos'[q] = pos[q] + 1
      BY <1>1, <2>7
    <3>2. CASE phase[q] = LoopPhase[l]
      <4>1. Counted(q, l, c) = IF pos[q] > LoopPos[l] THEN iter[q] ELSE iter[q] - 1
        BY <2>1, <2>2, <2>4, <3>2 DEF Counted
      <4>2. Counted(q, l, c)' = IF pos[q] + 1 > LoopPos[l] THEN iter[q] ELSE iter[q] - 1
        BY <2>1, <2>2, <2>3, <3>1, <3>2 DEF Counted
      <4> QED BY <2>1, <2>2, <2>4, <3>2, <4>1, <4>2
    <3>3. CASE phase[q] # LoopPhase[l]
      BY <2>1, <2>2, <3>1, <3>3 DEF Counted
    <3> QED BY <3>2, <3>3
  <2> QED BY <1>2, <2>5, <2>6, <2>7, Advanced
<1>6. \A l \in LoopNames, c \in Cores : Counted(c % N, l, c)' = Counted(c % N, l, c)
  BY <1>5, Numbers
<1>7. handled' = handled
  BY DEF Barrier
<1> QED BY <1>3, <1>4, <1>6, <1>7 DEF ControlInv, Shares

(* Where an iteration is, and what it counts.                               *)
LEMMA WorkHere ==
  ASSUME ClusterAssumption, ControlInv, NEW p \in PEs, Work(p)
  PROVE  /\ LoopOf(p) \in LoopNames
         /\ LoopPhase[LoopOf(p)] = phase[p] /\ LoopPos[LoopOf(p)] = pos[p]
         /\ idx[p] \in Cores /\ idx[p] % ARCHI_CLUSTER_NB_PE = p
         /\ phase' = phase /\ iter' = iter /\ pos' = pos
         /\ handled' = [handled EXCEPT ![LoopOf(p)][idx[p]] = @ + 1]
         /\ \A l \in LoopNames, c \in Cores :
              handled'[l][c] = IF l = LoopOf(p) /\ c = idx[p] THEN handled[l][c] + 1
                                                             ELSE handled[l][c]
<1> DEFINE N == ARCHI_CLUSTER_NB_PE
           k == LoopOf(p)
           d == idx[p]
<1>1. /\ phase' = phase /\ iter' = iter /\ pos' = pos /\ Step(p) \in Loops
      /\ handled' = [handled EXCEPT ![k][d] = @ + 1]
  BY DEF Work
<1>2. N \in Nat \ {0} /\ p \in Nat /\ d \in Nat /\ d % N = p
  BY Here, Numbers
<1>3. d \in Cores
  BY <1>2, EndIs DEF Work, Cores, ClusterAssumption
<1>4. k \in LoopNames /\ LoopPhase[k] = phase[p] /\ LoopPos[k] = pos[p]
  <2> DEFINE h == phase[p]
             s == pos[p]
  <2>1. /\ h \in 1 .. 6 /\ s \in 1 .. Len(Steps[Phases[h]]) /\ Steps[Phases[h]][s] \in Loops
        /\ k = IF Steps[Phases[h]][s] = "work" THEN Phases[h] ELSE Steps[Phases[h]][s]
    BY <1>1, Here, Near DEF LoopOf
  <2> HIDE DEF h, s, k
  <2>2. k \in LoopNames /\ LoopPhase[k] = h /\ LoopPos[k] = s
    BY <2>1, LoopHere
  <2> QED BY <2>2 DEF h, s
<1>5. ASSUME NEW l \in LoopNames, NEW c \in Cores
      PROVE  handled'[l][c] = IF l = k /\ c = d THEN handled[l][c] + 1 ELSE handled[l][c]
  BY <1>1, <1>3, <1>4 DEF ControlInv, Shares, Sums
<1> QED BY <1>1, <1>2, <1>3, <1>4, <1>5

(* One iteration counts for its loop and its core, and nothing else.        *)
LEMMA WorkShares ==
  ASSUME ClusterAssumption, ControlInv, NEW p \in PEs, Work(p)
  PROVE  Shares'
<1> DEFINE N == ARCHI_CLUSTER_NB_PE
           k == LoopOf(p)
           d == idx[p]
<1>1. /\ phase' = phase /\ iter' = iter /\ pos' = pos
      /\ handled' = [handled EXCEPT ![k][d] = @ + 1] /\ idx' = [idx EXCEPT ![p] = @ + N]
  BY DEF Work
<1>2. N \in Nat \ {0} /\ p \in Nat /\ d \in Nat /\ d % N = p
  BY Here, Numbers
<1>3. d \in Cores
  BY WorkHere
<1>4. k \in LoopNames /\ LoopPhase[k] = phase[p] /\ LoopPos[k] = pos[p]
  BY WorkHere
<1>5. idx' \in [PEs -> Nat] /\ \A q \in PEs : idx'[q] % N = q
  <2>1. (d + N) % N = p /\ d + N \in Nat
    <3> DEFINE e == d + N
    <3>1. e \in Nat /\ e = d + N
      BY <1>2
    <3> HIDE DEF N, d, e
    <3>2. e % N = d % N
      BY <1>2, <3>1, Congruent
    <3> QED BY <1>2, <3>1, <3>2 DEF e
  <2> HIDE DEF N
  <2>2. \A q \in PEs : idx'[q] = IF q = p THEN d + N ELSE idx[q]
    BY <1>1 DEF ControlInv, Shares
  <2>3. idx' \in [PEs -> Nat]
    BY <1>1, <2>1 DEF ControlInv, Shares
  <2>4. \A q \in PEs : idx[q] % N = q
    BY DEF ControlInv, Shares, N
  <2> QED BY <2>1, <2>2, <2>3, <2>4
<1>6. \A q \in PEs : Step(q)' = "between" => iter'[q] = FOR_IN
  BY <1>1 DEF ControlInv, Shares, Step, Fn
<1>7. handled' \in [LoopNames -> Sums]
  BY <1>1, <1>3, <1>4 DEF ControlInv, Shares, Sums
<1>8. \A l \in LoopNames, c \in Cores :
        handled'[l][c] = IF l = k /\ c = d THEN handled[l][c] + 1 ELSE handled[l][c]
  BY WorkHere
<1>9. ASSUME NEW q \in PEs, NEW l \in LoopNames, NEW c \in Cores, c % N = q
      PROVE  Counted(q, l, c)' = IF l = k /\ c = d THEN Counted(q, l, c) + 1
                                                  ELSE Counted(q, l, c)
  <2>1. /\ phase'[q] = phase[q] /\ iter'[q] = iter[q] /\ pos'[q] = pos[q]
        /\ idx'[q] = (IF q = p THEN d + N ELSE idx[q])
    BY <1>1 DEF ControlInv, Shares
  <2>2. LoopPhase[l] \in 2 .. 5 /\ LoopPos[l] \in Nat /\ phase[q] \in 1 .. 6
        /\ pos[q] \in Nat /\ iter[q] \in 1 .. FOR_IN /\ c \in Nat
    BY Loop, Here, Numbers
  <2>3. CASE q # p
    <3>1. c # d
      BY <1>2, <1>9, <2>3
    <3>2. Counted(q, l, c)' = Counted(q, l, c)
      BY <2>1, <2>2, <2>3 DEF Counted
    <3> QED BY <3>1, <3>2
  <2>4. CASE q = p /\ l # k
    <3>1. ~(phase[p] = LoopPhase[l] /\ pos[p] = LoopPos[l])
      <4>1. phase[p] = LoopPhase[l] /\ pos[p] = LoopPos[l] => LoopOf(p) = l
        BY Loop, Here, Near DEF LoopOf
      <4> QED BY <2>4, <4>1
    <3>2. Counted(q, l, c)' = Counted(q, l, c)
      BY <2>1, <2>2, <2>4, <3>1 DEF Counted
    <3> QED BY <2>4, <3>2
  <2>5. CASE q = p /\ l = k
    <3>1. phase[q] = LoopPhase[l] /\ pos[q] = LoopPos[l] /\ idx'[q] = d + N
      BY <1>4, <2>1, <2>5
    <3>2. Counted(q, l, c) = IF c < d THEN iter[q] ELSE iter[q] - 1
      BY <2>2, <2>5, <3>1 DEF Counted
    <3>3. Counted(q, l, c)' = IF c < d + N THEN iter[q] ELSE iter[q] - 1
      BY <2>1, <2>2, <2>5, <3>1 DEF Counted
    <3>4. c < d + N <=> c < d \/ c = d
      <4>1. d < c => d + N <= c
        BY <1>2, <1>9, <2>2, <2>5, Apart
      <4> QED BY <1>2, <2>2, <4>1
    <3> QED BY <1>2, <2>2, <2>5, <3>2, <3>3, <3>4
  <2> QED BY <2>3, <2>4, <2>5
<1>10. ASSUME NEW l \in LoopNames, NEW c \in Cores
       PROVE  handled'[l][c] = Counted(c % N, l, c)'
  <2>1. handled[l][c] = Counted(c % N, l, c) /\ c % N \in PEs
    BY Numbers DEF ControlInv, Shares
  <2> QED BY <1>8, <1>9, <2>1
<1> QED BY <1>5, <1>6, <1>7, <1>10 DEF Shares

(* What moves no PE and handles no core disturbs nothing of it.             *)
LEMMA NoneMoves ==
  ASSUME ControlInv, UNCHANGED <<phase, iter, pos>> PROVE Places' /\ Together'
BY DEF ControlInv, Places, Together, PassedSet, Fn

LEMMA NoneWorks ==
  ASSUME ControlInv, UNCHANGED <<phase, iter, pos, idx, handled>> PROVE Shares'
<1>1. ASSUME NEW q, NEW l \in LoopNames, NEW c \in Cores
      PROVE  Counted(q, l, c)' = Counted(q, l, c)
  BY DEF Counted
<1>2. \A p \in PEs : Step(p)' = Step(p)
  BY DEF Step, Fn
<1> QED BY <1>1, <1>2 DEF ControlInv, Shares

LEMMA StepOK ==
  ASSUME ClusterAssumption, ControlInv, [ControlNext]_controlVars PROVE ControlInv'
<1>1. CASE UNCHANGED controlVars
  <2>1. UNCHANGED <<phase, iter, pos, idx, handled, fc, stacks, cluster_running>>
    BY <1>1 DEF controlVars, place
  <2>2. Flag'
    BY <2>1 DEF ControlInv, Flag, Step, Fn
  <2> QED BY <2>1, <2>2, NoneMoves, NoneWorks DEF ControlInv
<1>2. CASE cluster_start \/ cluster_wait
  <2>1. UNCHANGED <<phase, iter, pos, idx, handled>>
    BY <1>2 DEF cluster_start, cluster_wait, place
  <2>3. Flag'
    BY <1>2, <2>1 DEF ControlInv, Flag, cluster_start, cluster_wait, Step, Fn
  <2> QED BY <2>1, <2>3, NoneMoves, NoneWorks DEF ControlInv
<1>3. CASE Barrier
  <2>1. Step(0) # "stopped"
    BY <1>3, Numbers DEF Barrier, InBarrier, Barriers
  <2>2. Flag'
    BY <1>3, <2>1 DEF ControlInv, Flag, Barrier
  <2> QED BY <1>3, <2>2, AllMove, BarrierShares DEF ControlInv
<1>4. ASSUME NEW p \in PEs, PE(p) PROVE ControlInv'
  <2>1. CASE Work(p)
    <3>1. UNCHANGED <<stacks, fc, cluster_running, phase, iter, pos>>
      BY <2>1 DEF Work
    <3>2. Flag'
      BY <3>1 DEF ControlInv, Flag, Step, Fn
    <3> QED BY <2>1, <3>1, <3>2, NoneMoves, WorkShares DEF ControlInv
  <2>2. CASE Boot(p) \/ LoopDone(p) \/ Reduce(p) \/ Stub(p)
    <3>1. /\ Step(p) \notin Barriers \union {"stopped"} /\ MoveOn({p}) /\ handled' = handled
          /\ Step(p) \in Loops => idx[p] >= l_num_core
          /\ stacks' = stacks /\ fc' = fc
      BY <2>2, EndIs DEF Boot, LoopDone, Reduce, Stub, Barriers, Loops
    <3>2. Places' /\ Together' /\ Shares'
      BY <3>1, OneMoves, OneShares
    <3>3. Flag'
      <4>1. phase' = phase /\ pos' = [pos EXCEPT ![p] = @ + 1] /\ pos \in [PEs -> Nat]
        BY <3>1, Moved DEF ControlInv, Places
      <4>2. CASE Stub(p) /\ p = 0
        <5>1. Step(p)' = "stopped"
          <6>1. phase[p] = 6 /\ pos[p] = Len(Steps[Phases[6]]) - 1
            BY <4>2, Near DEF Stub
          <6>2. pos[p] + 1 = 3
            BY <6>1, Lengths
          <6>3. Step(p)' = Steps[Phases[6]][3]
            BY <4>1, <6>1, <6>2 DEF Step, Fn
          <6> QED BY <6>3, Text
        <5> QED BY <3>1, <4>2, <5>1 DEF ControlInv, Flag, Stub
      <4>3. CASE ~(Stub(p) /\ p = 0)
        <5>1. cluster_running' = cluster_running
          BY <2>2, <4>3 DEF Boot, LoopDone, Reduce, Stub
        <5>2. Step(0) = "stopped" => p # 0
          BY <3>1
        <5>3. p # 0 => Step(0)' = Step(0)
          BY <4>1, Numbers DEF Step, Fn
        <5> QED BY <3>1, <5>1, <5>2, <5>3 DEF ControlInv, Flag
      <4> QED BY <4>2, <4>3
    <3> QED BY <3>2, <3>3 DEF ControlInv
  <2> QED BY <1>4, <2>1, <2>2 DEF PE
<1> QED BY <1>1, <1>2, <1>3, <1>4 DEF ControlNext

-----------------------------------------------------------------------------
(* The inductive invariant holds.                                           *)
THEOREM Inductive == ASSUME ClusterAssumption PROVE ControlSpec => []ControlInv
<1>1. ControlInit => ControlInv
  BY InitOK
<1>2. ControlInv /\ [ControlNext]_controlVars => ControlInv'
  BY StepOK
<1> QED BY <1>1, <1>2, PTL DEF ControlSpec

(* All PEs are between the same two barriers of the program: no PE is still *)
(* in a loop whose sums PE 0 already adds up, or already in the next call.  *)
THEOREM InStep == ASSUME ClusterAssumption PROVE ControlSpec => []Lockstep
<1>1. ControlInv => Lockstep
  BY DEF ControlInv, Together, Lockstep, Passed
<1> QED BY <1>1, Inductive, PTL

(* When a call of a function is over, each of its loops has handled each    *)
(* core once more, however many cores are left over for the last round.     *)
THEOREM EachCoreOnce == ASSUME ClusterAssumption PROVE ControlSpec => []HandledOnce
<1>1. ASSUME ControlInv, NEW p \in PEs, Step(p) = "leave",
             NEW l \in LoopsOf(Fn(p)), NEW c \in Cores
      PROVE  handled[l][c] = iter[p]
  <2> DEFINE q == c % ARCHI_CLUSTER_NB_PE
  <2>1. q \in PEs
    BY Numbers
  <2>2. l \in LoopNames /\ phase[p] = LoopPhase[l]
    <3>1. phase[p] \in 2 .. 5 /\ Fn(p) = Phases[phase[p]]
      BY <1>1, Near
    <3>2. CASE phase[p] = 3
      BY <1>1, <3>1, <3>2, Text DEF LoopsOf, LoopNames, LoopPhase
    <3>3. CASE phase[p] = 2
      BY <1>1, <3>1, <3>3, Text DEF LoopsOf, LoopNames, LoopPhase
    <3>4. CASE phase[p] = 4
      BY <1>1, <3>1, <3>4, Text DEF LoopsOf, LoopNames, LoopPhase
    <3>5. CASE phase[p] = 5
      BY <1>1, <3>1, <3>5, Text DEF LoopsOf, LoopNames, LoopPhase
    <3> QED BY <3>1, <3>2, <3>3, <3>4, <3>5
  <2>3. PICK b \in 1 .. pos[p] - 1 : b > LoopPos[l] /\ Steps[Fn(p)][b] \in Barriers
    BY <1>1, <2>2, PastLoop
  <2> HIDE DEF q
  <2>4. phase[q] = phase[p] /\ iter[q] = iter[p] /\ PassedSet(q) = PassedSet(p)
    BY <1>1, <2>1 DEF ControlInv, Together
  <2>5. b \in 1 .. pos[q] - 1
    BY <2>3, <2>4 DEF PassedSet
  <2>6. pos[q] > LoopPos[l] /\ pos[q] \in Nat /\ LoopPos[l] \in Nat /\ LoopPhase[l] \in 2 .. 5
    BY <1>1, <2>1, <2>2, <2>3, <2>5, Here, Loop
  <2>7. Counted(q, l, c) = iter[q]
    BY <2>2, <2>4, <2>6 DEF Counted
  <2>8. handled[l][c] = Counted(q, l, c)
    BY <1>1, <2>2 DEF ControlInv, Shares, q
  <2> QED BY <2>4, <2>7, <2>8
<1>2. ControlInv => HandledOnce
  BY <1>1 DEF HandledOnce
<1> QED BY <1>2, Inductive, PTL

(* When the FC sees the cluster finished, every PE is past its last loop    *)
(* and every frequency is computed, although the FC waits for PE 0 alone.   *)
THEOREM Complete == ASSUME ClusterAssumption PROVE ControlSpec => []ResultsComplete
<1>1. ASSUME ControlInv, fc = "done", stacks
      PROVE  (\A p \in PEs : Fn(p) = "end") /\ (\A c \in Cores : handled["freq"][c] = FOR_IN)
  <2>1. Step(0) = "stopped"
    BY <1>1 DEF ControlInv, Flag
  <2>2. phase[0] = 6
    BY <1>1, <2>1, Near, Numbers
  <2>3. \A p \in PEs : phase[p] = 6
    BY <1>1, <2>2, Numbers DEF ControlInv, Together
  <2>4. \A p \in PEs : Fn(p) = "end"
    BY <2>3, Text DEF Fn
  <2>5. "freq" \in LoopNames /\ LoopPhase["freq"] = 5
    BY DEF LoopNames, LoopPhase
  <2>6. ASSUME NEW c \in Cores PROVE handled["freq"][c] = FOR_IN
    <3>1. phase[c % ARCHI_CLUSTER_NB_PE] = 6
      BY <2>3, Numbers
    <3>2. Counted(c % ARCHI_CLUSTER_NB_PE, "freq", c) = FOR_IN
      BY <2>5, <3>1 DEF Counted
    <3> QED BY <1>1, <2>5, <3>2 DEF ControlInv, Shares
  <2> QED BY <2>4, <2>6
<1>2. ControlInv => ResultsComplete
  BY <1>1 DEF ResultsComplete
<1> QED BY <1>2, Inductive, PTL
-----------------------------------------------------------------------------
(* Induction over the natural numbers, as a fact about sets.                *)
Below == {ss \in Nat \X Nat : ss[1] < ss[2]}

LEMMA BelowWF == IsWellFoundedOn(Below, Nat)
<1>1. OpToRel(<, Nat) = Below
  BY DEF OpToRel, Below
<1> QED BY <1>1, NatLessThanWellFounded

LEMMA Least ==
  ASSUME NEW T \in SUBSET Nat, T # {}
  PROVE  \E x \in T : \A y \in T : x <= y
<1>1. PICK x \in T : \A y \in T : <<y, x>> \notin Below
  BY BelowWF, WFMin
<1>2. \A y \in T : ~(y < x)
  <2> SUFFICES ASSUME NEW y \in T, y < x PROVE FALSE
    OBVIOUS
  <2>1. <<y, x>> \in Nat \X Nat /\ <<y, x>>[1] = y /\ <<y, x>>[2] = x
    OBVIOUS
  <2>2. <<y, x>> \in Below
    BY <2>1 DEF Below
  <2> QED BY <1>1, <2>2
<1> QED BY <1>1, <1>2

LEMMA SetInduction ==
  ASSUME NEW S, 0 \in S, \A n \in Nat : n \in S => n + 1 \in S
  PROVE  Nat \subseteq S
<1> SUFFICES ASSUME Nat \ S # {} PROVE FALSE
  OBVIOUS
<1>1. PICK x \in Nat \ S : \A y \in Nat \ S : x <= y
  BY Least
<1>2. x - 1 \in Nat /\ x - 1 \in S
  BY <1>1
<1> QED BY <1>1, <1>2

(* A sum of numbers of which at most one is not 0.                          *)
LEMMA SumIs ==
  ASSUME NEW D, NEW sum \in [D -> Sums], NEW first \in Nat, NEW last \in Nat, first <= last,
         first .. last \subseteq D, NEW c \in Cores, NEW r \in Nat,
         \A i \in first .. last : i # r => sum[i][c] = 0
  PROVE  SumOver(sum, first, last)[c] = IF r \in first .. last THEN sum[r][c] ELSE 0
<1> DEFINE I == first - 1 .. last
           Rec(f) == [i \in I |-> IF i < first THEN 0 ELSE f[i - 1] + sum[i][c]]
           g == [i \in I |-> IF i >= first /\ r \in first .. i THEN sum[r][c] ELSE 0]
           f == CHOOSE h : h = Rec(h)
<1>1. g = Rec(g)
  <2> SUFFICES ASSUME NEW i \in I PROVE g[i] = Rec(g)[i]
    BY Zenon
  <2>1. CASE i < first
    BY <2>1
  <2>2. CASE i >= first
    <3>1. i - 1 \in I /\ i \in first .. last /\ sum[i][c] \in Nat
      BY <2>2 DEF Sums
    <3>2. Rec(g)[i] = g[i - 1] + sum[i][c]
      BY <2>2
    <3>3. CASE i = r
      BY <2>2, <3>1, <3>2, <3>3
    <3>4. CASE i # r
      <4>1. sum[i][c] = 0
        BY <3>1, <3>4
      <4>2. g[i - 1] = g[i]
        BY <2>2, <3>1, <3>4
      <4>3. g[i] \in Nat
        BY <2>2, <3>1 DEF Sums
      <4> QED BY <3>2, <4>1, <4>2, <4>3
    <3> QED BY <3>3, <3>4
  <2> QED BY <2>1, <2>2
<1>2. f = Rec(f)
  <2> HIDE DEF g
  <2> QED BY <1>1
<1>3. SumOver(sum, first, last)[c] = f[last]
  BY DEF SumOver
<1> HIDE DEF f, g
<1> DEFINE S == {n \in Nat : first - 1 + n <= last => f[first - 1 + n] = g[first - 1 + n]}
<1>4. 0 \in S
  <2>1. first - 1 + 0 \in I /\ first - 1 + 0 < first
    OBVIOUS
  <2>2. f[first - 1 + 0] = 0
    BY <1>2, <2>1
  <2>3. g[first - 1 + 0] = 0
    BY <2>1 DEF g
  <2> QED BY <2>2, <2>3
<1>5. ASSUME NEW n \in Nat, n \in S PROVE n + 1 \in S
  <2> SUFFICES ASSUME first - 1 + (n + 1) <= last
               PROVE  f[first - 1 + (n + 1)] = g[first - 1 + (n + 1)]
    OBVIOUS
  <2> DEFINE i == first - 1 + (n + 1)
  <2>1. i \in I /\ ~(i < first) /\ i - 1 = first - 1 + n /\ i - 1 <= last
    OBVIOUS
  <2> HIDE DEF i
  <2>2. f[i - 1] = g[i - 1]
    BY <1>5, <2>1
  <2>3. f[i] = f[i - 1] + sum[i][c]
    BY <1>2, <2>1
  <2>4. g[i] = g[i - 1] + sum[i][c]
    <3>1. g[i] = Rec(g)[i]
      BY <1>1
    <3> QED BY <2>1, <3>1
  <2>5. f[i] = g[i]
    BY <2>2, <2>3, <2>4
  <2> QED BY <2>5 DEF i
<1>6. Nat \subseteq S
  <2> HIDE DEF S
  <2> QED BY <1>4, <1>5, SetInduction
<1>7. f[last] = g[last]
  <2>1. last - first + 1 \in Nat /\ first - 1 + (last - first + 1) = last
    OBVIOUS
  <2>2. last - first + 1 \in S
    BY <1>6, <2>1
  <2>3. first - 1 + (last - first + 1) <= last =>
          f[first - 1 + (last - first + 1)] = g[first - 1 + (last - first + 1)]
    BY <2>2
  <2> QED BY <2>1, <2>3
<1>8. last \in I /\ last >= first
  OBVIOUS
<1> QED BY <1>3, <1>7, <1>8 DEF g

-----------------------------------------------------------------------------
(* What the partial sums hold.                                              *)

(* No PE is past a barrier that another has not reached.                    *)
LEMMA NotPast ==
  ASSUME ControlInv, NEW p \in PEs, NEW q \in PEs, NEW b \in 1 .. Len(Steps[Fn(p)]),
         Steps[Fn(p)][b] \in Barriers, pos[p] <= b
  PROVE  pos[q] <= b
<1> SUFFICES ASSUME pos[q] > b PROVE FALSE
  BY Here
<1>1. PassedSet(p) = PassedSet(q) /\ Fn(p) = Fn(q)
  BY DEF ControlInv, Together, Fn
<1>2. pos[p] \in Nat /\ pos[q] \in Nat /\ b \in Nat
  BY Here
<1>3. b \in PassedSet(q)
  BY <1>1, <1>2 DEF PassedSet
<1>4. b \notin PassedSet(p)
  BY <1>2 DEF PassedSet
<1> QED BY <1>1, <1>3, <1>4

(* How far apart the PEs can be in power_comp and in alpha_comp: a reduction *)
(* is in neither of the loops before it.                                     *)
LEMMA Distance ==
  ASSUME ControlInv, NEW p \in PEs, NEW q \in PEs
  PROVE  /\ phase[p] = phase[q] /\ iter[p] = iter[q]
         /\ phase[p] \in {2, 3} /\ pos[p] <= 3 => pos[q] <= 3
         /\ phase[p] = 3 /\ pos[p] <= 5 => pos[q] <= 5
<1>1. phase[p] = phase[q] /\ iter[p] = iter[q]
  BY DEF ControlInv, Together
<1>2. CASE phase[p] = 2
  <2>1. 3 \in 1 .. Len(Steps[Fn(p)]) /\ Steps[Fn(p)][3] \in Barriers
    BY <1>2, Text, Lengths DEF Fn, Barriers
  <2> QED BY <1>1, <1>2, <2>1, NotPast
<1>3. CASE phase[p] = 3
  <2>1. 3 \in 1 .. Len(Steps[Fn(p)]) /\ Steps[Fn(p)][3] \in Barriers
        /\ 5 \in 1 .. Len(Steps[Fn(p)]) /\ Steps[Fn(p)][5] \in Barriers
    BY <1>3, Text, Lengths DEF Fn, Barriers
  <2> QED BY <1>1, <1>3, <2>1, NotPast
<1> QED BY <1>1, <1>2, <1>3

(* Where the reductions are.                                                 *)
LEMMA Reductions ==
  ASSUME ControlInv, NEW p \in PEs
  PROVE  /\ Step(p) = "reduce" =>
              \/ phase[p] = 2 /\ pos[p] = 4
              \/ phase[p] = 3 /\ pos[p] = 4
              \/ phase[p] = 3 /\ pos[p] = 9
         /\ phase[p] \in {2, 3} /\ pos[p] = 4 => Step(p) = "reduce"
         /\ Fn(p) = "power" <=> phase[p] = 2
<1>1. phase[p] \in 1 .. 6 /\ pos[p] \in 1 .. Len(Steps[Phases[phase[p]]])
      /\ Step(p) = Steps[Phases[phase[p]]][pos[p]] /\ Fn(p) = Phases[phase[p]]
  BY Here DEF Fn
<1>2. CASE phase[p] = 1
  BY <1>1, <1>2, Text
<1>3. CASE phase[p] = 2
  BY <1>1, <1>3, Text
<1>4. CASE phase[p] = 3
  BY <1>1, <1>4, Text
<1>5. CASE phase[p] = 4
  BY <1>1, <1>5, Text
<1>6. CASE phase[p] = 5
  BY <1>1, <1>6, Text
<1>7. CASE phase[p] = 6
  BY <1>1, <1>7, Text
<1> QED BY <1>1, <1>2, <1>3, <1>4, <1>5, <1>6, <1>7

(* A PE past a loop has handled its cores in this call; one that has not     *)
(* come to it has not.                                                       *)
LEMMA WhenDone ==
  ASSUME ControlInv, ClusterAssumption, NEW l \in LoopNames, NEW c \in Cores,
         NEW q \in PEs, q = c % ARCHI_CLUSTER_NB_PE
  PROVE  /\ phase[q] = LoopPhase[l] /\ pos[q] > LoopPos[l] => Done(q, l, c)
         /\ Done(q, l, c) => phase[q] = LoopPhase[l] /\ pos[q] >= LoopPos[l]
         /\ Done(q, l, c) /\ pos[q] = LoopPos[l] => c < idx[q]
         /\ phase[q] = LoopPhase[l] /\ pos[q] = LoopPos[l] /\ c < idx[q] => Done(q, l, c)
         /\ handled[l][c] \in Nat
         /\ phase[q] = LoopPhase[l] => handled[l][c] \in {iter[q] - 1, iter[q]}
         /\ phase[q] < LoopPhase[l] => handled[l][c] = 0
<1>1. handled[l][c] = Counted(q, l, c)
  BY DEF ControlInv, Shares
<1>2. LoopPhase[l] \in 2 .. 5 /\ LoopPos[l] \in Nat
  BY Loop
<1>3. /\ phase[q] \in 1 .. 6 /\ iter[q] \in 1 .. FOR_IN /\ pos[q] \in Nat
      /\ idx[q] \in Nat /\ c \in Nat
  BY Here, Numbers
<1>4. iter[q] # iter[q] - 1 /\ iter[q] - 1 \in Nat
  BY <1>3
<1>5. CASE phase[q] = LoopPhase[l]
  <2>1. Counted(q, l, c) = IF pos[q] > LoopPos[l] \/ (pos[q] = LoopPos[l] /\ c < idx[q])
                             THEN iter[q] ELSE iter[q] - 1
    BY <1>2, <1>5 DEF Counted
  <2> QED BY <1>1, <1>2, <1>3, <1>4, <1>5, <2>1 DEF Done
<1>6. CASE phase[q] < LoopPhase[l]
  <2>1. Counted(q, l, c) = 0
    BY <1>2, <1>3, <1>6 DEF Counted
  <2> QED BY <1>1, <1>2, <1>3, <1>6, <2>1 DEF Done
<1>7. CASE phase[q] > LoopPhase[l]
  <2>1. Counted(q, l, c) = FOR_IN
    BY <1>2, <1>3, <1>7 DEF Counted
  <2> QED BY <1>1, <1>2, <1>3, <1>7, <2>1, Numbers DEF Done
<1> QED BY <1>2, <1>3, <1>5, <1>6, <1>7

LEMMA TwoLoops ==
  /\ {"power", "alpha", "normalise"} \subseteq LoopNames
  /\ LoopPhase["power"] = 2 /\ LoopPhase["alpha"] = 3 /\ LoopPhase["normalise"] = 3
  /\ LoopPos["power"] = 2 /\ LoopPos["alpha"] = 2 /\ LoopPos["normalise"] = 6
BY DEF LoopNames, LoopPhase, LoopPos

LEMMA SumsInit == ASSUME ClusterAssumption PROVE ControlInit => SumsInv
<1> SUFFICES ASSUME ControlInit PROVE SumsInv
  OBVIOUS
<1>1. /\ total_power \in [PEs -> Sums] /\ TotalAlpha \in [PEs -> Sums]
      /\ divisor \in [Cores -> Sums]
      /\ \A p \in PEs, c \in Cores : total_power[p][c] = 0 /\ TotalAlpha[p][c] = 0
  BY DEF ControlInit, Zero, Sums
<1>2. \A p \in PEs : phase[p] = 1
  BY DEF ControlInit
<1>3. \A p \in PEs, c \in Cores : ~Done(p, "power", c) /\ ~Done(p, "alpha", c)
                                  /\ ~Done(p, "normalise", c)
  BY <1>2, TwoLoops DEF Done
<1>4. 1 .. ARCHI_CLUSTER_NB_PE - 2 \subseteq PEs
  BY DEF PEs, ClusterAssumption
<1>5. \A p \in PEs, c \in Cores : Pending(p, "power", c) = 0 /\ Pending(p, "alpha", c) = 0
  BY <1>3 DEF Pending
<1>6. phase[0] = 1 /\ \A c \in Cores : ~Done(c % ARCHI_CLUSTER_NB_PE, "normalise", c)
  BY <1>2, <1>3, Numbers
<1> QED BY <1>1, <1>4, <1>5, <1>6 DEF SumsInv

(* While no sum and no loop changes, it is enough that PE 0 does not pass    *)
(* its reductions.                                                           *)
LEMMA SumsKept ==
  ASSUME ControlInv, SumsInv, UNCHANGED <<handled, phase, iter>>,
         UNCHANGED <<total_power, estimated_total_power, TotalAlpha, divisor>>,
         pos'[0] > 4 <=> pos[0] > 4, pos'[0] <= 4 <=> pos[0] <= 4
  PROVE  SumsInv'
<1>1. ASSUME NEW q, NEW l, NEW c
      PROVE  Done(q, l, c)' = Done(q, l, c) /\ Pending(q, l, c)' = Pending(q, l, c)
  BY DEF Done, Pending
<1>2. UNCHANGED <<total_power, estimated_total_power, TotalAlpha, divisor>>
  OBVIOUS
<1>3. (phase[0] = 2 /\ pos[0] > 4 <=> (phase[0] = 2 /\ pos[0] > 4)')
      /\ (phase[0] = 3 /\ pos[0] > 4 <=> (phase[0] = 3 /\ pos[0] > 4)')
  OBVIOUS
<1>4. \A p \in 1 .. ARCHI_CLUSTER_NB_PE - 2, c \in Cores :
        total_power'[p][c] = Pending(p, "power", c)'
  BY <1>1, <1>2 DEF SumsInv
<1>5. \A p \in PEs \ {0}, c \in Cores : TotalAlpha'[p][c] = Pending(p, "alpha", c)'
  BY <1>1, <1>2 DEF SumsInv
<1>6. \A c \in Cores : Done(c % ARCHI_CLUSTER_NB_PE, "normalise", c)' =>
        divisor'[c] = ServedBy(PEs \ {0})
  <2> SUFFICES ASSUME NEW c \in Cores, Done(c % ARCHI_CLUSTER_NB_PE, "normalise", c)'
               PROVE  divisor'[c] = ServedBy(PEs \ {0})
    OBVIOUS
  <2>1. Done(c % ARCHI_CLUSTER_NB_PE, "normalise", c)
    BY DEF Done
  <2> QED BY <1>2, <2>1 DEF SumsInv
<1> QED BY <1>2, <1>3, <1>4, <1>5, <1>6 DEF SumsInv, ServedBy

LEMMA SumsAlone ==
  ASSUME ClusterAssumption, ControlInv, SumsInv, NEW p \in PEs,
         Step(p) \notin Barriers \union {"stopped"}, MoveOn({p}),
         UNCHANGED <<sums, handled>>, Step(p) = "reduce" => p # 0
  PROVE  SumsInv'
<1>1. phase' = phase /\ iter' = iter /\ pos' = [pos EXCEPT ![p] = @ + 1]
      /\ pos \in [PEs -> Nat] /\ 0 \in PEs
  BY Moved, Numbers DEF ControlInv, Places
<1>2. CASE p # 0 \/ pos[0] # 4
  <2>1. (pos'[0] > 4 <=> pos[0] > 4) /\ (pos'[0] <= 4 <=> pos[0] <= 4)
    BY <1>1, <1>2
  <2> QED BY <1>1, <2>1, SumsKept DEF sums
<1>3. CASE p = 0 /\ pos[0] = 4
  <2>1. phase[0] \notin {2, 3}
    BY <1>1, <1>3, Reductions
  <2>2. \A q \in PEs : phase[q] \notin {2, 3}
    BY <1>1, <2>1, Distance
  <2>3. ASSUME NEW q \in PEs, NEW c \in Cores, NEW l \in {"power", "alpha", "normalise"}
        PROVE  ~Done(q, l, c) /\ ~Done(q, l, c)' /\ Pending(q, l, c)' = Pending(q, l, c)
    <3>1. LoopPhase[l] \in {2, 3}
      BY TwoLoops
    <3> QED BY <1>1, <2>2, <3>1 DEF Done, Pending
  <2>4. UNCHANGED <<total_power, estimated_total_power, TotalAlpha, divisor>>
    BY DEF sums
  <2>5. 1 .. ARCHI_CLUSTER_NB_PE - 2 \subseteq PEs
    BY DEF PEs, ClusterAssumption
  <2>6. \A c \in Cores : ~Done(c % ARCHI_CLUSTER_NB_PE, "normalise", c)'
    BY <2>3, Numbers
  <2>7. phase'[0] \notin {2, 3}
    BY <1>1, <2>1
  <2> QED BY <2>3, <2>4, <2>5, <2>6, <2>7 DEF SumsInv
<1> QED BY <1>2, <1>3

(* The barrier takes all PEs into the next call at once, in which nothing is *)
(* done yet.                                                                 *)
LEMMA BarrierDone ==
  ASSUME ClusterAssumption, ControlInv, Barrier, NEW c \in Cores,
         NEW q \in PEs, q = c % ARCHI_CLUSTER_NB_PE,
         NEW l \in {"power", "alpha", "normalise"}
  PROVE  /\ Done(q, l, c)' => Done(q, l, c)
         /\ (Done(q, l, c) /\ pos[0] <= 4)' <=> Done(q, l, c) /\ pos[0] <= 4
<1>1. InBarrier(q) /\ Step(q) \in Barriers /\ Step(q) # "reduce"
  BY DEF Barrier, InBarrier, Barriers
<1>2. /\ phase'[q] = Advance(q).phase /\ iter'[q] = Advance(q).iter
      /\ pos'[q] = Advance(q).pos
  BY AllMove
<1>3. pos'[0] = pos'[q] /\ pos[0] = pos[q]
  <2>1. \A p \in PEs : InBarrier(p)
    BY DEF Barrier
  <2>2. pos[0] = pos[q] /\ phase[0] = phase[q] /\ iter[0] = iter[q] /\ 0 \in PEs
    BY <2>1, Alike, Numbers
  <2>3. Advance(0) = Advance(q)
    BY <2>2 DEF Advance, Step, Fn
  <2> QED BY <2>2, <2>3, AllMove
<1>4. l \in LoopNames /\ LoopPhase[l] \in {2, 3} /\ handled' = handled
  BY TwoLoops DEF Barrier
<1>5. /\ phase[q] \in 1 .. 6 /\ iter[q] \in 1 .. FOR_IN /\ pos[q] \in Nat
      /\ pos[q] \in 1 .. Len(Steps[Fn(q)]) /\ Fn(q) = Phases[phase[q]]
      /\ Step(q) = Steps[Fn(q)][pos[q]]
  BY Here, Near
<1>6. CASE /\ Step(q) = "leave" /\ iter[q] < FOR_IN
           /\ Advance(q) = [phase |-> phase[q], iter |-> iter[q] + 1, pos |-> 1]
  <2>1. phase'[q] = phase[q] /\ iter'[q] = iter[q] + 1 /\ pos'[q] = 1
    BY <1>2, <1>6
  <2>2. ~Done(q, l, c)'
    <3>1. phase[q] = LoopPhase[l] => handled[l][c] \in {iter[q] - 1, iter[q]}
      BY <1>4, WhenDone
    <3>2. iter[q] + 1 \notin {iter[q] - 1, iter[q]}
      BY <1>5
    <3> QED BY <1>4, <2>1, <3>1, <3>2 DEF Done
  <2>3. phase[q] \in {2, 3} => pos[q] > 4
    <3>1. CASE phase[q] = 2
      BY <1>5, <1>6, <3>1, Text, Lengths
    <3>2. CASE phase[q] = 3
      <4>1. /\ Steps[Phases[3]][1] # "leave" /\ Steps[Phases[3]][2] # "leave"
            /\ Steps[Phases[3]][3] # "leave" /\ Steps[Phases[3]][4] # "leave"
        BY Text
      <4> QED BY <1>5, <1>6, <3>2, <4>1
    <3> QED BY <3>1, <3>2
  <2>4. ~(Done(q, l, c) /\ pos[0] <= 4)
    BY <1>3, <1>4, <1>5, <2>3 DEF Done
  <2> QED BY <2>2, <2>4
<1>7. CASE /\ pos[q] = Len(Steps[Fn(q)]) /\ phase[q] < 6
           /\ Advance(q) = [phase |-> phase[q] + 1, iter |-> 1, pos |-> 1]
  <2>1. phase'[q] = phase[q] + 1 /\ iter'[q] = 1 /\ pos'[q] = 1
    BY <1>2, <1>7
  <2>2. ~Done(q, l, c)'
    <3>1. phase[q] < LoopPhase[l] => handled[l][c] = 0
      BY <1>4, WhenDone
    <3>2. phase[q] + 1 = LoopPhase[l] => handled[l][c] = 0
      BY <1>4, <1>5, <3>1
    <3> QED BY <1>4, <2>1, <3>2 DEF Done
  <2>3. phase[q] \in {2, 3} => pos[q] > 4
    <3>1. CASE phase[q] = 2
      BY <1>5, <1>7, <3>1, Text, Lengths
    <3>2. CASE phase[q] = 3
      BY <1>5, <1>7, <3>2, Text, Lengths
    <3> QED BY <3>1, <3>2
  <2>4. ~(Done(q, l, c) /\ pos[0] <= 4)
    BY <1>3, <1>4, <1>5, <2>3 DEF Done
  <2> QED BY <2>2, <2>4
<1>8. CASE /\ pos[q] < Len(Steps[Fn(q)])
           /\ Advance(q) = [phase |-> phase[q], iter |-> iter[q], pos |-> pos[q] + 1]
  <2>1. phase'[q] = phase[q] /\ iter'[q] = iter[q] /\ pos'[q] = pos[q] + 1
    BY <1>2, <1>8
  <2>2. Done(q, l, c)' = Done(q, l, c)
    BY <1>4, <2>1 DEF Done
  <2>3. Done(q, l, c) => pos[q] # 4
    BY <1>1, <1>4, Reductions DEF Done
  <2> QED BY <1>3, <1>5, <2>1, <2>2, <2>3
<1> QED BY <1>1, <1>6, <1>7, <1>8, Advanced

LEMMA SumsBarrier ==
  ASSUME ClusterAssumption, ControlInv, SumsInv, Barrier
  PROVE  SumsInv'
<1>1. UNCHANGED <<total_power, estimated_total_power, TotalAlpha, divisor>>
  BY DEF Barrier, sums
<1>2. ASSUME NEW p \in PEs, NEW c \in Cores, NEW l \in {"power", "alpha", "normalise"}
      PROVE  Pending(p, l, c)' = Pending(p, l, c)
  <2>1. CASE c % ARCHI_CLUSTER_NB_PE = p
    BY <2>1, BarrierDone DEF Pending
  <2>2. CASE c % ARCHI_CLUSTER_NB_PE # p
    BY <2>2 DEF Pending
  <2> QED BY <2>1, <2>2
<1>3. \A c \in Cores : Done(c % ARCHI_CLUSTER_NB_PE, "normalise", c)' =>
                         Done(c % ARCHI_CLUSTER_NB_PE, "normalise", c)
  BY BarrierDone, Numbers
<1>4. phase'[0] \in {2, 3} /\ pos'[0] > 4 => phase'[0] = phase[0] /\ pos[0] > 4
  <2> SUFFICES ASSUME phase'[0] \in {2, 3}, pos'[0] > 4
               PROVE  phase'[0] = phase[0] /\ pos[0] > 4
    OBVIOUS
  <2>1. 0 \in PEs /\ InBarrier(0) /\ Step(0) # "reduce"
    BY Numbers DEF Barrier, InBarrier, Barriers
  <2>2. Advance(0).pos > 4 /\ phase'[0] = Advance(0).phase
    BY <2>1, AllMove
  <2>3. Advance(0) = [phase |-> phase[0], iter |-> iter[0], pos |-> pos[0] + 1]
    <3>1. Advance(0).pos # 1
      BY <2>2
    <3> QED BY <2>1, <3>1, Advanced
  <2>4. phase'[0] = phase[0] /\ pos[0] + 1 > 4 /\ pos[0] \in Nat
    BY <2>1, <2>2, <2>3, Here
  <2>5. pos[0] # 4
    BY <2>1, <2>4, Reductions
  <2> QED BY <2>4, <2>5
<1>5. 1 .. ARCHI_CLUSTER_NB_PE - 2 \subseteq PEs
  BY DEF PEs, ClusterAssumption
<1> QED BY <1>1, <1>2, <1>3, <1>4, <1>5 DEF SumsInv

(* An iteration of power_comp or alpha_comp adds its core to the sum it is   *)
(* pending in; one of the normalising loop divides by the sum of this call.  *)
LEMMA WorkDone ==
  ASSUME ClusterAssumption, ControlInv, NEW p \in PEs, Work(p),
         NEW q \in PEs, NEW l \in LoopNames, NEW c \in Cores
  PROVE  /\ l = LoopOf(p) /\ c = idx[p] => ~Done(p, l, c) /\ Done(p, l, c)'
         /\ l # LoopOf(p) \/ c # idx[p] =>
              Done(q, l, c)' = Done(q, l, c) /\ Pending(q, l, c)' = Pending(q, l, c)
<1>1. /\ LoopPhase[LoopOf(p)] = phase[p] /\ LoopPos[LoopOf(p)] = pos[p]
      /\ c \in Nat /\ iter[p] \in Nat /\ UNCHANGED <<phase, iter, pos>>
      /\ idx[p] % ARCHI_CLUSTER_NB_PE = p
      /\ handled'[l][c] = IF l = LoopOf(p) /\ c = idx[p] THEN handled[l][c] + 1
                                                         ELSE handled[l][c]
  BY WorkHere, Here, Numbers
<1>2. ASSUME l = LoopOf(p), c = idx[p] PROVE ~Done(p, l, c) /\ Done(p, l, c)'
  <2>1. p = c % ARCHI_CLUSTER_NB_PE /\ phase[p] = LoopPhase[l] /\ pos[p] = LoopPos[l]
    BY <1>1, <1>2
  <2>2. ~Done(p, l, c)
    BY <1>1, <1>2, <2>1, WhenDone
  <2>3. handled[l][c] = iter[p] - 1
    BY <2>1, <2>2, WhenDone DEF Done
  <2>4. handled'[l][c] = iter'[p] /\ phase'[p] = LoopPhase[l]
    BY <1>1, <1>2, <2>1, <2>3
  <2> QED BY <2>2, <2>4 DEF Done
<1>3. ASSUME l # LoopOf(p) \/ c # idx[p]
      PROVE  Done(q, l, c)' = Done(q, l, c) /\ Pending(q, l, c)' = Pending(q, l, c)
  <2>1. Done(q, l, c)' = Done(q, l, c)
    BY <1>1, <1>3 DEF Done
  <2> QED BY <1>1, <2>1 DEF Pending
<1> QED BY <1>2, <1>3

LEMMA Middle == ASSUME ClusterAssumption PROVE 1 .. ARCHI_CLUSTER_NB_PE - 2 \subseteq PEs
BY DEF PEs, ClusterAssumption

(* The conjuncts of SumsInv', of which a step has to show those it disturbs. *)
LEMMA SumsParts ==
  ASSUME ClusterAssumption,
         /\ total_power' \in [PEs -> Sums] /\ TotalAlpha' \in [PEs -> Sums]
         /\ divisor' \in [Cores -> Sums],
         \A p \in 1 .. ARCHI_CLUSTER_NB_PE - 2, c \in Cores :
            total_power'[p][c] = Pending(p, "power", c)',
         \A p \in PEs \ {0}, c \in Cores : TotalAlpha'[p][c] = Pending(p, "alpha", c)',
         phase'[0] = 2 /\ pos'[0] > 4 =>
            estimated_total_power' = ServedBy(1 .. ARCHI_CLUSTER_NB_PE - 2),
         phase'[0] = 3 /\ pos'[0] > 4 => TotalAlpha'[0] = ServedBy(PEs \ {0}),
         \A c \in Cores : Done(c % ARCHI_CLUSTER_NB_PE, "normalise", c)' =>
            divisor'[c] = ServedBy(PEs \ {0})
  PROVE  SumsInv'
BY DEF SumsInv, ServedBy, PEs, Cores

LEMMA SumsWork ==
  ASSUME ClusterAssumption, ControlInv, SumsInv, NEW p \in PEs, Work(p)
  PROVE  SumsInv'
<1> DEFINE k == LoopOf(p)
           d == idx[p]
<1>1. /\ k \in LoopNames /\ LoopPhase[k] = phase[p] /\ LoopPos[k] = pos[p]
      /\ d \in Cores /\ d % ARCHI_CLUSTER_NB_PE = p /\ 0 \in PEs
      /\ phase' = phase /\ iter' = iter /\ pos' = pos
  BY WorkHere, Numbers
<1>2. \A q \in PEs, l \in LoopNames, c \in Cores :
        /\ l = k /\ c = d => ~Done(p, l, c) /\ Done(p, l, c)'
        /\ l # k \/ c # d =>
             Done(q, l, c)' = Done(q, l, c) /\ Pending(q, l, c)' = Pending(q, l, c)
  BY WorkDone
<1>3. \A q \in PEs, l \in LoopNames, c \in Cores :
        /\ l = k /\ c = d /\ q # p => Pending(q, l, c)' = Pending(q, l, c)
        /\ l = k /\ c = d /\ q = p => Pending(q, l, c) = 0
        /\ l = k /\ c = d /\ q = p /\ pos[0] <= 4 => Pending(q, l, c)' = 1
  BY <1>1, <1>2 DEF Pending
<1>4. /\ total_power \in [PEs -> Sums] /\ TotalAlpha \in [PEs -> Sums]
      /\ divisor \in [Cores -> Sums]
  BY DEF SumsInv
<1>5. pos[0] \in Nat /\ phase[0] = phase[p]
  BY <1>1, Here, Distance
<1>6. k \in {"power", "alpha"} => pos[0] <= 4
  <2>1. k \in {"power", "alpha"} => phase[p] \in {2, 3} /\ pos[p] = 2
    BY <1>1, TwoLoops
  <2>2. phase[p] \in {2, 3} /\ pos[p] <= 3 => pos[0] <= 3
    BY <1>1, Distance
  <2> QED BY <1>5, <2>1, <2>2
<1>7. CASE k = "power"
  <2>1. AddPower(p)
    BY <1>7 DEF Work
  <2>2. total_power' = [total_power EXCEPT ![p][d] = @ + 1]
        /\ UNCHANGED <<estimated_total_power, TotalAlpha, divisor>>
    BY <2>1 DEF AddPower, Count
  <2>3. total_power' \in [PEs -> Sums]
        /\ \A q \in PEs, c \in Cores :
             total_power'[q][c] = IF q = p /\ c = d THEN total_power[q][c] + 1
                                                    ELSE total_power[q][c]
    BY <1>1, <1>4, <2>2 DEF Sums
  <2> HIDE DEF k, d
  <2>4. ASSUME NEW q \in 1 .. ARCHI_CLUSTER_NB_PE - 2, NEW c \in Cores
        PROVE  total_power'[q][c] = Pending(q, "power", c)'
    <3>1. q \in PEs /\ "power" \in LoopNames /\ total_power[q][c] = Pending(q, "power", c)
      BY <1>7, <1>1, Middle DEF SumsInv
    <3> QED BY <1>2, <1>3, <1>6, <1>7, <2>3, <3>1
  <2>5. \A q \in PEs \ {0}, c \in Cores : TotalAlpha'[q][c] = Pending(q, "alpha", c)'
    BY <1>2, <1>7, <2>2, TwoLoops DEF SumsInv
  <2>6. \A c \in Cores : Done(c % ARCHI_CLUSTER_NB_PE, "normalise", c)' =>
                           Done(c % ARCHI_CLUSTER_NB_PE, "normalise", c)
    BY <1>2, <1>7, Numbers, TwoLoops
  <2> QED BY <1>1, <1>4, <1>5, <2>2, <2>3, <2>4, <2>5, <2>6, SumsParts DEF SumsInv
<1>8. CASE k = "alpha"
  <2>1. AddAlpha(p)
    BY <1>8 DEF Work
  <2>2. TotalAlpha' = [TotalAlpha EXCEPT ![p][d] = @ + 1]
        /\ UNCHANGED <<estimated_total_power, total_power, divisor>>
    BY <2>1 DEF AddAlpha, Count
  <2>3. TotalAlpha' \in [PEs -> Sums]
        /\ \A q \in PEs, c \in Cores :
             TotalAlpha'[q][c] = IF q = p /\ c = d THEN TotalAlpha[q][c] + 1
                                                   ELSE TotalAlpha[q][c]
    BY <1>1, <1>4, <2>2 DEF Sums
  <2> HIDE DEF k, d
  <2>4. ASSUME NEW q \in PEs \ {0}, NEW c \in Cores
        PROVE  TotalAlpha'[q][c] = Pending(q, "alpha", c)'
    <3>1. "alpha" \in LoopNames /\ TotalAlpha[q][c] = Pending(q, "alpha", c)
      BY <1>1, <1>8 DEF SumsInv
    <3> QED BY <1>2, <1>3, <1>6, <1>8, <2>3, <3>1
  <2>5. \A q \in 1 .. ARCHI_CLUSTER_NB_PE - 2, c \in Cores :
          total_power'[q][c] = Pending(q, "power", c)'
    BY <1>2, <1>8, <2>2, TwoLoops, Middle DEF SumsInv
  <2>6. \A c \in Cores : Done(c % ARCHI_CLUSTER_NB_PE, "normalise", c)' =>
                           Done(c % ARCHI_CLUSTER_NB_PE, "normalise", c)
    BY <1>2, <1>8, Numbers, TwoLoops
  <2>7. ~(pos'[0] > 4)
    BY <1>1, <1>5, <1>6, <1>8
  <2> QED BY <1>1, <1>4, <1>5, <2>2, <2>3, <2>4, <2>5, <2>6, <2>7, SumsParts DEF SumsInv
<1>9. CASE k = "normalise"
  <2>1. NormalizeAlpha(p)
    BY <1>9 DEF Work
  <2>2. divisor' = [divisor EXCEPT ![d] = TotalAlpha[0]]
        /\ UNCHANGED <<estimated_total_power, total_power, TotalAlpha>>
    BY <2>1 DEF NormalizeAlpha
  <2>3. TotalAlpha[0] = ServedBy(PEs \ {0})
    <3>1. phase[p] = 3 /\ pos[p] = 6
      BY <1>1, <1>9, TwoLoops
    <3>2. pos[0] > 4
      <4>1. phase[0] = 3 /\ pos[0] <= 5 => pos[p] <= 5
        BY <1>1, Distance
      <4> QED BY <1>5, <3>1, <4>1
    <3> QED BY <1>5, <3>1, <3>2 DEF SumsInv
  <2>4. divisor' \in [Cores -> Sums]
        /\ \A c \in Cores : divisor'[c] = IF c = d THEN TotalAlpha[0] ELSE divisor[c]
    BY <1>1, <1>4, <2>2
  <2> HIDE DEF k, d
  <2>5. ASSUME NEW c \in Cores, Done(c % ARCHI_CLUSTER_NB_PE, "normalise", c)'
        PROVE  divisor'[c] = ServedBy(PEs \ {0})
    <3>1. c # d => Done(c % ARCHI_CLUSTER_NB_PE, "normalise", c)
      BY <1>2, <2>5, Numbers, TwoLoops
    <3> QED BY <2>3, <2>4, <3>1 DEF SumsInv
  <2>6. \A q \in 1 .. ARCHI_CLUSTER_NB_PE - 2, c \in Cores :
          total_power'[q][c] = Pending(q, "power", c)'
    BY <1>2, <1>9, <2>2, TwoLoops, Middle DEF SumsInv
  <2>7. \A q \in PEs \ {0}, c \in Cores : TotalAlpha'[q][c] = Pending(q, "alpha", c)'
    BY <1>2, <1>9, <2>2, TwoLoops DEF SumsInv
  <2> QED BY <1>1, <1>4, <1>5, <2>2, <2>4, <2>5, <2>6, <2>7, SumsParts DEF SumsInv
<1>10. CASE k \notin {"power", "alpha", "normalise"}
  <2>1. UNCHANGED <<estimated_total_power, total_power, TotalAlpha, divisor>>
    BY <1>10 DEF Work, ApplyAlpha, SumsUntouched, sums
  <2> HIDE DEF k, d
  <2>2. \A q \in 1 .. ARCHI_CLUSTER_NB_PE - 2, c \in Cores :
          total_power'[q][c] = Pending(q, "power", c)'
    BY <1>2, <1>10, <2>1, TwoLoops, Middle DEF SumsInv
  <2>3. \A q \in PEs \ {0}, c \in Cores : TotalAlpha'[q][c] = Pending(q, "alpha", c)'
    BY <1>2, <1>10, <2>1, TwoLoops DEF SumsInv
  <2>4. \A c \in Cores : Done(c % ARCHI_CLUSTER_NB_PE, "normalise", c)' =>
                           Done(c % ARCHI_CLUSTER_NB_PE, "normalise", c)
    BY <1>2, <1>10, Numbers, TwoLoops
  <2> QED BY <1>1, <1>4, <1>5, <2>1, <2>2, <2>3, <2>4, SumsParts DEF SumsInv
<1> QED BY <1>7, <1>8, <1>9, <1>10

(* The partial sums of which each counts the cores of its own PE add up to   *)
(* the cores of all these PEs.                                               *)
LEMMA SumServed ==
  ASSUME ClusterAssumption, NEW sum \in [PEs -> Sums], NEW last \in Nat, 1 <= last,
         1 .. last \subseteq PEs,
         \A i \in 1 .. last, c \in Cores :
            sum[i][c] = IF c % ARCHI_CLUSTER_NB_PE = i THEN 1 ELSE 0
  PROVE  SumOver(sum, 1, last) = ServedBy(1 .. last)
<1>2. ASSUME NEW c \in Cores PROVE SumOver(sum, 1, last)[c] = ServedBy(1 .. last)[c]
  <2> DEFINE r == c % ARCHI_CLUSTER_NB_PE
  <2>1. r \in Nat
    BY Numbers
  <2>2. \A i \in 1 .. last : sum[i][c] = IF r = i THEN 1 ELSE 0
    OBVIOUS
  <2>3. ServedBy(1 .. last)[c] = IF r \in 1 .. last THEN 1 ELSE 0
    BY DEF ServedBy
  <2> HIDE DEF r
  <2>4. \A i \in 1 .. last : i # r => sum[i][c] = 0
    BY <2>2
  <2>5. SumOver(sum, 1, last)[c] = IF r \in 1 .. last THEN sum[r][c] ELSE 0
    BY <2>1, <2>4, SumIs
  <2> QED BY <2>2, <2>3, <2>5
<1> DEFINE U(c) == LET upto[i \in 1 - 1 .. last] ==
                         IF i < 1 THEN 0 ELSE upto[i - 1] + sum[i][c]
                   IN  upto[last]
           V(c) == IF c % ARCHI_CLUSTER_NB_PE \in 1 .. last THEN 1 ELSE 0
<1>3. SumOver(sum, 1, last) = [c \in Cores |-> U(c)]
  BY Zenon DEF SumOver
<1>4. ServedBy(1 .. last) = [c \in Cores |-> V(c)]
  BY DEF ServedBy
<1> HIDE DEF U, V
<1>5. \A c \in Cores : U(c) = V(c)
  BY <1>2, <1>3, <1>4
<1> QED BY <1>3, <1>4, <1>5

(* PE 0 adds the partial sums up when every PE has done its share, and       *)
(* clears them.                                                              *)
LEMMA SumsReduce ==
  ASSUME ClusterAssumption, ControlInv, SumsInv, Reduce(0)
  PROVE  SumsInv'
<1>1. /\ Step(0) = "reduce" /\ MoveOn({0}) /\ handled' = handled /\ divisor' = divisor
      /\ 0 \in PEs /\ Step(0) \notin Barriers \union {"stopped"}
  BY Numbers DEF Reduce, Barriers
<1>2. /\ phase' = phase /\ iter' = iter /\ pos'[0] = pos[0] + 1 /\ pos[0] \in Nat
  BY <1>1, Moved DEF ControlInv, Places
<1>3. \A q \in PEs, l \in LoopNames, c \in Cores : Done(q, l, c)' = Done(q, l, c)
  BY <1>1, <1>2 DEF Done
<1>4. /\ total_power \in [PEs -> Sums] /\ TotalAlpha \in [PEs -> Sums]
      /\ divisor \in [Cores -> Sums] /\ Zero \in Sums
      /\ \A P \in SUBSET PEs : ServedBy(P) \in Sums
  BY DEF SumsInv, Zero, Sums, ServedBy
<1>5. /\ ARCHI_CLUSTER_NB_PE - 2 \in Nat /\ 1 <= ARCHI_CLUSTER_NB_PE - 2
      /\ ARCHI_CLUSTER_NB_PE - 1 \in Nat /\ 1 <= ARCHI_CLUSTER_NB_PE - 1
      /\ 1 .. ARCHI_CLUSTER_NB_PE - 1 = PEs \ {0}
      /\ 1 .. ARCHI_CLUSTER_NB_PE - 2 \subseteq PEs \ {0}
  BY DEF PEs, ClusterAssumption
<1>6. \A c \in Cores : Done(c % ARCHI_CLUSTER_NB_PE, "normalise", c)' =>
                         divisor'[c] = ServedBy(PEs \ {0})
  BY <1>1, <1>3, Numbers, TwoLoops DEF SumsInv
<1>7. \A q \in PEs : phase[q] = phase[0]
  BY <1>1, Distance
<1>8. ASSUME pos[0] = 4, NEW l \in {"power", "alpha"}, phase[0] = LoopPhase[l],
             NEW q \in PEs, NEW c \in Cores
      PROVE  /\ Pending(q, l, c) = IF c % ARCHI_CLUSTER_NB_PE = q THEN 1 ELSE 0
             /\ Pending(q, l, c)' = 0
  <2>1. l \in LoopNames /\ phase[q] \in {2, 3} /\ phase[q] = LoopPhase[l] /\ LoopPos[l] = 2
    BY <1>7, <1>8, TwoLoops
  <2>2. pos[q] > 3
    <3>1. pos[q] <= 3 => pos[0] <= 3
      BY <1>1, <2>1, Distance
    <3> QED BY <1>8, <3>1, Here
  <2>3. c % ARCHI_CLUSTER_NB_PE = q => Done(q, l, c)
    BY <2>1, <2>2, Here, WhenDone
  <2> QED BY <1>2, <1>8, <2>3 DEF Pending
<1>9. ASSUME NEW l \in {"power", "alpha"}, phase[0] # LoopPhase[l],
             NEW q \in PEs, NEW c \in Cores
      PROVE  Pending(q, l, c) = 0 /\ Pending(q, l, c)' = 0
  BY <1>2, <1>7, <1>9 DEF Done, Pending
<1>10. CASE phase[0] = 2 /\ pos[0] = 4
  <2>1. ReducePower
    <3>1. Fn(0) = "power"
      BY <1>1, <1>10, Reductions
    <3> QED BY <3>1 DEF Reduce
  <2>2. /\ total_power' = [q \in PEs |-> IF q \in 1 .. ARCHI_CLUSTER_NB_PE - 2
                                          THEN Zero ELSE total_power[q]]
        /\ TotalAlpha' = TotalAlpha
        /\ estimated_total_power' = SumOver(total_power, 1, ARCHI_CLUSTER_NB_PE - 2)
    BY <2>1 DEF ReducePower
  <2>3. estimated_total_power' = ServedBy(1 .. ARCHI_CLUSTER_NB_PE - 2)
    <3>1. \A i \in 1 .. ARCHI_CLUSTER_NB_PE - 2, c \in Cores :
            total_power[i][c] = IF c % ARCHI_CLUSTER_NB_PE = i THEN 1 ELSE 0
      BY <1>5, <1>8, <1>10, TwoLoops DEF SumsInv
    <3> QED BY <1>4, <1>5, <2>2, <3>1, SumServed
  <2>4. total_power' \in [PEs -> Sums]
    BY <1>4, <2>2
  <2>5. \A q \in 1 .. ARCHI_CLUSTER_NB_PE - 2, c \in Cores :
          total_power'[q][c] = Pending(q, "power", c)'
    BY <1>5, <1>8, <1>10, <2>2, TwoLoops DEF Zero
  <2>6. \A q \in PEs \ {0}, c \in Cores : TotalAlpha'[q][c] = Pending(q, "alpha", c)'
    BY <1>9, <1>10, <2>2, TwoLoops DEF SumsInv
  <2>7. phase'[0] # 3
    BY <1>2, <1>10
  <2> QED BY <1>1, <1>4, <1>6, <2>2, <2>3, <2>4, <2>5, <2>6, <2>7, SumsParts
<1>11. CASE phase[0] = 3 /\ pos[0] = 4
  <2>1. ReduceAlpha
    <3>1. Fn(0) # "power"
      BY <1>1, <1>11, Reductions
    <3> QED BY <1>11, <3>1 DEF Reduce
  <2>2. /\ TotalAlpha' = [q \in PEs |->
                            IF q = 0 THEN SumOver(TotalAlpha, 1, ARCHI_CLUSTER_NB_PE - 1)
                                     ELSE Zero]
        /\ total_power' = total_power
    BY <2>1 DEF ReduceAlpha
  <2>3. SumOver(TotalAlpha, 1, ARCHI_CLUSTER_NB_PE - 1) = ServedBy(PEs \ {0})
    <3>1. \A i \in 1 .. ARCHI_CLUSTER_NB_PE - 1, c \in Cores :
            TotalAlpha[i][c] = IF c % ARCHI_CLUSTER_NB_PE = i THEN 1 ELSE 0
      <4> SUFFICES ASSUME NEW i \in 1 .. ARCHI_CLUSTER_NB_PE - 1, NEW c \in Cores
                   PROVE  TotalAlpha[i][c] = IF c % ARCHI_CLUSTER_NB_PE = i THEN 1 ELSE 0
        OBVIOUS
      <4>1. i \in PEs \ {0} /\ "alpha" \in {"power", "alpha"}
        BY <1>5
      <4>2. TotalAlpha[i][c] = Pending(i, "alpha", c)
        BY <4>1 DEF SumsInv
      <4> QED BY <1>8, <1>11, <4>1, <4>2, TwoLoops
    <3>2. SumOver(TotalAlpha, 1, ARCHI_CLUSTER_NB_PE - 1) = ServedBy(1 .. ARCHI_CLUSTER_NB_PE - 1)
      BY <1>4, <1>5, <3>1, SumServed
    <3> QED BY <1>5, <3>2
  <2>4. TotalAlpha' \in [PEs -> Sums] /\ TotalAlpha'[0] = ServedBy(PEs \ {0})
    BY <1>1, <1>4, <2>2, <2>3
  <2>5. \A q \in PEs \ {0}, c \in Cores : TotalAlpha'[q][c] = Pending(q, "alpha", c)'
    BY <1>8, <1>11, <2>2, TwoLoops DEF Zero
  <2>6. \A q \in 1 .. ARCHI_CLUSTER_NB_PE - 2, c \in Cores :
          total_power'[q][c] = Pending(q, "power", c)'
    BY <1>5, <1>9, <1>11, <2>2, TwoLoops DEF SumsInv
  <2>7. phase'[0] # 2
    BY <1>2, <1>11
  <2> QED BY <1>1, <1>4, <1>6, <2>2, <2>4, <2>5, <2>6, <2>7, SumsParts
<1>12. CASE phase[0] = 3 /\ pos[0] = 9
  <2>1. ReduceTotalPower
    <3>1. Fn(0) # "power"
      BY <1>1, <1>12, Reductions
    <3> QED BY <1>12, <3>1 DEF Reduce
  <2>2. UNCHANGED <<total_power, estimated_total_power, TotalAlpha, divisor>>
    BY <1>1, <2>1 DEF ReduceTotalPower
  <2>3. (pos'[0] > 4 <=> pos[0] > 4) /\ (pos'[0] <= 4 <=> pos[0] <= 4)
    BY <1>2, <1>12
  <2> QED BY <1>1, <1>2, <2>2, <2>3, SumsKept
<1> QED BY <1>1, <1>10, <1>11, <1>12, Reductions

LEMMA SumsStep ==
  ASSUME ClusterAssumption, ControlInv, SumsInv, [ControlNext]_controlVars
  PROVE  SumsInv'
<1>1. CASE UNCHANGED controlVars \/ cluster_start \/ cluster_wait
  <2>1. UNCHANGED <<place, sums, handled>>
    BY <1>1 DEF controlVars, cluster_start, cluster_wait
  <2> QED BY <2>1, SumsKept DEF place, sums
<1>2. CASE Barrier
  BY <1>2, SumsBarrier
<1>3. ASSUME NEW p \in PEs, PE(p) PROVE SumsInv'
  <2>1. CASE Work(p)
    BY <2>1, SumsWork
  <2>2. CASE Reduce(p) /\ p = 0
    BY <2>2, SumsReduce
  <2>3. CASE Boot(p) \/ LoopDone(p) \/ Stub(p) \/ (Reduce(p) /\ p # 0)
    <3>1. /\ Step(p) \in {"boot", "stub", "reduce"} \union Loops
          /\ Step(p) = "reduce" => p # 0
      BY <2>3 DEF Boot, LoopDone, Reduce, Stub, Loops
    <3>2. MoveOn({p}) /\ UNCHANGED <<sums, handled>>
      BY <2>3 DEF Boot, LoopDone, Reduce, Stub
    <3>3. Step(p) \notin Barriers \union {"stopped"}
      BY <3>1 DEF Barriers, Loops
    <3> QED BY <3>1, <3>2, <3>3, SumsAlone
  <2> QED BY <1>3, <2>1, <2>2, <2>3 DEF PE
<1> QED BY <1>1, <1>2, <1>3 DEF ControlNext

(* The partial sums hold, between a loop and PE 0's reduction, each core     *)
(* that has been handled in this call once and nothing of an earlier call.   *)
THEOREM PartialSums == ASSUME ClusterAssumption PROVE ControlSpec => []SumsInv
<1>1. ControlInit => SumsInv
  BY SumsInit
<1>2. ControlInv /\ SumsInv /\ [ControlNext]_controlVars => SumsInv'
  BY SumsStep
<1> QED BY <1>1, <1>2, Inductive, PTL DEF ControlSpec

(* The estimate of each power_comp counts the power of this call of each     *)
(* core of the PEs 1 .. NB_PE - 2 once, and of no other core.                *)
THEOREM Estimated == ASSUME ClusterAssumption PROVE ControlSpec => []EstimateExact
<1>1. ASSUME ControlInv, SumsInv, Fn(0) = "power", Step(0) \in {"leave", "between"}
      PROVE  estimated_total_power = ServedBy(1 .. ARCHI_CLUSTER_NB_PE - 2)
  <2>1. 0 \in PEs /\ phase[0] = 2
    BY <1>1, Numbers, Reductions
  <2>2. pos[0] \in 1 .. 6 /\ Step(0) = Steps[Phases[2]][pos[0]]
    BY <1>1, <2>1, Here, Lengths
  <2>3. pos[0] > 4
    BY <1>1, <2>2, Text
  <2> QED BY <1>1, <2>1, <2>3 DEF SumsInv
<1>2. ControlInv /\ SumsInv => EstimateExact
  BY <1>1 DEF EstimateExact
<1> QED BY <1>2, Inductive, PartialSums, PTL

(* In a call of alpha_comp all Alphas are divided by the same sum: that of   *)
(* the cores that the PEs other than PE 0 handle, each counted once.         *)
THEOREM SameDivisor == ASSUME ClusterAssumption PROVE ControlSpec => []OneDivisor
<1>1. ASSUME ControlInv, SumsInv, NEW p \in PEs, Step(p) = "apply",
             NEW c \in Cores, c % ARCHI_CLUSTER_NB_PE = p
      PROVE  divisor[c] = ServedBy(PEs \ {0})
  <2>1. phase[p] \in 1 .. 6 /\ pos[p] \in 1 .. Len(Steps[Phases[phase[p]]])
        /\ Step(p) = Steps[Phases[phase[p]]][pos[p]]
    BY <1>1, Here
  <2>2. phase[p] = 3 /\ pos[p] = 7
    <3>1. CASE phase[p] = 1
      BY <1>1, <2>1, <3>1, Text
    <3>2. CASE phase[p] = 2
      BY <1>1, <2>1, <3>2, Text
    <3>3. CASE phase[p] = 3
      BY <1>1, <2>1, <3>3, Text
    <3>4. CASE phase[p] = 4
      BY <1>1, <2>1, <3>4, Text
    <3>5. CASE phase[p] = 5
      BY <1>1, <2>1, <3>5, Text
    <3>6. CASE phase[p] = 6
      BY <1>1, <2>1, <3>6, Text
    <3> QED BY <2>1, <3>1, <3>2, <3>3, <3>4, <3>5, <3>6
  <2>3. pos[p] > LoopPos["normalise"]
    BY <2>2, TwoLoops
  <2>4. Done(p, "normalise", c)
    BY <1>1, <2>2, <2>3, TwoLoops, WhenDone
  <2> QED BY <1>1, <2>4 DEF SumsInv
<1>2. ControlInv /\ SumsInv => OneDivisor
  BY <1>1 DEF OneDivisor
<1> QED BY <1>2, Inductive, PartialSums, PTL
=============================================================================
