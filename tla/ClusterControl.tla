---------------------------- MODULE ClusterControl -----------------------------
(***************************************************************************)
(* The power control loop on the cluster (firmware-ctrl-action/cl_main.c)  *)
(* and its offload from the fabric controller, FC (pulp-runtime            *)
(* kernel/cluster.c).                                                      *)
(*                                                                         *)
(* Every processing element (PE) of the cluster runs main.  In each of the *)
(* calls power_comp, alpha_comp, pid_comp and freq_comp a PE handles its   *)
(* share of the controlled cores, adds to its own partial sum, and meets   *)
(* the others at the hardware barrier; PE 0 then adds the partial sums up. *)
(* A sum is modelled by how often it counts each controlled core: what     *)
(* matters is which cores are in it, not their powers.                     *)
(*                                                                         *)
(* delta_power is 6.0f whenever alpha_comp tests it, so the else branch of *)
(* alpha_comp, and the binding code under 0 == PCF_TRUE, never run.        *)
(***************************************************************************)
EXTENDS Integers, Sequences, FiniteSets

CONSTANTS
  ARCHI_CLUSTER_NB_PE,   \* PEs of the cluster
  l_num_core,            \* controlled cores
  FOR_IN                 \* calls of each function in a row

ClusterAssumption ==
  /\ ARCHI_CLUSTER_NB_PE \in Nat /\ ARCHI_CLUSTER_NB_PE > 2
  /\ l_num_core \in Nat \ {0} /\ FOR_IN \in Nat \ {0}

PEs == 0 .. ARCHI_CLUSTER_NB_PE - 1
Cores == 0 .. l_num_core - 1
Sums == [Cores -> Nat]
Zero == [c \in Cores |-> 0]

VARIABLES
  stacks,                  \* constant in a behaviour: L1 has room for the stacks
  fc, cluster_running,     \* the FC's position, and its flag
  phase, iter, pos, idx,   \* of each PE: which function, call, step, core
  total_power, estimated_total_power,   \* power_comp's sums
  TotalAlpha, TotalPower,               \* alpha_comp's sums
  divisor,                 \* the TotalAlpha[0] by which Alpha[i] was divided
  handled                  \* history: how often each loop handled each core

place == <<phase, iter, pos, idx>>
sums  == <<total_power, estimated_total_power, TotalAlpha, TotalPower, divisor>>
controlVars  == <<stacks, fc, cluster_running, place, sums, handled>>

-----------------------------------------------------------------------------
(* The steps of main and of what it calls, in their order.  At enter, sync, *)
(* leave and between the PE is in synch_barrier.                            *)
Phases == <<"boot", "power", "alpha", "pid", "freq", "end">>

Steps == [
  boot  |-> <<"boot", "sync">>,
  power |-> <<"enter", "work", "sync", "reduce", "leave", "between">>,
  alpha |-> <<"enter", "work", "sync", "reduce", "sync", "normalise", "apply",
              "sync", "reduce", "sync", "leave", "between">>,
  pid   |-> <<"enter", "work", "sync", "leave", "between">>,
  freq  |-> <<"enter", "work", "sync", "leave", "between">>,
  end   |-> <<"sync", "stub", "stopped">>]

Fn(p) == Phases[phase[p]]
Step(p) == Steps[Fn(p)][pos[p]]
Barriers == {"enter", "sync", "leave", "between"}
InBarrier(p) == Step(p) \in Barriers

Loops == {"work", "normalise", "apply"}
LoopNames == {"power", "alpha", "pid", "freq", "normalise", "apply"}
LoopOf(p) == IF Step(p) = "work" THEN Fn(p) ELSE Step(p)

\* Mutant: the share of the cores left over is forgotten.
End_NoRemainder(p) == p + ARCHI_CLUSTER_NB_PE * (l_num_core \div ARCHI_CLUSTER_NB_PE)

(* PE p handles the cores p, p + NB_PE, p + 2 * NB_PE, ... below End(p).    *)
End(p) ==
  LET chunk_rem == l_num_core % ARCHI_CLUSTER_NB_PE
      chunk == (l_num_core \div ARCHI_CLUSTER_NB_PE)
               + (IF chunk_rem # 0 THEN 1 ELSE 0)
      end == p + ARCHI_CLUSTER_NB_PE * chunk
  IN  IF end > l_num_core THEN l_num_core ELSE end

(* After leave, main calls the function again or goes on to the barrier     *)
(* between two functions, and from there to the next function.              *)
Advance(p) ==
  CASE Step(p) = "leave" /\ iter[p] < FOR_IN ->
         [phase |-> phase[p], iter |-> iter[p] + 1, pos |-> 1]
    [] pos[p] = Len(Steps[Fn(p)]) ->
         [phase |-> phase[p] + 1, iter |-> 1, pos |-> 1]
    [] OTHER ->
         [phase |-> phase[p], iter |-> iter[p], pos |-> pos[p] + 1]

MoveOn(P) ==
  /\ phase' = [p \in PEs |-> IF p \in P THEN Advance(p).phase ELSE phase[p]]
  /\ iter' = [p \in PEs |-> IF p \in P THEN Advance(p).iter ELSE iter[p]]
  /\ pos' = [p \in PEs |-> IF p \in P THEN Advance(p).pos ELSE pos[p]]
  /\ idx' = [p \in PEs |-> IF p \in P THEN p ELSE idx[p]]

-----------------------------------------------------------------------------
(* The FC: cluster_start fetches all PEs, unless their stacks cannot be     *)
(* allocated, which it does not report; cluster_wait polls the flag.        *)
cluster_start ==
  /\ fc = "start"
  /\ fc' = "wait"
  /\ cluster_running' = stacks
  /\ UNCHANGED <<stacks, place, sums, handled>>

cluster_wait ==
  /\ fc = "wait"
  /\ ~cluster_running
  /\ fc' = "done"
  /\ UNCHANGED <<stacks, cluster_running, place, sums, handled>>

(* cluster_entry_stub enters main; PE 0 fills the tables and clears the     *)
(* sums before the first barrier.                                           *)
Boot(p) ==
  /\ fc # "start" /\ stacks
  /\ Step(p) = "boot"
  /\ MoveOn({p})
  /\ UNCHANGED <<stacks, fc, cluster_running, sums, handled>>

\* Mutant: the barrier's mask has one PE too few.
Barrier_MaskShort ==
  /\ \A p \in PEs \ {ARCHI_CLUSTER_NB_PE - 1} : InBarrier(p)
  /\ MoveOn({p \in PEs : InBarrier(p)})
  /\ UNCHANGED <<stacks, fc, cluster_running, sums, handled>>

\* Mutant: the barrier's mask has one PE too many.
Barrier_MaskLong ==
  /\ \A p \in 0 .. ARCHI_CLUSTER_NB_PE : p \in PEs /\ InBarrier(p)
  /\ MoveOn(PEs)
  /\ UNCHANGED <<stacks, fc, cluster_running, sums, handled>>

(* The hardware barrier releases all PEs when all have arrived, whichever   *)
(* synch_barrier of the program each of them is in.                         *)
Barrier ==
  /\ \A p \in PEs : InBarrier(p)
  /\ MoveOn(PEs)
  /\ UNCHANGED <<stacks, fc, cluster_running, sums, handled>>

Count(sum, p) == [sum EXCEPT ![p][idx[p]] = @ + 1]

(* What one iteration does to what the PEs share.                           *)
AddPower(p) ==
  /\ total_power' = Count(total_power, p)
  /\ UNCHANGED <<estimated_total_power, TotalAlpha, TotalPower, divisor>>

AddAlpha(p) ==
  /\ TotalAlpha' = Count(TotalAlpha, p)
  /\ UNCHANGED <<total_power, estimated_total_power, TotalPower, divisor>>

NormalizeAlpha(p) ==
  /\ divisor' = [divisor EXCEPT ![idx[p]] = TotalAlpha[0]]
  /\ UNCHANGED <<total_power, estimated_total_power, TotalAlpha, TotalPower>>

ApplyAlpha(p) ==
  /\ TotalPower' = Count(TotalPower, p)
  /\ UNCHANGED <<total_power, estimated_total_power, TotalAlpha, divisor>>

(* pid_comp and freq_comp touch none of the sums.  The coefficient that the *)
(* PEs share in freq_comp and the error map they both write are numeric     *)
(* state and left out.                                                      *)
SumsUntouched == UNCHANGED sums

(* One iteration of the loop PE p is in.                                    *)
Work(p) ==
  /\ Step(p) \in Loops
  /\ idx[p] < End(p)
  /\ CASE LoopOf(p) = "power"     -> AddPower(p)
       [] LoopOf(p) = "alpha"     -> AddAlpha(p)
       [] LoopOf(p) = "normalise" -> NormalizeAlpha(p)
       [] LoopOf(p) = "apply"     -> ApplyAlpha(p)
       [] OTHER                   -> SumsUntouched
  /\ handled' = [handled EXCEPT ![LoopOf(p)][idx[p]] = @ + 1]
  /\ idx' = [idx EXCEPT ![p] = @ + ARCHI_CLUSTER_NB_PE]
  /\ UNCHANGED <<stacks, fc, cluster_running, phase, iter, pos>>

LoopDone(p) ==
  /\ Step(p) \in Loops
  /\ idx[p] >= End(p)
  /\ MoveOn({p})
  /\ UNCHANGED <<stacks, fc, cluster_running, sums, handled>>

(* The sum of sum[i] over the PEs first .. last.                            *)
SumOver(sum, first, last) ==
  [c \in Cores |->
     LET upto[i \in first - 1 .. last] ==
           IF i < first THEN 0 ELSE upto[i - 1] + sum[i][c]
     IN  upto[last]]

\* Mutant: the partial sums are not cleared.
ReducePower_KeepSums ==
  /\ estimated_total_power' = SumOver(total_power, 1, ARCHI_CLUSTER_NB_PE - 2)
  /\ UNCHANGED <<total_power, TotalAlpha, TotalPower>>

(* for (i=1; i<7; i++), with eight PEs.                                     *)
ReducePower ==
  /\ estimated_total_power' = SumOver(total_power, 1, ARCHI_CLUSTER_NB_PE - 2)
  /\ total_power' = [p \in PEs |-> IF p \in 1 .. ARCHI_CLUSTER_NB_PE - 2
                                   THEN Zero ELSE total_power[p]]
  /\ UNCHANGED <<TotalAlpha, TotalPower>>

\* Mutant: TotalAlpha[0] keeps the sum of the previous call.
ReduceAlpha_OldSum ==
  /\ TotalAlpha' = [p \in PEs |-> IF p = 0
                                  THEN SumOver(TotalAlpha, 0, ARCHI_CLUSTER_NB_PE - 1)
                                  ELSE Zero]
  /\ TotalPower' = [p \in PEs |-> IF p = 0 THEN TotalPower[0] ELSE Zero]
  /\ UNCHANGED <<total_power, estimated_total_power>>

(* for (i=1; i<8; i++): the sum goes to TotalAlpha[0], cleared first.       *)
ReduceAlpha ==
  /\ TotalAlpha' = [p \in PEs |-> IF p = 0
                                  THEN SumOver(TotalAlpha, 1, ARCHI_CLUSTER_NB_PE - 1)
                                  ELSE Zero]
  /\ TotalPower' = [p \in PEs |-> IF p = 0 THEN TotalPower[0] ELSE Zero]
  /\ UNCHANGED <<total_power, estimated_total_power>>

ReduceTotalPower ==
  /\ TotalPower' = [p \in PEs |-> IF p = 0
                                  THEN SumOver(TotalPower, 1, ARCHI_CLUSTER_NB_PE - 1)
                                  ELSE Zero]
  /\ UNCHANGED <<total_power, estimated_total_power, TotalAlpha>>

(* if (coreid==0) after the barrier that ends a loop.                       *)
Reduce(p) ==
  /\ Step(p) = "reduce"
  /\ IF p # 0 THEN UNCHANGED sums
     ELSE /\ \/ Fn(p) = "power" /\ ReducePower
             \/ Fn(p) = "alpha" /\ pos[p] = 4 /\ ReduceAlpha
             \/ Fn(p) = "alpha" /\ pos[p] = 9 /\ ReduceTotalPower
          /\ UNCHANGED divisor
  /\ MoveOn({p})
  /\ UNCHANGED <<stacks, fc, cluster_running, handled>>

(* Back in cluster_entry_stub: PE 0 tells the FC; then every PE sleeps.     *)
Stub(p) ==
  /\ Step(p) = "stub"
  /\ cluster_running' = IF p = 0 THEN FALSE ELSE cluster_running
  /\ MoveOn({p})
  /\ UNCHANGED <<stacks, fc, sums, handled>>

PE(p) == Boot(p) \/ Work(p) \/ LoopDone(p) \/ Reduce(p) \/ Stub(p)

-----------------------------------------------------------------------------
ControlInit ==
  /\ stacks \in BOOLEAN
  /\ fc = "start" /\ cluster_running = FALSE
  /\ phase = [p \in PEs |-> 1]
  /\ iter = [p \in PEs |-> 1]
  /\ pos = [p \in PEs |-> 1]
  /\ idx = [p \in PEs |-> p]
  /\ total_power = [p \in PEs |-> Zero]
  /\ estimated_total_power = Zero
  /\ TotalAlpha = [p \in PEs |-> Zero]
  /\ TotalPower = [p \in PEs |-> Zero]
  /\ divisor = [c \in Cores |-> Zero]
  /\ handled = [l \in LoopNames |-> Zero]

ControlNext ==
  \/ cluster_start
  \/ cluster_wait
  \/ Barrier
  \/ \E p \in PEs : PE(p)

ControlSpec == ControlInit /\ [][ControlNext]_controlVars

(* The FC, every PE and the barrier's hardware keep running.                *)
ControlFairness ==
  /\ WF_controlVars(cluster_start)
  /\ WF_controlVars(cluster_wait)
  /\ WF_controlVars(Barrier)
  /\ \A p \in PEs : WF_controlVars(PE(p))

FairControlSpec == ControlSpec /\ ControlFairness

-----------------------------------------------------------------------------
(* All PEs are between the same two barriers of the program, although the   *)
(* hardware does not know which synch_barrier a PE has reached.             *)
PassedSet(p) == {i \in 1 .. pos[p] - 1 : Steps[Fn(p)][i] \in Barriers}
Passed(p) == Cardinality(PassedSet(p))

Lockstep ==
  \A p, q \in PEs :
    phase[p] = phase[q] /\ iter[p] = iter[q] /\ Passed(p) = Passed(q)

(* When a call of a function is over, each of its loops has handled each    *)
(* controlled core exactly once more, also when the PEs' shares differ.     *)
LoopsOf(f) == IF f = "alpha" THEN {"alpha", "normalise", "apply"} ELSE {f}

HandledOnce ==
  \A p \in PEs : Step(p) = "leave" =>
    \A l \in LoopsOf(Fn(p)), c \in Cores : handled[l][c] = iter[p]

ServedBy(P) == [c \in Cores |-> IF c % ARCHI_CLUSTER_NB_PE \in P THEN 1 ELSE 0]

(* The estimate of each power_comp counts the power of a core once, of this *)
(* call and none before, and only of the cores that the PEs 1 .. NB_PE - 2  *)
(* handle (i<7 with eight PEs): those of PE 0 and of the last PE are left   *)
(* out, although total_power of both goes on growing.                       *)
EstimateExact ==
  Fn(0) = "power" /\ Step(0) \in {"leave", "between"} =>
    estimated_total_power = ServedBy(1 .. ARCHI_CLUSTER_NB_PE - 2)

(* All Alpha of a call are divided by the same sum, which counts once each  *)
(* core that a PE other than PE 0 handles, in this call.                    *)
OneDivisor ==
  \A p \in PEs : Step(p) = "apply" =>
    \A c \in Cores : c % ARCHI_CLUSTER_NB_PE = p =>
      divisor[c] = ServedBy(PEs \ {0})

(* When the FC sees the cluster finished, all frequencies are computed and  *)
(* no PE is in a loop any more: the FC only waits for PE 0.  Without the    *)
(* stacks cluster_wait returns all the same, and nothing is computed.       *)
ResultsComplete ==
  fc = "done" /\ stacks =>
    /\ \A p \in PEs : Fn(p) = "end"
    /\ \A c \in Cores : handled["freq"][c] = FOR_IN

(* The PEs never wait for each other for ever: the FC that waits for the    *)
(* cluster gets its answer.                                                 *)
FCReturns == (fc = "wait") ~> (fc = "done")

(* cl_main.c:713 "Alpha Normalized": each Alpha is divided by the sum of    *)
(* all.  The code does not keep it: the Alphas of PE 0 are not in the sum.  *)
AlphaNormalized ==
  \A p \in PEs : Step(p) = "apply" =>
    \A c \in Cores : c % ARCHI_CLUSTER_NB_PE = p => divisor[c] = ServedBy(PEs)
-----------------------------------------------------------------------------
(* The inductive invariant behind Lockstep: the barriers passed in a call   *)
(* are the same places for all PEs, so those that wait wait at the same one.*)
Places ==
  /\ phase \in [PEs -> 1 .. Len(Phases)]
  /\ iter \in [PEs -> 1 .. FOR_IN]
  /\ pos \in [PEs -> Nat] /\ \A p \in PEs : pos[p] \in 1 .. Len(Steps[Fn(p)])

Together ==
  \A p, q \in PEs :
    phase[p] = phase[q] /\ iter[p] = iter[q] /\ PassedSet(p) = PassedSet(q)

(* And behind HandledOnce: how often each loop has handled core c follows   *)
(* from where the one PE is that handles c.                                 *)
LoopPhase == [power |-> 2, alpha |-> 3, normalise |-> 3, apply |-> 3, pid |-> 4, freq |-> 5]
LoopPos   == [power |-> 2, alpha |-> 2, normalise |-> 6, apply |-> 7, pid |-> 2, freq |-> 2]

Counted(p, l, c) ==
  CASE phase[p] < LoopPhase[l] -> 0
    [] phase[p] = LoopPhase[l] ->
         IF pos[p] > LoopPos[l] \/ (pos[p] = LoopPos[l] /\ c < idx[p])
           THEN iter[p] ELSE iter[p] - 1
    [] phase[p] > LoopPhase[l] -> FOR_IN

Shares ==
  /\ idx \in [PEs -> Nat] /\ \A p \in PEs : idx[p] % ARCHI_CLUSTER_NB_PE = p
  /\ \A p \in PEs : Step(p) = "between" => iter[p] = FOR_IN
  /\ handled \in [LoopNames -> Sums]
  /\ \A l \in LoopNames, c \in Cores :
       handled[l][c] = Counted(c % ARCHI_CLUSTER_NB_PE, l, c)

(* And behind ResultsComplete: the flag is cleared by PE 0 at the very end. *)
Flag ==
  /\ fc \in {"start", "wait", "done"}
  /\ fc = "done" => ~cluster_running
  /\ stacks /\ fc # "start" /\ ~cluster_running => Step(0) = "stopped"

ControlInv == Places /\ Together /\ Shares /\ Flag

(* And behind EstimateExact and OneDivisor: what the partial sums hold      *)
(* between a loop and PE 0's reduction at step 4, and the sums after it.    *)
Done(p, l, c) == phase[p] = LoopPhase[l] /\ handled[l][c] = iter[p]

Pending(p, l, c) ==
  IF c % ARCHI_CLUSTER_NB_PE = p /\ Done(p, l, c) /\ pos[0] <= 4 THEN 1 ELSE 0

SumsInv ==
  /\ total_power \in [PEs -> Sums] /\ TotalAlpha \in [PEs -> Sums]
  /\ divisor \in [Cores -> Sums]
  /\ \A p \in 1 .. ARCHI_CLUSTER_NB_PE - 2, c \in Cores :
       total_power[p][c] = Pending(p, "power", c)
  /\ \A p \in PEs \ {0}, c \in Cores : TotalAlpha[p][c] = Pending(p, "alpha", c)
  /\ phase[0] = 2 /\ pos[0] > 4 =>
       estimated_total_power = ServedBy(1 .. ARCHI_CLUSTER_NB_PE - 2)
  /\ phase[0] = 3 /\ pos[0] > 4 => TotalAlpha[0] = ServedBy(PEs \ {0})
  /\ \A c \in Cores : Done(c % ARCHI_CLUSTER_NB_PE, "normalise", c) =>
       divisor[c] = ServedBy(PEs \ {0})
=============================================================================
