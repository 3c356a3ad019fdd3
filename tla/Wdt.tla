---------------------------------- MODULE Wdt ----------------------------------
(***************************************************************************)
(* The watchdog timer (hw/ips/wdt): a counter the software enables, loads  *)
(* with CLEAR and reads; an overflow detector that turns a wrap of the     *)
(* counter into a one-cycle pulse wdt_rst_o; and a sticky alert bit.       *)
(*                                                                         *)
(* One step is one clock edge, at which every register of the three        *)
(* modules takes its next value; clk_i and hclk_i are the same clock.  The *)
(* inputs of a cycle are an APB access (APB_WRITE and APB_READ, pready is  *)
(* always high) and the alert_clear_i pin.                                 *)
(***************************************************************************)
EXTENDS Integers

CONSTANTS
  MaxCount,     \* 32'hffff_ffff
  InitValues    \* the values software writes to INIT_VALUE

ASSUME WdtAssumption == MaxCount \in Nat /\ MaxCount > 1
ASSUME InitAssumption == InitValues \subseteq 0 .. MaxCount

VARIABLES
  count_mem,                    \* counter_wdt
  past_counter, past2_counter,  \* ovf_detect
  enable, clear,                \* reg_config[ENABLE_BIT], reg_config[CLEAR_BIT]
  reg_init_value,
  reg_alert,
  since,    \* history: cycles since the counter last wrapped, at most Long
  unseen    \* history: a pulse that neither a read of ALERT nor a clear saw

regs == <<count_mem, past_counter, past2_counter, enable, clear,
          reg_init_value, reg_alert>>
vars == <<regs, since, unseen>>

Long == 3

(* An access: to which register, with what data.  COUNTER_VALUE is          *)
(* read-only and its reads change nothing, like those of the other two.     *)
Access ==
  [op : {"none", "read_alert"}]
    \union [op : {"write_config"}, enable : BOOLEAN, clear : BOOLEAN]
    \union [op : {"write_init"}, value : InitValues]
    \union [op : {"write_alert"}, value : BOOLEAN]

ovfwdt_o == past_counter /\ past2_counter

Wraps == ~clear /\ enable /\ count_mem = MaxCount

\* Mutant: the counter stops at all ones.
Counter_Saturates ==
  count_mem' = IF clear THEN reg_init_value
               ELSE IF enable /\ count_mem # MaxCount THEN count_mem + 1
               ELSE count_mem

(* counter_wdt: CLEAR wins over ENABLE.                                     *)
Counter ==
  count_mem' = IF clear THEN reg_init_value
               ELSE IF enable THEN (count_mem + 1) % (MaxCount + 1)
               ELSE count_mem

\* Mutants: all ones is not remembered; the pulse does not clear the latches.
OvfDetect_NotLatched ==
  /\ past_counter'  = (~ovfwdt_o /\ count_mem = MaxCount)
  /\ past2_counter' = (~ovfwdt_o /\ (past2_counter \/ (count_mem = 0 /\ past_counter)))

OvfDetect_NoReset ==
  /\ past_counter'  = (past_counter \/ count_mem = MaxCount)
  /\ past2_counter' = (past2_counter \/ (count_mem = 0 /\ past_counter))

(* ovf_detect: all ones, then zero, then a pulse that clears both latches.  *)
OvfDetect ==
  /\ past_counter'  = (~ovfwdt_o /\ (past_counter \/ count_mem = MaxCount))
  /\ past2_counter' = (~ovfwdt_o /\ (past2_counter \/ (count_mem = 0 /\ past_counter)))

(* reg_config and reg_init_value: CLEAR lasts one cycle unless written      *)
(* again in that cycle.                                                     *)
ConfigRegs(acc) ==
  /\ enable' = IF acc.op = "write_config" THEN acc.enable ELSE enable
  /\ clear' = (acc.op = "write_config" /\ acc.clear)
  /\ reg_init_value' = IF acc.op = "write_init" THEN acc.value ELSE reg_init_value

\* Mutant: a clear wins over the pulse of the same cycle.
AlertReg_ClearWins(acc, alert_clear_i) ==
  reg_alert' =
    /\ ~(alert_clear_i \/ acc.op = "read_alert")
    /\ ovfwdt_o \/ IF acc.op = "write_alert" THEN acc.value ELSE reg_alert

(* reg_alert: a write, undone by a read or the pin, undone by the pulse.    *)
AlertReg(acc, alert_clear_i) ==
  reg_alert' =
    \/ ovfwdt_o
    \/ /\ ~(alert_clear_i \/ acc.op = "read_alert")
       /\ IF acc.op = "write_alert" THEN acc.value ELSE reg_alert

History(acc, alert_clear_i) ==
  /\ since' = IF Wraps THEN 0 ELSE IF since < Long THEN since + 1 ELSE Long
  /\ unseen' =
       \/ ovfwdt_o
       \/ /\ unseen
          /\ ~alert_clear_i
          /\ ~(acc.op = "read_alert" /\ reg_alert)
          /\ ~(acc.op = "write_alert" /\ ~acc.value)

Init ==
  /\ count_mem = 0
  /\ past_counter = FALSE /\ past2_counter = FALSE
  /\ enable = FALSE /\ clear = FALSE
  /\ reg_init_value = 1
  /\ reg_alert = FALSE
  /\ since = Long /\ unseen = FALSE

Cycle(acc, alert_clear_i) ==
  /\ Counter /\ OvfDetect
  /\ ConfigRegs(acc) /\ AlertReg(acc, alert_clear_i)
  /\ History(acc, alert_clear_i)

(* rst_ni and hreset_ni, asserted together.                                 *)
Reset ==
  /\ count_mem' = 0
  /\ past_counter' = FALSE /\ past2_counter' = FALSE
  /\ enable' = FALSE /\ clear' = FALSE
  /\ reg_init_value' = 1
  /\ reg_alert' = FALSE
  /\ since' = Long /\ unseen' = FALSE

Edge == \E acc \in Access, alert_clear_i \in BOOLEAN : Cycle(acc, alert_clear_i)

Next == Edge \/ Reset

Spec == Init /\ [][Next]_vars

(* The clock runs.                                                          *)
FairSpec == Spec /\ WF_vars(Edge)

-----------------------------------------------------------------------------
TypeOK ==
  /\ count_mem \in 0 .. MaxCount
  /\ past_counter \in BOOLEAN /\ past2_counter \in BOOLEAN
  /\ enable \in BOOLEAN /\ clear \in BOOLEAN
  /\ reg_init_value \in InitValues \union {1}
  /\ reg_alert \in BOOLEAN
  /\ since \in 0 .. Long /\ unseen \in BOOLEAN

(* The initial values for which the overflow detector is right: it looks    *)
(* at the values of the counter, not at how the counter came by them, so a  *)
(* CLEAR that loads all ones or zero can be taken for one end of a wrap.    *)
SaneInit == InitValues \subseteq 1 .. (MaxCount - 1)

(* "sticky alert when wdt overflow": the pulse comes one cycle after the    *)
(* wrap, whatever the software does meanwhile, and the alert one later.     *)
EveryOverflowReported ==
  /\ since = 1 => ovfwdt_o
  /\ since = 2 => reg_alert

(* "single cycle pulse when wdt overflows": a pulse only after a wrap.      *)
NoSpuriousPulse == ovfwdt_o => since = 1

(* A pulse is never lost between the read that clears the alert and the     *)
(* pulse that sets it: the alert is up until someone saw it or cleared it.  *)
NoLostAlert == unseen => reg_alert

(* A watchdog that is left enabled and not cleared barks again and again.   *)
BarksUnlessKicked == <>[](enable /\ ~clear) => []<>ovfwdt_o

-----------------------------------------------------------------------------
(* The inductive invariant: what the two latches say of the last wrap.      *)
Latches ==
  /\ past2_counter => past_counter
  /\ since = 0 => count_mem = 0 /\ past_counter /\ ~past2_counter
  /\ since = 1 => past2_counter /\ count_mem < MaxCount
  /\ past2_counter => since = 1
  /\ count_mem = 0 /\ past_counter => since \in {0, 1}

IInv ==
  TypeOK /\ Latches /\ EveryOverflowReported /\ NoSpuriousPulse /\ NoLostAlert
=============================================================================
