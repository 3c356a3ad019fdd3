---------------------------------- MODULE Fll ----------------------------------
(***************************************************************************)
(* The frequency-locked loops (sw/pulp-runtime kernel/fll-v1.c and         *)
(* kernel/freq-domains.c): what the runtime has recorded about each FLL,   *)
(* and the multiplier and divider its configuration register holds.  An    *)
(* FLL that is not on only has its frequency recorded; pos_fll_init turns  *)
(* it on.  The lock of the hardware itself is not modelled: the register   *)
(* is the frequency the FLL goes to.                                       *)
(***************************************************************************)
EXTENDS Integers

CONSTANTS
  Freqs,      \* frequencies programs ask for, from 2 Hz to below 2^29
  SocFreq,    \* what pos_soc_init notes for every domain
  BootMults, BootDivs   \* what reset or the boot code leaves in CONF1

(* include/chips/control-pulp/soc.h and include/pulp.h.                     *)
Domains == {"FC", "CL", "PERIPH"}
pos_freq_get_fll(domain) ==
  CASE domain = "FC" -> 0 [] domain = "PERIPH" -> 1 [] domain = "CL" -> 2
Flls == 0 .. 2

VARIABLES
  pos_freq_domains,             \* the frequency asked for each domain
  pos_fll_freq, pos_fll_is_on,
  conf1,      \* of each FLL: mult_factor, clock_out_divider
  set         \* history: how each FLL was when a program last set it

fllVars == <<pos_freq_domains, pos_fll_freq, pos_fll_is_on, conf1, set>>

\* The factor of a shift.
Exp2[n \in 0 .. 30] == IF n = 0 THEN 1 ELSE 2 * Exp2[n - 1]

(* ARCHI_REF_CLOCK and FLL_LOG2_MAXM.                                       *)
RefLog2 == 15
Ref     == Exp2[RefLog2]
MaxLog2 == 29 - RefLog2

(* __FL1, the position of the leading one.                                  *)
FL1(x) == CHOOSE i \in 0 .. 30 : Exp2[i] <= x /\ x \div 2 < Exp2[i]

\* Mutant: the divider field is taken for the shift, one too few.
mult_div_from_freq_NoOffset(freq) ==
  LET Log2M == FL1(freq) - RefLog2
      half  == (MaxLog2 - Log2M) \div 2
      D     == IF half < 1 THEN 1 ELSE half
      M     == (freq * Exp2[D]) \div Ref
  IN  [mult |-> M, div |-> D, fres |-> (Ref * M + Exp2[D - 1]) \div Exp2[D]]

(* As high a multiplier as the oscillator allows, and the divider that      *)
(* brings the frequency back; the frequency recorded is the rounded one.    *)
mult_div_from_freq(freq) ==
  LET Log2M == FL1(freq) - RefLog2
      half  == (MaxLog2 - Log2M) \div 2
      D     == IF half < 1 THEN 1 ELSE half
      M     == (freq * Exp2[D]) \div Ref
  IN  [mult |-> M, div |-> D + 1, fres |-> (Ref * M + Exp2[D - 1]) \div Exp2[D]]

(* "FreqOut = Fref * Mult/2^(Div-1)".                                       *)
freq_from_mult_div(mult, div) == (Ref * mult) \div Exp2[div - 1]

(* At 1 Hz the frequency rounds to none at all.  What the boot leaves is a  *)
(* frequency that rounding keeps, as the reset value is (fll_v1.h:110:      *)
(* multiplier 0x5f5, divider 1): from divider 3 up, the second start of a   *)
(* cluster may record another frequency than the register's.                *)
FllAssumption ==
  /\ Freqs \union {SocFreq} \subseteq 2 .. Exp2[29] - 1
  /\ BootMults \subseteq 1 .. Exp2[15] /\ BootDivs \subseteq 1 .. 15
  /\ \A mult \in BootMults, div \in BootDivs :
       LET freq == freq_from_mult_div(mult, div)
       IN  freq \in 2 .. Exp2[29] - 1 /\ mult_div_from_freq(freq).fres = freq

(* On FLL f, whose hardware is written only when it is on.                  *)
pos_fll_set_freq(f, freq) ==
  LET new == mult_div_from_freq(freq)
  IN  /\ pos_fll_freq' = [pos_fll_freq EXCEPT ![f] = new.fres]
      /\ conf1' = IF pos_fll_is_on[f] THEN [conf1 EXCEPT ![f] = <<new.mult, new.div>>]
                                      ELSE conf1

pos_freq_set_and_get(domain, freq) ==
  LET f == pos_freq_get_fll(domain)
  IN  /\ pos_fll_set_freq(f, freq)
      /\ pos_freq_domains' = [pos_freq_domains EXCEPT ![domain] = freq]
      /\ set' = [set EXCEPT ![f] = IF pos_fll_is_on[f] THEN "on" ELSE "off"]
      /\ UNCHANGED pos_fll_is_on

(* pos_fll_init, called by cluster_start each time a cluster is started: a  *)
(* recorded frequency is set again, or the register's frequency recorded;   *)
(* only then is the FLL marked as on.                                       *)
pos_fll_init(f) ==
  /\ IF pos_fll_freq[f] # 0
       THEN pos_fll_set_freq(f, pos_fll_freq[f])
       ELSE /\ pos_fll_freq' = [pos_fll_freq EXCEPT
                                  ![f] = freq_from_mult_div(conf1[f][1], conf1[f][2])]
            /\ UNCHANGED conf1
  /\ pos_fll_is_on' = [pos_fll_is_on EXCEPT ![f] = TRUE]
  /\ UNCHANGED <<pos_freq_domains, set>>

pos_fll_deinit(f) ==
  /\ pos_fll_is_on' = [pos_fll_is_on EXCEPT ![f] = FALSE]
  /\ UNCHANGED <<pos_freq_domains, pos_fll_freq, conf1, set>>

FllInit ==
  /\ pos_freq_domains = [d \in Domains |-> SocFreq]
  /\ pos_fll_freq = [f \in Flls |-> 0]
  /\ pos_fll_is_on = [f \in Flls |-> FALSE]
  /\ conf1 \in [Flls -> BootMults \X BootDivs]
  /\ set = [f \in Flls |-> "never"]

FllNext ==
  \/ \E d \in Domains, freq \in Freqs : pos_freq_set_and_get(d, freq)
  \/ \E f \in Flls : pos_fll_init(f) \/ pos_fll_deinit(f)

FllSpec == FllInit /\ [][FllNext]_fllVars
-----------------------------------------------------------------------------
Programmed(f) == pos_fll_freq[f] = freq_from_mult_div(conf1[f][1], conf1[f][2])

(* An FLL that is on runs at the frequency the runtime reports, which is    *)
(* the one the last request gave: each start of a cluster sets it again,    *)
(* from the frequency already rounded, and it does not drift away.  Except  *)
(* when the request came while the FLL was off.                             *)
FrequencyKept ==
  /\ \A f \in Flls : pos_fll_is_on[f] /\ set[f] # "off" => Programmed(f)
  /\ \A d \in Domains :
       LET f == pos_freq_get_fll(d)
       IN  set[f] # "never" =>
             pos_fll_freq[f] = mult_div_from_freq(pos_freq_domains[d]).fres

(* fll-v1.c:141: "In case the FLL frequency was set while it was off,       *)
(* update it immediately".  pos_fll_init does not: it calls                 *)
(* pos_fll_set_freq while the FLL still counts as off.                      *)
UpdatedWhenTurnedOn == \A f \in Flls : pos_fll_is_on[f] => Programmed(f)
=============================================================================
