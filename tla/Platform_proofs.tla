--------------------------- MODULE Platform_proofs ---------------------------
(***************************************************************************)
(* What the firmware finds on the platform, for every value of the         *)
(* constants: the watchdog counts and alerts right, a ring of the mailbox  *)
(* is answered once, lines printed with printf come out whole, and a       *)
(* frequency is kept over every start of the cluster.  (The control loop   *)
(* on the cluster has a module of its own.)                                *)
(***************************************************************************)
EXTENDS Wdt, Mailbox, Stdio, Fll, Arithmetic

-----------------------------------------------------------------------------
(* The watchdog, for every width of its counter: loaded with values away   *)
(* from the two ends it pulses exactly once after each wrap, and the alert *)
(* bit loses none of the pulses, in whatever cycle the software accesses it. *)

(* After power-up the invariant holds.                                      *)
LEMMA WdtInitOK == Init => IInv
<1> SUFFICES ASSUME Init PROVE IInv
  OBVIOUS
<1> USE WdtAssumption DEF Init, Long
<1>1. TypeOK
  <2>1. count_mem \in 0 .. MaxCount /\ since \in 0 .. Long
    OBVIOUS
  <2> QED BY <2>1 DEF TypeOK
<1>2. Latches /\ EveryOverflowReported /\ NoSpuriousPulse /\ NoLostAlert
  BY DEF Latches, EveryOverflowReported, NoSpuriousPulse, NoLostAlert, ovfwdt_o
<1> QED BY <1>1, <1>2 DEF IInv

(* A reset establishes it again.                                            *)
LEMMA WdtResetOK == ASSUME Reset PROVE IInv'
<1> USE WdtAssumption DEF Reset, Long
<1>1. TypeOK'
  <2>1. count_mem' \in 0 .. MaxCount /\ since' \in 0 .. Long
    OBVIOUS
  <2> QED BY <2>1 DEF TypeOK
<1>2. Latches' /\ EveryOverflowReported' /\ NoSpuriousPulse' /\ NoLostAlert'
  BY DEF Latches, EveryOverflowReported, NoSpuriousPulse, NoLostAlert, ovfwdt_o
<1> QED BY <1>1, <1>2 DEF IInv

(* A wrap and a pulse never fall in the same cycle, so that the pulse       *)
(* cannot clear the latch the wrap sets.                                    *)
LEMMA WrapMeetsNoPulse == IInv => ~(Wraps /\ ovfwdt_o)
  BY WdtAssumption DEF IInv, TypeOK, Latches, Wraps, ovfwdt_o

(* A clock edge keeps it, whatever the access of the cycle.                 *)
LEMMA WdtCycleOK ==
  ASSUME SaneInit, IInv, NEW acc \in Access, NEW alert_clear_i \in BOOLEAN,
         Cycle(acc, alert_clear_i)
  PROVE  IInv'
<1>1. TypeOK'
  <2>1. count_mem' \in 0 .. MaxCount
    BY WdtAssumption DEF Cycle, Counter, IInv, TypeOK, SaneInit
  <2>2. past_counter' \in BOOLEAN /\ past2_counter' \in BOOLEAN
    BY DEF Cycle, OvfDetect
  <2>3. enable' \in BOOLEAN /\ clear' \in BOOLEAN
        /\ reg_init_value' \in InitValues \union {1}
    BY DEF Cycle, ConfigRegs, IInv, TypeOK, Access
  <2>4. reg_alert' \in BOOLEAN /\ unseen' \in BOOLEAN
    BY DEF Cycle, AlertReg, History
  <2>5. since' \in 0 .. Long
    BY DEF Cycle, History, IInv, TypeOK, Long
  <2> QED BY <2>1, <2>2, <2>3, <2>4, <2>5 DEF TypeOK
<1>2. reg_init_value \in 1 .. (MaxCount - 1)
  BY WdtAssumption DEF IInv, TypeOK, SaneInit
<1>3. Latches'
  <2>1. CASE Wraps
    <3>1. count_mem = MaxCount /\ count_mem' = 0 /\ ~ovfwdt_o /\ since' = 0
      BY <2>1, WrapMeetsNoPulse, WdtAssumption DEF Wraps, Cycle, Counter, History
    <3>2. past_counter'
      BY <3>1 DEF Cycle, OvfDetect
    <3>3. ~past2_counter'
      <4>1. ~past2_counter
        BY <3>1 DEF IInv, Latches, ovfwdt_o
      <4>2. count_mem # 0
        BY <3>1, WdtAssumption
      <4> QED BY <4>1, <4>2 DEF Cycle, OvfDetect
    <3> QED BY <3>1, <3>2, <3>3 DEF Latches
  <2>2. CASE ~Wraps
    <3>1. /\ since' = IF since < Long THEN since + 1 ELSE Long
          /\ since \in 0 .. 3 /\ since' # 0 /\ (since' = 1 <=> since = 0)
      BY <2>2 DEF Cycle, History, IInv, TypeOK, Long
    <3>2. count_mem' = 0 => count_mem = 0
      BY <2>2, <1>2, WdtAssumption DEF Cycle, Counter, Wraps, IInv, TypeOK
    <3>3. since = 0 => count_mem' < MaxCount
      BY <1>2, WdtAssumption DEF Cycle, Counter, IInv, Latches, TypeOK
    <3>4. past2_counter' <=> count_mem = 0 /\ past_counter /\ ~past2_counter
      BY DEF Cycle, OvfDetect, IInv, Latches, TypeOK, ovfwdt_o
    <3>5. past_counter' <=> ~past2_counter /\ (past_counter \/ count_mem = MaxCount)
      BY DEF Cycle, OvfDetect, IInv, Latches, TypeOK, ovfwdt_o
    <3>6. past2_counter' <=> since = 0
      BY <3>4 DEF IInv, Latches
    <3>7. count_mem' = 0 /\ past_counter' => since = 0
      BY <3>2, <3>5, WdtAssumption DEF IInv, Latches
    <3> QED BY <3>1, <3>3, <3>4, <3>5, <3>6, <3>7 DEF Latches
  <2> QED BY <2>1, <2>2
<1>4. NoSpuriousPulse'
  BY <1>3 DEF Latches, NoSpuriousPulse, ovfwdt_o
<1>5. EveryOverflowReported'
  <2>1. since' = 1 => ovfwdt_o'
    BY <1>3 DEF Latches, ovfwdt_o
  <2>2. since' = 2 => since = 1
    BY DEF Cycle, History, IInv, TypeOK, Long
  <2>3. since = 1 => reg_alert'
    BY DEF IInv, EveryOverflowReported, Cycle, AlertReg
  <2> QED BY <2>1, <2>2, <2>3 DEF EveryOverflowReported
<1>6. NoLostAlert'
  <2> SUFFICES ASSUME unseen', ~ovfwdt_o PROVE reg_alert'
    BY DEF NoLostAlert, Cycle, AlertReg
  <2>1. /\ unseen /\ reg_alert /\ ~alert_clear_i /\ acc.op # "read_alert"
        /\ acc.op = "write_alert" => acc.value
    BY DEF Cycle, History, IInv, NoLostAlert
  <2> QED BY <2>1 DEF Cycle, AlertReg
<1> QED BY <1>1, <1>3, <1>4, <1>5, <1>6 DEF IInv

(* The invariant is inductive for every access in every cycle.              *)
THEOREM WdtInductive ==
  ASSUME SaneInit
  PROVE  Spec => []IInv
<1>1. IInv /\ [Next]_vars => IInv'
  <2> SUFFICES ASSUME IInv, [Next]_vars PROVE IInv'
    OBVIOUS
  <2>1. CASE Edge
    BY <2>1, WdtCycleOK DEF Edge
  <2>2. CASE Reset
    BY <2>2, WdtResetOK
  <2>3. CASE UNCHANGED vars
    BY <2>3 DEF vars, regs, IInv, TypeOK, Latches, EveryOverflowReported,
                NoSpuriousPulse, NoLostAlert, ovfwdt_o
  <2> QED BY <2>1, <2>2, <2>3 DEF Next
<1> QED BY <1>1, WdtInitOK, PTL DEF Spec

(* Every register keeps its range; the counter never leaves its width.      *)
THEOREM WdtTypes ==
  ASSUME SaneInit
  PROVE  Spec => []TypeOK
<1>1. IInv => TypeOK
  BY DEF IInv
<1> QED BY <1>1, WdtInductive, PTL

(* One cycle after each wrap the pulse is out, two after it the alert.      *)
THEOREM OverflowReported ==
  ASSUME SaneInit
  PROVE  Spec => []EveryOverflowReported
<1>1. IInv => EveryOverflowReported
  BY DEF IInv
<1> QED BY <1>1, WdtInductive, PTL

(* No pulse without a wrap: the system is not reset for nothing.            *)
THEOREM PulseMeansOverflow ==
  ASSUME SaneInit
  PROVE  Spec => []NoSpuriousPulse
<1>1. IInv => NoSpuriousPulse
  BY DEF IInv
<1> QED BY <1>1, WdtInductive, PTL

(* The alert bit stays up until the pulse it records was seen or cleared.   *)
THEOREM AlertKept ==
  ASSUME SaneInit
  PROVE  Spec => []NoLostAlert
<1>1. IInv => NoLostAlert
  BY DEF IInv
<1> QED BY <1>1, WdtInductive, PTL

-----------------------------------------------------------------------------
(* The mailbox, for every length of the message and every number of times  *)
(* the agent's program is started: each ring is answered at most once, by a *)
(* handler that has seen the whole message, and nothing of it is left in   *)
(* either interrupt controller when the agent goes on.                     *)

(* At reset there is no ring to answer.                                     *)
LEMMA MailboxInitOK == ASSUME MailboxAssumption PROVE MailboxInit => MailboxInv
<1> SUFFICES ASSUME MailboxInit PROVE MailboxInv
  OBVIOUS
<1>1. MailboxTypes
  <2>1. memory \in 0 .. Words
    BY DEF MailboxInit, MailboxAssumption
  <2>2. doorbell \in BOOLEAN /\ completion \in BOOLEAN
    BY DEF MailboxInit
  <2>3. pending \subseteq Sides /\ served \subseteq Sides /\ rings \in Nat /\ answers \in Nat
    BY DEF MailboxInit
  <2>4. agent = "prio" /\ handler = "none"
    BY DEF MailboxInit
  <2> QED BY <2>1, <2>2, <2>3, <2>4 DEF MailboxTypes
<1>2. answers = rings /\ Answered
  BY DEF MailboxInit, Answered
<1>3. MessageWhole
  BY DEF MailboxInit, MessageWhole
<1> QED BY <1>1, <1>2, <1>3 DEF MailboxInv

(* What the agent does before it rings disturbs nothing.                    *)
LEMMA BeforeRing ==
  ASSUME MailboxAssumption, MailboxInv, SetUp \/ WriteWord \/ ReadBack
  PROVE  MailboxInv'
<1> USE DEF MailboxAssumption, MailboxInv, MailboxTypes, MessageWhole, Answered, Unanswered, AgentAt, counts
<1>1. CASE SetUp
  BY <1>1 DEF SetUp, SetPrio, Enable
<1>2. CASE WriteWord
  BY <1>2 DEF WriteWord, plic
<1>3. CASE ReadBack
  BY <1>3 DEF ReadBack, plic
<1> QED BY <1>1, <1>2, <1>3

(* A ring turns an answered state into an unanswered one.                   *)
LEMMA RingOK == ASSUME MailboxInv, Ring PROVE MailboxInv'
<1> USE DEF MailboxInv, MailboxTypes, MessageWhole, Answered, Unanswered, AgentAt, plic, Ring
<1>1. answers = rings /\ Answered /\ rings' = rings + 1 /\ answers' = answers
  OBVIOUS
<1>2. MailboxTypes'
  OBVIOUS
<1>3. answers' = rings' - 1 /\ Unanswered'
  BY <1>1
<1> QED BY <1>2, <1>3

(* The agent waits, hears of the answer and clears up after it.             *)
LEMMA AfterRing ==
  ASSUME MailboxInv, AgentClaim \/ Wake \/ ClearCompletion \/ AgentComplete \/ Restart
  PROVE  MailboxInv'
<1> USE DEF MailboxInv, MailboxTypes, MessageWhole, Answered, Unanswered, AgentAt, counts, Sides
<1>1. CASE AgentClaim
  <2>1. CASE Interrupt("agent")
    <3>1. answers = rings /\ Answered /\ agent = "claim" /\ agent' = "clear"
      BY <1>1, <2>1 DEF AgentClaim, Interrupt
    <3> QED BY <1>1, <2>1, <3>1 DEF AgentClaim, Claim
  <2>2. CASE ~Interrupt("agent")
    BY <1>1, <2>2 DEF AgentClaim, plic
  <2> QED BY <2>1, <2>2
<1>2. CASE Wake
  BY <1>2 DEF Wake, plic
<1>3. CASE ClearCompletion
  BY <1>3 DEF ClearCompletion, plic
<1>4. CASE AgentComplete
  BY <1>4 DEF AgentComplete, Complete
<1>5. CASE Restart
  BY <1>5 DEF Restart, plic
<1> QED BY <1>1, <1>2, <1>3, <1>4, <1>5

(* The platform takes the ring and clears up before it reads the message.   *)
LEMMA PlatformOK == ASSUME MailboxInv, PlatformMain \/ EnterHandler \/ Handler PROVE MailboxInv'
<1> USE DEF MailboxInv, MailboxTypes, MessageWhole, Answered, Unanswered, counts, Sides, After
<1>1. CASE PlatformMain
  BY <1>1 DEF PlatformMain, PlatformAt, SetPrio, Enable, plic
<1>2. CASE EnterHandler
  BY <1>2 DEF EnterHandler, Interrupt, plic
<1>3. CASE PlatformClaim
  <2>1. Unanswered /\ answers = rings - 1
    BY <1>3 DEF PlatformClaim
  <2> QED BY <1>3, <2>1 DEF PlatformClaim, Claim
<1>4. CASE ClearDoorbell
  BY <1>4 DEF ClearDoorbell, plic
<1>5. CASE PlatformComplete
  BY <1>5 DEF PlatformComplete, Complete
<1>6. CASE ReadMessage
  <2>1. Unanswered /\ answers = rings - 1 /\ memory = Words
    BY <1>6 DEF ReadMessage
  <2>2. /\ completion' = TRUE /\ answers' = answers + 1 /\ handler' = "none"
        /\ UNCHANGED <<agent, memory, doorbell, pending, served, rings>>
    BY <1>6, <2>1 DEF ReadMessage, plic
  <2>3. MailboxTypes' /\ MessageWhole'
    BY <2>1, <2>2
  <2>4. answers' = rings'
    BY <2>1, <2>2
  <2>5. /\ agent \in {"claim", "wfi"} /\ ~doorbell /\ "platform" \notin pending \union served
        /\ "agent" \notin pending \union served
    BY <1>6, <2>1 DEF ReadMessage
  <2>6. Answered'
    BY <2>2, <2>5
  <2> QED BY <2>3, <2>4, <2>6
<1> QED BY <1>1, <1>2, <1>3, <1>4, <1>5, <1>6 DEF Handler

(* A controller latches only what has not been served.                      *)
LEMMA LatchOK == ASSUME MailboxInv, NEW t \in Sides, Latch(t) PROVE MailboxInv'
<1> USE DEF MailboxInv, MailboxTypes, MessageWhole, Answered, Unanswered, counts, Sides, Latch, Line
<1>1. CASE t = "agent"
  BY <1>1
<1>2. CASE t = "platform"
  BY <1>2
<1> QED BY <1>1, <1>2

(* The invariant is inductive, whichever side comes first.                  *)
THEOREM MailboxInductive == ASSUME MailboxAssumption PROVE MailboxSpec => []MailboxInv
<1>1. MailboxInv /\ [MailboxNext]_mailboxVars => MailboxInv'
  <2> SUFFICES ASSUME MailboxInv, [MailboxNext]_mailboxVars PROVE MailboxInv'
    OBVIOUS
  <2>1. CASE MailboxNext
    BY <2>1, BeforeRing, RingOK, AfterRing, PlatformOK, LatchOK DEF MailboxNext, Agent
  <2>2. CASE UNCHANGED mailboxVars
    BY <2>2 DEF mailboxVars, plic, counts, MailboxInv, MailboxTypes, MessageWhole, Answered, Unanswered
  <2> QED BY <2>1, <2>2
<1> QED BY <1>1, MailboxInitOK, PTL DEF MailboxSpec

(* A ring has at most one answer, and leaves no interrupt behind.           *)
THEOREM AnsweredOnce == ASSUME MailboxAssumption PROVE MailboxSpec => []OneAnswerPerRing
<1>1. MailboxInv => OneAnswerPerRing
  BY DEF MailboxInv, MailboxTypes, Answered, Unanswered, OneAnswerPerRing
<1> QED BY <1>1, MailboxInductive, PTL

-----------------------------------------------------------------------------
(* Printing, for every number of cores, lines and characters: as long as all *)
(* cores use printf no line is broken into by another, and no character is *)
(* lost between the one-byte buffer and the uDMA.                          *)

(* Before anything is printed.                                              *)
LEMMA StdioInitOK == ASSUME StdioAssumption PROVE StdioInit => StdioInv
<1> SUFFICES ASSUME StdioInit PROVE StdioInv
  OBVIOUS
<1>1. StdioTypes
  <2>1. how \in [Printers -> {"printf", "puts"}] /\ line \in [Printers -> Nat] /\ queued \in Nat
        /\ io_lock \in BOOLEAN
    BY DEF StdioInit
  <2>2. at \in [Printers -> {"idle", "lock"} \union Section]
    BY DEF StdioInit
  <2>3. k \in [Printers -> 1 .. LineLen]
    BY DEF StdioInit, StdioAssumption
  <2>4. stream \in Seq(Bytes)
    BY DEF StdioInit
  <2>5. ~(queued > 0 \/ \E c \in Printers : at[c] = "enqueue")
    BY DEF StdioInit
  <2> QED BY <2>1, <2>2, <2>3, <2>4, <2>5 DEF StdioTypes
<1>2. OneHolder
  BY DEF StdioInit, OneHolder, Printing, Section
<1>3. Progress
  BY DEF StdioInit, Progress, Printing, Section
<1>4. LinesWhole
  BY DEF StdioInit, LinesWhole
<1> QED BY <1>1, <1>2, <1>3, <1>4 DEF StdioInv

(* Every variable keeps its type, with or without the lock.                 *)
LEMMA CoreTypes ==
  ASSUME StdioAssumption, StdioTypes, NEW c \in Printers, Core(c)
  PROVE  StdioTypes'
<1> USE DEF StdioTypes, At, uart
<1>1. CASE Begin(c)
  BY <1>1 DEF Begin, StdioAssumption, Section
<1>2. CASE uart_io_lock(c)
  BY <1>2 DEF uart_io_lock, Section
<1>3. CASE Putc(c)
  <2>1. Char(c) \in Bytes
    BY DEF Char, Bytes
  <2> QED BY <1>3, <2>1 DEF Putc, Section
<1>4. CASE Enqueue(c)
  BY <1>4 DEF Enqueue, Section
<1>5. CASE UdmaDone(c)
  BY <1>5 DEF UdmaDone, Section
<1>6. CASE TxDone(c)
  <2>1. k' \in [Printers -> 1 .. LineLen]
    BY <1>6 DEF TxDone, StdioAssumption
  <2>2. at' \in [Printers -> {"idle", "lock"} \union Section]
    BY <1>6 DEF TxDone, Section
  <2>3. (\E d \in Printers : at'[d] = "enqueue") => \E d \in Printers : at[d] = "enqueue"
    BY <1>6 DEF TxDone
  <2>4. UNCHANGED <<how, line, io_lock, buffer, queued, stream>>
    BY <1>6 DEF TxDone
  <2> QED BY <2>1, <2>2, <2>3, <2>4
<1>7. CASE uart_io_unlock(c)
  BY <1>7 DEF uart_io_unlock, Section
<1> QED BY <1>1, <1>2, <1>3, <1>4, <1>5, <1>6, <1>7 DEF Core

LEMMA HardwareTypes == ASSUME StdioTypes, Hardware PROVE StdioTypes'
<1> USE DEF StdioTypes
<1>1. CASE Fetch
  <2>1. stream' \in Seq(Bytes) /\ queued' \in Nat
    BY <1>1 DEF Fetch
  <2> QED BY <1>1, <2>1 DEF Fetch
<1>2. CASE StartTx
  BY <1>2 DEF StartTx
<1>3. CASE EndTx
  BY <1>3 DEF EndTx
<1> QED BY <1>1, <1>2, <1>3 DEF Hardware

-----------------------------------------------------------------------------
(* With the lock: one lemma per action.                                     *)
Good == OneHolder /\ Progress /\ LinesWhole

LEMMA BeginGood ==
  ASSUME StdioAssumption, StdioTypes, Locked, Good, NEW c \in Printers, Begin(c)
  PROVE  Good'
<1> USE DEF StdioTypes, Good
<1>1. /\ at[c] = "idle" /\ at' = [at EXCEPT ![c] = "lock"]
      /\ k' = [k EXCEPT ![c] = 1] /\ line' = [line EXCEPT ![c] = @ + 1]
      /\ UNCHANGED <<how, io_lock, buffer, queued, stream>>
  BY DEF Begin, At, Locked, uart
<1>2. \A d \in Printers : d # c => at'[d] = at[d] /\ k'[d] = k[d] /\ line'[d] = line[d]
  BY <1>1
<1>3. at'[c] = "lock" /\ k'[c] = 1
  BY <1>1, StdioAssumption
<1>4. ~Printing(c) /\ ~Printing(c)'
  BY <1>1, <1>3 DEF Printing, Section
<1>5. \A d \in Printers : Printing(d)' <=> Printing(d)
  BY <1>2, <1>4 DEF Printing
<1>6. OneHolder'
  BY <1>1, <1>5 DEF OneHolder
<1>7. \A d \in Printers : d # c => Char(d)' = Char(d) /\ (Fetched(d)' <=> Fetched(d))
  BY <1>1, <1>2 DEF Char, Fetched
<1>8. \A b : Fits(b)' <=> Fits(b)
  BY <1>1 DEF Fits, Follows
<1>9. Progress'
  BY <1>1, <1>2, <1>3, <1>4, <1>5, <1>7, <1>8 DEF Progress
<1>10. LinesWhole'
  BY <1>1 DEF LinesWhole, Locked, Follows
<1> QED BY <1>6, <1>9, <1>10

LEMMA LockGood ==
  ASSUME StdioAssumption, StdioTypes, Locked, Good, NEW c \in Printers, uart_io_lock(c)
  PROVE  Good'
<1> USE DEF StdioTypes, Good
<1>1. /\ at[c] = "lock" /\ at' = [at EXCEPT ![c] = "putc"]
      /\ ~io_lock /\ io_lock' = TRUE
      /\ UNCHANGED <<how, line, k, buffer, queued, stream>>
  BY DEF uart_io_lock, At, uart
<1>2. \A d \in Printers : ~Printing(d)
  BY <1>1 DEF OneHolder
<1>3. \A d \in Printers : d # c => at'[d] = at[d]
  BY <1>1
<1>4. \A d \in Printers : Printing(d)' <=> d = c
  BY <1>1, <1>2, <1>3 DEF Printing, Section
<1>5. OneHolder'
  BY <1>1, <1>4 DEF OneHolder
<1>6. ~Fetched(c)' /\ k'[c] = 1 /\ Char(c)'.k = 1
  BY <1>1 DEF Fetched, Progress, Char
<1>7. Fits(Char(c))'
  <2>1. stream' = <<>> \/ ~(stream'[Len(stream')].k < LineLen)
    BY <1>1, StdioAssumption DEF Progress, StdioAssumption
  <2> QED BY <1>6, <2>1 DEF Fits, Follows
<1>8. queued' = 0
  <2>1. \A d \in Printers : at[d] # "udma"
    BY <1>2 DEF Printing, Section
  <2> QED BY <1>1, <2>1 DEF Progress
<1>9. \A d \in Printers : at'[d] \notin {"enqueue", "udma", "unlock"}
  BY <1>1, <1>2, <1>3 DEF Printing, Section
<1>10. Progress'
  BY <1>1, <1>3, <1>4, <1>6, <1>7, <1>8, <1>9 DEF Progress
<1>11. LinesWhole'
  BY <1>1 DEF LinesWhole, Locked, Follows
<1> QED BY <1>5, <1>10, <1>11

(* A step of the holder from one point of its line to the next.             *)
LEMMA HolderMoves ==
  ASSUME StdioTypes, OneHolder, NEW c \in Printers, Printing(c), NEW to \in Section,
         at' = [at EXCEPT ![c] = to], io_lock' = io_lock
  PROVE  /\ \A d \in Printers : d # c => ~Printing(d) /\ ~Printing(d)' /\ at'[d] = at[d]
         /\ at'[c] = to /\ Printing(c)' /\ OneHolder' /\ io_lock'
<1> USE DEF StdioTypes
<1>1. \A d \in Printers : d # c => ~Printing(d) /\ ~Printing(d)' /\ at'[d] = at[d]
  BY DEF OneHolder, Printing
<1>2. at'[c] = to /\ Printing(c)'
  BY DEF Printing
<1> QED BY <1>1, <1>2 DEF OneHolder

LEMMA PutcGood ==
  ASSUME StdioAssumption, StdioTypes, Locked, Good, NEW c \in Printers, Putc(c)
  PROVE  Good'
<1> USE DEF StdioTypes, Good
<1>1. /\ at[c] = "putc" /\ at' = [at EXCEPT ![c] = "enqueue"] /\ buffer' = Char(c)
      /\ UNCHANGED <<how, line, k, io_lock, queued, stream>>
  BY DEF Putc, At, uart
<1>2. Printing(c)
  BY <1>1 DEF Printing, Section
<1>3. /\ \A d \in Printers : d # c => ~Printing(d) /\ ~Printing(d)' /\ at'[d] = at[d]
      /\ at'[c] = "enqueue" /\ Printing(c)' /\ OneHolder' /\ io_lock'
  BY <1>1, <1>2, HolderMoves DEF Section
<1>4. ~Fetched(c) /\ ~Fetched(c)' /\ Char(c)' = Char(c)
  BY <1>1, <1>3 DEF Fetched, Char
<1>5. Fits(Char(c))'
  BY <1>1, <1>2, <1>4 DEF Progress, Fits, Follows
<1>6. queued' = 0
  <2>1. \A d \in Printers : at[d] # "udma"
    BY <1>1, <1>3 DEF Printing, Section
  <2> QED BY <1>1, <2>1 DEF Progress
<1>7. \A d \in Printers : d # c => at'[d] \notin {"enqueue", "udma", "unlock"}
  BY <1>3 DEF Printing, Section
<1>8. Progress'
  BY <1>1, <1>3, <1>4, <1>5, <1>6, <1>7 DEF Progress
<1>9. LinesWhole'
  BY <1>1 DEF LinesWhole, Locked, Follows
<1> QED BY <1>3, <1>8, <1>9

LEMMA EnqueueGood ==
  ASSUME StdioAssumption, StdioTypes, Locked, Good, NEW c \in Printers, Enqueue(c)
  PROVE  Good'
<1> USE DEF StdioTypes, Good
<1>1. /\ at[c] = "enqueue" /\ at' = [at EXCEPT ![c] = "udma"]
      /\ queued' = IF queued < 2 THEN queued + 1 ELSE queued
      /\ UNCHANGED <<how, line, k, io_lock, buffer, stream>>
  BY DEF Enqueue, At
<1>2. Printing(c)
  BY <1>1 DEF Printing, Section
<1>3. /\ \A d \in Printers : d # c => ~Printing(d) /\ ~Printing(d)' /\ at'[d] = at[d]
      /\ at'[c] = "udma" /\ Printing(c)' /\ OneHolder' /\ io_lock'
  BY <1>1, <1>2, HolderMoves DEF Section
<1>4. queued = 0 /\ queued' = 1
  <2>1. \A d \in Printers : at[d] # "udma"
    BY <1>1, <1>3 DEF Printing, Section
  <2> QED BY <1>1, <2>1 DEF Progress
<1>5. ~Fetched(c) /\ ~Fetched(c)' /\ Char(c)' = Char(c)
  BY <1>1, <1>3, <1>4 DEF Fetched, Char
<1>6. Fits(Char(c))' /\ buffer' = Char(c)'
  BY <1>1, <1>2, <1>5 DEF Progress, Fits, Follows
<1>7. \A d \in Printers : d # c => at'[d] \notin {"enqueue", "udma", "unlock"}
  BY <1>3 DEF Printing, Section
<1>8. Progress'
  BY <1>1, <1>3, <1>4, <1>5, <1>6, <1>7 DEF Progress
<1>9. LinesWhole'
  BY <1>1 DEF LinesWhole, Locked, Follows
<1> QED BY <1>3, <1>8, <1>9

LEMMA UdmaDoneGood ==
  ASSUME StdioAssumption, StdioTypes, Locked, Good, NEW c \in Printers, UdmaDone(c)
  PROVE  Good'
<1> USE DEF StdioTypes, Good
<1>1. /\ at[c] = "udma" /\ at' = [at EXCEPT ![c] = "tx"] /\ queued = 0
      /\ UNCHANGED <<how, line, k, io_lock, buffer, queued, stream>>
  BY DEF UdmaDone, At, uart
<1>2. Printing(c)
  BY <1>1 DEF Printing, Section
<1>3. /\ \A d \in Printers : d # c => ~Printing(d) /\ ~Printing(d)' /\ at'[d] = at[d]
      /\ at'[c] = "tx" /\ Printing(c)' /\ OneHolder' /\ io_lock'
  BY <1>1, <1>2, HolderMoves DEF Section
<1>4. Fetched(c) /\ Fetched(c)' /\ Char(c)' = Char(c)
  BY <1>1, <1>3 DEF Fetched, Char
<1>5. stream' # <<>> /\ stream'[Len(stream')] = Char(c)'
  BY <1>1, <1>2, <1>4 DEF Progress
<1>6. \A d \in Printers : d # c => at'[d] \notin {"enqueue", "udma", "unlock"}
  BY <1>3 DEF Printing, Section
<1>7. Progress'
  BY <1>1, <1>3, <1>4, <1>5, <1>6 DEF Progress
<1>8. LinesWhole'
  BY <1>1 DEF LinesWhole, Locked, Follows
<1> QED BY <1>3, <1>7, <1>8

(* The last character of a line leads to the lock's release, any other to   *)
(* the next character, which fits.                                          *)
LEMMA TxDoneGood ==
  ASSUME StdioAssumption, StdioTypes, Locked, Good, NEW c \in Printers, TxDone(c)
  PROVE  Good'
<1> USE DEF StdioTypes, Good
<1>1. /\ at[c] = "tx" /\ UNCHANGED <<how, line, io_lock, buffer, queued, stream>>
      /\ stream # <<>> /\ stream[Len(stream)] = Char(c) /\ how[c] = "printf"
  <2>1. Printing(c) /\ Fetched(c) /\ at[c] = "tx"
    BY DEF TxDone, At, Printing, Fetched, Section
  <2> QED BY <2>1 DEF TxDone, uart, Progress, Locked
<1>2. Printing(c)
  BY <1>1 DEF Printing, Section
<1>3. queued = 0
  <2>1. \A d \in Printers : at[d] # "udma"
    BY <1>1, <1>2 DEF OneHolder, Printing, Section
  <2> QED BY <2>1 DEF Progress
<1>4. LinesWhole'
  BY <1>1 DEF LinesWhole, Locked, Follows
<1>5. CASE k[c] < LineLen
  <2>1. at' = [at EXCEPT ![c] = "putc"] /\ k' = [k EXCEPT ![c] = @ + 1]
    BY <1>5 DEF TxDone, At
  <2>2. /\ \A d \in Printers : d # c => ~Printing(d) /\ ~Printing(d)' /\ at'[d] = at[d]
        /\ at'[c] = "putc" /\ Printing(c)' /\ OneHolder' /\ io_lock'
    BY <2>1, <1>1, <1>2, HolderMoves DEF Section
  <2>3. ~Fetched(c)'
    BY <2>2 DEF Fetched
  <2>4. Char(c)' = [Char(c) EXCEPT !.k = @ + 1] /\ Char(c).k < LineLen
    <3>1. k'[c] = k[c] + 1 /\ line' = line
      BY <2>1, <1>1
    <3>2. Char(c)' = [core |-> c, line |-> line[c], k |-> k[c] + 1]
      BY <3>1 DEF Char
    <3> QED BY <3>2, <1>5 DEF Char
  <2>5. Fits(Char(c))'
    BY <2>4, <1>1 DEF Fits, Follows
  <2>6. \A d \in Printers : at'[d] \notin {"enqueue", "udma", "unlock"}
    BY <2>2 DEF Printing, Section
  <2>7. \A d \in Printers : d # c => k'[d] = k[d]
    BY <2>1
  <2>8. Progress'
    BY <2>2, <2>3, <2>5, <2>6, <2>7, <1>1, <1>3 DEF Progress
  <2> QED BY <2>2, <2>8, <1>4
<1>6. CASE ~(k[c] < LineLen)
  <2>1. at' = [at EXCEPT ![c] = "unlock"] /\ k' = k /\ k[c] = LineLen
    <3>1. at' = [at EXCEPT ![c] = "unlock"] /\ k' = k
      BY <1>1, <1>6 DEF TxDone, At
    <3>2. k[c] \in 1 .. LineLen /\ LineLen \in Nat
      BY StdioAssumption DEF StdioAssumption
    <3> QED BY <1>6, <3>1, <3>2
  <2>2. /\ \A d \in Printers : d # c => ~Printing(d) /\ ~Printing(d)' /\ at'[d] = at[d]
        /\ at'[c] = "unlock" /\ Printing(c)' /\ OneHolder' /\ io_lock'
    BY <2>1, <1>1, <1>2, HolderMoves DEF Section
  <2>3. Fetched(c)' /\ Char(c)' = Char(c)
    BY <2>1, <2>2, <1>1 DEF Fetched, Char
  <2>4. \A d \in Printers : d # c => at'[d] \notin {"enqueue", "udma", "unlock"}
    BY <2>2 DEF Printing, Section
  <2>5. Progress'
    BY <2>1, <2>2, <2>3, <2>4, <1>1, <1>3 DEF Progress
  <2> QED BY <2>2, <2>5, <1>4
<1> QED BY <1>5, <1>6

LEMMA UnlockGood ==
  ASSUME StdioAssumption, StdioTypes, Locked, Good, NEW c \in Printers, uart_io_unlock(c)
  PROVE  Good'
<1> USE DEF StdioTypes, Good
<1>1. /\ at[c] = "unlock" /\ at' = [at EXCEPT ![c] = "idle"] /\ io_lock' = FALSE
      /\ UNCHANGED <<how, line, k, buffer, queued, stream>>
  BY DEF uart_io_unlock, At, uart
<1>2. Printing(c) /\ Fetched(c) /\ k[c] = LineLen
  BY <1>1 DEF Printing, Fetched, Section, Progress
<1>3. stream # <<>> /\ stream[Len(stream)].k = LineLen
  <2>1. stream # <<>> /\ stream[Len(stream)] = Char(c)
    BY <1>2 DEF Progress
  <2> QED BY <2>1, <1>2 DEF Char
<1>4. \A d \in Printers : ~Printing(d)' /\ (d # c => at'[d] = at[d])
  BY <1>1, <1>2 DEF OneHolder, Printing, Section
<1>5. queued' = 0
  <2>1. \A d \in Printers : at[d] # "udma"
    BY <1>1, <1>2 DEF OneHolder, Printing, Section
  <2> QED BY <2>1, <1>1 DEF Progress
<1>6. OneHolder'
  BY <1>1, <1>4 DEF OneHolder
<1>7. \A d \in Printers : at'[d] \notin {"enqueue", "udma", "unlock"}
  BY <1>4 DEF Printing, Section
<1>8. \A d \in Printers : at'[d] = "lock" => k'[d] = 1
  BY <1>1, <1>4 DEF Progress
<1>9. Progress'
  BY <1>1, <1>3, <1>4, <1>5, <1>7, <1>8 DEF Progress
<1>10. LinesWhole'
  BY <1>1 DEF LinesWhole, Locked, Follows
<1> QED BY <1>6, <1>9, <1>10

(* The uDMA takes the byte the holder waits for, and that byte fits.        *)
LEMMA FetchGood ==
  ASSUME StdioAssumption, StdioTypes, Locked, Good, Fetch
  PROVE  Good'
<1> USE DEF StdioTypes, Good
<1>1. /\ queued > 0 /\ queued' = queued - 1 /\ stream' = Append(stream, buffer)
      /\ UNCHANGED <<how, at, line, k, io_lock, buffer>>
  BY DEF Fetch
<1>2. PICK c \in Printers : at[c] = "udma"
  BY <1>1 DEF Progress
<1>3. queued = 1 /\ queued' = 0
  BY <1>1 DEF Progress
<1>4. Printing(c) /\ ~Fetched(c) /\ buffer = Char(c) /\ Fits(Char(c)) /\ io_lock
  BY <1>2, <1>3 DEF Printing, Fetched, Section, Progress, OneHolder
<1>5. \A d \in Printers : d # c => ~Printing(d)
  BY <1>4 DEF OneHolder
<1>6. buffer \in Bytes
  BY <1>1
<1>7. /\ stream' # <<>> /\ Len(stream') = Len(stream) + 1 /\ Len(stream) \in Nat
      /\ stream'[Len(stream')] = buffer
      /\ \A i \in 1 .. Len(stream) : stream'[i] = stream[i]
  <2> HIDE DEF StdioTypes, Good
  <2>1. stream \in Seq(Bytes) /\ stream' = Append(stream, buffer)
    BY <1>1 DEF StdioTypes
  <2> QED BY <2>1, <1>6
<1>8. OneHolder'
  BY <1>1 DEF OneHolder, Printing
<1>9. Progress'
  <2>1. Printing(c)' /\ Fetched(c)' /\ Char(c)' = Char(c)
    BY <1>1, <1>2, <1>3, <1>4 DEF Printing, Fetched, Char
  <2>2. stream'[Len(stream')] = Char(c)'
    BY <1>4, <1>7, <2>1
  <2>3. \A d \in Printers : d # c => ~Printing(d)' /\ at'[d] \notin Section
    BY <1>1, <1>5 DEF Printing
  <2>4. at'[c] = "udma" /\ buffer' = Char(c)' /\ io_lock'
    BY <1>1, <1>2, <1>4, <2>1
  <2>5. \A d \in Printers : at'[d] = "lock" => k'[d] = 1
    BY <1>1 DEF Progress
  <2> QED BY <1>3, <1>7, <2>1, <2>2, <2>3, <2>4, <2>5 DEF Progress, Section
<1>10. LinesWhole'
  <2>1. stream'[1].k = 1
    <3>1. CASE stream = <<>>
      BY <3>1, <1>4, <1>7 DEF Fits
    <3>2. CASE stream # <<>>
      <4>1. 1 \in 1 .. Len(stream)
        BY <3>2
      <4> QED BY <3>2, <4>1, <1>7 DEF LinesWhole
    <3> QED BY <3>1, <3>2
  <2>2. ASSUME NEW i \in 1 .. Len(stream') - 1 PROVE Follows(stream'[i], stream'[i + 1])
    <3>1. i \in 1 .. Len(stream) /\ stream'[i] = stream[i] /\ stream # <<>>
      BY <1>7
    <3>2. CASE i < Len(stream)
      <4>1. i \in 1 .. Len(stream) - 1 /\ i + 1 \in 1 .. Len(stream)
        BY <1>7, <3>1, <3>2
      <4>2. Follows(stream[i], stream[i + 1])
        BY <4>1 DEF LinesWhole
      <4> QED BY <4>1, <4>2, <3>1, <1>7
    <3>3. CASE i = Len(stream)
      <4>1. Follows(stream[Len(stream)], Char(c))
        BY <1>4, <3>1 DEF Fits
      <4>2. stream'[i] = stream[Len(stream)] /\ stream'[i + 1] = Char(c)
        BY <1>4, <1>7, <3>1, <3>3
      <4> QED BY <4>1, <4>2
    <3> QED BY <1>7, <3>1, <3>2, <3>3
  <2>3. \A i \in 1 .. Len(stream') - 1 : (Follows(stream[i], stream[i + 1]))'
    BY <2>2 DEF Follows
  <2> QED BY <2>1, <2>3 DEF LinesWhole
<1> QED BY <1>8, <1>9, <1>10

(* The transmitter has no part in it.                                       *)
LEMMA TransmitterGood ==
  ASSUME StdioTypes, Locked, Good, UNCHANGED <<how, at, line, k, io_lock, buffer, queued, stream>>
  PROVE  Good'
<1>1. OneHolder'
  BY DEF Good, OneHolder, Printing
<1>2. Progress'
  BY DEF Good, Progress, Printing, Fetched, Char, Fits, Follows
<1>3. LinesWhole'
  BY DEF Good, LinesWhole, Locked, Follows
<1> QED BY <1>1, <1>2, <1>3 DEF Good

-----------------------------------------------------------------------------
(* The invariant is inductive, for cores at any relative speed.             *)
THEOREM StdioInductive == ASSUME StdioAssumption PROVE StdioSpec => []StdioInv
<1>1. ASSUME StdioInv, [StdioNext]_stdioVars PROVE StdioInv'
  <2>1. StdioTypes /\ (Locked => Good)
    BY <1>1 DEF StdioInv, Good
  <2>2. StdioTypes' /\ how' = how
    <3>1. CASE \E c \in Printers : Core(c)
      <4> PICK c \in Printers : Core(c)
        BY <3>1
      <4>1. StdioTypes'
        BY <2>1, CoreTypes
      <4>2. how' = how
        BY DEF Core, Begin, uart_io_lock, Putc, Enqueue, UdmaDone, TxDone, uart_io_unlock
      <4> QED BY <4>1, <4>2
    <3>2. CASE Hardware
      <4>1. StdioTypes'
        BY <2>1, <3>2, HardwareTypes
      <4>2. how' = how
        BY <3>2 DEF Hardware, Fetch, StartTx, EndTx
      <4> QED BY <4>1, <4>2
    <3>3. CASE UNCHANGED stdioVars
      BY <2>1, <3>3 DEF stdioVars, uart, StdioTypes
    <3> QED BY <1>1, <3>1, <3>2, <3>3 DEF StdioNext
  <2>3. ASSUME Locked PROVE Good'
    <3>1. Good
      BY <2>1, <2>3
    <3>2. ASSUME NEW c \in Printers, Core(c) PROVE Good'
      BY <2>1, <2>3, <3>1, <3>2, BeginGood, LockGood, PutcGood, EnqueueGood, UdmaDoneGood,
         TxDoneGood, UnlockGood DEF Core
    <3>3. CASE Fetch
      BY <2>1, <2>3, <3>1, <3>3, FetchGood
    <3>4. CASE StartTx \/ EndTx \/ UNCHANGED stdioVars
      <4>1. UNCHANGED <<how, at, line, k, io_lock, buffer, queued, stream>>
        BY <3>4 DEF StartTx, EndTx, stdioVars, uart
      <4> QED BY <2>1, <2>3, <3>1, <4>1, TransmitterGood
    <3> QED BY <1>1, <3>2, <3>3, <3>4 DEF StdioNext, Hardware
  <2>4. Locked' <=> Locked
    BY <2>2 DEF Locked
  <2> QED BY <2>2, <2>3, <2>4 DEF StdioInv, Good
<1>2. StdioInit => StdioInv
  BY StdioInitOK
<1> QED BY <1>1, <1>2, PTL DEF StdioSpec

(* However many cores print at once, with printf their lines come out whole.*)
THEOREM PrintfWhole == ASSUME StdioAssumption PROVE StdioSpec => []LinesWhole
<1>1. StdioInv => LinesWhole
  BY DEF StdioInv, LinesWhole
<1> QED BY <1>1, StdioInductive, PTL

-----------------------------------------------------------------------------
(* The FLLs, for all frequencies in range.  First, powers of two.          *)

LEMMA Exp2Is ==
  Exp2[0] = 1 /\ \A n \in 1 .. 30 : Exp2[n] = 2 * Exp2[n - 1]
<1> DEFINE Unfold(h) == [n \in 0 .. 30 |-> IF n = 0 THEN 1 ELSE 2 * h[n - 1]]
           step == [n \in 1 .. 30 |-> [x \in Nat |-> 2 * x]]
<1>1. PICK g \in [0 .. 30 -> Nat] : Obeys(g, 1, 30, step)
  <2>1. step \in Rules(30, Nat)
    BY DEF Rules
  <2> HIDE DEF step
  <2> QED BY <2>1, Recursion
<1>2. g = Unfold(g)
  <2> SUFFICES ASSUME NEW n \in 0 .. 30 PROVE g[n] = Unfold(g)[n]
    OBVIOUS
  <2>1. n = 0 \/ (n \in 1 .. 30 /\ n - 1 \in 0 .. 30)
    OBVIOUS
  <2> QED BY <2>1, <1>1 DEF Obeys
<1>3. Exp2 = CHOOSE h : h = Unfold(h)
  BY DEF Exp2
<1>4. Exp2 = Unfold(Exp2)
  <2> HIDE DEF Unfold
  <2> QED BY <1>2, <1>3
<1> QED BY <1>4

LEMMA Exp2Type == \A n \in 0 .. 30 : Exp2[n] \in Nat \ {0}
<1> DEFINE T == {n \in Nat : n <= 30 => Exp2[n] \in Nat \ {0}}
<1>1. 0 \in T
  BY Exp2Is
<1>2. ASSUME NEW n \in Nat, n \in T PROVE n + 1 \in T
  <2> SUFFICES ASSUME n + 1 <= 30 PROVE Exp2[n + 1] \in Nat \ {0}
    OBVIOUS
  <2>1. Exp2[n] \in Nat \ {0} /\ n + 1 \in 1 .. 30 /\ (n + 1) - 1 = n
    BY <1>2
  <2>2. Exp2[n + 1] = 2 * Exp2[n]
    BY <2>1, Exp2Is
  <2> QED BY <2>1, <2>2
<1>3. Nat \subseteq T
  <2> HIDE DEF T
  <2> QED BY <1>1, <1>2, SetInduction
<1> QED BY <1>3

LEMMA Exp2Sum ==
  ASSUME NEW m \in Nat, NEW n \in Nat, m + n <= 30
  PROVE  Exp2[m + n] = Exp2[m] * Exp2[n]
<1> DEFINE T == {x \in Nat : m + x <= 30 => Exp2[m + x] = Exp2[m] * Exp2[x]}
<1>1. 0 \in T
  <2>1. Exp2[m] \in Nat /\ m + 0 = m
    BY Exp2Type
  <2> QED BY <2>1, Exp2Is
<1>2. ASSUME NEW x \in Nat, x \in T PROVE x + 1 \in T
  <2> SUFFICES ASSUME m + (x + 1) <= 30 PROVE Exp2[m + (x + 1)] = Exp2[m] * Exp2[x + 1]
    OBVIOUS
  <2>1. Exp2[m + x] = Exp2[m] * Exp2[x]
    BY <1>2
  <2>2. x + 1 \in 1 .. 30 /\ (x + 1) - 1 = x /\ m + (x + 1) \in 1 .. 30
        /\ (m + (x + 1)) - 1 = m + x /\ m \in 0 .. 30 /\ x \in 0 .. 30
    OBVIOUS
  <2>3. Exp2[x + 1] = 2 * Exp2[x] /\ Exp2[m + (x + 1)] = 2 * Exp2[m + x]
    BY <2>2, Exp2Is
  <2>4. Exp2[m] \in Nat /\ Exp2[x] \in Nat
    BY <2>2, Exp2Type
  <2>5. 2 * (Exp2[m] * Exp2[x]) = Exp2[m] * (2 * Exp2[x])
    BY <2>4
  <2> QED BY <2>1, <2>3, <2>5
<1>3. Nat \subseteq T
  <2> HIDE DEF T
  <2> QED BY <1>1, <1>2, SetInduction
<1> QED BY <1>3

LEMMA Exp2Grows ==
  ASSUME NEW m \in 0 .. 30, NEW n \in 0 .. 30, m <= n
  PROVE  Exp2[m] <= Exp2[n]
<1>1. n - m \in Nat /\ m + (n - m) = n
  OBVIOUS
<1>2. Exp2[n] = Exp2[m] * Exp2[n - m]
  BY <1>1, Exp2Sum
<1>3. Exp2[m] \in Nat \ {0} /\ Exp2[n - m] \in Nat \ {0}
  BY <1>1, Exp2Type
<1> DEFINE x == Exp2[m]
           y == Exp2[n - m]
<1> HIDE DEF x, y
<1>4. x \in Nat /\ y \in Nat /\ 1 <= y => x <= x * y
  <2> SUFFICES ASSUME x \in Nat, y \in Nat, 1 <= y PROVE x <= x * y
    OBVIOUS
  <2>1. y - 1 \in Nat /\ x * (y - 1) \in Nat /\ x * y = x * (y - 1) + x
    OBVIOUS
  <2> QED BY <2>1
<1> QED BY <1>2, <1>3, <1>4 DEF x, y

\* The leading one of a frequency.
LEMMA Leads ==
  ASSUME NEW x \in Nat, NEW e \in 0 .. 29, Exp2[e] <= x, x < 2 * Exp2[e]
  PROVE  FL1(x) = e
<1>1. \A d \in 0 .. 30 : Exp2[d] \in Nat
  BY Exp2Type
<1>2. x \div 2 < Exp2[e]
  BY <1>1
<1>3. ASSUME NEW d \in 0 .. 30, Exp2[d] <= x, x \div 2 < Exp2[d] PROVE d = e
  <2>1. x < 2 * Exp2[d]
    BY <1>1, <1>3
  <2>2. ~(d < e)
    <3> SUFFICES ASSUME d < e PROVE FALSE
      OBVIOUS
    <3>1. Exp2[d + 1] <= Exp2[e] /\ Exp2[d + 1] = 2 * Exp2[d]
      <4>1. d + 1 \in 1 .. 30 /\ d + 1 <= e /\ (d + 1) - 1 = d
        OBVIOUS
      <4> QED BY <4>1, Exp2Grows, Exp2Is
    <3> QED BY <3>1, <2>1, <1>1
  <2>3. ~(e < d)
    <3> SUFFICES ASSUME e < d PROVE FALSE
      OBVIOUS
    <3>1. Exp2[e + 1] <= Exp2[d] /\ Exp2[e + 1] = 2 * Exp2[e]
      <4>1. e + 1 \in 1 .. 30 /\ e + 1 <= d /\ (e + 1) - 1 = e
        OBVIOUS
      <4> QED BY <4>1, Exp2Grows, Exp2Is
    <3> QED BY <3>1, <1>3, <1>1
  <2> QED BY <2>2, <2>3
<1>4. e \in 0 .. 30
  OBVIOUS
<1> QED BY <1>2, <1>3, <1>4 DEF FL1

Sane == 2 .. Exp2[29] - 1

LEMMA LeadingOne ==
  ASSUME NEW freq \in Sane
  PROVE  FL1(freq) \in 1 .. 28 /\ Exp2[FL1(freq)] <= freq /\ freq < 2 * Exp2[FL1(freq)]
<1>1. Exp2[29] \in Nat /\ freq \in Nat /\ 2 <= freq /\ freq < Exp2[29]
  BY Exp2Type DEF Sane
<1> DEFINE T == {n \in 0 .. 29 : freq < Exp2[n]}
<1>2. PICK n \in T : \A y \in T : n <= y
  <2>1. T \in SUBSET Nat /\ 29 \in T
    BY <1>1
  <2> HIDE DEF T
  <2> QED BY <2>1, Least
<1>3. Exp2[0] = 1 /\ Exp2[1] = 2
  <2>1. 1 \in 1 .. 30 /\ 1 - 1 = 0
    OBVIOUS
  <2> QED BY <2>1, Exp2Is
<1>4. n # 0 /\ n # 1
  BY <1>1, <1>2, <1>3
<1>5. n - 1 \in 1 .. 28 /\ n \in 1 .. 30
  BY <1>2, <1>4
<1>6. Exp2[n] = 2 * Exp2[n - 1]
  BY <1>5, Exp2Is
<1>7. n - 1 \notin T
  BY <1>2, <1>5
<1>8. Exp2[n - 1] \in Nat
  BY <1>5, Exp2Type
<1>9. Exp2[n - 1] <= freq /\ freq < 2 * Exp2[n - 1]
  BY <1>1, <1>2, <1>5, <1>6, <1>7, <1>8
<1>10. FL1(freq) = n - 1
  BY <1>1, <1>5, <1>9, Leads
<1> QED BY <1>5, <1>9, <1>10

-----------------------------------------------------------------------------
(* The multiplier and the divider.                                         *)

Shift(freq) ==
  LET half == (MaxLog2 - (FL1(freq) - RefLog2)) \div 2 IN IF half < 1 THEN 1 ELSE half
Grain(freq) == Exp2[15 - Shift(freq)]

LEMMA ShiftIs ==
  ASSUME NEW freq \in Sane
  PROVE  Shift(freq) \in 1 .. 14 /\ 15 - Shift(freq) <= FL1(freq)
  BY LeadingOne DEF Shift, MaxLog2, RefLog2

\* What is below the grain is lost, and nothing else.
LEMMA MultDiv ==
  ASSUME NEW freq \in Nat, Shift(freq) \in 1 .. 14
  PROVE  /\ Grain(freq) \in Nat \ {0}
         /\ mult_div_from_freq(freq) =
              [mult |-> freq \div Grain(freq), div |-> Shift(freq) + 1,
               fres |-> (freq \div Grain(freq)) * Grain(freq)]
<1> DEFINE D == Shift(freq)
           P == Exp2[D]
           H == Exp2[D - 1]
           G == Exp2[15 - D]
           M == (freq * P) \div Ref
           q == freq \div G
<1>1. P \in Nat \ {0} /\ G \in Nat \ {0} /\ H \in Nat /\ H < P
  <2>1. D \in 1 .. 30 /\ D - 1 \in 0 .. 30 /\ 15 - D \in 0 .. 30
    OBVIOUS
  <2>2. P \in Nat \ {0} /\ G \in Nat \ {0} /\ H \in Nat \ {0} /\ P = 2 * H
    BY <2>1, Exp2Type, Exp2Is
  <2> QED BY <2>2
<1>2. Ref = P * G
  <2>1. D \in Nat /\ 15 - D \in Nat /\ D + (15 - D) = 15
    OBVIOUS
  <2>2. Exp2[D + (15 - D)] = Exp2[D] * Exp2[15 - D]
    BY <2>1, Exp2Sum
  <2> QED BY <2>1, <2>2 DEF Ref, RefLog2
<1>3. mult_div_from_freq(freq) = [mult |-> M, div |-> D + 1, fres |-> (Ref * M + H) \div P]
  BY DEF mult_div_from_freq, Shift
<1> HIDE DEF D, P, G, H
<1>4. q \in Nat /\ q * G <= freq /\ freq < q * G + G
  BY <1>1, Quotients
<1> HIDE DEF q
<1>5. M = q
  <2>1. q * (P * G) = (q * G) * P /\ (q * G) * P \in Nat
    BY <1>1, <1>4
  <2>2. freq * P \in Nat /\ P * G \in Nat \ {0}
    BY <1>1
  <2>3. (q * G) * P <= freq * P
    <3>1. freq - q * G \in Nat
      BY <1>1, <1>4
    <3>2. (freq - q * G) * P \in Nat
      BY <3>1, <1>1
    <3>3. freq * P = (q * G) * P + (freq - q * G) * P
      BY <1>1, <1>4
    <3> QED BY <3>2, <3>3, <2>1, <2>2
  <2>4. freq * P < (q * G) * P + P * G
    <3>1. q * G + G - freq - 1 \in Nat
      BY <1>1, <1>4
    <3>2. (q * G + G - freq - 1) * P \in Nat
      BY <3>1, <1>1
    <3>3. (q * G) * P + P * G = freq * P + (q * G + G - freq - 1) * P + P
      BY <1>1, <1>4
    <3> QED BY <3>2, <3>3, <2>1, <2>2, <1>1
  <2>5. (freq * P) \div (P * G) = q
    <3> DEFINE a == freq * P
               b == P * G
    <3>1. a \in Nat /\ b \in Nat \ {0} /\ q * b <= a /\ a < q * b + b
      BY <2>1, <2>2, <2>3, <2>4
    <3> HIDE DEF a, b
    <3>2. a \div b = q
      BY <3>1, <1>4, Quotient
    <3> QED BY <3>2 DEF a, b
  <2> QED BY <2>5, <1>2
<1>6. (Ref * q + H) \div P = q * G
  <2>1. Ref * q = (q * G) * P /\ q * G \in Nat /\ (q * G) * P \in Nat
    BY <1>1, <1>2, <1>4
  <2> DEFINE n == Ref * q + H
             x == q * G
  <2>2. x \in Nat /\ x * P \in Nat /\ n = x * P + H
    BY <2>1
  <2> HIDE DEF x, n
  <2>3. n \in Nat /\ x * P <= n /\ n < x * P + P
    BY <2>2, <1>1
  <2>4. n \div P = x
    BY <2>2, <2>3, <1>1, Quotient
  <2> QED BY <2>4 DEF x, n
<1>7. Grain(freq) = G
  BY DEF Grain, G, D
<1> QED BY <1>1, <1>3, <1>5, <1>6, <1>7 DEF q, D

\* The rounded frequency has the same leading one, so that it is not rounded again.
LEMMA RoundedKept ==
  ASSUME NEW freq \in Sane
  PROVE  LET new == mult_div_from_freq(freq)
         IN  /\ new.fres \in Sane
             /\ mult_div_from_freq(new.fres) = new
             /\ new.mult \in Nat /\ new.div \in Nat
             /\ freq_from_mult_div(new.mult, new.div) = new.fres
<1> DEFINE e == FL1(freq)
           D == Shift(freq)
           G == Grain(freq)
           q == freq \div G
           fres == q * G
<1>1. freq \in Nat /\ e \in 1 .. 28 /\ Exp2[e] <= freq /\ freq < 2 * Exp2[e] /\ freq < Exp2[29]
      /\ D \in 1 .. 14 /\ 15 - D <= e
  <2>1. freq \in Nat /\ freq < Exp2[29]
    BY Exp2Type DEF Sane
  <2> QED BY <2>1, LeadingOne, ShiftIs
<1>2. G \in Nat \ {0}
      /\ mult_div_from_freq(freq) = [mult |-> q, div |-> D + 1, fres |-> fres]
  BY <1>1, MultDiv
<1>3. G = Exp2[15 - D]
  BY DEF Grain
<1> HIDE DEF G
<1>4. q \in Nat /\ fres \in Nat /\ fres <= freq /\ freq < fres + G
  BY <1>1, <1>2, Quotients
<1>5. Exp2[e] <= fres
  <2>1. e - (15 - D) \in Nat /\ 15 - D \in Nat /\ (e - (15 - D)) + (15 - D) = e
    BY <1>1
  <2> DEFINE c == Exp2[e - (15 - D)]
  <2>2. c \in Nat /\ Exp2[e] = c * G
    <3>1. Exp2[(e - (15 - D)) + (15 - D)] = Exp2[e - (15 - D)] * Exp2[15 - D]
      BY <2>1, <1>1, Exp2Sum
    <3>2. e - (15 - D) \in 0 .. 30
      BY <2>1, <1>1
    <3> QED BY <3>1, <3>2, <2>1, <1>3, Exp2Type
  <2> HIDE DEF c, q
  <2>3. c <= q
    <3> SUFFICES ASSUME q < c PROVE FALSE
      BY <1>4, <2>2
    <3>1. c - q - 1 \in Nat
      BY <1>4, <2>2
    <3>2. (c - q - 1) * G \in Nat /\ c * G = (c - q - 1) * G + q * G + G
      BY <3>1, <1>2, <1>4, <2>2
    <3>3. c * G <= freq /\ c * G \in Nat
      BY <1>1, <2>2, <1>2
    <3> QED BY <3>2, <3>3, <1>4, <1>1, <1>2
  <2>4. (q - c) * G \in Nat /\ q * G = c * G + (q - c) * G
    <3>1. q - c \in Nat
      BY <2>3, <1>4, <2>2
    <3> QED BY <3>1, <1>2, <1>4, <2>2
  <2> QED BY <2>2, <2>4, <1>2
<1>6. fres \in Sane
  <2>1. Exp2[1] = 2
    <3>1. 1 \in 1 .. 30 /\ 1 - 1 = 0
      OBVIOUS
    <3> QED BY <3>1, Exp2Is
  <2>2. 2 <= Exp2[e]
    <3>1. 1 \in 0 .. 30 /\ e \in 0 .. 30 /\ 1 <= e
      BY <1>1
    <3> QED BY <3>1, <2>1, Exp2Grows
  <2>3. Exp2[29] \in Nat /\ Exp2[e] \in Nat
    BY <1>1, Exp2Type
  <2> HIDE DEF fres
  <2> QED BY <2>2, <2>3, <1>1, <1>4, <1>5 DEF Sane
<1>7. FL1(fres) = e
  <2>1. e \in 0 .. 29 /\ Exp2[e] \in Nat
    BY <1>1, Exp2Type
  <2>2. fres < 2 * Exp2[e]
    <3> HIDE DEF fres
    <3> QED BY <2>1, <1>1, <1>4
  <2> HIDE DEF fres, e
  <2> QED BY <2>1, <2>2, <1>4, <1>5, Leads
<1>8. Shift(fres) = D
  BY <1>7 DEF Shift
<1>9. Grain(fres) = G
  BY <1>8, <1>3 DEF Grain
<1>10. fres \div G = q
  <2> HIDE DEF q
  <2>1. q * G <= fres /\ fres < q * G + G
    BY <1>2, <1>4
  <2> QED BY <2>1, <1>2, <1>4, Quotient
<1>11. mult_div_from_freq(fres) = mult_div_from_freq(freq)
  <2> HIDE DEF fres, q, D
  <2>1. mult_div_from_freq(fres) =
          [mult |-> fres \div Grain(fres), div |-> Shift(fres) + 1,
           fres |-> (fres \div Grain(fres)) * Grain(fres)]
    BY <1>1, <1>4, <1>8, MultDiv
  <2>2. mult_div_from_freq(fres) = [mult |-> q, div |-> D + 1, fres |-> q * G]
    BY <2>1, <1>8, <1>9, <1>10
  <2> QED BY <2>2, <1>2 DEF fres
<1>12. freq_from_mult_div(q, D + 1) = fres
  <2> DEFINE P == Exp2[D]
  <2>1. P \in Nat \ {0} /\ Ref = P * G
    <3>1. D \in Nat /\ 15 - D \in Nat /\ D + (15 - D) = 15 /\ D \in 0 .. 30
      BY <1>1
    <3>2. Exp2[D + (15 - D)] = Exp2[D] * Exp2[15 - D]
      BY <3>1, Exp2Sum
    <3> QED BY <3>1, <3>2, <1>3, Exp2Type DEF Ref, RefLog2
  <2>2. (D + 1) - 1 = D
    BY <1>1
  <2> HIDE DEF q, D, P
  <2>3. Ref * q = (q * G) * P
    BY <2>1, <1>2, <1>4
  <2>4. freq_from_mult_div(q, D + 1) = (fres * P) \div P
    BY <2>2, <2>3 DEF freq_from_mult_div, P, fres
  <2> HIDE DEF fres
  <2>5. fres * P \in Nat /\ fres * P <= fres * P /\ fres * P < fres * P + P
    BY <1>4, <2>1
  <2> QED BY <2>4, <2>5, <2>1, <1>4, Quotient
<1>13. D + 1 \in Nat
  BY <1>1
<1> HIDE DEF q, D, fres
<1> QED BY <1>2, <1>4, <1>6, <1>11, <1>12, <1>13

-----------------------------------------------------------------------------
(* The loops.                                                              *)

Frequency(c) == freq_from_mult_div(c[1], c[2])
Rounded(freq) == mult_div_from_freq(freq).fres

\* An FLL no program has set is still as the boot left it, and reports that
\* from its first start on; one that was set while it was on runs at what it
\* reports, and off or on keeps the frequency that the request gave.
FllInv ==
  /\ pos_freq_domains \in [Domains -> Sane]
  /\ pos_fll_freq \in [Flls -> Nat] /\ pos_fll_is_on \in [Flls -> BOOLEAN]
  /\ conf1 \in [Flls -> Nat \X Nat] /\ set \in [Flls -> {"never", "on", "off"}]
  /\ \A f \in Flls : set[f] = "never" =>
       /\ Frequency(conf1[f]) \in Sane
       /\ Rounded(Frequency(conf1[f])) = Frequency(conf1[f])
       /\ Programmed(f) \/ (pos_fll_freq[f] = 0 /\ ~pos_fll_is_on[f])
  /\ \A f \in Flls : set[f] = "on" => Programmed(f)
  /\ \A d \in Domains : set[pos_freq_get_fll(d)] # "never" =>
       pos_fll_freq[pos_freq_get_fll(d)] = Rounded(pos_freq_domains[d])

LEMMA EachItsOwn ==
  /\ \A d \in Domains : pos_freq_get_fll(d) \in Flls
  /\ \A d, dd \in Domains : pos_freq_get_fll(d) = pos_freq_get_fll(dd) => d = dd
  /\ \A f \in Flls : \E d \in Domains : f = pos_freq_get_fll(d)
<1>1. /\ pos_freq_get_fll("FC") = 0 /\ pos_freq_get_fll("PERIPH") = 1
      /\ pos_freq_get_fll("CL") = 2
  BY DEF pos_freq_get_fll
<1>2. \A d \in Domains : d = "FC" \/ d = "PERIPH" \/ d = "CL"
  BY DEF Domains
<1>3. \A f \in Flls : f = 0 \/ f = 1 \/ f = 2
  BY DEF Flls
<1> QED BY <1>1, <1>2, <1>3 DEF Domains, Flls

LEMMA FllInitOK == ASSUME FllAssumption PROVE FllInit => FllInv
<1> SUFFICES ASSUME FllInit PROVE FllInv
  OBVIOUS
<1>1. /\ pos_freq_domains \in [Domains -> Sane] /\ pos_fll_freq \in [Flls -> Nat]
      /\ pos_fll_is_on \in [Flls -> BOOLEAN] /\ set \in [Flls -> {"never", "on", "off"}]
      /\ \A f \in Flls : set[f] = "never" /\ pos_fll_freq[f] = 0 /\ ~pos_fll_is_on[f]
  BY DEF FllInit, FllAssumption, Sane
<1>2. \A f \in Flls : \E m \in BootMults, n \in BootDivs : conf1[f] = <<m, n>>
  BY DEF FllInit
<1>3. conf1 \in [Flls -> Nat \X Nat]
  <2>1. Exp2[15] \in Nat
    BY Exp2Type
  <2>2. BootMults \subseteq Nat /\ BootDivs \subseteq Nat
    BY <2>1 DEF FllAssumption
  <2> QED BY <2>2 DEF FllInit
<1>4. ASSUME NEW f \in Flls
      PROVE  Frequency(conf1[f]) \in Sane
             /\ Rounded(Frequency(conf1[f])) = Frequency(conf1[f])
  <2>1. PICK m \in BootMults, n \in BootDivs : conf1[f] = <<m, n>>
    BY <1>2
  <2>2. Frequency(conf1[f]) = freq_from_mult_div(m, n)
    BY <2>1 DEF Frequency
  <2> QED BY <2>1, <2>2 DEF FllAssumption, Sane, Rounded
<1> QED BY <1>1, <1>3, <1>4, EachItsOwn DEF FllInv

\* What setting a frequency in range writes.
LEMMA SetFreq ==
  ASSUME FllInv, NEW f \in Flls, NEW freq \in Sane, pos_fll_set_freq(f, freq)
  PROVE  /\ pos_fll_freq' \in [Flls -> Nat] /\ conf1' \in [Flls -> Nat \X Nat]
         /\ pos_fll_freq'[f] = Rounded(freq) /\ Rounded(freq) \in Sane
         /\ pos_fll_is_on[f] => Frequency(conf1'[f]) = Rounded(freq)
         /\ ~pos_fll_is_on[f] => conf1' = conf1
         /\ \A g \in Flls : g # f => pos_fll_freq'[g] = pos_fll_freq[g] /\ conf1'[g] = conf1[g]
<1> DEFINE new == mult_div_from_freq(freq)
<1>1. /\ new.fres \in Sane /\ new.mult \in Nat /\ new.div \in Nat
      /\ freq_from_mult_div(new.mult, new.div) = new.fres
  BY RoundedKept
<1>2. new.fres \in Nat
  BY <1>1, Exp2Type DEF Sane
<1>3. /\ pos_fll_freq' = [pos_fll_freq EXCEPT ![f] = new.fres]
      /\ conf1' = IF pos_fll_is_on[f] THEN [conf1 EXCEPT ![f] = <<new.mult, new.div>>] ELSE conf1
  BY DEF pos_fll_set_freq
<1>4. Rounded(freq) = new.fres
  BY DEF Rounded
<1> HIDE DEF new
<1>5. <<new.mult, new.div>> \in Nat \X Nat
      /\ Frequency(<<new.mult, new.div>>) = new.fres
  BY <1>1 DEF Frequency
<1> DEFINE pair == <<new.mult, new.div>>
<1> HIDE DEF pair
<1>6. /\ conf1 \in [Flls -> Nat \X Nat] /\ pos_fll_freq \in [Flls -> Nat]
  BY DEF FllInv
<1>7. pair \in Nat \X Nat /\ Frequency(pair) = new.fres
      /\ conf1' = IF pos_fll_is_on[f] THEN [conf1 EXCEPT ![f] = pair] ELSE conf1
  BY <1>3, <1>5 DEF pair
<1> QED BY <1>1, <1>2, <1>3, <1>4, <1>6, <1>7

\* A request of a program.
LEMMA SetStep ==
  ASSUME FllAssumption, FllInv, NEW d \in Domains, NEW freq \in Freqs,
         pos_freq_set_and_get(d, freq)
  PROVE  FllInv'
<1> DEFINE f == pos_freq_get_fll(d)
<1>1. f \in Flls /\ \A dd \in Domains : pos_freq_get_fll(dd) = f => dd = d
  BY EachItsOwn
<1>2. freq \in Sane
  BY DEF FllAssumption, Sane
<1>3. /\ pos_fll_set_freq(f, freq)
      /\ pos_freq_domains' = [pos_freq_domains EXCEPT ![d] = freq]
      /\ set' = [set EXCEPT ![f] = IF pos_fll_is_on[f] THEN "on" ELSE "off"]
      /\ pos_fll_is_on' = pos_fll_is_on
  BY DEF pos_freq_set_and_get
<1>4. \A dd \in Domains : pos_freq_get_fll(dd) \in Flls
  BY EachItsOwn
<1>9. pos_freq_get_fll(d) = f
  OBVIOUS
<1> HIDE DEF f
<1>5. /\ pos_fll_freq' \in [Flls -> Nat] /\ conf1' \in [Flls -> Nat \X Nat]
      /\ pos_fll_freq'[f] = Rounded(freq)
      /\ pos_fll_is_on[f] => Frequency(conf1'[f]) = Rounded(freq)
      /\ \A g \in Flls : g # f => pos_fll_freq'[g] = pos_fll_freq[g] /\ conf1'[g] = conf1[g]
  BY <1>1, <1>2, <1>3, SetFreq
<1>6. /\ pos_freq_domains' \in [Domains -> Sane]
      /\ pos_freq_domains'[d] = freq
      /\ \A dd \in Domains : dd # d => pos_freq_domains'[dd] = pos_freq_domains[dd]
      /\ set' \in [Flls -> {"never", "on", "off"}]
      /\ set'[f] = IF pos_fll_is_on[f] THEN "on" ELSE "off"
      /\ \A g \in Flls : g # f => set'[g] = set[g]
  BY <1>1, <1>2, <1>3 DEF FllInv
<1>7. \A g \in Flls : Programmed(g) <=> pos_fll_freq[g] = Frequency(conf1[g])
  BY DEF Programmed, Frequency
<1>8. \A g \in Flls : Programmed(g)' <=> pos_fll_freq'[g] = Frequency(conf1'[g])
  BY DEF Programmed, Frequency
<1>10. ASSUME NEW g \in Flls
       PROVE  /\ set'[g] = "never" =>
                   /\ Frequency(conf1'[g]) \in Sane
                   /\ Rounded(Frequency(conf1'[g])) = Frequency(conf1'[g])
                   /\ Programmed(g)' \/ (pos_fll_freq'[g] = 0 /\ ~pos_fll_is_on'[g])
              /\ set'[g] = "on" => Programmed(g)'
  <2>1. CASE g = f
    BY <2>1, <1>5, <1>6, <1>8
  <2>2. CASE g # f
    BY <2>2, <1>3, <1>5, <1>6, <1>7, <1>8 DEF FllInv
  <2> QED BY <2>1, <2>2
<1>11. ASSUME NEW dd \in Domains, set'[pos_freq_get_fll(dd)] # "never"
       PROVE  pos_fll_freq'[pos_freq_get_fll(dd)] = Rounded(pos_freq_domains'[dd])
  <2>1. CASE dd = d
    BY <2>1, <1>5, <1>6, <1>9
  <2>2. CASE dd # d
    <3>1. pos_freq_get_fll(dd) # f
      BY <1>1, <2>2
    <3> QED BY <3>1, <2>2, <1>4, <1>5, <1>6, <1>11 DEF FllInv
  <2> QED BY <2>1, <2>2
<1>12. pos_fll_is_on' \in [Flls -> BOOLEAN]
  BY <1>3 DEF FllInv
<1> QED BY <1>5, <1>6, <1>10, <1>11, <1>12 DEF FllInv

\* An FLL is started, the first time or again.
LEMMA StartFllStep ==
  ASSUME FllInv, NEW f \in Flls, pos_fll_init(f)
  PROVE  FllInv'
<1>1. /\ pos_fll_is_on' = [pos_fll_is_on EXCEPT ![f] = TRUE]
      /\ pos_freq_domains' = pos_freq_domains /\ set' = set
  BY DEF pos_fll_init
<1>2. \A g \in Flls : Programmed(g) <=> pos_fll_freq[g] = Frequency(conf1[g])
  BY DEF Programmed, Frequency
<1>3. \A g \in Flls : Programmed(g)' <=> pos_fll_freq'[g] = Frequency(conf1'[g])
  BY DEF Programmed, Frequency
<1>4. PICK d \in Domains : f = pos_freq_get_fll(d)
  BY EachItsOwn
<1>5. pos_freq_domains[d] \in Sane
  BY DEF FllInv
<1>6. Rounded(pos_freq_domains[d]) \in Sane
      /\ Rounded(Rounded(pos_freq_domains[d])) = Rounded(pos_freq_domains[d])
  BY <1>5, RoundedKept DEF Rounded
\* What is recorded and what the register says afterwards.
<1>7. /\ pos_fll_freq' \in [Flls -> Nat] /\ conf1' \in [Flls -> Nat \X Nat]
      /\ \A g \in Flls : g # f => pos_fll_freq'[g] = pos_fll_freq[g] /\ conf1'[g] = conf1[g]
      /\ set[f] # "never" => pos_fll_freq'[f] = Rounded(pos_freq_domains[d])
      /\ set[f] = "on" => Programmed(f)'
      /\ set[f] = "never" => /\ Programmed(f)'
                             /\ Frequency(conf1'[f]) = Frequency(conf1[f])
  <2>1. CASE pos_fll_freq[f] # 0
    <3>1. pos_fll_set_freq(f, pos_fll_freq[f])
      BY <2>1 DEF pos_fll_init
    <3>2. set[f] # "never" => pos_fll_freq[f] = Rounded(pos_freq_domains[d])
      BY <1>4 DEF FllInv
    <3>3. set[f] = "never" =>
            /\ pos_fll_freq[f] = Frequency(conf1[f]) /\ pos_fll_freq[f] \in Sane
            /\ Rounded(pos_fll_freq[f]) = pos_fll_freq[f]
      BY <2>1, <1>2 DEF FllInv
    <3>4. pos_fll_freq[f] \in Sane /\ Rounded(pos_fll_freq[f]) = pos_fll_freq[f]
      BY <3>2, <3>3, <1>6
    <3>5. /\ pos_fll_freq' \in [Flls -> Nat] /\ conf1' \in [Flls -> Nat \X Nat]
          /\ pos_fll_freq'[f] = pos_fll_freq[f]
          /\ pos_fll_is_on[f] => Frequency(conf1'[f]) = pos_fll_freq[f]
          /\ ~pos_fll_is_on[f] => conf1' = conf1
          /\ \A g \in Flls : g # f => pos_fll_freq'[g] = pos_fll_freq[g] /\ conf1'[g] = conf1[g]
      BY <3>1, <3>4, SetFreq
    <3>6. set[f] = "on" => pos_fll_freq[f] = Frequency(conf1[f])
      BY <1>2 DEF FllInv
    <3> QED BY <3>2, <3>3, <3>5, <3>6, <1>3
  <2>2. CASE pos_fll_freq[f] = 0
    <3>1. /\ pos_fll_freq' = [pos_fll_freq EXCEPT ![f] = Frequency(conf1[f])]
          /\ conf1' = conf1
      BY <2>2 DEF pos_fll_init, Frequency
    <3>2. set[f] = "never"
      <4> SUFFICES ASSUME set[f] # "never" PROVE FALSE
        OBVIOUS
      <4>1. 0 \in Sane
        BY <2>2, <1>4, <1>6 DEF FllInv
      <4> QED BY <4>1, Exp2Type DEF Sane
    <3>3. Frequency(conf1[f]) \in Nat
      BY <3>2, Exp2Type DEF FllInv, Sane
    <3> QED BY <3>1, <3>2, <3>3, <1>3 DEF FllInv
  <2> QED BY <2>1, <2>2
<1>8. ASSUME NEW g \in Flls
      PROVE  /\ set'[g] = "never" =>
                  /\ Frequency(conf1'[g]) \in Sane
                  /\ Rounded(Frequency(conf1'[g])) = Frequency(conf1'[g])
                  /\ Programmed(g)' \/ (pos_fll_freq'[g] = 0 /\ ~pos_fll_is_on'[g])
             /\ set'[g] = "on" => Programmed(g)'
  <2>1. CASE g = f
    BY <2>1, <1>1, <1>7 DEF FllInv
  <2>2. CASE g # f
    <3>1. pos_fll_is_on'[g] = pos_fll_is_on[g]
      BY <2>2, <1>1 DEF FllInv
    <3> QED BY <2>2, <3>1, <1>1, <1>2, <1>3, <1>7 DEF FllInv
  <2> QED BY <2>1, <2>2
<1>9. ASSUME NEW dd \in Domains, set'[pos_freq_get_fll(dd)] # "never"
      PROVE  pos_fll_freq'[pos_freq_get_fll(dd)] = Rounded(pos_freq_domains'[dd])
  <2>1. CASE dd = d
    BY <2>1, <1>1, <1>4, <1>7, <1>9
  <2>2. CASE dd # d
    <3>1. pos_freq_get_fll(dd) # f /\ pos_freq_get_fll(dd) \in Flls
      BY <1>4, <2>2, EachItsOwn
    <3> QED BY <3>1, <1>1, <1>7, <1>9 DEF FllInv
  <2> QED BY <2>1, <2>2
<1>10. pos_fll_is_on' \in [Flls -> BOOLEAN]
  BY <1>1 DEF FllInv
<1> QED BY <1>1, <1>7, <1>8, <1>9, <1>10 DEF FllInv

\* An FLL is only marked as off.
LEMMA StopFllStep ==
  ASSUME FllInv, NEW f \in Flls, pos_fll_deinit(f)
  PROVE  FllInv'
<1>1. /\ pos_fll_is_on' = [pos_fll_is_on EXCEPT ![f] = FALSE]
      /\ UNCHANGED <<pos_freq_domains, pos_fll_freq, conf1, set>>
  BY DEF pos_fll_deinit
<1>2. /\ pos_fll_is_on' \in [Flls -> BOOLEAN]
      /\ \A g \in Flls : ~pos_fll_is_on[g] => ~pos_fll_is_on'[g]
  BY <1>1 DEF FllInv
<1>3. \A g \in Flls : Programmed(g)' <=> Programmed(g)
  BY <1>1 DEF Programmed
<1> QED BY <1>1, <1>2, <1>3 DEF FllInv

LEMMA FllInductive == ASSUME FllAssumption PROVE FllSpec => []FllInv
<1>1. FllInit => FllInv
  BY FllInitOK
<1>2. FllInv /\ [FllNext]_fllVars => FllInv'
  <2> SUFFICES ASSUME FllInv, [FllNext]_fllVars PROVE FllInv'
    OBVIOUS
  <2>1. CASE FllNext
    <3>1. ASSUME NEW d \in Domains, NEW freq \in Freqs, pos_freq_set_and_get(d, freq)
          PROVE  FllInv'
      BY <3>1, SetStep
    <3>2. ASSUME NEW f \in Flls, pos_fll_init(f) PROVE FllInv'
      BY <3>2, StartFllStep
    <3>3. ASSUME NEW f \in Flls, pos_fll_deinit(f) PROVE FllInv'
      BY <3>3, StopFllStep
    <3> QED BY <2>1, <3>1, <3>2, <3>3 DEF FllNext
  <2>2. CASE UNCHANGED fllVars
    BY <2>2 DEF fllVars, FllInv, Programmed
  <2> QED BY <2>1, <2>2
<1> QED BY <1>1, <1>2, PTL DEF FllSpec

(* An FLL that is on runs at the frequency the runtime reports, which is    *)
(* the one the last request was rounded to: it is never rounded twice,      *)
(* however often the cluster is started (pos_fll_init).                     *)
THEOREM NeverDrifts == ASSUME FllAssumption PROVE FllSpec => []FrequencyKept
<1>1. FllInv => FrequencyKept
  <2> SUFFICES ASSUME FllInv PROVE FrequencyKept
    OBVIOUS
  <2>1. ASSUME NEW f \in Flls, pos_fll_is_on[f], set[f] # "off" PROVE Programmed(f)
    BY <2>1 DEF FllInv
  <2>2. ASSUME NEW d \in Domains, set[pos_freq_get_fll(d)] # "never"
        PROVE  pos_fll_freq[pos_freq_get_fll(d)] = mult_div_from_freq(pos_freq_domains[d]).fres
    BY <2>2 DEF FllInv, Rounded
  <2> QED BY <2>1, <2>2 DEF FrequencyKept
<1>2. FllSpec => []FllInv
  BY FllInductive
<1> QED BY <1>1, <1>2, PTL
=============================================================================
