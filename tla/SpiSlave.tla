------------------------------ MODULE SpiSlave ------------------------------
(***************************************************************************)
(* The SPI slave through which the board's controller reads and writes the *)
(* memory of the SoC (src/hw/ips/axi_spi_slave): the command machine of    *)
(* spi_slave_controller.sv with its bit counter, the two clock-crossing    *)
(* FIFOs, and the AXI write and read machines of spi_slave_axi_plug.sv.    *)
(*                                                                         *)
(* One step is an edge of SCLK, an edge of CS, the arrival of the address  *)
(* in the AXI clock domain, or a handshake on an AXI channel.  Addresses   *)
(* count words.  A word written is its number; a word read is the address  *)
(* it came from.                                                           *)
(***************************************************************************)
EXTENDS Integers, Sequences, SequencesExt

CONSTANTS CmdLen, AddrLen,  \* SCLK edges of a command and of an address or word
          DummyLen,         \* SCLK edges between the address and the data of a read
          Depth,            \* words a FIFO holds (8)
          AddrMod,          \* addresses wrap here (2^30 words)
          CountMod,         \* tx_counter wraps here (2^16)
          Commands,         \* what the master sends, while AXI keeps up with SCLK
          SlowCommands,     \* and while AXI may not
          Bases,            \* addresses it sends
          WrapLengths,      \* values it writes to reg2 and reg3
          MaxWords,         \* bound: words of a burst
          MaxBursts,        \* bound: times CS goes low while AXI keeps up with SCLK
          SlowBursts,       \* bound: times it goes low while AXI may not
          SlowWords,        \* bound: words of a burst while AXI may not
          Prompts           \* whether AXI keeps up with SCLK

SpiAssumption ==
  /\ {CmdLen, AddrLen, DummyLen, Depth, AddrMod, CountMod} \subseteq Nat \ {0}
  /\ CmdLen + AddrLen >= Depth                   \* the flush reaches every word
  /\ Commands \union SlowCommands \subseteq
       {"writeMem", "readMem", "writeReg", "readReg", "unknown"}
  /\ Bases \subseteq 0 .. AddrMod - 1 /\ WrapLengths \subseteq 0 .. CountMod - 1
  /\ \A b \in Bases \union {0} : b + MaxWords <= AddrMod   \* no burst passes the end
  /\ MaxWords \in Nat /\ SlowBursts \in 0 .. MaxBursts /\ SlowWords \in 0 .. MaxWords /\ MaxBursts \in Nat
  /\ Prompts \subseteq BOOLEAN

VARIABLES
  prompt,                             \* constant in a behaviour
  cs, state, cmd_reg, n, addr_reg,    \* spi_slave_controller.sv, spi_slave_rx.sv
  wrap_length,                        \* spi_slave_regs.sv
  rxfifo, txfifo,                     \* the FIFOs to and from AXI
  addr_valid,                         \* the address is on its way to the AXI side
  curr_addr, curr_data_rx, tx_counter, aw_q, awDone, wDone, aw, ar_q, ar,
  mem,                                \* memory: the number of the word last written
  burst, words, base, got, written    \* history: bursts begun, words sent in each,
                                      \* address sent, words read, last word written
spiVars == <<cs, state, cmd_reg, n, addr_reg, wrap_length>>
writeVars == <<aw_q, awDone, wDone, aw, curr_data_rx>>
addrVars == <<curr_addr, tx_counter>>
readVars == <<ar_q, ar>>
histVars == <<burst, words, base, got>>
vars == <<prompt, spiVars, rxfifo, txfifo, addr_valid, addrVars, writeVars, readVars, mem,
          histVars, written>>

Addresses == 0 .. AddrMod - 1
Nowhere   == -1                    \* a word sent from an empty FIFO
Total     == MaxBursts * MaxWords
Most      == IF prompt THEN MaxWords ELSE SlowWords
-----------------------------------------------------------------------------
(* The command machine.                                                    *)

get_addr    == cmd_reg \in {"writeMem", "readMem"}
get_data    == cmd_reg \in {"writeMem", "writeReg"}
enable_cont == cmd_reg \in {"writeMem", "readMem"}
enable_regs == cmd_reg \in {"writeReg", "readReg"}

Unit == CASE state = "CMD" -> CmdLen
          [] state = "DUMMY" -> DummyLen
          [] state = "DATA_RX" /\ enable_regs -> CmdLen
          [] OTHER -> AddrLen

\* Where AXI has nothing left to do before the master's next word.
Quiet == /\ aw_q = "Idle" /\ rxfifo = <<>>
         /\ ar_q = "Idle" \/ (ar_q = "Data" /\ Len(txfifo) = Depth)

\* AXI is given one unit of SCLK edges to catch up; the address crosses in one edge.
Edge(last) ==
  /\ ~cs /\ ~addr_valid
  /\ (n + 1 = Unit) = last
  /\ last /\ prompt => Quiet

Pop == txfifo' = IF txfifo = <<>> THEN <<>> ELSE Tail(txfifo)

\* Mutant: only the command phase drops them.
FlushCommandOnly == IF state = "CMD" THEN Pop ELSE UNCHANGED txfifo

\* While a command and its address come in, the words of an earlier read are dropped.
Flush == IF state \in {"CMD", "ADDR"} THEN Pop ELSE UNCHANGED txfifo

\* The word loaded for sending, from the FIFO whether or not one is there.
Load == /\ got' = Append(got, IF txfifo = <<>> THEN Nowhere ELSE Head(txfifo))
        /\ Pop

\* An edge inside a unit.
Shift ==
  /\ Edge(FALSE)
  /\ n' = n + 1
  /\ Flush
  /\ UNCHANGED <<prompt, cs, state, cmd_reg, addr_reg, wrap_length, rxfifo, addr_valid,
                 addrVars, writeVars, readVars, mem, histVars, written>>

\* What follows the command: an address, the register's value, or at once data out.
Command ==
  /\ Edge(TRUE) /\ state = "CMD" /\ n' = 0
  /\ \E c \in IF prompt THEN Commands ELSE SlowCommands : cmd_reg' = c
  /\ state' = IF get_addr' THEN "ADDR" ELSE IF get_data' THEN "DATA_RX" ELSE "DATA_TX"
  /\ Flush
  /\ UNCHANGED <<prompt, cs, addr_reg, wrap_length, rxfifo, addr_valid,
                 addrVars, writeVars, readVars, mem, histVars, written>>

Address ==
  /\ Edge(TRUE) /\ state = "ADDR" /\ n' = 0
  /\ \E b \in Bases : addr_reg' = b /\ base' = b
  /\ addr_valid' = TRUE
  /\ state' = IF get_data THEN "DATA_RX" ELSE "DUMMY"
  /\ Flush
  /\ UNCHANGED <<prompt, cs, cmd_reg, wrap_length, rxfifo, addrVars, writeVars,
                 readVars, mem, burst, words, got, written>>

Dummy ==
  /\ Edge(TRUE) /\ state = "DUMMY" /\ n' = 0
  /\ state' = "DATA_TX"
  /\ Load
  /\ UNCHANGED <<prompt, cs, cmd_reg, addr_reg, wrap_length, rxfifo, addr_valid,
                 addrVars, writeVars, readVars, mem, burst, words, base, written>>

\* Mutant: the FIFO is not asked whether it has room.
WordInUnchecked ==
  /\ Edge(TRUE) /\ state = "DATA_RX" /\ ~enable_regs /\ n' = 0
  /\ words[burst] < Most
  /\ words' = [words EXCEPT ![burst] = @ + 1]
  /\ rxfifo' = Append(rxfifo, (burst - 1) * MaxWords + words'[burst])
  /\ UNCHANGED <<prompt, cs, state, cmd_reg, addr_reg, wrap_length, txfifo, addr_valid,
                 addrVars, writeVars, readVars, mem, burst, base, got, written>>

\* A word for memory goes into the FIFO; when that is full it is lost.
WordIn ==
  /\ Edge(TRUE) /\ state = "DATA_RX" /\ ~enable_regs /\ n' = 0
  /\ words[burst] < Most
  /\ words' = [words EXCEPT ![burst] = @ + 1]
  /\ rxfifo' = IF Len(rxfifo) < Depth
               THEN Append(rxfifo, (burst - 1) * MaxWords + words'[burst]) ELSE rxfifo
  /\ UNCHANGED <<prompt, cs, state, cmd_reg, addr_reg, wrap_length, txfifo, addr_valid,
                 addrVars, writeVars, readVars, mem, burst, base, got, written>>

RegisterIn ==
  /\ Edge(TRUE) /\ state = "DATA_RX" /\ enable_regs /\ n' = 0
  /\ \E w \in WrapLengths : wrap_length' = w
  /\ state' = "CMD"
  /\ UNCHANGED <<prompt, cs, cmd_reg, addr_reg, rxfifo, txfifo, addr_valid,
                 addrVars, writeVars, readVars, mem, histVars, written>>

\* The last bit of a word has gone out: the next word of memory, or the next command.
WordOut ==
  /\ Edge(TRUE) /\ state = "DATA_TX" /\ n' = 0
  /\ IF enable_cont THEN Len(got) < Most /\ Load /\ UNCHANGED state
                    ELSE state' = "CMD" /\ UNCHANGED <<got, txfifo>>
  /\ UNCHANGED <<prompt, cs, cmd_reg, addr_reg, wrap_length, rxfifo, addr_valid,
                 addrVars, writeVars, readVars, mem, burst, words, base, written>>

\* The read machine sees CS high before CS falls again.
Select ==
  /\ cs /\ burst < (IF prompt THEN MaxBursts ELSE SlowBursts) /\ ar_q # "Data"
  /\ prompt => Quiet
  /\ cs' = FALSE /\ burst' = burst + 1 /\ got' = <<>>
  /\ UNCHANGED <<prompt, state, cmd_reg, n, addr_reg, wrap_length, rxfifo, txfifo, addr_valid,
                 addrVars, writeVars, readVars, mem, words, base, written>>

\* Where AXI is late, the address's strobe may be cut off, or cross without its address.
Deselect ==
  /\ ~cs /\ (prompt => ~addr_valid)
  /\ addr_valid' \in {FALSE, addr_valid}
  /\ cs' = TRUE /\ state' = "CMD" /\ n' = 0 /\ addr_reg' = 0 /\ cmd_reg' = "unknown"
  /\ UNCHANGED <<prompt, wrap_length, rxfifo, txfifo,
                 addrVars, writeVars, readVars, mem, histVars, written>>
-----------------------------------------------------------------------------
(* The AXI port: one address register for both directions.                 *)

\* Mutant: the count is compared with the length itself.
AtWrapLate == wrap_length # 0 /\ tx_counter = wrap_length

AtWrap == wrap_length # 0 /\ tx_counter = wrap_length - 1

\* Mutant: the address of the next transfer counts from the base each time.
next_addr_FromBase == IF AtWrap THEN addr_reg ELSE (addr_reg + 1) % AddrMod

next_addr == IF AtWrap THEN addr_reg ELSE (curr_addr + 1) % AddrMod

Advance == /\ curr_addr' = next_addr
           /\ tx_counter' = IF AtWrap THEN 0 ELSE (tx_counter + 1) % CountMod

\* The address arrives; for a read it starts the read machine, if that is idle.
LoadAddress ==
  /\ addr_valid
  /\ addr_valid' = FALSE
  /\ curr_addr' = addr_reg
  /\ IF get_data THEN UNCHANGED <<tx_counter, ar_q>>
     ELSE tx_counter' = 0 /\ ar_q' = IF ar_q = "Idle" /\ ~cs THEN "AxiAddr" ELSE ar_q
  /\ UNCHANGED <<prompt, spiVars, rxfifo, txfifo, writeVars, ar, mem, histVars, written>>

\* Mutant: the word stays in the FIFO.
TakeWordKept ==
  /\ aw_q = "Idle" /\ rxfifo # <<>>
  /\ aw_q' = "AxiValid" /\ curr_data_rx' = Head(rxfifo) /\ rxfifo' = rxfifo
  /\ UNCHANGED <<prompt, spiVars, txfifo, addr_valid, addrVars, awDone, wDone, aw,
                 readVars, mem, histVars, written>>

TakeWord ==
  /\ aw_q = "Idle" /\ rxfifo # <<>>
  /\ aw_q' = "AxiValid" /\ curr_data_rx' = Head(rxfifo) /\ rxfifo' = Tail(rxfifo)
  /\ UNCHANGED <<prompt, spiVars, txfifo, addr_valid, addrVars, awDone, wDone, aw,
                 readVars, mem, histVars, written>>

\* The second of the two handshakes moves the address on.
AcceptAW ==
  /\ aw_q = "AxiValid" /\ ~awDone
  /\ aw' = curr_addr
  /\ IF wDone THEN aw_q' = "AxiResp" /\ wDone' = FALSE /\ Advance /\ UNCHANGED awDone
              ELSE awDone' = TRUE /\ UNCHANGED <<aw_q, wDone, addrVars>>
  /\ UNCHANGED <<prompt, spiVars, rxfifo, txfifo, addr_valid, curr_data_rx, readVars, mem,
                 histVars, written>>

\* Mutant: the data's handshake does not see that the address has been taken.
AcceptWAlone ==
  /\ aw_q = "AxiValid" /\ ~wDone
  /\ wDone' = TRUE
  /\ UNCHANGED <<prompt, spiVars, rxfifo, txfifo, addr_valid, addrVars, aw_q, awDone, aw,
                 curr_data_rx, readVars, mem, histVars, written>>

AcceptW ==
  /\ aw_q = "AxiValid" /\ ~wDone
  /\ IF awDone THEN aw_q' = "AxiResp" /\ awDone' = FALSE /\ Advance /\ UNCHANGED wDone
               ELSE wDone' = TRUE /\ UNCHANGED <<aw_q, awDone, addrVars>>
  /\ UNCHANGED <<prompt, spiVars, rxfifo, txfifo, addr_valid, aw, curr_data_rx, readVars,
                 mem, histVars, written>>

Respond ==
  /\ aw_q = "AxiResp"
  /\ aw_q' = "Idle"
  /\ mem' = [mem EXCEPT ![aw] = curr_data_rx] /\ written' = curr_data_rx
  /\ UNCHANGED <<prompt, spiVars, rxfifo, txfifo, addr_valid, addrVars, awDone, wDone, aw,
                 curr_data_rx, readVars, histVars>>

AcceptAR ==
  /\ ar_q = "AxiAddr"
  /\ ar_q' = "AxiResp" /\ ar' = curr_addr
  /\ UNCHANGED <<prompt, spiVars, rxfifo, txfifo, addr_valid, addrVars, writeVars, mem,
                 histVars, written>>

ReadData ==
  /\ ar_q = "AxiResp"
  /\ ar_q' = "Data"
  /\ UNCHANGED <<prompt, spiVars, rxfifo, txfifo, addr_valid, addrVars, writeVars, ar, mem,
                 histVars, written>>

\* The word goes to the FIFO when there is room, and the next one is fetched until
\* the wrap length is reached or CS is high.
Push ==
  /\ ar_q = "Data"
  /\ cs \/ Len(txfifo) < Depth
  /\ txfifo' = IF Len(txfifo) < Depth THEN Append(txfifo, ar) ELSE txfifo
  /\ IF cs \/ AtWrap THEN ar_q' = "Idle" /\ UNCHANGED addrVars
                     ELSE ar_q' = "AxiAddr" /\ Advance
  /\ UNCHANGED <<prompt, spiVars, rxfifo, addr_valid, writeVars, ar, mem, histVars, written>>

-----------------------------------------------------------------------------
Init ==
  /\ prompt \in Prompts
  /\ cs = TRUE /\ state = "CMD" /\ cmd_reg = "unknown" /\ n = 0 /\ addr_reg = 0
  /\ wrap_length = 0 /\ rxfifo = <<>> /\ txfifo = <<>> /\ addr_valid = FALSE
  /\ curr_addr = 0 /\ curr_data_rx = 0 /\ tx_counter = 0
  /\ aw_q = "Idle" /\ awDone = FALSE /\ wDone = FALSE /\ aw = 0 /\ ar_q = "Idle" /\ ar = 0
  /\ mem = [a \in Addresses |-> 0] /\ written = 0
  /\ burst = 0 /\ words = [b \in 1 .. MaxBursts |-> 0] /\ base = 0 /\ got = <<>>

Master == Shift \/ Command \/ Address \/ Dummy \/ WordIn \/ RegisterIn \/ WordOut
            \/ Select \/ Deselect
Axi == LoadAddress \/ TakeWord \/ AcceptAW \/ AcceptW \/ Respond \/ AcceptAR \/ ReadData \/ Push
Next == Master \/ Axi

\* The AXI clock runs and the interconnect answers; the master acts if it will.
Fairness == /\ WF_vars(LoadAddress) /\ WF_vars(TakeWord) /\ WF_vars(AcceptAW)
            /\ WF_vars(AcceptW) /\ WF_vars(Respond) /\ WF_vars(AcceptAR)
            /\ WF_vars(ReadData) /\ WF_vars(Push)
Spec == Init /\ [][Next]_vars /\ Fairness
-----------------------------------------------------------------------------
(* Properties.                                                             *)

\* Every register holds a value of its type; the FIFOs hold what they have room for.
TypeOK ==
  /\ {prompt, cs, addr_valid, awDone, wDone} \subseteq BOOLEAN
  /\ state \in {"CMD", "ADDR", "DUMMY", "DATA_RX", "DATA_TX"} /\ n \in 0 .. Unit - 1
  /\ {addr_reg, curr_addr, aw, ar, base} \subseteq Addresses
  /\ {wrap_length, tx_counter} \subseteq 0 .. CountMod - 1
  /\ rxfifo \in Seq(1 .. Total) /\ txfifo \in Seq(Addresses)
  /\ Len(rxfifo) <= Depth /\ Len(txfifo) <= Depth
  /\ aw_q \in {"Idle", "AxiValid", "AxiResp"}
  /\ ar_q \in {"Idle", "AxiAddr", "AxiResp", "Data"}
  /\ mem \in [Addresses -> 0 .. Total] /\ curr_data_rx \in 0 .. Total
  /\ got \in Seq(Addresses \union {Nowhere})

\* When AXI is at rest, the words of the burst are in memory one after the other from
\* the address sent with it: what the bit counter, the FIFO and the address register
\* each keep of it agree, whatever was read or written before.
WordsInPlace ==
  prompt /\ wrap_length = 0 /\ Quiet /\ ~addr_valid /\ burst > 0
    => \A i \in 1 .. words[burst] : mem[base + i - 1] = (burst - 1) * MaxWords + i

\* The master reads the words from its address on, none of an earlier read left in the
\* FIFO and none skipped, up to the wrap length.
ReadsInPlace ==
  prompt => \A i \in 1 .. Len(got) :
              wrap_length = 0 \/ i <= wrap_length => got[i] = base + i - 1

\* Memory past the wrap length is not read, not even ahead of the master: it may be a
\* peripheral's register.
NoReadPastWrap ==
  prompt /\ wrap_length # 0 /\ ~cs /\ cmd_reg = "readMem" /\ ~addr_valid
    /\ ar_q \in {"AxiResp", "Data"} => ar - base < wrap_length

\* However late AXI is, words are written in the order sent and none of them twice.
WrittenInOrder == [][aw_q = "AxiResp" /\ aw_q' = "Idle" => written' > written]_vars

\* Every word the FIFO takes is written.
FifoDrains == (rxfifo # <<>>) ~> (rxfifo = <<>>)
-----------------------------------------------------------------------------
(* What the proofs of the safety properties rest on.                       *)

\* The number of the word last sent.
Sent == IF burst = 0 THEN 0 ELSE (burst - 1) * MaxWords + words[burst]

\* Each word on its way has a higher number than the words before it.
InOrder ==
  /\ burst \in 0 .. MaxBursts /\ words \in [1 .. MaxBursts -> 0 .. MaxWords]
  /\ \A b \in 1 .. MaxBursts : b > burst => words[b] = 0
  /\ ~cs => burst > 0
  /\ written \in Nat /\ written <= curr_data_rx /\ curr_data_rx <= Sent
  /\ aw_q # "Idle" => written < curr_data_rx
  /\ \A x \in 1 .. Len(rxfifo) : curr_data_rx < rxfifo[x] /\ rxfifo[x] <= Sent
  /\ \A x, y \in 1 .. Len(rxfifo) : x < y => rxfifo[x] < rxfifo[y]

\* The command that leads to each phase, and what the burst has brought before it.
Phases ==
  /\ base + MaxWords <= AddrMod
  /\ cs => state = "CMD" /\ n = 0 /\ (prompt => ~addr_valid)
  /\ state = "ADDR" => get_addr
  /\ state = "DUMMY" => cmd_reg = "readMem"
  /\ state = "DATA_RX" => get_data
  /\ state = "DATA_TX" => ~get_data
  /\ prompt /\ addr_valid =>
       /\ addr_reg = base
       /\ \/ cmd_reg = "writeMem" /\ state = "DATA_RX"
          \/ cmd_reg = "readMem" /\ state = "DUMMY"
  /\ ~cs /\ ~(state = "DATA_RX" /\ cmd_reg = "writeMem" /\ ~addr_valid) => words[burst] = 0
  /\ ~cs /\ ~(state = "DATA_TX" /\ cmd_reg = "readMem") => got = <<>>
  /\ prompt /\ Len(got) > 1 => Len(got) <= MaxWords
  /\ aw_q # "AxiValid" => ~awDone /\ ~wDone

\* While AXI keeps up, at most the last word sent is on its way.
OneOnItsWay ==
  prompt =>
    /\ rxfifo # <<>> \/ aw_q # "Idle" => burst > 0 /\ words[burst] > 0
    /\ rxfifo # <<>> => Len(rxfifo) = 1 /\ rxfifo[1] = Sent /\ aw_q = "Idle"
    /\ aw_q # "Idle" => curr_data_rx = Sent

\* Words of the burst that the address register has counted, and that memory has.
Counted  == IF rxfifo # <<>> \/ aw_q = "AxiValid" THEN words[burst] - 1 ELSE words[burst]
Complete == IF rxfifo # <<>> \/ aw_q # "Idle" THEN words[burst] - 1 ELSE words[burst]

Writing ==
  prompt /\ wrap_length = 0 /\ burst > 0
    /\ (words[burst] > 0 \/ (~cs /\ state = "DATA_RX" /\ cmd_reg = "writeMem" /\ ~addr_valid)) =>
    /\ ar_q = "Idle"
    /\ curr_addr = (base + Counted) % AddrMod
    /\ awDone \/ aw_q = "AxiResp" => aw = base + words[burst] - 1
    /\ \A x \in 1 .. Complete : mem[base + x - 1] = (burst - 1) * MaxWords + x

\* The FIFO empties while a command and an address come in.
Flushed ==
  prompt /\ ~cs /\ txfifo # <<>> =>
    /\ state = "CMD" => Len(txfifo) + n <= Depth
    /\ state = "ADDR" => Len(txfifo) + CmdLen + n <= Depth
    /\ ~addr_valid

\* Words of the burst that have been read from memory.
Fetched == Len(got) + Len(txfifo)

\* The read machine follows the master, up to the wrap length.
Reading ==
  prompt /\ ~cs =>
    /\ ar_q # "Idle" => cmd_reg = "readMem" /\ state \in {"DUMMY", "DATA_TX"} /\ ~addr_valid
    /\ cmd_reg = "readMem" /\ state \in {"DUMMY", "DATA_TX"} /\ ~addr_valid =>
         /\ ar_q = "Idle" => wrap_length # 0 /\ Fetched >= wrap_length
         /\ ar_q # "Idle" => /\ curr_addr = (base + Fetched) % AddrMod
                             /\ wrap_length # 0 => Fetched < wrap_length /\ tx_counter = Fetched
         /\ ar_q \in {"AxiResp", "Data"} => ar = curr_addr
         /\ \A x \in 1 .. Len(txfifo) : txfifo[x] = (base + Len(got) + x - 1) % AddrMod

\* Nothing left of a word that was read but did not fit the order.
GotInOrder ==
  prompt => \A x \in 1 .. Len(got) :
              wrap_length = 0 \/ x <= wrap_length => got[x] = (base + x - 1) % AddrMod

IInv == TypeOK /\ InOrder /\ Phases /\ OneOnItsWay /\ Writing /\ Flushed /\ Reading /\ GotInOrder
=============================================================================
