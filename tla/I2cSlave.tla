------------------------------ MODULE I2cSlave ------------------------------
(***************************************************************************)
(* The I2C slave that copies the packets of the board's management         *)
(* controller into L2 (src/hw/ips/axi_apb_i2c_slave): the byte state       *)
(* machine of i2cslave.sv, the byte sender of i2csend.sv, and the AXI and  *)
(* interrupt state machines of axi_apb_i2c_slave.sv.                       *)
(*                                                                         *)
(* One step is an edge of SCL, a START, a STOP, or a handshake on an AXI   *)
(* channel; the cycles of the fast clock in between, in which only         *)
(* one-cycle pulses travel, belong to the step that raises the pulse.      *)
(* SDA and SCL are the filtered signals: each edge is seen once.  A byte   *)
(* is its place in its packet: its bits are counted, not modelled.         *)
(***************************************************************************)
EXTENDS Integers

CONSTANTS W,          \* bits of a byte (8)
          WINDOW,     \* bytes the write address counts before it wraps (512)
          BigEndian,  \* reg_1[8]
          Kinds,      \* what the master addresses: "write", "read", "other"
          MinBytes,   \* bound: the shortest packet the master writes
          MaxBytes,   \* bound: the longest packet
          MaxPackets, \* bound: transactions the master starts
          Prompts     \* whether AXI answers before the next edge of SCL

I2cAssumption ==
  /\ W \in Nat \ {0, 1} /\ WINDOW \in Nat /\ WINDOW % 4 = 0
  /\ BigEndian \in BOOLEAN /\ Prompts \subseteq BOOLEAN
  /\ Kinds \subseteq {"write", "read", "other"}
  /\ MinBytes \in Nat /\ MaxBytes \in Nat \ {0} /\ MinBytes <= MaxBytes
  /\ MaxBytes + 4 <= WINDOW /\ MaxPackets \in Nat

VARIABLES
  prompt,     \* constant in a behaviour
  m,          \* the master: line phase, transactions, bytes and bits sent, has it read
  last,       \* the packet and length of the last finished write to us
  CurSt, count, W_phase, R_phase, i2cBUSY,    \* i2cslave.sv
  q, reg32, reg32copy, strb, address_w,
  sent,       \* i2csend.sv: rising edges since the byte was loaded
  AW_CS, AR_CS, awDone, wDone, aw, wd,        \* the AXI state machines
  WR_TRANSF, status,                          \* interrupt; reg_3[1]
  mem         \* L2 from four bytes below reg_2

busVars   == <<prompt, m, last>>
byteVars  == <<CurSt, count, W_phase, R_phase, i2cBUSY>>
wordVars  == <<q, reg32, reg32copy, strb, address_w>>
axiVars   == <<AW_CS, AR_CS, awDone, wDone, aw, wd>>
irqVars   == <<WR_TRANSF, status>>
vars == <<busVars, byteVars, wordVars, sent, axiVars, irqVars, mem>>

Untouched == 0
ZERO      == -1           \* a byte of a register that was cleared
Garbled   == -2           \* bits of two bytes
Id(p, i)  == (p - 1) * MaxBytes + i
ByteIds   == {ZERO, Garbled} \union (1 .. MaxPackets * MaxBytes)
Lanes     == 1 .. 4       \* lane 1 is bits 7 to 0
NoWord    == [l \in Lanes |-> ZERO]
Offsets   == -4 .. WINDOW - 1

States == {"IDLE", "ADDR_RnW", "ACKwrite1_5", "ACKwrite2", "WRITEfirst",
           "WRITEother", "READwaitAXI", "READwaitENDsendDATA"}
-----------------------------------------------------------------------------
(* The word assembler.                                                     *)

ShiftIn(w, b) == IF BigEndian THEN [l \in Lanes |-> IF l = 1 THEN b ELSE w[l - 1]]
                              ELSE [l \in Lanes |-> IF l = 4 THEN b ELSE w[l + 1]]

\* Mutant: the lanes of an unfinished word are not moved down.
TopLanesUnmoved(w, n) == [l \in Lanes |-> IF l <= n THEN w[l] ELSE ZERO]

\* What a STOP leaves of an unfinished word of n bytes: its top lanes, moved down.
TopLanes(w, n) == [l \in Lanes |-> IF l <= n THEN w[4 - n + l] ELSE ZERO]

\* valid_o is up for one cycle: the write FSM takes the word only when idle.
Valid(up) == AW_CS' = IF up /\ AW_CS = "IDLE" THEN "AXIDATA" ELSE AW_CS

NextAddress == (address_w + 4) % WINDOW

\* endb: a byte is complete.  A word goes out when the byte after it arrives.
EndByte(b, data) ==
  /\ q' = (q + 1) % 4
  /\ reg32' = ShiftIn(reg32, b)
  /\ reg32copy' = IF q = 0 THEN reg32 ELSE reg32copy
  /\ strb' = IF q = 0 /\ data THEN 4 ELSE strb
  /\ address_w' = IF q = 0 /\ data THEN NextAddress ELSE address_w
  /\ Valid(q = 0 /\ data)
-----------------------------------------------------------------------------
(* The bus master, and what it is allowed to do.                           *)

Ready == prompt => AW_CS = "IDLE" /\ AR_CS = "IDLE"

\* The slave pulls SDA low.
Acks == CurSt = "ACKwrite2"

Start ==
  /\ m.line = "idle" /\ m.packet < MaxPackets /\ Ready
  /\ \E k \in Kinds : m' = [line |-> "high", kind |-> k, packet |-> m.packet + 1,
                            bytes |-> 0, bits |-> 0, reads |-> m.reads \/ k = "read"]
  /\ q' = 0 /\ reg32' = NoWord /\ reg32copy' = NoWord /\ address_w' = 0
  /\ IF CurSt = "IDLE" THEN CurSt' = "ADDR_RnW" /\ count' = W
                       ELSE UNCHANGED <<CurSt, count>>
  /\ UNCHANGED <<prompt, last, W_phase, R_phase, i2cBUSY, strb, sent, axiVars, irqVars, mem>>

\* The state ACKwrite2 leaves for, on the edge that ends the acknowledge.
AfterAck == CASE W_phase \/ R_phase -> "WRITEother"
              [] ~(W_phase \/ R_phase) /\ m.kind = "read" -> "READwaitAXI"
              [] OTHER -> "WRITEfirst"

Fall ==
  /\ m.line = "high" /\ Ready
  /\ m.bytes = MaxBytes + 1 => m.bits = 0
  /\ m' = IF m.bits = W + 1 THEN [m EXCEPT !.line = "low", !.bits = 0, !.bytes = @ + 1]
                            ELSE [m EXCEPT !.line = "low"]
  /\ CurSt' = CASE CurSt = "ACKwrite1_5" -> "ACKwrite2"
                [] CurSt = "ACKwrite2" -> AfterAck
                [] OTHER -> CurSt
  /\ AR_CS' = IF CurSt = "ACKwrite2" /\ AfterAck = "READwaitAXI" /\ AR_CS = "IDLE"
              THEN "AXIADDR" ELSE AR_CS
  /\ UNCHANGED <<prompt, last, count, W_phase, R_phase, i2cBUSY, wordVars, sent,
                 AW_CS, awDone, wDone, aw, wd, irqVars, mem>>

\* The byte whose last bit this rising edge carries.
ByteNow == IF m.bits + 1 = W THEN Id(m.packet, m.bytes) ELSE Garbled

RiseAddress ==
  /\ CurSt = "ADDR_RnW"
  /\ IF count > 1 THEN count' = count - 1 /\ UNCHANGED <<CurSt, i2cBUSY>>
     ELSE IF m.kind # "other"
     THEN CurSt' = "ACKwrite1_5" /\ count' = W /\ i2cBUSY' = TRUE
     ELSE CurSt' = "IDLE" /\ count' = W /\ UNCHANGED i2cBUSY
  /\ UNCHANGED <<W_phase, R_phase, wordVars, sent, AW_CS>>

RiseWriteFirst ==
  /\ CurSt = "WRITEfirst"
  /\ IF count > 1 THEN count' = count - 1 /\ UNCHANGED <<CurSt, W_phase, wordVars, AW_CS>>
     ELSE count' = W /\ CurSt' = "ACKwrite1_5" /\ W_phase' = TRUE /\ EndByte(ByteNow, FALSE)
  /\ UNCHANGED <<R_phase, i2cBUSY, sent>>

RiseWriteOther ==
  /\ CurSt = "WRITEother"
  /\ W_phase' = FALSE
  /\ IF count > 1 THEN count' = count - 1 /\ UNCHANGED <<CurSt, R_phase, wordVars, AW_CS>>
     ELSE count' = W /\ CurSt' = "ACKwrite1_5" /\ R_phase' = TRUE /\ EndByte(ByteNow, TRUE)
  /\ UNCHANGED <<i2cBUSY, sent>>

\* i2csend shifts a bit out on every edge; the edge after the last one ends it.
RiseSend ==
  /\ CurSt = "READwaitENDsendDATA"
  /\ IF sent < W THEN sent' = sent + 1 /\ UNCHANGED CurSt
                 ELSE sent' = 0 /\ CurSt' = "IDLE"
  /\ UNCHANGED <<count, W_phase, R_phase, i2cBUSY, wordVars, AW_CS>>

RiseOther ==
  /\ CurSt \in {"IDLE", "ACKwrite1_5", "ACKwrite2", "READwaitAXI"}
  /\ UNCHANGED <<byteVars, wordVars, sent, AW_CS>>

Rise ==
  /\ m.line = "low" /\ Ready
  /\ m' = [m EXCEPT !.line = "high", !.bits = @ + 1]
  /\ RiseAddress \/ RiseWriteFirst \/ RiseWriteOther \/ RiseSend \/ RiseOther
  /\ UNCHANGED <<prompt, last, AR_CS, awDone, wDone, aw, wd, irqVars, mem>>

\* A STOP to us also asks for the interrupt and sends the word in hand.
StopWord ==
  /\ strb' = IF q = 0 THEN 4 ELSE q
  /\ reg32copy' = IF q = 0 THEN reg32 ELSE TopLanes(reg32, q)
  /\ Valid(TRUE)
  /\ WR_TRANSF' = "TRANSF_RESP"

\* Mutant: a STOP in a data byte is not seen.
AfterStopDeaf == IF CurSt \in {"ACKwrite2", "READwaitAXI", "WRITEfirst"} THEN "IDLE" ELSE CurSt

\* The state a STOP leaves the byte machine in.
AfterStop == IF CurSt \in {"ACKwrite2", "READwaitAXI", "WRITEfirst", "WRITEother"}
             THEN "IDLE" ELSE CurSt

\* SDA rises while SCL is high.  The edge of SCL before it was sampled as a bit.
\* The master stops after an acknowledge or inside a byte it
\* writes; of what it reads it takes at least one byte.
Stop ==
  /\ m.line = "high" /\ m.bytes >= 1 /\ m.bits < W /\ Ready
  /\ m.kind = "write" => m.bytes > MinBytes
  /\ m.kind = "read" => m.bytes > 1
  /\ m' = [m EXCEPT !.line = "idle"]
  /\ last' = IF m.kind = "write" THEN [packet |-> m.packet, len |-> m.bytes - 1] ELSE last
  /\ UNCHANGED prompt
  /\ CurSt' = AfterStop
  /\ IF CurSt' = "IDLE" THEN W_phase' = FALSE /\ R_phase' = FALSE
                        ELSE UNCHANGED <<W_phase, R_phase>>
  /\ i2cBUSY' = FALSE
  /\ address_w' = NextAddress
  /\ IF i2cBUSY THEN StopWord ELSE UNCHANGED <<strb, reg32copy, AW_CS, WR_TRANSF>>
  /\ UNCHANGED <<count, q, reg32, sent, AR_CS, awDone, wDone, aw, wd, status, mem>>
-----------------------------------------------------------------------------
(* The AXI port.  stream_fork offers the address and the data at once and  *)
(* each is taken in its own time, with the value its register has then.    *)

AcceptAW ==
  /\ AW_CS = "AXIDATA" /\ ~awDone
  /\ aw' = address_w - 4
  /\ IF wDone THEN AW_CS' = "AXIRESP" /\ awDone' = FALSE /\ wDone' = FALSE
              ELSE awDone' = TRUE /\ UNCHANGED <<AW_CS, wDone>>
  /\ UNCHANGED <<busVars, byteVars, wordVars, sent, AR_CS, wd, irqVars, mem>>

AcceptW ==
  /\ AW_CS = "AXIDATA" /\ ~wDone
  /\ wd' = [data |-> reg32copy, strb |-> strb]
  /\ IF awDone THEN AW_CS' = "AXIRESP" /\ awDone' = FALSE /\ wDone' = FALSE
               ELSE wDone' = TRUE /\ UNCHANGED <<AW_CS, awDone>>
  /\ UNCHANGED <<busVars, byteVars, wordVars, sent, AR_CS, aw, irqVars, mem>>

\* Mutant: the interrupt's wait is not ended by a response.
RespondNoInterrupt ==
  /\ AW_CS = "AXIRESP"
  /\ AW_CS' = "IDLE"
  /\ mem' = [o \in Offsets |-> IF o \in aw .. aw + wd.strb - 1
                               THEN wd.data[o - aw + 1] ELSE mem[o]]
  /\ UNCHANGED <<busVars, byteVars, wordVars, sent, AR_CS, awDone, wDone, aw, wd, irqVars>>

\* Any response ends the wait for the interrupt, whichever word it answers.
Respond ==
  /\ AW_CS = "AXIRESP"
  /\ AW_CS' = "IDLE"
  /\ mem' = [o \in Offsets |-> IF o \in aw .. aw + wd.strb - 1
                               THEN wd.data[o - aw + 1] ELSE mem[o]]
  /\ IF WR_TRANSF = "TRANSF_RESP" THEN WR_TRANSF' = "TRANSF_IDLE" /\ status' = TRUE
                                  ELSE UNCHANGED irqVars
  /\ UNCHANGED <<busVars, byteVars, wordVars, sent, AR_CS, awDone, wDone, aw, wd>>

AcceptAR ==
  /\ AR_CS = "AXIADDR"
  /\ AR_CS' = "AXIRESP"
  /\ UNCHANGED <<busVars, byteVars, wordVars, sent, AW_CS, awDone, wDone, aw, wd, irqVars, mem>>

\* The byte is loaded into the sender whether or not the slave still waits for it.
ReadData ==
  /\ AR_CS = "AXIRESP"
  /\ AR_CS' = "IDLE"
  /\ sent' = 0
  /\ CurSt' = IF CurSt = "READwaitAXI" THEN "READwaitENDsendDATA" ELSE CurSt
  /\ UNCHANGED <<busVars, count, W_phase, R_phase, i2cBUSY, wordVars,
                 AW_CS, awDone, wDone, aw, wd, irqVars, mem>>

\* Firmware acknowledges the interrupt by writing reg_3 over APB.
ClearStatus == status /\ status' = FALSE /\ UNCHANGED <<busVars, byteVars, wordVars, sent,
                                                        axiVars, WR_TRANSF, mem>>
-----------------------------------------------------------------------------
Init ==
  /\ prompt \in Prompts
  /\ m = [line |-> "idle", kind |-> "other", packet |-> 0, bytes |-> 0, bits |-> 0,
          reads |-> FALSE]
  /\ last = [packet |-> 0, len |-> 0]
  /\ CurSt = "IDLE" /\ count = W /\ W_phase = FALSE /\ R_phase = FALSE /\ i2cBUSY = FALSE
  /\ q = 0 /\ reg32 = NoWord /\ reg32copy = NoWord /\ strb = 4 /\ address_w = 0
  /\ sent = 0
  /\ AW_CS = "IDLE" /\ AR_CS = "IDLE" /\ awDone = FALSE /\ wDone = FALSE
  /\ aw = 0 /\ wd = [data |-> NoWord, strb |-> 4]
  /\ WR_TRANSF = "TRANSF_IDLE" /\ status = FALSE
  /\ mem = [o \in Offsets |-> Untouched]

Bus == Start \/ Fall \/ Rise \/ Stop
Axi == AcceptAW \/ AcceptW \/ Respond \/ AcceptAR \/ ReadData
Next == Bus \/ Axi \/ ClearStatus

\* The interconnect answers what it is asked; master and firmware act if they will.
Fairness == /\ WF_vars(AcceptAW) /\ WF_vars(AcceptW) /\ WF_vars(Respond)
            /\ WF_vars(AcceptAR) /\ WF_vars(ReadData)
Spec == Init /\ [][Next]_vars /\ Fairness
-----------------------------------------------------------------------------
(* Properties.                                                             *)

\* Every register holds a value of its type.
TypeOK ==
  /\ m \in [line : {"idle", "low", "high"}, kind : Kinds \union {"other"},
            packet : 0 .. MaxPackets, bytes : 0 .. MaxBytes + 1, bits : 0 .. W + 1,
            reads : BOOLEAN]
  /\ last \in [packet : 0 .. MaxPackets, len : 0 .. MaxBytes]
  /\ CurSt \in States /\ count \in 1 .. W /\ {prompt, W_phase, R_phase, i2cBUSY} \subseteq BOOLEAN
  /\ q \in 0 .. 3 /\ strb \in 1 .. 4 /\ address_w \in 0 .. WINDOW - 1
  /\ \A w \in {reg32, reg32copy, wd.data} : \A l \in Lanes : w[l] \in ByteIds
  /\ sent \in 0 .. W
  /\ AW_CS \in {"IDLE", "AXIDATA", "AXIRESP"} /\ AR_CS \in {"IDLE", "AXIADDR", "AXIRESP"}
  /\ {awDone, wDone, status} \subseteq BOOLEAN
  /\ aw \in -4 .. WINDOW - 5 /\ wd.strb \in 1 .. 4
  /\ WR_TRANSF \in {"TRANSF_IDLE", "TRANSF_RESP"}
  /\ \A o \in Offsets : mem[o] \in ByteIds \union {Untouched}

\* Once the interrupt of a packet is given, the whole packet is in L2, in order and
\* from the base address: the words the state machines of the bus, of AXI and of the
\* interrupt hand to each other are neither lost nor moved.
PacketInMemory ==
  prompt /\ m.line = "idle" /\ WR_TRANSF = "TRANSF_IDLE" /\ m.packet = last.packet
    => \A i \in 1 .. last.len : mem[i - 1] = Id(last.packet, i)

\* As PacketInMemory, in any order inside a word: what big endian must keep too.
EveryByteInItsWord ==
  prompt /\ m.line = "idle" /\ WR_TRANSF = "TRANSF_IDLE" /\ m.packet = last.packet
    => \A i \in 1 .. last.len :
         \E l \in 0 .. 3 : mem[4 * ((i - 1) \div 4) + l] = Id(last.packet, i)

\* Nothing but bytes of packets, each at its own place, is ever written to L2,
\* as long as the master does not read: the STOP of a read sends a word of zeros.
OnlyPacketBytes ==
  prompt /\ ~m.reads => \A o \in Offsets : mem[o] # Untouched => \E p \in 1 .. MaxPackets : mem[o] = Id(p, o + 1)

\* In the acknowledge slot of the address the slave pulls SDA low if and only if it is
\* addressed: whatever came before, it is back in IDLE when a transaction starts.
AckExactlyWhenAddressed ==
  prompt /\ m.line = "high" /\ m.bytes = 0 /\ m.bits = W + 1 => (Acks <=> m.kind # "other")

\* Every write is acknowledged byte by byte to its end.
EveryByteAcknowledged ==
  prompt /\ m.line = "high" /\ m.bits = W + 1 /\ m.kind = "write" => Acks

\* A STOP of a transaction with us is followed by the interrupt, however late AXI is.
StopSignalled == (WR_TRANSF = "TRANSF_RESP") ~> status
-----------------------------------------------------------------------------
(* What the proofs of the safety properties rest on.                       *)

\* However late AXI is, the states in which the slave takes bits in follow the master's
\* bits; a slave that still sends may have lost count.
InStep ==
  /\ m.line = "idle" => CurSt \in {"IDLE", "READwaitENDsendDATA"} /\ ~i2cBUSY
  /\ m.line # "idle" \/ m.kind # "other" => m.packet > 0
  /\ m.line = "low" => m.bits <= W /\ (m.bytes = MaxBytes + 1 => m.bits = 0)
  /\ m.line = "high" => (m.bytes = 0 \/ m.bits > 0) /\ (m.bytes = MaxBytes + 1 => m.bits = 1)
  /\ m.kind = "read" => m.reads
  /\ i2cBUSY => m.kind # "other"
  /\ CurSt = "ADDR_RnW" => m.bytes = 0 /\ m.bits < W /\ count = W - m.bits
  /\ CurSt = "ACKwrite1_5" => m.line = "high" /\ m.bits = W /\ count = W
  /\ CurSt = "ACKwrite2" => m.bits = (IF m.line = "low" THEN W ELSE W + 1) /\ count = W
  /\ CurSt \in {"ACKwrite1_5", "ACKwrite2"} =>
       /\ m.kind # "other"
       /\ m.bytes = 0 => ~W_phase /\ ~R_phase
       /\ m.bytes > 0 => m.kind = "write" /\ (W_phase \/ R_phase)
  /\ CurSt \in {"WRITEfirst", "WRITEother"} =>
       /\ m.kind = "write" /\ m.bytes > 0 /\ (CurSt = "WRITEfirst" <=> m.bytes = 1)
       /\ m.bits < W /\ count = W - m.bits
  /\ CurSt = "READwaitAXI" => m.kind = "read" /\ m.bytes > 0
  /\ W_phase \/ R_phase => CurSt \in {"ACKwrite1_5", "ACKwrite2", "WRITEother"}

\* The acknowledge after a byte that the slave takes in.
AckState == IF m.line = "high" /\ m.bits = W THEN "ACKwrite1_5" ELSE "ACKwrite2"

\* While AXI keeps up, the state of the slave is that of the master's transaction.
Addressed ==
  prompt =>
    /\ m.line = "idle" => CurSt = "IDLE"
    /\ AR_CS # "IDLE" => /\ m.line = "low" /\ m.kind = "read" /\ m.bytes = 1 /\ m.bits = 0
                         /\ CurSt = "READwaitAXI"
    /\ m.line # "idle" /\ m.bytes = 0 =>
         CurSt = IF m.bits < W THEN "ADDR_RnW" ELSE IF m.kind = "other" THEN "IDLE" ELSE AckState
    /\ m.line # "idle" /\ m.bytes > 0 /\ m.kind = "write" =>
         CurSt = IF m.bits >= W THEN AckState ELSE IF m.bytes = 1 THEN "WRITEfirst" ELSE "WRITEother"
    /\ m.line # "idle" /\ m.bytes = 1 /\ m.kind = "read" /\ AR_CS = "IDLE" =>
         IF m.bits = W + 1 THEN CurSt = "IDLE"
                           ELSE CurSt = "READwaitENDsendDATA" /\ sent = m.bits
    /\ m.line # "idle" /\ m.bytes > 0 /\ (m.kind = "other" \/ (m.kind = "read" /\ m.bytes > 1)) =>
         CurSt = "IDLE"
    /\ m.line # "idle" /\ m.kind = "write" /\ (m.bytes > 0 \/ m.bits >= W) => i2cBUSY

\* Bytes of the packet that are complete.
Received == IF m.bytes = 0 THEN 0 ELSE IF m.bits >= W THEN m.bytes ELSE m.bytes - 1

\* The word assembler has the last four of them, and the address counts the words sent.
Assembled ==
  prompt /\ m.kind = "write" /\ m.line # "idle" =>
    /\ q = Received % 4
    /\ \A l \in Lanes : reg32[l] = IF Received + l > 4 THEN Id(m.packet, Received + l - 4) ELSE ZERO
    /\ address_w = IF Received = 0 THEN 0 ELSE 4 * ((Received - 1) \div 4)

\* The word that AXI has not answered yet.
OnItsWay ==
  /\ AW_CS # "AXIDATA" => ~awDone /\ ~wDone
  /\ prompt /\ AW_CS # "IDLE" =>
       /\ m.kind # "other"
       /\ awDone \/ AW_CS = "AXIRESP" => aw = address_w - 4
       /\ wDone \/ AW_CS = "AXIRESP" => wd = [data |-> reg32copy, strb |-> strb]
       /\ m.kind = "write" =>
            /\ address_w >= 4 /\ (m.line # "idle" => strb = 4)
            /\ \A l \in 1 .. strb : reg32copy[l] = Id(m.packet, address_w - 4 + l)

\* Bytes in memory before that word.
Kept == IF AW_CS = "IDLE" THEN address_w ELSE address_w - 4

\* What memory has of the packet, while it comes in and when it has ended.
InMemory ==
  /\ last.packet <= m.packet /\ (m.line # "idle" => last.packet < m.packet)
  /\ prompt =>
       /\ m.kind = "write" /\ m.line # "idle" =>
            \A x \in 1 .. Kept : mem[x - 1] = Id(m.packet, x)
       /\ m.line = "idle" /\ m.packet = last.packet =>
            IF AW_CS = "IDLE" THEN \A x \in 1 .. last.len : mem[x - 1] = Id(m.packet, x)
            ELSE /\ m.kind = "write" /\ WR_TRANSF = "TRANSF_RESP" /\ last.len <= address_w - 4 + strb
                 /\ \A x \in 1 .. address_w - 4 : mem[x - 1] = Id(m.packet, x)

\* What is in the registers and in memory is only said of a slave that fills words from
\* the low lane, and of a master that writes at least a byte.
IInv ==
  /\ TypeOK /\ InStep /\ Addressed
  /\ ~BigEndian /\ MinBytes > 0 => Assembled /\ OnItsWay /\ InMemory /\ OnlyPacketBytes
=============================================================================
