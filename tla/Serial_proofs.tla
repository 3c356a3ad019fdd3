---------------------------- MODULE Serial_proofs ----------------------------
(***************************************************************************)
(* For bursts of every length, FIFOs of every depth and every width of an  *)
(* address, what the model checker finds of the serial ports on a small    *)
(* instance.                                                               *)
(***************************************************************************)
EXTENDS MCSerial, Integers, Sequences, TLAPS

\* Neither port changes how AXI behaves.
LEMMA PromptKept ==
  ASSUME I2c!Next \/ Spi!Next
  PROVE  UNCHANGED prompt
<1>1. ASSUME Spi!Next PROVE UNCHANGED prompt
  BY <1>1 DEF Spi!Next, Spi!Master, Spi!Axi, Spi!Shift, Spi!Command, Spi!Address, Spi!Dummy, Spi!WordIn,
     Spi!RegisterIn, Spi!WordOut, Spi!Select, Spi!Deselect, Spi!LoadAddress, Spi!TakeWord,
     Spi!AcceptAW, Spi!AcceptW, Spi!Respond, Spi!AcceptAR, Spi!ReadData, Spi!Push
<1>2. ASSUME I2c!Next PROVE UNCHANGED prompt
  BY <1>2 DEF I2c!Next, I2c!Bus, I2c!Axi, I2c!Start, I2c!Fall, I2c!Rise, I2c!Stop, I2c!AcceptAW,
     I2c!AcceptW, I2c!Respond, I2c!AcceptAR, I2c!ReadData, I2c!ClearStatus, I2c!busVars
<1> QED BY <1>1, <1>2

(***************************************************************************)
(* The SPI port.                                                           *)
(***************************************************************************)

\* The number of the word that comes in now is one of the burst's range.
LEMMA WordNumber ==
  ASSUME NEW B \in Nat, NEW M \in Nat, NEW b \in 1 .. B, NEW w \in 1 .. M
  PROVE  (b - 1) * M + w \in 1 .. B * M
<1>1. /\ (b - 1) * M \in Nat /\ b * M = (b - 1) * M + M
      /\ B * M = b * M + (B - b) * M /\ (B - b) * M \in Nat
  OBVIOUS
<1> DEFINE x == (b - 1) * M
           y == b * M
           z == (B - b) * M
           t == B * M
<1>2. x \in Nat /\ y = x + M /\ t = y + z /\ z \in Nat
  BY <1>1
<1> HIDE DEF x, y, z, t
<1>3. x + w \in 1 .. t
  BY <1>2
<1> QED BY <1>3 DEF x, t

\* The assumption on the constants, one by one.
LEMMA SpiConstants ==
  /\ CmdLen \in Nat /\ CmdLen > 0 /\ AddrLen \in Nat /\ AddrLen > 0
  /\ DummyLen \in Nat /\ DummyLen > 0 /\ Depth \in Nat /\ Depth > 0
  /\ AddrMod \in Nat /\ AddrMod > 0 /\ CountMod \in Nat /\ CountMod > 0
  /\ MaxWords \in Nat /\ MaxBursts \in Nat /\ SlowWords \in Nat /\ SlowWords <= MaxWords
  /\ SlowBursts \in Nat /\ SlowBursts <= MaxBursts
  /\ CmdLen + AddrLen >= Depth
  /\ \A b \in Bases : b \in 0 .. AddrMod - 1 /\ b + MaxWords <= AddrMod
  /\ MaxWords <= AddrMod
  /\ \A w \in WrapLengths : w \in 0 .. CountMod - 1
<1> USE SerialAssumption DEF Spi!SpiAssumption
<1>1. \A c \in {CmdLen, AddrLen, DummyLen, Depth, AddrMod, CountMod} : c \in Nat /\ c > 0
  OBVIOUS
<1>2. \A b \in Bases \union {0} : b + MaxWords <= AddrMod
  OBVIOUS
<1>3. MaxWords <= AddrMod
  BY <1>2
<1> QED BY <1>1, <1>2, <1>3

\* The type invariant of the SPI port, register by register.
SpiRegisters ==
  /\ prompt \in BOOLEAN /\ cs \in BOOLEAN /\ addr_valid \in BOOLEAN
  /\ awDone \in BOOLEAN /\ wDone \in BOOLEAN
  /\ state \in {"CMD", "ADDR", "DUMMY", "DATA_RX", "DATA_TX"}
  /\ n \in Nat /\ n < Spi!Unit
  /\ addr_reg \in Spi!Addresses /\ curr_addr \in Spi!Addresses /\ aw \in Spi!Addresses
  /\ ar \in Spi!Addresses /\ base \in Spi!Addresses
  /\ wrap_length \in 0 .. CountMod - 1 /\ tx_counter \in 0 .. CountMod - 1
  /\ rxfifo \in Seq(1 .. Spi!Total) /\ Len(rxfifo) <= Depth
  /\ txfifo \in Seq(Spi!Addresses) /\ Len(txfifo) <= Depth
  /\ aw_q \in {"Idle", "AxiValid", "AxiResp"}
  /\ ar_q \in {"Idle", "AxiAddr", "AxiResp", "Data"}
  /\ mem \in [Spi!Addresses -> 0 .. Spi!Total] /\ curr_data_rx \in 0 .. Spi!Total
  /\ got \in Seq(Spi!Addresses \union {Spi!Nowhere})

LEMMA SpiPlain ==
  /\ Spi!TypeOK <=> SpiRegisters
  /\ Spi!TypeOK' <=> SpiRegisters'
<1> USE SpiConstants
<1>1. Spi!Unit \in Nat \ {0} /\ Spi!Unit' \in Nat \ {0}
  BY DEF Spi!Unit
<1>2. (n \in 0 .. Spi!Unit - 1 <=> n \in Nat /\ n < Spi!Unit)
      /\ (n' \in 0 .. Spi!Unit' - 1 <=> n' \in Nat /\ n' < Spi!Unit')
  BY <1>1
<1>3. ASSUME NEW a, NEW b, NEW c, NEW d, NEW e, NEW T
      PROVE  /\ {a, b, c, d, e} \subseteq T <=> a \in T /\ b \in T /\ c \in T /\ d \in T /\ e \in T
             /\ {a, b} \subseteq T <=> a \in T /\ b \in T
  OBVIOUS
<1>4. Spi!TypeOK <=> SpiRegisters
  BY <1>2, <1>3 DEF Spi!TypeOK, SpiRegisters
<1>5. Spi!TypeOK' <=> SpiRegisters'
  BY <1>2, <1>3 DEF Spi!TypeOK, SpiRegisters
<1> QED BY <1>4, <1>5

\* An edge of SCLK is given where the controller is selected and the address has arrived.
LEMMA AtEdge ==
  /\ Spi!Edge(TRUE) => ~cs /\ ~addr_valid /\ n + 1 = Spi!Unit /\ (prompt => Spi!Quiet)
  /\ Spi!Edge(FALSE) => ~cs /\ ~addr_valid /\ n + 1 # Spi!Unit
  BY DEF Spi!Edge

\* Addresses and the transfer count stay in their ranges when they count.
LEMMA Ranges ==
  /\ 0 \in Spi!Addresses /\ Bases \subseteq Spi!Addresses
  /\ \A x \in Spi!Addresses : (x + 1) % AddrMod \in Spi!Addresses
  /\ 0 \in 0 .. CountMod - 1 /\ WrapLengths \subseteq 0 .. CountMod - 1
  /\ \A x \in 0 .. CountMod - 1 : (x + 1) % CountMod \in 0 .. CountMod - 1
<1>1. ASSUME NEW M \in Nat, M > 0
      PROVE  /\ 0 \in 0 .. M - 1
             /\ \A x \in 0 .. M - 1 : (x + 1) % M \in 0 .. M - 1
  BY <1>1
<1> QED BY <1>1, SpiConstants DEF Spi!Addresses

\* What a FIFO is before and after a word goes in or out.
LEMMA FifoSteps ==
  ASSUME NEW T, NEW s \in Seq(T)
  PROVE  /\ s # <<>> => Head(s) \in T /\ Tail(s) \in Seq(T) /\ Len(Tail(s)) = Len(s) - 1
         /\ <<>> \in Seq(T) /\ Len(<<>>) = 0
         /\ \A x \in T : Append(s, x) \in Seq(T) /\ Len(Append(s, x)) = Len(s) + 1
  OBVIOUS

\* A word taken from the FIFO to the master, to be thrown away or to be sent.
LEMMA Popped ==
  ASSUME SpiRegisters
  PROVE  /\ Spi!Pop => txfifo' \in Seq(Spi!Addresses) /\ Len(txfifo') <= Depth
         /\ Spi!Flush => txfifo' \in Seq(Spi!Addresses) /\ Len(txfifo') <= Depth
         /\ Spi!Load => got' \in Seq(Spi!Addresses \union {Spi!Nowhere})
<1>1. Spi!Pop => txfifo' \in Seq(Spi!Addresses) /\ Len(txfifo') <= Depth
  BY FifoSteps, SpiConstants DEF SpiRegisters, Spi!Pop
<1>2. Spi!Load => got' \in Seq(Spi!Addresses \union {Spi!Nowhere})
  <2>1. ASSUME NEW x \in Spi!Addresses \union {Spi!Nowhere}, got' = Append(got, x)
        PROVE  got' \in Seq(Spi!Addresses \union {Spi!Nowhere})
    BY <2>1, FifoSteps DEF SpiRegisters
  <2>2. txfifo # <<>> => Head(txfifo) \in Spi!Addresses
    BY FifoSteps DEF SpiRegisters
  <2> QED BY <2>1, <2>2 DEF Spi!Load
<1> QED BY <1>1, <1>2 DEF Spi!Flush, SpiRegisters

\* A word that comes in is the next of a burst that has room for it.
LEMMA NewWord ==
  ASSUME SpiRegisters, Spi!InOrder, Spi!WordIn
  PROVE  /\ burst \in 1 .. MaxBursts /\ words[burst] \in Nat /\ words[burst] < MaxWords
         /\ words' = [words EXCEPT ![burst] = @ + 1] /\ words'[burst] = words[burst] + 1
         /\ rxfifo' = IF Len(rxfifo) < Depth
                      THEN Append(rxfifo, (burst - 1) * MaxWords + words'[burst]) ELSE rxfifo
<1>1. /\ ~cs /\ words[burst] < Spi!Most
      /\ words' = [words EXCEPT ![burst] = @ + 1]
      /\ rxfifo' = IF Len(rxfifo) < Depth
                   THEN Append(rxfifo, (burst - 1) * MaxWords + words'[burst]) ELSE rxfifo
  BY AtEdge DEF Spi!WordIn
<1>2. /\ burst \in 0 .. MaxBursts /\ burst > 0 /\ words \in [1 .. MaxBursts -> 0 .. MaxWords]
  BY <1>1 DEF Spi!InOrder
<1>3. Spi!Most \in Nat /\ Spi!Most <= MaxWords
  BY SpiConstants DEF Spi!Most
<1>4. burst \in 1 .. MaxBursts /\ words[burst] \in 0 .. MaxWords
  BY <1>2, SpiConstants
<1>5. words'[burst] = words[burst] + 1
  BY <1>1, <1>2, <1>4
<1>6. words[burst] \in Nat /\ words[burst] < MaxWords
  BY <1>1, <1>3, <1>4, SpiConstants
<1> QED BY <1>1, <1>4, <1>5, <1>6

\* A step of the SPI port keeps every register in its type.
LEMMA SpiTyped ==
  ASSUME Spi!TypeOK, Spi!InOrder, Spi!Next
  PROVE  Spi!TypeOK'
<1> SUFFICES ASSUME SpiRegisters PROVE SpiRegisters'
  BY SpiPlain
<1>a. Spi!Shift => n' \in Nat /\ n' < Spi!Unit'
  <2>1. SUFFICES ASSUME Spi!Shift PROVE n' \in Nat /\ n' < Spi!Unit'
    OBVIOUS
  <2>2. n' = n + 1 /\ n + 1 # Spi!Unit /\ Spi!Unit' = Spi!Unit
    BY <2>1, AtEdge DEF Spi!Shift, Spi!Unit, Spi!enable_regs
  <2>3. n \in Nat /\ n < Spi!Unit /\ Spi!Unit \in Nat
    BY SpiConstants DEF SpiRegisters, Spi!Unit
  <2> QED BY <2>2, <2>3
<1>b. Spi!WordIn => rxfifo' \in Seq(1 .. Spi!Total) /\ Len(rxfifo') <= Depth
  <2>1. SUFFICES ASSUME Spi!WordIn
                 PROVE  rxfifo' \in Seq(1 .. Spi!Total) /\ Len(rxfifo') <= Depth
    OBVIOUS
  <2> DEFINE w  == words'[burst]
             id == (burst - 1) * MaxWords + w
  <2>2. burst \in 1 .. MaxBursts /\ w \in 1 .. MaxWords
    <3>1. /\ w = words[burst] + 1 /\ words[burst] \in Nat /\ words[burst] < MaxWords
          /\ burst \in 1 .. MaxBursts
      BY <2>1, NewWord
    <3> HIDE DEF w
    <3> QED BY <3>1, SpiConstants
  <2>3. rxfifo' = IF Len(rxfifo) < Depth THEN Append(rxfifo, id) ELSE rxfifo
    BY <2>1, NewWord
  <2> HIDE DEF w
  <2>4. id \in 1 .. Spi!Total
    BY <2>2, SpiConstants, WordNumber DEF Spi!Total
  <2> HIDE DEF id
  <2>5. rxfifo \in Seq(1 .. Spi!Total) /\ Len(rxfifo) <= Depth
    BY DEF SpiRegisters
  <2>6. Append(rxfifo, id) \in Seq(1 .. Spi!Total) /\ Len(Append(rxfifo, id)) = Len(rxfifo) + 1
    BY <2>4, <2>5, FifoSteps
  <2>7. Len(rxfifo) \in Nat
    BY <2>5
  <2>8. CASE Len(rxfifo) < Depth
    <3>1. Len(rxfifo) + 1 <= Depth
      BY <2>7, <2>8, SpiConstants
    <3>2. rxfifo' = Append(rxfifo, id)
      BY <2>3, <2>8
    <3> QED BY <3>1, <3>2, <2>6
  <2> QED BY <2>3, <2>5, <2>8
<1>c. Spi!TakeWord => /\ rxfifo' \in Seq(1 .. Spi!Total) /\ Len(rxfifo') <= Depth
                      /\ curr_data_rx' \in 0 .. Spi!Total
  <2>1. SUFFICES ASSUME Spi!TakeWord
                 PROVE  /\ rxfifo' \in Seq(1 .. Spi!Total) /\ Len(rxfifo') <= Depth
                        /\ curr_data_rx' \in 0 .. Spi!Total
    OBVIOUS
  <2>2. rxfifo # <<>> /\ rxfifo' = Tail(rxfifo) /\ curr_data_rx' = Head(rxfifo)
    BY <2>1 DEF Spi!TakeWord
  <2>3. rxfifo \in Seq(1 .. Spi!Total) /\ Len(rxfifo) <= Depth
    BY DEF SpiRegisters
  <2>4. /\ rxfifo' \in Seq(1 .. Spi!Total) /\ Len(rxfifo') = Len(rxfifo) - 1
        /\ Head(rxfifo) \in 1 .. Spi!Total
    BY <2>2, <2>3, FifoSteps
  <2>5. \A x \in 1 .. Spi!Total : x \in 0 .. Spi!Total
    BY SpiConstants DEF Spi!Total
  <2> QED BY <2>2, <2>3, <2>4, <2>5, SpiConstants
<1> USE SpiConstants, Ranges DEF SpiRegisters, Spi!Unit, Spi!enable_regs, Spi!Nowhere,
            Spi!spiVars, Spi!writeVars, Spi!addrVars, Spi!readVars, Spi!histVars
<1>1. CASE Spi!Shift
  <2> HIDE DEF Spi!Unit
  <2>1. txfifo' \in Seq(Spi!Addresses) /\ Len(txfifo') <= Depth
    BY <1>1, Popped DEF Spi!Shift
  <2> QED BY <1>1, <1>a, <2>1 DEF Spi!Shift
<1>2. CASE Spi!Command
  BY AtEdge, Popped, <1>2 DEF Spi!Command
<1>3. CASE Spi!Address
  BY AtEdge, Popped, <1>3 DEF Spi!Address
<1>4. CASE Spi!Dummy
  BY AtEdge, Popped, <1>4 DEF Spi!Dummy, Spi!Load
<1>5. CASE Spi!WordIn
  BY <1>5, <1>b, AtEdge DEF Spi!WordIn
<1>6. CASE Spi!RegisterIn
  BY AtEdge, <1>6 DEF Spi!RegisterIn
<1>7. CASE Spi!WordOut
  BY AtEdge, Popped, <1>7 DEF Spi!WordOut, Spi!Load
<1>8. CASE Spi!Select
  BY <1>8, FifoSteps DEF Spi!Select
<1>9. CASE Spi!Deselect
  BY <1>9 DEF Spi!Deselect
<1>10. CASE Spi!LoadAddress
  BY <1>10 DEF Spi!LoadAddress
<1>11. CASE Spi!TakeWord
  BY <1>11, <1>c DEF Spi!TakeWord
<1>12. CASE Spi!AcceptAW
  BY <1>12 DEF Spi!AcceptAW, Spi!Advance, Spi!next_addr, Spi!AtWrap
<1>13. CASE Spi!AcceptW
  BY <1>13 DEF Spi!AcceptW, Spi!Advance, Spi!next_addr, Spi!AtWrap
<1>14. CASE Spi!Respond
  BY <1>14 DEF Spi!Respond
<1>15. CASE Spi!AcceptAR
  BY <1>15 DEF Spi!AcceptAR
<1>16. CASE Spi!ReadData
  BY <1>16 DEF Spi!ReadData
<1>17. CASE Spi!Push
  <2>1. txfifo' \in Seq(Spi!Addresses) /\ Len(txfifo') <= Depth
    BY <1>17, FifoSteps DEF Spi!Push
  <2> QED BY <1>17, <2>1 DEF Spi!Push, Spi!Advance, Spi!next_addr, Spi!AtWrap
<1> QED BY <1>1, <1>2, <1>3, <1>4, <1>5, <1>6, <1>7, <1>8, <1>9, <1>10, <1>11, <1>12,
           <1>13, <1>14, <1>15, <1>16, <1>17 DEF Spi!Next, Spi!Master, Spi!Axi

\* A new burst begins behind the numbers of the one before.
LEMMA BurstNumbers ==
  ASSUME NEW b \in Nat, NEW M \in Nat, NEW w \in 0 .. M, b > 0
  PROVE  (b - 1) * M \in Nat /\ (b - 1) * M + w <= b * M
<1>1. (b - 1) * M \in Nat /\ b * M = (b - 1) * M + M
  OBVIOUS
<1> DEFINE x == (b - 1) * M
           y == b * M
<1>2. x \in Nat /\ y = x + M
  BY <1>1
<1> HIDE DEF x, y
<1>3. x + w <= y
  BY <1>2
<1> QED BY <1>1, <1>3 DEF x, y

\* The places of the words in a FIFO.
LEMMA FifoPlaces ==
  ASSUME NEW T, NEW s \in Seq(T)
  PROVE  /\ Len(s) \in Nat
         /\ s # <<>> => /\ Len(s) > 0 /\ Head(s) = s[1] /\ Len(Tail(s)) = Len(s) - 1
                        /\ \A x \in 1 .. Len(Tail(s)) : Tail(s)[x] = s[x + 1]
         /\ \A e \in T : /\ Len(Append(s, e)) = Len(s) + 1
                         /\ \A x \in 1 .. Len(s) : Append(s, e)[x] = s[x]
                         /\ Append(s, e)[Len(s) + 1] = e
  OBVIOUS

\* The words on their way are numbers.
LEMMA FifoNumbers ==
  ASSUME SpiRegisters
  PROVE  rxfifo \in Seq(Int) /\ \A x \in 1 .. Len(rxfifo) : rxfifo[x] \in Int
<1>1. rxfifo \in Seq(1 .. Spi!Total) /\ 1 .. Spi!Total \subseteq Int
  BY SpiConstants DEF SpiRegisters, Spi!Total
<1>2. ASSUME NEW T, NEW U, T \subseteq U, NEW s \in Seq(T)
      PROVE  s \in Seq(U) /\ \A x \in 1 .. Len(s) : s[x] \in U
  BY <1>2
<1> QED BY <1>1, <1>2

\* A step keeps the words on their way in order.
LEMMA SpiOrdered ==
  ASSUME SpiRegisters, Spi!InOrder, Spi!Next
  PROVE  Spi!InOrder'
<1>1. ASSUME UNCHANGED <<rxfifo, curr_data_rx, written, burst, words>>,
             aw_q' # "Idle" => aw_q # "Idle", cs' \/ ~cs
      PROVE  Spi!InOrder'
  BY <1>1 DEF Spi!InOrder, Spi!Sent, SpiRegisters
<1>2. CASE \/ Spi!Shift \/ Spi!Command \/ Spi!Address \/ Spi!Dummy \/ Spi!RegisterIn
           \/ Spi!WordOut \/ Spi!Deselect
  BY <1>1, <1>2 DEF Spi!Shift, Spi!Command, Spi!Address, Spi!Dummy, Spi!RegisterIn,
       Spi!WordOut, Spi!Deselect, Spi!histVars, Spi!writeVars
<1>3. CASE Spi!LoadAddress \/ Spi!AcceptAW \/ Spi!AcceptW \/ Spi!AcceptAR \/ Spi!ReadData
             \/ Spi!Push
  BY <1>1, <1>3 DEF Spi!LoadAddress, Spi!AcceptAW, Spi!AcceptW, Spi!AcceptAR, Spi!ReadData,
       Spi!Push, Spi!histVars, Spi!writeVars, Spi!spiVars
<1>4. CASE Spi!WordIn
  <2> DEFINE w  == words'[burst]
             id == (burst - 1) * MaxWords + w
  <2>1. /\ burst \in 1 .. MaxBursts /\ words[burst] \in Nat /\ w = words[burst] + 1
        /\ w <= MaxWords /\ words' = [words EXCEPT ![burst] = @ + 1]
    <3>1. /\ burst \in 1 .. MaxBursts /\ words[burst] \in Nat /\ words[burst] < MaxWords
          /\ words' = [words EXCEPT ![burst] = @ + 1] /\ w = words[burst] + 1
      BY <1>4, NewWord
    <3> HIDE DEF w
    <3> QED BY <3>1, SpiConstants
  <2>2. rxfifo' = IF Len(rxfifo) < Depth THEN Append(rxfifo, id) ELSE rxfifo
    BY <1>4, NewWord
  <2>3. UNCHANGED <<cs, burst, curr_data_rx, written, aw_q>>
    BY <1>4 DEF Spi!WordIn, Spi!writeVars
  <2>4. words' \in [1 .. MaxBursts -> 0 .. MaxWords]
    BY <2>1 DEF Spi!InOrder
  <2>5. \A b \in 1 .. MaxBursts : b > burst => words'[b] = 0
    BY <2>1 DEF Spi!InOrder
  <2>6. Spi!Sent \in Nat /\ Spi!Sent' = id /\ id = Spi!Sent + 1
    <3>1. Spi!Sent = (burst - 1) * MaxWords + words[burst] /\ Spi!Sent' = id
      BY <2>1, <2>3 DEF Spi!Sent
    <3>2. (burst - 1) * MaxWords \in Nat
      BY <2>1, SpiConstants
    <3>3. ASSUME NEW x \in Nat, NEW y \in Nat, NEW z, z = y + 1
          PROVE  x + y \in Nat /\ x + z = x + y + 1
      BY <3>3
    <3> HIDE DEF w
    <3>4. (burst - 1) * MaxWords + words[burst] \in Nat
          /\ (burst - 1) * MaxWords + w = (burst - 1) * MaxWords + words[burst] + 1
      BY <2>1, <3>2, <3>3
    <3> QED BY <3>1, <3>4
  <2> HIDE DEF id
  <2>7. rxfifo \in Seq(Int) /\ id \in Int
    BY <2>6, FifoNumbers
  <2>8. /\ \A x \in 1 .. Len(rxfifo') : curr_data_rx < rxfifo'[x] /\ rxfifo'[x] <= id
        /\ \A x, y \in 1 .. Len(rxfifo') : x < y => rxfifo'[x] < rxfifo'[y]
    <3>1. /\ \A x \in 1 .. Len(rxfifo) : curr_data_rx < rxfifo[x] /\ rxfifo[x] <= Spi!Sent
          /\ \A x, y \in 1 .. Len(rxfifo) : x < y => rxfifo[x] < rxfifo[y]
          /\ curr_data_rx \in 0 .. Spi!Total /\ curr_data_rx <= Spi!Sent
      BY DEF Spi!InOrder, SpiRegisters
    <3>2. \A x \in 1 .. Len(rxfifo) : rxfifo[x] \in Int
      BY <2>7
    <3>3. Len(rxfifo) \in Nat
      BY <2>7
    <3>4. CASE rxfifo' = rxfifo
      BY <2>6, <3>1, <3>2, <3>4
    <3>5. CASE rxfifo' = Append(rxfifo, id)
      <4>1. /\ Len(rxfifo') = Len(rxfifo) + 1 /\ rxfifo'[Len(rxfifo) + 1] = id
            /\ \A x \in 1 .. Len(rxfifo) : rxfifo'[x] = rxfifo[x]
        BY <2>7, <3>5, FifoPlaces
      <4>2. \A x \in 1 .. Len(rxfifo') : x \in 1 .. Len(rxfifo) \/ x = Len(rxfifo) + 1
        BY <4>1, <3>3
      <4>3. \A x \in 1 .. Len(rxfifo') : curr_data_rx < rxfifo'[x] /\ rxfifo'[x] <= id
        BY <2>6, <3>1, <3>2, <4>1, <4>2
      <4>4. \A x, y \in 1 .. Len(rxfifo') : x < y => rxfifo'[x] < rxfifo'[y]
        <5>1. TAKE x, y \in 1 .. Len(rxfifo')
        <5>2. HAVE x < y
        <5>3. x \in 1 .. Len(rxfifo)
          BY <4>2, <5>2, <3>3, <4>1
        <5> QED BY <2>6, <3>1, <3>2, <4>1, <4>2, <5>2, <5>3
      <4> QED BY <4>3, <4>4
    <3> QED BY <2>2, <3>4, <3>5
  <2>9. curr_data_rx' <= Spi!Sent'
    BY <2>3, <2>6 DEF Spi!InOrder, SpiRegisters
  <2> QED BY <2>1, <2>3, <2>4, <2>5, <2>6, <2>8, <2>9 DEF Spi!InOrder
<1>5. CASE Spi!Select
  <2>1. /\ burst' = burst + 1 /\ burst < MaxBursts /\ cs' = FALSE
        /\ UNCHANGED <<words, rxfifo, curr_data_rx, written, aw_q>>
    BY <1>5, SpiConstants DEF Spi!Select, Spi!writeVars, Spi!InOrder
  <2>2. /\ burst \in 0 .. MaxBursts /\ words \in [1 .. MaxBursts -> 0 .. MaxWords]
        /\ \A b \in 1 .. MaxBursts : b > burst => words[b] = 0
    BY DEF Spi!InOrder
  <2>3. burst \in Nat /\ burst' \in 1 .. MaxBursts /\ words[burst'] = 0
    BY <2>1, <2>2, SpiConstants
  <2>4. Spi!Sent' = burst * MaxWords
    <3>1. (burst + 1 - 1) * MaxWords + 0 = burst * MaxWords
      BY <2>3, SpiConstants
    <3> QED BY <2>1, <2>3, <3>1 DEF Spi!Sent
  <2>5. Spi!Sent \in Nat /\ Spi!Sent' \in Nat /\ Spi!Sent <= Spi!Sent'
    <3>1. CASE burst = 0
      <4>1. 0 * MaxWords = 0
        BY SpiConstants
      <4> QED BY <2>4, <3>1, <4>1 DEF Spi!Sent
    <3>2. CASE burst > 0
      <4>1. words[burst] \in 0 .. MaxWords
        BY <2>2, <3>2, SpiConstants
      <4>2. (burst - 1) * MaxWords \in Nat /\ (burst - 1) * MaxWords + words[burst] <= burst * MaxWords
        BY <2>3, <3>2, <4>1, BurstNumbers, SpiConstants
      <4>3. burst * MaxWords \in Nat
        BY <2>3, SpiConstants
      <4>4. Spi!Sent = (burst - 1) * MaxWords + words[burst]
        BY <3>2 DEF Spi!Sent
      <4>5. (burst - 1) * MaxWords + words[burst] \in Nat
        BY <4>1, <4>2, SpiConstants
      <4> QED BY <2>4, <4>2, <4>3, <4>4, <4>5
    <3> QED BY <2>3, <3>1, <3>2
  <2>6. \A x \in 1 .. Len(rxfifo) : rxfifo[x] \in Int
    BY FifoNumbers
  <2>7. \A x \in 1 .. Len(rxfifo) : curr_data_rx < rxfifo[x] /\ rxfifo[x] <= Spi!Sent'
    BY <2>5, <2>6 DEF Spi!InOrder
  <2>8. \A b \in 1 .. MaxBursts : b > burst' => words[b] = 0
    BY <2>1, <2>2, <2>3
  <2>9. curr_data_rx <= Spi!Sent'
    BY <2>5 DEF Spi!InOrder, SpiRegisters
  <2> QED BY <2>1, <2>2, <2>3, <2>5, <2>7, <2>8, <2>9 DEF Spi!InOrder
<1>6. CASE Spi!TakeWord
  <2>1. /\ rxfifo # <<>> /\ rxfifo' = Tail(rxfifo) /\ curr_data_rx' = Head(rxfifo)
        /\ aw_q = "Idle" /\ UNCHANGED <<cs, written, burst, words>>
    BY <1>6 DEF Spi!TakeWord, Spi!histVars, Spi!spiVars
  <2>2. rxfifo \in Seq(Int) /\ \A x \in 1 .. Len(rxfifo) : rxfifo[x] \in Int
    BY FifoNumbers
  <2>3. /\ Len(rxfifo) \in Nat /\ Len(rxfifo) > 0 /\ curr_data_rx' = rxfifo[1]
        /\ Len(rxfifo') = Len(rxfifo) - 1
        /\ \A x \in 1 .. Len(rxfifo') : rxfifo'[x] = rxfifo[x + 1]
    BY <2>1, <2>2, FifoPlaces
  <2>4. /\ curr_data_rx \in Int /\ written \in Nat /\ written <= curr_data_rx
        /\ \A x \in 1 .. Len(rxfifo) : curr_data_rx < rxfifo[x] /\ rxfifo[x] <= Spi!Sent
        /\ \A x, y \in 1 .. Len(rxfifo) : x < y => rxfifo[x] < rxfifo[y]
    BY DEF Spi!InOrder, SpiRegisters
  <2>5. curr_data_rx < curr_data_rx' /\ curr_data_rx' <= Spi!Sent /\ curr_data_rx' \in Int
    BY <2>2, <2>3, <2>4
  <2>6. written' < curr_data_rx' /\ written' <= curr_data_rx'
    BY <2>1, <2>4, <2>5
  <2>7. \A x \in 1 .. Len(rxfifo') : x + 1 \in 1 .. Len(rxfifo) /\ 1 \in 1 .. Len(rxfifo) /\ 1 < x + 1
    BY <2>3
  <2>8. \A x \in 1 .. Len(rxfifo') : curr_data_rx' < rxfifo'[x] /\ rxfifo'[x] <= Spi!Sent
    BY <2>3, <2>4, <2>7
  <2>9. \A x, y \in 1 .. Len(rxfifo') : x < y => rxfifo'[x] < rxfifo'[y]
    <3>1. TAKE x, y \in 1 .. Len(rxfifo')
    <3>2. HAVE x < y
    <3>3. x + 1 < y + 1
      BY <2>3, <3>2
    <3> QED BY <2>3, <2>4, <2>7, <3>3
  <2>10. Spi!Sent' = Spi!Sent
    BY <2>1 DEF Spi!Sent
  <2> QED BY <2>1, <2>5, <2>6, <2>8, <2>9, <2>10 DEF Spi!InOrder
<1>7. CASE Spi!Respond
  <2>1. /\ aw_q = "AxiResp" /\ aw_q' = "Idle" /\ written' = curr_data_rx
        /\ UNCHANGED <<cs, rxfifo, curr_data_rx, burst, words>>
    BY <1>7 DEF Spi!Respond, Spi!histVars, Spi!spiVars
  <2>2. curr_data_rx \in Nat
    BY DEF SpiRegisters, Spi!Total
  <2> QED BY <2>1, <2>2 DEF Spi!InOrder, Spi!Sent
<1> QED BY <1>2, <1>3, <1>4, <1>5, <1>6, <1>7 DEF Spi!Next, Spi!Master, Spi!Axi

\* A step keeps what the phases of the command machine stand for.
LEMMA SpiPhases ==
  ASSUME SpiRegisters, Spi!InOrder, Spi!Phases, Spi!Next
  PROVE  Spi!Phases'
<1> USE DEF Spi!Phases, Spi!get_addr, Spi!get_data, Spi!enable_regs, Spi!enable_cont,
            Spi!spiVars, Spi!writeVars, Spi!histVars
<1>1. CASE Spi!Shift
  BY AtEdge, <1>1 DEF Spi!Shift
<1>2. CASE Spi!Command
  BY AtEdge, <1>2 DEF Spi!Command, Spi!get_addr, Spi!get_data
<1>3. CASE Spi!Address
  BY AtEdge, SpiConstants, <1>3 DEF Spi!Address, Spi!get_data
<1>4. CASE Spi!Dummy
  BY AtEdge, <1>4 DEF Spi!Dummy, Spi!Load
<1>5. CASE Spi!WordIn
  <2>1. cmd_reg = "writeMem"
    BY <1>5 DEF Spi!WordIn
  <2> QED BY AtEdge, <1>5, <2>1 DEF Spi!WordIn
<1>6. CASE Spi!RegisterIn
  BY AtEdge, <1>6 DEF Spi!RegisterIn
<1>7. CASE Spi!WordOut
  <2>1. prompt' /\ Len(got') > 1 => Len(got') <= MaxWords
    <3>1. CASE got' = got
      BY <1>7, <3>1 DEF Spi!WordOut
    <3>2. CASE got' # got
      <4>1. /\ Len(got) < Spi!Most /\ prompt' = prompt
            /\ got' = Append(got, IF txfifo = <<>> THEN Spi!Nowhere ELSE Head(txfifo))
        BY <1>7, <3>2 DEF Spi!WordOut, Spi!Load
      <4>2. got \in Seq(Spi!Addresses \union {Spi!Nowhere})
        BY DEF SpiRegisters
      <4>3. Len(got') = Len(got) + 1 /\ Len(got) \in Nat
        BY <4>1, <4>2
      <4> QED BY <4>1, <4>3, SpiConstants DEF Spi!Most
    <3> QED BY <3>1, <3>2
  <2> QED BY AtEdge, <1>7, <2>1 DEF Spi!WordOut, Spi!Load
<1>8. CASE Spi!Select
  <2>1. burst' \in 1 .. MaxBursts /\ words'[burst'] = 0
    BY <1>8, SpiConstants DEF Spi!Select, Spi!InOrder
  <2> QED BY <1>8, <2>1 DEF Spi!Select
<1>9. CASE Spi!Deselect
  <2>1. /\ cs' /\ state' = "CMD" /\ n' = 0
        /\ UNCHANGED <<prompt, base, got, aw_q, awDone, wDone>>
    BY <1>9 DEF Spi!Deselect
  <2>2. prompt => ~addr_valid'
    BY <1>9 DEF Spi!Deselect
  <2> QED BY <2>1, <2>2
<1>10. CASE Spi!LoadAddress
  BY <1>10 DEF Spi!LoadAddress
<1>11. CASE Spi!TakeWord
  BY <1>11 DEF Spi!TakeWord
<1>12. CASE Spi!AcceptAW
  BY <1>12 DEF Spi!AcceptAW
<1>13. CASE Spi!AcceptW
  BY <1>13 DEF Spi!AcceptW
<1>14. CASE Spi!Respond
  BY <1>14 DEF Spi!Respond
<1>15. CASE Spi!AcceptAR
  BY <1>15 DEF Spi!AcceptAR
<1>16. CASE Spi!ReadData
  BY <1>16 DEF Spi!ReadData
<1>17. CASE Spi!Push
  BY <1>17 DEF Spi!Push
<1> QED BY <1>1, <1>2, <1>3, <1>4, <1>5, <1>6, <1>7, <1>8, <1>9, <1>10, <1>11, <1>12,
           <1>13, <1>14, <1>15, <1>16, <1>17 DEF Spi!Next, Spi!Master, Spi!Axi

\* While AXI keeps up, the FIFO is empty when a word comes in.
LEMMA OneWordIn ==
  ASSUME SpiRegisters, Spi!InOrder, Spi!WordIn, prompt
  PROVE  /\ rxfifo = <<>> /\ aw_q = "Idle" /\ UNCHANGED <<aw_q, burst>>
         /\ words' = [words EXCEPT ![burst] = @ + 1] /\ words'[burst] = words[burst] + 1
         /\ burst \in 1 .. MaxBursts /\ words[burst] \in Nat /\ words[burst] < MaxWords
         /\ Spi!Sent' = (burst - 1) * MaxWords + words'[burst]
         /\ rxfifo' = <<Spi!Sent'>>
<1>1. rxfifo = <<>> /\ aw_q = "Idle" /\ UNCHANGED <<aw_q, burst>>
  BY AtEdge DEF Spi!WordIn, Spi!Quiet, Spi!writeVars
<1>2. burst \in 1 .. MaxBursts
  BY NewWord
<1>3. Spi!Sent' = (burst - 1) * MaxWords + words'[burst]
  BY <1>1, <1>2 DEF Spi!Sent
<1>4. Len(rxfifo) < Depth
  BY <1>1, SpiConstants
<1>5. rxfifo' = Append(<<>>, (burst - 1) * MaxWords + words'[burst])
  BY <1>1, <1>4, NewWord
<1>6. rxfifo' = <<(burst - 1) * MaxWords + words'[burst]>>
  BY <1>5
<1> QED BY <1>1, <1>2, <1>3, <1>6, NewWord

\* While AXI keeps up, a step leaves at most one word on its way.
LEMMA SpiOneOnItsWay ==
  ASSUME SpiRegisters, Spi!InOrder, Spi!OneOnItsWay, Spi!Next
  PROVE  Spi!OneOnItsWay'
<1>1. ASSUME UNCHANGED <<prompt, rxfifo, curr_data_rx, burst, words>>,
             aw_q' # "Idle" <=> aw_q # "Idle"
      PROVE  Spi!OneOnItsWay'
  BY <1>1 DEF Spi!OneOnItsWay, Spi!Sent
<1>2. CASE \/ Spi!Shift \/ Spi!Command \/ Spi!Address \/ Spi!Dummy \/ Spi!RegisterIn
           \/ Spi!WordOut \/ Spi!Deselect
  BY <1>1, <1>2 DEF Spi!Shift, Spi!Command, Spi!Address, Spi!Dummy, Spi!RegisterIn,
       Spi!WordOut, Spi!Deselect, Spi!histVars, Spi!writeVars
<1>3. CASE Spi!LoadAddress \/ Spi!AcceptAW \/ Spi!AcceptW \/ Spi!AcceptAR \/ Spi!ReadData
             \/ Spi!Push
  BY <1>1, <1>3 DEF Spi!LoadAddress, Spi!AcceptAW, Spi!AcceptW, Spi!AcceptAR, Spi!ReadData,
       Spi!Push, Spi!histVars, Spi!writeVars, Spi!spiVars
<1>4. CASE Spi!WordIn
  <2>1. SUFFICES ASSUME prompt' PROVE Spi!OneOnItsWay'
    BY DEF Spi!OneOnItsWay
  <2>2. prompt
    BY <1>4, <2>1 DEF Spi!WordIn
  <2>3. /\ aw_q' = "Idle" /\ burst' = burst /\ burst \in 1 .. MaxBursts
        /\ rxfifo' = <<Spi!Sent'>> /\ words'[burst] = words[burst] + 1 /\ words[burst] \in Nat
    BY <1>4, <2>2, OneWordIn
  <2>4. burst' > 0 /\ words'[burst'] > 0
    BY <2>3
  <2>5. Len(rxfifo') = 1 /\ rxfifo'[1] = Spi!Sent'
    BY <2>3
  <2> QED BY <2>3, <2>4, <2>5 DEF Spi!OneOnItsWay
<1>5. CASE Spi!Select
  BY <1>5 DEF Spi!Select, Spi!Quiet, Spi!OneOnItsWay, Spi!writeVars
<1>6. CASE Spi!TakeWord
  <2>1. /\ rxfifo # <<>> /\ rxfifo' = Tail(rxfifo) /\ curr_data_rx' = Head(rxfifo)
        /\ UNCHANGED <<prompt, burst, words>>
    BY <1>6 DEF Spi!TakeWord, Spi!histVars
  <2>2. SUFFICES ASSUME prompt PROVE Spi!OneOnItsWay'
    BY <2>1 DEF Spi!OneOnItsWay
  <2>3. /\ burst > 0 /\ words[burst] > 0 /\ Len(rxfifo) = 1 /\ rxfifo[1] = Spi!Sent
    BY <2>1, <2>2 DEF Spi!OneOnItsWay
  <2>4. rxfifo \in Seq(Int)
    BY FifoNumbers
  <2>5. rxfifo' = <<>> /\ curr_data_rx' = Spi!Sent
    BY <2>1, <2>3, <2>4
  <2>6. Spi!Sent' = Spi!Sent
    BY <2>1 DEF Spi!Sent
  <2> QED BY <2>1, <2>3, <2>5, <2>6 DEF Spi!OneOnItsWay
<1>7. CASE Spi!Respond
  BY <1>7 DEF Spi!Respond, Spi!OneOnItsWay, Spi!histVars, Spi!spiVars
<1> QED BY <1>2, <1>3, <1>4, <1>5, <1>6, <1>7 DEF Spi!Next, Spi!Master, Spi!Axi

\* Two numbers less than M apart that differ by a multiple of M are equal.
LEMMA Uniquely ==
  ASSUME NEW M \in Nat, M > 0, NEW d \in Int, NEW r \in 0 .. M - 1, NEW t \in 0 .. M - 1,
         M * d = t - r
  PROVE  t = r
<1>1. CASE d > 0
  <2>1. M * d >= M
    BY <1>1
  <2> QED BY <2>1
<1>2. CASE d < 0
  <2>1. M * d <= -M
    BY <1>2
  <2> QED BY <2>1
<1>3. CASE d = 0
  BY <1>3
<1> QED BY <1>1, <1>2, <1>3

LEMMA Remainder ==
  ASSUME NEW M \in Nat, M > 0, NEW x \in Int, NEW p \in Int, NEW r \in 0 .. M - 1, x = M * p + r
  PROVE  x % M = r
<1> DEFINE s == x % M
           t == x \div M
<1>1. t \in Int /\ s \in 0 .. M - 1 /\ x = M * t + s
  OBVIOUS
<1> HIDE DEF s, t
<1>2. M * (t - p) = r - s /\ t - p \in Int
  BY <1>1
<1>3. s = r
  BY <1>1, <1>2, Uniquely
<1> QED BY <1>3 DEF s

\* Counting on from a remainder, and a number that is its own remainder.
LEMMA CountOn ==
  ASSUME NEW M \in Nat, M > 0, NEW x \in Nat
  PROVE  /\ x % M \in 0 .. M - 1 /\ x % M <= x
         /\ ((x % M) + 1) % M = (x + 1) % M
         /\ x < M => x % M = x
<1> DEFINE r == x % M
           t == x \div M
<1>1. t \in Int /\ r \in 0 .. M - 1 /\ x = M * t + r
  OBVIOUS
<1>2. r <= x
  OBVIOUS
<1> HIDE DEF r, t
<1>3. (r + 1) % M = (x + 1) % M
  <2>1. CASE r + 1 < M
    <3>1. r + 1 \in 0 .. M - 1 /\ x + 1 \in Int /\ x + 1 = M * t + (r + 1)
      BY <1>1, <2>1
    <3>2. (x + 1) % M = r + 1
      BY <1>1, <3>1, Remainder
    <3>3. r + 1 = M * 0 + (r + 1) /\ r + 1 \in Int
      BY <1>1
    <3>4. (r + 1) % M = r + 1
      BY <3>1, <3>3, Remainder
    <3> QED BY <3>2, <3>4
  <2>2. CASE r + 1 = M
    <3>1. x + 1 = M * (t + 1) + 0 /\ t + 1 \in Int /\ x + 1 \in Int /\ 0 \in 0 .. M - 1
      BY <1>1, <2>2
    <3>2. (x + 1) % M = 0
      BY <3>1, Remainder
    <3>3. r + 1 = M * 1 + 0 /\ r + 1 \in Int
      BY <1>1, <2>2
    <3>4. (r + 1) % M = 0
      BY <3>1, <3>3, Remainder
    <3> QED BY <3>2, <3>4
  <2> QED BY <1>1, <2>1, <2>2
<1>4. x < M => r = x
  <2>1. x < M => x \in 0 .. M - 1 /\ x = M * 0 + x
    OBVIOUS
  <2> QED BY <2>1, Remainder DEF r
<1> QED BY <1>1, <1>2, <1>3, <1>4 DEF r

\* A word taken from the FIFO, which had one.
LEMMA PopShortens ==
  ASSUME SpiRegisters, Spi!Pop, txfifo' # <<>>
  PROVE  txfifo # <<>> /\ Len(txfifo') = Len(txfifo) - 1 /\ Len(txfifo) \in Nat /\ Len(txfifo') > 0
<1>1. txfifo # <<>> /\ txfifo' = Tail(txfifo) /\ txfifo \in Seq(Spi!Addresses)
  BY DEF Spi!Pop, SpiRegisters
<1>2. txfifo' \in Seq(Spi!Addresses) /\ Len(txfifo') = Len(txfifo) - 1 /\ Len(txfifo) \in Nat
  BY <1>1, FifoPlaces, FifoSteps
<1>3. Len(txfifo') > 0
  BY <1>2, FifoPlaces
<1> QED BY <1>1, <1>2, <1>3

\* What is left of an earlier read is gone when the address has come in.
LEMMA SpiFlushed ==
  ASSUME SpiRegisters, Spi!Phases, Spi!Reading, Spi!Flushed, Spi!Next
  PROVE  Spi!Flushed'
<1>1. SUFFICES ASSUME prompt', ~cs', txfifo' # <<>>
               PROVE  /\ state' = "CMD" => Len(txfifo') + n' <= Depth
                      /\ state' = "ADDR" => Len(txfifo') + CmdLen + n' <= Depth
                      /\ ~addr_valid'
  BY DEF Spi!Flushed
<1>2. n \in Nat /\ Len(txfifo) \in Nat /\ Len(txfifo) <= Depth
  BY DEF SpiRegisters
<1>3. CASE Spi!Shift
  <2>1. /\ ~cs /\ ~addr_valid /\ prompt /\ n' = n + 1 /\ Spi!Flush
        /\ UNCHANGED <<state, addr_valid>>
    BY <1>1, <1>3, AtEdge DEF Spi!Shift
  <2>2. CASE state \in {"CMD", "ADDR"}
    <3>1. txfifo # <<>> /\ Len(txfifo') = Len(txfifo) - 1
      BY <1>1, <2>1, <2>2, PopShortens DEF Spi!Flush
    <3>2. /\ state = "CMD" => Len(txfifo) + n <= Depth
          /\ state = "ADDR" => Len(txfifo) + CmdLen + n <= Depth
      BY <2>1, <3>1 DEF Spi!Flushed
    <3> QED BY <1>2, <2>1, <2>2, <3>1, <3>2, SpiConstants
  <2> QED BY <2>1, <2>2
<1>4. CASE Spi!Command
  <2>1. /\ ~cs /\ ~addr_valid /\ prompt /\ state = "CMD" /\ n + 1 = CmdLen /\ n' = 0
        /\ Spi!Pop /\ addr_valid' = addr_valid /\ state' # "CMD"
    BY <1>1, <1>4, AtEdge DEF Spi!Command, Spi!Flush, Spi!Unit
  <2>2. txfifo # <<>> /\ Len(txfifo') = Len(txfifo) - 1
    BY <1>1, <2>1, PopShortens
  <2>3. Len(txfifo) + n <= Depth
    BY <2>1, <2>2 DEF Spi!Flushed
  <2> QED BY <1>2, <2>1, <2>2, <2>3, SpiConstants
<1>5. CASE Spi!Address
  <2>1. ~cs /\ prompt /\ state = "ADDR" /\ n + 1 = AddrLen /\ Spi!Pop
    BY <1>1, <1>5, AtEdge DEF Spi!Address, Spi!Flush, Spi!Unit
  <2>2. txfifo # <<>> /\ Len(txfifo') = Len(txfifo) - 1 /\ Len(txfifo') > 0
    BY <1>1, <2>1, PopShortens
  <2>3. Len(txfifo) + CmdLen + n <= Depth
    BY <2>1, <2>2 DEF Spi!Flushed
  <2>4. FALSE
    BY <1>2, <2>1, <2>2, <2>3, SpiConstants
  <2> QED BY <2>4
<1>6. CASE Spi!Dummy
  BY <1>6, AtEdge DEF Spi!Dummy
<1>7. CASE Spi!WordIn
  BY <1>7, AtEdge DEF Spi!WordIn
<1>8. CASE Spi!RegisterIn
  BY <1>2, <1>8, AtEdge DEF Spi!RegisterIn
<1>9. CASE Spi!WordOut
  <2>1. n' = 0 /\ state' \in {"CMD", "DATA_TX"} /\ ~addr_valid'
    BY <1>9, AtEdge DEF Spi!WordOut
  <2>2. state' = "CMD" => txfifo' = txfifo
    BY <1>9 DEF Spi!WordOut
  <2> QED BY <1>2, <2>1, <2>2
<1>10. CASE Spi!Select
  BY <1>1, <1>2, <1>10 DEF Spi!Select, Spi!Phases
<1>11. CASE Spi!Deselect
  BY <1>1, <1>11 DEF Spi!Deselect
<1>12. CASE Spi!LoadAddress
  BY <1>1, <1>12 DEF Spi!LoadAddress, Spi!Flushed, Spi!spiVars
<1>13. CASE Spi!Push
  <2>1. prompt /\ ~cs /\ ar_q = "Data" /\ UNCHANGED <<state, addr_valid>>
    BY <1>1, <1>13 DEF Spi!Push, Spi!spiVars
  <2> QED BY <2>1 DEF Spi!Reading
<1>14. CASE Spi!TakeWord \/ Spi!AcceptAW \/ Spi!AcceptW \/ Spi!Respond \/ Spi!AcceptAR
              \/ Spi!ReadData
  <2>1. UNCHANGED <<prompt, cs, state, n, txfifo, addr_valid>>
    BY <1>14 DEF Spi!TakeWord, Spi!AcceptAW, Spi!AcceptW, Spi!Respond, Spi!AcceptAR,
         Spi!ReadData, Spi!spiVars
  <2> QED BY <1>1, <2>1 DEF Spi!Flushed
<1> QED BY <1>3, <1>4, <1>5, <1>6, <1>7, <1>8, <1>9, <1>10, <1>11, <1>12, <1>13, <1>14
        DEF Spi!Next, Spi!Master, Spi!Axi

-----------------------------------------------------------------------------
(* Reading from memory.                                                    *)

\* The master reads, or waits for the first word, and its address has arrived.
InRead == cmd_reg = "readMem" /\ state \in {"DUMMY", "DATA_TX"} /\ ~addr_valid

\* The words that the FIFO holds are the next ones of the burst.
NextWords == \A x \in 1 .. Len(txfifo) : txfifo[x] = (base + Len(got) + x - 1) % AddrMod

\* What Reading says while AXI keeps up.
LEMMA ReadingSays ==
  ASSUME Spi!Reading, prompt, ~cs
  PROVE  /\ ar_q # "Idle" => InRead
         /\ InRead =>
              /\ ar_q = "Idle" => wrap_length # 0 /\ Spi!Fetched >= wrap_length
              /\ ar_q # "Idle" => /\ curr_addr = (base + Spi!Fetched) % AddrMod
                                  /\ wrap_length # 0 => Spi!Fetched < wrap_length
                                                        /\ tx_counter = Spi!Fetched
              /\ ar_q \in {"AxiResp", "Data"} => ar = curr_addr
              /\ NextWords
  BY DEF Spi!Reading, InRead, NextWords

\* While AXI keeps up, the word the master reads next is the next of the burst; only
\* past the wrap length there is none.
LEMMA LoadsNext ==
  ASSUME SpiRegisters, Spi!Reading, prompt, ~cs, InRead, Spi!Quiet, Spi!Load, UNCHANGED base
  PROVE  /\ NextWords'
         /\ Spi!Fetched' \in Nat /\ Spi!Fetched \in Nat
         /\ \/ Spi!Fetched' = Spi!Fetched
            \/ ar_q = "Idle" /\ Spi!Fetched' = Spi!Fetched + 1
         /\ Len(got') = Len(got) + 1
         /\ \A x \in 1 .. Len(got) : got'[x] = got[x]
         /\ \/ got'[Len(got) + 1] = (base + Len(got)) % AddrMod
            \/ wrap_length # 0 /\ Len(got) >= wrap_length
<1>1. /\ txfifo \in Seq(Spi!Addresses) /\ Len(txfifo) \in Nat
      /\ got \in Seq(Spi!Addresses \union {Spi!Nowhere}) /\ Len(got) \in Nat
      /\ base \in Nat /\ base' = base
  BY SpiConstants DEF SpiRegisters, Spi!Addresses
<1>2. CASE txfifo = <<>>
  <2>1. ar_q = "Idle"
    BY <1>2, SpiConstants DEF Spi!Quiet
  <2>2. wrap_length # 0 /\ Len(got) + Len(txfifo) >= wrap_length
    BY <2>1, ReadingSays DEF Spi!Fetched
  <2>3. got' = Append(got, Spi!Nowhere) /\ txfifo' = <<>>
    BY <1>2 DEF Spi!Load, Spi!Pop
  <2>4. Len(got') = Len(got) + 1 /\ \A x \in 1 .. Len(got) : got'[x] = got[x]
    BY <1>1, <2>3, FifoPlaces
  <2>5. Len(txfifo) = 0 /\ Len(txfifo') = 0
    BY <1>2, <2>3
  <2> QED BY <1>1, <2>1, <2>2, <2>4, <2>5 DEF Spi!Fetched, NextWords
<1>3. CASE txfifo # <<>>
  <2>1. got' = Append(got, txfifo[1]) /\ txfifo' = Tail(txfifo) /\ txfifo[1] \in Spi!Addresses
    BY <1>1, <1>3, FifoPlaces, FifoSteps DEF Spi!Load, Spi!Pop
  <2>2. /\ Len(got') = Len(got) + 1 /\ got'[Len(got) + 1] = txfifo[1]
        /\ \A x \in 1 .. Len(got) : got'[x] = got[x]
    BY <1>1, <2>1, FifoPlaces
  <2>3. /\ Len(txfifo) > 0 /\ Len(txfifo') = Len(txfifo) - 1
        /\ \A x \in 1 .. Len(txfifo') : txfifo'[x] = txfifo[x + 1]
    BY <1>1, <1>3, <2>1, FifoPlaces
  <2>4. \A x \in 1 .. Len(txfifo) : txfifo[x] = (base + Len(got) + x - 1) % AddrMod
    BY ReadingSays DEF NextWords
  <2>5. NextWords'
    <3>1. ASSUME NEW x \in 1 .. Len(txfifo')
          PROVE  txfifo'[x] = (base' + Len(got') + x - 1) % AddrMod
      <4>1. x + 1 \in 1 .. Len(txfifo) /\ txfifo'[x] = txfifo[x + 1]
        BY <1>1, <2>3
      <4>2. base + Len(got) + (x + 1) - 1 = base' + Len(got') + x - 1
        BY <1>1, <2>2
      <4>3. txfifo[x + 1] = (base + Len(got) + (x + 1) - 1) % AddrMod
        BY <2>4, <4>1
      <4> QED BY <4>1, <4>2, <4>3
    <3> QED BY <3>1 DEF NextWords
  <2>6. txfifo[1] = (base + Len(got)) % AddrMod
    <3>1. 1 \in 1 .. Len(txfifo) /\ base + Len(got) + 1 - 1 = base + Len(got)
      BY <1>1, <2>3
    <3> QED BY <2>4, <3>1
  <2>7. Spi!Fetched' = Spi!Fetched /\ Spi!Fetched \in Nat
    BY <1>1, <2>2, <2>3 DEF Spi!Fetched
  <2> QED BY <2>2, <2>5, <2>6, <2>7
<1> QED BY <1>2, <1>3

\* A word that the read machine pushes is the next one, and so is the one it asks for then.
LEMMA PushesNext ==
  ASSUME SpiRegisters, Spi!Reading, Spi!Push, prompt, ~cs
  PROVE  /\ InRead /\ NextWords'
         /\ ar_q' = "Idle" \/ ar_q' = "AxiAddr"
         /\ ar_q' = "Idle" => wrap_length # 0 /\ Spi!Fetched' >= wrap_length
         /\ ar_q' # "Idle" => /\ curr_addr' = (base + Spi!Fetched') % AddrMod
                              /\ wrap_length # 0 => Spi!Fetched' < wrap_length
                                                    /\ tx_counter' = Spi!Fetched'
<1>1. /\ ar_q = "Data" /\ txfifo' = Append(txfifo, ar) /\ UNCHANGED <<base, got>>
  BY DEF Spi!Push, Spi!histVars
<1>2. /\ txfifo \in Seq(Spi!Addresses) /\ Len(txfifo) \in Nat /\ ar \in Spi!Addresses
      /\ Len(got) \in Nat /\ base \in Nat
      /\ wrap_length \in 0 .. CountMod - 1 /\ tx_counter \in Nat
  BY SpiConstants DEF SpiRegisters, Spi!Addresses
<1>3. /\ Len(txfifo') = Len(txfifo) + 1 /\ txfifo'[Len(txfifo) + 1] = ar
      /\ \A x \in 1 .. Len(txfifo) : txfifo'[x] = txfifo[x]
  BY <1>1, <1>2, FifoPlaces
<1>4. Spi!Fetched \in Nat /\ Spi!Fetched' = Spi!Fetched + 1
  BY <1>1, <1>2, <1>3 DEF Spi!Fetched
<1>5. /\ InRead /\ curr_addr = (base + Spi!Fetched) % AddrMod /\ ar = curr_addr /\ NextWords
      /\ wrap_length # 0 => Spi!Fetched < wrap_length /\ tx_counter = Spi!Fetched
  BY <1>1, ReadingSays
<1>6. NextWords'
  <2>1. ASSUME NEW x \in 1 .. Len(txfifo')
        PROVE  txfifo'[x] = (base' + Len(got') + x - 1) % AddrMod
    <3>1. CASE x = Len(txfifo) + 1
      <4>1. base' + Len(got') + x - 1 = base + Spi!Fetched
        BY <1>1, <1>2, <3>1 DEF Spi!Fetched
      <4> QED BY <1>3, <1>5, <3>1, <4>1
    <3>2. CASE x # Len(txfifo) + 1
      <4>1. x \in 1 .. Len(txfifo)
        BY <1>2, <1>3, <3>2
      <4> QED BY <1>1, <1>3, <1>5, <4>1 DEF NextWords
    <3> QED BY <3>1, <3>2
  <2> QED BY <2>1 DEF NextWords
<1>7. CASE Spi!AtWrap
  <2>1. ar_q' = "Idle"
    BY <1>7 DEF Spi!Push
  <2>2. wrap_length # 0 /\ tx_counter = wrap_length - 1
    BY <1>7 DEF Spi!AtWrap
  <2>3. Spi!Fetched' >= wrap_length
    BY <1>2, <1>4, <1>5, <2>2
  <2> QED BY <1>5, <1>6, <2>1, <2>2, <2>3
<1>8. CASE ~Spi!AtWrap
  <2>1. /\ ar_q' = "AxiAddr" /\ curr_addr' = (curr_addr + 1) % AddrMod
        /\ tx_counter' = (tx_counter + 1) % CountMod
    BY <1>8 DEF Spi!Push, Spi!Advance, Spi!next_addr
  <2>2. base + Spi!Fetched \in Nat /\ base + Spi!Fetched + 1 = base + Spi!Fetched'
    BY <1>2, <1>4
  <2>3. curr_addr' = (base + Spi!Fetched') % AddrMod
    BY <1>5, <2>1, <2>2, CountOn, SpiConstants
  <2>4. wrap_length # 0 => Spi!Fetched' < wrap_length /\ tx_counter' = Spi!Fetched'
    <3>1. SUFFICES ASSUME wrap_length # 0
                   PROVE  Spi!Fetched' < wrap_length /\ tx_counter' = Spi!Fetched'
      OBVIOUS
    <3>2. tx_counter # wrap_length - 1
      BY <1>8, <3>1 DEF Spi!AtWrap
    <3>3. Spi!Fetched' < wrap_length /\ tx_counter + 1 = Spi!Fetched'
      BY <1>2, <1>4, <1>5, <3>1, <3>2
    <3>4. tx_counter + 1 \in Nat /\ tx_counter + 1 < CountMod
      BY <1>2, <1>4, <3>3, SpiConstants
    <3>5. tx_counter' = tx_counter + 1
      BY <2>1, <3>4, CountOn, SpiConstants
    <3> QED BY <3>3, <3>5
  <2> QED BY <1>5, <1>6, <2>1, <2>3, <2>4
<1> QED BY <1>7, <1>8

\* A step keeps the read machine with the master.
LEMMA SpiReading ==
  ASSUME SpiRegisters, Spi!InOrder, Spi!Phases, Spi!OneOnItsWay, Spi!Flushed, Spi!Reading,
         Spi!Next
  PROVE  Spi!Reading'
<1> DEFINE Follows ==
             /\ ar_q # "Idle" => InRead
             /\ InRead =>
                  /\ ar_q = "Idle" => wrap_length # 0 /\ Spi!Fetched >= wrap_length
                  /\ ar_q # "Idle" => /\ curr_addr = (base + Spi!Fetched) % AddrMod
                                      /\ wrap_length # 0 => Spi!Fetched < wrap_length
                                                            /\ tx_counter = Spi!Fetched
                  /\ ar_q \in {"AxiResp", "Data"} => ar = curr_addr
                  /\ NextWords
<1>1. SUFFICES ASSUME prompt', ~cs' PROVE Follows'
  BY DEF Spi!Reading, InRead, NextWords
<1>2. ASSUME prompt, ~cs PROVE Follows
  BY <1>2, ReadingSays
<1>3. ASSUME prompt, ~cs, ~InRead, ~InRead', ar_q' = ar_q
      PROVE  Follows'
  BY <1>2, <1>3
<1>4. CASE Spi!Shift
  <2>1. /\ prompt /\ ~cs /\ UNCHANGED <<cmd_reg, state, addr_valid, ar_q, wrap_length, base, got,
                                         curr_addr, tx_counter, ar>>
    BY <1>1, <1>4, AtEdge DEF Spi!Shift, Spi!readVars, Spi!histVars, Spi!addrVars
  <2>2. CASE InRead
    <3>1. txfifo' = txfifo
      BY <1>4, <2>2 DEF Spi!Shift, Spi!Flush, InRead
    <3> QED BY <1>2, <2>1, <3>1 DEF InRead, NextWords, Spi!Fetched
  <2>3. CASE ~InRead
    BY <1>3, <2>1, <2>3 DEF InRead
  <2> QED BY <2>2, <2>3
<1>5. CASE Spi!Command \/ Spi!Address \/ Spi!WordIn \/ Spi!RegisterIn
  <2>1. prompt /\ ~cs /\ ar_q' = ar_q
    BY <1>1, <1>5, AtEdge DEF Spi!Command, Spi!Address, Spi!WordIn, Spi!RegisterIn, Spi!readVars
  <2>2. ~InRead
    BY <1>5 DEF Spi!Command, Spi!Address, Spi!WordIn, Spi!RegisterIn, InRead
  <2>3. ~InRead'
    BY <1>5 DEF Spi!Command, Spi!Address, Spi!WordIn, Spi!RegisterIn, InRead,
         Spi!get_addr, Spi!get_data
  <2> QED BY <1>3, <2>1, <2>2, <2>3
<1>6. CASE Spi!Dummy \/ (Spi!WordOut /\ Spi!enable_cont)
  <2>1. /\ prompt /\ ~cs /\ ~addr_valid /\ Spi!Quiet /\ Spi!Load
        /\ UNCHANGED <<cmd_reg, addr_valid, ar_q, wrap_length, base, curr_addr, tx_counter, ar>>
    BY <1>1, <1>6, AtEdge DEF Spi!Dummy, Spi!WordOut, Spi!readVars, Spi!addrVars
  <2>2. InRead /\ InRead'
    BY <1>6, <2>1 DEF Spi!Dummy, Spi!WordOut, Spi!Phases, InRead, Spi!enable_cont, Spi!get_data
  <2>3. /\ NextWords' /\ Spi!Fetched' \in Nat /\ Spi!Fetched \in Nat
        /\ \/ Spi!Fetched' = Spi!Fetched
           \/ ar_q = "Idle" /\ Spi!Fetched' = Spi!Fetched + 1
    BY <2>1, <2>2, LoadsNext
  <2>4. wrap_length \in Nat
    BY SpiConstants DEF SpiRegisters
  <2>5. ar_q' = "Idle" => wrap_length' # 0 /\ Spi!Fetched' >= wrap_length'
    BY <1>2, <2>1, <2>2, <2>3, <2>4
  <2>6. ar_q' # "Idle" => Spi!Fetched' = Spi!Fetched
    BY <2>1, <2>3
  <2> QED BY <1>2, <2>1, <2>2, <2>3, <2>5, <2>6
<1>7. CASE Spi!WordOut /\ ~Spi!enable_cont
  <2>1. prompt /\ ~cs /\ ar_q' = ar_q
    BY <1>1, <1>7, AtEdge DEF Spi!WordOut, Spi!readVars
  <2>2. ~InRead /\ ~InRead'
    BY <1>7 DEF Spi!WordOut, Spi!enable_cont, InRead
  <2> QED BY <1>3, <2>1, <2>2
<1>8. CASE Spi!Select
  <2>1. ar_q' = "Idle" /\ state' = "CMD"
    BY <1>1, <1>8 DEF Spi!Select, Spi!Quiet, Spi!readVars, Spi!Phases
  <2> QED BY <2>1 DEF InRead
<1>9. CASE Spi!Deselect
  BY <1>1, <1>9 DEF Spi!Deselect
<1>10. CASE Spi!LoadAddress
  <2>1. /\ addr_valid /\ prompt /\ ~cs /\ ~addr_valid' /\ curr_addr' = addr_reg /\ addr_reg = base
        /\ UNCHANGED <<cmd_reg, state, wrap_length, txfifo, base, got, ar>>
    BY <1>1, <1>10 DEF Spi!LoadAddress, Spi!spiVars, Spi!histVars, Spi!Phases
  <2>2. ar_q = "Idle" /\ ~InRead
    BY <1>2, <2>1 DEF InRead
  <2>3. CASE cmd_reg = "writeMem"
    <3>1. ar_q' = ar_q /\ ~InRead'
      BY <1>10, <2>1, <2>3 DEF Spi!LoadAddress, Spi!get_data, InRead
    <3> QED BY <1>3, <2>1, <2>2, <3>1
  <2>4. CASE cmd_reg # "writeMem"
    <3>1. cmd_reg = "readMem" /\ state = "DUMMY"
      BY <2>1, <2>4 DEF Spi!Phases
    <3>2. ar_q' = "AxiAddr" /\ tx_counter' = 0
      BY <1>10, <2>1, <2>2, <3>1 DEF Spi!LoadAddress, Spi!get_data
    <3>3. txfifo = <<>> /\ got = <<>>
      BY <2>1, <3>1 DEF Spi!Phases, Spi!Flushed
    <3>4. Spi!Fetched' = 0 /\ Len(txfifo') = 0
      BY <2>1, <3>3 DEF Spi!Fetched
    <3>5. base \in Nat /\ base < AddrMod /\ wrap_length \in Nat
      BY SpiConstants DEF SpiRegisters, Spi!Addresses
    <3>6. base + 0 = base /\ base % AddrMod = base
      BY <3>5, CountOn, SpiConstants
    <3>7. curr_addr' = (base' + Spi!Fetched') % AddrMod
      BY <2>1, <3>4, <3>6
    <3>8. wrap_length' # 0 => Spi!Fetched' < wrap_length' /\ tx_counter' = Spi!Fetched'
      BY <2>1, <3>2, <3>4, <3>5
    <3>9. NextWords'
      BY <3>4 DEF NextWords
    <3>10. InRead'
      BY <2>1, <3>1 DEF InRead
    <3> QED BY <3>2, <3>7, <3>8, <3>9, <3>10
  <2> QED BY <2>3, <2>4
<1>11. CASE Spi!TakeWord \/ Spi!Respond
  <2>1. UNCHANGED <<prompt, cs, cmd_reg, state, addr_valid, ar_q, wrap_length, base, got,
                    txfifo, curr_addr, tx_counter, ar>>
    BY <1>11 DEF Spi!TakeWord, Spi!Respond, Spi!spiVars, Spi!readVars, Spi!histVars, Spi!addrVars
  <2> QED BY <1>1, <1>2, <2>1 DEF InRead, NextWords, Spi!Fetched
<1>12. CASE Spi!AcceptAW \/ Spi!AcceptW
  <2>1. /\ aw_q = "AxiValid"
        /\ UNCHANGED <<prompt, cs, cmd_reg, state, addr_valid, ar_q>>
    BY <1>12 DEF Spi!AcceptAW, Spi!AcceptW, Spi!spiVars, Spi!readVars
  <2>2. prompt /\ ~cs
    BY <1>1, <2>1
  <2>3. words[burst] # 0
    BY <2>1, <2>2 DEF Spi!OneOnItsWay
  <2>4. state = "DATA_RX"
    BY <2>2, <2>3 DEF Spi!Phases
  <2> QED BY <1>3, <2>1, <2>2, <2>4 DEF InRead
<1>13. CASE Spi!AcceptAR \/ Spi!ReadData
  <2>1. UNCHANGED <<prompt, cs, cmd_reg, state, addr_valid, wrap_length, base, got, txfifo,
                    curr_addr, tx_counter>>
    BY <1>13 DEF Spi!AcceptAR, Spi!ReadData, Spi!spiVars, Spi!histVars, Spi!addrVars
  <2>2. /\ ar_q # "Idle" /\ ar_q' # "Idle"
        /\ ar' = curr_addr \/ (ar_q = "AxiResp" /\ ar' = ar)
    BY <1>13 DEF Spi!AcceptAR, Spi!ReadData
  <2>3. prompt /\ ~cs
    BY <1>1, <2>1
  <2>4. Spi!Fetched' = Spi!Fetched /\ (InRead' <=> InRead) /\ (NextWords => NextWords')
    BY <2>1 DEF InRead, NextWords, Spi!Fetched
  <2> QED BY <1>2, <2>1, <2>2, <2>3, <2>4
<1>14. CASE Spi!Push
  <2>1. prompt /\ ~cs /\ UNCHANGED <<cmd_reg, state, addr_valid, wrap_length, base>>
    BY <1>1, <1>14 DEF Spi!Push, Spi!spiVars, Spi!histVars
  <2>2. /\ InRead /\ NextWords'
        /\ ar_q' = "Idle" \/ ar_q' = "AxiAddr"
        /\ ar_q' = "Idle" => wrap_length # 0 /\ Spi!Fetched' >= wrap_length
        /\ ar_q' # "Idle" => /\ curr_addr' = (base + Spi!Fetched') % AddrMod
                             /\ wrap_length # 0 => Spi!Fetched' < wrap_length
                                                   /\ tx_counter' = Spi!Fetched'
    BY <1>14, <2>1, PushesNext
  <2>3. InRead'
    BY <2>1, <2>2 DEF InRead
  <2>4. ar_q' \notin {"AxiResp", "Data"}
    BY <2>2
  <2> QED BY <2>1, <2>2, <2>3, <2>4
<1> QED BY <1>4, <1>5, <1>6, <1>7, <1>8, <1>9, <1>10, <1>11, <1>12, <1>13, <1>14
        DEF Spi!Next, Spi!Master, Spi!Axi

\* A step keeps what the master has read in order.
LEMMA SpiGotInOrder ==
  ASSUME SpiRegisters, Spi!Phases, Spi!Reading, Spi!GotInOrder, Spi!Next
  PROVE  Spi!GotInOrder'
<1>1. ASSUME UNCHANGED <<prompt, wrap_length, base, got>>
      PROVE  Spi!GotInOrder'
  BY <1>1 DEF Spi!GotInOrder
<1>2. ASSUME got' = <<>>
      PROVE  Spi!GotInOrder'
  BY <1>2 DEF Spi!GotInOrder
<1>3. CASE Spi!Address \/ Spi!RegisterIn
  <2>1. ~cs /\ state # "DATA_TX" /\ got' = got
    BY <1>3, AtEdge DEF Spi!Address, Spi!RegisterIn, Spi!histVars
  <2> QED BY <1>2, <2>1 DEF Spi!Phases
<1>4. CASE Spi!Dummy \/ (Spi!WordOut /\ Spi!enable_cont)
  <2>1. /\ ~cs /\ ~addr_valid /\ (prompt => Spi!Quiet) /\ Spi!Load
        /\ UNCHANGED <<prompt, wrap_length, base>>
    BY <1>4, AtEdge DEF Spi!Dummy, Spi!WordOut
  <2>2. InRead
    BY <1>4, <2>1 DEF Spi!Dummy, Spi!WordOut, Spi!Phases, InRead, Spi!enable_cont, Spi!get_data
  <2>3. SUFFICES ASSUME prompt PROVE Spi!GotInOrder'
    BY <2>1 DEF Spi!GotInOrder
  <2>4. /\ Len(got') = Len(got) + 1
        /\ \A x \in 1 .. Len(got) : got'[x] = got[x]
        /\ \/ got'[Len(got) + 1] = (base + Len(got)) % AddrMod
           \/ wrap_length # 0 /\ Len(got) >= wrap_length
    BY <2>1, <2>2, <2>3, LoadsNext
  <2>5. Len(got) \in Nat /\ base \in Nat /\ wrap_length \in Nat
    BY SpiConstants DEF SpiRegisters, Spi!Addresses
  <2>6. ASSUME NEW x \in 1 .. Len(got'), wrap_length = 0 \/ x <= wrap_length
        PROVE  got'[x] = (base + x - 1) % AddrMod
    <3>1. CASE x \in 1 .. Len(got)
      BY <2>3, <2>4, <2>6, <3>1 DEF Spi!GotInOrder
    <3>2. CASE x \notin 1 .. Len(got)
      <4>1. x = Len(got) + 1
        BY <2>4, <2>5, <3>2
      <4>2. base + x - 1 = base + Len(got)
        BY <2>5, <4>1
      <4>3. ~(wrap_length # 0 /\ Len(got) >= wrap_length)
        BY <2>5, <2>6, <4>1
      <4> QED BY <2>4, <4>1, <4>2, <4>3
    <3> QED BY <3>1, <3>2
  <2> QED BY <2>1, <2>6 DEF Spi!GotInOrder
<1>5. CASE Spi!Select
  BY <1>2, <1>5 DEF Spi!Select
<1>6. CASE \/ Spi!Shift \/ Spi!Command \/ Spi!WordIn \/ (Spi!WordOut /\ ~Spi!enable_cont)
           \/ Spi!Deselect
  BY <1>1, <1>6 DEF Spi!Shift, Spi!Command, Spi!WordIn, Spi!WordOut, Spi!Deselect, Spi!histVars
<1>7. CASE Spi!Axi
  BY <1>1, <1>7 DEF Spi!Axi, Spi!LoadAddress, Spi!TakeWord, Spi!AcceptAW, Spi!AcceptW,
       Spi!Respond, Spi!AcceptAR, Spi!ReadData, Spi!Push, Spi!spiVars, Spi!histVars
<1> QED BY <1>3, <1>4, <1>5, <1>6, <1>7 DEF Spi!Next, Spi!Master
-----------------------------------------------------------------------------
(* Writing to memory.                                                      *)

\* The burst has sent words, or is going to.
InWrite == /\ burst > 0
           /\ \/ words[burst] > 0
              \/ ~cs /\ state = "DATA_RX" /\ cmd_reg = "writeMem" /\ ~addr_valid

\* The words counted and written up to now.
Behind(counted, complete) ==
  /\ ar_q = "Idle"
  /\ curr_addr = (base + counted) % AddrMod
  /\ awDone \/ aw_q = "AxiResp" => aw = base + words[burst] - 1
  /\ \A x \in 1 .. complete : mem[base + x - 1] = (burst - 1) * MaxWords + x

LEMMA WritingSays ==
  ASSUME Spi!Writing, prompt, wrap_length = 0, InWrite
  PROVE  Behind(Spi!Counted, Spi!Complete)
  BY DEF Spi!Writing, InWrite, Behind

\* A step keeps the address register and memory with the words sent.
LEMMA SpiWriting ==
  ASSUME SpiRegisters, Spi!InOrder, Spi!Phases, Spi!OneOnItsWay, Spi!Reading, Spi!Writing,
         Spi!Next
  PROVE  Spi!Writing'
<1>1. SUFFICES ASSUME prompt', wrap_length' = 0, InWrite'
               PROVE  Behind(Spi!Counted, Spi!Complete)'
  BY DEF Spi!Writing, InWrite, Behind
<1>2. ASSUME InWrite, prompt' = prompt, wrap_length' = wrap_length
      PROVE  Behind(Spi!Counted, Spi!Complete)
  BY <1>1, <1>2, WritingSays
<1>3. ASSUME UNCHANGED <<prompt, wrap_length, burst, words, rxfifo, aw_q, ar_q, curr_addr, base,
                         aw, awDone, mem>>, InWrite
      PROVE  Behind(Spi!Counted, Spi!Complete)'
  BY <1>2, <1>3 DEF Behind, Spi!Counted, Spi!Complete
<1>4. /\ burst \in 0 .. MaxBursts /\ words \in [1 .. MaxBursts -> 0 .. MaxWords]
      /\ base \in Nat /\ base < AddrMod /\ base + MaxWords <= AddrMod
      /\ \A b \in 1 .. MaxBursts : words[b] \in Nat /\ words[b] <= MaxWords
  BY SpiConstants DEF Spi!InOrder, Spi!Phases, SpiRegisters, Spi!Addresses
<1>5. CASE \/ Spi!Shift \/ Spi!Command \/ Spi!Dummy \/ Spi!WordOut \/ Spi!Deselect
  <2>1. UNCHANGED <<prompt, wrap_length, burst, words, rxfifo, aw_q, ar_q, curr_addr, base,
                    aw, awDone, mem>>
    BY <1>5 DEF Spi!Shift, Spi!Command, Spi!Dummy, Spi!WordOut, Spi!Deselect, Spi!addrVars,
         Spi!writeVars, Spi!readVars, Spi!histVars
  <2>2. InWrite
    <3>1. CASE words[burst] > 0
      BY <1>1, <2>1, <3>1 DEF InWrite
    <3>2. CASE ~(words[burst] > 0)
      <4>1. ~cs' /\ state' = "DATA_RX" /\ cmd_reg' = "writeMem" /\ ~addr_valid' /\ burst > 0
        BY <1>1, <2>1, <3>2 DEF InWrite
      <4>2. Spi!Shift
        BY <1>5, <4>1 DEF Spi!Command, Spi!Dummy, Spi!WordOut, Spi!Deselect, Spi!get_addr
      <4>3. UNCHANGED <<cs, state, cmd_reg, addr_valid>>
        BY <4>2 DEF Spi!Shift
      <4> QED BY <4>1, <4>3 DEF InWrite
    <3> QED BY <3>1, <3>2
  <2> QED BY <1>3, <2>1, <2>2
<1>6. CASE Spi!Address \/ Spi!RegisterIn
  <2>1. ~cs /\ words[burst] = 0 /\ UNCHANGED <<burst, words>>
    BY <1>6, AtEdge DEF Spi!Address, Spi!RegisterIn, Spi!Phases, Spi!enable_regs, Spi!histVars
  <2>2. state' # "DATA_RX" \/ addr_valid'
    BY <1>6 DEF Spi!Address, Spi!RegisterIn
  <2> QED BY <1>1, <2>1, <2>2 DEF InWrite
<1>7. CASE Spi!Select
  <2>1. state' = "CMD" /\ burst' \in 1 .. MaxBursts /\ burst' = burst + 1 /\ words' = words
    BY <1>7, <1>4, SpiConstants DEF Spi!Select, Spi!Phases
  <2>2. words'[burst'] = 0
    BY <1>4, <2>1 DEF Spi!InOrder
  <2> QED BY <1>1, <2>1, <2>2 DEF InWrite
<1>8. CASE Spi!WordIn
  <2>0. /\ state = "DATA_RX" /\ ~Spi!enable_regs
        /\ UNCHANGED <<prompt, wrap_length, ar_q, curr_addr, base, aw, awDone, mem, aw_q>>
    BY <1>8 DEF Spi!WordIn, Spi!readVars, Spi!addrVars, Spi!writeVars
  <2>1. /\ prompt' = prompt /\ wrap_length' = wrap_length /\ ~cs /\ ~addr_valid
        /\ state = "DATA_RX" /\ cmd_reg = "writeMem"
        /\ UNCHANGED <<ar_q, curr_addr, base, aw, awDone, mem, aw_q>>
    <3>1. ~cs /\ ~addr_valid
      BY <1>8, AtEdge DEF Spi!WordIn
    <3>2. cmd_reg = "writeMem"
      BY <2>0 DEF Spi!Phases, Spi!get_data, Spi!enable_regs
    <3> QED BY <2>0, <3>1, <3>2
  <2>2. /\ rxfifo = <<>> /\ aw_q = "Idle" /\ burst' = burst /\ burst \in 1 .. MaxBursts
        /\ words'[burst] = words[burst] + 1 /\ rxfifo' = <<Spi!Sent'>>
    BY <1>1, <1>8, <2>1, OneWordIn
  <2>3. InWrite
    BY <2>1, <2>2 DEF InWrite
  <2>4. ~awDone
    BY <2>2 DEF Spi!Phases
  <2>5. rxfifo' # <<>>
    BY <2>2
  <2>6. /\ Spi!Counted = words[burst] /\ Spi!Complete = words[burst]
        /\ Spi!Counted' = words[burst] /\ Spi!Complete' = words[burst]
    BY <1>4, <2>2, <2>5 DEF Spi!Counted, Spi!Complete
  <2> QED BY <1>2, <2>1, <2>2, <2>3, <2>4, <2>6 DEF Behind
<1>9. CASE Spi!LoadAddress
  <2>1. /\ addr_valid /\ ~cs /\ prompt /\ curr_addr' = addr_reg /\ addr_reg = base
        /\ UNCHANGED <<state, cmd_reg, burst, words, rxfifo, aw_q, awDone, base>>
    BY <1>1, <1>9 DEF Spi!LoadAddress, Spi!Phases, Spi!histVars, Spi!writeVars, Spi!spiVars
  <2>2. words[burst] = 0
    BY <2>1 DEF Spi!Phases
  <2>3. cmd_reg = "writeMem" /\ state = "DATA_RX"
    BY <1>1, <2>1, <2>2 DEF InWrite
  <2>4. ar_q = "Idle" /\ ar_q' = ar_q
    BY <1>9, <2>1, <2>3 DEF Spi!Reading, Spi!LoadAddress, Spi!get_data
  <2>5. rxfifo = <<>> /\ aw_q = "Idle" /\ ~awDone
    BY <2>1, <2>2 DEF Spi!OneOnItsWay, Spi!Phases
  <2>6. Spi!Counted' = 0 /\ Spi!Complete' = 0
    BY <2>1, <2>2, <2>5 DEF Spi!Counted, Spi!Complete
  <2>7. base + 0 = base /\ base % AddrMod = base
    BY <1>4, CountOn, SpiConstants
  <2> QED BY <2>1, <2>4, <2>5, <2>6, <2>7 DEF Behind
<1>10. CASE Spi!TakeWord
  <2>1. /\ aw_q = "Idle" /\ rxfifo # <<>> /\ aw_q' = "AxiValid" /\ rxfifo' = Tail(rxfifo)
        /\ UNCHANGED <<prompt, wrap_length, burst, words, ar_q, curr_addr, base, aw, awDone, mem,
                       cs, state, cmd_reg, addr_valid>>
    BY <1>10 DEF Spi!TakeWord, Spi!spiVars, Spi!addrVars, Spi!readVars, Spi!histVars
  <2>2. InWrite /\ ~awDone
    BY <1>1, <2>1 DEF InWrite, Spi!Phases
  <2>3. Spi!Counted' = Spi!Counted /\ Spi!Complete' = Spi!Complete
    BY <2>1 DEF Spi!Counted, Spi!Complete
  <2> QED BY <1>2, <2>1, <2>2, <2>3 DEF Behind
<1>11. CASE Spi!AcceptAW \/ Spi!AcceptW
  <2>1. /\ aw_q = "AxiValid" /\ aw_q' \in {"AxiValid", "AxiResp"}
        /\ UNCHANGED <<prompt, wrap_length, burst, words, rxfifo, ar_q, base, mem,
                       cs, state, cmd_reg, addr_valid>>
    BY <1>11 DEF Spi!AcceptAW, Spi!AcceptW, Spi!spiVars, Spi!readVars, Spi!histVars
  <2>2. InWrite /\ rxfifo = <<>> /\ burst \in 1 .. MaxBursts /\ words[burst] > 0
    BY <1>1, <1>4, <2>1, SpiConstants DEF InWrite, Spi!OneOnItsWay
  <2>3. /\ Spi!Counted = words[burst] - 1 /\ Spi!Complete = words[burst] - 1
        /\ Spi!Complete' = words[burst] - 1
        /\ Spi!Counted' = IF aw_q' = "AxiValid" THEN words[burst] - 1 ELSE words[burst]
    BY <2>1, <2>2 DEF Spi!Counted, Spi!Complete
  <2>4. Behind(words[burst] - 1, words[burst] - 1)
    BY <1>2, <2>1, <2>2, <2>3
  <2> DEFINE a == base + (words[burst] - 1)
  <2>5. /\ a \in Nat /\ a < AddrMod /\ a = base + words[burst] - 1 /\ a + 1 = base + words[burst]
    BY <1>4, <2>2, SpiConstants
  <2>6. curr_addr = a /\ (a + 1) % AddrMod = (base + words[burst]) % AddrMod
    <3>1. curr_addr = a % AddrMod
      BY <2>4 DEF Behind
    <3> HIDE DEF a
    <3>2. a % AddrMod = a
      BY <2>5, CountOn, SpiConstants
    <3> QED BY <2>5, <3>1, <3>2
  <2>7. aw_q' = "AxiValid" => curr_addr' = curr_addr
    BY <1>11 DEF Spi!AcceptAW, Spi!AcceptW, Spi!addrVars
  <2>8. aw_q' = "AxiResp" => curr_addr' = (curr_addr + 1) % AddrMod
    BY <1>1, <1>11, <2>1 DEF Spi!AcceptAW, Spi!AcceptW, Spi!Advance, Spi!next_addr, Spi!AtWrap
  <2>9. awDone' \/ aw_q' = "AxiResp" => aw' = a
    BY <1>11, <2>1, <2>4, <2>5, <2>6 DEF Spi!AcceptAW, Spi!AcceptW, Behind
  <2>10. curr_addr' = (base' + Spi!Counted') % AddrMod
    BY <2>1, <2>3, <2>4, <2>6, <2>7, <2>8 DEF Behind
  <2>11. Behind(words[burst] - 1, words[burst] - 1) => ar_q = "Idle"
    BY DEF Behind
  <2>12. \A x \in 1 .. Spi!Complete' : mem'[base' + x - 1] = (burst' - 1) * MaxWords + x
    BY <2>1, <2>3, <2>4 DEF Behind
  <2>13. awDone' \/ aw_q' = "AxiResp" => aw' = base' + words'[burst'] - 1
    BY <2>1, <2>5, <2>9
  <2> QED BY <2>1, <2>4, <2>10, <2>11, <2>12, <2>13 DEF Behind
<1>12. CASE Spi!Respond
  <2>1. /\ aw_q = "AxiResp" /\ aw_q' = "Idle" /\ mem' = [mem EXCEPT ![aw] = curr_data_rx]
        /\ UNCHANGED <<prompt, wrap_length, burst, words, rxfifo, ar_q, base, curr_addr, aw, awDone,
                       cs, state, cmd_reg, addr_valid>>
    BY <1>12 DEF Spi!Respond, Spi!spiVars, Spi!addrVars, Spi!readVars, Spi!histVars
  <2>2. /\ InWrite /\ rxfifo = <<>> /\ burst \in 1 .. MaxBursts /\ words[burst] > 0
        /\ curr_data_rx = Spi!Sent /\ ~awDone
    BY <1>1, <1>4, <2>1, SpiConstants DEF InWrite, Spi!OneOnItsWay, Spi!Phases
  <2>3. /\ Spi!Counted = words[burst] /\ Spi!Complete = words[burst] - 1
        /\ Spi!Complete' = words[burst] /\ Spi!Counted' = words[burst]
    BY <2>1, <2>2 DEF Spi!Counted, Spi!Complete
  <2>4. Behind(words[burst], words[burst] - 1)
    BY <1>2, <2>1, <2>2, <2>3
  <2>5. curr_data_rx = (burst - 1) * MaxWords + words[burst]
    BY <2>2 DEF Spi!Sent
  <2>6. aw = base + words[burst] - 1 /\ aw \in Spi!Addresses
    BY <2>1, <2>4 DEF Behind, SpiRegisters
  <2>7. mem \in [Spi!Addresses -> 0 .. Spi!Total]
    BY DEF SpiRegisters
  <2>8. ASSUME NEW x \in 1 .. words[burst]
        PROVE  mem'[base + x - 1] = (burst - 1) * MaxWords + x
    <3>1. CASE x = words[burst]
      BY <2>1, <2>5, <2>6, <2>7, <3>1
    <3>2. CASE x # words[burst]
      <4>1. x \in 1 .. words[burst] - 1 /\ base + x - 1 # aw
        BY <1>4, <2>2, <2>6, <3>2
      <4>2. mem'[base + x - 1] = mem[base + x - 1]
        <5>1. base + x - 1 \in Spi!Addresses
          BY <1>4, <2>2, SpiConstants DEF Spi!Addresses
        <5> QED BY <2>1, <2>7, <4>1, <5>1
      <4> QED BY <2>4, <4>1, <4>2 DEF Behind
    <3> QED BY <3>1, <3>2
  <2> QED BY <2>1, <2>2, <2>3, <2>4, <2>8 DEF Behind
<1>13. CASE Spi!AcceptAR \/ Spi!ReadData \/ Spi!Push
  <2>1. /\ ar_q # "Idle"
        /\ UNCHANGED <<prompt, wrap_length, burst, words, cs, state, cmd_reg, addr_valid>>
    BY <1>13 DEF Spi!AcceptAR, Spi!ReadData, Spi!Push, Spi!spiVars, Spi!histVars
  <2>2. InWrite
    BY <1>1, <2>1 DEF InWrite
  <2> QED BY <1>2, <2>1, <2>2 DEF Behind
<1> QED BY <1>5, <1>6, <1>7, <1>8, <1>9, <1>10, <1>11, <1>12, <1>13
        DEF Spi!Next, Spi!Master, Spi!Axi
-----------------------------------------------------------------------------
(* The SPI port, whole.                                                    *)

\* After reset the invariant holds.
LEMMA SpiInitOK == Spi!Init => Spi!IInv
<1> SUFFICES ASSUME Spi!Init PROVE Spi!IInv
  OBVIOUS
<1> USE DEF Spi!Init
<1>1. Spi!Unit > 0 /\ Spi!Total \in Nat /\ 0 \in Spi!Addresses
  BY SpiConstants, Ranges DEF Spi!Unit, Spi!Total
<1>2. SpiRegisters
  <2>1. prompt \in BOOLEAN
    BY SerialAssumption DEF Spi!SpiAssumption
  <2>2. mem \in [Spi!Addresses -> 0 .. Spi!Total]
    BY <1>1
  <2>3. rxfifo \in Seq(1 .. Spi!Total) /\ txfifo \in Seq(Spi!Addresses)
        /\ got \in Seq(Spi!Addresses \union {Spi!Nowhere})
        /\ Len(rxfifo) <= Depth /\ Len(txfifo) <= Depth
    BY SpiConstants
  <2>4. wrap_length \in 0 .. CountMod - 1 /\ tx_counter \in 0 .. CountMod - 1
    BY Ranges
  <2>5. curr_data_rx \in 0 .. Spi!Total
    BY <1>1
  <2> QED BY <1>1, <2>1, <2>2, <2>3, <2>4, <2>5 DEF SpiRegisters
<1>3. Spi!InOrder
  BY SpiConstants DEF Spi!InOrder, Spi!Sent
<1>4. Spi!Phases
  BY SpiConstants DEF Spi!Phases
<1>5. Spi!OneOnItsWay /\ Spi!Writing /\ Spi!Flushed
  BY DEF Spi!OneOnItsWay, Spi!Writing, Spi!Flushed
<1>6. Spi!Reading /\ Spi!GotInOrder
  BY DEF Spi!Reading, Spi!GotInOrder
<1> QED BY <1>2, <1>3, <1>4, <1>5, <1>6, SpiPlain DEF Spi!IInv

\* Every step of the port keeps it.
LEMMA SpiStepOK ==
  ASSUME Spi!IInv, Spi!Next
  PROVE  Spi!IInv'
<1>1. SpiRegisters /\ Spi!TypeOK
  BY SpiPlain DEF Spi!IInv
<1>2. /\ Spi!InOrder /\ Spi!Phases /\ Spi!OneOnItsWay /\ Spi!Writing /\ Spi!Flushed
      /\ Spi!Reading /\ Spi!GotInOrder
  BY DEF Spi!IInv
<1>3. Spi!TypeOK'
  BY <1>1, <1>2, SpiTyped
<1>4. Spi!InOrder'
  BY <1>1, <1>2, SpiOrdered
<1>5. Spi!Phases'
  BY <1>1, <1>2, SpiPhases
<1>6. Spi!OneOnItsWay'
  BY <1>1, <1>2, SpiOneOnItsWay
<1>7. Spi!Writing'
  BY <1>1, <1>2, SpiWriting
<1>8. Spi!Flushed'
  BY <1>1, <1>2, SpiFlushed
<1>9. Spi!Reading'
  BY <1>1, <1>2, SpiReading
<1>10. Spi!GotInOrder'
  BY <1>1, <1>2, SpiGotInOrder
<1> QED BY <1>3, <1>4, <1>5, <1>6, <1>7, <1>8, <1>9, <1>10 DEF Spi!IInv

\* While nothing happens, and while the other port is used, it holds on.
LEMMA SpiUnmoved ==
  ASSUME Spi!IInv, UNCHANGED <<prompt, spiVars>>
  PROVE  Spi!IInv'
<1> USE DEF spiVars
<1>1. Spi!TypeOK'
  BY DEF Spi!IInv, Spi!TypeOK, Spi!Unit, Spi!enable_regs
<1>2. Spi!InOrder' /\ Spi!OneOnItsWay'
  BY DEF Spi!IInv, Spi!InOrder, Spi!OneOnItsWay, Spi!Sent
<1>3. Spi!Phases'
  BY DEF Spi!IInv, Spi!Phases, Spi!get_addr, Spi!get_data
<1>4. Spi!Writing' /\ Spi!Flushed'
  BY DEF Spi!IInv, Spi!Writing, Spi!Counted, Spi!Complete, Spi!Flushed
<1>5. Spi!Reading' /\ Spi!GotInOrder'
  BY DEF Spi!IInv, Spi!Reading, Spi!Fetched, Spi!GotInOrder
<1> QED BY <1>1, <1>2, <1>3, <1>4, <1>5 DEF Spi!IInv

\* The invariant is strong enough for what the master relies on.
LEMMA SpiSafe ==
  ASSUME Spi!IInv
  PROVE  Spi!WordsInPlace /\ Spi!ReadsInPlace /\ Spi!NoReadPastWrap
<1>1. SpiRegisters
  BY SpiPlain DEF Spi!IInv
<1>2. /\ base \in Nat /\ base < AddrMod /\ base + MaxWords <= AddrMod
      /\ Len(got) \in Nat /\ Len(txfifo) \in Nat /\ wrap_length \in Nat
  BY <1>1, SpiConstants DEF SpiRegisters, Spi!IInv, Spi!Phases, Spi!Addresses
<1>3. Spi!WordsInPlace
  <2>1. SUFFICES ASSUME prompt, wrap_length = 0, Spi!Quiet, ~addr_valid, burst > 0
                 PROVE  \A x \in 1 .. words[burst] :
                          mem[base + x - 1] = (burst - 1) * MaxWords + x
    BY DEF Spi!WordsInPlace
  <2>2. words[burst] \in Nat
    BY <2>1, SpiConstants DEF Spi!IInv, Spi!InOrder
  <2>3. CASE words[burst] > 0
    <3>1. Spi!Complete = words[burst]
      BY <2>1 DEF Spi!Quiet, Spi!Complete
    <3>2. Behind(Spi!Counted, Spi!Complete)
      BY <2>1, <2>3, WritingSays DEF Spi!IInv, InWrite
    <3> QED BY <3>1, <3>2 DEF Behind
  <2>4. CASE words[burst] = 0
    BY <2>4
  <2> QED BY <2>2, <2>3, <2>4
<1>4. Spi!ReadsInPlace
  <2>1. SUFFICES ASSUME prompt, NEW x \in 1 .. Len(got), wrap_length = 0 \/ x <= wrap_length
                 PROVE  got[x] = base + x - 1
    BY DEF Spi!ReadsInPlace
  <2>2. got[x] = (base + x - 1) % AddrMod
    BY <2>1 DEF Spi!IInv, Spi!GotInOrder
  <2>3. Len(got) > 1 => Len(got) <= MaxWords
    BY <2>1 DEF Spi!IInv, Spi!Phases
  <2>4. base + x - 1 \in Nat /\ base + x - 1 < AddrMod
    <3>1. CASE Len(got) > 1
      BY <1>2, <2>3, <3>1, SpiConstants
    <3>2. CASE ~(Len(got) > 1)
      <4>1. x = 1
        BY <1>2, <3>2
      <4> QED BY <1>2, <4>1
    <3> QED BY <3>1, <3>2
  <2> QED BY <2>2, <2>4, CountOn, SpiConstants
<1>5. Spi!NoReadPastWrap
  <2>1. SUFFICES ASSUME prompt, wrap_length # 0, ~cs, ar_q \in {"AxiResp", "Data"}
                 PROVE  ar - base < wrap_length
    BY DEF Spi!NoReadPastWrap
  <2>2. ar = (base + Spi!Fetched) % AddrMod /\ Spi!Fetched < wrap_length
    BY <2>1, ReadingSays DEF Spi!IInv
  <2>3. Spi!Fetched \in Nat
    BY <1>2 DEF Spi!Fetched
  <2>4. base + Spi!Fetched \in Nat
    BY <1>2, <2>3
  <2>5. ar <= base + Spi!Fetched /\ ar \in 0 .. AddrMod - 1
    BY <2>2, <2>4, CountOn, SpiConstants
  <2> QED BY <1>2, <2>2, <2>3, <2>5, SpiConstants
<1> QED BY <1>3, <1>4, <1>5

\* A response of AXI is to a word that was sent after the last one written.
LEMMA RespondsInOrder ==
  ASSUME Spi!IInv, Spi!Next, aw_q = "AxiResp", aw_q' = "Idle"
  PROVE  written' > written
<1>1. Spi!Respond
  BY DEF Spi!Next, Spi!Master, Spi!Axi, Spi!Shift, Spi!Command, Spi!Address, Spi!Dummy, Spi!WordIn,
     Spi!RegisterIn, Spi!WordOut, Spi!Select, Spi!Deselect, Spi!LoadAddress, Spi!TakeWord,
     Spi!AcceptAW, Spi!AcceptW, Spi!AcceptAR, Spi!ReadData, Spi!Push, Spi!writeVars
<1>2. written' = curr_data_rx
  BY <1>1 DEF Spi!Respond
<1>3. written \in Nat /\ written < curr_data_rx
  BY DEF Spi!IInv, Spi!InOrder
<1>4. curr_data_rx \in 0 .. Spi!Total
  BY SpiPlain DEF Spi!IInv, SpiRegisters
<1> QED BY <1>2, <1>3, <1>4

(***************************************************************************)
(* The I2C port.                                                           *)
(***************************************************************************)

\* The assumption on the constants, one by one.
LEMMA I2cConstants ==
  /\ W \in Nat /\ W >= 2 /\ WINDOW \in Nat /\ WINDOW > 4 /\ WINDOW % 4 = 0
  /\ MinBytes \in Nat /\ MaxBytes \in Nat /\ MinBytes <= MaxBytes
  /\ MaxBytes + 4 <= WINDOW /\ MaxPackets \in Nat
  /\ Kinds \subseteq {"write", "read", "other"} /\ BigEndian \in BOOLEAN
  /\ Prompts \subseteq BOOLEAN
BY SerialAssumption DEF I2c!I2cAssumption

\* What the master is, and the type invariant of the I2C port, register by register.
Masters ==
  [line : {"idle", "low", "high"}, kind : Kinds \union {"other"}, packet : 0 .. MaxPackets,
   bytes : 0 .. MaxBytes + 1, bits : 0 .. W + 1, reads : BOOLEAN]

I2cRegisters ==
  /\ m \in Masters /\ last \in [packet : 0 .. MaxPackets, len : 0 .. MaxBytes]
  /\ CurSt \in I2c!States /\ count \in 1 .. W
  /\ prompt \in BOOLEAN /\ W_phase \in BOOLEAN /\ R_phase \in BOOLEAN /\ i2cBUSY \in BOOLEAN
  /\ q \in 0 .. 3 /\ strb \in 1 .. 4 /\ address_w \in 0 .. WINDOW - 1
  /\ \A l \in I2c!Lanes : /\ reg32[l] \in I2c!ByteIds /\ reg32copy[l] \in I2c!ByteIds
                          /\ wd.data[l] \in I2c!ByteIds
  /\ sent \in 0 .. W
  /\ AW_CS \in {"IDLE", "AXIDATA", "AXIRESP"} /\ AR_CS \in {"IDLE", "AXIADDR", "AXIRESP"}
  /\ i2c_awDone \in BOOLEAN /\ i2c_wDone \in BOOLEAN /\ status \in BOOLEAN
  /\ i2c_aw \in -4 .. WINDOW - 5 /\ wd.strb \in 1 .. 4
  /\ WR_TRANSF \in {"TRANSF_IDLE", "TRANSF_RESP"}
  /\ \A o \in I2c!Offsets : i2c_mem[o] \in I2c!ByteIds \union {I2c!Untouched}

LEMMA I2cPlain ==
  /\ I2c!TypeOK <=> I2cRegisters
  /\ I2c!TypeOK' <=> I2cRegisters'
<1>1. ASSUME NEW a, NEW b, NEW c, NEW d, NEW T
      PROVE  /\ {a, b, c, d} \subseteq T <=> a \in T /\ b \in T /\ c \in T /\ d \in T
             /\ {a, b, c} \subseteq T <=> a \in T /\ b \in T /\ c \in T
  OBVIOUS
<1>2. ASSUME NEW a, NEW b, NEW c, NEW S, NEW T
      PROVE  (\A w \in {a, b, c} : \A l \in S : w[l] \in T)
               <=> \A l \in S : a[l] \in T /\ b[l] \in T /\ c[l] \in T
  OBVIOUS
<1>3. I2c!TypeOK <=> I2cRegisters
  <2>1. (\A w \in {reg32, reg32copy, wd.data} : \A l \in I2c!Lanes : w[l] \in I2c!ByteIds)
          <=> \A l \in I2c!Lanes : /\ reg32[l] \in I2c!ByteIds /\ reg32copy[l] \in I2c!ByteIds
                                   /\ wd.data[l] \in I2c!ByteIds
    BY <1>2
  <2> QED BY <1>1, <2>1 DEF I2c!TypeOK, I2cRegisters, Masters
<1>4. I2c!TypeOK' <=> I2cRegisters'
  <2>1. (\A w \in {reg32', reg32copy', wd'.data} : \A l \in I2c!Lanes : w[l] \in I2c!ByteIds)
          <=> \A l \in I2c!Lanes : /\ reg32'[l] \in I2c!ByteIds /\ reg32copy'[l] \in I2c!ByteIds
                                   /\ wd'.data[l] \in I2c!ByteIds
    BY <1>2
  <2>2. I2c!Lanes' = I2c!Lanes /\ I2c!ByteIds' = I2c!ByteIds
    BY DEF I2c!Lanes, I2c!ByteIds
  <2> QED BY <1>1, <2>1, <2>2 DEF I2c!TypeOK, I2cRegisters, Masters
<1> QED BY <1>3, <1>4

\* The ranges of the master's fields, one by one.
LEMMA MasterPlain ==
  ASSUME I2cRegisters
  PROVE  /\ m.packet \in Nat /\ m.bytes \in Nat /\ m.bytes <= MaxBytes + 1
         /\ m.bits \in Nat /\ m.bits <= W + 1 /\ m.line \in {"idle", "low", "high"}
         /\ W \in Nat /\ W >= 2 /\ MaxBytes \in Nat
         /\ m.kind \in {"read", "write", "other"} /\ count \in 1 .. W
<1>1. m \in Masters /\ count \in 1 .. W
  BY DEF I2cRegisters
<1>2. /\ m.line \in {"idle", "low", "high"} /\ m.kind \in Kinds \union {"other"}
      /\ m.packet \in 0 .. MaxPackets /\ m.bytes \in 0 .. MaxBytes + 1 /\ m.bits \in 0 .. W + 1
  BY <1>1 DEF Masters
<1>3. m.kind \in {"read", "write", "other"}
  BY <1>2, I2cConstants
<1>4. count \in 1 .. W /\ W \in Nat /\ W >= 2 /\ MaxBytes \in Nat /\ MaxPackets \in Nat
  BY <1>1, I2cConstants
<1> QED BY <1>2, <1>3, <1>4

\* The master's line and counts before and after a step of its own.
LEMMA MasterSteps ==
  ASSUME I2cRegisters, I2c!InStep
  PROVE  /\ I2c!Start => /\ m.line = "idle" /\ m'.line = "high" /\ m'.packet = m.packet + 1
                         /\ m'.bytes = 0 /\ m'.bits = 0 /\ m'.kind \in Kinds
                         /\ (m'.reads <=> m.reads \/ m'.kind = "read")
         /\ I2c!Fall => /\ m.line = "high" /\ m'.line = "low" /\ m'.packet = m.packet
                        /\ m'.kind = m.kind /\ m'.reads = m.reads
                        /\ m'.bits = (IF m.bits = W + 1 THEN 0 ELSE m.bits)
                        /\ m'.bytes = (IF m.bits = W + 1 THEN m.bytes + 1 ELSE m.bytes)
         /\ I2c!Rise => /\ m.line = "low" /\ m'.line = "high" /\ m'.packet = m.packet
                        /\ m'.kind = m.kind /\ m'.reads = m.reads
                        /\ m'.bits = m.bits + 1 /\ m'.bytes = m.bytes
         /\ I2c!Stop => /\ m.line = "high" /\ m'.line = "idle" /\ m'.packet = m.packet
                        /\ m'.kind = m.kind /\ m'.reads = m.reads
                        /\ m'.bits = m.bits /\ m'.bytes = m.bytes
<1> USE DEF I2cRegisters, Masters
<1>1. I2c!Start => /\ m.line = "idle" /\ m'.line = "high" /\ m'.packet = m.packet + 1
                   /\ m'.bytes = 0 /\ m'.bits = 0 /\ m'.kind \in Kinds
                   /\ (m'.reads <=> m.reads \/ m'.kind = "read")
  <2>1. SUFFICES ASSUME I2c!Start
                 PROVE  /\ m.line = "idle" /\ m'.line = "high" /\ m'.packet = m.packet + 1
                        /\ m'.bytes = 0 /\ m'.bits = 0 /\ m'.kind \in Kinds
                        /\ (m'.reads <=> m.reads \/ m'.kind = "read")
    OBVIOUS
  <2>2. PICK k \in Kinds : m' = [line |-> "high", kind |-> k, packet |-> m.packet + 1,
                                 bytes |-> 0, bits |-> 0, reads |-> m.reads \/ k = "read"]
    BY <2>1 DEF I2c!Start
  <2>3. m'.line = "high" /\ m'.kind = k /\ m'.packet = m.packet + 1 /\ m'.bytes = 0 /\ m'.bits = 0
    BY <2>2
  <2>4. m'.reads = (m.reads \/ k = "read")
    BY <2>2, Zenon
  <2>5. m'.reads <=> m.reads \/ k = "read"
    BY <2>4, Zenon
  <2> QED BY <2>1, <2>3, <2>5 DEF I2c!Start
<1>2. I2c!Fall => /\ m.line = "high" /\ m'.line = "low" /\ m'.packet = m.packet
                  /\ m'.kind = m.kind /\ m'.reads = m.reads
                  /\ m'.bits = (IF m.bits = W + 1 THEN 0 ELSE m.bits)
                  /\ m'.bytes = (IF m.bits = W + 1 THEN m.bytes + 1 ELSE m.bytes)
  BY DEF I2c!Fall
<1>3. I2c!Rise => /\ m.line = "low" /\ m'.line = "high" /\ m'.packet = m.packet
                  /\ m'.kind = m.kind /\ m'.reads = m.reads
                  /\ m'.bits = m.bits + 1 /\ m'.bytes = m.bytes
  BY DEF I2c!Rise
<1>4. I2c!Stop => /\ m.line = "high" /\ m'.line = "idle" /\ m'.packet = m.packet
                  /\ m'.kind = m.kind /\ m'.reads = m.reads
                  /\ m'.bits = m.bits /\ m'.bytes = m.bytes
  BY DEF I2c!Stop
<1> QED BY <1>1, <1>2, <1>3, <1>4

\* The master's record has its fields, whatever it does.
LEMMA MasterTyped ==
  ASSUME I2cRegisters, I2c!InStep, I2c!Bus
  PROVE  m' \in Masters
<1> USE I2cConstants DEF I2cRegisters, Masters
<1>1. CASE I2c!Start
  <2>1. PICK k \in Kinds : m' = [line |-> "high", kind |-> k, packet |-> m.packet + 1,
                                 bytes |-> 0, bits |-> 0, reads |-> m.reads \/ k = "read"]
    BY <1>1 DEF I2c!Start
  <2>2. (m.reads \/ k = "read") \in BOOLEAN
    OBVIOUS
  <2>3. m.packet + 1 \in 0 .. MaxPackets
    BY <1>1 DEF I2c!Start
  <2> QED BY <2>1, <2>2, <2>3
<1>2. CASE I2c!Fall
  <2>1. m.bits = W + 1 => m.bytes + 1 \in 0 .. MaxBytes + 1
    BY <1>2 DEF I2c!Fall
  <2>2. m' = IF m.bits = W + 1 THEN [m EXCEPT !.line = "low", !.bits = 0, !.bytes = @ + 1]
                               ELSE [m EXCEPT !.line = "low"]
    BY <1>2 DEF I2c!Fall
  <2>3. CASE m.bits = W + 1
    <3>1. ASSUME NEW x \in 0 .. MaxBytes + 1
          PROVE  [m EXCEPT !.line = "low", !.bits = 0, !.bytes = x] \in Masters
      <4>1. 0 \in 0 .. W + 1
        OBVIOUS
      <4> QED BY <4>1
    <3>2. m' = [m EXCEPT !.line = "low", !.bits = 0, !.bytes = m.bytes + 1]
      BY <2>2, <2>3
    <3> QED BY <2>1, <2>3, <3>1, <3>2
  <2>4. CASE m.bits # W + 1
    BY <2>2, <2>4
  <2> QED BY <2>3, <2>4
<1>3. CASE I2c!Rise
  <2>1. m.bits + 1 \in 0 .. W + 1
    BY <1>3 DEF I2c!Rise, I2c!InStep
  <2> QED BY <1>3, <2>1 DEF I2c!Rise
<1>4. CASE I2c!Stop
  BY <1>4 DEF I2c!Stop
<1> QED BY <1>1, <1>2, <1>3, <1>4 DEF I2c!Bus

\* A byte that comes in is one of a packet, or its bits are mixed.
LEMMA ByteIn ==
  ASSUME I2cRegisters, I2c!InStep, m.line = "low", CurSt \in {"WRITEfirst", "WRITEother"}
  PROVE  I2c!ByteNow \in I2c!ByteIds
<1>1. CASE m.bits + 1 = W
  <2>1. m.bytes \in Nat /\ m.bytes > 0 /\ m.bytes <= MaxBytes /\ m.packet \in Nat
        /\ m.packet > 0 /\ m.packet <= MaxPackets
    BY <1>1, I2cConstants DEF I2cRegisters, Masters, I2c!InStep
  <2>2. (m.packet - 1) * MaxBytes + m.bytes \in 1 .. MaxPackets * MaxBytes
    BY <2>1, WordNumber, I2cConstants
  <2> QED BY <1>1, <2>2 DEF I2c!ByteNow, I2c!Id, I2c!ByteIds
<1>2. CASE m.bits + 1 # W
  BY <1>2 DEF I2c!ByteNow, I2c!ByteIds
<1> QED BY <1>1, <1>2

\* The word assembler keeps bytes, four lanes and an address inside the window.
LEMMA WordTyped ==
  ASSUME I2cRegisters
  PROVE  /\ \A l \in I2c!Lanes : I2c!NoWord[l] \in I2c!ByteIds
         /\ \A b \in I2c!ByteIds : \A l \in I2c!Lanes : I2c!ShiftIn(reg32, b)[l] \in I2c!ByteIds
         /\ \A x \in 0 .. 3 : \A l \in I2c!Lanes : I2c!TopLanes(reg32, x)[l] \in I2c!ByteIds
         /\ I2c!NextAddress \in 0 .. WINDOW - 1
         /\ (q + 1) % 4 \in 0 .. 3
<1> USE DEF I2cRegisters
<1>1. I2c!NextAddress \in 0 .. WINDOW - 1 /\ (q + 1) % 4 \in 0 .. 3
  BY I2cConstants DEF I2c!NextAddress
<1>2. \A l \in I2c!Lanes : I2c!NoWord[l] \in I2c!ByteIds
  BY DEF I2c!NoWord, I2c!ByteIds
<1>3. \A b \in I2c!ByteIds : \A l \in I2c!Lanes : I2c!ShiftIn(reg32, b)[l] \in I2c!ByteIds
  BY DEF I2c!ShiftIn, I2c!Lanes
<1>4. \A x \in 0 .. 3 : \A l \in I2c!Lanes : I2c!TopLanes(reg32, x)[l] \in I2c!ByteIds
  <2>1. I2c!ZERO \in I2c!ByteIds
    BY DEF I2c!ByteIds
  <2> QED BY <2>1 DEF I2c!TopLanes, I2c!Lanes
<1> QED BY <1>1, <1>2, <1>3, <1>4

\* A response of AXI writes bytes of the word to memory, and nothing else.
LEMMA MemoryTyped ==
  ASSUME I2cRegisters, I2c!Respond
  PROVE  \A o \in I2c!Offsets : i2c_mem'[o] \in I2c!ByteIds \union {I2c!Untouched}
<1> SUFFICES ASSUME NEW o \in I2c!Offsets
             PROVE  i2c_mem'[o] \in I2c!ByteIds \union {I2c!Untouched}
  OBVIOUS
<1>1. i2c_mem'[o] = IF o \in i2c_aw .. i2c_aw + wd.strb - 1 THEN wd.data[o - i2c_aw + 1]
                                                           ELSE i2c_mem[o]
  BY DEF I2c!Respond
<1>2. o \in i2c_aw .. i2c_aw + wd.strb - 1 => o - i2c_aw + 1 \in I2c!Lanes
  BY I2cConstants DEF I2cRegisters, I2c!Offsets, I2c!Lanes
<1> QED BY <1>1, <1>2 DEF I2cRegisters

\* A step of the I2C port keeps every register in its type.
LEMMA I2cTyped ==
  ASSUME I2cRegisters, I2c!InStep, I2c!Next
  PROVE  I2cRegisters'
<1> DEFINE Word(w) == \A l \in I2c!Lanes : w[l] \in I2c!ByteIds
<1>a. /\ Word(reg32) /\ Word(reg32copy) /\ Word(wd.data) /\ Word(I2c!NoWord)
      /\ Word(I2c!TopLanes(reg32, q))
      /\ \A b \in I2c!ByteIds : Word(I2c!ShiftIn(reg32, b))
      /\ I2c!NextAddress \in 0 .. WINDOW - 1 /\ (q + 1) % 4 \in 0 .. 3
  BY WordTyped DEF I2cRegisters
<1>b. SUFFICES ASSUME \/ I2c!Bus /\ m' \in Masters /\ last' \in [packet : 0 .. MaxPackets, len : 0 .. MaxBytes]
                      \/ (I2c!Axi \/ I2c!ClearStatus) /\ UNCHANGED <<m, last>>
               PROVE  I2cRegisters'
  <2>1. CASE I2c!Bus
    <3>1. last' \in [packet : 0 .. MaxPackets, len : 0 .. MaxBytes]
      <4>1. CASE I2c!Stop
        <5>1. last' = last \/ last' = [packet |-> m.packet, len |-> m.bytes - 1]
          BY <4>1 DEF I2c!Stop
        <5>2. m.packet \in 0 .. MaxPackets /\ m.bytes - 1 \in 0 .. MaxBytes
          BY <4>1, I2cConstants DEF I2c!Stop, I2cRegisters, Masters
        <5> QED BY <5>1, <5>2 DEF I2cRegisters
      <4>2. CASE I2c!Start \/ I2c!Fall \/ I2c!Rise
        BY <4>2 DEF I2c!Start, I2c!Fall, I2c!Rise, I2cRegisters
      <4> QED BY <2>1, <4>1, <4>2 DEF I2c!Bus
    <3> QED BY <2>1, <3>1, MasterTyped, <1>b
  <2>2. CASE I2c!Axi \/ I2c!ClearStatus
    <3>1. UNCHANGED <<m, last>>
      BY <2>2 DEF I2c!Axi, I2c!ClearStatus, I2c!AcceptAW, I2c!AcceptW, I2c!Respond, I2c!AcceptAR,
                  I2c!ReadData, I2c!busVars
    <3> QED BY <2>2, <3>1, <1>b
  <2> QED BY <2>1, <2>2 DEF I2c!Next
<1> HIDE DEF Word
<1>c. /\ Word(reg32') /\ Word(reg32copy') /\ Word(wd'.data)
      /\ strb' \in 1 .. 4 /\ address_w' \in 0 .. WINDOW - 1 /\ q' \in 0 .. 3
      => \A l \in I2c!Lanes : /\ reg32'[l] \in I2c!ByteIds /\ reg32copy'[l] \in I2c!ByteIds
                              /\ wd'.data[l] \in I2c!ByteIds
  BY DEF Word
<1>d. I2c!AcceptAW \/ I2c!AcceptW => i2c_awDone' \in BOOLEAN /\ i2c_wDone' \in BOOLEAN
  BY DEF I2c!AcceptAW, I2c!AcceptW, I2cRegisters
<1>g. I2c!Respond => /\ \A o \in I2c!Offsets : i2c_mem'[o] \in I2c!ByteIds \union {I2c!Untouched}
                    /\ AW_CS' = "IDLE" /\ WR_TRANSF' \in {WR_TRANSF, "TRANSF_IDLE"}
                    /\ UNCHANGED <<I2c!busVars, I2c!byteVars, I2c!wordVars, sent, AR_CS, i2c_awDone,
                                   i2c_wDone, i2c_aw, wd>>
  BY MemoryTyped DEF I2c!Respond, I2c!irqVars
<1>e. I2c!Respond \/ I2c!ClearStatus => status' \in BOOLEAN
  BY DEF I2c!Respond, I2c!ClearStatus, I2cRegisters, I2c!irqVars
<1>f. I2c!Rise => W_phase' \in BOOLEAN /\ R_phase' \in BOOLEAN /\ i2cBUSY' \in BOOLEAN
  BY DEF I2c!Rise, I2c!RiseAddress, I2c!RiseWriteFirst, I2c!RiseWriteOther, I2c!RiseSend,
         I2c!RiseOther, I2cRegisters, I2c!byteVars
<1> USE I2cConstants, <1>a, <1>b DEF I2cRegisters, I2c!States, I2c!busVars, I2c!byteVars, I2c!wordVars,
        I2c!axiVars, I2c!irqVars, I2c!Valid, I2c!EndByte
<1>1. CASE I2c!Start
  BY <1>1, <1>c DEF I2c!Start
<1>2. CASE I2c!Fall
  BY <1>2, <1>c DEF I2c!Fall, I2c!AfterAck
<1>3. CASE I2c!Rise
  <2>1. CurSt \in {"WRITEfirst", "WRITEother"} => I2c!ByteNow \in I2c!ByteIds
    BY <1>3, ByteIn DEF I2c!Rise
  <2>2. /\ CurSt' \in I2c!States /\ count' \in 1 .. W /\ sent' \in 0 .. W
        /\ W_phase' \in BOOLEAN /\ R_phase' \in BOOLEAN /\ i2cBUSY' \in BOOLEAN
    BY <1>3, <1>f DEF I2c!Rise, I2c!RiseAddress, I2c!RiseWriteFirst, I2c!RiseWriteOther, I2c!RiseSend, I2c!RiseOther
  <2>3. /\ q' \in 0 .. 3 /\ strb' \in 1 .. 4 /\ address_w' \in 0 .. WINDOW - 1
        /\ AW_CS' \in {"IDLE", "AXIDATA", "AXIRESP"}
    BY <1>3 DEF I2c!Rise, I2c!RiseAddress, I2c!RiseWriteFirst, I2c!RiseWriteOther, I2c!RiseSend, I2c!RiseOther
  <2>4. Word(reg32') /\ Word(reg32copy')
    BY <1>3, <2>1 DEF I2c!Rise, I2c!RiseAddress, I2c!RiseWriteFirst, I2c!RiseWriteOther, I2c!RiseSend, I2c!RiseOther
  <2> QED BY <1>3, <2>2, <2>3, <2>4, <1>c DEF I2c!Rise
<1>4. CASE I2c!Stop
  <2>1. /\ strb' \in 1 .. 4 /\ Word(reg32copy') /\ AW_CS' \in {"IDLE", "AXIDATA", "AXIRESP"}
        /\ WR_TRANSF' \in {"TRANSF_IDLE", "TRANSF_RESP"}
    BY <1>4 DEF I2c!Stop, I2c!StopWord
  <2>2. CurSt' \in I2c!States /\ W_phase' \in BOOLEAN /\ R_phase' \in BOOLEAN
    BY <1>4 DEF I2c!Stop, I2c!AfterStop
  <2> QED BY <1>4, <2>1, <2>2, <1>c DEF I2c!Stop
<1>5. CASE I2c!AcceptAW
  BY <1>5, <1>c, <1>d DEF I2c!AcceptAW
<1>6. CASE I2c!AcceptW
  BY <1>6, <1>c, <1>d DEF I2c!AcceptW
<1>7. CASE I2c!Respond
  BY <1>7, <1>c, <1>e, <1>g
<1>8. CASE I2c!AcceptAR
  BY <1>8, <1>c DEF I2c!AcceptAR
<1>9. CASE I2c!ReadData
  BY <1>9, <1>c DEF I2c!ReadData
<1>10. CASE I2c!ClearStatus
  BY <1>10, <1>c, <1>e DEF I2c!ClearStatus
<1> QED BY <1>1, <1>2, <1>3, <1>4, <1>5, <1>6, <1>7, <1>8, <1>9, <1>10 DEF I2c!Bus, I2c!Axi

\* What a rising edge does to the byte machine.
LEMMA RisesTo ==
  ASSUME I2c!Rise
  PROVE  /\ CurSt = "ADDR_RnW" =>
              /\ UNCHANGED <<W_phase, R_phase, sent>>
              /\ IF count > 1 THEN count' = count - 1 /\ UNCHANGED <<CurSt, i2cBUSY>>
                 ELSE /\ count' = W
                      /\ IF m.kind # "other" THEN CurSt' = "ACKwrite1_5" /\ i2cBUSY'
                                             ELSE CurSt' = "IDLE" /\ UNCHANGED i2cBUSY
         /\ CurSt = "WRITEfirst" =>
              /\ UNCHANGED <<R_phase, i2cBUSY, sent>>
              /\ IF count > 1 THEN count' = count - 1 /\ UNCHANGED <<CurSt, W_phase>>
                              ELSE count' = W /\ CurSt' = "ACKwrite1_5" /\ W_phase'
         /\ CurSt = "WRITEother" =>
              /\ UNCHANGED <<i2cBUSY, sent>> /\ ~W_phase'
              /\ IF count > 1 THEN count' = count - 1 /\ UNCHANGED <<CurSt, R_phase>>
                              ELSE count' = W /\ CurSt' = "ACKwrite1_5" /\ R_phase'
         /\ CurSt = "READwaitENDsendDATA" =>
              /\ UNCHANGED <<count, W_phase, R_phase, i2cBUSY>>
              /\ IF sent < W THEN sent' = sent + 1 /\ UNCHANGED CurSt ELSE CurSt' = "IDLE"
         /\ CurSt \in {"IDLE", "ACKwrite1_5", "ACKwrite2", "READwaitAXI"} =>
              UNCHANGED <<CurSt, count, W_phase, R_phase, i2cBUSY, sent>>
<1>1. I2c!RiseAddress \/ I2c!RiseWriteFirst \/ I2c!RiseWriteOther \/ I2c!RiseSend \/ I2c!RiseOther
  BY DEF I2c!Rise
<1>2. CurSt = "ADDR_RnW" =>
        /\ UNCHANGED <<W_phase, R_phase, sent>>
        /\ IF count > 1 THEN count' = count - 1 /\ UNCHANGED <<CurSt, i2cBUSY>>
           ELSE /\ count' = W
                /\ IF m.kind # "other" THEN CurSt' = "ACKwrite1_5" /\ i2cBUSY'
                                       ELSE CurSt' = "IDLE" /\ UNCHANGED i2cBUSY
  <2>1. SUFFICES ASSUME I2c!RiseAddress
                 PROVE  /\ UNCHANGED <<W_phase, R_phase, sent>>
                        /\ IF count > 1 THEN count' = count - 1 /\ UNCHANGED <<CurSt, i2cBUSY>>
                           ELSE /\ count' = W
                                /\ IF m.kind # "other" THEN CurSt' = "ACKwrite1_5" /\ i2cBUSY'
                                                       ELSE CurSt' = "IDLE" /\ UNCHANGED i2cBUSY
    BY <1>1 DEF I2c!RiseWriteFirst, I2c!RiseWriteOther, I2c!RiseSend, I2c!RiseOther
  <2> QED BY <2>1 DEF I2c!RiseAddress
<1>3. CurSt = "WRITEfirst" =>
        /\ UNCHANGED <<R_phase, i2cBUSY, sent>>
        /\ IF count > 1 THEN count' = count - 1 /\ UNCHANGED <<CurSt, W_phase>>
                        ELSE count' = W /\ CurSt' = "ACKwrite1_5" /\ W_phase'
  BY <1>1 DEF I2c!RiseAddress, I2c!RiseWriteFirst, I2c!RiseWriteOther, I2c!RiseSend, I2c!RiseOther
<1>4. CurSt = "WRITEother" =>
        /\ UNCHANGED <<i2cBUSY, sent>> /\ ~W_phase'
        /\ IF count > 1 THEN count' = count - 1 /\ UNCHANGED <<CurSt, R_phase>>
                        ELSE count' = W /\ CurSt' = "ACKwrite1_5" /\ R_phase'
  BY <1>1 DEF I2c!RiseAddress, I2c!RiseWriteFirst, I2c!RiseWriteOther, I2c!RiseSend, I2c!RiseOther
<1>5. CurSt = "READwaitENDsendDATA" =>
        /\ UNCHANGED <<count, W_phase, R_phase, i2cBUSY>>
        /\ IF sent < W THEN sent' = sent + 1 /\ UNCHANGED CurSt ELSE CurSt' = "IDLE"
  BY <1>1 DEF I2c!RiseAddress, I2c!RiseWriteFirst, I2c!RiseWriteOther, I2c!RiseSend, I2c!RiseOther
<1>6. CurSt \in {"IDLE", "ACKwrite1_5", "ACKwrite2", "READwaitAXI"} =>
        UNCHANGED <<CurSt, count, W_phase, R_phase, i2cBUSY, sent>>
  BY <1>1 DEF I2c!RiseAddress, I2c!RiseWriteFirst, I2c!RiseWriteOther, I2c!RiseSend, I2c!RiseOther,
     I2c!byteVars
<1> QED BY <1>2, <1>3, <1>4, <1>5, <1>6

\* A step keeps the states in which the slave takes bits in with the master's bits.
LEMMA I2cInStep ==
  ASSUME I2cRegisters, I2c!InStep, I2c!Next
  PROVE  I2c!InStep'
<1>0. /\ m.packet \in Nat /\ m.bytes \in Nat /\ m.bytes <= MaxBytes + 1
      /\ m.bits \in Nat /\ m.bits <= W + 1 /\ m.line \in {"idle", "low", "high"}
      /\ W \in Nat /\ W >= 2 /\ MaxBytes \in Nat
      /\ m.kind \in {"read", "write", "other"} /\ count \in 1 .. W
  BY MasterPlain
<1>1. CASE I2c!Start
  <2>1. /\ IF CurSt = "IDLE" THEN CurSt' = "ADDR_RnW" /\ count' = W
                             ELSE UNCHANGED <<CurSt, count>>
        /\ UNCHANGED <<W_phase, R_phase, i2cBUSY>>
    BY <1>1 DEF I2c!Start
  <2> QED BY <1>0, <1>1, <2>1, MasterSteps DEF I2c!InStep
<1>2. CASE I2c!Fall
  <2>1. /\ CurSt' = CASE CurSt = "ACKwrite1_5" -> "ACKwrite2"
                      [] CurSt = "ACKwrite2" -> I2c!AfterAck
                      [] OTHER -> CurSt
        /\ m.bytes = MaxBytes + 1 => m.bits = 0
        /\ UNCHANGED <<count, W_phase, R_phase, i2cBUSY>>
    BY <1>2 DEF I2c!Fall
  <2>2. CASE CurSt = "ACKwrite2"
    BY <1>0, <1>2, <2>1, <2>2, MasterSteps DEF I2c!InStep, I2c!AfterAck
  <2>3. CASE CurSt # "ACKwrite2"
    BY <1>0, <1>2, <2>1, <2>3, MasterSteps DEF I2c!InStep
  <2> QED BY <2>2, <2>3
<1>3. CASE I2c!Rise
  BY <1>0, <1>3, RisesTo, MasterSteps DEF I2c!InStep, I2cRegisters, I2c!States
<1>4. CASE I2c!Stop
  <2>1. /\ CurSt' = I2c!AfterStop /\ ~i2cBUSY' /\ UNCHANGED count /\ m.bytes >= 1 /\ m.bits < W
        /\ IF CurSt' = "IDLE" THEN ~W_phase' /\ ~R_phase' ELSE UNCHANGED <<W_phase, R_phase>>
    BY <1>4 DEF I2c!Stop
  <2> QED BY <1>0, <1>4, <2>1, MasterSteps DEF I2c!InStep, I2c!AfterStop, I2cRegisters, I2c!States
<1>5. CASE I2c!Axi \/ I2c!ClearStatus
  <2>1. /\ UNCHANGED <<m, count, W_phase, R_phase, i2cBUSY>>
        /\ CurSt' = CurSt \/ (CurSt = "READwaitAXI" /\ CurSt' = "READwaitENDsendDATA")
    BY <1>5 DEF I2c!Axi, I2c!ClearStatus, I2c!AcceptAW, I2c!AcceptW, I2c!Respond, I2c!AcceptAR,
                I2c!ReadData, I2c!busVars, I2c!byteVars
  <2> QED BY <1>0, <2>1 DEF I2c!InStep
<1> QED BY <1>1, <1>2, <1>3, <1>4, <1>5 DEF I2c!Next, I2c!Bus

\* A step keeps the slave where the master's transaction is, while AXI keeps up.
LEMMA I2cAddressed ==
  ASSUME I2cRegisters, I2c!InStep, I2c!Addressed, I2c!Next
  PROVE  I2c!Addressed'
<1>0. /\ m.packet \in Nat /\ m.bytes \in Nat /\ m.bytes <= MaxBytes + 1
      /\ m.bits \in Nat /\ m.bits <= W + 1 /\ m.line \in {"idle", "low", "high"}
      /\ W \in Nat /\ W >= 2 /\ MaxBytes \in Nat
      /\ m.kind \in {"read", "write", "other"} /\ count \in 1 .. W
  BY MasterPlain
<1> SUFFICES ASSUME prompt PROVE I2c!Addressed'
  BY PromptKept DEF I2c!Addressed
<1>1. CASE I2c!Start
  <2>1. /\ IF CurSt = "IDLE" THEN CurSt' = "ADDR_RnW" /\ count' = W
                             ELSE UNCHANGED <<CurSt, count>>
        /\ UNCHANGED <<i2cBUSY, AR_CS>> /\ AR_CS = "IDLE"
    BY <1>1 DEF I2c!Start, I2c!Ready, I2c!axiVars
  <2> QED BY <1>0, <1>1, <2>1, MasterSteps DEF I2c!Addressed, I2c!AckState
<1>2. CASE I2c!Fall
  <2>1. /\ CurSt' = CASE CurSt = "ACKwrite1_5" -> "ACKwrite2"
                      [] CurSt = "ACKwrite2" -> I2c!AfterAck
                      [] OTHER -> CurSt
        /\ AR_CS' = IF CurSt = "ACKwrite2" /\ I2c!AfterAck = "READwaitAXI" THEN "AXIADDR" ELSE "IDLE"
        /\ m.bytes = MaxBytes + 1 => m.bits = 0
        /\ UNCHANGED <<i2cBUSY, sent>> /\ AR_CS = "IDLE"
    BY <1>2 DEF I2c!Fall, I2c!Ready
  <2>2. CASE CurSt = "ACKwrite2"
    BY <1>0, <1>2, <2>1, <2>2, MasterSteps DEF I2c!InStep, I2c!Addressed, I2c!AckState, I2c!AfterAck
  <2>3. CASE CurSt # "ACKwrite2"
    BY <1>0, <1>2, <2>1, <2>3, MasterSteps DEF I2c!InStep, I2c!Addressed, I2c!AckState
  <2> QED BY <2>2, <2>3
<1>3. CASE I2c!Rise
  <2>1. UNCHANGED AR_CS /\ AR_CS = "IDLE"
    BY <1>3 DEF I2c!Rise, I2c!Ready
  <2> QED BY <1>0, <1>3, <2>1, RisesTo, MasterSteps
          DEF I2c!InStep, I2c!Addressed, I2c!AckState, I2cRegisters, I2c!States
<1>4. CASE I2c!Stop
  <2>1. /\ CurSt' = I2c!AfterStop /\ UNCHANGED <<AR_CS, sent>> /\ AR_CS = "IDLE"
        /\ m.bytes >= 1 /\ m.bits < W /\ (m.kind = "read" => m.bytes > 1)
    BY <1>4 DEF I2c!Stop, I2c!Ready
  <2> QED BY <1>0, <1>4, <2>1, MasterSteps
          DEF I2c!InStep, I2c!Addressed, I2c!AckState, I2c!AfterStop, I2cRegisters, I2c!States
<1>5. CASE I2c!AcceptAW \/ I2c!AcceptW \/ I2c!Respond \/ I2c!ClearStatus
  <2>1. UNCHANGED <<m, CurSt, i2cBUSY, sent, AR_CS>>
    BY <1>5 DEF I2c!ClearStatus, I2c!AcceptAW, I2c!AcceptW, I2c!Respond, I2c!busVars, I2c!byteVars,
                I2c!axiVars
  <2> QED BY <2>1 DEF I2c!Addressed, I2c!AckState
<1>6. CASE I2c!AcceptAR \/ I2c!ReadData
  <2>1. /\ UNCHANGED <<m, i2cBUSY>> /\ AR_CS # "IDLE"
        /\ \/ AR_CS' = "AXIRESP" /\ UNCHANGED CurSt
           \/ /\ AR_CS' = "IDLE" /\ sent' = 0
              /\ CurSt' = IF CurSt = "READwaitAXI" THEN "READwaitENDsendDATA" ELSE CurSt
    BY <1>6 DEF I2c!AcceptAR, I2c!ReadData, I2c!busVars, I2c!byteVars
  <2> QED BY <1>0, <2>1 DEF I2c!Addressed, I2c!AckState
<1> QED BY <1>1, <1>2, <1>3, <1>4, <1>5, <1>6 DEF I2c!Next, I2c!Bus, I2c!Axi

\* Counting in fours.
LEMMA Quarters ==
  ASSUME NEW r \in Nat, r > 0
  PROVE  /\ (r + 1) % 4 = ((r % 4) + 1) % 4 /\ r % 4 \in 0 .. 3
         /\ r % 4 = 0 => 4 * (r \div 4) = r /\ 4 * ((r - 1) \div 4) = r - 4 /\ r >= 4
         /\ r % 4 # 0 => /\ 4 * (r \div 4) = r - (r % 4) /\ 4 * ((r - 1) \div 4) = r - (r % 4)
                         /\ r - (r % 4) >= 0
<1>1. \A x \in Nat : x = 4 * (x \div 4) + (x % 4) /\ x % 4 \in 0 .. 3 /\ x \div 4 \in Nat
  OBVIOUS
<1>2. r - 1 \in Nat /\ r + 1 \in Nat /\ (r % 4) + 1 \in Nat
  BY <1>1
<1>3. ((r % 4) + 1) % 4 = IF r % 4 = 3 THEN 0 ELSE (r % 4) + 1
  <2>1. r % 4 \in {0, 1, 2, 3}
    BY <1>1
  <2> QED BY <2>1
<1> DEFINE a == r \div 4
           b == (r - 1) \div 4
           c == (r + 1) \div 4
           x == r % 4
           y == (r - 1) % 4
           z == (r + 1) % 4
<1>4. /\ r = 4 * a + x /\ r - 1 = 4 * b + y /\ r + 1 = 4 * c + z
      /\ a \in Nat /\ b \in Nat /\ c \in Nat /\ x \in 0 .. 3 /\ y \in 0 .. 3 /\ z \in 0 .. 3
  BY <1>1, <1>2
<1> HIDE DEF a, b, c, x, y, z
<1>5. /\ z = (IF x = 3 THEN 0 ELSE x + 1)
      /\ x = 0 => 4 * a = r /\ 4 * b = r - 4 /\ r >= 4
      /\ x # 0 => 4 * a = r - x /\ 4 * b = r - x /\ r - x >= 0
  BY <1>4
<1> QED BY <1>3, <1>4, <1>5 DEF a, b, x, z

\* The bytes received are counted by the master's counts, and never more than a packet.
LEMMA ReceivedPlain ==
  ASSUME I2cRegisters, I2c!InStep, m.line \in {"low", "high"}
  PROVE  /\ I2c!Received \in Nat
         /\ m.bits >= W /\ m.bytes > 0 => I2c!Received = m.bytes
         /\ m.bits < W /\ m.bytes > 0 => I2c!Received = m.bytes - 1
         /\ m.bytes = 0 => I2c!Received = 0
BY MasterPlain DEF I2c!Received

\* A rising edge leaves the word in hand alone, or is the last bit of the packet's first
\* byte, or the last bit of a later one.
LEMMA RisesByte ==
  ASSUME I2cRegisters, I2c!InStep, I2c!Addressed, I2c!Rise, prompt
  PROVE  \/ /\ UNCHANGED <<q, reg32, reg32copy, strb, address_w, AW_CS>>
            /\ m.kind = "write" => I2c!Received' = I2c!Received
         \/ /\ m.kind = "write" /\ I2c!Received = 0 /\ I2c!Received' = 1
            /\ I2c!EndByte(I2c!Id(m.packet, 1), FALSE)
         \/ /\ m.kind = "write" /\ I2c!Received > 0 /\ I2c!Received' = I2c!Received + 1
            /\ I2c!Received < MaxBytes
            /\ I2c!EndByte(I2c!Id(m.packet, I2c!Received + 1), TRUE)
<1>0. /\ m.packet \in Nat /\ m.bytes \in Nat /\ m.bytes <= MaxBytes + 1
      /\ m.bits \in Nat /\ m.bits <= W + 1 /\ m.line \in {"idle", "low", "high"}
      /\ W \in Nat /\ W >= 2 /\ MaxBytes \in Nat
      /\ m.kind \in {"read", "write", "other"} /\ count \in 1 .. W
  BY MasterPlain
<1>1. /\ m.line = "low" /\ m'.packet = m.packet /\ m'.kind = m.kind
      /\ m'.bits = m.bits + 1 /\ m'.bytes = m.bytes
  BY MasterSteps
<1>2. CASE I2c!RiseAddress \/ I2c!RiseSend \/ I2c!RiseOther
  <2>1. /\ UNCHANGED <<q, reg32, reg32copy, strb, address_w, AW_CS>>
        /\ CurSt \notin {"WRITEfirst", "WRITEother"}
    BY <1>2 DEF I2c!RiseAddress, I2c!RiseSend, I2c!RiseOther, I2c!wordVars
  <2>2. m.kind = "write" => m.bytes = 0 \/ m.bits >= W
    BY <1>0, <1>1, <2>1 DEF I2c!Addressed
  <2>3. m.kind = "write" => I2c!Received' = I2c!Received
    BY <1>0, <1>1, <2>2 DEF I2c!Received
  <2> QED BY <2>1, <2>3
<1>3. CASE (I2c!RiseWriteFirst \/ I2c!RiseWriteOther) /\ count > 1
  <2>1. UNCHANGED <<q, reg32, reg32copy, strb, address_w, AW_CS>>
    BY <1>3 DEF I2c!RiseWriteFirst, I2c!RiseWriteOther, I2c!wordVars
  <2>2. m.bits + 1 < W /\ m.bytes > 0
    BY <1>0, <1>3 DEF I2c!RiseWriteFirst, I2c!RiseWriteOther, I2c!InStep
  <2>3. I2c!Received' = I2c!Received
    BY <1>0, <1>1, <2>2 DEF I2c!Received
  <2> QED BY <2>1, <2>3
<1>4. CASE I2c!RiseWriteFirst /\ ~(count > 1)
  <2>1. m.kind = "write" /\ m.bytes = 1 /\ m.bits + 1 = W
    BY <1>0, <1>4 DEF I2c!RiseWriteFirst, I2c!InStep
  <2>2. I2c!Received = 0 /\ I2c!Received' = 1 /\ I2c!ByteNow = I2c!Id(m.packet, 1)
    BY <1>0, <1>1, <2>1 DEF I2c!Received, I2c!ByteNow
  <2>3. I2c!EndByte(I2c!ByteNow, FALSE)
    BY <1>4 DEF I2c!RiseWriteFirst
  <2> QED BY <2>1, <2>2, <2>3
<1>5. CASE I2c!RiseWriteOther /\ ~(count > 1)
  <2>1. m.kind = "write" /\ m.bytes > 1 /\ m.bits + 1 = W
    BY <1>0, <1>5 DEF I2c!RiseWriteOther, I2c!InStep
  <2>2. m.bytes <= MaxBytes
    BY <1>0, <1>1, <2>1 DEF I2c!InStep
  <2>3. /\ I2c!Received = m.bytes - 1 /\ I2c!Received' = m.bytes
        /\ I2c!ByteNow = I2c!Id(m.packet, m.bytes)
    BY <1>0, <1>1, <2>1 DEF I2c!Received, I2c!ByteNow
  <2>4. I2c!EndByte(I2c!ByteNow, TRUE)
    BY <1>5 DEF I2c!RiseWriteOther
  <2>5. /\ I2c!Received > 0 /\ I2c!Received' = I2c!Received + 1 /\ m.bytes = I2c!Received + 1
        /\ I2c!Received < MaxBytes
    BY <1>0, <2>1, <2>2, <2>3
  <2> QED BY <2>1, <2>3, <2>4, <2>5
<1> QED BY <1>2, <1>3, <1>4, <1>5 DEF I2c!Rise

\* A byte more in the word assembler, whose lanes hold the last four of r bytes.
LEMMA ByteMore ==
  ASSUME NEW r \in Nat, ~BigEndian,
         \A l \in I2c!Lanes : reg32[l] = IF r + l > 4 THEN I2c!Id(m.packet, r + l - 4) ELSE I2c!ZERO,
         NEW l \in I2c!Lanes
  PROVE  I2c!ShiftIn(reg32, I2c!Id(m.packet, r + 1))[l]
           = IF r + 1 + l > 4 THEN I2c!Id(m.packet, r + 1 + l - 4) ELSE I2c!ZERO
<1>1. I2c!ShiftIn(reg32, I2c!Id(m.packet, r + 1))
        = [k \in I2c!Lanes |-> IF k = 4 THEN I2c!Id(m.packet, r + 1) ELSE reg32[k + 1]]
  BY DEF I2c!ShiftIn
<1>2. CASE l = 4
  <2>1. r + 1 + l > 4 /\ r + 1 + l - 4 = r + 1
    BY <1>2
  <2> QED BY <1>1, <1>2, <2>1
<1>3. CASE l # 4
  <2>1. l + 1 \in I2c!Lanes /\ r + (l + 1) - 4 = r + 1 + l - 4 /\ (r + (l + 1) > 4 <=> r + 1 + l > 4)
    BY <1>3 DEF I2c!Lanes
  <2>2. I2c!ShiftIn(reg32, I2c!Id(m.packet, r + 1))[l] = reg32[l + 1]
    BY <1>1, <1>3
  <2> QED BY <2>1, <2>2
<1> QED BY <1>2, <1>3

\* The address of a packet stays inside the window: it counts, and never wraps.
LEMMA AddressCounts ==
  ASSUME I2cRegisters, I2c!InStep, I2c!Assembled, prompt, m.kind = "write",
         m.line \in {"low", "high"}, MinBytes > 0
  PROVE  /\ address_w \in Nat /\ address_w < MaxBytes /\ I2c!NextAddress = address_w + 4
         /\ I2c!Received > 0 => address_w = 4 * ((I2c!Received - 1) \div 4)
         /\ I2c!Received = 0 => address_w = 0
<1>1. address_w = IF I2c!Received = 0 THEN 0 ELSE 4 * ((I2c!Received - 1) \div 4)
  BY MasterPlain DEF I2c!Assembled
<1>2. I2c!Received \in Nat /\ I2c!Received <= MaxBytes
  <2>1. /\ m.bytes = MaxBytes + 1 => m.bits < W
    BY MasterPlain DEF I2c!InStep
  <2> QED BY <2>1, MasterPlain, ReceivedPlain
<1>3. address_w < MaxBytes /\ address_w \in Nat
  <2>1. CASE I2c!Received = 0
    BY <1>1, <2>1, I2cConstants
  <2>2. CASE I2c!Received # 0
    <3> DEFINE r == I2c!Received
    <3>1. r \in Nat /\ r > 0 /\ r <= MaxBytes /\ address_w = 4 * ((r - 1) \div 4)
      BY <1>1, <1>2, <2>2
    <3> HIDE DEF r
    <3>2. /\ r % 4 = 0 => address_w = r - 4 /\ r >= 4
          /\ r % 4 # 0 => address_w = r - (r % 4) /\ r - (r % 4) >= 0
          /\ r % 4 \in 0 .. 3
      BY <3>1, Quarters
    <3> QED BY <3>1, <3>2, I2cConstants
  <2> QED BY <2>1, <2>2
<1>4. I2c!NextAddress = address_w + 4
  <2>1. address_w + 4 \in Nat /\ address_w + 4 < WINDOW
    BY <1>3, I2cConstants
  <2> QED BY <2>1, CountOn, I2cConstants DEF I2c!NextAddress
<1> QED BY <1>1, <1>2, <1>3, <1>4

\* A step of AXI or of the firmware touches neither the bus nor the word in hand.
LEMMA AxiLeaves ==
  ASSUME I2c!Axi \/ I2c!ClearStatus
  PROVE  UNCHANGED <<m, last, q, reg32, reg32copy, strb, address_w>>
BY DEF I2c!Axi, I2c!ClearStatus, I2c!AcceptAW, I2c!AcceptW, I2c!Respond, I2c!AcceptAR, I2c!ReadData,
       I2c!busVars, I2c!wordVars

\* A step keeps the word assembler where the packet is.
LEMMA I2cAssembled ==
  ASSUME I2cRegisters, I2c!InStep, I2c!Addressed, I2c!Assembled, I2c!Next, ~BigEndian, MinBytes > 0
  PROVE  I2c!Assembled'
<1> SUFFICES ASSUME prompt, m'.kind = "write", m'.line # "idle"
             PROVE  /\ q' = I2c!Received' % 4
                    /\ \A l \in I2c!Lanes : reg32'[l] = IF I2c!Received' + l > 4
                                                        THEN I2c!Id(m'.packet, I2c!Received' + l - 4)
                                                        ELSE I2c!ZERO
                    /\ address_w' = IF I2c!Received' = 0 THEN 0 ELSE 4 * ((I2c!Received' - 1) \div 4)
  BY PromptKept DEF I2c!Assembled, I2c!Id, I2c!Lanes
<1>1. CASE I2c!Start
  <2>1. I2c!Received' = 0
    BY <1>1, MasterSteps DEF I2c!Received
  <2>2. q' = 0 /\ address_w' = 0 /\ reg32' = [l \in I2c!Lanes |-> I2c!ZERO]
    BY <1>1 DEF I2c!Start, I2c!NoWord
  <2>3. \A l \in I2c!Lanes : ~(0 + l > 4)
    BY DEF I2c!Lanes
  <2> QED BY <2>1, <2>2, <2>3
<1>2. CASE \/ I2c!Fall
           \/ I2c!Rise /\ UNCHANGED <<q, reg32, address_w>> /\ I2c!Received' = I2c!Received
           \/ I2c!Axi \/ I2c!ClearStatus
  <2>1. UNCHANGED <<q, reg32, address_w>> /\ m'.packet = m.packet
        /\ m.kind = "write" /\ m.line # "idle"
    <3>1. CASE I2c!Fall
      BY <3>1, MasterSteps DEF I2c!Fall, I2c!wordVars
    <3>2. CASE I2c!Rise /\ UNCHANGED <<q, reg32, address_w>>
      BY <3>2, MasterSteps
    <3>3. CASE I2c!Axi \/ I2c!ClearStatus
      BY <3>3, AxiLeaves
    <3> QED BY <1>2, <3>1, <3>2, <3>3
  <2>2. I2c!Received' = I2c!Received
    <3>1. CASE I2c!Fall
      BY <3>1, MasterSteps, MasterPlain DEF I2c!Received
    <3>2. CASE I2c!Axi \/ I2c!ClearStatus
      BY <3>2, AxiLeaves DEF I2c!Received
    <3> QED BY <1>2, <3>1, <3>2
  <2> QED BY <2>1, <2>2 DEF I2c!Assembled
<1>3. CASE I2c!Rise /\ ~(UNCHANGED <<q, reg32, address_w>> /\ I2c!Received' = I2c!Received)
  <2> DEFINE r == I2c!Received
             s == I2c!Received'
  <2>1. m'.packet = m.packet /\ m.kind = "write" /\ m.line = "low"
    BY <1>3, MasterSteps
  <2>2. /\ r \in Nat /\ s = r + 1
        /\ \/ r = 0 /\ I2c!EndByte(I2c!Id(m.packet, r + 1), FALSE)
           \/ r > 0 /\ I2c!EndByte(I2c!Id(m.packet, r + 1), TRUE)
    <3>1. r \in Nat
      BY <2>1, ReceivedPlain
    <3>2. \/ r = 0 /\ s = 1 /\ I2c!EndByte(I2c!Id(m.packet, 1), FALSE)
          \/ r > 0 /\ s = r + 1 /\ I2c!EndByte(I2c!Id(m.packet, r + 1), TRUE)
      <4>1. ~(UNCHANGED <<q, reg32, reg32copy, strb, address_w, AW_CS>> /\ s = r)
        BY <1>3
      <4> QED BY <1>3, <2>1, <4>1, RisesByte
    <3> HIDE DEF r, s
    <3>3. r = 0 => r + 1 = 1
      OBVIOUS
    <3> QED BY <3>1, <3>2, <3>3
  <2>3. /\ q = r % 4 /\ I2c!NextAddress = address_w + 4
        /\ \A l \in I2c!Lanes : reg32[l] = IF r + l > 4 THEN I2c!Id(m.packet, r + l - 4)
                                                       ELSE I2c!ZERO
        /\ r > 0 => address_w = 4 * ((r - 1) \div 4)
        /\ r = 0 => address_w = 0
    BY <2>1, AddressCounts DEF I2c!Assembled
  <2> HIDE DEF r, s
  <2>4. /\ q' = (q + 1) % 4 /\ reg32' = I2c!ShiftIn(reg32, I2c!Id(m.packet, r + 1))
        /\ address_w' = IF q = 0 /\ r > 0 THEN address_w + 4 ELSE address_w
    BY <2>2, <2>3 DEF I2c!EndByte
  <2>5. \A l \in I2c!Lanes : reg32'[l] = IF s + l > 4 THEN I2c!Id(m.packet, s + l - 4)
                                                     ELSE I2c!ZERO
    BY <2>2, <2>3, <2>4, ByteMore
  <2>6. q' = s % 4
    <3>1. CASE r = 0
      BY <2>2, <2>3, <2>4, <3>1
    <3>2. CASE r > 0
      BY <2>2, <2>3, <2>4, <3>2, Quarters
    <3> QED BY <2>2, <3>1, <3>2
  <2>7. s # 0 /\ address_w' = 4 * ((s - 1) \div 4)
    <3>1. s - 1 = r
      BY <2>2
    <3>2. CASE r = 0
      BY <2>2, <2>3, <2>4, <3>1, <3>2
    <3>3. CASE r > 0
      BY <2>2, <2>3, <2>4, <3>1, <3>3, Quarters
    <3> QED BY <2>2, <3>2, <3>3
  <2> QED BY <2>1, <2>5, <2>6, <2>7 DEF s
<1>4. CASE I2c!Stop
  BY <1>4, MasterSteps
<1> QED BY <1>1, <1>2, <1>3, <1>4 DEF I2c!Next, I2c!Bus

\* The bytes in the word assembler, by their count r: the lanes of a whole word, or the top
\* lanes of what has come of one, follow the address.
LEMMA LanesFilled ==
  ASSUME I2cRegisters, NEW r \in Nat, r > 0, q = r % 4, address_w = 4 * ((r - 1) \div 4),
         \A l \in I2c!Lanes : reg32[l] = IF r + l > 4 THEN I2c!Id(m.packet, r + l - 4) ELSE I2c!ZERO
  PROVE  /\ q = 0 => /\ r = address_w + 4
                     /\ \A l \in 1 .. 4 : reg32[l] = I2c!Id(m.packet, address_w + l)
         /\ q # 0 => /\ r = address_w + q
                     /\ \A l \in 1 .. q : I2c!TopLanes(reg32, q)[l] = I2c!Id(m.packet, address_w + l)
<1>1. /\ q \in 0 .. 3
      /\ q = 0 => address_w = r - 4 /\ r >= 4
      /\ q # 0 => address_w = r - q
  BY Quarters DEF I2cRegisters
<1>2. ASSUME q = 0, NEW l \in 1 .. 4
      PROVE  reg32[l] = I2c!Id(m.packet, address_w + l)
  <2>1. l \in I2c!Lanes /\ r + l > 4 /\ r + l - 4 = address_w + l
    BY <1>1, <1>2 DEF I2c!Lanes
  <2> QED BY <2>1
<1>3. ASSUME q # 0, NEW l \in 1 .. q
      PROVE  I2c!TopLanes(reg32, q)[l] = I2c!Id(m.packet, address_w + l)
  <2>1. l \in I2c!Lanes /\ 4 - q + l \in I2c!Lanes
    BY <1>1, <1>3 DEF I2c!Lanes
  <2>2. I2c!TopLanes(reg32, q)[l] = reg32[4 - q + l]
    BY <1>1, <1>3, <2>1 DEF I2c!TopLanes
  <2>3. r + (4 - q + l) > 4 /\ r + (4 - q + l) - 4 = address_w + l
    BY <1>1, <1>3
  <2> QED BY <2>1, <2>2, <2>3
<1>4. (q = 0 => r = address_w + 4) /\ (q # 0 => r = address_w + q)
  BY <1>1
<1> QED BY <1>2, <1>3, <1>4

\* The word that a rising edge sends is the packet's at the address.
LEMMA RiseSends ==
  ASSUME I2cRegisters, I2c!InStep, I2c!Addressed, I2c!Assembled, I2c!Rise, prompt, MinBytes > 0
  PROVE  /\ AW_CS = "IDLE" /\ AW_CS' \in {"IDLE", "AXIDATA"}
         /\ AW_CS' = "AXIDATA" => m.kind = "write"
         /\ m.kind = "write" =>
              IF AW_CS' = "IDLE" THEN UNCHANGED address_w
              ELSE /\ address_w' = address_w + 4 /\ strb' = 4
                   /\ \A l \in 1 .. 4 : reg32copy'[l] = I2c!Id(m.packet, address_w + l)
<1>1. AW_CS = "IDLE" /\ m.line = "low"
  BY MasterSteps DEF I2c!Rise, I2c!Ready
<1>2. CASE UNCHANGED <<q, reg32, reg32copy, strb, address_w, AW_CS>>
  BY <1>1, <1>2
<1>3. ASSUME NEW b, I2c!EndByte(b, FALSE)
      PROVE  UNCHANGED <<address_w, AW_CS>>
  BY <1>3 DEF I2c!EndByte, I2c!Valid
<1>4. ASSUME NEW b, I2c!EndByte(b, TRUE), m.kind = "write", I2c!Received > 0
      PROVE  IF AW_CS' = "IDLE" THEN UNCHANGED address_w
             ELSE /\ AW_CS' = "AXIDATA" /\ address_w' = address_w + 4 /\ strb' = 4
                  /\ \A l \in 1 .. 4 : reg32copy'[l] = I2c!Id(m.packet, address_w + l)
  <2>1. I2c!NextAddress = address_w + 4
    BY <1>1, <1>4, AddressCounts
  <2>2. CASE q # 0
    BY <1>1, <1>4, <2>2 DEF I2c!EndByte, I2c!Valid
  <2>3. CASE q = 0
    <3>1. /\ AW_CS' = "AXIDATA" /\ address_w' = address_w + 4 /\ strb' = 4 /\ reg32copy' = reg32
      BY <1>1, <1>4, <2>1, <2>3 DEF I2c!EndByte, I2c!Valid
    <3>2. \A l \in 1 .. 4 : reg32[l] = I2c!Id(m.packet, address_w + l)
      <4> DEFINE r == I2c!Received
      <4>1. /\ r \in Nat /\ r > 0 /\ q = r % 4 /\ address_w = 4 * ((r - 1) \div 4)
            /\ \A l \in I2c!Lanes : reg32[l] = IF r + l > 4 THEN I2c!Id(m.packet, r + l - 4)
                                                           ELSE I2c!ZERO
        BY <1>1, <1>4, ReceivedPlain, AddressCounts DEF I2c!Assembled
      <4> HIDE DEF r
      <4> QED BY <2>3, <4>1, LanesFilled
    <3> QED BY <3>1, <3>2
  <2> QED BY <2>2, <2>3
<1> QED BY <1>1, <1>2, <1>3, <1>4, RisesByte

\* The word that a STOP sends is the rest of the packet.
LEMMA StopSends ==
  ASSUME I2cRegisters, I2c!InStep, I2c!Addressed, I2c!Assembled, I2c!Stop, prompt, MinBytes > 0
  PROVE  /\ AW_CS = "IDLE" /\ AW_CS' \in {"IDLE", "AXIDATA"}
         /\ AW_CS' = "AXIDATA" => m.kind # "other"
         /\ m.kind = "write" =>
              /\ AW_CS' = "AXIDATA" /\ WR_TRANSF' = "TRANSF_RESP"
              /\ address_w' = address_w + 4 /\ m.bytes - 1 <= address_w + strb'
              /\ \A l \in 1 .. strb' : reg32copy'[l] = I2c!Id(m.packet, address_w + l)
<1>1. /\ AW_CS = "IDLE" /\ m.line = "high" /\ m.bytes >= 1 /\ m.bits < W
      /\ m.kind = "write" => m.bytes > MinBytes
      /\ IF i2cBUSY THEN I2c!StopWord ELSE UNCHANGED <<strb, reg32copy, AW_CS, WR_TRANSF>>
      /\ address_w' = I2c!NextAddress
  BY DEF I2c!Stop, I2c!Ready
<1>2. AW_CS' \in {"IDLE", "AXIDATA"} /\ (AW_CS' = "AXIDATA" => m.kind # "other")
  BY <1>1 DEF I2c!StopWord, I2c!Valid, I2c!InStep
<1>3. ASSUME m.kind = "write"
      PROVE  /\ AW_CS' = "AXIDATA" /\ WR_TRANSF' = "TRANSF_RESP"
             /\ address_w' = address_w + 4 /\ m.bytes - 1 <= address_w + strb'
             /\ \A l \in 1 .. strb' : reg32copy'[l] = I2c!Id(m.packet, address_w + l)
  <2>1. /\ i2cBUSY /\ AW_CS' = "AXIDATA" /\ WR_TRANSF' = "TRANSF_RESP"
        /\ strb' = (IF q = 0 THEN 4 ELSE q)
        /\ reg32copy' = (IF q = 0 THEN reg32 ELSE I2c!TopLanes(reg32, q))
    BY <1>1, <1>3, MasterPlain DEF I2c!Addressed, I2c!StopWord, I2c!Valid
  <2> DEFINE r == I2c!Received
  <2>2. r \in Nat /\ r > 0 /\ r = m.bytes - 1
    BY <1>1, <1>3, MasterPlain, ReceivedPlain, I2cConstants
  <2>3. /\ q = r % 4 /\ address_w = 4 * ((r - 1) \div 4) /\ I2c!NextAddress = address_w + 4
        /\ \A l \in I2c!Lanes : reg32[l] = IF r + l > 4 THEN I2c!Id(m.packet, r + l - 4)
                                                       ELSE I2c!ZERO
    BY <1>1, <1>3, <2>2, AddressCounts DEF I2c!Assembled
  <2> HIDE DEF r
  <2>4. /\ q = 0 => /\ r = address_w + 4
                    /\ \A l \in 1 .. 4 : reg32[l] = I2c!Id(m.packet, address_w + l)
        /\ q # 0 => /\ r = address_w + q
                    /\ \A l \in 1 .. q : I2c!TopLanes(reg32, q)[l] = I2c!Id(m.packet, address_w + l)
    BY <2>2, <2>3, LanesFilled
  <2>5. r <= address_w + strb'
    BY <2>1, <2>2, <2>4
  <2>6. \A l \in 1 .. strb' : reg32copy'[l] = I2c!Id(m.packet, address_w + l)
    BY <2>1, <2>4
  <2> QED BY <1>1, <2>1, <2>2, <2>3, <2>5, <2>6
<1> QED BY <1>1, <1>2, <1>3

\* A step keeps the two handshakes of a word of AXI together.
LEMMA Handshakes ==
  ASSUME AW_CS # "AXIDATA" => ~i2c_awDone /\ ~i2c_wDone, I2c!Next
  PROVE  AW_CS' # "AXIDATA" => ~i2c_awDone' /\ ~i2c_wDone'
<1>1. CASE I2c!Start \/ I2c!Fall \/ I2c!AcceptAR \/ I2c!ReadData \/ I2c!ClearStatus
  <2>1. UNCHANGED <<AW_CS, i2c_awDone, i2c_wDone>>
    BY <1>1 DEF I2c!Start, I2c!Fall, I2c!AcceptAR, I2c!ReadData, I2c!ClearStatus, I2c!axiVars
  <2> QED BY <2>1
<1>2. CASE I2c!Rise \/ I2c!Stop
  <2>1. UNCHANGED <<i2c_awDone, i2c_wDone>>
    BY <1>2 DEF I2c!Rise, I2c!Stop
  <2>2. AW_CS' # "AXIDATA" => AW_CS' = AW_CS
    <3>1. CASE I2c!Rise
      BY <3>1 DEF I2c!Rise, I2c!RiseAddress, I2c!RiseWriteFirst, I2c!RiseWriteOther, I2c!RiseSend,
                  I2c!RiseOther, I2c!EndByte, I2c!Valid
    <3>2. CASE I2c!Stop
      BY <3>2 DEF I2c!Stop, I2c!StopWord, I2c!Valid
    <3> QED BY <1>2, <3>1, <3>2
  <2> QED BY <2>1, <2>2
<1>3. CASE I2c!AcceptAW \/ I2c!AcceptW \/ I2c!Respond
  BY <1>3 DEF I2c!AcceptAW, I2c!AcceptW, I2c!Respond
<1> QED BY <1>1, <1>2, <1>3 DEF I2c!Next, I2c!Bus, I2c!Axi

\* A step keeps the word that AXI has not answered a word of the packet, at its place.
LEMMA I2cOnItsWay ==
  ASSUME I2cRegisters, I2c!InStep, I2c!Addressed, I2c!Assembled, I2c!OnItsWay, I2c!Next, MinBytes > 0
  PROVE  I2c!OnItsWay'
<1>1. AW_CS' # "AXIDATA" => ~i2c_awDone' /\ ~i2c_wDone'
  BY Handshakes DEF I2c!OnItsWay
<1>2. SUFFICES ASSUME prompt, AW_CS' # "IDLE"
               PROVE  /\ m'.kind # "other"
                      /\ i2c_awDone' \/ AW_CS' = "AXIRESP" => i2c_aw' = address_w' - 4
                      /\ i2c_wDone' \/ AW_CS' = "AXIRESP"
                           => wd' = [data |-> reg32copy', strb |-> strb']
                      /\ m'.kind = "write" =>
                           /\ address_w' >= 4 /\ (m'.line # "idle" => strb' = 4)
                           /\ \A l \in 1 .. strb' :
                                reg32copy'[l] = I2c!Id(m'.packet, address_w' - 4 + l)
  BY <1>1, PromptKept DEF I2c!OnItsWay, I2c!Id
<1>3. CASE I2c!Start \/ I2c!Fall
  BY <1>2, <1>3 DEF I2c!Start, I2c!Fall, I2c!Ready, I2c!axiVars
<1>4. CASE I2c!Rise \/ I2c!Stop
  <2>1. /\ AW_CS = "IDLE" /\ AW_CS' = "AXIDATA" /\ m.kind # "other"
        /\ m.kind = "write" =>
             /\ address_w' = address_w + 4 /\ (m'.line # "idle" => strb' = 4)
             /\ \A l \in 1 .. strb' : reg32copy'[l] = I2c!Id(m.packet, address_w + l)
    <3>1. CASE I2c!Rise
      BY <1>2, <3>1, RiseSends
    <3>2. CASE I2c!Stop
      BY <1>2, <3>2, StopSends, MasterSteps
    <3> QED BY <1>4, <3>1, <3>2
  <2>2. ~i2c_awDone' /\ ~i2c_wDone' /\ m'.kind = m.kind /\ m'.packet = m.packet
    <3>1. UNCHANGED <<i2c_awDone, i2c_wDone>>
      BY <1>4 DEF I2c!Rise, I2c!Stop
    <3> QED BY <1>4, <2>1, <3>1, MasterSteps DEF I2c!OnItsWay
  <2>3. address_w \in Nat
    BY I2cConstants DEF I2cRegisters
  <2>4. m.kind = "write" => /\ address_w' >= 4
                            /\ \A l \in 1 .. strb' :
                                 reg32copy'[l] = I2c!Id(m.packet, address_w' - 4 + l)
    <3>1. m.kind = "write" => address_w' >= 4 /\ address_w' - 4 = address_w
      BY <2>1, <2>3
    <3> QED BY <2>1, <3>1
  <2> QED BY <2>1, <2>2, <2>4
<1>5. CASE I2c!AcceptAW \/ I2c!AcceptW
  <2>1. UNCHANGED <<m, address_w, reg32copy, strb>> /\ AW_CS = "AXIDATA"
    BY <1>5 DEF I2c!AcceptAW, I2c!AcceptW, I2c!busVars, I2c!wordVars
  <2>2. i2c_awDone' \/ AW_CS' = "AXIRESP" => i2c_aw' = address_w' - 4
    BY <1>2, <1>5 DEF I2c!AcceptAW, I2c!AcceptW, I2c!wordVars, I2c!OnItsWay
  <2>3. i2c_wDone' \/ AW_CS' = "AXIRESP" => wd' = [data |-> reg32copy', strb |-> strb']
    BY <1>2, <1>5 DEF I2c!AcceptAW, I2c!AcceptW, I2c!wordVars, I2c!OnItsWay
  <2> QED BY <1>2, <2>1, <2>2, <2>3 DEF I2c!OnItsWay
<1>6. CASE I2c!Respond
  BY <1>2, <1>6 DEF I2c!Respond
<1>7. CASE I2c!AcceptAR \/ I2c!ReadData \/ I2c!ClearStatus
  <2>1. UNCHANGED <<m, address_w, reg32copy, strb, AW_CS, i2c_awDone, i2c_wDone, i2c_aw, wd>>
    BY <1>7 DEF I2c!AcceptAR, I2c!ReadData, I2c!ClearStatus, I2c!busVars, I2c!wordVars, I2c!axiVars
  <2> QED BY <1>2, <2>1 DEF I2c!OnItsWay
<1> QED BY <1>3, <1>4, <1>5, <1>6, <1>7 DEF I2c!Next, I2c!Bus, I2c!Axi

\* A response of AXI puts the bytes of the word at their places and changes no other.
LEMMA Answered ==
  ASSUME I2cRegisters, I2c!OnItsWay, I2c!Respond, prompt, m.kind = "write"
  PROVE  /\ AW_CS = "AXIRESP" /\ address_w >= 4 /\ (m.line # "idle" => strb = 4)
         /\ \A x \in 1 .. address_w - 4 : i2c_mem'[x - 1] = i2c_mem[x - 1]
         /\ \A x \in address_w - 3 .. address_w - 4 + strb : i2c_mem'[x - 1] = I2c!Id(m.packet, x)
         /\ \A o \in I2c!Offsets : \/ i2c_mem'[o] = i2c_mem[o]
                                   \/ i2c_mem'[o] = I2c!Id(m.packet, o + 1)
<1>1. /\ AW_CS = "AXIRESP" /\ i2c_aw = address_w - 4 /\ wd.data = reg32copy /\ wd.strb = strb
      /\ address_w >= 4 /\ (m.line # "idle" => strb = 4)
      /\ \A l \in 1 .. strb : reg32copy[l] = I2c!Id(m.packet, address_w - 4 + l)
  BY DEF I2c!Respond, I2c!OnItsWay
<1>2. address_w \in 0 .. WINDOW - 1 /\ strb \in 1 .. 4 /\ WINDOW \in Nat
  BY I2cConstants DEF I2cRegisters
<1>3. ASSUME NEW o \in I2c!Offsets
      PROVE  i2c_mem'[o] = IF o \in address_w - 4 .. address_w - 4 + strb - 1
                           THEN reg32copy[o - (address_w - 4) + 1] ELSE i2c_mem[o]
  BY <1>1 DEF I2c!Respond
<1>4. ASSUME NEW o \in I2c!Offsets, o \in address_w - 4 .. address_w - 4 + strb - 1
      PROVE  i2c_mem'[o] = I2c!Id(m.packet, o + 1)
  <2>1. /\ o - (address_w - 4) + 1 \in 1 .. strb
        /\ address_w - 4 + (o - (address_w - 4) + 1) = o + 1
    BY <1>2, <1>4
  <2> QED BY <1>1, <1>3, <1>4, <2>1
<1>5. ASSUME NEW x \in 1 .. address_w - 4
      PROVE  i2c_mem'[x - 1] = i2c_mem[x - 1]
  <2>1. x - 1 \in I2c!Offsets /\ x - 1 \notin address_w - 4 .. address_w - 4 + strb - 1
    BY <1>1, <1>2 DEF I2c!Offsets
  <2> QED BY <1>3, <2>1
<1>6. ASSUME NEW x \in address_w - 3 .. address_w - 4 + strb
      PROVE  i2c_mem'[x - 1] = I2c!Id(m.packet, x)
  <2>1. /\ x - 1 \in I2c!Offsets /\ x - 1 \in address_w - 4 .. address_w - 4 + strb - 1
        /\ x - 1 + 1 = x
    BY <1>1, <1>2 DEF I2c!Offsets
  <2>2. i2c_mem'[x - 1] = I2c!Id(m.packet, x - 1 + 1)
    BY <1>4, <2>1
  <2> QED BY <2>1, <2>2
<1> QED BY <1>1, <1>3, <1>4, <1>5, <1>6

\* Each step of the port, by what it does to memory and to the end of a packet.
LEMMA MemoryWrites ==
  ASSUME I2c!Next
  PROVE  /\ I2c!Respond \/ UNCHANGED i2c_mem
         /\ I2c!Stop \/ UNCHANGED last
<1>1. I2c!Respond \/ UNCHANGED i2c_mem
  BY DEF I2c!Next, I2c!Bus, I2c!Axi, I2c!Start, I2c!Fall, I2c!Rise, I2c!Stop, I2c!AcceptAW,
     I2c!AcceptW, I2c!AcceptAR, I2c!ReadData, I2c!ClearStatus
<1>2. I2c!Stop \/ UNCHANGED last
  BY DEF I2c!Next, I2c!Bus, I2c!Axi, I2c!Start, I2c!Fall, I2c!Rise, I2c!AcceptAW,
     I2c!AcceptW, I2c!Respond, I2c!AcceptAR, I2c!ReadData, I2c!ClearStatus, I2c!busVars
<1> QED BY <1>1, <1>2

\* A step keeps memory free of everything but bytes of packets, each at its place.
LEMMA I2cOnlyPacketBytes ==
  ASSUME I2cRegisters, I2c!InStep, I2c!OnItsWay, I2c!OnlyPacketBytes, I2c!Next
  PROVE  I2c!OnlyPacketBytes'
<1> SUFFICES ASSUME prompt, ~m'.reads, NEW o \in I2c!Offsets, i2c_mem'[o] # I2c!Untouched
             PROVE  \E p \in 1 .. MaxPackets : i2c_mem'[o] = I2c!Id(p, o + 1)
  BY PromptKept DEF I2c!OnlyPacketBytes, I2c!Id, I2c!Offsets, I2c!Untouched
<1>1. ~m.reads
  BY MasterSteps, AxiLeaves DEF I2c!Next, I2c!Bus
<1>2. CASE i2c_mem'[o] = i2c_mem[o]
  BY <1>1, <1>2 DEF I2c!OnlyPacketBytes
<1>3. CASE i2c_mem'[o] # i2c_mem[o]
  <2>1. I2c!Respond
    BY <1>3, MemoryWrites
  <2>2. m.kind = "write"
    BY <1>1, <2>1, MasterPlain DEF I2c!Respond, I2c!OnItsWay, I2c!InStep
  <2>3. i2c_mem'[o] = I2c!Id(m.packet, o + 1)
    BY <1>3, <2>1, <2>2, Answered
  <2>4. m.packet \in 1 .. MaxPackets
    BY <2>2, I2cConstants DEF I2c!InStep, I2cRegisters, Masters
  <2> QED BY <2>3, <2>4
<1> QED BY <1>2, <1>3

\* A step keeps the packet in memory, up to the word on its way.
LEMMA I2cInMemory ==
  ASSUME I2cRegisters, I2c!InStep, I2c!Addressed, I2c!Assembled, I2c!OnItsWay, I2c!InMemory,
         I2c!Next, MinBytes > 0
  PROVE  I2c!InMemory'
<1>0. /\ last.packet \in Nat /\ last.len \in Nat /\ m.packet \in Nat /\ address_w \in Nat
      /\ strb \in 1 .. 4 /\ last.packet <= m.packet /\ (m.line # "idle" => last.packet < m.packet)
  BY MasterPlain, I2cConstants DEF I2cRegisters, I2c!InMemory
<1>1. last'.packet <= m'.packet /\ (m'.line # "idle" => last'.packet < m'.packet)
  <2>1. CASE I2c!Start \/ I2c!Fall \/ I2c!Rise
    <3>1. UNCHANGED last
      BY <2>1 DEF I2c!Start, I2c!Fall, I2c!Rise
    <3> QED BY <1>0, <2>1, <3>1, MasterSteps
  <2>2. CASE I2c!Stop
    <3>1. last' = last \/ last'.packet = m.packet
      BY <2>2 DEF I2c!Stop
    <3> QED BY <1>0, <2>2, <3>1, MasterSteps
  <2>3. CASE I2c!Axi \/ I2c!ClearStatus
    BY <1>0, <2>3, AxiLeaves
  <2> QED BY <2>1, <2>2, <2>3 DEF I2c!Next, I2c!Bus
<1>2. ASSUME prompt, m'.kind = "write", m'.line # "idle"
      PROVE  \A x \in 1 .. I2c!Kept' : i2c_mem'[x - 1] = I2c!Id(m'.packet, x)
  <2>1. CASE I2c!Start
    <3>1. I2c!Kept' = 0
      BY <1>2, <2>1 DEF I2c!Start, I2c!Ready, I2c!axiVars, I2c!Kept
    <3> QED BY <3>1
  <2>2. CASE \/ I2c!Fall \/ I2c!AcceptAW \/ I2c!AcceptW \/ I2c!AcceptAR \/ I2c!ReadData
             \/ I2c!ClearStatus
    <3>1. /\ UNCHANGED <<i2c_mem, address_w>> /\ (AW_CS' = "IDLE" <=> AW_CS = "IDLE")
          /\ m'.packet = m.packet /\ m.kind = "write" /\ m.line # "idle"
      <4>1. CASE I2c!Fall
        BY <1>2, <4>1, MasterSteps DEF I2c!Fall, I2c!wordVars
      <4>2. CASE \/ I2c!AcceptAW \/ I2c!AcceptW \/ I2c!AcceptAR \/ I2c!ReadData \/ I2c!ClearStatus
        BY <1>2, <4>2 DEF I2c!AcceptAW, I2c!AcceptW, I2c!AcceptAR, I2c!ReadData, I2c!ClearStatus,
             I2c!busVars, I2c!wordVars, I2c!axiVars
      <4> QED BY <2>2, <4>1, <4>2
    <3>2. I2c!Kept' = I2c!Kept
      BY <3>1 DEF I2c!Kept
    <3> QED BY <1>2, <3>1, <3>2 DEF I2c!InMemory
  <2>3. CASE I2c!Rise
    <3>1. /\ m'.packet = m.packet /\ m.kind = "write" /\ m.line = "low"
          /\ UNCHANGED i2c_mem /\ AW_CS = "IDLE"
          /\ IF AW_CS' = "IDLE" THEN UNCHANGED address_w ELSE address_w' = address_w + 4
      BY <1>2, <2>3, MasterSteps, RiseSends DEF I2c!Rise
    <3>2. I2c!Kept' = address_w /\ I2c!Kept = address_w
      BY <1>0, <3>1 DEF I2c!Kept
    <3> QED BY <1>2, <3>1, <3>2 DEF I2c!InMemory
  <2>4. CASE I2c!Respond
    <3>1. m' = m /\ address_w' = address_w /\ AW_CS' = "IDLE" /\ AW_CS = "AXIRESP"
      BY <2>4 DEF I2c!Respond, I2c!busVars, I2c!wordVars
    <3>2. I2c!Kept' = address_w /\ I2c!Kept = address_w - 4
      BY <3>1 DEF I2c!Kept
    <3>3. /\ address_w >= 4 /\ strb = 4
          /\ \A x \in 1 .. address_w - 4 : i2c_mem'[x - 1] = i2c_mem[x - 1]
          /\ \A x \in address_w - 3 .. address_w : i2c_mem'[x - 1] = I2c!Id(m.packet, x)
      <4>1. /\ address_w >= 4 /\ strb = 4
            /\ \A x \in 1 .. address_w - 4 : i2c_mem'[x - 1] = i2c_mem[x - 1]
            /\ \A x \in address_w - 3 .. address_w - 4 + strb :
                 i2c_mem'[x - 1] = I2c!Id(m.packet, x)
        BY <1>2, <2>4, <3>1, Answered
      <4>2. address_w - 4 + strb = address_w
        BY <1>0, <4>1
      <4> QED BY <4>1, <4>2
    <3>4. \A x \in 1 .. address_w - 4 : i2c_mem[x - 1] = I2c!Id(m.packet, x)
      BY <1>2, <3>1, <3>2 DEF I2c!InMemory
    <3>5. \A x \in 1 .. address_w : x \in 1 .. address_w - 4 \/ x \in address_w - 3 .. address_w
      BY <1>0
    <3> QED BY <3>1, <3>2, <3>3, <3>4, <3>5
  <2>5. CASE I2c!Stop
    BY <1>2, <2>5, MasterSteps
  <2> QED BY <2>1, <2>2, <2>3, <2>4, <2>5 DEF I2c!Next, I2c!Bus, I2c!Axi
<1>3. ASSUME prompt, m'.line = "idle", m'.packet = last'.packet
      PROVE  IF AW_CS' = "IDLE"
             THEN \A x \in 1 .. last'.len : i2c_mem'[x - 1] = I2c!Id(m'.packet, x)
             ELSE /\ m'.kind = "write" /\ WR_TRANSF' = "TRANSF_RESP"
                  /\ last'.len <= address_w' - 4 + strb'
                  /\ \A x \in 1 .. address_w' - 4 : i2c_mem'[x - 1] = I2c!Id(m'.packet, x)
  <2>1. CASE I2c!Start \/ I2c!Fall \/ I2c!Rise
    BY <1>3, <2>1, MasterSteps
  <2>2. CASE I2c!Stop
    <3>1. m'.packet = m.packet /\ m'.kind = m.kind /\ m.line = "high" /\ UNCHANGED i2c_mem
      BY <2>2, MasterSteps DEF I2c!Stop
    <3>2. m.kind = "write" /\ last' = [packet |-> m.packet, len |-> m.bytes - 1]
      BY <1>0, <1>3, <2>2, <3>1 DEF I2c!Stop
    <3>3. /\ AW_CS = "IDLE" /\ AW_CS' = "AXIDATA" /\ WR_TRANSF' = "TRANSF_RESP"
          /\ address_w' = address_w + 4 /\ m.bytes - 1 <= address_w + strb'
      BY <1>3, <2>2, <3>2, StopSends
    <3>4. \A x \in 1 .. address_w : i2c_mem[x - 1] = I2c!Id(m.packet, x)
      <4>1. I2c!Kept = address_w
        BY <3>3 DEF I2c!Kept
      <4> QED BY <1>3, <3>1, <3>2, <4>1 DEF I2c!InMemory
    <3>5. address_w' - 4 = address_w /\ last'.len = m.bytes - 1
      BY <1>0, <3>2, <3>3
    <3> QED BY <3>1, <3>2, <3>3, <3>4, <3>5
  <2>3. CASE \/ I2c!AcceptAW \/ I2c!AcceptW \/ I2c!AcceptAR \/ I2c!ReadData \/ I2c!ClearStatus
    <3>1. /\ UNCHANGED <<m, last, i2c_mem, address_w, strb, WR_TRANSF>>
          /\ (AW_CS' = "IDLE" <=> AW_CS = "IDLE")
      BY <2>3 DEF I2c!AcceptAW, I2c!AcceptW, I2c!AcceptAR, I2c!ReadData, I2c!ClearStatus,
           I2c!busVars, I2c!wordVars, I2c!axiVars, I2c!irqVars
    <3> QED BY <1>3, <3>1 DEF I2c!InMemory
  <2>4. CASE I2c!Respond
    <3>1. UNCHANGED <<m, last, address_w, strb>> /\ AW_CS' = "IDLE" /\ AW_CS = "AXIRESP"
      BY <2>4 DEF I2c!Respond, I2c!busVars, I2c!wordVars
    <3>2. /\ m.kind = "write" /\ last.len <= address_w - 4 + strb
          /\ \A x \in 1 .. address_w - 4 : i2c_mem[x - 1] = I2c!Id(m.packet, x)
      BY <1>3, <3>1 DEF I2c!InMemory
    <3>3. /\ \A x \in 1 .. address_w - 4 : i2c_mem'[x - 1] = i2c_mem[x - 1]
          /\ \A x \in address_w - 3 .. address_w - 4 + strb : i2c_mem'[x - 1] = I2c!Id(m.packet, x)
      BY <1>3, <2>4, <3>2, Answered
    <3>4. \A x \in 1 .. last.len : \/ x \in 1 .. address_w - 4
                                   \/ x \in address_w - 3 .. address_w - 4 + strb
      BY <1>0, <3>2
    <3> QED BY <3>1, <3>2, <3>3, <3>4
  <2> QED BY <2>1, <2>2, <2>3, <2>4 DEF I2c!Next, I2c!Bus, I2c!Axi
<1> QED BY <1>1, <1>2, <1>3, PromptKept DEF I2c!InMemory, I2c!Id

\* The invariant of the I2C port holds after reset.
LEMMA I2cInitOK ==
  ASSUME I2c!Init
  PROVE  I2c!IInv
<1> USE I2cConstants DEF I2c!Init
<1>1. I2cRegisters
  <2>1. m \in Masters /\ last \in [packet : 0 .. MaxPackets, len : 0 .. MaxBytes]
    BY DEF Masters
  <2>2. /\ CurSt \in I2c!States /\ count \in 1 .. W /\ address_w \in 0 .. WINDOW - 1
        /\ i2c_aw \in -4 .. WINDOW - 5
    BY DEF I2c!States
  <2>3. \A l \in I2c!Lanes : /\ reg32[l] \in I2c!ByteIds /\ reg32copy[l] \in I2c!ByteIds
                              /\ wd.data[l] \in I2c!ByteIds
    <3>1. reg32 = I2c!NoWord /\ reg32copy = I2c!NoWord /\ wd.data = I2c!NoWord
      OBVIOUS
    <3>2. \A l \in I2c!Lanes : I2c!NoWord[l] \in I2c!ByteIds
      BY DEF I2c!NoWord, I2c!ByteIds
    <3> QED BY <3>1, <3>2
  <2>4. \A o \in I2c!Offsets : i2c_mem[o] \in I2c!ByteIds \union {I2c!Untouched}
    OBVIOUS
  <2>5. /\ prompt \in BOOLEAN /\ W_phase \in BOOLEAN /\ R_phase \in BOOLEAN /\ i2cBUSY \in BOOLEAN
        /\ i2c_awDone \in BOOLEAN /\ i2c_wDone \in BOOLEAN /\ status \in BOOLEAN
    OBVIOUS
  <2>6. /\ q \in 0 .. 3 /\ strb \in 1 .. 4 /\ sent \in 0 .. W /\ wd.strb \in 1 .. 4
        /\ AW_CS \in {"IDLE", "AXIDATA", "AXIRESP"} /\ AR_CS \in {"IDLE", "AXIADDR", "AXIRESP"}
        /\ WR_TRANSF \in {"TRANSF_IDLE", "TRANSF_RESP"}
    OBVIOUS
  <2> HIDE DEF I2c!Init
  <2> QED BY <2>1, <2>2, <2>3, <2>4, <2>5, <2>6 DEF I2cRegisters
<1>2. I2c!InStep
  BY DEF I2c!InStep
<1>3. I2c!Addressed
  BY DEF I2c!Addressed
<1>4. I2c!Assembled
  BY DEF I2c!Assembled
<1>5. I2c!OnItsWay /\ I2c!OnlyPacketBytes
  BY DEF I2c!OnItsWay, I2c!OnlyPacketBytes
<1>6. I2c!InMemory
  BY DEF I2c!InMemory
<1> QED BY <1>1, <1>2, <1>3, <1>4, <1>5, <1>6, I2cPlain DEF I2c!IInv

\* Every step of the port keeps it.
LEMMA I2cStepOK ==
  ASSUME I2c!IInv, I2c!Next
  PROVE  I2c!IInv'
<1>1. I2cRegisters /\ I2c!InStep /\ I2c!Addressed
  BY I2cPlain DEF I2c!IInv
<1>2. I2c!TypeOK'
  BY <1>1, I2cTyped, I2cPlain
<1>3. I2c!InStep' /\ I2c!Addressed'
  BY <1>1, I2cInStep, I2cAddressed
<1>4. ASSUME ~BigEndian, MinBytes > 0
      PROVE  I2c!Assembled' /\ I2c!OnItsWay' /\ I2c!InMemory' /\ I2c!OnlyPacketBytes'
  <2>1. I2c!Assembled /\ I2c!OnItsWay /\ I2c!InMemory /\ I2c!OnlyPacketBytes
    BY <1>4 DEF I2c!IInv
  <2> QED BY <1>1, <1>4, <2>1, I2cAssembled, I2cOnItsWay, I2cInMemory, I2cOnlyPacketBytes
<1> QED BY <1>2, <1>3, <1>4 DEF I2c!IInv

\* While nothing happens, and while the other port is used, it holds on.
LEMMA I2cUnmoved ==
  ASSUME I2c!IInv, UNCHANGED <<prompt, i2cVars>>
  PROVE  I2c!IInv'
<1> USE DEF i2cVars
<1>1. I2c!TypeOK'
  BY DEF I2c!IInv, I2c!TypeOK, I2c!ByteIds, I2c!Lanes, I2c!Offsets
<1>2. I2c!InStep' /\ I2c!Addressed'
  BY DEF I2c!IInv, I2c!InStep, I2c!Addressed, I2c!AckState
<1>3. ASSUME ~BigEndian, MinBytes > 0
      PROVE  I2c!Assembled' /\ I2c!OnItsWay' /\ I2c!InMemory' /\ I2c!OnlyPacketBytes'
  <2>1. I2c!Assembled /\ I2c!OnItsWay /\ I2c!InMemory /\ I2c!OnlyPacketBytes
    BY <1>3 DEF I2c!IInv
  <2>2. I2c!Assembled'
    BY <2>1 DEF I2c!Assembled, I2c!Received, I2c!Id, I2c!Lanes
  <2>3. I2c!OnItsWay'
    BY <2>1 DEF I2c!OnItsWay, I2c!Id
  <2>4. I2c!InMemory' /\ I2c!OnlyPacketBytes'
    BY <2>1 DEF I2c!InMemory, I2c!Kept, I2c!OnlyPacketBytes, I2c!Id, I2c!Offsets
  <2> QED BY <2>2, <2>3, <2>4
<1> QED BY <1>1, <1>2, <1>3 DEF I2c!IInv

\* The invariant is strong enough for what the master relies on.
LEMMA I2cSafe ==
  ASSUME I2c!IInv
  PROVE  /\ I2c!AckExactlyWhenAddressed /\ I2c!EveryByteAcknowledged
         /\ ~BigEndian /\ MinBytes > 0 => I2c!PacketInMemory /\ I2c!OnlyPacketBytes
<1>1. I2cRegisters /\ I2c!InStep /\ I2c!Addressed
  BY I2cPlain DEF I2c!IInv
<1>2. I2c!AckExactlyWhenAddressed
  BY <1>1, MasterPlain DEF I2c!AckExactlyWhenAddressed, I2c!Addressed, I2c!AckState, I2c!Acks
<1>3. I2c!EveryByteAcknowledged
  BY <1>1, MasterPlain DEF I2c!EveryByteAcknowledged, I2c!Addressed, I2c!AckState, I2c!Acks
<1>4. ASSUME ~BigEndian, MinBytes > 0
      PROVE  I2c!PacketInMemory /\ I2c!OnlyPacketBytes
  <2>1. I2c!InMemory /\ I2c!OnlyPacketBytes
    BY <1>4 DEF I2c!IInv
  <2>2. I2c!PacketInMemory
    BY <2>1 DEF I2c!InMemory, I2c!PacketInMemory
  <2> QED BY <2>1, <2>2
<1> QED BY <1>2, <1>3, <1>4

(***************************************************************************)
(* Both ports side by side.                                                *)
(***************************************************************************)

\* A step of the system is a step of the SPI port, or leaves it alone.
LEMMA SpiSteps ==
  ASSUME [Next]_<<port, prompt, i2cVars, spiVars>>
  PROVE  Spi!Next \/ UNCHANGED <<prompt, spiVars>>
<1>1. CASE Next
  BY <1>1, PromptKept DEF Next
<1>2. CASE UNCHANGED <<port, prompt, i2cVars, spiVars>>
  BY <1>2
<1> QED BY <1>1, <1>2

\* The invariant of the SPI port holds in every state.
LEMMA SpiInvariant == Spec => []Spi!IInv
<1>1. Init => Spi!IInv
  BY SpiInitOK DEF Init
<1>2. Spi!IInv /\ [Next]_<<port, prompt, i2cVars, spiVars>> => Spi!IInv'
  BY SpiSteps, SpiStepOK, SpiUnmoved
<1> QED BY <1>1, <1>2, PTL DEF Spec

\* While AXI keeps up with SCLK, all that the master wrote in a burst is in memory from
\* the address it sent, in order, once the queues between the state machines are empty:
\* for bursts longer than the FIFO, whatever a burst before them left behind.
THEOREM BurstsArrive == Spec => []WordsInPlace
<1>1. Spi!IInv => WordsInPlace
  BY SpiSafe DEF WordsInPlace
<1> QED BY SpiInvariant, <1>1, PTL

\* While AXI keeps up with SCLK, the words the master reads are those from the address it
\* sent on: no word of an earlier read is left in the FIFO, and none is skipped.
THEOREM ReadsArrive == Spec => []ReadsInPlace
<1>1. Spi!IInv => ReadsInPlace
  BY SpiSafe DEF ReadsInPlace
<1> QED BY SpiInvariant, <1>1, PTL

\* The slave, which reads ahead of the master, never reads memory past the wrap length.
THEOREM WrapIsRespected == Spec => []NoReadPastWrap
<1>1. Spi!IInv => NoReadPastWrap
  BY SpiSafe DEF NoReadPastWrap
<1> QED BY SpiInvariant, <1>1, PTL

\* However late AXI is, each response is for a word sent after the one before it: words
\* are written in the order sent and none twice.
THEOREM NoneTwice == Spec => WrittenInOrder
<1>1. ASSUME Spi!IInv, [Next]_<<port, prompt, i2cVars, spiVars>>
      PROVE  aw_q = "AxiResp" /\ aw_q' = "Idle" => written' > written
  <2>1. CASE Spi!Next
    BY <1>1, <2>1, RespondsInOrder
  <2>2. CASE UNCHANGED <<prompt, spiVars>>
    BY <2>2 DEF spiVars
  <2> QED BY <1>1, <2>1, <2>2, SpiSteps
<1>2. Spi!IInv /\ [Next]_<<port, prompt, i2cVars, spiVars>>
        => [aw_q = "AxiResp" /\ aw_q' = "Idle" => written' > written]_Spi!vars
  BY <1>1
<1> QED BY SpiInvariant, <1>2, PTL DEF Spec, WrittenInOrder, Spi!WrittenInOrder

\* A step of the system is a step of the I2C port, or leaves it alone.
LEMMA I2cSteps ==
  ASSUME [Next]_<<port, prompt, i2cVars, spiVars>>
  PROVE  I2c!Next \/ UNCHANGED <<prompt, i2cVars>>
<1>1. CASE Next
  BY <1>1, PromptKept DEF Next
<1>2. CASE UNCHANGED <<port, prompt, i2cVars, spiVars>>
  BY <1>2
<1> QED BY <1>1, <1>2

\* The invariant of the I2C port holds in every state.
LEMMA I2cInvariant == Spec => []I2c!IInv
<1>1. Init => I2c!IInv
  BY I2cInitOK DEF Init
<1>2. I2c!IInv /\ [Next]_<<port, prompt, i2cVars, spiVars>> => I2c!IInv'
  BY I2cSteps, I2cStepOK, I2cUnmoved
<1> QED BY <1>1, <1>2, PTL DEF Spec

\* The registers of both ports stay in their ranges, and what is in flight between the state
\* machines is always a byte of a packet, a word of a burst, or cleared.
THEOREM SerialTyped == Spec => []SerialTypeOK
<1>1. I2c!IInv /\ Spi!IInv => SerialTypeOK
  BY DEF SerialTypeOK, I2c!IInv, Spi!IInv
<1> QED BY I2cInvariant, SpiInvariant, <1>1, PTL

\* While AXI keeps up with SCL, the slave pulls SDA low in the acknowledge slots of what is
\* addressed to it and in no other, whatever the transaction before was and wherever it was
\* cut short by a STOP.
THEOREM BytesAcknowledged == Spec => []AcknowledgedExactly
<1>1. I2c!IInv => AcknowledgedExactly
  BY I2cSafe DEF AcknowledgedExactly
<1> QED BY I2cInvariant, <1>1, PTL

\* While AXI keeps up with SCL, a packet is in memory, whole, in order and from the base
\* address, when its interrupt is given, and memory holds nothing but bytes of packets at
\* their places: for packets of every length up to what the address can count, if the slave
\* fills words from the low lane and no packet is empty.
THEOREM PacketsArrive ==
  ASSUME ~BigEndian, MinBytes > 0
  PROVE  Spec => []MemoryAsSent
<1>1. I2c!IInv => MemoryAsSent
  BY I2cSafe DEF MemoryAsSent
<1> QED BY I2cInvariant, <1>1, PTL
=============================================================================
