------------------------------ MODULE MCSerial ------------------------------
(***************************************************************************)
(* The two serial ports by which a board's controller reaches the SoC, for *)
(* model checking.  A board wires one of them: port says which, and the    *)
(* other stays as reset leaves it.  Both are asked the same: with an AXI   *)
(* side that keeps up with the serial clock (prompt), does the data arrive *)
(* whole; and without that, what remains.                                  *)
(***************************************************************************)
CONSTANTS Prompts,
          W, WINDOW, BigEndian, Kinds, MinBytes, MaxBytes, MaxPackets,     \* I2cSlave
          CmdLen, AddrLen, DummyLen, Depth, AddrMod, CountMod, Commands,   \* SpiSlave
          SlowCommands, Bases, WrapLengths, MaxWords, MaxBursts, SlowBursts, SlowWords

VARIABLES port, prompt,
  m, last, CurSt, count, W_phase, R_phase, i2cBUSY, q, reg32, reg32copy, strb, address_w,
  sent, AW_CS, AR_CS, i2c_awDone, i2c_wDone, i2c_aw, wd, WR_TRANSF, status, i2c_mem,
  cs, state, cmd_reg, n, addr_reg, wrap_length, rxfifo, txfifo, addr_valid, curr_addr,
  curr_data_rx, tx_counter, aw_q, awDone, wDone, aw, ar_q, ar, mem, burst, words, base,
  got, written

I2c == INSTANCE I2cSlave WITH awDone <- i2c_awDone, wDone <- i2c_wDone, aw <- i2c_aw,
                              mem <- i2c_mem
Spi == INSTANCE SpiSlave

\* The registers of each port.
i2cVars == <<m, last, CurSt, count, W_phase, R_phase, i2cBUSY, q, reg32, reg32copy, strb,
             address_w, sent, AW_CS, AR_CS, i2c_awDone, i2c_wDone, i2c_aw, wd, WR_TRANSF,
             status, i2c_mem>>
spiVars == <<cs, state, cmd_reg, n, addr_reg, wrap_length, rxfifo, txfifo, addr_valid,
             curr_addr, curr_data_rx, tx_counter, aw_q, awDone, wDone, aw, ar_q, ar, mem,
             burst, words, base, got, written>>

ASSUME SerialAssumption == I2c!I2cAssumption /\ Spi!SpiAssumption

Init == port \in {"i2c", "spi"} /\ I2c!Init /\ Spi!Init
Next == \/ port = "i2c" /\ I2c!Next /\ UNCHANGED <<port, spiVars>>
        \/ port = "spi" /\ Spi!Next /\ UNCHANGED <<port, i2cVars>>
Spec == Init /\ [][Next]_<<port, prompt, i2cVars, spiVars>> /\ I2c!Fairness /\ Spi!Fairness

\* The properties of the ports, stated in their modules.
SerialTypeOK        == I2c!TypeOK /\ Spi!TypeOK
MemoryAsSent        == I2c!PacketInMemory /\ I2c!OnlyPacketBytes
AcknowledgedExactly == I2c!AckExactlyWhenAddressed /\ I2c!EveryByteAcknowledged
StopSignalled       == I2c!StopSignalled
WordsInPlace        == Spi!WordsInPlace
ReadsInPlace        == Spi!ReadsInPlace
NoReadPastWrap      == Spi!NoReadPastWrap
WrittenInOrder      == Spi!WrittenInOrder
FifoDrains          == Spi!FifoDrains
=============================================================================
