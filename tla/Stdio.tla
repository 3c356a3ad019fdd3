--------------------------------- MODULE Stdio ---------------------------------
(***************************************************************************)
(* Printing over the UART (sw/pulp-runtime/lib/libc/minimal/io.c and       *)
(* drivers/uart.c), by several cores at once.  printf takes io_lock, a     *)
(* word in L1 whose read through the test-and-set alias also sets it; puts *)
(* does not.  Every character goes through one buffer of one byte, which   *)
(* the uDMA reads some time after uart_write has enqueued it.              *)
(*                                                                         *)
(* The uDMA channel and the transmitter are external: up to two transfers  *)
(* are accepted, each fetches the buffer's byte at its time, and fetched   *)
(* bytes are sent one by one, in order.                                    *)
(***************************************************************************)
EXTENDS Naturals, Sequences

CONSTANTS Printers,      \* the fabric controller and the PEs that print
          LineLen,    \* characters of a line
          Lines,      \* bound: lines each core prints
          MayPuts     \* the cores that may print with puts

StdioAssumption == LineLen \in Nat \ {0} /\ Lines \in Nat /\ MayPuts \subseteq Printers

VARIABLES
  how,          \* constant in a behaviour
  at, line, k,  \* of each core: where it is, its line, its character
  io_lock,
  buffer,       \* pos_io_uart_buffer
  queued,       \* transfers of the channel that have not fetched their byte
  stream,       \* all bytes fetched
  started,      \* how many of them the transmitter has taken
  tx_busy       \* whether it still sends the last of those

uart == <<queued, stream, started, tx_busy>>
stdioVars == <<how, at, line, k, io_lock, buffer, uart>>

NoByte == <<>>
Chars == [core : Printers, line : 1 .. Lines, k : 1 .. LineLen]
Char(c) == [core |-> c, line |-> line[c], k |-> k[c]]

At(c, from, to) == at[c] = from /\ at' = [at EXCEPT ![c] = to]
-----------------------------------------------------------------------------
(* A line: the lock, its characters, the lock.                             *)

Begin(c) ==
  /\ line[c] < Lines
  /\ At(c, "idle", IF how[c] = "printf" THEN "lock" ELSE "putc")
  /\ line' = [line EXCEPT ![c] = @ + 1] /\ k' = [k EXCEPT ![c] = 1]
  /\ UNCHANGED <<how, io_lock, buffer, uart>>

\* Mutant: the lock is read, and set by a later write.
uart_io_lock_Read(c) ==
  \/ /\ At(c, "lock", "set") /\ ~io_lock /\ UNCHANGED <<how, line, k, io_lock, buffer, uart>>
  \/ /\ At(c, "set", "putc") /\ io_lock' = TRUE /\ UNCHANGED <<how, line, k, buffer, uart>>

\* while (tas_lock_32(&io_lock) == -1): the read that finds it free takes it.
uart_io_lock(c) ==
  /\ At(c, "lock", "putc")
  /\ ~io_lock /\ io_lock' = TRUE
  /\ UNCHANGED <<how, line, k, buffer, uart>>

\* pos_libc_putc_uart: the byte into the buffer, then uart_write enqueues it.
Putc(c) ==
  /\ At(c, "putc", "enqueue")
  /\ buffer' = Char(c)
  /\ UNCHANGED <<how, line, k, io_lock, uart>>

\* Nobody asks whether the channel has room: with two transfers in it, the write to
\* its registers is lost.
Enqueue(c) ==
  /\ At(c, "enqueue", "udma")
  /\ queued' = IF queued < 2 THEN queued + 1 ELSE queued
  /\ UNCHANGED <<how, line, k, io_lock, buffer, stream, started, tx_busy>>

\* uart_wait_tx_done: the channel has nothing left, then the transmitter.
UdmaDone(c) ==
  /\ At(c, "udma", "tx") /\ queued = 0
  /\ UNCHANGED <<how, line, k, io_lock, buffer, uart>>

TxDone(c) ==
  /\ ~tx_busy
  /\ IF k[c] < LineLen THEN At(c, "tx", "putc") /\ k' = [k EXCEPT ![c] = @ + 1]
     ELSE At(c, "tx", IF how[c] = "printf" THEN "unlock" ELSE "idle") /\ UNCHANGED k
  /\ UNCHANGED <<how, line, io_lock, buffer, uart>>

\* Mutant: an error return leaves the lock taken.
uart_io_unlock_Forgotten(c) ==
  /\ At(c, "unlock", "idle")
  /\ UNCHANGED <<how, line, k, io_lock, buffer, uart>>

uart_io_unlock(c) ==
  /\ At(c, "unlock", "idle")
  /\ io_lock' = FALSE
  /\ UNCHANGED <<how, line, k, buffer, uart>>

Core(c) == Begin(c) \/ uart_io_lock(c) \/ Putc(c) \/ Enqueue(c) \/ UdmaDone(c) \/ TxDone(c)
             \/ uart_io_unlock(c)
-----------------------------------------------------------------------------
(* The hardware.                                                           *)

Fetch ==
  /\ queued > 0
  /\ queued' = queued - 1 /\ stream' = Append(stream, buffer)
  /\ UNCHANGED <<how, at, line, k, io_lock, buffer, started, tx_busy>>

StartTx ==
  /\ started < Len(stream) /\ ~tx_busy
  /\ started' = started + 1 /\ tx_busy' = TRUE
  /\ UNCHANGED <<how, at, line, k, io_lock, buffer, queued, stream>>

EndTx ==
  /\ tx_busy /\ tx_busy' = FALSE
  /\ UNCHANGED <<how, at, line, k, io_lock, buffer, queued, stream, started>>

Hardware == Fetch \/ StartTx \/ EndTx
-----------------------------------------------------------------------------
StdioInit ==
  /\ how \in [Printers -> {"printf", "puts"}]
  /\ \A c \in Printers \ MayPuts : how[c] = "printf"
  /\ at = [c \in Printers |-> "idle"]
  /\ line = [c \in Printers |-> 0] /\ k = [c \in Printers |-> 1]
  /\ io_lock = FALSE /\ buffer = NoByte
  /\ queued = 0 /\ stream = <<>> /\ started = 0 /\ tx_busy = FALSE

StdioNext == (\E c \in Printers : Core(c)) \/ Hardware

(* The cores and the UART run; each core's loop for the lock is a busy wait.*)
StdioFairness == (\A c \in Printers : WF_stdioVars(Core(c))) /\ WF_stdioVars(Hardware)
StdioSpec == StdioInit /\ [][StdioNext]_stdioVars /\ StdioFairness
-----------------------------------------------------------------------------
(* Where all print with printf.                                             *)
Locked == \A c \in Printers : how[c] = "printf"

(* Lines come out whole: each character the uDMA has fetched is followed by *)
(* the next one of its line, and a line's last one by a line's first; so no *)
(* byte is overwritten before the uDMA has fetched it either.               *)
Follows(a, b) == IF a.k < LineLen THEN b = [a EXCEPT !.k = @ + 1] ELSE b.k = 1

LinesWhole ==
  Locked => /\ stream # <<>> => stream[1].k = 1
            /\ \A i \in 1 .. Len(stream) - 1 : Follows(stream[i], stream[i + 1])

(* Once one prints, every core gets to print its lines, whoever holds the   *)
(* lock and whoever does without it, and all of their characters get out.   *)
EveryLinePrinted ==
  (\E c \in Printers : line[c] > 0) ~>
    (/\ \A c \in Printers : line[c] = Lines /\ at[c] = "idle"
     /\ ~tx_busy /\ started = Len(stream)
     /\ Locked => \A ch \in Chars : \E i \in 1 .. Len(stream) : stream[i] = ch)

-----------------------------------------------------------------------------
(* The inductive invariant behind LinesWhole: who holds the lock, and what  *)
(* the uDMA has fetched of the line the holder prints.                      *)
Section == {"putc", "enqueue", "udma", "tx", "unlock"}
Printing(c) == at[c] \in Section
Fetched(c) == at[c] \in {"tx", "unlock"} \/ (at[c] = "udma" /\ queued = 0)

Bytes == [core : Printers, line : Nat, k : 1 .. LineLen]

StdioTypes ==
  /\ how \in [Printers -> {"printf", "puts"}]
  /\ at \in [Printers -> {"idle", "lock"} \union Section]
  /\ line \in [Printers -> Nat] /\ k \in [Printers -> 1 .. LineLen]
  /\ queued \in Nat /\ io_lock \in BOOLEAN
  /\ stream \in Seq(Bytes)
  /\ queued > 0 \/ (\E c \in Printers : at[c] = "enqueue") => buffer \in Bytes

OneHolder ==
  /\ \A c \in Printers : Printing(c) => io_lock
  /\ \A c, d \in Printers : Printing(c) /\ Printing(d) => c = d
  /\ io_lock => \E c \in Printers : Printing(c)

(* Byte b may come next.                                                    *)
Fits(b) == IF stream = <<>> THEN b.k = 1 ELSE Follows(stream[Len(stream)], b)

Progress ==
  /\ queued > 0 => queued = 1 /\ \E c \in Printers : at[c] = "udma"
  /\ \A c \in Printers :
       /\ at[c] = "lock" => k[c] = 1
       /\ at[c] = "unlock" => k[c] = LineLen
       /\ at[c] \in {"enqueue", "udma"} => buffer = Char(c)
       /\ Printing(c) /\ ~Fetched(c) => Fits(Char(c))
       /\ Printing(c) /\ Fetched(c) => stream # <<>> /\ stream[Len(stream)] = Char(c)
  /\ ~io_lock => stream = <<>> \/ stream[Len(stream)].k = LineLen

StdioInv == StdioTypes /\ (Locked => OneHolder /\ Progress /\ LinesWhole)
=============================================================================
