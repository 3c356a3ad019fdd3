# TLA+ verification of control-pulp

ControlPULP is a RISC-V power controller: a single-core manager domain (the fabric
controller, FC) with an eight-core cluster that computes the control law, peripherals
in front of it, and firmware. This directory holds TLA+ models of the parts of the
repository in which the order of steps matters, TLC configurations that check them on
small instances, and TLAPS proofs that hold for every instance.

Paths in this file are relative to the repository's root; module names are files here.

## 1. Inventory

What the repository holds, what each part keeps as state, what can be done to it, what
makes it hard and what makes it correct. The large subsystems (cores, interconnect,
PLIC, CLIC, cluster, uDMA, the product's control firmware `sw/pcf`, FreeRTOS) are
submodules whose contents are not in the repository.

| Component | State | Operations | Hard part | Correct when |
|---|---|---|---|---|
| Heap allocator, `sw/pulp-runtime/kernel/alloc.c` | head of the free list; headers in the free blocks | `pos_alloc_init`, `pos_alloc`, `pos_alloc_align`, `pos_free` | long histories of calls; an aligned allocation is an allocation and two frees | list sorted and coalesced, no byte shared or lost, a request refused only when it does not fit, calls return |
| Watchdog, `hw/ips/wdt` | counter, two latches of the overflow detector, configuration, initial value, alert | APB reads and writes, the clear pin, each clock edge | events of the same cycle; a detector that looks at values instead of wraps | one pulse per wrap and no other, the alert stays until seen |
| SCMI doorbell exchange, `tb/tb_scmi_doorbell_b2b.sv`, `tb/doorbell.sv`, `scmi-doorbell/ext-agent-b2b` | shared-memory areas, doorbell lines, PLIC registers, positions of agent, main and handler | clear, poll, write, set busy, ring; open, enable; claim, answer, free | three actors and two clocks, repeated rings, polled state used later | an area is touched only by its owner, messages are answered, once |
| Parallel control loop, `firmware-ctrl-action/cl_main.c`, and offload, `kernel/cluster.c` | per-PE partial sums, the totals, the FC's flag | offload and wait; four functions with loops, barriers and reductions | eight PEs with loops of different length and one barrier for all | PEs in step, each core handled once, reductions undisturbed, results complete when the FC goes on |
| SCMI mailbox, `hw/ips/axi_scmi_mailbox`, and its programs in `software/` | message registers, doorbell and completion bits, two interrupt controllers | ring, read, answer, complete, clear, start again | level interrupts, cleared before or after they are completed; two cores set up in any order | a ring is answered once, nothing of it is left for the next, the agent wakes |
| Concurrent doorbell exchange, `scmi-doorbell/ext-agent-concurrent`, `tb/tb_scmi_doorbell_conc.sv` | as the back-to-back exchange, edge-sensitive sources | start-up handshake, all rings at once | a pulse shorter than the doorbell needs; the handshake | every line rung is served once |
| I2C slave to AXI, `hw/ips/axi_apb_i2c_slave` | byte state machine, word assembler, AXI write, read and interrupt state machines | bytes in, words out, reads, interrupt | words arriving while a transfer is pending; which response raises the interrupt; packets of any length | a packet is in L2, whole and in its place, when its interrupt comes |
| SPI slave to AXI, `hw/ips/axi_spi_slave` | command machine, wrap registers, FIFOs across clocks, AXI machines | read, write, register access, CS at any time | two clock domains, one address register for both directions, reading ahead | bursts arrive whole at their address, no read is stale or goes past its wrap |
| AXI to memory, `hw/ips/axi2mem` (vendored) | burst counters | bursts of reads and writes | interleaved reads and writes | each beat once |
| Sequential control, `firmware-ctrl-action/soc_main.c`, `ctrl_math.c` | powers, temperatures, PID integrals, frequencies, hysteresis | one control period | saturation, anti-windup, hysteresis over many periods | frequencies within limits, emergency kept until cooled |
| Boot loader, `boot/boot_code.c`, and the tool that makes flash images, `sw/pulp-runtime/bin/plp_flash_stimuli.py` | table of areas, place of the loader, transfers and events | read the table, move, load blocks, jump | the loader runs from the memory it loads into; last words rounded up | the core jumps to the program that was sent |
| S-record loader, `boot/kk_srec.c` | character machine, data array | a character | lost characters; each byte stored as a word; records cut short | a whole file is loaded, a damaged one is complained of |
| FLL and frequency domains, `kernel/fll-v1.c`, `freq-domains.c` | recorded frequencies, on or off, multiplier, divider | set, start, stop | set while off; a rounded frequency set again | an FLL that is on runs at the frequency recorded |
| UART driver and printing, `drivers/uart.c`, `lib/libc/minimal/io.c` | the lock, a one-byte buffer, the uDMA's queue | `printf`, `puts` | several cores, one byte the uDMA reads later | lines come out whole, everybody gets to print |
| Other runtime code (`irq.c`, `soc_event.c`, `init.c`, `crt0.S`, `bench.c`, the rest of libc) | tables, registers | — | — | — |
| Top-level hardware `hw/pulp`, test benches, `fpga`, `boot/zforth` | — | structural, stimuli, scripts, third party | — | — |

How they interact. The FC starts the cluster (`cluster_start` takes the PEs' stacks from
the L1 heap, then fetches all PEs) and waits on a flag that PE 0 clears. External agents
write into memory that the FC's firmware reads, and ring doorbells that reach it through
the PLIC as interrupt 25; the mailbox does the same with registers. The I2C and SPI
slaves write into the same memory from outside. The watchdog's pulse is an interrupt and
its alert a pin.
Before any of this the boot ROM brings the program in, from flash or over the UART.
`cluster_start` sets the cluster's FLL again, and all cores print through one UART.

The hazards this code is exposed to, line by line, with the property that would catch
each, are in `PROJECT.json` under `hazards`; those without a property say why.

## 2. Plan

Modules in order of importance. All but the last two groups are done.

1. `PosAlloc` with the abstract `Heap`, proofs in `PosAlloc_proofs`.
2. `Wdt`, proofs in `Platform_proofs`.
3. `ScmiDoorbell` with the abstract `Channel`, proofs in `ScmiDoorbell_proofs`.
4. `ClusterControl`, proofs in `ClusterControl_proofs`.
5. `I2cSlave` and `SpiSlave`, composed in `MCSerial`, proofs in `Serial_proofs`.
6. `BootFlash` and `SrecLoader`, composed in `BootRom`, with the instances of `MCBoot`;
   proofs about the flash loader in `Boot_proofs`, about the S-record loader in
   `Srec_proofs`.
7. `Mailbox`, `Stdio` and `Fll`, composed in `MCPlatform`, proofs in `Platform_proofs`.
8. Not started: a second offload to the cluster, with the FLL's and the heap's part in it.
9. Not started: the numeric part of the control law over a small ordered domain.

`Arithmetic` holds the lemmas that do not speak of the program: division, powers of two,
and how a function is found that follows a rule from index to index.

No module that is proved about uses a RECURSIVE operator; constants carry their
assumptions; invariants are conjunctions of named parts so that a proof can treat them
one by one. The modules `MCPlatform` puts together state their assumption as a definition
(`MailboxAssumption`, ...), which `MCPlatform` assumes and the theorems of the module
assume by name; their variables, `Init` and `Next` have names of their own
(`MailboxInit`, `ControlInit`, ...), so that one module can extend them all.

## 3. The models

### Heap allocator: `PosAlloc`, `Heap`, `MCPosAlloc`

`hdr` maps the address of each free block to its `{size, next}`; `first_free` is the head
of the list. `owned` is what callers hold, with the size they asked for, which is what
they must give back. The two walks, `while (pt && pt->size < size)` and
`while (next && next < chunk)`, are one step per iteration (`AllocScan`, `FreeScan`); the
relinking that ends a call is one step (`AllocExact`, `AllocSplit`, `AllocFail`,
`FreeLink`). `pos_alloc_align` is modelled with the calls it makes: it enters the same
allocation, then `FreeHead` and `FreeTail` enter the same `pos_free`, and `want`, `head`
and `tail` hold what it keeps on its stack meanwhile. A heap has one caller at a time:
nothing in the code locks it, and no interrupt handler in the repository allocates.

The branch of `pos_alloc_align` for a header smaller than eight bytes is modelled but
cannot be taken: blocks and alignments of eight and more are multiples of eight.

`Heap` is the promise to callers: a set of bytes from which disjoint blocks are taken and
to which they are returned. The refinement mapping counts what a call still has in its
hands as free, so the steps of a walk and the frees inside `pos_alloc_align` are
stutters and the return of a block is the one visible step.

### Watchdog: `Wdt`

One step is one clock edge at which every register of `wdt.sv`, `counter_wdt.sv` and
`ovf_detect.sv` takes its next value (`Cycle`); the APB access and the clear pin of the
cycle are its inputs. The order of the assignments in the `always_ff` block (write, clear
by read or pin, set by the pulse; automatic reset of CLEAR, write) is the order in
`AlertReg` and `ConfigRegs`. `since` and `unseen` are history: how long ago the counter
wrapped, and whether a pulse waits to be seen. `Reset` may come at any time.

### SCMI doorbell exchange: `ScmiDoorbell`, `Channel`

Message `c` has an area, a doorbell and an interrupt source of its own, all numbered `c`.
The agent is the `always` process of the test bench, one memory access a step. Its
`irq_mask` is never cleared, so `RingDoorbell` triggers the doorbells of all messages so
far. Between `RingDoorbell` and `StopRinging` lies 1us, many cycles of the doorbell and
of the PLIC, which the guard of `StopRinging` says: each line it rang is up and latched
or being served. `Doorbell` is one clock edge of all doorbells (IDLE, RING and the
registered line); edges that change nothing are left out.

The firmware is one core. `main` runs only while no handler does; the handler is claimed
at the PLIC and completed there. The PLIC is external code, modelled as the firmware uses
it: level-sensitive sources, lowest source first, a register of enable bits written
whole. After the last channel main returns: `exit` is the end of `main`, whose
`pos_wait_forever` (`io.c:340`) masks every interrupt of the core, so nothing is claimed
after it. The agent may go on, or the bench stop the simulation. The areas are not
initialised, so every status may be 0 or 1 at the start.

The handler computes the address of its answer from a pointer before it assigns it, so
`base_protocol_response` lets the answer reach the payload or not. The contents of
answers, and what an answer may overwrite elsewhere, are not modelled; `assert` and
`info` compile to nothing.

`Channel` is the ownership protocol of `hw/ips/axi_scmi_mailbox/scmi.hjson:34`: who owns
the area, whether it holds a message, whether the message was answered.

### Parallel control loop: `ClusterControl`

Each PE has a place: the function it is in (`Phases`), the call (`iter`), the step of the
function (`Steps`) and the core its loop is at (`idx`). `Barrier` is the event unit's
hardware barrier, which releases all PEs when all wait, not knowing at which of the
program's `synch_barrier` each of them is. `cluster_start`, `cluster_wait` and `Stub` are
the offload; `stacks` says whether the L1 heap had room for the PEs' stacks, without which
`cluster_start` returns, `cluster_running` stays 0 and `cluster_wait` returns at once. A
sum over cores is a function that says how often each core is counted in it: what could
go wrong is which cores are in it and how often, and floating-point addition would hide
that.

`delta_power` is set to `6.0f` before it is tested, and the binding code is under
`if (0 == PCF_TRUE)`; the code those conditions skip is not modelled. `FOR_OUT` is 1.

The estimate of `power_comp` leaves out the cores of PE 0 and of the last PE (the loop is
`i<7`, from 1, with eight PEs; `soc_main.c:319` adds up all cores), and their partial
sums are never cleared. The code makes no claim about it, and the one value computed from
it, `delta_power`, is overwritten, so `EstimateExact` states what the estimate contains.

### I2C slave: `I2cSlave`

One step is an edge of SCL, a START or STOP, or a handshake on an AXI channel. `m` is the
bus master with the byte and bit it is at; `CurSt`, `count`, `W_phase`, `R_phase` and
`i2cBUSY` are the registers of `i2cslave.sv`; `q`, `reg32`, `reg32copy`, `strb` and
`address_w` assemble words; `AW_CS`, `AR_CS`, `awDone`, `wDone`, `aw` and `wd` are the AXI
side with the stream fork, whose two halves are taken each in its time and with the value
its register has then. A byte is its place in its packet, so a lost, moved or repeated
byte is a wrong number in `mem`. The voters that filter the pins are not modelled: each
edge is seen once.

`prompt` says whether AXI answers before the next edge of SCL, which is what the hardware
relies on: an I2C bit takes hundreds of AXI cycles. The properties about data are stated
under it; `StopSignalled` and the types are not. `OnlyPacketBytes` is stated for a master
that does not read, because the STOP of a read transaction ends in a write of a word of
zeros at the first address.

### SPI slave: `SpiSlave`

One step is an edge of SCLK or CS, the arrival of the address in the AXI clock domain, or
an AXI handshake. `state`, `cmd_reg`, `n`, `addr_reg` are the command machine with its bit
counter; `rxfifo` and `txfifo` the clock-crossing FIFOs; `curr_addr`, `tx_counter`, `aw_q`,
`ar_q` the AXI side. A word written is its number and a word read is the address it came
from. As with I2C, `prompt` separates what is promised when AXI keeps up with SCLK (the
data arrives whole: `WordsInPlace`, `ReadsInPlace`, `NoReadPastWrap`) from what remains
when it does not (`WrittenInOrder`, `FifoDrains`), since the controller does not look at
the FIFO's ready line. When CS rises on an address that a late AXI has not yet taken
over, the strobe is cut off or crosses without its address (`Deselect`).

`MCSerial` puts the two ports side by side; `port` says which of them a board wires.

### Booting: `BootFlash`, `SrecLoader`, `BootRom`

`BootFlash` takes a program as a sequence of segments, lays out the image as the flash
tool does (`Offset`, `Table`, `Flash`) and runs `boot_qspi` on it: the header, the table,
`find_data_fit` and the move of the loader's data and stack, header and table again, then
block after block, into L2 or through the buffer for addresses below it. Each transfer is
started in one step, done in another (`Transfer`, the uDMA, external) and waited for in a
third. Bytes are counted: a byte is the number of its segment and place.

`Segments` says what a linker makes: ascending, apart, on word boundaries. The last is
needed: a block read to an odd address would be rounded up past its own rest. A segment
may be empty, as the tool makes an area of it too. Of the number of areas it is assumed
that the table has room for them: the header's count is clipped when the table is read,
but not in the loops over it (`boot_code.c:309`, `boot_code.c:322`). L2 does not
begin at 0, because an address of 0 is the code's "not yet moved", and has room for the
loader.

`SrecLoader` is the character machine of `kk_srec.c` with its real state (a low digit is
or-ed into `data[length]` in any state, a count of 0 returns before the length is
cleared), the callback with its store of a word per byte, and a UART that may lose a
character anywhere. Checksums and counts are computed as in the code. `BootRom` is `main`:
the two pins of `bootsel` choose the loader, `preloaded` takes the entry from a register,
`jtag` waits for a debugger. A file is a sequence of records; `Line` makes of a record the
characters objcopy writes, and `WellFormed` says which files objcopy makes: records that
fit a line, data within memory and ascending, one entry, at the end. `MCBoot` holds the
programs' and files' small instances.

### SCMI mailbox: `Mailbox`

One channel: `doorbell` and `completion` are the `intr` bits of its two registers and the
level inputs of two interrupt controllers, the platform's and the agent's, which are
external (`Latch`, `Claim`, `Complete`). `agent` walks through `agent_sw.c` one register
access a step, `platform` through `main` of `platform_sw.c`, and `handler` through
`external_irq_handler`, whose order of clear, complete and read is `After`. The agent's
loop reads the claim register and sleeps when it gives nothing (`AgentClaim`, `Wake`). The
agent may be started again on registers that keep what they hold (`Restart`). The words of
the message are written in order and read back, so that memory is how many are there.

### Printing: `Stdio`

`how` says whether a core prints with `printf`, which takes `io_lock`, or with `puts`,
which does not. `uart_io_lock` is one step, as one read of the test-and-set alias reads
and sets the word. A character goes into `buffer`, is enqueued (whether the channel has
room is not asked, `uart.c:95`), is read by the uDMA at a time of its own (`Fetch`), and sent
(`StartTx`, `EndTx`); the core waits for the channel and then for the transmitter.

### FLLs: `Fll`

`pos_fll_freq` and `pos_fll_is_on` are the runtime's record, `conf1` the multiplier and
divider the hardware has. `mult_div_from_freq` and `freq_from_mult_div` are the code's
integer arithmetic, with the shifts as factors `Exp2`. `pos_fll_init` is called by each
`cluster_start`; `pos_fll_deinit` is offered and has no caller in the repository.

`FllAssumption` says for which frequencies the code's arithmetic is meant: from 2 Hz to
below 2^29, where the multiplier still fits its field (1 Hz would be rounded to 0, which
the code takes for "not set"). What the boot leaves in the register is a frequency that
rounding keeps, as the register's reset value is (`fll_v1.h:110`); for dividers of 3 and
more it need not be, and the second start of a cluster would then record another frequency
than the first.

### The platform: `MCPlatform`

The watchdog, the mailbox, the control loop, printing and the FLLs share no state, so one
run checks them all: `part` says which one moves, and the others stay as reset leaves
them. The state space is the sum of the five, not their product, and the fairness of each
applies to it alone.

## 4. Runs

| Run | Instance | Shows |
|---|---|---|
| `alloc` | 56 bytes, requests 5 and 16, aligned request 8, alignments 4 and 16 | `NoOverlap`, `NoLeak`, `RefusedOnlyWhenFull`, `ImplementsHeap`, `CallsReturn` |
| `alloc_aligned_odd` | an aligned request of 12 bytes | `CallersApart` is violated, see findings |
| `wdt_zero` | initial value 0 allowed | `NoSpuriousPulse` is violated |
| `scmi` | 3 messages | `OwnedWhileWritten`, `AnsweredOnce`, `NoRingLost`, `ImplementsChannel`, `MainFinishes` |
| `scmi_answered` | 2 messages | `EveryMessageAnswered` is violated |
| `cluster_alpha` | 3 PEs, 4 cores, 1 call | `AlphaNormalized` is violated |
| `serial` | I2C: 2 transactions of up to 6 bytes, 3 bits a byte; SPI: up to 3 bursts of up to 3 words, FIFOs of 2 words; AXI prompt or not | `MemoryAsSent`, `AcknowledgedExactly`, `StopSignalled`; `WordsInPlace`, `ReadsInPlace`, `NoReadPastWrap`, `WrittenInOrder`, `FifoDrains`; types |
| `i2c_big_endian` | big endian, 2 transactions | `EveryByteInItsWord` is violated |
| `boot` | all pins; programs of up to 3 segments of 0 to 5 bytes anywhere in 27 bytes; 5 S-record files, 1 lost character | `LoaderUntouched`, `MemoryIsProgram`, `WholeFileLoaded`, `DamageReported`, `Boots`; types |
| `srec_resync` | the same files | `Resynchronises` is violated |
| `platform` | watchdog: counter 0..5, initial values 1, 3, 4; mailbox: 5 words, 2 starts of the agent; cluster: 4 PEs, 6 cores, 3 calls; printing: 3 cores, one of which may use `puts`, lines of 2; FLLs: 2 frequencies | `EveryOverflowReported`, `NoSpuriousPulse`, `NoLostAlert`, `BarksUnlessKicked`; `OneAnswerPerRing`, `RingAnswered`; `Lockstep`, `HandledOnce`, `EstimateExact`, `OneDivisor`, `ResultsComplete`, `FCReturns`; `LinesWhole`, `EveryLinePrinted`; `FrequencyKept` |
| `fll_off` | 2 frequencies | `UpdatedWhenTurnedOn` is violated |

Bounds, and why they are enough:

- *alloc.* Seven granules hold two plain blocks and the 40 bytes an aligned request of
  eight takes at alignment 16, so blocks are freed before, between and after free
  neighbours, an exact fit and a split occur, an aligned block has a header to free or
  none, and requests are refused with and without enough bytes in total. 5 is a size that
  is rounded, 4 an alignment that needs nothing. The proofs cover every other size.
- *wdt.* `MaxCount` stands for `32'hffff_ffff`. From 5, the values 0, 1, 3, 4 and all ones
  are apart enough that a CLEAR can fall before, on and after each step of the detector.
- *scmi.* Three messages are the least for which a ring repeats two older doorbells, one
  of them answered and one being answered, while main opens the next channel. No message
  is sure of an answer, the last one included, since main may return before it is rung
  (see the findings): what the runs say of rings is that they are kept until they are
  served (`NoRingLost`).
- *cluster.* Four PEs have a first, a last and two middle ones, as the reductions treat
  them differently; with six cores two PEs have one core more than the others; the third
  call follows one that already began with sums left by another.
- *serial, I2C.* Packets of one to six bytes end with each of the four counts of a last
  word, before and after a full one. The second transaction finds whatever the first left,
  broken off anywhere behind its address, written, read or addressed to another. Three bits
  are enough for the first, a middle and the last of a byte. `WINDOW` is never reached: the
  wrap of the address is not in question with packets shorter than the window.
- *serial, SPI.* Three words are more than a FIFO of two holds, so that words wait, are
  read ahead and must be flushed; a third burst follows two of different kinds. With
  `AddrMod` 12 and bases 0 and 5, two bursts do not touch each other by chance.
- *boot.* `BLOCK` 4, `WORD` 2 and `LOADER` 6 keep the order 4096 > 4 and a loader of more than
  one block. Segments of 0 to 5 bytes are empty, less than a block, a block and more than one;
  three of them in 26 addresses lie in front of, behind and on every place the loader may
  move to, and below L2, which begins at 8. Each S-record file has its kind of damage:
  counts, adjacent records, three address widths, a checksum that fits without the record.
  The theorems cover every well-formed file and more lost characters.
- *mailbox.* The second start finds what the first left in the registers and in both
  interrupt controllers. The theorems cover every length and number of starts.
- *stdio.* Three cores: one that holds the lock, one that waits and one that does without.
  Lines of two characters have a first and a last. The theorems cover the rest.
- *fll.* One frequency for which the divider is at its least and one for which it is not;
  the three FLLs serve the domains in another order than they are numbered. The theorem
  covers all others.

Properties that hold by assumption of the callers: `SaneRequests` (no size 0, aligned
sizes multiples of eight) in `MCPosAlloc`, `SaneInit` (INIT_VALUE neither 0 nor all
ones) in `MCPlatform`, and `prompt` in the two ports. Violation runs show what happens
without the first two.

Deadlock is checked for the allocator and the FLLs by themselves. Everything else comes
to an end: the exchange ends after its last message (or the agent polls for ever), boots
jump, masters stop after their last transaction, programs return. Their configurations say
`CHECK_DEADLOCK FALSE`; that they end well is what the liveness properties say.

Fairness, all of it weak but one:

- `PosAlloc`: the steps of a call that was entered. The processor keeps executing; no
  caller is obliged to call.
- `Wdt`: clock edges. What software does in a cycle is not constrained, so
  `BarksUnlessKicked` assumes a watchdog left enabled and not cleared.
- `ScmiDoorbell`: agent, doorbell clock, each PLIC latch, main, claim and handler, each on
  its own. Fairness of main does not help it while a handler runs, since it is then not
  enabled: `MainFinishes` is not an assumption. `StopRinging` is strongly fair: its guard
  stands for the passing of 1us, and flickers while a level-sensitive source is served
  and latched again, whereas time passes whatever the handler does.
- `ClusterControl`: the FC's two steps, the barrier and each PE.
- `I2cSlave`, `SpiSlave`: the clocks and the interconnect, one formula a handshake. The
  masters and the firmware act if they will.
- `BootFlash`, `SrecLoader`, `BootRom`: there is one core and, at a time, one transfer, so
  the next step is the system's. The host sends its file to the end.
- `Mailbox`: the two cores, the handler and each latch. Nobody is obliged to start again.
- `Stdio`: each core and the hardware. A core that waits for the lock polls it; weak
  fairness is enough for `EveryLinePrinted` because each core prints a bounded number of
  lines, so that those ahead of it get through and leave the lock to it.

## 5. Findings

Each is a run with one property, the sentence of the repository it comes from, and TLC's
counterexample.

- `CallersApart` (`alloc.c:288`): with a size that is no multiple of 8, `pos_alloc_align`
  frees the end of the last granule of the block it returns.
- `NoSpuriousPulse` with INIT_VALUE 0 (`ovf_detect.sv:32`): a CLEAR after all ones is
  reported as an overflow. An INIT_VALUE of all ones loaded by CLEAR is likewise taken
  for the first half of a wrap.
- `EveryMessageAnswered` (`scmi-ext-agent-b2b.c:411`): enabling one interrupt disables the
  others, and a message whose interrupt has not been taken is never answered; main then
  returns, and `exit` masks the rest (`io.c:340`).
- `AlphaNormalized` (`cl_main.c:696`): the partial sum of PE 0 is cleared before it is
  added.
- `EveryByteInItsWord` (`i2cslave.sv:713`): in big endian the unfinished last word is taken
  from the end of the shift register where it is not.
- `Resynchronises` (`kk_srec.c:113`): a record whose count is 0 leaves its length behind,
  and the next one comes out shifted.
- `UpdatedWhenTurnedOn` (`fll-v1.c:145`): a frequency set while the FLL was off is recorded
  but not programmed when it is turned on.

Met on the way and not made runs: a request of size 0 stays 0 (`alloc.c:199`), against the
comment at `alloc.c:27`; the agent may undo the opening of the channel it then polls for
ever (`tb_scmi_doorbell_b2b.sv:83`); the answer of the doorbell's handler goes to an address
computed from an uninitialised pointer (`scmi-ext-agent-b2b.c:147`); `pi_freq_get`, which
nothing calls, looks a domain's frequency up by the number of its FLL.

## 6. Proofs

TLAPS proves the following for every value of the constants that satisfies the named
assumptions of the module.

`PosAlloc_proofs` (assumes `HeapAssumption`, `RequestAssumption`, `AlignAssumption` and
`SaneRequests`): `Inductive`, `TypeCorrect`, `ListSorted`, `BlocksApart`. `NoOverlap` and
`FreeListSorted` are not inductive: they say nothing about where the cursors of a walk
are, nor about what `pos_alloc_align` still has to free. `IInv` adds that every block
lies on the grid (`Placed`), that free, owned and in-flight blocks are pairwise disjoint
with their rounded sizes (`KindsApart`), that the cursors are neighbours on the list and
behind the block being freed (`Cursors`), and what each stage of a call holds (`Stages`).
The lemmas are one per way of changing the list (unlink, split, insert, coalesce on
either side or on both), used by one lemma per action.

`NothingLost` (`NoLeak`), `RefusalHonest` (`RefusedOnlyWhenFull`) and `Implements`
(`ImplementsHeap`) rest on `IInv`. The properties speak of bytes and the invariant of
blocks. `Covers` goes between: every byte of the heap lies within a free block, an owned
one or one in the hands of the call; with `KindsApart` it lies within one only. For the
refusal, `PassedTooSmall` says that the walk has left only blocks behind that are too
small; a run of free bytes lies in one block (`RunInOneBlock`: two free blocks never
touch, since `pos_free` coalesces), so if the walk reaches the end there is no run. For
the refinement, what callers do not own is exactly what is free or in flight
(`FreeIsRest`), and the block that a call returns is of a size and at an alignment that
were asked for together (`WantedTogether`). `AlignAssumption` says what powers of two are
needed for: an alignment divides the granule, or the granule divides it.

`Platform_proofs` proves the safety properties of what `MCPlatform` puts together but
`ClusterControl`, which has a module of its own. They share no state; each part assumes
only its own constants' assumption.

The watchdog (assumes `WdtAssumption`, `InitAssumption`, `SaneInit`): `WdtInductive`,
`WdtTypes`, `OverflowReported`, `PulseMeansOverflow`, `AlertKept`. The strengthening
is `Latches`: what the two latches say about the last wrap. Its centre is that a wrap and
a pulse never fall in the same cycle (`WrapMeetsNoPulse`), otherwise the pulse would
clear the latch that the wrap sets; that is where `MaxCount > 1` is needed.

`ScmiDoorbell_proofs` (assumes `MsgAssumption`): `Inductive`, `PolledStatusFresh`,
`NoSecondAnswer`, `RingsKept`, `HandlerAlone`, `Refines`. The argument: a ring, a raised line, a
latched source and a running handler all come from a message that was sent
(`RingsAreSent`); messages are only sent on channels main has opened (`AgentPosition`),
and main never opens a channel twice, so `scmi_channel_init` never frees a channel with
a message in it; a sent message whose channel is busy was either not answered or is
being freed this moment (`SentState`), so the status check of the handler is enough to
keep it from answering twice. For the same reason a handler that leaves, by its status
check or at its end, leaves an answered message behind (`HandlerPosition`), so the ring
it was claimed for is not lost (`RingsKept`). The refinement of `Channel` follows step by step from the
same invariant.

The mailbox (assumes `MailboxAssumption`): `MailboxInductive`, `AnsweredOnce`. What the agent
may rely on after a ring depends on where the ring is, so `MailboxInv` is a disjunction: either
the last ring is not answered yet (`Unanswered`), then the agent waits, and where the
handler is says whether the doorbell is still up and who holds the interrupt; or it is
(`Answered`), then the handler is out, the platform's controller is empty, and the agent's
position says how much of the completion is left. The centre is the order of `After`: the
doorbell is down before the interrupt is completed, so it cannot be latched again.
`MessageWhole` keeps the handler from halting. There is one lemma for each stretch of a
ring's way.

Printing (assumes `StdioAssumption`): `StdioInductive`, `PrintfWhole`. `LinesWhole` looks only
at what the uDMA has fetched. `StdioInv` adds who may be between lock and unlock (`OneHolder`)
and how far the holder's character has come (`Progress`): before the fetch the character
fits behind the last byte of the stream, after it, it is that byte; no lock, no unfinished
line. `Fits` is what carries this from one character to the next and, through
`io_lock`, from one line to the next. The types hold for `puts` as well, the rest under
`Locked`.

The FLLs (assumes `FllAssumption`): `NeverDrifts`, which is `FrequencyKept`. What it needs is
that rounding is idempotent: `cluster_start` sets the recorded frequency, which is already
rounded, again and again. The shift depends on the frequency, so it must be seen that a
rounded frequency is rounded with the same shift. A frequency with its leading one at
position e gets the shift D = (29 - e) / 2, at least 1, and what is below the grain
2^(15 - D) is lost, and nothing else (`MultDiv`). From 2 Hz up the grain is not above the
leading one, so the rounded frequency keeps it, gets the same shift and is a multiple of
the grain (`RoundedKept`). `FllInv` adds what `FrequencyKept` does not say
of an FLL that is off or was never set: the first keeps the frequency of its last request
in the record, the second is as the boot left it, and records that from its first start.

`ClusterControl_proofs` (assumes `ClusterAssumption`: more than two PEs, at least one core
and one call): `Inductive`, `InStep`, `EachCoreOnce`, `Complete`. `Lockstep` counts the
barriers a PE has passed in its call, and a count does not say which ones: the inductive
`Together` says that all PEs have passed the same places of the text. Of two places
between the same two barriers only one is a barrier (`Alike`), so when all PEs wait they
wait at the same place and the hardware barrier moves them alike. `Shares` says for each
core how often each loop has handled it, as a function of where the one PE is that
handles it (`Counted`); that the step width is the number of PEs, that PE p starts at p
and that every PE's `End` is the number of cores (`EndIs`) makes these functions right.
`Flag` ties the FC's flag to PE 0's last step. What the proof needs of the program's text
is in `Program` and `Loop`, proved function by function: a function ends with a barrier,
and after each loop there is one before `leave`.

`PartialSums` proves `SumsInv`, from which `Estimated` (`EstimateExact`) and `SameDivisor`
(`OneDivisor`) follow: a core is once in the partial sum of its PE from the step of the
loop that handles it until PE 0 has taken the sums, and not at all otherwise (`Pending`).
The partial sums of PE 0 and of the last PE are left out of `SumsInv`, because nothing
clears them. The sum over the PEs is a fold, and that each core is in it as often as it
is in the sums of the PEs that are folded (`SumIs`) is an induction over the set of PEs.
The provers cannot instantiate the library's induction rules, so the induction is made
of the least counterexample (`Least`, `SetInduction`).

`Serial_proofs` (assumes `I2cAssumption` and `SpiAssumption`) proves every safety property
of the two ports. A step of one port leaves the other's registers, so each has an
invariant of its own (`IInv` of its module).

For the SPI slave (`BurstsArrive`, `ReadsArrive`, `WrapIsRespected`, `NoneTwice`):
`InOrder` says that the words written, in the AXI write and in the FIFO ascend, so
`WrittenInOrder` needs nothing of AXI's speed. The rest is under `prompt`. `Phases` ties
the command machine's state to its counter and to what has arrived on the AXI side, and
`OneOnItsWay` says that a word is either in the FIFO or in the AXI machine, and no more
than one: a prompt AXI has taken it before the next has come in. `Writing` then says that
the first `Complete` words of the burst are in memory and that the address register and
the transfer counter are where that many words put them. For reads, `Flushed` is the
crucial one: after as many edges of command and address as the FIFO has words, the FIFO
is empty, whatever an earlier read had left in it; this is where `CmdLen + AddrLen >=
Depth` is needed (40 edges, 8 words). `Reading` says what the FIFO and the AXI machine
hold beyond the words already given to the master, and `GotInOrder` follows. The proof
needs one assumption on the master: no burst passes the end of the address space.

For the I2C slave (`BytesAcknowledged`, `PacketsArrive`, and `SerialTyped` for both):
`InStep` holds however late AXI is: the states in which the slave takes bits in are in
step with the master's bits, though a slave that still sends a byte may have lost count.
`Addressed` says where exactly the slave is if AXI is prompt, from which the
acknowledgements follow. `Assembled` says that the shift register holds the last four
bytes received and that the address counts the words sent; it uses that the address never
wraps (`AddressCounts`), which is why packets must be four bytes shorter than the window.
`OnItsWay` says that the word in the AXI machine is the packet's at its address, `InMemory`
that what lies before it is in memory, while the packet comes in and until its interrupt.
`PacketsArrive` has two hypotheses. In big endian the property is false (section 5). And
the master writes at least one byte: a write of none sends a word of zeros, as the STOP of
a read does.

`Boot_proofs` (assumes `BootAssumption`): `LoaderSafe`, `ProgramLoaded`, both from
`FlashInv`. The recursive functions `Offset` and `find_data_fit` are unfolded by
`Recursion` of `Arithmetic`: a function that follows a rule from index to index exists, so the chosen one
follows it. `DataFit` then says that one pass over the table is enough: a move goes behind
the end of an area, and all areas before it end before it begins, so that none is met
again; and since the loader's address is a multiple of the block, a place behind an area
is also behind the last word of it that will be written (`BehindWords`). In `FlashInv`,
`Reading` says which transfer each state waits for and what has been read when its event
comes, `Placed` that the loader is whole at such a place, `Progress` how far the area is:
the address, the flash address and the rest are in step, and until the last block they
are where `block` says. The last block is the only one that may go past the area's end,
by less than a word, and what it overwrites there is not loaded yet (`BlockIs`,
`BlockCopied`). The proof uses that segments ascend and lie on word boundaries; that none
lies across the beginning of L2 it does not use.

`FlashTypesInvariant` adds to it the types of what no wait depends on.

`Srec_proofs` (assumes `BootAssumption`, and that no more characters are lost than the
data array holds, `MaxLost <= MAX`): `NeverOverruns` (`BootTypeOK`), `WholeFileBoots`
(`WholeFileLoaded`), `NoSilentDamage` (`DamageReported`), for all well-formed files and all
places where characters get lost. It has three parts.

- *The data array.* `kk_srec.c` tests `length` only against `byte_count`, and a count of 0
  leaves a record without clearing `length`, one higher than before (section 5). `Lengths`
  says why this does not add up without losses: a count comes out as 0 only in a line
  that lost a character, so between records `length` is at most the number of lines hit.
  From this follows the bound in the hypothesis. Some bound is needed: when the count of
  each of more than `MAX` lines in a row comes out as 0, bytes are written behind the array.
- *Memory.* `srec_data_read` stores a word per byte. `Store` is unfolded with `Recursion`:
  each byte of the record is at its address in the end, and what lies before the record is
  untouched, since its words only reach upwards; so earlier records stay (`Stored`). This is
  where files must ascend.
- *The records.* If the start, the type and the count of every line arrive, then `InStep`
  says exactly where the machine is and that it holds the digits of the line so far, until
  a digit is lost; from then on it is `Behind`: it will not have as many bytes as the count
  says when the next start cuts the record short, and complains. A record whose digits all
  arrived has the count and the checksum that were computed for it (`Octets`), so it is
  not complained of and is stored as it is. `DamageInv` puts it together: as long as there
  was no complaint, either the machine is in step and everything before is in memory, or
  it is behind and will complain.

TLC checked `MachineInv` and `DamageInv` as invariants of the files of `MCBoot` before they
were proved. The Forth interpreter aside, no hypothesis is made about the pins.

Only model-checked is liveness; every invariant and every refinement that a run checks is
also proved. Liveness is outside what TLAPS's provers handle and stays with TLC:
`CallsReturn`, `BarksUnlessKicked`, `MainFinishes`, `FCReturns`,
`StopSignalled`, `FifoDrains`, `Boots`, `RingAnswered`, `EveryLinePrinted`.

## 7. Not modelled

- Floating-point arithmetic of the control law, sequential and parallel; the hazard of the
  coefficient and the error map the PEs share (`cl_main.c:893`) is listed without a property
  for that reason.
- What becomes of I2C data when AXI is slower than the bus (`axi_apb_i2c_slave.sv:312`,
  `axi_apb_i2c_slave.sv:436`): the steps are in the model, but the code promises nothing.
  A second offload to the cluster; telemetry and cycle counters. `sw/pcf`, the product's
  control firmware, is an empty submodule.
- The doorbell exchange with all interrupts at once: its test bench takes each trigger
  back after 5 ns, before the doorbell has seen it at two clock edges, so there is no
  exchange. Contents and overlaps of SCMI answers; the mailbox's generated registers, its
  other channels, and the CLIC tests, which reach it through a test bench.
- The bits on the serial ports, the voters, quad mode and the number of dummy cycles of
  the SPI slave, the APB registers of the I2C slave but its status; `axi2mem`, which is
  vendored and which nothing here instantiates.
- The Forth interpreter of the boot ROM (third party), HyperFlash (no boot mode selects
  it), CRC and encryption of images, which the loader does not read.
- The lock of the FLLs and the wait for it; formatting of `printf`, `uart_read`, opening
  and closing the UART; power accounting of the heaps (compiled out); the interrupt
  vectors of `irq.c`, which nothing calls in the programs modelled.
- Contents of empty submodules; vendored, generated and structural code, register tables
  and hardware headers, which are most of the repository's lines: register maps of
  peripherals, `scmi.h`, FPGA and Linux support, test benches and stimuli.

## 8. Running

    tlc -config PosAlloc.cfg MCPosAlloc
    tlc -config ScmiDoorbell.cfg ScmiDoorbell
    tlc -config MCSerial.cfg MCSerial
    tlc -config BootRom.cfg MCBoot
    tlc -config MCPlatform.cfg MCPlatform
    tlapm PosAlloc_proofs.tla
    tlapm Platform_proofs.tla
    tlapm ScmiDoorbell_proofs.tla
    tlapm ClusterControl_proofs.tla
    tlapm Serial_proofs.tla
    tlapm Boot_proofs.tla
    tlapm Srec_proofs.tla
    tlapm Arithmetic.tla

`PosAllocAligned.cfg` (with `PosAlloc`), `WdtKickZero.cfg` (`Wdt`),
`ScmiEveryMessageAnswered.cfg` (`ScmiDoorbell`), `ClusterAlpha.cfg` (`ClusterControl`),
`I2cSlaveBigEndian.cfg` (`I2cSlave`), `SrecResync.cfg` (`MCBoot`) and `FllSetWhileOff.cfg`
(`Fll`) are the runs of section 5; TLC reports a counterexample for each.
