----------------------------- MODULE BootFlash -----------------------------
(***************************************************************************)
(* QSPI boot: the image that plp_flash_stimuli.py makes of a program's     *)
(* segments, and the boot loader (src/boot/boot_code.c, boot_qspi) that    *)
(* brings them to their addresses.  The loader reads the table of areas,   *)
(* looks for a place in L2 where its own data and stack are not in the     *)
(* program's way, moves there, reads the table again and loads one block   *)
(* after the other, straight into L2 or through its buffer.                *)
(*                                                                         *)
(* Bytes are counted, not valued: a byte of the program is the number of   *)
(* its segment and its place there.                                        *)
(***************************************************************************)
EXTENDS Integers, Sequences, SequencesExt

CONSTANTS WORD,       \* bytes of a word (4)
          BLOCK,      \* FLASH_BLOCK_SIZE (4096)
          LOADER,     \* sizeof(boot_code_t)
          MAX_NB_AREA,
          L2,         \* first address of L2 (0x1c000000); below is the L1 of the core
          Top,        \* bound: addresses
          MaxSegments, MaxLen  \* bound: segments of a program and their bytes

BootFlashAssumption ==
  /\ WORD \in Nat \ {0} /\ BLOCK \in Nat \ {0} /\ BLOCK % WORD = 0
  /\ LOADER \in Nat \ {0} /\ MAX_NB_AREA \in Nat /\ MaxSegments \in 0 .. MAX_NB_AREA
  /\ MaxLen \in Nat
  /\ L2 \in 1 .. Top /\ L2 % BLOCK = 0 /\ L2 + LOADER <= Top /\ Top \in Nat

VARIABLES
  program,      \* segments of the program: base and len
  pc,
  nbAreas,      \* header.nbAreas
  mem_area,     \* the table of areas read
  loader,       \* where the loader's data is: 0 before it has moved
  i, block,     \* loops of flash_load_and_start and flash_load_section
  area_addr, flash_addr, size, iter_size,
  flash_buffer, \* flash address of its content
  udma, event,  \* the transfer under way; the SoC event at its end
  mem
loopVars == <<i, block, area_addr, flash_addr, size, iter_size>>
ioVars   == <<flash_buffer, udma, event, mem>>
vars == <<program, pc, nbAreas, mem_area, loader, loopVars, ioVars>>

Addresses == 0 .. Top
Old == 0      \* what was in memory before
Own == -1     \* the loader's data
Pad == -2     \* what the flash holds between the segments
Id(k, j) == (k - 1) * MaxLen + j + 1
Idle == [on |-> FALSE, what |-> "none", from |-> 0, to |-> 0, len |-> 0]

RoundUp(n, m) == ((n + m - 1) \div m) * m
-----------------------------------------------------------------------------
(* The image.                                                              *)

\* Where each segment starts in the flash, after the header's block.
Offset(p) ==
  LET at[k \in 0 .. Len(p)] ==
        IF k = 0 THEN BLOCK ELSE at[k - 1] + RoundUp(p[k].len, BLOCK)
  IN  [k \in 1 .. Len(p) |-> at[k - 1]]

Table(p) == [k \in 1 .. Len(p) |->
  [start |-> Offset(p)[k], ptr |-> p[k].base, size |-> p[k].len,
   blocks |-> RoundUp(p[k].len, BLOCK) \div BLOCK]]

Flash(a) ==
  LET in == {k \in 1 .. Len(program) : a - Offset(program)[k] \in 0 .. program[k].len - 1}
  IN  IF in = {} THEN Pad ELSE LET k == CHOOSE k \in in : TRUE IN Id(k, a - Offset(program)[k])

\* What a linker makes: segments in ascending order, apart, on word boundaries (a
\* block read to an odd address could end in the loader), none across the end of L1,
\* with room behind the last one for the loader; an empty one still gets an area.  No
\* more than MAX_NB_AREA of them: the loops over the table do not clip nbAreas.
Segments == {s \in [base : Addresses, len : 0 .. MaxLen] :
  /\ s.base % WORD = 0 /\ s.base + s.len + BLOCK + LOADER <= Top
  /\ s.base >= L2 \/ s.base + s.len <= L2}
Programs == {p \in SeqOf(Segments, MaxSegments) :
  \A m, n \in 1 .. Len(p) : m < n => p[m].base + p[m].len <= p[n].base}
-----------------------------------------------------------------------------
(* The loader.                                                             *)

Read(what, from, to, len) ==
  udma' = [on |-> TRUE, what |-> what, from |-> from, to |-> to, len |-> len]

\* wait_soc_event returns, and takes the event.
Waited == event /\ event' = FALSE

\* Mutant: only an address inside an area counts as an overlap.
OverlapsStart(addr, a) == addr >= a.ptr /\ addr < a.ptr + a.size

Overlaps(addr, a) == \/ addr >= a.ptr /\ addr < a.ptr + a.size
                     \/ addr < a.ptr /\ addr + LOADER > a.ptr

\* One pass over the table: the address moves behind each area it meets.
find_data_fit(table) ==
  LET Next1(a, addr) == IF Overlaps(addr, a) THEN RoundUp(a.ptr + a.size, BLOCK) ELSE addr
      fit[k \in 0 .. Len(table)] == IF k = 0 THEN L2 ELSE Next1(table[k], fit[k - 1])
  IN  fit[Len(table)]

Start ==
  /\ pc = "start"
  /\ pc' = "header" /\ Read("header", 0, 0, 1)
  /\ UNCHANGED <<program, nbAreas, mem_area, loader, loopVars, flash_buffer, event, mem>>

\* The header is there: read as much of the table as there is room for.
GotHeader ==
  /\ pc = "header" /\ Waited
  /\ LET n == IF nbAreas >= MAX_NB_AREA THEN MAX_NB_AREA ELSE nbAreas
     IN  IF n > 0 THEN pc' = "table" /\ Read("table", 1, 0, n)
                  ELSE pc' = "tableRead" /\ UNCHANGED udma
  /\ UNCHANGED <<program, nbAreas, mem_area, loader, loopVars, flash_buffer, mem>>

GotTable ==
  /\ pc = "table" /\ Waited
  /\ pc' = "tableRead"
  /\ UNCHANGED <<program, nbAreas, mem_area, loader, loopVars, flash_buffer, udma, mem>>

\* The first time the loader moves, with a new stack, and starts over.
Relocate ==
  /\ pc = "tableRead" /\ loader = 0
  /\ LET to == find_data_fit(mem_area)
     IN  /\ loader' = to
         /\ mem' = [a \in Addresses |-> IF a \in to .. to + LOADER - 1 THEN Own ELSE mem[a]]
  /\ pc' = "header" /\ Read("header", 0, 0, 1)
  /\ UNCHANGED <<program, nbAreas, mem_area, loopVars, flash_buffer, event>>

BeginLoad ==
  /\ pc = "tableRead" /\ loader # 0
  /\ pc' = "area" /\ i' = 1
  /\ UNCHANGED <<program, nbAreas, mem_area, loader, block, area_addr, flash_addr, size,
                 iter_size, ioVars>>

BeginArea ==
  /\ pc = "area" /\ i <= nbAreas
  /\ pc' = "block" /\ block' = 0
  /\ area_addr' = mem_area[i].ptr /\ flash_addr' = mem_area[i].start /\ size' = mem_area[i].size
  /\ UNCHANGED <<program, nbAreas, mem_area, loader, i, iter_size, ioVars>>

IterSize == IF BLOCK > size THEN RoundUp(size, WORD) ELSE BLOCK

InL2 == area_addr >= L2

ReadBlock ==
  /\ pc = "block" /\ block < mem_area[i].blocks
  /\ iter_size' = IterSize
  /\ pc' = "blockRead"
  /\ IF InL2 THEN Read("mem", flash_addr, area_addr, iter_size')
             ELSE Read("buffer", flash_addr, 0, iter_size')
  /\ UNCHANGED <<program, nbAreas, mem_area, loader, i, block, area_addr, flash_addr, size,
                 flash_buffer, event, mem>>

\* Bytes len of the flash from address from, at memory address to.
Copied(from, to, len) ==
  [a \in Addresses |-> IF a \in to .. to + len - 1 THEN Flash(from + a - to) ELSE mem[a]]

\* Mutant: the flash address stays that of the area's first block.
GotBlockSame ==
  /\ pc = "blockRead" /\ Waited
  /\ mem' = IF InL2 THEN mem ELSE Copied(flash_buffer, area_addr, iter_size)
  /\ area_addr' = area_addr + iter_size /\ flash_addr' = flash_addr
  /\ size' = size - iter_size /\ block' = block + 1
  /\ pc' = "block"
  /\ UNCHANGED <<program, nbAreas, mem_area, loader, i, iter_size, flash_buffer, udma>>

\* The block is there; outside L2 it is copied from the buffer.
GotBlock ==
  /\ pc = "blockRead" /\ Waited
  /\ mem' = IF InL2 THEN mem ELSE Copied(flash_buffer, area_addr, iter_size)
  /\ area_addr' = area_addr + iter_size /\ flash_addr' = flash_addr + iter_size
  /\ size' = size - iter_size /\ block' = block + 1
  /\ pc' = "block"
  /\ UNCHANGED <<program, nbAreas, mem_area, loader, i, iter_size, flash_buffer, udma>>

EndArea ==
  /\ pc = "block" /\ block >= mem_area[i].blocks
  /\ pc' = "area" /\ i' = i + 1
  /\ UNCHANGED <<program, nbAreas, mem_area, loader, block, area_addr, flash_addr, size,
                 iter_size, ioVars>>

\* flash_deinit and the jump to the entry point.
Jump ==
  /\ pc = "area" /\ i > nbAreas
  /\ pc' = "jumped"
  /\ UNCHANGED <<program, nbAreas, mem_area, loader, loopVars, ioVars>>

\* Mutant: the end of a transfer gives no event when it went to the loader's buffer.
TransferSilent ==
  /\ udma.on
  /\ udma' = Idle /\ event' = (udma.what # "buffer")
  /\ nbAreas' = IF udma.what = "header" THEN Len(program) ELSE nbAreas
  /\ mem_area' = IF udma.what = "table" THEN SubSeq(Table(program), 1, udma.len) ELSE mem_area
  /\ flash_buffer' = IF udma.what = "buffer" THEN udma.from ELSE flash_buffer
  /\ mem' = IF udma.what = "mem" THEN Copied(udma.from, udma.to, udma.len) ELSE mem
  /\ UNCHANGED <<program, pc, loader, loopVars>>

\* The uDMA and the SPI master have done what the command sequence says.
Transfer ==
  /\ udma.on
  /\ udma' = Idle /\ event' = TRUE
  /\ nbAreas' = IF udma.what = "header" THEN Len(program) ELSE nbAreas
  /\ mem_area' = IF udma.what = "table" THEN SubSeq(Table(program), 1, udma.len) ELSE mem_area
  /\ flash_buffer' = IF udma.what = "buffer" THEN udma.from ELSE flash_buffer
  /\ mem' = IF udma.what = "mem" THEN Copied(udma.from, udma.to, udma.len) ELSE mem
  /\ UNCHANGED <<program, pc, loader, loopVars>>
-----------------------------------------------------------------------------
Reset ==
  /\ pc = "start" /\ nbAreas = 0 /\ mem_area = <<>> /\ loader = 0
  /\ i = 1 /\ block = 0 /\ area_addr = 0 /\ flash_addr = 0 /\ size = 0 /\ iter_size = 0
  /\ flash_buffer = 0 /\ udma = Idle /\ event = FALSE
  /\ mem = [a \in Addresses |-> Old]
Init == program \in Programs /\ Reset

Next == \/ Start \/ GotHeader \/ GotTable \/ Relocate \/ BeginLoad \/ BeginArea \/ ReadBlock
        \/ GotBlock \/ EndArea \/ Jump \/ Transfer

\* One core and one transfer, and neither stops.
Fairness == WF_vars(Next)
Spec == Init /\ [][Next]_vars /\ Fairness
-----------------------------------------------------------------------------
(* Properties.                                                             *)

\* Every variable holds a value of its type.
TypeOK ==
  /\ Len(program) <= MaxSegments /\ \A s \in 1 .. Len(program) : program[s] \in Segments
  /\ pc \in {"start", "header", "table", "tableRead", "area", "block", "blockRead", "jumped"}
  /\ nbAreas \in 0 .. MaxSegments /\ Len(mem_area) <= MAX_NB_AREA
  /\ loader \in Addresses /\ {udma.on, event} \subseteq BOOLEAN
  /\ i \in 1 .. MaxSegments + 1 /\ block \in 0 .. MaxLen
  /\ {area_addr, flash_addr, iter_size} \subseteq Nat /\ size \in -WORD .. MaxLen

\* No byte of the program, nor the up to WORD - 1 bytes read behind an area to fill its
\* last word, lands in the data and the stack of the running loader.
LoaderUntouched == loader # 0 => \A a \in loader .. loader + LOADER - 1 : mem[a] = Own

\* The core jumps to a program that is in memory, every byte of every segment at its
\* address: no later transfer of an earlier or a later area has touched it.
ProgramInMemory ==
  pc = "jumped" => \A k \in 1 .. Len(program) : \A j \in 0 .. program[k].len - 1 :
                     mem[program[k].base + j] = Id(k, j)

\* What is neither the program's nor the loader's stays, but for the rest of a word.
NothingElse ==
  \A a \in Addresses : mem[a] \notin {Old, Own} =>
    \E k \in 1 .. Len(program) :
      a \in program[k].base .. program[k].base + RoundUp(program[k].len, WORD) - 1

\* The loader waits once for each transfer, never for one that is not under way.
Boots == <>(pc = "jumped")
=============================================================================
