------------------------------ MODULE BootRom ------------------------------
(***************************************************************************)
(* The boot ROM's main (src/boot/boot_code.c): two pins select how the     *)
(* core gets its program.  The loaders that bring it in are BootFlash (from*)
(* the QSPI flash) and SrecLoader (over the UART); a ROM built with        *)
(* ENABLE_ZFORTH_BOOT gives control to the Forth interpreter instead of    *)
(* the second.  Nothing comes back: a loader jumps, or it never ends.      *)
(***************************************************************************)
EXTENDS Integers, Sequences

CONSTANTS Pins,                 \* values of bootsel, of which main looks at two bits
          ENABLE_ZFORTH_BOOT, Entries,
          WORD, BLOCK, LOADER, MAX_NB_AREA, L2, Top, MaxSegments, MaxLen,   \* BootFlash
          MAX, SrecTop, Files, MaxLost                                      \* SrecLoader

VARIABLES bootsel, bootaddr, running, entry,
  program, pc, nbAreas, mem_area, loader, i, block, area_addr, flash_addr, size, iter_size,
  flash_buffer, udma, event, mem,
  file, text, k, j, lost, srec, call, complaints, srec_mem, target

Qspi == INSTANCE BootFlash
Uart == INSTANCE SrecLoader WITH Top <- SrecTop, mem <- srec_mem

ASSUME BootAssumption == Qspi!BootFlashAssumption /\ Uart!SrecAssumption

qspiVars == <<program, pc, nbAreas, mem_area, loader, i, block, area_addr, flash_addr, size,
              iter_size, flash_buffer, udma, event, mem>>
uartVars == <<file, text, k, j, lost, srec, call, complaints, srec_mem, target>>
mainVars == <<bootsel, bootaddr, running, entry>>

\* main: the switch over the pins.
main ==
  /\ running = "main"
  /\ running' = CASE bootsel % 4 = 0 -> IF ENABLE_ZFORTH_BOOT THEN "zforth" ELSE "uart"
                  [] bootsel % 4 = 1 -> "jtag"
                  [] bootsel % 4 = 2 -> "qspi"
                  [] bootsel % 4 = 3 -> "preloaded"
  /\ UNCHANGED <<bootsel, bootaddr, entry, qspiVars, uartVars>>

\* boot_preloaded: the entry is in a register, where the host has put it.
boot_preloaded ==
  /\ running = "preloaded"
  /\ running' = "program" /\ entry' = bootaddr
  /\ UNCHANGED <<bootsel, bootaddr, qspiVars, uartVars>>

\* jump_to_entry takes both from the image's header: the entry, and the address it
\* leaves in the boot address register.
Loaded ==
  \/ /\ running = "qspi" /\ pc = "jumped"
     /\ bootaddr' \in Entries /\ entry' \in Entries
  \/ /\ running = "uart" /\ target # Uart!Nowhere
     /\ entry' = target /\ UNCHANGED bootaddr

Jump == /\ Loaded /\ running' = "program"
        /\ UNCHANGED <<bootsel, qspiVars, uartVars>>

boot_qspi      == running = "qspi" /\ Qspi!Next /\ UNCHANGED <<mainVars, uartVars>>
boot_srec_uart == running = "uart" /\ Uart!Next /\ UNCHANGED <<mainVars, qspiVars>>

\* What a mode does not read is fixed.
Init == /\ bootsel \in Pins /\ bootaddr \in Entries /\ running = "main" /\ entry = Uart!Nowhere
        /\ program \in (IF bootsel % 4 = 2 THEN Qspi!Programs ELSE {<<>>}) /\ Qspi!Reset
        /\ file \in (IF bootsel % 4 = 0 THEN Files ELSE {CHOOSE f \in Files : TRUE})
        /\ \E garbage \in {0, 255} : (bootsel % 4 = 0 \/ garbage = 0) /\ Uart!BeginRead(garbage)
Next == main \/ boot_preloaded \/ boot_qspi \/ boot_srec_uart \/ Jump
Spec == /\ Init /\ [][Next]_<<mainVars, qspiVars, uartVars>>
        /\ WF_<<mainVars, qspiVars, uartVars>>(Next)
-----------------------------------------------------------------------------
\* The properties of the loaders, stated in their modules.
BootTypeOK      == Qspi!TypeOK /\ Uart!TypeOK
LoaderUntouched == Qspi!LoaderUntouched
MemoryIsProgram == Qspi!ProgramInMemory /\ Qspi!NothingElse
WholeFileLoaded == Uart!WholeFileLoaded
DamageReported  == Uart!DamageReported
Resynchronises  == Uart!Resynchronises

\* Every mode but that of the debugger and the interpreter ends in a program, unless
\* characters of an S-record file have got lost.
Boots == <>(running \in {"program", "jtag", "zforth"} \/ lost # {})
=============================================================================
