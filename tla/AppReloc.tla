------------------------------ MODULE AppReloc ------------------------------
(***************************************************************************)
(* What the bootloader checks before it starts a position independent      *)
(* image, application/app_reloc.c, in the arithmetic of its unsigned       *)
(* integers.  The board's Modulus is 2^32; every operator is written for   *)
(* any word width.  The thumb bit of code addresses is left out.           *)
(***************************************************************************)
EXTENDS Integers

CONSTANTS Modulus,                         \* how many values a uint32_t has
          BOOT_FLASH_BASE, BOOT_FLASH_SIZE, BOOT_SRAM_BASE, BOOT_SRAM_SIZE,
          APP_RELOC_STARTUP_WINDOW,
          NoInfo                           \* no header was found

APP_RELOC_FLASH_END == BOOT_FLASH_BASE + BOOT_FLASH_SIZE
APP_RELOC_SRAM_END  == BOOT_SRAM_BASE + BOOT_SRAM_SIZE

ASSUME MemoryAssumption ==
    /\ Modulus \in Nat \ {0}
    /\ BOOT_FLASH_BASE \in Nat /\ BOOT_FLASH_SIZE \in Nat
    /\ BOOT_SRAM_BASE \in Nat /\ BOOT_SRAM_SIZE \in Nat
    /\ APP_RELOC_STARTUP_WINDOW \in Nat
    /\ APP_RELOC_FLASH_END < Modulus /\ APP_RELOC_SRAM_END < Modulus

Word == 0..(Modulus - 1)

(* Mutant: the sum is taken in more bits than the word has.                *)
PlusWide(a, b) == a + b

(* Unsigned addition and subtraction.                                      *)
Plus(a, b) == IF a + b < Modulus THEN a + b ELSE a + b - Modulus
Minus(a, b) == IF a >= b THEN a - b ELSE a - b + Modulus

range_is_valid(start, size, low, high) ==
    LET end == Minus(Plus(start, size), 1)
    IN  /\ start >= low
        /\ IF size = 0 THEN start <= high ELSE end >= start /\ end < high

range_in_flash(start, size) ==
    range_is_valid(start, size, BOOT_FLASH_BASE, APP_RELOC_FLASH_END)

range_in_sram(start, size) ==
    range_is_valid(start, size, BOOT_SRAM_BASE, APP_RELOC_SRAM_END)

app_reloc_info_t ==
    [link_base : Word, vector_vma : Word, vector_size : Word, rel_dyn_vma : Word,
     rel_dyn_size : Word, rel_ent_size : Word, entry_vma : Word, got_vma : Word]

validate_reloc_info(app_addr, info) ==
    /\ range_in_flash(app_addr, 4) /\ range_in_flash(info.link_base, 4)
    /\ info.vector_size # 0 /\ info.vector_size % 4 = 0
    /\ info.vector_vma >= info.link_base
    /\ info.rel_ent_size \in {0, 8}
    /\ info.rel_dyn_size % 8 = 0
    /\ info.got_vma # 0 => range_in_sram(info.got_vma, 4)

(* Where something linked at vma lies when the image is at app_addr.       *)
Moved(app_addr, info, vma) == Plus(app_addr, Minus(vma, info.link_base))

(* The relocation table, two words to an entry, and the kind that is       *)
(* applied: R_ARM_RELATIVE.                                                *)
r_offset(flash, rels, i) == flash[Plus(rels, 8 * i)]
IsRelative(flash, rels, i) == flash[Plus(rels, 8 * i + 4)] % 256 = 23

InVectorTable(info, addr) ==
    addr >= info.vector_vma /\ addr < Plus(info.vector_vma, info.vector_size)

(* Mutant: everything behind the vector table counts as startup code.      *)
InStartupOpen(info, addr) == addr >= info.entry_vma

StartupEnd(info) == Plus(info.entry_vma, APP_RELOC_STARTUP_WINDOW + 4)
InStartup(info, addr) == addr >= info.entry_vma /\ addr < StartupEnd(info)

(* No word of the flash would have to be changed, but for the vector table,*)
(* which is copied, and the literals of Reset_Handler.                     *)
reject_flash_relocation_targets(flash, app_addr, info) ==
    LET rels == Moved(app_addr, info, info.rel_dyn_vma)
    IN  \/ info.rel_dyn_size = 0
        \/ /\ info.rel_dyn_vma >= info.link_base
           /\ range_in_flash(rels, info.rel_dyn_size)
           /\ Plus(info.vector_vma, info.vector_size) >= info.vector_vma
           /\ StartupEnd(info) >= info.entry_vma
           /\ \A i \in 0..(info.rel_dyn_size \div 8 - 1) :
                LET target == r_offset(flash, rels, i)
                IN  \/ ~IsRelative(flash, rels, i)
                    \/ InVectorTable(info, target) \/ InStartup(info, target)
                    \/ ~range_in_flash(target, 4)

(* The conditions under which app_prepare_exec returns RT_EOK, and the     *)
(* address it then has Reset_Handler called at.                            *)
VectorSource(app_addr, info) == Moved(app_addr, info, info.vector_vma)

Prepared(flash, app_addr, info) ==
    /\ app_addr >= BOOT_FLASH_BASE /\ app_addr < APP_RELOC_FLASH_END
    /\ info # NoInfo
    /\ validate_reloc_info(app_addr, info)
    /\ reject_flash_relocation_targets(flash, app_addr, info)
    /\ range_in_flash(VectorSource(app_addr, info), info.vector_size)
    /\ flash[VectorSource(app_addr, info)] > BOOT_SRAM_BASE
    /\ flash[VectorSource(app_addr, info)] <= APP_RELOC_SRAM_END

(* Mutant: the lower bound is forgotten.                                   *)
MovedHandlerUnbounded(info, delta, raw) ==
    IF raw < APP_RELOC_FLASH_END THEN Plus(raw, delta) ELSE raw

(* A code address of the vector table, as boot and application move it.    *)
MovedHandler(info, delta, raw) ==
    IF raw >= info.link_base /\ raw < APP_RELOC_FLASH_END THEN Plus(raw, delta) ELSE raw

Entry(flash, app_addr, info) ==
    MovedHandler(info, Minus(app_addr, info.link_base),
                 flash[Plus(VectorSource(app_addr, info), 4)])
=============================================================================
