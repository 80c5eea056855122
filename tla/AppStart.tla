------------------------------ MODULE AppStart ------------------------------
(***************************************************************************)
(* The start of an image from the bootloader's JumpToApplication to the    *)
(* application's entry(): app_prepare_exec, the assembly of Reset_Handler  *)
(* (test_app/app/startup_gd32f30x_hd.s) and the relocation of the RAM in   *)
(* test_app/app/app_runtime_reloc.c.  Two slots hold images, the RAM holds *)
(* whatever was left there, and a reset may come between any two steps and *)
(* any two relocations.                                                    *)
(***************************************************************************)
EXTENDS AppReloc

CONSTANTS Slot,                \* the addresses images are started at
          Image,               \* the images a slot may hold
          APP_VTOR_RAM_BASE,
          StaleWord            \* what the RAM may hold before a start

Words(low, high) == {a \in low..(high - 4) : a % 4 = 0}
FlashWord == Words(BOOT_FLASH_BASE, APP_RELOC_FLASH_END)
RamWord   == Words(BOOT_SRAM_BASE, APP_RELOC_SRAM_END)

(* What the linker script test_app/app/link.ld makes of an image: word is    *)
(* its words by their offset, handler the words of its vector table that   *)
(* are addresses of code, pointer the variables that are initialised with  *)
(* an address of the image, literal the words of its code that hold one.   *)
WordAt(img, vma) == img.word[vma - img.info.link_base]

Holds(img, vma, size) ==
    /\ vma >= img.info.link_base
    /\ \A o \in Words(0, size) : vma - img.info.link_base + o \in DOMAIN img.word

Inside(img, addr) ==
    /\ addr >= img.info.link_base
    /\ \E o \in DOMAIN img.word : addr - img.info.link_base \in o..(o + 3)

Rels(img)      == 0..(img.info.rel_dyn_size \div 8 - 1)
Target(img, j) == WordAt(img, img.info.rel_dyn_vma + 8 * j)
Relative(img)  ==
    {j \in Rels(img) : WordAt(img, img.info.rel_dyn_vma + 8 * j + 4) % 256 = 23}

Initial(img, a) == WordAt(img, img.sym._sidata + (a - img.sym._sdata))
ImageEnd(img)   == img.sym._sidata + (img.sym._edata - img.sym._sdata)

LinkedVectors(img) ==
    LET info == img.info
    IN  /\ info.vector_size >= 8 /\ Holds(img, info.vector_vma, info.vector_size)
        /\ APP_VTOR_RAM_BASE + info.vector_size <= APP_RELOC_SRAM_END
        /\ WordAt(img, info.vector_vma + 4) = img.sym.Reset_Handler
        /\ img.handler = {o \in Words(4, info.vector_size) :
                             Inside(img, WordAt(img, info.vector_vma + o))}
        /\ \A o \in Words(4, info.vector_size) \ img.handler :
             ~WordAt(img, info.vector_vma + o) \in info.link_base..(APP_RELOC_FLASH_END - 1)
        /\ 4 \in img.handler

LinkedData(img) ==
    LET sym == img.sym
    IN  /\ Holds(img, sym._sidata, sym._edata - sym._sdata)
        /\ BOOT_SRAM_BASE <= sym._sdata /\ sym._sdata <= sym._edata
        /\ sym._edata <= sym.__bss_end /\ sym.__bss_end <= APP_VTOR_RAM_BASE
        /\ \A a \in {sym._sdata, sym._edata, sym.__bss_end} : a % 4 = 0

(* The table may be damaged so that it does not end in the image; a good   *)
(* one has an entry for every address, and one only.                       *)
LinkedTable(img) ==
    LET info == img.info
    IN  \/ info.rel_dyn_size = 0
        \/ Holds(img, info.rel_dyn_vma, info.rel_dyn_size)
        \/ /\ Inside(img, info.rel_dyn_vma)
           /\ \A s \in Slot : s + (info.rel_dyn_vma - info.link_base) + info.rel_dyn_size
                                  > APP_RELOC_FLASH_END

LinkedAddresses(img) ==
    LET info == img.info
        good == info.rel_dyn_size % 8 = 0 /\ Holds(img, info.rel_dyn_vma, info.rel_dyn_size)
        sym  == img.sym
    IN  /\ good =>
             /\ \A j, k \in Relative(img) : Target(img, j) = Target(img, k) => j = k
             /\ \A j \in Relative(img) :
                  Target(img, j) \in sym._sdata..(sym.__bss_end - 1) => Target(img, j) % 4 = 0
             /\ img.literal # {} =>
                  \E j \in Relative(img) : /\ Inside(img, Target(img, j))
                                           /\ range_in_flash(Target(img, j), 4)
                                           /\ ~InVectorTable(info, Target(img, j))
                                           /\ ~Target(img, j) \in
                                                  info.entry_vma..(StartupEnd(info) - 1)
        /\ img.literal # {} => info.rel_dyn_size # 0
        /\ good \/ info.rel_dyn_size = 0 =>
             img.pointer = {a \in Words(sym._sdata, sym._edata) :
                              /\ \E j \in Relative(img) : Target(img, j) = a
                              /\ Initial(img, a) \in info.link_base..(ImageEnd(img) - 1)}

ASSUME SlotAssumption ==
    /\ StaleWord \subseteq Word
    /\ BOOT_FLASH_BASE > 0 /\ BOOT_FLASH_BASE % 4 = 0 /\ BOOT_SRAM_BASE % 4 = 0
    /\ APP_VTOR_RAM_BASE \in RamWord
    /\ \A s \in Slot : s \in FlashWord
    /\ \A img \in Image, s \in Slot : \A o \in DOMAIN img.word :
         o \in Nat /\ img.word[o] \in Word /\ s + o \in FlashWord
    /\ \A a, b \in Image, s, t \in Slot :
         \A o \in DOMAIN a.word, p \in DOMAIN b.word : s + o = t + p => s = t

ASSUME LinkAssumption ==
    \A img \in Image :
      img.info # NoInfo =>
        /\ img.info \in app_reloc_info_t
        /\ img.sym \in [Reset_Handler : Word, _sidata : Word, _sdata : Word,
                        _edata : Word, __bss_end : Word]
        /\ \A o \in DOMAIN img.word : img.info.link_base + o \in FlashWord
        /\ LinkedVectors(img) /\ LinkedData(img) /\ LinkedTable(img) /\ LinkedAddresses(img)

VARIABLES image,   \* image[s]: what was linked and programmed into slot s
          flash,   \* the words of the flash
          ram,     \* the words of the RAM
          pc,
          app,     \* the slot being started
          entry,   \* ctx->entry, where the bootloader jumps to
          r8,      \* run address minus link address, as Reset_Handler finds it
          i        \* app_runtime_relocate_from_reset's loop counter

vars == <<image, flash, ram, pc, app, entry, r8, i>>

(* What the running image was linked with: its header, and the addresses   *)
(* its own code knows as literals.                                         *)
Info == image[app].info
Sym  == image[app].sym

SameLoad == UNCHANGED <<image, flash>>

Init ==
    /\ image \in [Slot -> Image]
    /\ flash = [a \in FlashWord |->
                  IF \E s \in Slot : a - s \in DOMAIN image[s].word
                  THEN LET s == CHOOSE s \in Slot : a - s \in DOMAIN image[s].word
                       IN  image[s].word[a - s]
                  ELSE Modulus - 1]
    /\ ram \in [RamWord -> StaleWord]
    /\ pc = "boot" /\ app \in Slot
    /\ entry = 0 /\ r8 = 0 /\ i = 0

JumpToApplication(s) ==
    /\ pc = "boot"
    /\ app' = s
    /\ IF Prepared(flash, s, image[s].info)
       THEN pc' = "Reset_Handler" /\ entry' = Entry(flash, s, image[s].info)
       ELSE UNCHANGED <<pc, entry>>
    /\ UNCHANGED <<ram, r8, i>> /\ SameLoad

(* The code knows its own address from the program counter.  The vector    *)
(* table is copied to the RAM and its addresses of code are moved there;   *)
(* the first word is a stack pointer and stays.                            *)
CopyVectorTable ==
    /\ pc = "Reset_Handler"
    /\ r8' = Minus(entry, Sym.Reset_Handler)
    /\ LET source == Plus(Info.vector_vma, r8')
           shadow == {a \in RamWord : a >= APP_VTOR_RAM_BASE
                                   /\ a - APP_VTOR_RAM_BASE < Info.vector_size}
           raw(a) == flash[source + (a - APP_VTOR_RAM_BASE)]
       IN  ram' = [a \in RamWord |->
                     IF a \notin shadow THEN ram[a]
                     ELSE IF a = APP_VTOR_RAM_BASE THEN raw(a)
                     ELSE MovedHandler(Info, r8', raw(a))]
    /\ pc' = "loop_copy_data"
    /\ UNCHANGED <<app, entry, i>> /\ SameLoad

CopyData ==
    /\ pc = "loop_copy_data"
    /\ LET source == Plus(Sym._sidata, r8)
       IN  ram' = [a \in RamWord |->
                     IF a \in Sym._sdata..(Sym._edata - 1)
                     THEN flash[source + (a - Sym._sdata)] ELSE ram[a]]
    /\ pc' = "loop_fill_bss"
    /\ UNCHANGED <<app, entry, r8, i>> /\ SameLoad

FillBss ==
    /\ pc = "loop_fill_bss"
    /\ ram' = [a \in RamWord |->
                 IF a \in Sym._edata..(Sym.__bss_end - 1) THEN 0 ELSE ram[a]]
    /\ pc' = "relocate" /\ i' = 0
    /\ UNCHANGED <<app, entry, r8>> /\ SameLoad

LinkFlashEnd == Plus(Sym._sidata, Sym._edata - Sym._sdata)
RelCount     == Info.rel_dyn_size \div 8

(* The early returns of app_runtime_relocate_from_reset.                   *)
Relocatable ==
    /\ Info.rel_dyn_size # 0 /\ Info.rel_dyn_size % 8 = 0
    /\ Info.rel_ent_size \in {0, 8}
    /\ Sym._edata >= Sym._sdata
    /\ Sym._sidata <= Modulus - 1 - (Sym._edata - Sym._sdata)
    /\ LinkFlashEnd > Info.link_base /\ LinkFlashEnd >= Sym._sidata
    /\ Sym.__bss_end > Sym._sdata /\ Sym.__bss_end - Sym._sdata >= 4

RelTable == Plus(Info.rel_dyn_vma, r8)

(* Mutant: what the word holds is not looked at.                           *)
RelocatedRegardless(value) == Plus(value, r8)

(* An address of the image becomes the one it runs at.                     *)
Relocated(value) ==
    IF value >= Info.link_base /\ value < LinkFlashEnd THEN Plus(value, r8) ELSE value

(* One turn of the loop: a relocation of a word of the application's RAM.  *)
RelocateWord ==
    /\ pc = "relocate" /\ Relocatable /\ i < RelCount
    /\ LET target == r_offset(flash, RelTable, i)
       IN  ram' = IF /\ IsRelative(flash, RelTable, i)
                     /\ target >= Sym._sdata /\ target <= Sym.__bss_end - 4
                  THEN [ram EXCEPT ![target] = Relocated(ram[target])] ELSE ram
    /\ i' = i + 1
    /\ UNCHANGED <<pc, app, entry, r8>> /\ SameLoad

RelocationDone ==
    /\ pc = "relocate"
    /\ Relocatable => i >= RelCount
    /\ pc' = "entry"
    /\ UNCHANGED <<ram, app, entry, r8, i>> /\ SameLoad

(* The application runs and uses its variables.                            *)
AppRuns ==
    /\ pc \in {"entry", "running"}
    /\ \E a \in Words(Sym._sdata, Sym.__bss_end), w \in StaleWord :
          ram' = [ram EXCEPT ![a] = w]
    /\ pc' = "running"
    /\ UNCHANGED <<app, entry, r8, i>> /\ SameLoad

(* The RAM keeps its contents over a reset.                                *)
Reset ==
    /\ pc # "boot"
    /\ pc' = "boot" /\ entry' = 0 /\ r8' = 0 /\ i' = 0
    /\ UNCHANGED <<ram, app>> /\ SameLoad

Next ==
    \/ \E s \in Slot : JumpToApplication(s)
    \/ CopyVectorTable \/ CopyData \/ FillBss \/ RelocateWord \/ RelocationDone
    \/ AppRuns \/ Reset

Spec == Init /\ [][Next]_vars

-----------------------------------------------------------------------------
TypeOK ==
    /\ image \in [Slot -> Image]
    /\ flash \in [FlashWord -> Word] /\ ram \in [RamWord -> Word]
    /\ pc \in {"boot", "Reset_Handler", "loop_copy_data", "loop_fill_bss",
               "relocate", "entry", "running"}
    /\ app \in Slot /\ entry \in Word /\ r8 \in Word /\ i \in Nat

(* Where a thing linked at vma is in the running copy.                     *)
Here(vma) == app + (vma - Info.link_base)

(* Reset_Handler of the running copy is what the bootloader jumps to, and  *)
(* no image is started whose code would read an unmoved address in flash.  *)
StartsTheRightCopy ==
    pc # "boot" =>
      /\ entry = Here(Sym.Reset_Handler)
      /\ image[app].literal = {}

(* From the copy of the vector table to the application's own code every   *)
(* handler in the RAM table is the running copy's, whatever .data, .bss and*)
(* the relocations write after it.                                         *)
HandlersFollowTheImage ==
    pc \notin {"boot", "Reset_Handler"} =>
      \A o \in Words(0, Info.vector_size) :
        LET linked == flash[Here(Info.vector_vma) + o]
        IN  ram[APP_VTOR_RAM_BASE + o] =
              IF o \in image[app].handler THEN Here(linked) ELSE linked

(* When entry() is called every variable has its initial value, the        *)
(* pointers into the image point into the running copy, and .bss is zero:  *)
(* no address is moved twice or not at all, no number is taken for one,    *)
(* and nothing of the previous run is left.                                *)
DataFollowsTheImage ==
    pc = "entry" =>
      \A a \in Words(Sym._sdata, Sym.__bss_end) :
        LET initial == flash[Here(Sym._sidata) + (a - Sym._sdata)]
        IN  ram[a] = IF a >= Sym._edata THEN 0
                     ELSE IF a \in image[app].pointer THEN Here(initial) ELSE initial
=============================================================================
