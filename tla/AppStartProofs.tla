--------------------------- MODULE AppStartProofs ---------------------------
(***************************************************************************)
(* Proofs about the start of an image, for every memory map, every set of  *)
(* well-linked images and every word width.                                *)
(***************************************************************************)
EXTENDS AppStart, TLAPS

-----------------------------------------------------------------------------
(* The arithmetic.                                                         *)

(* What range_is_valid accepts is the range in numbers that do not wrap,   *)
(* although its sum does: app_reloc.c:46-67.                               *)
THEOREM RangeIsTrue ==
    ASSUME NEW start \in Word, NEW size \in Word, NEW low \in Nat, NEW high \in Word
    PROVE  range_is_valid(start, size, low, high) <=>
             /\ start >= low
             /\ IF size = 0 THEN start <= high ELSE start + size <= high
<1>1. Modulus \in Nat \ {0} BY MemoryAssumption DEF MemoryAssumption
<1>2. CASE size = 0 BY <1>1, <1>2 DEF range_is_valid
<1>3. CASE size # 0 /\ start + size < Modulus
  BY <1>1, <1>3 DEF range_is_valid, Plus, Minus, Word
<1>4. CASE size # 0 /\ start + size >= Modulus
  BY <1>1, <1>4 DEF range_is_valid, Plus, Minus, Word
<1>. QED BY <1>1, <1>2, <1>3, <1>4 DEF Word

(* A sum of words is a word.                                               *)
LEMMA WordsAdd ==
    ASSUME NEW a \in Word, NEW b \in Word
    PROVE  Plus(a, b) \in Word /\ Minus(a, b) \in Word
<1>1. Modulus \in Nat \ {0} BY MemoryAssumption DEF MemoryAssumption
<1>. QED BY <1>1 DEF Plus, Minus, Word

(* Both programs find the same place for what was linked at v in an image  *)
(* at a, by adding the distance from the link address or to it.            *)
LEMMA PlaceIsFound ==
    ASSUME NEW a \in Word, NEW base \in Word, NEW v \in Word,
           v >= base, a + (v - base) < Modulus
    PROVE  /\ Plus(a, Minus(v, base)) = a + (v - base)
           /\ Plus(v, Minus(a, base)) = a + (v - base)
           /\ Minus(a + (v - base), v) = Minus(a, base)
<1>1. Modulus \in Nat \ {0} BY MemoryAssumption DEF MemoryAssumption
<1>. QED BY <1>1 DEF Plus, Minus, Word

(* The flash and the RAM hold words.                                       *)
LEMMA WordsOfFlash ==
    ASSUME NEW a \in FlashWord
    PROVE  /\ a \in Word /\ a + 4 <= APP_RELOC_FLASH_END /\ a % 4 = 0
           /\ a >= BOOT_FLASH_BASE /\ APP_RELOC_FLASH_END < Modulus
           /\ APP_RELOC_FLASH_END \in Nat
BY MemoryAssumption DEF MemoryAssumption, FlashWord, Words, Word, APP_RELOC_FLASH_END

-----------------------------------------------------------------------------
(* The images in the flash.                                                *)

(* Every image is where it was programmed to.                              *)
LoadInv ==
    \A s \in Slot : \A o \in DOMAIN image[s].word : flash[s + o] = image[s].word[o]

(* A word of an image is found at the slot's address plus its offset.      *)
LEMMA FlashHolds ==
    ASSUME TypeOK, LoadInv, NEW s \in Slot, NEW vma \in Nat, NEW size \in Nat,
           image[s].info.link_base \in Nat,
           Holds(image[s], vma, size), NEW o \in Words(0, size)
    PROVE  /\ s + (vma - image[s].info.link_base) + o \in FlashWord
           /\ flash[s + (vma - image[s].info.link_base) + o] = WordAt(image[s], vma + o)
           /\ WordAt(image[s], vma + o) \in Word
<1> DEFINE base == image[s].info.link_base
<1>1. o \in Int /\ s \in Int
  BY SlotAssumption, WordsOfFlash DEF Words, SlotAssumption, Word
<1>2. (vma - base) + o \in DOMAIN image[s].word BY DEF Holds
<1>3. image[s] \in Image BY DEF TypeOK
<1>4. s + ((vma - base) + o) \in FlashWord /\ image[s].word[(vma - base) + o] \in Word
  BY <1>2, <1>3, SlotAssumption DEF SlotAssumption
<1>5. flash[s + ((vma - base) + o)] = image[s].word[(vma - base) + o]
  BY <1>2 DEF LoadInv
<1>6. (vma + o) - base = (vma - base) + o BY <1>1
<1>7. s + ((vma - base) + o) = s + (vma - base) + o BY <1>1
<1>. QED BY <1>4, <1>5, <1>6, <1>7 DEF WordAt

(* An address of the image is a place in its slot, and one of the flash it *)
(* was linked for.                                                         *)
LEMMA InsideIsFlash ==
    ASSUME TypeOK, NEW s \in Slot, image[s].info # NoInfo, NEW v \in Word,
           Inside(image[s], v)
    PROVE  /\ v >= image[s].info.link_base /\ v < APP_RELOC_FLASH_END
           /\ s + (v - image[s].info.link_base) < APP_RELOC_FLASH_END
<1>1. image[s] \in Image BY DEF TypeOK
<1>2. PICK o \in DOMAIN image[s].word : v - image[s].info.link_base \in o..(o + 3)
  BY DEF Inside
<1>3. s + o \in FlashWord /\ o \in Nat BY <1>1, <1>2, SlotAssumption DEF SlotAssumption
<1>4. image[s].info.link_base + o \in FlashWord /\ image[s].info \in app_reloc_info_t
  BY <1>1, <1>2, LinkAssumption DEF LinkAssumption
<1>5. image[s].info.link_base \in Int BY <1>4 DEF app_reloc_info_t, Word
<1>6. s \in Int BY SlotAssumption, WordsOfFlash DEF SlotAssumption, Word
<1>7. s + o + 4 <= APP_RELOC_FLASH_END /\ image[s].info.link_base + o + 4 <= APP_RELOC_FLASH_END
  BY <1>3, <1>4, WordsOfFlash
<1>8. APP_RELOC_FLASH_END \in Int BY <1>3, WordsOfFlash
<1>. QED BY <1>2, <1>3, <1>5, <1>6, <1>7, <1>8 DEF Inside, Word

-----------------------------------------------------------------------------
(* What the linker and app_prepare_exec together know of a running image.  *)
Good(s) == image[s].info # NoInfo /\ Prepared(flash, s, image[s].info)

LEMMA GoodImage ==
    ASSUME TypeOK, NEW s \in Slot, Good(s)
    PROVE  /\ image[s] \in Image /\ image[s].info # NoInfo
           /\ image[s].info \in app_reloc_info_t
           /\ image[s].sym \in [Reset_Handler : Word, _sidata : Word, _sdata : Word,
                                _edata : Word, __bss_end : Word]
           /\ LinkedVectors(image[s]) /\ LinkedData(image[s])
           /\ LinkedTable(image[s]) /\ LinkedAddresses(image[s])
           /\ \A o \in DOMAIN image[s].word : image[s].info.link_base + o \in FlashWord
           /\ validate_reloc_info(s, image[s].info)
           /\ reject_flash_relocation_targets(flash, s, image[s].info)
<1>1. image[s] \in Image BY DEF TypeOK
<1>. QED BY <1>1, LinkAssumption DEF LinkAssumption, Good, Prepared

LEMMA SlotIsWord ==
    ASSUME NEW s \in Slot
    PROVE  s \in FlashWord /\ s \in Word /\ s \in Nat /\ s % 4 = 0
BY SlotAssumption, WordsOfFlash DEF SlotAssumption, Word

(* A table that would run past the end of the flash, or of the memory, is  *)
(* refused, so that every entry that is looked at is the image's own.      *)
LEMMA TableHolds ==
    ASSUME TypeOK, NEW s \in Slot, Good(s), image[s].info.rel_dyn_size # 0
    PROVE  Holds(image[s], image[s].info.rel_dyn_vma, image[s].info.rel_dyn_size)
<1> DEFINE info == image[s].info
<1>1. info \in app_reloc_info_t /\ LinkedTable(image[s]) /\ info # NoInfo BY GoodImage
<1>2. SUFFICES ASSUME Inside(image[s], info.rel_dyn_vma),
                      s + (info.rel_dyn_vma - info.link_base) + info.rel_dyn_size
                        > APP_RELOC_FLASH_END
               PROVE  FALSE
  BY <1>1 DEF LinkedTable
<1>3. /\ info.rel_dyn_vma \in Word /\ info.link_base \in Word /\ info.rel_dyn_size \in Word
  BY <1>1 DEF app_reloc_info_t
<1>4. /\ info.rel_dyn_vma >= info.link_base
      /\ s + (info.rel_dyn_vma - info.link_base) < APP_RELOC_FLASH_END
  BY <1>1, <1>2, <1>3, InsideIsFlash
<1>5. /\ APP_RELOC_FLASH_END \in Word /\ BOOT_FLASH_BASE \in Nat /\ s \in Word
      /\ Modulus \in Nat /\ APP_RELOC_FLASH_END < Modulus
  BY SlotIsWord, MemoryAssumption DEF MemoryAssumption, Word, APP_RELOC_FLASH_END
<1>a. s + (info.rel_dyn_vma - info.link_base) < Modulus
  BY <1>3, <1>4, <1>5 DEF Word
<1>6. Moved(s, info, info.rel_dyn_vma) = s + (info.rel_dyn_vma - info.link_base)
  BY <1>3, <1>4, <1>5, <1>a, PlaceIsFound DEF Moved
<1>7. range_in_flash(Moved(s, info, info.rel_dyn_vma), info.rel_dyn_size)
  BY GoodImage DEF reject_flash_relocation_targets
<1>8. Moved(s, info, info.rel_dyn_vma) \in Word
  BY <1>3, <1>4, <1>5, <1>6, <1>a DEF Word
<1>9. Moved(s, info, info.rel_dyn_vma) + info.rel_dyn_size <= APP_RELOC_FLASH_END
  BY <1>3, <1>5, <1>7, <1>8, RangeIsTrue DEF range_in_flash
<1>. QED BY <1>2, <1>3, <1>5, <1>6, <1>9 DEF Word

(* The entries that are looked at are those of the table that was linked.  *)
LEMMA TableRead ==
    ASSUME TypeOK, LoadInv, NEW s \in Slot, Good(s), NEW j \in Rels(image[s]),
           image[s].info.rel_dyn_size # 0,
           NEW rels, rels = s + (image[s].info.rel_dyn_vma - image[s].info.link_base)
    PROVE  /\ rels = Moved(s, image[s].info, image[s].info.rel_dyn_vma)
           /\ rels = Plus(image[s].info.rel_dyn_vma, Minus(s, image[s].info.link_base))
           /\ r_offset(flash, rels, j) = Target(image[s], j)
           /\ IsRelative(flash, rels, j) <=> j \in Relative(image[s])
           /\ Target(image[s], j) \in Word
<1> DEFINE info == image[s].info
           vma  == image[s].info.rel_dyn_vma
           size == image[s].info.rel_dyn_size
           base == image[s].info.link_base
<1>1. info \in app_reloc_info_t /\ size % 8 = 0 BY GoodImage DEF validate_reloc_info
<1>2. vma \in Word /\ base \in Word /\ size \in Word /\ s \in Word
  BY <1>1, SlotIsWord DEF app_reloc_info_t
<1>3. /\ Modulus \in Nat /\ vma \in Nat /\ base \in Nat /\ size \in Nat /\ s \in Nat /\ j \in Nat
      /\ size < Modulus
  BY <1>2, MemoryAssumption DEF MemoryAssumption, Word, Rels
<1>4. Holds(image[s], vma, size) BY TableHolds
<1>5. j <= size \div 8 - 1 BY DEF Rels
<1>6. 8 * j + 8 <= size
  <2>1. size = 8 * (size \div 8) BY <1>1, <1>3
  <2>. QED BY <1>3, <1>5, <2>1
<1>7. 0 \in Words(0, size) /\ 8 * j \in Words(0, size) /\ 8 * j + 4 \in Words(0, size)
  BY <1>3, <1>6 DEF Words
<1>8. \A o \in Words(0, size) :
        /\ s + (vma - base) + o \in FlashWord
        /\ flash[s + (vma - base) + o] = WordAt(image[s], vma + o)
        /\ WordAt(image[s], vma + o) \in Word
  BY <1>3, <1>4, FlashHolds
<1>9. vma >= base BY <1>4 DEF Holds
<1>10. /\ rels \in FlashWord
       /\ rels + 8 * j \in FlashWord /\ rels + (8 * j + 4) \in FlashWord
  <2>1. rels + 0 = rels /\ rels \in Int BY <1>3
  <2>. QED BY <1>7, <1>8, <2>1
<1>11. rels < Modulus /\ rels + 8 * j < Modulus /\ rels + (8 * j + 4) < Modulus /\ rels \in Nat
  BY <1>3, <1>10, WordsOfFlash DEF Word
<1>12. /\ rels = Moved(s, info, vma) /\ rels = Plus(vma, Minus(s, base))
  BY <1>2, <1>9, <1>11, PlaceIsFound DEF Moved
<1>13. Plus(rels, 8 * j) = rels + 8 * j /\ Plus(rels, 8 * j + 4) = rels + (8 * j + 4)
  BY <1>3, <1>11 DEF Plus
<1>14. vma + (8 * j + 4) = vma + 8 * j + 4 BY <1>3
<1>. QED
  BY <1>7, <1>8, <1>12, <1>13, <1>14 DEF r_offset, IsRelative, Target, Relative

(* No image is accepted whose code holds an address it was linked for.     *)
LEMMA NoLiterals ==
    ASSUME TypeOK, LoadInv, NEW s \in Slot, Good(s)
    PROVE  image[s].literal = {}
<1> DEFINE info == image[s].info
           rels == s + (info.rel_dyn_vma - info.link_base)
<1>1. SUFFICES ASSUME image[s].literal # {} PROVE FALSE
  OBVIOUS
<1>2. LinkedAddresses(image[s]) BY GoodImage
<1>3. info.rel_dyn_size # 0 BY <1>1, <1>2 DEF LinkedAddresses
<1>4. Holds(image[s], info.rel_dyn_vma, info.rel_dyn_size) BY <1>3, TableHolds
<1>5. info.rel_dyn_size % 8 = 0 BY GoodImage DEF validate_reloc_info
<1>6. PICK j \in Relative(image[s]) :
        /\ range_in_flash(Target(image[s], j), 4)
        /\ ~InVectorTable(info, Target(image[s], j))
        /\ Target(image[s], j) \notin info.entry_vma..(StartupEnd(info) - 1)
  BY <1>1, <1>2, <1>4, <1>5 DEF LinkedAddresses
<1>7. j \in Rels(image[s]) BY DEF Relative
<1>8. /\ rels = Moved(s, info, info.rel_dyn_vma)
      /\ r_offset(flash, rels, j) = Target(image[s], j) /\ IsRelative(flash, rels, j)
  BY <1>3, <1>6, <1>7, TableRead
<1>9. reject_flash_relocation_targets(flash, s, info) BY GoodImage
<1>10. ~InStartup(info, Target(image[s], j))
  <2>1. Target(image[s], j) \in Word
    BY <1>3, <1>7, <1>8, TableRead
  <2>2. info.entry_vma \in Word /\ StartupEnd(info) \in Int
    BY GoodImage, MemoryAssumption DEF app_reloc_info_t, StartupEnd, Plus, Word
  <2>. QED BY <1>6, <2>1, <2>2 DEF InStartup, Word
<1>. QED BY <1>3, <1>6, <1>7, <1>8, <1>9, <1>10 DEF reject_flash_relocation_targets, Rels

-----------------------------------------------------------------------------
(* The vectors.                                                            *)

LEMMA VectorFacts ==
    ASSUME TypeOK, LoadInv, NEW s \in Slot, Good(s),
           NEW source, source = s + (image[s].info.vector_vma - image[s].info.link_base),
           NEW o \in Words(0, image[s].info.vector_size)
    PROVE  /\ source = VectorSource(s, image[s].info)
           /\ source = Plus(image[s].info.vector_vma, Minus(s, image[s].info.link_base))
           /\ source + o \in FlashWord /\ source \in Nat /\ flash[source + o] \in Word
           /\ flash[source + o] = WordAt(image[s], image[s].info.vector_vma + o)
<1> DEFINE info == image[s].info
           vma  == image[s].info.vector_vma
           size == image[s].info.vector_size
           base == image[s].info.link_base
<1>1. info \in app_reloc_info_t /\ LinkedVectors(image[s]) BY GoodImage
<1>2. vma \in Word /\ base \in Word /\ size \in Word /\ s \in Word
  BY <1>1, SlotIsWord DEF app_reloc_info_t
<1>3. Modulus \in Nat /\ vma \in Nat /\ base \in Nat /\ size \in Nat /\ s \in Nat
  BY <1>2, MemoryAssumption DEF MemoryAssumption, Word
<1>4. size >= 8 /\ Holds(image[s], vma, size) BY <1>1 DEF LinkedVectors
<1>5. \A p \in Words(0, size) :
        /\ source + p \in FlashWord
        /\ flash[source + p] = WordAt(image[s], vma + p)
        /\ WordAt(image[s], vma + p) \in Word
  BY <1>3, <1>4, FlashHolds
<1>6. 0 \in Words(0, size) /\ source + 0 = source BY <1>3, <1>4 DEF Words
<1>7. source \in FlashWord BY <1>5, <1>6
<1>8. source < Modulus /\ source \in Nat BY <1>3, <1>7, WordsOfFlash DEF Word
<1>9. vma >= base BY <1>4 DEF Holds
<1>10. source = Plus(s, Minus(vma, base)) /\ source = Plus(vma, Minus(s, base))
  BY <1>2, <1>8, <1>9, PlaceIsFound
<1>. QED BY <1>5, <1>8, <1>10 DEF VectorSource, Moved

(* What boot and startup make of a vector.                                 *)
LEMMA VectorsMove ==
    ASSUME TypeOK, LoadInv, NEW s \in Slot, Good(s),
           NEW o \in Words(4, image[s].info.vector_size),
           NEW raw, raw = WordAt(image[s], image[s].info.vector_vma + o), raw \in Word
    PROVE  /\ MovedHandler(image[s].info, Minus(s, image[s].info.link_base), raw) =
                IF o \in image[s].handler THEN s + (raw - image[s].info.link_base) ELSE raw
           /\ MovedHandler(image[s].info, Minus(s, image[s].info.link_base), raw) \in Word
<1> DEFINE info == image[s].info
           base == image[s].info.link_base
<1>1. info \in app_reloc_info_t /\ LinkedVectors(image[s]) /\ info # NoInfo BY GoodImage
<1>2. base \in Word /\ s \in Word BY <1>1, SlotIsWord DEF app_reloc_info_t
<1>3. Modulus \in Nat /\ base \in Nat /\ s \in Nat /\ raw \in Nat /\ APP_RELOC_FLASH_END \in Nat
      /\ APP_RELOC_FLASH_END < Modulus
  BY <1>2, MemoryAssumption DEF MemoryAssumption, Word, APP_RELOC_FLASH_END
<1>4. CASE o \in image[s].handler
  <2>1. Inside(image[s], raw) BY <1>1, <1>4 DEF LinkedVectors
  <2>2. raw >= base /\ raw < APP_RELOC_FLASH_END /\ s + (raw - base) < APP_RELOC_FLASH_END
    BY <1>1, <2>1, InsideIsFlash
  <2>3. Plus(raw, Minus(s, base)) = s + (raw - base)
    BY <1>2, <1>3, <2>2, PlaceIsFound
  <2>. QED BY <1>3, <1>4, <2>2, <2>3 DEF MovedHandler, Word
<1>5. CASE o \notin image[s].handler
  <2>1. ~raw \in base..(APP_RELOC_FLASH_END - 1) BY <1>1, <1>5 DEF LinkedVectors
  <2>. QED BY <1>3, <1>5, <2>1 DEF MovedHandler
<1>. QED BY <1>4, <1>5

(* The bootloader's entry is the running copy's Reset_Handler.             *)
LEMMA EntryIsHere ==
    ASSUME TypeOK, LoadInv, NEW s \in Slot, Good(s)
    PROVE  /\ Entry(flash, s, image[s].info) =
                s + (image[s].sym.Reset_Handler - image[s].info.link_base)
           /\ Entry(flash, s, image[s].info) \in Word
           /\ Minus(Entry(flash, s, image[s].info), image[s].sym.Reset_Handler)
                = Minus(s, image[s].info.link_base)
<1> DEFINE info == image[s].info
           base == image[s].info.link_base
           source == s + (info.vector_vma - base)
           raw  == image[s].sym.Reset_Handler
<1>1. info \in app_reloc_info_t /\ LinkedVectors(image[s]) /\ info # NoInfo /\ raw \in Word
  BY GoodImage
<1>2. info.vector_size \in Word /\ base \in Word /\ s \in Word
  BY <1>1, SlotIsWord DEF app_reloc_info_t
<1>3. /\ Modulus \in Nat /\ base \in Nat /\ s \in Nat /\ raw \in Nat /\ APP_RELOC_FLASH_END \in Nat
      /\ APP_RELOC_FLASH_END < Modulus /\ info.vector_size \in Nat
  BY <1>1, <1>2, MemoryAssumption DEF MemoryAssumption, Word, APP_RELOC_FLASH_END
<1>4. info.vector_size >= 8 /\ 4 \in image[s].handler /\ raw = WordAt(image[s], info.vector_vma + 4)
  BY <1>1 DEF LinkedVectors
<1>5. 4 \in Words(0, info.vector_size) /\ 4 \in Words(4, info.vector_size)
  BY <1>3, <1>4 DEF Words
<1>6. /\ source = VectorSource(s, info) /\ source + 4 \in FlashWord /\ source \in Nat
      /\ flash[source + 4] = raw
  BY <1>4, <1>5, VectorFacts
<1>7. Plus(VectorSource(s, info), 4) = source + 4
  <2>1. source + 4 < Modulus BY <1>3, <1>6, WordsOfFlash DEF Word
  <2>. QED BY <1>6, <2>1 DEF Plus
<1>8. Entry(flash, s, info) = s + (raw - base) /\ Entry(flash, s, info) \in Word
  BY <1>1, <1>4, <1>5, <1>6, <1>7, VectorsMove DEF Entry
<1>9. Inside(image[s], raw) BY <1>1, <1>4, <1>5 DEF LinkedVectors
<1>10. raw >= base /\ s + (raw - base) < Modulus BY <1>1, <1>3, <1>9, InsideIsFlash
<1>11. Minus(s + (raw - base), raw) = Minus(s, base)
  BY <1>1, <1>2, <1>10, PlaceIsFound
<1>. QED BY <1>8, <1>11

-----------------------------------------------------------------------------
(* The data.                                                               *)

(* The variables of the application are words of the RAM in front of the   *)
(* vectors.                                                                *)
LEMMA Layout ==
    ASSUME TypeOK, NEW s \in Slot, Good(s)
    PROVE  /\ image[s].sym._sdata \in Nat /\ image[s].sym._edata \in Nat
           /\ image[s].sym.__bss_end \in Nat /\ image[s].sym._sidata \in Nat
           /\ image[s].sym._sdata <= image[s].sym._edata
           /\ image[s].sym._edata <= image[s].sym.__bss_end
           /\ image[s].sym.__bss_end <= APP_VTOR_RAM_BASE /\ APP_VTOR_RAM_BASE \in Nat
           /\ image[s].sym._sdata % 4 = 0 /\ image[s].sym._edata % 4 = 0
           /\ image[s].sym.__bss_end % 4 = 0
           /\ \A a \in Words(image[s].sym._sdata, image[s].sym.__bss_end) :
                a \in RamWord /\ a < APP_VTOR_RAM_BASE
           /\ image[s].info.vector_size \in Nat /\ image[s].info.vector_size >= 8
           /\ image[s].info.vector_size % 4 = 0
           /\ \A o \in Words(0, image[s].info.vector_size) : APP_VTOR_RAM_BASE + o \in RamWord
<1> DEFINE sym == image[s].sym
           size == image[s].info.vector_size
<1>1. /\ LinkedData(image[s]) /\ LinkedVectors(image[s]) /\ validate_reloc_info(s, image[s].info)
      /\ sym \in [Reset_Handler : Word, _sidata : Word, _sdata : Word, _edata : Word, __bss_end : Word]
      /\ image[s].info \in app_reloc_info_t
  BY GoodImage
<1>2. /\ sym._sdata \in Nat /\ sym._edata \in Nat /\ sym.__bss_end \in Nat /\ sym._sidata \in Nat
      /\ size \in Nat
  BY <1>1, MemoryAssumption DEF MemoryAssumption, Word, app_reloc_info_t
<1>3. /\ APP_VTOR_RAM_BASE \in Nat /\ APP_VTOR_RAM_BASE >= BOOT_SRAM_BASE
      /\ APP_VTOR_RAM_BASE + 4 <= APP_RELOC_SRAM_END /\ APP_VTOR_RAM_BASE % 4 = 0
      /\ APP_RELOC_SRAM_END \in Nat /\ BOOT_SRAM_BASE \in Nat
  BY SlotAssumption, MemoryAssumption
  DEF SlotAssumption, MemoryAssumption, RamWord, Words, APP_RELOC_SRAM_END
<1>4. /\ BOOT_SRAM_BASE <= sym._sdata /\ sym._sdata <= sym._edata
      /\ sym._edata <= sym.__bss_end /\ sym.__bss_end <= APP_VTOR_RAM_BASE
      /\ sym._sdata % 4 = 0 /\ sym._edata % 4 = 0 /\ sym.__bss_end % 4 = 0
  BY <1>1 DEF LinkedData
<1>5. \A a \in Words(sym._sdata, sym.__bss_end) : a \in RamWord /\ a < APP_VTOR_RAM_BASE
  BY <1>2, <1>3, <1>4 DEF Words, RamWord
<1>6. size >= 8 /\ size % 4 = 0 /\ APP_VTOR_RAM_BASE + size <= APP_RELOC_SRAM_END
  BY <1>1 DEF LinkedVectors, validate_reloc_info
<1>7. \A o \in Words(0, size) : APP_VTOR_RAM_BASE + o \in RamWord
  BY <1>2, <1>3, <1>6 DEF Words, RamWord
<1>. QED BY <1>2, <1>3, <1>4, <1>5, <1>6, <1>7

(* The initial values are found in the running copy.                       *)
LEMMA InitialFacts ==
    ASSUME TypeOK, LoadInv, NEW s \in Slot, Good(s),
           NEW source, source = s + (image[s].sym._sidata - image[s].info.link_base),
           NEW a \in Words(image[s].sym._sdata, image[s].sym._edata)
    PROVE  /\ source = Plus(image[s].sym._sidata, Minus(s, image[s].info.link_base))
           /\ flash[source + (a - image[s].sym._sdata)] = Initial(image[s], a)
           /\ Initial(image[s], a) \in Word
           /\ image[s].sym._sidata >= image[s].info.link_base
           /\ s + (ImageEnd(image[s]) - image[s].info.link_base) < Modulus
           /\ ImageEnd(image[s]) < Modulus
<1> DEFINE sym  == image[s].sym
           base == image[s].info.link_base
           size == sym._edata - sym._sdata
           o    == a - sym._sdata
<1>1. /\ LinkedData(image[s]) /\ image[s].info \in app_reloc_info_t
      /\ sym \in [Reset_Handler : Word, _sidata : Word, _sdata : Word, _edata : Word, __bss_end : Word]
      /\ \A p \in DOMAIN image[s].word : base + p \in FlashWord
  BY GoodImage
<1>2. /\ base \in Word /\ s \in Word /\ sym._sidata \in Word
  BY <1>1, SlotIsWord DEF app_reloc_info_t
<1>3. Modulus \in Nat /\ base \in Nat /\ s \in Nat /\ APP_RELOC_FLASH_END < Modulus
      /\ APP_RELOC_FLASH_END \in Nat
  BY <1>2, MemoryAssumption DEF MemoryAssumption, Word, APP_RELOC_FLASH_END
<1>4. /\ sym._sdata \in Nat /\ sym._edata \in Nat /\ sym._sidata \in Nat /\ sym._sdata <= sym._edata
      /\ sym._sdata % 4 = 0 /\ sym._edata % 4 = 0 /\ size \in Nat
  BY Layout
<1>5. Holds(image[s], sym._sidata, size) BY <1>1 DEF LinkedData
<1>6. /\ o \in Words(0, size) /\ 0 \in Words(0, size) /\ size - 4 \in Words(0, size)
      /\ o \in Int
  BY <1>4 DEF Words
<1>7. \A p \in Words(0, size) :
        /\ source + p \in FlashWord
        /\ flash[source + p] = WordAt(image[s], sym._sidata + p)
        /\ WordAt(image[s], sym._sidata + p) \in Word
  BY <1>3, <1>4, <1>5, FlashHolds
<1>8. sym._sidata >= base BY <1>5 DEF Holds
<1>9. source \in Nat /\ source < Modulus
  <2>1. source + 0 \in FlashWord BY <1>6, <1>7
  <2>. QED BY <1>3, <1>4, <1>8, <2>1, WordsOfFlash DEF Word
<1>10. source = Plus(sym._sidata, Minus(s, base))
  BY <1>2, <1>8, <1>9, PlaceIsFound
<1>11. source + size <= APP_RELOC_FLASH_END
  <2>1. source + (size - 4) \in FlashWord BY <1>6, <1>7
  <2>2. source + (size - 4) + 4 <= APP_RELOC_FLASH_END BY <2>1, WordsOfFlash
  <2>. QED BY <1>3, <1>4, <1>9, <2>2
<1>12. sym._sidata + size <= APP_RELOC_FLASH_END
  <2>1. (sym._sidata - base) + (size - 4) \in DOMAIN image[s].word BY <1>5, <1>6 DEF Holds
  <2>2. base + ((sym._sidata - base) + (size - 4)) \in FlashWord BY <1>1, <2>1
  <2>3. base + ((sym._sidata - base) + (size - 4)) + 4 <= APP_RELOC_FLASH_END
    BY <2>2, WordsOfFlash
  <2>. QED BY <1>3, <1>4, <2>3
<1>. QED
  BY <1>3, <1>4, <1>6, <1>7, <1>8, <1>9, <1>10, <1>11, <1>12 DEF Initial, ImageEnd

(* A variable that is a pointer into the image is moved to the running     *)
(* copy, and another is left.                                              *)
LEMMA PointersMove ==
    ASSUME TypeOK, LoadInv, NEW s \in Slot, Good(s), image[s].info.rel_dyn_size # 0,
           NEW a \in Words(image[s].sym._sdata, image[s].sym._edata),
           NEW j \in Relative(image[s]), Target(image[s], j) = a
    PROVE  LET v == Initial(image[s], a) base == image[s].info.link_base
           IN  (IF v >= base /\ v < ImageEnd(image[s]) THEN Plus(v, Minus(s, base)) ELSE v)
                 = IF a \in image[s].pointer THEN s + (v - base) ELSE v
<1> DEFINE base == image[s].info.link_base
           v    == Initial(image[s], a)
<1>1. LinkedAddresses(image[s]) /\ image[s].info \in app_reloc_info_t
      /\ image[s].info.rel_dyn_size % 8 = 0
  BY GoodImage DEF validate_reloc_info
<1>2. Holds(image[s], image[s].info.rel_dyn_vma, image[s].info.rel_dyn_size) BY TableHolds
<1>3. a \in image[s].pointer <=> v \in base..(ImageEnd(image[s]) - 1)
  BY <1>1, <1>2 DEF LinkedAddresses
<1>4. /\ v \in Word /\ image[s].sym._sidata >= base
      /\ s + (ImageEnd(image[s]) - base) < Modulus
  BY InitialFacts
<1>5. /\ base \in Word /\ s \in Word
  BY <1>1, SlotIsWord DEF app_reloc_info_t
<1>6. Modulus \in Nat /\ base \in Nat /\ s \in Nat /\ v \in Nat /\ ImageEnd(image[s]) \in Nat
  BY <1>4, <1>5, Layout, MemoryAssumption DEF MemoryAssumption, Word, ImageEnd
<1>7. CASE v >= base /\ v < ImageEnd(image[s])
  <2>1. s + (v - base) < Modulus BY <1>4, <1>6, <1>7
  <2>2. Plus(v, Minus(s, base)) = s + (v - base) BY <1>4, <1>5, <1>7, <2>1, PlaceIsFound
  <2>. QED BY <1>3, <1>6, <1>7, <2>2
<1>8. CASE ~(v >= base /\ v < ImageEnd(image[s]))
  BY <1>3, <1>6, <1>8
<1>. QED BY <1>7, <1>8

-----------------------------------------------------------------------------
(* The inductive invariant.                                                *)

StartInv == pc # "boot" => Good(app) /\ entry = Here(Sym.Reset_Handler)

PlaceInv == pc \notin {"boot", "Reset_Handler"} => r8 = Minus(app, Info.link_base)

(* Has a variable's relocation been carried out?                           *)
Done(a) == \E j \in Relative(image[app]) : j < i /\ Target(image[app], j) = a

(* While the relocations are carried out a variable has its initial value  *)
(* moved or not yet moved.                                                 *)
HalfMoved(a) ==
    LET initial == Initial(image[app], a)
    IN  ram[a] = IF a >= Sym._edata THEN 0
                 ELSE IF a \in image[app].pointer /\ Done(a) THEN Here(initial) ELSE initial

DataInv ==
    /\ pc = "loop_fill_bss" =>
         \A a \in Words(Sym._sdata, Sym._edata) : ram[a] = Initial(image[app], a)
    /\ pc = "relocate" => \A a \in Words(Sym._sdata, Sym.__bss_end) : HalfMoved(a)
    /\ DataFollowsTheImage

IInv == TypeOK /\ LoadInv /\ StartInv /\ PlaceInv /\ HandlersFollowTheImage /\ DataInv

LEMMA InitIInv == Init => IInv
<1>. SUFFICES ASSUME Init PROVE IInv
  OBVIOUS
<1>1. Modulus \in Nat \ {0} BY MemoryAssumption DEF MemoryAssumption
<1>2. \A s \in Slot : \A o \in DOMAIN image[s].word :
        /\ image[s] \in Image /\ o \in Nat /\ s \in Nat /\ s + o \in FlashWord
        /\ image[s].word[o] \in Word
  BY SlotAssumption, SlotIsWord DEF SlotAssumption, Init
<1>3. ASSUME NEW s \in Slot, NEW o \in DOMAIN image[s].word
      PROVE  flash[s + o] = image[s].word[o]
  <2> DEFINE t == CHOOSE u \in Slot : (s + o) - u \in DOMAIN image[u].word
  <2>1. (s + o) - s = o /\ s + o \in FlashWord BY <1>2, <1>3
  <2>2. t \in Slot /\ (s + o) - t \in DOMAIN image[t].word BY <2>1
  <2>3. t + ((s + o) - t) = s + o BY <1>2, <1>3, <2>2
  <2>4. t = s BY <1>2, <1>3, <2>2, <2>3, SlotAssumption DEF SlotAssumption
  <2>5. flash[s + o] = image[t].word[(s + o) - t] BY <2>1, <2>2 DEF Init
  <2>. QED BY <2>1, <2>4, <2>5
<1>4. flash \in [FlashWord -> Word]
  <2>1. \A a \in FlashWord : \A s \in Slot :
          a - s \in DOMAIN image[s].word => image[s].word[a - s] \in Word
    BY <1>2
  <2>2. Modulus - 1 \in Word BY <1>1 DEF Word
  <2>3. ASSUME NEW a \in FlashWord PROVE flash[a] \in Word
    <3>1. CASE \E s \in Slot : a - s \in DOMAIN image[s].word
      <4> DEFINE t == CHOOSE s \in Slot : a - s \in DOMAIN image[s].word
      <4>1. t \in Slot /\ a - t \in DOMAIN image[t].word BY <3>1
      <4>2. flash[a] = image[t].word[a - t] BY <3>1 DEF Init
      <4>. QED BY <2>1, <4>1, <4>2
    <3>2. CASE ~\E s \in Slot : a - s \in DOMAIN image[s].word
      BY <2>2, <3>2 DEF Init
    <3>. QED BY <3>1, <3>2
  <2>. QED BY <2>3 DEF Init
<1>5. TypeOK
  <2>1. ram \in [RamWord -> Word] BY SlotAssumption DEF SlotAssumption, Init
  <2>2. 0 \in Word BY <1>1 DEF Word
  <2>. QED BY <1>4, <2>1, <2>2 DEF TypeOK, Init
<1>. QED
  BY <1>3, <1>5
  DEF IInv, LoadInv, StartInv, PlaceInv, HandlersFollowTheImage, DataInv,
      DataFollowsTheImage, Init

(* The steps.                                                              *)
LEMMA JumpKeeps ==
    ASSUME IInv, NEW s \in Slot, JumpToApplication(s)
    PROVE  IInv'
<1>. USE DEF IInv
<1>1. /\ image' = image /\ flash' = flash /\ ram' = ram /\ r8' = r8 /\ i' = i /\ app' = s
      /\ pc = "boot"
  BY DEF JumpToApplication, SameLoad
<1>2. LoadInv' BY <1>1 DEF LoadInv
<1>3. CASE Prepared(flash, s, image[s].info)
  <2>1. Good(s) BY <1>3 DEF Good, Prepared
  <2>2. pc' = "Reset_Handler" /\ entry' = Entry(flash, s, image[s].info)
    BY <1>3 DEF JumpToApplication
  <2>3. /\ entry' = s + (image[s].sym.Reset_Handler - image[s].info.link_base)
        /\ entry' \in Word
    BY <2>1, <2>2, EntryIsHere
  <2>4. TypeOK' BY <1>1, <2>2, <2>3 DEF TypeOK
  <2>5. StartInv' BY <1>1, <2>1, <2>3 DEF StartInv, Good, Here, Info, Sym
  <2>. QED
    BY <1>2, <2>2, <2>4, <2>5
    DEF PlaceInv, HandlersFollowTheImage, DataInv, DataFollowsTheImage
<1>4. CASE ~Prepared(flash, s, image[s].info)
  <2>1. pc' = pc /\ entry' = entry BY <1>4 DEF JumpToApplication
  <2>2. TypeOK' BY <1>1, <2>1 DEF TypeOK
  <2>. QED
    BY <1>1, <1>2, <2>1, <2>2
    DEF StartInv, PlaceInv, HandlersFollowTheImage, DataInv, DataFollowsTheImage
<1>. QED BY <1>3, <1>4

LEMMA CopyVectorTableKeeps ==
    ASSUME IInv, CopyVectorTable
    PROVE  IInv'
<1>. USE DEF IInv
<1> DEFINE info == image[app].info
           base == image[app].info.link_base
           size == image[app].info.vector_size
           source == app + (info.vector_vma - base)
<1>1. /\ image' = image /\ flash' = flash /\ entry' = entry /\ i' = i /\ app' = app
      /\ pc = "Reset_Handler" /\ pc' = "loop_copy_data"
      /\ r8' = Minus(entry, image[app].sym.Reset_Handler)
  BY DEF CopyVectorTable, SameLoad, Sym
<1>2. app \in Slot /\ Good(app) BY <1>1 DEF TypeOK, StartInv
<1>3. info \in app_reloc_info_t /\ base \in Word /\ app \in Word /\ info.vector_vma \in Word
  BY <1>2, GoodImage, SlotIsWord DEF app_reloc_info_t
<1>4. r8' = Minus(app, base)
  <2>1. entry = Here(Sym.Reset_Handler) BY <1>1 DEF StartInv
  <2>. QED BY <1>1, <1>2, <2>1, EntryIsHere DEF Here, Info, Sym
<1>5. /\ size \in Nat /\ size >= 8 /\ size % 4 = 0 /\ APP_VTOR_RAM_BASE \in Nat
      /\ \A o \in Words(0, size) : APP_VTOR_RAM_BASE + o \in RamWord
      /\ APP_VTOR_RAM_BASE % 4 = 0
  BY <1>2, Layout, SlotAssumption DEF SlotAssumption, RamWord, Words
<1>6. \A o \in Words(0, size) :
        /\ flash[source + o] \in Word
        /\ flash[source + o] = WordAt(image[app], info.vector_vma + o)
        /\ source = Plus(info.vector_vma, Minus(app, base))
  BY <1>2, VectorFacts
<1>7. 0 \in Words(0, size) BY <1>5 DEF Words
<1>8. source = Plus(info.vector_vma, r8') BY <1>4, <1>6, <1>7
<1>9. ASSUME NEW o \in Words(0, size)
      PROVE  /\ ram'[APP_VTOR_RAM_BASE + o] =
                  IF o \in image[app].handler THEN app + (flash[source + o] - base)
                  ELSE flash[source + o]
             /\ ram'[APP_VTOR_RAM_BASE + o] \in Word
  <2>1. /\ APP_VTOR_RAM_BASE + o \in RamWord /\ (APP_VTOR_RAM_BASE + o) - APP_VTOR_RAM_BASE = o
        /\ APP_VTOR_RAM_BASE + o >= APP_VTOR_RAM_BASE /\ o < size /\ o \in Nat
    BY <1>5 DEF Words
  <2>2. CASE o = 0
    <3>1. 0 \notin image[app].handler
      BY <1>2, GoodImage DEF LinkedVectors, Words
    <3>2. ram'[APP_VTOR_RAM_BASE + o] = flash[source + o]
      BY <1>5, <1>8, <2>1, <2>2 DEF CopyVectorTable, Info
    <3>. QED BY <1>6, <2>2, <3>1, <3>2
  <2>3. CASE o # 0
    <3>1. APP_VTOR_RAM_BASE + o # APP_VTOR_RAM_BASE BY <1>5, <2>1, <2>3
    <3>2. ram'[APP_VTOR_RAM_BASE + o] = MovedHandler(info, Minus(app, base), flash[source + o])
      BY <1>4, <1>8, <2>1, <3>1 DEF CopyVectorTable, Info
    <3>3. o \in Words(4, size) BY <1>5, <2>1, <2>3 DEF Words
    <3>. QED BY <1>2, <1>6, <3>2, <3>3, VectorsMove
  <2>. QED BY <2>2, <2>3
<1>10. ASSUME NEW a \in RamWord PROVE ram'[a] \in Word
  <2>1. CASE a >= APP_VTOR_RAM_BASE /\ a - APP_VTOR_RAM_BASE < size
    <3>1. a \in Int /\ a % 4 = 0 BY DEF RamWord, Words
    <3>2. a - APP_VTOR_RAM_BASE \in Words(0, size)
      BY <1>5, <2>1, <3>1 DEF Words
    <3>3. APP_VTOR_RAM_BASE + (a - APP_VTOR_RAM_BASE) = a BY <1>5, <3>1
    <3>. QED BY <1>9, <3>2, <3>3
  <2>2. CASE ~(a >= APP_VTOR_RAM_BASE /\ a - APP_VTOR_RAM_BASE < size)
    <3>1. ram'[a] = ram[a] BY <2>2 DEF CopyVectorTable, Info
    <3>. QED BY <3>1 DEF TypeOK
  <2>. QED BY <2>1, <2>2
<1>11. TypeOK'
  <2>1. ram' \in [RamWord -> Word] BY <1>10 DEF CopyVectorTable
  <2>2. r8' \in Word BY <1>3, <1>4, WordsAdd
  <2>. QED BY <1>1, <2>1, <2>2 DEF TypeOK
<1>12. LoadInv' /\ StartInv' /\ PlaceInv'
  BY <1>1, <1>2, <1>4 DEF LoadInv, StartInv, PlaceInv, Good, Here, Info, Sym
<1>13. HandlersFollowTheImage'
  BY <1>1, <1>9 DEF HandlersFollowTheImage, Here, Info
<1>. QED BY <1>1, <1>11, <1>12, <1>13 DEF DataInv, DataFollowsTheImage

(* A step that leaves the vectors alone leaves the handlers.               *)
LEMMA VectorsStay ==
    ASSUME IInv, image' = image, flash' = flash, app' = app,
           pc \notin {"boot", "Reset_Handler"},
           \A a \in RamWord : a >= APP_VTOR_RAM_BASE => ram'[a] = ram[a]
    PROVE  HandlersFollowTheImage'
<1>1. app \in Slot /\ Good(app) BY DEF IInv, TypeOK, StartInv
<1>2. \A o \in Words(0, image[app].info.vector_size) :
        ram'[APP_VTOR_RAM_BASE + o] = ram[APP_VTOR_RAM_BASE + o]
  <2>1. /\ \A o \in Words(0, image[app].info.vector_size) : APP_VTOR_RAM_BASE + o \in RamWord
        /\ APP_VTOR_RAM_BASE \in Nat
    BY <1>1, Layout DEF IInv
  <2>. QED BY <2>1 DEF Words
<1>. QED BY <1>2 DEF IInv, HandlersFollowTheImage, Here, Info

LEMMA CopyDataKeeps ==
    ASSUME IInv, CopyData
    PROVE  IInv'
<1>. USE DEF IInv
<1> DEFINE base == image[app].info.link_base
           sym  == image[app].sym
           source == app + (sym._sidata - base)
<1>1. /\ image' = image /\ flash' = flash /\ entry' = entry /\ i' = i /\ app' = app /\ r8' = r8
      /\ pc = "loop_copy_data" /\ pc' = "loop_fill_bss"
  BY DEF CopyData, SameLoad
<1>2. app \in Slot /\ Good(app) /\ r8 = Minus(app, base)
  BY <1>1 DEF TypeOK, StartInv, PlaceInv, Info
<1>3. /\ sym._sdata \in Nat /\ sym._edata \in Nat /\ sym.__bss_end \in Nat
      /\ sym._edata <= sym.__bss_end /\ sym.__bss_end <= APP_VTOR_RAM_BASE /\ APP_VTOR_RAM_BASE \in Nat
      /\ sym._sdata % 4 = 0 /\ sym._edata % 4 = 0
      /\ \A a \in Words(sym._sdata, sym.__bss_end) : a \in RamWord /\ a < APP_VTOR_RAM_BASE
  BY <1>2, Layout
<1>4. ASSUME NEW a \in Words(sym._sdata, sym._edata)
      PROVE  ram'[a] = Initial(image[app], a) /\ ram'[a] \in Word
  <2>1. a \in Words(sym._sdata, sym.__bss_end) /\ a \in sym._sdata..(sym._edata - 1)
    BY <1>3 DEF Words
  <2>2. /\ source = Plus(sym._sidata, r8)
        /\ flash[source + (a - sym._sdata)] = Initial(image[app], a)
        /\ Initial(image[app], a) \in Word
    BY <1>2, InitialFacts
  <2>. QED BY <1>3, <2>1, <2>2 DEF CopyData, Sym
<1>5. ASSUME NEW a \in RamWord, a \notin Words(sym._sdata, sym._edata)
      PROVE  ram'[a] = ram[a]
  <2>1. a \notin sym._sdata..(sym._edata - 1)
    BY <1>3, <1>5 DEF Words, RamWord
  <2>. QED BY <2>1 DEF CopyData, Sym
<1>6. TypeOK'
  <2>1. \A a \in RamWord : ram'[a] \in Word BY <1>4, <1>5 DEF TypeOK
  <2>2. ram' \in [RamWord -> Word] BY <2>1 DEF CopyData
  <2>. QED BY <1>1, <2>2 DEF TypeOK
<1>7. LoadInv' /\ StartInv' /\ PlaceInv'
  BY <1>1 DEF LoadInv, StartInv, PlaceInv, Good, Here, Info, Sym
<1>8. HandlersFollowTheImage'
  <2>1. \A a \in RamWord : a >= APP_VTOR_RAM_BASE => a \notin Words(sym._sdata, sym._edata)
    BY <1>3 DEF Words
  <2>. QED BY <1>1, <1>5, <2>1, VectorsStay
<1>9. DataInv' BY <1>1, <1>4 DEF DataInv, DataFollowsTheImage, Sym
<1>. QED BY <1>6, <1>7, <1>8, <1>9

LEMMA FillBssKeeps ==
    ASSUME IInv, FillBss
    PROVE  IInv'
<1>. USE DEF IInv
<1> DEFINE sym == image[app].sym
<1>1. /\ image' = image /\ flash' = flash /\ entry' = entry /\ i' = 0 /\ app' = app /\ r8' = r8
      /\ pc = "loop_fill_bss" /\ pc' = "relocate"
  BY DEF FillBss, SameLoad
<1>2. app \in Slot /\ Good(app) BY <1>1 DEF TypeOK, StartInv
<1>3. /\ sym._sdata \in Nat /\ sym._edata \in Nat /\ sym.__bss_end \in Nat
      /\ sym.__bss_end <= APP_VTOR_RAM_BASE /\ APP_VTOR_RAM_BASE \in Nat
      /\ sym._edata % 4 = 0
      /\ \A a \in Words(sym._sdata, sym.__bss_end) : a \in RamWord
  BY <1>2, Layout
<1>4. \A a \in RamWord : ram'[a] = IF a \in sym._edata..(sym.__bss_end - 1) THEN 0 ELSE ram[a]
  BY DEF FillBss, Sym
<1>5. TypeOK'
  <2>1. 0 \in Word BY MemoryAssumption DEF MemoryAssumption, Word
  <2>2. ram' \in [RamWord -> Word] BY <2>1 DEF FillBss, TypeOK
  <2>. QED BY <1>1, <2>2 DEF TypeOK
<1>6. LoadInv' /\ StartInv' /\ PlaceInv'
  BY <1>1 DEF LoadInv, StartInv, PlaceInv, Good, Here, Info, Sym
<1>7. HandlersFollowTheImage'
  <2>1. \A a \in RamWord : a >= APP_VTOR_RAM_BASE => ram'[a] = ram[a]
    BY <1>3, <1>4 DEF RamWord, Words
  <2>. QED BY <1>1, <2>1, VectorsStay
<1>8. \A a \in Words(sym._sdata, sym.__bss_end) : HalfMoved(a)'
  <2>1. SUFFICES ASSUME NEW a \in Words(sym._sdata, sym.__bss_end)
                 PROVE  ram'[a] = IF a >= sym._edata THEN 0 ELSE Initial(image[app], a)
    <3>1. ~\E j \in Relative(image[app]) : j < 0 BY DEF Relative, Rels
    <3>. QED BY <1>1, <2>1, <3>1 DEF HalfMoved, Done, Sym
  <2>2. a \in RamWord /\ a \in Int /\ a % 4 = 0 /\ a >= sym._sdata /\ a + 4 <= sym.__bss_end
    BY <1>3 DEF Words
  <2>3. CASE a >= sym._edata
    BY <1>3, <1>4, <2>2, <2>3
  <2>4. CASE a < sym._edata
    <3>1. a \in Words(sym._sdata, sym._edata) BY <1>3, <2>2, <2>4 DEF Words
    <3>2. ram[a] = Initial(image[app], a) BY <1>1, <3>1 DEF DataInv, Sym
    <3>. QED BY <1>3, <1>4, <2>2, <2>4, <3>2
  <2>. QED BY <1>3, <2>2, <2>3, <2>4
<1>9. DataInv' BY <1>1, <1>8 DEF DataInv, DataFollowsTheImage, Sym
<1>. QED BY <1>5, <1>6, <1>7, <1>9

LEMMA RelocateWordKeeps ==
    ASSUME IInv, RelocateWord
    PROVE  IInv'
<1>. USE DEF IInv
<1> DEFINE img  == image[app]
           info == image[app].info
           base == image[app].info.link_base
           sym  == image[app].sym
           target == Target(image[app], i)
           moves  == i \in Relative(image[app]) /\ target >= sym._sdata /\ target <= sym.__bss_end - 4
<1>1. /\ image' = image /\ flash' = flash /\ entry' = entry /\ i' = i + 1 /\ app' = app /\ r8' = r8
      /\ pc = "relocate" /\ pc' = "relocate" /\ Relocatable /\ i < RelCount
  BY DEF RelocateWord, SameLoad
<1>2. app \in Slot /\ Good(app) /\ r8 = Minus(app, base) /\ i \in Nat
  BY <1>1 DEF TypeOK, StartInv, PlaceInv, Info
<1>3. /\ sym._sdata \in Nat /\ sym._edata \in Nat /\ sym.__bss_end \in Nat /\ sym._sidata \in Nat
      /\ sym._sdata <= sym._edata /\ sym._edata <= sym.__bss_end /\ sym.__bss_end <= APP_VTOR_RAM_BASE
      /\ APP_VTOR_RAM_BASE \in Nat
      /\ sym._sdata % 4 = 0 /\ sym._edata % 4 = 0 /\ sym.__bss_end % 4 = 0
      /\ \A a \in Words(sym._sdata, sym.__bss_end) : a \in RamWord /\ a < APP_VTOR_RAM_BASE
  BY <1>2, Layout
<1>4. /\ info \in app_reloc_info_t /\ info.rel_dyn_size # 0 /\ LinkedAddresses(img)
      /\ info.rel_dyn_size % 8 = 0 /\ validate_reloc_info(app, info)
  BY <1>1, <1>2, GoodImage DEF Relocatable, Info
<1>5. /\ base \in Word /\ app \in Word /\ info.rel_dyn_size \in Word /\ info.rel_dyn_vma \in Word
  BY <1>2, <1>4, SlotIsWord DEF app_reloc_info_t
<1>6. i \in Rels(img)
  <2>1. info.rel_dyn_size \div 8 \in Int
    BY <1>5, MemoryAssumption DEF MemoryAssumption, Word
  <2>. QED BY <1>1, <1>2, <2>1 DEF RelCount, Rels, Info
<1>7. /\ r_offset(flash, RelTable, i) = target
      /\ IsRelative(flash, RelTable, i) <=> i \in Relative(img)
      /\ target \in Word
  BY <1>2, <1>4, <1>6, TableRead DEF RelTable, Info
<1>8. ram' = IF moves THEN [ram EXCEPT ![target] = Relocated(ram[target])] ELSE ram
  BY <1>7 DEF RelocateWord, Sym
<1>9. Holds(img, info.rel_dyn_vma, info.rel_dyn_size) BY <1>2, <1>4, TableHolds
<1>10. moves => target \in Words(sym._sdata, sym.__bss_end)
  <2>1. target \in Int BY <1>7, MemoryAssumption DEF MemoryAssumption, Word
  <2>2. moves => target \in sym._sdata..(sym.__bss_end - 1) BY <1>3, <2>1
  <2>3. moves => target % 4 = 0 BY <1>4, <1>9, <2>2 DEF LinkedAddresses
  <2>. QED BY <1>3, <2>1, <2>3 DEF Words
<1>11. TypeOK'
  <2>1. \A w \in Word : Relocated(w) \in Word
    <3>1. r8 \in Word BY DEF TypeOK
    <3>. QED BY <3>1, WordsAdd DEF Relocated
  <2>2. ram' \in [RamWord -> Word] BY <1>3, <1>8, <1>10, <2>1 DEF TypeOK
  <2>. QED BY <1>1, <1>2, <2>2 DEF TypeOK
<1>12. LoadInv' /\ StartInv' /\ PlaceInv'
  BY <1>1 DEF LoadInv, StartInv, PlaceInv, Good, Here, Info, Sym
<1>13. HandlersFollowTheImage'
  <2>1. \A a \in RamWord : a >= APP_VTOR_RAM_BASE => ram'[a] = ram[a]
    BY <1>3, <1>8, <1>10 DEF TypeOK, RamWord, Words
  <2>. QED BY <1>1, <2>1, VectorsStay
<1>14. ASSUME NEW a \in Words(sym._sdata, sym.__bss_end) PROVE HalfMoved(a)'
  <2>1. HalfMoved(a) BY <1>1 DEF DataInv, Sym
  <2>2. a \in Int /\ a >= sym._sdata /\ a <= sym.__bss_end - 4 /\ a \in RamWord
    BY <1>3 DEF Words
  <2>3. CASE moves /\ target = a
    <3>1. ram'[a] = Relocated(ram[a]) BY <1>8, <2>2, <2>3 DEF TypeOK
    <3>2. ~Done(a) /\ Done(a)'
      <4>1. Done(a)' BY <1>1, <1>2, <2>3 DEF Done
      <4>2. ASSUME NEW j \in Relative(img), j < i, Target(img, j) = a PROVE FALSE
        <5>1. j = i BY <1>4, <1>9, <2>3, <4>2 DEF LinkedAddresses
        <5>. QED BY <1>2, <4>2, <5>1
      <4>. QED BY <4>1, <4>2 DEF Done
    <3>3. CASE a >= sym._edata
      <4>1. ram[a] = 0 BY <2>1, <3>3 DEF HalfMoved, Sym
      <4>2. base > 0
        <5>1. range_in_flash(base, 4) BY <1>4 DEF validate_reloc_info
        <5>2. base >= BOOT_FLASH_BASE BY <5>1 DEF range_in_flash, range_is_valid
        <5>. QED
          BY <1>5, <5>2, SlotAssumption, MemoryAssumption
          DEF SlotAssumption, MemoryAssumption, Word
      <4>3. Relocated(0) = 0
        BY <1>5, <4>2, MemoryAssumption DEF Relocated, Info, MemoryAssumption, Word
      <4>. QED BY <1>1, <3>1, <3>3, <4>1, <4>3 DEF HalfMoved, Sym
    <3>4. CASE ~(a >= sym._edata)
      <4> DEFINE v == Initial(img, a)
      <4>1. a \in Words(sym._sdata, sym._edata)
        BY <1>3, <2>2, <3>4 DEF Words
      <4>2. ram[a] = v BY <2>1, <3>2, <3>4 DEF HalfMoved, Sym
      <4>3. LinkFlashEnd = ImageEnd(img)
        <5>1. ImageEnd(img) < Modulus BY <1>2, <4>1, InitialFacts
        <5>. QED BY <1>3, <5>1 DEF LinkFlashEnd, ImageEnd, Plus, Sym
      <4>4. Relocated(v) = IF a \in img.pointer THEN app + (v - base) ELSE v
        BY <1>2, <1>4, <2>3, <4>1, <4>3, PointersMove DEF Relocated, Info
      <4>. QED BY <1>1, <3>1, <3>2, <3>4, <4>2, <4>4 DEF HalfMoved, Here, Info, Sym
    <3>. QED BY <3>3, <3>4
  <2>4. CASE ~(moves /\ target = a)
    <3>1. ram'[a] = ram[a] BY <1>8, <2>2, <2>4 DEF TypeOK
    <3>2. Done(a)' <=> Done(a)
      <4>1. ASSUME NEW j \in Relative(img), j < i + 1, Target(img, j) = a PROVE j < i
        <5>1. j # i BY <2>2, <2>4, <4>1
        <5>. QED BY <1>2, <4>1, <5>1 DEF Relative, Rels
      <4>2. ASSUME NEW j \in Relative(img), j < i PROVE j < i + 1
        BY <1>2, <4>2 DEF Relative, Rels
      <4>. QED BY <1>1, <4>1, <4>2 DEF Done
    <3>. QED BY <1>1, <2>1, <3>1, <3>2 DEF HalfMoved, Here, Info, Sym
  <2>. QED BY <2>3, <2>4
<1>15. DataInv' BY <1>1, <1>14 DEF DataInv, DataFollowsTheImage, Sym
<1>. QED BY <1>11, <1>12, <1>13, <1>15

(* No pointer is left when there is nothing to relocate.                   *)
LEMMA NoPointers ==
    ASSUME IInv, pc = "relocate", ~Relocatable
    PROVE  image[app].pointer = {}
<1>. USE DEF IInv
<1> DEFINE img  == image[app]
           info == image[app].info
           base == image[app].info.link_base
           sym  == image[app].sym
<1>1. app \in Slot /\ Good(app) BY DEF TypeOK, StartInv
<1>2. /\ info \in app_reloc_info_t /\ LinkedAddresses(img) /\ info.rel_dyn_size % 8 = 0
      /\ info.rel_ent_size \in {0, 8}
  BY <1>1, GoodImage DEF validate_reloc_info
<1>3. Modulus \in Nat /\ base \in Nat /\ base \in Word /\ info.rel_dyn_size \in Nat
  BY <1>2, MemoryAssumption DEF MemoryAssumption, Word, app_reloc_info_t
<1>4. /\ sym._sdata \in Nat /\ sym._edata \in Nat /\ sym.__bss_end \in Nat /\ sym._sidata \in Nat
      /\ sym._sdata <= sym._edata /\ sym._edata <= sym.__bss_end
      /\ sym._sdata % 4 = 0 /\ sym._edata % 4 = 0
  BY <1>1, Layout
<1>5. info.rel_dyn_size = 0 \/ Holds(img, info.rel_dyn_vma, info.rel_dyn_size)
  BY <1>1, TableHolds
<1>6. img.pointer = {a \in Words(sym._sdata, sym._edata) :
                       /\ \E j \in Relative(img) : Target(img, j) = a
                       /\ Initial(img, a) \in base..(ImageEnd(img) - 1)}
  BY <1>2, <1>5 DEF LinkedAddresses
<1>7. CASE info.rel_dyn_size = 0
  <2>1. Rels(img) = {} BY <1>7 DEF Rels
  <2>. QED BY <1>6, <2>1 DEF Relative
<1>8. CASE info.rel_dyn_size # 0
  <2>1. SUFFICES ASSUME NEW a \in Words(sym._sdata, sym._edata) PROVE FALSE
    BY <1>6
  <2>2. sym._edata - sym._sdata >= 4 BY <1>4 DEF Words
  <2>3. sym._sidata >= base /\ ImageEnd(img) < Modulus BY <1>1, InitialFacts
  <2>4. LinkFlashEnd = sym._sidata + (sym._edata - sym._sdata)
    BY <1>3, <1>4, <2>3 DEF LinkFlashEnd, ImageEnd, Plus, Sym
  <2>5. Relocatable
    BY <1>2, <1>3, <1>4, <1>8, <2>2, <2>3, <2>4 DEF Relocatable, Info, Sym, ImageEnd
  <2>. QED BY <2>5
<1>. QED BY <1>7, <1>8

LEMMA RelocationDoneKeeps ==
    ASSUME IInv, RelocationDone
    PROVE  IInv'
<1>. USE DEF IInv
<1> DEFINE img == image[app]
           sym == image[app].sym
           base == image[app].info.link_base
           source == app + (sym._sidata - base)
<1>1. /\ image' = image /\ flash' = flash /\ entry' = entry /\ i' = i /\ app' = app /\ r8' = r8
      /\ ram' = ram /\ pc = "relocate" /\ pc' = "entry"
  BY DEF RelocationDone, SameLoad
<1>2. app \in Slot /\ Good(app) /\ i \in Nat BY <1>1 DEF TypeOK, StartInv
<1>3. TypeOK' /\ LoadInv' /\ StartInv' /\ PlaceInv'
  BY <1>1 DEF TypeOK, LoadInv, StartInv, PlaceInv, Good, Here, Info, Sym
<1>4. HandlersFollowTheImage' BY <1>1, VectorsStay
<1>5. /\ sym._sdata \in Nat /\ sym._edata \in Nat /\ sym.__bss_end \in Nat
      /\ sym._sdata % 4 = 0 /\ sym._edata % 4 = 0
  BY <1>2, Layout
<1>6. \A a \in img.pointer : Done(a)
  <2>1. CASE Relocatable
    <3>1. i >= RelCount BY <2>1 DEF RelocationDone
    <3>2. /\ img.info \in app_reloc_info_t /\ LinkedAddresses(img)
          /\ img.info.rel_dyn_size % 8 = 0
      BY <1>2, GoodImage DEF validate_reloc_info
    <3>3. \A j \in Rels(img) : j < i
      <4>1. img.info.rel_dyn_size \div 8 \in Int
        BY <3>2, MemoryAssumption DEF MemoryAssumption, Word, app_reloc_info_t
      <4>. QED BY <1>2, <3>1, <4>1 DEF RelCount, Rels, Info
    <3>4. Holds(img, img.info.rel_dyn_vma, img.info.rel_dyn_size)
      BY <1>2, <2>1, TableHolds DEF Relocatable, Info
    <3>5. \A a \in img.pointer : \E j \in Relative(img) : Target(img, j) = a
      BY <3>2, <3>4 DEF LinkedAddresses
    <3>. QED BY <3>3, <3>5 DEF Done, Relative
  <2>2. CASE ~Relocatable
    BY <1>1, <2>2, NoPointers
  <2>. QED BY <2>1, <2>2
<1>7. ASSUME NEW a \in Words(sym._sdata, sym.__bss_end)
      PROVE  ram[a] = IF a >= sym._edata THEN 0
                      ELSE IF a \in img.pointer
                           THEN app + (flash[source + (a - sym._sdata)] - base)
                           ELSE flash[source + (a - sym._sdata)]
  <2>1. HalfMoved(a) BY <1>1 DEF DataInv, Sym
  <2>2. CASE a >= sym._edata BY <2>1, <2>2 DEF HalfMoved, Sym
  <2>3. CASE ~(a >= sym._edata)
    <3>1. a \in Words(sym._sdata, sym._edata) BY <1>5, <2>3 DEF Words
    <3>2. flash[source + (a - sym._sdata)] = Initial(img, a) BY <1>2, <3>1, InitialFacts
    <3>. QED BY <1>6, <2>1, <2>3, <3>2 DEF HalfMoved, Here, Info, Sym
  <2>. QED BY <2>2, <2>3
<1>8. DataFollowsTheImage' BY <1>1, <1>7 DEF DataFollowsTheImage, Here, Info, Sym
<1>. QED BY <1>1, <1>3, <1>4, <1>8 DEF DataInv

LEMMA AppRunsKeeps ==
    ASSUME IInv, AppRuns
    PROVE  IInv'
<1>. USE DEF IInv
<1>1. /\ image' = image /\ flash' = flash /\ entry' = entry /\ i' = i /\ app' = app /\ r8' = r8
      /\ pc \in {"entry", "running"} /\ pc' = "running"
  BY DEF AppRuns, SameLoad
<1>2. PICK a \in Words(Sym._sdata, Sym.__bss_end), w \in StaleWord : ram' = [ram EXCEPT ![a] = w]
  BY DEF AppRuns
<1>3. app \in Slot /\ Good(app) BY <1>1 DEF TypeOK, StartInv
<1>4. a \in RamWord /\ a < APP_VTOR_RAM_BASE /\ a \in Int /\ APP_VTOR_RAM_BASE \in Nat
  BY <1>2, <1>3, Layout DEF Sym, RamWord, Words
<1>5. TypeOK'
  <2>1. w \in Word BY SlotAssumption DEF SlotAssumption
  <2>2. ram' \in [RamWord -> Word] BY <1>2, <2>1 DEF TypeOK
  <2>. QED BY <1>1, <2>2 DEF TypeOK
<1>6. LoadInv' /\ StartInv' /\ PlaceInv'
  BY <1>1 DEF LoadInv, StartInv, PlaceInv, Good, Here, Info, Sym
<1>7. HandlersFollowTheImage'
  <2>1. \A b \in RamWord : b >= APP_VTOR_RAM_BASE => ram'[b] = ram[b]
    BY <1>2, <1>4 DEF TypeOK
  <2>. QED BY <1>1, <2>1, VectorsStay
<1>. QED BY <1>1, <1>5, <1>6, <1>7 DEF DataInv, DataFollowsTheImage

LEMMA ResetKeeps ==
    ASSUME IInv, Reset
    PROVE  IInv'
<1>1. /\ image' = image /\ flash' = flash /\ ram' = ram /\ app' = app
      /\ pc' = "boot" /\ entry' = 0 /\ r8' = 0 /\ i' = 0
  BY DEF Reset, SameLoad
<1>2. 0 \in Word BY MemoryAssumption DEF MemoryAssumption, Word
<1>3. TypeOK' BY <1>1, <1>2 DEF IInv, TypeOK
<1>. QED
  BY <1>1, <1>3
  DEF IInv, LoadInv, StartInv, PlaceInv, HandlersFollowTheImage, DataInv, DataFollowsTheImage

LEMMA StepIInv == IInv /\ [Next]_vars => IInv'
<1>. SUFFICES ASSUME IInv, [Next]_vars PROVE IInv'
  OBVIOUS
<1>1. ASSUME NEW s \in Slot, JumpToApplication(s) PROVE IInv' BY <1>1, JumpKeeps
<1>2. CASE CopyVectorTable BY <1>2, CopyVectorTableKeeps
<1>3. CASE CopyData BY <1>3, CopyDataKeeps
<1>4. CASE FillBss BY <1>4, FillBssKeeps
<1>5. CASE RelocateWord BY <1>5, RelocateWordKeeps
<1>6. CASE RelocationDone BY <1>6, RelocationDoneKeeps
<1>7. CASE AppRuns BY <1>7, AppRunsKeeps
<1>8. CASE Reset BY <1>8, ResetKeeps
<1>9. CASE UNCHANGED vars
  BY <1>9
  DEF vars, IInv, TypeOK, LoadInv, StartInv, PlaceInv, HandlersFollowTheImage, DataInv,
      DataFollowsTheImage, HalfMoved, Done, Good, Here, Info, Sym
<1>. QED BY <1>1, <1>2, <1>3, <1>4, <1>5, <1>6, <1>7, <1>8, <1>9 DEF Next

LEMMA Invariant == Spec => []IInv
BY InitIInv, StepIInv, PTL DEF Spec

-----------------------------------------------------------------------------
(* What is read is in the flash and what is written in the RAM, and no     *)
(* address wraps: JumpToApplication to the application's own code.         *)
THEOREM TypeCorrect == Spec => []TypeOK
<1>1. IInv => TypeOK BY DEF IInv
<1>. QED BY <1>1, Invariant, PTL

(* The bootloader jumps to Reset_Handler of the copy in the slot that was  *)
(* chosen, of an image whose code holds no address it was linked for.      *)
THEOREM TheRightCopyStarts == Spec => []StartsTheRightCopy
<1>1. IInv => StartsTheRightCopy
  BY NoLiterals DEF IInv, StartInv, StartsTheRightCopy, TypeOK
<1>. QED BY <1>1, Invariant, PTL

(* From the copy of the vector table on every handler in the RAM is the    *)
(* running copy's: Reset_Handler and app_runtime_relocate_from_reset.      *)
THEOREM HandlersFollow == Spec => []HandlersFollowTheImage
<1>1. IInv => HandlersFollowTheImage BY DEF IInv
<1>. QED BY <1>1, Invariant, PTL

(* When entry() is called every variable has its initial value, moved to   *)
(* the running copy if it is a pointer into the image, whatever was in the *)
(* RAM and wherever earlier starts were cut off by a reset.                *)
THEOREM DataFollows == Spec => []DataFollowsTheImage
<1>1. IInv => DataFollowsTheImage BY DEF IInv, DataInv
<1>. QED BY <1>1, Invariant, PTL
=============================================================================
