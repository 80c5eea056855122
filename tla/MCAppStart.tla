---------------------------- MODULE MCAppStart ----------------------------
(***************************************************************************)
(* A memory of 256 bytes: flash 32..160 with slots at 48 and 104, RAM      *)
(* 176..208 with .data at 176, .bss at 184 and the vectors at 192.  An     *)
(* image is twelve words: three vectors, the last perhaps reserved,        *)
(* Reset_Handler with its literal, a word of text, two relocations and the *)
(* initial values of .data.                                                *)
(***************************************************************************)
EXTENDS AppStart, Sequences

MCSlot == {48, 104}

Linked(base, irq, rel, data, literal, pointer) ==
    LET words == <<192, base + 12, irq, 0, 0, 0>> \o rel \o data
    IN  [word |-> [o \in Words(0, 48) |-> words[o \div 4 + 1]],
         info |-> [link_base |-> base, vector_vma |-> base, vector_size |-> 12,
                   rel_dyn_vma |-> base + 24, rel_dyn_size |-> 16, rel_ent_size |-> 8,
                   entry_vma |-> base + 12, got_vma |-> 176],
         sym  |-> [Reset_Handler |-> base + 12, _sidata |-> base + 40,
                   _sdata |-> 176, _edata |-> 184, __bss_end |-> 188],
         handler |-> IF irq = 0 THEN {4} ELSE {4, 8}, literal |-> literal, pointer |-> pointer]

(* In order: a vector and a pointer, with a number that looks like one;    *)
(* two pointers, to the first and the last word; a literal of Reset_Handler*)
(* and a relocation of another type; a pointer to RAM; a literal of the    *)
(* text; no image; no relocations; a table that would run past the end of  *)
(* memory; an image linked for the higher slot.                            *)
MCImage ==
    {Linked(32, 52, <<36, 23, 176, 23>>, <<52, 52>>, {}, {176}),
     Linked(32, 0, <<180, 23, 176, 23>>, <<32, 76>>, {}, {176, 180}),
     Linked(32, 52, <<48, 23, 176, 21>>, <<60, 0>>, {}, {}),
     Linked(32, 52, <<180, 23, 176, 23>>, <<44, 184>>, {}, {176}),
     Linked(32, 52, <<52, 23, 176, 23>>, <<52, 52>>, {52}, {176}),
     [Linked(32, 52, <<0, 0, 0, 0>>, <<0, 0>>, {}, {}) EXCEPT !.info = NoInfo],
     [Linked(32, 52, <<0, 0, 0, 0>>, <<12, 0>>, {}, {}) EXCEPT !.info.rel_dyn_size = 0],
     [Linked(32, 52, <<0, 0, 0, 0>>, <<12, 0>>, {52}, {}) EXCEPT !.info.rel_dyn_size = 240],
     Linked(104, 124, <<108, 23, 180, 23>>, <<104, 150>>, {}, {180})}
=============================================================================
