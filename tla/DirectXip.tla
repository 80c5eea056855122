----------------------------- MODULE DirectXip -----------------------------
(***************************************************************************)
(* Slot images, and the image choice of MCUboot's direct-XIP loader        *)
(* (application/boot/bootutil/src/loader.c as configured here: two slots,   *)
(* no revert, no dependencies).  An image is abstracted to what the code   *)
(* that inspects or runs it can tell apart:                                *)
(*   hdr  "none"       no valid MCUboot header (raw vectors, erased flash) *)
(*        "signed"     header, hash and signature verify                   *)
(*        "forged"     valid header, but boot_check_image refuses it       *)
(*        "unbootable" valid header that is skipped without an erase (built *)
(*                     for another offset, or flagged non-bootable)        *)
(*   run  "blank"      no plausible vector table                           *)
(*        "rejected"   plausible vectors, app_prepare_exec refuses it      *)
(*        "crash"      dies before it reaches its own wdt_init             *)
(*        "hang"       runs, and may stop feeding the watchdog             *)
(*        "good"       runs and feeds the watchdog                         *)
(*   ver  what boot_compare_version compares                               *)
(***************************************************************************)
EXTENDS Integers

ImageHdr == {"none", "signed", "forged", "unbootable"}
ImageRun == {"blank", "rejected", "crash", "hang", "good"}
Image    == [hdr : ImageHdr, run : ImageRun, ver : Nat]

ErasedImage == [hdr |-> "none", run |-> "blank", ver |-> 0]

(* resolve_slot_app_addr finds a vector table in the slot.                 *)
Resolves(img) == img.run # "blank"

(* app_prepare_exec accepts the image.                                     *)
Prepares(img) == img.run \notin {"blank", "rejected"}

(* boot_get_slot_usage: the slots whose header is valid.                   *)
slot_available(image) == {s \in DOMAIN image : image[s].hdr # "none"}

(* Mutant: the comparison of versions is swapped.                          *)
Oldest(image, avail) ==
    CHOOSE s \in avail :
        \A t \in avail : \/ image[s].ver < image[t].ver
                         \/ image[s].ver = image[t].ver /\ s <= t

(* find_slot_with_highest_version: the first of the newest images.         *)
Newest(image, avail) ==
    CHOOSE s \in avail :
        \A t \in avail : \/ image[s].ver > image[t].ver
                         \/ image[s].ver = image[t].ver /\ s <= t
=============================================================================
