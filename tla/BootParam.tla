----------------------------- MODULE BootParam -----------------------------
(***************************************************************************)
(* The boot-parameter record of Drivers/bsp/boot_param.{h,c} and the pure  *)
(* updates that the bootloader (application/main.c) and the application    *)
(* (test_app/app/main.c) make to it.  The magic, version, reserved and     *)
(* crc32 words are abstracted to one distinction: a flash page holds       *)
(* either a complete record or something that fails those checks, Erased.  *)
(***************************************************************************)
EXTENDS Integers

CONSTANTS MaxTrial,  \* BOOT_TRIAL_MAX_BOOT_COUNT, 2 in the code
          Erased     \* page content that fails the magic, version or crc32 test

BOOT_SLOT_INVALID == -1          \* 0xFFFFFFFF

boot_slots == {0, 1}             \* BOOT_SLOT_0, BOOT_SLOT_1

boot_slot_is_valid(slot) == slot \in boot_slots

SlotOrNone == boot_slots \union {BOOT_SLOT_INVALID}

(* The records the program handles, some of which boot_param_is_valid      *)
(* refuses.                                                                *)
boot_param_t ==
    [ active_slot      : SlotOrNone,
      trial_slot       : SlotOrNone,
      confirmed        : {0, 1},
      trial_boot_count : 0..MaxTrial,
      last_boot_slot   : SlotOrNone ]

ASSUME MaxTrialAssumption == MaxTrial \in Nat \ {0}
ASSUME ErasedAssumption   == Erased \notin boot_param_t

boot_param_is_valid(p) ==
    /\ boot_slot_is_valid(p.active_slot)
    /\ p.trial_slot # BOOT_SLOT_INVALID => boot_slot_is_valid(p.trial_slot)
    /\ p.confirmed \in {0, 1}

boot_param_get_default ==
    [ active_slot      |-> 0,
      trial_slot       |-> BOOT_SLOT_INVALID,
      confirmed        |-> 1,
      trial_boot_count |-> 0,
      last_boot_slot   |-> 0 ]

(* boot_param_load: its return code, and the record it leaves in *param.   *)
LoadOk(page) == page # Erased /\ boot_param_is_valid(page)

boot_param_load(page) == IF LoadOk(page) THEN page ELSE boot_param_get_default

(* A trial is armed and not yet confirmed.                                 *)
TrialPending(p) == p.trial_slot # BOOT_SLOT_INVALID /\ p.confirmed = 0

(* Mutant: last_boot_slot is not reset when a trial is armed.              *)
ArmedKeepsLast(p, slot) ==
    [p EXCEPT !.trial_slot = slot, !.confirmed = 0, !.trial_boot_count = 0]

(* boot_set_trial                                                          *)
Armed(p, slot) ==
    [p EXCEPT !.trial_slot = slot, !.confirmed = 0,
              !.trial_boot_count = 0, !.last_boot_slot = BOOT_SLOT_INVALID]

(* boot_set_active, app_confirm and the fallback of boot_select_app_addr    *)
(* make the same five assignments.                                         *)
Committed(p, slot) ==
    [p EXCEPT !.active_slot = slot, !.trial_slot = BOOT_SLOT_INVALID,
              !.confirmed = 1, !.trial_boot_count = 0, !.last_boot_slot = slot]

(* The two rollback branches of boot_select_app_addr.                      *)
RolledBack(p) == Committed(p, p.active_slot)

(* Mutant: the start is not counted.                                       *)
TriedUncounted(p) == [p EXCEPT !.last_boot_slot = p.trial_slot]

(* The branch that starts the trial once more.                             *)
Tried(p) ==
    [p EXCEPT !.last_boot_slot = p.trial_slot,
              !.trial_boot_count = p.trial_boot_count + 1]

(* Mutant: any watchdog reset is blamed on the trial.                      *)
BlamedRegardless(p, wdg_reset) == wdg_reset

(* A watchdog reset is blamed on the trial if that was booted last.        *)
Blamed(p, wdg_reset) == wdg_reset /\ p.last_boot_slot = p.trial_slot

(* Mutant: off by one.                                                     *)
SpentLate(p) == p.trial_boot_count > MaxTrial

Spent(p) == p.trial_boot_count >= MaxTrial
=============================================================================
