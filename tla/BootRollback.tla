---------------------------- MODULE BootRollback ----------------------------
(***************************************************************************)
(* The rollback state machine of the bootloader (application/main.c), the  *)
(* shell commands an operator may give it, the hand-off to the application *)
(* and the part of the application that takes part in it                   *)
(* (test_app/app/main.c), over the flash page that holds the record        *)
(* (Drivers/bsp/boot_param.c), the watchdog (Drivers/bsp/fwdg.c) and every *)
(* kind of reset.                                                          *)
(*                                                                         *)
(* pc is where the processor is:                                           *)
(*   "reset"    out of reset, before wdt_init                              *)
(*   "loop"     boot's main loop       "shell"   in the finsh callback     *)
(*   "bootgo"   in boot_load_and_validate_images                           *)
(*   "resolve"  boot_select_app_addr, record saved, slot not yet resolved  *)
(*   "prepare"  about to call JumpToApplication                            *)
(*   "entered"  in the application's startup code                          *)
(*   "app"      the application's main loop                                *)
(*   "hung"     the application no longer feeds the watchdog               *)
(*   "program"  boot_param_save, page erased, record not yet complete      *)
(***************************************************************************)
EXTENDS BootParam, DirectXip

CONSTANTS Images,           \* the images a slot may hold
          FlashFaults,      \* TRUE: erase and program may report an error
          APP_AUTO_CONFIRM  \* FALSE in test_app/app/main.c

ASSUME ImagesAssumption == Images \subseteq Image /\ ErasedImage \in Images
ASSUME FlagsAssumption  == FlashFaults \in BOOLEAN /\ APP_AUTO_CONFIRM \in BOOLEAN

VARIABLES
    flash,        \* the parameter page
    image,        \* what each slot holds
    pc,
    next,         \* where boot_param_save returns to
    param,        \* the record in RAM
    sel,          \* the slot being started, or running
    avail,        \* slot_usage[].slot_available
    tickOn,       \* SysTick runs and interrupts are enabled
    elapsed,      \* tick_get() > BOOT_AUTO_START_DELAY_MS
    handoffDone,  \* handoff_done
    wdgFlag,      \* RCU_FLAG_FWDGTRST
    appInvalid,   \* app_is_invalid_flag
    dog,          \* the free watchdog counts
    \* History, read by the properties only:
    manual,       \* the last start was a run_app or boot command
    tries,        \* automatic starts of the trial since it was armed
    elected,      \* the slot last chosen to be the active one
    bitten        \* [slot, manual] of the last start before the watchdog bit

store   == <<flash, image>>
ram     == <<param, avail, tickOn, elapsed, handoffDone, appInvalid>>
hist    == <<tries, elected, bitten>>
vars    == <<flash, image, pc, next, param, sel, avail, tickOn, elapsed,
             handoffDone, wdgFlag, appInvalid, dog, manual, tries, elected, bitten>>

BootPc == {"reset", "loop", "shell", "bootgo", "resolve", "prepare"}
AppPc  == {"entered", "app", "hung"}

TypeOK ==
    /\ flash \in boot_param_t \union {Erased}
    /\ image \in [boot_slots -> Image]
    /\ pc \in BootPc \union AppPc \union {"program"}
    /\ next \in {"shell", "resolve", "prepare", "app"}
    /\ param \in boot_param_t
    /\ sel \in SlotOrNone
    /\ avail \subseteq boot_slots
    /\ {tickOn, elapsed, handoffDone, wdgFlag, appInvalid, dog, manual} \subseteq BOOLEAN
    /\ tries \in 0..(MaxTrial + 1)
    /\ elected \in boot_slots
    /\ bitten \in [slot : SlotOrNone, manual : BOOLEAN]

(* A board with a blank page, or with a record that elects a slot.         *)
Init ==
    /\ flash \in {Erased} \union {Committed(boot_param_get_default, s) : s \in boot_slots}
    /\ image \in [boot_slots -> Images]
    /\ pc = "reset" /\ next = "shell"
    /\ param = boot_param_get_default
    /\ sel = BOOT_SLOT_INVALID
    /\ avail = {}
    /\ tickOn = TRUE /\ elapsed = FALSE /\ handoffDone = FALSE
    /\ wdgFlag = FALSE /\ appInvalid = FALSE /\ dog = FALSE
    /\ manual = FALSE /\ tries = 0
    /\ elected = boot_param_load(flash).active_slot
    /\ bitten = [slot |-> BOOT_SLOT_INVALID, manual |-> FALSE]

-----------------------------------------------------------------------------
(* boot_param_save.  Erasing the first of the two pages destroys the old   *)
(* record; the new one is complete only with its last half-word, the crc.  *)
(* What is computed before the erase lives in RAM, so that a save is two   *)
(* steps: page erased, record complete.  An erase error may leave the old  *)
(* record or destroy it; a program error leaves an incomplete record.      *)
(* No caller looks at the return code.                                     *)
boot_param_save(p, return) ==
    /\ param' = p
    /\ \/ /\ flash' = Erased
          /\ pc' = "program" /\ next' = return
       \/ /\ FlashFaults
          /\ flash' \in {flash, Erased}
          /\ pc' = return /\ UNCHANGED next

ProgramRecord ==
    /\ pc = "program"
    /\ \/ flash' = param
       \/ FlashFaults /\ UNCHANGED flash
    /\ pc' = next
    /\ UNCHANGED <<image, next, ram, sel, wdgFlag, dog, manual, hist>>

-----------------------------------------------------------------------------
(* Startup and the main loop.                                               *)

(* Mutant: the reset flags are left for the application to see.            *)
StartupKeepsFlags ==
    /\ pc = "reset"
    /\ pc' = "loop"
    /\ dog' = ~wdgFlag
    /\ appInvalid' = wdgFlag
    /\ UNCHANGED <<store, next, param, sel, avail, tickOn, elapsed, handoffDone,
                   wdgFlag, manual, hist>>

(* The C runtime clears RAM; wdt_init then starts the watchdog unless it   *)
(* caused this reset, notes which it was, and clears the reset flags.      *)
Startup ==
    /\ pc = "reset"
    /\ pc' = "loop"
    /\ dog' = ~wdgFlag
    /\ appInvalid' = wdgFlag
    /\ wdgFlag' = FALSE
    /\ UNCHANGED <<store, next, param, sel, avail, tickOn, elapsed, handoffDone,
                   manual, hist>>

(* SysTick_Handler moves the tick past the delay.                          *)
WindowElapses ==
    /\ pc \in {"loop", "shell"} /\ tickOn /\ ~elapsed
    /\ elapsed' = TRUE
    /\ UNCHANGED <<store, pc, next, param, sel, avail, tickOn, handoffDone,
                   wdgFlag, appInvalid, dog, manual, hist>>

HandoffDue == pc = "loop" /\ elapsed /\ ~handoffDone

(* rt_timer_check runs the shell's periodic timer, which needs the tick.   *)
(* After it the loop looks at the tick: a hand-off that is due is not put  *)
(* off for the shell.                                                      *)
EnterShell ==
    /\ pc = "loop" /\ tickOn /\ ~HandoffDue
    /\ pc' = "shell"
    /\ UNCHANGED <<store, next, ram, sel, wdgFlag, dog, manual, hist>>

(* finsh_thread_entry returns when there is no more input.                 *)
LeaveShell ==
    /\ pc = "shell"
    /\ pc' = "loop"
    /\ UNCHANGED <<store, next, ram, sel, wdgFlag, dog, manual, hist>>

-----------------------------------------------------------------------------
(* The operator's commands to the bootloader.                               *)

(* A slot argument is a number; parse_slot_arg refuses all but 0 and 1.    *)
SlotArg == boot_slots \union {2}

parse_slot_arg(arg) == boot_slot_is_valid(arg)

(* An unreadable page elects slot 0, as boot_param_get_default does.       *)
Elected == IF LoadOk(flash) THEN elected ELSE 0

boot_set_trial(arg) ==
    /\ pc = "shell" /\ parse_slot_arg(arg)
    /\ boot_param_save(Armed(boot_param_load(flash), arg), "shell")
    /\ tries' = 0
    /\ elected' = Elected
    /\ UNCHANGED <<image, sel, avail, tickOn, elapsed, handoffDone, wdgFlag,
                   appInvalid, dog, manual, bitten>>

boot_set_active(arg) ==
    /\ pc = "shell" /\ parse_slot_arg(arg)
    /\ boot_param_save(Committed(boot_param_load(flash), arg), "shell")
    /\ elected' = arg
    /\ UNCHANGED <<image, sel, avail, tickOn, elapsed, handoffDone, wdgFlag,
                   appInvalid, dog, manual, tries, bitten>>

boot_param_reset ==
    /\ pc = "shell"
    /\ boot_param_save(boot_param_get_default, "shell")
    /\ elected' = 0
    /\ UNCHANGED <<image, sel, avail, tickOn, elapsed, handoffDone, wdgFlag,
                   appInvalid, dog, manual, tries, bitten>>

(* run_app on a slot's address.  A slot without MCUboot magic is jumped to *)
(* as it is; one whose header is broken is refused without a jump, which   *)
(* changes nothing.                                                        *)
run_app(slot) ==
    /\ pc = "shell"
    /\ pc' = "prepare"
    /\ sel' = slot /\ manual' = TRUE
    /\ UNCHANGED <<store, next, ram, wdgFlag, dog, hist>>

(* boot: mcuboot_start enters boot_go, which reads the image headers.      *)
boot ==
    /\ pc = "shell"
    /\ pc' = "bootgo"
    /\ avail' = slot_available(image)
    /\ sel' = BOOT_SLOT_INVALID /\ manual' = TRUE
    /\ UNCHANGED <<store, next, param, tickOn, elapsed, handoffDone, wdgFlag,
                   appInvalid, dog, hist>>

-----------------------------------------------------------------------------
(* boot_load_and_validate_images: one action per outcome of its loop body. *)

BootGoFails ==
    /\ pc = "bootgo" /\ avail = {}
    /\ pc' = "shell"
    /\ UNCHANGED <<store, next, ram, sel, wdgFlag, dog, manual, hist>>

BootGoAccepts ==
    /\ pc = "bootgo" /\ avail # {}
    /\ image[Newest(image, avail)].hdr = "signed"
    /\ sel' = Newest(image, avail)
    /\ pc' = "prepare"
    /\ UNCHANGED <<store, next, ram, wdgFlag, dog, manual, hist>>

BootGoSkips ==
    /\ pc = "bootgo" /\ avail # {}
    /\ image[Newest(image, avail)].hdr = "unbootable"
    /\ avail' = avail \ {Newest(image, avail)}
    /\ UNCHANGED <<store, pc, next, param, sel, tickOn, elapsed, handoffDone,
                   wdgFlag, appInvalid, dog, manual, hist>>

(* An image that fails its check is erased by boot_scramble_slot, whose    *)
(* result nobody looks at.                                                 *)
BootGoScrambles ==
    /\ pc = "bootgo" /\ avail # {}
    /\ LET s == Newest(image, avail) IN
        /\ image[s].hdr = "forged"
        /\ \/ image' = [image EXCEPT ![s] = ErasedImage]
           \/ FlashFaults /\ UNCHANGED image
        /\ avail' = avail \ {s}
    /\ UNCHANGED <<flash, pc, next, param, sel, tickOn, elapsed, handoffDone,
                   wdgFlag, appInvalid, dog, manual, hist>>

-----------------------------------------------------------------------------
(* boot_handoff_by_state: boot_select_app_addr up to the save.              *)

(* The checks repeated after boot_param_load.                              *)
Sanitised(p) ==
    LET a == IF boot_slot_is_valid(p.active_slot) THEN p
             ELSE [p EXCEPT !.active_slot = 0]
        t == IF a.trial_slot # BOOT_SLOT_INVALID /\ ~boot_slot_is_valid(a.trial_slot)
             THEN [a EXCEPT !.trial_slot = BOOT_SLOT_INVALID, !.confirmed = 1,
                            !.trial_boot_count = 0]
             ELSE a
    IN  IF t.confirmed \in {0, 1} THEN t ELSE [t EXCEPT !.confirmed = 1]

Current == Sanitised(boot_param_load(flash))

SelectCommon ==
    /\ handoffDone' = TRUE /\ manual' = FALSE
    /\ UNCHANGED <<image, avail, tickOn, elapsed, wdgFlag, appInvalid, dog,
                   tries, bitten>>

(* No trial: the active slot.  The record is saved only if it was not read *)
(* as it stands.                                                           *)
SelectActive ==
    /\ HandoffDue /\ ~TrialPending(Current)
    /\ sel' = Current.active_slot
    /\ IF flash = Current
       THEN pc' = "resolve" /\ param' = Current /\ UNCHANGED <<flash, next>>
       ELSE boot_param_save(Current, "resolve")
    /\ elected' = Elected
    /\ SelectCommon

(* Mutant: selected_slot is set before the trial is dropped, and kept.     *)
SelectRollbackToTrial ==
    /\ HandoffDue /\ TrialPending(Current)
    /\ Blamed(Current, appInvalid) \/ Spent(Current)
    /\ sel' = Current.trial_slot
    /\ boot_param_save(RolledBack(Current), "resolve")
    /\ UNCHANGED elected
    /\ SelectCommon

SelectRollback ==
    /\ HandoffDue /\ TrialPending(Current)
    /\ Blamed(Current, appInvalid) \/ Spent(Current)
    /\ sel' = Current.active_slot
    /\ boot_param_save(RolledBack(Current), "resolve")
    /\ UNCHANGED elected
    /\ SelectCommon

(* Mutant: the branch forgets to mark the record dirty.                    *)
SelectTrialUnsaved ==
    /\ HandoffDue /\ TrialPending(Current)
    /\ ~Blamed(Current, appInvalid) /\ ~Spent(Current)
    /\ sel' = Current.trial_slot
    /\ pc' = "resolve" /\ param' = Tried(Current) /\ UNCHANGED <<flash, next>>
    /\ UNCHANGED elected
    /\ SelectCommon

SelectTrial ==
    /\ HandoffDue /\ TrialPending(Current)
    /\ ~Blamed(Current, appInvalid) /\ ~Spent(Current)
    /\ sel' = Current.trial_slot
    /\ boot_param_save(Tried(Current), "resolve")
    /\ UNCHANGED elected
    /\ SelectCommon

-----------------------------------------------------------------------------
(* boot_select_app_addr after the save: clear_app_invalid_flag, then the   *)
(* selected slot, else the other one.  With neither, boot_handoff_by_state *)
(* jumps to slot 0's address all the same, where there is no application.  *)

alt_slot(slot) == IF slot = 0 THEN 1 ELSE 0

ResolveSelected ==
    /\ pc = "resolve" /\ Resolves(image[sel])
    /\ pc' = "prepare"
    /\ appInvalid' = FALSE
    /\ UNCHANGED <<store, next, param, sel, avail, tickOn, elapsed,
                   handoffDone, wdgFlag, dog, manual, hist>>

ResolveFallback ==
    /\ pc = "resolve" /\ ~Resolves(image[sel]) /\ Resolves(image[alt_slot(sel)])
    /\ sel' = alt_slot(sel)
    /\ boot_param_save(Committed(param, alt_slot(sel)), "prepare")
    /\ elected' = alt_slot(sel)
    /\ appInvalid' = FALSE
    /\ UNCHANGED <<image, avail, tickOn, elapsed, handoffDone, wdgFlag, dog,
                   manual, tries, bitten>>

ResolveNothing ==
    /\ pc = "resolve" /\ ~Resolves(image[sel]) /\ ~Resolves(image[alt_slot(sel)])
    /\ pc' = "prepare"
    /\ sel' = BOOT_SLOT_INVALID
    /\ appInvalid' = FALSE
    /\ UNCHANGED <<store, next, param, avail, tickOn, elapsed, handoffDone,
                   wdgFlag, dog, manual, hist>>

(* JumpToApplication masks interrupts and stops SysTick first; an image    *)
(* that app_prepare_exec refuses makes it return to its caller like that.  *)
JumpToApplication ==
    /\ pc = "prepare"
    /\ tickOn' = FALSE
    /\ pc' = IF sel # BOOT_SLOT_INVALID /\ Prepares(image[sel]) THEN "entered"
             ELSE IF manual THEN "shell" ELSE "loop"
    /\ tries' = IF ~manual /\ TrialPending(param) /\ tries <= MaxTrial
                THEN tries + 1 ELSE tries
    /\ UNCHANGED <<store, next, param, sel, avail, elapsed, handoffDone,
                   wdgFlag, appInvalid, dog, manual, elected, bitten>>

-----------------------------------------------------------------------------
(* The application.                                                         *)

(* app_confirm: nothing to do when this slot is confirmed already.         *)
Confirmed(page, slot) ==
    /\ LoadOk(page)
    /\ page.active_slot = slot /\ page.trial_slot = BOOT_SLOT_INVALID
    /\ page.confirmed = 1

ConfirmRunning ==
    /\ boot_param_save(Committed(boot_param_load(flash), sel), "app")
    /\ elected' = sel

(* Startup code and wdt_init (the bootloader has cleared the reset flags), *)
(* then main up to its loop.                                               *)
AppStart ==
    /\ pc = "entered" /\ image[sel].run # "crash"
    /\ dog' = (dog \/ ~wdgFlag)
    /\ appInvalid' = wdgFlag
    /\ wdgFlag' = FALSE
    /\ tickOn' = TRUE
    /\ IF APP_AUTO_CONFIRM /\ ~Confirmed(flash, sel)
       THEN ConfirmRunning
       ELSE pc' = "app" /\ UNCHANGED <<flash, next, param, elected>>
    /\ UNCHANGED <<image, sel, avail, elapsed, handoffDone, manual, tries, bitten>>

AppCrash ==
    /\ pc = "entered" /\ image[sel].run = "crash"
    /\ pc' = "hung"
    /\ UNCHANGED <<store, next, ram, sel, wdgFlag, dog, manual, hist>>

AppHang ==
    /\ pc = "app" /\ image[sel].run = "hang"
    /\ pc' = "hung"
    /\ UNCHANGED <<store, next, ram, sel, wdgFlag, dog, manual, hist>>

app_confirm ==
    /\ pc = "app" /\ ~Confirmed(flash, sel)
    /\ ConfirmRunning
    /\ UNCHANGED <<image, sel, avail, tickOn, elapsed, handoffDone, wdgFlag,
                   appInvalid, dog, manual, tries, bitten>>

(* say_hello with an argument keeps the main loop busy past the timeout.   *)
say_hello ==
    /\ pc = "app"
    /\ pc' = "hung"
    /\ UNCHANGED <<store, next, ram, sel, wdgFlag, dog, manual, hist>>

-----------------------------------------------------------------------------
(* Resets.  RAM is lost, and the watchdog stops until it is started again. *)

Reset ==
    /\ pc' = "reset" /\ next' = "shell"
    /\ param' = boot_param_get_default
    /\ sel' = BOOT_SLOT_INVALID /\ avail' = {}
    /\ tickOn' = TRUE /\ elapsed' = FALSE /\ handoffDone' = FALSE
    /\ appInvalid' = FALSE /\ dog' = FALSE /\ manual' = FALSE
    /\ UNCHANGED <<tries, elected>>

PowerCycle ==
    /\ Reset /\ wdgFlag' = FALSE
    /\ UNCHANGED <<store, bitten>>

ResetPin ==
    /\ Reset
    /\ UNCHANGED <<store, wdgFlag, bitten>>

(* NVIC_SystemReset, from either shell.                                    *)
reboot ==
    /\ pc \in {"shell", "app"}
    /\ Reset
    /\ UNCHANGED <<store, wdgFlag, bitten>>

WatchdogReset ==
    /\ Reset
    /\ wdgFlag' = TRUE
    /\ bitten' = [slot |-> sel, manual |-> manual]
    /\ UNCHANGED flash

(* Mutant: the bootloader's main loop feeds the watchdog.                   *)
StrandedButFed == FALSE

(* The main loop can do nothing more: no tick, so no shell, and no         *)
(* automatic start left to make.                                           *)
Stranded == pc = "loop" /\ ~tickOn /\ (handoffDone \/ ~elapsed)

(* The watchdog's 5 s exceed the window and a hand-off, so it bites only    *)
(* where nothing more happens ...                                          *)
WatchdogBites ==
    /\ dog /\ (pc = "hung" \/ Stranded)
    /\ WatchdogReset /\ UNCHANGED image

(* ... or during the erase of a whole slot, which does not feed it         *)
(* (MCUBOOT_WATCHDOG_FEED is empty) and begins with the slot's header.     *)
WatchdogBitesScramble ==
    /\ dog /\ pc = "bootgo" /\ avail # {}
    /\ LET s == Newest(image, avail) IN
        /\ image[s].hdr = "forged"
        /\ image' = [image EXCEPT ![s] = ErasedImage]
    /\ WatchdogReset

(* A debug probe programs a slot while the board is held in reset.         *)
ProgramSlot ==
    /\ pc = "reset"
    /\ \E s \in boot_slots, img \in Images : image' = [image EXCEPT ![s] = img]
    /\ UNCHANGED <<flash, pc, next, ram, sel, wdgFlag, dog, manual, hist>>

-----------------------------------------------------------------------------
BootStep ==
    \/ Startup \/ LeaveShell \/ ProgramRecord
    \/ BootGoFails \/ BootGoAccepts \/ BootGoSkips \/ BootGoScrambles
    \/ SelectActive \/ SelectRollback \/ SelectTrial
    \/ ResolveSelected \/ ResolveFallback \/ ResolveNothing
    \/ JumpToApplication

AppStep == AppStart \/ AppCrash

BootCommand ==
    \/ EnterShell
    \/ \E arg \in SlotArg : boot_set_trial(arg) \/ boot_set_active(arg)
    \/ boot_param_reset
    \/ \E slot \in boot_slots : run_app(slot)
    \/ boot

AppCommand == app_confirm \/ say_hello

Dog == WatchdogBites \/ WatchdogBitesScramble

External == PowerCycle \/ ResetPin \/ reboot \/ ProgramSlot

Next ==
    \/ WindowElapses \/ BootStep \/ AppStep \/ AppHang
    \/ BootCommand \/ AppCommand \/ Dog \/ External

Spec == Init /\ [][Next]_vars

(* SysTick ticks, the processor goes on executing, the watchdog counts.    *)
(* Nothing is assumed of the operator, of resets or of when an image hangs. *)
Fairness ==
    /\ WF_vars(WindowElapses) /\ WF_vars(BootStep)
    /\ WF_vars(AppStep) /\ WF_vars(WatchdogBites)

FairSpec == Spec /\ Fairness

-----------------------------------------------------------------------------
(* Properties.                                                              *)

(* A record is either settled on one slot, or on trial with a count that   *)
(* says whether the trial has been booted yet.  The watchdog branch of     *)
(* boot_select_app_addr relies on the last line to know whom to blame.     *)
WellFormed(p) ==
    /\ boot_param_is_valid(p)
    /\ ~TrialPending(p) => p = Committed(p, p.active_slot)
    /\ TrialPending(p) =>
         p.last_boot_slot = IF p.trial_boot_count > 0
                            THEN p.trial_slot ELSE BOOT_SLOT_INVALID

(* Whatever is interrupted or fails, the page holds a well-formed record   *)
(* or nothing that boot_param_load accepts, and only well-formed records   *)
(* are written (boot_param_save and its seven callers).                    *)
RecordsWellFormed ==
    /\ flash # Erased => WellFormed(flash)
    /\ pc = "program" => WellFormed(param)

(* A trial is started automatically at most MaxTrial times before it is    *)
(* armed again, across any resets, as long as a save that fails does not   *)
(* leave the old record (boot_select_app_addr counts before it starts).    *)
TrialBudget == ~FlashFaults => tries <= MaxTrial

(* What the bootloader starts by itself is the slot last elected (by       *)
(* boot_set_active, boot_param_reset, app_confirm, the fallback or the     *)
(* default of an unreadable page) or the pending trial: in particular      *)
(* never again a trial it has given up.                                    *)
StartsElectedOrTrial ==
    ~FlashFaults /\ pc = "prepare" /\ ~manual =>
        \/ sel = elected
        \/ TrialPending(param) /\ sel = param.trial_slot
        \/ sel = BOOT_SLOT_INVALID

(* When boot_select_app_addr blames a watchdog reset on the trial, the     *)
(* trial was what had been started before the watchdog bit, or no slot     *)
(* could be started, or the operator had started something by hand.        *)
BlamesTrialOrOperator ==
    ~FlashFaults /\ HandoffDue /\ TrialPending(Current) /\ Blamed(Current, appInvalid)
        => bitten.slot \in {Current.trial_slot, BOOT_SLOT_INVALID} \/ bitten.manual

(* An application that got past its own wdt_init is watched, although the  *)
(* bootloader leaves the watchdog off after a watchdog reset: wdt_init of  *)
(* the bootloader clears the flag that wdt_init of the application reads.  *)
AppIsWatched ==
    pc = "app" \/ (pc = "hung" /\ image[sel].run # "crash") => dog

(* The boot command starts the newest of the images that verify, however   *)
(* many it had to skip or erase on the way.                                *)
BootStartsNewestSigned ==
    [][ pc = "bootgo" /\ pc' = "prepare" =>
          /\ image[sel'].hdr = "signed"
          /\ \A s \in boot_slots :
               image[s].hdr = "signed" => image[s].ver <= image[sel'].ver ]_vars

(* The bootloader implements the rollback policy.  The record counts as    *)
(* written from the moment its page is erased.                             *)
PolicyRecord == IF pc = "program" THEN param ELSE boot_param_load(flash)

PolicyChosen ==
    IF \/ manual
       \/ pc \in {"reset", "loop", "shell", "bootgo"}
       \/ pc = "program" /\ next = "shell"
    THEN BOOT_SLOT_INVALID ELSE sel

Policy == INSTANCE RollbackPolicy WITH
    Slot    <- boot_slots,
    None    <- BOOT_SLOT_INVALID,
    Factory <- boot_param_get_default.active_slot,
    active  <- PolicyRecord.active_slot,
    trial   <- IF TrialPending(PolicyRecord) THEN PolicyRecord.trial_slot
               ELSE BOOT_SLOT_INVALID,
    used    <- IF TrialPending(PolicyRecord) THEN PolicyRecord.trial_boot_count ELSE 0,
    writing <- pc = "program",
    chosen  <- PolicyChosen

(* Every step of the code is a step the policy allows, or none.            *)
ImplementsPolicy == Policy!PolicySpec

-----------------------------------------------------------------------------
(* The inductive invariant behind the safety properties above, in parts.   *)

(* The record a start would be decided on once the running save is over.   *)
ToldBooted(p) == TrialPending(p) /\ p.last_boot_slot = p.trial_slot

ControlInv ==
    /\ wdgFlag => pc = "reset"
    /\ pc \in {"resolve", "entered", "app", "hung"} => sel \in boot_slots
    /\ pc = "program" /\ next # "shell" => sel \in boot_slots
    /\ pc = "program" => flash = Erased
    /\ pc = "bootgo" => manual
    /\ pc = "resolve" => ~manual /\ handoffDone
    /\ pc = "program" /\ next \in {"resolve", "prepare"} => ~manual /\ handoffDone
    /\ pc = "program" /\ next = "app" => dog
    /\ AppIsWatched

(* A counted start is counted before it is made, and on flash by then.     *)
CountInv ==
    /\ tries <= MaxTrial
    /\ flash # Erased /\ TrialPending(flash) => tries <= flash.trial_boot_count
    /\ pc = "program" /\ TrialPending(param) =>
         /\ tries <= param.trial_boot_count
         /\ next = "resolve" => tries < param.trial_boot_count
         /\ next # "prepare"
    /\ pc \in {"resolve", "prepare"} /\ ~manual /\ TrialPending(param) =>
         flash = param /\ tries < param.trial_boot_count

(* The record names the elected slot, and what is being started is that    *)
(* slot or the trial.                                                      *)
ElectInv ==
    /\ flash # Erased => flash.active_slot = elected
    /\ pc = "program" => param.active_slot = elected
    /\ \/ pc = "resolve"
       \/ pc = "prepare" /\ ~manual
       \/ pc = "program" /\ next \in {"resolve", "prepare"}
       => \/ sel = elected
          \/ TrialPending(param) /\ sel = param.trial_slot
          \/ pc = "prepare" /\ sel = BOOT_SLOT_INVALID

(* A record that says its trial was booted last was right when it was      *)
(* written, and still is when the watchdog bites.                          *)
BlameInv ==
    /\ pc = "program" /\ ToldBooted(param) => next = "resolve" /\ sel = param.trial_slot
    /\ flash # Erased /\ ToldBooted(flash) =>
         /\ ~manual /\ sel # BOOT_SLOT_INVALID => sel = flash.trial_slot
         /\ wdgFlag \/ (appInvalid /\ ~handoffDone) =>
              bitten.slot \in {flash.trial_slot, BOOT_SLOT_INVALID} \/ bitten.manual

IInv ==
    /\ TypeOK /\ RecordsWellFormed /\ ControlInv
    /\ ~FlashFaults => CountInv /\ ElectInv /\ BlameInv
=============================================================================
