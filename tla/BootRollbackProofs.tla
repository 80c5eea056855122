------------------------- MODULE BootRollbackProofs -------------------------
(***************************************************************************)
(* The safety properties of BootRollback for every value of its constants. *)
(* IInv is inductive; it is proved part by part, one lemma for each part,  *)
(* one step for each action that touches what the part speaks of.          *)
(***************************************************************************)
EXTENDS BootRollback, TLAPS

-----------------------------------------------------------------------------
(* The record and its updates.                                              *)

LEMMA Slots ==
    /\ boot_slots \subseteq SlotOrNone
    /\ BOOT_SLOT_INVALID \in SlotOrNone /\ BOOT_SLOT_INVALID \notin boot_slots
    /\ \A s \in SlotOrNone : s = BOOT_SLOT_INVALID \/ s \in boot_slots
    /\ 0 \in boot_slots
  BY DEF SlotOrNone, boot_slots, BOOT_SLOT_INVALID

(* A record that is committed to a slot already is not changed.             *)
LEMMA CommittedAlready ==
    ASSUME NEW p \in boot_param_t,
           p.trial_slot = BOOT_SLOT_INVALID, p.confirmed = 1,
           p.trial_boot_count = 0, p.last_boot_slot = p.active_slot
    PROVE  p = Committed(p, p.active_slot)
  BY DEF Committed, boot_param_t

(* The factory record is settled on slot 0 (boot_param.c:71-87).            *)
LEMMA DefaultRecord ==
    /\ boot_param_get_default \in boot_param_t
    /\ boot_param_get_default # Erased
    /\ ~TrialPending(boot_param_get_default)
    /\ boot_param_get_default.active_slot = 0
    /\ WellFormed(boot_param_get_default)
  <1>1. boot_param_get_default \in boot_param_t
    BY MaxTrialAssumption, Slots DEF boot_param_get_default, boot_param_t
  <1>2. /\ boot_param_get_default.active_slot = 0
        /\ boot_param_get_default.confirmed = 1
        /\ boot_param_get_default.trial_slot = BOOT_SLOT_INVALID
        /\ boot_param_get_default.trial_boot_count = 0
        /\ boot_param_get_default.last_boot_slot = 0
    BY DEF boot_param_get_default
  <1>3. boot_param_get_default = Committed(boot_param_get_default, 0)
    BY <1>1, <1>2, CommittedAlready
  <1> QED
    BY <1>1, <1>2, <1>3, ErasedAssumption, Slots
       DEF WellFormed, TrialPending, boot_param_is_valid, boot_slot_is_valid

(* boot_param_load returns a record that boot_param_is_valid accepts, and a *)
(* well-formed one if the page holds no other (boot_param.c:89-109).        *)
LEMMA LoadedRecord ==
    ASSUME NEW page \in boot_param_t \union {Erased}
    PROVE  /\ boot_param_load(page) \in boot_param_t
           /\ boot_param_load(page) # Erased
           /\ boot_param_is_valid(boot_param_load(page))
           /\ boot_param_load(page).active_slot \in boot_slots
           /\ (page # Erased => WellFormed(page)) => WellFormed(boot_param_load(page))
  BY DefaultRecord, ErasedAssumption
     DEF boot_param_load, LoadOk, WellFormed, boot_param_is_valid, boot_slot_is_valid

(* The checks boot_select_app_addr repeats after the load (main.c:181-197)  *)
(* change nothing.                                                          *)
LEMMA CurrentIsLoaded ==
    ASSUME flash \in boot_param_t \union {Erased}
    PROVE  Current = boot_param_load(flash)
  BY LoadedRecord DEF Current, Sanitised, boot_param_is_valid

(* A committed record (main.c:470-504) is settled on its slot.              *)
LEMMA CommittedRecord ==
    ASSUME NEW p \in boot_param_t, NEW slot \in SlotOrNone
    PROVE  /\ Committed(p, slot) \in boot_param_t
           /\ Committed(p, slot) # Erased
           /\ ~TrialPending(Committed(p, slot))
           /\ Committed(p, slot).active_slot = slot
           /\ slot \in boot_slots => WellFormed(Committed(p, slot))
  <1>1. 0 \in 0..MaxTrial
    BY MaxTrialAssumption
  <1>2. Committed(p, slot) \in boot_param_t
    BY <1>1, Slots DEF Committed, boot_param_t
  <1>3. /\ Committed(p, slot).active_slot = slot
        /\ Committed(p, slot).confirmed = 1
        /\ Committed(p, slot).trial_slot = BOOT_SLOT_INVALID
    BY DEF Committed, boot_param_t
  <1>4. Committed(p, slot) = Committed(Committed(p, slot), slot)
    BY DEF Committed, boot_param_t
  <1> QED
    BY <1>2, <1>3, <1>4, ErasedAssumption
       DEF WellFormed, TrialPending, boot_param_is_valid, boot_slot_is_valid

(* Arming a trial (main.c:434-467) keeps the active slot and starts the     *)
(* count over.                                                              *)
LEMMA ArmedRecord ==
    ASSUME NEW p \in boot_param_t, NEW slot \in boot_slots
    PROVE  /\ Armed(p, slot) \in boot_param_t
           /\ Armed(p, slot) # Erased
           /\ TrialPending(Armed(p, slot))
           /\ Armed(p, slot).trial_boot_count = 0
           /\ Armed(p, slot).active_slot = p.active_slot
           /\ Armed(p, slot).trial_slot = slot
           /\ ~ToldBooted(Armed(p, slot))
           /\ WellFormed(p) => WellFormed(Armed(p, slot))
  <1>1. 0 \in 0..MaxTrial
    BY MaxTrialAssumption
  <1>2. Armed(p, slot) \in boot_param_t
    BY <1>1, Slots DEF Armed, boot_param_t
  <1>3. /\ Armed(p, slot).active_slot = p.active_slot
        /\ Armed(p, slot).trial_slot = slot
        /\ Armed(p, slot).confirmed = 0
        /\ Armed(p, slot).trial_boot_count = 0
        /\ Armed(p, slot).last_boot_slot = BOOT_SLOT_INVALID
    BY DEF Armed, boot_param_t
  <1> QED
    BY <1>2, <1>3, ErasedAssumption, Slots
       DEF WellFormed, ToldBooted, TrialPending, boot_param_is_valid, boot_slot_is_valid

(* Counting a start of a trial that is not spent (main.c:227-237).          *)
LEMMA TriedRecord ==
    ASSUME NEW p \in boot_param_t, TrialPending(p), ~Spent(p)
    PROVE  /\ Tried(p) \in boot_param_t
           /\ Tried(p) # Erased
           /\ TrialPending(Tried(p))
           /\ Tried(p).trial_boot_count = p.trial_boot_count + 1
           /\ Tried(p).active_slot = p.active_slot
           /\ Tried(p).trial_slot = p.trial_slot
           /\ WellFormed(p) => WellFormed(Tried(p))
  <1>1. p.trial_boot_count \in Nat /\ p.trial_boot_count + 1 \in 0..MaxTrial
    BY MaxTrialAssumption DEF boot_param_t, Spent
  <1>2. Tried(p) \in boot_param_t
    BY <1>1 DEF Tried, boot_param_t
  <1>3. /\ Tried(p).active_slot = p.active_slot
        /\ Tried(p).trial_slot = p.trial_slot
        /\ Tried(p).confirmed = p.confirmed
        /\ Tried(p).trial_boot_count = p.trial_boot_count + 1
        /\ Tried(p).last_boot_slot = p.trial_slot
    BY DEF Tried, boot_param_t
  <1> QED
    BY <1>1, <1>2, <1>3, ErasedAssumption
       DEF WellFormed, TrialPending, boot_param_is_valid, boot_slot_is_valid

(* find_slot_with_highest_version returns one of the slots it chose from    *)
(* (loader.c:2118-2148).                                                    *)
LEMMA NewestIsAvailable ==
    ASSUME image \in [boot_slots -> Image],
           NEW a \in SUBSET boot_slots, a # {}
    PROVE  Newest(image, a) \in a
  <1>1. \A s \in boot_slots : image[s].ver \in Nat
    BY DEF Image
  <1>2. \E s \in a : \A t \in a : \/ image[s].ver > image[t].ver
                                  \/ image[s].ver = image[t].ver /\ s <= t
    <2>1. CASE a = {0} \/ a = {1}
      BY <1>1, <2>1 DEF boot_slots
    <2>2. CASE a = {0, 1}
      BY <1>1, <2>2 DEF boot_slots
    <2> QED
      BY <2>1, <2>2 DEF boot_slots
  <1> QED
    BY <1>2 DEF Newest

-----------------------------------------------------------------------------
(* Type correctness.                                                        *)

LEMMA SaveTyped ==
    ASSUME TypeOK, NEW p \in boot_param_t,
           NEW return \in {"shell", "resolve", "prepare", "app"},
           boot_param_save(p, return)
    PROVE  /\ flash' \in boot_param_t \union {Erased}
           /\ pc' \in BootPc \union AppPc \union {"program"}
           /\ next' \in {"shell", "resolve", "prepare", "app"}
           /\ param' \in boot_param_t
  BY DEF TypeOK, boot_param_save, BootPc, AppPc

LEMMA ResetTyped ==
    ASSUME TypeOK, Reset, UNCHANGED flash,
           image' \in [boot_slots -> Image], wdgFlag' \in BOOLEAN,
           bitten' \in [slot : SlotOrNone, manual : BOOLEAN]
    PROVE  TypeOK'
  BY DefaultRecord, Slots DEF TypeOK, Reset, BootPc

LEMMA ErasedImageTyped == ErasedImage \in Image
  BY DEF ErasedImage, Image, ImageHdr, ImageRun

(* Every step keeps every variable in its type; the slot an application    *)
(* confirms is one because ControlInv says what runs in which slot.        *)
LEMMA TypeStep ==
    ASSUME TypeOK, ControlInv, [Next]_vars
    PROVE  TypeOK'
  <1> USE DEF store, ram, hist
  <1>1. ASSUME WindowElapses PROVE TypeOK'
    BY <1>1 DEF TypeOK, WindowElapses
  <1>2. ASSUME Startup PROVE TypeOK'
    BY <1>2 DEF TypeOK, Startup, BootPc
  <1>3. ASSUME LeaveShell PROVE TypeOK'
    BY <1>3 DEF TypeOK, LeaveShell, BootPc
  <1>4. ASSUME ProgramRecord PROVE TypeOK'
    BY <1>4 DEF TypeOK, ProgramRecord, BootPc, AppPc
  <1>5. ASSUME BootGoFails PROVE TypeOK'
    BY <1>5 DEF TypeOK, BootGoFails, BootPc
  <1>6. ASSUME BootGoAccepts PROVE TypeOK'
    BY <1>6, NewestIsAvailable, Slots DEF TypeOK, BootGoAccepts, BootPc
  <1>7. ASSUME BootGoSkips PROVE TypeOK'
    BY <1>7 DEF TypeOK, BootGoSkips
  <1>8. ASSUME BootGoScrambles PROVE TypeOK'
    BY <1>8, ErasedImageTyped DEF TypeOK, BootGoScrambles
  <1>9. ASSUME SelectActive PROVE TypeOK'
    <2>1. /\ Current \in boot_param_t /\ Current.active_slot \in boot_slots
          /\ Elected \in boot_slots
      BY CurrentIsLoaded, LoadedRecord, Slots DEF TypeOK, Elected
    <2>2. CASE flash = Current
      BY <1>9, <2>1, <2>2, Slots DEF TypeOK, SelectActive, SelectCommon, BootPc
    <2>3. CASE flash # Current
      BY <1>9, <2>1, <2>3, SaveTyped, Slots DEF TypeOK, SelectActive, SelectCommon
    <2> QED
      BY <2>2, <2>3
  <1>10. ASSUME SelectRollback PROVE TypeOK'
    <2>1. RolledBack(Current) \in boot_param_t /\ Current.active_slot \in SlotOrNone
      BY CurrentIsLoaded, LoadedRecord, CommittedRecord, Slots DEF TypeOK, RolledBack
    <2> QED
      BY <1>10, <2>1, SaveTyped DEF TypeOK, SelectRollback, SelectCommon
  <1>11. ASSUME SelectTrial PROVE TypeOK'
    <2>1. Tried(Current) \in boot_param_t /\ Current.trial_slot \in SlotOrNone
      BY <1>11, CurrentIsLoaded, LoadedRecord, TriedRecord
         DEF TypeOK, SelectTrial, boot_param_t
    <2> QED
      BY <1>11, <2>1, SaveTyped DEF TypeOK, SelectTrial, SelectCommon
  <1>12. ASSUME ResolveSelected PROVE TypeOK'
    BY <1>12 DEF TypeOK, ResolveSelected, BootPc
  <1>13. ASSUME ResolveFallback PROVE TypeOK'
    <2>1. alt_slot(sel) \in boot_slots
      BY DEF alt_slot, boot_slots
    <2> QED
      BY <1>13, <2>1, CommittedRecord, SaveTyped, Slots DEF TypeOK, ResolveFallback
  <1>14. ASSUME ResolveNothing PROVE TypeOK'
    BY <1>14, Slots DEF TypeOK, ResolveNothing, BootPc
  <1>15. ASSUME JumpToApplication PROVE TypeOK'
    <2>1. tries' \in 0..(MaxTrial + 1)
      BY <1>15, MaxTrialAssumption DEF TypeOK, JumpToApplication
    <2>2. pc' \in BootPc \union AppPc \union {"program"}
      BY <1>15 DEF JumpToApplication, BootPc, AppPc
    <2> QED
      BY <1>15, <2>1, <2>2 DEF TypeOK, JumpToApplication
  <1>16. ASSUME AppStart PROVE TypeOK'
    <2>1. sel \in boot_slots /\ Committed(boot_param_load(flash), sel) \in boot_param_t
      BY <1>16, LoadedRecord, CommittedRecord, Slots DEF TypeOK, ControlInv, AppStart
    <2>2. CASE ConfirmRunning
      BY <1>16, <2>1, <2>2, SaveTyped DEF TypeOK, AppStart, ConfirmRunning
    <2>3. CASE pc' = "app" /\ UNCHANGED <<flash, next, param, elected>>
      BY <1>16, <2>3 DEF TypeOK, AppStart, AppPc
    <2> QED
      BY <1>16, <2>2, <2>3 DEF AppStart
  <1>17. ASSUME AppCrash PROVE TypeOK'
    BY <1>17 DEF TypeOK, AppCrash, AppPc
  <1>18. ASSUME AppHang PROVE TypeOK'
    BY <1>18 DEF TypeOK, AppHang, AppPc
  <1>19. ASSUME EnterShell PROVE TypeOK'
    BY <1>19 DEF TypeOK, EnterShell, BootPc
  <1>20. ASSUME NEW arg \in SlotArg, boot_set_trial(arg) PROVE TypeOK'
    <2>1. /\ Armed(boot_param_load(flash), arg) \in boot_param_t
          /\ Elected \in boot_slots
      BY <1>20, LoadedRecord, ArmedRecord, Slots
         DEF TypeOK, boot_set_trial, parse_slot_arg, boot_slot_is_valid, Elected
    <2> QED
      BY <1>20, <2>1, SaveTyped, MaxTrialAssumption DEF TypeOK, boot_set_trial
  <1>21. ASSUME NEW arg \in SlotArg, boot_set_active(arg) PROVE TypeOK'
    <2>1. /\ arg \in boot_slots
          /\ Committed(boot_param_load(flash), arg) \in boot_param_t
      BY <1>21, LoadedRecord, CommittedRecord, Slots
         DEF TypeOK, boot_set_active, parse_slot_arg, boot_slot_is_valid
    <2> QED
      BY <1>21, <2>1, SaveTyped DEF TypeOK, boot_set_active
  <1>22. ASSUME boot_param_reset PROVE TypeOK'
    BY <1>22, DefaultRecord, SaveTyped, Slots DEF TypeOK, boot_param_reset
  <1>23. ASSUME NEW slot \in boot_slots, run_app(slot) PROVE TypeOK'
    BY <1>23, Slots DEF TypeOK, run_app, BootPc
  <1>24. ASSUME boot PROVE TypeOK'
    BY <1>24, Slots DEF TypeOK, boot, BootPc, slot_available
  <1>25. ASSUME app_confirm PROVE TypeOK'
    <2>1. sel \in boot_slots /\ Committed(boot_param_load(flash), sel) \in boot_param_t
      BY <1>25, LoadedRecord, CommittedRecord, Slots DEF TypeOK, ControlInv, app_confirm
    <2> QED
      BY <1>25, <2>1, SaveTyped DEF TypeOK, app_confirm, ConfirmRunning
  <1>26. ASSUME say_hello PROVE TypeOK'
    BY <1>26 DEF TypeOK, say_hello, AppPc
  <1>27. ASSUME WatchdogBites PROVE TypeOK'
    BY <1>27, ResetTyped DEF TypeOK, WatchdogBites, WatchdogReset
  <1>28. ASSUME WatchdogBitesScramble PROVE TypeOK'
    <2>1. image' \in [boot_slots -> Image]
      BY <1>28, ErasedImageTyped DEF TypeOK, WatchdogBitesScramble
    <2> QED
      BY <1>28, <2>1, ResetTyped DEF TypeOK, WatchdogBitesScramble, WatchdogReset
  <1>29. ASSUME PowerCycle \/ ResetPin \/ reboot PROVE TypeOK'
    BY <1>29, ResetTyped DEF TypeOK, PowerCycle, ResetPin, reboot
  <1>30. ASSUME ProgramSlot PROVE TypeOK'
    BY <1>30, ImagesAssumption DEF TypeOK, ProgramSlot
  <1>31. ASSUME UNCHANGED vars PROVE TypeOK'
    BY <1>31 DEF TypeOK, vars
  <1> QED
    BY <1>1, <1>2, <1>3, <1>4, <1>5, <1>6, <1>7, <1>8, <1>9, <1>10, <1>11, <1>12,
       <1>13, <1>14, <1>15, <1>16, <1>17, <1>18, <1>19, <1>20, <1>21, <1>22, <1>23,
       <1>24, <1>25, <1>26, <1>27, <1>28, <1>29, <1>30, <1>31
       DEF Next, BootStep, AppStep, BootCommand, AppCommand, Dog, External

-----------------------------------------------------------------------------
(* Well-formed records.                                                     *)

LEMMA SaveWellFormed ==
    ASSUME RecordsWellFormed, NEW p, WellFormed(p), NEW return,
           boot_param_save(p, return)
    PROVE  RecordsWellFormed'
  BY DEF RecordsWellFormed, boot_param_save, WellFormed

(* Every record that is written is well formed; nothing else touches the   *)
(* page, and a reset in the middle of a write leaves it erased.            *)
LEMMA RecordsStep ==
    ASSUME TypeOK, ControlInv, RecordsWellFormed, [Next]_vars
    PROVE  RecordsWellFormed'
  <1> USE DEF store, ram, hist
  <1> DEFINE Loaded == boot_param_load(flash)
  <1>a. /\ Loaded \in boot_param_t /\ WellFormed(Loaded)
        /\ Current = Loaded /\ Loaded.active_slot \in boot_slots
    BY LoadedRecord, CurrentIsLoaded DEF TypeOK, RecordsWellFormed
  <1>b. ASSUME flash' = flash, pc' # "program" PROVE RecordsWellFormed'
    BY <1>b DEF RecordsWellFormed, WellFormed
  <1>1. ASSUME ProgramRecord PROVE RecordsWellFormed'
    BY <1>1 DEF ProgramRecord, RecordsWellFormed, TypeOK, WellFormed
  <1>2. ASSUME SelectActive PROVE RecordsWellFormed'
    <2>1. CASE flash = Current
      BY <1>2, <1>b, <2>1 DEF SelectActive
    <2>2. CASE flash # Current
      BY <1>2, <1>a, <2>2, SaveWellFormed DEF SelectActive
    <2> QED
      BY <2>1, <2>2
  <1>3. ASSUME SelectRollback PROVE RecordsWellFormed'
    <2>1. WellFormed(RolledBack(Current))
      BY <1>a, CommittedRecord, Slots DEF RolledBack
    <2> QED
      BY <1>3, <2>1, SaveWellFormed DEF SelectRollback
  <1>4. ASSUME SelectTrial PROVE RecordsWellFormed'
    BY <1>4, <1>a, TriedRecord, SaveWellFormed DEF SelectTrial
  <1>5. ASSUME ResolveFallback PROVE RecordsWellFormed'
    <2>1. alt_slot(sel) \in boot_slots
      BY DEF alt_slot, boot_slots
    <2>2. WellFormed(Committed(param, alt_slot(sel)))
      BY <2>1, CommittedRecord, Slots DEF TypeOK
    <2> QED
      BY <1>5, <2>2, SaveWellFormed DEF ResolveFallback
  <1>6. ASSUME ConfirmRunning, sel \in boot_slots PROVE RecordsWellFormed'
    BY <1>6, <1>a, CommittedRecord, Slots, SaveWellFormed DEF ConfirmRunning
  <1>7. ASSUME AppStart PROVE RecordsWellFormed'
    BY <1>7, <1>6, <1>b DEF AppStart, ControlInv
  <1>8. ASSUME app_confirm PROVE RecordsWellFormed'
    BY <1>8, <1>6 DEF app_confirm, ControlInv
  <1>9. ASSUME NEW arg \in SlotArg, boot_set_trial(arg) PROVE RecordsWellFormed'
    <2>1. WellFormed(Armed(Loaded, arg))
      BY <1>9, <1>a, ArmedRecord DEF boot_set_trial, parse_slot_arg, boot_slot_is_valid
    <2> QED
      BY <1>9, <2>1, SaveWellFormed DEF boot_set_trial
  <1>10. ASSUME NEW arg \in SlotArg, boot_set_active(arg) PROVE RecordsWellFormed'
    <2>1. WellFormed(Committed(Loaded, arg))
      BY <1>10, <1>a, CommittedRecord, Slots
         DEF boot_set_active, parse_slot_arg, boot_slot_is_valid
    <2> QED
      BY <1>10, <2>1, SaveWellFormed DEF boot_set_active
  <1>11. ASSUME boot_param_reset PROVE RecordsWellFormed'
    BY <1>11, DefaultRecord, SaveWellFormed DEF boot_param_reset
  <1>12. ASSUME \/ WindowElapses \/ Startup \/ LeaveShell \/ EnterShell
                \/ BootGoFails \/ BootGoAccepts \/ BootGoSkips \/ BootGoScrambles
                \/ ResolveSelected \/ ResolveNothing \/ JumpToApplication
                \/ boot \/ \E slot \in boot_slots : run_app(slot)
         PROVE  RecordsWellFormed'
    BY <1>12, <1>b
       DEF WindowElapses, Startup, LeaveShell, EnterShell, BootGoFails, BootGoAccepts,
           BootGoSkips, BootGoScrambles, ResolveSelected, ResolveNothing,
           JumpToApplication, boot, run_app
  <1>13. ASSUME \/ AppCrash \/ AppHang \/ say_hello
                \/ WatchdogBites \/ WatchdogBitesScramble
                \/ PowerCycle \/ ResetPin \/ reboot \/ ProgramSlot
         PROVE  RecordsWellFormed'
    BY <1>13, <1>b
       DEF AppCrash, AppHang, say_hello, WatchdogBites, WatchdogBitesScramble,
           WatchdogReset, Reset, PowerCycle, ResetPin, reboot, ProgramSlot
  <1>14. ASSUME UNCHANGED vars PROVE RecordsWellFormed'
    BY <1>14 DEF vars, RecordsWellFormed, WellFormed
  <1> QED
    BY <1>1, <1>2, <1>3, <1>4, <1>5, <1>7, <1>8, <1>9, <1>10, <1>11, <1>12, <1>13, <1>14
       DEF Next, BootStep, AppStep, BootCommand, AppCommand, Dog, External

-----------------------------------------------------------------------------
(* Control: which slot, which flags and which watchdog go with each pc.     *)

LEMMA SaveControl ==
    ASSUME NEW p, NEW return, boot_param_save(p, return)
    PROVE  \/ pc' = "program" /\ next' = return /\ flash' = Erased
           \/ pc' = return /\ next' = next
  BY DEF boot_param_save

LEMMA ControlStep ==
    ASSUME TypeOK, ControlInv, [Next]_vars
    PROVE  ControlInv'
  <1> USE DEF store, ram, hist
  <1>a. Current.active_slot \in boot_slots
    BY LoadedRecord, CurrentIsLoaded DEF TypeOK
  <1>1. ASSUME WindowElapses PROVE ControlInv'
    BY <1>1 DEF WindowElapses, ControlInv, AppIsWatched
  <1>2. ASSUME Startup PROVE ControlInv'
    BY <1>2 DEF Startup, ControlInv, AppIsWatched
  <1>3. ASSUME LeaveShell \/ EnterShell \/ BootGoFails \/ boot PROVE ControlInv'
    BY <1>3 DEF LeaveShell, EnterShell, BootGoFails, boot, ControlInv, AppIsWatched
  <1>4. ASSUME ProgramRecord PROVE ControlInv'
    BY <1>4 DEF ProgramRecord, ControlInv, AppIsWatched, TypeOK
  <1>5. ASSUME BootGoAccepts PROVE ControlInv'
    BY <1>5 DEF BootGoAccepts, ControlInv, AppIsWatched
  <1>6. ASSUME BootGoSkips \/ BootGoScrambles PROVE ControlInv'
    BY <1>6 DEF BootGoSkips, BootGoScrambles, ControlInv, AppIsWatched
  <1>7. ASSUME SelectActive PROVE ControlInv'
    BY <1>7, <1>a, SaveControl
       DEF SelectActive, SelectCommon, HandoffDue, ControlInv, AppIsWatched
  <1>8. ASSUME SelectRollback PROVE ControlInv'
    BY <1>8, <1>a, SaveControl
       DEF SelectRollback, SelectCommon, HandoffDue, ControlInv, AppIsWatched
  <1>9. ASSUME SelectTrial PROVE ControlInv'
    <2>1. Current.trial_slot \in boot_slots
      BY <1>9, LoadedRecord, CurrentIsLoaded, Slots
         DEF SelectTrial, TrialPending, TypeOK, boot_param_t
    <2> QED
      BY <1>9, <2>1, SaveControl
         DEF SelectTrial, SelectCommon, HandoffDue, ControlInv, AppIsWatched
  <1>10. ASSUME ResolveSelected \/ ResolveNothing PROVE ControlInv'
    BY <1>10 DEF ResolveSelected, ResolveNothing, ControlInv, AppIsWatched
  <1>11. ASSUME ResolveFallback PROVE ControlInv'
    <2>1. CASE pc' = "program" /\ next' = "prepare" /\ flash' = Erased
      <3>1. alt_slot(sel) \in boot_slots
        BY DEF alt_slot, boot_slots
      <3> QED
        BY <1>11, <2>1, <3>1 DEF ResolveFallback, ControlInv, AppIsWatched
    <2>2. CASE pc' = "prepare"
      BY <1>11, <2>2 DEF ResolveFallback, ControlInv, AppIsWatched
    <2> QED
      BY <1>11, <2>1, <2>2, SaveControl DEF ResolveFallback
  <1>12. ASSUME JumpToApplication PROVE ControlInv'
    <2>1. pc' \in {"entered", "shell", "loop"} /\ (pc' = "entered" => sel \in boot_slots)
      BY <1>12, Slots DEF JumpToApplication, TypeOK
    <2> QED
      BY <1>12, <2>1 DEF JumpToApplication, ControlInv, AppIsWatched
  <1>13. ASSUME AppStart PROVE ControlInv'
    <2>1. dog' = TRUE /\ wdgFlag' = FALSE /\ sel' = sel /\ sel \in boot_slots
      BY <1>13 DEF AppStart, ControlInv
    <2>2. pc' = "app" \/ (pc' = "program" /\ next' = "app" /\ flash' = Erased)
      BY <1>13, SaveControl DEF AppStart, ConfirmRunning
    <2> QED
      BY <2>1, <2>2 DEF ControlInv, AppIsWatched
  <1>14. ASSUME AppCrash \/ AppHang \/ say_hello PROVE ControlInv'
    BY <1>14 DEF AppCrash, AppHang, say_hello, ControlInv, AppIsWatched
  <1>15. ASSUME app_confirm PROVE ControlInv'
    BY <1>15, SaveControl DEF app_confirm, ConfirmRunning, ControlInv, AppIsWatched
  <1>16. ASSUME NEW arg \in SlotArg, boot_set_trial(arg) PROVE ControlInv'
    BY <1>16, SaveControl DEF boot_set_trial, ControlInv, AppIsWatched
  <1>17. ASSUME NEW arg \in SlotArg, boot_set_active(arg) PROVE ControlInv'
    BY <1>17, SaveControl DEF boot_set_active, ControlInv, AppIsWatched
  <1>18. ASSUME boot_param_reset PROVE ControlInv'
    BY <1>18, SaveControl DEF boot_param_reset, ControlInv, AppIsWatched
  <1>19. ASSUME NEW slot \in boot_slots, run_app(slot) PROVE ControlInv'
    BY <1>19 DEF run_app, ControlInv, AppIsWatched
  <1>20. ASSUME \/ WatchdogBites \/ WatchdogBitesScramble
                \/ PowerCycle \/ ResetPin \/ reboot
         PROVE  ControlInv'
    BY <1>20
       DEF WatchdogBites, WatchdogBitesScramble, WatchdogReset, Reset, PowerCycle,
           ResetPin, reboot, ControlInv, AppIsWatched
  <1>21. ASSUME ProgramSlot PROVE ControlInv'
    BY <1>21 DEF ProgramSlot, ControlInv, AppIsWatched
  <1>22. ASSUME UNCHANGED vars PROVE ControlInv'
    BY <1>22 DEF vars, ControlInv, AppIsWatched
  <1> QED
    BY <1>1, <1>2, <1>3, <1>4, <1>5, <1>6, <1>7, <1>8, <1>9, <1>10, <1>11, <1>12,
       <1>13, <1>14, <1>15, <1>16, <1>17, <1>18, <1>19, <1>20, <1>21, <1>22
       DEF Next, BootStep, AppStep, BootCommand, AppCommand, Dog, External

-----------------------------------------------------------------------------
(* Counting, electing and blaming, on flash that does not fail.             *)

(* A save that cannot fail erases the page and leaves the record in RAM.    *)
LEMMA SaveErases ==
    ASSUME ~FlashFaults, NEW p, NEW return, boot_param_save(p, return)
    PROVE  /\ flash' = Erased /\ param' = p
           /\ pc' = "program" /\ next' = return
  BY DEF boot_param_save

(* A page that is not erased holds a record boot_param_load accepts.        *)
LEMMA FlashIsLoaded ==
    ASSUME TypeOK, RecordsWellFormed
    PROVE  /\ Current = boot_param_load(flash)
           /\ flash # Erased => LoadOk(flash) /\ Current = flash /\ Elected = elected
           /\ flash = Erased => Current = boot_param_get_default /\ Elected = 0
           /\ flash = Erased => ~TrialPending(Current)
  BY CurrentIsLoaded, DefaultRecord
     DEF TypeOK, RecordsWellFormed, WellFormed, LoadOk, boot_param_load, Elected

(* A start is counted on flash before it is made, so the starts made are    *)
(* never more than the starts counted (main.c:227-252).                     *)
LEMMA CountStep ==
    ASSUME ~FlashFaults, TypeOK, RecordsWellFormed, ControlInv, CountInv, [Next]_vars
    PROVE  CountInv'
  <1> USE DEF store, ram, hist
  <1>a. ASSUME UNCHANGED <<flash, tries>>, pc' \notin {"program", "resolve", "prepare"}
        PROVE  CountInv'
    BY <1>a DEF CountInv
  <1>b. ASSUME NEW p, NEW return, boot_param_save(p, return),
               ~TrialPending(p), UNCHANGED tries
        PROVE  CountInv'
    BY <1>b, SaveErases DEF CountInv, TrialPending
  <1>1. ASSUME ProgramRecord PROVE CountInv'
    BY <1>1 DEF ProgramRecord, CountInv, ControlInv, TypeOK, TrialPending
  <1>2. ASSUME SelectActive PROVE CountInv'
    <2>1. CASE flash = Current
      BY <1>2, <2>1 DEF SelectActive, SelectCommon, CountInv, TrialPending
    <2>2. CASE flash # Current
      BY <1>2, <1>b, <2>2 DEF SelectActive, SelectCommon
    <2> QED
      BY <2>1, <2>2
  <1>3. ASSUME SelectRollback PROVE CountInv'
    <2>1. ~TrialPending(RolledBack(Current))
      BY FlashIsLoaded, LoadedRecord, CommittedRecord, Slots DEF RolledBack, TypeOK
    <2> QED
      BY <1>3, <1>b, <2>1 DEF SelectRollback, SelectCommon
  <1>4. ASSUME SelectTrial PROVE CountInv'
    <2>1. tries <= flash.trial_boot_count /\ Current = flash /\ flash \in boot_param_t
      BY <1>4, FlashIsLoaded DEF SelectTrial, CountInv, TypeOK
    <2>2. tries < Tried(Current).trial_boot_count
      BY <1>4, <2>1, TriedRecord, MaxTrialAssumption DEF SelectTrial, TypeOK, boot_param_t
    <2>3. flash' = Erased /\ param' = Tried(Current) /\ pc' = "program" /\ next' = "resolve"
      BY <1>4, SaveErases DEF SelectTrial
    <2>4. tries' = tries
      BY <1>4 DEF SelectTrial, SelectCommon
    <2>5. tries \in Nat /\ Tried(Current).trial_boot_count \in Nat
      BY <1>4, <2>1, TriedRecord, MaxTrialAssumption DEF SelectTrial, TypeOK, boot_param_t
    <2> QED
      BY <2>2, <2>3, <2>4, <2>5 DEF CountInv
  <1>5. ASSUME ResolveSelected \/ ResolveNothing PROVE CountInv'
    BY <1>5 DEF ResolveSelected, ResolveNothing, CountInv
  <1>6. ASSUME ResolveFallback PROVE CountInv'
    <2>1. ~TrialPending(Committed(param, alt_slot(sel)))
      BY CommittedRecord, Slots DEF TypeOK, alt_slot, boot_slots
    <2> QED
      BY <1>6, <1>b, <2>1 DEF ResolveFallback
  <1>7. ASSUME JumpToApplication PROVE CountInv'
    <2>1. pc' \notin {"program", "resolve", "prepare"} /\ flash' = flash
      BY <1>7 DEF JumpToApplication
    <2>2. CASE ~manual /\ TrialPending(param)
      <3>1. flash = param /\ tries < param.trial_boot_count
        BY <1>7, <2>2 DEF JumpToApplication, CountInv
      <3>2. tries \in Nat /\ param.trial_boot_count \in 0..MaxTrial
        BY MaxTrialAssumption DEF TypeOK, boot_param_t
      <3>3. tries' = tries + 1
        BY <1>7, <2>2, <3>1, <3>2, MaxTrialAssumption DEF JumpToApplication
      <3> QED
        BY <2>1, <3>1, <3>2, <3>3, MaxTrialAssumption DEF CountInv
    <2>3. CASE ~(~manual /\ TrialPending(param))
      BY <1>7, <1>a, <2>1, <2>3 DEF JumpToApplication
    <2> QED
      BY <2>2, <2>3
  <1>8. ASSUME ConfirmRunning, sel \in boot_slots, UNCHANGED tries PROVE CountInv'
    <2>1. ~TrialPending(Committed(boot_param_load(flash), sel))
      BY <1>8, LoadedRecord, CommittedRecord, Slots DEF TypeOK
    <2> QED
      BY <1>8, <1>b, <2>1 DEF ConfirmRunning
  <1>9. ASSUME AppStart PROVE CountInv'
    BY <1>9, <1>a, <1>8 DEF AppStart, ControlInv
  <1>10. ASSUME app_confirm PROVE CountInv'
    BY <1>10, <1>8 DEF app_confirm, ControlInv
  <1>11. ASSUME NEW arg \in SlotArg, boot_set_trial(arg) PROVE CountInv'
    <2>1. Armed(boot_param_load(flash), arg).trial_boot_count = 0
      BY <1>11, LoadedRecord, ArmedRecord
         DEF boot_set_trial, parse_slot_arg, boot_slot_is_valid, TypeOK
    <2> QED
      BY <1>11, <2>1, SaveErases, MaxTrialAssumption DEF boot_set_trial, CountInv
  <1>12. ASSUME NEW arg \in SlotArg, boot_set_active(arg) PROVE CountInv'
    <2>1. ~TrialPending(Committed(boot_param_load(flash), arg))
      BY <1>12, LoadedRecord, CommittedRecord, Slots
         DEF boot_set_active, parse_slot_arg, boot_slot_is_valid, TypeOK
    <2> QED
      BY <1>12, <1>b, <2>1 DEF boot_set_active
  <1>13. ASSUME boot_param_reset PROVE CountInv'
    BY <1>13, <1>b, DefaultRecord DEF boot_param_reset
  <1>14. ASSUME (\E slot \in boot_slots : run_app(slot)) \/ BootGoAccepts PROVE CountInv'
    BY <1>14 DEF run_app, BootGoAccepts, CountInv, ControlInv
  <1>15. ASSUME \/ WindowElapses \/ Startup \/ LeaveShell \/ EnterShell
                \/ boot \/ BootGoFails \/ BootGoSkips \/ BootGoScrambles
                \/ AppCrash \/ AppHang \/ say_hello
                \/ WatchdogBites \/ WatchdogBitesScramble
                \/ PowerCycle \/ ResetPin \/ reboot \/ ProgramSlot
         PROVE  CountInv'
    BY <1>15, <1>a
       DEF WindowElapses, Startup, LeaveShell, EnterShell, boot, BootGoFails, BootGoSkips,
           BootGoScrambles, AppCrash, AppHang, say_hello, WatchdogBites,
           WatchdogBitesScramble, WatchdogReset, Reset, PowerCycle, ResetPin, reboot,
           ProgramSlot
  <1>16. ASSUME UNCHANGED vars PROVE CountInv'
    BY <1>16 DEF vars, CountInv
  <1> QED
    BY <1>1, <1>2, <1>3, <1>4, <1>5, <1>6, <1>7, <1>9, <1>10, <1>11, <1>12, <1>13,
       <1>14, <1>15, <1>16
       DEF Next, BootStep, AppStep, BootCommand, AppCommand, Dog, External

(* The record names the elected slot, also while it is only in RAM, and     *)
(* what is being started is that slot or the trial (main.c:155-296).        *)
LEMMA ElectStep ==
    ASSUME ~FlashFaults, TypeOK, RecordsWellFormed, ControlInv, ElectInv, [Next]_vars
    PROVE  ElectInv'
  <1> USE DEF store, ram, hist
  <1> DEFINE Loaded == boot_param_load(flash)
  <1>a. ASSUME UNCHANGED <<flash, elected>>, pc' \notin {"program", "resolve"},
               pc' = "prepare" => manual'
        PROVE  ElectInv'
    BY <1>a DEF ElectInv
  <1>b. ASSUME NEW p, NEW return \in {"shell", "app"}, boot_param_save(p, return),
               elected' = p.active_slot
        PROVE  ElectInv'
    BY <1>b, SaveErases DEF ElectInv
  <1>c. ASSUME NEW p, NEW return, boot_param_save(p, return), elected' = p.active_slot,
               sel' = elected' \/ (TrialPending(p) /\ sel' = p.trial_slot)
        PROVE  ElectInv'
    BY <1>c, SaveErases DEF ElectInv, TrialPending
  <1>d. /\ Loaded \in boot_param_t /\ Current = Loaded
        /\ Current.active_slot = Elected
        /\ TrialPending(Current) => Current.active_slot = elected
    BY FlashIsLoaded, LoadedRecord, DefaultRecord DEF ElectInv, TypeOK
  <1>1. ASSUME ProgramRecord PROVE ElectInv'
    BY <1>1 DEF ProgramRecord, ElectInv, TypeOK, TrialPending
  <1>2. ASSUME SelectActive PROVE ElectInv'
    <2>1. sel' = Current.active_slot /\ elected' = Current.active_slot
      BY <1>2, <1>d DEF SelectActive
    <2>2. CASE flash = Current
      BY <1>2, <2>1, <2>2 DEF SelectActive, ElectInv
    <2>3. CASE flash # Current
      BY <1>2, <1>c, <2>1, <2>3 DEF SelectActive
    <2> QED
      BY <2>2, <2>3
  <1>3. ASSUME SelectRollback PROVE ElectInv'
    <2>1. RolledBack(Current).active_slot = Current.active_slot
      BY <1>d, CommittedRecord, LoadedRecord, Slots DEF RolledBack, TypeOK
    <2> QED
      BY <1>3, <1>c, <1>d, <2>1 DEF SelectRollback
  <1>4. ASSUME SelectTrial PROVE ElectInv'
    BY <1>4, <1>c, <1>d, TriedRecord DEF SelectTrial
  <1>5. ASSUME ResolveSelected \/ ResolveNothing PROVE ElectInv'
    BY <1>5 DEF ResolveSelected, ResolveNothing, ElectInv, TrialPending
  <1>6. ASSUME ResolveFallback PROVE ElectInv'
    <2>1. Committed(param, alt_slot(sel)).active_slot = alt_slot(sel)
      BY CommittedRecord, Slots DEF TypeOK, alt_slot, boot_slots
    <2> QED
      BY <1>6, <1>c, <2>1 DEF ResolveFallback
  <1>7. ASSUME JumpToApplication PROVE ElectInv'
    BY <1>7, <1>a DEF JumpToApplication
  <1>8. ASSUME ConfirmRunning, sel \in boot_slots PROVE ElectInv'
    <2>1. Committed(Loaded, sel).active_slot = sel
      BY <1>8, <1>d, CommittedRecord, Slots
    <2> QED
      BY <1>8, <1>b, <2>1 DEF ConfirmRunning
  <1>9. ASSUME AppStart PROVE ElectInv'
    BY <1>9, <1>a, <1>8 DEF AppStart, ControlInv
  <1>10. ASSUME app_confirm PROVE ElectInv'
    BY <1>10, <1>8 DEF app_confirm, ControlInv
  <1>11. ASSUME NEW arg \in SlotArg, boot_set_trial(arg) PROVE ElectInv'
    <2>1. Armed(Loaded, arg).active_slot = Elected
      BY <1>11, <1>d, ArmedRecord DEF boot_set_trial, parse_slot_arg, boot_slot_is_valid
    <2> QED
      BY <1>11, <1>b, <2>1 DEF boot_set_trial
  <1>12. ASSUME NEW arg \in SlotArg, boot_set_active(arg) PROVE ElectInv'
    <2>1. Committed(Loaded, arg).active_slot = arg
      BY <1>12, <1>d, CommittedRecord, Slots
         DEF boot_set_active, parse_slot_arg, boot_slot_is_valid
    <2> QED
      BY <1>12, <1>b, <2>1 DEF boot_set_active
  <1>13. ASSUME boot_param_reset PROVE ElectInv'
    BY <1>13, <1>b, DefaultRecord DEF boot_param_reset
  <1>14. ASSUME (\E slot \in boot_slots : run_app(slot)) \/ BootGoAccepts PROVE ElectInv'
    BY <1>14, <1>a DEF run_app, BootGoAccepts, ControlInv
  <1>15. ASSUME \/ WindowElapses \/ Startup \/ LeaveShell \/ EnterShell
                \/ boot \/ BootGoFails \/ BootGoSkips \/ BootGoScrambles
                \/ AppCrash \/ AppHang \/ say_hello
                \/ WatchdogBites \/ WatchdogBitesScramble
                \/ PowerCycle \/ ResetPin \/ reboot \/ ProgramSlot
         PROVE  ElectInv'
    BY <1>15, <1>a
       DEF WindowElapses, Startup, LeaveShell, EnterShell, boot, BootGoFails, BootGoSkips,
           BootGoScrambles, AppCrash, AppHang, say_hello, WatchdogBites,
           WatchdogBitesScramble, WatchdogReset, Reset, PowerCycle, ResetPin, reboot,
           ProgramSlot
  <1>16. ASSUME UNCHANGED vars PROVE ElectInv'
    BY <1>16 DEF vars, ElectInv, TrialPending
  <1> QED
    BY <1>1, <1>2, <1>3, <1>4, <1>5, <1>6, <1>7, <1>9, <1>10, <1>11, <1>12, <1>13,
       <1>14, <1>15, <1>16
       DEF Next, BootStep, AppStep, BootCommand, AppCommand, Dog, External

(* A record that says its trial was booted last is told the truth, except   *)
(* by the operator's own starts (main.c:202-209).                           *)
LEMMA BlameStep ==
    ASSUME ~FlashFaults, TypeOK, RecordsWellFormed, ControlInv, BlameInv, [Next]_vars
    PROVE  BlameInv'
  <1> USE DEF store, ram, hist
  <1>a. ASSUME flash' = flash, pc' # "program",
               \/ UNCHANGED <<sel, manual>> \/ manual' \/ sel' = BOOT_SLOT_INVALID,
               \/ ~wdgFlag' /\ (~appInvalid' \/ handoffDone')
               \/ /\ (wdgFlag' \/ (appInvalid' /\ ~handoffDone')
                       => wdgFlag \/ (appInvalid /\ ~handoffDone))
                  /\ UNCHANGED bitten
        PROVE  BlameInv'
    BY <1>a DEF BlameInv, ToldBooted, TrialPending
  <1>b. ASSUME NEW p, NEW return, boot_param_save(p, return), ~ToldBooted(p)
        PROVE  BlameInv'
    BY <1>b, SaveErases DEF BlameInv, ToldBooted, TrialPending
  <1>1. ASSUME ProgramRecord PROVE BlameInv'
    BY <1>1 DEF ProgramRecord, BlameInv, ControlInv, ToldBooted, TrialPending, TypeOK
  <1>2. ASSUME SelectActive PROVE BlameInv'
    <2>1. ~ToldBooted(Current)
      BY <1>2 DEF SelectActive, ToldBooted
    <2>2. CASE flash = Current
      BY <1>2, <2>1, <2>2 DEF SelectActive, BlameInv, ToldBooted, TrialPending
    <2>3. CASE flash # Current
      BY <1>2, <1>b, <2>1, <2>3 DEF SelectActive
    <2> QED
      BY <2>2, <2>3
  <1>3. ASSUME SelectRollback PROVE BlameInv'
    <2>1. ~ToldBooted(RolledBack(Current))
      BY FlashIsLoaded, LoadedRecord, CommittedRecord, Slots
         DEF RolledBack, ToldBooted, TypeOK
    <2> QED
      BY <1>3, <1>b, <2>1 DEF SelectRollback
  <1>4. ASSUME SelectTrial PROVE BlameInv'
    <2>1. Tried(Current).trial_slot = Current.trial_slot
      BY <1>4, FlashIsLoaded, LoadedRecord, TriedRecord DEF SelectTrial, TypeOK
    <2> QED
      BY <1>4, <2>1, SaveErases DEF SelectTrial, BlameInv, ToldBooted, TrialPending
  <1>5. ASSUME ResolveSelected \/ ResolveNothing PROVE BlameInv'
    BY <1>5, <1>a DEF ResolveSelected, ResolveNothing, ControlInv
  <1>6. ASSUME ResolveFallback PROVE BlameInv'
    <2>1. ~ToldBooted(Committed(param, alt_slot(sel)))
      BY CommittedRecord, Slots DEF ToldBooted, TypeOK, alt_slot, boot_slots
    <2> QED
      BY <1>6, <1>b, <2>1 DEF ResolveFallback
  <1>7. ASSUME ConfirmRunning, sel \in boot_slots PROVE BlameInv'
    <2>1. ~ToldBooted(Committed(boot_param_load(flash), sel))
      BY <1>7, LoadedRecord, CommittedRecord, Slots DEF ToldBooted, TypeOK
    <2> QED
      BY <1>7, <1>b, <2>1 DEF ConfirmRunning
  <1>8. ASSUME AppStart PROVE BlameInv'
    <2>1. ~wdgFlag /\ sel \in boot_slots
      BY <1>8 DEF AppStart, ControlInv
    <2>2. CASE ConfirmRunning
      BY <1>7, <2>1, <2>2
    <2>3. CASE pc' = "app" /\ UNCHANGED <<flash, next, param, elected>>
      BY <1>8, <1>a, <2>1, <2>3 DEF AppStart
    <2> QED
      BY <1>8, <2>2, <2>3 DEF AppStart
  <1>9. ASSUME app_confirm PROVE BlameInv'
    BY <1>9, <1>7 DEF app_confirm, ControlInv
  <1>10. ASSUME NEW arg \in SlotArg, boot_set_trial(arg) PROVE BlameInv'
    <2>1. ~ToldBooted(Armed(boot_param_load(flash), arg))
      BY <1>10, LoadedRecord, ArmedRecord
         DEF boot_set_trial, parse_slot_arg, boot_slot_is_valid, TypeOK
    <2> QED
      BY <1>10, <1>b, <2>1 DEF boot_set_trial
  <1>11. ASSUME NEW arg \in SlotArg, boot_set_active(arg) PROVE BlameInv'
    <2>1. ~ToldBooted(Committed(boot_param_load(flash), arg))
      BY <1>11, LoadedRecord, CommittedRecord, Slots
         DEF ToldBooted, boot_set_active, parse_slot_arg, boot_slot_is_valid, TypeOK
    <2> QED
      BY <1>11, <1>b, <2>1 DEF boot_set_active
  <1>12. ASSUME boot_param_reset PROVE BlameInv'
    BY <1>12, <1>b, DefaultRecord DEF boot_param_reset, ToldBooted
  <1>13. ASSUME \/ WindowElapses \/ Startup \/ LeaveShell \/ EnterShell
                \/ JumpToApplication \/ AppCrash \/ AppHang \/ say_hello
                \/ ProgramSlot \/ BootGoFails \/ BootGoSkips \/ BootGoScrambles
         PROVE  BlameInv'
    BY <1>13, <1>a
       DEF WindowElapses, Startup, LeaveShell, EnterShell, JumpToApplication, AppCrash,
           AppHang, say_hello, ProgramSlot, BootGoFails, BootGoSkips, BootGoScrambles
  <1>14. ASSUME boot \/ BootGoAccepts \/ \E slot \in boot_slots : run_app(slot)
         PROVE  BlameInv'
    BY <1>14, <1>a DEF boot, BootGoAccepts, run_app, ControlInv
  <1>15. ASSUME PowerCycle \/ ResetPin \/ reboot PROVE BlameInv'
    BY <1>15, <1>a DEF PowerCycle, ResetPin, reboot, Reset
  <1>16. ASSUME WatchdogReset PROVE BlameInv'
    BY <1>16 DEF WatchdogReset, Reset, BlameInv, ToldBooted, TrialPending
  <1>17. ASSUME Dog PROVE BlameInv'
    BY <1>16, <1>17 DEF Dog, WatchdogBites, WatchdogBitesScramble
  <1>18. ASSUME UNCHANGED vars PROVE BlameInv'
    BY <1>18 DEF vars, BlameInv, ToldBooted, TrialPending
  <1> QED
    BY <1>1, <1>2, <1>3, <1>4, <1>5, <1>6, <1>8, <1>9, <1>10, <1>11, <1>12, <1>13,
       <1>14, <1>15, <1>17, <1>18
       DEF Next, BootStep, AppStep, BootCommand, AppCommand, External

-----------------------------------------------------------------------------
(* The theorems.                                                            *)

LEMMA InitIInv == Init => IInv
  <1> SUFFICES ASSUME Init PROVE IInv
    OBVIOUS
  <1>1. /\ flash \in boot_param_t \union {Erased}
        /\ flash # Erased => WellFormed(flash) /\ ~TrialPending(flash)
    BY DefaultRecord, CommittedRecord, Slots DEF Init
  <1>2. TypeOK
    <2>1. image \in [boot_slots -> Image]
      BY ImagesAssumption DEF Init
    <2>2. elected \in boot_slots
      BY <1>1, LoadedRecord DEF Init
    <2>3. tries \in 0..(MaxTrial + 1)
      BY MaxTrialAssumption DEF Init
    <2>4. bitten \in [slot : SlotOrNone, manual : BOOLEAN]
      BY Slots DEF Init
    <2>5. pc \in BootPc /\ param \in boot_param_t /\ sel \in SlotOrNone
      BY DefaultRecord, Slots DEF Init, BootPc
    <2> QED
      BY <1>1, <2>1, <2>2, <2>3, <2>4, <2>5 DEF Init, TypeOK
  <1>3. RecordsWellFormed
    BY <1>1 DEF Init, RecordsWellFormed
  <1>4. ControlInv
    BY DEF Init, ControlInv, AppIsWatched
  <1>5. CountInv
    BY <1>1, MaxTrialAssumption DEF Init, CountInv
  <1>6. ElectInv
    BY <1>1 DEF Init, ElectInv, boot_param_load, LoadOk, WellFormed
  <1>7. BlameInv
    BY <1>1 DEF Init, BlameInv, ToldBooted
  <1> QED
    BY <1>2, <1>3, <1>4, <1>5, <1>6, <1>7 DEF IInv

LEMMA StepIInv == IInv /\ [Next]_vars => IInv'
  <1> SUFFICES ASSUME IInv, [Next]_vars PROVE IInv'
    OBVIOUS
  <1>1. TypeOK' /\ RecordsWellFormed' /\ ControlInv'
    BY TypeStep, RecordsStep, ControlStep DEF IInv
  <1>2. ASSUME ~FlashFaults PROVE CountInv' /\ ElectInv' /\ BlameInv'
    BY <1>2, CountStep, ElectStep, BlameStep DEF IInv
  <1> QED
    BY <1>1, <1>2 DEF IInv

(* Every behaviour of the bootloader, its commands and the application,    *)
(* through every kind of reset, stays within the inductive invariant.      *)
THEOREM Invariance == Spec => []IInv
  BY InitIInv, StepIInv, PTL DEF Spec

(* Type correctness, with or without flash faults.                         *)
THEOREM TypeCorrect == Spec => []TypeOK
  <1>1. IInv => TypeOK
    BY DEF IInv
  <1> QED
    BY Invariance, <1>1, PTL

(* boot_param_save, whoever calls it and wherever it is interrupted or     *)
(* fails, leaves a well-formed record or none.                             *)
THEOREM RecordsStayWellFormed == Spec => []RecordsWellFormed
  <1>1. IInv => RecordsWellFormed
    BY DEF IInv
  <1> QED
    BY Invariance, <1>1, PTL

(* An application past its wdt_init is watched, though the bootloader does *)
(* not start the watchdog after a watchdog reset.                          *)
THEOREM ApplicationsAreWatched == Spec => []AppIsWatched
  <1>1. IInv => AppIsWatched
    BY DEF IInv, ControlInv
  <1> QED
    BY Invariance, <1>1, PTL

(* No sequence of resets makes the bootloader start a trial by itself more *)
(* than BOOT_TRIAL_MAX_BOOT_COUNT times.                                   *)
THEOREM TrialsAreBounded == Spec => []TrialBudget
  <1>1. IInv => TrialBudget
    BY DEF IInv, CountInv, TrialBudget
  <1> QED
    BY Invariance, <1>1, PTL

(* boot_handoff_by_state starts the elected slot or the pending trial.     *)
THEOREM StartsAreElected == Spec => []StartsElectedOrTrial
  <1>1. IInv => StartsElectedOrTrial
    BY DEF IInv, ElectInv, StartsElectedOrTrial
  <1> QED
    BY Invariance, <1>1, PTL

(* A rollback on a watchdog reset is the trial's fault or the operator's.  *)
THEOREM BlameIsJustified == Spec => []BlamesTrialOrOperator
  <1>1. ASSUME IInv PROVE BlamesTrialOrOperator
    <2> SUFFICES ASSUME ~FlashFaults, HandoffDue, TrialPending(Current),
                        Blamed(Current, appInvalid)
                 PROVE  \/ bitten.slot \in {Current.trial_slot, BOOT_SLOT_INVALID}
                        \/ bitten.manual
      BY DEF BlamesTrialOrOperator
    <2>1. flash # Erased /\ Current = flash
      BY <1>1, FlashIsLoaded DEF IInv
    <2>2. ToldBooted(flash) /\ appInvalid /\ ~handoffDone
      BY <2>1 DEF ToldBooted, Blamed, HandoffDue
    <2> QED
      BY <1>1, <2>1, <2>2 DEF IInv, BlameInv
  <1> QED
    BY Invariance, <1>1, PTL

-----------------------------------------------------------------------------
(* The choice among the images (loader.c).                                  *)

(* While boot_load_and_validate_images runs, no image that verifies has    *)
(* been left out.                                                          *)
AvailInv ==
    pc = "bootgo" => \A s \in boot_slots : image[s].hdr = "signed" => s \in avail

(* Of the slots it chooses from, find_slot_with_highest_version returns one *)
(* that none surpasses (loader.c:2118-2148).                                *)
LEMMA NewestIsNewest ==
    ASSUME image \in [boot_slots -> Image],
           NEW a \in SUBSET boot_slots, a # {}
    PROVE  \A t \in a : image[t].ver <= image[Newest(image, a)].ver
  <1>1. \A s \in boot_slots : image[s].ver \in Nat
    BY DEF Image
  <1>2. \E s \in a : \A t \in a : \/ image[s].ver > image[t].ver
                                  \/ image[s].ver = image[t].ver /\ s <= t
    <2>1. CASE a = {0} \/ a = {1}
      BY <1>1, <2>1 DEF boot_slots
    <2>2. CASE a = {0, 1}
      BY <1>1, <2>2 DEF boot_slots
    <2> QED
      BY <2>1, <2>2 DEF boot_slots
  <1>3. \A t \in a : LET n == Newest(image, a) IN
           \/ image[n].ver > image[t].ver
           \/ image[n].ver = image[t].ver /\ n <= t
    BY <1>2 DEF Newest
  <1> QED
    BY <1>1, <1>3, NewestIsAvailable

LEMMA AvailStep ==
    ASSUME TypeOK, AvailInv, [Next]_vars
    PROVE  AvailInv'
  <1> USE DEF store, ram, hist
  <1>1. ASSUME boot PROVE AvailInv'
    BY <1>1 DEF boot, AvailInv, slot_available, TypeOK
  <1>2. ASSUME BootGoSkips PROVE AvailInv'
    BY <1>2 DEF BootGoSkips, AvailInv
  <1>3. ASSUME BootGoScrambles PROVE AvailInv'
    <2>1. PICK s : /\ s = Newest(image, avail)
                   /\ image[s].hdr = "forged"
                   /\ \/ image' = [image EXCEPT ![s] = ErasedImage]
                      \/ UNCHANGED image
                   /\ avail' = avail \ {s}
      BY <1>3 DEF BootGoScrambles
    <2>2. \A t \in boot_slots : image'[t].hdr = "signed" => t # s /\ image[t].hdr = "signed"
      BY <2>1 DEF TypeOK, ErasedImage
    <2> QED
      BY <1>3, <2>1, <2>2 DEF BootGoScrambles, AvailInv
  <1>4. ASSUME pc' # "bootgo" PROVE AvailInv'
    BY <1>4 DEF AvailInv
  <1>5. ASSUME UNCHANGED <<pc, image, avail>> PROVE AvailInv'
    BY <1>5 DEF AvailInv
  <1>6. ASSUME NEW p, NEW return \in {"shell", "resolve", "prepare", "app"},
               boot_param_save(p, return)
        PROVE  pc' # "bootgo"
    BY <1>6 DEF boot_param_save
  <1>7. ASSUME BootStep PROVE AvailInv'
    <2>1. ASSUME ProgramRecord PROVE pc' # "bootgo"
      BY <2>1 DEF ProgramRecord, TypeOK
    <2>2. ASSUME SelectActive \/ SelectRollback \/ SelectTrial PROVE pc' # "bootgo"
      BY <2>2, <1>6 DEF SelectActive, SelectRollback, SelectTrial
    <2>3. ASSUME ResolveSelected \/ ResolveFallback \/ ResolveNothing
          PROVE  pc' # "bootgo"
      BY <2>3, <1>6 DEF ResolveSelected, ResolveFallback, ResolveNothing
    <2>4. ASSUME Startup \/ LeaveShell \/ BootGoFails \/ BootGoAccepts \/ JumpToApplication
          PROVE  pc' # "bootgo"
      BY <2>4 DEF Startup, LeaveShell, BootGoFails, BootGoAccepts, JumpToApplication
    <2> QED
      BY <1>2, <1>3, <1>4, <1>7, <2>1, <2>2, <2>3, <2>4 DEF BootStep
  <1>8. ASSUME WindowElapses PROVE AvailInv'
    BY <1>5, <1>8 DEF WindowElapses
  <1>9. ASSUME AppStep \/ AppHang \/ AppCommand PROVE pc' # "bootgo"
    BY <1>9, <1>6 DEF AppStep, AppStart, AppCrash, AppHang, AppCommand, app_confirm,
                      say_hello, ConfirmRunning
  <1>10. ASSUME BootCommand PROVE AvailInv'
    <2>1. ASSUME NEW arg, boot_set_trial(arg) \/ boot_set_active(arg)
          PROVE  pc' # "bootgo"
      BY <2>1, <1>6 DEF boot_set_trial, boot_set_active
    <2>2. ASSUME boot_param_reset PROVE pc' # "bootgo"
      BY <2>2, <1>6 DEF boot_param_reset
    <2>3. ASSUME EnterShell \/ \E slot \in boot_slots : run_app(slot)
          PROVE  pc' # "bootgo"
      BY <2>3 DEF EnterShell, run_app
    <2> QED
      BY <1>1, <1>4, <1>10, <2>1, <2>2, <2>3 DEF BootCommand
  <1>11. ASSUME Dog \/ External PROVE pc' # "bootgo"
    BY <1>11 DEF Dog, WatchdogBites, WatchdogBitesScramble, WatchdogReset, External,
                 PowerCycle, ResetPin, reboot, ProgramSlot, Reset
  <1>12. ASSUME UNCHANGED vars PROVE AvailInv'
    BY <1>5, <1>12 DEF vars
  <1> QED
    BY <1>4, <1>7, <1>8, <1>9, <1>10, <1>11, <1>12 DEF Next

(* Only boot_load_and_validate_images's success leads from its loop to the  *)
(* jump.                                                                    *)
LEMMA OnlyAcceptsLeaves ==
    ASSUME TypeOK, [Next]_vars, pc = "bootgo", pc' = "prepare"
    PROVE  BootGoAccepts
  <1> USE DEF store, ram, hist
  <1>1. ~BootCommand /\ ~AppCommand /\ ~AppStep /\ ~AppHang /\ ~WindowElapses
    BY DEF BootCommand, EnterShell, boot_set_trial, boot_set_active, boot_param_reset,
           run_app, boot, AppCommand, app_confirm, say_hello, AppStep, AppStart,
           AppCrash, AppHang, WindowElapses
  <1>2. ~Dog /\ ~External
    BY DEF Dog, WatchdogBites, WatchdogBitesScramble, WatchdogReset, External,
           PowerCycle, ResetPin, reboot, ProgramSlot, Reset
  <1>3. ASSUME BootStep PROVE BootGoAccepts
    BY <1>3 DEF BootStep, Startup, LeaveShell, ProgramRecord, BootGoFails, BootGoSkips,
           BootGoScrambles, SelectActive, SelectRollback, SelectTrial, HandoffDue,
           ResolveSelected, ResolveFallback, ResolveNothing, JumpToApplication
  <1> QED
    BY <1>1, <1>2, <1>3 DEF Next, vars

(* The boot command starts the newest of the images that verify, whatever   *)
(* it skipped or erased before and whichever erase failed.                  *)
THEOREM BootStartsTheNewest == Spec => BootStartsNewestSigned
  <1> DEFINE Start ==
        pc = "bootgo" /\ pc' = "prepare" =>
          /\ image[sel'].hdr = "signed"
          /\ \A s \in boot_slots :
               image[s].hdr = "signed" => image[s].ver <= image[sel'].ver
  <1>1. Init => AvailInv
    BY DEF Init, AvailInv
  <1>2. IInv /\ AvailInv /\ [Next]_vars => AvailInv'
    BY AvailStep DEF IInv
  <1>3. IInv /\ AvailInv /\ [Next]_vars => Start
    <2> SUFFICES ASSUME IInv, AvailInv, [Next]_vars, pc = "bootgo", pc' = "prepare"
                 PROVE  /\ image[sel'].hdr = "signed"
                        /\ \A s \in boot_slots :
                             image[s].hdr = "signed" => image[s].ver <= image[sel'].ver
      OBVIOUS
    <2>1. TypeOK /\ image \in [boot_slots -> Image] /\ avail \in SUBSET boot_slots
      BY DEF IInv, TypeOK
    <2>2. BootGoAccepts
      BY <2>1, OnlyAcceptsLeaves
    <2>3. /\ avail # {} /\ sel' = Newest(image, avail)
          /\ image[sel'].hdr = "signed"
      BY <2>2 DEF BootGoAccepts
    <2>4. \A s \in avail : image[s].ver <= image[sel'].ver
      BY <2>1, <2>3, NewestIsNewest
    <2> QED
      BY <2>3, <2>4 DEF AvailInv
  <1> QED
    BY <1>1, <1>2, <1>3, Invariance, PTL DEF Spec, BootStartsNewestSigned

-----------------------------------------------------------------------------
(* The refinement.  The bootloader implements RollbackPolicy when its flash *)
(* does not report errors, for every value of the other constants: initial  *)
(* states map to initial states, and every step to a step of the policy or  *)
(* to none.                                                                 *)


PolicyStep == [Policy!PolicyNext]_Policy!policyVars

(* What the policy sees of a record.                                        *)
PolicyTrial(p) == IF TrialPending(p) THEN p.trial_slot ELSE BOOT_SLOT_INVALID
PolicyUsed(p)  == IF TrialPending(p) THEN p.trial_boot_count ELSE 0

(* A step that changes nothing the policy sees is a stutter.                *)
LEMMA Stutters ==
    ASSUME UNCHANGED <<PolicyRecord, PolicyChosen>>,
           (pc = "program") <=> (pc' = "program")
    PROVE  PolicyStep
  BY DEF PolicyStep, Policy!policyVars, TrialPending

(* A step that leaves the page alone and is not a save.                     *)
LEMMA RecordKept ==
    ASSUME flash' = flash, pc # "program", pc' # "program"
    PROVE  PolicyRecord' = PolicyRecord
  BY DEF PolicyRecord, boot_param_load, LoadOk, boot_param_is_valid

(* A save is a write of the policy.                                         *)
LEMMA SaveWrites ==
    ASSUME ~FlashFaults, NEW p, NEW return, boot_param_save(p, return)
    PROVE  /\ Policy!Write(p.active_slot, PolicyTrial(p), PolicyUsed(p))
           /\ pc' = "program" /\ next' = return
  <1>1. PolicyRecord' = p /\ pc' = "program" /\ next' = return
    BY SaveErases DEF PolicyRecord
  <1> QED
    BY <1>1 DEF Policy!Write, PolicyTrial, PolicyUsed, TrialPending

LEMMA SettledWrites ==
    ASSUME ~FlashFaults, NEW p \in boot_param_t, NEW slot \in SlotOrNone, NEW return,
           boot_param_save(Committed(p, slot), return)
    PROVE  /\ Policy!Write(slot, BOOT_SLOT_INVALID, 0)
           /\ pc' = "program" /\ next' = return
  BY CommittedRecord, SaveWrites DEF PolicyTrial, PolicyUsed

(* Outside a save, the policy's record is the one a load returns.           *)
LEMMA RecordLoaded ==
    ASSUME TypeOK, pc # "program"
    PROVE  /\ PolicyRecord = Current
           /\ boot_param_load(flash) = Current
           /\ Current \in boot_param_t
           /\ Current.active_slot \in boot_slots
  BY CurrentIsLoaded, LoadedRecord DEF PolicyRecord, TypeOK

LEMMA PolicyStepIntro ==
    ASSUME Policy!PolicyNext
    PROVE  PolicyStep
  BY DEF PolicyStep

LEMMA MapsStep ==
    ASSUME ~FlashFaults, IInv, [Next]_vars
    PROVE  PolicyStep
  <1> USE DEF store, ram, hist
  <1>a. TypeOK /\ RecordsWellFormed /\ ControlInv
    BY DEF IInv
  <1>b. ASSUME flash' = flash, pc # "program", pc' # "program",
               PolicyChosen' = PolicyChosen
        PROVE  PolicyStep
    BY <1>b, RecordKept, Stutters
  <1>c. ASSUME NEW s \in boot_slots, Policy!Arm(s) \/ Policy!Elect(s) \/ Policy!FallBack(s)
        PROVE  PolicyStep
    BY <1>c, PolicyStepIntro DEF Policy!PolicyNext
  <1>1. ASSUME \/ WindowElapses \/ Startup \/ LeaveShell \/ EnterShell
               \/ BootGoFails \/ BootGoAccepts \/ BootGoSkips \/ BootGoScrambles
               \/ boot \/ \E slot \in boot_slots : run_app(slot)
        PROVE  PolicyStep
    <2>1. flash' = flash /\ pc # "program" /\ pc' # "program"
      BY <1>1
         DEF WindowElapses, Startup, LeaveShell, EnterShell, BootGoFails, BootGoAccepts,
             BootGoSkips, BootGoScrambles, boot, run_app
    <2>2. PolicyChosen' = PolicyChosen
      BY <1>1, <1>a
         DEF WindowElapses, Startup, LeaveShell, EnterShell, BootGoFails, BootGoAccepts,
             BootGoSkips, BootGoScrambles, boot, run_app, PolicyChosen, ControlInv
    <2> QED
      BY <1>b, <2>1, <2>2
  <1>2. ASSUME AppCrash \/ AppHang \/ say_hello \/ ProgramSlot PROVE PolicyStep
    BY <1>2, <1>b DEF AppCrash, AppHang, say_hello, ProgramSlot, PolicyChosen
  <1>3. ASSUME ProgramRecord PROVE PolicyStep
    <2>1. flash' = param /\ pc = "program" /\ pc' = next /\ next # "program"
      BY <1>3, <1>a DEF ProgramRecord, TypeOK
    <2>2. PolicyRecord' = PolicyRecord
      <3>1. param' = param
        BY <1>3 DEF ProgramRecord
      <3>2. param # Erased /\ boot_param_is_valid(param)
        BY <1>a, <2>1, ErasedAssumption DEF RecordsWellFormed, WellFormed, TypeOK
      <3> QED
        BY <2>1, <3>1, <3>2 DEF PolicyRecord, boot_param_load, LoadOk, boot_param_is_valid
    <2>3. PolicyChosen' = PolicyChosen
      BY <1>3, <1>a, <2>1 DEF ProgramRecord, PolicyChosen, ControlInv, TypeOK
    <2>4. Policy!Written
      BY <2>1, <2>2, <2>3 DEF Policy!Written, TrialPending
    <2> QED
      BY <2>4, PolicyStepIntro DEF Policy!PolicyNext
  <1>4. ASSUME SelectActive PROVE PolicyStep
    <2>1. pc = "loop" /\ ~TrialPending(Current) /\ sel' = Current.active_slot /\ ~manual'
      BY <1>4 DEF SelectActive, SelectCommon, HandoffDue
    <2>2. PolicyRecord = Current
      BY <1>a, <2>1, RecordLoaded
    <2>3. \/ pc' = "resolve" /\ PolicyRecord' = Current
          \/ pc' = "program" /\ next' = "resolve" /\ PolicyRecord' = Current
      <3>1. CASE flash = Current
        BY <1>4, <2>1, <2>2, <3>1, RecordKept DEF SelectActive
      <3>2. CASE flash # Current
        BY <1>4, <3>2, SaveErases DEF SelectActive, PolicyRecord
      <3> QED
        BY <3>1, <3>2
    <2>4. PolicyChosen' = Current.active_slot
      BY <2>1, <2>3 DEF PolicyChosen
    <2>5. Policy!StartActive
      BY <2>1, <2>2, <2>3, <2>4 DEF Policy!StartActive, TrialPending
    <2> QED
      BY <2>5, PolicyStepIntro DEF Policy!PolicyNext
  <1>5. ASSUME SelectRollback PROVE PolicyStep
    <2>1. pc = "loop" /\ sel' = Current.active_slot /\ ~manual'
      BY <1>5 DEF SelectRollback, SelectCommon, HandoffDue
    <2>2. PolicyRecord = Current /\ Current \in boot_param_t
          /\ Current.active_slot \in SlotOrNone /\ WellFormed(Current)
      BY <1>a, <2>1, RecordLoaded, LoadedRecord, Slots DEF RecordsWellFormed, TypeOK
    <2>3. /\ Policy!Write(Current.active_slot, BOOT_SLOT_INVALID, 0)
          /\ pc' = "program" /\ next' = "resolve"
      BY <1>5, <2>2, SettledWrites DEF SelectRollback, RolledBack
    <2>4. TrialPending(Current) /\ Current.trial_boot_count > 0
      BY <1>5, <2>2, MaxTrialAssumption
         DEF SelectRollback, Blamed, Spent, WellFormed, TrialPending, boot_param_t
    <2>5. PolicyChosen' = Current.active_slot
      BY <2>1, <2>3 DEF PolicyChosen
    <2>6. Policy!GiveUpTrial
      BY <2>2, <2>3, <2>4, <2>5 DEF Policy!GiveUpTrial, TrialPending
    <2> QED
      BY <2>6, PolicyStepIntro DEF Policy!PolicyNext
  <1>6. ASSUME SelectTrial PROVE PolicyStep
    <2>1. /\ pc = "loop" /\ sel' = Current.trial_slot /\ ~manual'
          /\ TrialPending(Current) /\ ~Spent(Current)
      BY <1>6 DEF SelectTrial, SelectCommon, HandoffDue
    <2>2. PolicyRecord = Current /\ Current \in boot_param_t
      BY <1>a, <2>1, RecordLoaded
    <2>3. /\ Policy!Write(Current.active_slot, Current.trial_slot,
                          Current.trial_boot_count + 1)
          /\ pc' = "program" /\ next' = "resolve"
      BY <1>6, <2>1, <2>2, TriedRecord, SaveWrites DEF SelectTrial, PolicyTrial, PolicyUsed
    <2>4. Current.trial_boot_count < MaxTrial
      BY <2>1, <2>2, MaxTrialAssumption DEF Spent, boot_param_t
    <2>5. PolicyChosen' = Current.trial_slot
      BY <2>1, <2>3 DEF PolicyChosen
    <2>6. Policy!TryTrial
      BY <2>1, <2>2, <2>3, <2>4, <2>5 DEF Policy!TryTrial, TrialPending
    <2> QED
      BY <2>6, PolicyStepIntro DEF Policy!PolicyNext
  <1>7. ASSUME ResolveSelected PROVE PolicyStep
    BY <1>7, <1>b DEF ResolveSelected, PolicyChosen
  <1>8. ASSUME ResolveFallback PROVE PolicyStep
    <2>1. pc = "resolve" /\ ~manual /\ sel \in boot_slots /\ param \in boot_param_t
      BY <1>8, <1>a DEF ResolveFallback, ControlInv, TypeOK
    <2>2. alt_slot(sel) \in boot_slots /\ alt_slot(sel) # sel
      BY <2>1 DEF alt_slot, boot_slots
    <2>3. /\ Policy!Write(alt_slot(sel), BOOT_SLOT_INVALID, 0)
          /\ pc' = "program" /\ next' = "prepare"
      BY <1>8, <2>1, <2>2, SettledWrites, Slots DEF ResolveFallback
    <2>4. PolicyChosen = sel /\ PolicyChosen' = alt_slot(sel)
      BY <1>8, <2>1, <2>3 DEF ResolveFallback, PolicyChosen
    <2>5. Policy!FallBack(alt_slot(sel))
      BY <2>1, <2>2, <2>3, <2>4, Slots DEF Policy!FallBack
    <2> QED
      BY <1>c, <2>2, <2>5
  <1>9. ASSUME ResolveNothing \/ JumpToApplication PROVE PolicyStep
    <2>1. flash' = flash /\ pc # "program" /\ pc' # "program"
      BY <1>9 DEF ResolveNothing, JumpToApplication
    <2>2. PolicyChosen' = PolicyChosen \/ PolicyChosen' = BOOT_SLOT_INVALID
      BY <1>9 DEF ResolveNothing, JumpToApplication, PolicyChosen
    <2>3. CASE PolicyChosen' = BOOT_SLOT_INVALID
      <3>1. Policy!NothingStarted
        BY <2>1, <2>3, RecordKept DEF Policy!NothingStarted, TrialPending
      <3> QED
        BY <3>1, PolicyStepIntro DEF Policy!PolicyNext
    <2> QED
      BY <1>b, <2>1, <2>2, <2>3
  <1>10. ASSUME ConfirmRunning, pc \in {"entered", "app"}, UNCHANGED <<sel, manual>>
         PROVE  PolicyStep
    <2>1. sel \in boot_slots /\ boot_param_load(flash) \in boot_param_t
      BY <1>10, <1>a, LoadedRecord DEF ControlInv, TypeOK
    <2>2. Policy!Write(sel, BOOT_SLOT_INVALID, 0) /\ pc' = "program" /\ next' = "app"
      BY <1>10, <2>1, SettledWrites, Slots DEF ConfirmRunning
    <2>3. PolicyChosen' = PolicyChosen
      BY <1>10, <2>2 DEF PolicyChosen
    <2>4. Policy!Elect(sel)
      BY <2>2, <2>3 DEF Policy!Elect
    <2> QED
      BY <1>c, <2>1, <2>4
  <1>11. ASSUME AppStart PROVE PolicyStep
    <2>1. pc = "entered" /\ UNCHANGED <<sel, manual>>
      BY <1>11 DEF AppStart
    <2>2. CASE ConfirmRunning
      BY <1>10, <2>1, <2>2
    <2>3. CASE pc' = "app" /\ UNCHANGED <<flash, next, param, elected>>
      BY <1>b, <2>1, <2>3 DEF PolicyChosen
    <2> QED
      BY <1>11, <2>2, <2>3 DEF AppStart
  <1>12. ASSUME app_confirm PROVE PolicyStep
    BY <1>12, <1>10 DEF app_confirm
  <1>13. ASSUME NEW arg \in SlotArg, boot_set_trial(arg) PROVE PolicyStep
    <2>1. pc = "shell" /\ arg \in boot_slots
      BY <1>13 DEF boot_set_trial, parse_slot_arg, boot_slot_is_valid
    <2>2. PolicyRecord = Current /\ boot_param_load(flash) = Current
          /\ Current \in boot_param_t
      BY <1>a, <2>1, RecordLoaded
    <2>3. /\ Policy!Write(Current.active_slot, arg, 0)
          /\ pc' = "program" /\ next' = "shell"
      BY <1>13, <2>1, <2>2, ArmedRecord, SaveWrites
         DEF boot_set_trial, PolicyTrial, PolicyUsed
    <2>4. PolicyChosen' = PolicyChosen
      BY <2>1, <2>3 DEF PolicyChosen
    <2>5. Policy!Arm(arg)
      BY <2>2, <2>3, <2>4 DEF Policy!Arm
    <2> QED
      BY <1>c, <2>1, <2>5
  <1>14. ASSUME NEW arg \in SlotArg, boot_set_active(arg) PROVE PolicyStep
    <2>1. /\ pc = "shell" /\ arg \in boot_slots
          /\ boot_param_load(flash) \in boot_param_t
      BY <1>14, <1>a, LoadedRecord
         DEF boot_set_active, parse_slot_arg, boot_slot_is_valid, TypeOK
    <2>2. Policy!Write(arg, BOOT_SLOT_INVALID, 0) /\ pc' = "program" /\ next' = "shell"
      BY <1>14, <2>1, SettledWrites, Slots DEF boot_set_active
    <2>3. PolicyChosen' = PolicyChosen
      BY <2>1, <2>2 DEF PolicyChosen
    <2>4. Policy!Elect(arg)
      BY <2>2, <2>3 DEF Policy!Elect
    <2> QED
      BY <1>c, <2>1, <2>4
  <1>15. ASSUME boot_param_reset PROVE PolicyStep
    <2>1. /\ Policy!Write(0, BOOT_SLOT_INVALID, 0)
          /\ pc = "shell" /\ pc' = "program" /\ next' = "shell"
      BY <1>15, DefaultRecord, SaveWrites DEF boot_param_reset, PolicyTrial, PolicyUsed
    <2>2. PolicyChosen' = PolicyChosen
      BY <2>1 DEF PolicyChosen
    <2>3. Policy!Elect(0)
      BY <2>1, <2>2 DEF Policy!Elect
    <2> QED
      BY <1>c, <2>3, Slots
  <1>16. ASSUME Reset, flash' = flash PROVE PolicyStep
    <2>1. pc' = "reset" /\ PolicyChosen' = BOOT_SLOT_INVALID
      BY <1>16 DEF Reset, PolicyChosen
    <2>2. CASE pc # "program"
      <3>1. Policy!Restart
        BY <1>16, <2>1, <2>2, RecordKept DEF Policy!Restart, TrialPending
      <3> QED
        BY <3>1, PolicyStepIntro DEF Policy!PolicyNext
    <2>3. CASE pc = "program"
      <3>1. flash' = Erased
        BY <1>16, <1>a, <2>3 DEF ControlInv
      <3>2. PolicyRecord' = boot_param_get_default
        BY <2>1, <3>1 DEF PolicyRecord, boot_param_load, LoadOk, boot_param_get_default
      <3>3. Policy!Restart
        BY <2>1, <2>3, <3>2, DefaultRecord DEF Policy!Restart, TrialPending
      <3> QED
        BY <3>3, PolicyStepIntro DEF Policy!PolicyNext
    <2> QED
      BY <2>2, <2>3
  <1>17. ASSUME Dog \/ PowerCycle \/ ResetPin \/ reboot PROVE PolicyStep
    BY <1>16, <1>17
       DEF Dog, WatchdogBites, WatchdogBitesScramble, WatchdogReset, PowerCycle,
           ResetPin, reboot
  <1>18. ASSUME UNCHANGED vars PROVE PolicyStep
    <2>1. PolicyRecord' = PolicyRecord /\ PolicyChosen' = PolicyChosen /\ pc' = pc
      BY <1>18
         DEF vars, PolicyRecord, PolicyChosen, boot_param_load, LoadOk, boot_param_is_valid
    <2> QED
      BY <2>1, Stutters
  <1> QED
    BY <1>1, <1>2, <1>3, <1>4, <1>5, <1>6, <1>7, <1>8, <1>9, <1>11, <1>12, <1>13,
       <1>14, <1>15, <1>17, <1>18
       DEF Next, BootStep, AppStep, BootCommand, AppCommand, External

-----------------------------------------------------------------------------
LEMMA MapsInit == Init => Policy!PolicyInit
  <1> SUFFICES ASSUME Init PROVE Policy!PolicyInit
    OBVIOUS
  <1>1. pc = "reset" /\ ~manual /\ TypeOK
    BY InitIInv DEF Init, IInv
  <1>2. ~TrialPending(boot_param_load(flash))
    <2>1. flash = Erased \/ ~TrialPending(flash)
      BY DefaultRecord, CommittedRecord, Slots DEF Init
    <2> QED
      BY <2>1, DefaultRecord DEF boot_param_load, LoadOk
  <1>3. /\ PolicyRecord = boot_param_load(flash)
        /\ PolicyRecord.active_slot \in boot_slots
    BY <1>1, RecordLoaded DEF PolicyRecord
  <1>4. PolicyChosen = BOOT_SLOT_INVALID
    BY <1>1 DEF PolicyChosen
  <1> QED
    BY <1>1, <1>2, <1>3, <1>4 DEF Policy!PolicyInit

(* Whatever is typed, reset, cut off or programmed, the bootloader and the *)
(* application together do only what RollbackPolicy allows: in particular  *)
(* what is started automatically is the active slot or a trial whose start *)
(* is counted first (boot_select_app_addr, application/main.c:155-296).    *)
THEOREM Refinement ==
    ASSUME ~FlashFaults
    PROVE  Spec => ImplementsPolicy
  <1>1. Init => Policy!PolicyInit
    BY MapsInit
  <1>2. IInv /\ [Next]_vars => [Policy!PolicyNext]_Policy!policyVars
    BY MapsStep DEF PolicyStep
  <1> QED
    BY <1>1, <1>2, Invariance, PTL DEF Spec, ImplementsPolicy, Policy!PolicySpec
=============================================================================
