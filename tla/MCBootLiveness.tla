--------------------------- MODULE MCBootLiveness ---------------------------
(***************************************************************************)
(* BootRollback with a bound on what comes from outside, so that liveness  *)
(* can be asked about: after MaxOutside commands and resets the board is   *)
(* left alone.  One slot, GoodSlot, is elected and holds a healthy image;  *)
(* the operator never elects or overwrites anything else.                  *)
(***************************************************************************)
EXTENDS MCBootRollback

CONSTANTS GoodSlot,    \* the elected slot
          Commands,    \* what the operator types: "trial", "run", "boot"
          Patient,     \* no commands after a watchdog reset
          MaxOutside   \* bound on commands and resets

VARIABLE outside

BadSlot == alt_slot(GoodSlot)

LiveInit ==
    /\ Init
    /\ flash = Committed(boot_param_get_default, GoodSlot)
    /\ image[GoodSlot].run = "good" /\ image[GoodSlot].hdr \in {"none", "signed"}
    /\ outside = 0

Typed ==
    \/ "trial" \in Commands /\ boot_set_trial(BadSlot)
    \/ "run" \in Commands /\ \E slot \in boot_slots : run_app(slot)
    \/ "boot" \in Commands /\ boot

FromOutside ==
    \/ (Patient => dog) /\ Typed
    \/ say_hello \/ reboot \/ PowerCycle \/ ResetPin

LiveNext ==
    \/ (WindowElapses \/ BootStep \/ AppStep \/ AppHang \/ EnterShell \/ Dog)
       /\ UNCHANGED outside
    \/ outside < MaxOutside /\ FromOutside /\ outside' = outside + 1

LiveSpec == LiveInit /\ [][LiveNext]_<<vars, outside>> /\ Fairness

-----------------------------------------------------------------------------
(* Whatever trial was armed and however it fails, an application ends up   *)
(* running and feeding the watchdog (README.md:159), unless something was  *)
(* started by hand.                                                        *)
BoardRecovers == []~manual => <>[](pc = "app")

(* The window ends in the automatic start, in a start by hand or in a      *)
(* reset, whatever the operator does meanwhile (README.md:144).            *)
WindowEnds ==
    pc = "loop" /\ ~handoffDone ~> handoffDone \/ pc \in {"entered", "reset"}
=============================================================================
