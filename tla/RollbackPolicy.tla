--------------------------- MODULE RollbackPolicy ---------------------------
(***************************************************************************)
(* What the rollback state machine promises, without pages, registers or   *)
(* addresses: one slot is active, another may be on trial, the trial is    *)
(* started at most MaxTrial times, and what the board starts by itself is  *)
(* the active slot or a trial whose start has been counted first.          *)
(* The one thing that may go wrong is a reset while the record is being    *)
(* written: the board then forgets it and is back at its factory setting.  *)
(***************************************************************************)
EXTENDS Integers

CONSTANTS Slot, None, Factory, MaxTrial

VARIABLES active,   \* the slot to start when no trial is pending
          trial,    \* the slot on trial, or None
          used,     \* how many starts of the trial have been counted
          writing,  \* the record is being written
          chosen    \* the slot the board has decided to start by itself

policyVars == <<active, trial, used, writing, chosen>>

PolicyTypeOK ==
    /\ active \in Slot
    /\ trial \in Slot \union {None}
    /\ used \in 0..MaxTrial
    /\ writing \in BOOLEAN
    /\ chosen \in Slot \union {None}

PolicyInit ==
    /\ active \in Slot /\ trial = None /\ used = 0
    /\ writing = FALSE /\ chosen = None

Write(a, t, u) == active' = a /\ trial' = t /\ used' = u /\ writing' = TRUE

Arm(s) == Write(active, s, 0) /\ UNCHANGED chosen

Elect(s) == Write(s, None, 0) /\ UNCHANGED chosen

TryTrial ==
    /\ trial # None /\ used < MaxTrial
    /\ Write(active, trial, used + 1) /\ chosen' = trial

(* A trial that was never started is not given up.                         *)
GiveUpTrial ==
    /\ trial # None /\ used > 0
    /\ Write(active, None, 0) /\ chosen' = active

StartActive ==
    /\ trial = None /\ chosen' = active
    /\ writing' \in BOOLEAN /\ UNCHANGED <<active, trial, used>>

(* The chosen slot holds nothing that could be started.                    *)
FallBack(s) ==
    /\ chosen \notin {None, s}
    /\ Write(s, None, 0) /\ chosen' = s

Written == writing /\ writing' = FALSE /\ UNCHANGED <<active, trial, used, chosen>>

(* Nothing can be started, or what was started returned.                   *)
NothingStarted == chosen' = None /\ UNCHANGED <<active, trial, used, writing>>

Restart ==
    /\ chosen' = None /\ writing' = FALSE
    /\ \/ UNCHANGED <<active, trial, used>>
       \/ writing /\ active' = Factory /\ trial' = None /\ used' = 0

PolicyNext ==
    \/ \E s \in Slot : Arm(s) \/ Elect(s) \/ FallBack(s)
    \/ TryTrial \/ GiveUpTrial \/ StartActive \/ Written
    \/ NothingStarted \/ Restart

PolicySpec == PolicyInit /\ [][PolicyNext]_policyVars

(* What the board starts by itself is the active slot or the trial.        *)
ChosenIsActiveOrTrial == chosen # None => chosen \in {active, trial}
=============================================================================
