------------------------------- MODULE Timer --------------------------------
(***************************************************************************)
(* The software timers of Drivers/bsp/timer.c: a list ordered by deadline  *)
(* (TIMER_SKIP_LIST_LEVEL is 1), a 32-bit tick that wraps, and             *)
(* rt_timer_check, which calls the functions of the timers that are due.   *)
(* Such a function may start, stop and detach any timer, its own included, *)
(* and SysTick may tick at any moment.                                     *)
(***************************************************************************)
EXTENDS Integers, Sequences, SequencesExt, FiniteSetsExt

CONSTANTS Timers,
          Periodic,      \* those with RT_TIMER_FLAG_PERIODIC
          init_tick,     \* their period or delay
          RT_TICK_MAX,   \* 0xffffffff; a smaller width for TLC
          MaxLag,        \* bound: how late rt_timer_check may come to a timer
          Restarted,     \* timers that may be started again while running, or stopped
          None

Half == RT_TICK_MAX \div 2

ASSUME TimerAssumption ==
    /\ Periodic \subseteq Timers /\ Restarted \subseteq Timers /\ None \notin Timers
    /\ RT_TICK_MAX \in Nat /\ MaxLag \in Nat
    /\ init_tick \in [Timers -> Nat \ {0}]
    /\ \A t \in Timers : init_tick[t] + MaxLag < Half

VARIABLES tick,
          list,          \* _timer_list
          timeout_tick,  \* of each listed timer; nothing else reads it
          activated,     \* the timers with RT_TIMER_FLAG_ACTIVATED
          called,        \* the timer whose function is running, or None
          onTemp,        \* rt_timer_check's own list holds that timer
          checking,      \* rt_timer_check is running
          current_tick,  \* its local copy of tick, None outside
          age            \* history: ticks since each listed timer was started

vars == <<tick, list, timeout_tick, activated, called, onTemp, checking, current_tick, age>>

checkVars == <<called, checking, current_tick>>

Minus(a, b) == (a - b) % (RT_TICK_MAX + 1)

(* Mutant: ticks compared as if they never wrapped.                        *)
DueUnwrapped(now, deadline) == now >= deadline

(* A deadline counts as passed for half of the range of the tick.          *)
Due(now, deadline) == Minus(now, deadline) < Half

Listed == ToSet(list)

Init ==
    /\ tick \in 0..RT_TICK_MAX
    /\ list = <<>> /\ activated = {}
    /\ timeout_tick = <<>> /\ age = <<>>
    /\ called = None /\ onTemp = FALSE /\ checking = FALSE /\ current_tick = None

(* The bootloader's main loop and the application's call rt_timer_check    *)
(* all the time: no timer stays due for more than MaxLag ticks.            *)
SysTick_Handler ==
    /\ \A t \in Listed : age[t] < init_tick[t] + MaxLag
    /\ tick' = (tick + 1) % (RT_TICK_MAX + 1)
    /\ age' = [t \in Listed |-> age[t] + 1]
    /\ UNCHANGED <<list, timeout_tick, activated, onTemp>> /\ UNCHANGED checkVars

-----------------------------------------------------------------------------

(* Mutant: the place in the list is found without regard to the wrap.      *)
InsertedUnwrapped(queue, t, deadline) ==
    LET later == {i \in DOMAIN queue : timeout_tick[queue[i]] > deadline}
    IN  InsertAt(queue, IF later = {} THEN Len(queue) + 1 ELSE Min(later), t)

(* Mutant: the walk stops at the first timer that is not later.            *)
InsertedReversed(queue, t, deadline) ==
    LET earlier == {i \in DOMAIN queue : Minus(deadline, timeout_tick[queue[i]]) < Half}
    IN  InsertAt(queue, IF earlier = {} THEN Len(queue) + 1 ELSE Min(earlier), t)

(* rt_timer_start walks over all timers that are not later.                *)
Inserted(queue, t, deadline) ==
    LET later == {i \in DOMAIN queue : Minus(timeout_tick[queue[i]], deadline) \in 1..(Half - 1)}
    IN  InsertAt(queue, IF later = {} THEN Len(queue) + 1 ELSE Min(later), t)

Removed(t) ==
    IF t \in Listed THEN RemoveAt(list, CHOOSE i \in DOMAIN list : list[i] = t) ELSE list

Forgotten(t) ==
    /\ timeout_tick' = Restrict(timeout_tick, DOMAIN timeout_tick \ {t})
    /\ age' = Restrict(age, DOMAIN age \ {t})

(* rt_timer_start: from wherever it is into the list.                      *)
Started(t) ==
    LET deadline == (tick + init_tick[t]) % (RT_TICK_MAX + 1)
    IN  /\ list' = Inserted(Removed(t), t, deadline)
        /\ timeout_tick' = [u \in DOMAIN timeout_tick \union {t} |->
                                  IF u = t THEN deadline ELSE timeout_tick[u]]
        /\ activated' = activated \union {t}
        /\ age' = [u \in DOMAIN age \union {t} |-> IF u = t THEN 0 ELSE age[u]]

(* Removing the called timer empties rt_timer_check's own list.            *)
LeavesTemp(t) == onTemp' = (onTemp /\ t # called)

(* Functions are called by timers that are running, the rest of the        *)
(* program calls them between two checks.                                  *)
Caller == checking => called # None

rt_timer_start(t) ==
    /\ Caller /\ (t \in Restarted \/ t \notin activated)
    /\ Started(t) /\ LeavesTemp(t)
    /\ UNCHANGED tick /\ UNCHANGED checkVars

Unlisted(t) ==
    /\ list' = Removed(t) /\ Forgotten(t)
    /\ activated' = activated \ {t} /\ LeavesTemp(t)
    /\ UNCHANGED tick /\ UNCHANGED checkVars

rt_timer_stop(t) == Caller /\ t \in Restarted /\ t \in activated /\ Unlisted(t)

rt_timer_detach(t) == Caller /\ t \in Restarted /\ Unlisted(t)

-----------------------------------------------------------------------------
(* rt_timer_check                                                          *)

BeginCheck ==
    /\ ~checking
    /\ checking' = TRUE /\ current_tick' = tick
    /\ UNCHANGED <<tick, list, timeout_tick, activated, called, onTemp, age>>

HeadIsDue == list # <<>> /\ Due(current_tick, timeout_tick[Head(list)])

Call(t) ==
    /\ checking /\ called = None
    /\ HeadIsDue /\ t = Head(list)
    /\ list' = Tail(list) /\ Forgotten(t)
    /\ activated' = IF t \in Periodic THEN activated ELSE activated \ {t}
    /\ called' = t /\ onTemp' = TRUE
    /\ UNCHANGED <<tick, checking, current_tick>>

EndCheck ==
    /\ checking /\ called = None /\ ~HeadIsDue
    /\ checking' = FALSE /\ current_tick' = None
    /\ UNCHANGED <<tick, list, timeout_tick, activated, called, onTemp, age>>

Returns == called # None /\ called' = None /\ current_tick' = tick /\ onTemp' = FALSE
           /\ UNCHANGED <<tick, checking>>

(* Mutant: does not look whether the function has moved its own timer.     *)
FunctionReturnsBlind ==
    /\ Returns
    /\ IF called \in Periodic /\ called \in activated THEN Started(called)
       ELSE list' = Removed(called) /\ Forgotten(called) /\ UNCHANGED activated

(* Mutant: a periodic timer is not started again.                          *)
FunctionReturnsOnce ==
    /\ Returns
    /\ UNCHANGED <<list, timeout_tick, activated, age>>

(* A periodic timer is started again from now on, unless its function has  *)
(* stopped or started it itself.                                           *)
FunctionReturns ==
    /\ Returns
    /\ IF onTemp /\ called \in Periodic /\ called \in activated THEN Started(called)
       ELSE UNCHANGED <<list, timeout_tick, activated, age>>

CheckStep == BeginCheck \/ (\E t \in Timers : Call(t)) \/ EndCheck \/ FunctionReturns

Next ==
    \/ SysTick_Handler
    \/ \E t \in Timers : rt_timer_start(t) \/ rt_timer_stop(t) \/ rt_timer_detach(t)
    \/ CheckStep

Spec == Init /\ [][Next]_vars

-----------------------------------------------------------------------------

(* Flags and lists agree: the timers marked active are those in the list   *)
(* and the periodic one whose function is running, and none is listed      *)
(* twice, whatever functions do to timers, their own included.             *)
FlagsAgree ==
    /\ activated = Listed \union
           (IF onTemp /\ called \in Periodic THEN {called} ELSE {})
    /\ Cardinality(Listed) = Len(list)
    /\ onTemp => called \notin Listed

(* No function is called before its timer's time has passed since it was   *)
(* last started, however the tick wraps.                                   *)
NeverEarly == [][\A t \in Timers : Call(t) => age[t] >= init_tick[t]]_vars

(* Of the timers that wait, the one called has been due longest.           *)
InDeadlineOrder ==
    [][\A t \in Timers : Call(t) =>
           \A u \in Listed : age[u] - init_tick[u] <= age[t] - init_tick[t]]_vars

(* Time passes, the main loop checks, and functions return.                *)
Fairness == WF_vars(SysTick_Handler) /\ WF_vars(CheckStep)

FairSpec == Spec /\ Fairness

(* A periodic timer that nobody stops is called again and again, however   *)
(* short the periods of the others.                                        *)
KeepsFiring ==
    \A t \in Periodic \ Restarted : [](t \in activated => []<>(called = t))

(* A one-shot timer that was started and is left alone is called.          *)
FiresOnce ==
    \A t \in Timers \ (Periodic \union Restarted) : t \in activated ~> called = t
=============================================================================
