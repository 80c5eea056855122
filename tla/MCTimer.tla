------------------------------ MODULE MCTimer -------------------------------
(* Timer with three timers and a tick of four bits.                        *)
EXTENDS Timer

CONSTANTS fast, slow, once

MCTimers   == {fast, slow, once}
MCPeriodic == {fast, slow}
MCInitTick == [t \in MCTimers |-> IF t = fast THEN 1 ELSE IF t = slow THEN 3 ELSE 2]
=============================================================================
