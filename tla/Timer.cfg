\* fast is started and stopped at any moment, the others are left alone while
\* they run.
SPECIFICATION FairSpec
CONSTANTS
    fast = fast
    slow = slow
    once = once
    None = None
    RT_TICK_MAX = 15
    MaxLag = 2
    Restarted = {fast}
CONSTANT Timers <- MCTimers
CONSTANT Periodic <- MCPeriodic
CONSTANT init_tick <- MCInitTick
INVARIANT FlagsAgree
PROPERTY NeverEarly
PROPERTY InDeadlineOrder
PROPERTY FiresOnce
PROPERTY KeepsFiring
