------------------------------- MODULE Clock --------------------------------
(***************************************************************************)
(* src/kernel/core/time.c: the tick and second counters that the timer     *)
(* interrupt advances, and the busy part of sleep.  Both counters are      *)
(* unsigned and wrap around.                                               *)
(***************************************************************************)
EXTENDS Integers

CONSTANTS
    TICK_MOD,       \* number of values of ticks (2^32)
    SECOND_MOD,     \* number of values of seconds (2^32)
    TPS             \* ticks per second (100)

ASSUME ClockAssumption ==
    /\ TICK_MOD \in Nat \ {0}
    /\ SECOND_MOD \in Nat \ {0}
    /\ TPS \in Nat \ {0}

VARIABLES
    ticks,
    seconds,
    start,          \* sleep: ticks when it was called
    wait_ticks,     \* sleep: how long
    slept,          \* ticks since sleep was called, up to wait_ticks (history)
    uptime,         \* ticks since boot, as far as seconds can tell (history)
    wrapped         \* ticks has wrapped around (history)

clock_vars == <<ticks, seconds, start, wait_ticks, slept, uptime, wrapped>>

ClockInit ==
    /\ ticks = 0 /\ seconds = 0
    /\ start = 0 /\ wait_ticks = 0 /\ slept = 0
    /\ uptime = 0 /\ wrapped = FALSE

NextTick == (ticks + 1) % TICK_MOD

NextSecond_OldTick ==
    IF ticks % TPS = 0 THEN (seconds + 1) % SECOND_MOD ELSE seconds

NextSecond ==
    IF NextTick % TPS = 0 THEN (seconds + 1) % SECOND_MOD ELSE seconds

timer_tick ==
    /\ ticks' = NextTick
    /\ seconds' = NextSecond
    /\ slept' = IF slept < wait_ticks THEN slept + 1 ELSE slept
    /\ uptime' = (uptime + 1) % (TPS * SECOND_MOD)
    /\ wrapped' = (wrapped \/ NextTick = 0)
    /\ UNCHANGED <<start, wait_ticks>>

\* sleep(ms), w being ms / 10: the call ...
BeginSleep(w) ==
    /\ start' = ticks
    /\ wait_ticks' = w
    /\ slept' = 0
    /\ UNCHANGED <<ticks, seconds, uptime, wrapped>>

\* ... its return, which ends the life of its locals ...
EndSleep ==
    /\ start' = 0 /\ wait_ticks' = 0 /\ slept' = 0
    /\ UNCHANGED <<ticks, seconds, uptime, wrapped>>

\* ... and the condition of its loop.
StillWaiting_Signed == ticks < start + wait_ticks

StillWaiting_Deadline == ticks < (start + wait_ticks) % TICK_MOD

StillWaiting == (ticks - start) % TICK_MOD < wait_ticks
-----------------------------------------------------------------------------
(* Until the tick counter wraps (after 497 days), the second counter shows *)
(* the time since boot: timer_tick neither skips nor repeats a second.     *)
UptimeExact == ~ wrapped => seconds = uptime \div TPS
=============================================================================
