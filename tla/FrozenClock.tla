---------------------------- MODULE FrozenClock ----------------------------
(***************************************************************************)
(* The timestamps of panwrap/panwrap-util.c when                           *)
(* PANWRAP_ENABLE_TIMESTAMPS is set (otherwise the functions return at     *)
(* once and no timestamp is written).  Times are struct timespec records;  *)
(* a second has NSecPerSec nanoseconds.                                    *)
(*                                                                         *)
(* The functions run under panwrap's mutex, so each is one step, at the    *)
(* moment it reads the monotonic clock.  Callers never freeze a frozen     *)
(* clock: in Panwrap every panwrap_freeze_time is followed by a            *)
(* panwrap_unfreeze_time before the next one (LockStep in PanwrapProofs).  *)
(***************************************************************************)
EXTENDS Integers

CONSTANTS NSecPerSec,  \* 1e+9 in the code
          Steps,       \* how far the monotonic clock may move between steps
          MaxSec       \* bound on the monotonic clock, in seconds

ASSUME ClockAssumption ==
    /\ NSecPerSec \in Nat \ {0}
    /\ Steps \subseteq Nat \ {0}
    /\ MaxSec \in Nat

VARIABLES
    now,                \* CLOCK_MONOTONIC
    start_time, total_time_frozen, start_freeze_time, frozen_timestamp,
    time_is_frozen,
    stamp               \* the timestamp last written to the log

clocks == <<start_time, total_time_frozen, start_freeze_time, frozen_timestamp>>
vars   == <<now, clocks, time_is_frozen, stamp>>

-----------------------------------------------------------------------------
Timespec == [tv_sec : Int, tv_nsec : 0..(NSecPerSec - 1)]
Zero     == [tv_sec |-> 0, tv_nsec |-> 0]
Nanos(tp) == tp.tv_sec * NSecPerSec + tp.tv_nsec

\* Mutant: a sum of exactly one second of nanoseconds is not carried.
timespec_add_late(tp, value) ==
    LET sec  == tp.tv_sec + value.tv_sec
        nsec == tp.tv_nsec + value.tv_nsec
    IN  IF nsec > NSecPerSec
        THEN [tv_sec |-> sec + 1, tv_nsec |-> nsec - NSecPerSec]
        ELSE [tv_sec |-> sec, tv_nsec |-> nsec]

timespec_add(tp, value) ==
    LET sec  == tp.tv_sec + value.tv_sec
        nsec == tp.tv_nsec + value.tv_nsec
    IN  IF nsec >= NSecPerSec
        THEN [tv_sec |-> sec + 1, tv_nsec |-> nsec - NSecPerSec]
        ELSE [tv_sec |-> sec, tv_nsec |-> nsec]

timespec_subtract(tp, value) ==
    LET sec  == tp.tv_sec - value.tv_sec
        nsec == tp.tv_nsec - value.tv_nsec
    IN  IF nsec < 0
        THEN [tv_sec |-> sec - 1, tv_nsec |-> NSecPerSec + nsec]
        ELSE [tv_sec |-> sec, tv_nsec |-> nsec]

\* timestamp_get
Timestamp ==
    IF time_is_frozen THEN frozen_timestamp
    ELSE timespec_subtract(timespec_subtract(now, start_time), total_time_frozen)

-----------------------------------------------------------------------------
TypeOK ==
    /\ {now, start_time, total_time_frozen, start_freeze_time,
        frozen_timestamp, stamp} \subseteq Timespec
    /\ time_is_frozen \in BOOLEAN

\* panwrap_util_init reads the clock, whatever it shows.
Init ==
    /\ now \in {[tv_sec |-> s, tv_nsec |-> n] : s \in 0..MaxSec, n \in 0..(NSecPerSec - 1)}
    /\ start_time = now
    /\ total_time_frozen = Zero
    /\ start_freeze_time = Zero
    /\ frozen_timestamp = Zero
    /\ time_is_frozen = FALSE
    /\ stamp = Zero

\* Time passes.
Tick ==
    /\ \E n \in Steps :
         now' = [tv_sec  |-> (Nanos(now) + n) \div NSecPerSec,
                 tv_nsec |-> (Nanos(now) + n) % NSecPerSec]
    /\ now'.tv_sec <= MaxSec
    /\ UNCHANGED <<clocks, time_is_frozen, stamp>>

\* Mutant: the time already spent frozen is not taken off.
panwrap_freeze_time_raw ==
    /\ ~time_is_frozen
    /\ start_freeze_time' = now
    /\ time_is_frozen' = TRUE
    /\ frozen_timestamp' = timespec_subtract(now, start_time)
    /\ UNCHANGED <<now, start_time, total_time_frozen, stamp>>

panwrap_freeze_time ==
    /\ ~time_is_frozen
    /\ start_freeze_time' = now
    /\ time_is_frozen' = TRUE
    /\ frozen_timestamp' =
         timespec_subtract(timespec_subtract(now, start_time), total_time_frozen)
    /\ UNCHANGED <<now, start_time, total_time_frozen, stamp>>

\* Mutant: only the last time spent frozen is remembered.
panwrap_unfreeze_time_last ==
    /\ time_is_frozen
    /\ time_is_frozen' = FALSE
    /\ total_time_frozen' = timespec_subtract(now, start_freeze_time)
    /\ UNCHANGED <<now, start_time, start_freeze_time, frozen_timestamp, stamp>>

\* Without a freeze before it, it does nothing.
panwrap_unfreeze_time ==
    /\ time_is_frozen
    /\ time_is_frozen' = FALSE
    /\ total_time_frozen' = timespec_add(total_time_frozen,
                              timespec_subtract(now, start_freeze_time))
    /\ UNCHANGED <<now, start_time, start_freeze_time, frozen_timestamp, stamp>>

panwrap_log ==
    /\ stamp' = Timestamp
    /\ UNCHANGED <<now, clocks, time_is_frozen>>

Next == Tick \/ panwrap_freeze_time \/ panwrap_unfreeze_time \/ panwrap_log
Spec == Init /\ [][Next]_vars

-----------------------------------------------------------------------------
(***************************************************************************)
(* The log shows a clock that runs with the program and stands still while *)
(* time is frozen ("any time that passes while frozen is removed from      *)
(* timestamps"): every step of these functions is a step of AppClock.      *)
(***************************************************************************)
App == INSTANCE AppClock WITH app <- Nanos(Timestamp),
                              running <- ~time_is_frozen,
                              stamp <- Nanos(stamp)
ShowsAppTime == App!Spec

(***************************************************************************)
(* Timestamps never go back from one line of the log to a later one.       *)
(***************************************************************************)
LogInOrder == [][Nanos(stamp') >= Nanos(stamp)]_vars
=============================================================================
