------------------------- MODULE FrozenClockProofs -------------------------
(***************************************************************************)
(* What TLAPS proves of FrozenClock: for every number of nanoseconds in a  *)
(* second, and however the clock moves.                                    *)
(***************************************************************************)
EXTENDS FrozenClock, TLAPS

LEMMA Distribute ==
    ASSUME NEW a \in Int, NEW b \in Int
    PROVE  /\ (a + b) * NSecPerSec = a * NSecPerSec + b * NSecPerSec
           /\ (a - b) * NSecPerSec = a * NSecPerSec - b * NSecPerSec
           /\ (a + b + 1) * NSecPerSec = a * NSecPerSec + b * NSecPerSec + NSecPerSec
           /\ (a - b - 1) * NSecPerSec = a * NSecPerSec - b * NSecPerSec - NSecPerSec
BY ClockAssumption

\* The nanoseconds of a time are an integer.
LEMMA NanosType == \A tp \in Timespec : Nanos(tp) \in Int
BY ClockAssumption DEF Timespec, Nanos

(***************************************************************************)
(* timespec_add and timespec_subtract carry and borrow one second at most, *)
(* which is enough: of normalised times they return the normalised sum and *)
(* difference.                                                             *)
(***************************************************************************)
LEMMA AddCorrect ==
    ASSUME NEW a \in Timespec, NEW b \in Timespec
    PROVE  /\ timespec_add(a, b) \in Timespec
           /\ Nanos(timespec_add(a, b)) = Nanos(a) + Nanos(b)
<1>1. /\ a.tv_sec \in Int /\ a.tv_nsec \in 0..(NSecPerSec - 1)
      /\ b.tv_sec \in Int /\ b.tv_nsec \in 0..(NSecPerSec - 1)
  BY DEF Timespec
<1>2. NSecPerSec \in Nat \ {0}
  BY ClockAssumption
<1>3. timespec_add(a, b) \in Timespec
  BY <1>1, <1>2 DEF timespec_add, Timespec
<1>4. Nanos(timespec_add(a, b)) = Nanos(a) + Nanos(b)
  BY <1>1, <1>2, Distribute DEF timespec_add, Nanos
<1> QED BY <1>3, <1>4

LEMMA SubtractCorrect ==
    ASSUME NEW a \in Timespec, NEW b \in Timespec
    PROVE  /\ timespec_subtract(a, b) \in Timespec
           /\ Nanos(timespec_subtract(a, b)) = Nanos(a) - Nanos(b)
<1>1. /\ a.tv_sec \in Int /\ a.tv_nsec \in 0..(NSecPerSec - 1)
      /\ b.tv_sec \in Int /\ b.tv_nsec \in 0..(NSecPerSec - 1)
  BY DEF Timespec
<1>2. NSecPerSec \in Nat \ {0}
  BY ClockAssumption
<1>3. timespec_subtract(a, b) \in Timespec
  BY <1>1, <1>2 DEF timespec_subtract, Timespec
<1>4. Nanos(timespec_subtract(a, b)) = Nanos(a) - Nanos(b)
  BY <1>1, <1>2, Distribute DEF timespec_subtract, Nanos
<1> QED BY <1>3, <1>4

\* The clock stays normalised and moves forward.
LEMMA TickCorrect ==
    ASSUME now \in Timespec, Tick
    PROVE  now' \in Timespec /\ Nanos(now') > Nanos(now)
<1>1. NSecPerSec \in Nat \ {0} /\ Nanos(now) \in Int
  BY ClockAssumption, NanosType
<1>2. PICK n \in Steps :
        now' = [tv_sec  |-> (Nanos(now) + n) \div NSecPerSec,
                tv_nsec |-> (Nanos(now) + n) % NSecPerSec]
  BY DEF Tick
<1>3. n \in Nat \ {0}
  BY ClockAssumption
<1> DEFINE x == Nanos(now) + n
<1>4. x \in Int
  BY <1>1, <1>3
<1> HIDE DEF x
<1>5. /\ x \div NSecPerSec \in Int /\ x % NSecPerSec \in 0..(NSecPerSec - 1)
      /\ x = (x \div NSecPerSec) * NSecPerSec + (x % NSecPerSec)
  BY <1>1, <1>4, SMTT(30)
<1>6. now' = [tv_sec |-> x \div NSecPerSec, tv_nsec |-> x % NSecPerSec]
  BY <1>2 DEF x
<1>7. now' \in Timespec /\ Nanos(now') = x
  BY <1>5, <1>6 DEF Timespec, Nanos
<1> QED BY <1>1, <1>3, <1>7 DEF x

-----------------------------------------------------------------------------
LEMMA ZeroType == Zero \in Timespec /\ Nanos(Zero) = 0
BY ClockAssumption DEF Zero, Timespec, Nanos

\* The timestamp of a moment while time is not frozen.
Elapsed(moment, start, frozen) ==
    timespec_subtract(timespec_subtract(moment, start), frozen)

LEMMA ElapsedCorrect ==
    ASSUME NEW a \in Timespec, NEW b \in Timespec, NEW c \in Timespec
    PROVE  /\ Elapsed(a, b, c) \in Timespec
           /\ Nanos(Elapsed(a, b, c)) = Nanos(a) - Nanos(b) - Nanos(c)
<1>1. timespec_subtract(a, b) \in Timespec
      /\ Nanos(timespec_subtract(a, b)) = Nanos(a) - Nanos(b)
  BY SubtractCorrect
<1> QED BY <1>1, SubtractCorrect DEF Elapsed

LEMMA TimestampIs ==
    /\ Timestamp = IF time_is_frozen THEN frozen_timestamp
                   ELSE Elapsed(now, start_time, total_time_frozen)
    /\ Timestamp' = IF time_is_frozen' THEN frozen_timestamp'
                    ELSE Elapsed(now', start_time', total_time_frozen')
BY DEF Timestamp, Elapsed

(***************************************************************************)
(* While time is frozen the timestamp is that of the moment it froze.  The *)
(* timestamp last written is not ahead of the next one.                    *)
(***************************************************************************)
FrozenInv ==
    time_is_frozen =>
      Nanos(frozen_timestamp) =
        Nanos(start_freeze_time) - Nanos(start_time) - Nanos(total_time_frozen)
StampInv == Nanos(stamp) <= Nanos(Timestamp)
ClockInv == TypeOK /\ FrozenInv /\ StampInv

LEMMA ClockInit == Init => ClockInv /\ App!Init
<1> SUFFICES ASSUME Init PROVE ClockInv /\ App!Init
  OBVIOUS
<1>1. now \in Timespec
  BY ClockAssumption DEF Init, Timespec
<1>2. TypeOK
  BY <1>1, ZeroType DEF Init, TypeOK
<1>3. Nanos(Timestamp) = 0 /\ Nanos(stamp) = 0
  <2>1. Nanos(Elapsed(now, start_time, total_time_frozen))
          = Nanos(now) - Nanos(start_time) - Nanos(total_time_frozen)
    BY <1>2, ElapsedCorrect DEF TypeOK
  <2>2. Timestamp = Elapsed(now, start_time, total_time_frozen)
    BY TimestampIs DEF Init
  <2> QED BY <1>1, <2>1, <2>2, ZeroType, NanosType DEF Init
<1> QED BY <1>2, <1>3 DEF Init, ClockInv, FrozenInv, StampInv, App!Init

\* Every step keeps the invariant and is a step of AppClock.
LEMMA ClockStep ==
    ASSUME ClockInv, [Next]_vars
    PROVE  ClockInv' /\ [App!Next]_(App!vars)
<1> USE DEF ClockInv
<1>1. /\ now \in Timespec /\ start_time \in Timespec
      /\ total_time_frozen \in Timespec /\ start_freeze_time \in Timespec
      /\ frozen_timestamp \in Timespec /\ stamp \in Timespec
      /\ time_is_frozen \in BOOLEAN
  BY DEF TypeOK
<1>2. /\ Nanos(now) \in Int /\ Nanos(start_time) \in Int
      /\ Nanos(total_time_frozen) \in Int /\ Nanos(start_freeze_time) \in Int
      /\ Nanos(frozen_timestamp) \in Int /\ Nanos(stamp) \in Int
  BY <1>1, NanosType
<1> DEFINE E == Elapsed(now, start_time, total_time_frozen)
<1>3. E \in Timespec
      /\ Nanos(E) = Nanos(now) - Nanos(start_time) - Nanos(total_time_frozen)
  BY <1>1, ElapsedCorrect
<1>4. CASE Tick
  <2>1. now' \in Timespec /\ Nanos(now') > Nanos(now) /\ Nanos(now') \in Int
    BY <1>1, <1>4, TickCorrect, NanosType
  <2>2. UNCHANGED <<start_time, total_time_frozen, start_freeze_time,
                    frozen_timestamp, time_is_frozen, stamp>>
    BY <1>4 DEF Tick, clocks
  <2>3. TypeOK' /\ FrozenInv'
    BY <1>1, <2>1, <2>2 DEF TypeOK, FrozenInv
  <2> DEFINE F == Elapsed(now', start_time, total_time_frozen)
  <2>4. Nanos(F) = Nanos(now') - Nanos(start_time) - Nanos(total_time_frozen)
    BY <1>1, <2>1, ElapsedCorrect
  <2>5. CASE time_is_frozen
    <3>1. Timestamp' = Timestamp
      BY <2>2, <2>5, TimestampIs
    <3> QED BY <2>2, <2>3, <3>1 DEF StampInv, App!vars
  <2>6. CASE ~time_is_frozen
    <3>1. Timestamp = E /\ Timestamp' = F
      BY <2>2, <2>6, TimestampIs
    <3>2. Nanos(F) \in Int /\ Nanos(F) > Nanos(E)
      BY <1>2, <1>3, <2>1, <2>4
    <3>3. StampInv'
      BY <1>2, <1>3, <2>2, <3>1, <3>2 DEF StampInv
    <3>4. App!Advance
      BY <2>2, <2>6, <3>1, <3>2 DEF App!Advance
    <3> QED BY <2>3, <3>3, <3>4 DEF App!Next
  <2> QED BY <2>5, <2>6
<1>5. CASE panwrap_freeze_time
  <2>1. /\ ~time_is_frozen /\ time_is_frozen' = TRUE
        /\ start_freeze_time' = now /\ frozen_timestamp' = E
        /\ UNCHANGED <<now, start_time, total_time_frozen, stamp>>
    BY <1>5 DEF panwrap_freeze_time, Elapsed
  <2>2. TypeOK' /\ FrozenInv'
    BY <1>1, <1>3, <2>1 DEF TypeOK, FrozenInv
  <2>3. Timestamp' = Timestamp
    BY <2>1, TimestampIs
  <2>4. App!Freeze /\ StampInv'
    BY <2>1, <2>3 DEF App!Freeze, StampInv
  <2> QED BY <2>2, <2>4 DEF App!Next
<1>6. CASE panwrap_unfreeze_time
  <2> DEFINE spent == timespec_subtract(now, start_freeze_time)
             total == timespec_add(total_time_frozen, spent)
  <2>1. /\ time_is_frozen /\ time_is_frozen' = FALSE
        /\ total_time_frozen' = total
        /\ UNCHANGED <<now, start_time, start_freeze_time, frozen_timestamp, stamp>>
    BY <1>6 DEF panwrap_unfreeze_time
  <2>2. spent \in Timespec /\ Nanos(spent) = Nanos(now) - Nanos(start_freeze_time)
    BY <1>1, SubtractCorrect
  <2>3. total \in Timespec /\ Nanos(total) = Nanos(total_time_frozen) + Nanos(spent)
    BY <1>1, <2>2, AddCorrect
  <2> HIDE DEF spent, total
  <2>4. TypeOK' /\ FrozenInv'
    BY <1>1, <2>1, <2>3 DEF TypeOK, FrozenInv
  <2> DEFINE F == Elapsed(now, start_time, total)
  <2>5. Timestamp = frozen_timestamp /\ Timestamp' = F
    BY <2>1, TimestampIs
  <2>6. Nanos(F) = Nanos(now) - Nanos(start_time) - Nanos(total)
    BY <1>1, <2>3, ElapsedCorrect
  <2>7. Nanos(frozen_timestamp) = Nanos(start_freeze_time) - Nanos(start_time)
                                    - Nanos(total_time_frozen)
    BY <2>1 DEF FrozenInv
  <2>8. Nanos(F) = Nanos(frozen_timestamp)
    BY <1>2, <2>2, <2>3, <2>6, <2>7
  <2>9. App!Unfreeze /\ StampInv'
    BY <2>1, <2>5, <2>8 DEF App!Unfreeze, StampInv
  <2> QED BY <2>4, <2>9 DEF App!Next
<1>7. CASE panwrap_log
  <2>1. stamp' = Timestamp
        /\ UNCHANGED <<now, start_time, total_time_frozen, start_freeze_time,
                       frozen_timestamp, time_is_frozen>>
    BY <1>7 DEF panwrap_log, clocks
  <2>2. Timestamp' = Timestamp /\ Timestamp \in Timespec
    BY <1>1, <1>3, <2>1, TimestampIs
  <2>3. TypeOK' /\ FrozenInv'
    BY <1>1, <2>1, <2>2 DEF TypeOK, FrozenInv
  <2>4. StampInv' /\ App!Log
    BY <2>1, <2>2, NanosType DEF StampInv, App!Log
  <2> QED BY <2>3, <2>4 DEF App!Next
<1>8. CASE UNCHANGED vars
  <2>1. UNCHANGED <<now, start_time, total_time_frozen, start_freeze_time,
                    frozen_timestamp, time_is_frozen, stamp>>
    BY <1>8 DEF vars, clocks
  <2>2. Timestamp' = Timestamp
    BY <2>1, TimestampIs
  <2> QED BY <1>1, <2>1, <2>2 DEF TypeOK, FrozenInv, StampInv, App!vars
<1> QED BY <1>4, <1>5, <1>6, <1>7, <1>8 DEF Next

(***************************************************************************)
(* panwrap's timestamps implement AppClock: any time that passes while     *)
(* frozen is removed from them, and no other.                              *)
(***************************************************************************)
THEOREM ClockImplementsAppClock == Spec => ShowsAppTime
<1>1. ClockInv /\ [Next]_vars => ClockInv'
  BY ClockStep
<1>2. ClockInv /\ [Next]_vars => [App!Next]_(App!vars)
  BY ClockStep
<1> QED BY ClockInit, <1>1, <1>2, PTL DEF Spec, ShowsAppTime, App!Spec

(***************************************************************************)
(* All times stay normalised.                                              *)
(***************************************************************************)
THEOREM ClockTypeCorrect == Spec => []TypeOK
<1>1. ClockInv /\ [Next]_vars => ClockInv'
  BY ClockStep
<1>2. ClockInv => TypeOK
  BY DEF ClockInv
<1> QED BY ClockInit, <1>1, <1>2, PTL DEF Spec

(***************************************************************************)
(* The lines of the log are in the order of their timestamps.              *)
(***************************************************************************)
THEOREM LogLinesInOrder == Spec => LogInOrder
<1>1. ClockInv /\ [Next]_vars => ClockInv'
  BY ClockStep
<1>2. ClockInv /\ [Next]_vars => [Nanos(stamp') >= Nanos(stamp)]_vars
  <2>1. ASSUME ClockInv, Next PROVE Nanos(stamp') >= Nanos(stamp)
    <3>1. Nanos(stamp) \in Int
      BY <2>1, NanosType DEF ClockInv, TypeOK
    <3>2. stamp' = stamp \/ stamp' = Timestamp
      BY <2>1 DEF Next, Tick, panwrap_freeze_time, panwrap_unfreeze_time, panwrap_log
    <3> QED BY <2>1, <3>1, <3>2 DEF ClockInv, StampInv
  <2> QED BY <2>1
<1> QED BY ClockInit, <1>1, <1>2, PTL DEF Spec, LogInOrder
=============================================================================
