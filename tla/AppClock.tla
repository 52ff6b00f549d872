------------------------------ MODULE AppClock ------------------------------
(***************************************************************************)
(* What the comment above panwrap_freeze_time promises of the timestamps   *)
(* in panwrap's log: they are the readings of a clock that runs with the   *)
(* traced program and stands still while time is frozen.                   *)
(***************************************************************************)
EXTENDS Integers

VARIABLES
    app,      \* nanoseconds the program has run, outside panwrap's own code
    running,  \* the program runs
    stamp     \* the timestamp last written to the log

vars == <<app, running, stamp>>

Init == app = 0 /\ running = TRUE /\ stamp = 0

Advance  == /\ running
            /\ app' \in Int /\ app' > app
            /\ UNCHANGED <<running, stamp>>
Freeze   == running  /\ running' = FALSE /\ UNCHANGED <<app, stamp>>
Unfreeze == ~running /\ running' = TRUE  /\ UNCHANGED <<app, stamp>>
Log      == stamp' = app /\ UNCHANGED <<app, running>>

Next == Advance \/ Freeze \/ Unfreeze \/ Log
Spec == Init /\ [][Next]_vars
=============================================================================
