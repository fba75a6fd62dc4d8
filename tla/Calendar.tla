------------------------------- MODULE Calendar -------------------------------
(***************************************************************************)
(* What the Content Schedule page promises of schedule/schedule.json: a    *)
(* save changes the programming of the one day it was made for, whatever   *)
(* is saved elsewhere meanwhile, and a manifest nobody can read is left as *)
(* it is.  ContentSchedule implements this.                                *)
(***************************************************************************)
EXTENDS Naturals

CONSTANTS Day,          \* dates of the calendar
          Programme,    \* what an entry can put on a day
          Regular       \* a day without an entry

VARIABLES schedule,     \* [Day -> Programme or Regular]
          readable,     \* the manifest passes the contract
          elsewhere     \* how often somebody outside the console has written it

vars == <<schedule, readable, elsewhere>>

Schedule == [Day -> Programme \cup {Regular}]

Init ==
    /\ schedule = [d \in Day |-> Regular]
    /\ readable = TRUE
    /\ elsewhere = 0

\* A console session puts w on day d.
Save(d, w) ==
    /\ readable
    /\ schedule' = [schedule EXCEPT ![d] = w]
    /\ UNCHANGED <<readable, elsewhere>>

\* Anybody else may do anything to the manifest.
Elsewhere ==
    /\ elsewhere' = elsewhere + 1
    /\ schedule' \in Schedule
    /\ readable' \in BOOLEAN

Next ==
    \/ \E d \in Day, w \in Programme \cup {Regular} : Save(d, w)
    \/ Elsewhere

Spec == Init /\ [][Next]_vars

=============================================================================
