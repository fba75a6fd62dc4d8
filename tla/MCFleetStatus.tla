---------------------------- MODULE MCFleetStatus ----------------------------
(***************************************************************************)
(* An instance of FleetStatus: from a Friday's afternoon to the Tuesday    *)
(* night after it.  A behaviour follows one row through one scenario.      *)
(***************************************************************************)
EXTENDS FleetStatus

\* All artifacts whatever the execution did, none, some, and nothing to produce.
Ended(status, produced, total, work) ==
    [status |-> status, produced |-> produced, total |-> total, work |-> work]
MCEnding == {Ended("SUCCEEDED", 2, 2, "COMPLETED"), Ended("FAILED", 1, 2, "INCOMPLETE"),
             Ended("FAILED", 0, 2, "INCOMPLETE"), Ended("SUCCEEDED", 0, 0, "SKIPPED")}

\* The days are Friday (0), Saturday, Sunday, Monday and Tuesday.
MCTrading == {-1, 0, 3, 4}
MCSaturdays == {-6, 1}

\* Last Saturday's cadence, the exercise run after Thursday's session, and each
\* trading machine's last run.
Succeeded(role, at) == [role |-> role, at |-> at, status |-> "SUCCEEDED", produced |-> 2,
                        total |-> 2, work |-> "COMPLETED"]
MCPast == {[m \in Machine |->
    CASE m = "weekly" -> <<Succeeded("weekly", At(-6, 36)), Succeeded("exercise", At(0, 12))>>
      [] m = "preopen" -> <<Succeeded("daily", At(0, 51))>>
      [] m = "postclose" -> <<Succeeded("eod", At(-1, 86))>>
      [] OTHER -> <<Succeeded("eod", At(0, 8))>>]}

MCStarted == [m \in Machine |->
    {Canonical(m), "recovery"} \cup (IF m = "weekly" THEN {"exercise"} ELSE {})]

\* Two of the four are polled, which is enough for one to be left out.
MCSfOrder == <<"weekly", "preopen">>

\* Friday 14:00, its close and 23:00; then every day 03:00 (the reconcile is due,
\* New York is a day behind), 05:00 (the exercise run is due), 14:00 (the crons are
\* due), 21:00 (after the close) and 23:00 (the post-close run is due).
MCInstants == {At(0, 56), At(0, 80), At(0, 92)} \cup {At(d, q) : d \in 1 .. 4, q \in {12, 20, 56, 84, 92}}

\* Two refreshes that race; calls that fail; executions that crowd a role out of
\* the library's window; the clock.
Nobody == [e \in Event |-> 0]
Racing == [Nobody EXCEPT !["start"] = 1, !["press"] = 2, !["visit"] = 1, !["restart"] = 1]
Failing == [Nobody EXCEPT !["start"] = 1, !["press"] = 1, !["page"] = 1, !["fault"] = 2]
Crowding == [Nobody EXCEPT !["start"] = 2, !["page"] = 1, !["fault"] = 1]
Passing == [Nobody EXCEPT !["start"] = 1, !["tick"] = Cardinality(MCInstants)]

Watch(rows, events) == {[row |-> r, events |-> events] : r \in rows}
MCScenario == Watch({"weekly"}, Racing)
              \cup Watch({"weekly", "weekly_exercise"}, Failing)
              \cup Watch({"weekly", "weekly_exercise"}, Crowding)
              \cup Watch(Row, Passing)
ByNight == Watch({"postclose"}, Passing)

=============================================================================
