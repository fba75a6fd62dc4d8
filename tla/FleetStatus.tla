----------------------------- MODULE FleetStatus -----------------------------
(***************************************************************************)
(* fleet_status.py: the dot of a scheduled pipeline's row, from the view   *)
(* the loader gathered, the clock and the trading calendar.  Times are in  *)
(* quarter hours from midnight UTC of day 0, in a week of New York summer  *)
(* time; the clock moves from one of Instants to the next, one on each     *)
(* side of every deadline of a day.                                        *)
(***************************************************************************)
EXTENDS PipelineStatus

CONSTANTS Instants,     \* the times of the clock
          Trading,      \* days with a session of the exchange
          Saturdays

VARIABLE log            \* history: [past instant -> Shown then]

DayLength == 96
Day(t) == t \div DayLength
At(day, quarter) == day * DayLength + quarter

ASSUME CalendarAssumption ==
    /\ Opening \in Instants
    /\ Instants \subseteq Int /\ Trading \subseteq Int /\ Saturdays \subseteq Int

\* 09:00 + 15 min, 12:45 + 15 min; close + 2 h, + 6 h 30, + 6 h 30 + 2 h.
WEEKLY_DUE == 37
PREOPEN_DUE == 52
CLOSE == 80
POSTCLOSE_DUE_LAG == 8
RECONCILE_START_DUE_LAG == 26
EXERCISE_LAUNCH_MARGIN == 8

\* market_hours_utc: the close of the day it is in New York, session or not.
ExchangeDay(t) == Day(t - 16)
TodaysClose(t) == At(ExchangeDay(t), CLOSE)

\* The close of the last completed session, looking back twelve days; at most one.
TodaysSessionClose == [t \in Instants |-> {TodaysClose(t)}]
PrevSessionClose == [t \in Instants |->
    LET closes == {At(d, CLOSE) : d \in {e \in Trading : e \in Day(t) - 11 .. Day(t)}}
        completed == {c \in closes : c <= t}
    IN  {c \in completed : \A other \in completed : other <= c}]

ChainedToNothing == {}
ChainedToClose == {"postclose_reconcile", "weekly_exercise"}

\* _pipeline_expectation: when the row's run is due, if one is expected at all.
Due(r, t) ==
    CASE r = "weekly" -> IF Day(t) \in Saturdays THEN {At(Day(t), WEEKLY_DUE)} ELSE {}
      [] r = "preopen" -> IF Day(t) \in Trading THEN {At(Day(t), PREOPEN_DUE)} ELSE {}
      [] r = "postclose" ->
            IF Day(t) \in Trading THEN {TodaysClose(t) + POSTCLOSE_DUE_LAG} ELSE {}
      [] r = "postclose_reconcile" ->
            {c + RECONCILE_START_DUE_LAG : c \in PrevSessionClose[t]}
      [] OTHER ->
            {c + RECONCILE_START_DUE_LAG + EXERCISE_LAUNCH_MARGIN : c \in PrevSessionClose[t]}

RanToday(r, started, t) ==
    IF r \in ChainedToClose THEN \E c \in PrevSessionClose[t] : started >= c
    ELSE Day(started) = Day(t)

Overdue(r, started, t) == (\E due \in Due(r, t) : t >= due) /\ ~RanToday(r, started, t)

\* _resolve_pipeline: what the row says of a view, and the dot that earns.
Says(r, v, t) ==
    LET run == hist[MachineOf(r)][v.snap.id]
    IN  CASE v.says # "RUN" -> v.says
          [] v.says = "RUN" /\ v.verdict = "RUNNING" -> "running"
          [] v.says = "RUN" /\ v.verdict # "RUNNING" /\ Overdue(r, run.at, t) -> "overdue"
          [] OTHER ->
                IF v.verdict = "COMPLETE" /\ run.role \in Recovery \cup {"rerun"}
                THEN "recovered" ELSE v.verdict

FailedDot(r) == IF r = "weekly_exercise" THEN "YELLOW" ELSE "RED"
Dot(r, said) ==
    CASE said \in {"running", "recovered"} -> "GREEN"
      [] said \in {"UNAVAILABLE", "overdue", "PARTIAL"} -> "YELLOW"
      [] said = "FAILED" -> FailedDot(r)
      [] OTHER -> "GRAY"

-----------------------------------------------------------------------------
\* What a page that reads the truth says; for a row none of whose roles is in the
\* library's window, that, although it then shows the run of another role.
Shown == IF Fresh(MachineOf(watched), Scope(watched)) = NoRun THEN "NO_EXECUTIONS"
         ELSE Says(watched, TrueView, now)

FleetInit == PipelineInit /\ log = <<>>

Tick ==
    LET later == {t \in Instants : t > now}
    IN  /\ Spend("tick")
        /\ \E t \in later : (\A other \in later : t <= other) /\ now' = t
        /\ log' = [t \in DOMAIN log \cup {now} |->
                      IF t = now THEN Shown ELSE log[t]]
        /\ memo' = NoMemo
        /\ s3memo' = NotFetched
        /\ UNCHANGED <<watched, hist, object, sessions, view>>

fleet == <<pipelines, log>>

FleetNext == (PipelineNext /\ UNCHANGED log) \/ Tick

FleetSpec == FleetInit /\ [][FleetNext]_fleet

\* The open page's fragment is run again and again (what fails is bounded, so
\* that the runs in which nothing does are endless too), and memos run out.
AMemoExpires == S3MemoExpires \/ \E m \in Machine, k \in Kind : MemoExpires(m, k)
FairFleetSpec ==
    /\ FleetSpec
    /\ WF_fleet(RenderWhen({}) /\ UNCHANGED log)
    /\ WF_fleet(AMemoExpires /\ UNCHANGED log)

FleetTypeOK == PipelineTypeOK /\ now \in Instants /\ DOMAIN log \subseteq Instants

-----------------------------------------------------------------------------
\* The dot of a page that reads the truth, a stage at a time.
TrueDot ==
    LET saying == {Says(watched, v, now) : v \in {TrueView}}
    IN  CHOOSE dot \in {Dot(watched, said) : said \in saying} : TRUE

\* The cycles of a row: when its run is for.
Cycles == [r \in Row |->
    CASE r = "weekly" -> {[from |-> At(d, 0), to |-> At(d + 1, 0)] : d \in Saturdays}
      [] r = "preopen" -> {[from |-> At(d, 0), to |-> At(d + 1, 0)] : d \in Trading}
      [] OTHER -> {[from |-> At(p[1], CLOSE), to |-> At(p[2], CLOSE)] :
                      p \in {q \in Trading \X Trading :
                            q[1] < q[2] /\ \A x \in Trading : x <= q[1] \/ x >= q[2]}}]
In(cycle, t) == cycle.from <= t /\ t < cycle.to

\* When its run is overdue, after the beginning of the cycle.
DueLag == [r \in Row |->
    CASE r = "weekly" -> WEEKLY_DUE
      [] r = "preopen" -> PREOPEN_DUE
      [] r = "postclose" -> POSTCLOSE_DUE_LAG
      [] r = "postclose_reconcile" -> RECONCILE_START_DUE_LAG
      [] OTHER -> RECONCILE_START_DUE_LAG + EXERCISE_LAUNCH_MARGIN]

\* An instant of the cycle at which a page can tell that its run was not started:
\* in the hours of one date, and within the twelve days the calendar looks back.
Tells(r, cycle, t) ==
    /\ In(cycle, t) /\ t >= cycle.from + DueLag[r] /\ Day(t) = ExchangeDay(t)
    /\ r = "postclose" => Day(t) = Day(cycle.from)
    /\ Day(t) - Day(cycle.from) <= 11

\* The clock stops at such an instant of every cycle it passes.
ASSUME ClockAssumption ==
    \A r \in Row : \A cycle \in Cycles[r] :
        cycle.from >= Opening /\ (\E t \in Instants : cycle.to <= t)
            => \E t \in Instants : Tells(r, cycle, t)

OwnRuns ==
    LET m == MachineOf(watched)
    IN  {hist[m][i] : i \in {j \in DOMAIN hist[m] : hist[m][j].role \in Roles(m, Scope(watched))}}
RunFor(cycle) == \E run \in OwnRuns : In(cycle, run.at)

\* A run of the day of the close, before it, passes for the post-close run.
EarlyRunFor(cycle) ==
    watched = "postclose" /\ \E run \in OwnRuns : Day(run.at) = Day(cycle.from)

\* A cycle nobody started does not pass in silence: at some moment of it, in the
\* hours in which New York and UTC have one date, a page that reads the truth says
\* overdue, unless an execution of an earlier cycle is still running, none of the
\* row's roles is in the library's window, or another run passes for this one.
MissedIsSeen ==
    \A cycle \in Cycles[watched] :
        cycle.from >= Opening /\ cycle.to <= now /\ ~RunFor(cycle) /\ ~EarlyRunFor(cycle) =>
            \E t \in DOMAIN log :
                /\ In(cycle, t) /\ Day(t) = ExchangeDay(t)
                /\ log[t] \in {"overdue", "running", "NO_EXECUTIONS"}

\* What a page that reads the truth calls overdue was not started.
OverdueIsReal ==
    Says(watched, TrueView, now) = "overdue" =>
        \A cycle \in Cycles[watched] : In(cycle, now) => ~RunFor(cycle)

\* ... which holds whenever it is the same day in New York and in UTC.
OverdueIsRealByDay == Day(now) = ExchangeDay(now) => OverdueIsReal

\* The newest execution of the cadence, or of a recovery of it, in the window.
CadenceRun == Fresh(MachineOf(watched), "cadence")

\* A failed cycle stays red until an execution of the cadence or of a recovery
\* of it starts or ends, or newer executions take it out of the library's window:
\* time, exercise and ad-hoc runs never turn it idle before that.
FailureOutlastsIdle ==
    [][TrueDot = "RED" /\ CadenceRun # NoRun /\ CadenceRun' = CadenceRun
          => TrueDot' \notin {"GREEN", "GRAY"}]_fleet

\* When nothing happens any more the page shows what is the case.
ViewCatchesUp == budget["page"] > 0 => <>[](view = TrueView)

=============================================================================
