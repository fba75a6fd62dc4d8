---------------------------- MODULE PipelineStatus ----------------------------
(***************************************************************************)
(* loaders/pipeline_status_loader.py: how the console learns what the      *)
(* Step Functions did.  A read asks for the newest execution of some       *)
(* roles, through a 60-second memo that every session shares, and falls    *)
(* back to any role, then to the last-good object in S3, which is read     *)
(* through a 15-minute memo of its own.  Only page 25's refresh button     *)
(* writes that object: clear the memo, poll the machines one by one, put   *)
(* what could be read.  Sessions interleave at every call of theirs.       *)
(*                                                                         *)
(* A snapshot is an execution and whether it had ended when it was read,   *)
(* so that a memo, the object and a view keep what was true then while     *)
(* hist moves on.  A behaviour follows one row of the fleet page           *)
(* (watched), so executions start on that row's machine only; the other    *)
(* machines matter to the object, which holds all of them.                 *)
(***************************************************************************)
EXTENDS Integers, Sequences, FiniteSets

CONSTANTS Machine,      \* state machines
          SfOrder,      \* _SF_ORDER: the sequence a refresh polls them in
          Opening,      \* the time a behaviour starts at
          Session,      \* sessions of page 25 that can press refresh at once
          Window,       \* executions the library looks back over for a role
          MaxRuns,      \* bound: executions of one machine
          Started,      \* [Machine -> roles its executions are started with]
          Ending,       \* how an execution can end
          Past,         \* [Machine -> sequence of executions] to begin with
          Scenario      \* bound: the rows that are watched, each with the
                        \* environment events of the behaviour

\* A rerun carries the role and the input of the execution it repeats and is
\* told apart by its name only: every filter lets it through with its cadence.
Canonical(m) ==
    CASE m = "weekly" -> "weekly" [] m = "preopen" -> "daily" [] OTHER -> "eod"
Recovery == {"watch-rerun", "recovery"}
Role == {"weekly", "daily", "eod", "rerun", "exercise", "smoke"} \cup Recovery

Row == {"weekly", "weekly_exercise", "preopen", "postclose", "postclose_reconcile"}
MachineOf(r) == IF r = "weekly_exercise" THEN "weekly" ELSE r

\* The role filters in use, and the unfiltered read.
Kind == {"canonical", "cadence", "exercise", "any"}
ScopeOfAnyRole(r) == IF r = "weekly_exercise" THEN "exercise" ELSE "any"
Scope(r) == IF r = "weekly_exercise" THEN "exercise" ELSE "cadence"
Roles(m, k) ==
    CASE k = "canonical" -> {Canonical(m), "rerun"}
      [] k = "cadence" -> {Canonical(m), "rerun"} \cup Recovery
      [] k = "exercise" -> {"exercise"}
      [] OTHER -> Role

Work == {"COMPLETED", "SKIPPED", "INCOMPLETE"}
Run == [role : Role, at : Int, status : {"RUNNING", "SUCCEEDED", "FAILED"},
        produced : Nat, total : Nat, work : Work]
Snapshot == [id : Nat, ended : BOOLEAN]
NoRun == [id |-> 0, ended |-> FALSE]
Verdict == {"RUNNING", "COMPLETE", "PARTIAL", "FAILED", "SKIPPED", "NONE"}
View == [says : {"UNSEEN", "RUN", "NO_EXECUTIONS", "UNAVAILABLE"}, snap : Snapshot,
         verdict : Verdict]
Empty == [m \in Machine |-> NoRun]

\* fault: one call fails (throttled, denied, timed out).  visit: a session
\* looks at page 25.  page: somebody has the fleet page open.  tick: the clock
\* may move on to its next instant.
Event == {"start", "press", "restart", "fault", "visit", "page", "tick"}

ASSUME PipelineAssumption ==
    /\ SfOrder \in Seq(Machine)
    /\ Opening \in Int /\ Window \in Nat /\ MaxRuns \in Nat
    /\ Started \in [Machine -> SUBSET Role]
    /\ \A e \in Ending : /\ e.status \in {"SUCCEEDED", "FAILED"}
                         /\ e.produced \in Nat /\ e.total \in Nat
                         /\ e.work \in Work
    /\ Past \subseteq [Machine -> Seq(Run)]
    /\ \A c \in Scenario : /\ c.row \in Row /\ MachineOf(c.row) \in Machine
                           /\ c.events \in [Event -> Nat]

ASSUME PastAssumption ==
    \A h \in Past, m \in Machine : \A i, j \in DOMAIN h[m] :
        i <= j => h[m][i].at <= h[m][j].at /\ h[m][j].at <= Opening

VARIABLES
    now,        \* the time, in quarter hours
    watched,    \* the row this behaviour follows
    hist,       \* [Machine -> sequence of executions, oldest first]
    memo,       \* [Machine -> [Kind -> Snapshot]]  _cached_live_read
    object,     \* [Machine -> Snapshot]  runs in pipeline_status_cache.json
    s3memo,     \* download_s3_json's entry for that object
    pc,         \* [Session -> position in SfOrder, 0 when idle]
    asked,      \* [Session -> [Machine -> Snapshot]]  what a call in flight brings
    good,       \* [Session -> [Machine -> Snapshot]]  polled by this refresh
    floor,      \* history: [Session -> [Machine -> Snapshot]]  the least a
                \* refresh may publish
    view,       \* what the fleet page last showed in the watched row
    budget      \* [Event -> Nat]  events left

pipelines == <<now, watched, hist, memo, object, s3memo, pc, asked, good, floor,
               view, budget>>
sessions == <<pc, asked, good, floor>>

NoMemo == [m \in Machine |-> [k \in Kind |-> NoRun]]
NotFetched == [got |-> FALSE, runs |-> Empty]
Unseen == [says |-> "UNSEEN", snap |-> NoRun, verdict |-> "NONE"]
Nothing == [s \in Session |-> Empty]

PipelineTypeOK ==
    /\ now \in Int
    /\ watched \in Row
    /\ hist \in [Machine -> Seq(Run)]
    /\ memo \in [Machine -> [Kind -> Snapshot]]
    /\ object \in [Machine -> Snapshot]
    /\ s3memo \in [got : BOOLEAN, runs : [Machine -> Snapshot]]
    /\ pc \in [Session -> 0 .. Len(SfOrder) + 1]
    /\ asked \in [Session -> [Machine -> Snapshot]]
    /\ good \in [Session -> [Machine -> Snapshot]]
    /\ floor \in [Session -> [Machine -> Snapshot]]
    /\ view \in View
    /\ budget \in [Event -> Nat]

PipelineInit ==
    /\ now = Opening
    /\ \E c \in Scenario : watched = c.row /\ budget = c.events
    /\ hist \in Past
    /\ memo = NoMemo
    /\ object = Empty
    /\ s3memo = NotFetched
    /\ pc = [s \in Session |-> 0]
    /\ asked = Nothing /\ good = Nothing /\ floor = Nothing
    /\ view = Unseen

Spend(e) == /\ budget[e] > 0
            /\ budget' = [budget EXCEPT ![e] = @ - 1]

-----------------------------------------------------------------------------
\* The Step Functions: executions start and end, several of one machine at a
\* time when a recovery or an exercise run does not wait for the other.
Start(role) ==
    LET m == MachineOf(watched)
    IN  /\ Len(hist[m]) < MaxRuns
        /\ Spend("start")
        /\ hist' = [hist EXCEPT ![m] = Append(@, [role |-> role, at |-> now, status |-> "RUNNING",
                                                 produced |-> 0, total |-> 0, work |-> "INCOMPLETE"])]
        /\ UNCHANGED <<now, watched, memo, object, s3memo, sessions, view>>

End(i, e) ==
    LET m == MachineOf(watched)
    IN  /\ i \in DOMAIN hist[m] /\ hist[m][i].status = "RUNNING"
        /\ hist' = [hist EXCEPT ![m][i] =
              [role |-> @.role, at |-> @.at, status |-> e.status, produced |-> e.produced,
               total |-> e.total, work |-> e.work]]
        /\ UNCHANGED <<now, watched, memo, object, s3memo, sessions, view, budget>>

-----------------------------------------------------------------------------
\* Reading.  The library walks the newest executions for the first whose role
\* is asked for; without one it raises, and what raises is not memoised.
Matching(m, k) ==
    {i \in DOMAIN hist[m] : i > Len(hist[m]) - Window /\ hist[m][i].role \in Roles(m, k)}
Newest(m, k) == {i \in Matching(m, k) : \A j \in Matching(m, k) : j <= i}
SnapshotOf(m, i) == [id |-> i, ended |-> hist[m][i].status # "RUNNING"]

Fresh(m, k) ==
    IF Newest(m, k) = {} THEN NoRun ELSE SnapshotOf(m, CHOOSE i \in Newest(m, k) : TRUE)

\* What _cached_live_read(m, k) returns when the call it may need succeeds.
Known(m, k) == IF memo[m][k] # NoRun THEN memo[m][k] ELSE Fresh(m, k)

\* The last-good object.  download_s3_json remembers a failed read as absent.
LastGoodObject(failed) ==
    IF s3memo.got THEN s3memo.runs ELSE IF "s3" \in failed THEN Empty ELSE object

\* read_pipeline_state_with_fallback, when the calls in failed fail.
Loaded(m, k, failed) ==
    LET Raises(kind) == memo[m][kind] = NoRun /\ kind \in failed
        lastGood == LastGoodObject(failed)[m]
        Result(outcome, snap) == [outcome |-> outcome, snap |-> snap]
    IN  IF Raises(k) THEN Result(IF lastGood = NoRun THEN "ERROR" ELSE "CACHE", lastGood)
        ELSE IF Known(m, k) # NoRun THEN Result("LIVE", Known(m, k))
        ELSE IF ~Raises("any") /\ Known(m, "any") # NoRun
             THEN Result("LIVE_ROLE_FALLBACK", Known(m, "any"))
        ELSE Result("NO_EXECUTIONS", NoRun)

\* A cycle is judged by the artifacts it produced, not by how its execution
\* ended; one that has none to produce by what the library says it did, and as
\* failed when that lookup fails.  (The lookup has a memo too: here it may
\* fail where the code would still have had the answer.)
ZeroArtifactVerdict(run, failed) ==
    IF run.status # "SUCCEEDED" \/ "work" \in failed THEN "FAILED"
    ELSE CASE run.work = "SKIPPED" -> "SKIPPED"
           [] run.work = "COMPLETED" -> "COMPLETE"
           [] OTHER -> "FAILED"

StatusAsVerdict(m, snap, failed) == IF snap.ended THEN hist[m][snap.id].status ELSE "RUNNING"
CycleVerdict(m, snap, failed) ==
    LET run == hist[m][snap.id]
    IN  CASE ~snap.ended -> "RUNNING"
          [] snap.ended /\ run.total = 0 -> ZeroArtifactVerdict(run, failed)
          [] snap.ended /\ run.total > 0 /\ run.produced = run.total -> "COMPLETE"
          [] snap.ended /\ run.total > 0 /\ run.produced \in 1 .. run.total - 1 -> "PARTIAL"
          [] OTHER -> "FAILED"

\* _pipeline_snapshots: the exercise row shares its machine with the weekly row
\* and takes nothing but a live read of its own role.
RoleStrict == {"weekly_exercise"}
CondensedForAnyRow(r, load, failed) ==
    IF load.snap = NoRun
    THEN [says |-> IF load.outcome = "NO_EXECUTIONS" THEN "NO_EXECUTIONS" ELSE "UNAVAILABLE",
          snap |-> NoRun, verdict |-> "NONE"]
    ELSE [says |-> "RUN", snap |-> load.snap,
          verdict |-> CycleVerdict(MachineOf(r), load.snap, failed)]
Condensed(r, load, failed) ==
    IF r \in RoleStrict /\ load.outcome # "LIVE"
    THEN [says |-> IF load.outcome \in {"NO_EXECUTIONS", "LIVE_ROLE_FALLBACK"}
                   THEN "NO_EXECUTIONS" ELSE "UNAVAILABLE",
          snap |-> NoRun, verdict |-> "NONE"]
    ELSE CondensedForAnyRow(r, load, failed)

\* One tick of the fleet page's fragment, as far as the watched row goes.
RenderWhen(failed) ==
    LET m == MachineOf(watched)
        k == Scope(watched)
    IN  /\ budget["page"] > 0
        /\ Cardinality(failed) <= budget["fault"]
        /\ budget' = [budget EXCEPT !["fault"] = @ - Cardinality(failed)]
        /\ \E load \in {Loaded(m, k, failed)} :
              /\ view' = Condensed(watched, load, failed)
              /\ memo' = [memo EXCEPT
                    ![m][k] = IF k \in failed THEN @ ELSE Known(m, k),
                    ![m]["any"] = IF load.outcome = "LIVE_ROLE_FALLBACK" THEN load.snap ELSE memo[m]["any"]]
              /\ s3memo' = IF load.outcome \in {"CACHE", "ERROR"}
                           THEN [got |-> TRUE, runs |-> LastGoodObject(failed)] ELSE s3memo
        /\ UNCHANGED <<now, watched, hist, object, sessions>>

Render == \E failed \in SUBSET {Scope(watched), "any", "s3", "work"} : RenderWhen(failed)

\* Entries of the two memos run out, each by itself.
ExpiresOnceEnded(m, k) ==
    /\ memo[m][k].ended
    /\ memo' = [memo EXCEPT ![m][k] = NoRun]
    /\ UNCHANGED <<now, watched, hist, object, s3memo, sessions, view, budget>>
MemoExpires(m, k) ==
    /\ memo[m][k] # NoRun
    /\ memo' = [memo EXCEPT ![m][k] = NoRun]
    /\ UNCHANGED <<now, watched, hist, object, s3memo, sessions, view, budget>>

S3MemoExpires ==
    /\ s3memo.got
    /\ s3memo' = NotFetched
    /\ UNCHANGED <<now, watched, hist, memo, object, sessions, view, budget>>

-----------------------------------------------------------------------------
\* refresh_and_write_cache, from page 25's button: clear the memo of every
\* session, but not what is in flight for it, ...
Older(x, y) == x.id < y.id \/ (x.id = y.id /\ ~x.ended /\ y.ended)
Pending(m) == ({asked[s][m] : s \in Session} \ {NoRun}) \cup {Fresh(m, "canonical")}
Oldest(m) == CHOOSE x \in Pending(m) : \A y \in Pending(m) : ~Older(y, x)

NotCleared == memo
Cleared == NoMemo
Press(s) ==
    /\ pc[s] = 0 /\ asked[s] = Empty
    /\ Spend("press")
    /\ memo' = Cleared
    /\ pc' = [pc EXCEPT ![s] = 1]
    /\ floor' = [floor EXCEPT ![s] = [m \in Machine |-> Oldest(m)]]
    /\ UNCHANGED <<now, watched, hist, object, s3memo, asked, good, view>>

\* ... poll the machines with their canonical role only, from the memo or by a
\* call, as page 25 itself does when it is rendered (pc = 0).  Calls of two
\* sessions may overlap: the library lets one wait for the other unless the
\* memo is cleared in between.
PollNewest == "any"
PollScope == "canonical"
Polls(s, m) == pc[s] \in 1 .. Len(SfOrder) /\ SfOrder[pc[s]] = m /\ asked[s] = Empty

Ask(s, m) ==
    /\ asked[s] = Empty /\ memo[m][PollScope] = NoRun
    /\ \/ Polls(s, m) /\ UNCHANGED budget
       \/ pc[s] = 0 /\ Spend("visit")
    /\ Fresh(m, PollScope) # NoRun
    /\ asked' = [asked EXCEPT ![s][m] = Fresh(m, PollScope)]
    /\ UNCHANGED <<now, watched, hist, memo, object, s3memo, pc, good, floor, view>>

Answered(s, m) ==
    /\ asked[s][m] # NoRun
    /\ memo' = [memo EXCEPT ![m][PollScope] = asked[s][m]]
    /\ asked' = [asked EXCEPT ![s] = Empty]
    /\ IF pc[s] = 0 THEN UNCHANGED <<pc, good>>
       ELSE good' = [good EXCEPT ![s][m] = asked[s][m]] /\ pc' = [pc EXCEPT ![s] = @ + 1]
    /\ UNCHANGED <<now, watched, hist, object, s3memo, floor, view, budget>>

Memoised(s, m) ==
    /\ Polls(s, m) /\ memo[m][PollScope] # NoRun
    /\ good' = [good EXCEPT ![s][m] = memo[m][PollScope]]
    /\ pc' = [pc EXCEPT ![s] = @ + 1]
    /\ UNCHANGED <<now, watched, hist, memo, object, s3memo, asked, floor, view, budget>>

\* A machine whose call fails, or that has no execution of the role, is left out.
LeftOut(s, m) ==
    /\ \/ Polls(s, m) /\ memo[m][PollScope] = NoRun /\ Fresh(m, PollScope) = NoRun /\ UNCHANGED budget
       \/ asked[s][m] # NoRun /\ Spend("fault")
    /\ asked' = [asked EXCEPT ![s] = Empty]
    /\ pc' = [pc EXCEPT ![s] = IF @ = 0 THEN 0 ELSE @ + 1]
    /\ UNCHANGED <<now, watched, hist, memo, object, s3memo, good, floor, view>>

\* ... and put the rest, if there is any, over the whole object.
Put(s) == IF good[s] = Empty THEN object ELSE good[s]
WriteLastGood(s) ==
    /\ pc[s] = Len(SfOrder) + 1
    /\ \/ object' = Put(s) /\ UNCHANGED budget
       \/ UNCHANGED object /\ Spend("fault")
    /\ pc' = [pc EXCEPT ![s] = 0]
    /\ good' = [good EXCEPT ![s] = Empty]
    /\ floor' = [floor EXCEPT ![s] = Empty]
    /\ UNCHANGED <<now, watched, hist, memo, s3memo, asked, view>>

\* The console process restarts: memos, sessions and pages are gone.
Restart ==
    /\ Spend("restart")
    /\ memo' = NoMemo
    /\ s3memo' = NotFetched
    /\ pc' = [s \in Session |-> 0]
    /\ asked' = Nothing /\ good' = Nothing /\ floor' = Nothing
    /\ view' = Unseen
    /\ UNCHANGED <<now, watched, hist, object>>

PipelineNext ==
    \/ \E role \in Started[MachineOf(watched)] : Start(role)
    \/ \E i \in 1 .. MaxRuns, e \in Ending : End(i, e)
    \/ Render \/ S3MemoExpires \/ Restart
    \/ \E m \in Machine, k \in Kind : MemoExpires(m, k)
    \/ \E s \in Session : Press(s) \/ WriteLastGood(s)
    \/ \E s \in Session, m \in Machine :
          Ask(s, m) \/ Answered(s, m) \/ Memoised(s, m) \/ LeftOut(s, m)

-----------------------------------------------------------------------------
\* Everything that was ever the case of m's cadence.
Observed(m) ==
    {x \in [id : DOMAIN hist[m], ended : BOOLEAN] :
        /\ hist[m][x.id].role \in Roles(m, "canonical")
        /\ x.ended => hist[m][x.id].status # "RUNNING"}

\* The object is only ever replaced as a whole, never by an empty one, and holds
\* only what the cadence of each machine really was at some moment, never an
\* exercise, recovery or ad-hoc run: it implements LastGood.
Promised == INSTANCE LastGood WITH
    Nothing <- NoRun, store <- object, observed <- [m \in Machine |-> Observed(m)]
ImplementsLastGood == Promised!Spec

\* What a refresh is about to publish is not older than what was the case when
\* its button was pressed, or than what a call in flight at that moment will
\* bring: it misses no execution that had started and no end that had come by
\* then, whatever other sessions read, press or put meanwhile.
PolledSincePress ==
    \A s \in Session, m \in Machine :
        good[s][m] # NoRun => ~Older(good[s][m], floor[s][m])

\* The exercise row never shows a run of the cadence that shares its machine,
\* whatever fails or is missing: not as a fallback, not from the object.
ExerciseRowIsItsOwn ==
    watched = "weekly_exercise" /\ view.says = "RUN"
        => hist[MachineOf(watched)][view.snap.id].role = "exercise"

\* What a page without memos, failures or other sessions would show.
TrueView ==
    LET m == MachineOf(watched)
        own == Fresh(m, Scope(watched))
        newest == Fresh(m, "any")
        load == IF own # NoRun THEN [outcome |-> "LIVE", snap |-> own]
                ELSE IF newest # NoRun THEN [outcome |-> "LIVE_ROLE_FALLBACK", snap |-> newest]
                ELSE [outcome |-> "NO_EXECUTIONS", snap |-> NoRun]
    IN  CHOOSE v \in {Condensed(watched, l, {}) : l \in {load}} : TRUE

=============================================================================
