---------------------------- MODULE FleetSafety_proofs --------------------------
(***************************************************************************)
(* What is remembered of an execution was once the case: in the memo, in   *)
(* flight, in a refresh under way, in the last-good object and in the memo *)
(* over it.  From this the object keeps what LastGood promises, the        *)
(* exercise row stays its own, and a refresh publishes nothing that is     *)
(* older than its button allows.  And what a page that reads the truth     *)
(* says: failures stay, what is overdue was not started, and what was not  *)
(* started is overdue.                                                     *)
(***************************************************************************)
EXTENDS PipelineStatus_proofs

\* Snapshot x of machine m shows an execution of the roles of k that history h
\* has, and its end only if that has come.
WasIn(h, m, k, x) ==
    x # NoRun =>
        /\ x.id \in DOMAIN h /\ h[x.id].role \in Roles(m, k)
        /\ x.ended => h[x.id].status # "RUNNING"

\* History g is a later one than h.
Grows(h, g) ==
    /\ DOMAIN h \subseteq DOMAIN g
    /\ \A i \in DOMAIN h : /\ g[i].role = h[i].role /\ g[i].at = h[i].at
                           /\ h[i].status # "RUNNING" => g[i] = h[i]

HistGrows == \A m \in Machine : Grows(hist[m], hist'[m])

RememberedOf(m) ==
    /\ \A k \in Kind : WasIn(hist[m], m, k, memo[m][k])
    /\ WasIn(hist[m], m, "canonical", object[m])
    /\ WasIn(hist[m], m, "canonical", s3memo.runs[m])
    /\ \A s \in Session : /\ WasIn(hist[m], m, "canonical", asked[s][m])
                          /\ WasIn(hist[m], m, "canonical", good[s][m])
                          /\ WasIn(hist[m], m, "canonical", floor[s][m])
Remembered == \A m \in Machine : RememberedOf(m)

LEMMA StillWas ==
    ASSUME NEW h, NEW g, NEW m, NEW k, NEW x, Grows(h, g), WasIn(h, m, k, x)
    PROVE  WasIn(g, m, k, x)
BY DEF Grows, WasIn

LEMMA NoRunWas ==
    ASSUME NEW h, NEW m, NEW k
    PROVE  WasIn(h, m, k, NoRun)
BY DEF WasIn

LEMMA SameGrows == \A h : Grows(h, h)
BY DEF Grows

-----------------------------------------------------------------------------
\* Executions start and end; nothing that was is undone.
LEMMA HistoryGrows ==
    ASSUME TypeInv, [FleetNext]_fleet
    PROVE  HistGrows
<1> USE DEF TypeInv, FleetTypeOK, PipelineTypeOK, WatchedMachine
<1>1. CASE UNCHANGED hist
  BY <1>1, SameGrows DEF HistGrows
<1>2. ASSUME NEW role \in Role, Start(role) PROVE HistGrows
  <2> DEFINE m == MachineOf(watched)
             run == [role |-> role, at |-> now, status |-> "RUNNING",
                     produced |-> 0, total |-> 0, work |-> "INCOMPLETE"]
  <2>1. m \in Machine /\ hist[m] \in Seq(Run) /\ hist' = [hist EXCEPT ![m] = Append(hist[m], run)]
    BY <1>2 DEF Start
  <2>2. hist'[m] = Append(hist[m], run) /\ \A x \in Machine \ {m} : hist'[x] = hist[x]
    BY <2>1
  <2> HIDE DEF run
  <2>3. Grows(hist[m], hist'[m])
    BY <2>1, <2>2 DEF Grows
  <2> QED
    BY <2>2, <2>3, SameGrows DEF HistGrows
<1>3. ASSUME NEW i, NEW e \in Ending, End(i, e) PROVE HistGrows
  <2> DEFINE m == MachineOf(watched)
             run == [role |-> hist[m][i].role, at |-> hist[m][i].at, status |-> e.status,
                     produced |-> e.produced, total |-> e.total, work |-> e.work]
  <2>1. m \in Machine /\ hist[m] \in Seq(Run) /\ i \in DOMAIN hist[m]
    BY <1>3 DEF End
  <2>2. hist'[m] = [hist[m] EXCEPT ![i] = run] /\ \A x \in Machine \ {m} : hist'[x] = hist[x]
    BY <1>3, <2>1 DEF End
  <2>3. run.role = hist[m][i].role /\ run.at = hist[m][i].at /\ hist[m][i].status = "RUNNING"
    BY <1>3 DEF End
  <2> HIDE DEF run
  <2>4. Grows(hist[m], hist'[m])
    BY <2>1, <2>2, <2>3 DEF Grows
  <2> QED
    BY <2>2, <2>4, SameGrows DEF HistGrows
<1>4. ASSUME NEW failed, RenderWhen(failed) PROVE UNCHANGED hist
  BY <1>4 DEF RenderWhen
<1>5. S3MemoExpires \/ Restart \/ Tick \/ UNCHANGED fleet => UNCHANGED hist
  BY DEF S3MemoExpires, Restart, Tick, fleet, pipelines
<1>6. ASSUME NEW m, NEW k, MemoExpires(m, k) PROVE UNCHANGED hist
  BY <1>6 DEF MemoExpires
<1>7. ASSUME NEW s \in Session, NEW m \in Machine,
             Press(s) \/ WriteLastGood(s) \/ Ask(s, m) \/ Answered(s, m) \/ Memoised(s, m) \/ LeftOut(s, m)
      PROVE  UNCHANGED hist
  BY <1>7 DEF Press, WriteLastGood, Ask, Answered, Memoised, LeftOut
<1> QED
  <2>1. CASE PipelineNext
    BY <2>1, StepsOf, <1>1, <1>2, <1>3, <1>4, <1>5, <1>6, <1>7, Zenon
  <2> QED
    BY <1>1, <1>5, <2>1 DEF FleetNext

-----------------------------------------------------------------------------
LEMMA SnapshotShows ==
    ASSUME NEW m, NEW i
    PROVE  /\ SnapshotOf(m, i).id = i
           /\ SnapshotOf(m, i).ended <=> hist[m][i].status # "RUNNING"
<1>1. SnapshotOf(m, i).id = i
  BY DEF SnapshotOf
<1>2. SnapshotOf(m, i).ended = (hist[m][i].status # "RUNNING")
  BY DEF SnapshotOf
<1> QED
  BY <1>1, <1>2, Zenon

\* A call brings an execution the machine has, of the roles it asked for.
LEMMA FreshWas ==
    ASSUME PipelineTypeOK, NEW m \in Machine, NEW k
    PROVE  WasIn(hist[m], m, k, Fresh(m, k))
<1>1. CASE Newest(m, k) = {}
  BY <1>1, NoRunWas DEF Fresh
<1>2. CASE Newest(m, k) # {}
  <2>1. PICK i \in Newest(m, k) : Fresh(m, k) = SnapshotOf(m, i)
    BY <1>2 DEF Fresh
  <2>2. i \in DOMAIN hist[m] /\ hist[m][i].role \in Roles(m, k)
    BY <2>1 DEF Newest, Matching
  <2>3. Fresh(m, k).id = i /\ (Fresh(m, k).ended <=> hist[m][i].status # "RUNNING")
    BY <2>1, SnapshotShows
  <2> QED
    BY <2>2, <2>3, Zenon DEF WasIn
<1> QED
  BY <1>1, <1>2

\* ... and never an older state of things than anything remembered of it.
LEMMA FreshIsNewest ==
    ASSUME PipelineTypeOK, NEW m \in Machine, NEW k, NEW x \in Snapshot,
           WasIn(hist[m], m, k, x), Fresh(m, k) # NoRun
    PROVE  ~Older(Fresh(m, k), x)
<1>1. Newest(m, k) # {}
  BY DEF Fresh
<1>2. PICK i \in Newest(m, k) : Fresh(m, k) = SnapshotOf(m, i)
  BY <1>1 DEF Fresh
<1>3. hist[m] \in Seq(Run) /\ Window \in Nat
  BY PipelineAssumption DEF PipelineTypeOK, PipelineAssumption
<1>4. i \in DOMAIN hist[m] /\ i \in Nat /\ i >= 1 /\ i > Len(hist[m]) - Window /\ Len(hist[m]) \in Nat
  BY <1>2, <1>3 DEF Newest, Matching
<1>5. SUFFICES ASSUME Older(Fresh(m, k), x) PROVE FALSE
  OBVIOUS
<1>6. x.id \in Nat /\ i <= x.id
  BY <1>2, <1>4, <1>5 DEF Older, SnapshotOf, Snapshot
<1>7. x # NoRun
  BY <1>4, <1>6 DEF NoRun
<1>8. x.id \in DOMAIN hist[m] /\ hist[m][x.id].role \in Roles(m, k)
  BY <1>7 DEF WasIn
<1>9. x.id \in Matching(m, k)
  BY <1>3, <1>4, <1>6, <1>8 DEF Matching
<1>10. x.id <= i
  BY <1>2, <1>9 DEF Newest
<1>11. Fresh(m, k).id = i /\ (Fresh(m, k).ended <=> hist[m][i].status # "RUNNING")
  BY <1>2, SnapshotShows
<1>12. x.id = i /\ ~(i < x.id)
  BY <1>4, <1>6, <1>10
<1>13. x.ended /\ ~(hist[m][i].status # "RUNNING")
  BY <1>5, <1>11, <1>12, Zenon DEF Older
<1> QED
  BY <1>7, <1>12, <1>13, Zenon DEF WasIn

\* What a read leaves in the memo, and what it takes for the row.
LEMMA KnownWas ==
    ASSUME TypeInv, Remembered, NEW m \in Machine, NEW k \in Kind
    PROVE  WasIn(hist[m], m, k, Known(m, k))
<1>1. WasIn(hist[m], m, k, memo[m][k])
  BY DEF Remembered, RememberedOf
<1>2. WasIn(hist[m], m, k, Fresh(m, k))
  BY FreshWas DEF TypeInv, FleetTypeOK
<1> QED
  BY <1>1, <1>2, Zenon DEF Known

LEMMA FallbackWas ==
    ASSUME TypeInv, Remembered, NEW m \in Machine, NEW k \in Kind, NEW failed,
           Loaded(m, k, failed).outcome = "LIVE_ROLE_FALLBACK"
    PROVE  WasIn(hist[m], m, "any", Loaded(m, k, failed).snap)
<1>1. Loaded(m, k, failed).snap = Known(m, "any")
  BY DEF Loaded
<1>2. "any" \in Kind
  BY DEF Kind
<1> QED
  BY <1>1, <1>2, KnownWas

LEMMA RenderRemembers ==
    ASSUME TypeInv, Remembered,
           NEW failed \in SUBSET {Scope(watched), "any", "s3", "work"}, RenderWhen(failed)
    PROVE  Remembered'
<1> DEFINE w == MachineOf(watched)
           k == Scope(watched)
           load == Loaded(w, k, failed)
<1>1. w \in Machine /\ k \in Kind /\ "any" \in Kind /\ k # "any" /\ "canonical" \in Kind
  BY DEF TypeInv, WatchedMachine, Scope, Kind
<1>2. UNCHANGED <<hist, object, asked, good, floor>>
  BY DEF RenderWhen, sessions
<1>3. /\ memo' = [memo EXCEPT
             ![w][k] = IF k \in failed THEN @ ELSE Known(w, k),
             ![w]["any"] = IF load.outcome = "LIVE_ROLE_FALLBACK" THEN load.snap ELSE memo[w]["any"]]
      /\ s3memo' = IF load.outcome \in {"CACHE", "ERROR"}
                   THEN [got |-> TRUE, runs |-> LastGoodObject(failed)] ELSE s3memo
  BY Zenon DEF RenderWhen
<1> HIDE DEF w, k, load
<1>4. memo \in [Machine -> [Kind -> Snapshot]]
  BY DEF TypeInv, FleetTypeOK, PipelineTypeOK
<1>5. \A m \in Machine \ {w} : memo'[m] = memo[m]
  BY <1>1, <1>3, <1>4
<1>6. \A x \in Kind \ {k, "any"} : memo'[w][x] = memo[w][x]
  BY <1>1, <1>3, <1>4
<1>7. memo'[w][k] = IF k \in failed THEN memo[w][k] ELSE Known(w, k)
  BY <1>1, <1>3, <1>4
<1>8. memo'[w]["any"] = IF load.outcome = "LIVE_ROLE_FALLBACK" THEN load.snap ELSE memo[w]["any"]
  BY <1>1, <1>3, <1>4
<1>9. ASSUME NEW m \in Machine, NEW x \in Kind PROVE WasIn(hist[m], m, x, memo'[m][x])
  <2>1. WasIn(hist[m], m, x, memo[m][x])
    BY DEF Remembered, RememberedOf
  <2>2. CASE m # w
    BY <1>5, <2>1, <2>2
  <2>3. CASE m = w /\ x # k /\ x # "any"
    BY <1>6, <2>1, <2>3
  <2>4. CASE m = w /\ x = k
    BY <1>1, <1>7, <2>1, <2>4, KnownWas
  <2>5. CASE m = w /\ x = "any"
    <3>1. load.outcome = "LIVE_ROLE_FALLBACK" => WasIn(hist[w], w, "any", load.snap)
      BY <1>1, FallbackWas DEF load
    <3> QED
      BY <1>8, <2>1, <2>5, <3>1
  <2> QED
    BY <2>2, <2>3, <2>4, <2>5
<1>10. ASSUME NEW m \in Machine PROVE WasIn(hist[m], m, "canonical", s3memo'.runs[m])
  <2>1. LastGoodObject(failed)[m] \in {s3memo.runs[m], NoRun, object[m]}
    BY DEF LastGoodObject, Empty
  <2>2. s3memo'.runs[m] \in {s3memo.runs[m], NoRun, object[m]}
    BY <1>3, <2>1
  <2> QED
    BY <2>2, NoRunWas DEF Remembered, RememberedOf
<1> QED
  BY <1>2, <1>9, <1>10 DEF Remembered, RememberedOf

LEMMA SessionRemembers ==
    ASSUME TypeInv, Remembered, NEW s \in Session, NEW m \in Machine,
           Press(s) \/ WriteLastGood(s) \/ Ask(s, m) \/ Answered(s, m) \/ Memoised(s, m) \/ LeftOut(s, m)
    PROVE  Remembered'
<1> USE DEF TypeInv, FleetTypeOK, PipelineTypeOK
<1>1. SUFFICES ASSUME NEW x \in Machine PROVE RememberedOf(x)'
  BY DEF Remembered
<1>2. RememberedOf(x) /\ "canonical" \in Kind /\ PollScope = "canonical"
  BY DEF Remembered, Kind, PollScope
<1>3. \A k : WasIn(hist[x], x, k, NoRun)
  BY NoRunWas
<1>4. WasIn(hist[x], x, "canonical", Fresh(x, "canonical"))
  BY FreshWas
<1>5. CASE Press(s)
  <2>1. Oldest(x) \in Pending(x)
    <3>1. Pending(x) \subseteq Snapshot
      BY FreshTyped DEF Pending
    <3> QED
      BY <3>1, OldestTaken
  <2>2. WasIn(hist[x], x, "canonical", Oldest(x))
    BY <1>2, <1>4, <2>1 DEF Pending, RememberedOf
  <2>3. \A r \in Session : floor'[r][x] \in {floor[r][x], Oldest(x)}
    BY <1>5 DEF Press
  <2>4. \A k \in Kind : memo'[x][k] = NoRun
    BY <1>5 DEF Press, Cleared, NoMemo
  <2>5. UNCHANGED <<hist, object, s3memo, asked, good>>
    BY <1>5 DEF Press
  <2> QED
    BY <1>2, <1>3, <2>2, <2>3, <2>4, <2>5 DEF RememberedOf
<1>6. CASE WriteLastGood(s)
  <2>1. object'[x] \in {object[x], good[s][x]}
    BY <1>6 DEF WriteLastGood, Put
  <2>2. \A r \in Session : good'[r][x] \in {good[r][x], NoRun} /\ floor'[r][x] \in {floor[r][x], NoRun}
    BY <1>6 DEF WriteLastGood, Empty
  <2>3. UNCHANGED <<hist, memo, s3memo, asked>>
    BY <1>6 DEF WriteLastGood
  <2> QED
    BY <1>2, <1>3, <2>1, <2>2, <2>3 DEF RememberedOf
<1>7. CASE Ask(s, m)
  <2>1. \A r \in Session : asked'[r][x] \in {asked[r][x], Fresh(x, "canonical")}
    BY <1>2, <1>7 DEF Ask
  <2>2. UNCHANGED <<hist, memo, object, s3memo, good, floor>>
    BY <1>7 DEF Ask
  <2> QED
    BY <1>2, <1>4, <2>1, <2>2 DEF RememberedOf
<1>8. CASE Answered(s, m)
  <2>1. \A r \in Session : asked'[r][x] \in {asked[r][x], NoRun}
    BY <1>8 DEF Answered, Empty
  <2>2. good' = [good EXCEPT ![s][m] = asked[s][m]] \/ good' = good
    BY <1>8, Zenon DEF Answered
  <2>3. \A r \in Session : good'[r][x] \in {good[r][x], asked[s][x]}
    <3>1. good \in [Session -> [Machine -> Snapshot]]
      OBVIOUS
    <3>2. CASE good' = [good EXCEPT ![s][m] = asked[s][m]]
      BY <3>1, <3>2
    <3> QED
      BY <2>2, <3>2
  <2>4. \A k \in Kind : memo'[x][k] = memo[x][k] \/ (k = "canonical" /\ memo'[x][k] = asked[s][x])
    BY <1>2, <1>8 DEF Answered
  <2>5. UNCHANGED <<hist, object, s3memo, floor>>
    BY <1>8 DEF Answered
  <2>6. \A k \in Kind : WasIn(hist[x], x, k, memo'[x][k])
    BY <1>2, <2>4 DEF RememberedOf
  <2>7. \A r \in Session : WasIn(hist[x], x, "canonical", good'[r][x])
    BY <1>2, <2>3 DEF RememberedOf
  <2> QED
    BY <1>2, <1>3, <2>1, <2>5, <2>6, <2>7 DEF RememberedOf
<1>9. CASE Memoised(s, m)
  <2>1. \A r \in Session : good'[r][x] \in {good[r][x], memo[x]["canonical"]}
    BY <1>2, <1>9 DEF Memoised
  <2>2. UNCHANGED <<hist, memo, object, s3memo, asked, floor>>
    BY <1>9 DEF Memoised
  <2> QED
    BY <1>2, <2>1, <2>2 DEF RememberedOf
<1>10. CASE LeftOut(s, m)
  <2>1. \A r \in Session : asked'[r][x] \in {asked[r][x], NoRun}
    BY <1>10 DEF LeftOut, Empty
  <2>2. UNCHANGED <<hist, memo, object, s3memo, good, floor>>
    BY <1>10 DEF LeftOut
  <2> QED
    BY <1>2, <1>3, <2>1, <2>2 DEF RememberedOf
<1> QED
  BY <1>5, <1>6, <1>7, <1>8, <1>9, <1>10

\* The other steps forget, or let executions go on.
LEMMA RestRemembers ==
    ASSUME TypeInv, Remembered, HistGrows,
           UNCHANGED <<object, asked, good, floor>> \/ (asked' = Nothing /\ good' = Nothing
                                                        /\ floor' = Nothing /\ UNCHANGED object),
           \A m \in Machine, k \in Kind : memo'[m][k] \in {memo[m][k], NoRun},
           \A m \in Machine : s3memo'.runs[m] \in {s3memo.runs[m], NoRun}
    PROVE  Remembered'
<1>1. SUFFICES ASSUME NEW m \in Machine PROVE RememberedOf(m)'
  BY DEF Remembered
<1>2. RememberedOf(m) /\ Grows(hist[m], hist'[m])
  BY DEF Remembered, HistGrows
<1>3. \A k, x : WasIn(hist[m], m, k, x) => WasIn(hist'[m], m, k, x)
  BY <1>2, StillWas
<1>4. \A k : WasIn(hist'[m], m, k, NoRun)
  BY NoRunWas
<1>5. \A s \in Session : /\ asked'[s][m] \in {asked[s][m], NoRun}
                         /\ good'[s][m] \in {good[s][m], NoRun}
                         /\ floor'[s][m] \in {floor[s][m], NoRun}
  BY DEF Nothing, Empty
<1>6. object' = object
  OBVIOUS
<1> QED
  BY <1>2, <1>3, <1>4, <1>5, <1>6 DEF RememberedOf

LEMMA StepRemembers ==
    ASSUME TypeInv, Remembered, [FleetNext]_fleet
    PROVE  Remembered'
<1>0. HistGrows
  BY HistoryGrows
<1> USE DEF TypeInv, FleetTypeOK, PipelineTypeOK
<1>1. ASSUME UNCHANGED <<object, asked, good, floor, memo, s3memo>> PROVE Remembered'
  BY <1>0, <1>1, RestRemembers
<1>2. ASSUME NEW role, Start(role) PROVE Remembered'
  BY <1>1, <1>2 DEF Start, sessions
<1>3. ASSUME NEW i, NEW e, End(i, e) PROVE Remembered'
  BY <1>1, <1>3 DEF End, sessions
<1>4. CASE S3MemoExpires
  <2>1. \A m \in Machine : s3memo'.runs[m] = NoRun
    BY <1>4 DEF S3MemoExpires, NotFetched, Empty
  <2> QED
    BY <1>0, <1>4, <2>1, RestRemembers DEF S3MemoExpires, sessions
<1>5. CASE Restart \/ Tick
  <2>1. \A m \in Machine : s3memo'.runs[m] = NoRun /\ \A k \in Kind : memo'[m][k] = NoRun
    BY <1>5 DEF Restart, Tick, NotFetched, Empty, NoMemo
  <2> QED
    BY <1>0, <1>5, <2>1, RestRemembers DEF Restart, Tick, sessions
<1>6. ASSUME NEW m \in Machine, NEW k \in Kind, MemoExpires(m, k) PROVE Remembered'
  <2>1. \A x \in Machine, y \in Kind : memo'[x][y] \in {memo[x][y], NoRun}
    BY <1>6 DEF MemoExpires
  <2> QED
    BY <1>0, <1>6, <2>1, RestRemembers DEF MemoExpires, sessions
<1>7. CASE PipelineNext
  BY <1>7, StepsOf, <1>2, <1>3, RenderRemembers, <1>4, <1>5, <1>6, SessionRemembers, Zenon
<1>8. CASE UNCHANGED fleet
  BY <1>1, <1>8 DEF fleet, pipelines
<1> QED
  BY <1>5, <1>7, <1>8 DEF FleetNext

LEMMA InitRemembers == FleetInit => Remembered
BY NoRunWas DEF FleetInit, PipelineInit, Remembered, RememberedOf, NoMemo, Empty, NotFetched, Nothing

\* Whatever is remembered of a machine, in the memo, in flight, in a refresh, in
\* the object or in the memo over it, is an execution that machine has had, of
\* the roles it was asked for, and shows its end only if that has come.
THEOREM WhatIsRemembered == FleetSpec => [](TypeInv /\ Remembered)
<1>1. FleetInit => TypeInv /\ Remembered
  BY InitTyped, InitRemembers
<1>2. TypeInv /\ Remembered /\ [FleetNext]_fleet => (TypeInv /\ Remembered)'
  BY StepTyped, StepRemembers
<1> QED
  BY <1>1, <1>2, PTL DEF FleetSpec

-----------------------------------------------------------------------------
\* What was ever the case of m's cadence, as of history h.
ObservedIn(h, m) ==
    {x \in [id : DOMAIN h, ended : BOOLEAN] :
        /\ h[x.id].role \in Roles(m, "canonical")
        /\ x.ended => h[x.id].status # "RUNNING"}

LEMMA WasObserved ==
    ASSUME NEW h, NEW m, NEW x \in Snapshot, WasIn(h, m, "canonical", x), x # NoRun
    PROVE  x \in ObservedIn(h, m)
<1>1. x.id \in DOMAIN h /\ h[x.id].role \in Roles(m, "canonical")
      /\ (x.ended => h[x.id].status # "RUNNING")
  BY Zenon DEF WasIn
<1>2. x \in [id : DOMAIN h, ended : BOOLEAN]
  BY <1>1 DEF Snapshot
<1> QED
  BY <1>1, <1>2, Zenon DEF ObservedIn

LEMMA NothingIsNotObserved ==
    ASSUME NEW h \in Seq(Run), NEW m
    PROVE  NoRun \notin ObservedIn(h, m)
<1>1. 0 \notin DOMAIN h
  OBVIOUS
<1>2. NoRun \notin [id : DOMAIN h, ended : BOOLEAN]
  BY <1>1 DEF NoRun
<1> QED
  BY <1>2, Zenon DEF ObservedIn

LEMMA ObservedStays ==
    ASSUME NEW h, NEW g, NEW m, Grows(h, g)
    PROVE  ObservedIn(h, m) \subseteq ObservedIn(g, m)
<1>1. SUFFICES ASSUME NEW x \in ObservedIn(h, m) PROVE x \in ObservedIn(g, m)
  OBVIOUS
<1>2. /\ x \in [id : DOMAIN h, ended : BOOLEAN]
      /\ h[x.id].role \in Roles(m, "canonical")
      /\ x.ended => h[x.id].status # "RUNNING"
  BY <1>1, Zenon DEF ObservedIn
<1>3. x.id \in DOMAIN h
  BY <1>2
<1>4. /\ x.id \in DOMAIN g /\ g[x.id].role \in Roles(m, "canonical")
      /\ x.ended => g[x.id].status # "RUNNING"
  BY <1>2, <1>3, Zenon DEF Grows
<1>5. x \in [id : DOMAIN g, ended : BOOLEAN]
  BY <1>2, <1>4
<1> QED
  BY <1>4, <1>5, Zenon DEF ObservedIn

ObservedNow == [m \in Machine |-> Observed(m)]

LEMMA ObservedGrows ==
    ASSUME TypeInv, TypeInv', HistGrows
    PROVE  \A m \in Machine : /\ ObservedNow[m] \subseteq ObservedNow'[m]
                             /\ NoRun \notin ObservedNow[m] /\ NoRun \notin ObservedNow'[m]
<1>1. SUFFICES ASSUME NEW m \in Machine
               PROVE  /\ ObservedNow[m] \subseteq ObservedNow'[m]
                      /\ NoRun \notin ObservedNow[m] /\ NoRun \notin ObservedNow'[m]
  OBVIOUS
<1>2. ObservedNow[m] = ObservedIn(hist[m], m) /\ ObservedNow'[m] = ObservedIn(hist'[m], m)
  BY DEF ObservedNow, Observed, ObservedIn
<1>3. hist[m] \in Seq(Run) /\ hist'[m] \in Seq(Run)
  BY DEF TypeInv, FleetTypeOK, PipelineTypeOK
<1>4. Grows(hist[m], hist'[m])
  BY DEF HistGrows
<1> QED
  BY <1>2, <1>3, <1>4, NothingIsNotObserved, ObservedStays

\* Every step maps to a step of LastGood: the object is replaced, or the
\* machines are observed.
LEMMA ObjectReplaced ==
    ASSUME TypeInv, Remembered, NEW s \in Session, WriteLastGood(s)
    PROVE  Promised!Next \/ UNCHANGED Promised!vars
<1>1. UNCHANGED hist
  BY DEF WriteLastGood
<1>2. ObservedNow' = ObservedNow
  BY <1>1 DEF ObservedNow, Observed
<1>3. CASE object' = object
  BY <1>2, <1>3 DEF Promised!vars, ObservedNow
<1>4. CASE object' # object
  <2>1. object' = good[s] /\ good[s] # Empty
    BY <1>4 DEF WriteLastGood, Put
  <2>2. good[s] \in [Machine -> Snapshot]
    BY DEF TypeInv, FleetTypeOK, PipelineTypeOK
  <2>3. \A m \in Machine : good[s][m] \in ObservedNow[m] \cup {NoRun}
    <3>1. SUFFICES ASSUME NEW m \in Machine, good[s][m] # NoRun PROVE good[s][m] \in ObservedNow[m]
      OBVIOUS
    <3>2. good[s][m] \in Snapshot /\ WasIn(hist[m], m, "canonical", good[s][m])
      BY <2>2 DEF Remembered, RememberedOf
    <3>3. good[s][m] \in ObservedIn(hist[m], m)
      BY <3>1, <3>2, WasObserved
    <3> QED
      BY <3>3 DEF ObservedNow, Observed, ObservedIn
  <2>4. \E m \in Machine : good[s][m] # NoRun
    BY <2>1, <2>2 DEF Empty
  <2>5. object' = [m \in Machine |-> object'[m]]
    BY <2>1, <2>2
  <2>6. Promised!Replace
    BY <1>2, <2>1, <2>3, <2>4, <2>5 DEF Promised!Replace, ObservedNow
  <2> QED
    BY <2>6 DEF Promised!Next
<1> QED
  BY <1>3, <1>4

LEMMA StepImplements ==
    ASSUME TypeInv, TypeInv', Remembered, [FleetNext]_fleet
    PROVE  [Promised!Next]_Promised!vars
<1>1. ASSUME UNCHANGED object PROVE Promised!Next
  <2>1. HistGrows
    BY HistoryGrows
  <2>2. Promised!Observe
    BY <1>1, <2>1, ObservedGrows DEF Promised!Observe, ObservedNow
  <2> QED
    BY <2>2 DEF Promised!Next
<1>2. ASSUME NEW s \in Session, WriteLastGood(s) PROVE Promised!Next \/ UNCHANGED Promised!vars
  BY <1>2, ObjectReplaced
<1>3. ASSUME NEW role, Start(role) PROVE UNCHANGED object
  BY <1>3 DEF Start
<1>4. ASSUME NEW i, NEW e, End(i, e) PROVE UNCHANGED object
  BY <1>4 DEF End
<1>5. ASSUME NEW failed, RenderWhen(failed) PROVE UNCHANGED object
  BY <1>5 DEF RenderWhen
<1>6. S3MemoExpires \/ Restart \/ Tick \/ UNCHANGED fleet => UNCHANGED object
  BY DEF S3MemoExpires, Restart, Tick, fleet, pipelines
<1>7. ASSUME NEW m, NEW k, MemoExpires(m, k) PROVE UNCHANGED object
  BY <1>7 DEF MemoExpires
<1>8. ASSUME NEW s \in Session, NEW m \in Machine,
             Press(s) \/ Ask(s, m) \/ Answered(s, m) \/ Memoised(s, m) \/ LeftOut(s, m)
      PROVE  UNCHANGED object
  BY <1>8 DEF Press, Ask, Answered, Memoised, LeftOut
<1>9. CASE PipelineNext
  BY <1>9, StepsOf, <1>1, <1>2, <1>3, <1>4, <1>5, <1>6, <1>7, <1>8, Zenon
<1> QED
  BY <1>1, <1>6, <1>9 DEF FleetNext

LEMMA InitImplements ==
    ASSUME FleetInit, TypeInv
    PROVE  Promised!Init
<1>1. ASSUME NEW m \in Machine PROVE NoRun \notin ObservedNow[m]
  <2>1. ObservedNow[m] = ObservedIn(hist[m], m) /\ hist[m] \in Seq(Run)
    BY DEF ObservedNow, Observed, ObservedIn, TypeInv, FleetTypeOK, PipelineTypeOK
  <2> QED
    BY <2>1, NothingIsNotObserved
<1>2. object = [m \in Machine |-> NoRun]
  BY DEF FleetInit, PipelineInit, Empty
<1> QED
  BY <1>1, <1>2 DEF Promised!Init, ObservedNow

\* The last-good object implements LastGood, however sessions, failures and
\* restarts interleave.
THEOREM LastGoodImplemented == FleetSpec => ImplementsLastGood
<1>1. FleetInit => Promised!Init
  BY InitTyped, InitImplements
<1>2. TypeInv /\ TypeInv' /\ Remembered /\ [FleetNext]_fleet => [Promised!Next]_Promised!vars
  BY StepImplements
<1>3. FleetSpec => [](TypeInv /\ Remembered)
  BY WhatIsRemembered
<1> QED
  BY <1>1, <1>2, <1>3, PTL DEF FleetSpec, ImplementsLastGood, Promised!Spec

-----------------------------------------------------------------------------
\* What the exercise row shows is an execution of the exercise role.
ShowsItsOwn ==
    watched = "weekly_exercise" /\ view.says = "RUN" =>
        view.snap # NoRun /\ WasIn(hist[MachineOf(watched)], MachineOf(watched), "exercise", view.snap)

LEMMA RenderShowsItsOwn ==
    ASSUME TypeInv, Remembered, NEW failed, RenderWhen(failed)
    PROVE  ShowsItsOwn'
<1> DEFINE w == MachineOf(watched)
           load == Loaded(w, "exercise", failed)
<1>1. SUFFICES ASSUME watched' = "weekly_exercise", view'.says = "RUN"
               PROVE  view'.snap # NoRun /\ WasIn(hist'[w], w, "exercise", view'.snap)
  BY DEF ShowsItsOwn, RenderWhen
<1>2. watched = "weekly_exercise" /\ w \in Machine /\ "exercise" \in Kind /\ UNCHANGED hist
  BY <1>1 DEF RenderWhen, TypeInv, WatchedMachine, Kind
<1>3. view' = Condensed(watched, load, failed)
  BY <1>2 DEF RenderWhen, Scope
<1>4. load.outcome = "LIVE" /\ view' = CondensedForAnyRow(watched, load, failed)
  <2> HIDE DEF load
  <2> QED
    BY <1>1, <1>2, <1>3 DEF Condensed, RoleStrict
<1>5. load.snap = Known(w, "exercise") /\ load.snap # NoRun
  BY <1>4 DEF Loaded
<1>6. view'.snap = load.snap
  <2> HIDE DEF load
  <2> QED
    BY <1>4, <1>5 DEF CondensedForAnyRow
<1>7. WasIn(hist[w], w, "exercise", Known(w, "exercise"))
  BY <1>2, KnownWas
<1> QED
  BY <1>2, <1>5, <1>6, <1>7

LEMMA StepShowsItsOwn ==
    ASSUME TypeInv, Remembered, ShowsItsOwn, [FleetNext]_fleet
    PROVE  ShowsItsOwn'
<1>1. ASSUME UNCHANGED <<watched, view>> \/ (UNCHANGED watched /\ view' = Unseen)
      PROVE  ShowsItsOwn'
  <2>1. MachineOf(watched) \in Machine /\ HistGrows
    BY HistoryGrows DEF TypeInv, WatchedMachine
  <2>2. Grows(hist[MachineOf(watched)], hist'[MachineOf(watched)])
    BY <2>1 DEF HistGrows
  <2>3. CASE UNCHANGED <<watched, view>>
    BY <2>2, <2>3, StillWas DEF ShowsItsOwn
  <2>4. CASE view' = Unseen
    BY <2>4 DEF ShowsItsOwn, Unseen
  <2> QED
    BY <1>1, <2>3, <2>4
<1>2. ASSUME NEW s \in Session, NEW m \in Machine,
             Press(s) \/ WriteLastGood(s) \/ Ask(s, m) \/ Answered(s, m) \/ Memoised(s, m) \/ LeftOut(s, m)
      PROVE  ShowsItsOwn'
  BY <1>1, <1>2 DEF Press, WriteLastGood, Ask, Answered, Memoised, LeftOut
<1>3. ASSUME NEW role, Start(role) PROVE ShowsItsOwn'
  BY <1>1, <1>3 DEF Start
<1>4. ASSUME NEW i, NEW e, End(i, e) PROVE ShowsItsOwn'
  BY <1>1, <1>4 DEF End
<1>5. ASSUME NEW m, NEW k, MemoExpires(m, k) PROVE ShowsItsOwn'
  BY <1>1, <1>5 DEF MemoExpires
<1>6. CASE S3MemoExpires \/ Restart \/ Tick \/ UNCHANGED fleet
  BY <1>1, <1>6 DEF S3MemoExpires, Restart, Tick, fleet, pipelines
<1>7. CASE PipelineNext
  BY <1>7, StepsOf, RenderShowsItsOwn, <1>2, <1>3, <1>4, <1>5, <1>6, Zenon
<1> QED
  BY <1>6, <1>7 DEF FleetNext

\* The exercise row never takes a run of the cadence on its machine for its
\* own, whatever reads fail and whatever the memos and the object hold.
THEOREM ExerciseRowKept == FleetSpec => []ExerciseRowIsItsOwn
<1>1. FleetInit => ShowsItsOwn
  BY DEF FleetInit, PipelineInit, ShowsItsOwn, Unseen
<1>2. TypeInv /\ Remembered /\ ShowsItsOwn /\ [FleetNext]_fleet => ShowsItsOwn'
  BY StepShowsItsOwn
<1>3. FleetSpec => [](TypeInv /\ Remembered)
  BY WhatIsRemembered
<1>4. ShowsItsOwn => ExerciseRowIsItsOwn
  BY DEF ShowsItsOwn, ExerciseRowIsItsOwn, WasIn, Roles
<1> QED
  BY <1>1, <1>2, <1>3, <1>4, PTL DEF FleetSpec

-----------------------------------------------------------------------------
\* No memo, call in flight or poll of a refresh is older than the least that the
\* refreshes under way may publish; a session that refreshes nothing holds none.
NotBelow(m, x, least) == x # NoRun => ~Older(x, least)
FloorOf(s, m) ==
    /\ NotBelow(m, memo[m]["canonical"], floor[s][m])
    /\ \A r \in Session : NotBelow(m, asked[r][m], floor[s][m])
    /\ NotBelow(m, good[s][m], floor[s][m])
    /\ pc[s] = 0 => good[s][m] = NoRun
Floors == \A s \in Session, m \in Machine : FloorOf(s, m)

LEMMA NothingBelowNoRun ==
    ASSUME NEW m, NEW x \in Snapshot
    PROVE  NotBelow(m, x, NoRun) /\ \A y : NotBelow(m, NoRun, y)
<1>1. x.id \in Nat /\ NoRun.id = 0
  BY DEF Snapshot, NoRun
<1>2. ~(x.id < NoRun.id)
  BY <1>1
<1>3. NoRun.ended = FALSE
  BY DEF NoRun
<1> QED
  BY <1>2, <1>3, Zenon DEF NotBelow, Older

LEMMA SessionFloors ==
    ASSUME TypeInv, Remembered, Floors, NEW s \in Session, NEW m \in Machine,
           Press(s) \/ WriteLastGood(s) \/ Ask(s, m) \/ Answered(s, m) \/ Memoised(s, m) \/ LeftOut(s, m)
    PROVE  Floors'
<1> USE DEF TypeInv, FleetTypeOK, PipelineTypeOK
<1>1. SUFFICES ASSUME NEW r \in Session, NEW x \in Machine PROVE FloorOf(r, x)'
  BY DEF Floors
<1>2. /\ FloorOf(r, x) /\ FloorOf(s, x) /\ RememberedOf(x)
      /\ "canonical" \in Kind /\ PollScope = "canonical" /\ Len(SfOrder) \in Nat
  BY PipelineAssumption DEF Floors, Remembered, Kind, PollScope, PipelineAssumption
<1>3. \A y : NotBelow(x, NoRun, y)
  BY Values, NothingBelowNoRun
<1>4. /\ good[r][x] \in Snapshot /\ floor[r][x] \in Snapshot /\ memo[x]["canonical"] \in Snapshot
      /\ \A q \in Session : asked[q][x] \in Snapshot
  BY <1>2
<1>5. CASE Press(s)
  <2>1. Pending(x) \subseteq Snapshot
    BY <1>4, FreshTyped DEF Pending
  <2>2. \A y \in Pending(x) : ~Older(y, Oldest(x))
    BY <2>1, OldestTaken
  <2>3. \A q \in Session : NotBelow(x, asked[q][x], Oldest(x))
    BY <2>2 DEF Pending, NotBelow
  <2>4. UNCHANGED <<asked, good>> /\ memo'[x]["canonical"] = NoRun
    BY <1>2, <1>5 DEF Press, Cleared, NoMemo
  <2>5. CASE r = s
    <3>1. floor'[r][x] = Oldest(x) /\ good[r][x] = NoRun
      BY <1>2, <1>5, <2>5 DEF Press, FloorOf
    <3> QED
      BY <1>3, <2>3, <2>4, <3>1 DEF FloorOf
  <2>6. CASE r # s
    <3>1. floor'[r][x] = floor[r][x] /\ pc'[r] = pc[r]
      BY <1>5, <2>6 DEF Press
    <3> QED
      BY <1>2, <1>3, <2>4, <3>1 DEF FloorOf
  <2> QED
    BY <2>5, <2>6
<1>6. CASE WriteLastGood(s)
  <2>1. UNCHANGED <<memo, asked>>
    BY <1>6 DEF WriteLastGood
  <2>2. CASE r = s
    <3>1. floor'[r][x] = NoRun /\ good'[r][x] = NoRun
      BY <1>6, <2>2 DEF WriteLastGood, Empty
    <3> QED
      BY <1>3, <1>4, <2>1, <3>1, NothingBelowNoRun DEF FloorOf
  <2>3. CASE r # s
    <3>1. floor'[r][x] = floor[r][x] /\ good'[r][x] = good[r][x] /\ pc'[r] = pc[r]
      BY <1>6, <2>3 DEF WriteLastGood
    <3> QED
      BY <1>2, <2>1, <3>1 DEF FloorOf
  <2> QED
    BY <2>2, <2>3
<1>7. CASE Ask(s, m)
  <2>1. UNCHANGED <<memo, good, floor, pc>>
    BY <1>7 DEF Ask
  <2>2. \A q \in Session : asked'[q][x] = asked[q][x] \/ (x = m /\ asked'[q][x] = Fresh(m, "canonical"))
    BY <1>2, <1>7 DEF Ask
  <2>3. x = m => NotBelow(x, Fresh(m, "canonical"), floor[r][x])
    BY <1>2, <1>4, FreshIsNewest DEF RememberedOf, NotBelow
  <2> QED
    BY <1>2, <2>1, <2>2, <2>3 DEF FloorOf
<1>8. CASE Answered(s, m)
  <2>1. UNCHANGED floor
    BY <1>8 DEF Answered
  <2>2. \A q \in Session : asked'[q][x] \in {asked[q][x], NoRun}
    BY <1>8 DEF Answered, Empty
  <2>3. memo'[x]["canonical"] \in {memo[x]["canonical"], asked[s][x]}
    BY <1>2, <1>8 DEF Answered
  <2>4. CASE pc[s] = 0
    <3>1. UNCHANGED <<pc, good>>
      BY <1>8, <2>4 DEF Answered
    <3> QED
      BY <1>2, <1>3, <2>1, <2>2, <2>3, <3>1 DEF FloorOf
  <2>5. CASE pc[s] # 0
    <3>1. good' = [good EXCEPT ![s][m] = asked[s][m]] /\ pc' = [pc EXCEPT ![s] = @ + 1]
      BY <1>8, <2>5 DEF Answered
    <3>2. good'[r][x] = good[r][x] \/ (r = s /\ good'[r][x] = asked[s][x])
      BY <3>1
    <3>3. pc'[r] = 0 => r # s /\ pc[r] = 0
      BY <1>2, <3>1
    <3>4. r # s => good'[r][x] = good[r][x]
      BY <3>1
    <3> QED
      BY <1>2, <1>3, <2>1, <2>2, <2>3, <3>2, <3>3, <3>4 DEF FloorOf
  <2> QED
    BY <2>4, <2>5
<1>9. CASE Memoised(s, m)
  <2>1. UNCHANGED <<memo, asked, floor>>
    BY <1>9 DEF Memoised
  <2>2. /\ good' = [good EXCEPT ![s][m] = memo[m]["canonical"]] /\ pc' = [pc EXCEPT ![s] = @ + 1]
        /\ pc[s] # 0
    BY <1>2, <1>9 DEF Memoised, Polls
  <2>3. good'[r][x] = good[r][x] \/ (r = s /\ good'[r][x] = memo[x]["canonical"])
    BY <2>2
  <2>4. pc'[r] = 0 => r # s /\ pc[r] = 0
    BY <1>2, <2>2
  <2>5. r # s => good'[r][x] = good[r][x]
    BY <2>2
  <2> QED
    BY <1>2, <2>1, <2>3, <2>4, <2>5 DEF FloorOf
<1>10. CASE LeftOut(s, m)
  <2>1. UNCHANGED <<memo, good, floor>>
    BY <1>10 DEF LeftOut
  <2>2. \A q \in Session : asked'[q][x] \in {asked[q][x], NoRun}
    BY <1>10 DEF LeftOut, Empty
  <2>3. pc'[r] = 0 => pc[r] = 0
    BY <1>2, <1>10 DEF LeftOut
  <2> QED
    BY <1>2, <1>3, <2>1, <2>2, <2>3 DEF FloorOf
<1> QED
  BY <1>5, <1>6, <1>7, <1>8, <1>9, <1>10

LEMMA StepFloors ==
    ASSUME TypeInv, Remembered, Floors, [FleetNext]_fleet
    PROVE  Floors'
<1> USE DEF TypeInv, FleetTypeOK, PipelineTypeOK
<1>1. ASSUME UNCHANGED <<asked, good, floor, pc>>,
             \A x \in Machine : memo'[x]["canonical"] \in {memo[x]["canonical"], NoRun}
      PROVE  Floors'
  <2> SUFFICES ASSUME NEW r \in Session, NEW x \in Machine
              PROVE  FloorOf(r, x)'
    BY DEF Floors
  <2>1. FloorOf(r, x)
    BY DEF Floors
  <2>2. \A a, b : NotBelow(a, NoRun, b)
    BY Values, NothingBelowNoRun
  <2>3. UNCHANGED <<asked, good, floor, pc>>
        /\ memo'[x]["canonical"] \in {memo[x]["canonical"], NoRun}
    BY <1>1
  <2> QED
    BY <2>1, <2>2, <2>3 DEF FloorOf
<1>2. CASE Restart
  <2>1. \A s \in Session, x \in Machine : asked'[s][x] = NoRun /\ good'[s][x] = NoRun
                                         /\ memo'[x]["canonical"] = NoRun
    BY <1>2 DEF Restart, Nothing, Empty, NoMemo, Kind
  <2>2. \A x, y : NotBelow(x, NoRun, y)
    BY Values, NothingBelowNoRun
  <2> QED
    BY <2>1, <2>2 DEF Floors, FloorOf
<1>3. CASE Tick
  <2>1. \A x \in Machine : memo'[x]["canonical"] = NoRun
    BY <1>3 DEF Tick, NoMemo, Kind
  <2> QED
    BY <1>1, <1>3, <2>1 DEF Tick, sessions
<1>4. ASSUME NEW failed \in SUBSET {Scope(watched), "any", "s3", "work"}, RenderWhen(failed)
      PROVE  Floors'
  <2> DEFINE w == MachineOf(watched)
             k == Scope(watched)
             load == Loaded(w, k, failed)
  <2>1. w \in Machine /\ k \in Kind /\ k # "canonical" /\ "canonical" \in Kind
    BY DEF WatchedMachine, Scope, Kind
  <2>2. memo' = [memo EXCEPT
             ![w][k] = IF k \in failed THEN @ ELSE Known(w, k),
             ![w]["any"] = IF load.outcome = "LIVE_ROLE_FALLBACK" THEN load.snap ELSE memo[w]["any"]]
    BY <1>4, Zenon DEF RenderWhen
  <2> HIDE DEF w, k, load
  <2>3. \A x \in Machine : memo'[x]["canonical"] = memo[x]["canonical"]
    BY <2>1, <2>2
  <2> QED
    BY <1>1, <1>4, <2>3 DEF RenderWhen, sessions
<1>5. ASSUME NEW m \in Machine, NEW k \in Kind, MemoExpires(m, k) PROVE Floors'
  <2>1. \A x \in Machine : memo'[x]["canonical"] \in {memo[x]["canonical"], NoRun}
    BY <1>5 DEF MemoExpires, Kind
  <2> QED
    BY <1>1, <1>5, <2>1 DEF MemoExpires, sessions
<1>6. ASSUME NEW role, Start(role) PROVE Floors'
  BY <1>1, <1>6 DEF Start, sessions
<1>7. ASSUME NEW i, NEW e, End(i, e) PROVE Floors'
  BY <1>1, <1>7 DEF End, sessions
<1>8. S3MemoExpires \/ UNCHANGED fleet => Floors'
  BY <1>1 DEF S3MemoExpires, sessions, fleet, pipelines
<1>9. CASE PipelineNext
  BY <1>9, StepsOf, SessionFloors, <1>2, <1>4, <1>5, <1>6, <1>7, <1>8, Zenon
<1> QED
  BY <1>3, <1>8, <1>9 DEF FleetNext

\* A refresh publishes nothing older than what its button, or a call already in
\* flight when it was pressed, could see, with any number of sessions.
THEOREM RefreshIsFresh == FleetSpec => []PolledSincePress
<1>1. FleetInit => Floors
  BY Values, NothingBelowNoRun
     DEF FleetInit, PipelineInit, Floors, FloorOf, Nothing, Empty, NoMemo, Kind
<1>2. TypeInv /\ Remembered /\ Floors /\ [FleetNext]_fleet => Floors'
  BY StepFloors
<1>3. FleetSpec => [](TypeInv /\ Remembered)
  BY WhatIsRemembered
<1>4. Floors => PolledSincePress
  BY DEF Floors, FloorOf, NotBelow, PolledSincePress
<1> QED
  BY <1>1, <1>2, <1>3, <1>4, PTL DEF FleetSpec

-----------------------------------------------------------------------------
\* The dot of a page that reads the truth is that of what the row says of it.
LEMMA DotOfSaying == TrueDot = Dot(watched, Says(watched, TrueView, now))
<1> DEFINE said == Says(watched, TrueView, now)
<1>1. {Says(watched, v, now) : v \in {TrueView}} = {said}
  OBVIOUS
<1> HIDE DEF said
<1>2. {Dot(watched, s) : s \in {said}} = {Dot(watched, said)}
  OBVIOUS
<1>3. TrueDot = CHOOSE dot \in {Dot(watched, said)} : TRUE
  BY <1>1, <1>2, Zenon DEF TrueDot
<1> QED
  BY <1>3 DEF said

\* What a read of a row brings when nothing fails.
TrueLoad ==
    LET m == MachineOf(watched)
        own == Fresh(m, Scope(watched))
        newest == Fresh(m, "any")
    IN  IF own # NoRun THEN [outcome |-> "LIVE", snap |-> own]
        ELSE IF newest # NoRun THEN [outcome |-> "LIVE_ROLE_FALLBACK", snap |-> newest]
        ELSE [outcome |-> "NO_EXECUTIONS", snap |-> NoRun]

LEMMA ViewOfLoad == TrueView = Condensed(watched, TrueLoad, {})
<1>1. {Condensed(watched, l, {}) : l \in {TrueLoad}} = {Condensed(watched, TrueLoad, {})}
  OBVIOUS
<1>2. TrueView = CHOOSE v \in {Condensed(watched, l, {}) : l \in {TrueLoad}} : TRUE
  BY Zenon DEF TrueView, TrueLoad
<1>3. TrueView = CHOOSE v \in {Condensed(watched, TrueLoad, {})} : TRUE
  BY <1>1, <1>2, Zenon
<1> QED
  BY <1>3

\* With a run of its own roles in the window the row shows it, and nothing else.
LEMMA OwnShown ==
    LET m == MachineOf(watched)
        own == Fresh(m, Scope(watched))
    IN  own # NoRun => /\ TrueView.says = "RUN" /\ TrueView.snap = own
                       /\ TrueView.verdict = CycleVerdict(m, own, {})
<1> DEFINE m == MachineOf(watched)
           own == Fresh(m, Scope(watched))
<1>1. SUFFICES ASSUME own # NoRun
               PROVE  /\ TrueView.says = "RUN" /\ TrueView.snap = own
                      /\ TrueView.verdict = CycleVerdict(m, own, {})
  OBVIOUS
<1>2. TrueLoad = [outcome |-> "LIVE", snap |-> own]
  BY <1>1 DEF TrueLoad
<1> HIDE DEF own
<1>3. Condensed(watched, TrueLoad, {}) =
        [says |-> "RUN", snap |-> own, verdict |-> CycleVerdict(m, own, {})]
  BY <1>1, <1>2 DEF Condensed, CondensedForAnyRow
<1> QED
  BY <1>3, ViewOfLoad

LEMMA CadenceShown ==
    Scope(watched) = "cadence" /\ CadenceRun # NoRun =>
        /\ TrueView.says = "RUN" /\ TrueView.snap = CadenceRun
        /\ TrueView.verdict = CycleVerdict(MachineOf(watched), CadenceRun, {})
BY OwnShown DEF CadenceRun

\* The newest execution of the row's cadence has ended and is judged failed.
FailedCadence ==
    /\ Scope(watched) = "cadence" /\ watched # "weekly_exercise" /\ CadenceRun # NoRun
    /\ CadenceRun.ended
    /\ CycleVerdict(MachineOf(watched), CadenceRun, {}) = "FAILED"

LEMMA RedIsFailed ==
    ASSUME TypeInv, TrueDot = "RED", CadenceRun # NoRun
    PROVE  FailedCadence
<1> DEFINE said == Says(watched, TrueView, now)
<1>1. Dot(watched, said) = "RED"
  BY DotOfSaying
<1>2. said = "FAILED" /\ watched # "weekly_exercise"
  <2> HIDE DEF said
  <2> QED
    BY <1>1 DEF Dot, FailedDot
<1>3. Scope(watched) = "cadence"
  BY <1>2 DEF Scope
<1>4. /\ TrueView.says = "RUN" /\ TrueView.snap = CadenceRun
      /\ TrueView.verdict = CycleVerdict(MachineOf(watched), CadenceRun, {})
  BY <1>3, CadenceShown
<1>5. TrueView.verdict = "FAILED"
  BY <1>2, <1>4 DEF Says
<1>6. CadenceRun.ended \in BOOLEAN
  BY FreshTyped DEF CadenceRun, TypeInv, FleetTypeOK, WatchedMachine, Snapshot
<1>7. CadenceRun.ended
  BY <1>4, <1>5, <1>6 DEF CycleVerdict
<1> QED
  BY <1>2, <1>3, <1>4, <1>5, <1>7 DEF FailedCadence

LEMMA FailedIsNotIdle == FailedCadence => TrueDot \in {"RED", "YELLOW"}
<1>1. SUFFICES ASSUME FailedCadence PROVE TrueDot \in {"RED", "YELLOW"}
  OBVIOUS
<1>2. TrueView.says = "RUN" /\ TrueView.verdict = "FAILED"
  BY <1>1, CadenceShown DEF FailedCadence
<1>3. Says(watched, TrueView, now) \in {"overdue", "FAILED"}
  BY <1>2 DEF Says
<1> QED
  BY <1>3, DotOfSaying DEF Dot, FailedDot

\* An execution that has ended stays as it ended.
LEMMA FailureStays ==
    ASSUME TypeInv, [FleetNext]_fleet, FailedCadence, CadenceRun' = CadenceRun
    PROVE  FailedCadence'
<1> DEFINE m == MachineOf(watched)
           i == CadenceRun.id
<1>1. UNCHANGED watched
  <2>1. PipelineNext => UNCHANGED watched
    BY PipelineStepTyped
  <2> QED
    BY <2>1 DEF FleetNext, Tick, fleet, pipelines
<1>2. m \in Machine /\ HistGrows
  BY HistoryGrows DEF TypeInv, WatchedMachine
<1>3. WasIn(hist[m], m, "cadence", CadenceRun)
  BY <1>2, FreshWas DEF CadenceRun, TypeInv, FleetTypeOK
<1>4. i \in DOMAIN hist[m] /\ hist[m][i].status # "RUNNING"
  BY <1>3 DEF WasIn, FailedCadence
<1>5. hist'[m][i] = hist[m][i]
  BY <1>2, <1>4 DEF HistGrows, Grows
<1>6. CycleVerdict(m, CadenceRun, {})' = CycleVerdict(m, CadenceRun, {})
  BY <1>1, <1>5 DEF CycleVerdict, ZeroArtifactVerdict
<1> QED
  BY <1>1, <1>6 DEF FailedCadence, Scope

\* Time, memos, sessions and runs of other roles never turn the dot of a failed
\* cycle green or gray while its execution is the newest of the cadence.
THEOREM FailureStaysOnThePage == FleetSpec => FailureOutlastsIdle
<1>1. (FailedCadence => TrueDot \in {"RED", "YELLOW"})'
  BY FailedIsNotIdle, PTL
<1>2. TypeInv /\ [FleetNext]_fleet
        => [TrueDot = "RED" /\ CadenceRun # NoRun /\ CadenceRun' = CadenceRun
               => TrueDot' \notin {"GREEN", "GRAY"}]_fleet
  <2>1. SUFFICES ASSUME TypeInv, [FleetNext]_fleet,
                        TrueDot = "RED", CadenceRun # NoRun, CadenceRun' = CadenceRun
                 PROVE  TrueDot' \notin {"GREEN", "GRAY"}
    OBVIOUS
  <2>2. FailedCadence'
    BY <2>1, RedIsFailed, FailureStays
  <2> QED
    BY <1>1, <2>2
<1>3. FleetSpec => []TypeInv
  BY InitTyped, StepTyped, PTL DEF FleetSpec
<1> QED
  BY <1>2, <1>3, PTL DEF FleetSpec, FailureOutlastsIdle

-----------------------------------------------------------------------------
\* Executions are listed in the order they were started, none in the future.
InOrder(h, t) == \A i, j \in DOMAIN h : i <= j => h[i].at <= h[j].at /\ h[j].at <= t
Chronicle == \A m \in Machine : InOrder(hist[m], now)

LEMMA StartInOrder ==
    ASSUME NEW h \in Seq(Run), NEW t \in Int, NEW run \in Run, run.at = t, InOrder(h, t)
    PROVE  InOrder(Append(h, run), t)
<1>1. SUFFICES ASSUME NEW i \in DOMAIN Append(h, run), NEW j \in DOMAIN Append(h, run), i <= j
               PROVE  Append(h, run)[i].at <= Append(h, run)[j].at /\ Append(h, run)[j].at <= t
  BY DEF InOrder
<1>2. Len(h) \in Nat /\ i \in 1 .. Len(h) + 1 /\ j \in 1 .. Len(h) + 1
  OBVIOUS
<1>3. CASE j \in 1 .. Len(h)
  <2>1. i \in DOMAIN h /\ j \in DOMAIN h /\ Append(h, run)[i] = h[i] /\ Append(h, run)[j] = h[j]
    BY <1>1, <1>2, <1>3
  <2> QED
    BY <1>1, <2>1 DEF InOrder
<1>4. CASE j = Len(h) + 1
  <2>1. Append(h, run)[j].at = t
    BY <1>4
  <2>2. CASE i \in 1 .. Len(h)
    <3>1. i \in DOMAIN h /\ Append(h, run)[i] = h[i] /\ i <= i
      BY <2>2
    <3>2. h[i].at <= t
      BY <3>1 DEF InOrder
    <3> QED
      BY <2>1, <3>1, <3>2
  <2>3. CASE i = Len(h) + 1
    BY <1>4, <2>1, <2>3
  <2> QED
    BY <1>2, <2>2, <2>3
<1> QED
  BY <1>2, <1>3, <1>4

LEMMA LaterInOrder ==
    ASSUME NEW h \in Seq(Run), NEW t \in Int, NEW u \in Int, t <= u, InOrder(h, t)
    PROVE  InOrder(h, u)
<1>1. SUFFICES ASSUME NEW i \in DOMAIN h, NEW j \in DOMAIN h, i <= j
               PROVE  h[i].at <= h[j].at /\ h[j].at <= u
  BY DEF InOrder
<1>2. h[j] \in Run
  OBVIOUS
<1>3. h[j].at \in Int
  BY <1>2 DEF Run
<1>4. h[i].at <= h[j].at /\ h[j].at <= t
  BY <1>1 DEF InOrder
<1> QED
  BY <1>3, <1>4

LEMMA StepInOrder ==
    ASSUME TypeInv, TypeInv', Chronicle, [FleetNext]_fleet
    PROVE  Chronicle'
<1> USE DEF TypeInv, FleetTypeOK, PipelineTypeOK, WatchedMachine
<1>1. ASSUME UNCHANGED <<now, hist>> PROVE Chronicle'
  BY <1>1 DEF Chronicle, InOrder
<1>2. ASSUME NEW role \in Role, Start(role) PROVE Chronicle'
  <2> DEFINE m == MachineOf(watched)
             run == [role |-> role, at |-> now, status |-> "RUNNING",
                     produced |-> 0, total |-> 0, work |-> "INCOMPLETE"]
  <2>1. /\ m \in Machine /\ hist[m] \in Seq(Run) /\ now' = now
        /\ hist' = [hist EXCEPT ![m] = Append(hist[m], run)]
    BY <1>2 DEF Start
  <2>2. hist'[m] = Append(hist[m], run) /\ \A x \in Machine \ {m} : hist'[x] = hist[x]
    BY <2>1
  <2>3. run \in Run /\ run.at = now
    BY DEF Run, Work
  <2> HIDE DEF run
  <2>4. InOrder(hist'[m], now)
    BY <2>1, <2>2, <2>3, StartInOrder DEF Chronicle
  <2> QED
    BY <2>1, <2>2, <2>4 DEF Chronicle
<1>3. ASSUME NEW i, NEW e \in Ending, End(i, e) PROVE Chronicle'
  <2>1. HistGrows /\ now' = now
    BY <1>3, HistoryGrows DEF End
  <2>2. \A m \in Machine : DOMAIN hist'[m] = DOMAIN hist[m]
    BY <1>3 DEF End
  <2>3. \A m \in Machine : \A j \in DOMAIN hist[m] : hist'[m][j].at = hist[m][j].at
    BY <2>1 DEF HistGrows, Grows
  <2> QED
    BY <2>1, <2>2, <2>3 DEF Chronicle, InOrder
<1>4. CASE Tick
  <2>1. now' \in Int /\ now <= now' /\ UNCHANGED hist
    BY <1>4, CalendarAssumption DEF Tick, CalendarAssumption
  <2> QED
    BY <2>1, LaterInOrder DEF Chronicle
<1>5. ASSUME NEW failed, RenderWhen(failed) PROVE Chronicle'
  BY <1>1, <1>5 DEF RenderWhen
<1>6. S3MemoExpires \/ Restart \/ UNCHANGED fleet => Chronicle'
  BY <1>1 DEF S3MemoExpires, Restart, fleet, pipelines
<1>7. ASSUME NEW m, NEW k, MemoExpires(m, k) PROVE Chronicle'
  BY <1>1, <1>7 DEF MemoExpires
<1>8. ASSUME NEW s \in Session, NEW m \in Machine,
             Press(s) \/ WriteLastGood(s) \/ Ask(s, m) \/ Answered(s, m) \/ Memoised(s, m) \/ LeftOut(s, m)
      PROVE  Chronicle'
  BY <1>1, <1>8 DEF Press, WriteLastGood, Ask, Answered, Memoised, LeftOut
<1>9. CASE PipelineNext
  BY <1>9, StepsOf, <1>2, <1>3, <1>5, <1>6, <1>7, <1>8, Zenon
<1> QED
  BY <1>4, <1>6, <1>9 DEF FleetNext

LEMMA InitInOrder == FleetInit => Chronicle
BY PastAssumption DEF FleetInit, PipelineInit, PastAssumption, Chronicle, InOrder

\* The newest of the executions a read may take is not older than another.
LEMMA NewestTaken ==
    ASSUME PipelineTypeOK, NEW m \in Machine, NEW k, Fresh(m, k) # NoRun
    PROVE  /\ Fresh(m, k).id \in DOMAIN hist[m]
           /\ Fresh(m, k).id > Len(hist[m]) - Window
           /\ \A i \in Matching(m, k) : i <= Fresh(m, k).id
<1>1. PICK x \in Newest(m, k) : Fresh(m, k) = SnapshotOf(m, x)
  BY DEF Fresh
<1>2. Fresh(m, k).id = x
  BY <1>1 DEF SnapshotOf
<1> QED
  BY <1>1, <1>2 DEF Newest, Matching

LEMMA ShownIsNewest ==
    ASSUME TypeInv, TrueView.says = "RUN", NEW i \in DOMAIN hist[MachineOf(watched)],
           hist[MachineOf(watched)][i].role \in Roles(MachineOf(watched), Scope(watched))
    PROVE  TrueView.snap.id \in DOMAIN hist[MachineOf(watched)] /\ i <= TrueView.snap.id
<1> DEFINE m == MachineOf(watched)
           k == Scope(watched)
<1>0. /\ m \in Machine /\ PipelineTypeOK /\ hist[m] \in Seq(Run) /\ Window \in Nat
      /\ i \in Nat /\ Len(hist[m]) \in Nat
  BY PipelineAssumption DEF TypeInv, FleetTypeOK, PipelineTypeOK, WatchedMachine, PipelineAssumption
<1>1. \/ TrueLoad.snap = Fresh(m, k) /\ Fresh(m, k) # NoRun
      \/ TrueLoad.snap = Fresh(m, "any") /\ Fresh(m, "any") # NoRun
      \/ TrueLoad.snap = NoRun
  BY DEF TrueLoad
<1>2. TrueLoad.snap # NoRun /\ TrueView.snap = TrueLoad.snap
  <2> HIDE DEF TrueLoad
  <2> QED
    BY ViewOfLoad DEF Condensed, CondensedForAnyRow
<1>3. CASE TrueLoad.snap = Fresh(m, k) /\ Fresh(m, k) # NoRun
  <2>1. /\ Fresh(m, k).id \in DOMAIN hist[m] /\ Fresh(m, k).id > Len(hist[m]) - Window
        /\ \A j \in Matching(m, k) : j <= Fresh(m, k).id
    BY <1>0, <1>3, NewestTaken
  <2>2. CASE i > Len(hist[m]) - Window
    BY <1>2, <1>3, <2>1, <2>2 DEF Matching
  <2>3. CASE ~(i > Len(hist[m]) - Window)
    BY <1>0, <1>2, <1>3, <2>1, <2>3
  <2> QED
    BY <2>2, <2>3
<1>4. CASE TrueLoad.snap = Fresh(m, "any") /\ Fresh(m, "any") # NoRun
  <2>1. /\ Fresh(m, "any").id \in DOMAIN hist[m] /\ Fresh(m, "any").id > Len(hist[m]) - Window
        /\ \A j \in Matching(m, "any") : j <= Fresh(m, "any").id
    BY <1>0, <1>4, NewestTaken
  <2>2. CASE i > Len(hist[m]) - Window
    <3>1. hist[m][i] \in Run
      BY <1>0
    <3>2. i \in Matching(m, "any")
      BY <2>2, <3>1 DEF Matching, Roles, Run
    <3> QED
      BY <1>2, <1>4, <2>1, <3>2
  <2>3. CASE ~(i > Len(hist[m]) - Window)
    BY <1>0, <1>2, <1>4, <2>1, <2>3
  <2> QED
    BY <2>2, <2>3
<1> QED
  BY <1>1, <1>2, <1>3, <1>4

\* A run of the cycle that is on counts as the one that was due.
LEMMA DayOf ==
    ASSUME NEW d \in Int, NEW t \in Int, At(d, 0) <= t, t < At(d + 1, 0)
    PROVE  Day(t) = d
BY DEF At, Day, DayLength

LEMMA DayBounds ==
    ASSUME NEW t \in Int
    PROVE  Day(t) \in Int /\ At(Day(t), 0) <= t /\ t < At(Day(t) + 1, 0)
BY DEF At, Day, DayLength

LEMMA SessionCycle ==
    ASSUME NEW r \in {"postclose", "postclose_reconcile", "weekly_exercise"}, NEW cycle \in Cycles[r]
    PROVE  \E p, q \in Trading : /\ p < q /\ cycle.from = At(p, CLOSE) /\ cycle.to = At(q, CLOSE)
                                 /\ \A x \in Trading : x <= p \/ x >= q
<1>1. Cycles[r] = {[from |-> At(p[1], CLOSE), to |-> At(p[2], CLOSE)] :
                      p \in {q \in Trading \X Trading :
                            q[1] < q[2] /\ \A x \in Trading : x <= q[1] \/ x >= q[2]}}
  BY DEF Cycles, Row
<1>2. PICK p \in Trading \X Trading :
        /\ p[1] < p[2] /\ \A x \in Trading : x <= p[1] \/ x >= p[2]
        /\ cycle = [from |-> At(p[1], CLOSE), to |-> At(p[2], CLOSE)]
  BY <1>1
<1>3. cycle.from = At(p[1], CLOSE) /\ cycle.to = At(p[2], CLOSE) /\ p[1] \in Trading /\ p[2] \in Trading
  BY <1>2
<1> QED
  BY <1>2, <1>3

LEMMA CycleBounds ==
    ASSUME NEW r \in Row, NEW cycle \in Cycles[r]
    PROVE  cycle.from \in Int /\ cycle.to \in Int
<1>0. Trading \subseteq Int /\ Saturdays \subseteq Int
  BY CalendarAssumption DEF CalendarAssumption
<1>1. CASE r \in {"weekly", "preopen"}
  <2>1. PICK d \in Int : cycle = [from |-> At(d, 0), to |-> At(d + 1, 0)]
    BY <1>0, <1>1 DEF Cycles
  <2>2. cycle.from = At(d, 0) /\ cycle.to = At(d + 1, 0)
    BY <2>1
  <2> QED
    BY <2>2 DEF At, DayLength
<1>2. CASE r \in {"postclose", "postclose_reconcile", "weekly_exercise"}
  BY <1>0, <1>2, SessionCycle DEF At, CLOSE, DayLength
<1> QED
  BY <1>1, <1>2 DEF Row

LEMMA RunOfCycleCounts ==
    ASSUME TypeInv, Day(now) = ExchangeDay(now), NEW cycle \in Cycles[watched], In(cycle, now),
           NEW started \in Int, cycle.from <= started, started <= now, \E due \in Due(watched, now) : now >= due
    PROVE  RanToday(watched, started, now)
<1>0. now \in Int /\ now \in Instants /\ watched \in Row /\ Trading \subseteq Int /\ Saturdays \subseteq Int
  BY CalendarAssumption DEF TypeInv, FleetTypeOK, PipelineTypeOK, CalendarAssumption
<1>1. CASE watched \in {"weekly", "preopen"}
  <2>1. PICK d \in Int : cycle = [from |-> At(d, 0), to |-> At(d + 1, 0)]
    BY <1>0, <1>1 DEF Cycles
  <2>2. cycle.from = At(d, 0) /\ cycle.to = At(d + 1, 0)
    BY <2>1
  <2>3. At(d, 0) <= now /\ now < At(d + 1, 0) /\ At(d + 1, 0) \in Int /\ At(d, 0) \in Int
    BY <2>2 DEF In, At, DayLength
  <2>4. Day(now) = d /\ Day(started) = d
    BY <1>0, <2>2, <2>3, DayOf
  <2> QED
    BY <1>1, <2>4 DEF RanToday, ChainedToClose
<1>2. CASE watched = "postclose"
  <2>1. PICK p \in Trading, q \in Trading :
           /\ p < q /\ cycle.from = At(p, CLOSE) /\ cycle.to = At(q, CLOSE)
           /\ \A x \in Trading : x <= p \/ x >= q
    BY <1>2, SessionCycle
  <2> DEFINE d == Day(now)
  <2>2. d \in Trading /\ now >= At(d, CLOSE) + POSTCLOSE_DUE_LAG
    BY <1>2 DEF Due, TodaysClose
  <2>3. p \in Int /\ q \in Int /\ d \in Int /\ At(d, 0) <= now /\ now < At(d + 1, 0)
    BY <1>0, DayBounds
  <2>4. At(p, CLOSE) <= now /\ now < At(q, CLOSE)
    BY <2>1 DEF In
  <2>5. d <= p \/ d >= q
    BY <2>1, <2>2
  <2> HIDE DEF d
  <2>6. p = d
    BY <1>0, <2>2, <2>3, <2>4, <2>5 DEF At, CLOSE, DayLength, POSTCLOSE_DUE_LAG
  <2>7. At(d, 0) <= started /\ started < At(d + 1, 0)
    BY <1>0, <2>1, <2>3, <2>6 DEF At, CLOSE, DayLength
  <2>8. Day(started) = d
    BY <2>3, <2>7, DayOf
  <2> QED
    BY <1>2, <2>8 DEF RanToday, ChainedToClose, d
<1>3. CASE watched \in ChainedToClose
  <2>1. PICK p \in Trading, q \in Trading :
           /\ p < q /\ cycle.from = At(p, CLOSE) /\ cycle.to = At(q, CLOSE)
           /\ \A x \in Trading : x <= p \/ x >= q
    BY <1>3, SessionCycle DEF ChainedToClose
  <2>2. PICK c \in PrevSessionClose[now] : TRUE
    BY <1>3 DEF Due, ChainedToClose
  <2>3. c <= now /\ \E d \in Trading : c = At(d, CLOSE)
    BY <1>0, <2>2 DEF PrevSessionClose
  <2>4. PICK d \in Trading : c = At(d, CLOSE)
    BY <2>3
  <2>5. d \in Int /\ p \in Int /\ q \in Int /\ now < At(q, CLOSE) /\ At(p, CLOSE) <= started
    BY <1>0, <2>1 DEF In
  <2>6. d <= p
    BY <1>0, <2>1, <2>3, <2>4, <2>5 DEF At, CLOSE, DayLength
  <2>7. started >= c
    BY <2>4, <2>5, <2>6 DEF At, CLOSE, DayLength
  <2> QED
    BY <1>3, <2>2, <2>7 DEF RanToday
<1> QED
  BY <1>0, <1>1, <1>2, <1>3 DEF Row, ChainedToClose

LEMMA OverdueHasNoRun ==
    ASSUME TypeInv, Chronicle
    PROVE  OverdueIsRealByDay
<1> DEFINE m == MachineOf(watched)
           x == TrueView.snap.id
<1>1. SUFFICES ASSUME Day(now) = ExchangeDay(now), Says(watched, TrueView, now) = "overdue",
                      NEW cycle \in Cycles[watched], In(cycle, now), RunFor(cycle)
               PROVE  FALSE
  BY DEF OverdueIsRealByDay, OverdueIsReal
<1>2. PICK i \in DOMAIN hist[m] : hist[m][i].role \in Roles(m, Scope(watched)) /\ In(cycle, hist[m][i].at)
  BY <1>1 DEF RunFor, OwnRuns
<1>3. TrueView.says \in {"NO_EXECUTIONS", "UNAVAILABLE", "RUN"} /\ TrueView.verdict \in Verdict
  <2>1. \A snap : CycleVerdict(m, snap, {}) \in Verdict
    BY VerdictTyped
  <2>2. "NONE" \in Verdict
    BY DEF Verdict
  <2> QED
    BY <2>1, <2>2, ViewOfLoad DEF Condensed, CondensedForAnyRow
<1>4. TrueView.says = "RUN" /\ Overdue(watched, hist[m][x].at, now)
  BY <1>1, <1>3 DEF Says, Verdict
<1>5. x \in DOMAIN hist[m] /\ i <= x
  BY <1>2, <1>4, ShownIsNewest
<1>6. m \in Machine /\ hist[m] \in Seq(Run) /\ now \in Int
  BY DEF TypeInv, FleetTypeOK, PipelineTypeOK, WatchedMachine
<1>7. hist[m][i].at <= hist[m][x].at /\ hist[m][x].at <= now
  BY <1>5, <1>6 DEF Chronicle, InOrder
<1>8. hist[m][i].at \in Int /\ hist[m][x].at \in Int /\ cycle.from <= hist[m][i].at
  <2>1. hist[m][i] \in Run /\ hist[m][x] \in Run
    BY <1>2, <1>5, <1>6
  <2> QED
    BY <1>2, <2>1 DEF Run, In
<1>9. cycle.from \in Int
  BY CycleBounds DEF TypeInv, FleetTypeOK, PipelineTypeOK
<1>10. cycle.from <= hist[m][x].at
  BY <1>7, <1>8, <1>9
<1>11. RanToday(watched, hist[m][x].at, now)
  BY <1>1, <1>4, <1>7, <1>8, <1>10, RunOfCycleCounts DEF Overdue
<1> QED
  BY <1>4, <1>11 DEF Overdue

\* While it is the same day in New York and in UTC, no row is called overdue in
\* a cycle some execution of its roles was started in, for any calendar and any
\* instants of the clock.
THEOREM OverdueByDay == FleetSpec => []OverdueIsRealByDay
<1>1. FleetInit => TypeInv /\ Chronicle
  BY InitTyped, InitInOrder
<1>2. TypeInv /\ Chronicle /\ [FleetNext]_fleet => (TypeInv /\ Chronicle)'
  BY StepTyped, StepInOrder
<1>3. TypeInv /\ Chronicle => OverdueIsRealByDay
  BY OverdueHasNoRun
<1> QED
  BY <1>1, <1>2, <1>3, PTL DEF FleetSpec

-----------------------------------------------------------------------------
\* A row that shows a run of before the cycle is overdue at an instant that tells.
LEMMA OldRunOverdue ==
    ASSUME NEW r \in Row, NEW cycle \in Cycles[r], NEW t \in Instants, Tells(r, cycle, t),
           NEW started \in Int, started <= t, ~In(cycle, started),
           ~(r = "postclose" /\ Day(started) = Day(cycle.from))
    PROVE  Overdue(r, started, t)
<1>0. t \in Int /\ Trading \subseteq Int /\ Saturdays \subseteq Int
  BY CalendarAssumption DEF CalendarAssumption
<1>1. CASE r \in {"weekly", "preopen"}
  <2>1. PICK d \in Int :
           /\ cycle = [from |-> At(d, 0), to |-> At(d + 1, 0)]
           /\ d \in (IF r = "weekly" THEN Saturdays ELSE Trading)
    BY <1>0, <1>1 DEF Cycles
  <2>2. cycle.from = At(d, 0) /\ cycle.to = At(d + 1, 0)
    BY <2>1
  <2>3. At(d, 0) <= t /\ t < At(d + 1, 0) /\ At(d, 0) \in Int /\ At(d + 1, 0) \in Int
    BY <2>2 DEF Tells, In, At, DayLength
  <2>4. started < At(d, 0) /\ Day(t) = d
    BY <1>0, <2>2, <2>3, DayOf DEF In
  <2>5. Day(started) # d
    <3>1. At(Day(started), 0) <= started
      BY DayBounds
    <3> QED
      BY <2>3, <2>4, <3>1
  <2>6. DueLag[r] = IF r = "weekly" THEN WEEKLY_DUE ELSE PREOPEN_DUE
    BY <1>1 DEF DueLag
  <2>7. \E due \in Due(r, t) : t >= due
    BY <1>1, <2>1, <2>2, <2>4, <2>6 DEF Tells, Due, At, DayLength, WEEKLY_DUE, PREOPEN_DUE
  <2> QED
    BY <1>1, <2>4, <2>5, <2>7 DEF Overdue, RanToday, ChainedToClose
<1>2. ASSUME r \in {"postclose", "postclose_reconcile", "weekly_exercise"}
      PROVE  \E p, q \in Trading :
                /\ p \in Int /\ q \in Int /\ \A x \in Trading : x <= p \/ x >= q
                /\ cycle.from = At(p, CLOSE) /\ At(p, CLOSE) \in Int /\ Day(cycle.from) = p
                /\ At(p, CLOSE) <= t /\ t < At(q, CLOSE) /\ started < At(p, CLOSE)
  <2>1. PICK p \in Trading, q \in Trading :
           /\ p < q /\ cycle.from = At(p, CLOSE) /\ cycle.to = At(q, CLOSE)
           /\ \A x \in Trading : x <= p \/ x >= q
    BY <1>2, SessionCycle
  <2>2. p \in Int /\ q \in Int /\ At(p, CLOSE) \in Int /\ At(q, CLOSE) \in Int
    BY <1>0 DEF At, CLOSE, DayLength
  <2>3. At(p, CLOSE) <= t /\ t < At(q, CLOSE)
    BY <2>1 DEF Tells, In
  <2>4. started < At(p, CLOSE)
    BY <1>0, <2>1, <2>2, <2>3 DEF In
  <2>5. Day(At(p, CLOSE)) = p
    BY <2>2 DEF Day, At, CLOSE, DayLength
  <2> QED
    BY <2>1, <2>2, <2>3, <2>4, <2>5
<1>3. CASE r = "postclose"
  <2>1. PICK p \in Trading : cycle.from = At(p, CLOSE) /\ Day(cycle.from) = p
    BY <1>2, <1>3
  <2>2. Day(t) = p /\ ExchangeDay(t) = p /\ Day(started) # p
    BY <1>3, <2>1 DEF Tells
  <2>3. DueLag[r] = POSTCLOSE_DUE_LAG
    BY <1>3 DEF DueLag
  <2>4. \E due \in Due(r, t) : t >= due
    BY <1>3, <2>1, <2>2, <2>3 DEF Tells, Due, TodaysClose
  <2> QED
    BY <1>3, <2>2, <2>4 DEF Overdue, RanToday, ChainedToClose
<1>4. CASE r \in ChainedToClose
  <2>1. PICK p \in Trading, q \in Trading :
           /\ p \in Int /\ q \in Int /\ \A x \in Trading : x <= p \/ x >= q
           /\ cycle.from = At(p, CLOSE) /\ At(p, CLOSE) \in Int /\ Day(cycle.from) = p
           /\ At(p, CLOSE) <= t /\ t < At(q, CLOSE) /\ started < At(p, CLOSE)
    BY <1>2, <1>4 DEF ChainedToClose
  <2> DEFINE closes == {At(d, CLOSE) : d \in {e \in Trading : e \in Day(t) - 11 .. Day(t)}}
             completed == {c \in closes : c <= t}
  <2>2. PrevSessionClose[t] = {c \in completed : \A other \in completed : other <= c}
    BY DEF PrevSessionClose
  <2>3. At(p, CLOSE) \in completed
    <3>1. Day(t) \in Int /\ Day(t) - p <= 11 /\ At(Day(t), 0) <= t /\ t < At(Day(t) + 1, 0)
      BY <1>0, <2>1, DayBounds DEF Tells
    <3>2. p <= Day(t)
      BY <1>0, <2>1, <3>1 DEF At, CLOSE, DayLength
    <3>3. p \in Day(t) - 11 .. Day(t)
      BY <2>1, <3>1, <3>2
    <3> QED
      BY <2>1, <3>3
  <2>4. \A other \in completed : other <= At(p, CLOSE)
    <3>1. SUFFICES ASSUME NEW e \in Trading, At(e, CLOSE) <= t PROVE At(e, CLOSE) <= At(p, CLOSE)
      OBVIOUS
    <3>2. e \in Int /\ (e <= p \/ e >= q)
      BY <1>0, <2>1
    <3> QED
      BY <1>0, <2>1, <3>1, <3>2 DEF At, CLOSE, DayLength
  <2>5. PrevSessionClose[t] = {At(p, CLOSE)}
    <3>1. \A c \in completed : c \in Int
      BY <1>0 DEF At, CLOSE, DayLength
    <3> HIDE DEF completed
    <3> QED
      BY <2>1, <2>2, <2>3, <2>4, <3>1
  <2>6. ~RanToday(r, started, t)
    BY <1>4, <2>1, <2>5 DEF RanToday
  <2>7. t >= At(p, CLOSE) + DueLag[r]
    BY <2>1 DEF Tells
  <2>8. \E due \in Due(r, t) : t >= due
    <3>1. CASE r = "postclose_reconcile"
      <4>1. DueLag[r] = RECONCILE_START_DUE_LAG
        BY <3>1 DEF DueLag
      <4> QED
        BY <2>5, <2>7, <3>1, <4>1 DEF Due
    <3>2. CASE r = "weekly_exercise"
      <4>1. DueLag[r] = RECONCILE_START_DUE_LAG + EXERCISE_LAUNCH_MARGIN
        BY <3>2 DEF DueLag
      <4>2. Due(r, t) = {At(p, CLOSE) + RECONCILE_START_DUE_LAG + EXERCISE_LAUNCH_MARGIN}
        BY <2>5, <3>2 DEF Due
      <4> QED
        BY <2>1, <2>7, <4>1, <4>2 DEF RECONCILE_START_DUE_LAG, EXERCISE_LAUNCH_MARGIN
    <3> QED
      BY <1>4, <3>1, <3>2 DEF ChainedToClose
  <2> QED
    BY <2>6, <2>8 DEF Overdue
<1> QED
  BY <1>1, <1>3, <1>4 DEF Row, ChainedToClose

\* What a page says at such an instant, if no run is there for the cycle.
Alarmed == {"overdue", "running", "NO_EXECUTIONS"}
Taken(cycle) == RunFor(cycle) \/ EarlyRunFor(cycle)

LEMMA AlarmRaised ==
    ASSUME TypeInv, Chronicle, NEW cycle \in Cycles[watched], Tells(watched, cycle, now), ~Taken(cycle)
    PROVE  Shown \in Alarmed
<1> DEFINE m == MachineOf(watched)
           own == Fresh(m, Scope(watched))
           run == hist[m][own.id]
<1>1. CASE own = NoRun
  BY <1>1 DEF Shown, Alarmed
<1>2. CASE own # NoRun
  <2>1. m \in Machine /\ hist[m] \in Seq(Run) /\ now \in Instants /\ now \in Int /\ watched \in Row
    BY DEF TypeInv, FleetTypeOK, PipelineTypeOK, WatchedMachine
  <2>2. own.id \in DOMAIN hist[m] /\ run.role \in Roles(m, Scope(watched))
    BY <1>2, <2>1, FreshWas DEF WasIn, TypeInv, FleetTypeOK
  <2>3. run \in OwnRuns /\ run \in Run
    BY <2>1, <2>2 DEF OwnRuns
  <2>4. run.at \in Int /\ run.at <= now
    BY <2>1, <2>2, <2>3 DEF Run, Chronicle, InOrder
  <2>5. ~In(cycle, run.at) /\ ~(watched = "postclose" /\ Day(run.at) = Day(cycle.from))
    BY <2>3 DEF Taken, RunFor, EarlyRunFor
  <2>6. Overdue(watched, run.at, now)
    <3> HIDE DEF run
    <3> QED
      BY <2>1, <2>4, <2>5, OldRunOverdue
  <2>7. TrueView.says = "RUN" /\ TrueView.snap = own
    BY <1>2, OwnShown
  <2>8. Says(watched, TrueView, now) \in {"running", "overdue"}
    BY <2>6, <2>7 DEF Says
  <2> QED
    BY <1>2, <2>8 DEF Shown, Alarmed
<1> QED
  BY <1>1, <1>2

\* The log has every instant that passed, and each that tells of a cycle either
\* raised the alarm or found a run for it.
Logged == \A t \in Instants : Opening <= t /\ t < now => t \in DOMAIN log
Watchful ==
    \A cycle \in Cycles[watched] : \A t \in DOMAIN log :
        Tells(watched, cycle, t) => Taken(cycle) \/ log[t] \in Alarmed

LEMMA TakenStays ==
    ASSUME TypeInv, HistGrows, UNCHANGED watched, NEW cycle, Taken(cycle)
    PROVE  Taken(cycle)'
<1> DEFINE m == MachineOf(watched)
<1>1. m \in Machine /\ Grows(hist[m], hist'[m])
  BY DEF HistGrows, TypeInv, WatchedMachine
<1>2. \A run \in OwnRuns : \E later \in OwnRuns' : later.at = run.at
  <2>1. SUFFICES ASSUME NEW i \in DOMAIN hist[m], hist[m][i].role \in Roles(m, Scope(watched))
                 PROVE  \E later \in OwnRuns' : later.at = hist[m][i].at
    BY DEF OwnRuns
  <2>2. /\ i \in DOMAIN hist'[m] /\ hist'[m][i].role = hist[m][i].role
        /\ hist'[m][i].at = hist[m][i].at
    BY <1>1, <2>1 DEF Grows
  <2>3. hist'[m][i] \in OwnRuns'
    BY <2>1, <2>2 DEF OwnRuns
  <2> QED
    BY <2>2, <2>3
<1> HIDE DEF m
<1> QED
  BY <1>2 DEF Taken, RunFor, EarlyRunFor

LEMMA StepWatchful ==
    ASSUME TypeInv, Chronicle, Logged, Watchful, [FleetNext]_fleet
    PROVE  Logged' /\ Watchful'
<1>1. HistGrows
  BY HistoryGrows
<1>2. UNCHANGED watched
  <2>1. PipelineNext => UNCHANGED watched
    BY PipelineStepTyped
  <2> QED
    BY <2>1 DEF FleetNext, Tick, fleet, pipelines
<1>3. \A cycle : Taken(cycle) => Taken(cycle)'
  BY <1>1, <1>2, TakenStays
<1>4. CASE UNCHANGED <<now, log>>
  BY <1>2, <1>3, <1>4 DEF Logged, Watchful
<1>5. CASE Tick
  <2>1. /\ now' \in Instants /\ now < now' /\ \A other \in Instants : other > now => now' <= other
        /\ log' = [t \in DOMAIN log \cup {now} |-> IF t = now THEN Shown ELSE log[t]]
    BY <1>5 DEF Tick
  <2>2. Logged'
    <3>1. SUFFICES ASSUME NEW t \in Instants, Opening <= t, t < now' PROVE t \in DOMAIN log \cup {now}
      BY <2>1 DEF Logged
    <3>2. t \in Int /\ now \in Int /\ now' \in Int
      BY <2>1, CalendarAssumption DEF CalendarAssumption, TypeInv, FleetTypeOK, PipelineTypeOK
    <3>3. ~(t > now)
      BY <2>1, <3>1, <3>2
    <3> QED
      BY <3>1, <3>2, <3>3 DEF Logged
  <2>3. Watchful'
    <3>1. SUFFICES ASSUME NEW cycle \in Cycles[watched], NEW t \in DOMAIN log \cup {now},
                          Tells(watched, cycle, t), ~Taken(cycle)'
                   PROVE  log'[t] \in Alarmed
      BY <1>2, <2>1 DEF Watchful
    <3>2. ~Taken(cycle)
      BY <1>3, <3>1
    <3>3. CASE t = now
      BY <2>1, <3>1, <3>2, <3>3, AlarmRaised
    <3>4. CASE t # now
      BY <2>1, <3>1, <3>2, <3>4 DEF Watchful
    <3> QED
      BY <3>3, <3>4
  <2> QED
    BY <2>2, <2>3
<1>6. PipelineNext /\ UNCHANGED log => UNCHANGED <<now, log>>
  BY PipelineStepTyped
<1> QED
  BY <1>4, <1>5, <1>6 DEF FleetNext, fleet, pipelines

LEMMA CycleIsLong ==
    ASSUME TypeInv, Logged, Watchful
    PROVE  MissedIsSeen
<1>1. SUFFICES ASSUME NEW cycle \in Cycles[watched], cycle.from >= Opening, cycle.to <= now,
                      ~Taken(cycle)
               PROVE  \E t \in DOMAIN log : /\ In(cycle, t) /\ Day(t) = ExchangeDay(t)
                                            /\ log[t] \in Alarmed
  BY DEF MissedIsSeen, Taken, Alarmed
<1>2. watched \in Row /\ now \in Instants /\ Instants \subseteq Int /\ Opening \in Int
  BY CalendarAssumption, PipelineAssumption
     DEF CalendarAssumption, PipelineAssumption, TypeInv, FleetTypeOK, PipelineTypeOK
<1>3. PICK t \in Instants : Tells(watched, cycle, t)
  BY <1>1, <1>2, ClockAssumption DEF ClockAssumption
<1>4. cycle.from <= t /\ t < cycle.to /\ Day(t) = ExchangeDay(t)
  BY <1>3 DEF Tells, In
<1>5. cycle.from \in Int /\ cycle.to \in Int
  BY <1>2, CycleBounds
<1>6. Opening <= t /\ t < now
  BY <1>1, <1>2, <1>4, <1>5
<1>7. t \in DOMAIN log
  BY <1>6 DEF Logged
<1> QED
  BY <1>1, <1>3, <1>4, <1>7 DEF Watchful, In

\* A cycle nobody started does not pass in silence, for any calendar whose cycles
\* each have an instant that tells of them.
THEOREM MissedCyclesSeen == FleetSpec => []MissedIsSeen
<1>1. FleetInit => TypeInv /\ Chronicle /\ Logged /\ Watchful
  <2>1. FleetInit => Logged /\ Watchful
    <3>1. SUFFICES ASSUME FleetInit PROVE Logged /\ Watchful
      OBVIOUS
    <3>2. now = Opening /\ DOMAIN log = {} /\ Opening \in Int /\ Instants \subseteq Int
      BY <3>1, CalendarAssumption, PipelineAssumption
         DEF FleetInit, PipelineInit, CalendarAssumption, PipelineAssumption
    <3> QED
      BY <3>2 DEF Logged, Watchful
  <2> QED
    BY <2>1, InitTyped, InitInOrder
<1>2. TypeInv /\ Chronicle /\ Logged /\ Watchful /\ [FleetNext]_fleet
        => (TypeInv /\ Chronicle /\ Logged /\ Watchful)'
  BY StepTyped, StepInOrder, StepWatchful
<1>3. TypeInv /\ Logged /\ Watchful => MissedIsSeen
  BY CycleIsLong
<1> QED
  BY <1>1, <1>2, <1>3, PTL DEF FleetSpec
=============================================================================
