------------------------- MODULE PipelineStatus_proofs -------------------------
(***************************************************************************)
(* What the pipeline loader keeps, for every set of machines, sessions,    *)
(* executions and events and for every calendar: types, the last-good      *)
(* object as LastGood specifies it, what a refresh publishes, and the      *)
(* exercise row.                                                           *)
(***************************************************************************)
EXTENDS FleetStatus, TLAPS, FiniteSetTheorems, WellFoundedInduction

-----------------------------------------------------------------------------
\* The values the definitions start from are typed.
LEMMA Values ==
    /\ NoRun \in Snapshot /\ Empty \in [Machine -> Snapshot]
    /\ NoMemo \in [Machine -> [Kind -> Snapshot]]
    /\ Nothing \in [Session -> [Machine -> Snapshot]]
    /\ NotFetched \in [got : BOOLEAN, runs : [Machine -> Snapshot]]
    /\ Unseen \in View
<1>1. NoRun \in Snapshot
  BY DEF NoRun, Snapshot
<1>2. Empty \in [Machine -> Snapshot]
  BY <1>1 DEF Empty
<1> QED
  BY <1>1, <1>2 DEF NoMemo, Nothing, NotFetched, Unseen, View, Verdict

LEMMA RowsHaveMachines ==
    ASSUME PipelineInit
    PROVE  watched \in Row /\ MachineOf(watched) \in Machine /\ budget \in [Event -> Nat]
BY PipelineAssumption DEF PipelineAssumption, PipelineInit

\* A snapshot taken of an execution of a machine.
LEMMA FreshTyped ==
    ASSUME PipelineTypeOK, NEW m \in Machine, NEW k
    PROVE  Fresh(m, k) \in Snapshot
<1>1. CASE Newest(m, k) = {}
  BY <1>1, Values DEF Fresh
<1>2. CASE Newest(m, k) # {}
  <2>1. PICK i \in Newest(m, k) : i = (CHOOSE j \in Newest(m, k) : TRUE)
    BY <1>2
  <2>2. i \in Nat
    <3>1. i \in DOMAIN hist[m]
      BY <2>1 DEF Newest, Matching
    <3>2. hist[m] \in Seq(Run)
      BY DEF PipelineTypeOK
    <3> QED
      BY <3>1, <3>2
  <2>3. Fresh(m, k) = [id |-> i, ended |-> hist[m][i].status # "RUNNING"]
    BY <1>2, <2>1 DEF Fresh, SnapshotOf
  <2> QED
    BY <2>2, <2>3 DEF Snapshot
<1> QED
  BY <1>1, <1>2

LEMMA SpendTyped ==
    ASSUME budget \in [Event -> Nat], NEW e \in Event, Spend(e)
    PROVE  budget' \in [Event -> Nat]
BY DEF Spend

\* What a read of the fleet page leaves, whichever of its calls fail.
LEMMA LoadTyped ==
    ASSUME PipelineTypeOK, NEW m \in Machine, NEW k \in Kind, NEW failed
    PROVE  /\ Known(m, k) \in Snapshot
           /\ LastGoodObject(failed) \in [Machine -> Snapshot]
           /\ Loaded(m, k, failed).snap \in Snapshot
<1>1. "any" \in Kind
  BY DEF Kind
<1>2. Known(m, k) \in Snapshot /\ Known(m, "any") \in Snapshot
  <2>1. Fresh(m, k) \in Snapshot /\ Fresh(m, "any") \in Snapshot
    BY FreshTyped
  <2> QED
    BY <1>1, <2>1 DEF Known, PipelineTypeOK
<1>3. LastGoodObject(failed) \in [Machine -> Snapshot]
  BY Values DEF LastGoodObject, PipelineTypeOK
<1>4. LastGoodObject(failed)[m] \in Snapshot
  BY <1>3
<1>5. NoRun \in Snapshot
  BY Values
<1> QED
  BY <1>2, <1>3, <1>4, <1>5 DEF Loaded

LEMMA VerdictTyped ==
    ASSUME NEW m, NEW snap, NEW failed
    PROVE  CycleVerdict(m, snap, failed) \in Verdict
BY DEF CycleVerdict, ZeroArtifactVerdict, Verdict

LEMMA CondensedTyped ==
    ASSUME NEW r, NEW load, NEW failed, load.snap \in Snapshot
    PROVE  Condensed(r, load, failed) \in View
<1>1. CycleVerdict(MachineOf(r), load.snap, failed) \in Verdict
  BY VerdictTyped
<1>2. "NONE" \in Verdict /\ NoRun \in Snapshot
  BY Values DEF Verdict
<1> QED
  BY <1>1, <1>2 DEF Condensed, CondensedForAnyRow, View

\* Snapshots of one machine are ordered as what they show happened, and among
\* those a refresh may meet there is an oldest.
Rank(x) == 2 * x.id + (IF x.ended THEN 1 ELSE 0)

LEMMA LeastOf ==
    ASSUME NEW T, T \subseteq Nat, T # {}
    PROVE  \E r \in T : \A q \in T : r <= q
<1> DEFINE less == OpToRel(<, Nat)
<1>1. \A q, r \in Nat : <<q, r>> \in less <=> q < r
  BY DEF OpToRel
<1> HIDE DEF less
<1>2. IsWellFoundedOn(less, Nat)
  BY NatLessThanWellFounded DEF less
<1>3. PICK r \in T : \A q \in T : <<q, r>> \notin less
  BY <1>2, WFMin, Zenon
<1>4. ASSUME NEW q \in T PROVE r <= q
  <2>1. q \in Nat /\ r \in Nat
    OBVIOUS
  <2>2. ~(q < r)
    BY <1>1, <1>3, <2>1, Zenon
  <2> QED
    BY <2>1, <2>2
<1> QED
  BY <1>4

LEMMA OldestTaken ==
    ASSUME NEW m, Pending(m) \subseteq Snapshot
    PROVE  Oldest(m) \in Pending(m) /\ \A y \in Pending(m) : ~Older(y, Oldest(m))
<1>1. \A x \in Snapshot : Rank(x) \in Nat
  BY DEF Rank, Snapshot
<1>2. \A x, y \in Snapshot : Older(x, y) => Rank(x) < Rank(y)
  BY DEF Older, Rank, Snapshot
<1> DEFINE ranks == {Rank(x) : x \in Pending(m)}
<1>3. ranks \subseteq Nat /\ ranks # {}
  BY <1>1 DEF Pending
<1>4. PICK r \in ranks : \A q \in ranks : r <= q
  BY <1>3, LeastOf, Zenon
<1>5. PICK x \in Pending(m) : r = Rank(x)
  BY <1>4
<1>6. \A y \in Pending(m) : ~Older(y, x)
  <2>1. SUFFICES ASSUME NEW y \in Pending(m), Older(y, x) PROVE FALSE
    OBVIOUS
  <2>2. Rank(y) < Rank(x) /\ Rank(x) <= Rank(y) /\ Rank(x) \in Nat /\ Rank(y) \in Nat
    BY <1>1, <1>2, <1>4, <1>5, <2>1
  <2> QED
    BY <2>2
<1> QED
  BY <1>5, <1>6 DEF Oldest

\* No step leaves the types: the constants on the machine of the watched row.
WatchedMachine == MachineOf(watched) \in Machine
InPoll == \A s \in Session : asked[s] # Empty => pc[s] <= Len(SfOrder)
TypeInv == FleetTypeOK /\ WatchedMachine /\ InPoll

LEMMA StartTyped ==
    ASSUME TypeInv, NEW role \in Role, Start(role)
    PROVE  PipelineTypeOK'
<1> DEFINE m == MachineOf(watched)
           run == [role |-> role, at |-> now, status |-> "RUNNING",
                   produced |-> 0, total |-> 0, work |-> "INCOMPLETE"]
<1>1. m \in Machine /\ hist[m] \in Seq(Run)
  BY DEF TypeInv, FleetTypeOK, PipelineTypeOK, WatchedMachine
<1>2. run \in Run
  BY DEF TypeInv, FleetTypeOK, PipelineTypeOK, Run, Work
<1>3. hist' = [hist EXCEPT ![m] = Append(hist[m], run)]
  BY DEF Start
<1>4. hist' \in [Machine -> Seq(Run)]
  BY <1>1, <1>2, <1>3 DEF TypeInv, FleetTypeOK, PipelineTypeOK
<1>5. budget' \in [Event -> Nat]
  BY SpendTyped DEF Start, Event, TypeInv, FleetTypeOK, PipelineTypeOK
<1> QED
  BY <1>4, <1>5 DEF Start, sessions, TypeInv, FleetTypeOK, PipelineTypeOK

LEMMA EndTyped ==
    ASSUME TypeInv, NEW i, NEW e \in Ending, End(i, e)
    PROVE  PipelineTypeOK'
<1> DEFINE m == MachineOf(watched)
           run == [role |-> hist[m][i].role, at |-> hist[m][i].at, status |-> e.status,
                   produced |-> e.produced, total |-> e.total, work |-> e.work]
<1>1. m \in Machine /\ hist[m] \in Seq(Run) /\ i \in DOMAIN hist[m]
  BY DEF TypeInv, FleetTypeOK, PipelineTypeOK, WatchedMachine, End
<1>2. hist[m][i] \in Run
  BY <1>1
<1>3. run \in Run
  BY <1>2, PipelineAssumption DEF PipelineAssumption, Run
<1>4. hist' = [hist EXCEPT ![m] = [hist[m] EXCEPT ![i] = run]]
  BY DEF End
<1>5. [hist[m] EXCEPT ![i] = run] \in Seq(Run)
  BY <1>1, <1>3
<1>6. hist' \in [Machine -> Seq(Run)]
  BY <1>1, <1>4, <1>5 DEF TypeInv, FleetTypeOK, PipelineTypeOK
<1> QED
  BY <1>6 DEF End, sessions, TypeInv, FleetTypeOK, PipelineTypeOK

LEMMA FewFaults ==
    ASSUME NEW a, NEW failed \in SUBSET {a, "any", "s3", "work"}
    PROVE  Cardinality(failed) \in Nat
<1>1. IsFiniteSet({a})
  BY FS_Singleton
<1>2. IsFiniteSet({a} \cup {"any"})
  BY <1>1, FS_AddElement
<1>3. IsFiniteSet(({a} \cup {"any"}) \cup {"s3"})
  BY <1>2, FS_AddElement
<1>4. IsFiniteSet((({a} \cup {"any"}) \cup {"s3"}) \cup {"work"})
  BY <1>3, FS_AddElement
<1>5. failed \subseteq ((({a} \cup {"any"}) \cup {"s3"}) \cup {"work"})
  OBVIOUS
<1>6. IsFiniteSet(failed)
  BY <1>4, <1>5, FS_Subset
<1> QED
  BY <1>6, FS_CardinalityType

LEMMA RenderTyped ==
    ASSUME TypeInv, NEW failed \in SUBSET {Scope(watched), "any", "s3", "work"}, RenderWhen(failed)
    PROVE  PipelineTypeOK'
<1> DEFINE m == MachineOf(watched)
           k == Scope(watched)
           load == Loaded(m, k, failed)
<1>1. m \in Machine /\ k \in Kind /\ "any" \in Kind /\ PipelineTypeOK
  BY DEF TypeInv, FleetTypeOK, WatchedMachine, Scope, Kind
<1>2. Known(m, k) \in Snapshot /\ LastGoodObject(failed) \in [Machine -> Snapshot] /\ load.snap \in Snapshot
  BY <1>1, LoadTyped
<1>3. view' \in View
  BY <1>2, CondensedTyped DEF RenderWhen
<1>4. memo' \in [Machine -> [Kind -> Snapshot]]
  <2> DEFINE read == IF k \in failed THEN memo[m][k] ELSE Known(m, k)
             kept == [memo EXCEPT ![m][k] = read]
             fallback == IF load.outcome = "LIVE_ROLE_FALLBACK" THEN load.snap ELSE memo[m]["any"]
  <2>1. memo \in [Machine -> [Kind -> Snapshot]]
    BY <1>1 DEF PipelineTypeOK
  <2>2. read \in Snapshot
    BY <1>1, <1>2, <2>1
  <2>3. kept \in [Machine -> [Kind -> Snapshot]]
    BY <1>1, <2>1, <2>2
  <2>4. fallback \in Snapshot
    BY <1>1, <1>2, <2>1
  <2>5. memo' = [kept EXCEPT ![m]["any"] = fallback]
    <3>1. PICK l \in {load} :
             memo' = [memo EXCEPT ![m][k] = IF k \in failed THEN @ ELSE Known(m, k),
                                  ![m]["any"] = IF l.outcome = "LIVE_ROLE_FALLBACK" THEN l.snap ELSE memo[m]["any"]]
      BY Zenon DEF RenderWhen
    <3>2. l = load
      OBVIOUS
    <3> HIDE DEF load
    <3> QED
      BY <3>1, <3>2
  <2> HIDE DEF kept, fallback
  <2> QED
    BY <1>1, <2>3, <2>4, <2>5
<1>5. s3memo' \in [got : BOOLEAN, runs : [Machine -> Snapshot]]
  BY <1>1, <1>2 DEF RenderWhen, PipelineTypeOK
<1>6. budget' \in [Event -> Nat]
  <2>1. Cardinality(failed) \in Nat
    BY FewFaults
  <2>2. budget \in [Event -> Nat] /\ "fault" \in Event
    BY <1>1 DEF PipelineTypeOK, Event
  <2>3. /\ Cardinality(failed) <= budget["fault"]
        /\ budget' = [budget EXCEPT !["fault"] = @ - Cardinality(failed)]
    BY DEF RenderWhen
  <2> QED
    BY <2>1, <2>2, <2>3
<1> QED
  BY <1>1, <1>3, <1>4, <1>5, <1>6 DEF RenderWhen, sessions, PipelineTypeOK

\* A session's own steps.
LEMMA SessionTyped ==
    ASSUME TypeInv, NEW s \in Session, NEW m \in Machine,
           Press(s) \/ WriteLastGood(s) \/ Ask(s, m) \/ Answered(s, m) \/ Memoised(s, m) \/ LeftOut(s, m)
    PROVE  PipelineTypeOK'
<1> USE DEF PipelineTypeOK, sessions
<1>1. PipelineTypeOK /\ "canonical" \in Kind /\ PollScope = "canonical" /\ Len(SfOrder) \in Nat
  BY PipelineAssumption DEF TypeInv, FleetTypeOK, Kind, PollScope, PipelineAssumption
<1>2. \A x \in Machine : Fresh(x, "canonical") \in Snapshot
  BY <1>1, FreshTyped
<1>3. \A e \in Event : Spend(e) => budget' \in [Event -> Nat]
  BY <1>1, SpendTyped
<1>4. \A e : e \in {"press", "visit", "fault"} => e \in Event
  BY DEF Event
<1>5. CASE Press(s)
  <2>1. \A x \in Machine : Oldest(x) \in Snapshot
    <3>1. SUFFICES ASSUME NEW x \in Machine PROVE Oldest(x) \in Snapshot
      OBVIOUS
    <3>2. Pending(x) \subseteq Snapshot /\ Fresh(x, "canonical") \in Pending(x)
      BY <1>1, <1>2 DEF Pending
    <3> QED
      BY <3>2, OldestTaken
  <2>2. floor' \in [Session -> [Machine -> Snapshot]]
    BY <1>1, <1>5, <2>1 DEF Press
  <2>3. memo' \in [Machine -> [Kind -> Snapshot]]
    BY <1>5, Values DEF Press, Cleared
  <2>4. budget' \in [Event -> Nat]
    BY <1>3, <1>4, <1>5 DEF Press
  <2> QED
    BY <1>1, <1>5, <2>2, <2>3, <2>4 DEF Press
<1>6. CASE WriteLastGood(s)
  <2>1. budget' \in [Event -> Nat]
    BY <1>1, <1>3, <1>4, <1>6 DEF WriteLastGood
  <2>2. object' \in [Machine -> Snapshot]
    BY <1>1, <1>6 DEF WriteLastGood, Put
  <2> QED
    BY <1>1, <1>6, <2>1, <2>2, Values DEF WriteLastGood
<1>7. CASE Ask(s, m)
  <2>1. budget' \in [Event -> Nat]
    BY <1>1, <1>3, <1>4, <1>7 DEF Ask
  <2> QED
    BY <1>1, <1>2, <1>7, <2>1 DEF Ask
<1>8. CASE Answered(s, m)
  <2>0. pc[s] \in 0 .. Len(SfOrder)
    <3>1. asked[s] # Empty
      BY <1>8 DEF Answered, Empty
    <3> QED
      BY <1>1, <3>1 DEF TypeInv, InPoll
  <2>1. asked[s][m] \in Snapshot /\ Empty \in [Machine -> Snapshot]
    BY <1>1, Values
  <2>2. memo' \in [Machine -> [Kind -> Snapshot]] /\ asked' \in [Session -> [Machine -> Snapshot]]
    BY <1>1, <1>8, <2>1 DEF Answered
  <2>3. pc' \in [Session -> 0 .. Len(SfOrder) + 1] /\ good' \in [Session -> [Machine -> Snapshot]]
    <3>1. CASE pc[s] = 0
      BY <1>1, <1>8, <3>1 DEF Answered
    <3>2. CASE pc[s] # 0
      <4>1. pc' = [pc EXCEPT ![s] = @ + 1] /\ good' = [good EXCEPT ![s][m] = asked[s][m]]
        BY <1>8, <3>2 DEF Answered
      <4> QED
        BY <1>1, <2>0, <2>1, <4>1
    <3> QED
      BY <3>1, <3>2
  <2> QED
    BY <1>1, <1>8, <2>2, <2>3 DEF Answered
<1>9. CASE Memoised(s, m)
  BY <1>1, <1>9 DEF Memoised, Polls
<1>10. CASE LeftOut(s, m)
  <2>0. pc[s] \in 0 .. Len(SfOrder)
    <3>1. Polls(s, m) \/ asked[s] # Empty
      BY <1>10 DEF LeftOut, Empty
    <3> QED
      BY <1>1, <3>1 DEF Polls, TypeInv, InPoll
  <2>1. budget' \in [Event -> Nat]
    BY <1>1, <1>3, <1>4, <1>10 DEF LeftOut
  <2>2. Empty \in [Machine -> Snapshot]
    BY Values
  <2> QED
    BY <1>1, <1>10, <2>1, <2>2, <2>0 DEF LeftOut, Polls
<1> QED
  BY <1>5, <1>6, <1>7, <1>8, <1>9, <1>10

\* The steps of a fleet page and a refresh, one by one.
LEMMA StepsOf ==
    ASSUME TypeInv, PipelineNext
    PROVE  \/ \E role \in Role : Start(role)
           \/ \E i \in 1 .. MaxRuns, e \in Ending : End(i, e)
           \/ \E failed \in SUBSET {Scope(watched), "any", "s3", "work"} : RenderWhen(failed)
           \/ S3MemoExpires \/ Restart
           \/ \E m \in Machine, k \in Kind : MemoExpires(m, k)
           \/ \E s \in Session, m \in Machine :
                 \/ Press(s) \/ WriteLastGood(s) \/ Ask(s, m)
                 \/ Answered(s, m) \/ Memoised(s, m) \/ LeftOut(s, m)
<1>1. Started[MachineOf(watched)] \subseteq Role
  BY PipelineAssumption DEF PipelineAssumption, TypeInv, WatchedMachine
<1> QED
  BY <1>1, Zenon DEF PipelineNext, Render, TypeInv, WatchedMachine

LEMMA PipelineStepTyped ==
    ASSUME TypeInv, PipelineNext
    PROVE  PipelineTypeOK' /\ UNCHANGED <<now, watched>>
<1>1. ASSUME NEW role \in Role, Start(role) PROVE PipelineTypeOK' /\ UNCHANGED <<now, watched>>
  BY <1>1, StartTyped DEF Start
<1>2. ASSUME NEW i, NEW e \in Ending, End(i, e) PROVE PipelineTypeOK' /\ UNCHANGED <<now, watched>>
  BY <1>2, EndTyped DEF End
<1>3. ASSUME NEW failed \in SUBSET {Scope(watched), "any", "s3", "work"}, RenderWhen(failed)
      PROVE  PipelineTypeOK' /\ UNCHANGED <<now, watched>>
  BY <1>3, RenderTyped DEF RenderWhen
<1>4. CASE S3MemoExpires
  BY <1>4, Values DEF S3MemoExpires, sessions, TypeInv, FleetTypeOK, PipelineTypeOK
<1>5. CASE Restart
  <2>1. budget' \in [Event -> Nat]
    BY <1>5, SpendTyped DEF Restart, Event, TypeInv, FleetTypeOK, PipelineTypeOK
  <2>2. pc' \in [Session -> 0 .. Len(SfOrder) + 1]
    BY <1>5, PipelineAssumption DEF Restart, PipelineAssumption
  <2> QED
    BY <1>5, <2>1, <2>2, Values DEF Restart, TypeInv, FleetTypeOK, PipelineTypeOK
<1>6. ASSUME NEW m \in Machine, NEW k \in Kind, MemoExpires(m, k)
      PROVE  PipelineTypeOK' /\ UNCHANGED <<now, watched>>
  BY <1>6, Values DEF MemoExpires, sessions, TypeInv, FleetTypeOK, PipelineTypeOK
<1>7. ASSUME NEW s \in Session, NEW m \in Machine,
             Press(s) \/ WriteLastGood(s) \/ Ask(s, m) \/ Answered(s, m) \/ Memoised(s, m) \/ LeftOut(s, m)
      PROVE  PipelineTypeOK' /\ UNCHANGED <<now, watched>>
  BY <1>7, SessionTyped DEF Press, WriteLastGood, Ask, Answered, Memoised, LeftOut
<1> QED
  BY StepsOf, <1>1, <1>2, <1>3, <1>4, <1>5, <1>6, <1>7, Zenon

\* A call is in flight only while its session polls, or looks at page 25.
LEMMA InPollKept ==
    ASSUME TypeInv, PipelineNext
    PROVE  InPoll'
<1> USE DEF TypeInv, FleetTypeOK, PipelineTypeOK, InPoll
<1>0. Len(SfOrder) \in Nat
  BY PipelineAssumption DEF PipelineAssumption
<1>1. CASE UNCHANGED <<asked, pc>>
  BY <1>1
<1>2. CASE Restart
  <2>1. \A s \in Session : asked'[s] = Empty
    BY <1>2 DEF Restart, Nothing
  <2> QED
    BY <2>1
<1>3. ASSUME NEW s \in Session, NEW m \in Machine,
             Press(s) \/ WriteLastGood(s) \/ Ask(s, m) \/ Answered(s, m) \/ Memoised(s, m) \/ LeftOut(s, m)
      PROVE  InPoll'
  <2>1. \A r \in Session \ {s} : asked'[r] = asked[r] /\ pc'[r] = pc[r]
    BY <1>3 DEF Press, WriteLastGood, Ask, Answered, Memoised, LeftOut
  <2>2. asked'[s] # Empty => pc'[s] <= Len(SfOrder)
    <3>1. CASE Press(s)
      BY <3>1 DEF Press
    <3>2. CASE WriteLastGood(s)
      BY <1>0, <3>2 DEF WriteLastGood
    <3>3. CASE Ask(s, m)
      BY <1>0, <3>3 DEF Ask, Polls
    <3>4. CASE Answered(s, m)
      BY <3>4 DEF Answered
    <3>5. CASE Memoised(s, m)
      BY <3>5 DEF Memoised, Polls
    <3>6. CASE LeftOut(s, m)
      BY <3>6 DEF LeftOut
    <3> QED
      BY <1>3, <3>1, <3>2, <3>3, <3>4, <3>5, <3>6
  <2> QED
    BY <2>1, <2>2
<1>4. ASSUME NEW role \in Role, Start(role) PROVE UNCHANGED <<asked, pc>>
  BY <1>4 DEF Start, sessions
<1>5. ASSUME NEW i, NEW e \in Ending, End(i, e) PROVE UNCHANGED <<asked, pc>>
  BY <1>5 DEF End, sessions
<1>6. ASSUME NEW failed, RenderWhen(failed) PROVE UNCHANGED <<asked, pc>>
  BY <1>6 DEF RenderWhen, sessions
<1>7. S3MemoExpires => UNCHANGED <<asked, pc>>
  BY DEF S3MemoExpires, sessions
<1>8. ASSUME NEW m, NEW k, MemoExpires(m, k) PROVE UNCHANGED <<asked, pc>>
  BY <1>8 DEF MemoExpires, sessions
<1> QED
  BY StepsOf, <1>1, <1>2, <1>3, <1>4, <1>5, <1>6, <1>7, <1>8, Zenon

LEMMA TickTyped ==
    ASSUME TypeInv, Tick
    PROVE  TypeInv'
<1> USE DEF TypeInv, FleetTypeOK, PipelineTypeOK
<1>1. budget' \in [Event -> Nat]
  BY SpendTyped DEF Tick, Event
<1>2. now' \in Instants /\ now' \in Int /\ DOMAIN log' \subseteq Instants
  BY CalendarAssumption DEF Tick, CalendarAssumption
<1>3. UNCHANGED <<watched, hist, object, pc, asked, good, floor, view>>
  BY DEF Tick, sessions
<1>4. memo' \in [Machine -> [Kind -> Snapshot]] /\ s3memo' \in [got : BOOLEAN, runs : [Machine -> Snapshot]]
  BY Values DEF Tick
<1> QED
  BY <1>1, <1>2, <1>3, <1>4 DEF WatchedMachine, InPoll

LEMMA InitTyped == FleetInit => TypeInv
<1> SUFFICES ASSUME FleetInit PROVE TypeInv
  OBVIOUS
<1> USE DEF FleetInit, PipelineInit
<1>1. watched \in Row /\ MachineOf(watched) \in Machine /\ budget \in [Event -> Nat]
  BY RowsHaveMachines
<1>2. now \in Int /\ now \in Instants /\ Len(SfOrder) \in Nat
  BY PipelineAssumption, CalendarAssumption DEF PipelineAssumption, CalendarAssumption
<1>3. hist \in [Machine -> Seq(Run)]
  BY PipelineAssumption DEF PipelineAssumption
<1>4. pc \in [Session -> 0 .. Len(SfOrder) + 1] /\ InPoll
  BY <1>2 DEF InPoll, Nothing
<1>5. DOMAIN log \subseteq Instants
  OBVIOUS
<1> QED
  BY <1>1, <1>2, <1>3, <1>4, <1>5, Values DEF TypeInv, FleetTypeOK, PipelineTypeOK, WatchedMachine

LEMMA StepTyped ==
    ASSUME TypeInv, [FleetNext]_fleet
    PROVE  TypeInv'
<1>1. CASE PipelineNext /\ UNCHANGED log
  BY <1>1, PipelineStepTyped, InPollKept DEF TypeInv, FleetTypeOK, WatchedMachine
<1>2. CASE Tick
  BY <1>2, TickTyped
<1>3. CASE UNCHANGED fleet
  BY <1>3 DEF fleet, pipelines, TypeInv, FleetTypeOK, PipelineTypeOK, WatchedMachine, InPoll
<1> QED
  BY <1>1, <1>2, <1>3 DEF FleetNext

\* Every memo, object and view of the pipeline loader has its type, for any
\* machines, sessions and executions.
THEOREM FleetTypes == FleetSpec => []FleetTypeOK
<1>1. FleetSpec => []TypeInv
  BY InitTyped, StepTyped, PTL DEF FleetSpec
<1>2. TypeInv => FleetTypeOK
  BY DEF TypeInv
<1> QED
  BY <1>1, <1>2, PTL
=============================================================================
