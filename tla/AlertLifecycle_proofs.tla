------------------------ MODULE AlertLifecycle_proofs ------------------------
(***************************************************************************)
(* Proofs about AlertLifecycle for every set of units and findings, every  *)
(* number of samples, runs and key lines, and every budget of events.      *)
(***************************************************************************)
EXTENDS AlertLifecycle, FiniteSetTheorems, TLAPS

USE AlertAssumption, NoPageAssumption DEF AlertAssumption

\* A sample that has not ended leaves one to take, and a page is only deferred
\* when there is one.
PhaseOK ==
    /\ phase = "sample" => taken < Attempts
    /\ phase = "deferred" => now["warning"] # NoPage

\* The type invariant with its sets in full.
PageKey == (Unit \X Finding) \cup (Tier \X SUBSET Problem)

Rows ==
    {rows \in [Subject -> Page \cup {NoPage}] :
        /\ \A u \in Unit : rows[u] # NoPage => rows[u].key \in Finding /\ rows[u].lines \subseteq Finding
        /\ \A t \in Tier : rows[t] # NoPage => rows[t].key \subseteq rows[t].lines /\ rows[t].lines \subseteq Problem}

Typed ==
    /\ unit \in [Unit -> [active : BOOLEAN, result : Result \cup {"success"},
                          run : 0 .. MaxRun, driver : Label]]
    /\ problem \subseteq Problem /\ budget \in [Event -> Nat]
    /\ phase \in {"idle", "sample", "units", "clear", "deferred", "fallback", "write"}
    /\ toRead \subseteq Unit
    /\ reading \in Read \cup {NoPage}
    /\ sample \in [Unit -> Finding \cup {NoPage}] /\ found \in [Unit -> Finding \cup {NoPage}]
    /\ taken \in 0 .. Attempts /\ others \subseteq Problem
    /\ now \in Rows /\ prior \in Rows
    /\ due \subseteq Subject /\ queued \subseteq {"warning"} /\ cleared \subseteq Subject
    /\ unpublished \in Nat /\ unalerted \in Nat /\ torn \in BOOLEAN
    /\ sent \subseteq PageKey /\ open \subseteq PageKey
    /\ seen \in [Unit -> SUBSET ((Result \cup {"success"}) \X Label)]
    /\ decay \in [Unit -> {"kept", "published", "unseen"}]
    /\ phase = "idle" => now = Clean /\ due = {} /\ queued = {} /\ reading = NoPage

TypeInv == Typed /\ PhaseOK

-----------------------------------------------------------------------------
\* Spending one event leaves a number of each.
LEMMA SpendType ==
    ASSUME budget \in [Event -> Nat], NEW e \in Event, Spend(e)
    PROVE  budget' \in [Event -> Nat]
BY DEF Spend

\* Every unit and every tier is a subject, and no unit is a tier.
LEMMA Subjects ==
    /\ Unit \subseteq Subject /\ Tier \subseteq Subject
    /\ "critical" \in Tier /\ "warning" \in Tier
    /\ \A u \in Unit : u # "critical" /\ u # "warning"
BY DEF Subject, Tier

\* The rows of a file have pages, and those of a unit have findings.
LEMMA RowsType ==
    ASSUME NEW rows \in Rows
    PROVE  /\ \A s \in Subject : rows[s] # NoPage => rows[s].key \in Finding \cup SUBSET Problem
           /\ \A u \in Unit : rows[u] # NoPage =>
                 rows[u].key \in Finding /\ rows[u].lines \subseteq Finding
           /\ \A t \in Tier : rows[t] # NoPage =>
                 rows[t].key \subseteq Problem /\ rows[t].lines \subseteq Problem
<1>1. rows \in [Subject -> Page \cup {NoPage}]
  BY DEF Rows
<1>2. \A s \in Subject : rows[s] # NoPage => rows[s].key \in Finding \cup SUBSET Problem
  BY <1>1 DEF Page
<1>3. \A u \in Unit : rows[u] # NoPage => rows[u].key \in Finding /\ rows[u].lines \subseteq Finding
  BY DEF Rows
<1>4. \A t \in Tier : rows[t] # NoPage =>
         rows[t].key \subseteq Problem /\ rows[t].lines \subseteq Problem
  BY DEF Rows
<1> QED
  BY <1>2, <1>3, <1>4

\* The empty file is one.
LEMMA CleanRows == Clean \in Rows
<1>1. Clean \in [Subject -> Page \cup {NoPage}]
  BY DEF Clean
<1>2. \A s \in Subject : Clean[s] = NoPage
  BY DEF Clean
<1> QED
  BY <1>1, <1>2, Subjects DEF Rows

\* Writing down a unit's page keeps a file one.
LEMMA UnitRow ==
    ASSUME NEW rows \in Rows, NEW u \in Unit, NEW k \in Finding, NEW f \in Finding
    PROVE  [rows EXCEPT ![u] = [key |-> k, lines |-> {f}]] \in Rows
<1> DEFINE page == [key |-> k, lines |-> {f}]
           new == [rows EXCEPT ![u] = page]
<1>0. rows \in [Subject -> Page \cup {NoPage}] /\ u \in Subject
  BY Subjects DEF Rows
<1>1. page \in Page
  BY DEF Page
<1>2. new \in [Subject -> Page \cup {NoPage}]
  BY <1>0, <1>1
<1>3. new[u] = page /\ \A s \in Subject : s # u => new[s] = rows[s]
  BY <1>0
<1> HIDE DEF new
<1>4. ASSUME NEW v \in Unit, new[v] # NoPage
      PROVE  new[v].key \in Finding /\ new[v].lines \subseteq Finding
  <2>1. CASE v = u
    BY <2>1, <1>3
  <2>2. CASE v # u
    BY <2>2, <1>3, <1>4, Subjects DEF Rows
  <2> QED
    BY <2>1, <2>2
<1>5. ASSUME NEW t \in Tier, new[t] # NoPage
      PROVE  new[t].key \subseteq new[t].lines /\ new[t].lines \subseteq Problem
  <2>1. t # u /\ t \in Subject
    BY Subjects DEF Tier
  <2> QED
    BY <2>1, <1>3, <1>5 DEF Rows
<1>6. new \in Rows
  BY <1>2, <1>4, <1>5 DEF Rows
<1> QED
  BY <1>6 DEF new

\* So does writing down the pages of both tiers.
LEMMA TierRows ==
    ASSUME NEW rows \in Rows, NEW c \in SUBSET Problem, NEW w \in SUBSET Problem
    PROVE  [rows EXCEPT !["critical"] = SetPage(c), !["warning"] = SetPage(w)] \in Rows
<1> DEFINE new == [rows EXCEPT !["critical"] = SetPage(c), !["warning"] = SetPage(w)]
<1>0. rows \in [Subject -> Page \cup {NoPage}]
  BY DEF Rows
<1>1. ASSUME NEW lines \in SUBSET Problem
      PROVE  /\ SetPage(lines) \in Page \cup {NoPage}
             /\ SetPage(lines) # NoPage =>
                  SetPage(lines).key \subseteq SetPage(lines).lines /\ SetPage(lines).lines = lines
  <2>1. SetKey(lines) \subseteq lines
    BY DEF SetKey
  <2> QED
    BY <2>1 DEF SetPage, Page
<1>2. new \in [Subject -> Page \cup {NoPage}]
  BY <1>0, <1>1, Subjects
<1>3. /\ new["critical"] = SetPage(c) /\ new["warning"] = SetPage(w)
      /\ \A u \in Unit : new[u] = rows[u]
  BY <1>0, Subjects
<1> HIDE DEF new
<1>4. \A u \in Unit : new[u] # NoPage => new[u].key \in Finding /\ new[u].lines \subseteq Finding
  BY <1>3 DEF Rows
<1>5. \A t \in Tier : new[t] # NoPage => new[t].key \subseteq new[t].lines /\ new[t].lines \subseteq Problem
  BY <1>1, <1>3 DEF Tier
<1>6. new \in Rows
  BY <1>2, <1>4, <1>5 DEF Rows
<1> QED
  BY <1>6 DEF new

\* What is gone is a set of subjects.
LEMMA GoneType == \A rows : Gone(rows) \subseteq Subject
BY DEF Gone

\* The key of a unit's page is a finding.
LEMMA KeyType ==
    ASSUME Typed, NEW u \in Unit, NEW f \in Finding
    PROVE  PublishedKey(u, f) \in Finding
<1>1. prior[u] # NoPage => prior[u].key \in Finding
  BY RowsType DEF Typed
<1> QED
  BY <1>1 DEF PublishedKey, EpisodeKey, RunKey

\* A set of findings is finite, and so is one of subjects.
LEMMA FiniteSets ==
    /\ \A S \in SUBSET Problem : IsFiniteSet(S) /\ Cardinality(S) \in Nat
    /\ \A S \in SUBSET Subject : IsFiniteSet(S) /\ Cardinality(S) \in Nat
<1>1. IsFiniteSet(Problem)
  BY FS_Union DEF Problem
<1>2. IsFiniteSet(Tier)
  <2>1. IsFiniteSet({}) /\ Tier = ({} \cup {"critical"}) \cup {"warning"}
    BY FS_EmptySet DEF Tier
  <2> QED
    BY <2>1, FS_AddElement
<1>3. IsFiniteSet(Subject)
  BY <1>2, FS_Union DEF Subject
<1> QED
  BY <1>1, <1>3, FS_Subset, FS_CardinalityType

\* Publishing a page adds a page of the subject, or counts its lines.
LEMMA PublishType ==
    ASSUME Typed, NEW s, NEW k, <<s, k>> \in PageKey, NEW lines,
           s # "warning" => Cardinality(lines) \in Nat,
           Publish(s, k, lines)
    PROVE  /\ sent' \subseteq PageKey /\ open' \subseteq PageKey
           /\ unalerted' \in Nat /\ budget' \in [Event -> Nat]
<1>1. <<s, k>> \in PageKey
  OBVIOUS
<1>2. Unheard(s, lines) \in Nat
  BY DEF Unheard
<1>3. "lost" \in Event
  BY DEF Event
<1>4. sent \subseteq PageKey /\ open \subseteq PageKey /\ unalerted \in Nat /\ budget \in [Event -> Nat]
  BY DEF Typed
<1>5. CASE /\ sent' = sent \cup {<<s, k>>}
           /\ open' = IF <<s, k>> \in sent THEN open ELSE open \cup {<<s, k>>}
           /\ UNCHANGED <<budget, unalerted>>
  BY ONLY <1>1, <1>4, <1>5
<1>6. CASE /\ <<s, k>> \notin sent /\ Spend("lost")
           /\ unalerted' = unalerted + Unheard(s, lines)
           /\ UNCHANGED <<sent, open>>
  <2>1. budget' \in [Event -> Nat]
    BY <1>3, <1>4, <1>6, SpendType
  <2> QED
    BY <2>1, <1>2, <1>4, <1>6
<1> QED
  BY <1>5, <1>6 DEF Publish

\* Attempting a clear on the channel clears a subject, or counts it.
LEMMA ChannelClearType ==
    ASSUME Typed, NEW s \in Subject, ChannelClear(s)
    PROVE  /\ open' \subseteq PageKey /\ cleared' \subseteq Subject
           /\ unpublished' \in Nat /\ budget' \in [Event -> Nat]
<1>1. "lost" \in Event
  BY DEF Event
<1> QED
  BY <1>1, SpendType DEF ChannelClear, Missed, Typed

-----------------------------------------------------------------------------
LEMMA TypeInit == Init => TypeInv
<1> SUFFICES ASSUME Init PROVE TypeInv
  OBVIOUS
<1> USE DEF Init
<1>1. unit \in [Unit -> [active : BOOLEAN, result : Result \cup {"success"},
                         run : 0 .. MaxRun, driver : Label]]
  BY DEF Label
<1>2. NoFindings \in [Unit -> Finding \cup {NoPage}]
  BY DEF NoFindings
<1>3. /\ seen \in [Unit -> SUBSET ((Result \cup {"success"}) \X Label)]
      /\ decay \in [Unit -> {"kept", "published", "unseen"}]
  OBVIOUS
<1>4. PhaseOK
  BY DEF PhaseOK
<1>5. taken \in 0 .. Attempts /\ budget \in [Event -> Nat] /\ problem \subseteq Problem
  OBVIOUS
<1>6. sample \in [Unit -> Finding \cup {NoPage}] /\ found \in [Unit -> Finding \cup {NoPage}]
  BY <1>2
<1>7. now \in Rows /\ prior \in Rows
  BY CleanRows
<1> QED
  BY <1>1, <1>3, <1>4, <1>5, <1>6, <1>7 DEF TypeInv, Typed

\* A process that is gone leaves nothing but the file and the reader's pages.
LEMMA TypeForget ==
    ASSUME TypeInv, Forget, UNCHANGED <<unit, problem, sent, open>>,
           budget' \in [Event -> Nat], prior' \in Rows,
           seen' \in [Unit -> SUBSET ((Result \cup {"success"}) \X Label)],
           decay' \in [Unit -> {"kept", "published", "unseen"}]
    PROVE  TypeInv'
<1>1. NoFindings \in [Unit -> Finding \cup {NoPage}]
  BY DEF NoFindings
<1>2. PhaseOK'
  BY DEF PhaseOK, Forget
<1>3. taken' \in 0 .. Attempts
  BY DEF Forget
<1>4. now' \in Rows /\ (phase' = "idle" => now' = Clean)
  BY CleanRows DEF Forget
<1>5. sample' \in [Unit -> Finding \cup {NoPage}] /\ found' \in [Unit -> Finding \cup {NoPage}]
  BY <1>1 DEF Forget
<1> QED
  BY <1>2, <1>3, <1>4, <1>5 DEF Forget, TypeInv, Typed

\* The box: a unit moves, a finding comes or goes, a marker expires.
LEMMA TypeBox == TypeInv /\ BoxMoves => TypeInv'
<1> SUFFICES ASSUME TypeInv, BoxMoves PROVE TypeInv'
  OBVIOUS
<1> DEFINE UnitType == [active : BOOLEAN, result : Result \cup {"success"},
                        run : 0 .. MaxRun, driver : Label]
<1> USE DEF boxVars, tickVars, pageVars, history
<1>0. /\ unit \in [Unit -> UnitType] /\ budget \in [Event -> Nat]
      /\ seen \in [Unit -> SUBSET ((Result \cup {"success"}) \X Label)]
      /\ decay \in [Unit -> {"kept", "published", "unseen"}]
  BY DEF TypeInv, Typed
<1>1. ASSUME NEW u \in Unit, RunStarts(u) PROVE TypeInv'
  <2>1. unit[u].run + 1 \in 0 .. MaxRun
    BY <1>0, <1>1 DEF RunStarts
  <2>2. unit' \in [Unit -> UnitType]
    BY <1>0, <1>1, <2>1 DEF RunStarts
  <2>3. torn' \in BOOLEAN
    BY <1>1 DEF RunStarts, Torn, TypeInv, Typed
  <2>4. PhaseOK'
    BY <1>1 DEF RunStarts, TypeInv, PhaseOK
  <2> QED
    BY <1>1, <2>2, <2>3, <2>4 DEF RunStarts, TypeInv, Typed
<1>2. ASSUME NEW u \in Unit, RunEnds(u) PROVE TypeInv'
  <2>1. PICK r \in Result \cup {"success"}, d \in Label :
           /\ unit' = [unit EXCEPT ![u].active = FALSE, ![u].result = r, ![u].driver = d]
           /\ seen' = [seen EXCEPT ![u] = @ \cup {<<r, d>>}]
    BY <1>2 DEF RunEnds
  <2>2. unit' \in [Unit -> UnitType]
    <3>1. unit[u] \in UnitType
      BY ONLY <1>0
    <3>2. [unit[u] EXCEPT !.active = FALSE, !.result = r, !.driver = d] \in UnitType
      BY ONLY <3>1, <2>1
    <3>3. unit' = [unit EXCEPT ![u] = [unit[u] EXCEPT !.active = FALSE, !.result = r, !.driver = d]]
      BY ONLY <1>0, <2>1, <3>1
    <3> QED
      BY ONLY <1>0, <3>2, <3>3
  <2>3. seen' \in [Unit -> SUBSET ((Result \cup {"success"}) \X Label)]
    BY <1>0, <2>1
  <2>4. torn' \in BOOLEAN
    BY <1>2 DEF RunEnds, Torn, TypeInv, Typed
  <2>5. PhaseOK'
    BY <1>2 DEF RunEnds, TypeInv, PhaseOK
  <2> QED
    BY <1>2, <2>2, <2>3, <2>4, <2>5 DEF RunEnds, TypeInv, Typed
<1>3. ASSUME NEW u \in Unit, Vacuum(u) PROVE TypeInv'
  <2>1. Unattributed \in Label /\ "vacuum" \in Event
    BY DEF Label, Event
  <2>2. unit' \in [Unit -> UnitType]
    BY <1>0, <1>3, <2>1 DEF Vacuum
  <2>3. budget' \in [Event -> Nat]
    BY <1>0, <1>3, <2>1, SpendType DEF Vacuum
  <2>4. decay' \in [Unit -> {"kept", "published", "unseen"}]
    BY <1>0, <1>3 DEF Vacuum
  <2>5. PhaseOK'
    BY <1>3 DEF Vacuum, TypeInv, PhaseOK
  <2> QED
    BY <1>3, <2>2, <2>3, <2>4, <2>5 DEF Vacuum, TypeInv, Typed
<1>4. ASSUME NEW p \in Problem, ProblemChanges(p) PROVE TypeInv'
  <2>1. budget' \in [Event -> Nat] /\ problem' \subseteq Problem
    BY <1>0, <1>4, SpendType DEF ProblemChanges, Event, TypeInv, Typed
  <2>2. PhaseOK'
    BY <1>4 DEF ProblemChanges, TypeInv, PhaseOK
  <2> QED
    BY <1>4, <2>1, <2>2 DEF ProblemChanges, TypeInv, Typed
<1>5. CASE MarkerExpires
  <2>1. budget' \in [Event -> Nat] /\ sent' \subseteq PageKey
    BY <1>0, <1>5, SpendType DEF MarkerExpires, Event, TypeInv, Typed
  <2>2. PhaseOK'
    BY <1>5 DEF MarkerExpires, TypeInv, PhaseOK
  <2> QED
    BY <1>5, <2>1, <2>2 DEF MarkerExpires, TypeInv, Typed
<1> QED
  BY <1>1, <1>2, <1>3, <1>4, <1>5 DEF BoxMoves

\* The samples of a tick.
LEMMA TypeSampling ==
    ASSUME TypeInv,
           \/ TickStart \/ SampleEnds
           \/ \E u \in Unit : ReadResult(u) \/ Classify(u)
    PROVE  TypeInv'
<1> USE DEF boxVars, tickVars, pageVars, history
<1>0. /\ NoFindings \in [Unit -> Finding \cup {NoPage}]
      /\ sample \in [Unit -> Finding \cup {NoPage}]
      /\ found \in [Unit -> Finding \cup {NoPage}]
      /\ prior \in Rows /\ reading \in Read \cup {NoPage}
  BY DEF NoFindings, TypeInv, Typed
<1>1. CASE TickStart
  <2>1. PhaseOK' /\ taken' \in 0 .. Attempts
    BY <1>1 DEF TickStart, PhaseOK
  <2>2. sample' \in [Unit -> Finding \cup {NoPage}]
    BY <1>0, <1>1 DEF TickStart
  <2> QED
    BY <1>1, <2>1, <2>2 DEF TickStart, TypeInv, Typed
<1>2. ASSUME NEW u \in Unit, ReadResult(u) PROVE TypeInv'
  <2>1. reading' \in Read \cup {NoPage}
    BY <1>2 DEF ReadResult, Read, TypeInv, Typed
  <2>2. PhaseOK'
    BY <1>2 DEF ReadResult, TypeInv, PhaseOK
  <2> QED
    BY <1>2, <2>1, <2>2 DEF ReadResult, TypeInv, Typed
<1>3. ASSUME NEW u \in Unit, Classify(u) PROVE TypeInv'
  <2>1. CarriedLines(u) \subseteq Finding
    BY <1>0, RowsType DEF CarriedLines
  <2>2. Attributed(u, reading.result, reading.run) \subseteq Label
    <3>1. unit[u].driver \in Label
      BY DEF TypeInv, Typed
    <3>2. prior[u] # NoPage => \A l \in prior[u].lines : l.driver \in Label
      BY <1>0, RowsType DEF Finding
    <3> QED
      BY <3>1, <3>2 DEF Attributed, Pinned
  <2>3. /\ reading \in Read
        /\ reading.result # "success" => reading.result \in Result
        /\ reading.run \in 0 .. MaxRun
    BY <1>0, <1>3 DEF Classify, Read
  <2>4. sample' \in [Unit -> Finding \cup {NoPage}]
    <3>1. CASE \E l \in CarriedLines(u) : sample' = [sample EXCEPT ![u] = l]
      BY <1>0, <2>1, <3>1
    <3>2. CASE /\ reading.result # "success"
               /\ \E d \in Attributed(u, reading.result, reading.run) :
                     sample' = [sample EXCEPT ![u] =
                        [result |-> reading.result, driver |-> d, run |-> reading.run]]
      <4>1. PICK d \in Label : sample' = [sample EXCEPT ![u] =
                        [result |-> reading.result, driver |-> d, run |-> reading.run]]
        BY <2>2, <3>2
      <4>2. [result |-> reading.result, driver |-> d, run |-> reading.run] \in Finding
        BY <2>3, <3>2 DEF Finding
      <4> QED
        BY <1>0, <4>1, <4>2
    <3>3. CASE UNCHANGED sample
      BY <1>0, <3>3
    <3> QED
      BY <1>3, <3>1, <3>2, <3>3 DEF Classify
  <2>5. PhaseOK'
    BY <1>3 DEF Classify, TypeInv, PhaseOK
  <2>6. toRead' \subseteq Unit /\ reading' = NoPage
    BY <1>3 DEF Classify, TypeInv, Typed
  <2> QED
    BY <1>3, <2>4, <2>5, <2>6 DEF Classify, TypeInv, Typed
<1>4. CASE SampleEnds
  <2> DEFINE f == IF taken = 0 THEN sample ELSE Confirm(found, sample)
             o == IF taken = 0 THEN problem ELSE others \cap problem
  <2>1. Confirm(found, sample) \in [Unit -> Finding \cup {NoPage}]
    BY <1>0 DEF Confirm
  <2>2. f \in [Unit -> Finding \cup {NoPage}] /\ o \subseteq Problem
    BY <1>0, <2>1 DEF TypeInv, Typed
  <2>3. found' = f /\ others' = o
    BY <1>4 DEF SampleEnds
  <2> HIDE DEF f, o
  <2>4. found' \in [Unit -> Finding \cup {NoPage}] /\ others' \subseteq Problem
    BY <2>2, <2>3
  <2>5. taken \in Nat /\ taken < Attempts
    BY <1>4 DEF SampleEnds, TypeInv, Typed, PhaseOK
  <2>6. /\ taken' \in 0 .. Attempts /\ toRead' \subseteq Unit /\ due' \subseteq Subject
        /\ sample' \in [Unit -> Finding \cup {NoPage}]
        /\ phase' \in {"sample", "units", "clear"}
        /\ PhaseOK'
    <3>1. CASE phase' = "clear" /\ due' = Gone(Clean) /\ UNCHANGED <<toRead, sample, taken>>
      BY <1>0, <2>5, <3>1, GoneType DEF TypeInv, Typed, PhaseOK
    <3>2. CASE /\ taken' = taken + 1 /\ UNCHANGED due
               /\ IF Enough(taken + 1)
                  THEN phase' = "units" /\ UNCHANGED <<toRead, sample>>
                  ELSE phase' = phase /\ toRead' = Unit /\ sample' = NoFindings
      <4>1. taken' \in 0 .. Attempts /\ (~Enough(taken + 1) => taken' < Attempts)
        BY <2>5, <3>2 DEF Enough
      <4>2. phase = "sample"
        BY <1>4 DEF SampleEnds
      <4> QED
        BY <1>0, <3>2, <4>1, <4>2 DEF TypeInv, Typed, PhaseOK
    <3> QED
      BY <1>4, <3>1, <3>2 DEF SampleEnds
  <2> QED
    BY <1>4, <2>4, <2>6 DEF SampleEnds, TypeInv, Typed
<1> QED
  BY <1>1, <1>2, <1>3, <1>4

\* The pages of a tick.
LEMMA TypePublishing ==
    ASSUME TypeInv,
           PublishTiers \/ FallbackPage \/ \E u \in Unit : PublishUnit(u)
    PROVE  TypeInv'
<1> USE DEF boxVars, tickVars, pageVars, history
<1>0. /\ now \in Rows /\ prior \in Rows /\ Typed
      /\ others \cap Critical \subseteq Problem /\ others \cap Warning \subseteq Problem
  BY DEF TypeInv, Typed, Problem
<1>1. ASSUME NEW u \in Unit, PublishUnit(u) PROVE TypeInv'
  <2> DEFINE k == PublishedKey(u, found[u])
  <2>1. found[u] \in Finding /\ u \in Subject
    BY <1>1, Subjects DEF PublishUnit, TypeInv, Typed
  <2>2. k \in Finding
    BY <1>0, <2>1, KeyType
  <2>3. Cardinality({found[u]}) \in Nat
    <3>1. \A x : Cardinality({x}) = 1
      BY FS_Singleton
    <3>2. Cardinality({found[u]}) = 1
      BY <3>1, Zenon
    <3> QED
      BY <3>2
  <2>4. Publish(u, k, {found[u]}) /\ now' = [now EXCEPT ![u] = [key |-> k, lines |-> {found[u]}]]
    BY <1>1 DEF PublishUnit
  <2> HIDE DEF k
  <2>5. now' \in Rows
    BY <1>0, <2>1, <2>2, <2>4, UnitRow
  <2>6. /\ sent' \subseteq PageKey /\ open' \subseteq PageKey
        /\ unalerted' \in Nat /\ budget' \in [Event -> Nat]
    <3>1. <<u, k>> \in PageKey
      BY <2>2 DEF PageKey
    <3> QED
      BY <1>0, <2>3, <2>4, <3>1, PublishType
  <2>7. PhaseOK' /\ phase' = "units"
    BY <1>1 DEF PublishUnit, PhaseOK
  <2> QED
    BY <1>1, <2>5, <2>6, <2>7 DEF PublishUnit, TypeInv, Typed
<1>2. CASE PublishTiers
  <2>1. /\ now' = [now EXCEPT !["critical"] = SetPage(others \cap Critical),
                              !["warning"] = SetPage(others \cap Warning)]
        /\ due' = Gone(now') /\ phase' = "clear"
    BY <1>2 DEF PublishTiers
  <2>2. now' \in Rows /\ due' \subseteq Subject
    BY <1>0, <2>1, TierRows, GoneType
  <2>3. /\ sent' \subseteq PageKey /\ open' \subseteq PageKey
        /\ unalerted' \in Nat /\ budget' \in [Event -> Nat]
    <3>1. CASE UNCHANGED <<sent, open, budget, unalerted>>
      BY <3>1 DEF TypeInv, Typed
    <3>2. CASE Publish("critical", SetKey(others \cap Critical), others \cap Critical)
      <4>1. SetKey(others \cap Critical) \in SUBSET Problem
        BY <1>0 DEF SetKey
      <4>2. Cardinality(others \cap Critical) \in Nat
        BY <1>0, FiniteSets
      <4>3. <<"critical", SetKey(others \cap Critical)>> \in PageKey
        BY <4>1, Subjects DEF PageKey
      <4> QED
        BY <1>0, <3>2, <4>2, <4>3, PublishType
    <3> QED
      BY <1>2, <3>1, <3>2 DEF PublishTiers
  <2>4. PhaseOK'
    BY <2>1 DEF PhaseOK
  <2> QED
    BY <1>2, <2>1, <2>2, <2>3, <2>4 DEF PublishTiers, TypeInv, Typed
<1>3. CASE FallbackPage
  <2>1. now["warning"] # NoPage /\ now["warning"].key \in SUBSET Problem
    BY <1>0, <1>3, RowsType, Subjects DEF FallbackPage, TypeInv, PhaseOK
  <2>2. /\ sent' \subseteq PageKey /\ open' \subseteq PageKey
        /\ unalerted' \in Nat /\ budget' \in [Event -> Nat]
    <3>1. <<"warning", now["warning"].key>> \in PageKey
      BY <2>1, Subjects DEF PageKey
    <3>2. Publish("warning", now["warning"].key, now["warning"].lines)
      BY <1>3 DEF FallbackPage
    <3> QED
      BY <1>0, <3>1, <3>2, PublishType
  <2>3. PhaseOK' /\ phase' = "fallback"
    BY <1>3 DEF FallbackPage, PhaseOK
  <2> QED
    BY <1>3, <2>2, <2>3 DEF FallbackPage, TypeInv, Typed
<1> QED
  BY <1>1, <1>2, <1>3

\* The clears, the console and the end of a tick.
LEMMA TypeFinalizing ==
    ASSUME TypeInv,
           \/ EmitEnvelope \/ EnvelopeFails \/ FallbackEnds
           \/ WriteState \/ WriteFails \/ Killed
           \/ \E s \in Subject : PublishClear(s) \/ FallbackClear(s)
    PROVE  TypeInv'
<1> USE DEF boxVars, tickVars, pageVars, history
<1>0. /\ Typed /\ "warning" \in Subject /\ "lost" \in Event /\ "kill" \in Event
      /\ budget \in [Event -> Nat]
  BY Subjects DEF TypeInv, Typed, Event
<1>1. ASSUME NEW s \in Subject, PublishClear(s) PROVE TypeInv'
  <2>1. due' \subseteq Subject /\ queued' \subseteq {"warning"}
    BY <1>1 DEF PublishClear, Buzzed, TypeInv, Typed
  <2>2. /\ open' \subseteq PageKey /\ cleared' \subseteq Subject
        /\ unpublished' \in Nat /\ budget' \in [Event -> Nat]
    <3>1. CASE ChannelClear(s)
      BY <1>0, <3>1, ChannelClearType
    <3>2. CASE UNCHANGED <<cleared, open, unpublished, budget>>
      BY <1>0, <3>2 DEF Typed
    <3> QED
      BY <1>1, <3>1, <3>2 DEF PublishClear
  <2>3. PhaseOK' /\ phase' = "clear"
    BY <1>1 DEF PublishClear, PhaseOK
  <2> QED
    BY <1>1, <2>1, <2>2, <2>3 DEF PublishClear, TypeInv, Typed
<1>2. ASSUME NEW s \in Subject, FallbackClear(s) PROVE TypeInv'
  <2>1. /\ open' \subseteq PageKey /\ cleared' \subseteq Subject
        /\ unpublished' \in Nat /\ budget' \in [Event -> Nat]
    BY <1>0, <1>2, ChannelClearType DEF FallbackClear
  <2>2. PhaseOK' /\ phase' = "fallback" /\ queued' \subseteq {"warning"}
    BY <1>0, <1>2 DEF FallbackClear, PhaseOK, Typed
  <2> QED
    BY <1>2, <2>1, <2>2 DEF FallbackClear, TypeInv, Typed
<1>3. CASE EmitEnvelope
  <2>1. cleared' \subseteq Subject /\ open' \subseteq PageKey
    BY <1>0, <1>3 DEF EmitEnvelope, Typed
  <2>2. PhaseOK' /\ phase' = "write"
    BY <1>3 DEF EmitEnvelope, PhaseOK
  <2> QED
    BY <1>3, <2>1, <2>2 DEF EmitEnvelope, TypeInv, Typed
<1>4. CASE EnvelopeFails
  <2>1. budget' \in [Event -> Nat]
    BY <1>0, <1>4, SpendType DEF EnvelopeFails
  <2>2. PhaseOK' /\ phase' \in {"deferred", "fallback"}
    BY <1>4 DEF EnvelopeFails, PhaseOK
  <2> QED
    BY <1>4, <2>1, <2>2 DEF EnvelopeFails, TypeInv, Typed
<1>5. CASE FallbackEnds
  <2>1. PhaseOK' /\ phase' = "write"
    BY <1>5 DEF FallbackEnds, PhaseOK
  <2> QED
    BY <1>5, <2>1 DEF FallbackEnds, TypeInv, Typed
<1>6. CASE WriteState
  <2>1. prior' \in Rows
    BY <1>0, <1>6 DEF WriteState, Written, Typed
  <2>2. seen' \in [Unit -> SUBSET ((Result \cup {"success"}) \X Label)]
    <3>1. ASSUME NEW u \in Unit, now[u] # NoPage
          PROVE  <<now[u].key.result, now[u].key.driver>> \in (Result \cup {"success"}) \X Label
      <4>1. now[u].key \in Finding
        BY <1>0, <3>1, RowsType DEF Typed
      <4> QED
        BY <4>1 DEF Finding
    <3>2. \A u \in Unit : Standing(u) \subseteq (Result \cup {"success"}) \X Label
      BY <1>0 DEF Standing, Typed
    <3>3. seen' = [u \in Unit |->
          IF now[u] = NoPage THEN {}
          ELSE IF prior[u] # NoPage /\ prior[u].key = now[u].key THEN seen[u]
          ELSE {<<now[u].key.result, now[u].key.driver>>} \cup Standing(u)]
      BY <1>6 DEF WriteState
    <3>4. \A u \in Unit : seen[u] \subseteq (Result \cup {"success"}) \X Label
      BY <1>0 DEF Typed
    <3> QED
      BY ONLY <3>1, <3>2, <3>3, <3>4
  <2>3. decay' \in [Unit -> {"kept", "published", "unseen"}]
    BY <1>0, <1>6 DEF WriteState, Typed
  <2> QED
    BY <1>0, <1>6, <2>1, <2>2, <2>3, TypeForget DEF WriteState
<1>7. CASE WriteFails
  <2>1. budget' \in [Event -> Nat]
    BY <1>0, <1>7, SpendType DEF WriteFails
  <2> QED
    BY <1>0, <1>7, <2>1, TypeForget DEF WriteFails, Typed
<1>8. CASE Killed
  <2>1. budget' \in [Event -> Nat]
    BY <1>0, <1>8, SpendType DEF Killed
  <2> QED
    BY <1>0, <1>8, <2>1, TypeForget DEF Killed, Typed
<1> QED
  BY <1>1, <1>2, <1>3, <1>4, <1>5, <1>6, <1>7, <1>8

LEMMA TypeStep == TypeInv /\ [Next]_vars => TypeInv'
<1> SUFFICES ASSUME TypeInv, [Next]_vars PROVE TypeInv'
  OBVIOUS
<1>1. CASE UNCHANGED vars
  BY <1>1 DEF vars, boxVars, tickVars, pageVars, history, TypeInv, Typed, PhaseOK
<1>2. CASE BoxMoves
  BY <1>2, TypeBox
<1>3. CASE TickStart \/ SampleEnds \/ \E u \in Unit : ReadResult(u) \/ Classify(u)
  BY <1>3, TypeSampling
<1>4. CASE PublishTiers \/ FallbackPage \/ \E u \in Unit : PublishUnit(u)
  BY <1>4, TypePublishing
<1>5. CASE \/ EmitEnvelope \/ EnvelopeFails \/ FallbackEnds \/ WriteState \/ WriteFails \/ Killed
           \/ \E s \in Subject : PublishClear(s) \/ FallbackClear(s)
  BY <1>5, TypeFinalizing
<1> QED
  BY <1>1, <1>2, <1>3, <1>4, <1>5 DEF Next, TickMoves

\* Every variable of the watchdog keeps its type (all of box_health.sh's state).
THEOREM TypeCorrect == Spec => []TypeOK
<1>1. Init => TypeInv
  BY TypeInit
<1>2. TypeInv /\ [Next]_vars => TypeInv'
  BY TypeStep
<1>3. TypeInv => TypeOK
  <2> SUFFICES ASSUME TypeInv PROVE TypeOK
    OBVIOUS
  <2>1. RowsOK(now) /\ RowsOK(prior)
    BY DEF TypeInv, Typed, Rows, RowsOK
  <2>2. \A keys \in SUBSET PageKey : KeysOK(keys)
    BY DEF KeysOK, PageKey
  <2>3. sent \in SUBSET PageKey /\ open \in SUBSET PageKey
    BY DEF TypeInv, Typed
  <2> QED
    BY <2>1, <2>2, <2>3 DEF TypeInv, Typed, TypeOK
<1> QED
  BY <1>1, <1>2, <1>3, PTL DEF Spec
=============================================================================
