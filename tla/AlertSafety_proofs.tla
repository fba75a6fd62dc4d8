-------------------------- MODULE AlertSafety_proofs --------------------------
(***************************************************************************)
(* Proofs of what the watchdog promises, for every set of units and        *)
(* findings and every budget of events.                                    *)
(*                                                                         *)
(* Accounted speaks of the end of a tick only; Tally says what the gauges  *)
(* stand for on the way.  The two properties of a standing page speak of   *)
(* several ticks; Tracked says how what a tick knows of a unit relates to  *)
(* the unit and to the file, DeadKeysOlder that no key is taken up again   *)
(* after its clear, PagesKept that a steady unit keeps the key it has.     *)
(* ToldOK is what the refinement of Pages needs beside Tally.  StepsLeft   *)
(* measures how far a tick is from its end.                                *)
(***************************************************************************)
EXTENDS AlertLifecycle_proofs

USE AlertAssumption, NoPageAssumption DEF AlertAssumption

\* Units whose row is written down and whose page is with nobody.
Loud(rows) == {u \in Unit : rows[u] # NoPage /\ <<u, rows[u].key>> \notin sent}

\* The lines of the critical page, if it is with nobody.
LoudLines(rows) ==
    IF rows["critical"] # NoPage /\ <<"critical", rows["critical"].key>> \notin sent
    THEN Cardinality(rows["critical"].lines) ELSE 0

\* At every moment of a tick the gauge counts the rows written down so far.
PagesCounted == unalerted = Cardinality(Loud(now)) + LoudLines(now)

\* Until its clears begin a tick has none; from then on what is gone is due,
\* queued, cleared or counted.
ClearsCounted ==
    /\ phase \in {"idle", "sample", "units"} =>
          cleared = {} /\ due = {} /\ queued = {} /\ unpublished = 0
    /\ phase \in {"clear", "deferred", "fallback", "write"} =>
          /\ due \cap queued = {} /\ due \cap cleared = {} /\ queued \cap cleared = {}
          /\ Cardinality(Gone(now)) =
                Cardinality(due) + Cardinality(queued) + Cardinality(cleared) + unpublished

\* How far a tick has come tells which rows and which clears it has.
RowsFollow ==
    /\ phase \in {"idle", "sample"} => now = Clean
    /\ phase = "units" => \A t \in Tier : now[t] = NoPage
    /\ phase \in {"deferred", "fallback", "write"} => due = {}
    /\ phase = "write" => queued = {}

Tally == TypeInv /\ PagesCounted /\ ClearsCounted /\ RowsFollow

-----------------------------------------------------------------------------
\* Nothing is counted of an empty file.
LEMMA CleanIsQuiet == Loud(Clean) = {} /\ LoudLines(Clean) = 0 /\ Cardinality({}) = 0
<1>1. \A s \in Subject : Clean[s] = NoPage
  BY DEF Clean
<1> QED
  BY <1>1, Subjects, FS_EmptySet DEF Loud, LoudLines

\* Every set of subjects the tally counts is finite.
LEMMA CountedSets ==
    ASSUME TypeInv
    PROVE  /\ IsFiniteSet(due) /\ Cardinality(due) \in Nat
           /\ IsFiniteSet(queued) /\ Cardinality(queued) \in Nat
           /\ IsFiniteSet(cleared) /\ Cardinality(cleared) \in Nat
           /\ IsFiniteSet(Loud(now)) /\ Cardinality(Loud(now)) \in Nat
           /\ unpublished \in Nat /\ unalerted \in Nat
<1>1. due \subseteq Subject /\ queued \subseteq Subject /\ cleared \subseteq Subject
  BY Subjects DEF TypeInv, Typed
<1>2. Loud(now) \subseteq Subject
  BY Subjects DEF Loud
<1>3. unpublished \in Nat /\ unalerted \in Nat
  BY DEF TypeInv, Typed
<1> QED
  BY <1>1, <1>2, <1>3, FiniteSets

\* Taking an element out of a finite set, or putting a new one in, moves its
\* cardinality by one.
LEMMA OneMore ==
    ASSUME NEW S, NEW x, IsFiniteSet(S)
    PROVE  /\ x \notin S => Cardinality(S \cup {x}) = Cardinality(S) + 1
           /\ x \in S => Cardinality(S \ {x}) = Cardinality(S) - 1
BY FS_AddElement, FS_RemoveElement

\* With the empty file goes a count of none.
LEMMA QuietAfter ==
    ASSUME now' = Clean, unalerted' = 0
    PROVE  PagesCounted'
<1>1. \A s \in Subject : now'[s] = NoPage
  BY DEF Clean
<1>2. Loud(now)' = {} /\ LoudLines(now)' = 0
  BY <1>1, Subjects DEF Loud, LoudLines
<1>3. Cardinality({}) = 0
  BY FS_EmptySet
<1> QED
  BY <1>2, <1>3 DEF PagesCounted

\* The process that is gone has counted nothing.
LEMMA ForgetTally ==
    ASSUME TypeInv', Forget
    PROVE  Tally'
<1>1. PagesCounted'
  BY QuietAfter DEF Forget
<1>2. ClearsCounted' /\ RowsFollow'
  BY DEF Forget, ClearsCounted, RowsFollow
<1> QED
  BY <1>1, <1>2 DEF Tally

\* A step that leaves the rows, the markers and the count alone keeps the count.
LEMMA SamePages ==
    ASSUME PagesCounted, UNCHANGED <<now, sent, unalerted>>
    PROVE  PagesCounted'
BY DEF PagesCounted, Loud, LoudLines

\* The box, the start of a tick and its samples write down nothing.
LEMMA TallyBeforePages ==
    ASSUME Tally, TypeInv',
           BoxMoves \/ TickStart \/ SampleEnds \/ \E u \in Unit : ReadResult(u) \/ Classify(u)
    PROVE  Tally'
<1> USE DEF boxVars, tickVars, pageVars, history
<1>1. CASE MarkerExpires
  <2>1. now = Clean /\ unalerted = 0
    <3>1. now = Clean
      BY <1>1 DEF MarkerExpires, Tally, RowsFollow
    <3> QED
      BY <3>1, CleanIsQuiet DEF Tally, PagesCounted
  <2>2. now' = Clean /\ unalerted' = 0
    BY <1>1, <2>1 DEF MarkerExpires
  <2>3. PagesCounted'
    BY <2>2, QuietAfter
  <2>4. ClearsCounted' /\ RowsFollow'
    BY <1>1 DEF MarkerExpires, Tally, ClearsCounted, RowsFollow
  <2> QED
    BY <2>3, <2>4 DEF Tally
<1>2. CASE BoxMoves /\ ~MarkerExpires
  <2>1. UNCHANGED <<phase, now, sent, unalerted, due, queued, cleared, unpublished, prior>>
    BY <1>2 DEF BoxMoves, RunStarts, RunEnds, Vacuum, ProblemChanges
  <2>2. PagesCounted'
    BY <2>1, SamePages DEF Tally
  <2>3. ClearsCounted' /\ RowsFollow'
    BY <2>1 DEF Tally, ClearsCounted, RowsFollow, Gone
  <2> QED
    BY <2>2, <2>3 DEF Tally
<1>3. CASE TickStart
  <2>1. PagesCounted'
    BY <1>3, SamePages DEF TickStart, Tally
  <2>2. ClearsCounted' /\ RowsFollow'
    BY <1>3 DEF TickStart, Tally, ClearsCounted, RowsFollow
  <2> QED
    BY <2>1, <2>2 DEF Tally
<1>4. ASSUME NEW u \in Unit, ReadResult(u) \/ Classify(u) PROVE Tally'
  <2>1. UNCHANGED <<phase, now, sent, unalerted, due, queued, cleared, unpublished, prior>>
    BY <1>4 DEF ReadResult, Classify
  <2>2. PagesCounted'
    BY <2>1, SamePages DEF Tally
  <2>3. ClearsCounted' /\ RowsFollow'
    BY <2>1 DEF Tally, ClearsCounted, RowsFollow, Gone
  <2> QED
    BY <2>2, <2>3 DEF Tally
<1>5. CASE SampleEnds
  <2>1. /\ phase = "sample" /\ now' = now /\ UNCHANGED <<sent, unalerted, cleared, queued, unpublished, prior>>
        /\ \/ phase' = "clear" /\ due' = Gone(Clean)
           \/ phase' \in {"sample", "units"} /\ due' = due
    BY <1>5 DEF SampleEnds
  <2>2. now = Clean /\ cleared = {} /\ queued = {} /\ unpublished = 0 /\ due = {}
    BY <2>1 DEF Tally, RowsFollow, ClearsCounted
  <2>3. PagesCounted'
    BY <2>1, SamePages DEF Tally
  <2>4. RowsFollow'
    <3>1. \A t \in Tier : Clean[t] = NoPage
      BY Subjects DEF Clean
    <3> QED
      BY <2>1, <2>2, <3>1 DEF RowsFollow
  <2>5. ClearsCounted'
    <3>1. CASE phase' \in {"sample", "units"} /\ due' = due
      BY <2>1, <2>2, <3>1 DEF ClearsCounted
    <3>2. CASE phase' = "clear" /\ due' = Gone(Clean)
      <4>1. Gone(now)' = due'
        BY <2>1, <2>2, <3>2 DEF Gone
      <4>2. cleared' = {} /\ queued' = {} /\ unpublished' = 0
        BY <2>1, <2>2
      <4>3. Cardinality(due') \in Nat /\ Cardinality({}) = 0
        BY FS_EmptySet, FiniteSets DEF TypeInv, Typed
      <4> QED
        BY <3>2, <4>1, <4>2, <4>3 DEF ClearsCounted
    <3> QED
      BY <2>1, <3>1, <3>2
  <2> QED
    BY <2>3, <2>4, <2>5 DEF Tally
<1> QED
  BY <1>1, <1>2, <1>3, <1>4, <1>5

\* What publishing adds to the markers, or to the count.
LEMMA PublishCounts ==
    ASSUME NEW s, NEW k, NEW lines, Publish(s, k, lines)
    PROVE  \/ sent' = sent \cup {<<s, k>>} /\ unalerted' = unalerted
           \/ /\ <<s, k>> \notin sent /\ sent' = sent
              /\ unalerted' = unalerted + Unheard(s, lines)
BY DEF Publish

\* A unit's page adds its one line to the count, or none.
LEMMA TallyUnit ==
    ASSUME Tally, TypeInv', NEW u \in Unit, PublishUnit(u)
    PROVE  Tally'
<1> USE DEF boxVars, tickVars, pageVars, history
<1> DEFINE k == PublishedKey(u, found[u])
           page == [key |-> k, lines |-> {found[u]}]
<1>1. /\ phase = "units" /\ phase' = "units" /\ now[u] = NoPage
      /\ Publish(u, k, {found[u]}) /\ now' = [now EXCEPT ![u] = page]
      /\ UNCHANGED <<due, queued, cleared, unpublished, prior>>
  BY DEF PublishUnit
<1>2. now \in [Subject -> Page \cup {NoPage}] /\ u \in Subject /\ k \in Finding /\ found[u] \in Finding
  BY Subjects, KeyType DEF TypeInv, Typed, Rows, Tally, PublishUnit
<1>3. page # NoPage /\ page.key = k
  BY <1>2 DEF Page
<1>4. now'[u] = page /\ \A s \in Subject : s # u => now'[s] = now[s]
  BY <1>1, <1>2
<1>5. /\ Cardinality({found[u]}) = 1 /\ Unheard(u, {found[u]}) = 1
  <2>1. \A x : Cardinality({x}) = 1
    BY FS_Singleton
  <2>2. u # "warning"
    BY Subjects
  <2> QED
    BY <2>1, <2>2 DEF Unheard
<1>6. now["critical"] = NoPage /\ now["warning"] = NoPage /\ now'["critical"] = NoPage /\ now'["warning"] = NoPage
  BY <1>1, <1>4, Subjects DEF Tally, RowsFollow
<1>7. LoudLines(now) = 0 /\ LoudLines(now)' = 0
  BY <1>6 DEF LoudLines
<1>8. u \notin Loud(now)
  BY <1>1 DEF Loud
<1> HIDE DEF k, page
<1>9. ASSUME NEW v \in Unit, v # u
      PROVE  v \in Loud(now)' <=> v \in Loud(now)
  <2>1. now'[v] = now[v]
    BY <1>4, <1>9, Subjects
  <2>2. sent' = sent \/ sent' = sent \cup {<<u, k>>}
    BY <1>1, PublishCounts
  <2>3. <<v, now[v].key>> # <<u, k>>
    BY <1>9
  <2>4. <<v, now[v].key>> \in sent' <=> <<v, now[v].key>> \in sent
    BY ONLY <2>2, <2>3
  <2> QED
    BY <2>1, <2>4 DEF Loud
<1>10. PagesCounted'
  <2>1. CASE sent' = sent \cup {<<u, k>>} /\ unalerted' = unalerted
    <3>1. u \notin Loud(now)'
      BY <1>3, <1>4, <2>1 DEF Loud
    <3>2. Loud(now)' = Loud(now)
      BY <1>8, <1>9, <3>1 DEF Loud
    <3> QED
      BY <2>1, <3>2, <1>7 DEF Tally, PagesCounted
  <2>2. CASE <<u, k>> \notin sent /\ sent' = sent /\ unalerted' = unalerted + Unheard(u, {found[u]})
    <3>1. u \in Loud(now)'
      BY <1>3, <1>4, <2>2 DEF Loud
    <3>2. Loud(now)' = Loud(now) \cup {u}
      BY <1>9, <3>1 DEF Loud
    <3>3. Cardinality(Loud(now)') = Cardinality(Loud(now)) + 1
      BY <1>8, <3>2, OneMore, CountedSets DEF Tally
    <3> QED
      BY <2>2, <3>3, <1>5, <1>7, CountedSets DEF Tally, PagesCounted
  <2> QED
    BY <1>1, <2>1, <2>2, PublishCounts
<1>11. ClearsCounted'
  BY <1>1 DEF Tally, ClearsCounted
<1>12. RowsFollow'
  BY <1>1, <1>6 DEF RowsFollow, Tier
<1> QED
  BY <1>10, <1>11, <1>12 DEF Tally

\* The tiers are written down together; only the critical one is published, and
\* adds its lines or none.  With all rows known, what is gone is due.
LEMMA TallyTiers ==
    ASSUME Tally, TypeInv', PublishTiers
    PROVE  Tally'
<1> USE DEF boxVars, tickVars, pageVars, history
<1> DEFINE c == others \cap Critical
           w == others \cap Warning
<1>1. /\ phase = "units" /\ phase' = "clear" /\ due' = Gone(now')
      /\ now' = [now EXCEPT !["critical"] = SetPage(c), !["warning"] = SetPage(w)]
      /\ UNCHANGED <<queued, cleared, unpublished, prior>>
      /\ \/ c = {} /\ UNCHANGED <<sent, open, budget, unalerted>>
         \/ c # {} /\ Publish("critical", SetKey(c), c)
  BY DEF PublishTiers
<1>2. now \in [Subject -> Page \cup {NoPage}]
  BY DEF TypeInv, Typed, Rows, Tally
<1>3. now'["critical"] = SetPage(c) /\ \A v \in Unit : now'[v] = now[v]
  BY <1>1, <1>2, Subjects
<1>4. LoudLines(now) = 0
  BY <1>1 DEF Tally, RowsFollow, LoudLines, Tier
<1>5. c \subseteq Problem /\ Cardinality(c) \in Nat
  BY FiniteSets DEF TypeInv, Typed, Tally, Problem
<1>6. c # {} => SetPage(c) # NoPage /\ SetPage(c).key = SetKey(c) /\ SetPage(c).lines = c
  <2>1. SetKey(c) \subseteq Problem
    BY <1>5 DEF SetKey
  <2>2. [key |-> SetKey(c), lines |-> c] \in Page
    BY <1>5, <2>1 DEF Page
  <2> QED
    BY <2>2 DEF SetPage
<1>7. c = {} => SetPage(c) = NoPage
  BY DEF SetPage
<1>8. Unheard("critical", c) = Cardinality(c)
  BY DEF Unheard
<1> HIDE DEF c, w
<1>9. ASSUME sent' = sent \/ sent' = sent \cup {<<"critical", SetKey(c)>>}
      PROVE  Loud(now)' = Loud(now)
  <2>1. ASSUME NEW v \in Unit
        PROVE  <<v, now[v].key>> \in sent' <=> <<v, now[v].key>> \in sent
    <3>1. <<v, now[v].key>> # <<"critical", SetKey(c)>>
      BY Subjects
    <3> QED
      BY ONLY <1>9, <3>1
  <2> QED
    BY <2>1, <1>3 DEF Loud
<1>10. PagesCounted'
  <2>1. CASE c = {} /\ UNCHANGED <<sent, open, budget, unalerted>>
    <3>1. LoudLines(now)' = 0
      BY <1>3, <1>7, <2>1 DEF LoudLines
    <3> QED
      BY <2>1, <3>1, <1>4, <1>9 DEF Tally, PagesCounted
  <2>2. CASE c # {} /\ sent' = sent \cup {<<"critical", SetKey(c)>>} /\ unalerted' = unalerted
    <3>1. LoudLines(now)' = 0
      BY <1>3, <1>6, <2>2 DEF LoudLines
    <3> QED
      BY <2>2, <3>1, <1>4, <1>9 DEF Tally, PagesCounted
  <2>3. CASE /\ c # {} /\ <<"critical", SetKey(c)>> \notin sent /\ sent' = sent
             /\ unalerted' = unalerted + Unheard("critical", c)
    <3>1. LoudLines(now)' = Cardinality(c)
      BY <1>3, <1>6, <2>3 DEF LoudLines
    <3> QED
      BY <2>3, <3>1, <1>4, <1>5, <1>8, <1>9, CountedSets DEF Tally, PagesCounted
  <2> QED
    BY <1>1, <2>1, <2>2, <2>3, PublishCounts
<1>11. ClearsCounted'
  <2>1. queued' = {} /\ cleared' = {} /\ unpublished' = 0
    BY <1>1 DEF Tally, ClearsCounted
  <2>2. Gone(now)' = due'
    BY <1>1 DEF Gone
  <2>3. Cardinality(due') \in Nat /\ Cardinality({}) = 0
    BY FS_EmptySet, FiniteSets DEF TypeInv, Typed
  <2> QED
    BY <1>1, <2>1, <2>2, <2>3 DEF ClearsCounted
<1>12. RowsFollow'
  BY <1>1 DEF RowsFollow
<1> QED
  BY <1>10, <1>11, <1>12 DEF Tally

\* A deferred warning is not counted, whoever it reaches.
LEMMA TallyFallbackPage ==
    ASSUME Tally, TypeInv', FallbackPage
    PROVE  Tally'
<1> USE DEF boxVars, tickVars, pageVars, history
<1>1. /\ phase = "deferred" /\ phase' = "fallback"
      /\ Publish("warning", now["warning"].key, now["warning"].lines)
      /\ UNCHANGED <<now, due, queued, cleared, unpublished, prior>>
  BY DEF FallbackPage
<1>2. /\ sent' = sent \/ sent' = sent \cup {<<"warning", now["warning"].key>>}
      /\ unalerted' = unalerted
  <2>1. Unheard("warning", now["warning"].lines) = 0
    BY DEF Unheard
  <2>2. unalerted + 0 = unalerted
    BY CountedSets DEF Tally
  <2> QED
    BY <1>1, <2>1, <2>2, PublishCounts
<1>3. ASSUME NEW s, s # "warning", NEW key
      PROVE  <<s, key>> \in sent' <=> <<s, key>> \in sent
  <2>1. <<s, key>> # <<"warning", now["warning"].key>>
    BY <1>3
  <2> QED
    BY ONLY <1>2, <2>1
<1>4. Loud(now)' = Loud(now) /\ LoudLines(now)' = LoudLines(now)
  BY <1>1, <1>3, Subjects DEF Loud, LoudLines
<1>5. PagesCounted'
  BY <1>2, <1>4 DEF Tally, PagesCounted
<1>6. ClearsCounted' /\ RowsFollow'
  BY <1>1 DEF Tally, ClearsCounted, RowsFollow, Gone
<1> QED
  BY <1>5, <1>6 DEF Tally

\* What one attempt on the channel adds to the cleared, or to the count.
LEMMA ChannelClearCounts ==
    ASSUME TypeInv, NEW s, ChannelClear(s)
    PROVE  \/ cleared' = cleared \cup {s} /\ unpublished' = unpublished
           \/ cleared' = cleared /\ unpublished' = unpublished + 1
<1>1. unpublished + 0 = unpublished
  BY CountedSets
<1> QED
  BY <1>1 DEF ChannelClear, Missed

\* A clear that is due is delivered, queued or counted, and no longer due.
LEMMA TallyClear ==
    ASSUME Tally, TypeInv', NEW s \in Subject, PublishClear(s)
    PROVE  Tally'
<1> USE DEF boxVars, tickVars, pageVars, history
<1>0. /\ Cardinality(due) \in Nat /\ Cardinality(queued) \in Nat /\ Cardinality(cleared) \in Nat
      /\ unpublished \in Nat
  BY CountedSets DEF Tally
<1>1. /\ phase = "clear" /\ phase' = "clear" /\ s \in due /\ due' = due \ {s}
      /\ UNCHANGED <<now, sent, unalerted, prior>>
      /\ \/ ChannelClear(s) /\ queued' = queued
         \/ queued' = queued \cup {s} /\ UNCHANGED <<cleared, unpublished>>
  BY DEF PublishClear
<1>2. /\ due \cap queued = {} /\ due \cap cleared = {} /\ queued \cap cleared = {}
      /\ Cardinality(Gone(now)) =
           Cardinality(due) + Cardinality(queued) + Cardinality(cleared) + unpublished
      /\ Gone(now)' = Gone(now)
  BY <1>1 DEF Tally, ClearsCounted, Gone
<1>3. Cardinality(due') = Cardinality(due) - 1
  BY <1>1, OneMore, CountedSets DEF Tally
<1>4. /\ due' \cap queued' = {} /\ due' \cap cleared' = {} /\ queued' \cap cleared' = {}
      /\ Cardinality(Gone(now)') =
            Cardinality(due') + Cardinality(queued') + Cardinality(cleared') + unpublished'
  <2>1. CASE cleared' = cleared \cup {s} /\ unpublished' = unpublished /\ queued' = queued
    <3>1. Cardinality(cleared') = Cardinality(cleared) + 1
      BY <1>1, <1>2, <2>1, OneMore, CountedSets DEF Tally
    <3>2. due' \cap queued' = {} /\ due' \cap cleared' = {} /\ queued' \cap cleared' = {}
      BY ONLY <1>1, <1>2, <2>1
    <3> QED
      BY ONLY <1>0, <1>2, <1>3, <2>1, <3>1, <3>2
  <2>2. CASE cleared' = cleared /\ unpublished' = unpublished + 1 /\ queued' = queued
    <3>1. due' \cap queued' = {} /\ due' \cap cleared' = {} /\ queued' \cap cleared' = {}
      BY ONLY <1>1, <1>2, <2>2
    <3> QED
      BY ONLY <1>0, <1>2, <1>3, <2>2, <3>1
  <2>3. CASE queued' = queued \cup {s} /\ UNCHANGED <<cleared, unpublished>>
    <3>1. Cardinality(queued') = Cardinality(queued) + 1
      BY <1>1, <1>2, <2>3, OneMore, CountedSets DEF Tally
    <3>2. due' \cap queued' = {} /\ due' \cap cleared' = {} /\ queued' \cap cleared' = {}
      BY ONLY <1>1, <1>2, <2>3
    <3> QED
      BY ONLY <1>0, <1>2, <1>3, <2>3, <3>1, <3>2
  <2> QED
    BY <1>1, <2>1, <2>2, <2>3, ChannelClearCounts DEF Tally
<1>5. ClearsCounted'
  BY <1>1, <1>4 DEF ClearsCounted
<1>6. PagesCounted' /\ RowsFollow'
  BY <1>1, SamePages DEF Tally, RowsFollow
<1> QED
  BY <1>5, <1>6 DEF Tally

\* So is a queued one that the console could not take.
LEMMA TallyFallbackClear ==
    ASSUME Tally, TypeInv', NEW s \in Subject, FallbackClear(s)
    PROVE  Tally'
<1> USE DEF boxVars, tickVars, pageVars, history
<1>0. /\ Cardinality(due) \in Nat /\ Cardinality(queued) \in Nat /\ Cardinality(cleared) \in Nat
      /\ unpublished \in Nat
  BY CountedSets DEF Tally
<1>1. /\ phase = "fallback" /\ phase' = "fallback" /\ s \in queued /\ queued' = queued \ {s}
      /\ ChannelClear(s) /\ UNCHANGED <<now, sent, unalerted, prior, due>>
  BY DEF FallbackClear
<1>2. /\ due = {} /\ queued \cap cleared = {}
      /\ Cardinality(Gone(now)) =
           Cardinality(due) + Cardinality(queued) + Cardinality(cleared) + unpublished
      /\ Gone(now)' = Gone(now)
  BY <1>1 DEF Tally, ClearsCounted, RowsFollow, Gone
<1>3. Cardinality(queued') = Cardinality(queued) - 1
  BY <1>1, OneMore, CountedSets DEF Tally
<1>4. /\ queued' \cap cleared' = {}
      /\ Cardinality(Gone(now)') =
            Cardinality(due') + Cardinality(queued') + Cardinality(cleared') + unpublished'
  <2>1. CASE cleared' = cleared \cup {s} /\ unpublished' = unpublished
    <3>1. Cardinality(cleared') = Cardinality(cleared) + 1
      BY <1>1, <1>2, <2>1, OneMore, CountedSets DEF Tally
    <3>2. queued' \cap cleared' = {}
      BY ONLY <1>1, <1>2, <2>1
    <3> QED
      BY ONLY <1>0, <1>1, <1>2, <1>3, <2>1, <3>1, <3>2
  <2>2. CASE cleared' = cleared /\ unpublished' = unpublished + 1
    <3>1. queued' \cap cleared' = {}
      BY ONLY <1>1, <1>2, <2>2
    <3> QED
      BY ONLY <1>0, <1>1, <1>2, <1>3, <2>2, <3>1
  <2> QED
    BY <1>1, <2>1, <2>2, ChannelClearCounts DEF Tally
<1>5. ClearsCounted'
  BY <1>1, <1>2, <1>4 DEF ClearsCounted
<1>6. PagesCounted' /\ RowsFollow'
  BY <1>1, <1>2, SamePages DEF Tally, RowsFollow
<1> QED
  BY <1>5, <1>6 DEF Tally

\* The console takes the queue as it is.
LEMMA TallyEnvelope ==
    ASSUME Tally, TypeInv', EmitEnvelope \/ EnvelopeFails \/ FallbackEnds
    PROVE  Tally'
<1> USE DEF boxVars, tickVars, pageVars, history
<1>1. CASE EmitEnvelope
  <2>1. /\ phase = "clear" /\ phase' = "write" /\ due = {}
        /\ queued' = {} /\ cleared' = cleared \cup queued
        /\ UNCHANGED <<now, sent, unalerted, prior, due, unpublished>>
    BY <1>1 DEF EmitEnvelope
  <2>2. /\ queued \cap cleared = {} /\ Gone(now)' = Gone(now)
        /\ Cardinality(Gone(now)) =
             Cardinality(due) + Cardinality(queued) + Cardinality(cleared) + unpublished
    BY <2>1 DEF Tally, ClearsCounted, Gone
  <2>3. Cardinality({}) = 0
    BY FS_EmptySet
  <2>4. Cardinality(cleared') = Cardinality(cleared) + Cardinality(queued) - Cardinality(cleared \cap queued)
    BY <2>1, FS_Union, CountedSets DEF Tally
  <2>5. Cardinality(cleared') = Cardinality(cleared) + Cardinality(queued)
    <3>1. cleared \cap queued = {}
      BY <2>2
    <3>2. Cardinality(cleared) \in Nat /\ Cardinality(queued) \in Nat
      BY CountedSets DEF Tally
    <3>3. Cardinality(cleared \cap queued) = 0
      BY <2>3, <3>1, Zenon
    <3> QED
      BY ONLY <2>4, <3>2, <3>3
  <2>6. ClearsCounted'
    BY <2>1, <2>2, <2>3, <2>5, CountedSets DEF Tally, ClearsCounted
  <2>7. PagesCounted' /\ RowsFollow'
    BY <2>1, SamePages DEF Tally, RowsFollow
  <2> QED
    BY <2>6, <2>7 DEF Tally
<1>2. CASE EnvelopeFails \/ FallbackEnds
  <2>1. /\ phase \in {"clear", "fallback"} /\ phase' \in {"deferred", "fallback", "write"}
        /\ phase' = "write" => queued = {}
        /\ phase = "clear" => due = {}
        /\ UNCHANGED <<now, sent, unalerted, prior, due, queued, cleared, unpublished>>
    BY <1>2 DEF EnvelopeFails, FallbackEnds
  <2>2. PagesCounted' /\ RowsFollow'
    BY <2>1, SamePages DEF Tally, RowsFollow
  <2>3. ClearsCounted'
    BY <2>1 DEF Tally, ClearsCounted, Gone
  <2> QED
    BY <2>2, <2>3 DEF Tally
<1> QED
  BY <1>1, <1>2

LEMMA TallyInit == Init => Tally
<1> SUFFICES ASSUME Init PROVE Tally
  OBVIOUS
<1>1. TypeInv
  BY TypeInit
<1>2. PagesCounted
  BY CleanIsQuiet DEF Init, PagesCounted
<1>3. ClearsCounted /\ RowsFollow
  BY DEF Init, ClearsCounted, RowsFollow
<1> QED
  BY <1>1, <1>2, <1>3 DEF Tally

LEMMA TallyStep == Tally /\ [Next]_vars => Tally'
<1> SUFFICES ASSUME Tally, [Next]_vars PROVE Tally'
  OBVIOUS
<1>0. TypeInv'
  BY TypeStep DEF Tally
<1>1. CASE UNCHANGED vars
  <2>1. UNCHANGED <<phase, now, sent, unalerted, due, queued, cleared, unpublished, prior>>
    BY <1>1 DEF vars, tickVars, pageVars, history
  <2>2. PagesCounted'
    BY <2>1, SamePages DEF Tally
  <2>3. ClearsCounted' /\ RowsFollow'
    BY <2>1 DEF Tally, ClearsCounted, RowsFollow, Gone
  <2> QED
    BY <1>0, <2>2, <2>3 DEF Tally
<1>2. CASE BoxMoves \/ TickStart \/ SampleEnds \/ \E u \in Unit : ReadResult(u) \/ Classify(u)
  BY <1>0, <1>2, TallyBeforePages
<1>3. ASSUME NEW u \in Unit, PublishUnit(u) PROVE Tally'
  BY <1>0, <1>3, TallyUnit
<1>4. CASE PublishTiers
  BY <1>0, <1>4, TallyTiers
<1>5. ASSUME NEW s \in Subject, PublishClear(s) \/ FallbackClear(s) PROVE Tally'
  BY <1>0, <1>5, TallyClear, TallyFallbackClear
<1>6. CASE EmitEnvelope \/ EnvelopeFails \/ FallbackEnds
  BY <1>0, <1>6, TallyEnvelope
<1>7. CASE FallbackPage
  BY <1>0, <1>7, TallyFallbackPage
<1>8. CASE WriteState \/ WriteFails \/ Killed
  <2>1. Forget
    BY <1>8 DEF WriteState, WriteFails, Killed
  <2> QED
    BY <1>0, <2>1, ForgetTally
<1> QED
  BY <1>1, <1>2, <1>3, <1>4, <1>5, <1>6, <1>7, <1>8 DEF Next, TickMoves

\* When a tick ends, its gauges say how many clears and how many critical lines
\* are with nobody (publish_page, finalize_alert_lifecycle), whatever failed,
\* through the console's fallback and for any number of units and findings.
THEOREM GaugesExact == Spec => []Accounted
<1>1. Tally => Accounted
  <2> SUFFICES ASSUME Tally, phase = "write" PROVE Accounted
    BY DEF Accounted
  <2>1. due = {} /\ queued = {} /\ Cardinality({}) = 0
    BY FS_EmptySet DEF Tally, RowsFollow
  <2>2. Cardinality(Gone(now)) = Cardinality(cleared) + unpublished
    BY <2>1, CountedSets DEF Tally, ClearsCounted
  <2>3. unalerted = Cardinality(Loud(now)) + LoudLines(now)
    BY DEF Tally, PagesCounted
  <2> QED
    BY <2>2, <2>3 DEF Accounted, Loud, LoudLines
<1>2. Init => Tally
  BY TallyInit
<1>3. Tally /\ [Next]_vars => Tally'
  BY TallyStep
<1> QED
  BY <1>1, <1>2, <1>3, PTL DEF Spec

-----------------------------------------------------------------------------
\* What is known of unit u agrees with what systemd can still say of it: a finding
\* is of a run that has ended, and of the last one it has the Result.
Borne(u, f) ==
    /\ f.run <= unit[u].run
    /\ f.run = unit[u].run => ~unit[u].active /\ unit[u].result = f.result

\* A finding of this tick is no older than what the file has of the unit, and of
\* the run the file's key names it tells what the key tells.
Later(u, f) ==
    /\ Borne(u, f)
    /\ prior[u] # NoPage =>
          /\ \A l \in prior[u].lines : l.run <= f.run
          /\ f.run = prior[u].key.run => SameEpisode(prior[u].key, f)

FileOK(u) ==
    /\ prior[u].lines # {} /\ \A l, m \in prior[u].lines : l = m
    /\ Borne(u, prior[u].key)
    /\ \A l \in prior[u].lines :
          /\ Borne(u, l) /\ prior[u].key.run <= l.run
          /\ l.run = prior[u].key.run => SameEpisode(prior[u].key, l)

ReadOK(u) ==
    /\ reading.run <= unit[u].run
    /\ reading.result # "success" /\ reading.run = unit[u].run =>
          ~unit[u].active /\ unit[u].result = reading.result
    /\ prior[u] # NoPage =>
          /\ \A l \in prior[u].lines : l.run <= reading.run
          /\ reading.result = "success" => prior[u].key.run < reading.run
          /\ reading.run = prior[u].key.run => reading.result = prior[u].key.result

\* A row of this tick keeps the file's key, or starts an episode of its own.
RowOK(u) ==
    /\ found[u] # NoPage /\ now[u].lines = {found[u]}
    /\ \/ prior[u] # NoPage /\ now[u].key = prior[u].key
       \/ /\ now[u].key = found[u]
          /\ prior[u] # NoPage => ~SameEpisode(prior[u].key, found[u])

\* A sample of this tick, or all of them together, did not find unit u failing.
SawNothing(u) ==
    \/ phase = "sample" /\ u \notin toRead /\ sample[u] = NoPage
    \/ phase # "idle" /\ (phase = "sample" => taken > 0) /\ found[u] = NoPage

Late == {"clear", "deferred", "fallback", "write"}

UnitOK(u) ==
    /\ unit[u].active => unit[u].result = "success"
    /\ prior[u] # NoPage => FileOK(u)
    /\ reading # NoPage /\ reading.unit = u => ReadOK(u)
    /\ sample[u] # NoPage => Later(u, sample[u])
    /\ found[u] # NoPage => Later(u, found[u])
    /\ prior[u] # NoPage /\ SawNothing(u) => prior[u].key.run < unit[u].run
    /\ now[u] # NoPage => RowOK(u)
    /\ phase \in Late /\ found[u] # NoPage => now[u] # NoPage

Tracked ==
    /\ reading # NoPage => phase = "sample"
    /\ due \subseteq Gone(now)
    /\ \A u \in Unit : UnitOK(u)

-----------------------------------------------------------------------------
\* Which values the parts of a unit's state have.
LEMMA UnitFacts ==
    ASSUME Typed, NEW u \in Unit
    PROVE  /\ unit[u].active \in BOOLEAN /\ unit[u].run \in Nat
           /\ unit[u].result \in Result \cup {"success"} /\ unit[u].driver \in Label
           /\ prior[u] # NoPage => /\ prior[u].key \in Finding /\ prior[u].key.run \in Nat
                                   /\ prior[u].key.result \in Result
                                   /\ prior[u].lines \subseteq Finding
           /\ now[u] # NoPage => now[u].key \in Finding /\ now[u].key.run \in Nat
           /\ sample[u] # NoPage => sample[u] \in Finding
           /\ found[u] # NoPage => found[u] \in Finding
           /\ reading # NoPage => /\ reading.run \in Nat
                                  /\ reading.result \in Result \cup {"success"}
           /\ \A f \in Finding : f # NoPage /\ f.run \in Nat /\ f.result \in Result
           /\ "success" \notin Result
<1>1. \A f \in Finding : f.run \in Nat /\ f.result \in Result /\ f # NoPage
  BY DEF Finding
<1>2. /\ unit[u].active \in BOOLEAN /\ unit[u].run \in Nat
      /\ unit[u].result \in Result \cup {"success"} /\ unit[u].driver \in Label
  BY DEF Typed
<1>3. prior[u] # NoPage => prior[u].key \in Finding /\ prior[u].lines \subseteq Finding
  BY RowsType DEF Typed
<1>4. now[u] # NoPage => now[u].key \in Finding
  BY RowsType DEF Typed
<1>5. /\ sample[u] # NoPage => sample[u] \in Finding
      /\ found[u] # NoPage => found[u] \in Finding
  BY DEF Typed
<1>6. reading # NoPage => reading.run \in Nat /\ reading.result \in Result \cup {"success"}
  BY DEF Typed, Read
<1> QED
  BY <1>1, <1>2, <1>3, <1>4, <1>5, <1>6

\* A step that tells nothing new of unit u.
LEMMA UnitFrame ==
    ASSUME NEW u \in Unit, UnitOK(u),
           unit'[u] = unit[u], prior'[u] = prior[u], now'[u] = now[u],
           sample'[u] = sample[u], found'[u] = found[u],
           reading' # NoPage /\ reading'.unit = u => reading' = reading,
           SawNothing(u)' => SawNothing(u),
           phase' \in Late => phase \in Late
    PROVE  UnitOK(u)'
<1> USE DEF UnitOK
<1>1. prior'[u] # NoPage => FileOK(u)'
  BY DEF FileOK, Borne
<1>2. reading' # NoPage /\ reading'.unit = u => ReadOK(u)'
  BY DEF ReadOK
<1>3. /\ sample'[u] # NoPage => Later(u, sample[u])'
      /\ found'[u] # NoPage => Later(u, found[u])'
  BY DEF Later, Borne
<1>4. now'[u] # NoPage => RowOK(u)'
  BY DEF RowOK
<1> QED
  BY <1>1, <1>2, <1>3, <1>4

\* A run starts or ends: only the last run is not over, and it has no finding.
LEMMA TrackedRun ==
    ASSUME Typed, Tracked, NEW v \in Unit, RunStarts(v) \/ RunEnds(v)
    PROVE  Tracked'
<1> USE DEF tickVars, pageVars, boxVars, history
<1>0. UNCHANGED <<prior, now, sample, found, reading, phase, toRead, taken, due>>
  BY DEF RunStarts, RunEnds
<1>1. ASSUME NEW u \in Unit PROVE UnitOK(u)'
  <2>0. UnitOK(u) /\ (SawNothing(u)' <=> SawNothing(u))
    BY <1>0 DEF Tracked, SawNothing
  <2>1. CASE u # v
    <3>1. unit'[u] = unit[u]
      BY <2>1 DEF RunStarts, RunEnds, Typed
    <3> QED
      BY <1>0, <2>0, <3>1, UnitFrame
  <2>2. CASE u = v
    <3>0. /\ \/ /\ unit'[u].active /\ unit'[u].result = "success"
                /\ unit'[u].run = unit[u].run + 1
             \/ ~unit'[u].active /\ unit'[u].run = unit[u].run /\ unit[u].active
      <4>0. /\ unit \in [Unit -> [active : BOOLEAN, result : Result \cup {"success"},
                                run : 0 .. MaxRun, driver : Label]]
            /\ u \in Unit /\ u = v
        BY <2>2 DEF Typed
      <4>1. CASE RunStarts(v)
        BY ONLY <4>0, <4>1 DEF RunStarts
      <4>2. CASE RunEnds(v)
        <5>1. PICK r, d :
                 unit' = [unit EXCEPT ![v].active = FALSE, ![v].result = r, ![v].driver = d]
          BY ONLY <4>2 DEF RunEnds
        <5>2. unit[v].active
          BY ONLY <4>2 DEF RunEnds
        <5> QED
          BY ONLY <4>0, <5>1, <5>2
      <4> QED
        BY <4>1, <4>2
    <3>1. ASSUME NEW f \in Finding, Borne(u, f) PROVE Borne(u, f)'
      <4>1. f.run \in Nat /\ unit[u].run \in Nat
        BY UnitFacts
      <4> QED
        BY <3>0, <3>1, <4>1 DEF Borne
    <3>2. prior'[u] # NoPage => FileOK(u)'
      <4>1. prior[u] # NoPage => FileOK(u) /\ prior[u].key \in Finding /\ prior[u].lines \subseteq Finding
        BY <2>0, UnitFacts DEF UnitOK
      <4> QED
        BY <1>0, <3>1, <4>1 DEF FileOK
    <3>3. reading' # NoPage /\ reading'.unit = u => ReadOK(u)'
      <4>1. reading # NoPage => reading.run \in Nat /\ unit[u].run \in Nat
        BY UnitFacts
      <4> QED
        BY <1>0, <2>0, <3>0, <4>1 DEF UnitOK, ReadOK
    <3>4. /\ sample'[u] # NoPage => Later(u, sample[u])'
          /\ found'[u] # NoPage => Later(u, found[u])'
      <4>1. /\ sample[u] # NoPage => Later(u, sample[u]) /\ sample[u] \in Finding
            /\ found[u] # NoPage => Later(u, found[u]) /\ found[u] \in Finding
        BY <2>0, UnitFacts DEF UnitOK
      <4> QED
        BY <1>0, <3>1, <4>1 DEF Later
    <3>5. prior'[u] # NoPage /\ SawNothing(u)' => prior'[u].key.run < unit'[u].run
      <4>1. prior[u] # NoPage => prior[u].key.run \in Nat /\ unit[u].run \in Nat
        BY UnitFacts
      <4> QED
        BY <1>0, <2>0, <3>0, <4>1 DEF UnitOK
    <3>6. now'[u] # NoPage => RowOK(u)'
      BY <1>0, <2>0 DEF UnitOK, RowOK
    <3>7. /\ unit'[u].active => unit'[u].result = "success"
          /\ phase' \in Late /\ found'[u] # NoPage => now'[u] # NoPage
      BY <1>0, <2>0, <3>0 DEF UnitOK
    <3> QED
      BY <3>2, <3>3, <3>4, <3>5, <3>6, <3>7 DEF UnitOK
  <2> QED
    BY <2>1, <2>2
<1> QED
  BY <1>0, <1>1 DEF Tracked, Gone

\* The rest of the box: no finding speaks of a driver alone.
LEMMA TrackedBox ==
    ASSUME Typed, Tracked,
           \/ \E v \in Unit : Vacuum(v)
           \/ (\E p \in Problem : ProblemChanges(p)) \/ MarkerExpires
    PROVE  Tracked'
<1> USE DEF tickVars, pageVars, boxVars, history
<1>0. UNCHANGED <<prior, now, sample, found, reading, phase, toRead, taken, due>>
  BY DEF Vacuum, ProblemChanges, MarkerExpires
<1>1. ASSUME NEW u \in Unit PROVE UnitOK(u)'
  <2>0. UnitOK(u) /\ (SawNothing(u)' <=> SawNothing(u))
    BY <1>0 DEF Tracked, SawNothing
  <2>1. /\ unit'[u].active = unit[u].active /\ unit'[u].run = unit[u].run
        /\ unit'[u].result = unit[u].result
    BY DEF Vacuum, ProblemChanges, MarkerExpires, Typed
  <2>2. prior'[u] # NoPage => FileOK(u)'
    BY <1>0, <2>0, <2>1 DEF UnitOK, FileOK, Borne
  <2>3. reading' # NoPage /\ reading'.unit = u => ReadOK(u)'
    BY <1>0, <2>0, <2>1 DEF UnitOK, ReadOK
  <2>4. /\ sample'[u] # NoPage => Later(u, sample[u])'
        /\ found'[u] # NoPage => Later(u, found[u])'
    BY <1>0, <2>0, <2>1 DEF UnitOK, Later, Borne
  <2>5. now'[u] # NoPage => RowOK(u)'
    BY <1>0, <2>0 DEF UnitOK, RowOK
  <2> QED
    BY <1>0, <2>0, <2>1, <2>2, <2>3, <2>4, <2>5 DEF UnitOK
<1> QED
  BY <1>0, <1>1 DEF Tracked, Gone

\* The driver a finding is given is one a finding may have.
LEMMA AttributedType ==
    ASSUME Typed, NEW u \in Unit, NEW r, NEW n, NEW d \in Attributed(u, r, n)
    PROVE  d \in Label
<1>1. unit[u].driver \in Label
  BY DEF Typed
<1>2. prior[u] # NoPage => \A l \in prior[u].lines : l.driver \in Label
  BY RowsType DEF Typed, Finding
<1> QED
  BY <1>1, <1>2 DEF Attributed, Pinned

\* A tick starts with nothing seen.
LEMMA TrackedStart ==
    ASSUME Typed, Tracked, TickStart
    PROVE  Tracked'
<1> USE DEF TickStart, tickVars, pageVars, boxVars, history
<1>1. ASSUME NEW u \in Unit PROVE UnitOK(u)'
  <2>0. UnitOK(u) /\ reading = NoPage /\ sample'[u] = NoPage
    BY DEF Tracked, NoFindings, Typed
  <2>1. ~SawNothing(u)'
    BY DEF SawNothing
  <2>2. prior'[u] # NoPage => FileOK(u)'
    BY <2>0 DEF UnitOK, FileOK, Borne
  <2>3. found'[u] # NoPage => Later(u, found[u])'
    BY <2>0 DEF UnitOK, Later, Borne
  <2>4. now'[u] # NoPage => RowOK(u)'
    BY <2>0 DEF UnitOK, RowOK
  <2> QED
    BY <2>0, <2>1, <2>2, <2>3, <2>4 DEF UnitOK, Late
<1> QED
  BY <1>1 DEF Tracked, Gone, Typed

\* Result and run are read: no older than the file, and of the same run the same.
LEMMA TrackedRead ==
    ASSUME Typed, Tracked, NEW v \in Unit, ReadResult(v)
    PROVE  Tracked'
<1> USE DEF ReadResult, tickVars, pageVars, boxVars, history
<1>1. ASSUME NEW u \in Unit PROVE UnitOK(u)'
  <2>0. UnitOK(u) /\ (SawNothing(u)' <=> SawNothing(u))
    BY DEF Tracked, SawNothing
  <2>1. CASE u # v
    <3>1. ~(reading' # NoPage /\ reading'.unit = u)
      BY <2>1
    <3> QED
      BY <2>0, <3>1, UnitFrame
  <2>2. CASE u = v
    <3>1. reading'.run = unit[u].run /\ reading'.result = unit[u].result
      BY <2>2
    <3>2. /\ unit[u].run \in Nat
          /\ prior[u] # NoPage => prior[u].key.run \in Nat /\ prior[u].key.result \in Result
      BY UnitFacts
    <3>3. ASSUME prior[u] # NoPage
          PROVE  /\ \A l \in prior[u].lines : l.run <= unit[u].run
                 /\ prior[u].key.run <= unit[u].run
                 /\ prior[u].key.run = unit[u].run => unit[u].result = prior[u].key.result
      BY <2>0, <3>3 DEF UnitOK, FileOK, Borne
    <3>4. ReadOK(u)'
      BY <2>0, <3>1, <3>2, <3>3 DEF UnitOK, ReadOK
    <3>5. prior'[u] # NoPage => FileOK(u)'
      BY <2>0 DEF UnitOK, FileOK, Borne
    <3>6. /\ sample'[u] # NoPage => Later(u, sample[u])'
          /\ found'[u] # NoPage => Later(u, found[u])'
      BY <2>0 DEF UnitOK, Later, Borne
    <3>7. now'[u] # NoPage => RowOK(u)'
      BY <2>0 DEF UnitOK, RowOK
    <3> QED
      BY <2>0, <3>4, <3>5, <3>6, <3>7 DEF UnitOK
  <2> QED
    BY <2>1, <2>2
<1> QED
  BY <1>1 DEF Tracked, Gone

\* The driver a finding of the page's run is given is the page's, or none.
LEMMA PinnedDriver ==
    ASSUME Typed, NEW u \in Unit, UnitOK(u), prior[u] # NoPage,
           reading # NoPage, reading.unit = u, reading.result # "success",
           reading.run = prior[u].key.run,
           NEW d \in Attributed(u, reading.result, reading.run)
    PROVE  SameEpisode(prior[u].key, [result |-> reading.result, driver |-> d, run |-> reading.run])
<1>1. FileOK(u) /\ ReadOK(u)
  BY DEF UnitOK
<1>2. reading.result = prior[u].key.result
  BY <1>1 DEF ReadOK
<1>3. Pinned(u, reading.result, reading.run) = {l.driver : l \in prior[u].lines}
  BY <1>2 DEF Pinned
<1>4. PICK l \in prior[u].lines : TRUE
  BY <1>1 DEF FileOK
<1>5. l.driver \in Pinned(u, reading.result, reading.run)
  BY <1>3
<1>6. d \in Pinned(u, reading.result, reading.run)
  BY <1>5 DEF Attributed
<1>7. PICK m \in prior[u].lines : d = m.driver
  BY <1>3, <1>6
<1>8. m.run = prior[u].key.run
  <2>1. prior[u].key.run <= m.run /\ m.run <= reading.run
    BY <1>1 DEF FileOK, ReadOK
  <2>2. m.run \in Nat /\ reading.run \in Nat
    BY UnitFacts
  <2> QED
    BY <2>1, <2>2
<1>9. SameEpisode(prior[u].key, m)
  BY <1>1, <1>8 DEF FileOK
<1> QED
  BY <1>2, <1>7, <1>9 DEF SameEpisode

\* What one sample makes of the unit it read.
LEMMA Classified ==
    ASSUME Typed, NEW u \in Unit, UnitOK(u), Classify(u)
    PROVE  /\ sample'[u] # NoPage => sample'[u] \in Finding /\ Later(u, sample'[u])
           /\ sample'[u] = NoPage /\ prior[u] # NoPage => prior[u].key.run < unit[u].run
           /\ UNCHANGED sample \/ sample'[u] # NoPage
<1>0. /\ reading # NoPage /\ reading.unit = u /\ ReadOK(u)
      /\ reading.run \in Nat /\ unit[u].run \in Nat
      /\ reading.result \in Result \cup {"success"}
      /\ prior[u] # NoPage => /\ FileOK(u) /\ prior[u].key.run \in Nat
                              /\ prior[u].lines \subseteq Finding
      /\ sample[u] # NoPage => sample[u] \in Finding /\ Later(u, sample[u])
  BY UnitFacts DEF UnitOK, Classify
<1>1. CASE /\ unit[u].active /\ CarriedLines(u) # {}
           /\ \E l \in CarriedLines(u) : sample' = [sample EXCEPT ![u] = l]
  <2>1. PICK l \in CarriedLines(u) : sample' = [sample EXCEPT ![u] = l]
    BY <1>1
  <2>2. prior[u] # NoPage /\ l \in prior[u].lines /\ sample'[u] = l
    BY <2>1 DEF CarriedLines, Typed
  <2>3. l \in Finding /\ Later(u, l)
    <3>1. l \in Finding /\ l.run \in Nat
      BY <1>0, <2>2, UnitFacts
    <3>2. Borne(u, l) /\ (l.run = prior[u].key.run => SameEpisode(prior[u].key, l))
      BY <1>0, <2>2 DEF FileOK
    <3>3. \A m \in prior[u].lines : m.run <= l.run
      BY <1>0, <2>2, <3>1 DEF FileOK
    <3> QED
      BY <3>1, <3>2, <3>3 DEF Later
  <2>4. l # NoPage
    BY <2>3, UnitFacts
  <2> QED
    BY <2>2, <2>3, <2>4
<1>2. CASE /\ ~unit[u].active /\ reading.result # "success"
           /\ \E d \in Attributed(u, reading.result, reading.run) :
                 sample' = [sample EXCEPT ![u] =
                    [result |-> reading.result, driver |-> d, run |-> reading.run]]
  <2>1. PICK d \in Attributed(u, reading.result, reading.run) :
                 sample' = [sample EXCEPT ![u] =
                    [result |-> reading.result, driver |-> d, run |-> reading.run]]
    BY <1>2
  <2> DEFINE f == [result |-> reading.result, driver |-> d, run |-> reading.run]
  <2>2. sample'[u] = f
    BY <2>1 DEF Typed
  <2>3. f \in Finding
    <3>1. d \in Label
      BY <2>1, AttributedType
    <3>2. reading \in Read
      BY <1>0 DEF Typed
    <3> QED
      BY <1>2, <3>1, <3>2 DEF Finding, Read
  <2>4. Later(u, f)
    <3>1. Borne(u, f)
      BY <1>0, <1>2 DEF ReadOK, Borne
    <3>2. prior[u] # NoPage => \A l \in prior[u].lines : l.run <= f.run
      BY <1>0 DEF ReadOK
    <3>3. prior[u] # NoPage /\ f.run = prior[u].key.run => SameEpisode(prior[u].key, f)
      BY <1>0, <1>2, <2>1, PinnedDriver
    <3> QED
      BY <3>1, <3>2, <3>3 DEF Later
  <2>5. f # NoPage
    BY <2>3, UnitFacts
  <2> QED
    BY <2>2, <2>3, <2>4, <2>5
<1>3. CASE /\ IF unit[u].active THEN CarriedLines(u) = {} ELSE reading.result = "success"
           /\ UNCHANGED sample
  <2>1. ASSUME prior[u] # NoPage PROVE prior[u].key.run < unit[u].run
    <3>1. CarriedLines(u) # {}
      BY <1>0, <2>1 DEF CarriedLines, FileOK
    <3>2. reading.result = "success"
      BY <1>3, <3>1
    <3>3. prior[u].key.run < reading.run /\ reading.run <= unit[u].run
      BY <1>0, <2>1, <3>2 DEF ReadOK
    <3> QED
      BY <1>0, <2>1, <3>3
  <2> QED
    BY <1>0, <1>3, <2>1
<1> QED
  BY <1>1, <1>2, <1>3 DEF Classify

LEMMA TrackedClassify ==
    ASSUME Typed, Tracked, NEW v \in Unit, Classify(v)
    PROVE  Tracked'
<1>0. /\ UNCHANGED <<unit, prior, now, found, phase, taken, due>>
      /\ phase = "sample" /\ reading' = NoPage /\ toRead' = toRead \ {v}
  BY DEF Classify, boxVars, pageVars
<1>1. ASSUME NEW u \in Unit PROVE UnitOK(u)'
  <2>0. UnitOK(u)
    BY DEF Tracked
  <2>1. CASE u # v
    <3>1. sample'[u] = sample[u]
      BY <2>1 DEF Classify, Typed
    <3>2. SawNothing(u)' => SawNothing(u)
      BY <1>0, <2>1, <3>1 DEF SawNothing
    <3> QED
      BY <1>0, <2>0, <3>1, <3>2, UnitFrame
  <2>2. CASE u = v
    <3>1. /\ sample'[u] # NoPage => Later(u, sample'[u])
          /\ sample'[u] = NoPage /\ prior[u] # NoPage => prior[u].key.run < unit[u].run
      BY <2>0, <2>2, Classified
    <3>2. /\ sample'[u] # NoPage => Later(u, sample[u])'
          /\ found'[u] # NoPage => Later(u, found[u])'
      BY <1>0, <2>0, <3>1 DEF UnitOK, Later, Borne
    <3>3. prior'[u] # NoPage /\ SawNothing(u)' => prior'[u].key.run < unit'[u].run
      BY <1>0, <2>0, <3>1 DEF SawNothing, UnitOK
    <3>4. prior'[u] # NoPage => FileOK(u)'
      BY <1>0, <2>0 DEF UnitOK, FileOK, Borne
    <3>5. now'[u] # NoPage => RowOK(u)'
      BY <1>0, <2>0 DEF UnitOK, RowOK
    <3> QED
      BY <1>0, <2>0, <3>2, <3>3, <3>4, <3>5 DEF UnitOK
  <2> QED
    BY <2>1, <2>2
<1> QED
  BY <1>0, <1>1 DEF Tracked, Gone

\* What a sample adds to those before it.
LEMMA FoundAfter ==
    ASSUME Typed, SampleEnds, NEW u \in Unit
    PROVE  /\ found'[u] \in {NoPage, sample[u]}
           /\ found'[u] = NoPage => SawNothing(u)
           /\ phase' = "clear" => found'[u] = NoPage
<1> DEFINE f == IF taken = 0 THEN sample ELSE Confirm(found, sample)
<1>1. found' = f /\ phase = "sample" /\ toRead = {} /\ taken \in Nat
  BY DEF SampleEnds, Typed
<1>2. phase' = "clear" => f = NoFindings
  BY DEF SampleEnds, Enough
<1>3. Confirm(found, sample)[u] = IF found[u] = NoPage THEN NoPage ELSE sample[u]
  BY DEF Confirm
<1>4. f[u] \in {NoPage, sample[u]} /\ (f[u] = NoPage => SawNothing(u))
  BY <1>1, <1>3 DEF SawNothing
<1> QED
  BY <1>1, <1>2, <1>4 DEF NoFindings

\* A sample is over: what all of them found is what the last one found.
LEMMA TrackedSample ==
    ASSUME Typed, Tracked, RowsFollow, SampleEnds
    PROVE  Tracked'
<1>0. /\ UNCHANGED <<unit, prior, now, reading>> /\ reading = NoPage
      /\ phase = "sample" /\ phase' \in {"sample", "units", "clear"}
      /\ phase' = "sample" => toRead' = Unit /\ sample' = NoFindings
      /\ sample' \in {sample, NoFindings}
      /\ now = Clean /\ (due' = due \/ due' = Gone(Clean))
  BY DEF SampleEnds, RowsFollow, boxVars, pageVars
<1>1. ASSUME NEW u \in Unit PROVE UnitOK(u)'
  <2>0. UnitOK(u) /\ now[u] = NoPage
    BY <1>0, Subjects DEF Tracked, Clean
  <2>1. /\ found'[u] # NoPage => found'[u] = sample[u] /\ phase' # "clear"
        /\ found'[u] = NoPage => SawNothing(u)
    BY FoundAfter
  <2>2. sample'[u] # NoPage => sample'[u] = sample[u]
    BY <1>0 DEF NoFindings
  <2>3. /\ sample'[u] # NoPage => Later(u, sample[u])'
        /\ found'[u] # NoPage => Later(u, found[u])'
    BY <1>0, <2>0, <2>1, <2>2 DEF UnitOK, Later, Borne
  <2>4. prior'[u] # NoPage /\ SawNothing(u)' => prior'[u].key.run < unit'[u].run
    <3>1. SawNothing(u)' => found'[u] = NoPage
      BY <1>0 DEF SawNothing
    <3> QED
      BY <1>0, <2>0, <2>1, <3>1 DEF UnitOK
  <2>5. prior'[u] # NoPage => FileOK(u)'
    BY <1>0, <2>0 DEF UnitOK, FileOK, Borne
  <2> QED
    BY <1>0, <2>0, <2>1, <2>3, <2>4, <2>5 DEF UnitOK, Late
<1>2. due' \subseteq Gone(now)'
  <2>1. Gone(now)' = Gone(now)
    BY <1>0 DEF Gone
  <2> QED
    BY <1>0, <2>1 DEF Tracked
<1> QED
  BY <1>0, <1>1, <1>2 DEF Tracked

\* A unit is paged under the key it has, or under that of a new episode.
LEMMA TrackedPage ==
    ASSUME Typed, Tracked, ClearsCounted, NEW v \in Unit, PublishUnit(v)
    PROVE  Tracked'
<1>0. /\ UNCHANGED <<unit, prior, sample, found, reading, phase, toRead, taken, due>>
      /\ phase = "units" /\ found[v] # NoPage
      /\ now' = [now EXCEPT ![v] = [key |-> PublishedKey(v, found[v]), lines |-> {found[v]}]]
  BY DEF PublishUnit, boxVars, pageVars
<1>1. ASSUME NEW u \in Unit PROVE UnitOK(u)'
  <2>0. UnitOK(u) /\ (SawNothing(u)' <=> SawNothing(u))
    BY <1>0 DEF Tracked, SawNothing
  <2>t. now \in [Subject -> Page \cup {NoPage}] /\ u \in Subject /\ v \in Subject
    BY Subjects DEF Typed, Rows
  <2>1. CASE u # v
    <3>1. now'[u] = now[u]
      BY <1>0, <2>1, <2>t
    <3> QED
      BY <1>0, <2>0, <3>1, UnitFrame
  <2>2. CASE u = v
    <3>1. now'[u] = [key |-> PublishedKey(u, found[u]), lines |-> {found[u]}]
      BY <1>0, <2>2, <2>t
    <3>2. RowOK(u)'
      <4>1. \/ prior[u] # NoPage /\ PublishedKey(u, found[u]) = prior[u].key
            \/ /\ PublishedKey(u, found[u]) = found[u]
               /\ prior[u] # NoPage => ~SameEpisode(prior[u].key, found[u])
        BY DEF PublishedKey, EpisodeKey, RunKey
      <4> QED
        BY <1>0, <2>2, <3>1, <4>1 DEF RowOK, SameEpisode
    <3>3. prior'[u] # NoPage => FileOK(u)'
      BY <1>0, <2>0 DEF UnitOK, FileOK, Borne
    <3>4. reading' # NoPage /\ reading'.unit = u => ReadOK(u)'
      BY <1>0, <2>0 DEF UnitOK, ReadOK
    <3>5. /\ sample'[u] # NoPage => Later(u, sample[u])'
          /\ found'[u] # NoPage => Later(u, found[u])'
      BY <1>0, <2>0 DEF UnitOK, Later, Borne
    <3> QED
      BY <1>0, <2>0, <3>2, <3>3, <3>4, <3>5 DEF UnitOK, Late
  <2> QED
    BY <2>1, <2>2
<1>2. due = {}
  BY <1>0 DEF ClearsCounted
<1> QED
  BY <1>0, <1>1, <1>2 DEF Tracked

\* All units that were found failing have their row.
LEMMA TrackedTiers ==
    ASSUME Typed, Tracked, PublishTiers
    PROVE  Tracked'
<1>0. /\ UNCHANGED <<unit, prior, sample, found, reading, toRead, taken>>
      /\ phase = "units" /\ phase' = "clear" /\ due' = Gone(now')
      /\ \A u \in Unit : found[u] = NoPage \/ now[u] # NoPage
      /\ now' = [now EXCEPT !["critical"] = SetPage(others \cap Critical),
                            !["warning"] = SetPage(others \cap Warning)]
  BY DEF PublishTiers, boxVars, pageVars
<1>1. ASSUME NEW u \in Unit PROVE UnitOK(u)'
  <2>0. UnitOK(u) /\ (SawNothing(u)' => SawNothing(u))
    BY <1>0 DEF Tracked, SawNothing
  <2>1. now'[u] = now[u]
    <3>1. now \in [Subject -> Page \cup {NoPage}] /\ u \in Subject
      BY Subjects DEF Typed, Rows
    <3>2. u # "critical" /\ u # "warning"
      BY Subjects
    <3> QED
      BY <1>0, <3>1, <3>2
  <2>2. prior'[u] # NoPage => FileOK(u)'
    BY <1>0, <2>0 DEF UnitOK, FileOK, Borne
  <2>3. reading' # NoPage /\ reading'.unit = u => ReadOK(u)'
    BY <1>0, <2>0 DEF UnitOK, ReadOK
  <2>4. /\ sample'[u] # NoPage => Later(u, sample[u])'
        /\ found'[u] # NoPage => Later(u, found[u])'
    BY <1>0, <2>0 DEF UnitOK, Later, Borne
  <2>5. now'[u] # NoPage => RowOK(u)'
    BY <1>0, <2>0, <2>1 DEF UnitOK, RowOK
  <2> QED
    BY <1>0, <2>0, <2>1, <2>2, <2>3, <2>4, <2>5 DEF UnitOK
<1>2. due' \subseteq Gone(now)'
  BY <1>0 DEF Gone
<1>3. reading' = NoPage
  BY <1>0 DEF Tracked
<1> QED
  BY <1>0, <1>1, <1>2, <1>3 DEF Tracked

\* The clears and the console neither learn nor forget anything of a unit.
LEMMA TrackedClears ==
    ASSUME Typed, Tracked,
           \/ EmitEnvelope \/ EnvelopeFails \/ FallbackPage \/ FallbackEnds
           \/ \E s \in Subject : PublishClear(s) \/ FallbackClear(s)
    PROVE  Tracked'
<1>0. /\ UNCHANGED <<unit, prior, now, sample, found, reading, toRead, taken>>
      /\ phase \in Late /\ phase' \in Late /\ due' \subseteq due
  BY DEF EmitEnvelope, EnvelopeFails, FallbackPage, FallbackEnds, PublishClear, FallbackClear,
         boxVars, pageVars, Late
<1>1. ASSUME NEW u \in Unit PROVE UnitOK(u)'
  <2>1. UnitOK(u) /\ (SawNothing(u)' => SawNothing(u))
    BY <1>0 DEF Tracked, SawNothing, Late
  <2> QED
    BY <1>0, <2>1, UnitFrame
<1>2. reading = NoPage
  BY <1>0 DEF Tracked, Late
<1> QED
  BY <1>0, <1>1, <1>2 DEF Tracked, Gone

\* With the process goes all it knew of a unit.
LEMMA ForgetUnit ==
    ASSUME Forget, NEW u \in Unit
    PROVE  /\ reading' = NoPage /\ sample'[u] = NoPage /\ found'[u] = NoPage
           /\ now'[u] = NoPage /\ ~SawNothing(u)' /\ phase' \notin Late /\ due' = {}
BY Subjects DEF Forget, NoFindings, Clean, SawNothing, Late

\* What is written down is what was found, under the key it was paged with.
LEMMA TrackedWrite ==
    ASSUME Typed, Tracked, WriteState
    PROVE  Tracked'
<1>0. Forget /\ prior' = now /\ UNCHANGED unit
  BY DEF WriteState, Written, boxVars
<1>1. ASSUME NEW u \in Unit PROVE UnitOK(u)'
  <2>0. UnitOK(u)
    BY DEF Tracked
  <2>1. ASSUME now[u] # NoPage PROVE FileOK(u)'
    <3>1. RowOK(u) /\ Later(u, found[u]) /\ (prior[u] # NoPage => FileOK(u))
      BY <2>0, <2>1 DEF UnitOK, RowOK
    <3>2. prior'[u] = now[u] /\ now[u].lines = {found[u]}
      BY <1>0, <3>1 DEF RowOK
    <3>3. found[u].run \in Nat
      BY <3>1, UnitFacts DEF RowOK
    <3>4. CASE prior[u] # NoPage /\ now[u].key = prior[u].key
      <4>1. PICK l \in prior[u].lines : TRUE
        BY <3>1, <3>4 DEF FileOK
      <4>2. prior[u].key.run <= l.run /\ l.run <= found[u].run
        BY <3>1, <3>4 DEF FileOK, Later
      <4>3. prior[u].key.run \in Nat /\ l.run \in Nat
        BY <3>4, UnitFacts
      <4>4. prior[u].key.run <= found[u].run
        BY <3>3, <4>2, <4>3
      <4>5. Borne(u, prior[u].key) /\ Borne(u, found[u])
        BY <3>1, <3>4 DEF FileOK, Later
      <4>6. found[u].run = prior[u].key.run => SameEpisode(prior[u].key, found[u])
        BY <3>1, <3>4 DEF Later
      <4> QED
        BY <1>0, <3>2, <3>4, <4>4, <4>5, <4>6 DEF FileOK, Borne
    <3>5. CASE now[u].key = found[u]
      BY <1>0, <3>1, <3>2, <3>3, <3>5 DEF FileOK, Later, Borne, SameEpisode
    <3> QED
      BY <3>1, <3>4, <3>5 DEF RowOK
  <2> QED
    BY <1>0, <2>0, <2>1, ForgetUnit DEF UnitOK
<1> QED
  BY <1>0, <1>1 DEF Tracked, Forget, Gone

LEMMA TrackedForget ==
    ASSUME Typed, Tracked, WriteFails \/ Killed
    PROVE  Tracked'
<1>0. Forget /\ UNCHANGED <<unit, prior>>
  BY DEF WriteFails, Killed, pageVars
<1>1. ASSUME NEW u \in Unit PROVE UnitOK(u)'
  <2>0. UnitOK(u)
    BY DEF Tracked
  <2>1. prior'[u] # NoPage => FileOK(u)'
    BY <1>0, <2>0 DEF UnitOK, FileOK, Borne
  <2> QED
    BY <1>0, <2>0, <2>1, ForgetUnit DEF UnitOK
<1> QED
  BY <1>0, <1>1 DEF Tracked, Forget, Gone

LEMMA TrackedInit == Init => Tracked
<1> SUFFICES ASSUME Init PROVE Tracked
  OBVIOUS
<1>1. ASSUME NEW u \in Unit PROVE UnitOK(u)
  BY Subjects DEF Init, UnitOK, SawNothing, Clean, NoFindings, Late
<1> QED
  BY <1>1 DEF Tracked, Init

LEMMA TrackedStep == Tally /\ Tracked /\ [Next]_vars => Tracked'
<1> SUFFICES ASSUME Tally, Tracked, [Next]_vars PROVE Tracked'
  OBVIOUS
<1>0. Typed /\ RowsFollow /\ ClearsCounted
  BY DEF Tally, TypeInv
<1>1. CASE UNCHANGED vars
  <2>1. UNCHANGED <<unit, prior, now, sample, found, reading, phase, toRead, taken, due>>
    BY <1>1 DEF vars, boxVars, tickVars, pageVars
  <2>2. \A u \in Unit : UnitOK(u)'
    BY <2>1, UnitFrame DEF Tracked, SawNothing
  <2> QED
    BY <2>1, <2>2 DEF Tracked, Gone
<1>2. CASE BoxMoves
  BY <1>0, <1>2, TrackedRun, TrackedBox DEF BoxMoves
<1>3. CASE TickStart \/ SampleEnds \/ \E u \in Unit : ReadResult(u) \/ Classify(u)
  BY <1>0, <1>3, TrackedStart, TrackedSample, TrackedRead, TrackedClassify
<1>4. CASE PublishTiers \/ \E u \in Unit : PublishUnit(u)
  BY <1>0, <1>4, TrackedTiers, TrackedPage
<1>5. CASE \/ EmitEnvelope \/ EnvelopeFails \/ FallbackPage \/ FallbackEnds
           \/ \E s \in Subject : PublishClear(s) \/ FallbackClear(s)
  BY <1>0, <1>5, TrackedClears
<1>6. CASE WriteState \/ WriteFails \/ Killed
  BY <1>0, <1>6, TrackedWrite, TrackedForget
<1> QED
  BY <1>1, <1>2, <1>3, <1>4, <1>5, <1>6 DEF Next, TickMoves

-----------------------------------------------------------------------------
\* A key that was sent and cleared is older than everything that is known of its
\* unit, but for the key this tick is leaving behind.
Older(u, k) ==
    /\ k.run < unit[u].run
    /\ reading # NoPage /\ reading.unit = u => k.run < reading.run
    /\ phase = "sample" /\ sample[u] # NoPage => k.run < sample[u].run
    /\ found[u] # NoPage => k.run < found[u].run
    /\ now[u] # NoPage => k.run < now[u].key.run
    /\ prior[u] # NoPage => \/ k.run < prior[u].key.run
                            \/ phase \in Late /\ k = prior[u].key /\ u \in Gone(now)

DeadKeysOlder ==
    \A u \in Unit, k \in Finding : <<u, k>> \in sent /\ <<u, k>> \notin open => Older(u, k)

\* No choice has fewer kills than there are left.
KillsLeft == \A b \in Budget : budget["kill"] <= b["kill"]

\* Once a tick was killed, nothing is claimed.
Standings == KillsLeft /\ (Uninterrupted => DeadKeysOlder)

\* What a step does to the bound on events.
LEMMA BudgetStep ==
    ASSUME [Next]_vars
    PROVE  budget' = budget \/ \E e \in Event : Spend(e)
<1> USE DEF boxVars, tickVars, pageVars, history, Event
<1>1. CASE UNCHANGED vars
  BY <1>1 DEF vars
<1>2. CASE BoxMoves
  BY <1>2 DEF BoxMoves, RunStarts, RunEnds, Vacuum, ProblemChanges, MarkerExpires
<1>3. CASE TickStart \/ SampleEnds \/ \E u \in Unit : ReadResult(u) \/ Classify(u)
  BY <1>3 DEF TickStart, SampleEnds, ReadResult, Classify
<1>4. CASE PublishTiers \/ FallbackPage \/ \E u \in Unit : PublishUnit(u)
  BY <1>4 DEF PublishTiers, FallbackPage, PublishUnit, Publish
<1>5. CASE EmitEnvelope \/ EnvelopeFails \/ FallbackEnds \/ WriteState \/ WriteFails \/ Killed
  BY <1>5 DEF EmitEnvelope, EnvelopeFails, FallbackEnds, WriteState, WriteFails, Killed
<1>6. CASE \E s \in Subject : PublishClear(s) \/ FallbackClear(s)
  BY <1>6 DEF PublishClear, FallbackClear, ChannelClear
<1> QED
  BY <1>1, <1>2, <1>3, <1>4, <1>5, <1>6 DEF Next, TickMoves

\* The kills left only go down, and one that happened shows for ever.
LEMMA KillsStep ==
    ASSUME Typed, KillsLeft, [Next]_vars
    PROVE  /\ KillsLeft'
           /\ Uninterrupted' => Uninterrupted
           /\ WriteFails \/ Killed => ~Uninterrupted'
<1>1. budget \in [Event -> Nat] /\ "kill" \in Event /\ budget["kill"] \in Nat
  BY DEF Typed, Event
<1>2. budget'["kill"] \in Nat /\ budget'["kill"] <= budget["kill"]
  BY <1>1, BudgetStep DEF Spend
<1>3. \A b \in Budget : b["kill"] \in Nat
  BY <1>1
<1>4. KillsLeft'
  BY <1>1, <1>2, <1>3 DEF KillsLeft
<1>5. Uninterrupted' => Uninterrupted
  <2> SUFFICES ASSUME NEW b \in Budget, budget'["kill"] = b["kill"]
               PROVE  budget["kill"] = b["kill"]
    BY DEF Uninterrupted
  <2>1. budget["kill"] <= b["kill"]
    BY DEF KillsLeft
  <2> QED
    BY <1>1, <1>2, <1>3, <2>1
<1>6. WriteFails \/ Killed => ~Uninterrupted'
  <2> SUFFICES ASSUME WriteFails \/ Killed, NEW b \in Budget PROVE budget'["kill"] # b["kill"]
    BY DEF Uninterrupted
  <2>1. budget'["kill"] = budget["kill"] - 1
    BY <1>1 DEF WriteFails, Killed, Spend
  <2>2. budget["kill"] <= b["kill"]
    BY DEF KillsLeft
  <2> QED
    BY <1>1, <1>3, <2>1, <2>2
<1> QED
  BY <1>4, <1>5, <1>6

\* A page that is published is open, unless it was sent before.
LEMMA PublishOpens ==
    ASSUME NEW s, NEW key, NEW lines, Publish(s, key, lines), NEW page,
           page \in sent', page \notin open'
    PROVE  page \in sent /\ page \notin open
BY DEF Publish

\* The only step that leaves a unit's key sent and not open is the clear of it.
LEMMA DeadByClear ==
    ASSUME Typed, [Next]_vars, NEW u \in Unit, NEW k,
           <<u, k>> \in sent', <<u, k>> \notin open'
    PROVE  \/ <<u, k>> \in sent /\ <<u, k>> \notin open
           \/ PublishClear(u) /\ k = prior[u].key
<1> USE DEF boxVars, tickVars, pageVars, history
<1>0. u # "critical" /\ u # "warning" /\ queued \subseteq {"warning"}
  BY Subjects DEF Typed
<1>1. CASE UNCHANGED <<sent, open>>
  BY <1>1
<1>2. CASE MarkerExpires
  BY <1>2 DEF MarkerExpires
<1>3. CASE PublishTiers \/ FallbackPage \/ \E v \in Unit : PublishUnit(v)
  <2>1. CASE UNCHANGED <<sent, open>>
    BY <2>1
  <2>2. ASSUME NEW s, NEW key, NEW lines, Publish(s, key, lines)
        PROVE  <<u, k>> \in sent /\ <<u, k>> \notin open
    BY <2>2, PublishOpens
  <2>3. CASE FallbackPage
    BY <2>2, <2>3 DEF FallbackPage
  <2>4. CASE PublishTiers
    BY <2>1, <2>2, <2>4 DEF PublishTiers
  <2>5. ASSUME NEW v \in Unit, PublishUnit(v)
        PROVE  <<u, k>> \in sent /\ <<u, k>> \notin open
    BY <2>2, <2>5 DEF PublishUnit
  <2> QED
    BY <1>3, <2>3, <2>4, <2>5
<1>4. CASE EmitEnvelope
  <2>1. sent' = sent /\ open' = open \ {<<s, prior[s].key>> : s \in queued}
    BY <1>4 DEF EmitEnvelope
  <2> QED
    BY <1>0, <2>1
<1>5. ASSUME NEW s \in Subject, FallbackClear(s)
      PROVE  <<u, k>> \in sent /\ <<u, k>> \notin open
  <2>1. sent' = sent /\ s \in queued /\ open' \in {open, open \ {<<s, prior[s].key>>}}
    BY <1>5 DEF FallbackClear, ChannelClear
  <2> QED
    BY <1>0, <2>1
<1>6. ASSUME NEW s \in Subject, PublishClear(s)
      PROVE  \/ <<u, k>> \in sent /\ <<u, k>> \notin open
             \/ s = u /\ k = prior[u].key
  <2>1. sent' = sent /\ open' \in {open, open \ {<<s, prior[s].key>>}}
    BY <1>6 DEF PublishClear, ChannelClear
  <2> QED
    BY <2>1
<1>7. CASE \/ TickStart \/ SampleEnds \/ \E v \in Unit : ReadResult(v) \/ Classify(v)
           \/ EnvelopeFails \/ FallbackEnds \/ WriteState \/ WriteFails \/ Killed
  <2>1. UNCHANGED <<sent, open>>
    BY <1>7 DEF TickStart, SampleEnds, ReadResult, Classify, EnvelopeFails, FallbackEnds,
                WriteState, WriteFails, Killed
  <2> QED
    BY <1>1, <2>1
<1>8. CASE BoxMoves /\ ~MarkerExpires
  <2>1. UNCHANGED <<sent, open>>
    BY <1>8 DEF BoxMoves, RunStarts, RunEnds, Vacuum, ProblemChanges
  <2> QED
    BY <1>1, <2>1
<1>9. CASE UNCHANGED vars
  BY <1>1, <1>9 DEF vars
<1> QED
  BY <1>2, <1>3, <1>4, <1>5, <1>6, <1>7, <1>8, <1>9 DEF Next, TickMoves

\* A key this tick leaves behind is older than the unit's last run and than the
\* key it leaves it for.
LEMMA GoneIsOlder ==
    ASSUME Typed, NEW u \in Unit, UnitOK(u), phase \in Late, u \in Gone(now)
    PROVE  /\ prior[u] # NoPage /\ prior[u].key.run < unit[u].run
           /\ found[u] # NoPage => prior[u].key.run < found[u].run
           /\ now[u] # NoPage => prior[u].key.run < now[u].key.run
<1>1. prior[u] # NoPage /\ FileOK(u)
  BY DEF Gone, UnitOK
<1>2. CASE now[u] = NoPage
  <2>1. found[u] = NoPage /\ SawNothing(u)
    BY <1>2 DEF UnitOK, SawNothing, Late
  <2> QED
    BY <1>1, <1>2, <2>1 DEF UnitOK
<1>3. CASE now[u] # NoPage
  <2>1. RowOK(u) /\ Later(u, found[u]) /\ now[u].key # prior[u].key
    BY <1>1, <1>3 DEF UnitOK, RowOK, Gone
  <2>2. now[u].key = found[u] /\ ~SameEpisode(prior[u].key, found[u])
    BY <1>1, <2>1 DEF RowOK
  <2>3. PICK l \in prior[u].lines : TRUE
    BY <1>1 DEF FileOK
  <2>4. prior[u].key.run <= l.run /\ l.run <= found[u].run /\ prior[u].key.run # found[u].run
    BY <1>1, <2>1, <2>2 DEF FileOK, Later
  <2>5. prior[u].key.run \in Nat /\ l.run \in Nat /\ found[u].run \in Nat /\ unit[u].run \in Nat
    BY <1>1, <2>1, UnitFacts DEF RowOK
  <2>6. found[u].run <= unit[u].run
    BY <2>1 DEF Later, Borne
  <2> QED
    BY <1>1, <2>2, <2>4, <2>5, <2>6
<1> QED
  BY <1>2, <1>3

\* What a sample says of a unit comes from this reading or from the file.
LEMMA SampleFrom ==
    ASSUME Typed, NEW u \in Unit, Classify(u), sample'[u] # NoPage
    PROVE  \/ sample'[u] = sample[u]
           \/ sample'[u].run = reading.run
           \/ prior[u] # NoPage /\ sample'[u] \in prior[u].lines
<1>1. sample \in [Unit -> Finding \cup {NoPage}]
  BY DEF Typed
<1>2. CASE \E l \in CarriedLines(u) : sample' = [sample EXCEPT ![u] = l]
  BY <1>1, <1>2 DEF CarriedLines
<1>3. CASE \E d \in Attributed(u, reading.result, reading.run) :
              sample' = [sample EXCEPT ![u] =
                 [result |-> reading.result, driver |-> d, run |-> reading.run]]
  BY <1>1, <1>3
<1> QED
  BY <1>2, <1>3 DEF Classify

\* Before and in the samples: what is learnt of a unit is newer than a dead key.
LEMMA OlderSampling ==
    ASSUME Typed, Tracked, Tracked', RowsFollow, NEW u \in Unit, NEW k \in Finding, Older(u, k),
           \/ BoxMoves \/ TickStart \/ SampleEnds
           \/ \E v \in Unit : ReadResult(v) \/ Classify(v)
    PROVE  Older(u, k)'
<1> USE DEF boxVars, tickVars, pageVars, history
<1>0. /\ k.run \in Nat /\ unit[u].run \in Nat /\ UnitOK(u)
      /\ reading # NoPage => reading.run \in Nat
      /\ prior[u] # NoPage => prior[u].key.run \in Nat
  BY UnitFacts DEF Tracked
<1>1. ASSUME NEW v \in Unit, RunStarts(v) \/ RunEnds(v) PROVE Older(u, k)'
  <2>1. unit'[u].run \in {unit[u].run, unit[u].run + 1}
    <3>1. unit[v].run \in Nat /\ unit[v].run + 1 \in Nat
      BY UnitFacts
    <3>2. unit \in [Unit -> [active : BOOLEAN, result : Result \cup {"success"},
                            run : 0 .. MaxRun, driver : Label]]
      BY DEF Typed
    <3>3. CASE RunStarts(v)
      BY ONLY <3>2, <3>3, u \in Unit DEF RunStarts
    <3>4. CASE RunEnds(v)
      <4>1. PICK r, d :
               unit' = [unit EXCEPT ![v].active = FALSE, ![v].result = r, ![v].driver = d]
        BY ONLY <3>4 DEF RunEnds
      <4> QED
        BY ONLY <3>2, <4>1, u \in Unit
    <3> QED
      BY <1>1, <3>3, <3>4
  <2>2. UNCHANGED <<prior, now, sample, found, reading, phase>>
    BY <1>1 DEF RunStarts, RunEnds
  <2> QED
    BY <1>0, <2>1, <2>2 DEF Older, Gone
<1>2. CASE \/ \E v \in Unit : Vacuum(v)
           \/ (\E p \in Problem : ProblemChanges(p)) \/ MarkerExpires
  <2>1. UNCHANGED <<prior, now, sample, found, reading, phase>>
    BY <1>2 DEF Vacuum, ProblemChanges, MarkerExpires
  <2>2. unit'[u].run = unit[u].run
    BY <1>2 DEF Vacuum, ProblemChanges, MarkerExpires, Typed
  <2> QED
    BY <2>1, <2>2 DEF Older, Gone
<1>3. CASE TickStart
  BY <1>3 DEF TickStart, Older, NoFindings, Late, Typed
<1>4. ASSUME NEW v \in Unit, ReadResult(v) PROVE Older(u, k)'
  BY <1>4 DEF ReadResult, Older, Gone
<1>5. ASSUME NEW v \in Unit, Classify(v) PROVE Older(u, k)'
  <2>1. /\ UNCHANGED <<unit, prior, now, found, phase>> /\ reading' = NoPage
        /\ phase = "sample" /\ reading # NoPage /\ reading.unit = v
    BY <1>5 DEF Classify
  <2>2. sample'[u] # NoPage => k.run < sample'[u].run
    <3>1. CASE u # v
      <4>1. sample'[u] = sample[u]
        BY <1>5, <3>1 DEF Classify, Typed
      <4> QED
        BY <2>1, <4>1 DEF Older
    <3>2. CASE u = v
      <4>1. k.run < reading.run /\ (sample[u] # NoPage => k.run < sample[u].run)
        BY <2>1, <3>2 DEF Older
      <4>2. ASSUME prior[u] # NoPage, NEW l \in prior[u].lines PROVE k.run < l.run
        <5>1. k.run < prior[u].key.run
          BY <2>1, <4>2 DEF Older, Late
        <5>2. prior[u].key.run <= l.run
          BY <1>0, <4>2 DEF UnitOK, FileOK
        <5>3. l.run \in Nat
          BY <4>2, UnitFacts
        <5> QED
          BY <1>0, <4>2, <5>1, <5>2, <5>3
      <4> QED
        BY <1>5, <3>2, <4>1, <4>2, SampleFrom
    <3> QED
      BY <3>1, <3>2
  <2> QED
    BY <2>1, <2>2 DEF Older, Gone
<1>6. CASE SampleEnds
  <2>1. /\ UNCHANGED <<unit, prior, now>> /\ reading = NoPage /\ reading' = NoPage
        /\ phase = "sample" /\ sample' \in {sample, NoFindings}
    BY <1>6 DEF SampleEnds
  <2>2. found'[u] \in {NoPage, sample[u]}
    BY <1>6, FoundAfter
  <2>3. sample'[u] # NoPage => sample'[u] = sample[u]
    BY <2>1 DEF NoFindings
  <2> QED
    BY <2>1, <2>2, <2>3 DEF Older, Late
<1> QED
  BY <1>1, <1>2, <1>3, <1>4, <1>5, <1>6 DEF BoxMoves

\* The pages and the clears, and what is written down of them.
LEMMA OlderPublishing ==
    ASSUME Typed, Tracked, Tracked', RowsFollow, NEW u \in Unit, NEW k \in Finding, Older(u, k),
           \/ PublishTiers \/ FallbackPage \/ EmitEnvelope \/ EnvelopeFails \/ FallbackEnds
           \/ WriteState \/ \E v \in Unit : PublishUnit(v)
           \/ \E s \in Subject : PublishClear(s) \/ FallbackClear(s)
    PROVE  Older(u, k)'
<1> USE DEF boxVars, tickVars, pageVars, history
<1>1. ASSUME NEW v \in Unit, PublishUnit(v) PROVE Older(u, k)'
  <2>1. /\ UNCHANGED <<unit, prior, sample, found, reading, phase>> /\ phase = "units"
    BY <1>1 DEF PublishUnit
  <2>2. now'[u] # NoPage => k.run < now'[u].key.run
    <3>1. now'[u] # NoPage =>
            /\ found[u] # NoPage
            /\ \/ prior[u] # NoPage /\ now'[u].key = prior[u].key
               \/ now'[u].key = found[u]
      BY <2>1 DEF Tracked, UnitOK, RowOK
    <3> QED
      BY <2>1, <3>1 DEF Older, Late
  <2> QED
    BY <2>1, <2>2 DEF Older, Late
<1>2. CASE PublishTiers
  <2>1. /\ UNCHANGED <<unit, prior, sample, found, reading>>
        /\ phase = "units" /\ phase' = "clear"
    BY <1>2 DEF PublishTiers
  <2>2. now'[u] = now[u]
    <3>1. now \in [Subject -> Page \cup {NoPage}] /\ u \in Subject /\ u # "critical" /\ u # "warning"
      BY Subjects DEF Typed, Rows
    <3> QED
      BY <1>2, <3>1 DEF PublishTiers
  <2> QED
    BY <2>1, <2>2 DEF Older, Late
<1>3. CASE \/ FallbackPage \/ EmitEnvelope \/ EnvelopeFails \/ FallbackEnds
           \/ \E s \in Subject : PublishClear(s) \/ FallbackClear(s)
  <2>1. /\ UNCHANGED <<unit, prior, now, sample, found, reading>>
        /\ phase \in Late /\ phase' \in Late
    BY <1>3 DEF FallbackPage, EmitEnvelope, EnvelopeFails, FallbackEnds, PublishClear,
                FallbackClear, Late
  <2> QED
    BY <2>1 DEF Older, Gone, Late
<1>4. CASE WriteState
  <2>1. Forget /\ prior' = now /\ UNCHANGED unit
    BY <1>4 DEF WriteState, Written
  <2> QED
    BY <2>1, ForgetUnit DEF Older
<1> QED
  BY <1>1, <1>2, <1>3, <1>4

\* A key that is cleared joins the dead ones.
LEMMA OlderCleared ==
    ASSUME Typed, Tracked, NEW u \in Unit, PublishClear(u),
           NEW k, k = prior[u].key
    PROVE  Older(u, k)'
<1>1. /\ UNCHANGED <<unit, prior, now, sample, found, reading, phase>>
      /\ phase = "clear" /\ u \in Gone(now) /\ UnitOK(u) /\ reading = NoPage
  BY DEF PublishClear, Tracked
<1>2. /\ prior[u] # NoPage /\ prior[u].key.run < unit[u].run
      /\ found[u] # NoPage => prior[u].key.run < found[u].run
      /\ now[u] # NoPage => prior[u].key.run < now[u].key.run
  BY <1>1, GoneIsOlder DEF Late
<1> QED
  BY <1>1, <1>2 DEF Older, Late, Gone

LEMMA DeadKeysStep ==
    ASSUME Typed, Typed', Tracked, Tracked', RowsFollow, DeadKeysOlder, [Next]_vars,
           ~WriteFails, ~Killed
    PROVE  DeadKeysOlder'
<1> SUFFICES ASSUME NEW u \in Unit, NEW k \in Finding, <<u, k>> \in sent', <<u, k>> \notin open'
             PROVE  Older(u, k)'
  BY DEF DeadKeysOlder
<1>1. CASE <<u, k>> \in sent /\ <<u, k>> \notin open
  <2>1. Older(u, k)
    BY <1>1 DEF DeadKeysOlder
  <2>2. CASE UNCHANGED vars
    BY <2>1, <2>2 DEF vars, boxVars, tickVars, pageVars, Older, Gone
  <2>3. CASE \/ BoxMoves \/ TickStart \/ SampleEnds
             \/ \E v \in Unit : ReadResult(v) \/ Classify(v)
    BY <2>1, <2>3, OlderSampling
  <2>4. CASE \/ PublishTiers \/ FallbackPage \/ EmitEnvelope \/ EnvelopeFails \/ FallbackEnds
             \/ WriteState \/ \E v \in Unit : PublishUnit(v)
             \/ \E s \in Subject : PublishClear(s) \/ FallbackClear(s)
    BY <2>1, <2>4, OlderPublishing
  <2> QED
    BY <2>2, <2>3, <2>4 DEF Next, TickMoves
<1>2. CASE PublishClear(u) /\ k = prior[u].key
  BY <1>2, OlderCleared
<1> QED
  BY <1>1, <1>2, DeadByClear

\* A unit whose page was delivered and is written down as standing has not been
\* told to the reader as resolved, as long as every tick came to its end (main,
\* finalize_alert_lifecycle): the clear of a key is followed by younger keys only.
THEOREM StandingPagesOpen == Spec => []StandingPageOpen
<1> DEFINE Inv == Tally /\ Tracked /\ Standings
<1>1. Init => Inv
  <2> SUFFICES ASSUME Init PROVE Standings
    BY TallyInit, TrackedInit
  <2>1. DeadKeysOlder
    BY DEF Init, DeadKeysOlder
  <2>2. KillsLeft
    <3>1. budget \in Budget /\ budget["kill"] \in Nat
      BY DEF Init, Event
    <3> QED
      BY <3>1, KillAssumption DEF KillsLeft
  <2> QED
    BY <2>1, <2>2 DEF Standings
<1>2. Inv /\ [Next]_vars => Inv'
  <2> SUFFICES ASSUME Inv, [Next]_vars PROVE Inv'
    OBVIOUS
  <2>1. Tally' /\ Tracked'
    BY TallyStep, TrackedStep
  <2>2. Typed /\ Typed' /\ RowsFollow
    BY <2>1 DEF Tally, TypeInv
  <2>3. /\ KillsLeft' /\ (Uninterrupted' => Uninterrupted)
        /\ WriteFails \/ Killed => ~Uninterrupted'
    BY <2>2, KillsStep DEF Standings
  <2>4. Uninterrupted' => DeadKeysOlder'
    BY <2>1, <2>2, <2>3, DeadKeysStep DEF Standings
  <2> QED
    BY <2>1, <2>3, <2>4 DEF Standings
<1>3. Inv => StandingPageOpen
  <2> SUFFICES ASSUME Inv, Uninterrupted, phase = "idle", NEW u \in Unit,
                      prior[u] # NoPage, <<u, prior[u].key>> \in sent,
                      <<u, prior[u].key>> \notin open
               PROVE  FALSE
    BY DEF StandingPageOpen
  <2>1. Typed
    BY DEF Tally, TypeInv
  <2>2. prior[u].key \in Finding /\ prior[u].key.run \in Nat
    BY <2>1, UnitFacts
  <2>3. Older(u, prior[u].key)
    BY <2>2 DEF Standings, DeadKeysOlder
  <2> QED
    BY <2>2, <2>3 DEF Older, Late
<1> QED
  BY <1>1, <1>2, <1>3, PTL DEF Spec

-----------------------------------------------------------------------------
\* As long as every run of unit u ends the way its page says, and the journal
\* keeps what is needed to tell so, all that a tick learns of u is of that page's
\* episode, and a tick in which u did not move under the reader finds it failing.
Undecayed(u) == Steady(u) /\ decay[u] = "kept"

SameAsPage(u) ==
    /\ ~unit[u].active /\ unit[u].run # prior[u].key.run =>
          unit[u].result = prior[u].key.result /\ unit[u].driver = prior[u].key.driver
    /\ reading # NoPage /\ reading.unit = u /\ reading.result # "success" =>
          reading.result = prior[u].key.result
    /\ \A l \in prior[u].lines : SameEpisode(prior[u].key, l)
    /\ sample[u] # NoPage => SameEpisode(prior[u].key, sample[u])
    /\ found[u] # NoPage => SameEpisode(prior[u].key, found[u])
    /\ ~torn => /\ reading # NoPage /\ reading.unit = u => reading.result = unit[u].result
                /\ ~SawNothing(u)

PagesKept == \A u \in Unit : Undecayed(u) => SameAsPage(u)

\* What a tick learns of a unit is kept as long as the tick is.
LEMMA SameAsPageFrame ==
    ASSUME NEW u \in Unit, SameAsPage(u),
           unit'[u].active = unit[u].active, unit'[u].run = unit[u].run,
           unit'[u].result = unit[u].result,
           unit'[u].driver = unit[u].driver \/ unit[u].run = prior[u].key.run,
           prior'[u] = prior[u], sample'[u] = sample[u], found'[u] = found[u],
           reading' # NoPage /\ reading'.unit = u => reading' = reading,
           ~torn' => ~torn, SawNothing(u)' => SawNothing(u)
    PROVE  SameAsPage(u)'
BY DEF SameAsPage

\* Only writing the file down makes a page's history steadier.
LEMMA UndecayedBefore ==
    ASSUME Typed, [Next]_vars, ~WriteState, NEW u \in Unit, Undecayed(u)'
    PROVE  /\ Undecayed(u) /\ prior[u] # NoPage /\ UNCHANGED prior
           /\ seen'[u] \subseteq {<<prior[u].key.result, prior[u].key.driver>>}
           /\ Vacuum(u) => prior[u].key.run = unit[u].run
<1> USE DEF boxVars, tickVars, pageVars, history
<1>1. UNCHANGED prior
  <2>1. CASE BoxMoves \/ UNCHANGED vars
    BY <2>1 DEF vars, BoxMoves, RunStarts, RunEnds, Vacuum, ProblemChanges, MarkerExpires
  <2>2. CASE TickStart \/ SampleEnds \/ \E v \in Unit : ReadResult(v) \/ Classify(v)
    BY <2>2 DEF TickStart, SampleEnds, ReadResult, Classify
  <2>3. CASE PublishTiers \/ FallbackPage \/ \E v \in Unit : PublishUnit(v)
    BY <2>3 DEF PublishTiers, FallbackPage, PublishUnit
  <2>4. CASE \/ EmitEnvelope \/ EnvelopeFails \/ FallbackEnds \/ WriteFails \/ Killed
             \/ \E s \in Subject : PublishClear(s) \/ FallbackClear(s)
    BY <2>4 DEF EmitEnvelope, EnvelopeFails, FallbackEnds, WriteFails, Killed,
                PublishClear, FallbackClear
  <2> QED
    BY <2>1, <2>2, <2>3, <2>4 DEF Next, TickMoves
<1>2. prior[u] # NoPage /\ seen'[u] \subseteq {<<prior[u].key.result, prior[u].key.driver>>}
  BY <1>1 DEF Undecayed, Steady
<1>3. seen[u] \subseteq seen'[u]
  <2>1. CASE \E v \in Unit : RunEnds(v)
    BY <2>1 DEF RunEnds, Typed
  <2>2. CASE UNCHANGED seen
    BY <2>2
  <2>3. CASE (BoxMoves /\ ~(\E v \in Unit : RunEnds(v))) \/ UNCHANGED vars
    BY <2>2, <2>3 DEF vars, BoxMoves, RunStarts, Vacuum, ProblemChanges, MarkerExpires
  <2>4. CASE TickStart \/ SampleEnds \/ \E v \in Unit : ReadResult(v) \/ Classify(v)
    BY <2>2, <2>4 DEF TickStart, SampleEnds, ReadResult, Classify
  <2>5. CASE PublishTiers \/ FallbackPage \/ \E v \in Unit : PublishUnit(v)
    BY <2>2, <2>5 DEF PublishTiers, FallbackPage, PublishUnit
  <2>6. CASE \/ EmitEnvelope \/ EnvelopeFails \/ FallbackEnds \/ WriteFails \/ Killed
             \/ \E s \in Subject : PublishClear(s) \/ FallbackClear(s)
    BY <2>2, <2>6 DEF EmitEnvelope, EnvelopeFails, FallbackEnds, WriteFails, Killed,
                PublishClear, FallbackClear
  <2> QED
    BY <2>1, <2>3, <2>4, <2>5, <2>6 DEF Next, TickMoves
<1>4. decay[u] = "kept" /\ (Vacuum(u) => prior[u].key.run = unit[u].run)
  <2>0. decay'[u] = "kept"
    BY DEF Undecayed
  <2>1. ASSUME NEW v \in Unit, Vacuum(v)
        PROVE  decay[u] = "kept" /\ (u = v => prior[u].key.run = unit[u].run)
    <3>1. CASE u # v
      BY <2>0, <2>1, <3>1 DEF Vacuum, Typed
    <3>2. CASE u = v
      <4>1. decay'[u] = IF prior[u].key.run = unit[u].run THEN decay[u]
                        ELSE IF \E l \in prior[u].lines : l.run = unit[u].run THEN "published"
                        ELSE "unseen"
        BY <1>2, <2>1, <3>2 DEF Vacuum, Typed
      <4> QED
        BY <2>0, <4>1
    <3> QED
      BY <3>1, <3>2
  <2>2. CASE UNCHANGED decay
    BY <2>0, <2>1, <2>2
  <2>3. CASE (BoxMoves /\ ~(\E v \in Unit : Vacuum(v))) \/ UNCHANGED vars
    BY <2>2, <2>3 DEF vars, BoxMoves, RunStarts, RunEnds, ProblemChanges, MarkerExpires
  <2>4. CASE TickStart \/ SampleEnds \/ \E v \in Unit : ReadResult(v) \/ Classify(v)
    BY <2>2, <2>4 DEF TickStart, SampleEnds, ReadResult, Classify
  <2>5. CASE PublishTiers \/ FallbackPage \/ \E v \in Unit : PublishUnit(v)
    BY <2>2, <2>5 DEF PublishTiers, FallbackPage, PublishUnit
  <2>6. CASE \/ EmitEnvelope \/ EnvelopeFails \/ FallbackEnds \/ WriteFails \/ Killed
             \/ \E s \in Subject : PublishClear(s) \/ FallbackClear(s)
    BY <2>2, <2>6 DEF EmitEnvelope, EnvelopeFails, FallbackEnds, WriteFails, Killed,
                PublishClear, FallbackClear
  <2> QED
    BY <2>1, <2>3, <2>4, <2>5, <2>6 DEF Next, TickMoves
<1> QED
  BY <1>1, <1>2, <1>3, <1>4 DEF Undecayed, Steady

\* A run that starts or ends between the two reads of a sample tears it; one that
\* ends as the page says leaves the unit as the page says.
LEMMA SameAsPageRun ==
    ASSUME Typed, Tracked, NEW u \in Unit, SameAsPage(u), prior[u] # NoPage,
           seen'[u] \subseteq {<<prior[u].key.result, prior[u].key.driver>>},
           NEW v \in Unit, RunStarts(v) \/ RunEnds(v)
    PROVE  SameAsPage(u)'
<1> USE DEF boxVars, tickVars, pageVars, history
<1>0. /\ UNCHANGED <<prior, sample, found, reading, phase, toRead, taken>> /\ Torn(v)
      /\ unit \in [Unit -> [active : BOOLEAN, result : Result \cup {"success"},
                            run : 0 .. MaxRun, driver : Label]]
  BY DEF RunStarts, RunEnds, Typed
<1>1. SawNothing(u)' <=> SawNothing(u)
  BY <1>0 DEF SawNothing
<1>2. ~torn' => ~torn /\ ~(reading # NoPage /\ reading.unit = v)
  BY <1>0 DEF Torn
<1>3. CASE u # v
  <2>1. unit'[u] = unit[u]
    BY <1>0, <1>3 DEF RunStarts, RunEnds
  <2> QED
    BY <1>0, <1>1, <1>2, <2>1, SameAsPageFrame
<1>4. CASE u = v
  <2>1. ~unit'[u].active => unit'[u].result = prior[u].key.result /\ unit'[u].driver = prior[u].key.driver
    <3>1. CASE RunStarts(v)
      <4>1. unit'[u].active
        BY ONLY <1>0, <1>4, <3>1 DEF RunStarts
      <4> QED
        BY <4>1
    <3>2. CASE RunEnds(v)
      <4>1. PICK r, d :
               /\ unit' = [unit EXCEPT ![v].active = FALSE, ![v].result = r, ![v].driver = d]
               /\ seen' = [seen EXCEPT ![v] = @ \cup {<<r, d>>}]
        BY ONLY <3>2 DEF RunEnds
      <4>2. unit'[u].result = r /\ unit'[u].driver = d
        BY ONLY <1>0, <1>4, <4>1
      <4>3. <<r, d>> \in seen'[u]
        BY <1>4, <4>1 DEF Typed
      <4>4. <<r, d>> = <<prior[u].key.result, prior[u].key.driver>>
        BY <4>3
      <4> QED
        BY <4>2, <4>4
    <3> QED
      BY <3>1, <3>2
  <2> QED
    BY <1>0, <1>1, <1>2, <1>4, <2>1 DEF SameAsPage
<1> QED
  BY <1>3, <1>4

\* A unit that is read while it is not running failed as its page says.
LEMMA SameAsPageRead ==
    ASSUME Typed, Tracked, NEW u \in Unit, SameAsPage(u), prior[u] # NoPage,
           NEW v \in Unit, ReadResult(v)
    PROVE  SameAsPage(u)'
<1> USE DEF ReadResult, boxVars, tickVars, pageVars, history
<1>1. SawNothing(u)' <=> SawNothing(u)
  BY DEF SawNothing
<1>2. CASE u # v
  BY <1>1, <1>2, SameAsPageFrame
<1>3. CASE u = v
  <2>1. unit[u].result # "success" => unit[u].result = prior[u].key.result
    <3>1. unit[u].active => unit[u].result = "success"
      BY DEF Tracked, UnitOK
    <3>2. unit[u].run = prior[u].key.run => unit[u].result = prior[u].key.result
      BY DEF Tracked, UnitOK, FileOK, Borne
    <3> QED
      BY <3>1, <3>2 DEF SameAsPage
  <2> QED
    BY <1>1, <1>3, <2>1 DEF SameAsPage
<1> QED
  BY <1>2, <1>3

\* What a sample makes of it is of the page's episode, and is something unless
\* the unit moved since it was read.
LEMMA SameAsPageClassify ==
    ASSUME Typed, Tracked, NEW u \in Unit, SameAsPage(u), prior[u] # NoPage,
           NEW v \in Unit, Classify(v)
    PROVE  SameAsPage(u)'
<1>0. /\ UNCHANGED <<unit, prior, found, phase, taken, torn>>
      /\ phase = "sample" /\ reading' = NoPage /\ toRead' = toRead \ {v}
      /\ reading # NoPage /\ reading.unit = v
  BY DEF Classify, boxVars, pageVars, history
<1>1. CASE u # v
  <2>1. sample'[u] = sample[u]
    BY <1>1 DEF Classify, Typed
  <2>2. SawNothing(u)' => SawNothing(u)
    BY <1>0, <1>1, <2>1 DEF SawNothing
  <2> QED
    BY <1>0, <2>1, <2>2, SameAsPageFrame
<1>2. CASE u = v
  <2>0. FileOK(u) /\ ReadOK(u) /\ UnitOK(u)
    BY <1>0, <1>2 DEF Tracked, UnitOK
  <2>1. sample'[u] # NoPage => SameEpisode(prior[u].key, sample'[u])
    <3>1. CASE \E l \in CarriedLines(u) : sample' = [sample EXCEPT ![u] = l]
      <4>1. sample'[u] \in prior[u].lines
        BY <3>1 DEF CarriedLines, Typed
      <4> QED
        BY <4>1 DEF SameAsPage
    <3>2. CASE /\ ~unit[u].active /\ reading.result # "success"
               /\ \E d \in Attributed(u, reading.result, reading.run) :
                     sample' = [sample EXCEPT ![u] =
                        [result |-> reading.result, driver |-> d, run |-> reading.run]]
      <4>1. PICK d \in Attributed(u, reading.result, reading.run) :
               sample' = [sample EXCEPT ![u] =
                  [result |-> reading.result, driver |-> d, run |-> reading.run]]
        BY <3>2
      <4>2. sample'[u] = [result |-> reading.result, driver |-> d, run |-> reading.run]
        BY <4>1 DEF Typed
      <4>3. CASE reading.run = prior[u].key.run
        BY <1>0, <1>2, <2>0, <3>2, <4>2, <4>3, PinnedDriver
      <4>4. CASE reading.run # prior[u].key.run
        <5>1. Pinned(u, reading.result, reading.run) = {}
          BY <4>4 DEF Pinned
        <5>2. d = unit[u].driver
          BY <5>1 DEF Attributed
        <5>3. PICK l \in prior[u].lines : TRUE
          BY <2>0 DEF FileOK
        <5>4. /\ prior[u].key.run <= l.run /\ l.run <= reading.run /\ reading.run <= unit[u].run
          BY <2>0 DEF FileOK, ReadOK
        <5>5. prior[u].key.run \in Nat /\ l.run \in Nat /\ reading.run \in Nat /\ unit[u].run \in Nat
          BY <1>0, UnitFacts
        <5>6. unit[u].run # prior[u].key.run
          BY <4>4, <5>4, <5>5
        <5>7. unit[u].driver = prior[u].key.driver /\ reading.result = prior[u].key.result
          BY <1>0, <1>2, <3>2, <5>6 DEF SameAsPage
        <5> QED
          BY <4>2, <5>2, <5>7 DEF SameEpisode
      <4> QED
        BY <4>3, <4>4
    <3>3. CASE UNCHANGED sample
      BY <3>3 DEF SameAsPage
    <3> QED
      BY <1>2, <3>1, <3>2, <3>3 DEF Classify
  <2>2. ~torn => sample'[u] # NoPage
    <3> SUFFICES ASSUME ~torn PROVE sample'[u] # NoPage
      OBVIOUS
    <3>1. reading.result = unit[u].result
      BY <1>0, <1>2 DEF SameAsPage
    <3>2. CarriedLines(u) # {}
      BY <2>0 DEF CarriedLines, FileOK
    <3>3. ~unit[u].active => unit[u].result # "success"
      <4>1. prior[u].key.result # "success"
        BY UnitFacts
      <4>2. unit[u].run = prior[u].key.run => unit[u].result = prior[u].key.result
        BY <2>0 DEF FileOK, Borne
      <4> QED
        BY <4>1, <4>2 DEF SameAsPage
    <3>4. CASE unit[u].active
      <4>1. PICK l \in CarriedLines(u) : sample' = [sample EXCEPT ![u] = l]
        BY <1>2, <3>2, <3>4 DEF Classify
      <4>2. l # NoPage
        BY UnitFacts DEF CarriedLines
      <4> QED
        BY <4>1, <4>2 DEF Typed
    <3>5. CASE ~unit[u].active
      <4>1. PICK d \in Attributed(u, reading.result, reading.run) :
               sample' = [sample EXCEPT ![u] =
                  [result |-> reading.result, driver |-> d, run |-> reading.run]]
        BY <1>2, <3>1, <3>3, <3>5 DEF Classify
      <4>2. d \in Label /\ reading \in Read /\ reading.result \in Result
        BY <1>0, <3>1, <3>3, <3>5, <4>1, AttributedType DEF Typed, Read
      <4>3. [result |-> reading.result, driver |-> d, run |-> reading.run] \in Finding
        BY <4>2 DEF Finding, Read
      <4> QED
        BY <4>1, <4>3, UnitFacts DEF Typed
    <3> QED
      BY <3>4, <3>5
  <2>3. ~torn => ~SawNothing(u)'
    <3>1. ~torn => ~SawNothing(u)
      BY DEF SameAsPage
    <3> QED
      BY <1>0, <2>2, <3>1 DEF SawNothing
  <2> QED
    BY <1>0, <2>1, <2>3 DEF SameAsPage
<1> QED
  BY <1>1, <1>2

\* What all the samples found is of the page's episode too.
LEMMA SameAsPageSample ==
    ASSUME Typed, NEW u \in Unit, SameAsPage(u), SampleEnds
    PROVE  SameAsPage(u)'
<1>0. /\ UNCHANGED <<unit, prior, torn, reading>> /\ reading = NoPage
      /\ phase' \in {"sample", "units", "clear"} /\ phase' = "sample" => toRead' = Unit
      /\ sample' \in {sample, NoFindings}
  BY DEF SampleEnds, boxVars, pageVars, history
<1>1. found'[u] \in {NoPage, sample[u]} /\ (found'[u] = NoPage => SawNothing(u))
  BY FoundAfter
<1>2. sample'[u] # NoPage => sample'[u] = sample[u]
  BY <1>0 DEF NoFindings
<1>3. ~torn' => ~SawNothing(u)'
  BY <1>0, <1>1 DEF SameAsPage, SawNothing
<1> QED
  BY <1>0, <1>1, <1>2, <1>3 DEF SameAsPage

\* The row that is written down is of one episode, whether the file's or its own.
LEMMA SameAsPageWritten ==
    ASSUME Typed, Tracked, PagesKept, WriteState, NEW u \in Unit, Undecayed(u)'
    PROVE  SameAsPage(u)'
<1>0. /\ Forget /\ prior' = now /\ UNCHANGED unit /\ now[u] # NoPage
      /\ UnitOK(u) /\ RowOK(u) /\ found[u] # NoPage
      /\ seen'[u] \subseteq {<<now[u].key.result, now[u].key.driver>>}
      /\ seen'[u] = (IF prior[u] # NoPage /\ prior[u].key = now[u].key THEN seen[u]
                     ELSE {<<now[u].key.result, now[u].key.driver>>} \cup Standing(u))
      /\ decay'[u] = "kept"
      /\ decay'[u] = IF u \in Gone(now) THEN "kept" ELSE decay[u]
  BY DEF WriteState, Written, boxVars, Undecayed, Steady, Tracked, UnitOK, RowOK
<1>1. reading' = NoPage /\ sample'[u] = NoPage /\ found'[u] = NoPage /\ ~SawNothing(u)'
  BY <1>0, ForgetUnit
<1>2. CASE prior[u] # NoPage /\ prior[u].key = now[u].key
  <2>1. u \notin Gone(now)
    BY <1>0, <1>2 DEF Gone
  <2>2. SameAsPage(u)
    BY <1>0, <1>2, <2>1 DEF PagesKept, Undecayed, Steady
  <2>3. SameEpisode(now[u].key, found[u]) /\ now[u].lines = {found[u]}
    BY <1>0, <1>2, <2>2 DEF SameAsPage, RowOK
  <2> QED
    BY <1>0, <1>1, <1>2, <2>2, <2>3 DEF SameAsPage
<1>3. CASE ~(prior[u] # NoPage /\ prior[u].key = now[u].key)
  <2>1. now[u].key = found[u] /\ now[u].lines = {found[u]}
    BY <1>0, <1>3 DEF RowOK
  <2>2. Standing(u) \subseteq {<<now[u].key.result, now[u].key.driver>>}
    BY <1>0, <1>3
  <2>3. ~unit[u].active /\ unit[u].run # now[u].key.run =>
           <<unit[u].result, unit[u].driver>> = <<now[u].key.result, now[u].key.driver>>
    BY <2>2 DEF Standing
  <2> QED
    BY <1>0, <1>1, <2>1, <2>3 DEF SameAsPage, SameEpisode
<1> QED
  BY <1>2, <1>3

LEMMA PagesKeptStep ==
    ASSUME Typed, Tracked, PagesKept, [Next]_vars
    PROVE  PagesKept'
<1> USE DEF boxVars, tickVars, pageVars, history
<1> SUFFICES ASSUME NEW u \in Unit, Undecayed(u)' PROVE SameAsPage(u)'
  BY DEF PagesKept
<1>1. CASE WriteState
  BY <1>1, SameAsPageWritten
<1>2. CASE ~WriteState
  <2>0. /\ SameAsPage(u) /\ prior[u] # NoPage /\ prior' = prior
        /\ seen'[u] \subseteq {<<prior[u].key.result, prior[u].key.driver>>}
        /\ Vacuum(u) => prior[u].key.run = unit[u].run
    BY <1>2, UndecayedBefore DEF PagesKept
  <2>1. ASSUME NEW v \in Unit, RunStarts(v) \/ RunEnds(v) PROVE SameAsPage(u)'
    BY <2>0, <2>1, SameAsPageRun
  <2>2. CASE \/ \E v \in Unit : Vacuum(v)
             \/ (\E p \in Problem : ProblemChanges(p)) \/ MarkerExpires
    <3>1. UNCHANGED <<sample, found, reading, phase, toRead, taken, torn>>
      BY <2>2 DEF Vacuum, ProblemChanges, MarkerExpires
    <3>2. /\ unit'[u].active = unit[u].active /\ unit'[u].run = unit[u].run
          /\ unit'[u].result = unit[u].result
          /\ unit'[u].driver = unit[u].driver \/ Vacuum(u)
      BY <2>2 DEF Vacuum, ProblemChanges, MarkerExpires, Typed
    <3>3. SawNothing(u)' => SawNothing(u)
      BY <3>1 DEF SawNothing
    <3> QED
      BY <2>0, <3>1, <3>2, <3>3, SameAsPageFrame
  <2>3. CASE TickStart
    <3>1. /\ UNCHANGED <<unit, found>> /\ reading' = NoPage /\ sample'[u] = NoPage
          /\ ~SawNothing(u)'
      BY <2>3 DEF TickStart, NoFindings, SawNothing, Typed
    <3> QED
      BY <2>0, <3>1 DEF SameAsPage
  <2>4. ASSUME NEW v \in Unit, ReadResult(v) \/ Classify(v) PROVE SameAsPage(u)'
    BY <2>0, <2>4, SameAsPageRead, SameAsPageClassify
  <2>5. CASE SampleEnds
    BY <2>0, <2>5, SameAsPageSample
  <2>6. CASE \/ PublishTiers \/ FallbackPage \/ EmitEnvelope \/ EnvelopeFails \/ FallbackEnds
             \/ (\E v \in Unit : PublishUnit(v)) \/ UNCHANGED vars
             \/ \E s \in Subject : PublishClear(s) \/ FallbackClear(s)
    <3>1. /\ UNCHANGED <<unit, sample, found, reading, toRead, taken, torn>>
          /\ SawNothing(u)' => SawNothing(u)
      BY <2>6 DEF PublishTiers, FallbackPage, EmitEnvelope, EnvelopeFails, FallbackEnds,
                  PublishUnit, PublishClear, FallbackClear, vars, SawNothing
    <3> QED
      BY <2>0, <3>1, SameAsPageFrame
  <2>7. CASE WriteFails \/ Killed
    <3>1. Forget /\ UNCHANGED unit
      BY <2>7 DEF WriteFails, Killed
    <3>2. reading' = NoPage /\ sample'[u] = NoPage /\ found'[u] = NoPage /\ ~SawNothing(u)'
      BY <3>1, ForgetUnit
    <3> QED
      BY <2>0, <3>1, <3>2 DEF SameAsPage
  <2> QED
    BY <1>2, <2>1, <2>2, <2>3, <2>4, <2>5, <2>6, <2>7 DEF Next, TickMoves, BoxMoves
<1> QED
  BY <1>1, <1>2

\* A unit's clear is delivered by the channel and by nothing else.
LEMMA ClearedByChannel ==
    ASSUME Typed, [Next]_vars, NEW u \in Unit, ClearDelivered(u)
    PROVE  PublishClear(u)
<1> USE DEF boxVars, tickVars, pageVars, history, ClearDelivered
<1>0. u # "warning" /\ queued \subseteq {"warning"}
  BY Subjects DEF Typed
<1>1. CASE EmitEnvelope
  BY <1>0, <1>1 DEF EmitEnvelope
<1>2. CASE \E s \in Subject : FallbackClear(s)
  BY <1>0, <1>2 DEF FallbackClear, ChannelClear
<1>3. CASE \E s \in Subject : PublishClear(s)
  BY <1>3 DEF PublishClear, ChannelClear
<1>4. CASE WriteState \/ WriteFails \/ Killed
  BY <1>4 DEF WriteState, WriteFails, Killed, Forget
<1>5. CASE BoxMoves \/ UNCHANGED vars
  BY <1>5 DEF vars, BoxMoves, RunStarts, RunEnds, Vacuum, ProblemChanges, MarkerExpires
<1>6. CASE TickStart \/ SampleEnds \/ \E v \in Unit : ReadResult(v) \/ Classify(v)
  BY <1>6 DEF TickStart, SampleEnds, ReadResult, Classify
<1>7. CASE PublishTiers \/ FallbackPage \/ EnvelopeFails \/ FallbackEnds \/ \E v \in Unit : PublishUnit(v)
  BY <1>7 DEF PublishTiers, FallbackPage, EnvelopeFails, FallbackEnds, PublishUnit
<1> QED
  BY <1>1, <1>2, <1>3, <1>4, <1>5, <1>6, <1>7 DEF Next, TickMoves

\* A unit that keeps failing for one reason keeps its page (classify_timer,
\* service_failure_finding, confirm_intersect, publish_page): however many units,
\* samples, runs and publishes there are, no clear is sent for it unless a run
\* ended under the reader's eyes or the journal lost a later run than the key's.
THEOREM StandingPagesKept == Spec => StandingPageKept
<1> DEFINE Inv == Tally /\ Tracked /\ PagesKept
<1>1. Init => Inv
  <2> SUFFICES ASSUME Init PROVE PagesKept
    BY TallyInit, TrackedInit
  <2>1. \A u \in Unit : prior[u] = NoPage
    BY Subjects DEF Init, Clean
  <2> QED
    BY <2>1 DEF PagesKept, Undecayed, Steady
<1>2. Inv /\ [Next]_vars => Inv'
  BY TallyStep, TrackedStep, PagesKeptStep DEF Tally, TypeInv
<1>3. Inv /\ [Next]_vars =>
        [\A u \in Unit : ClearDelivered(u) => ~Steady(u) \/ torn \/ decay[u] # "kept"]_vars
  <2> SUFFICES ASSUME Inv, [Next]_vars, NEW u \in Unit, ClearDelivered(u),
                      Steady(u), ~torn, decay[u] = "kept"
               PROVE  FALSE
    OBVIOUS
  <2>1. Typed
    BY DEF Tally, TypeInv
  <2>2. phase = "clear" /\ u \in Gone(now) /\ UnitOK(u)
    BY <2>1, ClearedByChannel DEF PublishClear, Tracked
  <2>3. SameAsPage(u) /\ ~SawNothing(u)
    BY DEF PagesKept, Undecayed, SameAsPage
  <2>4. found[u] # NoPage /\ now[u] # NoPage
    BY <2>2, <2>3 DEF SawNothing, UnitOK, Late
  <2>5. prior[u] # NoPage /\ now[u].key # prior[u].key /\ RowOK(u)
    BY <2>2, <2>4 DEF Gone, UnitOK
  <2>6. SameEpisode(prior[u].key, found[u])
    BY <2>3, <2>4 DEF SameAsPage
  <2> QED
    BY <2>5, <2>6 DEF RowOK
<1> QED
  BY <1>1, <1>2, <1>3, PTL DEF Spec, StandingPageKept

-----------------------------------------------------------------------------
(***************************************************************************)
(* The watchdog implements Pages: what is gone of the file was told or is  *)
(* counted, and nothing else was told.                                     *)
(***************************************************************************)

\* From the rows' end on only what is gone is due, queued or cleared.
ToldOK ==
    phase \in {"clear", "deferred", "fallback", "write"} =>
       due \cup queued \cup cleared \subseteq Gone(now)

\* Every step keeps it: the rows are all known before the first clear is due.
LEMMA ToldStep == Tally /\ ToldOK /\ [Next]_vars => ToldOK'
<1> SUFFICES ASSUME Tally, ToldOK, [Next]_vars PROVE ToldOK'
  OBVIOUS
<1> USE DEF boxVars, tickVars, pageVars, history
<1>1. CASE BoxMoves \/ UNCHANGED vars
  <2>1. UNCHANGED <<phase, now, due, queued, cleared, prior>>
    BY <1>1 DEF BoxMoves, RunStarts, RunEnds, Vacuum, ProblemChanges, MarkerExpires, vars
  <2> QED
    BY <2>1 DEF ToldOK, Gone
<1>2. CASE TickStart \/ WriteState \/ WriteFails \/ Killed
  <2>1. phase' \in {"sample", "idle"}
    BY <1>2 DEF TickStart, WriteState, WriteFails, Killed, Forget
  <2> QED
    BY <2>1 DEF ToldOK
<1>3. ASSUME NEW u \in Unit, ReadResult(u) \/ Classify(u) \/ PublishUnit(u) PROVE ToldOK'
  <2>1. phase' \in {"sample", "units"}
    BY <1>3 DEF ReadResult, Classify, PublishUnit
  <2> QED
    BY <2>1 DEF ToldOK
<1>4. CASE SampleEnds
  <2>1. /\ phase = "sample" /\ UNCHANGED <<now, queued, cleared, prior>>
        /\ \/ phase' = "clear" /\ due' = Gone(Clean)
           \/ phase' \in {"sample", "units"}
    BY <1>4 DEF SampleEnds
  <2>2. now = Clean /\ queued = {} /\ cleared = {}
    BY <2>1 DEF Tally, RowsFollow, ClearsCounted
  <2>3. Gone(Clean) = Gone(now)'
    BY <2>1, <2>2 DEF Gone
  <2> QED
    BY <2>1, <2>2, <2>3 DEF ToldOK
<1>5. CASE PublishTiers
  <2>1. phase = "units" /\ due' = Gone(now') /\ UNCHANGED <<queued, cleared, prior>>
    BY <1>5 DEF PublishTiers
  <2>2. queued = {} /\ cleared = {} /\ Gone(now') = Gone(now)'
    BY <2>1 DEF Tally, ClearsCounted, Gone
  <2> QED
    BY <2>1, <2>2 DEF ToldOK
<1>6. ASSUME NEW s \in Subject, PublishClear(s) \/ FallbackClear(s) PROVE ToldOK'
  <2>1. /\ phase \in {"clear", "fallback"} /\ phase' = phase /\ now' = now /\ prior' = prior
        /\ s \in due \cup queued
        /\ due' \cup queued' \cup cleared' \subseteq due \cup queued \cup cleared \cup {s}
    BY <1>6 DEF PublishClear, FallbackClear, ChannelClear
  <2>2. Gone(now)' = Gone(now)
    BY <2>1 DEF Gone
  <2> QED
    BY <2>1, <2>2 DEF ToldOK
<1>7. CASE EmitEnvelope \/ EnvelopeFails \/ FallbackPage \/ FallbackEnds
  <2>1. /\ phase \in {"clear", "deferred", "fallback", "write"} /\ now' = now /\ prior' = prior
        /\ due' \cup queued' \cup cleared' \subseteq due \cup queued \cup cleared
    BY <1>7 DEF EmitEnvelope, EnvelopeFails, FallbackPage, FallbackEnds
  <2>2. Gone(now)' = Gone(now)
    BY <2>1 DEF Gone
  <2> QED
    BY <2>1, <2>2 DEF ToldOK
<1> QED
  BY <1>1, <1>2, <1>3, <1>4, <1>5, <1>6, <1>7 DEF Next, TickMoves

\* Pages counts as the watchdog does.
LEMMA OneCardinality == \A S : Paging!Cardinality(S) = Cardinality(S)
BY DEF Paging!Cardinality, Cardinality

\* The pages of the file that these subjects have.
RowPages(subjects) == {<<s, prior[s].key>> : s \in subjects}

\* They are pages, so many as there are subjects.
LEMMA RowPageCount ==
    ASSUME Tally, NEW S \in SUBSET {s \in Subject : prior[s] # NoPage}
    PROVE  /\ RowPages(S) \subseteq PagesOf(prior) /\ RowPages(S) \subseteq PageKey
           /\ IsFiniteSet(RowPages(S)) /\ Cardinality(RowPages(S)) = Cardinality(S)
           /\ Cardinality(S) \in Nat
<1>1. RowPages(S) \subseteq PagesOf(prior)
  BY DEF RowPages, PagesOf
<1>2. RowPages(S) \subseteq PageKey
  <2>1. prior \in Rows
    BY DEF Tally, TypeInv, Typed
  <2> QED
    BY <2>1, RowsType DEF RowPages, PageKey, Subject
<1>3. IsFiniteSet(S) /\ Cardinality(S) \in Nat
  BY FiniteSets
<1>4. IsFiniteSet(RowPages(S)) /\ Cardinality(RowPages(S)) = Cardinality(S)
  <2> DEFINE f == [s \in S |-> <<s, prior[s].key>>]
  <2>1. f \in [S -> RowPages(S)] /\ \A p \in RowPages(S) : \E s \in S : f[s] = p
    BY DEF RowPages
  <2>2. \A s, r \in S : f[s] = f[r] => s = r
    OBVIOUS
  <2>3. f \in Surjection(S, RowPages(S)) /\ f \in Injection(S, RowPages(S))
    BY <2>1, <2>2 DEF Surjection, Injection, IsInjective
  <2> QED
    BY <1>3, <2>3, FS_Surjection
<1> QED
  BY <1>1, <1>2, <1>3, <1>4

\* What is gone is in the file, and what was told is gone.
LEMMA ToldPages ==
    ASSUME Tally, ToldOK
    PROVE  /\ Gone(now) \in SUBSET {s \in Subject : prior[s] # NoPage}
           /\ phase \in {"clear", "deferred", "fallback", "write"} =>
                 cleared \in SUBSET {s \in Subject : prior[s] # NoPage}
           /\ phase \in {"idle", "sample", "units"} => cleared = {} /\ unpublished = 0
BY DEF Gone, ToldOK, Tally, ClearsCounted

\* A step that leaves the file, the markers and the clears is none of Pages.
LEMMA NothingPaged ==
    ASSUME UNCHANGED <<prior, open, sent, cleared, unpublished>>
    PROVE  UNCHANGED Paging!vars
BY DEF Paging!vars, PagesOf

\* A page that reaches the reader was not known, and is from then on.
LEMMA PublishRaises ==
    ASSUME NEW s, NEW k, NEW lines, <<s, k>> \in PageKey, Publish(s, k, lines),
           UNCHANGED <<prior, cleared, unpublished>>
    PROVE  [Paging!Next]_(Paging!vars)
<1>1. CASE UNCHANGED <<open, sent>>
  BY <1>1, NothingPaged
<1>2. CASE /\ sent' = sent \cup {<<s, k>>}
           /\ open' = IF <<s, k>> \in sent THEN open ELSE open \cup {<<s, k>>}
  <2>1. CASE <<s, k>> \in sent
    <3>1. sent' = sent /\ open' = open
      BY <1>2, <2>1
    <3> QED
      BY <1>1, <3>1
  <2>2. CASE <<s, k>> \notin sent
    <3>1. PagesOf(prior)' = PagesOf(prior) /\ RowPages(cleared)' = RowPages(cleared)
      BY DEF PagesOf, RowPages
    <3>2. PICK p \in PageKey : p = <<s, k>>
      OBVIOUS
    <3>3. Paging!Raise(p)
      BY <1>2, <2>2, <3>1, <3>2 DEF Paging!Raise, RowPages
    <3> QED
      BY <3>3 DEF Paging!Next, PageKey
  <2> QED
    BY <2>1, <2>2
<1> QED
  BY <1>1, <1>2 DEF Publish

\* A clear that is delivered ends a page of the file that was not ended yet.
LEMMA ClearResolves ==
    ASSUME Tally, ToldOK, NEW s \in Gone(now), s \notin cleared, UNCHANGED <<prior, sent>>,
           phase \in {"clear", "fallback"},
           cleared' = cleared \cup {s}, open' = open \ {<<s, prior[s].key>>},
           unpublished' = unpublished
    PROVE  [Paging!Next]_(Paging!vars)
<1>1. PICK p \in PageKey : p = <<s, prior[s].key>>
  <2>1. {s} \in SUBSET {r \in Subject : prior[r] # NoPage}
    BY ToldPages
  <2> QED
    BY <2>1, RowPageCount DEF RowPages
<1>2. p \in PagesOf(prior) \ RowPages(cleared)
  BY <1>1, ToldPages DEF PagesOf, RowPages
<1>3. RowPages(cleared)' = RowPages(cleared) \cup {p} /\ PagesOf(prior)' = PagesOf(prior)
  BY <1>1 DEF RowPages, PagesOf
<1>4. Paging!Resolve(p)
  BY <1>1, <1>2, <1>3 DEF Paging!Resolve, RowPages
<1> QED
  BY <1>4 DEF Paging!Next, PageKey

\* One that is not is counted, while there is a page left to be told of.
LEMMA ClearMisses ==
    ASSUME Tally, ToldOK, NEW s \in due \cup queued,
           phase \in {"clear", "fallback"}, UNCHANGED <<prior, sent, open, cleared>>,
           unpublished' = unpublished + 1
    PROVE  [Paging!Next]_(Paging!vars)
<1>1. PagesOf(prior) = RowPages({r \in Subject : prior[r] # NoPage})
  BY DEF PagesOf, RowPages
<1>2. /\ Cardinality(PagesOf(prior)) = Cardinality({r \in Subject : prior[r] # NoPage})
      /\ Cardinality({r \in Subject : prior[r] # NoPage}) \in Nat
  BY <1>1, RowPageCount
<1>3. Cardinality(RowPages(cleared)) = Cardinality(cleared)
  BY ToldPages, RowPageCount
<1>4. Cardinality(Gone(now)) <= Cardinality({r \in Subject : prior[r] # NoPage})
  BY FiniteSets, FS_Subset, ToldPages
<1>5. Cardinality(cleared) + unpublished < Cardinality(Gone(now))
  <2>1. /\ Cardinality(due) \in Nat /\ Cardinality(queued) \in Nat /\ Cardinality(cleared) \in Nat
        /\ unpublished \in Nat
    BY CountedSets DEF Tally
  <2>2. Cardinality(due) # 0 \/ Cardinality(queued) # 0
    BY CountedSets, FS_EmptySet DEF Tally
  <2>3. Cardinality(Gone(now)) =
           Cardinality(due) + Cardinality(queued) + Cardinality(cleared) + unpublished
    BY DEF Tally, ClearsCounted
  <2> QED
    BY <2>1, <2>2, <2>3
<1>6. Cardinality(RowPages(cleared)) + unpublished < Cardinality(PagesOf(prior))
  <2>1. Cardinality(Gone(now)) \in Nat /\ Cardinality(cleared) \in Nat /\ unpublished \in Nat
    BY FiniteSets, CountedSets DEF Tally, Gone
  <2> QED
    BY <1>2, <1>3, <1>4, <1>5, <2>1
<1>7. RowPages(cleared)' = RowPages(cleared) /\ PagesOf(prior)' = PagesOf(prior)
  BY DEF RowPages, PagesOf
<1>8. Paging!Miss
  BY <1>6, <1>7, OneCardinality DEF Paging!Miss, RowPages
<1> QED
  BY <1>8 DEF Paging!Next

\* Both ways a channel clear may end are steps of Pages.
LEMMA ChannelPaged ==
    ASSUME Tally, ToldOK, NEW s \in due \cup queued, ChannelClear(s),
           phase \in {"clear", "fallback"}, UNCHANGED <<prior, sent>>
    PROVE  [Paging!Next]_(Paging!vars)
<1>1. s \in Gone(now) /\ s \notin cleared
  BY DEF ToldOK, Tally, ClearsCounted
<1>2. unpublished + 0 = unpublished
  BY CountedSets DEF Tally
<1>3. CASE /\ cleared' = cleared \cup {s} /\ open' = open \ {<<s, prior[s].key>>}
           /\ unpublished' = unpublished
  BY <1>1, <1>3, ClearResolves
<1>4. CASE UNCHANGED <<cleared, open>> /\ unpublished' = unpublished + 1
  BY <1>4, ClearMisses
<1> QED
  BY <1>2, <1>3, <1>4 DEF ChannelClear, Missed

\* The console's clear of the warnings' page, if there is one, is too.
LEMMA EnvelopePaged ==
    ASSUME Tally, ToldOK, EmitEnvelope PROVE [Paging!Next]_(Paging!vars)
<1>1. /\ phase = "clear" /\ cleared' = cleared \cup queued
      /\ open' = open \ {<<s, prior[s].key>> : s \in queued}
      /\ UNCHANGED <<prior, sent, unpublished>>
  BY DEF EmitEnvelope
<1>2. CASE queued = {}
  <2>1. UNCHANGED <<prior, open, sent, cleared, unpublished>>
    BY <1>1, <1>2
  <2> QED
    BY <2>1, NothingPaged
<1>3. CASE queued = {"warning"}
  <2>1. "warning" \in Gone(now) /\ "warning" \notin cleared
    BY <1>1, <1>3 DEF ToldOK, Tally, ClearsCounted
  <2>2. /\ cleared' = cleared \cup {"warning"}
        /\ open' = open \ {<<"warning", prior["warning"].key>>}
    BY <1>1, <1>3
  <2> QED
    BY <1>1, <2>1, <2>2, ClearResolves
<1>4. queued \subseteq {"warning"}
  BY DEF Tally, TypeInv, Typed
<1>5. queued = {} \/ queued = {"warning"}
  BY ONLY <1>4
<1> QED
  BY <1>2, <1>3, <1>5

\* The file that is written holds one page per subject, and of the pages it holds no
\* more those that were not told are so many as are counted.
LEMMA WriteRecords ==
    ASSUME Tally, ToldOK, WriteState PROVE Paging!Record
<1>1. /\ phase = "write" /\ prior' = now /\ UNCHANGED <<sent, open>>
      /\ cleared' = {} /\ unpublished' = 0
  BY DEF WriteState, Forget, Written
<1>2. PagesOf(prior)' = PagesOf(now)
  BY <1>1 DEF PagesOf
<1>3. \A p, q \in PagesOf(now) : p[1] = q[1] => p = q
  BY DEF PagesOf
<1>4. cleared \subseteq Gone(now) /\ Gone(now) \in SUBSET {s \in Subject : prior[s] # NoPage}
  BY <1>1, ToldPages DEF ToldOK
<1>5. PagesOf(prior) \ PagesOf(now) = RowPages(Gone(now))
  BY DEF PagesOf, RowPages, Gone
<1>6. RowPages(cleared) \subseteq PagesOf(prior) \ PagesOf(now)
  BY <1>4, <1>5 DEF RowPages
<1>7. RowPages(Gone(now)) \ RowPages(cleared) = RowPages(Gone(now) \ cleared)
  BY <1>4 DEF RowPages
<1>8. Cardinality(Gone(now) \ cleared) = unpublished
  <2>1. due = {} /\ queued = {} /\ Cardinality({}) = 0
    BY <1>1, FS_EmptySet DEF Tally, RowsFollow
  <2>2. Cardinality(Gone(now)) = Cardinality(cleared) + unpublished
    BY <1>1, <2>1, CountedSets DEF Tally, ClearsCounted
  <2>3. IsFiniteSet(Gone(now)) /\ Cardinality(Gone(now)) \in Nat
    BY <1>4, FiniteSets
  <2>4. Cardinality(Gone(now) \ cleared)
           = Cardinality(Gone(now)) - Cardinality(Gone(now) \cap cleared)
    BY <2>3, FS_Difference, CountedSets DEF Tally
  <2>5. Gone(now) \cap cleared = cleared
    BY <1>4
  <2>6. Cardinality(Gone(now) \ cleared) = Cardinality(Gone(now)) - Cardinality(cleared)
    BY <2>4, <2>5, Zenon
  <2>7. Cardinality(cleared) \in Nat /\ unpublished \in Nat
    BY CountedSets DEF Tally
  <2> QED
    BY ONLY <2>2, <2>6, <2>7
<1>9. Cardinality(RowPages(Gone(now) \ cleared)) = unpublished
  <2>1. Gone(now) \ cleared \in SUBSET {s \in Subject : prior[s] # NoPage}
    BY <1>4
  <2> QED
    BY <1>8, <2>1, RowPageCount
<1>10. Paging!OnePerSubject(PagesOf(prior)')
  BY <1>2, <1>3 DEF Paging!OnePerSubject
<1>11. RowPages(cleared) \subseteq PagesOf(prior) \ PagesOf(prior)'
  BY <1>2, <1>6
<1>12. Paging!Cardinality((PagesOf(prior) \ PagesOf(prior)') \ RowPages(cleared)) = unpublished
  BY <1>2, <1>5, <1>7, <1>9, OneCardinality
<1>13. RowPages(cleared)' = {}
  BY <1>1 DEF RowPages
<1> QED
  BY <1>1, <1>10, <1>11, <1>12, <1>13 DEF Paging!Record, RowPages

\* A process that is gone leaves the file, the markers and the reader's pages.
LEMMA ForgetRestarts ==
    ASSUME Forget, UNCHANGED pageVars PROVE Paging!Restart
<1>1. cleared' = {} /\ unpublished' = 0 /\ UNCHANGED <<prior, sent, open>>
  BY DEF Forget, pageVars
<1>2. RowPages(cleared)' = {} /\ PagesOf(prior)' = PagesOf(prior)
  BY <1>1 DEF RowPages, PagesOf
<1> QED
  BY <1>1, <1>2 DEF Paging!Restart, RowPages

LEMMA PagingStep ==
    ASSUME Tally, ToldOK, [Next]_vars
    PROVE  [Paging!Next]_(Paging!vars)
<1> USE DEF boxVars, tickVars, pageVars, history
<1>0. prior \in Rows /\ now \in Rows /\ sent \subseteq PageKey
  BY DEF Tally, TypeInv, Typed
<1>1. CASE MarkerExpires
  <2>1. PICK m \in sent : sent' = sent \ {m}
    BY <1>1 DEF MarkerExpires
  <2>2. UNCHANGED <<prior, open, cleared, unpublished>>
    BY <1>1 DEF MarkerExpires
  <2>3. PagesOf(prior)' = PagesOf(prior) /\ RowPages(cleared)' = RowPages(cleared)
    BY <2>2 DEF PagesOf, RowPages
  <2>4. m \in PageKey /\ Paging!Lapse(m)
    BY <1>0, <2>1, <2>2, <2>3 DEF Paging!Lapse, RowPages
  <2> QED
    BY <2>4 DEF Paging!Next, PageKey
<1>2. CASE (BoxMoves /\ ~MarkerExpires) \/ SampleEnds \/ UNCHANGED vars
  <2>1. UNCHANGED <<prior, open, sent, cleared, unpublished>>
    BY <1>2 DEF BoxMoves, RunStarts, RunEnds, Vacuum, ProblemChanges, SampleEnds, vars
  <2> QED
    BY <2>1, NothingPaged
<1>3. CASE EnvelopeFails \/ FallbackEnds \/ \E u \in Unit : ReadResult(u) \/ Classify(u)
  <2>1. UNCHANGED <<prior, open, sent, cleared, unpublished>>
    BY <1>3 DEF EnvelopeFails, FallbackEnds, ReadResult, Classify
  <2> QED
    BY <2>1, NothingPaged
<1>4. CASE TickStart
  <2>1. cleared = {} /\ cleared' = {} /\ UNCHANGED <<prior, open, sent, unpublished>>
    BY <1>4, ToldPages DEF TickStart
  <2> QED
    BY <2>1, NothingPaged
<1>5. ASSUME NEW u \in Unit, PublishUnit(u) PROVE [Paging!Next]_(Paging!vars)
  <2>1. /\ Publish(u, PublishedKey(u, found[u]), {found[u]})
        /\ UNCHANGED <<prior, cleared, unpublished>>
    BY <1>5 DEF PublishUnit
  <2>2. PublishedKey(u, found[u]) \in Finding
    BY <1>5, KeyType DEF TypeInv, Typed, Tally, PublishUnit
  <2>3. <<u, PublishedKey(u, found[u])>> \in PageKey
    BY <2>2 DEF PageKey
  <2> QED
    BY <2>1, <2>3, PublishRaises
<1>6. CASE PublishTiers
  <2>1. UNCHANGED <<prior, cleared, unpublished>>
    BY <1>6 DEF PublishTiers
  <2>2. CASE UNCHANGED <<sent, open>>
    BY <2>1, <2>2, NothingPaged
  <2>3. CASE Publish("critical", SetKey(others \cap Critical), others \cap Critical)
    <3>1. SetKey(others \cap Critical) \subseteq Problem
      BY DEF SetKey, Problem
    <3>2. <<"critical", SetKey(others \cap Critical)>> \in PageKey
      BY <3>1, Subjects DEF PageKey
    <3> QED
      BY <2>1, <2>3, <3>2, PublishRaises
  <2> QED
    BY <1>6, <2>2, <2>3 DEF PublishTiers
<1>7. CASE FallbackPage
  <2>1. /\ Publish("warning", now["warning"].key, now["warning"].lines)
        /\ UNCHANGED <<prior, cleared, unpublished>>
    BY <1>7 DEF FallbackPage
  <2>2. now["warning"] # NoPage
    BY <1>7 DEF FallbackPage, Tally, TypeInv, PhaseOK
  <2>3. <<"warning", now["warning"].key>> \in PageKey
    BY <1>0, <2>2, RowsType, Subjects DEF PageKey
  <2> QED
    BY <2>1, <2>3, PublishRaises
<1>8. ASSUME NEW s \in Subject, PublishClear(s) PROVE [Paging!Next]_(Paging!vars)
  <2>1. phase = "clear" /\ s \in due /\ UNCHANGED <<prior, sent>>
    BY <1>8 DEF PublishClear
  <2>2. CASE ChannelClear(s)
    BY <2>1, <2>2, ChannelPaged
  <2>3. CASE UNCHANGED <<cleared, open, unpublished>>
    BY <2>1, <2>3, NothingPaged
  <2> QED
    BY <1>8, <2>2, <2>3 DEF PublishClear
<1>9. ASSUME NEW s \in Subject, FallbackClear(s) PROVE [Paging!Next]_(Paging!vars)
  <2>1. phase = "fallback" /\ s \in queued /\ ChannelClear(s) /\ UNCHANGED <<prior, sent>>
    BY <1>9 DEF FallbackClear
  <2> QED
    BY <2>1, ChannelPaged
<1>10. CASE EmitEnvelope
  BY <1>10, EnvelopePaged
<1>11. CASE WriteState
  BY <1>11, WriteRecords DEF Paging!Next
<1>12. CASE WriteFails \/ Killed
  BY <1>12, ForgetRestarts DEF WriteFails, Killed, Paging!Next
<1> QED
  BY <1>1, <1>2, <1>3, <1>4, <1>5, <1>6, <1>7, <1>8, <1>9, <1>10, <1>11, <1>12
     DEF Next, BoxMoves, TickMoves

\* No row leaves the alerted-state file of box_health.sh in silence, whether its
\* subject recovered or changed its key: its clear was delivered, once, on the channel,
\* the console or the fallback, or it is counted in UNPUBLISHED_CLEARS; and a page
\* reaches the reader once a marker (finalize_alert_lifecycle, publish_page), for every
\* set of units and findings, whatever is lost, fails or is killed.
THEOREM PagesImplemented == Spec => ImplementsPages
<1>1. Init => Tally /\ ToldOK
  BY TallyInit DEF Init, ToldOK
<1>2. Tally /\ ToldOK /\ [Next]_vars => (Tally /\ ToldOK)'
  BY TallyStep, ToldStep
<1>3. Init => Paging!Init
  <2>1. Init => prior = Clean /\ open = {} /\ sent = {} /\ cleared = {} /\ unpublished = 0
    BY DEF Init
  <2>2. \A s \in Subject : Clean[s] = NoPage
    BY DEF Clean
  <2> QED
    BY <2>1, <2>2 DEF Paging!Init, PagesOf
<1>4. Tally /\ ToldOK /\ [Next]_vars => [Paging!Next]_(Paging!vars)
  BY PagingStep
<1> QED
  BY <1>1, <1>2, <1>3, <1>4, PTL DEF Spec, ImplementsPages, Paging!Spec

-----------------------------------------------------------------------------
(***************************************************************************)
(* A tick ends: however long the rows and whatever the box does meanwhile, *)
(* there is a number that each of its steps lessens and nothing raises.    *)
(***************************************************************************)

\* A unit whose first property was read is still to be classified.
Reads == reading # NoPage => phase = "sample" /\ reading.unit \in toRead

\* The steps of one sample: two for each unit, and its end.
Round == 2 * Cardinality(Unit) + 1

Unread == IF reading = NoPage THEN 2 * Cardinality(toRead) ELSE 2 * Cardinality(toRead) - 1

\* Units that were found failing and whose page is still to be published.
ToPage == {u \in Unit : found[u] # NoPage /\ now[u] = NoPage}

\* A clear may take two steps, and beside it there are the tiers' pages, the envelope,
\* the fallback, its end and the write.
Clears == 2 * Cardinality(due) + Cardinality(queued)
AfterUnits == 2 * Cardinality(Subject) + 5

\* How many steps are left to the tick at most.
StepsLeft ==
    CASE phase = "idle"     -> 0
      [] phase = "sample"   -> (Attempts - taken - 1) * Round + Unread + 1
                                  + Cardinality(Unit) + AfterUnits
      [] phase = "units"    -> Cardinality(ToPage) + AfterUnits
      [] phase = "clear"    -> Clears + 4
      [] phase = "deferred" -> Clears + 3
      [] phase = "fallback" -> Clears + 2
      [] phase = "write"    -> 1

\* Steps of the longest tick there can be.
Longest == Attempts * Round + Cardinality(Unit) + AfterUnits

LEMMA ReadsStep == TypeInv /\ Reads /\ [Next]_vars => Reads'
<1> SUFFICES ASSUME TypeInv, Reads, [Next]_vars PROVE Reads'
  OBVIOUS
<1> USE DEF boxVars, tickVars, pageVars, history
<1>1. CASE BoxMoves \/ UNCHANGED vars
  <2>1. UNCHANGED <<phase, reading, toRead>>
    BY <1>1 DEF BoxMoves, RunStarts, RunEnds, Vacuum, ProblemChanges, MarkerExpires, vars
  <2> QED
    BY <2>1 DEF Reads
<1>2. CASE TickStart \/ SampleEnds
  <2>1. reading = NoPage /\ reading' = reading
    BY <1>2 DEF TickStart, SampleEnds, TypeInv, Typed
  <2> QED
    BY <2>1 DEF Reads
<1>3. CASE \E u \in Unit : ReadResult(u)
  <2>1. PICK u \in Unit : ReadResult(u)
    BY <1>3
  <2>2. phase = "sample" /\ u \in toRead /\ UNCHANGED <<phase, toRead>> /\ reading'.unit = u
    BY <2>1 DEF ReadResult
  <2> QED
    BY <2>2 DEF Reads
<1>4. CASE (\E u \in Unit : Classify(u)) \/ WriteState \/ WriteFails \/ Killed
  <2>1. reading' = NoPage
    BY <1>4 DEF Classify, WriteState, WriteFails, Killed, Forget
  <2> QED
    BY <2>1 DEF Reads
<1>5. CASE \/ \E u \in Unit : PublishUnit(u)
           \/ \E s \in Subject : PublishClear(s) \/ FallbackClear(s)
           \/ PublishTiers \/ EmitEnvelope \/ EnvelopeFails \/ FallbackPage \/ FallbackEnds
  <2>1. phase # "sample" /\ reading' = reading
    BY <1>5 DEF PublishUnit, PublishClear, FallbackClear, PublishTiers, EmitEnvelope,
                EnvelopeFails, FallbackPage, FallbackEnds
  <2> QED
    BY <2>1 DEF Reads
<1> QED
  BY <1>1, <1>2, <1>3, <1>4, <1>5 DEF Next, TickMoves

NumbersOK ==
    /\ Attempts \in Nat /\ Round \in Nat /\ Cardinality(Unit) \in Nat
    /\ IsFiniteSet(toRead) /\ Cardinality(toRead) \in 0 .. Cardinality(Unit)
    /\ Unread \in Nat
    /\ IsFiniteSet(ToPage) /\ Cardinality(ToPage) \in 0 .. Cardinality(Unit)
    /\ Cardinality(due) \in 0 .. Cardinality(Subject) /\ Cardinality(queued) \in Nat
    /\ Clears \in Nat /\ Cardinality(Subject) \in Nat /\ AfterUnits \in Nat
    /\ phase = "sample" => Attempts - taken - 1 \in Nat

\* All that is counted can be.
LEMMA NumbersHold == TypeInv /\ Reads => NumbersOK
<1> SUFFICES ASSUME TypeInv, Reads PROVE NumbersOK
  OBVIOUS
<1>1. IsFiniteSet(Unit) /\ IsFiniteSet(Subject)
  BY FiniteSets
<1>2. toRead \subseteq Unit /\ ToPage \subseteq Unit /\ due \subseteq Subject
  BY DEF TypeInv, Typed, ToPage
<1>3. /\ Cardinality(Unit) \in Nat /\ Cardinality(Subject) \in Nat
      /\ IsFiniteSet(toRead) /\ Cardinality(toRead) \in Nat /\ Cardinality(toRead) <= Cardinality(Unit)
      /\ IsFiniteSet(ToPage) /\ Cardinality(ToPage) \in Nat /\ Cardinality(ToPage) <= Cardinality(Unit)
      /\ Cardinality(due) \in Nat /\ Cardinality(due) <= Cardinality(Subject)
  BY <1>1, <1>2, FS_Subset, FS_CardinalityType
<1>4. Cardinality(queued) \in Nat
  BY CountedSets
<1>5. reading # NoPage => Cardinality(toRead) # 0
  BY <1>3, FS_EmptySet DEF Reads
<1>6. Unread \in Nat
  BY <1>3, <1>5 DEF Unread
<1>7. Attempts \in Nat /\ (phase = "sample" => Attempts - taken - 1 \in Nat)
  BY DEF TypeInv, Typed, PhaseOK
<1> QED
  BY <1>3, <1>4, <1>6, <1>7 DEF Round, Clears, AfterUnits, NumbersOK

LEMMA NumbersStay == (TypeInv /\ Reads)' => NumbersOK'
BY NumbersHold, PTL

\* In this state as in the next.
LEMMA StepNumbers == ASSUME TypeInv, Reads PROVE NumbersOK
BY NumbersHold

LEMMA NextNumbers == ASSUME TypeInv', Reads' PROVE NumbersOK'
BY NumbersStay

\* One sample less is a round less.
LEMMA OneRound ==
    ASSUME NEW a \in Nat, NEW r \in Nat
    PROVE  a * r \in Nat /\ (a + 1) * r = a * r + r /\ 0 * r = 0
OBVIOUS

\* A tick in a sample has more to do than one behind them.
LEMMA SampleSteps ==
    ASSUME TypeInv, Reads, phase = "sample"
    PROVE  /\ Attempts - taken - 1 \in Nat
           /\ (Attempts - taken - 1) * Round \in Nat
           /\ StepsLeft = (Attempts - taken - 1) * Round + Unread + 1
                             + Cardinality(Unit) + AfterUnits
           /\ StepsLeft \in Nat
<1>1. Attempts - taken - 1 \in Nat
  BY StepNumbers DEF NumbersOK
<1>2. (Attempts - taken - 1) * Round \in Nat
  BY <1>1, OneRound, StepNumbers DEF NumbersOK
<1>3. StepsLeft = (Attempts - taken - 1) * Round + Unread + 1 + Cardinality(Unit) + AfterUnits
  BY DEF StepsLeft
<1> QED
  BY <1>1, <1>2, <1>3, StepNumbers DEF NumbersOK

\* The two reads of a unit each lessen what a sample has left.
LEMMA ReadSteps ==
    ASSUME TypeInv, Reads, TypeInv', Reads', NEW u \in Unit, ReadResult(u) \/ Classify(u)
    PROVE  StepsLeft' < StepsLeft
<1>1. phase = "sample" /\ phase' = "sample" /\ taken' = taken
  BY DEF ReadResult, Classify
<1>2. Unread' < Unread
  <2>1. CASE ReadResult(u)
    <3>1. reading = NoPage /\ reading' # NoPage /\ toRead' = toRead
      BY <2>1 DEF ReadResult, TypeInv, Typed, Read
    <3> QED
      BY <3>1, StepNumbers DEF Unread, NumbersOK
  <2>2. CASE Classify(u)
    <3>1. reading # NoPage /\ u \in toRead /\ reading' = NoPage /\ toRead' = toRead \ {u}
      BY <2>2 DEF Classify, Reads
    <3>2. Cardinality(toRead') = Cardinality(toRead) - 1
      BY <3>1, StepNumbers, OneMore DEF NumbersOK
    <3> QED
      BY <3>1, <3>2, StepNumbers, NextNumbers DEF Unread, NumbersOK
  <2> QED
    BY <2>1, <2>2
<1>3. /\ StepsLeft = (Attempts - taken - 1) * Round + Unread + 1 + Cardinality(Unit) + AfterUnits
      /\ (Attempts - taken - 1) * Round \in Nat
  BY <1>1, SampleSteps
<1>4. StepsLeft' = (Attempts - taken - 1) * Round + Unread' + 1 + Cardinality(Unit) + AfterUnits
  BY <1>1 DEF StepsLeft, Round, AfterUnits
<1>5. Unread \in Nat /\ Unread' \in Nat /\ Cardinality(Unit) \in Nat /\ AfterUnits \in Nat
  BY StepNumbers, NextNumbers DEF NumbersOK
<1> QED
  BY <1>2, <1>3, <1>4, <1>5

\* The end of a sample begins the next one, or leaves the samples behind.
LEMMA SampleEndSteps ==
    ASSUME Tally, Reads, TypeInv', Reads', SampleEnds
    PROVE  StepsLeft' < StepsLeft
<1>0. TypeInv
  BY DEF Tally
<1>1. phase = "sample" /\ toRead = {} /\ reading = NoPage /\ UNCHANGED <<reading, now, queued>>
  BY DEF SampleEnds
<1>2. due = {} /\ queued = {}
  BY <1>1 DEF Tally, ClearsCounted
<1>3. /\ StepsLeft = (Attempts - taken - 1) * Round + Unread + 1 + Cardinality(Unit) + AfterUnits
      /\ Attempts - taken - 1 \in Nat /\ (Attempts - taken - 1) * Round \in Nat
  BY <1>0, <1>1, SampleSteps
<1>4. Unread \in Nat /\ Cardinality(Unit) \in Nat /\ AfterUnits \in Nat /\ Round \in Nat
  BY <1>0, StepNumbers DEF NumbersOK
<1>5. AfterUnits' = AfterUnits /\ Round' = Round
  BY DEF AfterUnits, Round
<1>6. CASE phase' = "clear"
  <2>1. Cardinality(queued') = 0
    BY <1>1, <1>2, FS_EmptySet
  <2>2. Cardinality(due') \in 0 .. Cardinality(Subject) /\ Cardinality(Subject) \in Nat
    BY StepNumbers, NextNumbers DEF NumbersOK
  <2>3. StepsLeft' < AfterUnits
    BY <1>6, <2>1, <2>2 DEF StepsLeft, Clears, AfterUnits
  <2>4. StepsLeft' \in Nat
    BY <1>6, <2>1, <2>2 DEF StepsLeft, Clears
  <2> QED
    BY <1>3, <1>4, <2>3, <2>4
<1>7. CASE phase' = "units"
  <2>1. Cardinality(ToPage') \in 0 .. Cardinality(Unit)
    BY StepNumbers, NextNumbers DEF NumbersOK
  <2>2. StepsLeft' = Cardinality(ToPage') + AfterUnits
    BY <1>5, <1>7 DEF StepsLeft
  <2> QED
    BY <1>3, <1>4, <2>1, <2>2
<1>8. CASE phase' = phase /\ toRead' = Unit /\ taken' = taken + 1
  <2>1. Unread' = Round - 1
    BY <1>1, <1>8, <1>4 DEF Unread, Round
  <2>2. StepsLeft' = (Attempts - (taken + 1) - 1) * Round + Unread' + 1
                        + Cardinality(Unit) + AfterUnits
    BY <1>1, <1>5, <1>8 DEF StepsLeft
  <2>3. Attempts - (taken + 1) - 1 \in Nat
    BY <1>1, <1>8, NextNumbers DEF NumbersOK
  <2>4. /\ (Attempts - (taken + 1) - 1) * Round \in Nat
        /\ (Attempts - (taken + 1) - 1 + 1) * Round = (Attempts - (taken + 1) - 1) * Round + Round
    BY <1>4, <2>3, OneRound
  <2>5. Attempts - (taken + 1) - 1 + 1 = Attempts - taken - 1
    BY <1>0, <2>3, StepNumbers DEF TypeInv, Typed, NumbersOK
  <2>6. Unread = 0
    BY <1>1, FS_EmptySet DEF Unread
  <2>7. (Attempts - taken - 1) * Round = (Attempts - (taken + 1) - 1) * Round + Round
    BY <2>4, <2>5
  <2> HIDE DEF Unread, StepsLeft, Round
  <2> QED
    BY <1>3, <1>4, <2>1, <2>2, <2>4, <2>6, <2>7
<1> QED
  BY <1>6, <1>7, <1>8 DEF SampleEnds, Enough

\* A page that is published is one page less to publish.
LEMMA PageSteps ==
    ASSUME TypeInv, Reads, NEW u \in Unit, PublishUnit(u)
    PROVE  StepsLeft' < StepsLeft
<1>1. /\ phase = "units" /\ phase' = phase /\ found' = found /\ u \in ToPage
      /\ now' = [now EXCEPT ![u] = [key |-> PublishedKey(u, found[u]), lines |-> {found[u]}]]
  BY DEF PublishUnit, ToPage
<1>2. now \in [Subject -> Page \cup {NoPage}] /\ u \in Subject
  BY Subjects DEF TypeInv, Typed, Rows
<1>3. now'[u] # NoPage /\ \A v \in Unit \ {u} : now'[v] = now[v]
  <2>1. found[u] \in Finding
    BY <1>1 DEF TypeInv, Typed, ToPage
  <2>2. PublishedKey(u, found[u]) \in Finding
    BY <2>1, KeyType DEF TypeInv, Typed
  <2>3. [key |-> PublishedKey(u, found[u]), lines |-> {found[u]}] \in Page
    BY <2>1, <2>2 DEF Page
  <2> QED
    BY <1>1, <1>2, <2>3, Subjects
<1>4. ToPage' = ToPage \ {u}
  BY <1>1, <1>3 DEF ToPage
<1>5. Cardinality(ToPage') = Cardinality(ToPage) - 1
  BY <1>1, <1>4, StepNumbers, OneMore DEF NumbersOK
<1>6. StepsLeft = Cardinality(ToPage) + AfterUnits /\ StepsLeft' = Cardinality(ToPage') + AfterUnits
  BY <1>1 DEF StepsLeft, AfterUnits
<1> QED
  BY <1>5, <1>6, StepNumbers DEF NumbersOK

\* Behind the rows each step leaves fewer clears, or the phase they belong to.
LEMMA ClearSteps ==
    ASSUME Tally, Reads, TypeInv', Reads',
           \/ PublishTiers \/ EmitEnvelope \/ EnvelopeFails \/ FallbackPage \/ FallbackEnds
           \/ WriteState \/ WriteFails
           \/ \E s \in Subject : PublishClear(s) \/ FallbackClear(s)
    PROVE  StepsLeft' < StepsLeft
<1>0. TypeInv
  BY DEF Tally
<1>1. CASE PublishTiers
  <2>1. phase = "units" /\ phase' = "clear" /\ queued' = queued
    BY <1>1 DEF PublishTiers
  <2>2. Cardinality(queued') = 0
    BY <2>1, FS_EmptySet DEF Tally, ClearsCounted
  <2>3. Cardinality(due') \in 0 .. Cardinality(Subject) /\ Cardinality(Subject) \in Nat
    BY StepNumbers, NextNumbers DEF NumbersOK
  <2>4. StepsLeft = Cardinality(ToPage) + AfterUnits /\ StepsLeft' = Clears' + 4
    BY <2>1 DEF StepsLeft
  <2> QED
    BY <1>0, <2>2, <2>3, <2>4, StepNumbers DEF Clears, AfterUnits, NumbersOK
<1>2. ASSUME NEW s \in Subject, PublishClear(s) PROVE StepsLeft' < StepsLeft
  <2>1. phase = "clear" /\ phase' = "clear" /\ s \in due /\ due' = due \ {s}
    BY <1>2 DEF PublishClear
  <2>2. Cardinality(due') = Cardinality(due) - 1
    BY <1>0, <2>1, CountedSets, OneMore
  <2>3. Cardinality(queued') <= Cardinality(queued) + 1
    <3>1. queued' = queued \/ queued' = queued \cup {s}
      BY <1>2 DEF PublishClear
    <3>2. IsFiniteSet(queued) /\ Cardinality(queued) \in Nat
      BY <1>0, CountedSets
    <3>3. Cardinality(queued \cup {s}) \in {Cardinality(queued), Cardinality(queued) + 1}
      BY <3>2, FS_AddElement
    <3>4. CASE queued' = queued
      BY <3>2, <3>4
    <3>5. CASE queued' = queued \cup {s}
      <4>1. Cardinality(queued') = Cardinality(queued \cup {s})
        BY <3>5
      <4> QED
        BY <3>2, <3>3, <4>1
    <3> QED
      BY <3>1, <3>4, <3>5
  <2>4. StepsLeft = Clears + 4 /\ StepsLeft' = Clears' + 4
    BY <2>1 DEF StepsLeft
  <2>5. /\ Cardinality(due) \in Nat /\ Cardinality(queued) \in Nat
        /\ Cardinality(due') \in Nat /\ Cardinality(queued') \in Nat
    BY <1>0, StepNumbers, NextNumbers DEF NumbersOK
  <2> QED
    BY <2>2, <2>3, <2>4, <2>5 DEF Clears
<1>3. CASE EmitEnvelope
  <2>1. StepsLeft = Clears + 4 /\ StepsLeft' = 1
    BY <1>3 DEF EmitEnvelope, StepsLeft
  <2> QED
    BY <1>0, <2>1, StepNumbers DEF NumbersOK
<1>4. CASE EnvelopeFails
  <2>1. UNCHANGED <<due, queued>> /\ StepsLeft = Clears + 4 /\ StepsLeft' \in {Clears' + 3, Clears' + 2}
    BY <1>4 DEF EnvelopeFails, StepsLeft
  <2> QED
    BY <1>0, <2>1, StepNumbers DEF Clears, NumbersOK
<1>5. CASE FallbackPage
  <2>1. UNCHANGED <<due, queued>> /\ StepsLeft = Clears + 3 /\ StepsLeft' = Clears' + 2
    BY <1>5 DEF FallbackPage, StepsLeft
  <2> QED
    BY <1>0, <2>1, StepNumbers DEF Clears, NumbersOK
<1>6. ASSUME NEW s \in Subject, FallbackClear(s) PROVE StepsLeft' < StepsLeft
  <2>1. /\ phase = "fallback" /\ phase' = "fallback" /\ s \in queued /\ queued' = queued \ {s}
        /\ due' = due
    BY <1>6 DEF FallbackClear
  <2>2. Cardinality(queued') = Cardinality(queued) - 1
    BY <1>0, <2>1, CountedSets, OneMore
  <2>3. StepsLeft = Clears + 2 /\ StepsLeft' = Clears' + 2
    BY <2>1 DEF StepsLeft
  <2> QED
    BY <1>0, <2>1, <2>2, <2>3, StepNumbers DEF Clears, NumbersOK
<1>7. CASE FallbackEnds
  <2>1. StepsLeft = Clears + 2 /\ StepsLeft' = 1
    BY <1>7 DEF FallbackEnds, StepsLeft
  <2> QED
    BY <1>0, <2>1, StepNumbers DEF NumbersOK
<1>8. CASE WriteState \/ WriteFails
  <2>1. StepsLeft = 1 /\ StepsLeft' = 0
    BY <1>8 DEF WriteState, WriteFails, Forget, StepsLeft
  <2> QED
    BY <2>1
<1> QED
  BY <1>1, <1>2, <1>3, <1>4, <1>5, <1>6, <1>7, <1>8

LEMMA TickSteps ==
    ASSUME Tally, Reads, TypeInv', Reads', TickMoves
    PROVE  StepsLeft' < StepsLeft
<1>1. TypeInv
  BY DEF Tally
<1> QED
  BY <1>1, ReadSteps, SampleEndSteps, PageSteps, ClearSteps DEF TickMoves

\* What the box does takes no step from a tick and adds none.
LEMMA BoxSteps ==
    ASSUME BoxMoves
    PROVE  StepsLeft' = StepsLeft
<1>1. UNCHANGED <<phase, toRead, reading, taken, found, now, due, queued>>
  BY DEF BoxMoves, RunStarts, RunEnds, Vacuum, ProblemChanges, MarkerExpires, tickVars
<1>2. /\ Round' = Round /\ Unread' = Unread /\ ToPage' = ToPage /\ Clears' = Clears
      /\ AfterUnits' = AfterUnits
  BY <1>1 DEF Round, Unread, ToPage, Clears, AfterUnits
<1> QED
  BY <1>1, <1>2 DEF StepsLeft

\* A tick that starts has as many steps before it as any.
LEMMA StartSteps ==
    ASSUME TypeInv, Reads, TickStart, TypeInv', Reads'
    PROVE  StepsLeft' = Longest
<1>1. /\ phase' = "sample" /\ toRead' = Unit /\ taken' = 0 /\ reading' = NoPage
  BY DEF TickStart, TypeInv, Typed
<1>2. Unread' = Round - 1
  BY <1>1, StepNumbers DEF Unread, Round, NumbersOK
<1>3. /\ StepsLeft' = (Attempts - 0 - 1) * Round' + Unread' + 1 + Cardinality(Unit) + AfterUnits'
      /\ Attempts - 0 - 1 \in Nat
  BY <1>1, StepNumbers DEF StepsLeft, NumbersOK
<1>4. Round' = Round /\ AfterUnits' = AfterUnits
  BY DEF Round, AfterUnits
<1>5. (Attempts - 0 - 1 + 1) * Round = (Attempts - 0 - 1) * Round + Round
      /\ (Attempts - 0 - 1) * Round \in Nat
  BY <1>3, OneRound, StepNumbers DEF NumbersOK
<1>6. Attempts - 0 - 1 + 1 = Attempts
  BY StepNumbers DEF NumbersOK
<1>7. Round \in Nat /\ Cardinality(Unit) \in Nat /\ AfterUnits \in Nat
  BY StepNumbers DEF NumbersOK
<1> QED
  BY <1>2, <1>3, <1>4, <1>5, <1>6, <1>7 DEF Longest

StepsBounded == StepsLeft \in 0 .. Longest

LEMMA StepsNatural == TypeInv /\ Reads => StepsLeft \in Nat /\ Longest \in Nat
<1> SUFFICES ASSUME TypeInv, Reads PROVE StepsLeft \in Nat /\ Longest \in Nat
  OBVIOUS
<1>1. phase = "sample" => StepsLeft \in Nat
  BY SampleSteps
<1>2. phase # "sample" => StepsLeft \in Nat
  BY StepNumbers DEF StepsLeft, TypeInv, Typed, NumbersOK
<1>3. Attempts * Round \in Nat
  BY StepNumbers, OneRound DEF NumbersOK
<1> QED
  BY <1>1, <1>2, <1>3, StepNumbers DEF Longest, NumbersOK

LEMMA StepsNextNatural == (TypeInv /\ Reads)' => (StepsLeft \in Nat)'
BY StepsNatural, PTL

LEMMA StepsStep ==
    ASSUME Tally, Reads, StepsBounded, TypeInv', Reads', [Next]_vars
    PROVE  StepsBounded'
<1>0. /\ TypeInv /\ StepsLeft \in Nat /\ StepsLeft' \in Nat /\ Longest \in Nat /\ Longest' = Longest
  BY StepsNatural, StepsNextNatural DEF Tally, Longest, Round, AfterUnits
<1>1. CASE TickMoves
  BY <1>0, <1>1, TickSteps DEF StepsBounded
<1>2. CASE BoxMoves
  BY <1>0, <1>2, BoxSteps DEF StepsBounded
<1>3. CASE TickStart
  BY <1>0, <1>3, StartSteps DEF StepsBounded
<1>4. CASE Killed
  <2>1. StepsLeft' = 0
    BY <1>4 DEF Killed, Forget, StepsLeft
  <2> QED
    BY <1>0, <2>1 DEF StepsBounded
<1>5. CASE UNCHANGED vars
  <2>1. StepsLeft' = StepsLeft
    BY <1>5 DEF vars, tickVars, StepsLeft, Unread, Round, ToPage, Clears, AfterUnits
  <2> QED
    BY <1>0, <2>1 DEF StepsBounded
<1> QED
  BY <1>1, <1>2, <1>3, <1>4, <1>5 DEF Next

\* A tick of box_health.sh is over after a number of steps that only the number of
\* units and samples bounds: each of its steps brings it nearer its end, whatever the
\* box does in between takes it no further away, and only the timer begins anew.  So
\* no order of runs, lost publishes and fallbacks keeps it from its write.
THEOREM TicksEnd ==
    Spec => /\ [](StepsLeft \in 0 .. Longest)
            /\ [][(TickMoves => StepsLeft' < StepsLeft) /\ (BoxMoves => StepsLeft' = StepsLeft)]_vars
<1>1. Init => Tally /\ Reads /\ StepsBounded
  <2>1. Init => phase = "idle" /\ reading = NoPage
    BY DEF Init
  <2>2. Init => Tally /\ Reads
    BY <2>1, TallyInit DEF Reads
  <2>3. ASSUME Tally, Reads, phase = "idle" PROVE StepsBounded
    BY <2>3, StepsNatural DEF StepsBounded, StepsLeft, Tally
  <2> QED
    BY <2>1, <2>2, <2>3
<1>2. Tally /\ Reads /\ StepsBounded /\ [Next]_vars => (Tally /\ Reads /\ StepsBounded)'
  <2> SUFFICES ASSUME Tally, Reads, StepsBounded, [Next]_vars
               PROVE  (Tally /\ Reads /\ StepsBounded)'
    OBVIOUS
  <2>1. Tally' /\ Reads'
    BY TallyStep, ReadsStep DEF Tally
  <2>2. TypeInv'
    BY <2>1 DEF Tally
  <2> QED
    BY <2>1, <2>2, StepsStep
<1>3. Tally /\ Reads /\ (Tally /\ Reads)' /\ [Next]_vars
         => [(TickMoves => StepsLeft' < StepsLeft) /\ (BoxMoves => StepsLeft' = StepsLeft)]_vars
  BY TickSteps, BoxSteps DEF Tally
<1> QED
  BY <1>1, <1>2, <1>3, PTL DEF Spec, StepsBounded
==============================================================================
