------------------------- MODULE ContentSchedule_proofs -------------------------
(***************************************************************************)
(* What a session holds between its fetch and its put is the manifest of   *)
(* the etag it holds: as long as that etag is the object's, it is the      *)
(* manifest.  From this a save replaces what it fetched and changes one    *)
(* day, for any number of sessions, days, programmes and events.           *)
(***************************************************************************)
EXTENDS ContentSchedule, TLAPS

USE DEF Day, Entry, Entries, NoEntries, NoEtag

\* S3 never gives out an etag twice, and an object that is not there reads as
\* an empty schedule.
EtagsIssued ==
    /\ object.etag <= issued
    /\ object.etag = NoEtag => object.entries = NoEntries /\ object.valid

\* What s is about to put is based on the manifest of its etag.
BaseOf(s) ==
    session[s].at = "put" =>
        /\ session[s].etag <= issued
        /\ session[s].etag = NoEtag => session[s].base = NoEntries
        /\ session[s].etag = object.etag => session[s].base = object.entries /\ object.valid

FetchedIsOfItsEtag == \A s \in Session : BaseOf(s)

Inv == TypeOK /\ EtagsIssued /\ FetchedIsOfItsEtag

-----------------------------------------------------------------------------
LEMMA RestingTyped ==
    ASSUME NEW place \in Place, NEW d \in Day, NEW e \in Entry
    PROVE  Resting(place, d, e) \in State
BY DEF Resting, State

LEMMA RestingAt ==
    ASSUME NEW place, NEW d, NEW e
    PROVE  Resting(place, d, e).at = place
BY DEF Resting

LEMMA DayOne == 1 \in Day
BY DaysAssumption

LEMMA FetchTyped ==
    ASSUME TypeOK, NEW failed \in BOOLEAN
    PROVE  FetchSchedule(failed) \in Fetched
BY DEF TypeOK, FetchSchedule, Manifest, Fetched

LEMMA LoadedTyped ==
    ASSUME TypeOK, NEW failed \in BOOLEAN
    PROVE  Loaded(failed) \in Fetched
BY FetchTyped DEF TypeOK, Loaded

LEMMA CallTyped ==
    ASSUME TypeOK, NEW failed \in BOOLEAN, Call(failed)
    PROVE  faults' \in 0 .. MaxFault
BY BoundsAssumption DEF TypeOK, Call

LEMMA LoadTyped ==
    ASSUME TypeOK, NEW failed \in BOOLEAN, LoadSchedule(failed)
    PROVE  /\ memo' \in SUBSET Fetched /\ \A f, g \in memo' : f = g
           /\ unnoticed' \in BOOLEAN
           /\ faults' \in 0 .. MaxFault
BY LoadedTyped, CallTyped DEF LoadSchedule, TypeOK

LEMMA EditedTyped ==
    ASSUME TypeOK, NEW s \in Session
    PROVE  Edited(s) \in Entries
BY DEF TypeOK, Edited, State

LEMMA TypeStep ==
    ASSUME TypeOK, [Next]_vars
    PROVE  TypeOK'
<1> USE DEF vars, store, cache, budget
<1>1. ASSUME NEW s \in Session, NEW failed \in BOOLEAN, Render(s, failed) PROVE TypeOK'
  BY <1>1, LoadTyped DEF Render, TypeOK
<1>2. ASSUME NEW s \in Session, NEW d \in Day, NEW failed \in BOOLEAN, EditDay(s, d, failed)
      PROVE  TypeOK'
  <2>1. Loaded(failed).entries[d] \in Entry
    BY LoadedTyped DEF Fetched
  <2>2. Resting("dialog", d, Loaded(failed).entries[d]) \in State
    BY <2>1, RestingTyped DEF Place
  <2> QED
    BY <1>2, <2>2, LoadTyped DEF EditDay, TypeOK
<1>3. ASSUME NEW s \in Session, NEW w \in Entry, PressSave(s, w) PROVE TypeOK'
  <2>1. OnPage \in State
    BY RestingTyped, DayOne DEF OnPage, Place
  <2>2. [session[s] EXCEPT !.at = "fetch", !.want = w] \in State
    BY DEF TypeOK, State, Place
  <2>3. session' \in [Session -> State]
    BY <1>3, <2>1, <2>2 DEF PressSave, TypeOK
  <2>4. pressed' \in 0 .. MaxPress
    BY <1>3, BoundsAssumption DEF PressSave, TypeOK
  <2> QED
    BY <1>3, <2>3, <2>4 DEF PressSave, TypeOK
<1>4. ASSUME NEW s \in Session, Cancel(s) PROVE TypeOK'
  <2>1. OnPage \in State
    BY RestingTyped, DayOne DEF OnPage, Place
  <2> QED
    BY <1>4, <2>1 DEF Cancel, TypeOK
<1>5. \A s \in Session : BackInDialog(s) => session' \in [Session -> State]
  <2> SUFFICES ASSUME NEW s \in Session, BackInDialog(s) PROVE session' \in [Session -> State]
    OBVIOUS
  <2>1. Resting("dialog", session[s].day, session[s].shown) \in State
    BY RestingTyped DEF TypeOK, State, Place
  <2> QED
    BY <2>1 DEF BackInDialog, TypeOK
<1>6. \A s \in Session, place \in Place : Told(s, place) => session' \in [Session -> State]
  BY RestingTyped, DayOne DEF Told, TypeOK
<1>7. \A e \in Entries, valid \in BOOLEAN :
          Replace(e, valid) => object' \in Manifest /\ issued' \in Nat
  BY DEF Replace, TypeOK, Manifest
<1>8. ASSUME NEW s \in Session, NEW failed \in BOOLEAN, FetchForSave(s, failed) PROVE TypeOK'
  <2> DEFINE got == FetchSchedule(failed)
             put == [session[s] EXCEPT !.at = "put", !.base = got.entries, !.etag = got.etag]
  <2>0. got \in Fetched
    BY FetchTyped
  <2> HIDE DEF got
  <2>1. put \in State
    <3>1. got.entries \in Entries /\ got.etag \in Nat /\ "put" \in Place
      BY <2>0 DEF Fetched, Place
    <3>2. session[s] \in State
      BY DEF TypeOK
    <3> HIDE DEF Entries, Place
    <3> QED
      BY <3>1, <3>2 DEF State
  <2>2. session' \in [Session -> State]
    <3>1. BackInDialog(s) \/ session' = [session EXCEPT ![s] = put]
      BY <1>8 DEF FetchForSave, got
    <3> QED
      BY <3>1, <2>1, <1>5 DEF TypeOK
  <2> QED
    BY <1>8, <2>2, CallTyped DEF FetchForSave, TypeOK
<1>9. ASSUME NEW s \in Session, NEW answer \in {"arrives", "retried", "lost"}, PutApplied(s, answer)
      PROVE  TypeOK'
  <2>1. session' \in [Session -> State] /\ unnoticed' \in BOOLEAN
    BY <1>9, <1>5, <1>6 DEF PutApplied, TypeOK, Place
  <2>2. object' \in Manifest /\ issued' \in Nat
    BY <1>9, <1>7, EditedTyped DEF PutApplied
  <2> QED
    BY <1>9, <2>1, <2>2, CallTyped DEF PutApplied, TypeOK
<1>10. ASSUME NEW s \in Session, PutRefused(s) PROVE TypeOK'
  BY <1>10, <1>5, <1>6 DEF PutRefused, TypeOK, Place
<1>11. ASSUME NEW s \in Session, PutFailed(s) PROVE TypeOK'
  BY <1>11, <1>5, CallTyped DEF PutFailed, TypeOK
<1>12. ASSUME NEW s \in Session, Finish(s) PROVE TypeOK'
  <2>1. OnPage \in State
    BY RestingTyped, DayOne DEF OnPage, Place
  <2> QED
    BY <1>12, <2>1 DEF Finish, TypeOK
<1>13. CASE MemoExpires
  BY <1>13 DEF MemoExpires, TypeOK
<1>14. CASE Outside
  <2>1. object' \in Manifest /\ issued' \in Nat
    <3>1. [entries |-> NoEntries, valid |-> TRUE, etag |-> NoEtag] \in Manifest
      BY DEF Manifest
    <3> QED
      BY <1>14, <3>1, <1>7 DEF Outside, TypeOK
  <2>2. outside' \in 0 .. MaxOutside
    BY <1>14, BoundsAssumption DEF Outside, TypeOK
  <2> QED
    BY <1>14, <2>1, <2>2 DEF Outside, TypeOK
<1>15. CASE Midnight
  BY <1>15, DaysAssumption DEF Midnight, TypeOK
<1>16. CASE Restart
  <2>1. OnPage \in State
    BY RestingTyped, DayOne DEF OnPage, Place
  <2>2. faults' \in 0 .. MaxFault
    BY <1>16, BoundsAssumption DEF Restart, TypeOK
  <2> QED
    BY <1>16, <2>1, <2>2 DEF Restart, TypeOK
<1>17. CASE UNCHANGED vars
  BY <1>17 DEF TypeOK
<1> QED
  BY <1>1, <1>2, <1>3, <1>4, <1>8, <1>9, <1>10, <1>11, <1>12, <1>13, <1>14, <1>15, <1>16, <1>17
     DEF Next, Operator, Saving

\* The type invariant, for every number of sessions, days, programmes and events.
THEOREM TypeCorrect == Spec => []TypeOK
<1>1. Init => TypeOK
  <2> SUFFICES ASSUME Init PROVE TypeOK
    OBVIOUS
  <2>1. OnPage \in State
    BY RestingTyped, DayOne DEF OnPage, Place
  <2>2. object \in Manifest /\ issued \in Nat
    BY DEF Init, Manifest
  <2>3. session \in [Session -> State]
    BY <2>1 DEF Init
  <2>4. pressed \in 0 .. MaxPress /\ outside \in 0 .. MaxOutside /\ faults \in 0 .. MaxFault
    BY BoundsAssumption DEF Init
  <2>5. memo \in SUBSET Fetched /\ unnoticed \in BOOLEAN /\ today \in Day
        /\ \A f, g \in memo : f = g
    BY DayOne DEF Init
  <2> QED
    BY <2>2, <2>3, <2>4, <2>5 DEF TypeOK
<1>2. TypeOK /\ [Next]_vars => TypeOK'
  BY TypeStep
<1> QED
  BY <1>1, <1>2, PTL DEF Spec

-----------------------------------------------------------------------------
\* S3 gives every manifest it takes an etag of its own.
LEMMA EtagsStep ==
    ASSUME TypeOK, EtagsIssued, [Next]_vars
    PROVE  EtagsIssued'
<1> USE DEF vars, store, cache, budget
<1>1. CASE UNCHANGED store
  BY <1>1 DEF EtagsIssued
<1>2. \A e \in Entries, valid \in BOOLEAN : Replace(e, valid) => EtagsIssued'
  BY DEF Replace, EtagsIssued, TypeOK
<1>3. ASSUME NEW s \in Session, NEW answer, PutApplied(s, answer) PROVE EtagsIssued'
  BY <1>3, <1>2, EditedTyped DEF PutApplied
<1>4. CASE Outside
  <2>1. CASE object' = [entries |-> NoEntries, valid |-> TRUE, etag |-> NoEtag] /\ UNCHANGED issued
    BY <2>1 DEF EtagsIssued, TypeOK
  <2> QED
    BY <1>4, <1>2, <2>1 DEF Outside
<1> QED
  BY <1>1, <1>3, <1>4
     DEF Next, Operator, Saving, Render, EditDay, PressSave, Cancel, FetchForSave, PutRefused,
         PutFailed, Finish, MemoExpires, Midnight, Restart

\* The object changes under the bases of all sessions that keep theirs.
LEMMA BaseKept ==
    ASSUME Inv, [Next]_vars, NEW s \in Session, session'[s] = session[s]
    PROVE  BaseOf(s)'
<1> USE DEF vars, store, cache, budget
<1> USE DEF Inv, FetchedIsOfItsEtag, BaseOf
<1>1. CASE UNCHANGED store
  BY <1>1
<1>2. \A e \in Entries, valid \in BOOLEAN : Replace(e, valid) => BaseOf(s)'
  <2> SUFFICES ASSUME NEW e \in Entries, NEW valid \in BOOLEAN, Replace(e, valid) PROVE BaseOf(s)'
    OBVIOUS
  <2>1. object'.etag = issued + 1 /\ issued' = issued + 1 /\ issued \in Nat
    BY DEF Replace, TypeOK
  <2>2. CASE session[s].at = "put"
    <3>1. /\ session[s].etag <= issued /\ session[s].etag \in Nat
          /\ session[s].etag = NoEtag => session[s].base = NoEntries
      BY <2>2 DEF TypeOK, State
    <3>2. session'[s].etag <= issued' /\ session'[s].etag # object'.etag
      BY <2>1, <3>1
    <3>3. session'[s].etag = NoEtag => session'[s].base = NoEntries
      BY <3>1
    <3> HIDE DEF NoEntries
    <3> QED
      BY <3>2, <3>3
  <2>3. CASE session[s].at # "put"
    BY <2>3
  <2> QED
    BY <2>2, <2>3
<1>3. ASSUME NEW t \in Session, NEW answer, PutApplied(t, answer) PROVE BaseOf(s)'
  BY <1>3, <1>2, EditedTyped DEF PutApplied
<1>4. CASE Outside
  <2>1. CASE object' = [entries |-> NoEntries, valid |-> TRUE, etag |-> NoEtag] /\ UNCHANGED issued
    BY <2>1 DEF EtagsIssued, TypeOK
  <2> QED
    BY <1>4, <1>2, <2>1 DEF Outside
<1> QED
  BY <1>1, <1>3, <1>4
     DEF Next, Operator, Saving, Render, EditDay, PressSave, Cancel, FetchForSave, PutRefused,
         PutFailed, Finish, MemoExpires, Midnight, Restart

\* Only a fetch brings a session to "put".
LEMMA SessionSteps ==
    ASSUME TypeOK, [Next]_vars, NEW s \in Session
    PROVE  \/ session'[s] = session[s]
           \/ session'[s].at # "put"
           \/ \E failed \in BOOLEAN : FetchForSave(s, failed)
<1> DEFINE Leaves == session'[s] = session[s] \/ session'[s].at # "put"
<1> USE DEF vars, store, cache, budget
<1>0. session \in [Session -> State]
  BY DEF TypeOK
<1> HIDE DEF Day, Entry, Entries, NoEntries, NoEtag
<1>1. ASSUME NEW t \in Session, NEW place, NEW d, NEW e, place # "put",
             session' = [session EXCEPT ![t] = Resting(place, d, e)]
      PROVE  Leaves
  BY <1>0, <1>1, RestingAt
<1>2. ASSUME NEW t \in Session, NEW w, PressSave(t, w) PROVE Leaves
  <2>1. CASE session' = [session EXCEPT ![t] = OnPage]
    BY <2>1, <1>1 DEF OnPage
  <2>2. CASE session' = [session EXCEPT ![t] = [session[t] EXCEPT !.at = "fetch", !.want = w]]
    <3>1. [session[t] EXCEPT !.at = "fetch", !.want = w].at = "fetch"
      BY <1>0 DEF State
    <3> HIDE DEF State
    <3> QED
      BY <1>0, <2>2, <3>1
  <2> QED
    BY <1>2, <2>1, <2>2 DEF PressSave
<1>3. ASSUME NEW t \in Session, Operator(t) PROVE Leaves
  <2>1. ASSUME NEW failed \in BOOLEAN, Render(t, failed) PROVE Leaves
    BY <2>1 DEF Render
  <2>2. ASSUME NEW d \in Day, NEW failed \in BOOLEAN, EditDay(t, d, failed) PROVE Leaves
    BY <2>2, <1>1 DEF EditDay
  <2>3. ASSUME Cancel(t) PROVE Leaves
    BY <2>3, <1>1 DEF Cancel, OnPage
  <2> QED
    BY <1>3, <1>2, <2>1, <2>2, <2>3 DEF Operator
<1>4. ASSUME NEW t \in Session, BackInDialog(t) PROVE Leaves
  BY <1>4, <1>1 DEF BackInDialog
<1>5. ASSUME NEW t \in Session, NEW place, place # "put", Told(t, place) PROVE Leaves
  BY <1>5, <1>1 DEF Told
<1>6. ASSUME NEW t \in Session, NEW failed \in BOOLEAN, FetchForSave(t, failed), t # s
      PROVE  Leaves
  <2>1. PICK v : session' = [session EXCEPT ![t] = v]
    BY <1>6 DEF FetchForSave, BackInDialog
  <2> QED
    BY <1>0, <1>6, <2>1
<1>7. ASSUME NEW t \in Session, NEW answer, PutApplied(t, answer) PROVE Leaves
  <2>1. BackInDialog(t) \/ Told(t, "saved") \/ Told(t, "conflict")
    BY <1>7 DEF PutApplied
  <2> QED
    BY <2>1, <1>4, <1>5
<1>8. ASSUME NEW t \in Session, PutRefused(t) \/ PutFailed(t) \/ Finish(t) PROVE Leaves
  <2>1. \/ BackInDialog(t) \/ Told(t, "conflict")
        \/ session' = [session EXCEPT ![t] = Resting("page", 1, Regular)]
    BY <1>8 DEF PutRefused, PutFailed, Finish, OnPage
  <2>2. "page" # "put" /\ "conflict" # "put"
    OBVIOUS
  <2> QED
    BY <2>1, <2>2, <1>1, <1>4, <1>5
<1>9. CASE MemoExpires \/ Outside \/ Midnight \/ UNCHANGED vars
  BY <1>9 DEF MemoExpires, Outside, Midnight
<1>10. CASE Restart
  BY <1>10, RestingAt DEF Restart, OnPage
<1> QED
  BY <1>3, <1>6, <1>7, <1>8, <1>9, <1>10 DEF Next, Saving

LEMMA InvStep ==
    ASSUME Inv, [Next]_vars
    PROVE  Inv'
<1>1. TypeOK' /\ EtagsIssued'
  BY TypeStep, EtagsStep DEF Inv
<1>2. ASSUME NEW s \in Session PROVE BaseOf(s)'
  <2>1. CASE session'[s] = session[s]
    BY <2>1, BaseKept
  <2>2. CASE session'[s].at # "put"
    BY <2>2 DEF BaseOf
  <2>3. ASSUME NEW failed \in BOOLEAN, FetchForSave(s, failed), session'[s].at = "put"
        PROVE  BaseOf(s)'
    <3> DEFINE got == FetchSchedule(failed)
    <3>1. ~got.error /\ session' = [session EXCEPT ![s] =
              [session[s] EXCEPT !.at = "put", !.base = got.entries, !.etag = got.etag]]
      BY <2>3 DEF FetchForSave, BackInDialog, Resting, Inv, TypeOK
    <3>2. got.entries = object.entries /\ got.etag = object.etag /\ object.valid
      BY <3>1 DEF FetchSchedule
    <3>3. session'[s].base = object.entries /\ session'[s].etag = object.etag
      BY <3>1, <3>2 DEF Inv, TypeOK, State
    <3>4. UNCHANGED store
      BY <2>3 DEF FetchForSave
    <3> QED
      BY <3>2, <3>3, <3>4 DEF BaseOf, store, Inv, EtagsIssued
  <2> QED
    BY <2>1, <2>2, <2>3, SessionSteps DEF Inv
<1> QED
  BY <1>1, <1>2 DEF Inv, FetchedIsOfItsEtag

\* A session about to put holds the manifest of the etag it holds.
THEOREM FetchedCurrent == Spec => []Inv
<1>1. Init => EtagsIssued /\ FetchedIsOfItsEtag
  BY DEF Init, EtagsIssued, FetchedIsOfItsEtag, BaseOf, OnPage, Resting
<1>2. Inv /\ [Next]_vars => Inv'
  BY InvStep
<1>3. Init /\ []TypeOK => Inv
  BY <1>1, PTL DEF Inv
<1> QED
  BY <1>2, <1>3, TypeCorrect, PTL DEF Spec

-----------------------------------------------------------------------------
\* When a save takes effect its base is the manifest.
LEMMA TakesOnBase ==
    ASSUME Inv, NEW s \in Session, session[s].at = "put", Matches(s)
    PROVE  session[s].base = object.entries /\ object.valid
BY DEF Inv, FetchedIsOfItsEtag, BaseOf, Matches

\* Whoever changes the manifest without spending an outside write is a save.
LEMMA Writers ==
    ASSUME [Next]_vars
    PROVE  \/ UNCHANGED <<store, outside>>
           \/ Outside
           \/ \E s \in Session, answer \in {"arrives", "retried", "lost"} : PutApplied(s, answer)
BY DEF Next, Operator, Saving, Render, EditDay, PressSave, Cancel, FetchForSave, PutRefused,
       PutFailed, Finish, MemoExpires, Midnight, Restart, vars, store, cache, budget

\* A save replaces what it fetched, whatever is written, deleted and created in
\* between.
THEOREM SavesReplaceFetched == Spec => ReplacesWhatItFetched
<1>1. ASSUME Inv, [Next]_vars, NEW s \in Session, Takes(s) PROVE object.entries = session[s].base
  <2>1. PICK t \in Session, answer \in {"arrives", "retried", "lost"} : PutApplied(t, answer)
    <3>1. ~Outside
      <4>1. SUFFICES ASSUME Outside PROVE FALSE
        OBVIOUS
      <4> QED
        BY <1>1, <4>1 DEF Takes, Outside
    <3>2. ~UNCHANGED store
      BY <1>1 DEF Takes, store
    <3> QED
      BY <1>1, <3>1, <3>2, Writers DEF store
  <2>2. t = s
    <3>1. t # s => session'[s] = session[s]
      BY <1>1, <2>1 DEF PutApplied, Told, BackInDialog, Inv, TypeOK
    <3> QED
      BY <1>1, <3>1 DEF Takes
  <2> QED
    BY <1>1, <2>1, <2>2, TakesOnBase DEF PutApplied
<1>2. Inv /\ [Next]_vars => [\A s \in Session : Takes(s) => object.entries = session[s].base]_vars
  BY <1>1
<1> QED
  BY <1>2, FetchedCurrent, PTL DEF Spec, ReplacesWhatItFetched

\* The page implements Calendar.
THEOREM CalendarImplemented == Spec => ImplementsCalendar
<1> USE DEF store
<1>1. Init => Promised!Init
  BY DEF Init, Promised!Init
<1>2. ASSUME Inv, [Next]_vars PROVE [Promised!Next]_(Promised!vars)
  <2>1. CASE UNCHANGED <<store, outside>>
    BY <2>1 DEF Promised!vars
  <2>2. CASE Outside
    <3>1. object'.entries \in Promised!Schedule /\ object'.valid \in BOOLEAN
      BY <1>2, TypeStep DEF Inv, TypeOK, Manifest, Promised!Schedule
    <3>2. outside' = outside + 1
      BY <2>2 DEF Outside
    <3> QED
      BY <3>1, <3>2 DEF Promised!Next, Promised!Elsewhere
  <2>3. ASSUME NEW s \in Session, NEW answer \in {"arrives", "retried", "lost"},
               PutApplied(s, answer)
        PROVE  Promised!Next
    <3> DEFINE d == session[s].day
               w == session[s].want
    <3>1. d \in Day /\ w \in Programme \cup {Regular}
      BY <1>2 DEF Inv, TypeOK, State
    <3>2. session[s].base = object.entries /\ object.valid
      BY <1>2, <2>3, TakesOnBase DEF PutApplied
    <3>3. object'.entries = [object.entries EXCEPT ![d] = w] /\ object'.valid = TRUE
      BY <2>3, <3>2 DEF PutApplied, Replace, Edited
    <3>4. object.valid = TRUE
      BY <1>2, <3>2 DEF Inv, TypeOK, Manifest
    <3>5. UNCHANGED outside
      BY <2>3 DEF PutApplied
    <3>6. Promised!Save(d, w)
      BY <3>3, <3>4, <3>5 DEF Promised!Save
    <3> QED
      BY <3>1, <3>6 DEF Promised!Next
  <2> QED
    BY <1>2, <2>1, <2>2, <2>3, Writers
<1> QED
  BY <1>1, <1>2, FetchedCurrent, PTL DEF Spec, ImplementsCalendar, Promised!Spec

-----------------------------------------------------------------------------
\* A fetch for a save is of a session that had pressed, and a press of a day
\* that is not over.
LEMMA SavingSteps ==
    ASSUME TypeOK, [Next]_vars, NEW s \in Session, NEW d \in Day, d < today,
           SavingDay(s, d)'
    PROVE  SavingDay(s, d)
<1> USE DEF vars, store, cache, budget
<1>0. session \in [Session -> State] /\ session'[s].day = d /\ session'[s].at \in {"fetch", "put"}
  BY DEF TypeOK, SavingDay
<1> HIDE DEF Day, Entry, Entries, NoEntries, NoEtag
<1>1. CASE session'[s] = session[s]
  BY <1>0, <1>1 DEF SavingDay
<1>2. ASSUME NEW t \in Session, NEW place, NEW x, NEW e, place # "fetch", place # "put",
             session' = [session EXCEPT ![t] = Resting(place, x, e)]
      PROVE  session'[s] = session[s]
  BY <1>0, <1>2, RestingAt
<1>3. ASSUME NEW t \in Session, NEW w, PressSave(t, w) PROVE session'[s] = session[s]
  <2>1. CASE session' = [session EXCEPT ![t] = OnPage]
    BY <2>1, <1>2 DEF OnPage
  <2>2. CASE session' = [session EXCEPT ![t] = [session[t] EXCEPT !.at = "fetch", !.want = w]]
    <3>1. [session[t] EXCEPT !.at = "fetch", !.want = w].day = session[t].day
      BY <1>0 DEF State
    <3>2. session[t].day # d
      BY <1>3 DEF PressSave, TypeOK, State, Day
    <3> HIDE DEF State
    <3> QED
      BY <1>0, <2>2, <3>1, <3>2
  <2> QED
    BY <1>3, <2>1, <2>2 DEF PressSave
<1>4. ASSUME NEW t \in Session, BackInDialog(t) PROVE session'[s] = session[s]
  BY <1>4, <1>2 DEF BackInDialog
<1>5. ASSUME NEW t \in Session, NEW place, place # "fetch", place # "put", Told(t, place)
      PROVE  session'[s] = session[s]
  BY <1>5, <1>2 DEF Told
<1>6. ASSUME NEW t \in Session, NEW failed \in BOOLEAN, FetchForSave(t, failed)
      PROVE  SavingDay(s, d)
  <2>1. CASE BackInDialog(t)
    BY <2>1, <1>4, <1>1
  <2>2. ASSUME NEW base, NEW etag,
               session' = [session EXCEPT ![t] =
                               [session[t] EXCEPT !.at = "put", !.base = base, !.etag = etag]]
        PROVE  SavingDay(s, d)
    <3>1. [session[t] EXCEPT !.at = "put", !.base = base, !.etag = etag].day = session[t].day
      BY <1>0 DEF State
    <3>2. session[t].at = "fetch"
      BY <1>6 DEF FetchForSave
    <3> HIDE DEF State
    <3>3. CASE t = s
      BY <1>0, <2>2, <3>1, <3>2, <3>3 DEF SavingDay
    <3>4. CASE t # s
      BY <1>0, <1>1, <2>2, <3>4
    <3> QED
      BY <3>3, <3>4
  <2> QED
    BY <1>6, <2>1, <2>2 DEF FetchForSave
<1>7. ASSUME NEW t \in Session, NEW answer, PutApplied(t, answer) PROVE session'[s] = session[s]
  <2>1. BackInDialog(t) \/ Told(t, "saved") \/ Told(t, "conflict")
    BY <1>7 DEF PutApplied
  <2> QED
    BY <2>1, <1>4, <1>5
<1>8. ASSUME NEW t \in Session, PutRefused(t) \/ PutFailed(t) \/ Finish(t)
      PROVE  session'[s] = session[s]
  <2>1. \/ BackInDialog(t) \/ Told(t, "conflict")
        \/ session' = [session EXCEPT ![t] = Resting("page", 1, Regular)]
    BY <1>8 DEF PutRefused, PutFailed, Finish, OnPage
  <2> QED
    BY <2>1, <1>2, <1>4, <1>5
<1>9. ASSUME NEW t \in Session, Operator(t) PROVE session'[s] = session[s]
  <2>1. ASSUME NEW failed \in BOOLEAN, Render(t, failed) PROVE session'[s] = session[s]
    BY <2>1 DEF Render
  <2>2. ASSUME NEW x \in Day, NEW failed \in BOOLEAN, EditDay(t, x, failed)
        PROVE  session'[s] = session[s]
    BY <2>2, <1>2 DEF EditDay
  <2>3. ASSUME Cancel(t) PROVE session'[s] = session[s]
    BY <2>3, <1>2 DEF Cancel, OnPage
  <2> QED
    BY <1>9, <1>3, <2>1, <2>2, <2>3 DEF Operator
<1>10. CASE MemoExpires \/ Outside \/ Midnight \/ UNCHANGED vars
  BY <1>1, <1>10 DEF MemoExpires, Outside, Midnight
<1>11. ~Restart
  BY <1>0, RestingAt DEF Restart, OnPage
<1> QED
  BY <1>1, <1>6, <1>7, <1>8, <1>9, <1>10, <1>11 DEF Next, Saving

\* A day that is over and has no save under way is never programmed again.
THEOREM PastStays == Spec => PastDayStays
<1> DEFINE Stays(d) == Closed(d) =>
               /\ Closed(d)'
               /\ outside' = outside => object'.entries[d] = object.entries[d]
<1>1. ASSUME Inv, [Next]_vars, NEW d \in Day, Closed(d) PROVE Stays(d)
  <2>1. d < today' /\ TypeOK
    <3>1. today' = today \/ Midnight
      BY <1>1 DEF Next, Operator, Saving, Render, EditDay, PressSave, Cancel, FetchForSave,
                  PutApplied, PutRefused, PutFailed, Finish, MemoExpires, Outside, Restart, vars
    <3>2. d < today /\ today \in Nat /\ d \in Nat /\ TypeOK
      BY <1>1, DaysAssumption DEF Closed, Inv, TypeOK
    <3> QED
      BY <3>1, <3>2 DEF Midnight
  <2>2. \A s \in Session : ~SavingDay(s, d)'
    BY <1>1, <2>1, SavingSteps DEF Closed
  <2>3. Closed(d)'
    BY <2>1, <2>2 DEF Closed
  <2>4. ASSUME outside' = outside PROVE object'.entries[d] = object.entries[d]
    <3>1. CASE UNCHANGED <<store, outside>>
      BY <3>1 DEF store
    <3>2. ~Outside
      BY <2>1, <2>4 DEF Outside, TypeOK
    <3>3. ASSUME NEW s \in Session, NEW answer, PutApplied(s, answer)
          PROVE  object'.entries[d] = object.entries[d]
      <4>1. session[s].base = object.entries
        BY <1>1, <3>3, TakesOnBase DEF PutApplied
      <4>2. session[s].day # d
        BY <1>1, <3>3 DEF Closed, SavingDay, PutApplied
      <4>3. object'.entries = [object.entries EXCEPT ![session[s].day] = session[s].want]
        BY <3>3, <4>1 DEF PutApplied, Replace, Edited
      <4> QED
        BY <2>1, <4>2, <4>3 DEF TypeOK, Manifest
    <3> QED
      BY <1>1, <3>1, <3>2, <3>3, Writers
  <2> QED
    BY <2>3, <2>4
<1>2. Inv /\ [Next]_vars => [\A d \in Day : Stays(d)]_vars
  BY <1>1
<1> QED
  BY <1>2, FetchedCurrent, PTL DEF Spec, PastDayStays

-----------------------------------------------------------------------------
\* The memo is the manifest, or one of the named reasons is at hand.
THEOREM Explained == Spec => []StalenessExplained
<1>1. Init => StalenessExplained
  BY DEF Init, StalenessExplained
<1>2. ASSUME TypeOK, StalenessExplained, [Next]_vars PROVE StalenessExplained'
  <2> USE DEF vars, store, cache, budget
  <2> HIDE DEF Day, Entry, Entries, NoEntries, NoEtag
  <2>0. session \in [Session -> State]
    BY <1>2 DEF TypeOK
  <2>1. FetchSchedule(FALSE)' = FetchSchedule(FALSE) \/ ~UNCHANGED object
    BY DEF FetchSchedule
  <2>2. ASSUME NEW t \in Session, session[t].at \notin {"saved", "conflict"},
               NEW v, session' = [session EXCEPT ![t] = v], Reloading
        PROVE  Reloading'
    BY <2>0, <2>2 DEF Reloading
  <2>3. ASSUME NEW failed \in BOOLEAN, LoadSchedule(failed), UNCHANGED object, Reloading => Reloading'
        PROVE  StalenessExplained'
    <3>1. CASE memo = {}
      BY <2>1, <2>3, <3>1 DEF LoadSchedule, Loaded, FetchSchedule, StalenessExplained
    <3>2. CASE memo # {}
      <4>1. memo' = memo /\ unnoticed' = unnoticed
        <5>1. PICK f \in memo : memo = {f}
          BY <1>2, <3>2 DEF TypeOK
        <5>2. Loaded(failed) = f
          BY <3>2, <5>1 DEF Loaded
        <5> QED
          BY <1>2, <2>3, <3>2, <5>1, <5>2 DEF LoadSchedule, TypeOK
      <4> QED
        BY <1>2, <2>1, <2>3, <4>1 DEF StalenessExplained
    <3> QED
      BY <3>1, <3>2
  <2>4. ASSUME UNCHANGED <<object, cache>>, Reloading => Reloading' PROVE StalenessExplained'
    BY <1>2, <2>1, <2>4 DEF StalenessExplained
  <2>5. ASSUME memo' = {} \/ unnoticed' = TRUE PROVE StalenessExplained'
    BY <2>5 DEF StalenessExplained
  <2>6. ASSUME Reloading' PROVE StalenessExplained'
    BY <2>6 DEF StalenessExplained
  <2>7. ASSUME NEW t \in Session, Operator(t) PROVE StalenessExplained'
    <3>1. ASSUME NEW failed \in BOOLEAN, Render(t, failed) PROVE StalenessExplained'
      BY <3>1, <2>3 DEF Render, Reloading
    <3>2. ASSUME NEW d \in Day, NEW failed \in BOOLEAN, EditDay(t, d, failed)
          PROVE  StalenessExplained'
      BY <3>2, <2>2, <2>3 DEF EditDay
    <3>3. ASSUME NEW w, PressSave(t, w) PROVE StalenessExplained'
      <4>1. PICK v : session' = [session EXCEPT ![t] = v]
        BY <3>3 DEF PressSave
      <4> QED
        BY <3>3, <4>1, <2>2, <2>4 DEF PressSave
    <3>4. ASSUME Cancel(t) PROVE StalenessExplained'
      BY <3>4, <2>2, <2>4 DEF Cancel
    <3> QED
      BY <2>7, <3>1, <3>2, <3>3, <3>4 DEF Operator
  <2>8. ASSUME NEW t \in Session, NEW failed \in BOOLEAN, FetchForSave(t, failed)
        PROVE  StalenessExplained'
    <3>1. PICK v : session' = [session EXCEPT ![t] = v]
      BY <2>8 DEF FetchForSave, BackInDialog
    <3> QED
      BY <2>8, <3>1, <2>2, <2>4 DEF FetchForSave
  <2>9. ASSUME NEW t \in Session, NEW place \in {"saved", "conflict"}, Told(t, place)
        PROVE  Reloading'
    BY <2>0, <2>9, RestingAt DEF Told, Reloading
  <2>10. ASSUME NEW t \in Session, NEW answer, PutApplied(t, answer) PROVE StalenessExplained'
    <3>1. CASE Told(t, "saved") \/ Told(t, "conflict")
      BY <3>1, <2>6, <2>9
    <3>2. CASE unnoticed' = (memo # {}) /\ memo' = memo
      BY <3>2, <2>5
    <3> QED
      BY <2>10, <3>1, <3>2 DEF PutApplied
  <2>11. ASSUME NEW t \in Session, PutRefused(t) \/ PutFailed(t) PROVE StalenessExplained'
    <3>1. PICK v : session' = [session EXCEPT ![t] = v]
      BY <2>11 DEF PutRefused, PutFailed, BackInDialog, Told
    <3> QED
      BY <2>11, <3>1, <2>2, <2>4 DEF PutRefused, PutFailed
  <2>12. ASSUME (\E t \in Session : Finish(t)) \/ MemoExpires \/ Restart PROVE StalenessExplained'
    BY <2>12, <2>5 DEF Finish, MemoExpires, Restart
  <2>13. CASE Outside
    <3>1. unnoticed' = (memo # {}) /\ memo' = memo
      BY <2>13 DEF Outside
    <3> QED
      BY <3>1, <2>5
  <2>14. CASE Midnight \/ UNCHANGED vars
    BY <2>14, <2>4 DEF Midnight, Reloading
  <2> QED
    BY <1>2, <2>7, <2>8, <2>10, <2>11, <2>12, <2>13, <2>14 DEF Next, Saving
<1> QED
  BY <1>1, <1>2, TypeCorrect, PTL DEF Spec
=============================================================================
