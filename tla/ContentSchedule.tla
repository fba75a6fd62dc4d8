--------------------------- MODULE ContentSchedule ---------------------------
(***************************************************************************)
(* The Content Schedule page of the console                                *)
(* (views/45_Morning_Signal_Schedule.py) and its loader and writer         *)
(* (loaders/morning_signal_schedule.py): several browser sessions of one   *)
(* Streamlit process edit one S3 object, each reading it through a memo of *)
(* 60 seconds when a day is clicked, and fetching it again, changing one   *)
(* day and putting it back under its etag when Save is pressed.            *)
(*                                                                         *)
(* An entry is a member of Programme: mode, topic, guidance and editions   *)
(* matter to the podcast, not to who overwrites whom.  An etag stands for  *)
(* the bytes it is the hash of, the timestamps included; two manifests     *)
(* with the same bytes are not told apart by anybody.  The fallback for a  *)
(* botocore without conditional writes is left out: requirements.txt locks *)
(* one that has them.                                                      *)
(***************************************************************************)
EXTENDS Integers

CONSTANTS Session,      \* browser sessions with the page open
          Days,         \* dates on the calendar, 1 .. Days in order
          Programme,    \* what an entry can put on a day
          Regular,      \* regular programming: no entry
          MaxPress,     \* bound on presses of Save
          MaxOutside,   \* bound on writes from outside the console
          MaxFault      \* bound on failed calls and restarts

ASSUME DaysAssumption == Days \in Nat \ {0}
ASSUME RegularAssumption == Regular \notin Programme
ASSUME BoundsAssumption == MaxPress \in Nat /\ MaxOutside \in Nat /\ MaxFault \in Nat

VARIABLES object,       \* [entries, valid, etag]: the manifest in S3
          issued,       \* the newest etag S3 has given out
          memo,         \* {what load_schedule has cached}, or {}
          unnoticed,    \* the manifest was written since memo was filled by one who will not clear it
          session,      \* [Session -> where a session is, and what its dialog holds]
          today,        \* the date in the Pacific
          pressed, outside, faults    \* spent of MaxPress, MaxOutside, MaxFault

budget == <<pressed, outside, faults>>
store == <<object, issued>>
cache == <<memo, unnoticed>>
vars == <<store, cache, session, today, budget>>

Day == 1 .. Days
Entry == Programme \cup {Regular}
Entries == [Day -> Entry]
NoEntries == [d \in Day |-> Regular]

\* The etag of an object that does not exist.
NoEtag == 0

Manifest == [entries : Entries, valid : BOOLEAN, etag : Nat]
Fetched == [entries : Entries, etag : Nat, error : BOOLEAN]

\* page: no dialog; dialog: a day is being edited; fetch, put: Save was pressed;
\* saved, conflict: the answer is in, the page has yet to reload.
Place == {"page", "dialog", "fetch", "put", "saved", "conflict"}
State == [at : Place, day : Day, shown : Entry, want : Entry, base : Entries, etag : Nat]

\* What a session holds while it is at `place` without a save under way.
Resting(place, d, e) ==
    [at |-> place, day |-> d, shown |-> e, want |-> Regular, base |-> NoEntries, etag |-> NoEtag]

OnPage == Resting("page", 1, Regular)

-----------------------------------------------------------------------------
(* Reading *)

\* (The contract is not checked.)
FetchUnchecked(failed) ==
    IF failed
    THEN [entries |-> NoEntries, etag |-> NoEtag, error |-> TRUE]
    ELSE [entries |-> IF object.valid THEN object.entries ELSE NoEntries,
          etag |-> object.etag, error |-> FALSE]

\* A missing object is an empty schedule; one that cannot be read or breaks the
\* contract is an error, shown as an empty schedule too.
FetchSchedule(failed) ==
    IF failed \/ ~object.valid
    THEN [entries |-> NoEntries, etag |-> NoEtag, error |-> TRUE]
    ELSE [entries |-> object.entries, etag |-> object.etag, error |-> FALSE]

\* A call of S3 fails, or does not.
Call(failed) ==
    /\ failed => faults < MaxFault
    /\ faults' = IF failed THEN faults + 1 ELSE faults

\* load_schedule: what is cached, or a fetch, which is cached whatever it says.
Loaded(failed) == IF memo = {} THEN FetchSchedule(failed) ELSE CHOOSE f \in memo : TRUE

\* (Every session has a memo of its own in the one cache.)
LoadedAnew(failed) ==
    /\ Call(failed)
    /\ memo' = memo \cup {FetchSchedule(failed)}
    /\ unnoticed' = (unnoticed /\ memo # {})

LoadSchedule(failed) ==
    /\ memo = {} \/ ~failed
    /\ Call(failed)
    /\ memo' = {Loaded(failed)}
    /\ unnoticed' = (unnoticed /\ memo # {})

\* The page runs and no day was clicked.
Render(s, failed) ==
    /\ session[s].at = "page"
    /\ LoadSchedule(failed)
    /\ UNCHANGED <<store, session, today, pressed, outside>>

\* A click runs the page again and opens the dialog on what that run loaded; the
\* dialog keeps this entry until it is closed.
EditDay(s, d, failed) ==
    /\ session[s].at = "page"
    /\ LoadSchedule(failed)
    /\ session' = [session EXCEPT ![s] = Resting("dialog", d, Loaded(failed).entries[d])]
    /\ UNCHANGED <<store, today, pressed, outside>>

Cancel(s) ==
    /\ session[s].at = "dialog"
    /\ session' = [session EXCEPT ![s] = OnPage]
    /\ UNCHANGED <<store, cache, today, budget>>

-----------------------------------------------------------------------------
(* Saving *)

\* The dialog as it is after a save that came to nothing.
BackInDialog(s) ==
    session' = [session EXCEPT ![s] = Resting("dialog", session[s].day, session[s].shown)]

\* (The dialog knows it is over only when it opens.)
PressSaveAnyDay(s, w) ==
    /\ session[s].at = "dialog"
    /\ pressed < MaxPress
    /\ pressed' = pressed + 1
    /\ session' = [session EXCEPT ![s] =
                       IF w = Regular /\ session[s].shown = Regular
                       THEN OnPage
                       ELSE [session[s] EXCEPT !.at = "fetch", !.want = w]]
    /\ UNCHANGED <<store, cache, today, outside, faults>>

\* Save is pressed with w chosen.  The dialog runs first and offers no Save for
\* a day that is over; "regular" on a day shown as regular just closes it.
PressSave(s, w) ==
    /\ session[s].at = "dialog"
    /\ session[s].day >= today
    /\ pressed < MaxPress
    /\ pressed' = pressed + 1
    /\ session' = [session EXCEPT ![s] =
                       IF w = Regular /\ session[s].shown = Regular
                       THEN OnPage
                       ELSE [session[s] EXCEPT !.at = "fetch", !.want = w]]
    /\ UNCHANGED <<store, cache, today, outside, faults>>

\* upsert_entry and delete_entry fetch the manifest again, past the memo.  They
\* refuse one they cannot read, and to delete what is not there.
FetchForSave(s, failed) ==
    LET got == FetchSchedule(failed)
        me == session[s]
        refused == got.error \/ (me.want = Regular /\ got.entries[me.day] = Regular)
    IN  /\ me.at = "fetch"
        /\ Call(failed)
        /\ IF refused
           THEN BackInDialog(s)
           ELSE session' = [session EXCEPT ![s] =
                                [me EXCEPT !.at = "put", !.base = got.entries, !.etag = got.etag]]
        /\ UNCHANGED <<store, cache, today, pressed, outside>>

\* (A manifest that was not there is created without a condition.)
MatchesOrCreates(s) == session[s].etag \in {object.etag, NoEtag}

\* IfMatch with the etag that was fetched, IfNoneMatch * without one.
Matches(s) == session[s].etag = object.etag

\* The manifest that is put: the one that was fetched, with one day changed.
Edited(s) == [session[s].base EXCEPT ![session[s].day] = session[s].want]

\* S3 takes a manifest.
Replace(entries, valid) ==
    /\ issued' = issued + 1
    /\ object' = [entries |-> entries, valid |-> valid, etag |-> issued + 1]

\* What becomes of the page that is told `place`.
Told(s, place) == session' = [session EXCEPT ![s] = Resting(place, 1, Regular)]

\* The put is applied.  Its answer arrives; or is lost and the SDK tries again,
\* which the new etag refuses; or no answer ever arrives.
PutApplied(s, answer) ==
    /\ session[s].at = "put"
    /\ Matches(s)
    /\ Replace(Edited(s), TRUE)
    /\ Call(answer # "arrives")
    /\ \/ answer = "arrives" /\ Told(s, "saved") /\ UNCHANGED unnoticed
       \/ answer = "retried" /\ Told(s, "conflict") /\ UNCHANGED unnoticed
       \/ answer = "lost" /\ BackInDialog(s) /\ unnoticed' = (memo # {})
    /\ UNCHANGED <<memo, today, pressed, outside>>

\* Somebody else has written since the fetch.  IfMatch on an object that is gone
\* is answered 404, which is no conflict.
PutRefused(s) ==
    /\ session[s].at = "put"
    /\ ~Matches(s)
    /\ IF object.etag = NoEtag THEN BackInDialog(s) ELSE Told(s, "conflict")
    /\ UNCHANGED <<store, cache, today, budget>>

\* The put fails and changes nothing.
PutFailed(s) ==
    /\ session[s].at = "put"
    /\ Call(TRUE)
    /\ BackInDialog(s)
    /\ UNCHANGED <<store, cache, today, pressed, outside>>

\* (Only a save that was made drops the caches.)
FinishSaved(s) ==
    /\ session[s].at \in {"saved", "conflict"}
    /\ memo' = IF session[s].at = "saved" THEN {} ELSE memo
    /\ unnoticed' = (unnoticed /\ session[s].at # "saved")
    /\ session' = [session EXCEPT ![s] = OnPage]
    /\ UNCHANGED <<store, today, budget>>

\* _finish: the caches of all sessions are dropped and the page runs again.
Finish(s) ==
    /\ session[s].at \in {"saved", "conflict"}
    /\ memo' = {}
    /\ unnoticed' = FALSE
    /\ session' = [session EXCEPT ![s] = OnPage]
    /\ UNCHANGED <<store, today, budget>>

-----------------------------------------------------------------------------
(* Around the page *)

\* (What was read goes stale, but an error stays.)
ErrorKept ==
    /\ \E f \in memo : ~f.error
    /\ memo' = {}
    /\ unnoticed' = FALSE
    /\ UNCHANGED <<store, session, today, budget>>

\* Sixty seconds have passed, or another page has cleared all caches.
MemoExpires ==
    /\ memo # {}
    /\ memo' = {}
    /\ unnoticed' = FALSE
    /\ UNCHANGED <<store, session, today, budget>>

\* The manifest is seeded, repaired or broken by hand, or deleted.
Outside ==
    /\ outside < MaxOutside
    /\ outside' = outside + 1
    /\ \/ \E e \in Entries, valid \in BOOLEAN : Replace(e, valid)
       \/ object' = [entries |-> NoEntries, valid |-> TRUE, etag |-> NoEtag] /\ UNCHANGED issued
    /\ unnoticed' = (memo # {})
    /\ UNCHANGED <<memo, session, today, pressed, faults>>

Midnight ==
    /\ today < Days
    /\ today' = today + 1
    /\ UNCHANGED <<store, cache, session, budget>>

\* The console process restarts (a deploy, its memory cap): the cache and every
\* dialog are gone, and a save that had not been put never will be.
Restart ==
    /\ faults < MaxFault
    /\ faults' = faults + 1
    /\ memo' = {}
    /\ unnoticed' = FALSE
    /\ session' = [s \in Session |-> OnPage]
    /\ UNCHANGED <<store, today, pressed, outside>>

Init ==
    /\ object = [entries |-> NoEntries, valid |-> TRUE, etag |-> NoEtag]
    /\ issued = NoEtag
    /\ memo = {}
    /\ unnoticed = FALSE
    /\ session = [s \in Session |-> OnPage]
    /\ today = 1
    /\ pressed = 0 /\ outside = 0 /\ faults = 0

\* What the code does once Save is pressed.
Saving(s) ==
    \/ \E failed \in BOOLEAN : FetchForSave(s, failed)
    \/ \E answer \in {"arrives", "retried", "lost"} : PutApplied(s, answer)
    \/ PutRefused(s)
    \/ PutFailed(s)
    \/ Finish(s)

Operator(s) ==
    \/ \E failed \in BOOLEAN : Render(s, failed) \/ \E d \in Day : EditDay(s, d, failed)
    \/ \E w \in Entry : PressSave(s, w)
    \/ Cancel(s)

Next ==
    \/ \E s \in Session : Operator(s) \/ Saving(s)
    \/ MemoExpires \/ Outside \/ Midnight \/ Restart

Spec == Init /\ [][Next]_vars

\* A save that was pressed goes on, and the memo expires; nobody has to click.
Fairness == WF_vars(MemoExpires) /\ \A s \in Session : WF_vars(Saving(s))

FairSpec == Spec /\ Fairness

-----------------------------------------------------------------------------
(* Properties *)

TypeOK ==
    /\ object \in Manifest
    /\ issued \in Nat
    /\ memo \in SUBSET Fetched /\ \A f, g \in memo : f = g
    /\ unnoticed \in BOOLEAN
    /\ session \in [Session -> State]
    /\ today \in Day
    /\ pressed \in 0 .. MaxPress /\ outside \in 0 .. MaxOutside /\ faults \in 0 .. MaxFault

\* A save changes one day of the manifest as it stands, and only of one that can
\* be read: no edit of another day is ever lost, whoever made it and whenever.
Promised == INSTANCE Calendar WITH
    schedule <- object.entries, readable <- object.valid, elsewhere <- outside

ImplementsCalendar == Promised!Spec

\* A save of s takes effect.
Takes(s) == session[s].at = "put" /\ session'[s].at # "put" /\ object'.etag # object.etag

\* What a save replaces is what it fetched, also when the object was deleted or
\* created in between: an edit made after the fetch is never overwritten.
ReplacesWhatItFetched ==
    [][\A s \in Session : Takes(s) => object.entries = session[s].base]_vars

\* A save under way for day d.
SavingDay(s, d) == session[s].day = d /\ session[s].at \in {"fetch", "put"}

\* Once a day is over and the saves pressed before midnight are through, its
\* programming stays, in a dialog that was left open overnight as anywhere.
Closed(d) == d < today /\ \A s \in Session : ~SavingDay(s, d)

PastDayStays ==
    [][\A d \in Day : Closed(d) =>
          /\ Closed(d)'
          /\ outside' = outside => object'.entries[d] = object.entries[d]]_vars

\* A session that is about to drop the memo.
Reloading == \E s \in Session : session[s].at \in {"saved", "conflict"}

\* The memo differs from the manifest only after a failed call, a write nobody
\* in the console knows to be one, or while a session is about to drop it.
StalenessExplained ==
    \A f \in memo : f.error \/ unnoticed \/ Reloading \/ f = FetchSchedule(FALSE)

\* When the writing has stopped, so does showing what was the case before it.
MemoCatchesUp == <>[](\A f \in memo : f = FetchSchedule(FALSE))

\* A save does not replace an entry its operator was not shown.
NeverClobbers ==
    [][\A s \in Session :
          Takes(s) => object.entries[session[s].day] = session[s].shown]_vars

=============================================================================
