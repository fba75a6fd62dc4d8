---------------------------- MODULE AlertLifecycle ----------------------------
(***************************************************************************)
(* The watchdog infrastructure/box_health.sh as a sequence of ticks: it    *)
(* samples the box, keeps what every sample agrees on, publishes a page    *)
(* per identity key, publishes a clear for every key of the previous tick  *)
(* that is gone, and writes the keys down for the next tick.  The box      *)
(* changes under it, a publish may reach nobody, and systemd may kill it.  *)
(*                                                                         *)
(* A unit finding is keyed by its failure episode, one page per unit; all  *)
(* other findings of a severity share one page keyed by their set.         *)
(***************************************************************************)
EXTENDS Naturals, FiniteSets

CONSTANTS
    Unit,           \* the timers the watchdog reads, each with its service
    Result,         \* what systemd may report of a failed run
    Driver,         \* what the journal may name as the cause of one
    Unattributed,   \* the driver of a failure the journal names no cause for
    Critical,       \* the other critical findings, as their rank in sort order
    Warning,        \* the warnings, likewise
    KeyLines,       \* how many lines fit the 64 characters of a set-derived key
    Attempts,       \* RETRY_ATTEMPTS
    MaxRun,         \* bound: runs of one unit
    Budget,         \* bound: how often each event of Event may happen, the choices
    NoPage

Event == {"run", "kill", "lost", "vacuum", "change", "expire"}
Label == Driver \cup {Unattributed}
Problem == Critical \cup Warning
Tier == {"critical", "warning"}
Subject == Unit \cup Tier

AlertAssumption ==
    /\ Critical \subseteq Nat /\ Warning \subseteq Nat
    /\ IsFiniteSet(Critical) /\ IsFiniteSet(Warning) /\ IsFiniteSet(Unit)
    /\ Critical \cap Warning = {}
    /\ Unit \cap Tier = {}
    /\ "success" \notin Result /\ Unattributed \notin Driver
    /\ KeyLines \in Nat \ {0} /\ Attempts \in Nat \ {0} /\ MaxRun \in Nat
    /\ Budget \subseteq [Event -> Nat]
ASSUME AlertAssumption

\* The choices differ in other events than a tick that is killed.
ASSUME KillAssumption == \A b, c \in Budget : b["kill"] = c["kill"]

\* A finding names a failed run: the unit is the function's argument, the run
\* its InactiveExitTimestamp.  An episode key holds the same three fields.
Finding == [result : Result, driver : Label, run : 0 .. MaxRun]
Page == [key : Finding \cup SUBSET Problem, lines : SUBSET (Finding \cup Problem)]
Read == [unit : Unit, result : Result \cup {"success"}, run : 0 .. MaxRun]
ASSUME NoPageAssumption == NoPage \notin Finding /\ NoPage \notin Page /\ NoPage \notin Read

VARIABLES
    unit,       \* per unit: is a run in flight, its Result, its run, its evidence
    problem,    \* the other findings that are true of the box now
    budget,     \* what is left of the choice made
    phase,      \* where the tick is
    toRead,     \* units this sample has yet to read
    reading,    \* the unit whose Result was read and whose ActiveState was not
    sample,     \* the unit findings of the sample being taken
    taken,      \* samples taken
    found,      \* confirmed unit findings
    others,     \* the other confirmed findings
    now,        \* ALERTED_NOW, one page per subject
    due,        \* subjects whose clear has yet to be attempted
    queued,     \* subjects whose clear waits for the console
    unpublished,\* UNPUBLISHED_CLEARS
    unalerted,  \* UNALERTED_CRITICALS
    prior,      \* the alerted-state file
    sent,       \* krepis: pages whose dedup marker is live
    open,       \* pages that reached the reader and no clear did since
    cleared,    \* history: subjects whose clear was delivered in this tick
    seen,       \* history: how the runs ended since a unit's page was opened
    decay,      \* history: what the file held of a run whose evidence went
    torn        \* history: a unit moved between the two reads of a sample

boxVars == <<unit, problem, budget>>
tickVars == <<phase, toRead, reading, sample, taken, found, others, now, due,
              queued, unpublished, unalerted>>
pageVars == <<prior, sent, open>>
history == <<cleared, seen, decay, torn>>
vars == <<boxVars, tickVars, pageVars, history>>

NoFindings == [u \in Unit |-> NoPage]
Clean == [s \in Subject |-> NoPage]

Init ==
    /\ unit = [u \in Unit |-> [active |-> FALSE, result |-> "success", run |-> 0,
                               driver |-> Unattributed]]
    /\ problem = {} /\ budget \in Budget
    /\ phase = "idle" /\ toRead = {} /\ reading = NoPage /\ taken = 0
    /\ sample = NoFindings /\ found = NoFindings /\ others = {}
    /\ now = Clean /\ due = {} /\ queued = {} /\ unpublished = 0 /\ unalerted = 0
    /\ prior = Clean /\ sent = {} /\ open = {}
    /\ cleared = {} /\ torn = FALSE
    /\ seen = [u \in Unit |-> {}]
    /\ decay = [u \in Unit |-> "kept"]

Spend(e) == budget[e] > 0 /\ budget' = [budget EXCEPT ![e] = @ - 1]

(***************************************************************************)
(* The box                                                                 *)
(***************************************************************************)

Torn(u) == torn' = (torn \/ (reading # NoPage /\ reading.unit = u))

\* systemd resets Result to success when a run starts.
RunStarts(u) ==
    /\ ~unit[u].active /\ unit[u].run < MaxRun
    /\ unit' = [unit EXCEPT ![u].active = TRUE, ![u].result = "success", ![u].run = @ + 1]
    /\ Spend("run") /\ Torn(u)
    /\ UNCHANGED <<problem, tickVars, pageVars, cleared, seen, decay>>

RunEnds(u) ==
    /\ unit[u].active
    /\ \E r \in Result \cup {"success"}, d \in Label :
          /\ r = "success" => d = unit[u].driver
          /\ unit' = [unit EXCEPT ![u].active = FALSE, ![u].result = r, ![u].driver = d]
          /\ seen' = [seen EXCEPT ![u] = @ \cup {<<r, d>>}]
    /\ Torn(u)
    /\ UNCHANGED <<problem, budget, tickVars, pageVars, cleared, decay>>

\* The journal loses what it held of the last run.
Vacuum(u) ==
    /\ ~unit[u].active /\ unit[u].result # "success" /\ unit[u].driver # Unattributed
    /\ Spend("vacuum")
    /\ unit' = [unit EXCEPT ![u].driver = Unattributed]
    /\ decay' = [decay EXCEPT ![u] =
          IF prior[u] = NoPage THEN "unseen"
          ELSE IF prior[u].key.run = unit[u].run THEN @
          ELSE IF \E l \in prior[u].lines : l.run = unit[u].run THEN "published"
          ELSE "unseen"]
    /\ UNCHANGED <<problem, tickVars, pageVars, cleared, seen, torn>>

ProblemChanges(p) ==
    /\ Spend("change")
    /\ problem' = IF p \in problem THEN problem \ {p} ELSE problem \cup {p}
    /\ UNCHANGED <<unit, tickVars, pageVars, history>>

\* The dedup window of a set-derived page ends; that of an episode (30 days)
\* outlives every run of the model.
MarkerExpires ==
    /\ phase = "idle" /\ Spend("expire")
    /\ \E m \in sent : m[1] \in Tier /\ sent' = sent \ {m}
    /\ UNCHANGED <<unit, problem, tickVars, prior, open, history>>

(***************************************************************************)
(* Sampling                                                                *)
(***************************************************************************)

TickStart ==
    /\ phase = "idle"
    /\ phase' = "sample" /\ toRead' = Unit /\ sample' = NoFindings /\ taken' = 0
    /\ cleared' = {} /\ torn' = FALSE
    /\ UNCHANGED <<boxVars, reading, found, others, now, due, queued, unpublished, unalerted,
                   pageVars, seen, decay>>

\* Result and InactiveExitTimestamp are read first ...
ReadResult(u) ==
    /\ phase = "sample" /\ reading = NoPage /\ u \in toRead
    /\ reading' = [unit |-> u, result |-> unit[u].result, run |-> unit[u].run]
    /\ UNCHANGED <<boxVars, phase, toRead, sample, taken, found, others, now, due,
                   queued, unpublished, unalerted, pageVars, history>>

\* The driver published for this very run, if the file has one.  A run is told
\* by the timestamp in the key of its row.
Pinned(u, result, run) ==
    IF prior[u] # NoPage /\ prior[u].key.result = result /\ prior[u].key.run = run
    THEN {l.driver : l \in prior[u].lines} ELSE {}

Attributed(u, result, run) ==
    IF Pinned(u, result, run) = {} THEN {unit[u].driver} ELSE Pinned(u, result, run)

CarriedNothing(u) == {}

\* The lines a sample carries over for a unit that is running: those of its row.
CarriedLines(u) == IF prior[u] = NoPage THEN {} ELSE prior[u].lines

\* ... and ActiveState after them, then the driver.
Classify(u) ==
    /\ phase = "sample" /\ reading # NoPage /\ reading.unit = u
    /\ \/ /\ unit[u].active /\ CarriedLines(u) # {}
          /\ \E l \in CarriedLines(u) : sample' = [sample EXCEPT ![u] = l]
       \/ /\ ~unit[u].active /\ reading.result # "success"
          /\ \E d \in Attributed(u, reading.result, reading.run) :
                sample' = [sample EXCEPT ![u] =
                   [result |-> reading.result, driver |-> d, run |-> reading.run]]
       \/ /\ IF unit[u].active THEN CarriedLines(u) = {} ELSE reading.result = "success"
          /\ UNCHANGED sample
    /\ reading' = NoPage /\ toRead' = toRead \ {u}
    /\ UNCHANGED <<boxVars, phase, taken, found, others, now, due, queued, unpublished, unalerted,
                   pageVars, history>>

\* confirm_intersect: a unit finding is identified by its unit, and the fresher
\* line of the two is kept.
Confirm(old, new) ==
    [u \in Unit |-> IF old[u] = NoPage THEN NoPage ELSE new[u]]

VanishedRows(rows) == {s \in Subject : prior[s] # NoPage /\ rows[s] = NoPage}

\* Pages of the previous tick whose key this tick does not carry.
Gone(rows) ==
    {s \in Subject : prior[s] # NoPage /\ (rows[s] = NoPage \/ rows[s].key # prior[s].key)}

EnoughAndOneMore(samples) == samples > Attempts

Enough(samples) == samples = Attempts

SampleEnds ==
    /\ phase = "sample" /\ toRead = {} /\ reading = NoPage
    /\ LET f == IF taken = 0 THEN sample ELSE Confirm(found, sample)
           o == IF taken = 0 THEN problem ELSE others \cap problem
       IN  \/ /\ f = NoFindings /\ o = {}
              /\ phase' = "clear" /\ due' = Gone(Clean)
              /\ found' = f /\ others' = o
              /\ UNCHANGED <<toRead, sample, taken>>
           \/ /\ ~(f = NoFindings /\ o = {})
              /\ found' = f /\ others' = o /\ taken' = taken + 1
              /\ IF Enough(taken + 1)
                 THEN phase' = "units" /\ UNCHANGED <<toRead, sample>>
                 ELSE phase' = phase /\ toRead' = Unit /\ sample' = NoFindings
              /\ UNCHANGED due
    /\ UNCHANGED <<boxVars, reading, now, queued, unpublished, unalerted, pageVars, history>>

(***************************************************************************)
(* Publishing                                                              *)
(***************************************************************************)

\* What a page that reached nobody adds to UNALERTED_CRITICALS, in lines.
Unheard(s, lines) == IF s = "warning" THEN 0 ELSE Cardinality(lines)

\* publish_page: krepis drops a page whose marker is live and reports success.
Publish(s, key, lines) ==
    \/ /\ sent' = sent \cup {<<s, key>>}
       /\ open' = IF <<s, key>> \in sent THEN open ELSE open \cup {<<s, key>>}
       /\ UNCHANGED <<budget, unalerted>>
    \/ /\ <<s, key>> \notin sent /\ Spend("lost")
       /\ unalerted' = unalerted + Unheard(s, lines)
       /\ UNCHANGED <<sent, open>>

RunKeyWithoutTime(f) == [f EXCEPT !.run = 0]

RunKey(f) == f

SameEpisodeByResult(key, f) == key.result = f.result

\* Which failing runs of a unit share an episode: one Result and one driver, or
\* one run whose evidence is gone.
SameEpisode(key, f) ==
    /\ key.result = f.result
    /\ key.driver = f.driver \/ (f.driver = Unattributed /\ key.run = f.run)

EpisodeKey(u, f) ==
    IF prior[u] # NoPage /\ SameEpisode(prior[u].key, f) THEN prior[u].key ELSE RunKey(f)

\* A unit that is running now keeps the key it has.
PublishedKey(u, f) ==
    IF unit[u].active /\ prior[u] # NoPage THEN prior[u].key ELSE EpisodeKey(u, f)

PublishUnit(u) ==
    /\ phase = "units" /\ found[u] # NoPage /\ now[u] = NoPage
    /\ Publish(u, PublishedKey(u, found[u]), {found[u]})
    /\ now' = [now EXCEPT ![u] = [key |-> PublishedKey(u, found[u]), lines |-> {found[u]}]]
    /\ UNCHANGED <<unit, problem, phase, toRead, reading, sample, taken, found, others,
                   due, queued, unpublished, prior, history>>

\* The key of a set-derived page: the sorted lines, cut to KeyLines of them.
SetKey(lines) == {p \in lines : Cardinality({q \in lines : q < p}) < KeyLines}

SetPage(lines) == IF lines = {} THEN NoPage ELSE [key |-> SetKey(lines), lines |-> lines]

\* The other criticals are published, the warnings are left to the console.
PublishTiers ==
    /\ phase = "units" /\ \A u \in Unit : found[u] = NoPage \/ now[u] # NoPage
    /\ \/ others \cap Critical = {} /\ UNCHANGED <<sent, open, budget, unalerted>>
       \/ /\ others \cap Critical # {}
          /\ Publish("critical", SetKey(others \cap Critical), others \cap Critical)
    /\ LET rows == [now EXCEPT !["critical"] = SetPage(others \cap Critical),
                               !["warning"] = SetPage(others \cap Warning)]
       IN  now' = rows /\ due' = Gone(rows)
    /\ phase' = "clear"
    /\ UNCHANGED <<unit, problem, toRead, reading, sample, taken, found, others,
                   queued, unpublished, prior, history>>

(***************************************************************************)
(* finalize_alert_lifecycle                                                *)
(***************************************************************************)

NeverMissed(delivered) == 0

\* What UNPUBLISHED_CLEARS counts of one attempt.
Missed(delivered) == IF delivered THEN 0 ELSE 1

\* publish_channel_clear
ChannelClear(s) ==
    \/ /\ cleared' = cleared \cup {s}
       /\ open' = open \ {<<s, prior[s].key>>}
       /\ unpublished' = unpublished + Missed(TRUE)
       /\ UNCHANGED budget
    \/ /\ Spend("lost")
       /\ unpublished' = unpublished + Missed(FALSE)
       /\ UNCHANGED <<cleared, open>>

\* clear_destination: a page that buzzed is cleared on the channel.
Buzzed(s) == s # "warning"

PublishClear(s) ==
    /\ phase = "clear" /\ s \in due
    /\ due' = due \ {s}
    /\ \/ /\ Buzzed(s) /\ ChannelClear(s) /\ UNCHANGED queued
       \/ /\ ~Buzzed(s) /\ queued' = queued \cup {s}
          /\ UNCHANGED <<cleared, open, unpublished, budget>>
    /\ UNCHANGED <<unit, problem, phase, toRead, reading, sample, taken, found, others,
                   now, unalerted, prior, sent, seen, decay, torn>>

\* The console takes the warnings and the queued clears ...
EmitEnvelope ==
    /\ phase = "clear" /\ due = {}
    /\ phase' = "write" /\ queued' = {}
    /\ cleared' = cleared \cup queued
    /\ open' = open \ {<<s, prior[s].key>> : s \in queued}
    /\ UNCHANGED <<boxVars, toRead, reading, sample, taken, found, others, now, due,
                   unpublished, unalerted, prior, sent, seen, decay, torn>>

\* ... or cannot be written, and then both go to the channel: the pages first,
EnvelopeFails ==
    /\ phase = "clear" /\ due = {}
    /\ Spend("lost")
    /\ phase' = IF now["warning"] = NoPage THEN "fallback" ELSE "deferred"
    /\ UNCHANGED <<unit, problem, toRead, reading, sample, taken, found, others, now,
                   due, queued, unpublished, unalerted, pageVars, history>>

FallbackPage ==
    /\ phase = "deferred" /\ phase' = "fallback"
    /\ Publish("warning", now["warning"].key, now["warning"].lines)
    /\ UNCHANGED <<unit, problem, toRead, reading, sample, taken, found, others, now,
                   due, queued, unpublished, prior, history>>

\* the clears after them.
FallbackClear(s) ==
    /\ phase = "fallback" /\ s \in queued
    /\ queued' = queued \ {s}
    /\ ChannelClear(s)
    /\ UNCHANGED <<unit, problem, phase, toRead, reading, sample, taken, found, others,
                   now, due, unalerted, prior, sent, seen, decay, torn>>

FallbackEnds ==
    /\ phase = "fallback" /\ queued = {} /\ phase' = "write"
    /\ UNCHANGED <<boxVars, toRead, reading, sample, taken, found, others, now, due,
                   queued, unpublished, unalerted, pageVars, history>>

\* The process is gone, whatever it knew with it.
Forget ==
    /\ phase' = "idle" /\ toRead' = {} /\ reading' = NoPage /\ taken' = 0
    /\ sample' = NoFindings /\ found' = NoFindings /\ others' = {}
    /\ now' = Clean /\ due' = {} /\ queued' = {} /\ unpublished' = 0 /\ unalerted' = 0
    /\ cleared' = {} /\ torn' = FALSE

\* How unit u stands when its page is written down.
Standing(u) ==
    IF unit[u].active \/ unit[u].run = now[u].key.run THEN {}
    ELSE {<<unit[u].result, unit[u].driver>>}

WrittenUnlessClean(rows) == IF rows = Clean THEN prior ELSE rows

\* What the file holds after a tick, the clean one included.
Written(rows) == rows

\* alerted_state_write: the file is replaced in one step ...
WriteState ==
    /\ phase = "write" /\ Forget
    /\ prior' = Written(now)
    /\ seen' = [u \in Unit |->
          IF now[u] = NoPage THEN {}
          ELSE IF prior[u] # NoPage /\ prior[u].key = now[u].key THEN seen[u]
          ELSE {<<now[u].key.result, now[u].key.driver>>} \cup Standing(u)]
    /\ decay' = [u \in Unit |->
          IF u \in Gone(now) \/ now[u] = NoPage THEN "kept" ELSE decay[u]]
    /\ UNCHANGED <<boxVars, sent, open>>

\* ... or not at all, and the tick ends all the same.
WriteFails ==
    /\ phase = "write" /\ Forget /\ Spend("kill")
    /\ UNCHANGED <<unit, problem, pageVars, seen, decay>>

\* TimeoutStartSec, a reboot, an error under set -u.
Killed ==
    /\ phase # "idle" /\ Forget /\ Spend("kill")
    /\ UNCHANGED <<unit, problem, pageVars, seen, decay>>

BoxMoves == (\E u \in Unit : RunStarts(u) \/ RunEnds(u) \/ Vacuum(u))
            \/ (\E p \in Problem : ProblemChanges(p)) \/ MarkerExpires

TickMoves ==
    \/ \E u \in Unit : ReadResult(u) \/ Classify(u) \/ PublishUnit(u)
    \/ SampleEnds \/ PublishTiers
    \/ \E s \in Subject : PublishClear(s) \/ FallbackClear(s)
    \/ EmitEnvelope \/ EnvelopeFails \/ FallbackPage \/ FallbackEnds
    \/ WriteState \/ WriteFails

Next == BoxMoves \/ TickStart \/ TickMoves \/ Killed

Spec == Init /\ [][Next]_vars

\* The timer starts a tick every ten minutes and a tick is bounded by its
\* timeouts; a run that has started ends.
FairSpec ==
    /\ Spec
    /\ WF_vars(TickStart) /\ WF_vars(TickMoves)
    /\ \A u \in Unit : WF_vars(RunEnds(u))

(***************************************************************************)
(* Properties                                                              *)
(***************************************************************************)

\* What the alerted-state file may hold: a unit's page is keyed by a failing run
\* and carries such runs, a tier's page carries the lines its key is cut from.
RowsOK(rows) ==
    /\ DOMAIN rows = Subject
    /\ \A u \in Unit : rows[u] # NoPage => rows[u].key \in Finding /\ rows[u].lines \subseteq Finding
    /\ \A t \in Tier : rows[t] # NoPage => rows[t].key \subseteq rows[t].lines /\ rows[t].lines \subseteq Problem

\* ... and a page is named by its subject and a key of that subject's kind.
KeysOK(keys) ==
    \A k \in keys : \/ k[1] \in Unit /\ k[2] \in Finding
                    \/ k[1] \in Tier /\ k[2] \subseteq Problem

\* Every variable keeps its type; what a tick knows is empty between ticks.
TypeOK ==
    /\ unit \in [Unit -> [active : BOOLEAN, result : Result \cup {"success"},
                          run : 0 .. MaxRun, driver : Label]]
    /\ problem \subseteq Problem /\ budget \in [Event -> Nat]
    /\ phase \in {"idle", "sample", "units", "clear", "deferred", "fallback", "write"}
    /\ toRead \subseteq Unit
    /\ reading \in Read \cup {NoPage}
    /\ sample \in [Unit -> Finding \cup {NoPage}] /\ found \in [Unit -> Finding \cup {NoPage}]
    /\ taken \in 0 .. Attempts /\ others \subseteq Problem
    /\ RowsOK(now) /\ RowsOK(prior)
    /\ due \subseteq Subject /\ queued \subseteq {"warning"} /\ cleared \subseteq Subject
    /\ unpublished \in Nat /\ unalerted \in Nat /\ torn \in BOOLEAN
    /\ KeysOK(sent) /\ KeysOK(open)
    /\ seen \in [Unit -> SUBSET ((Result \cup {"success"}) \X Label)]
    /\ decay \in [Unit -> {"kept", "published", "unseen"}]
    /\ phase = "idle" => now = Clean /\ due = {} /\ queued = {} /\ reading = NoPage

\* The two gauges are exact when they are published: every clear that was due
\* was delivered, on the channel or the console, or is counted, and every
\* critical line whose page is with nobody is counted (finalize_alert_lifecycle,
\* publish_page), through the fallback and all.
Accounted ==
    phase = "write" =>
       /\ Cardinality(Gone(now)) = Cardinality(cleared) + unpublished
       /\ unalerted = Cardinality({u \in Unit : now[u] # NoPage /\ <<u, now[u].key>> \notin sent})
            + (IF now["critical"] # NoPage /\ <<"critical", now["critical"].key>> \notin sent
               THEN Cardinality(now["critical"].lines) ELSE 0)

\* Since its page was opened, every run of u ended the way its page says.
Steady(u) == prior[u] # NoPage /\ seen[u] \subseteq {<<prior[u].key.result, prior[u].key.driver>>}

ClearDelivered(s) == s \in cleared' \ cleared

\* A unit that keeps failing for one reason keeps its page: no clear is sent for
\* it, whatever was in flight while it was sampled or published (I8359, I7677,
\* I10613), unless a run ended between the two reads of one sample or the journal
\* lost a run later than the one the key names.
StandingPageKept ==
    [][\A u \in Unit : ClearDelivered(u) => ~Steady(u) \/ torn \/ decay[u] # "kept"]_vars

\* Lost evidence is not a new cause: once a run of the unit has been published,
\* losing its journal does not clear the page.  box_health.sh:1184-1223 says the
\* driver published for a run is reused for as long as that run is unchanged.
EvidenceLossKeepsPage ==
    [][\A u \in Unit : ClearDelivered(u) => ~Steady(u) \/ torn \/ decay[u] = "unseen"]_vars

Uninterrupted == \E b \in Budget : budget["kill"] = b["kill"]

\* As long as every tick came to its end, a unit whose page was delivered and is
\* written down as standing has not been told to the reader as resolved: no key
\* is taken up again after its clear, when the 30-day marker would keep it quiet.
StandingPageOpen ==
    Uninterrupted /\ phase = "idle" =>
       \A u \in Unit : prior[u] # NoPage /\ <<u, prior[u].key>> \in sent
                          => <<u, prior[u].key>> \in open

PagesOf(rows) == {<<s, rows[s].key>> : s \in {t \in Subject : rows[t] # NoPage}}

Paging == INSTANCE Pages WITH
    Page <- (Unit \X Finding) \cup (Tier \X SUBSET Problem),
    written <- PagesOf(prior),
    known <- sent,
    resolved <- {<<s, prior[s].key>> : s \in cleared},
    missed <- unpublished

\* box_health.sh implements Pages: no row leaves the alerted-state file, whether its
\* subject is gone or has a new key, without a delivered clear or a count of one that
\* was not, through both destinations of a clear, the fallback, lost publishes and
\* killed ticks (finalize_alert_lifecycle), and a page reaches the reader once a marker.
ImplementsPages == Paging!Spec

\* A unit that is down for good for a cause the journal names ends up with a
\* page that says so and that the reader has: a publish that failed is repeated,
\* and a cause that changed opens a page of its own (I10237).
CauseIsPaged ==
    \A u \in Unit, r \in Result, d \in Driver :
       (<>[](~unit[u].active /\ unit[u].result = r /\ unit[u].driver = d))
          => <>[](/\ prior[u] # NoPage /\ prior[u].key.result = r /\ prior[u].key.driver = d
                  /\ Uninterrupted => <<u, prior[u].key>> \in open)

\* A unit that is repaired for good leaves the alerted state: a clean tick clears
\* too (finalize_alert_lifecycle is called on every exit path), and a publish, a
\* write or a tick that failed is made up for.
RepairIsCleared ==
    \A u \in Unit : (<>[](~unit[u].active /\ unit[u].result = "success"))
                       => <>[](prior[u] = NoPage)

\* Nor does a set-derived page stay written down with a line that is over.
FindingGoneIsCleared ==
    \A p \in Problem : (<>[](p \notin problem))
                          => <>[](\A t \in Tier : prior[t] = NoPage \/ p \notin prior[t].lines)
=============================================================================
