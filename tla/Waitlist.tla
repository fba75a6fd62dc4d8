------------------------------- MODULE Waitlist -------------------------------
(***************************************************************************)
(* The Metron waitlist: the signup handler and the delivery webhook, each  *)
(* a sequence of separate D1 statements and calls, in many Workers at      *)
(* once.  A statement may throw, with or without its effect; a Worker may  *)
(* be gone between two of them; Resend delivers an event at least once and *)
(* in no order, possibly before the signup has written down its message.   *)
(*                                                                         *)
(* A message is named by the request that sent it: a request sends one at  *)
(* most.  The funnel's rows per day are summed up.                         *)
(***************************************************************************)
EXTENDS Naturals, FiniteSets

CONSTANTS
    Submit,         \* valid requests to /api/waitlist; others touch no state
    Email,
    Event,          \* svix-ids
    Handler,        \* Workers that can be handling the webhook at once
    Subscribed,     \* event types Resend sends here
    KeyBound,       \* is RESEND_API_KEY bound
    LateThrow,      \* can a call throw after it took effect
    Budget,         \* bound: how many calls throw and Workers die
    None

Status == {"delivered", "bounced", "complained", "delivery_delayed"}
Metric == {"waitlist_new", "waitlist_dup", "email_sent", "email_failed",
           "email_delivered", "email_bounced"}

WaitlistAssumption ==
    /\ IsFiniteSet(Submit) /\ IsFiniteSet(Email) /\ IsFiniteSet(Event)
    /\ KeyBound \in BOOLEAN /\ LateThrow \in BOOLEAN
    /\ Budget \in Nat
    /\ None \notin Submit \cup Event \cup Status
ASSUME WaitlistAssumption

Row == [id : Submit \cup {None}, status : Status \cup {None}, event : Event \cup {None}]
Emission == [type : Subscribed, message : Submit \cup {None}, known : BOOLEAN]
ASSUME NoneAssumption == None \notin Row /\ None \notin Emission

VARIABLES
    row,        \* table waitlist
    ledger,     \* table processed_webhook_events
    funnel,     \* table funnel_daily
    request,    \* per request: where it is, its address, whether it made the row
    hook,       \* per webhook Worker: where it is and its event
    accepted,   \* Resend: the messages it took
    emitted,    \* Resend: what each event says, and whether its message was
                \* written down when it happened
    acked,      \* Resend: events answered with 200
    budget,     \* what is left of Budget
    applied     \* history: events that were written to the row of their message

tables == <<row, ledger, funnel>>
resend == <<accepted, emitted, acked>>
vars == <<tables, request, hook, resend, budget, applied>>

Init ==
    /\ row = [m \in Email |-> None] /\ ledger = {}
    /\ funnel = [k \in Metric |-> 0]
    /\ request \in [Submit -> [pc : {"insert"}, email : Email, new : {FALSE}]]
    /\ hook = [h \in Handler |-> [pc |-> "idle", event |-> None]]
    /\ accepted = {} /\ emitted = [e \in Event |-> None] /\ acked = {}
    /\ budget = Budget /\ applied = {}

\* A statement or call that throws, or a Worker that is gone.
Mishap == budget > 0 /\ budget' = budget - 1

\* bumpFunnel: a counter that cannot be written is let go.
Bump(k) ==
    \/ funnel' = [funnel EXCEPT ![k] = @ + 1] /\ UNCHANGED budget
    \/ UNCHANGED funnel /\ Mishap

(***************************************************************************)
(* /api/waitlist                                                           *)
(***************************************************************************)

AlwaysInserts(m) == TRUE

\* INSERT OR IGNORE reports a change.
Inserts(m) == row[m] = None

\* The table after it.
WithRow(m) ==
    IF row[m] = None THEN [row EXCEPT ![m] = [id |-> None, status |-> None, event |-> None]]
    ELSE row

Insert(s) ==
    /\ request[s].pc = "insert"
    /\ \/ /\ row' = WithRow(request[s].email)
          /\ request' = [request EXCEPT ![s].pc = "count", ![s].new = Inserts(request[s].email)]
          /\ UNCHANGED budget
       \/ /\ Mishap /\ (row' = row \/ (LateThrow /\ row' = WithRow(request[s].email)))
          /\ request' = [request EXCEPT ![s].pc = "failed"]
    /\ UNCHANGED <<ledger, funnel, hook, resend, applied>>

NewForDup(new) == IF new THEN "waitlist_dup" ELSE "waitlist_new"

SignupMetric(new) == IF new THEN "waitlist_new" ELSE "waitlist_dup"

CountSignup(s) ==
    /\ request[s].pc = "count"
    /\ Bump(SignupMetric(request[s].new))
    /\ request' = [request EXCEPT ![s].pc =
                     IF request[s].new /\ KeyBound THEN "send" ELSE "done"]
    /\ UNCHANGED <<row, ledger, hook, resend, applied>>

\* sendConfirmation: Resend takes the message and names it, or takes it and the
\* body cannot be read, or takes it and the call throws, or does not take it.
Send(s) ==
    /\ request[s].pc = "send"
    /\ \/ /\ accepted' = accepted \cup {s} /\ UNCHANGED budget
          /\ request' = [request EXCEPT ![s].pc = "named"]
       \/ /\ accepted' = accepted \cup {s} /\ Mishap
          /\ \E pc \in {"unnamed", "unsent"} :
                (pc = "unsent" => LateThrow) /\ request' = [request EXCEPT ![s].pc = pc]
       \/ /\ UNCHANGED accepted /\ Mishap
          /\ request' = [request EXCEPT ![s].pc = "unsent"]
    /\ UNCHANGED <<tables, hook, emitted, acked, applied>>

MessageForgotten(pc) == "done"

\* Where the handler goes when it has counted the send.
AfterSend(pc) == IF pc = "named" THEN "record" ELSE "done"

CountSend(s) ==
    /\ request[s].pc \in {"named", "unnamed", "unsent"}
    /\ Bump(IF request[s].pc = "unsent" THEN "email_failed" ELSE "email_sent")
    /\ request' = [request EXCEPT ![s].pc = AfterSend(request[s].pc)]
    /\ UNCHANGED <<row, ledger, hook, resend, applied>>

RecordMessageId(s) ==
    /\ request[s].pc = "record"
    /\ \/ row' = [row EXCEPT ![request[s].email].id = s] /\ UNCHANGED budget
       \/ UNCHANGED row /\ Mishap
    /\ request' = [request EXCEPT ![s].pc = "done"]
    /\ UNCHANGED <<ledger, funnel, hook, resend, applied>>

Running(s) == request[s].pc \notin {"done", "failed", "gone"}

\* The Worker is evicted.
RequestKilled(s) ==
    /\ Running(s) /\ Mishap
    /\ request' = [request EXCEPT ![s].pc = "gone"]
    /\ UNCHANGED <<tables, hook, resend, applied>>

(***************************************************************************)
(* Resend                                                                  *)
(***************************************************************************)

\* Something happens to a message, which may be one no signup sent.
Emit(e) ==
    /\ emitted[e] = None
    /\ \E t \in Subscribed, s \in accepted \cup {None} :
          emitted' = [emitted EXCEPT ![e] =
             [type |-> t, message |-> s,
              known |-> s # None /\ \E m \in Email : row[m] # None /\ row[m].id = s]]
    /\ UNCHANGED <<tables, request, hook, accepted, acked, budget, applied>>

\* The event is delivered, once or more, also while a delivery of it is being
\* handled and after one was answered.
Deliver(h, e) ==
    /\ hook[h].pc = "idle" /\ emitted[e] # None
    /\ hook' = [hook EXCEPT ![h] = [pc |-> "ledger", event |-> e]]
    /\ UNCHANGED <<tables, request, resend, budget, applied>>

(***************************************************************************)
(* /api/resend-webhook                                                     *)
(***************************************************************************)

\* FUNNEL_METRIC_BY_STATUS
FunnelMetric == [delivered |-> "email_delivered", bounced |-> "email_bounced"]

Free(h) == hook' = [hook EXCEPT ![h] = [pc |-> "idle", event |-> None]]

Answer(h) == Free(h) /\ acked' = acked \cup {hook[h].event}

\* A statement of the handler throws: the Worker answers 500.
Throws(h) == Mishap /\ Free(h) /\ UNCHANGED acked

AnyType(type) == TRUE

\* DELIVERY_STATUS_BY_TYPE has the type.
Tracked(type) == type \in Status

NothingSeen(e) == TRUE

\* markWebhookEventProcessed
FirstSeen(e) == e \notin ledger

MarkProcessed(h) ==
    /\ hook[h].pc = "ledger"
    /\ LET e == hook[h].event
       IN  \/ /\ ledger' = ledger \cup {e} /\ UNCHANGED budget
              /\ IF FirstSeen(e) /\ Tracked(emitted[e].type)
                 THEN hook' = [hook EXCEPT ![h].pc = "update"] /\ UNCHANGED acked
                 ELSE Answer(h)
           \/ Throws(h) /\ (ledger' = ledger \/ (LateThrow /\ ledger' = ledger \cup {e}))
    /\ UNCHANGED <<row, funnel, request, accepted, emitted, applied>>

NamesAny(r, s) == r # None /\ s # None

\* WHERE resend_message_id = ?
Names(r, s) == r # None /\ s # None /\ r.id = s

\* The table after recordDeliveryEvent.
Stamped(e) ==
    [m \in Email |->
       IF Names(row[m], emitted[e].message)
       THEN [row[m] EXCEPT !.status = emitted[e].type, !.event = e] ELSE row[m]]

\* The events applied after it: where no row names the message it changes nothing.
WithApplied(e) ==
    IF \E m \in Email : Names(row[m], emitted[e].message) THEN applied \cup {e} ELSE applied

\* A message the event does not name is not looked for.
RecordDelivery(h) ==
    /\ hook[h].pc = "update"
    /\ LET e == hook[h].event
       IN  \/ /\ row' = Stamped(e) /\ applied' = WithApplied(e)
              /\ hook' = [hook EXCEPT ![h].pc = "count"]
              /\ UNCHANGED <<budget, acked>>
           \/ /\ emitted[e].message # None /\ Throws(h)
              /\ \/ UNCHANGED <<row, applied>>
                 \/ LateThrow /\ row' = Stamped(e) /\ applied' = WithApplied(e)
    /\ UNCHANGED <<ledger, funnel, request, accepted, emitted>>

CountDelivery(h) ==
    /\ hook[h].pc = "count"
    /\ LET t == emitted[hook[h].event].type
       IN  \/ t \in DOMAIN FunnelMetric /\ Bump(FunnelMetric[t])
           \/ t \notin DOMAIN FunnelMetric /\ UNCHANGED <<funnel, budget>>
    /\ Answer(h)
    /\ UNCHANGED <<row, ledger, request, accepted, emitted, applied>>

HandlerKilled(h) ==
    /\ hook[h].pc # "idle" /\ Mishap /\ Free(h)
    /\ UNCHANGED <<tables, request, resend, applied>>

RequestStep(s) ==
    Insert(s) \/ CountSignup(s) \/ Send(s) \/ CountSend(s) \/ RecordMessageId(s)

HandlerStep(h) == MarkProcessed(h) \/ RecordDelivery(h) \/ CountDelivery(h)

Next ==
    \/ \E s \in Submit : RequestStep(s) \/ RequestKilled(s)
    \/ \E e \in Event : Emit(e) \/ \E h \in Handler : Deliver(h, e)
    \/ \E h \in Handler : HandlerStep(h) \/ HandlerKilled(h)

Spec == Init /\ [][Next]_vars

(***************************************************************************)
(* Properties                                                              *)
(***************************************************************************)

\* Every table, Worker and message keeps its type.
TypeOK ==
    /\ row \in [Email -> Row \cup {None}]
    /\ ledger \subseteq Event /\ funnel \in [Metric -> Nat]
    /\ request \in [Submit -> [pc : {"insert", "count", "send", "named", "unnamed", "unsent",
                                     "record", "done", "failed", "gone"},
                               email : Email, new : BOOLEAN]]
    /\ hook \in [Handler -> [pc : {"idle", "ledger", "update", "count"}, event : Event \cup {None}]]
    /\ accepted \subseteq Submit /\ acked \subseteq Event /\ applied \subseteq Event
    /\ emitted \in [Event -> Emission \cup {None}]
    /\ budget \in Nat

Rows == {m \in Email : row[m] # None}
Seen(type) == {e \in ledger : emitted[e].type = type}

\* No address is ever sent a second confirmation, whatever is retried, submitted
\* twice at once or thrown after it took effect (waitlist.ts: new signups only).
OneConfirmation ==
    \A s, t \in accepted : request[s].email = request[t].email => s = t

\* A row's delivery status is what its event says of the one message sent to its
\* address; a row without an event has none, and one an event was written to never
\* goes back to having none (resend-webhook.ts: absence stays visible, never inferred).
RowTellsItsMessage ==
    /\ \A m \in Rows :
          /\ row[m].id # None => row[m].id \in accepted /\ request[row[m].id].email = m
          /\ (row[m].event = None) <=> (row[m].status = None)
          /\ row[m].event # None =>
                /\ row[m].id # None
                /\ emitted[row[m].event].message = row[m].id
                /\ emitted[row[m].event].type = row[m].status
    /\ \A e \in applied : row[request[emitted[e].message].email].event # None

\* The funnel never says more than happened: a redelivered event, a repeated
\* submit or a swallowed failure counts nothing twice (resend-webhook.ts: never a
\* double funnel bump).
NeverOvercounts ==
    /\ funnel["waitlist_new"] <= Cardinality(Rows)
    /\ funnel["waitlist_new"] + funnel["waitlist_dup"] <= Cardinality(Submit)
    /\ funnel["email_sent"] <= Cardinality(accepted)
    /\ funnel["email_sent"] + funnel["email_failed"] <= Cardinality(Rows)
    /\ funnel["email_delivered"] <= Cardinality(Seen("delivered"))
    /\ funnel["email_bounced"] <= Cardinality(Seen("bounced"))

\* Mishaps so far.
Spent == Budget - budget

KnowsMessage(m) == row[m] # None /\ row[m].id # None

\* A request made the row of m and is at one of these places.
Maker(m, places) ==
    \E s \in Submit : request[s].email = m /\ request[s].new /\ request[s].pc \in places

\* A Worker is at work on e at one of these places.
Worker(e, places) == \E h \in Handler : hook[h].event = e /\ hook[h].pc \in places

\* What e says is for a row: it is about a message that was on its row when e happened.
\* An event that is early, or whose message was never written down, finds no row.
ForARow(e) == Tracked(emitted[e].type) /\ emitted[e].known

\* No Worker is at work on e.
Settled(e) == \A h \in Handler : hook[h].event # e

\* Rows without their message that no request is on its way to complete, and events
\* for a row that were marked, were not written to it and are no Worker's any more.
LostRows == {m \in Rows : ~KnowsMessage(m) /\ ~Maker(m, {"count", "send", "named", "record"})}
LostEvents == {e \in ledger : ForARow(e) /\ e \notin applied /\ ~Worker(e, {"update"})}

\* A mishap costs at most one row its message, and at most one event whose message was
\* on its row when it happened is kept from that row; without a mishap neither is
\* lost, however many submits, deliveries and Workers there are.  An event that came
\* before its message was written down, or after its message was lost, is not counted:
\* the code logs it and answers 200 without any mishap (resend-webhook.ts:202-208).
LossesBounded ==
    /\ KeyBound => Cardinality(LostRows) <= Spent
    /\ Cardinality(LostEvents) <= Spent

\* Rows, requests, messages and events that are past being counted.
RowsPast(places) == {m \in Rows : ~Maker(m, places)}
RequestsPast == {s \in Submit : request[s].pc \notin {"insert", "count"}}
MessagesPast == {s \in accepted : request[s].pc \notin {"named", "unnamed"}}
EventsPast(type) == {e \in Seen(type) : ~Worker(e, {"update", "count"})}

\* No counter of the funnel is short by more than the mishaps there were: nothing
\* but a mishap keeps what happened from being counted, and a mishap keeps back one.
ShortfallBounded ==
    /\ Cardinality(RowsPast({"count"})) <= funnel["waitlist_new"] + Spent
    /\ Cardinality(RequestsPast) <= funnel["waitlist_new"] + funnel["waitlist_dup"] + Spent
    /\ Cardinality(MessagesPast) <= funnel["email_sent"] + Spent
    /\ KeyBound => Cardinality(RowsPast({"count", "send", "named", "unnamed", "unsent"}))
                      <= funnel["email_sent"] + funnel["email_failed"] + Spent
    /\ Cardinality(EventsPast("delivered")) <= funnel["email_delivered"] + Spent
    /\ Cardinality(EventsPast("bounced")) <= funnel["email_bounced"] + Spent

\* Whom an event is about: the address of its message, if it is one of ours.
About(e) ==
    IF emitted[e] = None \/ emitted[e].message = None THEN {}
    ELSE {request[emitted[e].message].email}

List == INSTANCE Mailing WITH
    Address <- Email, Report <- Event, Nothing <- None,
    listed <- Rows,
    confirmed <- {request[s].email : s \in accepted},
    subject <- [e \in Event |-> About(e)],
    used <- applied,
    shown <- [m \in Email |-> IF row[m] = None THEN None ELSE row[m].event]

\* waitlist.ts and resend-webhook.ts implement Mailing: one confirmation per address
\* and after its row, no row ever goes, and an event has its effect once, on the row of
\* its own message, through redelivery, throws after the effect, and dead Workers.
ImplementsMailing == List!Spec

\* What Resend need not deliver again is on its row, where that row was there to take
\* it: d1.ts:112-116 says a delivery event that fails to persist must raise, not
\* disappear.
AcknowledgedIsRecorded ==
    \A e \in acked : ForARow(e) /\ Settled(e) => e \in applied
=============================================================================
