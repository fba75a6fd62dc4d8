--------------------------- MODULE Waitlist_proofs ---------------------------
(***************************************************************************)
(* Proofs about Waitlist for every set of requests, addresses, events and  *)
(* Workers, whatever Resend sends and however many calls fail.             *)
(***************************************************************************)
EXTENDS Waitlist, FiniteSetTheorems, TLAPS

USE WaitlistAssumption, NoneAssumption DEF WaitlistAssumption

\* A Worker at work on an event has one that happened, and only an event of a
\* tracked type gets as far as a row.
HookOK ==
    \A h \in Handler :
       /\ hook[h].pc # "idle" => hook[h].event \in Event /\ emitted[hook[h].event] # None
       /\ hook[h].pc = "update" => Tracked(emitted[hook[h].event].type)

\* Only the request that made a row sends, and it is the only one of its address.
SendersOK ==
    /\ \A s \in Submit : request[s].pc = "insert" => ~request[s].new
    /\ \A s \in Submit : request[s].new => row[request[s].email] # None
    /\ \A s, t \in Submit :
          request[s].new /\ request[t].new /\ request[s].email = request[t].email => s = t
    /\ \A s \in Submit :
          request[s].pc \in {"send", "named", "unnamed", "unsent", "record"} => request[s].new
    /\ \A s \in accepted : request[s].new
    /\ \A s \in Submit : request[s].pc \in {"named", "unnamed", "record"} => s \in accepted

\* A row names the message of its own address, once that request is done.
NamesOK ==
    \A m \in Email : row[m] # None /\ row[m].id # None =>
       /\ row[m].id \in accepted /\ request[row[m].id].email = m
       /\ request[row[m].id].pc = "done"

\* A row shows one event of that message or none; an event whose message was written
\* down when it happened, or when it was applied, still finds it there, and the row of
\* one that was applied shows an event.
EventsOK ==
    /\ \A m \in Email : row[m] # None =>
          /\ (row[m].event = None) <=> (row[m].status = None)
          /\ row[m].event # None =>
                /\ row[m].id # None
                /\ emitted[row[m].event] # None
                /\ emitted[row[m].event].message = row[m].id
                /\ emitted[row[m].event].type = row[m].status
    /\ \A e \in Event : emitted[e] # None /\ (emitted[e].known \/ e \in applied) =>
          /\ emitted[e].message \in accepted
          /\ row[request[emitted[e].message].email] # None
          /\ row[request[emitted[e].message].email].id = emitted[e].message
    /\ \A e \in applied :
          emitted[e] # None /\ row[request[emitted[e].message].email].event # None

IInv == TypeOK /\ HookOK /\ SendersOK /\ NamesOK /\ EventsOK

-----------------------------------------------------------------------------
\* The table after INSERT OR IGNORE: a new row names nothing, others stay.
LEMMA WithRowFacts ==
    ASSUME TypeOK, NEW m \in Email
    PROVE  /\ WithRow(m) \in [Email -> Row \cup {None}]
           /\ WithRow(m)[m] # None
           /\ \A n \in Email : row[n] # None => WithRow(m)[n] = row[n]
           /\ \A n \in Email : row[n] = None /\ WithRow(m)[n] # None =>
                 WithRow(m)[n].id = None /\ WithRow(m)[n].status = None /\ WithRow(m)[n].event = None
<1> DEFINE fresh == [id |-> None, status |-> None, event |-> None]
<1>1. fresh \in Row
  BY DEF Row
<1>2. row \in [Email -> Row \cup {None}]
  BY DEF TypeOK
<1>3. fresh # None
  BY <1>1
<1>4. CASE row[m] = None
  <2>1. WithRow(m) = [row EXCEPT ![m] = fresh]
    BY <1>4 DEF WithRow
  <2> HIDE DEF fresh
  <2>2. /\ WithRow(m) \in [Email -> Row \cup {None}] /\ WithRow(m)[m] = fresh
        /\ \A n \in Email : n # m => WithRow(m)[n] = row[n]
    BY <1>1, <1>2, <2>1
  <2>3. fresh.id = None /\ fresh.status = None /\ fresh.event = None
    BY DEF fresh
  <2> QED
    BY <1>3, <1>4, <2>2, <2>3
<1>5. CASE row[m] # None
  BY <1>2, <1>5 DEF WithRow
<1> QED
  BY <1>4, <1>5

\* The table after an event was applied: rows stay rows and keep their message;
\* those the event names show it, the others stay.
LEMMA StampedFacts ==
    ASSUME TypeOK, NEW e \in Event, emitted[e] # None, Tracked(emitted[e].type)
    PROVE  /\ Stamped(e) \in [Email -> Row \cup {None}]
           /\ \A m \in Email : row[m] = None <=> Stamped(e)[m] = None
           /\ \A m \in Email : row[m] # None => Stamped(e)[m].id = row[m].id
           /\ \A m \in Email : Names(row[m], emitted[e].message) =>
                 /\ row[m] # None /\ row[m].id = emitted[e].message /\ row[m].id # None
                 /\ Stamped(e)[m].status = emitted[e].type /\ Stamped(e)[m].event = e
           /\ \A m \in Email : ~Names(row[m], emitted[e].message) => Stamped(e)[m] = row[m]
<1>1. row \in [Email -> Row \cup {None}] /\ emitted[e].type \in Status
  BY DEF TypeOK, Tracked
<1>2. ASSUME NEW m \in Email, Names(row[m], emitted[e].message)
      PROVE  /\ [row[m] EXCEPT !.status = emitted[e].type, !.event = e] \in Row
             /\ row[m] # None /\ row[m].id = emitted[e].message /\ row[m].id # None
             /\ [row[m] EXCEPT !.status = emitted[e].type, !.event = e].id = row[m].id
             /\ [row[m] EXCEPT !.status = emitted[e].type, !.event = e].status = emitted[e].type
             /\ [row[m] EXCEPT !.status = emitted[e].type, !.event = e].event = e
  <2>1. row[m] \in Row /\ row[m].id = emitted[e].message /\ row[m] # None /\ emitted[e].message # None
    BY <1>1, <1>2 DEF Names
  <2> QED
    BY <1>1, <2>1 DEF Row
<1>3. \A m \in Email : Stamped(e)[m] = IF Names(row[m], emitted[e].message)
         THEN [row[m] EXCEPT !.status = emitted[e].type, !.event = e] ELSE row[m]
  BY DEF Stamped
<1>4. \A m \in Email : Stamped(e)[m] \in Row \cup {None}
  BY <1>1, <1>2, <1>3
<1>5. Stamped(e) \in [Email -> Row \cup {None}]
  BY <1>4 DEF Stamped
<1>6. ASSUME NEW m \in Email, Names(row[m], emitted[e].message)
      PROVE  /\ Stamped(e)[m] \in Row /\ Stamped(e)[m].id = row[m].id
             /\ row[m] # None /\ row[m].id = emitted[e].message /\ row[m].id # None
             /\ Stamped(e)[m].status = emitted[e].type /\ Stamped(e)[m].event = e
  <2>1. Stamped(e)[m] = [row[m] EXCEPT !.status = emitted[e].type, !.event = e]
    BY <1>3, <1>6
  <2> QED
    BY <1>2, <1>6, <2>1
<1>7. \A m \in Email : ~Names(row[m], emitted[e].message) => Stamped(e)[m] = row[m]
  BY <1>3
<1>8. None \notin Row
  BY DEF Row
<1>9. \A m \in Email : row[m] = None <=> Stamped(e)[m] = None
  BY <1>6, <1>7, <1>8
<1>10. \A m \in Email : row[m] # None => Stamped(e)[m].id = row[m].id
  BY <1>6, <1>7
<1> QED
  BY <1>5, <1>6, <1>7, <1>9, <1>10

\* A mishap leaves a number of them.
LEMMA MishapType == ASSUME budget \in Nat, Mishap PROVE budget' \in Nat
BY DEF Mishap

\* A counter stays a number.
LEMMA BumpType ==
    ASSUME TypeOK, NEW k \in Metric, Bump(k)
    PROVE  funnel' \in [Metric -> Nat] /\ budget' \in Nat
BY MishapType DEF Bump, TypeOK

-----------------------------------------------------------------------------
LEMMA TypeInit == Init => TypeOK
<1> SUFFICES ASSUME Init PROVE TypeOK
  OBVIOUS
<1>1. row \in [Email -> Row \cup {None}] /\ emitted \in [Event -> Emission \cup {None}]
  BY DEF Init
<1>2. \A s \in Submit : request[s] \in [pc : {"insert"}, email : Email, new : {FALSE}]
  BY DEF Init
<1>3. request \in [Submit -> [pc : {"insert", "count", "send", "named", "unnamed", "unsent",
                                   "record", "done", "failed", "gone"},
                             email : Email, new : BOOLEAN]]
  BY DEF Init
<1>4. hook \in [Handler -> [pc : {"idle", "ledger", "update", "count"}, event : Event \cup {None}]]
  BY DEF Init
<1> QED
  BY <1>1, <1>3, <1>4 DEF Init, TypeOK

\* The steps of a signup.
LEMMA TypeRequest ==
    ASSUME TypeOK, SendersOK, NEW s \in Submit, RequestStep(s) \/ RequestKilled(s)
    PROVE  TypeOK'
<1> USE DEF tables, resend
<1> DEFINE PC == {"insert", "count", "send", "named", "unnamed", "unsent",
                  "record", "done", "failed", "gone"}
<1>0. /\ request \in [Submit -> [pc : PC, email : Email, new : BOOLEAN]]
      /\ request[s].email \in Email /\ row \in [Email -> Row \cup {None}] /\ budget \in Nat
  BY DEF TypeOK
<1>1. CASE Insert(s)
  <2>1. row' \in [Email -> Row \cup {None}]
    BY <1>0, <1>1, WithRowFacts DEF Insert
  <2>2. Inserts(request[s].email) \in BOOLEAN
    BY DEF Inserts
  <2>3. request' \in [Submit -> [pc : PC, email : Email, new : BOOLEAN]]
    BY <1>0, <1>1, <2>2 DEF Insert
  <2>4. budget' \in Nat
    BY <1>0, <1>1, MishapType DEF Insert
  <2> QED
    BY <1>1, <2>1, <2>3, <2>4 DEF Insert, TypeOK
<1>2. CASE CountSignup(s)
  <2>1. SignupMetric(request[s].new) \in Metric
    BY DEF SignupMetric, Metric
  <2>2. funnel' \in [Metric -> Nat] /\ budget' \in Nat
    BY <1>2, <2>1, BumpType DEF CountSignup
  <2>3. request' \in [Submit -> [pc : PC, email : Email, new : BOOLEAN]]
    BY <1>0, <1>2 DEF CountSignup
  <2> QED
    BY <1>2, <2>2, <2>3 DEF CountSignup, TypeOK
<1>3. CASE Send(s)
  <2>1. accepted' \subseteq Submit /\ budget' \in Nat
    BY <1>0, <1>3, MishapType DEF Send, TypeOK
  <2>2. request' \in [Submit -> [pc : PC, email : Email, new : BOOLEAN]]
    BY <1>0, <1>3 DEF Send
  <2> QED
    BY <1>3, <2>1, <2>2 DEF Send, TypeOK
<1>4. CASE CountSend(s)
  <2>1. (IF request[s].pc = "unsent" THEN "email_failed" ELSE "email_sent") \in Metric
    BY DEF Metric
  <2>2. funnel' \in [Metric -> Nat] /\ budget' \in Nat
    BY <1>4, <2>1, BumpType DEF CountSend
  <2>3. AfterSend(request[s].pc) \in PC
    BY DEF AfterSend
  <2>4. request' \in [Submit -> [pc : PC, email : Email, new : BOOLEAN]]
    BY <1>0, <1>4, <2>3 DEF CountSend
  <2> QED
    BY <1>4, <2>2, <2>4 DEF CountSend, TypeOK
<1>5. CASE RecordMessageId(s)
  <2>1. row' \in [Email -> Row \cup {None}]
    <3>1. CASE row' = [row EXCEPT ![request[s].email].id = s]
      <4>1. row[request[s].email] \in Row
        BY <1>0, <1>5 DEF RecordMessageId, SendersOK
      <4>2. [row[request[s].email] EXCEPT !.id = s] \in Row
        BY <4>1 DEF Row
      <4> QED
        BY <1>0, <3>1, <4>2
    <3> QED
      BY <1>0, <1>5, <3>1 DEF RecordMessageId
  <2>2. budget' \in Nat
    BY <1>0, <1>5, MishapType DEF RecordMessageId
  <2>3. request' \in [Submit -> [pc : PC, email : Email, new : BOOLEAN]]
    BY <1>0, <1>5 DEF RecordMessageId
  <2> QED
    BY <1>5, <2>1, <2>2, <2>3 DEF RecordMessageId, TypeOK
<1>6. CASE RequestKilled(s)
  <2>1. budget' \in Nat
    BY <1>0, <1>6, MishapType DEF RequestKilled
  <2>2. request' \in [Submit -> [pc : PC, email : Email, new : BOOLEAN]]
    BY <1>0, <1>6 DEF RequestKilled
  <2> QED
    BY <1>6, <2>1, <2>2 DEF RequestKilled, TypeOK
<1> QED
  BY <1>1, <1>2, <1>3, <1>4, <1>5, <1>6 DEF RequestStep

\* The steps of Resend and of the webhook.
LEMMA TypeWebhook ==
    ASSUME TypeOK, HookOK,
           \/ \E e \in Event : Emit(e) \/ \E h \in Handler : Deliver(h, e)
           \/ \E h \in Handler : HandlerStep(h) \/ HandlerKilled(h)
    PROVE  TypeOK'
<1> USE DEF tables, resend
<1> DEFINE HookType == [Handler -> [pc : {"idle", "ledger", "update", "count"},
                                    event : Event \cup {None}]]
<1>0. /\ hook \in HookType /\ budget \in Nat /\ emitted \in [Event -> Emission \cup {None}]
      /\ acked \subseteq Event /\ ledger \subseteq Event /\ applied \subseteq Event
      /\ row \in [Email -> Row \cup {None}]
  BY DEF TypeOK
<1>1. ASSUME NEW e \in Event, Emit(e) PROVE TypeOK'
  <2>1. PICK t \in Subscribed, s \in accepted \cup {None}, known \in BOOLEAN :
           emitted' = [emitted EXCEPT ![e] = [type |-> t, message |-> s, known |-> known]]
    <3>1. \A s : (s # None /\ \E m \in Email : row[m] # None /\ row[m].id = s) \in BOOLEAN
      OBVIOUS
    <3> QED
      BY <1>1, <3>1 DEF Emit
  <2>2. [type |-> t, message |-> s, known |-> known] \in Emission
    BY DEF Emission, TypeOK
  <2>3. emitted' \in [Event -> Emission \cup {None}]
    BY <1>0, <2>1, <2>2
  <2> QED
    BY <1>1, <2>3 DEF Emit, TypeOK
<1>2. ASSUME NEW e \in Event, NEW h \in Handler, Deliver(h, e) PROVE TypeOK'
  <2>1. hook' \in HookType
    BY <1>0, <1>2 DEF Deliver
  <2> QED
    BY <1>2, <2>1 DEF Deliver, TypeOK
<1>3. ASSUME NEW h \in Handler, Free(h) PROVE hook' \in HookType
  BY <1>0, <1>3 DEF Free
<1>4. ASSUME NEW h \in Handler, hook[h].pc # "idle"
      PROVE  hook[h].event \in Event /\ emitted[hook[h].event] # None
  BY <1>4 DEF HookOK
<1>5. ASSUME NEW h \in Handler, MarkProcessed(h) PROVE TypeOK'
  <2>1. hook[h].event \in Event
    BY <1>4, <1>5 DEF MarkProcessed
  <2>2. ledger' \subseteq Event /\ acked' \subseteq Event
    BY <1>0, <1>5, <2>1 DEF MarkProcessed, Answer, Throws
  <2>3. hook' \in HookType
    <3>1. [hook EXCEPT ![h].pc = "update"] \in HookType
      BY <1>0
    <3> QED
      BY <1>3, <1>5, <3>1 DEF MarkProcessed, Answer, Throws
  <2>4. budget' \in Nat
    BY <1>0, <1>5, MishapType DEF MarkProcessed, Throws
  <2> QED
    BY <1>5, <2>2, <2>3, <2>4 DEF MarkProcessed, TypeOK
<1>6. ASSUME NEW h \in Handler, RecordDelivery(h) PROVE TypeOK'
  <2>1. /\ hook[h].event \in Event /\ emitted[hook[h].event] # None
        /\ Tracked(emitted[hook[h].event].type)
    BY <1>4, <1>6 DEF RecordDelivery, HookOK
  <2>2. Stamped(hook[h].event) \in [Email -> Row \cup {None}]
    BY <2>1, StampedFacts
  <2>3. row' \in [Email -> Row \cup {None}] /\ applied' \subseteq Event /\ acked' \subseteq Event
    BY <1>0, <1>6, <2>1, <2>2 DEF RecordDelivery, WithApplied, Throws
  <2>4. hook' \in HookType
    <3>1. [hook EXCEPT ![h].pc = "count"] \in HookType
      BY <1>0
    <3> QED
      BY <1>3, <1>6, <3>1 DEF RecordDelivery, Throws
  <2>5. budget' \in Nat
    BY <1>0, <1>6, MishapType DEF RecordDelivery, Throws
  <2> QED
    BY <1>6, <2>3, <2>4, <2>5 DEF RecordDelivery, TypeOK
<1>7. ASSUME NEW h \in Handler, CountDelivery(h) PROVE TypeOK'
  <2>1. hook[h].event \in Event
    BY <1>4, <1>7 DEF CountDelivery
  <2>2. \A t \in DOMAIN FunnelMetric : FunnelMetric[t] \in Metric
    BY DEF FunnelMetric, Metric
  <2>3. funnel' \in [Metric -> Nat] /\ budget' \in Nat
    <3>1. CASE UNCHANGED <<funnel, budget>>
      BY <3>1 DEF TypeOK
    <3> QED
      BY <1>7, <2>2, <3>1, BumpType DEF CountDelivery
  <2>4. hook' \in HookType /\ acked' \subseteq Event
    BY <1>0, <1>3, <1>7, <2>1 DEF CountDelivery, Answer
  <2> QED
    BY <1>7, <2>3, <2>4 DEF CountDelivery, TypeOK
<1>8. ASSUME NEW h \in Handler, HandlerKilled(h) PROVE TypeOK'
  <2>1. hook' \in HookType /\ budget' \in Nat
    BY <1>0, <1>3, <1>8, MishapType DEF HandlerKilled
  <2> QED
    BY <1>8, <2>1 DEF HandlerKilled, TypeOK
<1> QED
  BY <1>1, <1>2, <1>5, <1>6, <1>7, <1>8 DEF HandlerStep

-----------------------------------------------------------------------------
\* What happened stays what it was.
LEMMA EmittedStays ==
    ASSUME TypeOK, Next
    PROVE  \A e \in Event : emitted[e] # None => emitted'[e] = emitted[e]
<1> USE DEF tables, resend
<1>1. ASSUME NEW e \in Event, Emit(e)
      PROVE  \A f \in Event : emitted[f] # None => emitted'[f] = emitted[f]
  BY <1>1 DEF Emit, TypeOK
<1>2. CASE UNCHANGED emitted
  BY <1>2
<1> QED
  BY <1>1, <1>2 DEF Next, RequestStep, Insert, CountSignup, Send, CountSend, RecordMessageId,
     RequestKilled, Deliver, HandlerStep, MarkProcessed, RecordDelivery, CountDelivery, HandlerKilled

\* A step of Resend or of the webhook leaves the signups alone, and the other way
\* round.
LEMMA Apart ==
    /\ \A s : RequestStep(s) \/ RequestKilled(s) => UNCHANGED <<hook, emitted, acked, applied, ledger>>
    /\ \A e, h : Emit(e) \/ Deliver(h, e) => UNCHANGED <<request, accepted, row, applied>>
    /\ \A h : HandlerStep(h) \/ HandlerKilled(h) => UNCHANGED <<request, accepted, emitted>>
BY DEF RequestStep, Insert, CountSignup, Send, CountSend, RecordMessageId, RequestKilled, Emit,
       Deliver, HandlerStep, MarkProcessed, RecordDelivery, CountDelivery, HandlerKilled, tables, resend

LEMMA HookStep == ASSUME TypeOK, HookOK, Next PROVE HookOK'
<1>0. /\ hook \in [Handler -> [pc : {"idle", "ledger", "update", "count"}, event : Event \cup {None}]]
      /\ \A e \in Event : emitted[e] # None => emitted'[e] = emitted[e]
  BY EmittedStays DEF TypeOK
<1>1. ASSUME NEW g \in Handler, hook'[g] = hook[g]
      PROVE  /\ hook'[g].pc # "idle" => hook'[g].event \in Event /\ emitted'[hook'[g].event] # None
             /\ hook'[g].pc = "update" => Tracked(emitted'[hook'[g].event].type)
  BY <1>0, <1>1 DEF HookOK
<1>2. ASSUME NEW h \in Handler,
             \A g \in Handler \ {h} : hook'[g] = hook[g],
             hook'[h].pc # "idle" => hook'[h].event \in Event /\ emitted'[hook'[h].event] # None,
             hook'[h].pc = "update" => Tracked(emitted'[hook'[h].event].type)
      PROVE  HookOK'
  BY <1>1, <1>2 DEF HookOK
<1>3. CASE UNCHANGED hook
  BY <1>1, <1>3 DEF HookOK
<1>4. ASSUME NEW h \in Handler, Free(h) PROVE HookOK'
  <2>1. \A g \in Handler \ {h} : hook'[g] = hook[g]
    BY <1>0, <1>4 DEF Free
  <2>2. hook'[h].pc = "idle"
    BY <1>0, <1>4 DEF Free
  <2> QED
    BY <1>2, <2>1, <2>2
<1>5. ASSUME NEW e \in Event, NEW h \in Handler, Deliver(h, e) PROVE HookOK'
  <2>1. /\ hook'[h].pc = "ledger" /\ hook'[h].event = e /\ emitted'[e] # None
        /\ \A g \in Handler \ {h} : hook'[g] = hook[g]
    BY <1>0, <1>5 DEF Deliver, tables, resend
  <2> QED
    BY <1>2, <2>1
<1>6. ASSUME NEW h \in Handler, MarkProcessed(h) PROVE HookOK'
  <2>1. CASE Free(h)
    BY <1>4, <2>1
  <2>2. CASE hook' = [hook EXCEPT ![h].pc = "update"] /\ Tracked(emitted[hook[h].event].type)
    <3>1. hook[h].event \in Event /\ emitted[hook[h].event] # None
      BY <1>6 DEF MarkProcessed, HookOK
    <3>2. hook'[h].event = hook[h].event /\ \A g \in Handler \ {h} : hook'[g] = hook[g]
      BY <1>0, <2>2
    <3> QED
      BY <1>0, <1>2, <2>2, <3>1, <3>2
  <2> QED
    BY <1>6, <2>1, <2>2 DEF MarkProcessed, Answer, Throws
<1>7. ASSUME NEW h \in Handler, RecordDelivery(h) PROVE HookOK'
  <2>1. CASE Free(h)
    BY <1>4, <2>1
  <2>2. CASE hook' = [hook EXCEPT ![h].pc = "count"]
    <3>1. hook[h].event \in Event /\ emitted[hook[h].event] # None
      BY <1>7 DEF RecordDelivery, HookOK
    <3>2. /\ hook'[h].event = hook[h].event /\ hook'[h].pc = "count"
          /\ \A g \in Handler \ {h} : hook'[g] = hook[g]
      BY <1>0, <2>2
    <3> QED
      BY <1>0, <1>2, <3>1, <3>2
  <2> QED
    BY <1>7, <2>1, <2>2 DEF RecordDelivery, Throws
<1>8. ASSUME NEW h \in Handler, CountDelivery(h) \/ HandlerKilled(h) PROVE HookOK'
  BY <1>4, <1>8 DEF CountDelivery, HandlerKilled, Answer
<1>9. ASSUME NEW s \in Submit, RequestStep(s) \/ RequestKilled(s) PROVE HookOK'
  BY <1>3, <1>9, Apart
<1>10. ASSUME NEW e \in Event, Emit(e) PROVE HookOK'
  BY <1>3, <1>10 DEF Emit
<1> QED
  BY <1>5, <1>6, <1>7, <1>8, <1>9, <1>10 DEF Next, HandlerStep

\* No row ever goes.
LEMMA RowsStay ==
    ASSUME TypeOK, HookOK, SendersOK, Next
    PROVE  \A m \in Email : row[m] # None => row'[m] # None
<1>1. ASSUME NEW s \in Submit, Insert(s)
      PROVE  \A m \in Email : row[m] # None => row'[m] # None
  <2>1. request[s].email \in Email
    BY DEF TypeOK
  <2> QED
    BY <1>1, <2>1, WithRowFacts DEF Insert
<1>2. ASSUME NEW s \in Submit, RecordMessageId(s)
      PROVE  \A m \in Email : row[m] # None => row'[m] # None
  <2>1. row' \in [Email -> Row \cup {None}] /\ row \in [Email -> Row \cup {None}]
    BY <1>2, TypeRequest DEF RequestStep, TypeOK
  <2>2. request[s].email \in Email /\ row[request[s].email] \in Row
    BY <1>2, <2>1 DEF RecordMessageId, SendersOK, TypeOK
  <2>3. [row[request[s].email] EXCEPT !.id = s] \in Row
    BY <2>2 DEF Row
  <2> QED
    BY <1>2, <2>1, <2>2, <2>3 DEF RecordMessageId
<1>3. ASSUME NEW h \in Handler, RecordDelivery(h)
      PROVE  \A m \in Email : row[m] # None => row'[m] # None
  <2>1. /\ hook[h].event \in Event /\ emitted[hook[h].event] # None
        /\ Tracked(emitted[hook[h].event].type)
    BY <1>3 DEF RecordDelivery, HookOK
  <2> QED
    BY <1>3, <2>1, StampedFacts DEF RecordDelivery
<1>4. CASE UNCHANGED row
  BY <1>4
<1> QED
  BY <1>1, <1>2, <1>3, <1>4 DEF Next, RequestStep, CountSignup, Send, CountSend, RequestKilled,
     Emit, Deliver, HandlerStep, MarkProcessed, CountDelivery, HandlerKilled, tables, resend

\* A row is made by one request, and only that request sends.
LEMMA SendersStep == ASSUME TypeOK, HookOK, SendersOK, Next PROVE SendersOK'
<1> USE DEF tables, resend
<1> DEFINE sending == {"send", "named", "unnamed", "unsent", "record"}
<1>0. /\ \A m \in Email : row[m] # None => row'[m] # None
      /\ \A s \in Submit : request[s].email \in Email /\ request[s].new \in BOOLEAN
      /\ request \in [Submit -> [pc : {"insert", "count", "send", "named", "unnamed", "unsent",
                                       "record", "done", "failed", "gone"},
                                 email : Email, new : BOOLEAN]]
      /\ accepted \subseteq Submit
  BY RowsStay DEF TypeOK
<1>1. CASE UNCHANGED <<request, accepted>>
  BY <1>0, <1>1 DEF SendersOK
<1>2. ASSUME NEW s \in Submit,
             \A t \in Submit \ {s} : request'[t] = request[t],
             request'[s].email = request[s].email, request'[s].new = request[s].new,
             request'[s].pc # "insert",
             request'[s].pc \in sending => request[s].new,
             accepted \subseteq accepted', accepted' \subseteq accepted \cup {s},
             s \in accepted' => request[s].new,
             request'[s].pc \in {"named", "unnamed", "record"} => s \in accepted'
      PROVE  SendersOK'
  <2>1. /\ \A t \in Submit : request'[t].email = request[t].email /\ request'[t].new = request[t].new
        /\ \A t \in Submit : request'[t].pc = "insert" => request[t].pc = "insert"
    BY <1>2
  <2>2. \A t \in Submit : request'[t].pc = "insert" => ~request'[t].new
    BY <2>1 DEF SendersOK
  <2>3. \A t \in Submit : request'[t].new => row'[request'[t].email] # None
    BY <1>0, <2>1 DEF SendersOK
  <2>4. \A t, u \in Submit :
           request'[t].new /\ request'[u].new /\ request'[t].email = request'[u].email => t = u
    BY <2>1 DEF SendersOK
  <2>5. \A t \in Submit : request'[t].pc \in sending => request'[t].new
    BY <1>2, <2>1 DEF SendersOK
  <2>6. \A t \in accepted' : request'[t].new
    BY <1>0, <1>2, <2>1 DEF SendersOK
  <2>7. \A t \in Submit : request'[t].pc \in {"named", "unnamed", "record"} => t \in accepted'
    BY <1>2 DEF SendersOK
  <2> QED
    BY <2>2, <2>3, <2>4, <2>5, <2>6, <2>7 DEF SendersOK
<1>3. ASSUME NEW s \in Submit, Insert(s) PROVE SendersOK'
  <2> DEFINE m == request[s].email
  <2>1. ~request[s].new /\ request[s].pc = "insert" /\ accepted' = accepted /\ s \notin accepted
    BY <1>3 DEF Insert, SendersOK
  <2>2. CASE request' = [request EXCEPT ![s].pc = "failed"]
    BY <1>0, <1>2, <2>1, <2>2
  <2>3. CASE /\ row' = WithRow(m)
             /\ request' = [request EXCEPT ![s].pc = "count", ![s].new = Inserts(m)]
    <3>1. /\ request'[s].pc = "count" /\ request'[s].new = Inserts(m) /\ request'[s].email = m
          /\ \A t \in Submit \ {s} : request'[t] = request[t]
      BY <1>0, <2>3
    <3>2. \A t \in Submit : request'[t].pc = "insert" => ~request'[t].new
      BY <3>1 DEF SendersOK
    <3>3. \A t \in Submit : request'[t].new => row'[request'[t].email] # None
      <4>1. row'[m] # None
        BY <1>0, <2>3, WithRowFacts
      <4> QED
        BY <1>0, <3>1, <4>1 DEF SendersOK
    <3>4. \A t \in Submit \ {s} : request'[t].new /\ request'[s].new => request'[t].email # m
      <4>1. \A t \in Submit \ {s} : request'[t].new => row[request'[t].email] # None
        BY <3>1 DEF SendersOK
      <4>2. request'[s].new => row[m] = None
        BY <3>1 DEF Inserts
      <4> QED
        BY <4>1, <4>2
    <3>5. \A t, u \in Submit :
             request'[t].new /\ request'[u].new /\ request'[t].email = request'[u].email => t = u
      BY <3>1, <3>4 DEF SendersOK
    <3>6. \A t \in Submit : request'[t].pc \in sending => request'[t].new
      BY <3>1 DEF SendersOK
    <3>7. \A t \in accepted' : request'[t].new
      BY <1>0, <2>1, <3>1 DEF SendersOK
    <3>8. \A t \in Submit : request'[t].pc \in {"named", "unnamed", "record"} => t \in accepted'
      BY <2>1, <3>1 DEF SendersOK
    <3> QED
      BY <3>2, <3>3, <3>5, <3>6, <3>7, <3>8 DEF SendersOK
  <2> QED
    BY <1>3, <2>2, <2>3 DEF Insert
<1>4. ASSUME NEW s \in Submit, CountSignup(s) PROVE SendersOK'
  <2>1. /\ \A t \in Submit \ {s} : request'[t] = request[t]
        /\ request'[s].email = request[s].email /\ request'[s].new = request[s].new
        /\ request'[s].pc \in {"send", "done"} /\ accepted' = accepted
        /\ request'[s].pc = "send" => request[s].new
    BY <1>0, <1>4 DEF CountSignup
  <2>2. s \in accepted => request[s].new
    BY DEF SendersOK
  <2> QED
    BY <1>2, <2>1, <2>2
<1>5. ASSUME NEW s \in Submit, Send(s) PROVE SendersOK'
  <2>1. request[s].new
    BY <1>5 DEF Send, SendersOK
  <2>2. /\ \A t \in Submit \ {s} : request'[t] = request[t]
        /\ request'[s].email = request[s].email /\ request'[s].new = request[s].new
        /\ request'[s].pc \in {"named", "unnamed", "unsent"}
        /\ accepted \subseteq accepted' /\ accepted' \subseteq accepted \cup {s}
        /\ request'[s].pc \in {"named", "unnamed"} => s \in accepted'
    BY <1>0, <1>5 DEF Send
  <2> QED
    BY <1>2, <2>1, <2>2
<1>6. ASSUME NEW s \in Submit, CountSend(s) PROVE SendersOK'
  <2>1. request[s].new /\ (request[s].pc = "named" => s \in accepted)
    BY <1>6 DEF CountSend, SendersOK
  <2>2. /\ \A t \in Submit \ {s} : request'[t] = request[t]
        /\ request'[s].email = request[s].email /\ request'[s].new = request[s].new
        /\ request'[s].pc \in {"record", "done"} /\ accepted' = accepted
        /\ request'[s].pc = "record" => request[s].pc = "named"
    BY <1>0, <1>6 DEF CountSend, AfterSend
  <2> QED
    BY <1>2, <2>1, <2>2
<1>7. ASSUME NEW s \in Submit, RecordMessageId(s) \/ RequestKilled(s) PROVE SendersOK'
  <2>1. /\ \A t \in Submit \ {s} : request'[t] = request[t]
        /\ request'[s].email = request[s].email /\ request'[s].new = request[s].new
        /\ request'[s].pc \in {"done", "gone"} /\ accepted' = accepted
    BY <1>0, <1>7 DEF RecordMessageId, RequestKilled
  <2>2. s \in accepted => request[s].new
    BY DEF SendersOK
  <2> QED
    BY <1>2, <2>1, <2>2
<1> QED
  BY <1>1, <1>3, <1>4, <1>5, <1>6, <1>7, Apart DEF Next, RequestStep

\* What a request that is done has done is not undone, and no row names the
\* message of a request still at work.
LEMMA NamesStep == ASSUME TypeOK, HookOK, SendersOK, NamesOK, Next PROVE NamesOK'
<1> USE DEF tables, resend
<1>0. /\ row \in [Email -> Row \cup {None}]
      /\ \A s \in Submit : request[s].email \in Email
      /\ request \in [Submit -> [pc : {"insert", "count", "send", "named", "unnamed", "unsent",
                                       "record", "done", "failed", "gone"},
                                 email : Email, new : BOOLEAN]]
      /\ accepted \subseteq Submit
  BY DEF TypeOK
<1>1. ASSUME \A t \in accepted : request[t].pc = "done" =>
                t \in accepted' /\ request'[t].pc = "done" /\ request'[t].email = request[t].email,
             \A m \in Email : row'[m] # None /\ row'[m].id # None =>
                row[m] # None /\ row[m].id = row'[m].id
      PROVE  NamesOK'
  BY <1>1 DEF NamesOK
<1>2. ASSUME NEW s \in Submit, RequestStep(s) \/ RequestKilled(s)
      PROVE  \A t \in accepted : request[t].pc = "done" => t # s /\ t \in accepted'
                /\ request'[t].pc = "done" /\ request'[t].email = request[t].email
  BY <1>0, <1>2 DEF RequestStep, Insert, CountSignup, Send, CountSend, RecordMessageId,
     RequestKilled, Running
<1>3. ASSUME NEW s \in Submit, Insert(s) PROVE NamesOK'
  <2>1. \A m \in Email : row'[m] # None /\ row'[m].id # None =>
           row[m] # None /\ row[m].id = row'[m].id
    <3>1. \/ row' = row \/ row' = WithRow(request[s].email)
      BY <1>3 DEF Insert
    <3> QED
      BY <1>0, <3>1, WithRowFacts
  <2> QED
    BY <1>1, <1>2, <1>3, <2>1 DEF RequestStep
<1>4. ASSUME NEW s \in Submit, CountSignup(s) \/ Send(s) \/ CountSend(s) \/ RequestKilled(s)
      PROVE  NamesOK'
  <2>1. row' = row
    BY <1>4 DEF CountSignup, Send, CountSend, RequestKilled
  <2> QED
    BY <1>1, <1>2, <1>4, <2>1 DEF RequestStep
<1>5. ASSUME NEW s \in Submit, RecordMessageId(s) PROVE NamesOK'
  <2> DEFINE m == request[s].email
  <2>1. CASE row' = row
    BY <1>1, <1>2, <1>5, <2>1 DEF RequestStep
  <2>2. CASE row' = [row EXCEPT ![m].id = s]
    <3>1. /\ s \in accepted /\ row[m] # None /\ m \in Email
      BY <1>0, <1>5 DEF RecordMessageId, SendersOK
    <3>2. row'[m].id = s /\ \A n \in Email \ {m} : row'[n] = row[n]
      BY <1>0, <2>2, <3>1 DEF Row
    <3>3. request'[s].pc = "done" /\ request'[s].email = m /\ accepted' = accepted
      BY <1>0, <1>5 DEF RecordMessageId
    <3>4. \A t \in accepted : request[t].pc = "done" =>
             t \in accepted' /\ request'[t].pc = "done" /\ request'[t].email = request[t].email
      BY <1>2, <1>5 DEF RequestStep
    <3> QED
      BY <3>1, <3>2, <3>3, <3>4 DEF NamesOK
  <2> QED
    BY <1>5, <2>1, <2>2 DEF RecordMessageId
<1>6. ASSUME NEW h \in Handler, RecordDelivery(h) PROVE NamesOK'
  <2>1. /\ hook[h].event \in Event /\ emitted[hook[h].event] # None
        /\ Tracked(emitted[hook[h].event].type)
    BY <1>6 DEF RecordDelivery, HookOK
  <2>2. \A m \in Email : row'[m] # None => row[m] # None /\ row[m].id = row'[m].id
    BY <1>6, <2>1, StampedFacts DEF RecordDelivery, Throws
  <2>3. request' = request /\ accepted' = accepted
    BY <1>6 DEF RecordDelivery
  <2> QED
    BY <1>1, <2>2, <2>3
<1>7. CASE UNCHANGED <<row, request, accepted>>
  BY <1>1, <1>7
<1> QED
  BY <1>3, <1>4, <1>5, <1>6, <1>7 DEF Next, RequestStep, Emit, Deliver, HandlerStep, MarkProcessed,
     CountDelivery, HandlerKilled

\* A row's event belongs to the message it names, and stays when another takes its
\* place.
LEMMA EventsStep ==
    ASSUME TypeOK, HookOK, SendersOK, NamesOK, EventsOK, Next
    PROVE  EventsOK'
<1> USE DEF tables, resend
<1> DEFINE rowsOK(r, em) ==
       \A m \in Email : r[m] # None =>
          /\ (r[m].event = None) <=> (r[m].status = None)
          /\ r[m].event # None =>
                /\ r[m].id # None /\ em[r[m].event] # None
                /\ em[r[m].event].message = r[m].id
                /\ em[r[m].event].type = r[m].status
           knownOK(r, em, q, acc, app) ==
       \A e \in Event : em[e] # None /\ (em[e].known \/ e \in app) =>
          /\ em[e].message \in acc
          /\ r[q[em[e].message].email] # None
          /\ r[q[em[e].message].email].id = em[e].message
           appliedOK(r, em, q, app) ==
       \A e \in app : em[e] # None /\ r[q[em[e].message].email].event # None
<1>0. /\ row \in [Email -> Row \cup {None}]
      /\ \A s \in Submit : request[s].email \in Email
      /\ request \in [Submit -> [pc : {"insert", "count", "send", "named", "unnamed", "unsent",
                                       "record", "done", "failed", "gone"},
                                 email : Email, new : BOOLEAN]]
      /\ accepted \subseteq Submit /\ applied \subseteq Event
      /\ emitted \in [Event -> Emission \cup {None}]
      /\ \A m \in Email : row[m] # None => row[m].event \in Event \cup {None}
      /\ \A e \in Event : emitted[e] # None => emitted[e].message \in Submit \cup {None}
  BY DEF TypeOK, Row, Emission
<1>1. EventsOK => /\ rowsOK(row, emitted) /\ knownOK(row, emitted, request, accepted, applied)
                  /\ appliedOK(row, emitted, request, applied)
  BY DEF EventsOK
<1>2. ASSUME rowsOK(row', emitted'), knownOK(row', emitted', request', accepted', applied'),
             appliedOK(row', emitted', request', applied')
      PROVE  EventsOK'
  BY <1>2 DEF EventsOK
<1>3. ASSUME NEW s \in Submit, RequestStep(s) \/ RequestKilled(s)
      PROVE  /\ \A t \in Submit : request'[t].email = request[t].email
             /\ accepted \subseteq accepted' /\ emitted' = emitted /\ applied' = applied
  <2>1. \A t \in Submit : request'[t].email = request[t].email
    BY <1>0, <1>3 DEF RequestStep, Insert, CountSignup, Send, CountSend, RecordMessageId, RequestKilled
  <2>2. accepted \subseteq accepted'
    BY <1>3 DEF RequestStep, Insert, CountSignup, Send, CountSend, RecordMessageId, RequestKilled
  <2> QED
    BY <1>3, <2>1, <2>2, Apart
<1>4. ASSUME \A t \in Submit : request'[t].email = request[t].email,
             accepted \subseteq accepted', emitted' = emitted, applied' = applied,
             \A m \in Email : row[m] # None => row'[m] = row[m],
             \A m \in Email : row[m] = None /\ row'[m] # None =>
                row'[m].status = None /\ row'[m].event = None
      PROVE  EventsOK'
  <2>1. rowsOK(row', emitted')
    BY <1>4 DEF EventsOK
  <2>2. \A e \in Event : emitted[e] # None /\ (emitted[e].known \/ e \in applied) =>
           /\ emitted[e].message \in accepted
           /\ row'[request'[emitted[e].message].email] = row[request[emitted[e].message].email]
           /\ row[request[emitted[e].message].email] # None
    BY <1>0, <1>4 DEF EventsOK
  <2>3. knownOK(row', emitted', request', accepted', applied')
    BY <1>4, <2>2 DEF EventsOK
  <2>4. appliedOK(row', emitted', request', applied')
    BY <1>0, <1>4, <2>2 DEF EventsOK
  <2> QED
    BY <1>2, <2>1, <2>3, <2>4
<1>5. ASSUME NEW s \in Submit, Insert(s) PROVE EventsOK'
  <2>1. \/ row' = row \/ row' = WithRow(request[s].email)
    BY <1>5 DEF Insert
  <2>2. /\ \A m \in Email : row[m] # None => row'[m] = row[m]
        /\ \A m \in Email : row[m] = None /\ row'[m] # None =>
              row'[m].status = None /\ row'[m].event = None
    BY <1>0, <2>1, WithRowFacts
  <2> QED
    BY <1>3, <1>4, <1>5, <2>2 DEF RequestStep
<1>6. ASSUME NEW s \in Submit, CountSignup(s) \/ Send(s) \/ CountSend(s) \/ RequestKilled(s)
      PROVE  EventsOK'
  <2>1. row' = row
    BY <1>6 DEF CountSignup, Send, CountSend, RequestKilled
  <2> QED
    BY <1>3, <1>4, <1>6, <2>1 DEF RequestStep
<1>7. ASSUME NEW s \in Submit, RecordMessageId(s) PROVE EventsOK'
  <2> DEFINE m == request[s].email
  <2>1. CASE row' = row
    BY <1>3, <1>4, <1>7, <2>1 DEF RequestStep
  <2>2. CASE row' = [row EXCEPT ![m].id = s]
    <3>1. /\ s \in accepted /\ row[m] # None /\ m \in Email /\ request[s].new
          /\ request[s].pc = "record"
      BY <1>0, <1>7 DEF RecordMessageId, SendersOK
    <3>2. row[m].id = None
      <4>1. SUFFICES ASSUME row[m].id # None PROVE FALSE
        OBVIOUS
      <4>2. /\ row[m].id \in accepted /\ request[row[m].id].email = m
            /\ request[row[m].id].pc = "done"
        BY <3>1, <4>1 DEF NamesOK
      <4>3. row[m].id \in Submit /\ request[row[m].id].new
        BY <1>0, <4>2 DEF SendersOK
      <4>4. row[m].id = s
        BY <3>1, <4>2, <4>3 DEF SendersOK
      <4> QED
        BY <3>1, <4>2, <4>4
    <3>3. row[m].event = None /\ row[m].status = None
      BY <3>1, <3>2 DEF EventsOK
    <3>4. /\ row'[m].event = None /\ row'[m].status = None /\ row'[m] # None
          /\ \A n \in Email \ {m} : row'[n] = row[n]
      <4>1. row[m] \in Row /\ row'[m] = [row[m] EXCEPT !.id = s]
        BY <1>0, <2>2, <3>1
      <4>2. row'[m] \in Row /\ row'[m].event = None /\ row'[m].status = None
        BY <3>3, <4>1 DEF Row
      <4> QED
        BY <1>0, <2>2, <4>2
    <3>5. /\ emitted' = emitted /\ applied' = applied /\ accepted \subseteq accepted'
          /\ \A t \in Submit : request'[t].email = request[t].email
      BY <1>3, <1>7 DEF RequestStep
    <3>6. \A e \in Event : emitted[e] # None /\ (emitted[e].known \/ e \in applied) =>
             /\ emitted[e].message \in accepted
             /\ request[emitted[e].message].email # m
             /\ row[request[emitted[e].message].email] # None
             /\ row[request[emitted[e].message].email].id = emitted[e].message
      <4>1. TAKE e \in Event
      <4>2. HAVE emitted[e] # None /\ (emitted[e].known \/ e \in applied)
      <4>3. /\ emitted[e].message \in accepted
            /\ row[request[emitted[e].message].email] # None
            /\ row[request[emitted[e].message].email].id = emitted[e].message
        BY <4>2 DEF EventsOK
      <4>4. emitted[e].message # None
        BY <1>0, <4>3
      <4> QED
        BY <3>2, <4>3, <4>4
    <3>7. \A t \in accepted : request[t].email \in Email
      BY <1>0
    <3>8. rowsOK(row', emitted')
      BY <3>4, <3>5 DEF EventsOK
    <3>9. knownOK(row', emitted', request', accepted', applied')
      BY <1>0, <3>4, <3>5, <3>6, <3>7
    <3>10. appliedOK(row', emitted', request', applied')
      BY <1>0, <3>4, <3>5, <3>6, <3>7 DEF EventsOK
    <3> QED
      BY <1>2, <3>8, <3>9, <3>10
  <2> QED
    BY <1>7, <2>1, <2>2 DEF RecordMessageId
<1>8. ASSUME NEW e \in Event, Emit(e) PROVE EventsOK'
  <2>1. PICK t \in Subscribed, s \in accepted \cup {None} :
           emitted' = [emitted EXCEPT ![e] =
              [type |-> t, message |-> s,
               known |-> s # None /\ \E m \in Email : row[m] # None /\ row[m].id = s]]
    BY <1>8 DEF Emit
  <2>2. /\ \A f \in Event \ {e} : emitted'[f] = emitted[f]
        /\ emitted'[e].message = s
        /\ emitted'[e].known = (s # None /\ \E m \in Email : row[m] # None /\ row[m].id = s)
    BY <1>0, <2>1
  <2>3. emitted[e] = None /\ UNCHANGED <<row, request, accepted, applied>>
    BY <1>8 DEF Emit
  <2>4. rowsOK(row, emitted')
    BY <1>0, <2>2, <2>3 DEF EventsOK
  <2>5. knownOK(row, emitted', request, accepted, applied)
    <3>1. ASSUME emitted'[e].known
          PROVE  /\ s \in accepted /\ row[request[s].email] # None /\ row[request[s].email].id = s
      <4>1. s # None /\ \E m \in Email : row[m] # None /\ row[m].id = s
        BY <2>2, <3>1
      <4>2. PICK m \in Email : row[m] # None /\ row[m].id = s
        BY <4>1
      <4>3. request[s].email = m
        BY <4>1, <4>2 DEF NamesOK
      <4> QED
        BY <4>1, <4>2, <4>3
    <3>2. e \notin applied
      BY <2>3 DEF EventsOK
    <3> QED
      BY <2>2, <3>1, <3>2 DEF EventsOK
  <2>6. appliedOK(row, emitted', request, applied)
    BY <1>0, <2>2, <2>3 DEF EventsOK
  <2> QED
    BY <1>2, <2>3, <2>4, <2>5, <2>6
<1>9. ASSUME NEW h \in Handler, RecordDelivery(h) PROVE EventsOK'
  <2> DEFINE e == hook[h].event
  <2>1. e \in Event /\ emitted[e] # None /\ Tracked(emitted[e].type)
    BY <1>9 DEF RecordDelivery, HookOK
  <2>2. UNCHANGED <<emitted, request, accepted>>
    BY <1>9 DEF RecordDelivery
  <2>3. CASE UNCHANGED <<row, applied>>
    BY <1>4, <2>2, <2>3
  <2>4. CASE row' = Stamped(e) /\ applied' = WithApplied(e)
    <3>1. /\ \A m \in Email : row[m] = None <=> row'[m] = None
          /\ \A m \in Email : row[m] # None => row'[m].id = row[m].id
          /\ \A m \in Email : Names(row[m], emitted[e].message) =>
                /\ row[m] # None /\ row[m].id = emitted[e].message /\ row[m].id # None
                /\ row'[m].status = emitted[e].type /\ row'[m].event = e
          /\ \A m \in Email : ~Names(row[m], emitted[e].message) => row'[m] = row[m]
      BY <2>1, <2>4, StampedFacts
    <3>2. e # None /\ emitted[e].type # None
      BY <2>1 DEF Tracked
    <3>3. rowsOK(row', emitted')
      <4>1. ASSUME NEW m \in Email, row'[m] # None
            PROVE  /\ (row'[m].event = None) <=> (row'[m].status = None)
                   /\ row'[m].event # None =>
                         /\ row'[m].id # None /\ emitted[row'[m].event] # None
                         /\ emitted[row'[m].event].message = row'[m].id
                         /\ emitted[row'[m].event].type = row'[m].status
        <5>1. CASE Names(row[m], emitted[e].message)
          BY <2>1, <3>1, <3>2, <5>1
        <5>2. CASE ~Names(row[m], emitted[e].message)
          BY <3>1, <4>1, <5>2 DEF EventsOK
        <5> QED
          BY <5>1, <5>2
      <4> QED
        BY <2>2, <4>1
    <3>4. \A f \in Event : emitted[f] # None /\ (emitted[f].known \/ f \in applied) =>
             /\ emitted[f].message \in accepted /\ emitted[f].message # None
             /\ request[emitted[f].message].email \in Email
             /\ row[request[emitted[f].message].email] # None
             /\ row[request[emitted[f].message].email].id = emitted[f].message
      BY <1>0 DEF EventsOK
    <3>5. e \in applied' \ applied =>
             /\ emitted[e].message \in accepted
             /\ row[request[emitted[e].message].email] # None
             /\ row[request[emitted[e].message].email].id = emitted[e].message
             /\ row'[request[emitted[e].message].email].event # None
      <4>1. HAVE e \in applied' \ applied
      <4>2. PICK m \in Email : Names(row[m], emitted[e].message)
        BY <2>4, <4>1 DEF WithApplied
      <4>3. /\ row[m] # None /\ row[m].id # None /\ row[m].id = emitted[e].message
            /\ row'[m].event = e
        BY <3>1, <4>2
      <4>4. row[m].id \in accepted /\ request[row[m].id].email = m
        BY <4>3 DEF NamesOK
      <4> QED
        BY <3>2, <4>3, <4>4
    <3>6. applied' \subseteq applied \cup {e}
      BY <2>4 DEF WithApplied
    <3>7. knownOK(row', emitted', request', accepted', applied')
      <4>1. SUFFICES ASSUME NEW f \in Event, emitted[f] # None, emitted[f].known \/ f \in applied'
                     PROVE  /\ emitted[f].message \in accepted
                            /\ row'[request[emitted[f].message].email] # None
                            /\ row'[request[emitted[f].message].email].id = emitted[f].message
        BY <2>2
      <4>2. /\ emitted[f].message \in accepted
            /\ row[request[emitted[f].message].email] # None
            /\ row[request[emitted[f].message].email].id = emitted[f].message
        BY <3>4, <3>5, <3>6, <4>1
      <4>3. request[emitted[f].message].email \in Email
        BY <1>0, <4>2
      <4> QED
        BY <3>1, <4>2, <4>3
    <3>8. \A m \in Email : row[m] # None /\ row[m].event # None => row'[m].event # None
      BY <3>1, <3>2
    <3>9. appliedOK(row', emitted', request', applied')
      <4>1. SUFFICES ASSUME NEW f \in applied'
                     PROVE  emitted[f] # None /\ row'[request[emitted[f].message].email].event # None
        BY <2>2
      <4>2. CASE f \in applied
        <5>1. f \in Event /\ emitted[f] # None /\ row[request[emitted[f].message].email].event # None
          BY <1>0, <4>2 DEF EventsOK
        <5> QED
          BY <3>4, <3>8, <4>2, <5>1
      <4>3. CASE f \notin applied
        BY <2>1, <3>5, <3>6, <4>1, <4>3
      <4> QED
        BY <4>2, <4>3
    <3> QED
      BY <1>2, <3>3, <3>7, <3>9
  <2> QED
    BY <1>9, <2>3, <2>4 DEF RecordDelivery
<1>10. CASE UNCHANGED <<row, request, accepted, emitted, applied>>
  BY <1>4, <1>10
<1> QED
  BY <1>5, <1>6, <1>7, <1>8, <1>9, <1>10 DEF Next, RequestStep, Deliver, HandlerStep, MarkProcessed,
     CountDelivery, HandlerKilled

-----------------------------------------------------------------------------
LEMMA InvInit == Init => IInv
<1> SUFFICES ASSUME Init PROVE IInv
  OBVIOUS
<1>1. HookOK
  BY DEF Init, HookOK
<1>2. \A s \in Submit : request[s].pc = "insert" /\ request[s].new = FALSE
  BY DEF Init
<1>3. SendersOK
  BY <1>2 DEF Init, SendersOK
<1>4. NamesOK /\ EventsOK
  BY DEF Init, NamesOK, EventsOK
<1> QED
  BY <1>1, <1>3, <1>4, TypeInit DEF IInv

LEMMA InvStep == IInv /\ [Next]_vars => IInv'
<1> SUFFICES ASSUME IInv, [Next]_vars PROVE IInv'
  OBVIOUS
<1>1. CASE Next
  <2>1. TypeOK'
    BY <1>1, TypeRequest, TypeWebhook DEF Next, IInv
  <2> QED
    BY <1>1, <2>1, HookStep, SendersStep, NamesStep, EventsStep DEF IInv
<1>2. CASE UNCHANGED vars
  <2> USE <1>2 DEF vars, tables, resend
  <2>1. TypeOK' /\ HookOK'
    BY DEF IInv, TypeOK, HookOK
  <2>2. SendersOK' /\ NamesOK'
    BY DEF IInv, SendersOK, NamesOK
  <2>3. EventsOK'
    BY DEF IInv, EventsOK
  <2> QED
    BY <2>1, <2>2, <2>3 DEF IInv
<1> QED
  BY <1>1, <1>2

LEMMA Invariant == Spec => []IInv
BY InvInit, InvStep, PTL DEF Spec

\* The tables, the Workers and the messages keep their types in every run of
\* waitlist.ts and resend-webhook.ts: each write of a row finds one.
THEOREM TypeCorrect == Spec => []TypeOK
<1>1. IInv => TypeOK
  BY DEF IInv
<1> QED
  BY <1>1, Invariant, PTL

\* waitlist.ts sends no address a second confirmation, however many requests come
\* from it, and whatever throws and dies in between.
THEOREM SentOnce == Spec => []OneConfirmation
<1>1. IInv => OneConfirmation
  BY DEF IInv, OneConfirmation, SendersOK, TypeOK
<1> QED
  BY <1>1, Invariant, PTL

\* What resend-webhook.ts has on a row is what an event said of that row's message,
\* and a row an event was written to goes on showing one.
THEOREM RowsTellTheTruth == Spec => []RowTellsItsMessage
<1>1. ASSUME IInv PROVE RowTellsItsMessage
  <2>1. \A m \in Rows :
          /\ row[m].id # None => row[m].id \in accepted /\ request[row[m].id].email = m
          /\ (row[m].event = None) <=> (row[m].status = None)
          /\ row[m].event # None =>
                /\ row[m].id # None
                /\ emitted[row[m].event].message = row[m].id
                /\ emitted[row[m].event].type = row[m].status
    BY <1>1 DEF IInv, NamesOK, EventsOK, Rows
  <2>2. \A e \in applied : row[request[emitted[e].message].email].event # None
    BY <1>1 DEF IInv, EventsOK
  <2> QED
    BY <2>1, <2>2 DEF RowTellsItsMessage
<1> QED
  BY <1>1, Invariant, PTL

-----------------------------------------------------------------------------
(***************************************************************************)
(* The funnel: every counter is the size of a set of requests or events    *)
(* that are past being counted.                                            *)
(***************************************************************************)

\* A Worker that marked its event and has yet to count it.
AtWork(h) == hook[h].pc \in {"update", "count"}

\* The ledger holds what Workers are at work on, and admits one of them per event.
LedgerOK ==
    /\ \A e \in ledger : emitted[e] # None
    /\ \A h \in Handler : AtWork(h) => hook[h].event \in ledger
    /\ \A g, h \in Handler : AtWork(g) /\ AtWork(h) /\ hook[g].event = hook[h].event => g = h

\* The signups counted as new, and as repeated, are so many requests, apart, that
\* are past counting them; the former made a row.
SignupsOK ==
    \E C, D \in SUBSET Submit :
       /\ C \cap D = {} /\ \A s \in C : request[s].new
       /\ \A s \in C \cup D : request[s].pc \notin {"insert", "count"}
       /\ Cardinality(C) = funnel["waitlist_new"]
       /\ Cardinality(D) = funnel["waitlist_dup"]

\* The e-mails counted as sent, and as failed, are so many requests, apart, that
\* are past counting them; Resend took the message of the former.
SendsOK ==
    \E S, F \in SUBSET Submit :
       /\ S \cap F = {} /\ S \subseteq accepted
       /\ \A s \in S \cup F : request[s].new /\ request[s].pc \in {"record", "done", "gone"}
       /\ Cardinality(S) = funnel["email_sent"]
       /\ Cardinality(F) = funnel["email_failed"]

\* The events counted of a type are so many of the ledger that nobody is at work on.
EventsCounted(type) ==
    \E C \in SUBSET ledger :
       /\ \A e \in C : emitted[e].type = type /\ \A h \in Handler : AtWork(h) => hook[h].event # e
       /\ Cardinality(C) = funnel[FunnelMetric[type]]

Tallied == LedgerOK /\ SignupsOK /\ SendsOK /\ \A t \in DOMAIN FunnelMetric : EventsCounted(t)

\* The first to mark an event is alone at work on it until it is answered.
LEMMA LedgerStep == ASSUME TypeOK, HookOK, LedgerOK, Next PROVE LedgerOK'
<1> USE DEF tables, resend
<1>0. /\ hook \in [Handler -> [pc : {"idle", "ledger", "update", "count"}, event : Event \cup {None}]]
      /\ ledger \subseteq Event
      /\ \A e \in Event : emitted[e] # None => emitted'[e] # None
  BY EmittedStays DEF TypeOK
<1>1. CASE UNCHANGED <<hook, ledger>>
  BY <1>0, <1>1 DEF LedgerOK, AtWork
<1>2. ASSUME NEW h \in Handler,
             \A g \in Handler \ {h} : hook'[g] = hook[g],
             ledger \subseteq ledger',
             \A e \in ledger' \ ledger : e \in Event /\ emitted[e] # None,
             AtWork(h)' => /\ hook'[h].event \in ledger' /\ hook'[h].event = hook[h].event
                           /\ AtWork(h) \/ hook[h].event \notin ledger
      PROVE  LedgerOK'
  <2>1. \A e \in ledger' : emitted'[e] # None
    BY <1>0, <1>2 DEF LedgerOK
  <2>2. \A g \in Handler : AtWork(g)' => hook'[g].event \in ledger'
    BY <1>2 DEF LedgerOK, AtWork
  <2>3. ASSUME NEW g \in Handler, g # h, AtWork(g)', AtWork(h)' PROVE hook'[g].event # hook'[h].event
    <3>1. AtWork(g) /\ hook'[g].event = hook[g].event
      BY <1>2, <2>3 DEF AtWork
    <3> QED
      BY <1>2, <2>3, <3>1 DEF LedgerOK
  <2>4. \A f, g \in Handler :
           AtWork(f)' /\ AtWork(g)' /\ hook'[f].event = hook'[g].event => f = g
    BY <1>2, <2>3 DEF LedgerOK, AtWork
  <2> QED
    BY <2>1, <2>2, <2>4 DEF LedgerOK
<1>3. ASSUME NEW h \in Handler, Free(h)
      PROVE  /\ \A g \in Handler \ {h} : hook'[g] = hook[g]
             /\ ~AtWork(h)'
  BY <1>0, <1>3 DEF Free, AtWork
<1>4. ASSUME NEW e \in Event, NEW h \in Handler, Deliver(h, e) PROVE LedgerOK'
  <2>1. /\ \A g \in Handler \ {h} : hook'[g] = hook[g]
        /\ ~AtWork(h)' /\ ledger' = ledger
    BY <1>0, <1>4 DEF Deliver, AtWork
  <2> QED
    BY <1>2, <2>1
<1>5. ASSUME NEW h \in Handler, MarkProcessed(h) PROVE LedgerOK'
  <2>1. hook[h].event \in Event /\ emitted[hook[h].event] # None
    BY <1>5 DEF MarkProcessed, HookOK
  <2>2. ledger \subseteq ledger' /\ ledger' \subseteq ledger \cup {hook[h].event}
    BY <1>5 DEF MarkProcessed
  <2>3. CASE Free(h)
    BY <1>2, <1>3, <2>1, <2>2, <2>3
  <2>4. CASE /\ ledger' = ledger \cup {hook[h].event} /\ FirstSeen(hook[h].event)
             /\ hook' = [hook EXCEPT ![h].pc = "update"]
    <3>1. hook'[h].event = hook[h].event /\ \A g \in Handler \ {h} : hook'[g] = hook[g]
      BY <1>0, <2>4
    <3> QED
      BY <1>2, <2>1, <2>4, <3>1 DEF FirstSeen
  <2> QED
    BY <1>5, <2>3, <2>4 DEF MarkProcessed, Answer, Throws
<1>6. ASSUME NEW h \in Handler, RecordDelivery(h) PROVE LedgerOK'
  <2>1. AtWork(h) /\ hook[h].event \in ledger /\ ledger' = ledger
    BY <1>6 DEF RecordDelivery, AtWork, LedgerOK
  <2>2. CASE Free(h)
    BY <1>2, <1>3, <2>1, <2>2
  <2>3. CASE hook' = [hook EXCEPT ![h].pc = "count"]
    <3>1. hook'[h].event = hook[h].event /\ \A g \in Handler \ {h} : hook'[g] = hook[g]
      BY <1>0, <2>3
    <3> QED
      BY <1>2, <2>1, <3>1
  <2> QED
    BY <1>6, <2>2, <2>3 DEF RecordDelivery, Throws
<1>7. ASSUME NEW h \in Handler, CountDelivery(h) \/ HandlerKilled(h) PROVE LedgerOK'
  <2>1. Free(h) /\ ledger' = ledger
    BY <1>7 DEF CountDelivery, HandlerKilled, Answer
  <2> QED
    BY <1>2, <1>3, <2>1
<1>8. ASSUME NEW s \in Submit, RequestStep(s) \/ RequestKilled(s) PROVE LedgerOK'
  BY <1>1, <1>8, Apart
<1>9. ASSUME NEW e \in Event, Emit(e) PROVE LedgerOK'
  BY <1>1, <1>9 DEF Emit
<1> QED
  BY <1>4, <1>5, <1>6, <1>7, <1>8, <1>9 DEF Next, HandlerStep

\* A counter that is bumped goes up by one or not at all, and no other moves.
LEMMA BumpFacts ==
    ASSUME TypeOK, NEW k \in Metric, Bump(k)
    PROVE  /\ \A j \in Metric \ {k} : funnel'[j] = funnel[j]
           /\ funnel'[k] \in {funnel[k], funnel[k] + 1}
BY DEF Bump, TypeOK

\* What else a request does to its own place.
LEMMA RequestMoves ==
    ASSUME TypeOK, NEW s \in Submit, RequestStep(s) \/ RequestKilled(s)
    PROVE  /\ \A t \in Submit \ {s} : request'[t] = request[t]
           /\ request[s].pc # "insert" => request'[s].new = request[s].new
           /\ request[s].pc # "insert" => request'[s].pc \notin {"insert", "count"}
           /\ request[s].pc \in {"record", "done", "gone"} =>
                 request'[s].pc \in {"record", "done", "gone"}
           /\ accepted \subseteq accepted'
<1>0. request \in [Submit -> [pc : {"insert", "count", "send", "named", "unnamed", "unsent",
                                    "record", "done", "failed", "gone"},
                              email : Email, new : BOOLEAN]]
  BY DEF TypeOK
<1>1. CASE Insert(s)
  BY <1>0, <1>1 DEF Insert, resend
<1>2. CASE CountSignup(s)
  BY <1>0, <1>2 DEF CountSignup, resend
<1>3. CASE Send(s)
  BY <1>0, <1>3 DEF Send
<1>4. CASE CountSend(s)
  BY <1>0, <1>4 DEF CountSend, AfterSend, resend
<1>5. CASE RecordMessageId(s)
  BY <1>0, <1>5 DEF RecordMessageId, resend
<1>6. CASE RequestKilled(s)
  BY <1>0, <1>6 DEF RequestKilled, Running, resend
<1> QED
  BY <1>1, <1>2, <1>3, <1>4, <1>5, <1>6 DEF RequestStep

\* Which step may move which counter.
LEMMA CountersMove ==
    ASSUME TypeOK, Next
    PROVE  /\ \/ /\ funnel'["waitlist_new"] = funnel["waitlist_new"]
                 /\ funnel'["waitlist_dup"] = funnel["waitlist_dup"]
              \/ \E s \in Submit : /\ CountSignup(s) /\ request[s].new
                                   /\ funnel'["waitlist_new"] = funnel["waitlist_new"] + 1
                                   /\ funnel'["waitlist_dup"] = funnel["waitlist_dup"]
              \/ \E s \in Submit : /\ CountSignup(s) /\ ~request[s].new
                                   /\ funnel'["waitlist_new"] = funnel["waitlist_new"]
                                   /\ funnel'["waitlist_dup"] = funnel["waitlist_dup"] + 1
           /\ \/ /\ funnel'["email_sent"] = funnel["email_sent"]
                 /\ funnel'["email_failed"] = funnel["email_failed"]
              \/ \E s \in Submit : /\ CountSend(s) /\ request[s].pc # "unsent"
                                   /\ funnel'["email_sent"] = funnel["email_sent"] + 1
                                   /\ funnel'["email_failed"] = funnel["email_failed"]
              \/ \E s \in Submit : /\ CountSend(s) /\ request[s].pc = "unsent"
                                   /\ funnel'["email_sent"] = funnel["email_sent"]
                                   /\ funnel'["email_failed"] = funnel["email_failed"] + 1
           /\ \A t \in DOMAIN FunnelMetric :
              \/ funnel'[FunnelMetric[t]] = funnel[FunnelMetric[t]]
              \/ \E h \in Handler : /\ CountDelivery(h) /\ emitted[hook[h].event].type = t
                                    /\ funnel'[FunnelMetric[t]] = funnel[FunnelMetric[t]] + 1
<1> USE DEF tables, resend
<1>0. /\ DOMAIN FunnelMetric = {"delivered", "bounced"}
      /\ FunnelMetric["delivered"] = "email_delivered" /\ FunnelMetric["bounced"] = "email_bounced"
  BY DEF FunnelMetric
<1>1. CASE UNCHANGED funnel
  BY <1>1
<1>2. ASSUME NEW s \in Submit, CountSignup(s)
      PROVE  /\ \/ /\ funnel'["waitlist_new"] = funnel["waitlist_new"]
                   /\ funnel'["waitlist_dup"] = funnel["waitlist_dup"]
                \/ /\ request[s].new /\ funnel'["waitlist_new"] = funnel["waitlist_new"] + 1
                   /\ funnel'["waitlist_dup"] = funnel["waitlist_dup"]
                \/ /\ ~request[s].new /\ funnel'["waitlist_dup"] = funnel["waitlist_dup"] + 1
                   /\ funnel'["waitlist_new"] = funnel["waitlist_new"]
             /\ \A k \in Metric \ {"waitlist_new", "waitlist_dup"} : funnel'[k] = funnel[k]
  <2>1. Bump(SignupMetric(request[s].new))
    BY <1>2 DEF CountSignup
  <2>2. CASE request[s].new
    BY <2>1, <2>2, BumpFacts DEF SignupMetric, Metric
  <2>3. CASE ~request[s].new
    BY <2>1, <2>3, BumpFacts DEF SignupMetric, Metric
  <2> QED
    BY <2>2, <2>3
<1>3. ASSUME NEW s \in Submit, CountSend(s)
      PROVE  /\ \/ /\ funnel'["email_sent"] = funnel["email_sent"]
                   /\ funnel'["email_failed"] = funnel["email_failed"]
                \/ /\ request[s].pc # "unsent"
                   /\ funnel'["email_sent"] = funnel["email_sent"] + 1
                   /\ funnel'["email_failed"] = funnel["email_failed"]
                \/ /\ request[s].pc = "unsent"
                   /\ funnel'["email_sent"] = funnel["email_sent"]
                   /\ funnel'["email_failed"] = funnel["email_failed"] + 1
             /\ \A k \in Metric \ {"email_sent", "email_failed"} : funnel'[k] = funnel[k]
  <2>1. CASE request[s].pc = "unsent"
    <3>1. Bump("email_failed")
      BY <1>3, <2>1 DEF CountSend
    <3> QED
      BY <2>1, <3>1, BumpFacts DEF Metric
  <2>2. CASE request[s].pc # "unsent"
    <3>1. Bump("email_sent")
      BY <1>3, <2>2 DEF CountSend
    <3> QED
      BY <2>2, <3>1, BumpFacts DEF Metric
  <2> QED
    BY <2>1, <2>2
<1>4. ASSUME NEW h \in Handler, CountDelivery(h)
      PROVE  \/ UNCHANGED funnel
             \/ \E t \in DOMAIN FunnelMetric :
                   /\ emitted[hook[h].event].type = t
                   /\ \A k \in Metric \ {FunnelMetric[t]} : funnel'[k] = funnel[k]
                   /\ funnel'[FunnelMetric[t]] = funnel[FunnelMetric[t]] + 1
  <2>1. CASE funnel' # funnel
    <3>1. PICK t \in DOMAIN FunnelMetric : emitted[hook[h].event].type = t /\ Bump(FunnelMetric[t])
      BY <1>4, <2>1 DEF CountDelivery
    <3>2. FunnelMetric[t] \in Metric
      BY <1>0, <3>1 DEF Metric
    <3>3. funnel' = [funnel EXCEPT ![FunnelMetric[t]] = @ + 1]
      BY <2>1, <3>1 DEF Bump
    <3> QED
      BY <3>1, <3>2, <3>3 DEF TypeOK
  <2> QED
    BY <2>1
<1>5. ASSUME NEW s \in Submit, CountSignup(s) PROVE
             /\ funnel'["email_sent"] = funnel["email_sent"]
             /\ funnel'["email_failed"] = funnel["email_failed"]
             /\ \A t \in DOMAIN FunnelMetric : funnel'[FunnelMetric[t]] = funnel[FunnelMetric[t]]
  BY <1>0, <1>2, <1>5 DEF Metric
<1>6. ASSUME NEW s \in Submit, CountSend(s) PROVE
             /\ funnel'["waitlist_new"] = funnel["waitlist_new"]
             /\ funnel'["waitlist_dup"] = funnel["waitlist_dup"]
             /\ \A t \in DOMAIN FunnelMetric : funnel'[FunnelMetric[t]] = funnel[FunnelMetric[t]]
  BY <1>0, <1>3, <1>6 DEF Metric
<1>7. ASSUME NEW h \in Handler, CountDelivery(h) PROVE
             /\ funnel'["waitlist_new"] = funnel["waitlist_new"]
             /\ funnel'["waitlist_dup"] = funnel["waitlist_dup"]
             /\ funnel'["email_sent"] = funnel["email_sent"]
             /\ funnel'["email_failed"] = funnel["email_failed"]
             /\ \A t \in DOMAIN FunnelMetric :
                   \/ funnel'[FunnelMetric[t]] = funnel[FunnelMetric[t]]
                   \/ /\ emitted[hook[h].event].type = t
                      /\ funnel'[FunnelMetric[t]] = funnel[FunnelMetric[t]] + 1
  BY <1>0, <1>4, <1>7 DEF Metric
<1>8. \/ UNCHANGED funnel
      \/ \E s \in Submit : CountSignup(s) \/ CountSend(s)
      \/ \E h \in Handler : CountDelivery(h)
  BY DEF Next, RequestStep, RequestKilled, HandlerStep, HandlerKilled, Insert, Send,
         RecordMessageId, Emit, Deliver, MarkProcessed, RecordDelivery
<1>9. ASSUME NEW s \in Submit, CountSignup(s)
      PROVE  \/ /\ funnel'["waitlist_new"] = funnel["waitlist_new"]
                /\ funnel'["waitlist_dup"] = funnel["waitlist_dup"]
             \/ \E r \in Submit : /\ CountSignup(r) /\ request[r].new
                                  /\ funnel'["waitlist_new"] = funnel["waitlist_new"] + 1
                                  /\ funnel'["waitlist_dup"] = funnel["waitlist_dup"]
             \/ \E r \in Submit : /\ CountSignup(r) /\ ~request[r].new
                                  /\ funnel'["waitlist_new"] = funnel["waitlist_new"]
                                  /\ funnel'["waitlist_dup"] = funnel["waitlist_dup"] + 1
  BY <1>2, <1>9
<1> QED
  BY <1>1, <1>3, <1>5, <1>6, <1>7, <1>8, <1>9

\* What was counted stays counted; a request is counted once, on its way past.
LEMMA SignupsStep == ASSUME TypeOK, SignupsOK, Next PROVE SignupsOK'
<1> USE DEF tables, resend
<1>1. PICK C, D \in SUBSET Submit :
         /\ C \cap D = {} /\ \A s \in C : request[s].new
         /\ \A s \in C \cup D : request[s].pc \notin {"insert", "count"}
         /\ Cardinality(C) = funnel["waitlist_new"]
         /\ Cardinality(D) = funnel["waitlist_dup"]
  BY DEF SignupsOK
<1>2. /\ \A s \in C : request'[s].new
      /\ \A s \in C \cup D : request'[s].pc \notin {"insert", "count"}
  <2>1. ASSUME NEW s \in Submit, RequestStep(s) \/ RequestKilled(s)
        PROVE  /\ \A t \in C : request'[t].new
               /\ \A t \in C \cup D : request'[t].pc \notin {"insert", "count"}
    BY <1>1, <2>1, RequestMoves
  <2>2. CASE UNCHANGED request
    BY <1>1, <2>2
  <2> QED
    BY <2>1, <2>2, Apart DEF Next
<1>3. CASE /\ funnel'["waitlist_new"] = funnel["waitlist_new"]
           /\ funnel'["waitlist_dup"] = funnel["waitlist_dup"]
  BY <1>1, <1>2, <1>3 DEF SignupsOK
<1>4. ASSUME NEW s \in Submit, CountSignup(s)
      PROVE  /\ s \notin C \cup D /\ request'[s].pc \notin {"insert", "count"}
             /\ request'[s].new = request[s].new
             /\ Cardinality(C \cup {s}) = Cardinality(C) + 1
             /\ Cardinality(D \cup {s}) = Cardinality(D) + 1
  <2>1. request[s].pc = "count"
    BY <1>4 DEF CountSignup
  <2>2. request'[s].new = request[s].new /\ request'[s].pc \notin {"insert", "count"}
    BY <1>4, <2>1, RequestMoves DEF RequestStep
  <2>3. s \notin C \cup D /\ IsFiniteSet(C) /\ IsFiniteSet(D)
    BY <1>1, <2>1, FS_Subset
  <2> QED
    BY <2>2, <2>3, FS_AddElement
<1>5. ASSUME NEW s \in Submit, CountSignup(s), request[s].new,
             funnel'["waitlist_new"] = funnel["waitlist_new"] + 1,
             funnel'["waitlist_dup"] = funnel["waitlist_dup"]
      PROVE  SignupsOK'
  <2> DEFINE B == C \cup {s}
  <2>1. /\ B \in SUBSET Submit /\ B \cap D = {} /\ \A t \in B : request'[t].new
        /\ \A t \in B \cup D : request'[t].pc \notin {"insert", "count"}
        /\ Cardinality(B) = funnel'["waitlist_new"] /\ Cardinality(D) = funnel'["waitlist_dup"]
    BY <1>1, <1>2, <1>4, <1>5
  <2> HIDE DEF B
  <2> QED
    BY <2>1 DEF SignupsOK
<1>6. ASSUME NEW s \in Submit, CountSignup(s),
             funnel'["waitlist_new"] = funnel["waitlist_new"],
             funnel'["waitlist_dup"] = funnel["waitlist_dup"] + 1
      PROVE  SignupsOK'
  <2> DEFINE B == D \cup {s}
  <2>1. /\ B \in SUBSET Submit /\ C \cap B = {} /\ \A t \in C : request'[t].new
        /\ \A t \in C \cup B : request'[t].pc \notin {"insert", "count"}
        /\ Cardinality(C) = funnel'["waitlist_new"] /\ Cardinality(B) = funnel'["waitlist_dup"]
    BY <1>1, <1>2, <1>4, <1>6
  <2> HIDE DEF B
  <2> QED
    BY <2>1 DEF SignupsOK
<1> QED
  BY <1>3, <1>5, <1>6, CountersMove

\* The same of sends, whose outcome decides between two counters.
LEMMA SendsStep == ASSUME TypeOK, SendersOK, SendsOK, Next PROVE SendsOK'
<1> USE DEF tables, resend
<1> DEFINE past == {"record", "done", "gone"}
<1>1. PICK S, F \in SUBSET Submit :
         /\ S \cap F = {} /\ S \subseteq accepted
         /\ \A s \in S \cup F : request[s].new /\ request[s].pc \in past
         /\ Cardinality(S) = funnel["email_sent"]
         /\ Cardinality(F) = funnel["email_failed"]
  BY DEF SendsOK
<1>2. /\ \A s \in S \cup F : request'[s].new /\ request'[s].pc \in past
      /\ accepted \subseteq accepted'
  <2>1. ASSUME NEW s \in Submit, RequestStep(s) \/ RequestKilled(s)
        PROVE  /\ \A t \in S \cup F : request'[t].new /\ request'[t].pc \in past
               /\ accepted \subseteq accepted'
    BY <1>1, <2>1, RequestMoves
  <2>2. CASE UNCHANGED <<request, accepted>>
    BY <1>1, <2>2
  <2> QED
    BY <2>1, <2>2, Apart DEF Next
<1>3. IsFiniteSet(S) /\ IsFiniteSet(F)
  BY FS_Subset
<1>4. ASSUME NEW s \in Submit, CountSend(s)
      PROVE  /\ s \notin S \cup F /\ request'[s].new /\ request'[s].pc \in past
             /\ request[s].pc # "unsent" => s \in accepted'
             /\ Cardinality(S \cup {s}) = Cardinality(S) + 1
             /\ Cardinality(F \cup {s}) = Cardinality(F) + 1
  <2>1. request[s].pc \in {"named", "unnamed", "unsent"} /\ request[s].new
    BY <1>4 DEF CountSend, SendersOK
  <2>2. s \notin S \cup F
    BY <1>1, <2>1
  <2>3. request'[s].new /\ request'[s].pc \in past
    <3>1. request' = [request EXCEPT ![s].pc = AfterSend(request[s].pc)]
      BY <1>4 DEF CountSend
    <3> QED
      BY <2>1, <3>1 DEF AfterSend, TypeOK
  <2>4. request[s].pc # "unsent" => s \in accepted'
    BY <1>2, <2>1 DEF SendersOK
  <2> QED
    BY <1>3, <2>2, <2>3, <2>4, FS_AddElement
<1>5. CASE funnel'["email_sent"] = funnel["email_sent"] /\ funnel'["email_failed"] = funnel["email_failed"]
  BY <1>1, <1>2, <1>5 DEF SendsOK
<1>6. ASSUME NEW s \in Submit, CountSend(s), request[s].pc # "unsent",
             funnel'["email_sent"] = funnel["email_sent"] + 1,
             funnel'["email_failed"] = funnel["email_failed"]
      PROVE  SendsOK'
  <2> DEFINE T == S \cup {s}
  <2>1. /\ T \in SUBSET Submit /\ T \cap F = {} /\ T \subseteq accepted'
        /\ \A t \in T \cup F : request'[t].new /\ request'[t].pc \in past
        /\ Cardinality(T) = funnel'["email_sent"] /\ Cardinality(F) = funnel'["email_failed"]
    BY <1>1, <1>2, <1>4, <1>6
  <2> QED
    BY <2>1 DEF SendsOK
<1>7. ASSUME NEW s \in Submit, CountSend(s), request[s].pc = "unsent",
             funnel'["email_sent"] = funnel["email_sent"],
             funnel'["email_failed"] = funnel["email_failed"] + 1
      PROVE  SendsOK'
  <2> DEFINE T == F \cup {s}
  <2>1. /\ T \in SUBSET Submit /\ S \cap T = {} /\ S \subseteq accepted'
        /\ \A t \in S \cup T : request'[t].new /\ request'[t].pc \in past
        /\ Cardinality(S) = funnel'["email_sent"] /\ Cardinality(T) = funnel'["email_failed"]
    BY <1>1, <1>2, <1>4, <1>7
  <2> QED
    BY <2>1 DEF SendsOK
<1> QED
  BY <1>5, <1>6, <1>7, CountersMove

\* An event is counted by the Worker that leaves it, and nobody takes it up again.
LEMMA EventsCountedStep ==
    ASSUME TypeOK, HookOK, LedgerOK, NEW t \in DOMAIN FunnelMetric, EventsCounted(t), Next
    PROVE  EventsCounted(t)'
<1> USE DEF tables, resend
<1> DEFINE counted(c, w, em) == \A e \in c : em[e].type = t /\ \A h \in Handler :
                                    w[h].pc \in {"update", "count"} => w[h].event # e
<1>0. /\ hook \in [Handler -> [pc : {"idle", "ledger", "update", "count"}, event : Event \cup {None}]]
      /\ ledger \subseteq Event
  BY DEF TypeOK
<1>1. PICK C \in SUBSET ledger :
         counted(C, hook, emitted) /\ Cardinality(C) = funnel[FunnelMetric[t]]
  BY DEF EventsCounted, AtWork
<1>2. ledger \subseteq ledger'
  <2>1. ASSUME NEW h \in Handler, HandlerStep(h) \/ HandlerKilled(h) PROVE ledger \subseteq ledger'
    BY <2>1 DEF HandlerStep, MarkProcessed, RecordDelivery, CountDelivery, HandlerKilled
  <2>2. ASSUME NEW s \in Submit, RequestStep(s) \/ RequestKilled(s) PROVE ledger \subseteq ledger'
    BY <2>2, Apart
  <2> QED
    BY <2>1, <2>2 DEF Next, Emit, Deliver
<1>3. \A e \in ledger : emitted'[e].type = emitted[e].type
  BY <1>0, EmittedStays DEF LedgerOK
<1>4. counted(C, hook', emitted')
  <2>1. SUFFICES ASSUME NEW e \in C, NEW h \in Handler, hook'[h].pc \in {"update", "count"},
                        hook'[h].event = e
                 PROVE  FALSE
    BY <1>1, <1>3
  <2>2. hook'[h].event = hook[h].event /\ (AtWork(h) \/ hook[h].event \notin ledger)
    <3>1. CASE hook'[h] = hook[h]
      BY <2>1, <3>1 DEF AtWork
    <3>2. ASSUME NEW g \in Handler, HandlerStep(g) \/ HandlerKilled(g), hook'[h] # hook[h]
          PROVE  hook'[h].event = hook[h].event /\ (AtWork(h) \/ hook[h].event \notin ledger)
      <4>1. ASSUME Free(g) PROVE FALSE
        BY <1>0, <2>1, <3>2, <4>1 DEF Free
      <4>2. CASE MarkProcessed(g)
        BY <1>0, <3>2, <4>1, <4>2 DEF MarkProcessed, Answer, Throws, FirstSeen
      <4>3. CASE RecordDelivery(g)
        BY <1>0, <3>2, <4>1, <4>3 DEF RecordDelivery, Throws, AtWork
      <4>4. CASE CountDelivery(g) \/ HandlerKilled(g)
        BY <4>1, <4>4 DEF CountDelivery, HandlerKilled, Answer
      <4> QED
        BY <3>2, <4>2, <4>3, <4>4 DEF HandlerStep
    <3>3. ASSUME NEW e1 \in Event, NEW g \in Handler, Deliver(g, e1), hook'[h] # hook[h] PROVE FALSE
      BY <1>0, <2>1, <3>3 DEF Deliver
    <3> QED
      BY <3>1, <3>2, <3>3, Apart DEF Next, Emit
  <2> QED
    BY <1>1, <2>1, <2>2 DEF AtWork
<1>5. CASE funnel'[FunnelMetric[t]] = funnel[FunnelMetric[t]]
  BY <1>1, <1>2, <1>4, <1>5 DEF EventsCounted, AtWork
<1>6. ASSUME NEW h \in Handler, CountDelivery(h), emitted[hook[h].event].type = t,
             funnel'[FunnelMetric[t]] = funnel[FunnelMetric[t]] + 1
      PROVE  EventsCounted(t)'
  <2> DEFINE e == hook[h].event
             D == C \cup {e}
  <2>1. e \in ledger /\ e \notin C /\ hook[h].pc = "count"
    BY <1>1, <1>6 DEF CountDelivery, LedgerOK, AtWork
  <2>2. \A g \in Handler : hook'[g].pc \in {"update", "count"} => hook'[g].event # e
    <3>1. hook' = [hook EXCEPT ![h] = [pc |-> "idle", event |-> None]]
      BY <1>6 DEF CountDelivery, Answer, Free
    <3> QED
      BY <1>0, <2>1, <3>1 DEF LedgerOK, AtWork
  <2>3. Cardinality(D) = Cardinality(C) + 1
    <3>1. IsFiniteSet(C)
      BY <1>0, <1>1, FS_Subset
    <3> QED
      BY <2>1, <3>1, FS_AddElement
  <2>4. counted(D, hook', emitted')
    BY <1>3, <1>4, <1>6, <2>1, <2>2
  <2>5. D \in SUBSET ledger' /\ Cardinality(D) = funnel'[FunnelMetric[t]]
    BY <1>1, <1>2, <1>6, <2>1, <2>3
  <2> HIDE DEF D, e
  <2> QED
    BY <2>4, <2>5 DEF EventsCounted, AtWork
<1> QED
  BY <1>5, <1>6, CountersMove

LEMMA TallyInit == Init => Tallied
<1> SUFFICES ASSUME Init PROVE Tallied
  OBVIOUS
<1>1. Cardinality({}) = 0
  BY FS_EmptySet
<1>2. \A k \in Metric : funnel[k] = 0
  BY DEF Init
<1>3. LedgerOK
  BY DEF Init, LedgerOK, AtWork
<1>4. SignupsOK
  <2>1. /\ {} \in SUBSET Submit /\ {} \cap {} = {}
        /\ funnel["waitlist_new"] = 0 /\ funnel["waitlist_dup"] = 0
    BY <1>2 DEF Metric
  <2> QED
    BY <1>1, <2>1 DEF SignupsOK
<1>5. SendsOK
  <2>1. /\ {} \in SUBSET Submit /\ {} \cap {} = {} /\ {} \subseteq accepted
        /\ funnel["email_sent"] = 0 /\ funnel["email_failed"] = 0
    BY <1>2 DEF Metric
  <2> QED
    BY <1>1, <2>1 DEF SendsOK
<1>6. \A t \in DOMAIN FunnelMetric : EventsCounted(t)
  BY <1>1, <1>2 DEF EventsCounted, FunnelMetric, Metric
<1> QED
  BY <1>3, <1>4, <1>5, <1>6 DEF Tallied

LEMMA TallyStep == IInv /\ Tallied /\ [Next]_vars => Tallied'
<1> SUFFICES ASSUME IInv, Tallied, [Next]_vars PROVE Tallied'
  OBVIOUS
<1>1. CASE Next
  BY <1>1, LedgerStep, SignupsStep, SendsStep, EventsCountedStep DEF IInv, Tallied
<1>2. CASE UNCHANGED vars
  BY <1>2 DEF Tallied, LedgerOK, AtWork, SignupsOK, SendsOK, EventsCounted, vars, tables, resend
<1> QED
  BY <1>1, <1>2

\* Two sets of requests that are apart have together as many as each.
LEMMA Disjoint ==
    ASSUME NEW A \in SUBSET Submit, NEW B \in SUBSET Submit, A \cap B = {}
    PROVE  Cardinality(A \cup B) = Cardinality(A) + Cardinality(B)
<1>1. IsFiniteSet(A) /\ IsFiniteSet(B)
  BY FS_Subset
<1>2. Cardinality(A) \in Nat /\ Cardinality(B) \in Nat
  BY <1>1, FS_CardinalityType
<1>3. Cardinality(A \cap B) = 0
  BY FS_EmptySet
<1>4. Cardinality(A \cup B) = Cardinality(A) + Cardinality(B) - Cardinality(A \cap B)
  BY <1>1, FS_Union
<1> QED
  BY <1>2, <1>3, <1>4

\* As many requests made a row as there are rows they made.
LEMMA MadeRows ==
    ASSUME TypeOK, SendersOK, NEW C \in SUBSET Submit, \A s \in C : request[s].new
    PROVE  Cardinality(C) <= Cardinality(Rows)
<1> DEFINE f == [s \in C |-> request[s].email]
<1>1. IsFiniteSet(Rows)
  BY FS_Subset DEF Rows
<1>2. f \in [C -> Rows]
  BY DEF SendersOK, TypeOK, Rows
<1>3. \A s, t \in C : f[s] = f[t] => s = t
  BY DEF SendersOK
<1>4. f \in Injection(C, Rows)
  BY <1>2, <1>3 DEF Injection, IsInjective
<1> QED
  BY <1>1, <1>4, FS_Injection

\* The funnel of _lib/d1.ts never says more than happened, however often an event
\* is delivered, a request repeated or a statement thrown, with any number of
\* Workers at once.
THEOREM FunnelNeverOver == Spec => []NeverOvercounts
<1>1. ASSUME IInv, Tallied PROVE NeverOvercounts
  <2>1. /\ funnel["waitlist_new"] <= Cardinality(Rows)
        /\ funnel["waitlist_new"] + funnel["waitlist_dup"] <= Cardinality(Submit)
    <3>1. PICK C, D \in SUBSET Submit :
             /\ C \cap D = {} /\ \A s \in C : request[s].new
             /\ Cardinality(C) = funnel["waitlist_new"]
             /\ Cardinality(D) = funnel["waitlist_dup"]
      BY <1>1 DEF Tallied, SignupsOK
    <3>2. Cardinality(C) <= Cardinality(Rows)
      BY <1>1, <3>1, MadeRows DEF IInv
    <3>3. Cardinality(C \cup D) = Cardinality(C) + Cardinality(D)
      BY <3>1, Disjoint
    <3>4. Cardinality(C \cup D) <= Cardinality(Submit)
      BY FS_Subset
    <3> QED
      BY <3>1, <3>2, <3>3, <3>4
  <2>2. /\ funnel["email_sent"] <= Cardinality(accepted)
        /\ funnel["email_sent"] + funnel["email_failed"] <= Cardinality(Rows)
    <3>1. PICK S, F \in SUBSET Submit :
             /\ S \cap F = {} /\ S \subseteq accepted
             /\ \A s \in S \cup F : request[s].new /\ request[s].pc \in {"record", "done", "gone"}
             /\ Cardinality(S) = funnel["email_sent"]
             /\ Cardinality(F) = funnel["email_failed"]
      BY <1>1 DEF Tallied, SendsOK
    <3>2. IsFiniteSet(S) /\ IsFiniteSet(F) /\ IsFiniteSet(accepted)
      BY <1>1, FS_Subset DEF IInv, TypeOK
    <3>3. Cardinality(S) <= Cardinality(accepted)
      BY <3>1, <3>2, FS_Subset
    <3>4. Cardinality(S \cup F) = Cardinality(S) + Cardinality(F)
      BY <3>1, Disjoint
    <3>5. Cardinality(S \cup F) <= Cardinality(Rows)
      <4>1. S \cup F \in SUBSET Submit /\ \A s \in S \cup F : request[s].new
        BY <3>1
      <4> QED
        BY <1>1, <4>1, MadeRows DEF IInv
    <3> QED
      BY <3>1, <3>3, <3>4, <3>5
  <2>3. ASSUME NEW t \in DOMAIN FunnelMetric PROVE funnel[FunnelMetric[t]] <= Cardinality(Seen(t))
    <3>1. PICK C \in SUBSET ledger :
             (\A e \in C : emitted[e].type = t) /\ Cardinality(C) = funnel[FunnelMetric[t]]
      BY <1>1 DEF Tallied, EventsCounted
    <3>2. C \in SUBSET Seen(t)
      BY <3>1 DEF Seen
    <3>3. IsFiniteSet(Seen(t))
      <4>1. Seen(t) \in SUBSET Event
        BY <1>1 DEF Seen, IInv, TypeOK
      <4> QED
        BY <4>1, FS_Subset
    <3> QED
      BY <3>1, <3>2, <3>3, FS_Subset
  <2>4. DOMAIN FunnelMetric = {"delivered", "bounced"} /\ FunnelMetric["delivered"] = "email_delivered"
        /\ FunnelMetric["bounced"] = "email_bounced"
    BY DEF FunnelMetric
  <2> QED
    BY <2>1, <2>2, <2>3, <2>4 DEF NeverOvercounts
<1> QED
  BY <1>1, Invariant, TallyInit, TallyStep, PTL DEF Spec

-----------------------------------------------------------------------------
(***************************************************************************)
(* What mishaps cost: every set of what is lost, or past being counted,    *)
(* takes in one more only in a step that counts one more, or in a mishap.  *)
(***************************************************************************)

\* A set that took in one more at most.
LEMMA AtMostOneMore ==
    ASSUME NEW S, NEW T, NEW x, IsFiniteSet(S), T \subseteq S \cup {x}
    PROVE  /\ Cardinality(S) \in Nat /\ Cardinality(T) \in Nat
           /\ Cardinality(T) <= Cardinality(S) + 1
           /\ (x \in T => x \in S) => Cardinality(T) <= Cardinality(S)
<1>1. IsFiniteSet(S \cup {x}) /\ Cardinality(S \cup {x}) <= Cardinality(S) + 1
  <2>1. Cardinality(S) \in Nat
    BY FS_CardinalityType
  <2>2. /\ IsFiniteSet(S \cup {x})
        /\ Cardinality(S \cup {x}) = IF x \in S THEN Cardinality(S) ELSE Cardinality(S) + 1
    BY FS_AddElement
  <2> QED
    BY <2>1, <2>2
<1>2. IsFiniteSet(T) /\ Cardinality(T) <= Cardinality(S \cup {x})
  BY <1>1, FS_Subset
<1>3. Cardinality(S) \in Nat /\ Cardinality(T) \in Nat /\ Cardinality(S \cup {x}) \in Nat
  BY <1>1, <1>2, FS_CardinalityType
<1>4. T \subseteq S => Cardinality(T) <= Cardinality(S)
  BY FS_Subset
<1> QED
  BY <1>1, <1>2, <1>3, <1>4

\* Every step costs a mishap or none.
LEMMA SpentStep ==
    ASSUME TypeOK, budget <= Budget, Next
    PROVE  /\ Spent \in Nat /\ Spent' \in Nat /\ budget' <= Budget
           /\ ~Mishap => Spent' = Spent
           /\ Mishap => Spent' = Spent + 1
<1>1. budget' = budget \/ Mishap
  BY DEF Next, RequestStep, HandlerStep, Insert, CountSignup, Send, CountSend, RecordMessageId,
         RequestKilled, Emit, Deliver, MarkProcessed, RecordDelivery, CountDelivery, HandlerKilled,
         Bump, Throws
<1>2. budget \in Nat
  BY DEF TypeOK
<1> QED
  BY <1>1, <1>2 DEF Mishap, Spent

\* No counter goes down.
LEMMA CountersGrow == ASSUME TypeOK, Next PROVE \A k \in Metric : funnel'[k] >= funnel[k]
<1>1. \A k \in Metric : funnel[k] \in Nat
  BY DEF TypeOK
<1>2. ASSUME NEW k \in Metric, Bump(k) PROVE \A j \in Metric : funnel'[j] >= funnel[j]
  BY <1>1, <1>2, BumpFacts
<1>3. CASE UNCHANGED funnel
  BY <1>1, <1>3
<1>4. ASSUME NEW s \in Submit, CountSignup(s) PROVE \A j \in Metric : funnel'[j] >= funnel[j]
  BY <1>2, <1>4 DEF CountSignup, SignupMetric, Metric
<1>5. ASSUME NEW s \in Submit, CountSend(s) PROVE \A j \in Metric : funnel'[j] >= funnel[j]
  BY <1>2, <1>5 DEF CountSend, Metric
<1>6. ASSUME NEW h \in Handler, CountDelivery(h) PROVE \A j \in Metric : funnel'[j] >= funnel[j]
  <2>1. \A t \in DOMAIN FunnelMetric : FunnelMetric[t] \in Metric
    BY DEF FunnelMetric, Metric
  <2> QED
    BY <1>2, <1>3, <1>6, <2>1 DEF CountDelivery
<1>7. \/ UNCHANGED funnel
      \/ \E s \in Submit : CountSignup(s) \/ CountSend(s)
      \/ \E h \in Handler : CountDelivery(h)
  BY DEF Next, RequestStep, RequestKilled, HandlerStep, HandlerKilled, Insert, Send,
         RecordMessageId, Emit, Deliver, MarkProcessed, RecordDelivery, tables, resend
<1> QED
  BY <1>3, <1>4, <1>5, <1>6, <1>7

\* What a step of a request at one place does elsewhere: nothing.
LEMMA OtherRows ==
    ASSUME IInv, NEW s \in Submit, RequestStep(s) \/ RequestKilled(s)
    PROVE  /\ request[s].email \in Email /\ request'[s].email = request[s].email
           /\ \A t \in Submit \ {s} : request'[t] = request[t]
           /\ request[s].pc # "insert" => request'[s].new = request[s].new
           /\ \A m \in Email \ {request[s].email} : row'[m] = row[m]
           /\ \A m \in Email : row[m] # None => row'[m] # None
           /\ ~Insert(s) /\ ~RecordMessageId(s) => row' = row
<1>0. /\ request \in [Submit -> [pc : {"insert", "count", "send", "named", "unnamed", "unsent",
                                       "record", "done", "failed", "gone"},
                                 email : Email, new : BOOLEAN]]
      /\ row \in [Email -> Row \cup {None}]
  BY DEF IInv, TypeOK
<1>1. request[s].email \in Email
  BY <1>0
<1>2. /\ \A t \in Submit \ {s} : request'[t] = request[t]
      /\ request[s].pc # "insert" => request'[s].new = request[s].new
  BY RequestMoves DEF IInv
<1>3. request'[s].email = request[s].email
  BY <1>0 DEF RequestStep, Insert, CountSignup, Send, CountSend, RecordMessageId, RequestKilled
<1>4. Next
  BY DEF Next
<1>5. \A m \in Email : row[m] # None => row'[m] # None
  BY <1>4, RowsStay DEF IInv
<1>6. ~Insert(s) /\ ~RecordMessageId(s) => row' = row
  BY DEF RequestStep, CountSignup, Send, CountSend, RequestKilled, tables
<1>7. \A m \in Email \ {request[s].email} : row'[m] = row[m]
  <2>1. CASE Insert(s)
    BY <1>0, <2>1 DEF Insert, WithRow
  <2>2. CASE RecordMessageId(s)
    BY <1>0, <2>2 DEF RecordMessageId
  <2> QED
    BY <1>6, <2>1, <2>2
<1> QED
  BY <1>1, <1>2, <1>3, <1>5, <1>6, <1>7

\* Who makes which row changes with the request that steps only.
LEMMA MakerMoves ==
    ASSUME IInv, NEW s \in Submit, RequestStep(s) \/ RequestKilled(s), NEW P,
           NEW m \in Email, m = request[s].email
    PROVE  /\ \A n \in Email \ {m} : Maker(n, P)' <=> Maker(n, P)
           /\ request'[s].new /\ request'[s].pc \in P => Maker(m, P)'
           /\ ~(request[s].new /\ request[s].pc \in P) => (Maker(m, P) => Maker(m, P)')
<1>1. /\ request'[s].email = request[s].email
      /\ \A t \in Submit \ {s} : request'[t] = request[t]
  BY OtherRows
<1> QED
  BY <1>1 DEF Maker

\* Of the rows past some places a request adds its own at most, and that only when
\* it leaves them.
LEMMA RowsPastMove ==
    ASSUME IInv, NEW s \in Submit, RequestStep(s) \/ RequestKilled(s), NEW P, "count" \in P,
           NEW m \in Email, m = request[s].email
    PROVE  /\ RowsPast(P)' \subseteq RowsPast(P) \cup {m}
           /\ \/ m \in RowsPast(P)' => m \in RowsPast(P)
              \/ Insert(s) /\ Mishap
              \/ request[s].new /\ request[s].pc \in P /\ request'[s].pc \notin P
<1>1. RowsPast(P)' \subseteq RowsPast(P) \cup {m}
  BY OtherRows, MakerMoves DEF RowsPast, Rows
<1> SUFFICES \/ m \in RowsPast(P)' => m \in RowsPast(P)
             \/ Insert(s) /\ Mishap
             \/ request[s].new /\ request[s].pc \in P /\ request'[s].pc \notin P
  BY <1>1
<1>2. CASE Insert(s)
  <2>1. CASE Mishap
    BY <1>2, <2>1
  <2>2. CASE ~Mishap
    <3>1. /\ request'[s].pc = "count" /\ request'[s].new = Inserts(m) /\ row' = WithRow(m)
          /\ ~request[s].new
      BY <1>2, <2>2 DEF Insert, IInv, TypeOK, SendersOK
    <3>2. CASE row[m] = None
      <4>1. Maker(m, P)'
        BY <3>1, <3>2, MakerMoves DEF Inserts
      <4> QED
        BY <4>1 DEF RowsPast
    <3>3. CASE row[m] # None
      <4>1. Maker(m, P) => Maker(m, P)'
        BY <3>1, MakerMoves
      <4> QED
        BY <3>3, <4>1, OtherRows DEF RowsPast, Rows
    <3> QED
      BY <3>2, <3>3
  <2> QED
    BY <2>1, <2>2
<1>3. CASE ~Insert(s)
  <2>1. CASE request[s].new /\ request[s].pc \in P /\ request'[s].pc \notin P
    BY <2>1
  <2>2. CASE ~(request[s].new /\ request[s].pc \in P /\ request'[s].pc \notin P)
    <3>1. Maker(m, P) => Maker(m, P)'
      <4>1. CASE request[s].new /\ request[s].pc \in P
        <5>1. request[s].pc # "insert"
          BY <4>1 DEF IInv, SendersOK
        <5> QED
          BY <2>2, <4>1, <5>1, OtherRows, MakerMoves
      <4>2. CASE ~(request[s].new /\ request[s].pc \in P)
        BY <4>2, MakerMoves
      <4> QED
        BY <4>1, <4>2
    <3>2. row'[m] # None => row[m] # None
      <4>1. CASE RecordMessageId(s)
        <5>1. row[m] # None
          BY <4>1 DEF RecordMessageId, IInv, SendersOK
        <5> QED
          BY <5>1
      <4>2. CASE ~RecordMessageId(s)
        BY <1>3, <4>2, OtherRows
      <4> QED
        BY <4>1, <4>2
    <3> QED
      BY <3>1, <3>2 DEF RowsPast, Rows
  <2> QED
    BY <2>1, <2>2
<1> QED
  BY <1>2, <1>3

\* A row that is not its request's way to a message any more knows it, or there was a
\* mishap.
LEMMA LostRowsMove ==
    ASSUME IInv, KeyBound, NEW s \in Submit, RequestStep(s) \/ RequestKilled(s),
           NEW m \in Email, m = request[s].email
    PROVE  /\ LostRows' \subseteq LostRows \cup {m}
           /\ Mishap \/ (m \in LostRows' => m \in LostRows)
<1> DEFINE P == {"count", "send", "named", "record"}
<1>0. /\ request \in [Submit -> [pc : {"insert", "count", "send", "named", "unnamed", "unsent",
                                       "record", "done", "failed", "gone"},
                                 email : Email, new : BOOLEAN]]
      /\ row \in [Email -> Row \cup {None}]
  BY DEF IInv, TypeOK
<1>1. \A n \in Email : n \in LostRows <=> n \in RowsPast(P) /\ ~KnowsMessage(n)
  BY DEF LostRows, RowsPast
<1>2. \A n \in Email : n \in LostRows' <=> n \in RowsPast(P)' /\ ~KnowsMessage(n)'
  BY DEF LostRows, RowsPast
<1>3. LostRows \subseteq Email /\ LostRows' \subseteq Email
  BY DEF LostRows, Rows
<1>4. KnowsMessage(m) => KnowsMessage(m)'
  <2>1. CASE Insert(s)
    <3>1. row[m] # None => row'[m] = row[m]
      BY <2>1, WithRowFacts DEF Insert, IInv
    <3> QED
      BY <3>1 DEF KnowsMessage
  <2>2. CASE RecordMessageId(s)
    <3>1. row'[m] = row[m] \/ row' = [row EXCEPT ![m].id = s]
      BY <2>2 DEF RecordMessageId
    <3>2. row[m] # None => row[m] \in Row
      BY <1>0
    <3> QED
      BY <1>0, <3>1, <3>2, OtherRows DEF KnowsMessage, Row
  <2>3. CASE ~Insert(s) /\ ~RecordMessageId(s)
    BY <2>3, OtherRows DEF KnowsMessage
  <2> QED
    BY <2>1, <2>2, <2>3
<1>5. LostRows' \subseteq LostRows \cup {m}
  <2>1. ASSUME NEW n \in Email \ {m}, n \in LostRows' PROVE n \in LostRows
    <3>1. row'[n] = row[n]
      BY OtherRows
    <3>2. n \in RowsPast(P)
      BY <1>2, <2>1, RowsPastMove
    <3> QED
      BY <1>1, <1>2, <2>1, <3>1, <3>2 DEF KnowsMessage
  <2> QED
    BY <1>3, <2>1
<1>6. ASSUME ~Mishap, m \in LostRows' PROVE m \in LostRows
  <2>1. m \in RowsPast(P)' /\ ~KnowsMessage(m)' /\ ~KnowsMessage(m)
    BY <1>2, <1>4, <1>6
  <2>2. ASSUME request[s].new, request[s].pc \in P, request'[s].pc \notin P PROVE FALSE
    <3>1. CASE CountSignup(s)
      BY <1>0, <2>2, <3>1 DEF CountSignup
    <3>2. CASE Send(s)
      BY <1>0, <1>6, <2>2, <3>2 DEF Send
    <3>3. CASE CountSend(s)
      BY <1>0, <2>2, <3>3 DEF CountSend, AfterSend
    <3>4. CASE RecordMessageId(s)
      <4>1. row' = [row EXCEPT ![m].id = s] /\ s # None
        BY <1>6, <3>4 DEF RecordMessageId
      <4>2. row[m] \in Row
        BY <1>0, <2>2 DEF IInv, SendersOK
      <4>3. row'[m].id = s
        BY <1>0, <4>1, <4>2 DEF Row
      <4>4. row'[m] # None
        BY <4>2, OtherRows
      <4> QED
        BY <2>1, <4>1, <4>3, <4>4 DEF KnowsMessage
    <3>5. CASE Insert(s)
      BY <2>2, <3>5 DEF Insert
    <3>6. CASE RequestKilled(s)
      BY <1>6, <3>6 DEF RequestKilled
    <3> QED
      BY <3>1, <3>2, <3>3, <3>4, <3>5, <3>6 DEF RequestStep
  <2>3. m \in RowsPast(P)
    BY <1>6, <2>1, <2>2, RowsPastMove
  <2> QED
    BY <1>1, <2>1, <2>3
<1> QED
  BY <1>5, <1>6

\* The bound on a set of one more at most, when the bound keeps up with it.
LEMMA StillBounded ==
    ASSUME NEW S, NEW T, NEW x, IsFiniteSet(S), T \subseteq S \cup {x},
           NEW r \in Nat, NEW q \in Nat, Cardinality(S) <= r, r <= q,
           (x \in T => x \in S) \/ r + 1 <= q
    PROVE  Cardinality(T) <= q
<1>1. /\ Cardinality(S) \in Nat /\ Cardinality(T) \in Nat
      /\ Cardinality(T) <= Cardinality(S) + 1
      /\ (x \in T => x \in S) => Cardinality(T) <= Cardinality(S)
  BY AtMostOneMore
<1> QED
  BY <1>1

\* What a request adds to the counters, when it is past counting.
LEMMA RequestCounts ==
    ASSUME TypeOK, NEW s \in Submit
    PROVE  /\ CountSignup(s) =>
                 \/ Mishap
                 \/ request[s].new /\ funnel'["waitlist_new"] = funnel["waitlist_new"] + 1
                 \/ ~request[s].new /\ funnel'["waitlist_dup"] = funnel["waitlist_dup"] + 1
           /\ CountSend(s) =>
                 \/ Mishap
                 \/ request[s].pc # "unsent" /\ funnel'["email_sent"] = funnel["email_sent"] + 1
                 \/ request[s].pc = "unsent" /\ funnel'["email_failed"] = funnel["email_failed"] + 1
<1>1. ASSUME NEW k \in Metric, Bump(k) PROVE Mishap \/ funnel'[k] = funnel[k] + 1
  BY <1>1 DEF Bump, TypeOK
<1> QED
  BY <1>1 DEF CountSignup, CountSend, SignupMetric, Metric

\* The two parts of the bounds: what requests cost, and what events cost.
RequestCosts ==
    /\ KeyBound => Cardinality(LostRows) <= Spent
    /\ Cardinality(RowsPast({"count"})) <= funnel["waitlist_new"] + Spent
    /\ Cardinality(RequestsPast) <= funnel["waitlist_new"] + funnel["waitlist_dup"] + Spent
    /\ Cardinality(MessagesPast) <= funnel["email_sent"] + Spent
    /\ KeyBound => Cardinality(RowsPast({"count", "send", "named", "unnamed", "unsent"}))
                      <= funnel["email_sent"] + funnel["email_failed"] + Spent

EventCosts ==
    /\ Cardinality(LostEvents) <= Spent
    /\ \A t \in DOMAIN FunnelMetric :
          Cardinality(EventsPast(t)) <= funnel[FunnelMetric[t]] + Spent

Bounded == budget <= Budget /\ RequestCosts /\ EventCosts

\* Rows, requests and messages are finitely many, and counters are numbers.
LEMMA CostSets ==
    ASSUME TypeOK
    PROVE  /\ IsFiniteSet(LostRows) /\ \A P : IsFiniteSet(RowsPast(P))
           /\ IsFiniteSet(RequestsPast) /\ IsFiniteSet(MessagesPast)
           /\ IsFiniteSet(LostEvents) /\ \A t : IsFiniteSet(EventsPast(t))
           /\ \A k \in Metric : funnel[k] \in Nat
<1>1. /\ LostRows \subseteq Email /\ \A P : RowsPast(P) \subseteq Email
      /\ RequestsPast \subseteq Submit
  BY DEF LostRows, RowsPast, Rows, RequestsPast
<1>2. MessagesPast \subseteq Submit /\ LostEvents \subseteq Event /\ \A t : EventsPast(t) \subseteq Event
  BY DEF MessagesPast, LostEvents, EventsPast, Seen, TypeOK
<1>3. \A k \in Metric : funnel[k] \in Nat
  BY DEF TypeOK
<1> QED
  BY <1>1, <1>2, <1>3, FS_Subset

\* A request gets past counting its signup, and its send, by counting it.
LEMMA RequestsPastMove ==
    ASSUME IInv, NEW s \in Submit, RequestStep(s) \/ RequestKilled(s)
    PROVE  /\ RequestsPast' \subseteq RequestsPast \cup {s}
           /\ (s \in RequestsPast' => s \in RequestsPast) \/ Mishap \/ CountSignup(s)
           /\ MessagesPast' \subseteq MessagesPast \cup {s}
           /\ \/ s \in MessagesPast' => s \in MessagesPast
              \/ Mishap
              \/ CountSend(s) /\ request[s].pc # "unsent"
<1>0. /\ request \in [Submit -> [pc : {"insert", "count", "send", "named", "unnamed", "unsent",
                                       "record", "done", "failed", "gone"},
                                 email : Email, new : BOOLEAN]]
      /\ accepted \subseteq Submit
  BY DEF IInv, TypeOK
<1>1. /\ \A t \in Submit \ {s} : request'[t] = request[t]
      /\ accepted \subseteq accepted' /\ accepted' \subseteq accepted \cup {s}
      /\ ~Send(s) => accepted' = accepted
  <2>1. \A t \in Submit \ {s} : request'[t] = request[t]
    BY OtherRows
  <2>2. /\ accepted \subseteq accepted' /\ accepted' \subseteq accepted \cup {s}
        /\ ~Send(s) => accepted' = accepted
    BY DEF RequestStep, Insert, CountSignup, Send, CountSend, RecordMessageId, RequestKilled, resend
  <2> QED
    BY <2>1, <2>2
<1>2. RequestsPast' \subseteq RequestsPast \cup {s} /\ MessagesPast' \subseteq MessagesPast \cup {s}
  BY <1>0, <1>1 DEF RequestsPast, MessagesPast
<1>3. (s \in RequestsPast' => s \in RequestsPast) \/ Mishap \/ CountSignup(s)
  <2>1. CASE Insert(s)
    BY <1>0, <2>1 DEF Insert, RequestsPast
  <2>2. CASE Send(s) \/ CountSend(s) \/ RecordMessageId(s)
    BY <2>2 DEF Send, CountSend, RecordMessageId, RequestsPast
  <2>3. CASE RequestKilled(s)
    BY <2>3 DEF RequestKilled
  <2> QED
    BY <2>1, <2>2, <2>3 DEF RequestStep
<1>4. \/ s \in MessagesPast' => s \in MessagesPast
      \/ Mishap
      \/ CountSend(s) /\ request[s].pc # "unsent"
  <2>1. CASE Send(s)
    BY <1>0, <2>1 DEF Send, MessagesPast
  <2>2. CASE Insert(s) \/ CountSignup(s) \/ RecordMessageId(s)
    <3>1. request[s].pc \notin {"named", "unnamed"}
      BY <2>2 DEF Insert, CountSignup, RecordMessageId
    <3>2. accepted' = accepted
      BY <2>2 DEF Insert, CountSignup, RecordMessageId, resend
    <3> QED
      BY <3>1, <3>2 DEF MessagesPast
  <2>3. CASE CountSend(s)
    <3>1. accepted' = accepted
      BY <2>3 DEF CountSend, resend
    <3> QED
      BY <2>3, <3>1 DEF MessagesPast
  <2>4. CASE RequestKilled(s)
    BY <2>4 DEF RequestKilled
  <2> QED
    BY <2>1, <2>2, <2>3, <2>4 DEF RequestStep
<1> QED
  BY <1>2, <1>3, <1>4

\* What a request does keeps the bounds on what requests cost.
LEMMA RequestCostsStep ==
    ASSUME IInv, budget <= Budget, RequestCosts, NEW s \in Submit, RequestStep(s) \/ RequestKilled(s),
           TypeOK'
    PROVE  RequestCosts'
<1>1. Next
  BY DEF Next
<1>2. /\ Spent \in Nat /\ Spent' \in Nat /\ Spent <= Spent'
      /\ Mishap => Spent + 1 <= Spent'
  <2>1. /\ Spent \in Nat /\ Spent' \in Nat
        /\ ~Mishap => Spent' = Spent
        /\ Mishap => Spent' = Spent + 1
    BY <1>1, SpentStep DEF IInv
  <2> QED
    BY <2>1
<1>3. /\ \A k \in Metric : funnel[k] \in Nat /\ funnel'[k] \in Nat /\ funnel[k] <= funnel'[k]
      /\ {"waitlist_new", "waitlist_dup", "email_sent", "email_failed"} \subseteq Metric
  <2>1. \A k \in Metric : funnel'[k] >= funnel[k]
    BY <1>1, CountersGrow DEF IInv
  <2>2. \A k \in Metric : funnel[k] \in Nat /\ funnel'[k] \in Nat
    BY DEF IInv, TypeOK
  <2> QED
    BY <2>1, <2>2 DEF Metric
<1>4. PICK m \in Email : m = request[s].email
  BY OtherRows
<1>5. KeyBound' = KeyBound
  OBVIOUS
<1>6. ASSUME KeyBound PROVE Cardinality(LostRows') <= Spent'
  <2>1. LostRows' \subseteq LostRows \cup {m} /\ (Mishap \/ (m \in LostRows' => m \in LostRows))
    BY <1>4, <1>6, LostRowsMove
  <2>2. IsFiniteSet(LostRows) /\ Cardinality(LostRows) <= Spent
    BY <1>6, CostSets DEF RequestCosts, IInv
  <2>3. (m \in LostRows' => m \in LostRows) \/ Spent + 1 <= Spent'
    BY <1>2, <2>1
  <2> QED
    BY <1>2, <2>1, <2>2, <2>3, StillBounded
<1>7. Cardinality(RowsPast({"count"})') <= funnel'["waitlist_new"] + Spent'
  <2> DEFINE P == {"count"}
             S == RowsPast(P)
             T == RowsPast(P)'
             r == funnel["waitlist_new"] + Spent
             q == funnel'["waitlist_new"] + Spent'
  <2>1. /\ T \subseteq S \cup {m}
        /\ \/ m \in T => m \in S
           \/ Mishap
           \/ request[s].new /\ request[s].pc = "count" /\ request'[s].pc # "count"
    BY <1>4, RowsPastMove
  <2>2. IsFiniteSet(S) /\ Cardinality(S) <= r
    BY CostSets DEF RequestCosts, IInv
  <2>3. r \in Nat /\ q \in Nat /\ r <= q
    BY <1>2, <1>3
  <2>4. ASSUME request[s].new, request[s].pc = "count" PROVE Mishap \/ r + 1 <= q
    <3>1. CASE CountSignup(s)
      <4>1. Mishap \/ funnel'["waitlist_new"] = funnel["waitlist_new"] + 1
        BY <2>4, <3>1, RequestCounts DEF IInv
      <4> QED
        BY <1>2, <1>3, <4>1
    <3>2. CASE RequestKilled(s)
      BY <3>2 DEF RequestKilled
    <3> QED
      BY <2>4, <3>1, <3>2 DEF RequestStep, Insert, Send, CountSend, RecordMessageId
  <2>5. (m \in T => m \in S) \/ r + 1 <= q
    <3>1. Mishap => r + 1 <= q
      BY <1>2, <1>3
    <3> QED
      BY <2>1, <2>4, <3>1
  <2> HIDE DEF P, S, T, r, q
  <2>6. Cardinality(T) <= q
    BY <2>1, <2>2, <2>3, <2>5, StillBounded
  <2> QED
    BY <2>6 DEF P, T, q
<1>8. Cardinality(RequestsPast') <= funnel'["waitlist_new"] + funnel'["waitlist_dup"] + Spent'
  <2> DEFINE S == RequestsPast
             T == RequestsPast'
             r == funnel["waitlist_new"] + funnel["waitlist_dup"] + Spent
             q == funnel'["waitlist_new"] + funnel'["waitlist_dup"] + Spent'
  <2>1. T \subseteq S \cup {s} /\ ((s \in T => s \in S) \/ Mishap \/ CountSignup(s))
    BY RequestsPastMove
  <2>2. IsFiniteSet(S) /\ Cardinality(S) <= r
    BY CostSets DEF RequestCosts, IInv
  <2>3. r \in Nat /\ q \in Nat /\ r <= q
    BY <1>2, <1>3
  <2>4. Mishap \/ CountSignup(s) => r + 1 <= q
    <3>1. CountSignup(s) => \/ Mishap
                            \/ funnel'["waitlist_new"] = funnel["waitlist_new"] + 1
                            \/ funnel'["waitlist_dup"] = funnel["waitlist_dup"] + 1
      BY RequestCounts DEF IInv
    <3> QED
      BY <1>2, <1>3, <3>1
  <2>5. (s \in T => s \in S) \/ r + 1 <= q
    BY <2>1, <2>4
  <2> HIDE DEF S, T, r, q
  <2>6. Cardinality(T) <= q
    BY <2>1, <2>2, <2>3, <2>5, StillBounded
  <2> QED
    BY <2>6 DEF T, q
<1>9. Cardinality(MessagesPast') <= funnel'["email_sent"] + Spent'
  <2> DEFINE S == MessagesPast
             T == MessagesPast'
             r == funnel["email_sent"] + Spent
             q == funnel'["email_sent"] + Spent'
  <2>1. /\ T \subseteq S \cup {s}
        /\ (s \in T => s \in S) \/ Mishap \/ (CountSend(s) /\ request[s].pc # "unsent")
    BY RequestsPastMove
  <2>2. IsFiniteSet(S) /\ Cardinality(S) <= r
    BY CostSets DEF RequestCosts, IInv
  <2>3. r \in Nat /\ q \in Nat /\ r <= q
    BY <1>2, <1>3
  <2>4. Mishap \/ (CountSend(s) /\ request[s].pc # "unsent") => r + 1 <= q
    <3>1. CountSend(s) /\ request[s].pc # "unsent" =>
             Mishap \/ funnel'["email_sent"] = funnel["email_sent"] + 1
      BY RequestCounts DEF IInv
    <3> QED
      BY <1>2, <1>3, <3>1
  <2>5. (s \in T => s \in S) \/ r + 1 <= q
    BY <2>1, <2>4
  <2> HIDE DEF S, T, r, q
  <2>6. Cardinality(T) <= q
    BY <2>1, <2>2, <2>3, <2>5, StillBounded
  <2> QED
    BY <2>6 DEF T, q
<1>10. ASSUME KeyBound
       PROVE  Cardinality(RowsPast({"count", "send", "named", "unnamed", "unsent"})')
                 <= funnel'["email_sent"] + funnel'["email_failed"] + Spent'
  <2> DEFINE P == {"count", "send", "named", "unnamed", "unsent"}
             S == RowsPast(P)
             T == RowsPast(P)'
             r == funnel["email_sent"] + funnel["email_failed"] + Spent
             q == funnel'["email_sent"] + funnel'["email_failed"] + Spent'
  <2>1. /\ T \subseteq S \cup {m}
        /\ \/ m \in T => m \in S
           \/ Mishap
           \/ request[s].new /\ request[s].pc \in P /\ request'[s].pc \notin P
    BY <1>4, RowsPastMove
  <2>2. IsFiniteSet(S) /\ Cardinality(S) <= r
    BY <1>10, CostSets DEF RequestCosts, IInv
  <2>3. r \in Nat /\ q \in Nat /\ r <= q
    BY <1>2, <1>3
  <2>4. ASSUME request[s].new, request[s].pc \in P, request'[s].pc \notin P
        PROVE  Mishap \/ r + 1 <= q
    <3>0. request \in [Submit -> [pc : {"insert", "count", "send", "named", "unnamed", "unsent",
                                        "record", "done", "failed", "gone"},
                                  email : Email, new : BOOLEAN]]
      BY DEF IInv, TypeOK
    <3>1. CASE CountSend(s)
      <4>1. \/ Mishap \/ funnel'["email_sent"] = funnel["email_sent"] + 1
            \/ funnel'["email_failed"] = funnel["email_failed"] + 1
        BY <3>1, RequestCounts DEF IInv
      <4> QED
        BY <1>2, <1>3, <4>1
    <3>2. CASE RequestKilled(s)
      BY <3>2 DEF RequestKilled
    <3>3. CASE CountSignup(s)
      BY <1>10, <2>4, <3>0, <3>3 DEF CountSignup
    <3>4. CASE Send(s)
      BY <2>4, <3>0, <3>4 DEF Send
    <3> QED
      BY <2>4, <3>1, <3>2, <3>3, <3>4 DEF RequestStep, Insert, RecordMessageId
  <2>5. (m \in T => m \in S) \/ r + 1 <= q
    <3>1. Mishap => r + 1 <= q
      BY <1>2, <1>3
    <3> QED
      BY <2>1, <2>4, <3>1
  <2> HIDE DEF P, S, T, r, q
  <2>6. Cardinality(T) <= q
    BY <2>1, <2>2, <2>3, <2>5, StillBounded
  <2> QED
    BY <2>6 DEF P, T, q
<1> QED
  BY <1>6, <1>7, <1>8, <1>9, <1>10 DEF RequestCosts

\* What Resend and the webhook do: nothing to requests, to what was sent, and to
\* which rows there are with which message.
LEMMA RowsKept ==
    ASSUME IInv, NEW h, NEW e \in Event,
           Emit(e) \/ Deliver(h, e) \/ (h \in Handler /\ (HandlerStep(h) \/ HandlerKilled(h)))
    PROVE  /\ request' = request /\ accepted' = accepted
           /\ \A m \in Email : /\ row'[m] # None <=> row[m] # None
                               /\ row[m] # None => row'[m].id = row[m].id
<1>1. request' = request /\ accepted' = accepted
  BY Apart
<1>2. CASE row' = row
  BY <1>1, <1>2
<1>3. CASE h \in Handler /\ RecordDelivery(h)
  <2>1. /\ hook[h].event \in Event /\ emitted[hook[h].event] # None
        /\ Tracked(emitted[hook[h].event].type)
    BY <1>3 DEF RecordDelivery, IInv, HookOK
  <2>2. row' = row \/ row' = Stamped(hook[h].event)
    BY <1>3 DEF RecordDelivery
  <2> QED
    BY <1>1, <1>2, <2>1, <2>2, StampedFacts DEF IInv
<1> QED
  BY <1>2, <1>3, Apart DEF HandlerStep, MarkProcessed, CountDelivery, HandlerKilled, tables

LEMMA WebhookCostsNoRequest ==
    ASSUME IInv, budget <= Budget, RequestCosts, NEW h, NEW e \in Event, Next, TypeOK',
           Emit(e) \/ Deliver(h, e) \/ (h \in Handler /\ (HandlerStep(h) \/ HandlerKilled(h)))
    PROVE  RequestCosts'
<1>1. /\ Spent \in Nat /\ Spent' \in Nat /\ Spent <= Spent'
  <2>1. /\ Spent \in Nat /\ Spent' \in Nat
        /\ ~Mishap => Spent' = Spent
        /\ Mishap => Spent' = Spent + 1
    BY SpentStep DEF IInv
  <2> QED
    BY <2>1
<1>2. /\ \A k \in Metric : funnel[k] \in Nat /\ funnel'[k] \in Nat /\ funnel[k] <= funnel'[k]
      /\ {"waitlist_new", "waitlist_dup", "email_sent", "email_failed"} \subseteq Metric
  <2>1. \A k \in Metric : funnel'[k] >= funnel[k]
    BY CountersGrow DEF IInv
  <2>2. \A k \in Metric : funnel[k] \in Nat /\ funnel'[k] \in Nat
    BY DEF IInv, TypeOK
  <2> QED
    BY <2>1, <2>2 DEF Metric
<1>3. /\ request' = request /\ accepted' = accepted
      /\ \A m \in Email : /\ row'[m] # None <=> row[m] # None
                          /\ row[m] # None => row'[m].id = row[m].id
  BY RowsKept
<1>4. /\ \A P : RowsPast(P)' = RowsPast(P)
      /\ LostRows' = LostRows /\ RequestsPast' = RequestsPast /\ MessagesPast' = MessagesPast
  <2>1. \A P, m : Maker(m, P)' <=> Maker(m, P)
    BY <1>3 DEF Maker
  <2>2. \A m \in Email : KnowsMessage(m)' <=> KnowsMessage(m)
    BY <1>3 DEF KnowsMessage
  <2> QED
    BY <1>3, <2>1, <2>2 DEF RowsPast, LostRows, Rows, RequestsPast, MessagesPast
<1>5. /\ \A P : Cardinality(RowsPast(P)) \in Nat /\ Cardinality(LostRows) \in Nat
      /\ Cardinality(RequestsPast) \in Nat /\ Cardinality(MessagesPast) \in Nat
  BY CostSets, FS_CardinalityType DEF IInv
<1> QED
  BY <1>1, <1>2, <1>4, <1>5 DEF RequestCosts

\* A Worker's step is about its own event only, which it leaves neither off its row
\* nor uncounted without a mishap.
LEMMA HandlerMoves ==
    ASSUME IInv, LedgerOK, NEW h \in Handler, HandlerStep(h) \/ HandlerKilled(h),
           hook[h].pc # "idle", NEW e \in Event, e = hook[h].event
    PROVE  /\ LostEvents' \subseteq LostEvents \cup {e}
           /\ Mishap \/ (e \in LostEvents' => e \in LostEvents)
           /\ \A t \in DOMAIN FunnelMetric :
                 /\ EventsPast(t)' \subseteq EventsPast(t) \cup {e}
                 /\ \/ Mishap
                    \/ e \in EventsPast(t)' => e \in EventsPast(t)
                    \/ funnel'[FunnelMetric[t]] = funnel[FunnelMetric[t]] + 1
<1>0. /\ hook \in [Handler -> [pc : {"idle", "ledger", "update", "count"}, event : Event \cup {None}]]
      /\ ledger \subseteq Event /\ emitted[e] # None
      /\ \A k \in Metric : funnel[k] \in Nat
  BY DEF IInv, TypeOK, HookOK
<1>1. /\ emitted' = emitted /\ ledger \subseteq ledger' /\ ledger' \subseteq ledger \cup {e}
      /\ applied \subseteq applied' /\ applied' \subseteq applied \cup {e}
  <2>1. emitted' = emitted
    BY Apart
  <2>2. CASE MarkProcessed(h)
    BY <2>1, <2>2 DEF MarkProcessed
  <2>3. CASE RecordDelivery(h)
    BY <2>1, <2>3 DEF RecordDelivery, WithApplied
  <2>4. CASE CountDelivery(h) \/ HandlerKilled(h)
    BY <2>1, <2>4 DEF CountDelivery, HandlerKilled, tables
  <2> QED
    BY <2>2, <2>3, <2>4 DEF HandlerStep
<1>2. /\ \A g \in Handler \ {h} : hook'[g] = hook[g]
      /\ hook'[h].event \in {e, None}
  <2>1. CASE Free(h)
    BY <1>0, <2>1 DEF Free
  <2>2. CASE hook' = [hook EXCEPT ![h].pc = "update"] \/ hook' = [hook EXCEPT ![h].pc = "count"]
    BY <1>0, <2>2
  <2> QED
    BY <2>1, <2>2 DEF HandlerStep, MarkProcessed, RecordDelivery, CountDelivery, HandlerKilled,
       Answer, Throws
<1>3. \A P : \A f \in Event \ {e} : Worker(f, P)' <=> Worker(f, P)
  BY <1>2 DEF Worker
<1>4. \A f : ForARow(f)' <=> ForARow(f)
  BY <1>1 DEF ForARow
<1>5. LostEvents' \subseteq LostEvents \cup {e}
  BY <1>0, <1>1, <1>3, <1>4 DEF LostEvents
<1>6. \A t : EventsPast(t)' \subseteq EventsPast(t) \cup {e}
  BY <1>0, <1>1, <1>3 DEF EventsPast, Seen
<1>7. \A P : hook[h].pc \notin P => (Worker(e, P) => Worker(e, P)')
  BY <1>2 DEF Worker
<1>8. ASSUME ~Mishap
      PROVE  /\ e \in LostEvents' => e \in LostEvents
             /\ \A t \in DOMAIN FunnelMetric :
                   \/ e \in EventsPast(t)' => e \in EventsPast(t)
                   \/ funnel'[FunnelMetric[t]] = funnel[FunnelMetric[t]] + 1
  <2>1. CASE MarkProcessed(h)
    <3>1. Worker(e, {"update"}) => Worker(e, {"update"})'
      BY <1>7, <2>1 DEF MarkProcessed
    <3>2. Worker(e, {"update", "count"}) => Worker(e, {"update", "count"})'
      BY <1>7, <2>1 DEF MarkProcessed
    <3>3. CASE e \in ledger
      BY <1>1, <1>4, <3>1, <3>2, <3>3 DEF LostEvents, EventsPast, Seen
    <3>4. CASE e \notin ledger /\ Tracked(emitted[e].type)
      <4>1. hook' = [hook EXCEPT ![h].pc = "update"]
        BY <1>8, <2>1, <3>4 DEF MarkProcessed, FirstSeen, Throws
      <4>2. hook'[h].event = e /\ hook'[h].pc = "update"
        BY <1>0, <4>1
      <4>3. Worker(e, {"update"})' /\ Worker(e, {"update", "count"})'
        BY <4>2 DEF Worker
      <4> QED
        BY <4>3 DEF LostEvents, EventsPast
    <3>5. CASE ~Tracked(emitted[e].type)
      BY <1>1, <3>5 DEF LostEvents, EventsPast, Seen, ForARow, Tracked, FunnelMetric, Status
    <3> QED
      BY <3>3, <3>4, <3>5
  <2>2. CASE RecordDelivery(h)
    <3>1. applied' = WithApplied(e) /\ hook' = [hook EXCEPT ![h].pc = "count"]
      BY <1>8, <2>2 DEF RecordDelivery, Throws
    <3>2. hook'[h].event = e /\ hook'[h].pc = "count"
      BY <1>0, <3>1
    <3>3. Worker(e, {"update", "count"})'
      BY <3>2 DEF Worker
    <3>4. ForARow(e) => e \in applied'
      <4>1. HAVE ForARow(e)
      <4>2. /\ emitted[e].message \in accepted
            /\ row[request[emitted[e].message].email] # None
            /\ row[request[emitted[e].message].email].id = emitted[e].message
        BY <1>0, <4>1 DEF ForARow, IInv, EventsOK
      <4>3. emitted[e].message # None /\ request[emitted[e].message].email \in Email
        BY <4>2, WaitlistAssumption DEF IInv, TypeOK
      <4>4. Names(row[request[emitted[e].message].email], emitted[e].message)
        BY <4>2, <4>3 DEF Names
      <4> QED
        BY <3>1, <4>3, <4>4 DEF WithApplied
    <3> QED
      BY <1>4, <3>3, <3>4 DEF LostEvents, EventsPast
  <2>3. CASE CountDelivery(h)
    <3>1. Worker(e, {"update"}) => Worker(e, {"update"})'
      BY <1>7, <2>3 DEF CountDelivery
    <3>2. ledger' = ledger /\ applied' = applied
      BY <2>3 DEF CountDelivery
    <3>3. e \in LostEvents' => e \in LostEvents
      BY <1>4, <3>1, <3>2 DEF LostEvents
    <3>4. ASSUME NEW t \in DOMAIN FunnelMetric, e \in EventsPast(t)'
          PROVE  funnel'[FunnelMetric[t]] = funnel[FunnelMetric[t]] + 1
      <4>1. emitted[e].type = t
        BY <1>1, <3>4 DEF EventsPast, Seen
      <4>2. Bump(FunnelMetric[t])
        BY <2>3, <3>4, <4>1 DEF CountDelivery
      <4>3. FunnelMetric[t] \in Metric
        BY DEF FunnelMetric, Metric
      <4>4. funnel' = [funnel EXCEPT ![FunnelMetric[t]] = @ + 1]
        BY <1>8, <4>2 DEF Bump
      <4> QED
        BY <4>3, <4>4 DEF IInv, TypeOK
    <3> QED
      BY <3>3, <3>4
  <2>4. CASE HandlerKilled(h)
    BY <1>8, <2>4 DEF HandlerKilled
  <2> QED
    BY <2>1, <2>2, <2>3, <2>4 DEF HandlerStep
<1> QED
  BY <1>5, <1>6, <1>8

\* A step that is no Worker's moves no event off its way.
LEMMA EventsLeft ==
    ASSUME IInv, LedgerOK, NEW h, NEW e \in Event, NEW s,
           (s \in Submit /\ (RequestStep(s) \/ RequestKilled(s))) \/ Emit(e)
              \/ (h \in Handler /\ Deliver(h, e))
    PROVE  LostEvents' = LostEvents /\ \A t : EventsPast(t)' = EventsPast(t)
<1>0. /\ hook \in [Handler -> [pc : {"idle", "ledger", "update", "count"}, event : Event \cup {None}]]
      /\ ledger \subseteq Event /\ emitted \in [Event -> Emission \cup {None}]
  BY DEF IInv, TypeOK
<1>1. ledger' = ledger /\ applied' = applied
  BY Apart DEF Emit, Deliver, tables
<1>2. \A f \in ledger : emitted'[f] = emitted[f]
  <2>1. CASE Emit(e)
    BY <1>0, <2>1 DEF Emit, LedgerOK
  <2> QED
    BY <2>1, Apart DEF Deliver, resend
<1>3. \A f \in ledger : /\ Worker(f, {"update"})' <=> Worker(f, {"update"})
                        /\ Worker(f, {"update", "count"})' <=> Worker(f, {"update", "count"})
  <2>1. CASE hook' = hook
    BY <2>1 DEF Worker
  <2>2. CASE h \in Handler /\ Deliver(h, e)
    <3>1. /\ hook[h].pc = "idle" /\ hook'[h].pc = "ledger"
          /\ \A g \in Handler \ {h} : hook'[g] = hook[g]
      BY <1>0, <2>2 DEF Deliver
    <3> QED
      BY <3>1 DEF Worker
  <2> QED
    BY <2>1, <2>2, Apart DEF Emit
<1>4. \A f \in ledger : ForARow(f)' <=> ForARow(f)
  BY <1>2 DEF ForARow
<1> QED
  BY <1>1, <1>2, <1>3, <1>4 DEF LostEvents, EventsPast, Seen

\* Every step keeps the bounds on what events cost.
LEMMA EventCostsStep ==
    ASSUME IInv, LedgerOK, budget <= Budget, EventCosts, Next, TypeOK'
    PROVE  EventCosts'
<1>1. /\ Spent \in Nat /\ Spent' \in Nat /\ Spent <= Spent'
      /\ Mishap => Spent + 1 <= Spent'
  <2>1. /\ Spent \in Nat /\ Spent' \in Nat
        /\ ~Mishap => Spent' = Spent
        /\ Mishap => Spent' = Spent + 1
    BY SpentStep DEF IInv
  <2> QED
    BY <2>1
<1>2. \A t \in DOMAIN FunnelMetric :
         /\ funnel[FunnelMetric[t]] \in Nat /\ funnel'[FunnelMetric[t]] \in Nat
         /\ funnel[FunnelMetric[t]] <= funnel'[FunnelMetric[t]]
  <2>1. \A k \in Metric : funnel'[k] >= funnel[k]
    BY CountersGrow DEF IInv
  <2>2. \A k \in Metric : funnel[k] \in Nat /\ funnel'[k] \in Nat
    BY DEF IInv, TypeOK
  <2>3. \A t \in DOMAIN FunnelMetric : FunnelMetric[t] \in Metric
    BY DEF FunnelMetric, Metric
  <2> QED
    BY <2>1, <2>2, <2>3
<1>3. /\ IsFiniteSet(LostEvents) /\ Cardinality(LostEvents) \in Nat
      /\ \A t : IsFiniteSet(EventsPast(t)) /\ Cardinality(EventsPast(t)) \in Nat
  BY CostSets, FS_CardinalityType DEF IInv
<1>4. CASE LostEvents' = LostEvents /\ \A t : EventsPast(t)' = EventsPast(t)
  BY <1>1, <1>2, <1>3, <1>4 DEF EventCosts
<1>5. ASSUME NEW h \in Handler, HandlerStep(h) \/ HandlerKilled(h) PROVE EventCosts'
  <2>1. hook[h].pc # "idle"
    BY <1>5 DEF HandlerStep, MarkProcessed, RecordDelivery, CountDelivery, HandlerKilled
  <2>2. PICK e \in Event : e = hook[h].event
    BY <2>1 DEF IInv, HookOK
  <2>3. Cardinality(LostEvents') <= Spent'
    <3>1. /\ LostEvents' \subseteq LostEvents \cup {e}
          /\ Mishap \/ (e \in LostEvents' => e \in LostEvents)
      BY <1>5, <2>1, <2>2, HandlerMoves
    <3>2. (e \in LostEvents' => e \in LostEvents) \/ Spent + 1 <= Spent'
      BY <1>1, <3>1
    <3>3. Cardinality(LostEvents) <= Spent
      BY DEF EventCosts
    <3> QED
      BY <1>1, <1>3, <3>1, <3>2, <3>3, StillBounded
  <2>4. ASSUME NEW t \in DOMAIN FunnelMetric
        PROVE  Cardinality(EventsPast(t)') <= funnel'[FunnelMetric[t]] + Spent'
    <3> DEFINE S == EventsPast(t)
               T == EventsPast(t)'
               r == funnel[FunnelMetric[t]] + Spent
               q == funnel'[FunnelMetric[t]] + Spent'
    <3>1. /\ T \subseteq S \cup {e}
          /\ \/ Mishap
             \/ e \in T => e \in S
             \/ funnel'[FunnelMetric[t]] = funnel[FunnelMetric[t]] + 1
      BY <1>5, <2>1, <2>2, <2>4, HandlerMoves
    <3>2. IsFiniteSet(S) /\ Cardinality(S) <= r
      BY <1>3, <2>4 DEF EventCosts
    <3>3. r \in Nat /\ q \in Nat /\ r <= q
      BY <1>1, <1>2, <2>4
    <3>4. (e \in T => e \in S) \/ r + 1 <= q
      BY <1>1, <1>2, <2>4, <3>1
    <3> HIDE DEF S, T, r, q
    <3>5. Cardinality(T) <= q
      BY <3>1, <3>2, <3>3, <3>4, StillBounded
    <3> QED
      BY <3>5 DEF T, q
  <2> QED
    BY <2>3, <2>4 DEF EventCosts
<1>6. ASSUME NEW s \in Submit, RequestStep(s) \/ RequestKilled(s) PROVE EventCosts'
  <2>1. CASE Event = {}
    <3>1. hook' = hook /\ emitted' = emitted /\ applied' = applied /\ ledger' = ledger
      BY <1>6, Apart
    <3>2. LostEvents' = LostEvents /\ \A t : EventsPast(t)' = EventsPast(t)
      BY <3>1 DEF LostEvents, EventsPast, Seen, ForARow, Worker
    <3> QED
      BY <1>4, <3>2
  <2>2. CASE Event # {}
    BY <1>4, <1>6, <2>2, EventsLeft
  <2> QED
    BY <2>1, <2>2
<1>7. ASSUME NEW e \in Event, Emit(e) PROVE EventCosts'
  BY <1>4, <1>7, EventsLeft
<1>8. ASSUME NEW e \in Event, NEW h \in Handler, Deliver(h, e) PROVE EventCosts'
  BY <1>4, <1>8, EventsLeft
<1> QED
  BY <1>5, <1>6, <1>7, <1>8 DEF Next

LEMMA BoundedInit == Init => Bounded
<1> SUFFICES ASSUME Init PROVE Bounded
  OBVIOUS
<1>1. Cardinality({}) = 0
  BY FS_EmptySet
<1>2. Spent = 0 /\ budget <= Budget
  BY DEF Init, Spent
<1>3. \A k \in Metric : funnel[k] = 0
  BY DEF Init
<1>4. Rows = {} /\ ledger = {} /\ accepted = {} /\ \A s \in Submit : request[s].pc = "insert"
  BY DEF Init, Rows
<1>5. /\ LostRows = {} /\ \A P : RowsPast(P) = {}
      /\ RequestsPast = {} /\ MessagesPast = {}
  BY <1>4 DEF LostRows, RowsPast, RequestsPast, MessagesPast
<1>6. LostEvents = {} /\ \A t : EventsPast(t) = {}
  BY <1>4 DEF LostEvents, EventsPast, Seen
<1>7. RequestCosts
  <2>1. /\ Cardinality(LostRows) = 0 /\ \A P : Cardinality(RowsPast(P)) = 0
        /\ Cardinality(RequestsPast) = 0 /\ Cardinality(MessagesPast) = 0
    BY <1>1, <1>5
  <2>2. /\ funnel["waitlist_new"] = 0 /\ funnel["waitlist_dup"] = 0
        /\ funnel["email_sent"] = 0 /\ funnel["email_failed"] = 0
    BY <1>3 DEF Metric
  <2> QED
    BY <1>2, <2>1, <2>2 DEF RequestCosts
<1>8. EventCosts
  BY <1>1, <1>2, <1>3, <1>6 DEF EventCosts, Metric, FunnelMetric
<1> QED
  BY <1>2, <1>7, <1>8 DEF Bounded

LEMMA BoundedStep == IInv /\ Tallied /\ Bounded /\ [Next]_vars => Bounded'
<1> SUFFICES ASSUME IInv, Tallied, Bounded, [Next]_vars PROVE Bounded'
  OBVIOUS
<1>1. CASE Next
  <2>1. TypeOK' /\ LedgerOK
    BY <1>1, InvStep DEF IInv, Tallied
  <2>2. budget' <= Budget
    BY <1>1, SpentStep DEF Bounded, IInv
  <2>3. EventCosts'
    BY <1>1, <2>1, EventCostsStep DEF Bounded
  <2>4. ASSUME NEW s \in Submit, RequestStep(s) \/ RequestKilled(s) PROVE RequestCosts'
    BY <2>1, <2>4, RequestCostsStep DEF Bounded
  <2>5. ASSUME NEW h, NEW e \in Event, Emit(e) \/ Deliver(h, e) PROVE RequestCosts'
    BY <1>1, <2>1, <2>5, WebhookCostsNoRequest DEF Bounded
  <2>6. ASSUME NEW h \in Handler, HandlerStep(h) \/ HandlerKilled(h) PROVE RequestCosts'
    <3>1. PICK e \in Event : e = hook[h].event
      BY <2>6 DEF IInv, HookOK, HandlerStep, MarkProcessed, RecordDelivery, CountDelivery,
         HandlerKilled
    <3> QED
      BY <1>1, <2>1, <2>6, <3>1, WebhookCostsNoRequest DEF Bounded
  <2> QED
    BY <1>1, <2>2, <2>3, <2>4, <2>5, <2>6 DEF Bounded, Next
<1>2. CASE UNCHANGED vars
  <2>1. /\ row' = row /\ ledger' = ledger /\ funnel' = funnel /\ request' = request /\ hook' = hook
        /\ accepted' = accepted /\ emitted' = emitted /\ budget' = budget /\ applied' = applied
    BY <1>2 DEF vars, tables, resend
  <2>2. RequestCosts' <=> RequestCosts
    BY <2>1 DEF RequestCosts, LostRows, RowsPast, RequestsPast, MessagesPast, Rows, Maker,
       KnowsMessage, Spent
  <2>3. EventCosts' <=> EventCosts
    BY <2>1 DEF EventCosts, LostEvents, EventsPast, Seen, ForARow, Worker, Spent
  <2> QED
    BY <2>1, <2>2, <2>3 DEF Bounded
<1> QED
  BY <1>1, <1>2

LEMMA AllBounded == Spec => [](IInv /\ Tallied /\ Bounded)
<1>1. Init => IInv /\ Tallied /\ Bounded
  BY InvInit, TallyInit, BoundedInit
<1>2. IInv /\ Tallied /\ Bounded /\ [Next]_vars => (IInv /\ Tallied /\ Bounded)'
  BY InvStep, TallyStep, BoundedStep
<1> QED
  BY <1>1, <1>2, PTL DEF Spec

\* A call that throws or a Worker that dies costs at most one row its message and one
\* event, whose message was on its row when it happened, its place there
\* (waitlist.ts:183, resend-webhook.ts:186), whatever else is going on; with none of
\* them no row and no such event is lost.
THEOREM MishapsCostOne == Spec => []LossesBounded
<1>1. Bounded => LossesBounded
  BY DEF Bounded, RequestCosts, EventCosts, LossesBounded
<1> QED
  BY <1>1, AllBounded, PTL

\* No counter of _lib/d1.ts is short of what happened by more than the mishaps there
\* were, once those who would count it are done.
THEOREM FunnelNeverShort == Spec => []ShortfallBounded
<1>1. Bounded => ShortfallBounded
  BY DEF Bounded, RequestCosts, EventCosts, ShortfallBounded, FunnelMetric
<1> QED
  BY <1>1, AllBounded, PTL

-----------------------------------------------------------------------------
(***************************************************************************)
(* An event is taken up once.                                              *)
(***************************************************************************)

\* What was answered or applied was marked before, and what a Worker is about to
\* apply was not applied yet.
TakenOK ==
    /\ acked \subseteq ledger /\ applied \subseteq ledger
    /\ \A h \in Handler : hook[h].pc = "update" => hook[h].event \notin applied

\* Every step keeps it: the first to mark an event is alone with it.
LEMMA TakenStep == ASSUME IInv, LedgerOK, TakenOK, Next PROVE TakenOK'
<1> USE DEF tables, resend
<1>0. /\ hook \in [Handler -> [pc : {"idle", "ledger", "update", "count"}, event : Event \cup {None}]]
      /\ ledger \subseteq Event
      /\ \A e \in Event : emitted[e] # None => emitted'[e] = emitted[e]
  BY EmittedStays DEF IInv, TypeOK
<1>1. ASSUME ledger \subseteq ledger',
             \A e \in acked' \ acked : e \in ledger',
             \A e \in applied' \ applied : e \in ledger',
             \A h \in Handler : hook'[h].pc = "update" => hook'[h].event \notin applied'
      PROVE  TakenOK'
  BY <1>0, <1>1 DEF TakenOK
<1>2. ASSUME NEW s \in Submit, RequestStep(s) \/ RequestKilled(s) PROVE TakenOK'
  <2>1. acked' = acked
    BY <1>2 DEF RequestStep, Insert, CountSignup, Send, CountSend, RecordMessageId, RequestKilled
  <2> QED
    BY <1>1, <1>2, <2>1, Apart DEF TakenOK
<1>3. ASSUME NEW e \in Event, Emit(e) PROVE TakenOK'
  BY <1>1, <1>3 DEF Emit, TakenOK
<1>4. ASSUME NEW e \in Event, NEW h \in Handler, Deliver(h, e) PROVE TakenOK'
  <2>1. \A g \in Handler : hook'[g] = hook[g] \/ hook'[g].pc = "ledger"
    BY <1>0, <1>4 DEF Deliver
  <2> QED
    BY <1>1, <1>4, <2>1 DEF Deliver, TakenOK
<1>5. ASSUME NEW h \in Handler, HandlerStep(h) \/ HandlerKilled(h) PROVE TakenOK'
  <2> DEFINE e == hook[h].event
  <2>0. e \in Event /\ emitted[e] # None
    BY <1>5 DEF HandlerStep, MarkProcessed, RecordDelivery, CountDelivery, HandlerKilled, IInv, HookOK
  <2>1. ASSUME Free(h) PROVE \A g \in Handler : hook'[g].pc = "update" => g # h /\ hook'[g] = hook[g]
    BY <1>0, <2>1 DEF Free
  <2>2. CASE MarkProcessed(h)
    <3>1. /\ ledger \subseteq ledger' /\ applied' = applied
          /\ acked' = acked \/ (acked' = acked \cup {e} /\ e \in ledger')
      BY <2>2 DEF MarkProcessed, Answer, Throws
    <3>2. \A g \in Handler : hook'[g].pc = "update" => hook'[g].event \notin applied
      <4>1. CASE Free(h)
        BY <2>1, <4>1 DEF TakenOK
      <4>2. CASE e \notin ledger /\ hook' = [hook EXCEPT ![h].pc = "update"]
        <5>1. hook'[h].event = e /\ \A g \in Handler \ {h} : hook'[g] = hook[g]
          BY <1>0, <4>2
        <5> QED
          BY <4>2, <5>1 DEF TakenOK
      <4> QED
        BY <2>2, <4>1, <4>2 DEF MarkProcessed, FirstSeen, Answer, Throws
    <3> QED
      BY <1>1, <2>0, <3>1, <3>2
  <2>3. CASE RecordDelivery(h)
    <3>1. /\ ledger' = ledger /\ acked' = acked /\ e \in ledger
          /\ applied' = applied \/ applied' = applied \cup {e}
      BY <2>3 DEF RecordDelivery, WithApplied, Throws, LedgerOK, AtWork
    <3>2. \A g \in Handler : hook'[g].pc = "update" => g # h /\ hook'[g] = hook[g]
      <4>1. CASE hook' = [hook EXCEPT ![h].pc = "count"]
        BY <1>0, <4>1
      <4> QED
        BY <2>1, <2>3, <4>1 DEF RecordDelivery, Throws
    <3>3. \A g \in Handler : g # h /\ hook[g].pc = "update" => hook[g].event # e
      BY <2>3 DEF RecordDelivery, LedgerOK, AtWork
    <3> QED
      BY <1>1, <3>1, <3>2, <3>3 DEF TakenOK
  <2>4. CASE CountDelivery(h)
    <3>1. /\ ledger' = ledger /\ acked' = acked \cup {e} /\ e \in ledger /\ applied' = applied
          /\ Free(h)
      BY <2>4 DEF CountDelivery, Answer, LedgerOK, AtWork
    <3> QED
      BY <1>1, <2>0, <2>1, <3>1 DEF TakenOK
  <2>5. CASE HandlerKilled(h)
    <3>1. ledger' = ledger /\ acked' = acked /\ applied' = applied /\ Free(h)
      BY <2>5 DEF HandlerKilled
    <3> QED
      BY <1>1, <2>1, <3>1 DEF TakenOK
  <2> QED
    BY <1>5, <2>2, <2>3, <2>4, <2>5 DEF HandlerStep
<1> QED
  BY <1>2, <1>3, <1>4, <1>5 DEF Next

LEMMA AllTaken == Spec => []TakenOK
<1>1. Init => TakenOK
  BY DEF Init, TakenOK
<1>2. IInv /\ Tallied /\ TakenOK /\ [Next]_vars => TakenOK'
  <2>1. UNCHANGED vars /\ TakenOK => TakenOK'
    BY DEF vars, tables, resend, TakenOK
  <2> QED
    BY <2>1, TakenStep DEF Tallied
<1> QED
  BY <1>1, <1>2, AllBounded, PTL DEF Spec

\* A set with no element left.
LEMMA NoneLeft == ASSUME NEW S, IsFiniteSet(S), Cardinality(S) <= 0 PROVE S = {}
BY FS_CardinalityType, FS_EmptySet

\* The special case of no mishap: a finished signup knows its message, and an event
\* whose message was on its row when it happened was written to that row, once it was
\* answered and no Worker is at work on it; the row still names the message and shows
\* an event of it.
THEOREM UnharmedReachesRows ==
    Spec => [](budget = Budget =>
                 /\ \A s \in Submit : request[s].pc = "done" /\ request[s].new /\ KeyBound =>
                       KnowsMessage(request[s].email)
                 /\ \A e \in acked : ForARow(e) /\ Settled(e) =>
                       /\ e \in applied
                       /\ row[request[emitted[e].message].email] # None
                       /\ row[request[emitted[e].message].email].id = emitted[e].message
                       /\ row[request[emitted[e].message].email].event # None)
<1>1. ASSUME IInv, Bounded, TakenOK, budget = Budget
      PROVE  /\ \A s \in Submit : request[s].pc = "done" /\ request[s].new /\ KeyBound =>
                   KnowsMessage(request[s].email)
             /\ \A e \in acked : ForARow(e) /\ Settled(e) =>
                   /\ e \in applied
                   /\ row[request[emitted[e].message].email] # None
                   /\ row[request[emitted[e].message].email].id = emitted[e].message
                   /\ row[request[emitted[e].message].email].event # None
  <2>1. Spent = 0
    BY <1>1 DEF Spent
  <2>2. KeyBound => LostRows = {}
    BY <1>1, <2>1, CostSets, NoneLeft DEF Bounded, RequestCosts, IInv
  <2>3. LostEvents = {}
    BY <1>1, <2>1, CostSets, NoneLeft DEF Bounded, EventCosts, IInv
  <2>4. ASSUME NEW s \in Submit, request[s].pc = "done", request[s].new, KeyBound
        PROVE  KnowsMessage(request[s].email)
    <3>1. request[s].email \in Rows
      BY <1>1, <2>4 DEF IInv, TypeOK, SendersOK, Rows
    <3>2. ~Maker(request[s].email, {"count", "send", "named", "record"})
      BY <1>1, <2>4 DEF IInv, SendersOK, Maker
    <3> QED
      BY <2>2, <2>4, <3>1, <3>2 DEF LostRows
  <2>5. ASSUME NEW e \in acked, ForARow(e), Settled(e)
        PROVE  /\ e \in applied
               /\ row[request[emitted[e].message].email] # None
               /\ row[request[emitted[e].message].email].id = emitted[e].message
               /\ row[request[emitted[e].message].email].event # None
    <3>1. e \in ledger /\ ~Worker(e, {"update"})
      BY <1>1, <2>5 DEF TakenOK, Settled, Worker
    <3>2. e \in applied
      BY <2>3, <2>5, <3>1 DEF LostEvents
    <3>3. e \in Event
      BY <1>1 DEF IInv, TypeOK
    <3> QED
      BY <1>1, <3>2, <3>3 DEF IInv, EventsOK
  <2> QED
    BY <2>4, <2>5
<1> QED
  BY <1>1, AllBounded, AllTaken, PTL

\* The special case of no mishap: once everybody is done, the funnel says exactly how
\* many rows, requests, messages and events there are.
THEOREM UnharmedFunnelExact ==
    Spec => [](/\ budget = Budget
               /\ \A s \in Submit : request[s].pc = "done"
               /\ \A h \in Handler : hook[h].pc = "idle"
               => /\ funnel["waitlist_new"] = Cardinality(Rows)
                  /\ funnel["waitlist_new"] + funnel["waitlist_dup"] = Cardinality(Submit)
                  /\ funnel["email_sent"] = Cardinality(accepted)
                  /\ KeyBound => funnel["email_sent"] + funnel["email_failed"] = Cardinality(Rows)
                  /\ funnel["email_delivered"] = Cardinality(Seen("delivered"))
                  /\ funnel["email_bounced"] = Cardinality(Seen("bounced")))
<1>1. ASSUME IInv, Bounded, NeverOvercounts, budget = Budget,
             \A s \in Submit : request[s].pc = "done", \A h \in Handler : hook[h].pc = "idle"
      PROVE  /\ funnel["waitlist_new"] = Cardinality(Rows)
             /\ funnel["waitlist_new"] + funnel["waitlist_dup"] = Cardinality(Submit)
             /\ funnel["email_sent"] = Cardinality(accepted)
             /\ KeyBound => funnel["email_sent"] + funnel["email_failed"] = Cardinality(Rows)
             /\ funnel["email_delivered"] = Cardinality(Seen("delivered"))
             /\ funnel["email_bounced"] = Cardinality(Seen("bounced"))
  <2>1. Spent = 0
    BY <1>1 DEF Spent
  <2>2. /\ RowsPast({"count"}) = Rows /\ RequestsPast = Submit /\ MessagesPast = accepted
        /\ RowsPast({"count", "send", "named", "unnamed", "unsent"}) = Rows
    BY <1>1 DEF RowsPast, Maker, RequestsPast, MessagesPast, IInv, TypeOK
  <2>3. \A t : EventsPast(t) = Seen(t)
    BY <1>1 DEF EventsPast, Worker
  <2>4. /\ Cardinality(Rows) \in Nat /\ Cardinality(Submit) \in Nat /\ Cardinality(accepted) \in Nat
        /\ \A t : Cardinality(Seen(t)) \in Nat
    BY <1>1, <2>2, <2>3, CostSets, FS_CardinalityType DEF IInv
  <2>5. \A k \in Metric : funnel[k] \in Nat
    BY <1>1 DEF IInv, TypeOK
  <2>6. ShortfallBounded
    BY <1>1 DEF Bounded, RequestCosts, EventCosts, ShortfallBounded, FunnelMetric
  <2> QED
    BY <1>1, <2>1, <2>2, <2>3, <2>4, <2>5, <2>6 DEF ShortfallBounded, NeverOvercounts, Metric
<1> QED
  BY <1>1, AllBounded, FunnelNeverOver, PTL

-----------------------------------------------------------------------------
(***************************************************************************)
(* Waitlist implements Mailing.                                            *)
(***************************************************************************)

\* What Mailing sees of the tables and of Resend.
Confirmed == {request[s].email : s \in accepted}
Subjects == [e \in Event |-> About(e)]
Shown == [m \in Email |-> IF row[m] = None THEN None ELSE row[m].event]

\* No request changes its address, so what was sent and said stays about whom it was.
LEMMA AddressesStay ==
    ASSUME IInv, Next
    PROVE  /\ \A s \in Submit : request'[s].email = request[s].email
           /\ accepted' = accepted => Confirmed' = Confirmed
           /\ \A e \in Event : emitted'[e] = emitted[e] => About(e)' = About(e)
<1>1. \A s \in Submit : request'[s].email = request[s].email
  <2>1. ASSUME NEW s \in Submit, RequestStep(s) \/ RequestKilled(s)
        PROVE  \A t \in Submit : request'[t].email = request[t].email
    BY <2>1, OtherRows
  <2> QED
    BY <2>1, Apart DEF Next
<1>2. accepted' = accepted => Confirmed' = Confirmed
  BY <1>1 DEF Confirmed, IInv, TypeOK
<1>3. \A e \in Event : emitted'[e] = emitted[e] => About(e)' = About(e)
  <2>1. \A e \in Event : emitted[e] # None /\ emitted[e].message # None => emitted[e].message \in Submit
    BY DEF IInv, TypeOK, Emission
  <2> QED
    BY <1>1, <2>1 DEF About
<1> QED
  BY <1>1, <1>2, <1>3

\* A step that leaves the table, what was sent and what was said is none of Mailing.
LEMMA NotMailed ==
    ASSUME IInv, Next, row' = row, accepted' = accepted, emitted' = emitted, applied' = applied
    PROVE  UNCHANGED List!vars
<1>1. Rows' = Rows /\ Shown' = Shown
  BY DEF Rows, Shown
<1>2. Confirmed' = Confirmed /\ Subjects' = Subjects
  BY AddressesStay DEF Subjects
<1> QED
  BY <1>1, <1>2 DEF List!vars, Shown, Confirmed, Subjects

\* The insert lists an address, or finds it listed.
LEMMA InsertJoins ==
    ASSUME IInv, Next, NEW s \in Submit, Insert(s) PROVE [List!Next]_(List!vars)
<1> DEFINE m == request[s].email
<1>1. m \in Email /\ (row' = row \/ row' = WithRow(m))
  BY DEF Insert, IInv, TypeOK
<1>2. accepted' = accepted /\ emitted' = emitted /\ applied' = applied
  BY DEF Insert, resend
<1>3. CASE row' = row
  BY <1>2, <1>3, NotMailed
<1>4. CASE row' # row
  <2>1. row[m] = None
    BY <1>1, <1>4 DEF WithRow
  <2>2. Rows' = Rows \cup {m} /\ m \notin Rows
    BY <1>1, <1>4, <2>1 DEF Rows, WithRow, IInv, TypeOK
  <2>3. Shown' = Shown
    <3>1. \A n \in Email : /\ row[n] # None => row'[n] = row[n]
                           /\ row[n] = None /\ row'[n] # None => row'[n].event = None
      BY <1>1, <1>4, WithRowFacts DEF IInv
    <3>2. \A n \in Email : (IF row'[n] = None THEN None ELSE row'[n].event)
                             = (IF row[n] = None THEN None ELSE row[n].event)
      BY <3>1
    <3> QED
      BY <3>2 DEF Shown
  <2>4. Confirmed' = Confirmed /\ Subjects' = Subjects
    BY <1>2, AddressesStay DEF Subjects
  <2>5. List!Join(m)
    BY <1>2, <2>2, <2>3, <2>4 DEF List!Join, Shown, Confirmed, Subjects
  <2> QED
    BY <1>1, <2>5 DEF List!Next
<1> QED
  BY <1>3, <1>4

\* What is sent goes to an address that is listed and was sent nothing before.
LEMMA SendConfirms ==
    ASSUME IInv, Next, NEW s \in Submit, Send(s) PROVE [List!Next]_(List!vars)
<1>0. PICK m \in Email : m = request[s].email
  BY DEF IInv, TypeOK
<1>1. row' = row /\ emitted' = emitted /\ applied' = applied
  BY DEF Send, tables
<1>2. CASE accepted' = accepted
  BY <1>1, <1>2, NotMailed
<1>3. CASE accepted' # accepted
  <2>1. accepted' = accepted \cup {s} /\ s \notin accepted
    BY <1>3 DEF Send
  <2>2. request[s].new /\ m \in Rows
    BY <1>0 DEF Send, IInv, SendersOK, TypeOK, Rows
  <2>3. m \notin Confirmed
    BY <1>0, <2>1, <2>2 DEF Confirmed, IInv, SendersOK, TypeOK
  <2>4. Confirmed' = Confirmed \cup {m}
    <3>1. \A t \in Submit : request'[t].email = request[t].email
      BY AddressesStay
    <3>2. accepted \subseteq Submit
      BY DEF IInv, TypeOK
    <3> QED
      BY <1>0, <2>1, <3>1, <3>2 DEF Confirmed
  <2>5. Rows' = Rows /\ Shown' = Shown /\ Subjects' = Subjects
    BY <1>1, AddressesStay DEF Rows, Shown, Subjects
  <2>6. List!Confirm(m)
    BY <1>1, <2>2, <2>3, <2>4, <2>5 DEF List!Confirm, Shown, Confirmed, Subjects
  <2> QED
    BY <2>6 DEF List!Next
<1> QED
  BY <1>2, <1>3

\* A row that learns its message shows what it showed.
LEMMA IdIsNotMailed ==
    ASSUME IInv, Next, NEW s \in Submit, RecordMessageId(s) PROVE UNCHANGED List!vars
<1>1. accepted' = accepted /\ emitted' = emitted /\ applied' = applied
  BY DEF RecordMessageId, resend
<1>2. CASE row' = row
  BY <1>1, <1>2, NotMailed
<1>3. CASE row' = [row EXCEPT ![request[s].email].id = s]
  <2>1. request[s].email \in Email /\ row[request[s].email] \in Row /\ row \in [Email -> Row \cup {None}]
    BY DEF RecordMessageId, IInv, SendersOK, TypeOK
  <2>2. [row[request[s].email] EXCEPT !.id = s] \in Row
        /\ [row[request[s].email] EXCEPT !.id = s].event = row[request[s].email].event
    BY <2>1 DEF Row
  <2>3. \A n \in Email : /\ row'[n] = None <=> row[n] = None
                         /\ row[n] # None => row'[n].event = row[n].event
    BY <1>3, <2>1, <2>2
  <2>4. Rows' = Rows /\ Shown' = Shown
    <3>1. \A n \in Email : (IF row'[n] = None THEN None ELSE row'[n].event)
                             = (IF row[n] = None THEN None ELSE row[n].event)
      BY <2>3
    <3> QED
      BY <2>3, <3>1 DEF Rows, Shown
  <2>5. Confirmed' = Confirmed /\ Subjects' = Subjects
    BY <1>1, AddressesStay DEF Subjects
  <2> QED
    BY <1>1, <2>4, <2>5 DEF List!vars, Shown, Confirmed, Subjects
<1> QED
  BY <1>2, <1>3 DEF RecordMessageId

\* What Resend has to say is about a message it took from here, or about none of ours.
LEMMA EmitMakes ==
    ASSUME IInv, Next, NEW e \in Event, Emit(e) PROVE [List!Next]_(List!vars)
<1>1. row' = row /\ accepted' = accepted /\ applied' = applied /\ request' = request
  BY DEF Emit, tables
<1>2. PICK s \in accepted \cup {None} : emitted'[e].message = s /\ emitted'[e] # None
  <2>1. PICK x \in Subscribed, s \in accepted \cup {None} :
           emitted' = [emitted EXCEPT ![e] = [type |-> x, message |-> s,
              known |-> s # None /\ \E m \in Email : row[m] # None /\ row[m].id = s]]
    BY DEF Emit
  <2>2. [type |-> x, message |-> s,
         known |-> s # None /\ \E m \in Email : row[m] # None /\ row[m].id = s] \in Emission
    <3>1. (s # None /\ \E m \in Email : row[m] # None /\ row[m].id = s) \in BOOLEAN
      OBVIOUS
    <3>2. s \in Submit \cup {None}
      BY DEF IInv, TypeOK
    <3> QED
      BY <3>1, <3>2 DEF Emission
  <2>3. emitted \in [Event -> Emission \cup {None}]
    BY DEF IInv, TypeOK
  <2>4. emitted'[e] = [type |-> x, message |-> s,
                       known |-> s # None /\ \E m \in Email : row[m] # None /\ row[m].id = s]
    BY <2>1, <2>3
  <2> QED
    BY <2>2, <2>4
<1>3. /\ emitted[e] = None /\ \A f \in Event \ {e} : emitted'[f] = emitted[f]
      /\ About(e) = {} /\ \A f \in Event \ {e} : About(f)' = About(f)
  <2>1. emitted[e] = None /\ \A f \in Event \ {e} : emitted'[f] = emitted[f]
    BY DEF Emit, IInv, TypeOK
  <2> QED
    BY <2>1, AddressesStay DEF About
<1>4. Rows' = Rows /\ Shown' = Shown /\ Confirmed' = Confirmed
  BY <1>1, AddressesStay DEF Rows, Shown
<1>5. CASE s = None
  <2>1. About(e)' = {}
    BY <1>2, <1>5 DEF About
  <2>2. Subjects' = Subjects
    BY <1>3, <2>1 DEF Subjects
  <2> QED
    BY <1>1, <1>4, <2>2 DEF List!vars, Shown, Confirmed, Subjects
<1>6. CASE s # None
  <2>1. s \in accepted /\ About(e)' = {request[s].email} /\ request[s].email \in Confirmed
    BY <1>1, <1>2, <1>6 DEF About, Confirmed
  <2>2. Subjects' = [Subjects EXCEPT ![e] = {request[s].email}]
    BY <1>3, <2>1 DEF Subjects
  <2>3. List!Make(e)
    BY <1>1, <1>3, <1>4, <2>1, <2>2 DEF List!Make, Shown, Confirmed, Subjects
  <2> QED
    BY <2>3 DEF List!Next
<1> QED
  BY <1>5, <1>6

\* An event is written to the one row that knows its message, or to none, and not
\* again.
LEMMA RecordTakes ==
    ASSUME IInv, TakenOK, Next, NEW h \in Handler, RecordDelivery(h)
    PROVE  [List!Next]_(List!vars)
<1>0. PICK e \in Event : e = hook[h].event
  BY DEF RecordDelivery, IInv, HookOK
<1>1. emitted' = emitted /\ accepted' = accepted /\ request' = request
  BY DEF RecordDelivery
<1>2. emitted[e] # None /\ Tracked(emitted[e].type) /\ e \notin applied
  BY <1>0 DEF RecordDelivery, IInv, HookOK, TakenOK
<1>3. CASE row' = row /\ applied' = applied
  BY <1>1, <1>3, NotMailed
<1>4. CASE /\ row' = Stamped(e) /\ applied' = WithApplied(e)
         /\ \A m \in Email : ~Names(row[m], emitted[e].message)
  <2>1. row' = row
    <3>1. row' \in [Email -> Row \cup {None}] /\ row \in [Email -> Row \cup {None}]
      BY <1>2, <1>4, StampedFacts DEF IInv, TypeOK
    <3>2. \A m \in Email : row'[m] = row[m]
      BY <1>2, <1>4, StampedFacts DEF IInv
    <3> QED
      BY <3>1, <3>2
  <2> QED
    BY <1>1, <1>4, <2>1, NotMailed DEF WithApplied
<1>5. CASE /\ row' = Stamped(e) /\ applied' = WithApplied(e)
         /\ \E m \in Email : Names(row[m], emitted[e].message)
  <2>1. Confirmed' = Confirmed /\ Subjects' = Subjects
    BY <1>1, AddressesStay DEF Subjects
  <2>2. Rows' = Rows
    BY <1>2, <1>5, StampedFacts DEF Rows, IInv
  <2>3. ASSUME NEW m \in Email, Names(row[m], emitted[e].message)
        PROVE  /\ m \in About(e)
               /\ Shown' = [Shown EXCEPT ![m] = e]
    <3>1. /\ row[m] # None /\ row[m].id = emitted[e].message /\ row[m].id # None
          /\ Stamped(e)[m].event = e
      BY <1>2, <2>3, StampedFacts DEF IInv
    <3>2. request[emitted[e].message].email = m
      BY <3>1 DEF IInv, NamesOK
    <3>3. \A n \in Email : Names(row[n], emitted[e].message) => n = m
      BY <3>2 DEF IInv, NamesOK, Names
    <3>4. \A n \in Email \ {m} : row'[n] = row[n]
      BY <1>2, <1>5, <3>3, StampedFacts DEF IInv
    <3>5. row'[m] # None /\ row'[m].event = e
      BY <1>2, <1>5, <3>1, StampedFacts DEF IInv
    <3>6. Shown' = [Shown EXCEPT ![m] = e]
      BY <3>4, <3>5 DEF Shown
    <3> QED
      BY <1>2, <3>1, <3>2, <3>6 DEF About
  <2>4. \E m \in Subjects[e] : Shown' = [Shown EXCEPT ![m] = e]
    BY <1>5, <2>3 DEF Subjects
  <2>5. applied' = applied \cup {e}
    BY <1>5 DEF WithApplied
  <2>6. List!Take(e)
    BY <1>2, <2>1, <2>2, <2>4, <2>5 DEF List!Take, Shown, Confirmed, Subjects
  <2> QED
    BY <2>6 DEF List!Next
<1> QED
  BY <1>0, <1>3, <1>4, <1>5 DEF RecordDelivery

\* One confirmation per address and after its row, no row ever goes, and an event has
\* its effect once, on the row of its own message: the tables of waitlist.ts and
\* resend-webhook.ts are a list that Mailing describes.
THEOREM MailingImplemented == Spec => ImplementsMailing
<1>1. Init => List!Init
  <2> SUFFICES ASSUME Init PROVE List!Init
    OBVIOUS
  <2>1. Rows = {} /\ Confirmed = {} /\ applied = {}
    BY DEF Init, Rows, Confirmed
  <2>2. Subjects = [e \in Event |-> {}] /\ Shown = [m \in Email |-> None]
    BY DEF Init, Subjects, About, Shown
  <2> QED
    BY <2>1, <2>2 DEF List!Init, Shown, Confirmed, Subjects
<1>2. ASSUME IInv, TakenOK, [Next]_vars PROVE [List!Next]_(List!vars)
  <2>1. CASE UNCHANGED vars
    <3>1. Rows' = Rows /\ Confirmed' = Confirmed /\ Subjects' = Subjects /\ Shown' = Shown
      BY <2>1 DEF vars, tables, resend, Rows, Confirmed, Subjects, About, Shown
    <3> QED
      BY <2>1, <3>1 DEF vars, List!vars, Shown, Confirmed, Subjects
  <2>2. ASSUME NEW s \in Submit, RequestStep(s) \/ RequestKilled(s) PROVE [List!Next]_(List!vars)
    <3>0. Next
      BY <2>2 DEF Next
    <3>1. CASE Insert(s)
      BY <1>2, <3>0, <3>1, InsertJoins
    <3>2. CASE Send(s)
      BY <1>2, <3>0, <3>2, SendConfirms
    <3>3. CASE RecordMessageId(s)
      BY <1>2, <3>0, <3>3, IdIsNotMailed
    <3>4. CASE CountSignup(s) \/ CountSend(s) \/ RequestKilled(s)
      <4>1. row' = row /\ accepted' = accepted /\ emitted' = emitted /\ applied' = applied
        BY <3>4 DEF CountSignup, CountSend, RequestKilled, tables, resend
      <4> QED
        BY <1>2, <3>0, <4>1, NotMailed
    <3> QED
      BY <2>2, <3>1, <3>2, <3>3, <3>4 DEF RequestStep
  <2>3. ASSUME NEW e \in Event, Emit(e) PROVE [List!Next]_(List!vars)
    <3>1. Next
      BY <2>3 DEF Next
    <3> QED
      BY <1>2, <2>3, <3>1, EmitMakes
  <2>4. ASSUME NEW e \in Event, NEW h \in Handler, Deliver(h, e) PROVE [List!Next]_(List!vars)
    <3>1. Next /\ row' = row /\ accepted' = accepted /\ emitted' = emitted /\ applied' = applied
      BY <2>4 DEF Next, Deliver, tables, resend
    <3> QED
      BY <1>2, <3>1, NotMailed
  <2>5. ASSUME NEW h \in Handler, HandlerStep(h) \/ HandlerKilled(h) PROVE [List!Next]_(List!vars)
    <3>0. Next
      BY <2>5 DEF Next
    <3>1. CASE RecordDelivery(h)
      BY <1>2, <3>0, <3>1, RecordTakes
    <3>2. CASE MarkProcessed(h) \/ CountDelivery(h) \/ HandlerKilled(h)
      <4>1. row' = row /\ accepted' = accepted /\ emitted' = emitted /\ applied' = applied
        BY <3>2 DEF MarkProcessed, CountDelivery, HandlerKilled, tables, resend
      <4> QED
        BY <1>2, <3>0, <4>1, NotMailed
    <3> QED
      BY <2>5, <3>1, <3>2 DEF HandlerStep
  <2> QED
    BY <1>2, <2>1, <2>2, <2>3, <2>4, <2>5 DEF Next
<1> QED
  BY <1>1, <1>2, Invariant, AllTaken, PTL DEF Spec, ImplementsMailing, List!Spec
=============================================================================
