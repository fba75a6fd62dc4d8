------------------------------- MODULE Mailing --------------------------------
(***************************************************************************)
(* What the waitlist promises the people on it and those who read its      *)
(* table: an address that is listed stays listed, is sent at most one      *)
(* confirmation and only after it was listed, and shows the last report    *)
(* that was taken up of that one message; a report is taken up once at     *)
(* most, however often it is delivered, and then it is shown.  Waitlist    *)
(* implements this.                                                        *)
(***************************************************************************)
CONSTANTS Address,
          Report,       \* what the mail service has to say, one name each
          Nothing       \* what an address shows before any report

VARIABLES listed,       \* addresses on the list
          confirmed,    \* addresses a confirmation was sent to
          subject,      \* per report: whose message it is about, if it was made
          used,         \* reports that were taken up
          shown         \* per address: the report it shows

vars == <<listed, confirmed, subject, used, shown>>

Init ==
    /\ listed = {} /\ confirmed = {} /\ used = {}
    /\ subject = [r \in Report |-> {}]
    /\ shown = [a \in Address |-> Nothing]

Join(a) ==
    /\ a \notin listed
    /\ listed' = listed \cup {a}
    /\ UNCHANGED <<confirmed, subject, used, shown>>

Confirm(a) ==
    /\ a \in listed \ confirmed
    /\ confirmed' = confirmed \cup {a}
    /\ UNCHANGED <<listed, subject, used, shown>>

\* A report is made, about a message that was sent from here, or another one.
Make(r) ==
    /\ subject[r] = {}
    /\ \E a \in confirmed : subject' = [subject EXCEPT ![r] = {a}]
    /\ UNCHANGED <<listed, confirmed, used, shown>>

\* A report is taken up: the address its message was sent to shows it.
Take(r) ==
    /\ r \notin used
    /\ used' = used \cup {r}
    /\ \E a \in subject[r] : shown' = [shown EXCEPT ![a] = r]
    /\ UNCHANGED <<listed, confirmed, subject>>

Next ==
    \/ \E a \in Address : Join(a) \/ Confirm(a)
    \/ \E r \in Report : Make(r) \/ Take(r)

Spec == Init /\ [][Next]_vars

=============================================================================
