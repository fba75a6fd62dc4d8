------------------------------- MODULE LastGood -------------------------------
(***************************************************************************)
(* What dashboard/pipeline_status_cache.json promises its readers: the     *)
(* object is replaced as a whole, is never emptied, and every entry in it  *)
(* is something that was observed of that state machine.  PipelineStatus   *)
(* implements this.                                                        *)
(***************************************************************************)
CONSTANTS Machine,      \* state machines the object has room for
          Nothing       \* what a reader finds for a machine without an entry

VARIABLES store,        \* [Machine -> observation or Nothing]
          observed      \* [Machine -> set of observations]

vars == <<store, observed>>

Init ==
    /\ store = [m \in Machine |-> Nothing]
    /\ \A m \in Machine : Nothing \notin observed[m]

\* The machines are observed; what was observed once stays observed.
Observe ==
    /\ UNCHANGED store
    /\ \A m \in Machine : observed[m] \subseteq observed'[m] /\ Nothing \notin observed'[m]

\* A new object replaces the old one.
Replace ==
    /\ store' = [m \in Machine |-> store'[m]]
    /\ \A m \in Machine : store'[m] \in observed[m] \cup {Nothing}
    /\ \E m \in Machine : store'[m] # Nothing
    /\ UNCHANGED observed

Next == Observe \/ Replace

Spec == Init /\ [][Next]_vars

=============================================================================
