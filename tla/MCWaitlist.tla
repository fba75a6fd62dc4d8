------------------------------ MODULE MCWaitlist ------------------------------
(* Instances of Waitlist for TLC: two requests, which may come from one      *)
(* address or from two, and two events.                                      *)
EXTENDS Waitlist, TLC

CONSTANTS s1, s2, ann, bob, e1, e2, h1, h2

TwoRequests == {s1, s2}
TwoAddresses == {ann, bob}
TwoEvents == {e1, e2}
TwoHandlers == {h1, h2}
SomeTypes == {"delivered", "complained", "opened"}

\* Nothing but their names tells requests apart, or addresses, events or Workers, and
\* no property names one.
Renamings ==
    Permutations(TwoRequests) \cup Permutations(TwoAddresses)
        \cup Permutations(TwoEvents) \cup Permutations(TwoHandlers)
=============================================================================
