-------------------------------- MODULE Pages ---------------------------------
(***************************************************************************)
(* What the watchdog promises the reader of its pages: a page is raised    *)
(* once for as long as its marker lives, and no page that was written down *)
(* goes from the file in silence.  It is resolved, once, and then is not   *)
(* written down again, or it is counted as missed.  Losing what a tick     *)
(* knew forgets only the telling, never the page.  AlertLifecycle          *)
(* implements this.                                                        *)
(***************************************************************************)
EXTENDS Naturals, FiniteSets

CONSTANT Page       \* a subject and the key of its page

VARIABLES written,  \* pages the file holds
          open,     \* pages the reader has and was not told the end of
          known,    \* pages that are not raised again
          resolved, \* pages whose end was told since the file was written
          missed    \* how many ends could not be told since then

vars == <<written, open, known, resolved, missed>>

Init == written = {} /\ open = {} /\ known = {} /\ resolved = {} /\ missed = 0

OnePerSubject(pages) == \A p, q \in pages : p[1] = q[1] => p = q

Raise(p) ==
    /\ p \notin known
    /\ known' = known \cup {p} /\ open' = open \cup {p}
    /\ UNCHANGED <<written, resolved, missed>>

Lapse(p) ==
    /\ p \in known
    /\ known' = known \ {p}
    /\ UNCHANGED <<written, open, resolved, missed>>

Resolve(p) ==
    /\ p \in written \ resolved
    /\ resolved' = resolved \cup {p} /\ open' = open \ {p}
    /\ UNCHANGED <<written, known, missed>>

\* The end of one page could not be told.
Miss ==
    /\ Cardinality(resolved) + missed < Cardinality(written)
    /\ missed' = missed + 1
    /\ UNCHANGED <<written, open, known, resolved>>

\* The file is written anew: what it held and holds no more was resolved, or is
\* counted.
Record ==
    /\ OnePerSubject(written')
    /\ resolved \subseteq written \ written'
    /\ Cardinality((written \ written') \ resolved) = missed
    /\ resolved' = {} /\ missed' = 0
    /\ UNCHANGED <<open, known>>

\* The file stays as it is and the next tick begins anew.
Restart ==
    /\ resolved' = {} /\ missed' = 0
    /\ UNCHANGED <<written, open, known>>

Next == (\E p \in Page : Raise(p) \/ Lapse(p) \/ Resolve(p)) \/ Miss \/ Record \/ Restart

Spec == Init /\ [][Next]_vars
=============================================================================
