--------------------------- MODULE MCAlertLifecycle ---------------------------
(* Instances of AlertLifecycle for TLC: one timer, two criticals that share  *)
(* a key because only the first of them fits it, one warning.                *)
EXTENDS AlertLifecycle

CONSTANT timer, upstream, imports

Timers == {timer}
Drivers == {upstream, imports}
OneResult == {"exit-code"}
TwoCriticals == {1, 2}
OneWarning == {3}

NoEvents == [e \in Event |-> 0]

\* One timer, whatever happens to it; or the other findings, while it fails once.
UnitEvents == [NoEvents EXCEPT !["run"] = 3, !["kill"] = 1, !["lost"] = 1, !["vacuum"] = 1]
SetEvents == [NoEvents EXCEPT !["run"] = 1, !["kill"] = 1, !["lost"] = 2, !["change"] = 2,
                              !["expire"] = 1]
EachEvent == {UnitEvents, SetEvents}

OneVacuum == {[NoEvents EXCEPT !["run"] = 3, !["vacuum"] = 1]}
=============================================================================
