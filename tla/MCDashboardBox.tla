--------------------------- MODULE MCDashboardBox ---------------------------
(***************************************************************************)
(* Instances of DashboardBox for TLC.  Commit 2 changes everything that is *)
(* provisioned and moves boot-pull.service to the launcher; commit 3 is a  *)
(* code fix that takes requirements.txt back to its first revision.        *)
(***************************************************************************)
EXTENDS DashboardBox

MCContent ==
    [c \in 1 .. MaxSha |->
        [a \in {"py", "req", "nginx", "sysd", "launcher", "bpunit", "limits", "unit", "web"} |->
            CASE c = 1 -> 1
              [] a = "req" -> IF c = 2 THEN 2 ELSE 1
              [] a \in {"py", "nginx", "launcher"} -> 1
              [] OTHER -> 2]]

\* The same history where only requirements.txt and boot-pull.service change.
RacingContent ==
    [c \in 1 .. MaxSha |->
        [MCContent[1] EXCEPT !["py"] = IF c = 3 THEN 2 ELSE 1, !["req"] = MCContent[c]["req"],
                             !["bpunit"] = MCContent[c]["bpunit"]]]

\* Both revisions of requirements.txt pin another nousergon-lib.
Pins == {<<r, r>> : r \in Rev}

NoEvents == [e \in {"merge", "dispatch", "bootpull", "daily", "edit", "reboot", "fault"} |-> 0]

\* Two deploys that can overlap, re-runs of old workflow runs, failing sections.
OverlapBudget == {[NoEvents EXCEPT !["merge"] = 2, !["dispatch"] = 1, !["fault"] = 2]}

\* One deploy at a time against boot-pull, the daily pull, a reboot, and either an
\* operator's edit or a failing command.
RacingBudget ==
    {[NoEvents EXCEPT !["merge"] = 2, !["bootpull"] = 1, !["daily"] = 1, !["reboot"] = 1,
                      ![e] = 1] : e \in {"edit", "fault"}}

\* Everything that starts by itself, on two checkouts, and no failures.
CalmBudget == {[NoEvents EXCEPT !["merge"] = 3, !["bootpull"] = 1, !["daily"] = 1]}

=============================================================================
