---------------------------- MODULE DashboardBox ----------------------------
(***************************************************************************)
(* The box: the deploy workflow, boot-pull, the daily substrate check, an  *)
(* operator and reboots, all on one dashboard checkout, and what their     *)
(* interleavings must preserve.                                            *)
(***************************************************************************)
EXTENDS DeployOnMerge, BootPull

vars == <<git, box, budget, deploy, bootpull>>

Init == SharedInit /\ DeployInit /\ BootPullInit

\* A push to one of the other checkouts' main.
MergeElsewhere(r) ==
    /\ r # Dash
    /\ origin[r] < MaxSha
    /\ Spend("merge")
    /\ origin' = [origin EXCEPT ![r] = @ + 1]
    /\ UNCHANGED <<fetched, head, dirty, lock, mover, box>>

\* reboot_if_needed.sh: after an alert and ten seconds of grace the box goes
\* down under whatever is running on it; flocks and processes are gone, the
\* disk is not, and the services come back from the tree.
Reboot ==
    /\ Spend("reboot")
    /\ lock' = [r \in Repo |-> "free"]
    /\ pc' = [s \in Slot |-> IF pc[s] = "idle" THEN "idle" ELSE "failed"]
    /\ Exit("failed")
    /\ running' = Started
    /\ UNCHANGED <<origin, fetched, head, dirty, mover, installed, stamp,
                   pending, runner, target, current, aside, stranded, lastGood, observed>>

DeployNext == (Workflow \/ \E s \in Slot : Command(s)) /\ UNCHANGED bootpull
BootPullNext == BootPullStep /\ UNCHANGED deploy
OtherNext ==
    /\ \/ DailyFetch \/ DailyMerge
       \/ \E r \in Repo : HandEdit(r) \/ MergeElsewhere(r)
    /\ UNCHANGED <<deploy, bootpull>>

Next == DeployNext \/ BootPullNext \/ OtherNext \/ Reboot

Spec == Init /\ [][Next]_vars

\* A command, a boot-pull run or a pull that has started keeps going, and a
\* waiting workflow run is sent when the group is free.  Nothing is assumed
\* about merges, timers, operators, reboots or failures.
FairSpec ==
    /\ Spec
    /\ \A s \in Slot :
          WF_vars((SendCommand(s) \/ Command(s) \/ CommandEnds(s)) /\ UNCHANGED bootpull)
    /\ WF_vars(BootPullStep /\ bpc \notin Resting /\ UNCHANGED deploy)
    /\ WF_vars(DailyMerge /\ UNCHANGED <<deploy, bootpull>>)

TypeOK == SharedTypeOK /\ DeployTypeOK /\ BootPullTypeOK

-----------------------------------------------------------------------------
(* Safety *)

\* boot-pull.service is only ever installed naming a launcher that is installed
\* and executable, whoever installs it and whatever fails on the way: otherwise
\* every later run, the repair included, fails 203/EXEC.
LauncherBeforeUnit ==
    installed["bpunit"] \in NamesLauncher => installed["launcher"] # None

\* No checkout is ever ahead of its remote-tracking ref, nor that of GitHub: the
\* fast-forward merges always apply and the pinned sha is always a fetched one.
HeadWithinMain ==
    \A r \in Repo : head[r] <= fetched[r] /\ fetched[r] <= origin[r]

\* While a fetch-and-merge holds a checkout's lock nobody else moves its HEAD or
\* its remote-tracking refs; HEAD moves in the step that gives the lock up.
LockedCheckoutStill ==
    [][\A r \in Repo : lock[r] # "free" =>
          /\ fetched'[r] = fetched[r]
          /\ head'[r] # head[r] => lock'[r] = "free"]_vars

\* When a deploy of s ends green and nobody else moved HEAD since its reset, it
\* has left artifact a as its own commit has it.
Converged(a) ==
    \A s \in Slot :
        pc[s] = "ok" /\ mover = s => installed[a] = Content[target[s]][a]

\* ... which holds for everything gated on comparing the installed copy, however
\* many deploys before it were lost, failed halfway, overlapped or reverted.
CmpGatesConverge ==
    \A a \in {"nginx", "sysd", "launcher", "bpunit", "unit"} : Converged(a)

\* ... but not for dash-web, whose gate compares one commit range instead.
WebBuildConverges == Converged("web")

\* The last-good stamp names a tree whose services were observed healthy, when
\* nobody moved HEAD under the deploy that wrote it.
UndisturbedStampObserved ==
    [][\A s \in Slot :
          pc[s] = "record" /\ pc'[s] = "ok" /\ mover = s /\ lastGood' # lastGood
             => lastGood' \in observed]_vars

\* When boot-pull moved Dash, saw it move and ended clean, the venv has the
\* requirements it pulled, or they are the ones it started from.  (A deploy that
\* rebuilds the venv has it away for minutes, and may put the old one back.)
PulledRequirementsInstalled ==
    [][bpc' = "clean" /\ bpc # "clean" /\ pulled[Dash] # None /\ mover = "bootpull"
             /\ (\A s \in Slot : aside[s] = NoVenv) =>
          \/ installed["req"] = Tree("req")
          \/ Content[pulled[Dash]]["req"] = Tree("req")]_vars

\* A rebuild of the venv that ends, in success or rolled back after a failure at any
\* step, leaves one that the services can start on, whatever boot-pull, the daily pull
\* and other deploys did to tree and packages meanwhile: the new one, or the old one
\* if that was whole.  (Not when the box goes down, nor once an old one could not be
\* put back.)
RebuildLeavesVenv ==
    [][\A s \in Slot :
          pc[s] \in Rebuild /\ budget'["reboot"] = budget["reboot"] /\ ~stranded'
             => /\ pc'[s] = "drift" => VenvWhole'
                /\ pc'[s] = "failed" /\ aside[s].req # None => VenvWhole']_vars

\* A boot-pull run that ends clean has brought every checkout to main as it was
\* when the run started: no pull failed, was skipped or timed out unreported.
\* (A deploy may meanwhile have pinned Dash to an older sha.)
CleanRunCaughtUp ==
    [][bpc' = "clean" /\ bpc # "clean" =>
          \A r \in Repo : head[r] >= mainAtStart[r] \/ (r = Dash /\ mover \in Slot)]_vars

-----------------------------------------------------------------------------
(* Liveness *)

\* Section 1 finds the tree's requirements stamped, section 1b the packages of others:
\* boot-pull's pip wrote no stamp.  Every deploy is refused until requirements.txt
\* changes again.
Refused == Interpreter /\ ~StampStale("req") /\ ~Satisfied

\* Without failures the newest merge ends up in the tree, although the workflow drops
\* the runs that were still waiting behind it, and in the services, unless the packages
\* are those of another commit for good.
MainReachesBox ==
    <>[](head[Dash] = origin[Dash] /\ (running = origin[Dash] \/ Refused))

\* Every command that reaches the box ends, reverting or not.
CommandsEnd == \A s \in Slot : pc[s] = "fetch" ~> pc[s] = "idle"

=============================================================================
