---------------------------- MODULE DeployOnMerge ----------------------------
(***************************************************************************)
(* .github/workflows/deploy.yml and infrastructure/deploy-on-merge.sh: a   *)
(* merge queues a workflow run, the run sends one SSM command to the box,  *)
(* the command resets Dash to the pinned sha under the lock and then runs  *)
(* the script WITHOUT it.  The workflow stops waiting after nine minutes   *)
(* and the command does not stop with it, so two commands can overlap.     *)
(*                                                                         *)
(* One action per section of the script.  A section reads the working tree *)
(* as it is when the section runs (Tree), not as the reset left it.  Every *)
(* section may fail, which exits the script where it stands (Abort).       *)
(* Section 0 rebuilds .venv in place when its interpreter is not that of   *)
(* .python-version: one action per step from which it can roll back.       *)
(***************************************************************************)
EXTENDS Checkout

VARIABLES
    pending,    \* sha of the workflow run waiting in group deploy-main
    runner,     \* slot the running workflow run waits for
    pc,         \* [Slot -> section]
    target,     \* [Slot -> Sha or None]  GITHUB_SHA
    current,    \* [Slot -> Sha or None]  CURRENT_SHA
    aside,      \* [Slot -> Venv]  the last .venv-prev-* of its commands, kept until
                \* it is put back or pruned; NoVenv when they made none
    stranded,   \* history: a rollback could not put the old venv back
    lastGood,   \* /var/lib/dashboard-deploy/last-good-sha, None when absent
    observed    \* history: trees whose services passed all health probes

deploy == <<pending, runner, pc, target, current, aside, stranded, lastGood, observed>>

Venv == [py : Rev \cup {None}, req : Rev \cup {None}, kept : BOOLEAN]
NoVenv == [py |-> None, req |-> None, kept |-> FALSE]

NoRunner == "none"
EndedWithoutFailed == {"ok", "reverted"}
Ended == {"ok", "failed", "reverted"}
Rebuild == {"create", "install", "restart", "probe", "rollback"}
Section == {"idle", "fetch", "reset", "resolve", "venv", "req", "drift", "nginx", "sysd", "bootpull",
            "limits", "app", "web", "health", "record", "revert", "reprovision"} \cup Rebuild \cup Ended

DeployTypeOK ==
    /\ pending \in Sha \cup {None}
    /\ runner \in Slot \cup {NoRunner}
    /\ pc \in [Slot -> Section]
    /\ target \in [Slot -> Sha \cup {None}]
    /\ current \in [Slot -> Sha \cup {None}]
    /\ aside \in [Slot -> Venv]
    /\ stranded \in BOOLEAN
    /\ lastGood \in Sha \cup {None}
    /\ observed \subseteq Sha

DeployInit ==
    /\ pending = None
    /\ runner = NoRunner
    /\ pc = [s \in Slot |-> "idle"]
    /\ target = [s \in Slot |-> None]
    /\ current = [s \in Slot |-> None]
    /\ aside = [s \in Slot |-> NoVenv]
    /\ stranded = FALSE
    /\ lastGood = None
    /\ observed = {}

Goto(s, section) == pc' = [pc EXCEPT ![s] = section]

\* fail(): log and exit 1.  Nothing is undone and HEAD stays where it is.
Abort(s) == Spend("fault") /\ Goto(s, "failed")

\* A step of slot s that only moves its pc, the shared box and the budget.
Local == UNCHANGED <<pending, runner, target, current, aside, stranded, lastGood, observed>>

-----------------------------------------------------------------------------
\* The workflow.  A push queues a run; the group keeps one pending run, the
\* newest, and never cancels the running one.
QueueKeepsOldest(sha) == pending' = IF pending = None THEN sha ELSE pending
Queue(sha) == pending' = sha

Merge ==
    /\ origin[Dash] < MaxSha
    /\ Spend("merge")
    /\ origin' = [origin EXCEPT ![Dash] = @ + 1]
    /\ Queue(origin[Dash] + 1)
    /\ UNCHANGED <<fetched, head, dirty, lock, mover, box, runner, pc, target,
                   current, aside, stranded, lastGood, observed>>

\* workflow_dispatch on main, or a re-run of the run of an earlier sha.
Dispatch(sha) ==
    /\ sha <= origin[Dash]
    /\ Spend("dispatch")
    /\ Queue(sha)
    /\ UNCHANGED <<git, box, runner, pc, target, current, aside, stranded, lastGood, observed>>

\* aws ssm send-command reaches the box and starts on a free slot ...
SendCommand(s) ==
    /\ runner = NoRunner /\ pending # None /\ pc[s] = "idle"
    /\ runner' = s
    /\ pending' = None
    /\ target' = [target EXCEPT ![s] = pending]
    /\ Goto(s, "fetch")
    /\ UNCHANGED <<git, box, budget, current, aside, stranded, lastGood, observed>>

\* ... or is lost before it executes (agent down, disk full).
DeliveryFailure ==
    /\ runner = NoRunner /\ pending # None
    /\ Spend("fault")
    /\ pending' = None
    /\ UNCHANGED <<git, box, runner, pc, target, current, aside, stranded, lastGood, observed>>

\* The wait budget runs out while the command is still executing.
StopWaiting(s) ==
    /\ runner = s /\ pc[s] \notin Ended
    /\ Spend("fault")
    /\ runner' = NoRunner
    /\ UNCHANGED <<git, box, pending, pc, target, current, aside, stranded, lastGood, observed>>

\* The command reaches a terminal status, polled by a runner still waiting.
CommandEnds(s) ==
    /\ pc[s] \in Ended
    /\ Goto(s, "idle")
    /\ runner' = IF runner = s THEN NoRunner ELSE runner
    /\ target' = [target EXCEPT ![s] = None]
    /\ current' = [current EXCEPT ![s] = None]
    /\ UNCHANGED <<git, box, budget, pending, aside, stranded, lastGood, observed>>

-----------------------------------------------------------------------------
\* The SSM command body: fetch (five tries, each waiting for the lock) ...
SsmFetch(s) ==
    /\ pc[s] = "fetch"
    /\ \/ /\ Free(Dash)
          /\ Fetch(Dash)
          /\ Goto(s, "reset")
          /\ UNCHANGED budget
       \/ Abort(s) /\ UNCHANGED fetched
    /\ Local
    /\ UNCHANGED <<origin, head, dirty, lock, mover, box>>

\* ... cat-file -e on the pinned sha, then reset --hard to it, not to
\* origin/main.  The wait for the lock can time out.
SsmReset(s) ==
    /\ pc[s] = "reset"
    /\ \/ /\ target[s] <= fetched[Dash]
          /\ Free(Dash)
          /\ ResetHard(Dash, target[s], s)
          /\ Goto(s, "resolve")
          /\ UNCHANGED budget
       \/ /\ ~Free(Dash)
          /\ Abort(s)
          /\ UNCHANGED <<head, dirty, mover>>
    /\ UNCHANGED <<origin, fetched, lock, box, pending, runner, target, current,
                   aside, stranded, lastGood, observed>>

\* CURRENT_SHA=$(git rev-parse HEAD), after the lock was released.
ResolveHead(s) ==
    /\ pc[s] = "resolve"
    /\ current' = [current EXCEPT ![s] = head[Dash]]
    /\ Goto(s, "venv")
    /\ UNCHANGED <<git, box, budget, pending, runner, target, aside, stranded, lastGood, observed>>

-----------------------------------------------------------------------------
\* Section 0: nothing to do without an interpreter, or when it is the declared one
\* and pip answers.  Otherwise dnf, stop the services, move .venv away; each may
\* fail, and what was stopped by then stays stopped.
PutAside(s) ==
    /\ aside' = [aside EXCEPT ![s] = [py |-> installed["py"], req |-> installed["req"],
                                       kept |-> TRUE]]
    /\ installed' = [installed EXCEPT !["py"] = None, !["req"] = None]

CheckVenv(s) ==
    /\ pc[s] = "venv"
    /\ \/ /\ ~Interpreter \/ ~Stale("py")
          /\ Goto(s, "req")
          /\ UNCHANGED <<installed, running, aside, budget>>
       \/ /\ Interpreter
          /\ IF Stale("py") THEN UNCHANGED budget ELSE Spend("fault")   \* pip is broken
          /\ PutAside(s)
          /\ running' = None
          /\ Goto(s, "create")
       \/ /\ Interpreter /\ Stale("py")
          /\ Abort(s)
          /\ running' \in {running, None}
          /\ UNCHANGED <<installed, aside>>
    /\ UNCHANGED <<git, stamp, pending, runner, target, current, stranded, lastGood, observed>>

\* A step of the rebuild that fails puts the old venv back.
OrGiveUp(s) == Abort(s)
OrRollBack(s) == Spend("fault") /\ Goto(s, "rollback")

\* python -m venv at the final path, and pip itself.
CreateVenv(s) ==
    /\ pc[s] = "create"
    /\ \/ installed' = Provide({"py"}) /\ Goto(s, "install") /\ UNCHANGED budget
       \/ OrRollBack(s) /\ UNCHANGED installed
    /\ Local
    /\ UNCHANGED <<git, stamp, running>>

InstallVenv(s) ==
    /\ pc[s] = "install"
    /\ \/ Interpreter /\ installed' = Provide({"req"}) /\ Goto(s, "restart") /\ UNCHANGED budget
       \/ ~Interpreter /\ Goto(s, "rollback") /\ UNCHANGED <<installed, budget>>
       \/ OrRollBack(s) /\ UNCHANGED installed
    /\ Local
    /\ UNCHANGED <<git, stamp, running>>

RestartOnVenv(s) ==
    /\ pc[s] = "restart"
    /\ \/ running' = Started /\ Goto(s, "probe") /\ UNCHANGED budget
       \/ OrRollBack(s) /\ UNCHANGED running
    /\ Local
    /\ UNCHANGED <<git, installed, stamp>>

\* The services answer on the new venv, and the stamp of section 1 is written (or
\* cannot be); the pip install of section 1 is skipped, 1b is not.
ProbeVenv(s) ==
    /\ pc[s] = "probe"
    /\ \/ /\ ~Unhealthy
          /\ \/ stamp' = [stamp EXCEPT !["req"] = Tree("req")] /\ Goto(s, "drift") /\ UNCHANGED budget
             \/ Abort(s) /\ UNCHANGED stamp
       \/ /\ IF Unhealthy THEN UNCHANGED budget ELSE Spend("fault")
          /\ Goto(s, "rollback")
          /\ UNCHANGED stamp
    /\ Local
    /\ UNCHANGED <<git, installed, running>>

\* _rollback_venv: rm -rf .venv, mv the old one back, restart; when mv fails, as it does
\* when another command pruned the old one, the box has no venv.  Either way the script
\* exits.
RollBackVenv(s) ==
    /\ pc[s] = "rollback"
    /\ \/ /\ aside[s].kept
          /\ installed' = [installed EXCEPT !["py"] = aside[s].py, !["req"] = aside[s].req]
          /\ aside' = [aside EXCEPT ![s].kept = FALSE]
          /\ running' = IF aside[s].req # None THEN head[Dash] ELSE None
          /\ UNCHANGED <<stranded, budget>>
       \/ /\ IF aside[s].kept THEN Spend("fault") ELSE UNCHANGED budget
          /\ installed' = [installed EXCEPT !["py"] = None, !["req"] = None]
          /\ stranded' = TRUE
          /\ UNCHANGED <<aside, running>>
    /\ Goto(s, "failed")
    /\ UNCHANGED <<git, stamp, pending, runner, target, current, lastGood, observed>>

\* Section 1: pip install when the stamp differs from requirements.txt, and the
\* stamp is written only after pip succeeded.  The disk guard and pip abort
\* before anything changed; copying the stamp may fail after pip succeeded.
Requirements(s) ==
    /\ pc[s] = "req"
    /\ \/ /\ ~Interpreter \/ ~StampStale("req")
          /\ Goto(s, "drift")
          /\ UNCHANGED <<installed, stamp, budget>>
       \/ /\ Interpreter /\ StampStale("req")
          /\ installed' = Provide({"req"})
          /\ \/ /\ stamp' = [stamp EXCEPT !["req"] = Tree("req")]
                /\ Goto(s, "drift")
                /\ UNCHANGED budget
             \/ Abort(s) /\ UNCHANGED stamp
       \/ /\ Interpreter /\ StampStale("req")
          /\ Abort(s)
          /\ UNCHANGED <<installed, stamp>>
    /\ Local
    /\ UNCHANGED <<git, running>>

\* Section 1b, on every deploy: packages that requirements.in does not admit, or a
\* check that cannot run, end the script.
CheckDrift(s) ==
    /\ pc[s] = "drift"
    /\ \/ /\ ~Interpreter \/ Satisfied
          /\ Goto(s, "nginx")
          /\ UNCHANGED budget
       \/ /\ Interpreter /\ ~Satisfied
          /\ Goto(s, "failed")
          /\ UNCHANGED budget
       \/ Interpreter /\ Abort(s)
    /\ Local
    /\ UNCHANGED <<git, box>>

\* An artifact gated on cmp against the installed copy: fresh, or installed, or
\* the section aborts before the copy or after it (nginx -t restores its .bak, when
\* there is one; a reload that fails restores nothing).
CmpSection(s, a, next) ==
    /\ \/ /\ installed' = Refresh(a)
          /\ Goto(s, next)
          /\ UNCHANGED budget
       \/ /\ Stale(a)
          /\ Abort(s)
          /\ installed' \in {installed, Refresh(a)}
    /\ Local
    /\ UNCHANGED <<git, stamp, running>>

Nginx(s) == pc[s] = "nginx" /\ CmpSection(s, "nginx", "sysd")

\* Section 2e: box-health's units (2b and 2c gate morning-signal's the same way).
SystemdUnits(s) == pc[s] = "sysd" /\ CmpSection(s, "sysd", "bootpull")

\* Section 2f, files mode: install-boot-pull.sh installs the launcher, checks
\* that it is executable, and only then copies boot-pull.service.
RouteBootPull(s) ==
    /\ pc[s] = "bootpull"
    /\ \/ /\ installed' = Provide({"launcher", "bpunit"})
          /\ Goto(s, "limits")
          /\ UNCHANGED budget
       \/ /\ Stale("launcher") \/ Stale("bpunit")
          /\ Abort(s)
          /\ installed' \in {installed, Provide({"launcher"})}
    /\ Local
    /\ UNCHANGED <<git, stamp, running>>

\* Section 2f, stamp mode: install-resource-limits.sh runs when the digest of
\* budget.yaml differs from the stamp; the stamp is written after success.
RouteLimits(s) ==
    /\ pc[s] = "limits"
    /\ \/ /\ ~StampStale("limits")
          /\ Goto(s, "app")
          /\ UNCHANGED <<installed, stamp, budget>>
       \/ /\ StampStale("limits")
          /\ installed' = Provide({"limits"})
          /\ stamp' = [stamp EXCEPT !["limits"] = Tree("limits")]
          /\ Goto(s, "app")
          /\ UNCHANGED budget
       \/ /\ StampStale("limits")
          /\ Abort(s)
          /\ UNCHANGED <<installed, stamp>>
    /\ Local
    /\ UNCHANGED <<git, running>>

\* Section 3: refresh the service units that differ, then restart the services
\* on the tree as it is now.  cp may abort before, systemctl after the copy.
AppServices(s) ==
    /\ pc[s] = "app"
    /\ \/ /\ installed' = Refresh("unit")
          /\ \/ /\ running' = Started
                /\ Goto(s, "web")
                /\ UNCHANGED budget
             \/ Abort(s) /\ running' \in {running, Started}
       \/ Abort(s) /\ UNCHANGED <<installed, running>>
    /\ Local
    /\ UNCHANGED <<git, stamp>>

\* Section 3d: npm ci + next build, gated on the COMMIT RANGE CURRENT_SHA~1 ..
\* CURRENT_SHA (a failing git diff counts as changed) or on .next missing.
\* What is built is the working tree.
WebChanged(sha) == IF sha = 1 THEN TRUE ELSE Content[sha - 1]["web"] # Content[sha]["web"]

DashWeb(s) ==
    /\ pc[s] = "web"
    /\ \/ /\ WebChanged(current[s]) \/ installed["web"] = None
          /\ installed' = Provide({"web"})
          /\ Goto(s, "health")
          /\ UNCHANGED budget
       \/ /\ ~(WebChanged(current[s]) \/ installed["web"] = None)
          /\ Goto(s, "health")
          /\ UNCHANGED <<installed, budget>>
       \/ Abort(s) /\ UNCHANGED installed  \* node parity guard, build, restart
    /\ Local
    /\ UNCHANGED <<git, stamp, running>>

-----------------------------------------------------------------------------
\* Section 4: every service answers its probe within 30s, or the run reverts.
HealthCheck(s) ==
    /\ pc[s] = "health"
    /\ \/ /\ ~Unhealthy
          /\ observed' = observed \cup {running}
          /\ Goto(s, "record")
          /\ UNCHANGED budget
       \/ /\ IF Unhealthy THEN UNCHANGED budget ELSE Spend("fault")
          /\ Goto(s, "revert")
          /\ UNCHANGED observed
    /\ UNCHANGED <<git, box, pending, runner, target, current, aside, stranded, lastGood>>

\* find -mtime +7: mv leaves a directory's mtime alone, so the age of a venv put aside
\* is the age of the venv; any of them may be old enough, also one just put aside.
Prune ==
    \E old \in SUBSET {t \in Slot : aside[t].kept} :
        aside' = [t \in Slot |-> [aside[t] EXCEPT !.kept = @ /\ t \notin old]]

\* The stamp advances to CURRENT_SHA, or a WARN says it could not be written; then the
\* old venvs are pruned.
GoodShaOfMain(s) == fetched[Dash]
GoodSha(s) == current[s]

RecordGood(s) ==
    /\ pc[s] = "record"
    /\ \/ lastGood' = GoodSha(s) /\ UNCHANGED budget
       \/ Spend("fault") /\ UNCHANGED lastGood
    /\ Prune
    /\ Goto(s, "ok")
    /\ UNCHANGED <<git, box, pending, runner, target, current, stranded, observed>>

\* revert_to_last_good: no usable stamp, or already at it: leave the box as it
\* is; otherwise reset --hard to the stamped sha under the lock.
RevertableAnyStamp(s) == lastGood # current[s]
Revertable(s) == lastGood \notin {None, current[s]}

RevertReset(s) ==
    /\ pc[s] = "revert"
    /\ \/ /\ ~Revertable(s)
          /\ Goto(s, "failed")
          /\ UNCHANGED <<head, dirty, mover, budget>>
       \/ /\ Revertable(s)
          /\ Free(Dash)
          /\ ResetHard(Dash, lastGood, s)
          /\ Goto(s, "reprovision")
          /\ UNCHANGED budget
       \/ /\ Revertable(s)
          /\ ~Free(Dash)
          /\ Abort(s)
          /\ UNCHANGED <<head, dirty, mover>>
    /\ Local
    /\ UNCHANGED <<origin, fetched, lock, box>>

\* Re-run install-resource-limits.sh and install-box-health.sh (each || true)
\* and restart the services, then alert.  No stamp is touched, and neither the
\* service units, the venv, nginx nor the dash-web build follow the tree back.
Reprovision(s) ==
    /\ pc[s] = "reprovision"
    /\ \/ /\ installed' = Provide({"limits", "sysd"})
          /\ UNCHANGED budget
       \/ /\ Spend("fault")
          /\ \E as \in {{}, {"limits"}, {"sysd"}} : installed' = Provide(as)
    /\ running' = Started
    /\ Goto(s, "reverted")
    /\ UNCHANGED <<git, stamp, pending, runner, target, current, aside, stranded, lastGood, observed>>

\* One step of the command on slot s.
Command(s) ==
    \/ SsmFetch(s) \/ SsmReset(s) \/ ResolveHead(s)
    \/ CheckVenv(s) \/ CreateVenv(s) \/ InstallVenv(s) \/ RestartOnVenv(s) \/ ProbeVenv(s)
    \/ RollBackVenv(s)
    \/ Requirements(s) \/ CheckDrift(s) \/ Nginx(s) \/ SystemdUnits(s) \/ RouteBootPull(s) \/ RouteLimits(s)
    \/ AppServices(s) \/ DashWeb(s)
    \/ HealthCheck(s) \/ RecordGood(s) \/ RevertReset(s) \/ Reprovision(s)

Workflow ==
    \/ Merge
    \/ \E sha \in Sha : Dispatch(sha)
    \/ DeliveryFailure
    \/ \E s \in Slot : SendCommand(s) \/ StopWaiting(s) \/ CommandEnds(s)

=============================================================================
