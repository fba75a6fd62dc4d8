------------------------------ MODULE Checkout ------------------------------
(***************************************************************************)
(* The state every on-box actor shares: the git checkouts of the box, the  *)
(* per-checkout lock of infrastructure/lib/git-sync-lock.sh, and the       *)
(* artifacts that live outside the git tree but are provisioned from it    *)
(* (virtualenv, nginx conf, systemd units, launcher, resource limits, the  *)
(* dash-web build).  DeployOnMerge and BootPull extend this module and     *)
(* DashboardBox composes them.                                             *)
(*                                                                         *)
(* main is linear, so a sha is its position on main and fast-forwarding    *)
(* means moving to a larger one.  What a commit holds is Content[sha], one *)
(* revision per artifact: a later commit may bring an EARLIER revision     *)
(* back (a git revert of one file), so equal revisions mean equal bytes.   *)
(***************************************************************************)
EXTENDS Integers, FiniteSets

CONSTANTS Repo,           \* managed checkouts of the box
          Dash,           \* the alpha-engine-dashboard checkout
          Slot,           \* SSM commands the box can be executing at once
          MaxSha,         \* bound: commits of main the model distinguishes
          Rev,            \* revisions an artifact can have
          Content,        \* [Sha -> [Artifact -> Rev]]
          Meets,          \* <<i, r>>: packages of i satisfy requirements.in of r
          NamesLauncher,  \* revisions of boot-pull.service whose ExecStart
                          \* is /usr/local/sbin/boot-pull-launcher.sh
          Bad,            \* shas whose services never pass a health probe
          Budget          \* bound: how often each environment event happens, the
                          \* choices a behaviour has

None == 0
Sha == 1 .. MaxSha

\* py: .python-version -> interpreter of .venv   req: requirements.txt -> its packages
\* nginx: nginx.conf -> conf.d
\* sysd: box-health's units in infrastructure/systemd   launcher, bpunit: boot-pull's own pair
\* limits: budget.yaml -> drop-ins     unit: the dashboard, live and api units
\* web: dash-web/ -> .next (its unit is gated on cmp like the others and left out)
Artifact == {"py", "req", "nginx", "sysd", "launcher", "bpunit", "limits", "unit", "web"}
Stamped == {"req", "limits"}

\* What happens around the scripts: merges, re-runs of the workflow, timer
\* firings, hand edits of a tracked file, reboots, and failing commands.
Event == {"merge", "dispatch", "bootpull", "daily", "edit", "reboot", "fault"}

ASSUME CheckoutAssumption ==
    /\ Dash \in Repo
    /\ Slot \cap {"init", "bootpull", "daily"} = {}
    /\ MaxSha \in Nat \ {0}
    /\ Rev \subseteq Nat \ {0}
    /\ Content \in [Sha -> [Artifact -> Rev]]
    /\ Meets \subseteq Rev \X Rev
    /\ NamesLauncher \subseteq Rev
    /\ Bad \subseteq Sha
    /\ Budget \subseteq [Event -> Nat]

\* requirements.txt is compiled from the requirements.in beside it (CI compares them).
ASSUME LockAssumption == \A r \in Rev : <<r, r>> \in Meets

\* The roster lists them.
ASSUME RosterAssumption == IsFiniteSet(Repo)

VARIABLES
    origin,     \* [Repo -> Sha]  main on GitHub
    fetched,    \* [Repo -> Sha]  refs/remotes/origin/main
    head,       \* [Repo -> Sha]  HEAD and working tree
    dirty,      \* [Repo -> BOOLEAN]  a tracked file holds a local edit
    lock,       \* [Repo -> holder]  git-sync flock ("free" when not held)
    installed,  \* [Artifact -> Rev or None]  what the box really has
    stamp,      \* [Stamped -> Rev or None]  what the stamp files claim
    running,    \* Sha or None  tree the long-running services were started
                \* from, None when they are stopped or crash-loop
    budget,     \* [Event -> Nat]  events left
    mover       \* history: who last reset or moved Dash's HEAD

git == <<origin, fetched, head, dirty, lock, mover>>
box == <<installed, stamp, running>>

SharedTypeOK ==
    /\ origin \in [Repo -> Sha]
    /\ fetched \in [Repo -> Sha]
    /\ head \in [Repo -> Sha]
    /\ dirty \in [Repo -> BOOLEAN]
    /\ lock \in [Repo -> {"free", "bootpull", "daily"}]
    /\ installed \in [Artifact -> Rev \cup {None}]
    /\ stamp \in [Stamped -> Rev \cup {None}]
    /\ running \in Sha \cup {None}
    /\ budget \in [Event -> Nat]
    /\ mover \in Slot \cup {"init", "bootpull", "daily"}

\* A box provisioned by hand at the first commit.  The launcher is only there
\* when that commit's boot-pull.service already uses it.
SharedInit ==
    /\ origin = [r \in Repo |-> 1]
    /\ fetched = [r \in Repo |-> 1]
    /\ head = [r \in Repo |-> 1]
    /\ dirty = [r \in Repo |-> FALSE]
    /\ lock = [r \in Repo |-> "free"]
    /\ installed = [Content[1] EXCEPT
                      !["launcher"] = IF Content[1]["bpunit"] \in NamesLauncher
                                      THEN @ ELSE None]
    /\ stamp = [a \in Stamped |-> Content[1][a]]
    /\ running = 1
    /\ budget \in Budget
    /\ mover = "init"

-----------------------------------------------------------------------------
\* Helpers of the actions below and in the extending modules.

Spend(e) == /\ budget[e] > 0
            /\ budget' = [budget EXCEPT ![e] = @ - 1]

Tree(a) == Content[head[Dash]][a]     \* artifact a as the working tree has it

Stale(a) == installed[a] # Tree(a)    \* file_state_stale: cmp -s SRC DST

\* .venv/bin/python can be executed; and the packages are there too, so that the
\* services start.
Interpreter == installed["py"] # None
VenvWhole == Interpreter /\ installed["req"] # None

\* check_package_drift: what the venv has of krepis and nousergon-lib is what
\* requirements.in asks for.
Satisfied == <<installed["req"], Tree("req")>> \in Meets

\* What the services run after a restart: the tree, or nothing at all.
Started == IF VenvWhole THEN head[Dash] ELSE None

\* They never answer a health probe.
Unhealthy == running \in Bad \cup {None}

\* What is installed after a section gated on Stale(a) ran without failing.
RefreshByRange(a) ==
    IF head[Dash] > 1 /\ Content[head[Dash] - 1][a] # Tree(a)
    THEN [installed EXCEPT ![a] = Tree(a)] ELSE installed
Refresh(a) == IF Stale(a) THEN [installed EXCEPT ![a] = Tree(a)] ELSE installed

\* The artifacts of as copied from the tree, whether they differ or not.
Provide(as) == [a \in Artifact |-> IF a \in as THEN Tree(a) ELSE installed[a]]

StampStale(a) == stamp[a] # Tree(a)   \* the stamp file compared instead

FreeIgnored(r) == TRUE
Free(r) == lock[r] = "free"

\* git merge --ff-only of the remote-tracking ref; without anything to merge it
\* leaves HEAD alone.
FastForwardToRemote(r, who) ==
    /\ head' = [head EXCEPT ![r] = origin[r]]
    /\ mover' = IF r = Dash /\ origin[r] # head[r] THEN who ELSE mover
FastForward(r, who) ==
    /\ head' = [head EXCEPT ![r] = fetched[r]]
    /\ mover' = IF r = Dash /\ fetched[r] # head[r] THEN who ELSE mover

\* git refuses it only when a local edit is in a file it would overwrite.
Overwrites(r) == dirty[r] /\ fetched[r] # head[r]

\* git reset --hard: HEAD moves and local edits of tracked files are gone.
ResetHard(r, sha, who) ==
    /\ head' = [head EXCEPT ![r] = sha]
    /\ mover' = IF r = Dash THEN who ELSE mover
    /\ dirty' = [dirty EXCEPT ![r] = FALSE]

\* git fetch origin, run with the checkout's lock held.
Fetch(r) == fetched' = [fetched EXCEPT ![r] = origin[r]]

-----------------------------------------------------------------------------
(***************************************************************************)
(* substrate_health_check_daily.sh pulls Dash once the pipeline's          *)
(* completion marker is there or its deadline has passed: git pull         *)
(* --ff-only under the lock, a fetch and then a merge.  set -e ends the    *)
(* script when either fails; it provisions and restarts nothing.           *)
(***************************************************************************)
DailyFetch ==
    /\ Free(Dash)
    /\ Spend("daily")
    /\ Fetch(Dash)
    /\ lock' = [lock EXCEPT ![Dash] = "daily"]
    /\ UNCHANGED <<origin, head, dirty, mover, box>>

DailyMerge ==
    /\ lock[Dash] = "daily"
    /\ \/ FastForward(Dash, "daily")
       \/ Overwrites(Dash) /\ UNCHANGED <<head, mover>>
    /\ lock' = [lock EXCEPT ![Dash] = "free"]
    /\ UNCHANGED <<origin, fetched, dirty, box, budget>>

\* An operator, or a script the box runs, edits a tracked file in place.
HandEdit(r) ==
    /\ ~dirty[r]
    /\ Spend("edit")
    /\ dirty' = [dirty EXCEPT ![r] = TRUE]
    /\ UNCHANGED <<origin, fetched, head, lock, mover, box>>

=============================================================================
