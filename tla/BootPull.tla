------------------------------ MODULE BootPull ------------------------------
(***************************************************************************)
(* infrastructure/boot-pull-launcher.sh and infrastructure/boot-pull.sh:   *)
(* the hourly safety net.  One run fast-forwards every managed checkout    *)
(* under its lock, hydrates config, installs the launcher and the units    *)
(* that changed, restarts what it must, and rolls its own pulls back when  *)
(* a restarted service does not come up.  systemd runs at most one.        *)
(***************************************************************************)
EXTENDS Checkout

VARIABLES
    bpc,        \* where the run is
    todo,       \* checkouts of the roster not visited yet
    repo,       \* checkout being pulled
    attempts,   \* of sync_repo_to_main on repo
    prev,       \* PREV_SHA of repo
    pulled,     \* [Repo -> Sha or None]  PULLED_PREV of the repos this run moved
    failures,   \* PULL_FAILURES > 0
    config,     \* CONFIGS_CHANGED
    mainAtStart \* history: origin when the run started

bootpull == <<bpc, todo, repo, attempts, prev, pulled, failures, config, mainAtStart>>

MaxAttempts == 3
Resting == {"idle", "clean", "failed"}
BootPullPc == Resting \cup {"next", "sync", "merge", "new", "pip", "config", "launcher",
               "units", "gate", "revert", "resync"}

BootPullTypeOK ==
    /\ bpc \in BootPullPc
    /\ todo \subseteq Repo
    /\ repo \in Repo
    /\ attempts \in 1 .. MaxAttempts
    /\ prev \in Sha \cup {None}
    /\ pulled \in [Repo -> Sha \cup {None}]
    /\ failures \in BOOLEAN
    /\ config \in BOOLEAN
    /\ mainAtStart \in [Repo -> Sha]

BootPullInit ==
    /\ bpc = "idle"
    /\ todo = {}
    /\ repo = Dash
    /\ attempts = 1
    /\ prev = None
    /\ pulled = [r \in Repo |-> None]
    /\ failures = FALSE
    /\ config = FALSE
    /\ mainAtStart = [r \in Repo |-> 1]

\* The units of infrastructure/systemd that boot_pull_unit_installable lets the
\* sync copy: boot-pull.service only once the launcher it names can be executed.
AlwaysInstallable(u) == TRUE
Installable(u) ==
    u # "bpunit" \/ Tree(u) \notin NamesLauncher \/ installed["launcher"] # None

Units == {"sysd", "bpunit"}
ToSync == {u \in Units : Installable(u) /\ Stale(u)}
HeldBack == {u \in Units : ~Installable(u) /\ Stale(u)}

\* The run is over; the exit status and the alert follow PULL_FAILURES and the
\* gate.  The other variables start over with the next run.
Exit(status) ==
    /\ bpc' = status
    /\ todo' = {}
    /\ repo' = Dash
    /\ attempts' = 1
    /\ prev' = None
    /\ pulled' = [r \in Repo |-> None]
    /\ failures' = FALSE
    /\ config' = FALSE
    /\ mainAtStart' = [r \in Repo |-> 1]

ExitStatus(failed) == IF failed THEN "failed" ELSE "clean"

-----------------------------------------------------------------------------
\* The launcher fetches Dash under its lock to run origin/main's boot-pull.sh,
\* or falls back to the copy on disk; it never moves HEAD.  Auth and roster
\* problems are recorded and the run goes on (an unreadable roster: no repos).
Start ==
    /\ bpc \in Resting
    /\ Spend("bootpull")
    /\ \/ Free(Dash) /\ Fetch(Dash)
       \/ UNCHANGED fetched
    /\ todo' = Repo
    /\ pulled' = [r \in Repo |-> None]
    /\ failures' = FALSE
    /\ config' = FALSE
    /\ mainAtStart' = origin
    /\ bpc' = "next"
    /\ UNCHANGED <<origin, head, dirty, lock, mover, box, repo, attempts, prev>>

AuthOrRosterFailure ==
    /\ bpc = "next" /\ todo = Repo /\ ~failures
    /\ Spend("fault")
    /\ failures' = TRUE
    /\ todo' \in {Repo, {}}
    /\ UNCHANGED <<git, box, bpc, repo, attempts, prev, pulled, config, mainAtStart>>

\* PREV_SHA is read before the lock is taken.
NextRepo ==
    /\ bpc = "next"
    /\ \/ \E r \in todo :
            /\ repo' = r
            /\ todo' = todo \ {r}
            /\ prev' = head[r]
            /\ attempts' = 1
            /\ bpc' = "sync"
       \/ /\ todo = {}
          /\ bpc' = "config"
          /\ UNCHANGED <<repo, todo, prev, attempts>>
    /\ UNCHANGED <<git, box, budget, pulled, failures, config, mainAtStart>>

\* sync_repo_to_main takes the lock and fetches; a transient remote error is
\* retried up to three attempts, any other failure is not, nor is a lock that
\* cannot be had within the wait.
PullFailedSilently == bpc' = "next" /\ UNCHANGED failures
PullFailed == bpc' = "next" /\ failures' = TRUE

SyncFetch ==
    /\ bpc = "sync"
    /\ \/ /\ Free(repo)
          /\ Fetch(repo)
          /\ lock' = [lock EXCEPT ![repo] = "bootpull"]
          /\ bpc' = "merge"
          /\ UNCHANGED <<attempts, failures, budget>>
       \/ /\ attempts < MaxAttempts                    \* transient
          /\ Spend("fault")
          /\ attempts' = attempts + 1
          /\ UNCHANGED <<fetched, lock, bpc, failures>>
       \/ /\ \/ Spend("fault")                         \* permanent, exhausted
             \/ ~Free(repo) /\ UNCHANGED budget        \* lock wait timed out
          /\ PullFailed
          /\ UNCHANGED <<fetched, lock, attempts>>
    /\ UNCHANGED <<origin, head, dirty, mover, box, todo, repo, prev, pulled, config, mainAtStart>>

\* merge --ff-only, still under the lock.  git refuses only when a local edit
\* is in a file the fast-forward would overwrite (exit 3, never retried).
SyncMerge ==
    /\ bpc = "merge"
    /\ \/ /\ FastForward(repo, "bootpull")
          /\ bpc' = "new"
          /\ UNCHANGED failures
       \/ /\ Overwrites(repo)
          /\ PullFailed
          /\ UNCHANGED <<head, mover>>
    /\ lock' = [lock EXCEPT ![repo] = "free"]
    /\ UNCHANGED <<origin, fetched, dirty, box, budget, todo, repo, attempts, prev,
                   pulled, config, mainAtStart>>

\* NEW_SHA is read after the lock is gone; the pair (PREV_SHA, NEW_SHA) decides
\* what can be rolled back and whether requirements.txt changed.
ReadNew ==
    /\ bpc = "new"
    /\ IF head[repo] # prev
       THEN /\ pulled' = [pulled EXCEPT ![repo] = prev]
            /\ bpc' = IF repo = Dash /\ Interpreter /\ Tree("req") # Content[prev]["req"]
                      THEN "pip" ELSE "next"
       ELSE bpc' = "next" /\ UNCHANGED pulled
    /\ UNCHANGED <<git, box, budget, todo, repo, attempts, prev, failures, config, mainAtStart>>

\* The venv gate: disk guard and pip install, which fails when a deploy has put the
\* venv aside since it was looked for.  It writes no stamp.
PipFailedSilently == UNCHANGED <<installed, failures>>
PipFailed == failures' = TRUE /\ UNCHANGED installed

PipInstall ==
    /\ bpc = "pip"
    /\ \/ /\ Interpreter
          /\ installed' = Provide({"req"})
          /\ UNCHANGED <<failures, budget>>
       \/ /\ IF Interpreter THEN Spend("fault") ELSE UNCHANGED budget
          /\ PipFailed
    /\ bpc' = "next"
    /\ UNCHANGED <<git, stamp, running, todo, repo, attempts, prev, pulled, config, mainAtStart>>

\* fetch_config_from_ssm, for both config files: changed, unchanged, or failed.
HydrateConfig ==
    /\ bpc = "config"
    /\ \/ config' \in BOOLEAN /\ UNCHANGED <<failures, budget>>
       \/ /\ Spend("fault")
          /\ failures' = TRUE
          /\ UNCHANGED config
    /\ bpc' = "launcher"
    /\ UNCHANGED <<git, box, todo, repo, attempts, prev, pulled, mainAtStart>>

\* The launcher is repaired before the unit that names it is synced.
InstallLauncher ==
    /\ bpc = "launcher"
    /\ \/ /\ installed' = Provide({"launcher"})
          /\ UNCHANGED <<failures, budget>>
       \/ /\ Stale("launcher")
          /\ Spend("fault")
          /\ failures' = TRUE
          /\ UNCHANGED installed
    /\ bpc' = "units"
    /\ UNCHANGED <<git, stamp, running, todo, repo, attempts, prev, pulled, config, mainAtStart>>

\* Copy the units that differ.  The changed services restarted here are all
\* oneshot jobs; with new config the dashboard and live services restart too.
SyncUnits ==
    /\ bpc = "units"
    /\ installed' = Provide(ToSync)
    /\ \/ /\ config
          /\ running' = Started
          /\ failures' = (failures \/ HeldBack # {})
          /\ bpc' = "gate"
          /\ UNCHANGED <<todo, repo, attempts, prev, pulled, config, mainAtStart>>
       \/ /\ ~config
          /\ Exit(ExitStatus(failures \/ HeldBack # {}))
          /\ UNCHANGED running
    /\ UNCHANGED <<git, stamp, budget>>

\* The restarted services are active within 30s, or this run rolls back.
Gate ==
    /\ bpc = "gate"
    /\ \/ Exit(ExitStatus(failures)) /\ UNCHANGED budget
       \/ /\ IF Unhealthy THEN UNCHANGED budget ELSE Spend("fault")
          /\ bpc' = "revert"
          /\ UNCHANGED <<todo, repo, attempts, prev, pulled, failures, config, mainAtStart>>
    /\ UNCHANGED <<git, box>>

\* reset --hard each repository this run pulled to its PREV_SHA, under its lock
\* (a lock that cannot be had leaves that one as it is).
Revert ==
    /\ bpc = "revert"
    /\ \/ \E r \in Repo :
            /\ pulled[r] # None
            /\ pulled' = [pulled EXCEPT ![r] = None]
            /\ IF Free(r) THEN ResetHard(r, pulled[r], "bootpull")
                          ELSE UNCHANGED <<head, dirty, mover>>
            /\ UNCHANGED bpc
       \/ /\ \A r \in Repo : pulled[r] = None
          /\ bpc' = "resync"
          /\ UNCHANGED <<head, dirty, mover, pulled>>
    /\ UNCHANGED <<origin, fetched, lock, box, budget, todo, repo, attempts, prev,
                   failures, config, mainAtStart>>

\* Put the reverted trees' units back where one is installed, restart what
\* failed, alert and exit 1.
Resync ==
    /\ bpc = "resync"
    /\ installed' = Provide({u \in ToSync : installed[u] # None})
    /\ running' = Started
    /\ Exit("failed")
    /\ UNCHANGED <<git, stamp, budget>>

\* TimeoutStartSec=300: systemd kills the run, and its lock goes with it.
Killed ==
    /\ bpc \notin Resting
    /\ Spend("fault")
    /\ Exit("failed")
    /\ lock' = [r \in Repo |-> IF lock[r] = "bootpull" THEN "free" ELSE lock[r]]
    /\ UNCHANGED <<origin, fetched, head, dirty, mover, box>>

BootPullStep ==
    \/ Start \/ AuthOrRosterFailure \/ NextRepo \/ SyncFetch \/ SyncMerge \/ ReadNew
    \/ PipInstall \/ HydrateConfig \/ InstallLauncher \/ SyncUnits
    \/ Gate \/ Revert \/ Resync \/ Killed

=============================================================================
