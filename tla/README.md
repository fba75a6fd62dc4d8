# Verification of crucible-dashboard

TLA+ modules, TLC runs and TLAPS proofs for the parts of this repository whose
correctness depends on the order in which things happen. The repository is a
Streamlit console with its loaders, a handful of public sites, and — this is where
most of the difficult behaviour is — the shell that deploys, updates and watches the
one EC2 box all of it runs on, plus a waitlist with e-mail delivery. The console reads
and renders, with few exceptions; modelled of it are the parts with state of their
own: how the fleet and pipeline pages learn what the scheduled pipelines did and what
they make of it, and the content schedule, which several sessions edit.

Sections: [Inventory](#inventory), [Plan](#plan), [Modules](#modules),
[Runs](#runs), [Proofs](#proofs), [Findings](#findings), [Limits](#limits).

## Inventory

### On-box deployment

| Part | Source | State | Operations |
|---|---|---|---|
| deploy workflow | `.github/workflows/deploy.yml` | concurrency group `deploy-main` (one running, one pending run), the SSM command it waits for | push / dispatch, send command, poll, give up after 540 s |
| deploy-on-merge | `infrastructure/deploy-on-merge.sh` | `CURRENT_SHA`, stamp files, `last-good-sha`, everything it provisions outside the tree | sections 0–4, health gate, auto-revert |
| boot-pull | `infrastructure/boot-pull.sh`, `boot-pull-launcher.sh`, `install-boot-pull.sh` | `PREV_SHA`/`NEW_SHA`, repositories pulled by this run, `PULL_FAILURES`, changed configs and units | hourly fast-forward of every checkout, pip gate, config hydration, unit sync, health gate, rollback |
| git-sync lock | `infrastructure/lib/git-sync-lock.sh` | one flock per checkout | lock around fetch + merge / reset |
| daily substrate check | `infrastructure/substrate_health_check_daily.sh` | — | a `git pull --ff-only` of the same checkout |
| reboot-if-needed | `infrastructure/reboot_if_needed.sh` | — | reboot, whatever runs |

They share the git checkout (HEAD, remote-tracking ref, working tree), the lock,
the virtualenv, `/etc/systemd/system`, nginx's conf.d, `/usr/local/sbin` and the
running services. They interact only through that state: nobody calls anybody.
What is hard: the lock covers a reset or a fetch-and-merge but not the deploy
that follows; two SSM commands can overlap because the workflow's wait is
bounded and the command is not; a run that is still queued is replaced by a newer
one, a sent command can be lost; every section can fail and leave the box half
provisioned; artifacts outside the tree do not follow a reset; systemd kills
boot-pull after 300 s; the box reboots under all of it.

Correct means: each artifact ends up as the deployed commit has it however many
deploys were lost before; `boot-pull.service` never names a launcher that is not
there; the lock keeps what it promises; a run that ends clean did its job; the
last-good stamp and the reverts keep their promises; the newest merge arrives.

### On-box monitoring

| Part | Source | State | Operations |
|---|---|---|---|
| box_health | `infrastructure/box_health.sh` | the alerted-state file (key, severity, line of what is paged), throttle baseline, gauges; krepis keeps the dedup markers | every 10 min: sample and confirm problems, classify, page, clear, record |
| morning-signal sync | `infrastructure/morning-signal-sync.sh`, `morning-signal-watchdog.sh` | sync state file | verified fetch + reset; drift check in box_health |
| memory budget | `infrastructure/check_memory_budget.py`, `apply_cap_proposals.py`, `install-resource-limits.sh` | `budget.yaml`, rendered drop-ins | admission arithmetic, cap proposals |
| metrics emitters | `emit_*.{py,sh}`, `box_hygiene.sh`, `backup_box_state.py`, `scan_unlisted_state.py`, `check_package_drift.py` | — | one-shot reads and uploads |

What is hard: publishing may fail between reading the previous state and writing
the next; the identity of a problem across ticks (episode keys, set-derived keys,
truncation) decides what is paged again and what is declared resolved; staleness
arithmetic at boot, in flight and after missed firings.

### Batch launchers

`infrastructure/spot_train.sh`, `spot_backtest.sh`, `spot_backtest_and_evaluate.sh`
launch a spot instance, ship code, wait, collect and must always terminate it.

### Public functions

`marketing-metron/functions` — the waitlist signup (insert, confirmation e-mail,
message id) and the delivery webhook (idempotency ledger, row update, funnel
counters) on D1. What is hard: each handler is a sequence of separate database
statements and calls, any of which may fail; the webhook is delivered at least
once, late and out of order, and races the statement that makes its row findable.
`marketing-vires/functions` is the signup without delivery tracking.

### Console

`app.py`, `views/`, `components/`, `charts/`, `loaders/`, `shared/`, `live/`,
`dash_api/`, `dash-web/`: readers and renderers, except for the writers below.

| Part | Source | State | Operations |
|---|---|---|---|
| pipeline status loader | `loaders/pipeline_status_loader.py`, `views/25_Pipeline_Status.py` | a 60 s memo of live reads shared by all sessions, the last-good object in S3, a 15 min memo over it | live read with role fallback and cache fallback; refresh: clear, poll, put |
| fleet status | `fleet_status.py`, `loaders/fleet_status_loader.py` | — (memos of 25 s of its own readings) | per tick of the page: snapshot of five pipeline rows, expectation, dot |
| other rollups | `sla_status.py`, `data_integrity_status.py`, `health_checker.py` | — | one reading against one threshold each |
| content schedule | `loaders/morning_signal_schedule.py`, `views/45_Morning_Signal_Schedule.py` | `schedule/schedule.json` in S3 with its etag, a 60 s memo shared by all sessions, the dialogs that are open | render; click a day; save: fetch, change one day, conditional put; then drop all caches |
| other writers | `loaders/decision_queue_loader.py` with `components/gate_queue_card.py`, `loaders/eval_loader.py`, `loaders/quarantine_loader.py` | issues, labels and comments on GitHub and what each session has acted on; one object of reviews per day; changelog entries | rule, defer, kill, park; append a review or a flag; migrate an entry |
| everything else | `loaders/`, `views/`, `live/`, `shared/` | memos | read and render; decision rules: decision queue, scanner champion, promotion record, brief cadence, position reconciliation |

They interact through the memos (one process, all sessions) and the S3 objects. What is
hard: a snapshot is old by up to the sum of the memos it came through; a refresh clears a
memo other sessions are filling; the object knows a machine but not a role; two rows
share one machine; a read can fail at every layer and the fallback of one layer is
the truth of the next; deadlines cross midnight UTC and weekends. Correct means: the
object is never worse than what was observed, a refresh is a refresh, no row shows a
run that is not its own, a missed run is noticed and a failed one is not forgotten,
and a page that stays open comes to show the truth.

Of the content schedule: a dialog stays open for minutes over a memo of a minute; a
save is a fetch and a put with anything in between; a put that was applied can be
answered by nothing, or, after the SDK's own retry, by a refusal; an object that
cannot be read looks like an empty one; a day ends under an open dialog. Correct means:
no edit of another day is lost, nothing unreadable is overwritten, a past day stays,
and what is shown is the manifest, or becomes it.

## Plan

Ordered by how much breaks when the part is wrong and how little a test reaches.

1. **`Checkout`, `DeployOnMerge`, `BootPull`, `DashboardBox`** — the deployment of
   the box, composed, with the rebuild of the virtualenv and a crash at every step of
   it. *Done*: modelled, checked, all its safety properties proved, with bounds on how
   long a command and a run of boot-pull take (thirteen theorems).
2. **`AlertLifecycle`** — the box_health tick: confirm, key, page, clear, record,
   with failing publishes. *Done*: modelled, checked, all its safety properties proved,
   with the refinement of the abstract specification **`Pages`** and a bound on the steps
   of a tick. Left: the backstop units.
3. **`Waitlist`** — signup and webhook handlers statement by statement, deliveries
   duplicated and reordered. *Done*: modelled, checked; all its invariants, the price of
   a mishap and the refinement of the abstract specification **`Mailing`** proved.
4. **`MorningSignalSync`** — the sync, its state file and the drift check;
   `TimerStaleness`, `ThrottleRate` — classification functions against a reference
   definition.
5. **`SpotRun`** — launch, wait, trap, terminate: an instance never outlives its
   launcher unnoticed.
6. **`LastGood`**, **`PipelineStatus`**, **`FleetStatus`** — the pipeline loader with
   its memos, failures and concurrent sessions, the abstract specification of the
   last-good object it implements, and the fleet rows over it. *Done*: modelled,
   checked, the refinement and every safety property proved. Left: the
   freshness-monitor row, whose reading goes through a memo as old as its threshold allows.
7. **`Calendar`**, **`ContentSchedule`** — the manifest edited by several sessions and
   by others, and the abstract calendar it implements. *Done*: modelled, checked,
   refinement, invariants and both action properties proved.
8. **`DecisionQueue`** — rulings whose comment, labels and marker are separate calls,
   with retries after a failure in between, a cached body put back by a deferral, two
   sessions; **`ReviewArchive`** — one object per day, read, extended and put without a
   condition, where a failed read counts as an empty day.
9. **`MemoryBudget`**, cadence and promotion rules: pure operators over bounded inputs.
10. Proofs: every safety property and every refinement the runs check is proved. Left:
   those of the modules still to be written.

The other promises of the revert (units, limits, "NOT live") need a specification of
what a revert is to restore, which the code does not have yet; they belong to step 1.

## Modules

### `Checkout`

What every actor of the box shares. main is linear, so a sha is its position on
main (`1 .. MaxSha`); a reset may go back, a fast-forward goes up. What a commit
holds is a constant function `Content[sha][artifact]` to revisions, so equal
revisions mean equal bytes and a commit can take a file back to an earlier
revision, which is what makes stamps and range diffs go wrong.

| Variable | In the code |
|---|---|
| `origin`, `fetched`, `head` | main on GitHub, `refs/remotes/origin/main`, HEAD with its tree, per checkout |
| `dirty` | a tracked file of the checkout holds a local edit |
| `lock` | holder of the flock across a fetch-and-merge (a reset is one step and needs the lock free) |
| `installed` | what the box really has of each artifact outside the tree: interpreter (`py`) and packages (`req`) of the venv, nginx conf, box-health units, launcher, `boot-pull.service`, resource limits, service units, dash-web build |
| `stamp` | the stamp files of requirements and limits |
| `running` | the tree the long-running services were started from; None when they are stopped or cannot start, for want of a whole venv |
| `budget` | bound on every environment event (below) |
| `mover` | history: who last moved the dashboard's HEAD |

`Refresh(a)` is a gate that compares the installed copy (`file_state_stale`),
`StampStale(a)` one that compares the stamp, `FastForward`, `ResetHard` and `Fetch`
are the git commands. `DailyFetch`/`DailyMerge` are the daily substrate check's pull.

### `DeployOnMerge`

The workflow (`Merge`, `Dispatch`, `SendCommand`, `DeliveryFailure`, `StopWaiting`,
`CommandEnds`) and the SSM command, one action per step of its body and per section of
the script, per slot: `SsmFetch`, `SsmReset`, `ResolveHead`, section 0,
`Requirements`, `CheckDrift`, `Nginx`, `SystemdUnits`, `RouteBootPull`, `RouteLimits`,
`AppServices`, `DashWeb`, `HealthCheck`, `RecordGood`, `RevertReset`, `Reprovision`.
Sections read the working tree as it is when they run, which is the point: nothing
holds the lock then. Each section has its `fail` exits with what was already done at
that point; those of the nginx section may leave the new conf in place (`CmpSection`).

Section 1 installs the packages when their stamp differs from `requirements.txt`;
section 1b (`CheckDrift`) runs on every deploy, after a rebuild too, and ends the
script without a failure of anything when the packages the venv has are not what
`requirements.in` asks for (`Satisfied`, `check_package_drift.py`). Which packages
satisfy which requirements is the constant `Meets`, a relation between revisions:
a revision that changes neither krepis nor nousergon-lib meets the others.

Section 0 rebuilds the venv when its interpreter is not the one `.python-version` names,
or pip does not answer, and is one action per step from which it can fail: `CheckVenv`
(stop the services, move `.venv` to `.venv-prev-*`, which is `aside`), `CreateVenv`,
`InstallVenv`, `RestartOnVenv`, `ProbeVenv`, each of which may go to `RollBackVenv`,
whose own `mv` may fail (`stranded`). `aside[s].kept` says that the old venv is still
there: `RecordGood` prunes those older than seven days, and as `mv` leaves a
directory's mtime alone, one that was just put aside may be as old (`Prune`). An empty `installed["py"]` is a venv without an
interpreter: sections 0 and 1 and boot-pull's pip skip it, and the services restart to
nothing. Every other actor runs in between.

`Slot` is the number of commands the box can be executing at once.

### `BootPull`

One run: `Start` (launcher), `AuthOrRosterFailure`, then per checkout `NextRepo`
(PREV_SHA), `SyncFetch` (lock, retries), `SyncMerge`, `ReadNew` (NEW_SHA, outside the
lock), `PipInstall` (which fails when a rebuild has moved the venv away since); then `HydrateConfig`, `InstallLauncher`, `SyncUnits`, `Gate`,
`Revert` (one checkout per step), `Resync`; and `Killed` at any point. `Exit` resets
the run's variables so that finished runs are one state.

### `DashboardBox`

Composes the three, adds `MergeElsewhere` and `Reboot`, and states the properties.
`MCDashboardBox` holds the instances. `DashboardBox_proofs` and
`DashboardBoxSafety_proofs` hold the proofs.

### `AlertLifecycle`

One process, `box_health.sh`, started every ten minutes, and everything that moves
under it while it samples, thinks and publishes.

| Variable | In the code |
|---|---|
| `unit` | per timer: is a run in flight (`ActiveState`), `Result`, the run (`InactiveExitTimestamp`), and what the journal says drove its failure |
| `problem` | every other finding that is true now; the checks themselves are external facts |
| `phase`, `toRead`, `reading`, `sample`, `taken` | where the tick is; `snapshot_problems` reads `Result` and `ActiveState` of a unit by separate calls, so reading a unit is two steps |
| `found`, `others` | the confirmed findings, after `confirm_intersect` of the samples |
| `now`, `prior` | `ALERTED_NOW` and the alerted-state file: per subject a key and the lines of the page |
| `due`, `queued`, `unpublished`, `unalerted` | clears to attempt, clears left to the console, `UNPUBLISHED_CLEARS`, `UNALERTED_CRITICALS` |
| `sent`, `open` | external: krepis's dedup markers, and what the reader was told of last |
| `cleared`, `seen`, `decay`, `torn` | history, for the properties only |

A subject is a unit (one page each, keyed by its failure episode: result, driver,
run) or a tier (`critical`, `warning`: one page keyed by the sorted set, cut to
`KeyLines` lines as the code cuts it to 64 characters). `RunStarts`, `RunEnds`,
`Vacuum` (box_hygiene's journal vacuum), `ProblemChanges` and `MarkerExpires` are the
box; `TickStart`, `ReadResult`, `Classify`, `SampleEnds` are the sampling;
`PublishUnit` and `PublishTiers` the pages; `PublishClear`, `EmitEnvelope` or
`EnvelopeFails` with `FallbackPage` and `FallbackClear`, then `WriteState` or
`WriteFails`, are `finalize_alert_lifecycle`. `Killed` may take the place of any of
them. The pages of a tick are independent of each other, so the order among units is
left open.

Left out: the failed-unit backstop (units without a timer), the staleness arithmetic
that decides whether a timer missed a firing, the throttle baseline, and the branch
that drops a finding whose parsed result is `success`, which no caller reaches.

`MCAlertLifecycle` holds the instances; `AlertLifecycle_proofs` and
`AlertSafety_proofs` the proofs.

### `Pages`

What the watchdog promises the reader of its pages, without units, samples, envelopes
or destinations: a page is raised once for as long as its marker lives (`Raise`,
`Lapse`); its end is told once (`Resolve`) or counted as missed (`Miss`); and when the
file is written anew (`Record`), what went from it is what was told and as many more as
were counted. A tick that dies, or whose write fails, forgets what it told and leaves
the file (`Restart`). `AlertLifecycle` implements it with `written` the rows of the
file, `known` the dedup markers, `resolved` and `missed` what the tick under way
cleared and counted.

### `Waitlist`

Any number of Workers at once, each handling one request, over one D1 database; each
statement or call of a handler is one step, and anything may happen between two.

| Variable | In the code |
|---|---|
| `row` | table `waitlist` by address: `resend_message_id`, `delivery_status`, `delivery_event_id` |
| `ledger` | table `processed_webhook_events` |
| `funnel` | table `funnel_daily`, summed over its days |
| `request` | per request to `/api/waitlist`: where its Worker is, its address, `isNewSignup` |
| `hook` | per webhook Worker: where it is, its `svix-id` |
| `accepted`, `emitted`, `acked` | external, Resend and Svix: messages taken, what each event says, events answered with 200 |
| `budget` | bound on throws and deaths |
| `applied` | history: events written to the row of their message |

`Insert`, `CountSignup`, `Send`, `CountSend`, `RecordMessageId` are
`waitlist.ts`; `MarkProcessed`, `RecordDelivery`, `CountDelivery` are
`resend-webhook.ts`, with the statements of `_lib/d1.ts` as operators (`WithRow`,
`Bump`, `FirstSeen`, `Stamped`). An update that finds no row with the message of its event
changes nothing, and the event is not `applied` (`WithApplied`); the handler logs it and
answers 200. `RequestKilled` and `HandlerKilled` are a Worker that
is gone. `Deliver` hands an event to a Worker at any time after it happened, also when
it was delivered or answered before: Svix promises at least once and no order. A call
that throws may have taken effect (`LateThrow`): neither D1 nor HTTP says otherwise.
A message is named by the request that sent it, since a request sends one at most.

Left out: requests that touch no state (a bad body, the honeypot, an invalid address,
a bad signature), the profile fields, which nothing here reads again, and the dates.

`MCWaitlist` holds the instances, `Waitlist_proofs` the proofs.

### `Mailing`

What the waitlist promises, without requests, Workers, ledger or counters: an address
that is listed stays listed (`Join`), is sent at most one confirmation and only after
that (`Confirm`), and a report about that one message is taken up at most once
(`Take`), however often it is delivered, and then the address shows it. A report need
not be taken up: an event whose message is not on a row (yet) changes none, which is a
hazard of the list. `Waitlist` implements it with `listed` the rows, `confirmed` the
addresses of the messages Resend took, `used` the events that were written to a row.

### `LastGood`

What `dashboard/pipeline_status_cache.json` promises whoever reads it: replaced as a
whole, never emptied, and every entry something that was observed of that machine.

### `PipelineStatus`

How the console learns of the Step Functions. A snapshot is an execution and whether
it had ended when it was read; the history moves on, snapshots do not.

| Variable | In the code |
|---|---|
| `hist` | external: executions per state machine, with role, start, end and artifacts |
| `memo` | `_cached_live_read`'s entries, by machine and role filter, for all sessions |
| `object`, `s3memo` | the runs in the last-good object, and `download_s3_json`'s entry for it (a failed read is remembered as an absent object) |
| `pc`, `asked`, `good` | a session in `refresh_and_write_cache`: where in `_SF_ORDER`, the call in flight, `good` |
| `floor` | history: what was the case, or in flight, when the button was pressed |
| `view` | the watched row as the fleet page last rendered it |
| `now`, `watched`, `budget` | the clock, the row a behaviour follows, the bound on events |

`Start` and `End` are the Step Functions. `RenderWhen(failed)` is one tick of the
fleet page for one row when the calls in `failed` fail: `_cached_live_read`, the role
fallback, the last-good object (`Loaded`), the verdict of its artifacts
(`CycleVerdict`), and `_pipeline_snapshots`' rules (`Condensed`). `MemoExpires` and
`S3MemoExpires` let any entry run out at any time, so the ages are not numbers.
`Press`, then for each machine `Ask` and `Answered`, `Memoised` or `LeftOut`, then
`WriteLastGood` are the refresh button; `Ask` and `Answered` outside a refresh are a
visitor of page 25, whose call can be in flight while a refresh clears the memo.
`Restart` is the process.

A rerun carries its original's role and differs in its name only, so the model gives
it a role of its own that every cadence filter lets through.

Left out: the gate verdict, the reliability table and the list of recent executions
(all of them only rendered), the fallback of `execution_arn` deep links, and the age
the cache banner shows.

### `FleetStatus`

The dot: `_pipeline_expectation` (`Due`), `ran_today` (`RanToday`), the order of
`_resolve_pipeline`'s returns (`Says`, `Dot`), `market_hours_utc` and
`_prev_session_close_utc`, over a clock in quarter hours that jumps from one
interesting instant to the next. `log` is history: what a page that reads the truth
said at each instant that passed. `TrueView` is what the page would show with no memo
and no failure; the properties about deadlines are stated of it, those about memos
and failures of `view`, and `ViewCatchesUp` connects the two.

Left out: the other rows of the page and the rollup over all rows. Early closes are
not in the code either. The week is one of summer time; in winter the hours in which
the dates disagree are 00:00–05:00 UTC and nothing else changes.

`MCFleetStatus` holds the instances; `PipelineStatus_proofs` and `FleetSafety_proofs` the
proofs.

### `Calendar`

What the content schedule page promises of `schedule/schedule.json`: a save puts one
thing on one day of a manifest that can be read; what anybody outside the console does
is anybody's business.

### `ContentSchedule`

| Variable | In the code |
|---|---|
| `object` | the manifest: an entry or none per day, whether the contract accepts it, its etag (0: there is no object) |
| `issued` | external: the newest etag, so that a new one is new |
| `memo` | `load_schedule`'s entry in the `st.cache_data` of the process: at most one |
| `unnoticed` | history: somebody wrote since the memo was filled and will not drop it |
| `session` | per session: on the page, in a dialog (`day`, `shown`: the entry the dialog was opened with), between the press of Save and the fetch (`want`), between fetch and put (`base`, `etag`), or told the outcome and about to reload |
| `today` | `_today_pacific()` |
| `pressed`, `outside`, `faults` | bounds on presses, writes from outside, failed calls and restarts |

`Render`, `EditDay`, `Cancel` are the page; `PressSave` is the run of the dialog in
which Save is pressed, with its comparison of dates; `FetchForSave` is the first half
of `upsert_entry` and `delete_entry` (an entry other than `Regular`, or its removal);
`PutApplied`, `PutRefused`, `PutFailed` are `save_schedule` with the three ways an
applied put can be answered; `Finish` is `_finish`. `MemoExpires`, `Outside` (seeding,
repair, damage and deletion by hand), `Midnight` and `Restart` are around them.

An etag is the hash of the bytes it names, so a manifest that is deleted and created
again with the same bytes has the same etag; the model gives it a new one, which only
refuses more. `_finish` clears the cache object itself, and a load in flight
then fills one nobody reads any more, so a load is one step. A put with an etag for an
object that is gone is answered 404, which the code does not treat as a conflict.

Left out: the contract field by field, what an entry says beyond what it is, the aired
and model badges (rendered from what the podcast's generator wrote), the audience of
the page, and the fallback for a botocore without conditional writes, which the locked
`requirements.txt` rules out. A dialog covers the calendar until it is closed, so a
session edits one day at a time.

`MCContentSchedule` is the module the instances run on; `ContentSchedule_proofs` holds
the proofs.

### Definitions used by nothing

Definitions named like a bug (`RefreshByRange`, `FreeIgnored`, `AlwaysInstallable`,
`PipFailedSilently`, `CarriedNothing`, `NeverMissed`, `WrittenUnlessClean`,
`AlwaysInserts`, `NothingSeen`, `VanishedRows`, `MessageForgotten`, `NotCleared`, `PollNewest`,
`ScopeOfAnyRole`, `ChainedToNothing`, `FetchUnchecked`, `MatchesOrCreates`,
`PressSaveAnyDay`, `ErrorKept`, ...) are used by nothing: each stands before the
definition it is a plausible mistake for, and shows that a property would notice the
mistake. (`CondensedForAnyRow` is both: the rule without its strict rows.)

## Runs

| Run | Question | Instance |
|---|---|---|
| `box_racing` | Do types, the launcher order, the refs, the lock, boot-pull's clean exit and the virtualenv survive everything happening at once? | 1 checkout, 1 command, 2 merges, one each of boot-pull, daily pull and reboot, and either one hand edit or one failure; commit 2 never passes its probe, commit 3 needs another interpreter |
| `box_overlap` | Does a green deploy leave its own commit's artifacts, stamp what it observed, and does every command end, when two overlap? | 2 commands, 2 merges, a re-run of any old sha, 2 failures (one can be the workflow giving up) |
| `box_calm` | Does the newest merge reach tree and services when nothing fails, unless section 1b refuses every deploy? | 2 checkouts, 3 merges, boot-pull, daily pull; both revisions of the requirements pin another nousergon-lib |
| `box_v_web_converge` | Is dash-web rebuilt by the next green deploy? | as `box_racing` |
| `alert` | Does a page follow its condition, whatever moves while it is sampled and published, are the gauges exact, and does nothing that is over stay written down? | 1 timer, 2 causes, 2 samples, 2 criticals of which one fits the key, 1 warning; either 3 runs, a vacuum, a lost publish, or 1 run, 2 changes, 2 lost publishes, 1 expired marker; and 1 kill |
| `alert_v_evidence` | Does losing the journal of a published run keep its page? | 1 timer, 3 runs, 1 vacuum, nothing else fails |
| `waitlist` | Is a signup mailed once, does its row tell the truth, and can the funnel be believed? | 2 requests from one address or two, 2 events of 3 types, 2 webhook Workers, 2 throws or deaths; symmetry in all four |
| `waitlist_v_lost_event` | Is an acknowledged event on the row that was waiting for it? | as `waitlist`, 1 throw or death, a throw has no effect |
| `fleet` | Does the last-good object keep its promise, is a refresh fresh, does no row show another's run, is a missed run seen and a failed one not forgotten, and does an open page catch up? | 4 machines of which 2 are polled, 2 sessions, 5 rows, Friday afternoon to Tuesday night; per behaviour one row and one scenario: two refreshes and a restart, two failing calls, a crowded window, or the clock |
| `fleet_v_overdue` | Is what the post-close row calls overdue really not started? | the post-close row, the clock, one start, nothing fails |
| `schedule` | Does a save change only its own day of the manifest as it stands, does a past day stay, and is the memo stale only for a reason and not for ever? | 2 sessions, 2 days, 1 programme, 2 presses of Save, 2 writes from outside, 2 failures or restarts |
| `schedule_v_clobber` | Does a save replace only what its operator was shown? | 2 sessions, 1 day, 2 programmes, 2 presses, nothing fails |

Properties, and why they are not obvious:

- `LauncherBeforeUnit` — three writers install `boot-pull.service` (deploy section 2f,
  the unit sync, the resync after a rollback) and any of them may stop halfway.
- `HeadWithinMain` — resets go to shas taken from files and variables that are older
  than the refs; this is why they always exist and why `--ff-only` always applies.
- `LockedCheckoutStill` — an action property: between a fetch and its merge nobody,
  a deploy's reset or a rollback included, moves that checkout.
- `CmpGatesConverge` — the repository's argument for comparing installed copies
  (config#2338), under overlap, failure and revert. It is stated of deploys that
  nobody moved HEAD under: with a pull in between, "its own commit" means nothing.
- `UndisturbedStampObserved` — an action property over a whole deploy: between
  CURRENT_SHA and the stamp lie a restart, probes, failures and another command. It
  excuses a HEAD that moved meanwhile, when the stamp names a tree nobody probed.
- `PulledRequirementsInstalled`, `CleanRunCaughtUp` — what exit 0 of boot-pull means.
  The first is stated while no deploy has rebuilt the venv: a rebuild that rolls back
  also undoes what boot-pull's pip did meanwhile.
- `RebuildLeavesVenv` — an action property over six steps of one command with any
  number of steps of others in between: that the services answer must still mean there
  is a venv under them when section 0 ends, and a rollback must restore a whole one.
- `CommandsEnd`, `MainReachesBox` — liveness: every command ends, and the newest merge
  arrives although the queue drops runs. It arrives in the services too, with one
  excuse, `Refused`: section 1 finds the tree's requirements stamped while the venv has
  the packages of another commit, as boot-pull's pip leaves it, so section 1b refuses
  this deploy and every later one (below, under what was seen in the model).
- `StandingPageKept` — an action property over whole episodes: between the sample and
  the page, and between one tick and the next, runs start and end, and the key, the
  pinned driver and the carried line must still name one episode. It excuses two
  cases, which are hazards of the list: a run that ended between the two reads of one
  sample, and a vacuum of a later run than the key names.
- `StandingPageOpen` — relates the file, the markers and the reader: no key is taken up
  again after its clear, because its marker would keep the new page quiet for 30 days.
- `CauseIsPaged`, `RepairIsCleared`, `FindingGoneIsCleared` — liveness: a publish, a
  write or a tick that failed is made up for by a later one.
- `Accounted` — two counters kept by four functions, with a fallback that runs after
  the first of them has counted.
- `ImplementsPages` — a refinement: whatever way a row leaves the file, by its subject
  or by its key, its end was told in that tick or is counted, on either route.
- `OneConfirmation` — across requests: two submits at once, a resubmit after a 500, an
  insert that threw after it took effect. Only the insert's change count stands between
  them and a second e-mail.
- `RowTellsItsMessage` — relates a row, the request that made it, and an event that
  names neither; and no row that was shown an event goes back to showing none.
- `NeverOvercounts` — five counters, each bumped after the statement it counts, against
  the rows, messages and events there really are, under redelivery and throws.
- `LossesBounded`, `ShortfallBounded` — the other half: what `n` throws and deaths cost.
  No more than `n` rows stay without their message, no more than `n` events off the
  row that had their message when they happened (`ForARow`), and no counter is short by
  more than `n` of what is past being counted, at any moment and however many requests
  and Workers are at work. Without a mishap no row and no such event is lost, and the
  counters are exact. Other events are outside it, because the code drops them without
  a mishap of their own: one that happens before its message is on the row, and all
  those of a message whose id was lost, of which one mishap may leave any number.
- `ImplementsMailing` — a refinement: a list, a mailing and its reports, under redelivery
  to several Workers at once, throws after the effect, and deaths between statements.

- `ImplementsLastGood` — a refinement: two sessions poll through one memo that other
  pages fill with other role filters, calls fail, the process restarts between the
  poll and the put.
- `PolledSincePress` — a refresh against everybody who reads meanwhile: clearing a
  memo does not recall what is in flight for it, so the floor is what such a call
  will bring, and nothing less.
- `ExerciseRowIsItsOwn` — three fallbacks that know machines, under one row that must
  not use any of them.
- `MissedIsSeen` — over whole cycles, weekends included: some instant of a cycle that
  had no run must have found the row overdue, in the hours in which New York and UTC
  have one date (in the others the post-close row is overdue whether it ran or not, the
  finding below, which would make this hold by mistake). It excuses an execution that is
  still running, a row none of whose roles is in the library's window (it has had none,
  or newer executions of another role crowded them out), and a run of the same date from
  before the close, which passes for the post-close run; hazards of the list all three.
- `OverdueIsRealByDay` — the positive half of the overdue finding.
- `FailureOutlastsIdle` — an action property: with the newest run of cadence and
  recovery in the window unchanged, no start, end, tick or exercise run turns red to
  idle or green. Crowded out of the window a failure does turn into what another role
  has to show; the window is sized so that this happens in the run.
- `ViewCatchesUp` — liveness through two memos and a fallback that remembers failures.

- `ImplementsCalendar` — a refinement: between the fetch of a save and its put other
  sessions and other programs write, break, delete and create the manifest, and calls
  fail; what is put is a whole manifest, and still only one day may change.
- `ReplacesWhatItFetched` — the same about content: an action property that compares
  the put with a fetch several steps earlier. The case that is easy to get wrong is the
  manifest that did not exist when it was fetched.
- `PastDayStays` — an action property over midnight: dialogs and saves opened the day
  before are still there, and only those pressed before may still get through.
- `StalenessExplained` — relates the memo, the object and every session: the only
  reasons for showing anything but the manifest are named, and an operator who was told
  "Saved" and has reloaded is not shown the day without the edit.
- `MemoCatchesUp` — liveness: an error, or the manifest before a write nobody here
  noticed, does not stay.

**Bounds.** `MaxSha = 3`: a commit that changes everything provisioned, then one that
takes one file back — the smallest history with a missed commit, a stale stamp and a
revert target. `Rev = {1, 2}`: each artifact has an old and a new content. `Slot` of 2
is all that overlap needs (properties speak of one command and anybody else). Events
are bounded by `Budget`, a set of how often each event may happen, of which a
behaviour gets one: each run asks about a different mixture, and the sum of the events
is what keeps the state space finite (`box_racing` has either a hand edit or a failure;
both at once are more states than a run has time for). Attempts of a pull are the
code's own (three). `RacingContent` changes only the three artifacts that run's
properties look at. In the other instances the interpreter stays: there section 0 runs
only when pip is broken, which is a failure. `Meets` is the identity (`Pins`): the two
revisions of the requirements ask for another nousergon-lib, which is the case section
1b is about. That the interpreter stays matters to `MainReachesBox`: with a
new interpreter in the merges it does not hold even without failures, because a
boot-pull run that brings new config meets the services a rebuild has stopped, takes
it for its own doing and resets HEAD under the deploy. Deadlock is not checked: when
the budget is spent the box is idle.

**Fairness** (`FairSpec`). Weak fairness of each command's steps, of a boot-pull run
that has started, and of the merge after the daily fetch: the operating system keeps
running a process that can run, every loop in these scripts is bounded, and a wait
for a flock is bounded by `GIT_SYNC_LOCK_WAIT`. The workflow sends a waiting run when
the group is free. Nothing is assumed of merges, timers, people, reboots or failures.

**Bounds of the watchdog.** Units do not interact except through the order of their
pages, so one timer, with three runs, shows all there is to an episode: a first run
that names the key, a second that is carried, a third that ends it. Two causes tell a
new episode from the old one; one result is enough beside them. `Attempts = 2` (the
code has 4) is the smallest number at which two samples can disagree. `KeyLines = 1`
with two criticals is the smallest set whose key is cut. Each failure happens once
(publishing twice where the tiers are the subject, so that the envelope and a fallback
publish can fail in one tick). The two mixtures of events are choices of the initial
state: a behaviour has either the timer's or the tiers'. Deadlock is not checked: with the runs spent and no tick due
nothing is left to do.

**Fairness of the watchdog.** Weak fairness of `TickStart` (the systemd timer), of the
steps of a tick as one (every call in the script is bounded by a timeout, and the
service by `TimeoutStartSec`), and of the end of each run. Nothing is assumed of
publishes, kills or the box.

**Bounds of the waitlist.** Two requests from one address are a signup and its
duplicate, in every order; from two they are two signups whose messages and events
could be mixed up. Two events of one message can overwrite each other and be reordered;
two Workers handle both at once, or one of them twice. Requests, addresses, events and
Workers are symmetric: no definition and no property names one, and nothing in this run
is a liveness property. `delivered` has a counter,
`complained` has none, `opened` is not tracked. Two mishaps reach every pair of
failures; redelivery is not bounded. Deadlock is not checked: when every request is
done and every event handled nothing need happen.

**Bounds of the fleet.** A behaviour follows one row through one scenario, chosen in
the initial state, because rows meet only in the memos, which the refresh scenario
fills from other sessions, and in the object. Two machines in the polling order are
enough for one to be left out, two sessions for everything that races. A window of 2
executions is filled with exercise runs by one more than the past of the weekly machine
holds, in every scenario with a start. The instants are one on each
side of every deadline of a day, over half a Friday, a weekend, and two trading days, so
the last completed session is today's, yesterday's and that of before the weekend; the
past holds a Thursday. Endings are all, some, none of the artifacts, and a declared
skip. The clock begins before Friday's close, so that a run of the afternoon can pass for
that of the evening. Deadlock is not checked: when the last instant has passed and the
page is closed nothing need happen.

**Fairness of the fleet.** Weak fairness of the page's tick in which nothing fails
(the fragment runs every 30 s as long as the page is open; failures are bounded) and
of the memos' expiry. Nothing is assumed of executions, sessions, the clock or
restarts; `ViewCatchesUp` is about what remains once they stop.

**Bounds of the content schedule.** Two sessions and two presses are a save and one
that races it, or one that is repeated after a failure; the outside writer plays the
other side of every conflict as well, on either day, and its two writes are a deletion
and a creation. Two failures are a lost answer and a restart after it. Two days are one
that ends with a dialog open and one that does not. Deadlock is not checked: with the
presses spent and the page open nothing need happen.

**Fairness of the content schedule.** Weak fairness of the expiry of the memo, and of
each session's steps after Save was pressed, which are calls with the SDK's timeouts
and a rerun. Nothing is assumed of operators, of anybody outside, or of the clock.

**No fairness of the waitlist.** Handlers are straight lines and Cloudflare may end
them anywhere, so nothing is claimed to happen eventually; completeness is stated of
the states in which nobody is at work.

## Proofs

For every set of checkouts and slots, every `MaxSha`, revision set, `Content`, set of
bad commits and budgets allowed by `CheckoutAssumption` (which only says what kind of
value each constant is, that the dashboard is one of the checkouts, and that slot
names differ from the three other movers), for `GreenDeployMeetsRequirements`
`LockAssumption` (a lock file's packages satisfy the `requirements.in` it was compiled
from, which CI compares), and, for `BootPullRunsDown`, `RosterAssumption`
(the roster is finite):

- `TypeCorrect` — `Spec => []TypeOK`. `TypeOK` is not inductive: a reset to the
  pinned sha stays in `Sha` only because a command past `idle` has one. The inductive
  invariant is `TypeInv == TypeOK /\ PinsSet`; one step per action, one part per
  conjunct.
- `LauncherFirst` — `[]LauncherBeforeUnit`. Every artifact stays or becomes the
  tree's (`InstalledStep`), what the tree holds is never None, and whoever brings the
  unit brings the launcher or has checked for it.
- `HeadWithin` — `[]HeadWithinMain`, strengthened by `ShasFetched`: the stamp,
  CURRENT_SHA, PREV_SHA and the recorded pulls are all shas already fetched.
- `LockHolds` — `LockedCheckoutStill`, action by action.
- `GreenDeployConverges` — `[]CmpGatesConverge`. The strengthening `Provisioned(s)`:
  while command `s` was the last to move HEAD, HEAD is its pinned sha and each
  artifact whose section is behind it equals the tree's. Other writers keep it because
  they too only ever write the tree's copy (`InstalledStep`); moving HEAD makes them
  the mover (`OtherStep`); each own section establishes its part (`SectionStep`).
  The venv is apart: a rebuild takes it away (`OutsideVenv`).
- `VenvSurvivesRebuild` — `RebuildLeavesVenv`. `VenvInv`: services run only on a whole
  venv as long as no old one was lost, and a command in its rebuild has put one with an
  interpreter aside. Copying the tree takes nothing away (`ProvideKeepsVenv`), so only
  `CheckVenv` and `RollBackVenv` need an argument of their own.
- `StampsWereObserved` — `UndisturbedStampObserved`. `OnCurrent(s)`: while command `s`
  past its reset was the last to move HEAD, HEAD is the CURRENT_SHA it will stamp.
  Any other actor that moves HEAD becomes the mover (`MoverMoves`), and the probes
  observe the tree at HEAD.
- `CleanRunsCatchUp` — `CleanRunCaughtUp`. `PullsSoFar`: every checkout a run is done
  with is at least where main was when it began; refs only grow (`RefsStayCaught`), and
  a reset that takes one back has a command as its mover.
- `PulledPackagesInstalled` — `PulledRequirementsInstalled`. `Packed`: from the moment
  boot-pull's pip is behind it until it ends, as long as boot-pull was the last to move
  HEAD and no venv is aside, the packages are those of HEAD, or HEAD wants what the
  tree before the pull had. It needs `VenvInv`, because a pip that finds no interpreter
  installs nothing.
- `WebBuiltWhenChanged` — the half of `WebBuildConverges` that is true: a green deploy
  nobody moved HEAD under leaves the dash-web build of its own commit when that commit
  itself changed `dash-web/`. `WebBuilt` holds from section 3d on, because the
  CURRENT_SHA whose range the gate compares is HEAD (`OnCurrent`) and every later writer
  writes the tree's. The run `box_v_web_converge` shows the half that fails.
- `GreenDeployMeetsRequirements` — a green deploy nobody moved HEAD under runs on
  packages its own `requirements.in` admits, as long as no command had the venv away.
  `PackagesMeet` holds from section 1b on: what 1b has seen satisfied stays so while
  HEAD stays, because every later pip installs the tree's, which satisfy it by
  `LockAssumption` (`MeetStep`). It is what section 1b adds to section 1, whose stamp
  boot-pull leaves behind.
- `CommandsRunDown` — how far a command is from its end: `Left` gives the sections the
  longest way out of each (19 steps from the fetch, through the rebuild, every
  section, the health check and the revert); each step of a command lessens it, nothing anybody else does
  raises it, a reboot included, and only `SendCommand` begins anew.
- `BootPullRunsDown` — the same of a run of boot-pull, whose length depends on the
  roster: `RunLeft` counts the checkouts still to sync, each with the attempts it has
  left, and, in the rollback, the pulls still to take back. A failure noted before the
  first checkout is a step that happens once.

For every set of units, findings and causes, any `Attempts`, `KeyLines`, `MaxRun` and
budget allowed by `AlertAssumption` (finite sets, units and tiers apart, criticals and
warnings apart), `NoPageAssumption` and `KillAssumption` (the budgets to choose from
allow the same number of kills, so that "no tick was killed" can be read off what is
left of any of them):

- `TypeCorrect` (of `AlertLifecycle_proofs`) — `Spec => []TypeOK`. The inductive
  invariant adds `PhaseOK`: a sample under way leaves one to take, and a tick only
  defers a page it has. The lemmas `UnitRow` and `TierRows` say that writing a page
  down keeps `ALERTED_NOW` a file.
- `GaugesExact` — `[]Accounted`. `Accounted` speaks of one moment, so it says nothing
  of the steps before; `Tally` does: at any moment `unalerted` counts the rows written
  down so far whose page is with nobody, and once clears have begun `Gone(now)` splits
  into due, queued, cleared and counted. Each publishing step adds at most one page to
  one side of the first equation, each clear moves one subject between two parts of
  the second, and nothing but the end of a tick changes `prior`.
- `StandingPagesOpen` — `[]StandingPageOpen`. `DeadKeysOlder`, while no tick was
  killed: a key that was delivered and cleared names a run older than anything known of
  its unit, by a finding, a sample or the file, except the key this very tick is leaving.
  A key taken up again would have to name that run. It rests on `Tracked`: what is
  known of a unit is of a run that has ended, no older than the lines of the file, and,
  where it is of the run the file's key names, tells the same episode; a unit found not
  failing has run since its key. `KillsLeft` turns a killed tick into a false premise for
  good.
- `StandingPagesKept` — `StandingPageKept`. `PagesKept`: while every run since the
  page ended as the page says and no evidence was lost, all that a tick learns of the unit
  is of that page's episode, and a tick that read no torn sample finds it failing; so
  the row written down carries the page's key and no clear is due for it.
- `PagesImplemented` — `ImplementsPages`. `Tally` splits what is gone into due, queued,
  cleared and counted, and `ToldOK` says that from the rows' end on nothing else is in
  any of them; so when the tick comes to its write, with due and queued empty, what left
  the file is what was cleared and as many as were counted. A clear is of a row of the
  file (`ClearResolves`), one that failed of one that is not counted yet (`ClearMisses`).
- `TicksEnd` — how far a tick is from its end: `StepsLeft` counts the samples to take,
  the units of each that are unread, the pages and the clears still to be published, each
  with its fallback. Every step of the tick lessens it, no run, lost journal or changed
  finding of the box changes it, and no tick is longer than `Longest`, which only the
  numbers of units and samples bound. Beside `Tally` it needs `Reads`: a unit of which
  one property was read is one of those still to be classified.

For every set of requests, addresses, events and Workers, any subscribed types and any
number of mishaps, allowed by `WaitlistAssumption` and `NoneAssumption` (finite sets,
None apart from everything else), with and without `LateThrow`:

- `TypeCorrect` (of `Waitlist_proofs`) — `Spec => []TypeOK`. It needs `SendersOK` (the
  row a message id is written to exists) and `HookOK` (a Worker has an event that
  happened, and only a tracked one reaches a row).
- `SentOnce` — `[]OneConfirmation`. `SendersOK`: a request that sends has
  `isNewSignup`, that only one request of an address can have, because the row it made
  never goes (`RowsStay`).
- `RowsTellTheTruth` — `[]RowTellsItsMessage`. `NamesOK`: the message a row names is
  that of its own address, and its request is done; so `RecordMessageId` always writes
  to a row that names nothing and shows no event, and no event that found its message
  loses it. `EventsOK` says the rest, action by action, and that an event whose message
  was on its row when it happened or was applied still finds it there.
- `FunnelNeverOver` — `[]NeverOvercounts`. `Tallied`, inductive beside the invariant
  above: each counter is the size of a set of requests, or of events, that are past
  being counted, and a step that counts adds one that was not. For the signups these
  are requests that made a row, one per address, so there is an injection into the
  rows; for the events, members of the ledger nobody is at work on, and the primary
  key of the ledger admits one Worker per event (`LedgerOK`).
- `MishapsCostOne` — `[]LossesBounded`, and `FunnelNeverShort` — `[]ShortfallBounded`.
  `Bounded` (with `budget <= Budget`) says the same of the states in between. Each
  clause compares a set that only grows by what leaves the protected places (a request
  on its way, a Worker at its statement) with a counter and the mishaps so far; a step
  takes at most one element out of those places, and then either it counted, or wrote,
  that very one, or it was a failing alternative and `Spent` grew (`StillBounded`).
  That a step frees one element only needs the uniqueness of `SendersOK` and `LedgerOK`:
  one request makes a row, one Worker is past the ledger with an event. That an update
  without a mishap does write an event that is `ForARow` is `EventsOK`: its row is there.
- `UnharmedReachesRows`, `UnharmedFunnelExact` — what follows for behaviours without a
  mishap: a finished signup knows its message, an answered event whose message was on
  its row when it happened was written to it, and the row still shows one (`TakenOK`: what was answered or applied is in the ledger), and once everybody is done
  each counter is exactly the number of rows, requests, messages or events.
- `MailingImplemented` — `ImplementsMailing`. An insert that made a row is `Join`, a
  send that Resend took is `Confirm` (nobody was at work for that address before:
  `NotMailed`), an event is made about a message that was taken (`Make`), and an update
  that found a row is `Take` (one that found none changes nothing): the event was not
  applied before (`TakenOK`), and the row
  found by message id is that of the event's own message (`NamesOK`), as no request
  changes its address (`AddressesStay`).

For every set of machines, polling order, sessions, window, history to begin with,
calendar, instants and budgets allowed by `PipelineAssumption`, `PastAssumption` (the
history to begin with is listed in the order it was started, and nothing of it lies in
the future), `CalendarAssumption` and, for the last theorem, `ClockAssumption` (each
cycle the clock passes has an instant `Tells`: past the row's deadline, in the hours of
one date, within the twelve days the code looks back):

- `FleetTypes` — `FleetSpec => []FleetTypeOK`. The inductive invariant adds that the
  watched row's machine is one and that a session between two machines is within the
  polling order. `SnapshotOf` of the newest execution needs `LeastOf`: every set of
  numbers that is not empty has a least member, so the `CHOOSE` of `Oldest` is one of
  what is pending.
- `WhatIsRemembered` — the strengthening the others rest on. `Remembered` says of
  every memo entry, call in flight, polled run, object entry and floor that it is an
  execution its machine has had, of the roles of its filter, and ended only if it has.
  Histories only grow (`HistGrows`), so what was the case stays so (`StillWas`), and
  each action copies one of them to another of the same filter.
- `LastGoodImplemented` — `ImplementsLastGood`: a put is `Replace`, whatever starts or
  ends is `Observe`, the rest stutters; that the new object was observed is
  `Remembered`, that it is not empty the `if good` of the code.
- `ExerciseRowKept` — `[]ExerciseRowIsItsOwn`, with `ShowsItsOwn` for the view.
- `RefreshIsFresh` — `[]PolledSincePress`. `Floors` bounds from below everything a
  refresh could still take: the memo, every call in flight, what it polled. A press
  establishes it (nothing pending is older than the floor it sets, the memo is empty),
  and later reads are no older (`FreshIsNewest`).
- `FailureStaysOnThePage` — `FailureOutlastsIdle`. Red is only ever said of a cadence run
  that has ended and is judged failed (`RedIsFailed`); what has ended stays as it ended
  (`HistGrows`), so while it is the newest of the cadence the row says failed, or
  overdue (`FailedIsNotIdle`).
- `OverdueByDay` — `[]OverdueIsRealByDay`. `Chronicle`: executions are listed in the
  order they were started, none in the future. What the row shows is no older than any
  run of its roles, also when it is another role's (`ShownIsNewest`), so a run of the
  cycle puts the run shown into the cycle, and then it counts as today's
  (`RunOfCycleCounts`, deadline by deadline; only the post-close row needs the dates of
  New York and UTC to agree).
- `MissedCyclesSeen` — `[]MissedIsSeen`. `Watchful`: at every instant in the log that
  tells of a cycle, the page raised the alarm or there was a run for the cycle; `Logged`:
  no instant that passed is missing. At a tick the row shows nothing, a run under way, or
  a run of before the cycle, and for that one the deadline has passed
  (`OldRunOverdue`, row by row; for the chained rows the last completed session is the
  one the cycle begins with). A run once started stays one (`TakenStays`).

For every set of sessions, number of days, set of programmes and bounds allowed by
`DaysAssumption`, `RegularAssumption` and `BoundsAssumption` (of `ContentSchedule_proofs`):

- `TypeCorrect` — `Spec => []TypeOK`.
- `FetchedCurrent` — the strengthening the next two rest on, `Inv`: no etag in use is
  newer than the last one issued, and a session about to put that holds the etag of
  the object holds its entries, and the object can be read; one that holds no etag
  fetched an empty schedule. `TypeOK` does not give it, and it is what a fetch
  establishes, a write by anybody else keeps (a new etag is new), and the condition of
  the put uses.
- `CalendarImplemented` — `ImplementsCalendar`: a put that is applied is `Save`, a
  write from outside is `Elsewhere`, everything else stutters.
- `SavesReplaceFetched` — `ReplacesWhatItFetched`, from the same invariant.
- `PastStays` — `PastDayStays`: a day that is over and without a save under way can
  get one only by `PressSave`, which compares the dates.
- `Explained` — `[]StalenessExplained`, inductive with `TypeOK`, one step per action
  that writes the object or the memo.

Only model-checked: the liveness properties, and the properties of the runs that expect
a violation, which are false. Liveness, `ENABLED` and induction over recursive
definitions are outside what the prover does. `CommandsRunDown`, `BootPullRunsDown` and
`TicksEnd` are the safety half of the liveness of the box and alert runs (`CommandsEnd`,
`MainReachesBox`, `CauseIsPaged` and the others of the watchdog): nothing runs for
ever, for any constants. That a process which is not at its end can take a step, and
takes it, is `ENABLED` and fairness, and stays with TLC.

## Findings

- **dash-web is still gated on a commit range** (`:1013`), the gate the NOTE at `:163`
  says every call site *used to* have: a superseded or failed deploy of the commit
  that changed dash-web leaves it unbuilt, and later deploys are green.
- **Lost evidence opens a new page for an unchanged failure** (`box_health.sh:1247`).
  The driver pin and the evidence-loss carry find a run by the timestamp in a row's
  key; a carried key holds the timestamp of the first run of its episode. After a
  second failing run, losing the journal clears the page and opens another, against
  `:1186` and `:1308`.
- **A delivery event can be acknowledged and lost** (`resend-webhook.ts:185`). The
  ledger takes the `svix-id` before the row is updated; when the update throws, the 500
  brings a redelivery, which the ledger answers with 200. `_lib/d1.ts:112` says an event
  that fails to persist "must raise, not disappear"; it raises once, and then disappears.
- **The post-close row is overdue every night after a success** (`fleet_status.py:568`).
  From midnight UTC to midnight in New York the deadline is that of the New York date,
  already past, while "a trading day" and "ran today" (`:716`) are asked of the UTC
  date, on which nothing has run yet. `:18` says "never idle-after-success" escalates.
- **A save of the content schedule replaces an entry its operator never saw**
  (`morning_signal_schedule.py:342`). The etag that guards a save is the one fetched when
  Save is pressed, not the one of the manifest the dialog was filled from. Two sessions
  that edit the same day are both told "Saved", and the second has replaced the first,
  against `views/45_Morning_Signal_Schedule.py:483` ("concurrent edits reload, never
  clobber") and `morning_signal_schedule.py:281` ("the etag the edit was based on").

Seen in the model and kept as hazards in `PROJECT.json`, without a run of their own
yet: pip without the stamp (`boot-pull.sh:491`): when the next commit takes
`requirements.txt` back to the stamped bytes, section 1 has nothing to install, and
when those bytes move krepis or nousergon-lib section 1b refuses the deploy, and every
later one until `requirements.txt` changes again (`deploy-on-merge.sh:520` has 1b ask
"the reverse question", and nothing acts on the answer); without its excuse
`MainReachesBox` fails in `box_calm` on exactly this. Then limits rendered by the revert without
the stamp (`deploy-on-merge.sh:1089`), service units that do not follow a revert
(`:1080`), a reverted commit that the next pull brings back (`:1100`), and a rollback
that undoes a concurrent deploy, goes to a sha that never ran (`boot-pull.sh:781`) or
discards local edits (`:793`, against `:516`). A reboot while section 0 has `.venv`
away leaves none, or one without packages, and later deploys neither rebuild it
(`deploy-on-merge.sh:267` asks for an interpreter first) nor fill it (the requirements
stamp is not stale). A green deploy may prune the venv another command has just put
aside and still needs (`deploy-on-merge.sh:1162`, against "Seven days is the manual
window" of `:1154`): its mtime is that of the venv, not of the `mv`. The last-good stamp can name a tree nobody probed (against
`deploy-on-merge.sh:247`): CURRENT_SHA is read after the lock is gone, the daily pull
moves HEAD, section 3 restarts on the newer tree, the probes pass for that, and the
stamp records the older one.
Of the watchdog, likewise: a clear of a set-derived page that names a critical which
stands, when another joins or leaves it (`box_health.sh:1941`, against `:1930`), a sample torn between two reads, a kill between the clears
and the write, the 64-character cut together with the dedup marker, a backstop unit
that is running while it is sampled, and a clear that failed and is never retried. Of
the waitlist: an event that overtakes the message id, or whose message id was lost, and
stays without a row, answered 200 (`resend-webhook.ts:202`), a late
event that overwrites a newer one, and a signup whose insert took effect and threw,
which is never sent its confirmation. Of the fleet: a refresh that could not poll a
machine drops its entry of the object (`pipeline_status_loader.py:683`, against `:663`
and `tests/test_pipeline_status_loader.py:199`), the older of two polls put last, a
hung execution that hides every later miss, a post-close run of the morning that
passes for that of the evening (`fleet_status.py:716`), a missed Saturday that is idle again on
Sunday (`fleet_status.py:556`), an overdue start that turns a failed row from red to
yellow, a failed lookup of a skipped run's work that shows it failed, and a weekly row
that shows an exercise run when its own role is out of the window. Of the content schedule: a
put whose answer was lost is reported as a conflict with somebody else
(`morning_signal_schedule.py:326`), or as "save failed" with the memo left as it was.
Read beside it and not modelled: the calendar marks an entry as aired when its date has
a marker, also when the entry was edited after the episode was made, against the view's
"ground truth" (`views/45_Morning_Signal_Schedule.py:22`); and an appended review starts
its day's object anew after any failed read, against "empty on miss"
(`eval_loader.py:528`).

## Limits

Not modelled, with the reason, is listed per component in `PROJECT.json`. Within the
deployment: the one-off removals of retired units,
`crucible-dash-web`'s own unit file (gated like the other units), the metron-intraday
unit sync of boot-pull (the same comparison on one more unit), the changelog entry and
the cache purges; pip, npm and git are single steps that happen or do not.
Morning-signal's units (sections 2b, 2c) are installed by the same comparison as
box-health's and share its action.
