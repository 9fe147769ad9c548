# WallPilot in TLA+

WallPilot is a web panel for the firewall of one Linux host. Its promise is that
a change of the firewall is first *tried*, and goes away by itself unless the
administrator confirms within 90 seconds that the host is still reachable. This
directory models the code that keeps that promise, checks it with TLC and proves
part of it with TLAPS. Paths below are relative to the repository's root.

## The system

One root agent (`wallpilot/agent.py`) holds the firewall adapter; the
unprivileged web process (`wallpilot/app.py`) calls it over a Unix socket
(`wallpilot/agent_client.py`); both the web process and the command line
(`wallpilot/cli.py`) read and write one SQLite file (`wallpilot/storage.py`)
through `ControlPlane` (`wallpilot/control.py`).

| Component | State | Operations | What is hard | What makes it correct |
|---|---|---|---|---|
| Trial of a rule (control, storage, app) | `drafts`, `apply_sessions`, the firewall's rules | create and confirm a draft, confirm or roll back a session, the watchdog's `rollback_expired`, `emergency_rollback` | no lock is held across a handler: request threads, the watchdog and the emergency process interleave between any two transactions; crashes; failing or lost calls | unconfirmed changes leave no trace, confirmed ones stay, an expired trial is never confirmed, every trial ends |
| Recycle bin (storage, app) | `recycle_bin`, JSON snapshots | add on confirmation, restore (one, a batch), purge | the row, the session and the firewall change in separate steps | nothing deleted is lost; a restore is a trial like any other |
| Temporary rules (control, storage) | `temporary_rules`, firewalld's timers | schedule, `expire_temporary_rules` | shares the watchdog's round with rollbacks that may raise | a lapsed rule does not stay |
| Batches and objects (control, firewall) | zones, policies, services, IP sets | `begin_batch_apply`, `begin_object_apply`, `apply_object`, reload | many steps, each compensated by hand; a reload replaces the runtime rules | all or nothing; no other trial disturbed |
| Service actions, detection (control, firewall) | the active backend, its run state | `service_action`, `refresh_backend`, `emergency_start` | stopping a firewall changes what detection finds | the inverse reaches the backend that was stopped |
| Agent and client | the agent's detection and adapter, calls in flight, the backend the web process remembers | `call`, `handle`, `dispatch`, `refresh` | every call is a thread that replaces and reads shared fields; a call the client gave up on goes on; both sides remember a backend that may have changed | rules reach their own backend, what is confirmed is as asked, a rollback undoes the trial, every request is answered |
| Accounts (storage, app, security, cli) | `admin`, `sessions`, `login_attempts`, `recovery_codes`, the bootstrap settings and file | `bootstrap`, setup, login, logout, verify | checks and records in separate transactions, a token in three settings and a file | one setup, one session per recovery code, limits hold, what has ended stays ended |
| Rules as elements of zones (firewall, firewalld_dbus, models) | firewalld's zones, the default zone | `list_rules`, `apply_rule` | which element a rule stands for is decided twice; the default zone is looked up in every call | a listed rule names what it was listed for, both configurations agree between trials |
| Import and batch planning (control) | none | `prepare_import`, `prepare_delete_batch`, `object_dependencies` | pure, but order matters | what a plan adds or deletes, and in which order |
| Metrics, doctor, settings, pages | read-only or local | – | – | – |

They meet in the SQLite tables (every handler, the watchdog and the command
line write them), in the adapter calls, and in systemd's units
(`deploy/wallpilot-web.service`: `ExecStopPost` runs `emergency-rollback` when
the web process ends, `Restart=on-failure` starts it again).

## Modules

| Module | What it is |
|---|---|
| `ApplyProtocol` | the detailed specification: rules on trial, temporary rules, the recycle bin of rules |
| `DraftLifecycle` | the abstract specification: the state machine of `docs/api.md`, with the firewall beside it |
| `CalmApply` | assumptions on the administrator, and the refinement mapping from `ApplyProtocol` to `DraftLifecycle` |
| `MCApply` | symmetry for TLC |
| `ApplyProofs` | theorems about `ApplyProtocol` and their proofs |
| `CalmProofs` | theorems about `CalmApply`, the refinement among them, and their proofs |
| `BatchApply` | batches of rules and objects on firewalld: imports, batch deletions, their restoration, drafts of one object |
| `MCBatch` | a small zone with its rule, and symmetry, for TLC |
| `BatchProofs` | theorems about `BatchApply` and their proofs |
| `ServiceControl` | detection of the backend, starting and stopping it, service sessions |
| `MCService` | symmetry for TLC |
| `ServiceProofs` | theorems about `ServiceControl` and their proofs |
| `AgentChannel` | calls to the agent: its threads, late calls, restarts, and what either side remembers of the backend |
| `MCAgent`, `AgentProofs` | two rules, one for each backend; theorems and proofs |
| `ZoneRules` | rules as firewalld's zones hold them: how they are listed and what a change of one names |
| `MCZones`, `ZoneProofs` | an element of every kind in two zones; theorems and proofs |
| `Accounts` | bootstrap token, setup, login, recovery codes, web sessions |
| `MCAccounts`, `AccountsProofs` | a small instance; theorems and proofs |

`ApplyProtocol`, `BatchApply` and `ServiceControl` model the three kinds of
session that `confirm_apply` and `rollback_apply` serve. `ApplyProtocol` has the
interleavings of handlers, in `BatchApply` and `ServiceControl` one handler runs
at a time while trials overlap; there what is hard is inside one handler.
`AgentChannel` and `ZoneRules` look into the adapter call that is one step in
`ApplyProtocol`: the one at its way to the backend and back, with one handler of a
rule at a time, the other at what it does to firewalld's zones, with one change
at a time. `Accounts` shares only the database with them.

### How ApplyProtocol corresponds to the code

A step is one SQLite transaction or one adapter call of a handler, because those
are the points where another thread or process sees a difference. `pc[a]` says
which step actor `a` takes next, `job[a]` what it works on. The actors are the
threads of the server's pool (`Workers`), the watchdog task and the
emergency-rollback process.

| State | In the code |
|---|---|
| `drafts`, `sessions`, `items`, `schedule` | tables `drafts`, `apply_sessions`, `recycle_bin`, `temporary_rules` |
| `overdue` | sessions whose `deadline` is at or before now |
| `schedule[r] = "due"` | an `active` row whose `expires_at` is at or before now |
| `runtime`, `permanent` | the rules the backend has; for UFW only `runtime` |
| `timed` | rules firewalld was given a timeout for |
| `todo`, `dueRules` | the row lists a pass of the watchdog or the command line goes over |
| `up`, `restartDue`, `stopPost` | the web process runs; systemd will start it again; it owes an `ExecStopPost` |
| `watching` | the watchdog's task has another round to go |
| `start` | history: the rules at the start, for the properties only |

| Handler | Actions, in order |
|---|---|
| `POST /drafts`, `/recycle-bin/{id}/purge` | `CreateDraft`, `PurgeItem` |
| `POST /recycle-bin/{id}/restore` | `ReadItem`, `ListRules` (which writes the draft), or then `MarkFound` for a rule that is there |
| `POST /drafts/{id}/confirm`: `confirm_draft_code`, `begin_rule_apply` | `ReadDraft`, `MarkApplying`, (`ResetDraft`), `ApplyRuntime`, `OpenSession` |
| `POST /apply-sessions/{id}/confirm`: `confirm_apply` | `ReadForConfirm`, `Persist`, (`UndoPersist`, then rollback), `ScheduleExpiry`, `AddRecycleItem`, `MarkRestored`, `SetConfirmed`, `DraftConfirmed` |
| `rollback_apply`, from a request, the watchdog or the command line | `RequestRollback`, `ReadSession`, `RunInverse`, `SetRolledBack` and `DraftRolledBack`, or `SetRollbackFailed` |
| the watchdog's round | `RollbackExpired`, rollbacks oldest first, `ListDue`, `ExpireRule`, `SetExpired` or `SetExpirationFailed` |
| `emergency-rollback` | `EmergencyRollback`, rollbacks oldest first |
| environment | `Deadline`, `ScheduleDue`, `TimerEnds`, `Crash`, `Reboot`, `Restart` |

A row in the recycle bin that is purged stays in the model as `"purged"` (the
code deletes it), so that properties can speak of it. Creating a draft is one
step, and so are listing the rules for a restoration and writing its draft: what is
read first decides only whether the draft is made. Marking a row restored is a
step of its own, for by then the rule may be gone. A wrong
confirmation code changes nothing and is no action.

What an adapter call answers is taken from how the code calls the backends:
firewalld refuses to add what it has and to remove what it has not, UFW answers
both with success; the agent refuses a rule `update`. Besides, a call may fail
on its own before or after it took effect (`Faulty`, bounded by `MaxFaults`):
the client stops waiting after 15 seconds and the agent's thread goes on.
Snapshots and backups before a change only raise; for the protocol that is a
call that failed before it took effect.

Outside the model: failures of SQLite and of the disk, the text and parsing of
rules, a backend that changes by itself, calls that take effect after their
caller has gone on (`AgentChannel` has them), and the direct adapter. The web
process falls back to that one, silently, when the agent's socket is not there at
its start (app.py:85-96); the deployment orders the units, but the agent's, of
`Type=simple`, counts as started before it listens.
`FirewalldDBus._runtime_change` passes a timeout to removals as well as to additions;
the model takes the call as the code means it.

### How BatchApply corresponds to the code

A step is one adapter call or one SQLite transaction. A configuration is a set of
objects and a set of rules; `Home` says which rule is inside which object (a rule
of a zone, what a policy or service lists), and a rule of an object that is gone
is no configuration. `run` is firewalld's runtime, `perm` its permanent
configuration.

| State | In the code |
|---|---|
| `drafts`, `sessions` | the tables' rows of kinds `batch` and `object`; a draft has at most one session, so both are by draft |
| `bin` | `recycle_bin`, by batch and member: the rows a repeated confirmation writes again count once |
| `pc`, `job`, `todo`, `done` | where the handler is, and the loop variables `applied_rules`, `applied_objects`, `persisted` |
| `found` | `current_object`, `before`, `live_objects`: what the handler read of the objects |
| `base` | history: how the last draft begun found the firewall |

| Handler | Actions, in order |
|---|---|
| `POST /import`, `/batch-delete`, `/drafts`, the restore of a batch | `PrepareImport`, `PrepareDelete`, `PrepareObject`, `Restore` |
| `begin_batch_apply`, `begin_object_apply` | `Begin`, `ApplyMember` for each member, then `OpenSession`, or `UndoMember` for each done and `GiveUp` |
| `confirm_apply` | `Confirm`, `Persist` for each rule, (`Unpersist`, `PersistenceFailed`, then rollback), `Persisted`, `Record` for each row, `Recorded`, `DraftConfirmed` |
| `rollback_apply` | `RollBack`, `RollBackMember` for each, `SetRolledBack` and `DraftRolledBack`, or `SetRollbackFailed` |

`Turn` is the order of the calls: objects by `object_order` and before rules when
adding, the other way round when deleting; equals come in any order, as their
order is that of the request. Every change of an object ends in a reload, so
`ObjectResults` and `UpdateResults` make `run` the new `perm`. Their outcomes with
a fault are what the steps of `apply_object` leave when one of them raises. The
deadline is not modelled: a pending session may be confirmed or rolled back.

### How ServiceControl corresponds to the code

The agent detects the backend before every call (`AgentOperations.refresh`) and
then acts on it, so a call in the model is aimed at `Detected(active)`. `active`
and `enabled` say which backends filter and which start with the host; for UFW
these are one switch (`ufw enable`, `ufw disable`), for the others systemd's.
`ServiceAction` and `OpenSession` are `service_action` before and after the row it
writes; `RollBack` and `SetStatus` are `rollback_apply`; `Confirm` is
`confirm_apply`, which does nothing to the firewall for this kind;
`EmergencyStart` is the command. A reboot brings up what is enabled, and perhaps
read-only rules of other programs (Docker's, for one). `base` is history: what the
last action found, and its session unless another was open.

Outside: hosts without systemd (every action raises there), the direct adapter,
whose `refresh_backend` would do as the agent does, and the snapshot and backup
taken first, which only raise.

### How AgentChannel corresponds to the code

The agent answers every request in a thread (`asyncio.to_thread`, agent.py:220) on
one `AgentOperations`, so a step of `dispatch` is one reading or writing of
`self.detection` and `self.adapter`: `Detect`, `Compare`, `Replace`, `Adapt` are
`refresh`, `Check` compares the rule's backend, `Use` reads the adapter again, `Act`,
`Refuse`, `Fail` and `Hang` are what the backend does: commands have time limits
(runner.py), D-Bus calls to firewalld have none (firewalld_dbus.py) and may never be
answered, whether they took effect or not; the client then gives up after its 15
seconds (`TimeOut`). `call[k]` is the call of the process `k`
under way, or its answer not yet read; a call whose client gave up while the agent
was at work (`GiveUp`) goes on under a name in `Late`.

The web process is a handler for each rule (`begin_rule_apply`, `confirm_apply`,
`rollback_apply`, `expire_temporary_rules` as far as they call the adapter) and a
thread that polls the status. `remembered` is `RemoteFirewallAdapter.backend`: set
by each status that is answered (the snapshot before a trial is one), read when a
trial begins, when a confirmation decides about the permanent call or the
lifetime, and when a due rule is deleted. `Switch` is another firewall taking over,
by `service_action` or by anybody else; leaving firewalld its runtime rules are
gone. `AgentRestart` is systemd's: calls under way are lost, and their clients read
the end of the stream.

Abstracted: a status call that is given up is one that failed; the pool of
threads is never exhausted; a mistaken `ConnectionRefused` before the restarted
agent listens is the end of the stream as well; objects and service actions do
not occur as calls. Signatures and nonces are left out: the client signs each
request once with a fresh nonce, and no path of the code sends one twice.

### How ZoneRules corresponds to the code

`Elements` are what a zone's settings hold, each kind with the arguments of its
`change_...` method (firewalld_dbus.py); texts, addresses and ports are words. A
rule is a `FirewallRule` without the fields no firewalld rule here has; its
id is computed from all its fields (`fingerprint`), so the rule stands for its id.
`Listed` is `list_rules`, `Named` the branches of `apply_rule` in their order,
`RichText` is `_rich_rule`, `ZoneOf` the zone each call looks up. `Write`,
`PickListed`, `PickDeleted` and `FindRestored` draft a change as `create_draft` and
`restore_recycle` do, refusing what is listed already; `Try`, `Confirm` and
`RollBack` make it at runtime, make it permanent (or compensate) and take it back.
firewalld refuses to add what is there, to remove what is not, and a rich rule
that says only `rule drop`.

Abstracted: handlers are one step and no call fails on its own (both are in
`ApplyProtocol`); rows of one rule in the recycle bin are one; lifetimes are left
out. Written rules are those of the web page's form: a port or a service, no
metadata.

### How Accounts corresponds to the code

A step is one SQL statement, one transaction of several, or one access to
`bootstrap.txt`; Python's `sqlite3` opens a transaction at the first `INSERT`,
`UPDATE` or `DELETE`, so the `SELECT` before an `UPDATE` is a step of its own.
Generating a token generates its TOTP secret too; both are a member of `Gens`, and
`boot` says which generation each setting comes from. Writing the file is two
steps, truncating and writing.

| Handler | Actions, in order |
|---|---|
| `wallpilot bootstrap`: `ensure_bootstrap` | `BootstrapReadExpires`, `BootstrapReadFile`, then, for a new token, `SetHash`, `SetSecret`, `SetExpires`, `TruncateFile`, `WriteFile` |
| `POST /auth/setup`: `create_admin` | `Setup`, `ReadHash`, `ReadExpires`, `ReadSecret`, `CreateAdmin`, `Unlink` |
| `POST /auth/login`: `authenticate` | `CheckRateLimit`, `ReadAdmin`, (`ReadCode`, `UseCode`), `OpenSession` or `RecordFailure` |
| any other request: `verify_session`, and `logout` | `Request`, `DropSession` or `Touch`, (`Logout`) |

A setup presents a token some command printed, with a right TOTP of that
generation; other tokens are refused at once and are left out. Logins come from
one source: attempts of different sources are counted apart.

## What TLC checks

Passing runs:

* `apply_interleaved` (firewalld, two request threads, one draft submitted
  twice, two sessions, two recycle bin rows, one crash or reboot): `TypeOK`;
  `ConfirmedDeleteInBin`, a deletion is confirmed only after its recycle bin row
  is written, under every race of confirmations and rollbacks; `DeletionsKept`, without
  a crash no race takes a permanent rule away that is not in the recycle bin either;
  `LapsedStaysLapsed`, once the deadline has passed with no confirmation under
  way, nobody confirms the session any more. Two threads and two sessions are
  what a race needs; a third repeats them.
* `apply_restarts` (UFW, two drafts of a guarded rule, deletions and restorations with
  a lifetime, one failing call, one failure, clean stop or reboot, fairness, Python
  3.11 or newer): `EverySessionSettles` and `EveryDueRuleExpires`. Two sessions are
  needed because a rollback that raises ends the round of the other; one fault makes it
  raise, also between the scheduling of a restored rule, which may fall due at once,
  and the end of its confirmation. Where the administrator has stopped the unit
  nothing starts it again: lapsed rules may then stay, and so may a trial if a call of
  `ExecStopPost` failed.
* `apply_calm` (firewalld, three drafts of one rule in turn, one failing call,
  one emergency rollback): `RuntimeSettled` and `PermanentSettled`, when all
  trials have ended the firewall holds the rules at the start plus what was
  confirmed; `NothingLost`, a permanent rule that is gone is in the recycle bin;
  `ImplementsLifecycle`, the handlers refine `DraftLifecycle`; `RestoredIsBack`, a
  confirmation marks a recycle bin row restored only once its rule is permanent. Three
  drafts let a rule be deleted, restored and changed again.

* `batch_whole` (firewalld; a temporary rule of the default zone, a zone and a rule
  inside it; two drafts; one failing call, one crash or reboot; every initial
  configuration with `run = perm`): `TypeOK`, no rule outlives its zone in either
  configuration whatever fails; `DeletedBatchInBin`, a confirmed deletion has a row
  for every member, also when a crash comes between two rows;
  `SeparableBatchIsWhole`, a batch is applied as a whole or not at all. The last is
  judged when no other trial was open, no call failed on its own and nothing
  crashed, and leaves out the batches that the reload disturbs (`Separable`).
  Two drafts let a batch be deleted and restored, or two trials overlap; a zone
  and its rule are the smallest case in which the order of the calls matters.
  What an object requires (`Needs`) is empty in this instance: with the required
  service as a second object the state space is too large for the run.
* `service_detected` (firewalld, UFW and nftables in every combination, UFW
  preferred; two sessions; one failing call; one crash or reboot): `TypeOK`;
  `DetectedRollsBack`, a stop or disabling rolled back leaves every backend as it
  was found, if detection finds that backend again; `NoSecondStarted`, no action,
  rollback or emergency start brings up a second managed firewall, which would
  put the host in conflict mode. Both managed backends are needed for a conflict,
  one read-only backend for the case that something else is found; iptables would
  repeat nftables.

* `agent` (a firewalld rule to be added for good, a temporary UFW rule; one of
  them tried; the poller; one switch of the host's firewall; one failing, hanging or
  late call or restart of the agent; deadlock is checked): `RightBackend`, no
  backend gets a rule made for the other; `ConfirmedAsAsked`, what is confirmed is
  permanent or has its expiry; `OneFailureIsUndone`, an answered rollback leaves the
  permanent configuration as before, through the compensation of a failed confirmation too;
  `EveryRequestEnds`, under fairness: by an answer, or by the client's time limit where
  firewalld does not answer.
  One rule tried and the poller are two calls at once, which is what a race for
  the agent's fields needs; one fault is what one compensation is for.
* `zones` (two zones holding any two elements of nine, one of each kind; five
  rules to write, with a zone, without, with a comment, as a rich rule, of a
  service; two changes; one change of the default zone): `NoSharedIds`, two
  elements in force never read as one rule; `TrialActsOnListed`, a trial of a rule
  as listed touches the element it was listed for; `InStep`, both configurations
  agree between trials. Two changes let a rule be deleted and restored, or deleted
  and written again and its row found restored.
* `accounts` (two request threads, one bootstrap command, one recovery code, a
  clock, one crash; the limits small but apart from each other): `OneSessionPerCode`,
  `FailuresBounded`, `SecretWasShown`, `TokenWorks`, `SetupOnce`, `EndedStaysEnded`,
  `LetThroughInTime`. Two threads are what a race for a code, for the limit or
  between a logout and a touch needs; the proofs have any number.

Runs whose violation is the result (`PROJECT.json`, "findings"):

* `apply_python310` (UFW, one addition, no crash, no failing call): the watchdog waits
  with `asyncio.wait_for` and catches `TimeoutError`; on Python 3.10 what is raised is
  another class, `asyncio.TimeoutError`, and the task ends after its first round
  (app.py:116-119). A trial nobody confirms then stays (`EverySessionSettles`).
* `apply_crash`: the change is made before its session is recorded; a crash in
  between leaves a change no pass knows of (`NothingUntracked`).
* `batch_reload`: a batch deletes a rule at runtime and then a zone, whose reload
  brings the rule back; nothing is deleted of the rule during the trial, and the
  rollback, adding what is there, fails (`BatchIsWhole`). This is why
  `SeparableBatchIsWhole` leaves mixed deletions out.
* `service_wrong_backend`: firewalld is stopped where UFW is installed and
  preferred; by the time of the rollback detection prefers UFW, and UFW is turned
  on instead (`ServiceRollsBack`). This is why `DetectedRollsBack` asks for
  `StillDetected`.

### Counterexamples

Four more configurations, to be run by hand, end in a counterexample; with
`apply_crash` the first three are why `CalmApply` assumes what it does.

* `ApplyRace.cfg` (module `MCApply`): `confirm_apply` and `rollback_apply` check the
  status in one transaction and write it in another, by id alone; a confirmation
  and a rollback both pass and the later write wins (`SettledIsFinal`).
* `ApplyOverlap.cfg` (`CalmApply`): passes undo the oldest trial first. Add R, delete
  R, no confirmation: the delete of R finds nothing to remove, then R is added back
  (`RuntimeSettled`, with UFW, which answers the first with success).
* `ApplyCompensation.cfg` (`CalmApply`): if the permanent call is refused because the
  permanent rules are already as asked, the compensation deletes a rule that was
  there before, and no recycle bin row is written (`NothingLost`).
* `ApplyRestoreRace.cfg` (`MCApply`): `restore_recycle` lists the rules through the
  agent (app.py:511) and marks the row restored in a later transaction (513). If the
  rule it found was on trial, the watchdog may roll the trial back in between: the row
  says 'restored' and the rule is nowhere (`FoundIsBack`).

### Assumptions of CalmApply

* `Exclusive`: no two handlers work on one draft or session at once.
* `OneTrial`: a draft is submitted while no other trial of its rule is open, its
  rollback failed or its draft stuck in `applying`.
* `Meaningful`: a draft is submitted while its change still changes something.
* `CalmInit`: firewalld's runtime and permanent rules agree at the start.

The code enforces none of them. Each is written as a condition on states that
the next-state relation keeps (`CalmNext`), so no action is rewritten.

### Fairness

`Fairness` asks that the watchdog task goes on while it has rounds left, that a
thread or process in the middle of a handler takes its next step (a call that is not
answered is given up after 15 seconds), that time passes, that systemd runs
`ExecStopPost`, and that it starts the service again after a failure
(`Restart=on-failure`) or a reboot. It is not assumed to start after a clean stop
(`Crash(FALSE)`): `Restart` may happen then, by the administrator. Whether the watchdog has
rounds left is `watching`: always with `CatchesTimeout`, Python 3.11 or newer, where
`TimeoutError` and `asyncio.TimeoutError` are one class; one round without. Nothing is
assumed about requests: the administrator may never answer. Weak fairness suffices, since each of these is
enabled until it happens.

In `AgentChannel` it asks that a thread of the agent takes its next step unless it
hangs in a D-Bus call (`"hung"`, from which no action of the agent leads on), that the
client gives such a call up after 15 seconds (`TimeOut`), and that a thread of the web
process reads an answer and goes on. It asks nothing of `GiveUp`, `Poll`, `Switch`
or the administrator, and nothing of calls given up.

### Bounds

`MaxSessions`, `MaxItems`, `MaxFaults`, `MaxCrashes` and `MaxEmergencies` bound
the state space; in `BatchApply` and `ServiceControl` so do `Drafts` and
`SessionIds`, whose members are used once. A request that would need a row beyond a bound is not started
(`SessionRoom`, `ItemRoom`); a request once started never blocks on a bound.
In `Accounts` a bootstrap command waits when all `Gens` are used up, a login for a
row of `Rows` and a member of `Cookies`. In `AgentChannel`, `MaxTrials`, `MaxSwitches`,
`MaxFaults` and `Late` bound it, in `ZoneRules` `MaxTrials` and `MaxDefaults`.
All runs but `agent`, where the poller may always ask again, disable TLC's deadlock
check: with its ids used up the system may stop.

### What the runs do not claim

`apply_calm` has no crashes: with one, `PermanentSettled` fails too (a crash
after the permanent call and before `SetConfirmed` leaves the permanent rule
while the watchdog rolls the runtime back). A firewalld reboot while a trial is
pending makes its inverse fail, and the session ends `rollback_failed`, which
`EverySessionSettles` counts as an end, as the code does: it is not tried again.

`RuntimeSettled` and `PermanentSettled` leave out rules with a draft stuck in
`applying`: a runtime call that was given up may have taken effect, and nothing then
knows of it, as in `apply_crash`. `DeletionsKept` has no crash (a permanent deletion
whose recycle bin row was not yet written is lost with one) and leaves out rules
somebody asked to add (`ApplyCompensation.cfg`). That the agent's adapter is the one
of its detection is not claimed: two calls that replace the detection at once may
leave the adapter of one with the detection of the other, and since later refreshes
compare detections only, it then stays wrong.

Some properties have a condition without which they fail; a history variable
carries it, and dropping it shows the run that breaks them:

* `RightBackend` (`crossed`): the adapter replaced between a call's check and its use
  puts a rule into the other backend.
* `ConfirmedAsAsked` (`misled`): with another backend remembered, a firewalld rule is
  confirmed without being made permanent, or a temporary UFW rule without expiry.
* `OneFailureIsUndone` (`trouble`): a permanent call that was given up may land after
  its compensation; and if call and compensation both fail, nothing tries again.
* `TokenWorks` (`torn`): a bootstrap command that dies between the settings and the
  file, or overlaps another, leaves a file whose token setup refuses, and which later
  commands go on printing until it expires.
* `InStep` (`strayed`): with another default zone by the time a rule without a zone
  is rolled back or confirmed, the call goes to the wrong zone; a permanent addition
  that is refused there because the zone has the element is "compensated" by
  deleting it.

`TrialActsOnListed` holds for ICMP blocks because nothing happens: `list_rules` gives
them the action `deny` (firewall.py:475), so `apply_rule` takes the branch for rich
rules (523) before the one for ICMP blocks (556) and sends `rule drop`, which
firewalld refuses. An ICMP block can be listed and not deleted, although README.md
names ICMP among what is supported.

## What is proved

`ApplyProofs` proves, for any sets of rules, drafts and threads, either backend
and all bounds:

* `InvHolds`: `Spec => []Inv`, `Inv == TypeOK /\ RowsExist /\ HoldsRow`.
  `TypeOK` alone is not inductive: a handler writes to the row whose id it has in
  hand, so the row must be there (`HoldsRow`), and so must the rows other rows
  refer to (`RowsExist`). Each action has a lemma; all of them rest on lemmas about
  adapter calls (`ResultsType`), about control flow (`GotoMoves`,
  `ProceedMoves`, ...) and about one-row updates (`SessionStatus`, ...). Every
  step also satisfies `RowsStay`: no row disappears or changes what it refers to.
* `TypeCorrect`: `Spec => []TypeOK`. Its core is that no session is ever opened
  for an `update`: `ApplyRuntime` goes on only after a call that was not one.
* `DeletionsRecoverable`: `Spec => []ConfirmedDeleteInBin`, by the inductive
  `BinInv == Inv /\ BinWritten /\ ConfirmedDeleteInBin`: whoever is past the
  recycle bin step of a deletion has written the row.
* `DeadlineHolds`: `Spec => LapsedStaysLapsed`. `ConfirmEntry` shows that
  `ReadForConfirm` is the only way into a confirmation, `OnlySetConfirmed` that
  only its last step but one confirms.
* `RestorationsHold`: `Spec => RestoredIsBack`, on firewalld and with one thread, by
  `RestoreInv`: a session of a restoration is an addition, and at `markRestored` its
  rule is permanent or has a lifetime. The bounds on crashes and faults are any:
  neither takes a permanent rule away. With two threads the confirmation of a deletion
  may run between the permanent call and the mark. It speaks of confirmations; what a
  restoration marks that found its rule in force is `FoundIsBack`, which is false.
* `DeletionsAreKept`: `Spec => []DeletionsKept`, with every interleaving, by `KeptInv`: a
  permanent rule that is gone has a row, or a confirmation of its deletion is on its
  way to write one, or the one call that may fail on its own was its permanent call,
  whose compensation is on its way.

`CalmProofs` proves, for any rules, drafts, threads and bounds, but without crashes
and lifetimes (`Undisturbed`: a crash leaves changes that no session tracks, see
`apply_crash`, and a lifetime ends a rule with no session deciding it):

* `CalmInvHolds`: `CalmSpec => []CalmInv`. `RuntimeSettled` speaks of quiet states and
  is far from inductive; `CalmInv` says what holds in between. `TrialRows`: sessions
  are numbered in order, one per draft, and an open one is the last of its rule.
  `Handlers`: the row a handler works on is still as it read it, which the code does
  not guarantee and `Exclusive` does. `RulesFit`: a draft about to be tried asks for
  a change (`TryFits`), a pending trial is in force until its inverse has answered
  (`TrialFits`), and a rule with neither is as the confirmed changes left it. The
  actions fall into a dozen kinds of step (`StepKind`: a walk that changes no draft
  and no session, a new row, ...), and each kind has its lemma.
* `SettledTrialsFit` (`RuntimeSettled`) follows from it.
* `LifecycleImplemented` (`ImplementsLifecycle`): `CalmInv` turns each kind of step into
  the action of `DraftLifecycle` for one draft or into a stutter (`StepMaps`). It
  assumes that there is a rule, for a draft that does not exist is mapped to some
  change of one.
* `SettledTrialsPermanent` (`PermanentSettled`), on firewalld, by `PermanentFits`:
  between the permanent call and `setConfirmed` the permanent rules are ahead of the
  sessions, and a handler is at the compensation only once a call has failed. Hence
  `MaxFaults =< 1`: where the compensation fails too, the permanent rules keep a
  change whose session is rolled back, and the property is false.
* `NoRuleLost` (`NothingLost`), under `CalmSpec`'s conditions and the same assumptions: a
  permanent rule is gone only by a confirmed deletion (`HasLast`), which has its row (`BinWritten`), and the
  row is of that rule (`ItemsOfSessions`).

`BatchProofs` proves, for any rules, objects, nesting, drafts and bounds:

* `InvHolds`: `TypeOK` strengthened by what the handler holds at each stage: the
  kinds of members in `todo` (`TodoKinds`), the rows it will write to (`HasDraft`,
  `HasSession`, `SessionsHaveDrafts`), and for each member of a deletion a row or a
  turn to come (`Recording`). Lemmas show that every answer of the adapter leaves
  a configuration (`ObjectConfigs`, `RuleConfigs`, `MemberResultsSound`).
* `TypeCorrect` and `BatchDeletionsRecoverable` (`DeletedBatchInBin`) follow from it.
* `SeparableBatchesWhole` (`SeparableBatchIsWhole`), by `WholeInv`. The property compares
  the configurations with `base`, those the trial began with, and only between
  handlers; `Fits` does it at every step. `InForce` and `InForceForGood` are the
  members in force and permanent at each stage, `Changed(base, d, D)` is what the
  members `D` make of a configuration, and `Reversible` says that these changes can
  be told from what was there. Lemmas show that doing a member adds it to `D` and
  undoing it takes it from `D`: a rule alone (`RuleDone`, `RuleUndone`), an object
  with the rules inside it (`ObjectDone`, `ObjectUnmade`, `ObjectRemade`,
  `ObjectUpdated`); `TurnOfKind` has the objects' turn before the rules'. `RowsInv`
  adds that `base` stays right: a trial begun alone stays alone (`Alone`) and is
  submitted once. As in the property, this is for trials begun alone while calls are
  answered truly and nothing has crashed. The theorem also covers what an object
  requires (`Needs`), which is empty in the run.

`ServiceProofs` proves, for any installed backends, preference and bounds:

* `TypeCorrect`: rests on `ControlledInstalled`, what is detected and controlled is
  installed, and on `HoldsPending`, the session being rolled back is still pending.
* `NeverTwo` (`NoSecondStarted`): by `DetectedIsActive`, while at most one managed
  backend is active a managed backend that is detected is that one.
* `RollbackRestores` (`DetectedRollsBack`): the inductive `HistoryInv` follows the
  action: until its session is opened (`Opening`), while it is the only one open
  (`Alone`) and until it is settled (`Followed`) the action's effect is in force
  (`AsDone`); `InverseUndoes` shows that the inverse is then aimed at the same
  backend and brings back what was found.

`AgentProofs` proves, for any rules, backends, late calls and bounds:

* `TypeCorrect`, with `CallInv`: what a call is about is what its caller asks.
* `RulesGoHome` (`RightBackend`), by `RouteInv`: a call past its check has its rule's
  backend as the adapter, or `crossed` holds.
* `ConfirmedStays` (`ConfirmedAsAsked`), by `StagedInv` and `LateInv`: at each stage of a
  confirmation, which of its calls are under way, given up or done, and in which
  configuration the rule is by then.
* `RollbackUndoes` (`OneFailureIsUndone`), by `OutcomeInv`: the permanent call took
  effect or it failed, the compensation likewise, and only two failures (a call that
  hung is one) leave the rule behind.

`ZoneProofs` proves, for any zones, words and rules:

* `IdsAreNotShared` (`NoSharedIds`) and `TrialsActOnListed` rest on `ListedNames`: for
  every element, `Named(Listed(z, e)) = e`, or the element is an ICMP block and what
  is named is refused. Two elements listed alike are then equal (`ListedApart`).
* `ZonesStayInStep` (`InStep`), by `TrialInv`: during a trial the runtime is the
  permanent configuration with a change it accepts; `InverseUndoes` takes that back.
* `TypeCorrect`, by `SoundInv`: every rule changed or in the bin was drafted or listed.

`AccountsProofs` proves, for any threads, commands, codes and limits: `TypeCorrect`,
`AdminHoldsSecret`, `SetupHappensOnce`, `CodesOpenOneSession` (a code is used by the
one that opened a session by it or is about to), `FailuresAreBounded` (logins under
way and failures counted together), `SessionsStayEnded`, `SessionLimitsHold` (a row's
last touch is no later than its last use) and `TokenGoesOnWorking` (what a command
has written at each stage, and that it is alone unless `torn`).

The proofs use the named assumptions of the modules and the hypotheses stated above.
Every safety property of a passing run, and the refinement, is a theorem, under the
assumptions its run makes on the constants or weaker ones. Only model-checked:
liveness (`EverySessionSettles`, `EveryDueRuleExpires`, `EveryRequestEnds`), which is
out of TLAPS' reach.

## Plan

Done: rules on trial, temporary rules and the recycle bin (`ApplyProtocol`);
batches and objects (`BatchApply`); service actions (`ServiceControl`); the agent and
its client (`AgentChannel`); rules as elements of zones (`ZoneRules`); accounts
(`Accounts`). Next, in this order:

1. `ApplyProtocol`: lifetimes renewed while the watchdog expires them; batches of
   UFW rules, which are permanent at once.
2. UFW's counterpart of `ZoneRules`: the lines of `ufw status numbered` and the
   arguments a deletion makes of them.

## Not modelled

UFW's and nftables' texts (`firewall.py`, `runner.py`), host metrics
(`system_info.py`), diagnosis (`doctor.py`), settings, pages and the audit log:
they keep no state the properties depend on. Of the agent, signatures, the nonce
window, peer credentials and size limits: without a sender that misbehaves they
refuse nothing. The direct adapter, which the web process takes when the agent's
socket is missing at its start: with it the watchdog's calls of `asyncio.run` raise
inside the running event loop (firewalld_dbus.py:26).
