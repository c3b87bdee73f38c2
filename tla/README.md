# Models and proofs of the IT asset and operations platform

The repository is a Flask application (SQLAlchemy, APScheduler, Socket.IO) that
keeps an inventory of devices and runs their operation: monitoring, alerts,
discovery, NetFlow, BMC management, automation, change control. This directory
holds TLA+ models of its stateful parts, TLC configurations that check them, and
TLAPS proofs about them. Every definition was read off the code under `src/`;
`PROJECT.json` names the lines of each.

## 1. The system

### How it runs

One process serves everything. Requests run on the threads of the WSGI server
(waitress, 16 threads); periodic work runs on the threads of one APScheduler;
several services start threads of their own (the pool of an automation task, the
two threads of a NetFlow collector, the workers of a discovery task). (`wsgi.py` also
documents `gunicorn -w 4`. Under it each process has its own Events, collectors and
scheduler, and a cancel or a stop that another process serves finds none. The models stand
for the single waitress process that the platform's README recommends.) They share

- **the database**, through one SQLAlchemy session per request or job. A session
  reads a row once, keeps what it read, and at commit writes *the columns it
  changed*. Almost nothing locks a row between the read and the commit, so every
  handler is at least two steps and a commit may write a decision taken on a state
  that is gone;
- **dictionaries in the process**: cancel Events of tasks (`_cancel_events`), stop
  Events of discoveries, NetFlow collectors, consecutive failures of devices. They
  are empty after a restart, the database is not.

These two facts are the source of nearly all behaviour that is hard to test here,
and the models are built around them.

### Components

| Component (code) | State | Operations | What makes it correct |
| --- | --- | --- | --- |
| Automation tasks (`services/execution_service.py`, `blueprints/automation.py`) | `exec_tasks.status/approval/schedule`, `exec_task_devices.status`, `_cancel_events`, thread pool | create, run, retry, approve, reject, edit, delete, cancel, roll back, scheduled firing, device workers | a task or row in `running` has somebody who will move it on; a cancel reaches the run; `completed` hides no failure; approval precedes execution; one run at a time |
| CAB approval chain (`blueprints/cab_chain.py`, `maintenance_routes.py`) | `change_requests.status/approval_status/current_stage`, `change_approvals`, active `CABConfig` | submit, submit for approval, decide directly, approve/reject a stage, schedule, start, complete, delete, replace the configuration | stages decided in order; approved means approved in every stage; no chain without a way on; `any` needs one approval |
| NetFlow collector (`services/netflow_service.py`) | buffer, `_running`, `dropped`, batches in flight | receive, enqueue, periodic flush, persist, stop | a record is settled exactly once; memory bounded; drops not overstated; what was queued is settled; threads end |
| NetFlow registry, roll-up (`netflow_service.py`, `tasks/netflow_collect.py`) | `_COLLECTORS`, five-minute aggregates | start/stop/sync, aggregate, thresholds | a probe has at most one collector, reachable by stop; no record falls between windows |
| Device polling and alerts (`tasks/monitor.py`, `services/event_monitor.py`, `utils/event_correlation.py`, `blueprints/alert.py`) | `Device.status`, `AlertEvent`s, status log, `_consecutive_failures` | poll, trap/syslog, ping request, correlate, acknowledge, resolve, reopen, suppress | status converges to reachability; recovery closes the alerts of the outage; SLA sees every outage |
| Escalation (`services/escalation_service.py`) | escalation logs, severities, work orders per group | periodic and requested runs over the active alerts | no message twice for a level, but for faults; levels stay below `max_escalations`; one work order per group; no severity without its level |
| Topology discovery (`blueprints/topology.py`, `scheduler.py`) | task status, stop Events, executor | run, stop, resume, schedule, complete | a task in `running` has somebody who takes it out; a stop stops the run; a registered Event is removed; the job follows the schedule columns |
| Scheduler (`scheduler.py`, `blueprints/sysjobs.py`) | APScheduler jobs, `MonitorSchedule` rows | register, override, pause, resume | every enabled schedule has its job and only that; a paused scheduler can be resumed |
| OOB (`tasks/oob_poll.py`, `services/oob_manager.py`) | sensor counters, SEL ids, firmware jobs | poll, debounce, alert, recover | one alert per anomaly, closed by recovery |
| Links (`tasks/link_monitor.py`, `utils/link_integrity.py`) | connection status, ports | derive status, verify, resolve conflicts | one connection per port; the derived status follows the ports |
| Work orders, SLA, problems, spares (`maintenance_routes.py`, `maintenance_api.py`, `tasks/sla_monitor.py`) | work order status, deadlines | forms | SLA clock against status |
| Assets, cabinets, locations; devices; IPAM; configuration backup; notifications; accounts; service catalogue; reports; migrations | rows | forms, imports, I/O, queries | mostly data entry |

`PROJECT.json` "components" lists all of them with their files and status, and
"hazards" lists, at its line, each thing in the code that a test would hardly
reach, with the property that covers it or the reason why none does yet.

### How components interact

Polling, traps, syslog and OOB polling all write alerts; correlation and escalation
read alerts and create work orders; the SLA reads the status log that polling and
ping requests write. Schedules call into polling, discovery, escalation and the
automation tasks. Automation tasks and approvals share nothing but accounts. A
NetFlow collector meets the rest only through `netflow_records`. The modelled
components meet in the database and in the scheduler: a job of the scheduler fires at
any moment and is an action of each model (`SchedLoad`, `PollProbe`, `Fire`, `Start`);
the alerts that `DeviceAlerts` opens and operators decide about are those that
`Escalation` finds (there `Settle` and `Reopen` stand for all of that); and
`DiscoveryJobs` sets the jobs whose firing is `Discovery!Fire`. Nothing else is shared, so
that each model stands for its environment by letting those steps come at any time.

## 2. The modules

| Module | What it is |
| --- | --- |
| `ExecTask` | one automation task, its device rows, requests, runs and workers |
| `MCExecTask` | symmetry set for TLC; four configurations |
| `ExecTaskProofs` | type correctness and six theorems about runs, rows, cancels and summaries |
| `StagedDecisions` | abstract: what the approval of a change promises about its rows |
| `CabChain` | one change request and its approval chain; implements `StagedDecisions` |
| `MCCabChain` | the stages an administrator may configure; two configurations |
| `CabChainProofs` | type correctness, the order of the stages, complete approval, no dead end, and the refinement |
| `OutageLedger` | abstract: what polling promises about the offline alerts of a device |
| `DeviceAlerts` | the status and the alerts of one device: polls, other writers, operators; implements `OutageLedger` |
| `MCDeviceAlerts` | the instance TLC checks; two configurations |
| `DeviceAlertsProofs` | type correctness, one alert per outage, and the refinement |
| `Escalation` | runs that escalate alerts, over the alerts, logs and work orders they read and write |
| `MCEscalation` | policies for TLC |
| `EscalationProofs` | type correctness, no message delivered twice for a level, the bounds on levels and on work orders, severities that runs write and their logs |
| `Discovery` | one discovery task: requests, stop Events, the executor and the runs |
| `MCDiscovery` | the instance TLC checks |
| `DiscoveryProofs` | type correctness, who takes a task out of `running`, who removes an Event, stops are obeyed and stick |
| `DiscoveryJobs` | schedule columns of the discovery tasks against the jobs of the scheduler |
| `MCDiscoveryJobs` | the instance TLC checks |
| `DiscoveryJobsProofs` | type correctness, and that jobs follow the columns |
| `FlowLedger` | abstract: what a collector promises about records |
| `FlowCollector` | one collector; implements `FlowLedger` |
| `MCFlowCollector` | the instance TLC checks |
| `FlowCollectorProofs` | type correctness, three bounds, and the refinement |

Operators whose comment begins with "Mutant of" are not part of a specification.
Each is a plausible mistake in the definition after it; with the mistake in its place
the property named in `PROJECT.json` fails, which shows that the property depends on
that code.

### ExecTask

`task` holds the columns that control anything, `recs` the status of each device
row, `registered` and `isSet` the Event of `_cancel_events` and the flags of all
Events, and `thr[t]` what thread `t` is doing: its place, the row it loaded (`seen`),
the row it will write (`new`), and, for a run, its Event and its workers.

A handler is split where it touches shared state. `task_run` and the load and commit
of `run_task` are `TaskRun`, `RunLoad` / `RunRefused`, `RunClear`, `RunCommit`,
`RunPool`; the end of a run is `FinishLoad`, `FinishCommit`; a worker goes
`WorkerPick`, `WorkerStart`, (`WorkerSnapshot`), `WorkerFinish`, or `WorkerSkip`, or
ends otherwise: `WorkerLost` if its row is gone, `WorkerBreaks` if a flush or commit of
its is refused, `WorkerHangs` if a call without a time-out never returns. After a refusal
the handler and the `finally` block of `_run_device_exec` use a session that nobody has
rolled back, so they raise as well and the row stays as it was. `Breaks` is the same for
a request or a run: it ends with an error at any of its commits, and what it had committed
stays. Other requests are a `...Load` and a `...Commit`; `cancel_task` and the
mark that `task_cancel` makes after it are `CancelSignal` and `CancelMark`. `Flush`
is the unit of work: a column is written only if the session changed it. This matters:
a session that loaded `cancelled` and sets `cancelled` writes nothing, and a row
another run has meanwhile set to `running` stays so (`WorkerPick` to `resume`).

Abstractions: commands, outputs and devices are left out; a device that has left the
inventory is a nondeterministic outcome of `WorkerSkip`; `task_create` is the initial
state; the load of the task and the signal in `cancel_task` are one step; row ids are
not reused, so `Recs` bounds how often the target can be changed (`Retargetable`); which
rows have a snapshot is followed only where a roll-back may be asked for. Restarts and
failures may come at any time and any number of times.

Two history variables say what such ends leave behind: `torn` the rows whose last worker
was killed or lost its session, `cut` whether a thread that was bound to report was ended
since the last run began. The properties promise nothing about a torn row, and about a cut
run only that the task then waits for a person; for everything else they hold.

### CabChain and StagedDecisions

`chain` maps a row id (stage, slot, building thread) to its approval row. `Begin`
loads the change and the chain, checks the guard of the route and fixes what will be
written; `Commit` writes the changed columns, removes the chain a new submission
replaces and adds the new rows, or fails if the change or the row is gone.
`ActiveStage`, `Satisfied` and `Recompute` are `get_active_stage`, `stage_satisfied`
and `recompute_change_approval`; `Mode` reads the configuration of the moment, as the
code does. `Delete` and `SetConfig` are one step: they check nothing that another
request could change in between.

`lone` records whether two requests have ever overlapped. `ApprovedInEveryStage` and
`NoDeadEnd` hold only as long as they have not: each decision recomputes the change from
the rows its own session sees, and two at once leave a decided chain beside a change
that is still `submitted`. `StageOrder` holds whatever overlaps.

`StagedDecisions` knows only the rows. A chain appears as a whole and undecided, a row
is decided once the stages before it are, by the person it was made for, and a
decision is never taken back, whatever overlaps. `Staged == INSTANCE StagedDecisions WITH
rows <- chain, Chains <- Threads`: a chain is named by the thread that built it.

Abstractions: the configuration is one of those given, the default one of
`get_active_cab_config` among them in shape (an open stage); comments, times, impact
fields and notifications are left out.

### FlowCollector and FlowLedger

`pc` and `batch` say where the UDP thread (`"serve"`), the flush thread (`"flush"`)
and each stopping request are and what they hold. The lock in the code covers exactly
one action (`Enqueue` or `Flush`), so it needs no variable; writing the batch
(`Persist`, `PersistFails`) is outside it. `self.dropped += n` is a read and a write
(`PersistFails`, `CountDropped`). Packets of all protocols are `Packet`: some new
records; the decoders are abstracted to the records they yield, and a packet may end
early (`EndPacket`). `stored` is the table; `dropped` is a history variable.

`FlowLedger` knows only records received, stored and dropped: each is settled once and
a batch as a whole. `Ledger == INSTANCE FlowLedger WITH received <- Received` maps a
collector's buffer, batches and outcomes to it.

### DeviceAlerts and OutageLedger

`status` is `Device.status`, `fails` the device's entry in `_consecutive_failures`,
`alerts` its `alert_events` rows by kind and status, and `thr[t]` what a thread has read
and means to write. A poll is `PollProbe` (`_unified_collect_device`, without a session),
`PollLoad` (`_apply_device_status` up to its commit) and `PollCommit` or `PollRefused`. A
round tries the methods that are due, any non-empty set of them: one that is not due
counts as failed, as in the code. Traps, syslog lines, ping requests and forms, which turn
the status without alerts, are `WriteLoad` and `WriteCommit` with any status; the
operators' requests are `DecideLoad` and `DecideCommit`, and `Decisions` is what they
allow. A request decides about one alert or about all that were selected in a list, with
one commit; if one of them is gone, none is changed (a deletion passes over it). `answers`
holds the methods that the device answers; `rule` what the correlation rule that matches
the offline alert does: nothing, rename it, or open a ticket. `closed` stands for resolved
by `system`, `resolved` for resolved by an operator. `reopened` and `lone` are history
variables, for `OutageHasOneAlert`.

`Broken` is what happens when a flush inside the poll fails: the exception is logged
and ignored, the session is not rolled back, and its commit fails.

`OutageLedger` knows the status, the offline alerts that stand (raised by a poll, and
nobody has decided about them) and whether it is `calm`: only single polls have written
the status, and no rule renames alerts. A poll there is one step, which turns the status
and raises or closes alerts; in the program it probes, loads and commits. `Outages ==
INSTANCE OutageLedger WITH Statuses <- Status, standing <- ActiveOffline, calm <- (lone /\
rule = "none")`. Outside the calm it still promises that alerts are raised and closed
only where the status turns.

Abstractions: one device; a round in which no method is due ends before it reads anything
and is a stutter; the status log and the SLA, suppression, threshold rules and interfaces
are left out. A row that the system closed, or that a rule renamed, is used again
(`Free`), or every run would need unboundedly many. `MaxMoves` bounds outages, requests
and restarts, not polls.

### Escalation

`run[r]` is a run of `_run_impl`, by the scheduler or by a request: which policy comes
next, the pairs of alert and policy that were due when it began, and its session, that is
what it has read of the alerts, links and work orders and what it has changed since.
`Read` begins a transaction. The database is read as of that moment (MySQL's repeatable
read), so `Start` reads everything and later policies do not see what others commit.
`Escalate` is one policy with all its alerts: the messages are sent, severity, log and
work order are only written into the session. `sent` counts what was delivered, which is
any part of it (`Sends`): a channel that refuses a message is ignored, and a policy may
have no channel. The level is logged all the same. `PolicyFails` is the `except` of the
loop: some messages are sent, the session is rolled back with what earlier policies had
put into it, and the next policy goes on with a transaction that begins then. `Commit`
writes all at the end. `level` counts the log rows of a pair, which is how the code counts
levels; `ripe` are the pairs for which the time has come, `Ripen` is the clock. `Rate` is
everybody else who writes a severity: a poll that refreshes an alert (`monitor.py:233`),
the OOB poll (`oob_poll.py:531`), the correlation rules (`event_correlation.py:120-125`).
A run that commits later overwrites their rating with what it chose on an older one. A
savepoint that is rolled back leaves an alert without its order (`ordered`).

Abstractions: runs that find nothing due do nothing; texts, notes and
`escalation_count` are left out (the last loses updates when runs overlap); a
transaction that waits for a row lock is one that takes its next step later. Known
from reading and not asked of the model: a reopened alert keeps its logs, so without
`repeat_interval` it never escalates again; and a policy whose starting severity
another policy has raised past never begins.

### Discovery

`row` is `DiscoveryTask.status`, `reg` the entry of `stop_events`, `isSet` the flags of
the Events, `queued` the executor's queue, `thr[t]` the place of a request and `wk[w]`
that of a run with its Event, the status its session holds (`seen`) and the one it will
write. `api_run_task` and `api_resume_task` are `StartLoad`, `StartCommit`, `Register`,
`Submit`; `api_stop_task` is `StopLoad`, `StopSignal`, `StopCommit`;
`background_discovery` is `Load`, `GetEvent`, `StoreEvent`, `Begin`, the discovery itself
(`SaveFails`, `GiveUp`), `Check` or `Raise`, `Finish`, `Finally`. `Breaks` is a query or a
commit that fails on the way. Sessions do not read again after a commit
(`expire_on_commit=False`), so a run that believes the task is `completed` already
writes nothing when it sets `completed`: that is what `seen` is for.

`stranded`, `stale` and `watch` are history variables that say where the properties
promise nothing, because the code does not either: a crash or a refused commit leaves
`running` behind (`scripts/ops/repair_stuck_discovery_tasks.py` mends such rows); a stop
that comes between the commit of `running` and the registration of the Event is lost; and
a task that is stopped and resumed while the stopped run winds down has two runs, the
first of which removes the Event of the second.

### DiscoveryJobs

`row` holds the schedule columns of each task, `jobs` the job the scheduler has for it.
The requests are split where others get in: an update is `Load`, `Commit`, `Audit`,
`Remove`, (`Sweep`), `Add`, and a session writes the columns it changed (`Flush`) but sets
the job from all that it holds. `Hits` says whose job ids contain the number of a task:
`Sweep` removes those too. `adrift` names the tasks whose job may differ from their
columns, and what makes and unmakes a task so is the content of `JobFollowsRow`.

## 3. What the runs check

| Run | Instance | Properties | Shows |
| --- | --- | --- | --- |
| `ExecTaskOverlap` | 2 threads that may both run the task, 1 device row, 2 Events, all requests but edit; any number of failures, hanging calls and restarts | `TypeOK`, `RunningTaskHasRun`, `RunningRowHasWorker`, `StrandedUntilDecision`, `CancelIsFinal` | overlapping runs, cancels, approvals, deletions and roll-backs leave nothing in `running` that nobody will move, unless its run or worker was killed or lost its session; then only a cancel or a decision moves the task; a pool that was told to stop begins on no further device |
| `ExecTaskSingle` | 1 runner and 1 other thread, 2 rows, 2 workers, 2 Events, edits that retarget | `CancelFindsRun`, `CompletedHidesNoFailure` | with one run at a time a cancel reaches the pool's Event even if it comes while the run starts; `completed` hides no failed or executing device |
| `ExecTaskLive` | 2 runners, 1 row, 2 Events, run and cancel, failures, hanging calls and restarts, fairness | `RunReports`, `ThreadsReturn` | a running task is always reported and a request always ends, unless its run was cut off or waits for a call that has no time-out |
| `ExecTaskApproval` | 1 runner, schedule | `RunsOnlyApproved` (violated) | the schedule runs a task that waits for approval |
| `CabChain` | 2 threads, 2 users, 2 two-stage configurations | `TypeOK`, `StageOrder`, `ApprovedInEveryStage`, `NoDeadEnd`, `StagedSpec` | whatever two requests interleave, a stage is decided after the one before it, by whom it was made for, and for good; as long as none overlap, chain and change agree, although the configuration is replaced meanwhile |
| `CabChainAny` | 1 thread, 1 configuration | `AnyModePasses` (violated) | one approval of an `any` stage does not let the next stage begin |
| `FlowCollector` | 4 records, buffer of 2, packets of 1 or 2, 2 stop requests, fairness | `TypeOK`, `MemoryBounded`, `NeverOvercounted`, `StopLosesOnePacket`, `LedgerSpec`, `QueuedRecordsSettle`, `StopEnds` | nothing lost, stored twice or counted twice while the database fails at will; a stop ends both threads and loses at most the rest of the packet the UDP thread was at |
| `DeviceAlerts` | 1 poll of 2 methods, 1 other thread, 4 rows, alarm after 2 failures, rules that do nothing or rename, 2 moves of the environment, fairness | `TypeOK`, `OutageHasOneAlert`, `StatusConverges`, `AlarmConverges`, `OutageSpec` | whatever stale probes, traps, forms, decisions, refused commits and restarts come: once the device answers by every method, or by none, status and alarm end up right, and an outage has its one alert, raised and closed with the turn of the status |
| `DeviceAlertsTicket` | the same with a rule that opens tickets | `StatusConverges` (violated) | such a rule keeps a dead device `online` for ever |
| `Escalation` | 2 runs, 2 alerts of a group, one of them rated by others as well, a policy that repeats and one that does not, 1 fault | `TypeOK`, `MessagesAccounted`, `LevelsBounded`, `OrdersBounded`, `SeverityHasLog` | no message is delivered twice for a level but for the fault; overlapping runs pass `max_escalations` by one level each and no more, and leave at most one order of a group each; runs that do not overlap keep both limits exactly; a run writes no severity without the log of its level |
| `Discovery` | 2 request threads, 1 executor thread and the schedule, 3 Events, 2 runs at a time, any number of failures and crashes, fairness | `TypeOK`, `RunningHasRun`, `EventHasRun`, `StopIsObeyed`, `StopSticks`, `RunSettles` | a task in `running` has somebody who takes it out, and does leave it; a stop is obeyed at any point of a run, and no request or run takes the signal back |
| `DiscoveryJobs` | 2 threads, tasks 1 and 10, any number of failures and restarts | `TypeOK`, `JobFollowsRow` | between requests a task that is not adrift has the job that its columns ask for |

### Bounds

- *Threads and requests.* Each race in the code is between two holders of a stale read,
  so two threads show them; a third only repeats one of them. The theorems hold for any
  number.
- *Rows.* One device row is enough where the question is about one row against
  overlapping runs; two where the summary must tell mixed outcomes from uniform ones.
- *Events.* A run holds at most one and the dictionary one; unreferenced Events are
  recycled (`Collect`). The runs of a discovery and the dictionary have three. For an
  automation task two are enough: two pools with an Event each, or one pool and a fresh
  Event in the dictionary.
- *Stages and users.* Two stages and two users give `any` and `all` with one or two
  rows, an open stage, a first and a last stage.
- *Records.* Four records with a limit of two give a full buffer in the UDP thread and
  another batch in the flush thread or a stop at the same time, with a rest of a packet
  behind them.
- *Moves.* Two of the environment's, from any status and with any methods answered in the
  first state: the outage may be there at once, and its end and a decision, a foreign
  write or a restart come in any order. What more of them would do to the safety
  properties is the business of the proofs. A
  poll cannot overlap itself (`max_instances=1`) except through a second schedule of the
  same job; two polls are in the proofs, not in the runs.
- *Escalation.* A policy that repeats, so that its limit of one level is what stops it, and
  one that does not, on two alerts that share a group, give an order made for one alert and
  found for the other, and a policy that fails after another has sent. Two runs are the
  scheduler's and a requested one; one fault in any place. One alert that others rate is
  enough for a rating to come between the read and the commit of a run.
- *Discovery.* Two runs at a time are what makes one take the Event of the other; a
  third waits (`MaxRuns`). The executor's one thread makes runs queue.
- *Jobs.* 1 and 10 are two ids of which one contains the other, and not the other way
  round; two requests are enough for each to set the job from what the other replaced.
- *Failures.* A limit of two has a round below the limit, which closes the alarm, and one
  at the limit, which opens it; the code's three adds another round below.

Symmetry (of threads, rows, runs) is used for safety and action properties only, never
with liveness.
`CHECK_DEADLOCK FALSE` is set where the system may rest: no request has to come for a
task, and a stopped collector is done.

### Fairness

`ExecTask!Fairness`: a thread inside a handler, and a worker in a pool, goes on, unless it
waits for a call that does not return: `_run_winrm` passes no time-out and `_run_ssh`
waits for the exit status without one, so `WorkerHangs` is an end that fairness does not
undo. `RunReports` and `ThreadsReturn` excuse the run that holds such a worker, and no
other; both are checked with restarts and failing sessions, after which a stranded task
waits for a person (`StrandedUntilDecision`). Operators and the clock are not obliged to do
anything.

`FlowCollector!FairSpec`: both threads of the collector run, the database answers or
fails, and a stop that has begun goes on. Packets and stop requests are not required.

`DeviceAlerts!FairSpec`: the scheduler goes on polling (`WF` on probe and load), a
request that has begun ends, and a poll that comes to its commit again and again is not
refused every time (`SF` on `PollCommit`). Nothing else has to happen; without the last
assumption a database that refuses for ever keeps any status.

`Discovery!FairSpec`: a request that has begun goes on, a run goes on to its end (every
probe has a time-out), and a free thread of the executor takes a waiting run. Crashes and
failures may come at any time; `RunSettles` says what is left then.

### Findings

1. `ExecTaskApproval`: `run_scheduled_exec_task` ignores the approval that
   `automation.py` promises to wait for.
2. `CabChainAny`: rows left pending by an `any` stage keep it active, although the
   model's docstring says that one approval passes it.
3. `DeviceAlertsTicket`: `ensure_group_ticket` flushes a work order without its
   number, which must not be null. The poll calls the failure ignored, but its session is
   broken and the status of the device is never committed.

Met on the way, and stated as the limits of properties instead:

- two requests may both start pools for one automation task (`RunningTaskHasRun` holds all
  the same), and two that push a configuration to one device compute the same version
  number for its snapshot: the unique key of `ConfigVersion` refuses the second, its
  session is broken, and the row stays in `running` beside a task that has reported
  (`torn`), although the manual promises that each device's result is saved;
- a refused commit of the summary strands a task without any crash (`cut`);
- calls without a time-out hold a pool, the request that waits for it and the task
  (`Hangs`);
- a device that answers one of its methods only is set online and offline in turn, as the
  methods come due (`StatusConverges` and `AlarmConverges` ask nothing of it);
- two decisions at once may leave a change nobody can decide (`NoDeadEnd`, `lone`);
- overlapping escalation runs pass `max_escalations` (`LevelsBounded`); a level is used up
  by a message that no channel delivered (`Sends`), and the severities that runs, polls and
  rules choose overwrite each other (`SeverityHasLog` speaks of the run's own);
- a discovery that is resumed too early loses its Event (`StopIsObeyed`, `watch`);
- the sweep over job ids removes the jobs of other tasks (`JobFollowsRow`, `adrift`).

## 4. What is proved

All proofs are for every value of the constants, under the `ASSUME`s of the modules:
`Runners` are threads, `NoEvent` is not an Event, pools have at least one worker;
configurations are non-empty sequences of stages and `Open` is not a user; limits are
positive, the stop requests are not the collector's threads and polls are not the other
threads of a device, which has at least one method; policies have positive limits and runs
are finitely many; the schedule's thread is not one of the executor's.
`FlowCollectorProofs` needs no finiteness of `Flow`: its invariant carries the finiteness
of what is held.

**ExecTask.** `IInv` is `TypeOK`, `ThreadInv`, `SeenInv` and the two invariants.
`RunningTaskHasRun` is not inductive by itself, because a thread that has yet to commit
may hold a status it chose long ago. `ThreadInv` says what the place of a thread
implies: of the pending writes only that of `run_task` would put the task in `running`,
and only an open pool has workers on devices. With it, each step that sets `running`
leaves a thread that will report, and each step by which such a thread stops reporting
takes the task out of `running` or is one that `cut` records: `CutStep` is the lemma for
the ends that a crash or a broken session brings. `RunningRowHasWorker` asks the same of
rows, where `torn` records the workers that were ended. `SeenInv` is for the action
property: a request that is refused for a running task has seen it otherwise, so when a
task is stranded what such a request may still write was decided before. Theorems:
`TypeCorrect`, `TaskNeverStranded`, `RowNeverOrphaned`, `StrandedTaskWaits`.

`CancelIsKept` holds for any number of overlapping runs: an open pool holds an Event
(`PoolEvent`), a run that starts beside it forgets that Event in the dictionary but does
not clear it, an Event in use is not recycled, and `WorkerPick` looks at the flag.

Two more theorems assume what the properties need and the run `ExecTaskSingle` has.
`CancelReachesRun` assumes `OneRunner`: at most one thread may run the task; `PoolInv` says
that the Event of an open pool is then the registered one.
`CompletedIsHonest` assumes moreover that nothing is rolled back: `HonestInv` says that only
the end of a run completes a task, and that what that end has found in the device rows
still holds when it commits, because no other run has changed them.

**CabChain.** `StageOrder` speaks of the rows in the database; a decision is taken
on rows read earlier. The strengthening is that a decision in hand was in order when it
was read and remains so, because rows never return to pending (`DecisionInOrder`),
that a change never returns to draft and a draft has no chain (`NeverBackToDraft`,
`DraftHasNoChain`), and that rows about to be inserted are pending and
belong to their builder (`NewRows`): chains of simultaneous submissions live side
by side and each is in order. For requests that come one at a time, `LoneInv` says that the
only request under way has seen the change and the chain as they are, and that what it will
write is right for the chain it leaves. Theorems: `ChainTypeCorrect`, `StagesInOrder`,
`ApprovalIsComplete`, `AlwaysDecidable`.

`ChainImplementsStages` is the refinement of `StagedDecisions`, with requests that overlap
at will. `WritesStaged` says what a request may be about to write: a new chain with nothing
decided and no old one to remove, because only a draft is submitted and a draft has no
chain; or one decision, by somebody whom its row was made for. That a decision in hand is
still in order is `DecisionInOrder`. `Commit` then maps to `Appear`, `Decide` or a stutter,
`Delete` to `Disappear`. `RightPerson` follows: no row that was made for somebody bears
another name.

**FlowCollector.** `IInv` adds to the checked invariants that the buffer, batches,
stored and dropped records are pairwise disjoint (`Disjoint`), that a thread holds a
batch exactly where it writes one (`BatchInHand`), that what is held is finite
(`Finite`), and that a count a thread has read is not ahead of what was dropped
(`CountsBehind`), without which a late write could overstate the counter.
Theorems: `CollectorTypeCorrect`, `MemoryIsBounded`, `DropsNeverOvercounted`, and
`LedgerImplemented`: initial states map to initial states of `FlowLedger` and each step
to one of its steps or a stutter.

`StopLosesLittle` bounds what a stop loses. `PacketInv` says that what is still to come of
a packet is finite and small, and that nothing is buffered before the port is bound. The
last flush of a stop empties the buffer, and once `_running` is false the UDP thread takes
no further packet, so that only the rest of the one it was at can come in afterwards.

**DeviceAlerts.** `OutageHasOneAlert` speaks of the database between two commits of a
poll; what the poll will write it decided earlier. `OutageInv` adds that while only
single polls write, at most one is under way (`OnePoll`), and that what it has
`Prepared` is still right when it commits: the status is the one it read, it opens an
offline alert exactly if it turns the device offline, and if it turns it online, it
closes every alert that nobody has decided about. Decisions in between only shrink that
set, because they never hand an alert back to the system (`DecisionsMade`) and a
reopened one is not counted. Theorems: `DeviceTypeCorrect`, `OutageAlerted`.

`OutagesImplemented` is the refinement of `OutageLedger`, disturbed or not. It needs
beside `OutageInv` what a poll in hand `Intends` when nothing is calm: it opens an offline
alert only if it turns the device offline, and closes some only if it turns it online
(`PollsIntend`). `PollCommit` maps to `GoOffline`, `GoOnline` or a stutter, a decision to
`Decide`, which takes any of the standing alerts at once, foreign writes to `Disturb`.
`OneAlertStands` takes the invariant of the ledger over to the program.

**Escalation.** `MessagesAccounted` bounds the messages delivered by the levels that are
committed, those in the sessions of runs and those that faults took back. It needs that a
run logs a pair only when its policy comes (`LogsBehind`), so no level is added twice in a
session and each delivery comes with one. For `LevelsBounded`, `LevelsAhead` counts the
runs that may still add a level to a pair: each read it below the maximum, so at most one
less than all of them can be too many. `OrdersAhead` counts in the same way the runs that
may still open an order for a group (`Making`); an order that is done and one that a
savepoint gives up only lower the sum. `LoneRun` says that what the only run has read
still holds; it gives both bounds exactly. For `SeverityHasLog`, `WroteLogged` says that a
run has logged a level for each severity it is about to write, the rollback of a policy
taking both; what others rate meanwhile changes neither. Theorems:
`EscalationTypeCorrect`, `NoMessageRepeated`, `LevelsStayBounded`, `OrdersStayBounded`,
`SeverityIsLogged`.

**Discovery.** `RunningHasRun` and `EventHasRun` are inductive with `TypeOK`: each step
hands the obligation on. For `StopIsObeyed`, `OneAtATime` says that outside a crowd there
is one request, one queued run or one run; `FlagTellsStop` that the flag of the registered
Event then tells whether a stop was sent, and that the run looks at that Event, from
the moment the Event is registered; `EventsHeld` that a new Event is not set. Theorems:
`DiscoveryTypeCorrect`, `RunningTaskIsOwned`, `EventIsRemoved`, `StopObeyed`, and
`StopIsKept`: whatever replaces or removes the Event of the task, nobody clears one that
a run holds, because the flags of held Events survive every step but the end of their run.

**DiscoveryJobs.** What a request that is `alone` on its task knows (`AloneKnows`): the
columns are the ones it holds but for those it has changed, and the job is gone before
it is added. `NewUntouched` says that an id nobody has created has no job and no request.
Theorems: `JobsTypeCorrect`, `JobsFollowRows`.

### Only model-checked

- Liveness under fairness (`RunReports`, `ThreadsReturn`, `QueuedRecordsSettle`,
  `StopEnds`, `StatusConverges`, `AlarmConverges`, `RunSettles`) and everything about
  ENABLED: beyond the prover.
- The violations, by nature.

## 5. What is not modelled

Device I/O (SNMP, SSH, IPMI, Redfish), the decoding of packets, parsing and rendering,
notification clients, schema migrations and reports: they change none of the state the
properties speak of, or are pure I/O. Forms that set one row in one request (inventory,
catalogue, IPAM) have no behaviour beyond the assignment. Left out of the modelled
components: the status log and the SLA computed from it, suppression and the sweep over
existing alerts; the registry of NetFlow collectors and the five-minute roll-up (whose
hazards are visible in a line or two each); the fixed jobs of the scheduler with their
overrides, pause and resume; OOB polling and link monitoring. `PROJECT.json` gives the
reason for each. Hazards of those parts that its list leaves out, seen while reading: NetFlow
v9 templates are lost with the process (`netflow_service.py:221`); the suppression by group
finds the alert it has just flushed (`event_correlation.py:141`); the poll logs transitions
under a type that the SLA does not read (`monitor.py:315`); an OOB recovery passes over
acknowledged alerts (`oob_poll.py:559`).

## 6. What could come next

1. **DeviceAlerts**, the rest of it: the status log and the SLA's view of the last
   transition; suppression with a coarse clock for `last_occurred`.
2. The registry of collectors over `FlowCollector`, and the window that closes while
   batches are in flight.
3. Pure functions against definitions: link status and port conflicts, cabinet units,
   merging of devices, sensor debounce.
