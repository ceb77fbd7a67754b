# A TLA+ model of DuckAgent

DuckAgent is an agent runtime in Rust: a terminal UI and a gateway to chat
services submit messages to sessions, an agent runs each session's turns against
a model with tools, and a scheduler submits tasks at set times. Its core is
plain threads, mutexes, channels and append-only files. These modules model that
core, TLC checks them on small instances, and TLAPS proves the invariants that
matter most for every instance.

This file first gives the inventory of the system and the plan, then what is
modelled, what each run checks, what is proved, and what is left out.

## 1. Inventory

| Part | State | Operations | Interacts with |
| --- | --- | --- | --- |
| Cron schedule (`src/cron/schedule.rs`) | none | `compute_next_run_at` for once, interval, daily, weekly | called by the store's snapshot and by `validate_job` |
| Cron store (`src/cron/store.rs`) | `jobs.jsonl`, `runs.jsonl`, a lock file; in effect their replay | create, update, delete, start, finish, skip, expire, snapshot | tasks capability, cron service, other processes |
| Cron service (`src/cron/service.rs`) | `running_jobs`, `running_runs`, one timer thread, one thread per run, one watch per run | tick, dispatch, finish, timeout | store; the gateway's `submit_cron_job`; `CronRunFinished` events |
| Agent runtime (`src/agent.rs`) | per session `main_turn_running`, `pending_user_inputs`, `pending_user_steers`; one thread per turn | submit, start, steer, end, continue a goal, clear, rewind | TUI, gateway and cron submit; model and tools; session store; event bus |
| Memory review (`src/agent.rs`, `src/memory.rs`) | purposes, turn counts, running reviews per session | request, mark due, run, finish | started by ending turns |
| Session store (`src/session.rs`) | `messages.jsonl` (append-only, replayed), `meta.json` (rewritten whole), file snapshots | append, compact, rewind, restore, title, goal | every thread of a session; nothing locks it |
| Gateway (`src/gateway/mod.rs`) | session map, routes, streams, pending approvals, API responses | inbound message, control command, approval, event bridge, API request | channels, agent, cron, pairing |
| Pairing, access (`src/gateway/pairing.rs`, `access.rs`) | JSON files of codes and users | issue, approve, revoke; decide | CLI process and gateway process |
| Approval policy (`src/approval.rs`) | per runtime: remembered and forbidden commands | decide, remember, clear at a turn's start | every session of the runtime |
| Process manager (`src/process_manager.rs`) | process table, output buffers, watches, supervisor thread per process | start, read, write, stop, watch | tools; wakes turns by exit events |
| Sandbox (`src/sandbox`) | configuration, grants | build a policy, run under it, proxy the network | tools, process manager |
| Capabilities (`src/capabilities`, `src/tools.rs`) | none of their own | dispatch of tool calls | agent |
| Context projection (`src/context_projection.rs`, end of `src/session.rs`) | none | shorten completed loops and long results, pair results with calls, merge messages | agent, before each model request |
| Channels, clients, MCP, web, TUI, setup, auth, profiles, skills | connections and files | I/O | gateway, agent |

What makes the system hard:

- *Cron.* Three parties may end a run (its thread, its timeout watch, the
  finished turn), in memory and on disk in two steps; the start is recorded by a
  thread that the next tick may overtake; the process may die anywhere; the
  store's operations may fail.
- *Agent.* Messages come from several threads while a turn is starting, running
  or ending; enqueueing and starting are separate critical sections; a steer may
  miss the turn it was meant for; `/new` and rewind drop a session's state under
  a running turn; a goal is kept in a file that everybody rewrites whole.
- *Gateway.* Approvals wait for a human without a timeout; two messages can race
  to create a session; one event thread serves all sessions.
- *Delivery.* One bridge thread edits a message while the answer streams; edits
  and sends fail, a channel allows only so many of them, the next turn starts
  before the last is reported, and `/new` takes the chat away meanwhile.
- *Process manager.* A process exits while its watch is registered or it is
  being stopped; supervisor and runtime rewrite one state file from old copies.
- *Session store.* A rewind restores several files one after the other and then
  appends one line; other processes append and compact meanwhile.
- *Context.* Calls and results are appended one by one, and events come between.

What makes each part correct: every occurrence of a task is run once or skipped,
each run ends once, an orphan does not block its job; every message is answered
once, in a turn of its own or as a steer, one turn per session at a time; an
active goal is pursued and a paused one is not; an approval answers the request
it was given for; a chat has one session; a process's exit is reported once; a
session's replay equals what was appended; a rewind restores what it says.

`PROJECT.json` lists all components with what is modelled of each, and the
hazards at their lines.


## 2. Plan

Done, in this order: the scheduler (`CronSchedule`, `CronClock`, `CronTimer`,
`CronStore`, `CronService` with its abstract specification `CronRuns`, `CronLog`), the turns of a session (`AgentRuntime`), the gateway
(`GatewayChat`, `GatewayDelivery`), the processes (`ProcessManager`), the session
store (`SessionLog` with its abstract specification `SessionHistory`) and what
the model is told of it (`ModelContext`).

Left, in order of weight:

1. `CronAgent`: `CronService` composed with `AgentRuntime`. `ThreadSubmit` is
   `Submit` of a scheduled task and `TurnEnd` its reported end. Each side already
   has the other as its environment: a turn of `CronService` may never end,
   `AgentRuntime` reports the end of each scheduled task it entered.
2. `CronStore` over `CronLog`: that a replay under the lock is one atomic step.
3. `apply_patch` and the token budgets of the projection as operators.

## 3. Modules

`CronSchedule` — `compute_next_run_at` as one operator per schedule kind. Time is
a number of instants, `Second` instants to the second, `Day` to the day,
`WeekLength` days to the week (the code's seven is a parameter so that a week
stays small). `WindowDays` is the number of days the calendar kinds look ahead.
The constants carry the assumptions the arithmetic needs; `IsSchedule` is what the
store accepts. The time zone is one fixed shift: daylight saving and the parsing of
fields are left out.

`CronClock` — the clock `now` that `CronTimer` and `CronStore` share, and how it
advances.

`CronTimer` — one job under a service that is up or down and ticks at any
instant, to ask about whole sequences of occurrences.

`CronStore` — the replayed state of the two logs. Each append is one atomic
update of the replay. The variables: `jobs` is `replay_jobs`, `runState` is
`replay_run_state`, `runLog` counts the ends on record per run and by whom. The
module has the operations and no specification of its own: `start_run`, `skip_run`
and `finish_run` append what they are given and look at nothing, so when they are
called, and with which occurrence, is up to `CronService`.

`CronLog` — what is under `CronStore`: the lock file and one log. `TryLock`,
`CheckAge`, `RemoveStale`, `WaitLock` are the loop of `StoreLock::acquire`, one
action per call of the file system; `WriteText` and `WriteNewline` are the two
writes of `writeln!` to an unbuffered file; `DropLock` removes whatever lock file
there is. `Replay` is `read_jsonl_best_effort`: `kept` are the events alone on
their line, `open` what shares the unfinished last one. `Age` lets half an hour
pass, `Crash` kills a user of the store anywhere.

`CronService` — extends `CronStore` with the timer thread (`tick`), one thread,
one timeout watch and one agent turn per run, the two tables of `ServiceState`,
and the ends that were forgotten in memory and are not yet appended (`saving`).
`disturbed` and `overtaken` are history.
`TickBegin`, `TickExpire` and `TickSnapshot` are the statements of `tick`, `TickSkipOrphan`,
`TickDispatch`, `TickBusy` and `TickSkipBusy` those of `run_due_job`, which works on the
`views` the snapshot showed; `ThreadStart`, `ThreadRegister`,
`ThreadSubmit` the run's thread; `Forget` and `SaveEnd` the two halves of
`finish_run`. `Restart` loses memory and keeps the store. The snapshot of a tick
reads the two files without the lock; reading both at once is sound because
edits of jobs and run events touch different parts and commute. The gateway's
event bridge is one thread: it finishes one end before it takes the next.

`CronRuns` — what the service promises of the runs, in six actions over four variables:
the clock, the life of each run (new, open, expired, ended), the mark of each job and
the occurrence it last had. `RunsAreKept` in `CronService` is this specification under a
mapping that reads all four off the replayed logs (`Life`, the two fields of
`runState`). It says in one place what the code spreads over threads, watches, events
and ticks: a run starts once and not before its time, expires only while it is open
and marked, ends at most once after that or instead, and takes only its own mark with
it. It allows what the code does not exclude: the end of a run that has been expired.

`AgentRuntime` — one session. `running`, `inputs`, `steers` are the fields of
`SessionRuntimeState`; `turn` is the progress of each turn's thread; `submits` is
how far each submitter is; `goal` is the status in `meta.json` and `copy` what a
thread has read of it and is about to write back; `user` is a goal command under
way and `rewinder` a rewind. One action is one section under the runtime's
mutex, one read or write of `meta.json`, or one append. `entered`, `lost`,
`reported` and `cleared` are history. Sessions share nothing but the approval
policy, so one session stands for all. A turn fails at any point of its work.

`GatewayChat` — inbound messages. A handler is one connection's thread: it looks
for the requests it answers (`collect`), resolves them, finds or creates the
session (`get_or_create` is a look, a creation, an insert and an append of the
record, in separate sections), and submits. `mapping` and `file` are
`GatewaySessionStore`; `pending` is `PendingApprovals`, in no order, as the hash
map has none; `answer` is the response channel of a request; `allowed` and
`forbidden` are the `ApprovalPolicy` that all turns of the runtime share. Of a
turn only its start, its guarded calls and its end are kept.

`GatewayDelivery` — the other direction. Turns publish events, the bridge thread
takes them from `queue` one at a time, one `On...` operator per kind of event, and
turns them into messages and edits (`chat`), a stream state (`stream`) and typing signs (`typing`). A text is its
pieces, so that what is cut by `stream_text_limit`, sent as a remainder or sent
again can be counted; `Plain` and `Fallback` are what is left to send when a stream
closes. `unsent` and `astray` are history: the answers that could not be sent, and
those whose stream broke while it showed something else. `channel` says what the adapter can do: typing signs, edits
and how many. Its calls fail at any point, `/new` takes the chat away in its two
steps, and the memory review of an earlier turn may publish an error.

`ProcessManager` — one managed process. `file` is its state file, `tmp` the one
temporary file of all writers, `mem` the copy each actor (host, watches, stops)
has read. `WriteTmp` and `Rename` are the two halves of `write_state`; `Trigger`
is `trigger_exit_event_if_needed`. The host is the supervisor process of a piped
child or the reader thread of a PTY, which differ in what they read again before
they write; `then` is where an actor goes after its write.

`SessionLog` — `messages.jsonl` and the files the tools change. `log` is the
lines; `Visible` is `replay_visible_history`, a recursive function over them that
takes one line at a time (`Replayed`), and `Replaced` does the same for
`build_replacement_history`. A rewind restores
the files one by one from the snapshots after its target, and then appends the
history it had read; `todo` of `rewind` are the lines whose snapshots it has yet to go
over. A restore is two steps, as in `restore_file_snapshot`: `RewindChecks` compares the
checksum, `RewindWrites` reads the backup and writes or deletes the file, whatever is
there by then; anything may come between the two. A compaction by another process
reads and appends the same way. `disk` also changes from outside. `past`, `base`,
`begun` and `raced` are history; `base[f].kept` is FALSE once a restore has
overwritten what came between its two steps.

`SessionHistory` — what the log promises, in four actions: the history grows by
messages, and an editor (rewind or compaction) replaces it by a version it made of
the history it read: its beginning, or what `IsSummary` lets a compaction make (one
message for several, where the last of them stood). `HistoryIsKept` in `SessionLog` is this specification under
the mapping `visible <- Visible`, the editors' plans, and the number of
replacements on the log. It includes what the code does not exclude: a message
appended between the reading and the replacement is gone from the history.

`ModelContext` — what of a history a model request tells. The state machine builds
histories as `run_main_agent_loop` and `send_model_turn` do, with events of processes
between any two appends. `Messages` is what a request tells of the history, and
every loop of the code is a recursive function that takes one item or message at a
time: `GoneOver` of `CompletedWalk` is `project_completed_history`, which keeps the
loop it is in and turns it into a summary when the next begins (`Closed`);
`MainHistory` puts the active loop behind it as it is; `MergedWith` is
`merge_adjacent_messages`; `Sent` is `project_to_model_messages`, which gives calls
and results their ids and leaves results of unknown calls out. A message carries
what it tells (`told`): places of the history and, for a result, the place of the
call it is said to be of. `Told` is all of it, in order.

`MC...` modules hold the small instances and symmetry sets, `..._proofs` modules
the proofs. An operator whose comment starts with *Mutant of* is a plausible bug of
the definition after it; no specification uses it. It is there to show that a
property would notice.

## 4. Runs

| Run | Instance | States | Shows |
| --- | --- | --- | --- |
| `cron_timer` | every schedule kind, both missed-run policies, anchors before and after creation; a second of 2 instants, a day of 8, 26 instants (three days and a bit, so each calendar rule wraps around a week) | 780,966 | `RunsOnSchedule`, `CalendarBacklogCollapses` |
| `cron_runs` | an interval under skip and a once under parallel, 1 job that may be rescheduled or deleted in the first two instants, 2 runs, 3 instants; under skip also one failed store operation or one restart | 859,722 | `RunningMarkIsOpen`, `EndRecordedOnce`, `EndsFollowStarts`, `OverlapOnlyAfterDisturbance`, `LastScheduledAdvances`, and `RunsAreKept`, the refinement of `CronRuns` |
| `cron_recovery` | the same jobs without edits; turns that may end or hang | 127,063 | under fairness `StartedRunIsRecorded`, `DueIsRecorded`, `OrphanIsReleased` |
| `cron_log` | 3 users, 3 appends, one death, one failed write | 269,612 | `OneHolder`, `AckedIsReplayed`, and under fairness `LockComesFree` |
| `agent_turns` | 2 chat messages, 1 scheduled task, 3 threads, one failed turn, one clear, one rewind | 131,950 | `TurnsOverlapOnlyAfterClear`, `EachMessageInOnePlace`, `CronRunsApart` |
| `agent_goal` | 1 chat message, 1 scheduled task, one goal command, a model that may complete the goal, one failed turn | 146,808 | under fairness `SubmittedIsEntered`, `CronEndIsReported`, `ActiveGoalIsPursued` |
| `gateway_chat` | 2 messages and 1 command or answer, in one chat or in threads of it, 3 sessions, 2 guarded calls a turn, one restart | 246,250 | `WaitingIsAnswerable`, `OneSessionPerChat`, `MapSurvivesRestart`, `DenialHolds`, and under fairness `InputUnblocks` |
| `gateway_delivery` | 2 turns, answers of 3 pieces and of 1, messages of 2; a channel with two edits, one with none, one with typing signs; one round of tools, one retry, one failed call, a queue of 1 | 5,094,712 | `DeliveryTypeOK`, `AnswerIsShown`, `TypingEnds`, `NothingLeftStanding` |
| `process_manager` | piped and PTY, 2 watches, 1 stop, one death of the runtime | 344,634 | `WatchReportedAtMostOnce`, `EventSeesAllOutput`, `SettledStatusIsFinal`, and under fairness `WatchIsReported` |
| `session_log` | one file, two contents, 6 lines, one edit from outside, failed restore or crash, at any step of a rewind | 7,411,038 | `TypeOK`, `RestoresFiles`, `KeepsEdits` |
| `session_history` | no files, 5 lines, one event, one compaction, one crash | 267,190 | `HistoryIsKept`, the refinement of `SessionHistory` |
| `model_context` | 8 items, ids used again, 2 calls an answer, one compaction | 185,332 | `TypeOK`, `CallsAreAnswered`, `ToldOnce` |

The type invariants of `CronTimer`, `CronService`, `CronLog`, `AgentRuntime`,
`GatewayChat` and `ProcessManager` are proved and not run again.

What a property excludes, it excludes by a named history variable, and the README
names the behaviour behind each below: `disturbed` (a timeout or a parallel run;
in `CronLog` a living holder gone stale), `overtaken` (a snapshot showed a job as due
while the start of an earlier occurrence was still to be recorded), `crossed` (two handlers appended a
record of one chat at once), `raced` (two actors held copies of a process's state
file; a turn began during a rewind), `kept` (a file changed between the checksum and
the write of its restore), `astray` (a stream broke while its message showed something
else), `cleared` (`/new` under a running turn).

### Bounds

`MaxNow` ends the clock, `Horizon` the occurrences handed out, `MaxRevision` the
updates, `MaxStoreErrors` and `MaxRestarts` the faults; `RunIds` bounds the runs,
and a tick with no id left passes the due job over (`TickNoIdLeft`). `DueIsRecorded`
therefore ends its promise when the ids are used up. `new_id` draws an id not in
use; the model takes `FreshRun`, since which one makes no difference. The constraint
`RunsBounds` has jobs created at instant 0, takes one fault at most, under skip and
without edits, and follows a parallel or edited job for two instants; an edited job is
deleted or rescheduled, not both. `RecoveryBounds` leaves the edits out, follows a run
that starts late without faults, and has turns hang there, under parallel and after a
failed store operation.

The interval is due at 0 and at 1, and its timeout is one second, so that the second
occurrence meets whatever the first has left. A run that started at 0 and hangs is
busy at 1 (`TickBusy`) unless its watch has ended it. Left behind by a restart or a
failed append of its end, it is expired by the tick at 1, and the next run follows the
orphan. A run that starts late, at 1, is not yet expired when the occurrence at 1 comes
up, and this one is skipped (`TickSkipOrphan`); the tick at 2 expires the orphan. A
thread that has not recorded its start when the next snapshot is taken is the late
start of `overtaken`. Two runs are enough for the races of one end and for an orphan
and its successor; overlap after a disturbance needs no third, since the invariant
speaks of pairs, and it is proved for any number.

In `CronLog` three
users are a dead holder and two who wait, and three appends a torn one, the one it
swallows and one after it. In `AgentRuntime` ids of turn threads are used again,
and a thread that would start one waits for a free id; `MaxUserOps`, `MaxFailures`,
`MaxClears` and `MaxRewinds` bound commands and faults. Two threads are needed
for a turn that has given up `running` and is not yet over, three for two such.
Two chat messages and a task are the least that make a steer, a stranded steer
and a task in the queue meet. In `GatewayChat` two messages race for a session
while a third handler moves the chat or answers; `MaxCalls` of two lets a denied
command be asked again. In `GatewayDelivery` `Limit` and `Prefix` are such that
one answer needs two messages and its stream is cut; `MaxQueue`, one event the
bridge has not taken, is what lets a turn begin before the end of the last is
seen. In `ProcessManager` two watches and a stop are a reader and two writers of
one file beside the host. `MaxLog` of six lines holds three user turns with a
change each, or two with a rewind. `MaxHistory` of eight items holds two loops with
two calls each, or one loop with two events in it.

Deadlock is not checked where the instance comes to rest: clock at its bound, all
messages answered, log full.

### Fairness

Threads of a running process are never abandoned, hence weak fairness of the
timer thread, of each run's thread and watch, of each turn's own steps, of a
gateway handler, of a turn that has an answer in its channel, of the host of a
process and of a tool call under way. Nothing is assumed of the end of an agent
turn in `CronService`: it may wait for an approval for ever. `Advance` is strongly
fair only because `Horizon` disables the clock while a tick is under way. In
`AgentRuntime` it is assumed that a turn does not call tools for ever: `TurnAnswer`
and `TurnTakeSteers` are strongly fair, since between them the turn may read and
write `meta.json` again and again. In `GatewayChat` nobody has to answer a request
and a turn need not end. In `ProcessManager` a child ends only once it was
signalled. In `CronLog` the clock goes on and each user of the store goes on, as
the service does by ticking every second. Nothing is assumed of users, failures,
clears, crashes or restarts.

## 5. Proofs

`tlapm` checks them for every value of the constants that satisfies the named
assumptions of the modules: `ScheduleAssumption`, `ClockAssumption`,
`TimerAssumption`, `StoreAssumption`, `SchedulesAssumption`, `ServiceAssumption`,
`LogAssumption`, `RuntimeAssumption`; `HandlersAreDistinct`, `OriginsAreKeys`,
`BoundsAreNatural` (`GatewayChat`); `ConstantsAreSound`, `TextsDiffer`
(`GatewayDelivery`); `ActorsAreDistinct`, `KindsAndBounds`, `NoneIsNoState`
(`ProcessManager`); `BoundsAreNumbers`, `NoneIsNone` (`SessionLog`);
`ContextAssumption` (`ModelContext`). They say that
ids are distinct from each other and from `None`, and bounds are numbers.

**Schedule.** `Cron_proofs` first shows what `compute_next_run_at` answers. The
code walks candidate days; `EarliestIsOne` and `LatestIsOne` show that a walk
over a set of candidates finds its least or greatest, by well-founded induction.
From them `CalendarAnswers` and `NextIsLater`: an answer is a candidate of the
schedule and later than the occurrence last recorded. The timer builds
on it: the invariant `TimerInv` is `TimerTypeOK`, `RunsOnSchedule` and that neither
creation nor the last tick is in the future. `RunsWhenDue` rests on `AnchorMoves`
and `IntervalOccurs` (anchor plus whole periods, rounded to seconds, stays on the
grid of the schedule), `BacklogCollapses` on `PastCovers` and `NothingOlder`: the
window of days the code looks back covers each time that has passed.

**Log.** `CronLog_proofs`: `OneHolder` is not inductive, for it says nothing of the
lock file; `HolderOwnsLock` adds that whoever is inside made the file that is there
and that it is not old. `AckedIsReplayed` counts: what was acknowledged and is not
replayed must have been paid for by a tear. A tear loses an answered event only when
the next append joins its line, so `TearsPay` counts both: the acknowledged events
that are not `kept`, plus the torn ones on the open line, are at most the tears there
were; and whoever stands at the newline of an undisturbed log has its event on the
open line.

**Service.** Then `Cron_proofs` proves `TypeOK`, `EndRecordedOnce`,
`EndsFollowStarts`, `OverlapOnlyAfterDisturbance`, `RunningMarkIsOpen` and
`LastScheduledAdvances`. The inductive invariant `IInv` adds:

- `FreshRuns`: a run whose thread has not appended its start has left no trace,
  so an end cannot come before a start;
- `KnownRunsStarted`: whatever the service still knows of a run is in the log for
  the run's own job;
- `OneEndEach`: a registered run has no end on record and none waiting to be
  appended, and at most one party waits to append one. This is what makes the
  race harmless: removing the run from `running_runs` under the mutex is the one
  moment that decides who records the end;
- `MarksAreOwn`: a running mark names a run of the job without an end;
- `MarkIsExact`: while a job is undisturbed, whoever holds its mark is alone and
  in `running_jobs`. A timeout breaks it (the turn is still to end, and will
  clear a mark that is not its own), and so does a parallel run; hence
  `disturbed`.

From it follows that the service implements `CronRuns` (`ServiceKeepsRuns`). Only five
kinds of steps append to `runs.jsonl`, and each is one abstract action (`RunsBegin`,
`RunsFinish`, `RunsExpire`, `RunsSkip`) or leaves what `CronRuns` sees alone. That a
finish takes no mark but its own is `MarksAreOwn` with `KnownRunsStarted`; that nothing
starts before its time needs `DueInTime`: what a tick has found due and a thread is
about to start is not in the future.

That `last_scheduled_for` goes forward (`LastAdvances`) is a matter of what the service
has in hand, for the store appends whatever it is given. `NothingBehind` says it: unless
the job is `overtaken`, the occurrence of a view a tick still holds is later than the
one on record and no thread has one of the job to record; and the occurrence a thread is
about to record is later and the only one. A snapshot establishes it
(`DueIsLater`, from `NextIsLater`); each step of a tick or thread uses up the view or
the start it appends. Without the exception it is false: section 6.

**Agent.** `AgentRuntime_proofs` proves `TypeOK`, `TurnsOverlapOnlyAfterClear`,
`CronRunsApart` and `EachMessageInOnePlace`. The second is inductive given the types: `running` is TRUE
exactly while one turn is active, unless a clear removed it. The third needs the
same of the queue: a scheduled task waits with its own provider, and steers are
chat messages, which is a matter of their type. The last counts occurrences; its
invariant `PlaceInv` names the places instead: no queue and no hand has a message
twice (`QueuesInv`), no two places have it (`Apart`), and it is submitted exactly
if it is somewhere (`Somewhere`). There is one lemma per way a message moves. It
is inductive given the types alone, so it holds even where turns overlap.

**Chat.** `GatewayChat_proofs` proves the types and all four invariants.
`WaitingIsAnswerable` is inductive given `TypeInv`. `DenialHolds` needs
`DenialInv`: a denied command stays forbidden until the policy is cleared, and
clearing it forgives. `OneSessionPerChat` needs `SessionInv`: `MovesAreKnown`
(a handler that moves a chat has said so before the map changes) and
`SessionsAgree` (whoever has a session for an unmoved chat has the one in the
map). `MapSurvivesRestart` needs `RestartInv`: `Crossed` (two at their append have
crossed) and `RecordsMap` (a handler at its append carries what the map holds).

**Processes.** `ProcessManager_proofs` proves the types and the three invariants.
`OnceInv`: a pending report belongs to a watch registered by its own call, calls
touch only their own copy, stops report nothing, and only the host reports the
watch in the file (`PendingIsRegistered`, `CallsAreOwn`, `StopsAreSilent`,
`ReportedByHost`). `ExitInv`: an exit that an actor knows of is real and its log
whole. `StatusSettles` needs, while no two copies met, `Undisturbed`: one holder of
a copy at a time (`NoOverlap`), whose temporary file is its own (`OwnTmp`), and once
the host has written the end nobody holds an older state (`HostWrote`, `CallsKeep`).

**Sessions.** `SessionLog_proofs` proves the types, that the log implements
`SessionHistory`, and the two properties of restored files. Replay and compaction
walk a sequence of any length. `LoopRuns` is the one lemma about such loops: a
recursive function over the places of a sequence is defined, and what holds at the
start and is preserved by a step holds at the end. It is proved by the least
counterexample (`SmallestOf`) and used once per loop.

- *Refinement.* `StartsEmpty` maps the initial states, and one lemma per action maps
  each step to a step or a stutter. An append adds one message to the replay
  (`ReplayGrows`), the history a compaction appends is one message for those it
  drops (`ReplacedIsSummary`). `HistoryInv` supplies what this needs of the state:
  histories on the log and in the hands of editors hold only genuine messages, those
  that some line of the log introduced.
- *Files.* `RewindRestoresFiles` and `RewindKeepsEdits` rest on `FilesInv`. A file is
  what a snapshot still to be gone over left, or what it is to be given back, and
  each snapshot goes back to what an older one of the file left (`ReachInv`), so that
  the chain of checksum guards leads from the present contents to the target. A
  rewind goes from the newest to the oldest (`TodoInv`) while no turn runs
  (`BegunInv`), and a tool that has not
  written finds the file as it read it, unless it was edited meanwhile (`ToolInv`).
  Between the two steps of a restore the file is what the checksum was compared with, or
  its last change is younger than every turn (`CheckedInv`); if the write then destroys
  that change, `kept` takes the file out of what is promised of rewinds to targets
  before the change, and of no other. A turn that begins during
  a rewind breaks the chain, hence `raced`.

**Delivery.** `GatewayDelivery_proofs` proves the types (with `TypeInv`, that
queued events are about published pieces and counted retries) and the three invariants.

- `TypingStops`: `TypingInv` says what will end a sign that is on: an active turn, or
  an end that is still in the queue (`Ending`).
- *Order.* `Ordered` is what the other two share: one turn is active at a time
  (`OneActive`), and the events in the queue are in an order that turns can produce.
  A stream is open only while the turn it belongs to may add to it, or its closing
  event is on the way (`OrderInv`, `StatusSorted`).
- `NothingStands`: a stream's message shows `sent` (`ShownInv`). While no call has
  failed, a stream that has shown only the gateway's own words has used no more edits
  than there were retries, so one is left to replace them (`StreamInv`), and no other
  message is a placeholder or a status (`StandingInv`).
- `AnswersShow`: an answer is told by at most one event, and only after its pieces
  (`AnswersInv`); no event before it closes its stream (`DropsInv`). Hence the pieces
  of an answer still to come are in the stream's message alone (`PartsInv`), and once
  it is told each piece is in exactly one message (`OnceInv`), which is what the
  property counts (`TimesCounts`). `KeptInv` keeps messages that were settled earlier
  from losing pieces.

**Context.** `ModelContext_proofs` proves the types, `CallsAreAnswered` and
`ToldOnce`, for histories of any length. Half of the argument is about the state:

- `TypeInv`: one system message, the first; an answer's queue holds calls and
  results with ids.
- `TailInv`: while a turn asks or appends, there are only calls and results after the
  last message of the user, in rounds (`RoundsAfter`), if what is still to be appended
  is counted. An event of a process cuts the rounds and starts a new tail
  (`EventCuts`). Rewinds and compactions come when no turn runs, and the next turn
  starts with a message of the user.
- `KnownInv`: before a compaction every call and result has an id and each result
  comes after a call of it. It is what makes `OwnCall` a call.

The other half is about the projection. `WalkRuns` says that a recursive function over
`0 .. n` exists and stays in its set, `HoldsToTheEnd` that what holds at the start and
is preserved by a round holds at the end (by the least round where it would fail);
each walk has an invariant. `Tells(h, t, lo, hi)` says what a sequence of tellings has
to tell of a stretch of the history, and stretches compose (`TellsBoth`): a summary
tells its loop (`SummaryTells`), so the completed walk tells all that is done
(`LoopIs`, `LoopsGoneOver`); merging changes neither what is told nor the lines of
the active loop (`InParts`, `MergedIs`); and what is sent of the active loop are its
calls and the results that have one (`SentParts`). With `TailInv` this gives
`CallsAnswered`, with `KnownInv` `TextsAndResultsToldOnce`.

Each proof has the same shape: the initial state, one lemma per part of the
invariant with one step per action, and a temporal step that combines them.

Every safety property that a run checks is proved. Only model-checked is liveness
(`StartedRunIsRecorded`, `DueIsRecorded`, `OrphanIsReleased`, `LockComesFree`,
`SubmittedIsEntered`, `CronEndIsReported`, `ActiveGoalIsPursued`, `InputUnblocks`,
`WatchIsReported`), which is out of this prover's reach.

## 6. Behaviour seen while modelling

None of this is excluded by the code's own documents unless said; no run is kept
for it.

*Cron.* An interval without an anchor is computed from `now` and never becomes due
(`schedule.rs:94`). A reminder that has fired is accepted for a new instant and
never runs again (`store.rs:377`). The late end of a timed-out run clears the mark
of the run after it, and a third starts beside the second in spite of skip
(`service.rs:110`). A tick before the run's thread has recorded the start submits
the occurrence again (`service.rs:193`); or it records a later occurrence, and the late
start then sets `last_scheduled_for` back (`store.rs:259`), so that the later one comes
due again. An interval with an anchor replays a
backlog period by period; `missed_run = skip` runs a task only when a tick falls
on the very instant; under skip an occurrence may be recorded as skipped and run;
under parallel an earlier run that a crash leaves open is never recorded as ended.
A snapshot reads both logs without the lock. Two who wait may find the same lock
stale, and the second removes the one the first has made (`store.rs:503`).
Expiry stops at the first job whose append fails (`store.rs:340`).

*Agent.* A message slips in between the check and the rewind, and the rewind is
made under a running turn (`agent.rs:393`). A turn that read `meta.json` before
`/goal pause` writes the old status back (`session.rs:1314`). A goal set while a
failed turn is ending stays active with no turn.

*Gateway.* The prompt for several pending approvals says the oldest is answered
first (`mod.rs:2661`), the map they are kept in has no order (`226`). `/new` under a
running turn leaves the typing sign on (`1598`). The beginning of a long answer is
lost when its stream broke while the message showed a placeholder or a status
(`1975`); an answer is sent again whole when `/new` or a failing memory review
comes in the middle of its stream; a retry status stays when it used up the edits.
An API request takes the end of any turn of its session for its own (`2328`).
Approving a pairing writes two files, one after the other (`pairing.rs:127`).

*Processes.* A watch registered while a piped process runs is overwritten by the
supervisor's older copy and never reported (`process_manager.rs:236`), although
the tool promises it (`builtins/mod.rs:102`). A PTY process that dies with the
runtime is `running` in its file for ever.

*Sessions.* A rewind that crashed half-way, then a rewind to a later target, gives
files of the earlier one. A compaction drops what was appended while it was made,
or brings back what was rewound. The checksum guard cannot tell an edit by hand
with the contents a tool had left. A restore compares the checksum
(`session.rs:1580`), reads the backup, and writes or deletes the file (`1647`, `1672`)
without looking again: what somebody else has written to it in between is lost. Nothing
keeps two rewinds of one session apart (`agent.rs:392`). A torn line, or two programs appending at once
(`session.rs:1211`, `process_manager.rs:823`), makes a session unreadable: its
replay does not skip lines as the cron store's does.

*Context.* A process event between a call and its result hides the result from the
model and ends the loop that counts as current (`agent.rs:697`), although
`context-projection.md` says the current loop stays raw. Text beside tool calls is
missing from the summary of a completed loop.

## 7. Not modelled

Of modelled parts: time zones with daylight saving, the parsing of schedules, wake-ups
of the timer (a tick may come at any time instead), partial expiry; tokens,
prompts, titles; due marks and the running set of the memory review (bookkeeping
under one mutex); `/rewind`, `/model` and session listings in `GatewayChat`, a failed
append of a mapping, the preset file of `always` decisions; media of a message and
the outbox file; forks of a session; two rewinds of a session at once (a bound: `RewindReads` waits
for the one under way), the stages of one file's write; a `meta.json` read while it is being written.

Whole parts, with the reason:

- API, pairing: handlers that read, change and write one file or wait for one
  event; what could go wrong is described above, and little is promised.
- Channels (33,000 lines), model clients, MCP, web: translation of messages and
  I/O with services outside. What a channel can do is a constant of
  `GatewayDelivery`.
- Sandbox: pure decisions over parsed configuration, a translation into calls of an
  operating system, and socket I/O; nothing in it interleaves.
- Setup, auth, profiles, configuration of the gateway service, skills and character
  cards, the terminal's rendering: wizards, files and wording.
- Tools: single operations on files; `vendor/` is third-party code.

These parts are most of the repository's lines, which is why the map covers a
small share of them.
