---------------------------- MODULE CronService ----------------------------
(***************************************************************************)
(* The scheduler of scheduled tasks: src/cron/service.rs over CronStore.   *)
(*                                                                         *)
(* One timer thread ticks.  A tick reads the ids of active runs, expires   *)
(* orphans, takes a snapshot of the store and works through its due jobs.  *)
(* Each run has a thread of its own that records the start, registers the  *)
(* run, arms a timeout watch and submits the task to the agent; the end of *)
(* the agent's turn comes back as an event.  The thread, the watch and the *)
(* event all end runs through the same two steps: forget the run under the *)
(* service mutex, then append RunFinished under the store lock.            *)
(*                                                                         *)
(* Waking the timer only shortens a wait of at most a minute, and the code *)
(* waits on the condition variable without a predicate, so a tick may      *)
(* begin whenever the timer thread is idle.                                *)
(***************************************************************************)
EXTENDS CronStore

CONSTANTS
  Horizon,        \* bound: later occurrences are not handed out
  MaxRestarts,    \* bound on restarts of the service process
  MaxStoreErrors  \* bound on failed store operations (lock timeout, I/O)

ASSUME ServiceAssumption ==
  /\ Horizon \in Nat
  /\ MaxRestarts \in Nat
  /\ MaxStoreErrors \in Nat

VARIABLES
  runningJobs,   \* ServiceState.running_jobs
  runningRuns,   \* keys of ServiceState.running_runs
  tick,          \* the timer thread: pc, its `now`, its active ids, its due views
  runs,          \* what the thread of a run captured: job, definition, occurrence
  thread,        \* per run: progress of its thread
  watch,         \* per run: progress of its timeout watch
  turn,          \* per run: the agent turn it was submitted as
  saving,        \* ends forgotten in memory and not yet appended
  disturbed,     \* jobs whose running mark a timeout or a parallel run may have
                 \* taken away since the service started
  overtaken,     \* jobs a snapshot showed as due while a start was still to be
                 \* recorded; until a snapshot finds none to be
  restarts,
  storeErrors

serviceVars == <<runningJobs, runningRuns, tick, runs, thread, watch, turn,
                 saving, disturbed, overtaken, restarts, storeErrors>>
vars == <<storeVars, serviceVars>>

Finishers == {"thread", "watch", "turn"}
Idle == [pc |-> "idle", now |-> 0, active |-> {}, views |-> {}]

\* A due job as the snapshot showed it.
View(j, t) == [job |-> j, def |-> jobs[j].def, due |-> NextRunAt(j, t),
               running |-> runState[j].running]

ViewRecord == [job : JobIds, def : JobDefs, due : Nat, running : RunIds \cup {NoRun}]
RunRecord  == [job : JobIds, def : JobDefs, due : Nat, deadline : Nat]

TypeOK ==
  /\ StoreTypeOK
  /\ runningJobs \subseteq JobIds
  /\ runningRuns \subseteq RunIds
  /\ tick \in [pc : {"idle", "expire", "snapshot", "dispatch", "skip"}, now : Nat,
               active : SUBSET RunIds, views : SUBSET ViewRecord]
  /\ runs \in [RunIds -> RunRecord]
  /\ thread \in [RunIds -> {"free", "spawned", "started", "registered", "over"}]
  /\ watch \in [RunIds -> {"none", "asleep", "firing"}]
  /\ turn \in [RunIds -> {"none", "active", "over"}]
  /\ saving \subseteq (RunIds \X Finishers)
  /\ disturbed \subseteq JobIds
  /\ overtaken \subseteq JobIds
  /\ restarts \in Nat
  /\ storeErrors \in Nat

Init ==
  /\ StoreInit
  /\ runningJobs = {}
  /\ runningRuns = {}
  /\ tick = Idle
  /\ runs = [r \in RunIds |-> [job |-> CHOOSE j \in JobIds : TRUE,
                                def |-> CHOOSE d \in JobDefs : TRUE,
                                due |-> 0, deadline |-> 0]]
  /\ thread = [r \in RunIds |-> "free"]
  /\ watch = [r \in RunIds |-> "none"]
  /\ turn = [r \in RunIds |-> "none"]
  /\ saving = {}
  /\ disturbed = {}
  /\ overtaken = {}
  /\ restarts = 0
  /\ storeErrors = 0

-----------------------------------------------------------------------------
(***************************************************************************)
(* The world outside: the clock and the tasks capability.                  *)
(***************************************************************************)
\* The bound on run ids: with none left a due job is passed over.
NoIdLeft == \A r \in RunIds : thread[r] # "free"

\* Past Horizon the clock only serves the timers of runs already started.
Settled ==
  /\ tick.pc = "idle"
  /\ \A r \in RunIds : thread[r] \notin {"spawned", "started"}
  /\ (\E j \in JobIds : Due(j)) => NoIdLeft

Advance ==
  /\ now = Horizon => Settled
  /\ ClockAdvances
  /\ UNCHANGED <<jobs, runState, runLog, serviceVars>>

EditJobs == JobsNext /\ UNCHANGED serviceVars

\* A store operation that cannot get the lock or cannot write.
StoreError ==
  /\ storeErrors < MaxStoreErrors
  /\ storeErrors' = storeErrors + 1
  /\ UNCHANGED storeVars

-----------------------------------------------------------------------------
(***************************************************************************)
(* The timer thread.                                                       *)
(***************************************************************************)
TickBegin ==
  /\ tick.pc = "idle"
  /\ tick' = [Idle EXCEPT !.pc = "expire", !.now = now, !.active = runningRuns]
  /\ UNCHANGED <<storeVars, runningJobs, runningRuns, runs, thread, watch, turn,
                 saving, disturbed, overtaken, restarts, storeErrors>>

TickExpire ==
  /\ tick.pc = "expire"
  /\ FinishExpiredRunningRuns(tick.active, tick.now)
  /\ tick' = [tick EXCEPT !.pc = "snapshot"]
  /\ UNCHANGED <<now, jobs, runningJobs, runningRuns, runs, thread, watch, turn,
                 saving, disturbed, overtaken, restarts, storeErrors>>

\* The thread of run r has an occurrence of job j it has not recorded yet.
Spawned(r, j) == thread[r] = "spawned" /\ runs[r].job = j

\* Views of jobs that are not due only shorten the next wait.
TickSnapshot ==
  LET due == {j \in JobIds : /\ Live(j)
                             /\ NextRunAt(j, tick.now) \in 0..tick.now
                             /\ tick.now <= Horizon} IN
  /\ tick.pc = "snapshot"
  /\ tick' = IF due = {} THEN Idle
             ELSE [tick EXCEPT !.pc = "dispatch", !.views = {View(j, tick.now) : j \in due}]
  /\ overtaken' = {j \in due \cup overtaken : \E r \in RunIds : Spawned(r, j)}
  /\ UNCHANGED <<storeVars, runningJobs, runningRuns, runs, thread, watch, turn,
                 saving, disturbed, restarts, storeErrors>>

\* Views are worked through by next_run_at; after the last one the timer waits.
Current(v) == v \in tick.views /\ \A w \in tick.views : v.due <= w.due

Done(v) == IF tick.views = {v} THEN Idle
           ELSE [tick EXCEPT !.pc = "dispatch", !.views = @ \ {v}]

HasOrphan(v) == v.def.overlap = "skip" /\ v.running \notin tick.active \cup {NoRun}

TickSkipOrphan(v) ==
  /\ tick.pc = "dispatch"
  /\ Current(v)
  /\ HasOrphan(v)
  /\ AppendSkipped(v.job, v.due)
  /\ tick' = Done(v)
  /\ UNCHANGED <<now, jobs, runLog, runningJobs, runningRuns, runs, thread, watch, turn,
                 saving, disturbed, overtaken, restarts, storeErrors>>

\* new_id draws an id that is not in use; which one makes no difference.
FreshRun == CHOOSE r \in RunIds : thread[r] = "free"

\* try_mark_job_running, and the spawn of the thread that will use run id r.
TickDispatch(v, r) ==
  /\ tick.pc = "dispatch"
  /\ Current(v)
  /\ ~HasOrphan(v)
  /\ thread[r] = "free"
  /\ r = FreshRun
  /\ \/ /\ v.def.overlap = "parallel"
        /\ disturbed' = disturbed \cup {v.job}
        /\ runningJobs' = runningJobs
     \/ /\ v.def.overlap = "skip"
        /\ v.job \notin runningJobs
        /\ runningJobs' = runningJobs \cup {v.job}
        /\ disturbed' = disturbed
  /\ runs' = [runs EXCEPT ![r] = [job |-> v.job, def |-> v.def, due |-> v.due,
                                  deadline |-> 0]]
  /\ thread' = [thread EXCEPT ![r] = "spawned"]
  /\ tick' = Done(v)
  /\ UNCHANGED <<storeVars, runningRuns, watch, turn, saving, overtaken, restarts,
                 storeErrors>>

\* The mark is taken: the due run is skipped with a store append of its own.
TickBusy(v) ==
  /\ tick.pc = "dispatch"
  /\ Current(v)
  /\ ~HasOrphan(v)
  /\ v.def.overlap = "skip"
  /\ v.job \in runningJobs
  /\ tick' = [tick EXCEPT !.pc = "skip"]
  /\ UNCHANGED <<storeVars, runningJobs, runningRuns, runs, thread, watch, turn,
                 saving, disturbed, overtaken, restarts, storeErrors>>

TickSkipBusy(v) ==
  /\ tick.pc = "skip"
  /\ Current(v)
  /\ AppendSkipped(v.job, v.due)
  /\ tick' = Done(v)
  /\ UNCHANGED <<now, jobs, runLog, runningJobs, runningRuns, runs, thread, watch, turn,
                 saving, disturbed, overtaken, restarts, storeErrors>>

TickNoIdLeft(v) ==
  /\ tick.pc = "dispatch"
  /\ Current(v)
  /\ NoIdLeft
  /\ tick' = Done(v)
  /\ UNCHANGED <<storeVars, runningJobs, runningRuns, runs, thread, watch, turn,
                 saving, disturbed, overtaken, restarts, storeErrors>>

\* Mutant of TickFails: the error ends the loop of the timer thread.
TickFailsForGood ==
  /\ \/ tick.pc \in {"expire", "snapshot", "skip"}
     \/ tick.pc = "dispatch" /\ \E v \in tick.views : Current(v) /\ HasOrphan(v)
  /\ StoreError
  /\ tick' = [Idle EXCEPT !.pc = "dispatch"]
  /\ UNCHANGED <<runningJobs, runningRuns, runs, thread, watch, turn, saving,
                 disturbed, overtaken, restarts>>

\* An error of any store operation of the tick ends the tick.
TickFails ==
  /\ \/ tick.pc \in {"expire", "snapshot", "skip"}
     \/ tick.pc = "dispatch" /\ \E v \in tick.views : Current(v) /\ HasOrphan(v)
  /\ StoreError
  /\ tick' = Idle
  /\ UNCHANGED <<runningJobs, runningRuns, runs, thread, watch, turn, saving,
                 disturbed, overtaken, restarts>>

TickNext ==
  \/ TickBegin \/ TickExpire \/ TickSnapshot \/ TickFails
  \/ \E v \in tick.views :
       \/ TickSkipOrphan(v) \/ TickBusy(v) \/ TickSkipBusy(v) \/ TickNoIdLeft(v)
       \/ \E r \in RunIds : TickDispatch(v, r)

-----------------------------------------------------------------------------
(***************************************************************************)
(* Ending a run: finish_run and record_run_finished.                       *)
(***************************************************************************)
\* Mutant of Forget: an end is saved whether or not the run was still known.
ForgetUnchecked(r, by) ==
  /\ runningRuns' = runningRuns \ {r}
  /\ runningJobs' = runningJobs \ {runs[r].job}
  /\ saving' = saving \cup {<<r, by>>}

\* Under the mutex.  The job's mark goes whether or not the run is still known.
Forget(r, by) ==
  /\ runningRuns' = runningRuns \ {r}
  /\ runningJobs' = runningJobs \ {runs[r].job}
  /\ saving' = IF r \in runningRuns THEN saving \cup {<<r, by>>} ELSE saving

\* Under the store lock; an error leaves the end unrecorded.
SaveEnd(r, by) ==
  /\ <<r, by>> \in saving
  /\ saving' = saving \ {<<r, by>>}
  /\ \/ AppendFinished(runs[r].job, r) /\ UNCHANGED <<now, jobs, storeErrors>>
     \/ StoreError
  /\ UNCHANGED <<runningJobs, runningRuns, tick, runs, thread, watch, turn,
                 disturbed, overtaken, restarts>>

-----------------------------------------------------------------------------
(***************************************************************************)
(* The thread of a run.                                                    *)
(***************************************************************************)
\* Mutant of ThreadStart: a failed append is ignored.
ThreadStartRegardless(r) ==
  /\ thread[r] = "spawned"
  /\ thread' = [thread EXCEPT ![r] = "started"]
  /\ UNCHANGED <<storeVars, runningJobs, runningRuns, tick, runs, watch, turn,
                 saving, disturbed, overtaken, restarts, storeErrors>>

ThreadStart(r) ==
  /\ thread[r] = "spawned"
  /\ AppendStarted(runs[r].job, r, runs[r].due)
  /\ thread' = [thread EXCEPT ![r] = "started"]
  /\ UNCHANGED <<now, jobs, runningJobs, runningRuns, tick, runs, watch, turn,
                 saving, disturbed, overtaken, restarts, storeErrors>>

\* No run has come into being, so its id is as good as new.
ThreadStartFails(r) ==
  /\ thread[r] = "spawned"
  /\ StoreError
  /\ runningJobs' = runningJobs \ {runs[r].job}
  /\ thread' = [thread EXCEPT ![r] = "free"]
  /\ UNCHANGED <<runningRuns, tick, runs, watch, turn, saving, disturbed, overtaken,
                 restarts>>

\* Mutant of ThreadRegister: the job's mark moves to the run.
ThreadRegisterInstead(r) ==
  /\ thread[r] = "started"
  /\ runningRuns' = runningRuns \cup {r}
  /\ runningJobs' = runningJobs \ {runs[r].job}
  /\ thread' = [thread EXCEPT ![r] = "registered"]
  /\ watch' = [watch EXCEPT ![r] = "asleep"]
  /\ runs' = [runs EXCEPT ![r].deadline = now + runs[r].def.timeout]
  /\ UNCHANGED <<storeVars, tick, turn, saving, disturbed, overtaken, restarts,
                 storeErrors>>

\* Mutant of ThreadRegister: no timeout watch.
ThreadRegisterUnwatched(r) ==
  /\ thread[r] = "started"
  /\ runningRuns' = runningRuns \cup {r}
  /\ thread' = [thread EXCEPT ![r] = "registered"]
  /\ UNCHANGED <<storeVars, runningJobs, tick, runs, watch, turn, saving, disturbed,
                 overtaken, restarts, storeErrors>>

\* mark_running_run and spawn_timeout_watch.
ThreadRegister(r) ==
  /\ thread[r] = "started"
  /\ runningRuns' = runningRuns \cup {r}
  /\ thread' = [thread EXCEPT ![r] = "registered"]
  /\ watch' = [watch EXCEPT ![r] = "asleep"]
  /\ runs' = [runs EXCEPT ![r].deadline = now + runs[r].def.timeout]
  /\ UNCHANGED <<storeVars, runningJobs, tick, turn, saving, disturbed, overtaken,
                 restarts,
                 storeErrors>>

\* The executor takes the task and will report its end with an event.
ThreadSubmit(r) ==
  /\ thread[r] = "registered"
  /\ thread' = [thread EXCEPT ![r] = "over"]
  /\ turn' = [turn EXCEPT ![r] = "active"]
  /\ UNCHANGED <<storeVars, runningJobs, runningRuns, tick, runs, watch, saving,
                 disturbed, overtaken, restarts, storeErrors>>

\* The executor completed the task itself or refused it.
ThreadSubmitEnds(r) ==
  /\ thread[r] = "registered"
  /\ thread' = [thread EXCEPT ![r] = "over"]
  /\ Forget(r, "thread")
  /\ UNCHANGED <<storeVars, tick, runs, watch, turn, disturbed, overtaken, restarts,
                 storeErrors>>

-----------------------------------------------------------------------------
(***************************************************************************)
(* The timeout watch, the agent turn and the process itself.               *)
(***************************************************************************)
WatchWake(r) ==
  /\ watch[r] = "asleep"
  /\ now >= runs[r].deadline
  /\ watch' = [watch EXCEPT ![r] = IF r \in runningRuns THEN "firing" ELSE "none"]
  /\ UNCHANGED <<storeVars, runningJobs, runningRuns, tick, runs, thread, turn,
                 saving, disturbed, overtaken, restarts, storeErrors>>

WatchFire(r) ==
  /\ watch[r] = "firing"
  /\ watch' = [watch EXCEPT ![r] = "none"]
  /\ Forget(r, "watch")
  /\ disturbed' = disturbed \cup {runs[r].job}
  /\ UNCHANGED <<storeVars, tick, runs, thread, turn, overtaken, restarts, storeErrors>>

\* CronRunFinished reaches the gateway's event bridge, which calls finish_run;
\* the bridge is one thread and handles an event to its end before the next.
TurnEnd(r) ==
  /\ turn[r] = "active"
  /\ \A q \in RunIds : <<q, "turn">> \notin saving
  /\ turn' = [turn EXCEPT ![r] = "over"]
  /\ Forget(r, "turn")
  /\ UNCHANGED <<storeVars, tick, runs, thread, watch, disturbed, overtaken, restarts,
                 storeErrors>>

\* The service process dies and is started again: memory is gone, and with it
\* every thread and every agent turn; the store stays.
Restart ==
  /\ restarts < MaxRestarts
  /\ restarts' = restarts + 1
  /\ runningJobs' = {}
  /\ runningRuns' = {}
  /\ tick' = Idle
  /\ thread' = [r \in RunIds |->
                  IF thread[r] \in {"free", "spawned"} THEN "free" ELSE "over"]
  /\ watch' = [r \in RunIds |-> "none"]
  /\ turn' = [r \in RunIds |-> IF turn[r] = "active" THEN "over" ELSE turn[r]]
  /\ saving' = {}
  /\ disturbed' = {}
  /\ overtaken' = {}
  /\ UNCHANGED <<storeVars, runs, storeErrors>>

RunNext(r) ==
  \/ ThreadStart(r) \/ ThreadStartFails(r) \/ ThreadRegister(r)
  \/ ThreadSubmit(r) \/ ThreadSubmitEnds(r)
  \/ WatchWake(r) \/ WatchFire(r) \/ TurnEnd(r)
  \/ \E by \in Finishers : SaveEnd(r, by)

Next == Advance \/ EditJobs \/ TickNext \/ (\E r \in RunIds : RunNext(r)) \/ Restart

Spec == Init /\ [][Next]_vars

\* The timer thread, the run threads and the watches are never abandoned by the
\* process, and the clock goes on; an agent turn may wait for ever (say, for an
\* approval), so nothing is assumed of TurnEnd.  Advance is strongly fair because
\* the horizon bound disables it while a tick is under way.
RunProgress(r) ==
  \/ ThreadStart(r) \/ ThreadRegister(r) \/ ThreadSubmit(r)
  \/ WatchWake(r) \/ WatchFire(r)
  \/ \E by \in Finishers : SaveEnd(r, by)

FairSpec ==
  /\ Spec
  /\ SF_vars(Advance)
  /\ WF_vars(TickNext)
  /\ \A r \in RunIds : WF_vars(RunProgress(r))

-----------------------------------------------------------------------------
\* The thread, the timeout watch and the finished turn race to end a run; at
\* most one of them appends RunFinished, the others find the run forgotten.
\* An orphan is expired at most once too, across restarts.
EndRecordedOnce ==
  \A r \in RunIds : runLog[r].service <= 1 /\ runLog[r].expiry <= 1

\* A run is registered as active only after its start is in the log for the
\* job its thread was spawned for, and an end is only ever recorded for such a
\* run: runs.jsonl never holds a RunFinished without its RunStarted before it.
EndsFollowStarts ==
  \A r \in RunIds :
    (r \in runningRuns \/ turn[r] # "none" \/ Ends(r) > 0)
      => runLog[r].job = runs[r].job

ActiveTogether(j) ==
  \E r, s \in runningRuns : /\ r # s
                            /\ runs[r].job = j /\ runs[r].def.overlap = "skip"
                            /\ runs[s].job = j /\ runs[s].def.overlap = "skip"

\* Two runs of a job that were both dispatched under overlap = skip are active
\* together only if, since the service started, a run of the job timed out or
\* the job ran under parallel: the one mark per job is exact until then,
\* whatever ticks, failures, finishes and edits come in between.
OverlapOnlyAfterDisturbance ==
  \A j \in JobIds : ActiveTogether(j) => j \in disturbed

\* The occurrence on record of a job only moves forward: however the job is
\* rescheduled, deleted or run in parallel, whatever views a tick still has in hand,
\* and through expiry, failing appends and restarts.  The one exception: a start still
\* to be recorded when a later snapshot shows its job as due.  Which of the two tells
\* the store last is open then, until the start is recorded and a snapshot taken anew.
LastScheduledAdvances ==
  [][\A j \in JobIds :
       runState'[j].last # runState[j].last
         => j \in overtaken \/ runState'[j].last > runState[j].last]_vars

\* What the logs say of a run.
Life(r) ==
  CASE ~Started(r) /\ Ends(r) = 0                                 -> "new"
    [] Started(r) /\ Ends(r) = 0                                  -> "open"
    [] Started(r) /\ runLog[r].service = 0 /\ runLog[r].expiry = 1 -> "expired"
    [] Started(r) /\ runLog[r].service = 1 /\ runLog[r].expiry <= 1 -> "ended"
    [] OTHER                                                      -> "broken"

\* The timer thread, the run threads, the watches, the turns, failures and restarts
\* together do to the logs what CronRuns promises: a run starts once and not before
\* its time, what ends it and what expires it come once each and in this order, and a
\* job's mark goes with the end of the run it names.
Runs == INSTANCE CronRuns WITH
          life <- [r \in RunIds |-> Life(r)],
          mark <- [j \in JobIds |-> runState[j].running],
          last <- [j \in JobIds |-> runState[j].last]
RunsAreKept == Runs!Spec

\* cron.md on timeout_seconds: "Mark an asynchronous run as failed if it does not
\* finish before the timeout".  As long as no store operation fails and the
\* service is not restarted, every started run of a job that is kept is recorded
\* as ended, even if its turn never ends.
StartedRunIsRecorded ==
  \A r \in RunIds :
    Started(r) ~> \/ Ends(r) >= 1
                  \/ \E j \in JobIds : jobs[j].status = "deleted"
                  \/ restarts + storeErrors > 0

\* The job is marked with a run that no thread will register and that is not active.
Orphaned(j) ==
  \E r \in RunIds : runState[j].running = r /\ thread[r] = "over" /\ r \notin runningRuns

\* A run mark left behind by a dead process or a failed append does not hold up
\* its job for ever, whatever occurrences are skipped meanwhile: a tick expires it.
OrphanIsReleased == \A j \in JobIds : Orphaned(j) ~> (~Orphaned(j) \/ ~Live(j))

\* Every due occurrence of an enabled job is recorded as started or skipped, or
\* the job is edited meanwhile (or the ids of runs are used up: a bound).
DueIsRecorded ==
  \A j \in JobIds, t \in 0..Horizon, v \in 1..MaxRevision :
    (Live(j) /\ jobs[j].revision = v /\ NextRunAt(j, now) = t /\ t <= now)
      ~> (runState[j].last >= t \/ ~Live(j) \/ jobs[j].revision # v \/ NoIdLeft)
=============================================================================
