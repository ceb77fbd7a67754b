----------------------------- MODULE CronStore -----------------------------
(***************************************************************************)
(* The durable state of scheduled tasks: src/cron/store.rs.  The store is  *)
(* two append-only logs, jobs.jsonl and runs.jsonl; what the program acts  *)
(* on is their replay.  Replaying an appended event is applying it to the  *)
(* replay of what precedes it, so this module keeps the replayed state and *)
(* each append is one atomic update of it, made under the store lock.      *)
(*                                                                         *)
(* Callers: the tasks capability (create, update, delete) and CronService  *)
(* (start, finish, skip, expire).  None of the four looks at what is on    *)
(* record: they append what the service gives them, which it may have      *)
(* taken from a snapshot some time ago.                                    *)
(***************************************************************************)
EXTENDS CronClock

CONSTANTS
  JobIds,     \* ids of jobs; create_job draws a fresh one each time
  RunIds,     \* ids of runs; start_run draws a fresh one each time
  NoRun,      \* running_run_id when no run is marked running
  NoJob,      \* the job of a run that is not in the log
  JobDefs,    \* what a caller may ask for: see JobDef
  MaxRevision \* bound on the updates of one job

\* The part of a CronJob a patch may replace.
JobDef == [enabled    : BOOLEAN,
           schedule   : {d.schedule : d \in JobDefs},
           missed_run : {"skip", "run_once"},
           overlap    : {"skip", "parallel"},
           timeout    : Nat \ {0}]

ASSUME StoreAssumption ==
  /\ NoRun \notin RunIds
  /\ NoJob \notin JobIds
  /\ JobIds # {}
  /\ JobDefs # {}
  /\ JobDefs \subseteq JobDef
  /\ MaxRevision \in Nat

\* compute_next_run_at refuses an interval of zero seconds.
ASSUME SchedulesAssumption == \A d \in JobDefs : IsSchedule(d.schedule)

VARIABLES
  jobs,      \* replay_jobs: per id its status, revision, created_at and definition
  runState,  \* replay_run_state: last_scheduled_for, last_started_at, running_run_id
  runLog     \* per run id: the job it was started for, and by whom its end is recorded

storeVars == <<now, jobs, runState, runLog>>

NoState == [last |-> NoTime, startedAt |-> NoTime, running |-> NoRun]
NoLog   == [job |-> NoJob, service |-> 0, expiry |-> 0]

JobRecord == [status : {"new", "live", "deleted"}, revision : Nat,
              created : Nat, def : JobDefs]
StateRecord == [last : Times, startedAt : Times, running : RunIds \cup {NoRun}]
LogRecord   == [job : JobIds \cup {NoJob}, service : Nat, expiry : Nat]

StoreTypeOK ==
  /\ now \in Nat
  /\ jobs \in [JobIds -> JobRecord]
  /\ runState \in [JobIds -> StateRecord]
  /\ runLog \in [RunIds -> LogRecord]

StoreInit ==
  /\ now = 0
  /\ jobs = [j \in JobIds |-> [status |-> "new", revision |-> 0, created |-> 0,
                               def |-> CHOOSE d \in JobDefs : TRUE]]
  /\ runState = [j \in JobIds |-> NoState]
  /\ runLog = [r \in RunIds |-> NoLog]

-----------------------------------------------------------------------------
Started(r) == runLog[r].job # NoJob

Ends(r) == runLog[r].service + runLog[r].expiry

Live(j) == jobs[j].status = "live"

AsJob(def, created) ==
  [enabled |-> def.enabled, created |-> created, schedule |-> def.schedule,
   missed_run |-> def.missed_run]

\* snapshot: the next_run_at of a job at time t.
NextRunAt(j, t) ==
  ComputeNextRunAt(AsJob(jobs[j].def, jobs[j].created), runState[j].last, t)

\* validate_job looks for the next run of the definition with no run state.
ValidJob(def, created) ==
  def.enabled => ComputeNextRunAt(AsJob(def, created), NoTime, now) # NoTime

CreateJob(j, def) ==
  /\ jobs[j].status = "new"
  /\ ValidJob(def, now)
  /\ jobs' = [jobs EXCEPT ![j] = [status |-> "live", revision |-> 1,
                                  created |-> now, def |-> def]]
  /\ UNCHANGED <<now, runState, runLog>>

\* An update with a base revision is refused when the job has moved on;
\* `base` is NoTime when the caller gives none.  Pause and resume are updates.
UpdateJob(j, base, def) ==
  /\ Live(j)
  /\ base \in {NoTime, jobs[j].revision}
  /\ ValidJob(def, jobs[j].created)
  /\ jobs[j].revision < MaxRevision
  /\ jobs' = [jobs EXCEPT ![j].revision = @ + 1, ![j].def = def]
  /\ UNCHANGED <<now, runState, runLog>>

DeleteJob(j, base) ==
  /\ Live(j)
  /\ base \in {NoTime, jobs[j].revision}
  /\ jobs' = [jobs EXCEPT ![j].status = "deleted"]
  /\ UNCHANGED <<now, runState, runLog>>

-----------------------------------------------------------------------------
(***************************************************************************)
(* The run events.  Each operator gives the effect of appending one, under *)
(* no condition; what is appended when is up to CronService.               *)
(***************************************************************************)
AppendStarted(j, r, scheduled_for) ==
  /\ runState' = [runState EXCEPT ![j] = [last |-> scheduled_for,
                                          startedAt |-> now, running |-> r]]
  /\ runLog' = [runLog EXCEPT ![r].job = j]

\* Mutant of CloseRun: the replay of an end leaves the mark.
LeaveRun(state, r) == state

CloseRun(state, r) ==
  IF state.running = r THEN [state EXCEPT !.running = NoRun] ELSE state

\* Mutant of AppendFinished: the replay starts afresh at each end.
FinishedAfresh(j, r) ==
  /\ runState' = [runState EXCEPT ![j] = NoState]
  /\ runLog' = [runLog EXCEPT ![r].service = @ + 1]

AppendFinished(j, r) ==
  /\ runState' = [runState EXCEPT ![j] = CloseRun(@, r)]
  /\ runLog' = [runLog EXCEPT ![r].service = @ + 1]

\* A skipped occurrence becomes last_scheduled_for and leaves the running
\* mark of an earlier run alone.
AppendSkipped(j, scheduled_for) ==
  runState' = [runState EXCEPT ![j].last = scheduled_for]

\* Mutant of Expired: the runs still active are taken, not the others.
ExpiredIfActive(active, t) ==
  {j \in JobIds : /\ Live(j)
                  /\ runState[j].running \in active
                  /\ runState[j].startedAt + jobs[j].def.timeout <= t}

\* The jobs whose running mark names no active run and whose latest start is
\* a timeout ago.
Expired(active, t) ==
  {j \in JobIds : /\ Live(j)
                  /\ runState[j].running \notin active \cup {NoRun}
                  /\ runState[j].startedAt # NoTime
                  /\ runState[j].startedAt + jobs[j].def.timeout <= t}

FinishExpiredRunningRuns(active, t) ==
  LET expired == Expired(active, t) IN
  /\ runState' = [j \in JobIds |->
                    IF j \in expired THEN CloseRun(runState[j], runState[j].running)
                    ELSE runState[j]]
  /\ runLog' = [r \in RunIds |->
                  IF \E j \in expired : runState[j].running = r
                  THEN [runLog[r] EXCEPT !.expiry = @ + 1] ELSE runLog[r]]

-----------------------------------------------------------------------------
(***************************************************************************)
(* What callers do with jobs, and when a job is due.                       *)
(***************************************************************************)
JobsNext ==
  \E j \in JobIds, def \in JobDefs :
    \/ CreateJob(j, def)
    \/ \E base \in {NoTime} \cup 1..MaxRevision :
         UpdateJob(j, base, def) \/ DeleteJob(j, base)

Due(j) == Live(j) /\ NextRunAt(j, now) \in 0..now

-----------------------------------------------------------------------------
\* The running mark the replay leaves on a job always names a run that was
\* started for that very job and that nobody has recorded as ended: neither the
\* end of an older run nor an expiry closes the wrong one.
RunningMarkIsOpen ==
  \A j \in JobIds :
    runState[j].running # NoRun =>
      /\ runLog[runState[j].running].job = j
      /\ Ends(runState[j].running) = 0
=============================================================================
