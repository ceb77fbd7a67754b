----------------------------- MODULE CronTimer -----------------------------
(***************************************************************************)
(* One scheduled task under the timer of CronService: the service goes up  *)
(* and down, its timer ticks at whatever instant the thread wakes, and a   *)
(* tick hands out the occurrence compute_next_run_at calls due.  A run is  *)
(* instantaneous here (CronService.tla models runs); what matters is which *)
(* occurrence each tick picks.                                             *)
(***************************************************************************)
EXTENDS CronClock

CONSTANT TimedJobs   \* the jobs to consider, as CronSchedule job records

\* create_job stores a valid job with the current time; seconds are whole.
ASSUME TimerAssumption ==
  \A j \in TimedJobs :
    /\ j.enabled
    /\ j.created \in 0..MaxNow
    /\ IsSchedule(j.schedule)
    /\ j.schedule.kind = "interval" => j.schedule.every % Second = 0

VARIABLES
  job,       \* the job, fixed at the start
  up,        \* is the long-lived service running?
  upSince,   \* when it was last started
  lastTick,  \* the `now` of the latest tick, NoTime before the first
  last,      \* last_scheduled_for of the job
  handed     \* how many times a tick has handed the job out

timerVars == <<now, job, up, upSince, lastTick, last, handed>>

TimerTypeOK ==
  /\ now \in 0..MaxNow
  /\ job \in TimedJobs
  /\ up \in BOOLEAN
  /\ upSince \in 0..MaxNow
  /\ lastTick \in Times
  /\ last \in Times
  /\ handed \in Nat

TimerInit ==
  /\ job \in TimedJobs
  /\ now = job.created
  /\ up = TRUE
  /\ upSince = job.created
  /\ lastTick = NoTime
  /\ last = NoTime
  /\ handed = 0

-----------------------------------------------------------------------------
TimerAdvance ==
  /\ ClockAdvances
  /\ UNCHANGED <<job, up, upSince, lastTick, last, handed>>

StopService ==
  /\ up
  /\ up' = FALSE
  /\ UNCHANGED <<now, job, upSince, lastTick, last, handed>>

StartService ==
  /\ ~up
  /\ up' = TRUE
  /\ upSince' = now
  /\ UNCHANGED <<now, job, lastTick, last, handed>>

\* Snapshot, and run the job when next_run_at <= now.  Starting and skipping
\* both record the occurrence as last_scheduled_for.
Tick ==
  LET next == ComputeNextRunAt(job, last, now) IN
  /\ up
  /\ lastTick' = now
  /\ \/ /\ next # NoTime /\ next <= now
        /\ last' = next
        /\ handed' = handed + 1
     \/ /\ next = NoTime \/ next > now
        /\ UNCHANGED <<last, handed>>
  /\ UNCHANGED <<now, job, up, upSince>>

TimerNext == TimerAdvance \/ StopService \/ StartService \/ Tick

TimerSpec == TimerInit /\ [][TimerNext]_timerVars

-----------------------------------------------------------------------------
(***************************************************************************)
(* The reference: the instants the schedule itself names, with no window,  *)
(* no policy and no state.                                                 *)
(***************************************************************************)
Occurrences ==
  LET s == job.schedule IN
  {t \in 0..MaxNow :
     CASE s.kind = "once"     -> t = s.at
       [] s.kind = "interval" ->
            s.anchor # NoTime /\ t >= s.anchor /\ (t - s.anchor) % s.every = 0
       [] s.kind = "daily"    -> t % Day = s.time
       [] s.kind = "weekly"   -> /\ t % Day = s.time
                                 /\ (t \div Day) % WeekLength \in s.weekdays}

Missed(upto) == {o \in Occurrences : job.created <= o /\ o <= upto}

\* A task runs only at instants its schedule names, never before the instant
\* has come, and never for an instant that had passed a second or more when
\* the task was created (compute_next_run_at works in whole seconds).
RunsOnSchedule ==
  last # NoTime => /\ last \in Occurrences
                   /\ last <= now
                   /\ last > job.created - Second

\* The calendar kinds collapse a backlog: after a tick every occurrence before
\* that tick is either run or overtaken by the one the tick handed out.  The
\* window search of compute_daily_next and compute_weekly_next never loses the
\* latest missed occurrence and never leaves an older one to be replayed.
CalendarBacklogCollapses ==
  (/\ job.schedule.kind \in {"once", "daily", "weekly"}
   /\ job.missed_run = "run_once"
   /\ lastTick # NoTime)
    => \A o \in Missed(lastTick - 1) : o <= last
=============================================================================
