---------------------------- MODULE CronSchedule ----------------------------
(***************************************************************************)
(* When a scheduled task runs next: compute_next_run_at of                 *)
(* src/cron/schedule.rs as a pure operator.                                *)
(*                                                                         *)
(* Time is an integer number of instants.  A second lasts Second instants, *)
(* so that a clock reading may fall between two whole seconds, as          *)
(* Utc::now() does, while the times a job names are whole seconds.  A day  *)
(* of the calendar lasts Day instants and the week repeats every           *)
(* WeekLength days; the time zone is one fixed shift and is already        *)
(* applied to a job's time of day.                                         *)
(***************************************************************************)
EXTENDS Integers, FiniteSets

CONSTANTS
  Second,       \* instants per second (Duration::num_seconds truncates to it)
  Day,          \* instants per day
  WeekLength,   \* days per week
  WindowDays    \* days ahead the calendar search looks (370 in the code)

ASSUME ScheduleAssumption ==
  /\ Second \in Nat \ {0}
  /\ Day \in Nat \ {0}
  /\ WeekLength \in Nat \ {0}
  /\ WindowDays \in Nat \ {0}

NoTime == -1    \* Option::None for a time
Times  == Nat \cup {NoTime}

Once(at)               == [kind |-> "once", at |-> at]
Interval(every, anchor) == [kind |-> "interval", every |-> every, anchor |-> anchor]
Daily(time)            == [kind |-> "daily", time |-> time]
Weekly(weekdays, time) == [kind |-> "weekly", weekdays |-> weekdays, time |-> time]

\* The fields of a schedule that can be computed with: a period is not zero and
\* a time of day is one.
IsSchedule(s) ==
  \/ s \in [kind : {"once"}, at : Nat]
  \/ s \in [kind : {"interval"}, every : Nat \ {0}, anchor : Times]
  \/ s \in [kind : {"daily"}, time : 0..Day - 1]
  \/ s \in [kind : {"weekly"}, weekdays : SUBSET (0..WeekLength - 1), time : 0..Day - 1]

Earliest(S) == CHOOSE t \in S : \A u \in S : t <= u
Latest(S)   == CHOOSE t \in S : \A u \in S : t >= u

-----------------------------------------------------------------------------
NumSeconds(duration) == duration \div Second

OnceNext(at, last, now, created, missed_run) ==
  IF \/ last # NoTime
     \/ at < created
     \/ at <= now /\ missed_run = "skip"
  THEN NoTime
  ELSE at

\* Mutant of AnchorFrom: the remainder is not rounded up.
AnchorRoundedDown(anchor, every, created) ==
  IF anchor < created
  THEN anchor + (NumSeconds(created - anchor) \div NumSeconds(every)) * every
  ELSE anchor

\* An anchor before the job existed is moved forward by whole periods.
AnchorFrom(anchor, every, created) ==
  LET elapsed == NumSeconds(created - anchor)
      period  == NumSeconds(every)
      steps   == (elapsed \div period) + (IF elapsed % period # 0 THEN 1 ELSE 0)
  IN  IF anchor < created THEN anchor + steps * every ELSE anchor

\* With a previous occurrence the next one is a period later, whatever `now`
\* is.  Without an anchor the first occurrence is a period after `now`.
IntervalNext(every, given, last, now, created, missed_run) ==
  LET anchor == AnchorFrom(IF given = NoTime THEN now + every ELSE given,
                           every, created)
      steps  == NumSeconds(now - anchor) \div NumSeconds(every)
      latest == anchor + steps * every
  IN  CASE last # NoTime                          -> last + every
        [] last = NoTime /\ anchor > now          -> anchor
        [] last = NoTime /\ anchor <= now
           /\ (latest = now \/ missed_run = "run_once") -> latest
        [] OTHER                                  -> latest + every

\* Mutant of CalendarNext: the first missed occurrence wins, not the last.
CalendarOldestFirst(days, time, last, now, created, missed_run) ==
  LET candidates == {c \in {d * Day + time : d \in days} :
                       /\ IF last = NoTime THEN c >= created ELSE c > last
                       /\ c < now => missed_run = "run_once"}
  IN  IF candidates = {} THEN NoTime ELSE Earliest(candidates)

\* The loop of compute_daily_next and compute_weekly_next over the days of the
\* window: past candidates count only under run_once, and the latest of them
\* wins over the first candidate that is not past.
CalendarNext(days, time, last, now, created, missed_run) ==
  LET candidates == {c \in {d * Day + time : d \in days} :
                       IF last = NoTime THEN c >= created ELSE c > last}
      past   == {c \in candidates : c < now}
      coming == {c \in candidates : c >= now}
  IN  CASE past # {} /\ missed_run = "run_once"                   -> Latest(past)
        [] (past = {} \/ missed_run = "skip") /\ coming # {}       -> Earliest(coming)
        [] OTHER                                                   -> NoTime

Today(now) == now \div Day

DailyNext(time, last, now, created, missed_run) ==
  CalendarNext((Today(now) - 1)..(Today(now) + WindowDays),
               time, last, now, created, missed_run)

WeeklyNext(weekdays, time, last, now, created, missed_run) ==
  CalendarNext({d \in (Today(now) - WeekLength)..(Today(now) + WindowDays) :
                  d % WeekLength \in weekdays},
               time, last, now, created, missed_run)

(***************************************************************************)
(* A job is [enabled, created, schedule, missed_run]; `last` is the        *)
(* last_scheduled_for of its replayed state.                               *)
(***************************************************************************)
ComputeNextRunAt(job, last, now) ==
  LET s == job.schedule IN
  CASE ~job.enabled -> NoTime
    [] job.enabled /\ s.kind = "once" ->
         OnceNext(s.at, last, now, job.created, job.missed_run)
    [] job.enabled /\ s.kind = "interval" ->
         IntervalNext(s.every, s.anchor, last, now, job.created, job.missed_run)
    [] job.enabled /\ s.kind = "daily" ->
         DailyNext(s.time, last, now, job.created, job.missed_run)
    [] OTHER ->
         WeeklyNext(s.weekdays, s.time, last, now, job.created, job.missed_run)
=============================================================================
