---------------------------- MODULE MCCronTimer ----------------------------
(* Small jobs for CronTimer: a second is two instants, a day eight, a week   *)
(* two days.                                                               *)
EXTENDS CronTimer

Job(schedule, created, missed_run) ==
  [enabled |-> TRUE, created |-> created, schedule |-> schedule,
   missed_run |-> missed_run]

Calendars == {Once(6), Daily(2), Daily(6), Weekly({1}, 4), Weekly({0, 1}, 0)}
Anchored  == {Interval(4, 0), Interval(4, 10), Interval(6, 2)}

CalendarJobs   == {Job(s, c, "run_once") : s \in Calendars, c \in {0, 3}}
AnchoredJobs   == {Job(s, c, "run_once") : s \in Anchored, c \in {0, 3, 5}}
SkipJobs       == {Job(s, 0, "skip") : s \in Calendars \cup Anchored}
AllJobs        == CalendarJobs \cup AnchoredJobs \cup SkipJobs
=============================================================================
