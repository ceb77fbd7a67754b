SPECIFICATION TimerSpec
CONSTANTS
  Second = 2
  Day = 8
  WeekLength = 2
  WindowDays = 3
  TimedJobs <- AllJobs
  MaxNow = 26
INVARIANTS RunsOnSchedule CalendarBacklogCollapses
