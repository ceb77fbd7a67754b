----------------------------- MODULE CronClock -----------------------------
(***************************************************************************)
(* The wall clock the timer and the store of scheduled tasks read          *)
(* (Utc::now() in src/cron/service.rs and src/cron/store.rs).              *)
(***************************************************************************)
EXTENDS CronSchedule

CONSTANT MaxNow   \* bound on the clock

ASSUME ClockAssumption == MaxNow \in Nat

VARIABLE now      \* Utc::now()

ClockAdvances ==
  /\ now < MaxNow
  /\ now' = now + 1
=============================================================================
