------------------------------ MODULE MCCronLog ------------------------------
(* Users of the cron store for CronLog: with three of them a holder dies while *)
(* two wait.                                                                   *)
EXTENDS CronLog
CONSTANTS p1, p2, p3
=============================================================================
