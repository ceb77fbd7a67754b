--------------------------- MODULE MCCronService ---------------------------
(* Small jobs for CronService; one instant is one second.                    *)
EXTENDS CronService, TLC

Def(schedule, overlap, timeout) ==
  [enabled |-> TRUE, schedule |-> schedule, missed_run |-> "run_once",
   overlap |-> overlap, timeout |-> timeout]

\* Due at once and again an instant later.  A run that starts late, at 1, is not
\* yet expired when the occurrence at 1 comes up; one that starts at 0 is.
SkipInterval   == Def(Interval(1, 0), "skip", 1)
ParallelOnce   == Def(Once(0), "parallel", 1)

MixedDefs == {SkipInterval, ParallelOnce}

Edited(j) == jobs[j].status = "deleted" \/ jobs[j].revision > 1
Parallel(j) == jobs[j].def.overlap = "parallel"

\* The jobs are there from the start: a later creation only shifts the clock.
EarlyJobs == now > 0 => \A j \in JobIds : jobs[j].status # "new"

\* Restarts and failing store operations are explored for jobs under skip that
\* nobody edits.
Calm == \A j \in JobIds : Edited(j) \/ Parallel(j) => restarts + storeErrors = 0

\* A job under parallel is followed for the first instants only.
Brief == \A j \in JobIds : Parallel(j) => now <= 1

\* So is an edited job, which is deleted or rescheduled, never both.
OneEdit ==
  \A j \in JobIds :
    /\ Edited(j) => now <= 1
    /\ jobs[j].status = "deleted" => jobs[j].revision = 1

OneFault == restarts + storeErrors <= 1

RunsBounds == EarlyJobs /\ Calm /\ Brief /\ OneEdit /\ OneFault

Unedited == \A j \in JobIds : ~Edited(j)

\* A run that starts late is followed without faults.
CalmOvertaking == overtaken # {} => restarts + storeErrors = 0

\* Turns hang, unless the job is under skip and met neither a late start nor a
\* failed store operation.
Hanging ==
  \/ \A r \in RunIds : turn[r] # "over"
  \/ overtaken = {} /\ storeErrors = 0 /\ \A j \in JobIds : ~Parallel(j)

\* An edit is an excuse in every liveness property.
RecoveryBounds == RunsBounds /\ Unedited /\ CalmOvertaking /\ Hanging
=============================================================================
