------------------------------ MODULE CronRuns ------------------------------
(***************************************************************************)
(* What the scheduler promises of the runs of scheduled tasks, whoever     *)
(* races to end them, fails or dies: a run is started once, for an         *)
(* occurrence that is not in the future; it is expired at most once, while *)
(* it is open and its job's mark names it, and finished at most once after *)
(* that or instead; and the mark of a job is given to the run that starts  *)
(* and taken away with the end of the very run it names.                   *)
(***************************************************************************)
EXTENDS Naturals

CONSTANTS JobIds, RunIds, NoRun, NoTime

VARIABLES
  now,
  life,   \* per run id: new, open, expired or ended
  mark,   \* per job the run it is marked as running
  last    \* per job the occurrence last started or skipped

vars == <<now, life, mark, last>>

Init ==
  /\ now \in Nat
  /\ life = [r \in RunIds |-> "new"]
  /\ mark = [j \in JobIds |-> NoRun]
  /\ last = [j \in JobIds |-> NoTime]

Advance == now' \in Nat /\ now' > now /\ UNCHANGED <<life, mark, last>>

Occurs(j) == \E t \in 0..now : last' = [last EXCEPT ![j] = t]

Start(j, r) ==
  /\ life[r] = "new" /\ life' = [life EXCEPT ![r] = "open"]
  /\ mark' = [mark EXCEPT ![j] = r]
  /\ Occurs(j)
  /\ UNCHANGED now

Skip(j) == Occurs(j) /\ UNCHANGED <<now, life, mark>>

MarksWithout(R) == [j \in JobIds |-> IF mark[j] \in R THEN NoRun ELSE mark[j]]

Finish(r) ==
  /\ life[r] \in {"open", "expired"} /\ life' = [life EXCEPT ![r] = "ended"]
  /\ mark' = MarksWithout({r})
  /\ UNCHANGED <<now, last>>

Expire(R) ==
  /\ \A r \in R : life[r] = "open" /\ \E j \in JobIds : mark[j] = r
  /\ life' = [r \in RunIds |-> IF r \in R THEN "expired" ELSE life[r]]
  /\ mark' = MarksWithout(R)
  /\ UNCHANGED <<now, last>>

Next ==
  \/ Advance
  \/ \E j \in JobIds : Skip(j) \/ \E r \in RunIds : Start(j, r)
  \/ \E r \in RunIds : Finish(r)
  \/ \E R \in SUBSET RunIds : Expire(R)

Spec == Init /\ [][Next]_vars
=============================================================================
