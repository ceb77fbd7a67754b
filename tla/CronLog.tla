------------------------------ MODULE CronLog ------------------------------
(***************************************************************************)
(* The files under the cron store: the lock file every change of the store *)
(* is made under, and one of the two logs.  Several processes, and threads *)
(* of them, use the store: the gateway's cron service and the tasks        *)
(* capability of every running agent.  A change is made in steps: create   *)
(* the lock file or wait for it, read the log, append a line with one      *)
(* write for its text and one for its newline, remove the lock file.       *)
(***************************************************************************)
EXTENDS Naturals, FiniteSets

CONSTANTS
  Procs,        \* who uses the store
  NoLock,       \* there is no lock file
  MaxEvents,    \* bound on the lines that are appended
  MaxCrashes,   \* bound on processes that die
  MaxFailures   \* bound on writes that fail

ASSUME LogAssumption ==
  /\ NoLock \notin [owner : Procs, stale : BOOLEAN]
  /\ MaxEvents \in Nat /\ MaxCrashes \in Nat /\ MaxFailures \in Nat

VARIABLES
  lock,      \* .store.lock: who created it, and whether it is 30 minutes old
  at,        \* where each user of the store is
  event,     \* the line each of them writes, 0 while it writes none
  written,   \* the lines begun so far; they are numbered
  kept,      \* the events that are alone on a finished line of the log
  open,      \* the events on the last line while it has no newline
  acked,     \* the events whose append was answered with Ok
  crashes, failures,
  tears,     \* history: lines left without their newline
  disturbed  \* history: a living holder became stale, or a fresh lock was removed as stale

vars == <<lock, at, event, written, kept, open, acked, crashes, failures, tears, disturbed>>

Events == 1..MaxEvents

Places == {"idle", "try", "check", "remove", "wait", "held", "newline", "drop", "dead"}

Critical(p) == at[p] \in {"held", "newline", "drop"}

TypeOK ==
  /\ lock \in [owner : Procs, stale : BOOLEAN] \cup {NoLock}
  /\ at \in [Procs -> Places]
  /\ event \in [Procs -> 0..MaxEvents]
  /\ \A p \in Procs : at[p] = "newline" => event[p] \in Events
  /\ written \in 0..MaxEvents
  /\ kept \subseteq Events /\ open \subseteq Events /\ acked \subseteq Events
  /\ crashes \in 0..MaxCrashes /\ failures \in 0..MaxFailures
  /\ tears \in Nat
  /\ disturbed \in BOOLEAN

Init ==
  /\ lock = NoLock
  /\ at = [p \in Procs |-> "idle"]
  /\ event = [p \in Procs |-> 0] /\ written = 0
  /\ kept = {} /\ open = {} /\ acked = {}
  /\ crashes = 0 /\ failures = 0 /\ tears = 0
  /\ disturbed = FALSE

-----------------------------------------------------------------------------
(* StoreLock::acquire *)

Go(p, place) == at' = [at EXCEPT ![p] = place]
LogUnchanged == UNCHANGED <<event, written, kept, open, acked, crashes, failures, tears>>

Begin(p) ==
  /\ at[p] = "idle"
  /\ Go(p, "try")
  /\ LogUnchanged /\ UNCHANGED <<lock, disturbed>>

\* create_new makes the file or finds it there.
TryLock(p) ==
  /\ at[p] = "try"
  /\ \/ /\ lock = NoLock
        /\ lock' = [owner |-> p, stale |-> FALSE]
        /\ Go(p, "held")
     \/ /\ lock # NoLock
        /\ Go(p, "check") /\ UNCHANGED lock
  /\ LogUnchanged /\ UNCHANGED disturbed

IsStale == lock # NoLock /\ lock.stale

\* Mutant of CheckAge: a lock that was left behind is never looked at.
CheckAge_Never(p) ==
  /\ at[p] = "check"
  /\ Go(p, "wait")
  /\ LogUnchanged /\ UNCHANGED <<lock, disturbed>>

\* remove_stale_lock_if_needed reads the age of the file first ...
CheckAge(p) ==
  /\ at[p] = "check"
  /\ Go(p, IF IsStale THEN "remove" ELSE "wait")
  /\ LogUnchanged /\ UNCHANGED <<lock, disturbed>>

\* ... and removes whatever file is there by then.
RemoveStale(p) ==
  /\ at[p] = "remove"
  /\ lock' = NoLock
  /\ Go(p, "wait")
  /\ disturbed' = (disturbed \/ (lock # NoLock /\ ~lock.stale))
  /\ LogUnchanged

\* Mutant of WaitLock: the guard that removes the file exists before the lock is had.
WaitLock_Guarded(p) ==
  /\ at[p] = "wait"
  /\ Go(p, "try") \/ Go(p, "drop")
  /\ LogUnchanged /\ UNCHANGED <<lock, disturbed>>

\* After a nap it tries again, or its five seconds are over.
WaitLock(p) ==
  /\ at[p] = "wait"
  /\ Go(p, "try") \/ Go(p, "idle")
  /\ LogUnchanged /\ UNCHANGED <<lock, disturbed>>

-----------------------------------------------------------------------------
(* Under the lock *)

\* append_jsonl, the text of the line.
WriteText(p) ==
  /\ at[p] = "held"
  /\ written < MaxEvents
  /\ written' = written + 1
  /\ event' = [event EXCEPT ![p] = written']
  /\ open' = open \cup {written'}
  /\ Go(p, "newline")
  /\ UNCHANGED <<lock, kept, acked, crashes, failures, tears, disturbed>>

Alone == IF Cardinality(open) = 1 THEN open ELSE {}

\* Mutant of WriteNewline: the line is not ended.
WriteNewline_Forgotten(p) ==
  /\ at[p] = "newline"
  /\ acked' = acked \cup {event[p]}
  /\ Go(p, "held") \/ Go(p, "drop")
  /\ event' = [event EXCEPT ![p] = 0]
  /\ UNCHANGED <<lock, written, kept, open, crashes, failures, tears, disturbed>>

\* Its newline.  finish_expired_running_runs appends several lines in a row.
WriteNewline(p) ==
  /\ at[p] = "newline"
  /\ kept' = kept \cup Alone
  /\ open' = {}
  /\ acked' = acked \cup {event[p]}
  /\ Go(p, "held") \/ Go(p, "drop")
  /\ event' = [event EXCEPT ![p] = 0]
  /\ UNCHANGED <<lock, written, crashes, failures, tears, disturbed>>

\* What the log says makes the change invalid, or there is nothing to append.
Refuse(p) ==
  /\ at[p] = "held"
  /\ Go(p, "drop")
  /\ LogUnchanged /\ UNCHANGED <<lock, disturbed>>

WriteFails(p) ==
  /\ at[p] \in {"held", "newline"}
  /\ failures < MaxFailures
  /\ failures' = failures + 1
  /\ tears' = IF at[p] = "newline" THEN tears + 1 ELSE tears
  /\ Go(p, "drop")
  /\ event' = [event EXCEPT ![p] = 0]
  /\ UNCHANGED <<lock, written, kept, open, acked, crashes, disturbed>>

\* Drop removes the lock file, whoever created it.
DropLock(p) ==
  /\ at[p] = "drop"
  /\ lock' = NoLock
  /\ Go(p, "idle")
  /\ LogUnchanged /\ UNCHANGED disturbed

-----------------------------------------------------------------------------
(* Time and death *)

\* Thirty minutes pass since the lock file was created.
Age ==
  /\ lock # NoLock /\ ~lock.stale
  /\ lock' = [owner |-> lock.owner, stale |-> TRUE]
  /\ disturbed' = (disturbed \/ Critical(lock.owner))
  /\ LogUnchanged /\ UNCHANGED at

Crash(p) ==
  /\ at[p] # "dead"
  /\ crashes < MaxCrashes
  /\ crashes' = crashes + 1
  /\ tears' = IF at[p] = "newline" THEN tears + 1 ELSE tears
  /\ Go(p, "dead")
  /\ event' = [event EXCEPT ![p] = 0]
  /\ UNCHANGED <<lock, written, kept, open, acked, failures, disturbed>>

Restart(p) ==
  /\ at[p] = "dead"
  /\ Go(p, "idle")
  /\ LogUnchanged /\ UNCHANGED <<lock, disturbed>>

Live(p) ==
  \/ Begin(p) \/ TryLock(p) \/ CheckAge(p) \/ RemoveStale(p) \/ WaitLock(p)
  \/ WriteText(p) \/ WriteNewline(p) \/ Refuse(p) \/ DropLock(p)

Next == Age \/ \E p \in Procs : Live(p) \/ WriteFails(p) \/ Crash(p) \/ Restart(p)

Spec == Init /\ [][Next]_vars

\* The service ticks every second and each tick takes the lock; files grow old.
FairSpec == Spec /\ WF_vars(Age) /\ \A p \in Procs : WF_vars(Live(p))

-----------------------------------------------------------------------------
\* read_jsonl_best_effort: a line is an event or it is skipped, and the last line
\* counts without its newline.
Replay == kept \cup Alone

\* The store is changed by one at a time, as every caller of with_lock takes for
\* granted, though holders die and their lock is cleared away: unless a living
\* holder takes half an hour, or two who wait find the same lock stale and the second
\* removes the one the first has made meanwhile.
OneHolder ==
  disturbed \/ \A p, q \in Procs : Critical(p) /\ Critical(q) => p = q

\* An event whose append was answered is read by everybody from then on, except
\* that each line left without a newline swallows the one appended next.
AckedIsReplayed ==
  disturbed \/ Cardinality(acked \ Replay) <= tears

\* A lock left behind by a dead process does not lock the store for ever.
LockComesFree == (lock # NoLock) ~> (lock = NoLock)
=============================================================================
