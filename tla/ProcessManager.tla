--------------------------- MODULE ProcessManager ---------------------------
(***************************************************************************)
(* One managed process of src/process_manager.rs.  Its host is either the  *)
(* supervisor, an operating-system process of its own that runs the child  *)
(* behind pipes, or the PTY reader thread of the runtime.  Host and tool   *)
(* calls share one state file that everybody rewrites whole, from a copy   *)
(* read earlier, through one temporary file.                               *)
(***************************************************************************)
EXTENDS Naturals, Sequences, FiniteSets

CONSTANTS Watchers,   \* calls of process_watch
          Stoppers,   \* calls of process_stop
          Host,       \* the supervisor or the PTY reader
          None,
          Kinds,      \* subset of {"piped", "pty"}: how the process was started
          MaxCrashes  \* bound on deaths of the runtime

Calls  == Watchers \cup Stoppers
Actors == Calls \cup {Host}

ASSUME ActorsAreDistinct == Watchers \cap Stoppers = {} /\ Host \notin Calls /\ None \notin Actors
ASSUME KindsAndBounds == Kinds \subseteq {"piped", "pty"} /\ MaxCrashes \in Nat

VARIABLES
  kind,      \* how the process was started
  file,      \* <process_id>.json
  tmp,       \* <process_id>.json.tmp, or None
  child,     \* the child: "none", "running", "signalled" or "dead"
  live,      \* it is in the live PTY registry of the runtime
  log,       \* how complete <process_id>.log is
  at,        \* where each actor is
  then,      \* where it goes once its write_state is over
  mem,       \* the copy of the state each actor holds
  reported,  \* the exit events appended to messages.jsonl, per watch: the log each of them saw
  crashes,   \* deaths of the runtime
  raced      \* history: two actors held copies of the state at the same time

vars == <<kind, file, tmp, child, live, log, at, then, mem, reported, crashes, raced>>

ProcessState == [status : {"starting", "running", "stopping", "exited", "failed"},
                 pid : BOOLEAN, watch : Watchers \cup {None}, triggered : BOOLEAN]
Started == [status |-> "starting", pid |-> FALSE, watch |-> None, triggered |-> FALSE]
ASSUME NoneIsNoState == None \notin ProcessState
Logs    == {"partial", "output", "closed"}   \* output missing, all output, all output and the exit line
Places  == {"idle", "load", "spawn", "wait", "reload", "save", "rename", "line", "trigger", "kill",
            "registered", "returned", "failed", "gone"}

IsFinal(state) == state.status \in {"exited", "failed"}

TypeOK ==
  /\ kind \in Kinds /\ file \in ProcessState /\ tmp \in ProcessState \cup {None}
  /\ child \in {"none", "running", "signalled", "dead"} /\ live \in BOOLEAN /\ log \in Logs
  /\ at \in [Actors -> Places] /\ then \in [Actors -> Places] /\ mem \in [Actors -> ProcessState]
  /\ reported \in [Watchers -> Seq(Logs)] /\ crashes \in 0 .. MaxCrashes /\ raced \in BOOLEAN

\* start_process has written the "starting" state.
Init ==
  /\ kind \in Kinds /\ file = Started /\ tmp = None /\ child = "none" /\ live = FALSE
  /\ log = "partial" /\ at = [a \in Actors |-> IF a = Host THEN "load" ELSE "idle"]
  /\ then = [a \in Actors |-> "returned"] /\ mem = [a \in Actors |-> Started]
  /\ reported = [w \in Watchers |-> <<>>] /\ crashes = 0 /\ raced = FALSE

-----------------------------------------------------------------------------
(* Steps of any actor *)

Go(a, place)         == at' = [at EXCEPT ![a] = place]
Hold(a, state)       == mem' = [mem EXCEPT ![a] = state]
SaveThen(a, place)   == Go(a, "save") /\ then' = [then EXCEPT ![a] = place]

\* write_state, first half: the temporary file all writers share.
WriteTmp(a) ==
  /\ at[a] = "save"
  /\ tmp' = mem[a] /\ Go(a, "rename")
  /\ UNCHANGED <<kind, file, child, live, log, then, mem, reported, crashes>>

\* write_state, second half.  Another writer may have taken the temporary file
\* away: the supervisor and the calls give up, the PTY reader ignores the error.
Rename(a) ==
  /\ at[a] = "rename"
  /\ IF tmp # None THEN file' = tmp /\ Go(a, then[a])
                   ELSE file' = file /\ Go(a, IF a = Host /\ kind = "pty" THEN then[a] ELSE "failed")
  /\ tmp' = None
  /\ UNCHANGED <<kind, child, live, log, then, mem, reported, crashes>>

\* trigger_exit_event_if_needed, for the watch in the actor's copy.
Trigger(a) ==
  LET w == mem[a].watch IN
  /\ at[a] = "trigger"
  /\ IF w = None \/ mem[a].triggered
     THEN Go(a, "returned") /\ UNCHANGED <<reported, mem, then>>
     ELSE /\ reported' = [reported EXCEPT ![w] = Append(@, log)]
          /\ Hold(a, [mem[a] EXCEPT !.triggered = TRUE]) /\ SaveThen(a, "returned")
  /\ UNCHANGED <<kind, file, tmp, child, live, log, crashes>>

-----------------------------------------------------------------------------
(* The host *)

\* start_pty_process: nobody knows the process before the call returns, so its
\* steps are one.  An error leaves the "starting" state behind.
StartPty ==
  /\ kind = "pty" /\ at[Host] = "load"
  /\ \/ /\ child' = "running" /\ live' = TRUE /\ Go(Host, "wait")
        /\ file' = [file EXCEPT !.status = "running", !.pid = TRUE]
     \/ Go(Host, "failed") /\ UNCHANGED <<child, live, file>>
  /\ UNCHANGED <<kind, tmp, log, then, mem, reported, crashes>>

\* The supervisor reads the state, once and for all.
SupervisorLoads ==
  /\ kind = "piped" /\ at[Host] = "load"
  /\ Hold(Host, file) /\ Go(Host, "spawn")
  /\ UNCHANGED <<kind, file, tmp, child, live, log, then, reported, crashes>>

SupervisorSpawns ==
  /\ at[Host] = "spawn"
  /\ \/ /\ child' = "running" /\ SaveThen(Host, "wait")
        /\ Hold(Host, [mem[Host] EXCEPT !.status = "running", !.pid = TRUE])
     \/ /\ child' = child /\ SaveThen(Host, "line")
        /\ Hold(Host, [mem[Host] EXCEPT !.status = "failed"])
  /\ UNCHANGED <<kind, file, tmp, live, log, reported, crashes>>

\* The child ends, by itself or by the signal; closing the PTY of a dead runtime hangs it up.
ChildExits ==
  /\ child \in {"running", "signalled"}
  /\ child' = "dead"
  /\ UNCHANGED <<kind, file, tmp, live, log, at, then, mem, reported, crashes>>

\* Mutant of HostSeesExit: the loggers are not waited for.
HostSeesExit_NoJoin ==
  /\ at[Host] = "wait" /\ child = "dead"
  /\ log' = log
  /\ IF kind = "pty" THEN Go(Host, "reload") /\ UNCHANGED <<mem, then>>
     ELSE Hold(Host, [mem[Host] EXCEPT !.status = "exited"]) /\ SaveThen(Host, "line")
  /\ UNCHANGED <<kind, file, tmp, child, live, reported, crashes>>

\* wait returns and the loggers, or the reader, reach the end of the output.
HostSeesExit ==
  /\ at[Host] = "wait" /\ child = "dead"
  /\ log' = "output"
  /\ IF kind = "pty" THEN Go(Host, "reload") /\ UNCHANGED <<mem, then>>
     ELSE Hold(Host, [mem[Host] EXCEPT !.status = "exited"]) /\ SaveThen(Host, "line")
  /\ UNCHANGED <<kind, file, tmp, child, live, reported, crashes>>

\* Mutant of ReaderReloads: the reader keeps the state it was started with.
ReaderReloads_Stale ==
  /\ at[Host] = "reload"
  /\ Hold(Host, [mem[Host] EXCEPT !.status = "exited", !.pid = TRUE]) /\ SaveThen(Host, "line")
  /\ UNCHANGED <<kind, file, tmp, child, live, log, reported, crashes>>

\* The PTY reader reads the state again before it writes the exit.
ReaderReloads ==
  /\ at[Host] = "reload"
  /\ Hold(Host, [file EXCEPT !.status = "exited"]) /\ SaveThen(Host, "line")
  /\ UNCHANGED <<kind, file, tmp, child, live, log, reported, crashes>>

HostAppendsExitLine ==
  /\ at[Host] = "line"
  /\ log' = "closed" /\ Go(Host, "trigger")
  /\ UNCHANGED <<kind, file, tmp, child, live, then, mem, reported, crashes>>

ReaderUnregisters ==
  /\ at[Host] = "returned" /\ live
  /\ live' = FALSE
  /\ UNCHANGED <<kind, file, tmp, child, log, at, then, mem, reported, crashes>>

-----------------------------------------------------------------------------
(* The tool calls *)

\* start_process has returned the id: at once for a PTY, after at most five
\* seconds, whatever the supervisor has done by then, for a piped process.
IsKnown == kind = "piped" \/ at[Host] \notin {"load", "failed"}

\* Mutant of WatchReads: the watch is saved before the call looks whether the output is over.
WatchReads_SaveFirst(w) ==
  /\ at[w] = "idle" /\ IsKnown
  /\ Hold(w, [file EXCEPT !.watch = w, !.triggered = FALSE])
  /\ SaveThen(w, IF log # "partial" THEN "trigger" ELSE "registered")
  /\ UNCHANGED <<kind, file, tmp, child, live, log, reported, crashes>>

WatchReads(w) ==
  /\ at[w] = "idle" /\ IsKnown
  /\ Hold(w, [file EXCEPT !.watch = w, !.triggered = FALSE])
  /\ IF IsFinal(file) THEN Go(w, "trigger") /\ then' = then ELSE SaveThen(w, "registered")
  /\ UNCHANGED <<kind, file, tmp, child, live, log, reported, crashes>>

\* Mutant of StopReads: no early return for a process that is over.
StopReads_Unchecked(s) ==
  /\ at[s] = "idle" /\ IsKnown
  /\ Hold(s, file) /\ Go(s, "kill")
  /\ UNCHANGED <<kind, file, tmp, child, live, log, then, reported, crashes>>

StopReads(s) ==
  /\ at[s] = "idle" /\ IsKnown
  /\ Hold(s, file) /\ Go(s, IF IsFinal(file) THEN "returned" ELSE "kill")
  /\ UNCHANGED <<kind, file, tmp, child, live, log, then, reported, crashes>>

\* Through the registry, or by the process group in the copy; a process that is
\* still starting has neither.
StopKills(s) ==
  /\ at[s] = "kill"
  /\ child' = IF child = "running" /\ (live \/ mem[s].pid) THEN "signalled" ELSE child
  /\ Hold(s, [mem[s] EXCEPT !.status = "stopping"]) /\ SaveThen(s, "returned")
  /\ UNCHANGED <<kind, file, tmp, live, log, reported, crashes>>

\* The runtime dies: with it the calls under way, the PTY reader and the PTY;
\* the supervisor lives on.
Crash ==
  /\ crashes < MaxCrashes /\ IsKnown
  /\ crashes' = crashes + 1 /\ live' = FALSE
  /\ at' = [a \in Actors |->
              IF a = Host THEN IF kind = "pty" THEN "gone" ELSE at[a]
              ELSE IF at[a] \in {"idle", "registered", "returned", "failed"} THEN at[a] ELSE "gone"]
  /\ child' = IF kind = "pty" /\ child = "running" THEN "signalled" ELSE child
  /\ UNCHANGED <<kind, file, tmp, log, then, mem, reported>>

-----------------------------------------------------------------------------
\* An actor holds a copy it is still going to write.  The supervisor does from
\* its only read to its end.
HoldsCopy(a) == \/ at[a] \in {"save", "rename", "kill", "trigger"}
                \/ a = Host /\ at[a] = "line"
                \/ a = Host /\ kind = "piped" /\ at[a] \in {"spawn", "wait"}
Overlap == \E a, b \in Actors : a # b /\ HoldsCopy(a) /\ HoldsCopy(b)

HostStep == \/ WriteTmp(Host) \/ Rename(Host) \/ Trigger(Host) \/ StartPty \/ SupervisorLoads
            \/ SupervisorSpawns \/ HostSeesExit \/ ReaderReloads \/ HostAppendsExitLine
            \/ ReaderUnregisters
Continue(c) == WriteTmp(c) \/ Rename(c) \/ Trigger(c) \/ (c \in Stoppers /\ StopKills(c))

Step == \/ HostStep
        \/ \E c \in Calls : Continue(c)
        \/ \E w \in Watchers : WatchReads(w)
        \/ \E s \in Stoppers : StopReads(s)
        \/ ChildExits \/ Crash
Next == Step /\ raced' = (raced \/ Overlap')

Spec == Init /\ [][Next]_vars

\* Host and calls go on once begun, and a child that was told to end does; a
\* child that nobody stops may run for ever.
Raced == raced' = (raced \/ Overlap')
Fairness == /\ WF_vars(HostStep /\ Raced)
            /\ \A c \in Calls : WF_vars(Continue(c) /\ Raced)
            /\ WF_vars(child = "signalled" /\ ChildExits /\ Raced)
FairSpec == Spec /\ Fairness
-----------------------------------------------------------------------------
Settled == at[Host] = "returned" /\ \A c \in Calls : ~HoldsCopy(c)

\* A watch is reported at most once, though the host and the call that registers
\* it both report what they find (trigger_exit_event_if_needed).
WatchReportedAtMostOnce == \A w \in Watchers : Len(reported[w]) <= 1

\* An exit event is appended only when the child is gone and its whole output
\* is in the log from which the event takes its tail.
EventSeesAllOutput ==
  \A w \in Watchers : \A i \in DOMAIN reported[w] :
     child = "none" \/ (child = "dead" /\ reported[w][i] # "partial")

\* Once the host is done and nobody is about to write, the status is final, unless
\* two actors held copies at the same time: stop and watch write a copy read before
\* the exit over it, and then the process looks alive for ever.
SettledStatusIsFinal == Settled /\ ~raced => IsFinal(file)

\* A registered watch is reported once the child is dead, unless another watch
\* replaced it, the runtime died, or two copies of the state met.
WatchIsReported ==
  \A w \in Watchers :
     (at[w] = "registered" /\ child = "dead")
        ~> (reported[w] # <<>> \/ file.watch \notin {w, None} \/ crashes > 0 \/ raced)
=============================================================================
