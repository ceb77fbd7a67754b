----------------------- MODULE ProcessManager_proofs -----------------------
(***************************************************************************)
(* Why a watch is reported once and an event sees the whole output, for    *)
(* any calls and any number of crashes.                                    *)
(***************************************************************************)
EXTENDS ProcessManager, TLAPS

\* The watch w is still to be reported by whoever finds it in this state.
Pending(state, w) == state.watch = w /\ ~state.triggered

\* The host has looked for a watch and will not look again.
HostLooked == \/ at[Host] \in {"returned", "failed", "gone"}
              \/ at[Host] \in {"save", "rename"} /\ then[Host] = "returned"

\* A pending watch that others can see was left to the host by its own call.
PendingIsRegistered ==
  /\ \A w \in Watchers : Pending(file, w) => at[w] # "idle" /\ then[w] = "registered"
  /\ \A w \in Watchers : tmp # None /\ Pending(tmp, w) => at[w] # "idle" /\ then[w] = "registered"
  /\ \A a \in Actors, w \in Watchers :
        a # w /\ Pending(mem[a], w) => at[w] # "idle" /\ then[w] = "registered"

\* What the calls of process_watch do themselves.
CallsAreOwn ==
  \A w \in Watchers :
     /\ at[w] = "idle" => then[w] = "returned" /\ reported[w] = <<>>
     /\ at[w] = "trigger" => then[w] = "returned" /\ reported[w] = <<>> /\ Pending(mem[w], w)
     /\ at[w] \in {"save", "rename"} =>
           mem[w].watch = w /\ (mem[w].triggered \/ then[w] = "registered")
     /\ then[w] \in {"returned", "registered"}
     /\ at[w] \in {"idle", "trigger", "save", "rename", "registered", "returned", "failed", "gone"}

\* A call of process_stop never reports.
StopsAreSilent == \A s \in Stoppers : at[s] # "trigger" /\ then[s] = "returned"

\* What its own call left to the host is reported by the host alone.
ReportedByHost ==
  \A w \in Watchers : then[w] = "registered" /\ ~HostLooked => reported[w] = <<>>

OnceInv == PendingIsRegistered /\ CallsAreOwn /\ StopsAreSilent /\ ReportedByHost /\ WatchReportedAtMostOnce

\* A state that tells of an exit is held, and an exit reported, only after the
\* child is gone and its output is in the log.
OutputIsWhole == child = "none" \/ (child = "dead" /\ log # "partial")
ExitIsReal ==
  /\ IsFinal(file) => OutputIsWhole
  /\ tmp # None /\ IsFinal(tmp) => OutputIsWhole
  /\ \A a \in Actors : IsFinal(mem[a]) => OutputIsWhole
  /\ \A a \in Actors : at[a] = "trigger" => OutputIsWhole
  /\ at[Host] \in {"reload", "line"} \/ (at[Host] \in {"save", "rename"} /\ then[Host] = "line") => OutputIsWhole

\* Before the host has tried to start the child there is nothing to tell.
NothingToTell ==
  at[Host] \in {"load", "spawn"} =>
     /\ child = "none" /\ ~IsFinal(file) /\ (tmp # None => ~IsFinal(tmp))
     /\ \A a \in Actors : ~IsFinal(mem[a]) /\ at[a] # "trigger"
     /\ \A w \in Watchers : reported[w] = <<>>

HostPath ==
  at[Host] \in {"save", "rename"} => then[Host] \in {"wait", "line", "returned"}

ExitInv == ExitIsReal /\ NothingToTell /\ HostPath /\ EventSeesAllOutput

-----------------------------------------------------------------------------
\* The edits the actors make to a state leave one.
LEMMA StateEdits ==
  ASSUME NEW state \in ProcessState
  PROVE  /\ [state EXCEPT !.triggered = TRUE] \in ProcessState
         /\ [state EXCEPT !.status = "running", !.pid = TRUE] \in ProcessState
         /\ [state EXCEPT !.status = "failed"] \in ProcessState
         /\ [state EXCEPT !.status = "exited"] \in ProcessState
         /\ [state EXCEPT !.status = "stopping"] \in ProcessState
  BY DEF ProcessState

LEMMA WatchEdit ==
  ASSUME NEW state \in ProcessState, NEW w \in Watchers
  PROVE  [state EXCEPT !.watch = w, !.triggered = FALSE] \in ProcessState
  BY DEF ProcessState

\* What the edits do to the watch and to the status.
LEMMA NewWatch ==
  ASSUME NEW state \in ProcessState, NEW w \in Watchers, NEW v \in Watchers
  PROVE  /\ Pending([state EXCEPT !.watch = w, !.triggered = FALSE], v) <=> v = w
         /\ [state EXCEPT !.watch = w, !.triggered = FALSE].watch = w
  BY DEF ProcessState, Pending

\* An actor that comes to report either finds nothing to report, or reports.
Silent(a) ==
  /\ mem[a].watch = None \/ mem[a].triggered
  /\ at' = [at EXCEPT ![a] = "returned"] /\ UNCHANGED <<reported, mem, then>>
Reports(a) ==
  /\ mem[a].watch # None /\ ~mem[a].triggered
  /\ reported' = [reported EXCEPT ![mem[a].watch] = Append(@, log)]
  /\ mem' = [mem EXCEPT ![a] = [mem[a] EXCEPT !.triggered = TRUE]]
  /\ at' = [at EXCEPT ![a] = "save"] /\ then' = [then EXCEPT ![a] = "returned"]

LEMMA TriggerCases ==
  ASSUME NEW a \in Actors, Trigger(a) PROVE Silent(a) \/ Reports(a)
  BY Zenon DEF Trigger, Silent, Reports, Go, Hold, SaveThen

\* Every step says what its actors may see next: type correctness.
LEMMA TypeStep ==
  ASSUME TypeOK, Step, raced' \in BOOLEAN
  PROVE  TypeOK'
<1> USE ActorsAreDistinct, KindsAndBounds
<1>1. ASSUME NEW a \in Actors, WriteTmp(a) PROVE TypeOK'
  BY <1>1 DEF WriteTmp, TypeOK, Go, Hold, SaveThen, Logs, Places, Actors, Calls
<1>2. ASSUME NEW a \in Actors, Rename(a) PROVE TypeOK'
  BY <1>2 DEF Rename, TypeOK, Go, Hold, SaveThen, Logs, Places, Actors, Calls
<1>3. ASSUME NEW a \in Actors, Trigger(a) PROVE TypeOK'
  <2>1. [mem[a] EXCEPT !.triggered = TRUE] \in ProcessState
    BY StateEdits DEF TypeOK
  <2>2. mem[a].watch \in Watchers \cup {None}
    BY DEF TypeOK, ProcessState
  <2>3. CASE Silent(a)
    BY <1>3, <2>3 DEF Silent, Trigger, TypeOK, Places
  <2>4. CASE Reports(a)
    <3>1. mem[a].watch \in Watchers
      BY <2>2, <2>4 DEF Reports
    <3>2. Append(reported[mem[a].watch], log) \in Seq(Logs)
      BY <3>1 DEF TypeOK
    <3>3. reported' \in [Watchers -> Seq(Logs)]
      BY <2>4, <3>1, <3>2 DEF Reports, TypeOK
    <3> QED
      BY <1>3, <2>1, <2>4, <3>3 DEF Reports, Trigger, TypeOK, Places
  <2> QED
    BY <1>3, TriggerCases, <2>3, <2>4
<1>4. CASE StartPty
  <2>1. [file EXCEPT !.status = "running", !.pid = TRUE] \in ProcessState
    BY StateEdits DEF TypeOK
  <2>2. live' \in BOOLEAN
    BY <1>4 DEF StartPty, TypeOK
  <2> QED
    BY <1>4, <2>1, <2>2 DEF StartPty, TypeOK, Go, Hold, SaveThen, Logs, Places, Actors, Calls
<1>5. CASE SupervisorLoads
  BY <1>5 DEF SupervisorLoads, TypeOK, Go, Hold, SaveThen, Logs, Places, Actors, Calls
<1>6. CASE SupervisorSpawns
  <2>1. [mem[Host] EXCEPT !.status = "running", !.pid = TRUE] \in ProcessState
    BY StateEdits DEF TypeOK, Actors
  <2>2. [mem[Host] EXCEPT !.status = "failed"] \in ProcessState
    BY StateEdits DEF TypeOK, Actors
  <2>3. mem' \in [Actors -> ProcessState]
    BY <1>6, <2>1, <2>2 DEF SupervisorSpawns, Hold, TypeOK
  <2>4. child' \in {"none", "running", "signalled", "dead"}
    BY <1>6 DEF SupervisorSpawns, TypeOK
  <2>5. at' \in [Actors -> Places] /\ then' \in [Actors -> Places]
    BY <1>6 DEF SupervisorSpawns, SaveThen, Go, TypeOK, Places
  <2> QED
    BY <1>6, <2>3, <2>4, <2>5 DEF SupervisorSpawns, TypeOK, Go, Hold, SaveThen, Logs, Places, Actors, Calls
<1>7. CASE ChildExits
  BY <1>7 DEF ChildExits, TypeOK, Go, Hold, SaveThen, Logs, Places, Actors, Calls
<1>8. CASE HostSeesExit
  <2>1. [mem[Host] EXCEPT !.status = "exited"] \in ProcessState
    BY StateEdits DEF TypeOK, Actors
  <2> QED
    BY <1>8, <2>1 DEF HostSeesExit, TypeOK, Go, Hold, SaveThen, Logs, Places, Actors, Calls
<1>9. CASE ReaderReloads
  <2>1. [file EXCEPT !.status = "exited"] \in ProcessState
    BY StateEdits DEF TypeOK
  <2> QED
    BY <1>9, <2>1 DEF ReaderReloads, TypeOK, Go, Hold, SaveThen, Logs, Places, Actors, Calls
<1>10. CASE HostAppendsExitLine
  BY <1>10 DEF HostAppendsExitLine, TypeOK, Go, Hold, SaveThen, Logs, Places, Actors, Calls
<1>11. CASE ReaderUnregisters
  <2>1. live' \in BOOLEAN
    BY <1>11 DEF ReaderUnregisters
  <2> QED
    BY <1>11, <2>1 DEF ReaderUnregisters, TypeOK, Go, Hold, SaveThen, Logs, Places, Actors, Calls
<1>12. ASSUME NEW w \in Watchers, WatchReads(w) PROVE TypeOK'
  <2>1. [file EXCEPT !.watch = w, !.triggered = FALSE] \in ProcessState
    BY WatchEdit DEF TypeOK
  <2> QED
    BY <1>12, <2>1 DEF WatchReads, TypeOK, Go, Hold, SaveThen, Logs, Places, Actors, Calls
<1>13. ASSUME NEW s \in Stoppers, StopReads(s) PROVE TypeOK'
  BY <1>13 DEF StopReads, TypeOK, Go, Hold, SaveThen, Logs, Places, Actors, Calls
<1>14. ASSUME NEW s \in Stoppers, StopKills(s) PROVE TypeOK'
  <2>1. [mem[s] EXCEPT !.status = "stopping"] \in ProcessState
    BY StateEdits DEF TypeOK, Actors, Calls
  <2> QED
    BY <1>14, <2>1 DEF StopKills, TypeOK, Go, Hold, SaveThen, Logs, Places, Actors, Calls
<1>15. CASE Crash
  <2>1. live' \in BOOLEAN
    BY <1>15 DEF Crash
  <2>2. at' \in [Actors -> Places]
    BY <1>15 DEF Crash, TypeOK, Places
  <2>3. crashes' \in 0 .. MaxCrashes
    BY <1>15 DEF Crash, TypeOK
  <2> QED
    BY <1>15, <2>1, <2>2, <2>3 DEF Crash, TypeOK, Go, Hold, SaveThen, Logs, Places, Actors, Calls
<1> QED
  BY <1>1, <1>2, <1>3, <1>4, <1>5, <1>6, <1>7, <1>8, <1>9, <1>10, <1>11, <1>12, <1>13, <1>14, <1>15
     DEF Step, HostStep, Continue, Actors, Calls

\* A watch that others can see stays registered for as long as it is pending.
LEMMA PendingStep ==
  ASSUME TypeOK, OnceInv, Step
  PROVE  PendingIsRegistered'
<1> USE ActorsAreDistinct, KindsAndBounds
<1>1. ASSUME NEW a \in Actors, WriteTmp(a) PROVE PendingIsRegistered'
  BY <1>1 DEF WriteTmp, TypeOK, OnceInv, PendingIsRegistered, CallsAreOwn, Go, Hold, SaveThen, Pending, HostLooked, ProcessState, Actors, Calls
<1>2. ASSUME NEW a \in Actors, Rename(a) PROVE PendingIsRegistered'
  BY <1>2 DEF Rename, TypeOK, OnceInv, PendingIsRegistered, CallsAreOwn, Go, Hold, SaveThen, Pending, HostLooked, ProcessState, Actors, Calls
<1>3. ASSUME NEW a \in Actors, Trigger(a) PROVE PendingIsRegistered'
  <2> mem[a] \in ProcessState
    BY DEF TypeOK
  <2>1. CASE Silent(a)
    BY <1>3, <2>1 DEF Silent, Trigger, OnceInv, PendingIsRegistered, CallsAreOwn, TypeOK, Go, Hold, SaveThen, Actors, Calls
  <2>2. CASE Reports(a)
    <3>1. \A w \in Watchers : ~Pending(mem'[a], w)
      BY <2>2 DEF Reports, TypeOK, Pending, ProcessState
    <3>2. a \in Watchers => ~ \E w \in Watchers : a = w /\ then[w] = "registered"
      BY <1>3 DEF Trigger, OnceInv, CallsAreOwn
    <3> QED
      BY <1>3, <2>2, <3>1, <3>2 DEF Reports, Trigger, OnceInv, PendingIsRegistered, CallsAreOwn, TypeOK, Go, Hold, SaveThen, Actors, Calls
  <2> QED
    BY <1>3, TriggerCases, <2>1, <2>2
<1>4. CASE StartPty
  <2>1. \A w \in Watchers : Pending(file', w) <=> Pending(file, w)
    BY <1>4 DEF StartPty, TypeOK, Pending, ProcessState
  <2> QED
    BY <1>4, <2>1 DEF StartPty, OnceInv, PendingIsRegistered, CallsAreOwn, TypeOK, Go, Hold, SaveThen, Actors, Calls
<1>5. CASE SupervisorLoads
  BY <1>5 DEF SupervisorLoads, TypeOK, OnceInv, PendingIsRegistered, CallsAreOwn, Go, Hold, SaveThen, Pending, HostLooked, ProcessState, Actors, Calls
<1>6. CASE SupervisorSpawns
  <2>1. \A w \in Watchers : Pending(mem'[Host], w) <=> Pending(mem[Host], w)
    <3>1. mem[Host] \in ProcessState
      BY DEF TypeOK, Actors
    <3>2. CASE mem'[Host] = [mem[Host] EXCEPT !.status = "running", !.pid = TRUE]
      BY <3>1, <3>2 DEF Pending, ProcessState
    <3>3. CASE mem'[Host] = [mem[Host] EXCEPT !.status = "failed"]
      BY <3>1, <3>3 DEF Pending, ProcessState
    <3> QED
      BY <1>6, <3>2, <3>3 DEF SupervisorSpawns, Hold, TypeOK, Actors
  <2> QED
    BY <1>6, <2>1 DEF SupervisorSpawns, OnceInv, PendingIsRegistered, CallsAreOwn, TypeOK, Go, Hold, SaveThen, Actors, Calls
<1>7. CASE ChildExits
  BY <1>7 DEF ChildExits, TypeOK, OnceInv, PendingIsRegistered, CallsAreOwn, Go, Hold, SaveThen, Pending, HostLooked, ProcessState, Actors, Calls
<1>8. CASE HostSeesExit
  <2>1. \A w \in Watchers : Pending(mem'[Host], w) <=> Pending(mem[Host], w)
    BY <1>8 DEF HostSeesExit, Hold, TypeOK, Actors, Pending, ProcessState
  <2> QED
    BY <1>8, <2>1 DEF HostSeesExit, OnceInv, PendingIsRegistered, CallsAreOwn, TypeOK, Go, Hold, SaveThen, Actors, Calls
<1>9. CASE ReaderReloads
  <2>1. \A w \in Watchers : Pending(mem'[Host], w) <=> Pending(file, w)
    BY <1>9 DEF ReaderReloads, Hold, TypeOK, Actors, Pending, ProcessState
  <2> QED
    BY <1>9, <2>1 DEF ReaderReloads, OnceInv, PendingIsRegistered, CallsAreOwn, TypeOK, Go, Hold, SaveThen, Actors, Calls
<1>10. CASE HostAppendsExitLine
  BY <1>10 DEF HostAppendsExitLine, TypeOK, OnceInv, PendingIsRegistered, CallsAreOwn, Go, Hold, SaveThen, Pending, HostLooked, ProcessState, Actors, Calls
<1>11. CASE ReaderUnregisters
  BY <1>11 DEF ReaderUnregisters, TypeOK, OnceInv, PendingIsRegistered, CallsAreOwn, Go, Hold, SaveThen, Pending, HostLooked, ProcessState, Actors, Calls
<1>12. ASSUME NEW w \in Watchers, WatchReads(w) PROVE PendingIsRegistered'
  <2>1. \A v \in Watchers : Pending(mem'[w], v) <=> v = w
    BY <1>12, NewWatch DEF WatchReads, Hold, TypeOK, Actors, Calls
  <2>2. \A v \in Watchers : v = w => ~Pending(file, v) /\ (tmp # None => ~Pending(tmp, v))
                                  /\ \A a \in Actors : a # v => ~Pending(mem[a], v)
    BY <1>12 DEF WatchReads, OnceInv, PendingIsRegistered
  <2> QED
    BY <1>12, <2>1, <2>2 DEF WatchReads, OnceInv, PendingIsRegistered, CallsAreOwn, TypeOK, Go, Hold, SaveThen, Actors, Calls
<1>13. ASSUME NEW s \in Stoppers, StopReads(s) PROVE PendingIsRegistered'
  BY <1>13 DEF StopReads, TypeOK, OnceInv, PendingIsRegistered, CallsAreOwn, Go, Hold, SaveThen, Pending, HostLooked, ProcessState, Actors, Calls
<1>14. ASSUME NEW s \in Stoppers, StopKills(s) PROVE PendingIsRegistered'
  <2>1. \A w \in Watchers : Pending(mem'[s], w) <=> Pending(mem[s], w)
    BY <1>14 DEF StopKills, Hold, TypeOK, Actors, Calls, Pending, ProcessState
  <2> QED
    BY <1>14, <2>1 DEF StopKills, OnceInv, PendingIsRegistered, CallsAreOwn, TypeOK, Go, Hold, SaveThen, Actors, Calls
<1>15. CASE Crash
  BY <1>15 DEF Crash, TypeOK, OnceInv, PendingIsRegistered, CallsAreOwn, Go, Hold, SaveThen, Pending, HostLooked, ProcessState, Actors, Calls
<1> QED
  BY <1>1, <1>2, <1>3, <1>4, <1>5, <1>6, <1>7, <1>8, <1>9, <1>10, <1>11, <1>12, <1>13, <1>14, <1>15
     DEF Step, HostStep, Continue, Actors, Calls

\* The calls keep to their own watch.
LEMMA CallsStep ==
  ASSUME TypeOK, OnceInv, Step
  PROVE  CallsAreOwn'
<1> USE ActorsAreDistinct, KindsAndBounds
<1>1. ASSUME NEW a \in Actors, WriteTmp(a) PROVE CallsAreOwn'
  BY <1>1 DEF WriteTmp, TypeOK, OnceInv, PendingIsRegistered, CallsAreOwn, Go, Hold, SaveThen, Pending, HostLooked, ProcessState, Actors, Calls
<1>2. ASSUME NEW a \in Actors, Rename(a) PROVE CallsAreOwn'
  BY <1>2 DEF Rename, TypeOK, OnceInv, PendingIsRegistered, CallsAreOwn, Go, Hold, SaveThen, Pending, HostLooked, ProcessState, Actors, Calls
<1>3. ASSUME NEW a \in Actors, Trigger(a) PROVE CallsAreOwn'
  <2>1. CASE Silent(a)
    BY <1>3, <2>1 DEF Silent, Trigger, Pending, OnceInv, PendingIsRegistered, CallsAreOwn, TypeOK, Go, Hold, SaveThen, Actors, Calls
  <2>2. CASE Reports(a)
    <3>1. a \in Watchers => mem'[a].watch = a /\ mem'[a].triggered
      BY <1>3, <2>2 DEF Reports, Trigger, Pending, ProcessState, OnceInv, PendingIsRegistered, CallsAreOwn, TypeOK, Go, Hold, SaveThen, Actors, Calls
    <3>2. \A w \in Watchers : at[w] \in {"idle", "trigger"} /\ w # a => mem[a].watch # w
      BY <1>3, <2>2 DEF Reports, Trigger, Pending, OnceInv, PendingIsRegistered, CallsAreOwn, TypeOK, Go, Hold, SaveThen, Actors, Calls
    <3> QED
      BY <1>3, <2>2, <3>1, <3>2 DEF Reports, Trigger, Pending, OnceInv, PendingIsRegistered, CallsAreOwn, TypeOK, Go, Hold, SaveThen, Actors, Calls
  <2> QED
    BY <1>3, TriggerCases, <2>1, <2>2
<1>4. CASE StartPty
  BY <1>4 DEF StartPty, TypeOK, OnceInv, PendingIsRegistered, CallsAreOwn, Go, Hold, SaveThen, Pending, HostLooked, ProcessState, Actors, Calls
<1>5. CASE SupervisorLoads
  BY <1>5 DEF SupervisorLoads, TypeOK, OnceInv, PendingIsRegistered, CallsAreOwn, Go, Hold, SaveThen, Pending, HostLooked, ProcessState, Actors, Calls
<1>6. CASE SupervisorSpawns
  BY <1>6 DEF SupervisorSpawns, TypeOK, OnceInv, PendingIsRegistered, CallsAreOwn, Go, Hold, SaveThen, Pending, HostLooked, ProcessState, Actors, Calls
<1>7. CASE ChildExits
  BY <1>7 DEF ChildExits, TypeOK, OnceInv, PendingIsRegistered, CallsAreOwn, Go, Hold, SaveThen, Pending, HostLooked, ProcessState, Actors, Calls
<1>8. CASE HostSeesExit
  BY <1>8 DEF HostSeesExit, TypeOK, OnceInv, PendingIsRegistered, CallsAreOwn, Go, Hold, SaveThen, Pending, HostLooked, ProcessState, Actors, Calls
<1>9. CASE ReaderReloads
  BY <1>9 DEF ReaderReloads, TypeOK, OnceInv, PendingIsRegistered, CallsAreOwn, Go, Hold, SaveThen, Pending, HostLooked, ProcessState, Actors, Calls
<1>10. CASE HostAppendsExitLine
  BY <1>10 DEF HostAppendsExitLine, TypeOK, OnceInv, PendingIsRegistered, CallsAreOwn, Go, Hold, SaveThen, Pending, HostLooked, ProcessState, Actors, Calls
<1>11. CASE ReaderUnregisters
  BY <1>11 DEF ReaderUnregisters, TypeOK, OnceInv, PendingIsRegistered, CallsAreOwn, Go, Hold, SaveThen, Pending, HostLooked, ProcessState, Actors, Calls
<1>12. ASSUME NEW w \in Watchers, WatchReads(w) PROVE CallsAreOwn'
  BY <1>12 DEF WatchReads, TypeOK, OnceInv, PendingIsRegistered, CallsAreOwn, Go, Hold, SaveThen, Pending, HostLooked, ProcessState, Actors, Calls
<1>13. ASSUME NEW s \in Stoppers, StopReads(s) PROVE CallsAreOwn'
  BY <1>13 DEF StopReads, TypeOK, OnceInv, PendingIsRegistered, CallsAreOwn, Go, Hold, SaveThen, Pending, HostLooked, ProcessState, Actors, Calls
<1>14. ASSUME NEW s \in Stoppers, StopKills(s) PROVE CallsAreOwn'
  BY <1>14 DEF StopKills, TypeOK, OnceInv, PendingIsRegistered, CallsAreOwn, Go, Hold, SaveThen, Pending, HostLooked, ProcessState, Actors, Calls
<1>15. CASE Crash
  BY <1>15 DEF Crash, TypeOK, OnceInv, PendingIsRegistered, CallsAreOwn, Go, Hold, SaveThen, Pending, HostLooked, ProcessState, Actors, Calls
<1> QED
  BY <1>1, <1>2, <1>3, <1>4, <1>5, <1>6, <1>7, <1>8, <1>9, <1>10, <1>11, <1>12, <1>13, <1>14, <1>15
     DEF Step, HostStep, Continue, Actors, Calls

\* The same of the calls of process_stop.
LEMMA StopsStep ==
  ASSUME TypeOK, StopsAreSilent, Step
  PROVE  StopsAreSilent'
<1> USE ActorsAreDistinct
<1>1. ASSUME NEW a \in Actors, WriteTmp(a) PROVE StopsAreSilent'
  BY <1>1 DEF WriteTmp, StopsAreSilent, TypeOK, Go, SaveThen, Actors, Calls
<1>2. ASSUME NEW a \in Actors, Rename(a) PROVE StopsAreSilent'
  BY <1>2 DEF Rename, StopsAreSilent, TypeOK, Go, SaveThen, Actors, Calls
<1>3. ASSUME NEW a \in Actors, Trigger(a) PROVE StopsAreSilent'
  BY <1>3 DEF Trigger, StopsAreSilent, TypeOK, Go, SaveThen, Actors, Calls
<1>4. CASE StartPty
  BY <1>4 DEF StartPty, StopsAreSilent, TypeOK, Go, SaveThen, Actors, Calls
<1>5. CASE SupervisorLoads
  BY <1>5 DEF SupervisorLoads, StopsAreSilent, TypeOK, Go, SaveThen, Actors, Calls
<1>6. CASE SupervisorSpawns
  BY <1>6 DEF SupervisorSpawns, StopsAreSilent, TypeOK, Go, SaveThen, Actors, Calls
<1>7. CASE ChildExits
  BY <1>7 DEF ChildExits, StopsAreSilent, TypeOK, Go, SaveThen, Actors, Calls
<1>8. CASE HostSeesExit
  BY <1>8 DEF HostSeesExit, StopsAreSilent, TypeOK, Go, SaveThen, Actors, Calls
<1>9. CASE ReaderReloads
  BY <1>9 DEF ReaderReloads, StopsAreSilent, TypeOK, Go, SaveThen, Actors, Calls
<1>10. CASE HostAppendsExitLine
  BY <1>10 DEF HostAppendsExitLine, StopsAreSilent, TypeOK, Go, SaveThen, Actors, Calls
<1>11. CASE ReaderUnregisters
  BY <1>11 DEF ReaderUnregisters, StopsAreSilent, TypeOK, Go, SaveThen, Actors, Calls
<1>12. ASSUME NEW w \in Watchers, WatchReads(w) PROVE StopsAreSilent'
  BY <1>12 DEF WatchReads, StopsAreSilent, TypeOK, Go, SaveThen, Actors, Calls
<1>13. ASSUME NEW s \in Stoppers, StopReads(s) PROVE StopsAreSilent'
  BY <1>13 DEF StopReads, StopsAreSilent, TypeOK, Go, SaveThen, Actors, Calls
<1>14. ASSUME NEW s \in Stoppers, StopKills(s) PROVE StopsAreSilent'
  BY <1>14 DEF StopKills, StopsAreSilent, TypeOK, Go, SaveThen, Actors, Calls
<1>15. CASE Crash
  BY <1>15 DEF Crash, StopsAreSilent, TypeOK, Go, SaveThen, Actors, Calls
<1> QED
  BY <1>1, <1>2, <1>3, <1>4, <1>5, <1>6, <1>7, <1>8, <1>9, <1>10, <1>11, <1>12, <1>13, <1>14, <1>15
     DEF Step, HostStep, Continue, Actors, Calls

LEMMA OnlyWatchersReport ==
  ASSUME StopsAreSilent, NEW a \in Actors, at[a] = "trigger" PROVE a = Host \/ a \in Watchers
  BY DEF StopsAreSilent, Actors, Calls

\* Only a host that has looked reports a registered watch.
LEMMA HostStepReports ==
  ASSUME TypeOK, OnceInv, Step
  PROVE  ReportedByHost'
<1> USE ActorsAreDistinct, KindsAndBounds
<1>1. ASSUME NEW a \in Actors, WriteTmp(a) PROVE ReportedByHost'
  BY <1>1 DEF WriteTmp, TypeOK, OnceInv, PendingIsRegistered, CallsAreOwn, ReportedByHost, Go, Hold, SaveThen, Pending, HostLooked, ProcessState, Actors, Calls
<1>2. ASSUME NEW a \in Actors, Rename(a) PROVE ReportedByHost'
  BY <1>2 DEF Rename, TypeOK, OnceInv, PendingIsRegistered, CallsAreOwn, ReportedByHost, Go, Hold, SaveThen, Pending, HostLooked, ProcessState, Actors, Calls
<1>3. ASSUME NEW a \in Actors, Trigger(a) PROVE ReportedByHost'
  <2>1. CASE Silent(a)
    BY <1>3, <2>1 DEF Silent, Trigger, ReportedByHost, HostLooked, OnceInv, PendingIsRegistered, CallsAreOwn, TypeOK, Go, Hold, SaveThen, Actors, Calls
  <2>2. CASE Reports(a)
    <3>1. CASE a = Host
      BY <1>3, <2>2, <3>1 DEF Reports, Trigger, ReportedByHost, HostLooked, OnceInv, PendingIsRegistered, CallsAreOwn, TypeOK, Go, Hold, SaveThen, Actors, Calls
    <3>2. CASE a \in Calls
      <4>1. a \in Watchers => mem[a].watch = a /\ then[a] = "returned"
        BY <1>3, <2>2 DEF Trigger, Pending, OnceInv, PendingIsRegistered, CallsAreOwn, TypeOK, Go, Hold, SaveThen, Actors, Calls
      <4>2. a \in Watchers
        BY <1>3, <2>2, <3>2, OnlyWatchersReport, ActorsAreDistinct DEF Trigger, OnceInv
      <4> QED
        BY <1>3, <2>2, <3>2, <4>1, <4>2 DEF Reports, Trigger, ReportedByHost, HostLooked, OnceInv, PendingIsRegistered, CallsAreOwn, TypeOK, Go, Hold, SaveThen, Actors, Calls
    <3> QED
      BY <3>1, <3>2 DEF Actors
  <2> QED
    BY <1>3, TriggerCases, <2>1, <2>2
<1>4. CASE StartPty
  BY <1>4 DEF StartPty, TypeOK, OnceInv, PendingIsRegistered, CallsAreOwn, ReportedByHost, Go, Hold, SaveThen, Pending, HostLooked, ProcessState, Actors, Calls
<1>5. CASE SupervisorLoads
  BY <1>5 DEF SupervisorLoads, TypeOK, OnceInv, PendingIsRegistered, CallsAreOwn, ReportedByHost, Go, Hold, SaveThen, Pending, HostLooked, ProcessState, Actors, Calls
<1>6. CASE SupervisorSpawns
  BY <1>6 DEF SupervisorSpawns, TypeOK, OnceInv, PendingIsRegistered, CallsAreOwn, ReportedByHost, Go, Hold, SaveThen, Pending, HostLooked, ProcessState, Actors, Calls
<1>7. CASE ChildExits
  BY <1>7 DEF ChildExits, TypeOK, OnceInv, PendingIsRegistered, CallsAreOwn, ReportedByHost, Go, Hold, SaveThen, Pending, HostLooked, ProcessState, Actors, Calls
<1>8. CASE HostSeesExit
  BY <1>8 DEF HostSeesExit, TypeOK, OnceInv, PendingIsRegistered, CallsAreOwn, ReportedByHost, Go, Hold, SaveThen, Pending, HostLooked, ProcessState, Actors, Calls
<1>9. CASE ReaderReloads
  BY <1>9 DEF ReaderReloads, TypeOK, OnceInv, PendingIsRegistered, CallsAreOwn, ReportedByHost, Go, Hold, SaveThen, Pending, HostLooked, ProcessState, Actors, Calls
<1>10. CASE HostAppendsExitLine
  BY <1>10 DEF HostAppendsExitLine, TypeOK, OnceInv, PendingIsRegistered, CallsAreOwn, ReportedByHost, Go, Hold, SaveThen, Pending, HostLooked, ProcessState, Actors, Calls
<1>11. CASE ReaderUnregisters
  BY <1>11 DEF ReaderUnregisters, TypeOK, OnceInv, PendingIsRegistered, CallsAreOwn, ReportedByHost, Go, Hold, SaveThen, Pending, HostLooked, ProcessState, Actors, Calls
<1>12. ASSUME NEW w \in Watchers, WatchReads(w) PROVE ReportedByHost'
  BY <1>12 DEF WatchReads, TypeOK, OnceInv, PendingIsRegistered, CallsAreOwn, ReportedByHost, Go, Hold, SaveThen, Pending, HostLooked, ProcessState, Actors, Calls
<1>13. ASSUME NEW s \in Stoppers, StopReads(s) PROVE ReportedByHost'
  BY <1>13 DEF StopReads, TypeOK, OnceInv, PendingIsRegistered, CallsAreOwn, ReportedByHost, Go, Hold, SaveThen, Pending, HostLooked, ProcessState, Actors, Calls
<1>14. ASSUME NEW s \in Stoppers, StopKills(s) PROVE ReportedByHost'
  BY <1>14 DEF StopKills, TypeOK, OnceInv, PendingIsRegistered, CallsAreOwn, ReportedByHost, Go, Hold, SaveThen, Pending, HostLooked, ProcessState, Actors, Calls
<1>15. CASE Crash
  BY <1>15 DEF Crash, TypeOK, OnceInv, PendingIsRegistered, CallsAreOwn, ReportedByHost, Go, Hold, SaveThen, Pending, HostLooked, ProcessState, Actors, Calls
<1> QED
  BY <1>1, <1>2, <1>3, <1>4, <1>5, <1>6, <1>7, <1>8, <1>9, <1>10, <1>11, <1>12, <1>13, <1>14, <1>15
     DEF Step, HostStep, Continue, Actors, Calls

\* Whoever reports a watch finds it unreported.
LEMMA OnceStep ==
  ASSUME TypeOK, OnceInv, Step
  PROVE  WatchReportedAtMostOnce'
<1> USE ActorsAreDistinct, KindsAndBounds
<1>1. ASSUME NEW a \in Actors, WriteTmp(a) PROVE WatchReportedAtMostOnce'
  BY <1>1 DEF WriteTmp, TypeOK, OnceInv, PendingIsRegistered, CallsAreOwn, ReportedByHost, WatchReportedAtMostOnce, Go, Hold, SaveThen, Pending, HostLooked, ProcessState, Actors, Calls
<1>2. ASSUME NEW a \in Actors, Rename(a) PROVE WatchReportedAtMostOnce'
  BY <1>2 DEF Rename, TypeOK, OnceInv, PendingIsRegistered, CallsAreOwn, ReportedByHost, WatchReportedAtMostOnce, Go, Hold, SaveThen, Pending, HostLooked, ProcessState, Actors, Calls
<1>3. ASSUME NEW a \in Actors, Trigger(a) PROVE WatchReportedAtMostOnce'
  <2>1. CASE Silent(a)
    BY <1>3, <2>1 DEF Silent, OnceInv, WatchReportedAtMostOnce
  <2>2. CASE Reports(a)
    <3>1. mem[a].watch \in Watchers
      BY <2>2 DEF Reports, TypeOK, ProcessState
    <3>2. reported[mem[a].watch] = <<>>
      <4>1. CASE a = Host
        BY <1>3, <2>2, <3>1, <4>1 DEF Reports, Trigger, Pending, ReportedByHost, HostLooked, OnceInv, PendingIsRegistered, CallsAreOwn, Actors, Calls
      <4>2. CASE a \in Watchers
        BY <1>3, <2>2, <4>2 DEF Trigger, Pending, OnceInv, CallsAreOwn
      <4> QED
        BY <1>3, <4>1, <4>2, OnlyWatchersReport DEF Trigger, OnceInv
    <3>3. Len(Append(<<>>, log)) <= 1
      OBVIOUS
    <3> QED
      BY <2>2, <3>1, <3>2, <3>3 DEF Reports, OnceInv, WatchReportedAtMostOnce, TypeOK
  <2> QED
    BY <1>3, TriggerCases, <2>1, <2>2
<1>4. CASE StartPty
  BY <1>4 DEF StartPty, TypeOK, OnceInv, PendingIsRegistered, CallsAreOwn, ReportedByHost, WatchReportedAtMostOnce, Go, Hold, SaveThen, Pending, HostLooked, ProcessState, Actors, Calls
<1>5. CASE SupervisorLoads
  BY <1>5 DEF SupervisorLoads, TypeOK, OnceInv, PendingIsRegistered, CallsAreOwn, ReportedByHost, WatchReportedAtMostOnce, Go, Hold, SaveThen, Pending, HostLooked, ProcessState, Actors, Calls
<1>6. CASE SupervisorSpawns
  BY <1>6 DEF SupervisorSpawns, TypeOK, OnceInv, PendingIsRegistered, CallsAreOwn, ReportedByHost, WatchReportedAtMostOnce, Go, Hold, SaveThen, Pending, HostLooked, ProcessState, Actors, Calls
<1>7. CASE ChildExits
  BY <1>7 DEF ChildExits, TypeOK, OnceInv, PendingIsRegistered, CallsAreOwn, ReportedByHost, WatchReportedAtMostOnce, Go, Hold, SaveThen, Pending, HostLooked, ProcessState, Actors, Calls
<1>8. CASE HostSeesExit
  BY <1>8 DEF HostSeesExit, TypeOK, OnceInv, PendingIsRegistered, CallsAreOwn, ReportedByHost, WatchReportedAtMostOnce, Go, Hold, SaveThen, Pending, HostLooked, ProcessState, Actors, Calls
<1>9. CASE ReaderReloads
  BY <1>9 DEF ReaderReloads, TypeOK, OnceInv, PendingIsRegistered, CallsAreOwn, ReportedByHost, WatchReportedAtMostOnce, Go, Hold, SaveThen, Pending, HostLooked, ProcessState, Actors, Calls
<1>10. CASE HostAppendsExitLine
  BY <1>10 DEF HostAppendsExitLine, TypeOK, OnceInv, PendingIsRegistered, CallsAreOwn, ReportedByHost, WatchReportedAtMostOnce, Go, Hold, SaveThen, Pending, HostLooked, ProcessState, Actors, Calls
<1>11. CASE ReaderUnregisters
  BY <1>11 DEF ReaderUnregisters, TypeOK, OnceInv, PendingIsRegistered, CallsAreOwn, ReportedByHost, WatchReportedAtMostOnce, Go, Hold, SaveThen, Pending, HostLooked, ProcessState, Actors, Calls
<1>12. ASSUME NEW w \in Watchers, WatchReads(w) PROVE WatchReportedAtMostOnce'
  BY <1>12 DEF WatchReads, TypeOK, OnceInv, PendingIsRegistered, CallsAreOwn, ReportedByHost, WatchReportedAtMostOnce, Go, Hold, SaveThen, Pending, HostLooked, ProcessState, Actors, Calls
<1>13. ASSUME NEW s \in Stoppers, StopReads(s) PROVE WatchReportedAtMostOnce'
  BY <1>13 DEF StopReads, TypeOK, OnceInv, PendingIsRegistered, CallsAreOwn, ReportedByHost, WatchReportedAtMostOnce, Go, Hold, SaveThen, Pending, HostLooked, ProcessState, Actors, Calls
<1>14. ASSUME NEW s \in Stoppers, StopKills(s) PROVE WatchReportedAtMostOnce'
  BY <1>14 DEF StopKills, TypeOK, OnceInv, PendingIsRegistered, CallsAreOwn, ReportedByHost, WatchReportedAtMostOnce, Go, Hold, SaveThen, Pending, HostLooked, ProcessState, Actors, Calls
<1>15. CASE Crash
  BY <1>15 DEF Crash, TypeOK, OnceInv, PendingIsRegistered, CallsAreOwn, ReportedByHost, WatchReportedAtMostOnce, Go, Hold, SaveThen, Pending, HostLooked, ProcessState, Actors, Calls
<1> QED
  BY <1>1, <1>2, <1>3, <1>4, <1>5, <1>6, <1>7, <1>8, <1>9, <1>10, <1>11, <1>12, <1>13, <1>14, <1>15
     DEF Step, HostStep, Continue, Actors, Calls

\* A child that is gone with its output stays so, once the host has tried to start it.
LEMMA WholeStays ==
  ASSUME TypeOK, Step, OutputIsWhole, at[Host] \notin {"load", "spawn"}
  PROVE  OutputIsWhole'
<1> USE DEF OutputIsWhole, TypeOK
<1>1. ASSUME NEW a \in Actors, WriteTmp(a) PROVE OutputIsWhole'
  BY <1>1 DEF WriteTmp, Logs
<1>2. ASSUME NEW a \in Actors, Rename(a) PROVE OutputIsWhole'
  BY <1>2 DEF Rename, Logs
<1>3. ASSUME NEW a \in Actors, Trigger(a) PROVE OutputIsWhole'
  BY <1>3 DEF Trigger, Logs
<1>4. ASSUME StartPty PROVE OutputIsWhole'
  BY <1>4 DEF StartPty, Logs
<1>5. ASSUME SupervisorLoads PROVE OutputIsWhole'
  BY <1>5 DEF SupervisorLoads, Logs
<1>6. ASSUME SupervisorSpawns PROVE OutputIsWhole'
  BY <1>6 DEF SupervisorSpawns, Logs
<1>7. ASSUME ChildExits PROVE OutputIsWhole'
  BY <1>7 DEF ChildExits, Logs
<1>8. ASSUME HostSeesExit PROVE OutputIsWhole'
  BY <1>8 DEF HostSeesExit, Logs
<1>9. ASSUME ReaderReloads PROVE OutputIsWhole'
  BY <1>9 DEF ReaderReloads, Logs
<1>10. ASSUME HostAppendsExitLine PROVE OutputIsWhole'
  BY <1>10 DEF HostAppendsExitLine, Logs
<1>11. ASSUME ReaderUnregisters PROVE OutputIsWhole'
  BY <1>11 DEF ReaderUnregisters, Logs
<1>12. ASSUME NEW w \in Watchers, WatchReads(w) PROVE OutputIsWhole'
  BY <1>12 DEF WatchReads, Logs
<1>13. ASSUME NEW s \in Stoppers, StopReads(s) PROVE OutputIsWhole'
  BY <1>13 DEF StopReads, Logs
<1>14. ASSUME NEW s \in Stoppers, StopKills(s) PROVE OutputIsWhole'
  BY <1>14 DEF StopKills, Logs
<1>15. ASSUME Crash PROVE OutputIsWhole'
  BY <1>15 DEF Crash, Logs
<1> QED
  BY <1>1, <1>2, <1>3, <1>4, <1>5, <1>6, <1>7, <1>8, <1>9, <1>10, <1>11, <1>12, <1>13, <1>14, <1>15
     DEF Step, HostStep, Continue, Actors, Calls

\* What a step does to the states that are held.
LEMMA ExitStep ==
  ASSUME TypeOK, CallsAreOwn, StopsAreSilent, ExitIsReal, NothingToTell, HostPath, Step
  PROVE  (ExitIsReal /\ NothingToTell /\ HostPath)'
<1> USE ActorsAreDistinct
<1> DEFINE Early == at[Host] \in {"load", "spawn"}
<1>w. OutputIsWhole /\ ~Early => OutputIsWhole'
  BY WholeStays
<1> HIDE DEF Early
<1>1. ASSUME NEW a \in Actors, WriteTmp(a) PROVE (ExitIsReal /\ NothingToTell /\ HostPath)'
  BY <1>1, <1>w DEF Early, WriteTmp, ExitIsReal, NothingToTell, HostPath, TypeOK, Go, Hold, SaveThen, Actors, Calls, CallsAreOwn, StopsAreSilent
<1>2. ASSUME NEW a \in Actors, Rename(a) PROVE (ExitIsReal /\ NothingToTell /\ HostPath)'
  BY <1>2, <1>w DEF Early, Rename, ExitIsReal, NothingToTell, HostPath, TypeOK, Go, Hold, SaveThen, Actors, Calls, CallsAreOwn, StopsAreSilent
<1>3. ASSUME NEW a \in Actors, Trigger(a) PROVE (ExitIsReal /\ NothingToTell /\ HostPath)'
  <2>1. CASE Silent(a)
    BY <1>3, <1>w, <2>1 DEF Silent, Early, Trigger, ExitIsReal, NothingToTell, HostPath, TypeOK, Go, Hold, SaveThen, Actors, Calls, CallsAreOwn, StopsAreSilent
  <2>2. CASE Reports(a)
    <3>1. mem[a] \in ProcessState /\ mem'[a] = [mem[a] EXCEPT !.triggered = TRUE]
      BY <2>2 DEF Reports, TypeOK
    <3>2. IsFinal(mem'[a]) <=> IsFinal(mem[a])
      BY <3>1 DEF IsFinal, ProcessState
    <3> QED
      BY <1>3, <1>w, <2>2, <3>2 DEF Reports, Early, Trigger, ExitIsReal, NothingToTell, HostPath, TypeOK, Go, Hold, SaveThen, Actors, Calls, CallsAreOwn, StopsAreSilent
  <2> QED
    BY <1>3, TriggerCases, <2>1, <2>2
<1>4. ASSUME StartPty PROVE (ExitIsReal /\ NothingToTell /\ HostPath)'
  <2>1. file' = [file EXCEPT !.status = "running", !.pid = TRUE] => ~IsFinal(file')
    BY DEF IsFinal, TypeOK, ProcessState
  <2> QED
    BY <1>4, <1>w, <2>1 DEF Early, StartPty, ExitIsReal, NothingToTell, HostPath, TypeOK, Go, Hold, SaveThen, Actors, Calls, CallsAreOwn, StopsAreSilent
<1>5. ASSUME SupervisorLoads PROVE (ExitIsReal /\ NothingToTell /\ HostPath)'
  BY <1>5, <1>w DEF Early, SupervisorLoads, ExitIsReal, NothingToTell, HostPath, TypeOK, Go, Hold, SaveThen, Actors, Calls, CallsAreOwn, StopsAreSilent
<1>6. ASSUME SupervisorSpawns PROVE (ExitIsReal /\ NothingToTell /\ HostPath)'
  <2>1. CASE /\ child' = "running" /\ SaveThen(Host, "wait")
            /\ Hold(Host, [mem[Host] EXCEPT !.status = "running", !.pid = TRUE])
    <3>1. ~IsFinal(mem'[Host])
      BY <2>1 DEF Hold, IsFinal, TypeOK, ProcessState, Actors
    <3> QED
      BY <1>6, <2>1, <3>1 DEF Early, SupervisorSpawns, ExitIsReal, NothingToTell, HostPath, TypeOK, Go, Hold, SaveThen, Actors, Calls, CallsAreOwn, StopsAreSilent
  <2>2. CASE child' = child /\ SaveThen(Host, "line") /\ Hold(Host, [mem[Host] EXCEPT !.status = "failed"])
    <3>1. OutputIsWhole'
      BY <1>6, <2>2 DEF SupervisorSpawns, NothingToTell, OutputIsWhole
    <3> QED
      BY <1>6, <2>2, <3>1 DEF Early, SupervisorSpawns, ExitIsReal, NothingToTell, HostPath, TypeOK, Go, Hold, SaveThen, Actors, Calls, CallsAreOwn, StopsAreSilent
  <2> QED
    BY <1>6, <2>1, <2>2 DEF SupervisorSpawns
<1>7. ASSUME ChildExits PROVE (ExitIsReal /\ NothingToTell /\ HostPath)'
  BY <1>7, <1>w DEF Early, ChildExits, ExitIsReal, NothingToTell, HostPath, TypeOK, Go, Hold, SaveThen, Actors, Calls, CallsAreOwn, StopsAreSilent
<1>8. ASSUME HostSeesExit PROVE (ExitIsReal /\ NothingToTell /\ HostPath)'
  <2>1. OutputIsWhole'
    BY <1>8 DEF HostSeesExit, OutputIsWhole
  <2> QED
    BY <1>8, <2>1 DEF Early, HostSeesExit, ExitIsReal, NothingToTell, HostPath, TypeOK, Go, Hold, SaveThen, Actors, Calls, CallsAreOwn, StopsAreSilent
<1>9. ASSUME ReaderReloads PROVE (ExitIsReal /\ NothingToTell /\ HostPath)'
  BY <1>9, <1>w DEF Early, IsFinal, ProcessState, ReaderReloads, ExitIsReal, NothingToTell, HostPath, TypeOK, Go, Hold, SaveThen, Actors, Calls, CallsAreOwn, StopsAreSilent
<1>10. ASSUME HostAppendsExitLine PROVE (ExitIsReal /\ NothingToTell /\ HostPath)'
  BY <1>10, <1>w DEF Early, HostAppendsExitLine, ExitIsReal, NothingToTell, HostPath, TypeOK, Go, Hold, SaveThen, Actors, Calls, CallsAreOwn, StopsAreSilent
<1>11. ASSUME ReaderUnregisters PROVE (ExitIsReal /\ NothingToTell /\ HostPath)'
  BY <1>11, <1>w DEF Early, ReaderUnregisters, ExitIsReal, NothingToTell, HostPath, TypeOK, Go, Hold, SaveThen, Actors, Calls, CallsAreOwn, StopsAreSilent
<1>12. ASSUME NEW w \in Watchers, WatchReads(w) PROVE (ExitIsReal /\ NothingToTell /\ HostPath)'
  <2>1. IsFinal(mem'[w]) <=> IsFinal(file)
    BY <1>12 DEF WatchReads, Hold, IsFinal, TypeOK, ProcessState, Actors, Calls
  <2> QED
    BY <1>12, <1>w, <2>1 DEF Early, WatchReads, ExitIsReal, NothingToTell, HostPath, TypeOK, Go, Hold, SaveThen, Actors, Calls, CallsAreOwn, StopsAreSilent
<1>13. ASSUME NEW s \in Stoppers, StopReads(s) PROVE (ExitIsReal /\ NothingToTell /\ HostPath)'
  BY <1>13, <1>w DEF Early, StopReads, ExitIsReal, NothingToTell, HostPath, TypeOK, Go, Hold, SaveThen, Actors, Calls, CallsAreOwn, StopsAreSilent
<1>14. ASSUME NEW s \in Stoppers, StopKills(s) PROVE (ExitIsReal /\ NothingToTell /\ HostPath)'
  <2>1. ~IsFinal(mem'[s])
    BY <1>14 DEF StopKills, Hold, IsFinal, TypeOK, ProcessState, Actors, Calls
  <2> QED
    BY <1>14, <1>w, <2>1 DEF Early, StopKills, ExitIsReal, NothingToTell, HostPath, TypeOK, Go, Hold, SaveThen, Actors, Calls, CallsAreOwn, StopsAreSilent
<1>15. ASSUME Crash PROVE (ExitIsReal /\ NothingToTell /\ HostPath)'
  BY <1>15, <1>w DEF Early, Crash, ExitIsReal, NothingToTell, HostPath, TypeOK, Go, Hold, SaveThen, Actors, Calls, CallsAreOwn, StopsAreSilent
<1> QED
  BY <1>1, <1>2, <1>3, <1>4, <1>5, <1>6, <1>7, <1>8, <1>9, <1>10, <1>11, <1>12, <1>13, <1>14, <1>15
     DEF Step, HostStep, Continue, Actors, Calls

\* What an event has seen stays true, and a new event sees the whole output.
LEMMA EventStep ==
  ASSUME TypeOK, ExitInv, Step
  PROVE  EventSeesAllOutput'
<1> USE ActorsAreDistinct
<1>1. CASE reported' = reported
  <2>1. ASSUME NEW w \in Watchers, NEW i \in DOMAIN reported[w]
        PROVE  child' = "none" \/ (child' = "dead" /\ reported[w][i] # "partial")
    <3>1. reported[w] # <<>>
      BY <2>1 DEF TypeOK
    <3>2. at[Host] \notin {"load", "spawn"}
      BY <3>1 DEF ExitInv, NothingToTell
    <3>3. child = "none" \/ (child = "dead" /\ reported[w][i] # "partial")
      BY DEF ExitInv, EventSeesAllOutput
    <3>4. child \in {"none", "dead"} => child' = child
      BY <3>2 DEF Step, HostStep, Continue, WriteTmp, Rename, Trigger, StartPty, SupervisorLoads,
                  SupervisorSpawns, ChildExits, HostSeesExit, ReaderReloads, HostAppendsExitLine,
                  ReaderUnregisters, WatchReads, StopReads, StopKills, Crash
    <3> QED
      BY <3>3, <3>4
  <2> QED
    BY <1>1, <2>1 DEF EventSeesAllOutput
<1>2. ASSUME NEW a \in Actors, Trigger(a) PROVE EventSeesAllOutput'
  <2>1. CASE Silent(a)
    BY <1>2, <2>1 DEF Silent, Trigger, ExitInv, EventSeesAllOutput
  <2>2. CASE Reports(a)
    <3>1. OutputIsWhole
      BY <1>2 DEF Trigger, ExitInv, ExitIsReal
    <3>2. mem[a].watch \in Watchers
      BY <2>2 DEF Reports, TypeOK, ProcessState
    <3>3. ASSUME NEW w \in Watchers, NEW i \in DOMAIN reported'[w]
          PROVE  child = "none" \/ (child = "dead" /\ reported'[w][i] # "partial")
      <4>1. CASE w # mem[a].watch
        BY <2>2, <3>2, <3>3, <4>1 DEF Reports, TypeOK, ExitInv, EventSeesAllOutput
      <4>2. CASE w = mem[a].watch
        <5>1. reported[w] \in Seq(Logs) /\ log \in Logs /\ reported'[w] = Append(reported[w], log)
          BY <2>2, <3>2, <4>2 DEF Reports, TypeOK
        <5>2. CASE i \in DOMAIN reported[w]
          BY <5>1, <5>2 DEF ExitInv, EventSeesAllOutput
        <5>3. CASE i \notin DOMAIN reported[w]
          BY <3>1, <3>3, <5>1, <5>3 DEF OutputIsWhole
        <5> QED
          BY <5>2, <5>3
      <4> QED
        BY <4>1, <4>2
    <3> QED
      BY <1>2, <3>3 DEF Trigger, EventSeesAllOutput
  <2> QED
    BY <1>2, TriggerCases, <2>1, <2>2
<1> QED
  <2>1. reported' = reported \/ \E a \in Actors : Trigger(a)
    BY DEF Step, HostStep, Continue, WriteTmp, Rename, StartPty, SupervisorLoads, SupervisorSpawns,
           ChildExits, HostSeesExit, ReaderReloads, HostAppendsExitLine, ReaderUnregisters,
           WatchReads, StopReads, StopKills, Crash, Actors, Calls
  <2> QED
    BY <1>1, <1>2, <2>1

-----------------------------------------------------------------------------
IInv == TypeOK /\ OnceInv /\ ExitInv

LEMMA IInvInit == Init => IInv
<1> SUFFICES ASSUME Init PROVE IInv
  OBVIOUS
<1> USE ActorsAreDistinct, KindsAndBounds
<1>1. TypeOK
  <2>1. Started \in ProcessState
    BY DEF Started, ProcessState
  <2>2. <<>> \in Seq(Logs)
    OBVIOUS
  <2>3. raced \in BOOLEAN /\ live \in BOOLEAN
    BY DEF Init
  <2> QED
    BY <2>1, <2>2, <2>3 DEF Init, TypeOK, Logs, Places
<1>2. OnceInv
  BY DEF Init, OnceInv, PendingIsRegistered, CallsAreOwn, StopsAreSilent, ReportedByHost,
         WatchReportedAtMostOnce, Started, Pending, HostLooked, Actors, Calls
<1>3. ExitInv
  BY DEF Init, ExitInv, ExitIsReal, NothingToTell, HostPath, EventSeesAllOutput, Started, IsFinal,
         Actors, Calls
<1> QED
  BY <1>1, <1>2, <1>3 DEF IInv

LEMMA IInvNext == IInv /\ [Next]_vars => IInv'
<1> SUFFICES ASSUME IInv, [Next]_vars PROVE IInv'
  OBVIOUS
<1>1. CASE Next
  <2>1. Step
    BY <1>1 DEF Next
  <2>2. raced' \in BOOLEAN
    BY Zenon, <1>1 DEF Next
  <2>3. TypeOK'
    BY <2>1, <2>2, TypeStep DEF IInv
  <2>4. OnceInv'
    BY <2>1, PendingStep, CallsStep, StopsStep, HostStepReports, OnceStep DEF IInv, OnceInv
  <2>5. ExitInv'
    BY <2>1, ExitStep, EventStep DEF IInv, OnceInv, ExitInv
  <2> QED
    BY <2>3, <2>4, <2>5 DEF IInv
<1>2. CASE UNCHANGED vars
  BY <1>2 DEF vars, IInv, TypeOK, OnceInv, PendingIsRegistered, CallsAreOwn, StopsAreSilent,
         ReportedByHost, WatchReportedAtMostOnce, HostLooked, ExitInv, ExitIsReal, OutputIsWhole,
         NothingToTell, HostPath, EventSeesAllOutput
<1> QED
  BY <1>1, <1>2

LEMMA IInvAlways == Spec => []IInv
  BY IInvInit, IInvNext, PTL DEF Spec

\* Every variable keeps its type: the state file, the copies, the actors' progress.
THEOREM TypesHold == Spec => []TypeOK
<1>1. IInv => TypeOK
  BY DEF IInv
<1> QED
  BY <1>1, IInvAlways, PTL

\* No watch is reported twice by trigger_exit_event_if_needed.
THEOREM ReportedOnce == Spec => []WatchReportedAtMostOnce
<1>1. IInv => WatchReportedAtMostOnce
  BY DEF IInv, OnceInv
<1> QED
  BY <1>1, IInvAlways, PTL

\* No exit event is appended before the output is complete in the log.
THEOREM EventsAreComplete == Spec => []EventSeesAllOutput
<1>1. IInv => EventSeesAllOutput
  BY DEF IInv, ExitInv
<1> QED
  BY <1>1, IInvAlways, PTL

-----------------------------------------------------------------------------
(* Why the status is final in the end unless two copies of the state met.   *)

Writing(a, places) == at[a] \in {"save", "rename"} /\ then[a] \in places

NoOverlap == \A a, b \in Actors : a # b => ~(HoldsCopy(a) /\ HoldsCopy(b))

\* The temporary file of a writer is its own.
OwnTmp == \A a \in Actors : at[a] = "rename" => tmp = mem[a]

\* From the exit on the host's copy tells it, and so does the file once the host wrote it.
HostTells ==
  at[Host] \in {"line", "trigger"} \/ Writing(Host, {"line", "returned"}) => IsFinal(mem[Host])
HostWrote ==
  at[Host] \in {"line", "trigger", "returned"} \/ Writing(Host, {"returned"}) => IsFinal(file)

\* What calls write after the host is done they have read after it was.
CallsKeep ==
  at[Host] = "returned" =>
     \A c \in Calls : HoldsCopy(c) => at[c] # "kill" /\ IsFinal(mem[c])

Undisturbed == NoOverlap /\ OwnTmp /\ HostTells /\ HostWrote /\ CallsKeep

\* While the host holds a copy, no call does.
LEMMA HostHoldsAlone ==
  ASSUME NoOverlap, HoldsCopy(Host), NEW c \in Calls
  PROVE  ~HoldsCopy(c)
BY ActorsAreDistinct DEF NoOverlap, Actors

\* The edits that leave a final status final.
LEMMA StaysFinal ==
  ASSUME NEW state \in ProcessState, IsFinal(state)
  PROVE  /\ IsFinal([state EXCEPT !.triggered = TRUE])
         /\ \A w \in Watchers : IsFinal([state EXCEPT !.watch = w, !.triggered = FALSE])
BY DEF ProcessState, IsFinal

LEMMA BecomesFinal ==
  ASSUME NEW state \in ProcessState
  PROVE  IsFinal([state EXCEPT !.status = "exited"]) /\ IsFinal([state EXCEPT !.status = "failed"])
BY DEF ProcessState, IsFinal

LEMMA UndisturbedStep ==
  ASSUME TypeOK, HostPath, CallsAreOwn, StopsAreSilent, Undisturbed, Step, NoOverlap'
  PROVE  Undisturbed'
<1>0. /\ Host \in Actors /\ Calls \subseteq Actors /\ Host \notin Calls /\ None \notin ProcessState
      /\ at \in [Actors -> Places] /\ then \in [Actors -> Places] /\ mem \in [Actors -> ProcessState]
      /\ file \in ProcessState /\ OwnTmp /\ HostTells /\ HostWrote /\ CallsKeep /\ NoOverlap
  BY ActorsAreDistinct, NoneIsNoState DEF TypeOK, Undisturbed, Actors
<1>a. \A c \in Calls : HoldsCopy(c) <=> at[c] \in {"save", "rename", "kill", "trigger"}
  BY <1>0 DEF HoldsCopy
<1>b. \A c \in Calls : HoldsCopy(c)' <=> at'[c] \in {"save", "rename", "kill", "trigger"}
  BY <1>0 DEF HoldsCopy
<1>c. \A a, b \in Actors : a # b /\ at[a] \in {"save", "rename", "kill", "trigger"}
         => at[b] \notin {"save", "rename", "kill", "trigger"} /\ (b = Host => at[b] # "line")
  BY <1>0 DEF NoOverlap, HoldsCopy
<1> USE <1>0
<1>1. ASSUME NEW a \in Actors, WriteTmp(a) PROVE Undisturbed'
  <2>1. OwnTmp'
    BY <1>1, <1>c DEF WriteTmp, Go, OwnTmp
  <2>2. HostTells' /\ HostWrote'
    BY <1>1 DEF WriteTmp, Go, HostTells, HostWrote, Writing
  <2>3. CallsKeep'
    BY <1>1, <1>a, <1>b DEF WriteTmp, Go, CallsKeep
  <2> QED BY <2>1, <2>2, <2>3 DEF Undisturbed
<1>2. ASSUME NEW a \in Actors, Rename(a) PROVE Undisturbed'
  <2>1. /\ tmp = mem[a] /\ at[a] = "rename" /\ file' = mem[a] /\ at' = [at EXCEPT ![a] = then[a]]
        /\ UNCHANGED <<kind, then, mem>>
    BY <1>2 DEF Rename, Go, OwnTmp
  <2>5. then[a] \in {"wait", "line", "returned", "registered"}
    BY <2>1 DEF HostPath, CallsAreOwn, StopsAreSilent, Actors, Calls
  <2>2. OwnTmp'
    <3> SUFFICES ASSUME NEW b \in Actors, at'[b] = "rename" PROVE FALSE
      BY DEF OwnTmp
    <3>1. b # a
      BY <2>1, <2>5
    <3> QED BY <1>c, <2>1, <3>1
  <2>3. CASE a = Host
    <3>1. HostTells' /\ HostWrote'
      BY <2>1, <2>3 DEF HostTells, HostWrote, Writing, HostPath
    <3>2. \A c \in Calls : ~HoldsCopy(c)'
      BY <1>a, <1>b, <1>c, <2>1, <2>3
    <3> QED BY <2>2, <3>1, <3>2 DEF Undisturbed, CallsKeep
  <2>4. CASE a \in Calls
    <3>1. at'[Host] = at[Host] /\ at[Host] \notin {"line", "trigger", "save", "rename"}
      BY <1>c, <2>1, <2>4
    <3>2. HostTells' /\ (at[Host] = "returned" => IsFinal(mem[a]))
      BY <1>a, <2>1, <2>4, <3>1 DEF HostTells, Writing, CallsKeep
    <3>3. CallsKeep'
      BY <1>a, <1>b, <1>c, <2>1, <2>4, <2>5, <3>1 DEF CallsKeep
    <3> QED BY <2>1, <2>2, <3>1, <3>2, <3>3 DEF Undisturbed, HostWrote, Writing
  <2> QED BY <2>3, <2>4 DEF Actors
<1>3. ASSUME NEW a \in Actors, Trigger(a) PROVE Undisturbed'
  <2>0. at[a] = "trigger" /\ file' = file /\ tmp' = tmp /\ kind' = kind
    BY <1>3 DEF Trigger
  <2>1. CASE Silent(a)
    <3>1. at' = [at EXCEPT ![a] = "returned"] /\ UNCHANGED <<mem, then>>
      BY <2>1 DEF Silent
    <3>2. OwnTmp' /\ HostTells' /\ HostWrote'
      BY <2>0, <3>1 DEF OwnTmp, HostTells, HostWrote, Writing
    <3>3. CallsKeep'
      BY <1>a, <1>b, <1>c, <2>0, <3>1 DEF CallsKeep
    <3> QED BY <3>2, <3>3 DEF Undisturbed
  <2>2. CASE Reports(a)
    <3>1. /\ at' = [at EXCEPT ![a] = "save"] /\ then' = [then EXCEPT ![a] = "returned"]
          /\ mem' = [mem EXCEPT ![a] = [mem[a] EXCEPT !.triggered = TRUE]]
      BY <2>2 DEF Reports
    <3>2. IsFinal(mem[a]) => IsFinal(mem'[a])
      <4>1. mem'[a] = [mem[a] EXCEPT !.triggered = TRUE]
        BY <3>1
      <4> QED BY <4>1, StaysFinal
    <3>3. OwnTmp' /\ HostTells' /\ HostWrote'
      BY <1>c, <2>0, <3>1, <3>2 DEF OwnTmp, HostTells, HostWrote, Writing
    <3>4. CallsKeep'
      BY <1>a, <1>b, <1>c, <2>0, <3>1, <3>2 DEF CallsKeep
    <3> QED BY <3>3, <3>4 DEF Undisturbed
  <2> QED BY <1>3, TriggerCases, <2>1, <2>2
<1>4. CASE StartPty
  BY <1>4 DEF StartPty, Go, Undisturbed, OwnTmp, HostTells, HostWrote, CallsKeep, Writing
<1>5. CASE SupervisorLoads
  BY <1>5 DEF SupervisorLoads, Go, Hold, Undisturbed, OwnTmp, HostTells, HostWrote, CallsKeep, Writing
<1>6. CASE SupervisorSpawns
  <2>1. /\ at' = [at EXCEPT ![Host] = "save"] /\ tmp' = tmp /\ file' = file
        /\ then' = [then EXCEPT ![Host] = then'[Host]]
        /\ \/ then'[Host] = "wait"
           \/ then'[Host] = "line" /\ mem'[Host] = [mem[Host] EXCEPT !.status = "failed"]
        /\ \A a \in Actors : a # Host => mem'[a] = mem[a]
    BY <1>6 DEF SupervisorSpawns, Go, Hold, SaveThen
  <2>2. then'[Host] = "line" => IsFinal(mem'[Host])
    BY <2>1, BecomesFinal
  <2> QED BY <2>1, <2>2 DEF Undisturbed, OwnTmp, HostTells, HostWrote, CallsKeep, Writing
<1>7. CASE HostSeesExit \/ ReaderReloads
  <2>1. ASSUME at' = [at EXCEPT ![Host] = "reload"], UNCHANGED <<file, tmp, mem, then>>
        PROVE  Undisturbed'
    BY <2>1 DEF Undisturbed, OwnTmp, HostTells, HostWrote, CallsKeep, Writing
  <2>2. ASSUME at' = [at EXCEPT ![Host] = "save"], then' = [then EXCEPT ![Host] = "line"],
               UNCHANGED <<file, tmp>>, NEW state \in ProcessState,
               mem' = [mem EXCEPT ![Host] = [state EXCEPT !.status = "exited"]]
        PROVE  Undisturbed'
    <3>1. IsFinal(mem'[Host])
      BY <2>2, BecomesFinal
    <3> QED BY <2>2, <3>1 DEF Undisturbed, OwnTmp, HostTells, HostWrote, CallsKeep, Writing
  <2> QED BY <1>7, <2>1, <2>2 DEF HostSeesExit, ReaderReloads, Go, Hold, SaveThen
<1>8. CASE HostAppendsExitLine
  BY <1>8 DEF HostAppendsExitLine, Go, Undisturbed, OwnTmp, HostTells, HostWrote, CallsKeep, Writing
<1>9. CASE ReaderUnregisters \/ ChildExits
  <2>1. UNCHANGED <<kind, file, tmp, at, then, mem>>
    BY <1>9 DEF ReaderUnregisters, ChildExits
  <2> QED BY <2>1 DEF Undisturbed, OwnTmp, HostTells, HostWrote, CallsKeep, Writing, HoldsCopy
<1>10. ASSUME NEW w \in Watchers, WatchReads(w) PROVE Undisturbed'
  <2>1. /\ mem' = [mem EXCEPT ![w] = [file EXCEPT !.watch = w, !.triggered = FALSE]]
        /\ UNCHANGED <<kind, file, tmp>> /\ w \in Calls
        /\ \A a \in Actors : a # w => at'[a] = at[a] /\ then'[a] = then[a]
        /\ at'[w] \in {"trigger", "save"}
    BY <1>10 DEF WatchReads, Hold, Go, SaveThen, Calls
  <2>2. IsFinal(file) => IsFinal(mem'[w])
    BY <2>1, StaysFinal
  <2>3. OwnTmp' /\ HostTells' /\ HostWrote'
    BY <2>1 DEF OwnTmp, HostTells, HostWrote, Writing
  <2>4. CallsKeep'
    BY <1>a, <1>b, <2>1, <2>2 DEF CallsKeep, HostWrote
  <2> QED BY <2>3, <2>4 DEF Undisturbed
<1>11. ASSUME NEW s \in Stoppers, StopReads(s) \/ StopKills(s) PROVE Undisturbed'
  <2>1. /\ s \in Calls /\ UNCHANGED <<kind, file, tmp>>
        /\ \A a \in Actors : a # s => at'[a] = at[a] /\ then'[a] = then[a] /\ mem'[a] = mem[a]
        /\ \/ at'[s] = "returned"
           \/ at'[s] = "kill" /\ ~IsFinal(file)
           \/ at[s] = "kill" /\ at'[s] = "save"
    BY <1>11 DEF StopReads, StopKills, Hold, Go, SaveThen, Calls
  <2>2. OwnTmp' /\ HostTells' /\ HostWrote'
    BY <2>1 DEF OwnTmp, HostTells, HostWrote, Writing
  <2>3. CallsKeep'
    BY <1>a, <1>b, <2>1 DEF CallsKeep, HostWrote
  <2> QED BY <2>2, <2>3 DEF Undisturbed
<1>12. CASE Crash
  <2>1. /\ UNCHANGED <<kind, file, tmp, then, mem>>
        /\ \A a \in Actors : at'[a] \in {at[a], "gone"}
        /\ at'[Host] \in {at[Host], "gone"}
    BY <1>12 DEF Crash
  <2>2. OwnTmp' /\ HostTells' /\ HostWrote'
    BY <2>1 DEF OwnTmp, HostTells, HostWrote, Writing
  <2>3. CallsKeep'
    BY <1>a, <1>b, <2>1 DEF CallsKeep
  <2> QED BY <2>2, <2>3 DEF Undisturbed
<1> QED
  <2>1. CASE HostStep
    BY <1>1, <1>2, <1>3, <1>4, <1>5, <1>6, <1>7, <1>8, <1>9, <2>1 DEF HostStep
  <2>2. ASSUME NEW c \in Calls, Continue(c) PROVE Undisturbed'
    BY <1>1, <1>2, <1>3, <1>11, <2>2 DEF Continue
  <2> QED BY <2>1, <2>2, <1>9, <1>10, <1>11, <1>12 DEF Step

LEMMA UndisturbedAlways == Spec => [](~raced => Undisturbed)
<1>1. Init => Undisturbed
  <2> SUFFICES ASSUME Init PROVE Undisturbed
    OBVIOUS
  <2>1. \A a \in Actors : ~HoldsCopy(a)
    BY DEF Init, HoldsCopy
  <2> QED BY <2>1, ActorsAreDistinct DEF Init, Undisturbed, NoOverlap, OwnTmp, HostTells, HostWrote,
                                     CallsKeep, Writing, Actors, Calls
<1>2. IInv /\ (~raced => Undisturbed) /\ [Next]_vars => (~raced => Undisturbed)'
  <2>1. ASSUME IInv, ~raced => Undisturbed, Next, ~raced' PROVE Undisturbed'
    <3>1. ~raced /\ ~Overlap'
      BY <2>1, Zenon DEF Next
    <3>2. NoOverlap'
      BY <3>1, Zenon DEF Overlap, NoOverlap
    <3> QED BY <2>1, <3>1, <3>2, UndisturbedStep DEF Next, IInv, ExitInv, OnceInv
  <2>2. ASSUME ~raced => Undisturbed, UNCHANGED vars PROVE (~raced => Undisturbed)'
    BY <2>2 DEF vars, Undisturbed, NoOverlap, OwnTmp, HostTells, HostWrote, CallsKeep, Writing, HoldsCopy
  <2> QED BY <2>1, <2>2, Zenon
<1> QED BY <1>1, <1>2, IInvAlways, PTL DEF Spec

\* When host and calls are done, the file tells that the process is over, unless two
\* of them held copies of the state at the same time.
THEOREM StatusSettles == Spec => []SettledStatusIsFinal
<1>1. (~raced => Undisturbed) => SettledStatusIsFinal
  BY DEF Undisturbed, HostWrote, SettledStatusIsFinal, Settled
<1> QED BY <1>1, UndisturbedAlways, PTL
=============================================================================
