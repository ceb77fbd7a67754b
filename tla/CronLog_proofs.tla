--------------------------- MODULE CronLog_proofs ---------------------------
(***************************************************************************)
(* CronLog keeps its types, the store has one holder at a time however     *)
(* many processes use it and die, and an answered append is not lost.      *)
(***************************************************************************)
EXTENDS CronLog, FiniteSetTheorems, TLAPS

Locks == [owner : Procs, stale : BOOLEAN]

\* The store's files, the places of its users and the counters keep their types.
THEOREM TypesHold == Spec => []TypeOK
<1>1. Init => TypeOK
  <2> SUFFICES ASSUME Init PROVE TypeOK
    OBVIOUS
  <2> USE LogAssumption DEF Init
  <2>1. at \in [Procs -> Places]
    BY DEF Places
  <2>2. event \in [Procs -> 0..MaxEvents] /\ written \in 0..MaxEvents
    OBVIOUS
  <2>3. crashes \in 0..MaxCrashes /\ failures \in 0..MaxFailures
    OBVIOUS
  <2>4. lock \in Locks \cup {NoLock} /\ tears \in Nat /\ disturbed \in BOOLEAN
    OBVIOUS
  <2> QED
    BY ONLY <2>1, <2>2, <2>3, <2>4, Init DEF TypeOK, Init, Locks
<1>2. ASSUME TypeOK, [Next]_vars PROVE TypeOK'
  <2>0. at \in [Procs -> Places] /\ event \in [Procs -> 0..MaxEvents]
    BY <1>2 DEF TypeOK
  <2>1. at' \in [Procs -> Places]
    BY <1>2, <2>0 DEF Next, Live, vars, Begin, TryLock, CheckAge, RemoveStale, WaitLock,
       WriteText, WriteNewline, Refuse, WriteFails, DropLock, Age, Crash, Restart, Go, Places
  <2>2. written' \in 0..MaxEvents /\ event' \in [Procs -> 0..MaxEvents]
    <3>0. written \in 0..MaxEvents /\ 0 \in 0..MaxEvents
      BY <1>2, LogAssumption DEF TypeOK
    <3>1. ASSUME NEW p \in Procs, WriteText(p) PROVE written' \in 0..MaxEvents
      BY <3>0, <3>1, LogAssumption DEF WriteText
    <3>2. written' \in 0..MaxEvents
      BY <1>2, <3>0, <3>1 DEF Next, Live, vars, Begin, TryLock, CheckAge, RemoveStale,
         WaitLock, WriteNewline, Refuse, WriteFails, DropLock, Age, Crash, Restart,
         LogUnchanged
    <3> QED
      BY <1>2, <2>0, <3>0, <3>2 DEF Next, Live, vars, Begin, TryLock, CheckAge, RemoveStale,
         WaitLock, WriteText, WriteNewline, Refuse, WriteFails, DropLock, Age, Crash,
         Restart, LogUnchanged
  <2>3. lock' \in Locks \cup {NoLock}
    <3>1. lock \in Locks \cup {NoLock}
      BY <1>2 DEF TypeOK, Locks
    <3>2. CASE Age
      BY <3>1, <3>2 DEF Age, Locks
    <3>3. ASSUME NEW p \in Procs, TryLock(p) PROVE lock' \in Locks \cup {NoLock}
      <4>1. [owner |-> p, stale |-> FALSE] \in Locks
        BY DEF Locks
      <4> QED
        BY <3>1, <3>3, <4>1 DEF TryLock
    <3> QED
      BY <1>2, <3>1, <3>2, <3>3 DEF Next, Live, vars, Begin, CheckAge, RemoveStale,
       WaitLock, WriteText, WriteNewline, Refuse, WriteFails, DropLock, Crash, Restart, LogUnchanged
  <2>7. ASSUME NEW q \in Procs, at'[q] = "newline" PROVE event'[q] \in Events
    <3>0. /\ at[q] = "newline" => event[q] \in Events
          /\ written \in 0..MaxEvents
      BY <1>2 DEF TypeOK
    <3>1. ASSUME NEW p \in Procs, WriteText(p) PROVE event'[q] \in Events
      <4>1. written' \in Events
        BY <3>0, <3>1, LogAssumption DEF WriteText, Events
      <4> QED
        BY <2>0, <2>7, <3>0, <3>1, <4>1 DEF WriteText, Go
    <3> QED
      BY <1>2, <2>0, <2>7, <3>0, <3>1 DEF Next, Live, vars, Begin, TryLock, CheckAge,
         RemoveStale, WaitLock, WriteNewline, Refuse, WriteFails, DropLock, Age, Crash,
         Restart, LogUnchanged, Go
  <2>4. kept' \subseteq Events /\ open' \subseteq Events /\ acked' \subseteq Events
    <3>0. /\ kept \subseteq Events /\ open \subseteq Events /\ acked \subseteq Events
          /\ written \in 0..MaxEvents
      BY <1>2 DEF TypeOK
    <3>1. ASSUME NEW p \in Procs, WriteText(p)
          PROVE open' \subseteq Events /\ kept' = kept /\ acked' = acked
      BY <3>0, <3>1, LogAssumption DEF WriteText, Events
    <3>2. ASSUME NEW p \in Procs, WriteNewline(p)
          PROVE kept' \subseteq Events /\ open' \subseteq Events /\ acked' \subseteq Events
      <4>1. event[p] \in Events
        BY <3>2, <1>2 DEF WriteNewline, TypeOK
      <4> QED
        BY <3>0, <3>2, <4>1 DEF WriteNewline, Alone
    <3> QED
      BY <1>2, <3>0, <3>1, <3>2 DEF Next, Live, vars, Begin, TryLock, CheckAge, RemoveStale,
         WaitLock, Refuse, WriteFails, DropLock, Age, Crash, Restart, LogUnchanged
  <2>5. crashes' \in 0..MaxCrashes /\ failures' \in 0..MaxFailures /\ tears' \in Nat
    BY <1>2, LogAssumption DEF TypeOK, Next, Live, vars, Begin, TryLock, CheckAge, RemoveStale,
       WaitLock, WriteText, WriteNewline, Refuse, WriteFails, DropLock, Age, Crash, Restart,
       LogUnchanged
  <2>6. disturbed' \in BOOLEAN
    BY <1>2, Zenon DEF TypeOK, Next, Live, vars, Begin, TryLock, CheckAge, RemoveStale,
       WaitLock, WriteText, WriteNewline, Refuse, WriteFails, DropLock, Age, Crash, Restart,
       LogUnchanged
  <2> QED
    BY <2>1, <2>2, <2>3, <2>4, <2>5, <2>6, <2>7 DEF TypeOK, Locks, Events
<1> QED
  BY <1>1, <1>2, PTL DEF Spec

-----------------------------------------------------------------------------
\* While nothing was disturbed, whoever is inside made the lock file that is there,
\* and it is not old.  OneHolder says nothing of the file, so a step that removes it
\* could not be followed with OneHolder alone.
HolderOwnsLock ==
  disturbed \/ \A p \in Procs : Critical(p) => lock = [owner |-> p, stale |-> FALSE]

LEMMA HolderStep ==
  ASSUME TypeOK, HolderOwnsLock, [Next]_vars PROVE HolderOwnsLock'
<1>0. /\ at \in [Procs -> Places]
      /\ lock \in Locks \cup {NoLock}
      /\ NoLock \notin Locks
  BY LogAssumption DEF TypeOK, Locks
<1>9. ASSUME ~disturbed, NEW q \in Procs, Critical(q)
      PROVE lock = [owner |-> q, stale |-> FALSE] /\ lock # NoLock
  <2>1. lock = [owner |-> q, stale |-> FALSE]
    BY <1>9 DEF HolderOwnsLock
  <2>2. [owner |-> q, stale |-> FALSE] \in Locks
    BY DEF Locks
  <2> QED
    BY <2>1, <2>2, <1>0
<1> USE <1>0 DEF HolderOwnsLock, Critical, Go
<1>1. CASE Age
  <2>1. disturbed => disturbed'
    BY <1>1, Zenon DEF Age
  <2>2. ASSUME ~disturbed, NEW p \in Procs, Critical(p) PROVE disturbed'
    <3>1. Critical(lock.owner)
      BY <2>2
    <3> QED
      BY <1>1, <3>1, Zenon DEF Age
  <2>3. \A p \in Procs : Critical(p)' => Critical(p)
    BY <1>1 DEF Age
  <2> QED
    BY <2>1, <2>2, <2>3
<1>2. ASSUME NEW p \in Procs, Begin(p) \/ CheckAge(p) \/ WaitLock(p)
      PROVE HolderOwnsLock'
  BY <1>2 DEF Begin, CheckAge, WaitLock, IsStale
<1>3. ASSUME NEW p \in Procs, TryLock(p) PROVE HolderOwnsLock'
  <2>1. CASE lock = NoLock
    <3>2. disturbed \/ \A q \in Procs : ~Critical(q)
      BY ONLY <2>1, <1>9
    <3>3. lock' = [owner |-> p, stale |-> FALSE]
      BY <1>3, <2>1 DEF TryLock
    <3>4. \A q \in Procs : Critical(q)' => Critical(q) \/ q = p
      BY <1>3 DEF TryLock
    <3>5. disturbed' = disturbed
      BY <1>3 DEF TryLock
    <3> QED
      BY <3>2, <3>3, <3>4, <3>5
  <2>2. CASE lock # NoLock
    BY <1>3, <2>2 DEF TryLock
  <2> QED
    BY <2>1, <2>2
<1>4. ASSUME NEW p \in Procs, RemoveStale(p) PROVE HolderOwnsLock'
  <2>1. disturbed => disturbed'
    BY <1>4, Zenon DEF RemoveStale
  <2>2. ASSUME ~disturbed, NEW q \in Procs, Critical(q) PROVE disturbed'
    <3>1. lock # NoLock /\ ~lock.stale
      BY ONLY <2>2, <1>9
    <3> QED
      BY <1>4, <3>1, Zenon DEF RemoveStale
  <2>3. \A q \in Procs : Critical(q)' => Critical(q)
    BY <1>4 DEF RemoveStale
  <2> QED
    BY <2>1, <2>2, <2>3
<1>5. ASSUME NEW p \in Procs, WriteText(p) \/ WriteNewline(p) \/ Refuse(p) \/ WriteFails(p)
      PROVE HolderOwnsLock'
  BY <1>5 DEF WriteText, WriteNewline, Refuse, WriteFails, LogUnchanged
<1>6. ASSUME NEW p \in Procs, DropLock(p) PROVE HolderOwnsLock'
  BY <1>6 DEF DropLock, Locks
<1>7. ASSUME NEW p \in Procs, Crash(p) \/ Restart(p) PROVE HolderOwnsLock'
  BY <1>7 DEF Crash, Restart
<1>8. CASE UNCHANGED vars
  BY <1>8 DEF vars
<1> QED
  BY <1>1, <1>2, <1>3, <1>4, <1>5, <1>6, <1>7, <1>8 DEF Next, Live

\* The store is changed by one process at a time, unless a living holder took half an
\* hour or a waiter removed a lock made after the stale one it had seen.
THEOREM LockExcludes == Spec => []OneHolder
<1>1. Init => HolderOwnsLock
  BY DEF Init, HolderOwnsLock, Critical
<1>2. TypeOK /\ HolderOwnsLock /\ [Next]_vars => HolderOwnsLock'
  BY HolderStep
<1>3. HolderOwnsLock => OneHolder
  BY DEF HolderOwnsLock, OneHolder
<1> QED
  BY <1>1, <1>2, <1>3, TypesHold, PTL DEF Spec

-----------------------------------------------------------------------------
(* No answered append is lost                                              *)

\* The events being written now, and those on the open line that nobody will end.
Writing == {event[p] : p \in {q \in Procs : at[q] = "newline"}}
Torn == open \ Writing

\* A line left open swallows at most one answered event: an event that is not kept was
\* paid for by a tear, and every torn event still on the open line by another.
TearsPay ==
  disturbed \/
    /\ \A p \in Procs : at[p] = "newline" => event[p] \in open
    /\ Cardinality(acked \ kept) + Cardinality(Torn) <= tears

LEMMA EventsAreFinite ==
  ASSUME TypeOK, NEW S, S \subseteq Events
  PROVE IsFiniteSet(S) /\ Cardinality(S) \in Nat
<1>1. IsFiniteSet(Events)
  BY LogAssumption, FS_Interval DEF Events
<1> QED
  BY <1>1, FS_Subset, FS_CardinalityType

\* A set of events has no more members than a set it is part of, and one more at most
\* when one is added.
LEMMA EventsCount ==
  ASSUME TypeOK, NEW S, NEW T, NEW e, S \subseteq Events, T \subseteq Events, e \in Events
  PROVE /\ S \subseteq T => Cardinality(S) <= Cardinality(T)
        /\ S \subseteq T \cup {e} => Cardinality(S) <= Cardinality(T) + 1
<1>1. IsFiniteSet(T) /\ Cardinality(T) \in Nat
  BY EventsAreFinite
<1>2. IsFiniteSet(T \cup {e}) /\ Cardinality(T \cup {e}) <= Cardinality(T) + 1
  <2>1. CASE e \in T
    <3>1. T \cup {e} = T
      BY <2>1
    <3> QED
      BY <1>1, <3>1
  <2>2. CASE e \notin T
    <3>1. /\ IsFiniteSet(T \cup {e})
          /\ Cardinality(T \cup {e}) = IF e \in T THEN Cardinality(T) ELSE Cardinality(T) + 1
      BY <1>1, FS_AddElement, Zenon
    <3> QED
      BY <1>1, <2>2, <3>1
  <2> QED
    BY <2>1, <2>2
<1>3. Cardinality(S) \in Nat /\ Cardinality(T \cup {e}) \in Nat
  BY EventsAreFinite
<1>4. S \subseteq T => Cardinality(S) <= Cardinality(T)
  BY <1>1, FS_Subset
<1>5. S \subseteq T \cup {e} => Cardinality(S) <= Cardinality(T \cup {e})
  BY <1>2, FS_Subset
<1> QED
  BY <1>1, <1>2, <1>3, <1>4, <1>5

LEMMA TearsPayStep ==
  ASSUME TypeOK, HolderOwnsLock, TearsPay, [Next]_vars PROVE TearsPay'
<1>0. /\ at \in [Procs -> Places] /\ event \in [Procs -> 0..MaxEvents]
      /\ kept \subseteq Events /\ open \subseteq Events /\ acked \subseteq Events
      /\ tears \in Nat
      /\ \A p \in Procs : at[p] = "newline" => event[p] \in Events
  BY DEF TypeOK
<1>d. disturbed => disturbed'
  BY Zenon DEF Next, Live, vars, Begin, TryLock, CheckAge, RemoveStale, WaitLock, WriteText,
     WriteNewline, Refuse, WriteFails, DropLock, Age, Crash, Restart, LogUnchanged
<1> SUFFICES ASSUME ~disturbed PROVE TearsPay'
  BY <1>d DEF TearsPay
<1>1. /\ \A p \in Procs : at[p] = "newline" => event[p] \in open
      /\ Cardinality(acked \ kept) + Cardinality(Torn) <= tears
  BY DEF TearsPay
<1>2. \A p, q \in Procs : Critical(p) /\ Critical(q) => p = q
  BY DEF HolderOwnsLock
<1>3. /\ Cardinality(acked \ kept) \in Nat /\ Cardinality(Torn) \in Nat
      /\ Torn \subseteq Events
  BY <1>0, EventsAreFinite DEF Torn
\* Who writes while p is inside.
<1>4. ASSUME NEW p \in Procs, Critical(p)
      PROVE /\ at[p] = "newline" => Writing = {event[p]}
            /\ at[p] # "newline" => Writing = {}
  BY <1>2, <1>4 DEF Writing, Critical
\* Steps that neither reach nor leave the newline.
<1>5. ASSUME UNCHANGED <<event, kept, open, acked, tears>>,
             \A p \in Procs : at'[p] = "newline" <=> at[p] = "newline"
      PROVE TearsPay'
  <2>1. Writing' = Writing
    BY <1>5 DEF Writing
  <2> QED
    BY <1>1, <1>5, <2>1 DEF TearsPay, Torn
<1>6. ASSUME NEW p \in Procs, WriteText(p) PROVE TearsPay'
  <2>1. at[p] = "held" /\ at' = [at EXCEPT ![p] = "newline"]
    BY <1>6 DEF WriteText, Go
  <2>2. /\ event' = [event EXCEPT ![p] = written'] /\ open' = open \cup {written'}
        /\ UNCHANGED <<kept, acked, tears>>
    BY <1>6 DEF WriteText
  <2>3. \A q \in Procs : at'[q] = "newline" <=> q = p
    BY <1>0, <1>2, <2>1 DEF Critical
  <2>4. Writing' = {written'}
    BY <1>0, <2>2, <2>3 DEF Writing
  <2>5. Torn = open
    BY <1>4, <2>1 DEF Torn, Critical
  <2>6. Torn' \subseteq Torn
    BY <2>2, <2>4, <2>5 DEF Torn
  <2>7. Cardinality(Torn') <= Cardinality(Torn) /\ Cardinality(Torn') \in Nat
    <3>1. Torn' \subseteq Events
      BY <1>3, <2>6
    <3> QED
      BY <1>3, <2>6, <3>1, EventsAreFinite, FS_Subset
  <2>8. \A q \in Procs : at'[q] = "newline" => event'[q] \in open'
    BY <1>0, <2>2, <2>3
  <2> QED
    BY <1>0, <1>1, <1>3, <2>2, <2>7, <2>8 DEF TearsPay
<1>7. ASSUME NEW p \in Procs, WriteNewline(p) PROVE TearsPay'
  <2>1. /\ at[p] = "newline" /\ event[p] \in Events /\ event[p] \in open
        /\ \E place \in {"held", "drop"} : at' = [at EXCEPT ![p] = place]
    BY <1>0, <1>1, <1>7 DEF WriteNewline, Go
  <2>2. /\ kept' = kept \cup Alone /\ open' = {} /\ acked' = acked \cup {event[p]}
        /\ UNCHANGED tears
    BY <1>7 DEF WriteNewline
  <2>3. \A q \in Procs : at'[q] # "newline"
    BY <1>0, <1>2, <2>1 DEF Critical
  <2>4. Cardinality(Torn') = 0
    BY <2>2, FS_EmptySet DEF Torn
  <2>5. Torn = open \ {event[p]}
    BY <1>4, <2>1 DEF Torn, Critical
  <2>6. acked' \ kept' \subseteq (acked \ kept) \cup {event[p]} /\ acked' \ kept' \subseteq Events
    BY <1>0, <2>1, <2>2
  <2>9. Cardinality(acked' \ kept') <= Cardinality(acked \ kept) + Cardinality(Torn)
    <3>1. CASE Cardinality(open) = 1
      <4>1. open = {event[p]}
        BY <1>0, <2>1, <3>1, EventsAreFinite, FS_Singleton
      <4>2. acked' \ kept' \subseteq acked \ kept
        BY <2>2, <3>1, <4>1 DEF Alone
      <4>3. Cardinality(acked' \ kept') <= Cardinality(acked \ kept)
        BY <1>0, <2>1, <2>6, <4>2, EventsCount
      <4> QED
        BY <1>3, <2>6, <4>3, EventsAreFinite
    <3>2. CASE Cardinality(open) # 1
      <4>1. Torn # {}
        <5>1. open # {event[p]}
          BY <3>2, FS_Singleton
        <5> QED
          BY <2>1, <2>5, <5>1
      <4>2. Cardinality(Torn) # 0
        BY <1>3, <4>1, EventsAreFinite, FS_EmptySet
      <4>3. acked \ kept \subseteq Events
        BY <1>0
      <4>4. Cardinality(acked' \ kept') <= Cardinality(acked \ kept) + 1
        BY <2>1, <2>6, <4>3, EventsCount
      <4>5. Cardinality(acked' \ kept') \in Nat
        BY <2>6, EventsAreFinite
      <4> QED
        BY <1>3, <4>2, <4>4, <4>5
    <3> QED
      BY <3>1, <3>2
  <2> QED
    <3>1. Cardinality(acked' \ kept') \in Nat
      BY <2>6, EventsAreFinite
    <3> QED
      BY <1>0, <1>1, <1>3, <2>2, <2>3, <2>4, <2>9, <3>1 DEF TearsPay
\* The writer dies, or its newline fails.
<1>8. ASSUME NEW p \in Procs, WriteFails(p) \/ Crash(p) PROVE TearsPay'
  <2>1. /\ \E place \in {"drop", "dead"} : at' = [at EXCEPT ![p] = place]
        /\ event' = [event EXCEPT ![p] = 0]
        /\ tears' = IF at[p] = "newline" THEN tears + 1 ELSE tears
        /\ UNCHANGED <<kept, open, acked>>
    BY <1>8 DEF WriteFails, Crash, Go
  <2>2. at'[p] # "newline" /\ \A q \in Procs \ {p} : at'[q] = at[q] /\ event'[q] = event[q]
    BY <1>0, <2>1
  <2>3. \A q \in Procs : at'[q] = "newline" => event'[q] \in open'
    BY <1>1, <2>1, <2>2
  <2>4. CASE at[p] # "newline"
    <3>1. Writing' = Writing
      BY <2>2, <2>4 DEF Writing
    <3> QED
      BY <1>1, <2>1, <2>3, <2>4, <3>1 DEF TearsPay, Torn
  <2>5. CASE at[p] = "newline"
    <3>1. Writing = {event[p]} /\ event[p] \in Events
      BY <1>0, <1>4, <2>5 DEF Critical
    <3>2. Torn' \subseteq Torn \cup {event[p]} /\ Torn' \subseteq Events
      BY <1>0, <2>1, <3>1 DEF Torn
    <3>3. Cardinality(Torn') <= Cardinality(Torn) + 1 /\ Cardinality(Torn') \in Nat
      BY <1>3, <3>1, <3>2, EventsCount, EventsAreFinite
    <3> QED
      BY <1>0, <1>1, <1>3, <2>1, <2>3, <2>5, <3>3 DEF TearsPay
  <2> QED
    BY <2>4, <2>5
<1>9. ASSUME NEW p \in Procs,
             \/ Begin(p) \/ TryLock(p) \/ CheckAge(p) \/ RemoveStale(p) \/ WaitLock(p)
             \/ Refuse(p) \/ DropLock(p) \/ Restart(p)
      PROVE TearsPay'
  <2>1. UNCHANGED <<event, kept, open, acked, tears>>
    BY <1>9 DEF Begin, TryLock, CheckAge, RemoveStale, WaitLock, Refuse, DropLock, Restart,
       LogUnchanged
  <2>2. \A q \in Procs : at'[q] = "newline" <=> at[q] = "newline"
    BY <1>0, <1>9 DEF Begin, TryLock, CheckAge, RemoveStale, WaitLock, Refuse, DropLock,
       Restart, Go
  <2> QED
    BY <1>5, <2>1, <2>2
<1>10. CASE Age \/ UNCHANGED vars
  BY <1>5, <1>10 DEF Age, vars, LogUnchanged
<1> QED
  BY <1>6, <1>7, <1>8, <1>9, <1>10 DEF Next, Live

\* An event whose append was answered with Ok is read by everybody from then on, but for
\* one event for each line that was left without its newline.
THEOREM AckedSurvives == Spec => []AckedIsReplayed
<1>1. TypeOK /\ Init => TearsPay
  <2>1. Init => Torn = {} /\ acked \ kept = {}
    BY DEF Init, Torn
  <2> QED
    BY <2>1, FS_EmptySet DEF Init, TearsPay
<1>2. TypeOK /\ HolderOwnsLock /\ TearsPay /\ [Next]_vars => TearsPay'
  BY TearsPayStep
<1>3. Init => HolderOwnsLock
  BY DEF Init, HolderOwnsLock, Critical
<1>4. TypeOK /\ HolderOwnsLock /\ [Next]_vars => HolderOwnsLock'
  BY HolderStep
<1>5. TypeOK /\ TearsPay => AckedIsReplayed
  <2> SUFFICES ASSUME TypeOK, TearsPay, ~disturbed PROVE Cardinality(acked \ Replay) <= tears
    BY DEF AckedIsReplayed
  <2>1. /\ acked \ Replay \subseteq acked \ kept
        /\ acked \ kept \subseteq Events /\ Torn \subseteq Events
    BY DEF Replay, TypeOK, Torn
  <2>2. Cardinality(acked \ Replay) <= Cardinality(acked \ kept)
    BY <2>1, EventsAreFinite, FS_Subset
  <2>3. /\ Cardinality(acked \ kept) \in Nat /\ Cardinality(Torn) \in Nat
        /\ Cardinality(acked \ Replay) \in Nat
    BY <2>1, EventsAreFinite
  <2> QED
    BY <2>2, <2>3 DEF TearsPay, TypeOK
<1> QED
  BY <1>1, <1>2, <1>3, <1>4, <1>5, TypesHold, PTL DEF Spec
=============================================================================
