---------------------------- MODULE Cron_proofs -----------------------------
(***************************************************************************)
(* Theorems about the scheduler, for any jobs, runs, definitions and       *)
(* bounds.  What compute_next_run_at returns, for every schedule; that a   *)
(* task runs when its schedule says and a backlog collapses (CronTimer);   *)
(* the service over its store (CronService), whose inductive invariant     *)
(* ties what it remembers of a run to what runs.jsonl holds of it, and the *)
(* mark of a job to the one run that holds it; that what it has on record  *)
(* as scheduled only moves forward; and that it does to the logs what      *)
(* CronRuns promises.                                                      *)
(***************************************************************************)
EXTENDS CronService, CronTimer, WellFoundedInduction, TLAPS

-----------------------------------------------------------------------------
(* compute_next_run_at *)

\* The numbers are well founded under a relation that is their order.
LEMMA SmallestBy ==
  ASSUME NEW R, IsWellFoundedOn(R, Nat), \A x, y \in Nat : <<y, x>> \in R <=> y < x,
         NEW T \in SUBSET Nat, T # {}
  PROVE  \E x \in T : \A y \in T : x <= y
<1>1. PICK x \in T : \A y \in T : ~ (<<y, x>> \in R)
  BY WFMin, Zenon
<1>2. \A y \in T : ~ (y < x)
  BY <1>1, Zenon
<1>3. \A a, b \in Nat : ~ (b < a) => a <= b
  OBVIOUS
<1>4. \A y \in T : x <= y
  BY <1>2, <1>3, Zenon
<1> QED BY <1>4

\* A set of numbers has a smallest.
LEMMA SmallestOf ==
  ASSUME NEW T \in SUBSET Nat, T # {}
  PROVE  \E x \in T : \A y \in T : x <= y
<1>1. \A x, y \in Nat : <<y, x>> \in OpToRel(<, Nat) <=> y < x
  BY DEF OpToRel
<1> QED BY <1>1, NatLessThanWellFounded, SmallestBy, Zenon

\* The earliest of times that have a lower bound is one of them.
LEMMA EarliestIsOne ==
  ASSUME NEW S \in SUBSET Int, S # {}, NEW b \in Int, \A t \in S : b <= t
  PROVE  Earliest(S) \in S /\ \A u \in S : Earliest(S) <= u
<1> DEFINE T == {t - b : t \in S}
<1>0. \A t \in S : t - b \in Nat
  OBVIOUS
<1>1. T \in SUBSET Nat /\ T # {}
  BY <1>0, Zenon
<1>2. PICK x \in T : \A y \in T : x <= y
  BY <1>1, SmallestOf, Zenon
<1>3. PICK t \in S : x = t - b
  OBVIOUS
<1>4. \A u \in S : t <= u
  <2> TAKE u \in S
  <2>1. u - b \in T
    OBVIOUS
  <2>2. x <= u - b
    BY <2>1, <1>2
  <2> QED BY <2>2, <1>3
<1>5. \E s \in S : \A u \in S : s <= u
  BY <1>4
<1> QED BY <1>5 DEF Earliest

\* The latest of times that have an upper bound is one of them.
LEMMA LatestIsOne ==
  ASSUME NEW S \in SUBSET Int, S # {}, NEW b \in Int, \A t \in S : t <= b
  PROVE  Latest(S) \in S /\ \A u \in S : Latest(S) >= u
<1> DEFINE T == {b - t : t \in S}
<1>0. \A t \in S : b - t \in Nat
  OBVIOUS
<1>1. T \in SUBSET Nat /\ T # {}
  BY <1>0, Zenon
<1>2. PICK x \in T : \A y \in T : x <= y
  BY <1>1, SmallestOf, Zenon
<1>3. PICK t \in S : x = b - t
  OBVIOUS
<1>4. \A u \in S : t >= u
  <2> TAKE u \in S
  <2>1. b - u \in T
    OBVIOUS
  <2>2. x <= b - u
    BY <2>1, <1>2
  <2> QED BY <2>2, <1>3
<1>5. \E s \in S : \A u \in S : s >= u
  BY <1>4
<1> QED BY <1>5 DEF Latest

\* The calendar search answers with the time of day on one of the days it looks
\* at, after the last occurrence or, before the first, not before the creation.
LEMMA CalendarAnswers ==
  ASSUME NEW days \in SUBSET Int, NEW time \in Int, NEW prev \in Int, NEW instant \in Int,
         NEW created \in Int, NEW missed_run,
         CalendarNext(days, time, prev, instant, created, missed_run) # NoTime
  PROVE  \E d \in days :
           /\ CalendarNext(days, time, prev, instant, created, missed_run) = d * Day + time
           /\ IF prev = NoTime THEN d * Day + time >= created ELSE d * Day + time > prev
<1> DEFINE candidates == {c \in {d * Day + time : d \in days} :
                            IF prev = NoTime THEN c >= created ELSE c > prev}
           past   == {c \in candidates : c < instant}
           coming == {c \in candidates : c >= instant}
           next   == CalendarNext(days, time, prev, instant, created, missed_run)
<1>1. candidates \in SUBSET Int
  BY ScheduleAssumption
<1>2. past # {} => Latest(past) \in past
  <2> HAVE past # {}
  <2>1. past \in SUBSET Int /\ \A t \in past : t <= instant
    BY <1>1
  <2> HIDE DEF past
  <2> QED BY <2>1, LatestIsOne
<1>3. coming # {} => Earliest(coming) \in coming
  <2> HAVE coming # {}
  <2>1. coming \in SUBSET Int /\ \A t \in coming : instant <= t
    BY <1>1
  <2> HIDE DEF coming
  <2> QED BY <2>1, EarliestIsOne
<1>4. next \in candidates
  <2>1. \/ next = Latest(past) /\ past # {}
        \/ next = Earliest(coming) /\ coming # {}
    BY Zenon DEF CalendarNext
  <2> QED BY <2>1, <1>2, <1>3
<1> QED BY <1>4

\* A task that has run is never due again at or before its last occurrence.
LEMMA NextIsLater ==
  ASSUME NEW task, IsSchedule(task.schedule), NEW prev \in Nat, NEW instant \in Int,
         task.created \in Int,
         ComputeNextRunAt(task, prev, instant) \in Nat
  PROVE  ComputeNextRunAt(task, prev, instant) > prev
<1> DEFINE s    == task.schedule
           next == ComputeNextRunAt(task, prev, instant)
<1>0. prev # NoTime /\ next # NoTime /\ NoTime \in Int
  BY DEF NoTime
<1>1. CASE ~task.enabled
  BY <1>0, <1>1 DEF ComputeNextRunAt
<1>2. CASE task.enabled /\ s.kind = "once"
  <2>1. next = OnceNext(s.at, prev, instant, task.created, task.missed_run)
    BY <1>2, Zenon DEF ComputeNextRunAt
  <2> QED BY <1>0, <2>1 DEF OnceNext
<1>3. CASE task.enabled /\ s.kind = "interval"
  <2>1. next = IntervalNext(s.every, s.anchor, prev, instant, task.created, task.missed_run)
    BY <1>3 DEF ComputeNextRunAt
  <2>2. next = prev + s.every
    BY <1>0, <2>1 DEF IntervalNext
  <2>3. s.every \in Nat \ {0}
    BY <1>3 DEF IsSchedule
  <2> QED BY <2>2, <2>3
<1>4. CASE task.enabled /\ s.kind = "daily"
  <2> DEFINE days == (Today(instant) - 1)..(Today(instant) + WindowDays)
  <2>1. next = CalendarNext(days, s.time, prev, instant, task.created, task.missed_run)
    BY <1>4 DEF ComputeNextRunAt, DailyNext
  <2>2. days \in SUBSET Int /\ s.time \in Int
    BY <1>4, ScheduleAssumption DEF IsSchedule
  <2>3. PICK d \in days : next = d * Day + s.time /\ d * Day + s.time > prev
    <3> HIDE DEF days
    <3> QED BY <1>0, <2>1, <2>2, CalendarAnswers
  <2> QED BY <2>3
<1>5. CASE task.enabled /\ s.kind = "weekly"
  <2> DEFINE days == {d \in (Today(instant) - WeekLength)..(Today(instant) + WindowDays) :
                        d % WeekLength \in s.weekdays}
  <2>1. next = CalendarNext(days, s.time, prev, instant, task.created, task.missed_run)
    BY <1>5 DEF ComputeNextRunAt, WeeklyNext
  <2>2. days \in SUBSET Int /\ s.time \in Int
    BY <1>5, ScheduleAssumption DEF IsSchedule
  <2>3. PICK d \in days : next = d * Day + s.time /\ d * Day + s.time > prev
    <3> HIDE DEF days
    <3> QED BY <1>0, <2>1, <2>2, CalendarAnswers
  <2> QED BY <2>3
<1> QED BY <1>1, <1>2, <1>3, <1>4, <1>5 DEF IsSchedule

-----------------------------------------------------------------------------
(* Periods *)

LEMMA QuotientBounds ==
  ASSUME NEW a \in Int, NEW b \in Nat \ {0}
  PROVE  a \div b \in Int /\ b * (a \div b) <= a /\ a < b * (a \div b) + b
<1>1. a \div b \in Int
  OBVIOUS
<1>2. a >= b * (a \div b) /\ a < b * (a \div b) + b
  OBVIOUS
<1> QED BY <1>1, <1>2

LEMMA RemainderOf ==
  ASSUME NEW q \in Int, NEW b \in Nat \ {0}, NEW r \in 0..b-1
  PROVE  (q * b + r) % b = r
OBVIOUS

LEMMA QuotientOf ==
  ASSUME NEW q \in Int, NEW b \in Nat \ {0}, NEW r \in 0..b-1
  PROVE  (q * b + r) \div b = q
OBVIOUS

LEMMA Division ==
  ASSUME NEW a \in Int, NEW b \in Nat \ {0}
  PROVE  a = (a \div b) * b + (a % b) /\ a % b \in 0..b-1
<1> DEFINE q == a \div b
           r == a - q * b
<1>1. q \in Int /\ q * b <= a /\ a < q * b + b
  BY QuotientBounds
<1> HIDE DEF q
<1>2. r \in 0..b-1 /\ a = q * b + r
  BY <1>1
<1> HIDE DEF r
<1>3. a % b = r
  <2>1. (q * b + r) % b = r
    BY <1>1, <1>2, RemainderOf
  <2> QED BY <1>2, <2>1, Zenon
<1>4. a = q * b + (a % b) /\ a % b \in 0..b-1
  BY <1>2, <1>3, Zenon
<1> QED BY <1>4 DEF q

LEMMA ShiftRemainder ==
  ASSUME NEW a \in Int, NEW m \in Int, NEW b \in Nat \ {0}
  PROVE  (a + m * b) % b = a % b
<1> DEFINE q == a \div b
           r == a % b
<1>1. q \in Int /\ r \in 0..b-1 /\ a = q * b + r
  BY QuotientBounds, Division
<1> HIDE DEF q, r
<1>2. a + m * b = (q + m) * b + r
  BY <1>1
<1>3. ((q + m) * b + r) % b = r
  BY <1>1, RemainderOf
<1> QED BY <1>2, <1>3 DEF r

LEMMA PeriodMore ==
  ASSUME NEW a \in Int, NEW m \in Int, NEW b \in Int
  PROVE  a + m * b + b = a + (m + 1) * b
OBVIOUS

LEMMA MultiplyOrder ==
  ASSUME NEW a \in Int, NEW b \in Int, NEW c \in Nat, a <= b
  PROVE  a * c <= b * c
OBVIOUS

LEMMA WholePeriods ==
  ASSUME NEW k \in Nat, NEW every \in Nat \ {0}
  PROVE  k * every \in Nat /\ (k * every) % every = 0
<1>1. (k * every + 0) % every = 0
  BY RemainderOf
<1> QED BY <1>1

LEMMA NaturalQuotient ==
  ASSUME NEW a \in Nat, NEW b \in Nat \ {0}
  PROVE  a \div b \in Nat
<1> DEFINE q == a \div b
<1>1. q \in Int /\ a < b * q + b
  BY QuotientBounds
<1> HIDE DEF q
<1>2. q >= 0
  <2>1. b * q + b = b * (q + 1)
    BY <1>1
  <2>2. q + 1 > 0
    BY <1>1, <2>1
  <2> QED BY <1>1, <2>2
<1> QED BY <1>1, <1>2 DEF q

\* A period of whole seconds is a positive number of them.
LEMMA PeriodLength ==
  ASSUME NEW every \in Nat \ {0}, every % Second = 0
  PROVE  NumSeconds(every) \in Nat \ {0} /\ every = NumSeconds(every) * Second
<1> DEFINE period == NumSeconds(every)
<1>0. Second \in Nat \ {0}
  BY ScheduleAssumption
<1>1. every = period * Second + 0 /\ period \in Int
  BY <1>0, Division, QuotientBounds DEF NumSeconds
<1> HIDE DEF period
<1>2. period > 0
  BY <1>0, <1>1
<1>3. period \in Nat \ {0} /\ every = period * Second
  BY <1>0, <1>1, <1>2
<1> QED BY <1>3 DEF period

\* The anchor moves by whole periods to the first that is not a second or more
\* before the creation.
LEMMA AnchorMoves ==
  ASSUME NEW anchor \in Nat, NEW every \in Nat \ {0}, NEW created \in Nat,
         every % Second = 0
  PROVE  /\ \E k \in Nat : AnchorFrom(anchor, every, created) = anchor + k * every
         /\ AnchorFrom(anchor, every, created) > created - Second
<1>0. Second \in Nat \ {0}
  BY ScheduleAssumption
<1>1. CASE anchor >= created
  <2>1. AnchorFrom(anchor, every, created) = anchor + 0 * every
    BY <1>1 DEF AnchorFrom
  <2> QED BY <1>0, <1>1, <2>1
<1>2. CASE anchor < created
  <2> DEFINE elapsed == NumSeconds(created - anchor)
             period  == NumSeconds(every)
             q       == elapsed \div period
             rem     == elapsed % period
             steps   == q + (IF rem # 0 THEN 1 ELSE 0)
  <2>1. AnchorFrom(anchor, every, created) = anchor + steps * every
    BY <1>2 DEF AnchorFrom
  <2>2. elapsed \in Int /\ Second * elapsed + Second > created - anchor /\ elapsed >= 0
    <3>1. elapsed \in Int /\ Second * elapsed <= created - anchor
          /\ created - anchor < Second * elapsed + Second
      BY <1>0, QuotientBounds DEF NumSeconds
    <3> HIDE DEF elapsed
    <3>2. Second * elapsed + Second = Second * (elapsed + 1)
      BY <1>0, <3>1
    <3>3. elapsed + 1 > 0
      BY <1>0, <1>2, <3>1, <3>2
    <3> QED BY <3>1, <3>3
  <2>3. period \in Nat \ {0} /\ every = period * Second
    BY PeriodLength
  <2> HIDE DEF elapsed, period
  <2>4. q \in Int /\ elapsed = q * period + rem /\ rem \in 0..period-1
    BY <2>2, <2>3, Division, QuotientBounds
  <2> HIDE DEF q, rem
  <2>5. steps \in Int /\ steps * period >= elapsed
    <3>1. CASE rem = 0
      <4>1. steps = q
        BY <2>4, <3>1
      <4> HIDE DEF steps
      <4> QED BY <2>3, <2>4, <3>1, <4>1
    <3>2. CASE rem # 0
      <4>1. steps = q + 1
        BY <3>2
      <4> HIDE DEF steps
      <4>2. (q + 1) * period = q * period + period
        BY <2>3, <2>4
      <4> QED BY <2>2, <2>3, <2>4, <4>1, <4>2
    <3> QED BY <3>1, <3>2
  <2> HIDE DEF steps
  <2>6. steps >= 0
    BY <2>2, <2>3, <2>5
  <2>7. steps * every >= elapsed * Second
    <3>1. steps * every = (steps * period) * Second
      BY <1>0, <2>3, <2>5
    <3>2. (steps * period) * Second >= elapsed * Second
      BY <1>0, <2>2, <2>3, <2>5
    <3> QED BY <3>1, <3>2
  <2>8. elapsed * Second = Second * elapsed
    BY <1>0, <2>2
  <2>9. anchor + steps * every > created - Second
    <3>1. steps * every \in Int
      BY <2>5
    <3> QED BY <1>0, <2>2, <2>7, <2>8, <3>1
  <2> QED BY <2>1, <2>5, <2>6, <2>9
<1> QED BY <1>1, <1>2

-----------------------------------------------------------------------------
(***************************************************************************)
(* An occurrence a tick hands out is one the schedule names.               *)
(***************************************************************************)
LEMMA CalendarOccurs ==
  ASSUME TimerAssumption, ClockAssumption, job.schedule.kind \in {"daily", "weekly"}, IsSchedule(job.schedule),
         NEW d \in Int, job.schedule.kind = "weekly" => d % WeekLength \in job.schedule.weekdays,
         d * Day + job.schedule.time \in 0..MaxNow
  PROVE  d * Day + job.schedule.time \in Occurrences
<1> DEFINE time == job.schedule.time
<1>1. time \in 0..Day - 1 /\ Day \in Nat \ {0}
  BY ScheduleAssumption DEF IsSchedule
<1>2. (d * Day + time) % Day = time /\ (d * Day + time) \div Day = d
  <2> HIDE DEF time
  <2> QED BY <1>1, RemainderOf, QuotientOf
<1>3. CASE job.schedule.kind = "daily"
  <2> HIDE DEF time
  <2> QED BY <1>2, <1>3 DEF Occurrences, time
<1>4. CASE job.schedule.kind = "weekly"
  <2> HIDE DEF time
  <2> QED BY <1>2, <1>4 DEF Occurrences, time
<1> QED BY <1>3, <1>4

LEMMA IntervalOccurs ==
  ASSUME job.schedule.kind = "interval", TimerAssumption, ClockAssumption,
         NEW t \in 0..MaxNow, job.schedule.anchor # NoTime, t >= job.schedule.anchor,
         (t - job.schedule.anchor) % job.schedule.every = 0
  PROVE  t \in Occurrences
BY DEF Occurrences

LEMMA NextOccurs ==
  ASSUME TimerTypeOK, RunsOnSchedule, job.created <= now,
         ComputeNextRunAt(job, last, now) # NoTime, ComputeNextRunAt(job, last, now) <= now
  PROVE  /\ ComputeNextRunAt(job, last, now) \in Occurrences
         /\ ComputeNextRunAt(job, last, now) > job.created - Second
<1> DEFINE s    == job.schedule
           next == ComputeNextRunAt(job, last, now)
<1>0. /\ job.enabled /\ job.created \in Nat /\ IsSchedule(s) /\ now \in 0..MaxNow
      /\ last \in Times /\ MaxNow \in Nat /\ Second \in Nat \ {0} /\ Day \in Nat \ {0}
      /\ job \in TimedJobs /\ next # NoTime /\ next <= now
  BY TimerAssumption, ClockAssumption, ScheduleAssumption DEF TimerTypeOK
<1>1. CASE s.kind = "once"
  <2>1. next = OnceNext(s.at, last, now, job.created, job.missed_run)
    BY <1>0, <1>1, Zenon DEF ComputeNextRunAt
  <2>2. next = s.at /\ s.at \in Nat /\ ~(s.at < job.created)
    BY <1>0, <1>1, <2>1 DEF OnceNext, IsSchedule
  <2> HIDE DEF next
  <2>3. next \in Occurrences
    BY <1>0, <1>1, <2>2 DEF Occurrences
  <2> QED BY <1>0, <2>2, <2>3 DEF next
<1>2. CASE s.kind = "interval"
  <2> DEFINE every == s.every
             given == s.anchor
  <2>0. every \in Nat \ {0} /\ every % Second = 0 /\ given \in Times
    BY <1>0, <1>2, TimerAssumption, ClockAssumption DEF IsSchedule
  <2>1. next = IntervalNext(every, given, last, now, job.created, job.missed_run)
    BY <1>0, <1>2, Zenon DEF ComputeNextRunAt
  <2>2. CASE last # NoTime
    <3>1. last \in Occurrences /\ last > job.created - Second
      BY <2>2 DEF RunsOnSchedule
    <3>2. last \in 0..MaxNow /\ given # NoTime /\ last >= given /\ (last - given) % every = 0
      BY <1>2, <3>1 DEF Occurrences
    <3>3. next = last + every
      BY <2>1, <2>2 DEF IntervalNext
    <3>4. next - given = (last - given) + 1 * every
      BY <1>0, <2>0, <3>2, <3>3 DEF Times
    <3>5. (next - given) % every = 0
      <4>1. last - given \in Int
        BY <1>0, <2>0, <3>2 DEF Times
      <4>2. ((last - given) + 1 * every) % every = (last - given) % every
        <5> HIDE DEF given, every
        <5>1. 1 \in Int
          OBVIOUS
        <5> QED BY <2>0, <4>1, <5>1, ShiftRemainder, Zenon
      <4> HIDE DEF next, given, every
      <4> QED BY <3>2, <3>4, <4>2
    <3>6. next \in 0..MaxNow /\ next >= given /\ next > job.created - Second
      BY <1>0, <2>0, <3>1, <3>2, <3>3 DEF Times
    <3>7. next \in Occurrences
      <4> HIDE DEF next
      <4> QED BY <1>2, <3>2, <3>5, <3>6, IntervalOccurs, TimerAssumption, ClockAssumption
    <3> QED BY <3>6, <3>7
  <2>3. CASE last = NoTime /\ given = NoTime
    <3>1. AnchorFrom(now + every, every, job.created) = now + every
      BY <1>0, <2>0 DEF AnchorFrom
    <3>2. next = now + every
      BY <1>0, <2>0, <2>1, <2>3, <3>1 DEF IntervalNext
    <3> QED BY <1>0, <2>0, <3>2
  <2>4. CASE last = NoTime /\ given # NoTime
    <3> DEFINE anchor == AnchorFrom(given, every, job.created)
               steps  == NumSeconds(now - anchor) \div NumSeconds(every)
    <3>1. given \in Nat
      BY <2>0, <2>4 DEF Times
    <3>2. PICK k \in Nat : anchor = given + k * every
      BY <1>0, <2>0, <3>1, AnchorMoves
    <3>3. anchor > job.created - Second
      BY <1>0, <2>0, <3>1, AnchorMoves
    <3>4. k * every \in Nat
      BY <2>0
    <3>5. anchor <= now => steps \in Nat
      <4> HAVE anchor <= now
      <4>1. now - anchor \in Nat
        BY <1>0, <3>1, <3>2, <3>4
      <4>2. NumSeconds(now - anchor) \in Nat
        <5> HIDE DEF anchor
        <5> QED BY <1>0, <4>1, NaturalQuotient DEF NumSeconds
      <4>3. NumSeconds(every) \in Nat \ {0}
        BY <1>0, <2>0, PeriodLength
      <4> QED BY <4>2, <4>3, NaturalQuotient
    <3>6. \E m \in Nat : next = anchor + m * every
      <4>1. \/ next = anchor
            \/ anchor <= now /\ next = anchor + steps * every
            \/ anchor <= now /\ next = anchor + steps * every + every
        <5>0. anchor \in Int
          BY <3>1, <3>2, <3>4
        <5> HIDE DEF anchor
        <5> QED BY <1>0, <2>1, <2>4, <5>0 DEF IntervalNext, anchor
      <4> HIDE DEF anchor, steps, next
      <4>2. CASE next = anchor
        <5>1. next = anchor + 0 * every
          BY <2>0, <3>1, <3>2, <3>4, <4>2
        <5> QED BY <5>1
      <4>3. CASE anchor <= now /\ next = anchor + steps * every
        BY <3>5, <4>3
      <4>4. CASE anchor <= now /\ next = anchor + steps * every + every
        <5>1. steps \in Nat
          BY <3>5, <4>4
        <5>2. next = anchor + (steps + 1) * every
          <6>1. anchor \in Int /\ every \in Int /\ steps \in Int
            BY <2>0, <3>1, <3>2, <3>4, <5>1
          <6> HIDE DEF every
          <6> QED BY <4>4, <6>1, PeriodMore
        <5> QED BY <5>1, <5>2
      <4> QED BY <4>1, <4>2, <4>3, <4>4
    <3>7. PICK m \in Nat : next = anchor + m * every
      BY <3>6
    <3> HIDE DEF anchor, next, every, given
    <3>8. m * every \in Nat /\ k + m \in Nat /\ next = given + (k + m) * every
      BY <2>0, <3>1, <3>2, <3>4, <3>7
    <3>9. (next - given) % every = 0 /\ next >= given
      <4>1. (k + m) * every \in Nat /\ ((k + m) * every) % every = 0
        BY <2>0, <3>8, WholePeriods
      <4>2. next - given = (k + m) * every
        BY <3>1, <3>8, <4>1
      <4> QED BY <3>1, <3>8, <4>1, <4>2
    <3>10. next \in 0..MaxNow /\ next > job.created - Second
      BY <1>0, <3>1, <3>2, <3>3, <3>4, <3>7, <3>8 DEF next
    <3>11. next \in Occurrences
      BY <1>2, <2>4, <3>9, <3>10, IntervalOccurs, TimerAssumption, ClockAssumption DEF given, every
    <3> QED BY <3>10, <3>11 DEF next
  <2> QED BY <2>2, <2>3, <2>4
<1>3. ASSUME s.kind \in {"daily", "weekly"},
             NEW days \in SUBSET Int,
             s.kind = "weekly" => \A d \in days : d % WeekLength \in s.weekdays,
             next = CalendarNext(days, s.time, last, now, job.created, job.missed_run)
      PROVE  next \in Occurrences /\ next > job.created - Second
  <2>1. s.time \in 0..Day-1
    BY <1>0, <1>3 DEF IsSchedule
  <2>2. PICK d \in days : /\ next = d * Day + s.time
                          /\ IF last = NoTime THEN d * Day + s.time >= job.created
                                              ELSE d * Day + s.time > last
    <3>1. s.time \in Int /\ last \in Int /\ now \in Int /\ job.created \in Int
      BY <1>0, <2>1 DEF Times, NoTime
    <3> HIDE DEF next, s
    <3> QED BY <1>0, <1>3, <3>1, CalendarAnswers
  <2>3. next \in Int
    BY <1>0, <2>1, <2>2
  <2>4. next >= 0 /\ next > job.created - Second
    <3>1. CASE last = NoTime
      BY <1>0, <2>2, <2>3, <3>1
    <3>2. CASE last # NoTime
      <4>1. last > job.created - Second /\ last \in Nat
        BY <1>0, <3>2 DEF RunsOnSchedule, Times
      <4> QED BY <1>0, <2>2, <2>3, <3>2, <4>1
    <3> QED BY <3>1, <3>2
  <2>5. next \in 0..MaxNow
    BY <1>0, <2>3, <2>4
  <2> HIDE DEF next
  <2> QED BY <1>0, <1>3, <2>2, <2>4, <2>5, CalendarOccurs, TimerAssumption, ClockAssumption
<1>4. CASE s.kind = "daily"
  <2> DEFINE days == (Today(now) - 1)..(Today(now) + WindowDays)
  <2>1. next = CalendarNext(days, s.time, last, now, job.created, job.missed_run)
    BY <1>0, <1>4 DEF ComputeNextRunAt, DailyNext
  <2>2. days \in SUBSET Int
    OBVIOUS
  <2> HIDE DEF days
  <2> QED BY <1>3, <1>4, <2>1, <2>2
<1>5. CASE s.kind = "weekly"
  <2> DEFINE days == {d \in (Today(now) - WeekLength)..(Today(now) + WindowDays) :
                        d % WeekLength \in s.weekdays}
  <2>1. next = CalendarNext(days, s.time, last, now, job.created, job.missed_run)
    BY <1>0, <1>5 DEF ComputeNextRunAt, WeeklyNext
  <2>2. days \in SUBSET Int /\ \A d \in days : d % WeekLength \in s.weekdays
    OBVIOUS
  <2> HIDE DEF days
  <2> QED BY <1>3, <1>5, <2>1, <2>2
<1> QED BY <1>0, <1>1, <1>2, <1>4, <1>5 DEF IsSchedule

-----------------------------------------------------------------------------
TimerInv == /\ TimerTypeOK
            /\ RunsOnSchedule
            /\ job.created <= now
            /\ lastTick <= now

LEMMA OccurrencesInTime == Occurrences \subseteq 0..MaxNow
BY DEF Occurrences

LEMMA OccurrencesStay == UNCHANGED job => Occurrences' = Occurrences
BY DEF Occurrences

LEMMA TimerInvStep == ASSUME TimerInv, TimerNext PROVE TimerInv'
<1> DEFINE next == ComputeNextRunAt(job, last, now)
<1>0. /\ TimerTypeOK /\ RunsOnSchedule /\ job.created <= now /\ lastTick <= now
      /\ now \in 0..MaxNow /\ MaxNow \in Nat /\ job.created \in Nat
  BY TimerAssumption, ClockAssumption DEF TimerInv, TimerTypeOK
<1>1. CASE Tick
  <2>1. now' = now /\ job' = job /\ lastTick' = now /\ up' = up /\ upSince' = upSince
    BY <1>1 DEF Tick
  <2>2. CASE next # NoTime /\ next <= now
    <3>1. next \in Occurrences /\ next > job.created - Second /\ next \in 0..MaxNow
      BY <1>0, <2>2, NextOccurs, OccurrencesInTime
    <3>2. last' = next /\ handed' = handed + 1
      <4>1. ~(next = NoTime \/ next > now)
        <5> HIDE DEF next
        <5> QED BY <1>0, <2>2, <3>1
      <4> QED BY <1>1, <4>1 DEF Tick
    <3> HIDE DEF next
    <3>3. TimerTypeOK'
      BY <1>0, <2>1, <3>1, <3>2 DEF TimerTypeOK, Times
    <3>4. RunsOnSchedule'
      BY <2>1, <2>2, <3>1, <3>2, OccurrencesStay DEF RunsOnSchedule
    <3> QED BY <1>0, <2>1, <3>3, <3>4 DEF TimerInv
  <2>3. CASE ~(next # NoTime /\ next <= now)
    <3>1. last' = last /\ handed' = handed
      BY <1>1, <2>3 DEF Tick
    <3>2. TimerTypeOK'
      BY <1>0, <2>1, <3>1 DEF TimerTypeOK, Times
    <3>3. RunsOnSchedule'
      BY <1>0, <2>1, <3>1, OccurrencesStay DEF RunsOnSchedule
    <3> QED BY <1>0, <2>1, <3>2, <3>3 DEF TimerInv
  <2> QED BY <2>2, <2>3
<1>2. CASE TimerAdvance
  <2>1. last' = last /\ job' = job /\ now' = now + 1 /\ now < MaxNow /\ lastTick' = lastTick
    BY <1>2 DEF TimerAdvance, ClockAdvances
  <2>2. TimerTypeOK'
    BY <1>0, <1>2 DEF TimerAdvance, ClockAdvances, TimerTypeOK
  <2>3. RunsOnSchedule'
    <3>1. last # NoTime => last <= now + 1
      BY <1>0 DEF RunsOnSchedule, TimerTypeOK, Times
    <3> QED BY <1>0, <2>1, <3>1, OccurrencesStay DEF RunsOnSchedule
  <2>4. job.created <= now + 1 /\ lastTick <= now + 1
    BY <1>0 DEF TimerTypeOK, Times, NoTime
  <2> QED BY <2>1, <2>2, <2>3, <2>4 DEF TimerInv
<1>3. CASE StopService \/ StartService
  <2>1. UNCHANGED <<now, job, lastTick, last, handed>>
    BY <1>3 DEF StopService, StartService
  <2>2. TimerTypeOK'
    BY <1>0, <1>3 DEF StopService, StartService, TimerTypeOK
  <2>3. RunsOnSchedule'
    BY <1>0, <2>1, OccurrencesStay DEF RunsOnSchedule
  <2> QED BY <1>0, <2>1, <2>2, <2>3 DEF TimerInv
<1> QED BY <1>1, <1>2, <1>3 DEF TimerNext

LEMMA TimerInvAlways == TimerSpec => []TimerInv
<1>1. TimerInit => TimerInv
  BY TimerAssumption, ClockAssumption DEF TimerInit, TimerInv, TimerTypeOK, RunsOnSchedule, Times, NoTime
<1>2. TimerInv /\ [TimerNext]_timerVars => TimerInv'
  <2>1. CASE TimerNext
    BY <2>1, TimerInvStep
  <2>2. CASE UNCHANGED timerVars
    <3>1. UNCHANGED <<now, job, up, upSince, lastTick, last, handed>>
      BY <2>2 DEF timerVars
    <3> QED BY <3>1, OccurrencesStay DEF TimerInv, TimerTypeOK, RunsOnSchedule
  <2> QED BY <2>1, <2>2
<1> QED BY <1>1, <1>2, PTL DEF TimerSpec

\* The timer's state keeps its types: what is handed out is a time.
THEOREM TimerTypes == TimerSpec => []TimerTypeOK
<1>1. TimerInv => TimerTypeOK
  BY DEF TimerInv
<1> QED BY <1>1, TimerInvAlways, PTL

\* A task runs only at instants its schedule names, never early, and never for an
\* instant that had passed a second or more when it was created: compute_next_run_at
\* returns such instants for every schedule, and recording them keeps it so.
THEOREM RunsWhenDue == TimerSpec => []RunsOnSchedule
<1>1. TimerInv => RunsOnSchedule
  BY DEF TimerInv
<1> QED BY <1>1, TimerInvAlways, PTL

-----------------------------------------------------------------------------
(***************************************************************************)
(* The backlog: whatever instant of the schedule has passed, the window    *)
(* search has a past candidate that is not older.                          *)
(***************************************************************************)
LEMMA PastCovers ==
  ASSUME NEW days \in SUBSET Int, NEW time \in Int, NEW prev \in Int, NEW t \in Int,
         NEW created \in Int, NEW d \in days, NEW o \in Int,
         o >= created, o > prev, d * Day + time >= o, d * Day + time < t
  PROVE  LET next == CalendarNext(days, time, prev, t, created, "run_once")
         IN  next \in Int /\ next >= o /\ next < t
<1> DEFINE candidates == {c \in {e * Day + time : e \in days} :
                            IF prev = NoTime THEN c >= created ELSE c > prev}
           past   == {c \in candidates : c < t}
           next   == CalendarNext(days, time, prev, t, created, "run_once")
<1>0. Day \in Nat \ {0}
  BY ScheduleAssumption
<1>1. d * Day + time \in past
  BY <1>0
<1>2. past \in SUBSET Int /\ \A c \in past : c <= t
  BY <1>0
<1>3. next = Latest(past)
  BY <1>1, Zenon DEF CalendarNext
<1>4. Latest(past) \in past /\ Latest(past) >= d * Day + time
  <2> HIDE DEF past
  <2> QED BY <1>1, <1>2, LatestIsOne
<1>5. \A c \in past : c \in Int /\ c < t
  BY <1>2
<1> HIDE DEF past, next
<1> QED BY <1>0, <1>3, <1>4, <1>5 DEF next

\* The instant after which a tick at `now` leaves nothing unhandled.
Reached == LET next == ComputeNextRunAt(job, last, now)
           IN  IF next # NoTime /\ next <= now THEN next ELSE last

Collapsing == /\ job.schedule.kind \in {"once", "daily", "weekly"}
              /\ job.missed_run = "run_once"

LEMMA NothingOlder ==
  ASSUME TimerInv, Collapsing, NEW o \in Missed(now - 1)
  PROVE  o <= Reached
<1> DEFINE s    == job.schedule
           next == ComputeNextRunAt(job, last, now)
<1>0. /\ job.enabled /\ job.created \in Nat /\ IsSchedule(s) /\ now \in 0..MaxNow
      /\ last \in Times /\ MaxNow \in Nat /\ Day \in Nat \ {0} /\ WeekLength \in Nat \ {0}
      /\ WindowDays \in Nat
  BY TimerAssumption, ClockAssumption, ScheduleAssumption DEF TimerInv, TimerTypeOK
<1>1. /\ o \in Occurrences /\ o \in 0..MaxNow /\ o >= job.created /\ o < now
  BY <1>0, OccurrencesInTime DEF Missed
<1>2. SUFFICES ASSUME last < o PROVE next \in Int /\ o <= next /\ next <= now /\ next # NoTime
  <2>1. last >= o => o <= Reached
    <3> HAVE last >= o
    <3>1. CASE next # NoTime /\ next <= now
      <4>1. next \in 0..MaxNow
        BY <3>1, NextOccurs, OccurrencesInTime DEF TimerInv
      <4>2. last \in Nat
        BY <1>0, <1>1 DEF Times, NoTime
      <4>3. next > last
        BY <1>0, <4>1, <4>2, NextIsLater
      <4>4. Reached = next
        BY <3>1, Zenon DEF Reached
      <4> HIDE DEF next
      <4> QED BY <1>1, <4>1, <4>2, <4>3, <4>4
    <3>2. CASE ~(next # NoTime /\ next <= now)
      BY <3>2 DEF Reached
    <3> QED BY <3>1, <3>2
  <2>2. last < o \/ last >= o
    BY <1>0, <1>1 DEF Times, NoTime
  <2>3. (next # NoTime /\ next <= now) => Reached = next
    BY DEF Reached
  <2> QED BY <2>1, <2>2, <2>3
<1>3. CASE s.kind = "once"
  <2>1. o = s.at
    BY <1>1, <1>3 DEF Occurrences
  <2>2. last = NoTime
    <3> SUFFICES ASSUME last # NoTime PROVE FALSE
      OBVIOUS
    <3>1. last = s.at
      BY <1>3 DEF TimerInv, RunsOnSchedule, Occurrences
    <3> QED BY <1>1, <1>2, <2>1, <3>1
  <2>3. next = OnceNext(s.at, last, now, job.created, job.missed_run)
    BY <1>0, <1>3, Zenon DEF ComputeNextRunAt
  <2>4. next = s.at
    BY <1>0, <1>1, <2>1, <2>2, <2>3 DEF OnceNext, Collapsing
  <2> QED BY <1>0, <1>1, <2>1, <2>4 DEF NoTime
<1>4. ASSUME NEW days \in SUBSET Int, s.time \in Int,
             NEW d \in days, d * Day + s.time >= o, d * Day + s.time < now,
             next = CalendarNext(days, s.time, last, now, job.created, job.missed_run)
      PROVE  next \in Int /\ o <= next /\ next <= now /\ next # NoTime
  <2>1. last \in Int /\ now \in Int /\ job.created \in Int /\ o \in Int
    BY <1>0, <1>1 DEF Times, NoTime
  <2>2. next \in Int /\ next >= o /\ next < now
    <3>1. job.missed_run = "run_once"
      BY DEF Collapsing
    <3> HIDE DEF next, s
    <3> QED BY <1>1, <1>2, <1>4, <2>1, <3>1, PastCovers
  <2> HIDE DEF next
  <2> QED BY <1>1, <2>1, <2>2 DEF NoTime
<1> DEFINE today == Today(now)
           day   == o \div Day
<1>5. ASSUME s.kind \in {"daily", "weekly"}
      PROVE  /\ s.time \in 0..Day-1 /\ today \in Int /\ day \in Int
             /\ o = day * Day + s.time /\ day <= today
             /\ today * Day <= now /\ now < today * Day + Day
  <2>1. s.time \in 0..Day-1
    BY <1>0, <1>5 DEF IsSchedule
  <2>2. s.time = o % Day
    BY <1>1, <1>5 DEF Occurrences
  <2>3. today \in Int /\ Day * today <= now /\ now < Day * today + Day
    BY <1>0, QuotientBounds DEF Today
  <2>4. day \in Int /\ o = day * Day + s.time
    BY <1>0, <1>1, <2>2, Division, QuotientBounds
  <2> HIDE DEF today, day, s
  <2>5. day <= today
    <3> SUFFICES ASSUME day > today PROVE FALSE
      BY <2>3, <2>4
    <3>1. day >= today + 1
      BY <2>3, <2>4
    <3>2. day * Day >= (today + 1) * Day
      BY <1>0, <2>3, <2>4, <3>1
    <3>3. (today + 1) * Day = Day * today + Day
      BY <1>0, <2>3
    <3>4. day * Day \in Int
      BY <1>0, <2>4
    <3> QED BY <1>0, <1>1, <2>1, <2>3, <2>4, <3>2, <3>3, <3>4
  <2> QED BY <1>0, <2>1, <2>3, <2>4, <2>5
<1>6. CASE s.kind = "daily"
  <2> DEFINE days == (today - 1)..(today + WindowDays)
  <2>1. next = CalendarNext(days, s.time, last, now, job.created, job.missed_run)
    BY <1>0, <1>6 DEF ComputeNextRunAt, DailyNext
  <2>2. days \in SUBSET Int /\ s.time \in Int
    BY <1>5, <1>6
  <2>3. \E d \in days : d * Day + s.time >= o /\ d * Day + s.time < now
    <3> HIDE DEF today, day, s
    <3>1. CASE day >= today - 1
      BY <1>0, <1>1, <1>5, <1>6, <3>1
    <3>2. CASE day < today - 1
      <4>0. today - 1 \in Int /\ day \in Int /\ day <= today - 1
        BY <1>5, <1>6, <3>2
      <4>1. (today - 1) * Day >= day * Day
        BY <1>0, <4>0, MultiplyOrder
      <4>2. (today - 1) * Day + Day = today * Day
        BY <1>0, <1>5, <1>6
      <4>3. (today - 1) * Day \in Int /\ day * Day \in Int /\ today * Day \in Int
        BY <1>0, <1>5, <1>6
      <4>4. (today - 1) * Day + s.time >= o /\ (today - 1) * Day + s.time < now
        BY <1>0, <1>5, <1>6, <4>1, <4>2, <4>3
      <4>5. today - 1 \in days
        BY <1>0, <1>5, <1>6
      <4> QED BY <4>4, <4>5
    <3> QED BY <1>5, <1>6, <3>1, <3>2
  <2> HIDE DEF days, next
  <2> QED BY <1>4, <2>1, <2>2, <2>3
<1>7. CASE s.kind = "weekly"
  <2> DEFINE days == {d \in (today - WeekLength)..(today + WindowDays) :
                        d % WeekLength \in s.weekdays}
  <2>1. next = CalendarNext(days, s.time, last, now, job.created, job.missed_run)
    BY <1>0, <1>7 DEF ComputeNextRunAt, WeeklyNext
  <2>2. days \in SUBSET Int /\ s.time \in Int
    BY <1>5, <1>7
  <2>3. day % WeekLength \in s.weekdays
    BY <1>1, <1>7 DEF Occurrences
  <2>4. \E d \in days : d * Day + s.time >= o /\ d * Day + s.time < now
    <3>1. CASE day >= today - WeekLength
      <4>1. day \in days
        BY <1>0, <1>5, <1>7, <2>3, <3>1
      <4> HIDE DEF days, today, day, s
      <4> QED BY <1>1, <1>5, <1>7, <4>1
    <3>2. CASE day < today - WeekLength
      <4> DEFINE m == (today - 1 - day) \div WeekLength
                 e == day + m * WeekLength
      <4>1. m \in Int /\ WeekLength * m <= today - 1 - day
            /\ today - 1 - day < WeekLength * m + WeekLength
        <5> DEFINE gap == today - 1 - day
        <5>1. gap \in Int
          BY <1>5, <1>7
        <5> HIDE DEF gap
        <5>2. gap \div WeekLength \in Int /\ WeekLength * (gap \div WeekLength) <= gap
              /\ gap < WeekLength * (gap \div WeekLength) + WeekLength
          BY <1>0, <5>1, QuotientBounds
        <5> QED BY <5>2 DEF gap
      <4> HIDE DEF m
      <4>2. e \in Int /\ e <= today - 1 /\ e >= today - WeekLength
        <5> HIDE DEF today, day
        <5>1. m * WeekLength = WeekLength * m /\ m * WeekLength \in Int
          BY <1>0, <4>1
        <5> QED BY <1>0, <1>5, <1>7, <4>1, <5>1
      <4>3. e % WeekLength = day % WeekLength
        BY <1>0, <1>5, <1>7, <4>1, ShiftRemainder
      <4>4. e \in days
        <5> HIDE DEF e, day, today, s
        <5> QED BY <1>0, <1>5, <1>7, <2>3, <4>2, <4>3
      <4>5. e >= day
        BY <1>0, <1>5, <1>7, <3>2, <4>2
      <4> HIDE DEF e, day, today, s
      <4>6. e * Day >= day * Day /\ e * Day + Day <= today * Day
        <5>1. (e + 1) * Day <= today * Day
          BY <1>0, <1>5, <1>7, <4>2
        <5>2. (e + 1) * Day = e * Day + Day
          BY <1>0, <4>2
        <5>3. e * Day >= day * Day
          BY <1>0, <1>5, <1>7, <4>2, <4>5
        <5> QED BY <5>1, <5>2, <5>3
      <4>7. e * Day \in Int /\ day * Day \in Int /\ today * Day \in Int
        BY <1>0, <1>5, <1>7, <4>2
      <4>8. e * Day + s.time >= o /\ e * Day + s.time < now
        BY <1>0, <1>5, <1>7, <4>6, <4>7
      <4> QED BY <4>4, <4>8
    <3> QED BY <1>0, <1>5, <1>7, <3>1, <3>2
  <2> HIDE DEF days, next
  <2> QED BY <1>4, <2>1, <2>2, <2>4
<1> QED BY <1>3, <1>6, <1>7 DEF Collapsing

LEMMA TickReaches == ASSUME TimerInv, Tick PROVE last' = Reached
<1> DEFINE next == ComputeNextRunAt(job, last, now)
<1>1. CASE next # NoTime /\ next <= now
  <2>1. next \in 0..MaxNow
    BY <1>1, NextOccurs, OccurrencesInTime DEF TimerInv
  <2>2. now \in 0..MaxNow /\ MaxNow \in Nat
    BY TimerAssumption, ClockAssumption DEF TimerInv, TimerTypeOK
  <2>3. ~(next = NoTime \/ next > now)
    <3> HIDE DEF next
    <3> QED BY <1>1, <2>1, <2>2
  <2> QED BY <1>1, <2>3, Zenon DEF Tick, Reached
<1>2. CASE ~(next # NoTime /\ next <= now)
  BY <1>2, Zenon DEF Tick, Reached
<1> QED BY <1>1, <1>2

LEMMA BacklogStep ==
  ASSUME TimerInv, CalendarBacklogCollapses, TimerNext
  PROVE  CalendarBacklogCollapses'
<1>1. CASE Tick
  <2>1. job' = job /\ lastTick' = now
    BY <1>1 DEF Tick
  <2>2. SUFFICES ASSUME Collapsing, NEW o \in Missed(now - 1)
                 PROVE  o <= last'
    <3>1. Missed(lastTick - 1)' = Missed(now - 1)
      BY <2>1, OccurrencesStay DEF Missed
    <3> QED BY <2>1, <3>1 DEF CalendarBacklogCollapses, Collapsing
  <2> QED BY <1>1, <2>2, TickReaches, NothingOlder, Zenon
<1>2. CASE TimerAdvance \/ StopService \/ StartService
  <2>1. UNCHANGED <<job, lastTick, last>>
    BY <1>2 DEF TimerAdvance, ClockAdvances, StopService, StartService
  <2>2. Missed(lastTick - 1)' = Missed(lastTick - 1)
    BY <2>1, OccurrencesStay DEF Missed
  <2> QED BY <2>1, <2>2 DEF CalendarBacklogCollapses
<1> QED BY <1>1, <1>2 DEF TimerNext

\* However long the service was down and however wide the window of the search is,
\* a tick under run_once leaves no missed occurrence of a calendar task behind the one
\* it hands out: at most one run makes up for the backlog.
THEOREM BacklogCollapses == TimerSpec => []CalendarBacklogCollapses
<1>1. TimerInit => CalendarBacklogCollapses
  BY DEF TimerInit, CalendarBacklogCollapses
<1>2. TimerInv /\ CalendarBacklogCollapses /\ [TimerNext]_timerVars => CalendarBacklogCollapses'
  <2>1. ASSUME TimerInv, CalendarBacklogCollapses, TimerNext PROVE CalendarBacklogCollapses'
    BY <2>1, BacklogStep, Zenon
  <2>2. ASSUME CalendarBacklogCollapses, UNCHANGED timerVars PROVE CalendarBacklogCollapses'
    <3>1. UNCHANGED <<job, lastTick, last>>
      BY <2>2 DEF timerVars
    <3>2. Missed(lastTick - 1)' = Missed(lastTick - 1)
      BY <3>1, OccurrencesStay DEF Missed
    <3> QED BY <2>2, <3>1, <3>2 DEF CalendarBacklogCollapses
  <2> QED BY <2>1, <2>2
<1> QED BY <1>1, <1>2, TimerInvAlways, PTL DEF TimerSpec

-----------------------------------------------------------------------------
(* The service *)

\* A run whose thread has not recorded its start has left no trace anywhere.
FreshRuns ==
  \A r \in RunIds :
    /\ thread[r] \in {"free", "spawned"} => runLog[r] = NoLog
    /\ thread[r] \in {"free", "spawned", "started"} =>
         /\ r \notin runningRuns
         /\ \A by \in Finishers : <<r, by>> \notin saving
         /\ runLog[r].service = 0
    /\ thread[r] # "over" => turn[r] = "none"

\* The running mark of a job names a run of that job that nobody has ended.
MarksAreOwn ==
  \A j \in JobIds, r \in RunIds :
    runState[j].running = r => /\ runs[r].job = j
                               /\ runLog[r].job = j
                               /\ runLog[r].service = 0
                               /\ runLog[r].expiry = 0

\* Whatever the service still knows of a run, its start is in the log.
KnownRunsStarted ==
  \A r \in RunIds :
    (\/ thread[r] \in {"started", "registered"}
     \/ r \in runningRuns
     \/ turn[r] # "none"
     \/ \E by \in Finishers : <<r, by>> \in saving
     \/ Ends(r) > 0)
      => runLog[r].job = runs[r].job

\* A run is registered, or has one end waiting to be appended, or neither; in
\* the first two cases the service has not recorded an end yet.
OneEndEach ==
  \A r \in RunIds :
    /\ runLog[r].service <= 1
    /\ runLog[r].expiry <= 1
    /\ r \in runningRuns =>
         /\ runLog[r].service = 0
         /\ \A by \in Finishers : <<r, by>> \notin saving
    /\ \A by \in Finishers : <<r, by>> \in saving =>
         /\ runLog[r].service = 0
         /\ \A other \in Finishers : <<r, other>> \in saving => other = by

Holds(r, j) ==
  /\ runs[r].job = j
  /\ thread[r] \in {"spawned", "started"} \/ r \in runningRuns

\* While a job is undisturbed its mark is exact: whoever holds it is in
\* running_jobs and is alone, and a run that could still take the mark away by
\* ending is registered.
MarkIsExact ==
  \A j \in JobIds : j \notin disturbed =>
    /\ \A r \in RunIds : Holds(r, j) => j \in runningJobs
    /\ \A r, s \in RunIds : Holds(r, j) /\ Holds(s, j) => r = s
    /\ \A r \in RunIds :
         (runs[r].job = j /\ (thread[r] = "registered" \/ turn[r] = "active"))
           => r \in runningRuns

IInv == TypeOK /\ FreshRuns /\ MarksAreOwn /\ KnownRunsStarted /\ OneEndEach /\ MarkIsExact

-----------------------------------------------------------------------------
\* The store operators keep the types of what they append to.
LEMMA CloseRunType ==
  ASSUME NEW state \in StateRecord, NEW r
  PROVE  CloseRun(state, r) \in StateRecord
BY DEF CloseRun, StateRecord

LEMMA ExpireType ==
  ASSUME StoreTypeOK, NEW active, NEW t, FinishExpiredRunningRuns(active, t)
  PROVE  /\ runState' \in [JobIds -> StateRecord]
         /\ runLog' \in [RunIds -> LogRecord]
<1>1. \A j \in JobIds : CloseRun(runState[j], runState[j].running) \in StateRecord
  BY CloseRunType DEF StoreTypeOK
<1>2. \A r \in RunIds : [runLog[r] EXCEPT !.expiry = @ + 1] \in LogRecord
  BY DEF StoreTypeOK, LogRecord
<1> QED
  BY <1>1, <1>2 DEF FinishExpiredRunningRuns, StoreTypeOK

LEMMA SkipType ==
  ASSUME StoreTypeOK, NEW j \in JobIds, NEW t \in Nat, AppendSkipped(j, t)
  PROVE  runState' \in [JobIds -> StateRecord]
<1>1. [runState[j] EXCEPT !.last = t] \in StateRecord
  BY DEF StoreTypeOK, StateRecord, Times
<1>2. runState' = [runState EXCEPT ![j] = [runState[j] EXCEPT !.last = t]]
  BY DEF AppendSkipped, StoreTypeOK
<1> QED
  BY <1>1, <1>2 DEF AppendSkipped, StoreTypeOK

LEMMA StartType ==
  ASSUME StoreTypeOK, NEW j \in JobIds, NEW r \in RunIds, NEW t \in Nat,
         AppendStarted(j, r, t)
  PROVE  /\ runState' \in [JobIds -> StateRecord]
         /\ runLog' \in [RunIds -> LogRecord]
<1>1. [last |-> t, startedAt |-> now, running |-> r] \in StateRecord
  BY DEF StoreTypeOK, StateRecord, Times
<1>2. [runLog[r] EXCEPT !.job = j] \in LogRecord
  BY DEF StoreTypeOK, LogRecord
<1> QED
  BY <1>1, <1>2 DEF AppendStarted, StoreTypeOK

LEMMA UpdateType ==
  ASSUME StoreTypeOK, NEW j \in JobIds, NEW base, NEW def \in JobDefs, UpdateJob(j, base, def)
  PROVE  jobs' \in [JobIds -> JobRecord]
<1>1. ASSUME NEW task \in JobRecord
      PROVE  [task EXCEPT !.revision = task.revision + 1] \in JobRecord
  BY DEF JobRecord
<1>2. ASSUME NEW task \in JobRecord
      PROVE  [task EXCEPT !.def = def] \in JobRecord
  BY DEF JobRecord
<1> DEFINE moved == [jobs EXCEPT ![j].revision = @ + 1]
<1>3. moved \in [JobIds -> JobRecord]
  BY <1>1 DEF StoreTypeOK
<1>4. [moved EXCEPT ![j].def = def] \in [JobIds -> JobRecord]
  <2> HIDE DEF moved
  <2> QED
    BY <1>2, <1>3
<1> QED
  BY <1>4 DEF UpdateJob

\* The initial state is well typed.
LEMMA TypeInit == Init => TypeOK
<1>1. (CHOOSE j \in JobIds : TRUE) \in JobIds
  BY StoreAssumption
<1>2. (CHOOSE d \in JobDefs : TRUE) \in JobDefs
  BY StoreAssumption
<1> QED
  BY <1>1, <1>2 DEF Init, StoreInit, TypeOK, StoreTypeOK, JobRecord, StateRecord,
     LogRecord, NoState, NoLog, RunRecord, Idle, Times, NoTime, ViewRecord

\* Every step keeps the state well typed.
LEMMA TypeStep == TypeOK /\ [Next]_vars => TypeOK'
<1> SUFFICES ASSUME TypeOK, [Next]_vars
             PROVE  TypeOK'
  OBVIOUS
<1> USE DEF TypeOK, StoreTypeOK, serviceVars, storeVars, Times
<1>1. CASE Advance
  BY <1>1 DEF Advance, ClockAdvances
<1>2. CASE EditJobs
  <2>1. ASSUME NEW j \in JobIds, NEW def \in JobDefs, CreateJob(j, def)
        PROVE  jobs' \in [JobIds -> JobRecord] /\ UNCHANGED <<now, runState, runLog>>
    BY <2>1 DEF CreateJob, JobRecord
  <2>2. ASSUME NEW j \in JobIds, NEW def \in JobDefs, NEW base, UpdateJob(j, base, def)
        PROVE  jobs' \in [JobIds -> JobRecord] /\ UNCHANGED <<now, runState, runLog>>
    BY <2>2, UpdateType DEF UpdateJob
  <2>3. ASSUME NEW j \in JobIds, NEW base, DeleteJob(j, base)
        PROVE  jobs' \in [JobIds -> JobRecord] /\ UNCHANGED <<now, runState, runLog>>
    BY <2>3 DEF DeleteJob, JobRecord
  <2> QED
    BY <1>2, <2>1, <2>2, <2>3 DEF EditJobs, JobsNext
<1>3. CASE TickNext
  <2>1. CASE TickBegin
    BY <2>1 DEF TickBegin, Idle
  <2>2. CASE TickExpire
    BY <2>2, ExpireType DEF TickExpire
  <2>3. CASE TickSnapshot
    <3>1. \A j \in JobIds : NextRunAt(j, tick.now) \in 0..tick.now
                              => View(j, tick.now) \in ViewRecord
      BY DEF View, ViewRecord, JobRecord, StateRecord
    <3> DEFINE views == {View(j, tick.now) : j \in {k \in JobIds : /\ Live(k)
                                       /\ NextRunAt(k, tick.now) \in 0..tick.now
                                       /\ tick.now <= Horizon}}
    <3>2. views \subseteq ViewRecord
      BY <3>1
    <3>3. tick' = Idle \/ tick' = [tick EXCEPT !.pc = "dispatch", !.views = views]
      BY <2>3, Zenon DEF TickSnapshot
    <3>4. tick' = Idle \/ tick' = [pc |-> "dispatch", now |-> tick.now,
                                  active |-> tick.active, views |-> views]
      BY <3>3
    <3> HIDE DEF views
    <3>5. tick' \in [pc : {"idle", "expire", "snapshot", "dispatch", "skip"}, now : Nat,
                     active : SUBSET RunIds, views : SUBSET ViewRecord]
      BY <3>2, <3>4 DEF Idle
    <3>6. UNCHANGED <<storeVars, runningJobs, runningRuns, runs, thread, watch, turn, saving,
                      disturbed, restarts, storeErrors>> /\ overtaken' \subseteq JobIds
      BY <2>3 DEF TickSnapshot
    <3> QED
      BY <3>5, <3>6
  <2>4. \A v : Done(v) \in
          [pc : {"idle", "expire", "snapshot", "dispatch", "skip"}, now : Nat,
           active : SUBSET RunIds, views : SUBSET ViewRecord]
    BY DEF Done, Idle
  <2>5. CASE TickFails
    BY <2>5 DEF TickFails, StoreError, Idle
  <2>6. ASSUME NEW v \in tick.views,
               \/ TickSkipOrphan(v) \/ TickBusy(v) \/ TickSkipBusy(v) \/ TickNoIdLeft(v)
               \/ \E r \in RunIds : TickDispatch(v, r)
        PROVE  TypeOK'
    <3>1. v \in ViewRecord
      OBVIOUS
    <3>2. CASE TickSkipOrphan(v)
      BY <3>1, <3>2, <2>4, SkipType DEF TickSkipOrphan, ViewRecord
    <3>3. CASE TickBusy(v)
      BY <3>3 DEF TickBusy
    <3>4. CASE TickSkipBusy(v)
      BY <3>1, <3>4, <2>4, SkipType DEF TickSkipBusy, ViewRecord
    <3>5. CASE TickNoIdLeft(v)
      BY <2>4, <3>5 DEF TickNoIdLeft
    <3>6. ASSUME NEW r \in RunIds, TickDispatch(v, r)
          PROVE  TypeOK'
      <4>1. runs' \in [RunIds -> RunRecord]
        BY <3>1, <3>6 DEF TickDispatch, RunRecord, ViewRecord
      <4>2. thread' \in [RunIds -> {"free", "spawned", "started", "registered", "over"}]
        BY <3>6 DEF TickDispatch
      <4>3. runningJobs' \subseteq JobIds /\ disturbed' \subseteq JobIds
        BY <3>1, <3>6 DEF TickDispatch, ViewRecord
      <4> QED
        BY <2>4, <3>6, <4>1, <4>2, <4>3 DEF TickDispatch
    <3> QED
      BY <2>6, <3>2, <3>3, <3>4, <3>5, <3>6
  <2> QED
    BY <1>3, <2>1, <2>2, <2>3, <2>4, <2>5, <2>6 DEF TickNext
<1>4. ASSUME NEW r \in RunIds, RunNext(r)
      PROVE  TypeOK'
  <2>1. CASE ThreadStart(r)
    <3>1. runState' \in [JobIds -> StateRecord] /\ runLog' \in [RunIds -> LogRecord]
      BY <2>1, StartType DEF ThreadStart, RunRecord
    <3> QED
      BY <2>1, <3>1 DEF ThreadStart
  <2>2. CASE ThreadStartFails(r)
    BY <2>2 DEF ThreadStartFails, StoreError
  <2>3. CASE ThreadRegister(r)
    <3>1. runs[r].def.timeout \in Nat
      BY StoreAssumption DEF RunRecord, JobDef
    <3>2. runs' \in [RunIds -> RunRecord]
      BY <2>3, <3>1 DEF ThreadRegister, RunRecord
    <3> QED
      BY <2>3, <3>2 DEF ThreadRegister
  <2>4. CASE ThreadSubmit(r)
    BY <2>4 DEF ThreadSubmit
  <2>5. CASE ThreadSubmitEnds(r)
    BY <2>5 DEF ThreadSubmitEnds, Forget, Finishers
  <2>6. CASE WatchWake(r)
    BY <2>6 DEF WatchWake
  <2>7. CASE WatchFire(r)
    BY <2>7 DEF WatchFire, Forget, Finishers, RunRecord
  <2>8. CASE TurnEnd(r)
    BY <2>8 DEF TurnEnd, Forget, Finishers
  <2>9. ASSUME NEW by \in Finishers, SaveEnd(r, by)
        PROVE  TypeOK'
    <3>1. CASE AppendFinished(runs[r].job, r) /\ UNCHANGED <<now, jobs, storeErrors>>
      <4>1. runState' \in [JobIds -> StateRecord]
        BY <3>1, CloseRunType DEF AppendFinished, RunRecord
      <4>2. runLog' \in [RunIds -> LogRecord]
        BY <3>1 DEF AppendFinished, LogRecord
      <4> QED
        BY <2>9, <3>1, <4>1, <4>2 DEF SaveEnd
    <3>2. CASE StoreError
      BY <2>9, <3>2 DEF SaveEnd, StoreError
    <3> QED
      BY <2>9, <3>1, <3>2 DEF SaveEnd
  <2> QED
    BY <1>4, <2>1, <2>2, <2>3, <2>4, <2>5, <2>6, <2>7, <2>8, <2>9 DEF RunNext
<1>5. CASE Restart
  BY <1>5 DEF Restart, Idle
<1>6. CASE UNCHANGED vars
  BY <1>6 DEF vars
<1> QED
  BY <1>1, <1>2, <1>3, <1>4, <1>5, <1>6 DEF Next

\* The state of the service and of the store stays well typed in every
\* behaviour, for any jobs, runs and bounds.
THEOREM TypeCorrect == Spec => []TypeOK
BY TypeInit, TypeStep, PTL DEF Spec

-----------------------------------------------------------------------------
\* What the invariant says beyond the types.
Bookkeeping == FreshRuns /\ MarksAreOwn /\ KnownRunsStarted /\ OneEndEach

\* The initial state satisfies the invariant: nothing has happened to any run.
LEMMA InvInit == Init => IInv
<1> SUFFICES ASSUME Init
             PROVE  IInv
  OBVIOUS
<1>1. TypeOK
  BY TypeInit
<1>2. \A r \in RunIds : /\ runLog[r] = NoLog
                        /\ thread[r] = "free"
                        /\ turn[r] = "none"
  BY DEF Init, StoreInit
<1>3. \A j \in JobIds : runState[j].running \notin RunIds
  BY StoreAssumption DEF Init, StoreInit, NoState
<1>4. runningRuns = {} /\ saving = {}
  BY DEF Init
<1>5. \A r \in RunIds : /\ runLog[r].service = 0
                        /\ runLog[r].expiry = 0
                        /\ Ends(r) = 0
  BY <1>2 DEF NoLog, Ends
<1> QED
  BY <1>1, <1>2, <1>3, <1>4, <1>5
     DEF IInv, FreshRuns, MarksAreOwn, KnownRunsStarted, OneEndEach, MarkIsExact, Holds

\* Steps that touch neither a run, nor a mark, nor the log keep the invariant.
LEMMA Frame ==
  ASSUME Bookkeeping, MarkIsExact,
         UNCHANGED <<runLog, thread, turn, runningRuns, runningJobs, saving, runs, disturbed>>,
         \A j \in JobIds : runState'[j].running = runState[j].running
  PROVE  Bookkeeping' /\ MarkIsExact'
<1>1. FreshRuns' /\ KnownRunsStarted' /\ OneEndEach' /\ MarkIsExact'
  BY DEF Bookkeeping, FreshRuns, KnownRunsStarted, OneEndEach, MarkIsExact, Holds, Ends
<1>2. MarksAreOwn'
  BY DEF Bookkeeping, MarksAreOwn
<1> QED
  BY <1>1, <1>2 DEF Bookkeeping

\* A skipped occurrence leaves every running mark alone.
LEMMA SkipKeepsMarks ==
  ASSUME StoreTypeOK, NEW j \in JobIds, NEW t \in Nat, AppendSkipped(j, t)
  PROVE  \A k \in JobIds : runState'[k].running = runState[k].running
BY DEF AppendSkipped, StoreTypeOK, StateRecord

\* Expiring orphans: each expired run has the mark of one job only.
LEMMA ExpireStep ==
  ASSUME TypeOK, Bookkeeping, MarkIsExact, TickExpire
  PROVE  Bookkeeping' /\ MarkIsExact'
<1> DEFINE expired == Expired(tick.active, tick.now)
<1> DEFINE Hit(r) == \E j \in expired : runState[j].running = r
<1> DEFINE Unended(r) == runLog[r].service = 0 /\ runLog[r].expiry = 0
<1>1. \A r \in RunIds : Hit(r) => \E j \in JobIds : /\ runState[j].running = r
                                                     /\ runs[r].job = j
                                                     /\ runLog[r].job = j
                                                     /\ runLog[r].expiry = 0
  BY DEF Bookkeeping, MarksAreOwn, Expired
<1>2. \A r \in RunIds : /\ runLog'[r].job = runLog[r].job
                        /\ runLog'[r].service = runLog[r].service
                        /\ Hit(r) => runLog'[r].expiry = runLog[r].expiry + 1
                        /\ ~Hit(r) => runLog'[r] = runLog[r]
  BY DEF TickExpire, FinishExpiredRunningRuns, TypeOK, StoreTypeOK, LogRecord
<1>3. \A j \in JobIds : /\ j \in expired => runState'[j].running \notin RunIds
                        /\ j \notin expired => runState'[j] = runState[j]
  <2>1. \A j \in JobIds : CloseRun(runState[j], runState[j].running).running = NoRun
    BY DEF CloseRun, TypeOK, StoreTypeOK, StateRecord
  <2> QED
    BY <2>1, StoreAssumption DEF TickExpire, FinishExpiredRunningRuns
<1>4. UNCHANGED <<thread, turn, runningRuns, runningJobs, saving, runs, disturbed>>
  BY DEF TickExpire
<1> HIDE DEF Hit
<1>5. FreshRuns'
  <2>1. \A r \in RunIds : runLog[r] = NoLog => ~Hit(r)
    BY <1>1, StoreAssumption DEF NoLog
  <2> QED
    BY <1>2, <1>4, <2>1 DEF Bookkeeping, FreshRuns
<1>6. MarksAreOwn'
  <2>1. ASSUME NEW j \in JobIds, NEW r \in RunIds, runState'[j].running = r
        PROVE  runs[r].job = j /\ runLog[r].job = j /\ Unended(r) /\ ~Hit(r)
    <3>1. j \notin expired /\ runState[j].running = r
      BY <1>3, <2>1
    <3>2. runs[r].job = j /\ runLog[r].job = j /\ Unended(r)
      BY <3>1 DEF Bookkeeping, MarksAreOwn
    <3>3. ASSUME NEW k \in expired, runState[k].running = r
          PROVE  FALSE
      BY <3>1, <3>2, <3>3 DEF Bookkeeping, MarksAreOwn, Expired
    <3> QED
      BY <3>2, <3>3 DEF Hit
  <2> QED
    BY <1>2, <1>4, <2>1 DEF MarksAreOwn
<1>7. KnownRunsStarted'
  <2>1. ASSUME NEW r \in RunIds, ~Hit(r)
        PROVE  Ends(r)' = Ends(r)
    BY <1>2, <2>1 DEF Ends
  <2> QED
    BY <1>1, <1>2, <1>4, <2>1 DEF Bookkeeping, KnownRunsStarted
<1>8. OneEndEach'
  BY <1>1, <1>2, <1>4 DEF Bookkeeping, OneEndEach
<1>9. MarkIsExact'
  BY <1>4 DEF MarkIsExact, Holds
<1> QED
  BY <1>5, <1>6, <1>7, <1>8, <1>9 DEF Bookkeeping

\* A dispatched run takes the mark of its job, or the job counts as disturbed.
LEMMA DispatchStep ==
  ASSUME TypeOK, Bookkeeping, MarkIsExact,
         NEW v \in tick.views, NEW r \in RunIds, TickDispatch(v, r)
  PROVE  Bookkeeping' /\ MarkIsExact'
<1>1. v.job \in JobIds
  BY DEF TypeOK, ViewRecord
<1>2. /\ runLog[r] = NoLog
      /\ r \notin runningRuns
      /\ \A by \in Finishers : <<r, by>> \notin saving
      /\ turn[r] = "none"
  BY DEF TickDispatch, Bookkeeping, FreshRuns
<1>3. Ends(r) = 0 /\ runLog[r].job \notin JobIds
  BY <1>2, StoreAssumption DEF NoLog, Ends
<1>4. UNCHANGED <<runLog, runState, turn, runningRuns, saving>>
  BY DEF TickDispatch, storeVars
<1>5. /\ runs'[r].job = v.job /\ thread'[r] = "spawned"
      /\ \A s \in RunIds : s # r => runs'[s] = runs[s] /\ thread'[s] = thread[s]
  BY DEF TickDispatch, TypeOK
<1>6. FreshRuns'
  BY <1>2, <1>4, <1>5 DEF Bookkeeping, FreshRuns, NoLog
<1>7. MarksAreOwn'
  BY <1>3, <1>4, <1>5 DEF Bookkeeping, MarksAreOwn
<1>8. KnownRunsStarted'
  <2>1. ASSUME NEW s \in RunIds,
               \/ thread'[s] \in {"started", "registered"}
               \/ s \in runningRuns
               \/ turn[s] # "none"
               \/ \E by \in Finishers : <<s, by>> \in saving
               \/ Ends(s) > 0
        PROVE  runLog[s].job = runs'[s].job
    <3>1. s # r
      <4>1. ~(Ends(r) > 0) /\ thread'[r] \notin {"started", "registered"}
        BY <1>3, <1>5
      <4> QED
        BY <1>2, <2>1, <4>1
    <3> QED
      BY <1>5, <2>1, <3>1 DEF Bookkeeping, KnownRunsStarted
  <2> QED
    BY <1>4, <2>1 DEF KnownRunsStarted, Ends
<1>9. OneEndEach'
  BY <1>4 DEF Bookkeeping, OneEndEach
<1>10. MarkIsExact'
  <2>1. CASE v.def.overlap = "parallel" /\ disturbed' = disturbed \cup {v.job}
                                        /\ runningJobs' = runningJobs
    BY <1>2, <1>4, <1>5, <2>1 DEF MarkIsExact, Holds
  <2>2. CASE v.job \notin runningJobs /\ runningJobs' = runningJobs \cup {v.job}
                                      /\ disturbed' = disturbed
    BY <1>1, <1>2, <1>4, <1>5, <2>2 DEF MarkIsExact, Holds
  <2> QED
    BY <2>1, <2>2 DEF TickDispatch
<1> QED
  BY <1>6, <1>7, <1>8, <1>9, <1>10 DEF Bookkeeping

\* Recording the start of a run: no job had its id as a mark before.
LEMMA StartStep ==
  ASSUME TypeOK, Bookkeeping, MarkIsExact, NEW r \in RunIds, ThreadStart(r)
  PROVE  Bookkeeping' /\ MarkIsExact'
<1> DEFINE j == runs[r].job
<1>1. j \in JobIds
  BY DEF TypeOK, RunRecord
<1>2. /\ thread[r] = "spawned"
      /\ runLog[r] = NoLog
      /\ r \notin runningRuns
      /\ \A by \in Finishers : <<r, by>> \notin saving
      /\ turn[r] = "none"
  BY DEF ThreadStart, Bookkeeping, FreshRuns
<1>3. runLog[r].job \notin JobIds /\ runLog[r].service = 0 /\ runLog[r].expiry = 0
  BY <1>2, StoreAssumption DEF NoLog
<1>4. UNCHANGED <<turn, runningRuns, runningJobs, saving, runs, disturbed>>
  BY DEF ThreadStart
<1>5. /\ thread'[r] = "started"
      /\ \A s \in RunIds : s # r => thread'[s] = thread[s]
  BY DEF ThreadStart, TypeOK
<1>6. /\ runLog'[r].job = j /\ runLog'[r].service = 0 /\ runLog'[r].expiry = 0
      /\ \A s \in RunIds : s # r => runLog'[s] = runLog[s]
  BY <1>3 DEF ThreadStart, AppendStarted, TypeOK, StoreTypeOK, LogRecord
<1>7. /\ runState'[j].running = r
      /\ \A k \in JobIds : k # j => runState'[k] = runState[k]
  BY <1>1 DEF ThreadStart, AppendStarted, TypeOK, StoreTypeOK
<1> HIDE DEF j
<1>8. runs[r].job = j
  BY DEF j
<1>9. FreshRuns'
  BY <1>2, <1>4, <1>5, <1>6 DEF Bookkeeping, FreshRuns
<1>10. MarksAreOwn'
  BY <1>3, <1>4, <1>6, <1>7, <1>8 DEF Bookkeeping, MarksAreOwn
<1>11. KnownRunsStarted'
  <2>1. \A s \in RunIds : s # r => Ends(s)' = Ends(s)
    BY <1>6 DEF Ends
  <2> QED
    BY <1>4, <1>5, <1>6, <1>8, <2>1 DEF Bookkeeping, KnownRunsStarted
<1>12. OneEndEach'
  BY <1>2, <1>4, <1>6 DEF Bookkeeping, OneEndEach
<1>13. MarkIsExact'
  BY <1>2, <1>4, <1>5 DEF MarkIsExact, Holds
<1> QED
  BY <1>9, <1>10, <1>11, <1>12, <1>13 DEF Bookkeeping

\* A run whose start could not be recorded leaves nothing behind.
LEMMA StartFailsStep ==
  ASSUME TypeOK, Bookkeeping, MarkIsExact, NEW r \in RunIds, ThreadStartFails(r)
  PROVE  Bookkeeping' /\ MarkIsExact'
<1>1. /\ thread[r] = "spawned"
      /\ r \notin runningRuns
      /\ turn[r] = "none"
  BY DEF ThreadStartFails, Bookkeeping, FreshRuns
<1>2. UNCHANGED <<runLog, runState, turn, runningRuns, saving, runs, disturbed>>
  BY DEF ThreadStartFails, StoreError, storeVars
<1>3. /\ thread'[r] = "free"
      /\ \A s \in RunIds : s # r => thread'[s] = thread[s]
  BY DEF ThreadStartFails, TypeOK
<1>4. FreshRuns' /\ OneEndEach'
  BY <1>1, <1>2, <1>3 DEF Bookkeeping, FreshRuns, OneEndEach
<1>5. MarksAreOwn'
  BY <1>2 DEF Bookkeeping, MarksAreOwn
<1>6. KnownRunsStarted'
  BY <1>1, <1>2, <1>3 DEF Bookkeeping, KnownRunsStarted, Ends
<1>7. MarkIsExact'
  <2>1. runningJobs' = runningJobs \ {runs[r].job}
    BY DEF ThreadStartFails
  <2> QED
    BY <1>1, <1>2, <1>3, <2>1 DEF MarkIsExact, Holds
<1> QED
  BY <1>4, <1>5, <1>6, <1>7 DEF Bookkeeping

\* Registering a run that is in the log.
LEMMA RegisterStep ==
  ASSUME TypeOK, Bookkeeping, MarkIsExact, NEW r \in RunIds, ThreadRegister(r)
  PROVE  Bookkeeping' /\ MarkIsExact'
<1>1. /\ thread[r] = "started"
      /\ \A by \in Finishers : <<r, by>> \notin saving
      /\ runLog[r].service = 0
      /\ turn[r] = "none"
  BY DEF ThreadRegister, Bookkeeping, FreshRuns
<1>2. UNCHANGED <<runLog, runState, turn, runningJobs, saving, disturbed>>
  BY DEF ThreadRegister, storeVars
<1>3. runningRuns' = runningRuns \cup {r}
  BY DEF ThreadRegister
<1>4. /\ thread'[r] = "registered"
      /\ \A s \in RunIds : s # r => thread'[s] = thread[s]
  BY DEF ThreadRegister, TypeOK
<1>5. \A s \in RunIds : runs'[s].job = runs[s].job
  BY DEF ThreadRegister, TypeOK, RunRecord
<1>6. FreshRuns' /\ OneEndEach'
  BY <1>1, <1>2, <1>3, <1>4 DEF Bookkeeping, FreshRuns, OneEndEach
<1>7. MarksAreOwn'
  BY <1>2, <1>5 DEF Bookkeeping, MarksAreOwn
<1>8. KnownRunsStarted'
  BY <1>1, <1>2, <1>3, <1>4, <1>5 DEF Bookkeeping, KnownRunsStarted, Ends
<1>9. MarkIsExact'
  BY <1>1, <1>2, <1>3, <1>4, <1>5 DEF MarkIsExact, Holds
<1> QED
  BY <1>6, <1>7, <1>8, <1>9 DEF Bookkeeping

\* Handing a registered run to the agent.
LEMMA SubmitStep ==
  ASSUME TypeOK, Bookkeeping, MarkIsExact, NEW r \in RunIds, ThreadSubmit(r)
  PROVE  Bookkeeping' /\ MarkIsExact'
<1>1. thread[r] = "registered" /\ turn[r] = "none"
  BY DEF ThreadSubmit, Bookkeeping, FreshRuns
<1>2. UNCHANGED <<runLog, runState, runningRuns, runningJobs, saving, runs, disturbed>>
  BY DEF ThreadSubmit, storeVars
<1>3. /\ thread'[r] = "over" /\ turn'[r] = "active"
      /\ \A s \in RunIds : s # r => thread'[s] = thread[s] /\ turn'[s] = turn[s]
  BY DEF ThreadSubmit, TypeOK
<1>4. FreshRuns' /\ OneEndEach'
  BY <1>2, <1>3 DEF Bookkeeping, FreshRuns, OneEndEach
<1>5. MarksAreOwn'
  BY <1>2 DEF Bookkeeping, MarksAreOwn
<1>6. KnownRunsStarted'
  BY <1>1, <1>2, <1>3 DEF Bookkeeping, KnownRunsStarted, Ends
<1>7. MarkIsExact'
  BY <1>1, <1>2, <1>3 DEF MarkIsExact, Holds
<1> QED
  BY <1>4, <1>5, <1>6, <1>7 DEF Bookkeeping

\* Forgetting a run, by any of the three that may end it: an end is queued for
\* saving only when the run was still known.
LEMMA ForgetStep ==
  ASSUME TypeOK, Bookkeeping, NEW r \in RunIds, NEW by \in Finishers, Forget(r, by),
         UNCHANGED <<runLog, runState, runs>>,
         \A s \in RunIds : /\ thread'[s] \in {thread[s], "over"}
                           /\ turn'[s] = "none" <=> turn[s] = "none"
  PROVE  Bookkeeping'
<1>1. runningRuns' = runningRuns \ {r}
  BY DEF Forget
<1>2. \A s \in RunIds, f \in Finishers :
        <<s, f>> \in saving' => \/ <<s, f>> \in saving
                                \/ s = r /\ f = by /\ r \in runningRuns
  BY DEF Forget
<1>3. FreshRuns'
  BY <1>1, <1>2 DEF Bookkeeping, FreshRuns
<1>4. MarksAreOwn'
  BY DEF Bookkeeping, MarksAreOwn
<1>5. KnownRunsStarted'
  BY <1>1, <1>2 DEF Bookkeeping, KnownRunsStarted, Ends
<1>6. OneEndEach'
  BY <1>1, <1>2 DEF Bookkeeping, OneEndEach
<1> QED
  BY <1>3, <1>4, <1>5, <1>6 DEF Bookkeeping

\* While its job is undisturbed, the run that ends is the one holding the mark.
LEMMA EndOfHolder ==
  ASSUME TypeOK, MarkIsExact, NEW r \in RunIds, NEW by \in Finishers, Forget(r, by),
         UNCHANGED <<runs, disturbed>>,
         thread[r] = "registered" \/ turn[r] = "active",
         thread'[r] = "over" /\ turn'[r] # "active",
         \A s \in RunIds : s # r => thread'[s] = thread[s] /\ turn'[s] = turn[s]
  PROVE  MarkIsExact'
<1>1. /\ runningRuns' = runningRuns \ {r}
      /\ runningJobs' = runningJobs \ {runs[r].job}
  BY DEF Forget
<1>2. ASSUME NEW j \in JobIds, j \notin disturbed, NEW s \in RunIds,
             runs[r].job = j, runs[s].job = j,
             \/ thread[s] \in {"spawned", "started", "registered"}
             \/ s \in runningRuns
             \/ turn[s] = "active"
      PROVE  s = r
  <2>1. r \in runningRuns
    BY <1>2 DEF MarkIsExact
  <2>2. thread[s] \in {"spawned", "started"} \/ s \in runningRuns
    BY <1>2 DEF MarkIsExact
  <2> QED
    BY <1>2, <2>1, <2>2 DEF MarkIsExact, Holds
<1>3. ASSUME NEW j \in JobIds, j \notin disturbed, runs[r].job = j
      PROVE  \A s \in RunIds : /\ ~Holds(s, j)'
                               /\ runs'[s].job = j => /\ thread'[s] # "registered"
                                                      /\ turn'[s] # "active"
  BY <1>1, <1>2, <1>3 DEF Holds
<1>4. ASSUME NEW j \in JobIds, j \notin disturbed, runs[r].job # j
      PROVE  \A s \in RunIds :
               /\ Holds(s, j)' = Holds(s, j)
               /\ runs'[s].job = j => /\ thread'[s] = thread[s]
                                      /\ turn'[s] = turn[s]
                                      /\ s \in runningRuns' <=> s \in runningRuns
  BY <1>1, <1>4 DEF Holds
<1> QED
  BY <1>1, <1>3, <1>4 DEF MarkIsExact

\* A timeout disturbs its job and leaves the marks of the others alone.
LEMMA WatchStep ==
  ASSUME TypeOK, Bookkeeping, MarkIsExact, NEW r \in RunIds, WatchFire(r)
  PROVE  Bookkeeping' /\ MarkIsExact'
<1>1. Forget(r, "watch") /\ "watch" \in Finishers
  BY DEF WatchFire, Finishers
<1>2. UNCHANGED <<runLog, runState, runs, thread, turn>>
  BY DEF WatchFire, storeVars
<1>3. Bookkeeping'
  BY <1>1, <1>2, ForgetStep
<1>4. MarkIsExact'
  BY <1>1, <1>2 DEF WatchFire, Forget, MarkIsExact, Holds
<1> QED
  BY <1>3, <1>4

\* The executor ends the run it was given.
LEMMA SubmitEndsStep ==
  ASSUME TypeOK, Bookkeeping, MarkIsExact, NEW r \in RunIds, ThreadSubmitEnds(r)
  PROVE  Bookkeeping' /\ MarkIsExact'
<1>1. Forget(r, "thread") /\ "thread" \in Finishers
  BY DEF ThreadSubmitEnds, Finishers
<1>2. UNCHANGED <<runLog, runState, runs, turn, disturbed>>
  BY DEF ThreadSubmitEnds, storeVars
<1>3. /\ thread[r] = "registered" /\ turn[r] = "none" /\ thread'[r] = "over"
      /\ \A s \in RunIds : s # r => thread'[s] = thread[s]
  BY DEF ThreadSubmitEnds, TypeOK, Bookkeeping, FreshRuns
<1>4. Bookkeeping'
  BY <1>1, <1>2, <1>3, ForgetStep
<1>5. MarkIsExact'
  BY <1>1, <1>2, <1>3, EndOfHolder
<1> QED
  BY <1>4, <1>5

\* The agent's turn ends and the event bridge finishes its run.
LEMMA TurnEndStep ==
  ASSUME TypeOK, Bookkeeping, MarkIsExact, NEW r \in RunIds, TurnEnd(r)
  PROVE  Bookkeeping' /\ MarkIsExact'
<1>1. Forget(r, "turn") /\ "turn" \in Finishers
  BY DEF TurnEnd, Finishers
<1>2. UNCHANGED <<runLog, runState, runs, thread, disturbed>>
  BY DEF TurnEnd, storeVars
<1>3. /\ turn[r] = "active" /\ thread[r] = "over" /\ turn'[r] = "over"
      /\ \A s \in RunIds : s # r => turn'[s] = turn[s]
  BY DEF TurnEnd, TypeOK, Bookkeeping, FreshRuns
<1>4. Bookkeeping'
  BY <1>1, <1>2, <1>3, ForgetStep
<1>5. MarkIsExact'
  BY <1>1, <1>2, <1>3, EndOfHolder
<1> QED
  BY <1>4, <1>5

\* Appending an end that was waiting, or failing to.
LEMMA SaveEndStep ==
  ASSUME TypeOK, Bookkeeping, MarkIsExact, NEW r \in RunIds, NEW by \in Finishers,
         SaveEnd(r, by)
  PROVE  Bookkeeping' /\ MarkIsExact'
<1>1. <<r, by>> \in saving /\ saving' = saving \ {<<r, by>>}
  BY DEF SaveEnd
<1>2. UNCHANGED <<runningJobs, runningRuns, runs, thread, turn, disturbed>>
  BY DEF SaveEnd
<1>3. MarkIsExact'
  BY <1>2 DEF MarkIsExact, Holds
<1>4. CASE StoreError
  <2>1. UNCHANGED <<runLog, runState>>
    BY <1>4 DEF StoreError, storeVars
  <2>2. FreshRuns' /\ OneEndEach'
    BY <1>1, <1>2, <2>1 DEF Bookkeeping, FreshRuns, OneEndEach
  <2>3. MarksAreOwn'
    BY <1>2, <2>1 DEF Bookkeeping, MarksAreOwn
  <2>4. KnownRunsStarted'
    BY <1>1, <1>2, <2>1 DEF Bookkeeping, KnownRunsStarted, Ends
  <2> QED
    BY <1>3, <2>2, <2>3, <2>4 DEF Bookkeeping
<1>5. CASE AppendFinished(runs[r].job, r)
  <2>1. /\ runLog'[r].job = runLog[r].job
        /\ runLog'[r].expiry = runLog[r].expiry
        /\ runLog'[r].service = runLog[r].service + 1
        /\ \A s \in RunIds : s # r => runLog'[s] = runLog[s]
    BY <1>5 DEF AppendFinished, TypeOK, StoreTypeOK, LogRecord
  <2>2. \A j \in JobIds, s \in RunIds :
          runState'[j].running = s => /\ runState[j].running = s
                                      /\ runs[r].job = j => s # r
    BY <1>5, StoreAssumption DEF AppendFinished, CloseRun, TypeOK, StoreTypeOK, StateRecord
  <2>3. runLog[r].service = 0 /\ thread[r] \notin {"free", "spawned", "started"}
    BY <1>1 DEF Bookkeeping, OneEndEach, FreshRuns
  <2>4. r \notin runningRuns /\ \A f \in Finishers : <<r, f>> \notin saving'
    BY <1>1 DEF Bookkeeping, OneEndEach
  <2>5. FreshRuns'
    BY <1>1, <1>2, <2>1, <2>3 DEF Bookkeeping, FreshRuns
  <2>6. MarksAreOwn'
    BY <1>2, <2>1, <2>2 DEF Bookkeeping, MarksAreOwn
  <2>7. KnownRunsStarted'
    <3>1. runLog[r].job = runs[r].job
      BY <1>1 DEF Bookkeeping, KnownRunsStarted
    <3> QED
      BY <1>1, <1>2, <2>1, <3>1 DEF Bookkeeping, KnownRunsStarted, Ends
  <2>8. OneEndEach'
    BY <1>1, <1>2, <2>1, <2>3, <2>4 DEF Bookkeeping, OneEndEach
  <2> QED
    BY <1>3, <2>5, <2>6, <2>7, <2>8 DEF Bookkeeping
<1> QED
  BY <1>4, <1>5 DEF SaveEnd

\* A restart forgets every run: no mark is held and no end is under way.
LEMMA RestartStep ==
  ASSUME TypeOK, Bookkeeping, MarkIsExact, Restart
  PROVE  Bookkeeping' /\ MarkIsExact'
<1>1. UNCHANGED <<runLog, runState, runs>>
  BY DEF Restart, storeVars
<1>2. runningRuns' = {} /\ saving' = {}
  BY DEF Restart
<1>3. \A r \in RunIds : /\ thread'[r] \in {"free", "over"}
                        /\ thread'[r] = "free" => thread[r] \in {"free", "spawned"}
                        /\ turn'[r] \in {"none", "over"}
                        /\ turn'[r] = "none" <=> turn[r] = "none"
  BY DEF Restart, TypeOK
<1>4. FreshRuns' /\ OneEndEach'
  BY <1>1, <1>2, <1>3 DEF Bookkeeping, FreshRuns, OneEndEach
<1>5. MarksAreOwn'
  BY <1>1 DEF Bookkeeping, MarksAreOwn
<1>6. KnownRunsStarted'
  BY <1>1, <1>2, <1>3 DEF Bookkeeping, KnownRunsStarted, Ends
<1>7. MarkIsExact'
  BY <1>2, <1>3 DEF MarkIsExact, Holds
<1> QED
  BY <1>4, <1>5, <1>6, <1>7 DEF Bookkeeping

\* The invariant is preserved by every step.
LEMMA InvStep == IInv /\ [Next]_vars => IInv'
<1> SUFFICES ASSUME IInv, [Next]_vars
             PROVE  IInv'
  OBVIOUS
<1>1. TypeOK /\ Bookkeeping /\ MarkIsExact
  BY DEF IInv, Bookkeeping
<1>2. TypeOK'
  BY <1>1, TypeStep
<1>3. Bookkeeping' /\ MarkIsExact'
  <2>1. CASE Advance
    BY <1>1, <2>1, Frame DEF Advance, serviceVars
  <2>2. CASE EditJobs
    <3>1. UNCHANGED <<runLog, runState, serviceVars>>
      BY <2>2 DEF EditJobs, JobsNext, CreateJob, UpdateJob, DeleteJob
    <3> QED
      BY <1>1, <3>1, Frame DEF serviceVars
  <2>3. CASE TickBegin \/ TickSnapshot \/ TickFails
    <3>1. UNCHANGED <<runLog, runState, thread, turn, runningRuns, runningJobs, saving,
                      runs, disturbed>>
      BY <2>3 DEF TickBegin, TickSnapshot, TickFails, StoreError, storeVars
    <3> QED
      BY <1>1, <3>1, Frame
  <2>4. CASE TickExpire
    BY <1>1, <2>4, ExpireStep
  <2>5. ASSUME NEW v \in tick.views, TickSkipOrphan(v) \/ TickSkipBusy(v)
        PROVE  Bookkeeping' /\ MarkIsExact'
    <3>1. v.job \in JobIds /\ v.due \in Nat /\ StoreTypeOK
      BY <1>1 DEF TypeOK, ViewRecord
    <3>2. AppendSkipped(v.job, v.due)
      BY <2>5 DEF TickSkipOrphan, TickSkipBusy
    <3>3. \A k \in JobIds : runState'[k].running = runState[k].running
      BY <3>1, <3>2, SkipKeepsMarks
    <3> QED
      BY <1>1, <2>5, <3>3, Frame DEF TickSkipOrphan, TickSkipBusy
  <2>6. ASSUME NEW v \in tick.views, TickBusy(v) \/ TickNoIdLeft(v)
        PROVE  Bookkeeping' /\ MarkIsExact'
    BY <1>1, <2>6, Frame DEF TickBusy, TickNoIdLeft, storeVars
  <2>7. ASSUME NEW v \in tick.views, NEW r \in RunIds, TickDispatch(v, r)
        PROVE  Bookkeeping' /\ MarkIsExact'
    BY <1>1, <2>7, DispatchStep
  <2>8. ASSUME NEW r \in RunIds, RunNext(r)
        PROVE  Bookkeeping' /\ MarkIsExact'
    <3>1. CASE WatchWake(r)
      BY <1>1, <3>1, Frame DEF WatchWake, storeVars
    <3> QED
      BY <1>1, <2>8, <3>1, StartStep, StartFailsStep, RegisterStep, SubmitStep,
         SubmitEndsStep, WatchStep, TurnEndStep, SaveEndStep DEF RunNext
  <2>9. CASE Restart
    BY <1>1, <2>9, RestartStep
  <2>10. CASE UNCHANGED vars
    BY <1>1, <2>10, Frame DEF vars, storeVars, serviceVars
  <2> QED
    BY <2>1, <2>2, <2>3, <2>4, <2>5, <2>6, <2>7, <2>8, <2>9, <2>10 DEF Next, TickNext
<1> QED
  BY <1>2, <1>3 DEF IInv, Bookkeeping

\* The three finishers and the expiry of orphans race, across restarts and store
\* failures: each way of ending a run is recorded at most once.
THEOREM OneEndRecorded == Spec => []EndRecordedOnce
<1>1. IInv => EndRecordedOnce
  BY DEF IInv, OneEndEach, EndRecordedOnce
<1> QED
  BY InvInit, InvStep, <1>1, PTL DEF Spec

\* runs.jsonl never holds an end without the start it belongs to.
THEOREM EndsHaveStarts == Spec => []EndsFollowStarts
<1>1. IInv => EndsFollowStarts
  BY DEF IInv, KnownRunsStarted, EndsFollowStarts
<1> QED
  BY InvInit, InvStep, <1>1, PTL DEF Spec

\* One mark per job is enough to keep runs under overlap = skip apart, as long
\* as no run of the job times out and the job is never run in parallel.
THEOREM OverlapNeedsDisturbance == Spec => []OverlapOnlyAfterDisturbance
<1>1. IInv => OverlapOnlyAfterDisturbance
  BY DEF IInv, TypeOK, MarkIsExact, Holds, OverlapOnlyAfterDisturbance, ActiveTogether
<1> QED
  BY InvInit, InvStep, <1>1, PTL DEF Spec

\* The running mark in the store always names a run of the job that nobody has
\* recorded as ended, whichever of service and expiry gets to a run first.
THEOREM MarkNamesOpenRun == Spec => []RunningMarkIsOpen
<1>1. IInv => RunningMarkIsOpen
  BY DEF IInv, MarksAreOwn, RunningMarkIsOpen, TypeOK, StoreTypeOK, StateRecord, Ends
<1> QED
  BY InvInit, InvStep, <1>1, PTL DEF Spec

-----------------------------------------------------------------------------
(* What is on record as scheduled moves forward *)

\* What a job has coming while nothing overtakes it: at most one occurrence, in the
\* hands of the tick or of one thread that has not recorded its start, and later than
\* the one on record.
NothingBehind ==
  /\ \A v, w \in tick.views : v.job = w.job => v = w
  /\ \A v \in tick.views : v.job \notin overtaken =>
       /\ v.due > runState[v.job].last
       /\ \A r \in RunIds : ~Spawned(r, v.job)
  /\ \A r \in RunIds, j \in JobIds : Spawned(r, j) /\ j \notin overtaken =>
       /\ runs[r].due > runState[j].last
       /\ \A s \in RunIds : Spawned(s, j) => s = r

Forward == \A j \in JobIds : runState'[j].last # runState[j].last
                               => j \in overtaken \/ runState'[j].last > runState[j].last

\* What a snapshot shows as due is later than what is on record.
LEMMA DueIsLater ==
  ASSUME StoreTypeOK, NEW j \in JobIds, NEW t \in Nat, NextRunAt(j, t) \in 0..t
  PROVE  NextRunAt(j, t) > runState[j].last
<1>1. NextRunAt(j, t) \in Nat
  OBVIOUS
<1>2. runState[j].last \in Times
  BY DEF StoreTypeOK, StateRecord
<1>3. CASE runState[j].last = NoTime
  BY <1>1, <1>3 DEF NoTime
<1>4. CASE runState[j].last \in Nat
  <2> DEFINE task == AsJob(jobs[j].def, jobs[j].created)
  <2>1. jobs[j].def \in JobDefs /\ jobs[j].created \in Nat
    BY DEF StoreTypeOK, JobRecord
  <2>2. IsSchedule(task.schedule) /\ task.created \in Int
    BY <2>1, SchedulesAssumption DEF AsJob
  <2>3. ComputeNextRunAt(task, runState[j].last, t) \in Nat
    BY <1>1 DEF NextRunAt
  <2>4. ComputeNextRunAt(task, runState[j].last, t) > runState[j].last
    <3> HIDE DEF task
    <3> QED BY <1>4, <2>2, <2>3, NextIsLater
  <2> QED BY <2>4 DEF NextRunAt
<1> QED BY <1>2, <1>3, <1>4 DEF Times

\* Nothing new comes up for any job.
LEMMA NoneBehindFrame ==
  ASSUME NothingBehind, tick'.views \subseteq tick.views,
         \A r \in RunIds : /\ thread'[r] = "spawned" => thread[r] = "spawned"
                           /\ runs'[r].job = runs[r].job /\ runs'[r].due = runs[r].due,
         \A j \in JobIds : runState'[j].last = runState[j].last,
         \A v \in tick.views : v.job \in JobIds,
         overtaken' = overtaken
  PROVE  NothingBehind'
<1>1. \A r \in RunIds, j \in JobIds : Spawned(r, j)' => Spawned(r, j)
  BY DEF Spawned
<1>2. \A v, w \in tick'.views : v.job = w.job => v = w
  BY DEF NothingBehind
<1>3. \A v \in tick'.views : v.job \notin overtaken' =>
        v.due > runState'[v.job].last /\ \A r \in RunIds : ~Spawned(r, v.job)'
  BY <1>1 DEF NothingBehind
<1>4. \A r \in RunIds, j \in JobIds : Spawned(r, j)' /\ j \notin overtaken' =>
        runs'[r].due > runState'[j].last /\ \A s \in RunIds : Spawned(s, j)' => s = r
  BY <1>1 DEF NothingBehind
<1> QED BY <1>2, <1>3, <1>4 DEF NothingBehind

\* A snapshot puts every job with a start still to be recorded and another occurrence
\* due among the overtaken.
LEMMA SnapshotBehind ==
  ASSUME TypeOK, NothingBehind, TickSnapshot
  PROVE  NothingBehind'
<1> DEFINE due == {j \in JobIds : Live(j) /\ NextRunAt(j, tick.now) \in 0..tick.now
                                    /\ tick.now <= Horizon}
<1>0. UNCHANGED <<runState, runs, thread>> /\ tick.now \in Nat /\ StoreTypeOK
  BY DEF TickSnapshot, storeVars, TypeOK
<1>1. overtaken' = {j \in due \cup overtaken : \E r \in RunIds : Spawned(r, j)}
  BY DEF TickSnapshot
<1>2. tick'.views \subseteq {View(j, tick.now) : j \in due}
  <2>1. tick' = Idle \/ tick'.views = {View(j, tick.now) : j \in due}
    BY DEF TickSnapshot, TypeOK
  <2> QED BY <2>1 DEF Idle
<1>3. \A v \in tick'.views : v.job \in due /\ v = View(v.job, tick.now)
  BY <1>2 DEF View
<1>4. \A v \in tick'.views : v.due > runState[v.job].last
  <2> TAKE v \in tick'.views
  <2>1. v.job \in JobIds /\ NextRunAt(v.job, tick.now) \in 0..tick.now
        /\ v.due = NextRunAt(v.job, tick.now)
    BY <1>3 DEF View
  <2> QED BY <1>0, <2>1, DueIsLater
<1> HIDE DEF due
<1>5. \A r, j : Spawned(r, j)' = Spawned(r, j)
  BY <1>0 DEF Spawned
<1>6. \A v \in tick'.views : v.job \notin overtaken' => \A r \in RunIds : ~Spawned(r, v.job)
  BY <1>1, <1>3
<1>7. \A r \in RunIds, j \in JobIds : Spawned(r, j) /\ j \notin overtaken' => j \notin overtaken
  BY <1>1
<1>8. \A v, w \in tick'.views : v.job = w.job => v = w
  BY <1>3
<1>9. \A v \in tick'.views : v.job \notin overtaken' =>
        v.due > runState'[v.job].last /\ \A r \in RunIds : ~Spawned(r, v.job)'
  BY <1>0, <1>4, <1>5, <1>6
<1>10. \A r \in RunIds, j \in JobIds : Spawned(r, j)' /\ j \notin overtaken' =>
        runs'[r].due > runState'[j].last /\ \A s \in RunIds : Spawned(s, j)' => s = r
  BY <1>0, <1>5, <1>7 DEF NothingBehind
<1> QED BY <1>8, <1>9, <1>10 DEF NothingBehind

\* A skipped occurrence was the only one its job had coming.
LEMMA SkipBehind ==
  ASSUME TypeOK, NothingBehind, NEW v \in tick.views, AppendSkipped(v.job, v.due),
         tick' = Done(v), UNCHANGED <<runs, thread, overtaken>>
  PROVE  NothingBehind' /\ Forward
<1>0. v.job \in JobIds
  BY DEF TypeOK, ViewRecord
<1>1. \A j \in JobIds : runState'[j].last = IF j = v.job THEN v.due ELSE runState[j].last
  BY <1>0 DEF AppendSkipped, TypeOK, StoreTypeOK, StateRecord
<1>2. tick'.views \subseteq tick.views \ {v}
  BY DEF Done, Idle, TypeOK
<1>3. \A w \in tick'.views : w \in tick.views /\ w.job # v.job /\ w.job \in JobIds
  BY <1>2 DEF NothingBehind, TypeOK, ViewRecord
<1>4. \A r, j : Spawned(r, j)' = Spawned(r, j)
  BY DEF Spawned
<1>5. \A w, u \in tick'.views : w.job = u.job => w = u
  BY <1>3 DEF NothingBehind
<1>6. \A w \in tick'.views : w.job \notin overtaken' =>
        w.due > runState'[w.job].last /\ \A r \in RunIds : ~Spawned(r, w.job)'
  BY <1>1, <1>3, <1>4 DEF NothingBehind
<1>7. \A r \in RunIds, j \in JobIds : Spawned(r, j)' /\ j \notin overtaken' =>
        runs'[r].due > runState'[j].last /\ \A s \in RunIds : Spawned(s, j)' => s = r
  <2> TAKE r \in RunIds, j \in JobIds
  <2> HAVE Spawned(r, j)' /\ j \notin overtaken'
  <2>1. Spawned(r, j) /\ j \notin overtaken
    BY <1>4
  <2>2. j # v.job
    BY <2>1 DEF NothingBehind
  <2> QED BY <1>1, <1>4, <2>1, <2>2 DEF NothingBehind
<1>8. NothingBehind'
  BY <1>5, <1>6, <1>7 DEF NothingBehind
<1>9. Forward
  BY <1>1 DEF NothingBehind, Forward
<1> QED BY <1>8, <1>9

\* A dispatched occurrence moves from the tick to a thread.
LEMMA DispatchBehind ==
  ASSUME TypeOK, NothingBehind, NEW v \in tick.views, NEW r \in RunIds, TickDispatch(v, r)
  PROVE  NothingBehind'
<1>0. v.job \in JobIds
  BY DEF TypeOK, ViewRecord
<1>1. UNCHANGED <<runState, overtaken>> /\ tick' = Done(v)
  BY DEF TickDispatch, storeVars
<1>2. tick'.views \subseteq tick.views \ {v}
  BY <1>1 DEF Done, Idle, TypeOK
<1>3. \A w \in tick'.views : w \in tick.views /\ w.job # v.job
  BY <1>2 DEF NothingBehind
<1>4. /\ \A s \in RunIds : s # r => runs'[s] = runs[s] /\ thread'[s] = thread[s]
      /\ runs'[r].job = v.job /\ runs'[r].due = v.due /\ thread[r] # "spawned"
  BY DEF TickDispatch, TypeOK
<1>5. \A s \in RunIds, j \in JobIds : Spawned(s, j)' => (s = r /\ j = v.job) \/ (s # r /\ Spawned(s, j))
  BY <1>4 DEF Spawned
<1>6. \A w, u \in tick'.views : w.job = u.job => w = u
  BY <1>3 DEF NothingBehind
<1>7. \A w \in tick'.views : w.job \notin overtaken' =>
        w.due > runState'[w.job].last /\ \A s \in RunIds : ~Spawned(s, w.job)'
  <2>1. \A w \in tick'.views : w.job \in JobIds
    BY <1>2 DEF TypeOK, ViewRecord
  <2> QED BY <1>1, <1>3, <1>5, <2>1 DEF NothingBehind
<1>8. \A s \in RunIds, j \in JobIds : Spawned(s, j)' /\ j \notin overtaken' =>
        runs'[s].due > runState'[j].last /\ \A q \in RunIds : Spawned(q, j)' => q = s
  <2> TAKE s \in RunIds, j \in JobIds
  <2> HAVE Spawned(s, j)' /\ j \notin overtaken'
  <2>1. CASE j = v.job
    <3>1. \A q \in RunIds : ~Spawned(q, j)
      BY <1>1, <2>1 DEF NothingBehind
    <3>2. s = r /\ \A q \in RunIds : Spawned(q, j)' => q = r
      BY <1>5, <3>1
    <3> QED BY <1>1, <1>4, <2>1, <3>2 DEF NothingBehind
  <2>2. CASE j # v.job
    <3>1. s # r /\ Spawned(s, j) /\ \A q \in RunIds : Spawned(q, j)' => Spawned(q, j)
      BY <1>5, <2>2
    <3> QED BY <1>1, <1>4, <3>1 DEF NothingBehind
  <2> QED BY <2>1, <2>2
<1> QED BY <1>6, <1>7, <1>8 DEF NothingBehind

\* A recorded start was the only one its job had coming.
LEMMA StartBehind ==
  ASSUME TypeOK, NothingBehind, NEW r \in RunIds, ThreadStart(r)
  PROVE  NothingBehind' /\ Forward
<1> DEFINE k == runs[r].job
<1>0. k \in JobIds /\ Spawned(r, k)
  BY DEF TypeOK, RunRecord, ThreadStart, Spawned
<1>1. UNCHANGED <<runs, tick, overtaken>>
  BY DEF ThreadStart
<1>2. \A j \in JobIds : runState'[j].last = IF j = k THEN runs[r].due ELSE runState[j].last
  BY <1>0 DEF ThreadStart, AppendStarted, TypeOK, StoreTypeOK, StateRecord
<1>3. thread'[r] = "started" /\ \A s \in RunIds : s # r => thread'[s] = thread[s]
  BY DEF ThreadStart, TypeOK
<1> HIDE DEF k
<1>4. \A s \in RunIds, j \in JobIds : Spawned(s, j)' => s # r /\ Spawned(s, j)
  BY <1>1, <1>3 DEF Spawned
<1>5. \A w \in tick'.views : w.job \notin overtaken' =>
        w.due > runState'[w.job].last /\ \A s \in RunIds : ~Spawned(s, w.job)'
  <2> TAKE w \in tick'.views
  <2> HAVE w.job \notin overtaken'
  <2>1. w \in tick.views /\ w.job \in JobIds /\ w.job \notin overtaken
    BY <1>1 DEF TypeOK, ViewRecord
  <2>2. w.job # k
    BY <1>0, <2>1 DEF NothingBehind
  <2> QED BY <1>2, <1>4, <2>1, <2>2 DEF NothingBehind
<1>6. \A s \in RunIds, j \in JobIds : Spawned(s, j)' /\ j \notin overtaken' =>
        runs'[s].due > runState'[j].last /\ \A q \in RunIds : Spawned(q, j)' => q = s
  <2> TAKE s \in RunIds, j \in JobIds
  <2> HAVE Spawned(s, j)' /\ j \notin overtaken'
  <2>1. s # r /\ Spawned(s, j) /\ j \notin overtaken
    BY <1>1, <1>4
  <2>2. j # k
    BY <1>0, <2>1 DEF NothingBehind
  <2> QED BY <1>1, <1>2, <1>4, <2>1, <2>2 DEF NothingBehind
<1>7. NothingBehind'
  BY <1>1, <1>5, <1>6 DEF NothingBehind
<1>8. Forward
  BY <1>0, <1>2 DEF NothingBehind, Forward
<1> QED BY <1>7, <1>8

LEMMA BehindStep ==
  ASSUME TypeOK, NothingBehind, [Next]_vars
  PROVE  NothingBehind' /\ Forward
<1> USE DEF storeVars, serviceVars
<1>0. \A v \in tick.views : v.job \in JobIds
  BY DEF TypeOK, ViewRecord
<1>1. ASSUME tick'.views \subseteq tick.views, overtaken' = overtaken,
             \A r \in RunIds : /\ thread'[r] = "spawned" => thread[r] = "spawned"
                               /\ runs'[r].job = runs[r].job /\ runs'[r].due = runs[r].due,
             \A j \in JobIds : runState'[j].last = runState[j].last
      PROVE  NothingBehind' /\ Forward
  BY <1>0, <1>1, NoneBehindFrame DEF Forward
<1>2. CASE Advance \/ EditJobs
  BY <1>1, <1>2 DEF Advance, EditJobs, JobsNext, CreateJob, UpdateJob, DeleteJob
<1>3. CASE TickBegin \/ TickFails
  <2>1. tick'.views = {} /\ UNCHANGED <<runState, runs, thread, overtaken>>
    <3>1. CASE TickBegin
      BY <3>1 DEF TickBegin, Idle
    <3>2. CASE TickFails
      <4>1. tick'.views = {}
        BY <3>2 DEF TickFails, Idle
      <4> QED BY <3>2, <4>1 DEF TickFails, StoreError
    <3> QED BY <1>3, <3>1, <3>2
  <2> QED BY <1>1, <2>1
<1>4. CASE TickExpire
  <2>1. \A j \in JobIds : runState'[j].last = runState[j].last
    BY <1>4 DEF TickExpire, FinishExpiredRunningRuns, CloseRun, TypeOK, StoreTypeOK, StateRecord
  <2>2. tick'.views = tick.views
    BY <1>4 DEF TickExpire, TypeOK
  <2> QED BY <1>1, <1>4, <2>1, <2>2 DEF TickExpire
<1>5. CASE TickSnapshot
  BY <1>5, SnapshotBehind DEF TickSnapshot, Forward
<1>6. ASSUME NEW v \in tick.views PROVE tick' = Done(v) => tick'.views \subseteq tick.views
  BY DEF Done, Idle, TypeOK
<1>7. ASSUME NEW v \in tick.views, TickSkipOrphan(v) \/ TickSkipBusy(v)
      PROVE  NothingBehind' /\ Forward
  BY <1>7, SkipBehind DEF TickSkipOrphan, TickSkipBusy
<1>8. ASSUME NEW v \in tick.views, TickBusy(v) \/ TickNoIdLeft(v)
      PROVE  NothingBehind' /\ Forward
  <2>1. tick'.views \subseteq tick.views
    BY <1>6, <1>8 DEF TickBusy, TickNoIdLeft, TypeOK
  <2> QED BY <1>1, <1>8, <2>1 DEF TickBusy, TickNoIdLeft
<1>9. ASSUME NEW v \in tick.views, NEW r \in RunIds, TickDispatch(v, r)
      PROVE  NothingBehind' /\ Forward
  BY <1>9, DispatchBehind DEF TickDispatch, Forward
<1>10. ASSUME NEW r \in RunIds, RunNext(r)
      PROVE  NothingBehind' /\ Forward
  <2>1. CASE ThreadStart(r)
    BY <2>1, StartBehind
  <2>2. ASSUME NEW by \in Finishers, SaveEnd(r, by) PROVE NothingBehind' /\ Forward
    <3>1. \A j \in JobIds : runState'[j].last = runState[j].last
      BY <2>2 DEF SaveEnd, AppendFinished, CloseRun, StoreError, TypeOK, StoreTypeOK, StateRecord
    <3> QED BY <1>1, <2>2, <3>1 DEF SaveEnd
  <2>3. CASE ThreadRegister(r)
    <3>1. \A s \in RunIds : runs'[s].job = runs[s].job /\ runs'[s].due = runs[s].due
      BY <2>3 DEF ThreadRegister, TypeOK, RunRecord
    <3>2. \A s \in RunIds : thread'[s] = "spawned" => thread[s] = "spawned"
      BY <2>3 DEF ThreadRegister, TypeOK
    <3> QED BY <1>1, <2>3, <3>1, <3>2 DEF ThreadRegister
  <2>4. CASE ThreadStartFails(r) \/ ThreadSubmit(r) \/ ThreadSubmitEnds(r)
             \/ WatchWake(r) \/ WatchFire(r) \/ TurnEnd(r)
    <3>1. UNCHANGED <<runState, runs, tick, overtaken>>
      BY <2>4 DEF ThreadStartFails, ThreadSubmit, ThreadSubmitEnds, WatchWake, WatchFire,
         TurnEnd, StoreError
    <3>2. \A s \in RunIds : thread'[s] = "spawned" => thread[s] = "spawned"
      BY <2>4 DEF ThreadStartFails, ThreadSubmit, ThreadSubmitEnds, WatchWake, WatchFire,
         TurnEnd, TypeOK
    <3> QED BY <1>1, <3>1, <3>2
  <2> QED BY <1>10, <2>1, <2>2, <2>3, <2>4 DEF RunNext
<1>11. CASE Restart
  <2>1. tick'.views = {} /\ runState' = runState /\ \A r \in RunIds : thread'[r] # "spawned"
    BY <1>11 DEF Restart, Idle, TypeOK
  <2> QED BY <2>1 DEF NothingBehind, Forward, Spawned
<1>12. CASE UNCHANGED vars
  BY <1>1, <1>12 DEF vars
<1> QED
  BY <1>2, <1>3, <1>4, <1>5, <1>7, <1>8, <1>9, <1>10, <1>11, <1>12 DEF Next, TickNext

\* However jobs are edited, started, skipped and expired and whatever fails or dies,
\* last_scheduled_for of a job only moves forward, unless a tick has found the job due
\* again before a start it handed out earlier was recorded.
THEOREM LastAdvances == Spec => LastScheduledAdvances
<1>1. Init => NothingBehind
  BY DEF Init, Idle, NothingBehind, Spawned
<1>2. TypeOK /\ NothingBehind /\ [Next]_vars => NothingBehind' /\ [Forward]_vars
  BY BehindStep
<1> QED
  BY TypeInit, TypeStep, <1>1, <1>2, PTL DEF Spec, LastScheduledAdvances, Forward

-----------------------------------------------------------------------------
(* What the service does to the logs is what CronRuns promises *)

LifeOf == [r \in RunIds |-> Life(r)]
MarkOf == [j \in JobIds |-> runState[j].running]
LastOf == [j \in JobIds |-> runState[j].last]

\* What a tick hands out, and what a run is about to be started for, is in the past.
DueInTime ==
  /\ tick.now <= now
  /\ \A v \in tick.views : v.due <= tick.now
  /\ \A r \in RunIds : thread[r] = "spawned" => runs[r].due <= now

LEMMA InTimeFrame ==
  ASSUME TypeOK, DueInTime, now' \in Nat, now' >= now,
         tick' = Idle \/ (tick'.now = tick.now /\ tick'.views \subseteq tick.views),
         \A r \in RunIds : thread'[r] = "spawned" => thread[r] = "spawned" /\ runs'[r].due = runs[r].due
  PROVE  DueInTime'
<1>1. now \in Nat /\ tick.now \in Nat /\ \A r \in RunIds : runs[r].due \in Nat
  BY DEF TypeOK, StoreTypeOK, RunRecord
<1>2. tick'.now <= now' /\ \A v \in tick'.views : v.due <= tick'.now
  BY <1>1 DEF DueInTime, Idle
<1>3. \A r \in RunIds : thread'[r] = "spawned" => runs'[r].due <= now'
  BY <1>1 DEF DueInTime
<1> QED BY <1>2, <1>3 DEF DueInTime

LEMMA InTimeStep == ASSUME TypeOK, DueInTime, [Next]_vars PROVE DueInTime'
<1> USE DEF storeVars, serviceVars
<1>0. now \in Nat /\ tick.now \in Nat
  BY DEF TypeOK, StoreTypeOK
<1>1. CASE Advance
  BY <1>0, <1>1, InTimeFrame DEF Advance, ClockAdvances
<1>2. CASE EditJobs
  BY <1>0, <1>2, InTimeFrame DEF EditJobs, JobsNext, CreateJob, UpdateJob, DeleteJob
<1>3. CASE TickBegin
  <2>1. tick'.now = now /\ tick'.views = {} /\ UNCHANGED <<now, thread, runs>>
    BY <1>3 DEF TickBegin, Idle
  <2> QED BY <1>0, <2>1 DEF DueInTime
<1>4. CASE TickExpire \/ TickFails
  <2>1. /\ UNCHANGED <<now, thread, runs>>
        /\ tick' = Idle \/ (tick'.now = tick.now /\ tick'.views = tick.views)
    BY <1>4 DEF TickExpire, TickFails, StoreError, TypeOK
  <2> QED BY <1>0, <2>1, InTimeFrame
<1>5. CASE TickSnapshot
  <2>1. CASE tick' = Idle
    BY <1>0, <1>5, <2>1, InTimeFrame DEF TickSnapshot
  <2>2. CASE tick' # Idle
    <3>1. /\ UNCHANGED <<now, thread, runs>> /\ tick'.now = tick.now
          /\ \A v \in tick'.views : v.due \in 0 .. tick.now
      BY <1>5, <2>2 DEF TickSnapshot, TypeOK, View
    <3> QED BY <1>0, <3>1 DEF DueInTime
  <2> QED BY <2>1, <2>2
<1>6. ASSUME NEW v \in tick.views,
             TickSkipOrphan(v) \/ TickBusy(v) \/ TickSkipBusy(v) \/ TickNoIdLeft(v)
      PROVE  DueInTime'
  <2>1. /\ UNCHANGED <<now, thread, runs>>
        /\ tick' = Idle \/ (tick'.now = tick.now /\ tick'.views \subseteq tick.views)
    <3>1. /\ UNCHANGED <<now, thread, runs>>
          /\ tick' = Done(v) \/ tick' = [tick EXCEPT !.pc = "skip"]
      BY <1>6 DEF TickSkipOrphan, TickBusy, TickSkipBusy, TickNoIdLeft
    <3>2. CASE tick' = Done(v)
      BY <3>1, <3>2 DEF Done, TypeOK
    <3>3. CASE tick' = [tick EXCEPT !.pc = "skip"]
      BY <3>1, <3>3 DEF TypeOK
    <3> QED BY <3>1, <3>2, <3>3
  <2> QED BY <1>0, <2>1, InTimeFrame
<1>7. ASSUME NEW v \in tick.views, NEW r \in RunIds, TickDispatch(v, r)
      PROVE  DueInTime'
  <2>1. now' = now /\ tick'.now <= now /\ \A w \in tick'.views : w.due <= tick'.now
    <3>1. now' = now /\ tick' = Done(v)
      BY <1>7 DEF TickDispatch
    <3> QED BY <1>0, <3>1 DEF Done, Idle, DueInTime, TypeOK
  <2>2. \A s \in RunIds : s # r => thread'[s] = thread[s] /\ runs'[s] = runs[s]
    BY <1>7 DEF TickDispatch, TypeOK
  <2>3. runs'[r].due = v.due /\ v.due <= tick.now /\ v.due \in Nat
    BY <1>7 DEF TickDispatch, TypeOK, DueInTime, ViewRecord
  <2>4. \A s \in RunIds : thread'[s] = "spawned" => runs'[s].due <= now'
    BY <1>0, <2>1, <2>2, <2>3 DEF DueInTime
  <2> QED BY <2>1, <2>4 DEF DueInTime
<1>8. ASSUME NEW r \in RunIds, RunNext(r)
      PROVE  DueInTime'
  <2>1. now' = now /\ tick' = tick
    BY <1>8 DEF RunNext, ThreadStart, ThreadStartFails, ThreadRegister, ThreadSubmit,
       ThreadSubmitEnds, WatchWake, WatchFire, TurnEnd, SaveEnd, StoreError
  <2>2. \A s \in RunIds : thread'[s] = "spawned" => thread[s] = "spawned"
    BY <1>8 DEF RunNext, ThreadStart, ThreadStartFails, ThreadRegister, ThreadSubmit,
       ThreadSubmitEnds, WatchWake, WatchFire, TurnEnd, SaveEnd, TypeOK
  <2>3. \A s \in RunIds : runs'[s].due = runs[s].due
    <3>1. CASE ThreadRegister(r)
      BY <3>1 DEF ThreadRegister, TypeOK, RunRecord
    <3>2. CASE ~ThreadRegister(r)
      BY <1>8, <3>2 DEF RunNext, ThreadStart, ThreadStartFails, ThreadSubmit, ThreadSubmitEnds,
         WatchWake, WatchFire, TurnEnd, SaveEnd
    <3> QED BY <3>1, <3>2
  <2> QED BY <1>0, <2>1, <2>2, <2>3, InTimeFrame
<1>9. CASE Restart
  <2>1. now' = now /\ tick' = Idle /\ \A s \in RunIds : thread'[s] # "spawned"
    BY <1>9 DEF Restart, TypeOK
  <2> QED BY <1>0, <2>1, InTimeFrame
<1>10. CASE UNCHANGED vars
  BY <1>0, <1>10, InTimeFrame DEF vars
<1> QED
  BY <1>1, <1>2, <1>3, <1>4, <1>5, <1>6, <1>7, <1>8, <1>9, <1>10 DEF Next, TickNext

-----------------------------------------------------------------------------
LEMMA LifeSame ==
  ASSUME NEW r, runLog'[r] = runLog[r]
  PROVE  Life(r)' = Life(r)
BY DEF Life, Started, Ends

LEMMA RunsStart == Init => Runs!Init
<1> SUFFICES ASSUME Init PROVE Runs!Init
  OBVIOUS
<1>1. \A r \in RunIds : Life(r) = "new"
  BY DEF Init, StoreInit, NoLog, Life, Started, Ends
<1>2. \A j \in JobIds : runState[j].running = NoRun /\ runState[j].last = NoTime
  BY DEF Init, StoreInit, NoState
<1>3. LifeOf = [r \in RunIds |-> "new"] /\ MarkOf = [j \in JobIds |-> NoRun] /\ LastOf = [j \in JobIds |-> NoTime]
  BY <1>1, <1>2 DEF LifeOf, MarkOf, LastOf
<1> QED BY <1>3 DEF Runs!Init, LifeOf, MarkOf, LastOf, Init, StoreInit

\* Nothing is appended to the run log.
LEMMA RunsStutter ==
  ASSUME UNCHANGED <<now, runState, runLog>>
  PROVE  UNCHANGED Runs!vars
<1>1. LifeOf' = LifeOf /\ MarkOf' = MarkOf /\ LastOf' = LastOf
  BY DEF LifeOf, Life, Started, Ends, MarkOf, LastOf
<1> QED BY <1>1 DEF Runs!vars, LifeOf, MarkOf, LastOf

\* An occurrence is skipped.
LEMMA RunsSkip ==
  ASSUME TypeOK, NEW j \in JobIds, NEW t \in 0 .. now, AppendSkipped(j, t), UNCHANGED <<now, runLog>>
  PROVE  Runs!Skip(j)
<1>1. LifeOf' = LifeOf
  BY DEF LifeOf, Life, Started, Ends
<1>2. MarkOf' = MarkOf /\ LastOf' = [LastOf EXCEPT ![j] = t]
  BY DEF MarkOf, LastOf, AppendSkipped, TypeOK, StoreTypeOK, StateRecord
<1> QED BY <1>1, <1>2 DEF Runs!Skip, Runs!Occurs, LifeOf, MarkOf, LastOf

\* The thread of a run appends its start.
LEMMA RunsBegin ==
  ASSUME TypeOK, Bookkeeping, DueInTime, NEW r \in RunIds, ThreadStart(r)
  PROVE  \E j \in JobIds : Runs!Start(j, r)
<1>0. PICK j \in JobIds, t \in 0 .. now : j = runs[r].job /\ t = runs[r].due
  BY DEF TypeOK, StoreTypeOK, RunRecord, DueInTime, ThreadStart
<1>1. j \in JobIds /\ t \in 0 .. now /\ now' = now
  BY DEF ThreadStart
<1>2. runLog[r] = NoLog /\ AppendStarted(j, r, t)
  BY <1>0 DEF ThreadStart, Bookkeeping, FreshRuns
<1>3. /\ runLog'[r].job = j /\ runLog'[r].service = 0 /\ runLog'[r].expiry = 0
      /\ \A s \in RunIds : s # r => runLog'[s] = runLog[s]
  BY <1>2 DEF AppendStarted, TypeOK, StoreTypeOK, LogRecord, NoLog
<1>4. Life(r) = "new" /\ Life(r)' = "open" /\ \A s \in RunIds : s # r => Life(s)' = Life(s)
  BY <1>1, <1>2, <1>3, LifeSame, StoreAssumption DEF Life, Started, Ends, NoLog
<1>5. LifeOf[r] = "new" /\ LifeOf' = [LifeOf EXCEPT ![r] = "open"]
  BY <1>4 DEF LifeOf
<1>6. MarkOf' = [MarkOf EXCEPT ![j] = r] /\ LastOf' = [LastOf EXCEPT ![j] = t]
  BY <1>1, <1>2 DEF MarkOf, LastOf, AppendStarted, TypeOK, StoreTypeOK, StateRecord
<1>7. Runs!Start(j, r)
  BY <1>1, <1>5, <1>6 DEF Runs!Start, Runs!Occurs, LifeOf, MarkOf, LastOf
<1> QED BY <1>7

\* The end of a run is appended.
LEMMA RunsFinish ==
  ASSUME TypeOK, Bookkeeping, NEW r \in RunIds, NEW by \in Finishers,
         <<r, by>> \in saving, AppendFinished(runs[r].job, r), UNCHANGED now
  PROVE  Runs!Finish(r)
<1> DEFINE j == runs[r].job
<1>1. j \in JobIds
  BY DEF TypeOK, RunRecord
<1>2. runLog[r].job = j /\ runLog[r].service = 0 /\ runLog[r].expiry \in {0, 1}
  <2>1. runLog[r].job = j
    BY DEF Bookkeeping, KnownRunsStarted
  <2>2. runLog[r].service = 0 /\ runLog[r].expiry <= 1 /\ runLog[r].expiry \in Nat
    BY DEF Bookkeeping, OneEndEach, TypeOK, StoreTypeOK, LogRecord
  <2> QED BY <2>1, <2>2
<1>3. /\ runLog'[r].job = j /\ runLog'[r].service = 1 /\ runLog'[r].expiry = runLog[r].expiry
      /\ \A s \in RunIds : s # r => runLog'[s] = runLog[s]
  BY <1>2 DEF AppendFinished, TypeOK, StoreTypeOK, LogRecord
<1>4. \A k \in JobIds : runState[k].running = r => k = j
  BY <1>2 DEF Bookkeeping, MarksAreOwn
<1>5. \A k \in JobIds : /\ runState'[k].last = runState[k].last
                        /\ runState'[k].running = IF runState[k].running = r THEN NoRun ELSE runState[k].running
  <2>1. runState' = [runState EXCEPT ![j] = CloseRun(runState[j], r)]
    BY DEF AppendFinished
  <2>2. \A k \in JobIds : runState'[k] = IF k = j THEN CloseRun(runState[j], r) ELSE runState[k]
    BY <2>1 DEF TypeOK, StoreTypeOK
  <2> QED BY <1>4, <2>2 DEF CloseRun, TypeOK, StoreTypeOK, StateRecord
<1> HIDE DEF j
<1>6. Life(r) \in {"open", "expired"} /\ Life(r)' = "ended" /\ \A s \in RunIds : s # r => Life(s)' = Life(s)
  BY <1>1, <1>2, <1>3, LifeSame, StoreAssumption DEF Life, Started, Ends
<1>7. LifeOf[r] \in {"open", "expired"} /\ LifeOf' = [LifeOf EXCEPT ![r] = "ended"]
  BY <1>6 DEF LifeOf
<1>8. LastOf' = LastOf /\ MarkOf' = [k \in JobIds |-> IF MarkOf[k] \in {r} THEN NoRun ELSE MarkOf[k]]
  BY <1>5 DEF LastOf, MarkOf
<1> QED BY <1>7, <1>8 DEF Runs!Finish, Runs!MarksWithout, LifeOf, MarkOf, LastOf

\* A tick expires the runs whose marks nobody holds.
LEMMA RunsExpire ==
  ASSUME TypeOK, Bookkeeping, TickExpire
  PROVE  \E R \in SUBSET RunIds : Runs!Expire(R)
<1> DEFINE E == Expired(tick.active, tick.now)
<1>0. PICK R \in SUBSET RunIds : R = {r \in RunIds : \E j \in E : runState[j].running = r}
  OBVIOUS
<1>1. E \subseteq JobIds /\ \A j \in E : runState[j].running \in R
  BY <1>0 DEF Expired, TypeOK, StoreTypeOK, StateRecord
<1>2. \A r \in R : \E j \in JobIds : /\ runState[j].running = r /\ runLog[r].job = j
                                     /\ runLog[r].service = 0 /\ runLog[r].expiry = 0
  BY <1>0, <1>1 DEF Bookkeeping, MarksAreOwn
<1>3. \A j \in JobIds : runState[j].running \in R => j \in E
  <2> SUFFICES ASSUME NEW j \in JobIds, NEW k \in E, runState[k].running = runState[j].running,
                      runState[j].running \in RunIds
               PROVE  j = k
    BY <1>0
  <2> QED BY <1>1 DEF Bookkeeping, MarksAreOwn
<1>4. \A r \in RunIds : /\ r \notin R => runLog'[r] = runLog[r]
                        /\ r \in R => /\ runLog'[r].job = runLog[r].job
                                      /\ runLog'[r].service = runLog[r].service
                                      /\ runLog'[r].expiry = runLog[r].expiry + 1
  BY <1>0 DEF TickExpire, FinishExpiredRunningRuns, TypeOK, StoreTypeOK, LogRecord
<1>5. \A j \in JobIds : /\ runState'[j].last = runState[j].last
                        /\ runState'[j].running = IF runState[j].running \in R THEN NoRun
                                                  ELSE runState[j].running
  <2>1. \A j \in JobIds : runState'[j] = IF j \in E THEN CloseRun(runState[j], runState[j].running)
                                         ELSE runState[j]
    BY DEF TickExpire, FinishExpiredRunningRuns
  <2>2. \A j \in JobIds : /\ CloseRun(runState[j], runState[j].running).last = runState[j].last
                          /\ CloseRun(runState[j], runState[j].running).running = NoRun
    BY DEF CloseRun, TypeOK, StoreTypeOK, StateRecord
  <2> HIDE DEF E
  <2> QED BY <1>1, <1>3, <2>1, <2>2
<1>6. now' = now
  BY DEF TickExpire
<1> HIDE DEF E
<1>7. \A r \in R : Life(r) = "open" /\ Life(r)' = "expired"
  <2> TAKE r \in R
  <2>1. PICK j \in JobIds : runState[j].running = r /\ runLog[r].job = j
                            /\ runLog[r].service = 0 /\ runLog[r].expiry = 0
    BY <1>2
  <2>2. r \in RunIds
    OBVIOUS
  <2> QED BY <1>4, <2>1, <2>2, StoreAssumption DEF Life, Started, Ends
<1>8. \A r \in RunIds : r \notin R => Life(r)' = Life(r)
  BY <1>4, LifeSame
<1>10. LifeOf' = [r \in RunIds |-> IF r \in R THEN "expired" ELSE LifeOf[r]]
  BY <1>7, <1>8 DEF LifeOf
<1>11. \A r \in R : LifeOf[r] = "open" /\ \E j \in JobIds : MarkOf[j] = r
  BY <1>2, <1>7 DEF LifeOf, MarkOf
<1>12. LastOf' = LastOf /\ MarkOf' = [j \in JobIds |-> IF MarkOf[j] \in R THEN NoRun ELSE MarkOf[j]]
  BY <1>5 DEF LastOf, MarkOf
<1>13. Runs!Expire(R)
  BY <1>6, <1>10, <1>11, <1>12 DEF Runs!Expire, Runs!MarksWithout, LifeOf, MarkOf, LastOf
<1> QED BY <1>13

\* Every step of the service is one of CronRuns, or appends nothing.
LEMMA RunsStep ==
  ASSUME TypeOK, Bookkeeping, DueInTime, [Next]_vars
  PROVE  [Runs!Next]_(Runs!vars)
<1> USE DEF storeVars, serviceVars
<1>1. CASE Advance
  <2>1. now \in Nat /\ now' = now + 1 /\ UNCHANGED <<runState, runLog>>
    BY <1>1 DEF Advance, ClockAdvances, TypeOK, StoreTypeOK
  <2>2. LifeOf' = LifeOf /\ MarkOf' = MarkOf /\ LastOf' = LastOf
    BY <2>1 DEF LifeOf, Life, Started, Ends, MarkOf, LastOf
  <2>3. Runs!Advance
    BY <2>1, <2>2 DEF Runs!Advance, LifeOf, MarkOf, LastOf
  <2> QED BY <2>3 DEF Runs!Next
<1>2. CASE EditJobs
  BY <1>2, RunsStutter DEF EditJobs, JobsNext, CreateJob, UpdateJob, DeleteJob
<1>3. CASE TickBegin \/ TickSnapshot \/ TickFails
  BY <1>3, RunsStutter DEF TickBegin, TickSnapshot, TickFails, StoreError
<1>4. CASE TickExpire
  BY <1>4, RunsExpire DEF Runs!Next
<1>5. ASSUME NEW v \in tick.views, TickSkipOrphan(v) \/ TickSkipBusy(v)
      PROVE  [Runs!Next]_(Runs!vars)
  <2>1. v.job \in JobIds /\ v.due \in 0 .. now
    BY DEF TypeOK, StoreTypeOK, ViewRecord, DueInTime
  <2>2. AppendSkipped(v.job, v.due) /\ UNCHANGED <<now, runLog>>
    BY <1>5 DEF TickSkipOrphan, TickSkipBusy
  <2> QED BY <2>1, <2>2, RunsSkip DEF Runs!Next
<1>6. ASSUME NEW v \in tick.views,
             TickBusy(v) \/ TickNoIdLeft(v) \/ \E r \in RunIds : TickDispatch(v, r)
      PROVE  [Runs!Next]_(Runs!vars)
  BY <1>6, RunsStutter DEF TickBusy, TickNoIdLeft, TickDispatch
<1>7. ASSUME NEW r \in RunIds, RunNext(r)
      PROVE  [Runs!Next]_(Runs!vars)
  <2>1. CASE ThreadStart(r)
    BY <2>1, RunsBegin DEF Runs!Next
  <2>2. ASSUME NEW by \in Finishers, SaveEnd(r, by) PROVE [Runs!Next]_(Runs!vars)
    <3>1. CASE StoreError
      BY <2>2, <3>1, RunsStutter DEF StoreError
    <3>2. CASE AppendFinished(runs[r].job, r) /\ UNCHANGED <<now, jobs, storeErrors>>
      <4>1. <<r, by>> \in saving
        BY <2>2 DEF SaveEnd
      <4> QED BY <3>2, <4>1, RunsFinish DEF Runs!Next
    <3> QED BY <2>2, <3>1, <3>2 DEF SaveEnd
  <2>3. CASE \/ ThreadStartFails(r) \/ ThreadRegister(r) \/ ThreadSubmit(r) \/ ThreadSubmitEnds(r)
             \/ WatchWake(r) \/ WatchFire(r) \/ TurnEnd(r)
    BY <2>3, RunsStutter DEF ThreadStartFails, ThreadRegister, ThreadSubmit, ThreadSubmitEnds,
       WatchWake, WatchFire, TurnEnd, StoreError
  <2> QED BY <1>7, <2>1, <2>2, <2>3 DEF RunNext
<1>8. CASE Restart
  BY <1>8, RunsStutter DEF Restart
<1>9. CASE UNCHANGED vars
  BY <1>9, RunsStutter DEF vars
<1> QED
  BY <1>1, <1>2, <1>3, <1>4, <1>5, <1>6, <1>7, <1>8, <1>9 DEF Next, TickNext

\* Runs are started once and not before their time, expired and finished once each and in
\* this order, and marks go with the ends of the runs they name: for any jobs, runs and
\* schedules, whatever fails or dies.
THEOREM ServiceKeepsRuns == Spec => RunsAreKept
<1>1. Init => Runs!Init
  BY RunsStart
<1>2. Init => DueInTime
  BY StoreAssumption DEF Init, StoreInit, Idle, DueInTime
<1>3. IInv /\ DueInTime /\ [Next]_vars => IInv' /\ DueInTime'
  BY InvStep, InTimeStep DEF IInv
<1>4. IInv /\ DueInTime /\ [Next]_vars => [Runs!Next]_(Runs!vars)
  BY RunsStep DEF IInv, Bookkeeping
<1> QED
  BY InvInit, <1>1, <1>2, <1>3, <1>4, PTL DEF Spec, RunsAreKept, Runs!Spec
=============================================================================
