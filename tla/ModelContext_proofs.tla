------------------------ MODULE ModelContext_proofs -------------------------
(***************************************************************************)
(* Theorems about ModelContext, for any ids and any length of the history: *)
(* the types; in every request calls and results of an id take turns; and  *)
(* every text is told once and in order, every result at most once and of  *)
(* its own call.  The projection is four walks over sequences.  An         *)
(* invariant of each walk says what is true of the part gone over, and     *)
(* holds to the end by the least place where it would fail.                *)
(***************************************************************************)
EXTENDS ModelContext, SequenceTheorems, WellFoundedInduction, TLAPS

-----------------------------------------------------------------------------
(* Numbers and walks *)

\* The numbers are well founded under a relation that is their order.
LEMMA SmallestBy ==
  ASSUME NEW R, IsWellFoundedOn(R, Nat), \A x, y \in Nat : <<y, x>> \in R <=> y < x,
         NEW T \in SUBSET Nat, T # {}
  PROVE  \E x \in T : \A y \in T : x <= y
<1>1. PICK x \in T : \A y \in T : ~ (<<y, x>> \in R)
  BY WFMin, Zenon
<1>2. \A y \in T : ~ (y < x)
  BY <1>1, Zenon
<1>3. \A a, b \in Nat : ~ (b < a) => a <= b
  OBVIOUS
<1>4. \A y \in T : x <= y
  BY <1>2, <1>3, Zenon
<1> QED BY <1>4

\* A set of numbers has a smallest.
LEMMA SmallestOf ==
  ASSUME NEW T \in SUBSET Nat, T # {}
  PROVE  \E x \in T : \A y \in T : x <= y
<1>1. \A x, y \in Nat : <<y, x>> \in OpToRel(<, Nat) <=> y < x
  BY DEF OpToRel
<1> QED BY <1>1, NatLessThanWellFounded, SmallestBy, Zenon

\* A set of numbers with a bound has a greatest.
LEMMA GreatestOf ==
  ASSUME NEW n \in Nat, NEW S \in SUBSET (0 .. n), S # {}
  PROVE  \E x \in S : \A y \in S : y <= x
<1> DEFINE T == {n - x : x \in S}
<1>0. \A x \in S : n - x \in Nat
  OBVIOUS
<1>1. T \in SUBSET Nat /\ T # {}
  BY <1>0, Zenon
<1>2. PICK x \in T : \A y \in T : x <= y
  BY <1>1, SmallestOf, Zenon
<1>3. PICK m \in S : x = n - m
  BY <1>2, Zenon
<1>4. \A y \in S : y <= m
  <2> TAKE y \in S
  <2>1. n - y \in T
    OBVIOUS
  <2>2. x <= n - y
    BY <2>1, <1>2
  <2> QED BY <2>2, <1>3
<1> QED BY <1>4

\* What is true at the start, and after a round if it was before it, is true to the end.
LEMMA HoldsToTheEnd ==
  ASSUME NEW n \in Nat, NEW P, 0 \in P, \A k \in 1 .. n : k - 1 \in P => k \in P
  PROVE  \A k \in 0 .. n : k \in P
<1> DEFINE T == {k \in 0 .. n : k \notin P}
<1> SUFFICES ASSUME T # {} PROVE FALSE
  OBVIOUS
<1>1. PICK k \in T : \A j \in T : k <= j
  <2>1. T \in SUBSET Nat
    OBVIOUS
  <2> QED BY <2>1, SmallestOf, Zenon
<1>2. k # 0 /\ k \in 1 .. n /\ k - 1 \in 0 .. n
  OBVIOUS
<1>3. k - 1 \notin T
  <2> HIDE DEF T
  <2> QED BY <1>1, <1>2
<1> QED BY <1>2, <1>3

\* A walk of n rounds runs to its end.
IsWalk(v, n, S, start, step) ==
  v \in [0 .. n -> S] /\ \A i \in 0 .. n : v[i] = IF i = 0 THEN start ELSE step[i][v[i - 1]]
LEMMA WalkRuns ==
  ASSUME NEW n \in Nat, NEW S, NEW start \in S, NEW step \in [1 .. n -> [S -> S]]
  PROVE  \E v : IsWalk(v, n, S, start, step)
<1> DEFINE Runs(k) == \E v \in [0 .. k -> S] :
             \A i \in 0 .. k : v[i] = IF i = 0 THEN start ELSE step[i][v[i - 1]]
           P == {k \in 0 .. n : Runs(k)}
<1>1. 0 \in P
  <2> DEFINE u == [i \in 0 .. 0 |-> start]
  <2>1. u \in [0 .. 0 -> S] /\ u[0] = start
    OBVIOUS
  <2>2. \A i \in 0 .. 0 : u[i] = IF i = 0 THEN start ELSE step[i][u[i - 1]]
    BY <2>1
  <2>3. Runs(0)
    BY <2>1, <2>2
  <2> QED BY <2>3
<1>2. ASSUME NEW k \in 1 .. n, k - 1 \in P PROVE k \in P
  <2>1. PICK v \in [0 .. k - 1 -> S] :
          \A i \in 0 .. k - 1 : v[i] = IF i = 0 THEN start ELSE step[i][v[i - 1]]
    BY <1>2
  <2> DEFINE w == [i \in 0 .. k |-> IF i = k THEN step[k][v[k - 1]] ELSE v[i]]
  <2>2. v[k - 1] \in S /\ step[k][v[k - 1]] \in S
    BY <1>2
  <2>3. w \in [0 .. k -> S]
    <3> SUFFICES ASSUME NEW i \in 0 .. k PROVE w[i] \in S
      OBVIOUS
    <3> QED BY <2>1, <2>2
  <2>4. ASSUME NEW i \in 0 .. k PROVE w[i] = IF i = 0 THEN start ELSE step[i][w[i - 1]]
    <3>1. CASE i = k
      <4>1. w[i - 1] = v[k - 1] /\ i # 0
        BY <1>2, <3>1
      <4>2. w[k] = step[k][v[k - 1]]
        BY <1>2
      <4> HIDE DEF w
      <4> QED BY <3>1, <4>1, <4>2
    <3>2. CASE i # k
      <4>1. i \in 0 .. k - 1 /\ w[i] = v[i] /\ (i # 0 => w[i - 1] = v[i - 1])
        BY <1>2, <3>2
      <4> HIDE DEF w
      <4> QED BY <4>1, <2>1
    <3> QED BY <3>1, <3>2
  <2>5. Runs(k)
    <3> HIDE DEF w
    <3> QED BY <2>3, <2>4
  <2> QED BY <2>5
<1>3. \A k \in 0 .. n : k \in P
  <2> HIDE DEF P
  <2> QED BY <1>1, <1>2, HoldsToTheEnd
<1>4. Runs(n)
  BY <1>3
<1> QED BY <1>4 DEF IsWalk

\* A walk that is defined by its rounds is one.
LEMMA WalkIs ==
  ASSUME NEW n \in Nat, NEW S, NEW start \in S, NEW step \in [1 .. n -> [S -> S]],
         NEW w, \A i \in 0 .. n : w[i] = IF i = 0 THEN start
                                         ELSE IF w[i - 1] \in S THEN step[i][w[i - 1]] ELSE w[i]
  PROVE  \A i \in 0 .. n : w[i] \in S
<1> DEFINE P == {i \in 0 .. n : w[i] \in S}
<1>1. 0 \in P
  OBVIOUS
<1>2. ASSUME NEW k \in 1 .. n, k - 1 \in P PROVE k \in P
  <2>1. k \in 0 .. n /\ k # 0 /\ w[k - 1] \in S
    BY <1>2
  <2>2. w[k] = step[k][w[k - 1]]
    BY <2>1
  <2> QED BY <2>1, <2>2
<1>3. \A k \in 0 .. n : k \in P
  <2> HIDE DEF P
  <2> QED BY <1>1, <1>2, HoldsToTheEnd
<1> QED BY <1>3

-----------------------------------------------------------------------------
(* The history *)

Uses == {"call", "result"}

\* The program writes one system message, the first; an answer holds calls and results
\* with ids.
SystemFirst == Len(history) >= 1 /\ \A i \in DOMAIN history : history[i].kind = "system" <=> i = 1
QueueInv    == \A i \in DOMAIN queue : queue[i].kind \in Uses /\ queue[i].id \in Ids
TypeInv     == TypeOK /\ SystemFirst /\ QueueInv

LEMMA ItemFields ==
  /\ \A x \in Item : x.kind \in Kinds /\ x.id \in Ids \cup {None}
  /\ \A k \in Kinds : Said(k) \in Item /\ Said(k).kind = k /\ Said(k).id = None
  /\ \A k \in Kinds, d \in Ids \cup {None} : [kind |-> k, id |-> d] \in Item
  BY DEF Item, Said

\* What a step adds to the history.
LEMMA AddsOne ==
  ASSUME TypeInv, NEW x \in Item, Adds(<<x>>)
  PROVE  /\ history' \in Seq(Item) /\ Len(history') = Len(history) + 1 /\ Len(history') <= MaxHistory
         /\ \A i \in 1 .. Len(history) : history'[i] = history[i]
         /\ history'[Len(history) + 1] = x
  BY DEF TypeInv, TypeOK, Adds

LEMMA AddsKeeps ==
  ASSUME TypeInv, NEW x \in Item, Adds(<<x>>), x.kind # "system"
  PROVE  history' \in Seq(Item) /\ Len(history') <= MaxHistory /\ SystemFirst'
<1>1. history \in Seq(Item)
  BY DEF TypeInv, TypeOK
<1>2. SystemFirst'
  BY <1>1, AddsOne DEF TypeInv, SystemFirst
<1> QED BY <1>2, AddsOne

\* Sequences one after the other.
LEMMA Joins ==
  ASSUME NEW S, NEW s \in Seq(S), NEW t \in Seq(S), NEW q, q = s \o t
  PROVE  q \in Seq(S) /\ Len(s) \in Nat /\ Len(t) \in Nat /\ Len(q) = Len(s) + Len(t)
  OBVIOUS
LEMMA JoinsAt ==
  ASSUME NEW S, NEW s \in Seq(S), NEW t \in Seq(S), NEW q, q = s \o t
  PROVE  /\ \A i \in 1 .. Len(s) : q[i] = s[i]
         /\ \A i \in Len(s) + 1 .. Len(s) + Len(t) : q[i] = t[i - Len(s)]
  OBVIOUS

\* An answer with n calls.
AnswerItems(n, ids) == [k \in 1 .. n |-> [kind |-> "call", id |-> ids[k]]]
                       \o [k \in 1 .. n |-> [kind |-> "result", id |-> ids[k]]]
IsAnswer(q, n, ids) ==
  /\ q \in Seq(Item) /\ Len(q) = 2 * n
  /\ \A k \in 1 .. n : q[k].kind = "call" /\ q[k].id = ids[k]
  /\ \A k \in n + 1 .. 2 * n : q[k].kind = "result" /\ q[k].id = ids[k - n]
LEMMA AnswerIs ==
  ASSUME NEW n \in Nat, NEW ids \in [1 .. n -> Ids]
  PROVE  IsAnswer(AnswerItems(n, ids), n, ids)
<1> DEFINE q == AnswerItems(n, ids)
           c == [k \in 1 .. n |-> [kind |-> "call", id |-> ids[k]]]
           r == [k \in 1 .. n |-> [kind |-> "result", id |-> ids[k]]]
<1>1. \A k \in 1 .. n : c[k] \in Item /\ r[k] \in Item
  BY DEF Item, Kinds
<1>2. c \in Seq(Item) /\ r \in Seq(Item) /\ Len(c) = n /\ Len(r) = n
  <2>1. c \in [1 .. n -> Item] /\ r \in [1 .. n -> Item]
    BY <1>1
  <2>2. c \in Seq(Item) /\ r \in Seq(Item)
    <3> HIDE DEF c, r
    <3> QED BY <2>1, SeqDef
  <2>3. DOMAIN c = 1 .. n /\ DOMAIN r = 1 .. n
    OBVIOUS
  <2>4. 1 .. Len(c) = 1 .. n /\ 1 .. Len(r) = 1 .. n /\ Len(c) \in Nat /\ Len(r) \in Nat
    BY <2>2, <2>3, LenProperties, Zenon
  <2> HIDE DEF c, r
  <2>5. ASSUME NEW x \in Nat, 1 .. x = 1 .. n PROVE x = n
    <3>1. (x >= 1 => x \in 1 .. n) /\ (n >= 1 => n \in 1 .. x)
      BY <2>5
    <3> QED BY <3>1
  <2> QED BY <2>2, <2>4, <2>5
<1>3. \A k \in 1 .. n : c[k].kind = "call" /\ c[k].id = ids[k] /\ r[k].kind = "result" /\ r[k].id = ids[k]
  OBVIOUS
<1> HIDE DEF c, r, q
<1>4. q = c \o r
  BY DEF c, r, q, AnswerItems
<1>5. q \in Seq(Item) /\ Len(q) = Len(c) + Len(r)
  <2>1. c \in Seq(Item) /\ r \in Seq(Item)
    BY <1>2
  <2>2. q \in Seq(Item)
    BY <2>1, <1>4, Joins
  <2>3. Len(q) = Len(c) + Len(r)
    BY <2>1, <1>4, Joins
  <2> QED BY <2>2, <2>3
<1>7. /\ \A k \in 1 .. Len(c) : q[k] = c[k]
      /\ \A k \in Len(c) + 1 .. Len(c) + Len(r) : q[k] = r[k - Len(c)]
  BY <1>2, <1>4, JoinsAt
<1>6. /\ Len(q) = 2 * n
      /\ \A k \in 1 .. n : q[k] = c[k]
      /\ \A k \in n + 1 .. 2 * n : q[k] = r[k - n] /\ k - n \in 1 .. n
  BY <1>2, <1>5, <1>7
<1>8. IsAnswer(q, n, ids)
  BY <1>3, <1>5, <1>6 DEF IsAnswer
<1> QED BY <1>8 DEF q

LEMMA TypeStep == ASSUME TypeInv, [Next]_vars PROVE TypeInv'
<1> USE ItemFields
<1>0. /\ history \in Seq(Item) /\ Len(history) \in Nat /\ queue \in Seq(Item) /\ compactions \in Nat
      /\ \A k \in {"user", "event", "assistant"} : k \in Kinds /\ Said(k) \in Item /\ Said(k).kind # "system"
      /\ {} \subseteq Kinds
  BY DEF TypeInv, TypeOK, Kinds
<1>q. QueueInv /\ TypeOK /\ SystemFirst
  BY DEF TypeInv
<1>1. ASSUME NEW k \in {"user", "event", "assistant"}, Adds(<<Said(k)>>), UNCHANGED <<queue, compactions>>,
             pc' \in {"idle", "ask", "append", "final"}, queue # <<>> => pc' = "append"
      PROVE  TypeInv'
  <2>1. history' \in Seq(Item) /\ Len(history') <= MaxHistory /\ SystemFirst'
    BY <1>0, <1>1, AddsKeeps
  <2>2. QueueInv'
    BY <1>q, <1>1 DEF QueueInv
  <2> QED BY <1>0, <1>1, <2>1, <2>2 DEF TypeInv, TypeOK
<1>2. CASE Begin \/ Answers \/ TakeSteers
  <2>1. \E k \in {"user", "event", "assistant"} : Adds(<<Said(k)>>)
    BY <1>2 DEF Begin, Answers, TakeSteers
  <2> QED BY <1>2, <1>1, <1>q DEF Begin, Answers, TakeSteers, TypeOK
<1>3. CASE CallsTools
  <2>1. PICK n \in 1 .. MaxCalls : \E ids \in [1 .. n -> Ids] : queue' = AnswerItems(n, ids)
    BY <1>3 DEF CallsTools, AnswerItems
  <2>2. PICK ids \in [1 .. n -> Ids] : queue' = AnswerItems(n, ids)
    BY <2>1
  <2>3. n \in Nat
    BY <2>1, ContextAssumption
  <2>4. /\ queue' \in Seq(Item) /\ Len(queue') = 2 * n
        /\ \A k \in 1 .. n : queue'[k].kind = "call" /\ queue'[k].id = ids[k]
        /\ \A k \in n + 1 .. 2 * n : queue'[k].kind = "result" /\ queue'[k].id = ids[k - n]
    <3>1. IsAnswer(queue', n, ids)
      BY <2>2, <2>3, AnswerIs
    <3> QED BY <3>1 DEF IsAnswer
  <2>5. QueueInv'
    <3> SUFFICES ASSUME NEW i \in 1 .. 2 * n PROVE queue'[i].kind \in Uses /\ queue'[i].id \in Ids
      BY <2>3, <2>4 DEF QueueInv
    <3>1. CASE i <= n
      BY <2>3, <2>4, <3>1 DEF Uses
    <3>2. CASE i > n
      <4>1. i \in n + 1 .. 2 * n /\ i - n \in 1 .. n
        BY <2>3, <3>2
      <4> QED BY <2>4, <4>1 DEF Uses
    <3> QED BY <2>3, <3>1, <3>2
  <2> QED BY <1>3, <1>q, <2>4, <2>5 DEF CallsTools, TypeInv, TypeOK, SystemFirst
<1>4. CASE AppendNext
  <2>1. /\ Head(queue) \in Item /\ Tail(queue) \in Seq(Item) /\ Head(queue).kind # "system"
        /\ \A i \in DOMAIN Tail(queue) : Tail(queue)[i].kind \in Uses /\ Tail(queue)[i].id \in Ids
    <3>1. /\ Head(queue) \in Item /\ Tail(queue) \in Seq(Item) /\ Len(Tail(queue)) = Len(queue) - 1
          /\ \A i \in 1 .. Len(Tail(queue)) : Tail(queue)[i] = queue[i + 1]
      BY <1>0, <1>4, HeadTailProperties DEF AppendNext
    <3>2. Head(queue) = queue[1] /\ 1 \in DOMAIN queue
      BY <1>0, <1>4 DEF AppendNext
    <3> QED BY <1>0, <1>q, <3>1, <3>2 DEF QueueInv, Uses
  <2>2. history' \in Seq(Item) /\ Len(history') <= MaxHistory /\ SystemFirst'
    BY <1>4, <2>1, AddsKeeps DEF AppendNext
  <2> QED BY <1>4, <1>q, <2>1, <2>2 DEF AppendNext, TypeInv, TypeOK, QueueInv
<1>5. CASE NoSteers
  BY <1>5, <1>q DEF NoSteers, TypeInv, TypeOK, SystemFirst, QueueInv
<1>6. CASE Fails
  BY <1>6, <1>q DEF Fails, TypeInv, TypeOK, SystemFirst, QueueInv
<1>7. CASE ProcessEvent
  BY <1>7, <1>1, <1>q DEF ProcessEvent, TypeOK
<1>8. CASE Rewind
  <2>1. PICK i \in DOMAIN history : history[i].kind = "user" /\ history' = SubSeq(history, 1, i - 1)
    BY <1>8 DEF Rewind
  <2>2. i # 1 /\ i \in 1 .. Len(history)
    BY <1>0, <1>q, <2>1 DEF SystemFirst
  <2>3. /\ history' \in Seq(Item) /\ Len(history') = i - 1 /\ \A k \in 1 .. i - 1 : history'[k] = history[k]
    BY <1>0, <2>1, <2>2
  <2>4. UNCHANGED <<pc, queue, compactions>>
    BY <1>8 DEF Rewind
  <2>5. SystemFirst'
    BY <1>0, <1>q, <2>2, <2>3 DEF SystemFirst
  <2>6. TypeOK'
    BY <1>0, <1>q, <2>2, <2>3, <2>4, ContextAssumption DEF TypeOK
  <2> QED BY <1>q, <2>4, <2>5, <2>6 DEF TypeInv, QueueInv
<1>9. CASE Compact
  <2>1. PICK i \in 2 .. Len(history), last \in 2 .. Len(history),
             new \in {Said("user"), Said("assistant")} \cup [kind : {"call", "result"}, id : Ids \cup {None}] :
           /\ i <= last
           /\ history' = SubSeq(history, 1, i - 1) \o <<new>> \o SubSeq(history, last + 1, Len(history))
    BY <1>9 DEF Compact
  <2>2. new \in Item /\ new.kind # "system"
    BY <2>1 DEF Item, Said, Kinds
  <2> DEFINE s == SubSeq(history, 1, i - 1)
             t == SubSeq(history, last + 1, Len(history))
  <2>3. /\ s \in Seq(Item) /\ Len(s) = i - 1 /\ \A k \in 1 .. i - 1 : s[k] = history[k]
    BY <1>0, <2>1
  <2>4. /\ t \in Seq(Item) /\ Len(t) = Len(history) - last
        /\ \A k \in 1 .. Len(t) : t[k] = history[last + k]
    <3>1. \A k \in last + 1 .. Len(history) : history[k] \in Item
      BY <1>0, <2>1
    <3> QED BY <1>0, <2>1, <3>1, SubSeqProperties
  <2> HIDE DEF s, t
  <2> DEFINE u == s \o <<new>>
  <2>5. /\ u \in Seq(Item) /\ Len(u) = i
        /\ \A k \in 1 .. i : u[k] = IF k < i THEN history[k] ELSE new
    BY <2>1, <2>2, <2>3
  <2> HIDE DEF u
  <2>6. history' = u \o t
    BY <2>1 DEF u, s, t
  <2>a. history' \in Seq(Item) /\ Len(history') = Len(u) + Len(t)
    <3>0. u \in Seq(Item) /\ t \in Seq(Item)
      BY <2>4, <2>5
    <3>1. history' \in Seq(Item)
      BY <2>6, <3>0, Joins
    <3>2. Len(history') = Len(u) + Len(t)
      BY <2>6, <3>0, Joins
    <3> QED BY <3>1, <3>2
  <2>b. /\ \A k \in 1 .. Len(u) : history'[k] = u[k]
        /\ \A k \in Len(u) + 1 .. Len(u) + Len(t) : history'[k] = t[k - Len(u)]
    BY <2>4, <2>5, <2>6, JoinsAt
  <2>7. /\ history' \in Seq(Item) /\ Len(history') = i + Len(history) - last
        /\ \A k \in 1 .. i : history'[k] = u[k]
        /\ \A k \in i + 1 .. i + Len(history) - last : history'[k] = t[k - i]
    BY <1>0, <2>1, <2>4, <2>5, <2>a, <2>b
  <2>8. SystemFirst'
    <3>1. ASSUME NEW k \in 1 .. Len(history') PROVE history'[k].kind = "system" <=> k = 1
      <4>1. CASE k < i
        BY <1>0, <1>q, <2>1, <2>5, <2>7, <4>1 DEF SystemFirst
      <4>2. CASE k = i
        BY <1>0, <2>1, <2>2, <2>5, <2>7, <4>2
      <4>3. CASE k > i
        <5>0. k - i \in 1 .. Len(t) /\ last + (k - i) \in 1 .. Len(history) /\ last + (k - i) # 1
          <6>1. /\ i \in Nat /\ last \in Nat /\ last >= 2 /\ k \in Nat /\ k <= i + Len(history) - last
                /\ Len(t) = Len(history) - last /\ k # 1
            BY <1>0, <2>1, <2>4, <2>7, <4>3
          <6> HIDE DEF t
          <6> QED BY <1>0, <4>3, <6>1
        <5>1. history'[k] = t[k - i] /\ t[k - i] = history[last + (k - i)]
          <6>1. k \in i + 1 .. i + Len(history) - last
            BY <1>0, <2>1, <2>7, <4>3
          <6> QED BY <2>4, <2>7, <5>0, <6>1
        <5>2. history[last + (k - i)].kind # "system" /\ k # 1
          <6>1. i \in Nat /\ i >= 2
            BY <2>1
          <6> QED BY <1>q, <4>3, <5>0, <6>1 DEF SystemFirst
        <5> QED BY <5>1, <5>2
      <4> QED BY <2>1, <4>1, <4>2, <4>3
    <3>2. Len(history') >= 1
      BY <1>0, <2>1, <2>7
    <3> QED BY <2>7, <3>1, <3>2 DEF SystemFirst
  <2>9. UNCHANGED <<pc, queue>> /\ compactions' \in Nat /\ Len(history') <= Len(history)
    BY <1>0, <1>9, <2>1, <2>7 DEF Compact
  <2>10. TypeOK'
    BY <1>0, <1>q, <2>7, <2>9, ContextAssumption DEF TypeOK
  <2> QED BY <1>q, <2>8, <2>9, <2>10 DEF TypeInv, QueueInv
<1>10. CASE UNCHANGED vars
  BY <1>10, <1>q DEF vars, TypeInv, TypeOK, SystemFirst, QueueInv
<1> QED BY <1>2, <1>3, <1>4, <1>5, <1>6, <1>7, <1>8, <1>9, <1>10 DEF Next

LEMMA TypesInvariant == Spec => []TypeInv
<1>1. Init => TypeInv
  BY ContextAssumption DEF Init, TypeInv, TypeOK, SystemFirst, QueueInv, Item, Kinds, Said
<1> QED BY <1>1, TypeStep, PTL DEF Spec

\* In every behaviour the history is made of items, no longer than its bound, and what
\* an answer has left to append is there only while it is appended.
THEOREM TypesHold == Spec => []TypeOK
<1>1. TypeInv => TypeOK
  BY DEF TypeInv
<1> QED BY <1>1, TypesInvariant, PTL

-----------------------------------------------------------------------------
(* Where the active loop starts, and what is in it *)

LEMMA LastUserIs ==
  ASSUME NEW h \in Seq(Item)
  PROVE  /\ LastUser(h) \in 0 .. Len(h) /\ (LastUser(h) > 0 => ByUser(h[LastUser(h)]))
         /\ \A i \in LastUser(h) + 1 .. Len(h) : ~ByUser(h[i])
         /\ \A k \in 0 .. Len(h) :
              (k > 0 => ByUser(h[k])) /\ (\A i \in k + 1 .. Len(h) : ~ByUser(h[i])) => LastUser(h) = k
<1> DEFINE Is(k) == (k > 0 => ByUser(h[k])) /\ \A i \in k + 1 .. Len(h) : ~ByUser(h[i])
           S == {k \in 0 .. Len(h) : k > 0 => ByUser(h[k])}
<1>1. \E k \in 0 .. Len(h) : Is(k)
  <2>1. Len(h) \in Nat /\ S \in SUBSET (0 .. Len(h)) /\ S # {}
    <3>1. Len(h) \in Nat /\ 0 \in S
      OBVIOUS
    <3> QED BY <3>1
  <2>2. PICK k \in S : \A y \in S : y <= k
    <3> HIDE DEF S
    <3> QED BY <2>1, GreatestOf
  <2>3. \A i \in k + 1 .. Len(h) : i \notin S /\ i \in 0 .. Len(h) /\ i > 0
    <3> HIDE DEF S
    <3> QED BY <2>1, <2>2
  <2>4. Is(k)
    BY <2>2, <2>3
  <2> QED BY <2>1, <2>4
<1>2. LastUser(h) = CHOOSE k \in 0 .. Len(h) : Is(k)
  BY DEF LastUser
<1>3. LastUser(h) \in 0 .. Len(h) /\ Is(LastUser(h))
  <2> HIDE DEF Is
  <2> QED BY <1>1, <1>2
<1>4. ASSUME NEW k \in 0 .. Len(h), NEW l \in 0 .. Len(h), Is(k), Is(l), k < l PROVE FALSE
  <2>1. l \in k + 1 .. Len(h) /\ l > 0
    BY <1>4
  <2> QED BY <1>4, <2>1
<1>5. ASSUME NEW k \in 0 .. Len(h), Is(k) PROVE LastUser(h) = k
  <2> HIDE DEF Is
  <2>1. ~ (k < LastUser(h)) /\ ~ (LastUser(h) < k)
    BY <1>3, <1>4, <1>5
  <2> QED BY <1>3, <2>1
<1> QED BY <1>3, <1>5

\* An item more.
LEMMA LastUserGrows ==
  ASSUME NEW h \in Seq(Item), NEW x \in Item, NEW g \in Seq(Item), Len(g) = Len(h) + 1,
         \A i \in 1 .. Len(h) : g[i] = h[i], g[Len(h) + 1] = x
  PROVE  LastUser(g) = IF ByUser(x) THEN Len(h) + 1 ELSE LastUser(h)
<1>1. Len(h) \in Nat /\ LastUser(h) \in 0 .. Len(h) /\ (LastUser(h) > 0 => ByUser(h[LastUser(h)]))
      /\ \A i \in LastUser(h) + 1 .. Len(h) : ~ByUser(h[i])
  BY LastUserIs
<1>2. CASE ByUser(x)
  <2>1. Len(h) + 1 \in 0 .. Len(g) /\ ByUser(g[Len(h) + 1]) /\ \A i \in Len(h) + 1 + 1 .. Len(g) : ~ByUser(g[i])
    BY <1>1, <1>2
  <2> QED BY <1>2, <2>1, LastUserIs
<1>3. CASE ~ByUser(x)
  <2> DEFINE a == LastUser(h)
  <2> HIDE DEF a
  <2>0. a \in 0 .. Len(h) /\ (a > 0 => ByUser(h[a])) /\ \A i \in a + 1 .. Len(h) : ~ByUser(h[i])
    BY <1>1 DEF a
  <2>1. a \in 0 .. Len(g) /\ (a > 0 => ByUser(g[a]))
    BY <1>1, <2>0
  <2>2. ASSUME NEW i \in a + 1 .. Len(g) PROVE ~ByUser(g[i])
    <3>1. CASE i <= Len(h)
      BY <1>1, <2>0, <3>1
    <3>2. CASE i = Len(h) + 1
      BY <1>3, <3>2
    <3> QED BY <1>1, <2>0, <3>1, <3>2
  <2>3. LastUser(g) = a
    BY <2>1, <2>2, LastUserIs
  <2> QED BY <1>3, <2>3 DEF a
<1> QED BY <1>2, <1>3

\* Items i and j have one id that no item between them has.
Apart(g, i, j) == g[i].id = g[j].id /\ \A n \in i + 1 .. j - 1 : g[n].id # g[i].id

\* After the place a there are only calls and results; each call is followed by its
\* result before its id is used again, and so is each result preceded by its call, but
\* for those whose call is not after a.
RoundsAfter(g, a) ==
  \A i \in a + 1 .. Len(g) :
    /\ g[i].kind \in Uses /\ g[i].id \in Ids
    /\ g[i].kind = "call" => \E j \in i + 1 .. Len(g) : g[j].kind = "result" /\ Apart(g, i, j)
    /\ g[i].kind = "result" /\ (\E c \in a + 1 .. i - 1 : g[c].kind = "call" /\ g[c].id = g[i].id)
         => \E c \in a + 1 .. i - 1 : g[c].kind = "call" /\ Apart(g, c, i)

\* What an answer has left to append counts.
TailInv == pc \in {"ask", "append"} =>
             LastUser(history) > 0 /\ RoundsAfter(history \o queue, LastUser(history))

\* Calls and results have ids, and each result comes after a call.
Plain(g) ==
  \A k \in 1 .. Len(g) : g[k].kind \in Uses =>
    /\ g[k].id \in Ids
    /\ g[k].kind = "result" => \E c \in 1 .. k - 1 : g[c].kind = "call" /\ g[c].id = g[k].id
KnownInv == compactions = 0 => Plain(history \o queue)

\* g is h and then q.
IsJoin(g, h, q) ==
  /\ g \in Seq(Item) /\ h \in Seq(Item) /\ q \in Seq(Item)
  /\ Len(g) \in Nat /\ Len(h) \in Nat /\ Len(q) \in Nat /\ Len(g) = Len(h) + Len(q)
  /\ \A i \in 1 .. Len(h) : g[i] = h[i]
  /\ \A i \in Len(h) + 1 .. Len(g) : g[i] = q[i - Len(h)]

LEMMA JoinIs ==
  ASSUME NEW h \in Seq(Item), NEW q \in Seq(Item)
  PROVE  IsJoin(h \o q, h, q) /\ (q = <<>> => h \o q = h)
<1> DEFINE g == h \o q
<1>0. g = h \o q
  OBVIOUS
<1> HIDE DEF g
<1>1. g \in Seq(Item) /\ Len(h) \in Nat /\ Len(q) \in Nat
  BY <1>0, Joins
<1>2. Len(g) = Len(h) + Len(q)
  BY <1>0, Joins
<1>3. \A i \in 1 .. Len(h) : g[i] = h[i]
  BY <1>0, JoinsAt
<1>4. \A i \in Len(h) + 1 .. Len(h) + Len(q) : g[i] = q[i - Len(h)]
  BY <1>0, JoinsAt
<1>5. q = <<>> => g = h
  <2> SUFFICES ASSUME q = <<>> PROVE g = h
    OBVIOUS
  <2>1. Len(q) = 0
    OBVIOUS
  <2> QED BY <1>1, <1>2, <1>3, <2>1, SeqEqual
<1>6. IsJoin(g, h, q)
  BY <1>1, <1>2, <1>3, <1>4 DEF IsJoin
<1> QED BY <1>0, <1>5, <1>6

\* The head of the queue is appended.
LEMMA MovesHead ==
  ASSUME NEW h \in Seq(Item), NEW q \in Seq(Item), q # <<>>
  PROVE  (h \o <<Head(q)>>) \o Tail(q) = h \o q
  OBVIOUS

\* A message of the user comes between h and q.
LEMMA Inserts ==
  ASSUME NEW h \in Seq(Item), NEW q \in Seq(Item), NEW x \in Item
  PROVE  LET g == (h \o <<x>>) \o q IN
           /\ g \in Seq(Item) /\ Len(g) = Len(h) + Len(q) + 1
           /\ \A i \in 1 .. Len(h) : g[i] = (h \o q)[i]
           /\ g[Len(h) + 1] = x
           /\ \A i \in Len(h) + 2 .. Len(h) + Len(q) + 1 : g[i] = (h \o q)[i - 1]
<1> DEFINE f == h \o <<x>>
           g == f \o q
           e == h \o q
<1>1. f \in Seq(Item) /\ Len(f) = Len(h) + 1 /\ f[Len(h) + 1] = x /\ \A i \in 1 .. Len(h) : f[i] = h[i]
  OBVIOUS
<1>2. Len(h) \in Nat /\ Len(q) \in Nat
  OBVIOUS
<1>3. e = h \o q
  OBVIOUS
<1>4. g = f \o q
  OBVIOUS
<1> HIDE DEF f, g, e
<1>5. IsJoin(g, f, q) /\ IsJoin(e, h, q)
  BY <1>1, <1>3, <1>4, JoinIs
<1>6. /\ g \in Seq(Item) /\ Len(g) = Len(h) + Len(q) + 1
      /\ \A i \in 1 .. Len(h) : g[i] = e[i]
      /\ g[Len(h) + 1] = x
  BY <1>1, <1>2, <1>5 DEF IsJoin
<1>7. ASSUME NEW i \in Len(h) + 2 .. Len(h) + Len(q) + 1 PROVE g[i] = e[i - 1]
  <2>1. g[i] = q[i - (Len(h) + 1)]
    BY <1>1, <1>2, <1>5, <1>7 DEF IsJoin
  <2>2. e[i - 1] = q[(i - 1) - Len(h)]
    BY <1>2, <1>5, <1>7 DEF IsJoin
  <2>3. i - (Len(h) + 1) = (i - 1) - Len(h)
    BY <1>2, <1>7
  <2> QED BY <2>1, <2>2, <2>3
<1> QED BY <1>6, <1>7 DEF f, g, e

\* An event of a process cuts the loop that is active.
LEMMA EventCuts ==
  ASSUME NEW h \in Seq(Item), NEW q \in Seq(Item), NEW x \in Item, NEW a \in 0 .. Len(h),
         RoundsAfter(h \o q, a)
  PROVE  RoundsAfter((h \o <<x>>) \o q, Len(h) + 1)
<1> DEFINE g == (h \o <<x>>) \o q
           e == h \o q
           n == Len(h)
<1>1. /\ n \in Nat /\ Len(q) \in Nat /\ Len(g) = n + Len(q) + 1 /\ Len(e) = n + Len(q)
      /\ \A i \in n + 2 .. n + Len(q) + 1 : g[i] = e[i - 1]
  BY Inserts, JoinIs DEF IsJoin
<1>2. a \in 0 .. n /\ RoundsAfter(e, a)
  OBVIOUS
<1> HIDE DEF g, e, n
<1> SUFFICES ASSUME NEW i \in n + 2 .. Len(g)
             PROVE
    /\ g[i].kind \in Uses /\ g[i].id \in Ids
    /\ g[i].kind = "call" => \E j \in i + 1 .. Len(g) : g[j].kind = "result" /\ Apart(g, i, j)
    /\ g[i].kind = "result" /\ (\E c \in n + 2 .. i - 1 : g[c].kind = "call" /\ g[c].id = g[i].id)
         => \E c \in n + 2 .. i - 1 : g[c].kind = "call" /\ Apart(g, c, i)
  <2>1. n + 1 + 1 = n + 2
    BY <1>1
  <2> QED BY <2>1 DEF RoundsAfter, g, n
<1>3. i - 1 \in a + 1 .. Len(e) /\ g[i] = e[i - 1] /\ i \in Nat
  BY <1>1, <1>2
<1>4. g[i].kind \in Uses /\ g[i].id \in Ids
  BY <1>2, <1>3 DEF RoundsAfter
<1>5. ASSUME g[i].kind = "call"
      PROVE  \E j \in i + 1 .. Len(g) : g[j].kind = "result" /\ Apart(g, i, j)
  <2>1. PICK j \in (i - 1) + 1 .. Len(e) : e[j].kind = "result" /\ Apart(e, i - 1, j)
    BY <1>2, <1>3, <1>5 DEF RoundsAfter
  <2>2. j + 1 \in i + 1 .. Len(g) /\ g[j + 1] = e[j]
    BY <1>1, <1>3, <2>1
  <2>3. \A k \in i + 1 .. j : g[k] = e[k - 1] /\ k - 1 \in (i - 1) + 1 .. j - 1
    BY <1>1, <1>3, <2>1
  <2>4. Apart(g, i, j + 1)
    <3>1. (j + 1) - 1 = j
      BY <1>3, <2>1
    <3>2. g[i].id = g[j + 1].id
      BY <1>3, <2>1, <2>2 DEF Apart
    <3>3. \A k \in i + 1 .. j : g[k].id # g[i].id
      BY <1>3, <2>1, <2>3 DEF Apart
    <3> QED BY <3>1, <3>2, <3>3 DEF Apart
  <2> QED BY <2>1, <2>2, <2>4
<1>6. ASSUME g[i].kind = "result", NEW d \in n + 2 .. i - 1, g[d].kind = "call", g[d].id = g[i].id
      PROVE  \E c \in n + 2 .. i - 1 : g[c].kind = "call" /\ Apart(g, c, i)
  <2>1. d - 1 \in a + 1 .. (i - 1) - 1 /\ g[d] = e[d - 1]
    BY <1>1, <1>2, <1>3, <1>6
  <2>2. PICK c \in a + 1 .. (i - 1) - 1 : e[c].kind = "call" /\ Apart(e, c, i - 1)
    BY <1>2, <1>3, <1>6, <2>1 DEF RoundsAfter
  <2>3. c >= d - 1
    <3>1. SUFFICES ASSUME c < d - 1 PROVE FALSE
      BY <1>2, <2>1, <2>2, <1>3
    <3>2. d - 1 \in c + 1 .. (i - 1) - 1
      BY <1>2, <1>3, <2>1, <2>2, <3>1
    <3> QED BY <1>3, <1>6, <2>1, <2>2, <3>2 DEF Apart
  <2>4. c + 1 \in n + 2 .. i - 1 /\ g[c + 1] = e[c]
    <3>1. c \in Nat /\ d \in Nat /\ d >= n + 2
      BY <1>1, <1>2, <1>3, <1>6, <2>2
    <3>2. c + 1 \in n + 2 .. i - 1 /\ c + 1 \in n + 2 .. n + Len(q) + 1 /\ (c + 1) - 1 = c
      BY <1>1, <1>3, <2>2, <2>3, <3>1
    <3> QED BY <1>1, <3>2
  <2>5. ASSUME NEW k \in c + 2 .. i - 1 PROVE g[k] = e[k - 1] /\ k - 1 \in c + 1 .. (i - 1) - 1
    <3>1. c + 1 \in Nat /\ c \in Nat /\ c + 1 >= n + 2 /\ i \in n + 2 .. n + Len(q) + 1
      BY <1>1, <1>2, <2>2, <2>4
    <3>2. k \in n + 2 .. n + Len(q) + 1 /\ k - 1 \in c + 1 .. (i - 1) - 1
      BY <1>1, <3>1, <1>3
    <3> QED BY <1>1, <3>2
  <2>6. Apart(g, c + 1, i)
    <3>1. c + 1 + 1 = c + 2
      BY <2>2, <1>2
    <3> QED BY <1>3, <2>2, <2>4, <2>5, <3>1 DEF Apart
  <2> QED BY <2>2, <2>4, <2>6
<1> QED BY <1>4, <1>5, <1>6

\* The items of an answer follow each other as they should.
LEMMA AnswerRounds ==
  ASSUME NEW h \in Seq(Item), NEW a \in 0 .. Len(h), RoundsAfter(h, a),
         NEW n \in Nat, NEW ids \in [1 .. n -> Ids], IsInjective(ids)
  PROVE  RoundsAfter(h \o AnswerItems(n, ids), a)
<1> DEFINE q == AnswerItems(n, ids)
           g == h \o q
           m == Len(h)
<1>1. /\ q \in Seq(Item) /\ Len(q) = 2 * n
      /\ \A k \in 1 .. n : q[k].kind = "call" /\ q[k].id = ids[k]
      /\ \A k \in n + 1 .. 2 * n : q[k].kind = "result" /\ q[k].id = ids[k - n]
  <2>1. IsAnswer(q, n, ids)
    BY AnswerIs
  <2> HIDE DEF q
  <2> QED BY <2>1 DEF IsAnswer
<1> HIDE DEF q
<1>2. IsJoin(g, h, q)
  BY <1>1, JoinIs
<1> HIDE DEF g, m
<1>3. /\ m \in Nat /\ Len(g) = m + 2 * n /\ a \in 0 .. m
      /\ \A i \in 1 .. m : g[i] = h[i]
      /\ \A i \in m + 1 .. m + 2 * n : g[i] = q[i - m]
  BY <1>1, <1>2 DEF IsJoin, m
<1>4. /\ \A k \in 1 .. n : g[m + k].kind = "call" /\ g[m + k].id = ids[k]
      /\ \A k \in 1 .. n : g[m + n + k].kind = "result" /\ g[m + n + k].id = ids[k]
  <2>1. ASSUME NEW k \in 1 .. n PROVE g[m + k].kind = "call" /\ g[m + k].id = ids[k]
    <3>1. m + k \in m + 1 .. m + 2 * n /\ (m + k) - m = k
      BY <1>3
    <3> QED BY <1>1, <1>3, <3>1
  <2>2. ASSUME NEW k \in 1 .. n PROVE g[m + n + k].kind = "result" /\ g[m + n + k].id = ids[k]
    <3>1. m + n + k \in m + 1 .. m + 2 * n /\ (m + n + k) - m = n + k /\ n + k \in n + 1 .. 2 * n /\ (n + k) - n = k
      BY <1>3
    <3> QED BY <1>1, <1>3, <3>1
  <2> QED BY <2>1, <2>2
<1>5. \A j, k \in 1 .. n : ids[j] = ids[k] => j = k
  BY DEF IsInjective
<1>6. ASSUME NEW k \in 1 .. n PROVE Apart(g, m + k, m + n + k)
  <2>1. g[m + k].id = g[m + n + k].id
    BY <1>4
  <2>2. ASSUME NEW i \in m + k + 1 .. m + n + k - 1 PROVE g[i].id # ids[k]
    <3>1. CASE i <= m + n
      <4>1. i - m \in 1 .. n /\ m + (i - m) = i /\ i - m # k
        BY <1>3, <3>1
      <4> QED BY <1>4, <1>5, <4>1
    <3>2. CASE i > m + n
      <4>1. i - (m + n) \in 1 .. n /\ m + n + (i - (m + n)) = i /\ i - (m + n) # k
        BY <1>3, <3>2
      <4> QED BY <1>4, <1>5, <4>1
    <3> QED BY <1>3, <3>1, <3>2
  <2>3. g[m + k].id = ids[k]
    BY <1>4
  <2>4. \A i \in (m + k) + 1 .. (m + n + k) - 1 : g[i].id # g[m + k].id
    <3>1. (m + k) + 1 .. (m + n + k) - 1 = m + k + 1 .. m + n + k - 1
      BY <1>3
    <3> QED BY <2>2, <2>3, <3>1
  <2> QED BY <2>1, <2>4 DEF Apart
<1> SUFFICES ASSUME NEW i \in a + 1 .. Len(g)
             PROVE
    /\ g[i].kind \in Uses /\ g[i].id \in Ids
    /\ g[i].kind = "call" => \E j \in i + 1 .. Len(g) : g[j].kind = "result" /\ Apart(g, i, j)
    /\ g[i].kind = "result" /\ (\E c \in a + 1 .. i - 1 : g[c].kind = "call" /\ g[c].id = g[i].id)
         => \E c \in a + 1 .. i - 1 : g[c].kind = "call" /\ Apart(g, c, i)
  BY DEF RoundsAfter, g, q
<1>7. CASE i <= m
  <2>0. i \in a + 1 .. Len(h) /\ g[i] = h[i] /\ i \in Nat
    BY <1>3, <1>7 DEF m
  <2>1. g[i].kind \in Uses /\ g[i].id \in Ids
    BY <2>0 DEF RoundsAfter
  <2>2. ASSUME g[i].kind = "call"
        PROVE  \E j \in i + 1 .. Len(g) : g[j].kind = "result" /\ Apart(g, i, j)
    <3>1. PICK j \in i + 1 .. Len(h) : h[j].kind = "result" /\ Apart(h, i, j)
      BY <2>0, <2>2 DEF RoundsAfter
    <3>2. j \in i + 1 .. Len(g) /\ \A k \in i .. j : g[k] = h[k]
      BY <1>3, <2>0, <3>1 DEF m
    <3>3. Apart(g, i, j)
      <4>1. i \in i .. j /\ j \in i .. j /\ \A k \in i + 1 .. j - 1 : k \in i .. j
        BY <2>0, <3>1
      <4> QED BY <3>1, <3>2, <4>1 DEF Apart
    <3> QED BY <2>0, <3>1, <3>2, <3>3
  <2>3. ASSUME g[i].kind = "result", NEW d \in a + 1 .. i - 1, g[d].kind = "call", g[d].id = g[i].id
        PROVE  \E c \in a + 1 .. i - 1 : g[c].kind = "call" /\ Apart(g, c, i)
    <3>0. \A k \in a + 1 .. i : g[k] = h[k]
      BY <1>3, <2>0 DEF m
    <3>1. d \in a + 1 .. i /\ i \in a + 1 .. i
      BY <1>3, <2>0
    <3>2. PICK c \in a + 1 .. i - 1 : h[c].kind = "call" /\ Apart(h, c, i)
      BY <2>0, <2>3, <3>0, <3>1 DEF RoundsAfter
    <3>3. c \in a + 1 .. i /\ \A k \in c + 1 .. i - 1 : k \in a + 1 .. i
      BY <1>3, <2>0, <3>2
    <3>4. Apart(g, c, i)
      BY <3>0, <3>1, <3>2, <3>3 DEF Apart
    <3> QED BY <3>0, <3>2, <3>3, <3>4
  <2> QED BY <2>1, <2>2, <2>3
<1>8. CASE i > m /\ i <= m + n
  <2>1. i - m \in 1 .. n /\ m + (i - m) = i /\ m + n + (i - m) \in i + 1 .. Len(g)
    BY <1>3, <1>8
  <2>2. g[i].kind = "call" /\ g[i].id \in Ids
    BY <1>4, <2>1
  <2>3. g[m + n + (i - m)].kind = "result" /\ Apart(g, i, m + n + (i - m))
    BY <1>4, <1>6, <2>1
  <2> QED BY <2>1, <2>2, <2>3 DEF Uses
<1>9. CASE i > m + n
  <2>1. /\ i - (m + n) \in 1 .. n /\ m + n + (i - (m + n)) = i
        /\ m + (i - (m + n)) \in a + 1 .. i - 1
    BY <1>3, <1>9
  <2>2. g[i].kind = "result" /\ g[i].id \in Ids
    BY <1>4, <2>1
  <2>3. g[m + (i - (m + n))].kind = "call" /\ Apart(g, m + (i - (m + n)), i)
    BY <1>4, <1>6, <2>1
  <2> QED BY <2>1, <2>2, <2>3 DEF Uses
<1> QED BY <1>3, <1>7, <1>8, <1>9

LEMMA TailStep == ASSUME TypeInv, TailInv, [Next]_vars PROVE TailInv'
<1> USE ItemFields
<1>0. /\ history \in Seq(Item) /\ Len(history) \in Nat /\ queue \in Seq(Item)
      /\ queue # <<>> => pc = "append"
      /\ LastUser(history) \in 0 .. Len(history)
  BY LastUserIs DEF TypeInv, TypeOK
<1>k. {"user", "event", "assistant", "call", "result"} \subseteq Kinds
  BY DEF Kinds
<1>1. ASSUME Adds(<<Said("user")>>), queue = <<>>, queue' = <<>> PROVE TailInv'
  <2>1. /\ history' \in Seq(Item) /\ Len(history') = Len(history) + 1
        /\ \A i \in 1 .. Len(history) : history'[i] = history[i]
        /\ history'[Len(history) + 1] = Said("user")
    BY <1>1, <1>k, AddsOne
  <2>2. LastUser(history') = Len(history) + 1
    BY <1>0, <1>k, <2>1, LastUserGrows DEF ByUser
  <2>3. (history \o queue)' = history'
    BY <1>1, <2>1, JoinIs
  <2> QED BY <1>0, <2>1, <2>2, <2>3 DEF TailInv, RoundsAfter
<1>2. CASE Begin \/ TakeSteers
  <2>1. queue = <<>> /\ queue' = <<>> /\ Adds(<<Said("user")>>)
    BY <1>0, <1>2 DEF Begin, TakeSteers
  <2> QED BY <1>1, <2>1
<1>3. CASE CallsTools
  <2>0. UNCHANGED history /\ pc = "ask" /\ queue = <<>>
    BY <1>0, <1>3 DEF CallsTools
  <2>1. PICK n \in 1 .. MaxCalls : \E ids \in [1 .. n -> Ids] :
          IsInjective(ids) /\ queue' = AnswerItems(n, ids)
    BY <1>3 DEF CallsTools, AnswerItems
  <2>2. PICK ids \in [1 .. n -> Ids] : IsInjective(ids) /\ queue' = AnswerItems(n, ids)
    BY <2>1
  <2>3. n \in Nat
    BY <2>1, ContextAssumption
  <2>4. RoundsAfter(history, LastUser(history)) /\ LastUser(history) > 0
    BY <1>0, <2>0, JoinIs DEF TailInv
  <2>5. RoundsAfter(history \o AnswerItems(n, ids), LastUser(history))
    BY <1>0, <2>2, <2>3, <2>4, AnswerRounds
  <2> QED BY <2>0, <2>2, <2>4, <2>5 DEF TailInv
<1>4. CASE AppendNext
  <2>1. Head(queue) \in Item /\ queue # <<>> /\ ~ByUser(Head(queue)) /\ Adds(<<Head(queue)>>)
    <3>1. Head(queue) = queue[1] /\ 1 \in DOMAIN queue /\ queue[1] \in Item
      BY <1>0, <1>4 DEF AppendNext
    <3> QED BY <1>4, <3>1 DEF AppendNext, TypeInv, QueueInv, Uses, ByUser
  <2>2. (history \o queue)' = history \o queue
    BY <1>0, <1>4, <2>1, MovesHead DEF AppendNext, Adds
  <2>3. /\ history' \in Seq(Item) /\ Len(history') = Len(history) + 1
        /\ \A i \in 1 .. Len(history) : history'[i] = history[i]
        /\ history'[Len(history) + 1] = Head(queue)
    BY <2>1, AddsOne
  <2>4. LastUser(history') = LastUser(history)
    BY <1>0, <2>1, <2>3, LastUserGrows
  <2> QED BY <1>4, <2>2, <2>4 DEF AppendNext, TailInv
<1>5. CASE Answers \/ Fails \/ Rewind \/ Compact
  BY <1>5 DEF Answers, Fails, Rewind, Compact, TailInv
<1>6. CASE NoSteers
  BY <1>6 DEF NoSteers, TailInv
<1>7. CASE ProcessEvent
  <2>1. /\ history' \in Seq(Item) /\ Len(history') = Len(history) + 1
        /\ \A i \in 1 .. Len(history) : history'[i] = history[i]
        /\ history'[Len(history) + 1] = Said("event")
    BY <1>7, <1>k, AddsOne DEF ProcessEvent
  <2>2. LastUser(history') = Len(history) + 1
    BY <1>0, <1>k, <2>1, LastUserGrows DEF ByUser
  <2>3. (history \o queue)' = (history \o <<Said("event")>>) \o queue
    BY <1>7 DEF ProcessEvent, Adds
  <2>4. pc \in {"ask", "append"} => RoundsAfter((history \o queue)', Len(history) + 1)
    BY <1>0, <1>k, <2>3, EventCuts DEF TailInv
  <2> QED BY <1>0, <1>7, <2>2, <2>4 DEF ProcessEvent, TailInv
<1>8. CASE UNCHANGED vars
  BY <1>8 DEF vars, TailInv
<1> QED BY <1>2, <1>3, <1>4, <1>5, <1>6, <1>7, <1>8 DEF Next

LEMMA TailInvariant == Spec => []TailInv
<1>1. Init => TailInv
  BY DEF Init, TailInv
<1> QED BY <1>1, TailStep, TypesInvariant, PTL DEF Spec

-----------------------------------------------------------------------------
(* Calls, and the results that come after them *)

\* Where the history is cut, and where something is put into it.
LEMMA PlainStart ==
  ASSUME NEW g \in Seq(Item), NEW f \in Seq(Item), Len(f) <= Len(g), \A i \in 1 .. Len(f) : f[i] = g[i], Plain(g)
  PROVE  Plain(f)
<1>1. Len(f) \in Nat /\ Len(g) \in Nat
  OBVIOUS
<1> SUFFICES ASSUME NEW k \in 1 .. Len(f), f[k].kind \in Uses
             PROVE  /\ f[k].id \in Ids
                    /\ f[k].kind = "result" => \E c \in 1 .. k - 1 : f[c].kind = "call" /\ f[c].id = f[k].id
  BY DEF Plain
<1>2. k \in 1 .. Len(g) /\ f[k] = g[k] /\ \A c \in 1 .. k - 1 : f[c] = g[c]
  BY <1>1
<1> QED BY <1>2 DEF Plain

LEMMA PlainInserts ==
  ASSUME NEW h \in Seq(Item), NEW q \in Seq(Item), NEW x \in Item, x.kind \notin Uses, Plain(h \o q)
  PROVE  Plain((h \o <<x>>) \o q)
<1> DEFINE g == (h \o <<x>>) \o q
           e == h \o q
           n == Len(h)
<1>1. /\ n \in Nat /\ Len(q) \in Nat /\ Len(g) = n + Len(q) + 1 /\ Len(e) = n + Len(q)
      /\ \A i \in 1 .. n : g[i] = e[i]
      /\ g[n + 1] = x
      /\ \A i \in n + 2 .. n + Len(q) + 1 : g[i] = e[i - 1]
  BY Inserts, JoinIs DEF IsJoin
<1>2. Plain(e)
  OBVIOUS
<1> HIDE DEF g, e, n
<1> SUFFICES ASSUME NEW k \in 1 .. Len(g), g[k].kind \in Uses
             PROVE  /\ g[k].id \in Ids
                    /\ g[k].kind = "result" => \E c \in 1 .. k - 1 : g[c].kind = "call" /\ g[c].id = g[k].id
  BY DEF Plain, g
<1>3. CASE k <= n
  <2>1. k \in 1 .. Len(e) /\ g[k] = e[k] /\ \A c \in 1 .. k - 1 : g[c] = e[c]
    BY <1>1, <1>3
  <2> QED BY <1>2, <2>1 DEF Plain
<1>4. CASE k > n
  <2>0. k # n + 1
    BY <1>1
  <2>1. k \in n + 2 .. n + Len(q) + 1
    BY <1>1, <1>4, <2>0
  <2>2. k - 1 \in 1 .. Len(e) /\ g[k] = e[k - 1]
    BY <1>1, <2>1
  <2>3. g[k].id \in Ids
    BY <1>2, <2>2 DEF Plain
  <2>4. ASSUME g[k].kind = "result"
        PROVE  \E c \in 1 .. k - 1 : g[c].kind = "call" /\ g[c].id = g[k].id
    <3>1. PICK c \in 1 .. (k - 1) - 1 : e[c].kind = "call" /\ e[c].id = e[k - 1].id
      BY <1>2, <2>2, <2>4 DEF Plain
    <3>2. CASE c <= n
      <4>1. g[c] = e[c] /\ c \in 1 .. k - 1
        BY <1>1, <2>1, <3>1, <3>2
      <4> QED BY <2>2, <3>1, <4>1
    <3>3. CASE c > n
      <4>1. c + 1 \in n + 2 .. n + Len(q) + 1 /\ (c + 1) - 1 = c /\ c + 1 \in 1 .. k - 1
        BY <1>1, <2>1, <3>1, <3>3
      <4>2. g[c + 1] = e[c]
        BY <1>1, <4>1
      <4> QED BY <2>2, <3>1, <4>1, <4>2
    <3> QED BY <1>1, <2>1, <3>1, <3>2, <3>3
  <2> QED BY <2>3, <2>4
<1> QED BY <1>1, <1>3, <1>4

LEMMA PlainAnswer ==
  ASSUME NEW h \in Seq(Item), Plain(h), NEW n \in Nat, NEW ids \in [1 .. n -> Ids]
  PROVE  Plain(h \o AnswerItems(n, ids))
<1> DEFINE q == AnswerItems(n, ids)
           g == h \o q
           m == Len(h)
<1>1. /\ q \in Seq(Item) /\ Len(q) = 2 * n
      /\ \A k \in 1 .. n : q[k].kind = "call" /\ q[k].id = ids[k]
      /\ \A k \in n + 1 .. 2 * n : q[k].kind = "result" /\ q[k].id = ids[k - n]
  <2>1. IsAnswer(q, n, ids)
    BY AnswerIs
  <2> HIDE DEF q
  <2> QED BY <2>1 DEF IsAnswer
<1> HIDE DEF q
<1>2. IsJoin(g, h, q)
  BY <1>1, JoinIs
<1> HIDE DEF g, m
<1>3. /\ m \in Nat /\ Len(g) = m + 2 * n
      /\ \A i \in 1 .. m : g[i] = h[i]
      /\ \A i \in m + 1 .. m + 2 * n : g[i] = q[i - m]
  BY <1>1, <1>2 DEF IsJoin, m
<1> SUFFICES ASSUME NEW k \in 1 .. Len(g), g[k].kind \in Uses
             PROVE  /\ g[k].id \in Ids
                    /\ g[k].kind = "result" => \E c \in 1 .. k - 1 : g[c].kind = "call" /\ g[c].id = g[k].id
  BY DEF Plain, g, q
<1>4. CASE k <= m
  <2>1. k \in 1 .. Len(h) /\ g[k] = h[k] /\ \A c \in 1 .. k - 1 : g[c] = h[c]
    BY <1>3, <1>4 DEF m
  <2> QED BY <2>1 DEF Plain
<1>5. CASE k > m /\ k <= m + n
  <2>1. k - m \in 1 .. n /\ k \in m + 1 .. m + 2 * n
    BY <1>3, <1>5
  <2>2. g[k].kind = "call" /\ g[k].id = ids[k - m]
    BY <1>1, <1>3, <2>1
  <2> QED BY <2>1, <2>2
<1>6. CASE k > m + n
  <2>1. k - m \in n + 1 .. 2 * n /\ k \in m + 1 .. m + 2 * n /\ (k - m) - n \in 1 .. n
    BY <1>3, <1>6
  <2>2. g[k].kind = "result" /\ g[k].id = ids[(k - m) - n]
    BY <1>1, <1>3, <2>1
  <2>3. k - n \in m + 1 .. m + 2 * n /\ (k - n) - m = (k - m) - n /\ k - n \in 1 .. k - 1
    BY <1>3, <1>6
  <2>4. g[k - n].kind = "call" /\ g[k - n].id = ids[(k - m) - n]
    BY <1>1, <1>3, <2>1, <2>3
  <2> QED BY <2>1, <2>2, <2>3, <2>4
<1> QED BY <1>3, <1>4, <1>5, <1>6

LEMMA KnownStep == ASSUME TypeInv, KnownInv, [Next]_vars PROVE KnownInv'
<1> USE ItemFields
<1>0. /\ history \in Seq(Item) /\ Len(history) \in Nat /\ queue \in Seq(Item) /\ compactions \in Nat
      /\ queue # <<>> => pc = "append"
  BY DEF TypeInv, TypeOK
<1>k. {"user", "event", "assistant", "call", "result"} \subseteq Kinds
  BY DEF Kinds
<1>1. ASSUME NEW k \in {"user", "event", "assistant"}, Adds(<<Said(k)>>), UNCHANGED <<queue, compactions>>
      PROVE  KnownInv'
  <2>1. (history \o queue)' = (history \o <<Said(k)>>) \o queue
    BY <1>1 DEF Adds
  <2>2. Said(k) \in Item /\ Said(k).kind \notin Uses
    BY <1>k DEF Uses
  <2>3. compactions = 0 => Plain((history \o queue)')
    BY <1>0, <2>1, <2>2, PlainInserts DEF KnownInv
  <2> QED BY <1>1, <2>3 DEF KnownInv
<1>2. CASE Begin \/ Answers \/ TakeSteers \/ ProcessEvent
  <2>1. UNCHANGED <<queue, compactions>> /\ \E k \in {"user", "event", "assistant"} : Adds(<<Said(k)>>)
    BY <1>2 DEF Begin, Answers, TakeSteers, ProcessEvent
  <2> QED BY <1>1, <2>1
<1>3. CASE CallsTools
  <2>0. UNCHANGED <<history, compactions>> /\ queue = <<>>
    BY <1>0, <1>3 DEF CallsTools
  <2>1. PICK n \in 1 .. MaxCalls : \E ids \in [1 .. n -> Ids] : queue' = AnswerItems(n, ids)
    BY <1>3 DEF CallsTools, AnswerItems
  <2>2. PICK ids \in [1 .. n -> Ids] : queue' = AnswerItems(n, ids)
    BY <2>1
  <2>3. n \in Nat
    BY <2>1, ContextAssumption
  <2>4. compactions = 0 => Plain(history)
    BY <1>0, <2>0, JoinIs DEF KnownInv
  <2>5. compactions = 0 => Plain(history \o AnswerItems(n, ids))
    BY <1>0, <2>3, <2>4, PlainAnswer
  <2> QED BY <2>0, <2>2, <2>5 DEF KnownInv
<1>4. CASE AppendNext
  <2>1. (history \o queue)' = history \o queue
    BY <1>0, <1>4, MovesHead DEF AppendNext, Adds
  <2> QED BY <1>4, <2>1 DEF AppendNext, KnownInv
<1>5. CASE NoSteers
  BY <1>5 DEF NoSteers, KnownInv
<1>6. CASE Fails
  <2>1. UNCHANGED <<history, compactions>> /\ queue' = <<>>
    BY <1>6 DEF Fails
  <2>2. (history \o queue)' = history
    BY <1>0, <2>1, JoinIs
  <2>3. compactions = 0 => Plain(history)
    <3>1. Len(history) <= Len(history \o queue) /\ (history \o queue) \in Seq(Item)
          /\ \A i \in 1 .. Len(history) : history[i] = (history \o queue)[i]
      BY <1>0, JoinIs DEF IsJoin
    <3> QED BY <1>0, <3>1, PlainStart DEF KnownInv
  <2> QED BY <2>1, <2>2, <2>3 DEF KnownInv
<1>7. CASE Rewind
  <2>1. PICK i \in DOMAIN history : history[i].kind = "user" /\ history' = SubSeq(history, 1, i - 1)
    BY <1>7 DEF Rewind
  <2>2. history' \in Seq(Item) /\ Len(history') <= Len(history) /\ \A k \in 1 .. Len(history') : history'[k] = history[k]
    BY <1>0, <2>1
  <2>3. queue = <<>> /\ UNCHANGED <<queue, compactions>>
    BY <1>0, <1>7 DEF Rewind
  <2>4. (history \o queue)' = history' /\ history \o queue = history
    BY <1>0, <2>2, <2>3, JoinIs
  <2>5. compactions = 0 => Plain(history')
    BY <1>0, <2>2, <2>4, PlainStart DEF KnownInv
  <2> QED BY <2>3, <2>4, <2>5 DEF KnownInv
<1>8. CASE Compact
  <2>1. compactions' # 0
    BY <1>0, <1>8 DEF Compact
  <2> QED BY <2>1 DEF KnownInv
<1>9. CASE UNCHANGED vars
  BY <1>9 DEF vars, KnownInv
<1> QED BY <1>2, <1>3, <1>4, <1>5, <1>6, <1>7, <1>8, <1>9 DEF Next

LEMMA KnownInvariant == Spec => []KnownInv
<1>1. Init => KnownInv
  <2> SUFFICES ASSUME Init PROVE Plain(history \o queue)
    BY DEF KnownInv
  <2>1. history = <<Said("system")>> /\ queue = <<>> /\ history \in Seq(Item)
    BY ItemFields DEF Init, Kinds
  <2>2. history \o queue = history
    BY <2>1, JoinIs
  <2> QED BY <2>1, <2>2 DEF Plain, Uses, Said
<1> QED BY <1>1, KnownStep, TypesInvariant, PTL DEF Spec

-----------------------------------------------------------------------------
(* The walks *)

Seen   == [calls : [CallIds -> 0 .. MaxHistory], pending : Seq(CallIds)]
Told1  == {m \in Message : m.kind \in Uses => m.told # <<>>}

LEMMA MessageFields ==
  /\ \A m \in Message : m.kind \in Kinds /\ m.id \in CallIds \cup {None} /\ m.told \in Seq(Telling)
  /\ \A k \in Kinds, d \in CallIds \cup {None}, t \in Seq(Telling) :
       [kind |-> k, id |-> d, told |-> t] \in Message
  /\ \A t \in Telling : t.at \in 1 .. MaxHistory /\ t.call \in 0 .. MaxHistory
  BY DEF Message, Telling

LEMMA SeenIs ==
  /\ NothingSeen \in Seen /\ \A id \in CallIds : NothingSeen.calls[id] = 0
  /\ \A s \in Seen, m \in Message : m.told # <<>> =>
       /\ At(m) \in 1 .. MaxHistory /\ CallId(m) \in CallIds
       /\ SawCall(s, m) \in Seen /\ SawResult(s, m) \in Seen
       /\ ResultId(s, m) \in CallIds /\ ResultOf(s, m) \in Telling
<1>1. NothingSeen \in Seen /\ \A id \in CallIds : NothingSeen.calls[id] = 0
  <2>1. [id \in CallIds |-> 0] \in [CallIds -> 0 .. MaxHistory]
    BY ContextAssumption
  <2> QED BY <2>1 DEF NothingSeen, Seen
<1> SUFFICES ASSUME NEW s \in Seen, NEW m \in Message, m.told # <<>>
             PROVE  /\ At(m) \in 1 .. MaxHistory /\ CallId(m) \in CallIds
                    /\ SawCall(s, m) \in Seen /\ SawResult(s, m) \in Seen
                    /\ ResultId(s, m) \in CallIds /\ ResultOf(s, m) \in Telling
  BY <1>1
<1>2. At(m) \in 1 .. MaxHistory
  <2>1. m.told[1] \in Telling
    BY MessageFields
  <2> QED BY <2>1, MessageFields DEF At
<1>3. CallId(m) \in CallIds
  BY <1>2, MessageFields DEF CallId, CallIds
<1>4. s.calls \in [CallIds -> 0 .. MaxHistory] /\ s.pending \in Seq(CallIds)
  BY DEF Seen
<1>5. SawCall(s, m) \in Seen
  <2>1. [s.calls EXCEPT ![CallId(m)] = At(m)] \in [CallIds -> 0 .. MaxHistory]
    BY <1>2, <1>3, <1>4
  <2>2. Append(s.pending, CallId(m)) \in Seq(CallIds)
    BY <1>3, <1>4
  <2> QED BY <2>1, <2>2 DEF SawCall, Seen
<1>6. ResultId(s, m) \in CallIds
  BY <1>3, <1>4 DEF ResultId
<1>7. ResultOf(s, m) \in Telling
  BY <1>2, <1>4, <1>6 DEF ResultOf, Telling
<1>8. SawResult(s, m) \in Seen
  <2> DEFINE p == IF s.pending # <<>> /\ Head(s.pending) = ResultId(s, m) THEN Tail(s.pending) ELSE s.pending
  <2>1. p \in Seq(CallIds)
    BY <1>4
  <2>2. SawResult(s, m) = [s EXCEPT !.pending = p]
    BY DEF SawResult
  <2> HIDE DEF p
  <2>3. [s EXCEPT !.pending = p] \in Seen
    BY <2>1 DEF Seen
  <2> QED BY <2>2, <2>3
<1> QED BY <1>2, <1>3, <1>5, <1>6, <1>7, <1>8

\* project_to_model_messages
SentSet == [seen : Seen, sent : Seq(Message)]

LEMMA SentTyped ==
  ASSUME NEW s \in SentSet, NEW m \in Told1
  PROVE  Sent(s, m) \in SentSet
<1>0. s.seen \in Seen /\ s.sent \in Seq(Message) /\ m \in Message /\ (m.kind \in Uses => m.told # <<>>)
  BY DEF SentSet, Told1
<1>1. CASE m.kind = "call"
  <2>1. [m EXCEPT !.id = CallId(m)] \in Message /\ SawCall(s.seen, m) \in Seen
    BY <1>0, <1>1, SeenIs DEF Uses, Message
  <2> QED BY <1>0, <1>1, <2>1 DEF Sent, SentSet
<1>2. CASE m.kind = "result"
  <2>1. /\ SawResult(s.seen, m) \in Seen /\ ResultId(s.seen, m) \in CallIds
        /\ <<ResultOf(s.seen, m)>> \in Seq(Telling)
    BY <1>0, <1>2, SeenIs DEF Uses
  <2>2. [m EXCEPT !.id = ResultId(s.seen, m), !.told = <<ResultOf(s.seen, m)>>] \in Message
    BY <1>0, <2>1 DEF Message
  <2> QED BY <1>0, <1>2, <2>1, <2>2 DEF Sent, SentSet
<1>3. CASE m.kind \notin Uses
  BY <1>0, <1>3 DEF Sent, SentSet, Uses
<1> QED BY <1>1, <1>2, <1>3 DEF Uses

LEMMA SentWalkIs ==
  ASSUME NEW ms \in Seq(Told1)
  PROVE  LET w == SentWalk(ms) IN
           /\ w[0] = [seen |-> NothingSeen, sent |-> <<>>]
           /\ \A k \in 1 .. Len(ms) : w[k] = Sent(w[k - 1], ms[k])
           /\ \A k \in 0 .. Len(ms) : w[k] \in SentSet
<1> DEFINE n == Len(ms)
           start == [seen |-> NothingSeen, sent |-> <<>>]
           step == [k \in 1 .. n |-> [s \in SentSet |-> Sent(s, ms[k])]]
           W(w) == w = [k \in 0 .. n |-> IF k = 0 THEN start ELSE Sent(w[k - 1], ms[k])]
<1>1. n \in Nat /\ start \in SentSet
  BY SeenIs DEF SentSet
<1>2. step \in [1 .. n -> [SentSet -> SentSet]]
  BY SentTyped
<1>3. \E w : W(w)
  <2> HIDE DEF n, start, step
  <2>0. PICK v : IsWalk(v, n, SentSet, start, step)
    BY <1>1, <1>2, WalkRuns, Zenon
  <2>1. v \in [0 .. n -> SentSet] /\ \A i \in 0 .. n : v[i] = IF i = 0 THEN start ELSE step[i][v[i - 1]]
    BY <2>0 DEF IsWalk
  <2>2. \A i \in 0 .. n : v[i] = IF i = 0 THEN start ELSE Sent(v[i - 1], ms[i])
    <3>1. \A i \in 1 .. n : i - 1 \in 0 .. n /\ v[i - 1] \in SentSet
      BY <1>1, <2>1
    <3>2. \A i \in 1 .. n : step[i][v[i - 1]] = Sent(v[i - 1], ms[i])
      BY <3>1 DEF step
    <3>3. \A i \in 0 .. n : i # 0 => i \in 1 .. n
      BY <1>1
    <3> QED BY <2>1, <3>2, <3>3, Zenon
  <2>3. W(v)
    BY <2>1, <2>2
  <2> QED BY <2>3
<1>4. SentWalk(ms) = CHOOSE w : W(w)
  BY DEF SentWalk
<1>5. W(SentWalk(ms))
  <2> HIDE DEF W
  <2> QED BY <1>3, <1>4
<1> DEFINE w == SentWalk(ms)
<1>6. /\ w[0] = start /\ \A k \in 1 .. n : w[k] = Sent(w[k - 1], ms[k])
      /\ \A k \in 0 .. n : w[k] = IF k = 0 THEN start ELSE Sent(w[k - 1], ms[k])
  <2> HIDE DEF start, n, w
  <2>1. w = [k \in 0 .. n |-> IF k = 0 THEN start ELSE Sent(w[k - 1], ms[k])]
    BY <1>5 DEF w
  <2>2. \A k \in 0 .. n : w[k] = IF k = 0 THEN start ELSE Sent(w[k - 1], ms[k])
    BY <2>1, Zenon
  <2>3. 0 \in 0 .. n /\ \A k \in 1 .. n : k \in 0 .. n /\ k # 0
    BY <1>1
  <2> QED BY <2>2, <2>3
<1>7. \A k \in 0 .. n : w[k] \in SentSet
  <2> HIDE DEF start, n, w
  <2>1. \A i \in 0 .. n : w[i] = IF i = 0 THEN start
                                ELSE IF w[i - 1] \in SentSet THEN step[i][w[i - 1]] ELSE w[i]
    <3>1. \A i \in 1 .. n : w[i - 1] \in SentSet => step[i][w[i - 1]] = Sent(w[i - 1], ms[i])
      OBVIOUS
    <3>2. \A i \in 0 .. n : i # 0 => i \in 1 .. n
      BY <1>1
    <3> HIDE DEF step
    <3> QED BY <1>6, <3>1, <3>2, Zenon
  <2> HIDE DEF step
  <2> QED BY <1>1, <1>2, <2>1, WalkIs, Zenon
<1> QED BY <1>6, <1>7

\* merge_adjacent_messages
LEMMA MergedTyped ==
  ASSUME NEW s \in Seq(Message), NEW m \in Message
  PROVE  MergedWith(s, m) \in Seq(Message)
<1>1. CASE s # <<>>
  <2>1. Last(s) \in Message /\ Front(s) \in Seq(Message)
    BY <1>1 DEF Last, Front
  <2>2. [Last(s) EXCEPT !.told = @ \o m.told] \in Message
    <3>1. Last(s).told \o m.told \in Seq(Telling)
      BY <2>1, MessageFields
    <3> QED BY <2>1, <3>1 DEF Message
  <2> QED BY <2>1, <2>2 DEF MergedWith
<1>2. CASE s = <<>>
  BY <1>2 DEF MergedWith
<1> QED BY <1>1, <1>2

LEMMA MergedWalkIs ==
  ASSUME NEW ms \in Seq(Message)
  PROVE  LET w == MergedWalk(ms) IN
           /\ w[0] = <<>>
           /\ \A k \in 1 .. Len(ms) : w[k] = MergedWith(w[k - 1], ms[k])
           /\ \A k \in 0 .. Len(ms) : w[k] \in Seq(Message)
<1> DEFINE n == Len(ms)
           start == <<>>
           step == [k \in 1 .. n |-> [s \in Seq(Message) |-> MergedWith(s, ms[k])]]
           W(w) == w = [k \in 0 .. n |-> IF k = 0 THEN start ELSE MergedWith(w[k - 1], ms[k])]
<1>1. n \in Nat /\ start \in Seq(Message)
  OBVIOUS
<1>2. step \in [1 .. n -> [Seq(Message) -> Seq(Message)]]
  <2>1. \A k \in 1 .. n : ms[k] \in Message
    OBVIOUS
  <2>2. \A k \in 1 .. n : [s \in Seq(Message) |-> MergedWith(s, ms[k])] \in [Seq(Message) -> Seq(Message)]
    BY <2>1, MergedTyped, Zenon
  <2> QED BY <2>2
<1>3. \E w : W(w)
  <2> HIDE DEF n, start, step
  <2>0. PICK v : IsWalk(v, n, Seq(Message), start, step)
    BY <1>1, <1>2, WalkRuns, Zenon
  <2>1. v \in [0 .. n -> Seq(Message)] /\ \A i \in 0 .. n : v[i] = IF i = 0 THEN start ELSE step[i][v[i - 1]]
    BY <2>0 DEF IsWalk
  <2>2. \A i \in 0 .. n : v[i] = IF i = 0 THEN start ELSE MergedWith(v[i - 1], ms[i])
    <3>1. \A i \in 1 .. n : i - 1 \in 0 .. n /\ v[i - 1] \in Seq(Message)
      BY <1>1, <2>1
    <3>2. \A i \in 1 .. n : step[i][v[i - 1]] = MergedWith(v[i - 1], ms[i])
      BY <3>1 DEF step
    <3>3. \A i \in 0 .. n : i # 0 => i \in 1 .. n
      BY <1>1
    <3> QED BY <2>1, <3>2, <3>3, Zenon
  <2>3. W(v)
    BY <2>1, <2>2
  <2> QED BY <2>3
<1>4. MergedWalk(ms) = CHOOSE w : W(w)
  BY DEF MergedWalk
<1>5. W(MergedWalk(ms))
  <2> HIDE DEF W
  <2> QED BY <1>3, <1>4
<1> DEFINE w == MergedWalk(ms)
<1>6. /\ w[0] = start /\ \A k \in 1 .. n : w[k] = MergedWith(w[k - 1], ms[k])
      /\ \A k \in 0 .. n : w[k] = IF k = 0 THEN start ELSE MergedWith(w[k - 1], ms[k])
  <2> HIDE DEF start, n, w
  <2>1. w = [k \in 0 .. n |-> IF k = 0 THEN start ELSE MergedWith(w[k - 1], ms[k])]
    BY <1>5 DEF w
  <2>2. \A k \in 0 .. n : w[k] = IF k = 0 THEN start ELSE MergedWith(w[k - 1], ms[k])
    BY <2>1, Zenon
  <2>3. 0 \in 0 .. n /\ \A k \in 1 .. n : k \in 0 .. n /\ k # 0
    BY <1>1
  <2> QED BY <2>2, <2>3
<1>7. \A k \in 0 .. n : w[k] \in Seq(Message)
  <2> HIDE DEF start, n, w
  <2>1. \A i \in 0 .. n : w[i] = IF i = 0 THEN start
                                ELSE IF w[i - 1] \in Seq(Message) THEN step[i][w[i - 1]] ELSE w[i]
    <3>1. \A i \in 1 .. n : w[i - 1] \in Seq(Message) => step[i][w[i - 1]] = MergedWith(w[i - 1], ms[i])
      OBVIOUS
    <3>2. \A i \in 0 .. n : i # 0 => i \in 1 .. n
      BY <1>1
    <3> HIDE DEF step
    <3> QED BY <1>6, <3>1, <3>2, Zenon
  <2> HIDE DEF step
  <2> QED BY <1>1, <1>2, <2>1, WalkIs, Zenon
<1> QED BY <1>6, <1>7

\* What messages tell.
LEMMA TellingTyped ==
  ASSUME NEW s \in Seq(Telling), NEW m \in Message
  PROVE  s \o m.told \in Seq(Telling)
  BY MessageFields

LEMMA TellingWalkIs ==
  ASSUME NEW ms \in Seq(Message)
  PROVE  LET w == TellingWalk(ms) IN
           /\ w[0] = <<>>
           /\ \A k \in 1 .. Len(ms) : w[k] = w[k - 1] \o ms[k].told
           /\ \A k \in 0 .. Len(ms) : w[k] \in Seq(Telling)
<1> DEFINE n == Len(ms)
           start == <<>>
           step == [k \in 1 .. n |-> [s \in Seq(Telling) |-> s \o ms[k].told]]
           W(w) == w = [k \in 0 .. n |-> IF k = 0 THEN start ELSE w[k - 1] \o ms[k].told]
<1>1. n \in Nat /\ start \in Seq(Telling)
  OBVIOUS
<1>2. step \in [1 .. n -> [Seq(Telling) -> Seq(Telling)]]
  BY TellingTyped
<1>3. \E w : W(w)
  <2> HIDE DEF n, start, step
  <2>0. PICK v : IsWalk(v, n, Seq(Telling), start, step)
    BY <1>1, <1>2, WalkRuns, Zenon
  <2>1. v \in [0 .. n -> Seq(Telling)] /\ \A i \in 0 .. n : v[i] = IF i = 0 THEN start ELSE step[i][v[i - 1]]
    BY <2>0 DEF IsWalk
  <2>2. \A i \in 0 .. n : v[i] = IF i = 0 THEN start ELSE v[i - 1] \o ms[i].told
    <3>1. \A i \in 1 .. n : i - 1 \in 0 .. n /\ v[i - 1] \in Seq(Telling)
      BY <1>1, <2>1
    <3>2. \A i \in 1 .. n : step[i][v[i - 1]] = v[i - 1] \o ms[i].told
      BY <3>1 DEF step
    <3>3. \A i \in 0 .. n : i # 0 => i \in 1 .. n
      BY <1>1
    <3> QED BY <2>1, <3>2, <3>3, Zenon
  <2>3. W(v)
    BY <2>1, <2>2
  <2> QED BY <2>3
<1>4. TellingWalk(ms) = CHOOSE w : W(w)
  BY DEF TellingWalk
<1>5. W(TellingWalk(ms))
  <2> HIDE DEF W
  <2> QED BY <1>3, <1>4
<1> DEFINE w == TellingWalk(ms)
<1>6. /\ w[0] = start /\ \A k \in 1 .. n : w[k] = w[k - 1] \o ms[k].told
      /\ \A k \in 0 .. n : w[k] = IF k = 0 THEN start ELSE w[k - 1] \o ms[k].told
  <2> HIDE DEF start, n, w
  <2>1. w = [k \in 0 .. n |-> IF k = 0 THEN start ELSE w[k - 1] \o ms[k].told]
    BY <1>5 DEF w
  <2>2. \A k \in 0 .. n : w[k] = IF k = 0 THEN start ELSE w[k - 1] \o ms[k].told
    BY <2>1, Zenon
  <2>3. 0 \in 0 .. n /\ \A k \in 1 .. n : k \in 0 .. n /\ k # 0
    BY <1>1
  <2> QED BY <2>2, <2>3
<1>7. \A k \in 0 .. n : w[k] \in Seq(Telling)
  <2> HIDE DEF start, n, w
  <2>1. \A i \in 0 .. n : w[i] = IF i = 0 THEN start
                                ELSE IF w[i - 1] \in Seq(Telling) THEN step[i][w[i - 1]] ELSE w[i]
    <3>1. \A i \in 1 .. n : w[i - 1] \in Seq(Telling) => step[i][w[i - 1]] = w[i - 1] \o ms[i].told
      OBVIOUS
    <3>2. \A i \in 0 .. n : i # 0 => i \in 1 .. n
      BY <1>1
    <3> HIDE DEF step
    <3> QED BY <1>6, <3>1, <3>2, Zenon
  <2> HIDE DEF step
  <2> QED BY <1>1, <1>2, <2>1, WalkIs, Zenon
<1> QED BY <1>6, <1>7

\* project_completed_history
LoopSet == [done : Seq(Message), loop : Seq(Message), results : Seq(Telling), texts : Seq(Telling),
            seen : Seen]
Lined   == {m \in Message : m.told # <<>>}

LEMMA LineIs ==
  ASSUME NEW h \in Seq(Item), Len(h) <= MaxHistory, NEW k \in 1 .. Len(h)
  PROVE  /\ Line(h, k) \in Lined
         /\ Line(h, k).told = <<[at |-> k, call |-> 0]>> /\ At(Line(h, k)) = k
         /\ Line(h, k).id = h[k].id
         /\ Line(h, k).kind = IF ByUser(h[k]) THEN "user" ELSE h[k].kind
<1>1. h[k] \in Item /\ k \in 1 .. MaxHistory /\ h[k].kind \in Kinds /\ h[k].id \in CallIds \cup {None}
  BY ItemFields, ContextAssumption DEF CallIds
<1>2. [at |-> k, call |-> 0] \in Telling
  BY <1>1, ContextAssumption DEF Telling
<1>3. <<[at |-> k, call |-> 0]>> \in Seq(Telling) /\ <<[at |-> k, call |-> 0]>> # <<>>
  BY <1>2
<1>4. (IF ByUser(h[k]) THEN "user" ELSE h[k].kind) \in Kinds
  BY <1>1 DEF Kinds
<1>5. Line(h, k) \in Message
  BY <1>1, <1>3, <1>4, MessageFields DEF Line
<1> QED BY <1>3, <1>5 DEF Line, Lined, At

LEMMA ClosedTyped == ASSUME NEW s \in LoopSet PROVE Closed(s) \in Seq(Message)
<1>1. /\ s.done \in Seq(Message) /\ s.loop \in Seq(Message)
      /\ s.results \in Seq(Telling) /\ s.texts \in Seq(Telling)
  BY DEF LoopSet
<1>2. CASE ~UsesTools(s.loop)
  BY <1>1, <1>2 DEF Closed
<1>3. CASE UsesTools(s.loop)
  <2> DEFINE m == [kind |-> "assistant", id |-> None, told |-> s.results \o s.texts]
             u == IF s.loop[1].kind = "user" THEN <<s.loop[1]>> ELSE <<>>
  <2>1. m \in Message
    <3>1. s.results \o s.texts \in Seq(Telling) /\ "assistant" \in Kinds
      BY <1>1 DEF Kinds
    <3> QED BY <3>1, MessageFields
  <2>2. s.loop[1] \in Message
    BY <1>1, <1>3 DEF UsesTools
  <2>3. u \in Seq(Message) /\ <<m>> \in Seq(Message)
    <3> HIDE DEF m
    <3> QED BY <2>1, <2>2
  <2> HIDE DEF m, u
  <2>4. s.done \o (u \o <<m>>) \in Seq(Message)
    <3>1. u \o <<m>> \in Seq(Message)
      BY <2>3
    <3> QED BY <1>1, <3>1
  <2>5. Closed(s) = s.done \o (u \o <<m>>)
    BY <1>3 DEF Closed, u, m
  <2> QED BY <2>4, <2>5
<1> QED BY <1>2, <1>3

LEMMA NewLoopTyped == ASSUME NEW d \in Seq(Message) PROVE NewLoop(d) \in LoopSet
  BY SeenIs DEF NewLoop, LoopSet

LEMMA InLoopTyped == ASSUME NEW s \in LoopSet, NEW m \in Lined PROVE InLoop(s, m) \in LoopSet
<1>0. /\ s.done \in Seq(Message) /\ s.loop \in Seq(Message) /\ s.seen \in Seen
      /\ s.results \in Seq(Telling) /\ s.texts \in Seq(Telling) /\ m \in Message /\ m.told # <<>>
  BY DEF LoopSet, Lined
<1> DEFINE longer == [s EXCEPT !.loop = Append(@, m)]
<1>1. longer \in LoopSet /\ longer.seen = s.seen /\ longer.results = s.results /\ longer.texts = s.texts
  <2>1. Append(s.loop, m) \in Seq(Message)
    BY <1>0
  <2> QED BY <2>1 DEF LoopSet
<1>2. m.told[1] \in Telling /\ SawCall(s.seen, m) \in Seen /\ SawResult(s.seen, m) \in Seen
      /\ ResultOf(s.seen, m) \in Telling
  BY <1>0, SeenIs, MessageFields
<1>3. InLoop(s, m) = IF m.kind = "call" THEN [longer EXCEPT !.seen = SawCall(s.seen, m)]
                     ELSE IF m.kind = "result"
                          THEN [longer EXCEPT !.results = Append(s.results, ResultOf(s.seen, m)),
                                              !.seen = SawResult(s.seen, m)]
                     ELSE IF m.kind = "assistant" THEN [longer EXCEPT !.texts = Append(s.texts, m.told[1])]
                     ELSE longer
  <2> HIDE DEF longer
  <2>1. InLoop(s, m) = CASE m.kind = "call"      -> [longer EXCEPT !.seen = SawCall(longer.seen, m)]
       [] m.kind = "result"    -> [longer EXCEPT !.results = Append(longer.results, ResultOf(s.seen, m)),
                                                    !.seen = SawResult(longer.seen, m)]
       [] m.kind = "assistant" -> [longer EXCEPT !.texts = Append(longer.texts, m.told[1])]
       [] OTHER                   -> longer
    BY DEF InLoop, longer
  <2> QED BY <1>1, <2>1
<1> HIDE DEF longer
<1>4. [longer EXCEPT !.seen = SawCall(s.seen, m)] \in LoopSet
  BY <1>1, <1>2 DEF LoopSet
<1>5. [longer EXCEPT !.results = Append(s.results, ResultOf(s.seen, m)), !.seen = SawResult(s.seen, m)] \in LoopSet
  <2>1. Append(s.results, ResultOf(s.seen, m)) \in Seq(Telling)
    BY <1>0, <1>2
  <2> QED BY <1>1, <1>2, <2>1 DEF LoopSet
<1>6. [longer EXCEPT !.texts = Append(s.texts, m.told[1])] \in LoopSet
  <2>1. Append(s.texts, m.told[1]) \in Seq(Telling)
    BY <1>0, <1>2
  <2> QED BY <1>1, <2>1 DEF LoopSet
<1> QED BY <1>1, <1>3, <1>4, <1>5, <1>6

LEMMA GoneTyped ==
  ASSUME NEW s \in LoopSet, NEW m \in Lined
  PROVE  GoneOver(s, m) \in LoopSet
<1>1. [s EXCEPT !.done = Append(@, m)] \in LoopSet
  <2>1. Append(s.done, m) \in Seq(Message)
    BY DEF LoopSet, Lined
  <2> QED BY <2>1 DEF LoopSet
<1>2. NewLoop(Closed(s)) \in LoopSet
  BY ClosedTyped, NewLoopTyped
<1> QED BY <1>1, <1>2, InLoopTyped DEF GoneOver

LEMMA CompletedWalkIs ==
  ASSUME NEW h \in Seq(Item), Len(h) <= MaxHistory, NEW n \in 0 .. Len(h)
  PROVE  LET w == CompletedWalk(h, n) IN
           /\ w[0] = NewLoop(<<>>)
           /\ \A k \in 1 .. n : w[k] = GoneOver(w[k - 1], Line(h, k))
           /\ \A k \in 0 .. n : w[k] \in LoopSet
<1> DEFINE start == NewLoop(<<>>)
           step == [k \in 1 .. n |-> [s \in LoopSet |-> GoneOver(s, Line(h, k))]]
           W(w) == w = [k \in 0 .. n |-> IF k = 0 THEN start ELSE GoneOver(w[k - 1], Line(h, k))]
<1>1. n \in Nat /\ start \in LoopSet
  <2>1. Len(h) \in Nat /\ <<>> \in Seq(Message)
    OBVIOUS
  <2>2. start \in LoopSet
    BY <2>1, NewLoopTyped
  <2> HIDE DEF start
  <2> QED BY <2>1, <2>2
<1>2. step \in [1 .. n -> [LoopSet -> LoopSet]]
  <2>1. \A k \in 1 .. n : Line(h, k) \in Lined
    <3>1. Len(h) \in Nat /\ \A k \in 1 .. n : k \in 1 .. Len(h)
      OBVIOUS
    <3> QED BY <3>1, LineIs
  <2>2. \A k \in 1 .. n : [s \in LoopSet |-> GoneOver(s, Line(h, k))] \in [LoopSet -> LoopSet]
    BY <2>1, GoneTyped
  <2> QED BY <2>2
<1>3. \E w : W(w)
  <2> HIDE DEF start, step
  <2>0. PICK v : IsWalk(v, n, LoopSet, start, step)
    BY <1>1, <1>2, WalkRuns, Zenon
  <2>1. v \in [0 .. n -> LoopSet] /\ \A i \in 0 .. n : v[i] = IF i = 0 THEN start ELSE step[i][v[i - 1]]
    BY <2>0 DEF IsWalk
  <2>2. \A i \in 0 .. n : v[i] = IF i = 0 THEN start ELSE GoneOver(v[i - 1], Line(h, i))
    <3>1. \A i \in 1 .. n : i - 1 \in 0 .. n /\ v[i - 1] \in LoopSet
      BY <1>1, <2>1
    <3>2. \A i \in 1 .. n : step[i][v[i - 1]] = GoneOver(v[i - 1], Line(h, i))
      BY <3>1 DEF step
    <3>3. \A i \in 0 .. n : i # 0 => i \in 1 .. n
      BY <1>1
    <3> QED BY <2>1, <3>2, <3>3, Zenon
  <2>3. W(v)
    BY <2>1, <2>2
  <2> QED BY <2>3
<1>4. CompletedWalk(h, n) = CHOOSE w : W(w)
  BY DEF CompletedWalk
<1>5. W(CompletedWalk(h, n))
  <2> HIDE DEF W
  <2> QED BY <1>3, <1>4
<1> DEFINE w == CompletedWalk(h, n)
<1>6. /\ w[0] = start /\ \A k \in 1 .. n : w[k] = GoneOver(w[k - 1], Line(h, k))
      /\ \A k \in 0 .. n : w[k] = IF k = 0 THEN start ELSE GoneOver(w[k - 1], Line(h, k))
  <2> HIDE DEF start, w
  <2>1. w = [k \in 0 .. n |-> IF k = 0 THEN start ELSE GoneOver(w[k - 1], Line(h, k))]
    BY <1>5 DEF w
  <2>2. \A k \in 0 .. n : w[k] = IF k = 0 THEN start ELSE GoneOver(w[k - 1], Line(h, k))
    BY <2>1, Zenon
  <2>3. 0 \in 0 .. n /\ \A k \in 1 .. n : k \in 0 .. n /\ k # 0
    BY <1>1
  <2> QED BY <2>2, <2>3
<1>7. \A k \in 0 .. n : w[k] \in LoopSet
  <2> HIDE DEF start, w
  <2>1. \A i \in 0 .. n : w[i] = IF i = 0 THEN start
                                ELSE IF w[i - 1] \in LoopSet THEN step[i][w[i - 1]] ELSE w[i]
    <3>1. \A i \in 1 .. n : w[i - 1] \in LoopSet => step[i][w[i - 1]] = GoneOver(w[i - 1], Line(h, i))
      OBVIOUS
    <3>2. \A i \in 0 .. n : i # 0 => i \in 1 .. n
      BY <1>1
    <3> HIDE DEF step
    <3> QED BY <1>6, <3>1, <3>2, Zenon
  <2> HIDE DEF step
  <2> QED BY <1>1, <1>2, <2>1, WalkIs, Zenon
<1> QED BY <1>6, <1>7

-----------------------------------------------------------------------------
(* What is told *)

\* Messages that begin alike tell the same.
LEMMA TellsAlike ==
  ASSUME NEW s \in Seq(Message), NEW t \in Seq(Message), NEW n \in Nat, n <= Len(s), n <= Len(t),
         \A i \in 1 .. n : s[i] = t[i]
  PROVE  TellingWalk(s)[n] = TellingWalk(t)[n]
<1> DEFINE v == TellingWalk(s)
           w == TellingWalk(t)
           P == {k \in 0 .. n : v[k] = w[k]}
<1>1. /\ v[0] = <<>> /\ \A k \in 1 .. Len(s) : v[k] = v[k - 1] \o s[k].told
      /\ w[0] = <<>> /\ \A k \in 1 .. Len(t) : w[k] = w[k - 1] \o t[k].told
  BY TellingWalkIs
<1>2. Len(s) \in Nat /\ Len(t) \in Nat
  OBVIOUS
<1> HIDE DEF v, w
<1>3. 0 \in P
  BY <1>1
<1>4. ASSUME NEW k \in 1 .. n, k - 1 \in P PROVE k \in P
  <2>1. k \in 1 .. Len(s) /\ k \in 1 .. Len(t) /\ s[k] = t[k] /\ k \in 0 .. n
    BY <1>2
  <2>2. v[k - 1] = w[k - 1]
    BY <1>4
  <2>3. v[k] = w[k]
    BY <1>1, <2>1, <2>2, Zenon
  <2> QED BY <2>1, <2>3
<1>5. \A k \in 0 .. n : k \in P
  <2> HIDE DEF P
  <2> QED BY <1>3, <1>4, HoldsToTheEnd
<1>6. n \in P
  <2> HIDE DEF P
  <2> QED BY <1>5
<1> QED BY <1>6 DEF v, w

LEMMA ToldIs ==
  /\ Told(<<>>) = <<>>
  /\ \A s \in Seq(Message) : Told(s) \in Seq(Telling)
<1>1. <<>> \in Seq(Message) /\ Len(<<>>) = 0
  OBVIOUS
<1>2. Told(<<>>) = <<>>
  BY <1>1, TellingWalkIs DEF Told
<1>3. ASSUME NEW s \in Seq(Message) PROVE Told(s) \in Seq(Telling)
  <2>1. Len(s) \in 0 .. Len(s)
    OBVIOUS
  <2> QED BY <2>1, TellingWalkIs DEF Told
<1> QED BY <1>2, <1>3

\* A message more.
LEMMA ToldMore ==
  ASSUME NEW s \in Seq(Message), NEW m \in Message
  PROVE  Told(Append(s, m)) = Told(s) \o m.told
<1> DEFINE t == Append(s, m)
           n == Len(s)
<1>1. t \in Seq(Message) /\ n \in Nat /\ Len(t) = n + 1 /\ t[n + 1] = m /\ \A i \in 1 .. n : t[i] = s[i]
  OBVIOUS
<1> HIDE DEF t, n
<1>2. TellingWalk(s)[n] = TellingWalk(t)[n]
  BY <1>1, TellsAlike DEF n
<1>3. TellingWalk(t)[n + 1] = TellingWalk(t)[(n + 1) - 1] \o t[n + 1].told
  <2>1. n + 1 \in 1 .. Len(t)
    BY <1>1
  <2> QED BY <1>1, <2>1, TellingWalkIs
<1>4. (n + 1) - 1 = n
  BY <1>1
<1>5. Told(t) = Told(s) \o m.told
  BY <1>1, <1>2, <1>3, <1>4, Zenon DEF Told, n
<1> QED BY <1>5 DEF t

\* The call c (0: none) is the last of the id of result k, and nobody spoke as the user
\* between the two.
LoopCall(h, k, c) ==
  /\ c \in 0 .. k - 1
  /\ c # 0 => h[c].kind = "call" /\ h[c].id = h[k].id /\ \A i \in c + 1 .. k - 1 : ~ByUser(h[i])
  /\ \A d \in c + 1 .. k - 1 :
       h[d].kind = "call" /\ h[d].id = h[k].id => \E i \in d + 1 .. k - 1 : ByUser(h[i])

\* t tells of the items after lo, to hi, what should be told of them.
Tells(h, t, lo, hi) ==
  /\ \A i \in 1 .. Len(t) :
       /\ t[i].at \in lo + 1 .. hi
       /\ Plain(h) /\ h[t[i].at].kind = "result" => LoopCall(h, t[i].at, t[i].call)
  /\ \A i, j \in 1 .. Len(t) : i < j =>
       /\ t[i].at # t[j].at
       /\ h[t[i].at].kind \notin Uses /\ h[t[j].at].kind \notin Uses => t[i].at < t[j].at
  /\ \A k \in lo + 1 .. hi :
       \/ \E i \in 1 .. Len(t) : t[i].at = k
       \/ h[k].kind \in Uses /\ (Plain(h) /\ h[k].kind = "result" => LoopCall(h, k, 0))

LEMMA TellsNothing == ASSUME NEW h, NEW k \in Nat PROVE Tells(h, <<>>, k, k)
  BY DEF Tells

LEMMA TellsOne ==
  ASSUME NEW h, NEW k \in Nat, NEW x, x.at = k + 1,
         Plain(h) /\ h[k + 1].kind = "result" => LoopCall(h, k + 1, x.call)
  PROVE  Tells(h, <<x>>, k, k + 1)
<1>1. Len(<<x>>) = 1 /\ <<x>>[1] = x
  OBVIOUS
<1> DEFINE t == <<x>>
<1> HIDE DEF t
<1>2. Len(t) = 1 /\ t[1] = x
  BY <1>1 DEF t
<1>3. Tells(h, t, k, k + 1)
  BY <1>2 DEF Tells
<1> QED BY <1>3 DEF t

LEMMA TellsNot ==
  ASSUME NEW h, NEW k \in Nat, h[k + 1].kind \in Uses,
         Plain(h) /\ h[k + 1].kind = "result" => LoopCall(h, k + 1, 0)
  PROVE  Tells(h, <<>>, k, k + 1)
  BY DEF Tells

LEMMA TellsBoth ==
  ASSUME NEW h, NEW s \in Seq(Telling), NEW t \in Seq(Telling),
         NEW lo \in Nat, NEW mid \in Nat, NEW hi \in Nat, lo <= mid, mid <= hi,
         Tells(h, s, lo, mid), Tells(h, t, mid, hi)
  PROVE  Tells(h, s \o t, lo, hi)
<1> DEFINE q == s \o t
           m == Len(s)
           n == Len(t)
<1>0. q = s \o t
  OBVIOUS
<1> HIDE DEF q
<1>1. m \in Nat /\ n \in Nat /\ Len(q) = m + n
  BY <1>0, Joins
<1>2. /\ \A i \in 1 .. m : q[i] = s[i]
      /\ \A i \in m + 1 .. m + n : q[i] = t[i - m]
  BY <1>0, JoinsAt
<1>3. \A i \in 1 .. Len(q) : i \in 1 .. m \/ (i \in m + 1 .. m + n /\ i - m \in 1 .. n)
  BY <1>1
<1>4. /\ \A i \in 1 .. m : s[i].at \in lo + 1 .. mid
      /\ \A i \in 1 .. n : t[i].at \in mid + 1 .. hi
  BY DEF Tells
<1>5. ASSUME NEW i \in 1 .. Len(q)
      PROVE  /\ q[i].at \in lo + 1 .. hi
             /\ Plain(h) /\ h[q[i].at].kind = "result" => LoopCall(h, q[i].at, q[i].call)
  <2>1. CASE i \in 1 .. m
    <3>1. q[i] = s[i]
      BY <1>2, <2>1
    <3>2. s[i].at \in lo + 1 .. hi
      BY <1>4, <2>1
    <3> QED BY <2>1, <3>1, <3>2 DEF Tells
  <2>2. CASE i \in m + 1 .. m + n /\ i - m \in 1 .. n
    <3>1. q[i] = t[i - m]
      BY <1>2, <2>2
    <3>2. t[i - m].at \in lo + 1 .. hi
      BY <1>4, <2>2
    <3> QED BY <2>2, <3>1, <3>2 DEF Tells
  <2> QED BY <1>3, <2>1, <2>2
<1>6. ASSUME NEW i \in 1 .. Len(q), NEW j \in 1 .. Len(q), i < j
      PROVE  /\ q[i].at # q[j].at
             /\ h[q[i].at].kind \notin Uses /\ h[q[j].at].kind \notin Uses => q[i].at < q[j].at
  <2>1. CASE i \in 1 .. m /\ j \in 1 .. m
    <3>1. q[i] = s[i] /\ q[j] = s[j]
      BY <1>2, <2>1
    <3> QED BY <1>6, <2>1, <3>1 DEF Tells
  <2>2. CASE i \in 1 .. m /\ j \in m + 1 .. m + n /\ j - m \in 1 .. n
    <3>1. q[i] = s[i] /\ q[j] = t[j - m]
      BY <1>2, <2>2
    <3>2. s[i].at \in lo + 1 .. mid /\ t[j - m].at \in mid + 1 .. hi
      BY <1>4, <2>2
    <3>3. s[i].at < t[j - m].at
      <4>1. \A x \in lo + 1 .. mid, y \in mid + 1 .. hi : x < y
        OBVIOUS
      <4> QED BY <3>2, <4>1
    <3> QED BY <3>1, <3>2, <3>3
  <2>3. CASE i \in m + 1 .. m + n /\ i - m \in 1 .. n /\ j \in m + 1 .. m + n /\ j - m \in 1 .. n
    <3>1. q[i] = t[i - m] /\ q[j] = t[j - m] /\ i - m < j - m
      BY <1>1, <1>2, <1>6, <2>3
    <3>2. \A x, y \in 1 .. n : x < y =>
            /\ t[x].at # t[y].at
            /\ h[t[x].at].kind \notin Uses /\ h[t[y].at].kind \notin Uses => t[x].at < t[y].at
      BY DEF Tells
    <3> QED BY <2>3, <3>1, <3>2, Zenon
  <2>4. ~(i \in m + 1 .. m + n /\ j \in 1 .. m)
    BY <1>1, <1>6
  <2> QED BY <1>3, <2>1, <2>2, <2>3, <2>4
<1>7. ASSUME NEW k \in lo + 1 .. hi
      PROVE  \/ \E i \in 1 .. Len(q) : q[i].at = k
             \/ h[k].kind \in Uses /\ (Plain(h) /\ h[k].kind = "result" => LoopCall(h, k, 0))
  <2>1. CASE k \in lo + 1 .. mid
    <3>1. CASE \E i \in 1 .. m : s[i].at = k
      <4>1. PICK i \in 1 .. m : s[i].at = k
        BY <3>1
      <4>2. i \in 1 .. Len(q) /\ q[i] = s[i]
        BY <1>1, <1>2
      <4> QED BY <4>1, <4>2
    <3> QED BY <2>1, <3>1 DEF Tells
  <2>2. CASE k \in mid + 1 .. hi
    <3>1. CASE \E i \in 1 .. n : t[i].at = k
      <4>1. PICK i \in 1 .. n : t[i].at = k
        BY <3>1
      <4>2. m + i \in 1 .. Len(q) /\ m + i \in m + 1 .. m + n /\ (m + i) - m = i
        BY <1>1
      <4>3. q[m + i] = t[i]
        BY <1>2, <4>2
      <4> QED BY <4>1, <4>2, <4>3
    <3> QED BY <2>2, <3>1 DEF Tells
  <2>3. k \in lo + 1 .. mid \/ k \in mid + 1 .. hi
    OBVIOUS
  <2> QED BY <2>1, <2>2, <2>3
<1>8. Tells(h, q, lo, hi)
  BY <1>5, <1>6, <1>7 DEF Tells
<1> QED BY <1>0, <1>8

-----------------------------------------------------------------------------
(* The loop that is gone over *)

\* What calls knows of the items after b, to k: the last call of each id.
LastCalls(h, calls, b, k) ==
  \A id \in CallIds :
    /\ \/ calls[id] = 0
       \/ calls[id] \in b + 1 .. k /\ h[calls[id]].kind = "call" /\ CallId(Line(h, calls[id])) = id
    /\ \A d \in b + 1 .. k : d > calls[id] /\ h[d].kind = "call" => CallId(Line(h, d)) # id

LEMMA CallsNone ==
  ASSUME NEW h, NEW b, NEW k, \A d \in b + 1 .. k : h[d].kind # "call"
  PROVE  LastCalls(h, NothingSeen.calls, b, k)
  BY SeenIs DEF LastCalls

LEMMA CallsSame ==
  ASSUME NEW h, NEW calls \in [CallIds -> 0 .. MaxHistory], NEW b \in Nat, NEW k \in Nat, b <= k,
         LastCalls(h, calls, b, k), h[k + 1].kind # "call"
  PROVE  LastCalls(h, calls, b, k + 1)
<1>1. \A d \in b + 1 .. k + 1 : d = k + 1 \/ d \in b + 1 .. k
  OBVIOUS
<1>2. \A c \in b + 1 .. k : c \in b + 1 .. k + 1
  OBVIOUS
<1> QED BY <1>1, <1>2, Zenon DEF LastCalls

LEMMA CallsMore ==
  ASSUME NEW h \in Seq(Item), Len(h) <= MaxHistory, NEW b \in Nat, NEW k \in Nat, b <= k, k + 1 <= Len(h),
         NEW s \in Seen, LastCalls(h, s.calls, b, k), h[k + 1].kind = "call"
  PROVE  LastCalls(h, SawCall(s, Line(h, k + 1)).calls, b, k + 1)
<1> DEFINE m == Line(h, k + 1)
           calls == SawCall(s, m).calls
<1>0. k + 1 \in 1 .. Len(h)
  OBVIOUS
<1>1. At(m) = k + 1 /\ m \in Message /\ m.told # <<>>
  BY <1>0, LineIs DEF Lined
<1>2. CallId(m) \in CallIds
  BY <1>1, SeenIs
<1>3. /\ s.calls \in [CallIds -> 0 .. MaxHistory]
      /\ \A id \in CallIds : calls[id] = IF id = CallId(m) THEN k + 1 ELSE s.calls[id]
  BY <1>1, <1>2 DEF SawCall, Seen
<1> SUFFICES ASSUME NEW id \in CallIds
             PROVE
    /\ \/ calls[id] = 0
       \/ calls[id] \in b + 1 .. k + 1 /\ h[calls[id]].kind = "call" /\ CallId(Line(h, calls[id])) = id
    /\ \A d \in b + 1 .. k + 1 : d > calls[id] /\ h[d].kind = "call" => CallId(Line(h, d)) # id
  BY DEF LastCalls
<1> HIDE DEF calls
<1>4. CASE id = CallId(m)
  <2>1. calls[id] = k + 1 /\ k + 1 \in b + 1 .. k + 1 /\ \A d \in b + 1 .. k + 1 : ~(d > k + 1)
    BY <1>3, <1>4
  <2> QED BY <1>4, <2>1, Zenon DEF m
<1>5. CASE id # CallId(m)
  <2>1. calls[id] = s.calls[id]
    BY <1>3, <1>5
  <2>2. \A d \in b + 1 .. k + 1 : d = k + 1 \/ d \in b + 1 .. k
    OBVIOUS
  <2>3. \A c \in b + 1 .. k : c \in b + 1 .. k + 1
    OBVIOUS
  <2> QED BY <1>5, <2>1, <2>2, <2>3, Zenon DEF LastCalls, m
<1> QED BY <1>4, <1>5

\* A result is told of the last call of its id in its loop, if it has one.
LEMMA LoopCallIs ==
  ASSUME NEW h \in Seq(Item), Len(h) <= MaxHistory, NEW b \in Nat, NEW k \in Nat, b <= k, k + 1 <= Len(h),
         NEW s \in Seen, LastCalls(h, s.calls, b, k), h[k + 1].kind = "result", Plain(h),
         (b <= 1 /\ h[1].kind = "system") \/ (b + 1 <= k /\ ByUser(h[b + 1])),
         \A i \in b + 2 .. k : ~ByUser(h[i])
  PROVE  LoopCall(h, k + 1, ResultOf(s, Line(h, k + 1)).call)
<1> DEFINE id == h[k + 1].id
           c == s.calls[id]
<1>0. k + 1 \in 1 .. Len(h) /\ (k + 1) - 1 = k /\ Len(h) \in Nat
  OBVIOUS
<1>1. id \in Ids /\ id # None /\ id \in CallIds
  BY <1>0, ContextAssumption DEF Plain, Uses, CallIds
<1>2. ResultOf(s, Line(h, k + 1)).call = c
  <2>1. Line(h, k + 1).id = id
    BY <1>0, LineIs
  <2>2. ResultId(s, Line(h, k + 1)) = id
    BY <1>1, <2>1 DEF ResultId, CallId
  <2> QED BY <2>2 DEF ResultOf
<1>3. \A d \in 1 .. k : h[d].kind = "call" => CallId(Line(h, d)) = h[d].id
  <2> TAKE d \in 1 .. k
  <2> HAVE h[d].kind = "call"
  <2>1. d \in 1 .. Len(h)
    BY <1>0
  <2>2. h[d].id \in Ids /\ h[d].id # None
    BY <2>1, ContextAssumption DEF Plain, Uses
  <2>3. Line(h, d).id = h[d].id
    BY <2>1, LineIs
  <2> QED BY <2>2, <2>3 DEF CallId
<1>4. /\ c = 0 \/ (c \in b + 1 .. k /\ h[c].kind = "call" /\ CallId(Line(h, c)) = id)
      /\ \A d \in b + 1 .. k : d > c /\ h[d].kind = "call" => CallId(Line(h, d)) # id
  BY <1>1, Zenon DEF LastCalls
<1> HIDE DEF id, c
<1>5. c \in 0 .. k
  BY <1>4
<1>6. c # 0 => h[c].kind = "call" /\ h[c].id = id /\ \A i \in c + 1 .. k : ~ByUser(h[i])
  <2> SUFFICES ASSUME c # 0 PROVE h[c].kind = "call" /\ h[c].id = id /\ \A i \in c + 1 .. k : ~ByUser(h[i])
    OBVIOUS
  <2>1. c \in b + 1 .. k /\ c \in 1 .. k
    BY <1>4
  <2>2. \A i \in c + 1 .. k : i \in b + 2 .. k
    BY <2>1
  <2> QED BY <1>3, <1>4, <2>1, <2>2
<1>7. ASSUME NEW d \in c + 1 .. k, h[d].kind = "call", h[d].id = id
      PROVE  \E i \in d + 1 .. k : ByUser(h[i])
  <2>0. d \in 1 .. k /\ d > c
    BY <1>5
  <2>1. d \notin b + 1 .. k
    BY <1>3, <1>4, <1>7, <2>0
  <2>2. d <= b
    BY <2>0, <2>1
  <2>3. ~(b <= 1 /\ h[1].kind = "system")
    <3> SUFFICES ASSUME b <= 1, h[1].kind = "system" PROVE FALSE
      OBVIOUS
    <3>1. d = 1
      BY <2>0, <2>2
    <3> QED BY <1>7, <3>1
  <2>4. b + 1 \in d + 1 .. k /\ ByUser(h[b + 1])
    BY <2>0, <2>2, <2>3
  <2> QED BY <2>4
<1>8. LoopCall(h, k + 1, c)
  BY <1>0, <1>5, <1>6, <1>7 DEF LoopCall, id
<1> QED BY <1>2, <1>8

\* t tells of all the items of a kind after b, to k, in their order.
InPlaces(h, t, kind, b, k) ==
  /\ \A i \in 1 .. Len(t) : t[i].at \in b + 1 .. k /\ h[t[i].at].kind = kind
  /\ \A i, j \in 1 .. Len(t) : i < j => t[i].at < t[j].at
  /\ \A p \in b + 1 .. k : h[p].kind = kind => \E i \in 1 .. Len(t) : t[i].at = p

LEMMA PlacesNone ==
  ASSUME NEW h, NEW kind, NEW b, NEW k, \A p \in b + 1 .. k : h[p].kind # kind
  PROVE  InPlaces(h, <<>>, kind, b, k)
  BY DEF InPlaces

LEMMA PlacesSame ==
  ASSUME NEW h, NEW t, NEW kind, NEW b \in Nat, NEW k \in Nat, b <= k, InPlaces(h, t, kind, b, k),
         h[k + 1].kind # kind
  PROVE  InPlaces(h, t, kind, b, k + 1)
<1>1. \A p \in b + 1 .. k + 1 : p = k + 1 \/ p \in b + 1 .. k
  OBVIOUS
<1>2. \A p \in b + 1 .. k : p \in b + 1 .. k + 1
  OBVIOUS
<1> QED BY <1>1, <1>2, Zenon DEF InPlaces

LEMMA PlacesMore ==
  ASSUME NEW h, NEW t \in Seq(Telling), NEW kind, NEW b \in Nat, NEW k \in Nat, b <= k,
         InPlaces(h, t, kind, b, k), h[k + 1].kind = kind, NEW x \in Telling, x.at = k + 1
  PROVE  InPlaces(h, Append(t, x), kind, b, k + 1)
<1> DEFINE q == Append(t, x)
           n == Len(t)
<1>1. n \in Nat /\ Len(q) = n + 1 /\ q[n + 1] = x /\ \A i \in 1 .. n : q[i] = t[i]
  OBVIOUS
<1> HIDE DEF q, n
<1>2. /\ \A i \in 1 .. n : t[i].at \in b + 1 .. k /\ h[t[i].at].kind = kind
      /\ \A i, j \in 1 .. n : i < j => t[i].at < t[j].at
      /\ \A p \in b + 1 .. k : h[p].kind = kind => \E i \in 1 .. n : t[i].at = p
  BY DEF InPlaces, n
<1>3. \A i \in 1 .. n + 1 : i = n + 1 \/ i \in 1 .. n
  BY <1>1
<1>4. ASSUME NEW i \in 1 .. n + 1 PROVE q[i].at \in b + 1 .. k + 1 /\ h[q[i].at].kind = kind
  <2>1. CASE i = n + 1
    BY <1>1, <2>1
  <2>2. CASE i \in 1 .. n
    BY <1>1, <1>2, <2>2
  <2> QED BY <1>3, <2>1, <2>2
<1>5. ASSUME NEW i \in 1 .. n + 1, NEW j \in 1 .. n + 1, i < j PROVE q[i].at < q[j].at
  <2>1. i \in 1 .. n
    BY <1>1, <1>5
  <2>2. CASE j = n + 1
    BY <1>1, <1>2, <2>1, <2>2
  <2>3. CASE j \in 1 .. n
    BY <1>1, <1>2, <1>5, <2>1, <2>3
  <2> QED BY <1>3, <2>2, <2>3
<1>6. ASSUME NEW p \in b + 1 .. k + 1, h[p].kind = kind PROVE \E i \in 1 .. n + 1 : q[i].at = p
  <2>1. CASE p = k + 1
    <3>1. n + 1 \in 1 .. n + 1 /\ q[n + 1].at = p
      BY <1>1, <2>1
    <3> QED BY <3>1
  <2>2. CASE p # k + 1
    <3>1. p \in b + 1 .. k
      BY <2>2
    <3>2. PICK i \in 1 .. n : t[i].at = p
      BY <1>2, <1>6, <3>1
    <3>3. i \in 1 .. n + 1 /\ q[i] = t[i]
      BY <1>1
    <3> QED BY <3>2, <3>3
  <2> QED BY <2>1, <2>2
<1>7. InPlaces(h, q, kind, b, k + 1)
  BY <1>1, <1>4, <1>5, <1>6 DEF InPlaces
<1> QED BY <1>7 DEF q

\* The first item is of no such kind.
LEMMA PlacesLater ==
  ASSUME NEW h, NEW t, NEW kind, NEW b \in Nat, NEW k \in Nat, InPlaces(h, t, kind, b, k), h[b + 1].kind # kind
  PROVE  InPlaces(h, t, kind, b + 1, k)
<1>1. \A p \in b + 1 .. k : p = b + 1 \/ p \in (b + 1) + 1 .. k
  OBVIOUS
<1>2. \A p \in (b + 1) + 1 .. k : p \in b + 1 .. k
  OBVIOUS
<1>3. /\ \A i \in 1 .. Len(t) : t[i].at \in b + 1 .. k /\ h[t[i].at].kind = kind
      /\ \A i, j \in 1 .. Len(t) : i < j => t[i].at < t[j].at
      /\ \A p \in b + 1 .. k : h[p].kind = kind => \E i \in 1 .. Len(t) : t[i].at = p
  BY DEF InPlaces
<1>4. \A i \in 1 .. Len(t) : t[i].at # b + 1
  BY <1>3, Zenon
<1>5. \A i \in 1 .. Len(t) : t[i].at \in (b + 1) + 1 .. k
  BY <1>1, <1>3, <1>4, Zenon
<1> QED BY <1>2, <1>3, <1>5, Zenon DEF InPlaces

\* The summary of a loop.
LEMMA SummaryTells ==
  ASSUME NEW h, NEW r \in Seq(Telling), NEW t \in Seq(Telling), NEW b \in Nat, NEW k \in Nat,
         InPlaces(h, r, "result", b, k), InPlaces(h, t, "assistant", b, k),
         \A p \in b + 1 .. k : h[p].kind \in {"call", "result", "assistant"},
         \A i \in 1 .. Len(r) : Plain(h) => LoopCall(h, r[i].at, r[i].call)
  PROVE  Tells(h, r \o t, b, k)
<1> DEFINE q == r \o t
           m == Len(r)
           n == Len(t)
<1>0. q = r \o t
  OBVIOUS
<1> HIDE DEF q
<1>1. m \in Nat /\ n \in Nat /\ Len(q) = m + n
  BY <1>0, Joins
<1>2. /\ \A i \in 1 .. m : q[i] = r[i]
      /\ \A i \in m + 1 .. m + n : q[i] = t[i - m]
  BY <1>0, JoinsAt
<1>3. \A i \in 1 .. Len(q) : i \in 1 .. m \/ (i \in m + 1 .. m + n /\ i - m \in 1 .. n)
  BY <1>1
<1>4. /\ \A i \in 1 .. m : r[i].at \in b + 1 .. k /\ h[r[i].at].kind = "result"
      /\ \A i, j \in 1 .. m : i < j => r[i].at < r[j].at
      /\ \A p \in b + 1 .. k : h[p].kind = "result" => \E i \in 1 .. m : r[i].at = p
  BY DEF InPlaces
<1>5. /\ \A i \in 1 .. n : t[i].at \in b + 1 .. k /\ h[t[i].at].kind = "assistant"
      /\ \A i, j \in 1 .. n : i < j => t[i].at < t[j].at
      /\ \A p \in b + 1 .. k : h[p].kind = "assistant" => \E i \in 1 .. n : t[i].at = p
  BY DEF InPlaces
<1>6. \A i \in 1 .. m : Plain(h) => LoopCall(h, r[i].at, r[i].call)
  OBVIOUS
<1> HIDE DEF m, n
<1>7. ASSUME NEW i \in 1 .. Len(q)
      PROVE  /\ q[i].at \in b + 1 .. k
             /\ Plain(h) /\ h[q[i].at].kind = "result" => LoopCall(h, q[i].at, q[i].call)
  <2>1. CASE i \in 1 .. m
    BY <1>2, <1>4, <1>6, <2>1
  <2>2. CASE i \in m + 1 .. m + n /\ i - m \in 1 .. n
    BY <1>2, <1>5, <2>2
  <2> QED BY <1>3, <2>1, <2>2
<1>8. ASSUME NEW i \in 1 .. Len(q), NEW j \in 1 .. Len(q), i < j
      PROVE  /\ q[i].at # q[j].at
             /\ h[q[i].at].kind \notin Uses /\ h[q[j].at].kind \notin Uses => q[i].at < q[j].at
  <2>0. \A x, y \in b + 1 .. k : x < y => x # y
    OBVIOUS
  <2>1. CASE i \in 1 .. m /\ j \in 1 .. m
    <3>1. q[i] = r[i] /\ q[j] = r[j] /\ r[i].at < r[j].at
      BY <1>2, <1>4, <1>8, <2>1
    <3> QED BY <1>4, <2>0, <2>1, <3>1
  <2>2. CASE i \in 1 .. m /\ j \in m + 1 .. m + n /\ j - m \in 1 .. n
    <3>1. q[i] = r[i] /\ q[j] = t[j - m]
      BY <1>2, <2>2
    <3>2. h[q[i].at].kind = "result" /\ h[q[j].at].kind = "assistant"
      BY <1>4, <1>5, <2>2, <3>1, Zenon
    <3> QED BY <3>2 DEF Uses
  <2>3. CASE i \in m + 1 .. m + n /\ i - m \in 1 .. n /\ j \in m + 1 .. m + n /\ j - m \in 1 .. n
    <3>1. q[i] = t[i - m] /\ q[j] = t[j - m] /\ i - m < j - m
      BY <1>1, <1>2, <1>8, <2>3
    <3>2. t[i - m].at < t[j - m].at
      BY <1>5, <2>3, <3>1, Zenon
    <3> QED BY <1>5, <2>0, <2>3, <3>1, <3>2, Zenon
  <2>4. ~(i \in m + 1 .. m + n /\ j \in 1 .. m)
    BY <1>1, <1>8
  <2> QED BY <1>3, <2>1, <2>2, <2>3, <2>4
<1>9. ASSUME NEW p \in b + 1 .. k
      PROVE  \/ \E i \in 1 .. Len(q) : q[i].at = p
             \/ h[p].kind \in Uses /\ (Plain(h) /\ h[p].kind = "result" => LoopCall(h, p, 0))
  <2>1. CASE h[p].kind = "call"
    BY <2>1 DEF Uses
  <2>2. CASE h[p].kind = "result"
    <3>1. PICK i \in 1 .. m : r[i].at = p
      BY <1>4, <2>2
    <3>2. i \in 1 .. Len(q) /\ q[i] = r[i]
      BY <1>1, <1>2
    <3> QED BY <3>1, <3>2
  <2>3. CASE h[p].kind = "assistant"
    <3>1. PICK i \in 1 .. n : t[i].at = p
      BY <1>5, <2>3
    <3>2. m + i \in 1 .. Len(q) /\ m + i \in m + 1 .. m + n /\ (m + i) - m = i
      BY <1>1
    <3>3. q[m + i] = t[i]
      BY <1>2, <3>2
    <3> QED BY <3>1, <3>2, <3>3
  <2> QED BY <2>1, <2>2, <2>3
<1>10. Tells(h, q, b, k)
  BY <1>7, <1>8, <1>9 DEF Tells
<1> QED BY <1>0, <1>10

\* Gone over to k: what is done tells of the items to b, the loop is made of those after.
LoopIs(h, b, k, s) ==
  /\ b <= k /\ Len(s.loop) = k - b
  /\ \A i \in 1 .. k - b : s.loop[i] = Line(h, b + i)
  /\ \A p \in b + 1 .. k : h[p].kind # "system" /\ (p > b + 1 => ~ByUser(h[p]))
  /\ \A i \in 1 .. Len(s.done) : s.done[i].kind \notin Uses
  /\ Tells(h, Told(s.done), 0, b)
  /\ LastCalls(h, s.seen.calls, b, k)
  /\ InPlaces(h, s.results, "result", b, k) /\ InPlaces(h, s.texts, "assistant", b, k)
  /\ \A i \in 1 .. Len(s.results) : Plain(h) => LoopCall(h, s.results[i].at, s.results[i].call)

\* The history starts with the system message, a loop with a message of the user or
\* right after it.
Starts(h, b, k) == (b <= 1 /\ h[1].kind = "system") \/ (b + 1 <= k /\ ByUser(h[b + 1]))

LEMMA InLoopIs ==
  ASSUME NEW s \in LoopSet, NEW m \in Message
  PROVE  LET t == InLoop(s, m) IN
    /\ t.done = s.done /\ t.loop = Append(s.loop, m)
    /\ t.seen = IF m.kind = "call" THEN SawCall(s.seen, m)
                ELSE IF m.kind = "result" THEN SawResult(s.seen, m) ELSE s.seen
    /\ t.results = IF m.kind = "result" THEN Append(s.results, ResultOf(s.seen, m)) ELSE s.results
    /\ t.texts = IF m.kind = "assistant" THEN Append(s.texts, m.told[1]) ELSE s.texts
  BY DEF InLoop, LoopSet

LEMMA InLoopStep ==
  ASSUME NEW h \in Seq(Item), Len(h) <= MaxHistory, NEW k \in Nat, k + 1 <= Len(h), NEW b \in Nat,
         NEW s \in LoopSet, LoopIs(h, b, k, s), h[k + 1].kind # "system",
         IF ByUser(h[k + 1]) THEN b = k ELSE Starts(h, b, k)
  PROVE  LoopIs(h, b, k + 1, InLoop(s, Line(h, k + 1))) /\ Starts(h, b, k + 1)
<1> DEFINE m == Line(h, k + 1)
           t == InLoop(s, m)
<1>0. k + 1 \in 1 .. Len(h) /\ Len(h) \in Nat /\ b <= k
  BY DEF LoopIs
<1>1. /\ m \in Message /\ m.told = <<[at |-> k + 1, call |-> 0]>> /\ m.told # <<>> /\ m \in Lined
      /\ m.kind = IF ByUser(h[k + 1]) THEN "user" ELSE h[k + 1].kind
  BY <1>0, LineIs DEF Lined
<1>2. /\ s.done \in Seq(Message) /\ s.loop \in Seq(Message) /\ s.seen \in Seen
      /\ s.results \in Seq(Telling) /\ s.texts \in Seq(Telling)
      /\ s.seen.calls \in [CallIds -> 0 .. MaxHistory]
  BY DEF LoopSet, Seen
<1>3. /\ t.done = s.done /\ t.loop = Append(s.loop, m)
      /\ t.seen = IF m.kind = "call" THEN SawCall(s.seen, m)
                  ELSE IF m.kind = "result" THEN SawResult(s.seen, m) ELSE s.seen
      /\ t.results = IF m.kind = "result" THEN Append(s.results, ResultOf(s.seen, m)) ELSE s.results
      /\ t.texts = IF m.kind = "assistant" THEN Append(s.texts, m.told[1]) ELSE s.texts
  BY <1>1, InLoopIs
<1>4. m.kind \in {"call", "result", "assistant"} => h[k + 1].kind = m.kind
  BY <1>1
<1>5. h[k + 1].kind \in {"call", "result", "assistant"} => m.kind = h[k + 1].kind
  BY <1>1 DEF ByUser
<1>6. b = k => \A i \in b + 2 .. k : ~ByUser(h[i])
  OBVIOUS
<1>7. b + 1 <= k + 1 /\ Len(t.loop) = (k + 1) - b
  <2>1. Len(s.loop) = k - b
    BY DEF LoopIs
  <2> DEFINE l == s.loop
  <2>2. l \in Seq(Message) /\ Len(l) = k - b
    BY <1>2, <2>1
  <2> HIDE DEF l, m
  <2>3. Len(Append(l, m)) = Len(l) + 1
    BY <2>2
  <2>4. (k - b) + 1 = (k + 1) - b /\ b + 1 <= k + 1
    BY <1>0
  <2>5. t.loop = Append(l, m)
    BY <1>3 DEF l
  <2> QED BY <2>2, <2>3, <2>4, <2>5
<1>8. \A i \in 1 .. (k + 1) - b : t.loop[i] = Line(h, b + i)
  <2>1. Len(s.loop) = k - b /\ k - b \in Nat /\ \A i \in 1 .. k - b : s.loop[i] = Line(h, b + i)
    BY <1>0 DEF LoopIs
  <2> DEFINE l == s.loop
             n == k - b
  <2>2. l \in Seq(Message) /\ Len(l) = n /\ n \in Nat
    BY <1>2, <2>1
  <2> HIDE DEF l, m
  <2>3. Append(l, m)[n + 1] = m /\ \A i \in 1 .. n : Append(l, m)[i] = l[i]
    BY <2>2
  <2>4. \A i \in 1 .. (k + 1) - b : i \in 1 .. k - b \/ (i = n + 1 /\ b + i = k + 1)
    BY <1>0
  <2>5. t.loop = Append(l, m)
    BY <1>3 DEF l
  <2> HIDE DEF n, t
  <2> QED BY <2>1, <2>3, <2>4, <2>5 DEF l, m, n
<1>9. \A p \in b + 1 .. k + 1 : h[p].kind # "system" /\ (p > b + 1 => ~ByUser(h[p]))
  <2>1. \A p \in b + 1 .. k + 1 : p = k + 1 \/ p \in b + 1 .. k
    OBVIOUS
  <2>2. b = k => ~(k + 1 > b + 1)
    OBVIOUS
  <2>3. \A p \in b + 1 .. k : h[p].kind # "system" /\ (p > b + 1 => ~ByUser(h[p]))
    BY DEF LoopIs
  <2> QED BY <2>1, <2>2, <2>3
<1>10. (\A i \in 1 .. Len(t.done) : t.done[i].kind \notin Uses) /\ Tells(h, Told(t.done), 0, b)
  BY <1>3 DEF LoopIs
<1>11. LastCalls(h, t.seen.calls, b, k + 1)
  <2>0. LastCalls(h, s.seen.calls, b, k)
    BY DEF LoopIs
  <2>1. CASE h[k + 1].kind = "call"
    <3>1. t.seen = SawCall(s.seen, m)
      BY <1>3, <1>5, <2>1
    <3> QED BY <1>0, <1>2, <2>0, <2>1, <3>1, CallsMore
  <2>2. CASE h[k + 1].kind # "call"
    <3>1. t.seen.calls = s.seen.calls
      BY <1>2, <1>3, <1>4, <2>2 DEF SawResult, Seen
    <3> QED BY <1>0, <1>2, <2>0, <2>2, <3>1, CallsSame
  <2> QED BY <2>1, <2>2
<1>12. /\ InPlaces(h, t.results, "result", b, k + 1)
       /\ \A i \in 1 .. Len(t.results) : Plain(h) => LoopCall(h, t.results[i].at, t.results[i].call)
  <2>0. /\ InPlaces(h, s.results, "result", b, k)
        /\ \A i \in 1 .. Len(s.results) : Plain(h) => LoopCall(h, s.results[i].at, s.results[i].call)
    BY DEF LoopIs
  <2>1. CASE h[k + 1].kind = "result"
    <3> DEFINE x == ResultOf(s.seen, m)
    <3>1. t.results = Append(s.results, x)
      BY <1>3, <1>5, <2>1
    <3>2. x \in Telling
      BY <1>1, <1>2, SeenIs
    <3>3. x.at = k + 1
      BY <1>1 DEF ResultOf, At
    <3>4. Plain(h) => LoopCall(h, k + 1, x.call)
      <4>1. \A i \in b + 2 .. k : ~ByUser(h[i])
        <5>1. \A i \in b + 2 .. k : i \in b + 1 .. k /\ i > b + 1
          OBVIOUS
        <5> QED BY <5>1 DEF LoopIs
      <4>2. Starts(h, b, k)
        BY <2>1 DEF ByUser
      <4>3. LastCalls(h, s.seen.calls, b, k)
        BY DEF LoopIs
      <4>4. ASSUME Plain(h) PROVE LoopCall(h, k + 1, ResultOf(s.seen, Line(h, k + 1)).call)
        BY <1>0, <1>2, <2>1, <4>1, <4>2, <4>3, <4>4, LoopCallIs DEF Starts
      <4> QED BY <4>4
    <3> HIDE DEF x
    <3>5. InPlaces(h, t.results, "result", b, k + 1)
      BY <1>0, <1>2, <2>0, <2>1, <3>1, <3>2, <3>3, PlacesMore
    <3>6. ASSUME NEW i \in 1 .. Len(t.results), Plain(h)
          PROVE  LoopCall(h, t.results[i].at, t.results[i].call)
      <4> DEFINE r == s.results
      <4>1. r \in Seq(Telling) /\ Len(r) \in Nat /\ t.results = Append(r, x)
        BY <1>2, <3>1
      <4> HIDE DEF r, t
      <4>2. i = Len(r) + 1 \/ i \in 1 .. Len(r)
        BY <4>1, <3>6
      <4>3. CASE i = Len(r) + 1
        <5>1. t.results[i] = x
          BY <4>1, <4>3
        <5> QED BY <3>3, <3>4, <3>6, <5>1
      <4>4. CASE i \in 1 .. Len(r)
        <5>1. t.results[i] = r[i]
          BY <4>1, <4>4
        <5> QED BY <2>0, <3>6, <4>4, <5>1 DEF r
      <4> QED BY <4>2, <4>3, <4>4
    <3> QED BY <3>5, <3>6
  <2>2. CASE h[k + 1].kind # "result"
    <3>1. t.results = s.results
      BY <1>3, <1>4, <2>2
    <3> QED BY <1>0, <2>0, <2>2, <3>1, PlacesSame
  <2> QED BY <2>1, <2>2
<1>13. InPlaces(h, t.texts, "assistant", b, k + 1)
  <2>0. InPlaces(h, s.texts, "assistant", b, k)
    BY DEF LoopIs
  <2>1. CASE h[k + 1].kind = "assistant"
    <3>1. t.texts = Append(s.texts, m.told[1])
      BY <1>3, <1>5, <2>1
    <3>2. m.told[1] \in Telling /\ m.told[1].at = k + 1
      BY <1>1, MessageFields
    <3> QED BY <1>0, <1>2, <2>0, <2>1, <3>1, <3>2, PlacesMore
  <2>2. CASE h[k + 1].kind # "assistant"
    <3>1. t.texts = s.texts
      BY <1>3, <1>4, <2>2
    <3> QED BY <1>0, <2>0, <2>2, <3>1, PlacesSame
  <2> QED BY <2>1, <2>2
<1>14. Starts(h, b, k + 1)
  BY DEF Starts
<1> HIDE DEF t
<1>15. LoopIs(h, b, k + 1, t)
  <2>1. b <= k + 1
    BY <1>7
  <2> QED BY <2>1, <1>7, <1>8, <1>9, <1>10, <1>11, <1>12, <1>13 DEF LoopIs
<1> QED BY <1>14, <1>15 DEF t, m


\* Closed, a loop tells of its items.
LEMMA ClosedTells ==
  ASSUME NEW h \in Seq(Item), Len(h) <= MaxHistory, NEW k \in Nat, k <= Len(h), NEW b \in Nat,
         NEW s \in LoopSet, LoopIs(h, b, k, s)
  PROVE  /\ Tells(h, Told(Closed(s)), 0, k)
         /\ \A i \in 1 .. Len(Closed(s)) : Closed(s)[i].kind \notin Uses
<1> DEFINE d == s.done
           l == s.loop
           n == k - b
<1>1. d \in Seq(Message) /\ l \in Seq(Message) /\ s.results \in Seq(Telling) /\ s.texts \in Seq(Telling)
  BY DEF LoopSet
<1>2. /\ b <= k /\ Len(l) = n /\ n \in Nat
      /\ \A i \in 1 .. n : l[i] = Line(h, b + i)
      /\ \A p \in b + 1 .. k : h[p].kind # "system" /\ (p > b + 1 => ~ByUser(h[p]))
      /\ \A i \in 1 .. Len(d) : d[i].kind \notin Uses
      /\ Tells(h, Told(d), 0, b)
  BY DEF LoopIs
<1>3. \A i \in 1 .. n : b + i \in 1 .. Len(h) /\ b + i \in b + 1 .. k
  BY <1>2
<1>4. ASSUME NEW i \in 1 .. n
      PROVE  /\ l[i].told = <<[at |-> b + i, call |-> 0]>>
             /\ l[i].kind = IF ByUser(h[b + i]) THEN "user" ELSE h[b + i].kind
  BY <1>2, <1>3, LineIs
<1>5. CASE ~UsesTools(l)
  <2> DEFINE q == d \o l
             w == TellingWalk(q)
             m == Len(d)
             P == {i \in 0 .. n : Tells(h, w[m + i], 0, b + i)}
  <2>0. q = d \o l /\ Closed(s) = q
    BY <1>5 DEF Closed
  <2> HIDE DEF q, d, l
  <2>1. q \in Seq(Message) /\ m \in Nat
    BY <1>1, <2>0, Joins
  <2>2. Len(q) = m + n
    <3>1. Len(q) = m + Len(l)
      BY <1>1, <2>0, Joins
    <3> QED BY <1>2, <3>1
  <2>3. /\ \A i \in 1 .. m : q[i] = d[i]
        /\ \A i \in m + 1 .. m + Len(l) : q[i] = l[i - m]
    BY <1>1, <2>0, JoinsAt
  <2>4. /\ \A i \in 1 .. Len(q) : w[i] = w[i - 1] \o q[i].told
        /\ \A i \in 0 .. Len(q) : w[i] \in Seq(Telling)
    BY <2>1, TellingWalkIs
  <2>5. w[m] = Told(d)
    <3>1. m <= Len(q)
      BY <1>2, <2>1, <2>2
    <3>2. m \in Nat /\ m <= Len(d) /\ m <= Len(q) /\ \A i \in 1 .. m : d[i] = q[i]
      BY <2>1, <2>3, <3>1
    <3> HIDE DEF m, n
    <3>3. TellingWalk(d)[m] = TellingWalk(q)[m]
      BY <1>1, <2>1, <3>2, TellsAlike
    <3> QED BY <3>3 DEF Told, m
  <2>6. Told(q) = w[m + n]
    BY <2>2 DEF Told
  <2>7. \A i \in 1 .. n : l[i].kind \notin Uses
    <3>1. DOMAIN l = 1 .. Len(l)
      BY <1>1
    <3>2. DOMAIN l = 1 .. n
      BY <1>2, <3>1
    <3> HIDE DEF n
    <3> QED BY <1>5, <3>2 DEF UsesTools, Uses
  <2> HIDE DEF w, m, n
  <2>8. 0 \in P
    <3>1. m + 0 = m /\ b + 0 = b /\ 0 \in 0 .. n
      BY <1>2, <2>1
    <3> QED BY <1>2, <2>5, <3>1
  <2>9. ASSUME NEW i \in 1 .. n, i - 1 \in P PROVE i \in P
    <3> DEFINE x == [at |-> b + i, call |-> 0]
    <3>0. /\ i \in Nat /\ i - 1 \in Nat /\ m + i \in 1 .. Len(q) /\ (m + i) - 1 = m + (i - 1)
          /\ m + i \in m + 1 .. m + Len(l) /\ (m + i) - m = i /\ b + (i - 1) \in Nat
          /\ (b + (i - 1)) + 1 = b + i /\ i \in 0 .. n /\ m + (i - 1) \in 0 .. Len(q)
          /\ b + i \in Nat /\ b + (i - 1) <= b + i
      BY <1>2, <2>1, <2>2
    <3>1. w[m + i] = w[m + (i - 1)] \o l[i].told
      BY <2>3, <2>4, <3>0
    <3>2. l[i].told = <<x>> /\ x.at = b + i
      BY <1>4
    <3>3. h[b + i].kind # "result"
      BY <1>4, <2>7 DEF Uses, ByUser
    <3>4. Tells(h, <<x>>, b + (i - 1), b + i)
      BY <3>0, <3>2, <3>3, TellsOne
    <3>5. x \in Telling
      <4>1. b + i \in 1 .. MaxHistory /\ 0 \in 0 .. MaxHistory
        BY <1>3, ContextAssumption
      <4> QED BY <4>1 DEF Telling
    <3>6. Tells(h, w[m + (i - 1)], 0, b + (i - 1)) /\ w[m + (i - 1)] \in Seq(Telling)
      BY <2>4, <2>9, <3>0
    <3> HIDE DEF x
    <3>7. Tells(h, w[m + (i - 1)] \o <<x>>, 0, b + i)
      <4>1. <<x>> \in Seq(Telling) /\ 0 <= b + (i - 1) /\ 0 \in Nat
        BY <3>0, <3>5
      <4> QED BY <3>0, <3>4, <3>6, <4>1, TellsBoth
    <3> QED BY <3>0, <3>1, <3>2, <3>7
  <2>10. \A i \in 0 .. n : i \in P
    <3> HIDE DEF P
    <3>1. n \in Nat
      BY <1>2
    <3> QED BY <2>8, <2>9, <3>1, HoldsToTheEnd
  <2>11. Tells(h, w[m + n], 0, k)
    <3>1. n \in 0 .. n /\ b + n = k
      BY <1>2 DEF n
    <3> QED BY <2>10, <3>1
  <2>12. ASSUME NEW i \in 1 .. Len(q) PROVE q[i].kind \notin Uses
    <3>1. i \in 1 .. m \/ (i \in m + 1 .. m + Len(l) /\ i - m \in 1 .. n)
      BY <1>2, <2>1, <2>2
    <3> QED BY <1>2, <2>3, <2>7, <3>1 DEF m
  <2> QED BY <2>0, <2>6, <2>11, <2>12
<1>6. CASE UsesTools(l)
  <2> DEFINE rt == s.results \o s.texts
             m == [kind |-> "assistant", id |-> None, told |-> rt]
             x == l[1]
  <2>0. m \in Message /\ rt \in Seq(Telling) /\ m.told = rt /\ m.kind = "assistant"
    <3>1. rt \in Seq(Telling) /\ "assistant" \in Kinds
      BY <1>1 DEF Kinds
    <3> QED BY <3>1, MessageFields
  <2>1. 1 \in 1 .. n /\ x \in Message /\ b + 1 <= k
    <3>1. \E i \in 1 .. n : TRUE
      <4> HIDE DEF l
      <4>1. DOMAIN l = 1 .. Len(l)
        BY <1>1
      <4>2. DOMAIN l = 1 .. n
        BY <1>2, <4>1
      <4> HIDE DEF n
      <4> QED BY <1>6, <4>2 DEF UsesTools
    <3>2. 1 \in 1 .. n
      BY <1>2, <3>1
    <3>3. x \in Message
      BY <1>1, <1>2, <3>2
    <3>4. b + 1 <= k
      BY <1>2, <3>2
    <3> QED BY <3>2, <3>3, <3>4
  <2>2. /\ InPlaces(h, s.results, "result", b, k) /\ InPlaces(h, s.texts, "assistant", b, k)
        /\ \A i \in 1 .. Len(s.results) : Plain(h) => LoopCall(h, s.results[i].at, s.results[i].call)
    BY DEF LoopIs
  <2>3. \A p \in b + 1 .. k : h[p].kind \in {"call", "result", "assistant"} \/ (p = b + 1 /\ ByUser(h[p]))
    <3> TAKE p \in b + 1 .. k
    <3>1. h[p].kind \in Kinds /\ h[p].kind # "system" /\ (p > b + 1 => ~ByUser(h[p]))
      <4>1. p \in 1 .. Len(h)
        OBVIOUS
      <4> QED BY <1>2, <4>1, ItemFields
    <3>2. p = b + 1 \/ p > b + 1
      OBVIOUS
    <3> QED BY <3>1, <3>2 DEF Kinds, ByUser
  <2>4. CASE x.kind = "user"
    <3>1. ByUser(h[b + 1])
      BY <1>4, <2>1, <2>4 DEF ByUser
    <3>2. Closed(s) = d \o (<<x>> \o <<m>>)
      BY <1>6, <2>4 DEF Closed
    <3>3. Closed(s) = Append(Append(d, x), m)
      <4> HIDE DEF d, x, m
      <4> QED BY <1>1, <2>0, <2>1, <3>2
    <3>4. Told(Closed(s)) = (Told(d) \o x.told) \o rt
      <4>1. Append(d, x) \in Seq(Message)
        BY <1>1, <2>1
      <4> HIDE DEF d, x, m, rt
      <4> QED BY <1>1, <2>0, <2>1, <3>3, <4>1, ToldMore
    <3> DEFINE y == [at |-> b + 1, call |-> 0]
    <3>5. x.told = <<y>> /\ y.at = b + 1 /\ y \in Telling
      <4>1. b + 1 \in 1 .. MaxHistory /\ 0 \in 0 .. MaxHistory
        BY <1>3, <2>1, ContextAssumption
      <4> QED BY <1>4, <2>1, <4>1 DEF Telling
    <3>6. Tells(h, <<y>>, b, b + 1)
      BY <3>1, <3>5, TellsOne DEF ByUser
    <3>7. Tells(h, rt, b + 1, k)
      <4>1. InPlaces(h, s.results, "result", b + 1, k) /\ InPlaces(h, s.texts, "assistant", b + 1, k)
        BY <2>2, <3>1, PlacesLater DEF ByUser
      <4>2. \A p \in (b + 1) + 1 .. k : p \in b + 1 .. k /\ p # b + 1
        OBVIOUS
      <4>3. \A p \in (b + 1) + 1 .. k : h[p].kind \in {"call", "result", "assistant"}
        BY <2>3, <4>2
      <4>4. b + 1 \in Nat
        OBVIOUS
      <4> QED BY <1>1, <2>2, <4>1, <4>3, <4>4, SummaryTells
    <3> HIDE DEF y, rt, d, x, m
    <3>8. Told(d) \in Seq(Telling) /\ <<y>> \in Seq(Telling)
      BY <1>1, <3>5, ToldIs
    <3>9. Tells(h, Told(d) \o <<y>>, 0, b + 1)
      <4>1. 0 \in Nat /\ b + 1 \in Nat /\ 0 <= b /\ b <= b + 1
        OBVIOUS
      <4> QED BY <1>2, <3>6, <3>8, <4>1, TellsBoth
    <3>10. Tells(h, (Told(d) \o <<y>>) \o rt, 0, k)
      <4>1. 0 \in Nat /\ b + 1 \in Nat /\ 0 <= b + 1
        OBVIOUS
      <4>2. Told(d) \o <<y>> \in Seq(Telling)
        BY <3>8
      <4> QED BY <2>0, <2>1, <3>7, <3>9, <4>1, <4>2, TellsBoth
    <3>11. \A i \in 1 .. Len(Closed(s)) : Closed(s)[i].kind \notin Uses
      <4> DEFINE c == Append(Append(d, x), m)
      <4>1. /\ Len(d) \in Nat /\ Len(c) = Len(d) + 2 /\ c[Len(d) + 2] = m /\ c[Len(d) + 1] = x
            /\ \A i \in 1 .. Len(d) : c[i] = d[i]
        BY <1>1, <2>0, <2>1
      <4>2. Closed(s) = c
        BY <3>3
      <4> HIDE DEF c
      <4>3. \A i \in 1 .. Len(c) : i \in 1 .. Len(d) \/ i = Len(d) + 1 \/ i = Len(d) + 2
        BY <4>1
      <4>4. \A i \in 1 .. Len(c) : c[i].kind \notin Uses
        BY <1>2, <2>0, <2>4, <4>1, <4>3 DEF Uses
      <4> QED BY <4>2, <4>4
    <3> QED BY <3>4, <3>5, <3>10, <3>11
  <2>5. CASE x.kind # "user"
    <3>1. ~ByUser(h[b + 1])
      BY <1>4, <2>1, <2>5
    <3>2. Closed(s) = d \o (<<>> \o <<m>>)
      BY <1>6, <2>5 DEF Closed
    <3>3. Closed(s) = Append(d, m)
      <4> HIDE DEF d, m
      <4> QED BY <1>1, <2>0, <3>2
    <3>4. Told(Closed(s)) = Told(d) \o rt
      <4> HIDE DEF d, m, rt
      <4> QED BY <1>1, <2>0, <3>3, ToldMore
    <3>5. Tells(h, rt, b, k)
      <4>1. \A p \in b + 1 .. k : h[p].kind \in {"call", "result", "assistant"}
        BY <2>3, <3>1
      <4> QED BY <1>1, <2>2, <4>1, SummaryTells
    <3> HIDE DEF rt, d, m
    <3>6. Told(d) \in Seq(Telling)
      BY <1>1, ToldIs
    <3>7. Tells(h, Told(d) \o rt, 0, k)
      <4>1. 0 \in Nat /\ 0 <= b
        OBVIOUS
      <4> QED BY <1>2, <2>0, <3>5, <3>6, <4>1, TellsBoth
    <3>8. \A i \in 1 .. Len(Closed(s)) : Closed(s)[i].kind \notin Uses
      <4>1. Len(d) \in Nat /\ Len(Append(d, m)) = Len(d) + 1 /\ Append(d, m)[Len(d) + 1] = m
            /\ \A i \in 1 .. Len(d) : Append(d, m)[i] = d[i]
        BY <1>1, <2>0
      <4>2. \A i \in 1 .. Len(Append(d, m)) : i \in 1 .. Len(d) \/ i = Len(d) + 1
        BY <4>1
      <4>3. \A i \in 1 .. Len(Append(d, m)) : Append(d, m)[i].kind \notin Uses
        BY <1>2, <2>0, <4>1, <4>2 DEF Uses
      <4> QED BY <3>3, <4>3
    <3> QED BY <3>4, <3>7, <3>8
  <2> QED BY <2>4, <2>5
<1> QED BY <1>5, <1>6


\* SystemFirst, of any history.
OneSystem(h) == Len(h) >= 1 /\ \A i \in 1 .. Len(h) : h[i].kind = "system" <=> i = 1

LEMMA LoopsGoneOver ==
  ASSUME NEW h \in Seq(Item), Len(h) <= MaxHistory, OneSystem(h), NEW n \in 0 .. Len(h)
  PROVE  \E b \in Nat : LoopIs(h, b, n, CompletedWalk(h, n)[n])
<1> DEFINE w == CompletedWalk(h, n)
           P == {k \in 0 .. n : \E b \in Nat : LoopIs(h, b, k, w[k]) /\ Starts(h, b, k)}
<1>1. /\ w[0] = NewLoop(<<>>) /\ \A k \in 1 .. n : w[k] = GoneOver(w[k - 1], Line(h, k))
      /\ \A k \in 0 .. n : w[k] \in LoopSet
  BY CompletedWalkIs
<1>2. Len(h) \in Nat /\ n \in Nat /\ n <= Len(h) /\ h[1].kind = "system"
  BY DEF OneSystem
<1>3. ASSUME NEW d \in Seq(Message), NEW k \in 0 .. n, Tells(h, Told(d), 0, k),
             \A i \in 1 .. Len(d) : d[i].kind \notin Uses
      PROVE  LoopIs(h, k, k, NewLoop(d))
  <2> DEFINE s == NewLoop(d)
  <2>1. s.done = d /\ s.loop = <<>> /\ s.results = <<>> /\ s.texts = <<>> /\ s.seen = NothingSeen
    BY DEF NewLoop
  <2>2. k - k = 0 /\ Len(<<>>) = 0 /\ k <= k /\ 1 .. 0 = {} /\ k + 1 .. k = {} /\ k \in Nat
    BY <1>2
  <2>3. LastCalls(h, NothingSeen.calls, k, k)
    BY <2>2, CallsNone
  <2>4. InPlaces(h, <<>>, "result", k, k) /\ InPlaces(h, <<>>, "assistant", k, k)
    BY <2>2, PlacesNone
  <2> HIDE DEF s
  <2>5. LoopIs(h, k, k, s)
    BY <1>3, <2>1, <2>2, <2>3, <2>4 DEF LoopIs
  <2> QED BY <2>5 DEF s
<1> HIDE DEF w
<1>4. 0 \in P
  <2>1. LoopIs(h, 0, 0, w[0])
    <3>1. Tells(h, Told(<<>>), 0, 0) /\ <<>> \in Seq(Message) /\ \A i \in 1 .. Len(<<>>) : <<>>[i].kind \notin Uses
      BY ToldIs, TellsNothing
    <3>2. 0 \in 0 .. n
      BY <1>2
    <3> QED BY <1>1, <1>3, <3>1, <3>2
  <2>2. 0 \in 0 .. n /\ 0 \in Nat /\ Starts(h, 0, 0)
    BY <1>2 DEF Starts
  <2> QED BY <2>1, <2>2
<1>5. ASSUME NEW k \in 1 .. n, k - 1 \in P PROVE k \in P
  <2> DEFINE j == k - 1
             s == w[j]
             m == Line(h, k)
  <2>0. /\ j \in Nat /\ j + 1 = k /\ k \in 1 .. Len(h) /\ j + 1 <= Len(h) /\ j \in 0 .. n /\ k \in 0 .. n
        /\ j <= Len(h)
    BY <1>2
  <2>1. w[k] = GoneOver(s, m) /\ s \in LoopSet /\ w[k] \in LoopSet
    BY <1>1, <2>0
  <2>2. PICK b \in Nat : LoopIs(h, b, j, s) /\ Starts(h, b, j)
    BY <1>5
  <2>3. /\ m.kind = IF ByUser(h[k]) THEN "user" ELSE h[k].kind
        /\ m.told = <<[at |-> k, call |-> 0]>> /\ m \in Message /\ (h[k].kind = "system" <=> k = 1)
    BY <2>0, LineIs DEF Lined, OneSystem
  <2> HIDE DEF s, m, j
  <2>4. CASE k = 1
    <3>1. h[k].kind = "system" /\ m.kind = "system"
      BY <2>3, <2>4 DEF ByUser
    <3>2. s = NewLoop(<<>>)
      BY <1>1, <2>4 DEF s, j
    <3>3. GoneOver(s, m) = NewLoop(<<m>>)
      <4>1. GoneOver(s, m) = [s EXCEPT !.done = Append(@, m)]
        BY <3>1, <3>2 DEF GoneOver, NewLoop
      <4> QED BY <3>2, <4>1 DEF NewLoop
    <3>4. Told(<<m>>) = <<[at |-> 1, call |-> 0]>>
      <4>1. <<m>> = Append(<<>>, m) /\ <<>> \in Seq(Message)
        OBVIOUS
      <4>2. Told(<<m>>) = Told(<<>>) \o m.told
        BY <2>3, <4>1, ToldMore
      <4> QED BY <2>3, <2>4, <4>2, ToldIs
    <3>5. Tells(h, Told(<<m>>), 0, 1)
      <4> DEFINE x == [at |-> 1, call |-> 0]
      <4>1. 0 \in Nat /\ 0 + 1 = 1 /\ x.at = 1 /\ h[1].kind # "result"
        BY <1>2
      <4> HIDE DEF x
      <4>2. Tells(h, <<x>>, 0, 0 + 1)
        BY <4>1, TellsOne
      <4> QED BY <3>4, <4>1, <4>2 DEF x
    <3>6. LoopIs(h, 1, 1, NewLoop(<<m>>)) /\ Starts(h, 1, 1)
      <4>1. <<m>> \in Seq(Message) /\ \A i \in 1 .. Len(<<m>>) : <<m>>[i].kind \notin Uses
        BY <2>3, <3>1 DEF Uses
      <4>2. Starts(h, 1, 1)
        BY <1>2 DEF Starts
      <4> QED BY <1>3, <2>0, <2>4, <3>5, <4>1, <4>2
    <3> QED BY <2>0, <2>1, <2>4, <3>3, <3>6
  <2>5. CASE k # 1 /\ ByUser(h[k])
    <3>1. m.kind = "user"
      BY <2>3, <2>5
    <3>2. GoneOver(s, m) = InLoop(NewLoop(Closed(s)), m)
      BY <3>1 DEF GoneOver
    <3>3. /\ Tells(h, Told(Closed(s)), 0, j)
          /\ \A i \in 1 .. Len(Closed(s)) : Closed(s)[i].kind \notin Uses
          /\ Closed(s) \in Seq(Message)
      BY <2>0, <2>1, <2>2, ClosedTells, ClosedTyped
    <3> DEFINE t == NewLoop(Closed(s))
    <3>4. LoopIs(h, j, j, t) /\ t \in LoopSet
      BY <1>3, <2>0, <3>3, NewLoopTyped
    <3> HIDE DEF t
    <3>5. LoopIs(h, j, j + 1, InLoop(t, Line(h, j + 1))) /\ Starts(h, j, j + 1)
      <4>1. h[j + 1].kind # "system" /\ ByUser(h[j + 1])
        BY <2>0, <2>3, <2>5
      <4> QED BY <2>0, <3>4, <4>1, InLoopStep
    <3>6. LoopIs(h, j, k, w[k]) /\ Starts(h, j, k)
      BY <2>0, <2>1, <3>2, <3>5 DEF t, m
    <3> QED BY <2>0, <3>6
  <2>6. CASE k # 1 /\ ~ByUser(h[k])
    <3>1. m.kind # "user" /\ m.kind # "system"
      BY <2>3, <2>6 DEF ByUser
    <3>2. GoneOver(s, m) = InLoop(s, m)
      BY <3>1 DEF GoneOver
    <3>4. LoopIs(h, b, j + 1, InLoop(s, Line(h, j + 1))) /\ Starts(h, b, j + 1)
      <4>1. h[j + 1].kind # "system" /\ ~ByUser(h[j + 1])
        BY <2>0, <2>3, <2>6
      <4> QED BY <2>0, <2>1, <2>2, <4>1, InLoopStep
    <3>5. LoopIs(h, b, k, w[k]) /\ Starts(h, b, k)
      BY <2>0, <2>1, <3>2, <3>4 DEF m
    <3> QED BY <2>0, <3>5
  <2> QED BY <2>4, <2>5, <2>6
<1>6. \A k \in 0 .. n : k \in P
  <2> HIDE DEF P
  <2> QED BY <1>2, <1>4, <1>5, HoldsToTheEnd
<1>7. n \in 0 .. n
  BY <1>2
<1> QED BY <1>6, <1>7 DEF w

\* Completed loops are all told, and only in texts.
LEMMA CompletedIs ==
  ASSUME NEW h \in Seq(Item), Len(h) <= MaxHistory, OneSystem(h), NEW n \in 0 .. Len(h)
  PROVE  LET c == CompletedHistory(h, n) IN
           /\ c \in Seq(Message) /\ Tells(h, Told(c), 0, n)
           /\ \A i \in 1 .. Len(c) : c[i].kind \notin Uses
<1> DEFINE s == CompletedWalk(h, n)[n]
<1>1. PICK b \in Nat : LoopIs(h, b, n, s)
  BY LoopsGoneOver
<1>2. n \in Nat /\ n <= Len(h) /\ n \in 0 .. n /\ Len(h) \in Nat
  OBVIOUS
<1>3. s \in LoopSet
  BY <1>2, CompletedWalkIs
<1> HIDE DEF s
<1>4. Closed(s) \in Seq(Message) /\ Tells(h, Told(Closed(s)), 0, n)
      /\ \A i \in 1 .. Len(Closed(s)) : Closed(s)[i].kind \notin Uses
  BY <1>1, <1>2, <1>3, ClosedTyped, ClosedTells
<1> QED BY <1>4 DEF CompletedHistory, s

-----------------------------------------------------------------------------
(* The active loop *)

\* Up to p there are texts, which tell of the items to a; then come the lines of the
\* items after a.
InParts(ms, p, h, a) ==
  /\ Len(ms) = p + (Len(h) - a)
  /\ \A i \in 1 .. p : ms[i].kind \notin Uses
  /\ \A q \in 1 .. Len(h) - a : ms[p + q] = Line(h, a + q)
  /\ Tells(h, TellingWalk(ms)[p], 0, a)

LEMMA LinesAre ==
  ASSUME NEW h \in Seq(Item), Len(h) <= MaxHistory, NEW a \in 1 .. Len(h)
  PROVE  LET l == Lines(h, a, Len(h)) IN
           /\ l \in Seq(Message) /\ Len(l) = Len(h) - a + 1
           /\ l[1] = Line(h, a) /\ \A q \in 1 .. Len(h) - a : l[1 + q] = Line(h, a + q)
<1> DEFINE l == Lines(h, a, Len(h))
           n == Len(h) + 1 - a
<1>1. Len(h) \in Nat /\ n \in Nat /\ n >= 1 /\ a \in Nat
  OBVIOUS
<1>2. l = [i \in 1 .. n |-> Line(h, a + i - 1)]
  BY DEF Lines
<1>3. \A i \in 1 .. n : a + i - 1 \in 1 .. Len(h)
  BY <1>1
<1>4. \A i \in 1 .. n : Line(h, a + i - 1) \in Message
  BY <1>3, LineIs DEF Lined
<1> HIDE DEF l, n
<1>5. l \in [1 .. n -> Message] /\ DOMAIN l = 1 .. n
  BY <1>2, <1>4
<1>6. l \in Seq(Message)
  BY <1>1, <1>5, SeqDef
<1>7. Len(l) = n
  <2>1. 1 .. Len(l) = 1 .. n /\ Len(l) \in Nat
    BY <1>5, <1>6, LenProperties, Zenon
  <2>2. \A x \in Nat : 1 .. x = 1 .. n => x = n
    <3> SUFFICES ASSUME NEW x \in Nat, 1 .. x = 1 .. n PROVE x = n
      OBVIOUS
    <3>1. (x >= 1 => x \in 1 .. n) /\ (n >= 1 => n \in 1 .. x)
      BY <1>1
    <3> QED BY <1>1, <3>1
  <2> QED BY <2>1, <2>2
<1>8. l[1] = Line(h, a)
  <2>1. 1 \in 1 .. n /\ a + 1 - 1 = a
    BY <1>1
  <2> QED BY <1>2, <2>1
<1>9. \A q \in 1 .. Len(h) - a : l[1 + q] = Line(h, a + q)
  <2> TAKE q \in 1 .. Len(h) - a
  <2>1. 1 + q \in 1 .. n /\ a + (1 + q) - 1 = a + q
    BY <1>1 DEF n
  <2> QED BY <1>2, <2>1
<1>10. n = Len(h) - a + 1
  BY <1>1 DEF n
<1> QED BY <1>6, <1>7, <1>8, <1>9, <1>10 DEF l

LEMMA MainIs ==
  ASSUME NEW h \in Seq(Item), Len(h) <= MaxHistory, OneSystem(h), LastUser(h) > 0
  PROVE  \E p \in Nat : MainHistory(h) \in Seq(Message) /\ InParts(MainHistory(h), p, h, LastUser(h))
<1> DEFINE a == LastUser(h)
           c == CompletedHistory(h, a - 1)
           l == Lines(h, a, Len(h))
           ms == c \o l
           m == Len(c)
           w == TellingWalk(ms)
           x == [at |-> a, call |-> 0]
<1>1. a \in 1 .. Len(h) /\ ByUser(h[a]) /\ Len(h) \in Nat /\ a - 1 \in 0 .. Len(h)
  BY LastUserIs
<1>2. MainHistory(h) = ms
  BY DEF MainHistory
<1>3. c \in Seq(Message) /\ Tells(h, Told(c), 0, a - 1) /\ \A i \in 1 .. m : c[i].kind \notin Uses
  BY <1>1, CompletedIs
<1>4. /\ l \in Seq(Message) /\ Len(l) = Len(h) - a + 1
      /\ l[1] = Line(h, a) /\ \A q \in 1 .. Len(h) - a : l[1 + q] = Line(h, a + q)
  BY <1>1, LinesAre
<1>5. Line(h, a).told = <<x>> /\ Line(h, a).kind = "user"
  BY <1>1, LineIs
<1>6. ms = c \o l
  OBVIOUS
<1> HIDE DEF a, c, l, ms
<1>7. ms \in Seq(Message) /\ m \in Nat
  <2>1. ms \in Seq(Message)
    BY <1>3, <1>4, <1>6, Joins
  <2> QED BY <1>3, <2>1
<1>8. Len(ms) = m + Len(l)
  <2>1. c \in Seq(Message) /\ l \in Seq(Message)
    BY <1>3, <1>4
  <2>2. Len(ms) = Len(c) + Len(l)
    BY <1>6, <2>1, Joins
  <2> QED BY <2>2
<1>9. /\ \A i \in 1 .. m : ms[i] = c[i]
      /\ \A i \in m + 1 .. m + Len(l) : ms[i] = l[i - m]
  BY <1>3, <1>4, <1>6, JoinsAt
<1>10. w[m] = Told(c)
  <2>1. m <= Len(c) /\ m <= Len(ms)
    BY <1>1, <1>4, <1>7, <1>8
  <2> QED BY <1>3, <1>7, <1>9, <2>1, TellsAlike DEF Told
<1>a. /\ \A k \in 1 .. Len(ms) : w[k] = w[k - 1] \o ms[k].told
      /\ \A k \in 0 .. Len(ms) : w[k] \in Seq(Telling)
  BY <1>7, TellingWalkIs
<1> HIDE DEF w, m
<1>11. ms[m + 1] = Line(h, a)
  <2>1. m + 1 \in m + 1 .. m + Len(l) /\ (m + 1) - m = 1
    BY <1>1, <1>4, <1>7
  <2> QED BY <1>4, <1>9, <2>1
<1>12. w[m + 1] = Told(c) \o <<x>>
  <2>1. m + 1 \in 1 .. Len(ms) /\ (m + 1) - 1 = m
    BY <1>1, <1>4, <1>7, <1>8
  <2> QED BY <1>5, <1>10, <1>11, <1>a, <2>1
<1>13. Tells(h, w[m + 1], 0, a)
  <2>1. a - 1 \in Nat /\ (a - 1) + 1 = a /\ x.at = (a - 1) + 1 /\ h[(a - 1) + 1].kind # "result"
    BY <1>1 DEF ByUser
  <2>2. x \in Telling
    <3>1. a \in 1 .. MaxHistory /\ 0 \in 0 .. MaxHistory
      BY <1>1, ContextAssumption
    <3> QED BY <3>1 DEF Telling
  <2> HIDE DEF x
  <2>3. Tells(h, <<x>>, a - 1, (a - 1) + 1)
    BY <2>1, TellsOne
  <2>4. Tells(h, <<x>>, a - 1, a)
    BY <2>1, <2>3
  <2>5. Told(c) \in Seq(Telling) /\ <<x>> \in Seq(Telling)
    BY <1>3, <2>2, ToldIs
  <2>6. 0 \in Nat /\ a \in Nat /\ 0 <= a - 1 /\ a - 1 <= a
    BY <1>1
  <2>7. Tells(h, Told(c) \o <<x>>, 0, a)
    BY <1>3, <2>1, <2>4, <2>5, <2>6, TellsBoth
  <2> QED BY <1>12, <2>7
<1>14. \A i \in 1 .. m + 1 : ms[i].kind \notin Uses
  <2>1. \A i \in 1 .. m + 1 : i = m + 1 \/ i \in 1 .. m
    BY <1>7
  <2>2. ms[m + 1].kind \notin Uses
    BY <1>5, <1>11 DEF Uses
  <2> QED BY <1>3, <1>9, <2>1, <2>2 DEF m
<1>15. \A q \in 1 .. Len(h) - a : ms[(m + 1) + q] = Line(h, a + q)
  <2> TAKE q \in 1 .. Len(h) - a
  <2>1. (m + 1) + q \in m + 1 .. m + Len(l) /\ ((m + 1) + q) - m = 1 + q
    BY <1>1, <1>4, <1>7
  <2>2. ms[(m + 1) + q] = l[1 + q]
    BY <1>9, <2>1
  <2> QED BY <1>4, <2>2
<1>16. Len(ms) = (m + 1) + (Len(h) - a) /\ m + 1 \in Nat
  BY <1>1, <1>4, <1>7, <1>8
<1>17. InParts(ms, m + 1, h, a)
  BY <1>13, <1>14, <1>15, <1>16 DEF InParts, w
<1>18. \E p \in Nat : MainHistory(h) \in Seq(Message) /\ InParts(MainHistory(h), p, h, a)
  BY <1>2, <1>7, <1>16, <1>17
<1> QED BY <1>18 DEF a

\* Merging leaves what is told, and the tool calls and results as they are.
LEMMA MergingTells ==
  ASSUME NEW d \in Seq(Message), NEW m \in Message
  PROVE  /\ Told(MergedWith(d, m)) = Told(d) \o m.told
         /\ m.kind \in Uses => MergedWith(d, m) = Append(d, m)
         /\ (\A i \in 1 .. Len(d) : d[i].kind \notin Uses) /\ m.kind \notin Uses =>
              \A i \in 1 .. Len(MergedWith(d, m)) : MergedWith(d, m)[i].kind \notin Uses
<1> DEFINE Merges == d # <<>> /\ Last(d).kind = m.kind /\ m.kind \notin {"call", "result"}
           f == Front(d)
           x == Last(d)
           y == [x EXCEPT !.told = @ \o m.told]
           n == Len(f)
<1>1. CASE Merges
  <2>1. f \in Seq(Message) /\ x \in Message /\ d = Append(f, x)
    BY <1>1 DEF Front, Last
  <2>2. MergedWith(d, m) = Append(f, y)
    BY <1>1 DEF MergedWith
  <2>3. y.told = x.told \o m.told /\ y.kind = x.kind /\ y \in Message
    <3>1. x.told \in Seq(Telling) /\ m.told \in Seq(Telling)
      BY <2>1, MessageFields
    <3>2. x.told \o m.told \in Seq(Telling)
      BY <3>1
    <3> HIDE DEF x
    <3> QED BY <2>1, <3>2 DEF Message
  <2>4. m.kind \notin Uses
    BY <1>1 DEF Uses
  <2>5. x.kind = m.kind
    BY <1>1
  <2> HIDE DEF f, x, y
  <2>6. Told(Append(f, y)) = (Told(f) \o x.told) \o m.told
    <3>1. Told(Append(f, y)) = Told(f) \o y.told
      BY <2>1, <2>3, ToldMore
    <3>2. Told(f) \in Seq(Telling) /\ x.told \in Seq(Telling) /\ m.told \in Seq(Telling)
      BY <2>1, ToldIs, MessageFields
    <3>3. Told(f) \o (x.told \o m.told) = (Told(f) \o x.told) \o m.told
      <4>1. \A r, t, u \in Seq(Telling) : (r \o t) \o u = r \o (t \o u)
        BY ConcatAssociative
      <4> QED BY <3>2, <4>1, Zenon
    <3> QED BY <2>3, <3>1, <3>3
  <2>7. Told(d) = Told(f) \o x.told
    BY <2>1, ToldMore
  <2>8. ASSUME \A i \in 1 .. Len(d) : d[i].kind \notin Uses
        PROVE  \A i \in 1 .. Len(Append(f, y)) : Append(f, y)[i].kind \notin Uses
    <3>1. /\ n \in Nat /\ Len(Append(f, y)) = n + 1 /\ Append(f, y)[n + 1] = y
          /\ \A i \in 1 .. n : Append(f, y)[i] = f[i]
      BY <2>1, <2>3
    <3>2. Len(d) = n + 1 /\ \A i \in 1 .. n : d[i] = f[i]
      BY <2>1
    <3>3. \A i \in 1 .. n + 1 : i = n + 1 \/ i \in 1 .. n
      BY <3>1
    <3>4. \A i \in 1 .. n : i \in 1 .. n + 1
      BY <3>1
    <3> QED BY <2>3, <2>4, <2>5, <2>8, <3>1, <3>2, <3>3, <3>4
  <2> QED BY <2>2, <2>4, <2>6, <2>7, <2>8
<1>2. CASE ~Merges
  <2>1. MergedWith(d, m) = Append(d, m)
    BY <1>2 DEF MergedWith
  <2>2. Told(Append(d, m)) = Told(d) \o m.told
    BY ToldMore
  <2>3. ASSUME \A i \in 1 .. Len(d) : d[i].kind \notin Uses, m.kind \notin Uses
        PROVE  \A i \in 1 .. Len(Append(d, m)) : Append(d, m)[i].kind \notin Uses
    <3>1. /\ Len(d) \in Nat /\ Len(Append(d, m)) = Len(d) + 1 /\ Append(d, m)[Len(d) + 1] = m
          /\ \A i \in 1 .. Len(d) : Append(d, m)[i] = d[i]
      OBVIOUS
    <3>2. \A i \in 1 .. Len(d) + 1 : i = Len(d) + 1 \/ i \in 1 .. Len(d)
      BY <3>1
    <3> QED BY <2>3, <3>1, <3>2
  <2> QED BY <2>1, <2>2, <2>3
<1>3. m.kind \in Uses => ~Merges
  BY DEF Uses
<1>4. m.kind \in Uses => MergedWith(d, m) = Append(d, m)
  BY <1>3 DEF MergedWith
<1> QED BY <1>1, <1>2, <1>4

LEMMA MergedIs ==
  ASSUME NEW h \in Seq(Item), Len(h) <= MaxHistory, NEW a \in 1 .. Len(h),
         \A i \in a + 1 .. Len(h) : h[i].kind \in Uses,
         NEW ms \in Seq(Message), NEW p \in Nat, InParts(ms, p, h, a)
  PROVE  Merged(ms) \in Seq(Message) /\ \E r \in Nat : InParts(Merged(ms), r, h, a)
<1> DEFINE w == MergedWalk(ms)
           v == TellingWalk(ms)
           n == Len(h) - a
           d == w[p]
           r == Len(d)
           TextsAt(k) == Told(w[k]) = v[k] /\ \A i \in 1 .. Len(w[k]) : w[k][i].kind \notin Uses
           T == {k \in 0 .. p : TextsAt(k)}
           LinesAt(k) == /\ Len(w[p + k]) = r + k
                         /\ \A i \in 1 .. r : w[p + k][i] = d[i]
                         /\ \A q \in 1 .. k : w[p + k][r + q] = Line(h, a + q)
           L == {k \in 0 .. n : LinesAt(k)}
<1>1. Len(h) \in Nat /\ n \in Nat /\ p \in Nat /\ a \in Nat
  OBVIOUS
<1>2. /\ Len(ms) = p + n
      /\ \A i \in 1 .. p : ms[i].kind \notin Uses
      /\ \A q \in 1 .. n : ms[p + q] = Line(h, a + q)
      /\ Tells(h, v[p], 0, a)
  BY DEF InParts
<1>3. /\ w[0] = <<>> /\ \A k \in 1 .. Len(ms) : w[k] = MergedWith(w[k - 1], ms[k])
      /\ \A k \in 0 .. Len(ms) : w[k] \in Seq(Message)
  BY MergedWalkIs
<1>4. v[0] = <<>> /\ \A k \in 1 .. Len(ms) : v[k] = v[k - 1] \o ms[k].told
  BY TellingWalkIs
<1>5. \A i \in 1 .. Len(ms) : ms[i] \in Message
  OBVIOUS
<1>6. p \in 0 .. Len(ms) /\ \A k \in 0 .. p : k \in 0 .. Len(ms) /\ (k # 0 => k \in 1 .. Len(ms))
  BY <1>1, <1>2
<1> HIDE DEF w, v, n
<1>7. 0 \in T
  <2>1. TextsAt(0)
    BY <1>3, <1>4, ToldIs
  <2> QED BY <1>1, <2>1
<1>8. ASSUME NEW k \in 1 .. p, k - 1 \in T PROVE k \in T
  <2>1. k \in 1 .. Len(ms) /\ k - 1 \in 0 .. Len(ms) /\ k \in 0 .. p
    BY <1>1, <1>2
  <2>2. w[k] = MergedWith(w[k - 1], ms[k]) /\ w[k - 1] \in Seq(Message) /\ ms[k] \in Message
    BY <1>3, <1>5, <2>1
  <2>3. TextsAt(k - 1)
    BY <1>8
  <2>4. Told(w[k]) = v[k]
    <3>1. Told(MergedWith(w[k - 1], ms[k])) = Told(w[k - 1]) \o ms[k].told
      BY <2>2, MergingTells
    <3>2. v[k] = v[k - 1] \o ms[k].told
      BY <1>4, <2>1
    <3> QED BY <2>2, <2>3, <3>1, <3>2, Zenon
  <2>5. \A i \in 1 .. Len(w[k]) : w[k][i].kind \notin Uses
    <3>1. ms[k].kind \notin Uses
      BY <1>2
    <3>2. \A i \in 1 .. Len(w[k - 1]) : w[k - 1][i].kind \notin Uses
      BY <2>3
    <3>3. \A i \in 1 .. Len(MergedWith(w[k - 1], ms[k])) : MergedWith(w[k - 1], ms[k])[i].kind \notin Uses
      BY <2>2, <3>1, <3>2, MergingTells
    <3> QED BY <2>2, <3>3, Zenon
  <2>6. TextsAt(k)
    BY <2>4, <2>5
  <2> QED BY <2>1, <2>6
<1>9. TextsAt(p) /\ d \in Seq(Message) /\ r \in Nat
  <2>1. \A k \in 0 .. p : k \in T
    <3> HIDE DEF T
    <3> QED BY <1>1, <1>7, <1>8, HoldsToTheEnd
  <2>2. p \in 0 .. p
    BY <1>1
  <2>3. d \in Seq(Message)
    BY <1>3, <1>6
  <2> QED BY <2>1, <2>2, <2>3
<1> HIDE DEF d, r
<1>10. 0 \in L
  <2>1. p + 0 = p /\ r + 0 = r /\ 0 \in 0 .. n
    BY <1>1, <1>9
  <2>2. LinesAt(0)
    BY <2>1 DEF d, r
  <2> QED BY <2>1, <2>2
<1>11. ASSUME NEW k \in 1 .. n, k - 1 \in L PROVE k \in L
  <2> DEFINE e == w[p + (k - 1)]
             m == Line(h, a + k)
  <2>1. /\ p + k \in 1 .. Len(ms) /\ (p + k) - 1 = p + (k - 1) /\ p + (k - 1) \in 0 .. Len(ms)
        /\ a + k \in 1 .. Len(h) /\ a + k \in a + 1 .. Len(h) /\ k \in 0 .. n
    BY <1>1, <1>2 DEF n
  <2>2. w[p + k] = MergedWith(e, ms[p + k]) /\ e \in Seq(Message) /\ ms[p + k] = m /\ m \in Message
    BY <1>2, <1>3, <1>5, <2>1
  <2>3. m.kind \in Uses
    BY <2>1, LineIs DEF Uses, ByUser
  <2>4. /\ Len(e) = r + (k - 1)
        /\ \A i \in 1 .. r : e[i] = d[i]
        /\ \A q \in 1 .. k - 1 : e[r + q] = Line(h, a + q)
    BY <1>11
  <2> HIDE DEF e, m
  <2>5. w[p + k] = Append(e, m)
    BY <2>2, <2>3, MergingTells
  <2> DEFINE f == Append(e, m)
  <2>6. Len(f) = r + k
    BY <1>1, <1>9, <2>2, <2>4
  <2>7. f[r + k] = m /\ \A i \in 1 .. r + (k - 1) : f[i] = e[i]
    BY <1>1, <1>9, <2>2, <2>4
  <2> HIDE DEF f
  <2>8. \A i \in 1 .. r : f[i] = d[i]
    <3>1. \A i \in 1 .. r : i \in 1 .. r + (k - 1)
      BY <1>1, <1>9
    <3> QED BY <2>4, <2>7, <3>1
  <2>9. \A q \in 1 .. k : f[r + q] = Line(h, a + q)
    <3>1. \A q \in 1 .. k : q = k \/ (q \in 1 .. k - 1 /\ r + q \in 1 .. r + (k - 1))
      BY <1>1, <1>9
    <3>2. f[r + k] = Line(h, a + k)
      BY <2>7 DEF m
    <3>3. \A q \in 1 .. k - 1 : r + q \in 1 .. r + (k - 1) => f[r + q] = Line(h, a + q)
      BY <2>4, <2>7
    <3> QED BY <3>1, <3>2, <3>3
  <2>10. LinesAt(k)
    BY <2>5, <2>6, <2>8, <2>9 DEF f
  <2> QED BY <2>1, <2>10
<1>12. LinesAt(n)
  <2>1. \A k \in 0 .. n : k \in L
    <3> HIDE DEF L
    <3> QED BY <1>1, <1>10, <1>11, HoldsToTheEnd
  <2>2. n \in 0 .. n
    BY <1>1
  <2> QED BY <2>1, <2>2
<1>13. Merged(ms) = w[p + n] /\ Merged(ms) \in Seq(Message)
  <2>1. Merged(ms) = w[p + n]
    BY <1>2 DEF Merged, w
  <2>2. p + n \in 0 .. Len(ms)
    BY <1>1, <1>2
  <2> QED BY <1>3, <2>1, <2>2
<1> DEFINE g == Merged(ms)
<1>14. TellingWalk(g)[r] = TellingWalk(d)[r]
  <2>1. g \in Seq(Message) /\ Len(g) = r + n /\ \A i \in 1 .. r : g[i] = d[i]
    BY <1>12, <1>13
  <2>2. r <= Len(g) /\ r <= Len(d)
    BY <1>1, <1>9, <2>1 DEF r
  <2> HIDE DEF g
  <2> QED BY <1>9, <2>1, <2>2, TellsAlike
<1>15. Tells(h, TellingWalk(g)[r], 0, a)
  <2>1. TellingWalk(d)[r] = v[p]
    BY <1>9 DEF Told, d, r
  <2> QED BY <1>2, <1>14, <2>1
<1>16. InParts(g, r, h, a)
  <2>1. \A i \in 1 .. r : d[i].kind \notin Uses
    BY <1>9 DEF d, r
  <2>2. /\ Len(g) = r + n
        /\ \A i \in 1 .. r : g[i].kind \notin Uses
        /\ \A q \in 1 .. n : g[r + q] = Line(h, a + q)
    BY <1>12, <1>13, <2>1
  <2> HIDE DEF g
  <2> QED BY <1>15, <2>2 DEF InParts, n
<1> QED BY <1>9, <1>13, <1>16

-----------------------------------------------------------------------------
(* What is sent of the active loop *)

\* A call is sent, and a result if there is a call of its id before it.
Wanted(h, a, x) ==
  h[x].kind = "call" \/ \E c \in a + 1 .. x - 1 : h[c].kind = "call" /\ h[c].id = h[x].id

\* Up to p there are texts; then come the wanted items after a, to k, in their order.
SentParts(h, p, a, k, sent) ==
  /\ p <= Len(sent)
  /\ \A i \in 1 .. p : sent[i].kind \notin Uses
  /\ \A i \in p + 1 .. Len(sent) :
       /\ At(sent[i]) \in a + 1 .. k /\ Wanted(h, a, At(sent[i]))
       /\ sent[i].kind = h[At(sent[i])].kind /\ sent[i].id = h[At(sent[i])].id
  /\ \A i, j \in p + 1 .. Len(sent) : i < j => At(sent[i]) < At(sent[j])
  /\ \A x \in a + 1 .. k : Wanted(h, a, x) => \E i \in p + 1 .. Len(sent) : At(sent[i]) = x
  /\ Tells(h, Told(sent), 0, k)

LEMMA SentMore ==
  ASSUME NEW h, NEW p \in Nat, NEW a \in Nat, NEW k \in Nat, a <= k,
         NEW sent \in Seq(Message), SentParts(h, p, a, k, sent), NEW m \in Message, NEW x \in Telling,
         m.told = <<x>>, x.at = k + 1, Wanted(h, a, k + 1),
         m.kind = h[k + 1].kind, m.id = h[k + 1].id,
         Plain(h) /\ h[k + 1].kind = "result" => LoopCall(h, k + 1, x.call)
  PROVE  SentParts(h, p, a, k + 1, Append(sent, m))
<1> DEFINE g == Append(sent, m)
           n == Len(sent)
<1>1. n \in Nat /\ Len(g) = n + 1 /\ g[n + 1] = m /\ \A i \in 1 .. n : g[i] = sent[i]
  OBVIOUS
<1>2. At(m) = k + 1
  BY DEF At
<1>3. Told(g) = Told(sent) \o <<x>> /\ Told(sent) \in Seq(Telling)
  BY ToldMore, ToldIs
<1> HIDE DEF g, n
<1>4. /\ p <= n
      /\ \A i \in 1 .. p : sent[i].kind \notin Uses
      /\ \A i \in p + 1 .. n :
           /\ At(sent[i]) \in a + 1 .. k /\ Wanted(h, a, At(sent[i]))
           /\ sent[i].kind = h[At(sent[i])].kind /\ sent[i].id = h[At(sent[i])].id
      /\ \A i, j \in p + 1 .. n : i < j => At(sent[i]) < At(sent[j])
      /\ \A y \in a + 1 .. k : Wanted(h, a, y) => \E i \in p + 1 .. n : At(sent[i]) = y
      /\ Tells(h, Told(sent), 0, k)
  BY DEF SentParts, n
<1>5. /\ \A i \in p + 1 .. n + 1 : i = n + 1 \/ i \in p + 1 .. n
      /\ \A i \in p + 1 .. n : i \in 1 .. n /\ i \in p + 1 .. n + 1
      /\ \A i \in 1 .. p : i \in 1 .. n
      /\ n + 1 \in p + 1 .. n + 1 /\ p <= n + 1
      /\ \A y \in a + 1 .. k + 1 : y = k + 1 \/ y \in a + 1 .. k
      /\ \A y \in a + 1 .. k : y \in a + 1 .. k + 1 /\ y < k + 1
      /\ k + 1 \in a + 1 .. k + 1
  BY <1>1, <1>4
<1>6. \A i \in 1 .. p : g[i].kind \notin Uses
  BY <1>1, <1>4, <1>5
<1>7. ASSUME NEW i \in p + 1 .. n + 1
      PROVE  /\ At(g[i]) \in a + 1 .. k + 1 /\ Wanted(h, a, At(g[i]))
             /\ g[i].kind = h[At(g[i])].kind /\ g[i].id = h[At(g[i])].id
  <2>1. CASE i = n + 1
    BY <1>1, <1>2, <1>5, <2>1
  <2>2. CASE i \in p + 1 .. n
    <3>1. g[i] = sent[i]
      BY <1>1, <1>5, <2>2
    <3> QED BY <1>4, <1>5, <2>2, <3>1
  <2> QED BY <1>5, <2>1, <2>2
<1>8. ASSUME NEW i \in p + 1 .. n + 1, NEW j \in p + 1 .. n + 1, i < j PROVE At(g[i]) < At(g[j])
  <2>1. i \in p + 1 .. n
    BY <1>1, <1>8
  <2>2. g[i] = sent[i] /\ At(sent[i]) \in a + 1 .. k
    BY <1>1, <1>4, <1>5, <2>1
  <2>3. CASE j = n + 1
    BY <1>1, <1>2, <1>5, <2>2, <2>3
  <2>4. CASE j \in p + 1 .. n
    <3>1. g[j] = sent[j]
      BY <1>1, <1>5, <2>4
    <3> QED BY <1>4, <1>8, <2>1, <2>2, <2>4, <3>1
  <2> QED BY <1>5, <2>3, <2>4
<1>9. ASSUME NEW y \in a + 1 .. k + 1, Wanted(h, a, y) PROVE \E i \in p + 1 .. n + 1 : At(g[i]) = y
  <2>1. CASE y = k + 1
    BY <1>1, <1>2, <1>5, <2>1
  <2>2. CASE y \in a + 1 .. k
    <3>1. PICK i \in p + 1 .. n : At(sent[i]) = y
      BY <1>4, <1>9, <2>2
    <3>2. i \in p + 1 .. n + 1 /\ g[i] = sent[i]
      BY <1>1, <1>5
    <3> QED BY <3>1, <3>2
  <2> QED BY <1>5, <2>1, <2>2
<1>10. Tells(h, Told(g), 0, k + 1)
  <2>1. Tells(h, <<x>>, k, k + 1)
    BY TellsOne
  <2>2. 0 \in Nat /\ k + 1 \in Nat /\ 0 <= k /\ k <= k + 1 /\ <<x>> \in Seq(Telling)
    OBVIOUS
  <2>3. Tells(h, Told(sent) \o <<x>>, 0, k + 1)
    BY <1>3, <1>4, <2>1, <2>2, TellsBoth
  <2> QED BY <1>3, <2>3
<1>11. SentParts(h, p, a, k + 1, g)
  BY <1>1, <1>5, <1>6, <1>7, <1>8, <1>9, <1>10 DEF SentParts
<1> QED BY <1>11 DEF g

LEMMA SentSkips ==
  ASSUME NEW h, NEW p \in Nat, NEW a \in Nat, NEW k \in Nat, a <= k,
         NEW sent \in Seq(Message), SentParts(h, p, a, k, sent), ~Wanted(h, a, k + 1),
         h[k + 1].kind \in Uses, Plain(h) /\ h[k + 1].kind = "result" => LoopCall(h, k + 1, 0)
  PROVE  SentParts(h, p, a, k + 1, sent)
<1>1. /\ \A y \in a + 1 .. k + 1 : y = k + 1 \/ y \in a + 1 .. k
      /\ \A y \in a + 1 .. k : y \in a + 1 .. k + 1
  OBVIOUS
<1>2. Tells(h, Told(sent), 0, k + 1)
  <2>1. Tells(h, <<>>, k, k + 1)
    BY TellsNot
  <2>2. Tells(h, Told(sent), 0, k) /\ Told(sent) \in Seq(Telling)
    BY ToldIs DEF SentParts
  <2>3. 0 \in Nat /\ k + 1 \in Nat /\ 0 <= k /\ k <= k + 1 /\ <<>> \in Seq(Telling)
    OBVIOUS
  <2>4. Tells(h, Told(sent) \o <<>>, 0, k + 1)
    BY <2>1, <2>2, <2>3, TellsBoth
  <2>5. Told(sent) \o <<>> = Told(sent)
    BY <2>2
  <2> QED BY <2>4, <2>5
<1>3. /\ p <= Len(sent)
      /\ \A i \in 1 .. p : sent[i].kind \notin Uses
      /\ \A i \in p + 1 .. Len(sent) :
           /\ At(sent[i]) \in a + 1 .. k /\ Wanted(h, a, At(sent[i]))
           /\ sent[i].kind = h[At(sent[i])].kind /\ sent[i].id = h[At(sent[i])].id
      /\ \A i, j \in p + 1 .. Len(sent) : i < j => At(sent[i]) < At(sent[j])
      /\ \A y \in a + 1 .. k : Wanted(h, a, y) => \E i \in p + 1 .. Len(sent) : At(sent[i]) = y
  BY DEF SentParts
<1> QED BY <1>1, <1>2, <1>3, Zenon DEF SentParts

\* One item of the active loop.
LEMMA SentStep ==
  ASSUME NEW h \in Seq(Item), Len(h) <= MaxHistory, NEW a \in 1 .. Len(h), ByUser(h[a]),
         \A i \in a + 1 .. Len(h) : h[i].kind \in Uses /\ h[i].id \in Ids,
         NEW p \in Nat, NEW k \in Nat, a <= k, k + 1 <= Len(h),
         NEW s \in SentSet, LastCalls(h, s.seen.calls, a - 1, k), SentParts(h, p, a, k, s.sent)
  PROVE  LET t == Sent(s, Line(h, k + 1)) IN
           LastCalls(h, t.seen.calls, a - 1, k + 1) /\ SentParts(h, p, a, k + 1, t.sent)
<1> DEFINE m == Line(h, k + 1)
           id == h[k + 1].id
           x == [at |-> k + 1, call |-> 0]
           t == Sent(s, m)
<1>0. /\ k + 1 \in 1 .. Len(h) /\ k + 1 \in a + 1 .. Len(h) /\ Len(h) \in Nat /\ a - 1 \in Nat /\ a - 1 <= k
      /\ a \in Nat /\ (a - 1) + 1 = a /\ (a - 1) + 2 = a + 1
  OBVIOUS
<1>1. /\ m \in Message /\ m.told = <<x>> /\ m.told # <<>> /\ At(m) = k + 1 /\ m.id = id
      /\ m.kind = h[k + 1].kind /\ m.kind \in Uses
  BY <1>0, LineIs DEF Lined, Uses, ByUser
<1>2. id \in Ids /\ id # None /\ id \in CallIds /\ CallId(m) = id /\ ResultId(s.seen, m) = id
  BY <1>0, <1>1, ContextAssumption DEF CallIds, CallId, ResultId
<1>3. s.seen \in Seen /\ s.sent \in Seq(Message) /\ s.seen.calls \in [CallIds -> 0 .. MaxHistory]
  BY DEF SentSet, Seen
<1>4. x \in Telling
  <2>1. k + 1 \in 1 .. MaxHistory /\ 0 \in 0 .. MaxHistory
    BY <1>0, ContextAssumption
  <2> QED BY <2>1 DEF Telling
<1>5. \A d \in a + 1 .. k : CallId(Line(h, d)) = h[d].id
  <2> TAKE d \in a + 1 .. k
  <2>1. d \in 1 .. Len(h) /\ d \in a + 1 .. Len(h)
    BY <1>0
  <2>2. Line(h, d).id = h[d].id /\ h[d].id # None
    BY <2>1, LineIs, ContextAssumption
  <2> QED BY <2>2 DEF CallId
<1>6. \A i \in (a - 1) + 2 .. k : ~ByUser(h[i])
  <2> TAKE i \in (a - 1) + 2 .. k
  <2>1. i \in a + 1 .. Len(h)
    BY <1>0
  <2> QED BY <2>1 DEF Uses, ByUser
<1>7. CASE m.kind = "call"
  <2>1. t = [seen |-> SawCall(s.seen, m), sent |-> Append(s.sent, [m EXCEPT !.id = CallId(m)])]
    BY <1>7 DEF Sent
  <2> HIDE DEF t
  <2>0. t.seen = SawCall(s.seen, m) /\ t.sent = Append(s.sent, [m EXCEPT !.id = CallId(m)])
    BY <2>1
  <2>2. [m EXCEPT !.id = CallId(m)] = m
    <3>1. CallId(m) = m.id
      BY <1>1, <1>2
    <3> QED BY <1>1, <3>1 DEF Message
  <2>3. LastCalls(h, t.seen.calls, a - 1, k + 1)
    BY <1>0, <1>1, <1>3, <1>7, <2>0, CallsMore
  <2>4. Wanted(h, a, k + 1) /\ h[k + 1].kind # "result"
    BY <1>1, <1>7 DEF Wanted
  <2> HIDE DEF x, m
  <2>5. SentParts(h, p, a, k + 1, Append(s.sent, m))
    <3>1. x.at = k + 1
      BY DEF x
    <3> QED BY <1>0, <1>1, <1>3, <1>4, <2>4, <3>1, SentMore
  <2> QED BY <2>0, <2>2, <2>3, <2>5 DEF t, m
<1>8. CASE m.kind = "result"
  <2> DEFINE y == ResultOf(s.seen, m)
             c == y.call
  <2>1. y \in Telling /\ y.at = k + 1 /\ c = s.seen.calls[id]
    BY <1>1, <1>2, <1>3, SeenIs DEF ResultOf
  <2>2. Plain(h) => LoopCall(h, k + 1, c)
    <3>1. (a - 1) + 1 <= k /\ ByUser(h[(a - 1) + 1])
      BY <1>0
    <3>2. ASSUME Plain(h) PROVE LoopCall(h, k + 1, ResultOf(s.seen, Line(h, k + 1)).call)
      BY <1>0, <1>1, <1>3, <1>6, <1>8, <3>1, <3>2, LoopCallIs
    <3> QED BY <3>2
  <2>3. /\ c = 0 \/ (c \in a .. k /\ h[c].kind = "call" /\ CallId(Line(h, c)) = id)
        /\ \A d \in a .. k : d > c /\ h[d].kind = "call" => CallId(Line(h, d)) # id
    BY <1>0, <1>2, <2>1 DEF LastCalls
  <2>4. LastCalls(h, s.seen.calls, a - 1, k + 1)
    BY <1>0, <1>1, <1>3, <1>8, CallsSame
  <2>5. (k + 1) - 1 = k
    BY <1>0
  <2> HIDE DEF c, y, id
  <2>6. CASE c = 0
    <3>1. t = s
      BY <1>8, <2>6 DEF Sent, c, y
    <3>2. ~Wanted(h, a, k + 1)
      <4> SUFFICES ASSUME NEW d \in a + 1 .. k, h[d].kind = "call", h[d].id = id PROVE FALSE
        BY <1>1, <1>8, <2>5 DEF Wanted, id
      <4>1. d \in a .. k /\ d > 0
        BY <1>0
      <4> QED BY <1>5, <2>3, <2>6, <4>1
    <3>3. SentParts(h, p, a, k + 1, s.sent)
      BY <1>0, <1>1, <1>3, <2>2, <2>6, <3>2, SentSkips
    <3> QED BY <2>4, <3>1, <3>3
  <2>7. CASE c # 0
    <3> DEFINE e == [m EXCEPT !.id = ResultId(s.seen, m), !.told = <<y>>]
    <3>1. t = [seen |-> SawResult(s.seen, m), sent |-> Append(s.sent, e)]
      BY <1>8, <2>7 DEF Sent, c, y
    <3> HIDE DEF t, m, e
    <3>0. t.seen = SawResult(s.seen, m) /\ t.sent = Append(s.sent, e)
      BY <3>1
    <3>2. e \in Message /\ e.told = <<y>> /\ e.kind = m.kind /\ e.id = id
      <4> USE DEF e
      <4>1. <<y>> \in Seq(Telling) /\ ResultId(s.seen, m) \in CallIds \cup {None}
        BY <1>2, <2>1
      <4>2. e \in Message
        BY <1>1, <4>1 DEF Message
      <4>3. e.told = <<y>> /\ e.kind = m.kind /\ e.id = ResultId(s.seen, m)
        BY <1>1 DEF Message
      <4> QED BY <1>2, <4>2, <4>3
    <3>3. Wanted(h, a, k + 1)
      <4>1. c \in a .. k /\ h[c].kind = "call" /\ CallId(Line(h, c)) = id
        BY <2>3, <2>7
      <4>2. c # a
        BY <4>1 DEF ByUser
      <4>3. c \in a + 1 .. k
        BY <1>0, <4>1, <4>2
      <4> QED BY <1>5, <2>5, <4>1, <4>3 DEF Wanted, id
    <3>4. LastCalls(h, t.seen.calls, a - 1, k + 1)
      <4>1. SawResult(s.seen, m).calls = s.seen.calls
        BY <1>3 DEF SawResult, Seen
      <4> QED BY <2>4, <3>0, <4>1
    <3>5. SentParts(h, p, a, k + 1, Append(s.sent, e))
      <4>1. Plain(h) /\ h[k + 1].kind = "result" => LoopCall(h, k + 1, y.call)
        BY <2>2 DEF c
      <4>2. e.kind = h[k + 1].kind /\ e.id = h[k + 1].id
        BY <1>1, <3>2 DEF id
      <4> QED BY <1>0, <1>3, <2>1, <3>2, <3>3, <4>1, <4>2, SentMore
    <3> QED BY <3>0, <3>4, <3>5 DEF t, m
  <2> QED BY <2>6, <2>7
<1> QED BY <1>1, <1>7, <1>8 DEF Uses

LEMMA SentIs ==
  ASSUME NEW h \in Seq(Item), Len(h) <= MaxHistory, NEW a \in 1 .. Len(h), ByUser(h[a]),
         \A i \in a + 1 .. Len(h) : h[i].kind \in Uses /\ h[i].id \in Ids,
         NEW ms \in Seq(Message), NEW p \in Nat, InParts(ms, p, h, a)
  PROVE  LET sent == SentWalk(ms)[Len(ms)].sent IN
           sent \in Seq(Message) /\ SentParts(h, p, a, Len(h), sent)
<1> DEFINE w == SentWalk(ms)
           n == Len(h) - a
           TextsAt(k) == /\ w[k].seen = NothingSeen /\ Len(w[k].sent) = k
                         /\ \A i \in 1 .. k : w[k].sent[i] = ms[i]
           T == {k \in 0 .. p : TextsAt(k)}
           LinesAt(k) == LastCalls(h, w[p + k].seen.calls, a - 1, a + k) /\ SentParts(h, p, a, a + k, w[p + k].sent)
           L == {k \in 0 .. n : LinesAt(k)}
<1>1. Len(h) \in Nat /\ n \in Nat /\ a \in Nat /\ a - 1 \in Nat /\ a + n = Len(h)
  OBVIOUS
<1>2. /\ Len(ms) = p + n
      /\ \A i \in 1 .. p : ms[i].kind \notin Uses
      /\ \A q \in 1 .. n : ms[p + q] = Line(h, a + q)
      /\ Tells(h, TellingWalk(ms)[p], 0, a)
  BY DEF InParts
<1>3. ms \in Seq(Told1) /\ \A i \in 1 .. Len(ms) : ms[i] \in Message
  <2>1. \A i \in 1 .. Len(ms) : ms[i] \in Message
    OBVIOUS
  <2>2. ASSUME NEW i \in 1 .. Len(ms) PROVE ms[i] \in Told1
    <3>1. CASE i <= p
      BY <1>2, <2>1, <3>1 DEF Told1
    <3>2. CASE i > p
      <4>1. i - p \in 1 .. n /\ p + (i - p) = i /\ a + (i - p) \in 1 .. Len(h)
        <5>1. i \in Nat /\ i <= p + n
          BY <1>2
        <5> HIDE DEF n
        <5>2. i - p \in 1 .. n
          BY <1>1, <3>2, <5>1
        <5> QED BY <1>1, <5>1, <5>2
      <4>2. ms[i] = Line(h, a + (i - p))
        BY <1>2, <4>1
      <4> QED BY <4>1, <4>2, LineIs DEF Lined, Told1
    <3> QED BY <3>1, <3>2
  <2>3. ms \in [1 .. Len(ms) -> Told1] /\ Len(ms) \in Nat
    BY <2>2
  <2> QED BY <2>1, <2>3, SeqDef
<1>4. /\ w[0] = [seen |-> NothingSeen, sent |-> <<>>]
      /\ \A k \in 1 .. Len(ms) : w[k] = Sent(w[k - 1], ms[k])
      /\ \A k \in 0 .. Len(ms) : w[k] \in SentSet
  BY <1>3, SentWalkIs
<1> HIDE DEF w, n
<1>5. 0 \in T
  <2>1. TextsAt(0)
    BY <1>4
  <2> QED BY <2>1
<1>6. ASSUME NEW k \in 1 .. p, k - 1 \in T PROVE k \in T
  <2> DEFINE e == w[k - 1].sent
             m == ms[k]
  <2>1. k \in 1 .. Len(ms) /\ k - 1 \in 0 .. Len(ms) /\ k \in 0 .. p /\ k \in Nat
    BY <1>1, <1>2
  <2>2. /\ w[k] = Sent(w[k - 1], m) /\ e \in Seq(Message) /\ m \in Message /\ m.kind \notin Uses
        /\ w[k - 1] \in SentSet
    BY <1>2, <1>3, <1>4, <2>1 DEF SentSet
  <2>3. w[k - 1].seen = NothingSeen /\ Len(e) = k - 1 /\ \A i \in 1 .. k - 1 : e[i] = ms[i]
    BY <1>6
  <2>4. w[k].seen = NothingSeen /\ w[k].sent = Append(e, m)
    <3>1. Sent(w[k - 1], m) = [w[k - 1] EXCEPT !.sent = Append(@, m)]
      BY <2>2 DEF Sent, Uses
    <3>2. /\ [w[k - 1] EXCEPT !.sent = Append(@, m)].seen = w[k - 1].seen
          /\ [w[k - 1] EXCEPT !.sent = Append(@, m)].sent = Append(e, m)
      BY <2>2 DEF SentSet
    <3> QED BY <2>2, <2>3, <3>1, <3>2
  <2> HIDE DEF e
  <2>5. Len(Append(e, m)) = k /\ Append(e, m)[k] = m /\ \A i \in 1 .. k - 1 : Append(e, m)[i] = e[i]
    BY <2>1, <2>2, <2>3
  <2>6. \A i \in 1 .. k : i = k \/ i \in 1 .. k - 1
    BY <2>1
  <2>7. TextsAt(k)
    BY <2>3, <2>4, <2>5, <2>6
  <2> QED BY <2>1, <2>7
<1>7. TextsAt(p) /\ w[p].sent \in Seq(Message)
  <2>1. \A k \in 0 .. p : k \in T
    <3> HIDE DEF T
    <3> QED BY <1>5, <1>6, HoldsToTheEnd
  <2>2. p \in 0 .. p /\ p \in 0 .. Len(ms)
    BY <1>1, <1>2
  <2> QED BY <1>4, <2>1, <2>2 DEF SentSet
<1>8. 0 \in L
  <2> DEFINE e == w[p].sent
  <2>0. p + 0 = p /\ a + 0 = a /\ 0 \in 0 .. n /\ p <= Len(ms) /\ (a - 1) + 1 = a
    BY <1>1, <1>2
  <2>1. w[p].seen = NothingSeen /\ Len(e) = p /\ (\A i \in 1 .. p : e[i] = ms[i]) /\ e \in Seq(Message)
    BY <1>7
  <2>2. LastCalls(h, w[p].seen.calls, a - 1, a)
    <3>1. \A d \in (a - 1) + 1 .. a : h[d].kind # "call"
      BY <1>1 DEF ByUser
    <3> QED BY <2>1, <3>1, CallsNone
  <2> HIDE DEF e
  <2>3. Told(e) = TellingWalk(ms)[p]
    BY <2>0, <2>1, TellsAlike DEF Told
  <2>4. SentParts(h, p, a, a, e)
    <3>1. p + 1 .. p = {} /\ a + 1 .. a = {} /\ p <= p
      BY <1>1
    <3> QED BY <1>2, <2>1, <2>3, <3>1 DEF SentParts
  <2>5. LinesAt(0)
    BY <2>0, <2>2, <2>4 DEF e
  <2> QED BY <2>0, <2>5
<1>9. ASSUME NEW k \in 1 .. n, k - 1 \in L PROVE k \in L
  <2> DEFINE j == a + (k - 1)
             s == w[p + (k - 1)]
  <2>1. /\ p + k \in 1 .. Len(ms) /\ (p + k) - 1 = p + (k - 1) /\ p + (k - 1) \in 0 .. Len(ms)
        /\ j + 1 = a + k /\ j \in Nat /\ a <= j /\ j + 1 <= Len(h) /\ k \in 0 .. n
    BY <1>1, <1>2
  <2>2. w[p + k] = Sent(s, Line(h, j + 1)) /\ s \in SentSet
    BY <1>2, <1>4, <2>1
  <2>3. LastCalls(h, s.seen.calls, a - 1, j) /\ SentParts(h, p, a, j, s.sent)
    BY <1>9
  <2> HIDE DEF s, j
  <2>4. /\ LastCalls(h, Sent(s, Line(h, j + 1)).seen.calls, a - 1, j + 1)
        /\ SentParts(h, p, a, j + 1, Sent(s, Line(h, j + 1)).sent)
    BY <2>1, <2>2, <2>3, SentStep
  <2>5. LinesAt(k)
    BY <2>1, <2>2, <2>4
  <2> QED BY <2>1, <2>5
<1>10. LinesAt(n)
  <2>1. \A k \in 0 .. n : k \in L
    <3> HIDE DEF L
    <3> QED BY <1>1, <1>8, <1>9, HoldsToTheEnd
  <2>2. n \in 0 .. n
    BY <1>1
  <2> QED BY <2>1, <2>2
<1>11. w[Len(ms)].sent \in Seq(Message)
  <2>1. Len(ms) \in 0 .. Len(ms)
    OBVIOUS
  <2> QED BY <1>4, <2>1 DEF SentSet
<1> QED BY <1>1, <1>2, <1>10, <1>11 DEF w

\* Each request is made of texts and of the wanted items of the active loop.
LEMMA RequestIs ==
  ASSUME TypeInv, TailInv, pc = "ask"
  PROVE  LET a == LastUser(history) IN
           /\ a \in 1 .. Len(history) /\ RoundsAfter(history, a) /\ ByUser(history[a])
           /\ Messages \in Seq(Message)
           /\ \E p \in Nat : SentParts(history, p, a, Len(history), Messages)
<1> DEFINE h == history
           a == LastUser(h)
           ms == MainHistory(h)
           g == Merged(ms)
<1>1. h \in Seq(Item) /\ Len(h) <= MaxHistory /\ queue \in Seq(Item) /\ queue = <<>> /\ OneSystem(h)
  BY DEF TypeInv, TypeOK, SystemFirst, OneSystem
<1>2. a > 0 /\ RoundsAfter(h, a)
  BY <1>1, JoinIs DEF TailInv
<1>3. a \in 1 .. Len(h) /\ ByUser(h[a])
  BY <1>1, <1>2, LastUserIs
<1>4. \A i \in a + 1 .. Len(h) : h[i].kind \in Uses /\ h[i].id \in Ids
  BY <1>2 DEF RoundsAfter
<1>5. PICK p \in Nat : ms \in Seq(Message) /\ InParts(ms, p, h, a)
  BY <1>1, <1>2, MainIs
<1> HIDE DEF ms, a
<1>6. g \in Seq(Message) /\ \E r \in Nat : InParts(g, r, h, a)
  BY <1>1, <1>3, <1>4, <1>5, MergedIs
<1>7. PICK r \in Nat : InParts(g, r, h, a)
  BY <1>6
<1> HIDE DEF g
<1>8. SentWalk(g)[Len(g)].sent \in Seq(Message) /\ SentParts(h, r, a, Len(h), SentWalk(g)[Len(g)].sent)
  BY <1>1, <1>3, <1>4, <1>6, <1>7, SentIs
<1>9. Messages = SentWalk(g)[Len(g)].sent
  BY DEF Messages, ToModelMessages, g, ms
<1> QED BY <1>2, <1>3, <1>8, <1>9 DEF a

\* In every request each call is followed by its result and each result preceded by its
\* call, with only calls and results of other ids between the two.
THEOREM CallsAnswered == Spec => []CallsAreAnswered
<1>1. TypeInv /\ TailInv => CallsAreAnswered
  <2> SUFFICES ASSUME TypeInv, TailInv, pc = "ask" PROVE CallsAreAnswered
    BY DEF CallsAreAnswered
  <2> DEFINE m == Messages
             h == history
             a == LastUser(h)
             n == Len(m)
             Answer(i, j) == /\ m[i].kind = "call" /\ m[j].kind = "result" /\ m[i].id = m[j].id
                             /\ \A k \in i + 1 .. j - 1 : m[k].kind \in {"call", "result"} /\ m[k].id # m[i].id
  <2>1. /\ a \in 1 .. Len(h) /\ RoundsAfter(h, a) /\ m \in Seq(Message) /\ Len(h) \in Nat
        /\ \E p \in Nat : SentParts(h, p, a, Len(h), m)
    BY RequestIs DEF TypeInv, TypeOK
  <2>2. PICK p \in Nat : SentParts(h, p, a, Len(h), m)
    BY <2>1
  <2>3. n \in Nat /\ DOMAIN m = 1 .. n /\ a \in Nat
    BY <2>1
  <2> HIDE DEF m, h, a, n
  <2>4. /\ p <= n
        /\ \A i \in 1 .. p : m[i].kind \notin Uses
        /\ \A i \in p + 1 .. n :
             /\ At(m[i]) \in a + 1 .. Len(h) /\ Wanted(h, a, At(m[i]))
             /\ m[i].kind = h[At(m[i])].kind /\ m[i].id = h[At(m[i])].id
        /\ \A i, j \in p + 1 .. n : i < j => At(m[i]) < At(m[j])
        /\ \A x \in a + 1 .. Len(h) : Wanted(h, a, x) => \E i \in p + 1 .. n : At(m[i]) = x
    BY <2>2 DEF SentParts, n
  <2>5. /\ \A i \in 1 .. n : i \in 1 .. p \/ i \in p + 1 .. n
        /\ \A i \in p + 1 .. n : i \in 1 .. n
    BY <2>3
  <2>6. \A i \in p + 1 .. n : m[i].kind \in Uses
    BY <2>1, <2>4 DEF RoundsAfter
  <2>7. ASSUME NEW i \in p + 1 .. n, NEW j \in p + 1 .. n, h[At(m[i])].kind = "call", h[At(m[j])].kind = "result",
               At(m[i]) < At(m[j]), Apart(h, At(m[i]), At(m[j]))
        PROVE  Answer(i, j) /\ i < j
    <3>1. At(m[i]) \in Nat /\ At(m[j]) \in Nat
      BY <2>1, <2>3, <2>4
    <3>2. i < j
      <4>1. ~(i = j) /\ ~(j < i)
        BY <2>4, <2>7, <3>1
      <4> QED BY <4>1
    <3>3. ASSUME NEW k \in i + 1 .. j - 1
          PROVE  m[k].kind \in {"call", "result"} /\ m[k].id # m[i].id
      <4>1. k \in p + 1 .. n /\ i < k /\ k < j
        BY <2>3
      <4>2. At(m[k]) \in Nat /\ At(m[i]) < At(m[k]) /\ At(m[k]) < At(m[j])
        BY <2>1, <2>3, <2>4, <4>1
      <4>3. At(m[k]) \in At(m[i]) + 1 .. At(m[j]) - 1
        BY <3>1, <4>2
      <4>4. h[At(m[k])].id # h[At(m[i])].id
        BY <2>7, <4>3 DEF Apart
      <4> QED BY <2>4, <2>6, <4>1, <4>4 DEF Uses
    <3>4. m[i].kind = "call" /\ m[j].kind = "result" /\ m[i].id = m[j].id
      BY <2>4, <2>7 DEF Apart
    <3> QED BY <3>2, <3>3, <3>4
  <2>8. ASSUME NEW i \in 1 .. n, m[i].kind = "call" PROVE \E j \in i + 1 .. n : Answer(i, j)
    <3> DEFINE x == At(m[i])
    <3>1. i \in p + 1 .. n
      BY <2>4, <2>5, <2>8 DEF Uses
    <3>2. x \in a + 1 .. Len(h) /\ h[x].kind = "call"
      BY <2>4, <2>8, <3>1
    <3>3. PICK y \in x + 1 .. Len(h) : h[y].kind = "result" /\ Apart(h, x, y)
      BY <2>1, <3>2 DEF RoundsAfter
    <3>4. y \in a + 1 .. Len(h) /\ x \in a + 1 .. y - 1 /\ x < y
      BY <2>1, <2>3, <3>2, <3>3
    <3>5. Wanted(h, a, y)
      BY <3>2, <3>3, <3>4 DEF Wanted, Apart
    <3>6. PICK j \in p + 1 .. n : At(m[j]) = y
      BY <2>4, <3>4, <3>5
    <3>7. Answer(i, j) /\ i < j
      <4> HIDE DEF Answer
      <4> QED BY <2>7, <3>1, <3>2, <3>3, <3>4, <3>6
    <3>8. j \in i + 1 .. n
      BY <2>3, <3>7
    <3> QED BY <3>7, <3>8
  <2>9. ASSUME NEW j \in 1 .. n, m[j].kind = "result" PROVE \E i \in 1 .. j - 1 : Answer(i, j)
    <3> DEFINE y == At(m[j])
    <3>1. j \in p + 1 .. n
      BY <2>4, <2>5, <2>9 DEF Uses
    <3>2. y \in a + 1 .. Len(h) /\ h[y].kind = "result" /\ Wanted(h, a, y)
      BY <2>4, <2>9, <3>1
    <3>3. PICK x \in a + 1 .. y - 1 : h[x].kind = "call" /\ Apart(h, x, y)
      BY <2>1, <3>2 DEF RoundsAfter, Wanted
    <3>4. x \in a + 1 .. Len(h) /\ x < y
      BY <2>1, <2>3, <3>2, <3>3
    <3>5. Wanted(h, a, x)
      BY <3>3 DEF Wanted
    <3>6. PICK i \in p + 1 .. n : At(m[i]) = x
      BY <2>4, <3>4, <3>5
    <3>7. Answer(i, j) /\ i < j
      <4> HIDE DEF Answer
      <4> QED BY <2>7, <3>1, <3>2, <3>3, <3>4, <3>6
    <3>8. i \in 1 .. j - 1
      BY <2>3, <3>7
    <3> QED BY <3>7, <3>8
  <2> QED BY <2>3, <2>8, <2>9 DEF CallsAreAnswered, m, n
<1> QED BY <1>1, TypesInvariant, TailInvariant, PTL

LEMMA OwnCallIs ==
  ASSUME NEW k \in 1 .. Len(history), history \in Seq(Item), Plain(history), history[k].kind = "result",
         NEW c, LoopCall(history, k, c)
  PROVE  /\ c # 0 => c = OwnCall(k)
         /\ c = 0 => Parted(OwnCall(k), k)
<1> DEFINE h == history
           Same(d) == h[d].kind = "call" /\ h[d].id = h[k].id
           Own(d) == Same(d) /\ \A i \in d + 1 .. k - 1 : h[i].kind = "call" => h[i].id # h[d].id
           S == {d \in 1 .. k - 1 : Same(d)}
<1>1. k \in Nat /\ k - 1 \in Nat
  OBVIOUS
<1>2. S # {} /\ S \in SUBSET (0 .. k - 1)
  BY DEF Plain, Uses
<1>3. PICK d \in S : \A y \in S : y <= d
  <2> HIDE DEF S
  <2> QED BY <1>1, <1>2, GreatestOf
<1>4. d \in 1 .. k - 1 /\ Own(d)
  <2>1. \A i \in d + 1 .. k - 1 : i \notin S /\ i \in 1 .. k - 1
    <3>1. \A i \in d + 1 .. k - 1 : i \in 1 .. k - 1 /\ ~(i <= d)
      BY <1>1
    <3> HIDE DEF S
    <3> QED BY <1>3, <3>1
  <2> QED BY <2>1
<1>5. OwnCall(k) = CHOOSE e \in 1 .. k - 1 : Own(e)
  BY DEF OwnCall
<1>6. OwnCall(k) \in 1 .. k - 1 /\ Own(OwnCall(k))
  <2> HIDE DEF Own
  <2> QED BY <1>4, <1>5
<1> DEFINE own == OwnCall(k)
<1> HIDE DEF own
<1>7. own \in 1 .. k - 1 /\ Same(own) /\ \A i \in own + 1 .. k - 1 : h[i].kind = "call" => h[i].id # h[own].id
  BY <1>6 DEF own
<1>8. /\ c \in 0 .. k - 1
      /\ c # 0 => Same(c) /\ \A i \in c + 1 .. k - 1 : ~ByUser(h[i])
      /\ \A e \in c + 1 .. k - 1 : Same(e) => \E i \in e + 1 .. k - 1 : ByUser(h[i])
  BY DEF LoopCall
<1>9. ASSUME c # 0 PROVE c = own
  <2>1. ~(own < c)
    <3> SUFFICES ASSUME own < c PROVE FALSE
      OBVIOUS
    <3>1. c \in own + 1 .. k - 1
      BY <1>1, <1>7, <1>8
    <3> QED BY <1>7, <1>8, <1>9, <3>1
  <2>2. ~(c < own)
    <3> SUFFICES ASSUME c < own PROVE FALSE
      OBVIOUS
    <3>1. own \in c + 1 .. k - 1
      BY <1>1, <1>7, <1>8
    <3>2. PICK i \in own + 1 .. k - 1 : ByUser(h[i])
      <4> HIDE DEF Same
      <4> QED BY <1>7, <1>8, <3>1
    <3>3. i \in c + 1 .. k - 1
      BY <1>1, <1>7, <1>8, <3>1
    <3> QED BY <1>8, <1>9, <3>2, <3>3
  <2> QED BY <1>7, <1>8, <2>1, <2>2
<1>10. ASSUME c = 0 PROVE Parted(own, k)
  <2>1. own \in c + 1 .. k - 1
    BY <1>1, <1>7, <1>10
  <2>2. PICK i \in own + 1 .. k - 1 : ByUser(h[i])
    <3> HIDE DEF Same
    <3> QED BY <1>7, <1>8, <2>1
  <2> QED BY <2>2 DEF Parted
<1> QED BY <1>9, <1>10 DEF own

\* Every request tells every text of the history, in their order, no item twice, and,
\* where no compaction has been, no result of another call than its own.
THEOREM TextsAndResultsToldOnce == Spec => []ToldOnce
<1>1. TypeInv /\ TailInv /\ KnownInv => ToldOnce
  <2> SUFFICES ASSUME TypeInv, TailInv, KnownInv, pc = "ask" PROVE ToldOnce
    BY DEF ToldOnce
  <2> DEFINE h == history
             told == Told(Messages)
             n == Len(h)
             tellings(k) == {told[i] : i \in {j \in DOMAIN told : told[j].at = k}}
  <2>1. /\ h \in Seq(Item) /\ n \in Nat /\ queue = <<>> /\ queue \in Seq(Item) /\ DOMAIN h = 1 .. n
        /\ \A i \in 1 .. n : h[i].kind \in Kinds
    BY ItemFields DEF TypeInv, TypeOK
  <2>2. compactions = 0 => Plain(h)
    BY <2>1, JoinIs DEF KnownInv
  <2>3. told \in Seq(Telling) /\ Tells(h, told, 0, n)
    BY RequestIs, ToldIs DEF SentParts
  <2> HIDE DEF told
  <2>4. /\ \A i \in 1 .. Len(told) :
             /\ told[i].at \in 1 .. n
             /\ Plain(h) /\ h[told[i].at].kind = "result" => LoopCall(h, told[i].at, told[i].call)
        /\ \A i, j \in 1 .. Len(told) : i < j =>
             /\ told[i].at # told[j].at
             /\ h[told[i].at].kind \notin Uses /\ h[told[j].at].kind \notin Uses => told[i].at < told[j].at
        /\ \A k \in 1 .. n :
             \/ \E i \in 1 .. Len(told) : told[i].at = k
             \/ h[k].kind \in Uses /\ (Plain(h) /\ h[k].kind = "result" => LoopCall(h, k, 0))
    <3>1. 0 + 1 = 1
      OBVIOUS
    <3> QED BY <2>3, <3>1, Zenon DEF Tells
  <2>5. DOMAIN told = 1 .. Len(told) /\ Len(told) \in Nat
    BY <2>3
  <2>6. \A i, j \in 1 .. Len(told) : told[i].at = told[j].at => i = j
    <3>1. \A i, j \in 1 .. Len(told) : i = j \/ i < j \/ j < i
      BY <2>5
    <3> QED BY <2>4, <3>1
  <2>7. ASSUME NEW i \in DOMAIN told PROVE told[i].at \in DOMAIN h
    BY <2>1, <2>4, <2>5
  <2>8. ASSUME NEW i \in DOMAIN told, NEW j \in DOMAIN told, i < j
        PROVE  /\ told[i].at # told[j].at
               /\ h[told[i].at].kind \notin {"call", "result"} /\ h[told[j].at].kind \notin {"call", "result"}
                    => told[i].at < told[j].at
    BY <2>4, <2>5, <2>8 DEF Uses
  <2>9. ASSUME NEW k \in DOMAIN h, h[k].kind \notin {"call", "result"} PROVE tellings(k) # {}
    <3>1. PICK i \in 1 .. Len(told) : told[i].at = k
      BY <2>1, <2>4, <2>9 DEF Uses
    <3> QED BY <2>5, <3>1
  <2>10. ASSUME NEW k \in DOMAIN h, h[k].kind = "result", compactions = 0
         PROVE  \/ tellings(k) = {[at |-> k, call |-> OwnCall(k)]}
                \/ /\ Parted(OwnCall(k), k)
                   /\ tellings(k) \in {{}, {[at |-> k, call |-> 0]}}
    <3>0. k \in 1 .. n /\ Plain(h)
      BY <2>1, <2>2, <2>10
    <3>1. CASE \E i \in 1 .. Len(told) : told[i].at = k
      <4>1. PICK i \in 1 .. Len(told) : told[i].at = k
        BY <3>1
      <4> DEFINE x == told[i]
      <4>2. tellings(k) = {x}
        BY <2>5, <2>6, <4>1
      <4>3. x \in Telling
        BY <2>3
      <4>4. LoopCall(h, k, x.call)
        BY <2>4, <2>10, <3>0, <4>1
      <4>5. x = [at |-> k, call |-> x.call]
        BY <4>1, <4>3 DEF Telling
      <4>6. (x.call # 0 => x.call = OwnCall(k)) /\ (x.call = 0 => Parted(OwnCall(k), k))
        BY <2>1, <2>10, <3>0, <4>4, OwnCallIs
      <4> HIDE DEF x
      <4> QED BY <4>2, <4>5, <4>6
    <3>2. CASE ~ \E i \in 1 .. Len(told) : told[i].at = k
      <4>1. tellings(k) = {}
        BY <2>5, <3>2
      <4>2. LoopCall(h, k, 0)
        BY <2>4, <2>10, <3>0, <3>2
      <4>3. Parted(OwnCall(k), k)
        BY <2>1, <2>10, <3>0, <4>2, OwnCallIs
      <4> QED BY <4>1, <4>3
    <3> QED BY <3>1, <3>2
  <2> QED BY <2>7, <2>8, <2>9, <2>10 DEF ToldOnce, told
<1> QED BY <1>1, TypesInvariant, TailInvariant, KnownInvariant, PTL
=============================================================================
