------------------------- MODULE SessionLog_proofs --------------------------
(***************************************************************************)
(* Theorems about SessionLog, for any files, contents and length of the    *)
(* log: the types; replaying the log gives the history SessionHistory      *)
(* promises; a rewind gives the files back as they were, and keeps the     *)
(* edits of others.  Replaying and compacting are loops: what they compute *)
(* follows for every length from a least round that would break it.        *)
(***************************************************************************)
EXTENDS SessionLog, SequenceTheorems, FiniteSetTheorems, WellFoundedInduction, TLAPS

-----------------------------------------------------------------------------
(* Numbers and loops                                                       *)

\* The numbers are well founded under a relation that is their order.
LEMMA SmallestBy ==
  ASSUME NEW R, IsWellFoundedOn(R, Nat), \A x, y \in Nat : <<y, x>> \in R <=> y < x,
         NEW T \in SUBSET Nat, T # {}
  PROVE  \E x \in T : \A y \in T : x <= y
<1>1. PICK x \in T : \A y \in T : ~ (<<y, x>> \in R)
  BY WFMin, Zenon
<1>2. \A y \in T : ~ (y < x)
  BY <1>1, Zenon
<1>3. \A a, b \in Nat : ~ (b < a) => a <= b
  OBVIOUS
<1>4. \A y \in T : x <= y
  BY <1>2, <1>3, Zenon
<1> QED BY <1>4

\* A set of numbers has a smallest.
LEMMA SmallestOf ==
  ASSUME NEW T \in SUBSET Nat, T # {}
  PROVE  \E x \in T : \A y \in T : x <= y
<1>1. \A x, y \in Nat : <<y, x>> \in OpToRel(<, Nat) <=> y < x
  BY DEF OpToRel
<1> QED BY <1>1, NatLessThanWellFounded, SmallestBy, Zenon

\* A set of numbers that has a bound has a greatest, and Max is it.
LEMMA GreatestOf ==
  ASSUME NEW n \in Nat, NEW S \in SUBSET (0 .. n), S # {}
  PROVE  Max(S) \in S /\ \A y \in S : y <= Max(S)
<1> DEFINE T == {n - x : x \in S}
<1>0. \A x \in S : n - x \in Nat
  OBVIOUS
<1>1. T \in SUBSET Nat /\ T # {}
  BY <1>0, Zenon
<1>2. PICK x \in T : \A y \in T : x <= y
  BY <1>1, SmallestOf, Zenon
<1>3. PICK m \in S : x = n - m
  BY <1>2, Zenon
<1>4. \A y \in S : m >= y
  <2> TAKE y \in S
  <2>1. n - y \in T
    OBVIOUS
  <2>2. x <= n - y
    BY <2>1, <1>2
  <2> QED BY <2>2, <1>3
<1>5. Max(S) \in S /\ \A y \in S : Max(S) >= y
  BY <1>4 DEF Max
<1> QED BY <1>5

\* A loop of n rounds.
IsLoop(v, n, start, step) ==
  v[0] = start /\ \A i \in 1 .. n : v[i] = step[i][v[i - 1]]

\* It runs to its end.
LEMMA LoopRuns ==
  ASSUME NEW n \in Nat, NEW S, NEW start \in S, NEW step \in [1 .. n -> [S -> S]]
  PROVE  \E v \in [0 .. n -> S] : IsLoop(v, n, start, step)
<1> DEFINE Runs(k) == \E v \in [0 .. k -> S] :
             v[0] = start /\ \A i \in 1 .. k : v[i] = step[i][v[i - 1]]
           T == {k \in 0 .. n : ~Runs(k)}
<1>1. T = {}
  <2> SUFFICES ASSUME T # {} PROVE FALSE
    OBVIOUS
  <2>1. PICK k \in T : \A j \in T : k <= j
    <3>1. T \in SUBSET Nat
      OBVIOUS
    <3> QED BY <3>1, SmallestOf, Zenon
  <2>2. k \in 0 .. n /\ ~Runs(k)
    OBVIOUS
  <2>3. k # 0
    <3> SUFFICES ASSUME k = 0 PROVE FALSE
      OBVIOUS
    <3> DEFINE u == [i \in 0 .. 0 |-> start]
    <3>1. u \in [0 .. 0 -> S] /\ u[0] = start /\ \A i \in 1 .. 0 : u[i] = step[i][u[i - 1]]
      OBVIOUS
    <3>2. Runs(0)
      BY <3>1
    <3> QED BY <2>2, <3>2
  <2>4. k - 1 \in 0 .. n /\ k \in 1 .. n
    BY <2>2, <2>3
  <2>5. k - 1 \notin T
    <3> HIDE DEF T
    <3> QED BY <2>1, <2>4
  <2>6. PICK v \in [0 .. k - 1 -> S] :
          v[0] = start /\ \A i \in 1 .. k - 1 : v[i] = step[i][v[i - 1]]
    BY <2>4, <2>5
  <2> DEFINE w == [i \in 0 .. k |-> IF i = k THEN step[k][v[k - 1]] ELSE v[i]]
  <2>7. v[k - 1] \in S /\ step[k][v[k - 1]] \in S
    BY <2>4, <2>6
  <2>8. w \in [0 .. k -> S]
    <3> SUFFICES ASSUME NEW i \in 0 .. k PROVE w[i] \in S
      OBVIOUS
    <3> QED
      BY <2>4, <2>6, <2>7
  <2>9. w[0] = start
    BY <2>4, <2>6
  <2>10. ASSUME NEW i \in 1 .. k PROVE w[i] = step[i][w[i - 1]]
    <3>1. CASE i = k
      <4>1. w[i - 1] = v[k - 1]
        BY <2>4, <3>1
      <4>2. w[k] = step[k][v[k - 1]]
        BY <2>4
      <4> HIDE DEF w
      <4> QED BY <3>1, <4>1, <4>2
    <3>2. CASE i # k
      <4>1. i \in 1 .. k - 1 /\ w[i] = v[i] /\ w[i - 1] = v[i - 1]
        BY <2>4, <3>2
      <4> QED BY <4>1, <2>6
    <3> QED BY <3>1, <3>2
  <2>11. Runs(k)
    BY <2>8, <2>9, <2>10
  <2> QED BY <2>2, <2>11
<1>2. Runs(n)
  <2> HIDE DEF Runs
  <2>1. n \in 0 .. n
    OBVIOUS
  <2> QED BY <1>1, <2>1
<1> QED BY <1>2 DEF IsLoop

-----------------------------------------------------------------------------
(* Replaying the log *)

IsReplay(v, l) ==
  v = [i \in 0 .. Len(l) |-> IF i = 0 THEN <<>> ELSE Replayed(v[i - 1], l, i)]

\* Logs that begin alike are replayed alike so far.
LEMMA ReplaysAgree ==
  ASSUME NEW l \in Seq(Entries), NEW m \in Seq(Entries), Len(l) <= Len(m),
         \A i \in 1 .. Len(l) : l[i] = m[i],
         NEW v, NEW w, IsReplay(v, l), IsReplay(w, m)
  PROVE  \A i \in 0 .. Len(l) : v[i] = w[i]
<1> DEFINE T == {i \in 0 .. Len(l) : v[i] # w[i]}
<1> SUFFICES ASSUME T # {} PROVE FALSE
  OBVIOUS
<1>0. Len(l) \in Nat /\ Len(m) \in Nat
  OBVIOUS
<1>1. PICK k \in T : \A j \in T : k <= j
  <2>1. T \in SUBSET Nat
    BY <1>0
  <2> QED BY <2>1, SmallestOf, Zenon
<1>2. k \in 0 .. Len(l) /\ v[k] # w[k]
  OBVIOUS
<1>a. /\ v[k] = IF k = 0 THEN <<>> ELSE Replayed(v[k - 1], l, k)
      /\ w[k] = IF k = 0 THEN <<>> ELSE Replayed(w[k - 1], m, k)
  <2>1. k \in 0 .. Len(m)
    BY <1>0, <1>2
  <2> QED
    BY <1>2, <2>1 DEF IsReplay
<1>3. k # 0
  BY <1>2, <1>a
<1>4. k - 1 \in 0 .. Len(l) /\ k - 1 \notin T
  BY <1>0, <1>1, <1>2, <1>3
<1>5. v[k - 1] = w[k - 1]
  BY <1>4
<1>6. l[k] = m[k]
  BY <1>2, <1>3, <1>0
<1>7. Replayed(v[k - 1], l, k) = Replayed(w[k - 1], m, k)
  BY <1>5, <1>6 DEF Replayed, Message
<1> QED
  BY <1>2, <1>3, <1>a, <1>7

\* A line of the log makes a history of a history.
LEMMA ReplayedIsHistory ==
  ASSUME NEW l \in Seq(Entries), Len(l) <= MaxLog, NEW h \in Seq(Items), NEW i \in 1 .. Len(l)
  PROVE  Replayed(h, l, i) \in Seq(Items)
<1>1. l[i] \in Entries
  OBVIOUS
<1>2. CASE l[i].kind = "message"
  <2>1. Message(l, i) \in Items
    <3>1. i \in 1 .. MaxLog + MaxCompactions
      BY BoundsAreNumbers
    <3>2. l[i].user \in BOOLEAN
      BY <1>1, <1>2 DEF Entries
    <3> QED BY <3>1, <3>2 DEF Message, Items
  <2> QED BY <1>2, <2>1 DEF Replayed
<1>3. CASE l[i].kind = "replacement"
  BY <1>1, <1>3 DEF Replayed, Entries
<1>4. CASE l[i].kind \notin {"message", "replacement"}
  BY <1>4 DEF Replayed
<1> QED BY <1>2, <1>3, <1>4

\* The replay is a loop over the lines.
LEMMA ReplayRuns ==
  ASSUME NEW l \in Seq(Entries), Len(l) <= MaxLog
  PROVE  \E v \in [0 .. Len(l) -> Seq(Items)] : IsReplay(v, l) /\ Visible(l) = v[Len(l)]
<1> DEFINE step == [i \in 1 .. Len(l) |-> [h \in Seq(Items) |-> Replayed(h, l, i)]]
<1>0. Len(l) \in Nat /\ <<>> \in Seq(Items)
  OBVIOUS
<1>1. step \in [1 .. Len(l) -> [Seq(Items) -> Seq(Items)]]
  BY ReplayedIsHistory
<1> HIDE DEF step
<1>2. PICK v \in [0 .. Len(l) -> Seq(Items)] :
        v[0] = <<>> /\ \A i \in 1 .. Len(l) : v[i] = step[i][v[i - 1]]
  <2>1. \E v \in [0 .. Len(l) -> Seq(Items)] : IsLoop(v, Len(l), <<>>, step)
    BY <1>0, <1>1, LoopRuns
  <2> QED BY <2>1 DEF IsLoop
<1>3. ASSUME NEW i \in 0 .. Len(l)
      PROVE  v[i] = IF i = 0 THEN <<>> ELSE Replayed(v[i - 1], l, i)
  <2>1. CASE i = 0
    BY <1>2, <2>1
  <2>2. CASE i # 0
    <3>1. i \in 1 .. Len(l) /\ v[i - 1] \in Seq(Items)
      BY <1>0, <2>2
    <3>2. step[i][v[i - 1]] = Replayed(v[i - 1], l, i)
      BY <3>1 DEF step
    <3> QED BY <1>2, <2>2, <3>1, <3>2
  <2> QED BY <2>1, <2>2
<1>4. IsReplay(v, l)
  <2> HIDE DEF step
  <2>1. v = [i \in 0 .. Len(l) |-> v[i]]
    OBVIOUS
  <2> QED BY <1>3, <2>1 DEF IsReplay
<1>5. \E u : IsReplay(u, l)
  BY <1>4
<1> DEFINE u == CHOOSE u : IsReplay(u, l)
<1>6. IsReplay(u, l)
  BY <1>5
<1>7. Visible(l) = u[Len(l)]
  BY DEF Visible, IsReplay
<1>8. u[Len(l)] = v[Len(l)]
  <2> HIDE DEF u
  <2>1. \A i \in 0 .. Len(l) : u[i] = v[i]
    BY <1>0, <1>4, <1>6, ReplaysAgree
  <2> QED BY <2>1, <1>0
<1> QED BY <1>4, <1>7, <1>8

\* A line more is replayed on what was replayed before.
LEMMA ReplayGrows ==
  ASSUME NEW l \in Seq(Entries), NEW e \in Entries, Len(l) < MaxLog
  PROVE  /\ Visible(l) \in Seq(Items) /\ Visible(Append(l, e)) \in Seq(Items)
         /\ Visible(Append(l, e)) = Replayed(Visible(l), Append(l, e), Len(l) + 1)
<1> DEFINE m == Append(l, e)
<1>0. /\ Len(l) \in Nat /\ m \in Seq(Entries) /\ Len(m) = Len(l) + 1 /\ Len(m) <= MaxLog
      /\ \A i \in 1 .. Len(l) : l[i] = m[i]
  BY BoundsAreNumbers
<1> HIDE DEF m
<1>1. PICK v \in [0 .. Len(l) -> Seq(Items)] : IsReplay(v, l) /\ Visible(l) = v[Len(l)]
  BY <1>0, ReplayRuns, BoundsAreNumbers
<1>2. PICK w \in [0 .. Len(m) -> Seq(Items)] : IsReplay(w, m) /\ Visible(m) = w[Len(m)]
  BY <1>0, ReplayRuns
<1>3. \A i \in 0 .. Len(l) : v[i] = w[i]
  BY <1>0, <1>1, <1>2, ReplaysAgree
<1>4. v[Len(l)] = w[Len(l)]
  BY <1>0, <1>3
<1>5. w[Len(l) + 1] = Replayed(w[Len(l)], m, Len(l) + 1)
  <2>1. Len(l) + 1 \in 0 .. Len(m) /\ Len(l) + 1 # 0 /\ (Len(l) + 1) - 1 = Len(l)
    BY <1>0
  <2>2. w[Len(l) + 1] = Replayed(w[(Len(l) + 1) - 1], m, Len(l) + 1)
    BY <1>2, <2>1 DEF IsReplay
  <2> QED BY <2>1, <2>2
<1>6. Visible(m) = Replayed(Visible(l), m, Len(l) + 1)
  BY <1>0, <1>1, <1>2, <1>4, <1>5
<1>7. Visible(l) \in Seq(Items) /\ Visible(m) \in Seq(Items)
  <2>1. v[Len(l)] \in Seq(Items) /\ w[Len(m)] \in Seq(Items)
    <3>1. Len(l) \in 0 .. Len(l) /\ Len(m) \in 0 .. Len(m)
      BY <1>0
    <3> QED BY <3>1, Zenon
  <2> QED BY <1>1, <1>2, <2>1, Zenon
<1>8. m = Append(l, e)
  BY DEF m
<1> QED
  BY <1>6, <1>7, <1>8, Zenon

-----------------------------------------------------------------------------
(* Compacting a history                                                    *)

\* What is left of h when the messages of the ids are one, and how many up to i.
Old(h, ids) == {i \in DOMAIN h : h[i].id \in ids}
LeftOf(h, ids) == (DOMAIN h \ Old(h, ids)) \cup {Max(Old(h, ids))}
UpTo(h, ids, i) == {j \in LeftOf(h, ids) : j <= i}
Rank(h, ids, i) == Cardinality(UpTo(h, ids, i))

\* A summary is of some messages of the history.
LEMMA SomeAreOld ==
  ASSUME NEW h, NEW ids \in (SUBSET {h[i].id : i \in DOMAIN h}) \ {{}}
  PROVE  Old(h, ids) # {}
<1> DEFINE all == {h[i].id : i \in DOMAIN h}
<1>1. ids # {} /\ ids \subseteq all
  <2>1. ids \in (SUBSET all) \ {{}}
    OBVIOUS
  <2> HIDE DEF all
  <2> QED BY <2>1
<1>2. PICK d \in all : d \in ids
  BY <1>1, Zenon
<1>3. PICK i \in DOMAIN h : h[i].id \in ids
  BY <1>2, Zenon
<1> QED BY <1>3 DEF Old

\* The last of them has the place of the summary.
LEMMA OldHasLast ==
  ASSUME NEW S, NEW h \in Seq(S), NEW ids, Old(h, ids) # {}
  PROVE  /\ Max(Old(h, ids)) \in Old(h, ids) /\ \A i \in Old(h, ids) : i <= Max(Old(h, ids))
         /\ LeftOf(h, ids) \subseteq 1 .. Len(h)
<1>1. Len(h) \in Nat /\ Old(h, ids) \in SUBSET (0 .. Len(h)) /\ Old(h, ids) \subseteq 1 .. Len(h)
  BY DEF Old
<1>2. Max(Old(h, ids)) \in Old(h, ids) /\ \A i \in Old(h, ids) : i <= Max(Old(h, ids))
  BY <1>1, GreatestOf
<1> QED BY <1>1, <1>2 DEF LeftOf

\* The messages left are numbered in the order they had, without a gap.
LEMMA Ranks ==
  ASSUME NEW S, NEW h \in Seq(S), NEW ids, Old(h, ids) # {}
  PROVE  /\ Rank(h, ids, 0) = 0
         /\ \A i \in 0 .. Len(h) : Rank(h, ids, i) \in Nat
         /\ \A i \in 1 .. Len(h) :
              Rank(h, ids, i) = IF i \in LeftOf(h, ids) THEN Rank(h, ids, i - 1) + 1
                                ELSE Rank(h, ids, i - 1)
         /\ \A i \in 0 .. Len(h), j \in LeftOf(h, ids) :
              j <= i => Rank(h, ids, j) \in 1 .. Rank(h, ids, i)
<1> DEFINE L == LeftOf(h, ids)
<1>0. Len(h) \in Nat /\ L \subseteq 1 .. Len(h)
  BY OldHasLast
<1>1. \A i \in 0 .. Len(h) : IsFiniteSet(UpTo(h, ids, i)) /\ Rank(h, ids, i) \in Nat
  <2> TAKE i \in 0 .. Len(h)
  <2>1. IsFiniteSet(1 .. Len(h))
    BY <1>0, FS_Interval
  <2>2. UpTo(h, ids, i) \subseteq 1 .. Len(h)
    BY <1>0 DEF UpTo
  <2> QED BY <2>1, <2>2, FS_Subset, FS_CardinalityType DEF Rank
<1>2. Rank(h, ids, 0) = 0
  <2>1. UpTo(h, ids, 0) = {}
    BY <1>0 DEF UpTo
  <2> QED BY <2>1, FS_EmptySet DEF Rank
<1>3. ASSUME NEW i \in 1 .. Len(h)
      PROVE  Rank(h, ids, i) = IF i \in L THEN Rank(h, ids, i - 1) + 1 ELSE Rank(h, ids, i - 1)
  <2>0. i - 1 \in 0 .. Len(h)
    BY <1>0
  <2>1. CASE i \in L
    <3>1. UpTo(h, ids, i) = UpTo(h, ids, i - 1) \cup {i}
      BY <1>0, <2>1 DEF UpTo
    <3>2. i \notin UpTo(h, ids, i - 1)
      BY DEF UpTo
    <3>3. Cardinality(UpTo(h, ids, i - 1) \cup {i}) = Cardinality(UpTo(h, ids, i - 1)) + 1
      <4>1. IsFiniteSet(UpTo(h, ids, i - 1))
        BY <1>1, <2>0
      <4> QED BY <3>2, <4>1, FS_AddElement
    <3> QED BY <2>1, <3>1, <3>3 DEF Rank
  <2>2. CASE i \notin L
    <3>1. UpTo(h, ids, i) = UpTo(h, ids, i - 1)
      BY <1>0, <2>2 DEF UpTo
    <3> QED BY <2>2, <3>1 DEF Rank
  <2> QED BY <2>1, <2>2
<1>4. ASSUME NEW i \in 0 .. Len(h), NEW j \in L, j <= i
      PROVE  Rank(h, ids, j) \in 1 .. Rank(h, ids, i)
  <2>1. j \in 0 .. Len(h)
    BY <1>0
  <2>2. UpTo(h, ids, j) \subseteq UpTo(h, ids, i) /\ j \in UpTo(h, ids, j)
    BY <1>0, <1>4 DEF UpTo
  <2>3. Cardinality(UpTo(h, ids, j)) <= Cardinality(UpTo(h, ids, i))
    BY <1>1, <2>2, FS_Subset
  <2>4. Cardinality(UpTo(h, ids, j)) # 0
    BY <1>1, <2>1, <2>2, FS_EmptySet
  <2> QED BY <1>1, <2>1, <2>3, <2>4 DEF Rank
<1> QED BY <1>1, <1>2, <1>3, <1>4

\* build_replacement_history makes a summary of the history it was given, of messages it
\* was given.
LEMMA ReplacedIsSummary ==
  ASSUME NEW S, NEW h \in Seq(S), NEW ids, NEW new \in S, Old(h, ids) # {}
  PROVE  /\ Replaced(h, ids, new) \in Seq(S)
         /\ Len(Replaced(h, ids, new)) = Cardinality(LeftOf(h, ids))
         /\ \A i \in LeftOf(h, ids) :
              Replaced(h, ids, new)[Rank(h, ids, i)]
                = IF i = Max(Old(h, ids)) THEN new ELSE h[i]
<1> DEFINE last == Max(Old(h, ids))
           L == LeftOf(h, ids)
           step == [i \in 1 .. Len(h) |-> [k \in Seq(S) |-> Compacted(k, h, i, ids, last, new)]]
           IsKept(v) == v = [i \in 0 .. Len(h) |->
                              IF i = 0 THEN <<>> ELSE Compacted(v[i - 1], h, i, ids, last, new)]
           kept == CHOOSE v : IsKept(v)
<1>0. Len(h) \in Nat /\ <<>> \in Seq(S) /\ L \subseteq 1 .. Len(h)
  BY OldHasLast
<1>1. Replaced(h, ids, new) = kept[Len(h)]
  BY DEF Replaced, Old
<1> HIDE DEF last, L
<1>2. step \in [1 .. Len(h) -> [Seq(S) -> Seq(S)]]
  BY DEF Compacted
<1>3. IsKept(kept) /\ \A i \in 0 .. Len(h) : kept[i] \in Seq(S)
  <2> HIDE DEF step
  <2>1. PICK v \in [0 .. Len(h) -> Seq(S)] : IsLoop(v, Len(h), <<>>, step)
    BY <1>0, <1>2, LoopRuns
  <2>2. ASSUME NEW i \in 0 .. Len(h)
        PROVE  v[i] = IF i = 0 THEN <<>> ELSE Compacted(v[i - 1], h, i, ids, last, new)
    <3>1. CASE i = 0
      BY <2>1, <3>1 DEF IsLoop
    <3>2. CASE i # 0
      <4>1. i \in 1 .. Len(h) /\ v[i - 1] \in Seq(S)
        BY <1>0, <3>2
      <4>2. step[i][v[i - 1]] = Compacted(v[i - 1], h, i, ids, last, new)
        BY <4>1 DEF step
      <4> QED BY <2>1, <3>2, <4>1, <4>2 DEF IsLoop
    <3> QED BY <3>1, <3>2
  <2>3. IsKept(v)
    <3>1. v = [i \in 0 .. Len(h) |-> v[i]]
      OBVIOUS
    <3> QED BY <2>2, <3>1
  <2>4. IsKept(kept)
    BY <2>3
  <2> HIDE DEF kept
  <2>5. ASSUME NEW i \in 0 .. Len(h)
        PROVE  kept[i] = IF i = 0 THEN <<>> ELSE Compacted(kept[i - 1], h, i, ids, last, new)
    BY <2>4
  <2> DEFINE T == {i \in 0 .. Len(h) : kept[i] # v[i]}
  <2>6. T = {}
    <3> SUFFICES ASSUME T # {} PROVE FALSE
      OBVIOUS
    <3>1. PICK k \in T : \A j \in T : k <= j
      <4>1. T \in SUBSET Nat
        BY <1>0
      <4> QED BY <4>1, SmallestOf, Zenon
    <3>2. k \in 0 .. Len(h) /\ kept[k] # v[k]
      OBVIOUS
    <3>3. k # 0
      BY <2>2, <2>5, <3>2
    <3>4. k - 1 \in 0 .. Len(h) /\ k - 1 \notin T
      <4> HIDE DEF T
      <4> QED BY <1>0, <3>1, <3>2, <3>3
    <3>5. kept[k - 1] = v[k - 1]
      BY <3>4
    <3> QED BY <2>2, <2>5, <3>2, <3>3, <3>5
  <2>7. \A i \in 0 .. Len(h) : kept[i] = v[i]
    BY <2>6
  <2> QED BY <2>4, <2>7
<1> HIDE DEF kept, step
<1>4. ASSUME NEW i \in 0 .. Len(h)
      PROVE  kept[i] = IF i = 0 THEN <<>> ELSE Compacted(kept[i - 1], h, i, ids, last, new)
  BY <1>3
<1> HIDE DEF IsKept
\* After round i the messages left up to i are in their places.
<1> DEFINE Done(i) ==
      /\ Len(kept[i]) = Rank(h, ids, i)
      /\ \A j \in L : j <= i => kept[i][Rank(h, ids, j)] = IF j = last THEN new ELSE h[j]
           U == {i \in 0 .. Len(h) : ~Done(i)}
<1>r. /\ Rank(h, ids, 0) = 0
      /\ \A i \in 0 .. Len(h) : Rank(h, ids, i) \in Nat
      /\ \A i \in 1 .. Len(h) :
              Rank(h, ids, i) = IF i \in L THEN Rank(h, ids, i - 1) + 1 ELSE Rank(h, ids, i - 1)
      /\ \A i \in 0 .. Len(h), j \in L : j <= i => Rank(h, ids, j) \in 1 .. Rank(h, ids, i)
  BY Ranks DEF L
<1>5. U = {}
  <2> SUFFICES ASSUME U # {} PROVE FALSE
    OBVIOUS
  <2>1. PICK k \in U : \A j \in U : k <= j
    <3>1. U \in SUBSET Nat
      BY <1>0
    <3> QED BY <3>1, SmallestOf, Zenon
  <2>2. k \in 0 .. Len(h) /\ ~Done(k)
    OBVIOUS
  <2>3. k # 0
    <3> SUFFICES ASSUME k = 0 PROVE FALSE
      OBVIOUS
    <3>1. kept[0] = <<>>
      BY <1>0, <1>4
    <3>2. Done(0)
      BY <1>0, <1>r, <3>1
    <3> QED BY <2>2, <3>2
  <2>4. k \in 1 .. Len(h) /\ k - 1 \in 0 .. Len(h) /\ k - 1 \notin U
    <3> HIDE DEF U
    <3> QED BY <1>0, <2>1, <2>2, <2>3
  <2>5. Done(k - 1)
    BY <2>4
  <2>6. kept[k] = Compacted(kept[k - 1], h, k, ids, last, new) /\ kept[k - 1] \in Seq(S)
    BY <1>3, <1>4, <2>3, <2>4
  <2>7. Rank(h, ids, k) = IF k \in L THEN Rank(h, ids, k - 1) + 1 ELSE Rank(h, ids, k - 1)
    BY <1>r, <2>4
  <2>8. ASSUME NEW j \in L, j <= k - 1
        PROVE  /\ Rank(h, ids, j) \in 1 .. Len(kept[k - 1])
               /\ kept[k - 1][Rank(h, ids, j)] = IF j = last THEN new ELSE h[j]
    BY <1>r, <2>4, <2>5, <2>8
  <2>9. CASE k \notin L
    <3>1. kept[k] = kept[k - 1]
      BY <2>4, <2>6, <2>9 DEF Compacted, L, LeftOf, last, Old
    <3>2. \A j \in L : j <= k => j <= k - 1
      BY <1>0, <2>4, <2>9
    <3>3. Done(k)
      BY <2>5, <2>7, <2>9, <3>1, <3>2
    <3> QED BY <2>2, <3>3
  <2>10. CASE k \in L
    <3> DEFINE x == IF k = last THEN new ELSE h[k]
    <3>1. kept[k] = Append(kept[k - 1], x) /\ x \in S
      <4>1. k = last => k \in Old(h, ids)
        BY OldHasLast DEF last
      <4>2. k # last => k \notin Old(h, ids)
        BY <2>10 DEF L, LeftOf, last
      <4> QED BY <2>4, <2>6, <4>1, <4>2 DEF Compacted, Old
    <3> HIDE DEF x
    <3>2. Len(kept[k]) = Rank(h, ids, k) /\ Rank(h, ids, k) = Len(kept[k - 1]) + 1
      BY <2>5, <2>6, <2>7, <2>10, <3>1
    <3>3. kept[k][Rank(h, ids, k)] = x
      BY <2>6, <3>1, <3>2
    <3>4. ASSUME NEW j \in L, j <= k PROVE kept[k][Rank(h, ids, j)] = IF j = last THEN new ELSE h[j]
      <4>1. CASE j = k
        BY <3>3, <4>1 DEF x
      <4>2. CASE j # k
        <5>1. j <= k - 1
          BY <1>0, <2>4, <3>4, <4>2
        <5> QED BY <2>6, <2>8, <3>1, <5>1
      <4> QED BY <4>1, <4>2
    <3>5. Done(k)
      BY <3>2, <3>4
    <3> QED BY <2>2, <3>5
  <2> QED BY <2>9, <2>10
<1>6. Done(Len(h))
  <2> HIDE DEF Done
  <2>1. Len(h) \in 0 .. Len(h)
    BY <1>0
  <2> QED BY <1>5, <2>1
<1>7. Rank(h, ids, Len(h)) = Cardinality(L)
  <2>1. UpTo(h, ids, Len(h)) = L
    BY <1>0 DEF UpTo, L
  <2> QED BY <2>1 DEF Rank
<1>8. kept[Len(h)] \in Seq(S)
  BY <1>0, <1>3
<1>9. \A i \in L : i <= Len(h)
  BY <1>0
<1> QED
  BY <1>1, <1>6, <1>7, <1>8, <1>9 DEF L, last

-----------------------------------------------------------------------------
(* Types                                                                   *)

\* The lines the actions append are lines.
LEMMA EntriesAre ==
  /\ \A u \in BOOLEAN : [kind |-> "message", user |-> u] \in Entries
  /\ \A f \in Files, b, a \in States :
       [kind |-> "snapshot", file |-> f, before |-> b, after |-> a] \in Entries
  /\ \A h \in Seq(Items) : [kind |-> "replacement", history |-> h] \in Entries
BY DEF Entries

\* What an appended line changes, and what it leaves.
LEMMA LogGrows ==
  ASSUME TypeOK, NEW e \in Entries, AppendEntry(e), disk' \in [Files -> States]
  PROVE  /\ Len(log) \in Nat /\ Len(log) < MaxLog /\ log' = Append(log, e)
         /\ log' \in Seq(Entries) /\ Len(log') = Len(log) + 1 /\ Len(log') <= MaxLog
         /\ DOMAIN log = 1 .. Len(log) /\ DOMAIN log' = 1 .. Len(log) + 1
         /\ \A i \in DOMAIN log : log'[i] = log[i]
         /\ log'[Len(log) + 1] = e
         /\ past' \in Seq([Files -> States]) /\ Len(past') = Len(log')
         /\ \A i \in DOMAIN log : past'[i] = past[i]
         /\ past'[Len(log) + 1] = disk'
<1> USE DEF AppendEntry
<1>1. /\ log \in Seq(Entries) /\ past \in Seq([Files -> States]) /\ Len(past) = Len(log)
      /\ MaxLog \in Nat
  BY BoundsAreNumbers DEF TypeOK
<1>2. /\ Len(log) \in Nat /\ Len(log) < MaxLog /\ log' = Append(log, e)
      /\ log' \in Seq(Entries) /\ Len(log') = Len(log) + 1 /\ Len(log') <= MaxLog
      /\ DOMAIN log = 1 .. Len(log) /\ DOMAIN log' = 1 .. Len(log) + 1
  BY <1>1
<1>3. /\ \A i \in DOMAIN log : log'[i] = log[i]
      /\ log'[Len(log) + 1] = e
  BY <1>1
<1>4. /\ past' \in Seq([Files -> States]) /\ Len(past') = Len(past) + 1
      /\ \A i \in 1 .. Len(past) : past'[i] = past[i]
      /\ past'[Len(past) + 1] = disk'
  BY <1>1
<1> QED
  BY <1>1, <1>2, <1>3, <1>4

\* A rewind under way stays what it is while lines are appended.
RewindType ==
  \/ rewind = None
  \/ /\ rewind \in Rewindings
     /\ \A i \in rewind.todo : i \in DOMAIN log /\ log[i].kind = "snapshot"
     /\ rewind.checked => rewind.todo # {}

BaseType == base \in [Files -> [at : Nat, contents : States, kept : BOOLEAN]]
ToolType == tool = None \/ tool \in Tools

\* A step that appends a line keeps the types if it keeps those of the parts.
LEMMA TypesAfterLine ==
  ASSUME TypeOK, NEW e \in Entries, AppendEntry(e), UNCHANGED disk, rewind' \in {rewind, None},
         turn' \in BOOLEAN, raced' \in BOOLEAN, tool' \in {tool, None}, compact' \in {compact, None},
         BaseType', UNCHANGED <<trouble, compactions, begun>>
  PROVE  TypeOK'
<1>1. disk' \in [Files -> States]
  BY DEF TypeOK
<1>2. /\ log' \in Seq(Entries) /\ Len(log') <= MaxLog
      /\ DOMAIN log \subseteq DOMAIN log' /\ \A i \in DOMAIN log : log'[i] = log[i]
      /\ past' \in Seq([Files -> States]) /\ Len(past') = Len(log')
  BY <1>1, LogGrows
<1>3. RewindType'
  <2>1. RewindType
    BY DEF TypeOK, RewindType
  <2> QED BY <1>2, <2>1 DEF RewindType
<1>4. ToolType' /\ (compact' = None \/ compact' \in Seq(Items))
  BY DEF TypeOK, ToolType
<1>5. /\ trouble' \in 0 .. MaxTrouble /\ compactions' \in 0 .. MaxCompactions
      /\ begun' \subseteq [target : 1 .. MaxLog + MaxCompactions, at : Nat]
  BY DEF TypeOK
<1> QED
  BY <1>1, <1>2, <1>3, <1>4, <1>5 DEF TypeOK, RewindType, ToolType, BaseType

\* The other steps leave the log alone.
LEMMA TypesWithoutLine ==
  ASSUME TypeOK, UNCHANGED <<log, past>>, disk' \in [Files -> States],
         turn' \in BOOLEAN, raced' \in BOOLEAN, ToolType', BaseType', RewindType',
         compact' = None \/ compact' \in Seq(Items),
         trouble' \in 0 .. MaxTrouble, compactions' \in 0 .. MaxCompactions,
         begun' \subseteq [target : 1 .. MaxLog + MaxCompactions, at : Nat]
  PROVE  TypeOK'
BY DEF TypeOK, ToolType, BaseType, RewindType

\* What is replayed is a history, and so is what comes before a message of it.
LEMMA HistoryOfLog ==
  ASSUME TypeOK PROVE Visible(log) \in Seq(Items) /\ Len(log) \in Nat
<1>1. log \in Seq(Entries) /\ Len(log) <= MaxLog /\ Len(log) \in Nat
  BY DEF TypeOK
<1>2. PICK v \in [0 .. Len(log) -> Seq(Items)] : Visible(log) = v[Len(log)]
  BY <1>1, ReplayRuns
<1>3. Len(log) \in 0 .. Len(log)
  BY <1>1
<1> QED BY <1>1, <1>2, <1>3, Zenon

LEMMA CutIsHistory ==
  ASSUME NEW h \in Seq(Items), NEW i \in DOMAIN h
  PROVE  SubSeq(h, 1, i - 1) \in Seq(Items)
OBVIOUS

\* Every step keeps the types.
LEMMA TypesStep == ASSUME TypeOK, [Next]_vars PROVE TypeOK'
<1>0. /\ disk \in [Files -> States] /\ turn \in BOOLEAN /\ raced \in BOOLEAN
      /\ ToolType /\ RewindType /\ BaseType
      /\ compact = None \/ compact \in Seq(Items)
      /\ trouble \in 0 .. MaxTrouble /\ compactions \in 0 .. MaxCompactions
      /\ begun \subseteq [target : 1 .. MaxLog + MaxCompactions, at : Nat]
      /\ log \in Seq(Entries) /\ Len(log) \in Nat /\ Len(log) <= MaxLog
      /\ MaxLog \in Nat /\ MaxTrouble \in Nat /\ MaxCompactions \in Nat
  BY BoundsAreNumbers DEF TypeOK, ToolType, RewindType, BaseType
<1>t. ASSUME Trouble PROVE trouble' \in 0 .. MaxTrouble
  BY <1>0, <1>t DEF Trouble
<1>b. ASSUME NEW f \in Files, NEW n \in Nat, NEW c \in States, Changed(f, n, c) PROVE BaseType'
  BY <1>0, <1>b DEF Changed, BaseType
<1>l. ASSUME UNCHANGED <<log, rewind>> PROVE RewindType'
  BY <1>0, <1>l DEF RewindType
<1>1. CASE TurnBegins
  <2>1. /\ turn' \in BOOLEAN /\ raced' \in BOOLEAN
        /\ AppendEntry([kind |-> "message", user |-> TRUE])
        /\ UNCHANGED <<disk, tool, rewind, compact, trouble, compactions, base, begun>>
    BY <1>1, <1>0, Zenon DEF TurnBegins
  <2>2. BaseType'
    BY <1>0, <2>1 DEF BaseType
  <2>3. [kind |-> "message", user |-> TRUE] \in Entries
    BY EntriesAre
  <2> QED BY <2>1, <2>2, <2>3, TypesAfterLine
<1>2. CASE MessageArrives
  <2>1. /\ AppendEntry([kind |-> "message", user |-> FALSE])
        /\ UNCHANGED <<disk, turn, tool, rewind, compact, trouble, compactions, base, begun, raced>>
    BY <1>2 DEF MessageArrives
  <2>2. BaseType'
    BY <1>0, <2>1 DEF BaseType
  <2>3. [kind |-> "message", user |-> FALSE] \in Entries
    BY EntriesAre
  <2> QED BY <1>0, <2>1, <2>2, <2>3, TypesAfterLine
<1>3. ASSUME NEW f \in Files, ToolCaptures(f) PROVE TypeOK'
  <2>1. tool' \in Tools
    BY <1>0, <1>3 DEF ToolCaptures, Tools
  <2>2. ToolType'
    BY <2>1 DEF ToolType
  <2>3. UNCHANGED <<log, disk, turn, rewind, compact, trouble, compactions, past, base, begun, raced>>
    BY <1>3 DEF ToolCaptures
  <2> QED BY <1>0, <1>l, <2>2, <2>3, TypesWithoutLine DEF BaseType
<1>4. ASSUME NEW c \in States, ToolWrites(c) PROVE TypeOK'
  <2>1. tool \in Tools /\ tool.file \in Files
    BY <1>0, <1>4 DEF ToolWrites, ToolType, Tools
  <2>2. tool' \in Tools /\ disk' \in [Files -> States]
    BY <1>0, <1>4, <2>1 DEF ToolWrites, Tools
  <2>3. ToolType'
    BY <2>2 DEF ToolType
  <2>4. UNCHANGED <<log, turn, rewind, compact, trouble, compactions, past, base, begun, raced>>
    BY <1>4 DEF ToolWrites
  <2> QED BY <1>0, <1>l, <2>2, <2>3, <2>4, TypesWithoutLine DEF BaseType
<1>5. CASE ToolFails \/ TurnEnds
  <2>1. /\ tool' \in {tool, None} /\ turn' \in BOOLEAN
        /\ UNCHANGED <<log, disk, rewind, compact, trouble, compactions, past, base, begun, raced>>
    BY <1>0, <1>5 DEF ToolFails, TurnEnds
  <2>2. ToolType' /\ BaseType'
    BY <1>0, <2>1 DEF ToolType, BaseType
  <2> QED BY <1>0, <1>l, <2>1, <2>2, TypesWithoutLine
<1>6. CASE ToolRecords
  <2> DEFINE e == [kind |-> "snapshot", file |-> tool.file,
                   before |-> tool.before, after |-> disk[tool.file]]
  <2>1. tool \in Tools /\ tool.file \in Files /\ disk[tool.file] \in States /\ tool.before \in States
    BY <1>0, <1>6 DEF ToolRecords, ToolType, Tools
  <2>2. e \in Entries
    BY <2>1, EntriesAre
  <2>3. BaseType'
    BY <1>0, <1>6, <1>b, <2>1 DEF ToolRecords, BaseType
  <2>4. /\ AppendEntry(e) /\ tool' = None
        /\ UNCHANGED <<disk, turn, rewind, compact, trouble, compactions, begun, raced>>
    BY <1>6 DEF ToolRecords
  <2> HIDE DEF e
  <2> QED BY <1>0, <2>2, <2>3, <2>4, TypesAfterLine
<1>7. CASE Crash
  <2>1. /\ turn' = FALSE /\ tool' = None /\ rewind' = None /\ Trouble
        /\ UNCHANGED <<log, disk, compact, compactions, past, begun, raced>>
    BY <1>7 DEF Crash
  <2>2. BaseType'
    <3>1. CASE tool # None /\ tool.written
      <4>1. tool.file \in Files /\ disk[tool.file] \in States
        BY <1>0, <3>1 DEF ToolType, Tools
      <4>2. Changed(tool.file, Len(log), disk[tool.file])
        BY <1>7, <3>1 DEF Crash
      <4> QED BY <1>0, <1>b, <4>1, <4>2
    <3>2. CASE ~(tool # None /\ tool.written)
      <4>1. UNCHANGED base
        BY <1>7, <3>2 DEF Crash
      <4> QED BY <1>0, <4>1 DEF BaseType
    <3> QED BY <3>1, <3>2
  <2> QED BY <1>0, <1>t, <2>1, <2>2, TypesWithoutLine DEF ToolType, RewindType
<1>8. CASE RewindReads
  <2>1. PICK i \in DOMAIN Visible(log) :
          /\ rewind' = [target |-> Visible(log)[i].id, direct |-> IsLine(Visible(log)[i].id),
                        history |-> SubSeq(Visible(log), 1, i - 1),
                        todo |-> IF IsLine(Visible(log)[i].id)
                                 THEN Snapshots(Visible(log)[i].id) ELSE {},
                        checked |-> FALSE]
          /\ begun' = begun \cup {[target |-> Visible(log)[i].id, at |-> Len(log)]}
    BY <1>8 DEF RewindReads
  <2>2. UNCHANGED <<log, disk, turn, tool, compact, trouble, compactions, past, base, raced>>
    BY <1>8 DEF RewindReads
  <2>3. Visible(log)[i] \in Items /\ SubSeq(Visible(log), 1, i - 1) \in Seq(Items)
    BY HistoryOfLog, CutIsHistory
  <2>4. Visible(log)[i].id \in 1 .. MaxLog + MaxCompactions
    BY <2>3 DEF Items
  <2>5. IsLine(Visible(log)[i].id) \in BOOLEAN
    BY DEF IsLine
  <2>6. /\ Snapshots(Visible(log)[i].id) \subseteq DOMAIN log
        /\ \A k \in Snapshots(Visible(log)[i].id) : log[k].kind = "snapshot"
        /\ DOMAIN log \subseteq 1 .. MaxLog
    BY <1>0, <2>4 DEF Snapshots, Recorded
  <2>7. rewind' \in Rewindings
    BY <2>1, <2>3, <2>4, <2>5, <2>6 DEF Rewindings
  <2>8. RewindType'
    BY <2>1, <2>2, <2>6, <2>7 DEF RewindType
  <2>9. begun' \subseteq [target : 1 .. MaxLog + MaxCompactions, at : Nat]
    BY <1>0, <2>1, <2>4
  <2> QED BY <1>0, <2>2, <2>8, <2>9, TypesWithoutLine DEF ToolType, BaseType
<1>9. CASE RewindChecks
  <2> DEFINE j == NextSnapshot(rewind.todo)
  <2>1. /\ rewind \in Rewindings /\ rewind.todo # {}
        /\ \A i \in rewind.todo : i \in DOMAIN log /\ log[i].kind = "snapshot"
    BY <1>0, <1>9 DEF RewindChecks, RewindType
  <2>2. /\ \/ rewind' = [rewind EXCEPT !.checked = TRUE]
           \/ rewind' = [rewind EXCEPT !.todo = @ \ {j}] /\ ~rewind.checked
        /\ UNCHANGED <<log, disk, turn, tool, compact, trouble, compactions, past, base, begun, raced>>
    BY <1>9 DEF RewindChecks
  <2> HIDE DEF j
  <2>3. /\ rewind' \in Rewindings /\ rewind'.todo \subseteq rewind.todo
        /\ rewind'.checked => rewind'.todo = rewind.todo
    BY <2>1, <2>2 DEF Rewindings
  <2>4. RewindType'
    BY <2>1, <2>2, <2>3 DEF RewindType
  <2> QED BY <1>0, <2>2, <2>4, TypesWithoutLine DEF ToolType, BaseType
<1>15. CASE RewindWrites
  <2> DEFINE j == NextSnapshot(rewind.todo)
             s == log[j]
  <2>1. /\ rewind \in Rewindings /\ rewind.todo # {}
        /\ \A i \in rewind.todo : i \in DOMAIN log /\ log[i].kind = "snapshot"
    BY <1>0, <1>15 DEF RewindWrites, RewindType
  <2>2. j \in rewind.todo
    <3>1. rewind.todo \in SUBSET (0 .. MaxLog)
      BY <1>0, <2>1 DEF Rewindings
    <3> QED BY <1>0, <2>1, <3>1, GreatestOf, Zenon DEF NextSnapshot
  <2>3. s \in Entries /\ s.kind = "snapshot"
    BY <1>0, <2>1, <2>2
  <2>4. s.file \in Files /\ s.before \in States
    BY <2>3 DEF Entries
  <2>5. rewind' = [rewind EXCEPT !.todo = @ \ {j}, !.checked = FALSE]
    BY <1>15 DEF RewindWrites
  <2>6. /\ \/ /\ disk' = [disk EXCEPT ![s.file] = s.before] /\ UNCHANGED trouble
              /\ base' = base \/ base' = [base EXCEPT ![s.file].kept = FALSE]
           \/ Trouble /\ Changed(s.file, Len(log), disk[s.file]) /\ UNCHANGED disk
        /\ UNCHANGED <<log, turn, tool, compact, compactions, past, begun, raced>>
    BY <1>15 DEF RewindWrites
  <2> HIDE DEF j, s
  <2>7. RewindType'
    <3>1. rewind' \in Rewindings /\ rewind'.todo \subseteq rewind.todo /\ rewind'.checked = FALSE
      BY <2>1, <2>5 DEF Rewindings
    <3> QED BY <2>1, <2>6, <3>1 DEF RewindType
  <2>8. disk' \in [Files -> States] /\ BaseType' /\ trouble' \in 0 .. MaxTrouble
    <3>1. disk[s.file] \in States
      BY <1>0, <2>4
    <3>2. CASE /\ disk' = [disk EXCEPT ![s.file] = s.before] /\ UNCHANGED trouble
               /\ base' = base \/ base' = [base EXCEPT ![s.file].kept = FALSE]
      BY <1>0, <2>4, <3>2 DEF BaseType
    <3>3. CASE Trouble /\ Changed(s.file, Len(log), disk[s.file]) /\ UNCHANGED disk
      BY <1>0, <1>t, <1>b, <2>4, <3>1, <3>3
    <3> QED BY <2>6, <3>2, <3>3
  <2> QED BY <1>0, <2>6, <2>7, <2>8, TypesWithoutLine DEF ToolType
<1>10. CASE RewindEnds
  <2> DEFINE e == [kind |-> "replacement", history |-> rewind.history]
  <2>1. rewind.history \in Seq(Items)
    BY <1>0, <1>10 DEF RewindEnds, RewindType, Rewindings
  <2>2. e \in Entries
    BY <2>1, EntriesAre
  <2>3. /\ AppendEntry(e) /\ rewind' = None
        /\ UNCHANGED <<disk, turn, tool, compact, trouble, compactions, base, begun, raced>>
    BY <1>10 DEF RewindEnds
  <2>4. BaseType'
    BY <1>0, <2>3 DEF BaseType
  <2> HIDE DEF e
  <2> QED BY <1>0, <2>2, <2>3, <2>4, TypesAfterLine
<1>11. CASE CompactReads
  <2>1. PICK ids \in (SUBSET {Visible(log)[i].id : i \in DOMAIN Visible(log)}) \ {{}}, user \in BOOLEAN :
          compact' = Replaced(Visible(log), ids, [id |-> MaxLog + compactions', user |-> user])
    BY <1>11 DEF CompactReads
  <2>2. /\ compactions' = compactions + 1 /\ compactions < MaxCompactions
        /\ UNCHANGED <<log, disk, turn, tool, rewind, trouble, past, base, begun, raced>>
    BY <1>11 DEF CompactReads
  <2>3. [id |-> MaxLog + compactions', user |-> user] \in Items
    BY <1>0, <2>2 DEF Items
  <2>4. Old(Visible(log), ids) # {}
    BY <2>1, SomeAreOld
  <2>5. compact' \in Seq(Items)
    BY <2>1, <2>3, <2>4, HistoryOfLog, ReplacedIsSummary
  <2> QED BY <1>0, <1>l, <2>2, <2>5, TypesWithoutLine DEF ToolType, BaseType
<1>12. CASE CompactEnds
  <2> DEFINE e == [kind |-> "replacement", history |-> compact]
  <2>1. compact \in Seq(Items)
    BY <1>0, <1>12 DEF CompactEnds
  <2>2. e \in Entries
    BY <2>1, EntriesAre
  <2>3. /\ AppendEntry(e) /\ compact' = None
        /\ UNCHANGED <<disk, turn, tool, rewind, trouble, compactions, base, begun, raced>>
    BY <1>12 DEF CompactEnds
  <2>4. BaseType'
    BY <1>0, <2>3 DEF BaseType
  <2> HIDE DEF e
  <2> QED BY <1>0, <2>2, <2>3, <2>4, TypesAfterLine
<1>13. ASSUME NEW f \in Files, NEW c \in States, EditsFromOutside(f, c) PROVE TypeOK'
  <2>1. /\ Trouble /\ disk' = [disk EXCEPT ![f] = c] /\ Changed(f, Len(log), c)
        /\ tool' = IF tool # None /\ tool.file = f THEN [tool EXCEPT !.hit = TRUE] ELSE tool
        /\ UNCHANGED <<log, turn, rewind, compact, compactions, past, begun, raced>>
    BY <1>13 DEF EditsFromOutside
  <2>2. ToolType'
    BY <1>0, <2>1 DEF ToolType, Tools
  <2>3. disk' \in [Files -> States] /\ BaseType'
    BY <1>0, <1>b, <2>1
  <2> QED BY <1>0, <1>l, <1>t, <2>1, <2>2, <2>3, TypesWithoutLine
<1>14. CASE UNCHANGED vars
  BY <1>0, <1>l, <1>14, TypesWithoutLine DEF vars, ToolType, BaseType
<1> QED
  BY <1>1, <1>2, <1>3, <1>4, <1>5, <1>6, <1>7, <1>8, <1>9, <1>10, <1>11, <1>12, <1>13, <1>14,
     <1>15 DEF Next

\* The log is lines of the three kinds, a rewind restores snapshots only, and no history
\* holds anything but messages, whatever was compacted and rewound.
THEOREM TypesHold == Spec => []TypeOK
<1>1. Init => TypeOK
  <2> SUFFICES ASSUME Init PROVE TypeOK
    OBVIOUS
  <2> USE BoundsAreNumbers DEF Init
  <2>1. base \in [Files -> [at : Nat, contents : States, kept : BOOLEAN]]
    OBVIOUS
  <2>2. log \in Seq(Entries) /\ Len(log) = 0 /\ past \in Seq([Files -> States]) /\ Len(past) = 0
    OBVIOUS
  <2>3. /\ disk \in [Files -> States] /\ turn \in BOOLEAN /\ raced \in BOOLEAN
        /\ tool = None /\ rewind = None /\ compact = None
    OBVIOUS
  <2>4. /\ trouble \in 0 .. MaxTrouble /\ compactions \in 0 .. MaxCompactions
        /\ begun \subseteq [target : 1 .. MaxLog + MaxCompactions, at : Nat] /\ Len(log) <= MaxLog
    BY <2>2
  <2> QED BY ONLY <2>1, <2>2, <2>3, <2>4 DEF TypeOK
<1> QED BY <1>1, TypesStep, PTL DEF Spec

-----------------------------------------------------------------------------
(* Histories                                                               *)

\* The lines users' turns start at.
Turns == {t \in DOMAIN log : log[t].kind = "message" /\ log[t].user}

\* The messages a history of the log l can hold: one that has a line is what the line says.
Genuine(l) == {m \in Items : m.id <= MaxLog => /\ m.id \in DOMAIN l
                                               /\ l[m.id].kind = "message"
                                               /\ l[m.id].user = m.user}

\* Nothing in a history is foreign to the log; a message appended next is therefore new,
\* and a rewind to a line goes back to a user's turn.
HistoryInv ==
  /\ Visible(log) \in Seq(Genuine(log))
  /\ rewind # None => /\ rewind.history \in Seq(Genuine(log))
                      /\ IF rewind.direct THEN rewind.target \in Turns
                         ELSE MaxLog < rewind.target
  /\ compact # None => compact \in Seq(Genuine(log))

\* A line more and the history it leaves.
LEMMA LineReplayed ==
  ASSUME TypeOK, NEW e \in Entries, AppendEntry(e), disk' \in [Files -> States]
  PROVE  /\ e.kind = "message" =>
              Visible(log') = Append(Visible(log), [id |-> Len(log) + 1, user |-> e.user])
         /\ e.kind = "replacement" => Visible(log') = e.history
         /\ e.kind = "snapshot" => Visible(log') = Visible(log)
<1>1. /\ log \in Seq(Entries) /\ Len(log) < MaxLog /\ log' = Append(log, e)
      /\ log'[Len(log) + 1] = e
  BY LogGrows DEF TypeOK
<1>2. Visible(log') = Replayed(Visible(log), log', Len(log) + 1)
  BY <1>1, ReplayGrows
<1> QED
  BY <1>1, <1>2 DEF Replayed, Message

\* One replacement more, or as many as before.
LEMMA ReplacementsCount ==
  ASSUME TypeOK, NEW e \in Entries, AppendEntry(e), disk' \in [Files -> States]
  PROVE  Cardinality(Replacements(log'))
           = IF e.kind = "replacement" THEN Cardinality(Replacements(log)) + 1
             ELSE Cardinality(Replacements(log))
<1>1. /\ Len(log) \in Nat /\ DOMAIN log = 1 .. Len(log) /\ DOMAIN log' = 1 .. Len(log) + 1
      /\ \A i \in DOMAIN log : log'[i] = log[i]
      /\ log'[Len(log) + 1] = e
  BY LogGrows
<1>2. IsFiniteSet(Replacements(log)) /\ Len(log) + 1 \notin Replacements(log)
  <2>1. IsFiniteSet(1 .. Len(log)) /\ Replacements(log) \subseteq 1 .. Len(log)
    BY <1>1, FS_Interval DEF Replacements
  <2> QED BY <1>1, <2>1, FS_Subset
<1>3. CASE e.kind = "replacement"
  <2>1. Replacements(log') = Replacements(log) \cup {Len(log) + 1}
    BY <1>1, <1>3 DEF Replacements
  <2>2. Cardinality(Replacements(log) \cup {Len(log) + 1}) = Cardinality(Replacements(log)) + 1
    BY <1>2, FS_AddElement
  <2> QED BY <1>3, <2>1, <2>2
<1>4. CASE e.kind # "replacement"
  <2>1. Replacements(log') = Replacements(log)
    BY <1>1, <1>4 DEF Replacements
  <2> QED BY <1>4, <2>1
<1> QED BY <1>3, <1>4

LEMMA SequencesWiden ==
  ASSUME NEW S, NEW T, S \subseteq T PROVE Seq(S) \subseteq Seq(T)
<1> SUFFICES ASSUME NEW h \in Seq(S) PROVE h \in Seq(T)
  OBVIOUS
<1>1. h \in [1 .. Len(h) -> T] /\ Len(h) \in Nat
  OBVIOUS
<1> QED BY <1>1

\* What is genuine stays so.
LEMMA GenuineStays ==
  ASSUME TypeOK, NEW e \in Entries, AppendEntry(e), disk' \in [Files -> States]
  PROVE  /\ Genuine(log) \subseteq Genuine(log') /\ Turns \subseteq Turns'
         /\ Seq(Genuine(log)) \subseteq Seq(Genuine(log'))
<1>1. /\ DOMAIN log \subseteq DOMAIN log' /\ \A i \in DOMAIN log : log'[i] = log[i]
  BY LogGrows
<1>2. Genuine(log) \subseteq Genuine(log') /\ Turns \subseteq Turns'
  BY <1>1 DEF Genuine, Turns
<1> QED BY <1>2, SequencesWiden

\* Every step keeps HistoryInv.
LEMMA HistoryStep == ASSUME TypeOK, HistoryInv, [Next]_vars PROVE HistoryInv'
<1>0. /\ disk \in [Files -> States] /\ Visible(log) \in Seq(Genuine(log))
      /\ rewind # None => /\ rewind \in Rewindings /\ rewind.history \in Seq(Genuine(log))
                          /\ IF rewind.direct THEN rewind.target \in Turns
                             ELSE MaxLog < rewind.target
      /\ compact # None => compact \in Seq(Genuine(log)) /\ compact \in Seq(Items)
      /\ log \in Seq(Entries) /\ Len(log) \in Nat /\ Len(log) <= MaxLog
      /\ MaxLog \in Nat /\ MaxCompactions \in Nat /\ compactions \in 0 .. MaxCompactions
  BY BoundsAreNumbers DEF TypeOK, HistoryInv
\* A rewind and a compaction that stay or end.
<1>e. ASSUME NEW e \in Entries, AppendEntry(e), UNCHANGED disk,
             rewind' \in {rewind, None}, compact' \in {compact, None},
             Visible(log') \in Seq(Genuine(log'))
      PROVE  HistoryInv'
  <2>1. /\ Genuine(log) \subseteq Genuine(log') /\ Turns \subseteq Turns'
        /\ Seq(Genuine(log)) \subseteq Seq(Genuine(log'))
    BY <1>0, <1>e, GenuineStays
  <2>2. rewind' # None => /\ rewind'.history \in Seq(Genuine(log'))
                          /\ IF rewind'.direct THEN rewind'.target \in Turns'
                             ELSE MaxLog < rewind'.target
    BY <1>0, <1>e, <2>1
  <2>3. compact' # None => compact' \in Seq(Genuine(log'))
    BY <1>0, <1>e, <2>1
  <2> QED BY <1>e, <2>2, <2>3 DEF HistoryInv
<1>m. ASSUME NEW u \in BOOLEAN, AppendEntry([kind |-> "message", user |-> u]), UNCHANGED disk,
             UNCHANGED <<rewind, compact>>
      PROVE  HistoryInv'
  <2> DEFINE e == [kind |-> "message", user |-> u]
             m == [id |-> Len(log) + 1, user |-> u]
  <2>1. e \in Entries /\ e.kind = "message" /\ e.user = u
    BY EntriesAre
  <2>2. AppendEntry(e) /\ disk' \in [Files -> States]
    BY <1>0, <1>m
  <2> HIDE DEF e
  <2>3. Visible(log') = Append(Visible(log), m)
    BY <2>1, <2>2, LineReplayed
  <2>4. m \in Genuine(log')
    <3>1. /\ Len(log) + 1 \in DOMAIN log' /\ log'[Len(log) + 1] = e /\ Len(log) < MaxLog
      BY <1>0, <2>1, <2>2, LogGrows
    <3> QED BY <1>0, <2>1, <3>1 DEF Genuine, Items
  <2>5. Visible(log) \in Seq(Genuine(log'))
    BY <1>0, <2>1, <2>2, GenuineStays
  <2>6. Visible(log') \in Seq(Genuine(log'))
    <3> HIDE DEF m
    <3> QED BY <2>3, <2>4, <2>5
  <2> QED BY <1>e, <1>m, <2>1, <2>2, <2>6
<1>r. ASSUME NEW h \in Seq(Items), h \in Seq(Genuine(log)), UNCHANGED disk,
             AppendEntry([kind |-> "replacement", history |-> h]),
             rewind' \in {rewind, None}, compact' \in {compact, None}
      PROVE  HistoryInv'
  <2> DEFINE e == [kind |-> "replacement", history |-> h]
  <2>1. e \in Entries /\ e.kind = "replacement" /\ e.history = h
    BY EntriesAre
  <2>2. AppendEntry(e) /\ disk' \in [Files -> States]
    BY <1>0, <1>r
  <2> HIDE DEF e
  <2>3. Visible(log') = h
    BY <2>1, <2>2, LineReplayed
  <2>4. Visible(log') \in Seq(Genuine(log'))
    BY <1>r, <2>1, <2>2, <2>3, GenuineStays
  <2> QED BY <1>e, <1>r, <2>1, <2>2, <2>4
<1>1. CASE TurnBegins
  BY <1>1, <1>m DEF TurnBegins
<1>2. CASE MessageArrives
  BY <1>2, <1>m DEF MessageArrives
<1>3. CASE ToolRecords
  <2> DEFINE e == [kind |-> "snapshot", file |-> tool.file,
                   before |-> tool.before, after |-> disk[tool.file]]
  <2>1. tool.file \in Files /\ disk[tool.file] \in States /\ tool.before \in States
    BY <1>0, <1>3 DEF ToolRecords, TypeOK, Tools
  <2>2. e \in Entries /\ e.kind = "snapshot"
    BY <2>1, EntriesAre
  <2>3. AppendEntry(e) /\ UNCHANGED <<disk, rewind, compact>>
    BY <1>3 DEF ToolRecords
  <2> HIDE DEF e
  <2>4. Visible(log') = Visible(log)
    BY <1>0, <2>2, <2>3, LineReplayed
  <2>5. Visible(log') \in Seq(Genuine(log'))
    BY <1>0, <2>2, <2>3, <2>4, GenuineStays
  <2> QED BY <1>e, <2>2, <2>3, <2>5
<1>4. CASE RewindReads
  <2>1. PICK i \in DOMAIN Visible(log) :
          /\ Visible(log)[i].user
          /\ rewind' = [target |-> Visible(log)[i].id, direct |-> IsLine(Visible(log)[i].id),
                        history |-> SubSeq(Visible(log), 1, i - 1),
                        todo |-> IF IsLine(Visible(log)[i].id)
                                 THEN Snapshots(Visible(log)[i].id) ELSE {},
                        checked |-> FALSE]
    BY <1>4 DEF RewindReads
  <2>2. UNCHANGED <<log, compact>>
    BY <1>4 DEF RewindReads
  <2>3. Visible(log)[i] \in Genuine(log) /\ SubSeq(Visible(log), 1, i - 1) \in Seq(Genuine(log))
    BY <1>0
  <2>4. IF rewind'.direct THEN rewind'.target \in Turns ELSE MaxLog < rewind'.target
    <3> DEFINE m == Visible(log)[i]
    <3>1. rewind'.direct = IsLine(m.id) /\ rewind'.target = m.id /\ m.user
      BY <2>1
    <3>2. /\ m.id \in 1 .. MaxLog + MaxCompactions
          /\ m.id <= MaxLog => m.id \in DOMAIN log /\ log[m.id].kind = "message" /\ log[m.id].user = m.user
      BY <2>3 DEF Genuine, Items
    <3> HIDE DEF m
    <3>3. CASE IsLine(m.id)
      <4>1. m.id \in DOMAIN log /\ m.id <= MaxLog
        BY <1>0, <3>3 DEF IsLine
      <4> QED BY <3>1, <3>2, <3>3, <4>1, Zenon DEF Turns
    <3>4. CASE ~IsLine(m.id)
      <4>1. MaxLog < m.id
        BY <1>0, <3>2, <3>4 DEF IsLine
      <4> QED BY <3>1, <3>4, <4>1
    <3> QED BY <3>3, <3>4
  <2>5. Turns' = Turns
    BY <2>2 DEF Turns
  <2>6. rewind'.history \in Seq(Genuine(log'))
    BY <2>1, <2>2, <2>3
  <2> QED BY <1>0, <2>2, <2>4, <2>5, <2>6 DEF HistoryInv
<1>5. CASE RewindChecks \/ RewindWrites
  <2>1. /\ rewind # None /\ UNCHANGED <<log, compact>>
        /\ \/ rewind' = [rewind EXCEPT !.checked = TRUE]
           \/ rewind' = [rewind EXCEPT !.todo = @ \ {NextSnapshot(@)}]
           \/ rewind' = [rewind EXCEPT !.todo = @ \ {NextSnapshot(@)}, !.checked = FALSE]
    BY <1>5 DEF RewindChecks, RewindWrites
  <2>2. /\ rewind'.history = rewind.history /\ rewind'.target = rewind.target
        /\ rewind'.direct = rewind.direct
    BY <1>0, <2>1 DEF Rewindings
  <2> QED BY <1>0, <2>1, <2>2 DEF HistoryInv, Turns
<1>6. CASE RewindEnds
  <2>1. /\ rewind # None /\ AppendEntry([kind |-> "replacement", history |-> rewind.history])
        /\ UNCHANGED <<disk, compact>> /\ rewind' = None
    BY <1>6 DEF RewindEnds
  <2>2. rewind.history \in Seq(Items) /\ rewind.history \in Seq(Genuine(log))
    BY <1>0, <2>1 DEF Rewindings
  <2> QED BY <1>r, <2>1, <2>2
<1>7. CASE CompactReads
  <2>1. PICK ids \in (SUBSET {Visible(log)[i].id : i \in DOMAIN Visible(log)}) \ {{}}, user \in BOOLEAN :
          compact' = Replaced(Visible(log), ids, [id |-> MaxLog + compactions', user |-> user])
    BY <1>7 DEF CompactReads
  <2>2. compactions' = compactions + 1 /\ compactions < MaxCompactions /\ UNCHANGED <<log, rewind>>
    BY <1>7 DEF CompactReads
  <2>3. [id |-> MaxLog + compactions', user |-> user] \in Genuine(log)
    BY <1>0, <2>2 DEF Genuine, Items
  <2>4. Old(Visible(log), ids) # {}
    BY <2>1, SomeAreOld
  <2>5. compact' \in Seq(Genuine(log))
    BY <1>0, <2>1, <2>3, <2>4, ReplacedIsSummary
  <2> QED BY <1>0, <2>2, <2>5 DEF HistoryInv, Turns
<1>8. CASE CompactEnds
  <2>1. /\ compact # None /\ AppendEntry([kind |-> "replacement", history |-> compact])
        /\ UNCHANGED <<disk, rewind>> /\ compact' = None
    BY <1>8 DEF CompactEnds
  <2> QED BY <1>0, <1>r, <2>1
<1>9. ASSUME UNCHANGED <<log, compact>>, rewind' \in {rewind, None} PROVE HistoryInv'
  BY <1>0, <1>9 DEF HistoryInv, Turns
<1>10. ASSUME NEW f \in Files, NEW c \in States,
              ToolCaptures(f) \/ EditsFromOutside(f, c) \/ ToolWrites(c)
       PROVE  HistoryInv'
  BY <1>9, <1>10 DEF ToolCaptures, EditsFromOutside, ToolWrites
<1>11. CASE ToolFails \/ TurnEnds \/ Crash \/ UNCHANGED vars
  BY <1>9, <1>11 DEF ToolFails, TurnEnds, Crash, vars
<1>12. ASSUME NEW f \in Files, ToolCaptures(f) PROVE HistoryInv'
  BY <1>9, <1>12 DEF ToolCaptures
<1>13. ASSUME NEW c \in States, ToolWrites(c) PROVE HistoryInv'
  BY <1>9, <1>13 DEF ToolWrites
<1> QED
  BY <1>1, <1>2, <1>3, <1>4, <1>5, <1>6, <1>7, <1>8, <1>10, <1>11, <1>12, <1>13 DEF Next

\* HistoryInv holds in every state.
LEMMA HistoryAlways == Spec => []HistoryInv
<1>1. Init => HistoryInv
  <2> SUFFICES ASSUME Init PROVE HistoryInv
    OBVIOUS
  <2>1. log = <<>> /\ rewind = None /\ compact = None /\ MaxLog \in Nat
    BY BoundsAreNumbers DEF Init
  <2>2. Visible(log) = <<>>
    <3>1. <<>> \in Seq(Entries) /\ Len(<<>>) = 0 /\ Len(<<>>) <= MaxLog
      BY BoundsAreNumbers
    <3>2. PICK v \in [0 .. Len(<<>>) -> Seq(Items)] : IsReplay(v, <<>>) /\ Visible(<<>>) = v[Len(<<>>)]
      BY <3>1, ReplayRuns
    <3>3. v[0] = <<>>
      BY <3>1, <3>2 DEF IsReplay
    <3>4. Visible(<<>>) = v[0]
      BY <3>1, <3>2, Zenon
    <3> QED BY <2>1, <3>3, <3>4, Zenon
  <2>3. <<>> \in Seq(Genuine(log))
    OBVIOUS
  <2> QED BY ONLY <2>1, <2>2, <2>3, Zenon DEF HistoryInv
<1> QED BY <1>1, HistoryStep, TypesHold, PTL DEF Spec

-----------------------------------------------------------------------------
(* The log implements the history                                          *)

\* What each editor is about to make of the history.
Planned == [e \in {"rewind", "compact"} |->
              IF e = "compact" THEN compact
              ELSE IF rewind = None THEN None ELSE rewind.history]

LEMMA PlansAre ==
  /\ Planned["compact"] = compact
  /\ Planned["rewind"] = IF rewind = None THEN None ELSE rewind.history
  /\ DOMAIN Planned = {"rewind", "compact"}
BY DEF Planned

\* Both specifications count alike.
LEMMA SameCount == \A S : History!Cardinality(S) = Cardinality(S)
BY Zenon DEF History!Cardinality, Cardinality

\* An empty log is an empty history.
LEMMA StartsEmpty == Init => History!Init
<1> SUFFICES ASSUME Init PROVE History!Init
  OBVIOUS
<1>1. log = <<>> /\ rewind = None /\ compact = None
  BY DEF Init
<1>2. Visible(<<>>) = <<>>
  <2>1. <<>> \in Seq(Entries) /\ Len(<<>>) = 0 /\ Len(<<>>) <= MaxLog
    BY BoundsAreNumbers
  <2>2. PICK v \in [0 .. Len(<<>>) -> Seq(Items)] : IsReplay(v, <<>>) /\ Visible(<<>>) = v[Len(<<>>)]
    BY <2>1, ReplayRuns
  <2>3. v[0] = <<>>
    BY <2>1, <2>2 DEF IsReplay
  <2>4. Visible(<<>>) = v[0]
    BY <2>1, <2>2, Zenon
  <2> QED BY <2>3, <2>4, Zenon
<1>3. Cardinality(Replacements(<<>>)) = 0
  <2>1. Replacements(<<>>) = {}
    BY DEF Replacements
  <2> QED BY <2>1, FS_EmptySet
<1>4. Planned = [e \in {"rewind", "compact"} |-> None]
  BY <1>1 DEF Planned
<1> QED BY <1>1, <1>2, <1>3, <1>4, Zenon DEF History!Init, History!Editors, Planned

\* A step of the log is a step of the history, or none.
LEMMA HistoryStepIs ==
  ASSUME TypeOK, HistoryInv, [Next]_vars
  PROVE  [History!Next]_(History!vars)
<1> DEFINE Same == /\ Visible(log') = Visible(log)
                   /\ Cardinality(Replacements(log')) = Cardinality(Replacements(log))
<1>0. /\ disk \in [Files -> States] /\ Visible(log) \in Seq(Genuine(log)) /\ Visible(log) \in Seq(Items)
      /\ rewind # None => rewind \in Rewindings /\ rewind.history \in Seq(Items)
      /\ compact # None => compact \in Seq(Items)
      /\ Len(log) \in Nat /\ Len(log) <= MaxLog /\ None \notin Seq(Items)
      /\ MaxLog \in Nat /\ MaxCompactions \in Nat /\ compactions \in 0 .. MaxCompactions
  BY BoundsAreNumbers, NoneIsNone, HistoryOfLog DEF TypeOK, HistoryInv, Rewindings
\* Steps nobody sees, and those that drop a rewind.
<1>s. ASSUME Same, UNCHANGED <<rewind, compact>> PROVE [History!Next]_(History!vars)
  <2>1. Planned' = Planned
    BY <1>s DEF Planned
  <2> QED BY <1>s, <2>1 DEF History!vars, Planned
<1>u. UNCHANGED log => Same
  BY Zenon
<1>m. ASSUME NEW u \in BOOLEAN, AppendEntry([kind |-> "message", user |-> u]),
             UNCHANGED <<disk, rewind, compact>>
      PROVE  History!Say
  <2> DEFINE e == [kind |-> "message", user |-> u]
             m == [id |-> Len(log) + 1, user |-> u]
  <2>1. e \in Entries /\ e.kind = "message" /\ e.user = u
    BY EntriesAre
  <2>2. AppendEntry(e) /\ disk' \in [Files -> States]
    BY <1>0, <1>m
  <2> HIDE DEF e
  <2>3. /\ Visible(log') = Append(Visible(log), m)
        /\ Cardinality(Replacements(log')) = Cardinality(Replacements(log))
    BY <2>1, <2>2, LineReplayed, ReplacementsCount
  <2>4. Len(log) < MaxLog /\ DOMAIN log = 1 .. Len(log)
    BY <2>1, <2>2, LogGrows
  <2>5. m \in Items
    BY <1>0, <2>4 DEF Items
  <2>6. \A i \in DOMAIN Visible(log) : Visible(log)[i] # m
    <3> SUFFICES ASSUME NEW i \in DOMAIN Visible(log), Visible(log)[i] = m PROVE FALSE
      OBVIOUS
    <3>1. m \in Genuine(log)
      BY <1>0
    <3> QED BY <1>0, <2>4, <3>1 DEF Genuine
  <2>7. Planned' = Planned
    BY <1>m DEF Planned
  <2>8. m \notin History!Range(Visible(log))
    BY <2>6 DEF History!Range
  <2> HIDE DEF m
  <2> QED BY <2>3, <2>5, <2>7, <2>8 DEF History!Say, Planned
\* Editors that put their history in the place of the one there is.
<1>r. ASSUME NEW h \in Seq(Items), NEW n \in {"rewind", "compact"}, Planned[n] = h, UNCHANGED disk,
             AppendEntry([kind |-> "replacement", history |-> h]),
             Planned' = [Planned EXCEPT ![n] = None]
      PROVE  History!Commit(n)
  <2> DEFINE e == [kind |-> "replacement", history |-> h]
  <2>1. e \in Entries /\ e.kind = "replacement" /\ e.history = h
    BY EntriesAre
  <2>2. AppendEntry(e) /\ disk' \in [Files -> States]
    BY <1>0, <1>r
  <2> HIDE DEF e
  <2>3. /\ Visible(log') = h
        /\ Cardinality(Replacements(log')) = Cardinality(Replacements(log)) + 1
    BY <2>1, <2>2, LineReplayed, ReplacementsCount
  <2>4. h # None
    BY <1>0
  <2> QED BY <1>r, <2>3, <2>4 DEF History!Commit, Planned
<1>1. CASE TurnBegins
  <2>1. History!Say
    BY <1>1, <1>m DEF TurnBegins
  <2> QED BY <2>1 DEF History!Next
<1>2. CASE MessageArrives
  <2>1. History!Say
    BY <1>2, <1>m DEF MessageArrives
  <2> QED BY <2>1 DEF History!Next
<1>3. CASE ToolRecords
  <2> DEFINE e == [kind |-> "snapshot", file |-> tool.file,
                   before |-> tool.before, after |-> disk[tool.file]]
  <2>1. tool.file \in Files /\ disk[tool.file] \in States /\ tool.before \in States
    BY <1>0, <1>3 DEF ToolRecords, TypeOK, Tools
  <2>2. e \in Entries /\ e.kind = "snapshot"
    BY <2>1, EntriesAre
  <2>3. AppendEntry(e) /\ UNCHANGED <<disk, rewind, compact>> /\ disk' \in [Files -> States]
    BY <1>0, <1>3 DEF ToolRecords
  <2> HIDE DEF e
  <2>4. Same
    BY <2>2, <2>3, LineReplayed, ReplacementsCount
  <2> QED BY <1>s, <2>3, <2>4
<1>4. CASE RewindReads
  <2>1. PICK i \in DOMAIN Visible(log) :
          /\ Visible(log)[i].user
          /\ rewind' = [target |-> Visible(log)[i].id, direct |-> IsLine(Visible(log)[i].id),
                        history |-> SubSeq(Visible(log), 1, i - 1),
                        todo |-> IF IsLine(Visible(log)[i].id)
                                 THEN Snapshots(Visible(log)[i].id) ELSE {},
                        checked |-> FALSE]
    BY <1>4 DEF RewindReads
  <2>2. UNCHANGED <<log, disk, compact>> /\ rewind = None
    BY <1>4 DEF RewindReads
  <2>3. TypeOK'
    BY TypesStep
  <2>4. rewind' # None /\ rewind'.history = SubSeq(Visible(log), 1, i - 1)
    <3> DEFINE r == [target |-> Visible(log)[i].id, direct |-> IsLine(Visible(log)[i].id),
                        history |-> SubSeq(Visible(log), 1, i - 1),
                        todo |-> IF IsLine(Visible(log)[i].id)
                                 THEN Snapshots(Visible(log)[i].id) ELSE {},
                        checked |-> FALSE]
    <3>1. rewind' = r /\ r.history = SubSeq(Visible(log), 1, i - 1)
      BY <2>1
    <3>2. Visible(log)[i].id \in 1 .. MaxLog + MaxCompactions
      <4>1. Visible(log)[i] \in Items
        BY <1>0
      <4> QED BY <4>1 DEF Items
    <3>3. /\ Snapshots(Visible(log)[i].id) \subseteq 1 .. MaxLog
          /\ IsLine(Visible(log)[i].id) \in BOOLEAN
      BY <1>0, <3>2 DEF Snapshots, Recorded, IsLine
    <3>4. r \in Rewindings
      BY <1>0, <3>2, <3>3, CutIsHistory DEF Rewindings
    <3> HIDE DEF r
    <3> QED BY <3>1, <3>4, NoneIsNone
  <2>5. Planned' = [Planned EXCEPT !["rewind"] = SubSeq(Visible(log), 1, i - 1)]
    BY <2>2, <2>4 DEF Planned
  <2>6. Planned["rewind"] = None
    BY <2>2 DEF Planned
  <2>7. Same
    BY <1>u, <2>2
  <2>8. History!Plan
    BY <2>1, <2>5, <2>6, <2>7 DEF History!Plan, History!Cut, Planned
  <2> QED BY <2>8 DEF History!Next
<1>5. CASE RewindChecks \/ RewindWrites
  <2>1. /\ rewind # None /\ UNCHANGED <<log, compact>>
        /\ \/ rewind' = [rewind EXCEPT !.checked = TRUE]
           \/ rewind' = [rewind EXCEPT !.todo = @ \ {NextSnapshot(@)}]
           \/ rewind' = [rewind EXCEPT !.todo = @ \ {NextSnapshot(@)}, !.checked = FALSE]
    BY <1>5 DEF RewindChecks, RewindWrites
  <2>2. rewind'.history = rewind.history /\ rewind' # None
    <3>1. rewind' \in Rewindings /\ rewind'.history = rewind.history
      BY <1>0, <2>1 DEF Rewindings
    <3> QED BY <3>1, NoneIsNone
  <2>3. Planned' = Planned
    BY <2>1, <2>2 DEF Planned
  <2> QED BY <1>u, <2>1, <2>3 DEF History!vars, Planned
<1>6. CASE RewindEnds
  <2>1. /\ rewind # None /\ AppendEntry([kind |-> "replacement", history |-> rewind.history])
        /\ UNCHANGED <<disk, compact>> /\ rewind' = None
    BY <1>6 DEF RewindEnds
  <2>2. Planned' = [Planned EXCEPT !["rewind"] = None] /\ Planned["rewind"] = rewind.history
    BY <2>1 DEF Planned
  <2>3. History!Commit("rewind")
    BY <1>0, <1>r, <2>1, <2>2
  <2> QED BY <2>3 DEF History!Next, History!Editors
<1>7. CASE CompactReads
  <2> DEFINE h == Visible(log)
  <2>1. PICK ids \in (SUBSET {h[i].id : i \in DOMAIN h}) \ {{}}, user \in BOOLEAN :
          compact' = Replaced(h, ids, [id |-> MaxLog + compactions', user |-> user])
    BY <1>7 DEF CompactReads
  <2>2. compactions' = compactions + 1 /\ compactions < MaxCompactions /\ UNCHANGED <<log, rewind>>
        /\ compact = None
    BY <1>7 DEF CompactReads
  <2> DEFINE new == [id |-> MaxLog + compactions', user |-> user]
             S == Old(h, ids)
  <2>3. new \in Items
    BY <1>0, <2>2 DEF Items
  <2>4. S # {}
    BY <2>1, SomeAreOld
  <2>5. h \in Seq(Items)
    BY <1>0
  <2> HIDE DEF h, new
  <2>6. /\ compact' \in Seq(Items) /\ Len(compact') = Cardinality(LeftOf(h, ids))
        /\ \A i \in LeftOf(h, ids) :
             compact'[Rank(h, ids, i)] = IF i = Max(S) THEN new ELSE h[i]
    BY <2>1, <2>3, <2>4, <2>5, ReplacedIsSummary DEF new
  <2>7. Max(S) \in S /\ \A i \in S : i <= Max(S)
    BY <2>4, <2>5, OldHasLast
  <2>8. S \in (SUBSET DOMAIN h) \ {{}}
    BY <2>4 DEF Old
  <2>9. History!IsSummary(compact', h, S, new)
    <3> DEFINE last == Max(S)
               left == (DOMAIN h \ S) \cup {last}
    <3>1. left = LeftOf(h, ids)
      BY DEF LeftOf
    <3>2. \A i \in left : Rank(h, ids, i) = Cardinality({j \in left : j <= i})
      BY <3>1 DEF Rank, UpTo
    <3>3. /\ last \in S /\ \A i \in S : i <= last
          /\ Len(compact') = Cardinality(left)
          /\ \A i \in left : compact'[Cardinality({j \in left : j <= i})]
                               = IF i = last THEN new ELSE h[i]
      <4> HIDE DEF left, S
      <4> QED BY <2>6, <2>7, <3>1, <3>2
    <3> HIDE DEF last, S
    <3> QED BY <3>3, SameCount DEF History!IsSummary
  <2>10. Planned' = [Planned EXCEPT !["compact"] = compact'] /\ Planned["compact"] = None
         /\ Planned'["compact"] = compact'
    BY <2>2 DEF Planned
  <2>11. Same
    BY <1>u, <2>2
  <2>12. \E m \in Items, T \in (SUBSET DOMAIN h) \ {{}} : History!IsSummary(compact', h, T, m)
    BY <2>3, <2>8, <2>9
  <2>13. History!Plan
    <3>1. /\ Planned["compact"] = None /\ Planned'["compact"] \in Seq(Items)
          /\ Planned' = [Planned EXCEPT !["compact"] = Planned'["compact"]]
          /\ \E m \in Items, T \in (SUBSET DOMAIN h) \ {{}} :
               History!IsSummary(Planned'["compact"], h, T, m)
      BY <2>6, <2>10, <2>12, Zenon
    <3> QED BY <2>11, <3>1, Zenon DEF History!Plan, Planned, h
  <2> QED BY <2>13 DEF History!Next
<1>8. CASE CompactEnds
  <2>1. /\ compact # None /\ AppendEntry([kind |-> "replacement", history |-> compact])
        /\ UNCHANGED <<disk, rewind>> /\ compact' = None
    BY <1>8 DEF CompactEnds
  <2>2. Planned' = [Planned EXCEPT !["compact"] = None] /\ Planned["compact"] = compact
    BY <2>1 DEF Planned
  <2>3. History!Commit("compact")
    BY <1>0, <1>r, <2>1, <2>2
  <2> QED BY <2>3 DEF History!Next, History!Editors
<1>9. CASE Crash
  <2>1. UNCHANGED <<log, compact>> /\ rewind' = None
    BY <1>9 DEF Crash
  <2>2. CASE rewind = None
    BY <1>s, <1>u, <2>1, <2>2
  <2>3. CASE rewind # None
    <3>1. Planned["rewind"] # None /\ Planned' = [Planned EXCEPT !["rewind"] = None]
      BY <1>0, <2>1, <2>3 DEF Planned
    <3>2. Same
      BY <1>u, <2>1
    <3>3. History!Abandon("rewind")
      BY <3>1, <3>2 DEF History!Abandon, Planned
    <3> QED BY <3>3 DEF History!Next, History!Editors
  <2> QED BY <2>2, <2>3
<1>10. ASSUME NEW f \in Files, NEW c \in States, EditsFromOutside(f, c) PROVE UNCHANGED <<log, rewind, compact>>
  BY <1>10 DEF EditsFromOutside
<1>11. CASE ToolFails \/ TurnEnds \/ UNCHANGED vars
  BY <1>s, <1>u, <1>11 DEF ToolFails, TurnEnds, vars
<1>12. ASSUME NEW f \in Files, ToolCaptures(f) PROVE UNCHANGED <<log, rewind, compact>>
  BY <1>12 DEF ToolCaptures
<1>13. ASSUME NEW c \in States, ToolWrites(c) PROVE UNCHANGED <<log, rewind, compact>>
  BY <1>13 DEF ToolWrites
<1> HIDE DEF Same
<1>14. UNCHANGED <<log, rewind, compact>> => [History!Next]_(History!vars)
  BY <1>s, <1>u
<1> QED
  BY <1>1, <1>2, <1>3, <1>4, <1>5, <1>6, <1>7, <1>8, <1>9, <1>10, <1>11, <1>12, <1>13, <1>14
     DEF Next

\* Replaying the log gives the history SessionHistory promises: messages are added one by
\* one, and a rewind or a compaction puts the version it made in the place of the whole,
\* whatever else is appended to the log in between.
THEOREM LogImplementsHistory == Spec => HistoryIsKept
<1>1. Init => History!Init
  BY StartsEmpty
<1>2. TypeOK /\ HistoryInv /\ [Next]_vars => [History!Next]_(History!vars)
  BY HistoryStepIs
<1> QED
  BY <1>1, <1>2, TypesHold, HistoryAlways, PTL DEF Spec, HistoryIsKept, History!Spec

-----------------------------------------------------------------------------
(* Rewinding the files                                                     *)

IsSnapshot(k, f) == log[k].kind = "snapshot" /\ log[k].file = f

\* What a rewind to line t is to give back of f, and the line it had that at.
Origin(t, f) == IF base[f].at < t THEN [at |-> t, contents |-> past[t][f]] ELSE base[f]

\* The snapshots of f since then, up to line n, and what restoring them can give.
Since(t, f, n) == {k \in DOMAIN log : Origin(t, f).at < k /\ k <= n /\ IsSnapshot(k, f)}
Reach(t, f, n) == {Origin(t, f).contents} \cup {log[k].after : k \in Since(t, f, n)}

\* A rewind under way has gone over the snapshots after its target that are not to do.
Passed(k) == rewind # None /\ rewind.target < k /\ k \notin rewind.todo
Left(t, f) == {Origin(t, f).contents}
              \cup {log[k].after : k \in {j \in Since(t, f, Len(log)) : ~Passed(j)}}

\* The turns and files RestoresFiles and KeepsEdits speak of.
Eligible(t, f) ==
  /\ t \in Turns /\ Furthest(t)
  /\ base[f].at < t \/ base[f].kept
  /\ Unrecorded(f, base[f].contents, t, base[f].at)

\* What a file will be taken for: a call that has written is to be recorded.
Writing(f) == tool # None /\ tool.file = f /\ tool.written
Settled(f) == IF Writing(f) THEN tool.before ELSE disk[f]

\* A file is what a snapshot left that is still to be gone over, or what is to be given
\* back, and every snapshot goes back to what an older one left.
FileReach(t, f) ==
  /\ (Writing(f) /\ tool.hit) \/ Settled(f) \in Left(t, f)
  /\ \A k \in Since(t, f, Len(log)) : log[k].before \in Reach(t, f, k - 1)

ReachInv == \A t \in DOMAIN log, f \in Files : Eligible(t, f) => FileReach(t, f)

ToolInv ==
  tool # None => turn /\ (~tool.written /\ ~tool.hit => disk[tool.file] = tool.before)

BaseInv == \A f \in Files : base[f].at <= Len(log)

\* No turn has begun since the rewind under way did.
BegunInv ==
  rewind # None => /\ ~turn
                   /\ \E r \in begun : r.target = rewind.target /\ \A t \in Turns : t <= r.at

\* What a restore is about to overwrite is what it has compared, unless the file has been
\* changed from elsewhere since: its last change is then younger than every turn.
CheckedInv ==
  rewind # None /\ rewind.checked =>
    LET s == log[NextSnapshot(rewind.todo)]
    IN disk[s.file] = s.after \/ \A t \in Turns : t <= base[s.file].at

\* The snapshots to do are the oldest of those after the target.
TodoInv ==
  rewind # None =>
    \A i \in rewind.todo :
      /\ rewind.target < i
      /\ \A k \in DOMAIN log :
           rewind.target < k /\ k <= i /\ log[k].kind = "snapshot" => k \in rewind.todo

FilesInv == BaseInv /\ TodoInv /\ (raced \/ (BegunInv /\ ToolInv /\ CheckedInv /\ ReachInv))

LEMMA LogIs ==
  ASSUME TypeOK
  PROVE  /\ log \in Seq(Entries) /\ Len(log) \in Nat /\ DOMAIN log = 1 .. Len(log)
         /\ past \in Seq([Files -> States]) /\ DOMAIN past = DOMAIN log
         /\ disk \in [Files -> States]
         /\ BaseType /\ RewindType /\ ToolType
         /\ \A f \in Files : base[f].at \in Nat
BY DEF TypeOK, BaseType, RewindType, ToolType

\* A file whose last change nothing has recorded is given back as it is now.
LEMMA FreshReach ==
  ASSUME TypeOK', NEW t \in DOMAIN log', NEW f \in Files,
         base'[f] = [at |-> Len(log'), contents |-> disk'[f], kept |-> TRUE],
         Writing(f)' => tool'.hit
  PROVE  FileReach(t, f)'
<1>0. Len(log') \in Nat /\ DOMAIN log' = 1 .. Len(log')
  BY DEF TypeOK
<1>1. Origin(t, f)' = [at |-> Len(log'), contents |-> disk'[f], kept |-> TRUE]
  BY <1>0 DEF Origin
<1>2. Since(t, f, Len(log))' = {}
  BY <1>0, <1>1 DEF Since
<1>3. disk'[f] \in Left(t, f)'
  BY <1>1 DEF Left
<1>4. (Writing(f) /\ tool.hit)' \/ Settled(f)' \in Left(t, f)'
  BY <1>3 DEF Settled
<1> QED BY <1>2, <1>4 DEF FileReach

\* A step that leaves the log, the rewind and what f was leaves its reach.
LEMMA SameReach ==
  ASSUME UNCHANGED <<log, past>>, NEW t \in DOMAIN log, NEW f \in Files,
         \A k : Passed(k)' => Passed(k), base'[f] = base[f], FileReach(t, f),
         \/ Writing(f)' /\ tool'.hit
         \/ ~(Writing(f) /\ tool.hit) /\ Settled(f)' = Settled(f)
  PROVE  FileReach(t, f)'
<1>1. Origin(t, f)' = Origin(t, f)
  BY DEF Origin
<1>2. \A n : Since(t, f, n)' = Since(t, f, n)
  BY <1>1 DEF Since, IsSnapshot
<1>3. \A n : Reach(t, f, n)' = Reach(t, f, n)
  BY <1>1, <1>2 DEF Reach
<1>5. Left(t, f) \subseteq Left(t, f)'
  BY <1>1, <1>2 DEF Left
<1>6. (Writing(f) /\ tool.hit)' \/ Settled(f)' \in Left(t, f)'
  BY <1>5 DEF FileReach
<1>7. \A k \in Since(t, f, Len(log))' : log'[k].before \in Reach(t, f, k - 1)'
  BY <1>2, <1>3 DEF FileReach
<1> QED BY <1>6, <1>7 DEF FileReach

\* A line more, that is no snapshot of f, leaves the reach of the turns before it.
LEMMA LineReach ==
  ASSUME TypeOK, NEW e \in Entries, AppendEntry(e), UNCHANGED disk,
         NEW t \in DOMAIN log, NEW f \in Files, UNCHANGED rewind \/ rewind' = None,
         base'[f] = base[f], FileReach(t, f),
         \/ ~(e.kind = "snapshot" /\ e.file = f) /\ UNCHANGED tool
         \/ e.kind = "snapshot" /\ e.file # f /\ ~Writing(f) /\ tool' = None
  PROVE  FileReach(t, f)'
<1>0. /\ Len(log) \in Nat /\ Len(log') = Len(log) + 1
      /\ DOMAIN log = 1 .. Len(log) /\ DOMAIN log' = 1 .. Len(log) + 1
      /\ \A i \in DOMAIN log : log'[i] = log[i]
      /\ log'[Len(log) + 1] = e
      /\ \A i \in DOMAIN log : past'[i] = past[i]
  <2>1. disk' \in [Files -> States]
    BY DEF TypeOK
  <2> QED BY <2>1, LogGrows
<1>1. Origin(t, f)' = Origin(t, f)
  BY <1>0 DEF Origin
<1>2. \A k \in DOMAIN log : IsSnapshot(k, f)' = IsSnapshot(k, f)
  BY <1>0 DEF IsSnapshot
<1> PICK n : n = Len(log)
  OBVIOUS
<1>3. ~IsSnapshot(n + 1, f)'
  BY <1>0 DEF IsSnapshot
<1>4. \A m : Since(t, f, m)' = Since(t, f, m)
  <2> TAKE m
  <2>1. \A k \in DOMAIN log' : k \in DOMAIN log \/ k = n + 1
    BY <1>0
  <2>2. DOMAIN log \subseteq DOMAIN log'
    BY <1>0
  <2> QED BY <1>1, <1>2, <1>3, <2>1, <2>2 DEF Since
<1>5. \A k \in DOMAIN log : log'[k] = log[k]
  BY <1>0
<1>6. \A m : Reach(t, f, m)' = Reach(t, f, m)
  BY <1>1, <1>4, <1>5 DEF Reach, Since
<1>7. \A k : Passed(k)' => Passed(k)
  BY DEF Passed
<1>8. Since(t, f, n + 1) = Since(t, f, n) /\ Len(log') = n + 1
  BY <1>0 DEF Since
<1>9. Left(t, f) \subseteq Left(t, f)'
  <2>1. ASSUME NEW k \in Since(t, f, n), ~Passed(k) PROVE log[k].after \in Left(t, f)'
    <3>1. k \in Since(t, f, n + 1)' /\ ~Passed(k)' /\ log'[k] = log[k]
      BY <1>4, <1>5, <1>7, <1>8, <2>1 DEF Since
    <3> QED BY <1>8, <3>1 DEF Left
  <2>2. Origin(t, f).contents \in Left(t, f)'
    BY <1>1 DEF Left
  <2> QED BY <2>1, <2>2 DEF Left
<1>10. (Writing(f) /\ tool.hit)' \/ Settled(f)' \in Left(t, f)'
  BY <1>9 DEF FileReach, Settled, Writing
<1>11. \A k \in Since(t, f, Len(log))' : log'[k].before \in Reach(t, f, k - 1)'
  <2> TAKE k \in Since(t, f, Len(log))'
  <2>1. k \in Since(t, f, n) /\ log'[k] = log[k]
    BY <1>4, <1>5, <1>8 DEF Since
  <2> QED BY <1>6, <2>1 DEF FileReach
<1> QED BY <1>10, <1>11 DEF FileReach

\* A turn and a file the properties speak of after a step they spoke of before it, if the
\* file got no other last change.
LEMMA EligibleBefore ==
  ASSUME TypeOK, BaseInv, NEW t \in DOMAIN log, NEW f \in Files, base'[f] = base[f],
         begun \subseteq begun', \A i \in DOMAIN log : i \in DOMAIN log' /\ log'[i] = log[i],
         Eligible(t, f)'
  PROVE  Eligible(t, f)
<1>0. base[f].at \in Nat /\ base[f].at <= Len(log) /\ Len(log) \in Nat /\ DOMAIN log = 1 .. Len(log)
  BY LogIs DEF BaseInv
<1>1. t \in Turns
  BY DEF Eligible, Turns
<1>2. Furthest(t)
  BY DEF Eligible, Furthest
<1>3. Unrecorded(f, base[f].contents, t, base[f].at)
  BY <1>0 DEF Eligible, Unrecorded
<1>4. base[f].at < t \/ base[f].kept
  BY DEF Eligible
<1> QED BY <1>1, <1>2, <1>3, <1>4 DEF Eligible

\* The steps that leave base as it is, for all files.
LEMMA BaseStays ==
  ASSUME BaseInv, UNCHANGED base, Len(log) <= Len(log'), TypeOK, TypeOK'
  PROVE  BaseInv'
<1> SUFFICES ASSUME NEW f \in Files PROVE base'[f].at <= Len(log')
  BY DEF BaseInv
<1>1. base[f].at <= Len(log) /\ base[f].at \in Nat /\ Len(log) \in Nat /\ Len(log') \in Nat
  BY DEF TypeOK, BaseInv
<1> QED BY <1>1

LEMMA BaseChanges ==
  ASSUME BaseInv, NEW f \in Files, NEW c, Changed(f, Len(log'), c), Len(log) <= Len(log'),
         TypeOK, TypeOK'
  PROVE  /\ BaseInv' /\ base'[f] = [at |-> Len(log'), contents |-> c, kept |-> TRUE]
         /\ \A g \in Files : g # f => base'[g] = base[g]
<1>0. base \in [Files -> [at : Nat, contents : States, kept : BOOLEAN]] /\ Len(log) \in Nat /\ Len(log') \in Nat
  BY DEF TypeOK
<1>1. /\ base'[f] = [at |-> Len(log'), contents |-> c, kept |-> TRUE]
      /\ \A g \in Files : g # f => base'[g] = base[g]
  BY <1>0 DEF Changed
<1>2. ASSUME NEW g \in Files PROVE base'[g].at <= Len(log')
  BY <1>0, <1>1 DEF BaseInv
<1> QED BY <1>1, <1>2 DEF BaseInv

\* A rewind stays what it was while lines are appended.
LEMMA TodoStays ==
  ASSUME TypeOK, TodoInv, UNCHANGED rewind \/ rewind' = None,
         \A i \in DOMAIN log' : i \in DOMAIN log => log'[i] = log[i],
         DOMAIN log' \subseteq Nat, DOMAIN log \subseteq DOMAIN log'
  PROVE  TodoInv'
<1> SUFFICES ASSUME rewind' # None, UNCHANGED rewind,
                    NEW i \in rewind.todo
             PROVE  /\ rewind.target < i
                    /\ \A k \in DOMAIN log' :
                         rewind.target < k /\ k <= i /\ log'[k].kind = "snapshot" => k \in rewind.todo
  BY DEF TodoInv
<1>1. i \in DOMAIN log /\ DOMAIN log = 1 .. Len(log) /\ Len(log) \in Nat /\ rewind.target \in Nat
  BY BoundsAreNumbers DEF TypeOK, Rewindings
<1>2. \A k \in DOMAIN log' : rewind.target < k /\ k <= i => k \in DOMAIN log
  BY <1>1
<1> QED BY <1>2 DEF TodoInv

FilesPart == BegunInv /\ ToolInv /\ CheckedInv /\ ReachInv

\* The snapshot a rewind under way is about to restore is one of the log.
LEMMA NextToRestore ==
  ASSUME TypeOK, rewind # None, rewind.todo # {}
  PROVE  /\ rewind \in Rewindings /\ NextSnapshot(rewind.todo) \in rewind.todo
         /\ \A i \in rewind.todo : i <= NextSnapshot(rewind.todo)
         /\ NextSnapshot(rewind.todo) \in DOMAIN log
         /\ LET s == log[NextSnapshot(rewind.todo)]
            IN s \in Entries /\ s.kind = "snapshot" /\ s.file \in Files /\ s.before \in States
<1>1. /\ rewind \in Rewindings /\ log \in Seq(Entries) /\ MaxLog \in Nat
      /\ \A i \in rewind.todo : i \in DOMAIN log /\ log[i].kind = "snapshot"
  BY BoundsAreNumbers DEF TypeOK
<1> DEFINE j == NextSnapshot(rewind.todo)
<1>2. j \in rewind.todo /\ \A i \in rewind.todo : i <= j
  <2>1. rewind.todo \in SUBSET (0 .. MaxLog)
    BY <1>1 DEF Rewindings
  <2> QED BY <1>1, <2>1, GreatestOf, Zenon DEF NextSnapshot
<1> HIDE DEF j
<1>3. j \in DOMAIN log /\ log[j] \in Entries /\ log[j].kind = "snapshot"
  BY <1>1, <1>2
<1>4. log[j].file \in Files /\ log[j].before \in States
  BY <1>3 DEF Entries
<1> QED BY <1>1, <1>2, <1>3, <1>4 DEF j

\* The steps that append no user's line, and leave the files as they were or as an edit
\* from elsewhere does, keep what CheckedInv says.
LEMMA CheckedStays ==
  ASSUME TypeOK, CheckedInv, UNCHANGED rewind \/ rewind' = None, Turns' \subseteq Turns,
         \A i \in DOMAIN log : log'[i] = log[i],
         rewind' # None =>
           \A f \in Files : \/ UNCHANGED <<disk[f], base[f]>>
                            \/ \A t \in Turns : t <= base'[f].at
  PROVE  CheckedInv'
<1> SUFFICES ASSUME rewind # None, rewind.checked, UNCHANGED rewind PROVE CheckedInv'
  BY DEF CheckedInv
<1>1. rewind.todo # {}
  BY DEF TypeOK
<1> PICK j : j = NextSnapshot(rewind.todo)
  OBVIOUS
<1>2. j \in DOMAIN log /\ log[j].file \in Files /\ log'[j] = log[j]
  BY <1>1, NextToRestore
<1>3. log[j] = log[NextSnapshot(rewind.todo)] /\ NextSnapshot(rewind.todo)' = j
  BY DEF NextSnapshot
<1>4. disk[log[j].file] = log[j].after \/ \A t \in Turns : t <= base[log[j].file].at
  BY <1>3 DEF CheckedInv
<1> QED BY <1>2, <1>3, <1>4 DEF CheckedInv

\* The steps that append no line of a user and leave the rewind keep what BegunInv says.
LEMMA BegunStays ==
  ASSUME BegunInv, UNCHANGED rewind \/ rewind' = None, turn' => turn, begun \subseteq begun',
         Turns' \subseteq Turns
  PROVE  BegunInv'
BY DEF BegunInv

\* A step that appends a line of no user and of no snapshot.
LEMMA OtherLine ==
  ASSUME TypeOK, TypeOK', BaseInv, TodoInv, FilesPart, NEW e \in Entries, AppendEntry(e),
         e.kind # "snapshot", ~(e.kind = "message" /\ e.user),
         UNCHANGED <<disk, turn, tool, base, begun>>, UNCHANGED rewind \/ rewind' = None
  PROVE  BaseInv' /\ TodoInv' /\ FilesPart'
<1>0. /\ Len(log) \in Nat /\ Len(log') = Len(log) + 1
      /\ DOMAIN log = 1 .. Len(log) /\ DOMAIN log' = 1 .. Len(log) + 1
      /\ \A i \in DOMAIN log : log'[i] = log[i]
      /\ log'[Len(log) + 1] = e
  <2>1. disk' \in [Files -> States]
    BY DEF TypeOK
  <2> QED BY <2>1, LogGrows
<1>1. BaseInv'
  BY <1>0, BaseStays
<1>2. TodoInv'
  BY <1>0, TodoStays
<1>3. Turns' \subseteq Turns
  BY <1>0 DEF Turns
<1>4. BegunInv'
  BY <1>3, BegunStays DEF FilesPart
<1>5. ToolInv'
  BY DEF ToolInv, FilesPart
<1>6. ASSUME NEW t \in DOMAIN log', NEW f \in Files, Eligible(t, f)' PROVE FileReach(t, f)'
  <2>1. t \in DOMAIN log
    BY <1>3, <1>6 DEF Eligible, Turns
  <2>2. Eligible(t, f)
    BY <1>0, <1>6, <2>1, EligibleBefore
  <2>3. FileReach(t, f)
    BY <2>1, <2>2 DEF FilesPart, ReachInv
  <2> QED BY <2>1, <2>3, LineReach
<1>7. CheckedInv'
  BY <1>0, <1>3, CheckedStays DEF FilesPart
<1> QED BY <1>1, <1>2, <1>4, <1>5, <1>6, <1>7 DEF FilesPart, ReachInv

\* A step that appends nothing.
LEMMA NoLine ==
  ASSUME TypeOK, TypeOK', BaseInv, TodoInv, FilesPart, UNCHANGED <<log, past, begun>>,
         BaseInv', turn' => turn, UNCHANGED rewind \/ rewind' = None, ToolInv',
         \A f \in Files :
            \/ /\ base'[f] = [at |-> Len(log), contents |-> disk'[f], kept |-> TRUE]
               /\ Writing(f)' => tool'.hit
            \/ /\ base'[f] = base[f]
               /\ \/ Writing(f)' /\ tool'.hit
                  \/ ~(Writing(f) /\ tool.hit) /\ Settled(f)' = Settled(f)
  PROVE  TodoInv' /\ FilesPart'
<1>0. Len(log) \in Nat /\ DOMAIN log = 1 .. Len(log)
  BY LogIs
<1>1. TodoInv'
  BY <1>0, TodoStays
<1>2. Turns' = Turns
  BY DEF Turns
<1>3. BegunInv'
  BY <1>2, BegunStays DEF FilesPart
<1>4. ASSUME NEW t \in DOMAIN log', NEW f \in Files, Eligible(t, f)' PROVE FileReach(t, f)'
  <2>1. CASE base'[f] = [at |-> Len(log), contents |-> disk'[f], kept |-> TRUE] /\ (Writing(f)' => tool'.hit)
    BY <1>4, <2>1, FreshReach
  <2>2. CASE /\ base'[f] = base[f]
             /\ \/ Writing(f)' /\ tool'.hit
                \/ ~(Writing(f) /\ tool.hit) /\ Settled(f)' = Settled(f)
    <3>1. t \in DOMAIN log /\ Eligible(t, f)
      BY <1>4, <2>2, EligibleBefore
    <3>2. FileReach(t, f)
      BY <3>1 DEF FilesPart, ReachInv
    <3>3. \A k : Passed(k)' => Passed(k)
      BY DEF Passed
    <3> QED BY <2>2, <3>1, <3>2, <3>3, SameReach
  <2> QED BY <2>1, <2>2
<1>5. CheckedInv'
  <2>1. \A t \in Turns : t <= Len(log)
    BY <1>0 DEF Turns
  <2>2. ASSUME rewind' # None, NEW f \in Files
        PROVE  UNCHANGED <<disk[f], base[f]>> \/ \A t \in Turns : t <= base'[f].at
    <3>1. tool = None /\ tool' = None
      BY <2>2 DEF FilesPart, BegunInv, ToolInv
    <3>2. CASE base'[f] = [at |-> Len(log), contents |-> disk'[f], kept |-> TRUE]
      BY <2>1, <3>2
    <3>3. CASE base'[f] = base[f] /\ Settled(f)' = Settled(f)
      BY <3>1, <3>3 DEF Settled, Writing
    <3> QED BY <3>1, <3>2, <3>3 DEF Writing
  <2> QED BY <1>2, <2>2, CheckedStays DEF FilesPart
<1> QED BY <1>1, <1>3, <1>4, <1>5 DEF FilesPart, ReachInv

LEMMA RewindReadsStep ==
  ASSUME TypeOK, TypeOK', HistoryInv', BaseInv, TodoInv, FilesPart, RewindReads
  PROVE  BaseInv' /\ TodoInv' /\ FilesPart'
<1>1. /\ ~turn /\ rewind = None
      /\ UNCHANGED <<log, disk, turn, tool, compact, trouble, compactions, past, base, raced>>
  BY DEF RewindReads
<1> PICK m \in Seq(Items) : m = Visible(log)
  BY HistoryOfLog
<1>2. PICK i \in DOMAIN m :
        /\ rewind' = [target |-> m[i].id, direct |-> IsLine(m[i].id),
                      history |-> SubSeq(m, 1, i - 1),
                      todo |-> IF IsLine(m[i].id) THEN Snapshots(m[i].id) ELSE {}, checked |-> FALSE]
        /\ begun' = begun \cup {[target |-> m[i].id, at |-> Len(log)]}
  BY DEF RewindReads
<1>3. /\ rewind'.target = m[i].id /\ rewind'.direct = IsLine(m[i].id)
      /\ rewind'.todo = IF IsLine(m[i].id) THEN Snapshots(m[i].id) ELSE {}
      /\ [target |-> rewind'.target, at |-> Len(log)] \in begun' /\ begun \subseteq begun'
      /\ rewind'.target \in 1 .. MaxLog + MaxCompactions /\ rewind'.checked = FALSE
  <2>1. m[i] \in Items
    OBVIOUS
  <2>2. m[i].id \in 1 .. MaxLog + MaxCompactions
    BY <2>1 DEF Items
  <2> QED BY <1>2, <2>2
<1>4. Len(log) \in Nat /\ Len(log) <= MaxLog /\ DOMAIN log = 1 .. Len(log) /\ MaxLog \in Nat
      /\ MaxCompactions \in Nat
  BY BoundsAreNumbers DEF TypeOK
<1>5. BaseInv'
  BY <1>1, <1>4, BaseStays
<1>6. TodoInv'
  BY <1>1, <1>3, <1>4 DEF TodoInv, Snapshots, Recorded
<1>7. Turns' = Turns
  BY <1>1 DEF Turns
<1>8. BegunInv'
  <2>1. \A t \in Turns : t <= Len(log)
    BY <1>4 DEF Turns
  <2> DEFINE r == [target |-> rewind'.target, at |-> Len(log)]
  <2>2. r \in begun' /\ r.target = rewind'.target /\ \A t \in Turns' : t <= r.at
    BY <1>3, <1>7, <2>1
  <2> QED BY <1>1, <2>2 DEF BegunInv
<1>9. ToolInv'
  BY <1>1 DEF ToolInv, FilesPart
<1>10. \A k \in DOMAIN log : log[k].kind = "snapshot" => ~Passed(k)'
  <2> SUFFICES ASSUME NEW k \in DOMAIN log, log[k].kind = "snapshot", Passed(k)' PROVE FALSE
    OBVIOUS
  <2>1. rewind' # None /\ rewind'.target < k /\ k \notin rewind'.todo
    BY DEF Passed
  <2>2. IsLine(m[i].id) => k \in rewind'.todo
    BY <1>3, <1>4, <2>1 DEF Snapshots, Recorded
  <2>3. ~rewind'.direct => MaxLog < rewind'.target
    BY <2>1 DEF HistoryInv
  <2> QED BY <1>3, <1>4, <2>1, <2>2, <2>3
<1>11. ASSUME NEW t \in DOMAIN log', NEW f \in Files, Eligible(t, f)' PROVE FileReach(t, f)'
  <2>1. t \in DOMAIN log /\ Eligible(t, f)
    BY <1>1, <1>3, <1>11, EligibleBefore
  <2>2. FileReach(t, f)
    BY <2>1 DEF FilesPart, ReachInv
  <2>3. Origin(t, f)' = Origin(t, f) /\ Settled(f)' = Settled(f) /\ Writing(f)' = Writing(f)
    BY <1>1 DEF Origin, Settled, Writing
  <2>4. \A n : Since(t, f, n)' = Since(t, f, n) /\ Reach(t, f, n)' = Reach(t, f, n)
    BY <1>1, <2>3 DEF Since, IsSnapshot, Reach
  <2>5. \A k \in Since(t, f, Len(log)) : ~Passed(k)'
    BY <1>10 DEF Since, IsSnapshot
  <2>6. Left(t, f) \subseteq Left(t, f)'
    BY <1>1, <2>3, <2>4, <2>5 DEF Left
  <2>7. (Writing(f) /\ tool.hit)' \/ Settled(f)' \in Left(t, f)'
    BY <1>1, <2>2, <2>3, <2>6 DEF FileReach
  <2>8. \A k \in Since(t, f, Len(log))' : log'[k].before \in Reach(t, f, k - 1)'
    BY <1>1, <2>2, <2>4 DEF FileReach
  <2> QED BY <2>7, <2>8 DEF FileReach
<1>12. CheckedInv'
  BY <1>3 DEF CheckedInv
<1> QED BY <1>5, <1>6, <1>8, <1>9, <1>11, <1>12 DEF FilesPart, ReachInv

\* One snapshot more is gone over: what is left to do is still the oldest part.
LEMMA TodoShrinks ==
  ASSUME TypeOK, TodoInv, rewind # None, rewind.todo # {}, UNCHANGED log,
         rewind'.target = rewind.target,
         rewind'.todo = rewind.todo \ {NextSnapshot(rewind.todo)}
  PROVE  TodoInv'
<1> PICK todo, j : todo = rewind.todo /\ j = NextSnapshot(rewind.todo)
  OBVIOUS
<1>1. /\ j \in todo /\ \A i \in todo : i <= j
      /\ j \in DOMAIN log /\ DOMAIN log \subseteq Nat /\ todo \subseteq DOMAIN log
      /\ rewind.target \in Nat
  BY NextToRestore, LogIs, BoundsAreNumbers DEF RewindType, Rewindings
<1>2. \A i \in todo : /\ rewind.target < i
                      /\ \A k \in DOMAIN log :
                           rewind.target < k /\ k <= i /\ log[k].kind = "snapshot" => k \in todo
  BY DEF TodoInv
<1> SUFFICES ASSUME NEW i \in todo \ {j}
             PROVE  /\ rewind.target < i
                    /\ \A k \in DOMAIN log :
                         rewind.target < k /\ k <= i /\ log[k].kind = "snapshot" => k \in todo \ {j}
  BY DEF TodoInv
<1>3. i \in todo /\ i < j /\ i \in Nat /\ j \in Nat
  BY <1>1
<1> QED BY <1>1, <1>2, <1>3

\* What a restore leaves of a file: a change no snapshot knows of; a file of which nothing
\* is promised; one that was not what the snapshot had left; or one that was, and is again
\* what it was before.
Outcome(f, s) ==
  \/ base'[f] = [at |-> Len(log), contents |-> disk'[f], kept |-> TRUE]
  \/ ~base'[f].kept /\ \A t \in Turns : t <= base'[f].at
  \/ base'[f] = base[f] /\ disk'[f] = disk[f] /\ (f = s.file => disk[f] # s.after)
  \/ base'[f] = base[f] /\ f = s.file /\ disk[f] = s.after /\ disk'[f] = s.before

LEMMA GoneOver ==
  ASSUME TypeOK, TypeOK', BaseInv, TodoInv, FilesPart, rewind # None, rewind.todo # {},
         rewind' # None, rewind'.target = rewind.target, rewind'.checked = FALSE,
         rewind'.todo = rewind.todo \ {NextSnapshot(rewind.todo)},
         UNCHANGED <<log, turn, tool, past, begun>>,
         \A f \in Files : Outcome(f, log[NextSnapshot(rewind.todo)])
  PROVE  TodoInv' /\ FilesPart'
<1> DEFINE todo == rewind.todo
           j == NextSnapshot(todo)
           s == log[j]
<1>1. /\ rewind \in Rewindings /\ todo # {}
      /\ \A i \in todo : i \in DOMAIN log /\ log[i].kind = "snapshot"
      /\ Len(log) \in Nat /\ DOMAIN log = 1 .. Len(log) /\ log \in Seq(Entries)
      /\ disk \in [Files -> States] /\ MaxLog \in Nat /\ rewind.target \in Nat
  BY BoundsAreNumbers DEF TypeOK, Rewindings
<1>2. j \in todo /\ \A i \in todo : i <= j
  BY NextToRestore
<1>3. s \in Entries /\ s.kind = "snapshot" /\ j \in DOMAIN log
  BY NextToRestore
<1>6. rewind'.todo = todo \ {j} /\ \A f \in Files : Outcome(f, s)
  OBVIOUS
<1>7. ~turn /\ tool = None
  BY DEF FilesPart, BegunInv, ToolInv
<1>8. \A i \in todo, k \in DOMAIN log :
        rewind.target < k /\ k <= i /\ log[k].kind = "snapshot" => k \in todo
  BY DEF TodoInv
<1>t. \A i \in todo : rewind.target < i
  BY DEF TodoInv
<1>10. TodoInv'
  BY TodoShrinks
<1> HIDE DEF j, s, todo
<1>11. Turns' = Turns
  BY DEF Turns
<1>12. BegunInv'
  BY <1>11 DEF BegunInv, FilesPart
<1>13. ToolInv' /\ CheckedInv'
  BY <1>7 DEF ToolInv, CheckedInv
<1>14. ASSUME NEW t \in DOMAIN log', NEW f \in Files, Eligible(t, f)' PROVE FileReach(t, f)'
  <2>1. t \in DOMAIN log
    OBVIOUS
  <2>2. ~Writing(f) /\ ~Writing(f)' /\ Settled(f) = disk[f] /\ Settled(f)' = disk'[f]
    BY <1>7 DEF Writing, Settled
  <2>3. CASE base'[f] = [at |-> Len(log), contents |-> disk'[f], kept |-> TRUE]
    BY <1>14, <2>2, <2>3, FreshReach
  <2>4. CASE ~base'[f].kept /\ \A u \in Turns : u <= base'[f].at
    <3>1. base'[f].at < t /\ t \in Turns /\ t \in Nat /\ base'[f].at \in Nat
      BY <1>1, <1>11, <1>14, <2>1, <2>4 DEF Eligible, TypeOK
    <3> QED BY <2>4, <3>1
  <2>5. CASE /\ base'[f] = base[f]
             /\ \/ disk'[f] = disk[f] /\ (f = s.file => disk[f] # s.after)
                \/ f = s.file /\ disk[f] = s.after /\ disk'[f] = s.before
    <3>1. Eligible(t, f)
      BY <1>14, <2>1, <2>5, EligibleBefore
    <3>2. FileReach(t, f)
      BY <2>1, <3>1 DEF FilesPart, ReachInv
    <3>3. disk[f] \in Left(t, f)
      BY <2>2, <3>2 DEF FileReach
    <3>4. Origin(t, f)' = Origin(t, f)
      BY <2>5 DEF Origin
    <3>5. \A n : Since(t, f, n)' = Since(t, f, n) /\ Reach(t, f, n)' = Reach(t, f, n)
      BY <3>4 DEF Since, IsSnapshot, Reach
    <3>6. \A k : Passed(k)' => Passed(k) \/ k = j
      BY <1>1, <1>6 DEF Passed, todo
    <3>7. t <= rewind.target
      <4>1. PICK r \in begun : r.target = rewind.target /\ \A u \in Turns : u <= r.at
        BY <1>1 DEF FilesPart, BegunInv
      <4>2. t \in Turns /\ (r.target < t => r.at < t)
        BY <3>1 DEF Eligible, Furthest
      <4>3. r.at \in Nat /\ t \in Nat
        BY <1>1, <2>1 DEF TypeOK
      <4> QED BY <1>1, <4>1, <4>2, <4>3
    <3>8. Origin(t, f).at \in Nat /\ base[f].at \in Nat /\ t \in Nat
      BY <1>1, <2>1, LogIs DEF Origin
    <3>9. ASSUME NEW k \in Since(t, f, Len(log)), ~Passed(k), k # j
          PROVE  log'[k].after \in Left(t, f)'
      <4>1. ~Passed(k)'
        BY <3>6, <3>9
      <4> QED BY <3>5, <3>9, <4>1 DEF Left
    <3>o. Origin(t, f).contents \in Left(t, f)'
      BY <3>4 DEF Left
    <3>10. disk'[f] \in Left(t, f)'
      <4>1. CASE disk'[f] = disk[f] /\ (f = s.file => disk[f] # s.after)
        <5>1. CASE disk[f] = Origin(t, f).contents
          BY <3>o, <4>1, <5>1
        <5>2. CASE disk[f] # Origin(t, f).contents
          <6>1. PICK k \in Since(t, f, Len(log)) : ~Passed(k) /\ disk[f] = log[k].after
            BY <3>3, <5>2 DEF Left
          <6>2. k # j
            <7> SUFFICES ASSUME k = j PROVE FALSE
              OBVIOUS
            <7>1. f = s.file /\ disk[f] = s.after
              BY <6>1 DEF Since, IsSnapshot, s
            <7> QED BY <4>1, <7>1
          <6>3. log'[k] = log[k]
            OBVIOUS
          <6> QED BY <3>9, <4>1, <6>1, <6>2, <6>3
        <5> QED BY <5>1, <5>2
      <4>2. CASE f = s.file /\ disk[f] = s.after /\ disk'[f] = s.before
        <5>1. CASE Origin(t, f).at < j
          <6>1. j \in Since(t, f, Len(log)) /\ log[j] = s
            BY <1>1, <1>3, <4>2, <5>1 DEF Since, IsSnapshot, s
          <6>2. s.before \in Reach(t, f, j - 1)
            BY <3>2, <6>1 DEF FileReach
          <6>3. CASE s.before = Origin(t, f).contents
            BY <3>o, <4>2, <6>3
          <6>4. CASE s.before # Origin(t, f).contents
            <7>1. PICK k \in Since(t, f, j - 1) : s.before = log[k].after
              BY <6>2, <6>4 DEF Reach
            <7>2. k \in DOMAIN log /\ k <= j - 1 /\ log[k].kind = "snapshot"
              BY DEF Since, IsSnapshot
            <7>3. k \in Since(t, f, Len(log)) /\ k # j
              BY <1>1, <1>3, <7>2 DEF Since
            <7>4. ~Passed(k)
              BY <1>1, <1>2, <1>3, <1>8, <7>2 DEF Passed, todo
            <7>5. log'[k] = log[k]
              OBVIOUS
            <7> QED BY <3>9, <4>2, <7>1, <7>3, <7>4, <7>5
          <6> QED BY <6>3, <6>4
        <5>2. CASE ~(Origin(t, f).at < j)
          \* Nothing later is left, and what is to be given back was not recorded before.
          <6>1. j <= Origin(t, f).at /\ rewind.target < j
            BY <1>1, <1>2, <1>3, <1>t, <3>8, <5>2
          <6>2. disk[f] = Origin(t, f).contents
            <7> SUFFICES ASSUME disk[f] # Origin(t, f).contents PROVE FALSE
              OBVIOUS
            <7>1. PICK k \in Since(t, f, Len(log)) : ~Passed(k)
              BY <3>3 DEF Left
            <7>2. k \in DOMAIN log /\ Origin(t, f).at < k
              BY DEF Since
            <7>3. k \in todo
              BY <1>1, <1>3, <3>8, <6>1, <7>1, <7>2 DEF Passed, todo
            <7> QED BY <1>1, <1>2, <1>3, <3>8, <6>1, <7>2, <7>3
          <6>3. Origin(t, f) = base[f] /\ t < j /\ j <= base[f].at
            BY <1>1, <1>3, <3>7, <3>8, <6>1 DEF Origin
          <6>4. s.after # base[f].contents
            <7>1. j \in t + 1 .. base[f].at /\ log[j].kind = "snapshot" /\ log[j].file = f
              BY <1>1, <1>3, <3>8, <4>2, <6>3 DEF s
            <7> QED BY <1>3, <3>1, <7>1 DEF Eligible, Unrecorded, s
          <6> QED BY <4>2, <6>2, <6>3, <6>4
        <5> QED BY <5>1, <5>2
      <4> QED BY <2>5, <4>1, <4>2
    <3>11. \A k \in Since(t, f, Len(log))' : log'[k].before \in Reach(t, f, k - 1)'
      BY <3>2, <3>5 DEF FileReach
    <3> QED BY <2>2, <3>10, <3>11 DEF FileReach
  <2>6. Outcome(f, s)
    BY <1>6
  <2> QED BY <2>3, <2>4, <2>5, <2>6 DEF Outcome
<1> QED BY <1>10, <1>12, <1>13, <1>14 DEF FilesPart, ReachInv

\* The restore of a snapshot begins by comparing the file with it.
LEMMA RewindChecksStep ==
  ASSUME TypeOK, TypeOK', BaseInv, TodoInv, RewindChecks
  PROVE  BaseInv' /\ TodoInv' /\ (FilesPart => FilesPart')
<1>1. /\ rewind # None /\ rewind.todo # {} /\ ~rewind.checked
      /\ UNCHANGED <<log, disk, turn, tool, past, base, begun>>
  BY DEF RewindChecks
<1> PICK j : j = NextSnapshot(rewind.todo)
  OBVIOUS
<1>2. rewind \in Rewindings /\ j \in rewind.todo /\ log[j].file \in Files
  BY <1>1, NextToRestore
<1>3. BaseInv'
  <2>1. Len(log) \in Nat
    BY DEF TypeOK
  <2> QED BY <1>1, <2>1, BaseStays
<1>4. CASE ~Matches(log[j])
  <2>1. rewind' = [rewind EXCEPT !.todo = @ \ {j}]
    BY <1>4 DEF RewindChecks
  <2>2. /\ rewind' # None /\ rewind'.target = rewind.target /\ rewind'.checked = FALSE
        /\ rewind'.todo = rewind.todo \ {j}
    <3>1. /\ rewind' \in Rewindings /\ rewind'.target = rewind.target /\ rewind'.checked = FALSE
          /\ rewind'.todo = rewind.todo \ {j}
      BY <1>1, <1>2, <2>1 DEF Rewindings
    <3> QED BY <3>1, NoneIsNone
  <2>3. \A f \in Files : Outcome(f, log[j])
    BY <1>1, <1>4 DEF Outcome, Matches
  <2> QED BY <1>1, <1>3, <2>2, <2>3, TodoShrinks, GoneOver
<1>5. CASE Matches(log[j])
  <2>1. rewind' = [rewind EXCEPT !.checked = TRUE]
    BY <1>5 DEF RewindChecks
  <2>2. rewind' # None /\ rewind'.target = rewind.target /\ rewind'.todo = rewind.todo
    <3>1. rewind' \in Rewindings /\ rewind'.target = rewind.target /\ rewind'.todo = rewind.todo
      BY <1>2, <2>1 DEF Rewindings
    <3> QED BY <3>1, NoneIsNone
  <2>3. TodoInv'
    BY <1>1, <2>2 DEF TodoInv
  <2>4. ASSUME FilesPart PROVE FilesPart'
    <3>1. BegunInv' /\ ToolInv'
      BY <1>1, <2>2, <2>4 DEF FilesPart, BegunInv, ToolInv, Turns
    <3>2. CheckedInv'
      <4>1. NextSnapshot(rewind.todo)' = j /\ log' = log /\ disk' = disk
        BY <1>1, <2>2 DEF NextSnapshot
      <4> QED BY <1>5, <4>1 DEF CheckedInv, Matches
    <3>3. ASSUME NEW t \in DOMAIN log', NEW f \in Files, Eligible(t, f)' PROVE FileReach(t, f)'
      <4>1. t \in DOMAIN log /\ Eligible(t, f)
        BY <1>1, <3>3, EligibleBefore
      <4>2. FileReach(t, f)
        BY <2>4, <4>1 DEF FilesPart, ReachInv
      <4>3. \A k : Passed(k)' => Passed(k)
        BY <1>1, <2>2 DEF Passed
      <4>4. Writing(f)' = Writing(f) /\ Settled(f)' = Settled(f) /\ ~(Writing(f) /\ tool.hit)
        BY <1>1, <2>4 DEF Writing, Settled, FilesPart, BegunInv, ToolInv
      <4> QED BY <1>1, <4>1, <4>2, <4>3, <4>4, SameReach
    <3> QED BY <3>1, <3>2, <3>3 DEF FilesPart, ReachInv
  <2> QED BY <1>3, <2>3, <2>4
<1> QED BY <1>4, <1>5

\* It ends by writing the file as it was before, even if it has changed in between.
LEMMA RewindWritesStep ==
  ASSUME TypeOK, TypeOK', BaseInv, TodoInv, RewindWrites
  PROVE  BaseInv' /\ TodoInv' /\ (FilesPart => FilesPart')
<1>1. /\ rewind # None /\ rewind.checked /\ rewind.todo # {}
      /\ UNCHANGED <<log, turn, tool, past, begun>>
      /\ disk \in [Files -> States] /\ Len(log) \in Nat
      /\ base \in [Files -> [at : Nat, contents : States, kept : BOOLEAN]]
  BY DEF RewindWrites, TypeOK
<1> PICK j : j = NextSnapshot(rewind.todo)
  OBVIOUS
<1> PICK s : s = log[j]
  OBVIOUS
<1>2. rewind \in Rewindings /\ s.file \in Files /\ j \in rewind.todo
  BY <1>1, NextToRestore
<1>3. /\ rewind' = [rewind EXCEPT !.todo = @ \ {j}, !.checked = FALSE]
      /\ \/ /\ disk' = [disk EXCEPT ![s.file] = s.before]
            /\ base' = IF Matches(s) THEN base ELSE [base EXCEPT ![s.file].kept = FALSE]
         \/ Changed(s.file, Len(log), disk[s.file]) /\ UNCHANGED disk
  BY DEF RewindWrites
<1>4. /\ rewind' # None /\ rewind'.target = rewind.target /\ rewind'.checked = FALSE
      /\ rewind'.todo = rewind.todo \ {j}
  <2>1. /\ rewind' \in Rewindings /\ rewind'.target = rewind.target /\ rewind'.checked = FALSE
        /\ rewind'.todo = rewind.todo \ {j}
    BY <1>2, <1>3 DEF Rewindings
  <2> QED BY <2>1, NoneIsNone
<1>5. TodoInv'
  BY <1>1, <1>4, TodoShrinks
<1>6. CASE Changed(s.file, Len(log), disk[s.file]) /\ UNCHANGED disk
  <2>1. /\ BaseInv' /\ base'[s.file] = [at |-> Len(log), contents |-> disk'[s.file], kept |-> TRUE]
        /\ \A f \in Files : f # s.file => base'[f] = base[f]
    BY <1>1, <1>2, <1>6, BaseChanges
  <2>2. \A f \in Files : Outcome(f, s)
    BY <1>6, <2>1 DEF Outcome
  <2> QED BY <1>1, <1>4, <1>5, <2>1, <2>2, GoneOver
<1>7. CASE disk' = [disk EXCEPT ![s.file] = s.before] /\ base' = base /\ Matches(s)
  <2>1. BaseInv'
    BY <1>1, <1>7, BaseStays
  <2>2. \A f \in Files : Outcome(f, s)
    BY <1>1, <1>7 DEF Outcome, Matches
  <2> QED BY <1>1, <1>4, <1>5, <2>1, <2>2, GoneOver
<1>8. CASE /\ disk' = [disk EXCEPT ![s.file] = s.before] /\ ~Matches(s)
           /\ base' = [base EXCEPT ![s.file].kept = FALSE]
  <2>1. /\ base'[s.file].kept = FALSE
        /\ \A f \in Files : base'[f].at = base[f].at
        /\ \A f \in Files : f # s.file => base'[f] = base[f] /\ disk'[f] = disk[f]
    BY <1>1, <1>2, <1>8
  <2>2. BaseInv'
    BY <1>1, <2>1 DEF BaseInv
  <2>3. ASSUME FilesPart PROVE \A f \in Files : Outcome(f, s)
    <3>1. \A t \in Turns : t <= base[s.file].at
      BY <1>1, <1>8, <2>3 DEF FilesPart, CheckedInv, Matches
    <3> QED BY <1>2, <2>1, <3>1 DEF Outcome
  <2> QED BY <1>1, <1>4, <1>5, <2>2, <2>3, GoneOver
<1> QED BY <1>3, <1>6, <1>7, <1>8

LEMMA ToolRecordsStep ==
  ASSUME TypeOK, TypeOK', BaseInv, TodoInv, FilesPart, ToolRecords
  PROVE  BaseInv' /\ TodoInv' /\ FilesPart'
<1> DEFINE e == [kind |-> "snapshot", file |-> tool.file,
                 before |-> tool.before, after |-> disk[tool.file]]
<1>1. /\ tool # None /\ tool \in Tools /\ tool.file \in Files /\ tool.written /\ tool.before \in States
      /\ disk \in [Files -> States] /\ disk[tool.file] \in States
  BY DEF ToolRecords, TypeOK, Tools
<1>2. /\ e \in Entries /\ e.kind = "snapshot" /\ e.file = tool.file
      /\ e.before = tool.before /\ e.after = disk[tool.file]
  BY <1>1, EntriesAre
<1>3. /\ AppendEntry(e) /\ tool' = None
      /\ UNCHANGED <<disk, turn, rewind, compact, trouble, compactions, begun, raced>>
      /\ IF tool.hit THEN Changed(tool.file, Len(log) + 1, disk[tool.file]) ELSE UNCHANGED base
  BY DEF ToolRecords
<1> HIDE DEF e
<1>4. turn /\ rewind = None
  BY <1>1 DEF FilesPart, ToolInv, BegunInv
<1>5. /\ Len(log) \in Nat /\ Len(log') = Len(log) + 1
      /\ DOMAIN log = 1 .. Len(log) /\ DOMAIN log' = 1 .. Len(log) + 1
      /\ \A i \in DOMAIN log : log'[i] = log[i]
      /\ log'[Len(log) + 1] = e
      /\ \A i \in DOMAIN log : past'[i] = past[i]
  BY <1>1, <1>2, <1>3, LogGrows
<1>6. BaseInv' /\ (tool.hit => base'[tool.file] = [at |-> Len(log'), contents |-> disk'[tool.file], kept |-> TRUE])
      /\ \A f \in Files : f # tool.file \/ ~tool.hit => base'[f] = base[f]
  <2>1. CASE tool.hit
    BY <1>1, <1>3, <1>5, <2>1, BaseChanges
  <2>2. CASE ~tool.hit
    BY <1>3, <1>5, <2>2, BaseStays
  <2> QED BY <2>1, <2>2
<1>7. TodoInv'
  BY <1>3, <1>5, TodoStays
<1>8. Turns' \subseteq Turns
  BY <1>2, <1>5 DEF Turns
<1>9. BegunInv'
  BY <1>3, <1>8, BegunStays DEF FilesPart
<1>10. ToolInv' /\ CheckedInv'
  BY <1>3, <1>4 DEF ToolInv, CheckedInv
<1>11. ASSUME NEW t \in DOMAIN log', NEW f \in Files, Eligible(t, f)' PROVE FileReach(t, f)'
  <2>1. t \in DOMAIN log
    BY <1>8, <1>11 DEF Eligible, Turns
  <2>2. ~Writing(f)'
    BY <1>3 DEF Writing
  <2>3. CASE f = tool.file /\ tool.hit
    BY <1>6, <1>11, <2>2, <2>3, FreshReach
  <2>4. CASE f # tool.file
    <3>1. Eligible(t, f) /\ base'[f] = base[f]
      BY <1>3, <1>5, <1>6, <1>11, <2>1, <2>4, EligibleBefore
    <3>2. FileReach(t, f)
      BY <2>1, <3>1 DEF FilesPart, ReachInv
    <3>3. ~Writing(f)
      BY <2>4 DEF Writing
    <3> QED BY <1>2, <1>3, <2>1, <2>4, <3>1, <3>2, <3>3, LineReach
  <2>5. CASE f = tool.file /\ ~tool.hit
    <3>1. Eligible(t, f) /\ base'[f] = base[f]
      BY <1>3, <1>5, <1>6, <1>11, <2>1, <2>5, EligibleBefore
    <3>2. FileReach(t, f)
      BY <2>1, <3>1 DEF FilesPart, ReachInv
    <3>3. Origin(t, f)' = Origin(t, f)
      BY <1>5, <2>1, <3>1 DEF Origin
    <3> PICK n : n = Len(log)
      OBVIOUS
    <3>4. Origin(t, f).at \in Nat /\ Origin(t, f).at <= n
      <4>1. t \in 1 .. n /\ base[f].at \in Nat /\ base[f].at <= n
        BY <1>5, <2>1, LogIs DEF BaseInv
      <4> QED BY <4>1 DEF Origin
    <3>5. \A m \in 0 .. n : Since(t, f, m)' = Since(t, f, m)
      <4> TAKE m \in 0 .. n
      <4>1. \A k \in DOMAIN log : IsSnapshot(k, f)' = IsSnapshot(k, f)
        BY <1>5 DEF IsSnapshot
      <4>2. \A k \in DOMAIN log' : k <= m => k \in DOMAIN log
        BY <1>5
      <4>3. DOMAIN log \subseteq DOMAIN log'
        BY <1>5
      <4> QED BY <3>3, <4>1, <4>2, <4>3 DEF Since
    <3>6. Since(t, f, n + 1)' = Since(t, f, n) \cup {n + 1}
      <4>1. \A k \in DOMAIN log : IsSnapshot(k, f)' = IsSnapshot(k, f)
        BY <1>5 DEF IsSnapshot
      <4>2. IsSnapshot(n + 1, f)'
        BY <1>2, <1>5, <2>5 DEF IsSnapshot
      <4>3. \A k \in DOMAIN log' : k \in DOMAIN log \/ k = n + 1
        BY <1>5
      <4>4. \A k \in DOMAIN log : k <= n /\ k <= n + 1 /\ k \in DOMAIN log'
        BY <1>5
      <4>5. n + 1 \in DOMAIN log' /\ Origin(t, f).at < n + 1 /\ n + 1 <= n + 1
        BY <1>5, <3>4
      <4> QED BY <3>3, <4>1, <4>2, <4>3, <4>4, <4>5 DEF Since
    <3>7. \A k \in DOMAIN log : log'[k] = log[k]
      BY <1>5
    <3>8. \A m \in 0 .. n : Reach(t, f, m)' = Reach(t, f, m)
      BY <3>3, <3>5, <3>7 DEF Reach, Since
    <3>9. Left(t, f) \subseteq Reach(t, f, n)
      BY DEF Left, Reach
    <3>10. tool.before \in Reach(t, f, n)
      <4>1. Settled(f) = tool.before /\ Writing(f)
        BY <1>1, <2>5 DEF Settled, Writing
      <4> QED BY <2>5, <3>2, <3>9, <4>1 DEF FileReach
    <3>11. (Settled(f) \in Left(t, f))'
      <4>1. n + 1 \in Since(t, f, n + 1)' /\ log'[n + 1].after = disk'[f] /\ Len(log') = n + 1
        BY <1>2, <1>3, <1>5, <2>5, <3>6
      <4>2. ~Passed(n + 1)'
        BY <1>3, <1>4 DEF Passed
      <4>3. disk'[f] \in Left(t, f)'
        BY <4>1, <4>2 DEF Left
      <4> QED BY <2>2, <4>3 DEF Settled
    <3>12. ASSUME NEW k \in Since(t, f, n + 1)' PROVE log'[k].before \in Reach(t, f, k - 1)'
      <4>1. CASE k = n + 1
        <5>1. k - 1 = n /\ n \in 0 .. n
          BY <1>5, <4>1
        <5> QED BY <1>2, <1>5, <3>8, <3>10, <4>1, <5>1
      <4>2. CASE k \in Since(t, f, n)
        <5>1. k \in DOMAIN log /\ k - 1 \in 0 .. n /\ log'[k] = log[k]
          BY <1>5, <4>2 DEF Since
        <5>2. log[k].before \in Reach(t, f, k - 1)
          BY <3>2, <4>2 DEF FileReach
        <5> QED BY <3>8, <5>1, <5>2
      <4> QED BY <3>6, <4>1, <4>2
    <3>13. Len(log') = n + 1
      BY <1>5
    <3> QED BY <3>11, <3>12, <3>13 DEF FileReach
  <2> QED BY <2>3, <2>4, <2>5
<1> QED BY <1>6, <1>7, <1>9, <1>10, <1>11 DEF FilesPart, ReachInv

LEMMA TurnBeginsStep ==
  ASSUME TypeOK, TypeOK', BaseInv, TodoInv, FilesPart, TurnBegins, ~raced'
  PROVE  BaseInv' /\ TodoInv' /\ FilesPart'
<1> DEFINE e == [kind |-> "message", user |-> TRUE]
<1>1. /\ ~turn /\ turn' = TRUE /\ rewind = None
      /\ AppendEntry(e)
      /\ UNCHANGED <<disk, tool, rewind, compact, trouble, compactions, base, begun>>
  BY Zenon DEF TurnBegins
<1>2. tool = None
  BY <1>1 DEF FilesPart, ToolInv
<1>3. e \in Entries /\ e.kind = "message" /\ e.user = TRUE /\ disk' \in [Files -> States]
  BY EntriesAre DEF TypeOK
<1> HIDE DEF e
<1>4. /\ Len(log) \in Nat /\ Len(log') = Len(log) + 1
      /\ DOMAIN log = 1 .. Len(log) /\ DOMAIN log' = 1 .. Len(log) + 1
      /\ \A i \in DOMAIN log : log'[i] = log[i]
      /\ log'[Len(log) + 1] = e
      /\ \A i \in DOMAIN log : past'[i] = past[i]
      /\ past'[Len(log) + 1] = disk'
  BY <1>1, <1>3, LogGrows
<1>5. BaseInv'
  BY <1>1, <1>4, BaseStays
<1>6. TodoInv'
  BY <1>1, <1>4, TodoStays
<1>7. BegunInv' /\ ToolInv' /\ CheckedInv'
  BY <1>1, <1>2 DEF BegunInv, ToolInv, CheckedInv
<1>8. ASSUME NEW t \in DOMAIN log', NEW f \in Files, Eligible(t, f)' PROVE FileReach(t, f)'
  <2>1. ~Writing(f)' /\ ~Writing(f) /\ Settled(f)' = disk[f]
    BY <1>1, <1>2 DEF Writing, Settled
  <2>2. CASE t \in DOMAIN log
    <3>1. Eligible(t, f)
      BY <1>1, <1>4, <1>8, <2>2, EligibleBefore
    <3>2. FileReach(t, f)
      BY <2>2, <3>1 DEF FilesPart, ReachInv
    <3> QED BY <1>1, <1>3, <2>2, <3>2, LineReach
  <2>3. CASE t \notin DOMAIN log
    <3>1. t = Len(log) + 1 /\ base[f].at \in Nat /\ base[f].at <= Len(log)
      BY <1>4, <2>3, LogIs DEF BaseInv
    <3>2. Origin(t, f)' = [at |-> t, contents |-> disk'[f]]
      BY <1>1, <1>4, <3>1 DEF Origin
    <3>3. Since(t, f, Len(log))' = {}
      BY <1>4, <3>1, <3>2 DEF Since
    <3>4. Settled(f)' \in Left(t, f)'
      BY <1>1, <2>1, <3>2 DEF Left
    <3> QED BY <3>3, <3>4 DEF FileReach
  <2> QED BY <2>2, <2>3
<1> QED BY <1>5, <1>6, <1>7, <1>8 DEF FilesPart, ReachInv

\* Every step keeps FilesInv.
LEMMA FilesStep ==
  ASSUME TypeOK, TypeOK', HistoryInv', FilesInv, [Next]_vars PROVE FilesInv'
<1>0. /\ BaseInv /\ TodoInv
      /\ Len(log) \in Nat /\ DOMAIN log = 1 .. Len(log) /\ disk \in [Files -> States]
      /\ base \in [Files -> [at : Nat, contents : States, kept : BOOLEAN]]
      /\ tool # None => tool \in Tools /\ tool.file \in Files
      /\ log \in Seq(Entries) /\ Len(log') \in Nat
  BY LogIs DEF FilesInv, BaseType, ToolType, Tools, TypeOK
<1>r. raced => raced'
  BY Zenon DEF Next, vars, TurnBegins, MessageArrives, ToolFails, ToolRecords, TurnEnds, Crash,
     RewindReads, RewindChecks, RewindWrites, RewindEnds, CompactReads, CompactEnds, ToolCaptures,
     EditsFromOutside, ToolWrites
\* The steps that append nothing and change no file's base.
<1>q. ASSUME UNCHANGED <<log, past, begun, rewind, base, raced, disk, turn, tool>> PROVE FilesInv'
  <2>1. BaseInv'
    BY <1>0, <1>q, BaseStays
  <2>2. TodoInv'
    BY <1>0, <1>q, TodoStays
  <2>3. FilesPart => FilesPart'
    <3> SUFFICES ASSUME FilesPart PROVE FilesPart'
      OBVIOUS
    <3>1. ToolInv'
      BY <1>q DEF ToolInv, FilesPart
    <3>2. \A f \in Files : /\ base'[f] = base[f] /\ Writing(f)' = Writing(f)
                           /\ Settled(f)' = Settled(f) /\ tool'.hit = tool.hit
      BY <1>q DEF Writing, Settled
    <3> QED BY <1>0, <1>q, <2>1, <3>1, <3>2, NoLine
  <2> QED BY <1>q, <2>1, <2>2, <2>3 DEF FilesInv, FilesPart
\* Whether a turn has started during a rewind or not.
<1>b. ASSUME BaseInv' /\ TodoInv', ~raced /\ ~raced' /\ FilesPart => FilesPart' PROVE FilesInv'
  BY <1>b, <1>r DEF FilesInv, FilesPart
<1>1. CASE TurnBegins
  <2>1. CASE raced'
    <3>1. /\ AppendEntry([kind |-> "message", user |-> TRUE]) /\ UNCHANGED <<disk, rewind, base>>
      BY <1>1 DEF TurnBegins
    <3>2. [kind |-> "message", user |-> TRUE] \in Entries /\ disk' \in [Files -> States]
      BY <1>0, <3>1, EntriesAre
    <3>3. /\ Len(log') = Len(log) + 1 /\ DOMAIN log' = 1 .. Len(log) + 1
          /\ \A i \in DOMAIN log : log'[i] = log[i]
      BY <3>1, <3>2, LogGrows
    <3>4. BaseInv'
      BY <1>0, <3>1, <3>3, BaseStays
    <3>5. TodoInv'
      BY <1>0, <3>1, <3>3, TodoStays
    <3> QED BY <2>1, <3>4, <3>5 DEF FilesInv
  <2>2. CASE ~raced'
    <3>1. FilesPart
      BY <1>r, <2>2 DEF FilesInv, FilesPart
    <3> QED BY <1>0, <1>1, <2>2, <3>1, TurnBeginsStep DEF FilesInv, FilesPart
  <2> QED BY <2>1, <2>2
\* The other lines.
<1>l. ASSUME NEW e \in Entries, AppendEntry(e), UNCHANGED disk,
             UNCHANGED rewind \/ rewind' = None, UNCHANGED base
      PROVE  BaseInv' /\ TodoInv'
  <2>1. /\ Len(log') = Len(log) + 1 /\ DOMAIN log' = 1 .. Len(log) + 1
        /\ \A i \in DOMAIN log : log'[i] = log[i]
    BY <1>0, <1>l, LogGrows
  <2> QED BY <1>0, <1>l, <2>1, BaseStays, TodoStays
<1>o. ASSUME NEW e \in Entries, AppendEntry(e), e.kind # "snapshot", ~(e.kind = "message" /\ e.user),
             UNCHANGED <<disk, turn, tool, base, begun>>, UNCHANGED rewind \/ rewind' = None
      PROVE  FilesInv'
  <2>1. BaseInv' /\ TodoInv'
    BY <1>l, <1>o
  <2>2. FilesPart => FilesPart'
    BY <1>0, <1>o, OtherLine
  <2> QED BY <1>b, <2>1, <2>2
<1>2. CASE MessageArrives
  <2> DEFINE e == [kind |-> "message", user |-> FALSE]
  <2>1. e \in Entries /\ e.kind = "message" /\ e.user = FALSE
    BY EntriesAre
  <2>2. AppendEntry(e) /\ UNCHANGED <<disk, turn, tool, base, begun, rewind>>
    BY <1>2 DEF MessageArrives
  <2> HIDE DEF e
  <2> QED BY <1>o, <2>1, <2>2
<1>3. CASE RewindEnds
  <2> DEFINE e == [kind |-> "replacement", history |-> rewind.history]
  <2>1. rewind.history \in Seq(Items)
    BY <1>3 DEF RewindEnds, TypeOK, Rewindings
  <2>2. e \in Entries /\ e.kind = "replacement"
    BY <2>1, EntriesAre
  <2>3. AppendEntry(e) /\ UNCHANGED <<disk, turn, tool, base, begun>> /\ rewind' = None
    BY <1>3 DEF RewindEnds
  <2> HIDE DEF e
  <2> QED BY <1>o, <2>2, <2>3
<1>4. CASE CompactEnds
  <2> DEFINE e == [kind |-> "replacement", history |-> compact]
  <2>1. compact \in Seq(Items)
    BY <1>4 DEF CompactEnds, TypeOK
  <2>2. e \in Entries /\ e.kind = "replacement"
    BY <2>1, EntriesAre
  <2>3. AppendEntry(e) /\ UNCHANGED <<disk, turn, tool, base, begun, rewind>>
    BY <1>4 DEF CompactEnds
  <2> HIDE DEF e
  <2> QED BY <1>o, <2>2, <2>3
<1>5. CASE ToolRecords
  <2>1. CASE FilesPart
    <3>1. BaseInv' /\ TodoInv' /\ FilesPart'
      BY <1>0, <1>5, <2>1, ToolRecordsStep
    <3> QED BY <1>b, <3>1
  <2>2. CASE ~FilesPart
    <3> DEFINE e == [kind |-> "snapshot", file |-> tool.file,
                     before |-> tool.before, after |-> disk[tool.file]]
    <3>1. tool # None /\ tool.file \in Files /\ tool.before \in States /\ disk[tool.file] \in States
      BY <1>0, <1>5 DEF ToolRecords, Tools
    <3>2. e \in Entries
      BY <3>1, EntriesAre
    <3>3. AppendEntry(e) /\ UNCHANGED <<disk, rewind>>
          /\ \/ Changed(tool.file, Len(log) + 1, disk[tool.file])
             \/ UNCHANGED base
      BY <1>5 DEF ToolRecords
    <3> HIDE DEF e
    <3>4. /\ Len(log') = Len(log) + 1 /\ DOMAIN log' = 1 .. Len(log) + 1
          /\ \A i \in DOMAIN log : log'[i] = log[i]
      BY <1>0, <3>2, <3>3, LogGrows
    <3>5. BaseInv'
      <4>1. CASE Changed(tool.file, Len(log) + 1, disk[tool.file])
        <5>1. Len(log) \in Nat /\ Len(log) <= Len(log')
          BY <1>0, <3>4 DEF TypeOK
        <5>2. Changed(tool.file, Len(log'), disk[tool.file])
          BY <3>4, <4>1
        <5> QED BY <1>0, <1>b, <3>1, <5>1, <5>2, BaseChanges
      <4>2. CASE UNCHANGED base
        BY <1>0, <3>4, <4>2, BaseStays
      <4> QED BY <3>3, <4>1, <4>2
    <3>6. TodoInv'
      BY <1>0, <3>3, <3>4, TodoStays
    <3> QED BY <1>b, <2>2, <3>5, <3>6
  <2> QED BY <2>1, <2>2
<1>6. CASE RewindReads
  <2>1. CASE FilesPart
    BY <1>0, <1>6, <1>b, <2>1, RewindReadsStep
  <2>2. CASE ~FilesPart
    <3>1. UNCHANGED <<log, base>> /\ BaseInv'
      <4>1. UNCHANGED <<log, base>>
        BY <1>6 DEF RewindReads
      <4> QED BY <1>0, <4>1, BaseStays
    <3>2. TodoInv'
      <4>1. PICK n \in Nat : \/ rewind'.todo = Snapshots(n) /\ rewind'.target = n
                            \/ rewind'.todo = {}
        <5>1. PICK m \in Seq(Items) : m = Visible(log)
          BY HistoryOfLog
        <5>2. PICK i \in DOMAIN m :
                rewind' = [target |-> m[i].id, direct |-> IsLine(m[i].id),
                           history |-> SubSeq(m, 1, i - 1),
                           todo |-> IF IsLine(m[i].id) THEN Snapshots(m[i].id) ELSE {}, checked |-> FALSE]
          BY <1>6, <5>1 DEF RewindReads
        <5>3. m[i] \in Items
          BY <5>1
        <5>4. m[i].id \in Nat
          BY <5>3, BoundsAreNumbers DEF Items
        <5> QED BY <5>2, <5>4
      <4> QED BY <1>0, <3>1, <4>1 DEF TodoInv, Snapshots, Recorded
    <3> QED BY <1>b, <2>2, <3>1, <3>2
  <2> QED BY <2>1, <2>2
<1>7. CASE RewindChecks \/ RewindWrites
  BY <1>0, <1>7, <1>b, RewindChecksStep, RewindWritesStep
<1>8. CASE CompactReads
  BY <1>8, <1>q DEF CompactReads
<1>9. CASE UNCHANGED vars
  BY <1>9, <1>q DEF vars
\* The steps that append nothing and touch a file or its call.
<1>n. ASSUME UNCHANGED <<log, past, begun, raced>>, BaseInv', turn' => turn,
             UNCHANGED rewind \/ rewind' = None,
             FilesPart => /\ ToolInv'
                          /\ \A f \in Files :
                               \/ /\ base'[f] = [at |-> Len(log), contents |-> disk'[f], kept |-> TRUE]
                                  /\ Writing(f)' => tool'.hit
                               \/ /\ base'[f] = base[f]
                                  /\ \/ Writing(f)' /\ tool'.hit
                                     \/ ~(Writing(f) /\ tool.hit) /\ Settled(f)' = Settled(f)
      PROVE  FilesInv'
  <2>1. TodoInv'
    BY <1>0, <1>n, TodoStays
  <2>2. FilesPart => FilesPart'
    BY <1>0, <1>n, NoLine
  <2> QED BY <1>b, <1>n, <2>1, <2>2
<1>10. ASSUME NEW f \in Files, ToolCaptures(f) PROVE FilesInv'
  <2>1. /\ turn /\ tool = None
        /\ tool' = [file |-> f, before |-> disk[f], written |-> FALSE, hit |-> FALSE]
        /\ UNCHANGED <<log, disk, turn, rewind, compact, trouble, compactions, past, base, begun, raced>>
    BY <1>10 DEF ToolCaptures
  <2>2. BaseInv'
    BY <1>0, <2>1, BaseStays
  <2>3. ToolInv'
    BY <2>1 DEF ToolInv
  <2>4. \A g \in Files : ~Writing(g) /\ ~Writing(g)' /\ Settled(g)' = Settled(g)
    BY <2>1 DEF Writing, Settled
  <2> QED BY <1>n, <2>1, <2>2, <2>3, <2>4
<1>11. ASSUME NEW c \in States, ToolWrites(c) PROVE FilesInv'
  <2>1. /\ tool # None /\ ~tool.written
        /\ disk' = [disk EXCEPT ![tool.file] = c] /\ tool' = [tool EXCEPT !.written = TRUE]
        /\ UNCHANGED <<log, turn, rewind, compact, trouble, compactions, past, base, begun, raced>>
    BY <1>11 DEF ToolWrites
  <2>2. tool \in Tools /\ tool' # None
    <3>1. tool \in Tools /\ tool' \in Tools
      BY <1>0, <2>1 DEF Tools
    <3> QED BY <3>1, NoneIsNone
  <2>3. /\ tool'.file = tool.file /\ tool'.hit = tool.hit /\ tool'.before = tool.before /\ tool'.written = TRUE
    BY <2>1, <2>2 DEF Tools
  <2>4. BaseInv'
    BY <1>0, <2>1, BaseStays
  <2>5. FilesPart => ToolInv'
    BY <2>1, <2>2, <2>3 DEF FilesPart, ToolInv
  <2>6. ASSUME NEW f \in Files, FilesPart
        PROVE  \/ Writing(f)' /\ tool'.hit
               \/ ~(Writing(f) /\ tool.hit) /\ Settled(f)' = Settled(f)
    <3>1. CASE f # tool.file
      BY <1>0, <2>1, <2>2, <2>3, <3>1 DEF Writing, Settled
    <3>2. CASE f = tool.file /\ tool.hit
      BY <2>2, <2>3, <3>2 DEF Writing
    <3>3. CASE f = tool.file /\ ~tool.hit
      <4>1. disk[f] = tool.before
        BY <2>1, <2>6, <3>3 DEF FilesPart, ToolInv
      <4> QED BY <2>1, <2>2, <2>3, <3>3, <4>1 DEF Writing, Settled
    <3> QED BY <3>1, <3>2, <3>3
  <2> QED BY <1>n, <2>1, <2>4, <2>5, <2>6
<1>12. CASE ToolFails
  <2>1. /\ tool # None /\ ~tool.written /\ tool' = None
        /\ UNCHANGED <<log, disk, turn, rewind, compact, trouble, compactions, past, base, begun, raced>>
    BY <1>12 DEF ToolFails
  <2>2. BaseInv' /\ ToolInv'
    BY <1>0, <2>1, BaseStays DEF ToolInv
  <2>3. \A g \in Files : ~Writing(g) /\ ~Writing(g)' /\ Settled(g)' = Settled(g)
    BY <2>1 DEF Writing, Settled
  <2> QED BY <1>n, <2>1, <2>2, <2>3
<1>13. CASE TurnEnds
  <2>1. /\ tool = None /\ turn' = FALSE
        /\ UNCHANGED <<log, disk, tool, rewind, compact, trouble, compactions, past, base, begun, raced>>
    BY <1>13 DEF TurnEnds
  <2>2. BaseInv' /\ ToolInv'
    BY <1>0, <2>1, BaseStays DEF ToolInv
  <2>3. \A g \in Files : ~Writing(g) /\ ~Writing(g)' /\ Settled(g)' = Settled(g)
    BY <2>1 DEF Writing, Settled
  <2> QED BY <1>n, <2>1, <2>2, <2>3
<1>14. CASE Crash
  <2>1. /\ turn' = FALSE /\ tool' = None /\ rewind' = None
        /\ IF tool # None /\ tool.written THEN Changed(tool.file, Len(log), disk[tool.file])
           ELSE UNCHANGED base
        /\ UNCHANGED <<log, disk, compact, compactions, past, begun, raced>>
    BY <1>14 DEF Crash
  <2>2. ToolInv'
    BY <2>1 DEF ToolInv
  <2>3. \A g \in Files : ~Writing(g)' /\ Settled(g)' = disk[g]
    BY <2>1 DEF Writing, Settled
  <2>4. CASE tool # None /\ tool.written
    <3>1. /\ BaseInv' /\ base'[tool.file] = [at |-> Len(log'), contents |-> disk[tool.file], kept |-> TRUE]
          /\ \A g \in Files : g # tool.file => base'[g] = base[g]
      BY <1>0, <2>1, <2>4, BaseChanges
    <3>2. \A g \in Files : g # tool.file => ~Writing(g) /\ Settled(g) = disk[g]
      BY DEF Writing, Settled
    <3> QED BY <1>n, <2>1, <2>2, <2>3, <3>1, <3>2
  <2>5. CASE ~(tool # None /\ tool.written)
    <3>1. BaseInv' /\ UNCHANGED base
      BY <1>0, <2>1, <2>5, BaseStays
    <3>2. \A g \in Files : ~Writing(g) /\ Settled(g) = disk[g]
      BY <2>5 DEF Writing, Settled
    <3> QED BY <1>n, <2>1, <2>2, <2>3, <3>1, <3>2
  <2> QED BY <2>4, <2>5
<1>15. ASSUME NEW f \in Files, NEW c \in States, EditsFromOutside(f, c) PROVE FilesInv'
  <2>1. /\ disk' = [disk EXCEPT ![f] = c] /\ Changed(f, Len(log), c)
        /\ tool' = IF tool # None /\ tool.file = f THEN [tool EXCEPT !.hit = TRUE] ELSE tool
        /\ UNCHANGED <<log, turn, rewind, compact, compactions, past, begun, raced>>
    BY <1>15 DEF EditsFromOutside
  <2>2. /\ disk'[f] = c /\ \A g \in Files : g # f => disk'[g] = disk[g]
    BY <1>0, <2>1
  <2>3. /\ BaseInv' /\ base'[f] = [at |-> Len(log), contents |-> c, kept |-> TRUE]
        /\ \A g \in Files : g # f => base'[g] = base[g]
    BY <1>0, <2>1, BaseChanges
  <2>4. CASE tool # None /\ tool.file = f
    <3>1. tool \in Tools /\ tool' \in Tools /\ tool' = [tool EXCEPT !.hit = TRUE]
      BY <1>0, <2>1, <2>4 DEF Tools
    <3>2. /\ tool' # None /\ tool'.file = f /\ tool'.hit = TRUE
          /\ tool'.written = tool.written /\ tool'.before = tool.before
      BY <2>4, <3>1, NoneIsNone DEF Tools
    <3>3. FilesPart => ToolInv'
      BY <2>1, <2>4, <3>2 DEF FilesPart, ToolInv
    <3>4. \A g \in Files : g # f => ~Writing(g) /\ ~Writing(g)' /\ Settled(g)' = Settled(g)
      BY <2>2, <2>4, <3>2 DEF Writing, Settled
    <3> QED BY <1>n, <2>1, <2>2, <2>3, <3>2, <3>3, <3>4
  <2>5. CASE ~(tool # None /\ tool.file = f)
    <3>1. tool' = tool
      BY <2>1, <2>5
    <3>2. FilesPart => ToolInv'
      BY <1>0, <2>1, <2>2, <2>5, <3>1 DEF FilesPart, ToolInv
    <3>3. ~Writing(f)'
      BY <2>5, <3>1 DEF Writing
    <3>4. \A g \in Files : g # f => Writing(g)' = Writing(g) /\ Settled(g)' = Settled(g)
      BY <2>2, <3>1 DEF Writing, Settled
    <3>5. \A g \in Files : g # f => \/ Writing(g)' /\ tool'.hit
                                    \/ ~(Writing(g) /\ tool.hit) /\ Settled(g)' = Settled(g)
      BY <3>1, <3>4
    <3> QED BY <1>n, <2>1, <2>2, <2>3, <3>2, <3>3, <3>5
  <2> QED BY <2>4, <2>5
<1> QED
  BY <1>1, <1>2, <1>3, <1>4, <1>5, <1>6, <1>7, <1>8, <1>9, <1>10, <1>11, <1>12, <1>13, <1>14,
     <1>15 DEF Next

\* FilesInv holds in every state.
LEMMA FilesAlways == Spec => []FilesInv
<1>1. Init /\ TypeOK => FilesInv
  <2> SUFFICES ASSUME Init, TypeOK PROVE FilesInv
    OBVIOUS
  <2>1. log = <<>> /\ tool = None /\ rewind = None
    BY DEF Init
  <2>2. DOMAIN log = {} /\ Len(log) = 0
    BY <2>1
  <2>3. \A f \in Files : base[f].at = 0
    BY DEF Init
  <2> QED BY <2>1, <2>2, <2>3 DEF FilesInv, BaseInv, TodoInv, BegunInv, ToolInv, CheckedInv, ReachInv
<1>2. TypeOK /\ TypeOK' /\ HistoryInv' /\ FilesInv /\ [Next]_vars => FilesInv'
  BY FilesStep
<1> QED BY <1>1, <1>2, TypesHold, HistoryAlways, PTL DEF Spec

\* At the end of a rewind nothing is left but what is to be given back.
LEMMA RewindGivesBack ==
  ASSUME TypeOK, HistoryInv, FilesInv, [Next]_vars, Rewinds, rewind.direct, ~raced,
         Furthest(rewind.target), NEW f \in Files,
         base[f].at < rewind.target \/ base[f].kept,
         Unrecorded(f, base[f].contents, rewind.target, base[f].at)
  PROVE  disk[f] = Origin(rewind.target, f).contents
<1> DEFINE t == rewind.target
<1>1. rewind # None /\ rewind' = None /\ log' # log
  BY DEF Rewinds
<1>2. RewindEnds
  BY <1>1, Zenon DEF Next, vars, TurnBegins, MessageArrives, ToolFails, ToolRecords, TurnEnds, Crash,
     RewindReads, RewindChecks, RewindWrites, RewindEnds, CompactReads, CompactEnds, ToolCaptures,
     EditsFromOutside, ToolWrites
<1>3. rewind.todo = {}
  BY <1>2 DEF RewindEnds
<1>4. t \in Turns /\ t \in DOMAIN log
  BY <1>1 DEF HistoryInv, Turns
<1>5. Eligible(t, f)
  BY <1>4 DEF Eligible
<1>6. FileReach(t, f)
  BY <1>4, <1>5 DEF FilesInv, ReachInv
<1>7. tool = None
  BY <1>1 DEF FilesInv, BegunInv, ToolInv
<1>8. disk[f] \in Left(t, f)
  BY <1>6, <1>7 DEF FileReach, Settled, Writing
<1>9. Origin(t, f).at \in Nat /\ t \in Nat /\ t <= Origin(t, f).at /\ DOMAIN log \subseteq Nat
  BY <1>4, LogIs DEF Origin
<1>10. \A k \in Since(t, f, Len(log)) : Passed(k)
  BY <1>1, <1>3, <1>9 DEF Since, Passed
<1> QED BY <1>8, <1>10 DEF Left

\* A rewind gives each file back as it was when its target was appended, if since then
\* only the session's tools have changed it, whatever failed or was rewound before.
THEOREM RewindRestoresFiles == Spec => RestoresFiles
<1>1. ASSUME TypeOK, HistoryInv, FilesInv, [Next]_vars
      PROVE  Rewinds /\ rewind.direct /\ ~raced /\ Furthest(rewind.target) =>
               \A f \in Files : base[f].at < rewind.target => disk[f] = past[rewind.target][f]
  <2> SUFFICES ASSUME Rewinds, rewind.direct, ~raced, Furthest(rewind.target),
                      NEW f \in Files, base[f].at < rewind.target
               PROVE  disk[f] = past[rewind.target][f]
    OBVIOUS
  <2>0. base[f].at \in Nat /\ rewind.target \in Nat
    <3>1. rewind \in Rewindings
      BY <1>1 DEF Rewinds, TypeOK
    <3> QED BY <1>1, <3>1, LogIs, BoundsAreNumbers DEF Rewindings
  <2>1. Unrecorded(f, base[f].contents, rewind.target, base[f].at)
    BY <2>0 DEF Unrecorded
  <2>2. disk[f] = Origin(rewind.target, f).contents
    BY <1>1, <2>1, RewindGivesBack
  <2> QED BY <2>2 DEF Origin
<1> QED BY <1>1, TypesHold, HistoryAlways, FilesAlways, PTL DEF Spec, RestoresFiles

\* A rewind leaves a file the last contents it got from elsewhere, unless a call before
\* them had left the same contents, or they came after the checksum was compared and
\* before the restore wrote (restore_file_snapshot does not look again).
THEOREM RewindKeepsEdits == Spec => KeepsEdits
<1>1. ASSUME TypeOK, HistoryInv, FilesInv, [Next]_vars
      PROVE  Rewinds /\ rewind.direct /\ ~raced /\ Furthest(rewind.target) =>
               \A f \in Files :
                  base[f].at >= rewind.target /\ base[f].kept
                  /\ Unrecorded(f, base[f].contents, rewind.target, base[f].at)
                    => disk[f] = base[f].contents
  <2> SUFFICES ASSUME Rewinds, rewind.direct, ~raced, Furthest(rewind.target), NEW f \in Files,
                      base[f].at >= rewind.target, base[f].kept,
                      Unrecorded(f, base[f].contents, rewind.target, base[f].at)
               PROVE  disk[f] = base[f].contents
    OBVIOUS
  <2>0. base[f].at \in Nat /\ rewind.target \in Nat
    <3>1. rewind \in Rewindings
      BY <1>1 DEF Rewinds, TypeOK
    <3> QED BY <1>1, <3>1, LogIs, BoundsAreNumbers DEF Rewindings
  <2>1. disk[f] = Origin(rewind.target, f).contents
    BY <1>1, RewindGivesBack
  <2> QED BY <2>0, <2>1 DEF Origin
<1> QED BY <1>1, TypesHold, HistoryAlways, FilesAlways, PTL DEF Spec, KeepsEdits
=============================================================================
