------------------------ MODULE AgentRuntime_proofs ------------------------
(***************************************************************************)
(* Proofs about AgentRuntime for any messages, turn threads and bounds.    *)
(***************************************************************************)
EXTENDS AgentRuntime, SequenceTheorems, FiniteSetTheorems, TLAPS

\* A scheduled task waits with the approval provider it was submitted with,
\* and the turn it starts has it too.
CronKeepsProvider ==
  /\ \A i \in DOMAIN inputs :
       inputs[i].msg \in CronMsgs => inputs[i].provider = inputs[i].msg
  /\ CronRunsApart

IInv == TypeOK /\ TurnsOverlapOnlyAfterClear /\ CronKeepsProvider

-----------------------------------------------------------------------------
\* A record of a turn stays one whatever its progress.
LEMMA GotoType ==
  ASSUME TypeOK, NEW t \in TurnIds, NEW pc \in TurnPcs, Goto(t, pc)
  PROVE  turn' \in [TurnIds -> TurnRecord]
<1>1. ASSUME NEW u \in TurnRecord
      PROVE  [u EXCEPT !.pc = pc] \in TurnRecord
  BY DEF TurnRecord
<1> QED
  BY <1>1 DEF Goto, TypeOK

LEMMA ProgressType ==
  ASSUME NEW u \in TurnRecord, NEW pc \in TurnPcs, NEW ok \in BOOLEAN,
         NEW s \in Seq(ChatMsgs)
  PROVE  /\ [u EXCEPT !.pc = pc, !.taken = s] \in TurnRecord
         /\ [u EXCEPT !.pc = pc, !.ok = ok, !.taken = s] \in TurnRecord
  BY DEF TurnRecord

\* A free thread is a turn record.
LEMMA FreeType == Free \in TurnRecord
<1>1. <<>> \in Seq(ChatMsgs)
  BY EmptySeq
<1> QED
  BY <1>1 DEF Free, TurnRecord, TurnPcs

\* Starting a turn takes the first input and leaves the rest.
LEMMA StartType ==
  ASSUME TypeOK, NEW after \in [TurnIds -> TurnRecord], StartTurn(after)
  PROVE  /\ turn' \in [TurnIds -> TurnRecord]
         /\ inputs' \in Seq(InputRecord)
         /\ running' \in BOOLEAN
<1>1. inputs \in Seq(InputRecord) /\ inputs # <<>>
  BY DEF TypeOK, StartTurn
<1>2. Head(inputs) \in InputRecord /\ Tail(inputs) \in Seq(InputRecord)
  BY <1>1
<1>3. [Free EXCEPT !.pc = "starting", !.msg = Head(inputs).msg,
                   !.provider = Head(inputs).provider] \in TurnRecord
  BY <1>2, FreeType DEF InputRecord, TurnRecord, TurnPcs
<1> QED
  BY <1>2, <1>3 DEF StartTurn

\* Whether or not it starts a turn, a caller leaves the queue well typed.
LEMMA MaybeStartType ==
  ASSUME TypeOK, NEW after \in [TurnIds -> TurnRecord], MaybeStartNext(after)
  PROVE  /\ turn' \in [TurnIds -> TurnRecord]
         /\ inputs' \in Seq(InputRecord)
         /\ running' \in BOOLEAN
  BY StartType DEF MaybeStartNext, TypeOK

\* Entering messages in the log keeps the counts.
LEMMA EnterType ==
  ASSUME TypeOK, NEW ms, NEW how \in {"input", "steer"}, Enter(ms, how)
  PROVE  entered' \in [Msgs -> [input : Nat, steer : Nat]]
<1>1. ASSUME NEW e \in [input : Nat, steer : Nat]
      PROVE  [e EXCEPT ![how] = e[how] + 1] \in [input : Nat, steer : Nat]
  <2>1. CASE how = "input"
    BY <2>1
  <2>2. CASE how = "steer"
    BY <2>2
  <2> QED
    BY <2>1, <2>2
<1> QED
  BY <1>1 DEF Enter, TypeOK

\* Reading meta.json takes a copy, and writing a changed copy leaves a status.
LEMMA ReadType ==
  ASSUME TypeOK, NEW w \in Writers,
         NEW op \in {"touch", "charge"} \cup UserOps \cup ModelOps \cup {"block"},
         ReadMeta(w, op)
  PROVE  copy' \in [Writers -> CopyRecord \cup {NoCopy}] /\ goal' \in Statuses
<1>1. [op |-> op, status |-> goal] \in CopyRecord
  BY DEF CopyRecord, TypeOK
<1> QED
  BY <1>1 DEF ReadMeta, TypeOK

LEMMA WriteType ==
  ASSUME TypeOK, NEW w \in Writers, WriteMeta(w)
  PROVE  copy' \in [Writers -> CopyRecord \cup {NoCopy}] /\ goal' \in Statuses
<1>1. copy[w] \in CopyRecord
  BY DEF TypeOK, WriteMeta
<1>2. copy[w].status \in Statuses
  BY <1>1 DEF CopyRecord
<1>3. copy[w].op \in {"touch", "charge", "set", "pause", "resume", "clear",
                      "complete", "block"}
  BY <1>1, RuntimeAssumption DEF CopyRecord
<1>4. Outcomes(copy[w]) \subseteq Statuses
  BY <1>2, <1>3 DEF Outcomes, Statuses
<1> QED
  BY <1>4 DEF WriteMeta, TypeOK

\* Queues grow by what is put into them.
LEMMA SubmitType ==
  ASSUME TypeOK, NEW m \in Msgs, Submit(m)
  PROVE  /\ inputs' \in Seq(InputRecord)
         /\ steers' \in Seq(ChatMsgs)
         /\ submits' \in [Msgs -> {"new", "queued", "done"}]
<1>1. Input(m, m) \in InputRecord
  BY DEF Input, InputRecord
<1>2. Append(inputs, Input(m, m)) \in Seq(InputRecord)
  BY <1>1 DEF TypeOK
<1>3. m \in ChatMsgs => Append(steers, m) \in Seq(ChatMsgs)
  BY DEF TypeOK
<1> QED
  BY <1>2, <1>3 DEF Submit, TypeOK

LEMMA CloseType ==
  ASSUME TypeOK, NEW t \in TurnIds, TurnClose(t)
  PROVE  /\ inputs' \in Seq(InputRecord)
         /\ reported' \in [CronMsgs -> Nat]
<1> DEFINE stranded == [i \in 1..Len(steers) |-> Input(steers[i], turn[t].provider)]
<1>1. \A i \in DOMAIN steers : Input(steers[i], turn[t].provider) \in InputRecord
  BY DEF TypeOK, TurnRecord, InputRecord, Input, Msgs
<1>2. DOMAIN steers = 1..Len(steers) /\ Len(steers) \in Nat
  BY DEF TypeOK
<1>3. stranded \in Seq(InputRecord)
  <2> DEFINE item(i) == Input(steers[i], turn[t].provider)
  <2>1. \A i \in 1..Len(steers) : item(i) \in InputRecord
    BY <1>1, <1>2
  <2> HIDE DEF item
  <2>2. [i \in 1..Len(steers) |-> item(i)] \in Seq(InputRecord)
    BY <1>2, <2>1
  <2> QED
    BY <2>2 DEF item
<1>4. inputs \o stranded \in Seq(InputRecord)
  <2> HIDE DEF stranded
  <2> QED
    BY <1>3 DEF TypeOK
<1>5. reported' \in [CronMsgs -> Nat]
  BY DEF TurnClose, TypeOK
<1> QED
  BY <1>4, <1>5 DEF TurnClose

LEMMA ContinueType ==
  ASSUME TypeOK, NEW p \in Msgs \cup {TuiProvider}, EnqueueContinuation(p)
  PROVE  inputs' \in Seq(InputRecord)
<1>1. Input(GoalMsg, p) \in InputRecord
  BY DEF Input, InputRecord
<1> QED
  BY <1>1 DEF EnqueueContinuation, TypeOK

LEMMA RemoveType ==
  ASSUME TypeOK, RemoveEntry
  PROVE  /\ running' \in BOOLEAN /\ inputs' \in Seq(InputRecord)
         /\ steers' \in Seq(ChatMsgs) /\ lost' \subseteq Msgs /\ cleared' \in BOOLEAN
<1>1. SeqItems(steers) \subseteq Msgs
  BY DEF TypeOK, SeqItems, Msgs
<1> QED
  BY <1>1, EmptySeq DEF RemoveEntry, TypeOK

\* The initial state is well typed.
LEMMA TypeInit == Init => TypeOK
<1> SUFFICES ASSUME Init PROVE TypeOK
  OBVIOUS
<1>1. inputs \in Seq(InputRecord) /\ steers \in Seq(ChatMsgs)
  BY EmptySeq DEF Init
<1>2. turn \in [TurnIds -> TurnRecord]
  BY FreeType DEF Init
<1> QED
  BY <1>1, <1>2 DEF Init, TypeOK, Statuses

\* Every step keeps the state well typed.
LEMMA TypeStep == TypeOK /\ [Next]_vars => TypeOK'
<1> SUFFICES ASSUME TypeOK, [Next]_vars
             PROVE  TypeOK'
  OBVIOUS
<1> USE DEF queueVars, goalVars, rewindVars, historyVars
<1>1. ASSUME NEW m \in Msgs, Submit(m)
      PROVE  TypeOK'
  BY <1>1, SubmitType DEF Submit, TypeOK
<1>2. ASSUME NEW m \in Msgs, Kick(m)
      PROVE  TypeOK'
  <2>1. turn \in [TurnIds -> TurnRecord]
    BY DEF TypeOK
  <2>2. /\ turn' \in [TurnIds -> TurnRecord]
        /\ inputs' \in Seq(InputRecord)
        /\ running' \in BOOLEAN
    BY <1>2, <2>1, MaybeStartType DEF Kick
  <2> QED
    BY <1>2, <2>2 DEF Kick, TypeOK
<1>3. ASSUME NEW t \in TurnIds, TurnBegin(t)
      PROVE  TypeOK'
  <2>1. turn' \in [TurnIds -> TurnRecord]
    BY <1>3, GotoType DEF TurnBegin, TurnPcs
  <2>2. entered' \in [Msgs -> [input : Nat, steer : Nat]]
    BY <1>3, EnterType DEF TurnBegin
  <2> QED
    BY <1>3, <2>1, <2>2 DEF TurnBegin, TypeOK
<1>4. ASSUME NEW t \in TurnIds, TurnTakeSteers(t)
      PROVE  TypeOK'
  <2>1. [turn[t] EXCEPT !.pc = "taken", !.taken = steers] \in TurnRecord
    BY ProgressType DEF TypeOK, TurnPcs
  <2>2. turn' = [turn EXCEPT ![t] = [turn[t] EXCEPT !.pc = "taken", !.taken = steers]]
    BY <1>4 DEF TurnTakeSteers
  <2>3. turn' \in [TurnIds -> TurnRecord]
    BY <2>1, <2>2 DEF TypeOK
  <2> QED
    BY <1>4, <2>3, EmptySeq DEF TurnTakeSteers, TypeOK
<1>5. ASSUME NEW t \in TurnIds, TurnAppendSteers(t)
      PROVE  TypeOK'
  <2>1. [turn[t] EXCEPT !.pc = "loop", !.taken = <<>>] \in TurnRecord
    BY ProgressType, EmptySeq DEF TypeOK, TurnPcs
  <2>2. turn' = [turn EXCEPT ![t] = [turn[t] EXCEPT !.pc = "loop", !.taken = <<>>]]
    BY <1>5 DEF TurnAppendSteers
  <2>3. turn' \in [TurnIds -> TurnRecord]
    BY <2>1, <2>2 DEF TypeOK
  <2>4. entered' \in [Msgs -> [input : Nat, steer : Nat]]
    BY <1>5, EnterType DEF TurnAppendSteers
  <2> QED
    BY <1>5, <2>3, <2>4 DEF TurnAppendSteers, TypeOK
<1>6. ASSUME NEW t \in TurnIds, TurnAnswer(t)
      PROVE  TypeOK'
  <2>1. turn' \in [TurnIds -> TurnRecord]
    BY <1>6, GotoType DEF TurnAnswer, TurnPcs
  <2> QED
    BY <1>6, <2>1 DEF TurnAnswer, TypeOK
<1>7. ASSUME NEW t \in TurnIds, TurnFails(t)
      PROVE  TypeOK'
  <2> DEFINE failed == [turn[t] EXCEPT !.pc = "charge", !.ok = FALSE, !.taken = <<>>]
  <2>1. failed \in TurnRecord
    BY ProgressType, EmptySeq DEF TypeOK, TurnPcs
  <2>2. turn' = [turn EXCEPT ![t] = failed]
    BY <1>7 DEF TurnFails
  <2>3. turn' \in [TurnIds -> TurnRecord]
    BY <2>1, <2>2 DEF TypeOK
  <2>4. SeqItems(turn[t].taken) \subseteq Msgs
    BY DEF TypeOK, TurnRecord, SeqItems, Msgs
  <2> QED
    BY <1>7, <2>3, <2>4 DEF TurnFails, TypeOK
<1>8. ASSUME NEW t \in TurnIds, TurnReadsMeta(t)
      PROVE  TypeOK'
  <2>1. copy' \in [Writers -> CopyRecord \cup {NoCopy}] /\ goal' \in Statuses
    BY <1>8, ReadType DEF TurnReadsMeta, Writers
  <2> QED
    BY <1>8, <2>1 DEF TurnReadsMeta, TypeOK
<1>9. ASSUME NEW t \in TurnIds, TurnWritesMeta(t)
      PROVE  TypeOK'
  <2>1. copy' \in [Writers -> CopyRecord \cup {NoCopy}] /\ goal' \in Statuses
    BY <1>9, WriteType DEF TurnWritesMeta, Writers
  <2> QED
    BY <1>9, <2>1 DEF TurnWritesMeta, TypeOK
<1>10. ASSUME NEW t \in TurnIds, TurnReadsUsage(t)
       PROVE  TypeOK'
  <2>1. Charged(t) \in TurnPcs
    BY DEF Charged, TurnPcs
  <2>2. CASE goal = "none" /\ Goto(t, Charged(t)) /\ UNCHANGED <<goal, copy>>
    BY <1>10, <2>1, <2>2, GotoType DEF TurnReadsUsage, TypeOK
  <2>3. CASE goal # "none" /\ ReadMeta(t, "charge") /\ UNCHANGED turn
    <3>1. copy' \in [Writers -> CopyRecord \cup {NoCopy}] /\ goal' \in Statuses
      BY <2>3, ReadType DEF Writers
    <3> QED
      BY <1>10, <2>3, <3>1 DEF TurnReadsUsage, TypeOK
  <2> QED
    BY <1>10, <2>2, <2>3 DEF TurnReadsUsage
<1>11. ASSUME NEW t \in TurnIds, TurnWritesUsage(t)
       PROVE  TypeOK'
  <2>1. copy' \in [Writers -> CopyRecord \cup {NoCopy}] /\ goal' \in Statuses
    BY <1>11, WriteType DEF TurnWritesUsage, Writers
  <2>2. turn' \in [TurnIds -> TurnRecord]
    BY <1>11, GotoType DEF TurnWritesUsage, Charged, TurnPcs
  <2> QED
    BY <1>11, <2>1, <2>2 DEF TurnWritesUsage, TypeOK
<1>12. ASSUME NEW t \in TurnIds, TurnReadsGoalToBlock(t)
       PROVE  TypeOK'
  <2>1. CASE goal # "active" /\ Goto(t, "close") /\ UNCHANGED <<goal, copy>>
    <3>1. turn' \in [TurnIds -> TurnRecord]
      BY <2>1, GotoType DEF TurnPcs
    <3> QED
      BY <1>12, <2>1, <3>1 DEF TurnReadsGoalToBlock, TypeOK
  <2>2. CASE goal = "active" /\ ReadMeta(t, "block") /\ UNCHANGED turn
    <3>1. copy' \in [Writers -> CopyRecord \cup {NoCopy}] /\ goal' \in Statuses
      BY <2>2, ReadType DEF Writers
    <3> QED
      BY <1>12, <2>2, <3>1 DEF TurnReadsGoalToBlock, TypeOK
  <2> QED
    BY <1>12, <2>1, <2>2 DEF TurnReadsGoalToBlock
<1>13. ASSUME NEW t \in TurnIds, TurnBlocksGoal(t)
       PROVE  TypeOK'
  <2>1. copy' \in [Writers -> CopyRecord \cup {NoCopy}] /\ goal' \in Statuses
    BY <1>13, WriteType DEF TurnBlocksGoal, Writers
  <2>2. turn' \in [TurnIds -> TurnRecord]
    BY <1>13, GotoType DEF TurnBlocksGoal, TurnPcs
  <2> QED
    BY <1>13, <2>1, <2>2 DEF TurnBlocksGoal, TypeOK
<1>14. ASSUME NEW t \in TurnIds, TurnClose(t)
       PROVE  TypeOK'
  <2>1. turn' \in [TurnIds -> TurnRecord]
    BY <1>14, GotoType DEF TurnClose, TurnPcs
  <2> QED
    BY <1>14, <2>1, CloseType, EmptySeq DEF TurnClose, TypeOK
<1>15. ASSUME NEW t \in TurnIds, TurnReadsGoal(t)
       PROVE  TypeOK'
  <2>1. turn' \in [TurnIds -> TurnRecord]
    BY <1>15, GotoType DEF TurnReadsGoal, TurnPcs
  <2> QED
    BY <1>15, <2>1 DEF TurnReadsGoal, TypeOK
<1>16. ASSUME NEW t \in TurnIds, TurnContinuesGoal(t)
       PROVE  TypeOK'
  <2>1. turn' \in [TurnIds -> TurnRecord]
    BY <1>16, GotoType DEF TurnContinuesGoal, TurnPcs
  <2>2. turn[t].provider \in Msgs \cup {TuiProvider}
    BY DEF TypeOK, TurnRecord
  <2>3. inputs' \in Seq(InputRecord)
    BY <1>16, <2>2, ContinueType DEF TurnContinuesGoal
  <2> QED
    BY <1>16, <2>1, <2>3 DEF TurnContinuesGoal, TypeOK
<1>17. ASSUME NEW t \in TurnIds, TurnStartsNext(t)
       PROVE  TypeOK'
  <2>1. [turn EXCEPT ![t] = Free] \in [TurnIds -> TurnRecord]
    BY FreeType DEF TypeOK
  <2>2. /\ turn' \in [TurnIds -> TurnRecord]
        /\ inputs' \in Seq(InputRecord)
        /\ running' \in BOOLEAN
    BY <1>17, <2>1, MaybeStartType DEF TurnStartsNext
  <2> QED
    BY <1>17, <2>2 DEF TurnStartsNext, TypeOK
<1>18. ASSUME NEW op \in UserOps, UserReads(op)
       PROVE  TypeOK'
  <2>1. copy' \in [Writers -> CopyRecord \cup {NoCopy}] /\ goal' \in Statuses
    BY <1>18, ReadType DEF UserReads, Writers
  <2> QED
    BY <1>18, <2>1 DEF UserReads, TypeOK
<1>19. CASE UserWrites
  <2>1. copy' \in [Writers -> CopyRecord \cup {NoCopy}] /\ goal' \in Statuses
    BY <1>19, WriteType DEF UserWrites, Writers
  <2> QED
    BY <1>19, <2>1 DEF UserWrites, TypeOK
<1>20. CASE UserChecks
  BY <1>20 DEF UserChecks, TypeOK
<1>21. CASE UserEnqueues
  <2>1. inputs' \in Seq(InputRecord)
    BY <1>21, ContinueType DEF UserEnqueues
  <2> QED
    BY <1>21, <2>1 DEF UserEnqueues, TypeOK
<1>22. CASE UserStarts
  <2>1. turn \in [TurnIds -> TurnRecord]
    BY DEF TypeOK
  <2>2. /\ turn' \in [TurnIds -> TurnRecord]
        /\ inputs' \in Seq(InputRecord)
        /\ running' \in BOOLEAN
    BY <1>22, <2>1, MaybeStartType DEF UserStarts
  <2> QED
    BY <1>22, <2>2 DEF UserStarts, TypeOK
<1>23. CASE Clear
  BY <1>23, RemoveType DEF Clear, TypeOK
<1>24. CASE RewindCheck
  BY <1>24 DEF RewindCheck, TypeOK
<1>25. CASE Rewind
  BY <1>25 DEF Rewind, TypeOK
<1>26. CASE RewindClear
  BY <1>26, RemoveType DEF RewindClear, TypeOK
<1>27. CASE UNCHANGED vars
  BY <1>27 DEF vars, TypeOK
<1> QED
  BY <1>1, <1>2, <1>3, <1>4, <1>5, <1>6, <1>7, <1>8, <1>9, <1>10, <1>11, <1>12, <1>13,
     <1>14, <1>15, <1>16, <1>17, <1>18, <1>19, <1>20, <1>21, <1>22, <1>23, <1>24, <1>25,
     <1>26, <1>27 DEF Next, MsgNext, TurnNext, UserNext, RewindNext

-----------------------------------------------------------------------------
\* A turn that is set to another progress within its active part, or within
\* its tail, leaves who is active as it was.
LEMMA ActiveAfterGoto ==
  ASSUME TypeOK, NEW t \in TurnIds, NEW pc, Goto(t, pc)
  PROVE  /\ Active(t)' <=> pc \in {"starting", "loop", "taken", "charge", "block", "close"}
         /\ \A s \in TurnIds \ {t} : Active(s)' <=> Active(s)
  BY DEF Goto, Active, TypeOK, TurnRecord

\* Starting a turn while none is active keeps turns apart.
LEMMA StartKeepsApart ==
  ASSUME TypeOK, TurnsOverlapOnlyAfterClear, cleared' = cleared,
         NEW after \in [TurnIds -> TurnRecord],
         \A t \in TurnIds : after[t] = turn[t] \/ (~Active(t) /\ after[t] = Free),
         MaybeStartNext(after)
  PROVE  TurnsOverlapOnlyAfterClear'
<1> SUFFICES ASSUME ~cleared
             PROVE  TurnsOverlapOnlyAfterClear'
  BY DEF TurnsOverlapOnlyAfterClear
<1>1. \A t \in TurnIds :
        Active(t) <=> after[t].pc \in {"starting", "loop", "taken", "charge", "block", "close"}
  BY DEF Active, Free
<1>2. CASE turn' = after /\ running' = running
  BY <1>1, <1>2 DEF TurnsOverlapOnlyAfterClear, Active
<1>3. CASE ~running /\ StartTurn(after)
  <2>1. \A t \in TurnIds : ~Active(t)
    BY <1>3 DEF TurnsOverlapOnlyAfterClear
  <2>2. PICK n \in TurnIds :
          turn' = [after EXCEPT ![n] = [Free EXCEPT !.pc = "starting",
                                                    !.msg = Head(inputs).msg,
                                                    !.provider = Head(inputs).provider]]
    BY <1>3 DEF StartTurn
  <2>3. Active(n)' /\ \A t \in TurnIds \ {n} : ~Active(t)'
    BY <1>1, <2>1, <2>2 DEF Active, Free
  <2> QED
    BY <1>3, <2>3 DEF TurnsOverlapOnlyAfterClear, StartTurn
<1> QED
  BY <1>2, <1>3 DEF MaybeStartNext

\* Removing the session's entry either finds no turn or is remembered.
LEMMA RemoveKeepsApart ==
  ASSUME TypeOK, TurnsOverlapOnlyAfterClear, RemoveEntry, turn' = turn
  PROVE  TurnsOverlapOnlyAfterClear'
  BY DEF TurnsOverlapOnlyAfterClear, RemoveEntry, Active, TypeOK

\* The turns of a session stay apart in every step.
LEMMA ApartStep ==
  TypeOK /\ TurnsOverlapOnlyAfterClear /\ [Next]_vars => TurnsOverlapOnlyAfterClear'
<1> SUFFICES ASSUME TypeOK, TurnsOverlapOnlyAfterClear, [Next]_vars
             PROVE  TurnsOverlapOnlyAfterClear'
  OBVIOUS
<1> USE DEF queueVars, goalVars, rewindVars, historyVars
\* Steps that leave the turns and the flag alone.
<1>1. ASSUME turn' = turn, running' = running, cleared' = cleared
      PROVE  TurnsOverlapOnlyAfterClear'
  BY <1>1 DEF TurnsOverlapOnlyAfterClear, Active
\* Steps from one point to another, both within the turn or both after it.
<1>2. ASSUME NEW t \in TurnIds, Active(t)' <=> Active(t),
             \A s \in TurnIds \ {t} : Active(s)' <=> Active(s),
             running' = running, cleared' = cleared
      PROVE  TurnsOverlapOnlyAfterClear'
  BY <1>2 DEF TurnsOverlapOnlyAfterClear
<1>3. ASSUME NEW t \in TurnIds, NEW pc, Goto(t, pc),
             pc \in {"loop", "charge", "block", "close"}, Active(t),
             running' = running, cleared' = cleared
      PROVE  TurnsOverlapOnlyAfterClear'
  BY <1>2, <1>3, ActiveAfterGoto
<1>4. ASSUME NEW t \in TurnIds, NEW pc, Goto(t, pc),
             pc \in {"continue", "next"}, ~Active(t),
             running' = running, cleared' = cleared
      PROVE  TurnsOverlapOnlyAfterClear'
  BY <1>2, <1>4, ActiveAfterGoto
<1>5. ASSUME NEW m \in Msgs, Submit(m) \/ Kick(m)
      PROVE  TurnsOverlapOnlyAfterClear'
  <2>1. CASE Submit(m)
    BY <1>1, <2>1 DEF Submit
  <2>2. CASE Kick(m)
    <3>1. turn \in [TurnIds -> TurnRecord]
      BY DEF TypeOK
    <3> QED
      BY <2>2, <3>1, StartKeepsApart DEF Kick
  <2> QED
    BY <1>5, <2>1, <2>2
<1>6. ASSUME NEW t \in TurnIds, TurnNext(t)
      PROVE  TurnsOverlapOnlyAfterClear'
  <2>1. CASE TurnBegin(t)
    BY <1>3, <2>1 DEF TurnBegin, Active
  <2>2. CASE TurnTakeSteers(t)
    <3>1. Active(t) /\ Active(t)' /\ \A s \in TurnIds \ {t} : Active(s)' <=> Active(s)
      BY <2>2 DEF TurnTakeSteers, Active, TypeOK, TurnRecord
    <3> QED
      BY <1>2, <2>2, <3>1 DEF TurnTakeSteers
  <2>3. CASE TurnAppendSteers(t)
    <3>1. Active(t) /\ Active(t)' /\ \A s \in TurnIds \ {t} : Active(s)' <=> Active(s)
      BY <2>3 DEF TurnAppendSteers, Active, TypeOK, TurnRecord
    <3> QED
      BY <1>2, <2>3, <3>1 DEF TurnAppendSteers
  <2>4. CASE TurnAnswer(t)
    BY <1>3, <2>4 DEF TurnAnswer, Active
  <2>5. CASE TurnFails(t)
    <3>1. Active(t) /\ Active(t)' /\ \A s \in TurnIds \ {t} : Active(s)' <=> Active(s)
      BY <2>5 DEF TurnFails, Active, TypeOK, TurnRecord
    <3> QED
      BY <1>2, <2>5, <3>1 DEF TurnFails
  <2>6. CASE TurnReadsMeta(t) \/ TurnWritesMeta(t)
    BY <1>1, <2>6 DEF TurnReadsMeta, TurnWritesMeta
  <2>7. CASE TurnReadsUsage(t)
    BY <1>1, <1>3, <2>7 DEF TurnReadsUsage, Active, Charged
  <2>8. CASE TurnWritesUsage(t)
    BY <1>3, <2>8 DEF TurnWritesUsage, Active, Charged
  <2>9. CASE TurnReadsGoalToBlock(t)
    BY <1>1, <1>3, <2>9 DEF TurnReadsGoalToBlock, Active
  <2>10. CASE TurnBlocksGoal(t)
    BY <1>3, <2>10 DEF TurnBlocksGoal, Active
  <2>11. CASE TurnClose(t)
    <3>1. Active(t) /\ ~Active(t)' /\ \A s \in TurnIds \ {t} : Active(s)' <=> Active(s)
      BY <2>11, ActiveAfterGoto DEF TurnClose, Active
    <3>2. running' = FALSE /\ cleared' = cleared
      BY <2>11 DEF TurnClose
    <3> QED
      BY <3>1, <3>2 DEF TurnsOverlapOnlyAfterClear
  <2>12. CASE TurnReadsGoal(t)
    BY <1>4, <2>12 DEF TurnReadsGoal, Active
  <2>13. CASE TurnContinuesGoal(t)
    BY <1>4, <2>13 DEF TurnContinuesGoal, Active
  <2>14. CASE TurnStartsNext(t)
    <3> DEFINE after == [turn EXCEPT ![t] = Free]
    <3>1. after \in [TurnIds -> TurnRecord]
      BY FreeType DEF TypeOK
    <3>2. \A s \in TurnIds : after[s] = turn[s] \/ (~Active(s) /\ after[s] = Free)
      BY <2>14 DEF TurnStartsNext, Active, TypeOK
    <3>3. MaybeStartNext(after) /\ cleared' = cleared
      BY <2>14 DEF TurnStartsNext
    <3> HIDE DEF after
    <3> QED
      BY <3>1, <3>2, <3>3, StartKeepsApart
  <2> QED
    BY <1>6, <2>1, <2>2, <2>3, <2>4, <2>5, <2>6, <2>7, <2>8, <2>9, <2>10, <2>11,
       <2>12, <2>13, <2>14 DEF TurnNext
<1>7. CASE UserNext
  <2>1. CASE UserStarts
    <3>1. turn \in [TurnIds -> TurnRecord]
      BY DEF TypeOK
    <3> QED
      BY <2>1, <3>1, StartKeepsApart DEF UserStarts
  <2>2. CASE (\E op \in UserOps : UserReads(op)) \/ UserWrites \/ UserChecks \/ UserEnqueues
    BY <1>1, <2>2 DEF UserReads, UserWrites, UserChecks, UserEnqueues
  <2> QED
    BY <1>7, <2>1, <2>2 DEF UserNext
<1>8. CASE Clear
  BY <1>8, RemoveKeepsApart DEF Clear
<1>9. CASE RewindNext
  BY <1>1, <1>9, RemoveKeepsApart DEF RewindNext, RewindCheck, Rewind, RewindClear
<1>10. CASE UNCHANGED vars
  BY <1>1, <1>10 DEF vars
<1> QED
  BY <1>5, <1>6, <1>7, <1>8, <1>9, <1>10 DEF Next, MsgNext

-----------------------------------------------------------------------------
InputsOwn(queue) ==
  \A i \in DOMAIN queue : queue[i].msg \in CronMsgs => queue[i].provider = queue[i].msg

TurnsOwn(turns) ==
  \A t \in TurnIds : turns[t].msg \in CronMsgs => turns[t].provider = turns[t].msg

NeverSteer(counts) == \A m \in CronMsgs : counts[m].steer = 0

\* The three parts are the invariant.
LEMMA OwnParts ==
  /\ CronKeepsProvider <=> InputsOwn(inputs) /\ TurnsOwn(turn) /\ NeverSteer(entered)
  /\ CronKeepsProvider' <=> InputsOwn(inputs') /\ TurnsOwn(turn') /\ NeverSteer(entered')
  BY DEF CronKeepsProvider, CronRunsApart, InputsOwn, TurnsOwn, NeverSteer

\* A queue that grows by an input with its own provider, or by one that is no
\* scheduled task, stays in order.
LEMMA AppendOwn ==
  ASSUME NEW q \in Seq(InputRecord), InputsOwn(q), NEW i \in InputRecord,
         i.msg \in CronMsgs => i.provider = i.msg
  PROVE  InputsOwn(Append(q, i))
  BY AppendProperties DEF InputsOwn

\* Messages with a kept progress keep their provider.
LEMMA GotoOwn ==
  ASSUME TypeOK, TurnsOwn(turn), NEW t \in TurnIds, NEW pc, Goto(t, pc)
  PROVE  TurnsOwn(turn')
  BY DEF Goto, TurnsOwn, TypeOK, TurnRecord

\* A started turn has the message and the provider of the input it took.
LEMMA StartOwn ==
  ASSUME TypeOK, InputsOwn(inputs), NEW after \in [TurnIds -> TurnRecord],
         TurnsOwn(after), MaybeStartNext(after)
  PROVE  InputsOwn(inputs') /\ TurnsOwn(turn')
<1>1. CASE turn' = after /\ inputs' = inputs
  BY <1>1
<1>2. CASE StartTurn(after)
  <2>1. inputs \in Seq(InputRecord) /\ inputs # <<>>
    BY <1>2 DEF TypeOK, StartTurn
  <2>2. Head(inputs) = inputs[1] /\ 1 \in DOMAIN inputs
    BY <2>1
  <2>3. \A i \in DOMAIN Tail(inputs) : Tail(inputs)[i] = inputs[i + 1] /\ i + 1 \in DOMAIN inputs
    BY <2>1
  <2>4. Head(inputs).msg \in CronMsgs => Head(inputs).provider = Head(inputs).msg
    BY <2>2 DEF InputsOwn
  <2>5. InputsOwn(Tail(inputs))
    BY <2>3 DEF InputsOwn
  <2>6. PICK n \in TurnIds :
          turn' = [after EXCEPT ![n] = [Free EXCEPT !.pc = "starting",
                                                    !.msg = Head(inputs).msg,
                                                    !.provider = Head(inputs).provider]]
    BY <1>2 DEF StartTurn
  <2>7. turn'[n].msg = Head(inputs).msg /\ turn'[n].provider = Head(inputs).provider
    BY <2>6 DEF Free
  <2>8. \A t \in TurnIds \ {n} : turn'[t] = after[t]
    BY <2>6
  <2>9. TurnsOwn(turn')
    BY <2>4, <2>7, <2>8 DEF TurnsOwn
  <2> QED
    BY <1>2, <2>5, <2>9 DEF StartTurn
<1> QED
  BY <1>1, <1>2 DEF MaybeStartNext

\* The steers that come too late are chat messages.
LEMMA CloseOwn ==
  ASSUME TypeOK, InputsOwn(inputs), NEW t \in TurnIds, TurnClose(t)
  PROVE  InputsOwn(inputs')
<1> DEFINE stranded == [i \in 1..Len(steers) |-> Input(steers[i], turn[t].provider)]
<1>1. \A i \in 1..Len(steers) : steers[i] \in ChatMsgs
  BY DEF TypeOK
<1>2. \A i \in DOMAIN stranded : stranded[i].msg \notin CronMsgs
  BY <1>1, RuntimeAssumption DEF Input
<1>3. stranded \in Seq(InputRecord)
  <2> DEFINE item(i) == Input(steers[i], turn[t].provider)
  <2>1. \A i \in 1..Len(steers) : item(i) \in InputRecord
    BY <1>1 DEF TypeOK, TurnRecord, InputRecord, Input, Msgs
  <2>2. Len(steers) \in Nat
    BY DEF TypeOK
  <2> HIDE DEF item
  <2>3. [i \in 1..Len(steers) |-> item(i)] \in Seq(InputRecord)
    BY <2>1, <2>2
  <2> QED
    BY <2>3 DEF item
<1>4. inputs' = inputs \o stranded
  BY DEF TurnClose
<1> HIDE DEF stranded
<1>5. /\ DOMAIN stranded = 1..Len(stranded) /\ Len(stranded) \in Nat
      /\ DOMAIN inputs = 1..Len(inputs) /\ Len(inputs) \in Nat
  BY <1>3 DEF TypeOK
<1>6. /\ DOMAIN inputs' = 1..(Len(inputs) + Len(stranded))
      /\ \A i \in 1..(Len(inputs) + Len(stranded)) :
           inputs'[i] = IF i <= Len(inputs) THEN inputs[i] ELSE stranded[i - Len(inputs)]
  BY <1>3, <1>4, ConcatProperties, LenProperties DEF TypeOK
<1>7. ASSUME NEW i \in 1..(Len(inputs) + Len(stranded)), inputs'[i].msg \in CronMsgs
      PROVE  inputs'[i].provider = inputs'[i].msg
  <2>1. CASE i <= Len(inputs)
    BY <1>5, <1>6, <1>7, <2>1 DEF InputsOwn
  <2>2. CASE ~(i <= Len(inputs))
    <3>1. i - Len(inputs) \in DOMAIN stranded
      BY <1>5, <2>2
    <3> QED
      BY <1>2, <1>6, <1>7, <2>2, <3>1
  <2> QED
    BY <2>1, <2>2
<1> QED
  BY <1>6, <1>7 DEF InputsOwn

\* A goal continuation is no scheduled task.
LEMMA ContinueOwn ==
  ASSUME TypeOK, InputsOwn(inputs), NEW p \in Msgs \cup {TuiProvider}, EnqueueContinuation(p)
  PROVE  InputsOwn(inputs')
<1>1. Input(GoalMsg, p) \in InputRecord /\ Input(GoalMsg, p).msg \notin CronMsgs
  BY RuntimeAssumption DEF Input, InputRecord, Msgs
<1> QED
  BY <1>1, AppendOwn DEF EnqueueContinuation, TypeOK

\* Scheduled tasks keep apart in every step.
LEMMA OwnStep == TypeOK /\ CronKeepsProvider /\ [Next]_vars => CronKeepsProvider'
<1> SUFFICES ASSUME TypeOK, [Next]_vars,
                    InputsOwn(inputs), TurnsOwn(turn), NeverSteer(entered)
             PROVE  InputsOwn(inputs') /\ TurnsOwn(turn') /\ NeverSteer(entered')
  BY OwnParts
<1> USE DEF queueVars, goalVars, rewindVars, historyVars
<1>1. ASSUME NEW m \in Msgs, Submit(m)
      PROVE  InputsOwn(inputs') /\ TurnsOwn(turn') /\ NeverSteer(entered')
  <2>1. Input(m, m) \in InputRecord /\ Input(m, m).provider = Input(m, m).msg
    BY DEF Input, InputRecord
  <2>2. InputsOwn(Append(inputs, Input(m, m)))
    BY <2>1, AppendOwn DEF TypeOK
  <2> QED
    BY <1>1, <2>2 DEF Submit
<1>2. ASSUME NEW m \in Msgs, Kick(m)
      PROVE  InputsOwn(inputs') /\ TurnsOwn(turn') /\ NeverSteer(entered')
  <2>1. turn \in [TurnIds -> TurnRecord]
    BY DEF TypeOK
  <2> QED
    BY <1>2, <2>1, StartOwn DEF Kick
<1>3. ASSUME NEW t \in TurnIds, TurnNext(t)
      PROVE  InputsOwn(inputs') /\ TurnsOwn(turn') /\ NeverSteer(entered')
  <2>1. CASE TurnBegin(t)
    <3>1. NeverSteer(entered')
      BY <2>1 DEF TurnBegin, Enter, NeverSteer, TypeOK, Msgs
    <3> QED
      BY <2>1, <3>1, GotoOwn DEF TurnBegin
  <2>2. CASE TurnTakeSteers(t)
    <3>1. TurnsOwn(turn')
      BY <2>2 DEF TurnTakeSteers, TurnsOwn, TypeOK, TurnRecord
    <3> QED
      BY <2>2, <3>1 DEF TurnTakeSteers
  <2>3. CASE TurnAppendSteers(t)
    <3>1. TurnsOwn(turn')
      BY <2>3 DEF TurnAppendSteers, TurnsOwn, TypeOK, TurnRecord
    <3>2. turn[t].taken \in Seq(ChatMsgs)
      BY DEF TypeOK, TurnRecord
    <3>3. SeqItems(turn[t].taken) \subseteq ChatMsgs
      BY <3>2 DEF SeqItems
    <3>4. \A m \in CronMsgs : entered'[m] = entered[m]
      BY <2>3, <3>3, RuntimeAssumption DEF TurnAppendSteers, Enter, Msgs
    <3> QED
      BY <2>3, <3>1, <3>4 DEF TurnAppendSteers, NeverSteer
  <2>4. CASE TurnAnswer(t)
    BY <2>4, GotoOwn DEF TurnAnswer
  <2>5. CASE TurnFails(t)
    <3>1. TurnsOwn(turn')
      BY <2>5 DEF TurnFails, TurnsOwn, TypeOK, TurnRecord
    <3> QED
      BY <2>5, <3>1 DEF TurnFails
  <2>6. CASE TurnReadsMeta(t) \/ TurnWritesMeta(t)
    BY <2>6 DEF TurnReadsMeta, TurnWritesMeta
  <2>7. CASE TurnReadsUsage(t)
    BY <2>7, GotoOwn DEF TurnReadsUsage
  <2>8. CASE TurnWritesUsage(t)
    BY <2>8, GotoOwn DEF TurnWritesUsage
  <2>9. CASE TurnReadsGoalToBlock(t)
    BY <2>9, GotoOwn DEF TurnReadsGoalToBlock
  <2>10. CASE TurnBlocksGoal(t)
    BY <2>10, GotoOwn DEF TurnBlocksGoal
  <2>11. CASE TurnClose(t)
    <3>1. TurnsOwn(turn')
      BY <2>11, GotoOwn DEF TurnClose
    <3> QED
      BY <2>11, <3>1, CloseOwn DEF TurnClose
  <2>12. CASE TurnReadsGoal(t)
    BY <2>12, GotoOwn DEF TurnReadsGoal
  <2>13. CASE TurnContinuesGoal(t)
    <3>1. turn[t].provider \in Msgs \cup {TuiProvider}
      BY DEF TypeOK, TurnRecord
    <3> QED
      BY <2>13, <3>1, GotoOwn, ContinueOwn DEF TurnContinuesGoal
  <2>14. CASE TurnStartsNext(t)
    <3> DEFINE after == [turn EXCEPT ![t] = Free]
    <3>1. after \in [TurnIds -> TurnRecord]
      BY FreeType DEF TypeOK
    <3>2. TurnsOwn(after)
      BY RuntimeAssumption DEF TurnsOwn, Free, TypeOK, Msgs
    <3>3. MaybeStartNext(after) /\ entered' = entered
      BY <2>14 DEF TurnStartsNext
    <3> HIDE DEF after
    <3> QED
      BY <3>1, <3>2, <3>3, StartOwn
  <2> QED
    BY <1>3, <2>1, <2>2, <2>3, <2>4, <2>5, <2>6, <2>7, <2>8, <2>9, <2>10, <2>11,
       <2>12, <2>13, <2>14 DEF TurnNext
<1>4. CASE UserNext
  <2>1. CASE UserStarts
    <3>1. turn \in [TurnIds -> TurnRecord]
      BY DEF TypeOK
    <3> QED
      BY <2>1, <3>1, StartOwn DEF UserStarts
  <2>2. CASE UserEnqueues
    BY <2>2, ContinueOwn DEF UserEnqueues
  <2>3. CASE (\E op \in UserOps : UserReads(op)) \/ UserWrites \/ UserChecks
    BY <2>3 DEF UserReads, UserWrites, UserChecks
  <2> QED
    BY <1>4, <2>1, <2>2, <2>3 DEF UserNext
<1>5. CASE Clear \/ RewindNext
  BY <1>5 DEF Clear, RewindNext, RewindCheck, Rewind, RewindClear, RemoveEntry, InputsOwn
<1>6. CASE UNCHANGED vars
  BY <1>6 DEF vars
<1> QED
  BY <1>1, <1>2, <1>3, <1>4, <1>5, <1>6 DEF Next, MsgNext

-----------------------------------------------------------------------------
\* The three parts together hold from the start.
LEMMA InvInit == Init => IInv
<1> SUFFICES ASSUME Init PROVE IInv
  OBVIOUS
<1>1. TypeOK
  BY TypeInit
<1>2. TurnsOverlapOnlyAfterClear
  BY DEF Init, TurnsOverlapOnlyAfterClear, Active, Free
<1>3. CronKeepsProvider
  BY RuntimeAssumption DEF Init, CronKeepsProvider, CronRunsApart, Free, Msgs
<1> QED
  BY <1>1, <1>2, <1>3 DEF IInv

\* The three parts together hold in every reachable state.
LEMMA Invariance == Spec => []IInv
<1>1. IInv /\ [Next]_vars => IInv'
  BY TypeStep, ApartStep, OwnStep DEF IInv
<1> QED
  BY InvInit, <1>1, PTL DEF Spec

\* The session's queues, turns and goal stay well typed in every behaviour:
\* above all, only chat messages ever wait as steers.
THEOREM TypeCorrect == Spec => []TypeOK
<1>1. IInv => TypeOK
  BY DEF IInv
<1> QED
  BY Invariance, <1>1, PTL

\* Submitters, ending turns, goal commands and rewinds may start turns at the
\* same time: two turns of a session run together only after a clear removed
\* the session's entry under a running turn.
THEOREM OverlapNeedsClear == Spec => []TurnsOverlapOnlyAfterClear
<1>1. IInv => TurnsOverlapOnlyAfterClear
  BY DEF IInv
<1> QED
  BY Invariance, <1>1, PTL

\* A scheduled task never steers a turn, and the turn it starts asks its own
\* channel for approvals, whatever was stranded, queued or cleared before it.
THEOREM CronApart == Spec => []CronRunsApart
<1>1. IInv => CronRunsApart
  BY DEF IInv, CronKeepsProvider
<1> QED
  BY Invariance, <1>1, PTL

-----------------------------------------------------------------------------
(***************************************************************************)
(* Each message in one place.  The property counts occurrences; the        *)
(* invariant names the places a message can be in instead, and says that   *)
(* no place has it twice, no two places have it, and some place has it     *)
(* once it is submitted.  No fact about clears or turns running together   *)
(* is needed: even overlapping turns never share a message.                *)
(***************************************************************************)
\* Where a message can be: in the two queues, with a turn, in the log, or lost.
Queued(q, m)   == \E i \in DOMAIN q : q[i].msg = m
Among(s, m)    == \E i \in DOMAIN s : s[i] = m
Held(t, m)     == turn[t].pc = "starting" /\ turn[t].msg = m
Taken(t, m)    == Among(turn[t].taken, m)
Count(m)       == entered[m].input + entered[m].steer

\* No queue has a message twice.
DistinctInputs(q) ==
  \A i, j \in DOMAIN q : q[i].msg = q[j].msg /\ q[i].msg \in Msgs => i = j
Distinct(s) == \A i, j \in DOMAIN s : s[i] = s[j] => i = j

Waits(m)     == Queued(inputs, m) \/ Among(steers, m)
InTurn(m)    == \E t \in TurnIds : Held(t, m) \/ Taken(t, m)
Somewhere(m) == Waits(m) \/ InTurn(m) \/ Count(m) = 1 \/ m \in lost

\* No two places have the same message.
Apart(m) ==
  /\ ~(Queued(inputs, m) /\ Among(steers, m))
  /\ \A t \in TurnIds : ~(Held(t, m) /\ Taken(t, m))
  /\ \A t, u \in TurnIds : (Held(t, m) \/ Taken(t, m)) /\ (Held(u, m) \/ Taken(u, m)) => t = u
  /\ Waits(m) => ~InTurn(m) /\ Count(m) = 0 /\ m \notin lost
  /\ InTurn(m) => Count(m) = 0 /\ m \notin lost
  /\ Count(m) \in {0, 1}
  /\ Count(m) = 1 => m \notin lost

QueuesInv ==
  /\ DistinctInputs(inputs) /\ Distinct(steers)
  /\ \A t \in TurnIds : /\ Distinct(turn[t].taken)
                        /\ turn[t].pc # "taken" => turn[t].taken = <<>>

PlaceInv ==
  /\ QueuesInv
  /\ \A m \in Msgs : Apart(m) /\ (submits[m] # "new" <=> Somewhere(m))

-----------------------------------------------------------------------------
\* A queue that grows at its end.
LEMMA AppendInputs ==
  ASSUME NEW q \in Seq(InputRecord), NEW x \in InputRecord
  PROVE  /\ \A m \in Msgs : Queued(Append(q, x), m) <=> Queued(q, m) \/ x.msg = m
         /\ DistinctInputs(q) /\ (x.msg \in Msgs => ~Queued(q, x.msg))
              => DistinctInputs(Append(q, x))
<1> DEFINE r == Append(q, x)
<1>1. /\ DOMAIN q = 1..Len(q) /\ Len(q) \in Nat
      /\ DOMAIN r = 1..(Len(q) + 1)
      /\ \A i \in 1..Len(q) : r[i] = q[i]
      /\ r[Len(q) + 1] = x
  BY AppendProperties, LenProperties
<1> HIDE DEF r
<1>2. \A i \in DOMAIN r : (i \in DOMAIN q /\ r[i] = q[i]) \/ (i = Len(q) + 1 /\ r[i] = x)
  BY <1>1
<1>3. \A i \in DOMAIN q : i \in DOMAIN r /\ r[i] = q[i]
  BY <1>1
<1>4. Len(q) + 1 \in DOMAIN r /\ r[Len(q) + 1] = x
  BY <1>1
<1>5. \A m \in Msgs : Queued(r, m) <=> Queued(q, m) \/ x.msg = m
  BY <1>2, <1>3, <1>4 DEF Queued
<1>6. DistinctInputs(q) /\ (x.msg \in Msgs => ~Queued(q, x.msg)) => DistinctInputs(r)
  BY <1>2 DEF Queued, DistinctInputs
<1> QED
  BY <1>5, <1>6 DEF r

LEMMA AppendSteer ==
  ASSUME NEW s \in Seq(ChatMsgs), NEW x \in ChatMsgs
  PROVE  /\ \A m \in Msgs : Among(Append(s, x), m) <=> Among(s, m) \/ x = m
         /\ Distinct(s) /\ ~Among(s, x) => Distinct(Append(s, x))
<1> DEFINE r == Append(s, x)
<1>1. /\ DOMAIN s = 1..Len(s) /\ Len(s) \in Nat
      /\ DOMAIN r = 1..(Len(s) + 1)
      /\ \A i \in 1..Len(s) : r[i] = s[i]
      /\ r[Len(s) + 1] = x
  BY AppendProperties, LenProperties
<1> HIDE DEF r
<1>2. \A i \in DOMAIN r : (i \in DOMAIN s /\ r[i] = s[i]) \/ (i = Len(s) + 1 /\ r[i] = x)
  BY <1>1
<1>3. \A i \in DOMAIN s : i \in DOMAIN r /\ r[i] = s[i]
  BY <1>1
<1>4. Len(s) + 1 \in DOMAIN r /\ r[Len(s) + 1] = x
  BY <1>1
<1>5. \A m \in Msgs : Among(r, m) <=> Among(s, m) \/ x = m
  BY <1>2, <1>3, <1>4 DEF Among
<1>6. Distinct(s) /\ ~Among(s, x) => Distinct(r)
  BY <1>2 DEF Among, Distinct
<1> QED
  BY <1>5, <1>6 DEF r

\* A queue whose first input is taken.
LEMMA TakeInput ==
  ASSUME NEW q \in Seq(InputRecord), q # <<>>
  PROVE  /\ \A m \in Msgs : Queued(q, m) <=> Queued(Tail(q), m) \/ Head(q).msg = m
         /\ DistinctInputs(q) =>
              DistinctInputs(Tail(q)) /\ (Head(q).msg \in Msgs => ~Queued(Tail(q), Head(q).msg))
<1> DEFINE r == Tail(q)
<1>1. /\ DOMAIN q = 1..Len(q) /\ Len(q) \in Nat /\ Len(q) >= 1
      /\ DOMAIN r = 1..(Len(q) - 1)
      /\ \A i \in 1..(Len(q) - 1) : r[i] = q[i + 1]
      /\ Head(q) = q[1]
  BY HeadTailProperties, LenProperties, EmptySeq
<1> HIDE DEF r
<1>2. \A i \in DOMAIN r : i + 1 \in DOMAIN q /\ r[i] = q[i + 1] /\ i \in Nat /\ i # 0
  BY <1>1
<1>3. \A i \in DOMAIN q : i = 1 \/ (i - 1 \in DOMAIN r /\ r[i - 1] = q[i])
  <2> TAKE i \in DOMAIN q
  <2>1. i \in 1..Len(q)
    BY <1>1
  <2>2. ASSUME i # 1 PROVE i - 1 \in 1..(Len(q) - 1) /\ (i - 1) + 1 = i
    BY <1>1, <2>1, <2>2
  <2> QED
    BY <1>1, <2>2
<1>4. 1 \in DOMAIN q /\ q[1] = Head(q)
  BY <1>1
<1>5. \A m \in Msgs : Queued(q, m) <=> Queued(r, m) \/ Head(q).msg = m
  <2> TAKE m \in Msgs
  <2>1. Queued(q, m) => Queued(r, m) \/ Head(q).msg = m
    BY <1>3, <1>4 DEF Queued
  <2>2. Queued(r, m) => Queued(q, m)
    BY <1>2 DEF Queued
  <2>3. Head(q).msg = m => Queued(q, m)
    BY <1>4 DEF Queued
  <2> QED
    BY <2>1, <2>2, <2>3
<1>6. ASSUME DistinctInputs(q)
      PROVE  DistinctInputs(r) /\ (Head(q).msg \in Msgs => ~Queued(r, Head(q).msg))
  <2>1. ASSUME NEW i \in DOMAIN r, NEW j \in DOMAIN r,
               r[i].msg = r[j].msg, r[i].msg \in Msgs
        PROVE  i = j
    <3>1. i + 1 = j + 1
      BY <1>2, <1>6, <2>1 DEF DistinctInputs
    <3> QED
      BY <1>2, <3>1
  <2>2. ASSUME Head(q).msg \in Msgs, NEW i \in DOMAIN r, r[i].msg = Head(q).msg
        PROVE  FALSE
    <3>1. i + 1 = 1
      BY <1>2, <1>4, <1>6, <2>2 DEF DistinctInputs
    <3> QED
      BY <1>2, <3>1
  <2> QED
    BY <2>1, <2>2 DEF DistinctInputs, Queued
<1> QED
  BY <1>5, <1>6 DEF r

\* A queue that gets the steers that came too late.
LEMMA JoinInputs ==
  ASSUME NEW q \in Seq(InputRecord), NEW s \in Seq(ChatMsgs),
         NEW p \in Msgs \cup {TuiProvider}
  PROVE  LET r == q \o [i \in 1..Len(s) |-> Input(s[i], p)]
         IN /\ \A m \in Msgs : Queued(r, m) <=> Queued(q, m) \/ Among(s, m)
            /\ /\ DistinctInputs(q) /\ Distinct(s)
               /\ \A m \in Msgs : ~(Queued(q, m) /\ Among(s, m))
               => DistinctInputs(r)
<1> DEFINE late == [i \in 1..Len(s) |-> Input(s[i], p)]
           r == q \o late
<1>1. /\ DOMAIN q = 1..Len(q) /\ Len(q) \in Nat
      /\ DOMAIN s = 1..Len(s) /\ Len(s) \in Nat
      /\ \A i \in 1..Len(s) : s[i] \in Msgs
  BY DEF Msgs
<1>2. late \in Seq(InputRecord) /\ Len(late) = Len(s)
  <2> DEFINE item(i) == Input(s[i], p)
  <2>1. \A i \in 1..Len(s) : item(i) \in InputRecord
    BY <1>1 DEF InputRecord, Input
  <2> HIDE DEF item
  <2>2. [i \in 1..Len(s) |-> item(i)] \in Seq(InputRecord)
    BY <1>1, <2>1
  <2>3. Len([i \in 1..Len(s) |-> item(i)]) = Len(s)
    BY <1>1, <2>2
  <2> QED
    BY <2>2, <2>3 DEF item
<1>3. \A i \in 1..Len(s) : late[i].msg = s[i]
  BY DEF Input
<1> HIDE DEF late
<1>4. /\ DOMAIN r = 1..(Len(q) + Len(s))
      /\ \A i \in 1..(Len(q) + Len(s)) :
           r[i] = IF i <= Len(q) THEN q[i] ELSE late[i - Len(q)]
  <2>1. q \in Seq(InputRecord) /\ late \in Seq(InputRecord)
    BY <1>2
  <2>2. /\ q \o late \in Seq(InputRecord)
        /\ Len(q \o late) = Len(q) + Len(late)
        /\ \A i \in 1..(Len(q) + Len(late)) :
             (q \o late)[i] = IF i <= Len(q) THEN q[i] ELSE late[i - Len(q)]
    BY <2>1, ConcatProperties
  <2>3. DOMAIN (q \o late) = 1..Len(q \o late)
    BY <2>2
  <2> QED
    BY <1>2, <2>2, <2>3
<1> HIDE DEF r
<1>5. \A i \in DOMAIN r : \/ i \in DOMAIN q /\ r[i] = q[i]
                          \/ /\ i - Len(q) \in DOMAIN s /\ r[i].msg = s[i - Len(q)]
                             /\ i \in Nat
  BY <1>1, <1>3, <1>4
<1>6. \A i \in DOMAIN q : i \in DOMAIN r /\ r[i] = q[i]
  BY <1>1, <1>4
<1>7. \A i \in DOMAIN s : i + Len(q) \in DOMAIN r /\ r[i + Len(q)].msg = s[i]
  <2> TAKE i \in DOMAIN s
  <2>1. i + Len(q) \in 1..(Len(q) + Len(s)) /\ ~(i + Len(q) <= Len(q)) /\ (i + Len(q)) - Len(q) = i
    BY <1>1
  <2> QED
    BY <1>1, <1>3, <1>4, <2>1
<1>8. \A m \in Msgs : Queued(r, m) <=> Queued(q, m) \/ Among(s, m)
  <2> TAKE m \in Msgs
  <2>1. Queued(r, m) => Queued(q, m) \/ Among(s, m)
    BY <1>5 DEF Queued, Among
  <2>2. Queued(q, m) => Queued(r, m)
    BY <1>6 DEF Queued
  <2>3. Among(s, m) => Queued(r, m)
    BY <1>7 DEF Queued, Among
  <2> QED
    BY <2>1, <2>2, <2>3
<1>9. ASSUME DistinctInputs(q), Distinct(s), \A m \in Msgs : ~(Queued(q, m) /\ Among(s, m)),
             NEW i \in DOMAIN r, NEW j \in DOMAIN r, r[i].msg = r[j].msg, r[i].msg \in Msgs
      PROVE  i = j
  <2>1. CASE i \in DOMAIN q /\ r[i] = q[i] /\ j \in DOMAIN q /\ r[j] = q[j]
    BY <1>9, <2>1 DEF DistinctInputs
  <2>2. CASE /\ i - Len(q) \in DOMAIN s /\ r[i].msg = s[i - Len(q)] /\ i \in Nat
             /\ j - Len(q) \in DOMAIN s /\ r[j].msg = s[j - Len(q)] /\ j \in Nat
    <3>1. i - Len(q) = j - Len(q)
      BY <1>9, <2>2 DEF Distinct
    <3> QED
      BY <1>1, <2>2, <3>1
  <2>3. CASE \/ i \in DOMAIN q /\ r[i] = q[i] /\ j - Len(q) \in DOMAIN s /\ r[j].msg = s[j - Len(q)]
             \/ j \in DOMAIN q /\ r[j] = q[j] /\ i - Len(q) \in DOMAIN s /\ r[i].msg = s[i - Len(q)]
    <3>1. Queued(q, r[i].msg) /\ Among(s, r[i].msg)
      BY <1>9, <2>3 DEF Queued, Among
    <3> QED
      BY <1>9, <3>1
  <2> QED
    BY <1>5, <2>1, <2>2, <2>3
<1>10. /\ DistinctInputs(q) /\ Distinct(s)
       /\ \A m \in Msgs : ~(Queued(q, m) /\ Among(s, m))
       => DistinctInputs(r)
  BY <1>9 DEF DistinctInputs
<1> QED
  BY <1>8, <1>10 DEF r, late

-----------------------------------------------------------------------------
\* A message none of whose places changes stays where it is.
LEMMA StaysPut ==
  ASSUME NEW m \in Msgs, Apart(m), submits[m] # "new" <=> Somewhere(m),
         submits'[m] # "new" <=> submits[m] # "new",
         Queued(inputs', m) <=> Queued(inputs, m),
         Among(steers', m) <=> Among(steers, m),
         \A t \in TurnIds : (Held(t, m)' <=> Held(t, m)) /\ (Taken(t, m)' <=> Taken(t, m)),
         Count(m)' = Count(m), m \in lost' <=> m \in lost
  PROVE  Apart(m)' /\ (submits[m] # "new" <=> Somewhere(m))'
  BY DEF Apart, Somewhere, Waits, InTurn

\* Starting a turn hands the first input over to it.
LEMMA StartPlaces ==
  ASSUME TypeOK, PlaceInv, NEW after \in [TurnIds -> TurnRecord],
         \A t \in TurnIds : after[t] = turn[t] \/ (turn[t].pc = "next" /\ after[t] = Free),
         MaybeStartNext(after), UNCHANGED <<steers, entered, lost>>,
         \A m \in Msgs : submits'[m] # "new" <=> submits[m] # "new"
  PROVE  PlaceInv'
<1>1. \A t \in TurnIds : turn[t].pc # "taken" => turn[t].taken = <<>>
  BY DEF PlaceInv, QueuesInv
<1>2. \A t \in TurnIds : /\ after[t].taken = turn[t].taken
                         /\ after[t].pc = "taken" <=> turn[t].pc = "taken"
                         /\ after[t].pc = "starting" <=> turn[t].pc = "starting"
                         /\ after[t].pc = "starting" => after[t].msg = turn[t].msg
  BY <1>1 DEF Free
<1>3. CASE turn' = after /\ inputs' = inputs
  <2>1. QueuesInv'
    BY <1>2, <1>3 DEF PlaceInv, QueuesInv
  <2>2. ASSUME NEW m \in Msgs
        PROVE  Apart(m)' /\ (submits[m] # "new" <=> Somewhere(m))'
    <3>1. \A t \in TurnIds : (Held(t, m)' <=> Held(t, m)) /\ (Taken(t, m)' <=> Taken(t, m))
      BY <1>2, <1>3 DEF Held, Taken
    <3>2. Count(m)' = Count(m)
      BY DEF Count
    <3> QED
      BY <1>3, <3>1, <3>2, StaysPut DEF PlaceInv
  <2> QED
    BY <2>1, <2>2 DEF PlaceInv
<1>4. CASE StartTurn(after)
  <2> DEFINE first == Head(inputs)
  <2>1. inputs \in Seq(InputRecord) /\ inputs # <<>> /\ inputs' = Tail(inputs)
    BY <1>4 DEF TypeOK, StartTurn
  <2>2. PICK n \in TurnIds :
          /\ after[n].pc = "free"
          /\ turn' = [after EXCEPT ![n] = [Free EXCEPT !.pc = "starting", !.msg = first.msg,
                                                       !.provider = first.provider]]
    BY <1>4 DEF StartTurn
  <2>3. turn'[n].pc = "starting" /\ turn'[n].msg = first.msg /\ turn'[n].taken = <<>>
    BY <2>2 DEF Free
  <2>4. turn[n].pc # "starting" /\ turn[n].taken = <<>>
    BY <1>1, <1>2, <2>2
  <2>5. \A t \in TurnIds \ {n} : turn'[t] = after[t]
    BY <2>2
  <2>6. DistinctInputs(inputs)
    BY DEF PlaceInv, QueuesInv
  <2>7. /\ \A m \in Msgs : Queued(inputs, m) <=> Queued(inputs', m) \/ first.msg = m
        /\ DistinctInputs(inputs')
        /\ first.msg \in Msgs => ~Queued(inputs', first.msg)
    BY <2>1, <2>6, TakeInput
  <2>8. QueuesInv'
    BY <1>2, <2>3, <2>4, <2>5, <2>7 DEF PlaceInv, QueuesInv
  <2>9. ASSUME NEW m \in Msgs
        PROVE  Apart(m)' /\ (submits[m] # "new" <=> Somewhere(m))'
    <3>1. /\ \A t \in TurnIds : Taken(t, m)' <=> Taken(t, m)
          /\ \A t \in TurnIds \ {n} : Held(t, m)' <=> Held(t, m)
      BY <1>2, <2>3, <2>4, <2>5 DEF Held, Taken
    <3>2. (Held(n, m)' <=> m = first.msg) /\ ~Held(n, m)
      BY <2>3, <2>4 DEF Held
    <3>3. Count(m)' = Count(m)
      BY DEF Count
    <3>4. Apart(m) /\ (submits[m] # "new" <=> Somewhere(m))
      BY DEF PlaceInv
    <3>5. CASE m = first.msg
      <4>1. Queued(inputs, m) /\ ~Queued(inputs', m) /\ ~Among(steers', m)
        BY <2>7, <3>4, <3>5 DEF Apart
      <4>2. ~InTurn(m) /\ Count(m) = 0 /\ m \notin lost
        BY <3>4, <4>1 DEF Apart, Waits
      <4>3. /\ \A t \in TurnIds : ~Taken(t, m)'
            /\ \A t \in TurnIds : Held(t, m)' <=> t = n
        BY <3>1, <3>2, <3>5, <4>2 DEF InTurn
      <4>4. Apart(m)'
        BY <3>3, <4>1, <4>2, <4>3 DEF Apart, Waits
      <4>5. Somewhere(m) /\ Somewhere(m)'
        BY <4>1, <4>3 DEF Somewhere, Waits, InTurn
      <4> QED
        BY <3>4, <4>4, <4>5
    <3>6. CASE m # first.msg
      <4>1. \A t \in TurnIds : (Held(t, m)' <=> Held(t, m)) /\ (Taken(t, m)' <=> Taken(t, m))
        BY <3>1, <3>2, <3>6
      <4> QED
        BY <2>7, <3>3, <3>4, <3>6, <4>1, StaysPut
    <3> QED
      BY <3>5, <3>6
  <2> QED
    BY <2>8, <2>9 DEF PlaceInv
<1> QED
  BY <1>3, <1>4 DEF MaybeStartNext

\* Steps of a turn that leave its message and its steers where they are.
LEMMA QuietStep ==
  ASSUME PlaceInv, UNCHANGED <<inputs, steers, entered, lost, submits>>,
         \A t \in TurnIds : /\ turn'[t].taken = turn[t].taken
                            /\ turn'[t].pc = "taken" <=> turn[t].pc = "taken"
                            /\ turn'[t].pc = "starting" <=> turn[t].pc = "starting"
                            /\ turn'[t].msg = turn[t].msg
  PROVE  PlaceInv'
<1>1. QueuesInv'
  BY DEF PlaceInv, QueuesInv
<1>2. ASSUME NEW m \in Msgs
      PROVE  Apart(m)' /\ (submits[m] # "new" <=> Somewhere(m))'
  <2>1. \A t \in TurnIds : (Held(t, m)' <=> Held(t, m)) /\ (Taken(t, m)' <=> Taken(t, m))
    BY DEF Held, Taken
  <2>2. Count(m)' = Count(m)
    BY DEF Count
  <2> QED
    BY <2>1, <2>2, StaysPut DEF PlaceInv
<1> QED
  BY <1>1, <1>2 DEF PlaceInv

LEMMA GotoQuiet ==
  ASSUME TypeOK, PlaceInv, UNCHANGED <<inputs, steers, entered, lost, submits>>,
         NEW t \in TurnIds, NEW pc, Goto(t, pc),
         {pc, turn[t].pc} \cap {"starting", "taken"} = {}
  PROVE  PlaceInv'
<1>1. \A u \in TurnIds : /\ turn'[u].taken = turn[u].taken
                         /\ turn'[u].pc = "taken" <=> turn[u].pc = "taken"
                         /\ turn'[u].pc = "starting" <=> turn[u].pc = "starting"
                         /\ turn'[u].msg = turn[u].msg
  BY DEF Goto, TypeOK, TurnRecord
<1> QED
  BY <1>1, QuietStep

\* A message that is new is nowhere, and goes to one queue.
LEMMA SubmitPlaces ==
  ASSUME TypeOK, PlaceInv, NEW m \in Msgs, Submit(m)
  PROVE  PlaceInv'
<1> USE DEF queueVars, goalVars, rewindVars, historyVars
<1>1. /\ UNCHANGED <<turn, entered, lost>>
      /\ submits[m] = "new" /\ submits'[m] # "new"
      /\ \A n \in Msgs \ {m} : submits'[n] = submits[n]
  BY DEF Submit, TypeOK
<1>2. /\ ~Queued(inputs, m) /\ ~Among(steers, m) /\ ~InTurn(m) /\ Count(m) = 0 /\ m \notin lost
      /\ Apart(m)
  BY <1>1 DEF PlaceInv, Somewhere, Waits, Apart
<1>3. \A n \in Msgs : /\ \A t \in TurnIds : (Held(t, n)' <=> Held(t, n)) /\ (Taken(t, n)' <=> Taken(t, n))
                      /\ Count(n)' = Count(n)
  BY <1>1 DEF Held, Taken, Count
<1>4. \/ /\ inputs' = inputs
         /\ Distinct(steers')
         /\ \A n \in Msgs : Among(steers', n) <=> Among(steers, n) \/ n = m
      \/ /\ steers' = steers
         /\ DistinctInputs(inputs')
         /\ \A n \in Msgs : Queued(inputs', n) <=> Queued(inputs, n) \/ n = m
  <2>1. CASE m \in ChatMsgs /\ steers' = Append(steers, m) /\ UNCHANGED inputs
    <3>1. steers \in Seq(ChatMsgs) /\ Distinct(steers)
      BY DEF TypeOK, PlaceInv, QueuesInv
    <3> QED
      BY <1>2, <2>1, <3>1, AppendSteer
  <2>2. CASE inputs' = Append(inputs, Input(m, m)) /\ UNCHANGED steers
    <3>1. inputs \in Seq(InputRecord) /\ DistinctInputs(inputs)
      BY DEF TypeOK, PlaceInv, QueuesInv
    <3>2. Input(m, m) \in InputRecord /\ Input(m, m).msg = m
      BY DEF Input, InputRecord
    <3> QED
      BY <1>2, <2>2, <3>1, <3>2, AppendInputs
  <2> QED
    BY <2>1, <2>2 DEF Submit
<1>5. QueuesInv'
  BY <1>1, <1>4 DEF PlaceInv, QueuesInv
<1>6. Apart(m)' /\ (submits[m] # "new" <=> Somewhere(m))'
  <2>1. ~InTurn(m)' /\ Count(m)' = 0 /\ m \notin lost'
    BY <1>1, <1>2, <1>3 DEF InTurn
  <2>2. \/ Queued(inputs', m) /\ ~Among(steers', m)
        \/ ~Queued(inputs', m) /\ Among(steers', m)
    BY <1>2, <1>4
  <2>3. \A t \in TurnIds : ~Held(t, m)' /\ ~Taken(t, m)'
    BY <2>1 DEF InTurn
  <2> QED
    BY <1>1, <2>1, <2>2, <2>3 DEF Apart, Waits, Somewhere
<1>7. ASSUME NEW n \in Msgs \ {m}
      PROVE  Apart(n)' /\ (submits[n] # "new" <=> Somewhere(n))'
  <2>1. Queued(inputs', n) <=> Queued(inputs, n)
    BY <1>4
  <2>2. Among(steers', n) <=> Among(steers, n)
    BY <1>4
  <2>3. Apart(n) /\ (submits[n] # "new" <=> Somewhere(n))
    BY DEF PlaceInv
  <2> QED
    BY <1>1, <1>3, <2>1, <2>2, <2>3, StaysPut
<1> QED
  BY <1>5, <1>6, <1>7 DEF PlaceInv

\* The turn's own message goes to the log.
LEMMA BeginPlaces ==
  ASSUME TypeOK, PlaceInv, NEW t \in TurnIds, TurnBegin(t)
  PROVE  PlaceInv'
<1> USE DEF queueVars, goalVars, rewindVars, historyVars
<1>1. /\ UNCHANGED <<inputs, steers, submits, lost>>
      /\ turn[t].pc = "starting" /\ turn'[t].pc = "loop"
      /\ \A u \in TurnIds : turn'[u].taken = turn[u].taken
      /\ \A u \in TurnIds \ {t} : turn'[u] = turn[u]
      /\ Enter({turn[t].msg}, "input")
  BY DEF TurnBegin, Goto, TypeOK, TurnRecord
<1>2. QueuesInv'
  BY <1>1 DEF PlaceInv, QueuesInv
<1>3. ASSUME NEW m \in Msgs
      PROVE  Apart(m)' /\ (submits[m] # "new" <=> Somewhere(m))'
  <2>1. Apart(m) /\ (submits[m] # "new" <=> Somewhere(m))
    BY DEF PlaceInv
  <2>2. /\ \A u \in TurnIds : Taken(u, m)' <=> Taken(u, m)
        /\ \A u \in TurnIds \ {t} : Held(u, m)' <=> Held(u, m)
        /\ ~Held(t, m)' /\ (Held(t, m) <=> m = turn[t].msg)
    BY <1>1 DEF Held, Taken
  <2>3. CASE m = turn[t].msg
    <3>1. /\ ~Queued(inputs, m) /\ ~Among(steers, m) /\ Count(m) = 0 /\ m \notin lost
          /\ \A u \in TurnIds : ~Taken(u, m) /\ (Held(u, m) => u = t)
      BY <2>1, <2>2, <2>3 DEF Apart, Waits, InTurn
    <3>2. Count(m)' = Count(m) + 1
      <4>1. entered'[m] = [entered[m] EXCEPT !["input"] = entered[m].input + 1]
        BY <1>1, <2>3 DEF Enter
      <4>2. entered[m] \in [input : Nat, steer : Nat]
        BY DEF TypeOK
      <4>3. entered'[m].input = entered[m].input + 1 /\ entered'[m].steer = entered[m].steer
        BY <4>1, <4>2
      <4> QED
        BY <4>2, <4>3 DEF Count
    <3>3. \A u \in TurnIds : ~Held(u, m)' /\ ~Taken(u, m)'
      BY <2>2, <3>1
    <3>4. Somewhere(m)
      BY <2>2, <2>3 DEF Somewhere, InTurn
    <3> QED
      BY <1>1, <2>1, <3>1, <3>2, <3>3, <3>4 DEF Apart, Waits, InTurn, Somewhere
  <2>4. CASE m # turn[t].msg
    <3>1. Count(m)' = Count(m)
      BY <1>1, <2>4 DEF Enter, Count
    <3>2. \A u \in TurnIds : (Held(u, m)' <=> Held(u, m)) /\ (Taken(u, m)' <=> Taken(u, m))
      BY <2>2, <2>4
    <3> QED
      BY <1>1, <2>1, <3>1, <3>2, StaysPut
  <2> QED
    BY <2>3, <2>4
<1> QED
  BY <1>2, <1>3 DEF PlaceInv

\* The steers go into the hand of the turn.
LEMMA TakePlaces ==
  ASSUME TypeOK, PlaceInv, NEW t \in TurnIds, TurnTakeSteers(t)
  PROVE  PlaceInv'
<1> USE DEF queueVars, goalVars, rewindVars, historyVars
<1>1. /\ UNCHANGED <<inputs, submits, lost, entered>>
      /\ turn[t].pc = "loop" /\ turn'[t].pc = "taken"
      /\ steers' = <<>> /\ turn'[t].taken = steers
      /\ \A u \in TurnIds \ {t} : turn'[u] = turn[u]
  BY DEF TurnTakeSteers, TypeOK, TurnRecord
<1>2. turn[t].taken = <<>>
  BY <1>1 DEF PlaceInv, QueuesInv
<1>3. QueuesInv'
  BY <1>1 DEF PlaceInv, QueuesInv, Distinct
<1>4. ASSUME NEW m \in Msgs
      PROVE  Apart(m)' /\ (submits[m] # "new" <=> Somewhere(m))'
  <2>1. Apart(m) /\ (submits[m] # "new" <=> Somewhere(m))
    BY DEF PlaceInv
  <2>2. /\ \A u \in TurnIds : Held(u, m)' <=> Held(u, m)
        /\ \A u \in TurnIds \ {t} : Taken(u, m)' <=> Taken(u, m)
        /\ ~Taken(t, m) /\ (Taken(t, m)' <=> Among(steers, m))
        /\ ~Among(steers', m)
        /\ Count(m)' = Count(m)
    BY <1>1, <1>2 DEF Held, Taken, Among, Count
  <2>3. CASE Among(steers, m)
    <3>1. /\ ~Queued(inputs, m) /\ Count(m) = 0 /\ m \notin lost
          /\ \A u \in TurnIds : ~Taken(u, m) /\ ~Held(u, m)
      BY <2>1, <2>3 DEF Apart, Waits, InTurn
    <3>2. \A u \in TurnIds : ~Held(u, m)' /\ (Taken(u, m)' <=> u = t)
      BY <2>2, <2>3, <3>1
    <3> QED
      BY <1>1, <2>1, <2>2, <2>3, <3>1, <3>2 DEF Apart, Waits, InTurn, Somewhere
  <2>4. CASE ~Among(steers, m)
    <3>1. \A u \in TurnIds : Taken(u, m)' <=> Taken(u, m)
      BY <2>2, <2>4
    <3> QED
      BY <1>1, <2>1, <2>2, <2>4, <3>1, StaysPut
  <2> QED
    BY <2>3, <2>4
<1> QED
  BY <1>3, <1>4 DEF PlaceInv

\* The steers in hand go to the log.
LEMMA AppendSteersPlaces ==
  ASSUME TypeOK, PlaceInv, NEW t \in TurnIds, TurnAppendSteers(t)
  PROVE  PlaceInv'
<1> USE DEF queueVars, goalVars, rewindVars, historyVars
<1>1. /\ UNCHANGED <<inputs, steers, submits, lost>>
      /\ turn[t].pc = "taken" /\ turn'[t].pc = "loop" /\ turn'[t].taken = <<>>
      /\ \A u \in TurnIds \ {t} : turn'[u] = turn[u]
      /\ Enter(SeqItems(turn[t].taken), "steer")
  BY DEF TurnAppendSteers, TypeOK, TurnRecord
<1>2. QueuesInv'
  BY <1>1 DEF PlaceInv, QueuesInv, Distinct
<1>3. ASSUME NEW m \in Msgs
      PROVE  Apart(m)' /\ (submits[m] # "new" <=> Somewhere(m))'
  <2>1. Apart(m) /\ (submits[m] # "new" <=> Somewhere(m))
    BY DEF PlaceInv
  <2>2. /\ \A u \in TurnIds : Held(u, m)' <=> Held(u, m)
        /\ \A u \in TurnIds \ {t} : Taken(u, m)' <=> Taken(u, m)
        /\ ~Taken(t, m)'
        /\ Taken(t, m) <=> m \in SeqItems(turn[t].taken)
    BY <1>1 DEF Held, Taken, Among, SeqItems
  <2>3. CASE Taken(t, m)
    <3>1. /\ ~Queued(inputs, m) /\ ~Among(steers, m) /\ Count(m) = 0 /\ m \notin lost
          /\ \A u \in TurnIds : ~Held(u, m) /\ (Taken(u, m) => u = t)
      BY <2>1, <2>3 DEF Apart, Waits, InTurn
    <3>2. Count(m)' = Count(m) + 1
      <4>1. entered'[m] = [entered[m] EXCEPT !["steer"] = entered[m].steer + 1]
        BY <1>1, <2>2, <2>3 DEF Enter
      <4>2. entered[m] \in [input : Nat, steer : Nat]
        BY DEF TypeOK
      <4>3. entered'[m].steer = entered[m].steer + 1 /\ entered'[m].input = entered[m].input
        BY <4>1, <4>2
      <4> QED
        BY <4>2, <4>3 DEF Count
    <3>3. \A u \in TurnIds : ~Held(u, m)' /\ ~Taken(u, m)'
      BY <2>2, <3>1
    <3>4. Somewhere(m)
      BY <2>3 DEF Somewhere, InTurn
    <3> QED
      BY <1>1, <2>1, <3>1, <3>2, <3>3, <3>4 DEF Apart, Waits, InTurn, Somewhere
  <2>4. CASE ~Taken(t, m)
    <3>1. Count(m)' = Count(m)
      BY <1>1, <2>2, <2>4 DEF Enter, Count
    <3>2. \A u \in TurnIds : (Held(u, m)' <=> Held(u, m)) /\ (Taken(u, m)' <=> Taken(u, m))
      BY <2>2, <2>4
    <3> QED
      BY <1>1, <2>1, <3>1, <3>2, StaysPut
  <2> QED
    BY <2>3, <2>4
<1> QED
  BY <1>2, <1>3 DEF PlaceInv

\* What a failing turn has in hand is lost.
LEMMA FailPlaces ==
  ASSUME TypeOK, PlaceInv, NEW t \in TurnIds, TurnFails(t)
  PROVE  PlaceInv'
<1> USE DEF queueVars, goalVars, rewindVars, historyVars
<1>1. /\ UNCHANGED <<inputs, steers, submits, entered>>
      /\ turn'[t].pc = "charge" /\ turn'[t].taken = <<>>
      /\ \A u \in TurnIds \ {t} : turn'[u] = turn[u]
      /\ lost' = lost \cup SeqItems(turn[t].taken)
                      \cup (IF turn[t].pc = "starting" THEN {turn[t].msg} \cap Msgs ELSE {})
  BY DEF TurnFails, TypeOK, TurnRecord
<1>2. QueuesInv'
  BY <1>1 DEF PlaceInv, QueuesInv, Distinct
<1>3. ASSUME NEW m \in Msgs
      PROVE  Apart(m)' /\ (submits[m] # "new" <=> Somewhere(m))'
  <2>1. Apart(m) /\ (submits[m] # "new" <=> Somewhere(m))
    BY DEF PlaceInv
  <2>2. /\ \A u \in TurnIds \ {t} : (Held(u, m)' <=> Held(u, m)) /\ (Taken(u, m)' <=> Taken(u, m))
        /\ ~Taken(t, m)' /\ ~Held(t, m)'
        /\ m \in lost' <=> m \in lost \/ Held(t, m) \/ Taken(t, m)
        /\ Count(m)' = Count(m)
    BY <1>1 DEF Held, Taken, Among, SeqItems, Count
  <2>3. CASE Held(t, m) \/ Taken(t, m)
    <3>1. /\ ~Queued(inputs, m) /\ ~Among(steers, m) /\ Count(m) = 0
          /\ \A u \in TurnIds : Held(u, m) \/ Taken(u, m) => u = t
      BY <2>1, <2>3 DEF Apart, Waits, InTurn
    <3>2. \A u \in TurnIds : ~Held(u, m)' /\ ~Taken(u, m)'
      BY <2>2, <3>1
    <3>3. Somewhere(m)
      BY <2>3 DEF Somewhere, InTurn
    <3> QED
      BY <1>1, <2>1, <2>2, <2>3, <3>1, <3>2, <3>3 DEF Apart, Waits, InTurn, Somewhere
  <2>4. CASE ~Held(t, m) /\ ~Taken(t, m)
    <3>1. \A u \in TurnIds : (Held(u, m)' <=> Held(u, m)) /\ (Taken(u, m)' <=> Taken(u, m))
      BY <2>2, <2>4
    <3> QED
      BY <1>1, <2>1, <2>2, <2>4, <3>1, StaysPut
  <2> QED
    BY <2>3, <2>4
<1> QED
  BY <1>2, <1>3 DEF PlaceInv

\* Steers that came too late move to the inputs.
LEMMA ClosePlaces ==
  ASSUME TypeOK, PlaceInv, NEW t \in TurnIds, TurnClose(t)
  PROVE  PlaceInv'
<1> USE DEF queueVars, goalVars, rewindVars, historyVars
<1>1. /\ UNCHANGED <<submits, entered, lost>>
      /\ steers' = <<>>
      /\ inputs' = inputs \o [i \in 1..Len(steers) |-> Input(steers[i], turn[t].provider)]
  BY DEF TurnClose
<1>2. \A u \in TurnIds : /\ turn'[u].taken = turn[u].taken
                         /\ turn'[u].pc = "taken" <=> turn[u].pc = "taken"
                         /\ turn'[u].pc = "starting" <=> turn[u].pc = "starting"
                         /\ turn'[u].msg = turn[u].msg
  BY DEF TurnClose, Goto, TypeOK, TurnRecord
<1>3. /\ inputs \in Seq(InputRecord) /\ steers \in Seq(ChatMsgs)
      /\ turn[t].provider \in Msgs \cup {TuiProvider}
  BY DEF TypeOK, TurnRecord
<1>4. /\ DistinctInputs(inputs) /\ Distinct(steers)
      /\ \A m \in Msgs : ~(Queued(inputs, m) /\ Among(steers, m))
  BY DEF PlaceInv, QueuesInv, Apart
<1>5. /\ \A m \in Msgs : Queued(inputs', m) <=> Queued(inputs, m) \/ Among(steers, m)
      /\ DistinctInputs(inputs')
  <2> DEFINE late == [i \in 1..Len(steers) |-> Input(steers[i], turn[t].provider)]
             both == inputs \o late
  <2>1. /\ \A m \in Msgs : Queued(both, m) <=> Queued(inputs, m) \/ Among(steers, m)
        /\ /\ DistinctInputs(inputs) /\ Distinct(steers)
           /\ \A m \in Msgs : ~(Queued(inputs, m) /\ Among(steers, m))
           => DistinctInputs(both)
    BY <1>3, JoinInputs
  <2> QED
    BY <1>1, <1>4, <2>1
<1>6. QueuesInv'
  BY <1>1, <1>2, <1>5 DEF PlaceInv, QueuesInv, Distinct
<1>7. ASSUME NEW m \in Msgs
      PROVE  Apart(m)' /\ (submits[m] # "new" <=> Somewhere(m))'
  <2>1. Apart(m) /\ (submits[m] # "new" <=> Somewhere(m))
    BY DEF PlaceInv
  <2>2. /\ \A u \in TurnIds : (Held(u, m)' <=> Held(u, m)) /\ (Taken(u, m)' <=> Taken(u, m))
        /\ Count(m)' = Count(m)
        /\ ~Among(steers', m)
    BY <1>1, <1>2 DEF Held, Taken, Count, Among
  <2>3. (Waits(m)' <=> Waits(m)) /\ (InTurn(m)' <=> InTurn(m))
    BY <1>5, <2>2 DEF Waits, InTurn
  <2> QED
    BY <1>1, <2>1, <2>2, <2>3 DEF Apart, Somewhere
<1> QED
  BY <1>6, <1>7 DEF PlaceInv

\* A goal continuation is no message.
LEMMA ContinuePlaces ==
  ASSUME TypeOK, PlaceInv, NEW p \in Msgs \cup {TuiProvider}, EnqueueContinuation(p),
         UNCHANGED <<steers, entered, lost, submits>>,
         \A t \in TurnIds : /\ turn'[t].taken = turn[t].taken
                            /\ turn'[t].pc = "taken" <=> turn[t].pc = "taken"
                            /\ turn'[t].pc = "starting" <=> turn[t].pc = "starting"
                            /\ turn'[t].msg = turn[t].msg
  PROVE  PlaceInv'
<1>1. CASE inputs' = inputs
  BY <1>1, QuietStep
<1>2. CASE inputs' = Append(inputs, Input(GoalMsg, p))
  <2>1. /\ inputs \in Seq(InputRecord) /\ DistinctInputs(inputs)
        /\ Input(GoalMsg, p) \in InputRecord
        /\ Input(GoalMsg, p).msg = GoalMsg /\ GoalMsg \notin Msgs
    BY RuntimeAssumption DEF TypeOK, PlaceInv, QueuesInv, Input, InputRecord
  <2>2. /\ \A m \in Msgs : Queued(inputs', m) <=> Queued(inputs, m)
        /\ DistinctInputs(inputs')
    BY <1>2, <2>1, AppendInputs
  <2>3. QueuesInv'
    BY <2>2 DEF PlaceInv, QueuesInv
  <2>4. ASSUME NEW m \in Msgs
        PROVE  Apart(m)' /\ (submits[m] # "new" <=> Somewhere(m))'
    <3>1. \A t \in TurnIds : (Held(t, m)' <=> Held(t, m)) /\ (Taken(t, m)' <=> Taken(t, m))
      BY DEF Held, Taken
    <3>2. Count(m)' = Count(m)
      BY DEF Count
    <3> QED
      BY <2>2, <3>1, <3>2, StaysPut DEF PlaceInv
  <2> QED
    BY <2>3, <2>4 DEF PlaceInv
<1> QED
  BY <1>1, <1>2 DEF EnqueueContinuation

\* What a removed entry had queued is lost.
LEMMA RemovePlaces ==
  ASSUME TypeOK, PlaceInv, RemoveEntry, UNCHANGED <<turn, entered, submits>>
  PROVE  PlaceInv'
<1>1. /\ inputs' = <<>> /\ steers' = <<>>
      /\ lost' = lost \cup (QueuedMsgs \cap Msgs) \cup SeqItems(steers)
  BY DEF RemoveEntry
<1>2. QueuesInv'
  BY <1>1 DEF PlaceInv, QueuesInv, Distinct, DistinctInputs
<1>3. ASSUME NEW m \in Msgs
      PROVE  Apart(m)' /\ (submits[m] # "new" <=> Somewhere(m))'
  <2>1. Apart(m) /\ (submits[m] # "new" <=> Somewhere(m))
    BY DEF PlaceInv
  <2>2. /\ \A u \in TurnIds : (Held(u, m)' <=> Held(u, m)) /\ (Taken(u, m)' <=> Taken(u, m))
        /\ InTurn(m)' <=> InTurn(m)
        /\ Count(m)' = Count(m)
    BY DEF Held, Taken, InTurn, Count
  <2>3. /\ ~Queued(inputs', m) /\ ~Among(steers', m)
        /\ m \in lost' <=> m \in lost \/ Waits(m)
    BY <1>1 DEF Queued, Among, Waits, QueuedMsgs, SeqItems
  <2> QED
    BY <2>1, <2>2, <2>3 DEF Apart, Somewhere, Waits
<1> QED
  BY <1>2, <1>3 DEF PlaceInv

-----------------------------------------------------------------------------
\* Every step leaves each message in one place.
LEMMA PlaceStep ==
  ASSUME TypeOK, PlaceInv, Next
  PROVE  PlaceInv'
<1> USE DEF queueVars, goalVars, rewindVars, historyVars
<1> DEFINE quiet == UNCHANGED <<inputs, steers, entered, lost, submits>>
<1>1. ASSUME quiet, UNCHANGED turn
      PROVE  PlaceInv'
  BY <1>1, QuietStep
<1>2. ASSUME NEW m \in Msgs, Submit(m)
      PROVE  PlaceInv'
  BY <1>2, SubmitPlaces
<1>3. ASSUME NEW m \in Msgs, Kick(m)
      PROVE  PlaceInv'
  <2>1. \A n \in Msgs : submits'[n] # "new" <=> submits[n] # "new"
    BY <1>3 DEF Kick, TypeOK
  <2>2. turn \in [TurnIds -> TurnRecord]
    BY DEF TypeOK
  <2> QED
    BY <1>3, <2>1, <2>2, StartPlaces DEF Kick
<1>4. ASSUME NEW t \in TurnIds, TurnNext(t)
      PROVE  PlaceInv'
  <2>1. CASE TurnBegin(t)
    BY <2>1, BeginPlaces
  <2>2. CASE TurnTakeSteers(t)
    BY <2>2, TakePlaces
  <2>3. CASE TurnAppendSteers(t)
    BY <2>3, AppendSteersPlaces
  <2>4. CASE TurnFails(t)
    BY <2>4, FailPlaces
  <2>5. CASE TurnAnswer(t)
    <3>1. quiet /\ Goto(t, "charge") /\ turn[t].pc = "loop"
      BY <2>5 DEF TurnAnswer
    <3> QED
      BY <3>1, GotoQuiet
  <2>6. CASE TurnReadsMeta(t) \/ TurnWritesMeta(t)
    BY <1>1, <2>6 DEF TurnReadsMeta, TurnWritesMeta
  <2>7. CASE TurnReadsUsage(t) \/ TurnWritesUsage(t)
    <3>1. /\ quiet /\ turn[t].pc = "charge"
          /\ turn' = turn \/ Goto(t, Charged(t))
      BY <2>7 DEF TurnReadsUsage, TurnWritesUsage
    <3>2. Charged(t) \in {"close", "block"}
      BY DEF Charged
    <3>3. {Charged(t), turn[t].pc} \cap {"starting", "taken"} = {}
      BY <3>1, <3>2
    <3> QED
      BY <1>1, <3>1, <3>3, GotoQuiet
  <2>8. CASE TurnReadsGoalToBlock(t) \/ TurnBlocksGoal(t)
    <3>1. /\ quiet /\ turn[t].pc = "block"
          /\ turn' = turn \/ Goto(t, "close")
      BY <2>8 DEF TurnReadsGoalToBlock, TurnBlocksGoal
    <3> QED
      BY <1>1, <3>1, GotoQuiet
  <2>9. CASE TurnClose(t)
    BY <2>9, ClosePlaces
  <2>10. CASE TurnReadsGoal(t)
    <3>1. /\ quiet /\ turn[t].pc = "goal"
          /\ Goto(t, "continue") \/ Goto(t, "next")
      BY <2>10 DEF TurnReadsGoal
    <3> QED
      BY <3>1, GotoQuiet
  <2>11. CASE TurnContinuesGoal(t)
    <3>1. /\ turn[t].pc = "continue" /\ Goto(t, "next")
          /\ EnqueueContinuation(turn[t].provider)
          /\ UNCHANGED <<steers, entered, lost, submits>>
      BY <2>11 DEF TurnContinuesGoal
    <3>2. \A u \in TurnIds : /\ turn'[u].taken = turn[u].taken
                             /\ turn'[u].pc = "taken" <=> turn[u].pc = "taken"
                             /\ turn'[u].pc = "starting" <=> turn[u].pc = "starting"
                             /\ turn'[u].msg = turn[u].msg
      BY <3>1 DEF Goto, TypeOK, TurnRecord
    <3>3. turn[t].provider \in Msgs \cup {TuiProvider}
      BY DEF TypeOK, TurnRecord
    <3> QED
      BY <3>1, <3>2, <3>3, ContinuePlaces
  <2>12. CASE TurnStartsNext(t)
    <3> DEFINE after == [turn EXCEPT ![t] = Free]
    <3>1. /\ after \in [TurnIds -> TurnRecord]
          /\ \A u \in TurnIds : after[u] = turn[u] \/ (turn[u].pc = "next" /\ after[u] = Free)
      BY <2>12, FreeType DEF TurnStartsNext, TypeOK
    <3>2. MaybeStartNext(after) /\ UNCHANGED <<steers, entered, lost, submits>>
      BY <2>12 DEF TurnStartsNext
    <3> HIDE DEF after
    <3> QED
      BY <3>1, <3>2, StartPlaces
  <2> QED
    BY <1>4, <2>1, <2>2, <2>3, <2>4, <2>5, <2>6, <2>7, <2>8, <2>9, <2>10, <2>11, <2>12
       DEF TurnNext
<1>5. ASSUME UserNext
      PROVE  PlaceInv'
  <2>1. CASE (\E op \in UserOps : UserReads(op)) \/ UserWrites \/ UserChecks
    BY <1>1, <2>1 DEF UserReads, UserWrites, UserChecks
  <2>2. CASE UserEnqueues
    <3>1. EnqueueContinuation(TuiProvider) /\ UNCHANGED <<turn, steers, entered, lost, submits>>
      BY <2>2 DEF UserEnqueues
    <3> QED
      BY <3>1, ContinuePlaces
  <2>3. CASE UserStarts
    <3>1. MaybeStartNext(turn) /\ UNCHANGED <<steers, entered, lost, submits>>
      BY <2>3 DEF UserStarts
    <3>2. turn \in [TurnIds -> TurnRecord]
      BY DEF TypeOK
    <3> QED
      BY <3>1, <3>2, StartPlaces
  <2> QED
    BY <1>5, <2>1, <2>2, <2>3 DEF UserNext
<1>6. ASSUME Clear \/ RewindClear
      PROVE  PlaceInv'
  <2>1. RemoveEntry /\ UNCHANGED <<turn, entered, submits>>
    BY <1>6 DEF Clear, RewindClear
  <2> QED
    BY <2>1, RemovePlaces
<1>7. ASSUME RewindCheck \/ Rewind
      PROVE  PlaceInv'
  BY <1>1, <1>7 DEF RewindCheck, Rewind
<1> QED
  BY <1>2, <1>3, <1>4, <1>5, <1>6, <1>7 DEF Next, MsgNext, RewindNext

\* At first there is no message anywhere.
LEMMA PlaceInit ==
  ASSUME Init
  PROVE  PlaceInv
<1>1. QueuesInv
  BY DEF Init, QueuesInv, DistinctInputs, Distinct, Free
<1>2. ASSUME NEW m \in Msgs
      PROVE  Apart(m) /\ (submits[m] # "new" <=> Somewhere(m))
  <2>1. ~Queued(inputs, m) /\ ~Among(steers, m) /\ m \notin lost
    BY DEF Init, Queued, Among
  <2>2. \A t \in TurnIds : ~Held(t, m) /\ ~Taken(t, m)
    BY DEF Init, Held, Taken, Among, Free
  <2>3. Count(m) = 0 /\ submits[m] = "new"
    BY DEF Init, Count
  <2> QED
    BY <2>1, <2>2, <2>3 DEF Apart, Somewhere, Waits, InTurn
<1> QED
  BY <1>1, <1>2 DEF PlaceInv

\* How often a message is in a queue that has none twice.
LEMMA CountsInputs ==
  ASSUME DistinctInputs(inputs), NEW m \in Msgs
  PROVE  Cardinality({i \in DOMAIN inputs : inputs[i].msg = m})
           = IF Queued(inputs, m) THEN 1 ELSE 0
<1> DEFINE S == {i \in DOMAIN inputs : inputs[i].msg = m}
<1>1. CASE Queued(inputs, m)
  <2>1. PICK i \in DOMAIN inputs : inputs[i].msg = m
    BY <1>1 DEF Queued
  <2>2. S = {i}
    BY <2>1 DEF DistinctInputs
  <2> QED
    BY <1>1, <2>2, FS_Singleton
<1>2. CASE ~Queued(inputs, m)
  <2>1. S = {}
    BY <1>2 DEF Queued
  <2> QED
    BY <1>2, <2>1, FS_EmptySet
<1> QED
  BY <1>1, <1>2

LEMMA CountsOccurrences ==
  ASSUME NEW s, Distinct(s), NEW m \in Msgs
  PROVE  Occurrences(m, s) = IF Among(s, m) THEN 1 ELSE 0
<1> DEFINE S == {i \in DOMAIN s : s[i] = m}
<1>1. CASE Among(s, m)
  <2>1. PICK i \in DOMAIN s : s[i] = m
    BY <1>1 DEF Among
  <2>2. S = {i}
    BY <2>1 DEF Distinct
  <2> QED
    BY <1>1, <2>2, FS_Singleton DEF Occurrences
<1>2. CASE ~Among(s, m)
  <2>1. S = {}
    BY <1>2 DEF Among
  <2> QED
    BY <1>2, <2>1, FS_EmptySet DEF Occurrences
<1> QED
  BY <1>1, <1>2

\* A message that is somewhere, and in no two places, is in exactly one.
LEMMA PlaceMeansOne ==
  ASSUME TypeOK, PlaceInv
  PROVE  EachMessageInOnePlace
<1> SUFFICES ASSUME NEW m \in Msgs, submits[m] # "new"
             PROVE  \/ /\ m \in lost
                       /\ Waiting(m) + entered[m].input + entered[m].steer = 0
                       /\ \A t \in TurnIds : InHand(m, t) = 0
                    \/ /\ m \notin lost
                       /\ \E t \in TurnIds :
                            /\ \A s \in TurnIds \ {t} : InHand(m, s) = 0
                            /\ Waiting(m) + InHand(m, t) + entered[m].input
                                 + entered[m].steer = 1
  BY DEF EachMessageInOnePlace
<1>1. Apart(m) /\ Somewhere(m)
  BY DEF PlaceInv
<1>2. Waiting(m) = IF Waits(m) THEN 1 ELSE 0
  <2>1. DistinctInputs(inputs) /\ Distinct(steers)
    BY DEF PlaceInv, QueuesInv
  <2>2. ~(Queued(inputs, m) /\ Among(steers, m))
    BY <1>1 DEF Apart
  <2>3. /\ Cardinality({i \in DOMAIN inputs : inputs[i].msg = m})
             = IF Queued(inputs, m) THEN 1 ELSE 0
        /\ Occurrences(m, steers) = IF Among(steers, m) THEN 1 ELSE 0
    BY <2>1, CountsInputs, CountsOccurrences
  <2> QED
    BY <2>2, <2>3 DEF Waiting, Waits
<1>3. \A t \in TurnIds : InHand(m, t) = IF Held(t, m) \/ Taken(t, m) THEN 1 ELSE 0
  <2> TAKE t \in TurnIds
  <2>1. Occurrences(m, turn[t].taken) = IF Taken(t, m) THEN 1 ELSE 0
    BY CountsOccurrences DEF PlaceInv, QueuesInv, Taken
  <2>2. ~(Held(t, m) /\ Taken(t, m))
    BY <1>1 DEF Apart
  <2> QED
    BY <2>1, <2>2 DEF InHand, Held
<1>4. entered[m].input \in Nat /\ entered[m].steer \in Nat
  BY DEF TypeOK
<1>5. CASE InTurn(m)
  <2>1. PICK t \in TurnIds : Held(t, m) \/ Taken(t, m)
    BY <1>5 DEF InTurn
  <2>2. ~Waits(m) /\ Count(m) = 0 /\ m \notin lost
    BY <1>1, <1>5 DEF Apart
  <2>3. \A s \in TurnIds \ {t} : ~Held(s, m) /\ ~Taken(s, m)
    BY <1>1, <2>1 DEF Apart
  <2>4. /\ \A s \in TurnIds \ {t} : InHand(m, s) = 0
        /\ Waiting(m) + InHand(m, t) + entered[m].input + entered[m].steer = 1
    BY <1>2, <1>3, <1>4, <2>1, <2>2, <2>3 DEF Count
  <2> QED
    BY <2>2, <2>4
<1>6. CASE ~InTurn(m)
  <2>1. \A t \in TurnIds : InHand(m, t) = 0
    BY <1>3, <1>6 DEF InTurn
  <2>2. CASE m \in lost
    <3>1. ~Waits(m) /\ Count(m) = 0
      BY <1>1, <2>2 DEF Apart
    <3>2. Waiting(m) + entered[m].input + entered[m].steer = 0
      BY <1>2, <1>4, <3>1 DEF Count
    <3> QED
      BY <2>1, <2>2, <3>2
  <2>3. CASE m \notin lost
    <3>1. Waiting(m) + Count(m) = 1
      BY <1>1, <1>2, <1>6, <2>3 DEF Apart, Somewhere
    <3>2. PICK t \in TurnIds : TRUE
      BY RuntimeAssumption
    <3>3. Waiting(m) + InHand(m, t) + entered[m].input + entered[m].steer = 1
      BY <1>2, <1>4, <2>1, <3>1, <3>2 DEF Count
    <3> QED
      BY <2>1, <2>3, <3>2, <3>3
  <2> QED
    BY <2>2, <2>3
<1> QED
  BY <1>5, <1>6

\* A submitted message is at every moment in exactly one place: no turn is given
\* a message another has, none is answered twice, and none vanishes on its way
\* from a queue to the log but to a failed turn or a clear.
THEOREM OnePlace == Spec => []EachMessageInOnePlace
<1>1. Init => PlaceInv
  BY PlaceInit
<1>2. TypeOK /\ PlaceInv /\ [Next]_vars => PlaceInv'
  <2> SUFFICES ASSUME TypeOK, PlaceInv, [Next]_vars
               PROVE  PlaceInv'
    OBVIOUS
  <2>1. CASE Next
    BY <2>1, PlaceStep
  <2>2. CASE UNCHANGED vars
    BY <2>2, QuietStep DEF vars, queueVars, historyVars
  <2> QED
    BY <2>1, <2>2
<1>3. TypeOK /\ PlaceInv => EachMessageInOnePlace
  BY PlaceMeansOne
<1>4. Spec => []TypeOK
  BY TypeCorrect
<1> QED
  BY <1>1, <1>2, <1>3, <1>4, PTL DEF Spec
=============================================================================
