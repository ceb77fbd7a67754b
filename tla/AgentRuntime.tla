---------------------------- MODULE AgentRuntime ----------------------------
(***************************************************************************)
(* The turns of one session: src/agent.rs, with the goal that session.rs   *)
(* keeps in meta.json.                                                     *)
(*                                                                         *)
(* Channels, the TUI and the cron service submit user messages.  A message *)
(* for an idle session is queued and starts a turn on a thread of its own; *)
(* a message for a session with a running turn steers that turn, unless it *)
(* is a scheduled task, which is queued for a turn of its own.  A turn     *)
(* that ends hands on what is queued, and, when the session has an active  *)
(* goal and nothing is queued, a continuation of the goal.                 *)
(*                                                                         *)
(* Each action is one section under the runtime's mutex, one read or one   *)
(* write of meta.json, or one append to the session log.  meta.json is     *)
(* read, changed and written back without a lock by every thread.          *)
(***************************************************************************)
EXTENDS Naturals, Sequences, FiniteSets

CONSTANTS
  ChatMsgs,    \* messages from the TUI or a channel
  CronMsgs,    \* scheduled tasks
  GoalMsg,     \* a goal continuation
  TuiProvider, \* the approval provider of goal commands
  TurnIds,     \* bound on turn threads alive together; ids are used again
  NoCopy,      \* a thread that holds no copy of meta.json
  UserOps,     \* the goal commands of the user
  ModelOps,    \* the goal calls the model may make
  MaxUserOps,  \* bound on goal commands
  MaxFailures, \* bound on failed turns
  MaxClears,   \* bound on /new, /resume and model changes
  MaxRewinds   \* bound on rewinds

Msgs == ChatMsgs \cup CronMsgs

Statuses == {"none", "active", "paused", "blocked", "complete", "limited"}

ASSUME RuntimeAssumption ==
  /\ ChatMsgs \cap CronMsgs = {}
  /\ GoalMsg \notin Msgs
  /\ TuiProvider \notin Msgs
  /\ TurnIds # {}
  /\ UserOps \subseteq {"set", "pause", "resume", "clear"}
  /\ ModelOps \subseteq {"set", "complete", "block"}
  /\ \A bound \in {MaxUserOps, MaxFailures, MaxClears, MaxRewinds} : bound \in Nat

VARIABLES
  running,  \* main_turn_running
  inputs,   \* pending_user_inputs, each with its approval provider
  steers,   \* pending_user_steers
  submits,  \* per message: not submitted, queued but not yet kicked, or done
  turn,     \* per turn thread: progress, message, provider, outcome, steers in hand
  goal,     \* the goal status in meta.json, "none" without a goal
  copy,     \* per thread: the change of meta.json it is in the middle of
  user,     \* the goal command under way
  rewinder, \* the rewind under way
  entered,  \* per message: how often it entered the session log, and how
  lost,     \* messages dropped by a failed turn or a clear
  reported, \* per scheduled task: CronRunFinished events
  cleared,  \* a running turn's entry has been removed
  userOps, failures, clears, rewinds

queueVars   == <<running, inputs, steers, submits, turn>>
goalVars    == <<goal, copy, user, userOps>>
rewindVars  == <<rewinder, rewinds>>
historyVars == <<entered, lost, reported, cleared, failures, clears>>
vars == <<queueVars, goalVars, rewindVars, historyVars>>

Writers == TurnIds \cup {"user"}

\* A scheduled task or chat message brings the approval provider of its channel.
Input(msg, provider) == [msg |-> msg, provider |-> provider]

InputRecord == [msg : Msgs \cup {GoalMsg}, provider : Msgs \cup {TuiProvider}]

TurnPcs == {"free", "starting", "loop", "taken", "charge", "block", "close",
            "goal", "continue", "next"}

TurnRecord == [pc : TurnPcs, msg : Msgs \cup {GoalMsg},
               provider : Msgs \cup {TuiProvider}, ok : BOOLEAN, taken : Seq(ChatMsgs)]

CopyRecord == [op : {"touch", "charge"} \cup UserOps \cup ModelOps \cup {"block"},
               status : Statuses]

TypeOK ==
  /\ running \in BOOLEAN
  /\ inputs \in Seq(InputRecord)
  /\ steers \in Seq(ChatMsgs)
  /\ submits \in [Msgs -> {"new", "queued", "done"}]
  /\ turn \in [TurnIds -> TurnRecord]
  /\ goal \in Statuses
  /\ copy \in [Writers -> CopyRecord \cup {NoCopy}]
  /\ user \in {"idle", "write", "check", "enqueue", "start"}
  /\ rewinder \in {"idle", "checked", "logged"}
  /\ entered \in [Msgs -> [input : Nat, steer : Nat]]
  /\ lost \subseteq Msgs
  /\ reported \in [CronMsgs -> Nat]
  /\ cleared \in BOOLEAN
  /\ userOps \in Nat /\ failures \in Nat /\ clears \in Nat /\ rewinds \in Nat

Free == [pc |-> "free", msg |-> GoalMsg, provider |-> TuiProvider, ok |-> TRUE,
         taken |-> <<>>]

Init ==
  /\ running = FALSE
  /\ inputs = <<>>
  /\ steers = <<>>
  /\ submits = [m \in Msgs |-> "new"]
  /\ turn = [t \in TurnIds |-> Free]
  /\ goal = "none"
  /\ copy = [w \in Writers |-> NoCopy]
  /\ user = "idle"
  /\ rewinder = "idle"
  /\ entered = [m \in Msgs |-> [input |-> 0, steer |-> 0]]
  /\ lost = {}
  /\ reported = [m \in CronMsgs |-> 0]
  /\ cleared = FALSE
  /\ userOps = 0 /\ failures = 0 /\ clears = 0 /\ rewinds = 0

-----------------------------------------------------------------------------
(***************************************************************************)
(* Submitting and starting.                                                *)
(***************************************************************************)
SeqItems(s) == {s[i] : i \in DOMAIN s}

QueuedMsgs == {inputs[i].msg : i \in DOMAIN inputs}

\* has_pending_or_running_work
HasWork == running \/ inputs # <<>> \/ steers # <<>>

\* A turn in the runtime's sense: from its start until it gives up `running`.
Active(t) == turn[t].pc \in {"starting", "loop", "taken", "charge", "block", "close"}

StartTurn(after) ==
  /\ inputs # <<>>
  /\ running' = TRUE
  /\ inputs' = Tail(inputs)
  /\ \E n \in TurnIds :
       /\ after[n].pc = "free"
       /\ turn' = [after EXCEPT ![n] = [Free EXCEPT !.pc = "starting",
                                                    !.msg = Head(inputs).msg,
                                                    !.provider = Head(inputs).provider]]

\* Mutant of MaybeStartNext: a running turn does not hold up the next.
StartEvenIfRunning(after) ==
  \/ inputs = <<>> /\ turn' = after /\ UNCHANGED <<running, inputs>>
  \/ StartTurn(after)

\* maybe_start_next_main_turn, called by a thread that leaves the turns as
\* `after`: nothing while a turn runs or nothing is queued.
MaybeStartNext(after) ==
  \/ /\ running \/ inputs = <<>>
     /\ turn' = after
     /\ UNCHANGED <<running, inputs>>
  \/ ~running /\ StartTurn(after)

\* Mutant of Submit: a scheduled task steers a running turn like any message.
SubmitMerged(m) ==
  /\ submits[m] = "new"
  /\ IF running
     THEN /\ steers' = Append(steers, m)
          /\ submits' = [submits EXCEPT ![m] = "done"]
          /\ UNCHANGED inputs
     ELSE /\ inputs' = Append(inputs, Input(m, m))
          /\ submits' = [submits EXCEPT ![m] = "queued"]
          /\ UNCHANGED steers
  /\ UNCHANGED <<running, turn, goalVars, rewindVars, historyVars>>

\* enqueue_user_message, under the mutex.
Submit(m) ==
  /\ submits[m] = "new"
  /\ \/ /\ running
        /\ m \in CronMsgs
        /\ inputs' = Append(inputs, Input(m, m))
        /\ submits' = [submits EXCEPT ![m] = "done"]
        /\ UNCHANGED steers
     \/ /\ running
        /\ m \in ChatMsgs
        /\ steers' = Append(steers, m)
        /\ submits' = [submits EXCEPT ![m] = "done"]
        /\ UNCHANGED inputs
     \/ /\ ~running
        /\ inputs' = Append(inputs, Input(m, m))
        /\ submits' = [submits EXCEPT ![m] = "queued"]
        /\ UNCHANGED steers
  /\ UNCHANGED <<running, turn, goalVars, rewindVars, historyVars>>

\* submit_user_message, after the mutex was given up.
Kick(m) ==
  /\ submits[m] = "queued"
  /\ submits' = [submits EXCEPT ![m] = "done"]
  /\ MaybeStartNext(turn)
  /\ UNCHANGED <<steers, goalVars, rewindVars, historyVars>>

-----------------------------------------------------------------------------
(***************************************************************************)
(* A turn: run_main_turn and run_main_agent_loop.                          *)
(***************************************************************************)
Goto(t, pc) == turn' = [turn EXCEPT ![t].pc = pc]

Enter(ms, how) ==
  entered' = [m \in Msgs |-> IF m \in ms THEN [entered[m] EXCEPT ![how] = @ + 1]
                             ELSE entered[m]]

\* The turn's own message enters the session log.
TurnBegin(t) ==
  /\ turn[t].pc = "starting"
  /\ Goto(t, "loop")
  /\ Enter({turn[t].msg}, "input")
  /\ UNCHANGED <<running, inputs, steers, submits, goalVars, rewindVars, lost, reported,
                 cleared, failures, clears>>

\* append_pending_user_steer_message after an answer or tool activity: the
\* steers are taken under the mutex, and appended after it was given up.
TurnTakeSteers(t) ==
  /\ turn[t].pc = "loop"
  /\ copy[t] = NoCopy
  /\ steers # <<>>
  /\ steers' = <<>>
  /\ turn' = [turn EXCEPT ![t] = [@ EXCEPT !.pc = "taken", !.taken = steers]]
  /\ UNCHANGED <<running, inputs, submits, goalVars, rewindVars, historyVars>>

\* Mutant of TurnAppendSteers: only the first of the steers is appended.
AppendFirstSteer(t) ==
  /\ turn[t].pc = "taken"
  /\ turn' = [turn EXCEPT ![t] = [@ EXCEPT !.pc = "loop", !.taken = <<>>]]
  /\ Enter({Head(turn[t].taken)}, "steer")
  /\ UNCHANGED <<running, inputs, steers, submits, goalVars, rewindVars, lost, reported,
                 cleared, failures, clears>>

TurnAppendSteers(t) ==
  /\ turn[t].pc = "taken"
  /\ turn' = [turn EXCEPT ![t] = [@ EXCEPT !.pc = "loop", !.taken = <<>>]]
  /\ Enter(SeqItems(turn[t].taken), "steer")
  /\ UNCHANGED <<running, inputs, steers, submits, goalVars, rewindVars, lost, reported,
                 cleared, failures, clears>>

\* The model answers and nothing steers the turn on.
TurnAnswer(t) ==
  /\ turn[t].pc = "loop"
  /\ copy[t] = NoCopy
  /\ steers = <<>>
  /\ Goto(t, "charge")
  /\ UNCHANGED <<running, inputs, steers, submits, goalVars, rewindVars, historyVars>>

\* An error of the model, a tool or the session store, at any point of the
\* turn: a message not yet in the log is gone with it.
TurnFails(t) ==
  /\ turn[t].pc \in {"starting", "loop", "taken"}
  /\ copy[t] = NoCopy
  /\ failures < MaxFailures
  /\ failures' = failures + 1
  /\ lost' = lost \cup SeqItems(turn[t].taken)
                  \cup (IF turn[t].pc = "starting" THEN {turn[t].msg} \cap Msgs ELSE {})
  /\ turn' = [turn EXCEPT ![t] = [@ EXCEPT !.pc = "charge", !.ok = FALSE,
                                         !.taken = <<>>]]
  /\ UNCHANGED <<running, inputs, steers, submits, goalVars, rewindVars, entered,
                 reported, cleared, clears>>

-----------------------------------------------------------------------------
(***************************************************************************)
(* meta.json: every change reads the whole file, changes it in memory and  *)
(* writes it back.                                                         *)
(***************************************************************************)
\* What a change makes of the status it has read.  A charge may use up the
\* goal's token budget; a touch is for updated_at only.
Outcomes(change) ==
  CASE change.op = "touch"    -> {change.status}
    [] change.op = "charge"   -> IF change.status = "active" THEN {"active", "limited"}
                                 ELSE {change.status}
    [] change.op \in {"set", "resume"} -> {"active"}
    [] change.op = "pause"    -> {"paused"}
    [] change.op = "clear"    -> {"none"}
    [] change.op = "complete" -> {"complete"}
    [] change.op = "block"    -> {"blocked"}

ReadMeta(w, op) ==
  /\ copy[w] = NoCopy
  /\ copy' = [copy EXCEPT ![w] = [op |-> op, status |-> goal]]
  /\ UNCHANGED goal

WriteMeta(w) ==
  /\ copy[w] # NoCopy
  /\ goal' \in Outcomes(copy[w])
  /\ copy' = [copy EXCEPT ![w] = NoCopy]

\* Every append to the session log touches meta.json; the model may also open
\* a goal where none is unfinished, or close the one there is.
TurnReadsMeta(t) ==
  /\ turn[t].pc = "loop"
  /\ \/ ReadMeta(t, "touch")
     \/ "set" \in ModelOps /\ goal \in {"none", "blocked", "limited", "complete"} /\ ReadMeta(t, "set")
     \/ goal # "none" /\ \E op \in ModelOps \ {"set"} : ReadMeta(t, op)
  /\ UNCHANGED <<queueVars, user, userOps, rewindVars, historyVars>>

TurnWritesMeta(t) ==
  /\ turn[t].pc = "loop"
  /\ WriteMeta(t)
  /\ UNCHANGED <<queueVars, user, userOps, rewindVars, historyVars>>

Charged(t) == IF turn[t].ok THEN "close" ELSE "block"

\* add_goal_usage
TurnReadsUsage(t) ==
  /\ turn[t].pc = "charge"
  /\ \/ goal = "none" /\ Goto(t, Charged(t)) /\ UNCHANGED <<goal, copy>>
     \/ goal # "none" /\ ReadMeta(t, "charge") /\ UNCHANGED turn
  /\ UNCHANGED <<running, inputs, steers, submits, user, userOps, rewindVars, historyVars>>

TurnWritesUsage(t) ==
  /\ turn[t].pc = "charge"
  /\ WriteMeta(t)
  /\ Goto(t, Charged(t))
  /\ UNCHANGED <<running, inputs, steers, submits, user, userOps, rewindVars, historyVars>>

\* block_active_goal_after_turn_error
TurnReadsGoalToBlock(t) ==
  /\ turn[t].pc = "block"
  /\ \/ goal # "active" /\ Goto(t, "close") /\ UNCHANGED <<goal, copy>>
     \/ goal = "active" /\ ReadMeta(t, "block") /\ UNCHANGED turn
  /\ UNCHANGED <<running, inputs, steers, submits, user, userOps, rewindVars, historyVars>>

TurnBlocksGoal(t) ==
  /\ turn[t].pc = "block"
  /\ WriteMeta(t)
  /\ Goto(t, "close")
  /\ UNCHANGED <<running, inputs, steers, submits, user, userOps, rewindVars, historyVars>>

-----------------------------------------------------------------------------
(***************************************************************************)
(* The end of a turn.                                                      *)
(***************************************************************************)
\* Mutant of TurnClose: steers that came too late stay where they are.
CloseLeavingSteers(t) ==
  /\ turn[t].pc = "close"
  /\ running' = FALSE
  /\ reported' = [m \in CronMsgs |-> reported[m] + (IF m = turn[t].msg THEN 1 ELSE 0)]
  /\ Goto(t, "goal")
  /\ UNCHANGED <<inputs, steers, submits, goalVars, rewindVars, entered, lost, cleared,
                 failures, clears>>

\* Mutant of TurnClose: the end of a failed scheduled task is not published.
CloseReportingSuccess(t) ==
  /\ turn[t].pc = "close"
  /\ running' = FALSE
  /\ inputs' = inputs \o [i \in 1..Len(steers) |-> Input(steers[i], turn[t].provider)]
  /\ steers' = <<>>
  /\ reported' = [m \in CronMsgs |->
                    reported[m] + (IF m = turn[t].msg /\ turn[t].ok THEN 1 ELSE 0)]
  /\ Goto(t, "goal")
  /\ UNCHANGED <<submits, goalVars, rewindVars, entered, lost, cleared, failures, clears>>

\* The end of a scheduled task is published; then, under the mutex, steers
\* that came too late are queued, and the turn gives up `running`.
TurnClose(t) ==
  /\ turn[t].pc = "close"
  /\ running' = FALSE
  /\ inputs' = inputs \o [i \in 1..Len(steers) |-> Input(steers[i], turn[t].provider)]
  /\ steers' = <<>>
  /\ reported' = [m \in CronMsgs |-> reported[m] + (IF m = turn[t].msg THEN 1 ELSE 0)]
  /\ Goto(t, "goal")
  /\ UNCHANGED <<submits, goalVars, rewindVars, entered, lost, cleared, failures, clears>>

\* Mutant of TurnReadsGoal: the goal is not looked at again after the turn.
ForgetGoal(t) ==
  /\ turn[t].pc = "goal"
  /\ Goto(t, "next")
  /\ UNCHANGED <<running, inputs, steers, submits, goalVars, rewindVars, historyVars>>

TurnReadsGoal(t) ==
  /\ turn[t].pc = "goal"
  /\ Goto(t, IF turn[t].ok /\ goal = "active" THEN "continue" ELSE "next")
  /\ UNCHANGED <<running, inputs, steers, submits, goalVars, rewindVars, historyVars>>

\* enqueue_goal_continuation_if_idle
EnqueueContinuation(provider) ==
  inputs' = IF HasWork THEN inputs ELSE Append(inputs, Input(GoalMsg, provider))

TurnContinuesGoal(t) ==
  /\ turn[t].pc = "continue"
  /\ EnqueueContinuation(turn[t].provider)
  /\ Goto(t, "next")
  /\ UNCHANGED <<running, steers, submits, goalVars, rewindVars, historyVars>>

TurnStartsNext(t) ==
  /\ turn[t].pc = "next"
  /\ MaybeStartNext([turn EXCEPT ![t] = Free])
  /\ UNCHANGED <<steers, submits, goalVars, rewindVars, historyVars>>

-----------------------------------------------------------------------------
(***************************************************************************)
(* The commands of the user: /goal, /new and /resume, /rewind.             *)
(***************************************************************************)
UserReads(op) ==
  /\ user = "idle"
  /\ userOps < MaxUserOps
  /\ op = "set" \/ goal # "none"
  /\ ReadMeta("user", op)
  /\ user' = "write"
  /\ userOps' = userOps + 1
  /\ UNCHANGED <<queueVars, rewindVars, historyVars>>

UserWrites ==
  /\ user = "write"
  /\ WriteMeta("user")
  /\ user' = IF copy["user"].op \in {"set", "resume"} THEN "check" ELSE "idle"
  /\ UNCHANGED <<queueVars, userOps, rewindVars, historyVars>>

\* continue_goal_if_idle
UserChecks ==
  /\ user = "check"
  /\ user' = IF goal = "active" THEN "enqueue" ELSE "idle"
  /\ UNCHANGED <<queueVars, goal, copy, userOps, rewindVars, historyVars>>

UserEnqueues ==
  /\ user = "enqueue"
  /\ EnqueueContinuation(TuiProvider)
  /\ user' = IF HasWork THEN "idle" ELSE "start"
  /\ UNCHANGED <<running, steers, submits, turn, goal, copy, userOps, rewindVars,
                 historyVars>>

UserStarts ==
  /\ user = "start"
  /\ MaybeStartNext(turn)
  /\ user' = "idle"
  /\ UNCHANGED <<steers, submits, goal, copy, userOps, rewindVars, historyVars>>

\* clear_session_runtime_state removes the session's entry whatever is in it.
RemoveEntry ==
  /\ running' = FALSE
  /\ inputs' = <<>>
  /\ steers' = <<>>
  /\ lost' = lost \cup (QueuedMsgs \cap Msgs) \cup SeqItems(steers)
  /\ cleared' = (cleared \/ running)

\* /new and /resume of a channel or the TUI, and a change of model.
Clear ==
  /\ clears < MaxClears
  /\ clears' = clears + 1
  /\ RemoveEntry
  /\ UNCHANGED <<submits, turn, goalVars, rewindVars, entered, reported, failures>>

RewindCheck ==
  /\ rewinder = "idle"
  /\ rewinds < MaxRewinds
  /\ ~HasWork
  /\ rewinder' = "checked"
  /\ UNCHANGED <<queueVars, goalVars, rewinds, historyVars>>

\* rewind_to_user_turn restores files and appends Rewound to the session log.
Rewind ==
  /\ rewinder = "checked"
  /\ rewinder' = "logged"
  /\ rewinds' = rewinds + 1
  /\ UNCHANGED <<queueVars, goalVars, historyVars>>

RewindClear ==
  /\ rewinder = "logged"
  /\ rewinder' = "idle"
  /\ RemoveEntry
  /\ UNCHANGED <<submits, turn, goalVars, rewinds, entered, reported, failures, clears>>

-----------------------------------------------------------------------------
MsgNext == \E m \in Msgs : Submit(m) \/ Kick(m)

TurnNext(t) ==
  \/ TurnBegin(t) \/ TurnTakeSteers(t) \/ TurnAppendSteers(t) \/ TurnAnswer(t)
  \/ TurnFails(t) \/ TurnReadsMeta(t) \/ TurnWritesMeta(t)
  \/ TurnReadsUsage(t) \/ TurnWritesUsage(t)
  \/ TurnReadsGoalToBlock(t) \/ TurnBlocksGoal(t)
  \/ TurnClose(t) \/ TurnReadsGoal(t) \/ TurnContinuesGoal(t) \/ TurnStartsNext(t)

UserNext ==
  \/ \E op \in UserOps : UserReads(op)
  \/ UserWrites \/ UserChecks \/ UserEnqueues \/ UserStarts

RewindNext == RewindCheck \/ Rewind \/ RewindClear

Next == MsgNext \/ (\E t \in TurnIds : TurnNext(t)) \/ UserNext \/ Clear \/ RewindNext

Spec == Init /\ [][Next]_vars

\* Threads are never abandoned.  Of the model it is assumed that a turn does
\* not call tools for ever: what may happen again and again between two tool
\* calls, an answer or the taking of steers, happens at last.
TurnProgress(t) ==
  \/ TurnBegin(t) \/ TurnAppendSteers(t) \/ TurnWritesMeta(t)
  \/ TurnReadsUsage(t) \/ TurnWritesUsage(t)
  \/ TurnReadsGoalToBlock(t) \/ TurnBlocksGoal(t)
  \/ TurnClose(t) \/ TurnReadsGoal(t) \/ TurnContinuesGoal(t) \/ TurnStartsNext(t)

FairSpec ==
  /\ Spec
  /\ \A m \in Msgs : WF_vars(Kick(m))
  /\ \A t \in TurnIds : /\ WF_vars(TurnProgress(t))
                        /\ SF_vars(TurnAnswer(t))
                        /\ SF_vars(TurnTakeSteers(t))
  /\ WF_vars(UserWrites \/ UserChecks \/ UserEnqueues \/ UserStarts)

-----------------------------------------------------------------------------
\* Submitters, ending turns, goal commands and rewinds all start turns, each in
\* two steps; two turns of a session run together only if the session's entry
\* was removed under a running turn.
TurnsOverlapOnlyAfterClear ==
  cleared \/ /\ \A s, t \in TurnIds : Active(s) /\ Active(t) => s = t
             /\ running <=> \E t \in TurnIds : Active(t)

Occurrences(m, s) == Cardinality({i \in DOMAIN s : s[i] = m})

InHand(m, t) ==
  (IF turn[t].pc = "starting" /\ turn[t].msg = m THEN 1 ELSE 0)
    + Occurrences(m, turn[t].taken)

Waiting(m) ==
  Cardinality({i \in DOMAIN inputs : inputs[i].msg = m}) + Occurrences(m, steers)

\* A submitted message is at every moment in exactly one place: waiting in one of
\* the queues, in the hand of one turn, in the session log, or lost to a failed
\* turn or a clear.  So none is answered twice, none vanishes between the queues.
EachMessageInOnePlace ==
  \A m \in Msgs :
    submits[m] # "new" =>
      \/ /\ m \in lost
         /\ Waiting(m) + entered[m].input + entered[m].steer = 0
         /\ \A t \in TurnIds : InHand(m, t) = 0
      \/ /\ m \notin lost
         /\ \E t \in TurnIds :
              /\ \A s \in TurnIds \ {t} : InHand(m, s) = 0
              /\ Waiting(m) + InHand(m, t) + entered[m].input + entered[m].steer = 1

\* cron.md: a scheduled task "is queued as a separate user input", is not merged
\* "into an unrelated user turn" and "keeps the cron-specific approval provider":
\* whatever steers and stranded steers go on around it, it enters the log as the
\* input of a turn of its own with its own provider.
CronRunsApart ==
  /\ \A m \in CronMsgs : entered[m].steer = 0
  /\ \A t \in TurnIds : turn[t].msg \in CronMsgs => turn[t].provider = turn[t].msg

\* A submitted message enters the session log, unless a failed turn or a clear
\* loses it; a message that comes when its turn is about to end is not stranded.
SubmittedIsEntered ==
  \A m \in Msgs :
    (submits[m] # "new") ~> (m \in lost \/ entered[m].input + entered[m].steer = 1)

\* The cron service learns the end of every scheduled task it submitted, failed
\* turns included, unless the task was lost in a queue that was cleared.
CronEndIsReported ==
  \A m \in CronMsgs :
    (submits[m] # "new") ~> (reported[m] = 1 \/ (m \in lost /\ clears + rewinds > 0))

\* A goal that is active, whoever made it so, gets a turn of its own or stops
\* being active, unless a turn fails or a queue is cleared meanwhile.
ActiveGoalIsPursued ==
  (goal = "active") ~> \/ goal # "active"
                       \/ \E t \in TurnIds : Active(t) /\ turn[t].msg = GoalMsg
                       \/ failures + clears + rewinds > 0
=============================================================================
