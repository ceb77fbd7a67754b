---------------------------- MODULE ModelContext ----------------------------
(***************************************************************************)
(* What the model sees of a session: the history a turn builds up          *)
(* (run_main_agent_loop in src/agent.rs, one model request in              *)
(* src/client.rs), shortened by src/context_projection.rs and turned into  *)
(* messages by project_to_model_messages in src/session.rs.                *)
(*                                                                         *)
(* A model request runs the tools the model calls, all of them, before     *)
(* anything is in the history; then the calls and the results are appended *)
(* one by one, and events of processes, which other threads and programs   *)
(* append as messages of the user, may come between any two of them.       *)
(*                                                                         *)
(* An item is known by its place in the history.  Texts are not empty.     *)
(* How much of a result is quoted is left out, not which results are told: *)
(* that is all the pressure on the context window changes.  Reasoning and  *)
(* approvals are left out too.                                             *)
(***************************************************************************)
EXTENDS Naturals, Sequences, FiniteSets, SequencesExt, TLC

CONSTANTS
  Ids,            \* call ids; a provider may use one again in a later answer
  None,
  MaxHistory,     \* bound on the items of the history
  MaxCalls,       \* bound on the tool calls of one answer
  MaxCompactions  \* bound on compactions

ASSUME ContextAssumption ==
  /\ None \notin Ids
  /\ Ids \cap Nat = {} /\ None \notin Nat
  /\ MaxHistory \in Nat \ {0} /\ MaxCalls \in Nat /\ MaxCompactions \in Nat

VARIABLES
  history,     \* replay_visible_history
  pc,          \* where the turn of the session is
  queue,       \* items of an answer that are not yet appended
  compactions

vars == <<history, pc, queue, compactions>>

Kinds == {"system", "user", "event", "assistant", "call", "result"}
Item == [kind : Kinds, id : Ids \cup {None}]
CallIds == Ids \cup 1 .. MaxHistory   \* a call without an id gets its place
Said(kind) == [kind |-> kind, id |-> None]

TypeOK ==
  /\ history \in Seq(Item) /\ Len(history) <= MaxHistory
  /\ pc \in {"idle", "ask", "append", "final"}
  /\ queue \in Seq(Item) /\ (queue # <<>> => pc = "append")
  /\ compactions \in Nat

Init ==
  /\ history = <<Said("system")>>
  /\ pc = "idle"
  /\ queue = <<>>
  /\ compactions = 0

-----------------------------------------------------------------------------
(***************************************************************************)
(* The turn.                                                               *)
(***************************************************************************)
Adds(items) == Len(history) + Len(items) <= MaxHistory /\ history' = history \o items

Begin ==
  /\ pc = "idle"
  /\ Adds(<<Said("user")>>)
  /\ pc' = "ask"
  /\ UNCHANGED <<queue, compactions>>

\* The calls of an answer come before their results, both in the same order.
CallsTools ==
  /\ pc = "ask"
  /\ \E n \in 1..MaxCalls : \E ids \in [1..n -> Ids] :
       /\ IsInjective(ids)
       /\ Len(history) + 2 * n <= MaxHistory
       /\ queue' = [k \in 1..n |-> [kind |-> "call", id |-> ids[k]]]
                   \o [k \in 1..n |-> [kind |-> "result", id |-> ids[k]]]
  /\ pc' = "append"
  /\ UNCHANGED <<history, compactions>>

\* Mutant of AppendNext: all the calls of an answer are appended, and the next
\* request is made, before the results are.
AsksTooEarly ==
  /\ pc = "append" /\ queue # <<>>
  /\ Adds(<<Head(queue)>>)
  /\ queue' = Tail(queue)
  /\ pc' = IF queue' # <<>> /\ Head(queue').kind = "result" THEN "ask" ELSE "append"
  /\ UNCHANGED compactions

AppendNext ==
  /\ pc = "append" /\ queue # <<>>
  /\ Adds(<<Head(queue)>>)
  /\ queue' = Tail(queue)
  /\ UNCHANGED <<pc, compactions>>

Answers ==
  /\ pc = "ask"
  /\ Adds(<<Said("assistant")>>)
  /\ pc' = "final"
  /\ UNCHANGED <<queue, compactions>>

\* append_pending_user_steer_message, and the next round of the loop.
TakeSteers ==
  /\ pc \in {"append", "final"} /\ queue = <<>>
  /\ Adds(<<Said("user")>>)
  /\ pc' = "ask"
  /\ UNCHANGED <<queue, compactions>>

NoSteers ==
  /\ pc \in {"append", "final"} /\ queue = <<>>
  /\ pc' = IF pc = "append" THEN "ask" ELSE "idle"
  /\ UNCHANGED <<history, queue, compactions>>

\* The request or an append fails, or the process dies: what is not appended
\* is gone.
Fails ==
  /\ pc # "idle"
  /\ pc' = "idle" /\ queue' = <<>>
  /\ UNCHANGED <<history, compactions>>

-----------------------------------------------------------------------------
(***************************************************************************)
(* Others who change the history.                                          *)
(***************************************************************************)
ProcessEvent ==
  /\ Adds(<<Said("event")>>)
  /\ UNCHANGED <<pc, queue, compactions>>

\* A rewind is refused while a turn runs.
Rewind ==
  /\ pc = "idle"
  /\ \E i \in DOMAIN history : /\ history[i].kind = "user"
                               /\ history' = SubSeq(history, 1, i - 1)
  /\ UNCHANGED <<pc, queue, compactions>>

\* What compact_session puts in the place of the items it takes away may be a
\* tool call or a result, with a call id or without, whether or not they match.
\* (SessionLog.tla has compactions that race with the appends of a turn.)
Compact ==
  /\ pc = "idle" /\ compactions < MaxCompactions
  /\ \E i \in 2..Len(history), last \in 2..Len(history) :
       \E new \in {Said("user"), Said("assistant")} \cup [kind : {"call", "result"}, id : Ids \cup {None}] :
         /\ i <= last
         /\ history' = SubSeq(history, 1, i - 1) \o <<new>>
                       \o SubSeq(history, last + 1, Len(history))
  /\ compactions' = compactions + 1
  /\ UNCHANGED <<pc, queue>>

Next ==
  \/ Begin \/ CallsTools \/ AppendNext \/ Answers \/ TakeSteers \/ NoSteers \/ Fails
  \/ ProcessEvent \/ Rewind \/ Compact

Spec == Init /\ [][Next]_vars

-----------------------------------------------------------------------------
(***************************************************************************)
(* The projection.  A message says what it tells of the history: texts, or *)
(* results and the call each is said to be of (0: of none).                *)
(***************************************************************************)
ByUser(item) == item.kind \in {"user", "event"}

Telling == [at : 1 .. MaxHistory, call : 0 .. MaxHistory]
Message == [kind : Kinds, id : CallIds \cup {None}, told : Seq(Telling)]

\* A process event is replayed as a message of the user.
Line(h, k) == [kind |-> IF ByUser(h[k]) THEN "user" ELSE h[k].kind, id |-> h[k].id,
               told |-> <<[at |-> k, call |-> 0]>>]
Lines(h, first, last) == [n \in 1 .. (last + 1 - first) |-> Line(h, first + n - 1)]

\* last_user_message_index: where the active loop starts, 0 without one.
LastUser(h) == CHOOSE k \in 0 .. Len(h) :
                 /\ k > 0 => ByUser(h[k])
                 /\ \A i \in k + 1 .. Len(h) : ~ByUser(h[i])

\* What a walk over calls and results has seen: the last call of an id, and the calls
\* that wait for a result.  A call without an id gets one of its own (resolve_call_id).
NothingSeen == [calls |-> [id \in CallIds |-> 0], pending |-> <<>>]
At(line)     == line.told[1].at
CallId(line) == IF line.id # None THEN line.id ELSE At(line)
SawCall(seen, line) == [calls |-> [seen.calls EXCEPT ![CallId(line)] = At(line)],
                        pending |-> Append(seen.pending, CallId(line))]

\* A result without a call id is taken for that of the oldest call that waits.
ResultId(seen, line) ==
  IF line.id = None /\ seen.pending # <<>> THEN Head(seen.pending) ELSE CallId(line)
ResultOf(seen, line) ==
  [at |-> At(line), call |-> seen.calls[ResultId(seen, line)]]
SawResult(seen, line) ==
  [seen EXCEPT !.pending = IF @ # <<>> /\ Head(@) = ResultId(seen, line) THEN Tail(@) ELSE @]

-----------------------------------------------------------------------------
\* project_completed_history: what is done, and the loop that is being gone over, with
\* the results and texts of the assistant that compact_completed_loop takes from it.
UsesTools(lines) == \E i \in DOMAIN lines : lines[i].kind \in {"call", "result"}
NewLoop(done) ==
  [done |-> done, loop |-> <<>>, results |-> <<>>, texts |-> <<>>, seen |-> NothingSeen]

\* Mutant of Closed: the results of a completed loop are left out of its summary.
Closed_Texts(s) ==
  s.done \o (IF UsesTools(s.loop)
             THEN SelectSeq(s.loop, LAMBDA line : line.kind \in {"user", "assistant"})
             ELSE s.loop)

\* A loop that uses tools becomes the message of the user it starts with, if there is
\* one, and a summary (compact_completed_loop).
Closed(s) ==
  s.done \o (IF UsesTools(s.loop)
             THEN (IF s.loop[1].kind = "user" THEN <<s.loop[1]>> ELSE <<>>)
                  \o <<[kind |-> "assistant", id |-> None, told |-> s.results \o s.texts]>>
             ELSE s.loop)

InLoop(s, line) ==
  LET longer == [s EXCEPT !.loop = Append(@, line)]
  IN CASE line.kind = "call"      -> [longer EXCEPT !.seen = SawCall(@, line)]
       [] line.kind = "result"    -> [longer EXCEPT !.results = Append(@, ResultOf(s.seen, line)),
                                                    !.seen = SawResult(@, line)]
       [] line.kind = "assistant" -> [longer EXCEPT !.texts = Append(@, line.told[1])]
       [] OTHER                   -> longer

\* A message of the user starts a loop; system messages before one stand for themselves.
GoneOver(s, line) ==
  IF line.kind = "system" /\ s.loop = <<>> THEN [s EXCEPT !.done = Append(@, line)]
  ELSE InLoop(IF line.kind = "user" THEN NewLoop(Closed(s)) ELSE s, line)

CompletedWalk(h, n) ==
  LET w[k \in 0 .. n] == IF k = 0 THEN NewLoop(<<>>) ELSE GoneOver(w[k - 1], Line(h, k))
  IN w
CompletedHistory(h, n) == Closed(CompletedWalk(h, n)[n])

\* project_main_history
MainHistory(h) ==
  LET active == LastUser(h)
  IN IF active = 0 THEN Lines(h, 1, Len(h))
     ELSE CompletedHistory(h, active - 1) \o Lines(h, active, Len(h))

-----------------------------------------------------------------------------
\* merge_adjacent_messages, one message of it.
MergedWith(done, m) ==
  IF /\ done # <<>> /\ Last(done).kind = m.kind
     /\ m.kind \notin {"call", "result"}
  THEN Append(Front(done), [Last(done) EXCEPT !.told = @ \o m.told])
  ELSE Append(done, m)
MergedWalk(ms) ==
  LET w[k \in 0 .. Len(ms)] == IF k = 0 THEN <<>> ELSE MergedWith(w[k - 1], ms[k])
  IN w
Merged(ms) == MergedWalk(ms)[Len(ms)]

\* Mutant of Sent: results of calls it does not know are sent.
Sent_Strays(s, m) ==
  CASE m.kind = "call"   -> [seen |-> SawCall(s.seen, m),
                             sent |-> Append(s.sent, [m EXCEPT !.id = CallId(m)])]
    [] m.kind = "result" -> [seen |-> SawResult(s.seen, m),
                             sent |-> Append(s.sent, [m EXCEPT !.id = ResultId(s.seen, m),
                                                               !.told = <<ResultOf(s.seen, m)>>])]
    [] OTHER             -> [s EXCEPT !.sent = Append(@, m)]

\* project_to_model_messages, one message of it: a result whose call it does not know is
\* left out.
Sent(s, m) ==
  CASE m.kind = "call"   -> [seen |-> SawCall(s.seen, m),
                             sent |-> Append(s.sent, [m EXCEPT !.id = CallId(m)])]
    [] m.kind = "result" ->
         IF ResultOf(s.seen, m).call = 0 THEN s
         ELSE [seen |-> SawResult(s.seen, m),
               sent |-> Append(s.sent, [m EXCEPT !.id = ResultId(s.seen, m),
                                                 !.told = <<ResultOf(s.seen, m)>>])]
    [] OTHER             -> [s EXCEPT !.sent = Append(@, m)]
SentWalk(ms) ==
  LET w[k \in 0 .. Len(ms)] ==
        IF k = 0 THEN [seen |-> NothingSeen, sent |-> <<>>] ELSE Sent(w[k - 1], ms[k])
  IN w
ToModelMessages(ms) == SentWalk(Merged(ms))[Len(Merged(ms))].sent

Messages == ToModelMessages(MainHistory(history))

\* All that messages tell, in their order.
TellingWalk(ms) ==
  LET w[k \in 0 .. Len(ms)] == IF k = 0 THEN <<>> ELSE w[k - 1] \o ms[k].told
  IN w
Told(ms) == TellingWalk(ms)[Len(ms)]

-----------------------------------------------------------------------------
\* Providers refuse a request with a call that has no result or a result that
\* has no call.  Wherever events, failures, rewinds and compactions have cut the
\* history, in each request calls and results of an id take turns, and nothing
\* is said between a call and its result.
CallsAreAnswered ==
  pc = "ask" =>
    LET m == Messages
        Answer(i, j) == /\ m[i].kind = "call" /\ m[j].kind = "result" /\ m[i].id = m[j].id
                        /\ \A n \in i + 1..j - 1 : /\ m[n].kind \in {"call", "result"}
                                                   /\ m[n].id # m[i].id
    IN \A i \in DOMAIN m :
         /\ m[i].kind = "call" => \E j \in i + 1..Len(m) : Answer(i, j)
         /\ m[i].kind = "result" => \E j \in 1..i - 1 : Answer(j, i)

\* Between call c and item k somebody spoke as the user.
Parted(c, k) == \E i \in c + 1..k - 1 : ByUser(history[i])

\* The call the program made for result k.
OwnCall(k) == CHOOSE c \in 1..k - 1 :
                /\ history[c].kind = "call" /\ history[c].id = history[k].id
                /\ \A i \in c + 1..k - 1 : history[i].kind = "call" => history[i].id # history[c].id

\* Each request tells every text of the history once and in order, and no result
\* twice, raw or in a summary.  A result is told with the call it was made for, even
\* if its id was used again, unless an event of a process came between the two:
\* then it is left out or told of no call.
ToldOnce ==
  pc = "ask" =>
    LET told == Told(Messages)
        isText(k) == history[k].kind \notin {"call", "result"}
        tellings(k) == {told[n] : n \in {i \in DOMAIN told : told[i].at = k}}
    IN /\ \A i \in DOMAIN told : told[i].at \in DOMAIN history
       /\ \A i, j \in DOMAIN told : i < j =>
            /\ told[i].at # told[j].at
            /\ isText(told[i].at) /\ isText(told[j].at) => told[i].at < told[j].at
       /\ \A k \in DOMAIN history :
            /\ isText(k) => tellings(k) # {}
            /\ history[k].kind = "result" /\ compactions = 0 =>
                 \/ tellings(k) = {[at |-> k, call |-> OwnCall(k)]}
                 \/ /\ Parted(OwnCall(k), k)
                    /\ tellings(k) \in {{}, {[at |-> k, call |-> 0]}}
=============================================================================
