--------------------------- MODULE GatewayDelivery ---------------------------
(***************************************************************************)
(* How an answer reaches a chat (src/gateway/mod.rs): turns publish events *)
(* on the agent's bus, and the bridge, one thread, turns them into         *)
(* messages, edits of a streamed message and typing signs of a channel     *)
(* whose calls may fail, while /new may take the chat away.                *)
(***************************************************************************)
EXTENDS Naturals, Sequences, FiniteSets, SequencesExt

CONSTANTS NTurns,       \* bound on the turns of the session
          Pieces,       \* how many stream deltas an answer of a turn has
          Limit,        \* stream_text_limit, in pieces
          Prefix,       \* pieces shown of a longer text (limit without the suffix)
          Channels,     \* adapters by what they can do
          Thinking, Retrying, Failed,  \* the texts that are not an answer's
          More,         \* STREAM_CONTINUED_SUFFIX
          None,
          MaxRounds,    \* bound on rounds with tool calls, of all turns
          MaxRetries,   \* bound on retries of model requests, of all turns
          MaxFailures,  \* bound on failing calls of the channel
          MaxQueue      \* bound on how far the bridge is behind

Turns   == 1 .. NTurns
Answers == Turns \X (1 .. MaxRounds + 1)
Piece(a, k) == <<a, k>>
Parts(a)    == 1 .. Pieces[a[1]]
Attempt(k)  == <<Retrying, k>>
Answer(a)   == [k \in Parts(a) |-> Piece(a, k)]
Attempts    == {Attempt(k) : k \in 1 .. MaxRetries}
AllPieces   == UNION {{Piece(a, k) : k \in Parts(a)} : a \in Answers}
Symbols     == {Thinking, Failed, More} \cup Attempts \cup AllPieces
Events      == [kind : {"started", "finished", "status", "error", "delta", "message"},
                answer : Answers, piece : Nat]
\* GatewayStreamState; its update_blocked only comes with disabled.
StreamState == [buffer : Seq(AllPieces), sent : Seq(Symbols), handle : Nat,
                disabled : BOOLEAN, updates : Nat]

ASSUME ConstantsAreSound ==
  /\ NTurns \in Nat
  /\ Pieces \in [Turns -> Nat \ {0}] /\ Limit \in Nat \ {0} /\ Prefix \in 1 .. Limit
  /\ Channels \subseteq [typing : BOOLEAN, editable : BOOLEAN, budget : Nat]
  /\ MaxRounds \in Nat
  /\ MaxRetries \in Nat /\ MaxFailures \in Nat /\ MaxQueue \in Nat
  /\ None \notin StreamState

\* What the gateway says of its own is not what an answer says.
ASSUME TextsDiffer ==
  /\ Thinking # Failed /\ More \notin {Thinking, Failed}
  /\ Retrying \notin Answers
  /\ {Thinking, Failed, More} \cap (Attempts \cup AllPieces) = {}

VARIABLES
  channel,   \* the chat's: typing signs instead of a placeholder (capabilities().typing),
             \* streamed messages (send_stream_start gives a handle), stream_update_budget
  turn,      \* where each turn is
  round,     \* its model request
  told,      \* deltas published of the round
  rounds, retries,  \* how many rounds with tool calls and retries there have been
  queue,     \* the bridge's receiver
  cached,    \* routes_by_session has the session
  mapped,    \* the chat's mapping is the session
  command,   \* the progress of a /new
  stream,    \* GatewayStreamState of the session, or None
  chat,      \* what the chat shows, in order
  typing,    \* the session's typing flag
  failures,
  given,     \* history: the answers the bridge has dealt with
  unsent,    \* history: those whose last send failed
  astray     \* history: those finished while their message showed something else

turnVars    == <<turn, round, told, rounds, retries>>
routeVars   == <<cached, mapped, command>>
viewVars    == <<stream, chat, failures, given, unsent, astray>>
vars == <<channel, turnVars, queue, routeVars, viewVars, typing>>

Fresh == [buffer |-> <<>>, sent |-> <<>>, handle |-> 0, disabled |-> FALSE, updates |-> 0]

\* The types; and no message streamed into is edited more often than its channel allows
\* (push_stream_delta), nor is one that the chat does not hold.
DeliveryTypeOK ==
  /\ channel \in Channels /\ typing \in BOOLEAN
  /\ turn \in [Turns -> {"new", "request", "stream", "tools", "waiting", "ended", "closed", "over", "reviewed"}]
  /\ round \in [Turns -> 1 .. MaxRounds + 1] /\ told \in [Turns -> Nat]
  /\ rounds \in 0 .. MaxRounds /\ retries \in 0 .. MaxRetries
  /\ queue \in Seq(Events) /\ Len(queue) <= MaxQueue
  /\ cached \in BOOLEAN /\ mapped \in BOOLEAN /\ command \in {"none", "begun", "done"}
  /\ \/ stream = None
     \/ stream \in StreamState /\ stream.handle <= Len(chat) /\ stream.updates <= channel.budget
  /\ chat \in Seq(Seq(Symbols)) /\ failures \in 0 .. MaxFailures
  /\ given \subseteq Answers /\ unsent \subseteq given /\ astray \subseteq given

Init ==
  /\ channel \in Channels /\ typing = FALSE
  /\ turn = [t \in Turns |-> "new"] /\ round = [t \in Turns |-> 1]
  /\ told = [t \in Turns |-> 0] /\ rounds = 0 /\ retries = 0
  /\ queue = <<>> /\ cached = TRUE /\ mapped = TRUE /\ command = "none"
  /\ stream = None /\ chat = <<>> /\ failures = 0
  /\ given = {} /\ unsent = {} /\ astray = {}

-----------------------------------------------------------------------------
(* The turns of the session and the events they publish *)

Event(t, kind, piece) == [kind |-> kind, answer |-> <<t, round[t]>>, piece |-> piece]
Publish(t, kind, piece) ==
  /\ Len(queue) < MaxQueue
  /\ queue' = Append(queue, Event(t, kind, piece))
Enter(t, place) == turn' = [turn EXCEPT ![t] = place]

TurnStarts(t) ==
  /\ turn[t] = "new" /\ Enter(t, "request")
  /\ t > 1 => turn[t - 1] \in {"closed", "over", "reviewed"}
  /\ Publish(t, "started", 0)
  /\ UNCHANGED <<channel, round, told, rounds, retries, routeVars, viewVars, typing>>

\* A failed request is retried only before it has streamed anything.
TurnRetries(t) ==
  /\ turn[t] = "request" /\ retries < MaxRetries
  /\ retries' = retries + 1
  /\ Publish(t, "status", retries')
  /\ UNCHANGED <<channel, turn, round, told, rounds, routeVars, viewVars, typing>>

TurnStreams(t) ==
  /\ turn[t] \in {"request", "stream"} /\ told[t] < Pieces[t] /\ Enter(t, "stream")
  /\ told' = [told EXCEPT ![t] = @ + 1]
  /\ Publish(t, "delta", told'[t])
  /\ UNCHANGED <<channel, round, rounds, retries, routeVars, viewVars, typing>>

\* The whole text; more rounds follow when it came with tool calls.
TurnAnswers(t) ==
  /\ turn[t] = "stream" /\ told[t] = Pieces[t]
  /\ \/ Enter(t, "ended") /\ UNCHANGED rounds
     \/ Enter(t, "tools") /\ rounds < MaxRounds /\ rounds' = rounds + 1
  /\ Publish(t, "message", 0)
  /\ UNCHANGED <<channel, round, told, retries, routeVars, viewVars, typing>>

TurnGoesOn(t) ==
  /\ turn[t] = "tools" /\ Enter(t, "request")
  /\ round' = [round EXCEPT ![t] = @ + 1] /\ told' = [told EXCEPT ![t] = 0]
  /\ UNCHANGED <<channel, rounds, retries, queue, routeVars, viewVars, typing>>

\* A tool call asks for an approval: the turn's own thread stops the typing sign, and
\* starts it again when the call is approved.
TurnAsks(t) ==
  /\ turn[t] = "tools" /\ Enter(t, "waiting")
  /\ typing' = FALSE
  /\ UNCHANGED <<channel, round, told, rounds, retries, queue, routeVars, viewVars>>

TurnHears(t) ==
  /\ turn[t] = "waiting" /\ Enter(t, "tools")
  /\ typing' \in {typing, TRUE}
  /\ UNCHANGED <<channel, round, told, rounds, retries, queue, routeVars, viewVars>>

TurnFails(t) ==
  /\ turn[t] \in {"request", "stream", "tools"} /\ Enter(t, "ended")
  /\ Publish(t, "error", 0)
  /\ UNCHANGED <<channel, round, told, rounds, retries, routeVars, viewVars, typing>>

\* main_turn_running is cleared before the end is published; from here on the next
\* turn may start.
TurnCloses(t) ==
  /\ turn[t] = "ended" /\ Enter(t, "closed")
  /\ UNCHANGED <<channel, round, told, rounds, retries, queue, routeVars, viewVars, typing>>

\* Mutant of TurnFinishes: the end of a turn is not published.
TurnFinishes_Silent(t) ==
  /\ turn[t] = "closed" /\ Enter(t, "over")
  /\ UNCHANGED <<channel, round, told, rounds, retries, queue, routeVars, viewVars, typing>>

TurnFinishes(t) ==
  /\ turn[t] = "closed" /\ Enter(t, "over")
  /\ Publish(t, "finished", 0)
  /\ UNCHANGED <<channel, round, told, rounds, retries, routeVars, viewVars, typing>>

\* The memory review that follows a turn fails, and says so as an error of the session.
ReviewFails(t) ==
  /\ turn[t] = "over" /\ Enter(t, "reviewed")
  /\ Publish(t, "error", 0)
  /\ UNCHANGED <<channel, round, told, rounds, retries, routeVars, viewVars, typing>>

-----------------------------------------------------------------------------
(* /new: the session's route and stream are removed, then the mapping is set *)

NewBegins ==
  /\ command = "none" /\ command' = "begun"
  /\ cached' = FALSE /\ stream' = None
  /\ UNCHANGED <<channel, turnVars, queue, mapped, chat, failures, given, unsent, astray, typing>>

NewMoves ==
  /\ command = "begun" /\ command' = "done"
  /\ mapped' = FALSE
  /\ UNCHANGED <<channel, turnVars, queue, cached, viewVars, typing>>

-----------------------------------------------------------------------------
(* The bridge *)

\* split_stream_text: what a streamed message can hold, and the rest.
Shown(text) == IF Len(text) <= Limit THEN text ELSE Append(SubSeq(text, 1, Prefix), More)
Rest(text)  == IF Len(text) <= Limit THEN <<>> ELSE SubSeq(text, Prefix + 1, Len(text))

\* stream_fallback_remainder: what is to be sent when the streamed message cannot be
\* edited any more.
Plain(sent) == IF sent # <<>> /\ Last(sent) = More THEN Front(sent) ELSE sent
IsBeginning(sent, text) == Plain(sent) # <<>> /\ IsPrefix(Plain(sent), text)
\* Mutant of Fallback: what the broken stream shows is forgotten.
Fallback_Whole(text, sent) == IF Rest(text) # <<>> THEN Rest(text) ELSE text

Fallback(text, sent) ==
  IF IsBeginning(sent, text) THEN SubSeq(text, Len(Plain(sent)) + 1, Len(text))
  ELSE IF Rest(text) # <<>> THEN Rest(text) ELSE text

\* An outcome of a handler: what the chat shows, the stream, the failed calls, and what
\* is to be said of the answer.
Outcome(c, s, cost, marks) == [chat |-> c, stream |-> s, cost |-> cost, marks |-> marks]

\* send_message.
Sends(c, text, s, cost, marks) ==
  IF text = <<>> THEN {Outcome(c, s, cost, marks)}
  ELSE {Outcome(Append(c, text), s, cost, marks), Outcome(c, s, cost + 1, marks \cup {"unsent"})}

\* send_stream_start with what follows in each case: a handle, no handle, an error.
Started(s, text) == [s EXCEPT !.handle = Len(chat) + 1, !.sent = text]
Starts(text, s, refused, failed) ==
  IF channel.editable
  THEN {Outcome(Append(chat, text), Started(s, text), 0, {})} \cup failed
  ELSE refused

\* update_stream.
Edited(h, text) == [chat EXCEPT ![h] = text]
Updated(s, text) == [s EXCEPT !.sent = text, !.updates = @ + 1]
Edit(s, text) == Outcome(Edited(s.handle, text), Updated(s, text), 0, {})

\* start_immediate_feedback, after clear_stream.
Placeholder ==
  Starts(<<Thinking>>, Fresh, Sends(chat, <<Thinking>>, None, 0, {}),
                              Sends(chat, <<Thinking>>, None, 1, {}))

Entry == IF stream = None THEN Fresh ELSE stream

\* push_stream_delta; whether there is enough text or time for a call is open.
Grown(piece) == IF Entry.disabled THEN Entry ELSE [Entry EXCEPT !.buffer = Append(@, piece)]
Stopped(s)   == [s EXCEPT !.disabled = TRUE]
Delta(piece) ==
  LET s == Grown(piece)
      p == Shown(s.buffer)
      Same(x, cost) == {Outcome(chat, x, cost, {})}
  IN IF s.disabled \/ p = s.sent THEN Same(s, 0)
     ELSE IF s.handle = 0 THEN Same(s, 0) \cup Starts(p, s, Same(Stopped(s), 0), Same(Stopped(s), 1))
     ELSE IF s.updates >= channel.budget THEN Same(Stopped(s), 0)
     ELSE {Edit(s, p)} \cup Same(s, 0) \cup Same(Stopped(s), 1)

\* Mutant of Status: the budget of edits is not asked for.
Status_Unlimited(p) ==
  LET s == Entry
  IN IF s.sent = p THEN {Outcome(chat, s, 0, {})}
     ELSE IF s.handle = 0 THEN Starts(p, s, Sends(chat, p, s, 0, {}), Sends(chat, p, s, 1, {}))
     ELSE {Edit(s, p)} \cup Sends(chat, p, s, 1, {})

\* push_status_preview.
Status(p) ==
  LET s == Entry
  IN IF s.sent = p THEN {Outcome(chat, s, 0, {})}
     ELSE IF s.handle = 0 THEN Starts(p, s, Sends(chat, p, s, 0, {}), Sends(chat, p, s, 1, {}))
     ELSE IF s.updates >= channel.budget THEN Sends(chat, p, s, 0, {})
     ELSE {Edit(s, p)} \cup Sends(chat, p, s, 1, {})

\* Mutant of Finish: the streamed message is not edited, the answer is sent.
Finish_Sends(text) == Sends(chat, text, None, 0, {})

\* finish_stream, and what its caller sends after it.
Finish(text) ==
  LET s == stream
      off == IF IsBeginning(s.sent, text) THEN {} ELSE {"astray"}
  IN IF s = None THEN Sends(chat, text, None, 0, {})
     ELSE IF s.handle = 0 THEN Sends(chat, text, None, 0, {})
     ELSE IF s.disabled THEN Sends(chat, Fallback(text, s.sent), None, 0, off)
     ELSE Sends(Edited(s.handle, Shown(text)), Rest(text), None, 0, {})
          \cup IF Shown(text) = s.sent THEN {}
               ELSE Sends(chat, Fallback(text, s.sent), None, 1, off)

Apply(o) ==
  /\ chat' = o.chat /\ stream' = o.stream
  /\ failures' = failures + o.cost /\ failures' <= MaxFailures

OnStarted ==
  /\ \/ channel.typing /\ typing' = TRUE /\ stream' = None /\ UNCHANGED <<chat, failures>>
     \/ ~channel.typing /\ typing' = typing /\ \E o \in Placeholder : Apply(o)
  /\ UNCHANGED <<given, unsent, astray>>

OnFinished == typing' = FALSE /\ UNCHANGED viewVars

OnStatus(e) ==
  /\ \E o \in Status(<<Attempt(e.piece)>>) : Apply(o)
  /\ UNCHANGED <<typing, given, unsent, astray>>

OnError ==
  /\ typing' = FALSE /\ \E o \in Finish(<<Failed>>) : Apply(o)
  /\ UNCHANGED <<given, unsent, astray>>

OnDelta(e) ==
  /\ \E o \in Delta(Piece(e.answer, e.piece)) : Apply(o)
  /\ UNCHANGED <<typing, given, unsent, astray>>

OnMessage(e) ==
  \E o \in Finish(Answer(e.answer)) :
     /\ Apply(o) /\ typing' = typing
     /\ given' = given \cup {e.answer}
     /\ unsent' = IF "unsent" \in o.marks THEN unsent \cup {e.answer} ELSE unsent
     /\ astray' = IF "astray" \in o.marks THEN astray \cup {e.answer} ELSE astray

Handled(e) == \/ e.kind = "started" /\ OnStarted
              \/ e.kind = "finished" /\ OnFinished
              \/ e.kind = "status" /\ OnStatus(e)
              \/ e.kind = "error" /\ OnError
              \/ e.kind = "delta" /\ OnDelta(e)
              \/ e.kind = "message" /\ OnMessage(e)

\* An event of a session without a chat is dropped; a route that is found is cached.
Deliver ==
  /\ queue # <<>> /\ queue' = Tail(queue)
  /\ \/ (cached \/ mapped) /\ cached' = TRUE /\ Handled(Head(queue))
     \/ ~cached /\ ~mapped /\ UNCHANGED <<cached, viewVars, typing>>
  /\ UNCHANGED <<channel, turnVars, mapped, command>>

Next == \/ \E t \in Turns : \/ TurnStarts(t) \/ TurnRetries(t) \/ TurnStreams(t) \/ TurnAnswers(t)
                            \/ TurnGoesOn(t) \/ TurnAsks(t) \/ TurnHears(t) \/ TurnFails(t)
                            \/ TurnCloses(t) \/ TurnFinishes(t) \/ ReviewFails(t)
        \/ NewBegins \/ NewMoves \/ Deliver

Spec == Init /\ [][Next]_vars

-----------------------------------------------------------------------------
Times(a, k) == Cardinality({i \in DOMAIN chat : Piece(a, k) \in Range(chat[i])})

\* Neither /new nor the error of a memory review has taken a stream from its turn.
Undisturbed == command = "none" /\ \A t \in Turns : turn[t] # "reviewed"

\* What the bridge has dealt with is in the chat and stays there: each piece of an
\* answer in one message, whatever came of its stream.  When the stream broke down
\* while its message showed something else, the rest is sent; the beginning of a long
\* answer is then lost, and of a short one nothing (finish_stream,
\* stream_fallback_remainder).
AnswerIsShown ==
  \A a \in given \ unsent :
     /\ Undisturbed /\ a \notin astray => \A k \in Parts(a) : Times(a, k) = 1
     /\ \A k \in Parts(a) : k > Prefix => Times(a, k) >= 1
     /\ Len(Answer(a)) <= Limit => \A k \in Parts(a) : Times(a, k) >= 1

Quiet == queue = <<>> /\ \A t \in Turns : turn[t] \in {"new", "over", "reviewed"}

\* No typing sign outlives the turns, unless /new took the chat away from one.
TypingEnds == Quiet /\ command = "none" => ~typing

\* With a channel that edits and does not fail, no placeholder is left standing when the
\* turns are over, and no retry status unless the retries used up the edits.
NothingLeftStanding ==
  Quiet /\ channel.editable /\ failures = 0 /\ Undisturbed =>
    \A i \in DOMAIN chat :
       /\ channel.budget > 0 => chat[i] # <<Thinking>>
       /\ channel.budget > retries => \A k \in 1 .. retries : chat[i] # <<Attempt(k)>>
=============================================================================
