----------------------- MODULE GatewayDelivery_proofs ------------------------
(***************************************************************************)
(* Theorems about GatewayDelivery, for any turns, channels, texts and      *)
(* bounds: the types, and its three safety invariants.                     *)
(***************************************************************************)
EXTENDS GatewayDelivery, SequenceTheorems, FiniteSetTheorems, TLAPS

Kinds == {"started", "finished", "status", "error", "delta", "message"}
Text  == Seq(Symbols)
Texts == Seq(Text)
Fits(s, c) == \/ s = None
              \/ s \in StreamState /\ s.handle <= Len(c) /\ s.updates <= channel.budget

-----------------------------------------------------------------------------
(* Types *)

\* Published pieces and retries are ones that can be.
EventsAreReal ==
  \A i \in DOMAIN queue :
     /\ queue[i].kind = "delta" => queue[i].piece \in Parts(queue[i].answer)
     /\ queue[i].kind = "status" => queue[i].piece \in 1 .. retries

\* A turn that is in a further round has been through one with tool calls.
RoundsInv ==
  \A t \in Turns : /\ round[t] <= rounds + 1
                   /\ turn[t] \in {"tools", "waiting"} => round[t] <= rounds

TypeInv == DeliveryTypeOK /\ EventsAreReal /\ RoundsInv

LEMMA TypeParts ==
  ASSUME DeliveryTypeOK
  PROVE  /\ channel \in Channels /\ channel.budget \in Nat /\ Fits(stream, chat)
         /\ chat \in Texts /\ failures \in Nat /\ queue \in Seq(Events)
  BY ConstantsAreSound DEF DeliveryTypeOK, Fits, Text, Texts

LEMMA WordsAreSymbols ==
  /\ Thinking \in Symbols /\ Failed \in Symbols /\ More \in Symbols
  /\ \A k \in 1 .. MaxRetries : Attempt(k) \in Symbols
  /\ \A a \in Answers : \A k \in Parts(a) : Piece(a, k) \in AllPieces
  /\ AllPieces \subseteq Symbols
  /\ \A x \in Symbols : <<x>> \in Text
  BY DEF Symbols, Attempts, AllPieces, Text

LEMMA PiecesAreText == \A s \in Seq(AllPieces) : s \in Text
  BY WordsAreSymbols, SeqMonotonic DEF Text

LEMMA AnswersAreTexts ==
  ASSUME NEW a \in Answers
  PROVE  /\ Pieces[a[1]] \in Nat \ {0} /\ Parts(a) = 1 .. Pieces[a[1]]
         /\ Answer(a) \in Text /\ Len(Answer(a)) = Pieces[a[1]]
         /\ \A k \in Parts(a) : Answer(a)[k] = Piece(a, k)
<1>1. a[1] \in Turns /\ Pieces[a[1]] \in Nat \ {0}
  BY ConstantsAreSound DEF Answers
<1>2. Parts(a) = 1 .. Pieces[a[1]]
  BY DEF Parts
<1>3. \A k \in 1 .. Pieces[a[1]] : Piece(a, k) \in Symbols
  BY <1>2, WordsAreSymbols
<1>4. Answer(a) \in [1 .. Pieces[a[1]] -> Symbols]
  BY <1>2, <1>3 DEF Answer
<1>5. Answer(a) \in Seq(Symbols)
  BY <1>1, <1>4
<1>6. Len(Answer(a)) = Pieces[a[1]]
  BY <1>1, <1>4, <1>5, LenProperties
<1> QED BY <1>1, <1>2, <1>5, <1>6 DEF Answer, Text

\* What is cut from a text is a text.
LEMMA CutsAreTexts ==
  ASSUME NEW text \in Text, NEW m \in Nat \ {0}, NEW n \in Nat, n <= Len(text)
  PROVE  /\ SubSeq(text, m, n) \in Text
         /\ Len(SubSeq(text, m, n)) = IF m <= n THEN n - m + 1 ELSE 0
         /\ \A i \in 1 .. n - m + 1 : SubSeq(text, m, n)[i] = text[m + i - 1]
<1>1. text \in Seq(Symbols) /\ Len(text) \in Nat
  BY LenProperties DEF Text
<1>2. \A i \in m .. n : text[i] \in Symbols
  BY <1>1, ElementOfSeq
<1> QED BY <1>1, <1>2, SubSeqProperties DEF Text

LEMMA ShownIsText ==
  ASSUME NEW text \in Text PROVE Shown(text) \in Text /\ Rest(text) \in Text
<1>1. text \in Seq(Symbols) /\ Len(text) \in Nat /\ Prefix \in Nat /\ Limit \in Nat /\ Prefix <= Limit
  BY LenProperties, ConstantsAreSound DEF Text
<1>2. <<>> \in Text
  BY DEF Text
<1>3. CASE Len(text) <= Limit
  BY <1>2, <1>3 DEF Shown, Rest
<1>4. CASE Len(text) > Limit
  <2>1. SubSeq(text, 1, Prefix) \in Text /\ SubSeq(text, Prefix + 1, Len(text)) \in Text
    BY <1>1, <1>4, CutsAreTexts
  <2>2. Append(SubSeq(text, 1, Prefix), More) \in Text
    BY <2>1, WordsAreSymbols, AppendProperties DEF Text
  <2> QED BY <1>1, <1>4, <2>1, <2>2 DEF Shown, Rest
<1> QED BY <1>1, <1>3, <1>4

LEMMA PlainIsText ==
  ASSUME NEW sent \in Text PROVE Plain(sent) \in Text /\ Len(Plain(sent)) \in Nat
<1>1. sent \in Seq(Symbols) /\ Len(sent) \in Nat
  BY LenProperties DEF Text
<1>2. CASE sent # <<>> /\ Last(sent) = More
  <2>1. Len(sent) \in Nat \ {0}
    BY <1>1, <1>2, EmptySeq
  <2>2. SubSeq(sent, 1, Len(sent) - 1) \in Text
    BY <1>1, <2>1, CutsAreTexts
  <2> QED BY <1>2, <2>2, LenProperties DEF Plain, Front, Text
<1>3. CASE ~(sent # <<>> /\ Last(sent) = More)
  BY <1>1, <1>3 DEF Plain
<1> QED BY <1>2, <1>3

LEMMA FallbackIsText ==
  ASSUME NEW text \in Text, NEW sent \in Text PROVE Fallback(text, sent) \in Text
<1>1. text \in Seq(Symbols) /\ Len(text) \in Nat
  BY LenProperties DEF Text
<1>2. SubSeq(text, Len(Plain(sent)) + 1, Len(text)) \in Text
  BY <1>1, PlainIsText, CutsAreTexts
<1> QED BY <1>2, ShownIsText DEF Fallback
-----------------------------------------------------------------------------
(* What a handler may do *)

\* The outcomes of a send: the message is there, or the failure is counted.
IsSend(o, c, text, s, cost, marks) ==
  /\ o.stream = s
  /\ \/ text = <<>> /\ o.chat = c /\ o.cost = cost /\ o.marks = marks
     \/ text # <<>> /\ o.chat = Append(c, text) /\ o.cost = cost /\ o.marks = marks
     \/ o.chat = c /\ o.cost = cost + 1 /\ o.marks = marks \cup {"unsent"}
LEMMA SendsOutcomes ==
  ASSUME NEW c, NEW text, NEW s, NEW cost, NEW marks,
         NEW o \in Sends(c, text, s, cost, marks)
  PROVE  IsSend(o, c, text, s, cost, marks)
<1>1. \/ text = <<>> /\ o = Outcome(c, s, cost, marks)
      \/ text # <<>> /\ o = Outcome(Append(c, text), s, cost, marks)
      \/ text # <<>> /\ o = Outcome(c, s, cost + 1, marks \cup {"unsent"})
  BY Zenon DEF Sends
<1>2. ASSUME NEW d, NEW k, NEW m, o = Outcome(d, s, k, m)
      PROVE  o.stream = s /\ o.chat = d /\ o.cost = k /\ o.marks = m
  BY <1>2, Zenon DEF Outcome
<1> QED BY <1>1, <1>2, Zenon DEF IsSend

\* The stream after a start and after an edit.
LEMMA StartFields ==
  ASSUME NEW s \in StreamState, NEW text \in Text, Len(chat) \in Nat
  PROVE  /\ Started(s, text) \in StreamState
         /\ Started(s, text).handle = Len(chat) + 1 /\ Started(s, text).sent = text
         /\ Started(s, text).updates = s.updates /\ Started(s, text).buffer = s.buffer
         /\ Started(s, text).disabled = s.disabled
<1>1. Len(chat) + 1 \in Nat
  OBVIOUS
<1> QED BY <1>1 DEF StreamState, Text, Started

LEMMA UpdateFields ==
  ASSUME NEW s \in StreamState, NEW text \in Text
  PROVE  /\ Updated(s, text) \in StreamState
         /\ Updated(s, text).handle = s.handle /\ Updated(s, text).sent = text
         /\ Updated(s, text).updates = s.updates + 1 /\ Updated(s, text).buffer = s.buffer
         /\ Updated(s, text).disabled = s.disabled
<1>1. s.updates + 1 \in Nat
  BY DEF StreamState
<1>2. Updated(s, text) \in StreamState
  BY <1>1 DEF StreamState, Text, Updated
<1>3. /\ Updated(s, text).handle = s.handle /\ Updated(s, text).sent = text
      /\ Updated(s, text).buffer = s.buffer /\ Updated(s, text).disabled = s.disabled
  BY <1>1 DEF StreamState, Text, Updated
<1>4. Updated(s, text).updates = s.updates + 1
  BY <1>1 DEF StreamState, Text, Updated
<1> QED BY <1>2, <1>3, <1>4

\* An edited chat has the same messages but one, a longer one the same and one more.
LEMMA EditedChat ==
  ASSUME DeliveryTypeOK, NEW h \in Nat, h # 0, h <= Len(chat), NEW text \in Text
  PROVE  /\ h \in DOMAIN chat /\ Edited(h, text) \in Texts /\ Len(Edited(h, text)) = Len(chat)
         /\ DOMAIN Edited(h, text) = DOMAIN chat
         /\ \A i \in DOMAIN chat : Edited(h, text)[i] = IF i = h THEN text ELSE chat[i]
<1>1. chat \in Seq(Text) /\ Len(chat) \in Nat /\ DOMAIN chat = 1 .. Len(chat)
  BY TypeParts, LenProperties DEF Texts
<1>2. h \in 1 .. Len(chat)
  BY <1>1
<1> QED BY <1>1, <1>2, ExceptSeq, LenProperties DEF Edited, Texts

LEMMA LongerChat ==
  ASSUME NEW c \in Texts, NEW text \in Text
  PROVE  /\ Append(c, text) \in Texts /\ Len(Append(c, text)) = Len(c) + 1 /\ Len(c) \in Nat
         /\ DOMAIN c = 1 .. Len(c) /\ DOMAIN Append(c, text) = 1 .. Len(c) + 1
         /\ \A i \in DOMAIN c : Append(c, text)[i] = c[i]
         /\ Append(c, text)[Len(c) + 1] = text
  BY AppendProperties, LenProperties DEF Texts

\* The entry a handler works on is the stream or a fresh one.
LEMMA EntryFits ==
  ASSUME DeliveryTypeOK
  PROVE  /\ Fits(Fresh, chat) /\ Fresh \in StreamState
         /\ Fits(Entry, chat) /\ Entry \in StreamState
<1>1. <<>> \in Seq(Symbols) /\ <<>> \in Seq(AllPieces) /\ Len(chat) \in Nat /\ channel.budget \in Nat
  BY TypeParts, LenProperties DEF Texts
<1>2. Fits(Fresh, chat) /\ Fresh \in StreamState
  BY <1>1 DEF Fresh, StreamState, Fits
<1> QED BY <1>2, TypeParts, ConstantsAreSound DEF Entry, Fits

GoodOutcome(o) ==
  /\ o.chat \in Texts /\ Len(o.chat) >= Len(chat) /\ Fits(o.stream, o.chat) /\ o.cost \in Nat

LEMMA Builds ==
  ASSUME NEW c \in Texts, Len(c) >= Len(chat), NEW s, Fits(s, c), NEW cost \in Nat, NEW marks
  PROVE  GoodOutcome(Outcome(c, s, cost, marks))
  BY Zenon DEF GoodOutcome, Outcome

LEMMA FitsLonger ==
  ASSUME NEW c \in Texts, NEW text \in Text, NEW s, Fits(s, c) PROVE Fits(s, Append(c, text))
<1>1. Len(Append(c, text)) = Len(c) + 1 /\ Len(c) \in Nat
  BY LongerChat
<1>2. CASE s \in StreamState
  BY <1>1, <1>2 DEF Fits, StreamState
<1> QED BY <1>2 DEF Fits

LEMMA SendsTypes ==
  ASSUME NEW c \in Texts, NEW text \in Text, NEW s, NEW cost \in Nat, NEW marks,
         Fits(s, c), Len(c) >= Len(chat), Len(chat) \in Nat,
         NEW o \in Sends(c, text, s, cost, marks)
  PROVE  GoodOutcome(o) /\ o.stream = s
<1>1. /\ Append(c, text) \in Texts /\ Len(Append(c, text)) >= Len(chat)
      /\ cost + 1 \in Nat /\ Fits(s, Append(c, text))
  BY LongerChat, FitsLonger
<1>2. IsSend(o, c, text, s, cost, marks)
  BY SendsOutcomes, Zenon
<1> QED BY <1>1, <1>2, Zenon DEF GoodOutcome, IsSend

LEMMA StartTypes ==
  ASSUME DeliveryTypeOK, NEW s \in StreamState, NEW text \in Text, Fits(s, chat)
  PROVE  GoodOutcome(Outcome(Append(chat, text), Started(s, text), 0, {}))
<1>1. Append(chat, text) \in Texts /\ Len(Append(chat, text)) = Len(chat) + 1 /\ Len(chat) \in Nat
  BY TypeParts, LongerChat
<1>2. s.updates <= channel.budget
  BY ConstantsAreSound DEF Fits
<1>3. Fits(Started(s, text), Append(chat, text))
  BY <1>1, <1>2, StartFields DEF Fits
<1>4. Len(Append(chat, text)) >= Len(chat) /\ 0 \in Nat
  BY <1>1
<1> QED BY <1>1, <1>3, <1>4, Builds, Zenon

LEMMA EditTypes ==
  ASSUME DeliveryTypeOK, NEW s \in StreamState, NEW text \in Text, Fits(s, chat),
         s.handle # 0, s.updates < channel.budget
  PROVE  GoodOutcome(Edit(s, text))
<1>1. /\ s.handle \in Nat /\ s.updates \in Nat /\ s.handle <= Len(chat)
      /\ Len(chat) \in Nat /\ channel.budget \in Nat
  BY ConstantsAreSound, TypeParts, LenProperties DEF StreamState, Fits, Texts
<1>2. Edited(s.handle, text) \in Texts /\ Len(Edited(s.handle, text)) = Len(chat)
  BY <1>1, EditedChat
<1>3. Fits(Updated(s, text), Edited(s.handle, text))
  BY <1>1, <1>2, UpdateFields DEF Fits
<1>4. Len(Edited(s.handle, text)) >= Len(chat) /\ 0 \in Nat
  BY <1>1, <1>2
<1> QED BY <1>2, <1>3, <1>4, Builds, Zenon DEF Edit

LEMMA PlaceholderTypes == ASSUME DeliveryTypeOK, NEW o \in Placeholder PROVE GoodOutcome(o)
<1>1. <<Thinking>> \in Text /\ chat \in Texts /\ Len(chat) \in Nat /\ Len(chat) >= Len(chat)
  BY WordsAreSymbols, TypeParts, LenProperties DEF Texts
<1>2. 0 \in Nat /\ 1 \in Nat /\ Fits(None, chat)
  BY DEF Fits
<1>3. \A cost \in Nat : \A x \in Sends(chat, <<Thinking>>, None, cost, {}) : GoodOutcome(x)
  BY <1>1, <1>2, SendsTypes, Zenon
<1>4. GoodOutcome(Outcome(Append(chat, <<Thinking>>), Started(Fresh, <<Thinking>>), 0, {}))
  BY <1>1, EntryFits, StartTypes
<1> QED BY <1>2, <1>3, <1>4, Zenon DEF Placeholder, Starts

LEMMA StatusTypes ==
  ASSUME DeliveryTypeOK, NEW p \in Text, NEW o \in Status(p) PROVE GoodOutcome(o)
<1>1. chat \in Texts /\ Len(chat) \in Nat /\ Len(chat) >= Len(chat) /\ channel.budget \in Nat
  BY TypeParts, LenProperties DEF Texts
<1>2. Entry \in StreamState /\ Fits(Entry, chat) /\ Entry.updates \in Nat
  BY EntryFits DEF StreamState
<1>3. GoodOutcome(Outcome(chat, Entry, 0, {}))
  BY <1>1, <1>2, Builds
<1>4. 0 \in Nat /\ 1 \in Nat
  OBVIOUS
<1>5. \A cost \in Nat : \A x \in Sends(chat, p, Entry, cost, {}) : GoodOutcome(x)
  BY <1>1, <1>2, SendsTypes, Zenon
<1>6. GoodOutcome(Outcome(Append(chat, p), Started(Entry, p), 0, {}))
  BY <1>2, StartTypes
<1>7. Entry.handle # 0 /\ ~(Entry.updates >= channel.budget) => GoodOutcome(Edit(Entry, p))
  BY <1>1, <1>2, EditTypes
<1> QED BY <1>3, <1>4, <1>5, <1>6, <1>7, Zenon DEF Status, Starts

LEMMA FinishTypes ==
  ASSUME DeliveryTypeOK, NEW text \in Text, NEW o \in Finish(text)
  PROVE  GoodOutcome(o) /\ o.stream = None
<1>1. /\ chat \in Texts /\ Len(chat) \in Nat /\ Len(chat) >= Len(chat)
      /\ Fits(stream, chat) /\ Fits(None, chat) /\ 0 \in Nat /\ 1 \in Nat
  BY TypeParts, LenProperties DEF Texts, Fits
<1>2. \A cost \in Nat : \A t \in Text : \A marks : \A x \in Sends(chat, t, None, cost, marks) :
        GoodOutcome(x) /\ x.stream = None
  <2> SUFFICES ASSUME NEW cost \in Nat, NEW t \in Text, NEW marks, NEW x \in Sends(chat, t, None, cost, marks)
               PROVE  GoodOutcome(x) /\ x.stream = None
    OBVIOUS
  <2>1. GoodOutcome(x)
    BY <1>1, SendsTypes
  <2>2. x.stream = None
    BY <1>1, SendsTypes
  <2> QED BY <2>1, <2>2
<1>3. CASE stream = None \/ stream.handle = 0
  BY <1>1, <1>2, <1>3, Zenon DEF Finish
<1>4. CASE stream # None /\ stream.handle # 0
  <2>1. stream \in StreamState /\ stream.sent \in Text /\ stream.handle \in Nat /\ stream.handle <= Len(chat)
    BY <1>1, <1>4 DEF Fits, StreamState, Text
  <2>2. Fallback(text, stream.sent) \in Text /\ Shown(text) \in Text /\ Rest(text) \in Text
    BY <2>1, FallbackIsText, ShownIsText
  <2> DEFINE c == Edited(stream.handle, Shown(text))
  <2>3. c \in Texts /\ Len(c) = Len(chat)
    BY <1>4, <2>1, <2>2, EditedChat
  <2>4. Len(c) >= Len(chat) /\ Fits(None, c)
    BY <1>1, <2>3 DEF Fits
  <2> HIDE DEF c
  <2>5. ASSUME NEW x \in Sends(c, Rest(text), None, 0, {}) PROVE GoodOutcome(x) /\ x.stream = None
    <3>1. GoodOutcome(x)
      BY <1>1, <2>2, <2>3, <2>4, SendsTypes
    <3>2. x.stream = None
      BY <1>1, <2>2, <2>3, <2>4, SendsTypes
    <3> QED BY <3>1, <3>2
  <2> QED BY <1>1, <1>2, <1>4, <2>2, <2>5, Zenon DEF Finish, c
<1> QED BY <1>3, <1>4

\* The stream after a piece, and when it is given up.
LEMMA GrownFields ==
  ASSUME NEW piece \in AllPieces, Entry \in StreamState
  PROVE  /\ Grown(piece) \in StreamState
         /\ Grown(piece).handle = Entry.handle /\ Grown(piece).sent = Entry.sent
         /\ Grown(piece).updates = Entry.updates /\ Grown(piece).disabled = Entry.disabled
         /\ Entry.disabled => Grown(piece) = Entry
         /\ ~Entry.disabled => Grown(piece).buffer = Append(Entry.buffer, piece)
<1>1. CASE Entry.disabled
  BY <1>1 DEF Grown
<1>2. CASE ~Entry.disabled
  <2>1. Append(Entry.buffer, piece) \in Seq(AllPieces)
    BY DEF StreamState
  <2> QED BY <1>2, <2>1 DEF Grown, StreamState
<1> QED BY <1>1, <1>2

LEMMA StoppedFields ==
  ASSUME NEW s \in StreamState
  PROVE  /\ Stopped(s) \in StreamState
         /\ Stopped(s).handle = s.handle /\ Stopped(s).sent = s.sent
         /\ Stopped(s).updates = s.updates /\ Stopped(s).disabled /\ Stopped(s).buffer = s.buffer
  BY DEF StreamState, Stopped

LEMMA DeltaTypes ==
  ASSUME DeliveryTypeOK, NEW piece \in AllPieces, NEW o \in Delta(piece) PROVE GoodOutcome(o)
<1> DEFINE s == Grown(piece)
<1>1. chat \in Texts /\ Len(chat) \in Nat /\ Len(chat) >= Len(chat) /\ channel.budget \in Nat
  BY TypeParts, LenProperties DEF Texts
<1>2. Entry \in StreamState /\ Fits(Entry, chat)
  BY EntryFits
<1>3. s \in StreamState /\ s.handle = Entry.handle /\ s.updates = Entry.updates
  BY <1>2, GrownFields
<1> HIDE DEF s
<1>4. Fits(s, chat) /\ Fits(Stopped(s), chat) /\ s.updates \in Nat /\ s.buffer \in Seq(AllPieces)
  BY <1>2, <1>3, StoppedFields, ConstantsAreSound DEF Fits, StreamState
<1>5. Shown(s.buffer) \in Text /\ 0 \in Nat /\ 1 \in Nat
  BY <1>4, PiecesAreText, ShownIsText
<1>6. \A cost \in Nat : GoodOutcome(Outcome(chat, s, cost, {})) /\ GoodOutcome(Outcome(chat, Stopped(s), cost, {}))
  BY <1>1, <1>4, Builds
<1>7. GoodOutcome(Outcome(Append(chat, Shown(s.buffer)), Started(s, Shown(s.buffer)), 0, {}))
  BY <1>3, <1>4, <1>5, StartTypes
<1>8. s.handle # 0 /\ ~(s.updates >= channel.budget) => GoodOutcome(Edit(s, Shown(s.buffer)))
  BY <1>1, <1>3, <1>4, <1>5, EditTypes
<1> QED BY <1>5, <1>6, <1>7, <1>8, Zenon DEF Delta, Starts, s

-----------------------------------------------------------------------------
(* The queue *)

LEMMA EventFields ==
  ASSUME NEW t \in Turns, NEW kind, NEW piece
  PROVE  /\ Event(t, kind, piece).kind = kind /\ Event(t, kind, piece).piece = piece
         /\ Event(t, kind, piece).answer = <<t, round[t]>>
  BY DEF Event

LEMMA EventTypes ==
  ASSUME DeliveryTypeOK, NEW t \in Turns, NEW kind \in Kinds, NEW piece \in Nat
  PROVE  Event(t, kind, piece) \in Events /\ <<t, round[t]>> \in Answers
<1>1. round[t] \in 1 .. MaxRounds + 1
  BY DEF DeliveryTypeOK
<1> QED BY <1>1 DEF Event, Events, Kinds, Answers

\* What is published comes last; what is delivered was first.
Published(e) ==
  /\ e \in Events /\ Len(queue) \in Nat
  /\ queue' \in Seq(Events) /\ Len(queue') = Len(queue) + 1 /\ Len(queue') <= MaxQueue
  /\ DOMAIN queue = 1 .. Len(queue) /\ DOMAIN queue' = 1 .. Len(queue) + 1
  /\ queue'[Len(queue) + 1] = e
  /\ \A i \in 1 .. Len(queue) : queue'[i] = queue[i]

LEMMA PublishAppends ==
  ASSUME DeliveryTypeOK, NEW t \in Turns, NEW kind \in Kinds, NEW piece \in Nat, Publish(t, kind, piece)
  PROVE  Published(Event(t, kind, piece))
<1> DEFINE e == Event(t, kind, piece)
<1>1. e \in Events /\ queue \in Seq(Events) /\ MaxQueue \in Nat
  BY EventTypes, TypeParts, ConstantsAreSound
<1>2. Len(queue) < MaxQueue /\ queue' = Append(queue, e)
  BY DEF Publish
<1> HIDE DEF e
<1>3. queue' \in Seq(Events) /\ Len(queue') = Len(queue) + 1
  BY <1>1, <1>2, AppendProperties
<1>4. queue'[Len(queue) + 1] = e /\ \A i \in 1 .. Len(queue) : queue'[i] = queue[i]
  BY <1>1, <1>2, AppendProperties
<1>5. Len(queue) \in Nat /\ DOMAIN queue = 1 .. Len(queue) /\ DOMAIN queue' = 1 .. Len(queue')
  BY <1>1, <1>3, LenProperties
<1> QED BY <1>1, <1>2, <1>3, <1>4, <1>5 DEF Published, e

Shifted ==
  /\ Len(queue) \in Nat \ {0} /\ Len(queue') = Len(queue) - 1 /\ queue' \in Seq(Events)
  /\ DOMAIN queue = 1 .. Len(queue) /\ DOMAIN queue' = 1 .. Len(queue) - 1
  /\ Head(queue) = queue[1] /\ queue[1] \in Events
  /\ \A i \in 1 .. Len(queue) - 1 : queue'[i] = queue[i + 1]

LEMMA DeliverShifts == ASSUME DeliveryTypeOK, Deliver PROVE Shifted
<1>1. queue \in Seq(Events) /\ queue # <<>> /\ queue' = Tail(queue)
  BY TypeParts DEF Deliver
<1>2. Len(queue) \in Nat \ {0} /\ DOMAIN queue = 1 .. Len(queue)
  BY <1>1, EmptySeq, LenProperties
<1>3. /\ queue' \in Seq(Events) /\ Len(queue') = Len(queue) - 1
      /\ \A i \in 1 .. Len(queue') : queue'[i] = queue[i + 1]
  BY <1>1, HeadTailProperties
<1>4. DOMAIN queue' = 1 .. Len(queue')
  BY <1>3, LenProperties
<1>5. queue[1] \in Events
  BY <1>1, <1>2, ElementOfSeq
<1>6. Head(queue) = queue[1]
  BY <1>1
<1> QED BY <1>2, <1>3, <1>4, <1>5, <1>6 DEF Shifted

LEMMA EventParts ==
  ASSUME NEW e \in Events PROVE e.kind \in Kinds /\ e.answer \in Answers /\ e.piece \in Nat
  BY DEF Events, Kinds

-----------------------------------------------------------------------------
(* The types hold *)

LEMMA InitTypes == Init => TypeInv
<1> SUFFICES ASSUME Init PROVE TypeInv
  OBVIOUS
<1>1. queue \in Seq(Events) /\ Len(queue) = 0 /\ DOMAIN queue = {} /\ Len(queue) <= MaxQueue
  BY ConstantsAreSound DEF Init
<1>2. chat \in Seq(Seq(Symbols))
  BY DEF Init
<1>3. 1 \in 1 .. MaxRounds + 1 /\ 0 \in 0 .. MaxRounds /\ 0 \in 0 .. MaxRetries /\ 0 \in 0 .. MaxFailures
  BY ConstantsAreSound
<1>4. /\ turn \in [Turns -> {"new", "request", "stream", "tools", "waiting", "ended", "closed", "over", "reviewed"}]
      /\ round \in [Turns -> 1 .. MaxRounds + 1] /\ told \in [Turns -> Nat]
  BY <1>3 DEF Init
<1>5. /\ channel \in Channels /\ typing \in BOOLEAN
      /\ rounds \in 0 .. MaxRounds /\ retries \in 0 .. MaxRetries /\ failures \in 0 .. MaxFailures
      /\ cached \in BOOLEAN /\ mapped \in BOOLEAN /\ command \in {"none", "begun", "done"}
      /\ stream = None /\ given \subseteq Answers /\ unsent \subseteq given /\ astray \subseteq given
  BY <1>3 DEF Init
<1>6. DeliveryTypeOK
  BY <1>1, <1>2, <1>4, <1>5 DEF DeliveryTypeOK
<1>7. EventsAreReal /\ RoundsInv
  BY <1>1 DEF Init, EventsAreReal, RoundsInv
<1> QED BY <1>6, <1>7 DEF TypeInv

TurnTypes ==
  /\ turn \in [Turns -> {"new", "request", "stream", "tools", "waiting", "ended", "closed", "over", "reviewed"}]
  /\ round \in [Turns -> 1 .. MaxRounds + 1] /\ told \in [Turns -> Nat]
  /\ rounds \in 0 .. MaxRounds /\ retries \in 0 .. MaxRetries /\ RoundsInv
QueueTypes == queue \in Seq(Events) /\ Len(queue) <= MaxQueue /\ EventsAreReal
RouteTypes == cached \in BOOLEAN /\ mapped \in BOOLEAN /\ command \in {"none", "begun", "done"}
ViewTypes  == chat \in Texts /\ Fits(stream, chat) /\ failures \in 0 .. MaxFailures
GivenTypes == given \subseteq Answers /\ unsent \subseteq given /\ astray \subseteq given

LEMMA TypeSplit ==
  TypeInv <=> /\ channel \in Channels /\ typing \in BOOLEAN
              /\ TurnTypes /\ QueueTypes /\ RouteTypes /\ ViewTypes /\ GivenTypes
  BY Zenon DEF TypeInv, DeliveryTypeOK, TurnTypes, QueueTypes, RouteTypes, ViewTypes, GivenTypes, Fits, Texts, Text

LEMMA TypeJoin ==
  ASSUME (channel \in Channels)', (typing \in BOOLEAN)',
         TurnTypes', QueueTypes', RouteTypes', ViewTypes', GivenTypes'
  PROVE  TypeInv'
  BY Zenon DEF TypeInv, DeliveryTypeOK, TurnTypes, QueueTypes, RouteTypes, ViewTypes, GivenTypes, Fits, Texts, Text

LEMMA PublishTypes ==
  ASSUME TypeInv, NEW e, Published(e), retries' \in Nat, retries' >= retries,
         e.kind = "delta" => e.piece \in Parts(e.answer),
         e.kind = "status" => e.piece \in 1 .. retries'
  PROVE  QueueTypes'
<1>1. retries \in Nat
  BY ConstantsAreSound DEF TypeInv, DeliveryTypeOK
<1>2. EventsAreReal'
  <2> SUFFICES ASSUME NEW i \in 1 .. Len(queue) + 1
               PROVE  /\ queue'[i].kind = "delta" => queue'[i].piece \in Parts(queue'[i].answer)
                      /\ queue'[i].kind = "status" => queue'[i].piece \in 1 .. retries'
    BY DEF EventsAreReal, Published
  <2>1. CASE i = Len(queue) + 1
    BY <2>1 DEF Published
  <2>2. CASE i \in 1 .. Len(queue)
    <3>1. queue'[i] = queue[i] /\ i \in DOMAIN queue
      BY <2>2 DEF Published
    <3>2. queue[i].kind = "status" => queue[i].piece \in 1 .. retries
      BY <3>1 DEF TypeInv, EventsAreReal
    <3> QED BY <1>1, <3>1, <3>2 DEF TypeInv, EventsAreReal
  <2> QED BY <2>1, <2>2 DEF Published
<1> QED BY <1>2 DEF Published, QueueTypes

\* The steps of a turn that publish an event, and which.
LEMMA TurnPublishes ==
  ASSUME TypeInv, NEW t \in Turns
  PROVE  /\ TurnStarts(t)   => Published(Event(t, "started", 0))
         /\ TurnRetries(t)  => Published(Event(t, "status", retries'))
         /\ TurnStreams(t)  => Published(Event(t, "delta", told'[t]))
         /\ TurnAnswers(t)  => Published(Event(t, "message", 0))
         /\ TurnFails(t)    => Published(Event(t, "error", 0))
         /\ TurnFinishes(t) => Published(Event(t, "finished", 0))
         /\ ReviewFails(t)  => Published(Event(t, "error", 0))
<1>1. \A kind \in Kinds : \A piece \in Nat : Publish(t, kind, piece) => Published(Event(t, kind, piece))
  BY PublishAppends DEF TypeInv
<1>2. {"started", "finished", "status", "error", "delta", "message"} \subseteq Kinds /\ 0 \in Nat
  BY DEF Kinds
<1>3. TurnRetries(t) => retries' \in Nat
  BY ConstantsAreSound DEF TurnRetries, TypeInv, DeliveryTypeOK
<1>4. TurnStreams(t) => told'[t] \in Nat
  BY DEF TurnStreams, TypeInv, DeliveryTypeOK
<1> QED BY <1>1, <1>2, <1>3, <1>4
        DEF TurnStarts, TurnRetries, TurnStreams, TurnAnswers, TurnFails, TurnFinishes, ReviewFails

TurnStep(t) == \/ TurnStarts(t) \/ TurnRetries(t) \/ TurnStreams(t) \/ TurnAnswers(t)
               \/ TurnGoesOn(t) \/ TurnAsks(t) \/ TurnHears(t) \/ TurnFails(t)
               \/ TurnCloses(t) \/ TurnFinishes(t) \/ ReviewFails(t)

\* A step of a turn leaves the chat, the routes and the channel alone.
LEMMA TurnLeaves ==
  ASSUME NEW t \in Turns, TurnStep(t)
  PROVE  UNCHANGED <<channel, routeVars, viewVars>>
  BY DEF TurnStep, TurnStarts, TurnRetries, TurnStreams, TurnAnswers, TurnGoesOn, TurnAsks,
         TurnHears, TurnFails, TurnCloses, TurnFinishes, ReviewFails

LEMMA TurnKeepsTypes ==
  ASSUME TypeInv, NEW t \in Turns, TurnStep(t)
  PROVE  TurnTypes' /\ QueueTypes' /\ (typing \in BOOLEAN)'
<1> USE ConstantsAreSound
<1>1. TurnTypes /\ QueueTypes /\ typing \in BOOLEAN /\ MaxRounds \in Nat /\ MaxRetries \in Nat
  BY TypeSplit
<1>2. 0 \in Nat /\ retries \in Nat /\ retries >= retries
  BY <1>1 DEF TurnTypes
<1>3. CASE TurnStarts(t)
  <2>1. TurnTypes'
    BY <1>1, <1>3 DEF TurnTypes, RoundsInv, TurnStarts, Enter
  <2>2. QueueTypes'
    BY <1>2, <1>3, TurnPublishes, EventFields, PublishTypes DEF TurnStarts
  <2> QED BY <1>1, <1>3, <2>1, <2>2 DEF TurnStarts
<1>4. CASE TurnRetries(t)
  <2>1. retries' \in 1 .. MaxRetries /\ retries' >= retries /\ retries' \in Nat /\ retries' \in 1 .. retries'
    BY <1>1, <1>4 DEF TurnTypes, TurnRetries
  <2>2. TurnTypes'
    BY <1>1, <1>4, <2>1 DEF TurnTypes, RoundsInv, TurnRetries
  <2>3. QueueTypes'
    BY <1>4, <2>1, TurnPublishes, EventFields, PublishTypes
  <2> QED BY <1>1, <1>4, <2>2, <2>3 DEF TurnRetries
<1>5. CASE TurnStreams(t)
  <2>1. told'[t] = told[t] + 1 /\ told[t] \in Nat /\ told[t] < Pieces[t] /\ Pieces[t] \in Nat
    BY <1>1, <1>5 DEF TurnTypes, TurnStreams
  <2>2. TurnTypes'
    BY <1>1, <1>5, <2>1 DEF TurnTypes, RoundsInv, TurnStreams, Enter
  <2>3. told'[t] \in Parts(<<t, round[t]>>)
    BY <2>1 DEF Parts
  <2>4. QueueTypes'
    <3> DEFINE e == Event(t, "delta", told'[t])
    <3>1. Published(e) /\ e.kind = "delta" /\ e.piece = told'[t] /\ e.answer = <<t, round[t]>>
      BY <1>5, TurnPublishes, EventFields
    <3> HIDE DEF e
    <3>2. e.piece \in Parts(e.answer)
      BY <2>3, <3>1
    <3> QED BY <1>2, <1>5, <3>1, <3>2, PublishTypes DEF TurnStreams
  <2> QED BY <1>1, <1>5, <2>2, <2>4 DEF TurnStreams
<1>6. CASE TurnAnswers(t)
  <2>1. TurnTypes'
    <3>1. rounds' \in 0 .. MaxRounds /\ rounds' >= rounds
      BY <1>1, <1>6 DEF TurnTypes, TurnAnswers
    <3>2. /\ turn' \in [Turns -> {"new", "request", "stream", "tools", "waiting", "ended", "closed", "over", "reviewed"}]
          /\ \A s \in Turns : s # t => turn'[s] = turn[s]
          /\ turn'[t] = "ended" \/ (turn'[t] = "tools" /\ rounds' = rounds + 1)
      BY <1>1, <1>6 DEF TurnTypes, TurnAnswers, Enter
    <3>3. \A s \in Turns : round[s] \in Nat /\ rounds \in Nat
      BY <1>1 DEF TurnTypes
    <3>4. RoundsInv'
      BY <1>1, <1>6, <3>1, <3>2, <3>3 DEF TurnTypes, RoundsInv, TurnAnswers
    <3> QED BY <1>1, <1>6, <3>1, <3>2, <3>4 DEF TurnTypes, TurnAnswers
  <2>2. QueueTypes'
    BY <1>2, <1>6, TurnPublishes, EventFields, PublishTypes DEF TurnAnswers
  <2> QED BY <1>1, <1>6, <2>1, <2>2 DEF TurnAnswers
<1>7. CASE TurnGoesOn(t)
  <2>1. TurnTypes'
    <3>1. round[t] <= rounds /\ round[t] \in Nat \ {0} /\ rounds \in 0 .. MaxRounds
      BY <1>1, <1>7 DEF TurnTypes, RoundsInv, TurnGoesOn
    <3>2. round'[t] = round[t] + 1 /\ \A s \in Turns : s # t => round'[s] = round[s]
      BY <1>1, <1>7 DEF TurnTypes, TurnGoesOn
    <3>3. turn'[t] = "request" /\ \A s \in Turns : s # t => turn'[s] = turn[s]
      BY <1>1, <1>7 DEF TurnTypes, TurnGoesOn, Enter
    <3>4. RoundsInv'
      BY <1>1, <1>7, <3>1, <3>2, <3>3 DEF TurnTypes, RoundsInv, TurnGoesOn
    <3>5. round' \in [Turns -> 1 .. MaxRounds + 1]
      BY <1>1, <1>7, <3>1 DEF TurnTypes, TurnGoesOn
    <3> QED BY <1>1, <1>7, <3>4, <3>5 DEF TurnTypes, TurnGoesOn, Enter
  <2> QED BY <1>1, <1>7, <2>1 DEF QueueTypes, EventsAreReal, TurnGoesOn
<1>8. CASE TurnAsks(t)
  BY <1>1, <1>8 DEF TurnTypes, RoundsInv, QueueTypes, EventsAreReal, TurnAsks, Enter
<1>9. CASE TurnHears(t)
  BY <1>1, <1>9 DEF TurnTypes, RoundsInv, QueueTypes, EventsAreReal, TurnHears, Enter
<1>10. CASE TurnFails(t)
  <2>1. TurnTypes'
    BY <1>1, <1>10 DEF TurnTypes, RoundsInv, TurnFails, Enter
  <2>2. QueueTypes'
    BY <1>2, <1>10, TurnPublishes, EventFields, PublishTypes DEF TurnFails
  <2> QED BY <1>1, <1>10, <2>1, <2>2 DEF TurnFails
<1>11. CASE TurnCloses(t)
  BY <1>1, <1>11 DEF TurnTypes, RoundsInv, QueueTypes, EventsAreReal, TurnCloses, Enter
<1>12. CASE TurnFinishes(t)
  <2>1. TurnTypes'
    BY <1>1, <1>12 DEF TurnTypes, RoundsInv, TurnFinishes, Enter
  <2>2. QueueTypes'
    BY <1>2, <1>12, TurnPublishes, EventFields, PublishTypes DEF TurnFinishes
  <2> QED BY <1>1, <1>12, <2>1, <2>2 DEF TurnFinishes
<1>13. CASE ReviewFails(t)
  <2>1. TurnTypes'
    BY <1>1, <1>13 DEF TurnTypes, RoundsInv, ReviewFails, Enter
  <2>2. QueueTypes'
    BY <1>2, <1>13, TurnPublishes, EventFields, PublishTypes DEF ReviewFails
  <2> QED BY <1>1, <1>13, <2>1, <2>2 DEF ReviewFails
<1> QED BY <1>3, <1>4, <1>5, <1>6, <1>7, <1>8, <1>9, <1>10, <1>11, <1>12, <1>13 DEF TurnStep

LEMMA CommandKeepsTypes ==
  ASSUME TypeInv, NewBegins \/ NewMoves PROVE TypeInv'
<1>1. ASSUME NewBegins PROVE TypeInv'
  BY <1>1, TypeSplit DEF NewBegins, turnVars, TypeInv, DeliveryTypeOK, EventsAreReal, RoundsInv
<1>2. ASSUME NewMoves PROVE TypeInv'
  BY <1>2, TypeSplit DEF NewMoves, turnVars, viewVars, TypeInv, DeliveryTypeOK, EventsAreReal, RoundsInv
<1> QED BY <1>1, <1>2

\* What the bridge does to the chat and the stream is an outcome of its handler.
LEMMA AppliedTypes ==
  ASSUME TypeInv, channel' = channel, NEW o, GoodOutcome(o), Apply(o)
  PROVE  ViewTypes'
<1>1. failures \in Nat /\ MaxFailures \in Nat /\ failures' = failures + o.cost /\ failures' <= MaxFailures
  BY ConstantsAreSound DEF Apply, TypeInv, DeliveryTypeOK
<1>2. o.cost \in Nat /\ o.chat \in Texts /\ Fits(o.stream, o.chat)
  BY DEF GoodOutcome
<1>3. Fits(stream', chat')
  BY <1>2, Zenon DEF Apply
<1>4. (Fits(stream, chat))'
  BY <1>3 DEF Fits
<1> QED BY <1>1, <1>2, <1>4 DEF ViewTypes, Apply

LEMMA HandledTypes ==
  ASSUME TypeInv, channel' = channel, NEW e \in Events, Handled(e),
         e.kind = "delta" => e.piece \in Parts(e.answer),
         e.kind = "status" => e.piece \in 1 .. retries
  PROVE  ViewTypes' /\ GivenTypes' /\ (typing \in BOOLEAN)'
<1>1. /\ DeliveryTypeOK /\ typing \in BOOLEAN /\ GivenTypes /\ ViewTypes
      /\ e.answer \in Answers /\ retries \in 0 .. MaxRetries /\ MaxRetries \in Nat
  BY TypeSplit, EventParts, ConstantsAreSound DEF TypeInv, TurnTypes
<1>2. CASE e.kind = "started" /\ OnStarted
  <2>1. CASE channel.typing /\ typing' = TRUE /\ stream' = None /\ UNCHANGED <<chat, failures>>
    BY <1>1, <1>2, <2>1 DEF OnStarted, ViewTypes, GivenTypes, Fits
  <2>2. CASE typing' = typing /\ \E o \in Placeholder : Apply(o)
    BY <1>1, <1>2, <2>2, PlaceholderTypes, AppliedTypes DEF OnStarted, GivenTypes
  <2> QED BY <1>2, <2>1, <2>2 DEF OnStarted
<1>3. CASE e.kind = "finished" /\ OnFinished
  BY <1>1, <1>3 DEF OnFinished, viewVars, ViewTypes, GivenTypes, Fits
<1>4. CASE e.kind = "status" /\ OnStatus(e)
  <2>1. e.piece \in 1 .. MaxRetries
    BY <1>1, <1>4
  <2>2. <<Attempt(e.piece)>> \in Text
    BY <2>1, WordsAreSymbols
  <2> QED BY <1>1, <1>4, <2>2, StatusTypes, AppliedTypes DEF OnStatus, GivenTypes
<1>5. CASE e.kind = "error" /\ OnError
  <2>1. <<Failed>> \in Text
    BY WordsAreSymbols
  <2> QED BY <1>1, <1>5, <2>1, FinishTypes, AppliedTypes DEF OnError, GivenTypes
<1>6. CASE e.kind = "delta" /\ OnDelta(e)
  <2>1. Piece(e.answer, e.piece) \in AllPieces
    BY <1>1, <1>6, WordsAreSymbols
  <2> QED BY <1>1, <1>6, <2>1, DeltaTypes, AppliedTypes DEF OnDelta, GivenTypes
<1>7. CASE e.kind = "message" /\ OnMessage(e)
  <2>1. Answer(e.answer) \in Text
    BY <1>1, AnswersAreTexts
  <2>2. ViewTypes'
    BY <1>1, <1>7, <2>1, FinishTypes, AppliedTypes DEF OnMessage
  <2> QED BY <1>1, <1>7, <2>2 DEF OnMessage, GivenTypes
<1> QED BY <1>2, <1>3, <1>4, <1>5, <1>6, <1>7 DEF Handled

LEMMA DeliverKeepsTypes == ASSUME TypeInv, Deliver PROVE TypeInv'
<1>1. /\ Shifted /\ channel' = channel /\ UNCHANGED <<turnVars, mapped, command>>
      /\ TurnTypes /\ QueueTypes /\ RouteTypes /\ ViewTypes /\ GivenTypes
      /\ channel \in Channels /\ typing \in BOOLEAN
  BY DeliverShifts, TypeSplit DEF TypeInv, Deliver
<1>2. QueueTypes'
  <2>1. \A i \in DOMAIN queue' : i + 1 \in DOMAIN queue /\ queue'[i] = queue[i + 1]
    BY <1>1 DEF Shifted
  <2>2. retries' = retries
    BY <1>1 DEF turnVars
  <2>3. EventsAreReal'
    BY <1>1, <2>1, <2>2 DEF QueueTypes, EventsAreReal
  <2>4. Len(queue') <= MaxQueue
    BY <1>1, ConstantsAreSound DEF Shifted, QueueTypes
  <2> QED BY <1>1, <2>3, <2>4 DEF Shifted, QueueTypes
<1>3. TurnTypes'
  BY <1>1 DEF TurnTypes, RoundsInv, turnVars
<1>4. RouteTypes'
  BY <1>1 DEF RouteTypes, Deliver
<1>5. ViewTypes' /\ GivenTypes' /\ (typing \in BOOLEAN)'
  <2>1. CASE UNCHANGED <<viewVars, typing>>
    BY <1>1, <2>1 DEF viewVars, ViewTypes, GivenTypes, Fits
  <2>2. CASE Handled(Head(queue))
    <3>1. queue[1] \in Events /\ 1 \in DOMAIN queue /\ Head(queue) = queue[1]
      BY <1>1 DEF Shifted
    <3> QED BY <1>1, <2>2, <3>1, HandledTypes DEF QueueTypes, EventsAreReal
  <2> QED BY <2>1, <2>2 DEF Deliver
<1> QED BY <1>1, <1>2, <1>3, <1>4, <1>5, TypeJoin

LEMMA StepTypes == ASSUME TypeInv, [Next]_vars PROVE TypeInv'
<1>1. ASSUME NEW t \in Turns, TurnStep(t) PROVE TypeInv'
  <2>1. UNCHANGED <<channel, routeVars, viewVars>>
    BY <1>1, TurnLeaves
  <2>2. channel \in Channels /\ RouteTypes /\ ViewTypes /\ GivenTypes
    BY TypeSplit
  <2>3. (channel \in Channels)' /\ RouteTypes' /\ ViewTypes' /\ GivenTypes'
    BY <2>1, <2>2 DEF routeVars, viewVars, RouteTypes, ViewTypes, GivenTypes, Fits
  <2> QED BY <1>1, <2>3, TurnKeepsTypes, TypeJoin
<1>2. CASE UNCHANGED vars
  BY <1>2, TypeSplit DEF vars, turnVars, routeVars, viewVars, TypeInv, DeliveryTypeOK, EventsAreReal, RoundsInv
<1> QED BY <1>1, <1>2, CommandKeepsTypes, DeliverKeepsTypes DEF Next, TurnStep

LEMMA TypesInvariant == Spec => []TypeInv
<1>1. TypeInv /\ [Next]_vars => TypeInv'
  BY StepTypes
<1> QED BY InitTypes, <1>1, PTL DEF Spec

\* The types: no stream of the bridge is ever edited more often than its channel
\* allows, none points to a message the chat does not have, and the answers that
\* failed or went astray are answers that were dealt with.
THEOREM TypesHold == Spec => []DeliveryTypeOK
<1>1. TypeInv => DeliveryTypeOK
  BY DEF TypeInv
<1> QED BY <1>1, TypesInvariant, PTL

-----------------------------------------------------------------------------
(* The typing sign *)

Active == {"request", "stream", "tools", "waiting", "ended", "closed"}

\* What will stop a sign that the event at i starts: a turn that is not over, or a later
\* event that one is.  The sign that is on now was started at 0.
Ending(i) == \/ \E t \in Turns : turn[t] \in Active
             \/ \E j \in DOMAIN queue : i < j /\ queue[j].kind = "finished"
TypingInv ==
  command = "none" => /\ mapped
                      /\ typing => Ending(0)
                      /\ \A i \in DOMAIN queue : queue[i].kind = "started" => Ending(i)

\* A step of a turn leaves the queue or publishes an event.
LEMMA TurnQueue ==
  ASSUME TypeInv, NEW t \in Turns, TurnStep(t)
  PROVE  /\ queue' = queue \/ \E e \in Events : Published(e)
         /\ Len(queue) \in Nat /\ DOMAIN queue = 1 .. Len(queue)
<1>1. queue' = queue \/ \E e : Published(e)
  BY TurnPublishes DEF TurnStep, TurnGoesOn, TurnAsks, TurnHears, TurnCloses
<1>2. queue \in Seq(Events)
  BY TypeSplit DEF QueueTypes
<1> QED BY <1>1, <1>2, LenProperties DEF Published

\* Where a turn may be after a step, and the others.
LEMMA TurnMoves ==
  ASSUME TypeInv, NEW t \in Turns, TurnStep(t)
  PROVE  /\ \A s \in Turns : s # t => turn'[s] = turn[s] /\ round'[s] = round[s] /\ told'[s] = told[s]
         /\ turn[t] \in Active => turn'[t] \in Active \/ TurnFinishes(t)
         /\ turn[t] \notin Active => TurnStarts(t) \/ ReviewFails(t)
<1>1. turn \in [Turns -> {"new", "request", "stream", "tools", "waiting", "ended", "closed", "over", "reviewed"}]
      /\ round \in [Turns -> 1 .. MaxRounds + 1] /\ told \in [Turns -> Nat]
  BY TypeSplit DEF TurnTypes
<1>2. CASE TurnStarts(t)
  BY <1>1, <1>2 DEF TurnStarts, Enter, Active
<1>3. CASE TurnRetries(t)
  BY <1>1, <1>3 DEF TurnRetries, Enter, Active
<1>4. CASE TurnStreams(t)
  BY <1>1, <1>4 DEF TurnStreams, Enter, Active
<1>5. CASE TurnAnswers(t)
  BY <1>1, <1>5 DEF TurnAnswers, Enter, Active
<1>6. CASE TurnGoesOn(t)
  BY <1>1, <1>6 DEF TurnGoesOn, Enter, Active
<1>7. CASE TurnAsks(t)
  BY <1>1, <1>7 DEF TurnAsks, Enter, Active
<1>8. CASE TurnHears(t)
  BY <1>1, <1>8 DEF TurnHears, Enter, Active
<1>9. CASE TurnFails(t)
  BY <1>1, <1>9 DEF TurnFails, Enter, Active
<1>10. CASE TurnCloses(t)
  BY <1>1, <1>10 DEF TurnCloses, Enter, Active
<1>11. CASE TurnFinishes(t)
  BY <1>1, <1>11 DEF TurnFinishes, Enter, Active
<1>12. CASE ReviewFails(t)
  BY <1>1, <1>12 DEF ReviewFails, Enter, Active
<1> QED BY <1>2, <1>3, <1>4, <1>5, <1>6, <1>7, <1>8, <1>9, <1>10, <1>11, <1>12 DEF TurnStep

LEMMA EndingStays ==
  ASSUME TypeInv, NEW t \in Turns, TurnStep(t), NEW i \in 0 .. Len(queue), Ending(i)
  PROVE  Ending(i)'
<1>1. Len(queue) \in Nat /\ DOMAIN queue = 1 .. Len(queue)
  BY TurnQueue
<1>2. CASE \E j \in DOMAIN queue : i < j /\ queue[j].kind = "finished"
  <2>1. PICK j \in DOMAIN queue : i < j /\ queue[j].kind = "finished"
    BY <1>2
  <2>2. j \in DOMAIN queue' /\ queue'[j] = queue[j]
    BY <1>1, TurnQueue DEF Published
  <2> QED BY <2>1, <2>2 DEF Ending
<1>3. CASE \E s \in Turns : turn[s] \in Active
  <2>1. PICK s \in Turns : turn[s] \in Active
    BY <1>3
  <2>2. CASE turn'[s] \in Active
    BY <2>2 DEF Ending
  <2>3. CASE TurnFinishes(t)
    <3>1. Published(Event(t, "finished", 0)) /\ Event(t, "finished", 0).kind = "finished"
      BY <2>3, TurnPublishes, EventFields
    <3>2. Len(queue) + 1 \in DOMAIN queue' /\ queue'[Len(queue) + 1].kind = "finished"
      BY <3>1 DEF Published
    <3>3. i < Len(queue) + 1
      BY <1>1
    <3> QED BY <3>2, <3>3 DEF Ending
  <2> QED BY <2>1, <2>2, <2>3, TurnMoves
<1> QED BY <1>2, <1>3 DEF Ending

LEMMA TurnKeepsTyping == ASSUME TypeInv, TypingInv, NEW t \in Turns, TurnStep(t) PROVE TypingInv'
<1> SUFFICES ASSUME command' = "none"
             PROVE  mapped' /\ (typing' => Ending(0)')
                    /\ \A i \in DOMAIN queue' : queue'[i].kind = "started" => Ending(i)'
  BY DEF TypingInv
<1>1. /\ mapped /\ (typing => Ending(0))
      /\ \A i \in DOMAIN queue : queue[i].kind = "started" => Ending(i)
      /\ mapped' = mapped /\ Len(queue) \in Nat /\ DOMAIN queue = 1 .. Len(queue)
  BY TurnLeaves, TurnQueue DEF TypingInv, routeVars
<1>2. typing' => Ending(0)'
  <2>1. CASE TurnHears(t)
    <3>1. turn'[t] \in Active
      BY <2>1, TypeSplit DEF TurnHears, Enter, Active, TurnTypes
    <3> QED BY <3>1 DEF Ending
  <2>2. CASE ~TurnHears(t)
    <3>1. typing' => typing
      BY <2>2 DEF TurnStep, TurnStarts, TurnRetries, TurnStreams, TurnAnswers, TurnGoesOn, TurnAsks,
                  TurnFails, TurnCloses, TurnFinishes, ReviewFails
    <3>2. 0 \in 0 .. Len(queue)
      BY <1>1
    <3>3. Ending(0) => Ending(0)'
      BY <3>2, EndingStays
    <3> QED BY <1>1, <3>1, <3>3, Zenon
  <2> QED BY <2>1, <2>2
<1>3. ASSUME NEW i \in DOMAIN queue', queue'[i].kind = "started" PROVE Ending(i)'
  <2>1. CASE i \in DOMAIN queue
    <3>1. queue'[i] = queue[i]
      BY <1>1, <2>1, TurnQueue DEF Published
    <3>2. Ending(i) /\ i \in 0 .. Len(queue)
      BY <1>1, <1>3, <2>1, <3>1
    <3> QED BY <3>2, EndingStays
  <2>2. CASE i \notin DOMAIN queue
    <3>1. ASSUME NEW kind, NEW piece, Published(Event(t, kind, piece)) PROVE kind = "started"
      BY <1>1, <1>3, <2>2, <3>1, EventFields DEF Published
    <3>2. ~(queue' = queue)
      BY <1>3, <2>2
    <3>3. TurnStarts(t)
      BY <3>1, <3>2, TurnPublishes DEF TurnStep, TurnGoesOn, TurnAsks, TurnHears, TurnCloses
    <3>4. turn'[t] \in Active
      BY <3>3, TypeSplit DEF TurnStarts, Enter, Active, TurnTypes
    <3> QED BY <3>4 DEF Ending
  <2> QED BY <2>1, <2>2
<1> QED BY <1>1, <1>2, <1>3, Zenon

LEMMA DeliverKeepsTyping == ASSUME TypeInv, TypingInv, Deliver PROVE TypingInv'
<1> SUFFICES ASSUME command' = "none"
             PROVE  mapped' /\ (typing' => Ending(0)')
                    /\ \A i \in DOMAIN queue' : queue'[i].kind = "started" => Ending(i)'
  BY DEF TypingInv
<1>1. /\ mapped /\ (typing => Ending(0)) /\ Shifted /\ turn' = turn /\ mapped' = mapped
      /\ \A i \in DOMAIN queue : queue[i].kind = "started" => Ending(i)
  <2>1. /\ mapped /\ (typing => Ending(0))
        /\ \A i \in DOMAIN queue : queue[i].kind = "started" => Ending(i)
    BY Zenon DEF TypingInv, Deliver
  <2>2. Shifted /\ turn' = turn /\ mapped' = mapped
    BY DeliverShifts DEF TypeInv, Deliver, turnVars
  <2> QED BY <2>1, <2>2, Zenon
<1>2. ASSUME NEW i \in Nat, Ending(i + 1) PROVE Ending(i)'
  <2>1. CASE \E t \in Turns : turn[t] \in Active
    <3>1. turn' = turn
      BY <1>1, Zenon
    <3> QED BY <2>1, <3>1 DEF Ending
  <2>2. CASE \E j \in DOMAIN queue : i + 1 < j /\ queue[j].kind = "finished"
    <3>1. PICK j \in DOMAIN queue : i + 1 < j /\ queue[j].kind = "finished"
      BY <2>2
    <3>2. j - 1 \in DOMAIN queue' /\ i < j - 1 /\ queue'[j - 1].kind = "finished"
      <4>1. Shifted
        BY <1>1, Zenon
      <4> QED BY <3>1, <4>1 DEF Shifted
    <3> QED BY <3>2 DEF Ending
  <2> QED BY <1>2, <2>1, <2>2 DEF Ending
<1>3. Handled(queue[1]) /\ 1 \in DOMAIN queue
  <2>1. Handled(Head(queue))
    BY <1>1, Zenon DEF Deliver
  <2>2. Head(queue) = queue[1] /\ 1 \in DOMAIN queue
    <3>1. Shifted
      BY <1>1, Zenon
    <3> QED BY <3>1 DEF Shifted
  <2> QED BY <2>1, <2>2, Zenon
<1>4. Ending(0) /\ queue[1].kind # "finished" => Ending(1)
  BY <1>1 DEF Ending, Shifted
<1>5. typing' => Ending(0)'
  <2>1. CASE queue[1].kind = "started"
    <3>1. Ending(0 + 1)
      BY <1>1, <1>3, <2>1
    <3> QED BY <1>2, <3>1
  <2>2. CASE queue[1].kind \notin {"started", "finished"}
    <3>1. typing' => typing
      BY <1>3, <2>2 DEF Handled, OnStatus, OnError, OnDelta, OnMessage
    <3>2. typing => Ending(0 + 1)
      <4>1. Ending(0) => Ending(0 + 1)
        BY <1>4, <2>2
      <4> QED BY <1>1, <4>1, Zenon
    <3>3. Ending(0 + 1) => Ending(0)'
      BY <1>2
    <3> QED BY <3>1, <3>2, <3>3, Zenon
  <2>3. CASE queue[1].kind = "finished"
    BY <1>3, <2>3 DEF Handled, OnFinished
  <2> QED BY <2>1, <2>2, <2>3
<1>6. ASSUME NEW i \in DOMAIN queue', queue'[i].kind = "started" PROVE Ending(i)'
  <2>1. i \in Nat /\ i + 1 \in DOMAIN queue /\ queue[i + 1].kind = "started"
    <3>1. Shifted
      BY <1>1, Zenon
    <3> QED BY <1>6, <3>1 DEF Shifted
  <2> QED BY <1>1, <1>2, <2>1
<1> QED BY <1>1, <1>5, <1>6, Zenon

LEMMA TypingInvariant == Spec => [](TypeInv /\ TypingInv)
<1>1. Init => TypingInv
  BY DEF Init, TypingInv
<1>2. TypeInv /\ TypingInv /\ [Next]_vars => TypingInv'
  <2> SUFFICES ASSUME TypeInv, TypingInv, [Next]_vars PROVE TypingInv'
    OBVIOUS
  <2>1. CASE NewBegins \/ NewMoves
    BY <2>1 DEF NewBegins, NewMoves, TypingInv
  <2>2. CASE UNCHANGED vars
    BY <2>2 DEF vars, turnVars, routeVars, TypingInv, Ending
  <2> QED BY <2>1, <2>2, TurnKeepsTyping, DeliverKeepsTyping DEF Next, TurnStep
<1> QED BY <1>1, <1>2, TypesInvariant, PTL DEF Spec

\* A typing sign always has something that will stop it: a turn that is not over, or the
\* end of one that is still to be delivered.  So none is on when all of that is done,
\* unless /new has taken the chat from a turn, whose end then finds no chat.
THEOREM TypingStops == Spec => []TypingEnds
<1>1. TypingInv => TypingEnds
  BY DEF TypingInv, TypingEnds, Quiet, Ending, Active
<1> QED BY <1>1, TypingInvariant, PTL

-----------------------------------------------------------------------------
(* The outcomes of the handlers *)

\* The call is made, or made in vain; a stream cannot be started, an edit not be made.
Fails(o) == o.cost # 0 \/ ~channel.editable

PlaceholderShape(o) ==
  \/ o.chat = Append(chat, <<Thinking>>) /\ o.stream = Started(Fresh, <<Thinking>>)
  \/ o.stream = None /\ (o.chat = chat \/ o.chat = Append(chat, <<Thinking>>)) /\ Fails(o)

Kept(o, s, p) ==
  /\ o.stream = s
  /\ \/ o.chat = chat /\ (s.sent = p \/ Fails(o))
     \/ o.chat = Append(chat, p) /\ (Fails(o) \/ (s.handle # 0 /\ s.updates >= channel.budget))
Begun(o, s, p) ==
  s.handle = 0 /\ o.chat = Append(chat, p) /\ o.stream = Started(s, p)
Redone(o, s, p) ==
  /\ s.handle # 0 /\ s.updates < channel.budget
  /\ o.chat = Edited(s.handle, p) /\ o.stream = Updated(s, p)
StatusShape(o, p) == Kept(o, Entry, p) \/ Begun(o, Entry, p) \/ Redone(o, Entry, p)

GivenUp(o, s) ==
  /\ o.chat = chat /\ o.stream = Stopped(s)
  /\ Fails(o) \/ (s.handle # 0 /\ s.updates >= channel.budget)
DeltaShape(o, s, p) ==
  \/ o.chat = chat /\ o.stream = s
  \/ ~s.disabled /\ (GivenUp(o, s) \/ Begun(o, s, p) \/ Redone(o, s, p))

\* What is sent after the end of a stream whose message is not edited any more.
Detour(text) == IF IsBeginning(stream.sent, text) THEN {} ELSE {"astray"}
FinishShape(o, text) ==
  \/ (stream = None \/ stream.handle = 0) /\ IsSend(o, chat, text, None, 0, {})
  \/ /\ stream # None /\ stream.handle # 0
     /\ \/ /\ stream.disabled \/ o.cost # 0
           /\ \E cost \in {0, 1} : IsSend(o, chat, Fallback(text, stream.sent), None, cost, Detour(text))
        \/ IsSend(o, Edited(stream.handle, Shown(text)), Rest(text), None, 0, {})

LEMMA SendFails ==
  ASSUME NEW c, NEW text, NEW s, NEW cost \in Nat, NEW marks, NEW o, IsSend(o, c, text, s, cost, marks)
  PROVE  /\ o.stream = s /\ (cost # 0 => o.cost # 0)
         /\ \/ o.chat = c /\ (text = <<>> \/ (o.cost # 0 /\ "unsent" \in o.marks))
            \/ o.chat = Append(c, text) /\ text # <<>> /\ o.marks = marks
<1>1. cost + 1 # 0 /\ "unsent" \in marks \cup {"unsent"}
  OBVIOUS
<1> QED BY <1>1, Zenon DEF IsSend

LEMMA SendCosts ==
  ASSUME NEW c, NEW text, NEW s, NEW cost \in Nat, NEW marks, NEW o, IsSend(o, c, text, s, cost, marks),
         cost # 0
  PROVE  o.cost # 0
<1>1. cost + 1 # 0
  OBVIOUS
<1> QED BY <1>1, Zenon DEF IsSend

LEMMA PlaceholderShapes ==
  ASSUME NEW o \in Placeholder PROVE PlaceholderShape(o)
<1>1. ASSUME NEW cost \in {0, 1}, NEW x \in Sends(chat, <<Thinking>>, None, cost, {}),
             cost = 1 \/ ~channel.editable
      PROVE  PlaceholderShape(x)
  <2>1. IsSend(x, chat, <<Thinking>>, None, cost, {}) /\ cost \in Nat
    BY SendsOutcomes
  <2>2. x.stream = None /\ (x.chat = chat \/ x.chat = Append(chat, <<Thinking>>))
    BY <2>1, Zenon DEF IsSend
  <2>3. Fails(x)
    BY <1>1, <2>1, SendCosts DEF Fails
  <2> QED BY <2>2, <2>3, Zenon DEF PlaceholderShape
<1>2. PlaceholderShape(Outcome(Append(chat, <<Thinking>>), Started(Fresh, <<Thinking>>), 0, {}))
  BY Zenon DEF PlaceholderShape, Outcome
<1>3. 0 \in {0, 1} /\ 1 \in {0, 1}
  OBVIOUS
<1> QED BY <1>1, <1>2, <1>3, Zenon DEF Placeholder, Starts

LEMMA StatusShapes ==
  ASSUME DeliveryTypeOK, NEW p, p # <<>>, NEW o \in Status(p) PROVE StatusShape(o, p)
<1>p. p # <<>>
  OBVIOUS
<1>1. ASSUME NEW cost \in {0, 1}, NEW x \in Sends(chat, p, Entry, cost, {}),
             \/ cost = 1 \/ ~channel.editable
             \/ Entry.handle # 0 /\ Entry.updates >= channel.budget
      PROVE  StatusShape(x, p)
  <2>1. IsSend(x, chat, p, Entry, cost, {}) /\ cost \in Nat
    BY SendsOutcomes
  <2>2. x.stream = Entry /\ ((x.chat = chat /\ x.cost # 0) \/ x.chat = Append(chat, p))
    <3>1. cost + 1 # 0
      BY <2>1
    <3> QED BY <1>p, <2>1, <3>1, Zenon DEF IsSend
  <2>3. Fails(x) \/ (Entry.handle # 0 /\ Entry.updates >= channel.budget)
    BY <1>1, <2>1, SendCosts DEF Fails
  <2>4. x.cost # 0 => Fails(x)
    BY DEF Fails
  <2> QED BY <2>2, <2>3, <2>4, Zenon DEF StatusShape, Kept
<1>2. Entry.sent = p => StatusShape(Outcome(chat, Entry, 0, {}), p)
  BY Zenon DEF StatusShape, Kept, Outcome
<1>3. Entry.handle = 0 => StatusShape(Outcome(Append(chat, p), Started(Entry, p), 0, {}), p)
  BY Zenon DEF StatusShape, Begun, Outcome
<1>4. Entry.updates \in Nat /\ channel.budget \in Nat
  BY EntryFits, TypeParts DEF StreamState
<1>5. ~(Entry.updates >= channel.budget) => Entry.updates < channel.budget
  BY <1>4
<1>6. Entry.handle # 0 /\ Entry.updates < channel.budget => StatusShape(Edit(Entry, p), p)
  BY Zenon DEF StatusShape, Redone, Edit, Outcome
<1>7. 0 \in {0, 1} /\ 1 \in {0, 1}
  OBVIOUS
<1> QED BY <1>1, <1>2, <1>3, <1>5, <1>6, <1>7, Zenon DEF Status, Starts

LEMMA DeltaShapes ==
  ASSUME DeliveryTypeOK, NEW piece \in AllPieces, NEW o \in Delta(piece)
  PROVE  DeltaShape(o, Grown(piece), Shown(Grown(piece).buffer))
<1> DEFINE s == Grown(piece)
           p == Shown(s.buffer)
           Good(x) == DeltaShape(x, s, p)
<1>1. Good(Outcome(chat, s, 0, {}))
  BY Zenon DEF DeltaShape, Outcome
<1>2. ASSUME NEW cost, ~s.disabled, \/ cost # 0 \/ ~channel.editable \/ (s.handle # 0 /\ s.updates >= channel.budget)
      PROVE  Good(Outcome(chat, Stopped(s), cost, {}))
  BY <1>2, Zenon DEF DeltaShape, GivenUp, Fails, Outcome
<1>3. ~s.disabled /\ s.handle = 0 => Good(Outcome(Append(chat, p), Started(s, p), 0, {}))
  BY Zenon DEF DeltaShape, Begun, Outcome
<1>4. s.updates \in Nat /\ channel.budget \in Nat
  BY EntryFits, GrownFields, TypeParts DEF StreamState
<1>5. ~(s.updates >= channel.budget) => s.updates < channel.budget
  BY <1>4
<1>6. ~s.disabled /\ s.handle # 0 /\ s.updates < channel.budget => Good(Edit(s, p))
  BY Zenon DEF DeltaShape, Redone, Edit, Outcome
<1>7. 1 # 0
  OBVIOUS
<1> HIDE DEF Good
<1>8. Good(o)
  BY <1>1, <1>2, <1>3, <1>5, <1>6, <1>7, Zenon DEF Delta, Starts
<1> QED BY <1>8 DEF Good

LEMMA FinishShapes ==
  ASSUME NEW text, NEW o \in Finish(text) PROVE FinishShape(o, text)
<1>1. CASE stream = None \/ stream.handle = 0
  BY <1>1, SendsOutcomes, Zenon DEF Finish, FinishShape
<1>2. CASE stream # None /\ stream.handle # 0
  <2> DEFINE f == Fallback(text, stream.sent)
             m == Detour(text)
  <2>1. ASSUME stream.disabled, o \in Sends(chat, f, None, 0, m) PROVE FinishShape(o, text)
    <3>1. IsSend(o, chat, f, None, 0, m) /\ 0 \in {0, 1}
      BY <2>1, SendsOutcomes
    <3> QED BY <1>2, <2>1, <3>1, Zenon DEF FinishShape
  <2>2. ASSUME o \in Sends(chat, f, None, 1, m) PROVE FinishShape(o, text)
    <3>1. IsSend(o, chat, f, None, 1, m) /\ 1 \in {0, 1}
      BY <2>2, SendsOutcomes
    <3>2. o.cost # 0
      BY <3>1, SendCosts
    <3> QED BY <1>2, <3>1, <3>2, Zenon DEF FinishShape
  <2>3. ASSUME o \in Sends(Edited(stream.handle, Shown(text)), Rest(text), None, 0, {})
        PROVE  FinishShape(o, text)
    <3>1. IsSend(o, Edited(stream.handle, Shown(text)), Rest(text), None, 0, {})
      BY <2>3, SendsOutcomes
    <3> QED BY <1>2, <3>1, Zenon DEF FinishShape
  <2> QED BY <1>2, <2>1, <2>2, <2>3, Zenon DEF Finish, Detour
<1> QED BY <1>1, <1>2

-----------------------------------------------------------------------------
(* What a stream shows is in the chat *)

ShownInv == stream # None /\ stream.handle # 0 => chat[stream.handle] = stream.sent

\* Every step of the bridge is an outcome of a handler or leaves the chat alone.
Unseen == UNCHANGED <<stream, chat, failures>>
LEMMA HandledOutcome ==
  ASSUME TypeInv, Deliver
  PROVE  \/ Unseen /\ ((~mapped /\ ~cached) \/ queue[1].kind = "finished")
         \/ queue[1].kind = "started" /\ channel.typing /\ stream' = None /\ UNCHANGED <<chat, failures>>
         \/ \E o : /\ GoodOutcome(o) /\ Apply(o)
                   /\ \/ queue[1].kind = "started" /\ ~channel.typing /\ PlaceholderShape(o)
                      \/ /\ queue[1].kind = "status" /\ queue[1].piece \in 1 .. retries
                         /\ StatusShape(o, <<Attempt(queue[1].piece)>>)
                      \/ /\ queue[1].kind = "delta" /\ queue[1].piece \in Parts(queue[1].answer)
                         /\ \E x \in {Piece(queue[1].answer, queue[1].piece)} :
                               DeltaShape(o, Grown(x), Shown(Grown(x).buffer))
                      \/ queue[1].kind = "error" /\ o.stream = None /\ FinishShape(o, <<Failed>>)
                      \/ queue[1].kind = "message" /\ o.stream = None /\ FinishShape(o, Answer(queue[1].answer))
<1> DEFINE e == queue[1]
<1>1. Shifted /\ DeliveryTypeOK
  BY DeliverShifts DEF TypeInv
<1>2. /\ e \in Events /\ Head(queue) = e /\ e.answer \in Answers /\ 1 \in DOMAIN queue
  BY <1>1, EventParts DEF Shifted
<1>3. /\ e.kind = "delta" => e.piece \in Parts(e.answer)
      /\ e.kind = "status" => e.piece \in 1 .. retries
  BY <1>2 DEF TypeInv, EventsAreReal
<1>4. retries \in 0 .. MaxRetries /\ MaxRetries \in Nat
  BY ConstantsAreSound DEF TypeInv, DeliveryTypeOK
<1> HIDE DEF e
<1>5. CASE ~cached /\ ~mapped /\ UNCHANGED <<cached, viewVars, typing>>
  BY <1>5 DEF viewVars, Unseen
<1>6. CASE e.kind = "started" /\ OnStarted
  BY <1>1, <1>6, PlaceholderTypes, PlaceholderShapes, Zenon DEF OnStarted, e
<1>7. CASE e.kind = "finished" /\ OnFinished
  BY <1>7 DEF OnFinished, viewVars, Unseen, e
<1>8. CASE e.kind = "status" /\ OnStatus(e)
  <2>1. PICK o \in Status(<<Attempt(e.piece)>>) : Apply(o)
    BY <1>8 DEF OnStatus
  <2>2. e.piece \in 1 .. MaxRetries
    BY <1>3, <1>4, <1>8
  <2>3. <<Attempt(e.piece)>> \in Text /\ <<Attempt(e.piece)>> # <<>>
    BY <2>2, WordsAreSymbols
  <2>4. GoodOutcome(o) /\ StatusShape(o, <<Attempt(e.piece)>>)
    BY <1>1, <2>3, StatusTypes, StatusShapes
  <2> QED BY <1>3, <1>8, <2>1, <2>4, Zenon DEF e
<1>9. CASE e.kind = "error" /\ OnError
  <2>1. PICK o \in Finish(<<Failed>>) : Apply(o)
    BY <1>9 DEF OnError
  <2>2. GoodOutcome(o) /\ o.stream = None /\ FinishShape(o, <<Failed>>)
    BY <1>1, FinishTypes, FinishShapes, WordsAreSymbols
  <2> QED BY <1>9, <2>1, <2>2, Zenon DEF e
<1>10. CASE e.kind = "delta" /\ OnDelta(e)
  <2> DEFINE x == Piece(e.answer, e.piece)
  <2>1. PICK o \in Delta(x) : Apply(o)
    BY <1>10 DEF OnDelta
  <2>2. x \in AllPieces
    BY <1>2, <1>3, <1>10, WordsAreSymbols
  <2>3. GoodOutcome(o) /\ DeltaShape(o, Grown(x), Shown(Grown(x).buffer))
    BY <1>1, <2>2, DeltaTypes, DeltaShapes
  <2>4. x \in {x}
    OBVIOUS
  <2> QED BY <1>3, <1>10, <2>1, <2>3, <2>4, Zenon DEF e
<1>11. CASE e.kind = "message" /\ OnMessage(e)
  <2>1. PICK o \in Finish(Answer(e.answer)) : Apply(o)
    BY <1>11 DEF OnMessage
  <2>2. GoodOutcome(o) /\ o.stream = None /\ FinishShape(o, Answer(e.answer))
    BY <1>1, <1>2, FinishTypes, FinishShapes, AnswersAreTexts
  <2> QED BY <1>11, <2>1, <2>2, Zenon DEF e
<1>12. \/ ~cached /\ ~mapped /\ UNCHANGED <<cached, viewVars, typing>>
       \/ Handled(e)
  BY <1>2, Zenon DEF Deliver
<1> QED BY <1>5, <1>6, <1>7, <1>8, <1>9, <1>10, <1>11, <1>12, Zenon DEF Handled

LEMMA EntryShows ==
  ASSUME DeliveryTypeOK, ShownInv
  PROVE  /\ Entry.handle \in Nat /\ Entry.handle <= Len(chat) /\ Len(chat) \in Nat
         /\ Entry.handle # 0 => chat[Entry.handle] = Entry.sent /\ stream # None /\ Entry = stream
         /\ stream = None => Entry = Fresh
         /\ stream # None => Entry = stream
         /\ Fresh.handle = 0 /\ Fresh.sent = <<>> /\ Fresh.buffer = <<>> /\ ~Fresh.disabled /\ Fresh.updates = 0
<1>1. Entry \in StreamState /\ Fits(Entry, chat) /\ chat \in Texts
  BY EntryFits, TypeParts
<1>2. Entry.handle \in Nat /\ Entry.handle <= Len(chat) /\ Len(chat) \in Nat
  BY <1>1, ConstantsAreSound, LenProperties DEF Fits, StreamState, Texts
<1>3. Fresh.handle = 0 /\ Fresh.sent = <<>> /\ Fresh.buffer = <<>> /\ ~Fresh.disabled /\ Fresh.updates = 0
  BY DEF Fresh
<1>4. (stream = None => Entry = Fresh) /\ (stream # None => Entry = stream)
  BY DEF Entry
<1> QED BY <1>2, <1>3, <1>4 DEF ShownInv

\* The stream s shows in the chat c what it sent last.
Shows(s, c) == s = None \/ s.handle = 0 \/ c[s.handle] = s.sent

LEMMA ShapesShow ==
  ASSUME DeliveryTypeOK, ShownInv, NEW s \in StreamState, s.handle = Entry.handle, s.sent = Entry.sent,
         NEW p \in Text, NEW o
  PROVE  /\ Kept(o, s, p) => Shows(o.stream, o.chat)
         /\ Begun(o, s, p) => Shows(o.stream, o.chat)
         /\ Redone(o, s, p) => Shows(o.stream, o.chat)
         /\ GivenUp(o, s) => Shows(o.stream, o.chat)
         /\ Shows(s, chat)
<1>1. /\ chat \in Texts /\ Len(chat) \in Nat /\ s.handle \in Nat /\ s.handle <= Len(chat)
      /\ s.handle # 0 => chat[s.handle] = s.sent
  BY TypeParts, EntryShows
<1>2. Append(chat, p)[Len(chat) + 1] = p /\ (s.handle # 0 => Append(chat, p)[s.handle] = chat[s.handle])
  BY <1>1, LongerChat
<1>3. Shows(s, chat) /\ Shows(s, Append(chat, p))
  BY <1>1, <1>2, Zenon DEF Shows
<1>4. Shows(Stopped(s), chat)
  BY <1>1, StoppedFields, Zenon DEF Shows
<1>5. Shows(Started(s, p), Append(chat, p))
  BY <1>1, <1>2, StartFields, Zenon DEF Shows
<1>6. s.handle # 0 => Shows(Updated(s, p), Edited(s.handle, p))
  <2>1. s.handle # 0 => Edited(s.handle, p)[s.handle] = p
    BY <1>1, EditedChat
  <2> QED BY <2>1, UpdateFields, Zenon DEF Shows
<1> QED BY <1>3, <1>4, <1>5, <1>6, Zenon DEF Kept, Begun, Redone, GivenUp

\* The entry after a piece is one that the shapes apply to.
LEMMA GrownEntry ==
  ASSUME DeliveryTypeOK, NEW x \in AllPieces
  PROVE  /\ Grown(x) \in StreamState /\ Grown(x).handle = Entry.handle /\ Grown(x).sent = Entry.sent
         /\ Grown(x).updates = Entry.updates /\ Grown(x).disabled = Entry.disabled
         /\ Grown(x).buffer \in Text /\ Shown(Grown(x).buffer) \in Text
         /\ Entry.disabled => Grown(x) = Entry
         /\ ~Entry.disabled => Grown(x).buffer = Append(Entry.buffer, x)
<1>1. Entry \in StreamState
  BY EntryFits
<1>2. Grown(x) \in StreamState
  BY <1>1, GrownFields
<1>3. Grown(x).buffer \in Seq(AllPieces)
  BY <1>2 DEF StreamState
<1>4. Grown(x).buffer \in Text /\ Shown(Grown(x).buffer) \in Text
  BY <1>3, PiecesAreText, ShownIsText
<1> QED BY <1>1, <1>4, GrownFields, Zenon

LEMMA DeliverShows == ASSUME TypeInv, ShownInv, Deliver PROVE ShownInv'
<1>1. DeliveryTypeOK /\ queue[1].answer \in Answers /\ MaxRetries \in Nat /\ retries \in 0 .. MaxRetries
  BY DeliverShifts, EventParts, ConstantsAreSound DEF TypeInv, DeliveryTypeOK, Shifted
<1>2. ASSUME Shows(stream', chat') PROVE ShownInv'
  BY <1>2, Zenon DEF Shows, ShownInv
<1>3. CASE Unseen
  BY <1>3 DEF Unseen, ShownInv
<1>4. ASSUME stream' = None PROVE ShownInv'
  BY <1>4 DEF ShownInv
<1>5. Entry \in StreamState /\ Fresh \in StreamState /\ chat \in Texts /\ Len(chat) \in Nat
  BY <1>1, EntryFits, TypeParts, LenProperties DEF Texts
<1>6. ASSUME NEW o, Apply(o), PlaceholderShape(o) PROVE ShownInv'
  <2>1. CASE o.stream = None
    BY <1>4, <1>6, <2>1 DEF Apply
  <2>2. CASE o.chat = Append(chat, <<Thinking>>) /\ o.stream = Started(Fresh, <<Thinking>>)
    <3>1. <<Thinking>> \in Text
      BY WordsAreSymbols
    <3>2. /\ Started(Fresh, <<Thinking>>).handle = Len(chat) + 1
          /\ Started(Fresh, <<Thinking>>).sent = <<Thinking>>
          /\ Append(chat, <<Thinking>>)[Len(chat) + 1] = <<Thinking>>
      BY <1>5, <3>1, StartFields, LongerChat
    <3>3. Shows(Started(Fresh, <<Thinking>>), Append(chat, <<Thinking>>))
      BY <3>2, Zenon DEF Shows
    <3> QED BY <1>2, <1>6, <2>2, <3>3, Zenon DEF Apply
  <2> QED BY <1>6, <2>1, <2>2, Zenon DEF PlaceholderShape
<1>7. ASSUME NEW o, Apply(o), NEW p \in Text, StatusShape(o, p) PROVE ShownInv'
  <2>1. Shows(o.stream, o.chat)
    BY <1>1, <1>5, <1>7, ShapesShow, Zenon DEF StatusShape
  <2> QED BY <1>2, <1>7, <2>1, Zenon DEF Apply
<1>8. ASSUME NEW o, Apply(o), NEW x \in AllPieces, DeltaShape(o, Grown(x), Shown(Grown(x).buffer))
      PROVE  ShownInv'
  <2> DEFINE s == Grown(x)
             p == Shown(s.buffer)
  <2>1. s \in StreamState /\ s.handle = Entry.handle /\ s.sent = Entry.sent /\ p \in Text
    BY <1>1, GrownEntry
  <2> HIDE DEF s, p
  <2>2. /\ Shows(s, chat)
        /\ Begun(o, s, p) \/ Redone(o, s, p) \/ GivenUp(o, s) => Shows(o.stream, o.chat)
    BY <1>1, <2>1, ShapesShow, Zenon
  <2>3. DeltaShape(o, s, p)
    BY <1>8 DEF s, p
  <2>4. Shows(o.stream, o.chat)
    BY <2>2, <2>3, Zenon DEF DeltaShape
  <2> QED BY <1>2, <1>8, <2>4, Zenon DEF Apply
<1>9. queue[1].kind = "status" /\ queue[1].piece \in 1 .. retries => <<Attempt(queue[1].piece)>> \in Text
  BY <1>1, WordsAreSymbols
<1>10. queue[1].kind = "delta" /\ queue[1].piece \in Parts(queue[1].answer)
         => Piece(queue[1].answer, queue[1].piece) \in AllPieces
  BY <1>1, WordsAreSymbols
<1>11. ASSUME NEW o, Apply(o), o.stream = None PROVE ShownInv'
  BY <1>4, <1>11 DEF Apply
<1>12. \A x, y : x \in {y} => x = y
  OBVIOUS
<1> QED BY <1>3, <1>4, <1>6, <1>7, <1>8, <1>9, <1>10, <1>11, <1>12, HandledOutcome, Zenon

LEMMA ShownInvariant == Spec => []ShownInv
<1>1. Init => ShownInv
  BY DEF Init, ShownInv
<1>2. TypeInv /\ ShownInv /\ [Next]_vars => ShownInv'
  <2> SUFFICES ASSUME TypeInv, ShownInv, [Next]_vars PROVE ShownInv'
    OBVIOUS
  <2>1. ASSUME NEW t \in Turns, TurnStep(t) PROVE ShownInv'
    BY <2>1, TurnLeaves DEF viewVars, ShownInv
  <2>2. CASE NewBegins \/ NewMoves
    BY <2>2 DEF NewBegins, NewMoves, viewVars, ShownInv
  <2>3. CASE UNCHANGED vars
    BY <2>3 DEF vars, viewVars, ShownInv
  <2> QED BY <2>1, <2>2, <2>3, DeliverShows DEF Next, TurnStep
<1> QED BY <1>1, <1>2, TypesInvariant, PTL DEF Spec

-----------------------------------------------------------------------------
(* The order of the events *)

Done   == {"closed", "over", "reviewed"}
Opens  == {"started", "status", "delta"}
Closes == {"message", "error"}

\* The turns of the session run one after the other.
OneActive == \A s, t \in Turns : s < t /\ turn[t] # "new" => turn[s] \in Done

\* An event between i and j that closes the stream.
Closed(i, j) == \E m \in DOMAIN queue : i < m /\ m < j /\ queue[m].kind \in Closes

\* The event at i opens a stream when it is delivered; the one that is open now was
\* opened at 0.
Open(i) == \/ i = 0 /\ stream # None
           \/ i \in DOMAIN queue /\ queue[i].kind \in Opens
Streaming(i) == \/ i = 0 /\ stream # None /\ stream.buffer # <<>>
                \/ i \in DOMAIN queue /\ queue[i].kind = "delta"

\* A stream is open only while its turn may still add to it, and closed before the next
\* turn starts; one that has text is closed before a request can be retried.
Live      == \E t \in Turns : turn[t] \in {"request", "stream"}
Asked     == \E t \in Turns : turn[t] = "request"
OpenOrder(i) ==
  Open(i) => /\ Live \/ Closed(i, Len(queue) + 1)
             /\ \A j \in DOMAIN queue : i < j /\ queue[j].kind = "started" => Closed(i, j)
StreamOrder(i) ==
  Streaming(i) => /\ Asked => Closed(i, Len(queue) + 1)
                  /\ \A j \in DOMAIN queue : i < j /\ queue[j].kind = "status" => Closed(i, j)
OrderInv == Undisturbed => \A i \in 0 .. Len(queue) : OpenOrder(i) /\ StreamOrder(i)

LEMMA TurnKeepsDone ==
  ASSUME TypeInv, NEW t \in Turns, TurnStep(t)
  PROVE  /\ turn[t] \in Done => turn'[t] \in Done
         /\ turn[t] = "new" => TurnStarts(t)
         /\ turn[t] # "reviewed"
         /\ turn'[t] # "reviewed" \/ ReviewFails(t)
<1>1. turn \in [Turns -> {"new", "request", "stream", "tools", "waiting", "ended", "closed", "over", "reviewed"}]
  BY TypeSplit DEF TurnTypes
<1> USE <1>1 DEF Enter, Done
<1>2. CASE TurnStarts(t)
  BY <1>2 DEF TurnStarts
<1>3. CASE TurnRetries(t)
  BY <1>3 DEF TurnRetries
<1>4. CASE TurnStreams(t)
  BY <1>4 DEF TurnStreams
<1>5. CASE TurnAnswers(t)
  BY <1>5 DEF TurnAnswers
<1>6. CASE TurnGoesOn(t)
  BY <1>6 DEF TurnGoesOn
<1>7. CASE TurnAsks(t)
  BY <1>7 DEF TurnAsks
<1>8. CASE TurnHears(t)
  BY <1>8 DEF TurnHears
<1>9. CASE TurnFails(t)
  BY <1>9 DEF TurnFails
<1>10. CASE TurnCloses(t)
  BY <1>10 DEF TurnCloses
<1>11. CASE TurnFinishes(t)
  BY <1>11 DEF TurnFinishes
<1>12. CASE ReviewFails(t)
  BY <1>12 DEF ReviewFails
<1> QED BY <1>2, <1>3, <1>4, <1>5, <1>6, <1>7, <1>8, <1>9, <1>10, <1>11, <1>12 DEF TurnStep

LEMMA TurnKeepsOne == ASSUME TypeInv, OneActive, NEW m \in Turns, TurnStep(m) PROVE OneActive'
<1> SUFFICES ASSUME NEW s \in Turns, NEW t \in Turns, s < t, turn'[t] # "new" PROVE turn'[s] \in Done
  BY DEF OneActive
<1>1. \A x \in Turns : x # m => turn'[x] = turn[x]
  BY TurnMoves
<1>2. s \in Nat /\ t \in Nat /\ Turns = 1 .. NTurns /\ NTurns \in Nat /\ m \in Nat
  BY ConstantsAreSound DEF Turns
<1>3. turn[s] \in Done
  <2>1. CASE turn[t] # "new"
    BY <2>1 DEF OneActive
  <2>2. CASE turn[t] = "new"
    <3>1. t = m /\ TurnStarts(t)
      BY <1>1, <2>2, TurnKeepsDone
    <3>2. t > 1 /\ t - 1 \in Turns
      BY <1>2
    <3>3. turn[t - 1] \in Done
      BY <3>1, <3>2 DEF TurnStarts, Done
    <3>4. CASE s = t - 1
      BY <3>3, <3>4
    <3>5. CASE s < t - 1
      BY <3>2, <3>3, <3>5 DEF OneActive, Done
    <3> QED BY <1>2, <3>4, <3>5
  <2> QED BY <2>1, <2>2
<1> QED BY <1>1, <1>3, TurnKeepsDone

Working == {"request", "stream", "tools", "waiting", "ended"}

\* While a turn works no other does, and none works when one starts.
LEMMA Alone ==
  ASSUME OneActive, NEW s \in Turns, turn[s] \in Working, NEW t \in Turns, t # s
  PROVE  turn[t] \in Done \cup {"new"}
<1>1. s \in Nat /\ t \in Nat
  BY ConstantsAreSound DEF Turns
<1>2. CASE s < t
  BY <1>2 DEF OneActive, Working, Done
<1>3. CASE t < s
  BY <1>3 DEF OneActive, Working, Done
<1> QED BY <1>1, <1>2, <1>3

LEMMA StartsAlone ==
  ASSUME OneActive, NEW t \in Turns, TurnStarts(t), NEW s \in Turns PROVE turn[s] \notin Working
<1> SUFFICES ASSUME turn[s] \in Working PROVE FALSE
  OBVIOUS
<1>1. turn[t] = "new" /\ s # t
  BY DEF TurnStarts, Working
<1>2. s \in Nat /\ t \in Nat /\ Turns = 1 .. NTurns /\ NTurns \in Nat
  BY ConstantsAreSound DEF Turns
<1>3. CASE t < s
  BY <1>1, <1>3 DEF OneActive, Working, Done
<1>4. CASE s < t
  <2>1. t > 1 /\ t - 1 \in Turns
    BY <1>2, <1>4
  <2>2. turn[t - 1] \in Done
    BY <2>1 DEF TurnStarts, Done
  <2>3. turn[t - 1] # "new" /\ s # t - 1
    BY <2>2 DEF Done, Working
  <2> QED BY <1>2, <1>4, <2>1, <2>3 DEF OneActive, Working, Done
<1> QED BY <1>1, <1>2, <1>3, <1>4

\* What a step of a turn does to the order.
Adds(k) == Len(queue') = Len(queue) + 1 /\ queue'[Len(queue) + 1].kind = k
LEMMA TurnAdds ==
  ASSUME TypeInv, OneActive, NEW t \in Turns, TurnStep(t)
  PROVE  /\ Live => Live' \/ \E k \in Closes : Adds(k)
         /\ Asked' => Asked \/ ~Live
         /\ Adds("started") => ~Live
         /\ Adds("status") => Asked
         /\ \A k \in Opens : Adds(k) => Live'
         /\ Adds("delta") => ~Asked'
<1>1. /\ turn \in [Turns -> {"new", "request", "stream", "tools", "waiting", "ended", "closed", "over", "reviewed"}]
      /\ Len(queue) \in Nat /\ Len(queue) # Len(queue) + 1
  BY TypeSplit, TurnQueue DEF TurnTypes
<1>2. ASSUME NEW k, NEW p, Published(Event(t, k, p)) PROVE Adds(k) /\ \A j : Adds(j) => j = k
  BY <1>2, EventFields DEF Published, Adds
<1>3. ASSUME queue' = queue, NEW k PROVE ~Adds(k)
  BY <1>1, <1>3 DEF Adds
<1>4. \A s \in Turns : s # t => turn'[s] = turn[s]
  BY TurnMoves
<1>5. ASSUME NEW s \in Turns, s # t, turn[t] \in Working PROVE turn[s] \notin Working
  BY <1>5, Alone DEF Working, Done
<1> USE DEF Live, Asked, Opens, Closes, Working
<1>6. CASE TurnStarts(t)
  <2>1. turn'[t] = "request" /\ turn[t] = "new"
    BY <1>1, <1>6 DEF TurnStarts, Enter
  <2>2. Adds("started") /\ \A j : Adds(j) => j = "started"
    BY <1>2, <1>6, TurnPublishes
  <2>3. ~Live
    BY <1>6, StartsAlone
  <2> QED BY <2>1, <2>2, <2>3
<1>7. CASE TurnRetries(t)
  <2>1. turn'[t] = "request" /\ turn[t] = "request" /\ turn' = turn
    BY <1>1, <1>7 DEF TurnRetries
  <2>2. Adds("status") /\ \A j : Adds(j) => j = "status"
    BY <1>2, <1>7, TurnPublishes
  <2> QED BY <2>1, <2>2
<1>8. CASE TurnStreams(t)
  <2>1. turn'[t] = "stream" /\ turn[t] \in {"request", "stream"}
    BY <1>1, <1>8 DEF TurnStreams, Enter
  <2>2. Adds("delta") /\ \A j : Adds(j) => j = "delta"
    BY <1>2, <1>8, TurnPublishes
  <2> QED BY <1>4, <1>5, <2>1, <2>2
<1>9. CASE TurnAnswers(t)
  <2>1. turn'[t] \in {"ended", "tools"}
    BY <1>1, <1>9 DEF TurnAnswers, Enter
  <2>2. Adds("message") /\ \A j : Adds(j) => j = "message"
    BY <1>2, <1>9, TurnPublishes
  <2> QED BY <1>4, <2>1, <2>2
<1>10. CASE TurnGoesOn(t)
  <2>1. turn'[t] = "request" /\ turn[t] = "tools" /\ queue' = queue
    BY <1>1, <1>10 DEF TurnGoesOn, Enter
  <2> QED BY <1>3, <1>5, <2>1
<1>11. CASE TurnAsks(t)
  <2>1. turn'[t] = "waiting" /\ turn[t] = "tools" /\ queue' = queue
    BY <1>1, <1>11 DEF TurnAsks, Enter
  <2> QED BY <1>3, <1>4, <2>1
<1>12. CASE TurnHears(t)
  <2>1. turn'[t] = "tools" /\ turn[t] = "waiting" /\ queue' = queue
    BY <1>1, <1>12 DEF TurnHears, Enter
  <2> QED BY <1>3, <1>4, <2>1
<1>13. CASE TurnFails(t)
  <2>1. turn'[t] = "ended"
    BY <1>1, <1>13 DEF TurnFails, Enter
  <2>2. Adds("error") /\ \A j : Adds(j) => j = "error"
    BY <1>2, <1>13, TurnPublishes
  <2> QED BY <1>4, <2>1, <2>2
<1>14. CASE TurnCloses(t)
  <2>1. turn'[t] = "closed" /\ turn[t] = "ended" /\ queue' = queue
    BY <1>1, <1>14 DEF TurnCloses, Enter
  <2> QED BY <1>3, <1>4, <2>1
<1>15. CASE TurnFinishes(t)
  <2>1. turn'[t] = "over" /\ turn[t] = "closed"
    BY <1>1, <1>15 DEF TurnFinishes, Enter
  <2>2. Adds("finished") /\ \A j : Adds(j) => j = "finished"
    BY <1>2, <1>15, TurnPublishes
  <2> QED BY <1>4, <2>1, <2>2
<1>16. CASE ReviewFails(t)
  <2>1. turn'[t] = "reviewed" /\ turn[t] = "over"
    BY <1>1, <1>16 DEF ReviewFails, Enter
  <2>2. Adds("error") /\ \A j : Adds(j) => j = "error"
    BY <1>2, <1>16, TurnPublishes
  <2> QED BY <1>4, <2>1, <2>2
<1> QED BY <1>6, <1>7, <1>8, <1>9, <1>10, <1>11, <1>12, <1>13, <1>14, <1>15, <1>16 DEF TurnStep

LEMMA UndisturbedBefore ==
  ASSUME TypeInv, Undisturbed', NEW t \in Turns, TurnStep(t) PROVE Undisturbed
<1>1. command = "none" /\ \A s \in Turns : turn'[s] # "reviewed"
  BY TurnLeaves DEF Undisturbed, routeVars
<1>2. \A s \in Turns : s # t => turn'[s] = turn[s]
  BY TurnMoves
<1> QED BY <1>1, <1>2, TurnKeepsDone DEF Undisturbed

LEMMA TurnKeepsOrder ==
  ASSUME TypeInv, OneActive, OrderInv, NEW t \in Turns, TurnStep(t) PROVE OrderInv'
<1> DEFINE L == Len(queue)
<1> SUFFICES ASSUME Undisturbed', NEW i \in 0 .. Len(queue') PROVE OpenOrder(i)' /\ StreamOrder(i)'
  BY DEF OrderInv
<1>1. /\ L \in Nat /\ DOMAIN queue = 1 .. L
      /\ \/ queue' = queue
         \/ /\ Len(queue') = L + 1 /\ DOMAIN queue' = 1 .. L + 1
            /\ \A j \in 1 .. L : queue'[j] = queue[j]
  BY TurnQueue DEF Published
<1>2. \A j \in DOMAIN queue' :
        \/ j \in DOMAIN queue /\ queue'[j] = queue[j]
        \/ j = L + 1 /\ Len(queue') = L + 1
  <2>1. CASE queue' = queue
    BY <2>1, Zenon
  <2>2. CASE queue' # queue
    BY <1>1, <2>2
  <2> QED BY <2>1, <2>2
<1>3. stream' = stream
  BY TurnLeaves DEF viewVars
<1>4. ASSUME NEW h \in 0 .. L, NEW j, Closed(h, j) PROVE Closed(h, j)'
  BY <1>1, <1>4 DEF Closed
<1>5. ASSUME NEW h \in 0 .. L, Closed(h, L + 1) PROVE Closed(h, Len(queue) + 1)'
  <2>1. PICK m \in DOMAIN queue : h < m /\ m < L + 1 /\ queue[m].kind \in Closes
    BY <1>5 DEF Closed
  <2>2. m \in DOMAIN queue' /\ queue'[m] = queue[m] /\ m < Len(queue') + 1
    BY <1>1, <2>1
  <2> QED BY <2>1, <2>2 DEF Closed
<1>6. CASE i \in 0 .. L
  <2>1. Undisturbed /\ OpenOrder(i) /\ StreamOrder(i)
    BY <1>6, UndisturbedBefore DEF OrderInv
  <2>2. (Open(i)' => Open(i)) /\ (Streaming(i)' => Streaming(i)) /\ (Streaming(i) => Open(i))
    BY <1>1, <1>2, <1>3, <1>6 DEF Open, Streaming, Opens
  <2>3. ASSUME Open(i) PROVE Live' \/ Closed(i, Len(queue) + 1)'
    <3>1. CASE Closed(i, L + 1)
      BY <1>5, <1>6, <3>1
    <3>2. CASE \E k \in Closes : Adds(k)
      <4>1. L + 1 \in DOMAIN queue' /\ queue'[L + 1].kind \in Closes /\ i < L + 1 /\ L + 1 < Len(queue') + 1
        BY <1>1, <1>6, <3>2 DEF Adds
      <4> QED BY <4>1 DEF Closed
    <3> QED BY <2>1, <2>3, <3>1, <3>2, TurnAdds DEF OpenOrder
  <2>4. ASSUME Open(i), NEW j \in DOMAIN queue', i < j, queue'[j].kind = "started" PROVE Closed(i, j)'
    <3>1. Closed(i, j)
      <4>1. CASE j \in DOMAIN queue /\ queue'[j] = queue[j]
        BY <2>1, <2>4, <4>1 DEF OpenOrder
      <4>2. CASE j = L + 1 /\ Len(queue') = L + 1
        <5>1. Adds("started")
          BY <2>4, <4>2 DEF Adds
        <5> QED BY <2>1, <2>4, <4>2, <5>1, TurnAdds DEF OpenOrder
      <4> QED BY <1>2, <4>1, <4>2
    <3> QED BY <1>4, <1>6, <3>1
  <2>5. ASSUME Streaming(i), Asked' PROVE Closed(i, Len(queue) + 1)'
    BY <1>5, <1>6, <2>1, <2>2, <2>5, TurnAdds DEF OpenOrder, StreamOrder
  <2>6. ASSUME Streaming(i), NEW j \in DOMAIN queue', i < j, queue'[j].kind = "status" PROVE Closed(i, j)'
    <3>1. Closed(i, j)
      <4>1. CASE j \in DOMAIN queue /\ queue'[j] = queue[j]
        BY <2>1, <2>6, <4>1 DEF StreamOrder
      <4>2. CASE j = L + 1 /\ Len(queue') = L + 1
        <5>1. Adds("status")
          BY <2>6, <4>2 DEF Adds
        <5> QED BY <2>1, <2>6, <4>2, <5>1, TurnAdds DEF StreamOrder
      <4> QED BY <1>2, <4>1, <4>2
    <3> QED BY <1>4, <1>6, <3>1
  <2> QED BY <2>2, <2>3, <2>4, <2>5, <2>6 DEF OpenOrder, StreamOrder
<1>7. CASE i = L + 1 /\ Len(queue') = L + 1
  <2>1. \A j \in DOMAIN queue' : ~(i < j)
    BY <1>1, <1>7
  <2>2. Open(i)' => \E k \in Opens : Adds(k)
    BY <1>1, <1>7 DEF Open, Adds
  <2>3. Streaming(i)' => Adds("delta")
    BY <1>1, <1>7 DEF Streaming, Adds
  <2> QED BY <2>1, <2>2, <2>3, TurnAdds DEF OpenOrder, StreamOrder
<1> QED BY <1>1, <1>6, <1>7

\* What a delivered event makes of the stream.
LEMMA StreamAfter ==
  ASSUME TypeInv, mapped, Deliver
  PROVE  /\ stream' # None => \/ queue[1].kind \in Opens
                              \/ queue[1].kind = "finished" /\ stream' = stream
         /\ stream' # None /\ stream'.buffer # <<>> =>
              \/ queue[1].kind = "delta"
              \/ queue[1].kind = "finished" /\ stream' = stream
              \/ queue[1].kind = "status" /\ stream # None /\ stream.buffer # <<>>
<1>1. DeliveryTypeOK /\ retries \in 0 .. MaxRetries /\ MaxRetries \in Nat
  BY ConstantsAreSound DEF TypeInv, DeliveryTypeOK
<1>2. /\ Entry \in StreamState /\ Fresh \in StreamState /\ Len(chat) \in Nat /\ Fresh.buffer = <<>>
      /\ Entry.buffer # <<>> => stream # None /\ stream.buffer # <<>>
  BY <1>1, EntryFits, TypeParts, LenProperties DEF Texts, Fresh, Entry
<1>3. CASE Unseen /\ queue[1].kind = "finished"
  BY <1>3, Zenon DEF Unseen
<1>4. CASE stream' = None
  BY <1>4, Zenon
<1>5. ASSUME NEW o, Apply(o), PlaceholderShape(o), queue[1].kind = "started"
      PROVE  stream' = None \/ stream'.buffer = <<>>
  <2>1. <<Thinking>> \in Text
    BY WordsAreSymbols
  <2>2. Started(Fresh, <<Thinking>>).buffer = <<>>
    BY <1>2, <2>1, StartFields
  <2> QED BY <1>5, <2>2, Zenon DEF PlaceholderShape, Apply
<1>6. ASSUME NEW o, Apply(o), NEW p \in Text, StatusShape(o, p)
      PROVE  stream'.buffer = Entry.buffer
  <2>1. Started(Entry, p).buffer = Entry.buffer /\ Updated(Entry, p).buffer = Entry.buffer
    BY <1>2, StartFields, UpdateFields
  <2> QED BY <1>6, <2>1, Zenon DEF StatusShape, Kept, Begun, Redone, Apply
<1>7. queue[1].piece \in 1 .. retries => <<Attempt(queue[1].piece)>> \in Text
  BY <1>1, WordsAreSymbols
<1>8. ASSUME NEW o, Apply(o), o.stream = None PROVE stream' = None
  BY <1>8, Zenon DEF Apply
<1>9. "started" \in Opens /\ "status" \in Opens /\ "delta" \in Opens
  BY DEF Opens
<1> QED BY <1>2, <1>3, <1>4, <1>5, <1>6, <1>7, <1>8, <1>9, HandledOutcome, Zenon

LEMMA DeliverKeepsOrder ==
  ASSUME TypeInv, TypingInv, OrderInv, Deliver PROVE OrderInv'
<1> SUFFICES ASSUME Undisturbed', NEW i \in 0 .. Len(queue') PROVE OpenOrder(i)' /\ StreamOrder(i)'
  BY DEF OrderInv
<1>1. Shifted /\ turn' = turn /\ command' = command
  BY DeliverShifts DEF TypeInv, Deliver, turnVars
<1>2. Undisturbed /\ mapped
  BY <1>1 DEF Undisturbed, TypingInv
<1>3. i \in Nat /\ i + 1 \in 0 .. Len(queue) /\ 0 \in 0 .. Len(queue) /\ 1 \in 1 .. Len(queue)
  BY <1>1 DEF Shifted
<1>4. \A j \in DOMAIN queue' : j \in Nat /\ j + 1 \in DOMAIN queue /\ queue'[j] = queue[j + 1]
  BY <1>1 DEF Shifted
<1>5. OpenOrder(i + 1) /\ StreamOrder(i + 1) /\ OpenOrder(0) /\ StreamOrder(0)
  BY <1>2, <1>3 DEF OrderInv
<1>6. ASSUME NEW j \in Nat, Closed(i + 1, j + 1) PROVE Closed(i, j)'
  <2>1. PICK m \in DOMAIN queue : i + 1 < m /\ m < j + 1 /\ queue[m].kind \in Closes
    BY <1>6 DEF Closed
  <2>2. m - 1 \in DOMAIN queue' /\ queue'[m - 1] = queue[m] /\ i < m - 1 /\ m - 1 < j
    BY <1>1, <1>3, <2>1 DEF Shifted
  <2> QED BY <2>1, <2>2 DEF Closed
<1>7. ASSUME Closed(i + 1, Len(queue) + 1) PROVE Closed(i, Len(queue) + 1)'
  <2>1. PICK m \in DOMAIN queue : i + 1 < m /\ m < Len(queue) + 1 /\ queue[m].kind \in Closes
    BY <1>7 DEF Closed
  <2>2. m - 1 \in DOMAIN queue' /\ queue'[m - 1] = queue[m] /\ i < m - 1 /\ m - 1 < Len(queue') + 1
    BY <1>1, <1>3, <2>1 DEF Shifted
  <2> QED BY <2>1, <2>2 DEF Closed
<1>8. ASSUME queue[1].kind = "finished", NEW j, Closed(0, j) PROVE Closed(1, j)
  BY <1>1, <1>8 DEF Closed, Closes, Shifted
<1>9. ASSUME Open(i)' PROVE \/ Open(i + 1)
                            \/ i = 0 /\ queue[1].kind = "finished" /\ Open(0)
  <2>1. CASE i = 0
    <3>1. stream' # None \/ 0 \in DOMAIN queue'
      BY <1>9, <2>1 DEF Open
    <3>2. 0 \notin DOMAIN queue' /\ 1 \in DOMAIN queue
      BY <1>1 DEF Shifted
    <3> QED BY <1>2, <2>1, <3>1, <3>2, StreamAfter DEF Open
  <2>2. CASE i # 0
    BY <1>4, <1>9, <2>2 DEF Open
  <2> QED BY <2>1, <2>2
<1>10. ASSUME Streaming(i)' PROVE \/ Streaming(i + 1)
                                  \/ i = 0 /\ queue[1].kind = "finished" /\ Streaming(0)
  <2>1. CASE i = 0
    <3>1. (stream' # None /\ stream'.buffer # <<>>) \/ 0 \in DOMAIN queue'
      BY <1>10, <2>1 DEF Streaming
    <3>2. 0 \notin DOMAIN queue' /\ 1 \in DOMAIN queue
      BY <1>1 DEF Shifted
    <3>3. ~(queue[1].kind = "status" /\ Streaming(0))
      <4>1. ~Closed(0, 1)
        BY <1>1 DEF Closed, Shifted
      <4> QED BY <1>5, <3>2, <4>1 DEF StreamOrder
    <3> QED BY <1>2, <2>1, <3>1, <3>2, <3>3, StreamAfter DEF Streaming
  <2>2. CASE i # 0
    BY <1>4, <1>10, <2>2 DEF Streaming
  <2> QED BY <2>1, <2>2
<1>11. Live' = Live /\ Asked' = Asked
  BY <1>1 DEF Live, Asked
<1>12. OpenOrder(i)'
  <2>1. ASSUME Open(i)' PROVE Live' \/ Closed(i, Len(queue) + 1)'
    <3>1. Live \/ Closed(i + 1, Len(queue) + 1)
      BY <1>3, <1>5, <1>8, <1>9, <2>1 DEF OpenOrder
    <3> QED BY <1>7, <1>11, <3>1
  <2>2. ASSUME Open(i)', NEW j \in DOMAIN queue', i < j, queue'[j].kind = "started" PROVE Closed(i, j)'
    <3>1. Closed(i + 1, j + 1)
      BY <1>3, <1>4, <1>5, <1>8, <1>9, <2>2 DEF OpenOrder
    <3> QED BY <1>4, <1>6, <3>1
  <2> QED BY <2>1, <2>2 DEF OpenOrder
<1>13. StreamOrder(i)'
  <2>1. ASSUME Streaming(i)', Asked' PROVE Closed(i, Len(queue) + 1)'
    <3>1. Closed(i + 1, Len(queue) + 1)
      BY <1>3, <1>5, <1>8, <1>10, <1>11, <2>1 DEF StreamOrder
    <3> QED BY <1>7, <3>1
  <2>2. ASSUME Streaming(i)', NEW j \in DOMAIN queue', i < j, queue'[j].kind = "status" PROVE Closed(i, j)'
    <3>1. Closed(i + 1, j + 1)
      BY <1>3, <1>4, <1>5, <1>8, <1>10, <2>2 DEF StreamOrder
    <3> QED BY <1>4, <1>6, <3>1
  <2> QED BY <2>1, <2>2 DEF StreamOrder
<1> QED BY <1>12, <1>13

\* Retries are told in their order.
StatusSorted ==
  \A i, j \in DOMAIN queue :
     i < j /\ queue[i].kind = "status" /\ queue[j].kind = "status" => queue[i].piece < queue[j].piece

LEMMA TurnKeepsSorted == ASSUME TypeInv, StatusSorted, NEW t \in Turns, TurnStep(t) PROVE StatusSorted'
<1> SUFFICES ASSUME NEW i \in DOMAIN queue', NEW j \in DOMAIN queue', i < j,
                    queue'[i].kind = "status", queue'[j].kind = "status"
             PROVE  queue'[i].piece < queue'[j].piece
  BY DEF StatusSorted
<1>1. retries \in Nat /\ Len(queue) \in Nat /\ DOMAIN queue = 1 .. Len(queue)
  BY TypeSplit, TurnQueue DEF TurnTypes
<1>2. CASE queue' = queue
  <2>1. i \in DOMAIN queue /\ j \in DOMAIN queue /\ queue'[i] = queue[i] /\ queue'[j] = queue[j]
    BY <1>2, Zenon
  <2> QED BY <2>1 DEF StatusSorted
<1>3. ASSUME NEW e \in Events, Published(e) PROVE queue'[i].piece < queue'[j].piece
  <2>1. i \in DOMAIN queue /\ queue'[i] = queue[i]
    BY <1>1, <1>3 DEF Published
  <2>2. CASE j \in DOMAIN queue
    BY <1>3, <2>1, <2>2 DEF Published, StatusSorted
  <2>3. CASE j = Len(queue) + 1
    <3>1. queue[i].piece \in 1 .. retries
      BY <2>1 DEF TypeInv, EventsAreReal
    <3>2. Adds("status")
      BY <1>3, <2>3 DEF Adds, Published
    <3>3. ASSUME NEW k, NEW p, Published(Event(t, k, p)) PROVE k = "status" /\ queue'[j].piece = p
      BY <2>3, <3>3, EventFields DEF Published
    <3>4. queue' # queue
      BY <1>1, <1>3, <2>3 DEF Published
    <3>5. TurnRetries(t)
      <4>1. ASSUME NEW k, NEW p, Published(Event(t, k, p)) PROVE k = "status"
        BY <3>3, <4>1
      <4> QED BY <3>4, <4>1, TurnPublishes DEF TurnStep, TurnGoesOn, TurnAsks, TurnHears, TurnCloses
    <3>6. queue'[j].piece = retries + 1
      <4>1. retries' = retries + 1
        BY <3>5 DEF TurnRetries
      <4>2. queue'[j].piece = retries'
        BY <3>3, <3>5, TurnPublishes
      <4> QED BY <4>1, <4>2
    <3> QED BY <1>1, <2>1, <3>1, <3>6
  <2> QED BY <1>1, <1>3, <2>2, <2>3 DEF Published
<1> QED BY <1>2, <1>3, TurnQueue

LEMMA DeliverKeepsSorted == ASSUME TypeInv, StatusSorted, Deliver PROVE StatusSorted'
<1>1. Shifted
  BY DeliverShifts DEF TypeInv
<1>2. \A j \in DOMAIN queue' : j + 1 \in DOMAIN queue /\ queue'[j] = queue[j + 1] /\ j \in Nat
  BY <1>1 DEF Shifted
<1> SUFFICES ASSUME NEW i \in DOMAIN queue', NEW j \in DOMAIN queue', i < j,
                    queue'[i].kind = "status", queue'[j].kind = "status"
             PROVE  queue'[i].piece < queue'[j].piece
  BY DEF StatusSorted
<1>3. i + 1 < j + 1
  BY <1>2
<1> QED BY <1>2, <1>3 DEF StatusSorted

Ordered == OneActive /\ OrderInv /\ StatusSorted
LEMMA OrderInvariant == Spec => []Ordered
<1>1. Init => Ordered
  <2> SUFFICES ASSUME Init PROVE Ordered
    OBVIOUS
  <2>1. Len(queue) = 0 /\ DOMAIN queue = {} /\ stream = None
    BY DEF Init
  <2>2. OneActive
    BY DEF Init, OneActive
  <2>3. OrderInv
    BY <2>1 DEF OrderInv, OpenOrder, StreamOrder, Open, Streaming
  <2> QED BY <2>1, <2>2, <2>3 DEF Ordered, StatusSorted
<1>2. TypeInv /\ TypingInv /\ Ordered /\ [Next]_vars => Ordered'
  <2> SUFFICES ASSUME TypeInv, TypingInv, Ordered, [Next]_vars PROVE Ordered'
    OBVIOUS
  <2>1. ASSUME NEW t \in Turns, TurnStep(t) PROVE Ordered'
    BY <2>1, TurnKeepsOne, TurnKeepsOrder, TurnKeepsSorted DEF Ordered
  <2>2. CASE NewBegins \/ NewMoves
    BY <2>2 DEF NewBegins, NewMoves, turnVars, Ordered, OneActive, OrderInv, StatusSorted, Undisturbed
  <2>3. CASE Deliver
    <3>1. OneActive'
      BY <2>3 DEF Deliver, turnVars, Ordered, OneActive
    <3> QED BY <2>3, <3>1, DeliverKeepsOrder, DeliverKeepsSorted DEF Ordered
  <2>4. CASE UNCHANGED vars
    BY <2>4 DEF vars, turnVars, viewVars, routeVars, Ordered, OneActive, OrderInv, StatusSorted,
                Undisturbed, OpenOrder, StreamOrder, Open, Streaming, Closed, Live, Asked
  <2> QED BY <2>1, <2>2, <2>3, <2>4 DEF Next, TurnStep
<1> QED BY <1>1, <1>2, TypesInvariant, TypingInvariant, PTL DEF Spec

-----------------------------------------------------------------------------
(* What stands for an answer *)

\* The gateway's own words: the placeholder and the retries.
Own(x) == x = Thinking \/ x \in Attempts
Said(text) == text \in Text /\ text # <<>> /\ \A i \in 1 .. Len(text) : ~Own(text[i])
OwnText(text) == \E x : Own(x) /\ text = <<x>>

LEMMA Words ==
  /\ ~Own(Failed) /\ ~Own(More) /\ \A x \in AllPieces : ~Own(x)
  /\ \A k \in 1 .. MaxRetries : Own(Attempt(k)) /\ Attempt(k) # Thinking
  /\ \A j, k : Attempt(j) = Attempt(k) => j = k
<1>1. \A j, k : Attempt(j) = Attempt(k) => j = k
  BY DEF Attempt
<1>2. ASSUME NEW x \in AllPieces PROVE x \notin Attempts
  <2>1. PICK a \in Answers : \E k \in Parts(a) : x = <<a, k>>
    BY DEF AllPieces, Piece
  <2>2. x[1] = a
    BY <2>1
  <2>3. \A y \in Attempts : y[1] = Retrying
    BY DEF Attempts, Attempt
  <2> QED BY <2>2, <2>3, TextsDiffer
<1>3. Failed \notin Attempts /\ More \notin Attempts /\ Thinking \notin Attempts
      /\ Thinking \notin AllPieces /\ Failed # Thinking /\ More # Thinking
  BY TextsDiffer
<1>4. \A k \in 1 .. MaxRetries : Attempt(k) \in Attempts
  BY DEF Attempts
<1> QED BY <1>1, <1>2, <1>3, <1>4 DEF Own

LEMMA Single == ASSUME NEW x PROVE Len(<<x>>) = 1 /\ <<x>>[1] = x /\ <<x>> # <<>>
  OBVIOUS

LEMMA SaidIsNotOwn == ASSUME NEW text, Said(text) PROVE ~OwnText(text)
<1> SUFFICES ASSUME NEW x, Own(x), text = <<x>> PROVE FALSE
  BY DEF OwnText
<1>1. Len(text) = 1 /\ text[1] = x
  BY Single
<1> QED BY <1>1 DEF Said

\* What is cut from what is said is nothing, or said.
LEMMA CutsAreSaid ==
  ASSUME NEW text, Said(text), NEW m \in Nat \ {0}
  PROVE  SubSeq(text, m, Len(text)) = <<>> \/ Said(SubSeq(text, m, Len(text)))
<1>1. text \in Text /\ Len(text) \in Nat
  BY LenProperties DEF Said, Text
<1> DEFINE cut == SubSeq(text, m, Len(text))
<1>2. /\ cut \in Text /\ Len(cut) = IF m <= Len(text) THEN Len(text) - m + 1 ELSE 0
      /\ \A i \in 1 .. Len(text) - m + 1 : cut[i] = text[m + i - 1]
  BY <1>1, CutsAreTexts
<1> HIDE DEF cut
<1>3. \A i \in 1 .. Len(cut) : ~Own(cut[i])
  BY <1>1, <1>2 DEF Said
<1> QED BY <1>2, <1>3 DEF Said, cut

LEMMA SaidParts ==
  ASSUME NEW text, Said(text), NEW sent \in Text
  PROVE  /\ Said(Shown(text)) /\ (Rest(text) = <<>> \/ Said(Rest(text)))
         /\ Fallback(text, sent) = <<>> \/ Said(Fallback(text, sent))
<1>1. /\ text \in Seq(Symbols) /\ text \in Text /\ Len(text) \in Nat
      /\ Prefix \in Nat \ {0} /\ Limit \in Nat /\ Prefix <= Limit
  BY LenProperties, ConstantsAreSound DEF Text, Said
<1>2. Rest(text) = <<>> \/ Said(Rest(text))
  BY <1>1, CutsAreSaid DEF Rest
<1>3. Said(Shown(text))
  <2>1. CASE Len(text) <= Limit
    BY <2>1 DEF Shown
  <2>2. CASE ~(Len(text) <= Limit)
    <3> DEFINE head == SubSeq(text, 1, Prefix)
    <3>1. /\ head \in Text /\ Len(head) = Prefix
          /\ \A i \in 1 .. Prefix : head[i] = text[i]
      BY <1>1, <2>2, CutsAreTexts
    <3> HIDE DEF head
    <3>2. /\ Append(head, More) \in Text /\ Append(head, More) # <<>> /\ Len(Append(head, More)) = Prefix + 1
          /\ \A i \in 1 .. Prefix : Append(head, More)[i] = head[i]
          /\ Append(head, More)[Prefix + 1] = More
      BY <3>1, AppendProperties, WordsAreSymbols DEF Text
    <3>3. \A i \in 1 .. Prefix + 1 : ~Own(Append(head, More)[i])
      BY <1>1, <2>2, <3>1, <3>2, Words DEF Said
    <3>4. Said(Append(head, More))
      BY <3>2, <3>3 DEF Said
    <3> QED BY <2>2, <3>4 DEF Shown, head
  <2> QED BY <2>1, <2>2
<1>4. Len(Plain(sent)) + 1 \in Nat \ {0}
  BY PlainIsText
<1> QED BY <1>2, <1>3, <1>4, CutsAreSaid DEF Fallback

LEMMA AnswersAreSaid ==
  /\ \A a \in Answers : Said(Answer(a))
  /\ Said(<<Failed>>)
  /\ \A s \in Seq(AllPieces) : s # <<>> => Said(s)
<1>1. ASSUME NEW a \in Answers PROVE Said(Answer(a))
  <2>1. /\ Answer(a) \in Text /\ Len(Answer(a)) = Pieces[a[1]] /\ Pieces[a[1]] \in Nat \ {0}
        /\ \A k \in 1 .. Pieces[a[1]] : Answer(a)[k] \in AllPieces
    BY AnswersAreTexts, WordsAreSymbols
  <2> QED BY <2>1, Words, Single DEF Said
<1>2. Said(<<Failed>>)
  BY WordsAreSymbols, Words, Single DEF Said
<1>3. ASSUME NEW s \in Seq(AllPieces), s # <<>> PROVE Said(s)
  BY <1>3, PiecesAreText, Words, ElementOfSeq DEF Said
<1> QED BY <1>1, <1>2, <1>3

-----------------------------------------------------------------------------
(* Nothing is left standing *)

\* With a channel that edits and has not failed.
Smooth == Undisturbed /\ channel.editable /\ failures = 0

\* A stream s that has shown nothing but the gateway's own words has used no more edits
\* than there were retries, and is given up only when the edits are used up; r are the
\* retries, q the queue and b the edits allowed.
GoodStream(s, r, q, b) ==
  /\ s.handle = 0 => s.sent = <<>> /\ s.updates = 0 /\ ~s.disabled
  /\ s.handle # 0 => s.sent # <<>>
  /\ s.buffer = <<>> => s.sent = <<>> \/ OwnText(s.sent)
  /\ s.disabled => s.updates >= b
  /\ s.sent = <<Thinking>> => s.updates = 0
  /\ \A k \in 1 .. MaxRetries : s.sent = <<Attempt(k)>> =>
       /\ k <= r /\ s.updates <= k
       /\ \A j \in DOMAIN q : q[j].kind = "status" => k < q[j].piece
StreamInv == Smooth /\ stream # None => GoodStream(stream, retries, queue, channel.budget)

\* Only the message of the stream may be one that must not be left standing.
Standing(text, b, r) == \/ b > 0 /\ text = <<Thinking>>
                        \/ b > r /\ \E k \in 1 .. MaxRetries : text = <<Attempt(k)>>
OnlyAt(c, h, b, r) == \A i \in DOMAIN c : Standing(c[i], b, r) => h = i
HandleOf(s) == IF s = None THEN 0 ELSE s.handle
StandingInv == Smooth => OnlyAt(chat, HandleOf(stream), channel.budget, retries)

LEMMA StandingIsOwn == ASSUME NEW text, NEW b, NEW r, Standing(text, b, r) PROVE OwnText(text)
<1>1. Own(Thinking)
  BY DEF Own
<1> QED BY <1>1, Words DEF Standing, OwnText

\* What a stream shows whose edits are used up may be left.
LEMMA UsedUp ==
  ASSUME NEW s, NEW r \in Nat, NEW q, NEW b \in Nat, GoodStream(s, r, q, b), s.updates \in Nat, s.updates >= b
  PROVE  ~Standing(s.sent, b, r)
<1>1. ASSUME b > 0, s.sent = <<Thinking>> PROVE FALSE
  BY <1>1 DEF GoodStream
<1>2. ASSUME b > r, NEW k \in 1 .. MaxRetries, s.sent = <<Attempt(k)>> PROVE FALSE
  <2>1. k <= r /\ s.updates <= k /\ k \in Nat
    BY <1>2, ConstantsAreSound DEF GoodStream
  <2> QED BY <1>2, <2>1
<1> QED BY <1>1, <1>2 DEF Standing

LEMMA OnlyAppended ==
  ASSUME NEW c \in Texts, NEW text \in Text, NEW h, NEW b, NEW r, OnlyAt(c, h, b, r)
  PROVE  /\ ~Standing(text, b, r) => OnlyAt(Append(c, text), h, b, r)
         /\ h = 0 => OnlyAt(Append(c, text), Len(c) + 1, b, r)
<1>1. /\ Len(c) \in Nat /\ DOMAIN c = 1 .. Len(c) /\ DOMAIN Append(c, text) = 1 .. Len(c) + 1
      /\ \A i \in DOMAIN c : Append(c, text)[i] = c[i]
      /\ Append(c, text)[Len(c) + 1] = text
  BY LongerChat
<1> DEFINE n == Append(c, text)
<1> HIDE DEF n
<1>2. \A i \in DOMAIN n : (i \in DOMAIN c /\ n[i] = c[i]) \/ (i = Len(c) + 1 /\ n[i] = text)
  BY <1>1 DEF n
<1>3. 0 \notin DOMAIN c
  BY <1>1
<1>4. ~Standing(text, b, r) => OnlyAt(n, h, b, r)
  BY <1>2 DEF OnlyAt
<1>5. h = 0 => OnlyAt(n, Len(c) + 1, b, r)
  BY <1>2, <1>3 DEF OnlyAt
<1> QED BY <1>4, <1>5 DEF n

LEMMA OnlyEdited ==
  ASSUME DeliveryTypeOK, NEW h \in Nat, h # 0, h <= Len(chat), NEW text \in Text, NEW b, NEW r, OnlyAt(chat, h, b, r)
  PROVE  /\ OnlyAt(Edited(h, text), h, b, r)
         /\ ~Standing(text, b, r) => OnlyAt(Edited(h, text), 0, b, r)
<1>1. /\ DOMAIN Edited(h, text) = DOMAIN chat
      /\ \A i \in DOMAIN chat : Edited(h, text)[i] = IF i = h THEN text ELSE chat[i]
  BY EditedChat
<1> QED BY <1>1 DEF OnlyAt

\* The conditions a smooth step of the bridge starts from.
SmoothStart ==
  /\ DeliveryTypeOK /\ Smooth /\ ShownInv /\ retries \in Nat /\ channel.budget \in Nat
  /\ GoodStream(Entry, retries, queue, channel.budget)
  /\ OnlyAt(chat, Entry.handle, channel.budget, retries)
SmoothEnd(o) ==
  /\ o.stream # None => GoodStream(o.stream, retries, queue', channel.budget)
  /\ OnlyAt(o.chat, HandleOf(o.stream), channel.budget, retries)

LEMMA SmoothStarts ==
  ASSUME TypeInv, ShownInv, StreamInv, StandingInv, Smooth PROVE SmoothStart
<1>1. DeliveryTypeOK /\ retries \in Nat /\ channel.budget \in Nat
  BY TypeParts, ConstantsAreSound DEF TypeInv, DeliveryTypeOK
<1>2. /\ stream = None => Entry = Fresh
      /\ stream # None => Entry = stream
      /\ Fresh.handle = 0 /\ Fresh.sent = <<>> /\ Fresh.buffer = <<>> /\ ~Fresh.disabled /\ Fresh.updates = 0
  BY <1>1, EntryShows
<1>3. Fresh.sent # <<Thinking>> /\ \A k \in 1 .. MaxRetries : Fresh.sent # <<Attempt(k)>>
  BY <1>2, Single
<1>4. GoodStream(Fresh, retries, queue, channel.budget)
  BY <1>2, <1>3 DEF GoodStream
<1>5. Entry.handle = HandleOf(stream)
  BY <1>2 DEF HandleOf
<1> QED BY <1>1, <1>2, <1>4, <1>5 DEF SmoothStart, StreamInv, StandingInv

LEMMA GoodShorter ==
  ASSUME Shifted, NEW s, NEW r, NEW b, GoodStream(s, r, queue, b) PROVE GoodStream(s, r, queue', b)
<1>1. \A j \in DOMAIN queue' : j + 1 \in DOMAIN queue /\ queue'[j] = queue[j + 1]
  BY DEF Shifted
<1> QED BY <1>1 DEF GoodStream

LEMMA StreamIsSome == \A s \in StreamState : s # None /\ HandleOf(s) = s.handle /\ HandleOf(None) = 0
  BY ConstantsAreSound DEF HandleOf

LEMMA PlaceholderEnds ==
  ASSUME SmoothStart, Shifted, stream = None, NEW o, PlaceholderShape(o), ~Fails(o)
  PROVE  SmoothEnd(o)
<1> DEFINE s == Started(Fresh, <<Thinking>>)
<1>1. o.chat = Append(chat, <<Thinking>>) /\ o.stream = s
  BY Zenon DEF PlaceholderShape
<1>2. /\ Fresh \in StreamState /\ Len(chat) \in Nat /\ chat \in Texts /\ <<Thinking>> \in Text
      /\ Entry.handle = 0 /\ Fresh.updates = 0 /\ ~Fresh.disabled
  BY EntryFits, TypeParts, EntryShows, WordsAreSymbols DEF SmoothStart
<1>3. /\ s \in StreamState /\ s.handle = Len(chat) + 1 /\ s.sent = <<Thinking>>
      /\ s.updates = 0 /\ ~s.disabled
  BY <1>2, StartFields
<1> HIDE DEF s
<1>4. <<Thinking>> # <<>> /\ OwnText(<<Thinking>>) /\ \A k \in 1 .. MaxRetries : <<Thinking>> # <<Attempt(k)>>
  BY Words, Single DEF OwnText, Own
<1>5. GoodStream(s, retries, queue', channel.budget)
  BY <1>2, <1>3, <1>4 DEF GoodStream
<1>6. OnlyAt(Append(chat, <<Thinking>>), Len(chat) + 1, channel.budget, retries)
  BY <1>2, OnlyAppended DEF SmoothStart
<1>7. HandleOf(s) = Len(chat) + 1
  BY <1>3, StreamIsSome
<1> QED BY <1>1, <1>5, <1>6, <1>7, Zenon DEF SmoothEnd

LEMMA StatusEnds ==
  ASSUME SmoothStart, Shifted, StatusSorted, NEW k \in 1 .. MaxRetries, k <= retries, 1 <= k,
         queue[1].kind = "status", queue[1].piece = k, Entry.buffer = <<>>,
         NEW o, StatusShape(o, <<Attempt(k)>>), ~Fails(o)
  PROVE  SmoothEnd(o)
<1> DEFINE p == <<Attempt(k)>>
           b == channel.budget
           r == retries
<1>1. /\ Entry \in StreamState /\ Entry # None /\ HandleOf(Entry) = Entry.handle /\ Entry.handle \in Nat
      /\ Entry.handle <= Len(chat) /\ chat \in Texts /\ Len(chat) \in Nat /\ p \in Text /\ k \in Nat
      /\ b \in Nat /\ r \in Nat /\ DeliveryTypeOK /\ OnlyAt(chat, Entry.handle, b, r) /\ Entry.updates \in Nat
  BY EntryFits, EntryShows, TypeParts, StreamIsSome, WordsAreSymbols, ConstantsAreSound DEF SmoothStart, StreamState
<1>2. /\ GoodStream(Entry, r, queue, b) /\ GoodStream(Entry, r, queue', b)
  BY GoodShorter DEF SmoothStart
<1>3. p # <<>> /\ p # <<Thinking>> /\ OwnText(p) /\ \A j \in 1 .. MaxRetries : p = <<Attempt(j)>> => j = k
  BY Words, Single DEF OwnText
<1>4. \A j \in DOMAIN queue' : queue'[j].kind = "status" => k < queue'[j].piece
  <2>1. \A j \in DOMAIN queue' : j + 1 \in DOMAIN queue /\ queue'[j] = queue[j + 1] /\ 1 < j + 1 /\ 1 \in DOMAIN queue
    BY DEF Shifted
  <2> QED BY <2>1 DEF StatusSorted
<1>5. CASE Kept(o, Entry, p)
  <2>1. CASE o.chat = chat
    BY <1>1, <1>2, <1>5, <2>1, Zenon DEF Kept, SmoothEnd
  <2>2. CASE o.chat = Append(chat, p) /\ Entry.handle # 0 /\ Entry.updates >= b
    <3>1. ~Standing(p, b, r)
      <4>1. Entry.sent # <<>> /\ (Entry.sent = <<>> \/ OwnText(Entry.sent))
        BY <1>2, <2>2 DEF GoodStream
      <4>2. PICK x : Own(x) /\ Entry.sent = <<x>>
        BY <4>1 DEF OwnText
      <4>3. CASE x = Thinking
        <5>1. b = 0
          BY <1>1, <1>2, <2>2, <4>2, <4>3 DEF GoodStream
        <5> QED BY <1>1, <5>1 DEF Standing
      <4>4. CASE x \in Attempts
        <5>1. PICK j \in 1 .. MaxRetries : x = Attempt(j)
          BY <4>4 DEF Attempts
        <5>2. j <= r /\ Entry.updates <= j /\ j \in Nat
          BY <1>2, <4>2, <5>1, ConstantsAreSound DEF GoodStream
        <5>3. b <= r
          BY <1>1, <2>2, <5>2
        <5> QED BY <1>1, <1>3, <5>3 DEF Standing
      <4> QED BY <4>2, <4>3, <4>4 DEF Own
    <3>2. OnlyAt(Append(chat, p), Entry.handle, b, r)
      BY <1>1, <3>1, OnlyAppended
    <3> QED BY <1>1, <1>2, <1>5, <2>2, <3>2, Zenon DEF Kept, SmoothEnd
  <2> QED BY <1>5, <2>1, <2>2 DEF Kept
<1>6. CASE Begun(o, Entry, p)
  <2> DEFINE s == Started(Entry, p)
  <2>1. Entry.handle = 0 /\ o.chat = Append(chat, p) /\ o.stream = s
    BY <1>6 DEF Begun
  <2>2. Entry.updates = 0 /\ ~Entry.disabled
    BY <1>2, <2>1 DEF GoodStream
  <2>3. /\ s \in StreamState /\ s.handle = Len(chat) + 1 /\ s.sent = p
        /\ s.updates = 0 /\ ~s.disabled
    BY <1>1, <2>2, StartFields
  <2> HIDE DEF s
  <2>4. GoodStream(s, r, queue', b)
    BY <1>1, <1>3, <1>4, <2>3 DEF GoodStream
  <2>5. OnlyAt(Append(chat, p), Len(chat) + 1, b, r)
    BY <1>1, <2>1, OnlyAppended
  <2>6. HandleOf(s) = Len(chat) + 1
    BY <2>3, StreamIsSome
  <2> QED BY <2>1, <2>4, <2>5, <2>6, Zenon DEF SmoothEnd
<1>7. CASE Redone(o, Entry, p)
  <2> DEFINE s == Updated(Entry, p)
  <2>1. Entry.handle # 0 /\ Entry.updates < b /\ o.chat = Edited(Entry.handle, p) /\ o.stream = s
    BY <1>7 DEF Redone
  <2>2. /\ s \in StreamState /\ s.handle = Entry.handle /\ s.sent = p
        /\ s.updates = Entry.updates + 1 /\ s.disabled = Entry.disabled
    BY <1>1, UpdateFields
  <2> HIDE DEF s
  <2>3. Entry.updates + 1 <= k
    <3>1. PICK x : Own(x) /\ Entry.sent = <<x>>
      BY <1>2, <2>1 DEF GoodStream, OwnText
    <3>2. CASE x = Thinking
      BY <1>1, <1>2, <3>1, <3>2 DEF GoodStream
    <3>3. CASE x \in Attempts
      <4>1. PICK j \in 1 .. MaxRetries : x = Attempt(j)
        BY <3>3 DEF Attempts
      <4>2. 1 \in DOMAIN queue
        BY DEF Shifted
      <4>3. Entry.updates <= j /\ j < k /\ j \in Nat
        BY <1>2, <3>1, <4>1, <4>2, ConstantsAreSound DEF GoodStream
      <4> QED BY <1>1, <4>3
    <3> QED BY <3>1, <3>2, <3>3 DEF Own
  <2>4. s.disabled => s.updates >= b
    BY <1>1, <1>2, <2>1, <2>2 DEF GoodStream
  <2>5. GoodStream(s, r, queue', b)
    BY <1>1, <1>3, <1>4, <2>1, <2>2, <2>3, <2>4 DEF GoodStream
  <2>6. OnlyAt(Edited(Entry.handle, p), Entry.handle, b, r)
    BY <1>1, <2>1, OnlyEdited
  <2>7. HandleOf(s) = Entry.handle
    BY <2>2, StreamIsSome
  <2> QED BY <2>1, <2>5, <2>6, <2>7, Zenon DEF SmoothEnd
<1> QED BY <1>5, <1>6, <1>7 DEF StatusShape

\* A stream whose message says something of an answer is good.
LEMMA SaidIsGood ==
  ASSUME NEW s, NEW r, NEW q, NEW b, Said(s.sent), s.handle # 0, s.buffer # <<>>, ~s.disabled
  PROVE  GoodStream(s, r, q, b)
<1>1. s.sent # <<>> /\ ~OwnText(s.sent)
  BY SaidIsNotOwn DEF Said
<1>2. s.sent # <<Thinking>> /\ \A k \in 1 .. MaxRetries : s.sent # <<Attempt(k)>>
  BY <1>1, Words DEF OwnText, Own
<1> QED BY <1>1, <1>2 DEF GoodStream

LEMMA DeltaEnds ==
  ASSUME SmoothStart, Shifted, NEW x \in AllPieces, NEW o,
         DeltaShape(o, Grown(x), Shown(Grown(x).buffer)), ~Fails(o)
  PROVE  SmoothEnd(o)
<1> DEFINE s == Grown(x)
           p == Shown(s.buffer)
           b == channel.budget
           r == retries
<1>1. /\ DeliveryTypeOK /\ chat \in Texts /\ Len(chat) \in Nat /\ b \in Nat
      /\ Entry \in StreamState /\ Entry.handle \in Nat /\ Entry.handle <= Len(chat)
      /\ OnlyAt(chat, Entry.handle, b, r)
  BY EntryFits, EntryShows, TypeParts DEF SmoothStart
<1>2. /\ s \in StreamState /\ s.handle = Entry.handle /\ s.sent = Entry.sent
      /\ s.updates = Entry.updates /\ s.disabled = Entry.disabled /\ p \in Text
      /\ Entry.disabled => s = Entry
      /\ ~Entry.disabled => s.buffer = Append(Entry.buffer, x)
      /\ s.buffer \in Seq(AllPieces)
  <2>1. s \in StreamState
    BY <1>1, GrownEntry
  <2>2. s.buffer \in Seq(AllPieces)
    BY <2>1 DEF StreamState
  <2> QED BY <1>1, <2>1, <2>2, GrownEntry
<1>3. ~s.disabled => s.buffer # <<>>
  <2>1. Entry.buffer \in Seq(AllPieces)
    BY <1>1 DEF StreamState
  <2>2. Append(Entry.buffer, x) # <<>>
    BY <2>1, AppendProperties
  <2> QED BY <1>2, <2>2
<1>4. DeltaShape(o, s, p)
  OBVIOUS
<1>5. ~s.disabled => Said(p)
  BY <1>2, <1>3, AnswersAreSaid, SaidParts DEF Text
<1>6. Stopped(s) \in StreamState /\ Started(s, p) \in StreamState /\ Updated(s, p) \in StreamState
  BY <1>1, <1>2, StoppedFields, StartFields, UpdateFields
<1> HIDE DEF s, p
<1>7. GoodStream(Entry, r, queue', b)
  BY GoodShorter DEF SmoothStart
<1>8. GoodStream(s, r, queue', b)
  BY <1>2, <1>3, <1>7 DEF GoodStream
<1>9. CASE o.chat = chat /\ o.stream = s
  BY <1>1, <1>2, <1>8, <1>9, StreamIsSome DEF SmoothEnd
<1>10. CASE ~s.disabled /\ GivenUp(o, s)
  <2>1. o.chat = chat /\ o.stream = Stopped(s) /\ s.handle # 0 /\ s.updates >= b
    BY <1>10 DEF GivenUp
  <2>2. /\ Stopped(s).handle = s.handle /\ Stopped(s).sent = s.sent /\ Stopped(s).updates = s.updates
        /\ Stopped(s).buffer = s.buffer
    BY <1>2, StoppedFields
  <2>3. GoodStream(Stopped(s), r, queue', b)
    BY <1>8, <2>1, <2>2 DEF GoodStream
  <2>4. HandleOf(Stopped(s)) = Entry.handle
    BY <1>2, <1>6, <2>2, StreamIsSome
  <2> QED BY <1>1, <2>1, <2>3, <2>4, Zenon DEF SmoothEnd
<1>11. CASE ~s.disabled /\ Begun(o, s, p)
  <2>1. Entry.handle = 0 /\ o.chat = Append(chat, p) /\ o.stream = Started(s, p)
    BY <1>2, <1>11 DEF Begun
  <2>2. /\ Started(s, p).handle = Len(chat) + 1 /\ Started(s, p).sent = p
        /\ Started(s, p).buffer = s.buffer /\ Started(s, p).disabled = s.disabled
    BY <1>1, <1>2, StartFields
  <2>3. GoodStream(Started(s, p), r, queue', b)
    BY <1>1, <1>3, <1>5, <1>11, <2>2, SaidIsGood
  <2>4. OnlyAt(Append(chat, p), Len(chat) + 1, b, r)
    BY <1>1, <1>2, <2>1, OnlyAppended
  <2>5. HandleOf(Started(s, p)) = Len(chat) + 1
    BY <1>6, <2>2, StreamIsSome
  <2> QED BY <2>1, <2>3, <2>4, <2>5, Zenon DEF SmoothEnd
<1>12. CASE ~s.disabled /\ Redone(o, s, p)
  <2>1. Entry.handle # 0 /\ o.chat = Edited(Entry.handle, p) /\ o.stream = Updated(s, p)
    BY <1>2, <1>12 DEF Redone
  <2>2. /\ Updated(s, p).handle = Entry.handle /\ Updated(s, p).sent = p
        /\ Updated(s, p).buffer = s.buffer /\ Updated(s, p).disabled = s.disabled
    BY <1>2, UpdateFields
  <2>3. GoodStream(Updated(s, p), r, queue', b)
    BY <1>3, <1>5, <1>12, <2>1, <2>2, SaidIsGood
  <2>4. OnlyAt(Edited(Entry.handle, p), Entry.handle, b, r)
    BY <1>1, <1>2, <2>1, OnlyEdited
  <2>5. HandleOf(Updated(s, p)) = Entry.handle
    BY <1>6, <2>2, StreamIsSome
  <2> QED BY <2>1, <2>3, <2>4, <2>5, Zenon DEF SmoothEnd
<1> QED BY <1>4, <1>9, <1>10, <1>11, <1>12, Zenon DEF DeltaShape

\* What an answer says is added, and nothing standing is added with it.
LEMMA SaidIsAdded ==
  ASSUME NEW c \in Texts, NEW b, NEW r, OnlyAt(c, 0, b, r), NEW text, text = <<>> \/ Said(text),
         NEW cost \in Nat, NEW marks, NEW o, IsSend(o, c, text, None, cost, marks)
  PROVE  o.stream = None /\ OnlyAt(o.chat, 0, b, r)
<1>1. /\ o.stream = None
      /\ o.chat = c \/ (o.chat = Append(c, text) /\ text # <<>>)
  BY Zenon DEF IsSend
<1>2. CASE o.chat = c
  BY <1>1, <1>2, Zenon
<1>3. CASE o.chat = Append(c, text) /\ text # <<>>
  <2>1. text \in Text /\ ~Standing(text, b, r)
    BY <1>3, SaidIsNotOwn, StandingIsOwn DEF Said
  <2>2. OnlyAt(Append(c, text), 0, b, r)
    BY <2>1, OnlyAppended
  <2> QED BY <1>1, <1>3, <2>2, Zenon
<1> QED BY <1>1, <1>2, <1>3

LEMMA FinishEnds ==
  ASSUME SmoothStart, NEW text, Said(text), NEW o, o.stream = None, FinishShape(o, text), ~Fails(o)
  PROVE  SmoothEnd(o)
<1> DEFINE b == channel.budget
           r == retries
<1>1. /\ DeliveryTypeOK /\ ShownInv /\ chat \in Texts /\ Len(chat) \in Nat /\ b \in Nat /\ r \in Nat
      /\ Entry \in StreamState /\ Entry.handle \in Nat /\ Entry.handle <= Len(chat)
      /\ Entry.updates \in Nat /\ Entry.sent \in Text
      /\ OnlyAt(chat, Entry.handle, b, r) /\ GoodStream(Entry, r, queue, b)
      /\ stream = None => Entry.handle = 0
      /\ stream # None => Entry = stream
  BY EntryFits, EntryShows, TypeParts DEF SmoothStart, StreamState, Text
<1>2. SUFFICES OnlyAt(o.chat, 0, b, r)
  BY DEF SmoothEnd, HandleOf
<1>3. 0 \in Nat /\ text \in Text
  BY DEF Said
<1>4. CASE (stream = None \/ stream.handle = 0) /\ IsSend(o, chat, text, None, 0, {})
  <2>1. Entry.handle = 0
    BY <1>1, <1>4
  <2>2. OnlyAt(chat, 0, b, r)
    BY <1>1, <2>1, Zenon
  <2> QED BY <1>1, <1>3, <1>4, <2>2, SaidIsAdded
<1>5. ASSUME stream # None, stream.handle # 0, stream.disabled, NEW cost \in {0, 1},
             IsSend(o, chat, Fallback(text, stream.sent), None, cost, Detour(text))
      PROVE  OnlyAt(o.chat, 0, b, r)
  <2>1. Entry = stream /\ Entry.updates >= b
    BY <1>1, <1>5 DEF GoodStream
  <2>2. ~Standing(Entry.sent, b, r) /\ chat[Entry.handle] = Entry.sent
    BY <1>1, <1>5, <2>1, UsedUp DEF ShownInv
  <2>3. OnlyAt(chat, 0, b, r)
    BY <1>1, <2>2 DEF OnlyAt
  <2>4. Fallback(text, stream.sent) = <<>> \/ Said(Fallback(text, stream.sent))
    BY <1>1, <2>1, SaidParts
  <2>5. cost \in Nat
    OBVIOUS
  <2> QED BY <1>1, <1>5, <2>3, <2>4, <2>5, SaidIsAdded
<1>6. ASSUME stream # None, stream.handle # 0,
             IsSend(o, Edited(stream.handle, Shown(text)), Rest(text), None, 0, {})
      PROVE  OnlyAt(o.chat, 0, b, r)
  <2> DEFINE h == Entry.handle
             c == Edited(h, Shown(text))
  <2>1. Entry = stream
    BY <1>1, <1>6
  <2>2. Said(Shown(text)) /\ (Rest(text) = <<>> \/ Said(Rest(text)))
    BY <1>1, SaidParts
  <2>3. Shown(text) \in Text /\ ~Standing(Shown(text), b, r)
    BY <2>2, SaidIsNotOwn, StandingIsOwn DEF Said
  <2>4. h # 0 /\ c \in Texts /\ OnlyAt(c, 0, b, r)
    BY <1>1, <1>6, <2>1, <2>3, OnlyEdited, EditedChat
  <2>5. IsSend(o, c, Rest(text), None, 0, {})
    BY <1>6, <2>1
  <2> HIDE DEF c, h
  <2> QED BY <1>3, <2>2, <2>4, <2>5, SaidIsAdded
<1>7. o.cost = 0
  BY DEF Fails
<1> QED BY <1>4, <1>5, <1>6, <1>7, Zenon DEF FinishShape

\* The bridge keeps to the streams, and to what may be left.
LEMMA DeliverEnds ==
  ASSUME TypeInv, TypingInv, ShownInv, Ordered, StreamInv, StandingInv, Deliver
  PROVE  StreamInv' /\ StandingInv'
<1> DEFINE e == queue[1]
<1> SUFFICES ASSUME Smooth' PROVE StreamInv' /\ StandingInv'
  BY DEF StreamInv, StandingInv
<1>1. /\ Shifted /\ DeliveryTypeOK /\ channel' = channel /\ retries' = retries /\ failures \in Nat
      /\ turn' = turn /\ command' = command /\ retries \in 0 .. MaxRetries /\ MaxRetries \in Nat
  BY DeliverShifts, TypeParts, ConstantsAreSound DEF TypeInv, DeliveryTypeOK, Deliver, turnVars
<1>2. Undisturbed /\ mapped /\ channel.editable /\ failures' = 0
  BY <1>1 DEF Smooth, Undisturbed, TypingInv
<1>3. /\ 0 \in 0 .. Len(queue) /\ 1 \in DOMAIN queue /\ 0 < 1 /\ e.answer \in Answers
      /\ e \in Events /\ ~Closed(0, 1)
  BY <1>1, EventParts DEF Shifted, Closed
<1>4. /\ e.kind = "started" => stream = None
      /\ e.kind = "status" => Entry.buffer = <<>>
  <2>1. OpenOrder(0) /\ StreamOrder(0)
    BY <1>2, <1>3 DEF Ordered, OrderInv
  <2>2. e.kind = "started" => stream = None
    BY <1>3, <2>1 DEF OpenOrder, Open
  <2>3. e.kind = "status" => stream = None \/ stream.buffer = <<>>
    BY <1>3, <2>1 DEF StreamOrder, Streaming
  <2> QED BY <1>1, <2>2, <2>3, EntryShows
<1>5. ASSUME failures' = failures PROVE SmoothStart
  <2>1. Smooth
    BY <1>2, <1>5 DEF Smooth
  <2> QED BY <2>1, SmoothStarts
<1>6. ASSUME SmoothStart, NEW o, o.stream = stream', o.chat = chat', SmoothEnd(o)
      PROVE  StreamInv' /\ StandingInv'
  <2>1. stream' # None => GoodStream(stream', retries', queue', channel'.budget)
    BY <1>1, <1>6, Zenon DEF SmoothEnd
  <2>2. OnlyAt(chat', HandleOf(stream'), channel'.budget, retries')
    BY <1>1, <1>6, Zenon DEF SmoothEnd
  <2> QED BY <2>1, <2>2 DEF StreamInv, StandingInv, GoodStream, OnlyAt, HandleOf, Standing
<1>7. ASSUME stream' = stream \/ (stream' = None /\ stream = None), UNCHANGED <<chat, failures>>
      PROVE  StreamInv' /\ StandingInv'
  <2>1. SmoothStart /\ Smooth
    BY <1>2, <1>5, <1>7 DEF Smooth
  <2>2. stream # None => GoodStream(stream, retries, queue', channel.budget)
    BY <1>1, <2>1, GoodShorter DEF StreamInv
  <2>3. OnlyAt(chat, HandleOf(stream), channel.budget, retries)
    BY <2>1 DEF StandingInv
  <2>4. stream' = stream /\ chat' = chat
    BY <1>7
  <2> DEFINE o == Outcome(chat, stream, 0, {})
  <2>5. o.stream = stream /\ o.chat = chat
    BY Zenon DEF Outcome
  <2> HIDE DEF o
  <2>6. SmoothEnd(o)
    BY <2>2, <2>3, <2>5, Zenon DEF SmoothEnd
  <2> QED BY <1>6, <2>1, <2>4, <2>5, <2>6
<1>8. ASSUME NEW o, GoodOutcome(o), Apply(o)
      PROVE  ~Fails(o) /\ SmoothStart /\ o.stream = stream' /\ o.chat = chat'
  <2>1. o.cost = 0 /\ failures' = failures
    BY <1>1, <1>2, <1>8 DEF GoodOutcome, Apply
  <2> QED BY <1>2, <1>5, <1>8, <2>1 DEF Fails, Apply
<1>9. CASE Unseen
  BY <1>7, <1>9 DEF Unseen
<1>10. CASE e.kind = "started" /\ stream' = None /\ UNCHANGED <<chat, failures>>
  BY <1>4, <1>7, <1>10
<1>11. ASSUME NEW o, GoodOutcome(o), Apply(o), e.kind = "started", PlaceholderShape(o)
       PROVE  StreamInv' /\ StandingInv'
  BY <1>1, <1>4, <1>6, <1>8, <1>11, PlaceholderEnds
<1>12. ASSUME NEW o, GoodOutcome(o), Apply(o), e.kind = "status", e.piece \in 1 .. retries,
              StatusShape(o, <<Attempt(e.piece)>>)
       PROVE  StreamInv' /\ StandingInv'
  <2>1. e.piece \in 1 .. MaxRetries /\ e.piece <= retries /\ 1 <= e.piece
    BY <1>1, <1>12
  <2>2. SmoothEnd(o)
    BY <1>1, <1>4, <1>8, <1>12, <2>1, StatusEnds DEF Ordered
  <2> QED BY <1>6, <1>8, <1>12, <2>2
<1>13. ASSUME NEW o, GoodOutcome(o), Apply(o), e.kind = "delta", e.piece \in Parts(e.answer),
              NEW x \in {Piece(e.answer, e.piece)}, DeltaShape(o, Grown(x), Shown(Grown(x).buffer))
       PROVE  StreamInv' /\ StandingInv'
  <2>1. x \in AllPieces
    BY <1>3, <1>13, WordsAreSymbols
  <2>2. SmoothEnd(o)
    BY <1>1, <1>8, <1>13, <2>1, DeltaEnds
  <2> QED BY <1>6, <1>8, <1>13, <2>2
<1>14. ASSUME NEW o, GoodOutcome(o), Apply(o), o.stream = None, NEW text, Said(text), FinishShape(o, text)
       PROVE  StreamInv' /\ StandingInv'
  <2>1. SmoothEnd(o)
    BY <1>8, <1>14, FinishEnds
  <2> QED BY <1>6, <1>8, <1>14, <2>1
<1>15. Said(<<Failed>>) /\ Said(Answer(e.answer))
  BY <1>3, AnswersAreSaid
<1> QED BY <1>9, <1>10, <1>11, <1>12, <1>13, <1>14, <1>15, HandledOutcome, Zenon

\* A turn may tell of one more retry, and that one is later than those told of before.
LEMMA TurnTells ==
  ASSUME TypeInv, NEW t \in Turns, TurnStep(t), NEW j \in DOMAIN queue', queue'[j].kind = "status"
  PROVE  \/ j \in DOMAIN queue /\ queue'[j] = queue[j]
         \/ queue'[j].piece = retries + 1
<1>1. Len(queue) \in Nat /\ DOMAIN queue = 1 .. Len(queue)
  BY TurnQueue
<1>2. CASE queue' = queue
  BY <1>2, Zenon
<1>3. CASE queue' # queue
  <2>1. PICK e \in Events : Published(e)
    BY <1>3, TurnQueue
  <2>2. CASE j # Len(queue) + 1
    BY <1>1, <2>1, <2>2 DEF Published
  <2>3. CASE j = Len(queue) + 1
    <3>1. ASSUME NEW k, NEW p, Published(Event(t, k, p)) PROVE k = "status" /\ queue'[j].piece = p
      BY <2>3, <3>1, EventFields DEF Published
    <3>2. TurnRetries(t)
      <4>1. ASSUME NEW k, NEW p, Published(Event(t, k, p)) PROVE k = "status"
        BY <3>1, <4>1
      <4> QED BY <1>3, <4>1, TurnPublishes DEF TurnStep, TurnGoesOn, TurnAsks, TurnHears, TurnCloses
    <3>3. queue'[j].piece = retries' /\ retries' = retries + 1
      BY <3>1, <3>2, TurnPublishes DEF TurnRetries
    <3> QED BY <3>3
  <2> QED BY <2>2, <2>3
<1> QED BY <1>2, <1>3

LEMMA TurnCounts == ASSUME TypeInv, NEW t \in Turns, TurnStep(t) PROVE retries' \in {retries, retries + 1}
  BY DEF TurnStep, TurnStarts, TurnRetries, TurnStreams, TurnAnswers, TurnGoesOn, TurnAsks,
         TurnHears, TurnFails, TurnCloses, TurnFinishes, ReviewFails

LEMMA TurnEnds ==
  ASSUME TypeInv, StreamInv, StandingInv, NEW t \in Turns, TurnStep(t)
  PROVE  StreamInv' /\ StandingInv'
<1> SUFFICES ASSUME Smooth' PROVE StreamInv' /\ StandingInv'
  BY DEF StreamInv, StandingInv
<1>1. /\ stream' = stream /\ chat' = chat /\ channel' = channel /\ failures' = failures
      /\ retries \in Nat /\ channel.budget \in Nat
  BY TurnLeaves, TypeParts, ConstantsAreSound DEF viewVars, TypeInv, DeliveryTypeOK
<1>2. Smooth
  BY <1>1, UndisturbedBefore DEF Smooth
<1>3. retries' \in Nat /\ retries <= retries'
  BY <1>1, TurnCounts
<1>4. StreamInv'
  <2> SUFFICES ASSUME stream # None PROVE GoodStream(stream, retries', queue', channel.budget)
    BY <1>1 DEF StreamInv, GoodStream
  <2>1. GoodStream(stream, retries, queue, channel.budget)
    BY <1>2 DEF StreamInv
  <2>2. ASSUME NEW k \in 1 .. MaxRetries, stream.sent = <<Attempt(k)>>
        PROVE  /\ k <= retries' /\ stream.updates <= k
               /\ \A j \in DOMAIN queue' : queue'[j].kind = "status" => k < queue'[j].piece
    <3>1. /\ k \in Nat /\ k <= retries /\ stream.updates <= k
          /\ \A j \in DOMAIN queue : queue[j].kind = "status" => k < queue[j].piece
      BY <2>1, <2>2, ConstantsAreSound DEF GoodStream
    <3>2. k < retries + 1
      BY <1>1, <3>1
    <3>3. ASSUME NEW j \in DOMAIN queue', queue'[j].kind = "status" PROVE k < queue'[j].piece
      BY <3>1, <3>2, <3>3, TurnTells
    <3> QED BY <1>1, <1>3, <3>1, <3>3
  <2> QED BY <2>1, <2>2 DEF GoodStream
<1>5. StandingInv'
  <2>1. \A text : Standing(text, channel.budget, retries') => Standing(text, channel.budget, retries)
    BY <1>1, <1>3 DEF Standing
  <2>2. OnlyAt(chat, HandleOf(stream), channel.budget, retries)
    BY <1>2 DEF StandingInv
  <2>3. OnlyAt(chat, HandleOf(stream), channel.budget, retries')
    BY <2>1, <2>2 DEF OnlyAt
  <2> QED BY <1>1, <2>3 DEF StandingInv, OnlyAt, HandleOf, Standing
<1> QED BY <1>4, <1>5

LEMMA StandingInvariant == Spec => [](StreamInv /\ StandingInv)
<1>1. Init => StreamInv /\ StandingInv
  BY DEF Init, StreamInv, StandingInv, OnlyAt
<1>2. TypeInv /\ TypingInv /\ ShownInv /\ Ordered /\ StreamInv /\ StandingInv /\ [Next]_vars
        => (StreamInv /\ StandingInv)'
  <2> SUFFICES ASSUME TypeInv, TypingInv, ShownInv, Ordered, StreamInv, StandingInv, [Next]_vars
               PROVE  StreamInv' /\ StandingInv'
    OBVIOUS
  <2>1. ASSUME NEW t \in Turns, TurnStep(t) PROVE StreamInv' /\ StandingInv'
    BY <2>1, TurnEnds
  <2>2. CASE NewBegins \/ NewMoves
    BY <2>2 DEF NewBegins, NewMoves, StreamInv, StandingInv, Smooth, Undisturbed
  <2>3. CASE Deliver
    BY <2>3, DeliverEnds
  <2>4. CASE UNCHANGED vars
    BY <2>4 DEF vars, turnVars, viewVars, routeVars, StreamInv, StandingInv, Smooth, Undisturbed,
                GoodStream, OnlyAt, HandleOf, Standing
  <2> QED BY <2>1, <2>2, <2>3, <2>4 DEF Next, TurnStep
<1> QED BY <1>1, <1>2, TypesInvariant, TypingInvariant, ShownInvariant, OrderInvariant, PTL DEF Spec

\* The message of the open stream is the only one that may still show the placeholder or
\* a retry, and a stream is open only while its turn may add to it or an event that
\* closes it is on its way.  So with a channel that edits and does not fail none of them
\* is left when the turns are over and told, unless the edits were used up.
THEOREM NothingStands == Spec => []NothingLeftStanding
<1>1. TypeInv /\ Ordered /\ StandingInv => NothingLeftStanding
  <2> SUFFICES ASSUME TypeInv, Ordered, StandingInv, Quiet, Smooth, NEW i \in DOMAIN chat
               PROVE  /\ channel.budget > 0 => chat[i] # <<Thinking>>
                      /\ channel.budget > retries => \A k \in 1 .. retries : chat[i] # <<Attempt(k)>>
    BY DEF NothingLeftStanding, Smooth
  <2>1. /\ queue = <<>> /\ Len(queue) = 0 /\ DOMAIN queue = {}
        /\ \A t \in Turns : turn[t] \in {"new", "over", "reviewed"}
    BY DEF Quiet
  <2>2. stream = None
    <3>1. OpenOrder(0)
      BY <2>1 DEF Ordered, OrderInv, Smooth
    <3>2. ~Live /\ ~Closed(0, Len(queue) + 1)
      BY <2>1 DEF Live, Closed
    <3> QED BY <3>1, <3>2 DEF OpenOrder, Open
  <2>3. ~Standing(chat[i], channel.budget, retries)
    <3>1. OnlyAt(chat, 0, channel.budget, retries)
      BY <2>2 DEF StandingInv, HandleOf
    <3>2. i # 0
      BY TypeParts, LongerChat, LenProperties DEF TypeInv, Texts
    <3> QED BY <3>1, <3>2 DEF OnlyAt
  <2>4. 1 .. retries \subseteq 1 .. MaxRetries
    BY ConstantsAreSound DEF TypeInv, DeliveryTypeOK
  <2> QED BY <2>3, <2>4 DEF Standing
<1> QED BY <1>1, TypesInvariant, OrderInvariant, StandingInvariant, PTL

-----------------------------------------------------------------------------
(* Where the pieces of an answer are *)

Has(text, x) == \E i \in 1 .. Len(text) : text[i] = x
Places(x, c) == {i \in DOMAIN c : Has(c[i], x)}
PieceOf(a, k, x) == a \in Answers /\ k \in Parts(a) /\ x = Piece(a, k)

LEMMA HasIsRange == ASSUME NEW text \in Text, NEW x PROVE Has(text, x) <=> x \in Range(text)
<1>1. DOMAIN text = 1 .. Len(text)
  BY LenProperties DEF Text
<1> QED BY <1>1 DEF Has, Range

\* A message that is added or changed is one more or one other place.
LEMMA PlacesAppended ==
  ASSUME NEW c \in Texts, NEW text \in Text, NEW x
  PROVE  /\ Has(text, x) => Places(x, Append(c, text)) = Places(x, c) \cup {Len(c) + 1}
         /\ ~Has(text, x) => Places(x, Append(c, text)) = Places(x, c)
         /\ \A i \in Places(x, c) : i \in Nat /\ 0 < i /\ i <= Len(c)
         /\ Len(c) \in Nat
<1>1. /\ Len(c) \in Nat /\ DOMAIN c = 1 .. Len(c) /\ DOMAIN Append(c, text) = 1 .. Len(c) + 1
      /\ \A i \in DOMAIN c : Append(c, text)[i] = c[i]
      /\ Append(c, text)[Len(c) + 1] = text
  BY LongerChat
<1> DEFINE n == Append(c, text)
<1> HIDE DEF n
<1>2. \A i : i \in DOMAIN n <=> (i \in DOMAIN c \/ i = Len(c) + 1)
  BY <1>1 DEF n
<1>3. (\A i \in DOMAIN c : n[i] = c[i]) /\ n[Len(c) + 1] = text
  BY <1>1 DEF n
<1>4. Has(text, x) => Places(x, n) = Places(x, c) \cup {Len(c) + 1}
  BY <1>2, <1>3 DEF Places
<1>5. ~Has(text, x) => Places(x, n) = Places(x, c)
  BY <1>2, <1>3 DEF Places
<1>6. \A i \in Places(x, c) : i \in Nat /\ 0 < i /\ i <= Len(c)
  BY <1>1 DEF Places
<1> QED BY <1>1, <1>4, <1>5, <1>6 DEF n

LEMMA PlacesEdited ==
  ASSUME DeliveryTypeOK, NEW h \in Nat, h # 0, h <= Len(chat), NEW text \in Text, NEW x
  PROVE  /\ Has(text, x) => Places(x, Edited(h, text)) = Places(x, chat) \cup {h}
         /\ ~Has(text, x) => Places(x, Edited(h, text)) = Places(x, chat) \ {h}
<1>1. /\ DOMAIN Edited(h, text) = DOMAIN chat /\ h \in DOMAIN chat
      /\ \A i \in DOMAIN chat : Edited(h, text)[i] = IF i = h THEN text ELSE chat[i]
  BY EditedChat
<1> DEFINE n == Edited(h, text)
<1> HIDE DEF n
<1>2. DOMAIN n = DOMAIN chat /\ n[h] = text /\ \A i \in DOMAIN chat : i # h => n[i] = chat[i]
  BY <1>1 DEF n
<1> QED BY <1>1, <1>2 DEF Places, n

\* No piece is another, nor one of the gateway's own texts.
LEMMA PiecesDiffer ==
  /\ \A a, b, j, k : Piece(a, j) = Piece(b, k) => a = b /\ j = k
  /\ \A a, k, x : PieceOf(a, k, x) => x \in AllPieces
  /\ \A x \in AllPieces : /\ x # More /\ ~Has(<<Thinking>>, x) /\ ~Has(<<Failed>>, x) /\ ~Has(<<>>, x)
                          /\ \A k \in 1 .. MaxRetries : ~Has(<<Attempt(k)>>, x)
<1>1. \A a, b, j, k : Piece(a, j) = Piece(b, k) => a = b /\ j = k
  BY DEF Piece
<1>2. \A a, k, x : PieceOf(a, k, x) => x \in AllPieces
  BY WordsAreSymbols DEF PieceOf
<1>3. \A x, y : Has(<<y>>, x) => x = y
  BY DEF Has
<1>4. \A x : ~Has(<<>>, x)
  BY DEF Has
<1>5. \A x \in AllPieces : x # More /\ x # Thinking /\ x # Failed /\ \A k \in 1 .. MaxRetries : x # Attempt(k)
  BY TextsDiffer, Words
<1> QED BY <1>1, <1>2, <1>3, <1>4, <1>5

LEMMA CutHas ==
  ASSUME NEW text \in Text, NEW m \in Nat \ {0}, NEW n \in Nat, n <= Len(text), NEW x
  PROVE  Has(SubSeq(text, m, n), x) <=> \E i \in m .. n : text[i] = x
<1> DEFINE cut == SubSeq(text, m, n)
<1>1. /\ Len(cut) = IF m <= n THEN n - m + 1 ELSE 0
      /\ \A i \in 1 .. n - m + 1 : cut[i] = text[m + i - 1]
  BY CutsAreTexts
<1> HIDE DEF cut
<1>2. ASSUME Has(cut, x) PROVE \E i \in m .. n : text[i] = x
  <2>1. PICK i \in 1 .. Len(cut) : cut[i] = x
    BY <1>2 DEF Has
  <2>2. m + i - 1 \in m .. n /\ text[m + i - 1] = x
    BY <1>1, <2>1
  <2> QED BY <2>2
<1>3. ASSUME NEW i \in m .. n, text[i] = x PROVE Has(cut, x)
  <2>1. i - m + 1 \in 1 .. Len(cut) /\ cut[i - m + 1] = text[i]
    BY <1>1
  <2> QED BY <1>3, <2>1 DEF Has
<1> QED BY <1>2, <1>3 DEF cut

LEMMA AnswerHas ==
  ASSUME NEW b \in Answers, NEW a, NEW k, NEW x, PieceOf(a, k, x)
  PROVE  /\ Has(Answer(b), x) <=> a = b
         /\ \A i \in 1 .. Len(Answer(a)) : Answer(a)[i] = x <=> i = k
         /\ Answer(a) \in Text /\ Len(Answer(a)) = Pieces[a[1]] /\ k \in 1 .. Len(Answer(a))
         /\ Len(Answer(a)) \in Nat
<1>1. /\ Len(Answer(b)) = Pieces[b[1]] /\ Parts(b) = 1 .. Pieces[b[1]]
      /\ \A i \in Parts(b) : Answer(b)[i] = Piece(b, i)
  BY AnswersAreTexts
<1>2. /\ Answer(a) \in Text /\ Len(Answer(a)) = Pieces[a[1]] /\ Parts(a) = 1 .. Pieces[a[1]]
      /\ Pieces[a[1]] \in Nat /\ \A i \in Parts(a) : Answer(a)[i] = Piece(a, i)
  BY AnswersAreTexts DEF PieceOf
<1>3. k \in Parts(a) /\ x = Piece(a, k)
  BY DEF PieceOf
<1>4. Has(Answer(b), x) => a = b
  BY <1>1, <1>3, PiecesDiffer DEF Has
<1>5. a = b => Has(Answer(b), x)
  BY <1>2, <1>3 DEF Has
<1>6. \A i \in 1 .. Len(Answer(a)) : Answer(a)[i] = x <=> i = k
  BY <1>2, <1>3, PiecesDiffer
<1> QED BY <1>2, <1>3, <1>4, <1>5, <1>6

\* What a message shows of an answer and what is sent after it are the answer, cut once.
LEMMA ShownHas ==
  ASSUME NEW a, NEW k, NEW x, PieceOf(a, k, x)
  PROVE  /\ Has(Shown(Answer(a)), x) <=> ~Has(Rest(Answer(a)), x)
         /\ Rest(Answer(a)) = <<>> => Pieces[a[1]] <= Limit
         /\ k > Prefix /\ Rest(Answer(a)) # <<>> => Has(Rest(Answer(a)), x)
<1> DEFINE t == Answer(a)
<1>1. /\ t \in Text /\ Len(t) = Pieces[a[1]] /\ k \in 1 .. Len(t) /\ Len(t) \in Nat
      /\ \A i \in 1 .. Len(t) : t[i] = x <=> i = k
  BY AnswerHas DEF PieceOf
<1>2. Prefix \in Nat \ {0} /\ Limit \in Nat /\ Prefix <= Limit /\ x # More
  BY ConstantsAreSound, PiecesDiffer
<1> HIDE DEF t
<1>3. CASE Len(t) <= Limit
  <2>1. Shown(t) = t /\ Rest(t) = <<>> /\ Has(t, x) /\ ~Has(<<>>, x)
    BY <1>1, <1>3, PiecesDiffer DEF Shown, Rest, Has
  <2> QED BY <1>1, <1>3, <2>1 DEF t
<1>4. CASE ~(Len(t) <= Limit)
  <2> DEFINE head == SubSeq(t, 1, Prefix)
             tail == SubSeq(t, Prefix + 1, Len(t))
  <2>1. Shown(t) = Append(head, More) /\ Rest(t) = tail
    BY <1>4 DEF Shown, Rest
  <2>2. head \in Text /\ Len(head) = Prefix /\ Len(tail) = Len(t) - Prefix
    <3>1. Prefix <= Len(t) /\ Prefix + 1 <= Len(t) /\ Prefix + 1 \in Nat \ {0} /\ 1 \in Nat \ {0}
      BY <1>1, <1>2, <1>4
    <3>2. head \in Text /\ Len(head) = Prefix
      BY <1>1, <1>2, <3>1, CutsAreTexts
    <3>3. Len(tail) = Len(t) - (Prefix + 1) + 1
      BY <1>1, <1>2, <3>1, CutsAreTexts
    <3> QED BY <1>1, <1>2, <3>2, <3>3
  <2>3. (Has(head, x) <=> k <= Prefix) /\ (Has(tail, x) <=> k > Prefix)
    BY <1>1, <1>2, <1>4, CutHas
  <2> HIDE DEF head, tail
  <2>4. Has(Append(head, More), x) <=> Has(head, x)
    <3>1. /\ Len(Append(head, More)) = Prefix + 1 /\ Append(head, More)[Prefix + 1] = More
          /\ \A i \in 1 .. Prefix : Append(head, More)[i] = head[i]
      BY <2>2, WordsAreSymbols, AppendProperties DEF Text
    <3> QED BY <1>2, <2>2, <3>1 DEF Has
  <2>5. tail # <<>>
    BY <1>1, <1>2, <1>4, <2>2
  <2> QED BY <1>1, <1>2, <2>1, <2>3, <2>4, <2>5 DEF t
<1> QED BY <1>3, <1>4

\* What a broken stream's message shows of an answer and what is sent for it.
LEMMA FallbackHas ==
  ASSUME NEW a, NEW k, NEW x, PieceOf(a, k, x), NEW sent \in Text
  PROVE  /\ IsBeginning(sent, Answer(a)) => (Has(sent, x) <=> ~Has(Fallback(Answer(a), sent), x))
         /\ ~IsBeginning(sent, Answer(a)) /\ (k > Prefix \/ Pieces[a[1]] <= Limit)
              => Has(Fallback(Answer(a), sent), x)
<1> DEFINE t == Answer(a)
<1>1. /\ t \in Text /\ Len(t) = Pieces[a[1]] /\ k \in 1 .. Len(t) /\ Len(t) \in Nat
      /\ \A i \in 1 .. Len(t) : t[i] = x <=> i = k
  BY AnswerHas DEF PieceOf
<1>2. Plain(sent) \in Text /\ Len(Plain(sent)) \in Nat /\ sent \in Seq(Symbols) /\ Len(sent) \in Nat
  BY PlainIsText, LenProperties DEF Text
<1> HIDE DEF t
<1>3. ASSUME IsBeginning(sent, t) PROVE Has(sent, x) <=> ~Has(Fallback(t, sent), x)
  <2> DEFINE p == Plain(sent)
  <2>1. Len(p) <= Len(t) /\ SubSeq(p, 1, Len(p)) = SubSeq(t, 1, Len(p))
    BY <1>3 DEF IsBeginning, IsPrefix
  <2>2. Fallback(t, sent) = SubSeq(t, Len(p) + 1, Len(t))
    BY <1>3 DEF Fallback
  <2>3. Has(Fallback(t, sent), x) <=> k > Len(p)
    <3>1. Len(p) + 1 \in Nat \ {0}
      BY <1>2
    <3>2. Has(SubSeq(t, Len(p) + 1, Len(t)), x) <=> \E i \in Len(p) + 1 .. Len(t) : t[i] = x
      BY <1>1, <3>1, CutHas
    <3> QED BY <1>1, <1>2, <2>2, <3>2
  <2>4. Has(p, x) <=> k <= Len(p)
    <3>1. Has(SubSeq(t, 1, Len(p)), x) <=> k <= Len(p)
      BY <1>1, <1>2, <2>1, CutHas
    <3>2. Has(SubSeq(p, 1, Len(p)), x) <=> Has(p, x)
      BY <1>2, CutHas DEF Has
    <3> QED BY <2>1, <3>1, <3>2
  <2>5. Has(sent, x) <=> Has(p, x)
    <3>1. CASE sent # <<>> /\ Last(sent) = More
      <4>1. Len(sent) \in Nat \ {0}
        BY <1>2, <3>1, EmptySeq
      <4>2. p = SubSeq(sent, 1, Len(sent) - 1) /\ sent[Len(sent)] = More
        BY <3>1 DEF Plain, Front, Last
      <4>3. Has(p, x) <=> \E i \in 1 .. Len(sent) - 1 : sent[i] = x
        BY <4>1, <4>2, CutHas
      <4>4. x # More
        BY PiecesDiffer
      <4> QED BY <4>1, <4>2, <4>3, <4>4 DEF Has
    <3>2. CASE ~(sent # <<>> /\ Last(sent) = More)
      BY <3>2 DEF Plain
    <3> QED BY <3>1, <3>2
  <2> QED BY <1>1, <1>2, <2>3, <2>4, <2>5
<1>4. ASSUME ~IsBeginning(sent, t), k > Prefix \/ Pieces[a[1]] <= Limit PROVE Has(Fallback(t, sent), x)
  <2>1. Fallback(t, sent) = IF Rest(t) # <<>> THEN Rest(t) ELSE t
    BY <1>4 DEF Fallback
  <2>2. CASE Rest(t) = <<>>
    BY <1>1, <2>1, <2>2 DEF Has
  <2>3. CASE Rest(t) # <<>>
    <3>1. ~(Pieces[a[1]] <= Limit)
      BY <1>1, <2>3 DEF Rest
    <3>2. Has(Rest(t), x)
      BY <1>4, <2>3, <3>1, ShownHas DEF t
    <3> QED BY <2>1, <2>3, <3>2
  <2> QED BY <2>2, <2>3
<1> QED BY <1>3, <1>4 DEF t

\* Nothing is shown that is not in the text.
LEMMA OnlyItsOwn ==
  ASSUME NEW text \in Text, NEW sent \in Text, NEW x \in AllPieces, ~Has(text, x)
  PROVE  ~Has(Shown(text), x) /\ ~Has(Rest(text), x) /\ ~Has(Fallback(text, sent), x)
<1>1. /\ Len(text) \in Nat /\ Prefix \in Nat \ {0} /\ Limit \in Nat /\ Prefix <= Limit /\ x # More
      /\ ~Has(<<>>, x) /\ Len(Plain(sent)) + 1 \in Nat \ {0}
  BY LenProperties, ConstantsAreSound, PiecesDiffer, PlainIsText DEF Text
<1>2. ASSUME NEW m \in Nat \ {0}, NEW n \in Nat, n <= Len(text) PROVE ~Has(SubSeq(text, m, n), x)
  <2>1. \A i \in m .. n : i \in 1 .. Len(text)
    BY <1>1, <1>2
  <2> QED BY <1>2, <2>1, CutHas DEF Has
<1>3. ~Has(Rest(text), x)
  BY <1>1, <1>2 DEF Rest
<1>4. ~Has(Fallback(text, sent), x)
  BY <1>1, <1>2, <1>3 DEF Fallback
<1>5. ~Has(Shown(text), x)
  <2>1. CASE Len(text) <= Limit
    BY <2>1 DEF Shown
  <2>2. CASE ~(Len(text) <= Limit)
    <3> DEFINE head == SubSeq(text, 1, Prefix)
    <3>1. head \in Text /\ Len(head) = Prefix /\ ~Has(head, x)
      BY <1>1, <1>2, <2>2, CutsAreTexts
    <3> HIDE DEF head
    <3>2. /\ Len(Append(head, More)) = Prefix + 1 /\ Append(head, More)[Prefix + 1] = More
          /\ \A i \in 1 .. Prefix : Append(head, More)[i] = head[i]
      BY <3>1, WordsAreSymbols, AppendProperties DEF Text
    <3>3. ~Has(Append(head, More), x)
      BY <1>1, <3>1, <3>2 DEF Has
    <3> QED BY <2>2, <3>3 DEF Shown, head
  <2> QED BY <2>1, <2>2
<1> QED BY <1>3, <1>4, <1>5

-----------------------------------------------------------------------------
(* What is said stays said *)

\* The messages that show the piece x and are not changed any more.
Settled(x) == Places(x, chat) \ {HandleOf(stream)}
Stays(o)   == \A x \in AllPieces : Settled(x) \subseteq Places(x, o.chat) \ {HandleOf(o.stream)}

\* The facts about the chat, and the message of the stream, that every handler finds.
Found(h) ==
  /\ DeliveryTypeOK /\ ShownInv /\ chat \in Texts /\ Len(chat) \in Nat
  /\ h = HandleOf(stream) /\ h = Entry.handle /\ h \in Nat /\ h <= Len(chat)
  /\ Entry \in StreamState /\ Fresh \in StreamState
  /\ h # 0 => stream # None /\ Entry = stream /\ stream.handle = h /\ chat[h] = stream.sent /\ h \in DOMAIN chat
  /\ h = 0 => stream = None \/ stream.handle = 0
LEMMA Finds == ASSUME DeliveryTypeOK, ShownInv PROVE \E h \in {HandleOf(stream)} : Found(h)
<1> DEFINE h == Entry.handle
<1>1. /\ chat \in Texts /\ Len(chat) \in Nat /\ Entry \in StreamState /\ Fresh \in StreamState
      /\ DOMAIN chat = 1 .. Len(chat)
  BY TypeParts, EntryFits, LenProperties DEF Texts
<1>2. h \in Nat /\ h <= Len(chat)
  BY EntryShows
<1>3. h # 0 => stream # None /\ Entry = stream /\ chat[h] = stream.sent /\ h \in DOMAIN chat
  BY <1>1, <1>2, EntryShows
<1>4. h = HandleOf(stream)
  BY EntryShows DEF HandleOf
<1>5. h = 0 => stream = None \/ stream.handle = 0
  BY EntryShows
<1> QED BY <1>1, <1>2, <1>3, <1>4, <1>5 DEF Found

LEMMA KeptPlaces ==
  ASSUME NEW h, Found(h), NEW text \in Text, NEW x
  PROVE  /\ Settled(x) \subseteq Places(x, chat)
         /\ Settled(x) \subseteq Places(x, Append(chat, text))
         /\ 0 \notin Settled(x) /\ h \notin Settled(x) /\ Len(chat) + 1 \notin Settled(x)
         /\ h # 0 => /\ Settled(x) \subseteq Places(x, Edited(h, text))
                     /\ Edited(h, text) \in Texts
<1>1. /\ chat \in Texts /\ h = HandleOf(stream) /\ Settled(x) = Places(x, chat) \ {h}
  BY DEF Found, Settled
<1>2. /\ Places(x, chat) \subseteq Places(x, Append(chat, text))
      /\ 0 \notin Places(x, chat) /\ Len(chat) + 1 \notin Places(x, chat)
  BY <1>1, PlacesAppended
<1>3. ASSUME h # 0 PROVE Places(x, chat) \ {h} \subseteq Places(x, Edited(h, text)) /\ Edited(h, text) \in Texts
  BY <1>3, PlacesEdited, EditedChat DEF Found
<1> QED BY <1>1, <1>2, <1>3

LEMMA ShapesStay ==
  ASSUME NEW h, Found(h), NEW s \in StreamState, s.handle = h, NEW p \in Text, NEW o
  PROVE  /\ Kept(o, s, p) => Stays(o)
         /\ Begun(o, s, p) => Stays(o)
         /\ Redone(o, s, p) => Stays(o)
         /\ GivenUp(o, s) => Stays(o)
         /\ o.chat = chat /\ o.stream = s => Stays(o)
<1>1. Len(chat) \in Nat
  BY DEF Found
<1>2. HandleOf(s) = h /\ HandleOf(Stopped(s)) = h
  BY StoppedFields, StreamIsSome
<1>3. HandleOf(Started(s, p)) = Len(chat) + 1 /\ HandleOf(Updated(s, p)) = h
  <2>1. Started(s, p) \in StreamState /\ Started(s, p).handle = Len(chat) + 1
    BY <1>1, StartFields
  <2>2. Updated(s, p) \in StreamState /\ Updated(s, p).handle = h
    BY UpdateFields
  <2> QED BY <2>1, <2>2, StreamIsSome
<1>4. (o.chat = chat \/ o.chat = Append(chat, p)) /\ HandleOf(o.stream) \in {h, Len(chat) + 1} => Stays(o)
  BY KeptPlaces, Zenon DEF Stays
<1>5. h # 0 /\ o.chat = Edited(h, p) /\ HandleOf(o.stream) = h => Stays(o)
  BY KeptPlaces, Zenon DEF Stays
<1>6. h \in {h, Len(chat) + 1} /\ Len(chat) + 1 \in {h, Len(chat) + 1}
  OBVIOUS
<1> QED BY <1>2, <1>3, <1>4, <1>5, <1>6, Zenon DEF Kept, Begun, Redone, GivenUp

LEMMA PlaceholderStays == ASSUME NEW h, Found(h), NEW o, PlaceholderShape(o) PROVE Stays(o)
<1>1. Len(chat) \in Nat /\ Fresh \in StreamState /\ <<Thinking>> \in Text
  BY WordsAreSymbols DEF Found
<1>2. HandleOf(Started(Fresh, <<Thinking>>)) = Len(chat) + 1 /\ HandleOf(None) = 0
  BY <1>1, StartFields, StreamIsSome
<1>3. HandleOf(o.stream) \in {0, Len(chat) + 1} /\ (o.chat = chat \/ o.chat = Append(chat, <<Thinking>>))
  <2>1. 0 \in {0, Len(chat) + 1} /\ Len(chat) + 1 \in {0, Len(chat) + 1}
    OBVIOUS
  <2> QED BY <1>2, <2>1, Zenon DEF PlaceholderShape
<1> QED BY <1>1, <1>3, KeptPlaces, Zenon DEF Stays

\* A send adds its text or nothing.
LEMMA SendPlaces ==
  ASSUME NEW c \in Texts, NEW text \in Text, NEW cost \in Nat, NEW marks, NEW o,
         IsSend(o, c, text, None, cost, marks), NEW x \in AllPieces
  PROVE  /\ o.chat \in Texts /\ Places(x, c) \subseteq Places(x, o.chat)
         /\ ~Has(text, x) => Places(x, o.chat) = Places(x, c)
         /\ Has(text, x) /\ "unsent" \notin o.marks => Places(x, o.chat) = Places(x, c) \cup {Len(c) + 1}
<1>1. \/ o.chat = c /\ (text = <<>> \/ "unsent" \in o.marks)
      \/ o.chat = Append(c, text)
  <2>1. "unsent" \in marks \cup {"unsent"}
    OBVIOUS
  <2> QED BY <2>1, Zenon DEF IsSend
<1>2. ~Has(<<>>, x) /\ Append(c, text) \in Texts
  BY PiecesDiffer, LongerChat
<1>3. /\ Has(text, x) => Places(x, Append(c, text)) = Places(x, c) \cup {Len(c) + 1}
      /\ ~Has(text, x) => Places(x, Append(c, text)) = Places(x, c)
  BY PlacesAppended
<1>4. CASE o.chat = Append(c, text)
  <2>1. Places(x, o.chat) = Places(x, Append(c, text))
    BY <1>4, Zenon
  <2> QED BY <1>2, <1>3, <1>4, <2>1
<1>5. CASE o.chat = c /\ (text = <<>> \/ "unsent" \in o.marks)
  <2>1. text = <<>> => ~Has(text, x)
    BY <1>2, Zenon
  <2>2. Places(x, o.chat) = Places(x, c) /\ o.chat \in Texts
    BY <1>5, Zenon
  <2> QED BY <1>5, <2>1, <2>2
<1> QED BY <1>1, <1>4, <1>5

\* The end of a stream: what stays, and what is then said of the answer.
LEMMA FinishStays ==
  ASSUME NEW h, Found(h), NEW text \in Text, NEW o, o.stream = None, FinishShape(o, text) PROVE Stays(o)
<1>1. /\ chat \in Texts /\ 0 \in Nat /\ HandleOf(o.stream) = 0 /\ h \in Nat
  BY StreamIsSome DEF Found, HandleOf
<1>2. ASSUME NEW c \in Texts, NEW t \in Text, NEW cost \in Nat, NEW marks, IsSend(o, c, t, None, cost, marks),
             \A x \in AllPieces : Settled(x) \subseteq Places(x, c)
      PROVE  Stays(o)
  <2> SUFFICES ASSUME NEW x \in AllPieces PROVE Settled(x) \subseteq Places(x, o.chat) \ {0}
    BY <1>1 DEF Stays
  <2>1. Places(x, c) \subseteq Places(x, o.chat)
    BY <1>2, SendPlaces
  <2>2. 0 \notin Settled(x)
    BY KeptPlaces
  <2> QED BY <1>2, <2>1, <2>2
<1>3. \A x \in AllPieces : Settled(x) \subseteq Places(x, chat)
  BY KeptPlaces
<1>4. CASE h = 0
  <2>1. IsSend(o, chat, text, None, 0, {})
    BY <1>4, Zenon DEF FinishShape, Found
  <2> QED BY <1>1, <1>2, <1>3, <2>1
<1>5. CASE h # 0
  <2>1. stream # None /\ stream.handle = h /\ stream.sent \in Text
    BY <1>5 DEF Found, StreamState, Text
  <2>2. /\ Fallback(text, stream.sent) \in Text /\ Shown(text) \in Text /\ Rest(text) \in Text
    BY <2>1, FallbackIsText, ShownIsText
  <2>3. Edited(h, Shown(text)) \in Texts /\ \A x \in AllPieces : Settled(x) \subseteq Places(x, Edited(h, Shown(text)))
    BY <1>5, <2>2, KeptPlaces
  <2>4. \/ \E cost \in {0, 1} : IsSend(o, chat, Fallback(text, stream.sent), None, cost, Detour(text))
        \/ IsSend(o, Edited(h, Shown(text)), Rest(text), None, 0, {})
    BY <1>5, <2>1, Zenon DEF FinishShape
  <2>5. \A cost \in {0, 1} : cost \in Nat
    OBVIOUS
  <2> QED BY <1>1, <1>2, <1>3, <2>2, <2>3, <2>4, <2>5, Zenon
<1> QED BY <1>4, <1>5

\* A piece is in one message.
OnePlace(x, c) == \E i : Places(x, c) = {i}

LEMMA FinishSays ==
  ASSUME NEW h, Found(h), NEW a, NEW k, NEW x, PieceOf(a, k, x),
         NEW o, o.stream = None, FinishShape(o, Answer(a)), "unsent" \notin o.marks
  PROVE  /\ k > Prefix \/ Pieces[a[1]] <= Limit => Places(x, o.chat) # {}
         /\ "astray" \notin o.marks /\ Places(x, chat) \subseteq {h} => OnePlace(x, o.chat)
<1> DEFINE t == Answer(a)
<1>1. /\ DeliveryTypeOK /\ chat \in Texts /\ h \in Nat /\ h <= Len(chat) /\ 0 \in Nat /\ x \in AllPieces /\ a \in Answers
      /\ t \in Text /\ Has(t, x) /\ 0 \notin Places(x, chat)
  BY PiecesDiffer, AnswerHas, PlacesAppended DEF Found, PieceOf
<1>2. CASE h = 0
  <2>1. IsSend(o, chat, t, None, 0, {})
    BY <1>2, Zenon DEF FinishShape, Found
  <2>2. Places(x, o.chat) = Places(x, chat) \cup {Len(chat) + 1}
    BY <1>1, <2>1, SendPlaces
  <2>3. Places(x, chat) \subseteq {h} => Places(x, o.chat) = {Len(chat) + 1}
    BY <1>1, <1>2, <2>2
  <2> QED BY <2>2, <2>3 DEF OnePlace
<1>3. CASE h # 0
  <2> DEFINE f == Fallback(t, stream.sent)
             c == Edited(h, Shown(t))
  <2>1. /\ stream # None /\ stream.handle = h /\ stream.sent \in Text
        /\ h \in Places(x, chat) <=> Has(stream.sent, x)
    <3>1. stream # None /\ stream.handle = h /\ stream.sent \in Text /\ h \in DOMAIN chat /\ chat[h] = stream.sent
      BY <1>3 DEF Found, StreamState, Text
    <3> QED BY <3>1 DEF Places
  <2>2. f \in Text /\ Shown(t) \in Text /\ Rest(t) \in Text
    BY <1>1, <2>1, FallbackIsText, ShownIsText
  <2>3. /\ IsBeginning(stream.sent, t) => (Has(stream.sent, x) <=> ~Has(f, x))
        /\ ~IsBeginning(stream.sent, t) /\ (k > Prefix \/ Pieces[a[1]] <= Limit) => Has(f, x)
    BY <2>1, FallbackHas
  <2>4. Has(Shown(t), x) <=> ~Has(Rest(t), x)
    BY ShownHas
  <2>5. c \in Texts
    BY <1>1, <1>3, <2>2, EditedChat
  <2>6. /\ Has(Shown(t), x) => Places(x, c) = Places(x, chat) \cup {h}
        /\ ~Has(Shown(t), x) => Places(x, c) = Places(x, chat) \ {h}
    BY <1>1, <1>3, <2>2, PlacesEdited
  <2>7. ASSUME NEW cost \in {0, 1}, IsSend(o, chat, f, None, cost, Detour(t))
        PROVE  /\ k > Prefix \/ Pieces[a[1]] <= Limit => Places(x, o.chat) # {}
               /\ "astray" \notin o.marks /\ Places(x, chat) \subseteq {h} => OnePlace(x, o.chat)
    <3> HIDE DEF f, t
    <3>1. cost \in Nat
      OBVIOUS
    <3>2. /\ Places(x, chat) \subseteq Places(x, o.chat)
          /\ ~Has(f, x) => Places(x, o.chat) = Places(x, chat)
          /\ Has(f, x) => Places(x, o.chat) = Places(x, chat) \cup {Len(chat) + 1}
      BY <1>1, <2>2, <2>7, <3>1, SendPlaces
    <3>3. "astray" \notin o.marks => IsBeginning(stream.sent, t)
      <4>1. o.marks = Detour(t)
        BY <2>7, Zenon DEF IsSend
      <4> QED BY <4>1 DEF Detour
    <3>4. ASSUME k > Prefix \/ Pieces[a[1]] <= Limit PROVE Places(x, o.chat) # {}
      BY <2>1, <2>3, <3>2, <3>4
    <3>5. ASSUME "astray" \notin o.marks, Places(x, chat) \subseteq {h} PROVE OnePlace(x, o.chat)
      <4>1. CASE Has(f, x)
        <5>1. Places(x, chat) = {}
          BY <2>1, <2>3, <3>3, <3>5, <4>1
        <5>2. Places(x, o.chat) = {Len(chat) + 1}
          BY <3>2, <4>1, <5>1
        <5> QED BY <5>2 DEF OnePlace
      <4>2. CASE ~Has(f, x)
        <5>1. Places(x, o.chat) = {h}
          BY <2>1, <2>3, <3>2, <3>3, <3>5, <4>2
        <5> QED BY <5>1 DEF OnePlace
      <4> QED BY <4>1, <4>2
    <3> QED BY <3>4, <3>5
  <2>8. ASSUME IsSend(o, c, Rest(t), None, 0, {})
        PROVE  /\ Places(x, o.chat) # {}
               /\ Places(x, chat) \subseteq {h} => OnePlace(x, o.chat)
    <3> HIDE DEF c, t
    <3>1. /\ Places(x, c) \subseteq Places(x, o.chat)
          /\ ~Has(Rest(t), x) => Places(x, o.chat) = Places(x, c)
          /\ Has(Rest(t), x) => Places(x, o.chat) = Places(x, c) \cup {Len(c) + 1}
      BY <1>1, <2>2, <2>5, <2>8, SendPlaces
    <3>2. CASE Has(Rest(t), x)
      <4>1. Places(x, o.chat) = (Places(x, chat) \ {h}) \cup {Len(c) + 1}
        BY <2>4, <2>6, <3>1, <3>2
      <4>2. Places(x, chat) \subseteq {h} => Places(x, o.chat) = {Len(c) + 1}
        BY <4>1
      <4> QED BY <4>1, <4>2 DEF OnePlace
    <3>3. CASE ~Has(Rest(t), x)
      <4>1. Places(x, o.chat) = Places(x, chat) \cup {h}
        BY <2>4, <2>6, <3>1, <3>3
      <4>2. Places(x, chat) \subseteq {h} => Places(x, o.chat) = {h}
        BY <4>1
      <4> QED BY <4>1, <4>2 DEF OnePlace
    <3> QED BY <3>2, <3>3
  <2>9. \/ \E cost \in {0, 1} : IsSend(o, chat, f, None, cost, Detour(t))
        \/ IsSend(o, c, Rest(t), None, 0, {})
    BY <1>3, <2>1, Zenon DEF FinishShape
  <2> QED BY <2>7, <2>8, <2>9, Zenon
<1> QED BY <1>2, <1>3

LEMMA DeliverStays ==
  ASSUME TypeInv, ShownInv, Deliver
  PROVE  \A x \in AllPieces : Settled(x) \subseteq Places(x, chat') \ {HandleOf(stream')}
<1> DEFINE e == queue[1]
<1>1. DeliveryTypeOK /\ e.answer \in Answers /\ MaxRetries \in Nat /\ retries \in 0 .. MaxRetries
  BY DeliverShifts, EventParts, ConstantsAreSound DEF TypeInv, DeliveryTypeOK, Shifted
<1>2. PICK h : Found(h)
  BY <1>1, Finds
<1>3. ASSUME NEW o, Apply(o), Stays(o)
      PROVE  \A x \in AllPieces : Settled(x) \subseteq Places(x, chat') \ {HandleOf(stream')}
  BY <1>3, Zenon DEF Apply, Stays
<1>4. ASSUME UNCHANGED <<chat, failures>>, stream' = stream \/ stream' = None
      PROVE  \A x \in AllPieces : Settled(x) \subseteq Places(x, chat') \ {HandleOf(stream')}
  <2> SUFFICES ASSUME NEW x \in AllPieces PROVE Settled(x) \subseteq Places(x, chat') \ {HandleOf(stream')}
    OBVIOUS
  <2>1. Settled(x) = Places(x, chat) \ {HandleOf(stream)} /\ chat' = chat /\ HandleOf(None) = 0
    BY <1>4 DEF Settled, HandleOf
  <2>2. 0 \notin Places(x, chat)
    BY <1>2, LenProperties DEF Found, Texts, Places
  <2> QED BY <1>4, <2>1, <2>2
<1>5. Entry \in StreamState /\ Entry.handle = h
  BY <1>2 DEF Found
<1>6. ASSUME NEW o, Apply(o), NEW p \in Text, StatusShape(o, p) PROVE Stays(o)
  BY <1>2, <1>5, <1>6, ShapesStay, Zenon DEF StatusShape
<1>7. ASSUME NEW o, Apply(o), NEW x \in AllPieces, DeltaShape(o, Grown(x), Shown(Grown(x).buffer))
      PROVE  Stays(o)
  <2> DEFINE s == Grown(x)
             p == Shown(s.buffer)
  <2>1. s \in StreamState /\ s.handle = h /\ p \in Text
    BY <1>1, <1>5, GrownEntry
  <2>2. DeltaShape(o, s, p)
    BY <1>7
  <2> HIDE DEF s, p
  <2> QED BY <1>2, <2>1, <2>2, ShapesStay, Zenon DEF DeltaShape
<1>8. queue[1].kind = "status" /\ queue[1].piece \in 1 .. retries => <<Attempt(queue[1].piece)>> \in Text
  BY <1>1, WordsAreSymbols
<1>9. queue[1].kind = "delta" /\ queue[1].piece \in Parts(queue[1].answer)
        => Piece(queue[1].answer, queue[1].piece) \in AllPieces
  BY <1>1, WordsAreSymbols
<1>10. \A x, y : x \in {y} => x = y
  OBVIOUS
<1>11. Unseen => UNCHANGED <<chat, failures>> /\ stream' = stream
  BY DEF Unseen
<1>12. ASSUME NEW o, PlaceholderShape(o) PROVE Stays(o)
  BY <1>2, <1>12, PlaceholderStays
<1>13. ASSUME NEW o, NEW t \in Text, o.stream = None, FinishShape(o, t) PROVE Stays(o)
  BY <1>2, <1>13, FinishStays
<1>14. <<Failed>> \in Text /\ Answer(queue[1].answer) \in Text
  BY <1>1, WordsAreSymbols, AnswersAreTexts
<1> HIDE DEF e
<1> QED BY <1>3, <1>4, <1>6, <1>7, <1>8, <1>9, <1>10, <1>11, <1>12, <1>13, <1>14, HandledOutcome, Zenon

\* What the bridge notes of the answer it deals with.
Noted(o, a) ==
  /\ given' = given \cup {a}
  /\ unsent' = IF "unsent" \in o.marks THEN unsent \cup {a} ELSE unsent
  /\ astray' = IF "astray" \in o.marks THEN astray \cup {a} ELSE astray
LEMMA DeliverNotes ==
  ASSUME TypeInv, Deliver
  PROVE  \/ UNCHANGED <<given, unsent, astray>> /\ (queue[1].kind # "message" \/ ~mapped)
         \/ /\ queue[1].kind = "message"
            /\ \E o : /\ Apply(o) /\ o.stream = None /\ FinishShape(o, Answer(queue[1].answer))
                      /\ Noted(o, queue[1].answer)
<1> DEFINE e == queue[1]
<1>1. Shifted /\ DeliveryTypeOK
  BY DeliverShifts DEF TypeInv
<1>2. e \in Events /\ Head(queue) = e /\ e.answer \in Answers
  BY <1>1, EventParts DEF Shifted
<1> HIDE DEF e
<1>3. CASE ~cached /\ ~mapped /\ UNCHANGED <<cached, viewVars, typing>>
  BY <1>3 DEF viewVars
<1>4. CASE e.kind # "message" /\ Handled(e)
  BY <1>4 DEF Handled, OnStarted, OnFinished, OnStatus, OnError, OnDelta, viewVars, e
<1>5. CASE e.kind = "message" /\ Handled(e)
  <2>1. PICK o \in Finish(Answer(e.answer)) : Apply(o) /\ Noted(o, e.answer)
    BY <1>5, Zenon DEF Handled, OnMessage, Noted
  <2>2. o.stream = None /\ FinishShape(o, Answer(e.answer))
    BY <1>1, <1>2, FinishTypes, FinishShapes, AnswersAreTexts
  <2> QED BY <1>5, <2>1, <2>2, Zenon DEF e
<1>6. \/ ~cached /\ ~mapped /\ UNCHANGED <<cached, viewVars, typing>>
      \/ Handled(e)
  BY <1>2, Zenon DEF Deliver
<1> QED BY <1>3, <1>4, <1>5, <1>6

\* An answer that was dealt with and sent is in messages that are not changed any more,
\* but for the beginning of a long one.
KeptInv ==
  \A a \in given \ unsent : \A k \in Parts(a) :
    k > Prefix \/ Pieces[a[1]] <= Limit => Settled(Piece(a, k)) # {}

LEMMA DeliverKeeps == ASSUME TypeInv, ShownInv, KeptInv, Deliver PROVE KeptInv'
<1> DEFINE e == queue[1]
<1> SUFFICES ASSUME NEW a \in given' \ unsent', NEW k \in Parts(a), k > Prefix \/ Pieces[a[1]] <= Limit
             PROVE  Settled(Piece(a, k))' # {}
  BY DEF KeptInv
<1> DEFINE x == Piece(a, k)
<1>1. DeliveryTypeOK /\ e.answer \in Answers /\ given \subseteq Answers
  BY DeliverShifts, EventParts DEF TypeInv, DeliveryTypeOK, Shifted
<1>2. Settled(x)' = Places(x, chat') \ {HandleOf(stream')}
  BY DEF Settled, Places, HandleOf
<1>3. given' \subseteq given \cup {e.answer} /\ unsent \subseteq unsent'
  BY DeliverNotes DEF Noted
<1>4. a \in Answers /\ PieceOf(a, k, x) /\ x \in AllPieces
  BY <1>1, <1>3, PiecesDiffer DEF PieceOf
<1>5. CASE a \in given
  <2>1. Settled(x) # {}
    BY <1>3, <1>5 DEF KeptInv
  <2>2. Settled(x) \subseteq Places(x, chat') \ {HandleOf(stream')}
    BY <1>4, DeliverStays
  <2> QED BY <1>2, <2>1, <2>2
<1>6. CASE a \notin given
  <2>1. PICK o : /\ Apply(o) /\ o.stream = None /\ FinishShape(o, Answer(e.answer))
                 /\ Noted(o, e.answer)
    BY <1>6, DeliverNotes
  <2>2. a = e.answer /\ "unsent" \notin o.marks
    BY <1>3, <1>6, <2>1 DEF Noted
  <2>3. PICK h : Found(h)
    BY <1>1, Finds
  <2>4. Places(x, o.chat) # {}
    BY <1>4, <2>1, <2>2, <2>3, FinishSays
  <2>5. chat' = o.chat /\ HandleOf(stream') = 0
    BY <2>1 DEF Apply, HandleOf
  <2>6. chat' \in Texts
    BY DeliverKeepsTypes, TypeSplit DEF TypeInv, DeliveryTypeOK, Texts, Text
  <2>7. 0 \notin Places(x, chat')
    BY <2>6, LenProperties DEF Places, Texts
  <2> QED BY <1>2, <2>4, <2>5, <2>7
<1> QED BY <1>5, <1>6

LEMMA KeptInvariant == Spec => []KeptInv
<1>1. Init => KeptInv
  BY DEF Init, KeptInv
<1>2. TypeInv /\ ShownInv /\ KeptInv /\ [Next]_vars => KeptInv'
  <2> SUFFICES ASSUME TypeInv, ShownInv, KeptInv, [Next]_vars PROVE KeptInv'
    OBVIOUS
  <2>1. ASSUME UNCHANGED <<chat, given, unsent>>, stream' = stream \/ stream' = None PROVE KeptInv'
    <3> SUFFICES ASSUME NEW a \in given \ unsent, NEW k \in Parts(a), k > Prefix \/ Pieces[a[1]] <= Limit
                 PROVE  Settled(Piece(a, k))' # {}
      BY <2>1 DEF KeptInv
    <3> DEFINE x == Piece(a, k)
    <3>1. Settled(x) # {} /\ Settled(x) = Places(x, chat) \ {HandleOf(stream)}
      BY DEF KeptInv, Settled
    <3>2. Settled(x)' = Places(x, chat) \ {HandleOf(stream')} /\ HandleOf(None) = 0
      BY <2>1 DEF Settled, Places, HandleOf
    <3>3. 0 \notin Places(x, chat)
      BY TypeParts, LenProperties DEF Places, Texts, TypeInv
    <3> QED BY <2>1, <3>1, <3>2, <3>3
  <2>2. ASSUME NEW t \in Turns, TurnStep(t) PROVE KeptInv'
    BY <2>1, <2>2, TurnLeaves DEF viewVars
  <2>3. CASE NewBegins \/ NewMoves
    BY <2>1, <2>3 DEF NewBegins, NewMoves, viewVars
  <2>4. CASE UNCHANGED vars
    BY <2>1, <2>4 DEF vars, viewVars
  <2> QED BY <2>2, <2>3, <2>4, DeliverKeeps DEF Next, TurnStep
<1> QED BY <1>1, <1>2, TypesInvariant, ShownInvariant, PTL DEF Spec

-----------------------------------------------------------------------------
(* Each answer is told once, after its pieces *)

\* The answer of the round a turn is in, or of a later one, is not published yet.
Coming(a) ==
  /\ turn[a[1]] \in {"new", "request", "stream", "tools", "waiting"}
  /\ \/ round[a[1]] < a[2]
     \/ round[a[1]] = a[2] /\ turn[a[1]] \notin {"tools", "waiting"}

\* The model has begun to answer in the round, or the round is over.
Past(a) ==
  \/ round[a[1]] > a[2]
  \/ round[a[1]] = a[2] /\ turn[a[1]] \notin {"new", "request"}

MessageAt(a, m) == m \in DOMAIN queue /\ queue[m].kind = "message" /\ queue[m].answer = a
ToCome(a) == Coming(a) \/ \E m \in DOMAIN queue : MessageAt(a, m)
HasPiece(a, text) == \E k \in Parts(a) : Has(text, Piece(a, k))
Carries(a, s)  == HasPiece(a, s.buffer) \/ HasPiece(a, s.sent)
Streamed(a, i) ==
  \/ i = 0 /\ stream # None /\ Carries(a, stream)
  \/ i \in DOMAIN queue /\ queue[i].kind = "delta" /\ queue[i].answer = a

ComingInv(a) == Coming(a) => a \notin given /\ \A m \in DOMAIN queue : ~MessageAt(a, m)
ToldInv(a) ==
  \A m \in DOMAIN queue : MessageAt(a, m) =>
    /\ a \notin given
    /\ \A i \in DOMAIN queue : m < i /\ queue[i].answer = a => queue[i].kind \notin {"delta", "message"}
StreamedInv(a) == \A i \in 0 .. Len(queue) : Streamed(a, i) => a \notin given /\ Past(a)
AnswersInv == \A a \in Answers : ComingInv(a) /\ ToldInv(a) /\ StreamedInv(a)

LEMMA AnswerParts ==
  ASSUME NEW a \in Answers
  PROVE  a[1] \in Turns /\ a[2] \in Nat /\ \A t, r : a = <<t, r>> => a[1] = t /\ a[2] = r
  BY ConstantsAreSound DEF Answers

\* The turn tells an event of the answer a.
Tells(k, a) == Adds(k) /\ queue'[Len(queue) + 1].answer = a
LEMMA TurnTalks ==
  ASSUME TypeInv, NEW t \in Turns, TurnStep(t), NEW a \in Answers
  PROVE  /\ Coming(a)' => Coming(a)
         /\ Past(a) => Past(a)'
         /\ Tells("message", a) => Coming(a) /\ ~Coming(a)'
         /\ Tells("delta", a) => Coming(a) /\ Past(a)'
<1>1. /\ turn \in [Turns -> {"new", "request", "stream", "tools", "waiting", "ended", "closed", "over", "reviewed"}]
      /\ round \in [Turns -> 1 .. MaxRounds + 1] /\ round[t] \in Nat
      /\ Len(queue) \in Nat /\ Len(queue) # Len(queue) + 1
  BY TypeSplit, TurnQueue, ConstantsAreSound DEF TurnTypes
<1>2. a[1] \in Turns /\ a[2] \in Nat /\ \A r : a = <<t, r>> => a[1] = t /\ a[2] = r
  BY AnswerParts
<1>3. ASSUME a[1] # t
      PROVE  turn'[a[1]] = turn[a[1]] /\ round'[a[1]] = round[a[1]]
  BY <1>2, <1>3, TurnMoves
<1>4. ASSUME NEW k, NEW p, Published(Event(t, k, p))
      PROVE  \A j : Tells(j, a) => j = k /\ a[1] = t /\ a[2] = round[t]
  BY <1>2, <1>4, EventFields DEF Published, Adds, Tells
<1>5. ASSUME queue' = queue, NEW k PROVE ~Tells(k, a)
  BY <1>1, <1>5 DEF Adds, Tells
<1> USE DEF Coming, Past
<1>6. CASE TurnStarts(t)
  <2>1. turn'[t] = "request" /\ turn[t] = "new" /\ round' = round
    BY <1>1, <1>6 DEF TurnStarts, Enter
  <2>2. \A j : Tells(j, a) => j = "started"
    BY <1>4, <1>6, TurnPublishes
  <2> QED BY <1>1, <1>2, <1>3, <2>1, <2>2
<1>7. CASE TurnRetries(t)
  <2>1. turn' = turn /\ round' = round
    BY <1>7 DEF TurnRetries
  <2>2. \A j : Tells(j, a) => j = "status"
    BY <1>4, <1>7, TurnPublishes
  <2> QED BY <2>1, <2>2
<1>8. CASE TurnStreams(t)
  <2>1. turn'[t] = "stream" /\ turn[t] \in {"request", "stream"} /\ round' = round
    BY <1>1, <1>8 DEF TurnStreams, Enter
  <2>2. \A j : Tells(j, a) => j = "delta" /\ a[1] = t /\ a[2] = round[t]
    BY <1>4, <1>8, TurnPublishes
  <2> QED BY <1>1, <1>2, <1>3, <2>1, <2>2
<1>9. CASE TurnAnswers(t)
  <2>1. turn'[t] \in {"ended", "tools"} /\ turn[t] = "stream" /\ round' = round
    BY <1>1, <1>9 DEF TurnAnswers, Enter
  <2>2. \A j : Tells(j, a) => j = "message" /\ a[1] = t /\ a[2] = round[t]
    BY <1>4, <1>9, TurnPublishes
  <2> QED BY <1>1, <1>2, <1>3, <2>1, <2>2
<1>10. CASE TurnGoesOn(t)
  <2>1. turn'[t] = "request" /\ turn[t] = "tools" /\ round'[t] = round[t] + 1 /\ queue' = queue
    BY <1>1, <1>10 DEF TurnGoesOn, Enter
  <2> QED BY <1>1, <1>2, <1>3, <1>5, <2>1
<1>11. CASE TurnAsks(t)
  <2>1. turn'[t] = "waiting" /\ turn[t] = "tools" /\ round' = round /\ queue' = queue
    BY <1>1, <1>11 DEF TurnAsks, Enter
  <2> QED BY <1>1, <1>2, <1>3, <1>5, <2>1
<1>12. CASE TurnHears(t)
  <2>1. turn'[t] = "tools" /\ turn[t] = "waiting" /\ round' = round /\ queue' = queue
    BY <1>1, <1>12 DEF TurnHears, Enter
  <2> QED BY <1>1, <1>2, <1>3, <1>5, <2>1
<1>13. CASE TurnFails(t)
  <2>1. turn'[t] = "ended" /\ round' = round
    BY <1>1, <1>13 DEF TurnFails, Enter
  <2>2. \A j : Tells(j, a) => j = "error"
    BY <1>4, <1>13, TurnPublishes
  <2> QED BY <1>1, <1>2, <1>3, <2>1, <2>2
<1>14. CASE TurnCloses(t)
  <2>1. turn'[t] = "closed" /\ round' = round /\ queue' = queue
    BY <1>1, <1>14 DEF TurnCloses, Enter
  <2> QED BY <1>1, <1>2, <1>3, <1>5, <2>1
<1>15. CASE TurnFinishes(t)
  <2>1. turn'[t] = "over" /\ round' = round
    BY <1>1, <1>15 DEF TurnFinishes, Enter
  <2>2. \A j : Tells(j, a) => j = "finished"
    BY <1>4, <1>15, TurnPublishes
  <2> QED BY <1>1, <1>2, <1>3, <2>1, <2>2
<1>16. CASE ReviewFails(t)
  <2>1. turn'[t] = "reviewed" /\ round' = round
    BY <1>1, <1>16 DEF ReviewFails, Enter
  <2>2. \A j : Tells(j, a) => j = "error"
    BY <1>4, <1>16, TurnPublishes
  <2> QED BY <1>1, <1>2, <1>3, <2>1, <2>2
<1> QED BY <1>6, <1>7, <1>8, <1>9, <1>10, <1>11, <1>12, <1>13, <1>14, <1>15, <1>16 DEF TurnStep

\* An event of the longer queue is an event of the shorter one, or it is told now.
LEMMA TurnEvents ==
  ASSUME TypeInv, NEW t \in Turns, TurnStep(t)
  PROVE  /\ Len(queue) \in Nat /\ DOMAIN queue = 1 .. Len(queue)
         /\ \A i \in DOMAIN queue : i \in DOMAIN queue' /\ queue'[i] = queue[i]
         /\ Len(queue') \in Nat /\ Len(queue') <= Len(queue) + 1 /\ DOMAIN queue' = 1 .. Len(queue')
         /\ \A i \in DOMAIN queue' :
              \/ i \in DOMAIN queue /\ queue'[i] = queue[i]
              \/ i = Len(queue) + 1 /\ Tells(queue'[i].kind, queue'[i].answer)
<1>1. Len(queue) \in Nat /\ DOMAIN queue = 1 .. Len(queue)
  BY TurnQueue
<1>2. CASE queue' = queue
  <2>1. Len(queue') = Len(queue) /\ Len(queue') <= Len(queue) + 1 /\ DOMAIN queue' = DOMAIN queue /\ \A i \in DOMAIN queue' : queue'[i] = queue[i]
    <3>1. Len(queue') = Len(queue) /\ DOMAIN queue' = DOMAIN queue /\ \A i \in DOMAIN queue' : queue'[i] = queue[i]
      BY <1>2, Zenon
    <3> QED BY <1>1, <3>1
  <2> QED BY <1>1, <2>1
<1>3. CASE \E e \in Events : Published(e)
  BY <1>1, <1>3 DEF Published, Tells, Adds
<1> QED BY <1>2, <1>3, TurnQueue

LEMMA TurnKeepsAnswers ==
  ASSUME TypeInv, AnswersInv, NEW t \in Turns, TurnStep(t) PROVE AnswersInv'
<1> SUFFICES ASSUME NEW a \in Answers PROVE ComingInv(a)' /\ ToldInv(a)' /\ StreamedInv(a)'
  BY DEF AnswersInv
<1> DEFINE L == Len(queue)
<1>1. /\ ComingInv(a) /\ ToldInv(a) /\ StreamedInv(a)
      /\ given' = given /\ stream' = stream
  BY TurnLeaves DEF AnswersInv, viewVars
<1>2. /\ L \in Nat /\ DOMAIN queue = 1 .. L
      /\ Len(queue') \in Nat /\ Len(queue') <= L + 1 /\ DOMAIN queue' = 1 .. Len(queue')
      /\ \A i \in DOMAIN queue' :
              \/ i \in DOMAIN queue /\ queue'[i] = queue[i]
              \/ i = L + 1 /\ Tells(queue'[i].kind, queue'[i].answer)
  BY TurnEvents
<1>0. /\ 0 \in 0 .. L /\ 0 \notin DOMAIN queue' /\ \A j \in DOMAIN queue : j \in 0 .. L
      /\ \A i \in DOMAIN queue' : ~(L + 1 < i)
  <2>1. L \in Nat /\ DOMAIN queue = 1 .. L /\ Len(queue') \in Nat /\ Len(queue') <= L + 1 /\ DOMAIN queue' = 1 .. Len(queue')
    BY <1>2, Zenon
  <2>2. \A i : i \in DOMAIN queue' <=> i \in 1 .. Len(queue')
    BY <2>1, Zenon
  <2>3. \A j \in DOMAIN queue : j \in 0 .. L
    BY <2>1
  <2>4. \A i \in 1 .. Len(queue') : i # 0 /\ ~(L + 1 < i)
    BY <2>1
  <2> QED BY <2>1, <2>2, <2>3, <2>4
<1>3. /\ Coming(a)' => Coming(a)
      /\ Past(a) => Past(a)'
      /\ Tells("message", a) => Coming(a) /\ ~Coming(a)'
      /\ Tells("delta", a) => Coming(a) /\ Past(a)'
  BY TurnTalks
<1>4. ASSUME NEW m \in DOMAIN queue', MessageAt(a, m)'
      PROVE  MessageAt(a, m) \/ (m = L + 1 /\ Tells("message", a))
  BY <1>2, <1>4 DEF MessageAt
<1>5. ComingInv(a)'
  BY <1>1, <1>3, <1>4 DEF ComingInv, MessageAt
<1>6. ToldInv(a)'
  <2> SUFFICES ASSUME NEW m \in DOMAIN queue', MessageAt(a, m)'
               PROVE  /\ a \notin given
                      /\ \A i \in DOMAIN queue' : m < i /\ queue'[i].answer = a => queue'[i].kind \notin {"delta", "message"}
    BY <1>1 DEF ToldInv
  <2>1. CASE MessageAt(a, m)
    <3>1. m \in DOMAIN queue /\ ~Coming(a) /\ a \notin given
      BY <1>1, <2>1 DEF MessageAt, ComingInv, ToldInv
    <3>2. ASSUME NEW i \in DOMAIN queue', m < i, queue'[i].answer = a, queue'[i].kind \in {"delta", "message"}
          PROVE  FALSE
      <4>1. CASE i \in DOMAIN queue /\ queue'[i] = queue[i]
        BY <1>1, <2>1, <3>1, <3>2, <4>1 DEF ToldInv
      <4>2. CASE i = L + 1 /\ Tells(queue'[i].kind, queue'[i].answer)
        BY <1>3, <3>1, <3>2, <4>2
      <4> QED BY <1>2, <4>1, <4>2
    <3> QED BY <3>1, <3>2
  <2>2. CASE m = L + 1 /\ Tells("message", a)
    <3>1. a \notin given
      BY <1>1, <1>3, <2>2 DEF ComingInv
    <3>2. \A i \in DOMAIN queue' : ~(m < i)
      BY <1>0, <2>2
    <3> QED BY <3>1, <3>2
  <2> QED BY <1>4, <2>1, <2>2
<1>7. StreamedInv(a)'
  <2> SUFFICES ASSUME NEW i \in 0 .. Len(queue'), Streamed(a, i)' PROVE a \notin given /\ Past(a)'
    BY <1>1 DEF StreamedInv
  <2>1. \/ i \in 0 .. L /\ Streamed(a, i)
        \/ Tells("delta", a)
    <3>1. (stream # None /\ Carries(a, stream))' => stream # None /\ Carries(a, stream)
      BY <1>1 DEF Carries, HasPiece, Has
    <3>2. CASE i = 0
      BY <1>0, <3>1, <3>2 DEF Streamed
    <3>3. CASE i # 0
      BY <1>0, <1>2, <3>3 DEF Streamed
    <3> QED BY <3>2, <3>3
  <2> QED BY <1>1, <1>3, <2>1 DEF StreamedInv, ComingInv
<1> QED BY <1>5, <1>6, <1>7

\* A text without a piece of the answer brings none to the stream.
LEMMA ShapesCarry ==
  ASSUME NEW s \in StreamState, NEW p \in Text, NEW o, NEW a, ~Carries(a, s), ~HasPiece(a, p), Len(chat) \in Nat
  PROVE  /\ Kept(o, s, p) => ~Carries(a, o.stream)
         /\ Begun(o, s, p) => ~Carries(a, o.stream)
         /\ Redone(o, s, p) => ~Carries(a, o.stream)
         /\ GivenUp(o, s) => ~Carries(a, o.stream)
<1>1. ~HasPiece(a, s.buffer) /\ ~HasPiece(a, s.sent)
  BY DEF Carries
<1>2. /\ Started(s, p).buffer = s.buffer /\ Started(s, p).sent = p
      /\ Updated(s, p).buffer = s.buffer /\ Updated(s, p).sent = p
      /\ Stopped(s).buffer = s.buffer /\ Stopped(s).sent = s.sent
  BY StartFields, UpdateFields, StoppedFields
<1>3. ~Carries(a, Started(s, p)) /\ ~Carries(a, Updated(s, p)) /\ ~Carries(a, Stopped(s))
  BY <1>1, <1>2, Zenon DEF Carries
<1> QED BY <1>3, Zenon DEF Kept, Begun, Redone, GivenUp

\* The bridge's own texts have no piece of an answer, and one piece more is that piece.
LEMMA NoPieces ==
  ASSUME NEW a \in Answers
  PROVE  /\ ~HasPiece(a, <<>>) /\ ~HasPiece(a, <<Thinking>>) /\ ~HasPiece(a, <<Failed>>)
         /\ \A k \in 1 .. MaxRetries : ~HasPiece(a, <<Attempt(k)>>)
         /\ \A b \in Answers : HasPiece(a, Answer(b)) => a = b
         /\ \A text \in Text : ~HasPiece(a, text) =>
              /\ ~HasPiece(a, Shown(text))
              /\ ~HasPiece(a, Rest(text))
              /\ \A sent \in Text : ~HasPiece(a, Fallback(text, sent))
<1>1. \A k \in Parts(a) : PieceOf(a, k, Piece(a, k)) /\ Piece(a, k) \in AllPieces
  BY WordsAreSymbols DEF PieceOf
<1>2. /\ ~HasPiece(a, <<>>) /\ ~HasPiece(a, <<Thinking>>) /\ ~HasPiece(a, <<Failed>>)
      /\ \A k \in 1 .. MaxRetries : ~HasPiece(a, <<Attempt(k)>>)
  BY <1>1, PiecesDiffer DEF HasPiece
<1>3. \A b \in Answers : HasPiece(a, Answer(b)) => a = b
  BY <1>1, AnswerHas DEF HasPiece
<1>4. ASSUME NEW text \in Text, ~HasPiece(a, text)
      PROVE  /\ ~HasPiece(a, Shown(text)) /\ ~HasPiece(a, Rest(text))
             /\ \A sent \in Text : ~HasPiece(a, Fallback(text, sent))
  <2>1. \A k \in Parts(a) : ~Has(text, Piece(a, k))
    BY <1>4 DEF HasPiece
  <2>2. <<>> \in Text
    BY DEF Text
  <2> QED BY <1>1, <2>1, <2>2, OnlyItsOwn DEF HasPiece
<1> QED BY <1>2, <1>3, <1>4

LEMMA GrownCarries ==
  ASSUME DeliveryTypeOK, NEW a \in Answers, NEW b, NEW j, NEW x, PieceOf(b, j, x), a # b, ~Carries(a, Entry)
  PROVE  ~Carries(a, Grown(x)) /\ ~HasPiece(a, Shown(Grown(x).buffer))
<1>1. /\ x \in AllPieces /\ Entry \in StreamState /\ \A k : x # Piece(a, k)
      /\ ~HasPiece(a, Entry.buffer) /\ ~HasPiece(a, Entry.sent)
  BY EntryFits, PiecesDiffer DEF PieceOf, Carries
<1>2. /\ Grown(x).sent = Entry.sent /\ Grown(x).buffer \in Text
      /\ Entry.disabled => Grown(x) = Entry
      /\ ~Entry.disabled => Grown(x).buffer = Append(Entry.buffer, x)
  BY <1>1, GrownEntry
<1>3. ~HasPiece(a, Append(Entry.buffer, x))
  <2>1. Entry.buffer \in Seq(AllPieces) /\ Len(Entry.buffer) \in Nat
    BY <1>1, LenProperties DEF StreamState
  <2>2. /\ Len(Append(Entry.buffer, x)) = Len(Entry.buffer) + 1
        /\ Append(Entry.buffer, x)[Len(Entry.buffer) + 1] = x
        /\ \A i \in 1 .. Len(Entry.buffer) : Append(Entry.buffer, x)[i] = Entry.buffer[i]
    BY <1>1, <2>1, AppendProperties
  <2> DEFINE n == Append(Entry.buffer, x)
  <2> HIDE DEF n
  <2>3. ASSUME NEW k \in Parts(a), NEW i \in 1 .. Len(n), n[i] = Piece(a, k) PROVE FALSE
    <3>1. i \in 1 .. Len(Entry.buffer)
      BY <1>1, <2>1, <2>2, <2>3 DEF n
    <3>2. Has(Entry.buffer, Piece(a, k))
      BY <2>2, <2>3, <3>1 DEF Has, n
    <3> QED BY <1>1, <3>2 DEF HasPiece
  <2> QED BY <2>3 DEF HasPiece, Has, n
<1>4. ~HasPiece(a, Grown(x).buffer)
  BY <1>1, <1>2, <1>3, Zenon
<1>5. ~Carries(a, Grown(x))
  BY <1>1, <1>2, <1>4, Zenon DEF Carries
<1> QED BY <1>2, <1>4, <1>5, NoPieces

\* The pieces in a stream were there before, or come with the delta; an event that closes
\* the stream leaves none.
LEMMA StreamedAfter ==
  ASSUME TypeInv, ShownInv, Deliver, NEW a \in Answers, Streamed(a, 0)'
  PROVE  /\ Streamed(a, 0) \/ Streamed(a, 1)
         /\ queue[1].kind \in {"started", "message", "error"} => Unseen /\ ~mapped
<1> DEFINE e == queue[1]
           After == stream' # None /\ Carries(a, stream')
<1>1. /\ DeliveryTypeOK /\ e.answer \in Answers /\ MaxRetries \in Nat /\ retries \in 0 .. MaxRetries
      /\ 1 \in DOMAIN queue /\ 0 \notin DOMAIN queue' /\ Len(chat) \in Nat /\ Entry \in StreamState
      /\ Fresh \in StreamState
  <2>1. DeliveryTypeOK /\ Shifted
    BY DeliverShifts DEF TypeInv
  <2>2. chat \in Texts /\ Entry \in StreamState /\ Fresh \in StreamState
    BY <2>1, TypeParts, EntryFits
  <2>3. Len(chat) \in Nat
    BY <2>2, LenProperties DEF Texts
  <2>4. MaxRetries \in Nat /\ retries \in 0 .. MaxRetries
    BY <2>1, ConstantsAreSound DEF DeliveryTypeOK
  <2>5. queue[1] \in Events /\ 1 \in DOMAIN queue /\ 0 \notin DOMAIN queue'
    BY <2>1 DEF Shifted
  <2>6. e.answer \in Answers
    BY <2>5, EventParts
  <2> QED BY <2>1, <2>2, <2>3, <2>4, <2>5, <2>6
<1>2. After
  BY <1>1 DEF Streamed, Carries, HasPiece, Has
<1> HIDE DEF After
<1>3. (Carries(a, Entry) => Streamed(a, 0)) /\ ~Carries(a, Fresh)
  <2>1. Fresh.buffer = <<>> /\ Fresh.sent = <<>>
    BY DEF Fresh
  <2>2. ~Carries(a, Fresh)
    BY <2>1, NoPieces, Zenon DEF Carries
  <2> QED BY <2>2 DEF Streamed, Entry
<1>4. stream' = None => FALSE
  BY <1>2, Zenon DEF After
<1>5. ASSUME Unseen PROVE Streamed(a, 0)
  BY <1>2, <1>5 DEF Unseen, After, Streamed
<1>6. ASSUME NEW o, Apply(o), PlaceholderShape(o) PROVE FALSE
  <2>1. <<Thinking>> \in Text /\ ~HasPiece(a, <<Thinking>>)
    BY WordsAreSymbols, NoPieces
  <2>2. /\ Started(Fresh, <<Thinking>>).buffer = Fresh.buffer
        /\ Started(Fresh, <<Thinking>>).sent = <<Thinking>>
    BY <1>1, <2>1, StartFields
  <2>3. ~Carries(a, Started(Fresh, <<Thinking>>))
    BY <1>3, <2>1, <2>2, Zenon DEF Carries
  <2> QED BY <1>2, <1>6, <2>3, Zenon DEF PlaceholderShape, Apply, After
<1>7. ASSUME NEW o, Apply(o), NEW k \in 1 .. MaxRetries, StatusShape(o, <<Attempt(k)>>) PROVE Streamed(a, 0)
  <2>1. <<Attempt(k)>> \in Text /\ ~HasPiece(a, <<Attempt(k)>>)
    BY WordsAreSymbols, NoPieces
  <2>2. Carries(a, o.stream)
    BY <1>2, <1>7, Zenon DEF Apply, After
  <2>3. Carries(a, Entry)
    BY <1>1, <1>7, <2>1, <2>2, ShapesCarry, Zenon DEF StatusShape
  <2> QED BY <1>3, <2>3
<1>8. ASSUME NEW o, Apply(o), NEW x, e.kind = "delta", PieceOf(e.answer, e.piece, x),
             DeltaShape(o, Grown(x), Shown(Grown(x).buffer))
      PROVE  Streamed(a, 0) \/ Streamed(a, 1)
  <2>1. CASE a = e.answer
    BY <1>1, <1>8, <2>1 DEF Streamed
  <2>2. CASE a # e.answer /\ ~Carries(a, Entry)
    <3> DEFINE s == Grown(x)
               p == Shown(s.buffer)
    <3>1. x \in AllPieces
      BY <1>8, PiecesDiffer
    <3>2. s \in StreamState /\ p \in Text
      BY <1>1, <3>1, GrownEntry
    <3>3. ~Carries(a, s) /\ ~HasPiece(a, p)
      BY <1>1, <1>8, <2>2, GrownCarries
    <3>4. DeltaShape(o, s, p)
      BY <1>8
    <3> HIDE DEF s, p
    <3>5. ~Carries(a, o.stream)
      BY <1>1, <3>2, <3>3, <3>4, ShapesCarry, Zenon DEF DeltaShape
    <3> QED BY <1>2, <1>8, <3>5, Zenon DEF Apply, After
  <2> QED BY <1>3, <2>1, <2>2
<1>9. ASSUME NEW o, Apply(o), o.stream = None PROVE FALSE
  BY <1>4, <1>9 DEF Apply
<1>10. e.piece \in 1 .. retries => e.piece \in 1 .. MaxRetries
  BY <1>1
<1>11. \A x : x \in {Piece(e.answer, e.piece)} /\ e.piece \in Parts(e.answer) => PieceOf(e.answer, e.piece, x)
  BY <1>1 DEF PieceOf
<1>12. \A k : k \in {"started", "message", "error"} => k \notin {"status", "delta", "finished"}
  OBVIOUS
<1>13. "started" \notin {"status", "delta", "finished"} /\ "status" \notin {"started", "message", "error"}
       /\ "delta" \notin {"started", "message", "error"} /\ "finished" \notin {"started", "message", "error"}
  OBVIOUS
<1> QED BY <1>4, <1>5, <1>6, <1>7, <1>8, <1>9, <1>10, <1>11, <1>13, HandledOutcome, Zenon

\* What the bridge does to the events and the turns.
LEMMA DeliverEvents ==
  ASSUME TypeInv, Deliver, NEW a \in Answers
  PROVE  /\ Len(queue) \in Nat /\ DOMAIN queue = 1 .. Len(queue) /\ 1 \in DOMAIN queue /\ queue[1].answer \in Answers
         /\ \A i \in DOMAIN queue' : i \in Nat /\ 0 < i /\ i + 1 \in DOMAIN queue /\ queue'[i] = queue[i + 1]
         /\ \A m \in DOMAIN queue : 1 < m => m - 1 \in DOMAIN queue' /\ queue'[m - 1] = queue[m]
         /\ Len(queue') \in Nat /\ DOMAIN queue' = 1 .. Len(queue') /\ 0 \notin DOMAIN queue'
         /\ (Coming(a)' <=> Coming(a)) /\ (Past(a)' <=> Past(a))
         /\ \A m \in DOMAIN queue' : MessageAt(a, m)' <=> MessageAt(a, m + 1)
         /\ \A i \in DOMAIN queue' : Streamed(a, i)' => Streamed(a, i + 1)
<1>1. Shifted /\ turn' = turn /\ round' = round
  BY DeliverShifts DEF TypeInv, Deliver, turnVars
<1>2. /\ Len(queue) \in Nat /\ DOMAIN queue = 1 .. Len(queue) /\ 1 \in DOMAIN queue /\ queue[1].answer \in Answers
      /\ \A i \in DOMAIN queue' : i \in Nat /\ 0 < i /\ i + 1 \in DOMAIN queue /\ queue'[i] = queue[i + 1]
  BY <1>1, EventParts DEF Shifted
<1>3. \A m \in DOMAIN queue : 1 < m => m - 1 \in DOMAIN queue' /\ queue'[m - 1] = queue[m]
  BY <1>1 DEF Shifted
<1>4. Len(queue') \in Nat /\ DOMAIN queue' = 1 .. Len(queue') /\ 0 \notin DOMAIN queue'
  BY <1>1 DEF Shifted
<1>5. (Coming(a)' <=> Coming(a)) /\ (Past(a)' <=> Past(a))
  BY <1>1 DEF Coming, Past
<1>6. \A m \in DOMAIN queue' : MessageAt(a, m)' <=> MessageAt(a, m + 1)
  BY <1>2 DEF MessageAt
<1>7. \A i \in DOMAIN queue' : Streamed(a, i)' => Streamed(a, i + 1)
  <2> SUFFICES ASSUME NEW i \in DOMAIN queue', Streamed(a, i)' PROVE Streamed(a, i + 1)
    OBVIOUS
  <2>1. i # 0 /\ i + 1 \in DOMAIN queue /\ queue'[i] = queue[i + 1]
    BY <1>2
  <2> QED BY <2>1 DEF Streamed
<1> QED BY <1>2, <1>3, <1>4, <1>5, <1>6, <1>7

\* An answer that becomes given has its message first in the queue, and the stream ends.
LEMMA DeliverGives ==
  ASSUME TypeInv, Deliver, NEW a, a \in given', a \notin given
  PROVE  MessageAt(a, 1) /\ stream' = None
<1>1. PICK o : Apply(o) /\ o.stream = None /\ Noted(o, queue[1].answer) /\ queue[1].kind = "message"
  BY DeliverNotes
<1>2. a = queue[1].answer /\ stream' = None
  BY <1>1 DEF Noted, Apply
<1>3. 1 \in DOMAIN queue
  BY DeliverShifts DEF TypeInv, Shifted
<1> QED BY <1>1, <1>2, <1>3 DEF MessageAt

LEMMA DeliverKeepsAnswers == ASSUME TypeInv, ShownInv, AnswersInv, Deliver PROVE AnswersInv'
<1> SUFFICES ASSUME NEW a \in Answers PROVE ComingInv(a)' /\ ToldInv(a)' /\ StreamedInv(a)'
  BY DEF AnswersInv
<1>1. ComingInv(a) /\ ToldInv(a) /\ StreamedInv(a)
  BY DEF AnswersInv
<1>2. /\ Len(queue) \in Nat /\ DOMAIN queue = 1 .. Len(queue) /\ 1 \in DOMAIN queue
      /\ \A i \in DOMAIN queue' : i \in Nat /\ 0 < i /\ i + 1 \in DOMAIN queue /\ queue'[i] = queue[i + 1]
      /\ (Coming(a)' <=> Coming(a)) /\ (Past(a)' <=> Past(a))
      /\ \A m \in DOMAIN queue' : MessageAt(a, m)' <=> MessageAt(a, m + 1)
      /\ \A i \in DOMAIN queue' : Streamed(a, i)' => Streamed(a, i + 1)
      /\ Len(queue') \in Nat /\ DOMAIN queue' = 1 .. Len(queue')
  BY DeliverEvents
<1>3. a \in given' /\ a \notin given => MessageAt(a, 1) /\ stream' = None
  BY DeliverGives
<1>4. ComingInv(a)'
  BY <1>1, <1>2, <1>3 DEF ComingInv
<1>5. ToldInv(a)'
  <2> SUFFICES ASSUME NEW m \in DOMAIN queue', MessageAt(a, m)'
               PROVE  /\ a \notin given'
                      /\ \A i \in DOMAIN queue' : m < i /\ queue'[i].answer = a => queue'[i].kind \notin {"delta", "message"}
    BY DEF ToldInv
  <2>1. MessageAt(a, m + 1) /\ m + 1 \in DOMAIN queue /\ 1 < m + 1
    BY <1>2
  <2>2. a \notin given
    BY <1>1, <2>1 DEF ToldInv
  <2>3. a \notin given'
    <3> SUFFICES ASSUME MessageAt(a, 1) PROVE FALSE
      BY <1>3, <2>2
    <3>1. queue[m + 1].answer = a /\ queue[m + 1].kind = "message"
      BY <2>1 DEF MessageAt
    <3> QED BY <1>1, <1>2, <2>1, <3>1 DEF ToldInv
  <2>4. ASSUME NEW i \in DOMAIN queue', m < i, queue'[i].answer = a PROVE queue'[i].kind \notin {"delta", "message"}
    <3>1. i + 1 \in DOMAIN queue /\ m + 1 < i + 1 /\ queue'[i] = queue[i + 1]
      BY <1>2, <2>4
    <3> QED BY <1>1, <2>1, <2>4, <3>1 DEF ToldInv
  <2> QED BY <2>3, <2>4
<1>6. StreamedInv(a)'
  <2> SUFFICES ASSUME NEW i \in 0 .. Len(queue'), Streamed(a, i)' PROVE a \notin given' /\ Past(a)'
    BY DEF StreamedInv
  <2>1. 0 \in 0 .. Len(queue) /\ 1 \in 0 .. Len(queue)
    BY <1>2
  <2>2. CASE i = 0
    <3>1. Streamed(a, 0) \/ Streamed(a, 1)
      BY <2>2, StreamedAfter
    <3>2. a \notin given /\ Past(a)
      BY <1>1, <2>1, <3>1 DEF StreamedInv
    <3>3. stream' # None
      BY <1>2, <2>2 DEF Streamed
    <3> QED BY <1>2, <1>3, <3>2, <3>3
  <2>3. CASE i # 0
    <3>1. i \in DOMAIN queue' /\ i + 1 \in DOMAIN queue /\ 1 < i + 1 /\ i + 1 \in 0 .. Len(queue)
      BY <1>2, <2>3
    <3>2. Streamed(a, i + 1) /\ i + 1 # 0
      BY <1>2, <3>1
    <3>3. a \notin given /\ Past(a)
      BY <1>1, <3>1, <3>2 DEF StreamedInv
    <3>4. ~MessageAt(a, 1)
      <4>1. queue[i + 1].answer = a /\ queue[i + 1].kind = "delta"
        BY <3>2 DEF Streamed
      <4> QED BY <1>1, <1>2, <3>1, <4>1 DEF ToldInv
    <3> QED BY <1>2, <1>3, <3>3, <3>4
  <2> QED BY <2>2, <2>3
<1> QED BY <1>4, <1>5, <1>6

LEMMA AnswersInvariant == Spec => []AnswersInv
<1>1. Init => AnswersInv
  <2> SUFFICES ASSUME Init, NEW a \in Answers PROVE ComingInv(a) /\ ToldInv(a) /\ StreamedInv(a)
    BY DEF AnswersInv
  <2>1. Len(queue) = 0 /\ DOMAIN queue = {} /\ stream = None /\ given = {}
    BY DEF Init
  <2> QED BY <2>1 DEF ComingInv, ToldInv, StreamedInv, Streamed
<1>2. TypeInv /\ ShownInv /\ AnswersInv /\ [Next]_vars => AnswersInv'
  <2> SUFFICES ASSUME TypeInv, ShownInv, AnswersInv, [Next]_vars PROVE AnswersInv'
    OBVIOUS
  <2>1. ASSUME NEW t \in Turns, TurnStep(t) PROVE AnswersInv'
    BY <2>1, TurnKeepsAnswers
  <2>2. ASSUME UNCHANGED <<turn, round, queue, given>>, stream' = stream \/ stream' = None PROVE AnswersInv'
    <3> SUFFICES ASSUME NEW a \in Answers PROVE ComingInv(a)' /\ ToldInv(a)' /\ StreamedInv(a)'
      BY DEF AnswersInv
    <3>1. ComingInv(a) /\ ToldInv(a) /\ StreamedInv(a)
      BY DEF AnswersInv
    <3>2. /\ Coming(a)' <=> Coming(a)
          /\ Past(a)' <=> Past(a)
          /\ \A m : MessageAt(a, m)' <=> MessageAt(a, m)
      BY <2>2 DEF Coming, Past, MessageAt
    <3>3. \A i : Streamed(a, i)' => Streamed(a, i)
      <4>1. (stream # None /\ Carries(a, stream))' => stream # None /\ Carries(a, stream)
        BY <2>2 DEF Carries, HasPiece, Has
      <4> QED BY <2>2, <4>1 DEF Streamed
    <3> QED BY <2>2, <3>1, <3>2, <3>3 DEF ComingInv, ToldInv, StreamedInv
  <2>3. CASE NewBegins \/ NewMoves
    BY <2>2, <2>3 DEF NewBegins, NewMoves, turnVars, viewVars
  <2>4. CASE UNCHANGED vars
    BY <2>2, <2>4 DEF vars, turnVars, viewVars
  <2> QED BY <2>1, <2>3, <2>4, DeliverKeepsAnswers DEF Next, TurnStep
<1> QED BY <1>1, <1>2, TypesInvariant, ShownInvariant, PTL DEF Spec

-----------------------------------------------------------------------------
(* A stream is not closed before its answer *)

Drops == {"started", "message", "error"}

\* No event closes the stream of an answer before the answer does.
Safe(a, i, j) == \E m \in DOMAIN queue : i < m /\ m <= j /\ MessageAt(a, m)
DropsInv ==
  Undisturbed =>
    \A a \in Answers : ToCome(a) =>
      \A i \in 0 .. Len(queue) : Streamed(a, i) =>
        \A j \in DOMAIN queue : i < j /\ queue[j].kind \in Drops => Safe(a, i, j)

\* A turn closes the stream only when it stops streaming.
LEMMA TurnShuts ==
  ASSUME TypeInv, OneActive, NEW t \in Turns, TurnStep(t), NEW k \in Drops, Adds(k),
         NEW s \in Turns, turn[s] = "stream", turn'[s] = "stream"
  PROVE  turn'[t] = "reviewed"
<1>1. turn \in [Turns -> {"new", "request", "stream", "tools", "waiting", "ended", "closed", "over", "reviewed"}]
      /\ Len(queue) \in Nat /\ Len(queue) # Len(queue) + 1
  BY TypeSplit, TurnQueue DEF TurnTypes
<1>2. k # "started"
  BY TurnAdds DEF Live
<1>3. ASSUME NEW l, NEW p, Published(Event(t, l, p)) PROVE k = l
  BY <1>3, EventFields DEF Published, Adds
<1>4. queue' # queue
  BY <1>1 DEF Adds
<1>5. TurnAnswers(t) \/ TurnFails(t) \/ ReviewFails(t)
  BY <1>2, <1>3, <1>4, TurnPublishes DEF TurnStep, TurnGoesOn, TurnAsks, TurnHears, TurnCloses, Drops
<1>6. CASE TurnAnswers(t)
  <2>1. turn[t] = "stream" /\ turn'[t] \in {"ended", "tools"}
    BY <1>1, <1>6 DEF TurnAnswers, Enter
  <2> QED BY <2>1, Alone DEF Working, Done
<1>7. CASE TurnFails(t)
  <2>1. turn[t] \in {"request", "stream", "tools"} /\ turn'[t] = "ended"
    BY <1>1, <1>7 DEF TurnFails, Enter
  <2> QED BY <2>1, Alone DEF Working, Done
<1>8. CASE ReviewFails(t)
  BY <1>1, <1>8 DEF ReviewFails, Enter
<1> QED BY <1>5, <1>6, <1>7, <1>8

\* While the answer of a round that streams is to come, the turn streams.
LEMMA ComingStreams ==
  ASSUME TypeInv, NEW a \in Answers, Coming(a), Past(a) PROVE a[1] \in Turns /\ turn[a[1]] = "stream"
<1>1. a[1] \in Turns /\ a[2] \in Nat /\ round[a[1]] \in Nat
  BY AnswerParts, TypeSplit, ConstantsAreSound DEF TurnTypes
<1> QED BY <1>1 DEF Coming, Past

LEMMA TurnKeepsDrops ==
  ASSUME TypeInv, OneActive, AnswersInv, DropsInv, NEW t \in Turns, TurnStep(t) PROVE DropsInv'
<1> DEFINE L == Len(queue)
<1> SUFFICES ASSUME Undisturbed', NEW a \in Answers, ToCome(a)',
                    NEW i \in 0 .. Len(queue'), Streamed(a, i)',
                    NEW j \in DOMAIN queue', i < j, queue'[j].kind \in Drops
             PROVE  Safe(a, i, j)'
  BY DEF DropsInv
<1>1. /\ Undisturbed /\ ComingInv(a) /\ ToldInv(a) /\ StreamedInv(a)
      /\ stream' = stream /\ turn'[t] # "reviewed"
  BY UndisturbedBefore, TurnLeaves DEF AnswersInv, viewVars, Undisturbed
<1>2. /\ L \in Nat /\ DOMAIN queue = 1 .. L
      /\ \A m \in DOMAIN queue : m \in DOMAIN queue' /\ queue'[m] = queue[m]
      /\ Len(queue') \in Nat /\ Len(queue') <= L + 1 /\ DOMAIN queue' = 1 .. Len(queue')
      /\ \A m \in DOMAIN queue' :
              \/ m \in DOMAIN queue /\ queue'[m] = queue[m]
              \/ m = L + 1 /\ Tells(queue'[m].kind, queue'[m].answer)
  BY TurnEvents
<1>3. /\ Coming(a)' => Coming(a)
      /\ Past(a) => Past(a)'
      /\ Tells("message", a) => Coming(a) /\ ~Coming(a)'
  BY TurnTalks
<1>4. \A m \in DOMAIN queue' : MessageAt(a, m)' => MessageAt(a, m) \/ (m = L + 1 /\ Tells("message", a))
  BY <1>2 DEF MessageAt
<1>5. ASSUME NEW m \in DOMAIN queue, MessageAt(a, m) PROVE MessageAt(a, m)'
  BY <1>2, <1>5 DEF MessageAt
<1>6. ToCome(a)
  BY <1>3, <1>4 DEF ToCome, MessageAt
<1>7. i \in 0 .. L /\ Streamed(a, i)
  <2>1. i \in 0 .. L
    BY <1>2
  <2>2. CASE i = 0
    <3>1. (stream # None /\ Carries(a, stream))' => stream # None /\ Carries(a, stream)
      BY <1>1 DEF Carries, HasPiece, Has
    <3>2. 0 \notin DOMAIN queue'
      BY <1>2
    <3> QED BY <2>1, <2>2, <3>1, <3>2 DEF Streamed
  <2>3. CASE i # 0
    <3>1. i \in DOMAIN queue /\ queue'[i] = queue[i]
      BY <1>2, <2>1, <2>3
    <3> QED BY <2>1, <2>3, <3>1 DEF Streamed
  <2> QED BY <2>2, <2>3
<1>8. CASE j \in DOMAIN queue /\ queue'[j] = queue[j]
  <2>1. Safe(a, i, j)
    BY <1>1, <1>6, <1>7, <1>8 DEF DropsInv
  <2> QED BY <1>2, <1>5, <2>1 DEF Safe
<1>9. CASE j = L + 1 /\ Tells(queue'[j].kind, queue'[j].answer)
  <2>1. CASE \E m \in DOMAIN queue : MessageAt(a, m)
    <3>1. PICK m \in DOMAIN queue : MessageAt(a, m)
      BY <2>1
    <3>2. i < m
      <4>1. i # 0 => i \in DOMAIN queue /\ queue[i].kind = "delta" /\ queue[i].answer = a
        BY <1>7 DEF Streamed
      <4>2. queue[m].kind = "message" /\ m \in 1 .. L
        BY <1>2, <3>1 DEF MessageAt
      <4>3. ~(m < i)
        BY <1>1, <1>7, <3>1, <4>1, <4>2 DEF ToldInv
      <4> QED BY <1>2, <1>7, <4>1, <4>2, <4>3
    <3>3. m <= j /\ m \in DOMAIN queue'
      BY <1>2, <1>9
    <3> QED BY <1>5, <3>1, <3>2, <3>3 DEF Safe
  <2>2. CASE Tells("message", a)
    <3>1. queue'[j].kind = "message" /\ queue'[j].answer = a
      BY <1>9, <2>2 DEF Tells, Adds
    <3>2. MessageAt(a, j)' /\ i < j /\ j <= j
      BY <1>2, <3>1 DEF MessageAt
    <3> QED BY <3>2 DEF Safe
  <2>3. CASE Coming(a)'
    <3>1. Coming(a) /\ Past(a) /\ Past(a)'
      BY <1>1, <1>3, <1>7, <2>3 DEF StreamedInv
    <3>2. a[1] \in Turns /\ turn[a[1]] = "stream"
      BY <3>1, ComingStreams
    <3>3. turn'[a[1]] = "stream"
      <4>1. a[1] \in Turns /\ a[2] \in Nat /\ MaxRounds \in Nat
        BY AnswerParts, ConstantsAreSound
      <4>2. a[1] \in Turns /\ a[2] \in Nat /\ round'[a[1]] \in Nat
        <5>1. round' \in [Turns -> 1 .. MaxRounds + 1]
          BY TypeSplit, TurnKeepsTypes DEF TurnTypes
        <5> QED BY <4>1, <5>1
      <4> QED BY <2>3, <3>1, <4>2 DEF Coming, Past
    <3>4. Adds(queue'[j].kind)
      BY <1>9 DEF Tells
    <3> QED BY <1>1, <3>2, <3>3, <3>4, TurnShuts
  <2>4. Coming(a)' \/ (\E m \in DOMAIN queue : MessageAt(a, m)) \/ Tells("message", a)
    BY <1>4 DEF ToCome, MessageAt
  <2> QED BY <2>1, <2>2, <2>3, <2>4
<1> QED BY <1>2, <1>8, <1>9

\* What is still to come after a step of the bridge was to come before, and its message
\* was not the one that is delivered.
LEMMA DeliverComes ==
  ASSUME TypeInv, AnswersInv, Deliver, NEW a \in Answers, ToCome(a)'
  PROVE  ToCome(a) /\ ~MessageAt(a, 1)
<1>1. /\ (Coming(a)' <=> Coming(a))
      /\ \A m \in DOMAIN queue' : m + 1 \in DOMAIN queue /\ 1 < m + 1 /\ (MessageAt(a, m)' <=> MessageAt(a, m + 1))
      /\ 1 \in DOMAIN queue
  BY DeliverEvents
<1>2. ComingInv(a) /\ ToldInv(a)
  BY DEF AnswersInv
<1>3. CASE Coming(a)'
  BY <1>1, <1>2, <1>3 DEF ToCome, ComingInv
<1>4. CASE \E m \in DOMAIN queue' : MessageAt(a, m)'
  <2>1. PICK m \in DOMAIN queue' : MessageAt(a, m)'
    BY <1>4
  <2>2. m + 1 \in DOMAIN queue /\ 1 < m + 1 /\ MessageAt(a, m + 1)
    BY <1>1, <2>1
  <2>3. queue[m + 1].kind = "message" /\ queue[m + 1].answer = a
    BY <2>2 DEF MessageAt
  <2> QED BY <1>1, <1>2, <2>2, <2>3 DEF ToCome, ToldInv
<1> QED BY <1>3, <1>4 DEF ToCome

LEMMA DeliverKeepsDrops ==
  ASSUME TypeInv, TypingInv, ShownInv, AnswersInv, DropsInv, Deliver PROVE DropsInv'
<1> SUFFICES ASSUME Undisturbed', NEW a \in Answers, ToCome(a)',
                    NEW i \in 0 .. Len(queue'), Streamed(a, i)',
                    NEW j \in DOMAIN queue', i < j, queue'[j].kind \in Drops
             PROVE  Safe(a, i, j)'
  BY DEF DropsInv
<1>1. Undisturbed /\ mapped
  <2>1. turn' = turn /\ command' = command
    BY DEF Deliver, turnVars
  <2> QED BY <2>1 DEF Undisturbed, TypingInv
<1>2. /\ Len(queue) \in Nat /\ DOMAIN queue = 1 .. Len(queue) /\ 1 \in DOMAIN queue
      /\ \A m \in DOMAIN queue' : m \in Nat /\ 0 < m /\ m + 1 \in DOMAIN queue /\ queue'[m] = queue[m + 1]
      /\ \A m \in DOMAIN queue : 1 < m => m - 1 \in DOMAIN queue' /\ queue'[m - 1] = queue[m]
      /\ Len(queue') \in Nat /\ DOMAIN queue' = 1 .. Len(queue') /\ 0 \notin DOMAIN queue'
      /\ \A m \in DOMAIN queue' : Streamed(a, m)' => Streamed(a, m + 1)
  BY DeliverEvents
<1>3. ToCome(a) /\ ~MessageAt(a, 1)
  BY DeliverComes
<1>4. i \in Nat /\ j \in Nat /\ j + 1 \in DOMAIN queue /\ queue[j + 1].kind \in Drops
  BY <1>2
<1>5. ASSUME NEW h \in {0, i + 1}, h \in 0 .. Len(queue), h < j + 1, Streamed(a, h), i = 0 \/ h = i + 1
      PROVE  Safe(a, i, j)'
  <2>1. Safe(a, h, j + 1)
    BY <1>1, <1>3, <1>4, <1>5 DEF DropsInv
  <2>2. PICK m \in DOMAIN queue : h < m /\ m <= j + 1 /\ MessageAt(a, m)
    BY <2>1 DEF Safe
  <2>3. m \in Nat /\ 1 < m /\ i < m - 1 /\ m - 1 <= j
    <3>1. m \in 1 .. Len(queue) /\ m # 1
      BY <1>2, <1>3, <2>2
    <3> QED BY <1>2, <1>4, <1>5, <2>2, <3>1
  <2>4. m - 1 \in DOMAIN queue' /\ queue'[m - 1] = queue[m]
    BY <1>2, <2>3
  <2>5. MessageAt(a, m - 1)'
    BY <2>2, <2>4 DEF MessageAt
  <2> QED BY <2>3, <2>4, <2>5 DEF Safe
<1>6. CASE i = 0
  <2>1. Streamed(a, 0) \/ Streamed(a, 1)
    BY <1>6, StreamedAfter
  <2>2. 0 \in 0 .. Len(queue) /\ 1 \in 0 .. Len(queue) /\ 0 < j + 1 /\ 1 < j + 1 /\ 0 + 1 = 1
    BY <1>2, <1>4, <1>6
  <2> QED BY <1>5, <1>6, <2>1, <2>2
<1>7. CASE i # 0
  <2>1. i \in DOMAIN queue' /\ i + 1 \in 0 .. Len(queue) /\ i + 1 < j + 1
    BY <1>2, <1>4, <1>7
  <2> QED BY <1>2, <1>5, <2>1
<1> QED BY <1>6, <1>7

LEMMA DropsInvariant == Spec => []DropsInv
<1>1. Init => DropsInv
  <2> SUFFICES ASSUME Init PROVE DOMAIN queue = {}
    BY DEF DropsInv
  <2> QED BY DEF Init
<1>2. TypeInv /\ TypingInv /\ Ordered /\ ShownInv /\ AnswersInv /\ DropsInv /\ [Next]_vars => DropsInv'
  <2> SUFFICES ASSUME TypeInv, TypingInv, Ordered, ShownInv, AnswersInv, DropsInv, [Next]_vars PROVE DropsInv'
    OBVIOUS
  <2>1. ASSUME NEW t \in Turns, TurnStep(t) PROVE DropsInv'
    BY <2>1, TurnKeepsDrops DEF Ordered
  <2>2. CASE NewBegins \/ NewMoves
    <3>1. ~Undisturbed'
      BY <2>2 DEF NewBegins, NewMoves, Undisturbed
    <3> QED BY <3>1 DEF DropsInv
  <2>3. CASE Deliver
    BY <2>3, DeliverKeepsDrops
  <2>4. CASE UNCHANGED vars
    <3>1. UNCHANGED <<turn, round, queue, stream, command>>
      BY <2>4 DEF vars, turnVars, routeVars, viewVars
    <3>2. ASSUME NEW a \in Answers
          PROVE  /\ (ToCome(a)' <=> ToCome(a))
                 /\ \A i : Streamed(a, i)' <=> Streamed(a, i)
                 /\ \A i, j : Safe(a, i, j)' <=> Safe(a, i, j)
      <4>1. /\ Coming(a)' <=> Coming(a)
            /\ \A m : MessageAt(a, m)' <=> MessageAt(a, m)
        BY <3>1 DEF Coming, MessageAt
      <4>2. (stream # None /\ Carries(a, stream))' <=> stream # None /\ Carries(a, stream)
        BY <3>1 DEF Carries, HasPiece, Has
      <4> QED BY <3>1, <4>1, <4>2 DEF ToCome, Streamed, Safe
    <3>3. Undisturbed' <=> Undisturbed
      BY <3>1 DEF Undisturbed
    <3> QED BY <3>1, <3>2, <3>3 DEF DropsInv
  <2> QED BY <2>1, <2>2, <2>3, <2>4 DEF Next, TurnStep
<1> QED BY <1>1, <1>2, TypesInvariant, TypingInvariant, OrderInvariant, ShownInvariant, AnswersInvariant, PTL DEF Spec

-----------------------------------------------------------------------------
(* Where the pieces of an answer are *)

\* Outcomes that leave the places of a piece alone, when neither the message of the
\* stream nor the new text has it.
LEMMA TextsLeave ==
  ASSUME NEW h, Found(h), NEW x \in AllPieces, h \notin Places(x, chat), NEW p \in Text, ~Has(p, x)
  PROVE  /\ Places(x, Append(chat, p)) = Places(x, chat)
         /\ h # 0 => Places(x, Edited(h, p)) = Places(x, chat) /\ Edited(h, p) \in Texts
<1>1. DeliveryTypeOK /\ chat \in Texts /\ h \in Nat /\ h <= Len(chat)
  BY DEF Found
<1>2. h # 0 => Places(x, Edited(h, p)) = Places(x, chat) \ {h} /\ Edited(h, p) \in Texts
  BY <1>1, PlacesEdited, EditedChat
<1> QED BY <1>1, <1>2, PlacesAppended

LEMMA ShapesLeave ==
  ASSUME NEW h, Found(h), NEW x \in AllPieces, h \notin Places(x, chat), NEW p \in Text, ~Has(p, x),
         NEW s \in StreamState, s.handle = h, NEW o
  PROVE  /\ Kept(o, s, p) => Places(x, o.chat) = Places(x, chat)
         /\ Begun(o, s, p) => Places(x, o.chat) = Places(x, chat)
         /\ Redone(o, s, p) => Places(x, o.chat) = Places(x, chat)
         /\ GivenUp(o, s) => Places(x, o.chat) = Places(x, chat)
  BY TextsLeave, Zenon DEF Kept, Begun, Redone, GivenUp

LEMMA FinishLeaves ==
  ASSUME NEW h, Found(h), NEW x \in AllPieces, h \notin Places(x, chat), NEW text \in Text, ~Has(text, x),
         NEW o, FinishShape(o, text)
  PROVE  Places(x, o.chat) = Places(x, chat)
<1>1. chat \in Texts
  BY DEF Found
<1>2. CASE stream = None \/ stream.handle = 0
  <2>1. IsSend(o, chat, text, None, 0, {})
    BY <1>2, Zenon DEF FinishShape
  <2>2. 0 \in Nat
    OBVIOUS
  <2> QED BY <1>1, <2>1, <2>2, SendPlaces
<1>3. CASE stream # None /\ stream.handle # 0
  <2>1. h # 0 /\ stream.handle = h /\ stream.sent \in Text
    <3>1. h # 0 /\ stream.handle = h /\ stream \in StreamState
      BY <1>3 DEF Found, HandleOf
    <3> QED BY <3>1 DEF StreamState, Text
  <2>2. ~Has(Shown(text), x) /\ ~Has(Rest(text), x) /\ ~Has(Fallback(text, stream.sent), x)
    BY <2>1, OnlyItsOwn
  <2>3. Shown(text) \in Text /\ Rest(text) \in Text /\ Fallback(text, stream.sent) \in Text
    BY <2>1, ShownIsText, FallbackIsText
  <2>4. CASE \E cost \in {0, 1} : IsSend(o, chat, Fallback(text, stream.sent), None, cost, Detour(text))
    <3>1. 0 \in Nat /\ 1 \in Nat
      OBVIOUS
    <3> QED BY <1>1, <2>2, <2>3, <2>4, <3>1, SendPlaces
  <2>5. CASE IsSend(o, Edited(stream.handle, Shown(text)), Rest(text), None, 0, {})
    <3>1. IsSend(o, Edited(h, Shown(text)), Rest(text), None, 0, {}) /\ 0 \in Nat
      BY <2>1, <2>5, Zenon
    <3>2. Places(x, Edited(h, Shown(text))) = Places(x, chat) /\ Edited(h, Shown(text)) \in Texts
      BY <2>1, <2>2, <2>3, TextsLeave
    <3> QED BY <2>2, <2>3, <3>1, <3>2, SendPlaces
  <2> QED BY <1>3, <2>4, <2>5, Zenon DEF FinishShape
<1> QED BY <1>2, <1>3

\* Outcomes that have a piece in the message of the stream only, when it was only there.
Within(x, o) == Places(x, o.chat) \subseteq {HandleOf(o.stream)}
LEMMA ShapesWithin ==
  ASSUME NEW h, Found(h), NEW x \in AllPieces, Places(x, chat) \subseteq {h}, NEW p \in Text,
         NEW s \in StreamState, s.handle = h, NEW o
  PROVE  /\ ~Has(p, x) /\ Kept(o, s, p) => Within(x, o)
         /\ Begun(o, s, p) => Within(x, o)
         /\ Redone(o, s, p) => Within(x, o)
         /\ GivenUp(o, s) => Within(x, o)
         /\ o.chat = chat /\ o.stream = s => Within(x, o)
<1>1. DeliveryTypeOK /\ chat \in Texts /\ Len(chat) \in Nat /\ h \in Nat /\ h <= Len(chat)
  BY DEF Found
<1>2. HandleOf(s) = h /\ HandleOf(Stopped(s)) = h
  BY StoppedFields, StreamIsSome
<1>3. HandleOf(Started(s, p)) = Len(chat) + 1 /\ HandleOf(Updated(s, p)) = h
  <2>1. Started(s, p) \in StreamState /\ Started(s, p).handle = Len(chat) + 1
    BY <1>1, StartFields
  <2>2. Updated(s, p) \in StreamState /\ Updated(s, p).handle = h
    BY UpdateFields
  <2> QED BY <2>1, <2>2, StreamIsSome
<1>4. ~Has(p, x) => Places(x, Append(chat, p)) \subseteq {h}
  BY <1>1, PlacesAppended
<1>5. h = 0 => Places(x, Append(chat, p)) \subseteq {Len(chat) + 1}
  <2>1. h = 0 => Places(x, chat) = {}
    BY <1>1, PlacesAppended
  <2> QED BY <1>1, <2>1, PlacesAppended
<1>6. h # 0 => Places(x, Edited(h, p)) \subseteq {h}
  BY <1>1, PlacesEdited
<1> QED BY <1>2, <1>3, <1>4, <1>5, <1>6, Zenon DEF Kept, Begun, Redone, GivenUp, Within

\* The message of the stream has no piece of an answer that is not streamed.
LEMMA NotInStream ==
  ASSUME NEW h, Found(h), NEW a, NEW k, NEW x, PieceOf(a, k, x), ~Streamed(a, 0)
  PROVE  h \notin Places(x, chat)
<1>1. CASE h = 0
  BY <1>1, LenProperties DEF Found, Texts, Places
<1>2. CASE h # 0
  <2>1. stream # None /\ chat[h] = stream.sent
    BY <1>2 DEF Found
  <2>2. ~HasPiece(a, stream.sent)
    BY <2>1 DEF Streamed, Carries
  <2> QED BY <2>1, <2>2 DEF HasPiece, PieceOf, Places
<1> QED BY <1>1, <1>2

\* A step of the bridge that is not about an answer leaves its pieces where they are.
LEMMA DeliverLeaves ==
  ASSUME TypeInv, ShownInv, Deliver, NEW a, NEW k, NEW x, PieceOf(a, k, x),
         ~Streamed(a, 0), ~Streamed(a, 1), ~MessageAt(a, 1)
  PROVE  Places(x, chat') = Places(x, chat)
<1> DEFINE e == queue[1]
<1>1. /\ DeliveryTypeOK /\ e.answer \in Answers /\ MaxRetries \in Nat /\ retries \in 0 .. MaxRetries
      /\ 1 \in DOMAIN queue /\ a \in Answers /\ x \in AllPieces
  BY DeliverShifts, EventParts, ConstantsAreSound, PiecesDiffer DEF TypeInv, DeliveryTypeOK, Shifted, PieceOf
<1>2. PICK h : Found(h)
  BY <1>1, Finds
<1>3. h \notin Places(x, chat) /\ Entry \in StreamState /\ Entry.handle = h
  BY <1>2, NotInStream DEF Found
<1>4. e.kind = "delta" => e.answer # a
  BY <1>1 DEF Streamed
<1>5. e.kind = "message" => e.answer # a
  BY <1>1 DEF MessageAt
<1>6. ASSUME NEW o, Apply(o), Places(x, o.chat) = Places(x, chat) PROVE Places(x, chat') = Places(x, chat)
  BY <1>6, Zenon DEF Apply
<1>7. ASSUME chat' = chat PROVE Places(x, chat') = Places(x, chat)
  BY <1>7, Zenon
<1>8. ASSUME NEW o, PlaceholderShape(o) PROVE Places(x, o.chat) = Places(x, chat)
  <2>1. <<Thinking>> \in Text /\ ~Has(<<Thinking>>, x)
    BY <1>1, WordsAreSymbols, PiecesDiffer
  <2> QED BY <1>1, <1>2, <1>3, <1>8, <2>1, TextsLeave, Zenon DEF PlaceholderShape
<1>9. ASSUME NEW o, NEW j \in 1 .. MaxRetries, StatusShape(o, <<Attempt(j)>>)
      PROVE  Places(x, o.chat) = Places(x, chat)
  <2>1. <<Attempt(j)>> \in Text /\ ~Has(<<Attempt(j)>>, x)
    BY <1>1, WordsAreSymbols, PiecesDiffer
  <2> QED BY <1>1, <1>2, <1>3, <1>9, <2>1, ShapesLeave, Zenon DEF StatusShape
<1>10. ASSUME NEW o, NEW y, e.kind = "delta", PieceOf(e.answer, e.piece, y),
              DeltaShape(o, Grown(y), Shown(Grown(y).buffer))
       PROVE  Places(x, o.chat) = Places(x, chat)
  <2> DEFINE s == Grown(y)
             p == Shown(s.buffer)
  <2>1. ~Carries(a, Entry)
    <3>1. Fresh.buffer = <<>> /\ Fresh.sent = <<>>
      BY DEF Fresh
    <3>2. ~Carries(a, Fresh)
      BY <1>1, <3>1, NoPieces, Zenon DEF Carries
    <3> QED BY <3>2 DEF Streamed, Entry
  <2>2. y \in AllPieces
    BY <1>10, PiecesDiffer
  <2>3. s \in StreamState /\ s.handle = h /\ p \in Text
    BY <1>1, <1>3, <2>2, GrownEntry
  <2>4. ~HasPiece(a, p)
    BY <1>1, <1>4, <1>10, <2>1, GrownCarries
  <2>5. DeltaShape(o, s, p)
    BY <1>10
  <2> HIDE DEF s, p
  <2>6. ~Has(p, x)
    BY <2>4 DEF HasPiece, PieceOf
  <2> QED BY <1>1, <1>2, <1>3, <2>3, <2>5, <2>6, ShapesLeave, Zenon DEF DeltaShape
<1>11. ASSUME NEW o, FinishShape(o, <<Failed>>) PROVE Places(x, o.chat) = Places(x, chat)
  <2>1. <<Failed>> \in Text /\ ~Has(<<Failed>>, x)
    BY <1>1, WordsAreSymbols, PiecesDiffer
  <2> QED BY <1>1, <1>2, <1>3, <1>11, <2>1, FinishLeaves
<1>12. ASSUME NEW o, FinishShape(o, Answer(e.answer)), e.answer # a PROVE Places(x, o.chat) = Places(x, chat)
  <2>1. Answer(e.answer) \in Text /\ ~Has(Answer(e.answer), x)
    BY <1>1, <1>12, AnswersAreTexts, AnswerHas
  <2> QED BY <1>1, <1>2, <1>3, <1>12, <2>1, FinishLeaves
<1>13. e.piece \in 1 .. retries => e.piece \in 1 .. MaxRetries
  BY <1>1
<1>14. \A y : y \in {Piece(e.answer, e.piece)} /\ e.piece \in Parts(e.answer) => PieceOf(e.answer, e.piece, y)
  BY <1>1 DEF PieceOf
<1> QED BY <1>5, <1>6, <1>7, <1>8, <1>9, <1>10, <1>11, <1>12, <1>13, <1>14, HandledOutcome, Zenon
        DEF Unseen

\* The pieces of an answer that is to come are at most in the message of the stream.
PartsInv ==
  Undisturbed =>
    \A a \in Answers : ToCome(a) => \A k \in Parts(a) : Places(Piece(a, k), chat) \subseteq {HandleOf(stream)}

LEMMA TurnKeepsParts ==
  ASSUME TypeInv, PartsInv, NEW t \in Turns, TurnStep(t) PROVE PartsInv'
<1> SUFFICES ASSUME Undisturbed', NEW a \in Answers, ToCome(a)', NEW k \in Parts(a)
             PROVE  (Places(Piece(a, k), chat) \subseteq {HandleOf(stream)})'
  BY DEF PartsInv
<1>1. Undisturbed /\ chat' = chat /\ stream' = stream
  BY UndisturbedBefore, TurnLeaves DEF viewVars
<1>2. ToCome(a)
  <2>1. /\ Coming(a)' => Coming(a)
        /\ Tells("message", a) => Coming(a) /\ ~Coming(a)'
    BY TurnTalks
  <2>2. \A m \in DOMAIN queue' : MessageAt(a, m)' => MessageAt(a, m) \/ Tells("message", a)
    BY TurnEvents DEF MessageAt
  <2> QED BY <2>1, <2>2 DEF ToCome, MessageAt
<1>3. Places(Piece(a, k), chat) \subseteq {HandleOf(stream)}
  BY <1>1, <1>2 DEF PartsInv
<1> QED BY <1>1, <1>3 DEF Places, HandleOf

LEMMA DeliverKeepsParts ==
  ASSUME TypeInv, TypingInv, ShownInv, AnswersInv, DropsInv, PartsInv, Deliver PROVE PartsInv'
<1> DEFINE e == queue[1]
<1> SUFFICES ASSUME Undisturbed', NEW a \in Answers, ToCome(a)', NEW k \in Parts(a)
             PROVE  (Places(Piece(a, k), chat) \subseteq {HandleOf(stream)})'
  BY DEF PartsInv
<1> DEFINE x == Piece(a, k)
<1>1. /\ DeliveryTypeOK /\ e.answer \in Answers /\ MaxRetries \in Nat /\ retries \in 0 .. MaxRetries
      /\ 1 \in DOMAIN queue /\ PieceOf(a, k, x) /\ x \in AllPieces
  BY DeliverShifts, EventParts, ConstantsAreSound, PiecesDiffer DEF TypeInv, DeliveryTypeOK, Shifted, PieceOf
<1>2. ToCome(a) /\ ~MessageAt(a, 1)
  BY DeliverComes
<1>3. Undisturbed
  <2>1. turn' = turn /\ command' = command
    BY DEF Deliver, turnVars
  <2> QED BY <2>1 DEF Undisturbed
<1>4. PICK h : Found(h)
  BY <1>1, Finds
<1>5. Places(x, chat) \subseteq {h} /\ h = HandleOf(stream) /\ Entry \in StreamState /\ Entry.handle = h
  BY <1>2, <1>3, <1>4 DEF PartsInv, Found
<1> SUFFICES Places(x, chat') \subseteq {HandleOf(stream')}
  BY DEF Places, HandleOf
<1> HIDE DEF x
<1>6. CASE e.kind \in Drops
  <2>1. ~Streamed(a, 0)
    <3> SUFFICES ASSUME Streamed(a, 0) PROVE FALSE
      OBVIOUS
    <3>1. 0 \in 0 .. Len(queue) /\ DOMAIN queue = 1 .. Len(queue)
      BY DeliverEvents
    <3>2. Safe(a, 0, 1)
      BY <1>1, <1>2, <1>3, <1>6, <3>1 DEF DropsInv
    <3>3. PICK m \in DOMAIN queue : 0 < m /\ m <= 1 /\ MessageAt(a, m)
      BY <3>2 DEF Safe
    <3>4. m = 1
      BY <3>1, <3>3
    <3> QED BY <1>2, <3>3, <3>4
  <2>2. ~Streamed(a, 1)
    BY <1>6 DEF Streamed, Drops
  <2>3. Places(x, chat) = {}
    BY <1>1, <1>4, <1>5, <2>1, NotInStream
  <2>4. Places(x, chat') = Places(x, chat)
    BY <1>1, <1>2, <2>1, <2>2, DeliverLeaves
  <2> QED BY <2>3, <2>4
<1>7. CASE e.kind \notin Drops
  <2>1. ASSUME NEW o, Apply(o), Within(x, o) PROVE Places(x, chat') \subseteq {HandleOf(stream')}
    BY <2>1, Zenon DEF Apply, Within
  <2>2. ASSUME Unseen PROVE Places(x, chat') \subseteq {HandleOf(stream')}
    BY <1>5, <2>2, Zenon DEF Unseen
  <2>3. ASSUME NEW o, NEW j \in 1 .. MaxRetries, StatusShape(o, <<Attempt(j)>>) PROVE Within(x, o)
    <3>1. <<Attempt(j)>> \in Text /\ ~Has(<<Attempt(j)>>, x)
      BY <1>1, WordsAreSymbols, PiecesDiffer
    <3> QED BY <1>1, <1>4, <1>5, <2>3, <3>1, ShapesWithin, Zenon DEF StatusShape
  <2>4. ASSUME NEW o, NEW y, PieceOf(e.answer, e.piece, y), DeltaShape(o, Grown(y), Shown(Grown(y).buffer))
        PROVE  Within(x, o)
    <3> DEFINE s == Grown(y)
               p == Shown(s.buffer)
    <3>1. y \in AllPieces
      BY <2>4, PiecesDiffer
    <3>2. s \in StreamState /\ s.handle = h /\ p \in Text
      BY <1>1, <1>5, <3>1, GrownEntry
    <3>3. DeltaShape(o, s, p)
      BY <2>4
    <3> HIDE DEF s, p
    <3> QED BY <1>1, <1>4, <1>5, <3>2, <3>3, ShapesWithin, Zenon DEF DeltaShape
  <2>5. e.piece \in 1 .. retries => e.piece \in 1 .. MaxRetries
    BY <1>1
  <2>6. \A y : y \in {Piece(e.answer, e.piece)} /\ e.piece \in Parts(e.answer) => PieceOf(e.answer, e.piece, y)
    BY <1>1 DEF PieceOf
  <2>7. e.kind # "started" /\ e.kind # "error" /\ e.kind # "message"
    BY <1>7 DEF Drops
  <2> HIDE DEF e
  <2> QED BY <2>1, <2>2, <2>3, <2>4, <2>5, <2>6, <2>7, HandledOutcome, Zenon DEF e
<1> QED BY <1>6, <1>7

LEMMA PartsInvariant == Spec => []PartsInv
<1>1. Init => PartsInv
  <2> SUFFICES ASSUME Init PROVE DOMAIN chat = {}
    BY DEF PartsInv, Places
  <2> QED BY DEF Init
<1>2. TypeInv /\ TypingInv /\ ShownInv /\ AnswersInv /\ DropsInv /\ PartsInv /\ [Next]_vars => PartsInv'
  <2> SUFFICES ASSUME TypeInv, TypingInv, ShownInv, AnswersInv, DropsInv, PartsInv, [Next]_vars PROVE PartsInv'
    OBVIOUS
  <2>1. ASSUME NEW t \in Turns, TurnStep(t) PROVE PartsInv'
    BY <2>1, TurnKeepsParts
  <2>2. CASE NewBegins \/ NewMoves
    <3>1. ~Undisturbed'
      BY <2>2 DEF NewBegins, NewMoves, Undisturbed
    <3> QED BY <3>1 DEF PartsInv
  <2>3. CASE UNCHANGED vars
    <3>1. UNCHANGED <<turn, round, queue, chat, stream, command>>
      BY <2>3 DEF vars, turnVars, routeVars, viewVars
    <3>2. ASSUME NEW a \in Answers, ToCome(a)' PROVE ToCome(a)
      BY <3>1, <3>2 DEF ToCome, Coming, MessageAt
    <3>3. Undisturbed' <=> Undisturbed
      BY <3>1 DEF Undisturbed
    <3>4. ASSUME NEW x, Places(x, chat) \subseteq {HandleOf(stream)} PROVE (Places(x, chat) \subseteq {HandleOf(stream)})'
      BY <3>1, <3>4 DEF Places, HandleOf
    <3> SUFFICES ASSUME Undisturbed', NEW a \in Answers, ToCome(a)', NEW k \in Parts(a)
                 PROVE  (Places(Piece(a, k), chat) \subseteq {HandleOf(stream)})'
      BY DEF PartsInv
    <3>5. Places(Piece(a, k), chat) \subseteq {HandleOf(stream)}
      BY <3>2, <3>3 DEF PartsInv
    <3> QED BY <3>1, <3>5 DEF Places, HandleOf
  <2> QED BY <2>1, <2>2, <2>3, DeliverKeepsParts DEF Next, TurnStep
<1> QED BY <1>1, <1>2, TypesInvariant, TypingInvariant, ShownInvariant, AnswersInvariant, DropsInvariant, PTL
        DEF Spec

-----------------------------------------------------------------------------
(* The answers in the chat *)

\* An answer that was sent, and whose stream did not break down over another text, has
\* each of its pieces in one message.
OnceInv ==
  Undisturbed =>
    \A a \in given \ (unsent \cup astray) : \A k \in Parts(a) : OnePlace(Piece(a, k), chat)

LEMMA DeliverKeepsOnce ==
  ASSUME TypeInv, ShownInv, AnswersInv, PartsInv, OnceInv, Deliver PROVE OnceInv'
<1> DEFINE e == queue[1]
<1> SUFFICES ASSUME Undisturbed', NEW a \in given' \ (unsent' \cup astray'), NEW k \in Parts(a)
             PROVE  OnePlace(Piece(a, k), chat)'
  BY DEF OnceInv
<1> DEFINE x == Piece(a, k)
<1>1. DeliveryTypeOK /\ e.answer \in Answers /\ given \subseteq Answers /\ 1 \in DOMAIN queue /\ Len(queue) \in Nat
  BY DeliverShifts, EventParts DEF TypeInv, DeliveryTypeOK, Shifted
<1>2. Undisturbed
  <2>1. turn' = turn /\ command' = command
    BY DEF Deliver, turnVars
  <2> QED BY <2>1 DEF Undisturbed
<1>3. given' \subseteq given \cup {e.answer} /\ unsent \subseteq unsent' /\ astray \subseteq astray'
  BY DeliverNotes DEF Noted
<1>4. a \in Answers /\ PieceOf(a, k, x) /\ x \in AllPieces
  BY <1>1, <1>3, PiecesDiffer DEF PieceOf
<1>5. ToldInv(a) /\ StreamedInv(a)
  BY <1>4 DEF AnswersInv
<1> SUFFICES OnePlace(x, chat')
  BY DEF Places, OnePlace
<1> HIDE DEF x
<1>6. CASE a \in given
  <2>1. OnePlace(x, chat)
    BY <1>2, <1>3, <1>6 DEF OnceInv, x
  <2>2. 0 \in 0 .. Len(queue) /\ 1 \in 0 .. Len(queue)
    BY <1>4, DeliverEvents
  <2>3. ~Streamed(a, 0) /\ ~Streamed(a, 1) /\ ~MessageAt(a, 1)
    BY <1>1, <1>5, <1>6, <2>2 DEF ToldInv, StreamedInv
  <2> QED BY <1>4, <2>1, <2>3, DeliverLeaves DEF OnePlace
<1>7. CASE a \notin given
  <2>1. PICK o : /\ Apply(o) /\ o.stream = None /\ FinishShape(o, Answer(e.answer))
                 /\ Noted(o, e.answer)
    BY <1>7, DeliverNotes
  <2>2. a = e.answer /\ "unsent" \notin o.marks /\ "astray" \notin o.marks
    BY <1>3, <1>7, <2>1 DEF Noted
  <2>3. PICK h : Found(h)
    BY <1>1, Finds
  <2>4. ToCome(a)
    BY <1>1, <1>7, DeliverGives DEF ToCome
  <2>5. Places(x, chat) \subseteq {h}
    BY <1>2, <1>4, <2>3, <2>4 DEF PartsInv, Found, x
  <2>6. FinishShape(o, Answer(a))
    BY <2>1, <2>2, Zenon
  <2>7. OnePlace(x, o.chat)
    <3>1. /\ Found(h) /\ PieceOf(a, k, x) /\ o.stream = None /\ FinishShape(o, Answer(a))
          /\ "unsent" \notin o.marks /\ "astray" \notin o.marks
      BY <1>4, <2>1, <2>2, <2>3, <2>6, Zenon
    <3> QED BY <2>5, <3>1, FinishSays
  <2> QED BY <2>1, <2>7, Zenon DEF Apply
<1> QED BY <1>6, <1>7

LEMMA OnceInvariant == Spec => []OnceInv
<1>1. Init => OnceInv
  BY DEF Init, OnceInv
<1>2. TypeInv /\ ShownInv /\ AnswersInv /\ PartsInv /\ OnceInv /\ [Next]_vars => OnceInv'
  <2> SUFFICES ASSUME TypeInv, ShownInv, AnswersInv, PartsInv, OnceInv, [Next]_vars PROVE OnceInv'
    OBVIOUS
  <2>1. ASSUME UNCHANGED <<chat, given, unsent, astray>>, Undisturbed' => Undisturbed PROVE OnceInv'
    <3>1. \A x : Places(x, chat)' = Places(x, chat)
      BY <2>1 DEF Places
    <3> QED BY <2>1, <3>1 DEF OnceInv, OnePlace
  <2>2. ASSUME NEW t \in Turns, TurnStep(t) PROVE OnceInv'
    BY <2>1, <2>2, TurnLeaves, UndisturbedBefore DEF viewVars
  <2>3. CASE NewBegins \/ NewMoves
    <3>1. ~Undisturbed'
      BY <2>3 DEF NewBegins, NewMoves, Undisturbed
    <3> QED BY <3>1 DEF OnceInv
  <2>4. CASE UNCHANGED vars
    <3>1. UNCHANGED <<chat, given, unsent, astray>> /\ (Undisturbed' => Undisturbed)
      BY <2>4 DEF vars, turnVars, routeVars, viewVars, Undisturbed
    <3> QED BY <2>1, <3>1
  <2> QED BY <2>2, <2>3, <2>4, DeliverKeepsOnce DEF Next, TurnStep
<1> QED BY <1>1, <1>2, TypesInvariant, ShownInvariant, AnswersInvariant, PartsInvariant, PTL DEF Spec

\* How often a piece is shown is how many places it has.
LEMMA TimesCounts ==
  ASSUME DeliveryTypeOK, NEW a, NEW k
  PROVE  /\ Times(a, k) \in Nat
         /\ Places(Piece(a, k), chat) # {} => Times(a, k) >= 1
         /\ \A i : Places(Piece(a, k), chat) = {i} => Times(a, k) = 1
<1> DEFINE P == Places(Piece(a, k), chat)
<1>1. chat \in Seq(Text) /\ Len(chat) \in Nat /\ DOMAIN chat = 1 .. Len(chat)
  BY TypeParts, LenProperties DEF Texts
<1>2. \A i \in DOMAIN chat : chat[i] \in Text
  BY <1>1, ElementOfSeq
<1>3. P = {i \in DOMAIN chat : Piece(a, k) \in Range(chat[i])}
  BY <1>2, HasIsRange DEF Places
<1>4. Times(a, k) = Cardinality(P)
  BY <1>3 DEF Times
<1>5. IsFiniteSet(1 .. Len(chat)) /\ P \subseteq 1 .. Len(chat)
  BY <1>1, <1>3, FS_Interval
<1>6. IsFiniteSet(P)
  BY <1>5, FS_Subset
<1>7. Cardinality(P) \in Nat /\ (P # {} => Cardinality(P) # 0)
  BY <1>6, FS_CardinalityType, FS_EmptySet
<1>8. \A i : P = {i} => Cardinality(P) = 1
  BY FS_Singleton
<1> HIDE DEF P
<1> QED BY <1>4, <1>7, <1>8 DEF P

\* What the bridge has dealt with is in the chat and stays there: each piece of an
\* answer in one message, whatever came of its stream, if the gateway was not disturbed;
\* all of a short answer, and the end of a long one, in any case.
THEOREM AnswersShow == Spec => []AnswerIsShown
<1>1. TypeInv /\ KeptInv /\ OnceInv => AnswerIsShown
  <2> SUFFICES ASSUME TypeInv, KeptInv, OnceInv, NEW a \in given \ unsent
               PROVE  /\ Undisturbed /\ a \notin astray => \A k \in Parts(a) : Times(a, k) = 1
                      /\ \A k \in Parts(a) : k > Prefix => Times(a, k) >= 1
                      /\ Len(Answer(a)) <= Limit => \A k \in Parts(a) : Times(a, k) >= 1
    BY DEF AnswerIsShown
  <2>1. DeliveryTypeOK /\ a \in Answers /\ Len(Answer(a)) = Pieces[a[1]]
    BY AnswersAreTexts DEF TypeInv, DeliveryTypeOK
  <2>2. ASSUME Undisturbed, a \notin astray, NEW k \in Parts(a) PROVE Times(a, k) = 1
    <3>1. OnePlace(Piece(a, k), chat)
      BY <2>2 DEF OnceInv
    <3> QED BY <2>1, <3>1, TimesCounts DEF OnePlace
  <2>3. ASSUME NEW k \in Parts(a), k > Prefix \/ Pieces[a[1]] <= Limit PROVE Times(a, k) >= 1
    <3>1. Settled(Piece(a, k)) # {}
      BY <2>3 DEF KeptInv
    <3>2. Places(Piece(a, k), chat) # {}
      BY <3>1 DEF Settled
    <3> QED BY <2>1, <3>2, TimesCounts
  <2> QED BY <2>1, <2>2, <2>3
<1> QED BY <1>1, TypesInvariant, KeptInvariant, OnceInvariant, PTL
=============================================================================
