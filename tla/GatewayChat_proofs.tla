------------------------- MODULE GatewayChat_proofs --------------------------
(***************************************************************************)
(* Theorems about GatewayChat, for any number of messages, chats, sessions *)
(* and restarts: the types, and its four safety invariants.                *)
(***************************************************************************)
EXTENDS GatewayChat, SequenceTheorems, TLAPS

Ops == Approvals \cup Commands \cup {TextOp}
Places == {"idle", "collect", "resolve", "lookup", "create", "insert", "forget",
           "set", "append", "submit", "done"}
Progress == {"none", "steered", "starting", "running", "prompting", "asking", "done"}

HandlerTypes ==
  /\ at \in [Handlers -> Places] /\ op \in [Handlers -> Ops]
  /\ key \in [Handlers -> Keys] /\ session \in [Handlers -> Sessions \cup {None}]
  /\ ids \in [Handlers -> SUBSET (Texts \X (1 .. MaxCalls))]
MapTypes ==
  /\ mapping \in [Keys -> Sessions \cup {None}] /\ file \in Seq([key : Keys, session : Sessions])
  /\ created \subseteq Sessions
TurnTypes ==
  /\ turn \in [Texts -> Progress] /\ busy \in [Sessions -> Texts \cup {None}]
  /\ calls \in [Texts -> 0 .. MaxCalls] /\ answer \in [Texts -> Decisions \cup {None}]
  /\ pending \subseteq Texts \X (1 .. MaxCalls)
HistoryTypes ==
  /\ restarts \in 0 .. MaxRestarts /\ moved \subseteq Keys
  /\ denied \subseteq Texts /\ forgiven \subseteq Texts
PolicyTypes == allowed \in BOOLEAN /\ forbidden \in BOOLEAN

\* A handler that is about to record or to use its session has one, and so has a turn;
\* a turn starts when its handler is done, and asks about a call it has made.
Owns ==
  /\ \A h \in Handlers : at[h] \in {"insert", "set", "append", "submit"} => session[h] \in Sessions
  /\ \A t \in Texts : turn[t] # "none" => at[t] = "done"
  /\ \A t \in Texts : turn[t] \in {"steered", "starting", "running", "prompting", "asking"}
                        => session[t] \in Sessions
  /\ \A t \in Texts : turn[t] \in {"prompting", "asking"} => calls[t] \in 1 .. MaxCalls

\* A chat that has records has a last one.
HasLast(k) == \E i \in DOMAIN file : /\ file[i].key = k
                                    /\ \A j \in DOMAIN file : file[j].key = k => i >= j
LastRecord == \A k \in Keys : (\E i \in DOMAIN file : file[i].key = k) => HasLast(k)

TypeInv == /\ HandlerTypes /\ MapTypes /\ TurnTypes /\ HistoryTypes /\ PolicyTypes
           /\ crossed \subseteq Keys /\ Owns /\ LastRecord

LEMMA TypeParts == TypeInv => TypeOK
  BY DEF TypeInv, TypeOK, HandlerTypes, MapTypes, TurnTypes, HistoryTypes, PolicyTypes,
         Ops, Places, Progress

\* A handler takes some pending requests.
Takes(h) == \E targets \in SUBSET pending : ids' = [ids EXCEPT ![h] = targets]
LEMMA CollectTakes == ASSUME NEW h \in Handlers, Collect(h) PROVE Takes(h)
  BY Zenon DEF Collect, Takes

\* A resume takes a session that the file has for the chat.
LEMMA FileSessions ==
  ASSUME MapTypes, NEW i \in DOMAIN file PROVE file[i].session \in Sessions /\ file[i].key \in Keys
<1>1. i \in 1 .. Len(file) /\ file \in Seq([key : Keys, session : Sessions])
  BY DEF MapTypes
<1>2. file[i] \in [key : Keys, session : Sessions]
  BY <1>1, ElementOfSeq
<1> QED BY <1>2

LEMMA NotNone == \A s \in Sessions \cup {None} : s # None => s \in Sessions
  OBVIOUS

LEMMA DecisionOfOp == ASSUME NEW o \in Ops PROVE o.decision \in Decisions
  BY SMT DEF Ops, Approvals, Commands, TextOp, Decisions

LEMMA NoneIsNew == None \notin Decisions
  BY HandlersAreDistinct DEF Decisions

LEMMA InitTypes == Init => TypeInv
<1> SUFFICES ASSUME Init PROVE TypeInv
  OBVIOUS
<1> USE HandlersAreDistinct, OriginsAreKeys, BoundsAreNatural
<1>1. TextOp \in Ops
  BY DEF Ops
<1>2. HandlerTypes /\ Owns
  BY <1>1 DEF Init, HandlerTypes, Places, Owns, Handlers
<1>3. MapTypes
  BY DEF Init, MapTypes
<1>4. TurnTypes /\ HistoryTypes /\ crossed \subseteq Keys
  BY DEF Init, TurnTypes, HistoryTypes, Progress
<1>5. PolicyTypes
  BY Zenon DEF Init, PolicyTypes
<1>6. LastRecord
  BY DEF Init, LastRecord
<1> QED BY <1>2, <1>3, <1>4, <1>5, <1>6 DEF TypeInv

\* Receiving, resolving and finding the session: what a handler does before it submits.
LEMMA HandleTypes ==
  ASSUME TypeInv, NEW h \in Handlers, Handle(h)
  PROVE  HandlerTypes' /\ MapTypes' /\ TurnTypes' /\ HistoryTypes' /\ Owns'
<1> USE HandlersAreDistinct DEF TypeInv, HandlerTypes, MapTypes, TurnTypes, HistoryTypes, Owns,
        handlerVars, mapVars, turnVars, policyVars, Goto, Use, Places
<1>1. CASE Collect(h)
  <2>1. pending \subseteq Texts \X (1 .. MaxCalls)
    OBVIOUS
  <2>2. Takes(h)
    BY <1>1, CollectTakes
  <2>3. ids' \in [Handlers -> SUBSET (Texts \X (1 .. MaxCalls))]
    BY <2>1, <2>2 DEF Takes
  <2>4. at' = [at EXCEPT ![h] = "resolve"] /\ at[h] = "collect"
        /\ UNCHANGED <<op, key, session, mapVars, turnVars, policyVars, pending, restarts, moved>>
    BY <1>1 DEF Collect
  <2> QED BY <2>3, <2>4 DEF Handlers
<1>2. CASE Resolve(h)
  <2>1. PICK id \in ids[h] :
          /\ ids' = [ids EXCEPT ![h] = @ \ {id}] /\ pending' = pending \ {id}
          /\ answer' = IF id \in pending THEN [answer EXCEPT ![id[1]] = op[h].decision] ELSE answer
    BY <1>2 DEF Resolve
  <2>2. ids[h] \subseteq Texts \X (1 .. MaxCalls) /\ op[h].decision \in Decisions
    BY DecisionOfOp
  <2>3. id[1] \in Texts
    BY <2>1, <2>2
  <2>4. answer' \in [Texts -> Decisions \cup {None}]
    <3>1. CASE id \in pending BY <2>1, <2>2, <2>3, <3>1
    <3>2. CASE id \notin pending BY <2>1, <3>2
    <3> QED BY <3>1, <3>2
  <2>5. ids' \in [Handlers -> SUBSET (Texts \X (1 .. MaxCalls))] /\ pending' \subseteq Texts \X (1 .. MaxCalls)
    BY <2>1
  <2>6. UNCHANGED <<at, op, key, session, mapVars, turn, busy, calls, policyVars, restarts, moved>>
    BY <1>2 DEF Resolve
  <2> QED BY <2>4, <2>5, <2>6
<1>3. CASE Resolved(h)
  BY <1>3 DEF Resolved, Handlers
<1>4. CASE Lookup(h)
  <2>1. CASE mapping[key[h]] # None
    <3>0. mapping[key[h]] \in Sessions
      BY <2>1, NotNone
    <3>1. HandlerTypes'
      <4>1. session' = [session EXCEPT ![h] = mapping[key[h]]] /\ at' = [at EXCEPT ![h] = "submit"]
            /\ UNCHANGED <<op, key, ids>>
        BY <1>4, <2>1 DEF Lookup
      <4> QED BY <3>0, <4>1
    <3>2. Owns'
      BY <1>4, <2>1, <3>0 DEF Lookup, Handlers
    <3>3. MapTypes' /\ TurnTypes' /\ HistoryTypes'
      BY <1>4, <2>1 DEF Lookup
    <3> QED BY <3>1, <3>2, <3>3
  <2>2. CASE mapping[key[h]] = None
    <3>1. HandlerTypes'
      BY <1>4, <2>2 DEF Lookup
    <3>2. Owns'
      BY <1>4, <2>2, NotNone DEF Lookup, Handlers
    <3>3. MapTypes' /\ TurnTypes' /\ HistoryTypes'
      BY <1>4, <2>2 DEF Lookup
    <3> QED BY <3>1, <3>2, <3>3
  <2> QED BY <2>1, <2>2
<1>5. CASE Create(h)
  <2>1. Fresh \in Sessions
    BY <1>5 DEF Create, Fresh
  <2> QED BY <1>5, <2>1 DEF Create, Handlers
<1>6. CASE Insert(h)
  <2>1. CASE mapping[key[h]] # None
    <3>0. mapping[key[h]] \in Sessions
      BY <2>1, NotNone
    <3>1. HandlerTypes'
      <4>1. session' = [session EXCEPT ![h] = mapping[key[h]]] /\ at' = [at EXCEPT ![h] = "submit"]
            /\ UNCHANGED <<op, key, ids>>
        BY <1>6, <2>1 DEF Insert
      <4> QED BY <3>0, <4>1
    <3>2. Owns'
      BY <1>6, <2>1, <3>0 DEF Insert, Handlers
    <3>3. MapTypes' /\ TurnTypes' /\ HistoryTypes'
      BY <1>6, <2>1 DEF Insert
    <3> QED BY <3>1, <3>2, <3>3
  <2>2. CASE mapping[key[h]] = None
    <3>1. HandlerTypes'
      BY <1>6, <2>2 DEF Insert
    <3>2. Owns'
      BY <1>6, <2>2, NotNone DEF Insert, Handlers
    <3>3. MapTypes' /\ TurnTypes' /\ HistoryTypes'
      BY <1>6, <2>2 DEF Insert
    <3> QED BY <3>1, <3>2, <3>3
  <2> QED BY <2>1, <2>2
<1>7. CASE Forget(h)
  <2>1. CASE op[h].kind = "new"
    <3>1. at' = [at EXCEPT ![h] = "create"] /\ at[h] = "forget"
          /\ UNCHANGED <<op, key, session, ids, mapVars, calls, answer, policyVars, pending, restarts, moved>>
      BY <1>7, <2>1 DEF Forget
    <3>2. /\ busy' \in [Sessions -> Texts \cup {None}] /\ turn' \in [Texts -> Progress]
          /\ \A t \in Texts : turn'[t] = turn[t] \/ (turn'[t] = "done" /\ turn[t] = "steered")
      BY <1>7, <2>1 DEF Forget, Progress
    <3> QED BY <3>1, <3>2 DEF Handlers, Progress
  <2>2. CASE \E i \in DOMAIN file : Use(h, file[i].session) /\ Goto(h, "set")
    <3>1. PICK i \in DOMAIN file : Use(h, file[i].session) /\ Goto(h, "set")
      BY <2>2
    <3>2. file[i].session \in Sessions
      BY FileSessions
    <3> QED BY <1>7, <3>1, <3>2 DEF Forget, Handlers, Progress
  <2>3. CASE Goto(h, "lookup") /\ UNCHANGED <<busy, turn, session>>
    BY <1>7, <2>3 DEF Forget, Handlers
  <2> QED BY <1>7, <2>1, <2>2, <2>3 DEF Forget
<1>8. CASE Set(h)
  BY <1>8 DEF Set, Handlers
<1>9. CASE Append1(h)
  BY <1>9 DEF Append1, Handlers
<1>10. CASE Submit(h)
  <2>1. CASE h \in Controls
    BY <1>10, <2>1 DEF Submit, Handlers
  <2>2. CASE h \in Texts /\ busy[session[h]] = None
    <3>1. HandlerTypes' /\ MapTypes' /\ HistoryTypes'
      BY <1>10, <2>2 DEF Submit
    <3>2. session[h] \in Sessions
      BY <1>10 DEF Submit
    <3>3. TurnTypes'
      <4>1. turn' = [turn EXCEPT ![h] = "starting"] /\ busy' = [busy EXCEPT ![session[h]] = h]
            /\ UNCHANGED <<calls, answer, pending>>
        BY <1>10, <2>2, HandlersAreDistinct DEF Submit
      <4> QED BY <2>2, <3>2, <4>1 DEF Progress
    <3>4. Owns'
      BY <1>10, <2>2, <3>2 DEF Submit, Handlers, Progress
    <3> QED BY <3>1, <3>3, <3>4
  <2>3. CASE h \in Texts /\ busy[session[h]] # None
    <3>1. HandlerTypes' /\ MapTypes' /\ HistoryTypes'
      BY <1>10, <2>3 DEF Submit
    <3>2. session[h] \in Sessions
      BY <1>10 DEF Submit
    <3>3. TurnTypes'
      BY <1>10, <2>3, <3>2 DEF Submit, Progress
    <3>4. Owns'
      BY <1>10, <2>3, <3>2 DEF Submit, Handlers, Progress
    <3> QED BY <3>1, <3>3, <3>4
  <2> QED BY <2>1, <2>2, <2>3 DEF Handlers
<1> QED BY <1>1, <1>2, <1>3, <1>4, <1>5, <1>6, <1>7, <1>8, <1>9, <1>10 DEF Handle

LEMMA TurnStepTypes ==
  ASSUME TypeInv, NEW t \in Texts, Turn(t)
  PROVE  HandlerTypes' /\ MapTypes' /\ TurnTypes' /\ HistoryTypes' /\ Owns'
<1> USE HandlersAreDistinct, BoundsAreNatural DEF TypeInv, HandlerTypes, MapTypes, TurnTypes, HistoryTypes, Owns,
        handlerVars, mapVars, turnVars, policyVars, Progress
<1>1. CASE TurnBegins(t)
  BY <1>1 DEF TurnBegins
<1>2. CASE TurnCalls(t)
  BY <1>2 DEF TurnCalls
<1>3. CASE TurnAsks(t)
  BY <1>3 DEF TurnAsks
<1>4. CASE TurnHears(t)
  BY <1>4 DEF TurnHears
<1>5. CASE TurnEnds(t)
  <2> DEFINE left == {u \in Texts : turn[u] = "steered" /\ session[u] = session[t]}
  <2>1. session[t] \in Sessions
    BY <1>5 DEF TurnEnds
  <2>2. CASE /\ turn' = [u \in Texts |-> IF u = t \/ u \in left THEN "done" ELSE turn[u]]
             /\ busy' = [busy EXCEPT ![session[t]] = None]
    BY <1>5, <2>1, <2>2 DEF TurnEnds
  <2>3. CASE \E u \in left : /\ turn' = [turn EXCEPT ![t] = "done", ![u] = "starting"]
                             /\ busy' = [busy EXCEPT ![session[t]] = u]
    <3>1. HandlerTypes' /\ MapTypes' /\ HistoryTypes'
      BY <1>5 DEF TurnEnds
    <3>2. PICK u \in left : /\ turn' = [turn EXCEPT ![t] = "done", ![u] = "starting"]
                           /\ busy' = [busy EXCEPT ![session[t]] = u]
      BY <2>3
    <3>3. TurnTypes'
      BY <1>5, <2>1, <3>2 DEF TurnEnds
    <3>4. Owns'
      BY <1>5, <2>1, <3>2 DEF TurnEnds
    <3> QED BY <3>1, <3>3, <3>4
  <2> QED BY <1>5, <2>2, <2>3 DEF TurnEnds
<1> QED BY <1>1, <1>2, <1>3, <1>4, <1>5 DEF Turn

LEMMA ReceiveTypes ==
  ASSUME TypeInv, (\E t \in Texts : ReceiveText(t)) \/ (\E c \in Controls : ReceiveControl(c))
  PROVE  HandlerTypes' /\ MapTypes' /\ TurnTypes' /\ HistoryTypes' /\ Owns'
<1> USE HandlersAreDistinct DEF TypeInv, HandlerTypes, MapTypes, TurnTypes, HistoryTypes, Owns,
        handlerVars, mapVars, turnVars, policyVars, Goto, Places
<1>1. CASE \E t \in Texts : ReceiveText(t)
  BY <1>1 DEF ReceiveText, Handlers
<1>2. CASE \E c \in Controls : ReceiveControl(c)
  <2>1. PICK c \in Controls : ReceiveControl(c)
    BY <1>2
  <2>2. PICK o \in Ops : /\ op' = [op EXCEPT ![c] = o]
                         /\ Goto(c, IF o.kind = "ensure" THEN "lookup" ELSE "collect")
                         /\ moved' = IF o.kind \in {"new", "resume"} THEN moved \cup {key[c]} ELSE moved
    BY <2>1 DEF ReceiveControl, Ops
  <2>3. at[c] = "idle" /\ UNCHANGED <<key, session, ids, mapVars, turnVars, policyVars, pending, restarts>>
    BY <2>1 DEF ReceiveControl
  <2>4. moved' \subseteq Keys
    BY <2>2 DEF Handlers
  <2>5. CASE o.kind = "ensure"
    BY <2>2, <2>3, <2>4, <2>5 DEF Handlers
  <2>6. CASE o.kind # "ensure"
    BY <2>2, <2>3, <2>4, <2>6 DEF Handlers
  <2> QED BY <2>5, <2>6
<1> QED BY <1>1, <1>2

\* What appending a record does to the last ones.
LEMMA AppendLast ==
  ASSUME MapTypes, LastRecord, NEW k \in Keys, NEW s \in Sessions,
         file' = Append(file, [key |-> k, session |-> s])
  PROVE  /\ file' \in Seq([key : Keys, session : Sessions]) /\ LastRecord'
         /\ Replay(k)' = s
         /\ \A j \in Keys \ {k} : Replay(j)' = Replay(j)
<1> DEFINE n == Len(file) + 1
           r == [key |-> k, session |-> s]
<1>1. r \in [key : Keys, session : Sessions] /\ r.key = k /\ r.session = s
  OBVIOUS
<1>2. file \in Seq([key : Keys, session : Sessions])
  BY DEF MapTypes
<1>3. /\ Len(file) \in Nat /\ DOMAIN file = 1 .. Len(file) /\ DOMAIN file' = 1 .. n
      /\ file' \in Seq([key : Keys, session : Sessions])
      /\ file'[n] = r /\ \A i \in 1 .. Len(file) : file'[i] = file[i]
  BY <1>1, <1>2, AppendProperties
<1> HIDE DEF r
<1>4. \A j \in Keys : HasLast(j) /\ j # k => HasLast(j)'
  BY <1>1, <1>3 DEF HasLast
<1>5. HasLast(k)'
  BY <1>1, <1>3 DEF HasLast
<1>6. LastRecord'
  BY <1>1, <1>3, <1>4, <1>5 DEF LastRecord
<1>7. Replay(k)' = s
  <2> DEFINE records == {i \in DOMAIN file' : file'[i].key = k}
  <2>1. n \in records /\ \A i \in records : n >= i
    BY <1>1, <1>3
  <2>2. records \subseteq 1 .. n /\ Len(file) \in Nat
    BY <1>3
  <2>3. Max(records) = n
    <3> HIDE DEF records
    <3>1. Max(records) \in records /\ Max(records) >= n
      BY <2>1 DEF Max
    <3>2. \A m \in 1 .. n : m >= n => m = n
      BY <2>2
    <3> QED BY Zenon, <2>2, <3>1, <3>2
  <2> QED BY <1>1, <1>3, <2>1, <2>3 DEF Replay
<1>8. ASSUME NEW j \in Keys \ {k} PROVE Replay(j)' = Replay(j)
  <2>1. {i \in DOMAIN file' : file'[i].key = j} = {i \in DOMAIN file : file[i].key = j}
    BY <1>1, <1>3
  <2>2. CASE {i \in DOMAIN file : file[i].key = j} = {}
    BY <2>1, <2>2 DEF Replay
  <2>3. CASE {i \in DOMAIN file : file[i].key = j} # {}
    <3>1. PICK i \in DOMAIN file : file[i].key = j /\ \A l \in DOMAIN file : file[l].key = j => i >= l
      BY <2>3 DEF LastRecord, HasLast
    <3>2. Max({l \in DOMAIN file : file[l].key = j}) \in DOMAIN file
      BY <3>1 DEF Max
    <3> QED BY <1>3, <2>1, <3>2 DEF Replay
  <2> QED BY <2>2, <2>3
<1> QED BY <1>3, <1>6, <1>7, <1>8

LEMMA ReplayType == ASSUME MapTypes, LastRecord, NEW k \in Keys PROVE Replay(k) \in Sessions \cup {None}
<1> DEFINE records == {i \in DOMAIN file : file[i].key = k}
<1>1. CASE records = {}
  BY <1>1 DEF Replay
<1>2. CASE records # {}
  <2>1. PICK i \in records : \A j \in records : i >= j
    BY <1>2 DEF LastRecord, HasLast
  <2>2. Max(records) \in records
    BY <2>1 DEF Max
  <2> QED BY <1>2, <2>2, FileSessions DEF Replay
<1> QED BY <1>1, <1>2

LEMMA RestartTypes ==
  ASSUME TypeInv, Restart
  PROVE  HandlerTypes' /\ MapTypes' /\ TurnTypes' /\ HistoryTypes' /\ Owns'
<1> USE HandlersAreDistinct, BoundsAreNatural
<1>1. HandlerTypes'
  BY DEF Restart, TypeInv, HandlerTypes, Places
<1>2. MapTypes'
  <2>1. \A k \in Keys : Replay(k) \in Sessions \cup {None}
    BY ReplayType DEF TypeInv
  <2>2. mapping' = [k \in Keys |-> Replay(k)] /\ UNCHANGED <<file, created>>
    BY DEF Restart
  <2> QED BY <2>1, <2>2 DEF TypeInv, MapTypes
<1>3. TurnTypes'
  BY DEF Restart, TypeInv, TurnTypes, Progress
<1>4. HistoryTypes'
  BY DEF Restart, TypeInv, HistoryTypes
<1>5. Owns'
  BY DEF Restart, TypeInv, Owns, HandlerTypes, TurnTypes, Handlers, Progress, Places
<1> QED BY <1>1, <1>2, <1>3, <1>4, <1>5

\* The policy: set by a turn's begin, an answer and a restart.
LEMMA PolicyStep == ASSUME PolicyTypes, Step PROVE PolicyTypes'
<1>1. ASSUME NEW h \in Handlers, Handle(h) PROVE UNCHANGED <<allowed, forbidden>>
  BY <1>1, Zenon DEF Handle, Collect, Resolve, Resolved, Lookup, Create, Insert, Forget, Set, Append1,
                     Submit, policyVars
<1>2. ASSUME NEW t \in Texts, ReceiveText(t) PROVE UNCHANGED <<allowed, forbidden>>
  BY <1>2, Zenon DEF ReceiveText, policyVars
<1>3. ASSUME NEW c \in Controls, ReceiveControl(c) PROVE UNCHANGED <<allowed, forbidden>>
  BY <1>3, Zenon DEF ReceiveControl, policyVars
<1>4. ASSUME NEW t \in Texts, TurnBegins(t) PROVE PolicyTypes'
  BY <1>4, Zenon DEF TurnBegins, PolicyTypes
<1>5. ASSUME NEW t \in Texts, TurnCalls(t) \/ TurnAsks(t) \/ TurnEnds(t) PROVE UNCHANGED <<allowed, forbidden>>
  BY <1>5, Zenon DEF TurnCalls, TurnAsks, TurnEnds, policyVars
<1>6. ASSUME NEW t \in Texts, TurnHears(t) PROVE PolicyTypes'
  <2>1. CASE answer[t] = "forbidden"
    BY <1>6, <2>1, Zenon DEF TurnHears, PolicyTypes
  <2>2. CASE answer[t] # "forbidden" /\ answer[t] = "session"
    BY <1>6, <2>2, Zenon DEF TurnHears, PolicyTypes
  <2>3. CASE answer[t] # "forbidden" /\ answer[t] # "session"
    BY <1>6, <2>3, Zenon DEF TurnHears, PolicyTypes
  <2> QED BY <2>1, <2>2, <2>3
<1>7. ASSUME Restart PROVE PolicyTypes'
  BY <1>7, Zenon DEF Restart, PolicyTypes
<1> QED BY <1>1, <1>2, <1>3, <1>4, <1>5, <1>6, <1>7, Zenon DEF Step, Turn, PolicyTypes

\* Only Append1 touches the file.
LEMMA LastStep == ASSUME TypeInv, Step PROVE LastRecord'
<1>1. ASSUME NEW h \in Handlers, Append1(h) PROVE LastRecord'
  <2>1. key[h] \in Keys /\ session[h] \in Sessions
    BY <1>1 DEF Append1, TypeInv, HandlerTypes, Owns
  <2>2. file' = Append(file, [key |-> key[h], session |-> session[h]])
    BY <1>1 DEF Append1
  <2> QED BY <2>1, <2>2, AppendLast DEF TypeInv
<1>2. CASE file' = file
  BY <1>2 DEF TypeInv, LastRecord, HasLast
<1>3. ASSUME NEW h \in Handlers, Handle(h), ~Append1(h) PROVE file' = file
  BY <1>3, Zenon DEF Handle, Collect, Resolve, Resolved, Lookup, Create, Insert, Forget, Set, Submit, mapVars
<1>4. ASSUME NEW t \in Texts, ReceiveText(t) \/ Turn(t) PROVE file' = file
  BY <1>4, Zenon DEF ReceiveText, Turn, TurnBegins, TurnCalls, TurnAsks, TurnHears, TurnEnds, mapVars
<1>5. ASSUME NEW c \in Controls, ReceiveControl(c) PROVE file' = file
  BY <1>5, Zenon DEF ReceiveControl, mapVars
<1>6. Restart => file' = file
  BY Zenon DEF Restart
<1> QED BY <1>1, <1>2, <1>3, <1>4, <1>5, <1>6, Zenon DEF Step

LEMMA TypeStep == ASSUME TypeInv, [Next]_vars PROVE TypeInv'
<1>1. CASE Step /\ Watched
  <2>1. HandlerTypes' /\ MapTypes' /\ TurnTypes' /\ HistoryTypes' /\ Owns'
    BY <1>1, ReceiveTypes, TurnStepTypes, HandleTypes, RestartTypes, Zenon DEF Step
  <2>2. crossed' \subseteq Keys
    BY <1>1 DEF Watched, Crossing, TypeInv
  <2> QED BY <1>1, <2>1, <2>2, PolicyStep, LastStep DEF TypeInv
<1>2. CASE UNCHANGED vars
  <2>1. PolicyTypes'
    BY <1>2, Zenon DEF vars, policyVars, TypeInv, PolicyTypes
  <2>2. HandlerTypes' /\ MapTypes' /\ TurnTypes' /\ HistoryTypes' /\ Owns' /\ crossed' \subseteq Keys /\ LastRecord'
    BY <1>2 DEF vars, handlerVars, mapVars, turnVars, policyVars, TypeInv, HandlerTypes, MapTypes,
                TurnTypes, HistoryTypes, Owns, LastRecord, HasLast
  <2> QED BY <2>1, <2>2 DEF TypeInv
<1> QED BY <1>1, <1>2 DEF Next

LEMMA TypesAlways == Spec => []TypeInv
<1>1. Init => TypeInv
  BY InitTypes
<1>2. TypeInv /\ [Next]_vars => TypeInv'
  BY TypeStep
<1> QED BY <1>1, <1>2, PTL DEF Spec

\* The state of handlers, sessions, turns and policy keeps its types.
THEOREM TypesHold == Spec => []TypeOK
  BY TypesAlways, TypeParts, PTL

-----------------------------------------------------------------------------
(* Waiting turns can be answered *)

LEMMA WaitStep ==
  ASSUME TypeInv, WaitingIsAnswerable, [Next]_vars PROVE WaitingIsAnswerable'
<1> SUFFICES ASSUME NEW t \in Texts, turn'[t] = "asking"
             PROVE  <<t, calls'[t]>> \in pending' \/ answer'[t] # None
  BY DEF WaitingIsAnswerable
<1> USE DEF TypeInv, TurnTypes, HandlerTypes, WaitingIsAnswerable, turnVars
<1>1. ASSUME UNCHANGED <<turn, calls, answer, pending>> PROVE <<t, calls'[t]>> \in pending' \/ answer'[t] # None
  BY <1>1
<1>2. ASSUME NEW h \in Handlers, Handle(h) PROVE <<t, calls'[t]>> \in pending' \/ answer'[t] # None
  <2>1. CASE Resolve(h)
    <3>1. PICK id \in ids[h] : /\ pending' = pending \ {id}
                               /\ answer' = IF id \in pending THEN [answer EXCEPT ![id[1]] = op[h].decision]
                                                              ELSE answer
      BY <2>1 DEF Resolve
    <3>2. op[h].decision # None
      BY DecisionOfOp, NoneIsNew
    <3>3. turn' = turn /\ calls' = calls
      BY <2>1 DEF Resolve
    <3>4. CASE id \in pending
      BY <3>1, <3>2, <3>3, <3>4
    <3>5. CASE id \notin pending
      BY <3>1, <3>3, <3>5
    <3> QED BY <3>4, <3>5
  <2>2. CASE Forget(h)
    BY <2>2 DEF Forget
  <2>3. CASE Submit(h)
    BY <2>3 DEF Submit
  <2>4. CASE Collect(h) \/ Resolved(h) \/ Lookup(h) \/ Create(h) \/ Insert(h) \/ Set(h) \/ Append1(h)
    <3>1. UNCHANGED <<turn, calls, answer, pending>>
      BY <2>4, Zenon DEF Collect, Resolved, Lookup, Create, Insert, Set, Append1
    <3> QED BY <1>1, <3>1
  <2> QED BY <1>2, <2>1, <2>2, <2>3, <2>4 DEF Handle
<1>3. ASSUME NEW u \in Texts, Turn(u) PROVE <<t, calls'[t]>> \in pending' \/ answer'[t] # None
  <2>1. CASE TurnBegins(u)
    BY <2>1 DEF TurnBegins
  <2>2. CASE TurnCalls(u)
    BY <2>2 DEF TurnCalls
  <2>3. CASE TurnAsks(u)
    BY <2>3 DEF TurnAsks
  <2>4. CASE TurnHears(u)
    BY <2>4 DEF TurnHears
  <2>5. CASE TurnEnds(u)
    BY <2>5 DEF TurnEnds
  <2> QED BY <1>3, <2>1, <2>2, <2>3, <2>4, <2>5 DEF Turn
<1>4. ASSUME (\E u \in Texts : ReceiveText(u)) \/ (\E c \in Controls : ReceiveControl(c))
      PROVE  UNCHANGED <<turn, calls, answer, pending>>
  BY <1>4, Zenon DEF ReceiveText, ReceiveControl
<1>5. Restart => turn'[t] # "asking"
  BY DEF Restart
<1>6. ASSUME UNCHANGED vars PROVE UNCHANGED <<turn, calls, answer, pending>>
  BY <1>6, Zenon DEF vars
<1> QED BY <1>1, <1>2, <1>3, <1>4, <1>5, <1>6, Zenon DEF Next, Step

\* No turn waits for an answer that cannot come, whatever answers, new messages,
\* resets and restarts race with it.
THEOREM WaitersAreAnswerable == Spec => []WaitingIsAnswerable
<1>1. Init => WaitingIsAnswerable
  BY DEF Init, WaitingIsAnswerable
<1>2. TypeInv /\ WaitingIsAnswerable /\ [Next]_vars => WaitingIsAnswerable'
  BY WaitStep
<1> QED BY <1>1, <1>2, TypesAlways, PTL DEF Spec

-----------------------------------------------------------------------------
(* Denials *)

\* A denied turn is forgiven, over, or running with the command forbidden.
DenialInv ==
  \A t \in denied : \/ t \in forgiven
                    \/ turn[t] = "done"
                    \/ turn[t] = "running" /\ forbidden

LEMMA DenialImplies == DenialInv => DenialHolds
  BY Zenon DEF DenialInv, DenialHolds

LEMMA DenialStep ==
  ASSUME TypeInv, DenialInv, [Next]_vars PROVE DenialInv'
<1> SUFFICES ASSUME NEW t \in denied'
             PROVE  t \in forgiven' \/ turn'[t] = "done" \/ (turn'[t] = "running" /\ forbidden')
  BY DEF DenialInv
<1>0. turn \in [Texts -> Progress] /\ denied \subseteq Texts
  BY DEF TypeInv, TurnTypes, HistoryTypes
<1>1. ASSUME UNCHANGED <<turn, denied, forgiven, forbidden>>
      PROVE  t \in forgiven' \/ turn'[t] = "done" \/ (turn'[t] = "running" /\ forbidden')
  BY <1>1, Zenon DEF DenialInv
<1>2. ASSUME NEW h \in Handlers, Handle(h)
      PROVE  t \in forgiven' \/ turn'[t] = "done" \/ (turn'[t] = "running" /\ forbidden')
  <2>1. UNCHANGED <<denied, forgiven, forbidden>>
    BY <1>2, Zenon DEF Handle, Collect, Resolve, Resolved, Lookup, Create, Insert, Forget, Set, Append1,
                       Submit, policyVars
  <2>2. \A u \in Texts : at[u] # "submit" \/ turn[u] = "none"
    BY DEF TypeInv, Owns
  <2>3. turn[t] \in {"done", "running"} => turn'[t] = turn[t]
    <3>1. CASE Forget(h)
      BY <1>0, <2>1, <3>1 DEF Forget
    <3>2. CASE Submit(h)
      BY <1>0, <2>1, <2>2, <3>2 DEF Submit, Handlers
    <3>3. CASE ~Forget(h) /\ ~Submit(h)
      BY <1>2, <3>3, Zenon DEF Handle, Collect, Resolve, Resolved, Lookup, Create, Insert, Set, Append1, turnVars
    <3> QED BY <3>1, <3>2, <3>3
  <2> QED BY <2>1, <2>3, Zenon DEF DenialInv
<1>3. ASSUME NEW u \in Texts, Turn(u)
      PROVE  t \in forgiven' \/ turn'[t] = "done" \/ (turn'[t] = "running" /\ forbidden')
  <2>1. CASE TurnBegins(u)
    <3>1. t \in denied /\ forgiven' = forgiven \cup (denied \ {u}) /\ turn[u] = "starting"
      BY <2>1, Zenon DEF TurnBegins
    <3>2. CASE t # u BY <3>1, <3>2
    <3>3. CASE t = u BY <3>1, <3>3 DEF DenialInv
    <3> QED BY <3>2, <3>3
  <2>2. CASE TurnCalls(u)
    <3>1. UNCHANGED <<denied, forgiven, forbidden>>
      BY <2>2, Zenon DEF TurnCalls, policyVars
    <3>2. turn' = IF forbidden \/ allowed THEN turn ELSE [turn EXCEPT ![u] = "prompting"]
      BY <2>2, Zenon DEF TurnCalls
    <3>3. CASE forbidden
      BY <3>1, <3>2, <3>3, Zenon DEF DenialInv
    <3>4. CASE ~forbidden
      <4>1. turn[u] = "running"
        BY <2>2, Zenon DEF TurnCalls
      <4>2. t \in forgiven \/ turn[t] = "done"
        BY <3>1, <3>4, Zenon DEF DenialInv
      <4>3. turn[t] = "done" => turn'[t] = "done"
        BY <1>0, <3>2, <4>1
      <4> QED BY <3>1, <4>2, <4>3
    <3> QED BY <3>3, <3>4
  <2>3. CASE TurnAsks(u)
    <3>1. UNCHANGED <<denied, forgiven, forbidden>>
      BY <2>3, Zenon DEF TurnAsks, policyVars
    <3>2. turn[t] \in {"done", "running"} => turn'[t] = turn[t]
      BY <1>0, <2>3, <3>1 DEF TurnAsks
    <3> QED BY <3>1, <3>2, Zenon DEF DenialInv
  <2>4. CASE TurnHears(u)
    <3>1. turn[u] = "asking" /\ turn' = [turn EXCEPT ![u] = "running"]
      BY <2>4, Zenon DEF TurnHears
    <3>2. \A v \in Texts : v # u => turn'[v] = turn[v]
      BY <1>0, <3>1
    <3>3. turn'[u] = "running"
      BY <1>0, <3>1
    <3>4. CASE answer[u] = "forbidden"
      <4>1. /\ forbidden' = TRUE
            /\ denied' = denied \cup {u} /\ forgiven' = forgiven \ {u}
        BY <2>4, <3>4, Zenon DEF TurnHears
      <4>2. CASE t = u BY <3>3, <4>1, <4>2
      <4>3. CASE t # u
        <5>1. t \in denied /\ t \in Texts
          BY <1>0, <4>1, <4>3
        <5>2. t \in forgiven \/ turn[t] = "done" \/ turn[t] = "running"
          BY <5>1, Zenon DEF DenialInv
        <5> QED BY <3>2, <4>1, <4>3, <5>1, <5>2
      <4> QED BY <4>2, <4>3
    <3>5. CASE answer[u] = "session"
      <4>1. denied' = denied /\ forgiven' = forgiven \cup denied
        BY <2>4, <3>5, Zenon DEF TurnHears
      <4> QED BY <4>1
    <3>6. CASE answer[u] # "forbidden" /\ answer[u] # "session"
      <4>1. forbidden' = forbidden /\ denied' = denied /\ forgiven' = forgiven
        BY <2>4, <3>6, Zenon DEF TurnHears
      <4>2. turn[t] \in {"done", "running"} => turn'[t] = turn[t]
        BY <1>0, <3>1, <3>2, <4>1
      <4> QED BY <4>1, <4>2, Zenon DEF DenialInv
    <3> QED BY <3>4, <3>5, <3>6
  <2>5. CASE TurnEnds(u)
    <3>1. UNCHANGED <<denied, forgiven, forbidden>>
      BY <2>5, Zenon DEF TurnEnds, policyVars
    <3>2. (turn[t] = "done" => turn'[t] = "done") /\ (turn[t] = "running" => turn'[t] \in {"running", "done"})
      BY <1>0, <2>5, <3>1 DEF TurnEnds
    <3> QED BY <3>1, <3>2, Zenon DEF DenialInv
  <2> QED BY <1>3, <2>1, <2>2, <2>3, <2>4, <2>5 DEF Turn
<1>4. ASSUME (\E u \in Texts : ReceiveText(u)) \/ (\E c \in Controls : ReceiveControl(c))
      PROVE  UNCHANGED <<turn, denied, forgiven, forbidden>>
  BY <1>4, Zenon DEF ReceiveText, ReceiveControl, turnVars, policyVars
<1>5. ASSUME Restart PROVE t \in forgiven' \/ turn'[t] = "done"
  <2>1. t \in denied /\ forgiven' = forgiven
    BY <1>5, Zenon DEF Restart
  <2>2. turn'[t] = IF turn[t] = "none" THEN "none" ELSE "done"
    BY <1>0, <1>5, <2>1 DEF Restart
  <2> QED BY <2>1, <2>2 DEF DenialInv
<1>6. ASSUME UNCHANGED vars PROVE UNCHANGED <<turn, denied, forgiven, forbidden>>
  BY <1>6, Zenon DEF vars, turnVars, policyVars
<1> QED BY <1>1, <1>2, <1>3, <1>4, <1>5, <1>6, Zenon DEF Next, Step

\* A denied command is not asked for again in its turn, unless the shared policy
\* was changed by another turn.
THEOREM DenialsHold == Spec => []DenialHolds
<1>1. Init => DenialInv
  BY DEF Init, DenialInv
<1>2. TypeInv /\ DenialInv /\ [Next]_vars => DenialInv'
  BY DenialStep
<1> QED BY <1>1, <1>2, TypesAlways, DenialImplies, PTL DEF Spec

-----------------------------------------------------------------------------
(* One session for each chat *)

\* Only /new and /resume set a session, and they are known to have moved the chat.
\* A message that has passed the lookup uses the session of its chat.
MovesAreKnown ==
  /\ \A t \in Texts : op[t] = TextOp
  /\ \A h \in Handlers : op[h].kind \in {"new", "resume"} => key[h] \in moved
  /\ \A h \in Handlers : at[h] \in {"forget", "set"} => op[h].kind \in {"new", "resume"}
SessionsAgree ==
  restarts = 0 =>
    \A h \in Handlers :
      /\ key[h] \notin moved
      /\ at[h] \in {"append", "submit"} \/ (at[h] = "done" /\ h \in Texts)
      => session[h] # None /\ session[h] = mapping[key[h]]
SessionInv == MovesAreKnown /\ SessionsAgree

LEMMA SessionImplies == TypeInv /\ SessionInv => OneSessionPerChat
<1> SUFFICES ASSUME TypeInv, SessionInv, NEW t \in Texts, NEW u \in Texts, key[t] = key[u],
                    key[t] \notin moved, restarts = 0, turn[t] # "none", turn[u] # "none"
             PROVE  session[t] = session[u]
  BY DEF OneSessionPerChat
<1>1. at[t] = "done" /\ at[u] = "done" /\ t \in Handlers /\ u \in Handlers
  BY DEF TypeInv, Owns, Handlers
<1> QED BY <1>1 DEF SessionInv, SessionsAgree

LEMMA MovesStep == ASSUME TypeInv, MovesAreKnown, [Next]_vars PROVE MovesAreKnown'
<1> USE HandlersAreDistinct DEF TypeInv, HandlerTypes, MovesAreKnown, Goto, Use
<1>1. ASSUME NEW c \in Controls, ReceiveControl(c) PROVE MovesAreKnown'
  <2>1. PICK o \in Ops : /\ op' = [op EXCEPT ![c] = o]
                         /\ Goto(c, IF o.kind = "ensure" THEN "lookup" ELSE "collect")
                         /\ moved' = IF o.kind \in {"new", "resume"} THEN moved \cup {key[c]} ELSE moved
    BY <1>1, Zenon DEF ReceiveControl, Ops
  <2>2. key' = key
    BY <1>1 DEF ReceiveControl
  <2> QED BY <2>1, <2>2 DEF Handlers
<1>2. ASSUME NEW h \in Handlers, Resolved(h) PROVE MovesAreKnown'
  <2>1. UNCHANGED <<op, key, moved>>
    BY <1>2 DEF Resolved
  <2>2. CASE op[h].kind \in {"new", "resume"}
    BY <1>2, <2>1, <2>2 DEF Resolved
  <2>3. CASE op[h].kind \notin {"new", "resume"}
    BY <1>2, <2>1, <2>3 DEF Resolved
  <2> QED BY <2>2, <2>3
<1>3. ASSUME NEW h \in Handlers, Create(h) PROVE MovesAreKnown'
  BY <1>3 DEF Create
<1>4. ASSUME NEW h \in Handlers, Forget(h) PROVE MovesAreKnown'
  BY <1>4 DEF Forget
<1>5. ASSUME NEW h \in Handlers,
             Collect(h) \/ Lookup(h) \/ Insert(h) \/ Set(h) \/ Append1(h) \/ Submit(h) \/ Resolve(h)
      PROVE  MovesAreKnown'
  <2>1. UNCHANGED <<op, key, moved>>
    BY <1>5, Zenon DEF Collect, Lookup, Insert, Set, Append1, Submit, Resolve
  <2>2. \A g \in Handlers : at'[g] \in {"forget", "set"} => at'[g] = at[g]
    BY <1>5 DEF Collect, Lookup, Insert, Set, Append1, Submit, Resolve
  <2> QED BY <2>1, <2>2
<1>6. ASSUME NEW t \in Texts, ReceiveText(t) PROVE MovesAreKnown'
  BY <1>6 DEF ReceiveText
<1>7. ASSUME NEW t \in Texts, Turn(t) PROVE UNCHANGED <<op, key, moved, at>>
  BY <1>7, Zenon DEF Turn, TurnBegins, TurnCalls, TurnAsks, TurnHears, TurnEnds, handlerVars
<1>8. ASSUME UNCHANGED <<op, key, moved, at>> PROVE MovesAreKnown'
  BY <1>8
<1>9. ASSUME Restart PROVE MovesAreKnown'
  BY <1>9 DEF Restart
<1>10. ASSUME UNCHANGED vars PROVE UNCHANGED <<op, key, moved, at>>
  BY <1>10 DEF vars, handlerVars
<1> QED BY <1>1, <1>2, <1>3, <1>4, <1>5, <1>6, <1>7, <1>8, <1>9, <1>10, Zenon DEF Next, Step, Handle

LEMMA AgreeStep ==
  ASSUME TypeInv, MovesAreKnown, SessionsAgree, [Next]_vars PROVE SessionsAgree'
<1> SUFFICES ASSUME restarts' = 0, NEW g \in Handlers, key'[g] \notin moved',
                    at'[g] \in {"append", "submit"} \/ (at'[g] = "done" /\ g \in Texts)
             PROVE  session'[g] # None /\ session'[g] = mapping'[key'[g]]
  BY DEF SessionsAgree
<1> USE HandlersAreDistinct DEF TypeInv, HandlerTypes, MapTypes, HistoryTypes, Goto, Use
<1>1. restarts = 0 /\ key' = key /\ moved \subseteq moved'
  <2>1. ASSUME NEW h \in Handlers, Handle(h) PROVE restarts = 0 /\ key' = key /\ moved \subseteq moved'
    BY <2>1, Zenon DEF Handle, Collect, Resolve, Resolved, Lookup, Create, Insert, Forget, Set, Append1, Submit
  <2>2. ASSUME NEW t \in Texts, ReceiveText(t) \/ Turn(t) PROVE restarts = 0 /\ key' = key /\ moved \subseteq moved'
    BY <2>2, Zenon DEF ReceiveText, Turn, TurnBegins, TurnCalls, TurnAsks, TurnHears, TurnEnds, handlerVars
  <2>3. ASSUME NEW c \in Controls, ReceiveControl(c) PROVE restarts = 0 /\ key' = key /\ moved \subseteq moved'
    BY <2>3 DEF ReceiveControl
  <2>4. ~Restart
    BY BoundsAreNatural DEF Restart
  <2>5. CASE UNCHANGED vars
    BY <2>5, Zenon DEF vars, handlerVars
  <2> QED BY <2>1, <2>2, <2>3, <2>4, <2>5, Zenon DEF Next, Step
<1>2. key[g] \notin moved /\ key[g] \in Keys
  BY <1>1
<1>3. at[g] \in {"append", "submit"} \/ (at[g] = "done" /\ g \in Texts)
        => session[g] # None /\ session[g] = mapping[key[g]]
  BY <1>1, <1>2 DEF SessionsAgree
<1>4. ASSUME UNCHANGED <<at, session, mapping>> PROVE session'[g] # None /\ session'[g] = mapping'[key'[g]]
  BY <1>1, <1>3, <1>4
<1>5. ASSUME NEW h \in Handlers, Handle(h) PROVE session'[g] # None /\ session'[g] = mapping'[key'[g]]
  <2>1. CASE Collect(h) \/ Resolved(h) \/ Append1(h) \/ Submit(h) \/ Resolve(h)
    <3>1. UNCHANGED <<session, mapping>>
      BY <2>1, Zenon DEF Collect, Resolved, Append1, Submit, Resolve, mapVars
    <3>2. at[g] \in {"append", "submit"} \/ (at[g] = "done" /\ g \in Texts)
      <4>1. CASE Resolved(h)
        <5>1. \A t \in Texts : op[t].kind = "text"
          BY DEF MovesAreKnown, TextOp
        <5> QED BY <4>1, <5>1 DEF Resolved
      <4>2. CASE Collect(h)
        BY <4>2 DEF Collect
      <4>3. CASE Append1(h)
        BY <4>3 DEF Append1
      <4>4. CASE Submit(h)
        BY <4>4 DEF Submit
      <4>5. CASE Resolve(h)
        BY <4>5 DEF Resolve
      <4> QED BY <2>1, <4>1, <4>2, <4>3, <4>4, <4>5
    <3> QED BY <1>1, <1>3, <3>1, <3>2
  <2>2. CASE Lookup(h)
    <3>1. mapping' = mapping
      BY <2>2 DEF Lookup, mapVars
    <3>2. CASE mapping[key[h]] # None
      BY <1>1, <1>3, <2>2, <3>1, <3>2 DEF Lookup
    <3>3. CASE mapping[key[h]] = None
      BY <1>1, <1>3, <2>2, <3>1, <3>3 DEF Lookup
    <3> QED BY <3>2, <3>3
  <2>3. CASE Create(h)
    BY <1>1, <1>3, <2>3 DEF Create
  <2>4. CASE Insert(h)
    <3>1. CASE mapping[key[h]] # None
      BY <1>1, <1>3, <2>4, <3>1 DEF Insert
    <3>2. CASE mapping[key[h]] = None
      <4>1. session[h] \in Sessions /\ session[h] # None
        BY <2>4 DEF Insert, Owns
      <4>2. session' = session /\ at' = [at EXCEPT ![h] = "append"]
            /\ mapping' = [mapping EXCEPT ![key[h]] = session[h]]
        BY <2>4, <3>2 DEF Insert
      <4>3. CASE g = h
        BY <1>1, <1>2, <4>1, <4>2, <4>3
      <4>4. CASE g # h
        BY <1>1, <1>2, <1>3, <3>2, <4>2, <4>4
      <4> QED BY <4>3, <4>4
    <3> QED BY <3>1, <3>2
  <2>5. CASE Forget(h)
    <3>1. key[h] \in moved
      BY <2>5 DEF Forget, MovesAreKnown
    <3>2. g # h
      BY <1>2, <3>1
    <3> QED BY <1>1, <1>3, <2>5, <3>2 DEF Forget, mapVars
  <2>6. CASE Set(h)
    <3>1. key[h] \in moved
      BY <2>6 DEF Set, MovesAreKnown
    <3>2. key[g] # key[h]
      BY <1>2, <3>1
    <3> QED BY <1>1, <1>2, <1>3, <2>6, <3>2 DEF Set
  <2> QED BY <1>5, <2>1, <2>2, <2>3, <2>4, <2>5, <2>6, Zenon DEF Handle
<1>6. ASSUME NEW t \in Texts, Turn(t) PROVE UNCHANGED <<at, session, mapping>>
  BY <1>6, Zenon DEF Turn, TurnBegins, TurnCalls, TurnAsks, TurnHears, TurnEnds, handlerVars, mapVars
<1>7. ASSUME NEW t \in Texts, ReceiveText(t) PROVE session'[g] # None /\ session'[g] = mapping'[key'[g]]
  BY <1>1, <1>3, <1>7 DEF ReceiveText, mapVars
<1>8. ASSUME NEW c \in Controls, ReceiveControl(c) PROVE session'[g] # None /\ session'[g] = mapping'[key'[g]]
  <2>1. UNCHANGED <<session, mapping>> /\ \E p \in {"lookup", "collect"} : at' = [at EXCEPT ![c] = p]
    BY <1>8 DEF ReceiveControl, mapVars
  <2> QED BY <1>1, <1>3, <2>1
<1>9. ~Restart
  BY BoundsAreNatural DEF Restart
<1>10. ASSUME UNCHANGED vars PROVE UNCHANGED <<at, session, mapping>>
  BY <1>10 DEF vars, handlerVars, mapVars
<1> QED BY <1>4, <1>5, <1>6, <1>7, <1>8, <1>9, <1>10, Zenon DEF Next, Step

\* The messages of a chat go to one session, however their handlers interleave.
THEOREM OneSession == Spec => []OneSessionPerChat
<1>1. Init => SessionInv
  BY DEF Init, SessionInv, MovesAreKnown, SessionsAgree, TextOp, Handlers
<1>2. TypeInv /\ SessionInv /\ [Next]_vars => SessionInv'
  BY MovesStep, AgreeStep DEF SessionInv
<1> QED BY <1>1, <1>2, TypesAlways, SessionImplies, PTL DEF Spec

-----------------------------------------------------------------------------
(* The map after a restart *)

\* Who appends last has the session that the map has, unless two records of the
\* chat were to be appended at the same time.
Crossed == \A g, h \in Handlers :
              g # h /\ at[g] = "append" /\ at[h] = "append" /\ key[g] = key[h] => key[g] \in crossed
RecordsMap == \A h \in Handlers : at[h] = "append" => key[h] \in crossed \/ session[h] = mapping[key[h]]
RestartInv == Crossed /\ RecordsMap /\ MapSurvivesRestart

LEMMA CrossedStep == ASSUME TypeInv, Crossed, [Next]_vars PROVE Crossed' /\ crossed \subseteq crossed'
<1>1. CASE Step /\ Watched
  <2>1. key' = key /\ key \in [Handlers -> Keys]
    <3>1. ASSUME NEW h \in Handlers, Handle(h) PROVE key' = key
      BY <3>1, Zenon DEF Handle, Collect, Resolve, Resolved, Lookup, Create, Insert, Forget, Set, Append1, Submit
    <3>2. ASSUME NEW t \in Texts, ReceiveText(t) \/ Turn(t) PROVE key' = key
      BY <3>2, Zenon DEF ReceiveText, Turn, TurnBegins, TurnCalls, TurnAsks, TurnHears, TurnEnds, handlerVars
    <3>3. ASSUME NEW c \in Controls, ReceiveControl(c) PROVE key' = key
      BY <3>3 DEF ReceiveControl
    <3>4. Restart => key' = key
      BY Zenon DEF Restart
    <3>5. key' = key
      BY <1>1, <3>1, <3>2, <3>3, <3>4, Zenon DEF Step
    <3> QED BY <3>5 DEF TypeInv, HandlerTypes
  <2> QED BY <1>1, <2>1 DEF Watched, Crossing, Crossed
<1>2. CASE UNCHANGED vars
  BY <1>2 DEF vars, handlerVars, Crossed
<1> QED BY <1>1, <1>2 DEF Next

\* What a step other than Insert, Set, Append1 and Restart leaves alone.
Still == /\ UNCHANGED <<key, mapping, file>>
         /\ \A h \in Handlers : at'[h] = "append" <=> at[h] = "append"
         /\ \A h \in Handlers : at[h] = "append" => session'[h] = session[h]

LEMMA StillStep ==
  ASSUME TypeInv, [Next]_vars, \A h \in Handlers : ~(Insert(h) \/ Set(h) \/ Append1(h)), ~Restart
  PROVE  Still
<1> USE DEF TypeInv, HandlerTypes, MapTypes, Still, Goto, Use
<1>1. ASSUME NEW h \in Handlers, Collect(h) \/ Resolved(h) \/ Submit(h) PROVE Still
  BY <1>1 DEF Collect, Resolved, Submit, mapVars
<1>2. ASSUME NEW h \in Handlers, Resolve(h) PROVE Still
  BY <1>2 DEF Resolve, mapVars
<1>3. ASSUME NEW h \in Handlers, Lookup(h) PROVE Still
  <2>1. at[h] # "append" /\ UNCHANGED <<key, mapping, file>>
    BY <1>3 DEF Lookup, mapVars
  <2>2. CASE mapping[key[h]] # None
    BY <1>3, <2>1, <2>2 DEF Lookup
  <2>3. CASE mapping[key[h]] = None
    BY <1>3, <2>1, <2>3 DEF Lookup
  <2> QED BY <2>2, <2>3
<1>4. ASSUME NEW h \in Handlers, Create(h) PROVE Still
  BY <1>4 DEF Create
<1>5. ASSUME NEW h \in Handlers, Forget(h) PROVE Still
  BY <1>5 DEF Forget, mapVars
<1>6. ASSUME NEW t \in Texts, ReceiveText(t) PROVE Still
  BY <1>6 DEF ReceiveText, mapVars
<1>7. ASSUME NEW c \in Controls, ReceiveControl(c) PROVE Still
  <2>1. /\ UNCHANGED <<key, session, mapVars>> /\ at[c] = "idle"
        /\ \E p \in {"lookup", "collect"} : at' = [at EXCEPT ![c] = p]
    BY <1>7 DEF ReceiveControl
  <2> QED BY <2>1 DEF mapVars
<1>8. ASSUME NEW t \in Texts, Turn(t) PROVE Still
  <2>1. UNCHANGED <<key, mapping, file, at, session>>
    BY <1>8, Zenon DEF Turn, TurnBegins, TurnCalls, TurnAsks, TurnHears, TurnEnds, handlerVars, mapVars
  <2> QED BY <2>1
<1>9. ASSUME UNCHANGED vars PROVE Still
  BY <1>9 DEF vars, handlerVars, mapVars
<1> QED BY <1>1, <1>2, <1>3, <1>4, <1>5, <1>6, <1>7, <1>8, <1>9, Zenon DEF Next, Step, Handle

LEMMA RestartStep == ASSUME TypeInv, RestartInv, [Next]_vars PROVE RecordsMap' /\ MapSurvivesRestart'
<1> USE DEF TypeInv, HandlerTypes, MapTypes
<1>0. crossed \subseteq crossed' /\ Crossed'
  BY CrossedStep DEF RestartInv
<1>1. CASE Still
  <2>1. \A k \in Keys : Replay(k)' = Replay(k)
    BY <1>1 DEF Still, Replay
  <2> QED BY <1>0, <1>1, <2>1 DEF Still, RestartInv, RecordsMap, MapSurvivesRestart
<1>2. ASSUME NEW h \in Handlers, Insert(h) \/ Set(h) PROVE RecordsMap' /\ MapSurvivesRestart'
  <2>1. CASE Insert(h) /\ mapping[key[h]] # None
    <3>1. Still
      BY <2>1 DEF Insert, Still, Goto, Use
    <3> QED BY <1>1, <3>1
  <2>2. CASE Set(h) \/ (Insert(h) /\ mapping[key[h]] = None)
    <3>1. /\ UNCHANGED <<key, file, session>> /\ at' = [at EXCEPT ![h] = "append"]
          /\ mapping' = [mapping EXCEPT ![key[h]] = session[h]]
      BY <2>2 DEF Insert, Set, Goto
    <3>2. \A k \in Keys : Replay(k)' = Replay(k)
      BY <3>1 DEF Replay
    <3>3. RecordsMap'
      BY <1>0, <3>1 DEF RecordsMap, RestartInv, Crossed
    <3>4. MapSurvivesRestart'
      BY <1>0, <3>1, <3>2 DEF MapSurvivesRestart, RestartInv
    <3> QED BY <3>3, <3>4
  <2> QED BY <1>2, <2>1, <2>2
<1>3. ASSUME NEW h \in Handlers, Append1(h) PROVE RecordsMap' /\ MapSurvivesRestart'
  <2>1. /\ UNCHANGED <<key, mapping, session>> /\ at[h] = "append" /\ at' = [at EXCEPT ![h] = "submit"]
        /\ file' = Append(file, [key |-> key[h], session |-> session[h]])
    BY <1>3 DEF Append1, Goto
  <2>2. key[h] \in Keys /\ session[h] \in Sessions
    BY <2>1 DEF Owns
  <2>3. Replay(key[h])' = session[h] /\ \A k \in Keys \ {key[h]} : Replay(k)' = Replay(k)
    BY <2>1, <2>2, AppendLast
  <2>4. RecordsMap'
    BY <1>0, <2>1 DEF RecordsMap, RestartInv
  <2>5. MapSurvivesRestart'
    BY <1>0, <2>1, <2>3 DEF MapSurvivesRestart, RecordsMap, RestartInv
  <2> QED BY <2>4, <2>5
<1>4. ASSUME Restart PROVE RecordsMap' /\ MapSurvivesRestart'
  <2>1. /\ file' = file /\ mapping' = [k \in Keys |-> Replay(k)]
        /\ at' = [h \in Handlers |-> IF at[h] = "idle" THEN "idle" ELSE "done"]
    BY <1>4 DEF Restart
  <2>2. \A k \in Keys : Replay(k)' = Replay(k)
    BY <2>1 DEF Replay
  <2> QED BY <2>1, <2>2 DEF RecordsMap, MapSurvivesRestart
<1> QED BY <1>1, <1>2, <1>3, <1>4, StillStep, Zenon

\* A restart finds every chat's session where it was left.
THEOREM MapSurvives == Spec => []MapSurvivesRestart
<1>1. Init => RestartInv
  <2>1. Init => \A k \in Keys : Replay(k) = None
    BY DEF Init, Replay
  <2> QED BY <2>1 DEF Init, RestartInv, Crossed, RecordsMap, MapSurvivesRestart
<1>2. TypeInv /\ RestartInv /\ [Next]_vars => RestartInv'
  BY CrossedStep, RestartStep DEF RestartInv
<1>3. RestartInv => MapSurvivesRestart
  BY DEF RestartInv
<1> QED BY <1>1, <1>2, <1>3, TypesAlways, PTL DEF Spec
=============================================================================
