----------------------------- MODULE GatewayChat -----------------------------
(***************************************************************************)
(* Inbound messages of src/gateway/mod.rs: the map from chats to sessions  *)
(* and its file, the approvals that block turns, and the policy all turns  *)
(* of the runtime share.  Every connection is served by a thread of its    *)
(* own, so handlers of one chat interleave.  Of the agent only what it     *)
(* does to approvals is kept; AgentRuntime has the rest.                   *)
(***************************************************************************)
EXTENDS Naturals, Sequences, FiniteSets, FiniteSetsExt

CONSTANTS Texts,       \* chat messages
          Controls,    \* /new, /resume, /approve and /deny; the target of a scheduled task
          Keys,        \* session keys: records of a chat and a thread of it
          Origins,     \* the ways in which messages may come from chats
          NoThread, None,
          Sessions,    \* session ids
          MaxCalls,    \* bound on the guarded calls of a turn
          MaxRestarts  \* bound on restarts of the gateway

Handlers  == Texts \cup Controls
Decisions == {"once", "session", "forbidden"}
\* "always" is to the policy what "session" is.
Approvals == {[kind |-> "approval", all |-> a, decision |-> d] : a \in BOOLEAN, d \in Decisions}
             \cup {[kind |-> "id", all |-> FALSE, decision |-> d] : d \in Decisions}
Commands  == {[kind |-> k, all |-> TRUE, decision |-> "forbidden"] : k \in {"new", "resume", "ensure"}}
TextOp    == [kind |-> "text", all |-> TRUE, decision |-> "forbidden"]

ASSUME HandlersAreDistinct ==
  Texts \cap Controls = {} /\ None \notin Texts \cup Sessions \cup Keys /\ None \notin Decisions
ASSUME OriginsAreKeys == Origins \subseteq [Handlers -> Keys]
ASSUME BoundsAreNatural == MaxCalls \in Nat /\ MaxRestarts \in Nat

VARIABLES
  at,        \* where each handler is
  op,        \* what it was asked
  key,       \* the chat it came from
  session,   \* the session it has found or made
  ids,       \* the requests it is about to resolve
  mapping,   \* GatewaySessionStore.mappings
  file,      \* sessions.jsonl
  created,   \* the sessions that exist
  pending,   \* PendingApprovals: requests <<turn, n>>
  turn,      \* the progress of the turn each text starts
  busy,      \* the turn that holds main_turn_running of a session
  calls,     \* guarded calls made, per turn
  answer,    \* what its response channel holds, per turn
  allowed,   \* ApprovalPolicy: the command is in session_allow_commands
  forbidden, \* ApprovalPolicy: it is in loop_forbidden_commands
  restarts,
  moved,     \* history: the chats that got a /new or /resume
  crossed,   \* history: the chats for which two handlers appended to the file at the same time
  denied,    \* history: the turns that were denied the command
  forgiven   \* history: the turns for which the policy changed since

handlerVars == <<at, op, key, session, ids>>
mapVars     == <<mapping, file, created>>
turnVars    == <<turn, busy, calls, answer>>
policyVars  == <<allowed, forbidden, denied, forgiven>>
vars == <<handlerVars, mapVars, turnVars, policyVars, pending, restarts, moved, crossed>>

TypeOK ==
  /\ at \in [Handlers -> {"idle", "collect", "resolve", "lookup", "create", "insert", "forget",
                          "set", "append", "submit", "done"}]
  /\ op \in [Handlers -> Approvals \cup Commands \cup {TextOp}]
  /\ key \in [Handlers -> Keys] /\ session \in [Handlers -> Sessions \cup {None}]
  /\ ids \in [Handlers -> SUBSET (Texts \X (1 .. MaxCalls))]
  /\ mapping \in [Keys -> Sessions \cup {None}] /\ file \in Seq([key : Keys, session : Sessions])
  /\ created \subseteq Sessions /\ pending \subseteq Texts \X (1 .. MaxCalls)
  /\ turn \in [Texts -> {"none", "steered", "starting", "running", "prompting", "asking", "done"}]
  /\ busy \in [Sessions -> Texts \cup {None}] /\ calls \in [Texts -> 0 .. MaxCalls]
  /\ answer \in [Texts -> Decisions \cup {None}]
  /\ allowed \in BOOLEAN /\ forbidden \in BOOLEAN /\ restarts \in 0 .. MaxRestarts
  /\ moved \subseteq Keys /\ crossed \subseteq Keys
  /\ denied \subseteq Texts /\ forgiven \subseteq Texts

Init ==
  /\ at = [h \in Handlers |-> "idle"] /\ op = [h \in Handlers |-> TextOp]
  /\ key \in Origins /\ session = [h \in Handlers |-> None]
  /\ ids = [h \in Handlers |-> {}]
  /\ mapping = [k \in Keys |-> None] /\ file = <<>> /\ created = {} /\ pending = {}
  /\ turn = [t \in Texts |-> "none"] /\ busy = [s \in Sessions |-> None]
  /\ calls = [t \in Texts |-> 0] /\ answer = [t \in Texts |-> None]
  /\ allowed = FALSE /\ forbidden = FALSE /\ restarts = 0
  /\ moved = {} /\ crossed = {} /\ denied = {} /\ forgiven = {}

Goto(h, place) == at' = [at EXCEPT ![h] = place]

\* approval_route_matches: a key without a thread stands for all threads of its chat.
RouteMatches(asked, incoming) ==
  /\ asked.chat = incoming.chat
  /\ asked.thread = incoming.thread \/ asked.thread = NoThread \/ incoming.thread = NoThread

-----------------------------------------------------------------------------
(* Inbound: submit_inbound of a message that has access *)

ReceiveText(t) ==
  /\ at[t] = "idle" /\ Goto(t, "collect")
  /\ UNCHANGED <<op, key, session, ids, mapVars, turnVars, policyVars, pending, restarts, moved>>

ReceiveControl(c) ==
  /\ at[c] = "idle"
  /\ \E o \in Approvals \cup Commands :
       /\ op' = [op EXCEPT ![c] = o]
       /\ Goto(c, IF o.kind = "ensure" THEN "lookup" ELSE "collect")
       /\ moved' = IF o.kind \in {"new", "resume"} THEN moved \cup {key[c]} ELSE moved
  /\ UNCHANGED <<key, session, ids, mapVars, turnVars, policyVars, pending, restarts>>

\* Mutant of Matching: only requests of the very same key.
Matching_Exact(h) == {id \in pending : key[id[1]] = key[h]}

\* resolve_for_key, under the lock: the matching requests, in the order of a hash
\* map; all of them, or the first.  An id names a request of any chat.
Matching(h) == {id \in pending : RouteMatches(key[id[1]], key[h])}
Collect(h) ==
  /\ at[h] = "collect" /\ Goto(h, "resolve")
  /\ \E targets \in SUBSET pending :
       /\ \/ op[h].kind = "id" /\ Cardinality(targets) <= 1
          \/ op[h].all /\ targets = Matching(h)
          \/ /\ op[h].kind # "id" /\ ~op[h].all /\ targets \subseteq Matching(h)
             /\ Cardinality(targets) = IF Matching(h) = {} THEN 0 ELSE 1
       /\ ids' = [ids EXCEPT ![h] = targets]
  /\ UNCHANGED <<op, key, session, mapVars, turnVars, policyVars, pending, restarts, moved>>

\* Mutant of Resolve: all requests of the route are taken out for the one that is answered.
Resolve_Drains(h) ==
  /\ at[h] = "resolve"
  /\ \E id \in ids[h] :
       /\ ids' = [ids EXCEPT ![h] = @ \ {id}]
       /\ pending' = pending \ Matching(h)
       /\ answer' = IF id \in pending THEN [answer EXCEPT ![id[1]] = op[h].decision] ELSE answer
  /\ UNCHANGED <<at, op, key, session, mapVars, turn, busy, calls, policyVars, restarts, moved>>

\* resolve: one request at a time, each under the lock; another handler may have
\* been faster.
Resolve(h) ==
  /\ at[h] = "resolve"
  /\ \E id \in ids[h] :
       /\ ids' = [ids EXCEPT ![h] = @ \ {id}]
       /\ pending' = pending \ {id}
       /\ answer' = IF id \in pending THEN [answer EXCEPT ![id[1]] = op[h].decision] ELSE answer
  /\ UNCHANGED <<at, op, key, session, mapVars, turn, busy, calls, policyVars, restarts, moved>>

Resolved(h) ==
  /\ at[h] = "resolve" /\ ids[h] = {}
  /\ Goto(h, CASE op[h].kind = "text" -> "lookup" [] op[h].kind \in {"new", "resume"} -> "forget"
               [] OTHER -> "done")
  /\ UNCHANGED <<op, key, session, ids, mapVars, turnVars, policyVars, pending, restarts, moved>>

-----------------------------------------------------------------------------
(* The session of a chat: GatewaySessionStore *)

Use(h, s) == session' = [session EXCEPT ![h] = s]

\* get_or_create, the first look.
Lookup(h) ==
  /\ at[h] = "lookup"
  /\ IF mapping[key[h]] # None THEN Use(h, mapping[key[h]]) /\ Goto(h, "submit")
                               ELSE session' = session /\ Goto(h, "create")
  /\ UNCHANGED <<op, key, ids, mapVars, turnVars, policyVars, pending, restarts, moved>>

\* A fresh session; which id it gets does not matter.
Fresh == CHOOSE s \in Sessions : s \notin created
Create(h) ==
  /\ at[h] = "create" /\ created # Sessions
  /\ created' = created \cup {Fresh} /\ Use(h, Fresh)
  /\ Goto(h, IF op[h].kind = "new" THEN "set" ELSE "insert")
  /\ UNCHANGED <<op, key, ids, mapping, file, turnVars, policyVars, pending, restarts, moved>>

\* Mutant of Insert: no second look.
Insert_Blind(h) ==
  /\ at[h] = "insert" /\ Goto(h, "append")
  /\ mapping' = [mapping EXCEPT ![key[h]] = session[h]]
  /\ UNCHANGED <<op, key, session, ids, file, created, turnVars, policyVars, pending, restarts, moved>>

\* get_or_create, the second look; the session of whoever comes second is abandoned.
Insert(h) ==
  /\ at[h] = "insert"
  /\ IF mapping[key[h]] # None
     THEN Use(h, mapping[key[h]]) /\ Goto(h, "submit") /\ mapping' = mapping
     ELSE session' = session /\ Goto(h, "append") /\ mapping' = [mapping EXCEPT ![key[h]] = session[h]]
  /\ UNCHANGED <<op, key, ids, file, created, turnVars, policyVars, pending, restarts, moved>>

\* /new and /resume: the old session's queue is dropped (clear_session_runtime_state),
\* and /resume takes one of the sessions the file has for the chat.
Forget(h) ==
  LET old == mapping[key[h]]
      Drop == /\ busy' = [s \in Sessions |-> IF s = old THEN None ELSE busy[s]]
              /\ turn' = [t \in Texts |-> IF turn[t] = "steered" /\ session[t] = old THEN "done" ELSE turn[t]]
  IN
  /\ at[h] = "forget"
  /\ \/ op[h].kind = "new" /\ Drop /\ Goto(h, "create") /\ session' = session
     \/ /\ op[h].kind = "resume" /\ Drop /\ Goto(h, "set")
        /\ \E i \in DOMAIN file : file[i].key = key[h] /\ Use(h, file[i].session)
     \/ \* no number, or one that is not in the list
        /\ op[h].kind = "resume" /\ UNCHANGED <<busy, turn>> /\ Goto(h, "lookup") /\ session' = session
  /\ UNCHANGED <<op, key, ids, mapVars, calls, answer, policyVars, pending, restarts, moved>>

Set(h) ==
  /\ at[h] = "set" /\ Goto(h, "append")
  /\ mapping' = [mapping EXCEPT ![key[h]] = session[h]]
  /\ UNCHANGED <<op, key, session, ids, file, created, turnVars, policyVars, pending, restarts, moved>>

\* The record is appended after the lock is given up.
Append1(h) ==
  /\ at[h] = "append" /\ Goto(h, "submit")
  /\ file' = Append(file, [key |-> key[h], session |-> session[h]])
  /\ UNCHANGED <<op, key, session, ids, mapping, created, turnVars, policyVars, pending, restarts, moved>>

\* submit_user_message: a turn of its own, or a steer of the running one.
Submit(h) ==
  /\ at[h] = "submit" /\ Goto(h, "done")
  /\ IF h \in Controls THEN UNCHANGED <<turn, busy>>
     ELSE IF busy[session[h]] = None
          THEN turn' = [turn EXCEPT ![h] = "starting"] /\ busy' = [busy EXCEPT ![session[h]] = h]
          ELSE turn' = [turn EXCEPT ![h] = "steered"] /\ busy' = busy
  /\ UNCHANGED <<op, key, session, ids, mapVars, calls, answer, policyVars, pending, restarts, moved>>

-----------------------------------------------------------------------------
(* Turns and their approvals *)

\* run_main_turn clears what is forbidden, for all turns of the runtime.
TurnBegins(t) ==
  /\ turn[t] = "starting" /\ turn' = [turn EXCEPT ![t] = "running"]
  /\ forbidden' = FALSE
  /\ forgiven' = forgiven \cup (denied \ {t})
  /\ UNCHANGED <<handlerVars, mapVars, busy, calls, answer, allowed, denied, pending, restarts, moved>>

\* request_policy_approval, under the policy's lock: refused or allowed at once, or to be asked.
TurnCalls(t) ==
  /\ turn[t] = "running" /\ calls[t] < MaxCalls
  /\ calls' = [calls EXCEPT ![t] = @ + 1]
  /\ turn' = IF forbidden \/ allowed THEN turn ELSE [turn EXCEPT ![t] = "prompting"]
  /\ UNCHANGED <<handlerVars, mapVars, busy, answer, policyVars, pending, restarts, moved>>

\* request_approval of the turn's own provider.
TurnAsks(t) ==
  /\ turn[t] = "prompting" /\ turn' = [turn EXCEPT ![t] = "asking"]
  /\ pending' = pending \cup {<<t, calls[t]>>}
  /\ UNCHANGED <<handlerVars, mapVars, busy, calls, answer, policyVars, restarts, moved>>

\* Mutant of TurnHears: a denial is told to the model and not to the policy.
TurnHears_NotKept(t) ==
  /\ turn[t] = "asking" /\ answer[t] # None
  /\ turn' = [turn EXCEPT ![t] = "running"] /\ answer' = [answer EXCEPT ![t] = None]
  /\ forbidden' = (forbidden /\ answer[t] # "session")
  /\ allowed' = (allowed \/ answer[t] = "session")
  /\ denied' = IF answer[t] = "forbidden" THEN denied \cup {t} ELSE denied
  /\ forgiven' = CASE answer[t] = "forbidden" -> forgiven \ {t}
                   [] answer[t] = "session"   -> forgiven \cup denied
                   [] OTHER                   -> forgiven
  /\ UNCHANGED <<handlerVars, mapVars, busy, calls, pending, restarts, moved>>

\* The answer arrives and is applied to the shared policy.
TurnHears(t) ==
  /\ turn[t] = "asking" /\ answer[t] # None
  /\ turn' = [turn EXCEPT ![t] = "running"] /\ answer' = [answer EXCEPT ![t] = None]
  /\ forbidden' = IF answer[t] = "forbidden" THEN TRUE
                  ELSE IF answer[t] = "session" THEN FALSE ELSE forbidden
  /\ allowed' = (allowed \/ answer[t] = "session")
  /\ denied' = IF answer[t] = "forbidden" THEN denied \cup {t} ELSE denied
  /\ forgiven' = CASE answer[t] = "forbidden" -> forgiven \ {t}
                   [] answer[t] = "session"   -> forgiven \cup denied
                   [] OTHER                   -> forgiven
  /\ UNCHANGED <<handlerVars, mapVars, busy, calls, pending, restarts, moved>>

\* The turn ends; a steer it left over may get a turn of its own.
TurnEnds(t) ==
  /\ turn[t] = "running"
  /\ LET s == session[t]
         left == {u \in Texts : turn[u] = "steered" /\ session[u] = s}
     IN \/ /\ turn' = [u \in Texts |-> IF u = t \/ u \in left THEN "done" ELSE turn[u]]
           /\ busy' = [busy EXCEPT ![s] = None]
        \/ \E u \in left : /\ turn' = [turn EXCEPT ![t] = "done", ![u] = "starting"]
                           /\ busy' = [busy EXCEPT ![s] = u]
  /\ UNCHANGED <<handlerVars, mapVars, calls, answer, policyVars, pending, restarts, moved>>

-----------------------------------------------------------------------------
\* Mutant of Replay: the first record of a key counts.
Replay_First(k) == LET records == {i \in DOMAIN file : file[i].key = k}
                   IN IF records = {} THEN None ELSE file[Min(records)].session

\* GatewaySessionStore::new: the last record of a key counts.
Replay(k) == LET records == {i \in DOMAIN file : file[i].key = k}
             IN IF records = {} THEN None ELSE file[Max(records)].session

\* The gateway stops and starts again; what was under way is gone.
Restart ==
  /\ restarts < MaxRestarts /\ restarts' = restarts + 1
  /\ at' = [h \in Handlers |-> IF at[h] = "idle" THEN "idle" ELSE "done"]
  /\ ids' = [h \in Handlers |-> {}]
  /\ mapping' = [k \in Keys |-> Replay(k)]
  /\ pending' = {} /\ busy' = [s \in Sessions |-> None]
  /\ turn' = [t \in Texts |-> IF turn[t] = "none" THEN "none" ELSE "done"]
  /\ answer' = [t \in Texts |-> None] /\ allowed' = FALSE /\ forbidden' = FALSE
  /\ UNCHANGED <<op, key, session, file, created, calls, moved, denied, forgiven>>

Handle(h) == \/ Collect(h) \/ Resolve(h) \/ Resolved(h) \/ Lookup(h) \/ Create(h) \/ Insert(h)
             \/ Forget(h) \/ Set(h) \/ Append1(h) \/ Submit(h)
Turn(t) == TurnBegins(t) \/ TurnCalls(t) \/ TurnAsks(t) \/ TurnHears(t) \/ TurnEnds(t)

Step == \/ \E t \in Texts : ReceiveText(t) \/ Turn(t)
        \/ \E c \in Controls : ReceiveControl(c)
        \/ \E h \in Handlers : Handle(h)
        \/ Restart

\* The chats whose records two handlers are about to append, in either order.
Crossing == {k \in Keys : \E g, h \in Handlers :
                g # h /\ at[g] = "append" /\ at[h] = "append" /\ key[g] = k /\ key[h] = k}
Watched == crossed' = crossed \cup Crossing'
Next == Step /\ Watched

Spec == Init /\ [][Next]_vars

\* Threads of the gateway and of the agent go on; nobody has to write or to answer,
\* and a turn need not end.
Fairness == /\ \A h \in Handlers : WF_vars(Handle(h) /\ Watched)
            /\ \A t \in Texts : WF_vars(TurnHears(t) /\ Watched)
FairSpec == Spec /\ Fairness

-----------------------------------------------------------------------------
\* A turn that waits for an answer can be answered: its request is pending, or the
\* answer is in its channel.  Otherwise it would wait for ever, for the wait has no
\* timeout (request_approval, resolve).
WaitingIsAnswerable ==
  \A t \in Texts : turn[t] = "asking" => <<t, calls[t]>> \in pending \/ answer[t] # None

\* Two messages of a chat go to one session, however their handlers interleave,
\* unless /new or /resume moved the chat or the gateway restarted (get_or_create).
OneSessionPerChat ==
  \A t, u \in Texts :
     /\ key[t] = key[u] /\ key[t] \notin moved /\ restarts = 0
     /\ turn[t] # "none" /\ turn[u] # "none"
     => session[t] = session[u]

\* A restart finds the chat's session where it was left, once the record is
\* appended; two records appended at the same time may come in the wrong order.
MapSurvivesRestart ==
  \A k \in Keys : \/ Replay(k) = mapping[k]
                 \/ k \in crossed
                 \/ \E h \in Handlers : at[h] = "append" /\ key[h] = k

\* A command denied in a turn is refused for the rest of the turn; it is asked again
\* only after another turn of the runtime began, which clears the shared policy.
DenialHolds ==
  \A t \in denied : turn[t] \in {"prompting", "asking"} => t \in forgiven

\* New input, /new, /resume and an answer to all unblock the turns of their chat:
\* every request of the chat or of a thread of it that is pending when they arrive is
\* answered, and its turn goes on.
InputUnblocks ==
  \A t \in Texts :
     (\E h \in Handlers : /\ at[h] = "collect" /\ op[h].all
                          /\ <<t, calls[t]>> \in pending /\ RouteMatches(key[t], key[h]))
        ~> turn[t] # "asking"
=============================================================================
