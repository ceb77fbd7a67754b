----------------------------- MODULE SessionLog -----------------------------
(***************************************************************************)
(* A session's messages.jsonl and the files its tools change               *)
(* (src/session.rs).  The log is only appended to; the visible history is  *)
(* replayed from it.  A rewind restores files one by one from the recorded *)
(* snapshots and then appends the history before its target.  Supervisors  *)
(* of processes append events and the CLI compacts from other processes;   *)
(* others edit the files; the process may crash at any step.               *)
(***************************************************************************)
EXTENDS Naturals, Sequences, FiniteSets, FiniteSetsExt

CONSTANTS Files, Contents,
          Missing,   \* the contents of a file that is not there
          None,
          MaxLog,    \* bound on the lines of the log
          MaxEvents,      \* bound on other messages than the users'
          MaxTrouble,     \* bound on edits from outside, failed restores and crashes
          MaxCompactions  \* bound on compactions

ASSUME BoundsAreNumbers ==
  /\ MaxLog \in Nat /\ MaxEvents \in Nat /\ MaxTrouble \in Nat /\ MaxCompactions \in Nat
  /\ Missing \notin Contents

VARIABLES
  log,      \* the lines
  disk,     \* the files
  turn,     \* a turn runs
  tool,     \* its open call of a file tool, or None
  rewind,   \* a rewind under way, or None
  compact,  \* the history a compaction is about to append, or None
  trouble, compactions,  \* how much of them there has been
  past,     \* history: the files when each line was appended
  base,     \* history: the last change of each file that no snapshot records, and
            \* whether the rewinds that had already taken their look have left it there
  begun,    \* history: the rewinds that were begun, and when
  raced     \* history: a turn has started while a rewind was under way

vars == <<log, disk, turn, tool, rewind, compact, trouble, compactions, past, base, begun, raced>>

States  == Contents \cup {Missing}
Tools   == [file : Files, before : States, written : BOOLEAN, hit : BOOLEAN]
Items   == [id : 1 .. MaxLog + MaxCompactions, user : BOOLEAN]
Rewindings == [target : 1 .. MaxLog + MaxCompactions, direct : BOOLEAN,
               history : Seq(Items), todo : SUBSET (1 .. MaxLog), checked : BOOLEAN]

\* No rewind, no compaction and no call is one.
ASSUME NoneIsNone == None \notin Tools /\ None \notin Rewindings /\ None \notin Seq(Items)

Entries == [kind : {"message"}, user : BOOLEAN]
           \cup [kind : {"snapshot"}, file : Files, before : States, after : States]
           \cup [kind : {"replacement"}, history : Seq(Items)]

TypeOK ==
  /\ log \in Seq(Entries) /\ Len(log) <= MaxLog
  /\ disk \in [Files -> States] /\ turn \in BOOLEAN /\ raced \in BOOLEAN
  /\ tool = None \/ tool \in Tools
  /\ \/ rewind = None
     \/ /\ rewind \in Rewindings
        /\ \A i \in rewind.todo : i \in DOMAIN log /\ log[i].kind = "snapshot"
        /\ rewind.checked => rewind.todo # {}
  /\ compact = None \/ compact \in Seq(Items)
  /\ trouble \in 0 .. MaxTrouble /\ compactions \in 0 .. MaxCompactions
  /\ past \in Seq([Files -> States]) /\ Len(past) = Len(log)
  /\ base \in [Files -> [at : Nat, contents : States, kept : BOOLEAN]]
  /\ begun \subseteq [target : 1 .. MaxLog + MaxCompactions, at : Nat]

Init ==
  /\ log = <<>> /\ disk \in [Files -> States] /\ turn = FALSE /\ tool = None
  /\ rewind = None /\ compact = None /\ trouble = 0 /\ compactions = 0
  /\ past = <<>> /\ base = [f \in Files |-> [at |-> 0, contents |-> disk[f], kept |-> TRUE]]
  /\ begun = {} /\ raced = FALSE

-----------------------------------------------------------------------------
(* The log *)

Message(l, i) == [id |-> i, user |-> l[i].user]

\* Mutant of Replayed: replacements are not replayed.
Replayed_Everything(h, l, i) == IF l[i].kind = "message" THEN Append(h, Message(l, i)) ELSE h

\* replay_visible_history, one line of it: what it makes of the history before the line.
Replayed(h, l, i) == CASE l[i].kind = "message"     -> Append(h, Message(l, i))
                       [] l[i].kind = "replacement" -> l[i].history
                       [] OTHER                     -> h
Visible(l) ==
  LET v[i \in 0 .. Len(l)] == IF i = 0 THEN <<>> ELSE Replayed(v[i - 1], l, i)
  IN v[Len(l)]

Replacements(l) == {i \in DOMAIN l : l[i].kind = "replacement"}

AppendEntry(e) == /\ Len(log) < MaxLog
                  /\ log' = Append(log, e)
                  /\ past' = Append(past, disk')

Trouble == trouble < MaxTrouble /\ trouble' = trouble + 1

\* Since line n and up to line m the contents c were not recorded as those of f.
Unrecorded(f, c, n, m) ==
  \A i \in DOMAIN log : i \in n + 1 .. m /\ log[i].kind = "snapshot" /\ log[i].file = f
                          => log[i].after # c
Changed(f, n, c) == base' = [base EXCEPT ![f] = [at |-> n, contents |-> c, kept |-> TRUE]]

-----------------------------------------------------------------------------
(* The turn *)

TurnBegins ==
  /\ ~turn /\ turn' = TRUE /\ raced' = (raced \/ rewind # None)
  /\ UNCHANGED disk /\ AppendEntry([kind |-> "message", user |-> TRUE])
  /\ UNCHANGED <<tool, rewind, compact, trouble, compactions, base, begun>>

\* A message of the turn, or the event of a supervisor.
MessageArrives ==
  /\ Cardinality({i \in DOMAIN log : log[i].kind = "message" /\ ~log[i].user}) < MaxEvents
  /\ UNCHANGED disk /\ AppendEntry([kind |-> "message", user |-> FALSE])
  /\ UNCHANGED <<turn, tool, rewind, compact, trouble, compactions, base, begun, raced>>

ToolCaptures(f) ==
  /\ turn /\ tool = None
  /\ tool' = [file |-> f, before |-> disk[f], written |-> FALSE, hit |-> FALSE]
  /\ UNCHANGED <<log, disk, turn, rewind, compact, trouble, compactions, past, base, begun, raced>>

ToolWrites(c) ==
  /\ tool # None /\ ~tool.written
  /\ disk' = [disk EXCEPT ![tool.file] = c] /\ tool' = [tool EXCEPT !.written = TRUE]
  /\ UNCHANGED <<log, turn, rewind, compact, trouble, compactions, past, base, begun, raced>>

\* The write failed: nothing is recorded.
ToolFails ==
  /\ tool # None /\ ~tool.written /\ tool' = None
  /\ UNCHANGED <<log, disk, turn, rewind, compact, trouble, compactions, past, base, begun, raced>>

\* The state after the change is read again from the file.
ToolRecords ==
  /\ tool # None /\ tool.written /\ tool' = None
  /\ UNCHANGED disk
  /\ AppendEntry([kind |-> "snapshot", file |-> tool.file,
                  before |-> tool.before, after |-> disk[tool.file]])
  /\ IF tool.hit THEN Changed(tool.file, Len(log) + 1, disk[tool.file]) ELSE UNCHANGED base
  /\ UNCHANGED <<turn, rewind, compact, trouble, compactions, begun, raced>>

TurnEnds ==
  /\ turn /\ tool = None /\ turn' = FALSE
  /\ UNCHANGED <<log, disk, tool, rewind, compact, trouble, compactions, past, base, begun, raced>>

-----------------------------------------------------------------------------
(* The rewind *)

Recorded(n) == n + 1 .. Len(log)

\* Mutant of Snapshots: the other lines are not left out.
Snapshots_Lines(n) == Recorded(n)

\* The lines after that of the target that hold a snapshot; a message that only a
\* compaction has made has no line.
Snapshots(n) == {i \in Recorded(n) : log[i].kind = "snapshot"}

\* Mutant of NextSnapshot: the oldest is restored first.
NextSnapshot_Forward(todo) == Min(todo)

\* The newest is restored first.
NextSnapshot(todo) == Max(todo)
IsLine(id)   == id \in DOMAIN log

\* One rewind at a time is a bound of the model: nothing in the code keeps two apart.
RewindReads ==
  /\ ~turn /\ rewind = None
  /\ LET visible == Visible(log)
     IN \E i \in DOMAIN visible :
          /\ visible[i].user
          /\ rewind' = [target |-> visible[i].id, direct |-> IsLine(visible[i].id),
                        history |-> SubSeq(visible, 1, i - 1),
                        todo |-> IF IsLine(visible[i].id) THEN Snapshots(visible[i].id) ELSE {},
                        checked |-> FALSE]
          /\ begun' = begun \cup {[target |-> visible[i].id, at |-> Len(log)]}
  /\ UNCHANGED <<log, disk, turn, tool, compact, trouble, compactions, past, base, raced>>

\* Mutant of Matches: the checksum is not compared.
Matches_Always(s) == TRUE

\* file_digest_matches_after.
Matches(s) == disk[s.file] = s.after

\* A file is restored when its contents are those recorded after the change; one that
\* does not match is skipped with a warning.
RewindChecks ==
  /\ rewind # None /\ rewind.todo # {} /\ ~rewind.checked
  /\ rewind' = IF Matches(log[NextSnapshot(rewind.todo)]) THEN [rewind EXCEPT !.checked = TRUE]
               ELSE [rewind EXCEPT !.todo = @ \ {NextSnapshot(@)}]
  /\ UNCHANGED <<log, disk, turn, tool, compact, trouble, compactions, past, base, begun, raced>>

\* The backup is read and written, or the new file is deleted, whatever is there by now;
\* if that fails, the file is skipped.
RewindWrites ==
  /\ rewind # None /\ rewind.checked
  /\ rewind' = [rewind EXCEPT !.todo = @ \ {NextSnapshot(@)}, !.checked = FALSE]
  /\ LET s == log[NextSnapshot(rewind.todo)]
     IN \/ /\ disk' = [disk EXCEPT ![s.file] = s.before] /\ UNCHANGED trouble
           /\ base' = IF Matches(s) THEN base ELSE [base EXCEPT ![s.file].kept = FALSE]
        \/ /\ Trouble /\ Changed(s.file, Len(log), disk[s.file])
           /\ UNCHANGED disk
  /\ UNCHANGED <<log, turn, tool, compact, compactions, past, begun, raced>>

RewindEnds ==
  /\ rewind # None /\ rewind.todo = {} /\ rewind' = None
  /\ UNCHANGED disk /\ AppendEntry([kind |-> "replacement", history |-> rewind.history])
  /\ UNCHANGED <<turn, tool, compact, trouble, compactions, base, begun, raced>>

-----------------------------------------------------------------------------
(* Other processes *)

\* One round of build_replacement_history: the new message comes in the place of the
\* last old one.
Compacted(kept, h, i, ids, last, new) ==
  IF h[i].id \notin ids THEN Append(kept, h[i])
  ELSE IF i = last THEN Append(kept, new) ELSE kept

Replaced(h, ids, new) ==
  LET last == Max({i \in DOMAIN h : h[i].id \in ids})
      kept[i \in 0 .. Len(h)] ==
        IF i = 0 THEN <<>> ELSE Compacted(kept[i - 1], h, i, ids, last, new)
  IN kept[Len(h)]

CompactReads ==
  /\ compact = None /\ compactions < MaxCompactions /\ compactions' = compactions + 1
  /\ LET visible == Visible(log)
     IN \E ids \in (SUBSET {visible[i].id : i \in DOMAIN visible}) \ {{}}, user \in BOOLEAN :
          compact' = Replaced(visible, ids, [id |-> MaxLog + compactions', user |-> user])
  /\ UNCHANGED <<log, disk, turn, tool, rewind, trouble, past, base, begun, raced>>

CompactEnds ==
  /\ compact # None /\ compact' = None
  /\ UNCHANGED disk /\ AppendEntry([kind |-> "replacement", history |-> compact])
  /\ UNCHANGED <<turn, tool, rewind, trouble, compactions, base, begun, raced>>

EditsFromOutside(f, c) ==
  /\ Trouble /\ c # disk[f]
  /\ disk' = [disk EXCEPT ![f] = c] /\ Changed(f, Len(log), c)
  /\ tool' = IF tool # None /\ tool.file = f THEN [tool EXCEPT !.hit = TRUE] ELSE tool
  /\ UNCHANGED <<log, turn, rewind, compact, compactions, past, begun, raced>>

\* What a tool has written and not recorded is a change no snapshot knows of.
Crash ==
  /\ Trouble /\ (turn \/ rewind # None)
  /\ turn' = FALSE /\ tool' = None /\ rewind' = None
  /\ IF tool # None /\ tool.written THEN Changed(tool.file, Len(log), disk[tool.file])
     ELSE UNCHANGED base
  /\ UNCHANGED <<log, disk, compact, compactions, past, begun, raced>>

Next == \/ TurnBegins \/ MessageArrives \/ ToolFails \/ ToolRecords \/ TurnEnds \/ Crash
        \/ RewindReads \/ RewindChecks \/ RewindWrites \/ RewindEnds
        \/ CompactReads \/ CompactEnds
        \/ \E f \in Files : ToolCaptures(f) \/ \E c \in States : EditsFromOutside(f, c)
        \/ \E c \in States : ToolWrites(c)

Spec == Init /\ [][Next]_vars

-----------------------------------------------------------------------------
Rewinds == rewind # None /\ rewind' = None /\ log' # log

Furthest(t) == \A r \in begun : r.target < t => r.at < t

\* A rewind gives each file back as it was when its target was appended, if since then
\* only the session's tools have changed it: whatever they wrote, however often the
\* session was rewound, and however far an earlier rewind came before a crash, if
\* that one went no further back (restore_file_snapshots_after).
RestoresFiles ==
  [][Rewinds /\ rewind.direct /\ ~raced /\ Furthest(rewind.target) =>
       \A f \in Files : base[f].at < rewind.target => disk[f] = past[rewind.target][f]]_vars

\* A rewind gives back the last contents a file got from elsewhere (the checksum guard
\* of restore_file_snapshot), with two exceptions: a tool call before them had left the
\* same contents, or they came between the checksum and the write of a restore, which
\* takes them for what it has compared (base[f].kept).
KeepsEdits ==
  [][Rewinds /\ rewind.direct /\ ~raced /\ Furthest(rewind.target) =>
       \A f \in Files :
          base[f].at >= rewind.target /\ base[f].kept
          /\ Unrecorded(f, base[f].contents, rewind.target, base[f].at)
            => disk[f] = base[f].contents]_vars

\* The log implements the history: replaying it gives what was said, rewound and
\* compacted, in the order of the lines (replay_visible_history).
History == INSTANCE SessionHistory WITH
             visible <- Visible(log),
             replaced <- Cardinality(Replacements(log)),
             plan <- [e \in {"rewind", "compact"} |->
                        IF e = "compact" THEN compact
                        ELSE IF rewind = None THEN None ELSE rewind.history]
HistoryIsKept == History!Spec
=============================================================================
