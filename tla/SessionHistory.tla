--------------------------- MODULE SessionHistory ---------------------------
(***************************************************************************)
(* What a session promises of the history its model and its user see: it   *)
(* grows by messages, and an editor, a rewind or a compaction, replaces it *)
(* by a version it has made of the history it read.                        *)
(***************************************************************************)
EXTENDS Naturals, Sequences, FiniteSets, Functions

CONSTANTS Items,  \* messages: an id, and whether a user turn starts with it
          None

VARIABLES visible,   \* the history
          replaced,  \* how often it has been
          plan       \* what each editor is about to make of it

Editors == {"rewind", "compact"}
vars == <<visible, replaced, plan>>

Init == visible = <<>> /\ replaced = 0 /\ plan = [e \in Editors |-> None]

Say == /\ UNCHANGED <<replaced, plan>>
       /\ \E m \in Items \ Range(visible) : visible' = Append(visible, m)

\* The history before a user turn.
Cut(h, i) == SubSeq(h, 1, i - 1)

\* s is h with m for the messages at the places S: m stands where the last of them
\* stood, and the others stay in their order.
IsSummary(s, h, S, m) ==
  \E last \in S :
    LET left == (DOMAIN h \ S) \cup {last}
    IN /\ \A i \in S : i <= last
       /\ Len(s) = Cardinality(left)
       /\ \A i \in left :
            s[Cardinality({j \in left : j <= i})] = IF i = last THEN m ELSE h[i]

Plan == /\ UNCHANGED <<visible, replaced>>
        /\ \/ /\ plan["rewind"] = None
              /\ \E i \in DOMAIN visible :
                   visible[i].user /\ plan' = [plan EXCEPT !["rewind"] = Cut(visible, i)]
           \/ /\ plan["compact"] = None /\ plan'["compact"] \in Seq(Items)
              /\ plan' = [plan EXCEPT !["compact"] = plan'["compact"]]
              /\ \E m \in Items, S \in (SUBSET DOMAIN visible) \ {{}} :
                   IsSummary(plan'["compact"], visible, S, m)

\* The last version wins, whatever was said since it was made.
Commit(e) == /\ plan[e] # None
             /\ visible' = plan[e] /\ replaced' = replaced + 1
             /\ plan' = [plan EXCEPT ![e] = None]

Abandon(e) == /\ plan[e] # None /\ plan' = [plan EXCEPT ![e] = None]
              /\ UNCHANGED <<visible, replaced>>

Next == Say \/ Plan \/ \E e \in Editors : Commit(e) \/ Abandon(e)

Spec == Init /\ [][Next]_vars
=============================================================================
