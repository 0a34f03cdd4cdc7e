----------------------------- MODULE GraphWalk -----------------------------
(***************************************************************************)
(* What the graph engine promises, without calls, checkpoints, pauses or   *)
(* step limits: a walk along the edges of the graph that merges the update *)
(* of every node it visits, and of every branch of a fan-out, once.  It is *)
(* the contract of src/graph/compiled.ts ("Execution model"), which        *)
(* GraphResume shows to survive any number of interrupts and resumes.      *)
(***************************************************************************)
EXTENDS Integers, Sequences, FiniteSets

CONSTANTS Nodes, END, EntryPoint, Edge, Edits

VARIABLES phase,   \* "start", "before" a node or "after" it
          node,    \* the node
          state    \* how many updates of each node and edit have been merged

vars == <<phase, node, state>>

Nothing == [x \in Nodes \cup Edits |-> 0]

AtStart == phase' = "start" /\ node' = EntryPoint /\ state' = Nothing

Init == phase = "start" /\ node = EntryPoint /\ state = Nothing

Begin ==
    /\ phase = "start"
    /\ phase' = "before"
    /\ UNCHANGED <<node, state>>

\* The node runs; it contributes its update, or fails and contributes nothing.
Visit ==
    /\ phase = "before"
    /\ phase' = "after"
    /\ state' \in {[state EXCEPT ![node] = @ + 1], state}
    /\ UNCHANGED node

\* Along a plain or conditional edge, whose router may always choose to stop; a
\* node that is only a branch has no edge of its own, and the walk stops there.
Follow ==
    /\ phase = "after"
    /\ Edge[node].type # "parallel"
    /\ \/ /\ Edge[node].type # "none"
          /\ \E n \in Edge[node].targets \ {END} :
                phase' = "before" /\ node' = n /\ state' = state
       \/ /\ Edge[node].type = "unconditional" => END \in Edge[node].targets
          /\ AtStart

\* Through a fan-out: the branches that succeed contribute, each exactly once.
FanOut ==
    /\ phase = "after"
    /\ Edge[node].type = "parallel"
    /\ IF Edge[node].then = END THEN AtStart
       ELSE \E succeeded \in SUBSET (DOMAIN Edge[node].branches) :
            /\ phase' = "before"
            /\ node' = Edge[node].then
            /\ state' = [x \in Nodes \cup Edits |-> state[x] +
                            Cardinality({b \in succeeded : Edge[node].branches[b] = x})]

\* A human amends the state between two nodes.
Amend ==
    /\ phase # "start"
    /\ \E u \in Edits : state' = [state EXCEPT ![u] = @ + 1]
    /\ UNCHANGED <<phase, node>>

\* The walk is given up before a node.
GiveUp == phase = "before" /\ AtStart

Next == Begin \/ Visit \/ Follow \/ FanOut \/ Amend \/ GiveUp

Spec == Init /\ [][Next]_vars
=============================================================================
