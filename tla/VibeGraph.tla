------------------------------ MODULE VibeGraph ------------------------------
(* The vibe_graph tool (middleware/builtin/vibe-graph.ts): three calls of the  *)
(* model turn a description into a plan of roles and edges, the plan becomes a *)
(* graph of the graph engine (graph/graph.ts), and the graph is walked, each   *)
(* role being a call of the model that reads and writes the shared data.       *)
(*                                                                             *)
(* A role writes one output field, named after it, and `data` is the set of    *)
(* the fields written; a condition of an edge is such a name.                  *)
EXTENDS Sequences, FiniteSets, Integers, Functions

CONSTANTS
  Plans,          \* the plans the model may come to: [nodes, edges]
  MaxSteps        \* bound: the steps of a walk, 50 in the tool

VARIABLES
  pc,             \* "roles", "structure", "semantic", "build", "walk", "fork", "over"
  plan,           \* the VibeGraphIR
  current,        \* the node the walk has come to
  steps,          \* stepCount
  state,          \* data, completedNodes and errors, as the nodes share them
  status,         \* what invoke returned, or "failed" when the tool caught an error
  ran,            \* history: the roles, in the order in which they ran
  failed,         \* history: the roles whose call threw
  awaited         \* history: the outputs of the branches just joined

vibeVars == <<pc, plan, current, steps, state, status, ran, failed, awaited>>

END == "__end__"
Dispatch == "_dispatch"
NoPlan == [nodes |-> <<>>, edges |-> <<>>]

-----------------------------------------------------------------------------
(* buildAgentGraph. The edges of a node become one edge of the graph: "to" its *)
(* targets, of which the engine follows the first; "when" a condition holds;   *)
(* or a "fork" into branches and on to their join.                             *)

\* Mutant: EXIT is left as it is.
TargetsAsNamed(edges) == [i \in DOMAIN edges |-> edges[i].target]

Targets(edges) ==
  [i \in DOMAIN edges |-> IF edges[i].target = "EXIT" THEN END ELSE edges[i].target]

EdgesFrom(p, source) == SelectSeq(p.edges, LAMBDA e : e.source = source)

FirstOr(s, default) == IF s = <<>> THEN default ELSE s[1]

To(targets) == [kind |-> "to", targets |-> targets, choices |-> <<>>, join |-> END]

Fork(branches, join) == [kind |-> "fork", targets |-> branches, choices |-> <<>>, join |-> join]

\* Where the branches lead, in the order in which they say so.
Downstream(p, branches) ==
  LET edges[n \in 0..Len(branches)] ==
        IF n = 0 THEN <<>> ELSE edges[n - 1] \o EdgesFrom(p, branches[n])
  IN  SelectSeq(Targets(edges[Len(branches)]), LAMBDA t : t \notin Range(branches))

\* The edge of a node in a plan with one entry.
EdgeOf(p, source) ==
  LET edges == EdgesFrom(p, source)
      targets == Targets(edges)
      join == FirstOr(Downstream(p, targets), END) IN
  CASE Len(edges) = 1 -> To(targets)
    [] Len(edges) > 1 /\ \E i \in DOMAIN edges : edges[i].condition # "" ->
         [kind |-> "when", targets |-> targets, choices |-> edges, join |-> END]
    [] Len(edges) > 1 /\ (\A i \in DOMAIN edges : edges[i].condition = "") ->
         IF END \notin Range(targets) /\ join # END THEN Fork(targets, join) ELSE To(targets)

Starters(p) == Targets(EdgesFrom(p, "ENTRY"))

Others(p) == SelectSeq(p.nodes, LAMBDA n : n \notin Range(Starters(p)))

\* Mutant: the starters are joined at the first role that is no starter.
JoinAtTheFirst(p) == FirstOr(Others(p), END)

\* The first role that is no starter and that a starter points to; else the first one.
JoinOfStarters(p) ==
  FirstOr(SelectSeq(Others(p), LAMBDA n : \E e \in Range(p.edges) :
                                            e.source \in Range(Starters(p)) /\ e.target = n),
          FirstOr(Others(p), END))

SourcesOf(p) == {e.source : e \in Range(p.edges)} \ {"ENTRY"}

\* Several entries: a dispatcher forks to the starters, whose own edges are
\* dropped; without another role to join at, no edge is added at all.
Graph(p) ==
  CASE Len(Starters(p)) = 1 ->
         [entry |-> Starters(p)[1], edge |-> [s \in SourcesOf(p) |-> EdgeOf(p, s)]]
    [] Len(Starters(p)) > 1 /\ Others(p) = <<>> ->
         [entry |-> Starters(p)[1], edge |-> <<>>]
    [] Len(Starters(p)) > 1 /\ Others(p) # <<>> ->
         [entry |-> Dispatch,
          edge |-> [s \in (SourcesOf(p) \ Range(Starters(p))) \cup {Dispatch} |->
                      IF s = Dispatch THEN Fork(Starters(p), JoinOfStarters(p))
                                      ELSE To(Targets(EdgesFrom(p, s)))]]

NodesOf(p) == Range(p.nodes) \cup (IF Len(Starters(p)) > 1 /\ Others(p) # <<>> THEN {Dispatch} ELSE {})

\* AgentGraph.compile throws unless every edge joins nodes that are registered
\* and every node leads somewhere, be it as a branch of a fork.
Compiles(p) ==
  /\ Starters(p) # <<>>
  /\ LET g == Graph(p)
         branches == UNION {Range(g.edge[s].targets) : s \in {x \in DOMAIN g.edge : g.edge[x].kind = "fork"}} IN
     /\ g.entry \in NodesOf(p)
     /\ DOMAIN g.edge \subseteq NodesOf(p)
     /\ \A s \in DOMAIN g.edge : Range(g.edge[s].targets) \cup {g.edge[s].join} \subseteq NodesOf(p) \cup {END}
     /\ NodesOf(p) \subseteq DOMAIN g.edge \cup branches

\* The first choice whose condition holds, else the first target.
Chosen(edge, data) ==
  FirstOr(Targets(SelectSeq(edge.choices, LAMBDA c : c.condition # "" /\ c.condition \in data)),
          edge.targets[1])

-----------------------------------------------------------------------------
Init ==
  /\ pc = "roles"
  /\ plan = NoPlan
  /\ current = END
  /\ steps = 0
  /\ state = [data |-> {}, completedNodes |-> {}, errors |-> {}]
  /\ status = "none"
  /\ ran = <<>>
  /\ failed = {}
  /\ awaited = {}

Fails ==
  /\ pc' = "over" /\ status' = "failed"
  /\ UNCHANGED <<plan, current, steps, state, ran, failed, awaited>>

\* compileVibeGraph: roles, then edges, then what each role is told. A stage
\* that yields nothing usable ends the tool; the last may forget a role.
Stage ==
  \/ /\ pc \in {"roles", "structure"}
     /\ pc' = IF pc = "roles" THEN "structure" ELSE "semantic"
     /\ UNCHANGED <<plan, current, steps, state, status, ran, failed, awaited>>
  \/ /\ pc = "semantic"
     /\ \E p \in Plans : plan' = p \/ (Len(p.nodes) > 1 /\ plan' = [p EXCEPT !.nodes = Tail(p.nodes)])
     /\ pc' = "build"
     /\ UNCHANGED <<current, steps, state, status, ran, failed, awaited>>
  \/ pc \in {"roles", "structure", "semantic"} /\ Fails

\* The plan is compiled and the walk begins, or the tool answers that it failed;
\* a caller who wants no more than the plan is given it.
Build ==
  /\ pc = "build"
  /\ \/ /\ Compiles(plan)
        /\ pc' = "walk" /\ current' = Graph(plan).entry
        /\ UNCHANGED <<plan, steps, state, status, ran, failed, awaited>>
     \/ ~Compiles(plan) /\ Fails
     \/ /\ pc' = "over" /\ status' = "compiled"
        /\ UNCHANGED <<plan, current, steps, state, ran, failed, awaited>>

\* Mutant: a role that completes writes the errors back as it has read them.
NodeRestoresErrors(s, n, ok) ==
  IF ok THEN [data |-> s.data \cup {n}, completedNodes |-> s.completedNodes \cup {n}, errors |-> {}]
        ELSE [s EXCEPT !.errors = s.errors \cup {n}]

\* The state after role n: its output, or its error, which does not stop the walk.
After(s, n, ok) ==
  IF ok THEN [s EXCEPT !.data = s.data \cup {n}, !.completedNodes = s.completedNodes \cup {n}]
        ELSE [s EXCEPT !.errors = s.errors \cup {n}]

Follow(node) ==
  LET edge == Graph(plan).edge[node]
      next == IF edge.kind = "when" THEN Chosen(edge, state'.data) ELSE edge.targets[1] IN
  IF edge.kind = "fork"
  THEN pc' = "fork" /\ UNCHANGED <<current, status>>
  ELSE /\ current' = next
       /\ pc' = IF next = END THEN "over" ELSE "walk"
       /\ status' = IF next = END THEN "complete" ELSE status

\* One turn of the walk: the node runs, then its edge is followed.
RunNode ==
  /\ pc = "walk" /\ steps < MaxSteps
  /\ steps' = steps + 1
  /\ awaited' = {}
  /\ \E ok \in BOOLEAN :
       IF current = Dispatch
       THEN ok /\ UNCHANGED <<state, ran, failed>>
       ELSE /\ state' = After(state, current, ok)
            /\ ran' = Append(ran, current)
            /\ failed' = IF ok THEN failed ELSE failed \cup {current}
  /\ Follow(current)
  /\ UNCHANGED plan

\* Mutant: a branch's failure is lost when a later branch completes.
MergedForgivingly(branches, ok) ==
  LET last == branches[Len(branches)] IN After(state, last, last \in ok)

\* Each branch starts from the same state and their answers are merged in
\* order, key by key: what the last to complete has written is what remains of
\* the data, and what the last to fail has written of the errors.
MergedBranches(branches, ok) ==
  LET good == SelectSeq(branches, LAMBDA b : b \in ok)
      bad == SelectSeq(branches, LAMBDA b : b \notin ok)
      s == IF good = <<>> THEN state ELSE After(state, good[Len(good)], TRUE) IN
  IF bad = <<>> THEN s ELSE After(s, bad[Len(bad)], FALSE)

RunBranches ==
  LET edge == Graph(plan).edge[current] IN
  /\ pc = "fork"
  /\ \E ok \in SUBSET Range(edge.targets) :
       /\ state' = MergedBranches(edge.targets, ok)
       /\ awaited' = ok
       /\ failed' = failed \cup (Range(edge.targets) \ ok)
  /\ ran' = ran \o edge.targets
  /\ steps' = steps + Len(edge.targets)
  /\ current' = edge.join
  /\ pc' = IF edge.join = END THEN "over" ELSE "walk"
  /\ status' = IF edge.join = END THEN "complete" ELSE status
  /\ UNCHANGED plan

Exhausted ==
  /\ pc = "walk" /\ steps >= MaxSteps
  /\ pc' = "over" /\ status' = "max_steps"
  /\ UNCHANGED <<plan, current, steps, state, ran, failed, awaited>>

Next == Stage \/ Build \/ RunNode \/ RunBranches \/ Exhausted

Spec == Init /\ [][Next]_vibeVars

-----------------------------------------------------------------------------
Successors(p, n) == {e.target : e \in {x \in Range(p.edges) : x.source = n}}

Reach(p, from) ==
  LET within[k \in 0..(Len(p.nodes) + 1)] ==
        IF k = 0 THEN {from} ELSE within[k - 1] \cup UNION {Successors(p, n) : n \in within[k - 1]}
  IN within[Len(p.nodes) + 1]

\* What the prompts of the second and third stage demand of a plan.
Legal(p) ==
  /\ Reach(p, "ENTRY") \ {"ENTRY", "EXIT"} = Range(p.nodes)
  /\ \A n \in Range(p.nodes) : "EXIT" \in Reach(p, n)

\* A plan of chains and forks: where the way parts, the branches meet at once.
Plain(p) ==
  /\ Legal(p)
  /\ \A n \in Range(p.nodes) \cup {"ENTRY"} :
       \/ Cardinality(Successors(p, n)) <= 1
       \/ \E join \in Range(p.nodes) : \A b \in Successors(p, n) : b # join /\ Successors(p, b) = {join}
  /\ \A e \in Range(p.edges) : e.condition = ""

\* A role runs only once the entry, or a role that leads to it, lets it.
InOrder ==
  Legal(plan) =>
    \A i \in DOMAIN ran : \E e \in Range(plan.edges) :
      e.target = ran[i] /\ (e.source = "ENTRY" \/ \E j \in 1..(i - 1) : ran[j] = e.source)

\* A plan of chains and forks is walked to its end with every role run once.
EveryRoleRuns ==
  Plain(plan) /\ status = "complete" => Range(ran) = Range(plan.nodes) /\ Len(ran) = Len(plan.nodes)

\* A plan that follows the rules compiles, if some role waits for another.
LegalPlanCompiles ==
  Legal(plan) /\ Others(plan) # <<>> => status # "failed"

\* A workflow is a success only if no role has failed, in a fork either.
FailuresAreTold ==
  status \in {"complete", "max_steps"} /\ failed # {} => state.errors # {}

\* README.md: "Researchers run in parallel, synthesizer combines their outputs":
\* the role a fork joins at finds the output of every branch that completed.
JoinFindsAll == awaited \subseteq state.data
=============================================================================
