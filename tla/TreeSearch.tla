------------------------------ MODULE TreeSearch ------------------------------
(***************************************************************************)
(* Tree search over candidate actions (reasoning/tree-search.ts).  A       *)
(* runner has one engine, whose tree, root and counters are fields of its  *)
(* own or of the module: two messages of two sessions search it at once.   *)
(*                                                                         *)
(* A search runs from one await to the next in one action: the model's     *)
(* candidates, their simulations, the tool, the reflection on its failure. *)
(* Scores are choices; a visit is counted as in the code.                  *)
(***************************************************************************)
EXTENDS Integers, FiniteSets

CONSTANTS
    Searches,     \* the calls of search() on the engine
    MaxDepth,
    PerLevel,     \* iterations a level: 3
    Branching,    \* branchingFactor
    Budget        \* simulationBudget

VARIABLES
    tree,         \* the engine's nodes by id: whose, parent, children, visits, state
    rootId,
    nodeCounter,
    search,       \* each search: what it awaits, its node, depth and candidates
    path,         \* the nodes of what each search returned as its best path
    hung,         \* a loop over parents or children that never ends holds the process
    committed,    \* history: the nodes each search went on to, and its answer
    overlapped    \* history: the searches that ran beside another

treeVars == <<tree, rootId, nodeCounter, search, path, hung, committed, overlapped>>
-----------------------------------------------------------------------------
Node(s, parent, visits, state) ==
    [by |-> s, parent |-> parent, kids |-> {}, visits |-> visits, state |-> state]

Active == {s \in Searches : search[s].at \notin {"idle", "over"}}

Init ==
    /\ tree = [i \in {} |-> 0]
    /\ rootId = 0 /\ nodeCounter = 0
    /\ search = [s \in Searches |-> [at |-> "idle", here |-> 0, depth |-> 0, iterations |-> 0,
                                     candidates |-> {}]]
    /\ path = [s \in Searches |-> {}]
    /\ hung = FALSE
    /\ committed = [s \in Searches |-> {}]
    /\ overlapped = {}

\* The n-th node on the way from i up to the root of t; 0 when there is none.
Upwards(t, i) ==
    LET up[n \in 0 .. Cardinality(DOMAIN t)] ==
            IF n = 0 THEN (IF i \in DOMAIN t THEN i ELSE 0)
            ELSE IF up[n - 1] = 0 \/ t[up[n - 1]].parent \notin DOMAIN t THEN 0
            ELSE t[up[n - 1]].parent
    IN  up

Ancestors(t, i) == {Upwards(t, i)[n] : n \in DOMAIN Upwards(t, i)} \ {0}

\* A walk longer than the tree has nodes is a walk in a circle.
NeverAtRoot(t, i) == Upwards(t, i)[Cardinality(DOMAIN t)] # 0

\* traceBestPath: the n-th level of the executed, unpruned nodes below the root.
Downwards(t, root) ==
    LET down[n \in 0 .. Cardinality(DOMAIN t)] ==
            IF n = 0 THEN {root} \cap DOMAIN t
            ELSE {k \in (UNION {t[i].kids : i \in down[n - 1]}) \cap DOMAIN t : t[k].state = "executed"}
    IN  down

BestPath(t, root) == UNION {Downwards(t, root)[n] : n \in DOMAIN Downwards(t, root)}

Endless(t, root) == Downwards(t, root)[Cardinality(DOMAIN t)] # {}

\* Mutant: backtracks are not counted.
CapReachedByDepth(iterations, depth) == depth >= MaxDepth

CapReached(iterations, depth) == depth >= MaxDepth \/ iterations >= MaxDepth * PerLevel

\* The search is over: with tree t, its best path is traced.
End(s, t) ==
    /\ tree' = t
    /\ search' = [search EXCEPT ![s].at = "over", ![s].candidates = {}]
    /\ path' = [path EXCEPT ![s] = {t[i] : i \in BestPath(t, rootId)}]
    /\ hung' = Endless(t, rootId)

\* The goal checker, or an executor, throws out of the search.
Fails(s, t) ==
    /\ tree' = t
    /\ search' = [search EXCEPT ![s].at = "over", ![s].candidates = {}]
    /\ UNCHANGED <<path, hung>>

\* The loop goes round, at node here and a depth: the bounds and the goal are
\* looked at, and the model is asked for candidates.
Round(s, t, here, depth) ==
    IF CapReached(search[s].iterations, depth)
    THEN End(s, t)
    ELSE \/ /\ tree' = t
            /\ search' = [search EXCEPT ![s] = [at |-> "expand", here |-> here, depth |-> depth,
                                                iterations |-> search[s].iterations + 1,
                                                candidates |-> {}]]
            /\ UNCHANGED <<path, hung>>
         \/ End(s, t)
         \/ Fails(s, t)

\* search(): the tree, the root and the counter start again, for all there are.
\* The goal may be complete already, or its checker throw.
Begin(s) ==
    /\ search[s].at = "idle"
    /\ tree' = [i \in {1} |-> Node(s, 0, 0, "open")]
    /\ rootId' = 1 /\ nodeCounter' = 1
    /\ \E at \in {"expand", "over"} :
          /\ search' = [search EXCEPT ![s] = [at |-> at, here |-> 1, depth |-> 0, iterations |-> 1,
                                              candidates |-> {}]]
          /\ path' = path \/ (at = "over" /\ path' = [path EXCEPT ![s] = {Node(s, 0, 0, "open")}])
    /\ committed' = [committed EXCEPT ![s] = {1}]
    /\ overlapped' = IF Active = {} THEN overlapped ELSE overlapped \cup Active \cup {s}
    /\ UNCHANGED hung

\* The model answers with candidates, or none; or it fails, and the only one is to
\* respond.  Their ids are taken from the counter as it is now.
Expanded(s) ==
    /\ search[s].at = "expand"
    /\ \E n \in 0 .. Branching :
        IF n = 0 THEN End(s, tree) /\ UNCHANGED nodeCounter
        ELSE /\ search' = [search EXCEPT ![s].at = "simulate",
                                         ![s].candidates = nodeCounter + 1 .. nodeCounter + n]
             /\ nodeCounter' = nodeCounter + n
             /\ UNCHANGED <<tree, path, hung>>
    /\ UNCHANGED <<rootId, committed, overlapped>>

\* Mutant: the visits go to the parent and not on to the root.
BackpropagatedOnce(t, parent, sims) ==
    [i \in DOMAIN t |-> IF i = parent THEN [t[i] EXCEPT !.visits = t[i].visits + sims] ELSE t[i]]

\* backpropagate, of all the simulations of one plan.
Backpropagated(t, parent, sims) ==
    [i \in DOMAIN t |->
        IF i \in Ancestors(t, parent) THEN [t[i] EXCEPT !.visits = t[i].visits + sims] ELSE t[i]]

\* Every candidate that is left is visited at least once.
Simulations(live) == IF Cardinality(live) > Budget THEN Cardinality(live) ELSE Budget

\* The committed node is put into the tree, and under its parent where there is one.
Registered(t, s, i, visits, state) ==
    LET here == search[s].here
    IN  [j \in DOMAIN t \cup {i} |->
            LET node == IF j = i THEN Node(s, here, visits, state) ELSE t[j]
            IN  IF j = here THEN [node EXCEPT !.kids = node.kids \cup {i}] ELSE node]

\* The simulations are in, rejected ones are dropped; planning visits the others
\* by turns (enableBackprop) and commits to one visited most.  It answers, is blocked and stays
\* where it is, is delegated in word, or runs its tool.
Simulated(s) ==
    /\ search[s].at = "simulate"
    /\ \/ /\ End(s, tree)
          /\ UNCHANGED committed
       \/ /\ NeverAtRoot(tree, search[s].here)
          /\ hung' = TRUE
          /\ UNCHANGED <<tree, search, path, committed>>
       \/ /\ ~NeverAtRoot(tree, search[s].here)
          /\ \E live \in SUBSET search[s].candidates : \E i \in live, visits \in 1 .. Simulations(live) :
              LET t == Backpropagated(tree, search[s].here, Simulations(live))
                  Put(state) == Registered(t, s, i, visits, state)
              IN
              /\ visits * Cardinality(live) >= Simulations(live)
              /\ \/ End(s, Put("executed")) /\ committed' = [committed EXCEPT ![s] = @ \cup {i}]
                 \/ Round(s, Put("pruned"), search[s].here, search[s].depth) /\ UNCHANGED committed
                 \/ /\ Round(s, Put("executed"), i, search[s].depth + 1)
                    /\ committed' = [committed EXCEPT ![s] = @ \cup {i}]
                 \/ /\ tree' = Put("open")
                    /\ search' = [search EXCEPT ![s].at = "execute", ![s].candidates = {i}]
                    /\ UNCHANGED <<path, hung, committed>>
    /\ UNCHANGED <<rootId, nodeCounter, overlapped>>

\* A change of the committed node shows in the tree while the tree still holds it.
Marked(s, i, state) ==
    IF i \in DOMAIN tree /\ tree[i].by = s THEN [tree EXCEPT ![i].state = state] ELSE tree

\* Mutant: a failed tool is reflected on, and its node stays in the path.
BacktrackedUnpruned(s, i) == Marked(s, i, "executed")

Backtracked(s, i) == Marked(s, i, "pruned")

\* The search goes on from the node it executed.
Advance(s, i) ==
    /\ Round(s, Marked(s, i, "executed"), i, search[s].depth + 1)
    /\ committed' = [committed EXCEPT ![s] = @ \cup {i}]

\* The tool answers; its failure is reflected on by the model.
Executed(s) ==
    /\ search[s].at = "execute"
    /\ \E i \in search[s].candidates :
        \/ Advance(s, i)
        \/ /\ tree' = Marked(s, i, "executed")
           /\ search' = [search EXCEPT ![s].at = "reflect"]
           /\ UNCHANGED <<path, hung, committed>>
    /\ UNCHANGED <<rootId, nodeCounter, overlapped>>

\* The reflection says to backtrack, or not; a failed one does.
Reflected(s) ==
    /\ search[s].at = "reflect"
    /\ \E i \in search[s].candidates :
        \/ Advance(s, i)
        \/ Round(s, Backtracked(s, i), search[s].here, search[s].depth) /\ UNCHANGED committed
    /\ UNCHANGED <<rootId, nodeCounter, overlapped>>

\* What the search awaits throws out of it: an executor.
Throws(s) ==
    /\ search[s].at = "execute"
    /\ Fails(s, tree)
    /\ UNCHANGED <<rootId, nodeCounter, committed, overlapped>>

Next ==
    /\ ~hung
    /\ \E s \in Searches : Begin(s) \/ Expanded(s) \/ Simulated(s) \/ Executed(s) \/ Reflected(s) \/ Throws(s)
-----------------------------------------------------------------------------
\* "Cap total iterations": backtracks do not make a search go on for ever, ...
SearchesAreBounded == \A s \in Searches : search[s].iterations <= MaxDepth * PerLevel

\* ... and "backpropagates it up to the root" ends, as long as no two searches of
\* the engine overlap; of two that do, one may hang the process on a node that has
\* become its own parent.
WalksEnd == hung => overlapped # {}

\* The best path is what the search did: the nodes it went on to and its answer,
\* and nothing it backed out of, unless another search took the tree away.
PathIsWhatWasDone ==
    \A s \in Searches \ overlapped :
        path[s] # {} => /\ Cardinality(path[s]) = Cardinality(committed[s])
                        /\ \A node \in path[s] : node.by = s /\ node.parent \in committed[s] \cup {0}

\* The visits of kids, summed up over the ids the engine has given out.
VisitsOf(t, kids) ==
    LET upTo[n \in 0 .. nodeCounter] ==
            IF n = 0 THEN 0 ELSE upTo[n - 1] + (IF n \in kids THEN t[n].visits ELSE 0)
    IN  upTo[nodeCounter]

\* A node was visited at least as often as its children together.
VisitsAddUp ==
    overlapped = {} =>
        \A i \in DOMAIN tree : tree[i].visits >= VisitsOf(tree, tree[i].kids)
=============================================================================
