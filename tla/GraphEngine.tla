---------------------------- MODULE GraphEngine ----------------------------
(***************************************************************************)
(* The graph engine: CompiledGraph.invoke / stream / updateState over a    *)
(* Checkpointer (src/graph/compiled.ts, checkpointer.ts), for one thread.  *)
(*                                                                         *)
(* Any number of calls may be active on the thread at once: the engine has *)
(* no lock, and every await (load, save, a node function, the branches of  *)
(* a fan-out) is a point where another call, a human edit or a crash comes *)
(* in.  The graph's state is abstracted to what was merged into it: how    *)
(* many updates of each node, and of each human edit, it holds.            *)
(***************************************************************************)
EXTENDS Integers, Sequences, FiniteSets, FiniteSetsExt

CONSTANTS
    Nodes,            \* the registered nodes
    END,              \* "__end__"
    EntryPoint,       \* the first node of a fresh run
    Edge,             \* the outgoing edge of each node (see GraphAssumption)
    InterruptBefore,  \* CompileOptions.interruptBefore
    InterruptAfter,   \* CompileOptions.interruptAfter
    MaxSteps,         \* InvokeConfig.maxSteps
    MaxPerThread,     \* checkpoints the checkpointer keeps for a thread
    Calls,            \* slots for invoke() / stream() calls on the thread
    Edits,            \* updateState() calls, each merging a mark of its own
    MaxCrashes        \* bound on the calls that die half way

ASSUME GraphAssumption ==
    /\ IsFiniteSet(Nodes)
    /\ EntryPoint \in Nodes
    /\ END \notin Nodes
    /\ Edge \in [Nodes -> [type : {"unconditional", "conditional", "parallel", "none"},
                           targets : SUBSET (Nodes \cup {END}),
                           branches : Seq(Nodes),
                           then : Nodes \cup {END}]]
    /\ \A n \in Nodes : Edge[n].type = "unconditional" => \E m \in Nodes \cup {END} :
            Edge[n].targets = {m}
    /\ InterruptBefore \subseteq Nodes
    /\ InterruptAfter \subseteq Nodes
    /\ MaxSteps \in Nat \ {0}
    /\ MaxPerThread \in Nat \ {0}
    /\ MaxCrashes \in Nat
    /\ Edits \cap Nodes = {}

VARIABLES
    checkpoints,  \* the thread's checkpoints, newest last
    run,          \* the local variables of each call
    result,       \* the status each call last returned
    edit,         \* each updateState() call, and the checkpoint it has loaded
    crashes       \* how many calls have died so far

vars == <<checkpoints, run, result, edit, crashes>>
-----------------------------------------------------------------------------
State == [Nodes \cup Edits -> Nat]

Input == [x \in Nodes \cup Edits |-> 0]

Checkpoint ==
    [state : State, currentNode : Nodes, interruptType : {"none", "before", "after"},
     stepCount : Nat]

\* What load() gives for a thread with nothing saved: not interrupted.
NoCheckpoint ==
    [state |-> Input, currentNode |-> EntryPoint, interruptType |-> "none", stepCount |-> 0]

Run ==
    [pc : {"idle", "head", "node", "save", "after", "route", "branches"},
     currentNode : Nodes,
     state : State,
     stepCount : Nat,
     skip : BOOLEAN,            \* isFirstNode && skipFirstInterruptBefore
     from : Checkpoint,         \* the checkpoint the call resumed from
     pending : SUBSET Nat,      \* branches of the fan-out not settled yet
     fulfilled : SUBSET Nat]    \* branches that returned an update

IdleRun ==
    [pc |-> "idle", currentNode |-> EntryPoint, state |-> Input, stepCount |-> 0,
     skip |-> FALSE, from |-> NoCheckpoint, pending |-> {}, fulfilled |-> {}]

MakeCheckpoint(r, interruptType) ==
    [state |-> r.state, currentNode |-> r.currentNode, interruptType |-> interruptType,
     stepCount |-> r.stepCount]

\* checkpointer.load: the newest checkpoint.
Latest == IF checkpoints = <<>> THEN NoCheckpoint ELSE checkpoints[Len(checkpoints)]

\* Mutant: nothing is evicted.
SaveUnbounded(cp) == checkpoints' = Append(checkpoints, cp)

\* checkpointer.save: append, and evict the oldest when over capacity.
Save(cp) ==
    checkpoints' = IF Len(checkpoints) < MaxPerThread
                   THEN Append(checkpoints, cp) ELSE Append(Tail(checkpoints), cp)

Interrupted(cp) == cp.interruptType # "none"

\* resolveNextNode: what it may return for a node. A router may name any of its
\* targets or END, and an unknown target falls through to END; a parallel edge
\* is not looked at here, which leaves END.
ResolveNextNode(n) ==
    CASE Edge[n].type = "unconditional" -> Edge[n].targets
      [] Edge[n].type = "conditional"   -> Edge[n].targets \cup {END}
      [] OTHER                          -> {END}

IsFork(n) == Edge[n].type = "parallel"

Branches(n) == DOMAIN Edge[n].branches

\* mergeStateWithReducers, for one update and for those of a fan-out.
Merged(s, x) == [s EXCEPT ![x] = @ + 1]

MergedBranches(s, n, fulfilled) ==
    [x \in Nodes \cup Edits |->
        s[x] + Cardinality({b \in Branches(n) : b \in fulfilled /\ Edge[n].branches[b] = x})]

\* The call returns (or throws) and its locals are gone.
Return(c, status) ==
    /\ run' = [run EXCEPT ![c] = IdleRun]
    /\ result' = [result EXCEPT ![c] = status]

\* Mutant: a resume starts counting steps from zero.
StartUncounted(c, n, cp, skip) ==
    /\ run' = [run EXCEPT ![c] = [IdleRun EXCEPT !.pc = "head", !.currentNode = n,
                                     !.state = cp.state, !.skip = skip, !.from = cp]]
    /\ result' = [result EXCEPT ![c] = "none"]

\* executeGraph is entered.
Start(c, n, cp, skip) ==
    /\ run' = [run EXCEPT ![c] = [IdleRun EXCEPT !.pc = "head", !.currentNode = n,
                                     !.state = cp.state, !.stepCount = cp.stepCount,
                                     !.skip = skip, !.from = cp]]
    /\ result' = [result EXCEPT ![c] = "none"]

\* currentNode = n; the while loop goes round.
Goto(c, n, r) == run' = [run EXCEPT ![c] = [r EXCEPT !.pc = "head", !.currentNode = n]]
-----------------------------------------------------------------------------
Init ==
    /\ checkpoints = <<>>
    /\ run = [c \in Calls |-> IdleRun]
    /\ result = [c \in Calls |-> "none"]
    /\ edit = [u \in Edits |-> [pc |-> "unused", base |-> NoCheckpoint]]
    /\ crashes = 0

\* invoke() with nothing to resume: a fresh run of the input from the entry point.
InvokeFresh(c) ==
    /\ run[c].pc = "idle"
    /\ ~Interrupted(Latest)
    /\ Start(c, EntryPoint, NoCheckpoint, FALSE)
    /\ UNCHANGED <<checkpoints, edit, crashes>>

\* Mutant: a pause after a node resumes at that node, which runs a second time.
ResumeRepeating(c) ==
    /\ run[c].pc = "idle"
    /\ Interrupted(Latest)
    /\ Start(c, Latest.currentNode, Latest, Latest.interruptType = "before")
    /\ UNCHANGED <<checkpoints, edit, crashes>>

\* invoke() on an interrupted thread: at the node that had not run yet, or at a
\* successor of the one that had.
InvokeResume(c) ==
    /\ run[c].pc = "idle"
    /\ \/ /\ Latest.interruptType = "before"
          /\ Start(c, Latest.currentNode, Latest, TRUE)
       \/ /\ Latest.interruptType = "after"
          /\ \E n \in ResolveNextNode(Latest.currentNode) \ {END} : Start(c, n, Latest, FALSE)
    /\ UNCHANGED <<checkpoints, edit, crashes>>

\* invoke() on a thread paused after its last node: complete at once, and the
\* checkpoint stays as it is.
InvokeComplete(c) ==
    /\ run[c].pc = "idle"
    /\ Latest.interruptType = "after"
    /\ END \in ResolveNextNode(Latest.currentNode)
    /\ Return(c, "complete")
    /\ UNCHANGED <<checkpoints, edit, crashes>>

Pauses(r) == r.currentNode \in InterruptBefore /\ ~r.skip

\* The loop head: out of steps, nothing is saved.
ExhaustSteps(c) ==
    /\ run[c].pc = "head"
    /\ run[c].stepCount >= MaxSteps
    /\ Return(c, "max_steps")
    /\ UNCHANGED <<checkpoints, edit, crashes>>

\* The loop head: pause before the node.
PauseBefore(c) ==
    /\ run[c].pc = "head"
    /\ run[c].stepCount < MaxSteps
    /\ Pauses(run[c])
    /\ Save(MakeCheckpoint(run[c], "before"))
    /\ Return(c, "interrupted")
    /\ UNCHANGED <<edit, crashes>>

\* Mutant: isFirstNode is never reset.
StartNodeSkipping(c) ==
    /\ run[c].pc = "head"
    /\ run[c].stepCount < MaxSteps
    /\ ~Pauses(run[c])
    /\ run' = [run EXCEPT ![c] = [run[c] EXCEPT !.pc = "node"]]
    /\ UNCHANGED <<checkpoints, result, edit, crashes>>

\* The loop head: call the node function.
StartNode(c) ==
    /\ run[c].pc = "head"
    /\ run[c].stepCount < MaxSteps
    /\ ~Pauses(run[c])
    /\ run' = [run EXCEPT ![c] = [run[c] EXCEPT !.pc = "node", !.skip = FALSE]]
    /\ UNCHANGED <<checkpoints, result, edit, crashes>>

\* The node function settles; a throw is recorded and the run goes on.
FinishNode(c) ==
    /\ run[c].pc = "node"
    /\ \E s \in {Merged(run[c].state, run[c].currentNode), run[c].state} :
        run' = [run EXCEPT ![c] = [run[c] EXCEPT !.pc = "save", !.state = s,
                                                 !.stepCount = run[c].stepCount + 1]]
    /\ UNCHANGED <<checkpoints, result, edit, crashes>>

\* The checkpoint that follows every node.
SaveStep(c) ==
    LET next == IF run[c].currentNode \in InterruptAfter THEN "after" ELSE "route" IN
    /\ run[c].pc = "save"
    /\ Save(MakeCheckpoint(run[c], "none"))
    /\ run' = [run EXCEPT ![c] = [run[c] EXCEPT !.pc = next]]
    /\ UNCHANGED <<result, edit, crashes>>

\* Pause after the node: a second checkpoint, now interrupted.
PauseAfter(c) ==
    /\ run[c].pc = "after"
    /\ Save(MakeCheckpoint(run[c], "after"))
    /\ Return(c, "interrupted")
    /\ UNCHANGED <<edit, crashes>>

\* Follow the edge to the next node, or complete.
Route(c) ==
    /\ run[c].pc = "route"
    /\ ~IsFork(run[c].currentNode)
    /\ \E n \in ResolveNextNode(run[c].currentNode) :
        IF n = END THEN Return(c, "complete")
                   ELSE Goto(c, n, run[c]) /\ result' = result
    /\ UNCHANGED <<checkpoints, edit, crashes>>

\* A fan-out calls every branch's node function, each on its own snapshot.
Fork(c) ==
    /\ run[c].pc = "route"
    /\ IsFork(run[c].currentNode)
    /\ run' = [run EXCEPT ![c] = [run[c] EXCEPT !.pc = "branches", !.fulfilled = {},
                                                 !.pending = Branches(run[c].currentNode)]]
    /\ UNCHANGED <<checkpoints, result, edit, crashes>>

\* A branch settles, with an update or by throwing (which counts as an empty one).
SettleBranch(c, b) ==
    /\ run[c].pc = "branches"
    /\ b \in run[c].pending
    /\ \E f \in {run[c].fulfilled \cup {b}, run[c].fulfilled} :
        run' = [run EXCEPT ![c] = [run[c] EXCEPT !.pending = run[c].pending \ {b},
                                                 !.fulfilled = f]]
    /\ UNCHANGED <<checkpoints, result, edit, crashes>>

\* Mutant: the join waits for every branch to succeed.
AllFulfilled(r) == r.fulfilled = Branches(r.currentNode)

\* Promise.allSettled.
AllSettled(r) == r.pending = {}

\* Mutant: the branches are not counted as steps.
JoinedUncounted(r) ==
    [r EXCEPT !.state = MergedBranches(r.state, r.currentNode, r.fulfilled), !.fulfilled = {}]

\* The branches' updates merged, in order, and the branches counted as steps.
Joined(r) ==
    [r EXCEPT !.state = MergedBranches(r.state, r.currentNode, r.fulfilled),
              !.stepCount = r.stepCount + Len(Edge[r.currentNode].branches),
              !.fulfilled = {}]

\* All have settled: on to the join node. No checkpoint is saved here.
JoinBranches(c) ==
    LET next == Edge[run[c].currentNode].then IN
    /\ run[c].pc = "branches"
    /\ AllSettled(run[c])
    /\ IF next = END THEN Return(c, "complete")
                     ELSE Goto(c, next, Joined(run[c])) /\ result' = result
    /\ UNCHANGED <<checkpoints, edit, crashes>>

\* updateState: load, and refuse a thread that is not interrupted ...
UpdateLoad(u) ==
    /\ edit[u].pc = "unused"
    /\ Interrupted(Latest)
    /\ edit' = [edit EXCEPT ![u] = [pc |-> "loaded", base |-> Latest]]
    /\ UNCHANGED <<checkpoints, run, result, crashes>>

\* ... then save the loaded checkpoint with the edit merged in.
UpdateSave(u) ==
    /\ edit[u].pc = "loaded"
    /\ Save([edit[u].base EXCEPT !.state = Merged(edit[u].base.state, u)])
    /\ edit' = [edit EXCEPT ![u] = [pc |-> "done", base |-> NoCheckpoint]]
    /\ UNCHANGED <<run, result, crashes>>

\* The process dies under a call, or a load or save it awaits rejects.
Crash(c) ==
    /\ run[c].pc # "idle"
    /\ crashes < MaxCrashes
    /\ crashes' = crashes + 1
    /\ Return(c, "crashed")
    /\ UNCHANGED <<checkpoints, edit>>

Invoke(c) == InvokeFresh(c) \/ InvokeResume(c) \/ InvokeComplete(c)

Advance(c) ==
    \/ ExhaustSteps(c) \/ PauseBefore(c) \/ StartNode(c) \/ FinishNode(c)
    \/ SaveStep(c) \/ PauseAfter(c) \/ Route(c) \/ Fork(c)
    \/ \E b \in run[c].pending : SettleBranch(c, b)
    \/ JoinBranches(c)

Next ==
    \/ \E c \in Calls : Invoke(c) \/ Advance(c) \/ Crash(c)
    \/ \E u \in Edits : UpdateLoad(u) \/ UpdateSave(u)

Spec == Init /\ [][Next]_vars

\* Every node function settles and the event loop gets round to every call.
FairSpec == Spec /\ \A c \in Calls : WF_vars(Advance(c))
-----------------------------------------------------------------------------
TypeOK ==
    /\ checkpoints \in Seq(Checkpoint) /\ Len(checkpoints) <= MaxPerThread
    /\ run \in [Calls -> Run]
    /\ result \in [Calls -> {"none", "complete", "interrupted", "max_steps", "crashed"}]
    /\ edit \in [Edits -> [pc : {"unused", "loaded", "done"}, base : Checkpoint]]
    /\ crashes \in 0 .. MaxCrashes

\* The call stands where the pause it resumed from stood: at that node, with the
\* state and the step count that were saved.
AtItsPause(r) ==
    /\ r.from.interruptType = "before"
    /\ r.from.currentNode = r.currentNode
    /\ r.from.state = r.state
    /\ r.from.stepCount = r.stepCount

\* A node the graph must pause before runs only in a call that resumed a pause
\* at that very node, and on exactly the state and step count the pause saved:
\* what the human looked at (and edited) is what the node gets, once per resume.
GateHeld ==
    \A c \in Calls :
        run[c].pc = "node" /\ run[c].currentNode \in InterruptBefore => AtItsPause(run[c])

\* The gate is skipped only by the first node of a call that resumed from a
\* pause before it. (With TypeOK it makes GateHeld inductive.)
SkipIsFresh == \A c \in Calls : run[c].skip => run[c].pc = "head" /\ AtItsPause(run[c])

IInv == TypeOK /\ SkipIsFresh /\ GateHeld

\* Node updates held by a state, and how many they are.
Updates(s) == UNION {{n} \X (1 .. s[n]) : n \in Nodes}
Executions(s) == Cardinality(Updates(s))

WidestFork == Max({Len(Edge[n].branches) : n \in Nodes} \cup {0})

Accounted(r) == Executions(r.state) <= r.stepCount /\ r.stepCount <= MaxSteps + WidestFork

\* The step count covers every node whose update the state holds, in every call
\* and every checkpoint, across pauses, resumes, edits and fan-outs, and passes
\* the limit by one fan-out at the most.
StepsAccounted ==
    /\ \A c \in Calls : Accounted(run[c])
    /\ \A k \in DOMAIN checkpoints : Accounted(checkpoints[k])

\* Cycles in the graph end: every call returns, by its step limit at the latest.
CallReturns == \A c \in Calls : run[c].pc # "idle" ~> run[c].pc = "idle"
-----------------------------------------------------------------------------
(***************************************************************************)
(* What the documentation says and the code does not do; a run refutes it. *)
(***************************************************************************)
\* types.ts, interruptBefore: "Node names to pause BEFORE executing", whichever
\* edge leads to the node.
BranchesPause ==
    \A c \in Calls : \A b \in run[c].pending :
        Edge[run[c].currentNode].branches[b] \notin InterruptBefore
=============================================================================
