---------------------------- MODULE DurableStep ----------------------------
(***************************************************************************)
(* The durable runtime: a worker drives one run, turn by turn, over a      *)
(* channel that may lose an answer, so every turn may be delivered again.  *)
(*                                                                         *)
(*   worker  --/v1/invoke-->  serveAgent  -->  step handler  -->  graph    *)
(*                                                                         *)
(* The step handler (src/runtime/durable.ts) is composed with the graph    *)
(* engine, and with what serve.ts remembers of keyed turns (KeyedTurns has *)
(* that memory in full).  The worker is external: it is modelled from the  *)
(* contract (src/runtime/contract.ts).                                     *)
(***************************************************************************)
EXTENDS GraphEngine

CONSTANTS
    MaxTurns,   \* bound on the turns of the run after the first
    Keyed,      \* the worker sends an idempotency_key, `${run_id}:${step}`
    Overlap     \* the worker may give a turn up, and send it again, while it still runs

ASSUME DurableAssumption ==
    /\ MaxTurns \in Nat
    /\ Keyed \in BOOLEAN
    /\ Overlap \in BOOLEAN

VARIABLES
    turn,      \* what the step handler of each call is doing, and for which step
    kept,      \* the steps whose keyed turn has succeeded, with its answer
    step,      \* the worker's step number; resume is step > 0
    worker,    \* what the worker waits for, and the pause it was told about
    approved,  \* the pauses a human has approved
    restarted  \* history: the machine has restarted, and forgotten its keyed turns

dvars == <<turn, kept, step, worker, approved, restarted>>

allvars == <<vars, dvars>>
-----------------------------------------------------------------------------
NoTurn == [at |-> "idle", step |-> 0]

Answer == [status : {"none", "needs_approval", "done"}, pause : Checkpoint]

NoAnswer == [status |-> "none", pause |-> NoCheckpoint]

\* Mutant: the graph's status is sent as it is.
NeedsApprovalUnmapped(cp) == [status |-> "interrupted", pause |-> cp]

NeedsApproval(cp) == [status |-> "needs_approval", pause |-> cp]

Done == [status |-> "done", pause |-> NoCheckpoint]

\* Mutant: a keyed turn is remembered only once it has succeeded.
RememberedLate(s) == Keyed /\ kept[s] # NoAnswer

\* keyedTurns.has: the turn of step s runs, or has succeeded.
Remembered(s) ==
    Keyed /\ \/ kept[s] # NoAnswer
             \/ \E c \in Calls : turn[c].at # "idle" /\ turn[c].step = s

\* Mutant: a keyed turn is remembered only while it runs.
ReplyUnkept(c, answer) ==
    /\ turn' = [turn EXCEPT ![c] = NoTurn]
    /\ worker' \in {worker} \cup (IF worker.status = "none" /\ turn[c].step = step
                                  THEN {answer} ELSE {})
    /\ UNCHANGED <<kept, step, approved, restarted>>

\* The turn is over. Its answer is kept for retries if it is keyed, and reaches
\* the worker or is lost.
Reply(c, answer) ==
    /\ turn' = [turn EXCEPT ![c] = NoTurn]
    /\ kept' = IF Keyed THEN [kept EXCEPT ![turn[c].step] = answer] ELSE kept
    /\ worker' \in {worker} \cup (IF worker.status = "none" /\ turn[c].step = step
                                  THEN {answer} ELSE {})
    /\ UNCHANGED <<step, approved, restarted>>
-----------------------------------------------------------------------------
DInit ==
    /\ Init
    /\ turn = [c \in Calls |-> NoTurn]
    /\ kept = [s \in 0 .. MaxTurns |-> NoAnswer]
    /\ step = 0
    /\ worker = NoAnswer
    /\ approved = {}
    /\ restarted = FALSE

\* The worker sends its turn, or sends it again; a keyed turn that is running
\* or has succeeded is not started a second time. The handler guards every turn
\* but an explicit resume.
Deliver(c) ==
    /\ worker.status = "none"
    /\ turn[c].at = "idle"
    /\ Overlap \/ \A d \in Calls : turn[d].at = "idle"
    /\ ~Remembered(step)
    /\ turn' = [turn EXCEPT ![c] = [at |-> IF step > 0 THEN "invoke" ELSE "guard", step |-> step]]
    /\ UNCHANGED <<vars, kept, step, worker, approved, restarted>>

\* A retry of a keyed turn that has succeeded gets its answer.
Recall ==
    /\ worker.status = "none"
    /\ kept[step] # NoAnswer
    /\ worker' = kept[step]
    /\ UNCHANGED <<vars, turn, kept, step, approved, restarted>>

\* Mutant: every delivery goes on to graph.invoke().
GuardAbsent(c) ==
    /\ turn[c].at = "guard"
    /\ turn' = [turn EXCEPT ![c].at = "invoke"]
    /\ UNCHANGED <<vars, kept, step, worker, approved, restarted>>

\* The guard's getState: an interrupted thread is reported again, not advanced.
Guard(c) ==
    /\ turn[c].at = "guard"
    /\ IF Interrupted(Latest)
       THEN Reply(c, NeedsApproval(Latest))
       ELSE /\ turn' = [turn EXCEPT ![c].at = "invoke"]
            /\ UNCHANGED <<kept, step, worker, approved, restarted>>
    /\ UNCHANGED vars

\* graph.invoke(), which loads for itself.
Enter(c) ==
    /\ turn[c].at = "invoke"
    /\ \/ /\ InvokeFresh(c) \/ InvokeResume(c)
          /\ turn' = [turn EXCEPT ![c].at = "graph"]
          /\ UNCHANGED <<kept, step, worker, approved, restarted>>
       \/ InvokeComplete(c) /\ Reply(c, Done)

\* The graph runs; its InvokeResult is mapped onto the contract's answer.
RunGraph(c) ==
    /\ turn[c].at = "graph"
    /\ Advance(c)
    /\ IF run'[c].pc # "idle" THEN UNCHANGED dvars
       ELSE Reply(c, IF result'[c] = "interrupted"
                     THEN NeedsApproval(checkpoints'[Len(checkpoints')]) ELSE Done)

\* The turn fails: the answer is a 500, nothing is kept, and the worker retries.
Fail(c) ==
    /\ turn[c].at = "graph"
    /\ Crash(c)
    /\ turn' = [turn EXCEPT ![c] = NoTurn]
    /\ UNCHANGED <<kept, step, worker, approved, restarted>>

\* The machine restarts: every turn in flight is lost, and every kept answer; the
\* checkpoints are in a store that survives.
Restart ==
    /\ crashes < MaxCrashes
    /\ crashes' = crashes + 1
    /\ run' = [c \in Calls |-> IdleRun]
    /\ result' = [c \in Calls |-> IF run[c].pc = "idle" THEN result[c] ELSE "crashed"]
    /\ edit' = [u \in Edits |-> IF edit[u].pc = "loaded"
                               THEN [pc |-> "done", base |-> NoCheckpoint] ELSE edit[u]]
    /\ turn' = [c \in Calls |-> NoTurn]
    /\ kept' = [s \in 0 .. MaxTurns |-> NoAnswer]
    /\ restarted' = TRUE
    /\ UNCHANGED <<checkpoints, step, worker, approved>>

\* A human approves the pause the worker was told about; the next turn resumes.
Approve ==
    /\ worker.status = "needs_approval"
    /\ step < MaxTurns
    /\ approved' = approved \cup {worker.pause}
    /\ step' = step + 1
    /\ worker' = NoAnswer
    /\ UNCHANGED <<vars, turn, kept, restarted>>

DNext ==
    \/ \E c \in Calls : Deliver(c) \/ Guard(c) \/ Enter(c) \/ RunGraph(c) \/ Fail(c)
    \/ Recall
    \/ Restart
    \/ Approve

DSpec == DInit /\ [][DNext]_allvars

\* The worker retries for ever, the handler and the graph go on, humans decide.
DFairSpec ==
    /\ DSpec
    /\ WF_allvars(\E c \in Calls : Deliver(c))
    /\ WF_allvars(Recall)
    /\ WF_allvars(Approve)
    /\ \A c \in Calls : WF_allvars(Guard(c) \/ Enter(c) \/ RunGraph(c))
-----------------------------------------------------------------------------
DTypeOK ==
    /\ TypeOK
    /\ turn \in [Calls -> [at : {"idle", "guard", "invoke", "graph"}, step : 0 .. MaxTurns]]
    /\ kept \in [0 .. MaxTurns -> Answer]
    /\ step \in 0 .. MaxTurns
    /\ worker \in Answer
    /\ approved \subseteq Checkpoint
    /\ restarted \in BOOLEAN

\* A gated node runs only on a pause a human has approved: lost answers, retries
\* and failed turns never walk the run through a gate. A restart forgets which
\* turns have succeeded: the guard still holds the first turn back, but a resume
\* that is sent again may then resume the next pause.
GateApproved ==
    step = 0 \/ ~restarted => \A c \in Calls :
        run[c].pc = "node" /\ run[c].currentNode \in InterruptBefore => run[c].from \in approved

\* "True when continuing an interrupted run from its checkpoint" (resume): as long
\* as no turn has failed half way, a turn after the first never starts the run
\* over, however often it is delivered. And nothing but answers and pauses of the
\* graph reaches the worker (DTypeOK).
ResumeContinues ==
    /\ DTypeOK
    /\ crashes = 0 => \A c \in Calls :
           turn[c].at = "graph" /\ turn[c].step > 0 => Interrupted(run[c].from)

\* Whatever is lost, the worker comes to know the outcome: the run is done, or it
\* waits at a pause for which the bound allows no further turn.
WorkerFinishes ==
    <>[](\/ worker.status = "done"
         \/ worker.status = "needs_approval" /\ step = MaxTurns)
-----------------------------------------------------------------------------
\* The graph of the runs, over the entry point, one gated node and a third: the
\* gated one may follow itself, and either of the others may lead to an end.
GatedEdge ==
    LET gate == CHOOSE n \in Nodes : n \in InterruptBefore
        rest == CHOOSE n \in Nodes : n \notin {EntryPoint, gate}
        To(type, nodes) == [type |-> type, targets |-> nodes, branches |-> <<>>, then |-> END]
    IN  [n \in Nodes |-> CASE n = EntryPoint -> To("unconditional", {gate})
                            [] n = gate       -> To("conditional", {gate, rest})
                            [] n = rest       -> To("conditional", {EntryPoint})]
=============================================================================
