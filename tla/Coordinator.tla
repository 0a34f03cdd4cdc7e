----------------------------- MODULE Coordinator -----------------------------
(***************************************************************************)
(* coordinator/coordinator.ts: coordinate() runs a list of tasks, the      *)
(* reads between two writes together and every write alone, pushes each    *)
(* outcome as it settles, and hands all of them to synthesize.             *)
(***************************************************************************)
EXTENDS Integers, Sequences, FiniteSets, SequencesExt

CONSTANTS MaxTasks    \* bound on the length of the list

VARIABLES
    effect,      \* the effect of each task: the call's argument
    batches,     \* the batches still to be run
    running,     \* the tasks whose worker runs
    outcomes,    \* by position: "none", or how the worker settled
    pushed,      \* the positions onOutcome was called with, in order
    synthesis    \* "none" | "asked" | "given" | "failed" | "skipped"

vars == <<effect, batches, running, outcomes, pushed, synthesis>>
-----------------------------------------------------------------------------
Tasks == DOMAIN effect

\* Mutant: a write joins the reads before it.
BatchWithWrites(effects) ==
    LET Add(done, i) ==
            IF done # <<>> /\ effects[Min(Last(done))] = "read"
            THEN Append(Front(done), Last(done) \cup {i})
            ELSE Append(done, {i})
    IN  FoldLeft(Add, <<>>, [i \in DOMAIN effects |-> i])

\* batchTasks(): a read joins the batch of reads before it; a write is a batch.
BatchTasks(effects) ==
    LET Add(done, i) ==
            IF effects[i] = "read" /\ done # <<>> /\ \A j \in Last(done) : effects[j] = "read"
            THEN Append(Front(done), Last(done) \cup {i})
            ELSE Append(done, {i})
    IN  FoldLeft(Add, <<>>, [i \in DOMAIN effects |-> i])

Init ==
    /\ effect \in UNION {[1..n -> {"read", "write"}] : n \in 0..MaxTasks}
    /\ batches = BatchTasks(effect)
    /\ running = {}
    /\ outcomes = [i \in Tasks |-> "none"]
    /\ pushed = <<>>
    /\ synthesis = "none"

\* Mutant: the next batch does not wait for the last task of this one.
BatchOver == Cardinality(running) <= 1

\* Promise.all has the whole batch.
BatchDone == running = {}

StartBatch ==
    /\ BatchDone
    /\ batches # <<>>
    /\ running' = running \cup Head(batches)
    /\ batches' = Tail(batches)
    /\ UNCHANGED <<effect, outcomes, pushed, synthesis>>

\* Mutant: a worker that throws is not recorded.
RecordedResult(i, how) ==
    IF how = "error" THEN UNCHANGED <<outcomes, pushed>>
    ELSE outcomes' = [outcomes EXCEPT ![i] = how] /\ pushed' = Append(pushed, i)

\* The outcome goes into its slot and is pushed; what onOutcome throws is lost.
Recorded(i, how) == outcomes' = [outcomes EXCEPT ![i] = how] /\ pushed' = Append(pushed, i)

\* runWorker resolves or throws.
Settle(i, how) ==
    /\ i \in running
    /\ running' = running \ {i}
    /\ Recorded(i, how)
    /\ UNCHANGED <<effect, batches, synthesis>>

Synthesize ==
    /\ BatchDone
    /\ batches = <<>>
    /\ synthesis = "none"
    /\ synthesis' \in {"asked", "skipped"}
    /\ UNCHANGED <<effect, batches, running, outcomes, pushed>>

SynthesisSettles(how) ==
    /\ synthesis = "asked"
    /\ synthesis' = how
    /\ UNCHANGED <<effect, batches, running, outcomes, pushed>>

Advance ==
    \/ StartBatch
    \/ \E i \in Tasks, how \in {"result", "error"} : Settle(i, how)
    \/ Synthesize
    \/ \E how \in {"given", "failed"} : SynthesisSettles(how)

Next == Advance

Spec == Init /\ [][Next]_vars
-----------------------------------------------------------------------------
\* A write never overlaps another task, and the order around it is that of the
\* list: what has run or is running is everything before any task not started.
WriteBarrier ==
    /\ \A i \in running : effect[i] = "write" => running = {i}
    /\ \A i, j \in Tasks : i < j /\ "write" \in {effect[i], effect[j]} =>
           (j \in running \/ outcomes[j] # "none" => outcomes[i] # "none")

\* Synthesis sees the outcome of every task, and each was pushed once before it,
\* whichever of them failed and in whatever order they settled.
AllReported ==
    /\ Len(pushed) = Cardinality({i \in Tasks : outcomes[i] # "none"})
    /\ ToSet(pushed) = {i \in Tasks : outcomes[i] # "none"}
    /\ synthesis # "none" => ToSet(pushed) = Tasks

\* coordinate() returns, whatever its workers and synthesize do.
Returns == <>(synthesis \notin {"none", "asked"})
=============================================================================
