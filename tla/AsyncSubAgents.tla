--------------------------- MODULE AsyncSubAgents ---------------------------
(***************************************************************************)
(* Background sub-agents: src/middleware/builtin/async-subagents.ts.       *)
(*                                                                         *)
(* The four tools and beforeExecute read and write the task records; each  *)
(* task has a worker (executeAsyncSubAgent), a promise nobody awaits that  *)
(* settles the record when it is through.  The program is one event loop:  *)
(* a worker's stretch from one await to the next is one action.            *)
(***************************************************************************)
EXTENDS Integers, FiniteSets

CONSTANTS
    Tasks,          \* bound on the tasks ever started
    MaxConcurrent,  \* AsyncSubAgentConfig.maxConcurrent
    MaxSteps,       \* IsolatedSubAgent.maxSteps
    MaxListed,      \* records kept before beforeExecute evicts any: 100
    KeepSettled     \* settled records an eviction leaves: 50

VARIABLES
    task,     \* every AsyncTask object's status
    listed,   \* the tasks Map: the ids the tools know
    worker,   \* what each worker awaits, and the steps it has taken
    overrun   \* history: tools a worker has called since its task was cancelled

vars == <<task, listed, worker, overrun>>
-----------------------------------------------------------------------------
Status == {"absent", "running", "success", "error", "cancelled"}

Live(i) == worker[i].awaits # "nothing"

Running == {i \in listed : task[i] = "running"}

\* The worker is through, and has left its record in status s.
Finish(i, s) ==
    /\ task' = [task EXCEPT ![i] = s]
    /\ worker' = [worker EXCEPT ![i].awaits = "nothing"]

Init ==
    /\ task = [i \in Tasks |-> "absent"]
    /\ listed = {}
    /\ worker = [i \in Tasks |-> [awaits |-> "nothing", step |-> 0]]
    /\ overrun = [i \in Tasks |-> 0]

\* Mutant: the loop does not look for a cancel.
AfterStepUnheard(i, step) == IF step = MaxSteps THEN "summary" ELSE "llm"

\* Mutant: the loop takes one step too many.
AfterStepTooFar(i, step) ==
    IF step > MaxSteps THEN "summary" ELSE IF task[i] = "cancelled" THEN "nothing" ELSE "llm"

\* The worker's loop goes round: out of steps it asks for the summary; or else it
\* looks for a cancel and calls the LLM.
AfterStep(i, step) ==
    IF step = MaxSteps THEN "summary" ELSE IF task[i] = "cancelled" THEN "nothing" ELSE "llm"

\* Mutant: one task too many is let in.
RoomForOneMore == Cardinality(Running) <= MaxConcurrent

HasRoom == Cardinality(Running) < MaxConcurrent

\* start_async_task: refused when maxConcurrent tasks are running; otherwise the
\* worker is under way, up to its first LLM call, before the tool returns (with no
\* step to take, that is the one for the summary).
StartTask(i) ==
    /\ task[i] = "absent"
    /\ HasRoom
    /\ task' = [task EXCEPT ![i] = "running"]
    /\ listed' = listed \cup {i}
    /\ worker' = [worker EXCEPT ![i].awaits = AfterStep(i, 0)]
    /\ UNCHANGED overrun

\* cancel_async_task marks the record; the worker finds out by itself.
CancelTask(i) ==
    /\ i \in Running
    /\ task' = [task EXCEPT ![i] = "cancelled"]
    /\ UNCHANGED <<listed, worker, overrun>>

\* Mutant: the steps are not counted.
NextStepUncounted(i) ==
    worker' = [worker EXCEPT ![i].awaits = AfterStep(i, worker[i].step)]

NextStep(i) ==
    LET step == worker[i].step + 1
    IN  worker' = [worker EXCEPT ![i] = [step |-> step, awaits |-> AfterStep(i, step)]]

\* The LLM answers with a tool to use, ...
CallTool(i) ==
    /\ worker[i].awaits = "llm"
    /\ worker' = [worker EXCEPT ![i].awaits = "tool"]
    /\ overrun' = [overrun EXCEPT ![i] = IF task[i] = "cancelled" THEN @ + 1 ELSE @]
    /\ UNCHANGED <<task, listed>>

\* ... or with neither a tool it has nor "done"; or the tool has answered.
StepOver(i) ==
    /\ worker[i].awaits \in {"llm", "tool"}
    /\ NextStep(i)
    /\ UNCHANGED <<task, listed, overrun>>

\* The LLM answers "done", or with the summary.
Succeed(i) ==
    /\ worker[i].awaits \in {"llm", "summary"}
    /\ Finish(i, "success")
    /\ UNCHANGED <<listed, overrun>>

\* Mutant: a rejection is caught and not recorded.
ThrowUnrecorded(i) ==
    /\ Live(i)
    /\ worker' = [worker EXCEPT ![i].awaits = "nothing"]
    /\ UNCHANGED <<task, listed, overrun>>

\* What the worker awaits rejects.
Throw(i) ==
    /\ Live(i)
    /\ Finish(i, "error")
    /\ UNCHANGED <<listed, overrun>>

\* beforeExecute of a run: with more than MaxListed records, settled ones go (the
\* oldest; their age is left out), which slice counts from the end when negative.
Evict ==
    LET settled == listed \ Running
        n == Cardinality(settled)
        gone == IF n >= KeepSettled THEN n - KeepSettled
                ELSE IF 2 * n >= KeepSettled THEN 2 * n - KeepSettled ELSE 0
    IN
    /\ Cardinality(listed) > MaxListed
    /\ \E old \in SUBSET settled :
        /\ Cardinality(old) = gone
        /\ listed' = listed \ old
    /\ UNCHANGED <<task, worker, overrun>>

Work(i) == CallTool(i) \/ StepOver(i) \/ Succeed(i) \/ Throw(i)

Next ==
    \/ \E i \in Tasks : StartTask(i) \/ CancelTask(i) \/ Work(i)
    \/ Evict

Spec == Init /\ [][Next]_vars

\* Every LLM call and every tool call settles.
FairSpec == Spec /\ \A i \in Tasks : WF_vars(Work(i))
-----------------------------------------------------------------------------
TypeOK ==
    /\ task \in [Tasks -> Status]
    /\ listed \subseteq Tasks
    /\ worker \in [Tasks -> [awaits : {"nothing", "llm", "tool", "summary"}, step : 0 .. MaxSteps]]
    /\ overrun \in [Tasks -> Nat]

\* A record that says "running" is told the truth: its worker is at work, and the
\* tools can find it, whatever has been cancelled, thrown or evicted meanwhile.
RunningIsLive == \A i \in Tasks : task[i] = "running" => Live(i) /\ i \in listed

\* The admission check holds: no more than maxConcurrent records are running.
Admission == Cardinality(Running) <= MaxConcurrent

\* A cancel takes hold at the next step: the worker starts one tool more at the most.
CancelTakesHold == \A i \in Tasks : overrun[i] <= 1

\* Every worker comes to an end, and leaves its task settled.
TaskEnds == \A i \in Tasks : Live(i) ~> ~Live(i) /\ task[i] # "running"
-----------------------------------------------------------------------------
(***************************************************************************)
(* What the documentation says and the code does not do; a run refutes it. *)
(***************************************************************************)
\* cancel_async_task: "stop a running task": a cancelled task stays cancelled.
CancelIsFinal == [][\A i \in Tasks : task[i] = "cancelled" => task'[i] = "cancelled"]_vars
=============================================================================
