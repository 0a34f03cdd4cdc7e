------------------------------ MODULE Subagents ------------------------------
(***************************************************************************)
(* Work an agent hands on while a turn waits for it: delegate_task of the  *)
(* sub-agent middleware (middleware/builtin/subagent-isolation.ts), whose  *)
(* tool is made anew by each run and put into the registry all the runs    *)
(* share, and delegate of the runner (delegateToWorker in                  *)
(* pipeline/adaptive-runner.ts), whose workers are counted.                *)
(***************************************************************************)
EXTENDS Integers, FiniteSets

CONSTANTS
    Runs,           \* the runs of the agent
    Isolated,       \* the calls of delegate_task
    Workers,        \* the calls of delegate
    MaxSteps,       \* IsolatedSubAgent.maxSteps
    MaxDelegations  \* maxConcurrentDelegations: 4

VARIABLES
    run,            \* each run: "idle" | "active" | "over"
    registered,     \* the run whose delegate_task the registry holds
    subAgentResults,\* the middleware's array: the calls it will report
    job,            \* each call: its caller, whose context it works in, what it does
    activeDelegations,
    reported,       \* what afterExecute reported for each run
    mixed           \* history: the runs beside which another run began

subVars == <<run, registered, subAgentResults, job, activeDelegations, reported, mixed>>
-----------------------------------------------------------------------------
Calls == Isolated \cup Workers

NoRun == "none"

Init ==
    /\ run = [r \in Runs |-> "idle"]
    /\ registered = NoRun
    /\ subAgentResults = {}
    /\ job = [c \in Calls |-> [at |-> "none", caller |-> NoRun, owner |-> NoRun, step |-> 0]]
    /\ activeDelegations = 0
    /\ reported = [r \in Runs |-> {}]
    /\ mixed = {}

\* Mutant: a tool that is registered already stays.
RegisteredFirst(r) == IF registered = NoRun THEN r ELSE registered

Registered(r) == r

\* beforeExecute: the array starts again, and the registry gets this run's tool.
Begin(r) ==
    /\ run[r] = "idle"
    /\ run' = [run EXCEPT ![r] = "active"]
    /\ registered' = Registered(r)
    /\ subAgentResults' = {}
    /\ mixed' = mixed \cup {o \in Runs : run[o] = "active"}
    /\ UNCHANGED <<job, activeDelegations, reported>>

To(c, at) == job' = [job EXCEPT ![c].at = at]

Settled == {"none", "success", "error"}

\* A turn waits for the calls it made.
Waiting(r) == {c \in Calls : job[c].caller = r /\ job[c].at \notin Settled}

\* With no step to take the sub-agent goes to its summary at once.
FirstStep == IF MaxSteps = 0 THEN 0 ELSE 1

\* The model of a run calls delegate_task: the tool works for the run that made it.
Delegate(c, r) ==
    /\ c \in Isolated /\ job[c].at = "none"
    /\ run[r] = "active" /\ registered # NoRun
    /\ job' = [job EXCEPT ![c] = [at |-> IF FirstStep = 0 THEN "summary" ELSE "llm",
                                  caller |-> r, owner |-> registered, step |-> FirstStep]]
    /\ UNCHANGED <<run, registered, subAgentResults, activeDelegations, reported, mixed>>

\* Mutant: one step too many.
NextStepTooFar(c) == IF job[c].step <= MaxSteps THEN "llm" ELSE "summary"

NextStep(c) == IF job[c].step < MaxSteps THEN "llm" ELSE "summary"

\* A step of the sub-agent: a tool it may use, one it may not, or neither; when it
\* says it is done, or its model fails, there is the summary to write.
Step(c) ==
    /\ job[c].at \in {"llm", "tool"}
    /\ \/ job[c].at = "llm" /\ To(c, "tool")
       \/ job[c].at = "llm" /\ To(c, "summary")
       \/ /\ job' = [job EXCEPT ![c].at = NextStep(c),
                                ![c].step = IF NextStep(c) = "llm" THEN job[c].step + 1 ELSE job[c].step]
    /\ UNCHANGED <<run, registered, subAgentResults, activeDelegations, reported, mixed>>

\* The summary is written, or fails, and with it all that was done; either way the
\* result goes into the array there is now.
Summary(c) ==
    /\ job[c].at = "summary"
    /\ \E at \in {"success", "error"} : To(c, at)
    /\ subAgentResults' = subAgentResults \cup {c}
    /\ UNCHANGED <<run, registered, activeDelegations, reported, mixed>>

\* The model of a run calls delegate.
DelegateToWorker(c, r) ==
    /\ c \in Workers /\ job[c].at = "none"
    /\ run[r] = "active"
    /\ job' = [job EXCEPT ![c] = [at |-> "waiting", caller |-> r, owner |-> r, step |-> 0]]
    /\ UNCHANGED <<run, registered, subAgentResults, activeDelegations, reported, mixed>>

\* Mutant: one worker too many is let in.
RoomForOneMore == activeDelegations <= MaxDelegations

HasRoom == activeDelegations < MaxDelegations

\* It looks every 25 ms whether there is room, in no order.
StartWorker(c) ==
    /\ job[c].at = "waiting"
    /\ HasRoom
    /\ activeDelegations' = activeDelegations + 1
    /\ To(c, "working")
    /\ UNCHANGED <<run, registered, subAgentResults, reported, mixed>>

\* Mutant: a worker that throws keeps its place.
FreedUnlessThrown(at) == IF at = "error" THEN activeDelegations ELSE activeDelegations - 1

Freed(at) == activeDelegations - 1

\* The worker's run returns or throws.
EndWorker(c) ==
    /\ job[c].at = "working"
    /\ \E at \in {"success", "error"} : To(c, at) /\ activeDelegations' = Freed(at)
    /\ UNCHANGED <<run, registered, subAgentResults, reported, mixed>>

\* afterExecute reports the array as the run's own.
End(r) ==
    /\ run[r] = "active" /\ Waiting(r) = {}
    /\ run' = [run EXCEPT ![r] = "over"]
    /\ reported' = [reported EXCEPT ![r] = subAgentResults]
    /\ UNCHANGED <<registered, subAgentResults, job, activeDelegations, mixed>>

Next ==
    \/ \E r \in Runs : Begin(r) \/ End(r) \/ \E c \in Calls : Delegate(c, r) \/ DelegateToWorker(c, r)
    \/ \E c \in Calls : Step(c) \/ Summary(c) \/ StartWorker(c) \/ EndWorker(c)
-----------------------------------------------------------------------------
\* "Cap simultaneous workers": the count is right, and holds, whatever throws.
WorkersAreCounted ==
    /\ activeDelegations = Cardinality({c \in Workers : job[c].at = "working"})
    /\ activeDelegations <= MaxDelegations

\* A sub-agent takes no more than its steps, and works in the session, and with the
\* claims, of the run that asked, unless another run has begun beside it.
IsolatedWorksForItsCaller ==
    \A c \in Isolated :
        /\ job[c].step <= MaxSteps
        /\ job[c].owner = job[c].caller \/ job[c].caller \in mixed

\* A run reports the sub-agents it called, all of them and no others, unless another
\* run has begun, or was still at work, beside it.
ReportsItsOwn ==
    \A r \in Runs : run[r] = "over" =>
        \/ reported[r] = {c \in Isolated : job[c].caller = r}
        \/ r \in mixed
        \/ \E o \in mixed : o # r
=============================================================================
