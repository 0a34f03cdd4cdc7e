------------------------------ MODULE Workspace ------------------------------
(***************************************************************************)
(* A remote workspace: HttpSandbox.exec (tools/sandbox/http-sandbox.ts) on *)
(* the agent's side, the /exec route of runtime/sandbox-server.ts with its *)
(* promise chain of commands, and LocalSandbox.exec, which runs them.      *)
(*                                                                         *)
(* The chain is modelled as it is built: every accepted command waits for  *)
(* the one accepted before it. What follows a settled promise happens      *)
(* before the next event of the outside world (Quiet).                     *)
(***************************************************************************)
EXTENDS Integers, FiniteSets

CONSTANTS
    Execs,      \* calls of HttpSandbox.exec, each of one command
    NoExec,     \* the promise the chain starts with
    MaxQueued   \* maxQueued

VARIABLES
    caller,      \* what each exec() awaits or has returned
    connected,   \* the execs whose connection stands
    job,         \* the server's side: the command, the promise it follows, how it was stopped
    chain,       \* the last accepted command
    queued,      \* the counter the 429 looks at
    busy,        \* what /healthz reports
    early        \* history: callers who left while their command was queued

vars == <<caller, connected, job, chain, queued, busy, early>>
-----------------------------------------------------------------------------
\* Mutant: chain = turn, without the catch: a command that threw rejects all behind it.
SettledWell(e) == e \in Execs => job[e].status = "ended"

Settled(e) == e \in Execs => job[e].status \in {"ended", "threw"}

In(status) == {e \in Execs : job[e].status = status}

Ready(e) == job[e].status = "queued" /\ Settled(job[e].after)

Quiet == \A e \in Execs : ~Ready(e)

Init ==
    /\ caller = [e \in Execs |-> "idle"]
    /\ connected = {}
    /\ job = [e \in Execs |-> [status |-> "none", after |-> NoExec, stop |-> "no"]]
    /\ chain = NoExec
    /\ queued = 0
    /\ busy = FALSE
    /\ early = {}

\* Mutant: a command does not wait for the one before it.
FollowNothing(e) == [status |-> "queued", after |-> NoExec, stop |-> "no"]

\* chain.then(...): the command follows the last one accepted.
Follow(e) == [status |-> "queued", after |-> chain, stop |-> "no"]

\* Mutant: one command too many may wait.
HasRoomForOneMore == queued <= MaxQueued

HasRoom == queued < MaxQueued

\* exec() posts the command and the route accepts it.
Post(e) ==
    /\ Quiet
    /\ caller[e] = "idle"
    /\ HasRoom
    /\ caller' = [caller EXCEPT ![e] = "waiting"]
    /\ connected' = connected \cup {e}
    /\ job' = [job EXCEPT ![e] = Follow(e)]
    /\ chain' = e
    /\ queued' = queued + 1
    /\ UNCHANGED <<busy, early>>

\* The workspace answers 429 or 400, or cannot be reached.
TurnedAway(e) ==
    /\ Quiet
    /\ caller[e] = "idle"
    /\ caller' = [caller EXCEPT ![e] = "failed"]
    /\ UNCHANGED <<connected, job, chain, queued, busy, early>>

\* The command's turn: from here on the route listens for the caller hanging up.
Begin(e) ==
    /\ Ready(e)
    /\ job' = [job EXCEPT ![e].status = "running", ![e].after = NoExec]
    /\ queued' = queued - 1
    /\ busy' = TRUE
    /\ UNCHANGED <<caller, connected, chain, early>>

\* The command's own timeout kills its process group.
RunOut(e) ==
    /\ Quiet
    /\ job[e].status = "running"
    /\ job[e].stop = "no"
    /\ job' = [job EXCEPT ![e].stop = "timeout"]
    /\ UNCHANGED <<caller, connected, chain, queued, busy, early>>

\* What a caller who is still there is told when the command is over.
Told(e, how) ==
    IF how = "threw" THEN "failed"
    ELSE IF job[e].stop = "timeout" THEN "cut" ELSE "whole"

\* The child closes (or the backend throws): the answer goes out, the next
\* command of the chain may start.
End(e, how) ==
    /\ Quiet
    /\ job[e].status = "running"
    /\ job' = [job EXCEPT ![e].status = how]
    /\ busy' = FALSE
    /\ caller' = IF e \in connected THEN [caller EXCEPT ![e] = Told(e, how)] ELSE caller
    /\ connected' = connected \ {e}
    /\ UNCHANGED <<chain, queued, early>>

\* Mutant: nobody listens for the connection to close.
StoppedUnheard(e) == job

\* controller.abort() of a running command kills it; a queued one has no listener yet.
Stopped(e) ==
    IF job[e].status = "running" /\ job[e].stop = "no"
    THEN [job EXCEPT ![e].stop = "abort"]
    ELSE job

\* The connection is closed before the answer.
HangUp(e, why) ==
    /\ caller[e] = "waiting"
    /\ caller' = [caller EXCEPT ![e] = why]
    /\ connected' = connected \ {e}
    /\ job' = Stopped(e)
    /\ early' = IF job[e].status = "queued" THEN early \cup {e} ELSE early
    /\ UNCHANGED <<chain, queued, busy>>

\* The transport's deadline, timeoutMs + transportMarginMs from the call of
\* exec(), or a broken connection.
GiveUp(e) == Quiet /\ HangUp(e, "failed")

\* The run's signal fires while exec() waits. One that has fired before the call
\* is never heard of: its listener is attached too late.
Cancel(e) == Quiet /\ HangUp(e, "failed")

Serve(e) == Begin(e) \/ \E how \in {"ended", "threw"} : End(e, how)

Next == \E e \in Execs : Post(e) \/ TurnedAway(e) \/ Serve(e) \/ RunOut(e) \/ GiveUp(e) \/ Cancel(e)

Spec == Init /\ [][Next]_vars

\* Commands end: they are killed at their timeout. Callers need not do anything.
Fairness == \A e \in Execs : WF_vars(Serve(e))
-----------------------------------------------------------------------------
TypeOK ==
    /\ caller \in [Execs -> {"idle", "waiting", "whole", "cut", "failed"}]
    /\ connected \subseteq Execs /\ early \subseteq Execs
    /\ job \in [Execs -> [status : {"none", "queued", "running", "ended", "threw"},
                          after : Execs \cup {NoExec}, stop : {"no", "timeout", "abort"}]]
    /\ chain \in Execs \cup {NoExec}
    /\ queued \in Nat /\ busy \in BOOLEAN

\* "One command at a time per workspace, with a bounded queue": whoever hangs up,
\* times out or throws, two commands never run together, and what /healthz and
\* the 429 go by is the truth.
OneAtATime ==
    /\ Cardinality(In("running")) <= 1
    /\ busy = (In("running") # {})
    /\ queued = Cardinality(In("queued"))
    /\ queued <= MaxQueued

\* A command runs for somebody: its caller is there, or it is being killed, or
\* (what the code does not notice) the caller left while it was queued.
RunsForSomebody ==
    \A e \in In("running") : e \in connected \/ job[e].stop # "no" \/ e \in early

\* An exec() that returns a whole result returns that of a command which ran to
\* its own end, and one that waits has a command to wait for.
ToldTheTruth == \A e \in Execs :
    /\ caller[e] = "whole" => job[e].status = "ended" /\ job[e].stop = "no"
    /\ caller[e] = "waiting" => job[e].status \in {"queued", "running"} /\ e \in connected

\* The workspace runs one command at a time, for somebody, and tells the truth.
QueueSound == TypeOK /\ OneAtATime /\ RunsForSomebody /\ ToldTheTruth

\* The queue drains, whatever becomes of the commands in it, and with it every
\* exec() returns.
Drains == \A e \in Execs : job[e].status = "queued" ~> Settled(e) /\ caller[e] # "waiting"

\* "... the command killed when the caller goes away": not when it leaves early.
KilledWhenCallerLeaves == \A e \in In("running") : e \in connected \/ job[e].stop # "no"
=============================================================================
