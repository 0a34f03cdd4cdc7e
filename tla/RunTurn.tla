-------------------------------- MODULE RunTurn --------------------------------
(***************************************************************************)
(* Runs of one session from their message to their reply: runInContext of  *)
(* pipeline/adaptive-runner.ts around the agentic loop (AgentLoop), with   *)
(* the heuristic router, the graph tier, the self-critique, the history    *)
(* and the exchange sent to Minns behind the run's back.                   *)
(*                                                                         *)
(* The runs share the SessionState and may overlap.  The agent has a       *)
(* client, a critic and middleware, and more than one tool.  Each phase    *)
(* around the loop has a catch of its own: that it threw is an entry among *)
(* the errors, and the run goes on as it does when the phase found nothing.*)
(***************************************************************************)
EXTENDS Integers, Sequences, FiniteSets, Functions

CONSTANTS
    Runs,         \* the messages of the session, each with its run
    MaxHistory    \* exchanges the history keeps

VARIABLES
    tree,         \* reasoning.treeSearch, and with it the engine
    run,          \* each run: its phase, tier, reply, and how its loop stopped
    iterations,   \* sessionState.iterationCount
    history,      \* sessionState.conversationHistory, in exchanges
    told,         \* the message event, and what was streamed before it
    ended,        \* the runs that are done, in order, with the result's success
    stored        \* what Minns has got, in order

turnVars == <<tree, run, iterations, history, told, ended, stored>>
-----------------------------------------------------------------------------
\* What the router can tell of a message.
Messages == {"short", "plain", "complex"}

\* routeExecution for an agent with a client and several tools.
RouteExecution(message, count) ==
    IF tree THEN "graph"
    ELSE IF message = "short" THEN "loop"
    ELSE IF count = 0 \/ message = "complex" THEN "graph" ELSE "loop"

\* How the agentic loop stops; at a limit, or aborted, counts as done.
Stops == {"done", "error", "refused"}

Init ==
    /\ tree \in BOOLEAN
    /\ run = [r \in Runs |-> [at |-> "idle", tier |-> "none", seen |-> 0, reply |-> "none", stop |-> "done",
                              sending |-> "none"]]
    /\ iterations = 0
    /\ history = <<>>
    /\ told = [r \in Runs |-> [message |-> "none", streamed |-> "none"]]
    /\ ended = <<>>
    /\ stored = <<>>

Begin(r) ==
    /\ run[r].at = "idle"
    /\ run' = [run EXCEPT ![r].at = "before", ![r].seen = iterations]
    /\ UNCHANGED <<tree, iterations, history, told, ended, stored>>

\* Mutant: the first-turn check uses the count there was before the middleware ran.
CountAtBegin(r) == run[r].seen

CountNow(r) == iterations

\* beforeExecute has returned; the route is chosen and the turn counted, at once.
Route(r, message) ==
    LET tier == RouteExecution(message, CountNow(r))
    IN  /\ run[r].at = "before"
        /\ iterations' = iterations + 1
        /\ run' = [run EXCEPT ![r].at = IF tier = "graph" THEN "memory" ELSE "loop",
                              ![r].tier = IF tier = "graph" /\ ~tree /\ message = "plain" THEN "first" ELSE "any",
                              ![r].seen = 0]
        /\ UNCHANGED <<tree, history, told, ended, stored>>

\* Memory retrieval; the reflexion that follows is made of what it found.
Memory(r) ==
    /\ run[r].at = "memory"
    /\ run' = [run EXCEPT ![r].at = IF tree THEN "complexity" ELSE "loop"]
    /\ UNCHANGED <<tree, iterations, history, told, ended, stored>>

\* The assessment: with the engine there is tree search whatever it says.
Complexity(r) ==
    /\ run[r].at = "complexity"
    /\ run' = [run EXCEPT ![r].at = "tree"]
    /\ UNCHANGED <<tree, iterations, history, told, ended, stored>>

\* Tree search, whose results are the run's too; the loop follows in any case.
TreeSearch(r) ==
    /\ run[r].at = "tree"
    /\ run' = [run EXCEPT ![r].at = "loop"]
    /\ UNCHANGED <<tree, iterations, history, told, ended, stored>>

\* runAgenticLoop never throws, and its reply is never empty: it is the model's
\* answer, streamed as it came if there is someone to stream to and the middleware
\* lets words through, or a sentence for the model that gave none.
Loop(r, stop, answers, streams) ==
    /\ run[r].at = "loop"
    /\ streams => answers
    /\ run' = [run EXCEPT ![r].at = "critique", ![r].reply = IF answers THEN "answer" ELSE "sentence", ![r].stop = stop]
    /\ told' = [told EXCEPT ![r].streamed = IF streams THEN "answer" ELSE "none"]
    /\ UNCHANGED <<tree, iterations, history, ended, stored>>

\* The critic: a reply it rejects is replaced if it has a better one. A run that
\* does not ask it, unattended, is one it approves. Then the message event.
Critique(r, verdict) ==
    LET reply == IF verdict = "rewrites" THEN "rewritten" ELSE run[r].reply
    IN  /\ run[r].at = "critique"
        /\ run' = [run EXCEPT ![r].at = "after", ![r].reply = reply]
        /\ told' = [told EXCEPT ![r].message = reply]
        /\ UNCHANGED <<tree, iterations, history, ended, stored>>

\* Mutant: the history is bounded message by message, before the reply is in.
BoundedShort(exchanges) == IF Len(exchanges) >= MaxHistory THEN Tail(exchanges) ELSE exchanges

\* updateConversationHistory.
Bounded(exchanges) == IF Len(exchanges) > MaxHistory THEN Tail(exchanges) ELSE exchanges

\* Mutant: what is remembered is the reply before the critique.
RememberedDraft(r) == IF told[r].streamed # "none" THEN told[r].streamed ELSE run[r].reply

Remembered(r) == run[r].reply

\* success: the loop neither failed nor was refused.
Succeeds(r) == run[r].stop \notin {"error", "refused"}

\* afterExecute has returned: the history, the first send to Minns, and the result.
Finish(r) ==
    /\ run[r].at = "after"
    /\ history' = Bounded(Append(history, <<r, Remembered(r)>>))
    /\ ended' = Append(ended, <<r, Succeeds(r)>>)
    /\ run' = [run EXCEPT ![r].at = "done", ![r].sending = "user", ![r].reply = "none", ![r].stop = "done"]
    /\ told' = [told EXCEPT ![r].streamed = "none"]
    /\ UNCHANGED <<tree, iterations, stored>>

\* Mutant: both messages are under way at once.
SendableAtOnce(r) == {"user", "assistant"} \ {s[2] : s \in {t \in Range(stored) : t[1] = r}}

Sendable(r) == {run[r].sending} \ {"none", "sent"}

\* ingestToMinns: the message, then the reply; a send that failed is noted and no more.
Ingest(r, role, arrives) ==
    /\ run[r].at = "done" /\ run[r].sending # "sent"
    /\ role \in Sendable(r)
    /\ stored' = IF arrives THEN Append(stored, <<r, role>>) ELSE stored
    /\ run' = [run EXCEPT ![r].sending =
           IF run[r].sending = "user" THEN "assistant" ELSE "sent"]
    /\ UNCHANGED <<tree, iterations, history, told, ended>>

Advance(r) ==
    \/ \E message \in Messages : Route(r, message)
    \/ Memory(r) \/ Complexity(r) \/ TreeSearch(r) \/ Finish(r)
    \/ \E stop \in Stops, answers, streams \in BOOLEAN : Loop(r, stop, answers, streams)
    \/ \E verdict \in {"approves", "rewrites", "rejects", "throws"} : Critique(r, verdict)

Next == \E r \in Runs :
    \/ Begin(r)
    \/ Advance(r)
    \/ \E role \in {"user", "assistant"}, arrives \in BOOLEAN : Ingest(r, role, arrives)
-----------------------------------------------------------------------------
\* The history is what was said: the last exchanges that ended, in that order,
\* each with the reply its user was told, though it was streamed otherwise before
\* the critic rewrote it.
HistoryIsWhatWasTold ==
    LET kept == IF Len(ended) > MaxHistory THEN MaxHistory ELSE Len(ended)
        of == SubSeq(ended, Len(ended) - kept + 1, Len(ended))
    IN  /\ history = [i \in DOMAIN of |-> <<of[i][1], told[of[i][1]].message>>]
        /\ \A r \in Runs : told[r].message # "none" /\ told[r].streamed # "none" =>
               told[r].message \in {told[r].streamed, "rewritten"}

\* One run of the session at most pays for the memories of a first turn, however
\* many begin at once.
PrimedOnce == Cardinality({r \in Runs : run[r].tier = "first"}) <= 1

\* Minns hears a message before its reply, unless it never hears the message.
HeardInOrder == \A i, j \in DOMAIN stored :
    stored[i][1] = stored[j][1] /\ stored[i][2] = "user" /\ stored[j][2] = "assistant" => i < j

\* A run that begins ends, with a message, whatever fails on its way.
RunsEnd == \A r \in Runs : run[r].at = "before" ~> run[r].at = "done" /\ told[r].message # "none"
=============================================================================
