-------------------------------- MODULE Pipeline --------------------------------
(***************************************************************************)
(* The fixed pipeline (pipeline/runner.ts) and its phases over consecutive *)
(* messages of one session with a Minns client: what each phase does to    *)
(* the session when it works and when it throws, which phases the          *)
(* complexity of a message skips, and the two action loops.                *)
(*                                                                         *)
(* A phase that throws is an entry among the errors; the next one follows. *)
(* The goal checker is the default one, which cannot throw; the search for *)
(* actions, off by default, is module TreeSearch.                          *)
(***************************************************************************)
EXTENDS Integers, Sequences

CONSTANTS
    Turns,         \* how many messages the session has
    MaxSteps,      \* directive.maxIterations
    MaxCalls,      \* bound on the tool calls of one answer
    MaxHistory     \* messages the history keeps, any number

VARIABLES
    native,     \* the provider has completeWithTools
    turn,       \* the message that is being handled
    at,         \* the phase that comes next
    session,    \* history, goal and fact of the SessionState
    intent,     \* what the message was taken for
    level,      \* how complex it was taken to be
    step,       \* steps of the action loop
    acted,      \* how many tool calls of the turn were executed
    results,    \* how many of them are in toolResults
    reply,      \* pipelineState.responseMessage
    told,       \* the message event of the turn
    minns,      \* what Minns has got of the turn
    unkept      \* the turns whose last send failed

pipeline == <<native, turn, at, session, intent, level, step, acted, results, reply, told, minns, unkept>>
-----------------------------------------------------------------------------
Intents == {"inform", "query", "book"}

\* defaultGoalChecker: complete once the goal was, and never by counting.
Completed(s) == s.goal \/ s.goalAt

\* mapToAssessment and assessHeuristic: what a message of this complexity skips.
Skips(complexity) ==
    CASE complexity = "trivial" -> {"plan", "auto_store", "action", "reasoning_store"}
      [] complexity = "greeting" -> {"plan", "action"}
      [] complexity = "simple" -> {"plan"}
      [] OTHER -> {}

Init ==
    /\ native \in BOOLEAN
    /\ turn = 1 /\ at = "before"
    /\ session = [history |-> <<>>, goal |-> FALSE, goalAt |-> FALSE, fact |-> FALSE]
    /\ intent = "query" /\ level = "moderate"
    /\ step = 0 /\ acted = 0 /\ results = 0
    /\ reply = "none" /\ told = "none" /\ minns = <<>> /\ unkept = {}

\* runIntentPhase: what the model made of it, and a query when it throws or says
\* nothing that parses.
Intent(what) ==
    /\ at = "before"
    /\ intent' = what
    /\ at' = "semantic"
    /\ UNCHANGED <<native, turn, session, level, step, acted, results, reply, told, minns, unkept>>

\* runSemanticWritePhase: what informs or asks for something to be done goes to
\* Minns, and of the queries those the model marked with enable_semantic.
SemanticWrite(marked, arrives) ==
    /\ at = "semantic"
    /\ minns' = IF (intent # "query" \/ marked) /\ arrives THEN Append(minns, "user") ELSE minns
    /\ at' = "complexity"
    /\ UNCHANGED <<native, turn, session, intent, level, step, acted, results, reply, told, unkept>>

\* The assessment; a message that was no query or comment is not a greeting.
\* The plan and the memories change nothing that the later phases depend on.
Complexity(complexity) ==
    /\ at = "complexity"
    /\ complexity = "greeting" => intent = "query"
    /\ level' = complexity
    /\ at' = IF "auto_store" \in Skips(complexity) THEN "after_store" ELSE "auto_store"
    /\ UNCHANGED <<native, turn, session, intent, step, acted, results, reply, told, minns, unkept>>

\* runAutoStorePhase: a fact the message gave, once.
AutoStore(gives, succeeds) ==
    LET stores == intent = "inform" /\ gives /\ ~session.fact
    IN  /\ at = "auto_store"
        /\ gives => intent = "inform"
        /\ acted' = acted + IF stores THEN 1 ELSE 0
        /\ results' = results + IF stores THEN 1 ELSE 0
        /\ session' = [session EXCEPT !.fact = session.fact \/ (stores /\ succeeds)]
        /\ at' = "after_store"
        /\ UNCHANGED <<native, turn, intent, level, step, reply, told, minns, unkept>>

\* Into the action loop, or past it.
EnterLoop ==
    /\ at = "after_store"
    /\ at' = IF "action" \in Skips(level) THEN "goal" ELSE "action"
    /\ step' = 0
    /\ UNCHANGED <<native, turn, session, intent, level, acted, results, reply, told, minns, unkept>>

\* Mutant: the last step of the JSON loop acts as well.
StepsWithLast == MaxSteps

\* The JSON loop gives its last step to nobody.
Steps == IF native THEN MaxSteps ELSE MaxSteps - 1

LoopEnds == step >= Steps \/ Completed(session)

EndLoop ==
    /\ at = "action" /\ LoopEnds
    /\ at' = "goal"
    /\ UNCHANGED <<native, turn, session, intent, level, step, acted, results, reply, told, minns, unkept>>

\* Mutant: a call that failed is told to the model only.
ReportedSuccesses(calls, failed) == calls - failed

\* Every result of a batch is pushed, in the order of the calls.
Reported(calls, failed) == calls

\* A step of either loop: the model's answer has calls, all of which are executed
\* before the next, the writers one by one; a call of a tool that is not
\* there is a result only for the model; store_preference stores a fact.
\* In the JSON loop an answer is one call, and one that does not parse repeats
\* what the intent suggests.
Acts(calls, failed, stores) ==
    /\ at = "action" /\ ~LoopEnds
    /\ failed <= calls /\ (stores => failed < calls)
    /\ ~native => calls <= 1
    /\ step' = step + 1
    /\ acted' = acted + calls
    /\ results' = results + Reported(calls, failed)
    /\ session' = [session EXCEPT !.fact = session.fact \/ stores]
    /\ UNCHANGED <<native, turn, at, intent, level, reply, told, minns, unkept>>

\* The model answers without a call, or fails.
Responds ==
    /\ at = "action" /\ ~LoopEnds
    /\ at' = "goal"
    /\ UNCHANGED <<native, turn, session, intent, level, step, acted, results, reply, told, minns, unkept>>

\* Mutant: the goal is what this message has made of it.
GoalOfMessage(s, booked) == [s EXCEPT !.goal = booked, !.goalAt = booked]

\* handleGoalCompletion: a booking completes the goal, whatever the checker has said.
GoalAfter(s, booked) ==
    [s EXCEPT !.goal = Completed(s) \/ (booked /\ ~s.goalAt), !.goalAt = s.goalAt \/ booked \/ Completed(s)]

GoalCheck ==
    /\ at = "goal"
    /\ session' = GoalAfter(session, intent = "book")
    /\ at' = "response"
    /\ UNCHANGED <<native, turn, intent, level, step, acted, results, reply, told, minns, unkept>>

\* runResponsePhase; when it throws the reply is a fixed sentence.  A completion
\* that is empty is the reply as well.
Respond(says) ==
    /\ at = "response"
    /\ reply' = says
    /\ at' = "critique"
    /\ UNCHANGED <<native, turn, session, intent, level, step, acted, results, told, minns, unkept>>

\* The critic may replace a reply that is not empty; then the message event.
Critique(rewrites) ==
    LET final == IF rewrites /\ reply # "empty" THEN "rewritten" ELSE reply
    IN  /\ at = "critique"
        /\ reply' = final
        /\ told' = final
        /\ at' = "after"
        /\ UNCHANGED <<native, turn, session, intent, level, step, acted, results, minns, unkept>>

\* afterExecute: a middleware may still replace responseMessage, which was told already.
AfterExecute(changes) ==
    /\ at = "after"
    /\ reply' = IF changes THEN "changed" ELSE reply
    /\ at' = "finalize"
    /\ UNCHANGED <<native, turn, session, intent, level, step, acted, results, told, minns, unkept>>

\* Mutant: slice(0, maxHistory), which keeps the oldest.
BoundedOldest(messages) ==
    IF Len(messages) > MaxHistory THEN SubSeq(messages, 1, MaxHistory) ELSE messages

\* slice(-maxHistory), when there are more; slice(-0) is all of them.
Bounded(messages) ==
    IF Len(messages) > MaxHistory /\ MaxHistory > 0
    THEN SubSeq(messages, Len(messages) - MaxHistory + 1, Len(messages)) ELSE messages

\* runFinalizePhase: the reply goes to Minns first; if that throws the history is not written.
Finalize(arrives) ==
    /\ at = "finalize"
    /\ minns' = IF arrives THEN Append(minns, "assistant") ELSE minns
    /\ unkept' = IF arrives THEN unkept ELSE unkept \cup {turn}
    /\ session' = IF ~arrives THEN session
                  ELSE [session EXCEPT !.history =
                           Bounded(session.history \o <<<<turn, "user", "said">>, <<turn, "assistant", reply>>>>)]
    /\ at' = "done"
    /\ UNCHANGED <<native, turn, intent, level, step, acted, results, reply, told>>

NextMessage ==
    /\ at = "done" /\ turn < Turns
    /\ turn' = turn + 1
    /\ at' = "before"
    /\ intent' = "query" /\ level' = "moderate"
    /\ step' = 0 /\ acted' = 0 /\ results' = 0 /\ reply' = "none"
    /\ told' = "none" /\ minns' = <<>>
    /\ UNCHANGED <<native, session, unkept>>

Advance ==
    \/ \E what \in Intents : Intent(what)
    \/ \E complexity \in {"trivial", "greeting", "simple", "moderate"} : Complexity(complexity)
    \/ \E gives, succeeds \in BOOLEAN : AutoStore(gives, succeeds)
    \/ \E calls, failed \in 0..MaxCalls, stores \in BOOLEAN : Acts(calls, failed, stores)
    \/ \E marked, arrives \in BOOLEAN : SemanticWrite(marked, arrives)
    \/ \E says \in {"answer", "empty"} : Respond(says)
    \/ \E ok \in BOOLEAN : Critique(ok) \/ AfterExecute(ok) \/ Finalize(ok)
    \/ EnterLoop \/ EndLoop \/ Responds \/ GoalCheck

Next == Advance \/ NextMessage
-----------------------------------------------------------------------------
\* "Update local conversation history (always)": not always, an exchange whose
\* reply could not be sent to Minns is missing; of the others the newest are there,
\* whole, in order.  Only a bound that is odd leaves, at the front, a reply without
\* its question.  What is kept is what was told, unless a middleware changed it
\* afterwards.
ExchangesKept ==
    LET h == session.history
        odd == Len(h) % 2
    IN  /\ odd = 1 => MaxHistory % 2 = 1
        /\ \A i \in DOMAIN h : h[i][2] = (IF (i + odd) % 2 = 1 THEN "user" ELSE "assistant")
        /\ \A i \in DOMAIN h : (i + odd) % 2 = 1 => h[i][1] = h[i + 1][1]
        /\ \A t \in 1..turn : (t < turn \/ at = "done") /\ t \notin unkept /\ 2 * (turn - t) + 1 < MaxHistory =>
               \E i \in DOMAIN h : h[i][1] = t /\ h[i][2] = "user"
        /\ minns \in {<<>>, <<"user">>, <<"assistant">>, <<"user", "assistant">>}
        /\ at = "done" => reply \in {told, "changed"}

\* Every tool call of a turn is among its results, and no turn makes more calls
\* than its loop has steps for: none at all once the goal was reached.
CallsAreReported ==
    /\ acted = results
    /\ acted <= 1 + (IF native THEN MaxCalls * MaxSteps ELSE MaxSteps - 1)

\* Once a booking has been made the session's goal stays reached, and its action
\* loop takes no further step.
GoalStaysReached == [][session.goalAt => session'.goalAt /\ (at = "goal" => session'.goal) /\ step' <= step]_pipeline

\* Every message gets its reply, whatever fails.
EveryMessageAnswered == at = "before" ~> at = "done" /\ told # "none"
=============================================================================
