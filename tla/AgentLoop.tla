----------------------------- MODULE AgentLoop -----------------------------
(***************************************************************************)
(* One run of the agentic loop (runAgenticLoop in                          *)
(* src/pipeline/adaptive-runner.ts): the model is called, the tools it     *)
(* asks for run in batches, their results go back, until it answers or a   *)
(* rail stops the run.  With it: the verdict on a turn (turn-safety.ts),   *)
(* the batches (planToolBatches in tool.ts), what a call of a tool may     *)
(* come to (tool-registry.ts) and the recovery from a context that is too  *)
(* long (context-recovery.ts, context-compaction.ts).                      *)
(*                                                                         *)
(* A call is its tool's name, its arguments being always the same; what a  *)
(* tool answers is one of two results, so that an answer may repeat or     *)
(* differ from the one before.                                             *)
(***************************************************************************)
EXTENDS Integers, FiniteSets, Sequences, SequencesExt

CONSTANTS
    Tools,           \* the names in the registry
    ReadTools,       \* those whose effect is "read"; the others write
    Deferred,        \* those whose schema is withheld at first
    Unserializable,  \* those whose result JSON.stringify may refuse
    FindTools,       \* find_tools, answered by the loop itself
    Turns,           \* the tool calls a model may ask for in one turn
    MaxSteps,        \* maxIterations
    MaxToolCalls,    \* controls.maxToolCalls
    MaxBudget        \* controls.maxBudgetUsd, a call costing 0 or 1

ASSUME LoopAssumption ==
    /\ ReadTools \cup Deferred \cup Unserializable \subseteq Tools
    /\ FindTools \notin Tools
    /\ \A turn \in Turns : turn \in Seq(UNION {ToSet(t) : t \in Turns}) /\ turn # <<>>
    /\ {MaxSteps, MaxToolCalls, MaxBudget} \subseteq Nat \ {0}

VARIABLES
    pc,              \* what the run does, or what it waits for
    messages,        \* the transcript
    request,         \* the transcript of the model call in flight
    attempt,         \* how often that call was sent again, its transcript shrunk
    step,            \* the turn of the loop
    disclosed,       \* the tools whose schema the model may see
    toolSpecs,       \* the tools offered with a request
    turn,            \* the calls the model asked for in this turn
    slots,           \* their results
    batches,         \* the batches still to be run
    running,         \* the calls of the current batch that have not come back
    started,         \* history: how many calls were executed
    toolResults,     \* allToolResults.length
    sigSeen,         \* the last result of each call, and how often in a row
    truncatedTurns,
    usdCost,         \* what was spent, up to MaxBudget
    aborted,         \* controls.signal has fired
    stopReason,
    responseText     \* "" | "text" | "fixed": the model's words, or the loop's own

callVars == <<request, attempt>>
toolVars == <<turn, slots, batches, running, started>>
seenVars == <<disclosed, toolSpecs>>
workVars == <<seenVars, toolVars, toolResults, sigSeen>>
vars == <<pc, messages, callVars, step, workVars, truncatedTurns, usdCost, aborted,
          stopReason, responseText>>
-----------------------------------------------------------------------------
MaxIdenticalCalls == 3
MaxTruncatedTurns == 2
MaxContextRecovery == 3

Names == Tools \cup UNION {ToSet(t) : t \in Turns}

\* The transcript: a text, an assistant turn that asks for n calls, or the
\* result of the n-th of them.
Text(role) == [role |-> role, step |-> 0, n |-> 0]
Asks(s, n) == [role |-> "assistant", step |-> s, n |-> n]
Answers(s, n) == [role |-> "tool", step |-> s, n |-> n]

Results(s, n) == [i \in 1 .. n |-> Answers(s, i)]

\* Mutant: a suffix may start with the results of a turn that was dropped.
SuffixUntrimmed(msgs, keepRecent) ==
    SubSeq(msgs, IF Len(msgs) - keepRecent > 2 THEN Len(msgs) - keepRecent + 1 ELSE 3, Len(msgs))

\* The last keepRecent messages, without the results they start with.
Suffix(msgs, keepRecent) ==
    LET recent == SubSeq(msgs, IF Len(msgs) - keepRecent > 2 THEN Len(msgs) - keepRecent + 1
                               ELSE 3, Len(msgs))
        orphans == {i \in 1 .. Len(recent) : \A j \in 1 .. i : recent[j].role = "tool"}
    IN  SubSeq(recent, Cardinality(orphans) + 1, Len(recent))

\* recoverContext: long results are cut short, which leaves the structure alone,
\* and if that is not enough gcMessages keeps the system message, the first user
\* message and a suffix, two messages shorter each time it does not fit.
Recovered(msgs, try) ==
    LET keeps == {k \in {2, 4, 6} : k <= 6 - 2 * try /\ Suffix(msgs, k) # <<>>}
        Shortens(k) == 2 + Len(Suffix(msgs, k)) < Len(msgs)
    IN  {msgs} \cup {SubSeq(msgs, 1, 2) \o Suffix(msgs, k) :
                       k \in {l \in keeps : \A j \in keeps : j >= l => Shortens(j)}}

\* Mutant: what runs in parallel is not looked at.
AlwaysParallel(name) == name \in Tools

\* A tool is taken to write until it says otherwise, and so is an unknown one.
IsParallelSafe(name) == name \in ReadTools

\* The next call joins the batch before it if both only read, or has its own.
Placed(asked, bs, i) ==
    IF IsParallelSafe(asked[i]) /\ bs # <<>> /\ Last(bs).parallel
    THEN Append(Front(bs), [parallel |-> TRUE, calls |-> Last(bs).calls \cup {i}])
    ELSE Append(bs, [parallel |-> IsParallelSafe(asked[i]), calls |-> {i}])

\* planToolBatches, over the indices of the calls to run: neighbours that only
\* read share a batch, anything else has one of its own.
PlanToolBatches(asked, toRun) ==
    FoldLeftDomain(LAMBDA bs, i : IF i \in toRun THEN Placed(asked, bs, i) ELSE bs, <<>>, asked)

OverBudget == usdCost >= MaxBudget

AddUsage(cost) ==
    usdCost' = IF usdCost + cost < MaxBudget THEN usdCost + cost ELSE MaxBudget

\* The calls of the model that the run waits for.
Calling == {"model", "final", "wrapup", "synthesis", "completion"}

Call(kind, msgs) ==
    /\ pc' = kind
    /\ request' = msgs
    /\ attempt' = 0

NoCall == request' = <<>> /\ attempt' = 0

\* The loop is left, with a reason and the words found so far.
Leave(reason, text) ==
    /\ pc' = "left"
    /\ stopReason' = reason
    /\ responseText' = text
-----------------------------------------------------------------------------
\* A provider without native tools, or a run without tools, is asked once.
Init ==
    /\ messages = <<Text("system"), Text("user"), Text("assistant"), Text("user")>>
    /\ \/ pc = "rails" /\ request = <<>>
       \/ pc = "completion" /\ request = messages
    /\ attempt = 0
    /\ step = 0
    /\ disclosed = Tools \ Deferred
    /\ toolSpecs = disclosed
    /\ turn = <<>>
    /\ slots = <<>>
    /\ batches = <<>>
    /\ running = {}
    /\ started = 0
    /\ toolResults = 0
    /\ sigSeen = [name \in Names |-> [result |-> "none", count |-> 0]]
    /\ truncatedTurns = 0
    /\ usdCost = 0
    /\ aborted = FALSE
    /\ stopReason = "max_iterations"
    /\ responseText = ""

\* The head of the loop: the step limit, the signal, the budget.
Rails ==
    /\ pc = "rails"
    /\ \/ step = MaxSteps /\ Leave(stopReason, "")
       \/ step < MaxSteps /\ aborted /\ Leave("aborted", "")
       \/ step < MaxSteps /\ ~aborted /\ OverBudget /\ Leave("max_budget", "")
    /\ UNCHANGED <<messages, callVars, step, workVars, truncatedTurns, usdCost, aborted>>

\* Mutant: the budget is not looked at.
AskModelUnchecked(loaded) ==
    /\ pc = "rails" /\ step < MaxSteps /\ ~aborted
    /\ disclosed' = disclosed \cup loaded
    /\ toolSpecs' = disclosed'
    /\ Call("model", messages)
    /\ UNCHANGED <<messages, step, toolVars, toolResults, sigSeen, truncatedTurns, usdCost,
                   aborted, stopReason, responseText>>

\* The model's next turn. The host may have set alwaysLoad on withheld tools.
AskModel(loaded) ==
    /\ pc = "rails" /\ step < MaxSteps /\ ~aborted /\ ~OverBudget
    /\ disclosed' = disclosed \cup loaded
    /\ toolSpecs' = IF loaded \subseteq disclosed THEN toolSpecs ELSE disclosed'
    /\ Call("model", messages)
    /\ UNCHANGED <<messages, step, toolVars, toolResults, sigSeen, truncatedTurns, usdCost,
                   aborted, stopReason, responseText>>

\* The provider rejects the request as too long: it is shrunk and sent again.
TooLong ==
    /\ pc \in {"model", "final", "wrapup"}
    /\ attempt < MaxContextRecovery
    /\ request' \in Recovered(request, attempt)
    /\ attempt' = attempt + 1
    /\ UNCHANGED <<pc, messages, step, workVars, truncatedTurns, usdCost, aborted, stopReason,
                   responseText>>

\* Every call of an assistant turn is answered right after it, in order, and every
\* tool message is such an answer: what a provider accepts.
Paired(msgs) ==
    \A k \in DOMAIN msgs :
        /\ msgs[k].role = "assistant" =>
              \A i \in 1 .. msgs[k].n : /\ k + i \in DOMAIN msgs
                                        /\ msgs[k + i] = Answers(msgs[k].step, i)
        /\ msgs[k].role = "tool" =>
              \E j \in 1 .. k - 1 : /\ msgs[j].role = "assistant" /\ k - j <= msgs[j].n
                                    /\ msgs[k] = Answers(msgs[j].step, k - j)

\* The model answers; a provider turns down a transcript that is not paired.
Reply(kind, cost) ==
    /\ pc = kind
    /\ Paired(request)
    /\ AddUsage(cost)
    /\ NoCall

\* The call fails for good.
CallFails(kind) == pc = kind /\ UNCHANGED usdCost /\ NoCall
-----------------------------------------------------------------------------
\* The model declines: nothing it asked for runs.
Refused(cost) ==
    /\ Reply("model", cost)
    /\ messages' = request
    /\ Leave("refused", "fixed")
    /\ UNCHANGED <<step, workVars, truncatedTurns, aborted>>

\* The turn was cut off in a tool call: nothing it asked for runs, and the model is
\* told so, unless that was once too often.
Truncated(cost) ==
    /\ Reply("model", cost)
    /\ truncatedTurns' = truncatedTurns + 1
    /\ IF truncatedTurns' > MaxTruncatedTurns
       THEN Leave("error", "") /\ messages' = request /\ UNCHANGED step
       ELSE /\ messages' = request \o <<Text("assistant"), Text("user")>>
            /\ pc' = "rails"
            /\ step' = step + 1
            /\ UNCHANGED <<stopReason, responseText>>
    /\ UNCHANGED <<workVars, aborted>>

\* The model answers in words, which may be none.
Answered(cost, text) ==
    /\ Reply("model", cost)
    /\ messages' = request
    /\ Leave("done", text)
    /\ UNCHANGED <<step, workVars, truncatedTurns, aborted>>

\* Mutant: the cap is looked at when it has been passed.
WithinCapLate(asked) == toolResults < MaxToolCalls

WithinCap(asked) == toolResults + Len(asked) <= MaxToolCalls

\* Mutant: the calls of the turn have no results.
CappedUnanswered(cost, asked) ==
    /\ Reply("model", cost)
    /\ ~WithinCap(asked)
    /\ messages' = Append(request, Asks(step, Len(asked)))
    /\ Leave("max_tool_calls", "")
    /\ UNCHANGED <<step, workVars, truncatedTurns, aborted>>

\* The turn would exceed the cap on tool calls: none runs, all are answered.
Capped(cost, asked) ==
    /\ Reply("model", cost)
    /\ ~WithinCap(asked)
    /\ messages' = Append(request, Asks(step, Len(asked))) \o Results(step, Len(asked))
    /\ Leave("max_tool_calls", "")
    /\ UNCHANGED <<step, workVars, truncatedTurns, aborted>>

\* Mutant: a withheld tool is run all the same.
RunsAlways(asked, i, found) == asked[i] # FindTools

\* The registry is asked for everything but find_tools and what is still withheld;
\* what find_tools finds can be called from there on.
Runs(asked, i, found) ==
    /\ asked[i] # FindTools
    /\ asked[i] \in Deferred \ disclosed =>
          asked[i] \in found /\ \E j \in 1 .. i - 1 : asked[j] = FindTools

\* The result of a call that is not run: the first find_tools finds something.
Unrun(asked, i, found) ==
    IF asked[i] = FindTools /\ found # {} /\ \A j \in 1 .. i - 1 : asked[j] # FindTools
    THEN "ok" ELSE "error"

\* The turn is accepted: what may run is planned, the rest is answered at once.
Accepted(cost, asked, found) ==
    /\ Reply("model", cost)
    /\ WithinCap(asked)
    /\ messages' = Append(request, Asks(step, Len(asked)))
    /\ turn' = asked
    /\ disclosed' = disclosed \cup found
    /\ toolSpecs' = IF found = {} THEN toolSpecs ELSE disclosed'
    /\ slots' = [i \in DOMAIN asked |-> IF Runs(asked, i, found) THEN "none"
                                       ELSE Unrun(asked, i, found)]
    /\ batches' = PlanToolBatches(asked, {i \in DOMAIN asked : Runs(asked, i, found)})
    /\ pc' = "batches"
    /\ UNCHANGED <<step, running, started, toolResults, sigSeen,
                   truncatedTurns, aborted, stopReason, responseText>>

\* The step fails: the run stops, and the transcript stays as it was.
ModelFails ==
    /\ CallFails("model")
    /\ Leave("error", "")
    /\ UNCHANGED <<messages, step, workVars, truncatedTurns, aborted>>
-----------------------------------------------------------------------------
\* The next batch starts, all of its calls at once.
StartBatch ==
    /\ pc = "batches" /\ running = {} /\ batches # <<>>
    /\ running' = batches[1].calls
    /\ batches' = Tail(batches)
    /\ started' = started + Cardinality(running')
    /\ UNCHANGED <<pc, messages, callVars, step, seenVars, turn, slots, toolResults,
                   sigSeen, truncatedTurns, usdCost, aborted, stopReason, responseText>>

\* A call comes back: it succeeded, or it was denied, failed or missed its deadline,
\* and is then an answer like any other. What cannot be serialized is passed on.
ToolReturns(i) ==
    /\ i \in running
    /\ running' = running \ {i}
    /\ \E result \in {"error"} \cup (IF turn[i] \in Tools THEN {"ok"} ELSE {})
                               \cup (IF turn[i] \in Unserializable THEN {"raw"} ELSE {}) :
          slots' = [slots EXCEPT ![i] = result]
    /\ UNCHANGED <<pc, messages, callVars, step, seenVars, turn, batches, started,
                   toolResults, sigSeen, truncatedTurns, usdCost, aborted, stopReason, responseText>>

\* The repetition guard: a call counts on if its result is the one before.
Seen(seen, i) ==
    [seen EXCEPT ![turn[i]] =
        [result |-> slots[i],
         count |-> IF seen[turn[i]].result = slots[i] THEN seen[turn[i]].count + 1 ELSE 1]]

SeenUpTo(k) == FoldLeft(Seen, sigSeen, [i \in 1 .. k |-> i])

\* Mutant: the run goes on until the limit is passed.
StuckLater == \E k \in DOMAIN turn : SeenUpTo(k)[turn[k]].count > MaxIdenticalCalls

\* What a call comes to is looked at in the order of the calls.
Stuck == \E k \in DOMAIN turn : SeenUpTo(k)[turn[k]].count >= MaxIdenticalCalls

AllBack == pc = "batches" /\ running = {} /\ batches = <<>>

\* A result that JSON.stringify refuses: the step fails before any of the
\* results is in the transcript.
CollectThrows ==
    /\ AllBack
    /\ "raw" \in ToSet(slots)
    /\ Leave("error", "")
    /\ UNCHANGED <<messages, callVars, step, workVars, truncatedTurns, usdCost, aborted>>

\* The results go into the transcript, in the order of the calls; then the run is
\* stuck, or the goal checker throws, or its goal is reached and the model asked for
\* its last words, or the loop goes round.
Collect(goal) ==
    /\ AllBack
    /\ "raw" \notin ToSet(slots)
    /\ sigSeen' = SeenUpTo(Len(turn))
    /\ toolResults' = toolResults + Len(turn)
    /\ messages' = messages \o Results(step, Len(turn))
    /\ IF Stuck \/ goal = "throws" THEN Leave("error", "") /\ UNCHANGED <<callVars, step>>
       ELSE IF goal = "completed"
       THEN Call("final", messages') /\ stopReason' = "done" /\ UNCHANGED <<step, responseText>>
       ELSE pc' = "rails" /\ step' = step + 1 /\ UNCHANGED <<callVars, stopReason, responseText>>
    /\ turn' = <<>>
    /\ slots' = <<>>
    /\ UNCHANGED <<seenVars, batches, running, started, truncatedTurns, usdCost, aborted>>

\* The last words, which nobody judges, or a fixed sentence in their place.
Final(cost, text) ==
    /\ \/ Reply("final", cost) /\ messages' = request /\ responseText' = text
       \/ CallFails("final") /\ messages' = messages /\ responseText' = "fixed"
    /\ pc' = "left"
    /\ UNCHANGED <<step, workVars, truncatedTurns,
                   aborted, stopReason>>
-----------------------------------------------------------------------------
Unspent == stopReason # "aborted" /\ ~OverBudget

\* The loop was left without words: one more call, which is told to use no tools.
WrapUp ==
    /\ pc = "left" /\ responseText = "" /\ Unspent
    /\ Call("wrapup", Append(messages, Text("user")))
    /\ UNCHANGED <<messages, step, workVars, truncatedTurns,
                   usdCost, aborted, stopReason, responseText>>

\* Its words, without a look at what else it asks for; if there are none, fixed
\* ones.
WrappedUp(cost, text) ==
    /\ \/ Reply("wrapup", cost) /\ responseText' = IF text = "" THEN "fixed" ELSE text
       \/ CallFails("wrapup") /\ responseText' = "fixed"
    /\ pc' = "returned"
    /\ UNCHANGED <<messages, step, workVars, truncatedTurns, aborted, stopReason>>

\* Mutant: a run that may call the model no more has nothing to say.
ReturnSilent ==
    /\ pc = "left" /\ (responseText # "" \/ ~Unspent)
    /\ pc' = "returned"
    /\ UNCHANGED <<messages, callVars, step, workVars, truncatedTurns, usdCost, aborted, stopReason, responseText>>

\* The run returns its words, or fixed ones if there are none.
Return ==
    /\ pc = "left" /\ (responseText # "" \/ ~Unspent)
    /\ responseText' = IF responseText = "" THEN "fixed" ELSE responseText
    /\ pc' = "returned"
    /\ UNCHANGED <<messages, callVars, step, workVars, truncatedTurns, usdCost, aborted, stopReason>>

\* Without native tools: one completion, and a second if the first has no words.
Completed(text) ==
    /\ pc = "completion"
    /\ stopReason' = "done"
    /\ IF text = ""
       THEN /\ messages' = Append(messages, Text("user"))
            /\ Call("synthesis", messages')
            /\ UNCHANGED responseText
       ELSE /\ pc' = "returned"
            /\ responseText' = text
            /\ NoCall /\ UNCHANGED messages
    /\ UNCHANGED <<step, workVars, truncatedTurns, usdCost, aborted>>

CompletionFails ==
    /\ pc = "completion"
    /\ pc' = "returned"
    /\ NoCall
    /\ stopReason' = "error"
    /\ responseText' = "fixed"
    /\ UNCHANGED <<messages, step, workVars, truncatedTurns, usdCost, aborted>>

Synthesized(text) ==
    /\ pc = "synthesis"
    /\ pc' = "returned"
    /\ NoCall
    /\ responseText' = IF text = "" THEN "fixed" ELSE text
    /\ UNCHANGED <<messages, step, workVars, truncatedTurns, usdCost, aborted, stopReason>>

\* The caller's signal fires.
Abort ==
    /\ pc # "returned"
    /\ ~aborted
    /\ aborted' = TRUE
    /\ UNCHANGED <<pc, messages, callVars, step, workVars, truncatedTurns, usdCost, stopReason, responseText>>
-----------------------------------------------------------------------------
Words == {"", "text"}

Progress ==
    \/ Rails
    \/ \E loaded \in SUBSET Deferred : AskModel(loaded)
    \/ TooLong
    \/ \E cost \in {0, 1} :
          \/ Refused(cost) \/ Truncated(cost)
          \/ \E asked \in Turns :
                \/ Capped(cost, asked)
                \/ \E found \in SUBSET (Deferred \ disclosed) :
                      (FindTools \in ToSet(asked) \/ found = {}) /\ Accepted(cost, asked, found)
          \/ \E text \in Words : Answered(cost, text) \/ Final(cost, text) \/ WrappedUp(cost, text)
    \/ ModelFails
    \/ StartBatch
    \/ \E i \in running : ToolReturns(i)
    \/ CollectThrows
    \/ \E goal \in {"open", "completed", "throws"} : Collect(goal)
    \/ WrapUp \/ Return \/ CompletionFails
    \/ \E text \in Words : Completed(text) \/ Synthesized(text)

Next == Progress \/ Abort

Spec == Init /\ [][Next]_vars

\* Models answer or fail, tools come back or time out, and the loop goes on.
FairSpec == Spec /\ WF_vars(Progress)
-----------------------------------------------------------------------------
TypeOK ==
    /\ pc \in {"rails", "batches", "left", "returned"} \cup Calling
    /\ \A msgs \in {messages, request} : msgs \in Seq(
          [role : {"system", "user", "assistant", "tool"}, step : 0 .. MaxSteps, n : Nat])
    /\ attempt \in 0 .. MaxContextRecovery
    /\ step \in 0 .. MaxSteps
    /\ disclosed \subseteq Tools /\ toolSpecs \subseteq disclosed
    /\ turn \in Turns \cup {<<>>}
    /\ slots \in [DOMAIN turn -> {"none", "ok", "error", "raw"}]
    /\ running \subseteq DOMAIN turn
    /\ \A b \in ToSet(batches) : b.calls \subseteq DOMAIN turn
    /\ started \in Nat /\ toolResults \in 0 .. MaxToolCalls
    /\ \A name \in Names : sigSeen[name].count \in Nat
    /\ truncatedTurns \in 0 .. MaxTruncatedTurns + 1
    /\ usdCost \in 0 .. MaxBudget
    /\ aborted \in BOOLEAN
    /\ stopReason \in {"max_iterations", "aborted", "max_budget", "refused", "error",
                       "max_tool_calls", "done"}
    /\ responseText \in {"", "text", "fixed"}

\* "Every tool_use still gets a result, so the transcript the wrap-up call sends is
\* one the provider accepts": whatever was capped, cut off, refused, run out of
\* order, shortened or dropped, every call of the model gets a paired transcript,
\* unless a result came back that cannot be serialized.
AlwaysPaired ==
    pc \in Calling => Paired(request) \/ "raw" \in ToSet(slots)

\* "A writer ... becomes a serial barrier so two mutations never race": while a
\* tool that is not known to only read runs, no other does, apart from those
\* that have missed their deadline.
WritersAlone ==
    \A i \in running : turn[i] \notin ReadTools => running = {i}

\* "Hard cap on total tool executions": no more calls are started than the cap, and
\* the loop's other counters keep their types, that is, their limits.
CapHolds == TypeOK /\ started <= MaxToolCalls

\* "A deferred tool the model has not surfaced is refused, so disclosure is a rule
\* and not a hint": a registered tool is run only if the request that was answered
\* offered it, or a find_tools call before it in the same turn.
NothingRunsUnseen ==
    [][pc = "model" /\ pc' = "batches" =>
          \A b \in ToSet(batches') : \A i \in b.calls :
             turn'[i] \in Tools => \/ turn'[i] \in toolSpecs
                                   \/ \E j \in 1 .. i - 1 : turn'[j] = FindTools]_vars

\* "The run stops at the next safe boundary": when the signal has fired no turn of
\* the loop begins, and when the budget is gone the model is asked for nothing but
\* the last words of a goal that was reached.
RailsHold ==
    [][pc' # pc /\ pc' \in Calling =>
          /\ aborted => pc' # "model"
          /\ OverBudget => pc' = "final"]_vars

\* A repeated call alone is no reason to stop, but a run that got the same answer to
\* the same call three times in a row asks the model for no more tools, and does not
\* count as having reached its goal.
NeverStuck ==
    pc \in {"model", "final"} =>
        \A name \in Names : sigSeen[name].count < MaxIdenticalCalls

\* "Guarantee a user-facing answer": every run returns, and never without words.
AnswersInTheEnd == <>(pc = "returned" /\ responseText # "")
=============================================================================
