------------------------------ MODULE SimpleLoop ------------------------------
(***************************************************************************)
(* One run of the stand-alone agent (simple-agent.ts): the JSON loop of a  *)
(* provider without tools, and the native loop with its batches, its goal  *)
(* check and its compaction by the model.                                  *)
(*                                                                         *)
(* The signal and the disclosed tools are fields of the agent, so another  *)
(* run of the same agent is a neighbour that may change them between any   *)
(* two steps of this one.  A call is the kind of tool it names; what a     *)
(* call costs is the choice whether the budget is spent.                   *)
(***************************************************************************)
EXTENDS Integers, Sequences, FiniteSets, Functions

CONSTANTS
    Turns,           \* the calls a model may ask for in one turn
    MaxSteps,        \* directive.maxIterations
    MaxToolCalls,    \* config.maxToolCalls
    MaxVerifyRounds, \* config.maxVerifyRounds, with verifyGoal on
    KeepRecent,      \* KEEP_RECENT: 6
    LargestBatch     \* bound on the calls of one turn

VARIABLES
    native,          \* the provider calls tools itself
    signal,          \* whose signal the agent holds
    aborted,         \* whose signal has fired
    disclosed,       \* the deferred tool may be called
    pc, step,        \* what the run does or awaits, and its turn
    messages,        \* the transcript after the system prompt and the task
    turn, next,      \* the calls of this turn, and the first one not yet run
    flying, capped,  \* the calls that have not come back; the cap was met
    count, begun,    \* toolCallCount; history: how many calls were executed
    rounds, cut,     \* verifyRounds, truncatedTurns
    errors, stop,    \* some error was recorded; stopReason
    verdict,         \* history: what the last goal check said
    summarized,      \* history: the model has summarized the transcript
    late             \* history: turns begun since this run was aborted in earnest

loopVars == <<native, signal, aborted, disclosed, pc, step, messages, turn, next, flying, capped, count,
              begun, rounds, cut, errors, stop, verdict, summarized, late>>
shared == <<signal, aborted, disclosed>>
work == <<turn, next, flying, capped, count, begun>>
-----------------------------------------------------------------------------
MaxTruncatedTurns == 2

\* "read" may run beside others; "ask" ends the turn; "deferred" waits for find_tools.
Registered == {"read", "write", "ask", "deferred"}

Text == [role |-> "text", calls |-> 0]
Summary == [role |-> "summary", calls |-> 0]
Asks(calls) == [role |-> "assistant", calls |-> calls]
Result == [role |-> "tool", calls |-> 0]

Init ==
    /\ native \in BOOLEAN
    /\ signal = "own"
    /\ aborted = {}
    /\ disclosed = FALSE
    /\ pc = "top" /\ step = 0
    /\ messages = <<>>
    /\ turn = <<>> /\ next = 1 /\ flying = {} /\ capped = FALSE
    /\ count = 0 /\ begun = 0
    /\ rounds = 0 /\ cut = 0
    /\ errors = FALSE /\ stop = "none"
    /\ verdict = "none" /\ summarized = FALSE /\ late = 0

\* This run's caller, or the neighbour's, aborts.
Abort(who) ==
    /\ who \notin aborted
    /\ pc # "over"
    /\ aborted' = aborted \cup {who}
    /\ UNCHANGED <<native, signal, disclosed, pc, step, messages, work, rounds, cut, errors, stop, verdict,
                   summarized, late>>

\* A second run() on the agent puts its signal in place of this run's.
NeighbourRuns ==
    /\ pc # "over"
    /\ signal = "own"
    /\ signal' = "neighbour"
    /\ UNCHANGED <<native, aborted, disclosed, pc, step, messages, work, rounds, cut, errors, stop, verdict,
                   summarized, late>>

\* The neighbour's find_tools.
NeighbourFinds ==
    /\ pc # "over"
    /\ signal = "neighbour" /\ ~disclosed
    /\ disclosed' = TRUE
    /\ UNCHANGED <<native, signal, aborted, pc, step, messages, work, rounds, cut, errors, stop, verdict,
                   summarized, late>>

\* Mutant: the loop does not look at the signal.
HeardNothing == FALSE

Aborted == signal \in aborted

Over(reason) == pc' = "over" /\ stop' = reason

\* continue: the next turn of the loop, or the end of the loop.
Again ==
    IF step + 1 < MaxSteps THEN pc' = "top" /\ step' = step + 1 /\ UNCHANGED stop
    ELSE Over("max_iterations") /\ UNCHANGED step

\* messages.slice(-KEEP_RECENT)
Recent(msgs) == SubSeq(msgs, Len(msgs) - KeepRecent + 1, Len(msgs))

\* The top of the loop: the signal, and in the native loop the threshold over
\* which the model is asked to summarize the middle of the transcript.
Top ==
    /\ pc = "top"
    /\ \/ /\ Aborted
          /\ Over("aborted")
          /\ UNCHANGED late
       \/ /\ ~Aborted
          /\ \/ pc' = "model"
             \/ /\ native /\ Len(messages) > KeepRecent
                /\ pc' = "compacting"
          /\ late' = IF "own" \in aborted /\ signal = "own" THEN late + 1 ELSE late
          /\ UNCHANGED stop
    /\ UNCHANGED <<native, shared, step, messages, work, rounds, cut, errors, verdict, summarized>>

\* llmCompact: the summary takes the place of all but the last messages, which may
\* start with results whose turn is gone; a failure leaves the transcript alone.
Compacted ==
    /\ pc = "compacting"
    /\ \/ /\ messages' = <<Summary>> \o Recent(messages)
          /\ summarized' = TRUE
       \/ UNCHANGED <<messages, summarized>>
    /\ pc' = "model"
    /\ late' = IF "own" \in aborted /\ signal = "own" THEN late + 1 ELSE late
    /\ UNCHANGED <<native, shared, step, work, rounds, cut, errors, stop, verdict>>

\* The model call fails.
Fails ==
    /\ pc = "model"
    /\ Over(IF Aborted THEN "aborted" ELSE "error")
    /\ errors' = (errors \/ ~Aborted)
    /\ UNCHANGED <<native, shared, step, messages, work, rounds, cut, verdict, summarized, late>>

\* It answers, and the budget is spent.
SpendsTheRest ==
    /\ pc = "model"
    /\ Over("max_budget")
    /\ UNCHANGED <<native, shared, step, messages, work, rounds, cut, errors, verdict, summarized, late>>

\* The native loop: the model declines.
Declines ==
    /\ pc = "model" /\ native
    /\ Over("refused")
    /\ UNCHANGED <<native, shared, step, messages, work, rounds, cut, errors, verdict, summarized, late>>

\* Mutant: the cut-off turn is recorded with its calls.
CutOffTurn(asked) == <<Asks(Len(asked)), Text>>

CutOff(asked) == <<Text, Text>>

\* The output ran out in the middle of a call: nothing runs, and the turn goes into
\* the transcript as text, until that has happened too often.
Truncates(asked) ==
    /\ pc = "model" /\ native /\ asked # <<>>
    /\ cut' = cut + 1
    /\ IF cut' > MaxTruncatedTurns
       THEN Over("error") /\ errors' = TRUE /\ UNCHANGED <<step, messages>>
       ELSE messages' = messages \o CutOff(asked) /\ Again /\ UNCHANGED errors
    /\ UNCHANGED <<native, shared, work, rounds, verdict, summarized, late>>

ChecksGoal == rounds < MaxVerifyRounds

\* The model calls no tool: its word is checked, or taken.
Stops ==
    /\ pc = "model" /\ native
    /\ IF ChecksGoal THEN pc' = "verify" /\ UNCHANGED stop ELSE Over("done")
    /\ UNCHANGED <<native, shared, step, messages, work, rounds, cut, errors, verdict, summarized, late>>

\* Mutant: the check fails closed, and its "no" is what passes.
PassesNo(said) == said # "met"

Passes(said) == said # "gap"

\* verifyGoalMet: a verifier that fails, or cannot be read, lets the answer pass.
Verified ==
    /\ pc = "verify"
    /\ verdict' \in {"met", "gap", "failed"}
    /\ IF Passes(verdict')
       THEN Over("done") /\ UNCHANGED <<step, messages, rounds>>
       ELSE rounds' = rounds + 1 /\ messages' = messages \o <<Text, Text>> /\ Again
    /\ UNCHANGED <<native, shared, work, cut, errors, summarized, late>>

\* The native loop: the turn is recorded with its calls.
AsksForTools(asked) ==
    /\ pc = "model" /\ native /\ asked # <<>>
    /\ messages' = Append(messages, Asks(Len(asked)))
    /\ turn' = asked /\ next' = 1
    /\ pc' = "tools"
    /\ UNCHANGED <<native, shared, step, flying, capped, count, begun, rounds, cut, errors, stop, verdict,
                   summarized, late>>

\* planToolBatches: the calls from the i-th on that may run at once.
Batch(i) ==
    IF turn[i] # "read" THEN {i}
    ELSE {j \in i .. Len(turn) : \A k \in i .. j : turn[k] = "read"}

\* Mutant: the cap is looked for one call too late.
AtCapLate == count > MaxToolCalls

AtCap == count >= MaxToolCalls

MayCall(call) == call \in Registered /\ (call = "deferred" => disclosed)

\* A batch begins: each of its calls looks at the cap before any has counted
\* itself; find_tools is answered on the spot and never counted.
BeginBatch ==
    LET batch == Batch(next)
        runs == IF capped \/ AtCap THEN {} ELSE {i \in batch : MayCall(turn[i])}
    IN
    /\ pc = "tools" /\ native
    /\ flying = {} /\ next <= Len(turn)
    /\ next' = next + Cardinality(batch)
    /\ IF turn[next] = "find"
       THEN \E found \in BOOLEAN : disclosed' = (disclosed \/ found) /\ UNCHANGED <<flying, capped, begun>>
       ELSE /\ flying' = runs
            /\ begun' = begun + Cardinality(runs)
            /\ capped' = (capped \/ AtCap)
            /\ UNCHANGED disclosed
    /\ UNCHANGED <<native, signal, aborted, pc, step, messages, turn, count, rounds, cut, errors, stop,
                   verdict, summarized, late>>

\* toolRegistry.execute answers, whatever came of it.
ToolAnswers(i) ==
    /\ pc = "tools" /\ native
    /\ i \in flying
    /\ flying' = flying \ {i}
    /\ count' = count + 1
    /\ UNCHANGED <<native, shared, pc, step, messages, turn, next, capped, begun, rounds, cut, errors, stop,
                   verdict, summarized, late>>

Results == [i \in 1 .. Len(turn) |-> Result]

\* The batches are through: the results go back in order; a call of an end-turn
\* tool, or the cap, ends the run.
BatchesOver ==
    /\ pc = "tools" /\ native
    /\ flying = {} /\ next > Len(turn)
    /\ \E note \in (IF "ask" \in Range(turn) THEN {<<>>} ELSE {<<>>, <<Text>>}) :
          messages' = messages \o Results \o note
    /\ CASE "ask" \in Range(turn) -> Over("awaiting_input") /\ UNCHANGED step
         [] "ask" \notin Range(turn) /\ capped -> Over("max_tool_calls") /\ UNCHANGED step
         [] OTHER -> Again
    /\ turn' = <<>> /\ next' = 1
    /\ UNCHANGED <<native, shared, flying, capped, count, begun, rounds, cut, errors, verdict, summarized,
                   late>>
-----------------------------------------------------------------------------
\* The JSON loop, where a turn is one action and everything goes back as text.
JsonDone ==
    /\ pc = "model" /\ ~native
    /\ Over("done")
    /\ UNCHANGED <<native, shared, step, messages, work, rounds, cut, errors, verdict, summarized, late>>

\* An answer that is no JSON is an error that stays; an unknown action or tool, and
\* a deferred tool not found yet, are only talked about.
JsonTalk ==
    /\ pc = "model" /\ ~native
    /\ errors' \in {errors, TRUE}
    /\ Again
    /\ UNCHANGED <<native, shared, messages, work, rounds, cut, verdict, summarized, late>>

JsonFind ==
    /\ pc = "model" /\ ~native
    /\ disclosed' \in {disclosed, TRUE}
    /\ Again
    /\ UNCHANGED <<native, signal, aborted, messages, work, rounds, cut, errors, verdict, summarized, late>>

\* use_tool: the cap is looked at before the disclosure.
JsonTool(call) ==
    /\ pc = "model" /\ ~native
    /\ IF AtCap
       THEN Over("max_tool_calls") /\ UNCHANGED <<turn, begun>>
       ELSE /\ MayCall(call)
            /\ pc' = "tools" /\ turn' = <<call>> /\ begun' = begun + 1
            /\ UNCHANGED stop
    /\ UNCHANGED <<native, shared, step, messages, next, flying, capped, count, rounds, cut, errors, verdict,
                   summarized, late>>

JsonAnswered ==
    /\ pc = "tools" /\ ~native
    /\ count' = count + 1
    /\ turn' = <<>>
    /\ Again
    /\ UNCHANGED <<native, shared, messages, next, flying, capped, begun, rounds, cut, errors, verdict,
                   summarized, late>>

\* A result that cannot be written as JSON throws out of run(), and the calls still
\* in flight come back to nobody.
Throws ==
    /\ pc = "tools"
    /\ native => flying # {}
    /\ flying' = {} /\ count' = begun
    /\ Over("thrown")
    /\ UNCHANGED <<native, shared, step, messages, turn, next, capped, begun, rounds, cut, errors, verdict,
                   summarized, late>>

Outside == NeighbourRuns \/ NeighbourFinds \/ \E who \in {"own", "neighbour"} : Abort(who)

Advance ==
    \/ Top \/ Compacted \/ Fails \/ SpendsTheRest \/ Declines \/ Stops \/ Verified
    \/ \E asked \in Turns : Truncates(asked) \/ AsksForTools(asked)
    \/ BeginBatch \/ BatchesOver \/ Throws
    \/ \E i \in flying : ToolAnswers(i)
    \/ JsonDone \/ JsonTalk \/ JsonFind \/ JsonAnswered
    \/ \E call \in Registered : JsonTool(call)

Next == Advance \/ Outside
-----------------------------------------------------------------------------
Success == ~errors /\ stop # "refused"

\* The transcript of a model call: every turn with calls is followed by their
\* results, and no result stands without its turn.
Paired(msgs) ==
    \A i \in 1 .. Len(msgs) :
        /\ msgs[i].role = "assistant" =>
              \A j \in i + 1 .. i + msgs[i].calls : j <= Len(msgs) /\ msgs[j].role = "tool"
        /\ msgs[i].role = "tool" =>
              \E j \in 1 .. i - 1 : msgs[j].role = "assistant" /\ i <= j + msgs[j].calls

\* "EVERY tool_use id gets a result (even skipped/capped ones) so pairing holds",
\* until a summary by the model takes the place of the turn and leaves its results.
RequestsPaired == pc = "model" /\ ~summarized => Paired(messages)

\* maxToolCalls is a hard cap up to the batch that was under way when it was met.
CapHolds == begun <= MaxToolCalls + (IF native THEN LargestBatch - 1 ELSE 0)

\* A cancel costs one turn of the model at the most, as long as the agent still
\* holds this run's signal; and a run stops as aborted only for a signal that fired.
CancelIsHeard ==
    /\ late <= 1
    /\ stop = "aborted" => signal \in aborted

\* With the goal check on, "done" was checked, unless the checker failed or its
\* rounds were used up; a refusal is never a success.
DoneIsChecked ==
    /\ native /\ stop = "done" => verdict \in {"met", "failed"} \/ rounds >= MaxVerifyRounds
    /\ stop \in {"refused", "error"} => ~Success
=============================================================================
