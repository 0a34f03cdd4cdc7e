---------------------------- MODULE MiddlewareStack ----------------------------
(***************************************************************************)
(* The middleware stack around one model call (middleware/stack.ts):       *)
(* beforeExecute in order, the onion of wrapModelCall around the provider  *)
(* (buildModelCall and buildToolModelCall are the same onion), the system  *)
(* prompt's modifiers, and afterExecute in reverse order.                  *)
(*                                                                         *)
(* The layers are numbered from the outermost.  A frame is a layer that    *)
(* waits for its next, from its own body or from the catch around it, and  *)
(* what the request it was given had for tools.                            *)
(* None of the built-in layers calls next twice.                           *)
(***************************************************************************)
EXTENDS Integers, Sequences, FiniteSets

CONSTANT Layers     \* how many middleware there are, each with all the hooks

VARIABLES
    phase,    \* "before" | "down" | "answer" | "throw" | "after" | "over"
    done,     \* the hooks of this phase that have run, in order
    frames,   \* the layers entered and not left
    system,   \* how often the request's system prompt has been modified
    calls,    \* the provider's answers and failures so far
    words,    \* how many of those calls have streamed words to the user
    late,     \* layers that threw although they had an answer
    errors,   \* state.errors: who reported, in order; hooks report under 0
    hooks,    \* the hooks that ran before and after, as a sequence of layers
    offered   \* the tools of the request on its way: "own" or "dropped"

onion == <<phase, done, frames, system, calls, words, late, errors, hooks, offered>>
-----------------------------------------------------------------------------
Updates == {"none", "reports", "throws"}

\* Mutant: an update's list replaces the list there is.
ReportedOver(update, layer) == IF update = "none" THEN errors ELSE <<layer>>

\* applyStateUpdate: what a hook says of errors is added to them, never replaces them.
Reported(update, layer) == IF update = "none" THEN errors ELSE Append(errors, layer)

Init ==
    /\ phase = "before" /\ done = 0
    /\ frames = <<>> /\ system = 0
    /\ calls = <<>> /\ words = 0 /\ late = 0
    /\ errors = <<>> /\ hooks = <<>> /\ offered = "own"

\* runBeforeExecute: a hook that throws is reported and the next one runs.
BeforeExecute(update) ==
    /\ phase = "before"
    /\ done' = done + 1
    /\ hooks' = Append(hooks, done + 1)
    /\ errors' = Reported(update, 0)
    /\ phase' = IF done + 1 = Layers THEN "down" ELSE "before"
    /\ UNCHANGED <<frames, system, calls, words, late, offered>>

\* Mutant: the hooks after the run go in the order of those before it.
SameOrder(n) == n

\* runAfterExecute: the last added first.
ReverseOrder(n) == Layers + 1 - n

AfterExecute(update) ==
    /\ phase = "after"
    /\ done' = done + 1
    /\ hooks' = Append(hooks, ReverseOrder(done + 1))
    /\ errors' = Reported(update, 0)
    /\ phase' = IF done + 1 = Layers THEN "over" ELSE "after"
    /\ UNCHANGED <<frames, system, calls, words, late, offered>>

Inside(by) == frames' = Append(frames, [by |-> by, tools |-> offered])

\* The layer passes the request on; it may rebuild it without its tools.
CallsNext(drops) ==
    /\ phase = "down" /\ Len(frames) < Layers
    /\ Inside("body")
    /\ offered' = IF drops THEN "dropped" ELSE offered
    /\ UNCHANGED <<phase, done, system, calls, words, late, errors, hooks>>

\* The layer throws before it has called next: it is skipped, with the request it had.
ThrowsFirst ==
    /\ phase = "down" /\ Len(frames) < Layers
    /\ Inside("skipped")
    /\ errors' = Append(errors, Len(frames) + 1)
    /\ UNCHANGED <<phase, done, system, calls, words, late, hooks, offered>>

\* The layer answers without the provider, from a cache.
ShortCircuits ==
    /\ phase = "down" /\ Len(frames) < Layers
    /\ phase' = "answer"
    /\ UNCHANGED <<done, frames, system, calls, words, late, errors, hooks, offered>>

\* Mutant: the modifiers change the request's own message.
SystemInPlace(before) == before + 1

SystemAfter(before) == before

\* Mutant: a request without tools goes out without tools.
ToolsAsSent(tools) == tools

\* The terminal's tools: the request's, or those the run has.
ToolsOf(tools) == IF tools = "dropped" THEN "default" ELSE tools

\* The terminal: the modified prompt on a copy, the provider, and words that
\* have left even when the call fails. Calls are recorded with the sections of their prompt.
Provider(result, streamed) ==
    /\ phase = "down" /\ Len(frames) = Layers
    /\ system' = SystemAfter(system)
    /\ calls' = Append(calls, [result |-> result, sections |-> system + 1,
                                       tools |-> ToolsOf(offered)])
    /\ words' = words + IF streamed THEN 1 ELSE 0
    /\ phase' = result
    /\ UNCHANGED <<done, frames, late, errors, hooks, offered>>

\* The layers that have called next, the innermost last.
Innermost(layers) == layers[Len(layers)]
Outer(layers) == SubSeq(layers, 1, Len(layers) - 1)

Leave == frames' = Outer(frames)

\* The layer, or the catch around it, hands the answer on.
PassesOn ==
    /\ phase = "answer" /\ frames # <<>>
    /\ Leave
    /\ UNCHANGED <<phase, done, system, calls, words, late, errors, hooks, offered>>

\* Mutant: what the skipped layer's next throws is skipped as well.
CatchesAgain(frame) == frame.by \in {"body", "skipped"}

\* Only the layer's own body has a catch around it.
Catches(frame) == frame.by = "body"

\* The layer throws after its answer, or what it called has thrown: next once more.
FallsThrough ==
    /\ phase \in {"answer", "throw"} /\ frames # <<>>
    /\ Catches(Innermost(frames))
    /\ frames' = Append(Outer(frames), [Innermost(frames) EXCEPT !.by = "skipped"])
    /\ offered' = Innermost(frames).tools
    /\ errors' = Append(errors, Len(frames))
    /\ late' = late + IF phase = "answer" THEN 1 ELSE 0
    /\ phase' = "down"
    /\ UNCHANGED <<done, system, calls, words, hooks>>

\* A layer handles what its next threw and answers itself.
Rescues ==
    /\ phase = "throw" /\ frames # <<>> /\ Innermost(frames).by = "body"
    /\ Leave
    /\ phase' = "answer"
    /\ UNCHANGED <<done, system, calls, words, late, errors, hooks, offered>>

\* A next that throws inside the catch leaves the layer.
PassesUp ==
    /\ phase = "throw" /\ frames # <<>> /\ ~Catches(Innermost(frames))
    /\ Leave
    /\ UNCHANGED <<phase, done, system, calls, words, late, errors, hooks, offered>>

\* The run has its answer or its failure, and goes to its end either way.
Outside ==
    /\ phase \in {"answer", "throw"} /\ frames = <<>>
    /\ phase' = "after" /\ done' = 0
    /\ UNCHANGED <<frames, system, calls, words, late, errors, hooks, offered>>

Next ==
    \/ \E update \in Updates : BeforeExecute(update) \/ AfterExecute(update)
    \/ \E drops \in BOOLEAN : CallsNext(drops)
    \/ \E result \in {"answer", "throw"}, streamed \in BOOLEAN : Provider(result, streamed)
    \/ ThrowsFirst \/ ShortCircuits \/ PassesOn \/ FallsThrough \/ Rescues \/ PassesUp \/ Outside
-----------------------------------------------------------------------------
Paid == Cardinality({i \in DOMAIN calls : calls[i].result = "answer"})

\* Every layer may double the calls of those inside it, and no more; an answer
\* is paid for again, and the words of a stream said again, only when a layer
\* threw an answer away or the provider failed.
CallsAreBounded ==
    /\ Len(calls) <= 2^Layers
    /\ Paid <= 1 + late
    /\ words <= 1 + late + (Len(calls) - Paid)

\* "A single misbehaving middleware cannot break the pipeline": with the layers'
\* failures skipped, a call fails only when the provider failed it last.
OnlyTheProviderFails == phase = "throw" => calls # <<>> /\ calls[Len(calls)].result = "throw"

\* However often the terminal runs, every prompt is modified once, and tools are offered.
PromptIsModifiedOnce ==
    /\ \A i \in DOMAIN calls : calls[i].sections = 1
    /\ \A i \in DOMAIN calls : calls[i].tools # "dropped"

\* All hooks run, each once, teardown in reverse; and no failure goes unreported.
HooksInOrder ==
    /\ phase = "over" => hooks = [i \in 1..Layers |-> i] \o [i \in 1..Layers |-> Layers + 1 - i]
    /\ Cardinality({i \in DOMAIN errors : errors[i] # 0}) >= late
    /\ late > 0 => errors # <<>>
=============================================================================
