----------------------------- MODULE PipelineGraph -----------------------------
(***************************************************************************)
(* The pipeline as a graph (graph/pipeline-graph.ts), compiled to pause    *)
(* before its action loop as its documentation shows, and invoked on one   *)
(* thread until it is complete, across pauses, edits of the plan and       *)
(* calls that die.  The engine itself is GraphEngine; here it is run for   *)
(* what its nodes do outside of the state that they return.                *)
(*                                                                         *)
(* The engine works on a clone of the state it is given, and so do the     *)
(* nodes that write into the state in place.                               *)
(***************************************************************************)
EXTENDS Integers, Sequences

CONSTANT MaxCrashes      \* bound on the calls that die

VARIABLES
    node,        \* the node that is next, "paused", "dead", or "END"
    state,       \* the PipelineState of the call
    unsaved,     \* the node has run and its checkpoint has not been written
    saved,       \* the newest checkpoint: its state, node, and whether it is a pause
    fresh,       \* the call skips the pause before its first node
    plan,        \* the plan a human has put into the checkpoint
    effects,     \* how often the message, a fact, the tools' actions, the reply have gone out
    crashes

graphVars == <<node, state, unsaved, saved, fresh, plan, effects, crashes>>
-----------------------------------------------------------------------------
Input == [intent |-> "none", level |-> "none", plan |-> "none", fact |-> FALSE, goal |-> FALSE,
          results |-> 0, reply |-> "none", history |-> 0]

NoCheckpoint == [state |-> Input, node |-> "none", interrupted |-> FALSE]

\* The linear edges, past the nodes that only read.
Edges == [intent_parse |-> "semantic_write", semantic_write |-> "meta_reasoning", meta_reasoning |-> "reflexion",
          plan_generation |-> "auto_store", action_loop |-> "goal_check", goal_check |-> "response_generation",
          self_critique |-> "finalize", finalize |-> "END"]

\* addConditionalEdge: what the complexity skips, a missing critic, a reply that is empty.
NextNode(n, s, critic) ==
    CASE n = "reflexion" -> IF s.level \in {"trivial", "simple"} THEN "auto_store" ELSE "plan_generation"
      [] n = "auto_store" -> IF s.level = "trivial" THEN "goal_check" ELSE "action_loop"
      [] n = "response_generation" -> IF critic /\ s.reply # "none" THEN "self_critique" ELSE "finalize"
      [] OTHER -> Edges[n]

Init ==
    /\ node = "intent_parse" /\ state = Input /\ unsaved = "none" /\ saved = NoCheckpoint /\ fresh = FALSE
    /\ plan = "none"
    /\ effects = [message |-> 0, fact |-> 0, tools |-> 0, reply |-> 0]
    /\ crashes = 0

Ready(n) == node = n /\ unsaved = "none"

\* A node has run: what it returned is merged.
Merged(n, update) ==
    /\ state' = update
    /\ unsaved' = n
    /\ UNCHANGED <<node, saved, fresh, plan, crashes>>

IntentParse(what) ==
    /\ Ready("intent_parse")
    /\ Merged("intent_parse", [state EXCEPT !.intent = what])
    /\ UNCHANGED effects

SemanticWrite(sends) ==
    /\ Ready("semantic_write")
    /\ sends => state.intent = "inform"
    /\ Merged("semantic_write", state)
    /\ effects' = [effects EXCEPT !.message = effects.message + IF sends THEN 1 ELSE 0]

\* What it does not assess, because it is off or throws, is not trivial either.
MetaReasoning(level) ==
    /\ Ready("meta_reasoning")
    /\ Merged("meta_reasoning", [state EXCEPT !.level = level])
    /\ UNCHANGED effects

Reflexion ==
    /\ Ready("reflexion")
    /\ Merged("reflexion", state)
    /\ UNCHANGED effects

PlanGeneration(succeeds) ==
    /\ Ready("plan_generation")
    /\ Merged("plan_generation", [state EXCEPT !.plan = IF succeeds THEN "proposed" ELSE "none"])
    /\ UNCHANGED effects

\* A fact that is given, once per session: the state's own copy says whether it is new.
AutoStore(gives) ==
    LET stores == gives /\ ~state.fact
    IN  /\ Ready("auto_store")
        /\ gives => state.intent = "inform"
        /\ Merged("auto_store", [state EXCEPT !.fact = state.fact \/ stores,
                                              !.results = state.results + IF stores THEN 1 ELSE 0])
        /\ effects' = [effects EXCEPT !.fact = effects.fact + IF stores THEN 1 ELSE 0]

\* The action loop: it is told nothing of the plan.
ActionLoop(acts) ==
    /\ Ready("action_loop")
    /\ fresh
    /\ state' = [state EXCEPT !.results = state.results + acts]
    /\ unsaved' = "action_loop"
    /\ fresh' = FALSE
    /\ effects' = [effects EXCEPT !.tools = effects.tools + acts]
    /\ UNCHANGED <<node, saved, plan, crashes>>

\* The goal goes into a copy of the session, which the state has from now on.
GoalCheck(completed) ==
    /\ Ready("goal_check")
    /\ Merged("goal_check", [state EXCEPT !.goal = state.goal \/ completed])
    /\ UNCHANGED effects

ResponseGeneration ==
    /\ Ready("response_generation")
    /\ Merged("response_generation", [state EXCEPT !.reply = IF state.plan = "edited" THEN "edited" ELSE "answer"])
    /\ UNCHANGED effects

SelfCritique(rewrites) ==
    /\ Ready("self_critique")
    /\ Merged("self_critique", [state EXCEPT !.reply = IF rewrites THEN "rewritten" ELSE state.reply])
    /\ UNCHANGED effects

\* The reply is sent, and if that does not throw the exchange is kept.
Finalize(arrives) ==
    /\ Ready("finalize")
    /\ Merged("finalize", [state EXCEPT !.history = state.history + IF arrives THEN 1 ELSE 0])
    /\ effects' = [effects EXCEPT !.reply = effects.reply + IF arrives THEN 1 ELSE 0]

\* The checkpoint after the node, and the edge it takes.
Save(critic) ==
    /\ unsaved # "none" /\ node # "dead"
    /\ saved' = [state |-> state, node |-> unsaved, interrupted |-> FALSE]
    /\ node' = NextNode(unsaved, state, critic)
    /\ unsaved' = "none"
    /\ UNCHANGED <<state, fresh, plan, effects, crashes>>

\* interruptBefore: a pause, unless the call was resumed at this node.
Pause ==
    /\ Ready("action_loop") /\ ~fresh
    /\ saved' = [state |-> state, node |-> "action_loop", interrupted |-> TRUE]
    /\ node' = "paused"
    /\ UNCHANGED <<state, unsaved, fresh, plan, effects, crashes>>

\* updateState("...", { plan: approvedPlan }).
EditPlan ==
    /\ node = "paused" /\ plan = "none"
    /\ saved' = [saved EXCEPT !.state.plan = "edited"]
    /\ plan' = "edited"
    /\ UNCHANGED <<node, state, unsaved, fresh, effects, crashes>>

Crash ==
    /\ node \notin {"paused", "dead", "END"} /\ crashes < MaxCrashes
    /\ node' = "dead" /\ unsaved' = "none" /\ fresh' = FALSE /\ crashes' = crashes + 1
    /\ state' = Input
    /\ UNCHANGED <<saved, plan, effects>>

\* Mutant: a pause that was edited is a run to begin anew.
ResumesUnedited == saved.interrupted /\ plan = "none"

Resumes == saved.interrupted

\* Mutant: the input is taken, though there is a pause to resume from.
InputAgain == Input

Resumed == IF Resumes THEN saved.state ELSE Input

\* invoke() again, with the same input: from the pause, or from the start.
Invoke ==
    /\ node \in {"paused", "dead"}
    /\ state' = Resumed
    /\ node' = IF Resumes THEN "action_loop" ELSE "intent_parse"
    /\ fresh' = Resumes
    /\ UNCHANGED <<unsaved, saved, plan, effects, crashes>>

Node ==
    \/ \E what \in {"inform", "query"} : IntentParse(what)
    \/ \E level \in {"none", "trivial", "simple"} : MetaReasoning(level)
    \/ \E acts \in 0..1 : ActionLoop(acts)
    \/ \E yes \in BOOLEAN : \/ SemanticWrite(yes) \/ PlanGeneration(yes) \/ AutoStore(yes) \/ GoalCheck(yes)
                            \/ SelfCritique(yes) \/ Finalize(yes) \/ Save(yes)
    \/ Reflexion \/ ResponseGeneration \/ Pause

Next == Node \/ EditPlan \/ Crash \/ Invoke
-----------------------------------------------------------------------------
\* A pause repeats nothing; each call that dies may repeat what went out once, and
\* what the final state holds of it went out: its results, its one exchange.
RepeatsOnlyAfterCrash ==
    /\ \A kind \in DOMAIN effects : effects[kind] <= 1 + crashes
    /\ state.results <= effects.fact + effects.tools
    /\ node = "END" => state.history <= 1 /\ state.history <= effects.reply

\* The plan that was edited in a pause is what the reply is made of, unless a call
\* died behind it.
EditReachesReply ==
    node = "END" /\ plan = "edited" /\ crashes = 0 => state.plan = "edited" /\ state.reply # "answer"
=============================================================================
