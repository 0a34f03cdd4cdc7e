--------------------------------- MODULE Turn ---------------------------------
(***************************************************************************)
(* The parts of a run of the agent, side by side: what they share, a later *)
(* part finds in its inputs, so a behaviour is one of them at work (part)  *)
(* and the others at rest.                                                 *)
(***************************************************************************)
EXTENDS Integers, Sequences, FiniteSets, Induction, SequenceTheorems

CONSTANTS
    ToolCalls, Layers, MaxGates,                                              \* ToolCall, MiddlewareStack
    Stored, Sizes, PerRun, TotalBytes, MaxAge, MaxCounters, MaxPuts,          \* ResultStore
    Trigger, Keep, Quota,                                                     \* ContextWindow
    Runs, MaxChanges, MaxOffloads,                                            \* FileEdits
    MaxExchanges,                                                             \* RunTurn
    Turns, MaxSteps, MaxCalls, MaxHistory,                                    \* Pipeline
    MaxCrashes                                                                \* PipelineGraph

VARIABLES
    part,                                                                     \* the part at work
    gates, call, allowed, out, effects, behind,                               \* ToolCall
    kept, counters, bytes, puts, shown, forgot, reply,                        \* ResultStore
    phase, done, frames, system, calls, words, late, errors, hooks, offered,  \* MiddlewareStack
    backend, transcript, elided, step, rolling, sent, said, evictions, forced,
    historyFile, fault, rival, unsummarized,                                  \* ContextWindow
    file, changes, seen, known, op, lost, races, misread, offloads, saved, named, restarts, \* FileEdits
    tree, run, iterations, history, told, ended, stored,                      \* RunTurn
    native, turn, at, session, intent, level, loop, acted, results, answer, message, minns, unkept, \* Pipeline
    node, state, unsaved, checkpoint, fresh, plan, sends, crashes             \* PipelineGraph

T == INSTANCE ToolCall WITH Calls <- ToolCalls, said <- allowed, late <- behind
R == INSTANCE ResultStore WITH Runs <- Stored
M == INSTANCE MiddlewareStack
C == INSTANCE ContextWindow WITH file <- historyFile
F == INSTANCE FileEdits
A == INSTANCE RunTurn WITH MaxHistory <- MaxExchanges
P == INSTANCE Pipeline WITH step <- loop, reply <- answer, told <- message
G == INSTANCE PipelineGraph WITH saved <- checkpoint, effects <- sends

toolCall == <<gates, call, allowed, out, effects, behind>>
store == <<kept, counters, bytes, puts, shown, forgot, reply>>
onion == <<phase, done, frames, system, calls, words, late, errors, hooks, offered>>
window == <<backend, transcript, elided, step, rolling, sent, said, evictions, forced, historyFile, fault,
            rival, unsummarized>>
files == <<file, changes, seen, known, op, lost, races, misread, offloads, saved, named, restarts>>
turns == <<tree, run, iterations, history, told, ended, stored>>
pipeline == <<native, turn, at, session, intent, level, loop, acted, results, answer, message, minns, unkept>>
graph == <<node, state, unsaved, checkpoint, fresh, plan, sends, crashes>>
vars == <<part, toolCall, store, onion, window, files, turns, pipeline, graph>>
-----------------------------------------------------------------------------
Parts == {"call", "store", "onion", "window", "files", "turns", "pipeline", "graph"}

\* A part whose inputs are chosen at the start starts in one state while it rests.
Init ==
    /\ part \in Parts
    /\ T!Init /\ R!Init /\ M!Init /\ F!Init /\ G!Init
    /\ C!Init /\ (part # "window" => ~backend)
    /\ A!Init /\ (part # "turns" => ~tree)
    /\ P!Init /\ (part # "pipeline" => ~native)

Steps ==
    \/ /\ part = "call" /\ T!Next
       /\ UNCHANGED <<store, onion, window, files, turns, pipeline, graph>>
    \/ /\ part = "store" /\ R!Next
       /\ UNCHANGED <<toolCall, onion, window, files, turns, pipeline, graph>>
    \/ /\ part = "onion" /\ M!Next
       /\ UNCHANGED <<toolCall, store, window, files, turns, pipeline, graph>>
    \/ /\ part = "window" /\ C!Next
       /\ UNCHANGED <<toolCall, store, onion, files, turns, pipeline, graph>>
    \/ /\ part = "files" /\ F!Next
       /\ UNCHANGED <<toolCall, store, onion, window, turns, pipeline, graph>>
    \/ /\ part = "turns" /\ A!Next
       /\ UNCHANGED <<toolCall, store, onion, window, files, pipeline, graph>>
    \/ /\ part = "pipeline" /\ P!Next
       /\ UNCHANGED <<toolCall, store, onion, window, files, turns, graph>>
    \/ /\ part = "graph" /\ G!Next
       /\ UNCHANGED <<toolCall, store, onion, window, files, turns, pipeline>>

Next == Steps /\ UNCHANGED part

\* The registry goes on by itself, and its deadline is a timer; the handlers, the
\* humans and the approver need not answer. The phases of a run and of the
\* pipeline settle: the model and Minns answer or fail.
Fairness ==
    /\ \A c \in ToolCalls : /\ WF_toolCall(part = "call" /\ (T!Layer(c) \/ T!Check(c)))
                            /\ WF_toolCall(part = "call" /\ T!TimeOut(c))
    /\ \A r \in Runs : WF_turns(part = "turns" /\ A!Advance(r))
    /\ WF_pipeline(part = "pipeline" /\ P!Advance)

Spec == Init /\ [][Next]_vars /\ Fairness
-----------------------------------------------------------------------------
\* What guards a write or an action holds: the approvals, the freshness of a file,
\* and the goal that ends the action loop.
TurnGuards == T!GatesHold /\ F!NothingOverwrittenUnseen /\ A!PrimedOnce

\* What has to happen once does: a tool's effect, its result, the prompt's
\* modifiers, the hooks, and what goes out of the pipeline; what may be repeated
\* is bounded by what went wrong.
OncePerCall ==
    /\ T!OneEffect /\ M!CallsAreBounded /\ M!OnlyTheProviderFails /\ M!PromptIsModifiedOnce /\ M!HooksInOrder
    /\ C!PaidAgainForPreviewsOnly /\ P!CallsAreReported /\ G!RepeatsOnlyAfterCrash

\* What the model, the user and the session are told later is what was said.
NothingMisremembered ==
    /\ R!WithinBounds /\ R!HandleIsKept /\ C!RequestIsPaired /\ C!NothingForgotten /\ F!OffloadsAreKept
    /\ A!HistoryIsWhatWasTold /\ A!HeardInOrder /\ P!ExchangesKept /\ G!EditReachesReply

\* Calls, runs and the messages of a pipeline end, and the goal of a session that
\* was reached stays reached.
TurnsEnd ==
    /\ T!CallsReturn /\ A!RunsEnd /\ P!GoalStaysReached
    /\ part = "pipeline" => P!EveryMessageAnswered
-----------------------------------------------------------------------------
(***************************************************************************)
(* Proofs, for any number of calls, runs, layers and messages: what the    *)
(* invariants say of each part.                                            *)
(***************************************************************************)
ASSUME TurnConstants ==
    /\ Layers \in Nat \ {0} /\ MaxOffloads \in Nat /\ MaxExchanges \in Nat
    /\ MaxSteps \in Nat \ {0} /\ MaxCalls \in Nat /\ MaxCrashes \in Nat
    /\ PerRun \in Nat \ {0} /\ TotalBytes \in Nat /\ Sizes \subseteq Nat
    /\ Keep \in Nat /\ Trigger \in Nat
    /\ MaxHistory \in Nat

\* A step of the composition is a step of each part, or leaves it alone.
LEMMA Apart ==
    [Next]_vars =>
        /\ [T!Next]_(T!vars) /\ [R!Next]_(R!store) /\ [M!Next]_(M!onion) /\ [C!Next]_(C!window)
        /\ [F!Next]_(F!files) /\ [A!Next]_(A!turnVars) /\ [P!Next]_(P!pipeline) /\ [G!Next]_(G!graphVars)
<1>1. ASSUME UNCHANGED vars
      PROVE  UNCHANGED <<toolCall, store, onion, window, files, turns, pipeline, graph>>
  BY <1>1 DEF vars
<1>2. UNCHANGED toolCall => UNCHANGED T!vars
  BY DEF toolCall, T!vars
<1>3. UNCHANGED store => UNCHANGED R!store
  BY DEF store, R!store
<1>4. UNCHANGED onion => UNCHANGED M!onion
  BY DEF onion, M!onion
<1>5. UNCHANGED window => UNCHANGED C!window
  BY DEF window, C!window
<1>6. UNCHANGED files => UNCHANGED F!files
  BY DEF files, F!files
<1>7. UNCHANGED turns => UNCHANGED A!turnVars
  BY DEF turns, A!turnVars
<1>8. UNCHANGED pipeline => UNCHANGED P!pipeline
  BY DEF pipeline, P!pipeline
<1>9. UNCHANGED graph => UNCHANGED G!graphVars
  BY DEF graph, G!graphVars
<1>20. CASE UNCHANGED vars
  BY <1>1, <1>2, <1>3, <1>4, <1>5, <1>6, <1>7, <1>8, <1>9, <1>20
<1>21. CASE Steps
  <2>1. CASE part = "call" /\ T!Next /\ UNCHANGED <<store, onion, window, files, turns, pipeline, graph>>
    BY <2>1, <1>3, <1>4, <1>5, <1>6, <1>7, <1>8, <1>9, Zenon
  <2>2. CASE part = "store" /\ R!Next /\ UNCHANGED <<toolCall, onion, window, files, turns, pipeline, graph>>
    BY <2>2, <1>2, <1>4, <1>5, <1>6, <1>7, <1>8, <1>9, Zenon
  <2>3. CASE part = "onion" /\ M!Next /\ UNCHANGED <<toolCall, store, window, files, turns, pipeline, graph>>
    BY <2>3, <1>2, <1>3, <1>5, <1>6, <1>7, <1>8, <1>9, Zenon
  <2>4. CASE part = "window" /\ C!Next /\ UNCHANGED <<toolCall, store, onion, files, turns, pipeline, graph>>
    BY <2>4, <1>2, <1>3, <1>4, <1>6, <1>7, <1>8, <1>9, Zenon
  <2>5. CASE part = "files" /\ F!Next /\ UNCHANGED <<toolCall, store, onion, window, turns, pipeline, graph>>
    BY <2>5, <1>2, <1>3, <1>4, <1>5, <1>7, <1>8, <1>9, Zenon
  <2>6. CASE part = "turns" /\ A!Next /\ UNCHANGED <<toolCall, store, onion, window, files, pipeline, graph>>
    BY <2>6, <1>2, <1>3, <1>4, <1>5, <1>6, <1>8, <1>9, Zenon
  <2>7. CASE part = "pipeline" /\ P!Next /\ UNCHANGED <<toolCall, store, onion, window, files, turns, graph>>
    BY <2>7, <1>2, <1>3, <1>4, <1>5, <1>6, <1>7, <1>9, Zenon
  <2>8. CASE part = "graph" /\ G!Next /\ UNCHANGED <<toolCall, store, onion, window, files, turns, pipeline>>
    BY <2>8, <1>2, <1>3, <1>4, <1>5, <1>6, <1>7, <1>8, Zenon
  <2> QED
    BY <1>21, <2>1, <2>2, <2>3, <2>4, <2>5, <2>6, <2>7, <2>8, Zenon DEF Steps
<1> QED
  BY <1>20, <1>21, Zenon DEF Next

-----------------------------------------------------------------------------
\* A tool call. It has no effect and no result until its handler is over, and the
\* handler is begun only by a call that was let through.
Stages == {"idle", "down", "checks", "approval", "handler", "up", "done"}

CallRecord == [at : Stages, level : Int, asks : Nat]

Words == [policy : T!Policies, access : T!Accesses,
          approver : {"unasked", "yes", "no", "throws"}, human : {"unasked", "yes", "no"}, gates : Nat]

Results == {"none", "own", "invalid", "denied", "timeout", "ok", "error"}

CallTyped ==
    /\ gates \in Nat /\ behind \subseteq ToolCalls
    /\ call \in [ToolCalls -> CallRecord]
    /\ allowed \in [ToolCalls -> Words]
    /\ out \in [ToolCalls -> Results]
    /\ effects \in [ToolCalls -> Nat]

NotDenied(c) ==
    /\ allowed[c].policy \notin {"deny", "deny_allow"}
    /\ allowed[c].access \notin {"deny", "throws"}

LetThrough(c) ==
    /\ NotDenied(c)
    /\ allowed[c].access = "ask" => allowed[c].approver = "yes"
    /\ allowed[c].policy \in {"empty", "ask"} /\ allowed[c].access # "blank" => allowed[c].approver = "yes"

CallIs(c) ==
    /\ call[c].at \in {"idle", "down", "checks", "approval", "handler"} =>
           effects[c] = 0 /\ out[c] = "none" /\ c \notin behind
    /\ call[c].at \in {"idle", "down", "checks", "approval"} => allowed[c].human = "unasked"
    /\ call[c].at = "approval" => NotDenied(c)
    /\ call[c].at = "handler" \/ c \in behind =>
           /\ effects[c] = 0 /\ LetThrough(c)
           /\ call[c].asks <= allowed[c].gates
           /\ call[c].asks = allowed[c].gates => allowed[c].human = "unasked"
           /\ call[c].asks # allowed[c].gates => allowed[c].human = "yes"
    /\ effects[c] > 0 =>
           /\ LetThrough(c)
           /\ allowed[c].gates > 0 => allowed[c].human = "yes"
           /\ allowed[c].gates = 0 => allowed[c].human = "unasked"
    /\ effects[c] <= 1
    /\ out[c] = "ok" => effects[c] = 1
    /\ out[c] \in {"invalid", "denied", "own"} => effects[c] = 0
    /\ c \in behind => out[c] = "timeout"

CallInv == CallTyped /\ \A c \in ToolCalls : CallIs(c)

LEMMA CallStart == T!Init => CallInv
<1> SUFFICES ASSUME T!Init PROVE CallInv
  OBVIOUS
<1>1. /\ call \in [ToolCalls -> CallRecord] /\ effects \in [ToolCalls -> Nat] /\ out \in [ToolCalls -> Results]
      /\ gates \in Nat /\ behind = {}
  BY DEF T!Init, CallRecord, Stages, Results
<1>2. allowed \in [ToolCalls -> Words]
  BY DEF T!Init, Words, T!Policies, T!Accesses
<1>3. \A c \in ToolCalls : CallIs(c)
  BY DEF T!Init, CallIs
<1> QED
  BY <1>1, <1>2, <1>3 DEF CallInv, CallTyped

\* A step of one call leaves the others as they are.
LEMMA OneCall ==
    ASSUME CallInv, NEW c \in ToolCalls, gates' = gates, CallIs(c)',
           call' \in [ToolCalls -> CallRecord], \A d \in ToolCalls \ {c} : call'[d] = call[d],
           allowed' \in [ToolCalls -> Words], \A d \in ToolCalls \ {c} : allowed'[d] = allowed[d],
           out' \in [ToolCalls -> Results], \A d \in ToolCalls \ {c} : out'[d] = out[d],
           effects' \in [ToolCalls -> Nat], \A d \in ToolCalls \ {c} : effects'[d] = effects[d],
           behind' \subseteq ToolCalls, \A d \in ToolCalls \ {c} : d \in behind' <=> d \in behind
    PROVE  CallInv'
<1>1. CallTyped'
  BY DEF CallInv, CallTyped
<1>2. ASSUME NEW d \in ToolCalls \ {c} PROVE CallIs(d)'
  <2>1. CallIs(d)
    BY DEF CallInv
  <2> QED
    BY <2>1 DEF CallIs, NotDenied, LetThrough
<1> QED
  BY <1>1, <1>2 DEF CallInv


LEMMA CallStep == CallInv /\ [T!Next]_(T!vars) => CallInv'
<1> SUFFICES ASSUME CallInv, [T!Next]_(T!vars) PROVE CallInv'
  OBVIOUS
<1>0. CallTyped
  BY DEF CallInv
<1>01. \A c \in ToolCalls : /\ CallIs(c) /\ effects[c] \in Nat /\ call[c].asks \in Nat /\ allowed[c].gates \in Nat
                           /\ allowed[c].human \in {"unasked", "yes", "no"} /\ out[c] \in Results
  BY DEF CallInv, CallTyped, CallRecord, Words
<1>1. CASE UNCHANGED T!vars
  BY <1>1 DEF T!vars, CallInv, CallTyped, CallIs, NotDenied, LetThrough
<1>2. CASE T!BeginRun
  <2>1. gates' \in Nat /\ UNCHANGED <<call, allowed, out, effects, behind>>
    BY <1>0, <1>2 DEF T!BeginRun, CallTyped
  <2>2. \A c \in ToolCalls : CallIs(c)' = CallIs(c)
    BY <2>1 DEF CallIs, NotDenied, LetThrough
  <2> QED
    BY <1>0, <2>1, <2>2 DEF CallInv, CallTyped
<1>3. ASSUME NEW c \in ToolCalls, T!Execute(c) PROVE CallInv'
  <2>0. /\ CallIs(c) /\ effects[c] \in Nat /\ call[c].asks \in Nat /\ allowed[c].gates \in Nat
        /\ allowed[c].human \in {"unasked", "yes", "no"} /\ out[c] \in Results
    BY <1>01
  <2>1. /\ call[c].at = "idle" /\ UNCHANGED <<gates, allowed, out, effects, behind>>
        /\ call' = [call EXCEPT ![c].at = "down", ![c].level = 1]
    BY <1>3 DEF T!Execute
  <2> DEFINE first == [call EXCEPT ![c].at = "down"]
  <2>11. /\ first \in [ToolCalls -> CallRecord] /\ first[c].at = "down" /\ first[c].asks = call[c].asks
         /\ \A d \in ToolCalls \ {c} : first[d] = call[d]
    BY <1>0 DEF CallTyped, CallRecord, Stages
  <2>12. call' = [first EXCEPT ![c].level = 1]
    BY <2>1
  <2> HIDE DEF first
  <2>2. /\ call' \in [ToolCalls -> CallRecord] /\ call'[c].at = "down" /\ call'[c].asks = call[c].asks
        /\ \A d \in ToolCalls \ {c} : call'[d] = call[d]
    BY <2>11, <2>12 DEF CallRecord, Stages
  <2>9. CallIs(c)'
    BY <2>0, <2>1, <2>2 DEF CallIs, NotDenied, LetThrough, Results
  <2> QED
    BY <1>0, <2>1, <2>2, <2>9, OneCall DEF CallTyped
<1>4. ASSUME NEW c \in ToolCalls, T!Descend(c) PROVE CallInv'
  <2>0. /\ CallIs(c) /\ effects[c] \in Nat /\ call[c].asks \in Nat /\ allowed[c].gates \in Nat
        /\ allowed[c].human \in {"unasked", "yes", "no"} /\ out[c] \in Results
    BY <1>01
  <2>1. /\ call[c].at = "down" /\ UNCHANGED <<gates, allowed, out, effects, behind>>
        /\ call' = [call EXCEPT ![c].level = call[c].level + 1,
                                ![c].at = IF call[c].level = Layers THEN "checks" ELSE "down"]
    BY <1>4 DEF T!Descend
  <2>11. PICK stage \in {"down", "checks"} : call' = [call EXCEPT ![c].level = call[c].level + 1, ![c].at = stage]
    BY <2>1
  <2> DEFINE first == [call EXCEPT ![c].level = call[c].level + 1]
  <2>12. /\ first \in [ToolCalls -> CallRecord] /\ first[c].asks = call[c].asks
         /\ \A d \in ToolCalls \ {c} : first[d] = call[d]
    BY <1>0 DEF CallTyped, CallRecord, Stages
  <2>13. call' = [first EXCEPT ![c].at = stage]
    BY <2>11
  <2> HIDE DEF first
  <2>2. /\ call' \in [ToolCalls -> CallRecord] /\ call'[c].at \in {"down", "checks"} /\ call'[c].asks = call[c].asks
        /\ \A d \in ToolCalls \ {c} : call'[d] = call[d]
    BY <2>12, <2>13 DEF CallRecord, Stages
  <2>9. CallIs(c)'
    BY <2>0, <2>1, <2>2 DEF CallIs, NotDenied, LetThrough, Results
  <2> QED
    BY <1>0, <2>1, <2>2, <2>9, OneCall DEF CallTyped
<1>5. ASSUME NEW c \in ToolCalls, T!ShortCircuit(c) PROVE CallInv'
  <2>0. /\ CallIs(c) /\ effects[c] \in Nat /\ call[c].asks \in Nat /\ allowed[c].gates \in Nat
        /\ allowed[c].human \in {"unasked", "yes", "no"} /\ out[c] \in Results
    BY <1>01
  <2>1. /\ call[c].at = "down" /\ UNCHANGED <<gates, allowed, effects, behind>>
        /\ call' = [call EXCEPT ![c].at = "up", ![c].level = call[c].level - 1]
        /\ out' = [out EXCEPT ![c] = "own"]
    BY <1>5 DEF T!ShortCircuit, T!Rises
  <2>2. /\ call' \in [ToolCalls -> CallRecord] /\ call'[c].at = "up" /\ call'[c].asks = call[c].asks
        /\ \A d \in ToolCalls \ {c} : call'[d] = call[d]
    BY <1>0, <2>1 DEF CallTyped, CallRecord, Stages
  <2>3. /\ out' \in [ToolCalls -> Results] /\ out'[c] = "own"
        /\ \A d \in ToolCalls \ {c} : out'[d] = out[d]
    BY <1>0, <2>1 DEF CallTyped, Results
  <2>9. CallIs(c)'
    BY <2>0, <2>1, <2>2, <2>3 DEF CallIs, NotDenied, LetThrough, Results
  <2> QED
    BY <1>0, <2>1, <2>2, <2>3, <2>9, OneCall DEF CallTyped
<1>6. ASSUME NEW c \in ToolCalls, T!Ascend(c) PROVE CallInv'
  <2>0. /\ CallIs(c) /\ effects[c] \in Nat /\ call[c].asks \in Nat /\ allowed[c].gates \in Nat
        /\ allowed[c].human \in {"unasked", "yes", "no"} /\ out[c] \in Results
    BY <1>01
  <2>1. /\ call[c].at = "up" /\ UNCHANGED <<gates, allowed, out, effects, behind>>
        /\ call' = [call EXCEPT ![c].level = call[c].level - 1]
    BY <1>6 DEF T!Ascend, T!Again
  <2>2. /\ call' \in [ToolCalls -> CallRecord] /\ call'[c].at = "up" /\ call'[c].asks = call[c].asks
        /\ \A d \in ToolCalls \ {c} : call'[d] = call[d]
    BY <1>0, <2>1 DEF CallTyped, CallRecord, Stages
  <2>9. CallIs(c)'
    BY <2>0, <2>1, <2>2 DEF CallIs, NotDenied, LetThrough, Results
  <2> QED
    BY <1>0, <2>1, <2>2, <2>9, OneCall DEF CallTyped
<1>7. ASSUME NEW c \in ToolCalls, T!Return(c) PROVE CallInv'
  <2>0. /\ CallIs(c) /\ effects[c] \in Nat /\ call[c].asks \in Nat /\ allowed[c].gates \in Nat
        /\ allowed[c].human \in {"unasked", "yes", "no"} /\ out[c] \in Results
    BY <1>01
  <2>1. /\ call[c].at = "up" /\ UNCHANGED <<gates, allowed, out, effects, behind>>
        /\ call' = [call EXCEPT ![c].at = "done"]
    BY <1>7 DEF T!Return
  <2>2. /\ call' \in [ToolCalls -> CallRecord] /\ call'[c].at = "done" /\ call'[c].asks = call[c].asks
        /\ \A d \in ToolCalls \ {c} : call'[d] = call[d]
    BY <1>0, <2>1 DEF CallTyped, CallRecord, Stages
  <2>9. CallIs(c)'
    BY <2>0, <2>1, <2>2 DEF CallIs, NotDenied, LetThrough, Results
  <2> QED
    BY <1>0, <2>1, <2>2, <2>9, OneCall DEF CallTyped
<1>8. ASSUME NEW c \in ToolCalls, T!Invalid(c) PROVE CallInv'
  <2>0. /\ CallIs(c) /\ effects[c] \in Nat /\ call[c].asks \in Nat /\ allowed[c].gates \in Nat
        /\ allowed[c].human \in {"unasked", "yes", "no"} /\ out[c] \in Results
    BY <1>01
  <2>1. /\ call[c].at = "checks" /\ UNCHANGED <<gates, allowed, effects, behind>>
        /\ call' = [call EXCEPT ![c].at = "up", ![c].level = call[c].level - 1]
        /\ out' = [out EXCEPT ![c] = "invalid"]
    BY <1>8 DEF T!Invalid, T!Rises
  <2>2. /\ call' \in [ToolCalls -> CallRecord] /\ call'[c].at = "up" /\ call'[c].asks = call[c].asks
        /\ \A d \in ToolCalls \ {c} : call'[d] = call[d]
    BY <1>0, <2>1 DEF CallTyped, CallRecord, Stages
  <2>3. /\ out' \in [ToolCalls -> Results] /\ out'[c] = "invalid"
        /\ \A d \in ToolCalls \ {c} : out'[d] = out[d]
    BY <1>0, <2>1 DEF CallTyped, Results
  <2>9. CallIs(c)'
    BY <2>0, <2>1, <2>2, <2>3 DEF CallIs, NotDenied, LetThrough, Results
  <2> QED
    BY <1>0, <2>1, <2>2, <2>3, <2>9, OneCall DEF CallTyped
<1>9. ASSUME NEW c \in ToolCalls, NEW policy \in T!Policies, NEW access \in T!Accesses,
             NEW hasApprover \in BOOLEAN, T!Judge(c, policy, access, hasApprover)
      PROVE  CallInv'
  <2>0. /\ CallIs(c) /\ effects[c] \in Nat /\ call[c].asks \in Nat /\ allowed[c].gates \in Nat
        /\ allowed[c].human \in {"unasked", "yes", "no"} /\ out[c] \in Results
    BY <1>01
  <2> DEFINE judged == T!Effective(policy, hasApprover)
             decision == T!Authorize(policy, access, hasApprover)
  <2>1. /\ judged \in T!Policies /\ decision \in {"deny", "ask", "allow"}
        /\ decision # "deny" => judged \notin {"deny", "deny_allow"} /\ access \notin {"deny", "throws"}
        /\ decision = "allow" => access # "ask" /\ (access = "blank" \/ judged \notin {"empty", "ask"})
    BY DEF T!Effective, T!Authorize, T!EvaluatePolicy, T!Policies, T!Accesses
  <2>2. /\ call[c].at = "checks" /\ gates \in Nat
        /\ UNCHANGED <<gates, effects, behind>>
    BY <1>0, <1>9 DEF T!Judge, CallTyped
  <2>22. allowed' = [allowed EXCEPT ![c].policy = judged, ![c].access = access, ![c].gates = gates]
    BY <1>9 DEF T!Judge
  <2>3. \/ T!Rises(c, "denied")
        \/ decision = "ask" /\ call' = [call EXCEPT ![c].at = "approval"] /\ UNCHANGED out
        \/ decision = "allow" /\ call' = [call EXCEPT ![c].at = "handler", ![c].asks = gates] /\ UNCHANGED out
    <3> HIDE DEF judged
    <3>1. CASE decision = "deny"
      BY <1>9, <3>1 DEF T!Judge, judged
    <3>2. CASE decision = "ask"
      BY <1>9, <3>2 DEF T!Judge, judged
    <3>3. CASE decision = "allow"
      BY <1>9, <3>3 DEF T!Judge, judged
    <3> QED
      BY <2>1, <3>1, <3>2, <3>3
  <2> HIDE DEF judged, decision
  <2>4. /\ allowed' \in [ToolCalls -> Words]
        /\ allowed'[c].policy = judged /\ allowed'[c].access = access /\ allowed'[c].gates = gates
        /\ allowed'[c].human = allowed[c].human /\ allowed'[c].approver = allowed[c].approver
        /\ \A d \in ToolCalls \ {c} : allowed'[d] = allowed[d]
    BY <1>0, <2>1, <2>2, <2>22 DEF CallTyped, Words
  <2>5. CASE T!Rises(c, "denied")
    <3>1. /\ call' \in [ToolCalls -> CallRecord] /\ call'[c].at = "up"
          /\ \A d \in ToolCalls \ {c} : call'[d] = call[d]
      BY <1>0, <2>5 DEF T!Rises, CallTyped, CallRecord, Stages
    <3>2. /\ out' \in [ToolCalls -> Results] /\ out'[c] = "denied"
          /\ \A d \in ToolCalls \ {c} : out'[d] = out[d]
      BY <1>0, <2>5 DEF T!Rises, CallTyped, Results
    <3>4. effects'[c] = 0 /\ c \notin behind'
      BY <2>0, <2>2 DEF CallIs
    <3>5. CallIs(c)'
      BY <3>1, <3>2, <3>4 DEF CallIs
    <3> QED
      BY <1>0, <2>2, <2>4, <3>1, <3>2, <3>5, OneCall DEF CallTyped
  <2>6. CASE decision = "ask" /\ call' = [call EXCEPT ![c].at = "approval"] /\ UNCHANGED out
    <3>2. decision = "ask" /\ UNCHANGED out
      BY <2>6
    <3>1. /\ call' \in [ToolCalls -> CallRecord] /\ call'[c].at = "approval"
          /\ \A d \in ToolCalls \ {c} : call'[d] = call[d]
      BY <1>0, <2>6 DEF CallTyped, CallRecord, Stages
    <3>4. effects'[c] = 0 /\ out'[c] = "none" /\ c \notin behind' /\ allowed'[c].human = "unasked"
      BY <2>0, <2>2, <2>4, <3>2 DEF CallIs
    <3>5. NotDenied(c)'
      BY <2>1, <2>4, <3>2 DEF NotDenied
    <3>6. CallIs(c)'
      BY <3>1, <3>4, <3>5 DEF CallIs
    <3> QED
      BY <1>0, <2>2, <2>4, <2>6, <3>1, <3>6, OneCall DEF CallTyped
  <2>7. CASE decision = "allow" /\ call' = [call EXCEPT ![c].at = "handler", ![c].asks = gates] /\ UNCHANGED out
    <3>2. decision = "allow" /\ UNCHANGED out
      BY <2>7
    <3>1. /\ call' \in [ToolCalls -> CallRecord] /\ call'[c].at = "handler" /\ call'[c].asks = gates
          /\ \A d \in ToolCalls \ {c} : call'[d] = call[d]
      BY <1>0, <2>2, <2>7 DEF CallTyped, CallRecord, Stages
    <3>4. effects'[c] = 0 /\ out'[c] = "none" /\ c \notin behind' /\ allowed'[c].human = "unasked"
      BY <2>0, <2>2, <2>4, <3>2 DEF CallIs
    <3>5. LetThrough(c)'
      BY <2>1, <2>4, <3>2 DEF LetThrough, NotDenied
    <3>6. call'[c].asks = allowed'[c].gates /\ call'[c].asks \in Nat
      BY <2>2, <2>4, <3>1
    <3>7. CallIs(c)'
      BY <3>1, <3>4, <3>5, <3>6 DEF CallIs
    <3> QED
      BY <1>0, <2>2, <2>4, <2>7, <3>1, <3>7, OneCall DEF CallTyped
  <2> QED
    BY <2>3, <2>5, <2>6, <2>7
<1>10. ASSUME NEW c \in ToolCalls, T!Approver(c, "yes") PROVE CallInv'
  <2>0. /\ CallIs(c) /\ effects[c] \in Nat /\ call[c].asks \in Nat /\ allowed[c].gates \in Nat
        /\ allowed[c].human \in {"unasked", "yes", "no"} /\ out[c] \in Results
    BY <1>01
  <2>1. /\ call[c].at = "approval" /\ UNCHANGED <<gates, out, effects, behind>>
    BY <1>10 DEF T!Approver
  <2>11. /\ allowed' = [allowed EXCEPT ![c].approver = "yes"]
         /\ call' = [call EXCEPT ![c].at = "handler", ![c].asks = allowed[c].gates]
         /\ allowed[c].gates \in Nat
    BY <2>0, <1>10 DEF T!Approver
  <2>2. /\ call' \in [ToolCalls -> CallRecord] /\ call'[c].at = "handler" /\ call'[c].asks = allowed[c].gates
        /\ \A d \in ToolCalls \ {c} : call'[d] = call[d]
    BY <1>0, <2>11 DEF CallTyped, CallRecord, Stages
  <2>4. /\ allowed' \in [ToolCalls -> Words] /\ allowed'[c].approver = "yes" /\ allowed'[c].human = allowed[c].human
        /\ allowed'[c].policy = allowed[c].policy /\ allowed'[c].access = allowed[c].access
        /\ allowed'[c].gates = allowed[c].gates
        /\ \A d \in ToolCalls \ {c} : allowed'[d] = allowed[d]
    BY <1>0, <2>11 DEF CallTyped, Words
  <2>9. CallIs(c)'
    <3>1. effects'[c] = 0 /\ out'[c] = "none" /\ c \notin behind' /\ allowed'[c].human = "unasked"
      BY <2>0, <2>1, <2>4 DEF CallIs
    <3>2. NotDenied(c)
      BY <2>0, <2>1 DEF CallIs
    <3>3. LetThrough(c)'
      BY <2>4, <3>2 DEF LetThrough, NotDenied
    <3>4. call'[c].asks = allowed'[c].gates /\ call'[c].asks \in Nat
      BY <2>0, <2>2, <2>4
    <3> QED
      BY <2>2, <3>1, <3>3, <3>4 DEF CallIs
  <2> QED
    BY <1>0, <2>1, <2>2, <2>4, <2>9, OneCall DEF CallTyped
<1>11. ASSUME NEW c \in ToolCalls, NEW verdict \in {"no", "throws"}, T!Approver(c, verdict) PROVE CallInv'
  <2>0. /\ CallIs(c) /\ effects[c] \in Nat /\ call[c].asks \in Nat /\ allowed[c].gates \in Nat
        /\ allowed[c].human \in {"unasked", "yes", "no"} /\ out[c] \in Results
    BY <1>01
  <2>1. /\ call[c].at = "approval" /\ UNCHANGED <<gates, effects, behind>>
    BY <1>11 DEF T!Approver
  <2>11. /\ allowed' = [allowed EXCEPT ![c].approver = verdict]
         /\ call' = [call EXCEPT ![c].at = "up", ![c].level = call[c].level - 1]
         /\ out' = [out EXCEPT ![c] = "denied"]
    BY <1>11 DEF T!Approver, T!Rises
  <2>2. /\ call' \in [ToolCalls -> CallRecord] /\ call'[c].at = "up" /\ call'[c].asks = call[c].asks
        /\ \A d \in ToolCalls \ {c} : call'[d] = call[d]
    BY <1>0, <2>11 DEF CallTyped, CallRecord, Stages
  <2>3. /\ out' \in [ToolCalls -> Results] /\ out'[c] = "denied"
        /\ \A d \in ToolCalls \ {c} : out'[d] = out[d]
    BY <1>0, <2>11 DEF CallTyped, Results
  <2>4. /\ allowed' \in [ToolCalls -> Words] /\ allowed'[c].human = allowed[c].human
        /\ \A d \in ToolCalls \ {c} : allowed'[d] = allowed[d]
    BY <1>0, <2>11 DEF CallTyped, Words
  <2>9. CallIs(c)'
    <3>1. effects'[c] = 0 /\ c \notin behind'
      BY <2>0, <2>1 DEF CallIs
    <3>2. out'[c] = "denied" /\ call'[c].at = "up"
      BY <2>2, <2>3
    <3> QED
      BY <3>1, <3>2 DEF CallIs
  <2> QED
    BY <1>0, <2>1, <2>2, <2>3, <2>4, <2>9, OneCall DEF CallTyped
<1>12. ASSUME NEW c \in ToolCalls, NEW verdict \in {"approve", "edit"}, T!Human(c, verdict) PROVE CallInv'
  <2>0. /\ CallIs(c) /\ effects[c] \in Nat /\ call[c].asks \in Nat /\ allowed[c].gates \in Nat
        /\ allowed[c].human \in {"unasked", "yes", "no"} /\ out[c] \in Results
    BY <1>01
  <2>1. /\ call[c].at = "handler" \/ c \in behind
        /\ UNCHANGED <<gates, out, effects, behind>>
        /\ call[c].asks > 0
    BY <1>12 DEF T!Human, T!GoesOn, T!Going
  <2>10. allowed[c].human # "no"
    BY <2>0, <2>1 DEF CallIs
  <2>11. /\ allowed' = [allowed EXCEPT ![c].human = "yes"]
         /\ call' = [call EXCEPT ![c].asks = call[c].asks - 1]
    BY <1>12, <2>10 DEF T!Human, T!GoesOn
  <2>2. /\ call' \in [ToolCalls -> CallRecord] /\ call'[c].at = call[c].at /\ call'[c].asks = call[c].asks - 1
        /\ \A d \in ToolCalls \ {c} : call'[d] = call[d]
    BY <1>0, <2>0, <2>1, <2>11 DEF CallTyped, CallRecord, Stages
  <2>4. /\ allowed' \in [ToolCalls -> Words] /\ allowed'[c].human = "yes" /\ allowed'[c].approver = allowed[c].approver
        /\ allowed'[c].policy = allowed[c].policy /\ allowed'[c].access = allowed[c].access
        /\ allowed'[c].gates = allowed[c].gates /\ allowed[c].gates \in Nat
        /\ \A d \in ToolCalls \ {c} : allowed'[d] = allowed[d]
    BY <1>0, <2>0, <2>1, <2>11 DEF CallTyped, Words
  <2>9. CallIs(c)'
    <3>1. /\ effects'[c] = 0 /\ LetThrough(c) /\ call[c].asks <= allowed[c].gates
          /\ call[c].at = "handler" => out[c] = "none" /\ c \notin behind
          /\ c \in behind => out[c] = "timeout" /\ call[c].at \in {"up", "done"}
      BY <1>0, <2>0, <2>1 DEF CallIs, CallTyped, CallRecord, Stages
    <3>2. LetThrough(c)'
      BY <2>4, <3>1 DEF LetThrough, NotDenied
    <3>3. call'[c].asks <= allowed'[c].gates /\ call'[c].asks # allowed'[c].gates
      BY <2>0, <2>1, <2>2, <2>4, <3>1
    <3>4. /\ call'[c].at \in {"handler", "up", "done"} /\ out'[c] \in {"none", "timeout"}
          /\ call'[c].at = "handler" => out'[c] = "none" /\ c \notin behind'
          /\ c \in behind' => out'[c] = "timeout"
      BY <2>1, <2>2, <3>1
    <3> QED
      BY <2>4, <3>1, <3>2, <3>3, <3>4 DEF CallIs
  <2> QED
    BY <1>0, <2>1, <2>2, <2>4, <2>9, OneCall DEF CallTyped
<1>13. ASSUME NEW c \in ToolCalls, NEW verdict \in {"reject", "throws", "unknown"}, T!Human(c, verdict) PROVE CallInv'
  <2>0. /\ CallIs(c) /\ effects[c] \in Nat /\ call[c].asks \in Nat /\ allowed[c].gates \in Nat
        /\ allowed[c].human \in {"unasked", "yes", "no"} /\ out[c] \in Results
    BY <1>01
  <2>1. /\ call[c].at = "handler" \/ c \in behind
        /\ UNCHANGED <<gates, effects>> /\ T!Settles(c, "error")
    BY <1>13 DEF T!Human, T!GoesOn, T!Going
  <2>11. allowed' = [allowed EXCEPT ![c].human = "no"]
    BY <1>13 DEF T!Human
  <2>4. /\ allowed' \in [ToolCalls -> Words] /\ allowed'[c].human = "no"
        /\ \A d \in ToolCalls \ {c} : allowed'[d] = allowed[d]
    BY <1>0, <2>11 DEF CallTyped, Words
  <2>5. CASE c \in behind
    <3>1. behind' = behind \ {c} /\ UNCHANGED <<call, out>>
      BY <2>1, <2>5 DEF T!Settles
    <3>11. effects'[c] = 0 /\ call'[c].at \in {"up", "done"} /\ out'[c] = "timeout" /\ c \notin behind'
      BY <1>0, <2>0, <2>1, <2>5, <3>1 DEF CallIs, CallTyped, CallRecord, Stages
    <3>2. CallIs(c)'
      BY <3>11 DEF CallIs
    <3> QED
      BY <1>0, <2>1, <2>4, <3>1, <3>2, OneCall DEF CallTyped
  <2>6. CASE c \notin behind
    <3>1. UNCHANGED behind
      BY <2>1, <2>6 DEF T!Settles
    <3>11. /\ out' = [out EXCEPT ![c] = "error"]
           /\ call' = [call EXCEPT ![c].at = "up", ![c].level = call[c].level - 1]
      BY <2>1, <2>6 DEF T!Settles, T!Rises
    <3>2. /\ call' \in [ToolCalls -> CallRecord] /\ call'[c].at = "up"
          /\ \A d \in ToolCalls \ {c} : call'[d] = call[d]
      BY <1>0, <3>11 DEF CallTyped, CallRecord, Stages
    <3>3. /\ out' \in [ToolCalls -> Results] /\ out'[c] = "error"
          /\ \A d \in ToolCalls \ {c} : out'[d] = out[d]
      BY <1>0, <3>11 DEF CallTyped, Results
    <3>12. effects'[c] = 0 /\ c \notin behind'
      BY <2>0, <2>1, <2>6, <3>1 DEF CallIs
    <3>4. CallIs(c)'
      BY <3>2, <3>3, <3>12 DEF CallIs
    <3> QED
      BY <1>0, <2>1, <2>4, <3>1, <3>2, <3>3, <3>4, OneCall DEF CallTyped
  <2> QED
    BY <2>5, <2>6
<1>14. ASSUME NEW c \in ToolCalls, NEW acts \in BOOLEAN, NEW result \in {"ok", "error"}, T!Act(c, acts, result)
       PROVE  CallInv'
  <2>0. /\ CallIs(c) /\ effects[c] \in Nat /\ call[c].asks \in Nat /\ allowed[c].gates \in Nat
        /\ allowed[c].human \in {"unasked", "yes", "no"} /\ out[c] \in Results
    BY <1>01
  <2>1. /\ call[c].at = "handler" \/ c \in behind
        /\ call[c].asks = 0 /\ (result = "ok" => acts)
        /\ UNCHANGED <<gates, allowed>> /\ T!Settles(c, result)
    BY <1>14 DEF T!Act, T!Going
  <2>10. effects[c] = 0
    BY <2>0, <2>1 DEF CallIs
  <2>2. /\ effects' \in [ToolCalls -> Nat] /\ effects'[c] \in {0, 1} /\ (result = "ok" => effects'[c] = 1)
        /\ \A d \in ToolCalls \ {c} : effects'[d] = effects[d]
    BY <1>0, <2>10, <1>14, <2>1 DEF T!Act, CallTyped
  <2>3. /\ LetThrough(c) /\ allowed[c].gates \in Nat
        /\ allowed[c].gates > 0 => allowed[c].human = "yes"
        /\ allowed[c].gates = 0 => allowed[c].human = "unasked"
        /\ c \in behind => out[c] = "timeout"
        /\ c \notin behind => out[c] = "none"
    BY <2>0, <2>1 DEF CallIs
  <2>5. CASE c \in behind
    <3>1. behind' = behind \ {c} /\ UNCHANGED <<call, out>>
      BY <2>1, <2>5 DEF T!Settles
    <3>11. call'[c].at \in {"up", "done"} /\ out'[c] = "timeout" /\ c \notin behind' /\ LetThrough(c)'
      BY <1>0, <2>0, <2>1, <2>3, <2>5, <3>1 DEF CallIs, CallTyped, CallRecord, Stages, LetThrough, NotDenied
    <3>2. CallIs(c)'
      BY <2>1, <2>2, <2>3, <3>11 DEF CallIs
    <3> QED
      BY <1>0, <2>1, <2>2, <3>1, <3>2, OneCall DEF CallTyped
  <2>6. CASE c \notin behind
    <3>1. UNCHANGED behind
      BY <2>1, <2>6 DEF T!Settles
    <3>11. /\ out' = [out EXCEPT ![c] = result]
           /\ call' = [call EXCEPT ![c].at = "up", ![c].level = call[c].level - 1]
      BY <2>1, <2>6 DEF T!Settles, T!Rises
    <3>2. /\ call' \in [ToolCalls -> CallRecord] /\ call'[c].at = "up"
          /\ \A d \in ToolCalls \ {c} : call'[d] = call[d]
      BY <1>0, <3>11 DEF CallTyped, CallRecord, Stages
    <3>3. /\ out' \in [ToolCalls -> Results] /\ out'[c] = result
          /\ \A d \in ToolCalls \ {c} : out'[d] = out[d]
      BY <1>0, <3>11 DEF CallTyped, Results
    <3>12. LetThrough(c)'
      BY <2>1, <2>3 DEF LetThrough, NotDenied
    <3>4. CallIs(c)'
      BY <2>1, <2>2, <2>3, <2>6, <3>1, <3>2, <3>3, <3>12 DEF CallIs
    <3> QED
      BY <1>0, <2>1, <2>2, <3>1, <3>2, <3>3, <3>4, OneCall DEF CallTyped
  <2> QED
    BY <2>5, <2>6
<1>15. ASSUME NEW c \in ToolCalls, T!TimeOut(c) PROVE CallInv'
  <2>0. /\ CallIs(c) /\ effects[c] \in Nat /\ call[c].asks \in Nat /\ allowed[c].gates \in Nat
        /\ allowed[c].human \in {"unasked", "yes", "no"} /\ out[c] \in Results
    BY <1>01
  <2>1. /\ call[c].at = "handler" /\ UNCHANGED <<gates, allowed, effects>>
        /\ behind' = behind \cup {c}
        /\ call' = [call EXCEPT ![c].at = "up", ![c].level = call[c].level - 1]
        /\ out' = [out EXCEPT ![c] = "timeout"]
    BY <1>15 DEF T!TimeOut, T!UnderDeadline, T!Rises
  <2>2. /\ call' \in [ToolCalls -> CallRecord] /\ call'[c].at = "up" /\ call'[c].asks = call[c].asks
        /\ \A d \in ToolCalls \ {c} : call'[d] = call[d]
    BY <1>0, <2>1 DEF CallTyped, CallRecord, Stages
  <2>3. /\ out' \in [ToolCalls -> Results] /\ out'[c] = "timeout"
        /\ \A d \in ToolCalls \ {c} : out'[d] = out[d]
    BY <1>0, <2>1 DEF CallTyped, Results
  <2>9. CallIs(c)'
    BY <2>0, <2>1, <2>2, <2>3 DEF CallIs, NotDenied, LetThrough, Results
  <2> QED
    BY <1>0, <2>1, <2>2, <2>3, <2>9, OneCall DEF CallTyped
<1> QED
  BY <1>1, <1>2, <1>3, <1>4, <1>5, <1>6, <1>7, <1>8, <1>9, <1>10, <1>11, <1>12, <1>13, <1>14, <1>15
     DEF T!Next, T!Layer, T!Check, T!Asked, T!Handler

LEMMA CallSound == CallInv => T!GatesHold /\ T!OneEffect
<1> SUFFICES ASSUME CallInv, NEW c \in ToolCalls
             PROVE  /\ effects[c] > 0 =>
                           /\ LetThrough(c)
                           /\ allowed[c].gates > 0 => allowed[c].human = "yes"
                           /\ ~(allowed[c].gates > 0) => allowed[c].human = "unasked"
                    /\ effects[c] <= 1
                    /\ out[c] = "ok" => effects[c] = 1
                    /\ out[c] \in {"invalid", "denied", "own"} => effects[c] = 0
                    /\ allowed[c].human = "no" => effects[c] = 0
                    /\ c \in behind => out[c] = "timeout"
  BY DEF LetThrough, NotDenied, T!GatesHold, T!OneEffect
<1>1. CallIs(c) /\ effects[c] \in Nat /\ allowed[c].gates \in Nat
  BY DEF CallInv, CallTyped, Words
<1> QED
  BY <1>1 DEF CallIs

-----------------------------------------------------------------------------
\* A file and its writers. A run at the point of writing has been shown what it
\* found there, or the backend did not let it be read; and the number of an
\* offloaded result is not given out again before a restart.
Versions == [exists : BOOLEAN, has : SUBSET Int]

Operations == [at : {"idle", "check", "write"}, kind : {"none", "write", "edit"}, base : Versions,
               checked : BOOLEAN, new : SUBSET Int]

FilesTyped ==
    /\ file \in Versions /\ changes \in Nat
    /\ seen \in [Runs -> [read : BOOLEAN, has : SUBSET Int]]
    /\ known \in [Runs -> SUBSET Int]
    /\ op \in [Runs -> Operations]

WriterInformed(r) ==
    /\ seen[r].read => seen[r].has \subseteq known[r]
    /\ op[r].at = "write" => op[r].base.has \subseteq known[r] \/ misread

EditsInv ==
    /\ FilesTyped
    /\ ~file.exists => file.has = {}
    /\ \A r \in Runs : WriterInformed(r)
    /\ F!NothingOverwrittenUnseen

OffloadInv ==
    /\ offloads \in Nat /\ DOMAIN saved = 1..MaxOffloads
    /\ ~restarts => \A n \in named : n[1] \in 1..offloads /\ saved[n[1]] = n[2]

LEMMA FilesStart == F!Init => EditsInv /\ OffloadInv
<1> SUFFICES ASSUME F!Init PROVE EditsInv /\ OffloadInv
  OBVIOUS
<1>1. file \in Versions /\ changes \in Nat /\ ~file.exists /\ file.has = {}
  BY DEF F!Init, F!Absent, Versions
<1>2. seen \in [Runs -> [read : BOOLEAN, has : SUBSET Int]] /\ known \in [Runs -> SUBSET Int]
  BY DEF F!Init, F!NotRead
<1>3. F!Idle \in Operations /\ F!Idle.at = "idle"
  BY DEF F!Idle, F!Absent, Operations, Versions
<1>4. op \in [Runs -> Operations] /\ \A r \in Runs : op[r].at = "idle"
  BY <1>3 DEF F!Init
<1>5. \A r \in Runs : ~seen[r].read
  BY DEF F!Init, F!NotRead
<1>6. \A r \in Runs : WriterInformed(r)
  BY <1>4, <1>5 DEF WriterInformed
<1>7. F!NothingOverwrittenUnseen
  BY DEF F!Init, F!NothingOverwrittenUnseen
<1>8. OffloadInv
  BY DEF F!Init, OffloadInv
<1> QED
  BY <1>1, <1>2, <1>4, <1>6, <1>7, <1>8 DEF EditsInv, FilesTyped

\* A step of one run leaves what the others have seen and are about as it is.
LEMMA OneWriter ==
    ASSUME EditsInv, NEW r \in Runs, WriterInformed(r)', file' = file, changes' \in Nat,
           lost' = lost, races' = races, misread => misread',
           seen' \in [Runs -> [read : BOOLEAN, has : SUBSET Int]], \A o \in Runs \ {r} : seen'[o] = seen[o],
           known' \in [Runs -> SUBSET Int], \A o \in Runs \ {r} : known'[o] = known[o],
           op' \in [Runs -> Operations], \A o \in Runs \ {r} : op'[o] = op[o]
    PROVE  EditsInv'
<1>1. FilesTyped'
  BY DEF EditsInv, FilesTyped
<1>2. ASSUME NEW o \in Runs \ {r} PROVE WriterInformed(o)'
  <2>1. WriterInformed(o)
    BY DEF EditsInv
  <2> QED
    BY <2>1 DEF WriterInformed
<1>3. F!NothingOverwrittenUnseen'
  BY DEF EditsInv, F!NothingOverwrittenUnseen
<1> QED
  BY <1>1, <1>2, <1>3 DEF EditsInv

LEMMA EditsStep == EditsInv /\ [F!Next]_(F!files) => EditsInv'
<1> SUFFICES ASSUME EditsInv, [F!Next]_(F!files) PROVE EditsInv'
  OBVIOUS
<1>0. FilesTyped /\ \A r \in Runs : WriterInformed(r)
  BY DEF EditsInv
<1>1. ASSUME UNCHANGED <<file, changes, seen, known, op, lost, races, misread>> PROVE EditsInv'
  BY <1>1 DEF EditsInv, FilesTyped, WriterInformed, F!NothingOverwrittenUnseen
<1>2. ASSUME NEW r \in Runs, F!ReadFile(r) PROVE EditsInv'
  <2>1. /\ op[r].at = "idle" /\ UNCHANGED <<file, changes, op, lost, races, misread>>
        /\ seen' = [seen EXCEPT ![r] = [read |-> TRUE, has |-> file.has]]
        /\ known' = [known EXCEPT ![r] = known[r] \cup file.has]
    BY <1>2 DEF F!ReadFile, F!Records, F!Shown
  <2>2. file.has \subseteq Int /\ known[r] \subseteq Int
    BY <1>0 DEF FilesTyped, Versions
  <2>3. /\ known' \in [Runs -> SUBSET Int] /\ known'[r] = known[r] \cup file.has
        /\ \A o \in Runs \ {r} : known'[o] = known[o]
    BY <1>0, <2>1, <2>2 DEF FilesTyped
  <2>4. /\ seen' \in [Runs -> [read : BOOLEAN, has : SUBSET Int]] /\ seen'[r].has = file.has
        /\ \A o \in Runs \ {r} : seen'[o] = seen[o]
    BY <1>0, <2>1, <2>2 DEF FilesTyped
  <2>5. WriterInformed(r)'
    BY <2>1, <2>3, <2>4 DEF WriterInformed
  <2> QED
    BY <1>0, <2>1, <2>3, <2>4, <2>5, OneWriter DEF FilesTyped
<1>3. ASSUME NEW r \in Runs, F!AskExists(r) PROVE EditsInv'
  <2>1. /\ op[r].at = "idle" /\ UNCHANGED <<file, changes, seen, known, lost, races, misread>>
        /\ op' = [op EXCEPT ![r] = [F!Idle EXCEPT !.at = IF file.exists THEN "check" ELSE "write", !.kind = "write",
                                            !.base = file, !.checked = TRUE, !.new = known[r]]]
    BY <1>3 DEF F!AskExists
  <2>2. PICK now \in Operations :
            /\ op' = [op EXCEPT ![r] = now] /\ now.base = file
            /\ file.exists => now.at = "check"
    <3>1. known[r] \in SUBSET Int /\ file \in Versions /\ F!Idle \in Operations
      BY <1>0 DEF FilesTyped, F!Idle, F!Absent, Operations, Versions
    <3> DEFINE stage == IF file.exists THEN "check" ELSE "write"
    <3>2. stage \in {"check", "write"} /\ (file.exists => stage = "check")
      OBVIOUS
    <3> HIDE DEF stage
    <3> DEFINE n1 == [F!Idle EXCEPT !.at = stage]
               n2 == [n1 EXCEPT !.kind = "write"]
               n3 == [n2 EXCEPT !.base = file]
               n4 == [n3 EXCEPT !.checked = TRUE]
               n5 == [n4 EXCEPT !.new = known[r]]
    <3>3. op' = [op EXCEPT ![r] = n5]
      BY <2>1 DEF stage
    <3>4. n1 \in Operations /\ n1.at = stage
      BY <3>1, <3>2 DEF Operations
    <3> HIDE DEF n1
    <3>5. n2 \in Operations /\ n2.at = stage
      BY <3>4 DEF Operations
    <3> HIDE DEF n2
    <3>6. n3 \in Operations /\ n3.at = stage /\ n3.base = file
      BY <3>1, <3>5 DEF Operations
    <3> HIDE DEF n3
    <3>7. n4 \in Operations /\ n4.at = stage /\ n4.base = file
      BY <3>6 DEF Operations
    <3> HIDE DEF n4
    <3>8. n5 \in Operations /\ n5.at = stage /\ n5.base = file
      BY <3>1, <3>7 DEF Operations
    <3> HIDE DEF n5
    <3> QED
      BY <3>2, <3>3, <3>8
  <2>3. op' \in [Runs -> Operations] /\ op'[r] = now /\ \A o \in Runs \ {r} : op'[o] = op[o]
    BY <1>0, <2>2 DEF FilesTyped
  <2>4. WriterInformed(r)'
    BY <1>0, <2>1, <2>2, <2>3 DEF WriterInformed, EditsInv
  <2> QED
    BY <1>0, <2>1, <2>3, <2>4, OneWriter DEF FilesTyped
<1>4. ASSUME NEW r \in Runs, NEW readable \in BOOLEAN, F!Check(r, readable) PROVE EditsInv'
  <2>1. /\ UNCHANGED <<file, changes, seen, known, lost, races>>
        /\ misread' = (misread \/ (~readable /\ file.exists))
        /\ op[r] \in Operations
    BY <1>0, <1>4 DEF F!Check, FilesTyped
  <2>2. \E now \in Operations :
            /\ op' = [op EXCEPT ![r] = now]
            /\ now.at = "write" => now.base = file
            /\ now.at = "write" => ~readable \/ ~file.exists \/ F!Fresh(r, file.has)
    <3>1. CASE ~readable \/ ~file.exists
      <4>1. op' = [op EXCEPT ![r] = [op[r] EXCEPT !.at = "write", !.checked = FALSE, !.base = file]]
        BY <1>4, <3>1 DEF F!Check
      <4> DEFINE first == [op[r] EXCEPT !.at = "write"]
                 second == [first EXCEPT !.checked = FALSE]
                 third == [second EXCEPT !.base = file]
      <4>2. first \in Operations /\ first.at = "write"
        BY <2>1 DEF Operations
      <4> HIDE DEF first
      <4>3. second \in Operations /\ second.at = "write"
        BY <4>2 DEF Operations
      <4> HIDE DEF second
      <4>4. third \in Operations /\ third.at = "write" /\ third.base = file
        BY <1>0, <4>3 DEF Operations, FilesTyped
      <4>5. op' = [op EXCEPT ![r] = third]
        BY <4>1 DEF first, second
      <4> HIDE DEF third
      <4> QED
        BY <3>1, <4>4, <4>5
    <3>2. CASE ~(~readable \/ ~file.exists) /\ F!Fresh(r, file.has)
      <4>1. op' = [op EXCEPT ![r] = [op[r] EXCEPT !.at = "write", !.base = file]]
        BY <1>4, <3>2 DEF F!Check
      <4> DEFINE first == [op[r] EXCEPT !.at = "write"]
                 second == [first EXCEPT !.base = file]
      <4>2. first \in Operations /\ first.at = "write"
        BY <2>1 DEF Operations
      <4> HIDE DEF first
      <4>4. second \in Operations /\ second.at = "write" /\ second.base = file
        BY <1>0, <4>2 DEF Operations, FilesTyped
      <4>5. op' = [op EXCEPT ![r] = second]
        BY <4>1 DEF first
      <4> HIDE DEF second
      <4> QED
        BY <3>2, <4>4, <4>5
    <3>3. CASE ~(~readable \/ ~file.exists) /\ ~F!Fresh(r, file.has)
      <4>1. op' = [op EXCEPT ![r] = F!Idle]
        BY <1>4, <3>3 DEF F!Check
      <4>2. F!Idle \in Operations /\ F!Idle.at = "idle"
        BY DEF F!Idle, F!Absent, Operations, Versions
      <4> QED
        BY <4>1, <4>2
    <3> QED
      BY <3>1, <3>2, <3>3
  <2>3. PICK now \in Operations :
            /\ op' = [op EXCEPT ![r] = now]
            /\ now.at = "write" => now.base = file
            /\ now.at = "write" => ~readable \/ ~file.exists \/ F!Fresh(r, file.has)
    BY <2>2
  <2>4. op' \in [Runs -> Operations] /\ op'[r] = now /\ \A o \in Runs \ {r} : op'[o] = op[o]
    BY <1>0, <2>3 DEF FilesTyped
  <2>5. WriterInformed(r)'
    <3>1. WriterInformed(r) /\ (~file.exists => file.has = {})
      BY DEF EditsInv
    <3>2. now.at = "write" => file.has \subseteq known[r] \/ misread'
      BY <2>1, <2>3, <3>1 DEF WriterInformed, F!Fresh
    <3> QED
      BY <2>1, <2>3, <2>4, <3>1, <3>2 DEF WriterInformed
  <2> QED
    BY <1>0, <2>1, <2>4, <2>5, OneWriter DEF FilesTyped
<1>5. ASSUME NEW r \in Runs, NEW outcome \in {"edited", "ambiguous", "unreadable"}, F!Edit(r, outcome)
      PROVE  EditsInv'
  <2>1. CASE ~(outcome = "edited" /\ F!Fresh(r, file.has))
    BY <1>1, <1>5, <2>1 DEF F!Edit
  <2>2. CASE outcome = "edited" /\ F!Fresh(r, file.has)
    <3> DEFINE mine == {changes + 1}
               text == file.has \cup mine
    <3>1. /\ UNCHANGED <<file, lost, races, misread>> /\ changes' = changes + 1
          /\ op' = [op EXCEPT ![r] = [F!Idle EXCEPT !.at = "write", !.kind = "edit", !.base = file,
                                                    !.checked = TRUE, !.new = file.has]]
          /\ seen' = [seen EXCEPT ![r] = [read |-> TRUE, has |-> text]]
          /\ known' = [known EXCEPT ![r] = known[r] \cup mine]
      BY <1>5, <2>2 DEF F!Edit, F!Records, F!Shown
    <3>2. /\ file.has \subseteq Int /\ known[r] \subseteq Int /\ changes \in Nat /\ file \in Versions
          /\ file.has \subseteq known[r]
      BY <1>0, <2>2 DEF FilesTyped, Versions, F!Fresh, WriterInformed
    <3>20. changes' \in Nat /\ mine \subseteq Int
      <4>1. changes \in Nat /\ changes' = changes + 1
        BY <3>1, <3>2
      <4>2. changes' \in Nat /\ changes + 1 \in Int
        BY <4>1
      <4> QED
        BY <4>2
    <3> HIDE DEF mine
    <3>21. text \in SUBSET Int /\ text \subseteq known[r] \cup mine
      BY <3>2, <3>20
    <3> HIDE DEF text
    <3>3. /\ known' \in [Runs -> SUBSET Int] /\ known'[r] = known[r] \cup mine
          /\ \A o \in Runs \ {r} : known'[o] = known[o]
      BY <1>0, <3>1, <3>2, <3>20 DEF FilesTyped
    <3>4. /\ seen' \in [Runs -> [read : BOOLEAN, has : SUBSET Int]] /\ seen'[r].has = text
          /\ \A o \in Runs \ {r} : seen'[o] = seen[o]
      BY <1>0, <3>1, <3>21 DEF FilesTyped
    <3>5. F!Idle \in Operations
      BY DEF F!Idle, F!Absent, Operations, Versions
    <3> DEFINE n1 == [F!Idle EXCEPT !.at = "write"]
               n2 == [n1 EXCEPT !.kind = "edit"]
               n3 == [n2 EXCEPT !.base = file]
               n4 == [n3 EXCEPT !.checked = TRUE]
               n5 == [n4 EXCEPT !.new = file.has]
    <3>51. op' = [op EXCEPT ![r] = n5]
      BY <3>1
    <3>52. n1 \in Operations
      BY <3>5 DEF Operations
    <3> HIDE DEF n1
    <3>53. n2 \in Operations
      BY <3>52 DEF Operations
    <3> HIDE DEF n2
    <3>54. n3 \in Operations /\ n3.base = file
      BY <3>2, <3>53 DEF Operations
    <3> HIDE DEF n3
    <3>55. n4 \in Operations /\ n4.base = file
      BY <3>54 DEF Operations
    <3> HIDE DEF n4
    <3>6. n5 \in Operations /\ n5.base = file
      BY <3>2, <3>55 DEF Operations
    <3> HIDE DEF n5
    <3>7. op' \in [Runs -> Operations] /\ op'[r] = n5 /\ \A o \in Runs \ {r} : op'[o] = op[o]
      BY <1>0, <3>51, <3>6 DEF FilesTyped
    <3>8. WriterInformed(r)'
      BY <3>2, <3>21, <3>3, <3>4, <3>6, <3>7 DEF WriterInformed
    <3> QED
      BY <3>1, <3>20, <3>3, <3>4, <3>7, <3>8, OneWriter
  <2> QED
    BY <2>1, <2>2
<1>6. ASSUME NEW r \in Runs, NEW succeeds \in BOOLEAN, F!Write(r, succeeds) PROVE EditsInv'
  <2> DEFINE text == F!NewText(r)
  <2>1. /\ op[r].at = "write" /\ misread' = misread /\ op' = [op EXCEPT ![r] = F!Idle]
    BY <1>6 DEF F!Write
  <2>2. F!Idle \in Operations /\ F!Idle.at = "idle"
    BY DEF F!Idle, F!Absent, Operations, Versions
  <2>3. op' \in [Runs -> Operations] /\ op'[r].at = "idle" /\ \A o \in Runs \ {r} : op'[o] = op[o]
    BY <1>0, <2>1, <2>2 DEF FilesTyped
  <2>4. CASE ~succeeds
    <3>1. UNCHANGED <<file, lost, races, seen, known, changes>>
      BY <1>6, <2>4 DEF F!Write
    <3>2. WriterInformed(r)'
      BY <1>0, <2>3, <3>1 DEF WriterInformed
    <3> QED
      BY <1>0, <2>1, <2>3, <3>1, <3>2, OneWriter DEF FilesTyped
  <2>5. CASE succeeds
    <3>1. /\ file' = [exists |-> TRUE, has |-> text]
          /\ lost' = lost \cup ((file.has \ text) \ known[r])
          /\ races' = (races \/ op[r].base # file)
          /\ seen' = [seen EXCEPT ![r] = [read |-> TRUE, has |-> text]]
          /\ known' = [known EXCEPT ![r] = known[r] \cup text]
          /\ changes' = IF op[r].kind = "edit" THEN changes ELSE changes + 1
      BY <1>6, <2>5 DEF F!Write, F!Records, F!Shown
    <3>2. text \in SUBSET Int /\ known[r] \in SUBSET Int /\ changes' \in Nat
      <4>1. seen[r].has \subseteq Int /\ op[r].new \subseteq Int /\ changes \in Nat /\ known[r] \in SUBSET Int
        BY <1>0 DEF FilesTyped, Operations
      <4> QED
        BY <3>1, <4>1 DEF F!NewText
    <3> HIDE DEF text
    <3>3. /\ known' \in [Runs -> SUBSET Int] /\ known'[r] = known[r] \cup text
          /\ \A o \in Runs \ {r} : known'[o] = known[o]
      BY <1>0, <3>1, <3>2 DEF FilesTyped
    <3>4. /\ seen' \in [Runs -> [read : BOOLEAN, has : SUBSET Int]] /\ seen'[r].has = text
          /\ \A o \in Runs \ {r} : seen'[o] = seen[o]
      BY <1>0, <3>1, <3>2 DEF FilesTyped
    <3>5. file' \in Versions /\ file'.exists
      BY <3>1, <3>2 DEF Versions
    <3>6. ASSUME NEW o \in Runs PROVE WriterInformed(o)'
      <4>1. CASE o = r
        BY <2>3, <3>3, <3>4, <4>1 DEF WriterInformed
      <4>2. CASE o # r
        <5>1. seen'[o] = seen[o] /\ known'[o] = known[o] /\ op'[o] = op[o] /\ WriterInformed(o)
          BY <1>0, <2>3, <3>3, <3>4, <4>2
        <5> QED
          BY <2>1, <5>1 DEF WriterInformed
      <4> QED
        BY <4>1, <4>2
    <3>7. F!NothingOverwrittenUnseen'
      <4>1. CASE op[r].base # file \/ misread
        BY <2>1, <3>1, <4>1 DEF F!NothingOverwrittenUnseen
      <4>2. CASE op[r].base = file /\ ~misread
        <5>1. file.has \subseteq known[r]
          BY <1>0, <2>1, <4>2 DEF WriterInformed
        <5>2. lost' = lost
          BY <3>1, <5>1
        <5> QED
          BY <2>1, <3>1, <5>2 DEF F!NothingOverwrittenUnseen, EditsInv
      <4> QED
        BY <4>1, <4>2
    <3> QED
      BY <2>3, <3>2, <3>3, <3>4, <3>5, <3>6, <3>7 DEF EditsInv, FilesTyped
  <2> QED
    BY <2>4, <2>5
<1>7. ASSUME NEW gone \in BOOLEAN, F!Outside(gone) PROVE EditsInv'
  <2>1. /\ UNCHANGED <<seen, known, op, lost, races, misread>> /\ changes' = changes + 1
        /\ file' = F!Absent \/ file' = [exists |-> TRUE, has |-> file.has \cup {changes + 1}]
    BY <1>7 DEF F!Outside
  <2>2. changes \in Nat /\ file.has \subseteq Int
    BY <1>0 DEF FilesTyped, Versions
  <2> DEFINE text == file.has \cup {changes + 1}
  <2>21. text \in SUBSET Int
    BY <2>2
  <2>3. file' \in Versions /\ (~file'.exists => file'.has = {})
    <3>1. file' = F!Absent \/ file' = [exists |-> TRUE, has |-> text]
      BY <2>1
    <3> HIDE DEF text
    <3> QED
      <4>1. CASE file' = F!Absent
        BY <4>1 DEF F!Absent, Versions
      <4>2. CASE file' = [exists |-> TRUE, has |-> text]
        BY <2>21, <4>2 DEF Versions
      <4> QED
        BY <3>1, <4>1, <4>2
  <2>4. \A r \in Runs : WriterInformed(r)'
    BY <1>0, <2>1 DEF WriterInformed
  <2>5. FilesTyped'
    BY <1>0, <2>1, <2>2, <2>3 DEF FilesTyped
  <2> QED
    BY <2>1, <2>3, <2>4, <2>5 DEF EditsInv, F!NothingOverwrittenUnseen
<1>8. ASSUME NEW r \in Runs, F!BeginRun(r) PROVE EditsInv'
  <2>1. /\ op[r].at = "idle" /\ UNCHANGED <<file, changes, op, lost, races, misread>>
        /\ seen' = [seen EXCEPT ![r] = F!NotRead] /\ known' = [known EXCEPT ![r] = {}]
    BY <1>8 DEF F!BeginRun
  <2>2. /\ seen' \in [Runs -> [read : BOOLEAN, has : SUBSET Int]] /\ ~seen'[r].read
        /\ \A o \in Runs \ {r} : seen'[o] = seen[o]
    BY <1>0, <2>1 DEF FilesTyped, F!NotRead
  <2>3. /\ known' \in [Runs -> SUBSET Int] /\ \A o \in Runs \ {r} : known'[o] = known[o]
    BY <1>0, <2>1 DEF FilesTyped
  <2>4. WriterInformed(r)'
    BY <2>1, <2>2 DEF WriterInformed
  <2> QED
    BY <1>0, <2>1, <2>2, <2>3, <2>4, OneWriter DEF FilesTyped
<1>9. CASE F!Restart
  <2>1. /\ UNCHANGED <<file, changes, lost, races, misread>>
        /\ seen' = [r \in Runs |-> F!NotRead] /\ known' = [r \in Runs |-> {}]
        /\ op' = [r \in Runs |-> F!Idle]
    BY <1>9 DEF F!Restart
  <2>2. F!Idle \in Operations /\ F!Idle.at = "idle"
    BY DEF F!Idle, F!Absent, Operations, Versions
  <2>3. seen' \in [Runs -> [read : BOOLEAN, has : SUBSET Int]] /\ \A r \in Runs : ~seen'[r].read
    BY <2>1 DEF F!NotRead
  <2>4. op' \in [Runs -> Operations] /\ (\A r \in Runs : op'[r].at = "idle") /\ known' \in [Runs -> SUBSET Int]
    BY <2>1, <2>2
  <2>5. \A r \in Runs : WriterInformed(r)'
    BY <2>3, <2>4 DEF WriterInformed
  <2> QED
    BY <1>0, <2>1, <2>3, <2>4, <2>5 DEF EditsInv, FilesTyped, F!NothingOverwrittenUnseen
<1>10. CASE UNCHANGED F!files
  BY <1>1, <1>10 DEF F!files
<1>11. ASSUME NEW succeeds \in BOOLEAN, F!Offload(succeeds) PROVE EditsInv'
  BY <1>1, <1>11 DEF F!Offload
<1> QED
  BY <1>2, <1>3, <1>4, <1>5, <1>6, <1>7, <1>8, <1>9, <1>10, <1>11 DEF F!Next

LEMMA OffloadStep == OffloadInv /\ [F!Next]_(F!files) => OffloadInv'
<1> SUFFICES ASSUME OffloadInv, [F!Next]_(F!files) PROVE OffloadInv'
  OBVIOUS
<1>1. ASSUME UNCHANGED <<offloads, saved, named, restarts>> PROVE OffloadInv'
  BY <1>1 DEF OffloadInv
<1>2. ASSUME NEW succeeds \in BOOLEAN, F!Offload(succeeds) PROVE OffloadInv'
  <2> DEFINE result == F!Cardinality(named) + 1
  <2>1. /\ offloads < MaxOffloads /\ offloads' = offloads + 1 /\ restarts' = restarts
        /\ \/ UNCHANGED <<saved, named>>
           \/ saved' = [saved EXCEPT ![offloads + 1] = result] /\ named' = named \cup {<<offloads + 1, result>>}
    BY <1>2 DEF F!Offload
  <2> HIDE DEF result
  <2>2. offloads \in Nat /\ DOMAIN saved = 1..MaxOffloads
    BY DEF OffloadInv
  <2>3. CASE UNCHANGED <<saved, named>>
    BY <2>1, <2>2, <2>3 DEF OffloadInv
  <2>4. CASE saved' = [saved EXCEPT ![offloads + 1] = result] /\ named' = named \cup {<<offloads + 1, result>>}
    <3>1. /\ DOMAIN saved' = 1..MaxOffloads /\ saved'[offloads + 1] = result
          /\ \A k \in 1..offloads : saved'[k] = saved[k]
      BY <2>1, <2>2, <2>4, TurnConstants
    <3>2. ASSUME ~restarts, NEW n \in named' PROVE n[1] \in 1..offloads' /\ saved'[n[1]] = n[2]
      <4>1. CASE n \in named
        BY <2>1, <2>2, <3>1, <3>2, <4>1 DEF OffloadInv
      <4>2. CASE n = <<offloads + 1, result>>
        <5>1. n[1] = offloads + 1 /\ n[2] = result
          BY <4>2
        <5> QED
          BY <2>1, <2>2, <3>1, <5>1
      <4> QED
        BY <2>4, <4>1, <4>2
    <3> QED
      BY <2>1, <2>2, <3>1, <3>2 DEF OffloadInv
  <2> QED
    BY <2>1, <2>3, <2>4
<1>3. ASSUME NEW r \in Runs, F!BeginRun(r) PROVE OffloadInv'
  BY <1>1, <1>3 DEF F!BeginRun, F!CounterAfterRun
<1>4. CASE F!Restart
  BY <1>4 DEF F!Restart, OffloadInv
<1>5. ASSUME NEW r \in Runs, F!ReadFile(r) \/ F!AskExists(r) PROVE OffloadInv'
  BY <1>1, <1>5 DEF F!ReadFile, F!AskExists, F!offloading
<1>6. ASSUME NEW r \in Runs, NEW readable \in BOOLEAN, F!Check(r, readable) PROVE OffloadInv'
  BY <1>1, <1>6 DEF F!Check, F!offloading
<1>7. ASSUME NEW r \in Runs, NEW outcome \in {"edited", "ambiguous", "unreadable"}, F!Edit(r, outcome)
      PROVE  OffloadInv'
  BY <1>1, <1>7 DEF F!Edit, F!offloading
<1>8. ASSUME NEW r \in Runs, NEW succeeds \in BOOLEAN, F!Write(r, succeeds) PROVE OffloadInv'
  BY <1>1, <1>8 DEF F!Write, F!offloading
<1>9. ASSUME NEW gone \in BOOLEAN, F!Outside(gone) PROVE OffloadInv'
  BY <1>1, <1>9 DEF F!Outside, F!offloading
<1>10. CASE UNCHANGED F!files
  BY <1>1, <1>10 DEF F!files
<1> QED
  BY <1>2, <1>3, <1>4, <1>5, <1>6, <1>7, <1>8, <1>9, <1>10 DEF F!Next

LEMMA FilesSound == EditsInv /\ OffloadInv => F!NothingOverwrittenUnseen /\ F!OffloadsAreKept
BY DEF EditsInv, OffloadInv, F!OffloadsAreKept

-----------------------------------------------------------------------------
\* Overlapping runs of a session. Only the run that is routed first is primed; a
\* run is among those that ended once its reply is final, and Minns has nothing of
\* a run whose message has still to be sent.
RunStages == {"idle", "before", "memory", "complexity", "tree", "loop", "critique", "after", "done"}

RunRecord == [at : RunStages, tier : {"none", "first", "any"}, seen : Nat,
              reply : {"none", "answer", "sentence", "rewritten"}, stop : A!Stops,
              sending : {"none", "user", "assistant", "sent"}]

Spoken == [message : {"none", "answer", "sentence", "rewritten"}, streamed : {"none", "answer"}]

SessionTyped ==
    /\ tree \in BOOLEAN
    /\ run \in [Runs -> RunRecord] /\ iterations \in Nat
    /\ told \in [Runs -> Spoken]
    /\ ended \in Seq(Runs \X BOOLEAN)
    /\ stored \in Seq(Runs \X {"user", "assistant"})
    /\ history \in Seq(Runs \X {"none", "answer", "sentence", "rewritten"})

Primed ==
    /\ \A r \in Runs : run[r].tier = "first" => iterations > 0
    /\ \A r, s \in Runs : run[r].tier = "first" /\ run[s].tier = "first" => r = s

SpokenIs(r) ==
    /\ run[r].at = "done" => told[r].streamed = "none"
    /\ run[r].at \notin {"after", "done"} => told[r].message = "none"
    /\ run[r].at = "critique" /\ told[r].streamed # "none" => run[r].reply = told[r].streamed
    /\ run[r].at = "after" =>
           /\ told[r].message = run[r].reply
           /\ told[r].streamed # "none" => told[r].message \in {told[r].streamed, "rewritten"}

Keeps(n) == IF n > MaxExchanges THEN MaxExchanges ELSE n

Remembers ==
    /\ \A i \in 1..Len(ended) : run[ended[i][1]].at = "done"
    /\ Len(history) = Keeps(Len(ended))
    /\ \A i \in 1..Len(history) :
           LET r == ended[Len(ended) - Len(history) + i][1] IN history[i] = <<r, told[r].message>>

Heard ==
    /\ \A i \in 1..Len(stored) : run[stored[i][1]].at = "done" /\ run[stored[i][1]].sending # "user"
    /\ A!HeardInOrder

LEMMA SessionStart ==
    A!Init => SessionTyped /\ Primed /\ (\A r \in Runs : SpokenIs(r)) /\ Remembers /\ Heard
<1> SUFFICES ASSUME A!Init PROVE SessionTyped /\ Primed /\ (\A r \in Runs : SpokenIs(r)) /\ Remembers /\ Heard
  OBVIOUS
<1>1. /\ run \in [Runs -> RunRecord] /\ told \in [Runs -> Spoken] /\ tree \in BOOLEAN /\ iterations = 0
      /\ ended = <<>> /\ stored = <<>> /\ history = <<>>
  BY DEF A!Init, RunRecord, RunStages, Spoken, A!Stops
<1>2. \A r \in Runs : run[r].at = "idle" /\ run[r].tier = "none" /\ told[r].message = "none"
  BY DEF A!Init
<1>3. SessionTyped
  BY <1>1 DEF SessionTyped
<1>4. Primed
  BY <1>2 DEF Primed
<1>5. \A r \in Runs : SpokenIs(r)
  BY <1>2 DEF SpokenIs
<1>6. Remembers
  BY <1>1, TurnConstants DEF Remembers, Keeps
<1>7. Heard
  BY <1>1 DEF Heard, A!HeardInOrder
<1> QED
  BY <1>3, <1>4, <1>5, <1>6, <1>7

\* What a step does to a run, and whom it concerns.
LEMMA RunSteps ==
    ASSUME SessionTyped, NEW r \in Runs,
           A!Begin(r) \/ A!Advance(r)
             \/ \E role \in {"user", "assistant"}, arrives \in BOOLEAN : A!Ingest(r, role, arrives)
    PROVE  /\ SessionTyped'
           /\ \A o \in Runs \ {r} : run'[o] = run[o] /\ told'[o] = told[o]
<1>0. /\ run[r] \in RunRecord /\ run \in [Runs -> RunRecord] /\ told \in [Runs -> Spoken] /\ iterations \in Nat
      /\ tree \in BOOLEAN
  BY DEF SessionTyped
<1>1. CASE A!Begin(r)
  <2>1. /\ run' = [run EXCEPT ![r].at = "before", ![r].seen = iterations]
        /\ UNCHANGED <<tree, iterations, history, told, ended, stored>>
    BY <1>1 DEF A!Begin
  <2> DEFINE first == [run EXCEPT ![r].at = "before"]
  <2>2. first \in [Runs -> RunRecord] /\ \A o \in Runs \ {r} : first[o] = run[o]
    BY <1>0 DEF RunRecord, RunStages
  <2>3. run' = [first EXCEPT ![r].seen = iterations]
    BY <2>1
  <2> HIDE DEF first
  <2>4. run' \in [Runs -> RunRecord] /\ \A o \in Runs \ {r} : run'[o] = run[o]
    BY <1>0, <2>2, <2>3 DEF RunRecord
  <2> QED
    BY <2>1, <2>4 DEF SessionTyped
<1>2. ASSUME NEW text \in A!Messages, A!Route(r, text)
      PROVE  SessionTyped' /\ \A o \in Runs \ {r} : run'[o] = run[o] /\ told'[o] = told[o]
  <2>1. PICK stage \in RunStages, tier \in {"first", "any"} :
            run' = [run EXCEPT ![r].at = stage, ![r].tier = tier, ![r].seen = 0]
    BY <1>2 DEF A!Route, RunStages
  <2>2. iterations' = iterations + 1 /\ UNCHANGED <<tree, history, told, ended, stored>>
    BY <1>2 DEF A!Route
  <2> DEFINE first == [run EXCEPT ![r].at = stage]
             second == [first EXCEPT ![r].tier = tier]
  <2>3. first \in [Runs -> RunRecord] /\ \A o \in Runs \ {r} : first[o] = run[o]
    BY <1>0 DEF RunRecord
  <2>4. run' = [second EXCEPT ![r].seen = 0]
    BY <2>1
  <2> HIDE DEF first
  <2>5. second \in [Runs -> RunRecord] /\ \A o \in Runs \ {r} : second[o] = run[o]
    BY <2>3 DEF RunRecord
  <2> HIDE DEF second
  <2>6. run' \in [Runs -> RunRecord] /\ \A o \in Runs \ {r} : run'[o] = run[o]
    BY <2>4, <2>5 DEF RunRecord
  <2>7. iterations' \in Nat
    BY <1>0, <2>2
  <2> QED
    BY <2>2, <2>6, <2>7 DEF SessionTyped
<1>3. CASE A!Memory(r) \/ A!Complexity(r) \/ A!TreeSearch(r)
  <2>1. PICK stage \in RunStages : run' = [run EXCEPT ![r].at = stage]
    BY <1>3 DEF A!Memory, A!Complexity, A!TreeSearch, RunStages
  <2>2. UNCHANGED <<tree, iterations, history, told, ended, stored>>
    BY <1>3 DEF A!Memory, A!Complexity, A!TreeSearch
  <2>3. run' \in [Runs -> RunRecord] /\ \A o \in Runs \ {r} : run'[o] = run[o]
    BY <1>0, <2>1 DEF RunRecord
  <2> QED
    BY <2>2, <2>3 DEF SessionTyped
<1>4. ASSUME NEW stop \in A!Stops, NEW answers \in BOOLEAN, NEW streams \in BOOLEAN, A!Loop(r, stop, answers, streams)
      PROVE  SessionTyped' /\ \A o \in Runs \ {r} : run'[o] = run[o] /\ told'[o] = told[o]
  <2>1. PICK given \in {"answer", "sentence"} :
            run' = [run EXCEPT ![r].at = "critique", ![r].reply = given, ![r].stop = stop]
    BY <1>4 DEF A!Loop
  <2>2. PICK streamed \in {"answer", "none"} : told' = [told EXCEPT ![r].streamed = streamed]
    BY <1>4 DEF A!Loop
  <2>20. UNCHANGED <<tree, iterations, history, ended, stored>>
    BY <1>4 DEF A!Loop
  <2> DEFINE first == [run EXCEPT ![r].at = "critique"]
             second == [first EXCEPT ![r].reply = given]
  <2>3. first \in [Runs -> RunRecord] /\ \A o \in Runs \ {r} : first[o] = run[o]
    BY <1>0 DEF RunRecord, RunStages
  <2>4. run' = [second EXCEPT ![r].stop = stop]
    BY <2>1
  <2> HIDE DEF first
  <2>5. second \in [Runs -> RunRecord] /\ \A o \in Runs \ {r} : second[o] = run[o]
    BY <2>3 DEF RunRecord
  <2> HIDE DEF second
  <2>6. run' \in [Runs -> RunRecord] /\ \A o \in Runs \ {r} : run'[o] = run[o]
    BY <2>4, <2>5 DEF RunRecord
  <2>7. told' \in [Runs -> Spoken] /\ \A o \in Runs \ {r} : told'[o] = told[o]
    BY <1>0, <2>2 DEF Spoken
  <2> QED
    BY <2>20, <2>6, <2>7 DEF SessionTyped
<1>5. ASSUME NEW verdict \in {"approves", "rewrites", "rejects", "throws"}, A!Critique(r, verdict)
      PROVE  SessionTyped' /\ \A o \in Runs \ {r} : run'[o] = run[o] /\ told'[o] = told[o]
  <2>1. PICK final \in {"none", "answer", "sentence", "rewritten"} :
            /\ run' = [run EXCEPT ![r].at = "after", ![r].reply = final]
            /\ told' = [told EXCEPT ![r].message = final]
    BY <1>0, <1>5 DEF A!Critique, RunRecord
  <2>2. UNCHANGED <<tree, iterations, history, ended, stored>>
    BY <1>5 DEF A!Critique
  <2> DEFINE first == [run EXCEPT ![r].at = "after"]
  <2>3. first \in [Runs -> RunRecord] /\ \A o \in Runs \ {r} : first[o] = run[o]
    BY <1>0 DEF RunRecord, RunStages
  <2>4. run' = [first EXCEPT ![r].reply = final]
    BY <2>1
  <2> HIDE DEF first
  <2>5. run' \in [Runs -> RunRecord] /\ \A o \in Runs \ {r} : run'[o] = run[o]
    BY <2>3, <2>4 DEF RunRecord
  <2>6. told' \in [Runs -> Spoken] /\ \A o \in Runs \ {r} : told'[o] = told[o]
    BY <1>0, <2>1 DEF Spoken
  <2> QED
    BY <2>2, <2>5, <2>6 DEF SessionTyped
<1>6. CASE A!Finish(r)
  <2>1. /\ run' = [run EXCEPT ![r].at = "done", ![r].sending = "user", ![r].reply = "none", ![r].stop = "done"]
        /\ told' = [told EXCEPT ![r].streamed = "none"]
        /\ UNCHANGED <<tree, iterations, stored>>
        /\ history' = A!Bounded(Append(history, <<r, run[r].reply>>))
    BY <1>6 DEF A!Finish, A!Remembered
  <2>10. ended' = Append(ended, <<r, A!Succeeds(r)>>) /\ A!Succeeds(r) \in BOOLEAN
    BY <1>6 DEF A!Finish, A!Succeeds
  <2> DEFINE first == [run EXCEPT ![r].at = "done"]
             second == [first EXCEPT ![r].sending = "user"]
             third == [second EXCEPT ![r].reply = "none"]
  <2>2. first \in [Runs -> RunRecord] /\ \A o \in Runs \ {r} : first[o] = run[o]
    BY <1>0 DEF RunRecord, RunStages
  <2>3. run' = [third EXCEPT ![r].stop = "done"]
    BY <2>1
  <2> HIDE DEF first
  <2>4. second \in [Runs -> RunRecord] /\ \A o \in Runs \ {r} : second[o] = run[o]
    BY <2>2 DEF RunRecord
  <2> HIDE DEF second
  <2>5. third \in [Runs -> RunRecord] /\ \A o \in Runs \ {r} : third[o] = run[o]
    BY <2>4 DEF RunRecord
  <2> HIDE DEF third
  <2>6. run' \in [Runs -> RunRecord] /\ \A o \in Runs \ {r} : run'[o] = run[o]
    BY <2>3, <2>5 DEF RunRecord, A!Stops
  <2>7. told' \in [Runs -> Spoken] /\ \A o \in Runs \ {r} : told'[o] = told[o]
    BY <1>0, <2>1 DEF Spoken
  <2>8. ended' \in Seq(Runs \X BOOLEAN)
    <3> DEFINE entry == <<r, A!Succeeds(r)>>
    <3>1. entry \in Runs \X BOOLEAN
      BY <2>10
    <3> HIDE DEF entry
    <3>2. ended \in Seq(Runs \X BOOLEAN)
      BY DEF SessionTyped
    <3>3. Append(ended, entry) \in Seq(Runs \X BOOLEAN)
      BY <3>1, <3>2
    <3> QED
      BY <2>10, <3>3 DEF entry
  <2>9. history' \in Seq(Runs \X {"none", "answer", "sentence", "rewritten"})
    <3> DEFINE Entries == Runs \X {"none", "answer", "sentence", "rewritten"}
               entry == <<r, run[r].reply>>
    <3>1. entry \in Entries
      BY <1>0 DEF RunRecord
    <3> HIDE DEF entry
    <3>2. history \in Seq(Entries)
      BY DEF SessionTyped
    <3> HIDE DEF Entries
    <3>3. Append(history, entry) \in Seq(Entries) /\ Append(history, entry) # <<>>
      BY <3>1, <3>2
    <3>4. Tail(Append(history, entry)) \in Seq(Entries)
      BY <3>3
    <3>5. history' \in Seq(Entries)
      BY <2>1, <3>3, <3>4 DEF A!Bounded, entry
    <3> QED
      BY <3>5 DEF Entries
  <2> QED
    BY <2>1, <2>6, <2>7, <2>8, <2>9 DEF SessionTyped
<1>7. ASSUME NEW role \in {"user", "assistant"}, NEW arrives \in BOOLEAN, A!Ingest(r, role, arrives)
      PROVE  SessionTyped' /\ \A o \in Runs \ {r} : run'[o] = run[o] /\ told'[o] = told[o]
  <2>1. PICK next \in {"assistant", "sent"} : run' = [run EXCEPT ![r].sending = next]
    BY <1>7 DEF A!Ingest
  <2>2. UNCHANGED <<tree, iterations, history, told, ended>> /\ (stored' = stored \/ stored' = Append(stored, <<r, role>>))
    BY <1>7 DEF A!Ingest
  <2>3. run' \in [Runs -> RunRecord] /\ \A o \in Runs \ {r} : run'[o] = run[o]
    BY <1>0, <2>1 DEF RunRecord
  <2>4. stored' \in Seq(Runs \X {"user", "assistant"})
    <3> DEFINE entry == <<r, role>>
    <3>1. entry \in Runs \X {"user", "assistant"}
      OBVIOUS
    <3>2. stored \in Seq(Runs \X {"user", "assistant"})
      BY DEF SessionTyped
    <3> HIDE DEF entry
    <3>3. Append(stored, entry) \in Seq(Runs \X {"user", "assistant"})
      BY <3>1, <3>2
    <3> QED
      BY <2>2, <3>2, <3>3 DEF entry
  <2> QED
    BY <2>2, <2>3, <2>4 DEF SessionTyped
<1> QED
  BY <1>1, <1>2, <1>3, <1>4, <1>5, <1>6, <1>7 DEF A!Advance

\* No second run is primed: the one that is has been counted.
LEMMA PrimedStep ==
    ASSUME SessionTyped, Primed, NEW r \in Runs,
           A!Begin(r) \/ A!Advance(r)
             \/ \E role \in {"user", "assistant"}, arrives \in BOOLEAN : A!Ingest(r, role, arrives)
    PROVE  Primed'
<1>0. /\ run[r] \in RunRecord /\ run \in [Runs -> RunRecord] /\ iterations \in Nat
      /\ \A o \in Runs \ {r} : run'[o] = run[o]
  <2>1. SessionTyped' /\ \A o \in Runs \ {r} : run'[o] = run[o] /\ told'[o] = told[o]
    BY RunSteps
  <2> QED
    BY <2>1 DEF SessionTyped
<1>1. ASSUME NEW text \in A!Messages, A!Route(r, text) PROVE Primed'
  <2>1. iterations' > 0
    BY <1>0, <1>1 DEF A!Route
  <2>2. run'[r].tier = "first" => iterations = 0
    BY <1>0, <1>1 DEF A!Route, A!RouteExecution, A!CountNow, RunRecord
  <2>3. iterations = 0 => \A o \in Runs : run[o].tier # "first"
    BY DEF Primed
  <2> QED
    BY <1>0, <2>1, <2>2, <2>3 DEF Primed
<1>2. ASSUME iterations' = iterations, run'[r].tier = run[r].tier PROVE Primed'
  BY <1>0, <1>2 DEF Primed
<1>3. CASE A!Begin(r) \/ A!Memory(r) \/ A!Complexity(r) \/ A!TreeSearch(r)
  BY <1>0, <1>2, <1>3 DEF A!Begin, A!Memory, A!Complexity, A!TreeSearch, RunRecord
<1>4. ASSUME NEW stop \in A!Stops, NEW answers \in BOOLEAN, NEW streams \in BOOLEAN, A!Loop(r, stop, answers, streams)
      PROVE  Primed'
  BY <1>0, <1>2, <1>4 DEF A!Loop, RunRecord
<1>5. ASSUME NEW verdict \in {"approves", "rewrites", "rejects", "throws"}, A!Critique(r, verdict) PROVE Primed'
  BY <1>0, <1>2, <1>5 DEF A!Critique, RunRecord
<1>6. CASE A!Finish(r)
  <2>1. run' = [run EXCEPT ![r].at = "done", ![r].sending = "user", ![r].reply = "none", ![r].stop = "done"]
    BY <1>6 DEF A!Finish
  <2>2. run'[r].tier = run[r].tier
    BY <1>0, <2>1 DEF RunRecord
  <2> QED
    BY <1>2, <1>6, <2>2 DEF A!Finish
<1>7. ASSUME NEW role \in {"user", "assistant"}, NEW arrives \in BOOLEAN, A!Ingest(r, role, arrives) PROVE Primed'
  BY <1>0, <1>2, <1>7 DEF A!Ingest, RunRecord
<1> QED
  BY <1>1, <1>3, <1>4, <1>5, <1>6, <1>7 DEF A!Advance

LEMMA PrimedSound == Primed => A!PrimedOnce
<1> DEFINE First == {r \in Runs : run[r].tier = "first"}
<1>0. \A a : A!Cardinality(a) = Cardinality(a)
  BY DEF A!Cardinality, Cardinality
<1> SUFFICES ASSUME Primed PROVE Cardinality(First) <= 1
  BY <1>0 DEF A!PrimedOnce
<1>1. CASE First = {}
  BY <1>1, FS_EmptySet
<1>2. CASE First # {}
  <2>1. PICK r \in First : TRUE
    BY <1>2
  <2>2. First = {r}
    BY <2>1 DEF Primed
  <2>3. Cardinality({r}) = 1
    BY FS_Singleton
  <2> HIDE DEF First
  <2> QED
    BY <2>2, <2>3
<1> QED
  BY <1>1, <1>2

\* A run's words agree, whoever else runs.
LEMMA SpokenStep ==
    ASSUME SessionTyped, \A o \in Runs : SpokenIs(o), NEW r \in Runs,
           A!Begin(r) \/ A!Advance(r)
             \/ \E role \in {"user", "assistant"}, arrives \in BOOLEAN : A!Ingest(r, role, arrives)
    PROVE  \A o \in Runs : SpokenIs(o)'
<1>0. /\ run[r] \in RunRecord /\ run \in [Runs -> RunRecord] /\ told \in [Runs -> Spoken] /\ told[r] \in Spoken
      /\ SpokenIs(r)
  BY DEF SessionTyped
<1>01. \A o \in Runs \ {r} : run'[o] = run[o] /\ told'[o] = told[o]
  BY RunSteps
<1> SUFFICES SpokenIs(r)'
  BY <1>01 DEF SpokenIs
<1>1. ASSUME run[r].at \notin {"after", "done"}, run'[r].at \notin {"critique", "after", "done"}, told' = told
      PROVE  SpokenIs(r)'
  BY <1>0, <1>1 DEF SpokenIs
<1>2. CASE A!Begin(r)
  <2>1. run'[r].at = "before"
    BY <1>0, <1>2 DEF A!Begin, RunRecord
  <2> QED
    BY <1>1, <1>2, <2>1 DEF A!Begin
<1>3. ASSUME NEW text \in A!Messages, A!Route(r, text) PROVE SpokenIs(r)'
  <2>1. run'[r].at \in {"memory", "loop"}
    BY <1>0, <1>3 DEF A!Route, RunRecord
  <2> QED
    BY <1>1, <1>3, <2>1 DEF A!Route
<1>4. CASE A!Memory(r) \/ A!Complexity(r) \/ A!TreeSearch(r)
  <2>1. run'[r].at \in {"complexity", "loop", "tree"}
    BY <1>0, <1>4 DEF A!Memory, A!Complexity, A!TreeSearch, RunRecord
  <2> QED
    BY <1>1, <1>4, <2>1 DEF A!Memory, A!Complexity, A!TreeSearch
<1>5. ASSUME NEW stop \in A!Stops, NEW answers \in BOOLEAN, NEW streams \in BOOLEAN, A!Loop(r, stop, answers, streams)
      PROVE  SpokenIs(r)'
  <2>1. run'[r].at = "critique" /\ run'[r].reply = IF answers THEN "answer" ELSE "sentence"
    BY <1>0, <1>5 DEF A!Loop, RunRecord
  <2>2. told'[r].message = told[r].message /\ told'[r].streamed = IF streams THEN "answer" ELSE "none"
    BY <1>0, <1>5 DEF A!Loop, Spoken
  <2>3. told[r].message = "none" /\ (streams => answers)
    BY <1>0, <1>5 DEF A!Loop, SpokenIs
  <2> QED
    BY <2>1, <2>2, <2>3 DEF SpokenIs
<1>6. ASSUME NEW verdict \in {"approves", "rewrites", "rejects", "throws"}, A!Critique(r, verdict) PROVE SpokenIs(r)'
  <2>1. run[r].at = "critique" /\ run'[r].at = "after"
    BY <1>0, <1>6 DEF A!Critique, RunRecord
  <2>2. PICK final \in {run[r].reply, "rewritten"} :
            /\ run' = [run EXCEPT ![r].at = "after", ![r].reply = final]
            /\ told' = [told EXCEPT ![r].message = final]
    BY <1>6 DEF A!Critique
  <2>3. told'[r].message = final /\ told'[r].streamed = told[r].streamed
    BY <1>0, <2>2 DEF Spoken
  <2>4. run'[r].reply = final
    BY <1>0, <2>2 DEF RunRecord
  <2> QED
    BY <1>0, <2>1, <2>2, <2>3, <2>4 DEF SpokenIs
<1>7. CASE A!Finish(r)
  <2>1. /\ run' = [run EXCEPT ![r].at = "done", ![r].sending = "user", ![r].reply = "none", ![r].stop = "done"]
        /\ told' = [told EXCEPT ![r].streamed = "none"]
    BY <1>7 DEF A!Finish
  <2>2. run'[r].at = "done"
    BY <1>0, <2>1 DEF RunRecord
  <2>3. told'[r].streamed = "none"
    BY <1>0, <2>1 DEF Spoken
  <2> QED
    BY <2>2, <2>3 DEF SpokenIs
<1>8. ASSUME NEW role \in {"user", "assistant"}, NEW arrives \in BOOLEAN, A!Ingest(r, role, arrives) PROVE SpokenIs(r)'
  <2>1. run[r].at = "done" /\ run'[r].at = "done" /\ told' = told
    BY <1>0, <1>8 DEF A!Ingest, RunRecord
  <2> QED
    BY <1>0, <2>1 DEF SpokenIs
<1> QED
  BY <1>2, <1>3, <1>4, <1>5, <1>6, <1>7, <1>8 DEF A!Advance

\* The history follows the runs that end.
LEMMA RemembersStep ==
    ASSUME SessionTyped, \A o \in Runs : SpokenIs(o), Remembers, NEW r \in Runs,
           A!Begin(r) \/ A!Advance(r)
             \/ \E role \in {"user", "assistant"}, arrives \in BOOLEAN : A!Ingest(r, role, arrives)
    PROVE  Remembers'
<1>0. /\ run[r] \in RunRecord /\ run \in [Runs -> RunRecord] /\ told \in [Runs -> Spoken]
      /\ ended \in Seq(Runs \X BOOLEAN) /\ history \in Seq(Runs \X {"none", "answer", "sentence", "rewritten"})
      /\ Len(ended) \in Nat /\ Len(history) \in Nat
  BY DEF SessionTyped
<1>01. \A o \in Runs \ {r} : run'[o] = run[o] /\ told'[o] = told[o]
  BY RunSteps
<1>02. \A i \in 1..Len(ended) : ended[i][1] \in Runs /\ run[ended[i][1]].at = "done"
  BY <1>0 DEF Remembers
<1>03. Len(history) <= Len(ended)
  BY <1>0, TurnConstants DEF Remembers, Keeps
<1>1. ASSUME UNCHANGED <<history, ended>>, run[r].at = "done" => run'[r].at = "done" /\ told'[r].message = told[r].message
      PROVE  Remembers'
  <2>1. \A o \in Runs : run[o].at = "done" => run'[o].at = "done" /\ told'[o].message = told[o].message
    BY <1>01, <1>1
  <2>2. \A i \in 1..Len(ended) : run'[ended[i][1]].at = "done" /\ told'[ended[i][1]].message = told[ended[i][1]].message
    BY <1>02, <2>1
  <2>3. \A i \in 1..Len(history) : Len(ended) - Len(history) + i \in 1..Len(ended)
    BY <1>0, <1>03
  <2> QED
    BY <1>1, <2>2, <2>3 DEF Remembers
<1>2. CASE A!Begin(r)
  BY <1>1, <1>2 DEF A!Begin
<1>3. ASSUME NEW text \in A!Messages, A!Route(r, text) PROVE Remembers'
  BY <1>1, <1>3 DEF A!Route
<1>4. CASE A!Memory(r) \/ A!Complexity(r) \/ A!TreeSearch(r)
  BY <1>1, <1>4 DEF A!Memory, A!Complexity, A!TreeSearch
<1>5. ASSUME NEW stop \in A!Stops, NEW answers \in BOOLEAN, NEW streams \in BOOLEAN, A!Loop(r, stop, answers, streams)
      PROVE  Remembers'
  BY <1>1, <1>5 DEF A!Loop
<1>6. ASSUME NEW verdict \in {"approves", "rewrites", "rejects", "throws"}, A!Critique(r, verdict) PROVE Remembers'
  BY <1>1, <1>6 DEF A!Critique
<1>7. CASE A!Finish(r)
  <2> DEFINE exchange == <<r, run[r].reply>>
             longer == Append(history, exchange)
             outcome == <<r, A!Succeeds(r)>>
  <2>1. /\ run[r].at = "after"
        /\ run' = [run EXCEPT ![r].at = "done", ![r].sending = "user", ![r].reply = "none", ![r].stop = "done"]
        /\ told' = [told EXCEPT ![r].streamed = "none"]
        /\ history' = A!Bounded(longer)
        /\ ended' = Append(ended, outcome)
    BY <1>7 DEF A!Finish, A!Remembered
  <2>2. run'[r].at = "done"
    BY <1>0, <2>1 DEF RunRecord
  <2>3. told'[r].message = told[r].message
    BY <1>0, <2>1 DEF Spoken
  <2>4. exchange = <<r, told'[r].message>>
    BY <1>0, <2>1, <2>3 DEF SpokenIs
  <2>40. outcome[1] = r
    OBVIOUS
  <2> HIDE DEF exchange, outcome
  <2>5. /\ Len(ended') = Len(ended) + 1 /\ ended'[Len(ended) + 1] = outcome
        /\ \A i \in 1..Len(ended) : ended'[i] = ended[i]
    BY <1>0, <2>1
  <2>6. /\ Len(longer) = Len(history) + 1 /\ longer[Len(history) + 1] = exchange
        /\ \A i \in 1..Len(history) : longer[i] = history[i]
    BY <1>0
  <2>7. \A i \in 1..Len(ended') : run'[ended'[i][1]].at = "done"
    <3>1. ASSUME NEW i \in 1..Len(ended') PROVE run'[ended'[i][1]].at = "done"
      <4>1. CASE i = Len(ended) + 1
        BY <2>2, <2>40, <2>5, <4>1
      <4>2. CASE i \in 1..Len(ended)
        <5>1. ended'[i] = ended[i] /\ ended[i][1] \in Runs /\ run[ended[i][1]].at = "done"
          BY <1>02, <2>5, <4>2
        <5> QED
          BY <1>01, <2>2, <5>1
      <4> QED
        BY <1>0, <2>5, <3>1, <4>1, <4>2
    <3> QED
      BY <3>1
  <2> DEFINE d == Len(ended) - Len(history)
  <2>8. \A i \in 1..Len(longer) :
            longer[i] = <<ended'[d + i][1], told'[ended'[d + i][1]].message>>
    <3>1. ASSUME NEW i \in 1..Len(longer)
          PROVE  longer[i] = <<ended'[d + i][1], told'[ended'[d + i][1]].message>>
      <4>1. CASE i = Len(history) + 1
        <5>1. d + i = Len(ended) + 1
          BY <1>0, <4>1
        <5> QED
          BY <2>4, <2>40, <2>5, <2>6, <4>1, <5>1
      <4>2. CASE i \in 1..Len(history)
        <5>1. d + i \in 1..Len(ended)
          BY <1>0, <1>03, <4>2
        <5>2. longer[i] = history[i] /\ ended'[d + i] = ended[d + i] /\ ended[d + i][1] \in Runs
          BY <1>02, <2>5, <2>6, <4>2, <5>1
        <5>3. history[i] = <<ended[d + i][1], told[ended[d + i][1]].message>>
          BY <4>2 DEF Remembers
        <5>4. told'[ended[d + i][1]].message = told[ended[d + i][1]].message
          BY <1>01, <2>3, <5>2
        <5> QED
          BY <5>2, <5>3, <5>4
      <4> QED
        BY <1>0, <2>6, <3>1, <4>1, <4>2
    <3> QED
      BY <3>1
  <2>9. longer \in Seq(Runs \X {"none", "answer", "sentence", "rewritten"}) /\ Len(longer) \in Nat
    <3>1. exchange \in Runs \X {"none", "answer", "sentence", "rewritten"}
      BY <1>0 DEF RunRecord, exchange
    <3> QED
      BY <1>0, <3>1
  <2> HIDE DEF longer
  <2>10. CASE Len(longer) > MaxExchanges
    <3>1. history' = Tail(longer)
      BY <2>1, <2>10 DEF A!Bounded
    <3>2. Len(longer) > 0
      BY <1>0, <2>6
    <3>3. Len(history') = Len(longer) - 1 /\ \A i \in 1..Len(history') : history'[i] = longer[i + 1]
      BY <2>9, <3>1, <3>2
    <3>4. Len(history) = MaxExchanges /\ Len(history') = MaxExchanges /\ Keeps(Len(ended')) = MaxExchanges
      BY <1>0, <1>03, <2>5, <2>6, <2>10, <3>3, TurnConstants DEF Remembers, Keeps
    <3>5. ASSUME NEW i \in 1..Len(history')
          PROVE  LET o == ended'[Len(ended') - Len(history') + i][1] IN history'[i] = <<o, told'[o].message>>
      <4>1. i + 1 \in 1..Len(longer) /\ Len(ended') - Len(history') + i = d + (i + 1)
        BY <1>0, <2>5, <2>9, <3>3, <3>4
      <4> QED
        BY <2>8, <3>3, <4>1
    <3> QED
      BY <2>7, <3>4, <3>5 DEF Remembers
  <2>11. CASE ~(Len(longer) > MaxExchanges)
    <3>1. history' = longer
      BY <2>1, <2>11 DEF A!Bounded
    <3>2. Len(history) = Len(ended) /\ Keeps(Len(ended')) = Len(ended') /\ Len(history') = Len(ended')
      BY <1>0, <1>03, <2>5, <2>6, <2>11, <3>1, TurnConstants DEF Remembers, Keeps
    <3>3. ASSUME NEW i \in 1..Len(history')
          PROVE  LET o == ended'[Len(ended') - Len(history') + i][1] IN history'[i] = <<o, told'[o].message>>
      <4>1. i \in 1..Len(longer) /\ Len(ended') - Len(history') + i = d + i
        BY <1>0, <2>5, <2>9, <3>1, <3>2
      <4> QED
        BY <2>8, <3>1, <4>1
    <3> QED
      BY <2>7, <3>2, <3>3 DEF Remembers
  <2> QED
    BY <2>10, <2>11
<1>8. ASSUME NEW role \in {"user", "assistant"}, NEW arrives \in BOOLEAN, A!Ingest(r, role, arrives) PROVE Remembers'
  <2>1. run'[r].at = run[r].at
    BY <1>0, <1>8 DEF A!Ingest, RunRecord
  <2> QED
    BY <1>1, <1>8, <2>1 DEF A!Ingest
<1> QED
  BY <1>2, <1>3, <1>4, <1>5, <1>6, <1>7, <1>8 DEF A!Advance

\* A message is sent before its reply.
LEMMA HeardStep ==
    ASSUME SessionTyped, Heard, NEW r \in Runs,
           A!Begin(r) \/ A!Advance(r)
             \/ \E role \in {"user", "assistant"}, arrives \in BOOLEAN : A!Ingest(r, role, arrives)
    PROVE  Heard'
<1>0. /\ run[r] \in RunRecord /\ run \in [Runs -> RunRecord]
      /\ stored \in Seq(Runs \X {"user", "assistant"}) /\ Len(stored) \in Nat
  BY DEF SessionTyped
<1>01. \A o \in Runs \ {r} : run'[o] = run[o] /\ told'[o] = told[o]
  BY RunSteps
<1>02. \A i \in 1..Len(stored) : /\ stored[i][1] \in Runs /\ run[stored[i][1]].at = "done"
                                 /\ run[stored[i][1]].sending # "user"
  BY <1>0 DEF Heard
<1>1. ASSUME run[r].at # "done", stored' = stored PROVE Heard'
  <2>1. \A i \in 1..Len(stored) : run'[stored[i][1]] = run[stored[i][1]]
    BY <1>01, <1>02, <1>1
  <2>2. A!HeardInOrder'
    BY <1>1 DEF Heard, A!HeardInOrder
  <2> QED
    BY <1>1, <2>1, <2>2 DEF Heard
<1>2. CASE A!Begin(r)
  BY <1>1, <1>2 DEF A!Begin
<1>3. ASSUME NEW text \in A!Messages, A!Route(r, text) PROVE Heard'
  BY <1>1, <1>3 DEF A!Route
<1>4. CASE A!Memory(r) \/ A!Complexity(r) \/ A!TreeSearch(r)
  BY <1>1, <1>4 DEF A!Memory, A!Complexity, A!TreeSearch
<1>5. ASSUME NEW stop \in A!Stops, NEW answers \in BOOLEAN, NEW streams \in BOOLEAN, A!Loop(r, stop, answers, streams)
      PROVE  Heard'
  BY <1>1, <1>5 DEF A!Loop
<1>6. ASSUME NEW verdict \in {"approves", "rewrites", "rejects", "throws"}, A!Critique(r, verdict) PROVE Heard'
  BY <1>1, <1>6 DEF A!Critique
<1>7. CASE A!Finish(r)
  BY <1>1, <1>7 DEF A!Finish
<1>8. ASSUME NEW role \in {"user", "assistant"}, NEW arrives \in BOOLEAN, A!Ingest(r, role, arrives) PROVE Heard'
  <2>1. /\ run[r].at = "done" /\ role = run[r].sending
        /\ run' = [run EXCEPT ![r].sending = IF run[r].sending = "user" THEN "assistant" ELSE "sent"]
        /\ stored' = stored \/ stored' = Append(stored, <<r, role>>)
    BY <1>8 DEF A!Ingest, A!Sendable
  <2>2. run'[r].at = "done" /\ run'[r].sending # "user"
    BY <1>0, <2>1 DEF RunRecord
  <2>3. \A i \in 1..Len(stored) : run'[stored[i][1]].at = "done" /\ run'[stored[i][1]].sending # "user"
    BY <1>01, <1>02, <2>2
  <2>4. CASE stored' = stored
    BY <2>3, <2>4 DEF Heard, A!HeardInOrder
  <2>5. CASE stored' = Append(stored, <<r, role>>)
    <3> DEFINE entry == <<r, role>>
    <3>1. entry[1] = r /\ entry[2] = role /\ stored' = Append(stored, entry)
      BY <2>5
    <3> HIDE DEF entry
    <3>2. /\ Len(stored') = Len(stored) + 1 /\ DOMAIN stored' = 1..(Len(stored) + 1)
          /\ stored'[Len(stored) + 1] = entry /\ \A i \in 1..Len(stored) : stored'[i] = stored[i]
      BY <1>0, <3>1
    <3>3. \A i \in 1..Len(stored') : run'[stored'[i][1]].at = "done" /\ run'[stored'[i][1]].sending # "user"
      <4>1. ASSUME NEW i \in 1..Len(stored')
            PROVE  run'[stored'[i][1]].at = "done" /\ run'[stored'[i][1]].sending # "user"
        <5>1. CASE i = Len(stored) + 1
          BY <2>2, <3>1, <3>2, <5>1
        <5>2. CASE i \in 1..Len(stored)
          BY <2>3, <3>2, <5>2
        <5> QED
          BY <1>0, <3>2, <4>1, <5>1, <5>2
      <4> QED
        BY <4>1
    <3>4. ASSUME NEW i \in DOMAIN stored', NEW j \in DOMAIN stored',
                 stored'[i][1] = stored'[j][1], stored'[i][2] = "user", stored'[j][2] = "assistant"
          PROVE  i < j
      <4>1. i # j
        BY <3>4
      <4>2. CASE j = Len(stored) + 1
        BY <1>0, <3>2, <3>4, <4>1, <4>2
      <4>3. CASE i = Len(stored) + 1 /\ j \in 1..Len(stored)
        <5>1. stored[j][1] = r /\ role = "user"
          BY <3>1, <3>2, <3>4, <4>3
        <5> QED
          BY <1>02, <2>1, <4>3, <5>1
      <4>4. CASE i \in 1..Len(stored) /\ j \in 1..Len(stored)
        <5>1. i \in DOMAIN stored /\ j \in DOMAIN stored
          BY <1>0, <4>4
        <5> QED
          BY <3>2, <3>4, <4>4, <5>1 DEF Heard, A!HeardInOrder
      <4> QED
        BY <1>0, <3>2, <3>4, <4>2, <4>3, <4>4
    <3> QED
      BY <3>3, <3>4 DEF Heard, A!HeardInOrder
  <2> QED
    BY <2>1, <2>4, <2>5
<1> QED
  BY <1>2, <1>3, <1>4, <1>5, <1>6, <1>7, <1>8 DEF A!Advance

SessionInv == SessionTyped /\ Primed /\ (\A r \in Runs : SpokenIs(r)) /\ Remembers /\ Heard

LEMMA SessionStep == SessionInv /\ [A!Next]_(A!turnVars) => SessionInv'
<1> SUFFICES ASSUME SessionInv, [A!Next]_(A!turnVars) PROVE SessionInv'
  OBVIOUS
<1>0. SessionTyped /\ Primed /\ (\A r \in Runs : SpokenIs(r)) /\ Remembers /\ Heard
  BY DEF SessionInv
<1>1. CASE A!Next
  <2>1. PICK r \in Runs : A!Begin(r) \/ A!Advance(r)
             \/ \E role \in {"user", "assistant"}, arrives \in BOOLEAN : A!Ingest(r, role, arrives)
    BY <1>1 DEF A!Next
  <2>2. SessionTyped'
    BY <1>0, <2>1, RunSteps
  <2>3. Primed'
    BY <1>0, <2>1, PrimedStep
  <2>4. \A o \in Runs : SpokenIs(o)'
    BY <1>0, <2>1, SpokenStep
  <2>5. Remembers'
    BY <1>0, <2>1, RemembersStep
  <2>6. Heard'
    BY <1>0, <2>1, HeardStep
  <2> QED
    BY <2>2, <2>3, <2>4, <2>5, <2>6 DEF SessionInv
<1>2. CASE UNCHANGED A!turnVars
  <2>1. UNCHANGED <<tree, run, iterations, history, told, ended, stored>>
    BY <1>2 DEF A!turnVars
  <2>2. SessionTyped'
    BY <1>0, <2>1 DEF SessionTyped
  <2>3. Primed' /\ \A o \in Runs : SpokenIs(o)'
    BY <1>0, <2>1 DEF Primed, SpokenIs
  <2>4. Remembers' /\ Heard'
    BY <1>0, <2>1 DEF Remembers, Heard, A!HeardInOrder
  <2> QED
    BY <2>2, <2>3, <2>4 DEF SessionInv
<1> QED
  BY <1>1, <1>2

LEMMA SessionSound == SessionInv => A!PrimedOnce /\ A!HistoryIsWhatWasTold /\ A!HeardInOrder
<1> SUFFICES ASSUME SessionInv PROVE A!PrimedOnce /\ A!HistoryIsWhatWasTold /\ A!HeardInOrder
  OBVIOUS
<1>0. SessionTyped /\ Primed /\ (\A r \in Runs : SpokenIs(r)) /\ Remembers /\ Heard
  BY DEF SessionInv
<1>1. A!PrimedOnce /\ A!HeardInOrder
  BY <1>0, PrimedSound DEF Heard
<1>2. A!HistoryIsWhatWasTold
  <2> DEFINE n == Keeps(Len(ended))
             last == SubSeq(ended, Len(ended) - n + 1, Len(ended))
  <2>1. /\ ended \in Seq(Runs \X BOOLEAN) /\ Len(ended) \in Nat /\ Len(history) = n /\ n \in Nat /\ n <= Len(ended)
        /\ history \in Seq(Runs \X {"none", "answer", "sentence", "rewritten"})
    BY <1>0, TurnConstants DEF SessionTyped, Remembers, Keeps
  <2> HIDE DEF n
  <2>2. DOMAIN last = 1..n /\ \A i \in 1..n : last[i] = ended[Len(ended) - n + i]
    <3>1. Len(ended) - n + 1 \in 1..(Len(ended) + 1)
      BY <2>1
    <3>2. /\ last \in Seq(Runs \X BOOLEAN) /\ Len(last) = n
          /\ \A i \in 1..n : last[i] = ended[(Len(ended) - n + 1) + i - 1]
      BY <2>1, <3>1, SubSeqProperties
    <3> HIDE DEF last
    <3>3. \A i \in 1..n : (Len(ended) - n + 1) + i - 1 = Len(ended) - n + i
      BY <2>1
    <3> QED
      BY <3>2, <3>3
  <2> HIDE DEF last
  <2>3. history = [i \in DOMAIN last |-> <<last[i][1], told[last[i][1]].message>>]
    <3>1. history = [i \in 1..n |-> history[i]]
      BY <2>1
    <3>2. \A i \in 1..n : history[i] = <<last[i][1], told[last[i][1]].message>>
      BY <1>0, <2>1, <2>2 DEF Remembers
    <3> QED
      BY <2>2, <3>1, <3>2
  <2>4. ASSUME NEW r \in Runs, told[r].message # "none", told[r].streamed # "none"
        PROVE  told[r].message \in {told[r].streamed, "rewritten"}
    BY <1>0, <2>4 DEF SpokenIs
  <2> QED
    BY <2>3, <2>4 DEF A!HistoryIsWhatWasTold, last, n, Keeps
<1> QED
  BY <1>1, <1>2

-----------------------------------------------------------------------------
\* How many members of a sequence are in W, and with one more at its end.
Among(s, W) == Cardinality({i \in 1..Len(s) : s[i] \in W})

LEMMA AmongAppend ==
    ASSUME NEW S, NEW s \in Seq(S), NEW e \in S, NEW W
    PROVE  /\ Among(s, W) \in Nat /\ Among(s, W) <= Len(s)
           /\ e \in W => Among(Append(s, e), W) = Among(s, W) + 1
           /\ e \notin W => Among(Append(s, e), W) = Among(s, W)
<1> DEFINE before == {i \in 1..Len(s) : s[i] \in W}
           after == {i \in 1..Len(Append(s, e)) : Append(s, e)[i] \in W}
<1>1. /\ Len(s) \in Nat /\ Len(Append(s, e)) = Len(s) + 1 /\ Append(s, e)[Len(s) + 1] = e
      /\ \A i \in 1..Len(s) : Append(s, e)[i] = s[i]
  BY AppendProperties
<1>2. IsFiniteSet(1..Len(s)) /\ Cardinality(1..Len(s)) = Len(s)
  <2>1. 1 \in Int /\ Len(s) \in Int /\ (IF 1 > Len(s) THEN 0 ELSE Len(s) - 1 + 1) = Len(s)
    BY <1>1
  <2>2. IsFiniteSet(1..Len(s)) /\ Cardinality(1..Len(s)) = IF 1 > Len(s) THEN 0 ELSE Len(s) - 1 + 1
    BY <2>1, FS_Interval, Zenon
  <2>3. Cardinality(1..Len(s)) = Len(s)
    BY <2>1, <2>2
  <2> QED
    BY <2>2, <2>3, Zenon
<1>3. IsFiniteSet(before) /\ Cardinality(before) <= Len(s) /\ Cardinality(before) \in Nat
  <2>1. before \subseteq 1..Len(s)
    OBVIOUS
  <2> HIDE DEF before
  <2> QED
    BY <1>2, <2>1, FS_Subset, FS_CardinalityType
<1>4. e \in W => after = before \cup {Len(s) + 1}
  BY <1>1
<1>5. e \notin W => after = before
  BY <1>1
<1>6. Len(s) + 1 \notin before
  BY <1>1
<1>7. Among(s, W) = Cardinality(before) /\ Among(Append(s, e), W) = Cardinality(after)
  BY DEF Among
<1> HIDE DEF before, after
<1>8. Cardinality(before \cup {Len(s) + 1}) = Cardinality(before) + 1
  BY <1>3, <1>6, FS_AddElement
<1> QED
  BY <1>3, <1>4, <1>5, <1>7, <1>8

-----------------------------------------------------------------------------
\* The onion of a model call. Every frame that waits in a layer's body may have its
\* inside called once more; what these calls can still add up to, with what was
\* called already, never exceeds what there was at the start.
Frames == [by : {"body", "skipped"}, tools : {"own", "dropped"}]

ModelCalls == [result : {"answer", "throw"}, sections : {1}, tools : {"own", "default"}]

OnionTyped ==
    /\ phase \in {"before", "down", "answer", "throw", "after", "over"}
    /\ done \in Nat /\ frames \in Seq(Frames) /\ system = 0 /\ calls \in Seq(ModelCalls)
    /\ words \in Nat /\ late \in Nat /\ errors \in Seq(Nat) /\ offered \in {"own", "dropped"}

\* What the frames up to the k-th can still cost.
Cost(frame, k) == IF frame.by = "body" THEN 2^(Layers - k) ELSE 0

IsBudget(b, fs) ==
    /\ b \in [0..Len(fs) -> Nat]
    /\ b[0] = 0
    /\ \A k \in 1..Len(fs) : b[k] = b[k - 1] + Cost(fs[k], k)

InBudget ==
    /\ Len(frames) <= Layers
    /\ phase = "before" => frames = <<>> /\ calls = <<>>
    /\ \E b : /\ IsBudget(b, frames)
              /\ Len(calls) + b[Len(frames)] + (IF phase \in {"before", "down"} THEN 2^(Layers - Len(frames)) ELSE 0)
                     <= 2^Layers

Answers == {c \in ModelCalls : c.result = "answer"}

PaidFor ==
    /\ phase \in {"before", "down", "throw"} => Among(calls, Answers) <= late
    /\ Among(calls, Answers) <= 1 + late
    /\ words <= Len(calls)
    /\ M!OnlyTheProviderFails
    /\ late <= Among(errors, Nat \ {0})

Ordered == [i \in 1..Layers |-> i]

HooksAre ==
    /\ phase = "before" => done < Layers /\ hooks = [i \in 1..done |-> i]
    /\ phase \in {"down", "answer", "throw"} => hooks = Ordered
    /\ phase = "after" => done < Layers /\ hooks = Ordered \o [i \in 1..done |-> Layers + 1 - i]
    /\ phase = "over" => hooks = Ordered \o [i \in 1..Layers |-> Layers + 1 - i]

OnionInv == OnionTyped /\ InBudget /\ PaidFor /\ HooksAre

LEMMA OnionStart == M!Init => OnionInv
<1> SUFFICES ASSUME M!Init PROVE OnionInv
  OBVIOUS
<1>0. /\ phase = "before" /\ done = 0 /\ frames = <<>> /\ system = 0 /\ calls = <<>> /\ words = 0 /\ late = 0
      /\ errors = <<>> /\ hooks = <<>> /\ offered = "own" /\ Layers \in Nat /\ Layers > 0
  BY TurnConstants DEF M!Init
<1>1. OnionTyped
  BY <1>0 DEF OnionTyped
<1>2. InBudget
  <2> DEFINE b == [k \in 0..0 |-> 0]
  <2>1. IsBudget(b, frames)
    BY <1>0 DEF IsBudget
  <2>2. b[Len(frames)] = 0 /\ Len(frames) = 0 /\ Len(calls) = 0 /\ Layers - Len(frames) = Layers
    BY <1>0
  <2>3. 2^Layers \in Nat
    BY <1>0, PowersOfTwo
  <2> HIDE DEF b
  <2>4. Len(calls) + b[Len(frames)] + (IF phase \in {"before", "down"} THEN 2^(Layers - Len(frames)) ELSE 0) <= 2^Layers
    BY <1>0, <2>2, <2>3
  <2> QED
    BY <1>0, <2>1, <2>2, <2>4 DEF InBudget
<1>3. Among(calls, Answers) = 0 /\ Among(errors, Nat \ {0}) = 0
  BY <1>0, FS_EmptySet DEF Among
<1>4. PaidFor
  BY <1>0, <1>3 DEF PaidFor, M!OnlyTheProviderFails
<1>5. HooksAre
  BY <1>0 DEF HooksAre
<1> QED
  BY <1>1, <1>2, <1>4, <1>5 DEF OnionInv

LEMMA OnionTypedStep == OnionInv /\ M!Next => OnionTyped'
<1> SUFFICES ASSUME OnionInv, M!Next PROVE OnionTyped'
  OBVIOUS
<1>0. OnionTyped /\ Layers \in Nat
  BY TurnConstants DEF OnionInv
<1>01. \A e \in Nat : Append(errors, e) \in Seq(Nat)
  BY <1>0 DEF OnionTyped
<1>02. Len(frames) \in Nat
  BY <1>0 DEF OnionTyped
<1>1. ASSUME NEW update \in M!Updates, M!BeforeExecute(update) \/ M!AfterExecute(update) PROVE OnionTyped'
  <2>1. errors' = errors \/ errors' = Append(errors, 0)
    BY <1>1 DEF M!BeforeExecute, M!AfterExecute, M!Reported
  <2>2. errors' \in Seq(Nat)
    BY <1>0, <1>01, <2>1 DEF OnionTyped
  <2>3. /\ phase' \in {"before", "down", "answer", "throw", "after", "over"} /\ done' = done + 1
        /\ UNCHANGED <<frames, system, calls, words, late, offered>>
    BY <1>1 DEF M!BeforeExecute, M!AfterExecute
  <2> QED
    BY <1>0, <2>2, <2>3 DEF OnionTyped
<1>2. ASSUME NEW by \in {"body", "skipped"}, frames' = Append(frames, [by |-> by, tools |-> offered])
      PROVE  frames' \in Seq(Frames)
  <2>1. [by |-> by, tools |-> offered] \in Frames /\ frames \in Seq(Frames)
    BY <1>0 DEF OnionTyped, Frames
  <2> QED
    BY <1>2, <2>1
<1>3. ASSUME NEW drops \in BOOLEAN, M!CallsNext(drops) PROVE OnionTyped'
  <2>1. frames' \in Seq(Frames)
    BY <1>2, <1>3 DEF M!CallsNext, M!Inside
  <2> QED
    BY <1>0, <1>3, <2>1 DEF M!CallsNext, OnionTyped
<1>4. CASE M!ThrowsFirst
  <2>1. frames' \in Seq(Frames)
    BY <1>2, <1>4 DEF M!ThrowsFirst, M!Inside
  <2>2. errors' \in Seq(Nat)
    BY <1>01, <1>02, <1>4 DEF M!ThrowsFirst
  <2> QED
    BY <1>0, <1>4, <2>1, <2>2 DEF M!ThrowsFirst, OnionTyped
<1>5. ASSUME NEW result \in {"answer", "throw"}, NEW streamed \in BOOLEAN, M!Provider(result, streamed) PROVE OnionTyped'
  <2> DEFINE entry == [result |-> result, sections |-> system + 1, tools |-> M!ToolsOf(offered)]
  <2>1. entry \in ModelCalls
    BY <1>0 DEF OnionTyped, ModelCalls, M!ToolsOf
  <2>2. calls' = Append(calls, entry) /\ calls \in Seq(ModelCalls)
    BY <1>0, <1>5 DEF M!Provider, OnionTyped
  <2> HIDE DEF entry
  <2>3. calls' \in Seq(ModelCalls)
    BY <2>1, <2>2
  <2>4. /\ system' = system /\ words' = words + IF streamed THEN 1 ELSE 0
        /\ phase' = result /\ UNCHANGED <<done, frames, late, errors, hooks, offered>>
    BY <1>5 DEF M!Provider, M!SystemAfter
  <2>5. words' \in Nat
    BY <1>0, <2>4 DEF OnionTyped
  <2> QED
    BY <1>0, <2>3, <2>4, <2>5 DEF OnionTyped
<1>6. ASSUME frames # <<>>
      PROVE  M!Outer(frames) \in Seq(Frames) /\ M!Innermost(frames) \in Frames
  <2>1. frames \in Seq(Frames) /\ Len(frames) > 0
    BY <1>0, <1>02, <1>6 DEF OnionTyped
  <2> QED
    BY <1>02, <2>1, SubSeqProperties DEF M!Outer, M!Innermost
<1>7. CASE M!PassesOn \/ M!Rescues \/ M!PassesUp
  <2>1. frames' \in Seq(Frames)
    BY <1>6, <1>7 DEF M!PassesOn, M!Rescues, M!PassesUp, M!Leave
  <2> QED
    BY <1>0, <1>7, <2>1 DEF M!PassesOn, M!Rescues, M!PassesUp, OnionTyped
<1>8. CASE M!FallsThrough
  <2> DEFINE frame == [M!Innermost(frames) EXCEPT !.by = "skipped"]
  <2>1. frame \in Frames /\ M!Innermost(frames).tools \in {"own", "dropped"} /\ M!Outer(frames) \in Seq(Frames)
    BY <1>6, <1>8 DEF M!FallsThrough, Frames
  <2>2. /\ frames' = Append(M!Outer(frames), frame) /\ offered' = M!Innermost(frames).tools
        /\ errors' = Append(errors, Len(frames)) /\ late' = late + IF phase = "answer" THEN 1 ELSE 0
        /\ phase' = "down" /\ UNCHANGED <<done, system, calls, words, hooks>>
    BY <1>8 DEF M!FallsThrough
  <2> HIDE DEF frame
  <2>3. frames' \in Seq(Frames)
    BY <2>1, <2>2
  <2>4. errors' \in Seq(Nat)
    BY <1>01, <1>02, <2>2
  <2>5. late' \in Nat
    BY <1>0, <2>2 DEF OnionTyped
  <2> QED
    BY <1>0, <2>1, <2>2, <2>3, <2>4, <2>5 DEF OnionTyped
<1>9. CASE M!ShortCircuits \/ M!Outside
  BY <1>0, <1>9 DEF M!ShortCircuits, M!Outside, OnionTyped
<1> QED
  BY <1>1, <1>3, <1>4, <1>5, <1>7, <1>8, <1>9 DEF M!Next

LEMMA BudgetAppend ==
    ASSUME NEW fs \in Seq(Frames), NEW f \in Frames, Len(fs) < Layers, NEW b, IsBudget(b, fs)
    PROVE  \E d : IsBudget(d, Append(fs, f)) /\ d[Len(fs) + 1] = b[Len(fs)] + Cost(f, Len(fs) + 1)
<1> DEFINE n == Len(fs)
           c == Cost(f, n + 1)
           d == [k \in 0..n + 1 |-> IF k = n + 1 THEN b[n] + c ELSE b[k]]
           more == Append(fs, f)
<1>1. /\ n \in Nat /\ Len(more) = n + 1 /\ more[n + 1] = f /\ \A k \in 1..n : more[k] = fs[k]
  BY AppendProperties
<1>2. c \in Nat
  <2>1. Layers - (n + 1) \in Nat
    BY <1>1, TurnConstants
  <2> QED
    BY <2>1, PowersOfTwo DEF Cost
<1>3. b[n] \in Nat /\ \A k \in 0..n : b[k] \in Nat
  BY <1>1 DEF IsBudget
<1> HIDE DEF c, more
<1>4. d \in [0..n + 1 -> Nat] /\ d[n + 1] = b[n] + c /\ \A k \in 0..n : d[k] = b[k]
  BY <1>1, <1>2, <1>3
<1> HIDE DEF d, n
<1>5. ASSUME NEW k \in 1..n + 1 PROVE d[k] = d[k - 1] + Cost(more[k], k)
  <2>1. CASE k = n + 1
    <3>1. k - 1 = n /\ n \in 0..n
      BY <1>1, <2>1
    <3> QED
      BY <1>1, <1>4, <2>1, <3>1 DEF c
  <2>2. CASE k \in 1..n
    <3>1. k \in 0..n /\ k - 1 \in 0..n
      BY <1>1, <2>2
    <3>2. b[k] = b[k - 1] + Cost(fs[k], k)
      BY <2>2 DEF IsBudget, n
    <3> QED
      BY <1>1, <1>4, <2>2, <3>1, <3>2
  <2> QED
    BY <1>1, <2>1, <2>2
<1>6. b[0] = 0 /\ 0 \in 0..n
  BY <1>1 DEF IsBudget
<1>7. IsBudget(d, more)
  BY <1>1, <1>4, <1>5, <1>6 DEF IsBudget
<1> QED
  BY <1>4, <1>7 DEF more, n, c

LEMMA BudgetFront ==
    ASSUME NEW fs \in Seq(Frames), fs # <<>>, NEW b, IsBudget(b, fs)
    PROVE  /\ \E d : IsBudget(d, M!Outer(fs)) /\ d[Len(fs) - 1] = b[Len(fs) - 1]
           /\ b[Len(fs)] = b[Len(fs) - 1] + Cost(M!Innermost(fs), Len(fs))
           /\ M!Outer(fs) \in Seq(Frames) /\ Len(M!Outer(fs)) = Len(fs) - 1
<1> DEFINE n == Len(fs) - 1
           d == [k \in 0..n |-> b[k]]
           less == M!Outer(fs)
<1>1. n \in Nat /\ Len(fs) = n + 1
  BY DEF n
<1>2. less \in Seq(Frames) /\ Len(less) = n /\ \A k \in 1..n : less[k] = fs[k]
  BY <1>1, SubSeqProperties DEF M!Outer
<1> HIDE DEF less, n
<1>3. b \in [0..n + 1 -> Nat] /\ b[0] = 0 /\ \A k \in 1..n + 1 : b[k] = b[k - 1] + Cost(fs[k], k)
  BY <1>1 DEF IsBudget
<1>4. d \in [0..n -> Nat] /\ \A k \in 0..n : d[k] = b[k]
  BY <1>1, <1>3
<1> HIDE DEF d
<1>5. ASSUME NEW k \in 1..n PROVE d[k] = d[k - 1] + Cost(less[k], k)
  <2>1. k \in 0..n /\ k - 1 \in 0..n /\ k \in 1..n + 1
    BY <1>1
  <2> QED
    BY <1>2, <1>3, <1>4, <2>1
<1>6. IsBudget(d, less) /\ d[n] = b[n]
  BY <1>1, <1>2, <1>3, <1>4, <1>5 DEF IsBudget
<1>7. b[n + 1] = b[n] + Cost(fs[n + 1], n + 1)
  <2>1. n + 1 \in 1..n + 1 /\ (n + 1) - 1 = n
    BY <1>1
  <2> QED
    BY <1>3, <2>1
<1> QED
  BY <1>1, <1>2, <1>6, <1>7 DEF less, n, M!Innermost

LEMMA BudgetStep == OnionInv /\ M!Next => InBudget'
<1> SUFFICES ASSUME OnionInv, M!Next PROVE InBudget'
  OBVIOUS
<1>0. /\ OnionTyped /\ InBudget /\ Layers \in Nat /\ frames \in Seq(Frames) /\ Len(frames) \in Nat
      /\ calls \in Seq(ModelCalls) /\ Len(calls) \in Nat /\ Len(frames) <= Layers
  BY TurnConstants DEF OnionInv, OnionTyped, InBudget
<1> DEFINE n == Len(frames)
           left == IF phase \in {"before", "down"} THEN 2^(Layers - n) ELSE 0
<1>1. PICK b : IsBudget(b, frames) /\ Len(calls) + b[n] + left <= 2^Layers
  BY <1>0 DEF InBudget
<1>2. b[n] \in Nat /\ n \in Nat /\ 2^Layers \in Nat /\ Layers - n \in Nat
  BY <1>0, <1>1, PowersOfTwo DEF IsBudget
<1>3. left \in Nat
  BY <1>2, PowersOfTwo
<1>4. ASSUME UNCHANGED <<frames, calls>>, phase' = "before" => phase = "before",
             phase' = "down" => phase \in {"before", "down"}
      PROVE  InBudget'
  <2> DEFINE next == IF phase' \in {"before", "down"} THEN 2^(Layers - n) ELSE 0
  <2>1. next <= left /\ next \in Nat
    BY <1>2, <1>4, PowersOfTwo
  <2> HIDE DEF left, next
  <2>2. Len(calls) + b[n] + next <= 2^Layers
    BY <1>0, <1>1, <1>2, <1>3, <2>1
  <2> QED
    BY <1>0, <1>1, <1>4, <2>2 DEF InBudget, next
<1>5. CASE \E update \in M!Updates : M!BeforeExecute(update) \/ M!AfterExecute(update)
  BY <1>4, <1>5 DEF M!BeforeExecute, M!AfterExecute
<1>6. CASE M!ShortCircuits \/ M!Outside
  BY <1>4, <1>6 DEF M!ShortCircuits, M!Outside
<1>7. ASSUME NEW by \in {"body", "skipped"}, M!Inside(by), UNCHANGED <<phase, calls>>,
             phase = "down", Len(frames) < Layers
      PROVE  InBudget'
  <2> DEFINE frame == [by |-> by, tools |-> offered]
  <2>1. frame \in Frames /\ frame.by = by
    BY <1>0 DEF OnionTyped, Frames
  <2>2. frames' = Append(frames, frame)
    BY <1>7 DEF M!Inside
  <2> HIDE DEF frame
  <2>3. PICK d : IsBudget(d, frames') /\ d[n + 1] = b[n] + Cost(frame, n + 1)
    BY <1>0, <1>1, <1>7, <2>1, <2>2, BudgetAppend
  <2>4. Len(frames') = n + 1
    BY <1>0, <2>1, <2>2
  <2> DEFINE m == Layers - (n + 1)
             half == 2^m
  <2>5. m \in Nat /\ m + 1 = Layers - n
    BY <1>0, <1>7
  <2>6. half \in Nat /\ 2^(Layers - n) = half + half
    BY <2>5, PowersOfTwo
  <2>7. Cost(frame, n + 1) <= half /\ Cost(frame, n + 1) \in Nat
    BY <2>6 DEF Cost
  <2>8. left = half + half
    BY <1>7, <2>6
  <2> HIDE DEF half, left, m
  <2>9. Len(calls) + (b[n] + Cost(frame, n + 1)) + half <= 2^Layers
    BY <1>0, <1>1, <1>2, <2>6, <2>7, <2>8, SMTT(30)
  <2>10. phase' = "down" /\ calls' = calls /\ Layers - Len(frames') = m
    BY <1>7, <2>4 DEF m
  <2>11. Len(calls') + d[Len(frames')] + (IF phase' \in {"before", "down"} THEN 2^(Layers - Len(frames')) ELSE 0)
            <= 2^Layers
    BY <2>3, <2>4, <2>9, <2>10 DEF half
  <2>12. Len(frames') <= Layers
    BY <1>0, <1>7, <2>4
  <2> QED
    BY <2>3, <2>10, <2>11, <2>12 DEF InBudget
<1>8. CASE M!ThrowsFirst \/ \E drops \in BOOLEAN : M!CallsNext(drops)
  BY <1>7, <1>8 DEF M!ThrowsFirst, M!CallsNext
<1>9. ASSUME NEW result \in {"answer", "throw"}, NEW streamed \in BOOLEAN, M!Provider(result, streamed) PROVE InBudget'
  <2>1. phase = "down" /\ n = Layers /\ phase' = result /\ frames' = frames
    BY <1>9 DEF M!Provider
  <2>2. Len(calls') = Len(calls) + 1
    <3> DEFINE entry == [result |-> result, sections |-> system + 1, tools |-> M!ToolsOf(offered)]
    <3>1. calls' = Append(calls, entry)
      BY <1>9 DEF M!Provider
    <3> HIDE DEF entry
    <3> QED
      BY <1>0, <3>1
  <2>3. left > 0
    BY <1>2, <2>1, PowersOfTwo
  <2> HIDE DEF left
  <2>4. Len(calls') + b[n] + 0 <= 2^Layers
    BY <1>0, <1>1, <1>2, <1>3, <2>2, <2>3
  <2> QED
    BY <1>0, <1>1, <2>1, <2>4 DEF InBudget
<1>10. CASE M!PassesOn \/ M!Rescues \/ M!PassesUp
  <2>1. frames # <<>> /\ frames' = M!Outer(frames) /\ calls' = calls /\ phase' \in {"answer", "throw"}
    BY <1>10 DEF M!PassesOn, M!Rescues, M!PassesUp, M!Leave
  <2>2. /\ \E d : IsBudget(d, M!Outer(frames)) /\ d[n - 1] = b[n - 1]
        /\ b[n] = b[n - 1] + Cost(M!Innermost(frames), n)
        /\ Len(M!Outer(frames)) = n - 1
    BY <1>0, <1>1, <2>1, BudgetFront
  <2>3. PICK d : IsBudget(d, frames') /\ d[n - 1] = b[n - 1]
    BY <2>1, <2>2
  <2>4. Cost(M!Innermost(frames), n) \in Nat
    BY <1>2, PowersOfTwo DEF Cost
  <2>5. n > 0 /\ b[n - 1] \in Nat
    <3>1. n > 0
      BY <1>0, <2>1
    <3>2. b \in [0..n -> Nat] /\ n - 1 \in 0..n
      BY <1>1, <1>2, <3>1 DEF IsBudget
    <3> HIDE DEF n
    <3> QED
      BY <3>1, <3>2
  <2> HIDE DEF left
  <2>6. Len(calls) + b[n - 1] <= 2^Layers
    BY <1>0, <1>1, <1>2, <1>3, <2>2, <2>4, <2>5, SMTT(30)
  <2>7. Len(calls') + d[Len(frames')] + (IF phase' \in {"before", "down"} THEN 2^(Layers - Len(frames')) ELSE 0)
            <= 2^Layers
    BY <1>0, <2>1, <2>2, <2>3, <2>5, <2>6
  <2>8. Len(frames') <= Layers
    BY <1>0, <2>1, <2>2, <2>5
  <2> QED
    BY <2>1, <2>3, <2>7, <2>8 DEF InBudget
<1>11. CASE M!FallsThrough
  <2> DEFINE frame == [M!Innermost(frames) EXCEPT !.by = "skipped"]
  <2>1. /\ frames # <<>> /\ frames' = Append(M!Outer(frames), frame) /\ M!Innermost(frames).by = "body"
        /\ phase \in {"answer", "throw"} /\ phase' = "down" /\ calls' = calls
    BY <1>11 DEF M!FallsThrough, M!Catches
  <2>2. n > 0 /\ M!Innermost(frames) \in Frames
    BY <1>0, <2>1 DEF M!Innermost
  <2>3. frame \in Frames /\ frame.by = "skipped"
    BY <2>2 DEF Frames
  <2> HIDE DEF frame
  <2>4. /\ \E d : IsBudget(d, M!Outer(frames)) /\ d[n - 1] = b[n - 1]
        /\ b[n] = b[n - 1] + Cost(M!Innermost(frames), n)
        /\ M!Outer(frames) \in Seq(Frames) /\ Len(M!Outer(frames)) = n - 1
    BY <1>0, <1>1, <2>1, BudgetFront
  <2>5. PICK d : IsBudget(d, M!Outer(frames)) /\ d[n - 1] = b[n - 1]
    BY <2>4
  <2>6. PICK e : IsBudget(e, frames') /\ e[(n - 1) + 1] = d[n - 1] + Cost(frame, (n - 1) + 1)
    <3>1. n - 1 < Layers
      BY <1>0, <2>2
    <3> QED
      BY <2>1, <2>3, <2>4, <2>5, <3>1, BudgetAppend
  <2>7. (n - 1) + 1 = n /\ Cost(frame, (n - 1) + 1) = 0 /\ b[n - 1] \in Nat
    <3>1. b \in [0..n -> Nat] /\ n - 1 \in 0..n
      BY <1>1, <1>2, <2>2 DEF IsBudget
    <3>2. (n - 1) + 1 = n
      BY <1>2
    <3>3. Cost(frame, (n - 1) + 1) = 0
      BY <2>3 DEF Cost
    <3> HIDE DEF n
    <3> QED
      BY <3>1, <3>2, <3>3
  <2>8. e[n] = b[n - 1]
    BY <2>5, <2>6, <2>7
  <2>9. Len(frames') = n
    BY <1>2, <2>1, <2>3, <2>4, <2>7
  <2>10. left = 0 /\ Cost(M!Innermost(frames), n) = 2^(Layers - n) /\ 2^(Layers - n) \in Nat
    BY <1>2, <2>1, PowersOfTwo DEF Cost
  <2> HIDE DEF left
  <2>11. Len(calls) + b[n - 1] + 2^(Layers - n) <= 2^Layers
    BY <1>0, <1>1, <1>2, <2>4, <2>7, <2>10
  <2>12. Len(calls') + e[Len(frames')] + (IF phase' \in {"before", "down"} THEN 2^(Layers - Len(frames')) ELSE 0)
            <= 2^Layers
    BY <2>1, <2>8, <2>9, <2>11
  <2> QED
    BY <1>0, <2>1, <2>6, <2>9, <2>12 DEF InBudget
<1> QED
  BY <1>5, <1>6, <1>8, <1>9, <1>10, <1>11 DEF M!Next

\* An answer is lost only to a layer that throws it away, which is reported.
LEMMA PaidStep == OnionInv /\ M!Next => PaidFor'
<1> SUFFICES ASSUME OnionInv, M!Next PROVE PaidFor'
  OBVIOUS
<1>0. /\ OnionTyped /\ PaidFor /\ OnionTyped'
      /\ calls \in Seq(ModelCalls) /\ Len(calls) \in Nat /\ errors \in Seq(Nat) /\ late \in Nat /\ words \in Nat
  BY OnionTypedStep DEF OnionInv, OnionTyped
<1> DEFINE paid == Among(calls, Answers)
           told0 == Among(errors, Nat \ {0})
<1>1. /\ paid \in Nat /\ told0 \in Nat
      /\ phase \in {"before", "down", "throw"} => paid <= late
      /\ paid <= 1 + late /\ words <= Len(calls) /\ late <= told0 /\ M!OnlyTheProviderFails
  <2>1. \E entry : entry \in ModelCalls
    <3>1. [result |-> "answer", sections |-> 1, tools |-> "own"] \in ModelCalls
      BY DEF ModelCalls
    <3> QED
      BY <3>1
  <2>2. paid \in Nat
    BY <1>0, <2>1, AmongAppend
  <2>3. told0 \in Nat
    BY <1>0, AmongAppend
  <2> QED
    BY <1>0, <2>2, <2>3 DEF PaidFor
<1>2. /\ \A e \in Nat : e # 0 => Among(Append(errors, e), Nat \ {0}) = told0 + 1
      /\ Among(Append(errors, 0), Nat \ {0}) = told0
  BY <1>0, AmongAppend
<1>3. ASSUME UNCHANGED <<calls, words, late>>, phase' \in {"before", "down", "throw"} => phase \in {"before", "down", "throw"},
             phase' = "throw" => phase = "throw", Among(errors', Nat \ {0}) >= told0, Among(errors', Nat \ {0}) \in Nat
      PROVE  PaidFor'
  <2>1. Among(calls', Answers) = paid
    BY <1>3
  <2>2. M!OnlyTheProviderFails'
    BY <1>1, <1>3 DEF M!OnlyTheProviderFails
  <2> HIDE DEF paid, told0
  <2>3. late <= Among(errors', Nat \ {0})
    BY <1>0, <1>1, <1>3
  <2> QED
    BY <1>1, <1>3, <2>1, <2>2, <2>3 DEF PaidFor
<1>4. ASSUME NEW update \in M!Updates, M!BeforeExecute(update) \/ M!AfterExecute(update) PROVE PaidFor'
  <2>1. errors' = errors \/ errors' = Append(errors, 0)
    BY <1>4 DEF M!BeforeExecute, M!AfterExecute, M!Reported
  <2>2. Among(errors', Nat \ {0}) = told0
    BY <1>2, <2>1
  <2> QED
    BY <1>1, <1>3, <1>4, <2>2 DEF M!BeforeExecute, M!AfterExecute
<1>5. CASE M!ShortCircuits \/ M!Outside \/ M!PassesOn \/ M!Rescues \/ M!PassesUp \/ \E drops \in BOOLEAN : M!CallsNext(drops)
  BY <1>1, <1>3, <1>5 DEF M!ShortCircuits, M!Outside, M!PassesOn, M!Rescues, M!PassesUp, M!CallsNext
<1>6. CASE M!ThrowsFirst
  <2>1. errors' = Append(errors, Len(frames) + 1) /\ Len(frames) + 1 \in Nat /\ Len(frames) + 1 # 0
    BY <1>0, <1>6 DEF M!ThrowsFirst, OnionTyped
  <2>2. Among(errors', Nat \ {0}) = told0 + 1
    BY <1>2, <2>1
  <2>3. UNCHANGED <<calls, words, late>> /\ phase = "down" /\ phase' = phase
    BY <1>6 DEF M!ThrowsFirst
  <2>4. Among(errors', Nat \ {0}) >= told0 /\ Among(errors', Nat \ {0}) \in Nat
    BY <1>1, <2>2
  <2> QED
    BY <1>3, <2>3, <2>4
<1>7. ASSUME NEW result \in {"answer", "throw"}, NEW streamed \in BOOLEAN, M!Provider(result, streamed) PROVE PaidFor'
  <2> DEFINE entry == [result |-> result, sections |-> system + 1, tools |-> M!ToolsOf(offered)]
  <2>1. /\ phase = "down" /\ phase' = result /\ calls' = Append(calls, entry) /\ UNCHANGED <<late, errors>>
        /\ words' = words + IF streamed THEN 1 ELSE 0
    BY <1>7 DEF M!Provider
  <2>2. entry \in ModelCalls /\ entry.result = result
    BY <1>0 DEF OnionTyped, ModelCalls, M!ToolsOf
  <2> HIDE DEF entry
  <2>3. entry \in Answers <=> result = "answer"
    BY <2>2 DEF Answers
  <2>4. /\ result = "answer" => Among(calls', Answers) = paid + 1
        /\ result # "answer" => Among(calls', Answers) = paid
    BY <1>0, <2>1, <2>2, <2>3, AmongAppend
  <2>5. Len(calls') = Len(calls) + 1 /\ calls'[Len(calls')] = entry /\ calls' # <<>>
    BY <1>0, <2>1, <2>2
  <2>6. M!OnlyTheProviderFails'
    BY <2>1, <2>2, <2>5 DEF M!OnlyTheProviderFails
  <2>7. words' <= Len(calls')
    <3>1. words' \in {words, words + 1}
      BY <1>0, <2>1
    <3> QED
      BY <1>0, <1>1, <2>5, <3>1
  <2> HIDE DEF paid, told0
  <2>8. Among(calls', Answers) <= 1 + late' /\ (phase' = "throw" => Among(calls', Answers) <= late')
    BY <1>0, <1>1, <2>1, <2>4
  <2>9. late' <= Among(errors', Nat \ {0})
    BY <1>1, <2>1 DEF told0
  <2>10. phase' \notin {"before", "down"}
    BY <2>1
  <2> QED
    BY <2>6, <2>7, <2>8, <2>9, <2>10 DEF PaidFor
<1>8. CASE M!FallsThrough
  <2>1. /\ errors' = Append(errors, Len(frames)) /\ Len(frames) \in Nat /\ Len(frames) # 0
        /\ UNCHANGED <<calls, words>> /\ phase \in {"answer", "throw"} /\ phase' = "down"
    BY <1>0, <1>8 DEF M!FallsThrough, OnionTyped
  <2>2. late' = IF phase = "answer" THEN late + 1 ELSE late
    BY <1>0, <1>8 DEF M!FallsThrough
  <2>3. Among(errors', Nat \ {0}) = told0 + 1
    BY <1>2, <2>1
  <2>4. Among(calls', Answers) = paid
    BY <2>1
  <2> HIDE DEF paid, told0
  <2>5. paid <= late' /\ paid <= 1 + late' /\ late' <= told0 + 1
    BY <1>0, <1>1, <2>1, <2>2
  <2>6. M!OnlyTheProviderFails'
    BY <2>1 DEF M!OnlyTheProviderFails
  <2> QED
    BY <1>1, <2>1, <2>3, <2>4, <2>5, <2>6 DEF PaidFor
<1> QED
  BY <1>4, <1>5, <1>6, <1>7, <1>8 DEF M!Next

\* The hooks: all of them before, and the same in reverse after.
LEMMA HooksStep == OnionInv /\ M!Next => HooksAre'
<1> SUFFICES ASSUME OnionInv, M!Next PROVE HooksAre'
  OBVIOUS
<1>0. OnionTyped /\ HooksAre /\ Layers \in Nat /\ Layers > 0 /\ done \in Nat
  BY TurnConstants DEF OnionInv, OnionTyped
<1> DEFINE Up(k) == [i \in 1..k |-> i]
           Down(k) == [i \in 1..k |-> Layers + 1 - i]
<1>1. \A k \in Nat : /\ Up(k) \in Seq(Int) /\ Len(Up(k)) = k /\ Down(k) \in Seq(Int) /\ Len(Down(k)) = k
  BY <1>0
<1>2. ASSUME NEW k \in Nat
      PROVE  /\ Append(Up(k), k + 1) = Up(k + 1)
             /\ Append(Down(k), Layers + 1 - (k + 1)) = Down(k + 1)
  <2> DEFINE a == Append(Up(k), k + 1)
             d == Append(Down(k), Layers + 1 - (k + 1))
  <2>1. /\ a \in Seq(Int) /\ Len(a) = k + 1 /\ a[k + 1] = k + 1 /\ \A i \in 1..k : a[i] = Up(k)[i]
    BY <1>1, AppendProperties
  <2>2. /\ d \in Seq(Int) /\ Len(d) = k + 1 /\ d[k + 1] = Layers + 1 - (k + 1) /\ \A i \in 1..k : d[i] = Down(k)[i]
    BY <1>0, <1>1, AppendProperties
  <2>3. /\ \A i \in 1..k : Up(k)[i] = i /\ Down(k)[i] = Layers + 1 - i
        /\ \A i \in 1..k + 1 : Up(k + 1)[i] = i /\ Down(k + 1)[i] = Layers + 1 - i
        /\ \A i \in 1..k + 1 : i \in 1..k \/ i = k + 1
    OBVIOUS
  <2> HIDE DEF a, d
  <2>4. \A i \in 1..k + 1 : a[i] = Up(k + 1)[i]
    <3>1. ASSUME NEW i \in 1..k + 1 PROVE a[i] = Up(k + 1)[i]
      <4>1. CASE i \in 1..k
        BY <2>1, <2>3, <4>1
      <4>2. CASE i = k + 1
        BY <2>1, <2>3, <4>2
      <4> QED
        BY <2>3, <4>1, <4>2
    <3> QED
      BY <3>1
  <2>5. \A i \in 1..k + 1 : d[i] = Down(k + 1)[i]
    <3>1. ASSUME NEW i \in 1..k + 1 PROVE d[i] = Down(k + 1)[i]
      <4>1. CASE i \in 1..k
        BY <2>2, <2>3, <4>1
      <4>2. CASE i = k + 1
        BY <2>2, <2>3, <4>2
      <4> QED
        BY <2>3, <4>1, <4>2
    <3> QED
      BY <3>1
  <2>6. k + 1 \in Nat
    OBVIOUS
  <2>7. Up(k + 1) \in Seq(Int) /\ Len(Up(k + 1)) = k + 1 /\ Down(k + 1) \in Seq(Int) /\ Len(Down(k + 1)) = k + 1
    BY <1>1, <2>6
  <2> HIDE DEF Up, Down
  <2>8. a = Up(k + 1)
    BY <2>1, <2>4, <2>7, SeqEqual
  <2>9. d = Down(k + 1)
    BY <2>2, <2>5, <2>7, SeqEqual
  <2> QED
    BY <2>8, <2>9 DEF a, d
<1>3. ASSUME NEW update \in M!Updates, M!BeforeExecute(update) PROVE HooksAre'
  <2>1. /\ phase = "before" /\ done' = done + 1 /\ hooks' = Append(hooks, done + 1)
        /\ phase' = IF done + 1 = Layers THEN "down" ELSE "before"
    BY <1>3 DEF M!BeforeExecute
  <2>2. hooks = Up(done) /\ done < Layers
    BY <1>0, <2>1 DEF HooksAre
  <2>3. hooks' = Up(done + 1)
    BY <1>0, <1>2, <2>1, <2>2
  <2> HIDE DEF Up
  <2>4. CASE done + 1 = Layers
    BY <2>1, <2>3, <2>4 DEF HooksAre, Ordered, Up
  <2>5. CASE done + 1 # Layers
    <3>1. phase' = "before" /\ done' < Layers
      BY <1>0, <2>1, <2>2, <2>5
    <3> QED
      BY <2>1, <2>3, <3>1 DEF HooksAre, Up
  <2> QED
    BY <2>4, <2>5
<1>4. ASSUME NEW update \in M!Updates, M!AfterExecute(update) PROVE HooksAre'
  <2>1. /\ phase = "after" /\ done' = done + 1 /\ hooks' = Append(hooks, Layers + 1 - (done + 1))
        /\ phase' = IF done + 1 = Layers THEN "over" ELSE "after"
    BY <1>4 DEF M!AfterExecute, M!ReverseOrder
  <2>2. hooks = Up(Layers) \o Down(done) /\ done < Layers
    BY <1>0, <2>1 DEF HooksAre, Ordered
  <2>3. Append(Down(done), Layers + 1 - (done + 1)) = Down(done + 1)
    BY <1>0, <1>2
  <2>4. Up(Layers) \in Seq(Int) /\ Down(done) \in Seq(Int)
    BY <1>0, <1>1
  <2> DEFINE e == Layers + 1 - (done + 1)
  <2>5. e \in Int
    BY <1>0
  <2> HIDE DEF Up, Down, e
  <2>6. Append(Up(Layers) \o Down(done), e) = Up(Layers) \o Append(Down(done), e)
    <3>1. /\ Append(Up(Layers) \o Down(done), e) = (Up(Layers) \o Down(done)) \o <<e>>
          /\ Append(Down(done), e) = Down(done) \o <<e>>
      <4>1. Up(Layers) \o Down(done) \in Seq(Int)
        BY <2>4
      <4> QED
        BY <2>4, <2>5, <4>1, AppendIsConcat
    <3>2. <<e>> \in Seq(Int)
      BY <2>5
    <3>3. (Up(Layers) \o Down(done)) \o <<e>> = Up(Layers) \o (Down(done) \o <<e>>)
      BY <2>4, <3>2, ConcatAssociative
    <3> QED
      BY <3>1, <3>3
  <2>7. hooks' = Up(Layers) \o Down(done + 1)
    BY <2>1, <2>2, <2>3, <2>6 DEF e
  <2>8. CASE done + 1 = Layers
    BY <2>1, <2>7, <2>8 DEF HooksAre, Ordered, Up, Down
  <2>9. CASE done + 1 # Layers
    <3>1. phase' = "after" /\ done' < Layers
      BY <1>0, <2>1, <2>2, <2>9
    <3> QED
      BY <2>1, <2>7, <3>1 DEF HooksAre, Ordered, Up, Down
  <2> QED
    BY <2>8, <2>9
<1>5. ASSUME hooks' = hooks, phase \in {"down", "answer", "throw"}, phase' \in {"down", "answer", "throw"}
      PROVE  HooksAre'
  BY <1>0, <1>5 DEF HooksAre, Ordered
<1>6. CASE \/ M!ShortCircuits \/ M!PassesOn \/ M!Rescues \/ M!PassesUp \/ M!ThrowsFirst \/ M!FallsThrough
           \/ \E drops \in BOOLEAN : M!CallsNext(drops)
           \/ \E result \in {"answer", "throw"}, streamed \in BOOLEAN : M!Provider(result, streamed)
  BY <1>5, <1>6 DEF M!ShortCircuits, M!PassesOn, M!Rescues, M!PassesUp, M!CallsNext, M!ThrowsFirst, M!FallsThrough,
                    M!Provider
<1>7. CASE M!Outside
  <2>1. phase \in {"answer", "throw"} /\ phase' = "after" /\ done' = 0 /\ hooks' = hooks
    BY <1>7 DEF M!Outside
  <2>2. hooks = Up(Layers)
    BY <1>0, <2>1 DEF HooksAre, Ordered
  <2>3. Down(0) = <<>>
    BY <1>0
  <2>4. Up(Layers) \o <<>> = Up(Layers)
    BY <1>0, <1>1, ConcatEmptySeq
  <2> HIDE DEF Up, Down
  <2>5. hooks' = Up(Layers) \o Down(0)
    BY <2>1, <2>2, <2>3, <2>4
  <2> QED
    BY <1>0, <2>1, <2>5 DEF HooksAre, Ordered, Up, Down
<1> QED
  BY <1>3, <1>4, <1>6, <1>7 DEF M!Next

LEMMA OnionStep == OnionInv /\ [M!Next]_(M!onion) => OnionInv'
<1> SUFFICES ASSUME OnionInv, [M!Next]_(M!onion) PROVE OnionInv'
  OBVIOUS
<1>1. CASE M!Next
  BY <1>1, OnionTypedStep, BudgetStep, PaidStep, HooksStep DEF OnionInv
<1>2. CASE UNCHANGED M!onion
  <2>1. UNCHANGED <<phase, done, frames, system, calls, words, late, errors, hooks, offered>>
    BY <1>2 DEF M!onion
  <2>2. OnionTyped' /\ HooksAre'
    BY <2>1 DEF OnionInv, OnionTyped, HooksAre
  <2>3. InBudget'
    BY <2>1 DEF OnionInv, InBudget
  <2>4. PaidFor'
    BY <2>1 DEF OnionInv, PaidFor, M!OnlyTheProviderFails
  <2> QED
    BY <2>2, <2>3, <2>4 DEF OnionInv
<1> QED
  BY <1>1, <1>2

LEMMA OnionSound ==
    OnionInv => M!CallsAreBounded /\ M!OnlyTheProviderFails /\ M!PromptIsModifiedOnce /\ M!HooksInOrder
<1> SUFFICES ASSUME OnionInv
             PROVE  M!CallsAreBounded /\ M!OnlyTheProviderFails /\ M!PromptIsModifiedOnce /\ M!HooksInOrder
  OBVIOUS
<1>0. /\ OnionTyped /\ InBudget /\ PaidFor /\ HooksAre /\ Layers \in Nat
      /\ calls \in Seq(ModelCalls) /\ Len(calls) \in Nat /\ errors \in Seq(Nat) /\ late \in Nat
      /\ DOMAIN calls = 1..Len(calls) /\ DOMAIN errors = 1..Len(errors) /\ words \in Nat
  BY TurnConstants DEF OnionInv, OnionTyped
<1>01. \A a : M!Cardinality(a) = Cardinality(a)
  BY DEF M!Cardinality, Cardinality
<1>1. M!Paid = Among(calls, Answers)
  <2>1. {i \in DOMAIN calls : calls[i].result = "answer"} = {i \in 1..Len(calls) : calls[i] \in Answers}
    BY <1>0 DEF Answers
  <2> QED
    BY <1>01, <2>1 DEF M!Paid, Among
<1>2. Cardinality({i \in DOMAIN errors : errors[i] # 0}) = Among(errors, Nat \ {0})
  <2>1. {i \in DOMAIN errors : errors[i] # 0} = {i \in 1..Len(errors) : errors[i] \in Nat \ {0}}
    BY <1>0
  <2> QED
    BY <2>1 DEF Among
<1>3. Len(calls) <= 2^Layers
  <2>1. PICK b : /\ IsBudget(b, frames)
                 /\ Len(calls) + b[Len(frames)] + (IF phase \in {"before", "down"} THEN 2^(Layers - Len(frames)) ELSE 0)
                        <= 2^Layers
    BY <1>0 DEF InBudget
  <2>2. Len(frames) \in Nat /\ Len(frames) <= Layers
    BY <1>0 DEF OnionTyped, InBudget
  <2>3. b[Len(frames)] \in Nat /\ 2^(Layers - Len(frames)) \in Nat /\ 2^Layers \in Nat
    BY <1>0, <2>1, <2>2, PowersOfTwo DEF IsBudget
  <2> DEFINE left == IF phase \in {"before", "down"} THEN 2^(Layers - Len(frames)) ELSE 0
  <2>4. left \in Nat
    BY <2>3
  <2> HIDE DEF left
  <2> QED
    BY <1>0, <2>1, <2>3, <2>4 DEF left
<1>4. /\ Among(calls, Answers) \in Nat /\ Among(calls, Answers) <= 1 + late /\ words <= Len(calls)
      /\ late <= Among(errors, Nat \ {0}) /\ Among(errors, Nat \ {0}) \in Nat
  <2>1. [result |-> "answer", sections |-> 1, tools |-> "own"] \in ModelCalls
    BY DEF ModelCalls
  <2>2. Among(calls, Answers) \in Nat
    BY <1>0, <2>1, AmongAppend
  <2>3. Among(errors, Nat \ {0}) \in Nat
    BY <1>0, AmongAppend
  <2> QED
    BY <1>0, <2>2, <2>3 DEF PaidFor
<1>5. words <= 1 + late + (Len(calls) - Among(calls, Answers))
  BY <1>0, <1>4
<1>6. M!CallsAreBounded
  BY <1>1, <1>3, <1>4, <1>5 DEF M!CallsAreBounded
<1>7. M!OnlyTheProviderFails
  BY <1>0 DEF PaidFor
<1>8. M!PromptIsModifiedOnce
  <2>1. \A i \in DOMAIN calls : calls[i] \in ModelCalls
    BY <1>0
  <2>2. \A c \in ModelCalls : c.sections = 1 /\ c.tools # "dropped"
    BY DEF ModelCalls
  <2> QED
    BY <2>1, <2>2 DEF M!PromptIsModifiedOnce
<1>9. late > 0 => errors # <<>>
  <2>1. CASE errors = <<>>
    <3>1. Among(errors, Nat \ {0}) = 0
      BY <2>1, FS_EmptySet DEF Among
    <3> QED
      BY <1>0, <1>4, <3>1
  <2> QED
    BY <2>1
<1>10. M!HooksInOrder
  <2>1. phase = "over" => hooks = [i \in 1..Layers |-> i] \o [i \in 1..Layers |-> Layers + 1 - i]
    BY <1>0 DEF HooksAre, Ordered
  <2>2. M!Cardinality({i \in DOMAIN errors : errors[i] # 0}) >= late
    BY <1>0, <1>01, <1>2, <1>4
  <2> QED
    BY <1>9, <2>1, <2>2 DEF M!HooksInOrder
<1> QED
  BY <1>6, <1>7, <1>8, <1>10

-----------------------------------------------------------------------------
(***************************************************************************)
(* The pipeline.  Its history is pairs of a question and its reply, after  *)
(* a reply alone if the bound is odd (lead); the turn of the j-th pair of  *)
(* n is at least n - j turns before the last one, which is why what is     *)
(* dropped is old enough to go.                                            *)
(***************************************************************************)
Replies == {"none", "answer", "empty", "rewritten", "changed"}

Exchange == Nat \X {"user", "assistant"} \X (Replies \cup {"said"})

PipelineSessions == [history : Seq(Exchange), goal : BOOLEAN, goalAt : BOOLEAN, fact : BOOLEAN]

Late == {"after_store", "action", "goal", "response", "critique", "after", "finalize", "done"}

PipelineTyped ==
    /\ native \in BOOLEAN /\ turn \in Nat \ {0} /\ loop \in Nat /\ acted \in Nat /\ results \in Nat
    /\ at \in {"before", "semantic", "complexity", "auto_store"} \cup Late
    /\ session \in PipelineSessions
    /\ answer \in Replies

\* No more than the steps taken so far and the stored fact account for.
Reported ==
    /\ acted = results
    /\ loop <= P!Steps
    /\ at \notin Late => acted = 0 /\ loop = 0
    /\ at = "after_store" => loop = 0
    /\ acted <= 1 + (IF native THEN MaxCalls * loop ELSE loop)

\* The last turn that may be in the history.
Newest == IF at = "done" THEN turn ELSE turn - 1

\* n exchanges of turns up to top, behind a reply whose question a bound that is
\* odd has dropped, or nothing.
PairsAre(h, lead, n, top) ==
    /\ n \in Nat /\ lead \in {0, MaxHistory % 2} /\ Len(h) = lead + 2 * n
    /\ lead = 1 => h[1][2] = "assistant"
    /\ \A j \in 1..n : /\ h[lead + 2 * j - 1][2] = "user" /\ h[lead + 2 * j][2] = "assistant"
                       /\ h[lead + 2 * j - 1][1] = h[lead + 2 * j][1]
                       /\ h[lead + 2 * j][1] + (n - j) <= top

HistoryKeeps(h, lead, n, top, now, missing) ==
    \A t \in 1..top : t \notin missing /\ 2 * (now - t) + 1 < MaxHistory => \E j \in 1..n : h[lead + 2 * j][1] = t

HistoryPaired == \E lead \in {0, 1}, n \in Nat :
    PairsAre(session.history, lead, n, Newest) /\ HistoryKeeps(session.history, lead, n, Newest, turn, unkept)

RepliesAre ==
    /\ at \in {"before", "semantic"} => minns = <<>>
    /\ at \notin {"before", "semantic", "done"} => minns \in {<<>>, <<"user">>}
    /\ minns \in {<<>>, <<"user">>, <<"assistant">>, <<"user", "assistant">>}
    /\ at = "after" => answer = message
    /\ at \in {"finalize", "done"} => answer \in {message, "changed"}

PipelineInv == PipelineTyped /\ Reported /\ HistoryPaired /\ RepliesAre

LEMMA PipelineStart == P!Init => PipelineInv
<1> SUFFICES ASSUME P!Init PROVE PipelineInv
  OBVIOUS
<1>0. /\ native \in BOOLEAN /\ turn = 1 /\ at = "before" /\ loop = 0 /\ acted = 0 /\ results = 0
      /\ session = [history |-> <<>>, goal |-> FALSE, goalAt |-> FALSE, fact |-> FALSE]
      /\ answer = "none" /\ message = "none" /\ minns = <<>> /\ unkept = {}
      /\ MaxSteps \in Nat \ {0} /\ MaxCalls \in Nat
  BY TurnConstants DEF P!Init
<1>1. PipelineTyped
  <2>1. <<>> \in Seq(Exchange)
    OBVIOUS
  <2>2. session \in PipelineSessions
    BY <1>0, <2>1 DEF PipelineSessions
  <2> QED
    BY <1>0, <2>2 DEF PipelineTyped, Replies
<1>2. Reported
  BY <1>0 DEF Reported, P!Steps, Late
<1>3. HistoryPaired
  <2>1. PairsAre(session.history, 0, 0, Newest) /\ HistoryKeeps(session.history, 0, 0, Newest, turn, unkept)
    BY <1>0 DEF PairsAre, HistoryKeeps, Newest
  <2> QED
    BY <2>1 DEF HistoryPaired
<1>4. RepliesAre
  BY <1>0 DEF RepliesAre
<1> QED
  BY <1>1, <1>2, <1>3, <1>4 DEF PipelineInv

\* What a step of the pipeline that is not Finalize or the next message leaves of the history.
LEMMA HistoryRests ==
    ASSUME HistoryPaired, UNCHANGED <<turn, unkept>>, session'.history = session.history,
           at # "done", at' # "done"
    PROVE  HistoryPaired'
<1>1. Newest' = Newest
  BY DEF Newest
<1>2. PICK lead \in {0, 1}, n \in Nat :
        PairsAre(session.history, lead, n, Newest) /\ HistoryKeeps(session.history, lead, n, Newest, turn, unkept)
  BY DEF HistoryPaired
<1>3. PairsAre(session'.history, lead, n, Newest')
  BY <1>1, <1>2
<1>4. HistoryKeeps(session'.history, lead, n, Newest', turn', unkept')
  BY <1>1, <1>2
<1> QED
  BY <1>3, <1>4 DEF HistoryPaired

\* The new exchange, and what of the older ones is kept with it.
LEMMA HistoryBounded ==
    ASSUME PipelineTyped, at = "finalize", at' = "done", UNCHANGED <<turn, unkept>>, HistoryPaired,
           NEW half \in Nat, NEW odd \in {0, 1}, MaxHistory = 2 * half + odd, odd = MaxHistory % 2,
           NEW e \in Exchange, NEW f \in Exchange,
           e[1] = turn, f[1] = turn, e[2] = "user", f[2] = "assistant",
           session'.history = P!Bounded(session.history \o <<e, f>>)
    PROVE  session'.history \in Seq(Exchange) /\ HistoryPaired'
<1> DEFINE h == session.history
           all == h \o <<e, f>>
<1>0. h \in Seq(Exchange) /\ turn \in Nat \ {0}
  BY DEF PipelineTyped, PipelineSessions
<1>1. PICK lead \in {0, 1}, n \in Nat : PairsAre(h, lead, n, turn - 1) /\ HistoryKeeps(h, lead, n, turn - 1, turn, unkept)
  BY DEF HistoryPaired, Newest
<1>2. Len(h) = lead + 2 * n
  BY <1>1 DEF PairsAre
<1>3. /\ all \in Seq(Exchange) /\ Len(all) = lead + 2 * (n + 1)
      /\ all[lead + 2 * (n + 1) - 1] = e /\ all[lead + 2 * (n + 1)] = f
      /\ \A i \in 1..(lead + 2 * n) : all[i] = h[i]
  <2>1. /\ <<e, f>> \in Seq(Exchange) /\ Len(<<e, f>>) = 2 /\ <<e, f>>[1] = e /\ <<e, f>>[2] = f
    OBVIOUS
  <2> DEFINE two == <<e, f>>
             m == lead + 2 * n
  <2> HIDE DEF two
  <2>2. /\ h \o two \in Seq(Exchange) /\ Len(h \o two) = Len(h) + Len(two)
        /\ \A i \in 1..(Len(h) + Len(two)) : (h \o two)[i] = IF i <= Len(h) THEN h[i] ELSE two[i - Len(h)]
    BY <1>0, <2>1, ConcatProperties DEF two
  <2>3. Len(h) = m /\ Len(two) = 2 /\ two[1] = e /\ two[2] = f
    BY <1>2, <2>1 DEF two
  <2>4. m \in Nat /\ lead + 2 * (n + 1) = m + 2 /\ lead + 2 * (n + 1) - 1 = m + 1
    OBVIOUS
  <2> HIDE DEF h, m
  <2>5. Len(h \o two) = m + 2 /\ (h \o two)[m + 1] = e /\ (h \o two)[m + 2] = f
    <3>1. m + 1 \in 1..(m + 2) /\ m + 2 \in 1..(m + 2) /\ (m + 1) - m = 1 /\ (m + 2) - m = 2
      BY <2>4
    <3> QED
      BY <2>2, <2>3, <2>4, <3>1
  <2>6. \A i \in 1..m : (h \o two)[i] = h[i]
    BY <2>2, <2>3, <2>4
  <2> QED
    BY <2>2, <2>4, <2>5, <2>6 DEF two, m
<1> HIDE DEF all
<1>4. PairsAre(all, lead, n + 1, turn)
  <2>1. ASSUME NEW j \in 1..(n + 1)
        PROVE  /\ all[lead + 2 * j - 1][2] = "user" /\ all[lead + 2 * j][2] = "assistant"
               /\ all[lead + 2 * j - 1][1] = all[lead + 2 * j][1]
               /\ all[lead + 2 * j][1] + ((n + 1) - j) <= turn
    <3>1. CASE j = n + 1
      BY <1>0, <1>3, <3>1
    <3>2. CASE j # n + 1
      <4>1. j \in 1..n /\ lead + 2 * j - 1 \in 1..(lead + 2 * n) /\ lead + 2 * j \in 1..(lead + 2 * n)
        BY <3>2
      <4>2. all[lead + 2 * j - 1] = h[lead + 2 * j - 1] /\ all[lead + 2 * j] = h[lead + 2 * j]
        BY <1>3, <4>1
      <4>3. /\ h[lead + 2 * j - 1][2] = "user" /\ h[lead + 2 * j][2] = "assistant"
            /\ h[lead + 2 * j - 1][1] = h[lead + 2 * j][1]
            /\ h[lead + 2 * j][1] + (n - j) <= turn - 1
        BY <1>1, <4>1 DEF PairsAre
      <4>4. h[lead + 2 * j] \in Exchange
        BY <1>0, <1>2, <4>1
      <4>5. h[lead + 2 * j][1] \in Nat
        BY <4>4 DEF Exchange
      <4> QED
        BY <1>0, <4>2, <4>3, <4>5
    <3> QED
      BY <3>1, <3>2
  <2>2. lead \in {0, MaxHistory % 2} /\ (lead = 1 => all[1][2] = "assistant")
    <3>1. lead = 1 => 1 \in 1..(lead + 2 * n)
      OBVIOUS
    <3> QED
      BY <1>1, <1>3, <3>1 DEF PairsAre
  <2> QED
    BY <1>3, <2>1, <2>2 DEF PairsAre
<1>5. \A t \in 1..turn : t \notin unkept /\ 2 * (turn - t) + 1 < MaxHistory => \E j \in 1..(n + 1) : all[lead + 2 * j][1] = t
  <2> SUFFICES ASSUME NEW t \in 1..turn, t \notin unkept, 2 * (turn - t) + 1 < MaxHistory
               PROVE  \E j \in 1..(n + 1) : all[lead + 2 * j][1] = t
    OBVIOUS
  <2>1. CASE t = turn
    <3>1. n + 1 \in 1..(n + 1)
      OBVIOUS
    <3>2. all[lead + 2 * (n + 1)][1] = t
      BY <1>3, <2>1
    <3> QED
      BY <3>1, <3>2
  <2>2. CASE t # turn
    <3>1. t \in 1..(turn - 1)
      BY <1>0, <2>2
    <3>2. PICK j \in 1..n : h[lead + 2 * j][1] = t
      BY <1>1, <3>1 DEF HistoryKeeps
    <3>3. j \in 1..(n + 1) /\ lead + 2 * j \in 1..(lead + 2 * n)
      OBVIOUS
    <3> QED
      BY <1>3, <3>2, <3>3
  <2> QED
    BY <2>1, <2>2
<1>6. Newest' = turn
  BY DEF Newest
<1>7. CASE ~(Len(all) > MaxHistory /\ MaxHistory > 0)
  <2>1. session'.history = all
    BY <1>7 DEF P!Bounded, all
  <2>2. PairsAre(session'.history, lead, n + 1, Newest')
    BY <1>4, <1>6, <2>1
  <2>3. HistoryKeeps(session'.history, lead, n + 1, Newest', turn', unkept')
    BY <1>5, <1>6, <2>1 DEF HistoryKeeps
  <2>4. n + 1 \in Nat /\ session'.history \in Seq(Exchange)
    BY <1>3, <2>1
  <2> QED
    BY <2>2, <2>3, <2>4 DEF HistoryPaired
<1>8. CASE Len(all) > MaxHistory /\ MaxHistory > 0
  <2> DEFINE k == n + 1 - half
             from == Len(all) - MaxHistory + 1
             rest == SubSeq(all, from, Len(all))
  <2>0. Len(all) = lead + 2 * n + 2 /\ Len(all) \in Nat
    BY <1>3
  <2>1. /\ k \in Nat /\ (odd = 1 => k >= 1) /\ half + k = n + 1
        /\ from \in 1..(Len(all) + 1) /\ Len(all) - from + 1 = odd + 2 * half /\ from + odd = lead + 2 * k + 1
    BY <1>8, <2>0
  <2>2. session'.history = rest
    BY <1>8 DEF P!Bounded, all
  <2>3. rest \in Seq(Exchange) /\ Len(rest) = odd + 2 * half /\ \A i \in 1..(odd + 2 * half) : rest[i] = all[from + i - 1]
    BY <1>3, <2>1, SubSeqProperties
  <2> HIDE DEF k, from, rest
  <2>4. from \in Int /\ k \in Nat
    BY <2>1
  <2>5. \A j \in 1..half : /\ rest[odd + 2 * j - 1] = all[lead + 2 * (j + k) - 1]
                           /\ rest[odd + 2 * j] = all[lead + 2 * (j + k)]
    <3> TAKE j \in 1..half
    <3>1. odd + 2 * j - 1 \in 1..(odd + 2 * half) /\ odd + 2 * j \in 1..(odd + 2 * half)
      OBVIOUS
    <3>2. /\ from + (odd + 2 * j - 1) - 1 = lead + 2 * (j + k) - 1
          /\ from + (odd + 2 * j) - 1 = lead + 2 * (j + k)
      BY <2>1, <2>4
    <3> QED
      BY <2>3, <3>1, <3>2
  <2>6. PairsAre(rest, odd, half, turn)
    <3>1. ASSUME NEW j \in 1..half
          PROVE  /\ rest[odd + 2 * j - 1][2] = "user" /\ rest[odd + 2 * j][2] = "assistant"
                 /\ rest[odd + 2 * j - 1][1] = rest[odd + 2 * j][1]
                 /\ rest[odd + 2 * j][1] + (half - j) <= turn
      <4>1. j + k \in 1..(n + 1) /\ (n + 1) - (j + k) = half - j
        BY <2>1
      <4> QED
        BY <1>4, <2>5, <4>1 DEF PairsAre
    <3>2. ASSUME odd = 1 PROVE rest[1][2] = "assistant"
      <4>1. k \in 1..(n + 1) /\ from + 1 - 1 = lead + 2 * k /\ 1 \in 1..(odd + 2 * half)
        BY <2>1, <2>4, <3>2
      <4>2. rest[1] = all[lead + 2 * k]
        BY <2>3, <4>1
      <4> QED
        BY <1>4, <4>1, <4>2 DEF PairsAre
    <3> QED
      BY <2>3, <3>1, <3>2 DEF PairsAre
  <2>7. ASSUME NEW t \in 1..turn, t \notin unkept, 2 * (turn - t) + 1 < MaxHistory
        PROVE  \E j \in 1..half : rest[odd + 2 * j][1] = t
    <3>1. PICK i \in 1..(n + 1) : all[lead + 2 * i][1] = t
      BY <1>5, <2>7
    <3>2. t + (n + 1 - i) <= turn
      BY <1>4, <3>1 DEF PairsAre
    <3>3. i - k \in 1..half /\ (i - k) + k = i
      <4>1. t \in Int /\ turn \in Int /\ turn - t < half
        BY <1>0, <2>7
      <4>2. (n + 1) - i < half
        BY <3>2, <4>1
      <4> QED
        BY <2>1, <2>4, <4>2
    <3>4. rest[odd + 2 * (i - k)] = all[lead + 2 * ((i - k) + k)]
      BY <2>5, <3>3
    <3> QED
      BY <3>1, <3>3, <3>4
  <2>8. PairsAre(session'.history, odd, half, Newest')
    BY <1>6, <2>2, <2>6
  <2>9. HistoryKeeps(session'.history, odd, half, Newest', turn', unkept')
    BY <1>6, <2>2, <2>7 DEF HistoryKeeps
  <2> QED
    BY <2>2, <2>3, <2>8, <2>9 DEF HistoryPaired
<1> QED
  BY <1>7, <1>8

\* One more step of a loop that has steps left costs at most what a step may.
LEMMA LoopPays ==
    ASSUME NEW n \in Nat, NEW m \in Nat, n < m, NEW most \in Nat
    PROVE  most * (n + 1) = most * n + most /\ most * (n + 1) <= most * m /\ most * n <= most * m
<1>1. PICK d \in Nat : m = (n + 1) + d
  <2>1. m - (n + 1) \in Nat /\ m = (n + 1) + (m - (n + 1))
    OBVIOUS
  <2> QED
    BY <2>1
<1>2. most * n \in Nat /\ most * d \in Nat
  OBVIOUS
<1>3. most * (n + 1) = most * n + most
  OBVIOUS
<1>4. most * ((n + 1) + d) = most * (n + 1) + most * d
  OBVIOUS
<1> QED
  BY <1>1, <1>2, <1>3, <1>4

LEMMA PipelineStep == PipelineInv /\ [P!Next]_(P!pipeline) => PipelineInv'
<1> SUFFICES ASSUME PipelineInv, [P!Next]_(P!pipeline) PROVE PipelineInv'
  OBVIOUS
<1>0. PipelineTyped /\ Reported /\ HistoryPaired /\ RepliesAre
  BY DEF PipelineInv
<1>01. MaxSteps \in Nat \ {0} /\ MaxCalls \in Nat
  BY TurnConstants
<1>02. /\ native \in BOOLEAN /\ turn \in Nat \ {0} /\ loop \in Nat /\ acted \in Nat /\ results \in Nat
       /\ session \in PipelineSessions /\ answer \in Replies
  BY <1>0 DEF PipelineTyped
<1>03. P!Steps \in Nat /\ MaxCalls * 0 = 0
  BY <1>01 DEF P!Steps
\* The steps that take nothing but the place where the pipeline is.
<1>1. ASSUME NEW next \in {"semantic"} \cup (Late \ {"after_store", "done", "finalize", "after"}),
             at' = next, at # "done",
             at = "before" <=> next = "semantic",
             next = "action" => at = "after_store",
             at \in Late \/ next = "semantic",
             UNCHANGED <<native, turn, session, acted, results, answer, message, minns, unkept>>,
             loop' = loop
      PROVE  PipelineInv'
  <2>1. PipelineTyped'
    BY <1>0, <1>1 DEF PipelineTyped, Late
  <2>2. Reported'
    BY <1>0, <1>1 DEF Reported, P!Steps, Late
  <2>3. HistoryPaired'
    <3>1. at' # "done"
      BY <1>1 DEF Late
    <3> QED
      BY <1>0, <1>1, <3>1, HistoryRests
  <2>4. RepliesAre'
    BY <1>0, <1>1 DEF RepliesAre, Late
  <2> QED
    BY <2>1, <2>2, <2>3, <2>4 DEF PipelineInv
<1>2. ASSUME NEW what \in P!Intents, P!Intent(what) PROVE PipelineInv'
  BY <1>1, <1>2 DEF P!Intent, Late
<1>3. CASE P!EndLoop \/ P!Responds
  BY <1>1, <1>3 DEF P!EndLoop, P!Responds, Late
<1>4. CASE P!EnterLoop
  <2>1. loop' = loop
    BY <1>0, <1>4 DEF P!EnterLoop, Reported
  <2>2. at = "after_store" /\ at' \in {"goal", "action"}
    BY <1>4 DEF P!EnterLoop
  <2>3. UNCHANGED <<native, turn, session, acted, results, answer, message, minns, unkept>>
    BY <1>4 DEF P!EnterLoop
  <2> QED
    BY <1>1, <2>1, <2>2, <2>3 DEF Late
<1>5. ASSUME NEW marked \in BOOLEAN, NEW arrives \in BOOLEAN, P!SemanticWrite(marked, arrives) PROVE PipelineInv'
  <2>0. /\ at = "semantic" /\ at' = "complexity" /\ minns = <<>> /\ minns' \in {<<>>, <<"user">>}
        /\ UNCHANGED <<native, turn, session, loop, acted, results, answer, message, unkept>>
    BY <1>0, <1>5 DEF P!SemanticWrite, RepliesAre
  <2>1. PipelineTyped'
    BY <1>0, <2>0 DEF PipelineTyped
  <2>2. Reported'
    BY <1>0, <2>0 DEF Reported, P!Steps, Late
  <2>3. HistoryPaired'
    BY <1>0, <2>0, HistoryRests
  <2>4. RepliesAre'
    BY <2>0 DEF RepliesAre
  <2> QED
    BY <2>1, <2>2, <2>3, <2>4 DEF PipelineInv
<1>6. ASSUME NEW complexity \in {"trivial", "greeting", "simple", "moderate"}, P!Complexity(complexity) PROVE PipelineInv'
  <2>0. /\ at = "complexity" /\ at' \in {"after_store", "auto_store"}
        /\ UNCHANGED <<native, turn, session, loop, acted, results, answer, message, minns, unkept>>
    BY <1>6 DEF P!Complexity
  <2>1. PipelineTyped'
    BY <1>0, <2>0 DEF PipelineTyped, Late
  <2>2. Reported'
    BY <1>0, <2>0 DEF Reported, P!Steps, Late
  <2>3. HistoryPaired'
    BY <1>0, <2>0, HistoryRests
  <2>4. RepliesAre'
    BY <1>0, <2>0 DEF RepliesAre
  <2> QED
    BY <2>1, <2>2, <2>3, <2>4 DEF PipelineInv
<1>7. ASSUME NEW gives \in BOOLEAN, NEW succeeds \in BOOLEAN, P!AutoStore(gives, succeeds) PROVE PipelineInv'
  <2>0. /\ at = "auto_store" /\ at' = "after_store" /\ acted = 0 /\ loop = 0 /\ results = 0
        /\ UNCHANGED <<native, turn, loop, answer, message, minns, unkept>>
    BY <1>0, <1>7 DEF P!AutoStore, Reported, Late
  <2>1. acted' \in {0, 1} /\ results' = acted'
    BY <1>7, <2>0 DEF P!AutoStore
  <2>2. session' \in PipelineSessions /\ session'.history = session.history
    <3>1. PICK b : session' = [session EXCEPT !.fact = b] /\ b \in BOOLEAN
      BY <1>02, <1>7 DEF P!AutoStore, PipelineSessions
    <3> QED
      BY <1>02, <3>1 DEF PipelineSessions
  <2>3. PipelineTyped'
    BY <1>0, <2>0, <2>1, <2>2 DEF PipelineTyped, Late
  <2>4. Reported'
    BY <1>0, <1>01, <1>02, <1>03, <2>0, <2>1 DEF Reported, P!Steps, Late
  <2>5. HistoryPaired'
    BY <1>0, <2>0, <2>2, HistoryRests
  <2>6. RepliesAre'
    BY <1>0, <2>0 DEF RepliesAre
  <2> QED
    BY <2>3, <2>4, <2>5, <2>6 DEF PipelineInv
<1>8. ASSUME NEW count \in 0..MaxCalls, NEW failed \in 0..MaxCalls, NEW stores \in BOOLEAN, P!Acts(count, failed, stores)
      PROVE  PipelineInv'
  <2>0. /\ at = "action" /\ loop < P!Steps /\ loop' = loop + 1 /\ (~native => count <= 1) /\ count \in Nat
        /\ acted' = acted + count /\ results' = results + count
        /\ UNCHANGED <<native, turn, at, answer, message, minns, unkept>>
    BY <1>01, <1>02, <1>03, <1>8 DEF P!Acts, P!Reported, P!LoopEnds
  <2>1. session' \in PipelineSessions /\ session'.history = session.history
    <3>1. PICK b : session' = [session EXCEPT !.fact = b] /\ b \in BOOLEAN
      BY <1>02, <1>8 DEF P!Acts, PipelineSessions
    <3> QED
      BY <1>02, <3>1 DEF PipelineSessions
  <2>2. PipelineTyped'
    BY <1>0, <2>0, <2>1 DEF PipelineTyped
  <2>3. Reported'
    <3>1. MaxCalls * (loop + 1) = MaxCalls * loop + MaxCalls /\ MaxCalls * loop \in Nat
      BY <1>01, <1>02, <1>03, <2>0, LoopPays
    <3>2. loop' <= P!Steps /\ P!Steps' = P!Steps
      BY <1>02, <1>03, <2>0 DEF P!Steps
    <3>3. acted' <= 1 + (IF native THEN MaxCalls * (loop + 1) ELSE loop + 1)
      BY <1>0, <1>01, <1>02, <2>0, <3>1 DEF Reported
    <3>4. acted' = results'
      BY <1>0, <2>0 DEF Reported
    <3> QED
      BY <2>0, <3>2, <3>3, <3>4 DEF Reported, Late
  <2>4. HistoryPaired'
    BY <1>0, <2>0, <2>1, HistoryRests
  <2>5. RepliesAre'
    BY <1>0, <2>0 DEF RepliesAre
  <2> QED
    BY <2>2, <2>3, <2>4, <2>5 DEF PipelineInv
<1>9. CASE P!GoalCheck
  <2>0. /\ at = "goal" /\ at' = "response"
        /\ UNCHANGED <<native, turn, loop, acted, results, answer, message, minns, unkept>>
    BY <1>9 DEF P!GoalCheck
  <2>1. session' \in PipelineSessions /\ session'.history = session.history
    <3>1. PICK b, c : session' = [session EXCEPT !.goal = b, !.goalAt = c] /\ b \in BOOLEAN /\ c \in BOOLEAN
      BY <1>02, <1>9 DEF P!GoalCheck, P!GoalAfter, P!Completed, PipelineSessions
    <3> QED
      BY <1>02, <3>1 DEF PipelineSessions
  <2>2. PipelineTyped'
    BY <1>0, <2>0, <2>1 DEF PipelineTyped, Late
  <2>3. Reported'
    BY <1>0, <2>0 DEF Reported, P!Steps, Late
  <2>4. HistoryPaired'
    BY <1>0, <2>0, <2>1, HistoryRests
  <2>5. RepliesAre'
    BY <1>0, <2>0 DEF RepliesAre
  <2> QED
    BY <2>2, <2>3, <2>4, <2>5 DEF PipelineInv
<1>10. ASSUME NEW yes \in BOOLEAN, NEW says \in {"answer", "empty"}, P!Respond(says) \/ P!Critique(yes) \/ P!AfterExecute(yes)
       PROVE  PipelineInv'
  <2>0. /\ at \in {"response", "critique", "after"} /\ at' \in {"critique", "after", "finalize"}
        /\ UNCHANGED <<native, turn, session, loop, acted, results, minns, unkept>>
    BY <1>10 DEF P!Respond, P!Critique, P!AfterExecute
  <2>1. /\ answer' \in Replies /\ (at' = "after" => answer' = message')
        /\ at' = "finalize" => answer' \in {message', "changed"}
    BY <1>0, <1>02, <1>10 DEF P!Respond, P!Critique, P!AfterExecute, RepliesAre, Replies
  <2>2. PipelineTyped'
    BY <1>0, <2>0, <2>1 DEF PipelineTyped, Late
  <2>3. Reported'
    BY <1>0, <2>0 DEF Reported, P!Steps, Late
  <2>4. HistoryPaired'
    BY <1>0, <2>0, HistoryRests
  <2>5. RepliesAre'
    BY <1>0, <2>0, <2>1 DEF RepliesAre
  <2> QED
    BY <2>2, <2>3, <2>4, <2>5 DEF PipelineInv
<1>11. ASSUME NEW arrives \in BOOLEAN, P!Finalize(arrives) PROVE PipelineInv'
  <2>0. /\ at = "finalize" /\ at' = "done"
        /\ UNCHANGED <<native, turn, loop, acted, results, answer, message>>
    BY <1>11 DEF P!Finalize
  <2>1. session' \in PipelineSessions /\ HistoryPaired'
    <3>1. CASE arrives
      <4> DEFINE e == <<turn, "user", "said">>
                 f == <<turn, "assistant", answer>>
      <4>1. e \in Exchange /\ f \in Exchange /\ e[1] = turn /\ f[1] = turn /\ e[2] = "user" /\ f[2] = "assistant"
        BY <1>02 DEF Exchange
      <4>2. unkept' = unkept /\ session' = [session EXCEPT !.history = P!Bounded(session.history \o <<e, f>>)]
        BY <1>11, <3>1 DEF P!Finalize
      <4>3. session'.history = P!Bounded(session.history \o <<e, f>>)
        BY <1>02, <4>2 DEF PipelineSessions
      <4>4. PICK half \in Nat, odd \in {0, 1} : MaxHistory = 2 * half + odd /\ odd = MaxHistory % 2
        <5>1. /\ MaxHistory \div 2 \in Nat /\ MaxHistory % 2 \in {0, 1}
              /\ MaxHistory = 2 * (MaxHistory \div 2) + (MaxHistory % 2)
          BY TurnConstants
        <5> QED
          BY <5>1
      <4> HIDE DEF e, f
      <4>5. session'.history \in Seq(Exchange) /\ HistoryPaired'
        BY <1>0, <2>0, <4>1, <4>2, <4>3, <4>4, HistoryBounded
      <4>6. session' \in PipelineSessions
        BY <1>02, <4>2, <4>5 DEF PipelineSessions
      <4> QED
        BY <4>5, <4>6
    <3>2. CASE ~arrives
      <4>1. session' = session /\ unkept' = unkept \cup {turn}
        BY <1>11, <3>2 DEF P!Finalize
      <4>2. Newest' = turn /\ Newest = turn - 1
        BY <2>0 DEF Newest
      <4>3. PICK lead \in {0, 1}, n \in Nat :
              PairsAre(session.history, lead, n, turn - 1) /\ HistoryKeeps(session.history, lead, n, turn - 1, turn, unkept)
        BY <1>0, <4>2 DEF HistoryPaired
      <4>4. \A j \in 1..n : session.history[lead + 2 * j][1] \in Nat
        <5>1. session.history \in Seq(Exchange) /\ Len(session.history) = lead + 2 * n
          BY <1>02, <4>3 DEF PipelineSessions, PairsAre
        <5>2. ASSUME NEW j \in 1..n PROVE session.history[lead + 2 * j] \in Exchange
          <6>1. lead + 2 * j \in 1..Len(session.history)
            BY <5>1
          <6> QED
            BY <5>1, <6>1
        <5> QED
          BY <5>2 DEF Exchange
      <4>5. PairsAre(session.history, lead, n, turn)
        <5>1. \A j \in 1..n : session.history[lead + 2 * j][1] + (n - j) <= turn
          <6> TAKE j \in 1..n
          <6>1. /\ session.history[lead + 2 * j][1] \in Nat /\ n - j \in Int
                /\ session.history[lead + 2 * j][1] + (n - j) <= turn - 1
            BY <4>3, <4>4 DEF PairsAre
          <6> QED
            BY <1>02, <6>1
        <5> QED
          BY <4>3, <5>1 DEF PairsAre
      <4>6. HistoryKeeps(session.history, lead, n, turn, turn, unkept')
        BY <1>02, <4>1, <4>3 DEF HistoryKeeps
      <4> QED
        BY <1>02, <2>0, <4>1, <4>2, <4>5, <4>6 DEF HistoryPaired
    <3> QED
      BY <3>1, <3>2
  <2>2. PipelineTyped'
    BY <1>0, <2>0, <2>1 DEF PipelineTyped, Late
  <2>3. Reported'
    BY <1>0, <2>0 DEF Reported, P!Steps, Late
  <2>4. RepliesAre'
    <3>1. minns \in {<<>>, <<"user">>}
      BY <1>0, <2>0 DEF RepliesAre
    <3>2. minns' \in {<<>>, <<"user">>, <<"assistant">>, <<"user", "assistant">>}
      <4>1. minns' = minns \/ minns' = Append(minns, "assistant")
        BY <1>11 DEF P!Finalize
      <4>2. Append(<<>>, "assistant") = <<"assistant">>
        OBVIOUS
      <4>3. Append(<<"user">>, "assistant") = <<"user", "assistant">>
        <5> DEFINE both == Append(<<"user">>, "assistant")
        <5>1. both \in Seq({"user", "assistant"}) /\ Len(both) = 2 /\ both[1] = "user" /\ both[2] = "assistant"
          OBVIOUS
        <5> HIDE DEF both
        <5>2. both = <<"user", "assistant">>
          BY <5>1
        <5> QED
          BY <5>2 DEF both
      <4> QED
        BY <3>1, <4>1, <4>2, <4>3, Zenon
    <3> QED
      BY <1>0, <2>0, <3>2 DEF RepliesAre
  <2> QED
    BY <2>1, <2>2, <2>3, <2>4 DEF PipelineInv
<1>12. CASE P!NextMessage
  <2>0. /\ at = "done" /\ at' = "before" /\ turn' = turn + 1 /\ UNCHANGED <<native, session, unkept>>
        /\ loop' = 0 /\ acted' = 0 /\ results' = 0 /\ answer' = "none" /\ minns' = <<>>
    BY <1>12 DEF P!NextMessage
  <2>1. PipelineTyped'
    BY <1>0, <1>02, <2>0 DEF PipelineTyped, Replies
  <2>2. Reported'
    <3>1. P!Steps' = P!Steps
      BY <2>0 DEF P!Steps
    <3> QED
      BY <1>03, <2>0, <3>1 DEF Reported, Late
  <2>3. HistoryPaired'
    <3>1. Newest' = turn /\ Newest = turn
      BY <1>02, <2>0 DEF Newest
    <3>2. PICK lead \in {0, 1}, n \in Nat :
            PairsAre(session.history, lead, n, turn) /\ HistoryKeeps(session.history, lead, n, turn, turn, unkept)
      BY <1>0, <3>1 DEF HistoryPaired
    <3>3. HistoryKeeps(session.history, lead, n, turn, turn + 1, unkept)
      <4>1. \A t \in 1..turn : 2 * ((turn + 1) - t) + 1 < MaxHistory => 2 * (turn - t) + 1 < MaxHistory
        BY <1>02, TurnConstants
      <4> QED
        BY <3>2, <4>1 DEF HistoryKeeps
    <3> QED
      BY <2>0, <3>1, <3>2, <3>3 DEF HistoryPaired
  <2>4. RepliesAre'
    BY <2>0 DEF RepliesAre
  <2> QED
    BY <2>1, <2>2, <2>3, <2>4 DEF PipelineInv
<1>13. CASE UNCHANGED P!pipeline
  BY <1>0, <1>13 DEF PipelineInv, P!pipeline, PipelineTyped, Reported, P!Steps, HistoryPaired, Newest, RepliesAre
<1>14. CASE P!Advance
  BY <1>2, <1>3, <1>4, <1>5, <1>6, <1>7, <1>8, <1>9, <1>10, <1>11, <1>14, Zenon DEF P!Advance
<1> QED
  BY <1>12, <1>13, <1>14 DEF P!Next

LEMMA PipelineSound == PipelineInv => P!CallsAreReported /\ P!ExchangesKept
<1> SUFFICES ASSUME PipelineInv PROVE P!CallsAreReported /\ P!ExchangesKept
  OBVIOUS
<1>0. PipelineTyped /\ Reported /\ HistoryPaired /\ RepliesAre /\ MaxSteps \in Nat \ {0} /\ MaxCalls \in Nat
  BY TurnConstants DEF PipelineInv
<1>1. P!CallsAreReported
  <2>1. native \in BOOLEAN /\ loop \in Nat /\ acted \in Nat
    BY <1>0 DEF PipelineTyped
  <2>2. CASE native
    <3>1. loop <= MaxSteps /\ acted <= 1 + MaxCalls * loop
      BY <1>0, <2>2 DEF Reported, P!Steps
    <3>2. MaxCalls * loop <= MaxCalls * MaxSteps /\ MaxCalls * loop \in Nat /\ MaxCalls * MaxSteps \in Nat
      <4>1. CASE loop = MaxSteps
        BY <1>0, <2>1, <4>1
      <4>2. CASE loop < MaxSteps
        BY <1>0, <2>1, <4>2, LoopPays
      <4> QED
        BY <1>0, <2>1, <3>1, <4>1, <4>2
    <3>3. acted <= 1 + MaxCalls * MaxSteps
      BY <2>1, <3>1, <3>2
    <3> QED
      BY <1>0, <2>2, <3>3 DEF P!CallsAreReported, Reported
  <2>3. CASE ~native
    <3>1. loop <= MaxSteps - 1 /\ acted <= 1 + loop /\ acted = results
      BY <1>0, <2>3 DEF Reported, P!Steps
    <3>2. acted <= 1 + (MaxSteps - 1)
      BY <1>0, <2>1, <3>1
    <3> QED
      BY <2>3, <3>1, <3>2 DEF P!CallsAreReported
  <2> QED
    BY <2>2, <2>3
<1>2. P!ExchangesKept
  <2> DEFINE h == session.history
             odd == Len(h) % 2
  <2>1. PICK lead \in {0, 1}, n \in Nat : PairsAre(h, lead, n, Newest) /\ HistoryKeeps(h, lead, n, Newest, turn, unkept)
    BY <1>0 DEF HistoryPaired
  <2>2. h \in Seq(Exchange) /\ Len(h) = lead + 2 * n /\ DOMAIN h = 1..(lead + 2 * n) /\ turn \in Nat \ {0}
    BY <1>0, <2>1 DEF PipelineTyped, PipelineSessions, PairsAre
  <2>3. /\ at = "done" => answer \in {message, "changed"}
        /\ minns \in {<<>>, <<"user">>, <<"assistant">>, <<"user", "assistant">>}
    BY <1>0 DEF RepliesAre
  <2> HIDE DEF h
  <2>31. odd = lead
    BY <2>2
  <2>32. odd = 1 => MaxHistory % 2 = 1
    BY <2>1, <2>31 DEF PairsAre
  <2> HIDE DEF odd
  <2>4. ASSUME NEW i \in DOMAIN h
        PROVE  /\ h[i][2] = (IF (i + odd) % 2 = 1 THEN "user" ELSE "assistant")
               /\ (i + odd) % 2 = 1 => h[i][1] = h[i + 1][1]
    <3>1. i \in 1..(lead + 2 * n)
      BY <2>2
    <3>2. CASE (i + lead) % 2 = 1
      <4>1. PICK j \in 1..n : i = lead + 2 * j - 1
        <5>1. CASE lead = 0
          <6>1. (i + 1) \div 2 \in 1..n /\ i = 2 * ((i + 1) \div 2) - 1
            BY <3>1, <3>2, <5>1
          <6> QED
            BY <5>1, <6>1
        <5>2. CASE lead = 1
          <6>1. i \div 2 \in 1..n /\ i = 2 * (i \div 2)
            BY <3>1, <3>2, <5>2
          <6> QED
            BY <5>2, <6>1
        <5> QED
          BY <5>1, <5>2
      <4>2. i + 1 = lead + 2 * j
        BY <4>1
      <4> QED
        BY <2>1, <2>31, <3>2, <4>1, <4>2 DEF PairsAre
    <3>3. CASE (i + lead) % 2 # 1 /\ i > lead
      <4>1. PICK j \in 1..n : i = lead + 2 * j
        <5>1. (i - lead) \div 2 \in 1..n /\ i = lead + 2 * ((i - lead) \div 2)
          BY <3>1, <3>3
        <5> QED
          BY <5>1
      <4> QED
        BY <2>1, <2>31, <3>3, <4>1 DEF PairsAre
    <3>4. CASE i <= lead
      <4>1. i = 1 /\ lead = 1
        BY <3>1, <3>4
      <4>2. h[1][2] = "assistant"
        BY <2>1, <4>1 DEF PairsAre
      <4> QED
        BY <2>31, <4>1, <4>2
    <3> QED
      BY <3>1, <3>2, <3>3, <3>4
  <2>5. ASSUME NEW t \in 1..turn, t < turn \/ at = "done", t \notin unkept, 2 * (turn - t) + 1 < MaxHistory
        PROVE  \E i \in DOMAIN h : h[i][1] = t /\ h[i][2] = "user"
    <3>1. t \in 1..Newest
      BY <2>2, <2>5 DEF Newest
    <3>2. PICK j \in 1..n : h[lead + 2 * j][1] = t
      BY <2>1, <2>5, <3>1 DEF HistoryKeeps
    <3>3. lead + 2 * j - 1 \in DOMAIN h
      BY <2>2
    <3>4. h[lead + 2 * j - 1][1] = t /\ h[lead + 2 * j - 1][2] = "user"
      BY <2>1, <3>2 DEF PairsAre
    <3> QED
      BY <3>3, <3>4
  <2> QED
    BY <2>3, <2>32, <2>4, <2>5 DEF P!ExchangesKept, h, odd
<1> QED
  BY <1>1, <1>2

\* Once the goal was reached there, the loop is over, and the check after it keeps it.
LEMMA GoalKept == PipelineInv /\ [P!Next]_(P!pipeline) => [session.goalAt => session'.goalAt /\ (at = "goal" => session'.goal) /\ loop' <= loop]_(P!pipeline)
<1> SUFFICES ASSUME PipelineInv, P!Next, session.goalAt
             PROVE  session'.goalAt /\ (at = "goal" => session'.goal) /\ loop' <= loop
  BY DEF P!pipeline
<1>0. session \in PipelineSessions /\ loop \in Nat
  BY DEF PipelineInv, PipelineTyped
<1>1. ASSUME NEW yes \in BOOLEAN, NEW other \in BOOLEAN, P!AutoStore(yes, other) PROVE session'.goalAt
  BY <1>0, <1>1 DEF P!AutoStore, PipelineSessions
<1>2. ASSUME NEW yes \in BOOLEAN, P!Finalize(yes) PROVE session'.goalAt
  BY <1>0, <1>2 DEF P!Finalize, PipelineSessions
<1>3. ASSUME P!GoalCheck PROVE session'.goalAt /\ session'.goal
  BY <1>0, <1>3 DEF P!GoalCheck, P!GoalAfter, P!Completed, PipelineSessions
<1>4. ASSUME NEW count \in 0..MaxCalls, NEW failed \in 0..MaxCalls, NEW stores \in BOOLEAN, P!Acts(count, failed, stores)
      PROVE  FALSE
  BY <1>4 DEF P!Acts, P!LoopEnds, P!Completed
<1>5. CASE P!NextMessage
  BY <1>0, <1>5 DEF P!NextMessage
<1>6. CASE P!Advance
  <2>1. ASSUME NEW what \in P!Intents, P!Intent(what) PROVE UNCHANGED <<session, loop>> /\ at # "goal"
    BY <2>1 DEF P!Intent
  <2>2. ASSUME NEW complexity \in {"trivial", "greeting", "simple", "moderate"}, P!Complexity(complexity)
        PROVE UNCHANGED <<session, loop>> /\ at # "goal"
    BY <2>2 DEF P!Complexity
  <2>3. ASSUME NEW yes \in BOOLEAN, NEW other \in BOOLEAN, P!SemanticWrite(yes, other) \/ P!Critique(yes) \/ P!AfterExecute(yes)
        PROVE UNCHANGED <<session, loop>> /\ at # "goal"
    BY <2>3 DEF P!SemanticWrite, P!Critique, P!AfterExecute
  <2>4. ASSUME NEW says \in {"answer", "empty"}, P!EndLoop \/ P!Responds \/ P!Respond(says)
        PROVE UNCHANGED <<session, loop>> /\ at # "goal"
    BY <2>4 DEF P!EndLoop, P!Responds, P!Respond
  <2>5. ASSUME P!EnterLoop PROVE session' = session /\ loop' <= loop /\ at # "goal"
    BY <1>0, <2>5 DEF P!EnterLoop
  <2>6. ASSUME NEW yes \in BOOLEAN, NEW other \in BOOLEAN, P!AutoStore(yes, other) PROVE loop' = loop /\ at # "goal"
    BY <2>6 DEF P!AutoStore
  <2>7. ASSUME NEW yes \in BOOLEAN, P!Finalize(yes) PROVE loop' = loop /\ at # "goal"
    BY <2>7 DEF P!Finalize
  <2>8. ASSUME P!GoalCheck PROVE loop' = loop
    BY <2>8 DEF P!GoalCheck
  <2> QED
    BY <1>0, <1>1, <1>2, <1>3, <1>4, <1>6, <2>1, <2>2, <2>3, <2>4, <2>5, <2>6, <2>7, <2>8 DEF P!Advance
<1> QED
  BY <1>5, <1>6 DEF P!Next

-----------------------------------------------------------------------------
(***************************************************************************)
(* The pipeline's graph.  What a call has still ahead went out at most     *)
(* once for each call that died; a call that is dead has all of it ahead.  *)
(***************************************************************************)
GraphStates ==
    [intent : {"none", "inform", "query"}, level : {"none", "trivial", "simple"},
     plan : {"none", "proposed", "edited"}, fact : BOOLEAN, goal : BOOLEAN, results : Nat,
     reply : {"none", "answer", "edited", "rewritten"}, history : Nat]

ToMessage == {"intent_parse", "semantic_write"}

ToFact == ToMessage \cup {"meta_reasoning", "reflexion", "plan_generation", "auto_store"}

ToTools == ToFact \cup {"action_loop", "paused"}

ToReply == ToTools \cup {"goal_check", "response_generation", "self_critique", "finalize"}

NodeOf == [message |-> "semantic_write", fact |-> "auto_store", tools |-> "action_loop", reply |-> "finalize"]

To == [message |-> ToMessage, fact |-> ToFact, tools |-> ToTools, reply |-> ToReply]

Kinds == {"message", "fact", "tools", "reply"}

IsAhead(kind) == node \in To[kind] /\ unsaved # NodeOf[kind]

GraphTyped ==
    /\ node \in ToReply \cup {"END", "dead"}
    /\ unsaved \in {"none"} \cup (ToReply \ {"paused"}) /\ (unsaved # "none" => unsaved = node)
    /\ state \in GraphStates
    /\ checkpoint.state \in GraphStates /\ checkpoint.interrupted \in BOOLEAN
    /\ checkpoint = [state |-> checkpoint.state, node |-> checkpoint.node, interrupted |-> checkpoint.interrupted]
    /\ sends \in [Kinds -> Nat] /\ crashes \in Nat /\ plan \in {"none", "edited"}

SentOnce ==
    /\ \A kind \in Kinds : sends[kind] <= IF IsAhead(kind) \/ node = "dead" THEN crashes ELSE 1 + crashes
    /\ state.results <= sends["fact"] + sends["tools"]
    /\ checkpoint.state.results <= sends["fact"] + sends["tools"]
    /\ IsAhead("reply") => state.history = 0
    /\ state.history <= 1 /\ state.history <= sends["reply"]
    /\ node = "paused" => checkpoint.interrupted
    /\ checkpoint.interrupted => checkpoint.state.history = 0

EditLives ==
    plan = "edited" /\ crashes = 0 =>
        \/ node = "paused" /\ checkpoint.state.plan = "edited"
        \/ /\ node \in {"action_loop", "goal_check", "response_generation", "self_critique", "finalize", "END"}
           /\ state.plan = "edited"
           /\ node \in {"self_critique", "finalize", "END"} \/ unsaved = "response_generation" => state.reply # "answer"

GraphInv == GraphTyped /\ SentOnce /\ EditLives

LEMMA GraphStart == G!Init => GraphInv
<1> SUFFICES ASSUME G!Init PROVE GraphInv
  OBVIOUS
<1>0. /\ node = "intent_parse" /\ state = G!Input /\ unsaved = "none" /\ fresh = FALSE /\ plan = "none" /\ crashes = 0
      /\ checkpoint = [state |-> G!Input, node |-> "none", interrupted |-> FALSE]
      /\ sends = [message |-> 0, fact |-> 0, tools |-> 0, reply |-> 0]
  BY DEF G!Init, G!NoCheckpoint
<1>1. G!Input \in GraphStates /\ G!Input.results = 0 /\ G!Input.history = 0
  BY DEF G!Input, GraphStates
<1>2. sends \in [Kinds -> Nat] /\ \A kind \in Kinds : sends[kind] = 0
  BY <1>0 DEF Kinds
<1>3. GraphTyped
  BY <1>0, <1>1, <1>2 DEF GraphTyped, ToReply, ToTools, ToFact, ToMessage
<1>4. SentOnce
  BY <1>0, <1>1, <1>2 DEF SentOnce, Kinds
<1> QED
  BY <1>0, <1>3, <1>4 DEF GraphInv, EditLives

\* A node that has run: what the step says of the state and of what went out.
LEMMA NodeRuns ==
    ASSUME GraphInv, unsaved = "none", node \in ToReply \ {"paused"},
           UNCHANGED <<node, checkpoint, plan, crashes>>, unsaved' = node, state' \in GraphStates,
           sends' \in [Kinds -> Nat],
           \A kind \in Kinds : sends'[kind] = sends[kind] \/ (node = NodeOf[kind] /\ sends'[kind] = sends[kind] + 1),
           state'.results = state.results \/ (state'.results = state.results + 1 /\
               sends'["fact"] + sends'["tools"] = sends["fact"] + sends["tools"] + 1),
           \/ state'.history = state.history
           \/ node = "finalize" /\ state'.history = state.history + 1 /\ sends'["reply"] = sends["reply"] + 1,
           state'.plan = state.plan \/ node = "plan_generation",
           IF node = "response_generation" THEN state.plan = "edited" => state'.reply = "edited"
                                           ELSE state'.reply \in {state.reply, "rewritten"}
    PROVE  GraphInv'
<1>0. GraphTyped /\ SentOnce /\ EditLives
  BY DEF GraphInv
<1>01. /\ state \in GraphStates /\ crashes \in Nat /\ sends \in [Kinds -> Nat]
  BY <1>0 DEF GraphTyped
<1>1. GraphTyped'
  BY <1>0 DEF GraphTyped
<1>2. \A kind \in Kinds : sends[kind] \in Nat /\ sends'[kind] \in Nat /\ sends'[kind] >= sends[kind]
  BY <1>01
<1>3. "fact" \in Kinds /\ "tools" \in Kinds /\ "reply" \in Kinds
  BY DEF Kinds
<1>4. \A kind \in Kinds : sends'[kind] <= IF IsAhead(kind)' \/ node' = "dead" THEN crashes' ELSE 1 + crashes'
  <2> SUFFICES ASSUME NEW kind \in Kinds
               PROVE  sends'[kind] <= IF IsAhead(kind)' \/ node' = "dead" THEN crashes' ELSE 1 + crashes'
    OBVIOUS
  <2>1. NodeOf[kind] \in To[kind] /\ NodeOf[kind] # "none" /\ node # "dead"
    BY <1>0 DEF Kinds, NodeOf, To, ToMessage, ToFact, ToTools, ToReply
  <2>2. sends[kind] <= IF IsAhead(kind) \/ node = "dead" THEN crashes ELSE 1 + crashes
    BY <1>0 DEF SentOnce
  <2>3. CASE node = NodeOf[kind]
    <3>1. IsAhead(kind) /\ ~IsAhead(kind)'
      BY <2>1, <2>3 DEF IsAhead
    <3> QED
      BY <1>01, <1>2, <2>1, <2>2, <3>1
  <2>4. CASE node # NodeOf[kind]
    <3>1. IsAhead(kind)' = IsAhead(kind) /\ sends'[kind] = sends[kind]
      BY <2>1, <2>4 DEF IsAhead
    <3> QED
      BY <2>2, <3>1
  <2> QED
    BY <2>3, <2>4
<1>5. state'.results <= sends'["fact"] + sends'["tools"] /\ checkpoint.state.results <= sends'["fact"] + sends'["tools"]
  <2>1. /\ state.results \in Nat /\ checkpoint.state.results \in Nat
        /\ state.results <= sends["fact"] + sends["tools"] /\ checkpoint.state.results <= sends["fact"] + sends["tools"]
    BY <1>0 DEF GraphTyped, SentOnce, GraphStates
  <2> QED
    BY <1>2, <1>3, <2>1
<1>6. IsAhead("reply") /\ state.history = 0
  <2>1. IsAhead("reply")
    BY DEF IsAhead, To, NodeOf
  <2> QED
    BY <1>0, <2>1 DEF SentOnce
<1>7. (IsAhead("reply")' => state'.history = 0) /\ state'.history <= 1 /\ state'.history <= sends'["reply"]
  <2>1. IsAhead("reply")' => node # "finalize"
    BY DEF IsAhead, NodeOf
  <2> QED
    BY <1>2, <1>3, <1>6, <2>1
<1>8. SentOnce'
  BY <1>0, <1>4, <1>5, <1>7 DEF SentOnce
<1>9. EditLives'
  BY <1>0 DEF EditLives, GraphTyped
<1> QED
  BY <1>1, <1>8, <1>9 DEF GraphInv

LEMMA GraphStep == GraphInv /\ [G!Next]_(G!graphVars) => GraphInv'
<1> SUFFICES ASSUME GraphInv, [G!Next]_(G!graphVars) PROVE GraphInv'
  OBVIOUS
<1>0. GraphTyped /\ SentOnce /\ EditLives
  BY DEF GraphInv
<1>01. /\ state \in GraphStates /\ crashes \in Nat /\ sends \in [Kinds -> Nat]
       /\ sends["message"] \in Nat /\ sends["fact"] \in Nat /\ sends["tools"] \in Nat /\ sends["reply"] \in Nat
  BY <1>0 DEF GraphTyped, Kinds
<1>02. /\ state.results \in Nat /\ state.history \in Nat
       /\ state = [intent |-> state.intent, level |-> state.level, plan |-> state.plan, fact |-> state.fact,
                   goal |-> state.goal, results |-> state.results, reply |-> state.reply, history |-> state.history]
  BY <1>01 DEF GraphStates
\* The nodes from which nothing goes out.
<1>1. ASSUME unsaved = "none", node \in ToReply \ {"paused"}, UNCHANGED <<node, checkpoint, plan, crashes, sends>>,
             unsaved' = node, state' \in GraphStates, state'.results = state.results, state'.history = state.history,
             state'.plan = state.plan \/ node = "plan_generation",
             IF node = "response_generation" THEN state.plan = "edited" => state'.reply = "edited"
                                             ELSE state'.reply \in {state.reply, "rewritten"}
      PROVE  GraphInv'
  BY <1>1, <1>01, NodeRuns
<1>2. ASSUME NEW what \in {"inform", "query"}, G!IntentParse(what) PROVE GraphInv'
  <2>1. /\ state' \in GraphStates /\ state'.results = state.results /\ state'.history = state.history
        /\ state'.plan = state.plan /\ state'.reply = state.reply
    BY <1>01, <1>2 DEF G!IntentParse, G!Merged, GraphStates
  <2>2. /\ unsaved = "none" /\ node = "intent_parse" /\ unsaved' = node /\ UNCHANGED <<node, checkpoint, plan, crashes, sends>>
    BY <1>2 DEF G!IntentParse, G!Merged, G!Ready
  <2> QED
    BY <1>1, <2>1, <2>2 DEF ToReply, ToTools, ToFact, ToMessage
<1>3. ASSUME NEW rank \in {"none", "trivial", "simple"}, G!MetaReasoning(rank) PROVE GraphInv'
  <2>1. /\ state' \in GraphStates /\ state'.results = state.results /\ state'.history = state.history
        /\ state'.plan = state.plan /\ state'.reply = state.reply
    BY <1>01, <1>3 DEF G!MetaReasoning, G!Merged, GraphStates
  <2>2. /\ unsaved = "none" /\ node = "meta_reasoning" /\ unsaved' = node /\ UNCHANGED <<node, checkpoint, plan, crashes, sends>>
    BY <1>3 DEF G!MetaReasoning, G!Merged, G!Ready
  <2> QED
    BY <1>1, <2>1, <2>2 DEF ToReply, ToTools, ToFact
<1>4. CASE G!Reflexion
  <2>1. /\ state' = state /\ unsaved = "none" /\ node = "reflexion" /\ unsaved' = node
        /\ UNCHANGED <<node, checkpoint, plan, crashes, sends>>
    BY <1>4 DEF G!Reflexion, G!Merged, G!Ready
  <2> QED
    BY <1>1, <1>01, <2>1 DEF ToReply, ToTools, ToFact
<1>5. ASSUME NEW yes \in BOOLEAN, G!PlanGeneration(yes) PROVE GraphInv'
  <2>1. /\ state' \in GraphStates /\ state'.results = state.results /\ state'.history = state.history
        /\ state'.reply = state.reply
    BY <1>01, <1>5 DEF G!PlanGeneration, G!Merged, GraphStates
  <2>2. /\ unsaved = "none" /\ node = "plan_generation" /\ unsaved' = node /\ UNCHANGED <<node, checkpoint, plan, crashes, sends>>
    BY <1>5 DEF G!PlanGeneration, G!Merged, G!Ready
  <2> QED
    BY <1>1, <2>1, <2>2 DEF ToReply, ToTools, ToFact
<1>6. ASSUME NEW yes \in BOOLEAN, G!GoalCheck(yes) PROVE GraphInv'
  <2>1. /\ state' \in GraphStates /\ state'.results = state.results /\ state'.history = state.history
        /\ state'.plan = state.plan /\ state'.reply = state.reply
    BY <1>01, <1>6 DEF G!GoalCheck, G!Merged, GraphStates
  <2>2. /\ unsaved = "none" /\ node = "goal_check" /\ unsaved' = node /\ UNCHANGED <<node, checkpoint, plan, crashes, sends>>
    BY <1>6 DEF G!GoalCheck, G!Merged, G!Ready
  <2> QED
    BY <1>1, <2>1, <2>2 DEF ToReply
<1>7. CASE G!ResponseGeneration
  <2>1. /\ state' \in GraphStates /\ state'.results = state.results /\ state'.history = state.history
        /\ state'.plan = state.plan /\ (state.plan = "edited" => state'.reply = "edited")
    BY <1>01, <1>7 DEF G!ResponseGeneration, G!Merged, GraphStates
  <2>2. /\ unsaved = "none" /\ node = "response_generation" /\ unsaved' = node
        /\ UNCHANGED <<node, checkpoint, plan, crashes, sends>>
    BY <1>7 DEF G!ResponseGeneration, G!Merged, G!Ready
  <2> QED
    BY <1>1, <2>1, <2>2 DEF ToReply
<1>8. ASSUME NEW yes \in BOOLEAN, G!SelfCritique(yes) PROVE GraphInv'
  <2>1. /\ state' \in GraphStates /\ state'.results = state.results /\ state'.history = state.history
        /\ state'.plan = state.plan /\ state'.reply \in {state.reply, "rewritten"}
    BY <1>01, <1>8 DEF G!SelfCritique, G!Merged, GraphStates
  <2>2. /\ unsaved = "none" /\ node = "self_critique" /\ unsaved' = node
        /\ UNCHANGED <<node, checkpoint, plan, crashes, sends>>
    BY <1>8 DEF G!SelfCritique, G!Merged, G!Ready
  <2> QED
    BY <1>1, <2>1, <2>2 DEF ToReply
\* The nodes from which something may go out.
<1>9. ASSUME NEW yes \in BOOLEAN, G!SemanticWrite(yes) PROVE GraphInv'
  <2>1. /\ state' = state /\ unsaved = "none" /\ node = "semantic_write" /\ unsaved' = node
        /\ UNCHANGED <<node, checkpoint, plan, crashes>>
        /\ sends' = [sends EXCEPT !.message = sends.message + IF yes THEN 1 ELSE 0]
    BY <1>9 DEF G!SemanticWrite, G!Merged, G!Ready
  <2>2. /\ sends' \in [Kinds -> Nat] /\ sends'["fact"] = sends["fact"] /\ sends'["tools"] = sends["tools"]
        /\ sends'["message"] \in {sends["message"], sends["message"] + 1} /\ sends'["reply"] = sends["reply"]
    BY <1>01, <2>1 DEF Kinds
  <2>3. \A kind \in Kinds : sends'[kind] = sends[kind] \/ (node = NodeOf[kind] /\ sends'[kind] = sends[kind] + 1)
    BY <2>1, <2>2 DEF Kinds, NodeOf
  <2>4. node \in ToReply \ {"paused"} /\ node # "response_generation"
    BY <2>1 DEF ToReply, ToTools, ToFact, ToMessage
  <2> QED
    BY <1>01, <2>1, <2>2, <2>3, <2>4, NodeRuns
<1>10. ASSUME NEW yes \in BOOLEAN, G!AutoStore(yes) PROVE GraphInv'
  <2> DEFINE new == IF yes /\ ~state.fact THEN 1 ELSE 0
  <2>1. /\ unsaved = "none" /\ node = "auto_store" /\ unsaved' = node
        /\ UNCHANGED <<node, checkpoint, plan, crashes>>
        /\ sends' = [sends EXCEPT !.fact = sends.fact + new]
        /\ state' = [state EXCEPT !.fact = state.fact \/ (yes /\ ~state.fact), !.results = state.results + new]
    BY <1>10 DEF G!AutoStore, G!Merged, G!Ready
  <2>2. new \in {0, 1}
    OBVIOUS
  <2> HIDE DEF new
  <2>3. /\ sends' \in [Kinds -> Nat] /\ sends'["fact"] = sends["fact"] + new /\ sends'["tools"] = sends["tools"]
        /\ sends'["message"] = sends["message"] /\ sends'["reply"] = sends["reply"]
    BY <1>01, <2>1, <2>2 DEF Kinds
  <2>4. \A kind \in Kinds : sends'[kind] = sends[kind] \/ (node = NodeOf[kind] /\ sends'[kind] = sends[kind] + 1)
    BY <1>01, <2>1, <2>2, <2>3 DEF Kinds, NodeOf
  <2>5. /\ state' \in GraphStates /\ state'.results = state.results + new
        /\ state'.history = state.history /\ state'.plan = state.plan /\ state'.reply = state.reply
    <3>1. (state.fact \/ (yes /\ ~state.fact)) \in BOOLEAN /\ state.results + new \in Nat
      BY <1>02, <2>2
    <3> QED
      BY <1>01, <2>1, <3>1 DEF GraphStates
  <2>6. node \in ToReply \ {"paused"} /\ node # "response_generation"
    BY <2>1 DEF ToReply, ToTools, ToFact
  <2>7. \/ state'.results = state.results
        \/ state'.results = state.results + 1 /\ sends'["fact"] + sends'["tools"] = sends["fact"] + sends["tools"] + 1
    BY <1>01, <1>02, <2>2, <2>3, <2>5
  <2> QED
    BY <2>1, <2>3, <2>4, <2>5, <2>6, <2>7, NodeRuns
<1>11. ASSUME NEW acts \in 0..1, G!ActionLoop(acts) PROVE GraphInv'
  <2>1. /\ unsaved = "none" /\ node = "action_loop" /\ unsaved' = node
        /\ UNCHANGED <<node, checkpoint, plan, crashes>>
        /\ sends' = [sends EXCEPT !.tools = sends.tools + acts]
        /\ state' = [state EXCEPT !.results = state.results + acts]
    BY <1>11 DEF G!ActionLoop, G!Ready
  <2>2. acts \in {0, 1}
    OBVIOUS
  <2>3. /\ sends' \in [Kinds -> Nat] /\ sends'["fact"] = sends["fact"] /\ sends'["tools"] = sends["tools"] + acts
        /\ sends'["message"] = sends["message"] /\ sends'["reply"] = sends["reply"]
    BY <1>01, <2>1, <2>2 DEF Kinds
  <2>4. \A kind \in Kinds : sends'[kind] = sends[kind] \/ (node = NodeOf[kind] /\ sends'[kind] = sends[kind] + 1)
    BY <1>01, <2>1, <2>2, <2>3 DEF Kinds, NodeOf
  <2>5. /\ state' \in GraphStates /\ state'.results = state.results + acts
        /\ state'.history = state.history /\ state'.plan = state.plan /\ state'.reply = state.reply
    <3>1. state.results + acts \in Nat
      BY <1>02, <2>2
    <3> QED
      BY <1>01, <2>1, <3>1 DEF GraphStates
  <2>6. node \in ToReply \ {"paused"} /\ node # "response_generation"
    BY <2>1 DEF ToReply, ToTools
  <2>7. \/ state'.results = state.results
        \/ state'.results = state.results + 1 /\ sends'["fact"] + sends'["tools"] = sends["fact"] + sends["tools"] + 1
    BY <1>01, <1>02, <2>2, <2>3, <2>5
  <2> QED
    BY <2>1, <2>3, <2>4, <2>5, <2>6, <2>7, NodeRuns
<1>12. ASSUME NEW yes \in BOOLEAN, G!Finalize(yes) PROVE GraphInv'
  <2> DEFINE new == IF yes THEN 1 ELSE 0
  <2>1. /\ unsaved = "none" /\ node = "finalize" /\ unsaved' = node
        /\ UNCHANGED <<node, checkpoint, plan, crashes>>
        /\ sends' = [sends EXCEPT !.reply = sends.reply + new]
        /\ state' = [state EXCEPT !.history = state.history + new]
    BY <1>12 DEF G!Finalize, G!Merged, G!Ready
  <2>2. new \in {0, 1}
    OBVIOUS
  <2> HIDE DEF new
  <2>3. /\ sends' \in [Kinds -> Nat] /\ sends'["fact"] = sends["fact"] /\ sends'["tools"] = sends["tools"]
        /\ sends'["message"] = sends["message"] /\ sends'["reply"] = sends["reply"] + new
    BY <1>01, <2>1, <2>2 DEF Kinds
  <2>4. \A kind \in Kinds : sends'[kind] = sends[kind] \/ (node = NodeOf[kind] /\ sends'[kind] = sends[kind] + 1)
    BY <1>01, <2>1, <2>2, <2>3 DEF Kinds, NodeOf
  <2>5. /\ state' \in GraphStates /\ state'.results = state.results
        /\ state'.history = state.history + new /\ state'.plan = state.plan /\ state'.reply = state.reply
    <3>1. state.history + new \in Nat
      BY <1>02, <2>2
    <3> QED
      BY <1>01, <2>1, <3>1 DEF GraphStates
  <2>6. node \in ToReply \ {"paused"} /\ node # "response_generation"
    BY <2>1 DEF ToReply
  <2>7. \/ state'.history = state.history
        \/ node = "finalize" /\ state'.history = state.history + 1 /\ sends'["reply"] = sends["reply"] + 1
    BY <1>02, <2>1, <2>2, <2>3, <2>5
  <2> QED
    BY <2>1, <2>3, <2>4, <2>5, <2>6, <2>7, NodeRuns
\* The checkpoint after a node, and the edge from it.
<1>13. ASSUME NEW critic \in BOOLEAN, G!Save(critic) PROVE GraphInv'
  <2>1. /\ unsaved # "none" /\ node # "dead" /\ node' = G!NextNode(unsaved, state, critic) /\ unsaved' = "none"
        /\ checkpoint' = [state |-> state, node |-> unsaved, interrupted |-> FALSE]
        /\ UNCHANGED <<state, plan, sends, crashes>>
    BY <1>13 DEF G!Save
  <2>2. unsaved = node /\ node \in ToReply \ {"paused"}
    BY <1>0, <2>1 DEF GraphTyped
  <2>3. \/ node = "intent_parse" /\ node' = "semantic_write"
        \/ node = "semantic_write" /\ node' = "meta_reasoning"
        \/ node = "meta_reasoning" /\ node' = "reflexion"
        \/ node = "reflexion" /\ node' \in {"auto_store", "plan_generation"}
        \/ node = "plan_generation" /\ node' = "auto_store"
        \/ node = "auto_store" /\ node' \in {"goal_check", "action_loop"}
        \/ node = "action_loop" /\ node' = "goal_check"
        \/ node = "goal_check" /\ node' = "response_generation"
        \/ node = "response_generation" /\ node' \in {"self_critique", "finalize"}
        \/ node = "self_critique" /\ node' = "finalize"
        \/ node = "finalize" /\ node' = "END"
    BY <2>1, <2>2 DEF G!NextNode, G!Edges, ToReply, ToTools, ToFact, ToMessage
  <2>4. GraphTyped'
    <3>1. checkpoint'.state = state /\ checkpoint'.interrupted = FALSE /\ checkpoint'.node = unsaved
      BY <2>1
    <3>2. node' \in ToReply \cup {"END", "dead"}
      BY <2>3 DEF ToReply, ToTools, ToFact, ToMessage
    <3> QED
      BY <1>0, <2>1, <3>1, <3>2 DEF GraphTyped
  <2>5. \A kind \in Kinds : (IsAhead(kind)' => IsAhead(kind)) /\ node' # "dead"
    BY <2>1, <2>2, <2>3 DEF IsAhead, Kinds, To, NodeOf, ToReply, ToTools, ToFact, ToMessage
  <2>6. SentOnce'
    <3>1. \A kind \in Kinds : sends'[kind] <= IF IsAhead(kind)' \/ node' = "dead" THEN crashes' ELSE 1 + crashes'
      <4> TAKE kind \in Kinds
      <4>1. sends[kind] \in Nat /\ sends[kind] <= IF IsAhead(kind) \/ node = "dead" THEN crashes ELSE 1 + crashes
        BY <1>0, <1>01 DEF SentOnce
      <4> QED
        BY <1>01, <2>1, <2>5, <4>1
    <3>2. checkpoint'.state = state /\ checkpoint'.interrupted = FALSE /\ node' # "paused"
      BY <2>1, <2>3
    <3>3. IsAhead("reply")' => state.history = 0
      BY <1>0, <2>5 DEF SentOnce, Kinds
    <3> QED
      BY <1>0, <2>1, <3>1, <3>2, <3>3 DEF SentOnce
  <2>7. EditLives'
    BY <1>0, <2>1, <2>2, <2>3 DEF EditLives
  <2> QED
    BY <2>4, <2>6, <2>7 DEF GraphInv
<1>14. CASE G!Pause
  <2>1. /\ unsaved = "none" /\ node = "action_loop" /\ node' = "paused"
        /\ checkpoint' = [state |-> state, node |-> "action_loop", interrupted |-> TRUE]
        /\ UNCHANGED <<state, unsaved, fresh, plan, sends, crashes>>
    BY <1>14 DEF G!Pause, G!Ready
  <2>2. checkpoint'.state = state /\ checkpoint'.interrupted = TRUE /\ checkpoint'.node = "action_loop"
    BY <2>1
  <2>3. GraphTyped'
    BY <1>0, <2>1, <2>2 DEF GraphTyped, ToReply, ToTools
  <2>4. \A kind \in Kinds : IsAhead(kind)' = IsAhead(kind)
    BY <2>1 DEF IsAhead, Kinds, To, NodeOf, ToReply, ToTools, ToFact, ToMessage
  <2>5. SentOnce'
    <3>1. \A kind \in Kinds : sends'[kind] <= IF IsAhead(kind)' \/ node' = "dead" THEN crashes' ELSE 1 + crashes'
      BY <1>0, <2>1, <2>4 DEF SentOnce
    <3>2. IsAhead("reply")
      BY <2>1 DEF IsAhead, To, NodeOf, ToReply, ToTools
    <3> QED
      BY <1>0, <2>1, <2>2, <3>1, <3>2 DEF SentOnce
  <2>6. EditLives'
    BY <1>0, <2>1, <2>2 DEF EditLives
  <2> QED
    BY <2>3, <2>5, <2>6 DEF GraphInv
<1>15. CASE G!EditPlan
  <2>1. /\ node = "paused" /\ plan' = "edited" /\ checkpoint' = [checkpoint EXCEPT !.state.plan = "edited"]
        /\ UNCHANGED <<node, state, unsaved, sends, crashes>>
    BY <1>15 DEF G!EditPlan
  <2>2. /\ checkpoint.state \in GraphStates /\ checkpoint.interrupted \in BOOLEAN
        /\ checkpoint = [state |-> checkpoint.state, node |-> checkpoint.node, interrupted |-> checkpoint.interrupted]
    BY <1>0 DEF GraphTyped
  <2>3. /\ checkpoint'.state = [checkpoint.state EXCEPT !.plan = "edited"]
        /\ checkpoint'.interrupted = checkpoint.interrupted
        /\ checkpoint' = [state |-> checkpoint'.state, node |-> checkpoint'.node, interrupted |-> checkpoint'.interrupted]
    BY <2>1, <2>2
  <2>4. /\ checkpoint'.state \in GraphStates /\ checkpoint'.state.plan = "edited"
        /\ checkpoint'.state.results = checkpoint.state.results /\ checkpoint'.state.history = checkpoint.state.history
    BY <2>2, <2>3 DEF GraphStates
  <2>5. GraphTyped'
    BY <1>0, <2>1, <2>2, <2>3, <2>4 DEF GraphTyped
  <2>6. SentOnce'
    <3>1. \A kind \in Kinds : IsAhead(kind)' = IsAhead(kind)
      BY <2>1 DEF IsAhead
    <3>2. "reply" \in Kinds
      BY DEF Kinds
    <3> QED
      BY <1>0, <2>1, <2>3, <2>4, <3>1, <3>2 DEF SentOnce
  <2>7. EditLives'
    BY <2>1, <2>4 DEF EditLives
  <2> QED
    BY <2>5, <2>6, <2>7 DEF GraphInv
<1>16. ASSUME state' \in GraphStates, state'.results <= sends["fact"] + sends["tools"], state'.history = 0,
              UNCHANGED <<checkpoint, plan, sends>>, unsaved' = "none", crashes' \in Nat,
              node' \in {"dead", "action_loop", "intent_parse"},
              \A kind \in Kinds : sends[kind] <= IF IsAhead(kind)' \/ node' = "dead" THEN crashes' ELSE 1 + crashes',
              EditLives'
       PROVE  GraphInv'
  <2>1. GraphTyped'
    BY <1>0, <1>16 DEF GraphTyped, ToReply, ToTools, ToFact, ToMessage
  <2>2. SentOnce'
    BY <1>0, <1>01, <1>16 DEF SentOnce
  <2> QED
    BY <1>16, <2>1, <2>2 DEF GraphInv
<1>17. CASE G!Crash
  <2>1. /\ node' = "dead" /\ unsaved' = "none" /\ crashes' = crashes + 1 /\ state' = G!Input
        /\ UNCHANGED <<checkpoint, plan, sends>>
    BY <1>17 DEF G!Crash
  <2>2. G!Input \in GraphStates /\ G!Input.results = 0 /\ G!Input.history = 0
    BY DEF G!Input, GraphStates
  <2>3. \A kind \in Kinds : sends[kind] <= crashes + 1
    <3> TAKE kind \in Kinds
    <3>1. sends[kind] \in Nat /\ sends[kind] <= IF IsAhead(kind) \/ node = "dead" THEN crashes ELSE 1 + crashes
      BY <1>0, <1>01 DEF SentOnce
    <3> QED
      BY <1>01, <3>1
  <2>4. EditLives'
    BY <1>01, <2>1 DEF EditLives
  <2> QED
    BY <1>01, <1>16, <2>1, <2>2, <2>3, <2>4
<1>18. CASE G!Invoke
  <2>1. /\ node \in {"paused", "dead"} /\ state' = G!Resumed /\ UNCHANGED <<unsaved, checkpoint, plan, sends, crashes>>
        /\ node' = IF checkpoint.interrupted THEN "action_loop" ELSE "intent_parse"
    BY <1>18 DEF G!Invoke, G!Resumes
  <2>2. unsaved = "none"
    <3>1. node \notin ToReply \ {"paused"}
      BY <2>1 DEF ToReply, ToTools, ToFact, ToMessage
    <3> QED
      BY <1>0, <2>1, <3>1 DEF GraphTyped
  <2>3. CASE checkpoint.interrupted
    <3>1. node' = "action_loop" /\ state' = checkpoint.state
      BY <2>1, <2>3 DEF G!Resumed, G!Resumes
    <3>2. state' \in GraphStates /\ state'.results <= sends["fact"] + sends["tools"] /\ state'.history = 0
      BY <1>0, <2>3, <3>1 DEF GraphTyped, SentOnce
    <3>3. \A kind \in Kinds : sends[kind] <= IF IsAhead(kind)' \/ node' = "dead" THEN crashes' ELSE 1 + crashes'
      <4> TAKE kind \in Kinds
      <4>1. sends[kind] \in Nat /\ sends[kind] <= IF IsAhead(kind) \/ node = "dead" THEN crashes ELSE 1 + crashes
        BY <1>0, <1>01 DEF SentOnce
      <4>2. node = "paused" => IsAhead(kind) = IsAhead(kind)'
        BY <2>1, <2>2, <3>1 DEF IsAhead, Kinds, To, NodeOf, ToReply, ToTools, ToFact, ToMessage
      <4> QED
        BY <1>01, <2>1, <3>1, <4>1, <4>2
    <3>4. EditLives'
      <4>1. CASE plan = "edited" /\ crashes = 0 /\ node = "dead"
        BY <1>0, <4>1 DEF EditLives
      <4>2. CASE plan = "edited" /\ crashes = 0 /\ node = "paused"
        <5>1. checkpoint.state.plan = "edited"
          BY <1>0, <4>2 DEF EditLives
        <5> QED
          BY <2>1, <2>2, <3>1, <5>1 DEF EditLives
      <4>3. CASE ~(plan = "edited" /\ crashes = 0)
        BY <2>1, <4>3 DEF EditLives
      <4> QED
        BY <2>1, <4>1, <4>2, <4>3
    <3> QED
      BY <1>01, <1>16, <2>1, <2>2, <3>1, <3>2, <3>3, <3>4
  <2>4. CASE ~checkpoint.interrupted
    <3>1. node = "dead" /\ node' = "intent_parse" /\ state' = G!Input
      BY <1>0, <2>1, <2>4 DEF SentOnce, G!Resumed, G!Resumes
    <3>2. G!Input \in GraphStates /\ G!Input.results = 0 /\ G!Input.history = 0
      BY DEF G!Input, GraphStates
    <3>3. \A kind \in Kinds : sends[kind] <= crashes
      BY <1>0, <3>1 DEF SentOnce
    <3>4. EditLives'
      BY <1>0, <2>1, <3>1 DEF EditLives
    <3>5. \A kind \in Kinds : sends[kind] <= IF IsAhead(kind)' \/ node' = "dead" THEN crashes' ELSE 1 + crashes'
      BY <1>01, <2>1, <3>3
    <3> QED
      BY <1>01, <1>16, <2>1, <2>2, <3>1, <3>2, <3>4, <3>5
  <2> QED
    BY <2>3, <2>4
<1>19. CASE UNCHANGED G!graphVars
  BY <1>0, <1>19 DEF G!graphVars, GraphInv, GraphTyped, SentOnce, EditLives, IsAhead
<1>20. CASE G!Node
  BY <1>2, <1>3, <1>4, <1>5, <1>6, <1>7, <1>8, <1>9, <1>10, <1>11, <1>12, <1>13, <1>14, <1>20, Zenon DEF G!Node
<1> QED
  BY <1>15, <1>17, <1>18, <1>19, <1>20 DEF G!Next

LEMMA GraphSound == GraphInv => G!RepeatsOnlyAfterCrash /\ G!EditReachesReply
<1> SUFFICES ASSUME GraphInv PROVE G!RepeatsOnlyAfterCrash /\ G!EditReachesReply
  OBVIOUS
<1>0. GraphTyped /\ SentOnce /\ EditLives
  BY DEF GraphInv
<1>1. sends \in [Kinds -> Nat] /\ crashes \in Nat
  BY <1>0 DEF GraphTyped
<1>2. \A kind \in DOMAIN sends : sends[kind] <= 1 + crashes
  <2> SUFFICES ASSUME NEW kind \in Kinds PROVE sends[kind] <= 1 + crashes
    BY <1>1
  <2>1. sends[kind] \in Nat /\ sends[kind] <= IF IsAhead(kind) \/ node = "dead" THEN crashes ELSE 1 + crashes
    BY <1>0, <1>1 DEF SentOnce
  <2> QED
    BY <1>1, <2>1
<1>3. state.results <= sends.fact + sends.tools /\ state.history <= 1 /\ state.history <= sends.reply
  BY <1>0 DEF SentOnce
<1>4. G!RepeatsOnlyAfterCrash
  BY <1>2, <1>3 DEF G!RepeatsOnlyAfterCrash
<1>5. G!EditReachesReply
  BY <1>0 DEF EditLives, G!EditReachesReply
<1> QED
  BY <1>4, <1>5

-----------------------------------------------------------------------------
(***************************************************************************)
(* The store of results.  The sequences of kept answers it makes are parts *)
(* of the one before, with one more answer at the end; what is said of     *)
(* every answer, of two of them, and of how many there are of a run, holds *)
(* of a part as well.                                                      *)
(***************************************************************************)
\* What is flattened, piece by piece.
LEMMA Flattening ==
    ASSUME NEW S, NEW seqs, Len(seqs) \in Nat, seqs = [i \in 1..Len(seqs) |-> seqs[i]],
           \A i \in 1..Len(seqs) : seqs[i] \in Seq(S)
    PROVE  /\ R!Joined(seqs) = C!Joined(seqs)
           /\ \E f \in [0..Len(seqs) -> Seq(S)] :
                 /\ f[0] = <<>> /\ \A i \in 1..Len(seqs) : f[i] = f[i - 1] \o seqs[i]
                 /\ R!Joined(seqs) = f[Len(seqs)]
<1> DEFINE n == Len(seqs)
           Adds == [p \in Seq(S) \X (1..n) |-> p[1] \o seqs[p[2]]]
<1>1. \A v \in Seq(S) : \A k \in 1..n : Adds[<<v, k>>] = v \o seqs[k] /\ v \o seqs[k] \in Seq(S)
  <2> TAKE v \in Seq(S)
  <2> TAKE k \in 1..n
  <2>1. <<v, k>> \in Seq(S) \X (1..n)
    OBVIOUS
  <2>2. v \o seqs[k] \in Seq(S)
    BY ConcatProperties
  <2> QED
    BY <2>1, <2>2
<1>2. <<>> \in Seq(S) /\ n \in Nat
  OBVIOUS
<1> HIDE DEF Adds, n
<1>3. \A v \in Seq(S) : \A k \in 1..n : Adds[<<v, k>>] \in Seq(S)
  BY <1>1
<1>4. PICK f \in [0..n -> Seq(S)] : f[0] = <<>> /\ \A k \in 1..n : f[k] = Adds[<<f[k - 1], k>>]
  <2> HIDE DEF Adds
  <2>1. \E f : IsRecursion(n, Seq(S), <<>>, Adds, f)
    BY <1>2, <1>3, Recursion
  <2> QED
    BY <2>1 DEF IsRecursion
<1>5. \A k \in 1..n : f[k - 1] \in Seq(S) /\ f[k] = f[k - 1] \o seqs[k]
  <2> TAKE k \in 1..n
  <2>1. k - 1 \in 0..n
    BY <1>2
  <2> QED
    BY <1>1, <1>4, <2>1
<1> DEFINE h == CHOOSE upTo : upTo = [i \in 0..n |-> IF i = 0 THEN <<>> ELSE upTo[i - 1] \o seqs[i]]
<1>6. f = [i \in 0..n |-> IF i = 0 THEN <<>> ELSE f[i - 1] \o seqs[i]]
  <2>1. f = [i \in 0..n |-> f[i]]
    BY <1>4, Zenon
  <2>2. \A i \in 0..n : f[i] = IF i = 0 THEN <<>> ELSE f[i - 1] \o seqs[i]
    <3> TAKE i \in 0..n
    <3>1. i # 0 => i \in 1..n
      BY <1>2
    <3> QED
      BY <1>4, <1>5, <3>1, Zenon
  <2> QED
    BY <2>1, <2>2, Zenon
<1>7. h = [i \in 0..n |-> IF i = 0 THEN <<>> ELSE h[i - 1] \o seqs[i]]
  BY <1>6, Zenon
<1>8. R!Joined(seqs) = h[n] /\ C!Joined(seqs) = h[n]
  BY Zenon DEF R!Joined, C!Joined, h, n
<1> HIDE DEF h
<1>9. h[n] = f[n]
  <2> DEFINE Sure == {i \in 0..n : h[i] = f[i]}
  <2>1. 0 \in Sure
    BY <1>2, <1>4, <1>7
  <2>2. \A k \in 1..n : k - 1 \in Sure => k \in Sure
    <3> TAKE k \in 1..n
    <3>1. k \in 0..n /\ k # 0
      BY <1>2
    <3>2. h[k] = h[k - 1] \o seqs[k]
      BY <1>7, <3>1
    <3> QED
      BY <1>5, <3>1, <3>2
  <2> HIDE DEF Sure
  <2>3. 0..n \subseteq Sure
    BY <1>2, <2>1, <2>2, BoundedInduction
  <2>4. n \in 0..n
    BY <1>2
  <2> QED
    BY <2>3, <2>4 DEF Sure
<1> QED
  BY <1>4, <1>5, <1>8, <1>9 DEF n

Answered == [run : Stored, ref : Nat \ {0}, value : Nat, bytes : Nat, age : Nat]

\* What the sizes of a sequence add up to.
SizesAre(entries, f) ==
    f \in [0..Len(entries) -> Nat] /\ f[0] = 0 /\ \A i \in 1..Len(entries) : f[i] = f[i - 1] + entries[i].bytes

LEMMA SizesUnique ==
    ASSUME NEW entries, NEW others, Len(entries) \in Nat, NEW n \in Nat, n <= Len(entries), n <= Len(others),
           Len(others) \in Nat, \A i \in 1..n : entries[i].bytes = others[i].bytes,
           NEW f, NEW g, SizesAre(entries, f), SizesAre(others, g)
    PROVE  f[n] = g[n]
<1> DEFINE Sure == {i \in 0..n : f[i] = g[i]}
<1>1. 0 \in Sure
  BY DEF SizesAre
<1>2. \A k \in 1..n : k - 1 \in Sure => k \in Sure
  BY DEF SizesAre
<1> HIDE DEF Sure
<1>3. 0..n \subseteq Sure
  BY <1>1, <1>2, BoundedInduction
<1> QED
  BY <1>3 DEF Sure

LEMMA SizeIs ==
    ASSUME NEW entries \in Seq(Answered)
    PROVE  \E f : SizesAre(entries, f) /\ R!SizeOf(entries) = f[Len(entries)]
<1> DEFINE n == Len(entries)
           Adds == [p \in Nat \X (1..n) |-> p[1] + entries[p[2]].bytes]
<1>1. n \in Nat /\ \A k \in 1..n : entries[k].bytes \in Nat
  <2>1. \A k \in 1..n : entries[k] \in Answered
    OBVIOUS
  <2>2. \A e \in Answered : e.bytes \in Nat
    BY DEF Answered
  <2> QED
    BY <2>1, <2>2
<1>2. \A v \in Nat : \A k \in 1..n : Adds[<<v, k>>] = v + entries[k].bytes /\ v + entries[k].bytes \in Nat
  <2> TAKE v \in Nat
  <2> TAKE k \in 1..n
  <2>1. <<v, k>> \in Nat \X (1..n) /\ entries[k].bytes \in Nat
    BY <1>1
  <2> QED
    BY <2>1
<1> HIDE DEF Adds, n
<1>3. \A v \in Nat : \A k \in 1..n : Adds[<<v, k>>] \in Nat
  BY <1>2
<1>4. PICK f \in [0..n -> Nat] : f[0] = 0 /\ \A k \in 1..n : f[k] = Adds[<<f[k - 1], k>>]
  <2> HIDE DEF Adds
  <2>1. \E f : IsRecursion(n, Nat, 0, Adds, f)
    BY <1>1, <1>3, Recursion
  <2> QED
    BY <2>1 DEF IsRecursion
<1>5. \A k \in 1..n : f[k] = f[k - 1] + entries[k].bytes
  <2> TAKE k \in 1..n
  <2>1. k - 1 \in 0..n
    BY <1>1
  <2> QED
    BY <1>2, <1>4, <2>1
<1> DEFINE h == CHOOSE upTo : upTo = [i \in 0..n |-> IF i = 0 THEN 0 ELSE upTo[i - 1] + entries[i].bytes]
<1>6. f = [i \in 0..n |-> IF i = 0 THEN 0 ELSE f[i - 1] + entries[i].bytes]
  BY <1>1, <1>4, <1>5
<1>7. h = [i \in 0..n |-> IF i = 0 THEN 0 ELSE h[i - 1] + entries[i].bytes]
  BY <1>6
<1>8. R!SizeOf(entries) = h[n]
  BY Zenon DEF R!SizeOf, h, n
<1> HIDE DEF h
<1>9. h[n] = f[n]
  <2> DEFINE Sure == {i \in 0..n : h[i] = f[i]}
  <2>1. 0 \in Sure /\ \A k \in 1..n : k - 1 \in Sure => k \in Sure
    BY <1>1, <1>4, <1>5, <1>7
  <2> HIDE DEF Sure
  <2>2. 0..n \subseteq Sure
    BY <1>1, <2>1, BoundedInduction
  <2>3. n \in 0..n
    BY <1>1
  <2> QED
    BY <2>2, <2>3 DEF Sure
<1>10. SizesAre(entries, f)
  BY <1>4, <1>5 DEF SizesAre, n
<1> QED
  BY <1>8, <1>9, <1>10 DEF n

LEMMA SizeFacts ==
    /\ R!SizeOf(<<>>) = 0
    /\ \A s \in Seq(Answered) : R!SizeOf(s) \in Nat
    /\ \A s \in Seq(Answered) : \A e \in Answered : R!SizeOf(Append(s, e)) = R!SizeOf(s) + e.bytes
    /\ \A s, t \in Seq(Answered) : Len(s) = Len(t) /\ (\A i \in 1..Len(s) : s[i].bytes = t[i].bytes) =>
           R!SizeOf(s) = R!SizeOf(t)
<1>1. R!SizeOf(<<>>) = 0
  <2>1. <<>> \in Seq(Answered) /\ Len(<<>>) = 0
    OBVIOUS
  <2>2. PICK f : SizesAre(<<>>, f) /\ R!SizeOf(<<>>) = f[Len(<<>>)]
    BY <2>1, SizeIs
  <2> QED
    BY <2>1, <2>2 DEF SizesAre
<1>2. ASSUME NEW s \in Seq(Answered) PROVE R!SizeOf(s) \in Nat
  <2>1. PICK f : SizesAre(s, f) /\ R!SizeOf(s) = f[Len(s)]
    BY SizeIs
  <2>2. Len(s) \in 0..Len(s)
    OBVIOUS
  <2> QED
    BY <2>1, <2>2 DEF SizesAre
<1>3. ASSUME NEW s \in Seq(Answered), NEW e \in Answered PROVE R!SizeOf(Append(s, e)) = R!SizeOf(s) + e.bytes
  <2> DEFINE t == Append(s, e)
  <2>1. /\ t \in Seq(Answered) /\ Len(t) = Len(s) + 1 /\ t[Len(s) + 1] = e /\ Len(s) \in Nat
        /\ \A i \in 1..Len(s) : t[i] = s[i]
    BY AppendProperties
  <2> HIDE DEF t
  <2>2. PICK f : SizesAre(s, f) /\ R!SizeOf(s) = f[Len(s)]
    BY SizeIs
  <2>3. PICK g : SizesAre(t, g) /\ R!SizeOf(t) = g[Len(t)]
    BY <2>1, SizeIs
  <2>4. f[Len(s)] = g[Len(s)]
    <3>1. Len(s) <= Len(s) /\ Len(s) <= Len(t) /\ Len(t) \in Nat /\ \A i \in 1..Len(s) : s[i].bytes = t[i].bytes
      BY <2>1
    <3> QED
      BY <2>1, <2>2, <2>3, <3>1, SizesUnique
  <2>5. g[Len(t)] = g[Len(s)] + e.bytes
    <3>1. Len(t) \in 1..Len(t) /\ Len(t) - 1 = Len(s)
      BY <2>1
    <3>2. g[Len(t)] = g[Len(t) - 1] + t[Len(t)].bytes
      BY <2>3, <3>1 DEF SizesAre
    <3> QED
      BY <2>1, <3>1, <3>2
  <2> QED
    BY <2>2, <2>3, <2>4, <2>5 DEF t
<1>4. ASSUME NEW s \in Seq(Answered), NEW t \in Seq(Answered), Len(s) = Len(t), \A i \in 1..Len(s) : s[i].bytes = t[i].bytes
      PROVE  R!SizeOf(s) = R!SizeOf(t)
  <2>1. PICK f : SizesAre(s, f) /\ R!SizeOf(s) = f[Len(s)]
    BY SizeIs
  <2>2. PICK g : SizesAre(t, g) /\ R!SizeOf(t) = g[Len(t)]
    BY SizeIs
  <2>3. /\ Len(s) \in Nat /\ Len(s) <= Len(s) /\ Len(s) <= Len(t) /\ Len(t) \in Nat
        /\ \A i \in 1..Len(s) : s[i].bytes = t[i].bytes
    BY <1>4
  <2>4. f[Len(s)] = g[Len(s)]
    BY <2>1, <2>2, <2>3, SizesUnique
  <2> QED
    BY <1>4, <2>1, <2>2, <2>4
<1> QED
  BY <1>1, <1>2, <1>3, <1>4

\* s is some of the first k answers of t, each at most once.
PartBy(s, t, k, m) ==
    /\ s \in Seq(Answered) /\ m \in [1..Len(s) -> 1..k]
    /\ \A a, b \in 1..Len(s) : m[a] = m[b] => a = b
    /\ \A a \in 1..Len(s) : s[a] = t[m[a]]

PartUpTo(s, t, k) == \E m : PartBy(s, t, k, m)

PartOf(s, t) == PartUpTo(s, t, Len(t))

\* One answer more to choose from, left or taken.
LEMMA PartGrows ==
    ASSUME NEW s, NEW t \in Seq(Answered), NEW k \in 1..Len(t), PartUpTo(s, t, k - 1)
    PROVE  PartUpTo(s, t, k) /\ PartUpTo(Append(s, t[k]), t, k)
<1>0. k \in Nat /\ t[k] \in Answered
  OBVIOUS
<1>1. PICK m : PartBy(s, t, k - 1, m)
  BY DEF PartUpTo
<1>2. /\ s \in Seq(Answered) /\ m \in [1..Len(s) -> 1..(k - 1)] /\ \A a, b \in 1..Len(s) : m[a] = m[b] => a = b
      /\ \A a \in 1..Len(s) : s[a] = t[m[a]]
  BY <1>1 DEF PartBy
<1>3. m \in [1..Len(s) -> 1..k] /\ \A a \in 1..Len(s) : m[a] \in 1..k /\ m[a] # k
  <2>1. \A a \in 1..Len(s) : m[a] \in 1..(k - 1)
    BY <1>2
  <2>2. \A i \in 1..(k - 1) : i \in 1..k /\ i # k
    BY <1>0
  <2> QED
    BY <1>2, <2>1, <2>2
<1>4. PartUpTo(s, t, k)
  BY <1>2, <1>3 DEF PartBy, PartUpTo
<1> DEFINE all == Append(s, t[k])
           last == Len(s) + 1
           g == [a \in 1..last |-> IF a = last THEN k ELSE m[a]]
<1>5. /\ all \in Seq(Answered) /\ Len(all) = last /\ all[last] = t[k] /\ \A a \in 1..Len(s) : all[a] = s[a]
  BY <1>0, <1>2, AppendProperties
<1>6. last \in 1..last /\ \A a \in 1..last : a # last => a \in 1..Len(s)
  BY <1>2
<1>7. \A a \in 1..last : g[a] = IF a = last THEN k ELSE m[a]
  OBVIOUS
<1>8. g \in [1..last -> 1..k]
  <2>1. \A a \in 1..last : (IF a = last THEN k ELSE m[a]) \in 1..k
    BY <1>0, <1>3, <1>6
  <2> QED
    BY <2>1
<1> HIDE DEF all, last, g
<1>9. \A a, b \in 1..last : g[a] = g[b] => a = b
  <2> TAKE a, b \in 1..last
  <2>1. CASE a = last /\ b = last
    BY <2>1
  <2>2. CASE a = last /\ b # last
    BY <1>3, <1>6, <1>7, <2>2
  <2>3. CASE a # last /\ b = last
    BY <1>3, <1>6, <1>7, <2>3
  <2>4. CASE a # last /\ b # last
    BY <1>2, <1>6, <1>7, <2>4
  <2> QED
    BY <2>1, <2>2, <2>3, <2>4
<1>10. \A a \in 1..last : all[a] = t[g[a]]
  BY <1>2, <1>5, <1>6, <1>7
<1>11. PartBy(all, t, k, g)
  BY <1>5, <1>8, <1>9, <1>10 DEF PartBy
<1> QED
  BY <1>4, <1>11 DEF PartUpTo, all

Distinct(s) == \A i, j \in 1..Len(s) : s[i].run = s[j].run /\ s[i].ref = s[j].ref => i = j

OfRun(r, s) == {i \in 1..Len(s) : s[i].run = r}

LEMMA CountIs ==
    ASSUME NEW s \in Seq(Answered), NEW r
    PROVE  R!CountOf(r, s) = Cardinality(OfRun(r, s)) /\ IsFiniteSet(OfRun(r, s)) /\ R!CountOf(r, s) \in Nat
<1>1. \A S : R!Cardinality(S) = Cardinality(S)
  BY Zenon DEF R!Cardinality, Cardinality
<1>2. DOMAIN s = 1..Len(s) /\ Len(s) \in Nat
  OBVIOUS
<1>3. R!CountOf(r, s) = Cardinality(OfRun(r, s))
  BY <1>1, <1>2, Zenon DEF R!CountOf, OfRun
<1>4. OfRun(r, s) \in SUBSET (1..Len(s)) /\ IsFiniteSet(1..Len(s))
  BY <1>2, FS_Interval DEF OfRun
<1>5. IsFiniteSet(OfRun(r, s))
  BY <1>4, FS_Subset
<1> QED
  BY <1>3, <1>5, FS_CardinalityType

LEMMA PartKeeps ==
    ASSUME NEW s, NEW t \in Seq(Answered), NEW m, PartBy(s, t, Len(t), m)
    PROVE  /\ \A a \in 1..Len(s) : m[a] \in 1..Len(t) /\ s[a] = t[m[a]]
           /\ Distinct(t) => Distinct(s)
           /\ \A r : R!CountOf(r, s) <= R!CountOf(r, t)
           /\ \A r : \A gone \in 1..Len(t) : t[gone].run = r /\ (\A a \in 1..Len(s) : m[a] # gone) =>
                  R!CountOf(r, s) <= R!CountOf(r, t) - 1
<1>0. /\ s \in Seq(Answered) /\ \A a \in 1..Len(s) : m[a] \in 1..Len(t) /\ s[a] = t[m[a]]
      /\ \A a, b \in 1..Len(s) : m[a] = m[b] => a = b
  BY DEF PartBy
<1>1. ASSUME NEW r, NEW W, IsFiniteSet(W), \A a \in OfRun(r, s) : m[a] \in W
      PROVE  R!CountOf(r, s) <= Cardinality(W)
  <2> DEFINE g == [a \in OfRun(r, s) |-> m[a]]
  <2>1. g \in [OfRun(r, s) -> W] /\ \A a, b \in OfRun(r, s) : g[a] = g[b] => a = b
    BY <1>0, <1>1 DEF OfRun
  <2> HIDE DEF g
  <2>2. g \in Injection(OfRun(r, s), W)
    BY <2>1, Zenon DEF Injection, IsInjective
  <2>3. Cardinality(OfRun(r, s)) <= Cardinality(W)
    BY <1>1, <2>2, FS_Injection
  <2> QED
    BY <1>0, <2>3, CountIs
<1>2. ASSUME NEW r PROVE /\ R!CountOf(r, t) = Cardinality(OfRun(r, t)) /\ IsFiniteSet(OfRun(r, t)) /\ R!CountOf(r, t) \in Nat
                         /\ \A a \in OfRun(r, s) : m[a] \in OfRun(r, t)
  BY <1>0, CountIs DEF OfRun
<1>3. \A r : R!CountOf(r, s) <= R!CountOf(r, t)
  BY <1>1, <1>2
<1>4. ASSUME NEW r, NEW gone \in 1..Len(t), t[gone].run = r, \A a \in 1..Len(s) : m[a] # gone
      PROVE  R!CountOf(r, s) <= R!CountOf(r, t) - 1
  <2>1. gone \in OfRun(r, t) /\ \A a \in OfRun(r, s) : m[a] \in OfRun(r, t) \ {gone}
    BY <1>2, <1>4 DEF OfRun
  <2>2. IsFiniteSet(OfRun(r, t) \ {gone}) /\ Cardinality(OfRun(r, t) \ {gone}) = Cardinality(OfRun(r, t)) - 1
    BY <1>2, <2>1, FS_RemoveElement
  <2>3. R!CountOf(r, s) <= Cardinality(OfRun(r, t) \ {gone})
    BY <1>1, <2>1, <2>2
  <2> QED
    BY <1>2, <2>2, <2>3
<1>5. Distinct(t) => Distinct(s)
  <2> SUFFICES ASSUME Distinct(t), NEW i \in 1..Len(s), NEW j \in 1..Len(s), s[i].run = s[j].run, s[i].ref = s[j].ref
               PROVE  i = j
    BY DEF Distinct
  <2>1. m[i] \in 1..Len(t) /\ m[j] \in 1..Len(t) /\ s[i] = t[m[i]] /\ s[j] = t[m[j]]
    BY <1>0
  <2>2. m[i] = m[j]
    BY <2>1 DEF Distinct
  <2> QED
    BY <1>0, <2>2
<1> QED
  BY <1>0, <1>3, <1>4, <1>5

LEMMA SuffixIs ==
    ASSUME NEW t \in Seq(Answered), NEW n \in 1..Len(t)
    PROVE  PartOf(SubSeq(t, n, Len(t)), t)
<1> DEFINE s == SubSeq(t, n, Len(t))
           m == [a \in 1..(Len(t) - n + 1) |-> n + a - 1]
<1>1. /\ s \in Seq(Answered) /\ Len(s) = Len(t) - n + 1 /\ \A a \in 1..(Len(t) - n + 1) : s[a] = t[n + a - 1]
  BY SubSeqProperties
<1> HIDE DEF s
<1>2. m \in [1..Len(s) -> 1..Len(t)] /\ \A a \in 1..Len(s) : m[a] = n + a - 1
  BY <1>1
<1> HIDE DEF m
<1>3. \A a, b \in 1..Len(s) : m[a] = m[b] => a = b
  <2>1. \A a, b \in 1..Len(s) : n + a - 1 = n + b - 1 => a = b
    BY <1>1
  <2> QED
    BY <1>2, <2>1
<1>4. \A a \in 1..Len(s) : s[a] = t[m[a]]
  BY <1>1, <1>2
<1>5. PartBy(s, t, Len(t), m)
  BY <1>1, <1>2, <1>3, <1>4 DEF PartBy
<1> QED
  BY <1>5 DEF PartOf, PartUpTo, s

\* A sequence without its n-th.
Without(t, n) == SubSeq(t, 1, n - 1) \o SubSeq(t, n + 1, Len(t))

LEMMA RemovalIs ==
    ASSUME NEW t \in Seq(Answered), NEW n \in 1..Len(t)
    PROVE  /\ Len(Without(t, n)) = Len(t) - 1
           /\ \E m : PartBy(Without(t, n), t, Len(t), m) /\ \A a \in 1..(Len(t) - 1) : m[a] # n
<1> DEFINE front == SubSeq(t, 1, n - 1)
           back == SubSeq(t, n + 1, Len(t))
           s == front \o back
           m == [a \in 1..(Len(t) - 1) |-> IF a < n THEN a ELSE a + 1]
<1>0. Len(t) \in Nat /\ \A i \in 1..Len(t) : t[i] \in Answered
  OBVIOUS
<1>1. front \in Seq(Answered) /\ Len(front) = n - 1 /\ \A i \in 1..(n - 1) : front[i] = t[i]
  <2>1. /\ front \in Seq(Answered) /\ Len(front) = IF 1 <= n - 1 THEN (n - 1) - 1 + 1 ELSE 0
        /\ \A i \in 1..((n - 1) - 1 + 1) : front[i] = t[1 + i - 1]
    BY <1>0, SubSeqProperties
  <2> HIDE DEF front
  <2> QED
    BY <2>1
<1>2. back \in Seq(Answered) /\ Len(back) = Len(t) - n /\ \A i \in 1..(Len(t) - n) : back[i] = t[n + i]
  <2>1. /\ back \in Seq(Answered) /\ Len(back) = IF n + 1 <= Len(t) THEN Len(t) - (n + 1) + 1 ELSE 0
        /\ \A i \in 1..(Len(t) - (n + 1) + 1) : back[i] = t[(n + 1) + i - 1]
    BY <1>0, SubSeqProperties
  <2> HIDE DEF back
  <2>2. Len(t) - (n + 1) + 1 = Len(t) - n /\ \A i \in 1..(Len(t) - n) : (n + 1) + i - 1 = n + i
    BY <1>0
  <2> HIDE DEF back
  <2>3. Len(back) = Len(t) - n
    BY <1>0, <2>1
  <2> QED
    BY <2>1, <2>2, <2>3, Zenon
<1> HIDE DEF front, back
<1>3. s \in Seq(Answered) /\ Len(s) = Len(t) - 1 /\ \A a \in 1..(Len(t) - 1) : s[a] = t[IF a < n THEN a ELSE a + 1]
  <2>1. /\ s \in Seq(Answered) /\ Len(s) = Len(front) + Len(back)
        /\ \A i \in 1..(Len(front) + Len(back)) : s[i] = IF i <= Len(front) THEN front[i] ELSE back[i - Len(front)]
    BY <1>1, <1>2, ConcatProperties
  <2> HIDE DEF s
  <2>2. ASSUME NEW a \in 1..(Len(t) - 1) PROVE s[a] = t[IF a < n THEN a ELSE a + 1]
    <3>0. /\ a \in 1..(Len(front) + Len(back)) /\ Len(front) = n - 1
          /\ s[a] = IF a <= n - 1 THEN front[a] ELSE back[a - (n - 1)]
      <4>1. Len(front) = n - 1 /\ a \in 1..(Len(front) + Len(back))
        BY <1>0, <1>1, <1>2
      <4> QED
        BY <2>1, <4>1
    <3>1. CASE a < n
      <4>1. a \in 1..(n - 1) /\ a <= n - 1
        BY <1>0, <3>1
      <4> QED
        BY <1>1, <3>0, <3>1, <4>1
    <3>2. CASE ~(a < n)
      <4>1. a - (n - 1) \in 1..(Len(t) - n) /\ n + (a - (n - 1)) = a + 1 /\ ~(a <= n - 1)
        BY <1>0, <3>2
      <4>2. s[a] = back[a - (n - 1)]
        BY <3>0, <4>1
      <4> QED
        BY <1>2, <3>2, <4>1, <4>2
    <3> QED
      BY <3>1, <3>2
  <2> QED
    BY <1>0, <1>1, <1>2, <2>1, <2>2
<1>4. s = Without(t, n)
  BY Zenon DEF Without, s, front, back
<1> HIDE DEF s
<1>5. /\ m \in [1..(Len(t) - 1) -> 1..Len(t)]
      /\ \A a \in 1..(Len(t) - 1) : m[a] = (IF a < n THEN a ELSE a + 1) /\ m[a] # n
  BY <1>0
<1> HIDE DEF m
<1>6. \A a, b \in 1..(Len(t) - 1) : m[a] = m[b] => a = b
  BY <1>0, <1>5
<1>7. PartBy(s, t, Len(t), m)
  BY <1>3, <1>5, <1>6 DEF PartBy
<1> QED
  BY <1>3, <1>4, <1>5, <1>7

\* What is fresh of what is kept.
LEMMA FreshIs ==
    ASSUME kept \in Seq(Answered)
    PROVE  /\ R!Fresh \in Seq(Answered) /\ PartOf(R!Fresh, kept)
           /\ R!SizeOf(R!Fresh) \in Nat /\ R!SizeOf(R!Fresh) <= R!SizeOf(kept)
<1> DEFINE n == Len(kept)
           pieces == [i \in DOMAIN kept |-> IF kept[i].age <= MaxAge THEN <<kept[i]>> ELSE <<>>]
<1>1. n \in Nat /\ DOMAIN kept = 1..n /\ \A i \in 1..n : kept[i] \in Answered /\ kept[i].bytes \in Nat
  <2>1. n \in Nat /\ DOMAIN kept = 1..n /\ \A i \in 1..n : kept[i] \in Answered
    OBVIOUS
  <2>2. \A e \in Answered : e.bytes \in Nat
    BY DEF Answered
  <2> HIDE DEF n
  <2> QED
    BY <2>1, <2>2
<1>2. /\ Len(pieces) = n /\ pieces = [i \in 1..n |-> pieces[i]]
      /\ \A i \in 1..n : pieces[i] = <<kept[i]>> \/ pieces[i] = <<>>
  <2>1. pieces = [i \in 1..n |-> IF kept[i].age <= MaxAge THEN <<kept[i]>> ELSE <<>>]
    BY <1>1
  <2> HIDE DEF n
  <2>2. Len([i \in 1..n |-> IF kept[i].age <= MaxAge THEN <<kept[i]>> ELSE <<>>]) = n
    BY <1>1
  <2> QED
    BY <2>1, <2>2
<1>3. R!Fresh = R!Joined(pieces)
  BY DEF R!Fresh
<1> HIDE DEF n, pieces
<1>4. \A i \in 1..n : pieces[i] \in Seq(Answered)
  <2> TAKE i \in 1..n
  <2>1. kept[i] \in Answered /\ <<>> \in Seq(Answered) /\ \A e \in Answered : <<e>> \in Seq(Answered)
    BY <1>1
  <2> QED
    BY <1>2, <2>1
<1>5. PICK f \in [0..n -> Seq(Answered)] :
          f[0] = <<>> /\ (\A i \in 1..n : f[i] = f[i - 1] \o pieces[i]) /\ R!Fresh = f[n]
  BY <1>1, <1>2, <1>3, <1>4, Flattening
<1>6. PICK sizes : SizesAre(kept, sizes) /\ R!SizeOf(kept) = sizes[n]
  BY SizeIs DEF n
<1>7. sizes \in [0..n -> Nat] /\ sizes[0] = 0 /\ \A i \in 1..n : sizes[i] = sizes[i - 1] + kept[i].bytes
  BY <1>6 DEF SizesAre, n
<1> DEFINE Goes(k) == PartUpTo(f[k], kept, k) /\ R!SizeOf(f[k]) <= sizes[k]
           Sure == {k \in 0..n : Goes(k)}
<1>8. Goes(0)
  <2> DEFINE m == [a \in 1..0 |-> a]
  <2>1. f[0] = <<>> /\ <<>> \in Seq(Answered) /\ Len(<<>>) = 0 /\ 1..0 = {}
    BY <1>5
  <2>2. PartBy(f[0], kept, 0, m)
    BY <2>1 DEF PartBy
  <2>3. R!SizeOf(f[0]) <= sizes[0]
    BY <1>7, <2>1, SizeFacts
  <2> QED
    BY <2>2, <2>3 DEF PartUpTo
<1>9. ASSUME NEW k \in 1..n, Goes(k - 1) PROVE Goes(k)
  <2>0. k - 1 \in 0..n /\ k \in Nat /\ k \in 1..Len(kept)
    BY <1>1 DEF n
  <2>1. f[k - 1] \in Seq(Answered) /\ sizes[k - 1] \in Nat
    BY <1>5, <1>7, <2>0
  <2>3. R!SizeOf(f[k - 1]) \in Nat /\ R!SizeOf(f[k - 1]) <= sizes[k - 1] /\ sizes[k] = sizes[k - 1] + kept[k].bytes
    BY <1>7, <1>9, <2>1, SizeFacts
  <2>4. f[k] = f[k - 1] \o pieces[k] /\ kept[k].bytes \in Nat /\ kept[k] \in Answered
    BY <1>1, <1>5
  <2>40. PartUpTo(f[k - 1], kept, k) /\ PartUpTo(Append(f[k - 1], kept[k]), kept, k)
    BY <1>9, <2>0, PartGrows
  <2> HIDE DEF Sure
  <2>5. CASE pieces[k] = <<>>
    <3>1. f[k] = f[k - 1]
      BY <2>1, <2>4, <2>5, ConcatEmptySeq
    <3>3. R!SizeOf(f[k]) <= sizes[k]
      BY <2>1, <2>3, <2>4, <3>1
    <3> QED
      BY <2>40, <3>1, <3>3
  <2>6. CASE pieces[k] = <<kept[k]>>
    <3>1. f[k] = Append(f[k - 1], kept[k])
      BY <2>1, <2>4, <2>6, AppendIsConcat
    <3>2. R!SizeOf(f[k]) = R!SizeOf(f[k - 1]) + kept[k].bytes
      BY <2>1, <2>4, <3>1, SizeFacts
    <3>3. R!SizeOf(f[k]) <= sizes[k]
      BY <2>1, <2>3, <2>4, <3>2
    <3> QED
      BY <2>40, <3>1, <3>3
  <2> QED
    BY <1>2, <2>5, <2>6
<1>10. Goes(n)
  <2>1. 0 \in Sure
    BY <1>1, <1>8
  <2>2. \A k \in 1..n : k - 1 \in Sure => k \in Sure
    <3> SUFFICES ASSUME NEW k \in 1..n, k - 1 \in Sure PROVE k \in Sure
      OBVIOUS
    <3>1. Goes(k - 1) /\ k \in 0..n
      BY <1>1
    <3> QED
      BY <1>9, <3>1
  <2> HIDE DEF Sure, Goes
  <2>3. 0..n \subseteq Sure
    BY <1>1, <2>1, <2>2, BoundedInduction
  <2>4. n \in Sure
    BY <1>1, <2>3
  <2> QED
    BY <2>4 DEF Sure
<1> HIDE DEF Goes
<1>11. f[n] \in Seq(Answered)
  BY <1>1, <1>5
<1>12. PartOf(R!Fresh, kept)
  BY <1>5, <1>10 DEF Goes, PartOf, n
<1>13. R!SizeOf(R!Fresh) \in Nat /\ R!SizeOf(R!Fresh) <= R!SizeOf(kept)
  BY <1>5, <1>6, <1>10, <1>11, SizeFacts DEF Goes
<1> QED
  BY <1>5, <1>11, <1>12, <1>13

StoreTyped ==
    /\ kept \in Seq(Answered) /\ counters \in [Stored -> Nat] /\ bytes \in Nat /\ puts \in Nat
    /\ shown \in SUBSET (Stored \X Nat \X Nat)

\* An answer of more than half of the store is not kept, so one alone always fits.
Bounds(entries, sum) ==
    /\ sum = R!SizeOf(entries) /\ sum <= TotalBytes
    /\ \A r \in Stored : R!CountOf(r, entries) <= PerRun
    /\ Distinct(entries)
    /\ \A i \in 1..Len(entries) : 2 * entries[i].bytes <= TotalBytes

\* A handle is not handed out again while its run's counter is remembered.
Shown(entries, numbers, handles, dropped) ==
    /\ \A i \in 1..Len(entries) : /\ <<entries[i].run, entries[i].ref, entries[i].value>> \in handles
                                  /\ entries[i].ref <= numbers[entries[i].run]
    /\ \A s \in handles : s[1] \in dropped \/ s[2] <= numbers[s[1]]
    /\ \A s, t \in handles : s[1] = t[1] /\ s[2] = t[2] => s[3] = t[3] \/ s[1] \in dropped

StoreInv == StoreTyped /\ Bounds(kept, bytes) /\ Shown(kept, counters, shown, forgot) /\ reply # "another"

LEMMA StoreStart == R!Init => StoreInv
<1> SUFFICES ASSUME R!Init PROVE StoreInv
  OBVIOUS
<1>0. /\ kept = <<>> /\ counters = [r \in Stored |-> 0] /\ bytes = 0 /\ puts = 0 /\ shown = {} /\ reply = "none"
      /\ <<>> \in Seq(Answered) /\ Len(<<>>) = 0
  BY DEF R!Init
<1>1. \A r \in Stored : R!CountOf(r, <<>>) = 0
  <2> TAKE r \in Stored
  <2>1. OfRun(r, <<>>) = {}
    BY DEF OfRun
  <2> QED
    BY <1>0, <2>1, CountIs, FS_EmptySet
<1>2. Bounds(kept, bytes)
  BY <1>0, <1>1, SizeFacts, TurnConstants DEF Bounds, Distinct
<1>3. Shown(kept, counters, shown, forgot)
  BY <1>0 DEF Shown
<1> QED
  BY <1>0, <1>2, <1>3 DEF StoreInv, StoreTyped

\* sweep(): what is left, and which counters.
LEMMA Sweeps ==
    ASSUME StoreInv
    PROVE  /\ R!Fresh \in Seq(Answered) /\ Bounds(R!Fresh, R!SizeOf(R!Fresh))
           /\ R!SizeOf(R!Fresh) \in Nat
           /\ R!Counted(R!Fresh) \in [Stored -> Nat]
           /\ \A r \in Stored : r \notin R!Dropped(R!Counted(R!Fresh)) => R!Counted(R!Fresh)[r] = counters[r]
           /\ Shown(R!Fresh, R!Counted(R!Fresh), shown, forgot \cup R!Dropped(R!Counted(R!Fresh)))
<1> DEFINE left == R!Fresh
           swept == R!Counted(left)
           gone == R!Dropped(swept)
<1>0. StoreTyped /\ Bounds(kept, bytes) /\ Shown(kept, counters, shown, forgot) /\ TotalBytes \in Nat /\ PerRun \in Nat
  BY TurnConstants DEF StoreInv
<1>1. /\ left \in Seq(Answered) /\ R!SizeOf(left) \in Nat /\ R!SizeOf(left) <= R!SizeOf(kept)
      /\ PartOf(left, kept) /\ kept \in Seq(Answered)
  BY <1>0, FreshIs DEF StoreTyped
<1>2. PICK m : PartBy(left, kept, Len(kept), m)
  BY <1>1 DEF PartOf, PartUpTo
<1> HIDE DEF left
<1>3. /\ \A a \in 1..Len(left) : m[a] \in 1..Len(kept) /\ left[a] = kept[m[a]]
      /\ Distinct(kept) => Distinct(left)
      /\ \A r : R!CountOf(r, left) <= R!CountOf(r, kept)
  BY <1>1, <1>2, PartKeeps
<1>4. Bounds(left, R!SizeOf(left))
  <2>1. R!SizeOf(left) <= TotalBytes
    BY <1>0, <1>1 DEF Bounds, StoreTyped
  <2>2. \A r \in Stored : R!CountOf(r, left) <= PerRun
    <3> TAKE r \in Stored
    <3>1. /\ R!CountOf(r, left) \in Nat /\ R!CountOf(r, kept) \in Nat /\ R!CountOf(r, kept) <= PerRun
          /\ R!CountOf(r, left) <= R!CountOf(r, kept)
      BY <1>0, <1>1, <1>3, CountIs DEF Bounds
    <3> QED
      BY <1>0, <3>1
  <2>3. \A i \in 1..Len(left) : 2 * left[i].bytes <= TotalBytes
    BY <1>0, <1>3 DEF Bounds
  <2> QED
    BY <1>0, <1>3, <2>1, <2>2, <2>3 DEF Bounds
<1>5. counters \in [Stored -> Nat]
  BY <1>0 DEF StoreTyped
<1>6. /\ swept \in [Stored -> Nat]
      /\ \A r \in Stored : swept[r] = counters[r] \/ (swept[r] = 0 /\ R!CountOf(r, left) = 0)
  BY <1>5 DEF R!Counted
<1> HIDE DEF swept
<1>7. \A r \in Stored : r \notin gone => swept[r] = counters[r]
  BY <1>5, <1>6 DEF R!Dropped
<1>8. ASSUME NEW i \in 1..Len(left)
      PROVE  <<left[i].run, left[i].ref, left[i].value>> \in shown /\ left[i].ref <= swept[left[i].run]
  <2>1. left[i] = kept[m[i]] /\ m[i] \in 1..Len(kept)
    BY <1>3
  <2>2. <<left[i].run, left[i].ref, left[i].value>> \in shown /\ left[i].ref <= counters[left[i].run]
    BY <1>0, <2>1 DEF Shown
  <2>3. left[i] \in Answered
    BY <1>1
  <2>4. left[i].run \in Stored
    BY <2>3 DEF Answered
  <2>5. R!CountOf(left[i].run, left) # 0
    <3>1. i \in OfRun(left[i].run, left)
      BY DEF OfRun
    <3>2. IsFiniteSet(OfRun(left[i].run, left)) /\ R!CountOf(left[i].run, left) = Cardinality(OfRun(left[i].run, left))
      BY <1>1, CountIs
    <3> QED
      BY <3>1, <3>2, FS_EmptySet
  <2> QED
    BY <1>6, <2>2, <2>4, <2>5
<1>9. ASSUME NEW s \in shown PROVE s[1] \in forgot \cup gone \/ s[2] <= swept[s[1]]
  <2>1. s[1] \in Stored
    BY <1>0 DEF StoreTyped
  <2> QED
    BY <1>0, <1>7, <2>1 DEF Shown
<1> HIDE DEF gone
<1>10. Shown(left, swept, shown, forgot \cup gone)
  BY <1>0, <1>8, <1>9 DEF Shown
<1> QED
  BY <1>1, <1>4, <1>6, <1>7, <1>10 DEF left, swept, gone

LEMMA WithinRunIs ==
    ASSUME NEW t \in Seq(Answered), NEW owner \in Stored, Len(t) > 0, Distinct(t),
           \A r \in Stored : R!CountOf(r, t) <= PerRun + (IF r = owner THEN 1 ELSE 0),
           \A i \in 1..Len(t) : 2 * t[i].bytes <= TotalBytes
    PROVE  /\ PartOf(R!WithinRun(t, owner), t) /\ Len(R!WithinRun(t, owner)) > 0
           /\ \A r \in Stored : R!CountOf(r, R!WithinRun(t, owner)) <= PerRun
<1>0. PerRun \in Nat \ {0} /\ Len(t) \in Nat /\ DOMAIN t = 1..Len(t)
  BY TurnConstants
<1>1. CASE R!CountOf(owner, t) <= PerRun
  <2>1. R!WithinRun(t, owner) = t
    BY <1>1 DEF R!WithinRun
  <2>2. PartOf(t, t)
    <3>1. 1 \in 1..Len(t) /\ SubSeq(t, 1, Len(t)) = t
      BY <1>0, SubSeqFull
    <3> QED
      BY <3>1, SuffixIs
  <2>3. \A r \in Stored : R!CountOf(r, t) <= PerRun
    BY <1>0, <1>1
  <2> QED
    BY <2>1, <2>2, <2>3
<1>2. CASE ~(R!CountOf(owner, t) <= PerRun)
  <2>1. /\ R!CountOf(owner, t) = Cardinality(OfRun(owner, t)) /\ IsFiniteSet(OfRun(owner, t)) /\ R!CountOf(owner, t) \in Nat
    BY CountIs
  <2>2. OfRun(owner, t) # {}
    BY <1>0, <1>2, <2>1, FS_EmptySet
  <2>3. Len(t) >= 2
    <3>0. OfRun(owner, t) \in SUBSET (1..Len(t))
      BY DEF OfRun
    <3>1. IsFiniteSet(1..Len(t)) /\ Cardinality(1..Len(t)) = Len(t)
      BY <1>0, FS_Interval
    <3>2. Cardinality(OfRun(owner, t)) <= Len(t)
      BY <3>0, <3>1, FS_Subset
    <3> QED
      BY <1>0, <1>2, <2>1, <3>2
  <2> DEFINE IsFirst(i) == t[i].run = owner /\ \A j \in 1..(i - 1) : t[j].run # owner
             first == CHOOSE i \in DOMAIN t : IsFirst(i)
  <2>4. \E i \in DOMAIN t : IsFirst(i)
    <3>1. OfRun(owner, t) \in SUBSET Nat
      BY <1>0 DEF OfRun
    <3>2. PICK i \in OfRun(owner, t) : \A k \in OfRun(owner, t) : i <= k
      BY <2>2, <3>1, LeastNat
    <3>3. i \in 1..Len(t) /\ t[i].run = owner
      BY DEF OfRun
    <3>4. \A j \in 1..(i - 1) : j \in 1..Len(t) /\ ~(i <= j)
      BY <1>0, <3>3
    <3>5. \A j \in 1..(i - 1) : t[j].run # owner
      BY <3>2, <3>4 DEF OfRun
    <3> QED
      BY <1>0, <3>3, <3>5
  <2>5. first \in 1..Len(t) /\ t[first].run = owner
    BY <1>0, <2>4
  <2>6. R!WithinRun(t, owner) = Without(t, first)
    BY <1>2, Zenon DEF R!WithinRun, Without
  <2> HIDE DEF first
  <2> DEFINE s == Without(t, first)
  <2>7. PICK m : Len(s) = Len(t) - 1 /\ PartBy(s, t, Len(t), m) /\ \A a \in 1..(Len(t) - 1) : m[a] # first
    BY <2>5, RemovalIs
  <2> HIDE DEF s
  <2>8. R!CountOf(owner, s) <= R!CountOf(owner, t) - 1 /\ \A r : R!CountOf(r, s) <= R!CountOf(r, t)
    <3>1. \A r : R!CountOf(r, s) <= R!CountOf(r, t)
      BY <2>7, PartKeeps, Zenon
    <3>2. \A a \in 1..Len(s) : m[a] # first
      <4>1. Len(t) \in Nat /\ Len(s) = Len(t) - 1
        BY <2>7
      <4> QED
        BY <2>7, <4>1, Zenon
    <3>3. \A r : \A gone \in 1..Len(t) : t[gone].run = r /\ (\A a \in 1..Len(s) : m[a] # gone) =>
                                             R!CountOf(r, s) <= R!CountOf(r, t) - 1
      BY <2>7, PartKeeps
    <3>4. R!CountOf(owner, s) <= R!CountOf(owner, t) - 1
      BY <2>5, <3>2, <3>3, Zenon
    <3> QED
      BY <3>1, <3>4, Zenon
  <2>9. s \in Seq(Answered)
    BY <2>7 DEF PartBy
  <2>10. \A r \in Stored : R!CountOf(r, s) <= PerRun
    <3> TAKE r \in Stored
    <3>1. R!CountOf(r, s) \in Nat /\ R!CountOf(r, t) \in Nat /\ R!CountOf(r, t) <= PerRun + (IF r = owner THEN 1 ELSE 0)
      BY <2>9, CountIs
    <3> QED
      BY <1>0, <2>8, <3>1
  <2> QED
    BY <2>3, <2>6, <2>7, <2>10 DEF s, PartOf, PartUpTo
<1> QED
  BY <1>1, <1>2

LEMMA FittingIs ==
    ASSUME NEW t \in Seq(Answered), Len(t) > 0, \A i \in 1..Len(t) : 2 * t[i].bytes <= TotalBytes
    PROVE  PartOf(R!Fitting(t), t) /\ R!SizeOf(R!Fitting(t)) <= TotalBytes
<1> DEFINE Rest(n) == SubSeq(t, n, Len(t))
           Fits(n) == R!SizeOf(Rest(n)) <= TotalBytes \/ n = Len(t)
           IsFirst(n) == Fits(n) /\ \A m \in 1..(n - 1) : R!SizeOf(Rest(m)) > TotalBytes
           first == CHOOSE n \in 1..Len(t) : IsFirst(n)
           Good == {n \in 1..Len(t) : Fits(n)}
<1>0. Len(t) \in Nat /\ Len(t) \in 1..Len(t) /\ TotalBytes \in Nat
  BY TurnConstants
<1>1. \A n \in 1..Len(t) : R!SizeOf(Rest(n)) \in Nat
  <2> TAKE n \in 1..Len(t)
  <2>1. Rest(n) \in Seq(Answered)
    BY <1>0, SubSeqProperties
  <2> HIDE DEF Rest
  <2> QED
    BY <2>1, SizeFacts
<1>2. R!Fitting(t) = Rest(first)
  BY DEF R!Fitting
<1>3. \E n \in 1..Len(t) : IsFirst(n)
  <2> HIDE DEF Rest
  <2>1. Good \in SUBSET Nat /\ Len(t) \in Good
    BY <1>0
  <2> HIDE DEF Good
  <2>2. PICK n \in Good : \A k \in Good : n <= k
    BY <2>1, LeastNat
  <2>3. n \in 1..Len(t) /\ Fits(n)
    BY <2>2 DEF Good
  <2>4. ASSUME NEW m \in 1..(n - 1) PROVE R!SizeOf(Rest(m)) > TotalBytes
    <3>1. m \in 1..Len(t) /\ ~(n <= m)
      BY <1>0, <2>3
    <3>2. ~Fits(m)
      BY <2>2, <3>1 DEF Good
    <3> QED
      BY <1>0, <1>1, <3>1, <3>2
  <2> QED
    BY <2>3, <2>4
<1>4. first \in 1..Len(t) /\ Fits(first)
  <2> HIDE DEF Fits, Rest
  <2> QED
    BY <1>3
<1> HIDE DEF first
<1>5. PartOf(Rest(first), t)
  BY <1>4, SuffixIs
<1>6. R!SizeOf(Rest(first)) <= TotalBytes
  <2>1. CASE first = Len(t)
    <3>1. /\ Rest(first) \in Seq(Answered) /\ Len(Rest(first)) = 1 /\ Rest(first)[1] = t[Len(t)] /\ t[Len(t)] \in Answered
      <4>1. /\ Rest(first) \in Seq(Answered) /\ Len(Rest(first)) = Len(t) - first + 1
            /\ \A i \in 1..(Len(t) - first + 1) : Rest(first)[i] = t[first + i - 1]
        BY <1>0, <1>4, SubSeqProperties
      <4> HIDE DEF Rest
      <4>2. Len(t) - first + 1 = 1 /\ first + 1 - 1 = Len(t) /\ 1 \in 1..1
        BY <1>0, <2>1
      <4> QED
        BY <1>0, <4>1, <4>2
    <3> HIDE DEF Rest
    <3>2. Rest(first) = Append(<<>>, t[Len(t)])
      BY <3>1
    <3>3. R!SizeOf(Rest(first)) = 0 + t[Len(t)].bytes
      <4>1. <<>> \in Seq(Answered)
        OBVIOUS
      <4> QED
        BY <3>1, <3>2, <4>1, SizeFacts
    <3>4. t[Len(t)].bytes \in Nat /\ 2 * t[Len(t)].bytes <= TotalBytes
      BY <1>0, <3>1 DEF Answered
    <3> QED
      BY <1>0, <3>3, <3>4
  <2>2. CASE first # Len(t)
    BY <1>4, <2>2
  <2> QED
    BY <2>1, <2>2
<1> QED
  BY <1>2, <1>5, <1>6

LEMMA StoreStep == StoreInv /\ [R!Next]_(R!store) => StoreInv'
<1> SUFFICES ASSUME StoreInv, [R!Next]_(R!store) PROVE StoreInv'
  OBVIOUS
<1>0. /\ kept \in Seq(Answered) /\ counters \in [Stored -> Nat] /\ bytes \in Nat /\ puts \in Nat
      /\ shown \in SUBSET (Stored \X Nat \X Nat)
      /\ Bounds(kept, bytes) /\ Shown(kept, counters, shown, forgot) /\ reply # "another"
      /\ TotalBytes \in Nat /\ PerRun \in Nat \ {0} /\ Sizes \subseteq Nat
  BY TurnConstants DEF StoreInv, StoreTyped
<1> DEFINE left == R!Fresh
           swept == R!Counted(left)
           gone == R!Dropped(swept)
<1>1. /\ left \in Seq(Answered) /\ Bounds(left, R!SizeOf(left)) /\ R!SizeOf(left) \in Nat
      /\ swept \in [Stored -> Nat]
      /\ Shown(left, swept, shown, forgot \cup gone)
  BY Sweeps
<1>2. bytes = R!SizeOf(kept)
  BY <1>0 DEF Bounds
<1>3. ASSUME NEW owner \in Stored, NEW size \in Sizes, R!Put(owner, size) PROVE StoreInv'
  <2>0. size \in Nat /\ puts' = puts + 1 /\ puts + 1 \in Nat /\ reply' = reply
    BY <1>0, <1>3 DEF R!Put
  <2>1. CASE 2 * size > TotalBytes
    <3>1. UNCHANGED <<kept, counters, bytes, shown, forgot>>
      BY <1>3, <2>1 DEF R!Put
    <3> QED
      BY <1>0, <2>0, <3>1 DEF StoreInv, StoreTyped
  <2>2. CASE ~(2 * size > TotalBytes)
    <3> DEFINE ref == R!NextNumber(swept, owner)
               entry == [run |-> owner, ref |-> ref, value |-> puts + 1, bytes |-> size, age |-> 0]
               placed == R!Placed(entry)
               inRun == R!WithinRun(placed, owner)
               all == R!Fitting(inRun)
    <3>1. /\ counters' = [swept EXCEPT ![owner] = ref]
          /\ kept' = all
          /\ bytes' = bytes - (R!SizeOf(kept) - R!SizeOf(left)) + size - (R!SizeOf(placed) - R!SizeOf(all))
          /\ shown' = shown \cup {<<owner, ref, puts + 1>>}
          /\ forgot' = forgot \cup gone
      BY <1>3, <2>2 DEF R!Put
    <3> HIDE DEF left, swept, gone
    <3>2. ref = swept[owner] + 1 /\ ref \in Nat \ {0}
      BY <1>1 DEF R!NextNumber
    <3> HIDE DEF ref
    <3>3. /\ entry \in Answered /\ entry.run = owner /\ entry.ref = ref /\ entry.value = puts + 1
          /\ entry.bytes = size
      BY <2>0, <3>2 DEF Answered
    <3> HIDE DEF entry
    <3>4. \A i \in 1..Len(left) : left[i].run = owner => left[i].ref # ref /\ left[i].ref < ref
      <4> SUFFICES ASSUME NEW i \in 1..Len(left), left[i].run = owner PROVE left[i].ref < ref /\ left[i].ref # ref
        OBVIOUS
      <4>1. left[i].ref <= swept[owner] /\ swept[owner] \in Nat
        BY <1>1 DEF Shown
      <4>2. left[i] \in Answered
        BY <1>1
      <4>3. left[i].ref \in Nat
        BY <4>2 DEF Answered
      <4> QED
        BY <3>2, <4>1, <4>3
    <3>5. placed = Append(left, entry)
      <4>1. DOMAIN left = 1..Len(left)
        BY <1>1
      <4>2. ~ \E i \in DOMAIN left : R!Has(left[i], entry.run, entry.ref)
        BY <3>3, <3>4, <4>1 DEF R!Has
      <4> QED
        BY <4>2 DEF R!Placed, left
    <3>6. /\ placed \in Seq(Answered) /\ Len(placed) = Len(left) + 1 /\ placed[Len(left) + 1] = entry
          /\ Len(left) \in Nat /\ \A i \in 1..Len(left) : placed[i] = left[i]
      BY <1>1, <3>3, <3>5, AppendProperties
    <3>7. R!SizeOf(placed) = R!SizeOf(left) + size
      BY <1>1, <3>3, <3>5, SizeFacts
    <3> HIDE DEF placed
    <3>8. \A i \in 1..Len(placed) : i # Len(left) + 1 => i \in 1..Len(left)
      BY <3>6
    <3>9. Distinct(placed)
      <4> SUFFICES ASSUME NEW i \in 1..Len(placed), NEW j \in 1..Len(placed),
                          placed[i].run = placed[j].run, placed[i].ref = placed[j].ref
                   PROVE  i = j
        BY DEF Distinct
      <4>1. CASE i = Len(left) + 1 /\ j # Len(left) + 1
        BY <3>3, <3>4, <3>6, <3>8, <4>1
      <4>2. CASE i # Len(left) + 1 /\ j = Len(left) + 1
        BY <3>3, <3>4, <3>6, <3>8, <4>2
      <4>3. CASE i # Len(left) + 1 /\ j # Len(left) + 1
        <5>1. /\ i \in 1..Len(left) /\ j \in 1..Len(left)
              /\ left[i].run = left[j].run /\ left[i].ref = left[j].ref
          BY <3>6, <3>8, <4>3
        <5> QED
          BY <1>1, <5>1 DEF Bounds, Distinct
      <4> QED
        BY <4>1, <4>2, <4>3
    <3>10. \A r \in Stored : R!CountOf(r, placed) <= PerRun + (IF r = owner THEN 1 ELSE 0)
      <4> TAKE r \in Stored
      <4>1. /\ R!CountOf(r, placed) = Cardinality(OfRun(r, placed)) /\ R!CountOf(r, left) = Cardinality(OfRun(r, left))
            /\ IsFiniteSet(OfRun(r, left)) /\ R!CountOf(r, left) \in Nat
        BY <1>1, <3>6, CountIs
      <4>2. R!CountOf(r, left) <= PerRun
        BY <1>1 DEF Bounds
      <4>3. CASE r = owner
        <5>1. OfRun(r, placed) = OfRun(r, left) \cup {Len(left) + 1} /\ Len(left) + 1 \notin OfRun(r, left)
          BY <3>3, <3>6, <3>8, <4>3 DEF OfRun
        <5>2. Cardinality(OfRun(r, placed)) = Cardinality(OfRun(r, left)) + 1
          BY <4>1, <5>1, FS_AddElement
        <5> QED
          BY <1>0, <4>1, <4>2, <4>3, <5>2
      <4>4. CASE r # owner
        <5>1. OfRun(r, placed) = OfRun(r, left)
          BY <3>3, <3>6, <3>8, <4>4 DEF OfRun
        <5> QED
          BY <1>0, <4>1, <4>2, <4>4, <5>1
      <4> QED
        BY <4>3, <4>4
    <3>11. \A i \in 1..Len(placed) : 2 * placed[i].bytes <= TotalBytes
      <4>1. \A i \in 1..Len(left) : 2 * left[i].bytes <= TotalBytes
        BY <1>1 DEF Bounds
      <4>2. 2 * size <= TotalBytes
        BY <1>0, <2>0, <2>2
      <4> QED
        BY <3>3, <3>6, <3>8, <4>1, <4>2
    <3>12. PartOf(inRun, placed) /\ Len(inRun) > 0 /\ \A r \in Stored : R!CountOf(r, inRun) <= PerRun
      <4>1. Len(placed) > 0
        BY <3>6
      <4> QED
        BY <3>6, <3>9, <3>10, <3>11, <4>1, WithinRunIs
    <3> HIDE DEF inRun
    <3>13. PICK m : PartBy(inRun, placed, Len(placed), m)
      BY <3>12 DEF PartOf, PartUpTo
    <3>14. /\ inRun \in Seq(Answered) /\ Distinct(inRun)
           /\ \A a \in 1..Len(inRun) : m[a] \in 1..Len(placed) /\ inRun[a] = placed[m[a]]
      <4>1. inRun \in Seq(Answered)
        BY <3>13 DEF PartBy
      <4> QED
        BY <3>6, <3>9, <3>13, <4>1, PartKeeps
    <3>15. \A a \in 1..Len(inRun) : 2 * inRun[a].bytes <= TotalBytes
      BY <3>11, <3>14
    <3>16. PartOf(all, inRun) /\ R!SizeOf(all) <= TotalBytes
      BY <3>12, <3>14, <3>15, FittingIs
    <3> HIDE DEF all
    <3>17. PICK q : PartBy(all, inRun, Len(inRun), q)
      BY <3>16 DEF PartOf, PartUpTo
    <3>18. /\ all \in Seq(Answered) /\ Distinct(all) /\ \A r : R!CountOf(r, all) <= R!CountOf(r, inRun)
           /\ \A a \in 1..Len(all) : q[a] \in 1..Len(inRun) /\ all[a] = inRun[q[a]]
      <4>1. all \in Seq(Answered)
        BY <3>17 DEF PartBy
      <4> QED
        BY <3>14, <3>17, <4>1, PartKeeps
    <3>19. \A a \in 1..Len(all) : m[q[a]] \in 1..Len(placed) /\ all[a] = placed[m[q[a]]]
      BY <3>14, <3>18
    <3>20. bytes' = R!SizeOf(all) /\ R!SizeOf(all) \in Nat
      <4>1. R!SizeOf(all) \in Nat /\ R!SizeOf(left) \in Nat /\ R!SizeOf(kept) \in Nat
        BY <1>0, <1>1, <3>18, SizeFacts
      <4> QED
        BY <1>0, <1>2, <2>0, <3>1, <3>7, <4>1
    <3>21. Bounds(all, R!SizeOf(all))
      <4>1. \A r \in Stored : R!CountOf(r, all) <= PerRun
        <5> TAKE r \in Stored
        <5>1. R!CountOf(r, all) \in Nat /\ R!CountOf(r, inRun) \in Nat
          BY <3>14, <3>18, CountIs
        <5> QED
          BY <1>0, <3>12, <3>18, <5>1
      <4>2. \A i \in 1..Len(all) : 2 * all[i].bytes <= TotalBytes
        BY <3>11, <3>19
      <4> QED
        BY <3>16, <3>18, <4>1, <4>2 DEF Bounds
    <3> DEFINE counted == [swept EXCEPT ![owner] = ref]
               handles == shown \cup {<<owner, ref, puts + 1>>}
    <3>22. /\ counted \in [Stored -> Nat] /\ counted[owner] = ref
           /\ \A r \in Stored : swept[r] <= counted[r] /\ swept[r] \in Nat /\ counted[r] \in Nat
      BY <1>1, <3>2
    <3> HIDE DEF counted
    <3>23. ASSUME NEW i \in 1..Len(placed)
           PROVE  <<placed[i].run, placed[i].ref, placed[i].value>> \in handles /\ placed[i].ref <= counted[placed[i].run]
      <4>1. CASE i = Len(left) + 1
        BY <3>2, <3>3, <3>6, <3>22, <4>1
      <4>2. CASE i # Len(left) + 1
        <5>1. i \in 1..Len(left) /\ placed[i] = left[i] /\ left[i] \in Answered
          BY <1>1, <3>6, <3>8, <4>2
        <5>2. left[i].run \in Stored /\ left[i].ref \in Nat
          BY <5>1 DEF Answered
        <5>3. <<left[i].run, left[i].ref, left[i].value>> \in shown /\ left[i].ref <= swept[left[i].run]
          BY <1>1, <5>1 DEF Shown
        <5>4. left[i].ref <= counted[left[i].run]
          BY <3>22, <5>2, <5>3
        <5> QED
          BY <5>1, <5>3, <5>4
      <4> QED
        BY <4>1, <4>2
    <3>24. \A i \in 1..Len(all) : <<all[i].run, all[i].ref, all[i].value>> \in handles /\ all[i].ref <= counted[all[i].run]
      <4> HIDE DEF handles
      <4> QED
        BY <3>19, <3>23
    <3>25. \A s \in shown : s[1] \in Stored /\ s[2] \in Nat
      BY <1>0
    <3>26. ASSUME NEW s \in handles PROVE s[1] \in forgot \cup gone \/ s[2] <= counted[s[1]]
      <4>1. CASE s \in shown
        <5>1. s[1] \in forgot \cup gone \/ s[2] <= swept[s[1]]
          BY <1>1, <4>1 DEF Shown
        <5> QED
          BY <3>22, <3>25, <4>1, <5>1
      <4>2. CASE s = <<owner, ref, puts + 1>>
        <5>1. s[1] = owner /\ s[2] = ref
          BY <4>2
        <5> QED
          BY <3>2, <3>22, <5>1
      <4> QED
        BY <4>1, <4>2
    <3>27. \A s \in shown : s[1] = owner /\ s[2] = ref => s[1] \in forgot \cup gone
      <4> TAKE s \in shown
      <4>1. s[1] \in forgot \cup gone \/ s[2] <= swept[s[1]]
        BY <1>1 DEF Shown
      <4>2. swept[owner] \in Nat
        BY <1>1
      <4> QED
        BY <3>2, <4>1, <4>2
    <3>28. ASSUME NEW s \in handles, NEW t \in handles, s[1] = t[1], s[2] = t[2]
           PROVE  s[3] = t[3] \/ s[1] \in forgot \cup gone
      <4> HIDE DEF handles
      <4>0. /\ s \in shown \/ s = <<owner, ref, puts + 1>>
            /\ t \in shown \/ t = <<owner, ref, puts + 1>>
        BY DEF handles
      <4>1. CASE s \in shown /\ t \in shown
        BY <1>1, <3>28, <4>1 DEF Shown
      <4>2. CASE s \in shown /\ t = <<owner, ref, puts + 1>>
        BY <3>27, <3>28, <4>2
      <4>3. CASE s = <<owner, ref, puts + 1>> /\ t \in shown
        BY <3>27, <3>28, <4>3
      <4>4. CASE s = <<owner, ref, puts + 1>> /\ t = <<owner, ref, puts + 1>>
        BY <4>4
      <4> QED
        BY <4>0, <4>1, <4>2, <4>3, <4>4
    <3>29. handles \in SUBSET (Stored \X Nat \X Nat)
      <4>1. <<owner, ref, puts + 1>> \in Stored \X Nat \X Nat
        BY <2>0, <3>2
      <4> QED
        BY <1>0, <4>1
    <3> HIDE DEF handles
    <3>30. Shown(all, counted, handles, forgot \cup gone)
      BY <3>24, <3>26, <3>28 DEF Shown
    <3>31. /\ kept' = all /\ bytes' = R!SizeOf(all) /\ counters' = counted /\ shown' = handles /\ forgot' = forgot \cup gone
      BY <3>1, <3>20 DEF counted, handles
    <3>32. Bounds(kept, bytes)' /\ Shown(kept, counters, shown, forgot)'
      BY <3>21, <3>30, <3>31 DEF Bounds, Shown
    <3>33. StoreTyped'
      BY <2>0, <3>18, <3>20, <3>22, <3>29, <3>31 DEF StoreTyped
    <3> QED
      BY <1>0, <2>0, <3>32, <3>33 DEF StoreInv
  <2> QED
    BY <2>1, <2>2
<1>4. ASSUME NEW owner \in Stored, NEW ref \in 1..MaxPuts, R!Read(owner, ref) PROVE StoreInv'
  <2>1. /\ counters' = swept /\ forgot' = forgot \cup gone /\ kept' = left
        /\ bytes' = bytes - (R!SizeOf(kept) - R!SizeOf(left)) /\ puts' = puts /\ shown' = shown
    BY <1>4 DEF R!Read
  <2>2. reply' # "another"
    <3> DEFINE hits == {k \in R!Range(left) : R!Has(k, owner, ref)}
               Good(k) == /\ <<owner, ref, k.value>> \in shown
                          /\ \A s \in shown : s[1] = owner /\ s[2] = ref => s[3] = k.value
    <3>1. reply' = CASE hits = {} -> "gone"
                     [] hits # {} /\ \A k \in hits : Good(k) -> "answer"
                     [] OTHER -> IF owner \in forgot THEN "newer" ELSE "another"
      BY <1>4 DEF R!Read
    <3>2. ASSUME NEW k \in hits, owner \notin forgot PROVE Good(k)
      <4>1. PICK i \in DOMAIN left : left[i] = k
        BY DEF R!Range
      <4>2. i \in 1..Len(left) /\ DOMAIN kept = 1..Len(kept)
        BY <1>0, <1>1, <4>1
      <4>3. PICK m : PartBy(left, kept, Len(kept), m)
        BY <1>0, FreshIs DEF PartOf, PartUpTo
      <4>4. m[i] \in 1..Len(kept) /\ k = kept[m[i]]
        BY <1>0, <1>1, <4>1, <4>2, <4>3, PartKeeps
      <4>5. <<k.run, k.ref, k.value>> \in shown
        BY <1>0, <4>4 DEF Shown
      <4>6. k.run = owner /\ k.ref = ref
        BY DEF R!Has
      <4>7. <<owner, ref, k.value>> \in shown
        BY <4>5, <4>6
      <4>8. ASSUME NEW s \in shown, s[1] = owner, s[2] = ref PROVE s[3] = k.value
        <5> DEFINE t == <<owner, ref, k.value>>
        <5>1. t \in shown /\ t[1] = s[1] /\ t[2] = s[2] /\ t[3] = k.value
          BY <4>7, <4>8
        <5> HIDE DEF t
        <5>2. s[3] = t[3] \/ s[1] \in forgot
          BY <1>0, <5>1 DEF Shown
        <5> QED
          BY <3>2, <4>8, <5>1, <5>2
      <4> QED
        BY <4>7, <4>8
    <3> HIDE DEF hits, Good
    <3> QED
      BY <3>1, <3>2
  <2> HIDE DEF left, swept, gone
  <2>3. bytes' = R!SizeOf(left) /\ R!SizeOf(kept) \in Nat
    BY <1>0, <1>1, <1>2, <2>1, SizeFacts
  <2>4. Bounds(kept, bytes)' /\ Shown(kept, counters, shown, forgot)'
    BY <1>1, <2>1, <2>3 DEF Bounds, Shown
  <2> QED
    BY <1>0, <1>1, <2>1, <2>2, <2>3, <2>4 DEF StoreInv, StoreTyped
<1>5. CASE R!Tick
  <2> DEFINE aged == [i \in DOMAIN kept |-> [kept[i] EXCEPT !.age = IF kept[i].age > MaxAge THEN kept[i].age ELSE kept[i].age + 1]]
  <2>1. kept' = aged /\ UNCHANGED <<counters, bytes, puts, shown, forgot, reply>>
    BY <1>5 DEF R!Tick
  <2>2. DOMAIN kept = 1..Len(kept) /\ Len(kept) \in Nat /\ \A i \in 1..Len(kept) : kept[i] \in Answered
    BY <1>0
  <2>3. ASSUME NEW e \in Answered
        PROVE  LET older == [e EXCEPT !.age = IF e.age > MaxAge THEN e.age ELSE e.age + 1]
               IN  older \in Answered /\ older.run = e.run /\ older.ref = e.ref /\ older.value = e.value /\ older.bytes = e.bytes
    BY DEF Answered
  <2>4. /\ aged \in Seq(Answered) /\ Len(aged) = Len(kept)
        /\ \A i \in 1..Len(kept) : /\ aged[i].run = kept[i].run /\ aged[i].ref = kept[i].ref
                                   /\ aged[i].value = kept[i].value /\ aged[i].bytes = kept[i].bytes
    <3>1. \A i \in 1..Len(kept) : /\ aged[i] \in Answered /\ aged[i].run = kept[i].run /\ aged[i].ref = kept[i].ref
                                  /\ aged[i].value = kept[i].value /\ aged[i].bytes = kept[i].bytes
      BY <2>2, <2>3
    <3>2. aged = [i \in 1..Len(kept) |-> aged[i]]
      BY <2>2
    <3> HIDE DEF aged
    <3>3. Len([i \in 1..Len(kept) |-> aged[i]]) = Len(kept) /\ [i \in 1..Len(kept) |-> aged[i]] \in Seq(Answered)
      BY <2>2, <3>1
    <3> QED
      BY <3>1, <3>2, <3>3
  <2> HIDE DEF aged
  <2>5. R!SizeOf(aged) = R!SizeOf(kept)
    BY <1>0, <2>4, SizeFacts
  <2>6. \A r \in Stored : R!CountOf(r, aged) = R!CountOf(r, kept)
    <3> TAKE r \in Stored
    <3>1. OfRun(r, aged) = OfRun(r, kept)
      BY <2>4 DEF OfRun
    <3> QED
      BY <1>0, <2>4, <3>1, CountIs
  <2>7. Bounds(aged, bytes)
    <3>1. Distinct(aged)
      BY <1>0, <2>4 DEF Bounds, Distinct
    <3>2. \A i \in 1..Len(aged) : 2 * aged[i].bytes <= TotalBytes
      BY <1>0, <2>4 DEF Bounds
    <3> QED
      BY <1>0, <2>5, <2>6, <3>1, <3>2 DEF Bounds
  <2>8. Shown(aged, counters, shown, forgot)
    BY <1>0, <2>4 DEF Shown
  <2>9. Bounds(kept, bytes)' /\ Shown(kept, counters, shown, forgot)'
    BY <2>1, <2>7, <2>8 DEF Bounds, Shown
  <2> QED
    BY <1>0, <2>1, <2>4, <2>9 DEF StoreInv, StoreTyped
<1>6. CASE UNCHANGED R!store
  BY <1>6 DEF R!store, StoreInv, StoreTyped, Bounds, Shown
<1> QED
  BY <1>3, <1>4, <1>5, <1>6 DEF R!Next

LEMMA StoreSound == StoreInv => R!WithinBounds /\ R!HandleIsKept
<1> SUFFICES ASSUME StoreInv PROVE R!WithinBounds /\ R!HandleIsKept
  OBVIOUS
<1>1. kept \in Seq(Answered) /\ Bounds(kept, bytes) /\ reply # "another"
  BY DEF StoreInv, StoreTyped
<1>2. DOMAIN kept = 1..Len(kept)
  BY <1>1
<1> QED
  BY <1>1, <1>2 DEF Bounds, Distinct, R!WithinBounds, R!HandleIsKept, R!Has

-----------------------------------------------------------------------------
(***************************************************************************)
(* The window.  A view is the transcript as a call of the model finds it,  *)
(* patched and with previews; a request is a view, or a summary and the    *)
(* rest of a view.                                                         *)
(***************************************************************************)
Said == [kind : {"user", "call", "result"}, id : Int, call : Nat, large : BOOLEAN, stamp : Nat, holds : SUBSET Int,
         file : {FALSE}]

Summaries == [kind : {"summary"}, id : {0}, call : {0}, large : {FALSE}, stamp : {0}, holds : SUBSET Int, file : BOOLEAN]

Follows(m, after) == m.kind = "result" /\ m.call = after.call

\* The runner's transcript of n messages.
Grown(s, n) ==
    /\ s \in Seq(Said)
    /\ \A i \in 1..Len(s) : /\ s[i].stamp = 0 /\ s[i].holds = {s[i].id} /\ s[i].id > 0 /\ s[i].id <= n
                            /\ s[i].kind = "call" => s[i].call = s[i].id
                            /\ s[i].kind = "result" => i > 1 /\ s[i - 1].kind = "call" /\ Follows(s[i], s[i - 1])
    /\ \A i, j \in 1..Len(s) : i < j => s[i].id < s[j].id

\* The place of a message in the order of its patched transcript: a result made up
\* for a call comes right after it.
Key(id) == IF id > 0 THEN 2 * id ELSE 1 - 2 * id

LEMMA KeysAreOrdered ==
    ASSUME NEW a \in Int, NEW b \in Int, a > 0
    PROVE  /\ Key(a) \in Int /\ Key(-a) \in Int /\ Key(a) < Key(-a)
           /\ a < b => Key(a) < Key(b) /\ Key(-a) < Key(b)
BY DEF Key

InOrder(s) == \A i, j \in 1..Len(s) : i < j => Key(s[i].id) < Key(s[j].id)

\* Paired, but for a last call.
Laid(s) ==
    /\ s \in Seq(Said) /\ InOrder(s)
    /\ \A i \in 1..Len(s) : /\ s[i].kind = "result" => i > 1 /\ s[i - 1].kind = "call" /\ Follows(s[i], s[i - 1])
                            /\ s[i].kind = "call" /\ i < Len(s) => Follows(s[i + 1], s[i])

Paired(s) == \A i \in 1..Len(s) :
    /\ s[i].kind = "call" => i < Len(s) /\ Follows(s[i + 1], s[i])
    /\ s[i].kind = "result" => i > 1 /\ s[i - 1].kind = "call" /\ Follows(s[i], s[i - 1])

\* What has to be so for a message to come next.
ComesNext(s, m) ==
    /\ m \in Said
    /\ \A i \in 1..Len(s) : Key(s[i].id) < Key(m.id)
    /\ Len(s) > 0 /\ s[Len(s)].kind = "call" => Follows(m, s[Len(s)])
    /\ m.kind = "result" => Len(s) > 0 /\ s[Len(s)].kind = "call" /\ Follows(m, s[Len(s)])

LEMMA LaidMore ==
    ASSUME NEW s, NEW m, Laid(s), ComesNext(s, m)
    PROVE  Laid(Append(s, m))
<1> DEFINE all == Append(s, m)
           n == Len(s) + 1
<1>0. s \in Seq(Said) /\ m \in Said /\ Len(s) \in Nat
  BY DEF Laid, ComesNext
<1>1. all \in Seq(Said) /\ Len(all) = n /\ all[n] = m /\ \A i \in 1..Len(s) : all[i] = s[i]
  BY <1>0, AppendProperties
<1> HIDE DEF all
<1>2. /\ n \in Nat /\ n - 1 = Len(s)
      /\ \A i \in 1..n : i # n => i \in 1..Len(s)
      /\ \A i \in 1..n : i > 1 => i - 1 \in 1..Len(s)
      /\ \A i \in 1..Len(s) : i \in 1..n /\ i # n /\ (i < Len(s) => i + 1 \in 1..Len(s)) /\ (i > 1 => i - 1 \in 1..Len(s))
  BY <1>0
<1>3. InOrder(all)
  <2> SUFFICES ASSUME NEW i \in 1..n, NEW j \in 1..n, i < j PROVE Key(all[i].id) < Key(all[j].id)
    BY <1>1 DEF InOrder
  <2>1. i \in 1..Len(s) /\ all[i] = s[i]
    BY <1>0, <1>1
  <2>2. CASE j = n
    BY <1>1, <2>1, <2>2 DEF ComesNext
  <2>3. CASE j # n
    BY <1>1, <1>2, <2>1, <2>3 DEF Laid, InOrder
  <2> QED
    BY <2>2, <2>3
<1>4. ASSUME NEW i \in 1..n, all[i].kind = "result"
      PROVE  i > 1 /\ all[i - 1].kind = "call" /\ Follows(all[i], all[i - 1])
  <2>1. CASE i = n
    <3>1. Len(s) > 0 /\ s[Len(s)].kind = "call" /\ Follows(m, s[Len(s)])
      BY <1>1, <1>4, <2>1 DEF ComesNext
    <3>2. Len(s) \in 1..Len(s) /\ n > 1
      BY <1>0, <3>1
    <3> QED
      BY <1>1, <1>2, <2>1, <3>1, <3>2
  <2>2. CASE i # n
    <3>1. i \in 1..Len(s) /\ all[i] = s[i]
      BY <1>1, <1>2, <2>2
    <3>2. i > 1 /\ s[i - 1].kind = "call" /\ Follows(s[i], s[i - 1])
      BY <1>4, <3>1 DEF Laid
    <3>3. all[i - 1] = s[i - 1]
      BY <1>1, <1>2, <3>2
    <3> QED
      BY <3>1, <3>2, <3>3
  <2> QED
    BY <2>1, <2>2
<1>5. ASSUME NEW i \in 1..n, all[i].kind = "call", i < n PROVE Follows(all[i + 1], all[i])
  <2>1. i \in 1..Len(s) /\ all[i] = s[i]
    BY <1>0, <1>1, <1>5
  <2>2. CASE i = Len(s)
    BY <1>0, <1>1, <1>5, <2>1, <2>2 DEF ComesNext
  <2>3. CASE i # Len(s)
    <3>1. i < Len(s)
      BY <1>0, <2>1, <2>3
    <3>2. Follows(s[i + 1], s[i])
      BY <1>5, <2>1, <3>1 DEF Laid
    <3> QED
      BY <1>1, <1>2, <2>1, <3>1, <3>2
  <2> QED
    BY <2>2, <2>3
<1>6. \A i \in 1..Len(all) : /\ all[i].kind = "result" => i > 1 /\ all[i - 1].kind = "call" /\ Follows(all[i], all[i - 1])
                             /\ all[i].kind = "call" /\ i < Len(all) => Follows(all[i + 1], all[i])
  BY <1>1, <1>4, <1>5
<1>7. Laid(all)
  BY <1>1, <1>3, <1>6 DEF Laid
<1> QED
  BY <1>7 DEF all

\* The transcript after one more message.
LEMMA GrownMore ==
    ASSUME NEW s, NEW n \in Nat, NEW m, Grown(s, n), m \in Said, m.stamp = 0, m.holds = {m.id}, m.id = n + 1,
           m.kind = "call" => m.call = m.id,
           m.kind = "result" => Len(s) > 0 /\ s[Len(s)].kind = "call" /\ Follows(m, s[Len(s)])
    PROVE  /\ Grown(Append(s, m), n + 1) /\ Append(s, m)[Len(Append(s, m))] = m /\ Len(Append(s, m)) > 0
           /\ \A j \in 1..Len(Append(s, m)) : (\E i \in 1..Len(s) : Append(s, m)[j] = s[i]) \/ Append(s, m)[j] = m
<1> DEFINE all == Append(s, m)
           k == Len(s) + 1
<1>0. s \in Seq(Said) /\ Len(s) \in Nat
  BY DEF Grown
<1>1. all \in Seq(Said) /\ Len(all) = k /\ all[k] = m /\ \A i \in 1..Len(s) : all[i] = s[i]
  BY <1>0, AppendProperties
<1> HIDE DEF all
<1>2. /\ k \in Nat /\ k - 1 = Len(s) /\ k > 0
      /\ \A i \in 1..k : i # k => i \in 1..Len(s)
      /\ \A i \in 1..k : i > 1 => i - 1 \in 1..Len(s)
  BY <1>0
<1>3. ASSUME NEW i \in 1..k
      PROVE  /\ all[i].stamp = 0 /\ all[i].holds = {all[i].id} /\ all[i].id > 0 /\ all[i].id <= n + 1
             /\ all[i].kind = "call" => all[i].call = all[i].id
             /\ all[i].kind = "result" => i > 1 /\ all[i - 1].kind = "call" /\ Follows(all[i], all[i - 1])
  <2>1. CASE i = k
    <3>1. all[i] = m /\ m.id > 0 /\ m.id <= n + 1
      BY <1>1, <2>1
    <3>2. m.kind = "result" => k > 1 /\ all[k - 1] = s[Len(s)]
      BY <1>0, <1>1
    <3> QED
      BY <2>1, <3>1, <3>2
  <2>2. CASE i # k
    <3>1. i \in 1..Len(s) /\ all[i] = s[i]
      BY <1>1, <1>2, <2>2
    <3>2. /\ s[i].stamp = 0 /\ s[i].holds = {s[i].id} /\ s[i].id > 0 /\ s[i].id <= n
          /\ s[i].kind = "call" => s[i].call = s[i].id
          /\ s[i].kind = "result" => i > 1 /\ s[i - 1].kind = "call" /\ Follows(s[i], s[i - 1])
      BY <3>1 DEF Grown
    <3>3. i > 1 => all[i - 1] = s[i - 1]
      BY <1>0, <1>1, <3>1
    <3>4. s[i].id \in Int
      <4>1. s[i] \in Said
        BY <1>0, <3>1
      <4> QED
        BY <4>1 DEF Said
    <3> QED
      BY <3>1, <3>2, <3>3, <3>4
  <2> QED
    BY <2>1, <2>2
<1>4. ASSUME NEW i \in 1..k, NEW j \in 1..k, i < j PROVE all[i].id < all[j].id
  <2>1. i \in 1..Len(s) /\ all[i] = s[i]
    BY <1>0, <1>1, <1>4
  <2>2. CASE j = k
    <3>1. s[i].id <= n /\ s[i] \in Said
      BY <1>0, <2>1 DEF Grown
    <3>2. s[i].id \in Int
      BY <3>1 DEF Said
    <3> QED
      BY <1>1, <2>1, <2>2, <3>1, <3>2
  <2>3. CASE j # k
    BY <1>1, <1>2, <1>4, <2>1, <2>3 DEF Grown
  <2> QED
    BY <2>2, <2>3
<1>5. Grown(all, n + 1)
  BY <1>1, <1>3, <1>4 DEF Grown
<1>6. \A j \in 1..k : (\E i \in 1..Len(s) : all[j] = s[i]) \/ all[j] = m
  BY <1>1, <1>2
<1> QED
  BY <1>1, <1>2, <1>5, <1>6 DEF all

Open(s, j) == s[j].kind = "call" /\ ~C!Answered(s, s[j].call)

Filler(m) == C!Message("result", -m.id, m.call, FALSE)

\* The answer to a call comes right after it.
LEMMA AnsweredNext ==
    ASSUME NEW s, NEW n \in Nat, Grown(s, n), NEW j \in 1..Len(s), s[j].kind = "call"
    PROVE  /\ ~Open(s, j) => j < Len(s) /\ Follows(s[j + 1], s[j])
           /\ j < Len(s) /\ s[j + 1].kind = "result" => ~Open(s, j)
<1>0. s \in Seq(Said) /\ Len(s) \in Nat /\ DOMAIN s = 1..Len(s)
  BY DEF Grown
<1>1. ASSUME ~Open(s, j) PROVE j < Len(s) /\ Follows(s[j + 1], s[j])
  <2>1. PICK i \in 1..Len(s) : s[i].kind = "result" /\ s[i].call = s[j].call
    BY <1>0, <1>1 DEF Open, C!Answered
  <2>2. i > 1 /\ s[i - 1].kind = "call" /\ s[i].call = s[i - 1].call
    BY <2>1 DEF Grown, Follows
  <2>3. i - 1 \in 1..Len(s) /\ s[i - 1].call = s[i - 1].id /\ s[j].call = s[j].id
    <3>1. i - 1 \in 1..Len(s)
      BY <1>0, <2>2
    <3> QED
      BY <2>2, <3>1 DEF Grown
  <2>4. s[i - 1].id = s[j].id
    BY <2>1, <2>2, <2>3
  <2>5. \A a, b \in 1..Len(s) : a < b => s[a].id < s[b].id
    BY DEF Grown
  <2>6. s[i - 1].id \in Int
    <3>1. s[i - 1] \in Said
      BY <1>0, <2>3
    <3> QED
      BY <3>1 DEF Said
  <2>7. i - 1 = j
    <3>1. ~(i - 1 < j) /\ ~(j < i - 1)
      BY <2>3, <2>4, <2>5, <2>6
    <3> QED
      BY <1>0, <2>3, <3>1
  <2>8. i = j + 1
    BY <1>0, <2>7
  <2> QED
    BY <1>0, <2>1, <2>8 DEF Follows
<1>2. ASSUME j < Len(s), s[j + 1].kind = "result" PROVE ~Open(s, j)
  <2>1. j + 1 \in 1..Len(s) /\ (j + 1) - 1 = j
    BY <1>0, <1>2
  <2>2. Follows(s[j + 1], s[j])
    BY <1>2, <2>1 DEF Grown
  <2> QED
    BY <1>0, <2>1, <2>2 DEF Open, C!Answered, Follows
<1> QED
  BY <1>1, <1>2

\* PatchToolCalls has come to the kth message.
PatchedTo(p, s, k) ==
    /\ Laid(p)
    /\ \A i \in 1..Len(p) : \E j \in 1..k : p[i] = s[j] \/ (Open(s, j) /\ p[i] = Filler(s[j]))
    /\ \A j \in 1..k : \E i \in 1..Len(p) : p[i] = s[j]
    /\ k > 0 => Len(p) > 0 /\ p[Len(p)] = IF Open(s, k) THEN Filler(s[k]) ELSE s[k]

LEMMA FillerIs ==
    ASSUME NEW m \in Said
    PROVE  /\ Filler(m) \in Said /\ Filler(m).kind = "result" /\ Filler(m).id = -m.id /\ Filler(m).call = m.call
           /\ Filler(m).stamp = 0 /\ Filler(m).holds = {-m.id} /\ ~Filler(m).large
<1>1. m.id \in Int /\ m.call \in Nat
  BY DEF Said
<1>2. Filler(m) = [kind |-> "result", id |-> -m.id, call |-> m.call, large |-> FALSE, stamp |-> 0, holds |-> {-m.id}, file |-> FALSE]
  BY DEF Filler, C!Message
<1> QED
  BY <1>1, <1>2 DEF Said

LEMMA PatchMore ==
    ASSUME NEW p, NEW s, NEW n \in Nat, Grown(s, n), NEW k \in 1..Len(s), PatchedTo(p, s, k - 1)
    PROVE  PatchedTo(IF Open(s, k) THEN Append(Append(p, s[k]), Filler(s[k])) ELSE Append(p, s[k]), s, k)
<1> DEFINE one == Append(p, s[k])
           two == Append(one, Filler(s[k]))
<1>0. /\ s \in Seq(Said) /\ Len(s) \in Nat /\ k \in Nat /\ s[k] \in Said /\ Laid(p) /\ p \in Seq(Said) /\ Len(p) \in Nat
      /\ \A j \in 1..Len(s) : s[j].id \in Int /\ s[j].id > 0 /\ s[j] \in Said
  <2>1. s \in Seq(Said) /\ Laid(p) /\ p \in Seq(Said)
    BY DEF Grown, PatchedTo, Laid
  <2>2. \A j \in 1..Len(s) : s[j] \in Said /\ s[j].id > 0
    BY <2>1 DEF Grown
  <2>3. \A m \in Said : m.id \in Int
    BY DEF Said
  <2> QED
    BY <2>1, <2>2, <2>3
<1>1. /\ \A i \in 1..Len(p) : \E j \in 1..(k - 1) : p[i] = s[j] \/ (Open(s, j) /\ p[i] = Filler(s[j]))
      /\ \A j \in 1..(k - 1) : \E i \in 1..Len(p) : p[i] = s[j]
      /\ k - 1 > 0 => Len(p) > 0 /\ p[Len(p)] = IF Open(s, k - 1) THEN Filler(s[k - 1]) ELSE s[k - 1]
  BY DEF PatchedTo
<1>2. \A j \in 1..(k - 1) : j \in 1..Len(s) /\ s[j].id < s[k].id
  <2>1. \A j \in 1..(k - 1) : j \in 1..Len(s) /\ j < k
    BY <1>0
  <2> QED
    BY <2>1 DEF Grown
<1>3. ASSUME NEW i \in 1..Len(p) PROVE Key(p[i].id) < Key(s[k].id)
  <2>1. PICK j \in 1..(k - 1) : p[i] = s[j] \/ p[i] = Filler(s[j])
    BY <1>1
  <2>2. j \in 1..Len(s) /\ s[j].id < s[k].id /\ s[j].id \in Int /\ s[k].id \in Int /\ s[j].id > 0
    BY <1>0, <1>2
  <2>3. p[i].id = s[j].id \/ p[i].id = -s[j].id
    BY <1>0, <2>1, <2>2, FillerIs
  <2> QED
    <3>1. Key(s[j].id) < Key(s[k].id) /\ Key(-s[j].id) < Key(s[k].id)
      BY <2>2, KeysAreOrdered, Zenon
    <3> QED
      BY <2>3, <3>1, Zenon
\* k - 1 is the last, when it is a call, and then it was answered.
<1>4. ComesNext(p, s[k])
  <2>1. ASSUME Len(p) > 0, p[Len(p)].kind = "call" PROVE Follows(s[k], p[Len(p)])
    <3>1. k - 1 > 0
      <4>1. Len(p) \in 1..Len(p)
        BY <1>0, <2>1
      <4>2. PICK j \in 1..(k - 1) : p[Len(p)] = s[j] \/ p[Len(p)] = Filler(s[j])
        BY <1>1, <4>1
      <4> QED
        BY <1>0, <4>2
    <3>2. k - 1 \in 1..Len(s) /\ (k - 1) + 1 = k
      BY <1>0, <3>1
    <3>3. ~Open(s, k - 1) /\ p[Len(p)] = s[k - 1]
      BY <1>0, <1>1, <2>1, <3>1, <3>2, FillerIs
    <3> QED
      BY <2>1, <3>2, <3>3, AnsweredNext
  <2>2. ASSUME s[k].kind = "result" PROVE Len(p) > 0 /\ p[Len(p)].kind = "call" /\ Follows(s[k], p[Len(p)])
    <3>1. k > 1 /\ s[k - 1].kind = "call" /\ Follows(s[k], s[k - 1])
      BY <2>2 DEF Grown
    <3>2. k - 1 \in 1..Len(s) /\ (k - 1) + 1 = k /\ k - 1 > 0 /\ k - 1 < Len(s)
      BY <1>0, <3>1
    <3>3. ~Open(s, k - 1)
      BY <2>2, <3>1, <3>2, AnsweredNext
    <3> QED
      BY <1>1, <3>1, <3>2, <3>3
  <2> QED
    BY <1>0, <1>3, <2>1, <2>2 DEF ComesNext
<1>5. Laid(one)
  BY <1>0, <1>4, LaidMore
<1>6. one \in Seq(Said) /\ Len(one) = Len(p) + 1 /\ one[Len(p) + 1] = s[k] /\ \A i \in 1..Len(p) : one[i] = p[i]
  BY <1>0, AppendProperties
<1> HIDE DEF one
<1>7. /\ \A i \in 1..Len(one) : \E j \in 1..k : one[i] = s[j] \/ (Open(s, j) /\ one[i] = Filler(s[j]))
      /\ \A j \in 1..k : \E i \in 1..Len(one) : one[i] = s[j]
  <2>0. /\ k \in 1..k /\ \A j \in 1..k : j # k => j \in 1..(k - 1)
        /\ \A j \in 1..(k - 1) : j \in 1..k
        /\ Len(p) + 1 \in 1..Len(one) /\ \A i \in 1..Len(one) : i # Len(p) + 1 => i \in 1..Len(p)
        /\ \A i \in 1..Len(p) : i \in 1..Len(one)
    BY <1>0, <1>6
  <2>1. ASSUME NEW i \in 1..Len(one) PROVE \E j \in 1..k : one[i] = s[j] \/ (Open(s, j) /\ one[i] = Filler(s[j]))
    <3>1. CASE i = Len(p) + 1
      BY <1>6, <2>0, <3>1
    <3>2. CASE i # Len(p) + 1
      <4>1. i \in 1..Len(p) /\ one[i] = p[i]
        BY <1>6, <2>0, <3>2
      <4> QED
        BY <1>1, <2>0, <4>1, Zenon
    <3> QED
      BY <3>1, <3>2
  <2>2. ASSUME NEW j \in 1..k PROVE \E i \in 1..Len(one) : one[i] = s[j]
    <3>1. CASE j = k
      BY <1>6, <2>0, <3>1
    <3>2. CASE j # k
      <4>1. PICK i \in 1..Len(p) : p[i] = s[j]
        BY <1>1, <2>0, <3>2
      <4> QED
        BY <1>6, <2>0, <4>1
    <3> QED
      BY <3>1, <3>2
  <2> QED
    BY <2>1, <2>2
<1>8. CASE ~Open(s, k)
  <2>1. Len(one) > 0 /\ one[Len(one)] = s[k]
    BY <1>0, <1>6
  <2>2. PatchedTo(one, s, k)
    BY <1>5, <1>7, <1>8, <2>1 DEF PatchedTo
  <2> QED
    BY <1>8, <2>2 DEF one
<1>9. CASE Open(s, k)
  <2>1. s[k].kind = "call" /\ s[k].id > 0 /\ s[k].id \in Int
    BY <1>0, <1>9 DEF Open
  <2>2. /\ Filler(s[k]) \in Said /\ Filler(s[k]).kind = "result" /\ Filler(s[k]).id = -s[k].id /\ Filler(s[k]).call = s[k].call
    BY <1>0, FillerIs
  <2>3. Len(one) > 0 /\ one[Len(one)] = s[k] /\ Len(one) \in Nat
    BY <1>0, <1>6
  <2>4. \A i \in 1..Len(one) : Key(one[i].id) < Key(Filler(s[k]).id)
    <3> TAKE i \in 1..Len(one)
    <3>1. Key(s[k].id) < Key(-s[k].id) /\ Key(s[k].id) \in Int /\ Key(-s[k].id) \in Int
      BY <2>1, KeysAreOrdered, Zenon
    <3>2. CASE i = Len(p) + 1
      BY <1>6, <2>2, <3>1, <3>2
    <3>3. CASE i # Len(p) + 1
      <4>1. i \in 1..Len(p) /\ one[i] = p[i] /\ Key(p[i].id) < Key(s[k].id)
        BY <1>0, <1>3, <1>6, <3>3
      <4>2. p[i].id \in Int
        <5>1. p[i] \in Said
          BY <1>0, <4>1
        <5> QED
          BY <5>1 DEF Said
      <4>3. Key(p[i].id) \in Int
        BY <4>2 DEF Key
      <4> QED
        BY <2>2, <3>1, <4>1, <4>3
    <3> QED
      BY <3>2, <3>3
  <2>5. ComesNext(one, Filler(s[k]))
    BY <2>1, <2>2, <2>3, <2>4 DEF ComesNext, Follows
  <2>6. Laid(two)
    BY <1>5, <2>5, LaidMore
  <2>7. two \in Seq(Said) /\ Len(two) = Len(one) + 1 /\ two[Len(one) + 1] = Filler(s[k]) /\ \A i \in 1..Len(one) : two[i] = one[i]
    BY <1>6, <2>2, AppendProperties
  <2> HIDE DEF two
  <2>8. \A i \in 1..Len(two) : \E j \in 1..k : two[i] = s[j] \/ (Open(s, j) /\ two[i] = Filler(s[j]))
    <3> TAKE i \in 1..Len(two)
    <3>1. CASE i = Len(one) + 1
      <4>1. k \in 1..k
        BY <1>0
      <4> QED
        BY <1>9, <2>7, <3>1, <4>1
    <3>2. CASE i # Len(one) + 1
      <4>1. i \in 1..Len(one) /\ two[i] = one[i]
        BY <2>3, <2>7, <3>2
      <4> QED
        BY <1>7, <4>1, Zenon
    <3> QED
      BY <3>1, <3>2
  <2>9. \A j \in 1..k : \E i \in 1..Len(two) : two[i] = s[j]
    <3> TAKE j \in 1..k
    <3>1. PICK i \in 1..Len(one) : one[i] = s[j]
      BY <1>7
    <3>2. i \in 1..Len(two)
      BY <2>3, <2>7
    <3> QED
      BY <2>7, <3>1, <3>2
  <2>10. Len(two) > 0 /\ two[Len(two)] = Filler(s[k])
    BY <2>3, <2>7
  <2>11. PatchedTo(two, s, k)
    BY <1>9, <2>6, <2>8, <2>9, <2>10 DEF PatchedTo
  <2> QED
    BY <1>9, <2>11 DEF two, one
<1> QED
  BY <1>8, <1>9

LEMMA TwoOfThem ==
    ASSUME NEW a \in Said, NEW b \in Said
    PROVE  <<a>> \o <<b>> = <<a, b>>
<1> DEFINE x == Append(<<a>>, b)
           y == <<a, b>>
<1>0. Len(<<a>>) = 1 /\ <<a>>[1] = a /\ Len(y) = 2 /\ y[1] = a /\ y[2] = b /\ y \in Seq(Said) /\ <<a>> \in Seq(Said)
  OBVIOUS
<1>1. x = <<a>> \o <<b>>
  BY <1>0, AppendIsConcat
<1> HIDE DEF y
<1>2. x \in Seq(Said) /\ Len(x) = 2 /\ x[1] = a /\ x[2] = b
  BY <1>0, AppendProperties
<1> HIDE DEF x
<1>3. \A j \in 1..Len(x) : x[j] = y[j]
  <2>1. \A j \in 1..2 : j = 1 \/ j = 2
    OBVIOUS
  <2> QED
    BY <1>0, <1>2, <2>1
<1>4. x = y
  BY <1>0, <1>2, <1>3, SeqEqual
<1> QED
  BY <1>1, <1>4 DEF y

LEMMA PatchedIs ==
    ASSUME NEW s, NEW n \in Nat, Grown(s, n)
    PROVE  PatchedTo(C!Patched(s), s, Len(s))
<1> DEFINE k == Len(s)
           pieces == [i \in DOMAIN s |-> IF s[i].kind = "call" /\ ~C!Answered(s, s[i].call)
                                         THEN <<s[i], C!Message("result", -s[i].id, s[i].call, FALSE)>> ELSE <<s[i]>>]
<1>0. s \in Seq(Said) /\ k \in Nat /\ DOMAIN s = 1..k /\ \A i \in 1..k : s[i] \in Said /\ Filler(s[i]) \in Said
  <2>1. s \in Seq(Said)
    BY DEF Grown
  <2>2. k \in Nat /\ DOMAIN s = 1..k /\ \A i \in 1..k : s[i] \in Said
    BY <2>1
  <2> QED
    BY <2>1, <2>2, FillerIs
<1>1. \A i \in 1..k : pieces[i] = IF Open(s, i) THEN <<s[i], Filler(s[i])>> ELSE <<s[i]>>
  BY <1>0 DEF Open, Filler
<1>2. Len(pieces) = k /\ pieces = [i \in 1..k |-> pieces[i]]
  <2>1. pieces = [i \in 1..k |-> pieces[i]]
    BY <1>0
  <2> HIDE DEF k, pieces
  <2>2. Len([i \in 1..k |-> pieces[i]]) = k
    BY <1>0
  <2> QED
    BY <2>1, <2>2
<1>3. C!Patched(s) = C!Joined(pieces)
  BY DEF C!Patched
<1> HIDE DEF pieces, k
<1>4. \A i \in 1..k : pieces[i] \in Seq(Said)
  <2> TAKE i \in 1..k
  <2>1. \A a, b \in Said : <<a>> \in Seq(Said) /\ <<a, b>> \in Seq(Said)
    OBVIOUS
  <2> QED
    BY <1>0, <1>1, <2>1
<1>5. PICK f \in [0..k -> Seq(Said)] :
          f[0] = <<>> /\ (\A i \in 1..k : f[i] = f[i - 1] \o pieces[i]) /\ C!Patched(s) = f[k]
  <2>1. Len(pieces) \in Nat /\ pieces = [i \in 1..Len(pieces) |-> pieces[i]] /\ \A i \in 1..Len(pieces) : pieces[i] \in Seq(Said)
    BY <1>0, <1>2, <1>4
  <2>2. /\ R!Joined(pieces) = C!Joined(pieces)
        /\ \E f \in [0..Len(pieces) -> Seq(Said)] :
              /\ f[0] = <<>> /\ \A i \in 1..Len(pieces) : f[i] = f[i - 1] \o pieces[i]
              /\ R!Joined(pieces) = f[Len(pieces)]
    BY <2>1, Flattening
  <2> QED
    BY <1>2, <1>3, <2>2
<1> DEFINE Sure == {i \in 0..k : PatchedTo(f[i], s, i)}
<1>6. 0 \in Sure
  <2>1. f[0] = <<>> /\ Len(<<>>) = 0 /\ <<>> \in Seq(Said) /\ 0 \in 0..k
    BY <1>0, <1>5
  <2>2. PatchedTo(f[0], s, 0)
    BY <2>1 DEF PatchedTo, Laid, InOrder
  <2> QED
    BY <2>1, <2>2
<1>7. ASSUME NEW i \in 1..k, i - 1 \in Sure PROVE i \in Sure
  <2>0. i \in 0..k /\ i \in 1..Len(s) /\ i - 1 \in 0..k
    BY <1>0 DEF k
  <2>1. f[i] = f[i - 1] \o pieces[i] /\ f[i - 1] \in Seq(Said) /\ PatchedTo(f[i - 1], s, i - 1) /\ s[i] \in Said
        /\ Filler(s[i]) \in Said
    BY <1>0, <1>5, <1>7, <2>0
  <2>2. f[i] = IF Open(s, i) THEN Append(Append(f[i - 1], s[i]), Filler(s[i])) ELSE Append(f[i - 1], s[i])
    <3> DEFINE e == f[i - 1]
    <3>0. e \in Seq(Said) /\ f[i] = e \o pieces[i]
      BY <2>1
    <3> HIDE DEF e
    <3>1. Append(e, s[i]) = e \o <<s[i]>>
      BY <2>1, <3>0, AppendIsConcat
    <3>2. Append(Append(e, s[i]), Filler(s[i])) = e \o <<s[i], Filler(s[i])>>
      <4>1. Append(e, s[i]) \in Seq(Said) /\ <<s[i]>> \in Seq(Said) /\ <<Filler(s[i])>> \in Seq(Said)
        BY <2>1, <3>0
      <4>2. Append(Append(e, s[i]), Filler(s[i])) = (e \o <<s[i]>>) \o <<Filler(s[i])>>
        BY <2>1, <3>1, <4>1, AppendIsConcat
      <4>3. (e \o <<s[i]>>) \o <<Filler(s[i])>> = e \o (<<s[i]>> \o <<Filler(s[i])>>)
        BY <3>0, <4>1, ConcatAssociative
      <4>4. <<s[i]>> \o <<Filler(s[i])>> = <<s[i], Filler(s[i])>>
        BY <2>1, TwoOfThem
      <4> QED
        BY <4>2, <4>3, <4>4
    <3> QED
      BY <1>1, <3>0, <3>1, <3>2 DEF e
  <2> HIDE DEF Sure
  <2>3. PatchedTo(f[i], s, i)
    BY <2>0, <2>1, <2>2, PatchMore
  <2> QED
    BY <2>0, <2>3 DEF Sure
<1> HIDE DEF Sure
<1>8. 0..k \subseteq Sure
  BY <1>0, <1>6, <1>7, BoundedInduction
<1>9. k \in Sure
  BY <1>0, <1>8
<1> QED
  BY <1>5, <1>9 DEF Sure, k

\* What a view of n messages has to do with its transcript: a preview is of a large message.
ViewOf(view, s, n) ==
    /\ view \in Seq(Said) /\ InOrder(view) /\ Paired(view)
    /\ \A i \in 1..Len(view) : view[i].holds = {view[i].id} /\ -n <= view[i].id /\ view[i].id <= n
    /\ \A j \in 1..Len(s) : \E i \in 1..Len(view) : view[i].id = s[j].id
    /\ \A i \in 1..Len(view), j \in 1..Len(s) :
           view[i].id = s[j].id => view[i].kind = s[j].kind /\ (s[j].large => view[i].stamp # 0)
    /\ \A i \in 1..Len(view) : view[i].kind = "call" \/ view[i].stamp # 0 =>
           \E j \in 1..Len(s) : s[j].id = view[i].id /\ (view[i].stamp # 0 => s[j].large)

LEMMA LargesIs ==
    ASSUME NEW p \in Seq(Said)
    PROVE  /\ C!Larges(p) \in Nat
           /\ \A i \in 1..Len(p) : C!Larges(SubSeq(p, 1, i)) \in Nat /\ (p[i].large => C!Larges(SubSeq(p, 1, i)) > 0)
<1>1. ASSUME NEW q \in Seq(Said)
      PROVE  /\ C!Larges(q) = Cardinality({i \in 1..Len(q) : q[i].large}) /\ IsFiniteSet({i \in 1..Len(q) : q[i].large})
             /\ C!Larges(q) \in Nat
  <2> DEFINE big == {i \in 1..Len(q) : q[i].large}
  <2>1. \A S : C!Cardinality(S) = Cardinality(S)
    BY Zenon DEF C!Cardinality, Cardinality
  <2>2. DOMAIN q = 1..Len(q) /\ Len(q) \in Nat
    OBVIOUS
  <2>3. C!Larges(q) = Cardinality(big)
    BY <2>1, <2>2 DEF C!Larges
  <2>4. IsFiniteSet(1..Len(q)) /\ big \subseteq 1..Len(q)
    BY <2>2, FS_Interval
  <2> HIDE DEF big
  <2>5. IsFiniteSet(big)
    BY <2>4, FS_Subset
  <2> QED
    BY <2>3, <2>5, FS_CardinalityType DEF big
<1>2. ASSUME NEW i \in 1..Len(p)
      PROVE  C!Larges(SubSeq(p, 1, i)) \in Nat /\ (p[i].large => C!Larges(SubSeq(p, 1, i)) > 0)
  <2> DEFINE q == SubSeq(p, 1, i)
             big == {j \in 1..Len(q) : q[j].large}
  <2>1. \A j \in 1..i : p[j] \in Said
    OBVIOUS
  <2>2. q \in Seq(Said) /\ Len(q) = i /\ q[i] = p[i]
    <3>1. /\ q \in Seq(Said) /\ Len(q) = (IF 1 <= i THEN i - 1 + 1 ELSE 0)
          /\ \A j \in 1..(i - 1 + 1) : q[j] = p[1 + j - 1]
      BY <2>1, SubSeqProperties
    <3> HIDE DEF q
    <3>2. i \in 1..(i - 1 + 1) /\ 1 + i - 1 = i
      OBVIOUS
    <3> QED
      BY <3>1, <3>2
  <2> HIDE DEF q
  <2>3. C!Larges(q) = Cardinality(big) /\ IsFiniteSet(big) /\ C!Larges(q) \in Nat
    BY <1>1, <2>2
  <2>4. p[i].large => i \in big
    BY <2>2
  <2> HIDE DEF big
  <2>5. p[i].large => C!Larges(q) # 0
    BY <2>3, <2>4, FS_EmptySet
  <2> QED
    BY <2>3, <2>5 DEF q
<1> QED
  BY <1>1, <1>2

LEMMA ViewIs ==
    ASSUME NEW s, NEW n \in Nat, Grown(s, n), evictions \in Nat
    PROVE  ViewOf(C!Evicted(C!Patched(s)), s, n)
<1> DEFINE p == C!Patched(s)
           stamp(i) == evictions + C!Larges(SubSeq(p, 1, i))
           view == C!Evicted(p)
<1>1. PatchedTo(p, s, Len(s))
  BY PatchedIs
<1> HIDE DEF p
<1>2. /\ Laid(p) /\ p \in Seq(Said) /\ Len(p) \in Nat
      /\ \A i \in 1..Len(p) : \E j \in 1..Len(s) : p[i] = s[j] \/ (Open(s, j) /\ p[i] = Filler(s[j]))
      /\ \A j \in 1..Len(s) : \E i \in 1..Len(p) : p[i] = s[j]
      /\ Len(s) > 0 => Len(p) > 0 /\ p[Len(p)] = IF Open(s, Len(s)) THEN Filler(s[Len(s)]) ELSE s[Len(s)]
  BY <1>1 DEF PatchedTo, Laid
<1>3. s \in Seq(Said) /\ Len(s) \in Nat /\ \A j \in 1..Len(s) : s[j] \in Said /\ s[j].id \in Int /\ s[j].id > 0 /\ s[j].id <= n
                                                                  /\ s[j].stamp = 0 /\ s[j].holds = {s[j].id}
  <2>1. s \in Seq(Said) /\ \A j \in 1..Len(s) : s[j].id > 0 /\ s[j].id <= n /\ s[j].stamp = 0 /\ s[j].holds = {s[j].id}
    BY DEF Grown
  <2>2. \A j \in 1..Len(s) : s[j] \in Said
    BY <2>1
  <2>3. \A m \in Said : m.id \in Int
    BY DEF Said
  <2> QED
    BY <2>1, <2>2, <2>3
<1>4. \A i \in 1..Len(p) : p[i].large => stamp(i) \in Nat /\ stamp(i) # 0
  <2> TAKE i \in 1..Len(p)
  <2>1. C!Larges(SubSeq(p, 1, i)) \in Nat /\ (p[i].large => C!Larges(SubSeq(p, 1, i)) > 0)
    BY <1>2, LargesIs
  <2> QED
    BY <2>1
<1>5. view = [i \in 1..Len(p) |-> IF p[i].large THEN [p[i] EXCEPT !.stamp = stamp(i)] ELSE p[i]]
  BY <1>2 DEF C!Evicted
<1> HIDE DEF stamp, view
<1>6. ASSUME NEW i \in 1..Len(p)
      PROVE  /\ view[i] = (IF p[i].large THEN [p[i] EXCEPT !.stamp = stamp(i)] ELSE p[i]) /\ p[i] \in Said
             /\ view[i] \in Said /\ view[i].kind = p[i].kind /\ view[i].id = p[i].id /\ view[i].call = p[i].call
             /\ view[i].holds = p[i].holds /\ view[i].large = p[i].large
             /\ p[i].large => view[i].stamp # 0
             /\ ~p[i].large => view[i].stamp = p[i].stamp
  <2>1. view[i] = (IF p[i].large THEN [p[i] EXCEPT !.stamp = stamp(i)] ELSE p[i]) /\ p[i] \in Said
    BY <1>2, <1>5
  <2>2. ASSUME NEW m \in Said, NEW k \in Nat
        PROVE  LET x == [m EXCEPT !.stamp = k] IN
               x \in Said /\ x.kind = m.kind /\ x.id = m.id /\ x.call = m.call /\ x.holds = m.holds /\ x.large = m.large /\ x.stamp = k
    BY DEF Said
  <2>3. CASE p[i].large
    <3> DEFINE k == stamp(i)
    <3>1. k \in Nat /\ k # 0 /\ view[i] = [p[i] EXCEPT !.stamp = k]
      BY <1>4, <2>1, <2>3
    <3> HIDE DEF k
    <3> DEFINE x == [p[i] EXCEPT !.stamp = k]
    <3>2. /\ x \in Said /\ x.kind = p[i].kind /\ x.id = p[i].id /\ x.call = p[i].call /\ x.holds = p[i].holds
          /\ x.large = p[i].large /\ x.stamp = k
      BY <2>1, <2>2, <3>1
    <3> HIDE DEF x
    <3>3. view[i] = x
      BY <3>1 DEF x
    <3> QED
      BY <2>1, <2>3, <3>1, <3>2, <3>3
  <2>4. CASE ~p[i].large
    BY <2>1, <2>4
  <2> QED
    BY <2>1, <2>3, <2>4
<1>7. view \in Seq(Said) /\ Len(view) = Len(p)
  <2>1. view = [i \in 1..Len(p) |-> view[i]]
    BY <1>5
  <2>2. Len(p) \in Nat /\ \A i \in 1..Len(p) : view[i] \in Said
    BY <1>2, <1>6
  <2> DEFINE k == Len(p)
  <2> HIDE DEF k
  <2>3. k \in Nat /\ \A i \in 1..k : view[i] \in Said
    BY <2>2 DEF k
  <2>4. Len([i \in 1..k |-> view[i]]) = k /\ [i \in 1..k |-> view[i]] \in Seq(Said)
    BY <2>3
  <2> QED
    BY <2>1, <2>4 DEF k
<1>8. InOrder(view)
  BY <1>2, <1>6, <1>7 DEF InOrder, Laid
<1>9. Paired(view)
  <2> SUFFICES ASSUME NEW i \in 1..Len(p)
               PROVE  /\ view[i].kind = "call" => i < Len(p) /\ Follows(view[i + 1], view[i])
                      /\ view[i].kind = "result" => i > 1 /\ view[i - 1].kind = "call" /\ Follows(view[i], view[i - 1])
    BY <1>7 DEF Paired
  <2>1. ASSUME view[i].kind = "call" PROVE i < Len(p)
    <3> SUFFICES ASSUME i = Len(p) PROVE FALSE
      BY <1>2
    <3>1. p[i].kind = "call"
      BY <1>6, <2>1
    <3>2. Len(s) > 0
      <4>1. PICK j \in 1..Len(s) : TRUE
        BY <1>2
      <4> QED
        BY <1>3, <4>1
    <3>3. Len(s) \in 1..Len(s) /\ s[Len(s)] \in Said
      BY <1>3, <3>2
    <3>4. ~Open(s, Len(s)) /\ s[Len(s)].kind = "call"
      BY <1>2, <3>1, <3>2, <3>3, FillerIs
    <3>5. Len(s) < Len(s)
      BY <3>3, <3>4, AnsweredNext
    <3> QED
      BY <1>3, <3>5
  <2>2. ASSUME view[i].kind = "call" PROVE Follows(view[i + 1], view[i])
    <3>0. p[i].kind = "call"
      BY <1>6, <2>2
    <3>1. p[i].kind = "call" /\ i < Len(p) /\ i + 1 \in 1..Len(p)
      BY <1>2, <2>1, <2>2, <3>0
    <3>2. Follows(p[i + 1], p[i])
      BY <1>2, <3>1 DEF Laid
    <3> QED
      BY <1>6, <3>1, <3>2 DEF Follows
  <2>3. ASSUME view[i].kind = "result" PROVE i > 1 /\ view[i - 1].kind = "call" /\ Follows(view[i], view[i - 1])
    <3>1. p[i].kind = "result"
      BY <1>6, <2>3
    <3>2. i > 1 /\ p[i - 1].kind = "call" /\ Follows(p[i], p[i - 1])
      BY <1>2, <3>1 DEF Laid
    <3>3. i - 1 \in 1..Len(p)
      BY <1>2, <3>2
    <3> QED
      BY <1>6, <3>2, <3>3 DEF Follows
  <2> QED
    BY <2>1, <2>2, <2>3
<1>10. ASSUME NEW i \in 1..Len(p)
       PROVE  \E j \in 1..Len(s) : \/ p[i] = s[j] /\ p[i].id > 0
                                   \/ /\ p[i].id = -s[j].id /\ p[i].id < 0 /\ p[i].kind = "result" /\ ~p[i].large /\ p[i].stamp = 0
                                      /\ p[i].holds = {p[i].id}
  <2>1. PICK j \in 1..Len(s) : p[i] = s[j] \/ p[i] = Filler(s[j])
    BY <1>2
  <2>2. CASE p[i] = s[j]
    BY <1>3, <2>2
  <2>3. CASE p[i] = Filler(s[j])
    <3>1. /\ p[i].id = -s[j].id /\ p[i].kind = "result" /\ ~p[i].large /\ p[i].stamp = 0 /\ p[i].holds = {-s[j].id}
      BY <1>3, <2>3, FillerIs
    <3>2. s[j].id \in Int /\ s[j].id > 0
      BY <1>3
    <3> QED
      BY <3>1, <3>2
  <2> QED
    BY <2>1, <2>2, <2>3
<1>11. ASSUME NEW i \in 1..Len(p) PROVE view[i].holds = {view[i].id} /\ -n <= view[i].id /\ view[i].id <= n
  <2>1. PICK j \in 1..Len(s) : p[i] = s[j] \/ (p[i].id = -s[j].id /\ p[i].holds = {p[i].id})
    BY <1>10
  <2>2. s[j].id \in Int /\ s[j].id > 0 /\ s[j].id <= n /\ s[j].holds = {s[j].id}
    BY <1>3
  <2>3. p[i].holds = {p[i].id} /\ -n <= p[i].id /\ p[i].id <= n
    BY <2>1, <2>2
  <2> QED
    BY <1>6, <2>3
<1>12. ASSUME NEW j \in 1..Len(s) PROVE \E i \in 1..Len(p) : view[i].id = s[j].id
  <2>1. PICK i \in 1..Len(p) : p[i] = s[j]
    BY <1>2
  <2> QED
    BY <1>6, <2>1
<1>13. ASSUME NEW i \in 1..Len(p), NEW j \in 1..Len(s), view[i].id = s[j].id
       PROVE  view[i].kind = s[j].kind /\ (s[j].large => view[i].stamp # 0)
  <2>1. PICK k \in 1..Len(s) : (p[i] = s[k] /\ p[i].id > 0) \/ p[i].id < 0
    BY <1>10
  <2>2. p[i].id = s[j].id /\ s[j].id > 0 /\ s[j].id \in Int
    BY <1>3, <1>6, <1>13
  <2>3. p[i] = s[k] /\ s[k].id = s[j].id /\ s[k].id \in Int
    BY <1>3, <2>1, <2>2
  <2>4. k = j
    <3>1. \A a, b \in 1..Len(s) : a < b => s[a].id < s[b].id
      BY DEF Grown
    <3>2. ~(k < j) /\ ~(j < k)
      BY <2>2, <2>3, <3>1
    <3> QED
      BY <1>3, <3>2
  <2> QED
    BY <1>6, <2>3, <2>4
<1>14. ASSUME NEW i \in 1..Len(p), view[i].kind = "call" \/ view[i].stamp # 0
       PROVE  \E j \in 1..Len(s) : s[j].id = view[i].id /\ (view[i].stamp # 0 => s[j].large)
  <2>1. PICK j \in 1..Len(s) : p[i] = s[j] \/ (p[i].kind = "result" /\ ~p[i].large /\ p[i].stamp = 0)
    BY <1>10
  <2>2. p[i] = s[j]
    BY <1>6, <1>14, <2>1
  <2>3. view[i].stamp # 0 => p[i].large
    <3>1. s[j].stamp = 0
      BY <1>3
    <3>2. ~p[i].large => view[i].stamp = p[i].stamp
      BY <1>6
    <3> QED
      BY <2>2, <3>1, <3>2
  <2> QED
    BY <1>6, <2>2, <2>3
<1>15. ViewOf(view, s, n)
  BY <1>7, <1>8, <1>9, <1>11, <1>12, <1>13, <1>14 DEF ViewOf
<1> QED
  BY <1>15 DEF view, p

\* The rolling summary: what it covers is in the order of the transcript, ends with
\* no call, and names previews by their numbers.
RollingOk(roll, s, n) ==
    /\ roll \in [covered : Nat, prefix : Seq(Int \X Nat), summary : Summaries]
    /\ Len(roll.prefix) = roll.covered
    /\ \A i \in 1..roll.covered : -n <= roll.prefix[i][1] /\ roll.prefix[i][1] <= n
    /\ \A i, j \in 1..roll.covered : i < j => Key(roll.prefix[i][1]) < Key(roll.prefix[j][1])
    /\ \A i \in 1..roll.covered : roll.prefix[i][2] = 0 =>
           \A j \in 1..Len(s) : s[j].id = roll.prefix[i][1] => ~s[j].large
    /\ roll.covered > 0 => \A j \in 1..Len(s) : s[j].id = roll.prefix[roll.covered][1] => s[j].kind # "call"

\* A summary retells what it stands for, as long as summaries are written, and
\* names a file that has it, as long as files are.
Retains(m, ids, whole, filed, f) ==
    /\ whole => ids \subseteq m.holds
    /\ filed => ids = {} \/ (m.file /\ ids \subseteq f)

Behind(roll) == {roll.prefix[i][1] : i \in 1..roll.covered}

Covers(q, s, whole, filed, f) ==
    \A j \in 1..Len(s) :
        /\ whole => \E i \in 1..Len(q) : s[j].id \in q[i].holds
        /\ filed => (\E i \in 1..Len(q) : s[j].id \in q[i].holds) \/ (s[j].id \in f /\ \E i \in 1..Len(q) : q[i].file)

Request == Said \cup Summaries

\* A summary and the rest of a view.
Rest(m, view, c) == <<m>> \o SubSeq(view, c + 1, Len(view))

LEMMA RestIs ==
    ASSUME NEW view \in Seq(Said), NEW m \in Summaries, NEW c \in 1..Len(view)
    PROVE  /\ Rest(m, view, c) \in Seq(Request) /\ Len(Rest(m, view, c)) = Len(view) - c + 1 /\ Rest(m, view, c)[1] = m
           /\ \A i \in 2..(Len(view) - c + 1) : Rest(m, view, c)[i] = view[c + i - 1]
<1> DEFINE back == SubSeq(view, c + 1, Len(view))
           q == <<m>> \o back
<1>0. Len(view) \in Nat /\ \A i \in 1..Len(view) : view[i] \in Request
  <2>1. Len(view) \in Nat /\ \A i \in 1..Len(view) : view[i] \in Said
    OBVIOUS
  <2> QED
    BY <2>1 DEF Request
<1>1. back \in Seq(Request) /\ Len(back) = Len(view) - c /\ \A i \in 1..(Len(view) - c) : back[i] = view[c + i]
  <2>0. c + 1 \in Int /\ Len(view) \in Int /\ \A i \in (c + 1)..Len(view) : view[i] \in Request
    BY <1>0
  <2>1. /\ back \in Seq(Request) /\ Len(back) = IF c + 1 <= Len(view) THEN Len(view) - (c + 1) + 1 ELSE 0
        /\ \A i \in 1..(Len(view) - (c + 1) + 1) : back[i] = view[(c + 1) + i - 1]
    BY <2>0, SubSeqProperties
  <2> HIDE DEF back
  <2>2. Len(view) - (c + 1) + 1 = Len(view) - c /\ \A i \in 1..(Len(view) - c) : (c + 1) + i - 1 = c + i
    BY <1>0
  <2>3. Len(back) = Len(view) - c
    BY <1>0, <2>1
  <2> QED
    BY <2>1, <2>2, <2>3, Zenon
<1>2. <<m>> \in Seq(Request) /\ Len(<<m>>) = 1 /\ <<m>>[1] = m
  <2>1. m \in Request
    BY DEF Request
  <2> QED
    BY <2>1
<1> HIDE DEF back
<1>3. q \in Seq(Request) /\ Len(q) = 1 + Len(back) /\ \A i \in 1..(1 + Len(back)) : q[i] = IF i <= 1 THEN <<m>>[i] ELSE back[i - 1]
  <2> DEFINE first == <<m>>
  <2>1. first \in Seq(Request) /\ Len(first) = 1
    BY <1>2
  <2> HIDE DEF first
  <2>2. /\ first \o back \in Seq(Request) /\ Len(first \o back) = Len(first) + Len(back)
        /\ \A i \in 1..(Len(first) + Len(back)) : (first \o back)[i] = IF i <= Len(first) THEN first[i] ELSE back[i - Len(first)]
    BY <1>1, <2>1, ConcatProperties
  <2> QED
    BY <2>1, <2>2 DEF first
<1> HIDE DEF q
<1>4. Len(q) = Len(view) - c + 1 /\ q[1] = m
  BY <1>0, <1>1, <1>2, <1>3
<1>5. ASSUME NEW i \in 2..(Len(view) - c + 1) PROVE q[i] = view[c + i - 1]
  <2>1. i \in 1..(1 + Len(back)) /\ ~(i <= 1) /\ i - 1 \in 1..(Len(view) - c) /\ c + (i - 1) = c + i - 1
    BY <1>0, <1>1
  <2>2. q[i] = back[i - 1] /\ back[i - 1] = view[c + (i - 1)]
    BY <1>1, <1>3, <2>1
  <2> QED
    BY <2>1, <2>2
<1>6. q = Rest(m, view, c)
  BY Zenon DEF q, back, Rest
<1> QED
  BY <1>3, <1>4, <1>5, <1>6

LEMMA RequestIs ==
    ASSUME NEW view, NEW s, NEW n, ViewOf(view, s, n), NEW m \in Summaries, NEW c \in 1..Len(view),
           c < Len(view) => view[c + 1].kind # "result",
           NEW whole \in BOOLEAN, NEW filed \in BOOLEAN, NEW f,
           Retains(m, {view[i].id : i \in 1..c}, whole, filed, f)
    PROVE  Paired(Rest(m, view, c)) /\ Covers(Rest(m, view, c), s, whole, filed, f)
<1> DEFINE q == Rest(m, view, c)
           k == Len(view) - c + 1
<1>0. view \in Seq(Said) /\ Paired(view) /\ Len(view) \in Nat
  BY DEF ViewOf
<1>1. Len(q) = k /\ q[1] = m /\ \A i \in 2..k : q[i] = view[c + i - 1]
  BY <1>0, RestIs
<1> HIDE DEF q
<1>2. m.kind = "summary" /\ k \in Nat /\ k >= 1 /\ 1 \in 1..k /\ \A i \in 2..k : i \in 1..k /\ c + i - 1 \in 1..Len(view)
  BY <1>0 DEF Summaries
<1>3. Paired(q)
  <2> SUFFICES ASSUME NEW i \in 1..k
               PROVE  /\ q[i].kind = "call" => i < k /\ Follows(q[i + 1], q[i])
                      /\ q[i].kind = "result" => i > 1 /\ q[i - 1].kind = "call" /\ Follows(q[i], q[i - 1])
    BY <1>1 DEF Paired
  <2>1. CASE i = 1
    BY <1>1, <1>2, <2>1
  <2>2. CASE i # 1
    <3> DEFINE a == c + i - 1
    <3>10. a \in 1..Len(view) /\ i \in 2..k /\ q[i] = view[a]
      BY <1>0, <1>1, <1>2, <2>2
    <3>11. a < Len(view) => i < k /\ i + 1 \in 2..k /\ c + (i + 1) - 1 = a + 1
      BY <1>0, <1>2, <2>2
    <3>12. a > c /\ (i > 2 => i - 1 \in 2..k /\ c + (i - 1) - 1 = a - 1) /\ (i = 2 => a = c + 1)
      BY <1>0, <1>2, <2>2
    <3> HIDE DEF a
    <3>2. ASSUME q[i].kind = "call" PROVE i < k /\ Follows(q[i + 1], q[i])
      <4>1. a < Len(view) /\ Follows(view[a + 1], view[a])
        BY <1>0, <3>2, <3>10 DEF Paired
      <4>2. q[i + 1] = view[a + 1] /\ i < k
        BY <1>1, <3>11, <4>1
      <4> QED
        BY <3>10, <4>1, <4>2
    <3>3. ASSUME q[i].kind = "result" PROVE q[i - 1].kind = "call" /\ Follows(q[i], q[i - 1])
      <4>1. a > 1 /\ view[a - 1].kind = "call" /\ Follows(view[a], view[a - 1])
        BY <1>0, <3>3, <3>10 DEF Paired
      <4>2. i # 2
        BY <1>0, <3>3, <3>10, <3>12
      <4>3. q[i - 1] = view[a - 1]
        BY <1>1, <2>2, <3>12, <4>2
      <4> QED
        BY <3>10, <4>1, <4>3
    <3> QED
      BY <2>2, <3>2, <3>3
  <2> QED
    BY <2>1, <2>2
<1>4. Covers(q, s, whole, filed, f)
  <2> SUFFICES ASSUME NEW j \in 1..Len(s)
               PROVE  /\ whole => \E i \in 1..k : s[j].id \in q[i].holds
                      /\ filed => (\E i \in 1..k : s[j].id \in q[i].holds) \/ (s[j].id \in f /\ \E i \in 1..k : q[i].file)
    BY <1>1 DEF Covers
  <2>1. PICK a \in 1..Len(view) : view[a].id = s[j].id
    BY DEF ViewOf
  <2>2. CASE a <= c
    <3>1. s[j].id \in {view[i].id : i \in 1..c}
      BY <1>0, <2>1, <2>2
    <3>2. (whole => s[j].id \in m.holds) /\ (filed => m.file /\ s[j].id \in f)
      BY <3>1 DEF Retains
    <3> QED
      BY <1>1, <1>2, <3>2
  <2>3. CASE a > c
    <3> DEFINE i == a - c + 1
    <3>1. i \in 2..k /\ c + i - 1 = a /\ i \in 1..k
      BY <1>0, <2>3
    <3> HIDE DEF i
    <3>2. q[i] = view[a]
      BY <1>1, <3>1
    <3>3. view[a].holds = {view[a].id}
      BY <2>1 DEF ViewOf
    <3>4. s[j].id \in q[i].holds
      BY <2>1, <3>2, <3>3
    <3> QED
      BY <3>1, <3>4
  <2>4. a <= c \/ a > c
    BY <1>0
  <2> QED
    BY <2>2, <2>3, <2>4
<1> QED
  BY <1>3, <1>4 DEF q

\* applyRollingSummary.
RolledIs(roll, view, messages) ==
    \/ messages = view
    \/ /\ roll.covered > 0 /\ roll.covered < Len(view)
       /\ \A i \in 1..roll.covered : roll.prefix[i] = <<view[i].id, view[i].stamp>>
       /\ messages = Rest(roll.summary, view, roll.covered)

\* The summary stands for the first of a view that it fits.
LEMMA SummaryFits ==
    ASSUME NEW view, NEW s, NEW n, ViewOf(view, s, n), NEW roll, RollingOk(roll, s, n), roll.covered > 0,
           roll.covered < Len(view), \A i \in 1..roll.covered : roll.prefix[i] = <<view[i].id, view[i].stamp>>
    PROVE  /\ view[roll.covered + 1].kind # "result"
           /\ Behind(roll) = {view[i].id : i \in 1..roll.covered}
           /\ roll.covered \in 1..Len(view)
<1> DEFINE c == roll.covered
<1>0. c \in Nat /\ view \in Seq(Said) /\ Len(view) \in Nat
  BY DEF RollingOk, ViewOf
<1>1. \A i \in 1..c : roll.prefix[i][1] = view[i].id
  OBVIOUS
<1>2. c \in 1..c /\ c \in 1..Len(view) /\ c + 1 \in 1..Len(view) /\ c + 1 - 1 = c
  BY <1>0
<1>3. ASSUME view[c + 1].kind = "result" PROVE FALSE
  <2>1. view[c].kind = "call"
    <3>1. view[c + 1 - 1].kind = "call"
      BY <1>2, <1>3 DEF ViewOf, Paired
    <3> QED
      BY <1>2, <3>1
  <2>2. PICK j \in 1..Len(s) : s[j].id = view[c].id
    BY <1>2, <2>1 DEF ViewOf
  <2>3. s[j].kind = "call"
    BY <1>2, <2>1, <2>2 DEF ViewOf
  <2>4. s[j].id = roll.prefix[c][1]
    BY <1>1, <1>2, <2>2
  <2> QED
    BY <2>3, <2>4 DEF RollingOk
<1>4. Behind(roll) = {view[i].id : i \in 1..c}
  BY <1>1 DEF Behind
<1> QED
  BY <1>2, <1>3, <1>4

LEMMA RolledSound ==
    ASSUME NEW view, NEW s, NEW n, ViewOf(view, s, n), NEW roll, RollingOk(roll, s, n),
           NEW whole \in BOOLEAN, NEW filed \in BOOLEAN, NEW f,
           Retains(roll.summary, Behind(roll), whole, filed, f), NEW messages, RolledIs(roll, view, messages)
    PROVE  /\ Paired(messages) /\ Covers(messages, s, whole, filed, f) /\ messages \in Seq(Request)
<1>0. roll.covered \in Nat /\ roll.summary \in Summaries /\ view \in Seq(Said) /\ Len(view) \in Nat
  BY DEF RollingOk, ViewOf
<1>1. CASE messages = view
  <2>1. Paired(view) /\ \A i \in 1..Len(view) : view[i].holds = {view[i].id}
    BY DEF ViewOf
  <2>2. \A j \in 1..Len(s) : \E i \in 1..Len(view) : s[j].id \in view[i].holds
    <3> TAKE j \in 1..Len(s)
    <3>1. PICK i \in 1..Len(view) : view[i].id = s[j].id
      BY DEF ViewOf
    <3> QED
      BY <2>1, <3>1
  <2>3. view \in Seq(Request)
    <3>1. Said \subseteq Request
      BY DEF Request
    <3> QED
      BY <1>0, <3>1, SeqMonotonic
  <2> QED
    BY <1>1, <2>1, <2>2, <2>3 DEF Covers
<1>2. CASE /\ roll.covered > 0 /\ roll.covered < Len(view)
           /\ \A i \in 1..roll.covered : roll.prefix[i] = <<view[i].id, view[i].stamp>>
           /\ messages = Rest(roll.summary, view, roll.covered)
  <2> DEFINE c == roll.covered
  <2>1. view[c + 1].kind # "result" /\ Behind(roll) = {view[i].id : i \in 1..c} /\ c \in 1..Len(view)
    BY <1>2, SummaryFits
  <2>2. Retains(roll.summary, {view[i].id : i \in 1..c}, whole, filed, f)
    BY <2>1
  <2> HIDE DEF c
  <2>3. Paired(Rest(roll.summary, view, c)) /\ Covers(Rest(roll.summary, view, c), s, whole, filed, f)
    BY <1>0, <2>1, <2>2, RequestIs
  <2>4. Rest(roll.summary, view, c) \in Seq(Request)
    BY <1>0, <2>1, RestIs
  <2> QED
    BY <1>2, <2>3, <2>4 DEF c
<1> QED
  BY <1>1, <1>2 DEF RolledIs

LEMMA BackIs ==
    ASSUME NEW q \in Seq(Request), NEW a \in 0..Len(q)
    PROVE  /\ SubSeq(q, a + 1, Len(q)) \in Seq(Request) /\ Len(SubSeq(q, a + 1, Len(q))) = Len(q) - a
           /\ \A i \in 1..(Len(q) - a) : SubSeq(q, a + 1, Len(q))[i] = q[a + i]
<1> DEFINE back == SubSeq(q, a + 1, Len(q))
<1>0. Len(q) \in Nat /\ a + 1 \in Int /\ Len(q) \in Int /\ \A i \in (a + 1)..Len(q) : q[i] \in Request
  OBVIOUS
<1>1. /\ back \in Seq(Request) /\ Len(back) = IF a + 1 <= Len(q) THEN Len(q) - (a + 1) + 1 ELSE 0
      /\ \A i \in 1..(Len(q) - (a + 1) + 1) : back[i] = q[(a + 1) + i - 1]
  BY <1>0, SubSeqProperties
<1> HIDE DEF back
<1>2. Len(q) - (a + 1) + 1 = Len(q) - a /\ \A i \in 1..(Len(q) - a) : (a + 1) + i - 1 = a + i
  BY <1>0
<1>3. Len(back) = Len(q) - a
  BY <1>0, <1>1
<1> QED
  BY <1>1, <1>2, <1>3, Zenon DEF back

LEMMA SameBack ==
    ASSUME NEW q \in Seq(Request), NEW a \in 0..Len(q), NEW t \in Seq(Request), NEW b \in 0..Len(t),
           Len(q) - a = Len(t) - b, \A i \in 1..(Len(q) - a) : q[a + i] = t[b + i]
    PROVE  SubSeq(q, a + 1, Len(q)) = SubSeq(t, b + 1, Len(t))
<1> DEFINE x == SubSeq(q, a + 1, Len(q))
           y == SubSeq(t, b + 1, Len(t))
<1>1. /\ x \in Seq(Request) /\ Len(x) = Len(q) - a /\ \A i \in 1..(Len(q) - a) : x[i] = q[a + i]
      /\ y \in Seq(Request) /\ Len(y) = Len(t) - b /\ \A i \in 1..(Len(t) - b) : y[i] = t[b + i]
  BY BackIs
<1> HIDE DEF x, y
<1>2. Len(x) = Len(y) /\ \A i \in 1..Len(x) : x[i] = y[i]
  BY <1>1
<1>3. x = y
  BY <1>1, <1>2, SeqEqual
<1> QED
  BY <1>3 DEF x, y

\* runSummarization: the cut lies before no result.
LEMMA CutIs ==
    ASSUME NEW q \in Seq(Request)
    PROVE  /\ C!Cut(q) \in 0..Len(q)
           /\ C!Cut(q) \in 1..(Len(q) - 1) => q[C!Cut(q) + 1].kind # "result"
<1> DEFINE first == C!CutAnywhere(q)
           legal == {c \in 0..first : c \in {0, Len(q)} \/ q[c + 1].kind # "result"}
           IsLast(c) == \A d \in legal : d <= c
           cut == CHOOSE c \in legal : IsLast(c)
<1>0. Len(q) \in Nat /\ first \in 0..Len(q)
  BY TurnConstants DEF C!CutAnywhere
<1>1. C!Cut(q) = cut
  BY DEF C!Cut
<1> HIDE DEF first
<1>2. \E c \in legal : IsLast(c)
  <2> DEFINE Left == {k \in 0..first : first - k \in legal}
  <2>1. Left \in SUBSET Nat /\ first \in Left /\ first \in Nat
    BY <1>0
  <2> HIDE DEF Left
  <2>2. PICK k \in Left : \A j \in Left : k <= j
    BY <2>1, LeastNat
  <2>3. first - k \in legal /\ k \in 0..first
    BY <2>2 DEF Left
  <2>4. ASSUME NEW d \in legal PROVE d <= first - k
    <3>1. d \in 0..first /\ first - (first - d) = d /\ first - d \in 0..first
      BY <2>1
    <3> HIDE DEF legal
    <3>2. first - d \in Left
      BY <3>1 DEF Left
    <3>3. k <= first - d
      BY <2>2, <3>2
    <3> QED
      BY <2>1, <2>3, <3>1, <3>3
  <2> HIDE DEF legal
  <2> QED
    BY <2>3, <2>4
<1>3. cut \in legal
  <2> HIDE DEF legal, IsLast
  <2> QED
    BY <1>2
<1> HIDE DEF cut
<1>4. cut \in 0..first /\ (cut \in {0, Len(q)} \/ q[cut + 1].kind # "result")
  BY <1>3
<1> QED
  BY <1>0, <1>1, <1>4

Stamped(view, c) == [i \in 1..c |-> <<view[i].id, view[i].stamp>>]

\* recordRollingSummary: in either case the first of the view.
LEMMA RecordedIs ==
    ASSUME NEW view, NEW s, NEW n, ViewOf(view, s, n), RollingOk(rolling, s, n), NEW messages, RolledIs(rolling, view, messages),
           NEW cut \in 1..Len(messages), cut < Len(messages) => messages[cut + 1].kind # "result"
    PROVE  \E c \in 1..Len(view) :
               /\ c < Len(view) => view[c + 1].kind # "result"
               /\ \A m \in Summaries :
                      /\ C!Recorded(SubSeq(messages, 1, cut), m) = [covered |-> c, prefix |-> Stamped(view, c), summary |-> m]
                      /\ <<m>> \o SubSeq(messages, cut + 1, Len(messages)) = Rest(m, view, c)
               /\ {view[i].id : i \in 1..c} \subseteq
                      {messages[i].id : i \in {j \in 1..cut : messages[j].kind # "summary"}}
                          \cup (IF messages[1].kind = "summary" THEN Behind(rolling) ELSE {})
               /\ messages[1].kind = "summary" => messages[1] = rolling.summary
<1> DEFINE evicted == SubSeq(messages, 1, cut)
           back == SubSeq(messages, cut + 1, Len(messages))
<1>0. /\ rolling \in [covered : Nat, prefix : Seq(Int \X Nat), summary : Summaries] /\ Len(rolling.prefix) = rolling.covered
      /\ view \in Seq(Said) /\ Len(view) \in Nat /\ Said \subseteq Request
      /\ rolling.covered \in Nat /\ rolling.summary \in Summaries /\ rolling.prefix \in Seq(Int \X Nat)
  BY DEF RollingOk, ViewOf, Request
<1>1. view \in Seq(Request) /\ \A i \in 1..Len(view) : view[i] \in Said
  BY <1>0, SeqMonotonic
<1>2. \A e \in Said : e.kind # "summary" /\ <<e.id, e.stamp>> \in Int \X Nat
  BY DEF Said
<1>3. \A m \in Summaries : m.kind = "summary"
  BY DEF Summaries
<1>4. messages \in Seq(Request) /\ Len(messages) \in Nat
  <2>1. CASE messages = view
    BY <1>1, <2>1
  <2>2. CASE rolling.covered > 0 /\ rolling.covered < Len(view) /\ messages = Rest(rolling.summary, view, rolling.covered)
    <3>1. rolling.covered \in 1..Len(view)
      BY <1>0, <2>2
    <3>2. messages \in Seq(Request)
      BY <1>0, <2>2, <3>1, RestIs
    <3> QED
      BY <3>2
  <2> QED
    BY <2>1, <2>2 DEF RolledIs
<1>5. evicted \in Seq(Request) /\ Len(evicted) = cut /\ \A i \in 1..cut : evicted[i] = messages[i]
  <2>1. \A i \in 1..cut : messages[i] \in Request
    BY <1>4
  <2>2. /\ evicted \in Seq(Request) /\ Len(evicted) = IF 1 <= cut THEN cut - 1 + 1 ELSE 0
        /\ \A i \in 1..(cut - 1 + 1) : evicted[i] = messages[1 + i - 1]
    BY <2>1, SubSeqProperties
  <2> HIDE DEF evicted
  <2>3. cut - 1 + 1 = cut /\ \A i \in 1..cut : 1 + i - 1 = i
    OBVIOUS
  <2>4. Len(evicted) = cut
    BY <2>2
  <2> QED
    BY <2>2, <2>3, <2>4
<1> HIDE DEF evicted
<1>6. 1 \in 1..cut /\ evicted[1] = messages[1] /\ cut \in Nat /\ DOMAIN evicted = 1..cut
  BY <1>4, <1>5
<1>7. CASE messages = view
  <2>1. \A i \in 1..cut : i \in 1..Len(view) /\ view[i] \in Said /\ messages[i].kind # "summary"
    <3> TAKE i \in 1..cut
    <3>1. i \in 1..Len(view)
      BY <1>4, <1>7
    <3>2. view[i] \in Said
      BY <1>1, <3>1
    <3>3. view[i].kind # "summary"
      BY <1>2, <3>2
    <3> QED
      BY <1>7, <3>1, <3>2, <3>3
  <2>2. C!Fingerprint(evicted) = Stamped(view, cut)
    BY <1>5, <1>6, <1>7 DEF C!Fingerprint, Stamped
  <2>3. \A m \in Summaries : C!Recorded(evicted, m) = [covered |-> cut, prefix |-> Stamped(view, cut), summary |-> m]
    <3>1. evicted[1].kind # "summary"
      BY <1>6, <2>1
    <3> QED
      BY <1>5, <2>2, <3>1 DEF C!Recorded
  <2>4. \A m \in Summaries : <<m>> \o back = Rest(m, view, cut)
    BY <1>7 DEF Rest
  <2>5. {view[i].id : i \in 1..cut} \subseteq {messages[i].id : i \in {j \in 1..cut : messages[j].kind # "summary"}}
    BY <1>7, <2>1
  <2> QED
    BY <1>6, <1>7, <2>1, <2>3, <2>4, <2>5 DEF evicted
<1>8. CASE /\ rolling.covered > 0 /\ rolling.covered < Len(view)
           /\ \A i \in 1..rolling.covered : rolling.prefix[i] = <<view[i].id, view[i].stamp>>
           /\ messages = Rest(rolling.summary, view, rolling.covered)
  <2> DEFINE k == rolling.covered
             c == k + cut - 1
             after == Tail(evicted)
  <2>1. view[k + 1].kind # "result" /\ Behind(rolling) = {view[i].id : i \in 1..k} /\ k \in 1..Len(view)
    BY <1>8, SummaryFits
  <2>2. /\ Len(messages) = Len(view) - k + 1 /\ messages[1] = rolling.summary
        /\ \A i \in 2..(Len(view) - k + 1) : messages[i] = view[k + i - 1]
    <3>1. view \in Seq(Said) /\ rolling.covered \in 1..Len(view) /\ rolling.summary \in Summaries
      BY <1>0, <2>1
    <3>2. /\ Len(Rest(rolling.summary, view, rolling.covered)) = Len(view) - rolling.covered + 1
          /\ Rest(rolling.summary, view, rolling.covered)[1] = rolling.summary
          /\ \A i \in 2..(Len(view) - rolling.covered + 1) :
                 Rest(rolling.summary, view, rolling.covered)[i] = view[rolling.covered + i - 1]
      BY <3>1, RestIs, ZenonT(30)
    <3> QED
      BY <1>8, <3>2
  <2>3. c \in 1..Len(view) /\ k <= c /\ (c < Len(view) <=> cut < Len(messages))
    BY <1>0, <2>1, <2>2
  <2>4. c < Len(view) => view[c + 1].kind # "result"
    <3>1. c < Len(view) => cut + 1 \in 2..(Len(view) - k + 1) /\ k + (cut + 1) - 1 = c + 1
      BY <1>0, <2>1, <2>2
    <3> QED
      BY <2>2, <2>3, <3>1
  <2>5. \A i \in 2..cut : messages[i] = view[k + i - 1] /\ messages[i] \in Said /\ k + i - 1 \in 1..Len(view)
    <3>1. \A i \in 2..cut : i \in 2..(Len(view) - k + 1) /\ k + i - 1 \in 1..Len(view)
      <4>1. cut \in Nat /\ cut <= Len(view) - k + 1 /\ k \in Nat /\ k > 0 /\ Len(view) \in Nat
        BY <1>0, <2>1, <2>2
      <4> HIDE DEF k
      <4> QED
        BY <4>1
    <3> QED
      BY <1>1, <2>2, <3>1
  <2>6. after \in Seq(Request) /\ Len(after) = cut - 1 /\ \A i \in 1..(cut - 1) : after[i] = view[k + i] /\ after[i] \in Said
    <3>1. evicted # <<>>
      BY <1>5
    <3>2. after \in Seq(Request) /\ Len(after) = Len(evicted) - 1 /\ \A i \in 1..Len(after) : after[i] = evicted[i + 1]
      BY <1>5, <3>1, HeadTailProperties
    <3> HIDE DEF after, k
    <3>3. \A i \in 1..(cut - 1) : i + 1 \in 2..cut /\ i + 1 \in 1..cut /\ k + (i + 1) - 1 = k + i
      BY <1>0, <1>6 DEF k
    <3>4. Len(after) = cut - 1
      BY <1>5, <3>2
    <3>5. \A i \in 1..(cut - 1) : after[i] = messages[i + 1]
      BY <1>5, <3>2, <3>3, <3>4
    <3> QED
      BY <2>5, <3>2, <3>3, <3>4, <3>5 DEF k
  <2> HIDE DEF after
  <2> DEFINE marks == C!Fingerprint(after)
             all == rolling.prefix \o marks
  <2>7. marks \in Seq(Int \X Nat) /\ Len(marks) = cut - 1 /\ \A i \in 1..(cut - 1) : marks[i] = <<view[k + i].id, view[k + i].stamp>>
    <3> HIDE DEF k
    <3> DEFINE d == cut - 1
    <3>1. d \in Nat /\ DOMAIN after = 1..d
      BY <1>6, <2>6
    <3> HIDE DEF d
    <3>2. marks = [i \in 1..d |-> <<after[i].id, after[i].stamp>>]
      BY <3>1 DEF C!Fingerprint
    <3>3. \A i \in 1..d : <<after[i].id, after[i].stamp>> \in Int \X Nat /\ after[i] = view[k + i]
      BY <1>2, <2>6 DEF d
    <3>4. Len([i \in 1..d |-> <<after[i].id, after[i].stamp>>]) = d /\ [i \in 1..d |-> <<after[i].id, after[i].stamp>>] \in Seq(Int \X Nat)
      BY <3>1, <3>3
    <3> HIDE DEF marks
    <3>5. \A i \in 1..d : marks[i] = <<view[k + i].id, view[k + i].stamp>>
      BY <3>2, <3>3
    <3> QED
      BY <3>2, <3>4, <3>5 DEF d
  <2> HIDE DEF marks
  <2>8. all = Stamped(view, c)
    <3>1. /\ all \in Seq(Int \X Nat) /\ Len(all) = k + Len(marks)
          /\ \A i \in 1..(k + Len(marks)) : all[i] = IF i <= k THEN rolling.prefix[i] ELSE marks[i - k]
      <4>1. /\ all \in Seq(Int \X Nat) /\ Len(all) = Len(rolling.prefix) + Len(marks)
            /\ \A i \in 1..(Len(rolling.prefix) + Len(marks)) :
                   all[i] = IF i <= Len(rolling.prefix) THEN rolling.prefix[i] ELSE marks[i - Len(rolling.prefix)]
        BY <1>0, <2>7, ConcatProperties
      <4>2. Len(rolling.prefix) = k
        BY <1>0
      <4> HIDE DEF all, k
      <4> QED
        BY <4>1, <4>2
    <3> HIDE DEF all, k
    <3>2. k \in Nat /\ Len(all) = c /\ c \in Nat
      BY <1>0, <1>6, <2>1, <2>3, <2>7, <3>1 DEF k
    <3>3. \A i \in 1..c : all[i] = <<view[i].id, view[i].stamp>> /\ <<view[i].id, view[i].stamp>> \in Int \X Nat
      <4> TAKE i \in 1..c
      <4>0. i \in 1..Len(view) /\ i \in 1..(k + Len(marks))
        BY <1>0, <1>6, <2>3, <2>7, <3>2
      <4>1. CASE i <= k
        <5>1. i \in 1..rolling.covered
          BY <4>1 DEF k
        <5> QED
          BY <1>1, <1>2, <1>8, <3>1, <4>0, <4>1, <5>1
      <4>2. CASE ~(i <= k)
        <5>1. i - k \in 1..(cut - 1) /\ k + (i - k) = i
          BY <1>6, <3>2, <4>2
        <5> QED
          BY <1>1, <1>2, <2>7, <3>1, <4>0, <4>2, <5>1
      <4> QED
        BY <4>1, <4>2
    <3> HIDE DEF c
    <3>4. Stamped(view, c) \in Seq(Int \X Nat) /\ Len(Stamped(view, c)) = c /\ \A i \in 1..c : Stamped(view, c)[i] = <<view[i].id, view[i].stamp>>
      BY <3>2, <3>3 DEF Stamped
    <3> DEFINE other == Stamped(view, c)
    <3>5. all \in Seq(Int \X Nat) /\ other \in Seq(Int \X Nat) /\ Len(all) = Len(other) /\ \A i \in 1..Len(all) : all[i] = other[i]
      BY <3>1, <3>2, <3>3, <3>4
    <3> HIDE DEF other
    <3>6. all = other
      BY <3>5, SeqEqual
    <3> QED
      BY <3>6 DEF other
  <2>9. ASSUME NEW m \in Summaries
        PROVE  C!Recorded(evicted, m) = [covered |-> c, prefix |-> Stamped(view, c), summary |-> m]
    <3>1. evicted[1].kind = "summary"
      BY <1>0, <1>3, <1>6, <2>2
    <3>2. cut - 1 + k = c
      BY <1>0, <1>6
    <3>3. C!Recorded(evicted, m) = [covered |-> Len(evicted) - 1 + k, prefix |-> all, summary |-> m]
      BY <3>1 DEF C!Recorded, marks, after
    <3> HIDE DEF all, c, k
    <3> QED
      BY <1>5, <2>8, <3>2, <3>3
  <2>10. ASSUME NEW m \in Summaries PROVE <<m>> \o back = Rest(m, view, c)
    <3>1. cut \in 0..Len(messages) /\ c \in 0..Len(view) /\ Len(messages) - cut = Len(view) - c
      BY <1>0, <1>4, <2>1, <2>2, <2>3, SMTT(30)
    <3>2. \A i \in 1..(Len(messages) - cut) : cut + i \in 2..(Len(view) - k + 1) /\ k + (cut + i) - 1 = c + i
      <4>1. cut \in Nat /\ 1 <= cut /\ k \in Nat /\ k > 0 /\ Len(view) \in Nat /\ Len(messages) = Len(view) - k + 1 /\ c = k + cut - 1
        BY <1>0, <1>6, <2>1, <2>2
      <4> HIDE DEF c, k
      <4> QED
        BY <4>1
    <3> HIDE DEF c, k
    <3>3. \A i \in 1..(Len(messages) - cut) : messages[cut + i] = view[c + i]
      BY <2>2, <3>2
    <3>4. back = SubSeq(view, c + 1, Len(view))
      BY <1>1, <1>4, <3>1, <3>3, SameBack
    <3> QED
      BY <3>4 DEF Rest
  <2>11. {view[i].id : i \in 1..c} \subseteq
             {messages[i].id : i \in {j \in 1..cut : messages[j].kind # "summary"}} \cup Behind(rolling)
    <3> SUFFICES ASSUME NEW i \in 1..c, i \notin 1..k
                 PROVE  \E j \in {h \in 1..cut : messages[h].kind # "summary"} : view[i].id = messages[j].id
      BY <2>1
    <3> DEFINE j == i - k + 1
    <3>0. k \in Nat /\ cut \in Nat /\ i \in 1..(k + cut - 1) /\ i \notin 1..k
      BY <1>0, <1>6
    <3>1. j \in 2..cut /\ k + j - 1 = i /\ j \in 1..cut
      <4> HIDE DEF k
      <4>1. i > k
        BY <3>0
      <4> QED
        BY <3>0, <4>1
    <3> HIDE DEF j, c, k
    <3>2. messages[j] = view[i] /\ messages[j].kind # "summary"
      BY <1>2, <2>5, <3>1 DEF k
    <3> QED
      BY <3>1, <3>2
  <2>12. messages[1].kind = "summary"
    BY <1>0, <1>3, <2>2
  <2> HIDE DEF c
  <2> QED
    BY <2>2, <2>3, <2>4, <2>9, <2>10, <2>11, <2>12 DEF evicted
<1> QED
  BY <1>7, <1>8 DEF RolledIs

LEMMA RetainsLater ==
    ASSUME NEW m, NEW ids, NEW whole, NEW filed, NEW f, Retains(m, ids, whole, filed, f),
           NEW wholeLater, NEW filedLater, NEW g, wholeLater => whole, filedLater => filed /\ f \subseteq g
    PROVE  Retains(m, ids, wholeLater, filedLater, g)
BY DEF Retains

LEMMA CoversLater ==
    ASSUME NEW q, NEW s, NEW whole, NEW filed, NEW f, Covers(q, s, whole, filed, f),
           NEW wholeLater, NEW filedLater, NEW g, wholeLater => whole, filedLater => filed /\ f \subseteq g
    PROVE  Covers(q, s, wholeLater, filedLater, g)
BY DEF Covers

LEMMA RollingLater ==
    ASSUME NEW roll, NEW s, NEW n \in Nat, RollingOk(roll, s, n), NEW t, NEW k \in Nat, n <= k,
           \A j \in 1..Len(t) : (\E i \in 1..Len(s) : t[j] = s[i]) \/ t[j].id > n
    PROVE  RollingOk(roll, t, k)
<1>0. /\ roll \in [covered : Nat, prefix : Seq(Int \X Nat), summary : Summaries]
      /\ Len(roll.prefix) = roll.covered /\ roll.covered \in Nat /\ roll.prefix \in Seq(Int \X Nat)
  BY DEF RollingOk
<1>1. \A i \in 1..roll.covered : roll.prefix[i][1] \in Int /\ -n <= roll.prefix[i][1] /\ roll.prefix[i][1] <= n
  <2>1. \A i \in 1..roll.covered : roll.prefix[i] \in Int \X Nat
    BY <1>0
  <2>2. \A i \in 1..roll.covered : -n <= roll.prefix[i][1] /\ roll.prefix[i][1] <= n
    BY DEF RollingOk
  <2> QED
    BY <2>1, <2>2
<1>2. \A i \in 1..roll.covered : -k <= roll.prefix[i][1] /\ roll.prefix[i][1] <= k
  BY <1>1
<1>3. \A i \in 1..roll.covered, j \in 1..Len(t) : t[j].id = roll.prefix[i][1] => \E h \in 1..Len(s) : t[j] = s[h]
  <2> TAKE i \in 1..roll.covered, j \in 1..Len(t)
  <2> HAVE t[j].id = roll.prefix[i][1]
  <2>1. ~(t[j].id > n)
    BY <1>1
  <2> QED
    BY <2>1
<1>4. ASSUME NEW i \in 1..roll.covered, roll.prefix[i][2] = 0, NEW j \in 1..Len(t), t[j].id = roll.prefix[i][1]
      PROVE  ~t[j].large
  <2>1. PICK h \in 1..Len(s) : t[j] = s[h]
    BY <1>3, <1>4
  <2> QED
    BY <1>4, <2>1 DEF RollingOk
<1>5. ASSUME roll.covered > 0, NEW j \in 1..Len(t), t[j].id = roll.prefix[roll.covered][1] PROVE t[j].kind # "call"
  <2>0. roll.covered \in 1..roll.covered
    BY <1>0, <1>5
  <2>1. PICK h \in 1..Len(s) : t[j] = s[h]
    BY <1>3, <1>5, <2>0
  <2> QED
    BY <1>5, <2>1 DEF RollingOk
<1> QED
  BY <1>0, <1>2, <1>4, <1>5 DEF RollingOk

\* A new summary of the first of a view.
LEMMA RollingAnew ==
    ASSUME NEW view, NEW s, NEW n \in Nat, ViewOf(view, s, n), NEW c \in 1..Len(view), NEW m \in Summaries,
           c < Len(view) => view[c + 1].kind # "result"
    PROVE  LET roll == [covered |-> c, prefix |-> Stamped(view, c), summary |-> m] IN
           RollingOk(roll, s, n) /\ Behind(roll) = {view[i].id : i \in 1..c}
<1> DEFINE roll == [covered |-> c, prefix |-> Stamped(view, c), summary |-> m]
<1>0. view \in Seq(Said) /\ Len(view) \in Nat /\ c \in Nat /\ c > 0 /\ c \in 1..c
  BY DEF ViewOf
<1>1. \A i \in 1..c : i \in 1..Len(view) /\ <<view[i].id, view[i].stamp>> \in Int \X Nat
  <2>1. \A i \in 1..c : i \in 1..Len(view)
    BY <1>0
  <2>2. \A i \in 1..c : view[i] \in Said
    BY <1>0, <2>1
  <2>3. \A e \in Said : <<e.id, e.stamp>> \in Int \X Nat
    BY DEF Said
  <2> QED
    BY <2>1, <2>2, <2>3
<1>2. /\ Stamped(view, c) \in Seq(Int \X Nat) /\ Len(Stamped(view, c)) = c
      /\ \A i \in 1..c : Stamped(view, c)[i][1] = view[i].id /\ Stamped(view, c)[i][2] = view[i].stamp
  BY <1>0, <1>1 DEF Stamped
<1>3. /\ roll \in [covered : Nat, prefix : Seq(Int \X Nat), summary : Summaries]
      /\ roll.covered = c /\ roll.prefix = Stamped(view, c)
  BY <1>0, <1>2
<1> HIDE DEF roll
<1>4. \A i \in 1..c : roll.prefix[i][1] = view[i].id /\ roll.prefix[i][2] = view[i].stamp
  BY <1>2, <1>3
<1>5. \A i \in 1..c : -n <= roll.prefix[i][1] /\ roll.prefix[i][1] <= n
  BY <1>1, <1>4 DEF ViewOf
<1>6. \A i, j \in 1..c : i < j => Key(roll.prefix[i][1]) < Key(roll.prefix[j][1])
  <2>1. \A i, j \in 1..Len(view) : i < j => Key(view[i].id) < Key(view[j].id)
    BY DEF ViewOf, InOrder
  <2> TAKE i, j \in 1..c
  <2>2. i \in 1..Len(view) /\ j \in 1..Len(view)
    BY <1>1
  <2>3. i < j => Key(view[i].id) < Key(view[j].id)
    BY <2>1, <2>2, Zenon
  <2>4. roll.prefix[i][1] = view[i].id /\ roll.prefix[j][1] = view[j].id
    BY <1>4, Zenon
  <2> QED
    BY <2>3, <2>4, Zenon
<1>7. \A i \in 1..c : roll.prefix[i][2] = 0 => \A j \in 1..Len(s) : s[j].id = roll.prefix[i][1] => ~s[j].large
  <2> TAKE i \in 1..c
  <2>1. roll.prefix[i][1] = view[i].id /\ roll.prefix[i][2] = view[i].stamp /\ i \in 1..Len(view)
    BY <1>1, <1>4, Zenon
  <2>2. \A j \in 1..Len(s) : view[i].id = s[j].id => (s[j].large => view[i].stamp # 0)
    BY <2>1, Zenon DEF ViewOf
  <2> QED
    BY <2>1, <2>2, Zenon
<1>8. \A j \in 1..Len(s) : s[j].id = roll.prefix[c][1] => s[j].kind # "call"
  <2> SUFFICES ASSUME NEW j \in 1..Len(s), s[j].id = roll.prefix[c][1], s[j].kind = "call" PROVE FALSE
    OBVIOUS
  <2>1. view[c].id = s[j].id
    BY <1>0, <1>4
  <2>2. view[c].kind = "call"
    BY <2>1 DEF ViewOf
  <2>3. c < Len(view) /\ view[c + 1].kind = "result"
    BY <2>2 DEF ViewOf, Paired, Follows
  <2> QED
    BY <2>3
<1>9. RollingOk(roll, s, n)
  BY <1>2, <1>3, <1>5, <1>6, <1>7, <1>8 DEF RollingOk
<1>10. Behind(roll) = {view[i].id : i \in 1..c}
  <2>1. roll.covered = c
    BY <1>3
  <2>2. {roll.prefix[i][1] : i \in 1..c} = {view[i].id : i \in 1..c}
    BY <1>4
  <2> QED
    BY <2>1, <2>2 DEF Behind
<1> QED
  BY <1>9, <1>10 DEF roll

\* The same ids in the same order.
LEMMA SameOrder ==
    ASSUME NEW c \in Nat, NEW a \in [1..c -> Int], NEW b \in [1..c -> Int],
           \A i, j \in 1..c : i < j => Key(a[i]) < Key(a[j]), \A i, j \in 1..c : i < j => Key(b[i]) < Key(b[j]),
           \A i \in 1..c : \E j \in 1..c : a[i] = b[j], \A i \in 1..c : \E j \in 1..c : b[i] = a[j]
    PROVE  \A i \in 1..c : a[i] = b[i]
<1> DEFINE Differs == {i \in 1..c : a[i] # b[i]}
<1> SUFFICES ASSUME Differs # {} PROVE FALSE
  OBVIOUS
<1>1. Differs \in SUBSET Nat
  OBVIOUS
<1> HIDE DEF Differs
<1>2. PICK i \in Differs : \A k \in Differs : i <= k
  BY <1>1, LeastNat
<1>3. i \in 1..c /\ a[i] # b[i]
  BY DEF Differs
<1>4. \A k \in 1..c : k < i => a[k] = b[k]
  <2> TAKE k \in 1..c
  <2>1. k < i => k \notin Differs
    BY <1>2, <1>3
  <2> QED
    BY <2>1 DEF Differs
<1>5. PICK j \in 1..c : a[i] = b[j]
  BY <1>3
<1>6. PICK k \in 1..c : b[i] = a[k]
  BY <1>3
<1>7. \A x \in Int : Key(x) \in Int
  BY DEF Key
<1>8. j > i
  <2>1. j # i
    BY <1>3, <1>5
  <2>2. ~(j < i)
    <3> SUFFICES ASSUME j < i PROVE FALSE
      OBVIOUS
    <3>1. a[i] = a[j] /\ Key(a[j]) < Key(a[i]) /\ Key(a[i]) \in Int
      BY <1>3, <1>4, <1>5, <1>7
    <3> QED
      BY <3>1
  <2> QED
    BY <1>3, <2>1, <2>2
<1>9. k > i
  <2>1. k # i
    BY <1>3, <1>6
  <2>2. ~(k < i)
    <3> SUFFICES ASSUME k < i PROVE FALSE
      OBVIOUS
    <3>1. b[i] = b[k] /\ Key(b[k]) < Key(b[i]) /\ Key(b[i]) \in Int
      BY <1>3, <1>4, <1>6, <1>7
    <3> QED
      BY <3>1
  <2> QED
    BY <1>3, <2>1, <2>2
<1>10. Key(a[i]) < Key(a[k]) /\ Key(b[i]) < Key(b[j])
  BY <1>3, <1>8, <1>9
<1>11. Key(a[i]) \in Int /\ Key(a[k]) \in Int /\ Key(a[k]) < Key(a[i])
  BY <1>3, <1>5, <1>6, <1>7, <1>10
<1> QED
  BY <1>10, <1>11

\* What the calls of the model see of the summary there is.
LEMMA RolledFits ==
    ASSUME NEW view, NEW s, NEW n, ViewOf(view, s, n), RollingOk(rolling, s, n)
    PROVE  /\ RolledIs(rolling, view, C!Rolled(view))
           /\ (/\ rolling.covered > 0 /\ rolling.covered < Len(view)
               /\ \A i \in 1..rolling.covered : rolling.prefix[i] = <<view[i].id, view[i].stamp>>)
              => C!Rolled(view) = Rest(rolling.summary, view, rolling.covered)
<1> DEFINE c == rolling.covered
           front == SubSeq(view, 1, c)
           marks == C!Fingerprint(front)
<1>0. /\ c \in Nat /\ view \in Seq(Said) /\ Len(view) \in Nat /\ Len(rolling.prefix) = c /\ rolling.prefix \in Seq(Int \X Nat)
  BY DEF RollingOk, ViewOf
<1>1. ASSUME c > 0, c < Len(view)
      PROVE  C!Fits(rolling, view) <=> \A i \in 1..c : rolling.prefix[i] = <<view[i].id, view[i].stamp>>
  <2>1. \A i \in 1..c : view[i] \in Said
    BY <1>0, <1>1
  <2>2. front \in Seq(Said) /\ Len(front) = c /\ \A i \in 1..c : front[i] = view[i]
    <3>1. /\ front \in Seq(Said) /\ Len(front) = IF 1 <= c THEN c - 1 + 1 ELSE 0
          /\ \A i \in 1..(c - 1 + 1) : front[i] = view[1 + i - 1]
      BY <1>0, <2>1, SubSeqProperties
    <3> HIDE DEF front, c
    <3>2. c - 1 + 1 = c /\ \A i \in 1..c : 1 + i - 1 = i
      BY <1>0
    <3>3. Len(front) = c
      BY <1>0, <1>1, <3>1
    <3> QED
      BY <3>1, <3>2, <3>3
  <2> HIDE DEF front
  <2>3. DOMAIN front = 1..c
    BY <2>2
  <2>4. marks = [i \in 1..c |-> <<front[i].id, front[i].stamp>>]
    BY <2>3 DEF C!Fingerprint
  <2>5. \A i \in 1..c : <<front[i].id, front[i].stamp>> \in Int \X Nat
    <3>1. \A e \in Said : <<e.id, e.stamp>> \in Int \X Nat
      BY DEF Said
    <3> QED
      BY <2>1, <2>2, <3>1
  <2> HIDE DEF c
  <2>6. marks \in Seq(Int \X Nat) /\ Len(marks) = c /\ \A i \in 1..c : marks[i] = <<view[i].id, view[i].stamp>>
    <3>1. [i \in 1..c |-> <<front[i].id, front[i].stamp>>] \in Seq(Int \X Nat) /\ Len([i \in 1..c |-> <<front[i].id, front[i].stamp>>]) = c
      BY <1>0, <2>5
    <3> HIDE DEF marks
    <3>2. \A i \in 1..c : marks[i] = <<front[i].id, front[i].stamp>>
      BY <2>4
    <3> QED
      BY <2>2, <2>4, <3>1, <3>2
  <2>7. C!Fits(rolling, view) <=> marks = rolling.prefix
    <3>1. Len(view) > c
      BY <1>0, <1>1
    <3> QED
      BY <3>1 DEF C!Fits, front, c, marks
  <2> HIDE DEF marks
  <2>8. marks = rolling.prefix <=> \A i \in 1..c : rolling.prefix[i] = marks[i]
    <3>1. (\A i \in 1..c : rolling.prefix[i] = marks[i]) => marks = rolling.prefix
      <4>1. Len(marks) = Len(rolling.prefix) /\ marks \in Seq(Int \X Nat) /\ rolling.prefix \in Seq(Int \X Nat) /\ Len(marks) = c
        BY <1>0, <2>6
      <4> SUFFICES ASSUME \A i \in 1..Len(marks) : marks[i] = rolling.prefix[i] PROVE marks = rolling.prefix
        BY <4>1
      <4> QED
        BY <4>1, SeqEqual
    <3> QED
      BY <3>1
  <2> QED
    BY <2>6, <2>7, <2>8
<1> HIDE DEF front, marks
<1>2. CASE c > 0 /\ C!Fits(rolling, view)
  <2>1. C!Rolled(view) = Rest(rolling.summary, view, c)
    BY <1>2 DEF C!Rolled, Rest
  <2>2. c < Len(view)
    BY <1>0, <1>2 DEF C!Fits
  <2> QED
    BY <1>1, <1>2, <2>1, <2>2 DEF RolledIs
<1>3. CASE ~(c > 0 /\ C!Fits(rolling, view))
  <2>1. C!Rolled(view) = view
    BY <1>3 DEF C!Rolled
  <2> QED
    BY <1>1, <1>3, <2>1 DEF RolledIs
<1> QED
  BY <1>2, <1>3

\* A summary is made again only where one of its previews got another number.
LEMMA AgainIs ==
    ASSUME NEW view, NEW s, NEW n, ViewOf(view, s, n), RollingOk(rolling, s, n), C!Reason(view) = "again",
           forced \/ Len(C!Rolled(view)) >= Trigger
    PROVE  \E i \in DOMAIN rolling.prefix : rolling.prefix[i][2] > 0
<1> DEFINE c == rolling.covered
<1>0. /\ c \in Nat /\ view \in Seq(Said) /\ Len(view) \in Nat /\ Len(rolling.prefix) = c /\ rolling.prefix \in Seq(Int \X Nat)
      /\ rolling.summary \in Summaries /\ Trigger \in Nat
  BY TurnConstants DEF RollingOk, ViewOf
<1>1. /\ ~forced /\ c > 0 /\ c < Len(view)
      /\ C!Ids(SubSeq(view, 1, c)) = {p[1] : p \in C!Range(rolling.prefix)}
      /\ Len(view) - c + 1 < Trigger
  BY <1>0 DEF C!Reason
<1>2. DOMAIN rolling.prefix = 1..c /\ \A i \in 1..c : rolling.prefix[i] \in Int \X Nat
  BY <1>0
<1> SUFFICES ASSUME \A i \in 1..c : ~(rolling.prefix[i][2] > 0) PROVE FALSE
  BY <1>2
<1>3. \A i \in 1..c : i \in 1..Len(view) /\ view[i].id \in Int /\ rolling.prefix[i][1] \in Int /\ rolling.prefix[i][2] = 0
  <2>1. \A i \in 1..c : i \in 1..Len(view)
    BY <1>0, <1>1
  <2>2. \A i \in 1..c : view[i] \in Said
    BY <1>0, <2>1
  <2>3. \A e \in Said : e.id \in Int
    BY DEF Said
  <2>4. \A i \in 1..c : rolling.prefix[i][1] \in Int /\ rolling.prefix[i][2] = 0
    BY <1>2
  <2> QED
    BY <2>1, <2>2, <2>3, <2>4
<1> DEFINE a == [i \in 1..c |-> view[i].id]
           b == [i \in 1..c |-> rolling.prefix[i][1]]
<1>4. a \in [1..c -> Int] /\ b \in [1..c -> Int] /\ \A i \in 1..c : a[i] = view[i].id /\ b[i] = rolling.prefix[i][1]
  BY <1>3
<1> HIDE DEF a, b
<1>5. {a[i] : i \in 1..c} = {b[i] : i \in 1..c}
  <2>1. C!Ids(SubSeq(view, 1, c)) = {a[i] : i \in 1..c}
    <3> DEFINE front == SubSeq(view, 1, c)
    <3>1. /\ front \in Seq(Said) /\ Len(front) = IF 1 <= c THEN c - 1 + 1 ELSE 0
          /\ \A i \in 1..(c - 1 + 1) : front[i] = view[1 + i - 1]
      <4>0. \A i \in 1..c : i \in 1..Len(view)
        BY <1>3
      <4>1. \A i \in 1..c : view[i] \in Said
        <5> HIDE DEF c
        <5> QED
          BY <1>0, <4>0
      <4> QED
        BY <1>0, <4>1, SubSeqProperties
    <3> HIDE DEF front, c
    <3>2. c - 1 + 1 = c /\ \A i \in 1..c : 1 + i - 1 = i
      BY <1>0
    <3>3. Len(front) = c
      BY <1>0, <1>1, <3>1
    <3>4. DOMAIN front = 1..c /\ \A i \in 1..c : front[i] = view[i]
      BY <3>1, <3>2, <3>3
    <3> QED
      <4>1. C!Ids(front) = {a[i] : i \in 1..c}
        <5>1. C!Ids(front) = {front[i].id : i \in 1..c}
          BY <3>4 DEF C!Ids
        <5>2. \A i \in 1..c : front[i].id = a[i]
          BY <1>4, <3>4 DEF c
        <5> QED
          BY <5>1, <5>2
      <4> QED
        BY <4>1 DEF front
  <2>2. {p[1] : p \in C!Range(rolling.prefix)} = {b[i] : i \in 1..c}
    BY <1>2, <1>4 DEF C!Range
  <2> QED
    BY <1>1, <2>1, <2>2
<1>6. \A i, j \in 1..c : i < j => Key(a[i]) < Key(a[j]) /\ Key(b[i]) < Key(b[j])
  <2>1. \A i, j \in 1..c : i < j => Key(view[i].id) < Key(view[j].id)
    BY <1>3 DEF ViewOf, InOrder
  <2>2. \A i, j \in 1..c : i < j => Key(rolling.prefix[i][1]) < Key(rolling.prefix[j][1])
    BY DEF RollingOk
  <2> QED
    BY <1>4, <2>1, <2>2
<1>7. /\ \A i \in 1..c : \E j \in 1..c : a[i] = b[j]
      /\ \A i \in 1..c : \E j \in 1..c : b[i] = a[j]
  BY <1>5
<1>8. \A i \in 1..c : a[i] = b[i]
  <2> HIDE DEF c
  <2> QED
    <3>1. \A i, j \in 1..c : i < j => Key(a[i]) < Key(a[j])
      BY <1>6
    <3>2. \A i, j \in 1..c : i < j => Key(b[i]) < Key(b[j])
      BY <1>6
    <3>3. c \in Nat /\ a \in [1..c -> Int] /\ b \in [1..c -> Int]
      BY <1>0, <1>4
    <3> QED
      BY <1>7, <3>1, <3>2, <3>3, SameOrder
<1>9. \A i \in 1..c : view[i].stamp = 0
  <2> TAKE i \in 1..c
  <2>1. i \in 1..Len(view) /\ view[i].id = rolling.prefix[i][1] /\ rolling.prefix[i][2] = 0
    BY <1>3, <1>4, <1>8
  <2> SUFFICES ASSUME view[i].stamp # 0 PROVE FALSE
    OBVIOUS
  <2>2. PICK j \in 1..Len(s) : s[j].id = view[i].id /\ s[j].large
    BY <2>1 DEF ViewOf
  <2> QED
    BY <2>1, <2>2 DEF RollingOk
<1>10. \A i \in 1..c : rolling.prefix[i] = <<view[i].id, view[i].stamp>>
  <2> TAKE i \in 1..c
  <2>1. rolling.prefix[i] \in Int \X Nat /\ rolling.prefix[i][1] = view[i].id /\ rolling.prefix[i][2] = view[i].stamp
    BY <1>2, <1>3, <1>4, <1>8, <1>9
  <2> QED
    BY <2>1
<1>11. C!Rolled(view) = Rest(rolling.summary, view, c)
  BY <1>1, <1>10, RolledFits
<1>12. Len(Rest(rolling.summary, view, c)) = Len(view) - c + 1
  <2>1. c \in 1..Len(view)
    BY <1>0, <1>1
  <2> HIDE DEF c
  <2> QED
    BY <1>0, <2>1, RestIs
<1> QED
  BY <1>0, <1>1, <1>11, <1>12

\* A request whose summary retells, and one whose file has, what is gone.
Whole == ~unsummarized \/ ~backend
Filed == backend /\ ~fault

WindowTyped ==
    /\ backend \in BOOLEAN /\ fault \in BOOLEAN /\ unsummarized \in BOOLEAN /\ said \in Nat /\ evictions \in Nat
    /\ step \in [at : {"idle", "read", "write", "summary"}, messages : Seq(Request), cut : Nat, read : SUBSET Int,
                 named : BOOLEAN, why : {"none", "forced", "again", "needed"}]
    /\ historyFile \in SUBSET Int
    /\ rival \in [at : {"idle", "reading", "done"}, read : SUBSET Int]
    /\ sent \in Seq(Request)

\* While a summary is made the messages are those of a view of the transcript.
Summarizing(messages, cut, roll, s, n) ==
    /\ \E view : ViewOf(view, s, n) /\ RolledIs(roll, view, messages)
    /\ cut \in 1..Len(messages) /\ (cut < Len(messages) => messages[cut + 1].kind # "result")

Offloaded(messages, cut, f) == \A i \in 1..cut : messages[i].kind # "summary" => messages[i].id \in f

WindowInv ==
    /\ WindowTyped
    /\ Grown(transcript, said)
    /\ RollingOk(rolling, transcript, said) /\ Retains(rolling.summary, Behind(rolling), Whole, Filed, historyFile)
    /\ step.at # "idle" => Summarizing(step.messages, step.cut, rolling, transcript, said)
    /\ step.named \/ step.at = "write" \/ step.at = "read" => backend
    /\ step.at = "summary" /\ Filed => step.named /\ Offloaded(step.messages, step.cut, historyFile)
    /\ Paired(sent) /\ (sent # <<>> => Covers(sent, transcript, Whole, Filed, historyFile))
    /\ C!PaidAgainForPreviewsOnly /\ (step.at = "idle" => step.why = "none")

LEMMA WindowStart == C!Init => WindowInv
<1> SUFFICES ASSUME C!Init PROVE WindowInv
  OBVIOUS
<1>1. /\ backend \in BOOLEAN /\ transcript = <<>> /\ sent = <<>> /\ said = 0 /\ evictions = 0 /\ forced = FALSE
      /\ historyFile = {} /\ fault = FALSE /\ unsummarized = FALSE /\ rival = [at |-> "idle", read |-> {}]
  BY DEF C!Init
<1>2. step = [at |-> "idle", messages |-> <<>>, cut |-> 0, read |-> {}, named |-> FALSE, why |-> "none"]
  BY DEF C!Init, C!Resting
<1>3. rolling = [covered |-> 0, prefix |-> <<>>, summary |-> C!Summary({}, FALSE)]
  BY DEF C!Init, C!NoSummary
<1>4. C!Summary({}, FALSE) \in Summaries
  BY DEF C!Summary, Summaries
<1>5. \A S : <<>> \in Seq(S) /\ Len(<<>>) = 0 /\ 1..0 = {}
  OBVIOUS
<1>6. WindowTyped
  BY <1>1, <1>2, <1>5 DEF WindowTyped
<1>7. Grown(transcript, said)
  BY <1>1, <1>5 DEF Grown
<1>8. RollingOk(rolling, transcript, said)
  BY <1>1, <1>3, <1>4, <1>5 DEF RollingOk
<1>9. Retains(rolling.summary, Behind(rolling), Whole, Filed, historyFile)
  <2>1. Behind(rolling) = {}
    BY <1>3, <1>5 DEF Behind
  <2> QED
    BY <2>1 DEF Retains
<1>10. Paired(sent)
  BY <1>1, <1>5 DEF Paired
<1> QED
  BY <1>1, <1>2, <1>6, <1>7, <1>8, <1>9, <1>10 DEF WindowInv, C!PaidAgainForPreviewsOnly

\* The transcript grew, or was cut: nothing is being asked of the model.
LEMMA TranscriptStep ==
    ASSUME WindowInv, step.at = "idle", sent' = <<>>, Grown(transcript, said)', said' \in Nat, said <= said',
           \A j \in 1..Len(transcript') : (\E i \in 1..Len(transcript) : transcript'[j] = transcript[i]) \/ transcript'[j].id > said,
           UNCHANGED <<backend, step, rolling, evictions, historyFile, fault, rival, unsummarized>>
    PROVE  WindowInv'
<1>1. WindowTyped /\ RollingOk(rolling, transcript, said) /\ said \in Nat
  BY DEF WindowInv, WindowTyped
<1>2. RollingOk(rolling, transcript', said')
  BY <1>1, RollingLater
<1>3. RollingOk(rolling, transcript, said)'
  BY <1>2 DEF RollingOk
<1>4. Retains(rolling.summary, Behind(rolling), Whole, Filed, historyFile)'
  BY DEF WindowInv, Retains, Behind, Whole, Filed
<1>5. <<>> \in Seq(Request) /\ Len(<<>>) = 0
  OBVIOUS
<1>6. Paired(sent)'
  BY <1>5 DEF Paired
<1>7. WindowTyped'
  BY <1>1, <1>5 DEF WindowTyped
<1>8. step' = step /\ rolling' = rolling /\ backend' = backend
  OBVIOUS
<1>9. C!PaidAgainForPreviewsOnly'
  BY <1>8 DEF WindowInv, C!PaidAgainForPreviewsOnly
<1> QED
  BY <1>3, <1>4, <1>6, <1>7, <1>8, <1>9 DEF WindowInv

LEMMA GrowStep ==
    ASSUME WindowInv, NEW kind \in {"question", "cancelled", "answered", "large"}, C!Grow(kind)
    PROVE  WindowInv'
<1> DEFINE id == said + 1
           other == id + 1
           asked == C!Message("user", id, 0, FALSE)
           made == C!Message("call", id, id, FALSE)
           given(large) == C!Message("result", other, id, large)
<1>0. Grown(transcript, said) /\ said \in Nat /\ transcript \in Seq(Said)
  BY DEF WindowInv, WindowTyped, Grown
<1>1. /\ step.at = "idle" /\ sent' = <<>>
      /\ UNCHANGED <<backend, step, rolling, evictions, historyFile, fault, rival, unsummarized>>
      /\ kind \in {"question", "cancelled"} => said' = said + 1
      /\ kind \in {"answered", "large"} => said' = said + 2
      /\ kind = "question" => transcript' = transcript \o <<asked>>
      /\ kind = "cancelled" => transcript' = transcript \o <<made>>
      /\ kind = "answered" => transcript' = transcript \o <<made, given(FALSE)>>
      /\ kind = "large" => transcript' = transcript \o <<made, given(TRUE)>>
  BY DEF C!Grow
<1>2. /\ asked \in Said /\ asked.stamp = 0 /\ asked.holds = {asked.id} /\ asked.id = said + 1 /\ asked.kind = "user"
      /\ made \in Said /\ made.stamp = 0 /\ made.holds = {made.id} /\ made.id = said + 1 /\ made.kind = "call" /\ made.call = made.id
  BY <1>0 DEF C!Message, Said
<1>3. ASSUME NEW large \in BOOLEAN
      PROVE  /\ given(large) \in Said /\ given(large).stamp = 0 /\ given(large).holds = {given(large).id}
             /\ given(large).id = (said + 1) + 1 /\ given(large).kind = "result" /\ given(large).call = made.call
  BY <1>0 DEF C!Message, Said
<1> HIDE DEF asked, made, given
<1>4. CASE kind = "question"
  <2>1. transcript' = Append(transcript, asked) /\ said' = said + 1
    <3>1. Append(transcript, asked) = transcript \o <<asked>>
      BY <1>0, <1>2, AppendIsConcat
    <3> QED
      BY <1>1, <1>4, <3>1
  <2>2. /\ Grown(Append(transcript, asked), said + 1)
        /\ \A j \in 1..Len(Append(transcript, asked)) :
               (\E i \in 1..Len(transcript) : Append(transcript, asked)[j] = transcript[i]) \/ Append(transcript, asked)[j] = asked
    BY <1>0, <1>2, GrownMore
  <2>3. Grown(transcript, said)'
    BY <2>1, <2>2 DEF Grown
  <2>4. asked.id > said /\ said + 1 \in Nat /\ said <= said + 1
    BY <1>0, <1>2
  <2>5. \A j \in 1..Len(transcript') : (\E i \in 1..Len(transcript) : transcript'[j] = transcript[i]) \/ transcript'[j].id > said
    BY <2>1, <2>2, <2>4
  <2> QED
    BY <1>1, <2>1, <2>3, <2>4, <2>5, TranscriptStep
<1>5. CASE kind # "question"
  <2>1. /\ Grown(Append(transcript, made), said + 1)
        /\ Append(transcript, made)[Len(Append(transcript, made))] = made /\ Len(Append(transcript, made)) > 0
        /\ \A j \in 1..Len(Append(transcript, made)) :
               (\E i \in 1..Len(transcript) : Append(transcript, made)[j] = transcript[i]) \/ Append(transcript, made)[j] = made
    BY <1>0, <1>2, GrownMore
  <2>2. Append(transcript, made) = transcript \o <<made>> /\ Append(transcript, made) \in Seq(Said)
    BY <1>0, <1>2, AppendIsConcat, AppendProperties
  <2>3. made.id > said /\ said + 1 \in Nat /\ said <= said + 1
    BY <1>0, <1>2
  <2> DEFINE one == Append(transcript, made)
  <2> HIDE DEF one
  <2>4. CASE kind = "cancelled"
    <3>1. transcript' = one /\ said' = said + 1
      BY <1>1, <2>2, <2>4 DEF one
    <3>2. Grown(transcript, said)'
      BY <2>1, <3>1 DEF Grown, one
    <3>3. \A j \in 1..Len(transcript') : (\E i \in 1..Len(transcript) : transcript'[j] = transcript[i]) \/ transcript'[j].id > said
      BY <2>1, <2>3, <3>1 DEF one
    <3> QED
      BY <1>1, <2>3, <3>1, <3>2, <3>3, TranscriptStep
  <2>5. CASE kind # "cancelled"
    <3>1. PICK large \in BOOLEAN : transcript' = transcript \o <<made, given(large)>>
      BY <1>1, <1>5, <2>5
    <3> DEFINE result == given(large)
               two == Append(one, result)
    <3>2. /\ result \in Said /\ result.stamp = 0 /\ result.holds = {result.id} /\ result.id = (said + 1) + 1
          /\ result.kind = "result" /\ result.call = made.call
      BY <1>3
    <3> HIDE DEF result
    <3>3. /\ Grown(two, (said + 1) + 1)
          /\ \A j \in 1..Len(two) : (\E i \in 1..Len(one) : two[j] = one[i]) \/ two[j] = result
      <4>1. Grown(one, said + 1) /\ Len(one) > 0 /\ one[Len(one)].kind = "call" /\ Follows(result, one[Len(one)])
        BY <1>2, <2>1, <3>2 DEF one, Follows
      <4> QED
        BY <2>3, <3>2, <4>1, GrownMore
    <3>4. transcript' = two
      <4>1. <<made>> \in Seq(Said) /\ <<result>> \in Seq(Said)
        BY <1>2, <3>2
      <4>2. two = (transcript \o <<made>>) \o <<result>>
        BY <2>2, <3>2, AppendIsConcat DEF one
      <4>3. two = transcript \o (<<made>> \o <<result>>)
        BY <1>0, <4>1, <4>2, ConcatAssociative
      <4>4. <<made>> \o <<result>> = <<made, result>>
        BY <1>2, <3>2, TwoOfThem
      <4> QED
        BY <3>1, <4>3, <4>4 DEF result
    <3> HIDE DEF two
    <3>5. said' = (said + 1) + 1 /\ (said + 1) + 1 \in Nat /\ said <= (said + 1) + 1 /\ result.id > said
      <4>1. said' = said + 2
        BY <1>1, <1>5, <2>5
      <4> QED
        BY <1>0, <3>2, <4>1
    <3>6. Grown(transcript, said)'
      BY <3>3, <3>4, <3>5 DEF Grown
    <3>7. \A j \in 1..Len(transcript') : (\E i \in 1..Len(transcript) : transcript'[j] = transcript[i]) \/ transcript'[j].id > said
      <4> TAKE j \in 1..Len(transcript')
      <4>1. CASE transcript'[j] = result
        BY <3>5, <4>1
      <4>2. CASE \E i \in 1..Len(one) : transcript'[j] = one[i]
        <5>1. PICK i \in 1..Len(one) : transcript'[j] = one[i]
          BY <4>2
        <5>2. (\E h \in 1..Len(transcript) : one[i] = transcript[h]) \/ one[i] = made
          BY <2>1 DEF one
        <5> QED
          BY <2>3, <5>1, <5>2
      <4> QED
        BY <3>3, <3>4, <4>1, <4>2
    <3> QED
      BY <1>1, <3>5, <3>6, <3>7, TranscriptStep
  <2> QED
    BY <2>4, <2>5
<1> QED
  BY <1>4, <1>5

LEMMA RecoverStep == ASSUME WindowInv, C!Recover PROVE WindowInv'
<1> DEFINE all == transcript
           n == Len(transcript)
           IsFrom(f) == /\ f >= n - 1
                        /\ f <= n => all[f].kind # "result"
                        /\ \A g \in 2..(f - 1) : g >= n - 1 => all[g].kind = "result"
           from == CHOOSE f \in 2..n + 1 : IsFrom(f)
           back == SubSeq(all, from, n)
           rest == <<all[1]>> \o back
<1>0. Grown(transcript, said) /\ said \in Nat /\ all \in Seq(Said) /\ n \in Nat
  BY DEF WindowInv, WindowTyped, Grown
<1>1. /\ step.at = "idle" /\ n > 3 /\ all[1].kind = "user" /\ from <= n
      /\ transcript' = rest /\ sent' = <<>>
      /\ UNCHANGED <<backend, step, rolling, said, evictions, historyFile, fault, rival, unsummarized>>
  BY DEF C!Recover
<1>2. from \in 2..n /\ all[from].kind # "result"
  <2> DEFINE May == {f \in 2..n + 1 : f >= n - 1 /\ (f <= n => all[f].kind # "result")}
  <2>1. May \in SUBSET Nat /\ n + 1 \in May
    BY <1>0, <1>1
  <2> HIDE DEF May
  <2>2. PICK f \in May : \A k \in May : f <= k
    BY <2>1, LeastNat
  <2>3. f \in 2..n + 1 /\ f >= n - 1 /\ (f <= n => all[f].kind # "result")
    BY <2>2 DEF May
  <2>4. ASSUME NEW g \in 2..(f - 1), g >= n - 1 PROVE all[g].kind = "result"
    <3>1. g \in 2..n + 1 /\ ~(f <= g) /\ g <= n
      BY <1>0, <2>3
    <3> HIDE DEF n
    <3>2. g \notin May
      BY <2>2, <3>1
    <3> QED
      BY <2>4, <3>1, <3>2 DEF May
  <2>5. \E h \in 2..n + 1 : IsFrom(h)
    BY <2>3, <2>4
  <2> HIDE DEF IsFrom
  <2>6. from \in 2..n + 1 /\ IsFrom(from)
    BY <2>5
  <2> HIDE DEF from
  <2>7. from <= n => all[from].kind # "result"
    BY <2>6 DEF IsFrom
  <2>8. from <= n
    BY <1>1 DEF from
  <2> QED
    BY <1>0, <2>6, <2>7, <2>8
<1> HIDE DEF from
<1>3. /\ all[1] \in Said /\ back \in Seq(Said) /\ Len(back) = n - from + 1 /\ \A i \in 1..(n - from + 1) : back[i] = all[from + i - 1]
  <2>1. 1 \in 1..n /\ \A i \in from..n : i \in 1..n
    BY <1>0, <1>1, <1>2
  <2>2. all[1] \in Said /\ \A i \in from..n : all[i] \in Said
    BY <1>0, <2>1
  <2>3. /\ back \in Seq(Said) /\ Len(back) = (IF from <= n THEN n - from + 1 ELSE 0)
        /\ \A i \in 1..(n - from + 1) : back[i] = all[from + i - 1]
    BY <1>0, <1>2, <2>2, SubSeqProperties
  <2> HIDE DEF back
  <2> QED
    BY <1>2, <2>2, <2>3
<1> HIDE DEF back
<1> DEFINE k == n - from + 2
           m(i) == IF i = 1 THEN 1 ELSE from + i - 2
<1>4. rest \in Seq(Said) /\ Len(rest) = k /\ \A i \in 1..k : rest[i] = all[m(i)]
  <2> DEFINE first == <<all[1]>>
  <2>1. first \in Seq(Said) /\ Len(first) = 1 /\ first[1] = all[1]
    BY <1>3
  <2> HIDE DEF first
  <2>2. /\ first \o back \in Seq(Said) /\ Len(first \o back) = Len(first) + Len(back)
        /\ \A i \in 1..(Len(first) + Len(back)) : (first \o back)[i] = IF i <= Len(first) THEN first[i] ELSE back[i - Len(first)]
    BY <1>3, <2>1, ConcatProperties
  <2> DEFINE r == first \o back
  <2> HIDE DEF r
  <2>3. r \in Seq(Said) /\ Len(r) = 1 + Len(back) /\ \A i \in 1..(1 + Len(back)) : r[i] = IF i <= 1 THEN first[i] ELSE back[i - 1]
    BY <2>1, <2>2 DEF r
  <2>4. 1 + Len(back) = k
    BY <1>0, <1>2, <1>3
  <2>5. ASSUME NEW i \in 1..k PROVE r[i] = all[m(i)]
    <3>1. CASE i = 1
      BY <2>1, <2>3, <2>4, <3>1
    <3>2. CASE i # 1
      <4>1. i - 1 \in 1..(n - from + 1) /\ from + (i - 1) - 1 = from + i - 2 /\ ~(i <= 1)
        BY <1>0, <1>2, <3>2
      <4>2. r[i] = back[i - 1]
        BY <2>3, <2>4, <4>1
      <4> QED
        BY <1>3, <3>2, <4>1, <4>2
    <3> QED
      BY <3>1, <3>2
  <2>6. rest = r
    BY Zenon DEF r, first
  <2> HIDE DEF rest, m, k
  <2> QED
    BY <2>3, <2>4, <2>5, <2>6
<1>5. /\ \A i \in 1..k : m(i) \in 1..n
      /\ \A i, j \in 1..k : i < j => m(i) < m(j)
      /\ \A i \in 1..k : i > 2 => m(i - 1) = m(i) - 1 /\ i - 1 \in 1..k
      /\ m(1) = 1 /\ m(2) = from
  BY <1>0, <1>2
<1> HIDE DEF rest, m, k
<1>6. Grown(rest, said)
  <2>1. ASSUME NEW i \in 1..k
        PROVE  /\ rest[i].stamp = 0 /\ rest[i].holds = {rest[i].id} /\ rest[i].id > 0 /\ rest[i].id <= said
               /\ rest[i].kind = "call" => rest[i].call = rest[i].id
               /\ rest[i].kind = "result" => i > 1 /\ rest[i - 1].kind = "call" /\ Follows(rest[i], rest[i - 1])
    <3>1. rest[i] = all[m(i)] /\ m(i) \in 1..n
      BY <1>4, <1>5
    <3>2. /\ all[m(i)].stamp = 0 /\ all[m(i)].holds = {all[m(i)].id} /\ all[m(i)].id > 0 /\ all[m(i)].id <= said
          /\ all[m(i)].kind = "call" => all[m(i)].call = all[m(i)].id
          /\ all[m(i)].kind = "result" => all[m(i) - 1].kind = "call" /\ Follows(all[m(i)], all[m(i) - 1])
      BY <1>0, <3>1 DEF Grown
    <3>3. ASSUME rest[i].kind = "result" PROVE i > 1 /\ rest[i - 1].kind = "call" /\ Follows(rest[i], rest[i - 1])
      <4>1. i # 1 /\ i # 2
        BY <1>1, <1>2, <1>5, <3>1, <3>3
      <4>2. i > 2
        BY <4>1
      <4>3. rest[i - 1] = all[m(i) - 1]
        BY <1>4, <1>5, <4>2
      <4> QED
        BY <3>1, <3>2, <3>3, <4>2, <4>3
    <3> QED
      BY <3>1, <3>2, <3>3
  <2>2. \A i, j \in 1..k : i < j => rest[i].id < rest[j].id
    <3> TAKE i, j \in 1..k
    <3> HAVE i < j
    <3>1. m(i) \in 1..n /\ m(j) \in 1..n /\ m(i) < m(j)
      BY <1>5
    <3>2. all[m(i)].id < all[m(j)].id
      BY <1>0, <3>1 DEF Grown
    <3> QED
      BY <1>4, <3>2
  <2> QED
    BY <1>4, <2>1, <2>2 DEF Grown
<1>7. Grown(transcript, said)'
  BY <1>1, <1>6 DEF Grown
<1>8. \A j \in 1..Len(transcript') : \E i \in 1..Len(transcript) : transcript'[j] = transcript[i]
  BY <1>1, <1>4, <1>5
<1>9. said' = said /\ said <= said
  BY <1>0, <1>1
<1> QED
  BY <1>0, <1>1, <1>7, <1>8, <1>9, TranscriptStep

LEMMA ModelCallStep == ASSUME WindowInv, C!ModelCall PROVE WindowInv'
<1> DEFINE view == C!Evicted(C!Patched(transcript))
           messages == C!Rolled(view)
           cut == C!Cut(messages)
           summarizes == /\ forced \/ Len(messages) >= Trigger
                         /\ Len(messages) > 2 /\ cut > 0
                         /\ \E i \in 1..cut : messages[i].kind # "summary"
           next == [C!Resting EXCEPT !.at = IF backend THEN "read" ELSE "summary",
                                     !.messages = messages, !.cut = cut, !.why = C!Reason(view)]
<1>0. /\ WindowTyped /\ Grown(transcript, said) /\ RollingOk(rolling, transcript, said)
      /\ Retains(rolling.summary, Behind(rolling), Whole, Filed, historyFile)
      /\ said \in Nat /\ evictions \in Nat /\ backend \in BOOLEAN /\ transcript \in Seq(Said)
  BY DEF WindowInv, WindowTyped, Grown
<1>1. /\ step.at = "idle" /\ evictions' = evictions + C!Larges(transcript)
      /\ UNCHANGED <<backend, transcript, rolling, said, historyFile, fault, unsummarized, rival>>
      /\ IF summarizes THEN step' = next /\ sent' = sent ELSE sent' = messages /\ step' = C!Resting
  BY DEF C!ModelCall, C!Sends
<1>2. ViewOf(view, transcript, said)
  BY <1>0, ViewIs
<1> HIDE DEF view
<1>3. RolledIs(rolling, view, messages)
  BY <1>0, <1>2, RolledFits
<1>4. summarizes => forced \/ Len(messages) >= Trigger
  OBVIOUS
<1>5. summarizes /\ C!Reason(view) = "again" => \E i \in DOMAIN rolling.prefix : rolling.prefix[i][2] > 0
  BY <1>0, <1>2, <1>4, AgainIs
<1> HIDE DEF messages
<1>6. Whole \in BOOLEAN /\ Filed \in BOOLEAN
  BY <1>0 DEF Whole, Filed, WindowTyped
<1>7. Paired(messages) /\ Covers(messages, transcript, Whole, Filed, historyFile) /\ messages \in Seq(Request)
  BY <1>0, <1>2, <1>3, <1>6, RolledSound
<1>8. cut \in 0..Len(messages) /\ (cut \in 1..(Len(messages) - 1) => messages[cut + 1].kind # "result") /\ Len(messages) \in Nat
  BY <1>7, CutIs
<1> HIDE DEF cut
<1>9. summarizes => cut \in 1..Len(messages) /\ (cut < Len(messages) => messages[cut + 1].kind # "result")
  BY <1>8
<1> HIDE DEF summarizes
<1>10. evictions' \in Nat
  BY <1>0, <1>1, LargesIs
<1>11. /\ Whole' = Whole /\ Filed' = Filed
       /\ Grown(transcript, said)' /\ RollingOk(rolling, transcript, said)'
       /\ Retains(rolling.summary, Behind(rolling), Whole, Filed, historyFile)'
  <2>1. UNCHANGED <<backend, transcript, rolling, said, historyFile, fault, unsummarized>>
    BY <1>1
  <2>2. Whole' = Whole /\ Filed' = Filed
    BY <2>1 DEF Whole, Filed
  <2>3. Grown(transcript, said)'
    BY <1>0, <2>1 DEF Grown
  <2>4. RollingOk(rolling, transcript, said)'
    BY <1>0, <2>1 DEF RollingOk
  <2>5. Retains(rolling.summary, Behind(rolling), Whole, Filed, historyFile)'
    BY <1>0, <2>1, <2>2 DEF Retains, Behind
  <2> QED
    BY <2>2, <2>3, <2>4, <2>5
<1>12. CASE summarizes
  <2>1. next = [at |-> IF backend THEN "read" ELSE "summary", messages |-> messages, cut |-> cut, read |-> {},
                named |-> FALSE, why |-> C!Reason(view)]
    <3> DEFINE stage == IF backend THEN "read" ELSE "summary"
               reason == C!Reason(view)
    <3>1. next = [C!Resting EXCEPT !.at = stage, !.messages = messages, !.cut = cut, !.why = reason]
      OBVIOUS
    <3>2. C!Resting = [at |-> "idle", messages |-> <<>>, cut |-> 0, read |-> {}, named |-> FALSE, why |-> "none"]
      BY DEF C!Resting
    <3> HIDE DEF next, stage, reason
    <3>3. next = [at |-> stage, messages |-> messages, cut |-> cut, read |-> {}, named |-> FALSE, why |-> reason]
      BY <3>1, <3>2
    <3> QED
      BY <3>3 DEF stage, reason
  <2>2. C!Reason(view) \in {"none", "forced", "again", "needed"}
    BY DEF C!Reason
  <2>3. step' = next /\ sent' = sent
    BY <1>1, <1>12
  <2> HIDE DEF next
  <2>4. /\ step'.at = (IF backend THEN "read" ELSE "summary") /\ step'.messages = messages /\ step'.cut = cut
        /\ step'.named = FALSE /\ step'.why = C!Reason(view)
    BY <2>1, <2>3
  <2>5. step' \in [at : {"idle", "read", "write", "summary"}, messages : Seq(Request), cut : Nat, read : SUBSET Int,
                   named : BOOLEAN, why : {"none", "forced", "again", "needed"}]
    <3>1. cut \in Nat
      BY <1>8
    <3> QED
      BY <1>0, <1>7, <2>1, <2>2, <2>3, <3>1
  <2>6. WindowTyped'
    BY <1>0, <1>1, <1>10, <2>3, <2>5 DEF WindowTyped
  <2>7. Summarizing(step.messages, step.cut, rolling, transcript, said)'
    <3>1. Summarizing(messages, cut, rolling, transcript, said)
      BY <1>2, <1>3, <1>9, <1>12 DEF Summarizing
    <3> QED
      BY <1>1, <2>4, <3>1 DEF Summarizing
  <2>8. /\ step'.named \/ step'.at = "write" \/ step'.at = "read" => backend'
        /\ step'.at = "summary" => ~Filed'
        /\ step'.at # "idle"
    BY <1>1, <1>11, <2>4 DEF Filed
  <2>9. Paired(sent)' /\ (sent' # <<>> => Covers(sent, transcript, Whole, Filed, historyFile)')
    <3>1. Paired(sent) /\ (sent # <<>> => Covers(sent, transcript, Whole, Filed, historyFile))
      BY DEF WindowInv
    <3>2. sent' = sent /\ transcript' = transcript /\ historyFile' = historyFile
      BY <1>1, <2>3
    <3> QED
      BY <1>11, <3>1, <3>2 DEF Paired, Covers
  <2>10. C!PaidAgainForPreviewsOnly'
    BY <1>1, <1>5, <1>12, <2>4 DEF C!PaidAgainForPreviewsOnly
  <2> QED
    BY <1>11, <2>6, <2>7, <2>8, <2>9, <2>10 DEF WindowInv
<1>13. CASE ~summarizes
  <2>1. step' = C!Resting /\ sent' = messages
    BY <1>1, <1>13
  <2>2. /\ step' \in [at : {"idle", "read", "write", "summary"}, messages : Seq(Request), cut : Nat, read : SUBSET Int,
                      named : BOOLEAN, why : {"none", "forced", "again", "needed"}]
        /\ step'.at = "idle" /\ step'.why = "none" /\ step'.named = FALSE
    BY <2>1 DEF C!Resting
  <2>3. WindowTyped'
    BY <1>0, <1>1, <1>7, <1>10, <2>1, <2>2 DEF WindowTyped
  <2>4. Paired(sent)' /\ Covers(sent, transcript, Whole, Filed, historyFile)'
    BY <1>1, <1>7, <1>11, <2>1 DEF Paired, Covers
  <2>5. C!PaidAgainForPreviewsOnly'
    BY <2>2 DEF C!PaidAgainForPreviewsOnly
  <2> QED
    BY <1>11, <2>2, <2>3, <2>4, <2>5 DEF WindowInv
<1> QED
  BY <1>12, <1>13

\* Steps on the file, the run's own and another's: it grows, or that is a fault.
LEMMA FileStep ==
    ASSUME WindowInv, WindowTyped', fault => fault', ~fault' => historyFile \subseteq historyFile',
           UNCHANGED <<backend, transcript, rolling, sent, said, unsummarized>>,
           step'.messages = step.messages, step'.cut = step.cut, step'.why = step.why, step'.at = "idle" <=> step.at = "idle",
           step'.named \/ step'.at = "write" \/ step'.at = "read" => backend,
           step'.at = "summary" /\ Filed' => step'.named /\ Offloaded(step.messages, step.cut, historyFile')
    PROVE  WindowInv'
<1>1. /\ Whole' => Whole
      /\ Filed' => Filed /\ historyFile \subseteq historyFile'
  BY DEF Whole, Filed
<1>2. /\ Grown(transcript, said) /\ RollingOk(rolling, transcript, said)
      /\ Retains(rolling.summary, Behind(rolling), Whole, Filed, historyFile)
      /\ Paired(sent) /\ (sent # <<>> => Covers(sent, transcript, Whole, Filed, historyFile))
  BY DEF WindowInv
<1>3. Retains(rolling.summary, Behind(rolling), Whole', Filed', historyFile')
  BY <1>1, <1>2, RetainsLater
<1>4. sent # <<>> => Covers(sent, transcript, Whole', Filed', historyFile')
  BY <1>1, <1>2, CoversLater
<1>5. /\ Grown(transcript, said)' /\ RollingOk(rolling, transcript, said)'
      /\ Retains(rolling.summary, Behind(rolling), Whole, Filed, historyFile)'
      /\ Paired(sent)' /\ (sent' # <<>> => Covers(sent, transcript, Whole, Filed, historyFile)')
  <2>1. Grown(transcript, said)'
    BY <1>2 DEF Grown
  <2>2. RollingOk(rolling, transcript, said)'
    BY <1>2 DEF RollingOk
  <2>3. Retains(rolling.summary, Behind(rolling), Whole, Filed, historyFile)'
    BY <1>3 DEF Retains, Behind
  <2>4. Paired(sent)'
    BY <1>2 DEF Paired
  <2>5. sent' # <<>> => Covers(sent, transcript, Whole, Filed, historyFile)'
    BY <1>4 DEF Covers
  <2> QED
    BY <2>1, <2>2, <2>3, <2>4, <2>5
<1>6. step'.at # "idle" => Summarizing(step.messages, step.cut, rolling, transcript, said)'
  <2>1. step.at # "idle" => Summarizing(step.messages, step.cut, rolling, transcript, said)
    BY DEF WindowInv
  <2> QED
    BY <2>1 DEF Summarizing
<1>7. C!PaidAgainForPreviewsOnly' /\ (step'.at = "idle" => step'.why = "none")
  BY DEF WindowInv, C!PaidAgainForPreviewsOnly
<1>8. step'.at = "summary" /\ Filed' => step'.named /\ Offloaded(step.messages, step.cut, historyFile)'
  BY DEF Offloaded
<1> QED
  BY <1>5, <1>6, <1>7, <1>8 DEF WindowInv

LEMMA ReadStep == ASSUME WindowInv, NEW result \in {"ok", "error", "throws"}, C!ReadHistory(result) PROVE WindowInv'
<1> DEFINE stage == IF result = "throws" THEN "summary" ELSE "write"
           read == IF result = "ok" THEN historyFile ELSE {}
<1>0. WindowTyped /\ (step.named \/ step.at = "write" \/ step.at = "read" => backend)
  BY DEF WindowInv
<1>1. /\ step.at = "read" /\ step' = [step EXCEPT !.at = stage, !.read = read]
      /\ fault' = (fault \/ result # "ok")
      /\ UNCHANGED <<backend, transcript, rolling, sent, said, evictions, historyFile, unsummarized, rival>>
  BY DEF C!ReadHistory
<1>2. stage \in {"summary", "write"} /\ read \in SUBSET Int /\ (stage = "summary" => result # "ok")
  BY <1>0 DEF WindowTyped
<1> HIDE DEF stage, read
<1>3. /\ step' \in [at : {"idle", "read", "write", "summary"}, messages : Seq(Request), cut : Nat, read : SUBSET Int,
                    named : BOOLEAN, why : {"none", "forced", "again", "needed"}]
      /\ step'.at = stage /\ step'.messages = step.messages /\ step'.cut = step.cut /\ step'.named = step.named /\ step'.why = step.why
  BY <1>0, <1>1, <1>2 DEF WindowTyped
<1>4. WindowTyped'
  BY <1>0, <1>1, <1>3 DEF WindowTyped
<1>5. step'.at = "summary" => ~Filed'
  BY <1>1, <1>2, <1>3 DEF Filed
<1> QED
  BY <1>0, <1>1, <1>2, <1>3, <1>4, <1>5, FileStep

LEMMA WriteStep == ASSUME WindowInv, NEW result \in {"ok", "refused", "throws"}, C!WriteHistory(result) PROVE WindowInv'
<1> DEFINE Section == C!Section
           naming == result # "throws"
<1>0. /\ WindowTyped /\ (step.named \/ step.at = "write" \/ step.at = "read" => backend)
      /\ historyFile \in SUBSET Int /\ step.messages \in Seq(Request) /\ step.cut \in Nat /\ step.read \in SUBSET Int
  BY DEF WindowInv, WindowTyped
<1>1. /\ step.at = "write" /\ step' = [step EXCEPT !.at = "summary", !.named = (result # "throws"), !.read = {}]
      /\ historyFile' = (IF result = "ok" THEN Section ELSE historyFile)
      /\ fault' = (fault \/ result # "ok" \/ ~(historyFile \subseteq Section))
      /\ UNCHANGED <<backend, transcript, rolling, sent, said, evictions, unsummarized, rival>>
  BY DEF C!WriteHistory
<1>2. /\ step' \in [at : {"idle", "read", "write", "summary"}, messages : Seq(Request), cut : Nat, read : SUBSET Int,
                    named : BOOLEAN, why : {"none", "forced", "again", "needed"}]
      /\ step'.at = "summary" /\ step'.messages = step.messages /\ step'.cut = step.cut /\ step'.named = naming /\ step'.why = step.why
  BY <1>0, <1>1 DEF WindowTyped
<1>3. step.cut \in 1..Len(step.messages)
  BY <1>1 DEF WindowInv, Summarizing
<1>4. Offloaded(step.messages, step.cut, Section)
  BY DEF Offloaded, C!Section
<1>5. Section \in SUBSET Int
  <2>1. \A i \in 1..step.cut : step.messages[i] \in Request
    <3>1. \A i \in 1..step.cut : i \in 1..Len(step.messages)
      BY <1>0, <1>3
    <3> QED
      BY <1>0, <3>1
  <2>2. \A e \in Request : e.id \in Int
    <3>1. \A e \in Said : e.id \in Int
      BY DEF Said
    <3>2. \A e \in Summaries : e.id \in Int
      BY DEF Summaries
    <3> QED
      BY <3>1, <3>2 DEF Request
  <2> QED
    BY <1>0, <2>1, <2>2 DEF C!Section
<1> HIDE DEF Section
<1>6. WindowTyped'
  BY <1>0, <1>1, <1>2, <1>5 DEF WindowTyped
<1>7. Filed' => result = "ok" /\ historyFile' = Section /\ historyFile \subseteq Section
  BY <1>1 DEF Filed
<1>8. ~fault' => historyFile \subseteq historyFile'
  BY <1>1
<1>9. step'.at = "summary" /\ Filed' => step'.named /\ Offloaded(step.messages, step.cut, historyFile')
  BY <1>2, <1>4, <1>7
<1> QED
  BY <1>0, <1>1, <1>2, <1>6, <1>8, <1>9, FileStep

LEMMA RivalStep == ASSUME WindowInv, C!RivalReads \/ C!RivalWrites PROVE WindowInv'
<1>0. WindowTyped /\ historyFile \in SUBSET Int /\ rival.read \in SUBSET Int
      /\ (step.named \/ step.at = "write" \/ step.at = "read" => backend)
      /\ (step.at = "summary" /\ Filed => step.named /\ Offloaded(step.messages, step.cut, historyFile))
  BY DEF WindowInv, WindowTyped
<1>1. CASE C!RivalReads
  <2>1. /\ rival' = [at |-> "reading", read |-> historyFile]
        /\ UNCHANGED <<backend, transcript, step, rolling, sent, said, evictions, historyFile, fault, unsummarized>>
    BY <1>1 DEF C!RivalReads
  <2>2. WindowTyped'
    BY <1>0, <2>1 DEF WindowTyped
  <2>3. Filed' = Filed
    BY <2>1 DEF Filed
  <2> QED
    BY <1>0, <2>1, <2>2, <2>3, FileStep
<1>2. CASE C!RivalWrites
  <2>1. /\ historyFile' = rival.read \cup {0}
        /\ fault' = (fault \/ ~(historyFile \subseteq rival.read \cup {0}))
        /\ rival' = [at |-> "done", read |-> {}]
        /\ UNCHANGED <<backend, transcript, step, rolling, sent, said, evictions, unsummarized>>
    BY <1>2 DEF C!RivalWrites
  <2>2. WindowTyped'
    BY <1>0, <2>1 DEF WindowTyped
  <2>3. Filed' => Filed /\ historyFile \subseteq historyFile'
    BY <2>1 DEF Filed
  <2>4. ~fault' => historyFile \subseteq historyFile'
    BY <2>1
  <2>5. step'.at = "summary" /\ Filed' => step'.named /\ Offloaded(step.messages, step.cut, historyFile')
    BY <1>0, <2>1, <2>3 DEF Offloaded
  <2> QED
    BY <1>0, <2>1, <2>2, <2>4, <2>5, FileStep
<1> QED
  BY <1>1, <1>2

\* Each message of a request but its summary is held by itself.
LEMMA OwnIs ==
    ASSUME NEW view, NEW s, NEW n, ViewOf(view, s, n), NEW roll, RollingOk(roll, s, n), NEW messages, RolledIs(roll, view, messages)
    PROVE  \A i \in 1..Len(messages) : messages[i].kind # "summary" => messages[i].id \in messages[i].holds
<1>0. view \in Seq(Said) /\ Len(view) \in Nat /\ roll.covered \in Nat /\ roll.summary \in Summaries
  BY DEF ViewOf, RollingOk
<1>1. \A i \in 1..Len(view) : view[i].id \in view[i].holds
  <2>1. \A i \in 1..Len(view) : view[i].holds = {view[i].id}
    BY DEF ViewOf
  <2> QED
    BY <2>1
<1>2. CASE messages = view
  BY <1>1, <1>2
<1>3. CASE roll.covered > 0 /\ roll.covered < Len(view) /\ messages = Rest(roll.summary, view, roll.covered)
  <2> DEFINE c == roll.covered
  <2>1. c \in 1..Len(view)
    BY <1>0, <1>3
  <2> HIDE DEF c
  <2>2. /\ Len(messages) = Len(view) - c + 1 /\ messages[1] = roll.summary
        /\ \A i \in 2..(Len(view) - c + 1) : messages[i] = view[c + i - 1]
    BY <1>0, <1>3, <2>1, RestIs DEF c
  <2>3. roll.summary.kind = "summary"
    BY <1>0 DEF Summaries
  <2>4. \A i \in 1..(Len(view) - c + 1) : i = 1 \/ (i \in 2..(Len(view) - c + 1) /\ c + i - 1 \in 1..Len(view))
    BY <1>0, <2>1
  <2> QED
    BY <1>1, <2>2, <2>3, <2>4
<1> QED
  BY <1>2, <1>3 DEF RolledIs

LEMMA SummarizeStep == ASSUME WindowInv, NEW succeeds \in BOOLEAN, C!Summarize(succeeds) PROVE WindowInv'
<1> DEFINE messages == step.messages
           cut == step.cut
           evicted == SubSeq(messages, 1, cut)
           summary == C!Summary(IF succeeds THEN C!Retold(evicted) ELSE {}, step.named)
<1>0. /\ WindowTyped /\ Grown(transcript, said) /\ RollingOk(rolling, transcript, said)
      /\ Retains(rolling.summary, Behind(rolling), Whole, Filed, historyFile)
      /\ said \in Nat /\ backend \in BOOLEAN /\ unsummarized \in BOOLEAN /\ fault \in BOOLEAN /\ step.named \in BOOLEAN
      /\ messages \in Seq(Request) /\ rolling.summary \in Summaries
      /\ step.named => backend
  BY DEF WindowInv, WindowTyped, RollingOk
<1>1. /\ step.at = "summary" /\ unsummarized' = (unsummarized \/ ~succeeds) /\ step' = C!Resting
      /\ UNCHANGED <<backend, transcript, said, evictions, historyFile, fault, rival>>
      /\ IF succeeds \/ step.named
         THEN rolling' = C!Recorded(evicted, summary) /\ sent' = <<summary>> \o SubSeq(messages, cut + 1, Len(messages))
         ELSE rolling' = rolling /\ sent' = messages
  BY DEF C!Summarize, C!Sends, C!StubAllowed
<1>2. PICK view : ViewOf(view, transcript, said) /\ RolledIs(rolling, view, messages)
  BY <1>1 DEF WindowInv, Summarizing
<1>3. cut \in 1..Len(messages) /\ (cut < Len(messages) => messages[cut + 1].kind # "result")
  BY <1>1 DEF WindowInv, Summarizing
<1>4. Filed => step.named /\ Offloaded(messages, cut, historyFile)
  BY <1>1 DEF WindowInv
<1>5. /\ Whole' => Whole
      /\ Filed' = Filed /\ historyFile' = historyFile
      /\ Whole' /\ (succeeds \/ step.named) => succeeds
      /\ Whole' \in BOOLEAN /\ Filed' \in BOOLEAN
  BY <1>0, <1>1 DEF Whole, Filed
<1>6. /\ step' \in [at : {"idle", "read", "write", "summary"}, messages : Seq(Request), cut : Nat, read : SUBSET Int,
                    named : BOOLEAN, why : {"none", "forced", "again", "needed"}]
      /\ step'.at = "idle" /\ step'.why = "none" /\ step'.named = FALSE
  <2>1. <<>> \in Seq(Request)
    OBVIOUS
  <2> QED
    BY <1>1, <2>1 DEF C!Resting
<1>7. C!PaidAgainForPreviewsOnly'
  BY <1>6 DEF C!PaidAgainForPreviewsOnly
<1>8. Grown(transcript, said)'
  BY <1>0, <1>1 DEF Grown
<1>9. Retains(rolling.summary, Behind(rolling), Whole', Filed', historyFile')
  BY <1>0, <1>5, RetainsLater
<1> HIDE DEF messages, cut
<1>10. CASE ~(succeeds \/ step.named)
  <2>1. rolling' = rolling /\ sent' = messages
    BY <1>1, <1>10
  <2>2. Paired(messages) /\ Covers(messages, transcript, Whole', Filed', historyFile')
    BY <1>0, <1>2, <1>5, <1>9, RolledSound
  <2>3. Paired(sent)' /\ Covers(sent, transcript, Whole, Filed, historyFile)'
    BY <1>1, <2>1, <2>2 DEF Paired, Covers
  <2>4. RollingOk(rolling, transcript, said)' /\ Retains(rolling.summary, Behind(rolling), Whole, Filed, historyFile)'
    <3>1. UNCHANGED <<rolling, transcript, said>>
      BY <1>1, <2>1
    <3>2. RollingOk(rolling, transcript, said)'
      BY <1>0, <3>1, Zenon DEF RollingOk
    <3>3. Behind(rolling)' = Behind(rolling)
      BY <3>1, Zenon DEF Behind
    <3>4. Retains(rolling.summary, Behind(rolling), Whole, Filed, historyFile)'
      BY <1>9, <3>1, <3>3, Zenon DEF Retains
    <3> QED
      BY <3>2, <3>4
  <2>5. WindowTyped'
    BY <1>0, <1>1, <1>5, <1>6, <2>1 DEF WindowTyped
  <2> QED
    BY <1>6, <1>7, <1>8, <2>3, <2>4, <2>5 DEF WindowInv
<1>11. CASE succeeds \/ step.named
  <2>1. \A i \in 1..cut : i \in 1..Len(messages) /\ messages[i] \in Request
    BY <1>0, <1>3
  <2>2. evicted \in Seq(Request) /\ Len(evicted) = cut /\ DOMAIN evicted = 1..cut /\ \A i \in 1..cut : evicted[i] = messages[i]
    <3>1. /\ evicted \in Seq(Request) /\ Len(evicted) = (IF 1 <= cut THEN cut - 1 + 1 ELSE 0)
          /\ \A i \in 1..(cut - 1 + 1) : evicted[i] = messages[1 + i - 1]
      BY <1>3, <2>1, SubSeqProperties
    <3> HIDE DEF evicted
    <3>2. cut - 1 + 1 = cut /\ \A i \in 1..cut : 1 + i - 1 = i
      BY <1>3
    <3>3. Len(evicted) = cut
      BY <1>3, <3>1
    <3> QED
      BY <3>1, <3>2, <3>3
  <2>3. PICK c \in 1..Len(view) :
            /\ c < Len(view) => view[c + 1].kind # "result"
            /\ \A m \in Summaries :
                   /\ C!Recorded(evicted, m) = [covered |-> c, prefix |-> Stamped(view, c), summary |-> m]
                   /\ <<m>> \o SubSeq(messages, cut + 1, Len(messages)) = Rest(m, view, c)
            /\ {view[i].id : i \in 1..c} \subseteq
                   {messages[i].id : i \in {j \in 1..cut : messages[j].kind # "summary"}}
                       \cup (IF messages[1].kind = "summary" THEN Behind(rolling) ELSE {})
            /\ messages[1].kind = "summary" => messages[1] = rolling.summary
    BY <1>0, <1>2, <1>3, RecordedIs
  <2> DEFINE ids == {view[i].id : i \in 1..c}
             own == {messages[i].id : i \in {j \in 1..cut : messages[j].kind # "summary"}}
  <2> HIDE DEF evicted
  <2>4. C!Retold(evicted) = UNION {messages[i].holds : i \in 1..cut}
    <3>1. C!Range(evicted) = {messages[i] : i \in 1..cut}
      BY <2>2 DEF C!Range
    <3> QED
      BY <3>1 DEF C!Retold
  <2>5. C!Retold(evicted) \in SUBSET Int
    <3>1. \A e \in Request : e.holds \in SUBSET Int
      BY DEF Request, Said, Summaries
    <3> QED
      BY <2>1, <2>4, <3>1
  <2>6. /\ summary \in Summaries /\ summary.file = step.named
        /\ succeeds => summary.holds = C!Retold(evicted)
    BY <1>0, <2>5 DEF C!Summary, Summaries
  <2> HIDE DEF summary
  <2>7. own \subseteq C!Retold(evicted)
    <3>1. \A i \in 1..cut : messages[i].kind # "summary" => messages[i].id \in messages[i].holds
      BY <1>0, <1>2, <2>1, OwnIs
    <3> QED
      BY <2>4, <3>1
  <2>8. Whole' => ids \subseteq summary.holds
    <3> SUFFICES ASSUME Whole' PROVE ids \subseteq summary.holds
      OBVIOUS
    <3>1. Behind(rolling) \subseteq rolling.summary.holds
      BY <1>0, <1>5 DEF Retains
    <3>2. messages[1].kind = "summary" => rolling.summary.holds \subseteq C!Retold(evicted)
      <4>1. 1 \in 1..cut
        BY <1>3
      <4> QED
        BY <2>3, <2>4, <4>1
    <3>3. summary.holds = C!Retold(evicted)
      BY <1>5, <1>11, <2>6
    <3>4. ids \subseteq own \cup (IF messages[1].kind = "summary" THEN Behind(rolling) ELSE {})
      BY <2>3
    <3> HIDE DEF ids, own
    <3> QED
      BY <2>7, <3>1, <3>2, <3>3, <3>4
  <2>9. Filed' => summary.file /\ ids \subseteq historyFile'
    <3> SUFFICES ASSUME Filed' PROVE summary.file /\ ids \subseteq historyFile'
      OBVIOUS
    <3>1. step.named /\ Offloaded(messages, cut, historyFile)
      BY <1>4, <1>5
    <3>2. own \subseteq historyFile
      BY <3>1 DEF Offloaded
    <3>3. Behind(rolling) \subseteq historyFile
      BY <1>0, <1>5 DEF Retains
    <3>4. ids \subseteq own \cup (IF messages[1].kind = "summary" THEN Behind(rolling) ELSE {})
      BY <2>3
    <3> HIDE DEF ids, own
    <3> QED
      BY <1>5, <2>6, <3>1, <3>2, <3>3, <3>4
  <2>10. Retains(summary, ids, Whole', Filed', historyFile')
    BY <2>8, <2>9 DEF Retains
  <2>11. /\ rolling' = [covered |-> c, prefix |-> Stamped(view, c), summary |-> summary]
         /\ sent' = Rest(summary, view, c)
    BY <1>1, <1>11, <2>3, <2>6
  <2>12. Paired(Rest(summary, view, c)) /\ Covers(Rest(summary, view, c), transcript, Whole', Filed', historyFile')
    BY <1>2, <1>5, <2>3, <2>6, <2>10, RequestIs
  <2>13. Paired(sent)' /\ Covers(sent, transcript, Whole, Filed, historyFile)'
    BY <1>1, <2>11, <2>12 DEF Paired, Covers
  <2> DEFINE roll == [covered |-> c, prefix |-> Stamped(view, c), summary |-> summary]
  <2>14. RollingOk(roll, transcript, said) /\ Behind(roll) = ids /\ roll.summary = summary
    BY <1>0, <1>2, <2>3, <2>6, RollingAnew
  <2> HIDE DEF ids
  <2>15. rolling' = roll
    BY <2>11
  <2> HIDE DEF roll
  <2>16. Retains(roll.summary, Behind(roll), Whole', Filed', historyFile')
    BY <2>10, <2>14
  <2>17. RollingOk(rolling, transcript, said)' /\ Retains(rolling.summary, Behind(rolling), Whole, Filed, historyFile)'
    BY <1>1, <2>14, <2>15, <2>16 DEF RollingOk, Retains, Behind
  <2>18. Rest(summary, view, c) \in Seq(Request)
    <3>1. view \in Seq(Said)
      BY <1>2 DEF ViewOf
    <3> QED
      BY <2>6, <3>1, RestIs
  <2>19. WindowTyped'
    BY <1>0, <1>1, <1>5, <1>6, <2>11, <2>18 DEF WindowTyped
  <2> QED
    BY <1>6, <1>7, <1>8, <2>13, <2>17, <2>19 DEF WindowInv
<1> QED
  BY <1>10, <1>11

LEMMA WindowStep == WindowInv /\ [C!Next]_(C!window) => WindowInv'
<1> SUFFICES ASSUME WindowInv, [C!Next]_(C!window) PROVE WindowInv'
  OBVIOUS
<1>1. CASE C!AskToCompact \/ UNCHANGED C!window
  <2>1. UNCHANGED <<backend, transcript, step, rolling, sent, said, evictions, historyFile, fault, rival, unsummarized>>
    BY <1>1 DEF C!AskToCompact, C!window
  <2>2. WindowTyped' /\ Filed' = Filed
    BY <2>1 DEF WindowInv, WindowTyped, Filed
  <2>3. /\ step.named \/ step.at = "write" \/ step.at = "read" => backend
        /\ step.at = "summary" /\ Filed => step.named /\ Offloaded(step.messages, step.cut, historyFile)
    BY DEF WindowInv
  <2> QED
    BY <2>1, <2>2, <2>3, FileStep
<1> QED
  BY <1>1, RecoverStep, ModelCallStep, RivalStep, GrowStep, ReadStep, WriteStep, SummarizeStep DEF C!Next

LEMMA WindowSound == WindowInv => C!RequestIsPaired /\ C!NothingForgotten /\ C!PaidAgainForPreviewsOnly
<1> SUFFICES ASSUME WindowInv PROVE C!RequestIsPaired /\ C!NothingForgotten /\ C!PaidAgainForPreviewsOnly
  OBVIOUS
<1>0. /\ WindowTyped /\ Paired(sent) /\ C!PaidAgainForPreviewsOnly /\ transcript \in Seq(Said)
      /\ (sent # <<>> => Covers(sent, transcript, Whole, Filed, historyFile)) /\ sent \in Seq(Request)
  BY DEF WindowInv, WindowTyped, Grown
<1>1. DOMAIN sent = 1..Len(sent) /\ DOMAIN transcript = 1..Len(transcript)
  BY <1>0
<1>2. C!RequestIsPaired
  BY <1>0, <1>1 DEF Paired, Follows, C!RequestIsPaired
<1>3. ASSUME sent # <<>>, ~(unsummarized /\ fault), NEW j \in 1..Len(transcript)
      PROVE  transcript[j].id \in C!Held(sent)
  <2>1. Whole \/ Filed
    BY <1>0, <1>3 DEF Whole, Filed, WindowTyped
  <2>2. (\E i \in 1..Len(sent) : transcript[j].id \in sent[i].holds) \/ (transcript[j].id \in historyFile /\ \E i \in 1..Len(sent) : sent[i].file)
    BY <1>0, <1>3, <2>1 DEF Covers
  <2> QED
    BY <1>1, <2>2 DEF C!Held
<1>4. C!NothingForgotten
  BY <1>1, <1>3 DEF C!NothingForgotten, C!Ids
<1> QED
  BY <1>0, <1>2, <1>4

\* What every part keeps, whichever is at work.
Kept == CallInv /\ EditsInv /\ OffloadInv /\ SessionInv /\ OnionInv /\ PipelineInv /\ GraphInv /\ StoreInv /\ WindowInv

LEMMA KeptAlways == Spec => []Kept
<1>1. Init => Kept
  BY CallStart, FilesStart, SessionStart, OnionStart, PipelineStart, GraphStart, StoreStart, WindowStart DEF Init, Kept, SessionInv
<1>2. Kept /\ [Next]_vars => Kept'
  <2> SUFFICES ASSUME Kept, [Next]_vars PROVE Kept'
    OBVIOUS
  <2>1. /\ [T!Next]_(T!vars) /\ [R!Next]_(R!store) /\ [M!Next]_(M!onion) /\ [C!Next]_(C!window)
        /\ [F!Next]_(F!files) /\ [A!Next]_(A!turnVars) /\ [P!Next]_(P!pipeline) /\ [G!Next]_(G!graphVars)
    BY Apart
  <2>2. CallInv' /\ EditsInv' /\ OffloadInv' /\ SessionInv'
    BY <2>1, CallStep, EditsStep, OffloadStep, SessionStep DEF Kept
  <2>3. OnionInv' /\ PipelineInv' /\ GraphInv' /\ StoreInv' /\ WindowInv'
    BY <2>1, OnionStep, PipelineStep, GraphStep, StoreStep, WindowStep DEF Kept
  <2> QED
    BY <2>2, <2>3 DEF Kept
<1> QED
  BY <1>1, <1>2, PTL DEF Spec

\* Whatever tools, gates, edits and runs there are: a tool runs only behind every
\* gate that applies, no write lands on a change its run has not seen, and a run
\* is primed with its session's state once.
THEOREM GuardsHold == Spec => []TurnGuards
<1>1. Kept => TurnGuards
  BY CallSound, FilesSound, SessionSound DEF Kept, TurnGuards
<1> QED
  BY <1>1, KeptAlways, PTL

\* For any number of layers, calls and crashes: an effect, a modifier, a hook, a
\* report happens once, the calls of the model at most double with each layer that
\* may retry, and what a node did is repeated only after a crash.
THEOREM WhatMustHappenHappensOnce == Spec => []OncePerCall
<1>1. Kept => OncePerCall
  <2>1. Kept => C!PaidAgainForPreviewsOnly
    BY WindowSound DEF Kept
  <2>2. Kept => T!OneEffect /\ P!CallsAreReported /\ G!RepeatsOnlyAfterCrash
    BY CallSound, PipelineSound, GraphSound DEF Kept
  <2>3. Kept => M!CallsAreBounded /\ M!OnlyTheProviderFails /\ M!PromptIsModifiedOnce /\ M!HooksInOrder
    BY OnionSound DEF Kept
  <2> QED
    BY <2>1, <2>2, <2>3 DEF OncePerCall
<1> QED
  BY <1>1, KeptAlways, PTL

\* For transcripts, stores and histories of any length: stored results stay within
\* their bounds behind the same handle, requests are paired and hold or name all
\* that was said, and what a session remembers is what its user was told.
THEOREM NothingIsMisremembered == Spec => []NothingMisremembered
<1>1. Kept => NothingMisremembered
  <2>1. Kept => R!WithinBounds /\ R!HandleIsKept /\ C!RequestIsPaired /\ C!NothingForgotten
    BY StoreSound, WindowSound DEF Kept
  <2>2. Kept => F!OffloadsAreKept /\ A!HistoryIsWhatWasTold /\ A!HeardInOrder
    BY FilesSound, SessionSound DEF Kept
  <2>3. Kept => P!ExchangesKept /\ G!EditReachesReply
    BY PipelineSound, GraphSound DEF Kept
  <2> QED
    BY <2>1, <2>2, <2>3 DEF NothingMisremembered
<1> QED
  BY <1>1, KeptAlways, PTL

\* The pipeline never goes back on a goal it reached, nor on a step of its loop.
THEOREM GoalsStayReached == Spec => P!GoalStaysReached
<1>1. Kept /\ [Next]_vars => [session.goalAt => session'.goalAt /\ (at = "goal" => session'.goal) /\ loop' <= loop]_(P!pipeline)
  BY Apart, GoalKept DEF Kept
<1> QED
  BY <1>1, KeptAlways, PTL DEF Spec, P!GoalStaysReached
=============================================================================
