# agent-forge-sdk in TLA+

TLA+ modules that model the behaviour of agent-forge-sdk, the TLC configurations
that check them on small instances, and theorems about them that the TLA+ proof
system checks. Every definition is translated from the TypeScript under
`src/src/`; `PROJECT.json` names the lines each of them stands for.

All of the program runs on Node's event loop. A stretch of code from one `await`
to the next is therefore one action, and every `await` (a store, a checkpointer,
a tool, a model, another process) is a place where other calls, a failure or a
restart come in. That is where the hard behaviour of this code is, and what the
models keep; prompts, payloads, wording, logging and layout are abstracted away.

1. [Inventory](#1-inventory): the parts, and which module has which
2. [Modules](#2-modules): state and actions against the code
3. [Runs](#3-runs): what is checked, bounds, fairness
4. [Where documentation and code disagree](#4-where-documentation-and-code-disagree)
5. [Theorems](#5-theorems)
6. [Not modelled, and the plan](#6-not-modelled-and-the-plan)

## 1. Inventory

| Component | State | Operations | Hard behaviour | What makes it correct | Modules |
|---|---|---|---|---|---|
| Human review queue `patterns/candidate.ts` | the candidate records of a store | submit, a reviewer's decision, `executeApproved` | racing executors, redelivery, crashes and store failures between any two awaits, tools that act after timing out | one owner, at most one effect, exactly the decided payload, bounded retries, the documented lifecycle | `Candidates` `ReviewedEffect` |
| Graph engine `graph/compiled.ts`, `checkpointer.ts`, `reducers.ts` | the checkpoints of a thread; the locals of every call | `invoke`/`stream`, `updateState`, the node loop, fan-out and join | concurrent calls without a lock, edits racing resumes, failing branches, step limits, crashes | gates hold, pauses are invisible, steps are accounted for, calls return | `GraphEngine` `GraphResume` `GraphWalk` |
| Durable step handler `runtime/durable.ts`, `contract.ts` | the graph's checkpoints | one turn of a run, guarded against redelivery | lost answers, retries, overlapping deliveries, restarts | no gate without approval, a resume continues, the worker learns the outcome | `DurableStep` |
| Agent server `runtime/serve.ts` | `keyedTurns`, hang-up signals, spans | `/v1/invoke`, `/v1/execute-candidate`, A2A, `close()` | retries joining a turn, eviction, late failures, callers who leave, handlers and exporters that throw | a turn is paid for once, no work for nobody, a human's approval is answered with its outcome | `KeyedTurns` `Routes` |
| Sandbox server `runtime/sandbox-server.ts`, `tools/sandbox/` | a chain of commands, a count of the queued ones | run a command | the queue at its bound, callers who leave, timeouts | commands never overlap, results are whole, the queue drains | `Workspace` |
| Logs, traces, prompt `runtime/logs.ts`, `traced-provider.ts`, `prompt.ts` | buffers, spans by run, the current prompt | log, flush, close; wrap a call; poll | overlapping posts, streams left half way, answers overtaking each other | every line and call once, a known prompt | `LogShipper` `TracedCalls` `PromptDelivery` |
| LLM resilience, replay `llm/resilience.ts`, `vcr.ts` | breaker state and counts; a cassette | retry, trip, probe; record, replay | results of calls that outlive a change of state; two recordings of one request | open means no calls, the circuit closes again; replay is hermetic | `Breaker` `VCR` |
| Agent, sessions, events `agent.ts`, `session/`, `events/` | sessions, the event queue | run, stream, read-run-write of a session | concurrent runs of a session, eviction, readers who leave | no lost exchange, every event once, streams end | `Sessions` |
| Coordinator, tasks `coordinator/`, `tasks/task.ts` | batches, outcomes; the task table | dispatch, barriers, transitions | workers that throw; updates after a terminal state | barriers order writes, one verdict for a task | `Coordinator` `TaskTable` |
| Tool registry `tools/tool-registry.ts`, `tool.ts`, human in the loop, result store | registered tools and their wrappings; kept results and counters | execute, authorize, approve, time out; put, read, sweep | a timeout racing the tool, wrapping again on every run, layers that throw, counters that are dropped | nothing acts against a verdict or twice, calls return, a handle names one result | `ToolCall` `ResultStore` |
| Middleware stack `middleware/stack.ts` | the layers | the onion of model and tool calls, hooks | a layer that throws after it has called the next | who is called how often, prompts modified once | `MiddlewareStack` `ToolCall` |
| Context management `context-summarization.ts`, eviction, patching, `context-recovery.ts` | the rolling summary, the history file, offloaded results | shorten a request, offload, summarize | several runs on one file, failing reads, summaries that fail | requests are paired, nothing said is out of reach | `ContextWindow` `AgentLoop` |
| File tools `middleware/builtin/filesystem.ts`, `tools/safe-edit.ts` | versions read, offload counter | read, write, edit | others change the file between check and write; restarts | nothing unseen is overwritten | `FileEdits` |
| Adaptive runner `pipeline/adaptive-runner.ts` | the transcript, counters, disclosed tools; delegation slots; history | a run from its session to its history; the agentic loop | rails checked in one place and passed by in others, a transcript edited on every path, batches, overlapping runs | transcripts are paired, writers run alone, rails stop the loop, every run answers, the history is what was told | `AgentLoop` `RunTurn` `Subagents` |
| Deprecated pipeline `pipeline/runner.ts`, `phases/`, and as a graph `graph/pipeline-graph.ts` | the session's goal, facts and history | the phases in order | any phase fails; pauses, edits and crashes of the graph | exchanges are kept, the goal stays, repeats only after a crash | `Pipeline` `PipelineGraph` |
| Simple agent `simple-agent.ts` | the loop's locals; fields shared by its runs | a run | caps and batches, a shared signal, compaction | as the adaptive runner | `SimpleLoop` |
| Tree search `reasoning/tree-search.ts` | a tree per engine, a counter per process | expand, simulate, execute, backpropagate, backtrack | overlapping searches, failures in the middle | the best path is what was done, visits add up, searches end | `TreeSearch` |
| Sub-agents `async-subagents.ts`, `subagent-isolation.ts`, the runner's `delegate` | task records and workers; the array of results; slots | start, cancel, delegate | cancel against a late answer, promises nobody awaits, tools registered anew by each run | records tell the truth, bounds hold, reports are the run's own | `AsyncSubAgents` `Subagents` |
| Multi-agent `middleware/builtin/multi-agent.ts` | subscriptions by kind; steps at the service | claim, poll, clean up | two claimants, runs sharing a map | one owner of a step, nothing that arrives is lost | `StepClaims` |
| Minns tools, workflow graphs `minns-power.ts`, `vibe-graph.ts` | subscriptions by label; the plan and its walk | query, write, subscribe; plan, compile, walk | runs sharing a map; forks and joins from a plan a model wrote | groups are kept, nothing is left behind; roles in order | `PowerTools` `VibeGraph` |
| Minns checkpointer `graph/minns-checkpointer.ts` | a list over a remote graph | save, load, list, clear | saves that overlap, restarts | the own save stands, the chain is a line | `RemoteCheckpoints` |
| LLM providers `llm/openai-provider.ts`, `anthropic-provider.ts` | what a streamed turn has heard, whether it has been billed | read chunks, yield deltas, hand out the response, clean up | a connection cut at any chunk, a reader who leaves at any yield, a timer | billed once, words whole, no cut call runs, nothing left open | `ProviderStream` |
| Other patterns, memory, directives, scanning, command line, built-in tools, MCP, reasoning helpers, other middleware | little, or that of an external service | prompts, protocol clients, file and console I/O | | | none, see section 6 |

Who talks to whom: a worker outside the repository drives `serve.ts` over HTTP;
`serve.ts` calls the step handler of `durable.ts`, which calls the graph engine,
which loads and saves through a checkpointer; or it calls `agent.ts`, which reads a
session, has the adaptive runner run it, and saves it. The runner goes through the
middleware stack to the model and through the registry (and the stack again) to
the tools. A human decides in three places: on a paused graph (through the worker),
on candidates (through a store the server's `execute-candidate` route reads), and on
gated tool calls. What these interactions have in common is that one object serves
several runs: the registry, a middleware instance, the engine of the tree search,
the session. Most of the hard behaviour listed above is two runs meeting in one.

`PROJECT.json` lists the hazards of this code, each at its line, with the
properties that cover it.

## 2. Modules

| Module | Models | State and actions against the code |
|---|---|---|
| `Candidates` | `patterns/candidate.ts` | `store` is the `CandidateStore`; `pc`, `target`, `held`, `ok` are where each `executeApproved()` call is and its locals; `effects` is the outside world. One action per stretch between awaits: `ExecGet`, `ExecClaim`/`ExecDenied`, `ExecRun`, `ExecSettle`; `Abandon` is a crash or a store rejection at any of these awaits |
| `ReviewedEffect` | the contract of the queue | one verdict per proposal, then at most one effect, of exactly that payload. `Candidates` implements it under the mapping `VerdictOf` |
| `GraphEngine` | `compiled.ts`, `InMemoryCheckpointer`, reducers | `checkpoints` is the thread's list; `run[c]` the locals of one call of `executeGraph`; `edit` the `updateState()` calls. The state a graph carries is a bag: how many updates of each node and edit have been merged into it |
| `GraphWalk`, `GraphResume` | the contract of the engine; one driver of one thread | `GraphWalk` is a walk along the edges, without calls, checkpoints or pauses; `GraphResume` invokes, edits and invokes again until the run completes, and implements it |
| `DurableStep` | `durable.ts` over `GraphEngine`, with the retrying worker | extends `GraphEngine`; `turn` is the step handler, `kept` what the server remembers of keyed turns, `worker` and `step` the external worker (modelled from `contract.ts`), `approved` what humans have agreed to |
| `KeyedTurns` | `/v1/invoke` of `serve.ts` | `keyedTurns` is the map in insertion order, `turn` the promises, `request` what each open request awaits, `hungUp` the aborted signals |
| `Routes` | the other routes, flushes, `close()` | `ask`, `at`, `answer` are a request's body, stage and response; `spans` and `exported` the telemetry; a handler, a flush or the body may fail |
| `Workspace` | `HttpSandbox`, the `/exec` route, `LocalSandbox` | `job[e].follows` is the promise a command waits for, as the code chains them; `queued`, `busy` are the counters the 429 and `/healthz` go by |
| `LogShipper` | `runtime/logs.ts` | the buffer, the posts in flight, the lines that arrived |
| `TracedCalls` | `traced-provider.ts`, `run-context.ts` | spans by call, the tool definitions seen by run |
| `ProviderStream` | `streamWithTools` of both providers, `judgeTurn` | `heard` is what has arrived, with a call's arguments none, cut or whole; `body` is where the generator stands, `metered` what `onUsage` was told; the server (external) sends chunks in its order and stops at any |
| `PromptDelivery` | `runtime/prompt.ts` | fetches in flight carry the version their answer will have |
| `Breaker` | `resilience.ts` | the breaker around the retry, as `createResilientRunner` nests them; time is `age`, counted up to the cooldown |
| `VCR` | `llm/vcr.ts` | the cassette; an answer is named after the call that fetched it |
| `Sessions` | `agent.ts`, the store, the emitter | the store hands out references, so a session is named after the run that made it; streams have a queue and a reader |
| `Coordinator`, `TaskTable` | `coordinator.ts`; `task.ts` | batches still to run, workers running, outcomes; copies that actors hold of a task while others move it on |
| `ToolCall` | `ToolRegistry.execute`, the onion of tool calls, `HumanInTheLoopMiddleware` | `call[c]` walks in through the layers, the checks and the gates to the handler, and out again; `gates` counts how often the registered tool has been wrapped; `TimeOut` races the handler |
| `ResultStore` | `tools/result-store.ts` | the kept results in the order of the Map; time is the age of an entry |
| `MiddlewareStack` | `middleware/stack.ts` around a model call | `frames` are the layers entered and not left, each in its own body or in the catch around it |
| `ContextWindow` | the context middleware in their recommended order | `sent` is the last request; the transcript grows and is shortened anew at every step; `file` is the offloaded history, which a rival run writes too |
| `FileEdits` | `filesystem.ts`, `safe-edit.ts` | a content is the set of changes in it, and its version itself; others write between any two awaits |
| `AgentLoop` | `runAgenticLoop` with `completeWithToolsRecovering`, `judgeTurn`, `planToolBatches`, `recoverContext` | the function's locals under their own names, `pc` the await it stands at. A message keeps its role and which call it asks for or answers. The provider is external: it answers a transcript whose calls and results are paired, and turns down any other |
| `RunTurn` | `runInContext` around that loop | runs of one session through their phases; the loop is one step that stops in any of its ways |
| `Pipeline` | `pipeline/runner.ts` and its phases | consecutive messages; every phase works or throws; `session` is what the next message finds |
| `PipelineGraph` | `graph/pipeline-graph.ts` | the nodes of the prebuilt graph, its documented pause, an edited plan, crashes; `effects` is what has gone out |
| `SimpleLoop` | `simple-agent.ts` | both loops of one run; another run of the same agent is a neighbour that replaces the signal and discloses tools between any two steps |
| `TreeSearch` | `reasoning/tree-search.ts` | `tree`, `rootId`, `nodeCounter` are the engine's, `search[s]` the locals of each call of `search()`; a walk over parents that cannot end is `hung` |
| `StepClaims` | `multi-agent.ts` | the service's step and subscriptions (external), the middleware's map, each run's clean-up iterator |
| `Subagents` | `subagent-isolation.ts`, the runner's `delegate` | `registered` is the run whose tool the shared registry holds; `activeDelegations` the semaphore |
| `AsyncSubAgents` | `async-subagents.ts` | `task` are the records, `listed` the map of them, `worker[i].awaits` what the worker's promise waits for |
| `PowerTools` | `minns-power.ts` | the map from labels to subscriptions in insertion order, which iteration follows; the rows and groups of the service (external) |
| `VibeGraph` | `vibe-graph.ts` over `graph.ts` and `compiled.ts` | the stages of planning, then compilation (`JoinOfStarters`, `Targets`, `After`) and the walk with its merges |
| `RemoteCheckpoints` | `minns-checkpointer.ts` | the list, the graph's nodes and edges, the save each writer awaits |
| `Candidates_proofs`, `GraphEngine_proofs`, `AgentLoop_proofs`, `TreeSearch_proofs` | | the theorems about these modules (those about `DurableStep` are in `GraphEngine_proofs`); `Services`, `Turn` and `Agents` have at their end those about their parts |
| `Induction` | | induction over numbers and finite sets, and over the folds of the community modules, for the proofs |
| `MCGraphEngine`, `MCAgentLoop` | | the graphs, the tools and the turns the runs use |
| `Services`, `Turn`, `Agents` | | compositions, next section; `Agents` extends `KeyedTurns` and instantiates the others |

A definition whose comment starts with `Mutant:` is a deliberately broken variant
of the definition below it, a plausible mistake in that code. No specification
uses one; each shows that a property of the runs would notice the mistake.

## 3. Runs

| Run | Checks | Shows |
|---|---|---|
| `candidates` | `OneOwner` `ExactlyOnce` `BoundedRetry` `HumanDecides` `IInv` `Lifecycle` `ImplementsContract` `Settles` | however executors race, crash, retry and lose their store calls, a candidate has one owner, at most one effect (as many as attempts if its tool acts after a timeout), of the payload the human decided, along the documented lifecycle; an approved candidate is settled in the end or left in `executing` by an executor that died |
| `graph_gate` | `GateHeld` `IInv` | two calls and an edit interleaved: a gated node runs only on a resumed pause at that node, with exactly the state and step count the pause saved |
| `graph_fork` | `StepsAccounted` `CallReturns` | fan-outs with failing branches, pauses, an edit and a crash: the step count covers every update and passes the limit by one fan-out at the most; every call returns |
| `graph_resume` | `PausesAreInvisible` | however a run is cut up by pauses, edits and resumes, its calls together are one walk of the graph |
| `durable_keyed` | `GateApproved` `ResumeContinues` `WorkerFinishes` | with idempotency keys, no lost answer, overlap, failure or (on the first turn) restart walks the run through a gate nobody approved; while no turn has failed, a resume never starts the run over; whatever is lost or restarted, the worker learns the outcome |
| `agent_loop` | `AlwaysPaired` `WritersAlone` `CapHolds` `NeverStuck` `NothingRunsUnseen` `RailsHold` `AnswersInTheEnd` | through caps, refusals, cut-off turns, parallel batches, failures and dropped turns every model call gets a transcript a provider accepts; two mutations never race; the cap on executions is hard; a withheld tool runs only once surfaced; a fired rail lets no turn begin; the run returns with words |
| `services` | `QueueSound` `NothingLost` `GuardsHold` `ServicesMoveOn` | the workspace runs one command at a time and says so; log lines, exchanges, events, outcomes, spans and answers are kept, a streamed turn is billed once; an open circuit, a write barrier, a finished task and a tape stay shut, half a tool call does not run; queues drain, streams end, the circuit closes again, the last prompt is found |
| `turn` | `TurnGuards` `OncePerCall` `NothingMisremembered` `TurnsEnd` | no tool acts against a verdict and no file is overwritten unseen; an effect, a result, a prompt modifier, a hook happen once, and what may be repeated is bounded by what went wrong; what model, user and session are told later is what was said; calls, runs and messages end |
| `agents` | `AgentsKeepBounds` `AgentsTellTheTruth` `NothingLeftBehind` `WorkflowsFollowTheirPlan` `PaidOnce` `MapIsSound` `NoOrphans` `ForgetsOnlyItsOwn` `AgentsAnswer` | caps, slots and cancels of the other agents hold; transcripts, paths, records and reports are true; subscriptions, groups and checkpoints of runs that overlap stay apart; a workflow runs in the order of its plan; keyed turns are paid once; a turn that runs is awaited, keyed or told to stop, and none that somebody wants is told to stop; workers and requests come to an end |
| `graph_resume_fork` | `PausesAreInvisible`, violated | a pause after the source of a fan-out resumes at the end: the branches never run |
| `durable_overlap` | `GateApproved`, violated | unkeyed and retried while it runs, a first turn walks through its own pause |
| `workflow_join` | `JoinFindsAll`, violated | the role at the join of two branches finds the output of the last one only |

The three compositions put components side by side that share no state: a behaviour
is one of them at work, chosen by `part` in the initial state, and the others at rest
in an initial state. A conjunct about a component therefore speaks of the behaviours
in which it works, and nothing is gained or lost by checking them together; where a
conjunct would be false of a component at rest or of another instance of the same
module (`StepClaims`, `Subagents` and `PowerTools` have two each), it says for which
`part` it is meant. What these components do hand to each other is an input of the
receiving one: a run's loop, which stops in any way, in `RunTurn`; verdicts in
`ToolCall`; a rival run in `ContextWindow`. The properties of a composition name the
modules' own (`W!OneAtATime`), where each is stated and explained.

Bounds. `candidates`: two candidates, since records touch each other nowhere and
one of them may time out while the other may not; two executors, enough for every
race over a claim, with three attempts, so that a failure, a retry and the limit
all happen, and two edits. `graph_gate`: the loop goes round often enough within
three steps to pause, resume and pass the gate again; one checkpoint is kept, so
every save evicts. `graph_fork`: six steps let the fan-out run twice and jump over
the limit. `graph_resume`: a choice, a fan-out and a loop, pauses before and after,
two edits. `durable_*`: three turns after the first give a gate to resume, one to be
wrongly resumed, and one beyond; two calls overlap, and two turns fail or are lost
to a restart. `agent_loop`: three steps are the fewest in which a model is cut
off once too often, the same answer comes three times over several turns, and old
turns are dropped from the transcript; the turns asked for hold a writer between
readers, a withheld tool before and after it is found, and a made-up name; six calls
and a budget of one are both reached.

`services`: three commands, of which one may run and one wait, reach the 429; four lines in batches of
two fill a batch while another is in flight; two thresholds of two need a failure, or
a success, that is not yet decisive; three runs, two of one session, overlap, and a
store of one entry evicts a session in use; four tasks hold a barrier between reads;
two tool calls and two words let a streamed turn be cut within either call, between and after them.
`turn`: one tool call through two layers, so that a throw inside and outside differ; two gates, the second
of which is the one a second run adds; results of three sizes against a bound of four
bytes, two per run and two counters; a context that is shortened at four messages and
keeps one; three changes of a file by others; two overlapping runs with a history of
one exchange; a pipeline whose history is bounded by three messages, an odd number, so that it begins with half an exchange; two messages with loops of two steps; one crash. `agents`:
two runs that meet in every object they share; plans of one to five roles: a chain, a
role passed over, starters, forks that join, part or end, and a loop; three background
tasks with room for two and two steps, so that a slot is freed by a cancel, a cancelled
worker could go on, and a record is evicted; three turns with room for one, so that an
entry is evicted, its key started again, and the first turn fails last.

Named bounds that the code does not have: `MaxCrashes`, `MaxTurns`, `MaxEvents`,
`MaxSubs`, `MaxCalls`, `MaxSaves`, `MaxRestarts`, `MaxPuts`, `MaxChanges`,
`MaxOffloads`, `MaxGates`, and the sets of ids, calls, runs, turns and tasks.

Fairness. `candidates`: a running call gets its answers (weak); a runnable candidate
is delivered again (weak), which is the control plane's retry; claims are strongly
fair, that is, the store does not reject every claim for ever. `graph_fork`: weak
fairness of each call's steps: node functions settle and the event loop gets round
to every promise; nobody has to call or edit. `durable_keyed`: the worker retries for
ever (the contract's retry), humans decide, handlers go on. `agent_loop`: the model
answers or its call fails, and tools settle, which their deadline sees to unless it is
switched off; nobody need abort. `services`: commands end, since they are killed at
their timeout; timers fire; posts, attempts, handlers and runs settle; a stream that is
not left is read, and a turn whose timer has fired is read or left; callers of a broken circuit keep calling; and, strongly, a provider
that is asked for the prompt again and again answers some time. `turn`: the registry
goes on by itself and its deadline is a timer, while handlers and the humans at the
gates need not answer; the phases of a run and of the pipeline settle. `agents`: the
calls of a background worker settle, handlers settle, responses are written; callers
need not hang up or retry. All of it is stated per component, on the component's own
variables.

Deadlock is checked in the graph runs with free calls. It is off where the system
may rest: no candidate left to decide, the driver finished, the worker done, the run
returned, all turns, tasks or calls of the bound used up.

What the environment is trusted with: a dashboard decides on pending candidates
only (`resolve()` itself does not look at the status; a late second decision would
make an executing candidate runnable again); a worker sends one turn of a run after
the other; a run that has paused after its last node and completed is not called
again (`invoke()` would complete again on the same checkpoint); the workflow service
refuses a transition that is not allowed, and the knowledge service honours the group
a request carries.

## 4. Where documentation and code disagree

The three violation runs each quote the line they refute (`PROJECT.json`, findings).
What follows was met while modelling, is reproduced by the models' actions, and is not
the subject of a run. Where a property has to leave such a case out, its comment says so.

Graphs and durable turns
- A gated node that is a branch of a fan-out runs unpaused: `interruptBefore` is looked
  at in the main loop only (`compiled.ts:385`); `GateHeld` speaks of the other nodes.
- After a crash `invoke()` starts over from the entry point, although a checkpoint
  of every node is there (`compiled.ts:82`, against the comment at `compiled.ts:37`);
  hence `ResumeContinues` speaks of turns none of which has failed.
- A fan-out counts its branches after they have run, so more nodes than `maxSteps`
  may execute (`compiled.ts:405`); `StepsAccounted` has the true bound.
- `updateState()` checks, awaits and saves: after a resume in between it puts the
  old pause back on top (`compiled.ts:193-216`).
- A thread paused after its last node stays interrupted when its run completes: a later
  `invoke()` completes at once on the old state (`compiled.ts:88`).
- Without idempotency keys, a resume delivered again after a lost answer resumes the
  next pause (`durable.ts:62`). With keys the same happens after a restart, which
  forgets them: `GateApproved` holds for keyed workers, for the first turn always
  and for a resume until the first restart.
- `pipeline-graph.ts:52` calls the graph a superset of the linear pipeline. It never
  skips auto-storing, has no tree search and no middleware, and the engine works on a
  clone, so the caller's `SessionState` stays as it was. A plan that is edited in the
  documented pause reaches the reply, but the action loop does not read it. A crash
  repeats what was sent.
- `minns-checkpointer.ts:86` announces recovery by query; `load()` never returns what the
  service knows, so a restart loses the thread, and without the local cache nothing is
  ever resumed. Two saves that overlap may be listed in the order of their answers;
  `clear()` leaves the nodes in the graph. `ChainIsALine` and `OwnSaveStands` say what
  remains.
- `vibe-graph.ts`: besides the finding, a plan in which every role starts is legal by
  the prompt of its second stage and does not compile; edges of starters that run
  together are dropped; branches that part join at the first downstream role only, and
  the others never run although the workflow is a success; of several edges without
  condition only the first is followed; a walk that runs out of steps is a success. The
  workflow is not persisted, against line 589.

The agentic loop
- A tool result that `JSON.stringify` refuses is passed on by `capResultSize`
  (`tool.ts:223`, "leave as-is for the caller"); the repetition guard then throws
  (`adaptive-runner.ts:1180`) with the calls of the turn in the transcript and none of
  their results, so that the wrap-up call is turned down and the run ends with the
  fixed apology. `adaptive-runner.ts:1099` says "Every tool_use still gets a result";
  `AlwaysPaired` excludes this case.
- A fired signal is not looked at between tool batches (`adaptive-runner.ts:553` says
  it is), nor before the last words of a reached goal or, when the loop ends for
  another reason, before the wrap-up; the last words are asked for over budget as
  well. `RailsHold` says what remains: no further turn begins.
- The last words and the wrap-up are not judged: a refusal there is returned as the
  run's answer, with success (`adaptive-runner.ts:1068`: "never a success").
- `delegate` declares no effect and is taken to write, so the workers of one turn run
  one after the other; its description says "to run workers in parallel"
  (`adaptive-runner.ts:477`). The cap on workers matters between runs only.
- A tool that missed its deadline runs on, and the next writer of the turn beside it
  (`tool-registry.ts:374`; `adaptive-runner.ts:1119`: "two mutations never race");
  `WritersAlone` speaks of calls that have not come back.
- The self-critique may replace a reply whose words have been streamed already. The
  complexity of a message is assessed, and paid for, and decides nothing when there is a
  tree search; what the tree search did, the loop starts anew (`RunTurn`).
- `simple-agent.ts:455` speaks of a hard cap on tool calls; the native loop looks at it
  before a batch and passes it by the rest of the batch (`CapHolds`). `simple-agent.ts:721`
  says "EVERY tool_use id gets a result"; compaction by the model keeps the last messages,
  which may be results without their calls (`RequestsPaired` ends there). The signal and
  the tools found belong to the agent, so a second run takes the first one's cancel away.
- Two searches that overlap on one engine share its tree, and each starts the process-wide
  node counter anew: a node may become its own parent, and the loop over parents
  (`tree-search.ts:562`) then never ends, which holds the whole
  process. `adaptive-runner.ts:575` says that concurrent runs "never cross wires".
  `WalksEnd` speaks of searches that do not overlap.

Tools, middleware, context
- What is pending is kept as its reason (`tool-registry.ts:231`): a tool's own check that asks
  with an empty reason takes back the policy's ask, and the tool runs unapproved, though line 213
  says that it "never loosens an ask back to allow" (`NeverLoosened`, which is not checked;
  `GatesHold` upholds every other verdict).
- `HumanInTheLoopMiddleware` wraps the tool in the shared registry on every run: in the
  n-th run the human is asked n times. An edited call is not validated or authorized
  again, and an approval that comes after the tool's deadline still makes it act.
- A layer of the model's onion that throws after it called `next` has `next` called again
  (`stack.ts:285`): k layers make up to 2^k calls of a failing provider, and words are
  streamed again. Errors of the provider are reported as the middleware's.
- Evicted results are kept in a map that nothing reads; the number in the preview counts
  up at each call, so the summary's fingerprint never matches and a summary is paid for
  at each step (`PaidAgainForPreviewsOnly`).
- `offloadMessages` takes a read that throws for an absent file and overwrites the history,
  and does not look at a write's `success: false`; two runs of a session overwrite each
  other. `NothingForgotten` says under which failures something is out of reach.
- `write_file` overwrites unchecked when its read fails; `guardedEdit` records the new
  version before the write has succeeded; offload paths start from 1 after a restart.
- A counter of `ResultStore` may be dropped with its run's last result, and the next handle
  then repeats an earlier one (`HandleIsKept`).

Server and services
- A keyed turn that still runs can be evicted and then started again
  (`serve.ts:239`); `PaidOnce` is stated for as many keys as the map has room for.
- Cancelling a background task frees its slot while its worker goes on to its next
  step (`async-subagents.ts:121`), and the late answer turns the cancelled task into a
  success or an error, though `async-subagents.ts:377` says "stop a running task"
  (`CancelIsFinal`, which is not checked).
- A caller of the sandbox server who leaves while its command is queued is not noticed, and
  the command runs; `sandbox-server.ts:20` says "killed when the caller goes away"
  (`KilledWhenCallerLeaves`, which is not checked).
- Two first runs of a session each make one, and one of the histories is lost
  (`agent.ts:154`); `ExchangesKept` leaves sessions begun twice out.
- `approval.ts` answers with its fallback as soon as the request is posted: nobody is
  waited for. `resilience.ts:83` takes an error whose name has "abort" in it for a transient
  one, while `AbortError` is there so that a cancel is not retried (line 28).
- A prompt whose service sends no version is updated once only (`prompt.ts:92`). A model
  stream that is left half way records no span.
- A turn that is aborted behind its usage chunk is billed by the estimate, though
  `openai-provider.ts:519` says "Prefer the authoritative usage chunk whenever it arrives"
  (the chunk is forgotten with the `try`). A connection closed behind a tool's name, before
  any of its arguments, passes for a call without arguments and runs
  (`CutCallNeverRuns` says so). The text stream of the OpenAI provider bills nothing.
- Claims of workflow steps carry no agent, and completing a step does not ask for a claim;
  `check_messages` marks nothing as read; what a poll drained before a later subscription
  failed is lost (`UpdatesAreHeard`).
- `table_delete` is sent without the group (`GroupsAreKept`); subscriptions are kept in one
  map for all runs, and the first run to end clears it (`CleanedBehind`, `PollsItsOwn`).
- `delegate_task` is put into the shared registry by each run, so that a call may work with
  the session of a run that began later; `maxConcurrent` of its configuration is read
  nowhere, and a sub-agent without tools has none, against `subagent-isolation.ts:34`. A
  sub-agent whose model failed reports success if its summary works.

The deprecated pipeline
- `finalize-phase.ts:36` says the history is updated "always": not when `sendMessage` throws
  (`ExchangesKept`). What `afterExecute` changes in the reply goes into the history though
  another text was told.
- A booking completes the goal for good, so the session's action loop never acts again
  (`GoalStaysReached`).

## 5. Theorems

TLAPS proves these for every value of the constants: any number of candidates,
executors, calls, edits, crashes, attempts, tasks, sessions, streams, any graph.

`Candidates_proofs`, from `CandidatesAssumption`: `Invariant` (`Spec => []IInv`), and
from it `TypeCorrect`, `ClaimIsExclusive`, `AtMostOneEffect`, `RetryIsBounded`,
`OnlyWhatWasDecided`; `LifecycleHolds` and `Implements` (the queue implements
`ReviewedEffect`) with the assumption `CanClaim`. None of the safety properties is
inductive. Two executors are kept apart because the record an owner works on is
still the one it claimed (`ClaimStands`); the effects stay bounded because an owner
about to run holds an attempt that has had no effect yet (`AttemptsLeft`) and
because a candidate with an effect cannot become runnable again (`EffectIsFinal`);
the human's edit survives because what an executor holds is what the record says,
in the payload and in the status it will be released to (`HeldAsDecided`). `IInv`
is the conjunction; the proof has one lemma per part, one step per action, and the
refinement cites it. What a store without `claim()` still guarantees
(`HumanDecides`, `EditIffRevised`) is proved only; the run has `claim()`.

`GraphEngine_proofs`, from `GraphAssumption`: `Invariant`, `TypeCorrect`, `GateIsHeld`,
`StepsAreAccounted`, and, for `GraphResume`, `PausesDoNotShow`. `GateHeld` is not
inductive: a call may skip the gate of the first node it runs, and `SkipIsFresh` says
that it then stands exactly at the pause it resumed from. `StepsAccounted` compares the
number of updates a state holds with the step count. It needs the bound on a call that
is about to run something (`InBudget`), and that a fan-out merges no more updates than
it has branches (`ForkCounts`), which is an induction over the set of branches.
`PausesDoNotShow` is a refinement: every step of a driver who does one thing at a time is
a step of `GraphWalk` or leaves its position alone. Its invariant says that a pause is
the latest checkpoint until the first node after it has been saved (`UnderWay`), that an
edit in flight is of that very pause (`EditsAlone`), and that no pause stands after the
source of a fan-out (`PausedAfterANode`). The last follows from the theorem's one
hypothesis, `ForksUnpaused`; without it the theorem is false, which is the finding of the
run `graph_resume_fork`.

On `DurableStep`, in the same module, from the same assumption and `Keyed` (the worker
sends idempotency keys, as the contract asks): `DurableInvariant`, `GateIsApproved`, `ResumeIsContinued`.
The run `durable_overlap` shows why keys are needed. The argument: with keys a step's
turn runs alone (`Alone`), since a delivery that overlaps it is given the same promise;
so the pause it finds is the one the worker was told of (`Told`) and a human has agreed to
(`Cleared`), and remains so up to the node behind the gate (`FromCleared`). A restart
forgets the turns but not the checkpoints, and only the first turn is then still held
back (`FirstGuarded`). The engine's invariant is used as a whole.

`AgentLoop_proofs`, from the assumptions of `AgentLoop`: `Invariant`, and from it
`NeverOverCap`, `WritersNeverRace`, `RepetitionStops`, `TranscriptsAccepted`,
`RailsStop`, `DisclosureIsARule`. Three of them rest on what an algorithm computes for
every input: `PlanIsOrderedPartition` (the batches are the calls to run, in order, and a
batch of several only reads), `SeenChain` (what the repetition guard has counted after a
turn), and `PairedSuffix` with `RecoveredPaired` (a transcript that is cut, capped or
shortened anywhere stays one a provider accepts). These are inductions over the length of
the list, through the sets of `Induction`.

`Services`, from `WorkspaceConstants` and `ServiceConstants`: `QueuesAreSound`,
`GuardsAreHeld`, `NothingIsLost`, the three safety invariants of the run `services`. A step
of the composition is a step of each service or leaves it alone (`Apart`), so each
conjunct follows from an invariant of one service, which has its three lemmas
(`...Start`, `...Step`, `...Sound`). `TLC` has evaluated each of these
invariants in every state of the run. Those that say more than a type:
- `WInv`: the commands of the workspace that have not settled form a line in which each
  follows the one before it (`InLine`), as the chain of promises has them, and the only
  one that can be running is the first. Counting the line gives the counter that the 429
  and `/healthz` go by.
- `CoordinatorInv`: done, running and waiting tasks come in this order, and all that runs
  was in one batch, that is, reads only or is alone. That the batches are such is what
  `batchTasks` computes for any list of tasks (`BatchChain`, `BatchesInOrder`).
- `TableInv`: a task has a verdict exactly when its status is terminal, and it is that of
  the actor who is on its record.
- `TapeInv`: in auto mode a request that is being asked has no entry yet and, unless two
  asked it at once, one call that asks.
- `TurnInv`, `MeterInv`: a provider stops only behind whole calls, and nothing is answered
  or billed before the generator has come to its end.
- `LogsInv`: the lines dropped, arrived, posted and buffered are together the lines
  logged, each once; counting them needs that a list without repetitions has as many
  entries as elements (`OnceCounted`).
- `SessionInv`: until a session is evicted or begun twice at once (`forked`), all its runs
  work on one state, the store's entry has it as soon as one of them is done, and it
  remembers the last of those that ended (`OneState`; `BoundedIsLast` says why shifting after
  each exchange keeps exactly those).
- `StreamInv`: the queue is the events emitted and not had, in order.

`ServiceConstants` says what the code's defaults and types give: thresholds and the store's
capacity are positive, the other limits natural numbers, runs are finitely many, each of one
session, and some of them are streams. With a capacity of 0 the store would drop
what it has just been given.

`Turn`, from `TurnConstants`: `GuardsHold`, `WhatMustHappenHappensOnce`,
`NothingIsMisremembered`, the three safety invariants of the run `turn`, and
`GoalsStayReached`. The inductive invariant `Kept` is one conjunct per part:
- `CallInv`: a call has no effect and no result before its handler is over, and only a
  call that was let through begins it; so a verdict given behind the deadline still counts
  (`GatesHold`), and an effect behind it is the only one (`OneEffect`).
- `OnionInv`: every frame that waits in a layer's body may have its inside called once more;
  what these calls can still add up to, with those already made, never exceeds 2 to the
  number of layers (`InBudget`). That is why a layer that throws behind `next` doubles and does not
  multiply without end. `PaidFor` charges each repeated answer to one that was thrown away.
- `StoreInv`: as long as a run's counter is remembered it is not behind any handle shown for
  that run (`Shown`), and the bytes counted are those of the entries kept (`Bounds`).
- `WindowInv`: the last request pairs its calls and results and covers the transcript, and so
  does what a summary under way will make of it (`Summarizing`, `Covers`): what was cut off is in
  the summary or in the file, but for the failures that `NothingForgotten` names. It needs that
  cutting, evicting, patching and retelling each keep messages paired and retain what
  they held, which is an argument about every place the list may be cut at.
- `EditsInv`, `OffloadInv`: who is about to write was shown what it found, or the backend did not let it be
  read; an offload's number is not given out twice between restarts.
- `SessionInv`: the history is what the last runs to end were asked and told, in that order,
  however they overlapped (`Remembers`), and a run that was the first is the only one (`Primed`).
- `PipelineInv`, `GraphInv`: history is made of exchanges, whole but for the first, which is a reply alone
  when the bound is odd (`HistoryPaired`), and what went out of
  the graph is at most what its state says and one more for each crash (`SentOnce`).

`Agents`, from `AgentsConstants` (which has `KeyedTurnsAssumption`): `AgentsInvariant`,
and from it `BoundsAreKept`, `TheTruthIsTold`, `NothingIsLeftBehind`,
`KeyedTurnsArePaidOnce`, `TheMapIsSound`, `NobodyIsOrphaned`, `OnlyItsOwnIsForgotten`: all
the safety properties of the run `agents` but one. `AgentsInv` has again one conjunct
per part; those that say more than a type:
- `LoopInv`: the calls begun are those counted and those in flight, of one batch (`Counted`); after its
  signal has fired a run begins at most what it had looked up already (`Stopped`); every turn but the
  one at work has its results until a summary has taken the place of turns (`Transcribed`).
- `TreeInv` (in `TreeSearch_proofs`): while no two searches have overlapped, a node's number is
  greater than its parent's (`Grown`), so that walks up and down end; the executed nodes are a
  chain from the root to where the search stands (`Chained`), which is what the best path
  traces; and each backpropagation adds one visit to every node of one way up, so that no node's
  children have more visits than it (`Summed`), a sum over a set of children.
- `AsyncInv`: besides the properties, a worker at work has steps left, and one whose task was
  cancelled begins no more than the one tool it was about to (`InSteps`).
- `KInv`: a turn is told to stop only when it has no key and nobody waits for it, which needs that
  everybody who waits for a turn, or came by its key, has it counted (`Callers`, `Wanted`). A key is paid for once because a turn that has not failed is still in the map
  (`AllRemembered`), which holds as long as the keys in use fit: an eviction then needs more
  keys than there are. That a late failure takes away no successor's entry is the
  comparison `get(key) === started` (`serve.ts:244`) in `Without`.
- `WorkersInv`, `IsolatedInv`: the semaphore counts the delegates at work; while no run has
  begun beside another, the registered tool and the array of results are the one run's.
- `ClaimInv`, `WatchInv`: who was told that a step is theirs is alone; every live
  subscription is in the map or excused (`Named`), and an update is in its queue, in a poll's hands, or
  heard (`Delivered`).
- `LabelsInv`, `TablesInv`: a live subscription is in the map, in flight, or known to have strayed
  (`Accounted`); while runs have not shared the map, all entries are those of the one at work
  (`Apart`), and the labels a clean-up has passed have no subscription left (`UserSound`).
- `SavesInv`: nothing of a cleared or dead chain is in the list or in a writer's hands
  (`Current`), and unless saves overlapped the newest save is on top and no edge of the graph
  starts where another does (`OneAfterTheOther`).

`TurnConstants` and `AgentsConstants` say that limits are natural numbers (positive where
the code needs one at least), and that what stands for "no run" or "no key" is none. The
batches a model asks for have a longest, since the property that compares executions with
the cap allows for one batch. The bounds of the histories are any numbers.

`Induction` has the means: a set that has 0 and with each number the next has them all
(`SetInduction`, `BoundedInduction`), and a fold over a sequence has its sequence of
intermediate results (`FoldExists`). Properties are given as sets, since the
prover instantiates no operators.

The hypotheses are those of the code: a graph has finitely many nodes, limits are natural numbers, a
marker for "no turn" is not a turn. Each is an `ASSUME` that the runs evaluate or, where the
module is only instantiated by the runs, a definition a theorem names as its hypothesis.

Model-checked only: liveness (`Settles`, `CallReturns`, `WorkerFinishes`,
`AnswersInTheEnd`, `ServicesMoveOn`, `TurnsEnd`, `AgentsAnswer`), which needs fairness and
`ENABLED` and is out of the prover's reach; and `WorkflowsFollowTheirPlan`. The walk of a
workflow follows edges that are computed from the whole plan by filtering and flattening
lists (`Targets`, `JoinOfStarters` in `VibeGraph`), and what such an operator of
the library returns for every list is an induction over data that the prover cannot instantiate; the
run checks it for plans of every shape the compiler tells apart. The three violation runs
are refutations, and TLC's counterexample is all they need.

## 6. Not modelled, and the plan

Left out of the modelled components: reading operations (`listPending`, `check`,
`list`, `getState`), timestamps, feedback, event payloads and error texts,
`approvalNodes` other than the default (every interrupt is an approval), subgraphs as
nodes, the providers' calls with one answer and their conversion of messages, the file
routes of the sandbox server, the tools of the multi-agent and file
middleware that are one request or one read, `SubAgentRunner`, the graph observer (it
records; a serial node that threw is recorded as completed as well as failed).

Options that are left at their defaults, and what that leaves out:
- The deprecated pipeline may send a step through the tree search instead of its action loop
  (`runner.ts:472`); the search is off by default, and `TreeSearch` models the engine itself. A
  custom `goalChecker` that throws there loses the results of the step (`runner.ts:569`); the
  default checker cannot throw, and `CallsAreReported` speaks of it.
- `enableBackprop: false` puts the candidate of the highest prior in place of the simulations, and
  nothing is counted (`tree-search.ts:500`); it is on by default, and `TreeSearch` has it on.
- `PowerTools` has a group configured. Without one the tools carry none and
  `GroupsAreKept` would promise nothing.
- A run that throws never reaches the clean-up of `afterExecute` (`adaptive-runner.ts:785`). In
  `PowerTools` and `StepClaims` such a run stays at work, runs that begin later count as
  overlapping, and `NothingLeftBehind` does not speak of what it leaves.

Components without a module, with their reasons, are listed in `PROJECT.json`:
MCP and the built-in tools speak protocols with the outside; memory, directives, reasoning helpers and most of the patterns build prompts around one call; shell safety
and validation analyse text, and `ToolCall` takes their verdicts as inputs; the other
middleware add a tool or a prompt and keep at most a list that one run writes.

What could follow: the graph observer and the file routes as modules; subgraphs as nodes of
`GraphEngine`; and a proof of `WorkflowsFollowTheirPlan` for plans without forks, where
the lists have one element.
