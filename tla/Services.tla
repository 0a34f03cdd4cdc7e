------------------------------- MODULE Services -------------------------------
(***************************************************************************)
(* The services around an agent, side by side: they share no state, so a   *)
(* behaviour is one of them at work (part) and the others at rest.         *)
(***************************************************************************)
EXTENDS Integers, Sequences, FiniteSets, TLC, Induction, SequenceTheorems

CONSTANTS
    Execs, NoExec, MaxQueued,                                     \* Workspace
    Lines, BatchSize,                                             \* LogShipper
    Callers, FailureThreshold, SuccessThreshold, Cooldown, MaxRetries, \* Breaker
    Runs, Sessions, KeyOf, Streams, MaxEntries, MaxHistory, MaxEvents, \* Sessions, TracedCalls
    MaxTasks, Ids, Actors, Requests,                              \* Coordinator, TaskTable, Routes
    Versions, Fetches,                                            \* PromptDelivery
    Calls, Keys,                                                  \* VCR
    Slots, MaxText,                                               \* ProviderStream
    r1, r2, r3, ka, kb                                            \* three runs of two sessions

TwoOfOneSession == (r1 :> ka) @@ (r2 :> ka) @@ (r3 :> kb)

VARIABLES
    part,                                                                  \* the service at work
    caller, connected, job, chain, queued, busy, early,                    \* Workspace
    logged, buffer, posts, arrived, dropped, shut,                         \* LogShipper
    circuit, failures, successes, age, call, attempt, upstream, stale,     \* Breaker
    store, history, run, events, queue, reader, finished, forked,          \* Sessions
    effect, batches, running, outcomes, pushed, synthesis,                 \* Coordinator
    tasks, copy, verdict,                                                  \* TaskTable
    ask, at, ran, answer, spans, exported, server,                         \* Routes
    traced, spansOf, seen, full, llmCalls,                                 \* TracedCalls
    published, fetch, config, polling, told,                               \* PromptDelivery
    mode, request, cassette, rival,                                        \* VCR
    api, body, heard, given, metered, response, socket                     \* ProviderStream

W == INSTANCE Workspace
L == INSTANCE LogShipper
B == INSTANCE Breaker
S == INSTANCE Sessions WITH Keys <- Sessions
C == INSTANCE Coordinator
T == INSTANCE TaskTable
R == INSTANCE Routes
P == INSTANCE TracedCalls WITH Runs <- Sessions, RunOf <- KeyOf, Calls <- Runs, call <- traced, spans <- spansOf
D == INSTANCE PromptDelivery
V == INSTANCE VCR WITH Modes <- {"record", "replay", "auto"}, NoEntry <- NoExec, call <- request
M == INSTANCE ProviderStream

workspace == <<caller, connected, job, chain, queued, busy, early>>
logs == <<logged, buffer, posts, arrived, dropped, shut>>
breaker == <<circuit, failures, successes, age, call, attempt, upstream, stale>>
sessions == <<store, history, run, events, queue, reader, finished, forked>>
coordinator == <<effect, batches, running, outcomes, pushed, synthesis>>
table == <<tasks, copy, verdict>>
routes == <<ask, at, ran, answer, spans, exported, server>>
tracing == <<traced, spansOf, seen, full, llmCalls>>
prompt == <<published, fetch, config, polling, told>>
tape == <<mode, request, cassette, rival>>
turn == <<api, body, heard, given, metered, response, socket>>
vars == <<part, workspace, logs, breaker, sessions, coordinator, table, routes, tracing, prompt, tape,
          turn>>
-----------------------------------------------------------------------------
Parts == {"workspace", "logs", "breaker", "sessions", "coordinator", "table", "routes", "tracing",
          "prompt", "tape", "turn"}

\* A service whose inputs are chosen at the start starts in one state while it rests.
Init ==
    /\ part \in Parts
    /\ W!Init /\ L!Init /\ B!Init /\ S!Init /\ T!Init /\ R!Init /\ P!Init /\ D!Init
    /\ IF part = "coordinator" THEN C!Init ELSE C!Init /\ effect = <<>>
    /\ IF part = "tape" THEN V!Init ELSE V!Init /\ mode = "auto"
    /\ IF part = "turn" THEN M!Init ELSE M!Init /\ api = "openai"

Services ==
    \/ /\ part = "workspace" /\ W!Next
       /\ UNCHANGED <<logs, breaker, sessions, coordinator, table, routes, tracing, prompt, tape, turn>>
    \/ /\ part = "logs" /\ L!Next
       /\ UNCHANGED <<workspace, breaker, sessions, coordinator, table, routes, tracing, prompt, tape, turn>>
    \/ /\ part = "breaker" /\ B!Next
       /\ UNCHANGED <<workspace, logs, sessions, coordinator, table, routes, tracing, prompt, tape, turn>>
    \/ /\ part = "sessions" /\ S!Next
       /\ UNCHANGED <<workspace, logs, breaker, coordinator, table, routes, tracing, prompt, tape, turn>>
    \/ /\ part = "coordinator" /\ C!Next
       /\ UNCHANGED <<workspace, logs, breaker, sessions, table, routes, tracing, prompt, tape, turn>>
    \/ /\ part = "table" /\ T!Next
       /\ UNCHANGED <<workspace, logs, breaker, sessions, coordinator, routes, tracing, prompt, tape, turn>>
    \/ /\ part = "routes" /\ R!Next
       /\ UNCHANGED <<workspace, logs, breaker, sessions, coordinator, table, tracing, prompt, tape, turn>>
    \/ /\ part = "tracing" /\ P!Next
       /\ UNCHANGED <<workspace, logs, breaker, sessions, coordinator, table, routes, prompt, tape, turn>>
    \/ /\ part = "prompt" /\ D!Next
       /\ UNCHANGED <<workspace, logs, breaker, sessions, coordinator, table, routes, tracing, tape, turn>>
    \/ /\ part = "tape" /\ V!Next
       /\ UNCHANGED <<workspace, logs, breaker, sessions, coordinator, table, routes, tracing, prompt, turn>>
    \/ /\ part = "turn" /\ M!Next
       /\ UNCHANGED <<workspace, logs, breaker, sessions, coordinator, table, routes, tracing, prompt, tape>>

Next == Services /\ UNCHANGED part

\* Commands end, because they are killed at their timeout; timers fire; posts,
\* answers and handlers settle; runs end; who reads a stream goes on reading, or leaves it; a
\* provider that is asked again and again for the prompt answers some time.
Fairness ==
    /\ \A e \in Execs : WF_workspace(part = "workspace" /\ W!Serve(e))
    /\ WF_logs(part = "logs" /\ L!Timer)
    /\ WF_logs(part = "logs" /\ L!Post)
    /\ WF_breaker(part = "breaker" /\ B!Tick)
    /\ \A c \in Callers : /\ WF_breaker(part = "breaker" /\ B!Settle(c))
                          /\ WF_breaker(part = "breaker" /\ B!Execute(c))
    /\ \A r \in Runs : WF_sessions(part = "sessions" /\ S!Work(r))
    /\ \A r \in Streams : WF_sessions(part = "sessions" /\ S!Read(r))
    /\ WF_coordinator(part = "coordinator" /\ C!Advance)
    /\ \A q \in Requests : WF_routes(part = "routes" /\ R!Serve(q))
    /\ WF_routes(part = "routes" /\ R!Shut)
    /\ \A f \in Fetches : /\ WF_prompt(part = "prompt" /\ D!Poll(f))
                          /\ SF_prompt(part = "prompt" /\ D!Refreshed(f, TRUE))
                          /\ WF_prompt(part = "prompt" /\ D!Arrive(f))
    /\ WF_turn(part = "turn" /\ M!Timeout)
    /\ WF_turn(part = "turn" /\ M!Aborted)
    /\ WF_turn(part = "turn" /\ (M!GoOn \/ M!Leave))

Spec == Init /\ [][Next]_vars /\ Fairness
-----------------------------------------------------------------------------
\* The workspace runs one command at a time, for somebody, and tells the truth.
QueueSound == W!QueueSound

\* What was said is kept: log lines, exchanges, events, outcomes, spans, answers,
\* a streamed turn's words and its bill.
NothingLost ==
    /\ L!EveryLineOnce /\ S!StoreSound /\ S!ExchangesKept /\ S!StreamInOrder
    /\ C!AllReported /\ P!TracedOnce /\ R!OutcomeIsTold /\ R!CloseWaits
    /\ M!MeteredOnce /\ M!StreamedIsSaid

\* What is closed stays closed: the circuit, the barrier of a write, a task that
\* is over, a recorded answer, a call that was cut, a connection nobody reads; and
\* the prompt is one that was published.
GuardsHold ==
    /\ B!TypeOK /\ B!OpenMeansClosedDoor /\ C!WriteBarrier /\ T!OneVerdict /\ V!Hermetic /\ D!PromptIsKnown
    /\ M!CutCallNeverRuns /\ M!HungUp

\* The services get on: the queue drains, lines and streams go out, the circuit
\* closes again, requests are answered, the last prompt is found and a turn ends.
ServicesMoveOn ==
    /\ W!Drains /\ L!LinesLeave /\ B!Recovers /\ S!StreamEnds /\ R!ServerEnds /\ D!Converges
    /\ M!TurnEnds
    /\ part = "coordinator" => C!Returns
-----------------------------------------------------------------------------
(***************************************************************************)
(* Proofs, for any number of commands, lines, callers, runs, tasks and so  *)
(* on: what the compositions' invariants say of each service.              *)
(***************************************************************************)
\* The first promise of a workspace is no command.
ASSUME WorkspaceConstants == NoExec \notin Execs /\ MaxQueued \in Nat

\* A step of the composition is a step of each service, or leaves it alone.
LEMMA Apart ==
    [Next]_vars =>
        /\ [W!Next]_(W!vars) /\ [L!Next]_(L!vars) /\ [B!Next]_(B!vars) /\ [S!Next]_(S!vars)
        /\ [C!Next]_(C!vars) /\ [T!Next]_(T!vars) /\ [R!Next]_(R!vars) /\ [P!Next]_(P!vars)
        /\ [D!Next]_(D!vars) /\ [V!Next]_(V!vars) /\ [M!Next]_(M!vars)
<1>1. ASSUME UNCHANGED vars
      PROVE  UNCHANGED <<workspace, logs, breaker, sessions, coordinator, table, routes, tracing, prompt, tape, turn>>
  BY <1>1 DEF vars
<1>2. UNCHANGED workspace => UNCHANGED W!vars
  BY DEF workspace, W!vars
<1>3. UNCHANGED logs => UNCHANGED L!vars
  BY DEF logs, L!vars
<1>4. UNCHANGED breaker => UNCHANGED B!vars
  BY DEF breaker, B!vars
<1>5. UNCHANGED sessions => UNCHANGED S!vars
  BY DEF sessions, S!vars, S!storeVars, S!streamVars
<1>6. UNCHANGED coordinator => UNCHANGED C!vars
  BY DEF coordinator, C!vars
<1>7. UNCHANGED table => UNCHANGED T!vars
  BY DEF table, T!vars
<1>8. UNCHANGED routes => UNCHANGED R!vars
  BY DEF routes, R!vars
<1>9. UNCHANGED tracing => UNCHANGED P!vars
  BY DEF tracing, P!vars
<1>10. UNCHANGED prompt => UNCHANGED D!vars
  BY DEF prompt, D!vars
<1>11. UNCHANGED tape => UNCHANGED V!vars
  BY DEF tape, V!vars
<1>12. UNCHANGED turn => UNCHANGED M!vars
  BY DEF turn, M!vars
<1>20. CASE UNCHANGED vars
  BY <1>1, <1>2, <1>3, <1>4, <1>5, <1>6, <1>7, <1>8, <1>9, <1>10, <1>11, <1>12, <1>20
<1>21. CASE Services
  <2>1. CASE part = "workspace" /\ W!Next /\ UNCHANGED <<logs, breaker, sessions, coordinator, table, routes, tracing, prompt, tape, turn>>
    BY <2>1, <1>3, <1>4, <1>5, <1>6, <1>7, <1>8, <1>9, <1>10, <1>11, <1>12, Zenon
  <2>2. CASE part = "logs" /\ L!Next /\ UNCHANGED <<workspace, breaker, sessions, coordinator, table, routes, tracing, prompt, tape, turn>>
    BY <2>2, <1>2, <1>4, <1>5, <1>6, <1>7, <1>8, <1>9, <1>10, <1>11, <1>12, Zenon
  <2>3. CASE part = "breaker" /\ B!Next /\ UNCHANGED <<workspace, logs, sessions, coordinator, table, routes, tracing, prompt, tape, turn>>
    BY <2>3, <1>2, <1>3, <1>5, <1>6, <1>7, <1>8, <1>9, <1>10, <1>11, <1>12, Zenon
  <2>4. CASE part = "sessions" /\ S!Next /\ UNCHANGED <<workspace, logs, breaker, coordinator, table, routes, tracing, prompt, tape, turn>>
    BY <2>4, <1>2, <1>3, <1>4, <1>6, <1>7, <1>8, <1>9, <1>10, <1>11, <1>12, Zenon
  <2>5. CASE part = "coordinator" /\ C!Next /\ UNCHANGED <<workspace, logs, breaker, sessions, table, routes, tracing, prompt, tape, turn>>
    BY <2>5, <1>2, <1>3, <1>4, <1>5, <1>7, <1>8, <1>9, <1>10, <1>11, <1>12, Zenon
  <2>6. CASE part = "table" /\ T!Next /\ UNCHANGED <<workspace, logs, breaker, sessions, coordinator, routes, tracing, prompt, tape, turn>>
    BY <2>6, <1>2, <1>3, <1>4, <1>5, <1>6, <1>8, <1>9, <1>10, <1>11, <1>12, Zenon
  <2>7. CASE part = "routes" /\ R!Next /\ UNCHANGED <<workspace, logs, breaker, sessions, coordinator, table, tracing, prompt, tape, turn>>
    BY <2>7, <1>2, <1>3, <1>4, <1>5, <1>6, <1>7, <1>9, <1>10, <1>11, <1>12, Zenon
  <2>8. CASE part = "tracing" /\ P!Next /\ UNCHANGED <<workspace, logs, breaker, sessions, coordinator, table, routes, prompt, tape, turn>>
    BY <2>8, <1>2, <1>3, <1>4, <1>5, <1>6, <1>7, <1>8, <1>10, <1>11, <1>12, Zenon
  <2>9. CASE part = "prompt" /\ D!Next /\ UNCHANGED <<workspace, logs, breaker, sessions, coordinator, table, routes, tracing, tape, turn>>
    BY <2>9, <1>2, <1>3, <1>4, <1>5, <1>6, <1>7, <1>8, <1>9, <1>11, <1>12, Zenon
  <2>10. CASE part = "tape" /\ V!Next /\ UNCHANGED <<workspace, logs, breaker, sessions, coordinator, table, routes, tracing, prompt, turn>>
    BY <2>10, <1>2, <1>3, <1>4, <1>5, <1>6, <1>7, <1>8, <1>9, <1>10, <1>12, Zenon
  <2>11. CASE part = "turn" /\ M!Next /\ UNCHANGED <<workspace, logs, breaker, sessions, coordinator, table, routes, tracing, prompt, tape>>
    BY <2>11, <1>2, <1>3, <1>4, <1>5, <1>6, <1>7, <1>8, <1>9, <1>10, <1>11, Zenon
  <2> QED
    BY <1>21, <2>1, <2>2, <2>3, <2>4, <2>5, <2>6, <2>7, <2>8, <2>9, <2>10, <2>11, Zenon DEF Services
<1> QED
  BY <1>20, <1>21, Zenon DEF Next

\* A circuit has thresholds to reach, "no entry" is no answer, calls are finitely
\* many, each of one session, and the store has room for one.
ASSUME ServiceConstants ==
    /\ FailureThreshold \in Nat \ {0} /\ SuccessThreshold \in Nat \ {0}
    /\ Cooldown \in Nat /\ MaxRetries \in Nat
    /\ NoExec \notin Calls /\ Keys # {}
    /\ IsFiniteSet(Runs) /\ KeyOf \in [Runs -> Sessions] /\ Streams \subseteq Runs
    /\ MaxEntries \in Nat \ {0} /\ MaxHistory \in Nat

-----------------------------------------------------------------------------
Live(e) == job[e].status \in {"queued", "running"}

AtWork(s) == s # <<>> /\ job[s[1]].status = "running"

\* s is the chain of the commands not over yet: each waits for the one before it,
\* the first runs or may start, and the next one accepted will wait for the last.
Line(s) ==
    /\ \A i, j \in DOMAIN s : s[i] = s[j] => i = j
    /\ \A e \in Execs : Live(e) <=> \E i \in DOMAIN s : s[i] = e
    /\ \A i \in DOMAIN s \ {1} : job[s[i]].status = "queued" /\ job[s[i]].after = s[i - 1]
    /\ s # <<>> /\ ~AtWork(s) => W!Settled(job[s[1]].after)
    /\ IF s = <<>> THEN W!Settled(chain) ELSE chain = s[Len(s)]
    /\ busy = AtWork(s)
    /\ queued = IF AtWork(s) THEN Len(s) - 1 ELSE Len(s)

InLine == \E s \in Seq(Execs) : Line(s)

\* A call that is idle has no command, a queued command has a caller or had one,
\* and a command that was aborted has none.
CallersKnown == \A e \in Execs :
    /\ caller[e] = "idle" => job[e].status = "none"
    /\ job[e].status = "queued" => e \in connected \cup early
    /\ job[e].stop = "abort" => e \notin connected

WInv == W!TypeOK /\ InLine /\ CallersKnown /\ W!ToldTheTruth /\ W!RunsForSomebody /\ queued <= MaxQueued

\* What can be seen of the line: who is in it, and that only its first may run.
LEMMA LineFacts ==
    ASSUME W!TypeOK, NEW s \in Seq(Execs), Line(s)
    PROVE  /\ Len(s) \in Nat /\ DOMAIN s = 1 .. Len(s) /\ (s # <<>> <=> Len(s) > 0)
           /\ \A i \in DOMAIN s : s[i] \in Execs /\ Live(s[i])
           /\ \A e \in Execs : job[e].status = "running" <=> AtWork(s) /\ e = s[1]
           /\ \A e \in Execs : W!Ready(e) => s # <<>> /\ ~AtWork(s) /\ e = s[1]
           /\ s # <<>> /\ ~AtWork(s) => W!Ready(s[1])
<1>1. /\ Len(s) \in Nat /\ DOMAIN s = 1 .. Len(s) /\ (s # <<>> <=> Len(s) > 0)
      /\ \A i \in DOMAIN s : s[i] \in Execs
  OBVIOUS
<1>2. \A i \in DOMAIN s : Live(s[i])
  BY <1>1 DEF Line
<1>3. \A i \in DOMAIN s \ {1} : i - 1 \in DOMAIN s
  BY <1>1
<1>4. s # <<>> => 1 \in DOMAIN s
  BY <1>1
<1>5. ASSUME NEW e \in Execs, job[e].status = "running" PROVE AtWork(s) /\ e = s[1]
  <2>1. PICK i \in DOMAIN s : s[i] = e
    BY <1>5 DEF Line, Live
  <2>2. i = 1
    BY <1>5, <2>1 DEF Line
  <2>3. s # <<>>
    BY <1>1, <2>1
  <2> QED
    BY <1>5, <2>1, <2>2, <2>3 DEF AtWork
<1>6. ASSUME NEW e \in Execs, W!Ready(e) PROVE s # <<>> /\ ~AtWork(s) /\ e = s[1]
  <2>1. PICK i \in DOMAIN s : s[i] = e
    BY <1>6 DEF Line, Live, W!Ready
  <2>2. CASE i # 1
    <3>1. job[e].after = s[i - 1] /\ i - 1 \in DOMAIN s
      BY <1>3, <2>1, <2>2 DEF Line
    <3>2. s[i - 1] \in Execs /\ Live(s[i - 1])
      BY <1>1, <1>2, <3>1
    <3> QED
      BY <1>6, <3>1, <3>2 DEF W!Ready, W!Settled, Live
  <2>3. CASE i = 1
    <3>1. s # <<>>
      BY <1>1, <2>1
    <3>2. job[s[1]].status = "queued" /\ s[1] = e
      BY <1>6, <2>1, <2>3 DEF W!Ready
    <3> QED
      BY <3>1, <3>2 DEF AtWork
  <2> QED
    BY <2>2, <2>3
<1>7. ASSUME s # <<>>, ~AtWork(s) PROVE W!Ready(s[1])
  BY <1>2, <1>4, <1>7 DEF Line, AtWork, W!Ready, Live
<1>8. \A e \in Execs : AtWork(s) /\ e = s[1] => job[e].status = "running"
  BY DEF AtWork
<1> QED
  BY <1>1, <1>2, <1>5, <1>6, <1>7, <1>8

\* A step that leaves the standing of the commands alone leaves the line as it is.
LEMMA SameLine ==
    ASSUME WInv, \A e \in Execs : job'[e].status = job[e].status /\ job'[e].after = job[e].after,
           chain' = chain, busy' = busy, queued' = queued
    PROVE  InLine'
<1>1. PICK s \in Seq(Execs) : Line(s)
  BY DEF WInv, InLine
<1>2. /\ \A i \in DOMAIN s : s[i] \in Execs
      /\ s # <<>> => s[1] \in Execs
  BY <1>1, LineFacts DEF WInv
<1>3. /\ \A e \in Execs : Live(e)' = Live(e)
      /\ \A e : W!Settled(e)' = W!Settled(e)
      /\ AtWork(s)' = AtWork(s)
  BY <1>2 DEF Live, W!Settled, AtWork
<1>4. Line(s)'
  BY <1>1, <1>2, <1>3 DEF Line
<1> QED
  BY <1>4 DEF InLine

\* A command accepted goes to the end of the line.
LEMMA PostLine ==
    ASSUME WInv, NEW e \in Execs, W!Post(e)
    PROVE  InLine'
<1>1. PICK s \in Seq(Execs) : Line(s)
  BY DEF WInv, InLine
<1> DEFINE t == Append(s, e)
<1>2. /\ Len(s) \in Nat /\ DOMAIN s = 1 .. Len(s) /\ (s # <<>> <=> Len(s) > 0)
      /\ \A i \in DOMAIN s : s[i] \in Execs /\ Live(s[i])
      /\ s # <<>> => AtWork(s) /\ s[1] \in Execs
  BY <1>1, LineFacts DEF WInv, W!Post, W!Quiet
<1>3. /\ t \in Seq(Execs) /\ Len(t) = Len(s) + 1 /\ DOMAIN t = 1 .. Len(s) + 1 /\ t # <<>>
      /\ t[Len(s) + 1] = e /\ \A i \in DOMAIN s : t[i] = s[i]
  <2>1. /\ t \in Seq(Execs) /\ Len(t) = Len(s) + 1
        /\ t[Len(s) + 1] = e /\ \A i \in 1 .. Len(s) : t[i] = s[i]
    BY AppendProperties
  <2>2. DOMAIN t = 1 .. Len(t)
    BY <2>1
  <2> HIDE DEF t
  <2> QED
    BY <1>2, <2>1, <2>2
<1>4. /\ job[e].status = "none" /\ job \in [Execs -> [status : {"none", "queued", "running", "ended", "threw"},
                                                   after : Execs \cup {NoExec},
                                                   stop : {"no", "timeout", "abort"}]]
      /\ job' = [job EXCEPT ![e] = [status |-> "queued", after |-> chain, stop |-> "no"]]
      /\ chain' = e /\ busy' = busy /\ queued' = queued + 1
  BY DEF WInv, W!TypeOK, CallersKnown, W!Post, W!Follow
<1>5. /\ job'[e].status = "queued" /\ job'[e].after = chain
      /\ \A x \in Execs \ {e} : job'[x] = job[x]
  BY <1>4
<1>6. \A i \in DOMAIN s : s[i] # e
  BY <1>2, <1>4 DEF Live
<1>7. \A x \in Execs : Live(x)' <=> Live(x) \/ x = e
  BY <1>5 DEF Live
<1>8. \A x : W!Settled(x) => W!Settled(x)'
  BY <1>4, <1>5 DEF W!Settled
<1> HIDE DEF t
<1>9. AtWork(t)' <=> s # <<>>
  <2>1. CASE s = <<>>
    BY <1>2, <1>3, <1>5, <2>1 DEF AtWork
  <2>2. CASE s # <<>>
    <3>1. 1 \in DOMAIN s /\ t[1] = s[1] /\ s[1] \in Execs \ {e}
      BY <1>2, <1>3, <1>6, <2>2
    <3> QED
      BY <1>2, <1>3, <1>5, <2>2, <3>1 DEF AtWork
  <2> QED
    BY <2>1, <2>2
<1>10. \A i, j \in DOMAIN t : t[i] = t[j] => i = j
  <2> SUFFICES ASSUME NEW i \in DOMAIN t, NEW j \in DOMAIN t, t[i] = t[j] PROVE i = j
    OBVIOUS
  <2>1. (i \in DOMAIN s \/ i = Len(s) + 1) /\ (j \in DOMAIN s \/ j = Len(s) + 1)
    BY <1>2, <1>3
  <2> QED
    BY <1>1, <1>3, <1>6, <2>1 DEF Line
<1>11. \A x \in Execs : Live(x)' <=> \E i \in DOMAIN t : t[i] = x
  <2>1. \A i \in DOMAIN t : i \in DOMAIN s \/ i = Len(s) + 1
    BY <1>2, <1>3
  <2>2. DOMAIN s \subseteq DOMAIN t /\ Len(s) + 1 \in DOMAIN t
    BY <1>2, <1>3
  <2>3. \A x \in Execs : Live(x) <=> \E i \in DOMAIN s : s[i] = x
    BY <1>1 DEF Line
  <2> QED
    BY <1>3, <1>7, <2>1, <2>2, <2>3
<1>12. ASSUME NEW i \in DOMAIN t \ {1}
       PROVE  job'[t[i]].status = "queued" /\ job'[t[i]].after = t[i - 1]
  <2>1. CASE i \in DOMAIN s
    <3>1. job[s[i]].status = "queued" /\ job[s[i]].after = s[i - 1]
      BY <1>1, <2>1 DEF Line
    <3>2. i - 1 \in DOMAIN s
      BY <1>2, <2>1
    <3> QED
      BY <1>2, <1>3, <1>5, <1>6, <2>1, <3>1, <3>2
  <2>2. CASE i = Len(s) + 1
    <3>1. s # <<>> /\ i - 1 = Len(s) /\ Len(s) \in DOMAIN s
      BY <1>2, <2>2
    <3>2. chain = s[Len(s)]
      BY <1>1, <3>1 DEF Line
    <3> QED
      BY <1>3, <1>5, <2>2, <3>1, <3>2
  <2> QED
    BY <1>2, <1>3, <2>1, <2>2
<1>13. ~AtWork(t)' => W!Settled(job[t[1]].after)'
  <2> SUFFICES ASSUME s = <<>> PROVE W!Settled(job[t[1]].after)'
    BY <1>9
  <2>1. t[1] = e /\ W!Settled(chain)
    BY <1>1, <1>2, <1>3 DEF Line
  <2>2. PICK x : x = chain
    OBVIOUS
  <2>3. job'[t[1]].after = x /\ W!Settled(x)'
    BY <1>5, <1>8, <2>1, <2>2
  <2> QED
    BY <2>3 DEF W!Settled
<1>14. busy' = AtWork(t)' /\ queued' = IF AtWork(t)' THEN Len(t) - 1 ELSE Len(t)
  <2>1. /\ busy = AtWork(s) /\ queued = (IF AtWork(s) THEN Len(s) - 1 ELSE Len(s))
        /\ (AtWork(s) <=> s # <<>>)
    BY <1>1, <1>2 DEF Line, AtWork
  <2>2. busy' = AtWork(t)'
    BY <1>4, <1>9, <2>1 DEF AtWork
  <2>3. CASE s = <<>>
    <3>1. queued' = Len(t) /\ ~AtWork(t)'
      BY <1>2, <1>3, <1>4, <1>9, <2>1, <2>3
    <3> QED
      BY <2>2, <3>1
  <2>4. CASE s # <<>>
    <3>1. queued' = Len(t) - 1 /\ AtWork(t)'
      BY <1>2, <1>3, <1>4, <1>9, <2>1, <2>4
    <3> QED
      BY <2>2, <3>1
  <2> QED
    BY <2>3, <2>4
<1>15. Line(t)'
  BY <1>3, <1>4, <1>10, <1>11, <1>12, <1>13, <1>14 DEF Line
<1> QED
  BY <1>3, <1>15 DEF InLine

\* The first of the line starts when nothing runs, and stays the first.
LEMMA BeginLine ==
    ASSUME WInv, NEW e \in Execs, W!Begin(e)
    PROVE  InLine'
<1>1. PICK s \in Seq(Execs) : Line(s)
  BY DEF WInv, InLine
<1>2. /\ Len(s) \in Nat /\ DOMAIN s = 1 .. Len(s) /\ s # <<>> /\ ~AtWork(s) /\ s[1] = e
      /\ \A i \in DOMAIN s : s[i] \in Execs /\ Live(s[i])
  BY <1>1, LineFacts DEF WInv, W!Begin
<1>3. /\ job[e].status = "queued" /\ job'[e].status = "running"
      /\ \A x \in Execs \ {e} : job'[x] = job[x]
      /\ chain' = chain /\ busy' = TRUE /\ queued' = queued - 1
  BY DEF WInv, W!TypeOK, W!Begin, W!Ready
<1>4. \A x \in Execs : Live(x)' <=> Live(x)
  BY <1>3 DEF Live
<1>5. AtWork(s)'
  BY <1>2, <1>3 DEF AtWork
<1>6. ASSUME NEW i \in DOMAIN s \ {1}
      PROVE  job'[s[i]].status = "queued" /\ job'[s[i]].after = s[i - 1]
  <2>1. s[i] # e /\ s[i] \in Execs
    BY <1>1, <1>2 DEF Line
  <2> QED
    BY <1>1, <1>3, <2>1 DEF Line
<1>7. Line(s)'
  BY <1>1, <1>2, <1>3, <1>4, <1>5, <1>6 DEF Line
<1> QED
  BY <1>7 DEF InLine

\* When the first is over the second may start.
LEMMA EndLine ==
    ASSUME WInv, NEW e \in Execs, NEW how \in {"ended", "threw"}, W!End(e, how)
    PROVE  InLine'
<1>1. PICK s \in Seq(Execs) : Line(s)
  BY DEF WInv, InLine
<1> DEFINE t == Tail(s)
<1>2. /\ Len(s) \in Nat /\ DOMAIN s = 1 .. Len(s) /\ s # <<>> /\ Len(s) > 0 /\ AtWork(s) /\ s[1] = e
      /\ \A i \in DOMAIN s : s[i] \in Execs /\ Live(s[i])
  BY <1>1, LineFacts DEF WInv, W!End, AtWork
<1>3. /\ t \in Seq(Execs) /\ Len(t) = Len(s) - 1 /\ DOMAIN t = 1 .. Len(s) - 1
      /\ \A i \in DOMAIN t : t[i] = s[i + 1] /\ i + 1 \in DOMAIN s \ {1}
  BY <1>2
<1>4. /\ job[e].status = "running" /\ job'[e].status = how
      /\ \A x \in Execs \ {e} : job'[x] = job[x]
      /\ chain' = chain /\ busy' = FALSE /\ queued' = queued
  BY DEF WInv, W!TypeOK, W!End
<1>5. \A x \in Execs : Live(x)' <=> Live(x) /\ x # e
  BY <1>4 DEF Live
<1>6. \A i \in DOMAIN s \ {1} : s[i] # e /\ job'[s[i]].status = "queued" /\ job'[s[i]].after = s[i - 1]
  <2>1. 1 \in DOMAIN s
    BY <1>2
  <2>2. \A i \in DOMAIN s \ {1} : s[i] # e
    BY <1>1, <1>2, <2>1 DEF Line
  <2> QED
    BY <1>1, <1>2, <1>4, <2>2 DEF Line
<1>7. W!Settled(e)'
  BY <1>4 DEF W!Settled
<1> HIDE DEF t
<1>8. ~AtWork(t)'
  <2> SUFFICES ASSUME t # <<>> PROVE job'[t[1]].status # "running"
    BY DEF AtWork
  <2>1. 1 \in DOMAIN t
    BY <1>2, <1>3
  <2> QED
    BY <1>3, <1>6, <2>1
<1>9. t # <<>> => W!Settled(job[t[1]].after)'
  <2> SUFFICES ASSUME t # <<>> PROVE W!Settled(job[t[1]].after)'
    OBVIOUS
  <2>1. 1 \in DOMAIN t /\ 1 + 1 = 2 /\ 2 - 1 = 1
    BY <1>2, <1>3
  <2>2. t[1] = s[2] /\ 2 \in DOMAIN s \ {1}
    BY <1>3, <2>1
  <2>3. job'[t[1]].after = e
    BY <1>2, <1>6, <2>1, <2>2
  <2> QED
    BY <1>7, <2>3 DEF W!Settled
<1>10. \A i, j \in DOMAIN t : t[i] = t[j] => i = j
  <2> SUFFICES ASSUME NEW i \in DOMAIN t, NEW j \in DOMAIN t, t[i] = t[j] PROVE i = j
    OBVIOUS
  <2>1. i + 1 = j + 1
    BY <1>1, <1>3 DEF Line
  <2>2. i \in Int /\ j \in Int
    BY <1>2, <1>3
  <2> QED
    BY <2>1, <2>2
<1>11. \A x \in Execs : Live(x)' <=> \E i \in DOMAIN t : t[i] = x
  <2>1. \A x \in Execs : Live(x) <=> \E i \in DOMAIN s : s[i] = x
    BY <1>1 DEF Line
  <2>2. \A i \in DOMAIN s \ {1} : i - 1 \in DOMAIN t /\ t[i - 1] = s[i]
    BY <1>2, <1>3
  <2>3. \A x \in Execs : Live(x) /\ x # e <=> \E i \in DOMAIN s \ {1} : s[i] = x
    BY <1>2, <1>6, <2>1
  <2> QED
    BY <1>3, <1>5, <2>2, <2>3
<1>12. ASSUME NEW i \in DOMAIN t \ {1}
       PROVE  job'[t[i]].status = "queued" /\ job'[t[i]].after = t[i - 1]
  <2>1. i + 1 \in DOMAIN s \ {1} /\ t[i] = s[i + 1] /\ i - 1 \in DOMAIN t
    BY <1>2, <1>3
  <2>2. t[i - 1] = s[i] /\ (i + 1) - 1 = i
    BY <1>2, <1>3, <2>1
  <2> QED
    BY <1>6, <2>1, <2>2
<1>13. IF t = <<>> THEN W!Settled(chain)' ELSE chain' = t[Len(t)]
  <2>1. chain = s[Len(s)]
    BY <1>1, <1>2 DEF Line
  <2>2. CASE t = <<>>
    <3>1. Len(s) = 1
      BY <1>2, <1>3, <2>2
    <3> QED
      BY <1>2, <1>4, <1>7, <2>1, <2>2, <3>1 DEF W!Settled
  <2>3. CASE t # <<>>
    <3>1. Len(t) \in DOMAIN t /\ Len(t) + 1 = Len(s)
      BY <1>2, <1>3, <2>3
    <3> QED
      BY <1>3, <1>4, <2>1, <2>3, <3>1
  <2> QED
    BY <2>2, <2>3
<1>14. busy' = AtWork(t)' /\ queued' = IF AtWork(t)' THEN Len(t) - 1 ELSE Len(t)
  <2>1. queued = Len(s) - 1
    BY <1>1, <1>2 DEF Line
  <2>2. busy' = AtWork(t)'
    BY <1>4, <1>8 DEF AtWork
  <2> QED
    BY <1>3, <1>4, <1>8, <2>1, <2>2
<1>15. Line(t)'
  BY <1>8, <1>9, <1>10, <1>11, <1>12, <1>13, <1>14 DEF Line
<1> QED
  BY <1>3, <1>15 DEF InLine

\* A line is a queue of the length that is counted, with one command at work.
LEMMA LineCounts ==
    ASSUME WInv
    PROVE  W!OneAtATime
<1>1. PICK s \in Seq(Execs) : Line(s)
  BY DEF WInv, InLine
<1> DEFINE from == IF AtWork(s) THEN 2 ELSE 1
           waiting == {s[i] : i \in from .. Len(s)}
<1>2. /\ Len(s) \in Nat /\ DOMAIN s = 1 .. Len(s) /\ (s # <<>> <=> Len(s) > 0)
      /\ \A i \in DOMAIN s : s[i] \in Execs /\ Live(s[i])
      /\ \A e \in Execs : job[e].status = "running" <=> AtWork(s) /\ e = s[1]
      /\ AtWork(s) => s # <<>>
  BY <1>1, LineFacts DEF WInv, AtWork
<1>3. W!In("running") = IF AtWork(s) THEN {s[1]} ELSE {}
  <2>1. AtWork(s) => s[1] \in Execs
    BY <1>2
  <2> QED
    BY <1>2, <2>1 DEF W!In
<1>4. Cardinality(W!In("running")) <= 1 /\ busy = (W!In("running") # {})
  <2>1. busy = AtWork(s)
    BY <1>1 DEF Line
  <2>2. Cardinality({}) = 0 /\ Cardinality({s[1]}) = 1
    BY FS_EmptySet, FS_Singleton
  <2>3. CASE AtWork(s)
    <3>1. busy = TRUE /\ W!In("running") = {s[1]}
      BY <1>3, <2>1, <2>3
    <3>2. busy = (W!In("running") # {})
      BY <3>1
    <3>3. Cardinality(W!In("running")) = 1
      BY <2>2, <3>1
    <3> QED
      BY <3>2, <3>3
  <2>4. CASE ~AtWork(s)
    <3>1. busy = FALSE /\ W!In("running") = {}
      BY <1>3, <2>1, <2>4 DEF AtWork
    <3>2. busy = (W!In("running") # {})
      BY <3>1
    <3>3. Cardinality(W!In("running")) = 0
      BY <2>2, <3>1
    <3> QED
      BY <3>2, <3>3
  <2> QED
    BY <2>3, <2>4
<1>5. W!In("queued") = waiting
  <2>1. \A e \in Execs : job[e].status = "queued" <=> Live(e) /\ ~(AtWork(s) /\ e = s[1])
    BY <1>2 DEF Live
  <2>2. \A e \in Execs : Live(e) <=> \E i \in DOMAIN s : s[i] = e
    BY <1>1 DEF Line
  <2>3. \A i \in DOMAIN s : s[i] = s[1] => i = 1
    <3>1. \A i \in DOMAIN s : 1 \in DOMAIN s
      BY <1>2
    <3> QED
      BY <1>1, <3>1 DEF Line
  <2>4. \A i : i \in from .. Len(s) <=> i \in DOMAIN s /\ ~(AtWork(s) /\ i = 1)
    BY <1>2
  <2> HIDE DEF from
  <2>5. \A e \in Execs : job[e].status = "queued" <=> \E i \in from .. Len(s) : s[i] = e
    BY <2>1, <2>2, <2>3, <2>4
  <2> QED
    BY <1>2, <2>4, <2>5 DEF W!In
<1>6. Cardinality(waiting) = Cardinality(from .. Len(s))
  <2> DEFINE f == [i \in from .. Len(s) |-> s[i]]
  <2>1. \A i \in from .. Len(s) : i \in DOMAIN s
    BY <1>2
  <2> HIDE DEF from
  <2>2. \A i, j \in from .. Len(s) : s[i] = s[j] => i = j
    BY <1>1, <2>1 DEF Line
  <2>3. f \in Bijection(from .. Len(s), waiting)
    BY <2>2 DEF Bijection, Injection, Surjection, IsInjective
  <2>4. IsFiniteSet(from .. Len(s))
    BY <1>2, FS_Interval, SMTT(30) DEF from
  <2> QED
    BY <2>3, <2>4, FS_Bijection DEF ExistsBijection
<1>7. Cardinality(from .. Len(s)) = queued
  <2>1. queued = IF AtWork(s) THEN Len(s) - 1 ELSE Len(s)
    BY <1>1 DEF Line
  <2>2. Len(s) \in Int /\ from \in Int /\ (AtWork(s) => Len(s) > 0)
    BY <1>2
  <2>3. from = IF AtWork(s) THEN 2 ELSE 1
    OBVIOUS
  <2> HIDE DEF from
  <2>4. Cardinality(from .. Len(s)) = IF from > Len(s) THEN 0 ELSE Len(s) - from + 1
    BY <2>2, FS_Interval
  <2>5. CASE AtWork(s)
    BY <1>2, <2>1, <2>2, <2>3, <2>4, <2>5
  <2>6. CASE ~AtWork(s)
    BY <1>2, <2>1, <2>2, <2>3, <2>4, <2>6
  <2> QED
    BY <2>5, <2>6
<1> QED
  <2>1. \A a : W!Cardinality(a) = Cardinality(a)
    BY DEF W!Cardinality, Cardinality
  <2>2. queued = W!Cardinality(W!In("queued")) /\ W!Cardinality(W!In("running")) <= 1
    BY <1>4, <1>5, <1>6, <1>7, <2>1
  <2>3. queued <= MaxQueued
    BY DEF WInv
  <2> QED
    BY <1>4, <2>2, <2>3, Zenon DEF W!OneAtATime

\* A step of the server on one command: it starts, or it is over.
LEMMA ServeStep ==
    ASSUME WInv, NEW e \in Execs, W!Serve(e)
    PROVE  WInv'
<1>0. /\ caller \in [Execs -> {"idle", "waiting", "whole", "cut", "failed"}]
      /\ job \in [Execs -> [status : {"none", "queued", "running", "ended", "threw"},
                            after : Execs \cup {NoExec}, stop : {"no", "timeout", "abort"}]]
      /\ connected \subseteq Execs /\ early \subseteq Execs /\ chain \in Execs \cup {NoExec}
      /\ queued \in Nat /\ queued <= MaxQueued /\ MaxQueued \in Nat
      /\ CallersKnown /\ W!ToldTheTruth /\ W!RunsForSomebody
  BY WorkspaceConstants DEF WInv, W!TypeOK
<1>1. CASE W!Begin(e)
  <2>1. /\ job[e].status = "queued" /\ busy' = TRUE /\ queued' = queued - 1
        /\ job' = [job EXCEPT ![e].status = "running", ![e].after = NoExec]
        /\ UNCHANGED <<caller, connected, chain, early>>
    BY <1>1 DEF W!Begin, W!Ready
  <2>2. /\ job'[e].status = "running" /\ job'[e].stop = job[e].stop
        /\ \A x \in Execs \ {e} : job'[x] = job[x]
        /\ job' \in [Execs -> [status : {"none", "queued", "running", "ended", "threw"},
                               after : Execs \cup {NoExec}, stop : {"no", "timeout", "abort"}]]
    BY <1>0, <2>1, ZenonT(30)
  <2>3. queued' \in Nat /\ queued' <= MaxQueued
    <3>1. PICK s \in Seq(Execs) : Line(s)
      BY DEF WInv, InLine
    <3>2. s # <<>> /\ ~AtWork(s) /\ Len(s) \in Nat /\ (s # <<>> <=> Len(s) > 0)
      BY <1>1, <3>1, LineFacts DEF WInv, W!Begin
    <3>3. queued = Len(s)
      BY <3>1, <3>2 DEF Line
    <3> QED
      BY <1>0, <2>1, <3>2, <3>3
  <2>4. W!TypeOK'
    BY <1>0, <2>1, <2>2, <2>3 DEF W!TypeOK
  <2>5. CallersKnown' /\ W!ToldTheTruth' /\ W!RunsForSomebody'
    BY <1>0, <2>1, <2>2 DEF CallersKnown, W!ToldTheTruth, W!RunsForSomebody, W!In
  <2> QED
    BY <1>1, <2>3, <2>4, <2>5, BeginLine DEF WInv
<1>2. ASSUME NEW how \in {"ended", "threw"}, W!End(e, how) PROVE WInv'
  <2>1. /\ job[e].status = "running" /\ busy' = FALSE
        /\ job' = [job EXCEPT ![e].status = how]
        /\ caller' = IF e \in connected THEN [caller EXCEPT ![e] = W!Told(e, how)] ELSE caller
        /\ connected' = connected \ {e}
        /\ UNCHANGED <<chain, queued, early>>
    BY <1>2 DEF W!End
  <2>2. /\ job'[e].status = how /\ job'[e].stop = job[e].stop
        /\ \A x \in Execs \ {e} : job'[x] = job[x]
        /\ job' \in [Execs -> [status : {"none", "queued", "running", "ended", "threw"},
                               after : Execs \cup {NoExec}, stop : {"no", "timeout", "abort"}]]
    BY <1>0, <2>1
  <2>3. W!Told(e, how) \in {"whole", "cut", "failed"}
    BY DEF W!Told
  <2>4. /\ caller' \in [Execs -> {"idle", "waiting", "whole", "cut", "failed"}]
        /\ \A x \in Execs \ {e} : caller'[x] = caller[x]
        /\ e \in connected => caller'[e] = W!Told(e, how)
        /\ e \notin connected => caller'[e] = caller[e]
    BY <1>0, <2>1, <2>3
  <2>5. W!TypeOK'
    BY <1>0, <2>1, <2>2, <2>4 DEF W!TypeOK
  <2>6. caller[e] # "idle" /\ (e \notin connected => caller[e] # "waiting" /\ caller[e] # "whole")
    BY <1>0, <2>1 DEF CallersKnown, W!ToldTheTruth
  <2>7. e \in connected /\ W!Told(e, how) = "whole" => how = "ended" /\ job[e].stop = "no"
    <3>1. job[e].stop \in {"no", "timeout", "abort"}
      BY <1>0
    <3> QED
      BY <1>0, <1>2, <3>1 DEF W!Told, CallersKnown
  <2>8. CallersKnown'
    BY <1>0, <2>1, <2>2, <2>3, <2>4, <2>6 DEF CallersKnown
  <2>9. W!ToldTheTruth'
    <3> SUFFICES ASSUME NEW x \in Execs
                 PROVE  /\ caller'[x] = "whole" => job'[x].status = "ended" /\ job'[x].stop = "no"
                        /\ caller'[x] = "waiting" => job'[x].status \in {"queued", "running"}
                                                      /\ x \in connected'
      BY DEF W!ToldTheTruth
    <3>1. CASE x # e
      BY <1>0, <2>1, <2>2, <2>4, <3>1 DEF W!ToldTheTruth
    <3>2. CASE x = e
      BY <2>2, <2>3, <2>4, <2>6, <2>7, <3>2
    <3> QED
      BY <3>1, <3>2
  <2>10. W!RunsForSomebody'
    BY <1>0, <1>2, <2>1, <2>2 DEF W!RunsForSomebody, W!In
  <2>11. InLine'
    BY <1>2, EndLine
  <2> QED
    BY <1>0, <2>1, <2>5, <2>8, <2>9, <2>10, <2>11 DEF WInv
<1> QED
  BY <1>1, <1>2 DEF W!Serve

\* A caller who leaves takes a running command along, and is remembered by a
\* queued one.
LEMMA HangUpStep ==
    ASSUME WInv, NEW e \in Execs, W!HangUp(e, "failed")
    PROVE  WInv'
<1>0. /\ caller \in [Execs -> {"idle", "waiting", "whole", "cut", "failed"}]
      /\ job \in [Execs -> [status : {"none", "queued", "running", "ended", "threw"},
                            after : Execs \cup {NoExec}, stop : {"no", "timeout", "abort"}]]
      /\ connected \subseteq Execs /\ early \subseteq Execs
      /\ CallersKnown /\ W!ToldTheTruth /\ W!RunsForSomebody
  BY DEF WInv, W!TypeOK
<1>1. /\ caller[e] = "waiting" /\ caller' = [caller EXCEPT ![e] = "failed"]
      /\ connected' = connected \ {e} /\ job' = W!Stopped(e)
      /\ early' = IF job[e].status = "queued" THEN early \cup {e} ELSE early
      /\ UNCHANGED <<chain, queued, busy>>
  BY DEF W!HangUp
<1>2. /\ job' \in [Execs -> [status : {"none", "queued", "running", "ended", "threw"},
                             after : Execs \cup {NoExec}, stop : {"no", "timeout", "abort"}]]
      /\ \A x \in Execs : job'[x].status = job[x].status /\ job'[x].after = job[x].after
      /\ \A x \in Execs \ {e} : job'[x] = job[x]
      /\ job[e].status = "running" => job'[e].stop # "no"
      /\ job[e].status # "running" => job'[e] = job[e]
  BY <1>0, <1>1 DEF W!Stopped
<1>3. W!TypeOK'
  BY <1>0, <1>1, <1>2 DEF WInv, W!TypeOK
<1>4. CallersKnown'
  BY <1>0, <1>1, <1>2 DEF CallersKnown
<1>5. W!ToldTheTruth'
  BY <1>0, <1>1, <1>2 DEF W!ToldTheTruth
<1>6. W!RunsForSomebody'
  BY <1>0, <1>1, <1>2 DEF W!RunsForSomebody, W!In
<1>7. InLine'
  BY <1>1, <1>2, SameLine
<1> QED
  BY <1>1, <1>3, <1>4, <1>5, <1>6, <1>7 DEF WInv

\* A command is accepted, or turned away, or reaches its timeout.
LEMMA OtherStep ==
    ASSUME WInv, NEW e \in Execs, W!Post(e) \/ W!TurnedAway(e) \/ W!RunOut(e)
    PROVE  WInv'
<1>0. /\ caller \in [Execs -> {"idle", "waiting", "whole", "cut", "failed"}]
      /\ job \in [Execs -> [status : {"none", "queued", "running", "ended", "threw"},
                            after : Execs \cup {NoExec}, stop : {"no", "timeout", "abort"}]]
      /\ connected \subseteq Execs /\ early \subseteq Execs /\ chain \in Execs \cup {NoExec}
      /\ queued \in Nat /\ queued <= MaxQueued /\ MaxQueued \in Nat
      /\ CallersKnown /\ W!ToldTheTruth /\ W!RunsForSomebody
  BY WorkspaceConstants DEF WInv, W!TypeOK
<1>1. CASE W!Post(e)
  <2>1. /\ caller[e] = "idle" /\ caller' = [caller EXCEPT ![e] = "waiting"]
        /\ connected' = connected \cup {e}
        /\ job' = [job EXCEPT ![e] = [status |-> "queued", after |-> chain, stop |-> "no"]]
        /\ chain' = e /\ queued' = queued + 1 /\ queued < MaxQueued
        /\ UNCHANGED <<busy, early>>
    BY <1>1 DEF W!Post, W!Follow, W!HasRoom
  <2>2. /\ job'[e].status = "queued" /\ job'[e].stop = "no"
        /\ \A x \in Execs \ {e} : job'[x] = job[x]
        /\ job' \in [Execs -> [status : {"none", "queued", "running", "ended", "threw"},
                               after : Execs \cup {NoExec}, stop : {"no", "timeout", "abort"}]]
    BY <1>0, <2>1
  <2>3. queued' \in Nat /\ queued' <= MaxQueued
    BY <1>0, <2>1
  <2>4. W!TypeOK'
    BY <1>0, <2>1, <2>2, <2>3 DEF WInv, W!TypeOK
  <2>5. CallersKnown' /\ W!ToldTheTruth' /\ W!RunsForSomebody'
    BY <1>0, <2>1, <2>2 DEF CallersKnown, W!ToldTheTruth, W!RunsForSomebody, W!In
  <2> QED
    BY <1>1, <2>3, <2>4, <2>5, PostLine DEF WInv
<1>2. CASE W!TurnedAway(e)
  <2>1. /\ caller[e] = "idle" /\ caller' = [caller EXCEPT ![e] = "failed"]
        /\ UNCHANGED <<connected, job, chain, queued, busy, early>>
    BY <1>2 DEF W!TurnedAway
  <2>2. W!TypeOK' /\ CallersKnown' /\ W!ToldTheTruth' /\ W!RunsForSomebody'
    BY <1>0, <2>1 DEF WInv, W!TypeOK, CallersKnown, W!ToldTheTruth, W!RunsForSomebody, W!In
  <2>3. InLine'
    BY <2>1, SameLine
  <2> QED
    BY <1>0, <2>1, <2>2, <2>3 DEF WInv
<1>3. CASE W!RunOut(e)
  <2>1. /\ job[e].status = "running" /\ job[e].stop = "no"
        /\ job' = [job EXCEPT ![e].stop = "timeout"]
        /\ UNCHANGED <<caller, connected, chain, queued, busy, early>>
    BY <1>3 DEF W!RunOut
  <2>2. /\ \A x \in Execs : job'[x].status = job[x].status /\ job'[x].after = job[x].after
        /\ job'[e].stop = "timeout" /\ \A x \in Execs \ {e} : job'[x] = job[x]
        /\ job' \in [Execs -> [status : {"none", "queued", "running", "ended", "threw"},
                               after : Execs \cup {NoExec}, stop : {"no", "timeout", "abort"}]]
    BY <1>0, <2>1
  <2>3. W!TypeOK' /\ CallersKnown' /\ W!RunsForSomebody'
    BY <1>0, <2>1, <2>2 DEF WInv, W!TypeOK, CallersKnown, W!RunsForSomebody, W!In
  <2>4. W!ToldTheTruth'
    BY <1>0, <2>1, <2>2 DEF W!ToldTheTruth
  <2>5. InLine'
    BY <2>1, <2>2, SameLine
  <2> QED
    BY <1>0, <2>1, <2>3, <2>4, <2>5 DEF WInv
<1> QED
  BY <1>1, <1>2, <1>3


LEMMA WorkspaceStart == W!Init => WInv
<1> SUFFICES ASSUME W!Init PROVE WInv
  OBVIOUS
<1>1. /\ \A e \in Execs : /\ caller[e] = "idle"
                           /\ job[e] = [status |-> "none", after |-> NoExec, stop |-> "no"]
      /\ connected = {} /\ chain = NoExec /\ queued = 0 /\ busy = FALSE /\ early = {}
      /\ NoExec \notin Execs /\ MaxQueued \in Nat
  BY WorkspaceConstants DEF W!Init
<1>2. W!TypeOK /\ queued <= MaxQueued
  <2>1. /\ caller \in [Execs -> {"idle", "waiting", "whole", "cut", "failed"}]
        /\ job \in [Execs -> [status : {"none", "queued", "running", "ended", "threw"},
                              after : Execs \cup {NoExec}, stop : {"no", "timeout", "abort"}]]
    BY DEF W!Init
  <2>2. queued \in Nat /\ queued <= MaxQueued
    BY <1>1
  <2>4. busy \in BOOLEAN
    BY <1>1
  <2>3. connected \subseteq Execs /\ early \subseteq Execs /\ chain \in Execs \cup {NoExec}
    BY <1>1
  <2> QED
    BY <2>1, <2>2, <2>3, <2>4 DEF W!TypeOK
<1>3. CallersKnown /\ W!ToldTheTruth /\ W!RunsForSomebody
  BY <1>1 DEF CallersKnown, W!ToldTheTruth, W!RunsForSomebody, W!In
<1>4. <<>> \in Seq(Execs) /\ DOMAIN <<>> = {} /\ Len(<<>>) = 0
  OBVIOUS
<1>5. Line(<<>>)
  <2>1. AtWork(<<>>) = FALSE /\ W!Settled(chain) /\ \A e \in Execs : ~Live(e)
    BY <1>1 DEF AtWork, W!Settled, Live
  <2>2. busy = AtWork(<<>>)
    BY <1>1, <2>1
  <2>4. queued = IF AtWork(<<>>) THEN Len(<<>>) - 1 ELSE Len(<<>>)
    BY <1>1, <1>4, <2>1
  <2>3. \A e \in Execs : Live(e) <=> \E i \in DOMAIN <<>> : <<>>[i] = e
    BY <1>4, <2>1
  <2> QED
    BY <1>4, <2>1, <2>2, <2>3, <2>4 DEF Line
<1> QED
  BY <1>2, <1>3, <1>4, <1>5 DEF WInv, InLine

LEMMA WorkspaceStep == WInv /\ [W!Next]_(W!vars) => WInv'
<1> SUFFICES ASSUME WInv, [W!Next]_(W!vars) PROVE WInv'
  OBVIOUS
<1>1. CASE W!Next
  BY <1>1, ServeStep, HangUpStep, OtherStep DEF W!Next, W!GiveUp, W!Cancel
<1>2. CASE UNCHANGED W!vars
  <2>1. InLine'
    BY <1>2, SameLine DEF W!vars
  <2> QED
    BY <1>2, <2>1 DEF W!vars, WInv, W!TypeOK, CallersKnown, W!ToldTheTruth, W!RunsForSomebody, W!In
<1> QED
  BY <1>1, <1>2

LEMMA WorkspaceSound == WInv => W!QueueSound
BY LineCounts DEF WInv, W!QueueSound

\* The workspace runs one command at a time, for somebody, and tells the truth.
THEOREM QueuesAreSound == Spec => []QueueSound
<1>1. Init => W!Init
  BY DEF Init
<1>2. [Next]_vars => [W!Next]_(W!vars)
  BY Apart
<1> QED
  BY <1>1, <1>2, WorkspaceStart, WorkspaceStep, WorkspaceSound, PTL DEF Spec, QueueSound

-----------------------------------------------------------------------------
\* The circuit. A call that sleeps has an attempt left.
BreakerInv ==
    /\ B!TypeOK /\ B!OpenMeansClosedDoor
    /\ \A c \in Callers : call[c] = "sleeping" => attempt[c] < MaxRetries

LEMMA BreakerStart == B!Init => BreakerInv
BY ServiceConstants, SMT DEF B!Init, BreakerInv, B!TypeOK, B!OpenMeansClosedDoor, B!InFlight

LEMMA BreakerStep == BreakerInv /\ [B!Next]_(B!vars) => BreakerInv'
<1> SUFFICES ASSUME BreakerInv, [B!Next]_(B!vars) PROVE BreakerInv'
  OBVIOUS
<1> USE ServiceConstants DEF BreakerInv, B!TypeOK, B!OpenMeansClosedDoor, B!InFlight
<1>1. CASE UNCHANGED B!vars
  BY <1>1 DEF B!vars
<1>2. CASE \E c \in Callers : B!Execute(c)
  BY <1>2 DEF B!Execute, B!Admit, B!HalfOpen, B!CooledDown
<1>3. CASE \E c \in Callers : B!Reject(c)
  BY <1>3 DEF B!Reject, B!vars
<1>4. ASSUME NEW c \in Callers, B!Succeed(c) PROVE BreakerInv'
  BY <1>4 DEF B!Succeed, B!OnSuccess
<1>5. ASSUME NEW c \in Callers, B!BackOff(c) PROVE BreakerInv'
  BY <1>5 DEF B!BackOff
<1>6. ASSUME NEW c \in Callers, B!Retry(c) PROVE BreakerInv'
  BY <1>6 DEF B!Retry
<1>7. ASSUME NEW c \in Callers, B!Fail(c) PROVE BreakerInv'
  BY <1>7 DEF B!Fail, B!Trips, B!UpTo
<1>8. CASE B!Tick
  BY <1>8 DEF B!Tick
<1>9. CASE B!Outage
  BY <1>9 DEF B!Outage
<1> QED
  BY <1>1, <1>2, <1>3, <1>4, <1>5, <1>6, <1>7, <1>8, <1>9 DEF B!Next, B!Settle

-----------------------------------------------------------------------------
\* The task table: a record that is over has one verdict, any other none.
Statuses == {"absent", "pending", "running"} \cup T!Terminal

TableInv ==
    /\ tasks \in [Ids -> [status : Statuses, by : Actors \cup {"nobody"}]]
    /\ verdict \in [Ids -> SUBSET (Actors \X T!Terminal)]
    /\ \A i \in Ids : verdict[i] = IF tasks[i].status \in T!Terminal
                                   THEN {<<tasks[i].by, tasks[i].status>>} ELSE {}

LEMMA TableStart == T!Init => TableInv
BY DEF T!Init, TableInv, Statuses, T!Terminal, T!Absent

LEMMA TableStep == TableInv /\ [T!Next]_(T!vars) => TableInv'
<1> SUFFICES ASSUME TableInv, [T!Next]_(T!vars) PROVE TableInv'
  OBVIOUS
<1> USE DEF TableInv, Statuses, T!Terminal
<1>1. CASE UNCHANGED T!vars
  BY <1>1 DEF T!vars
<1>2. ASSUME NEW a \in Actors, NEW i \in Ids, T!Create(a, i) PROVE TableInv'
  BY <1>2 DEF T!Create, T!Absent
<1>3. ASSUME NEW a \in Actors, NEW i \in Ids, T!Get(a, i) PROVE TableInv'
  BY <1>3 DEF T!Get
<1>4. ASSUME NEW a \in Actors, NEW s \in {"running"} \cup T!Terminal, T!Scribble(a, s) PROVE TableInv'
  BY <1>4 DEF T!Scribble
<1>5. ASSUME NEW a \in Actors, NEW s \in {"running"} \cup T!Terminal, T!Transition(a, s) PROVE TableInv'
  <2> DEFINE i == copy[a].id
  <2>1. i \in Ids
    BY <1>5 DEF T!Transition
  <2>2. CASE UNCHANGED <<tasks, verdict>>
    BY <2>2
  <2>3. CASE s = "running" /\ tasks[i].status = "pending" /\ tasks' = [tasks EXCEPT ![i] = [status |-> s, by |-> a]] /\ UNCHANGED verdict
    BY <2>1, <2>3
  <2>4. CASE /\ s \in T!Terminal /\ tasks[i].status \in {"pending", "running"}
             /\ tasks' = [tasks EXCEPT ![i] = [status |-> s, by |-> a]]
             /\ verdict' = [verdict EXCEPT ![i] = verdict[i] \cup {<<a, s>>}]
    <3>1. verdict[i] = {}
      BY <2>1, <2>4
    <3>2. verdict' = [verdict EXCEPT ![i] = {<<a, s>>}]
      BY <2>4, <3>1
    <3>3. tasks' \in [Ids -> [status : Statuses, by : Actors \cup {"nobody"}]]
      BY <2>1, <2>4
    <3>4. verdict' \in [Ids -> SUBSET (Actors \X T!Terminal)]
      BY <2>1, <2>4, <3>2
    <3>5. tasks'[i] = [status |-> s, by |-> a] /\ verdict'[i] = {<<a, s>>}
      BY <2>1, <2>4, <3>2
    <3>6. \A j \in Ids : j # i => tasks'[j] = tasks[j] /\ verdict'[j] = verdict[j]
      BY <2>1, <2>4
    <3> QED
      BY <2>4, <3>3, <3>4, <3>5, <3>6
  <2> QED
    BY <1>5, <2>1, <2>2, <2>3, <2>4 DEF T!Transition, T!CanTransition
<1>6. ASSUME NEW a \in Actors, T!Update(a) PROVE TableInv'
  BY <1>6 DEF T!Update
<1> QED
  BY <1>1, <1>2, <1>3, <1>4, <1>5, <1>6 DEF T!Next

LEMMA TableSound == TableInv => T!OneVerdict
<1> SUFFICES ASSUME TableInv, NEW i \in Ids
             PROVE  /\ T!Cardinality(verdict[i]) <= 1
                    /\ tasks[i].status \in T!Terminal => verdict[i] = {<<tasks[i].by, tasks[i].status>>}
  BY DEF T!OneVerdict
<1>1. \A s : T!Cardinality(s) = Cardinality(s)
  BY DEF T!Cardinality, Cardinality
<1>2. Cardinality({}) = 0 /\ \A x : Cardinality({x}) = 1
  BY FS_EmptySet, FS_Singleton
<1>3. verdict[i] = {} \/ verdict[i] = {<<tasks[i].by, tasks[i].status>>}
  BY DEF TableInv
<1>4. Cardinality(verdict[i]) = 0 \/ Cardinality(verdict[i]) = 1
  BY <1>2, <1>3, Zenon
<1>5. T!Cardinality(verdict[i]) <= 1
  BY <1>1, <1>4
<1> QED
  BY <1>5 DEF TableInv
-----------------------------------------------------------------------------
\* The recorded answers. While one call alone records a request, the tape has no
\* answer to it yet.
TapeInv ==
    /\ mode \in {"record", "replay", "auto"}
    /\ request \in [Calls -> [at : {"idle", "asking", "streaming", "replayed", "missed", "answered", "threw", "left"},
                              key : Keys, got : Calls \cup {NoExec}]]
    /\ cassette \in [Keys -> Calls \cup {NoExec}]
    /\ V!Hermetic
    /\ mode = "auto" => \A c, d \in Calls :
           c \in V!Asking(request[c].key) /\ request[c].key \notin rival =>
               /\ cassette[request[c].key] = NoExec
               /\ d \in V!Asking(request[c].key) => d = c

LEMMA TapeStart == V!Init => TapeInv
<1>1. (CHOOSE k \in Keys : TRUE) \in Keys
  BY ServiceConstants
<1> QED
  BY <1>1 DEF V!Init, TapeInv, V!Hermetic, V!Asking

LEMMA TapeStep == TapeInv /\ [V!Next]_(V!vars) => TapeInv'
<1> SUFFICES ASSUME TapeInv, [V!Next]_(V!vars) PROVE TapeInv'
  OBVIOUS
<1> USE ServiceConstants DEF TapeInv, V!Hermetic, V!Asking
<1>1. CASE UNCHANGED V!vars
  BY <1>1 DEF V!vars
<1>2. ASSUME NEW c \in Calls, NEW k \in Keys, V!Request(c, k) PROVE TapeInv'
  <2> USE <1>2 DEF V!Request, V!Hits
  <2>1. UNCHANGED <<mode, cassette>> /\ request[c].at = "idle"
    OBVIOUS
  <2>2. CASE \E pos \in {"replayed", "missed"} :
               /\ pos = "replayed" => cassette[k] # NoExec /\ mode # "record"
               /\ pos = "missed" => cassette[k] = NoExec
               /\ request' = [request EXCEPT ![c] = [at |-> pos, key |-> k, got |-> cassette[k]]]
               /\ UNCHANGED rival
    BY <2>1, <2>2
  <2>3. CASE \E pos \in {"asking", "streaming"} :
               /\ mode # "replay"
               /\ cassette[k] = NoExec \/ mode = "record"
               /\ request' = [request EXCEPT ![c] = [at |-> pos, key |-> k, got |-> NoExec]]
               /\ rival' = IF V!Asking(k) # {} THEN rival \cup {k} ELSE rival
    BY <2>1, <2>3
  <2>4. CASE V!Hits(k) /\ request' = [request EXCEPT ![c] = [at |-> "replayed", key |-> k, got |-> cassette[k]]] /\ UNCHANGED rival
    BY <2>2, <2>4
  <2>5. CASE ~V!Hits(k) /\ mode = "replay" /\ request' = [request EXCEPT ![c] = [at |-> "missed", key |-> k, got |-> NoExec]] /\ UNCHANGED rival
    <3>1. cassette[k] = NoExec
      BY <2>5
    <3> QED
      BY <2>2, <2>5, <3>1
  <2>6. CASE ~V!Hits(k) /\ mode # "replay"
    <3>1. cassette[k] = NoExec \/ mode = "record"
      BY <2>6
    <3> HIDE DEF V!Asking, TapeInv, V!Hermetic
    <3> QED
      BY <2>3, <2>6, <3>1
  <2> HIDE DEF V!Asking, V!Hits, TapeInv, V!Hermetic
  <2> QED
    BY <2>4, <2>5, <2>6, Zenon
<1>3. ASSUME NEW c \in Calls, NEW how \in {"answered", "threw", "left"}, V!Settle(c, how) PROVE TapeInv'
  <2> DEFINE k == request[c].key
             got == IF how = "answered" THEN c ELSE NoExec
  <2>1. k \in Keys /\ request[c].at \in {"asking", "streaming"} /\ c \in V!Asking(k)
    BY <1>3 DEF V!Settle
  <2>2. /\ request' = [request EXCEPT ![c] = [at |-> how, key |-> k, got |-> got]]
        /\ cassette' = IF how = "answered" THEN [cassette EXCEPT ![k] = c] ELSE cassette
        /\ UNCHANGED <<mode, rival>>
    <3>1. request' = [request EXCEPT ![c].at = how, ![c].got = got]
      BY <1>3 DEF V!Settle
    <3>2. request'[c] = [at |-> how, key |-> k, got |-> got] /\ \A d \in Calls \ {c} : request'[d] = request[d]
      BY <2>1, <3>1, ZenonT(30)
    <3>3. DOMAIN request' = Calls /\ request' = [d \in Calls |-> request'[d]]
      BY <3>1
    <3>4. request' = [request EXCEPT ![c] = [at |-> how, key |-> k, got |-> got]]
      BY <3>2, <3>3
    <3> QED
      BY <1>3, <3>4 DEF V!Settle, V!RecordedWhole
  <2>3. mode # "replay" /\ (mode = "auto" /\ k \notin rival => cassette[k] = NoExec)
    BY <2>1
  <2>4. /\ request'[c] = [at |-> how, key |-> k, got |-> got]
        /\ \A d \in Calls \ {c} : request'[d] = request[d]
        /\ \A j \in Keys : cassette'[j] = IF how = "answered" /\ j = k THEN c ELSE cassette[j]
    BY <2>1, <2>2
  <2>5. /\ request' \in [Calls -> [at : {"idle", "asking", "streaming", "replayed", "missed", "answered", "threw", "left"},
                                  key : Keys, got : Calls \cup {NoExec}]]
        /\ cassette' \in [Keys -> Calls \cup {NoExec}]
    BY <2>1, <2>2
  <2>6. ASSUME mode = "auto", NEW d \in Calls, request'[d].got # NoExec, request'[d].key \notin rival
        PROVE  request'[d].got = cassette'[request'[d].key]
    <3>1. CASE d = c
      BY <2>1, <2>4, <2>6, <3>1
    <3>2. CASE d # c
      <4>1. request[d].key \in Keys /\ request[d].got = cassette[request[d].key] /\ cassette[request[d].key] # NoExec
        BY <2>4, <2>6, <3>2
      <4>2. request[d].key # k
        BY <2>3, <2>4, <2>6, <3>2, <4>1
      <4> QED
        BY <2>4, <3>2, <4>1, <4>2
    <3> QED
      BY <3>1, <3>2
  <2>7. ASSUME NEW j \in Keys, cassette'[j] # NoExec
        PROVE  request'[cassette'[j]].at = "answered"
    <3>1. CASE how = "answered" /\ j = k
      BY <2>1, <2>4, <3>1
    <3>2. CASE ~(how = "answered" /\ j = k)
      <4>1. cassette'[j] = cassette[j] /\ request[cassette[j]].at = "answered" /\ cassette[j] \in Calls
        BY <2>3, <2>4, <2>7, <3>2
      <4> QED
        BY <2>1, <2>4, <4>1
    <3> QED
      BY <3>1, <3>2
  <2>8. \A d \in Calls : mode = "record" => request'[d].at # "replayed"
    BY <2>4
  <2>9. ASSUME mode = "auto", NEW d \in Calls, NEW e \in Calls,
               request'[d].at \in {"asking", "streaming"}, request'[d].key \notin rival
        PROVE  /\ cassette'[request'[d].key] = NoExec
               /\ request'[e].at \in {"asking", "streaming"} /\ request'[e].key = request'[d].key => e = d
    <3>1. d # c /\ request'[d] = request[d] /\ request[d].key \in Keys
      BY <2>4, <2>9
    <3>2. request[d].key # k
      BY <2>1, <2>9, <3>1
    <3>3. cassette'[request[d].key] = NoExec
      BY <2>4, <2>9, <3>1, <3>2
    <3>4. request'[e].at \in {"asking", "streaming"} => e # c /\ request'[e] = request[e]
      BY <2>4
    <3> QED
      BY <2>9, <3>1, <3>3, <3>4
  <2> QED
    BY <2>2, <2>3, <2>5, <2>6, <2>7, <2>8, <2>9
<1> QED
  BY <1>1, <1>2, <1>3 DEF V!Next
-----------------------------------------------------------------------------
\* The prompt: an answer on its way carries a version that was published.
PromptInv ==
    /\ published \in Nat
    /\ fetch \in [Fetches -> 0 .. published]
    /\ D!PromptIsKnown

LEMMA PromptStart == D!Init => PromptInv
BY DEF D!Init, PromptInv, D!PromptIsKnown

LEMMA PromptStep == PromptInv /\ [D!Next]_(D!vars) => PromptInv'
<1> SUFFICES ASSUME PromptInv, [D!Next]_(D!vars) PROVE PromptInv'
  OBVIOUS
<1> USE DEF PromptInv, D!PromptIsKnown
<1>1. CASE UNCHANGED D!vars
  BY <1>1 DEF D!vars
<1>2. CASE D!Publish
  BY <1>2 DEF D!Publish
<1>3. CASE D!Stop
  BY <1>3 DEF D!Stop
<1>4. ASSUME NEW f \in Fetches, D!Start(f) \/ D!Poll(f) PROVE PromptInv'
  BY <1>4 DEF D!Start, D!Poll, D!Asked
<1>5. ASSUME NEW f \in Fetches, NEW works \in BOOLEAN, D!Refreshed(f, works) PROVE PromptInv'
  BY <1>5 DEF D!Refreshed, D!Taken
<1> QED
  BY <1>1, <1>2, <1>3, <1>4, <1>5 DEF D!Next, D!Arrive

-----------------------------------------------------------------------------
\* A streamed turn: what came of the connection, and of each call's arguments.
TurnInv ==
    /\ api \in {"openai", "anthropic"}
    /\ body \in {"asking", "reading", "yielding", "handed", "over"}
    /\ heard \in [billed : BOOLEAN, text : Nat, args : [Slots -> 0 .. 3],
                  finish : {"none", "stop", "length", "filter"}, usage : BOOLEAN]
    /\ M!HungUp
    /\ heard.finish = "stop" => M!Complete
    /\ response # M!NoResponse => body \in {"handed", "over"}
    /\ M!CutCallNeverRuns

LEMMA TurnStart == M!Init => TurnInv
BY DEF M!Init, TurnInv, M!HungUp, M!CutCallNeverRuns, M!Unheard

LEMMA TurnStep == TurnInv /\ [M!Next]_(M!vars) => TurnInv'
<1> SUFFICES ASSUME TurnInv, [M!Next]_(M!vars) PROVE TurnInv'
  OBVIOUS
<1> USE DEF TurnInv, M!HungUp, M!Complete, M!Unheard, M!Named, M!Cut, M!Whole
<1>1. CASE UNCHANGED M!vars
  BY <1>1 DEF M!vars, M!CutCallNeverRuns, M!RunsCall
<1>2. CASE M!Open
  BY <1>2 DEF M!Open, M!CutCallNeverRuns
<1>3. CASE M!Read
  <2>1. heard' \in [billed : BOOLEAN, text : Nat, args : [Slots -> 0 .. 3],
                    finish : {"none", "stop", "length", "filter"}, usage : BOOLEAN]
    <3>1. CASE \E i \in Slots : M!CallDelta(i)
      <4>1. PICK i \in Slots : heard.args[i] < 3 /\ heard' = [heard EXCEPT !.args[i] = @ + 1]
        BY <3>1 DEF M!CallDelta
      <4>2. heard' = [heard EXCEPT !.args = [heard.args EXCEPT ![i] = heard.args[i] + 1]]
        BY <4>1
      <4>3. [heard.args EXCEPT ![i] = heard.args[i] + 1] \in [Slots -> 0 .. 3]
        BY <4>1
      <4> QED
        BY <4>2, <4>3
    <3>2. CASE M!MessageStart \/ M!UsageChunk
      BY <3>2 DEF M!MessageStart, M!UsageChunk
    <3>3. CASE \E why \in {"stop", "length", "filter"} : M!FinishDelta(why)
      BY <3>3 DEF M!FinishDelta
    <3> QED
      BY <1>3, <3>1, <3>2, <3>3 DEF M!Read
  <2>2. (heard.finish = "stop" => M!Complete)'
    BY <1>3 DEF M!Read, M!MessageStart, M!CallDelta, M!FinishDelta, M!UsageChunk, M!Unfinished
  <2> QED
    BY <1>3, <2>1, <2>2 DEF M!Read, M!CutCallNeverRuns
<1>4. CASE M!ReadText
  BY <1>4 DEF M!ReadText, M!CutCallNeverRuns
<1>5. CASE M!GoOn \/ M!Timeout
  BY <1>5 DEF M!GoOn, M!Timeout, M!CutCallNeverRuns, M!RunsCall
<1>6. CASE M!Break \/ M!Aborted \/ M!Leave
  BY <1>6 DEF M!Break, M!Aborted, M!Leave, M!Finally, M!CutCallNeverRuns, M!RunsCall
<1>7. CASE M!End
  <2>1. /\ UNCHANGED <<api, heard, given>> /\ body' = "handed" /\ socket' = "closed"
        /\ api = "anthropic" => heard.finish # "none"
    BY <1>7 DEF M!End
  <2>2. ASSUME NEW i \in Slots, M!RunsCall(i)'
        PROVE  heard.args[i] = 3 \/ (heard.args[i] = 1 /\ heard.finish \notin {"length", "filter"})
    <3> DEFINE calls == {j \in Slots : heard.args[j] # 0}
    <3>1. /\ response'.calls = [j \in calls |-> M!Parsed(heard.args[j])]
          /\ response'.stop = M!StopReason(heard.finish, calls)
      BY <1>7 DEF M!End
    <3>2. /\ i \in DOMAIN response'.calls
          /\ response'.stop \notin {"refusal", "max_tokens"}
          /\ response'.calls[i] # "flagged"
      BY <2>2 DEF M!RunsCall
    <3>3. heard.args[i] \in 1 .. 3 /\ M!Parsed(heard.args[i]) # "flagged"
      BY <3>1, <3>2
    <3>4. heard.finish \notin {"length", "filter"}
      BY <3>1, <3>2 DEF M!StopReason
    <3>5. heard.args[i] # 2
      BY <2>1, <3>3, <3>4 DEF M!Parsed
    <3> QED
      BY <3>3, <3>4, <3>5
  <2>3. M!CutCallNeverRuns'
    BY <2>1, <2>2 DEF M!CutCallNeverRuns
  <2> QED
    BY <2>1, <2>3
<1> QED
  BY <1>1, <1>2, <1>3, <1>4, <1>5, <1>6, <1>7 DEF M!Next

-----------------------------------------------------------------------------
\* The batches of the first k tasks: in the order of the list, all of it, and
\* reads keep to themselves.
Batched(effects, k, bs) ==
    /\ bs \in Seq(SUBSET Nat)
    /\ UNION {bs[p] : p \in DOMAIN bs} = 1 .. k
    /\ \A p, q \in DOMAIN bs : p < q => \A i \in bs[p], j \in bs[q] : i < j
    /\ \A p \in DOMAIN bs : \A i, j \in bs[p] : i # j => effects[i] = "read" /\ effects[j] = "read"

\* What batchTasks() makes of the batches before a task.
Joined(effects, done, i) ==
    IF effects[i] = "read" /\ done # <<>> /\ \A j \in C!Last(done) : effects[j] = "read"
    THEN Append(C!Front(done), C!Last(done) \cup {i}) ELSE Append(done, {i})

LEMMA LastFront ==
    ASSUME NEW X, NEW bs \in Seq(X), bs # <<>>
    PROVE  /\ Len(bs) \in Nat \ {0} /\ C!Last(bs) = bs[Len(bs)] /\ C!Last(bs) \in X
           /\ C!Front(bs) \in Seq(X) /\ Len(C!Front(bs)) = Len(bs) - 1
           /\ \A p \in 1 .. Len(bs) - 1 : C!Front(bs)[p] = bs[p]
<1>1. PICK n \in Nat \ {0} : n = Len(bs)
  OBVIOUS
<1>2. \A p \in 1 .. n : bs[p] \in X
  BY <1>1
<1>3. /\ n - 1 = IF 1 <= n - 1 THEN (n - 1) - 1 + 1 ELSE 0
      /\ 1 .. (n - 1) - 1 + 1 = 1 .. n - 1 /\ 1 .. n - 1 \subseteq 1 .. n
      /\ \A p \in 1 .. n - 1 : 1 + p - 1 = p
  OBVIOUS
<1>4. C!Front(bs) \in Seq(X) /\ Len(C!Front(bs)) = n - 1 /\ \A p \in 1 .. n - 1 : C!Front(bs)[p] = bs[p]
  BY <1>1, <1>2, <1>3, SubSeqProperties DEF C!Front
<1> QED
  BY <1>1, <1>2, <1>4 DEF C!Last

LEMMA JoinedType ==
    ASSUME NEW effects, NEW bs \in Seq(SUBSET Nat), NEW i \in Nat
    PROVE  Joined(effects, bs, i) \in Seq(SUBSET Nat)
<1>1. {i} \in SUBSET Nat
  OBVIOUS
<1>2. ASSUME bs # <<>>
      PROVE  C!Front(bs) \in Seq(SUBSET Nat) /\ C!Last(bs) \cup {i} \in SUBSET Nat
  BY <1>2, LastFront
<1> QED
  BY <1>1, <1>2 DEF Joined

\* batchTasks() is what this makes of the empty list, one task after the other.
LEMMA BatchChain ==
    ASSUME NEW X, NEW effects \in Seq(X)
    PROVE  \E f : /\ f[0] = <<>>
                  /\ \A k \in 1 .. Len(effects) : f[k] = Joined(effects, f[k - 1], k)
                  /\ C!BatchTasks(effects) = f[Len(effects)]
<1>0. PICK base : base = <<>>
  OBVIOUS
<1> DEFINE Y == Seq(SUBSET Nat)
           n == Len(effects)
           id == [i \in DOMAIN effects |-> i]
           F == [p \in Y \X (1 .. n) |-> Joined(effects, p[1], p[2])]
           Rec(h) == [s \in SUBSET (DOMAIN id) |-> IF s = {} THEN <<>>
                        ELSE IF /\ effects[id[C!Max(s)]] = "read" /\ h[s \ {C!Max(s)}] # <<>>
                                /\ \A j \in C!Last(h[s \ {C!Max(s)}]) : effects[j] = "read"
                             THEN Append(C!Front(h[s \ {C!Max(s)}]), C!Last(h[s \ {C!Max(s)}]) \cup {id[C!Max(s)]})
                             ELSE Append(h[s \ {C!Max(s)}], {id[C!Max(s)]})]
           h0 == CHOOSE h : h = Rec(h)
<1>1. \A v \in Y : \A k \in 1 .. n : F[<<v, k>>] \in Y
  BY JoinedType
<1>2. n \in Nat /\ base \in Y
  BY <1>0
<1>3. DOMAIN effects = 1 .. n /\ DOMAIN id = 1 .. n /\ \A i \in 1 .. n : id[i] = i
  OBVIOUS
<1>15. \A s : C!Max(s) = Max(s)
  BY DEF C!Max, Max
<1> HIDE DEF n, Y
<1>4. PICK h : IsFold(n, Y, base, F, h)
  <2> HIDE DEF F
  <2> QED
    BY <1>1, <1>2, FoldExists
<1>5. \A s \in SUBSET (1 .. n) : s # {} => Max(s) \in 1 .. n /\ s \ {Max(s)} \in SUBSET (1 .. n)
  BY <1>2, IndexSets
<1>6. \A hh : Rec(hh) = [s \in SUBSET (1 .. n) |-> IF s = {} THEN <<>>
                           ELSE Joined(effects, hh[s \ {Max(s)}], Max(s))]
  <2> HIDE DEF id
  <2> QED
    BY <1>3, <1>5, <1>15 DEF Joined
<1>7. h0 = Rec(h0)
  <2>1. h = [s \in SUBSET (1 .. n) |-> IF s = {} THEN <<>>
               ELSE Joined(effects, h[s \ {Max(s)}], Max(s))]
    BY <1>0, <1>4, <1>5 DEF Folded, IsFold
  <2> HIDE DEF Rec
  <2>2. h = Rec(h)
    BY <1>6, <2>1
  <2>3. \E hh : hh = Rec(hh)
    BY <2>2
  <2> QED
    BY <2>3
<1>8. C!BatchTasks(effects) = h0[1 .. n]
  <2>1. C!BatchTasks(effects) = h0[DOMAIN id]
    BY DEF C!BatchTasks, C!FoldLeft, C!MapThenFoldSet
  <2> QED
    BY <2>1, <1>3
<1> HIDE DEF h0
<1>9. \A s \in SUBSET (1 .. n) :
         h0[s] = IF s = {} THEN <<>> ELSE Joined(effects, h0[s \ {Max(s)}], Max(s))
  <2>1. h0 = [s \in SUBSET (1 .. n) |-> IF s = {} THEN <<>>
                ELSE Joined(effects, h0[s \ {Max(s)}], Max(s))]
    BY <1>6, <1>7
  <2> QED
    BY <2>1
<1> DEFINE f == [k \in 0 .. n |-> h0[1 .. k]]
<1>10. \A k \in 0 .. n : f[k] = h0[1 .. k]
  OBVIOUS
<1> HIDE DEF f
<1>11. 0 \in 0 .. n /\ n \in 0 .. n /\ \A k \in 1 .. n : k - 1 \in 0 .. n /\ k \in 0 .. n
  BY <1>2
<1>12. \A k \in 1 .. n : /\ Max(1 .. k) = k /\ (1 .. k) \ {k} = 1 .. k - 1
                         /\ 1 .. k # {} /\ 1 .. k \in SUBSET (1 .. n)
  BY <1>2, IndexSets
<1>13. f[0] = <<>>
  BY <1>9, <1>10, <1>11, IndexSets
<1>14. ASSUME NEW k \in 1 .. n PROVE f[k] = Joined(effects, f[k - 1], k)
  <2>1. f[k] = h0[1 .. k] /\ f[k - 1] = h0[1 .. k - 1]
    BY <1>10, <1>11
  <2>2. h0[1 .. k] = Joined(effects, h0[(1 .. k) \ {Max(1 .. k)}], Max(1 .. k))
    BY <1>9, <1>12
  <2> QED
    BY <1>12, <2>1, <2>2
<1> QED
  BY <1>8, <1>10, <1>11, <1>13, <1>14 DEF n

LEMMA JoinedBatches ==
    ASSUME NEW effects, NEW k \in Nat \ {0}, NEW bs, Batched(effects, k - 1, bs)
    PROVE  Batched(effects, k, Joined(effects, bs, k))
<1> DEFINE cs == Joined(effects, bs, k)
<1>1. bs \in Seq(SUBSET Nat) /\ cs \in Seq(SUBSET Nat)
  BY JoinedType DEF Batched
<1>2. PICK n \in Nat : n = Len(bs) /\ DOMAIN bs = 1 .. n
  BY <1>1
<1>3. /\ \A i \in Nat : (\E p \in 1 .. n : i \in bs[p]) <=> i \in 1 .. k - 1
      /\ \A p \in 1 .. n : bs[p] \in SUBSET Nat
      /\ \A p, q \in 1 .. n : p < q => \A i \in bs[p], j \in bs[q] : i < j
      /\ \A p \in 1 .. n : \A i, j \in bs[p] : i # j => effects[i] = "read" /\ effects[j] = "read"
  <2>1. UNION {bs[p] : p \in 1 .. n} = 1 .. k - 1
    BY <1>2 DEF Batched
  <2>2. \A i \in Nat : (\E p \in 1 .. n : i \in bs[p]) <=> i \in 1 .. k - 1
    BY <2>1
  <2>3. \A p \in 1 .. n : bs[p] \in SUBSET Nat
    BY <1>1, <1>2
  <2>4. \A p, q \in 1 .. n : p < q => \A i \in bs[p], j \in bs[q] : i < j
    BY <1>2 DEF Batched
  <2>5. \A p \in 1 .. n : \A i, j \in bs[p] : i # j => effects[i] = "read" /\ effects[j] = "read"
    BY <1>2 DEF Batched
  <2> QED
    BY <2>2, <2>3, <2>4, <2>5
<1>4. \A p \in 1 .. n : \A i \in bs[p] : i \in Nat /\ i < k
  BY <1>3
<1>5. CASE effects[k] = "read" /\ bs # <<>> /\ \A j \in C!Last(bs) : effects[j] = "read"
  <2>1. /\ n # 0 /\ C!Last(bs) = bs[n]
        /\ C!Front(bs) \in Seq(SUBSET Nat) /\ Len(C!Front(bs)) = n - 1
        /\ \A p \in 1 .. n - 1 : C!Front(bs)[p] = bs[p]
    BY <1>1, <1>2, <1>5, LastFront
  <2>2. cs = Append(C!Front(bs), bs[n] \cup {k})
    BY <1>5, <2>1 DEF Joined
  <2>3. DOMAIN cs = 1 .. n /\ cs[n] = bs[n] \cup {k} /\ \A p \in 1 .. n - 1 : cs[p] = bs[p]
    BY <2>1, <2>2
  <2> HIDE DEF cs
  <2>4. UNION {cs[p] : p \in 1 .. n} = 1 .. k
    <3>1. ASSUME NEW p \in 1 .. n, NEW i \in cs[p] PROVE i \in 1 .. k
      <4>1. i \in bs[p] \/ i = k
        BY <2>3, <3>1
      <4> QED
        BY <1>3, <4>1
    <3>2. ASSUME NEW i \in 1 .. k PROVE \E p \in 1 .. n : i \in cs[p]
      <4>1. CASE i = k
        BY <2>1, <2>3, <4>1
      <4>2. CASE i # k
        <5>1. PICK p \in 1 .. n : i \in bs[p]
          BY <1>3, <4>2
        <5> QED
          BY <2>3, <5>1
      <4> QED
        BY <4>1, <4>2
    <3> QED
      BY <3>1, <3>2
  <2>5. ASSUME NEW p \in 1 .. n, NEW q \in 1 .. n, p < q, NEW i \in cs[p], NEW j \in cs[q]
        PROVE  i < j
    <3>1. i \in bs[p] /\ (j \in bs[q] \/ j = k)
      BY <2>3, <2>5
    <3> QED
      BY <1>3, <1>4, <2>5, <3>1
  <2>6. ASSUME NEW p \in 1 .. n, NEW i \in cs[p], NEW j \in cs[p], i # j
        PROVE  effects[i] = "read" /\ effects[j] = "read"
    <3>1. CASE p = n
      BY <1>5, <2>1, <2>3, <3>1
    <3>2. CASE p # n
      BY <1>3, <2>3, <2>6, <3>2
    <3> QED
      BY <3>1, <3>2
  <2> QED
    BY <1>1, <2>3, <2>4, <2>5, <2>6 DEF Batched, cs
<1>6. CASE ~(effects[k] = "read" /\ bs # <<>> /\ \A j \in C!Last(bs) : effects[j] = "read")
  <2>2. cs = Append(bs, {k})
    BY <1>6 DEF Joined
  <2>3. DOMAIN cs = 1 .. n + 1 /\ cs[n + 1] = {k} /\ \A p \in 1 .. n : cs[p] = bs[p]
    BY <1>1, <1>2, <2>2
  <2> HIDE DEF cs
  <2>4. UNION {cs[p] : p \in 1 .. n + 1} = 1 .. k
    <3>1. ASSUME NEW p \in 1 .. n + 1, NEW i \in cs[p] PROVE i \in 1 .. k
      <4>1. (p \in 1 .. n /\ i \in bs[p]) \/ i = k
        BY <2>3, <3>1
      <4> QED
        BY <1>3, <4>1
    <3>2. ASSUME NEW i \in 1 .. k PROVE \E p \in 1 .. n + 1 : i \in cs[p]
      <4>1. CASE i = k
        BY <2>3, <4>1
      <4>2. CASE i # k
        <5>1. PICK p \in 1 .. n : i \in bs[p]
          BY <1>3, <4>2
        <5> QED
          BY <2>3, <5>1
      <4> QED
        BY <4>1, <4>2
    <3> QED
      BY <3>1, <3>2
  <2>5. ASSUME NEW p \in 1 .. n + 1, NEW q \in 1 .. n + 1, p < q, NEW i \in cs[p], NEW j \in cs[q]
        PROVE  i < j
    <3>1. p \in 1 .. n /\ i \in bs[p] /\ ((q \in 1 .. n /\ j \in bs[q]) \/ j = k)
      BY <2>3, <2>5
    <3> QED
      BY <1>3, <1>4, <2>5, <3>1
  <2>6. ASSUME NEW p \in 1 .. n + 1, NEW i \in cs[p], NEW j \in cs[p], i # j
        PROVE  effects[i] = "read" /\ effects[j] = "read"
    <3>1. p \in 1 .. n
      BY <2>3, <2>6
    <3> QED
      BY <1>3, <2>3, <2>6, <3>1
  <2> QED
    BY <1>1, <2>3, <2>4, <2>5, <2>6 DEF Batched, cs
<1> QED
  BY <1>5, <1>6

LEMMA BatchesInOrder ==
    ASSUME NEW X, NEW effects \in Seq(X)
    PROVE  Batched(effects, Len(effects), C!BatchTasks(effects))
<1> DEFINE n == Len(effects)
<1>1. n \in Nat
  OBVIOUS
<1>2. PICK f : /\ f[0] = <<>>
               /\ \A k \in 1 .. n : f[k] = Joined(effects, f[k - 1], k)
               /\ C!BatchTasks(effects) = f[n]
  BY BatchChain
<1> HIDE DEF n
<1> DEFINE K == {k \in 0 .. n : Batched(effects, k, f[k])}
<1>3. 0 \in K
  <2>1. Batched(effects, 0, <<>>)
    BY DEF Batched
  <2> QED
    BY <1>1, <1>2, <2>1
<1>4. ASSUME NEW k \in 1 .. n, k - 1 \in K PROVE k \in K
  BY <1>2, <1>4, JoinedBatches
<1>5. 0 .. n \subseteq K
  <2> HIDE DEF K
  <2> QED
    BY <1>1, <1>3, <1>4, BoundedInduction
<1> QED
  BY <1>1, <1>2, <1>5 DEF n

-----------------------------------------------------------------------------
\* The coordinator. Done, running and waiting come in this order, and all that
\* runs was in one batch.
DoneTasks == {i \in C!Tasks : outcomes[i] # "none"}

WaitingTasks == UNION {batches[p] : p \in DOMAIN batches}

BothRead(i, j) == effect[i] = "read" /\ effect[j] = "read"

CoordinatorInv ==
    /\ effect \in Seq({"read", "write"})
    /\ outcomes \in [C!Tasks -> {"none", "result", "error"}]
    /\ batches \in Seq(SUBSET C!Tasks) /\ running \in SUBSET C!Tasks
    /\ C!Tasks = DoneTasks \cup running \cup WaitingTasks /\ running \cap DoneTasks = {}
    /\ \A i \in DoneTasks \cup running, j \in WaitingTasks : i < j
    /\ \A p, q \in DOMAIN batches : p < q => \A i \in batches[p], j \in batches[q] : i < j
    /\ \A p \in DOMAIN batches : \A i, j \in batches[p] : i # j => BothRead(i, j)
    /\ \A i, j \in running : i # j => BothRead(i, j)
    /\ \A i \in running, j \in DoneTasks : i < j => BothRead(i, j)
    /\ pushed \in Seq(C!Tasks) /\ Len(pushed) = Cardinality(DoneTasks)
    /\ C!ToSet(pushed) = DoneTasks
    /\ synthesis # "none" => running = {} /\ batches = <<>>

LEMMA InUnion == \A X, b, i : i \in UNION {b[p] : p \in X} <=> \E p \in X : i \in b[p]
OBVIOUS

LEMMA TasksAreNumbers ==
    effect \in Seq({"read", "write"}) =>
        Len(effect) \in Nat /\ C!Tasks = 1 .. Len(effect) /\ \A i \in C!Tasks : i \in Nat
<1> SUFFICES ASSUME effect \in Seq({"read", "write"})
             PROVE  Len(effect) \in Nat /\ C!Tasks = 1 .. Len(effect)
  OBVIOUS
<1> QED
  BY DEF C!Tasks

LEMMA CoordinatorStart == C!Init => CoordinatorInv
<1> SUFFICES ASSUME C!Init PROVE CoordinatorInv
  OBVIOUS
<1> USE DEF C!Init, C!Tasks
<1>1. effect \in Seq({"read", "write"})
  OBVIOUS
<1>2. Batched(effect, Len(effect), batches) /\ DOMAIN effect = 1 .. Len(effect)
  BY <1>1, BatchesInOrder
<1>3. WaitingTasks = C!Tasks /\ batches \in Seq(SUBSET C!Tasks)
  <2>1. WaitingTasks = C!Tasks /\ batches \in Seq(SUBSET Nat)
    BY <1>2 DEF WaitingTasks, Batched
  <2>2. \A p \in 1 .. Len(batches) : batches[p] \in SUBSET C!Tasks
    BY <2>1 DEF WaitingTasks
  <2> QED
    BY <2>1, <2>2
<1>4. DoneTasks = {} /\ outcomes \in [C!Tasks -> {"none", "result", "error"}]
  BY DEF DoneTasks
<1>5. Cardinality(DoneTasks) = 0 /\ Len(pushed) = 0 /\ pushed \in Seq(C!Tasks) /\ C!ToSet(pushed) = DoneTasks
  BY <1>4, FS_EmptySet DEF C!ToSet
<1> QED
  BY <1>1, <1>2, <1>3, <1>4, <1>5 DEF CoordinatorInv, Batched, BothRead

\* What is appended to a sequence is in it, beside what was.
LEMMA AlsoIn ==
    ASSUME NEW Elements, NEW s \in Seq(Elements), NEW e \in Elements
    PROVE  C!ToSet(Append(s, e)) = C!ToSet(s) \cup {e}
<1>1. PICK m \in Nat : m = Len(s) /\ DOMAIN s = 1 .. m
  OBVIOUS
<1>2. PICK t : t = Append(s, e)
  OBVIOUS
<1>3. DOMAIN t = 1 .. m + 1 /\ t[m + 1] = e /\ \A p \in 1 .. m : t[p] = s[p]
  BY <1>1, <1>2
<1>4. 1 .. m + 1 = (1 .. m) \cup {m + 1}
  BY <1>1
<1>5. ASSUME NEW x PROVE x \in C!ToSet(t) <=> x \in C!ToSet(s) \cup {e}
  <2>1. x \in C!ToSet(t) <=> \E p \in 1 .. m + 1 : x = t[p]
    BY <1>3 DEF C!ToSet
  <2>2. x \in C!ToSet(s) <=> \E p \in 1 .. m : x = s[p]
    BY <1>1 DEF C!ToSet
  <2> QED
    BY <1>3, <1>4, <2>1, <2>2
<1> QED
  BY <1>2, <1>5

LEMMA CoordinatorStep == CoordinatorInv /\ [C!Next]_(C!vars) => CoordinatorInv'
<1> SUFFICES ASSUME CoordinatorInv, [C!Next]_(C!vars) PROVE CoordinatorInv'
  OBVIOUS
<1> USE DEF CoordinatorInv
<1>0. Len(effect) \in Nat /\ C!Tasks = 1 .. Len(effect) /\ \A i \in C!Tasks : i \in Nat
  BY TasksAreNumbers
<1>1. CASE UNCHANGED C!vars
  <2>1. UNCHANGED <<effect, batches, running, outcomes, pushed, synthesis>>
    BY <1>1 DEF C!vars
  <2>2. C!Tasks' = C!Tasks /\ DoneTasks' = DoneTasks /\ WaitingTasks' = WaitingTasks
    BY <2>1 DEF C!Tasks, DoneTasks, WaitingTasks
  <2>3. \A i, j : BothRead(i, j)' = BothRead(i, j)
    BY <2>1 DEF BothRead
  <2> QED
    BY <2>1, <2>2, <2>3 DEF C!ToSet
<1>2. CASE C!StartBatch
  <2>1. /\ UNCHANGED <<effect, outcomes, pushed, synthesis>> /\ running = {} /\ batches # <<>>
        /\ running' = Head(batches) /\ batches' = Tail(batches)
    BY <1>2 DEF C!StartBatch, C!BatchDone
  <2>2. C!Tasks' = C!Tasks /\ DoneTasks' = DoneTasks
    BY <2>1 DEF C!Tasks, DoneTasks
  <2>3. PICK n \in Nat \ {0} : n = Len(batches) /\ DOMAIN batches = 1 .. n
    BY <2>1
  <2>4. /\ batches' \in Seq(SUBSET C!Tasks) /\ running' = batches[1] /\ DOMAIN batches' = 1 .. n - 1
        /\ \A p \in 1 .. n - 1 : batches'[p] = batches[p + 1]
    BY <2>1, <2>3
  <2>5. \A i : i \in WaitingTasks' <=> \E p \in 1 .. n - 1 : i \in batches[p + 1]
    <3>1. \A i : i \in WaitingTasks' <=> \E p \in DOMAIN batches' : i \in batches'[p]
      BY InUnion DEF WaitingTasks
    <3> HIDE DEF CoordinatorInv
    <3> QED
      BY <2>4, <3>1
  <2>20. /\ 1 \in 1 .. n /\ \A p \in 1 .. n - 1 : p + 1 \in 1 .. n /\ 1 < p + 1
         /\ \A p \in 1 .. n : p # 1 => p - 1 \in 1 .. n - 1 /\ (p - 1) + 1 = p
         /\ \A p, q \in 1 .. n - 1 : p < q => p + 1 < q + 1
    BY <2>3
  <2>21. \A i : i \in WaitingTasks <=> \E p \in 1 .. n : i \in batches[p]
    <3>1. \A i : i \in WaitingTasks <=> \E p \in DOMAIN batches : i \in batches[p]
      BY InUnion DEF WaitingTasks
    <3> QED
      BY <2>3, <3>1
  <2>6. WaitingTasks = running' \cup WaitingTasks'
    <3>1. \A i : i \in WaitingTasks <=> i \in running' \/ i \in WaitingTasks'
      <4> HIDE DEF CoordinatorInv
      <4>1. ASSUME NEW i, i \in WaitingTasks, i \notin running' PROVE i \in WaitingTasks'
        <5>1. PICK p \in 1 .. n : i \in batches[p]
          BY <2>21, <4>1
        <5>2. p # 1 /\ i \in batches[(p - 1) + 1] /\ p - 1 \in 1 .. n - 1
          BY <2>4, <2>20, <4>1, <5>1
        <5> QED
          BY <2>5, <5>2
      <4>2. ASSUME NEW i, i \in running' \/ i \in WaitingTasks' PROVE i \in WaitingTasks
        BY <2>4, <2>5, <2>20, <2>21, <4>2
      <4> QED
        BY <4>1, <4>2
    <3> QED
      BY <3>1
  <2>22. /\ \A p, q \in 1 .. n : p < q => \A i \in batches[p], j \in batches[q] : i < j
         /\ \A i \in DoneTasks, j \in WaitingTasks : i < j
    BY <2>3
  <2>23. \A p \in 1 .. n : \A k, l \in batches[p] : k # l => BothRead(k, l)
    BY <2>3
  <2>7. \A i \in running', j \in WaitingTasks' : i < j
    BY <2>4, <2>5, <2>20, <2>22
  <2>8. \A i, j : BothRead(i, j)' = BothRead(i, j)
    BY <2>1 DEF BothRead
  <2>9. \A p, q \in DOMAIN batches' : p < q => \A i \in batches'[p], j \in batches'[q] : i < j
    <3> SUFFICES ASSUME NEW p \in 1 .. n - 1, NEW q \in 1 .. n - 1, p < q,
                        NEW i \in batches'[p], NEW j \in batches'[q]
                 PROVE  i < j
      BY <2>4
    <3>1. i \in batches[p + 1] /\ j \in batches[q + 1]
      BY <2>4
    <3> QED
      BY <2>20, <2>22, <3>1
  <2>10. \A p \in DOMAIN batches' : \A i, j \in batches'[p] : i # j => BothRead(i, j)
    <3> SUFFICES ASSUME NEW p \in 1 .. n - 1, NEW i \in batches'[p], NEW j \in batches'[p], i # j
                 PROVE  BothRead(i, j)
      BY <2>4
    <3>1. i \in batches[p + 1] /\ j \in batches[p + 1]
      BY <2>4
    <3>2. p + 1 \in 1 .. n
      BY <2>20
    <3> QED
      BY <2>23, <3>1, <3>2, Zenon
  <2>11. \A i, j \in running' : i # j => BothRead(i, j)
    BY <2>3, <2>4
  <2>12. \A i \in running', j \in DoneTasks : ~(i < j) /\ i # j
    <3>1. \A i \in running', j \in DoneTasks : j < i /\ i \in Nat /\ j \in Nat
      <4>1. running' \subseteq C!Tasks /\ DoneTasks \subseteq C!Tasks
        BY <2>4, <2>20, <2>3 DEF DoneTasks
      <4> QED
        BY <1>0, <2>6, <2>22, <4>1
    <3> QED
      BY <3>1
  <2>13. running' \in SUBSET C!Tasks /\ C!Tasks = DoneTasks \cup running' \cup WaitingTasks'
    BY <2>1, <2>3, <2>4, <2>6
  <2>14. synthesis = "none"
    BY <2>1
  <2>15. \A i \in DoneTasks \cup running', j \in WaitingTasks' : i < j
    BY <2>6, <2>7
  <2>16. running' \cap DoneTasks = {}
    BY <2>12
  <2> QED
    BY <2>1, <2>2, <2>4, <2>8, <2>9, <2>10, <2>11, <2>12, <2>13, <2>14, <2>15, <2>16, Zenon
<1>3. ASSUME NEW i \in C!Tasks, NEW how \in {"result", "error"}, C!Settle(i, how) PROVE CoordinatorInv'
  <2>1. /\ UNCHANGED <<effect, batches, synthesis>> /\ i \in running
        /\ running' = running \ {i} /\ outcomes' = [outcomes EXCEPT ![i] = how]
        /\ pushed' = Append(pushed, i)
    BY <1>3 DEF C!Settle, C!Recorded
  <2>2. C!Tasks' = C!Tasks /\ WaitingTasks' = WaitingTasks
    BY <2>1 DEF C!Tasks, WaitingTasks
  <2>3. outcomes' \in [C!Tasks -> {"none", "result", "error"}] /\ i \notin DoneTasks
    BY <2>1
  <2>4. DoneTasks' = DoneTasks \cup {i}
    BY <2>1, <2>2, <2>3 DEF DoneTasks
  <2>5. \A k, j : BothRead(k, j)' = BothRead(k, j)
    BY <2>1 DEF BothRead
  <2>6. pushed' \in Seq(C!Tasks) /\ Len(pushed') = Len(pushed) + 1
    BY <2>1
  <2>7. C!ToSet(pushed') = C!ToSet(pushed) \cup {i}
    <3>1. pushed \in Seq(C!Tasks) /\ pushed' = Append(pushed, i)
      BY <2>1
    <3>2. PICK t : t = pushed'
      OBVIOUS
    <3>3. C!ToSet(t) = C!ToSet(pushed) \cup {i}
      BY <3>1, <3>2, AlsoIn
    <3> QED
      BY <3>2, <3>3, ZenonT(30) DEF C!ToSet
  <2>8. Cardinality(DoneTasks \cup {i}) = Cardinality(DoneTasks) + 1
    <3>1. IsFiniteSet(DoneTasks)
      <4>1. IsFiniteSet(1 .. Len(effect)) /\ DoneTasks \subseteq 1 .. Len(effect)
        BY <1>0, FS_Interval DEF DoneTasks
      <4> QED
        BY <4>1, FS_Subset
    <3> QED
      BY <2>3, <3>1, FS_AddElement
  <2>9. \A k \in running', j \in DoneTasks \cup {i} : k < j => BothRead(k, j)
    BY <2>1
  <2> QED
    BY <2>1, <2>2, <2>3, <2>4, <2>5, <2>6, <2>7, <2>8, <2>9
<1>4. CASE C!Synthesize \/ \E how \in {"given", "failed"} : C!SynthesisSettles(how)
  <2>1. /\ UNCHANGED <<effect, batches, running, outcomes, pushed>>
        /\ synthesis' # "none" => running = {} /\ batches = <<>>
    BY <1>4 DEF C!Synthesize, C!SynthesisSettles, C!BatchDone
  <2>2. C!Tasks' = C!Tasks /\ DoneTasks' = DoneTasks /\ WaitingTasks' = WaitingTasks
    BY <2>1 DEF C!Tasks, DoneTasks, WaitingTasks
  <2>3. \A i, j : BothRead(i, j)' = BothRead(i, j)
    BY <2>1 DEF BothRead
  <2> QED
    BY <2>1, <2>2, <2>3 DEF C!ToSet
<1> QED
  BY <1>1, <1>2, <1>3, <1>4 DEF C!Next, C!Advance

LEMMA CoordinatorSound == CoordinatorInv => C!WriteBarrier /\ C!AllReported
<1> SUFFICES ASSUME CoordinatorInv PROVE C!WriteBarrier /\ C!AllReported
  OBVIOUS
<1> USE DEF CoordinatorInv
<1>1. \A i \in running : effect[i] = "write" => running = {i}
  BY DEF BothRead
<1>2. ASSUME NEW i \in C!Tasks, NEW j \in C!Tasks, i < j, "write" \in {effect[i], effect[j]},
             j \in running \/ outcomes[j] # "none"
      PROVE  outcomes[i] # "none"
  <2>1. i \in Nat /\ j \in Nat
    BY TasksAreNumbers
  <2>2. i \notin WaitingTasks
    BY <1>2, <2>1 DEF DoneTasks
  <2>3. i \notin running
    BY <1>2, <2>1 DEF DoneTasks, BothRead
  <2> QED
    BY <2>2, <2>3 DEF DoneTasks
<1>3. \A s : C!Cardinality(s) = Cardinality(s)
  BY DEF C!Cardinality, Cardinality
<1>4. C!AllReported
  <2>1. synthesis # "none" => C!ToSet(pushed) = C!Tasks
    BY DEF WaitingTasks
  <2> QED
    BY <1>3, <2>1 DEF C!AllReported, DoneTasks
<1> QED
  BY <1>1, <1>2, <1>4 DEF C!WriteBarrier

-----------------------------------------------------------------------------
\* What a turn is billed and metered, and the words it has given.
MeterInv ==
    /\ metered \in [exact : Nat, estimate : Nat]
    /\ heard.text = given
    /\ body \notin {"handed", "over"} => metered.exact = 0 /\ metered.estimate = 0
    /\ body = "asking" => heard.finish = "none"
    /\ heard.finish # "none" => heard.billed
    /\ api = "openai" /\ body \in {"reading", "yielding", "handed"} => heard.billed
    /\ M!MeteredOnce /\ M!StreamedIsSaid

LEMMA MeterStart == M!Init => MeterInv
BY DEF M!Init, MeterInv, M!MeteredOnce, M!StreamedIsSaid, M!Reported

LEMMA MeterStep == TurnInv /\ MeterInv /\ [M!Next]_(M!vars) => MeterInv'
<1> SUFFICES ASSUME TurnInv, MeterInv, [M!Next]_(M!vars) PROVE MeterInv'
  OBVIOUS
<1>0. /\ api \in {"openai", "anthropic"}
      /\ body \in {"asking", "reading", "yielding", "handed", "over"}
      /\ heard \in [billed : BOOLEAN, text : Nat, args : [Slots -> 0 .. 3],
                    finish : {"none", "stop", "length", "filter"}, usage : BOOLEAN]
      /\ response # M!NoResponse => body \in {"handed", "over"}
  BY DEF TurnInv
<1> USE <1>0 DEF MeterInv, M!MeteredOnce, M!StreamedIsSaid, M!Reported
<1>1. CASE UNCHANGED M!vars
  BY <1>1 DEF M!vars
<1>2. CASE M!Open
  <2>1. /\ body = "asking" /\ body' = "reading" /\ UNCHANGED <<api, given, metered, response>>
        /\ heard'.text = heard.text /\ heard'.finish = heard.finish
        /\ api = "openai" => heard'.billed
    BY <1>2 DEF M!Open
  <2> QED
    BY <2>1
<1>3. CASE M!Read
  <2>1. /\ body = "reading" /\ UNCHANGED <<api, body, given, metered, response, socket>>
        /\ heard'.text = heard.text
        /\ heard.billed => heard'.billed
        /\ heard'.finish # "none" => heard'.billed
    BY <1>3 DEF M!Read, M!MessageStart, M!CallDelta, M!FinishDelta, M!UsageChunk, M!Unfinished
  <2> QED
    BY <2>1
<1>4. CASE M!ReadText
  BY <1>4 DEF M!ReadText, M!Unfinished
<1>5. CASE M!GoOn \/ M!Timeout
  BY <1>5 DEF M!GoOn, M!Timeout
<1>6. CASE M!Break \/ M!Aborted \/ M!Leave
  <2>1. body \in {"asking", "reading", "yielding", "handed"} /\ body' = "over" /\ UNCHANGED <<api, heard, given, response>> /\ M!MeteredLast
    BY <1>6 DEF M!Break, M!Aborted, M!Leave, M!Finally
  <2>2. CASE ~heard.billed \/ metered.exact + metered.estimate > 0
    <3>1. metered' = metered
      BY <2>1, <2>2 DEF M!MeteredLast, M!Report
    <3> QED
      BY <2>1, <2>2, <3>1
  <2>3. CASE heard.billed /\ metered.exact = 0 /\ metered.estimate = 0
    <3>1. metered' = [exact |-> 0, estimate |-> 1]
      BY <2>1, <2>3 DEF M!MeteredLast, M!Report
    <3> QED
      BY <2>1, <2>3, <3>1
  <2> QED
    BY <2>2, <2>3
<1>7. CASE M!End
  <2>1. /\ UNCHANGED <<api, heard, given>> /\ body = "reading" /\ body' = "handed" /\ response'.text = heard.text
        /\ heard.billed
    BY <1>7 DEF M!End
  <2>2. metered' = IF heard.usage THEN [exact |-> 1, estimate |-> 0] ELSE [exact |-> 0, estimate |-> 1]
    <3>1. metered = [exact |-> 0, estimate |-> 0]
      BY <2>1
    <3> QED
      BY <1>7, <3>1 DEF M!End, M!Report
  <2> QED
    BY <2>1, <2>2
<1> QED
  BY <1>1, <1>2, <1>3, <1>4, <1>5, <1>6, <1>7 DEF M!Next
-----------------------------------------------------------------------------
\* The routes: what a request's place says of its handler, and of its answer.
RequestInv(q) ==
    /\ ask[q] \in [route : R!RouteNames, body : {"good", "incomplete", "broken"}]
    /\ at[q] \in {"idle", "reading", "handling", "flushing", "answered"}
    /\ ran[q] \in {"nothing", "success", "failure", "threw"}
    /\ answer[q] \in {"none", "not found", "malformed", "success", "failure"}
    /\ at[q] \in {"idle", "reading", "handling"} => ran[q] = "nothing"
    /\ at[q] # "answered" => answer[q] = "none"
    /\ at[q] \in {"handling", "flushing"} => ask[q].body = "good"
    /\ at[q] = "flushing" => ran[q] # "nothing"
    /\ at[q] = "answered" /\ ran[q] # "nothing" =>
           answer[q] = (IF ran[q] = "success" THEN "success" ELSE "failure")
    /\ answer[q] \in {"malformed", "not found"} => ran[q] = "nothing"
    /\ ran[q] # "nothing" => ask[q].body = "good"

OfRequests(f) == f = [q \in Requests |-> f[q]]

RoutesInv ==
    /\ OfRequests(ask) /\ OfRequests(at) /\ OfRequests(ran) /\ OfRequests(answer)
    /\ \A q \in Requests : RequestInv(q)
    /\ server \in {"flushing", "closed"} => \A q \in Requests : at[q] \in {"idle", "answered"}
    /\ server = "closed" => spans = {}

LEMMA RoutesStart == R!Init => RoutesInv
BY DEF R!Init, RoutesInv, RequestInv, OfRequests, R!RouteNames

\* A step of one request leaves the others alone.
LEMMA OneRequest ==
    ASSUME RoutesInv, NEW q \in Requests, NEW a, NEW h, NEW r, NEW w,
           ask' = [ask EXCEPT ![q] = a], at' = [at EXCEPT ![q] = h],
           ran' = [ran EXCEPT ![q] = r], answer' = [answer EXCEPT ![q] = w],
           server' = server, server \notin {"flushing", "closed"}, RequestInv(q)'
    PROVE  RoutesInv'
<1>1. OfRequests(ask)' /\ OfRequests(at)' /\ OfRequests(ran)' /\ OfRequests(answer)'
  BY DEF RoutesInv, OfRequests
<1>2. ASSUME NEW p \in Requests, p # q PROVE RequestInv(p)'
  <2>1. ask'[p] = ask[p] /\ at'[p] = at[p] /\ ran'[p] = ran[p] /\ answer'[p] = answer[p]
    BY <1>2 DEF RoutesInv, OfRequests
  <2>2. RequestInv(p)
    BY DEF RoutesInv
  <2> QED
    BY <2>1, <2>2, ZenonT(30) DEF RequestInv
<1> QED
  BY <1>1, <1>2 DEF RoutesInv

\* A value of a function that is left as it is.
LEMMA SameThere ==
    RoutesInv => \A q \in Requests :
        /\ ask = [ask EXCEPT ![q] = ask[q]] /\ at = [at EXCEPT ![q] = at[q]]
        /\ ran = [ran EXCEPT ![q] = ran[q]] /\ answer = [answer EXCEPT ![q] = answer[q]]
BY DEF RoutesInv, OfRequests

LEMMA RoutesStep == RoutesInv /\ [R!Next]_(R!vars) => RoutesInv'
<1> SUFFICES ASSUME RoutesInv, [R!Next]_(R!vars) PROVE RoutesInv'
  OBVIOUS
<1>1. CASE UNCHANGED R!vars
  BY <1>1 DEF R!vars, RoutesInv, RequestInv, OfRequests
<1>2. ASSUME NEW q \in Requests, NEW route \in R!RouteNames, NEW b \in {"good", "incomplete", "broken"},
             R!Arrive(q, route, b)
      PROVE  RoutesInv'
  <2>1. /\ at[q] = "idle" /\ server = "open" /\ UNCHANGED <<ran, server>>
        /\ ask' = [ask EXCEPT ![q] = [route |-> route, body |-> b]]
        /\ \/ at' = [at EXCEPT ![q] = "answered"] /\ answer' = [answer EXCEPT ![q] = "not found"]
           \/ at' = [at EXCEPT ![q] = "reading"] /\ UNCHANGED answer
    BY <1>2 DEF R!Arrive, R!Answer
  <2>2. RequestInv(q) /\ OfRequests(ask) /\ OfRequests(at) /\ OfRequests(answer)
    BY DEF RoutesInv
  <2>3. RequestInv(q)'
    BY <2>1, <2>2 DEF RequestInv, OfRequests
  <2>4. server \notin {"flushing", "closed"} /\ ran' = [ran EXCEPT ![q] = ran[q]]
    BY <2>1, SameThere
  <2>5. CASE at' = [at EXCEPT ![q] = "answered"] /\ answer' = [answer EXCEPT ![q] = "not found"]
    BY <2>1, <2>3, <2>4, <2>5, OneRequest
  <2>6. CASE at' = [at EXCEPT ![q] = "reading"] /\ UNCHANGED answer
    <3>1. answer' = [answer EXCEPT ![q] = answer[q]]
      BY <2>6, SameThere
    <3> QED
      BY <2>1, <2>3, <2>4, <2>6, <3>1, OneRequest
  <2> QED
    BY <2>1, <2>5, <2>6
<1>3. ASSUME NEW q \in Requests, R!ReadBody(q) PROVE RoutesInv'
  <2>1. /\ at[q] = "reading" /\ UNCHANGED <<ask, ran, server>>
        /\ \/ ask[q].body = "good" /\ at' = [at EXCEPT ![q] = "handling"] /\ UNCHANGED answer
           \/ at' = [at EXCEPT ![q] = "answered"] /\ answer' = [answer EXCEPT ![q] = "malformed"]
    BY <1>3 DEF R!ReadBody, R!Accepted, R!Answer
  <2>2. RequestInv(q) /\ OfRequests(at) /\ OfRequests(answer)
    BY DEF RoutesInv
  <2>3. RequestInv(q)'
    BY <2>1, <2>2 DEF RequestInv, OfRequests
  <2>4. server \notin {"flushing", "closed"}
    BY <2>1 DEF RoutesInv
  <2> QED
    BY <2>1, <2>3, <2>4, OneRequest, SameThere
<1>4. ASSUME NEW q \in Requests, NEW how \in {"success", "failure", "threw"}, R!Handled(q, how) PROVE RoutesInv'
  <2>1. /\ at[q] = "handling" /\ UNCHANGED <<ask, server>> /\ ran' = [ran EXCEPT ![q] = how]
        /\ \/ at' = [at EXCEPT ![q] = "flushing"] /\ UNCHANGED answer
           \/ at' = [at EXCEPT ![q] = "answered"] /\ answer' = [answer EXCEPT ![q] = R!Verdict(how)]
    BY <1>4 DEF R!Handled, R!Answer
  <2>2. RequestInv(q) /\ OfRequests(at) /\ OfRequests(answer) /\ OfRequests(ran)
    BY DEF RoutesInv
  <2>3. RequestInv(q)'
    BY <2>1, <2>2 DEF RequestInv, OfRequests, R!Verdict
  <2>4. server \notin {"flushing", "closed"}
    BY <2>1 DEF RoutesInv
  <2>5. ask' = [ask EXCEPT ![q] = ask[q]]
    BY <2>1, SameThere
  <2>6. CASE at' = [at EXCEPT ![q] = "flushing"] /\ UNCHANGED answer
    <3>1. answer' = [answer EXCEPT ![q] = answer[q]]
      BY <2>6, SameThere
    <3> QED
      BY <2>1, <2>3, <2>4, <2>5, <2>6, <3>1, OneRequest
  <2>7. CASE at' = [at EXCEPT ![q] = "answered"] /\ answer' = [answer EXCEPT ![q] = R!Verdict(how)]
    BY <2>1, <2>3, <2>4, <2>5, <2>7, OneRequest
  <2> QED
    BY <2>1, <2>6, <2>7
<1>5. ASSUME NEW q \in Requests, NEW works \in BOOLEAN, R!Flush(q, works) PROVE RoutesInv'
  <2>1. /\ at[q] = "flushing" /\ UNCHANGED <<ask, ran, server>>
        /\ at' = [at EXCEPT ![q] = "answered"] /\ answer' = [answer EXCEPT ![q] = R!Verdict(ran[q])]
    BY <1>5 DEF R!Flush, R!Flushed, R!Answer
  <2>2. RequestInv(q) /\ OfRequests(at) /\ OfRequests(answer)
    BY DEF RoutesInv
  <2>3. RequestInv(q)'
    BY <2>1, <2>2 DEF RequestInv, OfRequests, R!Verdict
  <2>4. server \notin {"flushing", "closed"}
    BY <2>1 DEF RoutesInv
  <2> QED
    BY <2>1, <2>3, <2>4, OneRequest, SameThere, ZenonT(30)
<1>6. CASE R!Close \/ R!Shut
  <2>1. /\ UNCHANGED <<ask, at, ran, answer>>
        /\ \/ server' = "closing"
           \/ server' = "flushing" /\ R!Drained
           \/ server = "flushing" /\ spans' = {}
    BY <1>6 DEF R!Close, R!Shut, R!FinalFlush, R!Closed
  <2>2. \A q \in Requests : RequestInv(q)' <=> RequestInv(q)
    BY <2>1 DEF RequestInv
  <2>3. server' \in {"flushing", "closed"} => \A q \in Requests : at[q] \in {"idle", "answered"}
    BY <2>1 DEF R!Drained, R!Open, RoutesInv
  <2> QED
    BY <1>6, <2>1, <2>2, <2>3 DEF R!Close, R!Shut, R!FinalFlush, R!Closed, RoutesInv, OfRequests
<1> QED
  BY <1>1, <1>2, <1>3, <1>4, <1>5, <1>6 DEF R!Next, R!Serve

LEMMA RoutesSound == RoutesInv => R!OutcomeIsTold /\ R!CloseWaits
BY DEF RoutesInv, RequestInv, R!OutcomeIsTold, R!CloseWaits, R!Open
-----------------------------------------------------------------------------
\* The spans of a provider's calls.
TracedRun(r) == {c \in Runs : KeyOf[c] = r /\ spansOf[c] > 0}

TracingInv ==
    /\ traced \in [Runs -> {"idle", "asking", "streaming", "done", "failed", "left"}]
    /\ spansOf \in [Runs -> {0, 1}]
    /\ full \in [Sessions -> {0, 1}]
    /\ \A c \in Runs : spansOf[c] = IF traced[c] \in {"done", "failed"} THEN 1 ELSE 0
    /\ llmCalls = [r \in Sessions |-> Cardinality(TracedRun(r))]
    /\ \A r \in Sessions : full[r] = IF r \in seen THEN 1 ELSE 0

LEMMA TracingStart == P!Init => TracingInv
<1> SUFFICES ASSUME P!Init PROVE TracingInv
  OBVIOUS
<1>1. \A r : TracedRun(r) = {}
  BY DEF P!Init, TracedRun
<1> QED
  BY <1>1, FS_EmptySet DEF P!Init, TracingInv

LEMMA TracingStep == TracingInv /\ [P!Next]_(P!vars) => TracingInv'
<1> SUFFICES ASSUME TracingInv, [P!Next]_(P!vars) PROVE TracingInv'
  OBVIOUS
<1> USE ServiceConstants DEF TracingInv
<1>1. CASE UNCHANGED P!vars
  BY <1>1 DEF P!vars, TracedRun
<1>2. ASSUME NEW c \in Runs, P!Ask(c) \/ P!LeaveStream(c) PROVE TracingInv'
  BY <1>2 DEF P!Ask, P!LeaveStream, TracedRun
<1>3. ASSUME NEW c \in Runs, NEW how \in {"done", "failed"}, NEW withTools \in BOOLEAN,
             P!Settle(c, how, withTools)
      PROVE  TracingInv'
  <2> DEFINE k == KeyOf[c]
  <2>1. /\ traced[c] \in {"asking", "streaming"} /\ traced' = [traced EXCEPT ![c] = how]
        /\ spansOf' = [spansOf EXCEPT ![c] = spansOf[c] + 1]
        /\ llmCalls' = [llmCalls EXCEPT ![k] = llmCalls[k] + 1]
        /\ \/ seen' = seen \cup {k} /\ k \notin seen /\ full' = [full EXCEPT ![k] = full[k] + 1]
           \/ UNCHANGED <<seen, full>>
    BY <1>3 DEF P!Settle, P!RecordedEither, P!Recorded, P!Sees
  <2>2. k \in Sessions /\ spansOf[c] = 0
    BY <2>1
  <2>3. spansOf' = [spansOf EXCEPT ![c] = 1]
    BY <2>1, <2>2
  <2>4. TracedRun(k)' = TracedRun(k) \cup {c} /\ c \notin TracedRun(k)
    BY <2>2, <2>3 DEF TracedRun
  <2>5. \A r \in Sessions : r # k => TracedRun(r)' = TracedRun(r)
    BY <2>2, <2>3 DEF TracedRun
  <2>6. Cardinality(TracedRun(k) \cup {c}) = Cardinality(TracedRun(k)) + 1
    <3>1. IsFiniteSet(TracedRun(k))
      BY FS_Subset DEF TracedRun
    <3> QED
      BY <2>4, <3>1, FS_AddElement
  <2>7. llmCalls' = [r \in Sessions |-> Cardinality(TracedRun(r)')]
    BY <2>1, <2>2, <2>4, <2>5, <2>6
  <2>8. \A d \in Runs : spansOf'[d] = IF traced'[d] \in {"done", "failed"} THEN 1 ELSE 0
    BY <2>1, <2>3
  <2>9. full' \in [Sessions -> {0, 1}] /\ \A r \in Sessions : full'[r] = IF r \in seen' THEN 1 ELSE 0
    BY <2>1, <2>2
  <2> QED
    BY <2>1, <2>3, <2>7, <2>8, <2>9
<1> QED
  BY <1>1, <1>2, <1>3 DEF P!Next

LEMMA TracingSound == TracingInv => P!TracedOnce
<1>1. \A s : P!Cardinality(s) = Cardinality(s)
  BY DEF P!Cardinality, Cardinality
<1> QED
  BY <1>1 DEF TracingInv, P!TracedOnce, TracedRun

-----------------------------------------------------------------------------
\* The log lines. No line is twice in a sequence, and none is in two places.
Once(s) == s \in Seq(Nat) /\ \A p, q \in DOMAIN s : s[p] = s[q] => p = q

LogsInv ==
    /\ logged \in Nat /\ Once(buffer) /\ Once(arrived)
    /\ \A b \in posts : Once(b)
    /\ \A b, c \in posts : b # c => L!Contents(b) \cap L!Contents(c) = {}
    /\ L!Contents(buffer) \cup L!InFlight \cup L!Contents(arrived) \cup dropped = 1 .. logged
    /\ L!Contents(buffer) \cap L!InFlight = {} /\ L!Contents(buffer) \cap L!Contents(arrived) = {}
    /\ L!Contents(buffer) \cap dropped = {} /\ L!InFlight \cap L!Contents(arrived) = {}
    /\ L!InFlight \cap dropped = {} /\ L!Contents(arrived) \cap dropped = {}

LEMMA OnceAppend ==
    ASSUME NEW s, Once(s), NEW x \in Nat \ L!Contents(s)
    PROVE  Once(Append(s, x)) /\ L!Contents(Append(s, x)) = L!Contents(s) \cup {x}
<1>1. PICK m \in Nat : m = Len(s) /\ DOMAIN s = 1 .. m
  BY DEF Once
<1>2. /\ Append(s, x) \in Seq(Nat) /\ DOMAIN Append(s, x) = 1 .. m + 1
      /\ Append(s, x)[m + 1] = x /\ \A p \in 1 .. m : Append(s, x)[p] = s[p]
  BY <1>1 DEF Once
<1>3. 1 .. m + 1 = (1 .. m) \cup {m + 1} /\ m + 1 \notin 1 .. m
  BY <1>1
<1>4. L!Contents(Append(s, x)) = L!Contents(s) \cup {x}
  BY <1>1, <1>2, <1>3 DEF L!Contents
<1>5. \A p \in 1 .. m : s[p] # x
  BY <1>1 DEF L!Contents
<1>6. ASSUME NEW p \in 1 .. m + 1, NEW q \in 1 .. m + 1, Append(s, x)[p] = Append(s, x)[q]
      PROVE  p = q
  BY <1>1, <1>2, <1>3, <1>5, <1>6 DEF Once
<1> QED
  BY <1>2, <1>4, <1>6 DEF Once

LEMMA OnceConcat ==
    ASSUME NEW s, NEW t, Once(s), Once(t), L!Contents(s) \cap L!Contents(t) = {}
    PROVE  Once(s \o t) /\ L!Contents(s \o t) = L!Contents(s) \cup L!Contents(t)
<1>1. PICK m \in Nat, n \in Nat : /\ m = Len(s) /\ DOMAIN s = 1 .. m
                                  /\ n = Len(t) /\ DOMAIN t = 1 .. n
  BY DEF Once
<1>2. /\ s \o t \in Seq(Nat) /\ DOMAIN (s \o t) = 1 .. m + n
      /\ \A p \in 1 .. m : (s \o t)[p] = s[p]
      /\ \A p \in 1 .. n : (s \o t)[m + p] = t[p]
  BY <1>1 DEF Once
<1>3. /\ \A p \in 1 .. m + n : p \in 1 .. m \/ (p - m \in 1 .. n /\ m + (p - m) = p)
      /\ \A p \in 1 .. m : p \in 1 .. m + n
      /\ \A p \in 1 .. n : m + p \in 1 .. m + n
  BY <1>1
<1>4. \A x : x \in L!Contents(s \o t) <=> x \in L!Contents(s) \/ x \in L!Contents(t)
  <2>1. ASSUME NEW p \in 1 .. m + n PROVE (s \o t)[p] \in L!Contents(s) \cup L!Contents(t)
    <3>1. CASE p \in 1 .. m
      BY <1>1, <1>2, <3>1 DEF L!Contents
    <3>2. CASE p - m \in 1 .. n /\ m + (p - m) = p
      <4>1. (s \o t)[p] = t[p - m]
        BY <1>2, <3>2
      <4> QED
        BY <1>1, <3>2, <4>1 DEF L!Contents
    <3> QED
      BY <1>3, <3>1, <3>2
  <2>2. ASSUME NEW p \in 1 .. m PROVE s[p] \in L!Contents(s \o t)
    BY <1>1, <1>2, <1>3 DEF L!Contents
  <2>3. ASSUME NEW p \in 1 .. n PROVE t[p] \in L!Contents(s \o t)
    BY <1>1, <1>2, <1>3 DEF L!Contents
  <2>4. L!Contents(s \o t) \subseteq L!Contents(s) \cup L!Contents(t)
    BY <1>2, <2>1 DEF L!Contents
  <2>5. L!Contents(s) \subseteq L!Contents(s \o t) /\ L!Contents(t) \subseteq L!Contents(s \o t)
    <3>1. L!Contents(s) = {s[p] : p \in 1 .. m} /\ L!Contents(t) = {t[p] : p \in 1 .. n}
      BY <1>1 DEF L!Contents
    <3> HIDE DEF L!Contents
    <3> QED
      BY <2>2, <2>3, <3>1
  <2> QED
    BY <2>4, <2>5
<1>5. \A p \in 1 .. m : \A q \in 1 .. n : s[p] # t[q]
  BY <1>1 DEF L!Contents
<1>6. ASSUME NEW p \in 1 .. m + n, NEW q \in 1 .. m + n, (s \o t)[p] = (s \o t)[q]
      PROVE  p = q
  <2>1. CASE p \in 1 .. m /\ q \in 1 .. m
    BY <1>1, <1>2, <1>6, <2>1 DEF Once
  <2>2. CASE p \in 1 .. m /\ q \notin 1 .. m
    <3>1. (s \o t)[p] = s[p] /\ (s \o t)[q] = t[q - m] /\ q - m \in 1 .. n
      BY <1>2, <1>3, <2>2
    <3> QED
      BY <1>5, <1>6, <2>2, <3>1
  <2>3. CASE p \notin 1 .. m /\ q \in 1 .. m
    <3>1. (s \o t)[q] = s[q] /\ (s \o t)[p] = t[p - m] /\ p - m \in 1 .. n
      BY <1>2, <1>3, <2>3
    <3> QED
      BY <1>5, <1>6, <2>3, <3>1
  <2>4. CASE p \notin 1 .. m /\ q \notin 1 .. m
    <3>1. (s \o t)[q] = t[q - m] /\ (s \o t)[p] = t[p - m] /\ p - m \in 1 .. n /\ q - m \in 1 .. n
      BY <1>2, <1>3, <2>4
    <3>2. p - m = q - m
      BY <1>1, <1>6, <3>1 DEF Once
    <3> QED
      BY <1>1, <3>2
  <2> QED
    BY <2>1, <2>2, <2>3, <2>4
<1> QED
  BY <1>2, <1>4, <1>6 DEF Once

LEMMA OnceCounted ==
    ASSUME NEW s, Once(s)
    PROVE  IsFiniteSet(L!Contents(s)) /\ Cardinality(L!Contents(s)) = Len(s)
<1>1. PICK m \in Nat : m = Len(s) /\ DOMAIN s = 1 .. m
  BY DEF Once
<1>2. s \in Bijection(1 .. m, L!Contents(s))
  <2>1. s \in [1 .. m -> L!Contents(s)]
    <3>1. s = [p \in 1 .. m |-> s[p]]
      BY <1>1 DEF Once
    <3>2. \A p \in 1 .. m : s[p] \in L!Contents(s)
      BY <1>1 DEF L!Contents
    <3> QED
      BY <3>1, <3>2
  <2>2. \A x \in L!Contents(s) : \E p \in 1 .. m : s[p] = x
    BY <1>1 DEF L!Contents
  <2>3. \A p, q \in 1 .. m : s[p] = s[q] => p = q
    BY <1>1 DEF Once
  <2>4. s \in Injection(1 .. m, L!Contents(s)) /\ s \in Surjection(1 .. m, L!Contents(s))
    <3> DEFINE Z == L!Contents(s)
    <3> HIDE DEF Z
    <3>1. s \in Injection(1 .. m, Z)
      BY <2>1, <2>3 DEF Injection, IsInjective, Z
    <3>2. s \in Surjection(1 .. m, Z)
      BY <2>1, <2>2 DEF Surjection, Z
    <3> QED
      BY <3>1, <3>2 DEF Z
  <2> QED
    BY <2>4 DEF Bijection
<1>3. ExistsBijection(1 .. m, L!Contents(s))
  BY <1>2 DEF ExistsBijection
<1> QED
  BY <1>1, <1>3, FS_CountingElements, FS_NatBijection

LEMMA LogsStart == L!Init => LogsInv
BY DEF L!Init, LogsInv, Once, L!Contents, L!InFlight

\* flush(): what was in the buffer is in flight.
LEMMA FlushMoves ==
    ASSUME LogsInv, NEW lines, Once(lines), L!Contents(lines) \cap L!InFlight = {}, L!Flushed(lines)
    PROVE  /\ buffer' = <<>> /\ L!InFlight' = L!InFlight \cup L!Contents(lines)
           /\ \A b \in posts' : Once(b)
           /\ \A b, c \in posts' : b # c => L!Contents(b) \cap L!Contents(c) = {}
<1>1. L!Contents(<<>>) = {}
  BY DEF L!Contents
<1>2. \A b \in posts : L!Contents(b) \subseteq L!InFlight
  BY DEF L!InFlight
<1>3. CASE lines = <<>>
  BY <1>1, <1>3 DEF L!Flushed, LogsInv, L!InFlight
<1>4. CASE lines # <<>>
  <2>1. posts' = posts \cup {lines} /\ buffer' = <<>>
    BY <1>4 DEF L!Flushed
  <2>2. L!InFlight' = L!InFlight \cup L!Contents(lines)
    BY <2>1 DEF L!InFlight, L!Contents
  <2>3. \A b \in posts : L!Contents(b) \cap L!Contents(lines) = {}
    BY <1>2
  <2> QED
    BY <2>1, <2>2, <2>3 DEF LogsInv
<1> QED
  BY <1>3, <1>4

\* A post that settles: its lines are no longer in flight.
LEMMA PostLeaves ==
    ASSUME LogsInv, NEW b \in posts, posts' = posts \ {b}
    PROVE  /\ L!Contents(b) \subseteq L!InFlight /\ L!InFlight' = L!InFlight \ L!Contents(b)
           /\ \A c \in posts' : Once(c)
           /\ \A c, d \in posts' : c # d => L!Contents(c) \cap L!Contents(d) = {}
<1>1. \A c \in posts' : c \in posts /\ c # b
  OBVIOUS
<1>2. \A c \in posts : c # b => L!Contents(c) \cap L!Contents(b) = {}
  BY DEF LogsInv
<1>3. L!InFlight = L!InFlight' \cup L!Contents(b)
  BY DEF L!InFlight, L!Contents
<1>4. L!InFlight' \cap L!Contents(b) = {}
  <2>1. ASSUME NEW x \in L!InFlight' PROVE x \notin L!Contents(b)
    <3>1. PICK c \in posts' : x \in L!Contents(c)
      BY DEF L!InFlight, L!Contents
    <3> QED
      BY <1>1, <1>2, <3>1
  <2> QED
    BY <2>1
<1> QED
  BY <1>1, <1>3, <1>4 DEF LogsInv

LEMMA LogsStep == LogsInv /\ [L!Next]_(L!vars) => LogsInv'
<1> SUFFICES ASSUME LogsInv, [L!Next]_(L!vars) PROVE LogsInv'
  OBVIOUS
<1>0. L!Contents(<<>>) = {} /\ Once(<<>>)
  BY DEF L!Contents, Once
<1>1. CASE UNCHANGED L!vars
  <2>1. UNCHANGED <<logged, buffer, posts, arrived, dropped>>
    BY <1>1 DEF L!vars
  <2>2. L!InFlight' = L!InFlight
    BY <2>1 DEF L!InFlight, L!Contents
  <2> QED
    BY <2>1, <2>2 DEF LogsInv
<1>2. CASE L!Log
  <2> DEFINE lines == Append(buffer, logged + 1)
  <2>1. /\ logged' = logged + 1 /\ UNCHANGED <<arrived, dropped>>
        /\ L!Flushed(lines) \/ (buffer' = lines /\ UNCHANGED posts)
    BY <1>2 DEF L!Log
  <2>2. logged \in Nat /\ logged + 1 \in Nat /\ logged + 1 \notin 1 .. logged
        /\ 1 .. logged + 1 = (1 .. logged) \cup {logged + 1}
    BY DEF LogsInv
  <2>3. Once(lines) /\ L!Contents(lines) = L!Contents(buffer) \cup {logged + 1}
    BY <2>2, OnceAppend DEF LogsInv
  <2>4. L!Contents(arrived') = L!Contents(arrived)
    BY <2>1
  <2> HIDE DEF lines
  <2>5. L!Contents(lines) \cap L!InFlight = {}
    BY <2>2, <2>3 DEF LogsInv
  <2>6. CASE L!Flushed(lines)
    <3>1. /\ buffer' = <<>> /\ L!InFlight' = L!InFlight \cup L!Contents(lines)
          /\ \A b \in posts' : Once(b)
          /\ \A b, c \in posts' : b # c => L!Contents(b) \cap L!Contents(c) = {}
      BY <2>3, <2>5, <2>6, FlushMoves
    <3>2. L!Contents(buffer') = {} /\ Once(buffer')
      BY <1>0, <3>1
    <3> QED
      BY <2>1, <2>2, <2>3, <2>4, <2>5, <3>1, <3>2 DEF LogsInv
  <2>7. CASE buffer' = lines /\ UNCHANGED posts
    <3>1. L!InFlight' = L!InFlight
      BY <2>7 DEF L!InFlight, L!Contents
    <3> QED
      BY <2>1, <2>2, <2>3, <2>4, <2>5, <2>7, <3>1 DEF LogsInv
  <2> QED
    BY <2>1, <2>6, <2>7
<1>3. CASE L!Timer \/ L!Close
  <2>1. L!Flushed(buffer) /\ UNCHANGED <<logged, arrived, dropped>>
    BY <1>3 DEF L!Timer, L!Close
  <2>2. /\ buffer' = <<>> /\ L!InFlight' = L!InFlight \cup L!Contents(buffer)
        /\ \A b \in posts' : Once(b)
        /\ \A b, c \in posts' : b # c => L!Contents(b) \cap L!Contents(c) = {}
    BY <2>1, FlushMoves DEF LogsInv
  <2>3. L!Contents(buffer') = {} /\ Once(buffer') /\ L!Contents(arrived') = L!Contents(arrived)
    BY <1>0, <2>1, <2>2
  <2> QED
    BY <2>1, <2>2, <2>3 DEF LogsInv
<1>4. ASSUME NEW b \in posts, L!Arrive(b) PROVE LogsInv'
  <2>1. posts' = posts \ {b} /\ arrived' = arrived \o b /\ UNCHANGED <<logged, buffer, dropped>>
    BY <1>4 DEF L!Arrive
  <2>2. /\ L!Contents(b) \subseteq L!InFlight /\ L!InFlight' = L!InFlight \ L!Contents(b)
        /\ \A c \in posts' : Once(c)
        /\ \A c, d \in posts' : c # d => L!Contents(c) \cap L!Contents(d) = {}
    BY <2>1, PostLeaves
  <2>3. Once(arrived') /\ L!Contents(arrived') = L!Contents(arrived) \cup L!Contents(b)
    BY <2>1, <2>2, OnceConcat DEF LogsInv
  <2>4. L!Contents(buffer') = L!Contents(buffer)
    BY <2>1
  <2> QED
    BY <2>1, <2>2, <2>3, <2>4 DEF LogsInv
<1>5. ASSUME NEW b \in posts, L!Fail(b) PROVE LogsInv'
  <2>1. posts' = posts \ {b} /\ dropped' = dropped \cup L!Contents(b) /\ UNCHANGED <<logged, buffer, arrived>>
    BY <1>5 DEF L!Fail
  <2>2. /\ L!Contents(b) \subseteq L!InFlight /\ L!InFlight' = L!InFlight \ L!Contents(b)
        /\ \A c \in posts' : Once(c)
        /\ \A c, d \in posts' : c # d => L!Contents(c) \cap L!Contents(d) = {}
    BY <2>1, PostLeaves
  <2>3. L!Contents(buffer') = L!Contents(buffer) /\ L!Contents(arrived') = L!Contents(arrived)
    BY <2>1
  <2> QED
    BY <2>1, <2>2, <2>3 DEF LogsInv
<1> QED
  BY <1>1, <1>2, <1>3, <1>4, <1>5 DEF L!Next, L!Post

LEMMA LogsSound == LogsInv => L!EveryLineOnce
<1> SUFFICES ASSUME LogsInv PROVE L!EveryLineOnce
  OBVIOUS
<1> DEFINE buf == L!Contents(buffer)
           arr == L!Contents(arrived)
           fly == L!InFlight
<1>1. logged \in Nat /\ buf \cup fly \cup arr \cup dropped = 1 .. logged
  BY DEF LogsInv
<1>2. IsFiniteSet(1 .. logged) /\ Cardinality(1 .. logged) = logged
  BY <1>1, FS_Interval
<1>3. /\ IsFiniteSet(buf) /\ IsFiniteSet(fly) /\ IsFiniteSet(arr) /\ IsFiniteSet(dropped)
      /\ IsFiniteSet(buf \cup fly) /\ IsFiniteSet(buf \cup fly \cup arr)
  BY <1>1, <1>2, FS_Subset
<1>4. Cardinality(buf) = Len(buffer) /\ Cardinality(arr) = Len(arrived)
  BY OnceCounted DEF LogsInv
<1>5. \A s, t : IsFiniteSet(s) /\ IsFiniteSet(t) /\ s \cap t = {} =>
                    Cardinality(s \cup t) = Cardinality(s) + Cardinality(t)
  <2> SUFFICES ASSUME NEW s, NEW t, IsFiniteSet(s), IsFiniteSet(t), s \cap t = {}
               PROVE  Cardinality(s \cup t) = Cardinality(s) + Cardinality(t)
    OBVIOUS
  <2>1. Cardinality(s \cap t) = 0
    BY FS_EmptySet
  <2>2. Cardinality(s) \in Nat /\ Cardinality(t) \in Nat
    BY FS_CardinalityType
  <2>3. Cardinality(s \cup t) = Cardinality(s) + Cardinality(t) - Cardinality(s \cap t)
    BY FS_Union
  <2> QED
    BY <2>1, <2>2, <2>3
<1>6. buf \cap fly = {} /\ (buf \cup fly) \cap arr = {} /\ (buf \cup fly \cup arr) \cap dropped = {}
  BY DEF LogsInv
<1>7. /\ Cardinality(buf \cup fly) = Cardinality(buf) + Cardinality(fly)
      /\ Cardinality(buf \cup fly \cup arr) = Cardinality(buf \cup fly) + Cardinality(arr)
      /\ Cardinality(buf \cup fly \cup arr \cup dropped) = Cardinality(buf \cup fly \cup arr) + Cardinality(dropped)
  BY <1>3, <1>5, <1>6, Zenon
<1>8. /\ Cardinality(buf) \in Nat /\ Cardinality(fly) \in Nat /\ Cardinality(arr) \in Nat /\ Cardinality(dropped) \in Nat
  BY <1>3, FS_CardinalityType
<1>9. Cardinality(fly) + Cardinality(dropped) + Len(arrived) + Len(buffer) = logged
  <2> HIDE DEF buf, arr, fly
  <2>1. Cardinality(buf \cup fly \cup arr \cup dropped) = logged
    BY <1>1, <1>2
  <2> QED
    BY <1>4, <1>7, <1>8, <2>1
<1>10. \A s : L!Cardinality(s) = Cardinality(s)
  BY DEF L!Cardinality, Cardinality
<1> QED
  BY <1>1, <1>9, <1>10 DEF L!EveryLineOnce, LogsInv

-----------------------------------------------------------------------------
\* The streams. A reader is there once its run has begun.
ReaderInv(r) ==
    /\ events[r] \in Nat
    /\ reader[r] \in [at : {"none", "holding", "waiting", "ended", "left"}, got : Nat]
    /\ run[r].at \in {"idle", "running", "saving", "done"}
    /\ run[r].at = "idle" <=> reader[r].at = "none"
    /\ reader[r].got <= events[r]
    /\ reader[r].at # "left" => queue[r] = [i \in 1 .. events[r] - reader[r].got |-> reader[r].got + i]
    /\ reader[r].at = "waiting" => queue[r] = <<>> /\ run[r].at = "running"
    /\ reader[r].at = "ended" => reader[r].got = events[r] /\ run[r].at \in {"saving", "done"}

OfStreams(f) == f = [r \in Streams |-> f[r]]

OfRuns(f) == f = [r \in Runs |-> f[r]]

RunsTyped == run \in [Runs -> [at : {"idle", "running", "saving", "done"}, state : Runs]]

StreamInv ==
    /\ OfRuns(run)
    /\ OfStreams(events) /\ OfStreams(queue) /\ OfStreams(reader)
    /\ \A r \in Streams : ReaderInv(r)

\* The numbers from one event on, in order.
LEMMA NextEvent ==
    ASSUME NEW g \in Nat, NEW n \in Nat
    PROVE  /\ Append([i \in 1 .. n |-> g + i], g + n + 1) = [i \in 1 .. n + 1 |-> g + i]
           /\ n > 0 => /\ Head([i \in 1 .. n |-> g + i]) = g + 1
                       /\ Tail([i \in 1 .. n |-> g + i]) = [i \in 1 .. n - 1 |-> g + 1 + i]
           /\ [i \in 1 .. n |-> g + i] = <<>> <=> n = 0
<1> DEFINE s == [i \in 1 .. n |-> g + i]
<1>1. s \in Seq(Nat) /\ Len(s) = n /\ \A i \in 1 .. n : s[i] = g + i
  OBVIOUS
<1> HIDE DEF s
<1>2. Append(s, g + n + 1) = [i \in 1 .. n + 1 |-> g + i]
  <2>1. /\ Append(s, g + n + 1) \in Seq(Nat) /\ Len(Append(s, g + n + 1)) = n + 1
        /\ Append(s, g + n + 1)[n + 1] = g + n + 1
        /\ \A i \in 1 .. n : Append(s, g + n + 1)[i] = g + i
    BY <1>1
  <2>2. \A i \in 1 .. n + 1 : Append(s, g + n + 1)[i] = g + i
    <3>1. \A i \in 1 .. n + 1 : i \in 1 .. n \/ (i = n + 1 /\ g + i = g + n + 1)
      OBVIOUS
    <3> QED
      BY <2>1, <3>1
  <2>3. Append(s, g + n + 1) = [i \in 1 .. n + 1 |-> Append(s, g + n + 1)[i]]
    BY <2>1
  <2> QED
    BY <2>2, <2>3
<1>3. ASSUME n > 0 PROVE Head(s) = g + 1 /\ Tail(s) = [i \in 1 .. n - 1 |-> g + 1 + i]
  <2>1. Head(s) = g + 1
    BY <1>1, <1>3
  <2>2. Tail(s) \in Seq(Nat) /\ Len(Tail(s)) = n - 1 /\ \A i \in 1 .. n - 1 : Tail(s)[i] = s[i + 1]
    BY <1>1, <1>3
  <2>3. \A i \in 1 .. n - 1 : Tail(s)[i] = g + 1 + i
    BY <1>1, <2>2
  <2>4. Tail(s) = [i \in 1 .. n - 1 |-> Tail(s)[i]]
    <3>1. \A t \in Seq(Nat) : t = [i \in 1 .. Len(t) |-> t[i]]
      OBVIOUS
    <3> QED
      BY <2>2, <3>1, Zenon
  <2> QED
    BY <2>1, <2>3, <2>4
<1>4. s = <<>> <=> n = 0
  BY <1>1
<1> QED
  BY <1>2, <1>3, <1>4 DEF s

LEMMA StreamStart == S!Init => StreamInv
<1> SUFFICES ASSUME S!Init PROVE StreamInv
  OBVIOUS
<1>1. OfRuns(run)
  BY DEF S!Init, OfRuns
<1>2. OfStreams(events) /\ OfStreams(queue) /\ OfStreams(reader)
  BY DEF S!Init, OfStreams
<1>3. ASSUME NEW r \in Streams PROVE ReaderInv(r)
  <2>1. /\ events[r] = 0 /\ queue[r] = <<>> /\ reader[r] = [at |-> "none", got |-> 0]
        /\ run[r].at = "idle"
    BY ServiceConstants DEF S!Init
  <2>2. [i \in 1 .. 0 |-> 0 + i] = <<>>
    BY NextEvent
  <2> QED
    BY <2>1, <2>2 DEF ReaderInv
<1> QED
  BY <1>1, <1>2, <1>3 DEF StreamInv

\* What leaves a run and its stream alone, leaves its reader sound.
LEMMA OtherReader ==
    ASSUME NEW r, ReaderInv(r), UNCHANGED <<events[r], reader[r], queue[r], run[r]>>
    PROVE  ReaderInv(r)'
BY DEF ReaderInv

LEMMA StreamStep == RunsTyped /\ StreamInv /\ [S!Next]_(S!vars) => StreamInv'
<1> SUFFICES ASSUME RunsTyped, StreamInv, [S!Next]_(S!vars) PROVE StreamInv'
  OBVIOUS
<1>0. /\ Streams \subseteq Runs /\ OfRuns(run) /\ \A r \in Streams : ReaderInv(r)
      /\ OfStreams(events) /\ OfStreams(queue) /\ OfStreams(reader)
  BY ServiceConstants DEF StreamInv
<1>1. CASE UNCHANGED S!vars
  <2>1. UNCHANGED <<run, events, queue, reader>>
    BY <1>1 DEF S!vars, S!streamVars
  <2>2. \A r \in Streams : ReaderInv(r)'
    BY <1>0, <2>1, OtherReader
  <2> QED
    BY <1>0, <2>1, <2>2 DEF StreamInv, OfStreams, OfRuns
<1>2. ASSUME NEW r \in Runs, S!Begin(r) PROVE StreamInv'
  <2>1. PICK s : run' = [run EXCEPT ![r] = [at |-> "running", state |-> s]]
    BY <1>2 DEF S!Begin
  <2>2. /\ UNCHANGED <<events, queue>> /\ run[r].at = "idle"
        /\ reader' = IF r \in Streams THEN [reader EXCEPT ![r].at = "holding"] ELSE reader
    BY <1>2 DEF S!Begin
  <2>3. OfRuns(run)' /\ OfStreams(events)' /\ OfStreams(queue)' /\ OfStreams(reader)'
    BY <1>0, <2>1, <2>2 DEF OfRuns, OfStreams
  <2>4. \A q \in Streams : q # r => ReaderInv(q)'
    BY <1>0, <2>1, <2>2, OtherReader DEF OfRuns, OfStreams
  <2>5. ASSUME r \in Streams PROVE ReaderInv(r)'
    <3>1. /\ reader'[r] = [reader[r] EXCEPT !.at = "holding"] /\ run'[r].at = "running"
          /\ events'[r] = events[r] /\ queue'[r] = queue[r]
      BY <1>0, <2>1, <2>2, <2>5 DEF OfRuns, OfStreams
    <3>2. ReaderInv(r)
      BY <1>0, <2>5
    <3>3. /\ reader'[r] \in [at : {"none", "holding", "waiting", "ended", "left"}, got : Nat]
          /\ reader'[r].at = "holding" /\ reader'[r].got = reader[r].got /\ reader[r].at = "none"
      BY <2>2, <3>1, <3>2 DEF ReaderInv
    <3> QED
      BY <3>1, <3>2, <3>3 DEF ReaderInv
  <2> QED
    BY <2>3, <2>4, <2>5 DEF StreamInv
<1>3. ASSUME NEW r \in Runs, S!Emit(r) PROVE StreamInv'
  <2>1. /\ r \in Streams /\ run[r].at = "running" /\ UNCHANGED run
        /\ events' = [events EXCEPT ![r] = events[r] + 1]
        /\ \/ /\ reader[r].at = "waiting" /\ UNCHANGED queue
              /\ reader' = [reader EXCEPT ![r] = [at |-> "holding", got |-> events[r] + 1]]
           \/ /\ reader[r].at # "waiting" /\ UNCHANGED reader
              /\ queue' = [queue EXCEPT ![r] = Append(queue[r], events[r] + 1)]
    BY <1>3 DEF S!Emit, S!Delivered
  <2>2. OfRuns(run)' /\ OfStreams(events)' /\ OfStreams(queue)' /\ OfStreams(reader)'
    BY <1>0, <2>1 DEF OfRuns, OfStreams
  <2>3. \A q \in Streams : q # r => ReaderInv(q)'
    BY <1>0, <2>1, OtherReader DEF OfRuns, OfStreams
  <2>4. ReaderInv(r) /\ events[r] \in Nat /\ events'[r] = events[r] + 1
    BY <1>0, <2>1 DEF ReaderInv, OfStreams
  <2>5. CASE reader[r].at = "waiting"
    <3>1. /\ reader'[r] = [at |-> "holding", got |-> events[r] + 1] /\ queue'[r] = <<>>
      BY <1>0, <2>1, <2>4, <2>5 DEF ReaderInv, OfStreams
    <3>2. queue'[r] = [i \in 1 .. 0 |-> events[r] + 1 + i]
      BY <2>4, <3>1, NextEvent
    <3> QED
      BY <2>1, <2>2, <2>3, <2>4, <3>1, <3>2 DEF ReaderInv, StreamInv
  <2>6. CASE reader[r].at # "waiting"
    <3> DEFINE g == reader[r].got
               n == events[r] - g
    <3>1. reader'[r] = reader[r] /\ queue'[r] = Append(queue[r], events[r] + 1)
      BY <1>0, <2>1, <2>6 DEF OfStreams
    <3>2. g \in Nat /\ n \in Nat /\ g + n = events[r] /\ events'[r] - g = n + 1
      BY <2>4 DEF ReaderInv
    <3>3. reader[r].at # "left" => queue'[r] = [i \in 1 .. n + 1 |-> g + i]
      <4>1. reader[r].at # "left" => queue[r] = [i \in 1 .. n |-> g + i]
        BY <2>4 DEF ReaderInv
      <4> HIDE DEF g, n
      <4>2. Append([i \in 1 .. n |-> g + i], g + n + 1) = [i \in 1 .. n + 1 |-> g + i]
        BY <3>2, NextEvent
      <4>3. g + n + 1 = events[r] + 1
        BY <3>2
      <4> QED
        BY <3>1, <4>1, <4>2, <4>3
    <3>4. reader[r].at # "ended"
      BY <2>1, <2>4 DEF ReaderInv
    <3>5. reader'[r].at # "left" => queue'[r] = [i \in 1 .. events'[r] - reader'[r].got |-> reader'[r].got + i]
      BY <3>1, <3>2, <3>3
    <3> HIDE DEF g, n
    <3>6. ReaderInv(r)'
      BY <2>1, <2>4, <2>6, <3>1, <3>4, <3>5, SMTT(30) DEF ReaderInv
    <3> QED
      BY <2>2, <2>3, <3>6 DEF StreamInv
  <2> QED
    BY <2>5, <2>6
<1>4. ASSUME NEW r \in Runs, S!Finish(r) PROVE StreamInv'
  <2>1. /\ run[r].at = "running" /\ run' = [run EXCEPT ![r].at = "saving"] /\ UNCHANGED <<events, queue>>
        /\ \/ /\ r \in Streams /\ reader[r].at = "waiting"
              /\ reader' = [reader EXCEPT ![r].at = "ended"]
           \/ ~(r \in Streams /\ reader[r].at = "waiting") /\ reader' = reader
    BY <1>4 DEF S!Finish, S!Completed
  <2>2. OfRuns(run)' /\ OfStreams(events)' /\ OfStreams(queue)' /\ OfStreams(reader)'
    BY <1>0, <2>1 DEF OfRuns, OfStreams
  <2>3. \A q \in Streams : q # r => ReaderInv(q)'
    BY <1>0, <2>1, OtherReader DEF OfRuns, OfStreams
  <2>4. run'[r].at = "saving" /\ events'[r] = events[r] /\ queue'[r] = queue[r]
    <3>1. run'[r] = [run[r] EXCEPT !.at = "saving"]
      BY <2>1 DEF RunsTyped
    <3> QED
      BY <2>1, <3>1 DEF RunsTyped
  <2>5. ASSUME r \in Streams, reader[r].at = "waiting" PROVE ReaderInv(r)'
    <3>1. ReaderInv(r) /\ reader'[r] = [reader[r] EXCEPT !.at = "ended"]
      BY <1>0, <2>1, <2>5 DEF OfStreams
    <3>2. /\ events[r] \in Nat /\ reader[r].got \in Nat /\ reader[r].got <= events[r] /\ queue[r] = <<>>
          /\ queue[r] = [i \in 1 .. events[r] - reader[r].got |-> reader[r].got + i]
      BY <2>5, <3>1 DEF ReaderInv
    <3>3. reader[r].got = events[r]
      BY <3>2, NextEvent
    <3>4. /\ reader'[r] \in [at : {"none", "holding", "waiting", "ended", "left"}, got : Nat]
          /\ reader'[r].at = "ended" /\ reader'[r].got = reader[r].got
      BY <3>1 DEF ReaderInv
    <3> QED
      BY <2>4, <3>2, <3>3, <3>4 DEF ReaderInv
  <2>6. ASSUME r \in Streams, reader[r].at # "waiting" PROVE ReaderInv(r)'
    <3>1. ReaderInv(r) /\ reader'[r] = reader[r]
      BY <1>0, <2>1, <2>6
    <3> QED
      BY <2>1, <2>4, <2>6, <3>1 DEF ReaderInv
  <2> QED
    BY <2>2, <2>3, <2>5, <2>6 DEF StreamInv
<1>5. ASSUME NEW r \in Runs, S!Save(r) PROVE StreamInv'
  <2>1. run[r].at = "saving" /\ run' = [run EXCEPT ![r].at = "done"] /\ UNCHANGED <<events, queue, reader>>
    BY <1>5 DEF S!Save, S!streamVars
  <2>2. OfRuns(run)' /\ \A q \in Runs : run'[q].at = IF q = r THEN "done" ELSE run[q].at
    BY <1>0, <2>1 DEF OfRuns, RunsTyped
  <2>3. ASSUME NEW q \in Streams PROVE ReaderInv(q)'
    BY <1>0, <2>1, <2>2 DEF ReaderInv
  <2> QED
    BY <1>0, <2>1, <2>2, <2>3 DEF StreamInv, OfStreams
<1>6. ASSUME NEW r \in Streams, S!Read(r) PROVE StreamInv'
  <2> DEFINE g == reader[r].got
             n == events[r] - g
  <2>1. /\ reader[r].at = "holding" /\ UNCHANGED <<run, events>>
        /\ \/ /\ queue[r] # <<>> /\ queue' = [queue EXCEPT ![r] = Tail(queue[r])]
              /\ reader' = [reader EXCEPT ![r].got = Head(queue[r])]
           \/ /\ queue[r] = <<>> /\ UNCHANGED queue
              /\ reader' = [reader EXCEPT ![r].at = IF run[r].at = "running" THEN "waiting" ELSE "ended"]
    BY <1>6 DEF S!Read
  <2>2. OfRuns(run)' /\ OfStreams(events)' /\ OfStreams(queue)' /\ OfStreams(reader)'
    BY <1>0, <2>1 DEF OfRuns, OfStreams
  <2>3. \A q \in Streams : q # r => ReaderInv(q)'
    BY <1>0, <2>1, OtherReader DEF OfRuns, OfStreams
  <2>4. /\ ReaderInv(r) /\ g \in Nat /\ n \in Nat /\ events[r] = g + n /\ events'[r] = events[r]
        /\ queue[r] = [i \in 1 .. n |-> g + i] /\ run'[r] = run[r]
    BY <1>0, <2>1 DEF ReaderInv
  <2>5. CASE queue[r] # <<>>
    <3>1. /\ reader'[r] = [reader[r] EXCEPT !.got = Head(queue[r])] /\ queue'[r] = Tail(queue[r])
      BY <1>0, <2>1, <2>5 DEF OfStreams
    <3>2. n > 0 /\ Head(queue[r]) = g + 1 /\ Tail(queue[r]) = [i \in 1 .. n - 1 |-> g + 1 + i]
      <4> HIDE DEF g, n
      <4>1. n # 0
        BY <2>4, <2>5, NextEvent
      <4>2. /\ Head([i \in 1 .. n |-> g + i]) = g + 1
            /\ Tail([i \in 1 .. n |-> g + i]) = [i \in 1 .. n - 1 |-> g + 1 + i]
        <5>1. g \in Nat /\ n \in Nat /\ n > 0
          BY <2>4, <4>1
        <5> QED
          BY <5>1, NextEvent
      <4> QED
        BY <2>4, <4>1, <4>2
    <3>3. /\ reader'[r] \in [at : {"none", "holding", "waiting", "ended", "left"}, got : Nat]
          /\ reader'[r].at = "holding" /\ reader'[r].got = g + 1
      <4>1. reader[r] \in [at : {"none", "holding", "waiting", "ended", "left"}, got : Nat]
        BY <2>4 DEF ReaderInv
      <4>2. reader'[r] = [reader[r] EXCEPT !.got = g + 1] /\ g + 1 \in Nat
        BY <2>4, <3>1, <3>2
      <4> HIDE DEF g, n
      <4> QED
        BY <2>1, <4>1, <4>2
    <3>4. events[r] - (g + 1) = n - 1 /\ g + 1 <= events[r]
      BY <2>4, <3>2
    <3> HIDE DEF g, n
    <3>5. queue'[r] = [i \in 1 .. events'[r] - reader'[r].got |-> reader'[r].got + i]
      BY <2>4, <3>1, <3>2, <3>3, <3>4, ZenonT(30)
    <3>6. ReaderInv(r)'
      BY <2>1, <2>4, <3>3, <3>4, <3>5 DEF ReaderInv
    <3> QED
      BY <2>2, <2>3, <3>6 DEF StreamInv
  <2>6. CASE queue[r] = <<>>
    <3> DEFINE to == IF run[r].at = "running" THEN "waiting" ELSE "ended"
    <3>1. /\ reader'[r] = [reader[r] EXCEPT !.at = to] /\ queue'[r] = queue[r]
      BY <1>0, <2>1, <2>6 DEF OfStreams
    <3>2. n = 0
      <4> HIDE DEF g, n
      <4> QED
        BY <2>4, <2>6, NextEvent
    <3>3. /\ reader'[r] \in [at : {"none", "holding", "waiting", "ended", "left"}, got : Nat]
          /\ reader'[r].at = to /\ reader'[r].got = g /\ g = events[r]
      BY <2>4, <3>1, <3>2 DEF ReaderInv
    <3>4. run[r].at # "running" => run[r].at \in {"saving", "done"}
      BY <2>1, <2>4 DEF ReaderInv
    <3>5. ReaderInv(r)'
      BY <2>1, <2>4, <2>6, <3>1, <3>2, <3>3, <3>4 DEF ReaderInv
    <3> QED
      BY <2>2, <2>3, <3>5 DEF StreamInv
  <2> QED
    BY <2>5, <2>6
<1>7. ASSUME NEW r \in Streams, S!LeaveStream(r) PROVE StreamInv'
  <2>1. /\ reader[r].at = "holding" /\ reader' = [reader EXCEPT ![r].at = "left"]
        /\ UNCHANGED <<run, events, queue>>
    BY <1>7 DEF S!LeaveStream
  <2>2. OfRuns(run)' /\ OfStreams(events)' /\ OfStreams(queue)' /\ OfStreams(reader)'
    BY <1>0, <2>1 DEF OfRuns, OfStreams
  <2>3. \A q \in Streams : q # r => ReaderInv(q)'
    BY <1>0, <2>1, OtherReader DEF OfRuns, OfStreams
  <2>4. ReaderInv(r) /\ reader'[r] = [reader[r] EXCEPT !.at = "left"]
    BY <1>0, <2>1 DEF OfStreams
  <2>5. /\ reader'[r] \in [at : {"none", "holding", "waiting", "ended", "left"}, got : Nat]
        /\ reader'[r].at = "left" /\ reader'[r].got = reader[r].got
    BY <2>4 DEF ReaderInv
  <2> QED
    BY <2>1, <2>2, <2>3, <2>4, <2>5 DEF ReaderInv, StreamInv
<1> QED
  BY <1>1, <1>2, <1>3, <1>4, <1>5, <1>6, <1>7 DEF S!Next, S!Work

LEMMA StreamSound == StreamInv => S!StreamInOrder
BY DEF StreamInv, ReaderInv, S!StreamInOrder

-----------------------------------------------------------------------------
\* The sessions. Until its session is forked, who works on it works on the one
\* state, which is in the store as soon as one of them is done, and which
\* remembers those that have ended.
Entries == [key : Sessions, state : Runs]

Keyed(w) == w \in Seq(Entries) /\ \A i, j \in DOMAIN w : w[i].key = w[j].key => i = j

Begun(r) == run[r].at # "idle"

OneState(k) ==
    /\ \A r, q \in Runs : Begun(r) /\ Begun(q) /\ KeyOf[r] = k /\ KeyOf[q] = k =>
           run[r].state = run[q].state
    /\ \A r \in Runs, e \in S!ToSet(store) : Begun(r) /\ KeyOf[r] = k /\ e.key = k =>
           e.state = run[r].state
    /\ \A r \in Runs : run[r].at = "done" /\ KeyOf[r] = k => \E e \in S!ToSet(store) : e.key = k
    /\ \A r \in Runs : Begun(r) /\ KeyOf[r] = k => history[run[r].state] = S!LastOf(finished[k])

StatesInv ==
    /\ \A r \in Runs : Begun(r) => KeyOf[run[r].state] = KeyOf[r] /\ Begun(run[r].state)
    /\ \A e \in S!ToSet(store) : KeyOf[e.state] = e.key /\ Begun(e.state)
    /\ \A r \in Runs : ~Begun(r) => history[r] = <<>>
    /\ \A k \in Sessions : (\A r \in Runs : KeyOf[r] = k => ~Begun(r)) => finished[k] = <<>>

SessionInv ==
    /\ RunsTyped /\ history \in [Runs -> Seq(Runs)] /\ finished \in [Sessions -> Seq(Runs)]
    /\ Keyed(store) /\ Len(store) <= MaxEntries
    /\ StatesInv
    /\ \A k \in Sessions : k \notin forked => OneState(k)

LEMMA EntryTaken ==
    ASSUME NEW w, Keyed(w), NEW i \in DOMAIN w
    PROVE  /\ Keyed(S!RemoveAt(w, i)) /\ Len(S!RemoveAt(w, i)) = Len(w) - 1
           /\ \A e : e \in S!ToSet(S!RemoveAt(w, i)) <=> e \in S!ToSet(w) /\ e.key # w[i].key
<1> DEFINE a == SubSeq(w, 1, i - 1)
           b == SubSeq(w, i + 1, Len(w))
           u == a \o b
           n == Len(w)
<1>1. w \in Seq(Entries) /\ n \in Nat /\ i \in 1 .. n /\ DOMAIN w = 1 .. n /\ \A j \in 1 .. n : w[j] \in Entries
  BY DEF Keyed
<1>2. a \in Seq(Entries) /\ Len(a) = i - 1 /\ \A j \in 1 .. i - 1 : a[j] = w[j]
  <2>1. \A j \in 1 .. i - 1 : w[j] \in Entries
    BY <1>1
  <2> QED
    BY <1>1, <2>1
<1>3. b \in Seq(Entries) /\ Len(b) = n - i /\ \A j \in 1 .. n - i : b[j] = w[j + i]
  <2>1. \A j \in i + 1 .. n : w[j] \in Entries
    BY <1>1
  <2> QED
    BY <1>1, <2>1
<1>4. /\ u \in Seq(Entries) /\ Len(u) = n - 1
      /\ \A j \in 1 .. n - 1 : u[j] = IF j < i THEN w[j] ELSE w[j + 1]
  <2> HIDE DEF a, b
  <2>1. /\ a \o b \in Seq(Entries) /\ Len(a \o b) = Len(a) + Len(b)
        /\ \A j \in 1 .. Len(a) + Len(b) : (a \o b)[j] = IF j <= Len(a) THEN a[j] ELSE b[j - Len(a)]
    BY <1>2, <1>3, ConcatProperties
  <2>2. Len(a) + Len(b) = n - 1
    BY <1>1, <1>2, <1>3
  <2>3. ASSUME NEW j \in 1 .. n - 1 PROVE u[j] = IF j < i THEN w[j] ELSE w[j + 1]
    <3>1. CASE j < i
      BY <1>1, <1>2, <2>1, <2>2, <3>1
    <3>2. CASE ~(j < i)
      <4>1. j - (i - 1) \in 1 .. n - i /\ (j - (i - 1)) + i = j + 1
        BY <1>1, <3>2
      <4>2. u[j] = b[j - (i - 1)]
        BY <1>1, <1>2, <2>1, <2>2, <3>2
      <4> QED
        BY <1>3, <3>2, <4>1, <4>2
    <3> QED
      BY <3>1, <3>2
  <2> QED
    BY <2>1, <2>2, <2>3
<1> DEFINE p(j) == IF j < i THEN j ELSE j + 1
<1> HIDE DEF u, a, b
<1>5. \A j \in 1 .. n - 1 : p(j) \in 1 .. n /\ p(j) # i /\ u[j] = w[p(j)]
  BY <1>1, <1>4
<1>6. \A j, l \in 1 .. n - 1 : p(j) = p(l) => j = l
  BY <1>1
<1>7. \A l \in 1 .. n : l # i => \E j \in 1 .. n - 1 : p(j) = l
  <2> SUFFICES ASSUME NEW l \in 1 .. n, l # i PROVE \E j \in 1 .. n - 1 : p(j) = l
    OBVIOUS
  <2>1. CASE l < i
    <3>1. l \in 1 .. n - 1 /\ p(l) = l
      BY <1>1, <2>1
    <3> QED
      BY <3>1
  <2>2. CASE l > i
    <3>1. l - 1 \in 1 .. n - 1 /\ p(l - 1) = l
      BY <1>1, <2>2
    <3> QED
      BY <3>1
  <2> QED
    BY <1>1, <2>1, <2>2
<1>8. \A j, l \in 1 .. n : w[j].key = w[l].key => j = l
  BY <1>1 DEF Keyed
<1>9. DOMAIN u = 1 .. n - 1 /\ DOMAIN w = 1 .. n /\ u = S!RemoveAt(w, i) /\ u \in Seq(Entries) /\ Len(u) = n - 1
  <2>1. u = S!RemoveAt(w, i)
    BY DEF S!RemoveAt, u, a, b
  <2>2. \A v \in Seq(Entries) : DOMAIN v = 1 .. Len(v)
    OBVIOUS
  <2> QED
    BY <1>1, <1>4, <2>1, <2>2
<1> HIDE DEF p
<1>10. Keyed(u)
  <2>1. \A j, l \in 1 .. n - 1 : u[j].key = u[l].key => j = l
    BY <1>5, <1>6, <1>8, SMTT(30)
  <2> QED
    BY <1>9, <2>1 DEF Keyed
<1>11. ASSUME NEW e PROVE e \in S!ToSet(u) <=> e \in S!ToSet(w) /\ e.key # w[i].key
  <2>1. e \in S!ToSet(u) <=> \E j \in 1 .. n - 1 : u[j] = e
    BY <1>9 DEF S!ToSet
  <2>2. e \in S!ToSet(w) <=> \E j \in 1 .. n : w[j] = e
    BY <1>9 DEF S!ToSet
  <2>3. ASSUME NEW j \in 1 .. n - 1, u[j] = e PROVE e \in S!ToSet(w) /\ e.key # w[i].key
    BY <1>1, <1>5, <1>8, <2>2, <2>3
  <2>4. ASSUME NEW l \in 1 .. n, w[l] = e, e.key # w[i].key PROVE e \in S!ToSet(u)
    <3>1. PICK j \in 1 .. n - 1 : p(j) = l
      BY <1>7, <2>4
    <3> QED
      BY <1>5, <2>1, <2>4, <3>1
  <2> QED
    BY <2>1, <2>2, <2>3, <2>4
<1> QED
  BY <1>9, <1>10, <1>11

LEMMA EntryPut ==
    ASSUME NEW w, Keyed(w), NEW e \in Entries, \A f \in S!ToSet(w) : f.key # e.key
    PROVE  /\ Keyed(Append(w, e)) /\ Len(Append(w, e)) = Len(w) + 1
           /\ Append(w, e)[Len(w) + 1] = e
           /\ S!ToSet(Append(w, e)) = S!ToSet(w) \cup {e}
<1> DEFINE u == Append(w, e)
           n == Len(w)
<1>1. /\ w \in Seq(Entries) /\ n \in Nat /\ DOMAIN w = 1 .. n
      /\ \A i, j \in 1 .. n : w[i].key = w[j].key => i = j
  BY DEF Keyed
<1>2. /\ u \in Seq(Entries) /\ Len(u) = n + 1 /\ DOMAIN u = 1 .. n + 1
      /\ u[n + 1] = e /\ \A i \in 1 .. n : u[i] = w[i]
  BY <1>1
<1> HIDE DEF u
<1>3. \A i : i \in 1 .. n + 1 <=> i \in 1 .. n \/ i = n + 1
  BY <1>1
<1>4. \A i \in 1 .. n : w[i].key # e.key
  BY <1>1 DEF S!ToSet
<1>5. Keyed(u)
  <2>1. \A i, j \in 1 .. n + 1 : u[i].key = u[j].key => i = j
    BY <1>1, <1>2, <1>3, <1>4
  <2> QED
    BY <1>2, <2>1 DEF Keyed
<1>6. S!ToSet(u) = S!ToSet(w) \cup {e}
  <2>1. ASSUME NEW f PROVE f \in S!ToSet(u) <=> f \in S!ToSet(w) \/ f = e
    <3>1. f \in S!ToSet(u) <=> \E j \in 1 .. n + 1 : u[j] = f
      BY <1>2 DEF S!ToSet
    <3>2. f \in S!ToSet(w) <=> \E j \in 1 .. n : w[j] = f
      BY <1>1 DEF S!ToSet
    <3> QED
      BY <1>2, <1>3, <3>1, <3>2
  <2> QED
    BY <2>1
<1> QED
  BY <1>2, <1>5, <1>6 DEF u

LEMMA EntryShifted ==
    ASSUME NEW w, Keyed(w), Len(w) > 0
    PROVE  /\ Keyed(Tail(w)) /\ Len(Tail(w)) = Len(w) - 1
           /\ S!ToSet(Tail(w)) \subseteq S!ToSet(w)
           /\ Len(w) > 1 => w[Len(w)] \in S!ToSet(Tail(w))
<1> DEFINE u == Tail(w)
           n == Len(w)
<1>1. /\ w \in Seq(Entries) /\ n \in Nat /\ n > 0 /\ DOMAIN w = 1 .. n
      /\ \A i, j \in 1 .. n : w[i].key = w[j].key => i = j
  BY DEF Keyed
<1>2. /\ u \in Seq(Entries) /\ Len(u) = n - 1 /\ DOMAIN u = 1 .. n - 1
      /\ \A i \in 1 .. n - 1 : u[i] = w[i + 1] /\ i + 1 \in 1 .. n
  BY <1>1
<1> HIDE DEF u
<1>3. Keyed(u)
  <2>1. \A i, j \in 1 .. n - 1 : u[i].key = u[j].key => i = j
    BY <1>1, <1>2
  <2> QED
    BY <1>2, <2>1 DEF Keyed
<1>4. S!ToSet(u) \subseteq S!ToSet(w)
  <2>1. ASSUME NEW i \in 1 .. n - 1 PROVE u[i] \in S!ToSet(w)
    BY <1>1, <1>2 DEF S!ToSet
  <2> QED
    BY <1>2, <2>1 DEF S!ToSet
<1>5. ASSUME n > 1 PROVE w[n] \in S!ToSet(u)
  <2>1. n - 1 \in 1 .. n - 1 /\ u[n - 1] = w[n]
    BY <1>1, <1>2, <1>5
  <2> QED
    BY <1>2, <2>1 DEF S!ToSet
<1> QED
  BY <1>2, <1>3, <1>4, <1>5 DEF u

\* Bounding the history after each exchange keeps the last of all of them.
LEMMA BoundedIsLast ==
    ASSUME NEW f \in Seq(Runs), NEW r \in Runs
    PROVE  S!LastOf(f) \in Seq(Runs) /\ S!Bounded(Append(S!LastOf(f), r)) = S!LastOf(Append(f, r))
<1> DEFINE m(h) == IF Len(h) > MaxHistory THEN Len(h) - MaxHistory ELSE 0
<1>1. ASSUME NEW h \in Seq(Runs)
      PROVE  /\ S!LastOf(h) \in Seq(Runs) /\ Len(S!LastOf(h)) = Len(h) - m(h)
             /\ \A i \in 1 .. Len(h) - m(h) : S!LastOf(h)[i] = h[m(h) + i]
  <2>1. /\ m(h) + 1 \in Int /\ Len(h) \in Nat /\ m(h) \in 0 .. Len(h)
        /\ \A i \in m(h) + 1 .. Len(h) : h[i] \in Runs
    BY ServiceConstants
  <2>2. S!LastOf(h) = SubSeq(h, m(h) + 1, Len(h))
    BY ServiceConstants DEF S!LastOf
  <2> HIDE DEF m
  <2>3. /\ SubSeq(h, m(h) + 1, Len(h)) \in Seq(Runs)
        /\ Len(SubSeq(h, m(h) + 1, Len(h))) = IF m(h) + 1 <= Len(h) THEN Len(h) - (m(h) + 1) + 1 ELSE 0
        /\ \A i \in 1 .. Len(h) - (m(h) + 1) + 1 : SubSeq(h, m(h) + 1, Len(h))[i] = h[(m(h) + 1) + i - 1]
    BY <2>1, SubSeqProperties
  <2> QED
    BY <2>1, <2>2, <2>3
<1> DEFINE g == S!LastOf(f)
           a == Append(f, r)
           b == Append(g, r)
           c == S!Bounded(b)
           d == S!LastOf(a)
           n == Len(f)
<1>2. n \in Nat /\ a \in Seq(Runs) /\ Len(a) = n + 1 /\ a[n + 1] = r /\ \A i \in 1 .. n : a[i] = f[i]
  OBVIOUS
<1>3. /\ g \in Seq(Runs) /\ Len(g) = n - m(f) /\ \A i \in 1 .. n - m(f) : g[i] = f[m(f) + i]
  BY <1>1
<1> HIDE DEF m, g, a, d
<1>4. /\ d \in Seq(Runs) /\ Len(d) = n + 1 - m(a) /\ \A i \in 1 .. n + 1 - m(a) : d[i] = a[m(a) + i]
  <2>1. d \in Seq(Runs) /\ Len(d) = Len(a) - m(a) /\ \A i \in 1 .. Len(a) - m(a) : d[i] = a[m(a) + i]
    BY <1>1, <1>2 DEF d
  <2>2. Len(a) = n + 1
    BY <1>2
  <2>3. m(a) \in Nat /\ n \in Nat
    BY <1>2, ServiceConstants DEF m
  <2> HIDE DEF n
  <2> QED
    BY <2>1, <2>2, <2>3
<1>5. /\ m(f) \in Nat /\ m(f) <= n /\ m(a) \in Nat
      /\ \/ n - m(f) + 1 <= MaxHistory /\ m(a) = m(f)
         \/ n - m(f) + 1 > MaxHistory /\ m(a) = m(f) + 1
  <2>1. MaxHistory \in Nat /\ n \in Nat /\ Len(a) = n + 1
    BY <1>2, ServiceConstants
  <2>2. m(f) = IF n > MaxHistory THEN n - MaxHistory ELSE 0
    BY DEF m
  <2>3. m(a) = IF n + 1 > MaxHistory THEN n + 1 - MaxHistory ELSE 0
    BY <2>1 DEF m
  <2> HIDE DEF n
  <2> QED
    BY <2>1, <2>2, <2>3
<1>6. /\ b \in Seq(Runs) /\ Len(b) = n - m(f) + 1 /\ \A i \in 1 .. n - m(f) + 1 : b[i] = a[m(f) + i]
  <2>1. /\ b \in Seq(Runs) /\ Len(b) = n - m(f) + 1 /\ b[n - m(f) + 1] = r
        /\ \A i \in 1 .. n - m(f) : b[i] = g[i]
    BY <1>3, <1>5
  <2>2. \A i \in 1 .. n - m(f) + 1 : i \in 1 .. n - m(f) \/ (i = n - m(f) + 1 /\ m(f) + i = n + 1)
    BY <1>2, <1>5
  <2>3. \A i \in 1 .. n - m(f) : m(f) + i \in 1 .. n
    BY <1>2, <1>5
  <2> HIDE DEF a, b
  <2> QED
    BY <1>2, <1>3, <2>1, <2>2, <2>3
<1>7. CASE n - m(f) + 1 <= MaxHistory
  <2>1. c = b /\ m(a) = m(f)
    BY <1>5, <1>6, <1>7, ServiceConstants DEF S!Bounded
  <2> HIDE DEF a, b, c
  <2>2. Len(b) = Len(d) /\ \A i \in 1 .. Len(b) : b[i] = d[i]
    BY <1>2, <1>4, <1>5, <1>6, <2>1
  <2>3. b = d
    BY <1>4, <1>6, <2>2, SeqEqual
  <2> QED
    BY <1>3, <2>1, <2>3 DEF a, b, c, g, d
<1>8. CASE n - m(f) + 1 > MaxHistory
  <2>1. c = Tail(b) /\ m(a) = m(f) + 1
    BY <1>5, <1>6, <1>8, ServiceConstants DEF S!Bounded
  <2> HIDE DEF a, b, c
  <2>2. Tail(b) \in Seq(Runs) /\ Len(Tail(b)) = n - m(f) /\ \A i \in 1 .. n - m(f) : Tail(b)[i] = b[i + 1]
    BY <1>2, <1>5, <1>6
  <2>3. Len(Tail(b)) = Len(d) /\ \A i \in 1 .. Len(Tail(b)) : Tail(b)[i] = d[i]
    <3>1. Len(d) = n - m(f)
      BY <1>2, <1>4, <1>5, <2>1
    <3>2. \A i \in 1 .. n - m(f) : i + 1 \in 1 .. n - m(f) + 1 /\ m(f) + (i + 1) = m(a) + i
      BY <1>2, <1>5, <2>1
    <3>3. \A i \in 1 .. n - m(f) : i \in 1 .. n + 1 - m(a)
      BY <1>2, <1>5, <2>1
    <3> QED
      BY <1>4, <1>6, <2>2, <3>1, <3>2, <3>3, SMTT(30)
  <2>4. Tail(b) = d
    BY <1>4, <2>2, <2>3, SeqEqual
  <2> QED
    BY <1>3, <2>1, <2>4 DEF a, b, c, g, d
<1> QED
  BY <1>2, <1>5, <1>7, <1>8, ServiceConstants

LEMMA SessionStart == S!Init => SessionInv
<1> SUFFICES ASSUME S!Init PROVE SessionInv
  OBVIOUS
<1>1. RunsTyped /\ history \in [Runs -> Seq(Runs)] /\ finished \in [Sessions -> Seq(Runs)]
  BY DEF S!Init, RunsTyped
<1>2. /\ store = <<>> /\ S!ToSet(store) = {} /\ \A r \in Runs : ~Begun(r) /\ history[r] = <<>>
      /\ \A k \in Sessions : finished[k] = <<>>
  BY DEF S!Init, S!ToSet, Begun
<1>3. Keyed(store) /\ Len(store) <= MaxEntries
  BY <1>2, ServiceConstants DEF Keyed
<1>4. StatesInv
  BY <1>2 DEF StatesInv
<1>5. \A k \in Sessions : OneState(k)
  <2>1. \A r \in Runs : run[r].at # "done"
    BY DEF S!Init
  <2> QED
    BY <1>2, <2>1 DEF OneState
<1> QED
  BY <1>1, <1>3, <1>4, <1>5 DEF SessionInv

\* What leaves the runs, the states and the entries of a session alone.
LEMMA OtherSession ==
    ASSUME NEW k, OneState(k), UNCHANGED finished[k],
           \A r \in Runs : KeyOf[r] = k => UNCHANGED run[r],
           \A r \in Runs : Begun(r) /\ KeyOf[r] = k => UNCHANGED history[run[r].state],
           \A e \in S!ToSet(store)' : e.key = k => e \in S!ToSet(store),
           \A e \in S!ToSet(store) : e.key = k => e \in S!ToSet(store)'
    PROVE  OneState(k)'
<1>1. \A r \in Runs : KeyOf[r] = k => (Begun(r)' <=> Begun(r)) /\ run'[r].state = run[r].state /\ run'[r].at = run[r].at
  BY DEF Begun
<1>2. S!LastOf(finished[k])' = S!LastOf(finished[k])
  BY DEF S!LastOf
<1>3. \A r, q \in Runs : Begun(r)' /\ Begun(q)' /\ KeyOf[r] = k /\ KeyOf[q] = k => run'[r].state = run'[q].state
  BY <1>1 DEF OneState
<1>4. \A r \in Runs, e \in S!ToSet(store)' : Begun(r)' /\ KeyOf[r] = k /\ e.key = k => e.state = run'[r].state
  BY <1>1 DEF OneState
<1>5. \A r \in Runs : run'[r].at = "done" /\ KeyOf[r] = k => \E e \in S!ToSet(store)' : e.key = k
  BY <1>1 DEF OneState
<1>6. \A r \in Runs : Begun(r)' /\ KeyOf[r] = k => history'[run'[r].state] = S!LastOf(finished[k])'
  BY <1>1, <1>2 DEF OneState
<1> QED
  BY <1>3, <1>4, <1>5, <1>6 DEF OneState

LEMMA SessionUntouched ==
    SessionInv /\ UNCHANGED <<store, history, run, finished, forked>> => SessionInv'
<1> SUFFICES ASSUME SessionInv, UNCHANGED <<store, history, run, finished, forked>> PROVE SessionInv'
  OBVIOUS
<1>1. S!ToSet(store)' = S!ToSet(store) /\ \A r : Begun(r)' <=> Begun(r)
  BY DEF S!ToSet, Begun
<1>2. \A k : OneState(k) => OneState(k)'
  BY <1>1, OtherSession
<1>3. StatesInv'
  BY <1>1 DEF SessionInv, StatesInv
<1> QED
  BY <1>1, <1>2, <1>3 DEF SessionInv, RunsTyped, Keyed

\* getOrCreateSession() keeps the store's entries, in another order.
LEMMA BeginKeeps ==
    ASSUME SessionInv, NEW r \in Runs, S!Begin(r)
    PROVE  /\ run[r].at = "idle" /\ UNCHANGED <<history, finished>>
           /\ S!ToSet(store)' = S!ToSet(store) /\ Keyed(store)' /\ Len(store)' <= MaxEntries
           /\ \E s \in Runs :
                /\ run' = [run EXCEPT ![r] = [at |-> "running", state |-> s]]
                /\ \/ /\ forked' = forked
                      /\ \E e \in S!ToSet(store) : e.key = KeyOf[r] /\ e.state = s
                   \/ /\ s = r /\ \A e \in S!ToSet(store) : e.key # KeyOf[r]
                      /\ forked \subseteq forked'
                      /\ KeyOf[r] \in forked' \/ S!Inside(KeyOf[r]) = {}
<1> DEFINE k == KeyOf[r]
           p == S!Place(k)
<1>1. /\ run[r].at = "idle" /\ UNCHANGED <<history, finished>>
      /\ Keyed(store) /\ Len(store) <= MaxEntries
  BY DEF S!Begin, SessionInv
<1>2. CASE S!Held(k)
  <2>1. /\ store' = Append(S!RemoveAt(store, p), store[p]) /\ forked' = forked
        /\ run' = [run EXCEPT ![r] = [at |-> "running", state |-> store[p].state]]
    BY <1>2 DEF S!Begin, S!Deleted
  <2>2. p \in DOMAIN store /\ store[p].key = k
    <3>1. \E i \in DOMAIN store : store[i].key = k
      BY <1>2 DEF S!Held, S!ToSet
    <3> QED
      BY <3>1 DEF S!Place
  <2> DEFINE e == store[p]
             w == S!RemoveAt(store, p)
  <2>3. e \in Entries /\ e \in S!ToSet(store) /\ e.key = k /\ e.state \in Runs /\ Len(store) \in Nat
    <3>1. store \in Seq(Entries) /\ p \in DOMAIN store
      BY <1>1, <2>2 DEF Keyed
    <3>2. e \in S!ToSet(store)
      BY <3>1 DEF S!ToSet
    <3> HIDE DEF p, k
    <3>3. e \in Entries /\ Len(store) \in Nat
      BY <3>1
    <3> QED
      BY <2>2, <3>2, <3>3 DEF Entries
  <2> HIDE DEF p, k
  <2>4. /\ Keyed(w) /\ Len(w) = Len(store) - 1
        /\ \A f : f \in S!ToSet(w) <=> f \in S!ToSet(store) /\ f.key # e.key
    BY <1>1, <2>2, EntryTaken
  <2> HIDE DEF e, w
  <2>5. /\ Keyed(Append(w, e)) /\ Len(Append(w, e)) = Len(w) + 1
        /\ S!ToSet(Append(w, e)) = S!ToSet(w) \cup {e}
    BY <2>3, <2>4, EntryPut
  <2>6. store' = Append(w, e)
    BY <2>1 DEF e, w
  <2>7. \A f \in S!ToSet(store) : f.key = e.key => f = e
    BY <1>1, <2>2 DEF Keyed, S!ToSet, e
  <2>8. S!ToSet(Append(w, e)) = S!ToSet(store)
    BY <2>3, <2>4, <2>5, <2>7
  <2>9. S!ToSet(store)' = S!ToSet(Append(w, e)) /\ Keyed(store)' /\ Len(store') = Len(Append(w, e))
    BY <2>5, <2>6 DEF S!ToSet, Keyed
  <2>10. Len(store') <= MaxEntries
    BY <1>1, <2>3, <2>4, <2>5, <2>9
  <2> QED
    BY <1>1, <2>1, <2>3, <2>8, <2>9, <2>10 DEF e, k
<1>3. CASE ~S!Held(k)
  <2>1. /\ UNCHANGED store /\ run' = [run EXCEPT ![r] = [at |-> "running", state |-> r]]
        /\ forked' = IF S!Inside(k) # {} THEN forked \cup {k} ELSE forked
    BY <1>3 DEF S!Begin
  <2>2. \A e \in S!ToSet(store) : e.key # k
    BY <1>3 DEF S!Held
  <2>3. forked \subseteq forked' /\ (k \in forked' \/ S!Inside(k) = {})
    BY <2>1
  <2>4. S!ToSet(store)' = S!ToSet(store) /\ Keyed(store)' /\ Len(store)' <= MaxEntries
    BY <1>1, <2>1 DEF S!ToSet, Keyed
  <2> QED
    BY <1>1, <2>1, <2>2, <2>3, <2>4
<1> QED
  BY <1>2, <1>3

\* The entry that set() writes is one of those that stay.
LEMMA SaveKeeps ==
    ASSUME SessionInv, NEW r \in Runs, S!Save(r)
    PROVE  LET e == [key |-> KeyOf[r], state |-> run[r].state]
           IN  /\ Keyed(store)' /\ Len(store)' <= MaxEntries
               /\ e \in S!ToSet(store)'
               /\ \A f \in S!ToSet(store)' : f = e \/ (f \in S!ToSet(store) /\ f.key # e.key)
<1> DEFINE k == KeyOf[r]
           e == [key |-> k, state |-> run[r].state]
           w == S!Deleted(k)
           u == Append(w, e)
<1>1. /\ store' = S!Trimmed(u) /\ e \in Entries /\ e.key = k
      /\ Keyed(store) /\ Len(store) <= MaxEntries /\ Len(store) \in Nat
      /\ MaxEntries \in Nat \ {0}
  <2>1. KeyOf[r] \in Sessions /\ run[r].state \in Runs
    BY ServiceConstants DEF SessionInv, RunsTyped
  <2> QED
    BY <2>1, ServiceConstants DEF S!Save, S!Entry, SessionInv, Entries, Keyed
<1> HIDE DEF k, e
<1>2. /\ Keyed(w) /\ Len(w) \in Nat /\ Len(w) <= Len(store)
      /\ \A f \in S!ToSet(w) : f \in S!ToSet(store) /\ f.key # k
  <2>1. CASE S!Held(k)
    <3> DEFINE p == S!Place(k)
    <3>1. p \in DOMAIN store /\ store[p].key = k
      <4>1. \E i \in DOMAIN store : store[i].key = k
        BY <2>1 DEF S!Held, S!ToSet
      <4> QED
        BY <4>1 DEF S!Place
    <3>2. w = S!RemoveAt(store, p)
      BY <2>1 DEF S!Deleted
    <3> HIDE DEF p, w
    <3>3. /\ Keyed(S!RemoveAt(store, p)) /\ Len(S!RemoveAt(store, p)) = Len(store) - 1
          /\ \A f : f \in S!ToSet(S!RemoveAt(store, p)) <=> f \in S!ToSet(store) /\ f.key # store[p].key
      BY <1>1, <3>1, EntryTaken
    <3>4. Len(w) \in Nat
      BY <3>2, <3>3 DEF Keyed
    <3> QED
      BY <1>1, <3>1, <3>2, <3>3, <3>4
  <2>2. CASE ~S!Held(k)
    <3>1. w = store
      BY <2>2 DEF S!Deleted
    <3>2. \A f \in S!ToSet(store) : f.key # k
      BY <2>2 DEF S!Held
    <3> QED
      BY <1>1, <3>1, <3>2
  <2> QED
    BY <2>1, <2>2
<1> HIDE DEF w
<1>3. /\ Keyed(u) /\ Len(u) = Len(w) + 1 /\ u[Len(w) + 1] = e /\ S!ToSet(u) = S!ToSet(w) \cup {e}
  BY <1>1, <1>2, EntryPut
<1> HIDE DEF u
<1>4. CASE Len(u) > MaxEntries
  <2>1. store' = Tail(u) /\ Len(u) > 1 /\ Len(u) > 0
    BY <1>1, <1>2, <1>3, <1>4 DEF S!Trimmed
  <2>2. /\ Keyed(Tail(u)) /\ Len(Tail(u)) = Len(u) - 1 /\ S!ToSet(Tail(u)) \subseteq S!ToSet(u)
        /\ u[Len(u)] \in S!ToSet(Tail(u))
    BY <1>3, <2>1, EntryShifted
  <2>3. S!ToSet(store)' = S!ToSet(Tail(u)) /\ Keyed(store)' /\ Len(store)' = Len(w)
    BY <1>2, <1>3, <2>1, <2>2 DEF S!ToSet, Keyed
  <2> QED
    BY <1>1, <1>2, <1>3, <2>2, <2>3 DEF e, k
<1>5. CASE ~(Len(u) > MaxEntries)
  <2>1. store' = u
    BY <1>1, <1>5 DEF S!Trimmed
  <2>2. S!ToSet(store)' = S!ToSet(u) /\ Keyed(store)' /\ Len(store)' <= MaxEntries
    BY <1>1, <1>2, <1>3, <1>5, <2>1 DEF S!ToSet, Keyed
  <2> QED
    BY <1>1, <1>2, <1>3, <2>2 DEF e, k
<1> QED
  BY <1>4, <1>5

LEMMA StoredEntries == SessionInv => \A e \in S!ToSet(store) : e \in Entries /\ e.key \in Sessions /\ e.state \in Runs
<1> SUFFICES ASSUME SessionInv, NEW e \in S!ToSet(store) PROVE e \in Entries /\ e.key \in Sessions /\ e.state \in Runs
  OBVIOUS
<1>1. store \in Seq(Entries)
  BY DEF SessionInv, Keyed
<1>2. PICK i \in DOMAIN store : e = store[i]
  BY DEF S!ToSet
<1>3. e \in Entries
  BY <1>1, <1>2
<1> QED
  BY <1>3 DEF Entries

LEMMA SessionBegin == ASSUME SessionInv, NEW r \in Runs, S!Begin(r) PROVE SessionInv'
<1> DEFINE k == KeyOf[r]
<1>1. /\ run[r].at = "idle" /\ UNCHANGED <<history, finished>>
      /\ S!ToSet(store)' = S!ToSet(store) /\ Keyed(store)' /\ Len(store)' <= MaxEntries
  BY BeginKeeps
<1>2. PICK s \in Runs :
        /\ run' = [run EXCEPT ![r] = [at |-> "running", state |-> s]]
        /\ \/ /\ forked' = forked
              /\ \E e \in S!ToSet(store) : e.key = KeyOf[r] /\ e.state = s
           \/ /\ s = r /\ \A e \in S!ToSet(store) : e.key # KeyOf[r]
              /\ forked \subseteq forked'
              /\ KeyOf[r] \in forked' \/ S!Inside(KeyOf[r]) = {}
  BY BeginKeeps
<1>3. /\ RunsTyped /\ StatesInv /\ KeyOf \in [Runs -> Sessions]
      /\ history \in [Runs -> Seq(Runs)] /\ finished \in [Sessions -> Seq(Runs)]
      /\ \A j \in Sessions : j \notin forked => OneState(j)
  BY ServiceConstants DEF SessionInv
<1>4. /\ run'[r] = [at |-> "running", state |-> s] /\ \A q \in Runs : q # r => run'[q] = run[q]
      /\ Begun(r)' /\ ~Begun(r) /\ \A q \in Runs : q # r => (Begun(q)' <=> Begun(q))
  BY <1>1, <1>2, <1>3 DEF RunsTyped, Begun
<1>5. RunsTyped'
  BY <1>2, <1>3 DEF RunsTyped
<1>6. StatesInv'
  <2>1. KeyOf[s] = k /\ run'[s].at # "idle"
    BY <1>2, <1>3, <1>4 DEF StatesInv, Begun
  <2>2. \A q \in Runs : Begun(q)' => KeyOf[run'[q].state] = KeyOf[q] /\ run'[run'[q].state].at # "idle"
    <3> SUFFICES ASSUME NEW q \in Runs, Begun(q)' PROVE KeyOf[run'[q].state] = KeyOf[q] /\ run'[run'[q].state].at # "idle"
      OBVIOUS
    <3>1. CASE q = r
      BY <1>4, <2>1, <3>1 DEF Begun
    <3>2. CASE q # r
      <4>1. run'[q].state = run[q].state /\ run[q].state \in Runs /\ Begun(q)
        BY <1>3, <1>4, <3>2 DEF RunsTyped
      <4>2. KeyOf[run[q].state] = KeyOf[q] /\ Begun(run[q].state)
        BY <1>3, <4>1 DEF StatesInv
      <4>3. run'[run[q].state].at # "idle"
        BY <1>4, <4>1, <4>2 DEF Begun
      <4> QED
        BY <4>1, <4>2, <4>3
    <3> QED
      BY <3>1, <3>2
  <2>3. \A e \in S!ToSet(store)' : KeyOf[e.state] = e.key /\ run'[e.state].at # "idle"
    <3>1. \A e \in S!ToSet(store) : e.state \in Runs /\ KeyOf[e.state] = e.key /\ Begun(e.state)
      BY <1>3, StoredEntries DEF StatesInv
    <3> QED
      BY <1>1, <1>4, <3>1 DEF Begun
  <2>4. \A q \in Runs : ~Begun(q)' => history'[q] = <<>>
    BY <1>1, <1>3, <1>4 DEF StatesInv
  <2>5. \A j \in Sessions : (\A q \in Runs : KeyOf[q] = j => ~Begun(q)') => finished'[j] = <<>>
    BY <1>1, <1>3, <1>4 DEF StatesInv
  <2> QED
    BY <2>2, <2>3, <2>4, <2>5 DEF StatesInv, Begun
<1>7. ASSUME NEW j \in Sessions, j \notin forked', j # k PROVE OneState(j)'
  <2>1. OneState(j)
    BY <1>2, <1>3, <1>7
  <2>2. \A q \in Runs : KeyOf[q] = j => UNCHANGED run[q]
    BY <1>4, <1>7
  <2>3. UNCHANGED finished[j] /\ \A q \in Runs : Begun(q) /\ KeyOf[q] = j => UNCHANGED history[run[q].state]
    BY <1>1, <2>2
  <2> QED
    BY <1>1, <2>1, <2>2, <2>3, OtherSession
<1>8. ASSUME k \notin forked' PROVE OneState(k)'
  <2>1. OneState(k) /\ k \in Sessions
    BY <1>2, <1>3, <1>8
  <2>2. S!LastOf(finished[k])' = S!LastOf(finished[k])
    BY <1>1 DEF S!LastOf
  <2>3. CASE \E e \in S!ToSet(store) : e.key = k /\ e.state = s
    <3>1. PICK e \in S!ToSet(store) : e.key = k /\ e.state = s
      BY <2>3
    <3>2. \A q \in Runs : Begun(q) /\ KeyOf[q] = k => run[q].state = s
      BY <2>1, <3>1 DEF OneState
    <3>3. \A q \in Runs : Begun(q)' /\ KeyOf[q] = k => run'[q].state = s
      BY <1>4, <3>2
    <3>4. \A f \in S!ToSet(store)' : f.key = k => f.state = s
      <4>1. \A f \in S!ToSet(store) : f.key = k => f = e
        BY <3>1 DEF SessionInv, Keyed, S!ToSet
      <4> QED
        BY <1>1, <3>1, <4>1
    <3>5. \A q \in Runs : run'[q].at = "done" /\ KeyOf[q] = k => \E f \in S!ToSet(store)' : f.key = k
      BY <1>1, <3>1
    <3>6. history[s] = S!LastOf(finished[k])
      <4>1. Begun(s) /\ KeyOf[s] = k
        BY <1>3, <3>1 DEF StatesInv
      <4>2. run[s].state = s
        BY <3>2, <4>1
      <4> QED
        BY <2>1, <4>1, <4>2 DEF OneState
    <3> QED
      BY <1>1, <2>2, <3>3, <3>4, <3>5, <3>6 DEF OneState
  <2>4. CASE s = r /\ (\A e \in S!ToSet(store) : e.key # k) /\ S!Inside(k) = {}
    <3>1. \A q \in Runs : KeyOf[q] = k => ~Begun(q)
      <4>1. \A q \in Runs : KeyOf[q] = k => run[q].at # "done"
        BY <2>1, <2>4 DEF OneState
      <4>2. \A q \in Runs : KeyOf[q] = k => run[q].at \notin {"running", "saving"}
        BY <2>4 DEF S!Inside
      <4> QED
        BY <1>3, <4>1, <4>2 DEF RunsTyped, Begun
    <3>2. \A q \in Runs : Begun(q)' /\ KeyOf[q] = k => q = r
      BY <1>4, <3>1
    <3>3. history'[r] = <<>> /\ finished[k] = <<>>
      BY <1>1, <1>3, <1>4, <2>1, <3>1 DEF StatesInv
    <3>4. S!LastOf(<<>>) = <<>>
      BY ServiceConstants DEF S!LastOf
    <3>5. run'[r].state = r /\ run'[r].at = "running"
      BY <1>4, <2>4
    <3> QED
      BY <1>1, <2>2, <2>4, <3>2, <3>3, <3>4, <3>5 DEF OneState, Begun
  <2> QED
    BY <1>2, <1>8, <2>3, <2>4
<1> QED
  BY <1>1, <1>3, <1>5, <1>6, <1>7, <1>8 DEF SessionInv

LEMMA SessionFinish == ASSUME SessionInv, NEW r \in Runs, S!Finish(r) PROVE SessionInv'
<1> DEFINE k == KeyOf[r]
           s == run[r].state
<1>1. /\ RunsTyped /\ StatesInv /\ KeyOf \in [Runs -> Sessions] /\ k \in Sessions /\ s \in Runs
      /\ history \in [Runs -> Seq(Runs)] /\ finished \in [Sessions -> Seq(Runs)]
      /\ \A j \in Sessions : j \notin forked => OneState(j)
  BY ServiceConstants DEF SessionInv, RunsTyped
<1>2. /\ run[r].at = "running" /\ UNCHANGED <<store, forked>>
      /\ history' = [history EXCEPT ![s] = S!Bounded(Append(history[s], r))]
      /\ run' = [run EXCEPT ![r].at = "saving"]
      /\ finished' = [finished EXCEPT ![k] = Append(finished[k], r)]
  BY DEF S!Finish
<1> HIDE DEF k, s
<1>3. /\ run'[r].at = "saving" /\ run'[r].state = run[r].state
      /\ \A q \in Runs : q # r => run'[q] = run[q]
  <2>1. run'[r] = [run[r] EXCEPT !.at = "saving"] /\ \A q \in Runs : q # r => run'[q] = run[q]
    BY <1>1, <1>2 DEF RunsTyped
  <2> QED
    BY <1>1, <2>1 DEF RunsTyped
<1>4. RunsTyped' /\ \A q \in Runs : (Begun(q)' <=> Begun(q)) /\ run'[q].state = run[q].state
  BY <1>1, <1>2, <1>3 DEF RunsTyped, Begun
<1>5. /\ history'[s] = S!Bounded(Append(history[s], r)) /\ \A q \in Runs : q # s => history'[q] = history[q]
      /\ finished'[k] = Append(finished[k], r) /\ \A j \in Sessions : j # k => finished'[j] = finished[j]
  BY <1>1, <1>2
<1>6. history' \in [Runs -> Seq(Runs)] /\ finished' \in [Sessions -> Seq(Runs)]
  <2>1. Append(history[s], r) \in Seq(Runs) /\ Append(history[s], r) # <<>> /\ Append(finished[k], r) \in Seq(Runs)
    <3>1. history[s] \in Seq(Runs) /\ finished[k] \in Seq(Runs)
      BY <1>1
    <3> QED
      BY <3>1, AppendProperties
  <2>2. S!Bounded(Append(history[s], r)) \in Seq(Runs)
    BY <2>1 DEF S!Bounded
  <2> QED
    BY <1>1, <1>2, <2>1, <2>2
<1>7. S!ToSet(store)' = S!ToSet(store) /\ Keyed(store)' /\ Len(store)' <= MaxEntries
  BY <1>2 DEF SessionInv, Keyed, S!ToSet
<1>8. Begun(r) /\ Begun(s) /\ KeyOf[s] = k
  BY <1>1, <1>2 DEF StatesInv, Begun, s, k
<1>9. StatesInv'
  <2>1. \A q \in Runs : Begun(q)' => KeyOf[run'[q].state] = KeyOf[q] /\ run'[run'[q].state].at # "idle"
    <3>1. \A q \in Runs : Begun(q) => run[q].state \in Runs /\ KeyOf[run[q].state] = KeyOf[q] /\ Begun(run[q].state)
      BY <1>1 DEF StatesInv, RunsTyped
    <3> QED
      BY <1>4, <3>1 DEF Begun
  <2>2. \A e \in S!ToSet(store)' : KeyOf[e.state] = e.key /\ run'[e.state].at # "idle"
    <3>1. \A e \in S!ToSet(store) : e.state \in Runs /\ KeyOf[e.state] = e.key /\ Begun(e.state)
      BY <1>1, StoredEntries DEF StatesInv
    <3> QED
      BY <1>4, <1>7, <3>1 DEF Begun
  <2>3. \A q \in Runs : ~Begun(q)' => history'[q] = <<>>
    BY <1>1, <1>4, <1>5, <1>8 DEF StatesInv
  <2>4. \A j \in Sessions : (\A q \in Runs : KeyOf[q] = j => ~Begun(q)') => finished'[j] = <<>>
    <3>1. \A j \in Sessions : (\A q \in Runs : KeyOf[q] = j => ~Begun(q)) => finished[j] = <<>>
      BY <1>1 DEF StatesInv
    <3> QED
      BY <1>4, <1>5, <1>8, <3>1 DEF k
  <2> QED
    BY <2>1, <2>2, <2>3, <2>4 DEF StatesInv, Begun
<1>10. ASSUME NEW j \in Sessions, j \notin forked', j # k PROVE OneState(j)'
  <2>1. OneState(j)
    BY <1>1, <1>2, <1>10
  <2>2. \A q \in Runs : KeyOf[q] = j => UNCHANGED run[q]
    BY <1>3, <1>10 DEF k
  <2>3. \A q \in Runs : Begun(q) /\ KeyOf[q] = j => UNCHANGED history[run[q].state]
    <3>1. \A q \in Runs : Begun(q) /\ KeyOf[q] = j => run[q].state \in Runs /\ run[q].state # s
      BY <1>1, <1>8, <1>10 DEF StatesInv, RunsTyped
    <3> QED
      BY <1>4, <1>5, <3>1
  <2>4. UNCHANGED finished[j]
    BY <1>5, <1>10
  <2> QED
    BY <1>7, <2>1, <2>2, <2>3, <2>4, OtherSession
<1>11. ASSUME k \notin forked' PROVE OneState(k)'
  <2>1. OneState(k)
    BY <1>1, <1>2, <1>11
  <2>2. \A q \in Runs : Begun(q) /\ KeyOf[q] = k => run[q].state = s
    BY <1>8, <2>1 DEF OneState, s, k
  <2>3. history'[s] = S!LastOf(finished[k])'
    <3>1. history[s] = S!LastOf(finished[k])
      BY <1>8, <2>1, <2>2 DEF OneState, s, k
    <3>2. finished[k] \in Seq(Runs)
      BY <1>1
    <3>3. S!Bounded(Append(S!LastOf(finished[k]), r)) = S!LastOf(Append(finished[k], r))
      BY <3>2, BoundedIsLast
    <3>4. S!LastOf(finished[k])' = S!LastOf(Append(finished[k], r))
      BY <1>5 DEF S!LastOf
    <3> QED
      BY <1>5, <3>1, <3>3, <3>4
  <2>4. \A q \in Runs : run'[q].at = "done" => run[q].at = "done"
    BY <1>3
  <2> QED
    BY <1>4, <1>7, <2>1, <2>2, <2>3, <2>4 DEF OneState
<1> QED
  BY <1>2, <1>4, <1>6, <1>7, <1>9, <1>10, <1>11 DEF SessionInv

LEMMA SessionSave == ASSUME SessionInv, NEW r \in Runs, S!Save(r) PROVE SessionInv'
<1> DEFINE k == KeyOf[r]
           s == run[r].state
           n == [key |-> k, state |-> s]
<1>1. /\ RunsTyped /\ StatesInv /\ KeyOf \in [Runs -> Sessions] /\ k \in Sessions /\ s \in Runs
      /\ history \in [Runs -> Seq(Runs)] /\ finished \in [Sessions -> Seq(Runs)]
      /\ \A j \in Sessions : j \notin forked => OneState(j)
  BY ServiceConstants DEF SessionInv, RunsTyped
<1>2. /\ run[r].at = "saving" /\ UNCHANGED <<history, finished>>
      /\ run' = [run EXCEPT ![r].at = "done"]
      /\ forked' = forked \cup ({e.key : e \in S!ToSet(store) \ S!ToSet(store')} \ {k})
  BY DEF S!Save
<1>3. /\ Keyed(store)' /\ Len(store)' <= MaxEntries /\ n \in S!ToSet(store)'
      /\ \A f \in S!ToSet(store)' : f = n \/ (f \in S!ToSet(store) /\ f.key # n.key)
  BY SaveKeeps
<1>4. /\ n.key = k /\ n.state = s
  OBVIOUS
<1> HIDE DEF k, s, n
<1>5. /\ forked \subseteq forked'
      /\ \A e \in S!ToSet(store) : e.key # k /\ e.key \notin forked' => e \in S!ToSet(store)'
  <2>1. S!ToSet(store') = S!ToSet(store)'
    OBVIOUS
  <2> QED
    BY <1>2, <2>1
<1>6. /\ run'[r].at = "done" /\ run'[r].state = run[r].state
      /\ \A q \in Runs : q # r => run'[q] = run[q]
  <2>1. run'[r] = [run[r] EXCEPT !.at = "done"] /\ \A q \in Runs : q # r => run'[q] = run[q]
    BY <1>1, <1>2 DEF RunsTyped
  <2> QED
    BY <1>1, <2>1 DEF RunsTyped
<1>7. RunsTyped' /\ \A q \in Runs : (Begun(q)' <=> Begun(q)) /\ run'[q].state = run[q].state
  BY <1>1, <1>2, <1>6 DEF RunsTyped, Begun
<1>8. Begun(r) /\ Begun(s) /\ KeyOf[s] = k
  BY <1>1, <1>2 DEF StatesInv, Begun, s, k
<1>9. StatesInv'
  <2>1. \A q \in Runs : Begun(q)' => KeyOf[run'[q].state] = KeyOf[q] /\ run'[run'[q].state].at # "idle"
    <3>1. \A q \in Runs : Begun(q) => run[q].state \in Runs /\ KeyOf[run[q].state] = KeyOf[q] /\ Begun(run[q].state)
      BY <1>1 DEF StatesInv, RunsTyped
    <3> QED
      BY <1>7, <3>1 DEF Begun
  <2>2. \A e \in S!ToSet(store)' : KeyOf[e.state] = e.key /\ run'[e.state].at # "idle"
    <3>1. \A e \in S!ToSet(store) : e.state \in Runs /\ KeyOf[e.state] = e.key /\ Begun(e.state)
      BY <1>1, StoredEntries DEF StatesInv
    <3> QED
      BY <1>1, <1>3, <1>4, <1>7, <1>8, <3>1 DEF Begun
  <2>3. \A q \in Runs : ~Begun(q)' => history'[q] = <<>>
    BY <1>1, <1>2, <1>7 DEF StatesInv
  <2>4. \A j \in Sessions : (\A q \in Runs : KeyOf[q] = j => ~Begun(q)') => finished'[j] = <<>>
    <3>1. \A j \in Sessions : (\A q \in Runs : KeyOf[q] = j => ~Begun(q)) => finished[j] = <<>>
      BY <1>1 DEF StatesInv
    <3> QED
      BY <1>2, <1>7, <3>1
  <2> QED
    BY <2>1, <2>2, <2>3, <2>4 DEF StatesInv, Begun
<1>10. ASSUME NEW j \in Sessions, j \notin forked', j # k PROVE OneState(j)'
  <2>1. OneState(j)
    BY <1>1, <1>5, <1>10
  <2>2. \A q \in Runs : KeyOf[q] = j => UNCHANGED run[q]
    BY <1>6, <1>10 DEF k
  <2>3. UNCHANGED finished[j] /\ \A q \in Runs : Begun(q) /\ KeyOf[q] = j => UNCHANGED history[run[q].state]
    BY <1>2, <1>7
  <2>4. \A e \in S!ToSet(store)' : e.key = j => e \in S!ToSet(store)
    BY <1>3, <1>4, <1>10
  <2>5. \A e \in S!ToSet(store) : e.key = j => e \in S!ToSet(store)'
    BY <1>5, <1>10
  <2> QED
    BY <2>1, <2>2, <2>3, <2>4, <2>5, OtherSession
<1>11. ASSUME k \notin forked' PROVE OneState(k)'
  <2>1. OneState(k)
    BY <1>1, <1>5, <1>11
  <2>2. \A q \in Runs : Begun(q) /\ KeyOf[q] = k => run[q].state = s
    BY <1>8, <2>1 DEF OneState, s, k
  <2>3. \A e \in S!ToSet(store)' : e.key = k => e.state = s
    BY <1>3, <1>4
  <2>4. \E e \in S!ToSet(store)' : e.key = k
    BY <1>3, <1>4
  <2>5. S!LastOf(finished[k])' = S!LastOf(finished[k])
    BY <1>2 DEF S!LastOf
  <2>6. \A q \in Runs : Begun(q)' /\ KeyOf[q] = k => history'[run'[q].state] = S!LastOf(finished[k])'
    BY <1>2, <1>7, <2>1, <2>5 DEF OneState
  <2> QED
    BY <1>7, <2>2, <2>3, <2>4, <2>6 DEF OneState
<1> QED
  BY <1>1, <1>2, <1>3, <1>7, <1>9, <1>10, <1>11 DEF SessionInv

LEMMA SessionStep == SessionInv /\ [S!Next]_(S!vars) => SessionInv'
<1>1. ASSUME SessionInv, UNCHANGED S!vars PROVE SessionInv'
  BY <1>1, SessionUntouched DEF S!vars, S!streamVars
<1>2. ASSUME SessionInv, NEW r \in Runs, S!Work(r) PROVE SessionInv'
  <2>1. CASE S!Emit(r)
    BY <1>2, <2>1, SessionUntouched DEF S!Emit, S!storeVars
  <2> QED
    BY <1>2, <2>1, SessionBegin, SessionFinish, SessionSave DEF S!Work
<1>3. ASSUME SessionInv, NEW r \in Streams, S!Read(r) \/ S!LeaveStream(r) PROVE SessionInv'
  BY <1>3, SessionUntouched DEF S!Read, S!LeaveStream, S!storeVars
<1> QED
  BY <1>1, <1>2, <1>3 DEF S!Next

LEMMA SessionSound == SessionInv => S!StoreSound /\ S!ExchangesKept
<1> SUFFICES ASSUME SessionInv PROVE S!StoreSound /\ S!ExchangesKept
  OBVIOUS
<1>1. S!StoreSound
  BY DEF SessionInv, Keyed, S!StoreSound
<1>2. S!ExchangesKept
  <2> SUFFICES ASSUME NEW e \in S!ToSet(store), e.key \notin forked,
                      NEW r \in Runs, run[r].at = "done", KeyOf[r] = e.key
               PROVE  history[e.state] = S!LastOf(finished[e.key])
    BY DEF S!ExchangesKept
  <2>1. e.key \in Sessions
    BY StoredEntries
  <2>2. OneState(e.key) /\ Begun(r)
    BY <2>1 DEF SessionInv, Begun
  <2> QED
    BY <2>2 DEF OneState
<1> QED
  BY <1>1, <1>2

-----------------------------------------------------------------------------
\* What is closed stays closed: the circuit, the barrier of a write, a task that
\* is over, a recorded answer, a call that was cut, a connection nobody reads; and
\* the prompt is one that was published.
THEOREM GuardsAreHeld == Spec => []GuardsHold
<1> DEFINE Inv == BreakerInv /\ TableInv /\ TapeInv /\ PromptInv /\ TurnInv /\ CoordinatorInv
<1>1. Init => Inv
  BY BreakerStart, TableStart, TapeStart, PromptStart, TurnStart, CoordinatorStart DEF Init
<1>2. Inv /\ [Next]_vars => Inv'
  BY Apart, BreakerStep, TableStep, TapeStep, PromptStep, TurnStep, CoordinatorStep
<1>3. Inv => GuardsHold
  BY TableSound, CoordinatorSound DEF GuardsHold, BreakerInv, TapeInv, PromptInv, TurnInv
<1> QED
  BY <1>1, <1>2, <1>3, PTL DEF Spec

\* What was said is kept: log lines reach the server once and in order, the store
\* remembers the exchanges, streams and outcomes are whole, spans and answers are
\* told once, and a streamed turn is billed once and says what was said.
THEOREM NothingIsLost == Spec => []NothingLost
<1> DEFINE Inv == /\ LogsInv /\ SessionInv /\ StreamInv /\ CoordinatorInv /\ TracingInv /\ RoutesInv
                  /\ TurnInv /\ MeterInv
<1>1. Init => Inv
  BY LogsStart, SessionStart, StreamStart, CoordinatorStart, TracingStart, RoutesStart, TurnStart, MeterStart DEF Init
<1>2. SessionInv => RunsTyped
  BY DEF SessionInv
<1>3. Inv /\ [Next]_vars => Inv'
  BY <1>2, Apart, LogsStep, SessionStep, StreamStep, CoordinatorStep, TracingStep, RoutesStep, TurnStep, MeterStep
<1>4. Inv => NothingLost
  BY LogsSound, SessionSound, StreamSound, CoordinatorSound, TracingSound, RoutesSound
     DEF NothingLost, MeterInv
<1> QED
  BY <1>1, <1>3, <1>4, PTL DEF Spec
=============================================================================
