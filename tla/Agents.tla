-------------------------------- MODULE Agents --------------------------------
(***************************************************************************)
(* The other ways to run agents and what serves them, side by side: they   *)
(* share no state, so a behaviour is one of them at work (part) and the    *)
(* others at rest. Where a module serves two kinds of work, each has its   *)
(* own constants and the two share the variables. The keyed turns of the   *)
(* server are extended, the others are instances.                          *)
(***************************************************************************)
EXTENDS KeyedTurns, TLC, Induction, SequenceTheorems

CONSTANTS
    Runs,                                                                      \* runs of the agents, in any part
    LoopTurns, LoopSteps, MaxToolCalls, MaxVerifyRounds, KeepRecent, LargestBatch, \* SimpleLoop
    MaxDepth, PerLevel, Branching, Budget,                                     \* TreeSearch
    MaxEvents,                                                                 \* StepClaims
    Delegates, MaxSteps, MaxDelegations,                                       \* Subagents
    Tasks, MaxConcurrent, MaxListed, KeepSettled,                              \* AsyncSubAgents
    Labels, MaxSubs, MaxCalls,                                                 \* PowerTools
    Plans, WalkSteps,                                                          \* VibeGraph
    MaxSaves, MaxCached, MaxRestarts                                           \* RemoteCheckpoints

VARIABLES
    part,                                                                      \* what is at work
    native, signal, aborted, disclosed, pc, step, messages, loopTurn, next, flying, \* SimpleLoop
    capped, count, begun, rounds, cut, errors, stop, verdict, summarized, late,
    tree, rootId, nodeCounter, search, path, hung, committed, overlapped,      \* TreeSearch
    workflowStep, claimed, sub, subscriptions, watcher, arrived, heard, excused, \* StepClaims
    run, registered, subAgentResults, job, activeDelegations, reported, mixed, \* Subagents
    task, listed, worker, overrun,                                             \* AsyncSubAgents
    user, labels, live, creator, rows, polled, shown, strayed, shared,         \* PowerTools
    stage, plan, current, steps, state, status, ran, failed, awaited,          \* VibeGraph
    localCache, graph, writer, saves, restarts, contended, past                \* RemoteCheckpoints

\* Reads that may fly together, a withheld tool and the search for it, a write and
\* a call that needs approval, and a call of nothing there is.
FourTurns == {<<"read", "read">>, <<"find", "deferred">>, <<"write", "ask">>, <<"none">>}

\* An edge of a plan, and one that is followed if the output c has been written.
To(s, t) == [source |-> s, target |-> t, condition |-> ""]
If(s, t, c) == [source |-> s, target |-> t, condition |-> c]

\* A chain, a role that may be passed over, researchers who start together, a fork
\* in the middle, one whose branches part, roles that all start or all end, a loop.
VibePlans ==
    {[nodes |-> <<"a", "b">>, edges |-> <<To("ENTRY", "a"), To("a", "b"), To("b", "EXIT")>>],
     [nodes |-> <<"a", "b", "c">>,
      edges |-> <<To("ENTRY", "a"), If("a", "c", "a"), If("a", "b", ""), To("b", "c"), To("c", "EXIT")>>],
     [nodes |-> <<"d", "c", "a", "b">>,
      edges |-> <<To("ENTRY", "a"), To("ENTRY", "b"), To("a", "c"), To("b", "c"), To("c", "d"), To("d", "EXIT")>>],
     [nodes |-> <<"a", "b", "c", "d">>,
      edges |-> <<To("ENTRY", "a"), To("a", "b"), To("a", "c"), To("b", "d"), To("c", "d"), To("d", "EXIT")>>],
     [nodes |-> <<"a", "b", "c", "d", "e">>,
      edges |-> <<To("ENTRY", "a"), To("a", "b"), To("a", "c"), To("b", "d"), To("c", "e"),
                  To("d", "EXIT"), To("e", "EXIT")>>],
     [nodes |-> <<"a", "b">>,
      edges |-> <<To("ENTRY", "a"), To("ENTRY", "b"), To("a", "EXIT"), To("b", "EXIT")>>],
     [nodes |-> <<"a", "b", "c">>,
      edges |-> <<To("ENTRY", "a"), To("a", "b"), To("a", "c"), To("b", "EXIT"), To("c", "EXIT")>>],
     [nodes |-> <<"a", "b">>,
      edges |-> <<To("ENTRY", "a"), To("a", "b"), If("b", "EXIT", "b"), If("b", "a", "")>>]}

S == INSTANCE SimpleLoop WITH Turns <- LoopTurns, MaxSteps <- LoopSteps, turn <- loopTurn
T == INSTANCE TreeSearch_proofs WITH Searches <- Runs
C == INSTANCE StepClaims WITH Claimants <- Runs, Watchers <- {}, MaxSubs <- 0, MaxEvents <- 0, step <- workflowStep
W == INSTANCE StepClaims WITH Claimants <- {}, Watchers <- Runs, step <- workflowStep
I == INSTANCE Subagents WITH Isolated <- Delegates, Workers <- {}
D == INSTANCE Subagents WITH Isolated <- {}, Workers <- Delegates
A == INSTANCE AsyncSubAgents
P == INSTANCE PowerTools WITH EnableTools <- {"subscriptions"},
                              run <- user, subscriptions <- labels, overlapped <- shared
R == INSTANCE PowerTools WITH EnableTools <- {"graph", "temporal", "analytics", "search", "code", "tables", "query"},
                              MaxSubs <- 0, run <- user, subscriptions <- labels, overlapped <- shared
V == INSTANCE VibeGraph WITH MaxSteps <- WalkSteps, pc <- stage
M == INSTANCE RemoteCheckpoints WITH Writers <- Runs, enableLocalCache <- TRUE, disturbed <- contended

simple == <<native, signal, aborted, disclosed, pc, step, messages, loopTurn, next, flying, capped, count, begun,
            rounds, cut, errors, stop, verdict, summarized, late>>
treeSearch == <<tree, rootId, nodeCounter, search, path, hung, committed, overlapped>>
claims == <<workflowStep, claimed, sub, subscriptions, watcher, arrived, heard, excused>>
subAgents == <<run, registered, subAgentResults, job, activeDelegations, reported, mixed>>
async == <<task, listed, worker, overrun>>
power == <<user, labels, live, creator, rows, polled, shown, strayed, shared>>
vibe == <<stage, plan, current, steps, state, status, ran, failed, awaited>>
remote == <<localCache, graph, writer, saves, restarts, contended, past>>
agentVars == <<part, simple, treeSearch, claims, subAgents, async, vars, power, vibe, remote>>
-----------------------------------------------------------------------------
Parts == {"simple", "tree", "claims", "watchers", "isolated", "workers", "async", "keyed", "labels", "tables",
          "vibe", "remote"}

\* What is chosen at the start starts in one state while it rests.
AgentsInit ==
    /\ part \in Parts
    /\ IF part = "simple" THEN S!Init ELSE S!Init /\ native = FALSE
    /\ T!Init /\ A!Init /\ Init /\ P!Init /\ V!Init /\ M!Init
    /\ IF part = "watchers" THEN W!Init ELSE C!Init
    /\ IF part = "workers" THEN D!Init ELSE I!Init

Agents ==
    \/ /\ part = "simple" /\ S!Next
       /\ UNCHANGED <<treeSearch, claims, subAgents, async, vars, power, vibe, remote>>
    \/ /\ part = "tree" /\ T!Next
       /\ UNCHANGED <<simple, claims, subAgents, async, vars, power, vibe, remote>>
    \/ /\ part = "claims" /\ C!Next
       /\ UNCHANGED <<simple, treeSearch, subAgents, async, vars, power, vibe, remote>>
    \/ /\ part = "watchers" /\ W!Next
       /\ UNCHANGED <<simple, treeSearch, subAgents, async, vars, power, vibe, remote>>
    \/ /\ part = "isolated" /\ I!Next
       /\ UNCHANGED <<simple, treeSearch, claims, async, vars, power, vibe, remote>>
    \/ /\ part = "workers" /\ D!Next
       /\ UNCHANGED <<simple, treeSearch, claims, async, vars, power, vibe, remote>>
    \/ /\ part = "async" /\ A!Next
       /\ UNCHANGED <<simple, treeSearch, claims, subAgents, vars, power, vibe, remote>>
    \/ /\ part = "keyed" /\ Next
       /\ UNCHANGED <<simple, treeSearch, claims, subAgents, async, power, vibe, remote>>
    \/ /\ part = "labels" /\ P!Next
       /\ UNCHANGED <<simple, treeSearch, claims, subAgents, async, vars, vibe, remote>>
    \/ /\ part = "tables" /\ R!Next
       /\ UNCHANGED <<simple, treeSearch, claims, subAgents, async, vars, vibe, remote>>
    \/ /\ part = "vibe" /\ V!Next
       /\ UNCHANGED <<simple, treeSearch, claims, subAgents, async, vars, power, remote>>
    \/ /\ part = "remote" /\ M!Next
       /\ UNCHANGED <<simple, treeSearch, claims, subAgents, async, vars, power, vibe>>

AgentsNext == Agents /\ UNCHANGED part

\* The calls of a background worker settle; handlers settle, and every response is
\* got round to.
Fairness ==
    /\ \A i \in Tasks : WF_async(part = "async" /\ A!Work(i))
    /\ \A t \in Turns : WF_vars(part = "keyed" /\ Settle(t))
    /\ \A q \in Requests : WF_vars(part = "keyed" /\ Respond(q))

AgentsSpec == AgentsInit /\ [][AgentsNext]_agentVars /\ Fairness

\* The walks of workflow graphs alone.
VibeInit == AgentsInit /\ part = "vibe"
-----------------------------------------------------------------------------
\* Whatever is bounded stays so: the tool calls and cancelled turns of the simple
\* agent, the iterations of a tree search, the workers at once, the steps of
\* sub-agents, admitted and cancelled background tasks.
AgentsKeepBounds ==
    /\ S!CapHolds /\ S!CancelIsHeard
    /\ T!SearchesAreBounded /\ T!WalksEnd
    /\ part = "workers" => D!WorkersAreCounted
    /\ A!TypeOK /\ A!Admission /\ A!CancelTakesHold

\* What agents say and show is so: transcripts, goal checks, best paths and their
\* visits, running records, sub-agents and steps that belong to who claims them.
AgentsTellTheTruth ==
    /\ S!RequestsPaired /\ S!DoneIsChecked
    /\ T!PathIsWhatWasDone /\ T!VisitsAddUp
    /\ A!RunningIsLive
    /\ part # "workers" => I!IsolatedWorksForItsCaller /\ I!ReportsItsOwn
    /\ part # "watchers" => C!OneClaimant

\* Nothing of what a run has made at the services outlives it unseen, nothing that
\* arrives for it is lost, and nothing of another group or process comes into it.
NothingLeftBehind ==
    /\ part = "watchers" => W!SubscriptionsEnd /\ W!UpdatesAreHeard
    /\ P!CleanedBehind /\ P!PollsItsOwn /\ P!GroupsAreKept
    /\ M!OwnSaveStands /\ M!ResumesOwnWork /\ M!ChainIsALine

\* A workflow's roles run in the order of its plan, all of them where the plan is of
\* chains and forks, and its failures are told.
WorkflowsFollowTheirPlan == V!InOrder /\ V!EveryRoleRuns /\ V!LegalPlanCompiles /\ V!FailuresAreTold

\* Background workers end and leave their tasks settled; requests for a turn are
\* answered, unless their caller leaves.
AgentsAnswer == A!TaskEnds /\ Answered

\* README.md: "synthesizer combines their outputs".
JoinFindsAll == V!JoinFindsAll
-----------------------------------------------------------------------------
(***************************************************************************)
(* Proofs, for any number of runs, tasks, searches, keys and requests and  *)
(* any bounds on them: what the invariants say of each part.               *)
(***************************************************************************)
KeyedTurnsAssumption ==
    /\ NoKey \notin Keys
    /\ NoTurn \notin Turns
    /\ MaxKeyedTurns \in Nat

ASSUME AgentsConstants ==
    /\ KeyedTurnsAssumption
    /\ "none" \notin Runs
    /\ LoopTurns \subseteq Seq(S!Registered \cup {"find", "none"})
    /\ LoopSteps \in Nat /\ MaxToolCalls \in Nat /\ MaxVerifyRounds \in Nat
    /\ KeepRecent \in Nat /\ LargestBatch \in Nat \ {0} /\ \A asked \in LoopTurns : Len(asked) <= LargestBatch
    /\ MaxDepth \in Nat \ {0} /\ PerLevel \in Nat \ {0} /\ Branching \in Nat /\ Budget \in Nat
    /\ IsFiniteSet(Delegates) /\ MaxSteps \in Nat /\ MaxDelegations \in Nat
    /\ MaxConcurrent \in Nat
    /\ MaxCached \in Nat \ {0}

\* The keys of the turns so far.
UsedKeys == {turn[t].key : t \in Turns} \ {NoKey}

\* A turn has its key from its start.
KeyedAtStart == \A t \in Turns : turn[t].status = "unstarted" => turn[t].key = NoKey

\* While the map has room for every key, it has every keyed turn that has not failed.
AllRemembered ==
    Cardinality(UsedKeys) <= MaxKeyedTurns =>
        \A t \in Turns : turn[t].key \in Keys /\ turn[t].status # "failed" =>
            \E n \in DOMAIN keyedTurns : keyedTurns[n] = [key |-> turn[t].key, turn |-> t]

\* Who waits for what: for a turn that was started, an unkeyed one alone; nobody for
\* a turn that was told to stop.
Callers ==
    /\ \A q \in Requests : request[q] \in Turns => turn[request[q]].status # "unstarted"
    /\ \A t \in hungUp : /\ turn[t].key = NoKey /\ turn[t].status # "unstarted"
                         /\ \A q \in Requests : request[q] # t
    /\ \A p, q \in Requests : request[p] \in Turns /\ request[p] = request[q] /\ turn[request[p]].key = NoKey => p = q

KInv == MapIsSound /\ Wanted /\ Callers /\ IsFiniteSet(UsedKeys) /\ KeyedAtStart /\ AllRemembered

\* Every entry is of a key and a turn.
LEMMA EntryTypes ==
    ASSUME MapIsSound
    PROVE  \A n \in DOMAIN keyedTurns :
              /\ keyedTurns[n] \in Entry
              /\ keyedTurns[n].key \in Keys /\ keyedTurns[n].turn \in Turns
              /\ keyedTurns[n] = [key |-> keyedTurns[n].key, turn |-> keyedTurns[n].turn]
<1>1. keyedTurns \in Seq(Entry)
  BY DEF MapIsSound, TypeOK
<1>2. \A n \in DOMAIN keyedTurns : keyedTurns[n] \in Entry
  BY <1>1
<1>3. \A x \in Entry : x.key \in Keys /\ x.turn \in Turns /\ x = [key |-> x.key, turn |-> x.turn]
  BY DEF Entry
<1> QED
  BY <1>2, <1>3

\* Removing an entry that is there once leaves the others, in order.
LEMMA RemovesOne ==
    ASSUME NEW Elements, NEW s \in Seq(Elements), NEW i \in DOMAIN s,
           \A j \in DOMAIN s : s[j] = s[i] => j = i
    PROVE  /\ RemoveFirst(s, s[i]) \in Seq(Elements)
           /\ Len(RemoveFirst(s, s[i])) = Len(s) - 1
           /\ \A j \in 1 .. Len(s) - 1 :
                 RemoveFirst(s, s[i])[j] = IF j < i THEN s[j] ELSE s[j + 1]
<1> DEFINE Places == {j \in 1 .. Len(s) : s[j] = s[i]}
           front == SubSeq(s, 1, i - 1)
           back == SubSeq(s, i + 1, Len(s))
<1>1. DOMAIN s = 1 .. Len(s) /\ Len(s) \in Nat /\ i \in 1 .. Len(s)
  OBVIOUS
<1>2. Places = {i} /\ Min(Places) = i
  <2>1. Places = {i}
    BY <1>1
  <2> HIDE DEF Places
  <2> QED
    BY <1>1, <2>1 DEF Min
<1>3. RemoveFirst(s, s[i]) = RemoveAt(s, i)
  BY <1>1, <1>2 DEF RemoveFirst, SelectInSeq
<1>4. RemoveFirst(s, s[i]) = front \o back
  BY <1>3 DEF RemoveAt
<1>5. /\ front \in Seq(Elements) /\ Len(front) = i - 1 /\ \A j \in 1 .. i - 1 : front[j] = s[j]
      /\ back \in Seq(Elements) /\ Len(back) = Len(s) - i
      /\ \A j \in 1 .. Len(s) - i : back[j] = s[j + i]
  BY <1>1, SMTT(30)
<1> HIDE DEF front, back
<1>6. front \o back \in Seq(Elements) /\ Len(front \o back) = Len(s) - 1
  <2>1. front \o back \in Seq(Elements) /\ Len(front \o back) = Len(front) + Len(back)
    BY <1>5, ConcatProperties
  <2>2. Len(front) + Len(back) = Len(s) - 1
    BY <1>1, <1>5
  <2> QED
    BY <2>1, <2>2
<1>7. ASSUME NEW j \in 1 .. Len(s) - 1
      PROVE  (front \o back)[j] = IF j < i THEN s[j] ELSE s[j + 1]
  <2>1. CASE j < i
    BY <1>1, <1>5, <2>1
  <2>2. CASE ~(j < i)
    <3>1. (front \o back)[j] = back[j - (i - 1)]
      BY <1>1, <1>5, <2>2, SMTT(30)
    <3>2. j - (i - 1) \in 1 .. Len(s) - i /\ (j - (i - 1)) + i = j + 1
      BY <1>1, <2>2
    <3> QED
      BY <1>5, <2>2, <3>1, <3>2
  <2> QED
    BY <2>1, <2>2
<1> QED
  BY <1>4, <1>6, <1>7

\* What is left of the map when a turn is forgotten: the entries of the others.
LEMMA ForgetsOne ==
    ASSUME MapIsSound, NEW t \in Turns
    PROVE  /\ Without(t) \in Seq(Entry) /\ Len(Without(t)) <= Len(keyedTurns)
           /\ \A m \in DOMAIN Without(t) : \E n \in DOMAIN keyedTurns :
                 Without(t)[m] = keyedTurns[n] /\ keyedTurns[n].turn # t
           /\ \A n \in DOMAIN keyedTurns : keyedTurns[n].turn # t =>
                 \E m \in DOMAIN Without(t) : Without(t)[m] = keyedTurns[n]
           /\ \A m1, m2 \in DOMAIN Without(t) : Without(t)[m1].key = Without(t)[m2].key => m1 = m2
<1> DEFINE e == [key |-> turn[t].key, turn |-> t]
           left == Without(t)
<1>1. /\ keyedTurns \in Seq(Entry) /\ Len(keyedTurns) \in Nat
      /\ DOMAIN keyedTurns = 1 .. Len(keyedTurns)
      /\ \A n \in DOMAIN keyedTurns : keyedTurns[n] \in Entry
  BY DEF MapIsSound, TypeOK
<1>2. \A n, m \in DOMAIN keyedTurns : keyedTurns[m].key = keyedTurns[n].key => m = n
  BY DEF MapIsSound
<1>3. \A n \in DOMAIN keyedTurns : keyedTurns[n].turn = t => keyedTurns[n] = e
  BY <1>1 DEF MapIsSound, Entry
<1>4. CASE \E i \in DOMAIN keyedTurns : keyedTurns[i] = e
  <2>1. PICK i \in DOMAIN keyedTurns : keyedTurns[i] = e
    BY <1>4
  <2>2. \A j \in DOMAIN keyedTurns : keyedTurns[j] = keyedTurns[i] => j = i
    BY <1>2
  <2>3. left = RemoveFirst(keyedTurns, keyedTurns[i])
    BY <2>1 DEF Without
  <2>4. /\ left \in Seq(Entry) /\ Len(left) = Len(keyedTurns) - 1
        /\ \A j \in 1 .. Len(keyedTurns) - 1 :
              left[j] = IF j < i THEN keyedTurns[j] ELSE keyedTurns[j + 1]
    BY <1>1, <2>2, <2>3, RemovesOne, ZenonT(30)
  <2>5. \A n \in DOMAIN keyedTurns : keyedTurns[n].turn = t <=> n = i
    BY <1>1, <1>3, <2>1, <2>2
  <2> HIDE DEF left, e
  <2>6. DOMAIN left = 1 .. Len(keyedTurns) - 1
    BY <1>1, <2>4
  <2>7. ASSUME NEW m \in DOMAIN left
        PROVE  \E n \in DOMAIN keyedTurns : n = (IF m < i THEN m ELSE m + 1) /\ n # i
                                              /\ left[m] = keyedTurns[n]
    <3>1. m < i => m \in DOMAIN keyedTurns /\ m # i /\ left[m] = keyedTurns[m]
      BY <1>1, <2>4, <2>6
    <3>2. ~(m < i) => m + 1 \in DOMAIN keyedTurns /\ m + 1 # i /\ left[m] = keyedTurns[m + 1]
      BY <1>1, <2>4, <2>6
    <3> QED
      BY <3>1, <3>2
  <2>8. ASSUME NEW n \in DOMAIN keyedTurns, n # i
        PROVE  \E m \in DOMAIN left : left[m] = keyedTurns[n]
    <3>1. n < i => n \in DOMAIN left /\ left[n] = keyedTurns[n]
      BY <1>1, <2>4, <2>6
    <3>2. ~(n < i) => n - 1 \in DOMAIN left /\ left[n - 1] = keyedTurns[n]
      BY <1>1, <2>4, <2>6, <2>8
    <3> QED
      BY <3>1, <3>2
  <2>9. \A m1, m2 \in DOMAIN left : left[m1].key = left[m2].key => m1 = m2
    <3> SUFFICES ASSUME NEW m1 \in DOMAIN left, NEW m2 \in DOMAIN left, left[m1].key = left[m2].key
                 PROVE  m1 = m2
      OBVIOUS
    <3>1. (IF m1 < i THEN m1 ELSE m1 + 1) = (IF m2 < i THEN m2 ELSE m2 + 1)
      BY <1>2, <2>7
    <3>2. m1 \in Int /\ m2 \in Int /\ i \in Int
      BY <1>1, <2>6
    <3> QED
      BY <3>1, <3>2
  <2>10. Len(left) <= Len(keyedTurns)
    BY <1>1, <2>4
  <2> QED
    BY <2>4, <2>5, <2>7, <2>8, <2>9, <2>10 DEF left
<1>5. CASE ~\E i \in DOMAIN keyedTurns : keyedTurns[i] = e
  <2>1. left = keyedTurns
    BY <1>1, <1>5 DEF Without, RemoveFirst
  <2>2. \A n \in DOMAIN keyedTurns : keyedTurns[n].turn # t
    BY <1>3, <1>5
  <2> QED
    BY <1>1, <1>2, <2>1, <2>2
<1> QED
  BY <1>4, <1>5

\* The map with e added to it: e comes last, and the oldest goes only if the map
\* was full.
Adds(kept, e) ==
    /\ kept \in Seq(Entry) /\ Len(kept) <= MaxKeyedTurns
    /\ \A m \in DOMAIN kept : kept[m] = e \/ \E n \in DOMAIN keyedTurns : kept[m] = keyedTurns[n]
    /\ \A m1, m2 \in DOMAIN kept : kept[m1].key = kept[m2].key => m1 = m2
    /\ Len(keyedTurns) < MaxKeyedTurns => kept = Append(keyedTurns, e)
    /\ \A n \in DOMAIN keyedTurns :
          \/ \E m \in DOMAIN kept : kept[m] = keyedTurns[n]
          \/ n = 1 /\ Len(keyedTurns) = MaxKeyedTurns /\ Len(kept) = MaxKeyedTurns

\* A new key's entry is added so.
LEMMA KeptEffects ==
    ASSUME KeyedTurnsAssumption, MapIsSound, NEW k \in Keys, NEW t \in Turns,
           \A n \in DOMAIN keyedTurns : keyedTurns[n].key # k
    PROVE  Adds(Kept(keyedTurns, k, t), [key |-> k, turn |-> t])
<1> DEFINE e == [key |-> k, turn |-> t]
           kept == Kept(keyedTurns, k, t)
           more == Append(keyedTurns, e)
           len == Len(keyedTurns)
<1>1. /\ keyedTurns \in Seq(Entry) /\ len \in Nat /\ len <= MaxKeyedTurns
      /\ DOMAIN keyedTurns = 1 .. len /\ MaxKeyedTurns \in Nat
      /\ e \in Entry /\ e.key = k
  BY DEF MapIsSound, TypeOK, Entry, KeyedTurnsAssumption
<1>2. \A n, m \in DOMAIN keyedTurns : keyedTurns[m].key = keyedTurns[n].key => m = n
  BY DEF MapIsSound
<1> HIDE DEF e
<1>3. /\ more \in Seq(Entry) /\ Len(more) = len + 1 /\ DOMAIN more = 1 .. len + 1
      /\ more[len + 1] = e /\ \A n \in 1 .. len : more[n] = keyedTurns[n]
  BY <1>1
<1>4. \A m1, m2 \in DOMAIN more : more[m1].key = more[m2].key => m1 = m2
  <2> SUFFICES ASSUME NEW m1 \in DOMAIN more, NEW m2 \in DOMAIN more, more[m1].key = more[m2].key
               PROVE  m1 = m2
    OBVIOUS
  <2>1. m1 \in 1 .. len \/ m1 = len + 1
    BY <1>1, <1>3
  <2>2. m2 \in 1 .. len \/ m2 = len + 1
    BY <1>1, <1>3
  <2> HIDE DEF more, len
  <2> QED
    BY <1>1, <1>2, <1>3, <2>1, <2>2
<1>5. kept = IF Len(more) > MaxKeyedTurns THEN Tail(more) ELSE more
  BY DEF Kept, e
<1>6. CASE len < MaxKeyedTurns
  <2> HIDE DEF kept, more, len
  <2>1. kept = more
    BY <1>1, <1>3, <1>5, <1>6
  <2>2. kept \in Seq(Entry) /\ Len(kept) <= MaxKeyedTurns /\ DOMAIN kept = 1 .. len + 1
    BY <1>1, <1>3, <1>6, <2>1
  <2>3. ASSUME NEW m \in DOMAIN kept
        PROVE  kept[m] = e \/ \E n \in DOMAIN keyedTurns : kept[m] = keyedTurns[n]
    <3>1. m \in 1 .. len \/ m = len + 1
      BY <1>1, <2>2
    <3> QED
      BY <1>1, <1>3, <2>1, <3>1
  <2>4. ASSUME NEW n \in DOMAIN keyedTurns PROVE \E m \in DOMAIN kept : kept[m] = keyedTurns[n]
    <3>1. n \in DOMAIN kept
      BY <1>1, <2>2
    <3> QED
      BY <1>1, <1>3, <2>1, <3>1
  <2> QED
    BY <1>4, <2>1, <2>2, <2>3, <2>4 DEF kept, more, e, Adds
<1>7. CASE ~(len < MaxKeyedTurns)
  <2>0. more # <<>>
    BY <1>1, <1>3
  <2> HIDE DEF kept, more, len
  <2>1. kept = Tail(more) /\ len = MaxKeyedTurns /\ more # <<>>
    BY <1>1, <1>3, <1>5, <1>7, <2>0
  <2>2. /\ kept \in Seq(Entry) /\ Len(kept) = len /\ DOMAIN kept = 1 .. len
        /\ \A m \in 1 .. len : kept[m] = more[m + 1]
    BY <1>1, <1>3, <2>1
  <2>3. ASSUME NEW m \in DOMAIN kept
        PROVE  kept[m] = e \/ \E n \in DOMAIN keyedTurns : kept[m] = keyedTurns[n]
    <3>1. m + 1 \in 1 .. len \/ m + 1 = len + 1
      BY <1>1, <2>2
    <3> QED
      BY <1>1, <1>3, <2>2, <3>1
  <2>4. \A m1, m2 \in DOMAIN kept : kept[m1].key = kept[m2].key => m1 = m2
    <3> SUFFICES ASSUME NEW m1 \in DOMAIN kept, NEW m2 \in DOMAIN kept, kept[m1].key = kept[m2].key
                 PROVE  m1 = m2
      OBVIOUS
    <3>1. m1 + 1 \in DOMAIN more /\ m2 + 1 \in DOMAIN more
      BY <1>1, <1>3, <2>2
    <3>2. m1 + 1 = m2 + 1
      BY <1>4, <2>2, <3>1
    <3>3. m1 \in Int /\ m2 \in Int
      BY <2>2
    <3> QED
      BY <3>2, <3>3
  <2>5. ASSUME NEW n \in DOMAIN keyedTurns
        PROVE  n = 1 \/ \E m \in DOMAIN kept : kept[m] = keyedTurns[n]
    <3>1. CASE n # 1
      <4>1. n - 1 \in 1 .. len /\ (n - 1) + 1 = n /\ n \in 1 .. len
        BY <1>1, <3>1
      <4>2. kept[n - 1] = keyedTurns[n]
        BY <1>3, <2>2, <4>1
      <4> QED
        BY <2>2, <4>1, <4>2
    <3> QED
      BY <3>1
  <2>6. Len(kept) <= MaxKeyedTurns
    BY <1>1, <2>1, <2>2
  <2> QED
    BY <1>7, <2>1, <2>2, <2>3, <2>4, <2>5, <2>6 DEF kept, e, len, Adds
<1> QED
  BY <1>6, <1>7

\* A map that has room for every key has room for a new one.
LEMMA RoomLeft ==
    ASSUME KeyedTurnsAssumption, KInv, NEW k \in Keys,
           \A n \in DOMAIN keyedTurns : keyedTurns[n].key # k,
           Cardinality(UsedKeys \cup {k}) <= MaxKeyedTurns
    PROVE  Len(keyedTurns) < MaxKeyedTurns
<1> DEFINE len == Len(keyedTurns)
           f == [n \in 1 .. len |-> keyedTurns[n].key]
           others == UsedKeys \ {k}
<1>1. /\ keyedTurns \in Seq(Entry) /\ len \in Nat /\ DOMAIN keyedTurns = 1 .. len
      /\ turn \in [Turns -> TurnState] /\ MaxKeyedTurns \in Nat /\ NoKey \notin Keys
      /\ IsFiniteSet(UsedKeys)
  BY DEF KInv, MapIsSound, TypeOK, KeyedTurnsAssumption
<1>2. ASSUME NEW n \in 1 .. len PROVE keyedTurns[n].key \in others
  <2>1. keyedTurns[n].key \in Keys /\ keyedTurns[n].turn \in Turns
    BY <1>1, EntryTypes DEF KInv
  <2>2. turn[keyedTurns[n].turn].key = keyedTurns[n].key
    BY <1>1 DEF KInv, MapIsSound
  <2> QED
    BY <1>1, <2>1, <2>2 DEF UsedKeys
<1>3. f \in Injection(1 .. len, others)
  <2>1. \A n, m \in 1 .. len : keyedTurns[m].key = keyedTurns[n].key => m = n
    BY <1>1 DEF KInv, MapIsSound
  <2>2. f \in [1 .. len -> others]
    BY <1>2
  <2> QED
    BY <2>1, <2>2 DEF Injection, IsInjective
<1>4. IsFiniteSet(others)
  BY <1>1, FS_RemoveElement
<1>5. Cardinality(1 .. len) <= Cardinality(others)
  BY <1>3, <1>4, FS_Injection
<1>6. Cardinality(1 .. len) = len
  <2>1. len \in Int /\ 1 \in Int /\ len \in Nat
    BY <1>1
  <2> HIDE DEF len
  <2>2. Cardinality(1 .. len) = IF 1 > len THEN 0 ELSE len - 1 + 1
    BY <2>1, FS_Interval
  <2> QED
    BY <2>1, <2>2
<1>7. Cardinality(UsedKeys \cup {k}) = Cardinality(others) + 1
  <2>1. UsedKeys \cup {k} = others \cup {k} /\ k \notin others
    OBVIOUS
  <2> HIDE DEF others
  <2> QED
    BY <1>4, <2>1, FS_AddElement
<1>8. Cardinality(others) \in Nat
  BY <1>4, FS_CardinalityType
<1> QED
  BY <1>1, <1>5, <1>6, <1>7, <1>8

\* Starting a turn keeps the invariant.
LEMMA StartStep ==
    ASSUME KeyedTurnsAssumption, KInv, NEW q \in Requests, NEW k \in Keys \cup {NoKey},
           NEW t \in Turns, Start(q, k, t)
    PROVE  KInv'
<1> DEFINE e == [key |-> k, turn |-> t]
<1>0. /\ MapIsSound /\ Wanted /\ Callers /\ IsFiniteSet(UsedKeys) /\ KeyedAtStart /\ AllRemembered
      /\ keyedTurns \in Seq(Entry) /\ Len(keyedTurns) <= MaxKeyedTurns
      /\ turn \in [Turns -> TurnState] /\ request \in [Requests -> Turns \cup {NoTurn}]
      /\ hungUp \subseteq Turns
      /\ NoKey \notin Keys /\ NoTurn \notin Turns
  BY DEF KInv, MapIsSound, TypeOK, KeyedTurnsAssumption
<1>1. /\ request[q] = NoTurn /\ Remembered(k) = {} /\ turn[t].status = "unstarted"
      /\ turn' = [turn EXCEPT ![t] = [key |-> k, status |-> "running"]]
      /\ keyedTurns' = IF k = NoKey THEN keyedTurns ELSE Kept(keyedTurns, k, t)
      /\ request' = [request EXCEPT ![q] = t]
      /\ hungUp' = hungUp
  BY DEF Start
<1>2. /\ turn' \in [Turns -> TurnState]
      /\ turn'[t].key = k /\ turn'[t].status = "running" /\ turn[t].key = NoKey
      /\ \A x \in Turns \ {t} : turn'[x] = turn[x]
  BY <1>0, <1>1 DEF KeyedAtStart, TurnState
<1>3. /\ \A n \in DOMAIN keyedTurns : keyedTurns[n] \in Entry
      /\ \A n \in DOMAIN keyedTurns : /\ keyedTurns[n].turn \in Turns \ {t}
                                      /\ keyedTurns[n].key \in Keys /\ keyedTurns[n].key # k
                                      /\ turn[keyedTurns[n].turn].key = keyedTurns[n].key
                                      /\ turn[keyedTurns[n].turn].status \in {"running", "done"}
  <2>1. \A n \in DOMAIN keyedTurns : /\ keyedTurns[n] \in Entry
                                     /\ keyedTurns[n].turn \in Turns /\ keyedTurns[n].key \in Keys
                                     /\ keyedTurns[n] = [key |-> keyedTurns[n].key,
                                                         turn |-> keyedTurns[n].turn]
    BY <1>0, EntryTypes
  <2>2. \A n \in DOMAIN keyedTurns : /\ turn[keyedTurns[n].turn].key = keyedTurns[n].key
                                     /\ turn[keyedTurns[n].turn].status \in {"running", "done"}
    BY <1>0 DEF MapIsSound
  <2>3. \A n \in DOMAIN keyedTurns : keyedTurns[n].key # k
    BY <1>1, <2>1 DEF Remembered
  <2> QED
    BY <1>1, <2>1, <2>2, <2>3
<1>4. /\ keyedTurns' \in Seq(Entry) /\ Len(keyedTurns') <= MaxKeyedTurns
      /\ \A m \in DOMAIN keyedTurns' :
            (k # NoKey /\ keyedTurns'[m] = e) \/ \E n \in DOMAIN keyedTurns : keyedTurns'[m] = keyedTurns[n]
      /\ \A m1, m2 \in DOMAIN keyedTurns' : keyedTurns'[m1].key = keyedTurns'[m2].key => m1 = m2
  <2>1. CASE k = NoKey
    BY <1>0, <1>1, <2>1 DEF MapIsSound
  <2>2. CASE k # NoKey
    <3>1. k \in Keys /\ keyedTurns' = Kept(keyedTurns, k, t)
      BY <1>1, <2>2
    <3>2. \A n \in DOMAIN keyedTurns : keyedTurns[n].key # k
      BY <1>3
    <3>3. Adds(keyedTurns', e)
      BY <1>0, <3>1, <3>2, KeptEffects
    <3> QED
      BY <2>2, <3>3 DEF Adds
  <2> QED
    BY <2>1, <2>2
<1>5. MapIsSound'
  <2>1. TypeOK'
    BY <1>0, <1>1, <1>2, <1>4 DEF TypeOK
  <2>2. ASSUME NEW m \in DOMAIN keyedTurns'
        PROVE  /\ turn'[keyedTurns'[m].turn].key = keyedTurns'[m].key
               /\ turn'[keyedTurns'[m].turn].status \in {"running", "done"}
    <3>1. CASE keyedTurns'[m] = e
      BY <1>2, <3>1
    <3>2. CASE \E n \in DOMAIN keyedTurns : keyedTurns'[m] = keyedTurns[n]
      BY <1>2, <1>3, <3>2
    <3> QED
      BY <1>4, <3>1, <3>2
  <2> QED
    BY <1>4, <2>1, <2>2 DEF MapIsSound
<1>6. Wanted'
  <2> SUFFICES ASSUME NEW x \in Turns, turn'[x].status = "running"
               PROVE  \/ \E p \in Requests : request'[p] = x
                      \/ turn'[x].key \in Keys
                      \/ x \in hungUp'
    BY DEF Wanted, Running
  <2>1. CASE x = t
    BY <1>0, <1>1, <2>1
  <2>2. CASE x # t
    <3>1. turn'[x] = turn[x]
      BY <1>2, <2>2
    <3>2. \A p \in Requests : request[p] = x => p # q /\ request'[p] = x
      BY <1>0, <1>1
    <3> QED
      BY <1>0, <1>1, <3>1, <3>2 DEF Wanted, Running
  <2> QED
    BY <2>1, <2>2
<1>7. KeyedAtStart'
  BY <1>0, <1>2 DEF KeyedAtStart
<1>8. UsedKeys' = IF k = NoKey THEN UsedKeys ELSE UsedKeys \cup {k}
  <2>1. UsedKeys' = {turn'[x].key : x \in Turns} \ {NoKey}
    BY DEF UsedKeys
  <2>2. UsedKeys = {turn[x].key : x \in Turns} \ {NoKey}
    BY DEF UsedKeys
  <2> QED
    BY <1>2, <2>1, <2>2
<1>9. IsFiniteSet(UsedKeys')
  BY <1>0, <1>8, FS_AddElement
<1>10. AllRemembered'
  <2> SUFFICES ASSUME Cardinality(UsedKeys') <= MaxKeyedTurns, NEW x \in Turns,
                      turn'[x].key \in Keys, turn'[x].status # "failed"
               PROVE  \E m \in DOMAIN keyedTurns' :
                         keyedTurns'[m] = [key |-> turn'[x].key, turn |-> x]
    BY DEF AllRemembered
  <2>1. Cardinality(UsedKeys) <= MaxKeyedTurns
    <3>1. UsedKeys \subseteq UsedKeys'
      BY <1>8
    <3>2. Cardinality(UsedKeys) <= Cardinality(UsedKeys')
      BY <1>9, <3>1, FS_Subset
    <3>3. Cardinality(UsedKeys) \in Nat /\ Cardinality(UsedKeys') \in Nat /\ MaxKeyedTurns \in Nat
      BY <1>0, <1>9, FS_CardinalityType DEF KeyedTurnsAssumption
    <3> QED
      BY <3>2, <3>3
  <2>2. \A y \in Turns : turn[y].key \in Keys /\ turn[y].status # "failed" =>
            \E n \in DOMAIN keyedTurns : keyedTurns[n] = [key |-> turn[y].key, turn |-> y]
    BY <1>0, <2>1 DEF AllRemembered
  <2>3. CASE k = NoKey
    <3>1. x # t /\ turn'[x] = turn[x]
      BY <1>0, <1>2, <2>3
    <3> QED
      BY <1>1, <2>2, <2>3, <3>1
  <2>4. CASE k # NoKey
    <3>1. k \in Keys /\ Cardinality(UsedKeys \cup {k}) <= MaxKeyedTurns
      BY <1>8, <2>4
    <3>2. Len(keyedTurns) < MaxKeyedTurns
      BY <1>3, <3>1, RoomLeft
    <3>3. keyedTurns' = Append(keyedTurns, e)
      BY <1>0, <1>1, <1>3, <2>4, <3>1, <3>2, KeptEffects DEF Adds
    <3>4. /\ \A n \in DOMAIN keyedTurns : n \in DOMAIN keyedTurns' /\ keyedTurns'[n] = keyedTurns[n]
          /\ Len(keyedTurns) + 1 \in DOMAIN keyedTurns' /\ keyedTurns'[Len(keyedTurns) + 1] = e
      BY <1>0, <3>3
    <3>5. CASE x = t
      BY <1>2, <3>4, <3>5
    <3>6. CASE x # t
      <4>1. turn'[x] = turn[x]
        BY <1>2, <3>6
      <4> QED
        BY <2>2, <3>4, <4>1
    <3> QED
      BY <3>5, <3>6
  <2> QED
    BY <2>3, <2>4
<1>11. Callers'
  <2>1. \A p \in Requests : request[p] # t
    BY <1>0, <1>1 DEF Callers
  <2>2. t \notin hungUp
    BY <1>1, <1>0 DEF Callers
  <2>3. \A p \in Requests : request'[p] = (IF p = q THEN t ELSE request[p])
    BY <1>0, <1>1
  <2>4. \A p \in Requests : request'[p] \in Turns => turn'[request'[p]].status # "unstarted"
    BY <1>0, <1>2, <2>1, <2>3 DEF Callers
  <2>5. \A x \in hungUp : turn'[x] = turn[x] /\ x # t
    BY <1>0, <1>2, <2>2
  <2>6. \A x \in hungUp' : turn'[x].key = NoKey /\ turn'[x].status # "unstarted" /\ \A p \in Requests : request'[p] # x
    BY <1>0, <1>1, <2>3, <2>5 DEF Callers
  <2>7. \A p, r \in Requests : request'[p] \in Turns /\ request'[p] = request'[r] /\ turn'[request'[p]].key = NoKey => p = r
    BY <1>0, <1>2, <2>1, <2>3 DEF Callers
  <2> QED
    BY <2>4, <2>6, <2>7 DEF Callers
<1> QED
  BY <1>5, <1>6, <1>7, <1>9, <1>10, <1>11 DEF KInv

\* A turn settling keeps the invariant: a success stays in the map, and a failure
\* takes its own entry out of it.
LEMMA SettleStep ==
    ASSUME KeyedTurnsAssumption, KInv, NEW t \in Turns, Settle(t)
    PROVE  KInv'
<1>0. /\ MapIsSound /\ Wanted /\ Callers /\ IsFiniteSet(UsedKeys) /\ KeyedAtStart /\ AllRemembered
      /\ keyedTurns \in Seq(Entry) /\ Len(keyedTurns) \in Nat /\ Len(keyedTurns) <= MaxKeyedTurns
      /\ turn \in [Turns -> TurnState] /\ request \in [Requests -> Turns \cup {NoTurn}]
      /\ hungUp \subseteq Turns /\ MaxKeyedTurns \in Nat
  BY DEF KInv, MapIsSound, TypeOK, KeyedTurnsAssumption
<1>1. PICK s \in {"done", "failed"} :
        /\ turn[t].status = "running" /\ turn' = [turn EXCEPT ![t].status = s]
        /\ request' = request /\ hungUp' = hungUp
        /\ keyedTurns' = IF s = "done" THEN keyedTurns ELSE Without(t)
  BY DEF Settle, Succeed, Throw, Running
<1>2. /\ turn' \in [Turns -> TurnState]
      /\ \A x \in Turns : turn'[x].key = turn[x].key
      /\ turn'[t].status = s /\ \A x \in Turns \ {t} : turn'[x] = turn[x]
  BY <1>0, <1>1 DEF TurnState
<1>3. \A n \in DOMAIN keyedTurns : keyedTurns[n].turn \in Turns
  BY <1>0, EntryTypes
<1>4. /\ keyedTurns' \in Seq(Entry) /\ Len(keyedTurns') <= MaxKeyedTurns
      /\ \A m \in DOMAIN keyedTurns' : \E n \in DOMAIN keyedTurns :
            keyedTurns'[m] = keyedTurns[n] /\ (s = "failed" => keyedTurns[n].turn # t)
      /\ \A n \in DOMAIN keyedTurns : (s = "failed" => keyedTurns[n].turn # t) =>
            \E m \in DOMAIN keyedTurns' : keyedTurns'[m] = keyedTurns[n]
      /\ \A m1, m2 \in DOMAIN keyedTurns' : keyedTurns'[m1].key = keyedTurns'[m2].key => m1 = m2
  <2>1. CASE s = "done"
    BY <1>0, <1>1, <2>1 DEF MapIsSound
  <2>2. CASE s = "failed"
    <3>1. keyedTurns' = Without(t)
      BY <1>1, <2>2
    <3>2. Len(Without(t)) \in Nat /\ Len(Without(t)) <= Len(keyedTurns)
      BY <1>0, ForgetsOne
    <3>3. keyedTurns' \in Seq(Entry) /\ Len(keyedTurns') <= MaxKeyedTurns
      <4>1. Without(t) \in Seq(Entry)
        BY <1>0, ForgetsOne
      <4>2. Len(keyedTurns) \in Nat /\ Len(keyedTurns) <= MaxKeyedTurns /\ MaxKeyedTurns \in Nat
        BY <1>0, KeyedTurnsAssumption DEF MapIsSound, TypeOK
      <4> QED
        BY <3>1, <3>2, <4>1, <4>2
    <3>4. /\ \A m \in DOMAIN keyedTurns' : \E n \in DOMAIN keyedTurns :
                 keyedTurns'[m] = keyedTurns[n] /\ keyedTurns[n].turn # t
          /\ \A n \in DOMAIN keyedTurns : keyedTurns[n].turn # t =>
                 \E m \in DOMAIN keyedTurns' : keyedTurns'[m] = keyedTurns[n]
          /\ \A m1, m2 \in DOMAIN keyedTurns' : keyedTurns'[m1].key = keyedTurns'[m2].key => m1 = m2
      BY <1>0, <3>1, ForgetsOne, SMTT(30)
    <3> QED
      BY <2>2, <3>3, <3>4, Zenon
  <2> QED
    BY <2>1, <2>2
<1>5. MapIsSound'
  <2>1. TypeOK'
    BY <1>0, <1>1, <1>2, <1>4 DEF TypeOK
  <2>2. ASSUME NEW m \in DOMAIN keyedTurns'
        PROVE  /\ turn'[keyedTurns'[m].turn].key = keyedTurns'[m].key
               /\ turn'[keyedTurns'[m].turn].status \in {"running", "done"}
    <3>1. PICK n \in DOMAIN keyedTurns :
              keyedTurns'[m] = keyedTurns[n] /\ (s = "failed" => keyedTurns[n].turn # t)
      BY <1>4
    <3>2. /\ turn[keyedTurns[n].turn].key = keyedTurns[n].key
          /\ turn[keyedTurns[n].turn].status \in {"running", "done"}
      BY <1>0 DEF MapIsSound
    <3> QED
      BY <1>1, <1>2, <1>3, <3>1, <3>2
  <2> QED
    BY <1>4, <2>1, <2>2 DEF MapIsSound
<1>6. Wanted'
  BY <1>0, <1>1, <1>2 DEF Wanted, Running
<1>7. KeyedAtStart'
  BY <1>0, <1>1, <1>2 DEF KeyedAtStart
<1>8. UsedKeys' = UsedKeys
  BY <1>2 DEF UsedKeys
<1>9. AllRemembered'
  <2> SUFFICES ASSUME Cardinality(UsedKeys) <= MaxKeyedTurns, NEW x \in Turns,
                      turn'[x].key \in Keys, turn'[x].status # "failed"
               PROVE  \E m \in DOMAIN keyedTurns' :
                         keyedTurns'[m] = [key |-> turn'[x].key, turn |-> x]
    BY <1>8 DEF AllRemembered
  <2>1. turn[x].status # "failed" /\ turn'[x].key = turn[x].key /\ (s = "failed" => x # t)
    BY <1>1, <1>2
  <2>2. PICK n \in DOMAIN keyedTurns : keyedTurns[n] = [key |-> turn[x].key, turn |-> x]
    BY <1>0, <2>1 DEF AllRemembered
  <2> QED
    BY <1>4, <2>1, <2>2
<1>10. Callers'
  <2>1. \A x \in Turns : turn'[x].key = turn[x].key /\ (turn[x].status # "unstarted" => turn'[x].status # "unstarted")
    BY <1>1, <1>2
  <2> QED
    BY <1>0, <1>1, <2>1 DEF Callers
<1> QED
  BY <1>0, <1>5, <1>6, <1>7, <1>8, <1>9, <1>10 DEF KInv

\* What requests come and go keeps the invariant: who hangs up on an unkeyed turn
\* stops it.
LEMMA RequestStep ==
    ASSUME KeyedTurnsAssumption, KInv, NEW q \in Requests,
           Respond(q) \/ HangUp(q) \/ \E k \in Keys : Join(q, k)
    PROVE  KInv'
<1>0. /\ MapIsSound /\ Wanted /\ Callers /\ IsFiniteSet(UsedKeys) /\ KeyedAtStart /\ AllRemembered
      /\ turn \in [Turns -> TurnState] /\ request \in [Requests -> Turns \cup {NoTurn}]
      /\ hungUp \subseteq Turns /\ NoTurn \notin Turns
  BY DEF KInv, MapIsSound, TypeOK, KeyedTurnsAssumption
<1>1. /\ keyedTurns' = keyedTurns /\ turn' = turn
      /\ \E r \in Turns \cup {NoTurn} : request' = [request EXCEPT ![q] = r]
      /\ hungUp' \subseteq Turns /\ hungUp \subseteq hungUp'
  BY <1>0 DEF Respond, HangUp, Join, Remembered
<1>2. request' \in [Requests -> Turns \cup {NoTurn}] /\ \A p \in Requests \ {q} : request'[p] = request[p]
  BY <1>0, <1>1
<1>3. MapIsSound' /\ KeyedAtStart' /\ AllRemembered' /\ UsedKeys' = UsedKeys
  BY <1>0, <1>1, <1>2 DEF MapIsSound, TypeOK, KeyedAtStart, AllRemembered, UsedKeys
<1>4. ASSUME NEW x \in Turns, request[q] = x, turn[x].status = "running"
      PROVE  turn[x].key \in Keys \/ x \in hungUp'
  <2>1. HangUp(q)
    BY <1>0, <1>4 DEF Respond, Join, Running
  <2>2. turn[x].key \in Keys \cup {NoKey}
    BY <1>0 DEF TurnState
  <2> QED
    BY <1>4, <2>1, <2>2 DEF HangUp
<1>5. Wanted'
  <2> SUFFICES ASSUME NEW x \in Turns, turn[x].status = "running"
               PROVE  \/ \E p \in Requests : request'[p] = x
                      \/ turn[x].key \in Keys
                      \/ x \in hungUp'
    BY <1>1 DEF Wanted, Running
  <2> QED
    BY <1>0, <1>1, <1>2, <1>4 DEF Wanted, Running
<1>6. Callers'
  <2>1. CASE Respond(q) \/ HangUp(q)
    <3>1. /\ \A p \in Requests : request'[p] = (IF p = q THEN NoTurn ELSE request[p])
          /\ request[q] \in Turns
          /\ hungUp' = hungUp \/ (hungUp' = hungUp \cup {request[q]} /\ turn[request[q]].key = NoKey)
      BY <1>0, <2>1 DEF Respond, HangUp
    <3>2. \A p \in Requests : request'[p] \in Turns => turn[request'[p]].status # "unstarted"
      BY <1>0, <3>1 DEF Callers
    <3>3. \A x \in hungUp' : turn[x].key = NoKey /\ turn[x].status # "unstarted" /\ \A p \in Requests : request'[p] # x
      BY <1>0, <3>1 DEF Callers
    <3>4. \A p, r \in Requests : request'[p] \in Turns /\ request'[p] = request'[r] /\ turn[request'[p]].key = NoKey => p = r
      BY <1>0, <3>1 DEF Callers
    <3> QED
      BY <1>1, <3>2, <3>3, <3>4 DEF Callers
  <2>2. ASSUME NEW k \in Keys, Join(q, k) PROVE Callers'
    <3>1. PICK x \in Turns : request' = [request EXCEPT ![q] = x] /\ turn[x].key \in Keys /\ turn[x].status # "unstarted"
      <4>1. PICK x \in Remembered(k) : request' = [request EXCEPT ![q] = x]
        BY <2>2 DEF Join
      <4>2. PICK n \in DOMAIN keyedTurns : x \in Turns /\ keyedTurns[n] = [key |-> k, turn |-> x]
        BY DEF Remembered
      <4>3. keyedTurns[n].turn = x /\ keyedTurns[n].key = k
        BY <4>2
      <4>4. turn[x].key = k /\ turn[x].status \in {"running", "done"}
        BY <1>0, <4>3 DEF MapIsSound
      <4> QED
        BY <4>1, <4>2, <4>4
    <3>2. hungUp' = hungUp /\ turn' = turn /\ \A p \in Requests : request'[p] = (IF p = q THEN x ELSE request[p])
      BY <1>0, <2>2, <3>1 DEF Join
    <3>3. turn[x].key # NoKey
      BY <3>1 DEF KeyedTurnsAssumption
    <3> QED
      BY <1>0, <3>1, <3>2, <3>3 DEF Callers
  <2> QED
    BY <2>1, <2>2
<1> QED
  BY <1>0, <1>3, <1>5, <1>6 DEF KInv

\* The invariant is inductive.
LEMMA KeyedNext ==
    ASSUME KeyedTurnsAssumption, KInv, [Next]_vars
    PROVE  KInv'
<1>1. CASE Next
  BY <1>1, StartStep, SettleStep, RequestStep DEF Next
<1>2. CASE UNCHANGED vars
  BY <1>2 DEF vars, KInv, MapIsSound, TypeOK, Wanted, Callers, Running, UsedKeys, KeyedAtStart, AllRemembered
<1> QED
  BY <1>1, <1>2

\* Which part is at work is told by its name.
LEMMA PartNames ==
    /\ "simple" # "watchers" /\ "tree" # "watchers" /\ "claims" # "watchers" /\ "isolated" # "watchers" /\ "workers" # "watchers" /\ "async" # "watchers"
    /\ "keyed" # "watchers" /\ "labels" # "watchers" /\ "tables" # "watchers" /\ "vibe" # "watchers" /\ "remote" # "watchers"
    /\ "simple" # "workers" /\ "tree" # "workers" /\ "claims" # "workers" /\ "watchers" # "workers" /\ "isolated" # "workers" /\ "async" # "workers"
    /\ "keyed" # "workers" /\ "labels" # "workers" /\ "tables" # "workers" /\ "vibe" # "workers" /\ "remote" # "workers"
    /\ "simple" # "tables" /\ "tree" # "tables" /\ "claims" # "tables" /\ "watchers" # "tables" /\ "isolated" # "tables" /\ "workers" # "tables"
    /\ "async" # "tables" /\ "keyed" # "tables" /\ "labels" # "tables" /\ "vibe" # "tables" /\ "remote" # "tables"
OBVIOUS

\* A step of the composition is a step of each part, or leaves it alone; of two that
\* share their variables, only the one at work steps.
LEMMA AgentsApart ==
    ASSUME [AgentsNext]_agentVars
    PROVE  /\ [S!Next]_(S!loopVars) /\ [T!Next]_(T!treeVars) /\ [A!Next]_(A!vars) /\ [Next]_vars
           /\ [V!Next]_(V!vibeVars) /\ [M!Next]_(M!checkpointVars)
           /\ IF part = "watchers" THEN [W!Next]_(W!claimVars) ELSE [C!Next]_(C!claimVars)
           /\ IF part = "workers" THEN [D!Next]_(D!subVars) ELSE [I!Next]_(I!subVars)
           /\ IF part = "tables" THEN [R!Next]_(R!powerVars) ELSE [P!Next]_(P!powerVars)
           /\ part' = part
<1>1. ASSUME UNCHANGED agentVars PROVE UNCHANGED <<part, simple, treeSearch, claims, subAgents, async, vars, power, vibe, remote>>
  BY <1>1 DEF agentVars
<1>2. UNCHANGED simple => UNCHANGED S!loopVars
  BY DEF simple, S!loopVars, S!shared, S!work
<1>3. UNCHANGED treeSearch => UNCHANGED T!treeVars
  BY DEF treeSearch, T!treeVars
<1>4. UNCHANGED claims => UNCHANGED C!claimVars /\ UNCHANGED W!claimVars
  BY DEF claims, C!claimVars, W!claimVars
<1>5. UNCHANGED subAgents => UNCHANGED I!subVars /\ UNCHANGED D!subVars
  BY DEF subAgents, I!subVars, D!subVars
<1>6. UNCHANGED async => UNCHANGED A!vars
  BY DEF async, A!vars
<1>7. UNCHANGED power => UNCHANGED P!powerVars /\ UNCHANGED R!powerVars
  BY DEF power, P!powerVars, R!powerVars
<1>8. UNCHANGED vibe => UNCHANGED V!vibeVars
  BY DEF vibe, V!vibeVars
<1>9. UNCHANGED remote => UNCHANGED M!checkpointVars
  BY DEF remote, M!checkpointVars
<1>20. CASE UNCHANGED agentVars
  BY <1>1, <1>2, <1>3, <1>4, <1>5, <1>6, <1>7, <1>8, <1>9, <1>20, Zenon
<1>21. CASE Agents /\ UNCHANGED part
  <2>1. CASE part = "simple" /\ S!Next /\ UNCHANGED <<treeSearch, claims, subAgents, async, vars, power, vibe, remote>>
    BY <1>2, <1>3, <1>4, <1>5, <1>6, <1>7, <1>8, <1>9, <1>21, <2>1, PartNames, Zenon
  <2>2. CASE part = "tree" /\ T!Next /\ UNCHANGED <<simple, claims, subAgents, async, vars, power, vibe, remote>>
    BY <1>2, <1>3, <1>4, <1>5, <1>6, <1>7, <1>8, <1>9, <1>21, <2>2, PartNames, Zenon
  <2>3. CASE part = "claims" /\ C!Next /\ UNCHANGED <<simple, treeSearch, subAgents, async, vars, power, vibe, remote>>
    BY <1>2, <1>3, <1>4, <1>5, <1>6, <1>7, <1>8, <1>9, <1>21, <2>3, PartNames, Zenon
  <2>4. CASE part = "watchers" /\ W!Next /\ UNCHANGED <<simple, treeSearch, subAgents, async, vars, power, vibe, remote>>
    BY <1>2, <1>3, <1>4, <1>5, <1>6, <1>7, <1>8, <1>9, <1>21, <2>4, PartNames, Zenon
  <2>5. CASE part = "isolated" /\ I!Next /\ UNCHANGED <<simple, treeSearch, claims, async, vars, power, vibe, remote>>
    BY <1>2, <1>3, <1>4, <1>5, <1>6, <1>7, <1>8, <1>9, <1>21, <2>5, PartNames, Zenon
  <2>6. CASE part = "workers" /\ D!Next /\ UNCHANGED <<simple, treeSearch, claims, async, vars, power, vibe, remote>>
    BY <1>2, <1>3, <1>4, <1>5, <1>6, <1>7, <1>8, <1>9, <1>21, <2>6, PartNames, Zenon
  <2>7. CASE part = "async" /\ A!Next /\ UNCHANGED <<simple, treeSearch, claims, subAgents, vars, power, vibe, remote>>
    BY <1>2, <1>3, <1>4, <1>5, <1>6, <1>7, <1>8, <1>9, <1>21, <2>7, PartNames, Zenon
  <2>8. CASE part = "keyed" /\ Next /\ UNCHANGED <<simple, treeSearch, claims, subAgents, async, power, vibe, remote>>
    BY <1>2, <1>3, <1>4, <1>5, <1>6, <1>7, <1>8, <1>9, <1>21, <2>8, PartNames, Zenon
  <2>9. CASE part = "labels" /\ P!Next /\ UNCHANGED <<simple, treeSearch, claims, subAgents, async, vars, vibe, remote>>
    BY <1>2, <1>3, <1>4, <1>5, <1>6, <1>7, <1>8, <1>9, <1>21, <2>9, PartNames, Zenon
  <2>10. CASE part = "tables" /\ R!Next /\ UNCHANGED <<simple, treeSearch, claims, subAgents, async, vars, vibe, remote>>
    BY <1>2, <1>3, <1>4, <1>5, <1>6, <1>7, <1>8, <1>9, <1>21, <2>10, PartNames, Zenon
  <2>11. CASE part = "vibe" /\ V!Next /\ UNCHANGED <<simple, treeSearch, claims, subAgents, async, vars, power, remote>>
    BY <1>2, <1>3, <1>4, <1>5, <1>6, <1>7, <1>8, <1>9, <1>21, <2>11, PartNames, Zenon
  <2>12. CASE part = "remote" /\ M!Next /\ UNCHANGED <<simple, treeSearch, claims, subAgents, async, vars, power, vibe>>
    BY <1>2, <1>3, <1>4, <1>5, <1>6, <1>7, <1>8, <1>9, <1>21, <2>12, PartNames, Zenon
  <2> QED
    BY <1>21, <2>1, <2>2, <2>3, <2>4, <2>5, <2>6, <2>7, <2>8, <2>9, <2>10, <2>11, <2>12 DEF Agents
<1> QED
  BY <1>20, <1>21 DEF AgentsNext

\* Background tasks: a worker has steps left while it works, and of a cancelled
\* task only the one tool that was about to start.
InSteps == \A i \in Tasks :
    /\ task[i] = "absent" => worker[i].step = 0 /\ worker[i].awaits = "nothing"
    /\ worker[i].awaits \in {"llm", "tool"} => worker[i].step < MaxSteps
    /\ overrun[i] <= 1
    /\ overrun[i] = 1 => /\ worker[i].awaits # "llm" /\ task[i] # "absent"
                         /\ worker[i].awaits # "nothing" => task[i] = "cancelled"

AsyncInv == A!TypeOK /\ A!RunningIsLive /\ A!Admission /\ IsFiniteSet(A!Running) /\ InSteps

LEMMA AsyncStart == A!Init => AsyncInv
<1> SUFFICES ASSUME A!Init PROVE AsyncInv
  OBVIOUS
<1>1. A!TypeOK /\ InSteps /\ A!RunningIsLive
  BY AgentsConstants DEF A!Init, A!TypeOK, A!Status, InSteps, A!RunningIsLive
<1>2. A!Running = {}
  BY DEF A!Init, A!Running
<1> QED
  BY <1>1, <1>2, FS_EmptySet, AgentsConstants DEF AsyncInv, A!Admission, A!Cardinality, Cardinality

\* A step of one worker, which leaves the others alone.
LEMMA WorkerStep ==
    ASSUME AsyncInv, NEW i \in Tasks, NEW s \in A!Status, NEW a \in {"nothing", "llm", "tool", "summary"},
           NEW n \in 0..MaxSteps, NEW v \in {0, 1},
           task' = [task EXCEPT ![i] = s], worker' = [worker EXCEPT ![i] = [awaits |-> a, step |-> n]],
           overrun' = [overrun EXCEPT ![i] = v], listed' = listed,
           s # "absent", s = "running" => task[i] = "running" /\ a # "nothing",
           a \in {"llm", "tool"} => n < MaxSteps,
           v = 1 => a # "llm" /\ (a # "nothing" => s = "cancelled")
    PROVE  AsyncInv'
<1>0. /\ task \in [Tasks -> A!Status] /\ listed \subseteq Tasks /\ overrun \in [Tasks -> Nat]
      /\ worker \in [Tasks -> [awaits : {"nothing", "llm", "tool", "summary"}, step : 0 .. MaxSteps]]
      /\ A!RunningIsLive /\ A!Admission /\ IsFiniteSet(A!Running) /\ InSteps
  BY DEF AsyncInv, A!TypeOK
<1>1. /\ task'[i] = s /\ worker'[i] = [awaits |-> a, step |-> n] /\ overrun'[i] = v
      /\ \A j \in Tasks \ {i} : task'[j] = task[j] /\ worker'[j] = worker[j] /\ overrun'[j] = overrun[j]
  BY <1>0
<1>2. A!TypeOK'
  <2>1. task' \in [Tasks -> A!Status]
    BY <1>0
  <2>2. overrun' \in [Tasks -> Nat]
    BY <1>0
  <2>3. worker' \in [Tasks -> [awaits : {"nothing", "llm", "tool", "summary"}, step : 0 .. MaxSteps]]
    BY <1>0
  <2> QED
    BY <1>0, <2>1, <2>2, <2>3 DEF A!TypeOK
<1>3. A!RunningIsLive'
  BY <1>0, <1>1 DEF A!RunningIsLive, A!Live
<1>4. A!Running' \subseteq A!Running
  BY <1>0, <1>1 DEF A!Running
<1>5. IsFiniteSet(A!Running)' /\ A!Admission'
  <2>1. IsFiniteSet(A!Running') /\ Cardinality(A!Running') <= Cardinality(A!Running)
    BY <1>0, <1>4, FS_Subset
  <2>2. Cardinality(A!Running') \in Nat /\ Cardinality(A!Running) \in Nat
    BY <1>0, <2>1, FS_CardinalityType
  <2>3. A!Cardinality(A!Running) = Cardinality(A!Running) /\ A!Cardinality(A!Running') = Cardinality(A!Running')
    BY Zenon DEF A!Cardinality, Cardinality
  <2>4. Cardinality(A!Running) <= MaxConcurrent
    BY <1>0, <2>3 DEF A!Admission
  <2>5. Cardinality(A!Running') <= MaxConcurrent
    BY <2>1, <2>2, <2>4, AgentsConstants
  <2> QED
    BY <2>1, <2>3, <2>5 DEF A!Admission
<1>6. InSteps'
  <2> SUFFICES ASSUME NEW j \in Tasks
               PROVE  /\ task'[j] = "absent" => worker'[j].step = 0 /\ worker'[j].awaits = "nothing"
                      /\ worker'[j].awaits \in {"llm", "tool"} => worker'[j].step < MaxSteps
                      /\ overrun'[j] <= 1
                      /\ overrun'[j] = 1 => /\ worker'[j].awaits # "llm" /\ task'[j] # "absent"
                                            /\ worker'[j].awaits # "nothing" => task'[j] = "cancelled"
    BY DEF InSteps
  <2>1. CASE j = i
    BY <1>1, <2>1
  <2>2. CASE j # i
    BY <1>0, <1>1, <2>2 DEF InSteps
  <2> QED
    BY <2>1, <2>2
<1> QED
  BY <1>2, <1>3, <1>5, <1>6 DEF AsyncInv

LEMMA AsyncStep == AsyncInv /\ [A!Next]_(A!vars) => AsyncInv'
<1> SUFFICES ASSUME AsyncInv, [A!Next]_(A!vars) PROVE AsyncInv'
  OBVIOUS
<1>0. /\ task \in [Tasks -> A!Status] /\ listed \subseteq Tasks /\ overrun \in [Tasks -> Nat]
      /\ worker \in [Tasks -> [awaits : {"nothing", "llm", "tool", "summary"}, step : 0 .. MaxSteps]]
      /\ A!RunningIsLive /\ A!Admission /\ IsFiniteSet(A!Running) /\ InSteps /\ A!TypeOK
      /\ MaxSteps \in Nat /\ MaxConcurrent \in Nat
  BY AgentsConstants DEF AsyncInv, A!TypeOK
<1>01. /\ A!Status = {"absent", "running", "success", "error", "cancelled"}
       /\ \A i \in Tasks : /\ task[i] \in A!Status /\ overrun[i] \in {0, 1}
                           /\ worker[i].awaits \in {"nothing", "llm", "tool", "summary"} /\ worker[i].step \in 0..MaxSteps
                           /\ worker[i] = [awaits |-> worker[i].awaits, step |-> worker[i].step]
  BY <1>0 DEF A!Status, InSteps
<1>02. \A i \in Tasks : /\ task = [task EXCEPT ![i] = task[i]] /\ overrun = [overrun EXCEPT ![i] = overrun[i]]
                        /\ worker = [worker EXCEPT ![i] = [awaits |-> worker[i].awaits, step |-> worker[i].step]]
  BY <1>0, <1>01
<1>03. \A i \in Tasks : \A a : [worker EXCEPT ![i].awaits = a] = [worker EXCEPT ![i] = [awaits |-> a, step |-> worker[i].step]]
  <2>1. \A i \in Tasks : \A a : [worker[i] EXCEPT !.awaits = a] = [awaits |-> a, step |-> worker[i].step]
    <3> SUFFICES ASSUME NEW i \in Tasks, NEW a
                 PROVE  [worker[i] EXCEPT !.awaits = a] = [awaits |-> a, step |-> worker[i].step]
      OBVIOUS
    <3>1. worker[i] \in [awaits : {"nothing", "llm", "tool", "summary"}, step : 0 .. MaxSteps]
      BY <1>0
    <3> QED
      BY <3>1
  <2> QED
    BY <2>1
<1>04. \A i \in Tasks : /\ task[i] = "absent" => worker[i].step = 0 /\ worker[i].awaits = "nothing"
                        /\ worker[i].awaits \in {"llm", "tool"} => worker[i].step < MaxSteps
                        /\ overrun[i] = 1 => /\ worker[i].awaits # "llm" /\ task[i] # "absent"
                                             /\ worker[i].awaits # "nothing" => task[i] = "cancelled"
                        /\ task[i] = "running" => worker[i].awaits # "nothing" /\ i \in listed
  BY <1>0 DEF InSteps, A!RunningIsLive, A!Live
<1>1. ASSUME NEW i \in Tasks, A!StartTask(i) PROVE AsyncInv'
  <2> DEFINE first == IF MaxSteps = 0 THEN "summary" ELSE "llm"
  <2>0. first \in {"llm", "summary"} /\ (first = "llm" => 0 < MaxSteps)
    BY <1>0
  <2>00. task[i] = "absent" => A!AfterStep(i, 0) = first
    BY <1>0 DEF A!AfterStep
  <2> HIDE DEF first
  <2>1. /\ task[i] = "absent" /\ A!HasRoom /\ task' = [task EXCEPT ![i] = "running"]
        /\ listed' = listed \cup {i} /\ worker' = [worker EXCEPT ![i] = [awaits |-> first, step |-> worker[i].step]]
        /\ overrun' = overrun
    BY <1>1, <1>03, <2>00 DEF A!StartTask
  <2>2. A!TypeOK'
    <3>1. task' \in [Tasks -> A!Status] /\ listed' \subseteq Tasks
      BY <1>0, <1>01, <2>1
    <3>2. worker' \in [Tasks -> [awaits : {"nothing", "llm", "tool", "summary"}, step : 0 .. MaxSteps]]
      BY <1>0, <1>01, <2>0, <2>1
    <3> QED
      BY <1>0, <2>1, <3>1, <3>2 DEF A!TypeOK
  <2>30. worker[i].step = 0
    BY <1>04, <2>1
  <2>3. /\ task'[i] = "running" /\ worker'[i] = [awaits |-> first, step |-> 0]
        /\ \A j \in Tasks \ {i} : task'[j] = task[j] /\ worker'[j] = worker[j]
    BY <1>0, <2>1, <2>30
  <2>4. A!RunningIsLive'
    BY <1>04, <2>0, <2>1, <2>3 DEF A!RunningIsLive, A!Live
  <2>5. InSteps'
    BY <1>0, <1>01, <1>04, <2>0, <2>1, <2>3 DEF InSteps
  <2>6. A!Running' = A!Running \cup {i}
    BY <1>0, <2>1, <2>3 DEF A!Running
  <2>7. IsFiniteSet(A!Running') /\ Cardinality(A!Running') <= Cardinality(A!Running) + 1
    <3>1. /\ IsFiniteSet(A!Running \cup {i})
          /\ Cardinality(A!Running \cup {i}) = (IF i \in A!Running THEN Cardinality(A!Running) ELSE Cardinality(A!Running) + 1)
      BY <1>0, FS_AddElement
    <3>2. Cardinality(A!Running) \in Nat
      BY <1>0, FS_CardinalityType
    <3> QED
      BY <2>6, <3>1, <3>2
  <2>8. A!Admission'
    <3>1. A!Cardinality(A!Running) = Cardinality(A!Running) /\ A!Cardinality(A!Running') = Cardinality(A!Running')
      BY Zenon DEF A!Cardinality, Cardinality
    <3>2. Cardinality(A!Running) < MaxConcurrent
      BY <2>1, <3>1 DEF A!HasRoom
    <3>3. Cardinality(A!Running) \in Nat /\ Cardinality(A!Running') \in Nat
      BY <1>0, <2>7, FS_CardinalityType
    <3>4. Cardinality(A!Running') <= MaxConcurrent
      BY <1>0, <2>7, <3>2, <3>3
    <3> QED
      BY <3>1, <3>4 DEF A!Admission
  <2> QED
    BY <2>2, <2>4, <2>5, <2>7, <2>8 DEF AsyncInv
<1>2. ASSUME NEW i \in Tasks, A!CancelTask(i) PROVE AsyncInv'
  <2>1. /\ task[i] = "running" /\ task' = [task EXCEPT ![i] = "cancelled"]
        /\ worker' = [worker EXCEPT ![i] = [awaits |-> worker[i].awaits, step |-> worker[i].step]]
        /\ overrun' = [overrun EXCEPT ![i] = overrun[i]] /\ listed' = listed
    BY <1>02, <1>2 DEF A!CancelTask, A!Running
  <2> QED
    BY <1>01, <1>04, <2>1, WorkerStep
<1>3. ASSUME NEW i \in Tasks, A!CallTool(i) PROVE AsyncInv'
  <2> DEFINE v == IF task[i] = "cancelled" THEN overrun[i] + 1 ELSE overrun[i]
  <2>1. /\ worker[i].awaits = "llm" /\ task' = [task EXCEPT ![i] = task[i]]
        /\ worker' = [worker EXCEPT ![i] = [awaits |-> "tool", step |-> worker[i].step]]
        /\ overrun' = [overrun EXCEPT ![i] = v] /\ listed' = listed
    BY <1>0, <1>02, <1>03, <1>3 DEF A!CallTool
  <2>2. v \in {0, 1} /\ (v = 1 => task[i] = "cancelled")
    <3>1. overrun[i] = 0
      BY <1>01, <1>04, <2>1
    <3> QED
      BY <3>1
  <2> QED
    BY <1>01, <1>04, <2>1, <2>2, WorkerStep
<1>4. ASSUME NEW i \in Tasks, A!StepOver(i) PROVE AsyncInv'
  <2> DEFINE n == worker[i].step + 1
             a == A!AfterStep(i, n)
  <2>1. /\ worker[i].awaits \in {"llm", "tool"} /\ task' = [task EXCEPT ![i] = task[i]]
        /\ worker' = [worker EXCEPT ![i] = [awaits |-> a, step |-> n]]
        /\ overrun' = [overrun EXCEPT ![i] = overrun[i]] /\ listed' = listed
    BY <1>02, <1>4 DEF A!StepOver, A!NextStep
  <2>2. n \in 0..MaxSteps
    BY <1>0, <1>01, <1>04, <2>1
  <2>3. /\ a \in {"nothing", "llm", "summary"} /\ (a = "llm" => n # MaxSteps /\ task[i] # "cancelled")
        /\ a = "nothing" => task[i] = "cancelled"
    BY DEF A!AfterStep
  <2> HIDE DEF a, n
  <2>4. a \in {"llm", "tool"} => n < MaxSteps
    BY <1>0, <2>2, <2>3
  <2> QED
    BY <1>01, <1>04, <2>1, <2>2, <2>3, <2>4, WorkerStep
<1>5. ASSUME NEW i \in Tasks, A!Succeed(i) \/ A!Throw(i) PROVE AsyncInv'
  <2>1. PICK s \in {"success", "error"} :
            /\ worker[i].awaits # "nothing" /\ task' = [task EXCEPT ![i] = s]
            /\ worker' = [worker EXCEPT ![i] = [awaits |-> "nothing", step |-> worker[i].step]]
            /\ overrun' = [overrun EXCEPT ![i] = overrun[i]] /\ listed' = listed
    BY <1>02, <1>03, <1>5 DEF A!Succeed, A!Throw, A!Finish, A!Live
  <2> QED
    BY <1>01, <1>04, <2>1, WorkerStep
<1>6. ASSUME A!Evict PROVE AsyncInv'
  <2>1. PICK old \in SUBSET (listed \ A!Running) : listed' = listed \ old /\ UNCHANGED <<task, worker, overrun>>
    BY <1>6 DEF A!Evict
  <2>2. A!Running' = A!Running /\ listed' \subseteq listed
    BY <2>1 DEF A!Running
  <2>3. A!TypeOK'
    BY <1>0, <2>1, <2>2 DEF A!TypeOK
  <2>4. A!RunningIsLive'
    BY <1>0, <2>1 DEF A!RunningIsLive, A!Live, A!Running
  <2>5. InSteps'
    BY <1>0, <2>1 DEF InSteps
  <2> QED
    BY <1>0, <2>2, <2>3, <2>4, <2>5 DEF AsyncInv, A!Admission
<1>7. CASE UNCHANGED A!vars
  <2>1. UNCHANGED <<task, listed, worker, overrun>>
    BY <1>7 DEF A!vars
  <2>2. A!Running' = A!Running
    BY <2>1 DEF A!Running
  <2>3. A!TypeOK' /\ A!RunningIsLive' /\ InSteps'
    BY <1>0, <2>1 DEF A!TypeOK, A!RunningIsLive, A!Live, InSteps
  <2> QED
    BY <1>0, <2>2, <2>3 DEF AsyncInv, A!Admission
<1> QED
  BY <1>1, <1>2, <1>3, <1>4, <1>5, <1>6, <1>7 DEF A!Next, A!Work

LEMMA AsyncSound == AsyncInv => A!TypeOK /\ A!Admission /\ A!CancelTakesHold /\ A!RunningIsLive
BY DEF AsyncInv, InSteps, A!CancelTakesHold

\* The stand-alone agent: what it has of calls, of its signal and of its end.
LoopMessage == [role : {"text", "summary", "assistant", "tool"}, calls : Nat]

LoopCalls == S!Registered \cup {"find", "none"}

LoopTyped ==
    /\ native \in BOOLEAN /\ count \in Nat /\ begun \in Nat /\ next \in Nat \ {0} /\ IsFiniteSet(flying)
    /\ loopTurn \in Seq(LoopCalls) /\ Len(loopTurn) <= LargestBatch
    /\ rounds \in Nat /\ messages \in Seq(LoopMessage)
    /\ pc = "compacting" => Len(messages) > KeepRecent

Counted ==
    /\ begun = count + Cardinality(flying) + (IF ~native /\ pc = "tools" THEN 1 ELSE 0)
    /\ (native /\ pc = "tools") \/ flying = {}
    /\ S!CapHolds

Stopped ==
    /\ late \in {0, 1}
    /\ late = 1 => "own" \in aborted /\ (signal = "own" => pc # "compacting")
    /\ stop # "none" => pc = "over"
    /\ stop = "aborted" => signal \in aborted
    /\ native /\ stop = "done" => verdict \in {"met", "failed"} \/ rounds >= MaxVerifyRounds
    /\ stop = "error" => errors

\* Until a summary has taken the place of turns, every turn but the one at work has
\* its results.
Transcribed ==
    ~summarized /\ stop # "thrown" =>
        IF native /\ pc = "tools"
        THEN \E m \in Seq(LoopMessage) :
                 S!Paired(m) /\ messages = Append(m, S!Asks(Len(loopTurn)))
        ELSE S!Paired(messages)

LoopInv == LoopTyped /\ Counted /\ Stopped /\ Transcribed

LEMMA LoopStart == S!Init => LoopInv
<1> SUFFICES ASSUME S!Init PROVE LoopInv
  OBVIOUS
<1>1. LoopTyped
  BY FS_EmptySet, AgentsConstants DEF S!Init, LoopTyped
<1>2. Counted
  BY FS_EmptySet, AgentsConstants DEF S!Init, Counted, S!CapHolds
<1>3. Stopped
  BY DEF S!Init, Stopped
<1>4. Transcribed
  BY DEF S!Init, Transcribed, S!Paired
<1> QED
  BY <1>1, <1>2, <1>3, <1>4 DEF LoopInv

\* The calls that run at once are of the turn.
LEMMA BatchIs ==
    ASSUME LoopTyped, next <= Len(loopTurn)
    PROVE  /\ IsFiniteSet(S!Batch(next)) /\ Cardinality(S!Batch(next)) \in Nat
           /\ Cardinality(S!Batch(next)) <= LargestBatch /\ Cardinality(S!Batch(next)) >= 1
<1>0. /\ next \in Nat \ {0} /\ loopTurn \in Seq(LoopCalls) /\ Len(loopTurn) \in Nat /\ Len(loopTurn) <= LargestBatch
      /\ LargestBatch \in Nat
  BY AgentsConstants DEF LoopTyped
<1>1. S!Batch(next) \subseteq 1..Len(loopTurn)
  BY <1>0 DEF S!Batch
<1>2. next \in S!Batch(next)
  BY <1>0 DEF S!Batch
<1>3. IsFiniteSet(1..Len(loopTurn)) /\ Cardinality(1..Len(loopTurn)) = Len(loopTurn)
  <2>1. Len(loopTurn) >= 1
    BY <1>0
  <2>2. IsFiniteSet(1..Len(loopTurn)) /\ Cardinality(1..Len(loopTurn)) = Len(loopTurn)
    <3>1. 1 \in Int /\ Len(loopTurn) \in Int /\ ~(1 > Len(loopTurn)) /\ Len(loopTurn) - 1 + 1 = Len(loopTurn)
      BY <1>0, <2>1
    <3> QED
      BY <3>1, FS_Interval
  <2> QED
    BY <2>2
<1>4. IsFiniteSet(S!Batch(next)) /\ Cardinality(S!Batch(next)) <= Len(loopTurn)
  BY <1>1, <1>3, FS_Subset
<1>5. Cardinality(S!Batch(next)) \in Nat /\ Cardinality(S!Batch(next)) # 0
  BY <1>2, <1>4, FS_CardinalityType, FS_EmptySet
<1> QED
  BY <1>0, <1>4, <1>5

LEMMA LoopTypedStep == LoopInv /\ S!Next => LoopTyped'
<1> SUFFICES ASSUME LoopInv, S!Next PROVE LoopTyped'
  OBVIOUS
<1>0. /\ native \in BOOLEAN /\ count \in Nat /\ begun \in Nat /\ next \in Nat \ {0} /\ IsFiniteSet(flying)
      /\ loopTurn \in Seq(LoopCalls) /\ Len(loopTurn) <= LargestBatch /\ rounds \in Nat /\ messages \in Seq(LoopMessage)
      /\ pc = "compacting" => Len(messages) > KeepRecent
      /\ KeepRecent \in Nat /\ LargestBatch \in Nat \ {0}
      /\ \A asked \in LoopTurns : asked \in Seq(LoopCalls) /\ Len(asked) \in Nat /\ Len(asked) <= LargestBatch
  BY AgentsConstants DEF LoopInv, LoopTyped, LoopCalls
<1>01. /\ <<>> \in Seq(LoopMessage) /\ <<S!Text>> \in Seq(LoopMessage) /\ <<S!Text, S!Text>> \in Seq(LoopMessage) /\ <<S!Summary>> \in Seq(LoopMessage)
       /\ S!Result \in LoopMessage /\ \A n \in Nat : S!Asks(n) \in LoopMessage
  BY DEF S!Text, S!Summary, S!Asks, S!Result, LoopMessage
<1>02. \A a, b \in Seq(LoopMessage) : a \o b \in Seq(LoopMessage)
  OBVIOUS
<1>1. ASSUME S!Top PROVE LoopTyped'
  BY <1>0, <1>1 DEF LoopTyped, S!Top, S!shared, S!work, S!Over, S!Again
<1>2. ASSUME S!Compacted PROVE LoopTyped'
  <2>1. /\ messages' = messages \/ messages' = <<S!Summary>> \o S!Recent(messages)
        /\ UNCHANGED <<native, count, begun, next, flying, loopTurn, rounds>>
        /\ pc = "compacting" /\ pc' = "model"
    BY <1>2 DEF S!Compacted, S!shared, S!work
  <2>2. S!Recent(messages) \in Seq(LoopMessage)
    <3> DEFINE lo == Len(messages) - KeepRecent + 1
    <3>1. lo \in Nat /\ lo >= 1 /\ lo <= Len(messages) + 1 /\ Len(messages) \in Nat
      BY <1>0, <2>1
    <3>2. S!Recent(messages) = SubSeq(messages, lo, Len(messages))
      BY DEF S!Recent
    <3> HIDE DEF lo
    <3>3. lo \in Int /\ Len(messages) \in Int /\ \A i \in lo..Len(messages) : messages[i] \in LoopMessage
      BY <1>0, <3>1
    <3>4. SubSeq(messages, lo, Len(messages)) \in Seq(LoopMessage)
      BY <3>3, SubSeqProperties
    <3> QED
      BY <3>2, <3>4
  <2> QED
    BY <1>0, <1>01, <1>02, <2>1, <2>2 DEF LoopTyped
<1>3. ASSUME S!Fails PROVE LoopTyped'
  BY <1>0, <1>3 DEF LoopTyped, S!Fails, S!shared, S!work, S!Over, S!Again
<1>4. ASSUME S!SpendsTheRest PROVE LoopTyped'
  BY <1>0, <1>4 DEF LoopTyped, S!SpendsTheRest, S!shared, S!work, S!Over, S!Again
<1>5. ASSUME S!Declines PROVE LoopTyped'
  BY <1>0, <1>5 DEF LoopTyped, S!Declines, S!shared, S!work, S!Over, S!Again
<1>6. ASSUME S!Stops PROVE LoopTyped'
  BY <1>0, <1>6 DEF LoopTyped, S!Stops, S!shared, S!work, S!Over, S!Again
<1>7. ASSUME S!Verified PROVE LoopTyped'
  <2>1. /\ messages' = messages \/ messages' = messages \o <<S!Text, S!Text>>
        /\ rounds' \in {rounds, rounds + 1}
        /\ UNCHANGED <<native, count, begun, next, flying, loopTurn>>
        /\ pc' # "compacting"
    BY <1>7 DEF S!Verified, S!shared, S!work, S!Over, S!Again
  <2>2. messages' \in Seq(LoopMessage)
    BY <1>0, <1>01, <1>02, <2>1
  <2>3. rounds' \in Nat
    BY <1>0, <2>1
  <2> QED
    BY <1>0, <2>1, <2>2, <2>3 DEF LoopTyped
<1>8. ASSUME NEW asked \in LoopTurns, S!Truncates(asked) PROVE LoopTyped'
  <2>1. /\ messages' = messages \/ messages' = messages \o <<S!Text, S!Text>>
        /\ UNCHANGED <<native, count, begun, next, flying, loopTurn, rounds>>
        /\ pc' # "compacting"
    BY <1>8 DEF S!Truncates, S!CutOff, S!shared, S!work, S!Over, S!Again
  <2> QED
    BY <1>0, <1>01, <1>02, <2>1 DEF LoopTyped
<1>9. ASSUME NEW asked \in LoopTurns, S!AsksForTools(asked) PROVE LoopTyped'
  <2>1. /\ messages' = Append(messages, S!Asks(Len(asked))) /\ loopTurn' = asked /\ next' = 1 /\ pc' = "tools"
        /\ UNCHANGED <<native, count, begun, flying, rounds>>
    BY <1>9 DEF S!AsksForTools, S!shared
  <2>2. messages' \in Seq(LoopMessage)
    BY <1>0, <1>01, <2>1
  <2> QED
    BY <1>0, <2>1, <2>2 DEF LoopTyped
<1>10. ASSUME S!BeginBatch PROVE LoopTyped'
  <2>1. /\ next' = next + S!Cardinality(S!Batch(next)) /\ next <= Len(loopTurn) /\ flying = {}
        /\ \/ flying' = flying /\ begun' = begun
           \/ flying' \subseteq S!Batch(next) /\ begun' = begun + S!Cardinality(flying')
        /\ UNCHANGED <<native, count, loopTurn, rounds, messages, pc>>
    BY <1>10 DEF S!BeginBatch
  <2>2. IsFiniteSet(S!Batch(next)) /\ Cardinality(S!Batch(next)) \in Nat
    BY <2>1, BatchIs DEF LoopInv
  <2>3. IsFiniteSet(flying') /\ Cardinality(flying') \in Nat
    BY <1>0, <2>1, <2>2, FS_Subset, FS_CardinalityType
  <2>4. S!Cardinality(S!Batch(next)) = Cardinality(S!Batch(next)) /\ S!Cardinality(flying') = Cardinality(flying')
    BY Zenon DEF S!Cardinality, Cardinality
  <2>5. next' \in Nat \ {0} /\ begun' \in Nat
    BY <1>0, <2>1, <2>2, <2>3, <2>4
  <2> QED
    BY <1>0, <2>1, <2>3, <2>5 DEF LoopTyped
<1>11. ASSUME S!BatchesOver PROVE LoopTyped'
  <2>1. PICK note \in {<<>>, <<S!Text>>} : messages' = messages \o S!Results \o note
    BY <1>11 DEF S!BatchesOver
  <2>2. loopTurn' = <<>> /\ next' = 1 /\ pc' # "compacting" /\ UNCHANGED <<native, count, begun, flying, rounds>>
    BY <1>11 DEF S!BatchesOver, S!shared, S!Over, S!Again
  <2>3. S!Results \in Seq(LoopMessage)
    BY <1>0, <1>01 DEF S!Results
  <2>4. messages' \in Seq(LoopMessage)
    BY <1>0, <1>01, <1>02, <2>1, <2>3
  <2>5. loopTurn' \in Seq(LoopCalls) /\ Len(loopTurn') = 0
    BY <2>2
  <2> QED
    BY <1>0, <2>2, <2>4, <2>5 DEF LoopTyped
<1>12. ASSUME NEW i \in flying, S!ToolAnswers(i) PROVE LoopTyped'
  <2>1. flying' = flying \ {i} /\ count' = count + 1 /\ UNCHANGED <<native, begun, next, loopTurn, rounds, messages, pc>>
    BY <1>12 DEF S!ToolAnswers
  <2>2. IsFiniteSet(flying')
    BY <1>0, <2>1, FS_RemoveElement
  <2> QED
    BY <1>0, <2>1, <2>2 DEF LoopTyped
<1>13. ASSUME S!JsonDone PROVE LoopTyped'
  BY <1>0, <1>13 DEF LoopTyped, S!JsonDone, S!shared, S!work, S!Over, S!Again
<1>14. ASSUME S!JsonTalk PROVE LoopTyped'
  BY <1>0, <1>14 DEF LoopTyped, S!JsonTalk, S!shared, S!work, S!Over, S!Again
<1>15. ASSUME S!JsonFind PROVE LoopTyped'
  BY <1>0, <1>15 DEF LoopTyped, S!JsonFind, S!shared, S!work, S!Over, S!Again
<1>21. ASSUME S!Throws PROVE LoopTyped'
  <2>1. /\ flying' = {} /\ count' = begun /\ pc' # "compacting"
        /\ UNCHANGED <<native, begun, next, loopTurn, rounds, messages>>
    BY <1>21 DEF S!Throws, S!Over
  <2>2. IsFiniteSet(flying')
    BY <2>1, FS_EmptySet
  <2> QED
    BY <1>0, <2>1, <2>2 DEF LoopTyped
<1>16. ASSUME S!JsonAnswered PROVE LoopTyped'
  <2>1. count' = count + 1 /\ loopTurn' = <<>> /\ UNCHANGED <<native, begun, next, flying, rounds, messages>> /\ pc' # "compacting"
    BY <1>16 DEF S!JsonAnswered, S!shared, S!Over, S!Again
  <2>2. loopTurn' \in Seq(LoopCalls) /\ Len(loopTurn') = 0
    BY <2>1
  <2> QED
    BY <1>0, <2>1, <2>2 DEF LoopTyped
<1>17. ASSUME NEW call \in S!Registered, S!JsonTool(call) PROVE LoopTyped'
  <2>1. /\ UNCHANGED <<native, count, next, flying, rounds, messages>>
        /\ loopTurn' = loopTurn \/ loopTurn' = <<call>>
        /\ begun' = begun \/ begun' = begun + 1
        /\ pc' # "compacting"
    BY <1>17 DEF S!JsonTool, S!shared, S!Over
  <2>2. call \in LoopCalls
    BY DEF LoopCalls
  <2>3. <<call>> \in Seq(LoopCalls) /\ Len(<<call>>) = 1
    BY <2>2
  <2>4. loopTurn' \in Seq(LoopCalls) /\ Len(loopTurn') <= LargestBatch
    <3>1. CASE loopTurn' = loopTurn
      BY <1>0, <3>1
    <3>2. CASE loopTurn' = <<call>>
      <4>1. Len(loopTurn') = 1 /\ LargestBatch \in Nat \ {0}
        BY <1>0, <2>3, <3>2
      <4> QED
        BY <2>3, <3>2, <4>1
    <3> QED
      BY <2>1, <3>1, <3>2
  <2>5. begun' \in Nat
    BY <1>0, <2>1
  <2>6. /\ native' \in BOOLEAN /\ count' \in Nat /\ next' \in Nat \ {0} /\ IsFiniteSet(flying')
        /\ rounds' \in Nat /\ messages' \in Seq(LoopMessage)
    BY <1>0, <2>1
  <2> QED
    BY <2>1, <2>4, <2>5, <2>6 DEF LoopTyped
<1>18. ASSUME S!NeighbourRuns PROVE LoopTyped'
  BY <1>0, <1>18 DEF LoopTyped, S!NeighbourRuns, S!shared, S!work, S!Over, S!Again
<1>19. ASSUME S!NeighbourFinds PROVE LoopTyped'
  BY <1>0, <1>19 DEF LoopTyped, S!NeighbourFinds, S!shared, S!work, S!Over, S!Again
<1>20. ASSUME NEW who \in {"own", "neighbour"}, S!Abort(who) PROVE LoopTyped'
  BY <1>0, <1>20 DEF LoopTyped, S!Abort, S!shared, S!work, S!Over, S!Again
<1> QED
  BY <1>1, <1>2, <1>3, <1>4, <1>5, <1>6, <1>7, <1>8, <1>9, <1>10, <1>11, <1>12, <1>13, <1>14, <1>15, <1>16, <1>17, <1>18, <1>19, <1>20, <1>21 DEF S!Next, S!Advance, S!Outside

\* A batch begins only under the cap, and its calls are its own.
LEMMA LoopCountedStep == LoopInv /\ S!Next => Counted'
<1> SUFFICES ASSUME LoopInv, S!Next PROVE Counted'
  OBVIOUS
<1>0. /\ native \in BOOLEAN /\ count \in Nat /\ begun \in Nat /\ IsFiniteSet(flying)
      /\ begun = count + Cardinality(flying) + (IF ~native /\ pc = "tools" THEN 1 ELSE 0)
      /\ (native /\ pc = "tools") \/ flying = {}
      /\ begun <= MaxToolCalls + (IF native THEN LargestBatch - 1 ELSE 0)
      /\ Cardinality(flying) \in Nat /\ Cardinality({}) = 0
      /\ MaxToolCalls \in Nat /\ LargestBatch \in Nat \ {0}
  BY AgentsConstants, FS_CardinalityType, FS_EmptySet DEF LoopInv, LoopTyped, Counted, S!CapHolds
<1>1. ASSUME UNCHANGED <<native, count, begun, flying>>, (~native \/ flying = {}) => (native = (native /\ TRUE)),
             pc = "tools" <=> pc' = "tools"
      PROVE  Counted'
  BY <1>0, <1>1 DEF Counted, S!CapHolds
<1>2. ASSUME UNCHANGED <<native, count, begun, flying>>, flying = {}, native \/ (pc # "tools" /\ pc' # "tools") PROVE Counted'
  BY <1>0, <1>2 DEF Counted, S!CapHolds
<1>3. ASSUME S!Top \/ S!Compacted \/ S!Fails \/ S!SpendsTheRest \/ S!Declines \/ S!Stops \/ S!Verified PROVE Counted'
  <2>1. UNCHANGED <<native, count, begun, flying>> /\ pc # "tools" /\ pc' # "tools"
    BY <1>3 DEF S!Top, S!Compacted, S!Fails, S!SpendsTheRest, S!Declines, S!Stops, S!Verified, S!shared, S!work, S!Over, S!Again
  <2> QED
    BY <1>0, <1>2, <2>1
<1>4. ASSUME NEW asked \in LoopTurns, S!Truncates(asked) PROVE Counted'
  <2>1. UNCHANGED <<native, count, begun, flying>> /\ pc # "tools" /\ pc' # "tools"
    BY <1>4 DEF S!Truncates, S!shared, S!work, S!Over, S!Again
  <2> QED
    BY <1>0, <1>2, <2>1
<1>5. ASSUME NEW asked \in LoopTurns, S!AsksForTools(asked) PROVE Counted'
  <2>1. UNCHANGED <<native, count, begun, flying>> /\ pc # "tools" /\ native
    BY <1>5 DEF S!AsksForTools, S!shared
  <2> QED
    BY <1>0, <1>2, <2>1
<1>6. ASSUME S!BeginBatch PROVE Counted'
  <2>1. pc = "tools" /\ native /\ flying = {} /\ next <= Len(loopTurn) /\ UNCHANGED <<native, pc, count>>
    BY <1>6 DEF S!BeginBatch
  <2>2. CASE flying' = flying /\ begun' = begun
    BY <1>0, <2>1, <2>2 DEF Counted, S!CapHolds
  <2>3. CASE ~(flying' = flying /\ begun' = begun)
    <3>1. /\ flying' \subseteq S!Batch(next) /\ begun' = begun + S!Cardinality(flying')
          /\ flying' # {} => count < MaxToolCalls
      <4> DEFINE runs == IF capped \/ S!AtCap THEN {} ELSE {i \in S!Batch(next) : S!MayCall(loopTurn[i])}
      <4>1. flying' = runs /\ begun' = begun + S!Cardinality(runs)
        BY <1>6, <2>3 DEF S!BeginBatch
      <4>2. runs \subseteq S!Batch(next) /\ (runs # {} => ~S!AtCap)
        OBVIOUS
      <4> HIDE DEF runs
      <4> QED
        BY <1>0, <4>1, <4>2 DEF S!AtCap
    <3>2. IsFiniteSet(S!Batch(next)) /\ Cardinality(S!Batch(next)) \in Nat /\ Cardinality(S!Batch(next)) <= LargestBatch
      BY <2>1, BatchIs DEF LoopInv
    <3>3. IsFiniteSet(flying') /\ Cardinality(flying') \in Nat /\ Cardinality(flying') <= LargestBatch
      BY <1>0, <3>1, <3>2, FS_Subset, FS_CardinalityType
    <3>4. S!Cardinality(flying') = Cardinality(flying')
      BY Zenon DEF S!Cardinality, Cardinality
    <3>5. begun = count /\ begun' = count + Cardinality(flying')
      <4>1. begun = count
        BY <1>0, <2>1
      <4>2. begun' = begun + Cardinality(flying')
        BY <3>1, <3>4
      <4> QED
        BY <4>1, <4>2
    <3>6. begun' <= MaxToolCalls + LargestBatch - 1
      <4>1. CASE flying' = {}
        BY <1>0, <2>1, <3>5, <4>1
      <4>2. CASE flying' # {}
        BY <1>0, <3>1, <3>3, <3>5, <4>2
      <4> QED
        BY <4>1, <4>2
    <3> QED
      BY <1>0, <2>1, <3>3, <3>5, <3>6 DEF Counted, S!CapHolds
  <2> QED
    BY <2>2, <2>3
<1>7. ASSUME S!BatchesOver PROVE Counted'
  <2>1. UNCHANGED <<native, count, begun, flying>> /\ flying = {} /\ native
    BY <1>7 DEF S!BatchesOver, S!shared
  <2> QED
    BY <1>0, <1>2, <2>1
<1>8. ASSUME NEW i \in flying, S!ToolAnswers(i) PROVE Counted'
  <2>1. flying' = flying \ {i} /\ count' = count + 1 /\ pc = "tools" /\ native /\ UNCHANGED <<native, begun, pc>>
    BY <1>8 DEF S!ToolAnswers
  <2>2. Cardinality(flying') = Cardinality(flying) - 1
    BY <1>0, <2>1, FS_RemoveElement
  <2> QED
    BY <1>0, <2>1, <2>2 DEF Counted, S!CapHolds
<1>9. ASSUME S!JsonDone \/ S!JsonTalk \/ S!JsonFind PROVE Counted'
  <2>1. UNCHANGED <<native, count, begun, flying>> /\ pc # "tools" /\ pc' # "tools"
    BY <1>9 DEF S!JsonDone, S!JsonTalk, S!JsonFind, S!shared, S!work, S!Over, S!Again
  <2> QED
    BY <1>0, <1>2, <2>1
<1>10. ASSUME S!JsonAnswered PROVE Counted'
  <2>1. pc = "tools" /\ ~native /\ count' = count + 1 /\ pc' # "tools" /\ UNCHANGED <<native, begun, flying>>
    BY <1>10 DEF S!JsonAnswered, S!shared, S!Over, S!Again
  <2> QED
    BY <1>0, <2>1 DEF Counted, S!CapHolds
<1>11. ASSUME NEW call \in S!Registered, S!JsonTool(call) PROVE Counted'
  <2>1. pc = "model" /\ ~native /\ UNCHANGED <<native, count, flying>>
    BY <1>11 DEF S!JsonTool, S!shared
  <2>2. CASE begun' = begun /\ pc' = "over"
    BY <1>0, <2>1, <2>2 DEF Counted, S!CapHolds
  <2>3. CASE ~(begun' = begun /\ pc' = "over")
    <3>1. begun' = begun + 1 /\ pc' = "tools" /\ count < MaxToolCalls
      BY <1>0, <1>11, <2>3 DEF S!JsonTool, S!AtCap, S!Over
    <3> QED
      BY <1>0, <2>1, <3>1 DEF Counted, S!CapHolds
  <2> QED
    BY <2>2, <2>3
<1>12. ASSUME S!Outside PROVE Counted'
  <2>1. UNCHANGED <<native, count, begun, flying, pc>>
    BY <1>12 DEF S!Outside, S!NeighbourRuns, S!NeighbourFinds, S!Abort, S!work
  <2> QED
    BY <1>0, <1>1, <2>1
<1>13. ASSUME S!Throws PROVE Counted'
  <2>1. flying' = {} /\ count' = begun /\ pc' = "over" /\ UNCHANGED <<native, begun>>
    BY <1>13 DEF S!Throws, S!Over
  <2> QED
    BY <1>0, <2>1 DEF Counted, S!CapHolds
<1> QED
  BY <1>3, <1>4, <1>5, <1>6, <1>7, <1>8, <1>9, <1>10, <1>11, <1>12, <1>13 DEF S!Next, S!Advance

\* How the run ended is what it ended for.
LEMMA LoopStoppedStep == LoopInv /\ S!Next => Stopped'
<1> SUFFICES ASSUME LoopInv, S!Next PROVE Stopped'
  OBVIOUS
<1>0. /\ late \in {0, 1} /\ rounds \in Nat /\ MaxVerifyRounds \in Nat
      /\ late = 1 => "own" \in aborted /\ (signal = "own" => pc # "compacting")
      /\ stop # "none" => pc = "over"
      /\ stop = "aborted" => signal \in aborted
      /\ native /\ stop = "done" => verdict \in {"met", "failed"} \/ rounds >= MaxVerifyRounds
      /\ stop = "error" => errors
  BY AgentsConstants DEF LoopInv, LoopTyped, Stopped
<1>1. ASSUME S!Top PROVE Stopped'
  <2>1. CASE S!Aborted
    BY <1>0, <1>1, <2>1 DEF Stopped, S!Top, S!shared, S!work, S!Over, S!Aborted
  <2>2. CASE ~S!Aborted
    BY <1>0, <1>1, <2>2 DEF Stopped, S!Top, S!shared, S!work, S!Over, S!Aborted
  <2> QED
    BY <2>1, <2>2
<1>2. ASSUME S!Compacted PROVE Stopped'
  BY <1>0, <1>2 DEF Stopped, S!Compacted, S!shared, S!work
<1>3. ASSUME S!Fails PROVE Stopped'
  BY <1>0, <1>3 DEF Stopped, S!Fails, S!shared, S!work, S!Over, S!Aborted
<1>4. ASSUME S!SpendsTheRest \/ S!Declines PROVE Stopped'
  BY <1>0, <1>4 DEF Stopped, S!SpendsTheRest, S!Declines, S!shared, S!work, S!Over
<1>5. ASSUME S!Stops PROVE Stopped'
  BY <1>0, <1>5 DEF Stopped, S!Stops, S!shared, S!work, S!Over, S!ChecksGoal
<1>6. ASSUME S!Verified PROVE Stopped'
  <2>1. /\ stop = "none" /\ UNCHANGED <<native, late, signal, aborted, errors>> /\ pc' # "compacting"
        /\ \/ stop' = "none"
           \/ stop' = "max_iterations" /\ pc' = "over"
           \/ stop' = "done" /\ pc' = "over" /\ verdict' \in {"met", "failed"}
    BY <1>0, <1>6 DEF S!Verified, S!Passes, S!shared, S!Over, S!Again
  <2> QED
    BY <1>0, <2>1 DEF Stopped
<1>7. ASSUME NEW asked \in LoopTurns, S!Truncates(asked) PROVE Stopped'
  <2>1. /\ stop = "none" /\ UNCHANGED <<native, late, signal, aborted>> /\ pc' # "compacting"
        /\ \/ stop' = "none"
           \/ stop' = "max_iterations" /\ pc' = "over"
           \/ stop' = "error" /\ pc' = "over" /\ errors'
    BY <1>0, <1>7 DEF S!Truncates, S!shared, S!Over, S!Again
  <2> QED
    BY <1>0, <2>1 DEF Stopped
<1>8. ASSUME (\E asked \in LoopTurns : S!AsksForTools(asked)) \/ S!BeginBatch \/ (\E i \in flying : S!ToolAnswers(i)) PROVE Stopped'
  <2>1. UNCHANGED <<native, late, signal, aborted, errors, stop, verdict, rounds>> /\ pc' # "compacting" /\ pc # "over"
    BY <1>8 DEF S!AsksForTools, S!BeginBatch, S!ToolAnswers, S!shared
  <2> QED
    BY <1>0, <2>1 DEF Stopped
<1>9. ASSUME S!BatchesOver \/ S!JsonDone \/ S!JsonTalk \/ S!JsonFind \/ S!JsonAnswered PROVE Stopped'
  <2>1. /\ stop = "none" /\ UNCHANGED <<native, late, signal, aborted>> /\ pc' # "compacting"
        /\ \/ stop' = "none"
           \/ stop' \in {"max_iterations", "awaiting_input", "max_tool_calls"} /\ pc' = "over"
           \/ stop' = "done" /\ pc' = "over" /\ ~native
    BY <1>0, <1>9 DEF S!BatchesOver, S!JsonDone, S!JsonTalk, S!JsonFind, S!JsonAnswered, S!shared, S!Over, S!Again
  <2> QED
    BY <1>0, <2>1 DEF Stopped
<1>10. ASSUME NEW call \in S!Registered, S!JsonTool(call) PROVE Stopped'
  <2>1. /\ stop = "none" /\ UNCHANGED <<native, late, signal, aborted, errors>> /\ pc' # "compacting"
        /\ (stop' = "none" \/ (stop' = "max_tool_calls" /\ pc' = "over"))
    BY <1>0, <1>10 DEF S!JsonTool, S!shared, S!Over
  <2> QED
    BY <1>0, <2>1 DEF Stopped
<1>12. ASSUME S!Throws PROVE Stopped'
  <2>1. /\ UNCHANGED <<native, late, signal, aborted, errors>> /\ pc' = "over"
        /\ stop' = "thrown"
    BY <1>12 DEF S!Throws, S!shared, S!Over
  <2> QED
    BY <1>0, <2>1 DEF Stopped
<1>11. ASSUME S!Outside PROVE Stopped'
  <2>1. ASSUME S!NeighbourRuns PROVE Stopped'
    BY <1>0, <2>1 DEF Stopped, S!NeighbourRuns, S!work
  <2>2. ASSUME S!NeighbourFinds PROVE Stopped'
    BY <1>0, <2>2 DEF Stopped, S!NeighbourFinds, S!work
  <2>3. ASSUME NEW who \in {"own", "neighbour"}, S!Abort(who) PROVE Stopped'
    BY <1>0, <2>3 DEF Stopped, S!Abort, S!work
  <2> QED
    BY <1>11, <2>1, <2>2, <2>3 DEF S!Outside
<1> QED
  BY <1>1, <1>2, <1>3, <1>4, <1>5, <1>6, <1>7, <1>8, <1>9, <1>10, <1>11, <1>12 DEF S!Next, S!Advance

\* Text after a transcript, and a turn with all its results, keep it in pairs.
LEMMA TextKeepsPairs ==
    ASSUME NEW m \in Seq(LoopMessage), NEW u \in Seq(LoopMessage), S!Paired(m),
           \A i \in 1..Len(u) : u[i].role \in {"text", "summary"}
    PROVE  S!Paired(m \o u)
<1> DEFINE all == m \o u
<1>1. /\ all \in Seq(LoopMessage) /\ Len(all) = Len(m) + Len(u) /\ Len(m) \in Nat /\ Len(u) \in Nat
      /\ \A i \in 1..Len(m) : all[i] = m[i]
      /\ \A i \in 1..Len(u) : all[Len(m) + i] = u[i]
  OBVIOUS
<1> HIDE DEF all
<1>2. \A i \in 1..Len(all) : i \in 1..Len(m) \/ all[i].role \in {"text", "summary"}
  <2> SUFFICES ASSUME NEW i \in 1..Len(all), i \notin 1..Len(m) PROVE all[i].role \in {"text", "summary"}
    OBVIOUS
  <2>1. i - Len(m) \in 1..Len(u) /\ i = Len(m) + (i - Len(m))
    BY <1>1
  <2> QED
    BY <1>1, <2>1
<1>3. ASSUME NEW i \in 1..Len(all), all[i].role = "assistant", NEW j \in (i + 1)..(i + all[i].calls)
      PROVE  j <= Len(all) /\ all[j].role = "tool"
  <2>1. i \in 1..Len(m)
    BY <1>2, <1>3
  <2>2. m[i].role = "assistant" /\ m[i].calls = all[i].calls /\ m[i] \in LoopMessage
    BY <1>1, <1>3, <2>1
  <2>3. j \in (i + 1)..(i + m[i].calls)
    BY <1>3, <2>2
  <2>4. j <= Len(m) /\ m[j].role = "tool"
    BY <2>1, <2>2, <2>3 DEF S!Paired
  <2>5. m[i].calls \in Nat
    BY <2>2 DEF LoopMessage
  <2>6. j \in 1..Len(m)
    BY <2>3, <2>4, <2>5, <2>1
  <2> QED
    BY <1>1, <2>4, <2>6
<1>4. ASSUME NEW i \in 1..Len(all), all[i].role = "tool"
      PROVE  \E j \in 1..(i - 1) : all[j].role = "assistant" /\ i <= j + all[j].calls
  <2>1. i \in 1..Len(m)
    BY <1>2, <1>4
  <2>2. PICK j \in 1..(i - 1) : m[j].role = "assistant" /\ i <= j + m[j].calls
    BY <1>1, <1>4, <2>1 DEF S!Paired
  <2>3. j \in 1..Len(m)
    BY <2>1, <2>2
  <2>4. all[j] = m[j]
    BY <1>1, <2>3
  <2> QED
    BY <2>2, <2>4
<1>5. S!Paired(all)
  BY <1>3, <1>4 DEF S!Paired
<1> QED
  BY <1>5 DEF all

LEMMA ResultsKeepPairs ==
    ASSUME NEW m \in Seq(LoopMessage), S!Paired(m), NEW n \in Nat, NEW results \in Seq(LoopMessage),
           Len(results) = n, \A i \in 1..n : results[i].role = "tool"
    PROVE  S!Paired(Append(m, S!Asks(n)) \o results)
<1> DEFINE all == Append(m, S!Asks(n)) \o results
<1>0. S!Asks(n) \in LoopMessage /\ S!Asks(n).role = "assistant" /\ S!Asks(n).calls = n
  BY DEF S!Asks, LoopMessage
<1>1. /\ all \in Seq(LoopMessage) /\ Len(all) = Len(m) + 1 + n /\ Len(m) \in Nat
      /\ \A i \in 1..Len(m) : all[i] = m[i]
      /\ all[Len(m) + 1] = S!Asks(n)
      /\ \A i \in 1..n : all[Len(m) + 1 + i] = results[i]
  BY <1>0
<1> HIDE DEF all
<1>2. \A i \in 1..Len(all) : i \in 1..Len(m) \/ i = Len(m) + 1 \/ (i > Len(m) + 1 /\ all[i].role = "tool")
  <2> SUFFICES ASSUME NEW i \in 1..Len(all), i \notin 1..Len(m), i # Len(m) + 1 PROVE i > Len(m) + 1 /\ all[i].role = "tool"
    OBVIOUS
  <2>1. i - Len(m) - 1 \in 1..n /\ i = Len(m) + 1 + (i - Len(m) - 1)
    BY <1>1
  <2>2. all[i] = results[i - Len(m) - 1]
    BY <1>1, <2>1
  <2> QED
    BY <1>1, <2>1, <2>2
<1>3. ASSUME NEW i \in 1..Len(all), all[i].role = "assistant", NEW j \in (i + 1)..(i + all[i].calls)
      PROVE  j <= Len(all) /\ all[j].role = "tool"
  <2>1. CASE i = Len(m) + 1
    <3>1. all[i].calls = n
      BY <1>0, <1>1, <2>1
    <3>2. j \in (i + 1)..(i + n)
      BY <1>3, <3>1
    <3>3. j \in 1..Len(all) /\ j > Len(m) + 1
      BY <1>1, <2>1, <3>2
    <3>4. j \notin 1..Len(m) /\ j # Len(m) + 1
      BY <1>1, <3>3
    <3> QED
      BY <1>2, <1>1, <3>3, <3>4
  <2>2. CASE i # Len(m) + 1
    <3>1. i \in 1..Len(m)
      BY <1>2, <1>3, <2>2
    <3>2. m[i].role = "assistant" /\ m[i].calls = all[i].calls /\ m[i] \in LoopMessage
      BY <1>1, <1>3, <3>1
    <3>3. j \in (i + 1)..(i + m[i].calls)
      BY <1>3, <3>2
    <3>4. j <= Len(m) /\ m[j].role = "tool"
      BY <3>1, <3>2, <3>3 DEF S!Paired
    <3>5. m[i].calls \in Nat
      BY <3>2 DEF LoopMessage
    <3>6. j \in 1..Len(m)
      BY <3>3, <3>4, <3>5, <3>1
    <3> QED
      BY <1>1, <3>4, <3>6
  <2> QED
    BY <2>1, <2>2
<1>4. ASSUME NEW i \in 1..Len(all), all[i].role = "tool"
      PROVE  \E j \in 1..(i - 1) : all[j].role = "assistant" /\ i <= j + all[j].calls
  <2>1. i # Len(m) + 1
    BY <1>0, <1>1, <1>4
  <2>2. CASE i \in 1..Len(m)
    <3>2. PICK j \in 1..(i - 1) : m[j].role = "assistant" /\ i <= j + m[j].calls
      BY <1>1, <1>4, <2>2 DEF S!Paired
    <3>3. j \in 1..Len(m)
      BY <2>2, <3>2
    <3>4. all[j] = m[j]
      BY <1>1, <3>3
    <3> QED
      BY <3>2, <3>4
  <2>3. CASE i > Len(m) + 1
    <3>1. Len(m) + 1 \in 1..(i - 1) /\ i <= Len(m) + 1 + n
      BY <1>1, <2>3
    <3>2. all[Len(m) + 1].role = "assistant" /\ all[Len(m) + 1].calls = n
      BY <1>0, <1>1
    <3> QED
      BY <3>1, <3>2
  <2> QED
    BY <1>2, <2>1, <2>2, <2>3
<1>5. S!Paired(all)
  BY <1>3, <1>4 DEF S!Paired
<1> QED
  BY <1>5 DEF all

\* Every step leaves the transcript in pairs, or opens and closes one turn.
LEMMA LoopTranscribedStep == LoopInv /\ S!Next => Transcribed'
<1> SUFFICES ASSUME LoopInv, S!Next PROVE Transcribed'
  OBVIOUS
<1>0. messages \in Seq(LoopMessage) /\ loopTurn \in Seq(LoopCalls) /\ <<>> \in Seq(LoopMessage)
  BY DEF LoopInv, LoopTyped
<1>00. stop # "thrown"
  <2>1. pc # "over"
    BY DEF S!Next, S!Advance, S!Outside, S!Top, S!Compacted, S!Fails, S!SpendsTheRest, S!Declines, S!Stops,
           S!Verified, S!Truncates, S!AsksForTools, S!BeginBatch, S!BatchesOver, S!Throws, S!ToolAnswers,
           S!JsonDone, S!JsonTalk, S!JsonFind, S!JsonAnswered, S!JsonTool, S!NeighbourRuns, S!NeighbourFinds,
           S!Abort
  <2> QED
    BY <2>1 DEF LoopInv, Stopped
<1>01. /\ ~summarized /\ ~(native /\ pc = "tools") => S!Paired(messages)
       /\ ~summarized /\ native /\ pc = "tools" =>
             \E m \in Seq(LoopMessage) : S!Paired(m) /\ messages = Append(m, S!Asks(Len(loopTurn)))
  BY <1>00 DEF LoopInv, Transcribed
<1>02. <<S!Text>> \in Seq(LoopMessage) /\ <<S!Text, S!Text>> \in Seq(LoopMessage) /\ S!Result \in LoopMessage
  BY DEF S!Text, S!Result, LoopMessage
<1>03. ASSUME S!Paired(messages) PROVE S!Paired(messages \o <<S!Text, S!Text>>)
  <2>1. \A i \in 1..Len(<<S!Text, S!Text>>) : <<S!Text, S!Text>>[i].role \in {"text", "summary"}
    BY DEF S!Text
  <2> QED
    BY <1>0, <1>02, <1>03, <2>1, TextKeepsPairs
<1>1. ASSUME UNCHANGED <<native, messages>>, ~(native /\ pc = "tools"), ~(native /\ pc' = "tools"), summarized' = summarized
      PROVE  Transcribed'
  BY <1>01, <1>1 DEF Transcribed, S!Paired
<1>2. ASSUME UNCHANGED <<native, messages, loopTurn, pc, summarized>> PROVE Transcribed'
  <2>1. CASE native /\ pc = "tools"
    <3>1. CASE summarized
      BY <1>2, <3>1 DEF Transcribed
    <3>2. CASE ~summarized
      <4>1. PICK m \in Seq(LoopMessage) : S!Paired(m) /\ messages = Append(m, S!Asks(Len(loopTurn)))
        BY <1>01, <2>1, <3>2
      <4>2. messages' = Append(m, S!Asks(Len(loopTurn')))
        BY <1>2, <4>1
      <4> QED
        BY <1>2, <2>1, <4>1, <4>2 DEF Transcribed
    <3> QED
      BY <3>1, <3>2
  <2>2. CASE ~(native /\ pc = "tools")
    BY <1>1, <1>2, <2>2
  <2> QED
    BY <2>1, <2>2
<1>3. ASSUME S!Top \/ S!Fails \/ S!SpendsTheRest \/ S!Declines \/ S!Stops PROVE Transcribed'
  <2>1. UNCHANGED <<native, messages, summarized>> /\ pc # "tools" /\ pc' # "tools"
    BY <1>3 DEF S!Top, S!Fails, S!SpendsTheRest, S!Declines, S!Stops, S!shared, S!work, S!Over, S!Again
  <2> QED
    BY <1>1, <2>1
<1>4. ASSUME S!Compacted PROVE Transcribed'
  <2>1. pc = "compacting" /\ pc' = "model" /\ native' = native
    BY <1>4 DEF S!Compacted, S!shared
  <2>2. summarized' = TRUE \/ (messages' = messages /\ summarized' = summarized)
    BY <1>4 DEF S!Compacted
  <2>3. CASE summarized' = TRUE
    BY <2>3 DEF Transcribed
  <2>4. CASE messages' = messages /\ summarized' = summarized
    BY <1>1, <2>1, <2>4
  <2> QED
    BY <2>2, <2>3, <2>4, Zenon
<1>5. ASSUME S!Verified \/ \E asked \in LoopTurns : S!Truncates(asked) PROVE Transcribed'
  <2>1. /\ UNCHANGED <<native, summarized>> /\ pc # "tools" /\ pc' # "tools"
        /\ messages' = messages \/ messages' = messages \o <<S!Text, S!Text>>
    BY <1>5 DEF S!Verified, S!Truncates, S!CutOff, S!shared, S!work, S!Over, S!Again
  <2>2. CASE summarized
    BY <2>1, <2>2 DEF Transcribed
  <2>3. CASE ~summarized
    <3>1. S!Paired(messages)
      BY <1>01, <2>1, <2>3
    <3>2. S!Paired(messages')
      BY <1>03, <2>1, <3>1
    <3> QED
      BY <2>1, <3>2 DEF Transcribed, S!Paired
  <2> QED
    BY <2>2, <2>3
<1>6. ASSUME NEW asked \in LoopTurns, S!AsksForTools(asked) PROVE Transcribed'
  <2>1. /\ messages' = Append(messages, S!Asks(Len(asked))) /\ loopTurn' = asked /\ pc' = "tools" /\ native /\ pc = "model"
        /\ UNCHANGED <<native, summarized>>
    BY <1>6 DEF S!AsksForTools, S!shared
  <2>2. CASE summarized
    BY <2>1, <2>2 DEF Transcribed
  <2>3. CASE ~summarized
    <3>1. S!Paired(messages) /\ messages' = Append(messages, S!Asks(Len(loopTurn')))
      BY <1>01, <2>1, <2>3
    <3> QED
      BY <1>0, <2>1, <3>1 DEF Transcribed
  <2> QED
    BY <2>2, <2>3
<1>7. ASSUME S!BeginBatch \/ (\E i \in flying : S!ToolAnswers(i)) PROVE Transcribed'
  <2>1. UNCHANGED <<native, messages, loopTurn, pc, summarized>>
    BY <1>7 DEF S!BeginBatch, S!ToolAnswers
  <2> QED
    BY <1>2, <2>1
<1>8. ASSUME S!BatchesOver PROVE Transcribed'
  <2>1. PICK note \in {<<>>, <<S!Text>>} : messages' = messages \o S!Results \o note
    BY <1>8 DEF S!BatchesOver
  <2>2. native /\ pc = "tools" /\ pc' # "tools" /\ UNCHANGED <<native, summarized>>
    BY <1>8 DEF S!BatchesOver, S!shared, S!Over, S!Again
  <2>3. CASE summarized
    BY <2>2, <2>3 DEF Transcribed
  <2>4. CASE ~summarized
    <3>1. PICK m \in Seq(LoopMessage) : S!Paired(m) /\ messages = Append(m, S!Asks(Len(loopTurn)))
      BY <1>01, <2>2, <2>4
    <3>2. /\ S!Results \in Seq(LoopMessage) /\ Len(S!Results) = Len(loopTurn) /\ Len(loopTurn) \in Nat
          /\ \A i \in 1..Len(loopTurn) : S!Results[i].role = "tool"
      BY <1>0, <1>02 DEF S!Results, S!Result
    <3>3. S!Paired(messages \o S!Results)
      BY <3>1, <3>2, ResultsKeepPairs
    <3>4. messages \o S!Results \in Seq(LoopMessage)
      BY <1>0, <3>2
    <3>5. note \in Seq(LoopMessage) /\ \A i \in 1..Len(note) : note[i].role \in {"text", "summary"}
      <4>1. CASE note = <<>>
        BY <1>0, <4>1
      <4>2. CASE note = <<S!Text>>
        BY <1>02, <4>2 DEF S!Text
      <4> QED
        BY <4>1, <4>2
    <3>6. S!Paired(messages')
      BY <2>1, <3>3, <3>4, <3>5, TextKeepsPairs
    <3> QED
      BY <2>2, <3>6 DEF Transcribed, S!Paired
  <2> QED
    BY <2>3, <2>4
<1>9. ASSUME S!JsonDone \/ S!JsonTalk \/ S!JsonFind \/ S!JsonAnswered \/ (\E call \in S!Registered : S!JsonTool(call))
      PROVE  Transcribed'
  <2>1. UNCHANGED <<native, messages, summarized>> /\ ~native
    BY <1>9 DEF S!JsonDone, S!JsonTalk, S!JsonFind, S!JsonAnswered, S!JsonTool, S!shared, S!work
  <2> QED
    BY <1>1, <2>1
<1>10. ASSUME S!Outside PROVE Transcribed'
  <2>1. UNCHANGED <<native, messages, loopTurn, pc, summarized>>
    BY <1>10 DEF S!Outside, S!NeighbourRuns, S!NeighbourFinds, S!Abort, S!work
  <2> QED
    BY <1>2, <2>1
<1>11. ASSUME S!Throws PROVE Transcribed'
  <2>1. stop' = "thrown"
    BY <1>11 DEF S!Throws, S!Over
  <2> QED
    BY <2>1 DEF Transcribed
<1> QED
  BY <1>3, <1>4, <1>5, <1>6, <1>7, <1>8, <1>9, <1>10, <1>11 DEF S!Next, S!Advance

LEMMA LoopStep == LoopInv /\ [S!Next]_(S!loopVars) => LoopInv'
<1> SUFFICES ASSUME LoopInv, [S!Next]_(S!loopVars) PROVE LoopInv'
  OBVIOUS
<1>1. CASE S!Next
  BY <1>1, LoopTypedStep, LoopCountedStep, LoopStoppedStep, LoopTranscribedStep DEF LoopInv
<1>2. CASE UNCHANGED S!loopVars
  <2>1. LoopTyped'
    BY <1>2 DEF LoopInv, LoopTyped, S!loopVars
  <2>2. Counted'
    BY <1>2 DEF LoopInv, Counted, S!CapHolds, S!loopVars
  <2>3. Stopped'
    BY <1>2 DEF LoopInv, Stopped, S!loopVars
  <2>4. Transcribed'
    <3>1. UNCHANGED <<native, messages, loopTurn, pc, summarized, stop>>
      BY <1>2 DEF S!loopVars
    <3>2. Transcribed
      BY DEF LoopInv
    <3> QED
      BY <3>1, <3>2 DEF Transcribed, S!Paired
  <2> QED
    BY <2>1, <2>2, <2>3, <2>4 DEF LoopInv
<1> QED
  BY <1>1, <1>2

LEMMA LoopSound == LoopInv => S!CapHolds /\ S!CancelIsHeard /\ S!DoneIsChecked /\ S!RequestsPaired
<1> SUFFICES ASSUME LoopInv PROVE S!CapHolds /\ S!CancelIsHeard /\ S!DoneIsChecked /\ S!RequestsPaired
  OBVIOUS
<1>1. S!CapHolds
  BY DEF LoopInv, Counted
<1>2. S!CancelIsHeard /\ S!DoneIsChecked
  BY DEF LoopInv, Stopped, S!CancelIsHeard, S!DoneIsChecked, S!Success
<1>3. S!RequestsPaired
  BY DEF LoopInv, Stopped, Transcribed, S!RequestsPaired
<1> QED
  BY <1>1, <1>2, <1>3

-----------------------------------------------------------------------------
\* Sub-agents, whose two kinds share the variables.
JobAts == {"none", "llm", "tool", "summary", "success", "error", "waiting", "working"}

Jobs == [at : JobAts, caller : Runs \cup {"none"}, owner : Runs \cup {"none"}, step : Int]

JobsTyped == /\ run \in [Runs -> {"idle", "active", "over"}] /\ registered \in Runs \cup {"none"}
             /\ job \in [Delegates -> Jobs] /\ subAgentResults \subseteq Delegates
             /\ reported \in [Runs -> SUBSET Delegates] /\ mixed \subseteq Runs

\* Workers: the count is of those who work.
Working == {c \in Delegates : job[c].at = "working"}

WorkersInv == /\ JobsTyped /\ IsFiniteSet(Working)
              /\ activeDelegations = Cardinality(Working) /\ activeDelegations \in 0..MaxDelegations

\* A call is one of a run that has begun, and is not over before the call is.
CallSound(c) ==
    /\ job[c].step <= MaxSteps
    /\ job[c].at \notin {"waiting", "working"}
    /\ job[c].at = "none" => job[c].caller = "none" /\ job[c].owner = "none"
    /\ job[c].at # "none" => job[c].caller \in Runs
    /\ job[c].caller \in Runs => run[job[c].caller] # "idle"
    /\ job[c].at \in {"llm", "tool", "summary"} => run[job[c].caller] = "active"
    /\ job[c].owner = job[c].caller \/ job[c].caller \in mixed

Reported(r) == {c \in Delegates : job[c].caller = r /\ job[c].at \in {"success", "error"}}

\* While no run has begun beside another, the tool and the array are the one run's.
OneAtATime ==
    /\ \A r, o \in Runs : run[r] = "active" /\ run[o] = "active" => r = o
    /\ \A r \in Runs : run[r] = "active" => subAgentResults = Reported(r)
    /\ \A r \in Runs : run[r] = "over" => reported[r] = {c \in Delegates : job[c].caller = r}

IsolatedInv == /\ JobsTyped
               /\ \A c \in Delegates : CallSound(c)
               /\ \A r \in Runs : run[r] = "active" => registered = r \/ r \in mixed
               /\ mixed = {} => OneAtATime

LEMMA JobIs ==
    ASSUME JobsTyped, NEW c \in Delegates
    PROVE  /\ job[c].at \in JobAts /\ job[c].caller \in Runs \cup {"none"} /\ job[c].owner \in Runs \cup {"none"}
           /\ job[c].step \in Int
           /\ job[c] = [at |-> job[c].at, caller |-> job[c].caller, owner |-> job[c].owner, step |-> job[c].step]
<1>1. job[c] \in Jobs
  BY DEF JobsTyped
<1> QED
  BY <1>1 DEF Jobs

\* A step of one call.
JobStep(c, a, r, o, n) == job' = [job EXCEPT ![c] = [at |-> a, caller |-> r, owner |-> o, step |-> n]]

LEMMA JobStepIs ==
    ASSUME JobsTyped, NEW c \in Delegates, NEW a \in JobAts, NEW r \in Runs \cup {"none"}, NEW o \in Runs \cup {"none"}, NEW n \in Int,
           JobStep(c, a, r, o, n)
    PROVE  /\ job' \in [Delegates -> Jobs]
           /\ job'[c].at = a /\ job'[c].caller = r /\ job'[c].owner = o /\ job'[c].step = n
           /\ \A d \in Delegates \ {c} : job'[d] = job[d]
<1>1. [at |-> a, caller |-> r, owner |-> o, step |-> n] \in Jobs
  BY DEF Jobs
<1> QED
  BY <1>1 DEF JobsTyped, JobStep

\* What becomes of a call, where its caller and its owner stay.
LEMMA JobTo ==
    ASSUME JobsTyped, NEW c \in Delegates, NEW a, job' = [job EXCEPT ![c].at = a]
    PROVE  JobStep(c, a, job[c].caller, job[c].owner, job[c].step)
<1>1. job[c] \in Jobs /\ c \in DOMAIN job
  BY DEF JobsTyped
<1>2. [job[c] EXCEPT !.at = a]
      = [at |-> a, caller |-> job[c].caller, owner |-> job[c].owner, step |-> job[c].step]
  BY <1>1 DEF Jobs
<1> QED
  BY <1>2 DEF JobStep

LEMMA JobOn ==
    ASSUME JobsTyped, NEW c \in Delegates, NEW a, NEW n, job' = [job EXCEPT ![c].at = a, ![c].step = n]
    PROVE  JobStep(c, a, job[c].caller, job[c].owner, n)
<1> DEFINE b == [at |-> a, caller |-> job[c].caller, owner |-> job[c].owner, step |-> job[c].step]
           mid == [job EXCEPT ![c].at = a]
<1>1. job[c] \in Jobs /\ c \in DOMAIN job
  BY DEF JobsTyped
<1>2. [job[c] EXCEPT !.at = a] = b
  BY <1>1 DEF Jobs
<1>3. mid = [job EXCEPT ![c] = b]
  BY <1>2
<1>4. job' = [mid EXCEPT ![c].step = n]
  OBVIOUS
<1>5. mid[c] = b /\ [b EXCEPT !.step = n] = [at |-> a, caller |-> job[c].caller, owner |-> job[c].owner, step |-> n]
  BY <1>1, <1>3
<1> HIDE DEF b
<1>6. [mid EXCEPT ![c].step = n] = [mid EXCEPT ![c] = [at |-> a, caller |-> job[c].caller, owner |-> job[c].owner, step |-> n]]
  BY <1>5
<1>7. [mid EXCEPT ![c] = [at |-> a, caller |-> job[c].caller, owner |-> job[c].owner, step |-> n]]
      = [job EXCEPT ![c] = [at |-> a, caller |-> job[c].caller, owner |-> job[c].owner, step |-> n]]
  BY <1>1, <1>3
<1> QED
  BY <1>4, <1>6, <1>7 DEF JobStep

\* A step of a sub-agent goes on, or is the last before the summary.
SubStep(c) ==
    /\ job[c].at \in {"llm", "tool"}
    /\ \/ \E a \in {"tool", "summary"} : JobStep(c, a, job[c].caller, job[c].owner, job[c].step)
       \/ job[c].step < MaxSteps /\ JobStep(c, "llm", job[c].caller, job[c].owner, job[c].step + 1)

LEMMA SubSteps ==
    ASSUME JobsTyped, NEW c \in Delegates, D!Step(c) \/ I!Step(c)
    PROVE  SubStep(c) /\ UNCHANGED <<run, registered, subAgentResults, activeDelegations, reported, mixed>>
<1>1. /\ job[c].at \in {"llm", "tool"}
      /\ UNCHANGED <<run, registered, subAgentResults, activeDelegations, reported, mixed>>
      /\ \/ job' = [job EXCEPT ![c].at = "tool"]
         \/ job' = [job EXCEPT ![c].at = "summary"]
         \/ job[c].step < MaxSteps /\ job' = [job EXCEPT ![c].at = "llm", ![c].step = job[c].step + 1]
         \/ job' = [job EXCEPT ![c].at = "summary", ![c].step = job[c].step]
  <2>1. CASE D!Step(c)
    BY <2>1 DEF D!Step, D!To, D!NextStep
  <2>2. CASE I!Step(c)
    BY <2>2 DEF I!Step, I!To, I!NextStep
  <2> QED
    BY <2>1, <2>2
<1>2. CASE job' = [job EXCEPT ![c].at = "tool"]
  BY <1>1, <1>2, JobTo DEF SubStep
<1>3. CASE job' = [job EXCEPT ![c].at = "summary"]
  BY <1>1, <1>3, JobTo DEF SubStep
<1>4. CASE job[c].step < MaxSteps /\ job' = [job EXCEPT ![c].at = "llm", ![c].step = job[c].step + 1]
  BY <1>1, <1>4, JobOn DEF SubStep
<1>5. CASE job' = [job EXCEPT ![c].at = "summary", ![c].step = job[c].step]
  BY <1>1, <1>5, JobOn DEF SubStep
<1> QED
  BY <1>1, <1>2, <1>3, <1>4, <1>5

LEMMA JobsStart == (D!Init => WorkersInv) /\ (I!Init => IsolatedInv)
<1>0. ASSUME D!Init \/ I!Init
      PROVE  /\ run = [r \in Runs |-> "idle"] /\ registered = "none" /\ subAgentResults = {} /\ activeDelegations = 0
             /\ job = [c \in Delegates |-> [at |-> "none", caller |-> "none", owner |-> "none", step |-> 0]]
             /\ reported = [r \in Runs |-> {}] /\ mixed = {}
  BY <1>0 DEF D!Init, I!Init, D!Calls, I!Calls, D!NoRun, I!NoRun
<1>1. ASSUME D!Init \/ I!Init PROVE JobsTyped
  <2>1. [at |-> "none", caller |-> "none", owner |-> "none", step |-> 0] \in Jobs
    BY DEF Jobs, JobAts
  <2>2. job \in [Delegates -> Jobs]
    BY <1>0, <1>1, <2>1
  <2> QED
    BY <1>0, <1>1, <2>2 DEF JobsTyped
<1>2. ASSUME D!Init PROVE WorkersInv
  <2>1. Working = {}
    BY <1>0, <1>2 DEF Working
  <2> QED
    BY <1>0, <1>1, <1>2, <2>1, FS_EmptySet, AgentsConstants DEF WorkersInv
<1>3. ASSUME I!Init PROVE IsolatedInv
  <2>1. \A c \in Delegates : CallSound(c)
    BY <1>0, <1>3, AgentsConstants DEF CallSound
  <2>2. OneAtATime
    BY <1>0, <1>3 DEF OneAtATime
  <2> QED
    BY <1>0, <1>1, <1>3, <2>1, <2>2 DEF IsolatedInv
<1> QED
  BY <1>2, <1>3

\* A step that leaves who works alone.
LEMMA WorkersStay ==
    ASSUME WorkersInv, JobsTyped', Working' = Working, activeDelegations' = activeDelegations
    PROVE  WorkersInv'
BY DEF WorkersInv

LEMMA WorkersStep == WorkersInv /\ [D!Next]_(D!subVars) => WorkersInv'
<1> SUFFICES ASSUME WorkersInv, [D!Next]_(D!subVars) PROVE WorkersInv'
  OBVIOUS
<1>0. /\ JobsTyped /\ IsFiniteSet(Working) /\ activeDelegations = Cardinality(Working)
      /\ activeDelegations \in 0..MaxDelegations /\ MaxDelegations \in Nat /\ D!Calls = Delegates
      /\ run \in [Runs -> {"idle", "active", "over"}] /\ registered \in Runs \cup {"none"}
      /\ job \in [Delegates -> Jobs] /\ subAgentResults \subseteq Delegates
      /\ reported \in [Runs -> SUBSET Delegates] /\ mixed \subseteq Runs
  BY AgentsConstants DEF WorkersInv, JobsTyped, D!Calls
<1>1. ASSUME NEW r \in Runs, D!Begin(r) PROVE WorkersInv'
  <2>1. JobsTyped'
    BY <1>0, <1>1 DEF D!Begin, D!Registered, JobsTyped
  <2> QED
    BY <1>1, <2>1, WorkersStay DEF D!Begin, Working
<1>2. ASSUME NEW r \in Runs, D!End(r) PROVE WorkersInv'
  <2>1. JobsTyped'
    BY <1>0, <1>2 DEF D!End, JobsTyped
  <2> QED
    BY <1>2, <2>1, WorkersStay DEF D!End, Working
<1>3. ASSUME NEW c \in Delegates, NEW a \in JobAts, NEW r \in Runs \cup {"none"}, NEW o \in Runs \cup {"none"}, NEW n \in Int,
             JobStep(c, a, r, o, n), UNCHANGED <<run, registered, reported, mixed>>, subAgentResults' \subseteq Delegates
      PROVE  /\ JobsTyped'
             /\ Working' = IF a = "working" THEN Working \cup {c} ELSE Working \ {c}
  <2>1. /\ job' \in [Delegates -> Jobs] /\ job'[c].at = a /\ \A d \in Delegates \ {c} : job'[d] = job[d]
    BY <1>0, <1>3, JobStepIs
  <2>2. JobsTyped'
    BY <1>0, <1>3, <2>1 DEF JobsTyped
  <2>3. Working' = IF a = "working" THEN Working \cup {c} ELSE Working \ {c}
    BY <2>1 DEF Working
  <2> QED
    BY <2>2, <2>3
<1>4. ASSUME NEW c \in Delegates, NEW a \in JobAts, NEW r \in Runs \cup {"none"}, NEW o \in Runs \cup {"none"}, NEW n \in Int,
             JobStep(c, a, r, o, n), UNCHANGED <<run, registered, reported, mixed>>, subAgentResults' \subseteq Delegates,
             a # "working", job[c].at # "working", activeDelegations' = activeDelegations
      PROVE  WorkersInv'
  <2>1. JobsTyped' /\ Working' = Working \ {c}
    BY <1>3, <1>4
  <2>2. c \notin Working
    BY <1>4 DEF Working
  <2> QED
    BY <1>4, <2>1, <2>2, WorkersStay
<1>5. ASSUME NEW c \in Delegates, NEW r \in Runs, D!DelegateToWorker(c, r) PROVE WorkersInv'
  <2>1. /\ job[c].at = "none" /\ JobStep(c, "waiting", r, r, 0)
        /\ UNCHANGED <<run, registered, subAgentResults, activeDelegations, reported, mixed>>
    BY <1>5 DEF D!DelegateToWorker, JobStep
  <2> QED
    BY <1>0, <1>4, <2>1 DEF JobAts
<1>6. ASSUME NEW c \in Delegates, D!Step(c) PROVE WorkersInv'
  <2>1. SubStep(c) /\ UNCHANGED <<run, registered, subAgentResults, activeDelegations, reported, mixed>>
    BY <1>0, <1>6, SubSteps
  <2>2. PICK a \in {"llm", "tool", "summary"}, n \in {job[c].step, job[c].step + 1} :
            JobStep(c, a, job[c].caller, job[c].owner, n)
    BY <2>1 DEF SubStep
  <2>3. job[c].caller \in Runs \cup {"none"} /\ job[c].owner \in Runs \cup {"none"} /\ a \in JobAts /\ a # "working"
        /\ n \in Int /\ job[c].at # "working"
    BY <1>0, <2>1, JobIs DEF JobAts, SubStep
  <2> QED
    BY <1>0, <1>4, <2>1, <2>2, <2>3
<1>7. ASSUME NEW c \in Delegates, D!Summary(c) PROVE WorkersInv'
  <2>1. /\ job[c].at = "summary" /\ UNCHANGED <<run, registered, activeDelegations, reported, mixed>>
        /\ subAgentResults' \subseteq Delegates
        /\ \E a \in {"success", "error"} : JobStep(c, a, job[c].caller, job[c].owner, job[c].step)
    BY <1>0, <1>7, JobTo DEF D!Summary, D!To, JobStep
  <2>2. job[c].caller \in Runs \cup {"none"} /\ job[c].owner \in Runs \cup {"none"} /\ job[c].step \in Int
    BY <1>0, JobIs
  <2> QED
    BY <1>4, <2>1, <2>2 DEF JobAts
<1>8. ASSUME NEW c \in Delegates, D!StartWorker(c) PROVE WorkersInv'
  <2>1. /\ job[c].at = "waiting" /\ activeDelegations < MaxDelegations /\ activeDelegations' = activeDelegations + 1
        /\ UNCHANGED <<run, registered, subAgentResults, reported, mixed>>
        /\ JobStep(c, "working", job[c].caller, job[c].owner, job[c].step)
    BY <1>0, <1>8, JobTo DEF D!StartWorker, D!To, D!HasRoom, JobStep
  <2>2. job[c].caller \in Runs \cup {"none"} /\ job[c].owner \in Runs \cup {"none"} /\ job[c].step \in Int
    BY <1>0, JobIs
  <2>3. JobsTyped' /\ Working' = Working \cup {c}
    BY <1>0, <1>3, <2>1, <2>2 DEF JobAts
  <2>4. c \notin Working
    BY <2>1 DEF Working
  <2>5. IsFiniteSet(Working') /\ Cardinality(Working') = Cardinality(Working) + 1
    BY <1>0, <2>3, <2>4, FS_AddElement
  <2> QED
    BY <1>0, <2>1, <2>3, <2>5 DEF WorkersInv
<1>9. ASSUME NEW c \in Delegates, D!EndWorker(c) PROVE WorkersInv'
  <2>1. /\ job[c].at = "working" /\ activeDelegations' = activeDelegations - 1
        /\ UNCHANGED <<run, registered, subAgentResults, reported, mixed>>
        /\ \E a \in {"success", "error"} : JobStep(c, a, job[c].caller, job[c].owner, job[c].step)
    BY <1>0, <1>9, JobTo DEF D!EndWorker, D!To, D!Freed, JobStep
  <2>2. job[c].caller \in Runs \cup {"none"} /\ job[c].owner \in Runs \cup {"none"} /\ job[c].step \in Int
    BY <1>0, JobIs
  <2>20. PICK a \in {"success", "error"} : JobStep(c, a, job[c].caller, job[c].owner, job[c].step)
    BY <2>1
  <2>21. a \in JobAts /\ a # "working" /\ subAgentResults' \subseteq Delegates
    BY <1>0, <2>1 DEF JobAts
  <2>3. JobsTyped' /\ Working' = Working \ {c}
    BY <1>3, <2>1, <2>2, <2>20, <2>21
  <2>4. c \in Working
    BY <2>1 DEF Working
  <2>5. IsFiniteSet(Working') /\ Cardinality(Working') = Cardinality(Working) - 1 /\ Cardinality(Working') \in Nat
    BY <1>0, <2>3, <2>4, FS_RemoveElement, FS_CardinalityType
  <2> QED
    BY <1>0, <2>1, <2>3, <2>5 DEF WorkersInv
<1>10. CASE UNCHANGED D!subVars
  <2>1. UNCHANGED <<run, registered, subAgentResults, job, activeDelegations, reported, mixed>>
    BY <1>10 DEF D!subVars
  <2>2. JobsTyped' /\ Working' = Working
    BY <1>0, <2>1 DEF JobsTyped, Working
  <2> QED
    BY <2>1, <2>2, WorkersStay
<1> QED
  BY <1>0, <1>1, <1>2, <1>5, <1>6, <1>7, <1>8, <1>9, <1>10 DEF D!Next, D!Delegate

LEMMA WorkersSound == WorkersInv => D!WorkersAreCounted
<1>1. D!Cardinality({c \in Delegates : job[c].at = "working"}) = Cardinality(Working)
  BY Zenon DEF D!Cardinality, Cardinality, Working
<1> QED
  BY <1>1, AgentsConstants DEF WorkersInv, D!WorkersAreCounted

\* A step that leaves the calls and the runs alone but for one call, which stays its
\* caller's.
LEMMA CallStep ==
    ASSUME IsolatedInv, NEW c \in Delegates, NEW a \in {"llm", "tool", "summary", "success", "error"}, NEW n \in Int,
           JobStep(c, a, job[c].caller, job[c].owner, n), n <= MaxSteps, job[c].at \in {"llm", "tool", "summary"},
           subAgentResults' = IF a \in {"success", "error"} THEN subAgentResults \cup {c} ELSE subAgentResults,
           UNCHANGED <<run, registered, reported, mixed>>
    PROVE  IsolatedInv'
<1> DEFINE r == job[c].caller
<1>0. /\ JobsTyped /\ CallSound(c) /\ r \in Runs /\ run[r] = "active" /\ a \in JobAts
      /\ run \in [Runs -> {"idle", "active", "over"}] /\ registered \in Runs \cup {"none"}
      /\ subAgentResults \subseteq Delegates /\ reported \in [Runs -> SUBSET Delegates] /\ mixed \subseteq Runs
      /\ job[c].owner \in Runs \cup {"none"} /\ job[c].caller \in Runs \cup {"none"}
  BY JobIs DEF IsolatedInv, CallSound, JobsTyped, JobAts
<1>1. /\ job' \in [Delegates -> Jobs]
      /\ job'[c].at = a /\ job'[c].caller = job[c].caller /\ job'[c].owner = job[c].owner /\ job'[c].step = n
      /\ \A d \in Delegates \ {c} : job'[d] = job[d]
  BY <1>0, JobStepIs
<1>2. JobsTyped'
  BY <1>0, <1>1 DEF JobsTyped
<1>3. ASSUME NEW d \in Delegates PROVE CallSound(d)'
  <2>1. CallSound(d)
    BY DEF IsolatedInv
  <2>2. CASE d = c
    BY <1>0, <1>1, <2>2 DEF CallSound
  <2>3. CASE d # c
    BY <1>1, <2>1, <2>3 DEF CallSound
  <2> QED
    BY <2>2, <2>3
<1>4. ASSUME mixed = {} PROVE OneAtATime'
  <2>1. OneAtATime
    BY <1>4 DEF IsolatedInv
  <2>2. ASSUME NEW q \in Runs, run[q] = "active" PROVE subAgentResults' = Reported(q)'
    <3>1. subAgentResults = Reported(q) /\ q = r
      BY <1>0, <2>1, <2>2 DEF OneAtATime
    <3>2. Reported(q)' = IF a \in {"success", "error"} THEN Reported(q) \cup {c} ELSE Reported(q)
      <4>1. c \notin Reported(q)
        BY <1>0 DEF Reported
      <4> QED
        BY <1>1, <3>1, <4>1 DEF Reported
    <3> QED
      BY <3>1, <3>2
  <2>3. ASSUME NEW q \in Runs
        PROVE  {d \in Delegates : job'[d].caller = q} = {d \in Delegates : job[d].caller = q}
    BY <1>1
  <2> QED
    BY <2>1, <2>2, <2>3 DEF OneAtATime
<1>5. mixed' = mixed
  OBVIOUS
<1>6. \A q \in Runs : run'[q] = "active" => registered' = q \/ q \in mixed'
  BY DEF IsolatedInv
<1>7. (mixed = {} => OneAtATime)'
  BY <1>4, <1>5
<1> QED
  BY <1>2, <1>3, <1>6, <1>7 DEF IsolatedInv

LEMMA IsolatedStep == IsolatedInv /\ [I!Next]_(I!subVars) => IsolatedInv'
<1> SUFFICES ASSUME IsolatedInv, [I!Next]_(I!subVars) PROVE IsolatedInv'
  OBVIOUS
<1>0. /\ JobsTyped /\ I!Calls = Delegates /\ MaxSteps \in Nat
      /\ run \in [Runs -> {"idle", "active", "over"}] /\ registered \in Runs \cup {"none"}
      /\ job \in [Delegates -> Jobs] /\ subAgentResults \subseteq Delegates
      /\ reported \in [Runs -> SUBSET Delegates] /\ mixed \subseteq Runs
      /\ \A c \in Delegates : CallSound(c)
      /\ \A r \in Runs : run[r] = "active" => registered = r \/ r \in mixed
      /\ (mixed = {} => OneAtATime) /\ "none" \notin Runs
  BY AgentsConstants DEF IsolatedInv, JobsTyped, I!Calls
<1>1. ASSUME NEW r \in Runs, I!Begin(r) PROVE IsolatedInv'
  <2>1. /\ run[r] = "idle" /\ run' = [run EXCEPT ![r] = "active"] /\ registered' = r /\ subAgentResults' = {}
        /\ mixed' = mixed \cup {o \in Runs : run[o] = "active"} /\ job' = job /\ reported' = reported
    BY <1>1 DEF I!Begin, I!Registered
  <2>2. run' \in [Runs -> {"idle", "active", "over"}] /\ run'[r] = "active" /\ \A o \in Runs \ {r} : run'[o] = run[o]
    BY <1>0, <2>1
  <2>3. JobsTyped'
    BY <1>0, <2>1, <2>2 DEF JobsTyped
  <2>4. ASSUME NEW c \in Delegates PROVE CallSound(c)'
    <3>1. CallSound(c)
      BY <1>0
    <3> QED
      BY <2>1, <2>2, <3>1 DEF CallSound
  <2>5. \A o \in Runs : run'[o] = "active" => registered' = o \/ o \in mixed'
    BY <2>1, <2>2
  <2>6. ASSUME mixed' = {} PROVE OneAtATime'
    <3>1. mixed = {} /\ (\A o \in Runs : run[o] # "active") /\ OneAtATime
      BY <1>0, <2>1, <2>6
    <3>2. \A c \in Delegates : job[c].caller # r
      BY <1>0, <2>1 DEF CallSound
    <3>3. Reported(r)' = {}
      BY <2>1, <3>2 DEF Reported
    <3> QED
      BY <2>1, <2>2, <3>1, <3>3 DEF OneAtATime
  <2> QED
    BY <2>3, <2>4, <2>5, <2>6 DEF IsolatedInv
<1>2. ASSUME NEW r \in Runs, I!End(r) PROVE IsolatedInv'
  <2>1. /\ run[r] = "active" /\ run' = [run EXCEPT ![r] = "over"] /\ registered' = registered
        /\ reported' = [reported EXCEPT ![r] = subAgentResults]
        /\ subAgentResults' = subAgentResults /\ job' = job /\ mixed' = mixed
        /\ \A c \in Delegates : job[c].caller = r => job[c].at \in {"none", "success", "error"}
    BY <1>0, <1>2 DEF I!End, I!Waiting, I!Settled
  <2>2. /\ run' \in [Runs -> {"idle", "active", "over"}] /\ run'[r] = "over" /\ \A o \in Runs \ {r} : run'[o] = run[o]
        /\ reported' \in [Runs -> SUBSET Delegates] /\ reported'[r] = subAgentResults
        /\ \A o \in Runs \ {r} : reported'[o] = reported[o]
    BY <1>0, <2>1
  <2>3. JobsTyped'
    BY <1>0, <2>1, <2>2 DEF JobsTyped
  <2>4. ASSUME NEW c \in Delegates PROVE CallSound(c)'
    <3>1. CallSound(c)
      BY <1>0
    <3>2. job[c].at \in {"llm", "tool", "summary"} => job[c].caller # r
      BY <2>1
    <3> QED
      BY <2>1, <2>2, <3>1, <3>2 DEF CallSound
  <2>5. \A o \in Runs : run'[o] = "active" => registered' = o \/ o \in mixed'
    BY <1>0, <2>1, <2>2
  <2>6. ASSUME mixed' = {} PROVE OneAtATime'
    <3>1. OneAtATime
      BY <1>0, <2>1, <2>6
    <3>2. subAgentResults = Reported(r)
      BY <2>1, <3>1 DEF OneAtATime
    <3>3. Reported(r) = {c \in Delegates : job[c].caller = r}
      BY <1>0, <2>1 DEF Reported, CallSound
    <3> QED
      BY <2>1, <2>2, <3>1, <3>2, <3>3 DEF OneAtATime, Reported
  <2> QED
    BY <2>3, <2>4, <2>5, <2>6 DEF IsolatedInv
<1>3. ASSUME NEW c \in Delegates, NEW r \in Runs, I!Delegate(c, r) PROVE IsolatedInv'
  <2> DEFINE first == IF I!FirstStep = 0 THEN "summary" ELSE "llm"
  <2>1. /\ job[c].at = "none" /\ run[r] = "active" /\ registered # "none" /\ JobStep(c, first, r, registered, I!FirstStep)
        /\ UNCHANGED <<run, registered, subAgentResults, activeDelegations, reported, mixed>>
    BY <1>3 DEF I!Delegate, I!NoRun, JobStep
  <2>01. first \in {"llm", "summary"} /\ I!FirstStep \in Int /\ I!FirstStep <= MaxSteps
    BY <1>0 DEF I!FirstStep
  <2> HIDE DEF first
  <2>2. /\ job' \in [Delegates -> Jobs]
        /\ job'[c].at = first /\ job'[c].caller = r /\ job'[c].owner = registered /\ job'[c].step = I!FirstStep
        /\ \A d \in Delegates \ {c} : job'[d] = job[d]
    BY <1>0, <2>01, <2>1, JobStepIs DEF JobAts
  <2>3. JobsTyped'
    BY <1>0, <2>1, <2>2 DEF JobsTyped
  <2>4. ASSUME NEW d \in Delegates PROVE CallSound(d)'
    <3>1. CallSound(d) /\ (registered = r \/ r \in mixed)
      BY <1>0, <2>1
    <3>2. CASE d = c
      BY <1>0, <2>01, <2>1, <2>2, <3>1, <3>2 DEF CallSound
    <3>3. CASE d # c
      BY <2>1, <2>2, <3>1, <3>3 DEF CallSound
    <3> QED
      BY <3>2, <3>3
  <2>5. ASSUME mixed' = {} PROVE OneAtATime'
    <3>1. OneAtATime
      BY <1>0, <2>1, <2>5
    <3>2. ASSUME NEW q \in Runs PROVE Reported(q)' = Reported(q)
      BY <2>01, <2>1, <2>2 DEF Reported
    <3>3. ASSUME NEW q \in Runs, run[q] = "over"
          PROVE  {d \in Delegates : job'[d].caller = q} = {d \in Delegates : job[d].caller = q}
      <4>1. q # r /\ job[c].caller # q
        BY <1>0, <2>1, <3>3 DEF CallSound
      <4> QED
        BY <2>2, <4>1
    <3> QED
      BY <2>1, <3>1, <3>2, <3>3 DEF OneAtATime
  <2> QED
    BY <1>0, <2>1, <2>3, <2>4, <2>5 DEF IsolatedInv
<1>4. ASSUME NEW c \in Delegates, I!Step(c) PROVE IsolatedInv'
  <2>1. SubStep(c) /\ UNCHANGED <<run, registered, subAgentResults, activeDelegations, reported, mixed>>
    BY <1>0, <1>4, SubSteps
  <2>2. job[c].step \in Int /\ job[c].step <= MaxSteps
    BY <1>0, JobIs DEF CallSound
  <2>3. PICK a \in {"llm", "tool", "summary"}, n \in {job[c].step, job[c].step + 1} :
            JobStep(c, a, job[c].caller, job[c].owner, n) /\ n <= MaxSteps
    BY <1>0, <2>1, <2>2 DEF SubStep
  <2>4. n \in Int /\ job[c].at \in {"llm", "tool", "summary"} /\ a \notin {"success", "error"}
    BY <2>1, <2>2, <2>3 DEF SubStep
  <2> QED
    BY <2>1, <2>3, <2>4, CallStep
<1>5. ASSUME NEW c \in Delegates, I!Summary(c) PROVE IsolatedInv'
  <2>1. /\ job[c].at = "summary" /\ UNCHANGED <<run, registered, activeDelegations, reported, mixed>>
        /\ subAgentResults' = subAgentResults \cup {c}
        /\ \E a \in {"success", "error"} : JobStep(c, a, job[c].caller, job[c].owner, job[c].step)
    BY <1>0, <1>5, JobTo DEF I!Summary, I!To
  <2>2. job[c].step \in Int /\ job[c].step <= MaxSteps
    BY <1>0, JobIs DEF CallSound
  <2>3. PICK a \in {"success", "error"} : JobStep(c, a, job[c].caller, job[c].owner, job[c].step)
    BY <2>1
  <2> QED
    BY <2>1, <2>2, <2>3, CallStep
<1>6. ASSUME NEW c \in Delegates, I!StartWorker(c) \/ I!EndWorker(c) PROVE FALSE
  <2>1. CallSound(c)
    BY <1>0
  <2> QED
    BY <1>6, <2>1 DEF I!StartWorker, I!EndWorker, CallSound
<1>7. CASE UNCHANGED I!subVars
  <2>1. UNCHANGED <<run, registered, subAgentResults, job, activeDelegations, reported, mixed>>
    BY <1>7 DEF I!subVars
  <2>2. JobsTyped' /\ \A c \in Delegates : CallSound(c)'
    BY <1>0, <2>1 DEF JobsTyped, CallSound
  <2>3. OneAtATime => OneAtATime'
    BY <2>1 DEF OneAtATime, Reported
  <2> QED
    BY <1>0, <2>1, <2>2, <2>3 DEF IsolatedInv
<1> QED
  BY <1>0, <1>1, <1>2, <1>3, <1>4, <1>5, <1>6, <1>7 DEF I!Next, I!DelegateToWorker

LEMMA IsolatedSound == IsolatedInv => I!IsolatedWorksForItsCaller /\ I!ReportsItsOwn
<1> SUFFICES ASSUME IsolatedInv PROVE I!IsolatedWorksForItsCaller /\ I!ReportsItsOwn
  OBVIOUS
<1>1. I!IsolatedWorksForItsCaller
  BY DEF IsolatedInv, CallSound, I!IsolatedWorksForItsCaller
<1>2. I!ReportsItsOwn
  <2> SUFFICES ASSUME NEW r \in Runs, run[r] = "over", r \notin mixed, \A o \in mixed : o = r
               PROVE  reported[r] = {c \in Delegates : job[c].caller = r}
    BY DEF I!ReportsItsOwn
  <2>1. mixed = {}
    OBVIOUS
  <2> QED
    BY <2>1 DEF IsolatedInv, OneAtATime
<1> QED
  BY <1>1, <1>2

\* A step of a shared workflow: who was told that it is theirs is alone, and the step
\* is not to be had any more.
ClaimInv == claimed = {} \/ (workflowStep # "pending" /\ \E c \in Runs : claimed = {c})

LEMMA ClaimStart == C!Init => ClaimInv
BY DEF C!Init, ClaimInv

LEMMA ClaimOn == ClaimInv /\ [C!Next]_(C!claimVars) => ClaimInv'
<1> SUFFICES ASSUME ClaimInv, [C!Next]_(C!claimVars) PROVE ClaimInv'
  OBVIOUS
<1>1. ASSUME NEW c \in Runs, C!ClaimStep(c) PROVE ClaimInv'
  BY <1>1 DEF C!ClaimStep, C!Transition, C!Told, ClaimInv
<1>2. CASE C!CompleteStep
  BY <1>2 DEF C!CompleteStep, C!Transition, ClaimInv
<1>3. ASSUME NEW k, C!Arrive(k) PROVE ClaimInv'
  BY <1>3, Zenon DEF C!Arrive, C!stepVars, ClaimInv
<1>4. CASE UNCHANGED C!claimVars
  BY <1>4 DEF C!claimVars, ClaimInv
<1> QED
  BY <1>1, <1>2, <1>3, <1>4 DEF C!Next

LEMMA ClaimSound == ClaimInv => C!OneClaimant
<1>1. ASSUME claimed = {} PROVE Cardinality(claimed) = 0
  BY <1>1, FS_EmptySet
<1>2. ASSUME NEW c, claimed = {c} PROVE Cardinality(claimed) = 1
  BY <1>2, FS_Singleton
<1>3. C!Cardinality(claimed) = Cardinality(claimed)
  BY Zenon DEF C!Cardinality, Cardinality
<1> QED
  BY <1>1, <1>2, <1>3 DEF ClaimInv, C!OneClaimant

\* Watchers. The map names subscriptions there are, and is empty when no run is left;
\* what lives is named in it; what arrives for that is in its queue, in a poll's hands
\* or has been heard.
WatcherAts == {"idle", "free", "steps", "messages", "polling", "polled", "deleting", "deleted", "over"}

Watchings == [at : WatcherAts,
              passed : SUBSET {"steps", "messages"}, asked : Nat, drained : SUBSET (Nat \X Nat)]

Subscription == [kind : {"steps", "messages"}, live : BOOLEAN, queue : SUBSET Nat, got : SUBSET Nat]

AtWork == \E w \in Runs : watcher[w].at \notin {"idle", "over"}

WatchTyped ==
    /\ sub \in Seq(Subscription) /\ arrived \in Nat
    /\ watcher \in [Runs -> Watchings]
    /\ subscriptions \in [{"steps", "messages"} -> 0..Len(sub)]
    /\ \A w \in Runs : /\ watcher[w].asked <= Len(sub)
                       /\ watcher[w].at \in {"polling", "deleting"} => watcher[w].asked # 0

Named == /\ (\E k \in {"steps", "messages"} : subscriptions[k] # 0) => AtWork
         /\ \A i \in 1..Len(sub) : sub[i].live => i \in excused \/ \E k \in {"steps", "messages"} : subscriptions[k] = i

Delivered == \A i \in 1..Len(sub) : sub[i].live /\ i \notin excused =>
            \A e \in sub[i].got : \/ e \in sub[i].queue \/ <<i, e>> \in heard
                                  \/ \E w \in Runs : <<i, e>> \in watcher[w].drained

WatchInv == WatchTyped /\ Named /\ Delivered

LEMMA WatchStart == W!Init => WatchInv
<1> SUFFICES ASSUME W!Init PROVE WatchInv
  OBVIOUS
<1>1. [at |-> "idle", passed |-> {}, asked |-> 0, drained |-> {}] \in Watchings
  BY DEF Watchings, WatcherAts
<1>2. /\ sub = <<>> /\ Len(sub) = 0 /\ arrived = 0 /\ subscriptions = [k \in {"steps", "messages"} |-> 0]
      /\ watcher = [w \in Runs |-> [at |-> "idle", passed |-> {}, asked |-> 0, drained |-> {}]]
  BY DEF W!Init, W!Kinds
<1>3. WatchTyped
  <2>1. watcher \in [Runs -> Watchings]
    BY <1>1, <1>2
  <2>2. sub \in Seq(Subscription)
    BY <1>2
  <2> QED
    BY <1>2, <2>1, <2>2 DEF WatchTyped
<1> QED
  BY <1>2, <1>3 DEF WatchInv, Named, Delivered

\* The names of what a run does next, without the records they are kept in.
LEMMA WatcherIs ==
    ASSUME WatchTyped, NEW w \in Runs
    PROVE  /\ watcher[w] \in Watchings
           /\ watcher[w] = [at |-> watcher[w].at, passed |-> watcher[w].passed, asked |-> watcher[w].asked,
                            drained |-> watcher[w].drained]
           /\ watcher[w].passed \subseteq {"steps", "messages"} /\ watcher[w].asked \in 0..Len(sub)
           /\ watcher[w].drained \subseteq Nat \X Nat
<1>1. watcher[w] \in Watchings /\ watcher[w].asked <= Len(sub) /\ Len(sub) \in Nat
  BY DEF WatchTyped
<1> QED
  BY <1>1 DEF Watchings

Becomes(w, at, passed, asked, drained) ==
    watcher' = [watcher EXCEPT ![w] = [at |-> at, passed |-> passed, asked |-> asked, drained |-> drained]]

Became(w, at, passed, asked, drained) ==
    /\ watcher' \in [Runs -> Watchings]
    /\ watcher'[w].at = at /\ watcher'[w].passed = passed /\ watcher'[w].asked = asked /\ watcher'[w].drained = drained
    /\ \A v \in Runs \ {w} : watcher'[v] = watcher[v]

LEMMA BecomesIs ==
    ASSUME WatchTyped, NEW w \in Runs, NEW at \in WatcherAts, NEW passed \in SUBSET {"steps", "messages"},
           NEW asked \in Nat, NEW drained \in SUBSET (Nat \X Nat),
           Becomes(w, at, passed, asked, drained)
    PROVE  Became(w, at, passed, asked, drained)
<1>1. [at |-> at, passed |-> passed, asked |-> asked, drained |-> drained] \in Watchings
  BY DEF Watchings
<1> QED
  BY <1>1 DEF WatchTyped, Becomes, Became

LEMMA AwaitsIs ==
    ASSUME WatchTyped, NEW w \in Runs, NEW at, NEW passed,
           watcher' = [watcher EXCEPT ![w].at = at, ![w].passed = passed]
    PROVE  Becomes(w, at, passed, watcher[w].asked, watcher[w].drained)
<1>1. watcher[w] \in Watchings /\ w \in DOMAIN watcher
  BY DEF WatchTyped
<1> DEFINE b == [watcher[w] EXCEPT !.at = at]
           mid == [watcher EXCEPT ![w].at = at]
<1>2. b = [at |-> at, passed |-> watcher[w].passed, asked |-> watcher[w].asked, drained |-> watcher[w].drained]
  BY <1>1 DEF Watchings
<1>3. mid = [watcher EXCEPT ![w] = b] /\ watcher' = [mid EXCEPT ![w].passed = passed]
  OBVIOUS
<1>4. mid[w] = b
  BY <1>1
<1> HIDE DEF b
<1>5. [b EXCEPT !.passed = passed]
      = [at |-> at, passed |-> passed, asked |-> watcher[w].asked, drained |-> watcher[w].drained]
  BY <1>2
<1>6. [mid EXCEPT ![w].passed = passed] = [mid EXCEPT ![w] = [at |-> at, passed |-> passed, asked |-> watcher[w].asked, drained |-> watcher[w].drained]]
  BY <1>4, <1>5
<1>7. [mid EXCEPT ![w] = [at |-> at, passed |-> passed, asked |-> watcher[w].asked, drained |-> watcher[w].drained]]
      = [watcher EXCEPT ![w] = [at |-> at, passed |-> passed, asked |-> watcher[w].asked, drained |-> watcher[w].drained]]
  BY <1>1, <1>3
<1> QED
  BY <1>3, <1>6, <1>7 DEF Becomes

\* The others: three fields at once.
LEMMA VisitIs ==
    ASSUME WatchTyped, NEW w \in Runs, NEW at, NEW passed, NEW asked, NEW drained,
           \/ /\ watcher' = [watcher EXCEPT ![w].at = at, ![w].passed = passed, ![w].asked = asked]
              /\ drained = watcher[w].drained
           \/ /\ watcher' = [watcher EXCEPT ![w].at = at, ![w].passed = passed, ![w].drained = drained]
              /\ asked = watcher[w].asked
           \/ /\ watcher' = [watcher EXCEPT ![w].at = at, ![w].drained = drained]
              /\ asked = watcher[w].asked /\ passed = watcher[w].passed
    PROVE  Becomes(w, at, passed, asked, drained)
<1>1. watcher[w] \in Watchings /\ DOMAIN watcher = Runs /\ watcher = [v \in Runs |-> watcher[v]]
  BY DEF WatchTyped
<1>2. watcher[w] = [at |-> watcher[w].at, passed |-> watcher[w].passed, asked |-> watcher[w].asked, drained |-> watcher[w].drained]
  BY WatcherIs
<1>3. DOMAIN watcher' = Runs /\ (\A v \in Runs \ {w} : watcher'[v] = watcher[v]) /\ watcher' = [v \in Runs |-> watcher'[v]]
  BY <1>1
<1>4. watcher'[w] = [at |-> at, passed |-> passed, asked |-> asked, drained |-> drained]
  <2> DEFINE o == watcher[w]
             b == [at |-> at, passed |-> o.passed, asked |-> o.asked, drained |-> o.drained]
             d == [at |-> at, passed |-> passed, asked |-> o.asked, drained |-> o.drained]
  <2>1. [o EXCEPT !.at = at] = b
    BY <1>1 DEF Watchings
  <2>2. [b EXCEPT !.passed = passed] = d /\ [b EXCEPT !.drained = drained] = [at |-> at, passed |-> o.passed, asked |-> o.asked, drained |-> drained]
    OBVIOUS
  <2>3. /\ [d EXCEPT !.asked = asked] = [at |-> at, passed |-> passed, asked |-> asked, drained |-> o.drained]
        /\ [d EXCEPT !.drained = drained] = [at |-> at, passed |-> passed, asked |-> o.asked, drained |-> drained]
    OBVIOUS
  <2> HIDE DEF b, d
  <2>4. CASE watcher' = [watcher EXCEPT ![w].at = at, ![w].passed = passed, ![w].asked = asked] /\ drained = o.drained
    <3>1. watcher'[w] = [[[o EXCEPT !.at = at] EXCEPT !.passed = passed] EXCEPT !.asked = asked]
      BY <1>1, <2>4
    <3>2. watcher'[w] = [d EXCEPT !.asked = asked]
      BY <2>1, <2>2, <3>1, Zenon
    <3> QED
      BY <2>3, <2>4, <3>2, Zenon
  <2>5. CASE watcher' = [watcher EXCEPT ![w].at = at, ![w].passed = passed, ![w].drained = drained] /\ asked = o.asked
    <3>1. watcher'[w] = [[[o EXCEPT !.at = at] EXCEPT !.passed = passed] EXCEPT !.drained = drained]
      BY <1>1, <2>5
    <3>2. watcher'[w] = [d EXCEPT !.drained = drained]
      BY <2>1, <2>2, <3>1, Zenon
    <3> QED
      BY <2>3, <2>5, <3>2, Zenon
  <2>6. CASE watcher' = [watcher EXCEPT ![w].at = at, ![w].drained = drained] /\ asked = o.asked /\ passed = o.passed
    <3>1. watcher'[w] = [[o EXCEPT !.at = at] EXCEPT !.drained = drained]
      BY <1>1, <2>6
    <3>2. watcher'[w] = [b EXCEPT !.drained = drained]
      BY <2>1, <3>1, Zenon
    <3> QED
      BY <2>2, <2>6, <3>2, Zenon
  <2> QED
    BY <2>4, <2>5, <2>6
<1> QED
  BY <1>1, <1>3, <1>4 DEF Becomes

\* What a step that leaves the server's queues alone must show.
LEMMA WatchStays ==
    ASSUME WatchInv, WatchTyped', UNCHANGED sub, heard \subseteq heard', excused \subseteq excused',
           (\E k \in {"steps", "messages"} : subscriptions'[k] # 0) => AtWork',
           \A k \in {"steps", "messages"} :
               subscriptions[k] = 0 \/ (\E o \in {"steps", "messages"} : subscriptions'[o] = subscriptions[k])
               \/ subscriptions[k] \in excused' \/ ~sub[subscriptions[k]].live,
           \A w \in Runs : \A d \in watcher[w].drained : d \in watcher'[w].drained \/ d \in heard' \/ d[1] \in excused'
    PROVE  WatchInv'
<1>1. WatchTyped /\ Named /\ Delivered
  BY DEF WatchInv
<1>2. Named'
  <2> SUFFICES ASSUME NEW i \in 1..Len(sub), sub[i].live, i \notin excused'
               PROVE  \E k \in {"steps", "messages"} : subscriptions'[k] = i
    BY DEF Named
  <2>1. PICK k \in {"steps", "messages"} : subscriptions[k] = i
    BY <1>1 DEF Named
  <2> QED
    BY <2>1
<1>3. Delivered'
  <2> SUFFICES ASSUME NEW i \in 1..Len(sub), sub[i].live, i \notin excused', NEW e \in sub[i].got
               PROVE  e \in sub[i].queue \/ <<i, e>> \in heard' \/ \E w \in Runs : <<i, e>> \in watcher'[w].drained
    BY DEF Delivered
  <2>1. e \in sub[i].queue \/ <<i, e>> \in heard \/ \E w \in Runs : <<i, e>> \in watcher[w].drained
    BY <1>1 DEF Delivered
  <2>2. ASSUME NEW w \in Runs, <<i, e>> \in watcher[w].drained
        PROVE  <<i, e>> \in watcher'[w].drained \/ <<i, e>> \in heard'
    <3>1. <<i, e>>[1] = i
      OBVIOUS
    <3> QED
      BY <2>2, <3>1
  <2> QED
    BY <2>1, <2>2
<1> QED
  BY <1>2, <1>3 DEF WatchInv

\* A watcher goes on with what it has in hand; the map stays.
LEMMA WatcherGoesOn ==
    ASSUME WatchInv, NEW w \in Runs, NEW at \in {"free", "steps", "messages", "polling", "polled", "deleting", "deleted"},
           NEW passed \in SUBSET {"steps", "messages"}, NEW asked \in 0..Len(sub),
           at \in {"polling", "deleting"} => asked # 0,
           Becomes(w, at, passed, asked, watcher[w].drained), UNCHANGED <<sub, subscriptions, arrived, heard, excused>>
    PROVE  WatchInv'
<1>1. WatchTyped /\ watcher[w].drained \in SUBSET (Nat \X Nat) /\ asked \in Nat /\ Len(sub) \in Nat /\ asked <= Len(sub)
  BY WatcherIs DEF WatchInv, WatchTyped
<1>2. /\ watcher' \in [Runs -> Watchings]
      /\ watcher'[w].at = at /\ watcher'[w].passed = passed /\ watcher'[w].asked = asked
      /\ watcher'[w].drained = watcher[w].drained
      /\ \A v \in Runs \ {w} : watcher'[v] = watcher[v]
  <2>1. at \in WatcherAts
    BY DEF WatcherAts
  <2>2. Became(w, at, passed, asked, watcher[w].drained)
    BY <1>1, <2>1, BecomesIs
  <2> QED
    BY <2>2 DEF Became
<1>3. WatchTyped'
  BY <1>1, <1>2 DEF WatchTyped
<1>4. AtWork'
  BY <1>2 DEF AtWork
<1>5. \A v \in Runs : watcher'[v].drained = watcher[v].drained
  BY <1>2
<1> QED
  BY <1>3, <1>4, <1>5, WatchStays

\* A poll whose updates are returned, or thrown away.
LEMMA WatcherLetsGo ==
    ASSUME WatchInv, NEW w \in Runs, Becomes(w, "free", {}, watcher[w].asked, {}),
           UNCHANGED <<sub, subscriptions, arrived>>, heard \subseteq heard', excused \subseteq excused',
           \A d \in watcher[w].drained : d \in heard' \/ d[1] \in excused'
    PROVE  WatchInv'
<1>1. WatchTyped /\ watcher[w].asked \in Nat /\ watcher[w].asked \in 0..Len(sub) /\ Len(sub) \in Nat
  BY WatcherIs DEF WatchInv, WatchTyped
<1>2. /\ watcher' \in [Runs -> Watchings]
      /\ watcher'[w].at = "free" /\ watcher'[w].asked = watcher[w].asked
      /\ \A v \in Runs \ {w} : watcher'[v] = watcher[v]
  <2>1. "free" \in WatcherAts
    BY DEF WatcherAts
  <2>2. Became(w, "free", {}, watcher[w].asked, {})
    BY <1>1, <2>1, BecomesIs
  <2> QED
    BY <2>2 DEF Became
<1>3. WatchTyped'
  BY <1>1, <1>2 DEF WatchTyped
<1>4. AtWork'
  BY <1>2 DEF AtWork
<1> QED
  BY <1>2, <1>3, <1>4, WatchStays

\* A subscription is made, and heard of or not.
LEMMA WatcherSubscribes ==
    ASSUME WatchInv, NEW w \in Runs, NEW k \in {"steps", "messages"}, NEW at \in {"messages", "free"},
           Becomes(w, at, {}, watcher[w].asked, watcher[w].drained),
           sub' = Append(sub, [kind |-> k, live |-> TRUE, queue |-> {}, got |-> {}]), UNCHANGED <<arrived, heard>>,
           \/ /\ subscriptions' = [subscriptions EXCEPT ![k] = Len(sub) + 1]
              /\ excused' = excused \cup ({subscriptions[k]} \ {0})
           \/ subscriptions' = subscriptions /\ excused' = excused \cup {Len(sub) + 1}
    PROVE  WatchInv'
<1>1. /\ WatchTyped /\ Named /\ Delivered /\ sub \in Seq(Subscription) /\ Len(sub) \in Nat
      /\ subscriptions \in [{"steps", "messages"} -> 0..Len(sub)]
      /\ watcher[w].asked \in Nat /\ watcher[w].asked \in 0..Len(sub) /\ watcher[w].drained \in SUBSET (Nat \X Nat)
  BY WatcherIs DEF WatchInv, WatchTyped
<1>2. /\ watcher' \in [Runs -> Watchings]
      /\ watcher'[w].at = at /\ watcher'[w].asked = watcher[w].asked
      /\ watcher'[w].drained = watcher[w].drained
      /\ \A v \in Runs \ {w} : watcher'[v] = watcher[v]
  <2>1. at \in WatcherAts
    BY DEF WatcherAts
  <2>2. Became(w, at, {}, watcher[w].asked, watcher[w].drained)
    BY <1>1, <2>1, BecomesIs
  <2> QED
    BY <2>2 DEF Became
<1>3. [kind |-> k, live |-> TRUE, queue |-> {}, got |-> {}] \in Subscription
  BY DEF Subscription
<1> DEFINE new == [kind |-> k, live |-> TRUE, queue |-> {}, got |-> {}]
<1>4. new.got = {}
  OBVIOUS
<1> HIDE DEF new
<1>5. /\ sub' \in Seq(Subscription) /\ Len(sub') = Len(sub) + 1 /\ sub'[Len(sub) + 1] = new
      /\ \A i \in 1..Len(sub) : sub'[i] = sub[i]
  <2>1. sub' = Append(sub, new) /\ new \in Subscription
    BY <1>3 DEF new
  <2> QED
    BY <1>1, <2>1
<1>6. subscriptions' \in [{"steps", "messages"} -> 0..Len(sub')]
  BY <1>1, <1>5
<1>7. WatchTyped'
  <2>1. \A v \in Runs : watcher[v].asked <= Len(sub) /\ (watcher[v].at \in {"polling", "deleting"} => watcher[v].asked # 0)
    BY <1>1 DEF WatchTyped
  <2>2. ASSUME NEW v \in Runs
        PROVE  watcher'[v].asked <= Len(sub') /\ (watcher'[v].at \in {"polling", "deleting"} => watcher'[v].asked # 0)
    <3>0. watcher[v].asked \in 0..Len(sub)
      BY <1>1, WatcherIs
    <3>1. watcher[v].asked \in Nat
      BY <1>1, <3>0
    <3>2. CASE v = w
      BY <1>1, <1>2, <1>5, <3>2
    <3>3. CASE v # w
      BY <1>1, <1>2, <1>5, <2>1, <3>1, <3>3
    <3> QED
      BY <3>2, <3>3
  <2>3. arrived' \in Nat
    BY <1>1 DEF WatchTyped
  <2> QED
    BY <1>2, <1>5, <1>6, <2>2, <2>3 DEF WatchTyped
<1>8. AtWork' /\ \A v \in Runs : watcher'[v].drained = watcher[v].drained
  BY <1>2 DEF AtWork
<1>9. Named'
  <2> SUFFICES ASSUME NEW i \in 1..Len(sub'), sub'[i].live, i \notin excused'
               PROVE  \E o \in {"steps", "messages"} : subscriptions'[o] = i
    BY <1>8 DEF Named
  <2>1. CASE i = Len(sub) + 1
    BY <1>1, <2>1
  <2>2. CASE i \in 1..Len(sub)
    <3>1. PICK o \in {"steps", "messages"} : subscriptions[o] = i
      BY <1>1, <1>5, <2>2 DEF Named
    <3>2. (i # 0 /\ i \notin {subscriptions[k]} \ {0}) \/ subscriptions' = subscriptions
      BY <2>2
    <3> QED
      BY <1>1, <2>2, <3>1, <3>2
  <2> QED
    BY <1>5, <2>1, <2>2
<1>10. Delivered'
  <2> SUFFICES ASSUME NEW i \in 1..Len(sub'), sub'[i].live, i \notin excused', NEW e \in sub'[i].got
               PROVE  e \in sub'[i].queue \/ <<i, e>> \in heard' \/ \E v \in Runs : <<i, e>> \in watcher'[v].drained
    BY DEF Delivered
  <2>1. i \in 1..Len(sub)
    BY <1>4, <1>5
  <2> QED
    BY <1>1, <1>5, <1>8, <2>1 DEF Delivered
<1> QED
  BY <1>7, <1>9, <1>10 DEF WatchInv

LEMMA WatchOn == WatchInv /\ [W!Next]_(W!claimVars) => WatchInv'
<1> SUFFICES ASSUME WatchInv, [W!Next]_(W!claimVars) PROVE WatchInv'
  OBVIOUS
<1>0. /\ WatchTyped /\ Named /\ Delivered /\ sub \in Seq(Subscription) /\ Len(sub) \in Nat /\ arrived \in Nat
      /\ watcher \in [Runs -> Watchings] /\ subscriptions \in [{"steps", "messages"} -> 0..Len(sub)]
      /\ W!Kinds = {"steps", "messages"} /\ W!Ids = 1..Len(sub)
      /\ \A i \in 1..Len(sub) : sub[i] \in Subscription
  BY DEF WatchInv, WatchTyped, W!Kinds, W!Ids
<1>01. ASSUME NEW w \in Runs
       PROVE  /\ watcher[w].passed \in SUBSET {"steps", "messages"} /\ watcher[w].asked \in 0..Len(sub)
              /\ watcher[w].drained \in SUBSET (Nat \X Nat)
              /\ watcher[w].at \in {"polling", "deleting"} => watcher[w].asked \in 1..Len(sub)
  <2>1. /\ watcher[w].passed \in SUBSET {"steps", "messages"} /\ watcher[w].asked \in 0..Len(sub)
        /\ watcher[w].drained \in SUBSET (Nat \X Nat)
    BY <1>0, WatcherIs
  <2>2. watcher[w].at \in {"polling", "deleting"} => watcher[w].asked # 0
    BY <1>0 DEF WatchTyped
  <2> QED
    BY <1>0, <2>1, <2>2
<1>1. ASSUME NEW c, W!ClaimStep(c) \/ W!CompleteStep PROVE WatchInv'
  <2>1. UNCHANGED <<sub, subscriptions, watcher, arrived, heard, excused>>
    BY <1>1 DEF W!ClaimStep, W!CompleteStep
  <2> QED
    BY <1>0, <2>1 DEF WatchInv, WatchTyped, Named, AtWork, Delivered
<1>2. ASSUME NEW k \in {"steps", "messages"}, W!Arrive(k) PROVE WatchInv'
  <2>1. /\ arrived' = arrived + 1 /\ UNCHANGED <<subscriptions, watcher, heard, excused>>
        /\ sub' = [i \in 1..Len(sub) |-> IF sub[i].live /\ sub[i].kind = k
                                         THEN [sub[i] EXCEPT !.queue = sub[i].queue \cup {arrived + 1},
                                                             !.got = sub[i].got \cup {arrived + 1}]
                                         ELSE sub[i]]
    BY <1>0, <1>2, Zenon DEF W!Arrive
  <2>2. ASSUME NEW i \in 1..Len(sub)
        PROVE  /\ sub'[i] \in Subscription /\ sub'[i].live = sub[i].live
               /\ \A e \in sub'[i].got : e \in sub[i].got \/ e \in sub'[i].queue
               /\ \A e \in sub[i].queue : e \in sub'[i].queue
    <3>1. sub[i] \in Subscription /\ arrived + 1 \in Nat
      BY <1>0
    <3>2. [sub[i] EXCEPT !.queue = sub[i].queue \cup {arrived + 1}, !.got = sub[i].got \cup {arrived + 1}]
          = [kind |-> sub[i].kind, live |-> sub[i].live, queue |-> sub[i].queue \cup {arrived + 1}, got |-> sub[i].got \cup {arrived + 1}]
      <4> DEFINE s == sub[i]
                 x == s.queue \cup {arrived + 1}
                 y == s.got \cup {arrived + 1}
                 b == [kind |-> s.kind, live |-> s.live, queue |-> x, got |-> s.got]
      <4> HIDE DEF x, y
      <4>1. [s EXCEPT !.queue = x] = b
        BY <3>1 DEF Subscription
      <4>2. [b EXCEPT !.got = y] = [kind |-> s.kind, live |-> s.live, queue |-> x, got |-> y]
        OBVIOUS
      <4>3. [s EXCEPT !.queue = x, !.got = y] = [[s EXCEPT !.queue = x] EXCEPT !.got = y]
        OBVIOUS
      <4>4. [s EXCEPT !.queue = x, !.got = y] = [kind |-> s.kind, live |-> s.live, queue |-> x, got |-> y]
        BY <4>1, <4>2, <4>3
      <4> QED
        BY <4>4 DEF x, y
    <3>3. /\ sub[i].kind \in {"steps", "messages"} /\ sub[i].live \in BOOLEAN
          /\ sub[i].queue \cup {arrived + 1} \subseteq Nat /\ sub[i].got \cup {arrived + 1} \subseteq Nat
      BY <3>1 DEF Subscription
    <3>4. CASE sub[i].live /\ sub[i].kind = k
      <4>1. sub'[i] = [kind |-> sub[i].kind, live |-> sub[i].live, queue |-> sub[i].queue \cup {arrived + 1}, got |-> sub[i].got \cup {arrived + 1}]
        BY <2>1, <3>2, <3>4, Zenon
      <4> QED
        BY <3>3, <4>1 DEF Subscription
    <3>5. CASE ~(sub[i].live /\ sub[i].kind = k)
      BY <2>1, <3>1, <3>5, Zenon
    <3> QED
      BY <3>4, <3>5
  <2>20. sub' \in [1..Len(sub) -> Subscription]
    BY <2>1, <2>2, Zenon
  <2>3. sub' \in Seq(Subscription) /\ Len(sub') = Len(sub)
    <3>1. sub' \in Seq(Subscription)
      <4>1. Seq(Subscription) = UNION {[1..n -> Subscription] : n \in Nat}
        BY SeqDef
      <4>2. \E n \in Nat : sub' \in [1..n -> Subscription]
        BY <1>0, <2>20
      <4> QED
        BY <4>1, <4>2
    <3>2. DOMAIN sub' = 1..Len(sub) /\ DOMAIN sub' = 1..Len(sub') /\ Len(sub') \in Nat
      BY <2>20, <3>1, LenProperties
    <3> QED
      BY <1>0, <3>1, <3>2
  <2>30. \A v \in Runs : watcher[v].asked <= Len(sub) /\ (watcher[v].at \in {"polling", "deleting"} => watcher[v].asked # 0)
    BY <1>0 DEF WatchTyped
  <2>31. arrived' \in Nat /\ UNCHANGED <<subscriptions, watcher>>
    <3>1. arrived \in Nat /\ arrived' = arrived + 1
      BY <1>0, <2>1, Zenon
    <3>2. UNCHANGED <<subscriptions, watcher>>
      BY <2>1, Zenon
    <3>3. arrived' \in Nat
      BY <3>1
    <3> QED
      BY <3>2, <3>3, Zenon
  <2>4. WatchTyped'
    BY <1>0, <2>3, <2>30, <2>31 DEF WatchTyped
  <2>5. Named'
    BY <1>0, <2>1, <2>2, <2>3, Zenon DEF Named, AtWork
  <2>6. Delivered'
    BY <1>0, <2>1, <2>2, <2>3, Zenon DEF Delivered
  <2> QED
    BY <2>4, <2>5, <2>6 DEF WatchInv
<1>3. ASSUME NEW w \in Runs, W!Begin(w) \/ W!Watch(w) PROVE WatchInv'
  <2>1. PICK at \in {"free", "steps"} :
            watcher' = [watcher EXCEPT ![w].at = at, ![w].passed = {}] /\ UNCHANGED <<sub, subscriptions, arrived, heard, excused>>
    BY <1>3 DEF W!Begin, W!Watch, W!Awaits
  <2>2. Becomes(w, at, {}, watcher[w].asked, watcher[w].drained)
    BY <1>0, <2>1, AwaitsIs, Zenon
  <2> QED
    BY <1>01, <2>1, <2>2, WatcherGoesOn
<1>4. ASSUME NEW w \in Runs, NEW k \in {"steps", "messages"}, W!Subscribed(w, k) PROVE WatchInv'
  <2>1. /\ UNCHANGED <<arrived, heard>>
        /\ \/ /\ sub' = Append(sub, [kind |-> k, live |-> TRUE, queue |-> {}, got |-> {}])
              /\ \/ /\ subscriptions' = [subscriptions EXCEPT ![k] = Len(sub) + 1]
                    /\ excused' = excused \cup ({subscriptions[k]} \ {0})
                    /\ \E at \in {"messages", "free"} : watcher' = [watcher EXCEPT ![w].at = at, ![w].passed = {}]
                 \/ /\ excused' = excused \cup {Len(sub) + 1} /\ subscriptions' = subscriptions
                    /\ watcher' = [watcher EXCEPT ![w].at = "free", ![w].passed = {}]
           \/ watcher' = [watcher EXCEPT ![w].at = "free", ![w].passed = {}] /\ UNCHANGED <<sub, subscriptions, excused>>
    BY <1>4 DEF W!Subscribed, W!Awaits
  <2>2. PICK at \in {"messages", "free"} : watcher' = [watcher EXCEPT ![w].at = at, ![w].passed = {}]
    BY <2>1
  <2>3. Becomes(w, at, {}, watcher[w].asked, watcher[w].drained)
    BY <1>0, <2>2, AwaitsIs, Zenon
  <2>30. watcher[w].asked \in 0..Len(sub) /\ UNCHANGED <<arrived, heard>>
    BY <1>01, <2>1
  <2>4. CASE UNCHANGED <<sub, subscriptions, excused>>
    BY <2>3, <2>30, <2>4, WatcherGoesOn
  <2>5. CASE ~UNCHANGED <<sub, subscriptions, excused>>
    BY <2>1, <2>3, <2>5, WatcherSubscribes
  <2> QED
    BY <2>4, <2>5
<1>5. ASSUME NEW w \in Runs, NEW k \in {"steps", "messages"}, W!Poll(w, k) \/ W!Clean(w, k) PROVE WatchInv'
  <2>1. PICK at \in {"polling", "deleting"} :
            /\ watcher' = [watcher EXCEPT ![w].at = at, ![w].passed = watcher[w].passed \cup {k}, ![w].asked = subscriptions[k]]
            /\ UNCHANGED <<sub, subscriptions, arrived, heard, excused>> /\ subscriptions[k] # 0
    BY <1>5 DEF W!Poll, W!Clean, W!Visit, W!NextKind
  <2>2. Becomes(w, at, watcher[w].passed \cup {k}, subscriptions[k], watcher[w].drained)
    BY <1>0, <2>1, VisitIs, Zenon
  <2>3. watcher[w].passed \cup {k} \in SUBSET {"steps", "messages"} /\ subscriptions[k] \in 0..Len(sub)
    BY <1>0, <1>01
  <2> QED
    BY <2>1, <2>2, <2>3, WatcherGoesOn
<1>6. ASSUME NEW w \in Runs, W!PollReturns(w) PROVE WatchInv'
  <2>1. /\ heard' = heard \cup watcher[w].drained /\ UNCHANGED <<sub, subscriptions, arrived, excused>>
        /\ watcher' = [watcher EXCEPT ![w].at = "free", ![w].passed = {}, ![w].drained = {}]
    BY <1>6 DEF W!PollReturns, W!Returned
  <2>2. Becomes(w, "free", {}, watcher[w].asked, {})
    BY <1>0, <2>1, VisitIs, Zenon
  <2> QED
    BY <2>1, <2>2, WatcherLetsGo

<1>7. ASSUME NEW w \in Runs, W!Polled(w) PROVE WatchInv'
  <2> DEFINE id == watcher[w].asked
  <2>0. /\ watcher[w].at = "polling" /\ id \in 1..Len(sub) /\ UNCHANGED <<subscriptions, arrived, heard>>
        /\ \/ /\ sub[id].live /\ sub' = [sub EXCEPT ![id].queue = {}] /\ excused' = excused
              /\ watcher' = [watcher EXCEPT ![w].at = "polled", ![w].drained = watcher[w].drained \cup ({id} \X sub[id].queue)]
           \/ /\ watcher' = [watcher EXCEPT ![w].at = "free", ![w].passed = {}, ![w].drained = {}]
              /\ excused' = excused \cup {d[1] : d \in watcher[w].drained} /\ sub' = sub
    BY <1>01, <1>7 DEF W!Polled
  <2>1. CASE sub' = sub /\ excused' = excused \cup {d[1] : d \in watcher[w].drained}
             /\ watcher' = [watcher EXCEPT ![w].at = "free", ![w].passed = {}, ![w].drained = {}]
    <3>1. Becomes(w, "free", {}, watcher[w].asked, {})
      BY <1>0, <2>1, VisitIs, Zenon
    <3> QED
      BY <2>0, <2>1, <3>1, WatcherLetsGo
  <2>2. CASE /\ sub' = [sub EXCEPT ![id].queue = {}] /\ excused' = excused
             /\ watcher' = [watcher EXCEPT ![w].at = "polled", ![w].drained = watcher[w].drained \cup ({id} \X sub[id].queue)]
    <3> DEFINE taken == watcher[w].drained \cup ({id} \X sub[id].queue)
    <3>1. Becomes(w, "polled", watcher[w].passed, id, taken)
      BY <1>0, <2>2, VisitIs, Zenon
    <3>2. sub[id] \in Subscription /\ sub[id].queue \subseteq Nat /\ id \in Nat
      BY <1>0, <2>0 DEF Subscription
    <3>3. taken \in SUBSET (Nat \X Nat)
      BY <1>01, <3>2
    <3>4. /\ sub' \in Seq(Subscription) /\ Len(sub') = Len(sub)
          /\ \A i \in 1..Len(sub) : sub'[i].live = sub[i].live /\ sub'[i].got = sub[i].got /\ (i # id => sub'[i] = sub[i])
      <4>1. [sub[id] EXCEPT !.queue = {}] \in Subscription
        BY <3>2 DEF Subscription
      <4>2. [sub[id] EXCEPT !.queue = {}].live = sub[id].live /\ [sub[id] EXCEPT !.queue = {}].got = sub[id].got
        BY <3>2 DEF Subscription
      <4>3. sub' = [sub EXCEPT ![id] = [sub[id] EXCEPT !.queue = {}]]
        BY <2>2
      <4>4. sub' \in Seq(Subscription) /\ Len(sub') = Len(sub)
        BY <1>0, <2>0, <4>1, <4>3
      <4>5. sub'[id] = [sub[id] EXCEPT !.queue = {}] /\ \A i \in 1..Len(sub) : i # id => sub'[i] = sub[i]
        <5>1. DOMAIN sub = 1..Len(sub)
          BY <1>0
        <5> HIDE DEF id
        <5> QED
          BY <2>0, <4>3, <5>1
      <4> QED
        BY <4>2, <4>4, <4>5
    <3>5. "polled" \in WatcherAts
      BY DEF WatcherAts
    <3> HIDE DEF taken
    <3>6. Became(w, "polled", watcher[w].passed, id, taken)
      BY <1>0, <1>01, <3>1, <3>2, <3>3, <3>5, BecomesIs
    <3>7. WatchTyped'
      <4>1. \A v \in Runs : watcher'[v].asked <= Len(sub) /\ (watcher'[v].at \in {"polling", "deleting"} => watcher'[v].asked # 0)
        BY <1>0, <1>01, <3>6 DEF WatchTyped, Became
      <4> QED
        BY <1>0, <2>0, <3>4, <3>6, <4>1 DEF WatchTyped, Became
    <3>8. AtWork' /\ (\A v \in Runs : watcher[v].drained \subseteq watcher'[v].drained) /\ {id} \X sub[id].queue \subseteq watcher'[w].drained
      BY <3>6 DEF AtWork, Became, taken
    <3>9. Named'
      <4>1. UNCHANGED <<subscriptions, excused>>
        BY <2>0, <2>2
      <4>2. \A i \in 1..Len(sub') : sub'[i].live => i \in excused' \/ \E k \in {"steps", "messages"} : subscriptions'[k] = i
        BY <1>0, <3>4, <4>1 DEF Named
      <4> QED
        BY <3>8, <4>1, <4>2, <1>0 DEF Named
    <3>10. Delivered'
      <4> SUFFICES ASSUME NEW i \in 1..Len(sub), sub[i].live, i \notin excused, NEW e \in sub[i].got
                   PROVE  e \in sub'[i].queue \/ <<i, e>> \in heard \/ \E v \in Runs : <<i, e>> \in watcher'[v].drained
        BY <2>0, <2>2, <3>4 DEF Delivered
      <4>1. e \in sub[i].queue \/ <<i, e>> \in heard \/ \E v \in Runs : <<i, e>> \in watcher[v].drained
        BY <1>0 DEF Delivered
      <4>2. CASE i = id /\ e \in sub[i].queue
        BY <3>8, <4>2
      <4>3. CASE i # id /\ e \in sub[i].queue
        BY <3>4, <4>3
      <4> QED
        BY <3>8, <4>1, <4>2, <4>3
    <3> QED
      BY <3>7, <3>9, <3>10 DEF WatchInv
  <2> QED
    BY <2>0, <2>1, <2>2
<1>8. ASSUME NEW w \in Runs, W!Deleted(w) PROVE WatchInv'
  <2> DEFINE id == watcher[w].asked
  <2>0. PICK deleted \in BOOLEAN :
            /\ watcher[w].at = "deleting" /\ id \in 1..Len(sub) /\ UNCHANGED <<subscriptions, arrived, heard>>
            /\ sub' = IF deleted THEN [sub EXCEPT ![id].live = FALSE] ELSE sub
            /\ excused' = IF deleted THEN excused ELSE excused \cup {id}
            /\ watcher' = [watcher EXCEPT ![w].at = "deleted", ![w].passed = watcher[w].passed]
    BY <1>01, <1>8 DEF W!Deleted, W!Awaits, W!GoesOn
  <2>1. Becomes(w, "deleted", watcher[w].passed, id, watcher[w].drained)
    BY <1>0, <2>0, AwaitsIs, Zenon
  <2>2. "deleted" \in WatcherAts /\ id \in Nat
    BY <2>0 DEF WatcherAts
  <2>3. Became(w, "deleted", watcher[w].passed, id, watcher[w].drained)
    BY <1>0, <1>01, <2>1, <2>2, BecomesIs
  <2>4. /\ sub' \in Seq(Subscription) /\ Len(sub') = Len(sub)
        /\ \A i \in 1..Len(sub) : /\ sub'[i].live => sub[i].live
                                  /\ sub'[i].got = sub[i].got /\ sub'[i].queue = sub[i].queue
    <3>1. CASE deleted
      <4>0. sub[id] \in Subscription
        BY <1>0, <2>0
      <4>1. [sub[id] EXCEPT !.live = FALSE] \in Subscription
        BY <4>0 DEF Subscription
      <4>2. /\ ~[sub[id] EXCEPT !.live = FALSE].live /\ [sub[id] EXCEPT !.live = FALSE].got = sub[id].got
            /\ [sub[id] EXCEPT !.live = FALSE].queue = sub[id].queue
        BY <4>0 DEF Subscription
      <4>3. sub' = [sub EXCEPT ![id] = [sub[id] EXCEPT !.live = FALSE]]
        BY <2>0, <3>1
      <4>4. sub' \in Seq(Subscription) /\ Len(sub') = Len(sub)
        BY <1>0, <2>0, <4>1, <4>3
      <4>5. sub'[id] = [sub[id] EXCEPT !.live = FALSE] /\ \A i \in 1..Len(sub) : i # id => sub'[i] = sub[i]
        <5>1. DOMAIN sub = 1..Len(sub)
          BY <1>0
        <5> HIDE DEF id
        <5> QED
          BY <2>0, <4>3, <5>1
      <4> QED
        BY <4>2, <4>4, <4>5
    <3>2. CASE ~deleted
      BY <1>0, <2>0, <3>2
    <3> QED
      BY <3>1, <3>2
  <2>5. WatchTyped'
    <3>1. \A v \in Runs : watcher'[v].asked <= Len(sub) /\ (watcher'[v].at \in {"polling", "deleting"} => watcher'[v].asked # 0)
      BY <1>0, <1>01, <2>3 DEF WatchTyped, Became
    <3> QED
      BY <1>0, <2>0, <2>3, <2>4, <3>1 DEF WatchTyped, Became
  <2>6. AtWork' /\ (\A v \in Runs : watcher'[v].drained = watcher[v].drained) /\ excused \subseteq excused'
    BY <2>0, <2>3 DEF AtWork, Became
  <2>7. Named'
    BY <1>0, <2>0, <2>4, <2>6 DEF Named
  <2>8. Delivered'
    BY <1>0, <2>0, <2>4, <2>6 DEF Delivered
  <2> QED
    BY <2>5, <2>7, <2>8 DEF WatchInv
<1>9. ASSUME NEW w \in Runs, W!Cleared(w) PROVE WatchInv'
  <2>1. /\ subscriptions' = [k \in {"steps", "messages"} |-> 0] /\ UNCHANGED <<sub, arrived, heard>>
        /\ excused' = excused \cup {i \in {subscriptions[k] : k \in {"steps", "messages"}} \ {0} : sub[i].live}
        /\ watcher' = [v \in Runs |-> IF v = w THEN [watcher[v] EXCEPT !.at = "over", !.passed = {}]
                                      ELSE [watcher[v] EXCEPT !.passed = {}]]
    BY <1>0, <1>9, Zenon DEF W!Cleared
  <2>2. ASSUME NEW v \in Runs
        PROVE  /\ watcher'[v] \in Watchings /\ watcher'[v].drained = watcher[v].drained
               /\ watcher'[v].asked = watcher[v].asked /\ watcher'[v].at \in {watcher[v].at, "over"}
    <3> DEFINE o == watcher[v]
               b == [at |-> "over", passed |-> o.passed, asked |-> o.asked, drained |-> o.drained]
    <3>0. o \in Watchings
      BY <1>0
    <3>1. [o EXCEPT !.passed = {}] = [at |-> o.at, passed |-> {}, asked |-> o.asked, drained |-> o.drained]
      BY <3>0 DEF Watchings
    <3>2. [o EXCEPT !.at = "over"] = b
      BY <3>0 DEF Watchings
    <3>3. [b EXCEPT !.passed = {}] = [at |-> "over", passed |-> {}, asked |-> o.asked, drained |-> o.drained]
      OBVIOUS
    <3>4. [o EXCEPT !.at = "over", !.passed = {}] = [[o EXCEPT !.at = "over"] EXCEPT !.passed = {}]
      OBVIOUS
    <3>5. watcher'[v] = [at |-> IF v = w THEN "over" ELSE o.at, passed |-> {}, asked |-> o.asked, drained |-> o.drained]
      <4>1. watcher'[v] = IF v = w THEN [o EXCEPT !.at = "over", !.passed = {}] ELSE [o EXCEPT !.passed = {}]
        BY <2>1, Zenon
      <4> HIDE DEF o, b
      <4> QED
        BY <3>1, <3>2, <3>3, <3>4, <4>1
    <3>6. /\ o.at \in WatcherAts /\ o.asked \in Nat /\ o.drained \in SUBSET (Nat \X Nat) /\ "over" \in WatcherAts
      BY <3>0 DEF Watchings, WatcherAts
    <3> QED
      BY <3>5, <3>6 DEF Watchings
  <2>3. watcher' \in [Runs -> Watchings]
    BY <2>1, <2>2, Zenon
  <2>4. subscriptions' \in [{"steps", "messages"} -> 0..Len(sub)] /\ \A k \in {"steps", "messages"} : subscriptions'[k] = 0
    <3>1. 0 \in 0..Len(sub)
      BY <1>0
    <3> QED
      BY <2>1, <3>1, Zenon
  <2>5. WatchTyped'
    <3>1. \A v \in Runs : watcher'[v].asked <= Len(sub) /\ (watcher'[v].at \in {"polling", "deleting"} => watcher'[v].asked # 0)
      BY <1>0, <2>2 DEF WatchTyped
    <3> QED
      BY <1>0, <2>1, <2>3, <2>4, <3>1, Zenon DEF WatchTyped
  <2>6. \A k \in {"steps", "messages"} : subscriptions[k] = 0 \/ subscriptions[k] \in excused' \/ ~sub[subscriptions[k]].live
    BY <2>1, Zenon
  <2> QED
    BY <2>1, <2>2, <2>4, <2>5, <2>6, WatchStays, Zenon
<1>10. CASE UNCHANGED W!claimVars
  <2>1. UNCHANGED <<sub, subscriptions, watcher, arrived, heard, excused>>
    BY <1>10 DEF W!claimVars
  <2> QED
    BY <1>0, <2>1 DEF WatchInv, WatchTyped, Named, AtWork, Delivered
<1> QED
  BY <1>0, <1>1, <1>2, <1>3, <1>4, <1>5, <1>6, <1>7, <1>8, <1>9, <1>10 DEF W!Next

LEMMA WatchSound == WatchInv => W!SubscriptionsEnd /\ W!UpdatesAreHeard
<1> SUFFICES ASSUME WatchInv PROVE W!SubscriptionsEnd /\ W!UpdatesAreHeard
  OBVIOUS
<1>1. /\ W!Live = {i \in 1..Len(sub) : sub[i].live} /\ Named /\ Delivered
      /\ subscriptions \in [{"steps", "messages"} -> 0..Len(sub)]
  BY DEF W!Live, W!Ids, WatchInv, WatchTyped
<1>2. W!SubscriptionsEnd
  BY <1>1 DEF W!SubscriptionsEnd, Named, AtWork
<1>3. W!UpdatesAreHeard
  BY <1>1, Zenon DEF W!UpdatesAreHeard, Delivered
<1> QED
  BY <1>2, <1>3

\* Remote checkpoints. Whatever is in the list or on its way into it is no older
\* process's and was not cleared; unless saves overlap, it ends with the last one made.
SaveRecords == [saving : Nat, saved : Nat, loaded : Nat]

SavesTyped ==
    /\ saves \in Nat /\ past \subseteq 1..saves /\ contended \in BOOLEAN
    /\ localCache \in Seq(Nat) /\ \A i \in 1..Len(localCache) : localCache[i] \in 1..saves
    /\ writer \in [Runs -> SaveRecords]
    /\ \A w \in Runs : writer[w].saving <= saves /\ writer[w].saved <= saves
    /\ graph \in [nodes : SUBSET Nat, followed_by : SUBSET (Nat \X Nat)]
    /\ \A e \in graph.followed_by : e[1] < e[2] /\ e[2] <= saves

Current ==
    /\ \A i \in 1..Len(localCache) : localCache[i] \notin past
    /\ \A w \in Runs : /\ writer[w].saving \notin past /\ writer[w].loaded \notin past
                       /\ writer[w].saved # 0 => localCache # <<>>

OneAfterTheOther ==
    /\ \A w \in Runs : writer[w].saving # 0 => writer[w].saving = saves
    /\ (\A w \in Runs : writer[w].saving = 0) => M!Newest \in {0, saves}
    /\ \A w \in Runs : writer[w].saved # 0 => M!Newest >= writer[w].saved
    /\ \A e, f \in graph.followed_by : e[1] = f[1] => e = f
    /\ \A e \in graph.followed_by : e[1] \in past => e[2] \in past

SavesInv == SavesTyped /\ Current /\ (~contended => OneAfterTheOther)

LEMMA NewestIs ==
    ASSUME SavesTyped
    PROVE  /\ M!Newest \in 0..saves
           /\ localCache = <<>> => M!Newest = 0
           /\ localCache # <<>> => Len(localCache) \in 1..Len(localCache) /\ M!Newest = localCache[Len(localCache)] /\ M!Newest # 0
<1>1. localCache \in Seq(Nat) /\ saves \in Nat /\ (\A i \in 1..Len(localCache) : localCache[i] \in 1..saves)
  BY DEF SavesTyped
<1>2. CASE localCache = <<>>
  BY <1>1, <1>2 DEF M!Newest, M!None
<1>3. CASE localCache # <<>>
  <2>1. Len(localCache) \in 1..Len(localCache)
    BY <1>1, <1>3
  <2>2. M!Newest = localCache[Len(localCache)]
    BY <1>3 DEF M!Newest
  <2>3. localCache[Len(localCache)] \in 1..saves
    BY <1>1, <2>1
  <2> QED
    BY <1>1, <1>3, <2>1, <2>2, <2>3
<1> QED
  BY <1>2, <1>3

LEMMA SavesStart == M!Init => SavesInv
<1> SUFFICES ASSUME M!Init PROVE SavesInv
  OBVIOUS
<1>1. /\ localCache = <<>> /\ graph = [nodes |-> {}, followed_by |-> {}] /\ saves = 0 /\ contended = FALSE /\ past = {}
      /\ writer = [w \in Runs |-> [saving |-> 0, saved |-> 0, loaded |-> 0]]
  BY DEF M!Init, M!Idle, M!None
<1>2. [saving |-> 0, saved |-> 0, loaded |-> 0] \in SaveRecords
  BY DEF SaveRecords
<1>3. writer \in [Runs -> SaveRecords] /\ \A w \in Runs : writer[w].saving = 0 /\ writer[w].saved = 0 /\ writer[w].loaded = 0
  BY <1>1, <1>2
<1>4. Len(localCache) = 0 /\ localCache \in Seq(Nat) /\ graph.followed_by = {}
  BY <1>1
<1>5. graph \in [nodes : SUBSET Nat, followed_by : SUBSET (Nat \X Nat)]
  BY <1>1
<1>6. SavesTyped
  <2>1. saves \in Nat /\ past \subseteq 1..saves /\ contended \in BOOLEAN /\ saves = 0
    BY <1>1
  <2>2. \A w \in Runs : writer[w].saving <= saves /\ writer[w].saved <= saves
    BY <1>3, <2>1
  <2> QED
    BY <1>3, <1>4, <1>5, <2>1, <2>2 DEF SavesTyped
<1>7. Current
  BY <1>1, <1>3, <1>4 DEF Current
<1>8. OneAfterTheOther
  BY <1>1, <1>3, <1>4, <1>6, NewestIs DEF OneAfterTheOther
<1> QED
  BY <1>6, <1>7, <1>8 DEF SavesInv

\* What one writer becomes.
WriterTo(w, saving, saved, loaded) ==
    writer' = [writer EXCEPT ![w] = [saving |-> saving, saved |-> saved, loaded |-> loaded]]

LEMMA WriterIs ==
    ASSUME writer \in [Runs -> SaveRecords], NEW w \in Runs, NEW x \in Nat, NEW y \in Nat, NEW z \in Nat, WriterTo(w, x, y, z)
    PROVE  /\ writer' \in [Runs -> SaveRecords]
           /\ writer'[w].saving = x /\ writer'[w].saved = y /\ writer'[w].loaded = z
           /\ \A v \in Runs \ {w} : writer'[v] = writer[v]
<1>1. [saving |-> x, saved |-> y, loaded |-> z] \in SaveRecords
  BY DEF SaveRecords
<1> QED
  BY <1>1 DEF WriterTo

LEMMA SaveStep ==
    ASSUME SavesInv, NEW w \in Runs, M!Save(w)
    PROVE  SavesInv'
<1> DEFINE id == saves + 1
<1>0. /\ SavesTyped /\ Current /\ (~contended => OneAfterTheOther) /\ saves \in Nat /\ past \subseteq 1..saves
      /\ contended \in BOOLEAN /\ localCache \in Seq(Nat) /\ (\A i \in 1..Len(localCache) : localCache[i] \in 1..saves)
      /\ writer \in [Runs -> SaveRecords] /\ writer[w] \in SaveRecords
      /\ graph \in [nodes : SUBSET Nat, followed_by : SUBSET (Nat \X Nat)]
  BY DEF SavesInv, SavesTyped
<1>01. ASSUME NEW v \in Runs
       PROVE  /\ writer[v].saving \in 0..saves /\ writer[v].saved \in 0..saves /\ writer[v].loaded \in Nat
              /\ writer[v].saving \notin past /\ writer[v].loaded \notin past
              /\ writer[v].saved # 0 => localCache # <<>>
  <2>1. writer[v] \in SaveRecords /\ writer[v].saving <= saves /\ writer[v].saved <= saves
    BY <1>0 DEF SavesTyped
  <2>2. writer[v].saving \in Nat /\ writer[v].saved \in Nat /\ writer[v].loaded \in Nat
    BY <2>1 DEF SaveRecords
  <2> QED
    BY <1>0, <2>1, <2>2 DEF Current
<1>1. /\ writer[w].saving = 0 /\ saves' = saves + 1 /\ UNCHANGED <<localCache, past>>
      /\ contended' = (contended \/ \E o \in Runs : writer[o].saving # 0)
      /\ \/ graph' = [nodes |-> graph.nodes \cup {id}, followed_by |-> graph.followed_by \cup M!Link(id)]
         \/ graph' = graph
      /\ writer' = [writer EXCEPT ![w].saving = id]
  BY DEF M!Save, M!None
<1>2. WriterTo(w, id, writer[w].saved, writer[w].loaded)
  <2>0. writer[w] \in SaveRecords
    BY <1>0
  <2> HIDE DEF id
  <2>1. [writer[w] EXCEPT !.saving = id] = [saving |-> id, saved |-> writer[w].saved, loaded |-> writer[w].loaded]
    BY <2>0 DEF SaveRecords
  <2> QED
    BY <1>1, <2>1 DEF WriterTo
<1>3. /\ writer' \in [Runs -> SaveRecords]
      /\ writer'[w].saving = id /\ writer'[w].saved = writer[w].saved /\ writer'[w].loaded = writer[w].loaded
      /\ \A v \in Runs \ {w} : writer'[v] = writer[v]
  <2>1. id \in Nat /\ writer[w].saved \in Nat /\ writer[w].loaded \in Nat
    BY <1>0, <1>01
  <2> HIDE DEF id
  <2> QED
    BY <1>0, <1>2, <2>1, WriterIs
<1>4. M!Newest' = M!Newest /\ M!Newest \in 0..saves /\ (M!Newest # 0 => localCache # <<>> /\ M!Newest \notin past)
  <2>1. M!Newest' = M!Newest
    BY <1>1 DEF M!Newest
  <2> QED
    BY <1>0, <2>1, NewestIs DEF Current
<1>5. M!Link(id) = IF M!Newest = 0 THEN {} ELSE {<<M!Newest, id>>}
  BY DEF M!Link, M!None
<1>6. /\ graph' \in [nodes : SUBSET Nat, followed_by : SUBSET (Nat \X Nat)]
      /\ \A e \in graph'.followed_by : e \in graph.followed_by \/ (e = <<M!Newest, id>> /\ M!Newest # 0)
  <2>1. id \in Nat /\ M!Link(id) \subseteq Nat \X Nat
    BY <1>0, <1>4, <1>5
  <2>2. CASE graph' = graph
    BY <1>0, <2>2
  <2>3. CASE graph' = [nodes |-> graph.nodes \cup {id}, followed_by |-> graph.followed_by \cup M!Link(id)]
    <3>1. graph.nodes \cup {id} \in SUBSET Nat /\ graph.followed_by \cup M!Link(id) \in SUBSET (Nat \X Nat)
      BY <1>0, <2>1
    <3>2. graph'.followed_by = graph.followed_by \cup M!Link(id)
      BY <2>3
    <3>3. graph' \in [nodes : SUBSET Nat, followed_by : SUBSET (Nat \X Nat)]
      BY <2>3, <3>1
    <3> QED
      BY <1>5, <3>2, <3>3
  <2> QED
    BY <1>1, <2>2, <2>3
<1>7. \A e \in graph.followed_by : e[1] < e[2] /\ e[2] <= saves /\ e[1] \in Nat /\ e[2] \in Nat
  BY <1>0 DEF SavesTyped
<1>8. SavesTyped'
  <2>1. \A v \in Runs : writer'[v].saving <= saves' /\ writer'[v].saved <= saves'
    BY <1>0, <1>01, <1>1, <1>3
  <2>2. ASSUME NEW e \in graph'.followed_by PROVE e[1] < e[2] /\ e[2] <= saves'
    <3>1. CASE e \in graph.followed_by
      BY <1>0, <1>1, <1>7, <3>1
    <3>2. CASE e = <<M!Newest, id>>
      <4>1. e[1] = M!Newest /\ e[2] = id
        BY <3>2
      <4> QED
        BY <1>0, <1>1, <1>4, <4>1
    <3> QED
      BY <1>6, <3>1, <3>2
  <2>3. saves' \in Nat /\ past' \subseteq 1..saves' /\ contended' \in BOOLEAN /\ localCache' \in Seq(Nat)
        /\ \A i \in 1..Len(localCache') : localCache'[i] \in 1..saves'
    BY <1>0, <1>1
  <2> QED
    BY <1>3, <1>6, <2>1, <2>2, <2>3 DEF SavesTyped
<1>9. Current'
  <2>1. id \notin past
    BY <1>0
  <2>2. ASSUME NEW v \in Runs
        PROVE  /\ writer'[v].saving \notin past /\ writer'[v].loaded \notin past
               /\ writer'[v].saved # 0 => localCache # <<>>
    BY <1>01, <1>3, <2>1
  <2> QED
    BY <1>0, <1>1, <2>2 DEF Current
<1>10. ASSUME ~contended' PROVE OneAfterTheOther'
  <2>1. ~contended /\ (\A o \in Runs : writer[o].saving = 0) /\ OneAfterTheOther /\ M!Newest \in {0, saves}
    BY <1>0, <1>1, <1>10 DEF OneAfterTheOther
  <2>2. \A v \in Runs : writer'[v].saving # 0 => writer'[v].saving = saves'
    BY <1>1, <1>3, <2>1
  <2>3. writer'[w].saving # 0
    BY <1>0, <1>3
  <2>4. \A v \in Runs : writer'[v].saved # 0 => M!Newest >= writer'[v].saved
    BY <1>3, <2>1 DEF OneAfterTheOther
  <2>5. \A e, f \in graph'.followed_by : e[1] = f[1] => e = f
    <3> SUFFICES ASSUME NEW e \in graph'.followed_by, NEW f \in graph'.followed_by, e[1] = f[1] PROVE e = f
      OBVIOUS
    <3>1. \A g \in graph.followed_by : g[1] # saves /\ g[1] \in Nat
      BY <1>0, <1>7
    <3>2. \A g \in graph'.followed_by : g \in graph.followed_by \/ (g = <<saves, id>> /\ g[1] = saves)
      BY <1>6, <2>1
    <3>3. \A g, h \in graph.followed_by : g[1] = h[1] => g = h
      BY <2>1 DEF OneAfterTheOther
    <3> QED
      BY <3>1, <3>2, <3>3
  <2>6. \A e \in graph'.followed_by : e[1] \in past => e[2] \in past
    <3> SUFFICES ASSUME NEW e \in graph'.followed_by, e[1] \in past PROVE e[2] \in past
      OBVIOUS
    <3>1. CASE e \in graph.followed_by
      BY <2>1, <3>1 DEF OneAfterTheOther
    <3>2. CASE e = <<M!Newest, id>> /\ M!Newest # 0
      <4>1. e[1] = M!Newest
        BY <3>2
      <4> QED
        BY <1>4, <3>2, <4>1
    <3> QED
      BY <1>6, <3>1, <3>2
  <2> QED
    BY <1>1, <1>4, <2>2, <2>3, <2>4, <2>5, <2>6 DEF OneAfterTheOther
<1> QED
  BY <1>8, <1>9, <1>10 DEF SavesInv

LEMMA SavedStep ==
    ASSUME SavesInv, NEW w \in Runs, M!Saved(w)
    PROVE  SavesInv'
<1> DEFINE id == writer[w].saving
           list == Append(localCache, id)
<1>0. /\ SavesTyped /\ Current /\ (~contended => OneAfterTheOther) /\ saves \in Nat /\ past \subseteq 1..saves
      /\ contended \in BOOLEAN /\ localCache \in Seq(Nat) /\ (\A i \in 1..Len(localCache) : localCache[i] \in 1..saves)
      /\ writer \in [Runs -> SaveRecords] /\ writer[w] \in SaveRecords /\ MaxCached \in Nat \ {0}
      /\ \A i \in 1..Len(localCache) : localCache[i] \notin past
  BY AgentsConstants DEF SavesInv, SavesTyped, Current
<1>01. ASSUME NEW v \in Runs
       PROVE  /\ writer[v].saving \in 0..saves /\ writer[v].saved \in 0..saves /\ writer[v].loaded \in Nat
              /\ writer[v].saving \notin past /\ writer[v].loaded \notin past
  <2>1. writer[v] \in SaveRecords /\ writer[v].saving <= saves /\ writer[v].saved <= saves
    BY <1>0 DEF SavesTyped
  <2>2. writer[v].saving \in Nat /\ writer[v].saved \in Nat /\ writer[v].loaded \in Nat
    BY <2>1 DEF SaveRecords
  <2> QED
    BY <1>0, <2>1, <2>2 DEF Current
<1>1. /\ id # 0 /\ localCache' = M!Bounded(list) /\ UNCHANGED <<graph, saves, contended, past>>
      /\ writer' = [writer EXCEPT ![w] = [writer[w] EXCEPT !.saving = 0, !.saved = id]]
  BY DEF M!Saved, M!None
<1>2. WriterTo(w, 0, id, writer[w].loaded)
  <2> DEFINE o == writer[w]
             b == [saving |-> 0, saved |-> o.saved, loaded |-> o.loaded]
  <2>1. [o EXCEPT !.saving = 0] = b
    BY <1>0 DEF SaveRecords
  <2>2. [b EXCEPT !.saved = id] = [saving |-> 0, saved |-> id, loaded |-> o.loaded]
    OBVIOUS
  <2>3. [o EXCEPT !.saving = 0, !.saved = id] = [[o EXCEPT !.saving = 0] EXCEPT !.saved = id]
    OBVIOUS
  <2>4. [o EXCEPT !.saving = 0, !.saved = id] = [saving |-> 0, saved |-> id, loaded |-> o.loaded]
    BY <2>1, <2>2, <2>3
  <2> QED
    BY <1>1, <2>4 DEF WriterTo
<1>3. /\ writer' \in [Runs -> SaveRecords]
      /\ writer'[w].saving = 0 /\ writer'[w].saved = id /\ writer'[w].loaded = writer[w].loaded
      /\ \A v \in Runs \ {w} : writer'[v] = writer[v]
  <2>1. id \in Nat /\ writer[w].loaded \in Nat /\ 0 \in Nat
    BY <1>0, <1>01
  <2> HIDE DEF id
  <2> QED
    BY <1>0, <1>2, <2>1, WriterIs
<1>4. id \in 1..saves /\ id \notin past /\ id \in Nat
  BY <1>0, <1>01, <1>1
<1>5. /\ list \in Seq(Nat) /\ Len(list) = Len(localCache) + 1 /\ list[Len(list)] = id
      /\ \A i \in 1..Len(list) : list[i] \in 1..saves /\ list[i] \notin past
  <2> HIDE DEF id
  <2>1. /\ list \in Seq(Nat) /\ Len(list) = Len(localCache) + 1 /\ list[Len(localCache) + 1] = id
        /\ \A i \in 1..Len(localCache) : list[i] = localCache[i]
    BY <1>0, <1>4, AppendProperties
  <2>2. Len(localCache) \in Nat
    BY <1>0
  <2> HIDE DEF list
  <2>3. \A i \in 1..Len(list) : i = Len(localCache) + 1 \/ i \in 1..Len(localCache)
    BY <2>1, <2>2
  <2> QED
    BY <1>0, <1>4, <2>1, <2>3
<1>6. /\ localCache' \in Seq(Nat) /\ localCache' # <<>> /\ localCache'[Len(localCache')] = id
      /\ \A i \in 1..Len(localCache') : localCache'[i] \in 1..saves /\ localCache'[i] \notin past
  <2> HIDE DEF list, id
  <2>0. Len(localCache) \in Nat
    BY <1>0
  <2>1. CASE Len(list) > MaxCached
    <3>1. localCache' = Tail(list) /\ list # <<>> /\ Len(list) \in Nat /\ Len(list) > 1
      BY <1>0, <1>1, <1>5, <2>0, <2>1 DEF M!Bounded
    <3>2. localCache' \in Seq(Nat) /\ Len(localCache') = Len(list) - 1 /\ \A i \in 1..Len(localCache') : localCache'[i] = list[i + 1]
      BY <1>5, <3>1
    <3>3. \A i \in 1..Len(localCache') : i + 1 \in 1..Len(list)
      BY <3>1, <3>2
    <3>4. Len(localCache') \in 1..Len(localCache') /\ Len(localCache') + 1 = Len(list)
      BY <3>1, <3>2
    <3>5. localCache' # <<>> /\ localCache'[Len(localCache')] = id
      <4>1. localCache'[Len(localCache')] = list[Len(list)]
        BY <3>2, <3>4, Zenon
      <4>2. localCache' # <<>>
        BY <3>2, <3>4
      <4> QED
        BY <1>5, <4>1, <4>2, Zenon
    <3>6. \A i \in 1..Len(localCache') : localCache'[i] \in 1..saves /\ localCache'[i] \notin past
      BY <1>5, <3>2, <3>3, Zenon
    <3> QED
      BY <3>2, <3>5, <3>6, Zenon
  <2>2. CASE ~(Len(list) > MaxCached)
    <3>1. localCache' = list /\ list # <<>>
      BY <1>1, <1>5, <2>0, <2>2 DEF M!Bounded
    <3> QED
      BY <1>5, <3>1
  <2> QED
    BY <2>1, <2>2
<1>7. M!Newest' = id
  BY <1>6 DEF M!Newest
<1>8. SavesTyped'
  <2>1. \A v \in Runs : writer'[v].saving <= saves' /\ writer'[v].saved <= saves'
    BY <1>0, <1>01, <1>1, <1>3
  <2>2. \A i \in 1..Len(localCache') : localCache'[i] \in 1..saves'
    BY <1>1, <1>6
  <2>3. /\ saves' \in Nat /\ past' \subseteq 1..saves' /\ contended' \in BOOLEAN
        /\ graph' \in [nodes : SUBSET Nat, followed_by : SUBSET (Nat \X Nat)]
        /\ \A e \in graph'.followed_by : e[1] < e[2] /\ e[2] <= saves'
    BY <1>0, <1>1 DEF SavesTyped
  <2> QED
    BY <1>3, <1>6, <2>1, <2>2, <2>3 DEF SavesTyped
<1>9. Current'
  <2>1. 0 \notin past
    BY <1>0
  <2>2. ASSUME NEW v \in Runs PROVE writer'[v].saving \notin past /\ writer'[v].loaded \notin past
    BY <1>01, <1>3, <2>1
  <2> QED
    BY <1>1, <1>6, <2>2 DEF Current
<1>10. ASSUME ~contended PROVE OneAfterTheOther'
  <2>1. OneAfterTheOther /\ id = saves
    BY <1>0, <1>1, <1>10 DEF OneAfterTheOther
  <2>2. \A v \in Runs : writer'[v].saving # 0 => writer'[v].saving = saves'
    BY <1>1, <1>3, <2>1 DEF OneAfterTheOther
  <2>3. \A v \in Runs : writer'[v].saved # 0 => M!Newest' >= writer'[v].saved
    BY <1>0, <1>01, <1>3, <1>7, <2>1
  <2> QED
    BY <1>1, <1>7, <2>1, <2>2, <2>3 DEF OneAfterTheOther
<1> QED
  BY <1>1, <1>8, <1>9, <1>10 DEF SavesInv

\* The list is gone, and with it what the writers knew of it.
LEMMA SavesDropped ==
    ASSUME SavesInv, localCache' = <<>>, UNCHANGED <<graph, saves>>, contended' \in BOOLEAN, contended => contended',
           past' \subseteq 1..saves, ~contended' => past' = 1..saves, writer' \in [Runs -> SaveRecords],
           \A v \in Runs : /\ writer'[v].saving <= saves /\ writer'[v].saved = 0 /\ writer'[v].loaded = 0
                           /\ writer'[v].saving \notin past' /\ (~contended' => writer'[v].saving = 0)
    PROVE  SavesInv'
<1>0. /\ SavesTyped /\ (~contended => OneAfterTheOther) /\ saves \in Nat
      /\ graph \in [nodes : SUBSET Nat, followed_by : SUBSET (Nat \X Nat)]
      /\ \A e \in graph.followed_by : e[1] < e[2] /\ e[2] <= saves /\ e[1] \in Nat /\ e[2] \in Nat
  BY DEF SavesInv, SavesTyped
<1>1. Len(localCache') = 0 /\ localCache' \in Seq(Nat)
  OBVIOUS
<1>2. M!Newest' = 0
  BY DEF M!Newest, M!None
<1>3. SavesTyped'
  <2>1. \A i \in 1..Len(localCache') : localCache'[i] \in 1..saves'
    BY <1>1
  <2>2. \A v \in Runs : writer'[v].saving <= saves' /\ writer'[v].saved <= saves'
    BY <1>0
  <2>3. saves' \in Nat /\ past' \subseteq 1..saves'
    BY <1>0
  <2>4. /\ graph' \in [nodes : SUBSET Nat, followed_by : SUBSET (Nat \X Nat)]
        /\ \A e \in graph'.followed_by : e[1] < e[2] /\ e[2] <= saves'
    BY <1>0
  <2> QED
    BY <1>1, <2>1, <2>2, <2>3, <2>4 DEF SavesTyped
<1>4. Current'
  <2>1. 0 \notin past'
    BY <1>0
  <2> QED
    BY <1>1, <2>1 DEF Current
<1>5. ASSUME ~contended' PROVE OneAfterTheOther'
  <2>1. OneAfterTheOther
    BY <1>0, <1>5
  <2>2. \A e \in graph.followed_by : e[2] \in past'
    <3> SUFFICES ASSUME NEW e \in graph.followed_by PROVE e[2] \in past'
      OBVIOUS
    <3>1. e[2] \in 1..saves
      BY <1>0
    <3> QED
      BY <1>5, <3>1
  <2> QED
    BY <1>2, <1>5, <2>1, <2>2 DEF OneAfterTheOther
<1> QED
  BY <1>3, <1>4, <1>5 DEF SavesInv

LEMMA ThrowStep ==
    ASSUME SavesInv, NEW w \in Runs, M!SaveThrows(w)
    PROVE  SavesInv'
<1>0. /\ SavesTyped /\ Current /\ saves \in Nat /\ past \subseteq 1..saves /\ writer \in [Runs -> SaveRecords]
  BY DEF SavesInv, SavesTyped
<1>1. /\ writer' = [writer EXCEPT ![w].saving = 0] /\ contended' = TRUE
      /\ UNCHANGED <<localCache, graph, saves, past>>
  BY DEF M!SaveThrows, M!None
<1>2. /\ writer[w].saved \in Nat /\ writer[w].loaded \in Nat
      /\ [writer[w] EXCEPT !.saving = 0] = [saving |-> 0, saved |-> writer[w].saved, loaded |-> writer[w].loaded]
  <2>1. writer[w] \in SaveRecords
    BY <1>0
  <2> QED
    BY <2>1 DEF SaveRecords
<1>3. WriterTo(w, 0, writer[w].saved, writer[w].loaded)
  BY <1>1, <1>2 DEF WriterTo
<1>4. /\ writer' \in [Runs -> SaveRecords] /\ writer'[w].saving = 0 /\ writer'[w].saved = writer[w].saved
      /\ writer'[w].loaded = writer[w].loaded /\ \A v \in Runs \ {w} : writer'[v] = writer[v]
  BY <1>0, <1>2, <1>3, WriterIs
<1>5. SavesTyped'
  <2>1. \A v \in Runs : writer'[v].saving <= saves /\ writer'[v].saved <= saves
    BY <1>0, <1>4 DEF SavesTyped
  <2> QED
    BY <1>0, <1>1, <1>4, <2>1 DEF SavesTyped
<1>6. Current'
  <2>1. 0 \notin past
    BY <1>0
  <2> QED
    BY <1>0, <1>1, <1>4, <2>1 DEF Current
<1> QED
  BY <1>1, <1>5, <1>6 DEF SavesInv

LEMMA SavesStep == SavesInv /\ [M!Next]_(M!checkpointVars) => SavesInv'
<1> SUFFICES ASSUME SavesInv, [M!Next]_(M!checkpointVars) PROVE SavesInv'
  OBVIOUS
<1>0. /\ SavesTyped /\ Current /\ (~contended => OneAfterTheOther) /\ saves \in Nat /\ past \subseteq 1..saves
      /\ contended \in BOOLEAN /\ localCache \in Seq(Nat) /\ (\A i \in 1..Len(localCache) : localCache[i] \in 1..saves)
      /\ writer \in [Runs -> SaveRecords]
      /\ graph \in [nodes : SUBSET Nat, followed_by : SUBSET (Nat \X Nat)]
      /\ \A e \in graph.followed_by : e[1] < e[2] /\ e[2] <= saves /\ e[1] \in Nat /\ e[2] \in Nat
      /\ \A i \in 1..Len(localCache) : localCache[i] \notin past
  BY DEF SavesInv, SavesTyped, Current
<1>01. ASSUME NEW v \in Runs
       PROVE  /\ writer[v] = [saving |-> writer[v].saving, saved |-> writer[v].saved, loaded |-> writer[v].loaded]
              /\ writer[v].saving \in 0..saves /\ writer[v].saved \in 0..saves /\ writer[v].loaded \in Nat
              /\ writer[v].saving \notin past /\ writer[v].loaded \notin past
              /\ writer[v].saved # 0 => localCache # <<>>
  <2>1. writer[v] \in SaveRecords /\ writer[v].saving <= saves /\ writer[v].saved <= saves
    BY <1>0 DEF SavesTyped
  <2>2. writer[v].saving \in Nat /\ writer[v].saved \in Nat /\ writer[v].loaded \in Nat
        /\ writer[v] = [saving |-> writer[v].saving, saved |-> writer[v].saved, loaded |-> writer[v].loaded]
    BY <2>1 DEF SaveRecords
  <2> QED
    BY <1>0, <2>1, <2>2 DEF Current
<1>1. ASSUME NEW w \in Runs, M!Load(w) PROVE SavesInv'
  <2>1. writer' = [writer EXCEPT ![w].loaded = M!Newest] /\ UNCHANGED <<localCache, graph, saves, contended, past>>
    BY <1>1 DEF M!Load
  <2>2. WriterTo(w, writer[w].saving, writer[w].saved, M!Newest)
    <3>0. writer[w] \in SaveRecords
      BY <1>0
    <3>1. [writer[w] EXCEPT !.loaded = M!Newest] = [saving |-> writer[w].saving, saved |-> writer[w].saved, loaded |-> M!Newest]
      BY <3>0 DEF SaveRecords
    <3> QED
      BY <2>1, <3>1 DEF WriterTo
  <2>3. M!Newest \in Nat /\ M!Newest \notin past /\ M!Newest' = M!Newest
    <3>1. M!Newest' = M!Newest
      BY <2>1 DEF M!Newest
    <3>2. M!Newest = 0 => M!Newest \notin past
      BY <1>0
    <3> QED
      BY <1>0, <3>1, <3>2, NewestIs
  <2>4. /\ writer' \in [Runs -> SaveRecords] /\ writer'[w].saving = writer[w].saving /\ writer'[w].saved = writer[w].saved
        /\ writer'[w].loaded = M!Newest /\ \A v \in Runs \ {w} : writer'[v] = writer[v]
    <3>1. writer[w].saving \in Nat /\ writer[w].saved \in Nat
      BY <1>0, <1>01
    <3> QED
      BY <1>0, <2>2, <2>3, <3>1, WriterIs
  <2>5. \A v \in Runs : writer'[v].saving = writer[v].saving /\ writer'[v].saved = writer[v].saved
    BY <2>4
  <2>6. SavesTyped'
    BY <1>0, <1>01, <2>1, <2>4, <2>5 DEF SavesTyped
  <2>7. Current'
    BY <1>0, <1>01, <2>1, <2>3, <2>4, <2>5 DEF Current
  <2>8. OneAfterTheOther => OneAfterTheOther'
    BY <2>1, <2>3, <2>5 DEF OneAfterTheOther
  <2> QED
    BY <1>0, <2>1, <2>6, <2>7, <2>8 DEF SavesInv
<1>2. ASSUME M!Clear PROVE SavesInv'
  <2>1. /\ localCache' = <<>> /\ UNCHANGED <<graph, saves>>
        /\ past' = past \cup (1..saves \ {writer[w].saving : w \in Runs})
        /\ writer' = [w \in Runs |-> [writer[w] EXCEPT !.saved = 0, !.loaded = 0]]
        /\ contended' = (contended \/ \E w \in Runs : writer[w].saving # 0)
    BY <1>2, Zenon DEF M!Clear, M!Cleared, M!None
  <2>2. contended' \in BOOLEAN /\ (contended => contended') /\ (~contended' => \A w \in Runs : writer[w].saving = 0)
    BY <2>1, Zenon
  <2>3. past' \subseteq 1..saves /\ (~contended' => past' = 1..saves)
    <3>1. past' \subseteq 1..saves
      BY <1>0, <2>1, Zenon
    <3>2. ASSUME ~contended' PROVE 1..saves \subseteq past'
      <4>1. {writer[w].saving : w \in Runs} \subseteq {0}
        BY <2>2, <3>2
      <4>2. 0 \notin 1..saves
        BY <1>0
      <4> QED
        BY <2>1, <4>1, <4>2, Zenon
    <3> QED
      BY <3>1, <3>2
  <2>4. ASSUME NEW v \in Runs
        PROVE  /\ writer'[v] \in SaveRecords /\ writer'[v].saving = writer[v].saving
               /\ writer'[v].saved = 0 /\ writer'[v].loaded = 0
    <3> DEFINE o == writer[v]
               b == [saving |-> o.saving, saved |-> 0, loaded |-> o.loaded]
    <3>0. o \in SaveRecords
      BY <1>0
    <3>1. [o EXCEPT !.saved = 0] = b
      BY <3>0 DEF SaveRecords
    <3>2. [b EXCEPT !.loaded = 0] = [saving |-> o.saving, saved |-> 0, loaded |-> 0]
      OBVIOUS
    <3>3. [o EXCEPT !.saved = 0, !.loaded = 0] = [[o EXCEPT !.saved = 0] EXCEPT !.loaded = 0]
      OBVIOUS
    <3>4. writer'[v] = [saving |-> o.saving, saved |-> 0, loaded |-> 0]
      BY <2>1, <3>1, <3>2, <3>3, Zenon
    <3>5. o.saving \in Nat
      BY <3>0 DEF SaveRecords
    <3> QED
      BY <3>4, <3>5 DEF SaveRecords
  <2>5. writer' \in [Runs -> SaveRecords]
    BY <2>1, <2>4, Zenon
  <2>6. ASSUME NEW v \in Runs
        PROVE  writer'[v].saving <= saves /\ writer'[v].saving \notin past' /\ (~contended' => writer'[v].saving = 0)
    <3>1. writer[v].saving \in 0..saves /\ writer[v].saving \notin past
      BY <1>01
    <3>2. writer[v].saving \notin past'
      BY <2>1, <3>1, Zenon
    <3>3. writer[v].saving <= saves
      BY <1>0, <3>1
    <3> QED
      BY <2>2, <2>4, <3>2, <3>3
  <2> QED
    BY <2>1, <2>2, <2>3, <2>4, <2>5, <2>6, SavesDropped, Zenon
<1>4. ASSUME M!Restart PROVE SavesInv'
  <2>1. /\ localCache' = <<>> /\ UNCHANGED <<graph, saves, contended>> /\ past' = past \cup 1..saves
        /\ writer' = [w \in Runs |-> [saving |-> 0, saved |-> 0, loaded |-> 0]]
    BY <1>4 DEF M!Restart, M!Idle, M!None
  <2>2. [saving |-> 0, saved |-> 0, loaded |-> 0] \in SaveRecords
    BY DEF SaveRecords
  <2>3. writer' \in [Runs -> SaveRecords] /\ \A v \in Runs : writer'[v].saving = 0 /\ writer'[v].saved = 0 /\ writer'[v].loaded = 0
    BY <2>1, <2>2
  <2>4. past' = 1..saves /\ 0 \notin 1..saves /\ 0 <= saves
    <3>1. saves \in Nat /\ past \subseteq 1..saves
      BY <1>0
    <3>2. past' = past \cup (1..saves)
      BY <2>1
    <3>3. past' = 1..saves
      BY <3>1, <3>2, Zenon
    <3>4. 0 \notin 1..saves
      OBVIOUS
    <3>5. 0 <= saves
      BY <3>1
    <3> QED
      BY <3>3, <3>4, <3>5
  <2> QED
    BY <1>0, <2>1, <2>3, <2>4, SavesDropped
<1>3. CASE UNCHANGED M!checkpointVars
  <2>1. UNCHANGED <<localCache, graph, writer, saves, contended, past>>
    BY <1>3 DEF M!checkpointVars
  <2> QED
    BY <1>0, <2>1 DEF SavesInv, SavesTyped, Current, OneAfterTheOther, M!Newest
<1> QED
  BY <1>1, <1>2, <1>3, <1>4, SaveStep, SavedStep, ThrowStep DEF M!Next

LEMMA SavesSound == SavesInv => M!OwnSaveStands /\ M!ResumesOwnWork /\ M!ChainIsALine
<1> SUFFICES ASSUME SavesInv PROVE M!OwnSaveStands /\ M!ResumesOwnWork /\ M!ChainIsALine
  OBVIOUS
<1>1. M!OwnSaveStands
  BY DEF SavesInv, Current, OneAfterTheOther, M!OwnSaveStands, M!None
<1>2. M!ResumesOwnWork
  BY DEF SavesInv, Current, M!ResumesOwnWork
<1>3. M!ChainIsALine
  BY DEF SavesInv, SavesTyped, OneAfterTheOther, M!ChainIsALine
<1> QED
  BY <1>1, <1>2, <1>3

\* The Minns tools. Every subscription that lives is one the clean-up has yet to come
\* to, or is excused; between runs that do not overlap, the map is of the one at work.
PowerCalls == {[tool |-> "none"], [tool |-> "ask"]} \cup [tool : {"create", "delete"}, label : Labels, id : Nat]

Users == [pc : {"idle", "on", "cleaning", "over"}, call : PowerCalls, calls : Nat, passed : SUBSET Labels]

Entries == [label : Labels, id : Nat]

LabelsTyped ==
    /\ user \in [Runs -> Users] /\ creator \in Seq(Runs) /\ live \subseteq 1..Len(creator) /\ shared \in BOOLEAN
    /\ labels \in Seq(Entries) /\ polled \subseteq Runs \X (1..Len(creator))
    /\ \A i \in 1..Len(labels) : labels[i].id \in 1..Len(creator)
    /\ \A i, j \in 1..Len(labels) : labels[i].label = labels[j].label => i = j

UserSound(r) ==
    /\ user[r].call.tool \in {"create", "delete"} => user[r].call.id \in 1..Len(creator)
    /\ user[r].call.tool = "delete" => user[r].call.id \notin live
    /\ user[r].pc # "cleaning" => user[r].passed = {}
    /\ \A i \in 1..Len(labels) : labels[i].label \in user[r].passed => labels[i].id \in strayed \/ labels[i].id \notin live

InFlight(id) == \E r \in Runs : user[r].call.tool = "create" /\ user[r].call.id = id

Accounted == \A id \in live : id \in strayed \/ InFlight(id) \/ \E i \in 1..Len(labels) : labels[i].id = id

Busy(r) == user[r].pc \in {"on", "cleaning"}

Apart ==
    /\ \A r, o \in Runs : Busy(r) /\ Busy(o) => r = o
    /\ \A r \in Runs : user[r].call # [tool |-> "none"] => user[r].pc = "on"
    /\ \A r \in Runs : user[r].call.tool = "create" => creator[user[r].call.id] = r
    /\ \A r \in Runs : Busy(r) => \A i \in 1..Len(labels) : creator[labels[i].id] = r
    /\ labels # <<>> => \E r \in Runs : Busy(r)
    /\ \A p \in polled : creator[p[2]] = p[1]

LabelsInv == /\ LabelsTyped /\ (\A r \in Runs : UserSound(r)) /\ Accounted /\ (~shared => Apart) /\ P!GroupsAreKept

LEMMA UserIs ==
    ASSUME LabelsTyped, NEW r \in Runs
    PROVE  /\ user[r] \in Users /\ user[r].pc \in {"idle", "on", "cleaning", "over"} /\ user[r].call \in PowerCalls
           /\ user[r].calls \in Nat /\ user[r].passed \in SUBSET Labels
           /\ user[r] = [pc |-> user[r].pc, call |-> user[r].call, calls |-> user[r].calls, passed |-> user[r].passed]
<1>1. user[r] \in Users
  BY DEF LabelsTyped
<1> QED
  BY <1>1 DEF Users

\* A call is of one of four kinds, and the first two name no subscription.
LEMMA CallIs ==
    ASSUME NEW call \in PowerCalls
    PROVE  /\ call.tool \in {"none", "ask", "create", "delete"}
           /\ call.tool = "none" <=> call = [tool |-> "none"]
           /\ call.tool \in {"create", "delete"} => call.label \in Labels /\ call.id \in Nat
<1>1. CASE call = [tool |-> "none"]
  BY <1>1
<1>2. CASE call = [tool |-> "ask"]
  <2>1. call.tool = "ask"
    BY <1>2
  <2> QED
    BY <2>1
<1>3. CASE call \in [tool : {"create", "delete"}, label : Labels, id : Nat]
  <2>1. call.tool \in {"create", "delete"} /\ call.label \in Labels /\ call.id \in Nat
    BY <1>3
  <2>2. call # [tool |-> "none"]
    BY <2>1
  <2> QED
    BY <2>1, <2>2
<1> QED
  BY <1>1, <1>2, <1>3 DEF PowerCalls

UserTo(r, at, call, calls, passed) ==
    user' = [user EXCEPT ![r] = [pc |-> at, call |-> call, calls |-> calls, passed |-> passed]]

UserNow(r, at, call, passed) ==
    /\ user' \in [Runs -> Users]
    /\ user'[r].pc = at /\ user'[r].call = call /\ user'[r].passed = passed
    /\ \A o \in Runs \ {r} : user'[o] = user[o]

LEMMA UserToIs ==
    ASSUME LabelsTyped, NEW r \in Runs, NEW at \in {"idle", "on", "cleaning", "over"}, NEW call \in PowerCalls,
           NEW calls \in Nat, NEW passed \in SUBSET Labels, UserTo(r, at, call, calls, passed)
    PROVE  UserNow(r, at, call, passed)
<1>1. [pc |-> at, call |-> call, calls |-> calls, passed |-> passed] \in Users
  BY DEF Users
<1> QED
  BY <1>1 DEF LabelsTyped, UserTo, UserNow

LEMMA UserChanges ==
    ASSUME LabelsTyped, NEW r \in Runs, NEW at, NEW call, NEW calls, NEW passed,
           \/ user' = [user EXCEPT ![r].pc = at] /\ call = user[r].call /\ calls = user[r].calls /\ passed = user[r].passed
           \/ user' = [user EXCEPT ![r].call = call] /\ at = user[r].pc /\ calls = user[r].calls /\ passed = user[r].passed
           \/ user' = [user EXCEPT ![r].passed = passed] /\ at = user[r].pc /\ call = user[r].call /\ calls = user[r].calls
           \/ /\ user' = [user EXCEPT ![r] = [user[r] EXCEPT !.call = call, !.calls = calls]]
              /\ at = user[r].pc /\ passed = user[r].passed
    PROVE  UserTo(r, at, call, calls, passed)
<1> DEFINE o == user[r]
<1>0. o \in Users /\ r \in DOMAIN user
  BY DEF LabelsTyped
<1>1. CASE user' = [user EXCEPT ![r].pc = at] /\ call = o.call /\ calls = o.calls /\ passed = o.passed
  <2>1. [o EXCEPT !.pc = at] = [pc |-> at, call |-> o.call, calls |-> o.calls, passed |-> o.passed]
    BY <1>0 DEF Users
  <2>2. user' = [user EXCEPT ![r] = [o EXCEPT !.pc = at]]
    BY <1>1
  <2> QED
    BY <1>1, <2>1, <2>2 DEF UserTo
<1>2. CASE user' = [user EXCEPT ![r].call = call] /\ at = o.pc /\ calls = o.calls /\ passed = o.passed
  <2>1. [o EXCEPT !.call = call] = [pc |-> o.pc, call |-> call, calls |-> o.calls, passed |-> o.passed]
    BY <1>0 DEF Users
  <2>2. user' = [user EXCEPT ![r] = [o EXCEPT !.call = call]]
    BY <1>2
  <2> QED
    BY <1>2, <2>1, <2>2 DEF UserTo
<1>3. CASE user' = [user EXCEPT ![r].passed = passed] /\ at = o.pc /\ call = o.call /\ calls = o.calls
  <2>1. [o EXCEPT !.passed = passed] = [pc |-> o.pc, call |-> o.call, calls |-> o.calls, passed |-> passed]
    BY <1>0 DEF Users
  <2>2. user' = [user EXCEPT ![r] = [o EXCEPT !.passed = passed]]
    BY <1>3
  <2> QED
    BY <1>3, <2>1, <2>2 DEF UserTo
<1>4. CASE user' = [user EXCEPT ![r] = [o EXCEPT !.call = call, !.calls = calls]] /\ at = o.pc /\ passed = o.passed
  <2> DEFINE b == [pc |-> o.pc, call |-> call, calls |-> o.calls, passed |-> o.passed]
  <2>1. [o EXCEPT !.call = call] = b
    BY <1>0 DEF Users
  <2>2. [b EXCEPT !.calls = calls] = [pc |-> o.pc, call |-> call, calls |-> calls, passed |-> o.passed]
    OBVIOUS
  <2>3. [o EXCEPT !.call = call, !.calls = calls] = [[o EXCEPT !.call = call] EXCEPT !.calls = calls]
    OBVIOUS
  <2>4. [o EXCEPT !.call = call, !.calls = calls] = [pc |-> o.pc, call |-> call, calls |-> calls, passed |-> o.passed]
    BY <2>1, <2>2, <2>3
  <2> QED
    BY <1>4, <2>4 DEF UserTo
<1> QED
  BY <1>1, <1>2, <1>3, <1>4

LEMMA ToolsAre ==
    /\ P!tools = {"subscription_create", "subscription_poll", "subscription_list", "subscription_delete"}
    /\ P!tools \cap (P!Questions \cup {"table_scan", "minnsql_execute"}) \subseteq P!Questions
    /\ R!tools \cap {"subscription_create", "subscription_poll", "subscription_delete"} = {}
<1>1. P!tools = {"subscription_create", "subscription_poll", "subscription_list", "subscription_delete"}
  <2>1. P!tools = P!ToolsOf["subscriptions"]
    BY DEF P!tools
  <2> QED
    BY <2>1 DEF P!ToolsOf
<1>2. "subscription_list" \in P!Questions
  BY DEF P!Questions
<1>3. R!tools \cap {"subscription_create", "subscription_poll", "subscription_delete"} = {}
  <2>1. R!tools = R!ToolsOf["graph"] \cup R!ToolsOf["temporal"] \cup R!ToolsOf["analytics"] \cup R!ToolsOf["search"]
                  \cup R!ToolsOf["code"] \cup R!ToolsOf["tables"] \cup R!ToolsOf["query"]
    BY DEF R!tools
  <2> QED
    BY <2>1 DEF R!ToolsOf
<1> QED
  BY <1>1, <1>2, <1>3

LEMMA LabelsStart == P!Init => LabelsInv
<1> SUFFICES ASSUME P!Init PROVE LabelsInv
  OBVIOUS
<1>1. /\ user = [r \in Runs |-> [pc |-> "idle", call |-> [tool |-> "none"], calls |-> 0, passed |-> {}]]
      /\ labels = <<>> /\ live = {} /\ creator = <<>> /\ polled = {} /\ shown = {} /\ shared = FALSE
      /\ rows = <<[group |-> "theirs", is |-> "as written"]>>
  BY Zenon DEF P!Init, P!NoCall
<1>2. [pc |-> "idle", call |-> [tool |-> "none"], calls |-> 0, passed |-> {}] \in Users /\ [tool |-> "none"].tool = "none"
  BY DEF Users, PowerCalls
<1>3. user \in [Runs -> Users]
  BY <1>1, <1>2, Zenon
<1>4. \A r \in Runs : /\ user[r].pc = "idle" /\ user[r].call = [tool |-> "none"] /\ user[r].call.tool = "none" /\ user[r].passed = {}
  BY <1>1, <1>2, Zenon
<1>5. Len(labels) = 0 /\ Len(creator) = 0 /\ labels \in Seq(Entries) /\ creator \in Seq(Runs)
  <2>1. labels = <<>> /\ creator = <<>>
    BY <1>1, Zenon
  <2>2. Len(labels) = 0 /\ labels \in Seq(Entries)
    BY <2>1, EmptySeq
  <2>3. Len(creator) = 0 /\ creator \in Seq(Runs)
    BY <2>1, EmptySeq
  <2> QED
    BY <2>2, <2>3
<1>51. 1..Len(labels) = {} /\ 1..Len(creator) = {}
  BY <1>5
<1>52. /\ \A i \in 1..Len(labels) : labels[i].id \in 1..Len(creator)
       /\ \A i, j \in 1..Len(labels) : labels[i].label = labels[j].label => i = j
  BY <1>51
<1>53. live \subseteq 1..Len(creator) /\ polled \subseteq Runs \X (1..Len(creator)) /\ shared \in BOOLEAN
  BY <1>1, Zenon
<1>6. LabelsTyped
  BY <1>3, <1>5, <1>52, <1>53 DEF LabelsTyped
<1>7. \A r \in Runs : UserSound(r)
  BY <1>4 DEF UserSound
<1>8. Accounted
  BY <1>1, Zenon DEF Accounted
<1>9. Apart
  BY <1>1, <1>4, Zenon DEF Apart, Busy
<1>10. P!GroupsAreKept
  <2>1. rows = <<[group |-> "theirs", is |-> "as written"]>>
    BY <1>1, Zenon
  <2>2. DOMAIN rows = {1}
    <3> DEFINE row == [group |-> "theirs", is |-> "as written"]
    <3>1. rows = <<row>>
      BY <2>1, Zenon
    <3> HIDE DEF row
    <3>2. DOMAIN rows = 1..1
      BY <3>1
    <3> QED
      BY <3>2
  <2>3. rows[1].is = "as written"
    BY <2>1, Zenon
  <2>4. shown = {}
    BY <1>1, Zenon
  <2> QED
    BY <2>2, <2>3, <2>4, Zenon DEF P!GroupsAreKept, P!Ours
<1> QED
  BY <1>6, <1>7, <1>8, <1>9, <1>10 DEF LabelsInv

\* What a step of one run that leaves the map alone must show.
LEMMA UserMoves ==
    ASSUME LabelsInv, NEW r \in Runs, NEW at, NEW call, NEW passed, UserNow(r, at, call, passed),
           UNCHANGED <<labels, creator, rows, shown>>, live' \subseteq live, strayed \subseteq strayed',
           shared' \in BOOLEAN, polled' \subseteq Runs \X (1..Len(creator)), UserSound(r)',
           user[r].call.tool = "create" => (call.tool = "create" /\ call.id = user[r].call.id) \/ user[r].call.id \in strayed',
           ~shared' => Apart'
    PROVE  LabelsInv'
<1>0. LabelsTyped /\ (\A o \in Runs : UserSound(o)) /\ Accounted /\ P!GroupsAreKept
  BY DEF LabelsInv
<1>1. user' \in [Runs -> Users] /\ user'[r].call = call /\ \A o \in Runs \ {r} : user'[o] = user[o]
  BY DEF UserNow
<1>2. LabelsTyped'
  BY <1>0, <1>1 DEF LabelsTyped
<1>3. ASSUME NEW o \in Runs PROVE UserSound(o)'
  <2>1. CASE o = r
    BY <2>1
  <2>2. CASE o # r
    <3>1. UserSound(o) /\ user'[o] = user[o]
      BY <1>0, <1>1, <2>2
    <3> QED
      BY <3>1 DEF UserSound
  <2> QED
    BY <2>1, <2>2
<1>4. Accounted'
  <2> SUFFICES ASSUME NEW id \in live', id \notin strayed', ~\E i \in 1..Len(labels) : labels[i].id = id PROVE InFlight(id)'
    BY DEF Accounted
  <2>1. PICK o \in Runs : user[o].call.tool = "create" /\ user[o].call.id = id
    BY <1>0 DEF Accounted, InFlight
  <2>2. user'[o].call.tool = "create" /\ user'[o].call.id = id
    BY <1>1, <2>1
  <2> QED
    BY <2>2 DEF InFlight
<1>5. P!GroupsAreKept'
  BY <1>0 DEF P!GroupsAreKept
<1> QED
  BY <1>2, <1>3, <1>4, <1>5 DEF LabelsInv

LEMMA ApartStays ==
    ASSUME Apart, NEW r \in Runs, NEW at, NEW call, NEW passed, UserNow(r, at, call, passed),
           UNCHANGED <<labels, creator>>, \A p \in polled' \ polled : creator[p[2]] = p[1],
           at = user[r].pc, call # [tool |-> "none"] => at = "on", call.tool = "create" => creator[call.id] = r
    PROVE  Apart'
<1>1. user'[r].pc = user[r].pc /\ user'[r].call = call /\ \A o \in Runs \ {r} : user'[o] = user[o]
  BY DEF UserNow
<1>2. \A o \in Runs : (Busy(o)' <=> Busy(o)) /\ user'[o].pc = user[o].pc
  BY <1>1 DEF Busy
<1>3. /\ \A o, q \in Runs : Busy(o)' /\ Busy(q)' => o = q
      /\ \A o \in Runs : Busy(o)' => \A i \in 1..Len(labels) : creator[labels[i].id] = o
      /\ labels # <<>> => \E o \in Runs : Busy(o)'
  BY <1>2 DEF Apart
<1>4. ASSUME NEW o \in Runs
      PROVE  /\ user'[o].call # [tool |-> "none"] => user'[o].pc = "on"
             /\ user'[o].call.tool = "create" => creator[user'[o].call.id] = o
  <2>1. CASE o = r
    BY <1>1, <2>1
  <2>2. CASE o # r
    BY <1>1, <2>2 DEF Apart
  <2> QED
    BY <2>1, <2>2
<1>5. \A p \in polled' : creator[p[2]] = p[1]
  BY DEF Apart
<1> QED
  BY <1>3, <1>4, <1>5 DEF Apart

\* A label's place in the map, and what becomes of the map at an answer.
LEMMA PlaceIs ==
    ASSUME LabelsTyped, NEW label
    PROVE  /\ P!Has(label) => /\ P!PlaceOf(label) \in 1..Len(labels) /\ labels[P!PlaceOf(label)].label = label
                              /\ P!IdOf(label) = labels[P!PlaceOf(label)].id /\ P!IdOf(label) # 0
                              /\ P!IdOf(label) \in 1..Len(creator)
           /\ ~P!Has(label) => P!IdOf(label) = 0 /\ \A i \in 1..Len(labels) : labels[i].label # label
<1>0. DOMAIN labels = 1..Len(labels) /\ (\A i \in 1..Len(labels) : labels[i].id \in 1..Len(creator)) /\ Len(creator) \in Nat
  BY DEF LabelsTyped
<1>1. ASSUME P!Has(label) PROVE P!PlaceOf(label) \in 1..Len(labels) /\ labels[P!PlaceOf(label)].label = label
  BY <1>0, <1>1 DEF P!Has, P!PlaceOf
<1>2. ASSUME P!Has(label)
      PROVE  P!IdOf(label) = labels[P!PlaceOf(label)].id /\ P!IdOf(label) # 0 /\ P!IdOf(label) \in 1..Len(creator)
  <2>1. P!IdOf(label) = labels[P!PlaceOf(label)].id
    BY <1>2 DEF P!IdOf
  <2>2. labels[P!PlaceOf(label)].id \in 1..Len(creator)
    BY <1>0, <1>1, <1>2
  <2> QED
    BY <1>0, <2>1, <2>2
<1>3. ASSUME ~P!Has(label) PROVE P!IdOf(label) = 0 /\ \A i \in 1..Len(labels) : labels[i].label # label
  BY <1>0, <1>3 DEF P!Has, P!IdOf, P!NoId
<1> QED
  BY <1>1, <1>2, <1>3

\* The map with a label set: every entry is the new one or an old one of another label,
\* and the old ones but that label's are all there.
MapSet(new, label, id) ==
    /\ new \in Seq(Entries) /\ \E i \in 1..Len(new) : new[i].id = id /\ new[i].label = label
    /\ \A i \in 1..Len(new) : \/ new[i].label = label /\ new[i].id = id
                              \/ \E j \in 1..Len(labels) : new[i] = labels[j] /\ labels[j].label # label
    /\ \A i, j \in 1..Len(new) : new[i].label = new[j].label => i = j
    /\ \A j \in 1..Len(labels) : labels[j].label # label => \E i \in 1..Len(new) : new[i] = labels[j]

LEMMA SetAtIs ==
    ASSUME LabelsTyped, NEW label \in Labels, NEW id \in Nat
    PROVE  MapSet(P!SetAt(label, id), label, id)
<1> DEFINE new == P!SetAt(label, id)
           entry == [label |-> label, id |-> id]
<1>0. /\ labels \in Seq(Entries) /\ Len(labels) \in Nat /\ DOMAIN labels = 1..Len(labels)
      /\ \A i, j \in 1..Len(labels) : labels[i].label = labels[j].label => i = j
  BY DEF LabelsTyped
<1>1. entry \in Entries /\ entry.label = label /\ entry.id = id
  BY DEF Entries
<1>2. CASE P!Has(label)
  <2> DEFINE k == P!PlaceOf(label)
  <2>1. k \in 1..Len(labels) /\ labels[k].label = label
    BY <1>2, PlaceIs
  <2>2. new = [labels EXCEPT ![k] = entry]
    BY <1>2 DEF P!SetAt
  <2> HIDE DEF new, entry, k
  <2>3. /\ new \in Seq(Entries) /\ Len(new) = Len(labels) /\ new[k] = entry
        /\ \A i \in 1..Len(labels) : i # k => new[i] = labels[i]
    BY <1>0, <1>1, <2>1, <2>2, ExceptSeq
  <2>4. \A i \in 1..Len(new) : i # k => labels[i].label # label
    BY <1>0, <2>1, <2>3
  <2>5. \A i \in 1..Len(new) : \/ new[i].label = label /\ new[i].id = id
                               \/ \E j \in 1..Len(labels) : new[i] = labels[j] /\ labels[j].label # label
    BY <1>1, <2>3, <2>4
  <2>6. \A i, j \in 1..Len(new) : new[i].label = new[j].label => i = j
    BY <1>0, <1>1, <2>3, <2>4
  <2>7. \A j \in 1..Len(labels) : labels[j].label # label => \E i \in 1..Len(new) : new[i] = labels[j]
    BY <2>1, <2>3
  <2> QED
    BY <1>1, <2>1, <2>3, <2>5, <2>6, <2>7 DEF MapSet, new
<1>3. CASE ~P!Has(label)
  <2>1. \A i \in 1..Len(labels) : labels[i].label # label
    BY <1>3, PlaceIs
  <2>2. new = Append(labels, entry)
    BY <1>3 DEF P!SetAt
  <2> HIDE DEF new, entry
  <2>3. /\ new \in Seq(Entries) /\ Len(new) = Len(labels) + 1 /\ new[Len(labels) + 1] = entry
        /\ \A i \in 1..Len(labels) : new[i] = labels[i]
    BY <1>0, <1>1, <2>2, AppendProperties
  <2>4. \A i \in 1..Len(new) : i = Len(labels) + 1 \/ i \in 1..Len(labels)
    BY <1>0, <2>3
  <2>41. Len(labels) + 1 \in 1..Len(new) /\ \A i \in 1..Len(labels) : i \in 1..Len(new)
    BY <1>0, <2>3
  <2>5. \A i \in 1..Len(new) : \/ new[i].label = label /\ new[i].id = id
                               \/ \E j \in 1..Len(labels) : new[i] = labels[j] /\ labels[j].label # label
    BY <1>1, <2>1, <2>3, <2>4
  <2>6. \A i, j \in 1..Len(new) : new[i].label = new[j].label => i = j
    BY <1>0, <1>1, <2>1, <2>3, <2>4
  <2>7. \A j \in 1..Len(labels) : labels[j].label # label => \E i \in 1..Len(new) : new[i] = labels[j]
    BY <2>3, <2>41
  <2> QED
    BY <1>1, <2>3, <2>41, <2>5, <2>6, <2>7 DEF MapSet, new
<1> QED
  BY <1>2, <1>3

\* The map without one: every entry is an old one, and but that label's all are there.
MapWithout(new, label) ==
    /\ new \in Seq(Entries)
    /\ \A i \in 1..Len(new) : \E j \in 1..Len(labels) : new[i] = labels[j]
    /\ \A i, j \in 1..Len(new) : new[i].label = new[j].label => i = j
    /\ \A j \in 1..Len(labels) : labels[j].label # label => \E i \in 1..Len(new) : new[i] = labels[j]

LEMMA WithoutIs ==
    ASSUME LabelsTyped, NEW label
    PROVE  MapWithout(P!Without(label), label)
<1> DEFINE new == P!Without(label)
<1>0. /\ labels \in Seq(Entries) /\ Len(labels) \in Nat /\ DOMAIN labels = 1..Len(labels)
      /\ \A i, j \in 1..Len(labels) : labels[i].label = labels[j].label => i = j
  BY DEF LabelsTyped
<1>2. CASE P!Has(label)
  <2> DEFINE k == P!PlaceOf(label)
             n == Len(labels)
             front == SubSeq(labels, 1, k - 1)
             back == SubSeq(labels, k + 1, n)
  <2>1. k \in 1..n /\ labels[k].label = label /\ n \in Nat
    BY <1>0, <1>2, PlaceIs
  <2>2. new = front \o back
    BY <1>2 DEF P!Without
  <2> HIDE DEF new, k
  <2>3. front \in Seq(Entries) /\ Len(front) = k - 1 /\ \A i \in 1..(k - 1) : front[i] = labels[i]
    BY <1>0, <2>1
  <2>4. back \in Seq(Entries) /\ Len(back) = n - k /\ \A i \in 1..(n - k) : back[i] = labels[k + i]
    <3>1. labels \in Seq(Entries) /\ k + 1 \in 1..(n + 1) /\ n \in 0..n /\ n \in Nat /\ k \in Nat /\ k <= n
      BY <1>0, <2>1
    <3>2. \A i \in (k + 1)..n : labels[i] \in Entries
      BY <1>0, <2>1
    <3> HIDE DEF n
    <3>3. Len(back) = n - (k + 1) + 1 /\ back = [i \in 1..(n - (k + 1) + 1) |-> labels[i + (k + 1) - 1]]
      BY <3>1
    <3>4. n - (k + 1) + 1 = n - k /\ \A i \in 1..(n - k) : i + (k + 1) - 1 = k + i /\ k + i \in (k + 1)..n
      BY <3>1
    <3>5. \A i \in 1..(n - k) : back[i] = labels[k + i] /\ back[i] \in Entries
      BY <3>2, <3>3, <3>4
    <3>7. back \in Seq(Entries)
      BY <3>1, <3>2, SubSeqProperties
    <3> QED
      BY <3>3, <3>4, <3>5, <3>7
  <2> HIDE DEF front, back
  <2>5. /\ new \in Seq(Entries) /\ Len(new) = n - 1
        /\ \A i \in 1..(n - 1) : new[i] = IF i <= k - 1 THEN front[i] ELSE back[i - (k - 1)]
    <3>1. /\ front \o back \in Seq(Entries) /\ Len(front \o back) = Len(front) + Len(back)
          /\ \A i \in 1..(Len(front) + Len(back)) :
               (front \o back)[i] = IF i <= Len(front) THEN front[i] ELSE back[i - Len(front)]
      BY <2>3, <2>4, ConcatProperties
    <3> HIDE DEF n
    <3>2. Len(front) = k - 1 /\ Len(back) = n - k /\ (k - 1) + (n - k) = n - 1
      BY <2>1, <2>3, <2>4
    <3>3. Len(front) + Len(back) = n - 1
      BY <3>2
    <3> QED
      BY <2>2, <3>1, <3>2, <3>3
  <2>6. /\ new \in Seq(Entries) /\ Len(new) = n - 1
        /\ \A i \in 1..(n - 1) : new[i] = labels[IF i < k THEN i ELSE i + 1] /\ (IF i < k THEN i ELSE i + 1) \in 1..n
    <3> SUFFICES ASSUME NEW i \in 1..(n - 1)
                 PROVE  new[i] = labels[IF i < k THEN i ELSE i + 1] /\ (IF i < k THEN i ELSE i + 1) \in 1..n
      BY <2>5
    <3> HIDE DEF n
    <3>1. CASE i < k
      BY <2>1, <2>3, <2>5, <3>1
    <3>2. CASE ~(i < k)
      <4>1. i - (k - 1) \in 1..(n - k) /\ k + (i - (k - 1)) = i + 1 /\ ~(i <= k - 1) /\ i + 1 \in 1..n
        BY <2>1, <3>2
      <4> QED
        BY <2>4, <2>5, <3>2, <4>1
    <3> QED
      BY <3>1, <3>2
  <2>7. \A i \in 1..Len(new) : \E j \in 1..Len(labels) : new[i] = labels[j]
    BY <2>6
  <2>8. \A i, j \in 1..Len(new) : new[i].label = new[j].label => i = j
    <3> SUFFICES ASSUME NEW i \in 1..(n - 1), NEW j \in 1..(n - 1), new[i].label = new[j].label PROVE i = j
      BY <2>6
    <3>1. (IF i < k THEN i ELSE i + 1) = (IF j < k THEN j ELSE j + 1)
      BY <1>0, <2>6
    <3> QED
      BY <2>1, <3>1
  <2>9. ASSUME NEW j \in 1..n, labels[j].label # label PROVE \E i \in 1..Len(new) : new[i] = labels[j]
    <3>1. j # k
      BY <2>1, <2>9
    <3> DEFINE i == IF j < k THEN j ELSE j - 1
    <3>2. i \in 1..(n - 1) /\ (IF i < k THEN i ELSE i + 1) = j
      BY <2>1, <3>1
    <3> HIDE DEF i
    <3> QED
      BY <2>6, <3>2
  <2> QED
    BY <2>6, <2>7, <2>8, <2>9 DEF MapWithout, new
<1>3. CASE ~P!Has(label)
  BY <1>0, <1>3 DEF P!Without, MapWithout
<1> QED
  BY <1>2, <1>3

LEMMA InvIs ==
    ASSUME LabelsInv
    PROVE  /\ LabelsTyped /\ (\A r \in Runs : UserSound(r)) /\ Accounted /\ (~shared => Apart) /\ P!GroupsAreKept
           /\ labels \in Seq(Entries) /\ Len(labels) \in Nat /\ DOMAIN labels = 1..Len(labels)
           /\ creator \in Seq(Runs) /\ Len(creator) \in Nat /\ live \subseteq 1..Len(creator)
<1>1. LabelsTyped /\ (\A r \in Runs : UserSound(r)) /\ Accounted /\ (~shared => Apart) /\ P!GroupsAreKept
  BY DEF LabelsInv
<1>2. labels \in Seq(Entries) /\ creator \in Seq(Runs) /\ live \subseteq 1..Len(creator)
  BY <1>1 DEF LabelsTyped
<1>3. Len(labels) \in Nat /\ DOMAIN labels = 1..Len(labels) /\ Len(creator) \in Nat
  BY <1>2, LenProperties
<1> QED
  BY <1>1, <1>2, <1>3

\* A run that may call is on, has no call in flight and its clean-up has passed nothing.
LEMMA Calls ==
    ASSUME LabelsInv, NEW r \in Runs, NEW tool, P!MayCall(r, tool), NEW call \in PowerCalls, P!Sent(r, call)
    PROVE  /\ UserNow(r, "on", call, {}) /\ user[r].pc = "on" /\ user[r].call.tool = "none" /\ user[r].passed = {}
           /\ tool \in P!tools
<1>1. user[r].pc = "on" /\ user[r].call = [tool |-> "none"] /\ tool \in P!tools
  BY DEF P!MayCall, P!NoCall
<1>2. user[r].passed = {}
  BY <1>1, InvIs DEF UserSound
<1>3. user[r].calls + 1 \in Nat
  <2>1. LabelsTyped
    BY InvIs
  <2>2. user[r].calls \in Nat
    BY <2>1, UserIs
  <2> QED
    BY <2>2
<1>4. UserTo(r, "on", call, user[r].calls + 1, {})
  <2>1. user' = [user EXCEPT ![r] = [user[r] EXCEPT !.call = call, !.calls = user[r].calls + 1]]
    BY DEF P!Sent
  <2> QED
    BY <1>1, <1>2, <2>1, InvIs, UserChanges, Zenon
<1>5. UserNow(r, "on", call, {})
  BY <1>3, <1>4, InvIs, UserToIs
<1> QED
  BY <1>1, <1>2, <1>5

LEMMA AskIs == [tool |-> "ask"] \in PowerCalls /\ [tool |-> "ask"].tool = "ask" /\ [tool |-> "none"] \in PowerCalls
               /\ [tool |-> "none"].tool = "none"
BY DEF PowerCalls

LEMMA LabelsBefore ==
    ASSUME LabelsInv, NEW r \in Runs, P!BeforeExecute(r)
    PROVE  LabelsInv'
<1>0. /\ user[r].pc = "idle" /\ user' = [user EXCEPT ![r].pc = "on"]
      /\ shared' = (shared \/ \E o \in Runs \ {r} : user[o].pc \in {"on", "cleaning"} \/ user[o].call # [tool |-> "none"])
      /\ UNCHANGED <<labels, live, creator, rows, polled, shown, strayed>>
  BY DEF P!BeforeExecute, P!NoCall
<1>1. UserTo(r, "on", user[r].call, user[r].calls, user[r].passed)
  BY <1>0, InvIs, UserChanges, Zenon
<1>2. UserNow(r, "on", user[r].call, user[r].passed)
  BY <1>1, InvIs, UserIs, UserToIs
<1>3. user'[r].pc = "on" /\ user'[r].call = user[r].call /\ user'[r].passed = {} /\ \A o \in Runs \ {r} : user'[o] = user[o]
  <2>1. user[r].passed = {}
    BY <1>0, InvIs DEF UserSound
  <2> QED
    BY <1>2, <2>1 DEF UserNow
<1>4. UserSound(r)'
  <2>1. UserSound(r)
    BY InvIs
  <2> QED
    BY <1>0, <1>3, <2>1 DEF UserSound
<1>5. ASSUME ~shared' PROVE Apart'
  <2>1. Apart /\ \A o \in Runs \ {r} : ~Busy(o) /\ user[o].call = [tool |-> "none"]
    BY <1>0, <1>5, InvIs DEF Busy
  <2>2. ~Busy(r) /\ user[r].call = [tool |-> "none"]
    BY <1>0, <2>1 DEF Apart, Busy
  <2>3. labels = <<>>
    BY <2>1, <2>2 DEF Apart
  <2>4. \A o \in Runs : (Busy(o)' => o = r) /\ user'[o].call = [tool |-> "none"]
    BY <1>3, <2>1, <2>2 DEF Busy
  <2>5. labels' = <<>> /\ 1..Len(labels') = {}
    <3>1. labels' = <<>>
      BY <1>0, <2>3
    <3>2. Len(labels') = 0
      BY <3>1, EmptySeq
    <3> QED
      BY <3>1, <3>2
  <2>6. \A p \in polled' : creator'[p[2]] = p[1]
    BY <1>0, <2>1 DEF Apart
  <2> QED
    BY <2>4, <2>5, <2>6, AskIs DEF Apart
<1>6. shared' \in BOOLEAN /\ polled' \subseteq Runs \X (1..Len(creator))
  BY <1>0, InvIs DEF LabelsTyped
<1> QED
  BY <1>0, <1>2, <1>4, <1>5, <1>6, UserMoves

\* A call that leaves the map alone, and creates nothing.
LEMMA CallsOn ==
    ASSUME LabelsInv, NEW r \in Runs, NEW tool, P!MayCall(r, tool), NEW call \in PowerCalls, P!Sent(r, call),
           UNCHANGED <<labels, creator, rows, shown, strayed, shared>>, live' \subseteq live,
           call.tool \in {"ask", "delete"}, call.tool = "delete" => call.id \in (1..Len(creator)) \ live',
           polled' \subseteq Runs \X (1..Len(creator)),
           ~shared => \A p \in polled' \ polled : creator[p[2]] = p[1]
    PROVE  LabelsInv'
<1>1. /\ UserNow(r, "on", call, {}) /\ user[r].pc = "on" /\ user[r].call.tool = "none" /\ user[r].passed = {}
  BY Calls
<1>2. user'[r].pc = "on" /\ user'[r].call = call /\ user'[r].passed = {}
  BY <1>1 DEF UserNow
<1>3. UserSound(r)'
  BY <1>2 DEF UserSound
<1>4. ASSUME ~shared' PROVE Apart'
  BY <1>1, <1>4, InvIs, ApartStays
<1>5. shared' \in BOOLEAN
  BY InvIs DEF LabelsTyped
<1> QED
  BY <1>1, <1>3, <1>4, <1>5, UserMoves

LEMMA LabelsAsk ==
    ASSUME LabelsInv, NEW r \in Runs, P!Ask(r)
    PROVE  LabelsInv'
<1>1. PICK tool \in P!tools \cap (P!Questions \cup {"table_scan", "minnsql_execute"}) :
        /\ P!MayCall(r, tool) /\ P!Sent(r, [tool |-> "ask"])
        /\ shown' = shown \cup (IF tool \in P!Questions THEN {} ELSE {rows[i].group : i \in P!Reached(tool)})
        /\ UNCHANGED <<labels, live, creator, rows, polled, strayed, shared>>
  BY DEF P!Ask
<1>2. shown' = shown
  BY <1>1, ToolsAre
<1>3. polled' \subseteq Runs \X (1..Len(creator)) /\ polled' \ polled = {}
  BY <1>1, InvIs DEF LabelsTyped
<1> QED
  BY <1>1, <1>2, <1>3, AskIs, CallsOn

LEMMA LabelsPoll ==
    ASSUME LabelsInv, NEW r \in Runs, NEW label \in Labels, P!Poll(r, label)
    PROVE  LabelsInv'
<1>1. /\ P!MayCall(r, "subscription_poll") /\ P!Sent(r, [tool |-> "ask"])
      /\ polled' = IF P!IdOf(label) = 0 THEN polled ELSE polled \cup {<<r, P!IdOf(label)>>}
      /\ UNCHANGED <<labels, live, creator, rows, shown, strayed, shared>>
  BY DEF P!Poll, P!NoId
<1>2. polled \subseteq Runs \X (1..Len(creator))
  BY InvIs DEF LabelsTyped
<1>3. P!IdOf(label) # 0 => /\ P!IdOf(label) \in 1..Len(creator)
                           /\ \E i \in 1..Len(labels) : P!IdOf(label) = labels[i].id
  BY InvIs, PlaceIs
<1>4. polled' \subseteq Runs \X (1..Len(creator)) /\ \A p \in polled' \ polled : p = <<r, P!IdOf(label)>> /\ P!IdOf(label) # 0
  BY <1>1, <1>2, <1>3
<1>5. ASSUME ~shared, NEW p \in polled' \ polled PROVE creator[p[2]] = p[1]
  <2>1. Apart /\ Busy(r)
    BY <1>1, <1>5, InvIs DEF P!MayCall, Busy
  <2> QED
    BY <1>3, <1>4, <1>5, <2>1 DEF Apart
<1> QED
  BY <1>1, <1>4, <1>5, AskIs, CallsOn

LEMMA LabelsDelete ==
    ASSUME LabelsInv, NEW r \in Runs, NEW label \in Labels, P!Delete(r, label)
    PROVE  LabelsInv'
<1> DEFINE call == [tool |-> "delete", label |-> label, id |-> P!IdOf(label)]
<1>1. /\ P!MayCall(r, "subscription_delete") /\ P!IdOf(label) # 0
      /\ \/ P!Sent(r, call) /\ live' = live \ {P!IdOf(label)}
         \/ P!Sent(r, [tool |-> "ask"]) /\ live' = live
      /\ UNCHANGED <<labels, creator, rows, polled, shown, strayed, shared>>
  BY DEF P!Delete, P!NoId
<1>2. polled' \subseteq Runs \X (1..Len(creator)) /\ polled' \ polled = {}
  BY <1>1, InvIs DEF LabelsTyped
<1>3. P!IdOf(label) \in 1..Len(creator) /\ P!IdOf(label) \in Nat
  BY <1>1, InvIs, PlaceIs
<1>4. call \in PowerCalls /\ call.tool = "delete" /\ call.id = P!IdOf(label)
  BY <1>3 DEF PowerCalls
<1> HIDE DEF call
<1>5. CASE P!Sent(r, call) /\ live' = live \ {P!IdOf(label)}
  BY <1>1, <1>2, <1>3, <1>4, <1>5, CallsOn
<1>6. CASE P!Sent(r, [tool |-> "ask"]) /\ live' = live
  BY <1>1, <1>2, <1>6, AskIs, CallsOn
<1> QED
  BY <1>1, <1>5, <1>6

LEMMA LabelsCreate ==
    ASSUME LabelsInv, NEW r \in Runs, NEW label \in Labels, P!Create(r, label)
    PROVE  LabelsInv'
<1> DEFINE id == Len(creator) + 1
           made == [tool |-> "create", label |-> label, id |-> id]
<1>1. PICK answered \in BOOLEAN :
        /\ P!MayCall(r, "subscription_create") /\ live' = live \cup {id} /\ creator' = Append(creator, r)
        /\ P!Sent(r, IF answered THEN made ELSE [tool |-> "ask"])
        /\ strayed' = IF answered THEN strayed ELSE strayed \cup {id}
        /\ UNCHANGED <<labels, rows, polled, shown, shared>>
  BY DEF P!Create
<1>2. made \in PowerCalls /\ made.tool = "create" /\ made.id = id
  <2>1. id \in Nat
    BY InvIs
  <2> QED
    BY <2>1 DEF PowerCalls
<1> HIDE DEF made
<1>3. PICK call \in PowerCalls : P!Sent(r, call) /\ ((call = made /\ strayed' = strayed) \/ (call.tool = "ask" /\ strayed' = strayed \cup {id}))
  <2>1. CASE answered
    BY <1>1, <1>2, <2>1
  <2>2. CASE ~answered
    BY <1>1, <2>2, AskIs
  <2> QED
    BY <2>1, <2>2
<1>4. /\ UserNow(r, "on", call, {}) /\ user[r].pc = "on" /\ user[r].call.tool = "none" /\ user[r].passed = {}
  BY <1>1, <1>3, Calls
<1>5. /\ user' \in [Runs -> Users] /\ user'[r].pc = "on" /\ user'[r].call = call /\ user'[r].passed = {}
      /\ \A o \in Runs \ {r} : user'[o] = user[o]
  BY <1>4 DEF UserNow
<1>6. /\ creator' \in Seq(Runs) /\ Len(creator') = id /\ creator'[id] = r /\ \A i \in 1..Len(creator) : creator'[i] = creator[i]
  <2>1. creator \in Seq(Runs) /\ creator' = Append(creator, r)
    BY <1>1, InvIs
  <2> QED
    BY <2>1, AppendProperties
<1>7. id \in Nat /\ id \in 1..Len(creator') /\ id \notin 1..Len(creator) /\ \A i \in 1..Len(creator) : i \in 1..Len(creator') /\ i # id
  BY <1>6, InvIs
<1> HIDE DEF id
<1>8. call.tool \in {"create", "ask"} /\ (call.tool = "create" => call.id = id) /\ strayed \subseteq strayed'
      /\ (call.tool = "create" \/ id \in strayed')
  BY <1>2, <1>3
<1>9. LabelsTyped'
  <2>1. live' \subseteq 1..Len(creator') /\ polled' \subseteq Runs \X (1..Len(creator')) /\ shared' \in BOOLEAN
    BY <1>1, <1>7, InvIs DEF LabelsTyped
  <2>2. \A i \in 1..Len(labels') : labels'[i].id \in 1..Len(creator')
    BY <1>1, <1>7, InvIs DEF LabelsTyped
  <2>3. labels' \in Seq(Entries) /\ \A i, j \in 1..Len(labels') : labels'[i].label = labels'[j].label => i = j
    BY <1>1, InvIs DEF LabelsTyped
  <2> QED
    BY <1>5, <1>6, <2>1, <2>2, <2>3 DEF LabelsTyped
<1>10. ASSUME NEW o \in Runs PROVE UserSound(o)'
  <2>1. CASE o = r
    BY <1>5, <1>7, <1>8, <2>1 DEF UserSound
  <2>2. CASE o # r
    <3>1. UserSound(o) /\ user'[o] = user[o] /\ labels' = labels
      BY <1>1, <1>5, <2>2, InvIs
    <3>2. /\ user[o].call.tool \in {"create", "delete"} => user[o].call.id \in 1..Len(creator')
          /\ user[o].call.tool = "delete" => user[o].call.id \notin live'
      BY <1>1, <1>7, <3>1 DEF UserSound
    <3>3. ASSUME NEW i \in 1..Len(labels), labels[i].label \in user[o].passed
          PROVE  labels[i].id \in strayed' \/ labels[i].id \notin live'
      <4>1. labels[i].id \in strayed \/ labels[i].id \notin live
        BY <3>1, <3>3 DEF UserSound
      <4>2. labels[i].id \in 1..Len(creator)
        BY InvIs DEF LabelsTyped
      <4> QED
        BY <1>1, <1>7, <1>8, <4>1, <4>2
    <3> QED
      BY <3>1, <3>2, <3>3 DEF UserSound
  <2> QED
    BY <2>1, <2>2
<1>11. Accounted'
  <2> SUFFICES ASSUME NEW i \in live', i \notin strayed', ~\E k \in 1..Len(labels) : labels[k].id = i PROVE InFlight(i)'
    BY <1>1 DEF Accounted
  <2>1. CASE i = id
    BY <1>5, <1>8, <2>1 DEF InFlight
  <2>2. CASE i # id
    <3>1. i \in live /\ i \notin strayed
      BY <1>1, <1>8, <2>2
    <3>2. PICK o \in Runs : user[o].call.tool = "create" /\ user[o].call.id = i
      BY <3>1, InvIs DEF Accounted, InFlight
    <3>3. user'[o] = user[o]
      BY <1>4, <1>5, <3>2
    <3> QED
      BY <3>2, <3>3 DEF InFlight
  <2> QED
    BY <2>1, <2>2
<1>12. ASSUME ~shared' PROVE Apart'
  <2>0. Apart /\ labels' = labels /\ polled' = polled /\ (\A o \in Runs : UserSound(o)) /\ LabelsTyped
    BY <1>1, <1>12, InvIs
  <2>1. \A o \in Runs : (Busy(o)' <=> Busy(o)) /\ user'[o].pc = user[o].pc
    BY <1>4, <1>5 DEF Busy
  <2>2. \A o, q \in Runs : Busy(o)' /\ Busy(q)' => o = q
    BY <2>0, <2>1 DEF Apart
  <2>3. ASSUME NEW o \in Runs, Busy(o)', NEW i \in 1..Len(labels) PROVE creator'[labels[i].id] = o
    <3>1. creator[labels[i].id] = o /\ labels[i].id \in 1..Len(creator)
      BY <2>0, <2>1, <2>3 DEF Apart, LabelsTyped
    <3> QED
      BY <1>6, <3>1
  <2>4. labels # <<>> => \E o \in Runs : Busy(o)'
    BY <2>0, <2>1 DEF Apart
  <2>5. ASSUME NEW o \in Runs
        PROVE  /\ user'[o].call # [tool |-> "none"] => user'[o].pc = "on"
               /\ user'[o].call.tool = "create" => creator'[user'[o].call.id] = o
    <3>1. CASE o = r
      BY <1>5, <1>6, <1>8, <3>1
    <3>2. CASE o # r
      <4>1. user'[o] = user[o] /\ (user[o].call.tool = "create" => user[o].call.id \in 1..Len(creator))
        BY <1>5, <2>0, <3>2 DEF UserSound
      <4> QED
        BY <1>6, <2>0, <4>1 DEF Apart
    <3> QED
      BY <3>1, <3>2
  <2>6. ASSUME NEW p \in polled PROVE creator'[p[2]] = p[1]
    <3>1. p[2] \in 1..Len(creator) /\ creator[p[2]] = p[1]
      BY <2>0 DEF LabelsTyped, Apart
    <3> QED
      BY <1>6, <3>1
  <2> QED
    BY <2>0, <2>2, <2>3, <2>4, <2>5, <2>6 DEF Apart
<1>13. P!GroupsAreKept'
  BY <1>1, InvIs DEF P!GroupsAreKept
<1> QED
  BY <1>9, <1>10, <1>11, <1>12, <1>13 DEF LabelsInv

LEMMA LabelsAfter ==
    ASSUME LabelsInv, NEW r \in Runs, P!AfterExecute(r)
    PROVE  LabelsInv'
<1>0. /\ user[r].pc = "on" /\ user' = [user EXCEPT ![r].pc = "cleaning"]
      /\ shared' = (shared \/ user[r].call # [tool |-> "none"])
      /\ UNCHANGED <<labels, live, creator, rows, polled, shown, strayed>>
  BY DEF P!AfterExecute, P!NoCall
<1>1. UserTo(r, "cleaning", user[r].call, user[r].calls, user[r].passed)
  BY <1>0, InvIs, UserChanges, Zenon
<1>2. UserNow(r, "cleaning", user[r].call, user[r].passed)
  BY <1>1, InvIs, UserIs, UserToIs
<1>3. /\ user'[r].pc = "cleaning" /\ user'[r].call = user[r].call /\ user'[r].passed = {}
      /\ \A o \in Runs \ {r} : user'[o] = user[o]
  <2>1. user[r].passed = {}
    BY <1>0, InvIs DEF UserSound
  <2> QED
    BY <1>2, <2>1 DEF UserNow
<1>4. UserSound(r)'
  <2>1. UserSound(r)
    BY InvIs
  <2> QED
    BY <1>0, <1>3, <2>1 DEF UserSound
<1>5. ASSUME ~shared' PROVE Apart'
  <2>1. Apart /\ user[r].call = [tool |-> "none"]
    BY <1>0, <1>5, InvIs
  <2>2. \A o \in Runs : (Busy(o)' <=> Busy(o)) /\ user'[o].call = user[o].call /\ (user'[o].pc = user[o].pc \/ o = r)
    BY <1>0, <1>3 DEF Busy
  <2>3. /\ \A o, q \in Runs : Busy(o)' /\ Busy(q)' => o = q
        /\ \A o \in Runs : user'[o].call # [tool |-> "none"] => user'[o].pc = "on"
        /\ \A o \in Runs : user'[o].call.tool = "create" => creator[user'[o].call.id] = o
    BY <2>1, <2>2 DEF Apart
  <2>4. /\ \A o \in Runs : Busy(o)' => \A i \in 1..Len(labels) : creator[labels[i].id] = o
        /\ labels # <<>> => \E o \in Runs : Busy(o)'
        /\ \A p \in polled : creator[p[2]] = p[1]
    BY <2>1, <2>2 DEF Apart
  <2> QED
    BY <1>0, <2>3, <2>4 DEF Apart
<1>6. shared' \in BOOLEAN /\ polled' \subseteq Runs \X (1..Len(creator))
  BY <1>0, InvIs DEF LabelsTyped
<1> QED
  BY <1>0, <1>2, <1>4, <1>5, <1>6, UserMoves

LEMMA LabelsCleans ==
    ASSUME LabelsInv, NEW r \in Runs, P!CleansOne(r)
    PROVE  LabelsInv'
<1>0. PICK i \in DOMAIN labels :
        /\ user[r].pc = "cleaning" /\ user' = [user EXCEPT ![r].passed = user[r].passed \cup {labels[i].label}]
        /\ \/ live' = live \ {labels[i].id} /\ strayed' = strayed
           \/ live' = live /\ strayed' = strayed \cup {labels[i].id}
        /\ UNCHANGED <<labels, creator, rows, polled, shown, shared>>
  BY DEF P!CleansOne, P!Left
<1> DEFINE passed == user[r].passed \cup {labels[i].label}
<1>1. i \in 1..Len(labels) /\ labels[i].label \in Labels
  <2>1. i \in 1..Len(labels) /\ labels \in Seq(Entries)
    BY InvIs
  <2>2. labels[i] \in Entries
    BY <2>1
  <2> QED
    BY <2>1, <2>2 DEF Entries
<1>2. UserTo(r, user[r].pc, user[r].call, user[r].calls, passed)
  <2>1. user' = [user EXCEPT ![r].passed = passed]
    BY <1>0
  <2> HIDE DEF passed
  <2> QED
    BY <2>1, InvIs, UserChanges, Zenon
<1>3. UserNow(r, user[r].pc, user[r].call, passed)
  <2>1. passed \in SUBSET Labels
    BY <1>1, InvIs, UserIs
  <2> HIDE DEF passed
  <2> QED
    BY <1>2, <2>1, InvIs, UserIs, UserToIs
<1>4. user'[r].pc = "cleaning" /\ user'[r].call = user[r].call /\ user'[r].passed = passed
  BY <1>0, <1>3 DEF UserNow
<1>5. live' \subseteq live /\ strayed \subseteq strayed' /\ (labels[i].id \in strayed' \/ labels[i].id \notin live')
  BY <1>0
<1>6. UserSound(r)'
  <2>1. UserSound(r)
    BY InvIs
  <2>2. ASSUME NEW j \in 1..Len(labels), labels[j].label \in passed PROVE labels[j].id \in strayed' \/ labels[j].id \notin live'
    <3>1. CASE labels[j].label \in user[r].passed
      BY <1>5, <2>1, <3>1 DEF UserSound
    <3>2. CASE labels[j].label = labels[i].label
      <4>1. i = j
        BY <1>1, <3>2, InvIs DEF LabelsTyped
      <4> QED
        BY <1>5, <4>1
    <3> QED
      BY <2>2, <3>1, <3>2
  <2> HIDE DEF passed
  <2>3. /\ user[r].call.tool \in {"create", "delete"} => user[r].call.id \in 1..Len(creator)
        /\ user[r].call.tool = "delete" => user[r].call.id \notin live'
    BY <1>5, <2>1 DEF UserSound
  <2> QED
    BY <1>0, <1>4, <2>2, <2>3 DEF UserSound
<1> HIDE DEF passed
<1>7. ASSUME ~shared' PROVE Apart'
  <2>1. Apart
    BY <1>0, <1>7, InvIs
  <2>2. /\ user[r].call # [tool |-> "none"] => user[r].pc = "on"
        /\ user[r].call.tool = "create" => creator[user[r].call.id] = r
    BY <2>1 DEF Apart
  <2> QED
    BY <1>0, <1>3, <2>1, <2>2, ApartStays
<1>8. shared' \in BOOLEAN /\ polled' \subseteq Runs \X (1..Len(creator))
  BY <1>0, InvIs DEF LabelsTyped
<1> QED
  BY <1>0, <1>3, <1>5, <1>6, <1>7, <1>8, UserMoves

\* The answer to a question.
LEMMA LabelsTold ==
    ASSUME LabelsInv, NEW r \in Runs, user[r].call.tool \notin {"create", "delete"},
           user' = [user EXCEPT ![r].call = [tool |-> "none"]],
           UNCHANGED <<labels, live, creator, rows, polled, shown, strayed, shared>>
    PROVE  LabelsInv'
<1> DEFINE none == [tool |-> "none"]
<1>0. none \in PowerCalls /\ none.tool = "none" /\ user' = [user EXCEPT ![r].call = none]
  BY AskIs
<1> HIDE DEF none
<1>1. UserTo(r, user[r].pc, none, user[r].calls, user[r].passed)
  BY <1>0, InvIs, UserChanges, Zenon
<1>2. UserNow(r, user[r].pc, none, user[r].passed)
  BY <1>0, <1>1, InvIs, UserIs, UserToIs
<1>3. user'[r].pc = user[r].pc /\ user'[r].call = none /\ user'[r].passed = user[r].passed
  BY <1>2 DEF UserNow
<1>4. UserSound(r)'
  <2>1. UserSound(r)
    BY InvIs
  <2> QED
    BY <1>0, <1>3, <2>1 DEF UserSound
<1>5. ASSUME ~shared' PROVE Apart'
  <2>1. Apart
    BY <1>5, InvIs
  <2>2. none = [tool |-> "none"]
    BY DEF none
  <2> QED
    BY <1>0, <1>2, <2>1, <2>2, ApartStays
<1>6. shared' \in BOOLEAN /\ polled' \subseteq Runs \X (1..Len(creator))
  BY InvIs DEF LabelsTyped
<1> QED
  BY <1>2, <1>4, <1>5, <1>6, UserMoves

\* What an answer about a subscription leaves: a call less, and of passed labels no more.
Answers(r) ==
    /\ user' \in [Runs -> Users] /\ user'[r].call.tool = "none" /\ user'[r].call = [tool |-> "none"]
    /\ \A o \in Runs : user'[o].pc = user[o].pc /\ user'[o].passed \subseteq user[o].passed
    /\ \A o \in Runs \ {r} : user'[o].call = user[o].call

LEMMA AnswersApart ==
    ASSUME Apart, NEW r \in Runs, user[r].call # [tool |-> "none"], Answers(r), UNCHANGED <<creator, polled>>,
           \A i \in 1..Len(labels') : creator[labels'[i].id] = r
    PROVE  Apart'
<1>1. Busy(r)
  BY DEF Apart, Busy
<1>2. \A o \in Runs : Busy(o)' <=> Busy(o)
  BY DEF Answers, Busy
<1>3. \A o \in Runs : Busy(o) => o = r
  BY <1>1 DEF Apart
<1>4. /\ \A o, q \in Runs : Busy(o)' /\ Busy(q)' => o = q
      /\ \A o \in Runs : Busy(o)' => \A i \in 1..Len(labels') : creator[labels'[i].id] = o
      /\ labels' # <<>> => \E o \in Runs : Busy(o)'
  BY <1>1, <1>2, <1>3
<1>5. \A o \in Runs : /\ user'[o].call # [tool |-> "none"] => user'[o].pc = "on"
                      /\ user'[o].call.tool = "create" => creator[user'[o].call.id] = o
  BY DEF Answers, Apart
<1>6. \A p \in polled : creator[p[2]] = p[1]
  BY DEF Apart
<1> QED
  BY <1>4, <1>5, <1>6 DEF Apart

LEMMA LabelsCreated ==
    ASSUME LabelsInv, NEW r \in Runs, NEW label \in Labels, NEW id \in 1..Len(creator),
           user[r].call.tool = "create", user[r].call # [tool |-> "none"], user[r].call.id = id, Answers(r),
           MapSet(labels', label, id), strayed \subseteq strayed',
           \A i \in 1..Len(labels) : labels[i].label = label => labels[i].id \in strayed',
           \A o \in Runs : user[o].pc = "cleaning" /\ label \in user[o].passed => id \in strayed',
           UNCHANGED <<live, creator, rows, polled, shown, shared>>
    PROVE  LabelsInv'
<1>0. /\ labels' \in Seq(Entries) /\ (\E i \in 1..Len(labels') : labels'[i].id = id /\ labels'[i].label = label)
      /\ \A i \in 1..Len(labels') : \/ labels'[i].label = label /\ labels'[i].id = id
                                    \/ \E j \in 1..Len(labels) : labels'[i] = labels[j] /\ labels[j].label # label
      /\ \A i, j \in 1..Len(labels') : labels'[i].label = labels'[j].label => i = j
      /\ \A j \in 1..Len(labels) : labels[j].label # label => \E i \in 1..Len(labels') : labels'[i] = labels[j]
  BY DEF MapSet
<1>1. LabelsTyped'
  <2>1. \A i \in 1..Len(labels') : labels'[i].id \in 1..Len(creator')
    BY <1>0, InvIs DEF LabelsTyped
  <2>2. user' \in [Runs -> Users]
    BY DEF Answers
  <2>3. creator' \in Seq(Runs) /\ live' \subseteq 1..Len(creator') /\ shared' \in BOOLEAN /\ polled' \subseteq Runs \X (1..Len(creator'))
    BY InvIs DEF LabelsTyped
  <2> QED
    BY <1>0, <2>1, <2>2, <2>3 DEF LabelsTyped
<1>2. ASSUME NEW o \in Runs PROVE UserSound(o)'
  <2>0. UserSound(o) /\ user'[o].pc = user[o].pc /\ user'[o].passed \subseteq user[o].passed
    BY InvIs DEF Answers
  <2>1. /\ user'[o].call.tool \in {"create", "delete"} => user'[o].call.id \in 1..Len(creator)
        /\ user'[o].call.tool = "delete" => user'[o].call.id \notin live
    <3>1. o = r \/ user'[o].call = user[o].call
      BY DEF Answers
    <3> QED
      BY <2>0, <3>1 DEF UserSound, Answers
  <2>2. user'[o].pc # "cleaning" => user'[o].passed = {}
    BY <2>0 DEF UserSound
  <2>3. ASSUME NEW i \in 1..Len(labels'), labels'[i].label \in user'[o].passed
        PROVE  labels'[i].id \in strayed' \/ labels'[i].id \notin live
    <3>0. labels'[i].label \in user[o].passed /\ user[o].pc = "cleaning"
      BY <2>0, <2>2, <2>3
    <3>1. CASE labels'[i].label = label /\ labels'[i].id = id
      BY <3>0, <3>1
    <3>2. ASSUME NEW j \in 1..Len(labels), labels'[i] = labels[j] PROVE labels'[i].id \in strayed' \/ labels'[i].id \notin live
      BY <2>0, <3>0, <3>2 DEF UserSound
    <3> QED
      BY <1>0, <3>1, <3>2
  <2> QED
    BY <2>1, <2>2, <2>3 DEF UserSound
<1>3. Accounted'
  <2> SUFFICES ASSUME NEW k \in live, k \notin strayed', ~\E i \in 1..Len(labels') : labels'[i].id = k PROVE InFlight(k)'
    BY DEF Accounted
  <2>1. k # id
    BY <1>0
  <2>2. ~\E j \in 1..Len(labels) : labels[j].id = k
    BY <1>0
  <2>3. PICK o \in Runs : user[o].call.tool = "create" /\ user[o].call.id = k
    BY <2>2, InvIs DEF Accounted, InFlight
  <2>4. o # r /\ user'[o].call = user[o].call
    BY <2>1, <2>3 DEF Answers
  <2> QED
    BY <2>3, <2>4 DEF InFlight
<1>4. ASSUME ~shared' PROVE Apart'
  <2>1. Apart
    BY <1>4, InvIs
  <2>2. creator[id] = r /\ Busy(r) /\ \A i \in 1..Len(labels) : creator[labels[i].id] = r
    BY <2>1 DEF Apart, Busy
  <2>3. \A i \in 1..Len(labels') : creator[labels'[i].id] = r
    BY <1>0, <2>2
  <2> QED
    BY <2>1, <2>3, AnswersApart
<1>5. P!GroupsAreKept'
  BY InvIs DEF P!GroupsAreKept
<1> QED
  BY <1>1, <1>2, <1>3, <1>4, <1>5 DEF LabelsInv

LEMMA LabelsDeleted ==
    ASSUME LabelsInv, NEW r \in Runs, NEW label \in Labels, NEW id,
           user[r].call.tool = "delete", user[r].call # [tool |-> "none"], user[r].call.id = id, Answers(r),
           MapWithout(labels', label), strayed \subseteq strayed',
           \A i \in 1..Len(labels) : labels[i].label = label => labels[i].id \in strayed' \/ labels[i].id = id,
           UNCHANGED <<live, creator, rows, polled, shown, shared>>
    PROVE  LabelsInv'
<1>0. /\ labels' \in Seq(Entries)
      /\ \A i \in 1..Len(labels') : \E j \in 1..Len(labels) : labels'[i] = labels[j]
      /\ \A i, j \in 1..Len(labels') : labels'[i].label = labels'[j].label => i = j
      /\ \A j \in 1..Len(labels) : labels[j].label # label => \E i \in 1..Len(labels') : labels'[i] = labels[j]
  BY DEF MapWithout
<1>01. id \notin live
  BY InvIs DEF UserSound
<1>1. LabelsTyped'
  <2>1. \A i \in 1..Len(labels') : labels'[i].id \in 1..Len(creator')
    BY <1>0, InvIs DEF LabelsTyped
  <2>2. user' \in [Runs -> Users]
    BY DEF Answers
  <2>3. creator' \in Seq(Runs) /\ live' \subseteq 1..Len(creator') /\ shared' \in BOOLEAN /\ polled' \subseteq Runs \X (1..Len(creator'))
    BY InvIs DEF LabelsTyped
  <2> QED
    BY <1>0, <2>1, <2>2, <2>3 DEF LabelsTyped
<1>2. ASSUME NEW o \in Runs PROVE UserSound(o)'
  <2>0. UserSound(o) /\ user'[o].pc = user[o].pc /\ user'[o].passed \subseteq user[o].passed
    BY InvIs DEF Answers
  <2>1. /\ user'[o].call.tool \in {"create", "delete"} => user'[o].call.id \in 1..Len(creator)
        /\ user'[o].call.tool = "delete" => user'[o].call.id \notin live
    <3>1. o = r \/ user'[o].call = user[o].call
      BY DEF Answers
    <3> QED
      BY <2>0, <3>1 DEF UserSound, Answers
  <2>2. user'[o].pc # "cleaning" => user'[o].passed = {}
    BY <2>0 DEF UserSound
  <2>3. ASSUME NEW i \in 1..Len(labels'), labels'[i].label \in user'[o].passed
        PROVE  labels'[i].id \in strayed' \/ labels'[i].id \notin live
    <3>1. PICK j \in 1..Len(labels) : labels'[i] = labels[j]
      BY <1>0
    <3> QED
      BY <2>0, <2>3, <3>1 DEF UserSound
  <2> QED
    BY <2>1, <2>2, <2>3 DEF UserSound
<1>3. Accounted'
  <2> SUFFICES ASSUME NEW k \in live, k \notin strayed', ~\E i \in 1..Len(labels') : labels'[i].id = k PROVE InFlight(k)'
    BY DEF Accounted
  <2>2. ~\E j \in 1..Len(labels) : labels[j].id = k
    BY <1>0, <1>01
  <2>3. PICK o \in Runs : user[o].call.tool = "create" /\ user[o].call.id = k
    BY <2>2, InvIs DEF Accounted, InFlight
  <2>4. o # r /\ user'[o].call = user[o].call
    BY <2>3 DEF Answers
  <2> QED
    BY <2>3, <2>4 DEF InFlight
<1>4. ASSUME ~shared' PROVE Apart'
  <2>1. Apart
    BY <1>4, InvIs
  <2>2. Busy(r) /\ \A i \in 1..Len(labels) : creator[labels[i].id] = r
    BY <2>1 DEF Apart, Busy
  <2>3. \A i \in 1..Len(labels') : creator[labels'[i].id] = r
    BY <1>0, <2>2
  <2> QED
    BY <2>1, <2>3, AnswersApart
<1>5. P!GroupsAreKept'
  BY InvIs DEF P!GroupsAreKept
<1> QED
  BY <1>1, <1>2, <1>3, <1>4, <1>5 DEF LabelsInv

\* What the map names under a label.
LEMMA NamedIs ==
    ASSUME LabelsTyped, NEW label
    PROVE  \A i \in 1..Len(labels) : labels[i].label = label => labels[i].id = P!IdOf(label) /\ labels[i].id # 0
<1> SUFFICES ASSUME NEW i \in 1..Len(labels), labels[i].label = label PROVE labels[i].id = P!IdOf(label) /\ labels[i].id # 0
  OBVIOUS
<1>1. P!Has(label)
  BY PlaceIs
<1>2. P!PlaceOf(label) \in 1..Len(labels) /\ labels[P!PlaceOf(label)].label = label
      /\ P!IdOf(label) = labels[P!PlaceOf(label)].id /\ P!IdOf(label) # 0
  BY <1>1, PlaceIs
<1>3. i = P!PlaceOf(label)
  BY <1>2 DEF LabelsTyped
<1> QED
  BY <1>2, <1>3

LEMMA LabelsAnswered ==
    ASSUME LabelsInv, NEW r \in Runs, P!Answered(r)
    PROVE  LabelsInv'
<1> DEFINE call == user[r].call
           label == call.label
           named == IF call.tool \in {"create", "delete"} THEN {P!IdOf(label)} \ {0} ELSE {}
           passedBy == {o \in Runs : user[o].pc = "cleaning" /\ label \in user[o].passed}
           none == [tool |-> "none"]
<1>1. /\ call # none /\ UNCHANGED <<live, creator, rows, polled, shown, shared>>
      /\ CASE call.tool = "create" ->
                /\ strayed' = strayed \cup named \cup (IF passedBy # {} THEN {call.id} ELSE {})
                /\ labels' = P!SetAt(label, call.id)
                /\ user' = [user EXCEPT ![r].call = none]
           [] call.tool = "delete" ->
                /\ strayed' = strayed \cup (named \ {call.id})
                /\ labels' = P!Without(label)
                /\ user' = [o \in Runs |-> [user[o] EXCEPT !.call = IF o = r THEN none ELSE user[o].call,
                                                           !.passed = user[o].passed \ {label}]]
           [] OTHER -> user' = [user EXCEPT ![r].call = none] /\ UNCHANGED <<strayed, labels>>
  BY Zenon DEF P!Answered, P!NoCall, P!NoId
<1>2. call \in PowerCalls /\ LabelsTyped
  BY InvIs, UserIs
<1>3. none \in PowerCalls /\ none.tool = "none"
  BY AskIs
<1>4. ASSUME call.tool = "create" PROVE LabelsInv'
  <2>1. label \in Labels /\ call.id \in Nat /\ call.id \in 1..Len(creator)
    <3>1. label \in Labels /\ call.id \in Nat
      BY <1>2, <1>4, CallIs
    <3>2. UserSound(r)
      BY InvIs
    <3> QED
      BY <1>4, <3>1, <3>2 DEF UserSound
  <2>2. /\ strayed' = strayed \cup named \cup (IF passedBy # {} THEN {call.id} ELSE {})
        /\ labels' = P!SetAt(label, call.id) /\ user' = [user EXCEPT ![r].call = none]
    BY <1>1, <1>4
  <2>3. MapSet(labels', label, call.id)
    BY <1>2, <2>1, <2>2, SetAtIs
  <2>4. \A i \in 1..Len(labels) : labels[i].label = label => labels[i].id \in strayed'
    <3>1. named = {P!IdOf(label)} \ {0}
      BY <1>4
    <3> HIDE DEF call, label, named
    <3> QED
      BY <1>2, <2>2, <3>1, NamedIs
  <2>5. \A o \in Runs : user[o].pc = "cleaning" /\ label \in user[o].passed => call.id \in strayed'
    <3> SUFFICES ASSUME NEW o \in Runs, user[o].pc = "cleaning" /\ label \in user[o].passed PROVE call.id \in strayed'
      OBVIOUS
    <3>1. passedBy # {}
      OBVIOUS
    <3> HIDE DEF call, label, named, passedBy
    <3> QED
      BY <2>2, <3>1
  <2>6. Answers(r)
    <3> HIDE DEF none
    <3>1. UserTo(r, user[r].pc, none, user[r].calls, user[r].passed)
      BY <2>2, InvIs, UserChanges, Zenon
    <3>2. UserNow(r, user[r].pc, none, user[r].passed)
      BY <1>3, <3>1, InvIs, UserIs, UserToIs
    <3> USE DEF none
    <3>3. \A o \in Runs : user'[o].pc = user[o].pc /\ user'[o].passed = user[o].passed
      BY <3>2 DEF UserNow
    <3> QED
      BY <1>3, <3>2, <3>3 DEF UserNow, Answers
  <2>7. strayed \subseteq strayed'
    BY <2>2
  <2>8. user[r].call.tool = "create" /\ user[r].call # [tool |-> "none"] /\ user[r].call.id = call.id
    BY <1>1, <1>4
  <2> HIDE DEF call, label, named, passedBy, none
  <2> QED
    BY <1>1, <2>1, <2>3, <2>4, <2>5, <2>6, <2>7, <2>8, LabelsCreated, Zenon
<1>5. ASSUME call.tool = "delete" PROVE LabelsInv'
  <2>1. label \in Labels
    BY <1>2, <1>5, CallIs
  <2>2. /\ strayed' = strayed \cup (named \ {call.id}) /\ labels' = P!Without(label)
        /\ user' = [o \in Runs |-> [user[o] EXCEPT !.call = IF o = r THEN none ELSE user[o].call,
                                                   !.passed = user[o].passed \ {label}]]
    BY <1>1, <1>5, Zenon
  <2>3. MapWithout(labels', label)
    BY <1>2, <2>2, WithoutIs, Zenon
  <2>4. \A i \in 1..Len(labels) : labels[i].label = label => labels[i].id \in strayed' \/ labels[i].id = call.id
    <3>1. named = {P!IdOf(label)} \ {0}
      BY <1>5
    <3> HIDE DEF call, label, named
    <3> QED
      BY <1>2, <2>2, <3>1, NamedIs, Zenon
  <2>5. ASSUME NEW o \in Runs
        PROVE  /\ user'[o] \in Users /\ user'[o].call = (IF o = r THEN none ELSE user[o].call)
               /\ user'[o].pc = user[o].pc /\ user'[o].passed = user[o].passed \ {label}
    <3> DEFINE u == user[o]
               its == IF o = r THEN none ELSE user[o].call
               left == user[o].passed \ {label}
               b == [pc |-> u.pc, call |-> its, calls |-> u.calls, passed |-> u.passed]
    <3>1. u = [pc |-> u.pc, call |-> u.call, calls |-> u.calls, passed |-> u.passed] /\ u \in Users
      BY <1>2, UserIs
    <3>2. its \in PowerCalls /\ left \in SUBSET Labels
      BY <1>2, <1>3, UserIs
    <3>3. user'[o] = [[u EXCEPT !.call = its] EXCEPT !.passed = left]
      BY <2>2, Zenon
    <3> HIDE DEF u, its, left
    <3>4. [u EXCEPT !.call = its] = b
      BY <3>1
    <3>5. [b EXCEPT !.passed = left] = [pc |-> u.pc, call |-> its, calls |-> u.calls, passed |-> left]
      OBVIOUS
    <3>6. user'[o] = [pc |-> u.pc, call |-> its, calls |-> u.calls, passed |-> left]
      BY <3>3, <3>4, <3>5
    <3>7. user'[o] \in Users /\ user'[o].call = its /\ user'[o].pc = u.pc /\ user'[o].passed = left
      BY <3>1, <3>2, <3>6 DEF Users
    <3> QED
      BY <3>7 DEF u, its, left
  <2>6. Answers(r)
    <3> HIDE DEF call, label, named, passedBy
    <3>1. user' \in [Runs -> Users]
      BY <2>2, <2>5, Zenon
    <3>2. \A o \in Runs : user'[o].pc = user[o].pc /\ user'[o].passed \subseteq user[o].passed
      BY <2>5
    <3>3. user'[r].call = none /\ \A o \in Runs \ {r} : user'[o].call = user[o].call
      BY <2>5
    <3> QED
      BY <1>3, <3>1, <3>2, <3>3 DEF Answers
  <2>7. strayed \subseteq strayed'
    BY <2>2, Zenon
  <2>8. user[r].call.tool = "delete" /\ user[r].call # [tool |-> "none"] /\ user[r].call.id = call.id
    BY <1>1, <1>5, Zenon
  <2> HIDE DEF call, label, named, passedBy, none
  <2> QED
    BY <1>1, <2>1, <2>3, <2>4, <2>6, <2>7, <2>8, LabelsDeleted, Zenon
<1>6. ASSUME call.tool \notin {"create", "delete"} PROVE LabelsInv'
  <2>1. user' = [user EXCEPT ![r].call = none] /\ UNCHANGED <<strayed, labels>>
    BY <1>1, <1>6, Zenon
  <2> QED
    BY <1>1, <1>6, <2>1, LabelsTold, Zenon
<1> QED
  BY <1>4, <1>5, <1>6

LEMMA LabelsOver ==
    ASSUME LabelsInv, NEW r \in Runs, P!CleanedUp(r)
    PROVE  LabelsInv'
<1>0. /\ user[r].pc = "cleaning" /\ (\A i \in DOMAIN labels : labels[i].label \in user[r].passed)
      /\ user' = [o \in Runs |-> [user[o] EXCEPT !.pc = IF o = r THEN "over" ELSE user[o].pc, !.passed = {}]]
      /\ labels' = <<>> /\ UNCHANGED <<live, creator, rows, polled, shown, strayed, shared>>
  BY Zenon DEF P!CleanedUp, P!Left, P!Cleared
<1>1. labels' \in Seq(Entries) /\ Len(labels') = 0 /\ 1..Len(labels') = {}
  <2>1. labels' \in Seq(Entries) /\ Len(labels') = 0
    BY <1>0, EmptySeq, Zenon
  <2> QED
    BY <2>1
<1>2. ASSUME NEW o \in Runs
      PROVE  /\ user'[o] \in Users /\ user'[o].call = user[o].call /\ user'[o].passed = {}
             /\ user'[o].pc = (IF o = r THEN "over" ELSE user[o].pc)
  <2> DEFINE u == user[o]
             at == IF o = r THEN "over" ELSE user[o].pc
             b == [pc |-> at, call |-> u.call, calls |-> u.calls, passed |-> u.passed]
  <2>1. u = [pc |-> u.pc, call |-> u.call, calls |-> u.calls, passed |-> u.passed] /\ u \in Users
    BY InvIs, UserIs
  <2>2. at \in {"idle", "on", "cleaning", "over"}
    BY InvIs, UserIs
  <2>3. user'[o] = [[u EXCEPT !.pc = at] EXCEPT !.passed = {}]
    BY <1>0, Zenon
  <2> HIDE DEF u, at
  <2>4. [u EXCEPT !.pc = at] = b
    BY <2>1
  <2>5. [b EXCEPT !.passed = {}] = [pc |-> at, call |-> u.call, calls |-> u.calls, passed |-> {}]
    OBVIOUS
  <2>6. user'[o] = [pc |-> at, call |-> u.call, calls |-> u.calls, passed |-> {}]
    BY <2>3, <2>4, <2>5
  <2>7. user'[o] \in Users /\ user'[o].call = u.call /\ user'[o].pc = at /\ user'[o].passed = {}
    BY <2>1, <2>2, <2>6 DEF Users
  <2> QED
    BY <2>7 DEF u, at
<1>3. user' \in [Runs -> Users]
  BY <1>0, <1>2, Zenon
<1>4. LabelsTyped'
  <2>1. /\ \A i \in 1..Len(labels') : labels'[i].id \in 1..Len(creator')
        /\ \A i, j \in 1..Len(labels') : labels'[i].label = labels'[j].label => i = j
    BY <1>1
  <2>2. creator' \in Seq(Runs) /\ live' \subseteq 1..Len(creator') /\ shared' \in BOOLEAN /\ polled' \subseteq Runs \X (1..Len(creator'))
    BY <1>0, InvIs, Zenon DEF LabelsTyped
  <2> QED
    BY <1>1, <1>3, <2>1, <2>2 DEF LabelsTyped
<1>5. ASSUME NEW o \in Runs PROVE UserSound(o)'
  <2>1. UserSound(o)
    BY InvIs
  <2>2. /\ user'[o].call.tool \in {"create", "delete"} => user'[o].call.id \in 1..Len(creator')
        /\ user'[o].call.tool = "delete" => user'[o].call.id \notin live'
    <3>1. user'[o].call = user[o].call /\ creator' = creator /\ live' = live
      BY <1>0, <1>2, Zenon
    <3> QED
      BY <2>1, <3>1 DEF UserSound
  <2> QED
    BY <1>1, <1>2, <2>2 DEF UserSound
<1>6. Accounted'
  <2> SUFFICES ASSUME NEW k \in live, k \notin strayed PROVE InFlight(k)'
    BY <1>0, Zenon DEF Accounted
  <2>1. ~\E i \in 1..Len(labels) : labels[i].id = k
    BY <1>0, InvIs, Zenon DEF UserSound
  <2>2. PICK o \in Runs : user[o].call.tool = "create" /\ user[o].call.id = k
    BY <2>1, InvIs DEF Accounted, InFlight
  <2> QED
    BY <1>2, <2>2 DEF InFlight
<1>7. ASSUME ~shared' PROVE Apart'
  <2>1. Apart /\ Busy(r)
    BY <1>0, <1>7, InvIs, Zenon DEF Busy
  <2>2. \A o \in Runs : ~Busy(o)'
    BY <1>2, <2>1 DEF Apart, Busy
  <2>3. \A o \in Runs : /\ user'[o].call # [tool |-> "none"] => user'[o].pc = "on"
                        /\ user'[o].call.tool = "create" => creator[user'[o].call.id] = o
    <3> SUFFICES ASSUME NEW o \in Runs
                 PROVE  /\ user'[o].call # [tool |-> "none"] => user'[o].pc = "on"
                        /\ user'[o].call.tool = "create" => creator[user'[o].call.id] = o
      OBVIOUS
    <3>1. user'[o].call = user[o].call
      BY <1>2
    <3>2. /\ user[o].call # [tool |-> "none"] => user[o].pc = "on"
          /\ user[o].call.tool = "create" => creator[user[o].call.id] = o
      BY <2>1 DEF Apart
    <3>3. user[o].pc = "on" => user'[o].pc = "on"
      BY <1>0, <1>2, Zenon
    <3> QED
      BY <3>1, <3>2, <3>3
  <2>4. \A p \in polled : creator[p[2]] = p[1]
    BY <2>1 DEF Apart
  <2> QED
    BY <1>0, <2>2, <2>3, <2>4, Zenon DEF Apart
<1>8. P!GroupsAreKept'
  BY <1>0, InvIs, Zenon DEF P!GroupsAreKept
<1> QED
  BY <1>4, <1>5, <1>6, <1>7, <1>8 DEF LabelsInv

LEMMA LabelsStep == LabelsInv /\ [P!Next]_(P!powerVars) => LabelsInv'
<1> SUFFICES ASSUME LabelsInv, [P!Next]_(P!powerVars) PROVE LabelsInv'
  OBVIOUS
<1>1. CASE UNCHANGED P!powerVars
  <2>1. UNCHANGED <<user, labels, live, creator, rows, polled, shown, strayed, shared>>
    BY <1>1 DEF P!powerVars
  <2>2. LabelsTyped' /\ (\A r \in Runs : UserSound(r)')
    BY <2>1, InvIs DEF LabelsTyped, UserSound
  <2>3. Accounted'
    BY <2>1, InvIs DEF Accounted, InFlight
  <2>4. shared' = shared /\ (Apart => Apart')
    BY <2>1 DEF Apart, Busy
  <2>5. P!GroupsAreKept'
    BY <2>1, InvIs DEF P!GroupsAreKept
  <2> QED
    BY <2>2, <2>3, <2>4, <2>5, InvIs DEF LabelsInv
<1>2. ASSUME NEW r \in Runs,
             P!BeforeExecute(r) \/ P!CallNext(r) \/ P!AfterExecute(r) \/ P!CleansOne(r) \/ P!CleanedUp(r)
      PROVE  LabelsInv'
  <2>1. CASE P!BeforeExecute(r)
    BY <2>1, LabelsBefore
  <2>2. CASE P!Ask(r)
    BY <2>2, LabelsAsk
  <2>3. CASE P!Write(r)
    <3>1. PICK tool \in {"table_insert", "table_update", "table_delete", "minnsql_execute"} : P!MayCall(r, tool)
      BY <2>3, Zenon DEF P!Write
    <3>2. tool \in P!tools
      BY <3>1 DEF P!MayCall
    <3> QED
      BY <3>1, <3>2, ToolsAre
  <2>4. CASE P!Answered(r)
    BY <2>4, LabelsAnswered
  <2>5. ASSUME NEW label \in Labels, P!Create(r, label) \/ P!Poll(r, label) \/ P!Delete(r, label) PROVE LabelsInv'
    BY <2>5, LabelsCreate, LabelsPoll, LabelsDelete
  <2>6. CASE P!AfterExecute(r)
    BY <2>6, LabelsAfter
  <2>7. CASE P!CleansOne(r)
    BY <2>7, LabelsCleans
  <2>8. CASE P!CleanedUp(r)
    BY <2>8, LabelsOver
  <2> QED
    BY <1>2, <2>1, <2>2, <2>3, <2>4, <2>5, <2>6, <2>7, <2>8 DEF P!CallNext
<1> QED
  BY <1>1, <1>2 DEF P!Next

LEMMA LabelsSound == LabelsInv => P!CleanedBehind /\ P!PollsItsOwn /\ P!GroupsAreKept
<1> SUFFICES ASSUME LabelsInv PROVE P!CleanedBehind /\ P!PollsItsOwn
  BY InvIs
<1>1. P!PollsItsOwn
  BY InvIs DEF P!PollsItsOwn, Apart
<1>2. P!CleanedBehind
  <2> SUFFICES ASSUME \A r \in Runs : user[r].call = [tool |-> "none"], NEW id \in live
               PROVE  id \in strayed \/ \E i \in DOMAIN labels : labels[i].id = id
    BY DEF P!CleanedBehind, P!NoCall
  <2>1. ~InFlight(id)
    BY AskIs DEF InFlight
  <2> QED
    BY <2>1, InvIs DEF Accounted
<1> QED
  BY <1>1, <1>2

\* The same with the tools of the tables: nothing is subscribed to, and no row of another
\* group is reached but by table_delete.
Rows == [group : {"ours", "theirs"}, is : {"as written", "updated", "deleted"}]

Asks == {[tool |-> "none"], [tool |-> "ask"]}

TablesInv ==
    /\ labels = <<>> /\ live = {} /\ polled = {} /\ shown \subseteq {"ours"} /\ rows \in Seq(Rows)
    /\ user \in [Runs -> [pc : {"idle", "on", "cleaning", "over"}, call : Asks, calls : Nat, passed : SUBSET Labels]]
    /\ \A i \in 1..Len(rows) : rows[i].group # "ours" => rows[i].is # "updated"

LEMMA TablesStart == P!Init => TablesInv
<1> SUFFICES ASSUME P!Init PROVE TablesInv
  OBVIOUS
<1> DEFINE row == [group |-> "theirs", is |-> "as written"]
<1>1. /\ user = [r \in Runs |-> [pc |-> "idle", call |-> [tool |-> "none"], calls |-> 0, passed |-> {}]]
      /\ labels = <<>> /\ live = {} /\ polled = {} /\ shown = {} /\ rows = <<row>>
  BY Zenon DEF P!Init, P!NoCall
<1>2. row \in Rows /\ row.is # "updated"
  BY DEF Rows
<1> HIDE DEF row
<1>3. rows \in Seq(Rows) /\ Len(rows) = 1 /\ rows[1] = row
  BY <1>1, <1>2
<1>4. \A i \in 1..Len(rows) : rows[i].is # "updated"
  BY <1>2, <1>3
<1>5. user \in [Runs -> [pc : {"idle", "on", "cleaning", "over"}, call : Asks, calls : Nat, passed : SUBSET Labels]]
  BY <1>1 DEF Asks
<1> QED
  BY <1>1, <1>3, <1>4, <1>5 DEF TablesInv

\* A row within reach is ours, unless the call is of table_delete.
LEMMA ReachedIs ==
    ASSUME NEW tool, tool # "table_delete", NEW i \in R!Reached(tool)
    PROVE  i \in DOMAIN rows /\ rows[i].group = "ours"
BY DEF R!Reached, R!GroupSent, R!Ours

LEMMA UsersKept ==
    ASSUME user \in [Runs -> [pc : {"idle", "on", "cleaning", "over"}, call : Asks, calls : Nat, passed : SUBSET Labels]],
           NEW r \in Runs,
           \/ R!BeforeExecute(r) \/ R!AfterExecute(r) \/ R!CleanedUp(r) \/ R!Sent(r, [tool |-> "ask"])
           \/ user' = [user EXCEPT ![r].call = R!NoCall]
    PROVE  user' \in [Runs -> [pc : {"idle", "on", "cleaning", "over"}, call : Asks, calls : Nat, passed : SUBSET Labels]]
<1>1. CASE R!BeforeExecute(r)
  <2>1. user' = [user EXCEPT ![r].pc = "on"]
    BY <1>1 DEF R!BeforeExecute
  <2> QED
    BY <2>1
<1>2. CASE R!AfterExecute(r)
  <2>1. user' = [user EXCEPT ![r].pc = "cleaning"]
    BY <1>2 DEF R!AfterExecute
  <2> QED
    BY <2>1
<1>3. CASE R!CleanedUp(r)
  <2>1. user' = [o \in Runs |-> [user[o] EXCEPT !.pc = IF o = r THEN "over" ELSE user[o].pc, !.passed = {}]]
    BY <1>3, Zenon DEF R!CleanedUp
  <2>2. ASSUME NEW o \in Runs
        PROVE  [user[o] EXCEPT !.pc = IF o = r THEN "over" ELSE user[o].pc, !.passed = {}] \in
                   [pc : {"idle", "on", "cleaning", "over"}, call : Asks, calls : Nat, passed : SUBSET Labels]
    <3>1. user[o] \in [pc : {"idle", "on", "cleaning", "over"}, call : Asks, calls : Nat, passed : SUBSET Labels]
      OBVIOUS
    <3>2. {} \in SUBSET Labels /\ (IF o = r THEN "over" ELSE user[o].pc) \in {"idle", "on", "cleaning", "over"}
      BY <3>1
    <3> QED
      BY <3>1, <3>2
  <2> QED
    BY <2>1, <2>2, Zenon
<1>4. CASE R!Sent(r, [tool |-> "ask"])
  <2>1. user' = [user EXCEPT ![r] = [user[r] EXCEPT !.call = [tool |-> "ask"], !.calls = user[r].calls + 1]]
    BY <1>4 DEF R!Sent
  <2>2. user[r].calls + 1 \in Nat /\ [tool |-> "ask"] \in Asks
    BY DEF Asks
  <2>3. [user[r] EXCEPT !.call = [tool |-> "ask"], !.calls = user[r].calls + 1] \in
            [pc : {"idle", "on", "cleaning", "over"}, call : Asks, calls : Nat, passed : SUBSET Labels]
    BY <2>2
  <2> QED
    BY <2>1, <2>3, Zenon
<1>5. CASE user' = [user EXCEPT ![r].call = R!NoCall]
  <2>1. R!NoCall \in Asks
    BY DEF R!NoCall, Asks
  <2> QED
    BY <1>5, <2>1
<1> QED
  BY <1>1, <1>2, <1>3, <1>4, <1>5

LEMMA TablesStep == TablesInv /\ [R!Next]_(R!powerVars) => TablesInv'
<1> SUFFICES ASSUME TablesInv, [R!Next]_(R!powerVars) PROVE TablesInv'
  OBVIOUS
<1> DEFINE Kind == [pc : {"idle", "on", "cleaning", "over"}, call : Asks, calls : Nat, passed : SUBSET Labels]
<1>0. /\ labels = <<>> /\ live = {} /\ polled = {} /\ shown \subseteq {"ours"} /\ rows \in Seq(Rows)
      /\ user \in [Runs -> Kind] /\ \A i \in 1..Len(rows) : rows[i].group # "ours" => rows[i].is # "updated"
  BY DEF TablesInv
<1>01. DOMAIN labels = {} /\ DOMAIN rows = 1..Len(rows) /\ Len(rows) \in Nat
  <2>1. Len(labels) = 0 /\ labels \in Seq({})
    BY <1>0, EmptySeq
  <2>2. DOMAIN labels = 1..0
    BY <2>1, LenProperties
  <2> QED
    BY <1>0, <2>2, LenProperties
<1>1. CASE UNCHANGED R!powerVars
  <2>1. UNCHANGED <<user, labels, live, rows, polled, shown>>
    BY <1>1 DEF R!powerVars
  <2> QED
    BY <2>1 DEF TablesInv
<1>2. ASSUME NEW r \in Runs, NEW tool, R!Sent(r, [tool |-> "ask"]), UNCHANGED <<labels, live, polled>>,
             shown' \subseteq {"ours"}, rows' \in Seq(Rows),
             \A i \in 1..Len(rows') : rows'[i].group # "ours" => rows'[i].is # "updated"
      PROVE  TablesInv'
  <2>1. user' \in [Runs -> Kind]
    BY <1>0, <1>2, UsersKept
  <2> QED
    BY <1>0, <1>2, <2>1 DEF TablesInv
<1>3. ASSUME NEW r \in Runs,
             \/ R!BeforeExecute(r) \/ R!AfterExecute(r) \/ R!CleanedUp(r) \/ user' = [user EXCEPT ![r].call = R!NoCall],
             UNCHANGED <<labels, live, rows, polled, shown>>
      PROVE  TablesInv'
  <2>1. user' \in [Runs -> Kind]
    BY <1>0, <1>3, UsersKept
  <2> QED
    BY <1>0, <1>3, <2>1 DEF TablesInv
<1>4. ASSUME NEW r \in Runs, R!Ask(r) PROVE TablesInv'
  <2>1. PICK tool \in R!tools \cap (R!Questions \cup {"table_scan", "minnsql_execute"}) :
          /\ R!Sent(r, [tool |-> "ask"])
          /\ shown' = shown \cup (IF tool \in R!Questions THEN {} ELSE {rows[i].group : i \in R!Reached(tool)})
          /\ UNCHANGED <<labels, live, rows, polled>>
    BY <1>4 DEF R!Ask
  <2>2. tool \notin R!Questions => tool # "table_delete"
    BY <2>1
  <2>3. shown' \subseteq {"ours"}
    BY <1>0, <2>1, <2>2, ReachedIs
  <2> QED
    BY <1>0, <1>2, <2>1, <2>3
<1>5. ASSUME NEW r \in Runs, R!Write(r) PROVE TablesInv'
  <2>1. PICK tool \in {"table_insert", "table_update", "table_delete", "minnsql_execute"} :
          /\ R!Sent(r, [tool |-> "ask"]) /\ UNCHANGED <<labels, live, polled, shown>>
          /\ \/ /\ tool \in {"table_insert", "minnsql_execute"} /\ rows' = Append(rows, [group |-> R!GroupSent(tool), is |-> "as written"])
             \/ /\ tool # "table_insert"
                /\ \E i \in R!Reached(tool) :
                     rows' = [rows EXCEPT ![i].is = IF tool = "table_delete" \/ rows[i].is = "deleted"
                                                    THEN "deleted" ELSE "updated"]
             \/ /\ tool = "minnsql_execute"
                /\ \E i \in R!Reached(tool) : rows' = [rows EXCEPT ![i].is = "deleted"]
             \/ rows' = rows
    BY <1>5, Zenon DEF R!Write
  <2>2. CASE tool \in {"table_insert", "minnsql_execute"} /\ rows' = Append(rows, [group |-> R!GroupSent(tool), is |-> "as written"])
    <3> DEFINE row == [group |-> "ours", is |-> "as written"]
    <3>1. rows' = Append(rows, row) /\ row \in Rows /\ row.is # "updated"
      BY <2>2, Zenon DEF R!GroupSent, R!Ours, Rows
    <3> HIDE DEF row
    <3>2. /\ rows' \in Seq(Rows) /\ Len(rows') = Len(rows) + 1 /\ rows'[Len(rows) + 1] = row
          /\ \A i \in 1..Len(rows) : rows'[i] = rows[i]
      BY <1>0, <3>1, AppendProperties
    <3>3. \A i \in 1..Len(rows') : i = Len(rows) + 1 \/ i \in 1..Len(rows)
      BY <1>01, <3>2
    <3>4. \A i \in 1..Len(rows') : rows'[i].group # "ours" => rows'[i].is # "updated"
      BY <1>0, <3>1, <3>2, <3>3
    <3> QED
      BY <1>0, <1>2, <2>1, <3>2, <3>4, Zenon
  <2>3. ASSUME NEW i \in R!Reached(tool), NEW now \in {"updated", "deleted"},
               tool = "table_delete" => now = "deleted", rows' = [rows EXCEPT ![i].is = now]
        PROVE  TablesInv'
    <3> DEFINE row == [group |-> rows[i].group, is |-> now]
    <3>1. i \in 1..Len(rows) /\ (tool # "table_delete" => rows[i].group = "ours")
      BY <1>01, ReachedIs, Zenon DEF R!Reached
    <3>2. rows[i] \in Rows /\ rows' = [rows EXCEPT ![i] = [rows[i] EXCEPT !.is = now]]
      BY <1>0, <2>3, <3>1
    <3>3. now \in {"updated", "deleted"} /\ (now = "updated" => tool # "table_delete")
      BY <2>3
    <3>4. [rows[i] EXCEPT !.is = now] = row
      <4> DEFINE old == rows[i]
      <4>1. old = [group |-> old.group, is |-> old.is]
        BY <3>2, Zenon DEF Rows
      <4> HIDE DEF old
      <4>2. [old EXCEPT !.is = now] = [group |-> old.group, is |-> now]
        BY <4>1
      <4> QED
        BY <4>2 DEF old
    <3>5. row \in Rows /\ (row.group # "ours" => row.is # "updated")
      BY <3>1, <3>2, <3>3, Zenon DEF Rows
    <3>6. rows' = [rows EXCEPT ![i] = row]
      BY <3>2, <3>4
    <3> HIDE DEF row
    <3>7. /\ rows' \in Seq(Rows) /\ Len(rows') = Len(rows) /\ rows'[i] = row
          /\ \A j \in 1..Len(rows) : j # i => rows'[j] = rows[j]
      BY <1>0, <3>1, <3>5, <3>6, ExceptSeq
    <3>8. \A j \in 1..Len(rows') : rows'[j].group # "ours" => rows'[j].is # "updated"
      BY <1>0, <3>5, <3>7
    <3> QED
      BY <1>0, <1>2, <2>1, <3>7, <3>8, Zenon
  <2>4. CASE rows' = rows
    BY <1>0, <1>2, <2>1, <2>4
  <2>5. ASSUME NEW i \in R!Reached(tool),
               rows' = [rows EXCEPT ![i].is = IF tool = "table_delete" \/ rows[i].is = "deleted"
                                              THEN "deleted" ELSE "updated"]
        PROVE  TablesInv'
    <3> DEFINE now == IF tool = "table_delete" \/ rows[i].is = "deleted" THEN "deleted" ELSE "updated"
    <3>1. now \in {"updated", "deleted"} /\ (tool = "table_delete" => now = "deleted")
      OBVIOUS
    <3>2. rows' = [rows EXCEPT ![i].is = now]
      BY <2>5
    <3> HIDE DEF now
    <3> QED
      BY <2>3, <3>1, <3>2
  <2>6. ASSUME NEW i \in R!Reached(tool), tool = "minnsql_execute", rows' = [rows EXCEPT ![i].is = "deleted"]
        PROVE  TablesInv'
    BY <2>3, <2>6
  <2> QED
    BY <2>1, <2>2, <2>4, <2>5, <2>6, Zenon
<1>6. ASSUME NEW r \in Runs, R!Answered(r) PROVE TablesInv'
  <2>1. user[r].call \in Asks /\ user[r].call.tool \notin {"create", "delete"}
    <3>1. user[r].call \in Asks
      BY <1>0
    <3> QED
      BY <3>1 DEF Asks
  <2>2. user' = [user EXCEPT ![r].call = R!NoCall] /\ UNCHANGED <<labels, live, rows, polled, shown>>
    BY <1>6, <2>1, Zenon DEF R!Answered
  <2> QED
    BY <1>3, <2>2
<1>7. ASSUME NEW r \in Runs, NEW label \in Labels, R!Create(r, label) \/ R!Poll(r, label) \/ R!Delete(r, label)
      PROVE  TablesInv'
  <2>1. \E tool \in {"subscription_create", "subscription_poll", "subscription_delete"} : R!MayCall(r, tool)
    BY <1>7 DEF R!Create, R!Poll, R!Delete
  <2>2. \E tool \in {"subscription_create", "subscription_poll", "subscription_delete"} : tool \in R!tools
    BY <2>1 DEF R!MayCall
  <2> QED
    BY <2>2, ToolsAre
<1>8. ASSUME NEW r \in Runs, R!BeforeExecute(r) \/ R!AfterExecute(r) PROVE TablesInv'
  <2>1. UNCHANGED <<labels, live, rows, polled, shown>>
    BY <1>8 DEF R!BeforeExecute, R!AfterExecute
  <2> QED
    BY <1>3, <1>8, <2>1
<1>9. ASSUME NEW r \in Runs, R!CleansOne(r) PROVE TablesInv'
  BY <1>01, <1>9 DEF R!CleansOne, R!Left
<1>10. ASSUME NEW r \in Runs, R!CleanedUp(r) PROVE TablesInv'
  <2>1. UNCHANGED <<labels, live, rows, polled, shown>>
    BY <1>0, <1>10, Zenon DEF R!CleanedUp, R!Cleared
  <2> QED
    BY <1>3, <1>10, <2>1
<1> QED
  BY <1>1, <1>4, <1>5, <1>6, <1>7, <1>8, <1>9, <1>10 DEF R!Next, R!CallNext

LEMMA TablesSound == TablesInv => P!CleanedBehind /\ P!PollsItsOwn /\ P!GroupsAreKept
<1> SUFFICES ASSUME TablesInv PROVE P!CleanedBehind /\ P!PollsItsOwn /\ P!GroupsAreKept
  OBVIOUS
<1>1. DOMAIN rows = 1..Len(rows)
  <2>1. rows \in Seq(Rows)
    BY DEF TablesInv
  <2> QED
    BY <2>1, LenProperties
<1> QED
  BY <1>1 DEF TablesInv, P!CleanedBehind, P!PollsItsOwn, P!GroupsAreKept, P!Ours

\* The parts together: what shares its variables has the invariant of the one at work.
AgentsInv ==
    /\ LoopInv /\ T!TreeInv /\ AsyncInv /\ KInv /\ SavesInv
    /\ IF part = "watchers" THEN WatchInv ELSE ClaimInv
    /\ IF part = "workers" THEN WorkersInv ELSE IsolatedInv
    /\ IF part = "tables" THEN TablesInv ELSE LabelsInv

LEMMA KeyedStart == Init => KInv
<1> SUFFICES ASSUME Init PROVE KInv
  OBVIOUS
<1>0. KeyedTurnsAssumption
  BY AgentsConstants
<1>1. UsedKeys = {}
  BY DEF Init, UsedKeys
<1>2. IsFiniteSet(UsedKeys)
  BY <1>1, FS_EmptySet
<1>3. MapIsSound /\ Wanted /\ Callers /\ KeyedAtStart /\ AllRemembered
  BY <1>0 DEF Init, MapIsSound, TypeOK, TurnState, Wanted, Callers, Running, KeyedAtStart, AllRemembered,
              KeyedTurnsAssumption
<1> QED
  BY <1>2, <1>3 DEF KInv

\* The invariant holds in every state of every execution, whichever part is at work.
THEOREM AgentsInvariant == AgentsSpec => []AgentsInv
<1>0. T!TreeAssumption
  BY AgentsConstants DEF T!TreeAssumption
<1>1. AgentsInit => AgentsInv
  <2> SUFFICES ASSUME AgentsInit PROVE AgentsInv
    OBVIOUS
  <2>1. /\ S!Init /\ T!Init /\ A!Init /\ Init /\ P!Init /\ M!Init
        /\ IF part = "watchers" THEN W!Init ELSE C!Init
        /\ IF part = "workers" THEN D!Init ELSE I!Init
    BY Zenon DEF AgentsInit
  <2>2. LoopInv /\ T!TreeInv /\ AsyncInv /\ KInv /\ SavesInv /\ TablesInv /\ LabelsInv
    BY <1>0, <2>1, LoopStart, T!TreeStart, AsyncStart, KeyedStart, SavesStart, TablesStart, LabelsStart, Zenon
  <2>3. IF part = "watchers" THEN WatchInv ELSE ClaimInv
    BY <2>1, WatchStart, ClaimStart, Zenon
  <2>4. IF part = "workers" THEN WorkersInv ELSE IsolatedInv
    BY <2>1, JobsStart, Zenon
  <2> QED
    BY <2>2, <2>3, <2>4, Zenon DEF AgentsInv
<1>2. AgentsInv /\ [AgentsNext]_agentVars => AgentsInv'
  <2> SUFFICES ASSUME AgentsInv, [AgentsNext]_agentVars PROVE AgentsInv'
    OBVIOUS
  <2>1. /\ [S!Next]_(S!loopVars) /\ [T!Next]_(T!treeVars) /\ [A!Next]_(A!vars) /\ [Next]_vars
        /\ [M!Next]_(M!checkpointVars)
        /\ IF part = "watchers" THEN [W!Next]_(W!claimVars) ELSE [C!Next]_(C!claimVars)
        /\ IF part = "workers" THEN [D!Next]_(D!subVars) ELSE [I!Next]_(I!subVars)
        /\ IF part = "tables" THEN [R!Next]_(R!powerVars) ELSE [P!Next]_(P!powerVars)
        /\ part' = part
    BY AgentsApart, Zenon
  <2>2. LoopInv'
    BY <2>1, LoopStep, Zenon DEF AgentsInv
  <2>3. T!TreeInv'
    BY <1>0, <2>1, T!TreeStep, Zenon DEF AgentsInv
  <2>4. AsyncInv'
    BY <2>1, AsyncStep, Zenon DEF AgentsInv
  <2>5. KInv'
    <3>1. KeyedTurnsAssumption /\ KInv /\ [Next]_vars
      BY <2>1, AgentsConstants, Zenon DEF AgentsInv
    <3> QED
      BY <3>1, KeyedNext, Zenon
  <2>6. SavesInv'
    BY <2>1, SavesStep, Zenon DEF AgentsInv
  <2>7. (IF part = "watchers" THEN WatchInv ELSE ClaimInv)'
    <3>1. CASE part = "watchers"
      BY <2>1, <3>1, WatchOn, Zenon DEF AgentsInv
    <3>2. CASE part # "watchers"
      BY <2>1, <3>2, ClaimOn, Zenon DEF AgentsInv
    <3> QED
      BY <3>1, <3>2
  <2>8. (IF part = "workers" THEN WorkersInv ELSE IsolatedInv)'
    <3>1. CASE part = "workers"
      BY <2>1, <3>1, WorkersStep, Zenon DEF AgentsInv
    <3>2. CASE part # "workers"
      BY <2>1, <3>2, IsolatedStep, Zenon DEF AgentsInv
    <3> QED
      BY <3>1, <3>2
  <2>9. (IF part = "tables" THEN TablesInv ELSE LabelsInv)'
    <3>1. CASE part = "tables"
      BY <2>1, <3>1, TablesStep, Zenon DEF AgentsInv
    <3>2. CASE part # "tables"
      BY <2>1, <3>2, LabelsStep, Zenon DEF AgentsInv
    <3> QED
      BY <3>1, <3>2
  <2> QED
    BY <2>2, <2>3, <2>4, <2>5, <2>6, <2>7, <2>8, <2>9, Zenon DEF AgentsInv
<1> QED
  BY <1>1, <1>2, PTL DEF AgentsSpec

\* Whatever is bounded stays so: the tool calls of the simple agent and what it does once
\* told to stop, the iterations and walks of a tree search, the workers at once and the
\* steps of each, the background tasks admitted, and what a cancelled one may still start.
THEOREM BoundsAreKept == AgentsSpec => []AgentsKeepBounds
<1>1. AgentsInv => AgentsKeepBounds
  <2> SUFFICES ASSUME AgentsInv PROVE AgentsKeepBounds
    OBVIOUS
  <2>1. S!CapHolds /\ S!CancelIsHeard
    BY LoopSound, Zenon DEF AgentsInv
  <2>2. T!SearchesAreBounded /\ T!WalksEnd
    BY T!TreeSound, Zenon DEF AgentsInv
  <2>3. part = "workers" => D!WorkersAreCounted
    BY WorkersSound, Zenon DEF AgentsInv
  <2>4. A!TypeOK /\ A!Admission /\ A!CancelTakesHold
    BY AsyncSound, Zenon DEF AgentsInv
  <2> QED
    BY <2>1, <2>2, <2>3, <2>4, Zenon DEF AgentsKeepBounds
<1> QED
  BY <1>1, AgentsInvariant, PTL

\* What agents say and show is so: every call in the transcript of the simple agent has
\* its answer and a goal it declares reached was checked, the path a search keeps is the
\* one it walked and its visits add up, a record that says running is of a worker at
\* work, a sub-agent works for its caller and reports its own, a step has one claimant.
THEOREM TheTruthIsTold == AgentsSpec => []AgentsTellTheTruth
<1>1. AgentsInv => AgentsTellTheTruth
  <2> SUFFICES ASSUME AgentsInv PROVE AgentsTellTheTruth
    OBVIOUS
  <2>1. S!RequestsPaired /\ S!DoneIsChecked
    BY LoopSound, Zenon DEF AgentsInv
  <2>2. T!PathIsWhatWasDone /\ T!VisitsAddUp
    BY T!TreeSound, Zenon DEF AgentsInv
  <2>3. A!RunningIsLive
    BY AsyncSound, Zenon DEF AgentsInv
  <2>4. part # "workers" => I!IsolatedWorksForItsCaller /\ I!ReportsItsOwn
    BY IsolatedSound, Zenon DEF AgentsInv
  <2>5. part # "watchers" => C!OneClaimant
    BY ClaimSound, Zenon DEF AgentsInv
  <2> QED
    BY <2>1, <2>2, <2>3, <2>4, <2>5, Zenon DEF AgentsTellTheTruth
<1> QED
  BY <1>1, AgentsInvariant, PTL

\* Nothing a run has made at the services outlives it unseen: the subscriptions of step
\* watchers end and every update is heard, those of the Minns tools are cleaned up or
\* excused, rows and polls stay in their group and run, and a writer's checkpoints are a
\* line of its own work, whatever another process saves in between.
THEOREM NothingIsLeftBehind == AgentsSpec => []NothingLeftBehind
<1>1. AgentsInv => NothingLeftBehind
  <2> SUFFICES ASSUME AgentsInv PROVE NothingLeftBehind
    OBVIOUS
  <2>1. part = "watchers" => W!SubscriptionsEnd /\ W!UpdatesAreHeard
    BY WatchSound, Zenon DEF AgentsInv
  <2>2. P!CleanedBehind /\ P!PollsItsOwn /\ P!GroupsAreKept
    <3>1. CASE part = "tables"
      BY <3>1, TablesSound, Zenon DEF AgentsInv
    <3>2. CASE part # "tables"
      BY <3>2, LabelsSound, Zenon DEF AgentsInv
    <3> QED
      BY <3>1, <3>2
  <2>3. M!OwnSaveStands /\ M!ResumesOwnWork /\ M!ChainIsALine
    BY SavesSound, Zenon DEF AgentsInv
  <2> QED
    BY <2>1, <2>2, <2>3, Zenon DEF NothingLeftBehind
<1> QED
  BY <1>1, AgentsInvariant, PTL

\* A keyed turn is paid for once: of two turns of one key one at least has
\* failed, as long as the map has room for all the keys there are.
THEOREM KeyedTurnsArePaidOnce == AgentsSpec => []PaidOnce
<1>1. AgentsInv => PaidOnce
  <2> SUFFICES ASSUME KInv, Cardinality(UsedKeys) <= MaxKeyedTurns,
                      NEW t1 \in Turns, NEW t2 \in Turns, turn[t1].key = turn[t2].key,
                      turn[t1].key \in Keys, turn[t1].status # "failed", turn[t2].status # "failed"
               PROVE  t1 = t2
    BY DEF AgentsInv, PaidOnce, UsedKeys
  <2>1. PICK n1 \in DOMAIN keyedTurns : keyedTurns[n1] = [key |-> turn[t1].key, turn |-> t1]
    BY DEF KInv, AllRemembered
  <2>2. PICK n2 \in DOMAIN keyedTurns : keyedTurns[n2] = [key |-> turn[t2].key, turn |-> t2]
    BY DEF KInv, AllRemembered
  <2>3. n1 = n2
    BY <2>1, <2>2 DEF KInv, MapIsSound
  <2> QED
    BY <2>1, <2>2, <2>3
<1> QED
  BY <1>1, AgentsInvariant, PTL

\* The map speaks the truth: one entry for a key, none for a turn that failed.
THEOREM TheMapIsSound == AgentsSpec => []MapIsSound
<1>1. AgentsInv => MapIsSound
  BY Zenon DEF AgentsInv, KInv
<1> QED
  BY <1>1, AgentsInvariant, PTL

\* No turn runs for nobody: it is awaited, or keyed, or was told to stop; only an
\* unkeyed turn that nobody waits for is told to, and nobody waits for a turn that
\* was never started.
THEOREM NobodyIsOrphaned == AgentsSpec => []NoOrphans
<1>1. AgentsInv => NoOrphans
  <2> SUFFICES ASSUME KInv PROVE NoOrphans
    BY Zenon DEF AgentsInv
  <2>1. Wanted /\ Callers /\ request \in [Requests -> Turns \cup {NoTurn}]
    BY DEF KInv, MapIsSound, TypeOK
  <2> QED
    BY <2>1 DEF NoOrphans, Callers
<1> QED
  BY <1>1, AgentsInvariant, PTL

\* An entry leaves the map for its own turn's failure, or as the oldest of a map
\* that is full and stays full: a late failure never takes a newer turn's entry.
THEOREM OnlyItsOwnIsForgotten == AgentsSpec => ForgetsOnlyItsOwn
<1> DEFINE Forgets(n) ==
        \/ \E m \in DOMAIN keyedTurns' : keyedTurns'[m] = keyedTurns[n]
        \/ turn'[keyedTurns[n].turn].status = "failed"
        \/ n = 1 /\ Len(keyedTurns) = MaxKeyedTurns /\ Len(keyedTurns') = MaxKeyedTurns
<1>1. ASSUME KInv, Next, NEW n \in DOMAIN keyedTurns PROVE Forgets(n)
  <2>0. /\ MapIsSound /\ keyedTurns[n] \in Entry /\ keyedTurns \in Seq(Entry)
        /\ turn \in [Turns -> TurnState] /\ KeyedTurnsAssumption
    BY <1>1, AgentsConstants DEF KInv, MapIsSound, TypeOK
  <2>1. CASE keyedTurns' = keyedTurns
    BY <2>1
  <2>2. ASSUME NEW q \in Requests, NEW k \in Keys, NEW t \in Turns, Start(q, k, t) PROVE Forgets(n)
    <3>1. keyedTurns' = Kept(keyedTurns, k, t) /\ Remembered(k) = {}
      BY <2>0, <2>2 DEF Start, KeyedTurnsAssumption
    <3>2. \A m \in DOMAIN keyedTurns : keyedTurns[m].key # k
      BY <2>0, <3>1, EntryTypes DEF Remembered
    <3>3. MapIsSound /\ KeyedTurnsAssumption
      BY <2>0
    <3>4. Adds(keyedTurns', [key |-> k, turn |-> t])
      BY <3>1, <3>2, <3>3, KeptEffects
    <3> QED
      BY <3>4 DEF Adds
  <2>3. ASSUME NEW t \in Turns, Throw(t) PROVE Forgets(n)
    <3>1. CASE keyedTurns[n].turn = t
      <4>1. turn'[t].status = "failed"
        BY <2>0, <2>3 DEF Throw, TurnState
      <4> QED
        BY <3>1, <4>1
    <3>2. CASE keyedTurns[n].turn # t
      <4>1. keyedTurns' = Without(t)
        BY <2>3 DEF Throw
      <4> QED
        BY <2>0, <3>2, <4>1, ForgetsOne
    <3> QED
      BY <3>1, <3>2
  <2>4. \/ keyedTurns' = keyedTurns
        \/ \E q \in Requests, k \in Keys, t \in Turns : Start(q, k, t)
        \/ \E t \in Turns : Throw(t)
    <3>0. KeyedTurnsAssumption
      BY <2>0
    <3> QED
      BY <1>1, <3>0 DEF Next, Join, Start, Respond, HangUp, Settle, Succeed
  <2> QED
    BY <2>1, <2>2, <2>3, <2>4
<1>2. AgentsInv /\ [AgentsNext]_agentVars => [\A n \in DOMAIN keyedTurns : Forgets(n)]_vars
  <2> SUFFICES ASSUME AgentsInv, [AgentsNext]_agentVars PROVE [\A n \in DOMAIN keyedTurns : Forgets(n)]_vars
    OBVIOUS
  <2>1. KInv /\ [Next]_vars
    BY AgentsApart, Zenon DEF AgentsInv
  <2> QED
    BY <1>1, <2>1
<1> QED
  BY <1>2, AgentsInvariant, PTL DEF AgentsSpec, ForgetsOnlyItsOwn
=============================================================================
