-------------------------- MODULE RemoteCheckpoints --------------------------
(* MinnsCheckpointer (graph/minns-checkpointer.ts) on one thread: a save first *)
(* writes the checkpoint to the knowledge graph, with an edge from the one     *)
(* before it, and puts it into the process's own list once the service has     *)
(* answered or failed. Loads are served from the list alone: the service's     *)
(* answer to a question holds no state.                                        *)
EXTENDS Sequences, FiniteSets, Integers

CONSTANTS
  Writers,            \* the calls of a graph, and of updateState, on the thread
  enableLocalCache,   \* whether the list is kept
  MaxSaves,           \* bound: the checkpoints ever saved
  MaxCached,          \* the length of the list, 50 in the code
  MaxRestarts         \* bound: how often the process dies

VARIABLES
  localCache,         \* the list, oldest first
  graph,              \* the checkpoints the service holds, and its followed_by edges
  writer,             \* of each writer: the save it awaits, its last one, what it has loaded
  saves,              \* the checkpoints made so far
  restarts,
  disturbed,          \* history: a save was under way at another save or a clear, or threw once the service had it
  past                \* history: the checkpoints saved by processes that died, or cleared

checkpointVars == <<localCache, graph, writer, saves, restarts, disturbed, past>>

None == 0
Idle == [saving |-> None, saved |-> None, loaded |-> None]

Newest == IF localCache = <<>> THEN None ELSE localCache[Len(localCache)]

Init ==
  /\ localCache = <<>>
  /\ graph = [nodes |-> {}, followed_by |-> {}]
  /\ writer = [w \in Writers |-> Idle]
  /\ saves = 0
  /\ restarts = 0
  /\ disturbed = FALSE
  /\ past = {}

\* Mutant: the checkpoint is linked to the last one made, whatever has become of it.
LinkToLastMade(id) == IF id = 1 THEN {} ELSE {<<id - 1, id>>}

Link(id) == IF Newest = None THEN {} ELSE {<<Newest, id>>}

\* save, up to the call of importGraph: the service takes it, or it fails unseen.
Save(w) ==
  LET id == saves + 1 IN
  /\ writer[w].saving = None /\ id <= MaxSaves
  /\ saves' = id
  /\ writer' = [writer EXCEPT ![w].saving = id]
  /\ disturbed' = (disturbed \/ \E o \in Writers : writer[o].saving # None)
  /\ \/ graph' = [nodes |-> graph.nodes \cup {id}, followed_by |-> graph.followed_by \cup Link(id)]
     \/ graph' = graph
  /\ UNCHANGED <<localCache, restarts, past>>

\* Mutant: what does not fit is dropped from the wrong end.
BoundedFromTheEnd(list) == SubSeq(list, 1, IF Len(list) > MaxCached THEN MaxCached ELSE Len(list))

Bounded(list) == IF Len(list) > MaxCached THEN Tail(list) ELSE list

\* The service has answered or failed: the list is brought up to date.
Saved(w) ==
  /\ writer[w].saving # None
  /\ localCache' = IF enableLocalCache THEN Bounded(Append(localCache, writer[w].saving)) ELSE localCache
  /\ writer' = [writer EXCEPT ![w] = [writer[w] EXCEPT !.saving = None, !.saved = writer[w].saving]]
  /\ UNCHANGED <<graph, saves, restarts, disturbed, past>>

\* The state has no copy (structuredClone): save throws, though the service may have
\* the checkpoint.
SaveThrows(w) ==
  /\ enableLocalCache /\ writer[w].saving # None
  /\ writer' = [writer EXCEPT ![w].saving = None]
  /\ disturbed' = TRUE
  /\ UNCHANGED <<localCache, graph, saves, restarts, past>>

\* load: the newest of the list, or, after a question to the service whose
\* answer is thrown away, nothing.
Load(w) ==
  /\ writer[w].saving = None
  /\ writer' = [writer EXCEPT ![w].loaded = Newest]
  /\ UNCHANGED <<localCache, graph, saves, restarts, disturbed, past>>

\* Mutant: the newest entry stays.
ClearedButNewest == IF localCache = <<>> THEN <<>> ELSE <<Newest>>

Cleared == <<>>

\* clear drops the list; the graph keeps its nodes. A save that is under way
\* will put its checkpoint into a list anew.
Clear ==
  /\ localCache # <<>>
  /\ localCache' = Cleared
  /\ past' = past \cup (1..saves \ {writer[w].saving : w \in Writers})
  /\ writer' = [w \in Writers |-> [writer[w] EXCEPT !.saved = None, !.loaded = None]]
  /\ disturbed' = (disturbed \/ \E w \in Writers : writer[w].saving # None)
  /\ UNCHANGED <<graph, saves, restarts>>

\* The process dies, its list with it, and another takes over the thread.
Restart ==
  /\ restarts < MaxRestarts /\ saves > 0
  /\ restarts' = restarts + 1
  /\ localCache' = <<>>
  /\ writer' = [w \in Writers |-> Idle]
  /\ past' = past \cup 1..saves
  /\ UNCHANGED <<graph, saves, disturbed>>

Next == (\E w \in Writers : Save(w) \/ Saved(w) \/ SaveThrows(w) \/ Load(w)) \/ Clear \/ Restart

Spec == Init /\ [][Next]_checkpointVars

-----------------------------------------------------------------------------
\* A writer whose save has returned finds that checkpoint in the list, or one
\* put there after it; without the list it finds nothing, ever.
OwnSaveStands ==
  \A w \in Writers : writer[w].saved # None =>
    IF enableLocalCache
    THEN localCache # <<>> /\ (~disturbed => Newest >= writer[w].saved)
    ELSE localCache = <<>>

\* A thread is never resumed from a checkpoint that was cleared, nor from one of
\* a process that died: what the comment of the class calls cross-process
\* recovery does not take place.
ResumesOwnWork == \A w \in Writers : writer[w].loaded \notin past

\* Unless saves overlap or throw, the chain in the knowledge graph does not branch, and a
\* chain that was cleared or whose process died is not continued.
ChainIsALine ==
  /\ \A e \in graph.followed_by : e[1] < e[2]
  /\ ~disturbed => \A e, f \in graph.followed_by : e[1] = f[1] => e = f
  /\ ~disturbed => \A e \in graph.followed_by : e[1] \in past => e[2] \in past
=============================================================================
