------------------------------ MODULE Sessions ------------------------------
(***************************************************************************)
(* A session and its runs: AgentForge.run and .stream (src/agent.ts), the  *)
(* in-memory store with its LRU eviction (session/in-memory-store.ts), the *)
(* end of a run (runInContext and updateConversationHistory in             *)
(* pipeline/adaptive-runner.ts) and the emitter a stream reads             *)
(* (events/emitter.ts).                                                    *)
(*                                                                         *)
(* The store hands out references: a SessionState is named after the run   *)
(* that made it, and runs that share one write into the same object.       *)
(***************************************************************************)
EXTENDS Integers, Sequences, FiniteSets, SequencesExt

CONSTANTS
    Runs,         \* calls of run() and stream(), one message each
    Keys,         \* getSessionKey
    KeyOf,        \* the session of each run
    Streams,      \* the runs started by stream()
    MaxEntries,   \* the store's capacity
    MaxHistory,   \* in exchanges: a pair of messages each
    MaxEvents     \* bound on the events a run emits

VARIABLES
    store,      \* the map's entries, least recently used first
    history,    \* conversationHistory of each SessionState
    run,        \* how far each run is, and the SessionState it works on
    events,     \* how many events each stream's run has emitted
    queue,      \* the emitter's queue of each stream
    reader,     \* the consumer of each stream, and the events it has had
    finished,   \* history: the runs of each session, in the order they ended
    forked      \* history: the sessions evicted, or begun twice at once

storeVars == <<store, finished, forked>>
streamVars == <<events, queue, reader>>
vars == <<store, history, run, streamVars, finished, forked>>
-----------------------------------------------------------------------------
Entry(k, s) == [key |-> k, state |-> s]

Held(k) == \E e \in ToSet(store) : e.key = k

Place(k) == CHOOSE i \in DOMAIN store : store[i].key = k

\* delete()
Deleted(k) == IF Held(k) THEN RemoveAt(store, Place(k)) ELSE store

\* The runs that hold a SessionState of this session.
Inside(k) == {r \in Runs : KeyOf[r] = k /\ run[r].at \in {"running", "saving"}}

\* Mutant: the bound is applied one exchange too early.
BoundedShort(h) == IF Len(h) >= MaxHistory THEN Tail(h) ELSE h

\* while (length > maxHistory * 2) shift(), after one pair was pushed.
Bounded(h) == IF Len(h) > MaxHistory THEN Tail(h) ELSE h

Init ==
    /\ store = <<>>
    /\ history = [r \in Runs |-> <<>>]
    /\ run = [r \in Runs |-> [at |-> "idle", state |-> r]]
    /\ events = [r \in Streams |-> 0]
    /\ queue = [r \in Streams |-> <<>>]
    /\ reader = [r \in Streams |-> [at |-> "none", got |-> 0]]
    /\ finished = [k \in Keys |-> <<>>]
    /\ forked = {}

\* getOrCreateSession(): what the store has moves to its end, and is shared; a
\* session it has not gets a state of its own, which the store hears of later.
Begin(r) ==
    LET k == KeyOf[r]
    IN  /\ run[r].at = "idle"
        /\ store' = IF Held(k) THEN Append(Deleted(k), store[Place(k)]) ELSE store
        /\ run' = [run EXCEPT ![r] =
               [at |-> "running", state |-> IF Held(k) THEN store[Place(k)].state ELSE r]]
        /\ forked' = IF ~Held(k) /\ Inside(k) # {} THEN forked \cup {k} ELSE forked
        /\ reader' = IF r \in Streams THEN [reader EXCEPT ![r].at = "holding"] ELSE reader
        /\ UNCHANGED <<history, events, queue, finished>>

\* Mutant: the waiting reader is given the event and finds it queued as well.
DeliveredTwice(r, e) ==
    /\ queue' = [queue EXCEPT ![r] = Append(queue[r], e)]
    /\ reader' = IF reader[r].at = "waiting"
                 THEN [reader EXCEPT ![r] = [at |-> "holding", got |-> e]] ELSE reader

\* emit(): to the reader that waits, else into the queue.
Delivered(r, e) ==
    IF reader[r].at = "waiting"
    THEN reader' = [reader EXCEPT ![r] = [at |-> "holding", got |-> e]] /\ UNCHANGED queue
    ELSE queue' = [queue EXCEPT ![r] = Append(queue[r], e)] /\ UNCHANGED reader

Emit(r) ==
    /\ r \in Streams
    /\ run[r].at = "running"
    /\ events[r] < MaxEvents
    /\ events' = [events EXCEPT ![r] = events[r] + 1]
    /\ Delivered(r, events[r] + 1)
    /\ UNCHANGED <<storeVars, history, run>>

\* Mutant: complete() does not wake the reader.
CompletedUnheard(r) == reader

\* complete(): a reader that waits is told there is no more.
Completed(r) ==
    IF r \in Streams /\ reader[r].at = "waiting"
    THEN [reader EXCEPT ![r].at = "ended"] ELSE reader

\* The end of runInContext: the exchange enters the history, the emitter closes.
Finish(r) ==
    LET s == run[r].state
    IN  /\ run[r].at = "running"
        /\ history' = [history EXCEPT ![s] = Bounded(Append(history[s], r))]
        /\ run' = [run EXCEPT ![r].at = "saving"]
        /\ reader' = Completed(r)
        /\ finished' = [finished EXCEPT ![KeyOf[r]] = Append(finished[KeyOf[r]], r)]
        /\ UNCHANGED <<store, events, queue, forked>>

\* Mutant: the newest entry is evicted.
TrimmedNewest(entries) == IF Len(entries) > MaxEntries THEN Front(entries) ELSE entries

\* while (size > maxEntries) the oldest entry goes.
Trimmed(entries) == IF Len(entries) > MaxEntries THEN Tail(entries) ELSE entries

\* sessionStore.set(), whether or not the reader is still there.
Save(r) ==
    LET k == KeyOf[r]
    IN  /\ run[r].at = "saving"
        /\ store' = Trimmed(Append(Deleted(k), Entry(k, run[r].state)))
        /\ forked' = forked \cup ({e.key : e \in ToSet(store) \ ToSet(store')} \ {k})
        /\ run' = [run EXCEPT ![r].at = "done"]
        /\ UNCHANGED <<history, streamVars, finished>>

\* The reader asks for the next event.
Read(r) ==
    /\ reader[r].at = "holding"
    /\ \/ /\ queue[r] # <<>>
          /\ reader' = [reader EXCEPT ![r].got = Head(queue[r])]
          /\ queue' = [queue EXCEPT ![r] = Tail(queue[r])]
       \/ /\ queue[r] = <<>>
          /\ reader' = [reader EXCEPT ![r].at =
                 IF run[r].at = "running" THEN "waiting" ELSE "ended"]
          /\ UNCHANGED queue
    /\ UNCHANGED <<storeVars, history, run, events>>

\* It breaks out of its loop instead: the run goes on without it.
LeaveStream(r) ==
    /\ reader[r].at = "holding"
    /\ reader' = [reader EXCEPT ![r].at = "left"]
    /\ UNCHANGED <<storeVars, history, run, events, queue>>

Work(r) == Begin(r) \/ Emit(r) \/ Finish(r) \/ Save(r)

Next == \/ \E r \in Runs : Work(r)
        \/ \E r \in Streams : Read(r) \/ LeaveStream(r)

Spec == Init /\ [][Next]_vars
-----------------------------------------------------------------------------
LastOf(h) == SubSeq(h, IF Len(h) > MaxHistory THEN Len(h) - MaxHistory + 1 ELSE 1, Len(h))

\* An exchange is not lost: the session in the store remembers the last of all
\* the runs that ended, those of runs that overlapped included, unless the store
\* had dropped it or two runs found none at once and made one each.
ExchangesKept ==
    \A e \in ToSet(store) : e.key \notin forked =>
        \A r \in Runs : run[r].at = "done" /\ KeyOf[r] = e.key =>
            history[e.state] = LastOf(finished[e.key])

\* The store has one entry for a session, and no more than it may.
StoreSound ==
    /\ Len(store) <= MaxEntries
    /\ \A i, j \in DOMAIN store : store[i].key = store[j].key => i = j

\* The session a run has just used is not the one that is thrown out.
JustUsedStays ==
    [][\A r \in Runs : run[r].at = "saving" /\ run'[r].at = "done" =>
          \E e \in ToSet(store') : e = Entry(KeyOf[r], run[r].state)]_vars

\* Nothing a run emits is lost, repeated or out of order on the way to the
\* reader, and a reader waits only while there is nothing for it.
StreamInOrder == \A r \in Streams :
    /\ reader[r].at # "left" => queue[r] = [i \in 1..(events[r] - reader[r].got) |-> reader[r].got + i]
    /\ reader[r].at = "waiting" => queue[r] = <<>> /\ run[r].at = "running"
    /\ reader[r].at = "ended" => reader[r].got = events[r]

\* A stream that is read ends, with the run's last event; its session is saved
\* even when nobody reads it to its end.
StreamEnds == \A r \in Streams :
    /\ reader[r].at = "holding" ~> reader[r].at \in {"ended", "left"}
    /\ reader[r].at = "left" ~> run[r].at = "done"
=============================================================================
