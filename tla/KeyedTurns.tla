----------------------------- MODULE KeyedTurns -----------------------------
(***************************************************************************)
(* The /v1/invoke route of src/runtime/serve.ts: which requests start a    *)
(* turn of the agent, which join one, and what the server remembers of     *)
(* keyed turns (the keyedTurns map, bounded, oldest out first).            *)
(*                                                                         *)
(* Requests, turns settling and callers hanging up interleave freely; what *)
(* the route does between two awaits is one action, since the server is    *)
(* one event loop.                                                         *)
(***************************************************************************)
EXTENDS Integers, Sequences, FiniteSets, SequencesExt

CONSTANTS
    Keys,           \* `${run_id}\n${idempotency_key}`
    NoKey,          \* a request without idempotency_key
    Requests,       \* requests that may be open at once
    Turns,          \* bound on the turns ever started
    NoTurn,         \* an idle request's turn
    MaxKeyedTurns   \* MAX_KEYED_TURNS

VARIABLES
    keyedTurns,   \* the map's entries in insertion order
    turn,         \* every turn's key and how far it is
    request,      \* the turn each open request awaits
    hungUp        \* the turns whose signal has been aborted

vars == <<keyedTurns, turn, request, hungUp>>
-----------------------------------------------------------------------------
Entry == [key : Keys, turn : Turns]

TurnState == [key : Keys \cup {NoKey}, status : {"unstarted", "running", "done", "failed"}]

Remembered(k) == {t \in Turns : \E n \in DOMAIN keyedTurns : keyedTurns[n] = [key |-> k, turn |-> t]}

Running(t) == turn[t].status = "running"

\* Mutant: evicts one entry too late.
KeptOneMore(entries, k, t) ==
    LET more == Append(entries, [key |-> k, turn |-> t])
    IN  IF Len(entries) > MaxKeyedTurns THEN Tail(more) ELSE more

\* Mutant: the turn is not remembered when it starts.
KeptNothing(entries, k, t) == entries

\* keyedTurns.set of a new key, and the eviction of the oldest entry.
Kept(entries, k, t) ==
    LET more == Append(entries, [key |-> k, turn |-> t])
    IN  IF Len(more) > MaxKeyedTurns THEN Tail(more) ELSE more

\* Mutant: a failed turn stays in the map.
WithoutNothing(t) == keyedTurns

\* Mutant: the entry of its key goes, whosever it is by now.
WithoutKeyOf(t) == SelectSeq(keyedTurns, LAMBDA entry : entry.key # turn[t].key)

\* The entry of a turn goes, if it is still in the map.
Without(t) == RemoveFirst(keyedTurns, [key |-> turn[t].key, turn |-> t])

Init ==
    /\ keyedTurns = <<>>
    /\ turn = [t \in Turns |-> [key |-> NoKey, status |-> "unstarted"]]
    /\ request = [q \in Requests |-> NoTurn]
    /\ hungUp = {}

\* A request whose key is remembered gets that turn.
Join(q, k) ==
    /\ request[q] = NoTurn
    /\ \E t \in Remembered(k) : request' = [request EXCEPT ![q] = t]
    /\ UNCHANGED <<keyedTurns, turn, hungUp>>

\* Any other request starts a turn, and a keyed one is remembered.
Start(q, k, t) ==
    /\ request[q] = NoTurn
    /\ Remembered(k) = {}
    /\ turn[t].status = "unstarted"
    /\ turn' = [turn EXCEPT ![t] = [key |-> k, status |-> "running"]]
    /\ keyedTurns' = IF k = NoKey THEN keyedTurns ELSE Kept(keyedTurns, k, t)
    /\ request' = [request EXCEPT ![q] = t]
    /\ UNCHANGED hungUp

\* The handler's promise resolves.
Succeed(t) ==
    /\ Running(t)
    /\ turn' = [turn EXCEPT ![t].status = "done"]
    /\ UNCHANGED <<keyedTurns, request, hungUp>>

\* It rejects, and is forgotten.
Throw(t) ==
    /\ Running(t)
    /\ turn' = [turn EXCEPT ![t].status = "failed"]
    /\ keyedTurns' = Without(t)
    /\ UNCHANGED <<request, hungUp>>

\* Mutant: only a success is answered.
RespondToSuccess(q) ==
    /\ request[q] \in Turns
    /\ turn[request[q]].status = "done"
    /\ request' = [request EXCEPT ![q] = NoTurn]
    /\ UNCHANGED <<keyedTurns, turn, hungUp>>

\* The turn a request awaits has settled: it is answered, with 200 or with 500.
Respond(q) ==
    /\ request[q] \in Turns
    /\ ~Running(request[q])
    /\ request' = [request EXCEPT ![q] = NoTurn]
    /\ UNCHANGED <<keyedTurns, turn, hungUp>>

\* Mutant: the caller's leaving stops a keyed turn as well.
HangUpStopsAll(q) ==
    /\ request[q] \in Turns
    /\ Running(request[q])
    /\ hungUp' = hungUp \cup {request[q]}
    /\ request' = [request EXCEPT ![q] = NoTurn]
    /\ UNCHANGED <<keyedTurns, turn>>

\* The caller is gone before the answer: an unkeyed turn is told to stop.
HangUp(q) ==
    /\ request[q] \in Turns
    /\ Running(request[q])
    /\ hungUp' = IF turn[request[q]].key = NoKey THEN hungUp \cup {request[q]} ELSE hungUp
    /\ request' = [request EXCEPT ![q] = NoTurn]
    /\ UNCHANGED <<keyedTurns, turn>>

Settle(t) == Succeed(t) \/ Throw(t)

Next ==
    \/ \E q \in Requests : \/ \E k \in Keys : Join(q, k)
                           \/ \E k \in Keys \cup {NoKey}, t \in Turns : Start(q, k, t)
                           \/ Respond(q)
                           \/ HangUp(q)
    \/ \E t \in Turns : Settle(t)

Spec == Init /\ [][Next]_vars

\* Handlers settle, and the event loop gets round to every response.
FairSpec ==
    /\ Spec
    /\ \A t \in Turns : WF_vars(Settle(t))
    /\ \A q \in Requests : WF_vars(Respond(q))
-----------------------------------------------------------------------------
TypeOK ==
    /\ keyedTurns \in Seq(Entry)
    /\ Len(keyedTurns) <= MaxKeyedTurns
    /\ turn \in [Turns -> TurnState]
    /\ request \in [Requests -> Turns \cup {NoTurn}]
    /\ hungUp \subseteq Turns

\* "The same key gets the turn already running or just finished instead of
\* starting it again", as long as the map has room for all the keys there are: of
\* two turns of one key, one at least has failed.
PaidOnce ==
    Cardinality({turn[t].key : t \in Turns} \ {NoKey}) <= MaxKeyedTurns =>
        \A t1, t2 \in Turns :
            t1 # t2 /\ turn[t1].key = turn[t2].key /\ turn[t1].key \in Keys =>
                turn[t1].status = "failed" \/ turn[t2].status = "failed"

\* The map speaks the truth: one entry for a key, and none for a failed turn, so
\* a retry after a failure runs afresh however many turns of the key there were.
MapIsSound ==
    /\ TypeOK
    /\ \A n \in DOMAIN keyedTurns :
        /\ turn[keyedTurns[n].turn].key = keyedTurns[n].key
        /\ turn[keyedTurns[n].turn].status \in {"running", "done"}
        /\ \A m \in DOMAIN keyedTurns : keyedTurns[m].key = keyedTurns[n].key => m = n

\* A running turn is awaited, or keyed for a retry to pick up, or told to stop.
Wanted ==
    \A t \in Turns : Running(t) =>
        \/ \E q \in Requests : request[q] = t
        \/ turn[t].key \in Keys
        \/ t \in hungUp

\* Callers leave, and nobody is left with the wrong thing: no turn runs for nobody
\* unless a retry may pick it up or it has been told to stop; a turn is told to
\* stop only when nobody waits for it and no retry could, never because one of
\* several callers left; and a request waits for a turn that was started.
NoOrphans ==
    /\ Wanted
    /\ \A t \in hungUp : turn[t].key = NoKey /\ \A q \in Requests : request[q] # t
    /\ \A q \in Requests : request[q] # NoTurn => turn[request[q]].status # "unstarted"

\* An entry is dropped for its own turn's failure, or as the oldest one to make
\* room for another; never because an earlier turn of the same key failed late.
ForgetsOnlyItsOwn ==
    [][\A n \in DOMAIN keyedTurns :
        \/ \E m \in DOMAIN keyedTurns' : keyedTurns'[m] = keyedTurns[n]
        \/ turn'[keyedTurns[n].turn].status = "failed"
        \/ n = 1 /\ Len(keyedTurns) = MaxKeyedTurns /\ Len(keyedTurns') = MaxKeyedTurns]_vars

\* Every request is answered in the end, unless its caller leaves.
Answered == \A q \in Requests : request[q] # NoTurn ~> request[q] = NoTurn
=============================================================================
