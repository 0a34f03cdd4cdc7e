-------------------------------- MODULE VCR --------------------------------
(***************************************************************************)
(* llm/vcr.ts: calls of a VCRProvider against its cassette, while others   *)
(* record the same request. A response is the call that fetched it.        *)
(***************************************************************************)
EXTENDS FiniteSets

CONSTANTS
    Calls,
    Keys,        \* hashKey of kind, messages, tools and options
    Modes,       \* the modes of the provider to consider
    NoEntry

VARIABLES
    mode,
    call,        \* each call: its key, how far it is, and the response it was given
    cassette,    \* the response recorded for each key
    rival        \* history: the keys two recordings of which overlapped

vars == <<mode, call, cassette, rival>>
-----------------------------------------------------------------------------
Init ==
    /\ mode \in Modes
    /\ call = [c \in Calls |-> [at |-> "idle", key |-> CHOOSE k \in Keys : TRUE, got |-> NoEntry]]
    /\ cassette \in [Keys -> {NoEntry} \cup (IF mode = "replay" THEN Calls ELSE {})]
    /\ rival = {}

Asking(k) == {c \in Calls : call[c].at \in {"asking", "streaming"} /\ call[c].key = k}

\* Mutant: record mode replays what it finds, too.
HitsAnyway(k) == cassette[k] # NoEntry

Hits(k) == cassette[k] # NoEntry /\ mode # "record"

\* A request, up to its first await: a hit is answered, a miss in replay mode
\* throws, any other goes to the inner provider.
Request(c, k) ==
    /\ call[c].at = "idle"
    /\ \/ /\ Hits(k)
          /\ call' = [call EXCEPT ![c] = [at |-> "replayed", key |-> k, got |-> cassette[k]]]
          /\ UNCHANGED rival
       \/ /\ ~Hits(k) /\ mode = "replay"
          /\ call' = [call EXCEPT ![c] = [at |-> "missed", key |-> k, got |-> NoEntry]]
          /\ UNCHANGED rival
       \/ /\ ~Hits(k) /\ mode # "replay"
          /\ \E how \in {"asking", "streaming"} :
                call' = [call EXCEPT ![c] = [at |-> how, key |-> k, got |-> NoEntry]]
          /\ rival' = IF Asking(k) # {} THEN rival \cup {k} ELSE rival
    /\ UNCHANGED <<mode, cassette>>

\* Mutant: what a call got so far is recorded though it was left.
RecordedAlways(c, how) == [cassette EXCEPT ![call[c].key] = c]

\* Only a whole response is recorded.
RecordedWhole(c, how) ==
    IF how = "answered" THEN [cassette EXCEPT ![call[c].key] = c] ELSE cassette

\* The inner provider answers or throws, or whoever reads the stream leaves it.
Settle(c, how) ==
    /\ call[c].at \in {"asking", "streaming"}
    /\ how = "left" => call[c].at = "streaming"
    /\ call' = [call EXCEPT ![c].at = how, ![c].got = IF how = "answered" THEN c ELSE NoEntry]
    /\ cassette' = RecordedWhole(c, how)
    /\ UNCHANGED <<mode, rival>>

Next == \E c \in Calls :
    \/ \E k \in Keys : Request(c, k)
    \/ \E how \in {"answered", "threw", "left"} : Settle(c, how)

Spec == Init /\ [][Next]_vars
-----------------------------------------------------------------------------
\* "Subsequent runs replay with byte-identical outputs": outside record mode all
\* who were answered for a request were answered alike, and as the tape says,
\* unless two calls recorded it at once. What is on the tape was once a whole
\* answer, and replay asks nobody.
Hermetic ==
    /\ mode # "record" => \A c \in Calls :
           call[c].got # NoEntry /\ call[c].key \notin rival => call[c].got = cassette[call[c].key]
    /\ mode # "replay" => \A k \in Keys :
           cassette[k] # NoEntry => call[cassette[k]].at = "answered"
    /\ mode = "replay" => \A c \in Calls : call[c].at \notin {"asking", "streaming", "answered"}
    /\ mode = "record" => \A c \in Calls : call[c].at # "replayed"
=============================================================================
