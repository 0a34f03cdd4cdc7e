----------------------------- MODULE TracedCalls -----------------------------
(***************************************************************************)
(* runtime/traced-provider.ts: every call of a wrapped provider records a  *)
(* span, streams when they are over, and the first one of a run carries    *)
(* the definitions of the tools it was offered (of one set of tools).      *)
(***************************************************************************)
EXTENDS Integers, FiniteSets

CONSTANTS
    Calls,      \* calls of the provider
    Runs,       \* run contexts
    RunOf       \* the run each call is made in

VARIABLES
    call,       \* "idle" | "asking" | "streaming" | "done" | "failed" | "left"
    spans,      \* how many spans each call has
    seen,       \* the runs whose seenToolDefs has the tools' hash
    full,       \* how many spans of each run carry the definitions
    llmCalls    \* runCounters().llmCalls

vars == <<call, spans, seen, full, llmCalls>>
-----------------------------------------------------------------------------
Init ==
    /\ call = [c \in Calls |-> "idle"]
    /\ spans = [c \in Calls |-> 0]
    /\ seen = {}
    /\ full = [r \in Runs |-> 0]
    /\ llmCalls = [r \in Runs |-> 0]

\* complete() and completeWithTools() await one answer; stream() and
\* streamWithTools() yield theirs in pieces.
Ask(c) ==
    /\ call[c] = "idle"
    /\ call' = [call EXCEPT ![c] = "asking"] \/ call' = [call EXCEPT ![c] = "streaming"]
    /\ UNCHANGED <<spans, seen, full, llmCalls>>

\* Mutant: the hash is not remembered.
SeesAgain(r) == seen' = seen

Sees(r) == seen' = seen \cup {r}

\* recordCall(); with tools, the definitions go with the first span of the run.
Recorded(c, withTools) ==
    LET r == RunOf[c]
    IN  /\ spans' = [spans EXCEPT ![c] = spans[c] + 1]
        /\ llmCalls' = [llmCalls EXCEPT ![r] = llmCalls[r] + 1]
        /\ IF withTools /\ r \notin seen
           THEN Sees(r) /\ full' = [full EXCEPT ![r] = full[r] + 1]
           ELSE UNCHANGED <<seen, full>>

\* Mutant: only an answer is recorded.
RecordedAnswer(c, how, withTools) ==
    IF how = "done" THEN Recorded(c, withTools) ELSE UNCHANGED <<spans, seen, full, llmCalls>>

RecordedEither(c, how, withTools) == Recorded(c, withTools)

\* The answer is there, or the provider threw: recorded, then passed on.
Settle(c, how, withTools) ==
    /\ call[c] \in {"asking", "streaming"}
    /\ call' = [call EXCEPT ![c] = how]
    /\ RecordedEither(c, how, withTools)

\* Whoever reads the stream leaves it: the generator ends at its yield, past
\* both of the places that record.
LeaveStream(c) ==
    /\ call[c] = "streaming"
    /\ call' = [call EXCEPT ![c] = "left"]
    /\ UNCHANGED <<spans, seen, full, llmCalls>>

Next == \E c \in Calls :
    \/ Ask(c)
    \/ \E how \in {"done", "failed"}, withTools \in BOOLEAN : Settle(c, how, withTools)
    \/ LeaveStream(c)

Spec == Init /\ [][Next]_vars
-----------------------------------------------------------------------------
\* One span for a call that has settled, answered or not, and none for a stream
\* left half way; the run's counter agrees, and "the full definitions once per
\* run" holds however its calls overlap.
TracedOnce ==
    /\ \A c \in Calls : spans[c] = (IF call[c] \in {"done", "failed"} THEN 1 ELSE 0)
    /\ \A r \in Runs : /\ llmCalls[r] = Cardinality({c \in Calls : RunOf[c] = r /\ spans[c] > 0})
                       /\ full[r] = (IF r \in seen THEN 1 ELSE 0)
=============================================================================
