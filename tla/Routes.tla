------------------------------- MODULE Routes -------------------------------
(***************************************************************************)
(* The routes of runtime/serve.ts beside /v1/invoke: execute-candidate,    *)
(* which runs what a human approved, and the A2A JSON-RPC endpoint; the    *)
(* telemetry they record (runtime/otlp.ts) and the server's close().       *)
(*                                                                         *)
(* A body is "good", "incomplete" (valid JSON that lacks what the route    *)
(* needs) or "broken" (not JSON, too large, or cut off).                   *)
(***************************************************************************)
EXTENDS Integers, FiniteSets

CONSTANTS Requests    \* the requests ever made

VARIABLES
    ask,        \* each request's route and body
    at,         \* how far it is
    ran,        \* what its handler did
    answer,     \* what its caller was told
    spans,      \* the requests whose span waits for an export
    exported,   \* those whose span is out
    server      \* "open" | "closing" | "flushing" | "closed"

vars == <<ask, at, ran, answer, spans, exported, server>>
-----------------------------------------------------------------------------
RouteNames == {"execute", "a2a", "unserved"}

Open == {q \in Requests : at[q] \notin {"idle", "answered"}}

Init ==
    /\ ask = [q \in Requests |-> [route |-> "unserved", body |-> "good"]]
    /\ at = [q \in Requests |-> "idle"]
    /\ ran = [q \in Requests |-> "nothing"]
    /\ answer = [q \in Requests |-> "none"]
    /\ spans = {} /\ exported = {}
    /\ server = "open"

Answer(q, said) ==
    /\ at' = [at EXCEPT ![q] = "answered"]
    /\ answer' = [answer EXCEPT ![q] = said]

\* A request comes in. A route nobody serves (no onExecuteCandidate, a2a: false,
\* any other path) is a 404 at once.
Arrive(q, route, body) ==
    /\ server = "open"
    /\ at[q] = "idle"
    /\ ask' = [ask EXCEPT ![q] = [route |-> route, body |-> body]]
    /\ IF route = "unserved" THEN Answer(q, "not found")
       ELSE at' = [at EXCEPT ![q] = "reading"] /\ UNCHANGED answer
    /\ UNCHANGED <<ran, spans, exported, server>>

\* Mutant: what the request lacks is found out by the handler.
AcceptedAnyJson(q) == ask[q].body # "broken"

Accepted(q) == ask[q].body = "good"

\* readJsonBody() and the checks behind it: the handler is called, or the caller
\* is told what is wrong (400, or a JSON-RPC error).
ReadBody(q) ==
    /\ at[q] = "reading"
    /\ IF Accepted(q) THEN at' = [at EXCEPT ![q] = "handling"] /\ UNCHANGED answer
       ELSE Answer(q, "malformed")
    /\ UNCHANGED <<ask, ran, spans, exported, server>>

\* Mutant: a handler that throws is a 500 of the route, like any other throw.
VerdictThrowing(how) == IF how = "threw" THEN "server error" ELSE how

\* What the caller is told of the handler.
Verdict(how) == IF how = "success" THEN "success" ELSE "failure"

\* The handler settles. For a candidate a span is recorded first.
Handled(q, how) ==
    /\ at[q] = "handling"
    /\ ran' = [ran EXCEPT ![q] = how]
    /\ IF ask[q].route = "execute"
       THEN /\ at' = [at EXCEPT ![q] = "flushing"]
            /\ spans' = spans \cup {q}
            /\ UNCHANGED answer
       ELSE Answer(q, Verdict(how)) /\ UNCHANGED spans
    /\ UNCHANGED <<ask, exported, server>>

\* Mutant: flush() passes the export's failure on.
FlushedRejecting(q, works) == IF works THEN Answer(q, Verdict(ran[q])) ELSE Answer(q, "server error")

\* flush() swallows what the exporter throws: the answer does not depend on it.
Flushed(q, works) == Answer(q, Verdict(ran[q]))

\* telemetry.flush() exports what has been recorded, or loses it.
Flush(q, works) ==
    /\ at[q] = "flushing"
    /\ Flushed(q, works)
    /\ spans' = {}
    /\ exported' = IF works THEN exported \cup spans ELSE exported
    /\ UNCHANGED <<ask, ran, server>>

\* server.close() takes no new requests and waits for the open ones.
Close ==
    /\ server = "open"
    /\ server' = "closing"
    /\ UNCHANGED <<ask, at, ran, answer, spans, exported>>

\* Mutant: the last spans and logs go out while requests are still open.
DrainedAtOnce == TRUE

Drained == Open = {}

FinalFlush ==
    /\ server = "closing"
    /\ Drained
    /\ server' = "flushing"
    /\ UNCHANGED <<ask, at, ran, answer, spans, exported>>

Closed ==
    /\ server = "flushing"
    /\ server' = "closed"
    /\ spans' = {}
    /\ exported' \in {exported, exported \cup spans}
    /\ UNCHANGED <<ask, at, ran, answer>>

Serve(q) ==
    \/ ReadBody(q)
    \/ \E how \in {"success", "failure", "threw"} : Handled(q, how)
    \/ \E works \in BOOLEAN : Flush(q, works)

Shut == FinalFlush \/ Closed

Next ==
    \/ \E q \in Requests, route \in RouteNames, body \in {"good", "incomplete", "broken"} :
           Arrive(q, route, body)
    \/ \E q \in Requests : Serve(q)
    \/ Close \/ Shut

Spec == Init /\ [][Next]_vars
-----------------------------------------------------------------------------
\* "A tool that RAN and failed is a 200 {success:false}; only a malformed request
\* is a 4xx": the human who approved a candidate learns what its tool did,
\* whether the handler threw or the telemetry did, and is refused only when
\* nothing ran.
OutcomeIsTold == \A q \in Requests :
    /\ at[q] = "answered" /\ ran[q] # "nothing" =>
           answer[q] = (IF ran[q] = "success" THEN "success" ELSE "failure")
    /\ answer[q] \in {"malformed", "not found"} => ran[q] = "nothing"
    /\ ran[q] # "nothing" => ask[q].body = "good"

\* close() returns when every request has been answered and nothing recorded is
\* left behind.
CloseWaits == server = "closed" => Open = {} /\ spans = {}

\* Requests are answered and a close() ends.
ServerEnds ==
    /\ \A q \in Requests : at[q] = "reading" ~> at[q] = "answered"
    /\ server = "closing" ~> server = "closed"
=============================================================================
