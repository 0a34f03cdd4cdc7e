--------------------------- MODULE ProviderStream ---------------------------
(***************************************************************************)
(* One turn streamed by a provider: streamWithTools() of                   *)
(* llm/openai-provider.ts and of llm/anthropic-provider.ts, from the       *)
(* request to the generator's finally, with judgeTurn() of                 *)
(* llm/turn-safety.ts on the response. The server may cut the stream at    *)
(* any chunk; the reader may leave at any yield; a timer aborts OpenAI's.  *)
(***************************************************************************)
EXTENDS Integers

CONSTANTS
    Slots,      \* the indexes a turn's tool calls come under
    MaxText     \* bound on the text chunks of a turn

VARIABLES
    api,        \* "openai" | "anthropic"
    body,       \* the generator: "asking" | "reading" | "yielding" a delta
                \* | "handed" the response out | "over"
    heard,      \* what has arrived: billed, text, args by slot, finish, usage
    given,      \* the deltas the reader was given
    metered,    \* what onUsage was called with: how many exact, how many estimates
    response,   \* the "done" event, or NoResponse
    socket      \* "none" | "open" | "closed"

vars == <<api, body, heard, given, metered, response, socket>>

NoResponse == [text |-> -1]

\* A call's arguments: none of it yet, its name alone, cut, or all of them.
Unheard == 0
Named == 1
Cut == 2
Whole == 3
-----------------------------------------------------------------------------
Init ==
    /\ api \in {"openai", "anthropic"}
    /\ body = "asking"
    /\ heard = [billed |-> FALSE, text |-> 0, args |-> [i \in Slots |-> Unheard],
                finish |-> "none", usage |-> FALSE]
    /\ given = 0
    /\ metered = [exact |-> 0, estimate |-> 0]
    /\ response = NoResponse
    /\ socket = "none"

\* OpenAI counts a request as billed once it has a body to read, Anthropic's
\* counters leave zero with message_start.
Open ==
    /\ body = "asking"
    /\ body' = "reading" /\ socket' = "open"
    /\ heard' = [heard EXCEPT !.billed = (api = "openai")]
    /\ UNCHANGED <<api, given, metered, response>>

\* What a server sends, in an order it can send it in: Anthropic starts with
\* message_start and ends on message_delta, where the usage is; OpenAI's usage
\* has a chunk of its own behind the finish_reason, if it comes. A turn that is
\* not cut by its length or a filter has finished its calls.
Unfinished == heard.billed /\ heard.finish = "none"
Complete == \A i \in Slots : heard.args[i] # Cut

MessageStart == ~heard.billed /\ heard' = [heard EXCEPT !.billed = TRUE]
CallDelta(i) == Unfinished /\ heard.args[i] < Whole /\ heard' = [heard EXCEPT !.args[i] = @ + 1]
FinishDelta(why) ==
    /\ Unfinished
    /\ why = "stop" => Complete
    /\ heard' = [heard EXCEPT !.finish = why, !.usage = (api = "anthropic")]
UsageChunk ==
    /\ api = "openai" /\ heard.finish # "none" /\ ~heard.usage
    /\ heard' = [heard EXCEPT !.usage = TRUE]

Read ==
    /\ body = "reading" /\ socket = "open"
    /\ \/ MessageStart \/ UsageChunk
       \/ \E i \in Slots : CallDelta(i)
       \/ \E why \in {"stop", "length", "filter"} : FinishDelta(why)
    /\ UNCHANGED <<api, body, given, metered, response, socket>>

\* A text delta is added to the content and yielded at once.
ReadText ==
    /\ body = "reading" /\ socket = "open"
    /\ Unfinished /\ heard.text < MaxText
    /\ heard' = [heard EXCEPT !.text = @ + 1]
    /\ given' = given + 1
    /\ body' = "yielding"
    /\ UNCHANGED <<api, metered, response, socket>>

GoOn ==
    /\ body = "yielding"
    /\ body' = "reading"
    /\ UNCHANGED <<api, heard, given, metered, response, socket>>

\* The timer of OpenAI's turn aborts the fetch, whoever is waiting for what.
Timeout ==
    /\ api = "openai" /\ socket = "open" /\ body \in {"reading", "yielding"}
    /\ socket' = "closed"
    /\ UNCHANGED <<api, body, heard, given, metered, response>>
-----------------------------------------------------------------------------
\* report(): once.
Reported == metered.exact + metered.estimate > 0
Report(exact) ==
    IF Reported THEN UNCHANGED metered
    ELSE metered' = IF exact THEN [metered EXCEPT !.exact = @ + 1] ELSE [metered EXCEPT !.estimate = @ + 1]

\* Mutant: the finally does not look at what the turn has reported.
MeteredAgain == IF heard.billed
                THEN metered' = [metered EXCEPT !.estimate = @ + 1] ELSE UNCHANGED metered

MeteredLast == IF heard.billed THEN Report(FALSE) ELSE UNCHANGED metered

\* finally: the request is aborted (by hand, or by the SDK's iterator), and what
\* was streamed is metered unless it has been.
Finally ==
    /\ body' = "over"
    /\ socket' = IF socket = "open" THEN "closed" ELSE socket
    /\ MeteredLast
    /\ UNCHANGED <<api, heard, given>>

\* The request is refused, or the connection breaks.
Break == body \in {"asking", "reading"} /\ socket # "closed" /\ Finally /\ UNCHANGED response

\* The read of an aborted connection throws.
Aborted == body = "reading" /\ socket = "closed" /\ Finally /\ UNCHANGED response

\* return() at a yield: nobody reads on. Behind the response it is the same
\* whether the reader leaves or goes on: only the finally is left.
Leave == body \in {"yielding", "handed"} /\ Finally /\ UNCHANGED response

\* Mutant: cut text is taken for no arguments.
ParsedEmpty(args) == IF args = Whole THEN "whole" ELSE "empty"

\* safeParseArgs(): no text is {}, and text that is not JSON is marked
\* UNPARSEABLE_ARGUMENTS, which the registry refuses. Anthropic's SDK makes an
\* object of the part it has.
Parsed(args) ==
    CASE args = Whole -> "whole"
      [] args = Named -> "empty"
      [] args = Cut /\ api = "openai" -> "flagged"
      [] OTHER -> "part"

\* Mutant: a tool call at hand makes it a tool turn.
StopCallsFirst(finish, calls) ==
    IF calls # {} THEN "tool_use" ELSE IF finish = "length" THEN "max_tokens" ELSE "end_turn"

\* mapOpenAIStopReason(), and the same order in toolResponseFromAnthropic().
StopReason(finish, calls) ==
    CASE finish = "filter" -> "refusal"
      [] finish = "length" -> "max_tokens"
      [] finish \notin {"filter", "length"} /\ calls # {} -> "tool_use"
      [] OTHER -> "end_turn"

\* The stream is over: the response is metered, then yielded. OpenAI takes a
\* closed connection for the end; the SDK's finalMessage() throws at one that
\* comes before the last event.
End ==
    /\ body = "reading" /\ socket = "open"
    /\ api = "anthropic" => heard.finish # "none"
    /\ Report(heard.usage)
    /\ LET calls == {i \in Slots : heard.args[i] # Unheard}
       IN  response' = [text |-> heard.text, calls |-> [i \in calls |-> Parsed(heard.args[i])],
                        stop |-> StopReason(heard.finish, calls)]
    /\ body' = "handed"
    /\ socket' = "closed"
    /\ UNCHANGED <<api, heard, given>>

\* judgeTurn(): nothing of a turn that was refused or cut runs, and the registry
\* turns away arguments that are marked.
RunsCall(i) ==
    /\ i \in DOMAIN response.calls
    /\ response.stop \notin {"refusal", "max_tokens"}
    /\ response.calls[i] # "flagged"

Next == Open \/ Read \/ ReadText \/ GoOn \/ Timeout \/ Break \/ Aborted \/ Leave \/ End

Spec == Init /\ [][Next]_vars
-----------------------------------------------------------------------------
\* A turn the provider bills is metered exactly once, read to its end, left half
\* way or broken off, and one it does not bill never is; a response that carries
\* its usage was metered with it before its reader could leave.
MeteredOnce ==
    /\ metered.exact + metered.estimate <= (IF heard.billed THEN 1 ELSE 0)
    /\ body \in {"handed", "over"} /\ heard.billed => Reported
    /\ response # NoResponse => metered.exact = (IF heard.usage THEN 1 ELSE 0)

\* The words of the response are those the reader was given on the way.
StreamedIsSaid == response # NoResponse => response.text = given

\* A call whose arguments were cut does not run, wherever the cut was made: not
\* with half of them, and without any only when the server did not say that it
\* cut the turn. (A connection closed just behind a call's name is such a case.)
CutCallNeverRuns ==
    response # NoResponse =>
        \A i \in Slots : RunsCall(i) =>
            \/ heard.args[i] = Whole
            \/ heard.args[i] = Named /\ heard.finish \notin {"length", "filter"}

\* Nothing streams into a connection nobody reads.
HungUp == body \in {"over", "handed"} => socket # "open"

\* OpenAI's turn ends however silent its server is: a timer covers all of it.
TurnEnds == (api = "openai" /\ socket = "open") ~> (body = "over")
=============================================================================
