----------------------------- MODULE ContextWindow -----------------------------
(***************************************************************************)
(* What the model is sent of a growing transcript, with the middleware in  *)
(* their recommended order: PatchToolCalls, ToolResultEviction, argument   *)
(* truncation, ContextSummarization and its file of offloaded history.     *)
(* The runner keeps its whole transcript and sends all of it every step.   *)
(*                                                                         *)
(* Another run of the same session shares the file, and any run of the     *)
(* agent the flag that asks for compaction.  Sizes are counted in messages.*)
(* Truncation keeps the start of a message, all that anything here reads.  *)
(***************************************************************************)
EXTENDS Integers, Sequences, FiniteSets, Functions

CONSTANTS
    Quota,         \* bound on the messages of the run
    Trigger,       \* messages from which a request is summarized
    Keep           \* messages a summary leaves alone

VARIABLES
    backend,       \* whether history is offloaded
    transcript,    \* the runner's messages, without the system message; numbered as they come
    elided,        \* what context recovery dropped from the transcript
    step,          \* the model call the run is in: what it has of it so far
    rolling,       \* the summary the run has, what it covers and that part's fingerprint
    sent,          \* the last request of the run
    said,          \* how many messages the run has had
    evictions,     \* totalEvicted
    forced,        \* forceNextCompaction
    file,          \* the messages in the session's history file
    fault,         \* something went wrong with the file
    rival,         \* what another run of the session has read of the file, to write it back
    unsummarized   \* the model once failed to write a summary

window == <<backend, transcript, elided, step, rolling, sent, said, evictions, forced, file, fault,
            rival, unsummarized>>
-----------------------------------------------------------------------------
Message(kind, id, call, large) ==
    [kind |-> kind, id |-> id, call |-> call, large |-> large, stamp |-> 0, holds |-> {id}, file |-> FALSE]

\* A summary stands for what it retells, and for the file it names.
Summary(holds, named) ==
    [kind |-> "summary", id |-> 0, call |-> 0, large |-> FALSE, stamp |-> 0, holds |-> holds, file |-> named]

NoSummary == [covered |-> 0, prefix |-> <<>>, summary |-> Summary({}, FALSE)]
Resting == [at |-> "idle", messages |-> <<>>, cut |-> 0, read |-> {}, named |-> FALSE, why |-> "none"]

Answered(messages, call) == \E i \in DOMAIN messages : messages[i].kind = "result" /\ messages[i].call = call

\* Mutant: dangling calls go out as they are.
UnpatchedMessages(messages) == messages

\* The pieces, one after another.
Joined(pieces) ==
    LET upTo[n \in 0..Len(pieces)] == IF n = 0 THEN <<>> ELSE upTo[n - 1] \o pieces[n]
    IN  upTo[Len(pieces)]

\* PatchToolCalls: a call nobody answered is followed by a result that says so.
Patched(messages) ==
    Joined([i \in DOMAIN messages |->
        IF messages[i].kind = "call" /\ ~Answered(messages, messages[i].call)
        THEN <<messages[i], Message("result", -messages[i].id, messages[i].call, FALSE)>>
        ELSE <<messages[i]>>])

Larges(messages) == Cardinality({i \in DOMAIN messages : messages[i].large})

\* ToolResultEviction: a large result becomes a preview under the next number,
\* which stands at its very start.
Evicted(messages) ==
    [i \in DOMAIN messages |->
        IF messages[i].large
        THEN [messages[i] EXCEPT !.stamp = evictions + Larges(SubSeq(messages, 1, i))]
        ELSE messages[i]]

\* fingerprint(): who each message is, and how it starts.
Fingerprint(messages) == [i \in DOMAIN messages |-> <<messages[i].id, messages[i].stamp>>]

\* Mutant: a summary is put before whatever the transcript is by now.
FitsAnything(prior, messages) == Len(messages) > prior.covered

Fits(prior, messages) ==
    /\ Len(messages) > prior.covered
    /\ Fingerprint(SubSeq(messages, 1, prior.covered)) = prior.prefix

\* applyRollingSummary.
Rolled(messages) ==
    IF rolling.covered > 0 /\ Fits(rolling, messages)
    THEN <<rolling.summary>> \o SubSeq(messages, rolling.covered + 1, Len(messages))
    ELSE messages

\* Mutant: the cut may fall between a call and its results.
CutAnywhere(messages) == Len(messages) - (IF Keep < Len(messages) THEN Keep ELSE Len(messages))

\* runSummarization: the cut, moved back to the call whose results it would keep.
Cut(messages) ==
    LET first == CutAnywhere(messages)
        legal == {c \in 0..first : c \in {0, Len(messages)} \/ messages[c + 1].kind # "result"}
    IN  CHOOSE c \in legal : \A d \in legal : d <= c

\* What a request is worth: its own messages, what its summary retells, and the file it names.
Held(messages) ==
    (UNION {messages[i].holds : i \in DOMAIN messages})
        \cup (IF \E i \in DOMAIN messages : messages[i].file THEN file ELSE {})

Ids(messages) == {messages[i].id : i \in DOMAIN messages}

Init ==
    /\ backend \in BOOLEAN
    /\ transcript = <<>>
    /\ elided = {}
    /\ step = Resting
    /\ rolling = NoSummary
    /\ sent = <<>>
    /\ said = 0
    /\ evictions = 0 /\ forced = FALSE /\ file = {} /\ fault = FALSE /\ unsummarized = FALSE
    /\ rival = [at |-> "idle", read |-> {}]

\* The transcript grows by a question, a call with its result, or a call that was cancelled.
Grow(kind) ==
    LET id == said + 1
        other == id + 1
        size == IF kind \in {"question", "cancelled"} THEN 1 ELSE 2
    IN  /\ step.at = "idle"
        /\ said + size <= Quota
        /\ said' = said + size
        /\ transcript' = transcript \o
               CASE kind = "question"  -> <<Message("user", id, 0, FALSE)>>
                 [] kind = "cancelled" -> <<Message("call", id, id, FALSE)>>
                 [] kind = "answered"  -> <<Message("call", id, id, FALSE), Message("result", other, id, FALSE)>>
                 [] kind = "large"     -> <<Message("call", id, id, FALSE), Message("result", other, id, TRUE)>>
        /\ sent' = <<>>
        /\ UNCHANGED <<backend, elided, step, rolling, evictions, forced, file, fault, unsummarized, rival>>

\* gcMessages after a rejected request: the first question and a recent suffix stay.
Recover ==
    LET all == transcript
        from == CHOOSE f \in 2..Len(all) + 1 :
                    /\ f >= Len(all) - 1
                    /\ f <= Len(all) => all[f].kind # "result"
                    /\ \A g \in 2..(f - 1) : g >= Len(all) - 1 => all[g].kind = "result"
        rest == <<all[1]>> \o SubSeq(all, from, Len(all))
    IN  /\ step.at = "idle" /\ sent # <<>>
        /\ Len(all) > 3 /\ all[1].kind = "user" /\ from <= Len(all)
        /\ transcript' = rest
        /\ elided' = elided \cup (Ids(all) \ Ids(rest))
        /\ sent' = <<>>
        /\ UNCHANGED <<backend, step, rolling, said, evictions, forced, file, fault, unsummarized, rival>>

\* compact_conversation, called in any run, is for whichever call of the model comes next.
AskToCompact ==
    /\ ~forced
    /\ forced' = TRUE
    /\ UNCHANGED <<backend, transcript, elided, step, rolling, sent, said, evictions, file, fault, unsummarized, rival>>

\* Why a summary is made: asked for, needed, or although the one there is covers enough.
Reason(messages) ==
    CASE forced -> "forced"
      [] ~forced /\ rolling.covered > 0 /\ Len(messages) > rolling.covered
                 /\ Ids(SubSeq(messages, 1, rolling.covered)) = {p[1] : p \in Range(rolling.prefix)}
                 /\ Len(messages) - rolling.covered + 1 < Trigger -> "again"
      [] OTHER -> "needed"

Sends(messages) ==
    /\ sent' = messages
    /\ step' = Resting

\* wrapModelCall of the four, up to the first thing they wait for.
ModelCall ==
    LET seen == Evicted(Patched(transcript))
        messages == Rolled(seen)
        cut == Cut(messages)
    IN  /\ step.at = "idle" /\ sent = <<>> /\ transcript # <<>>
        /\ evictions' = evictions + Larges(transcript)
        /\ forced' = FALSE
        /\ IF /\ forced \/ Len(messages) >= Trigger
              /\ Len(messages) > 2 /\ cut > 0
              /\ \E i \in 1..cut : messages[i].kind # "summary"
           THEN /\ step' = [Resting EXCEPT !.at = IF backend THEN "read" ELSE "summary",
                                        !.messages = messages, !.cut = cut, !.why = Reason(seen)]
                /\ UNCHANGED sent
           ELSE Sends(messages)
        /\ UNCHANGED <<backend, transcript, elided, rolling, said, file, fault, unsummarized, rival>>

\* backend.read: an error looks like a file that is not there.
ReadHistory(result) ==
    /\ step.at = "read"
    /\ step' = [step EXCEPT !.at = IF result = "throws" THEN "summary" ELSE "write",
                         !.read = IF result = "ok" THEN file ELSE {}]
    /\ fault' = (fault \/ result # "ok")
    /\ UNCHANGED <<backend, transcript, elided, rolling, sent, said, evictions, forced, file, unsummarized, rival>>

\* What the file is to hold: what was read and the evicted messages, but no summary.
Section ==
    step.read \cup {m.id : m \in {step.messages[i] : i \in {j \in 1..step.cut : step.messages[j].kind # "summary"}}}

\* backend.write replaces the file; that it was refused is not looked at.
WriteHistory(result) ==
    /\ step.at = "write"
    /\ file' = IF result = "ok" THEN Section ELSE file
    /\ step' = [step EXCEPT !.at = "summary", !.named = (result # "throws"), !.read = {}]
    /\ fault' = (fault \/ result # "ok" \/ ~(file \subseteq Section))
    /\ UNCHANGED <<backend, transcript, elided, rolling, sent, said, evictions, forced, unsummarized, rival>>

\* The other run of the session offloads its own messages, 0, in the same two steps, once.
RivalReads ==
    /\ backend /\ rival.at = "idle"
    /\ rival' = [at |-> "reading", read |-> file]
    /\ UNCHANGED <<backend, transcript, elided, step, rolling, sent, said, evictions, forced, file, fault,
                   unsummarized>>

RivalWrites ==
    /\ rival.at = "reading"
    /\ file' = rival.read \cup {0}
    /\ fault' = (fault \/ ~(file \subseteq rival.read \cup {0}))
    /\ rival' = [at |-> "done", read |-> {}]
    /\ UNCHANGED <<backend, transcript, elided, step, rolling, sent, said, evictions, forced, unsummarized>>

\* Mutant: an earlier summary is not summarized again.
RetoldAnew(evicted) == UNION {m.holds : m \in {n \in Range(evicted) : n.kind # "summary"}}

Retold(evicted) == UNION {m.holds : m \in Range(evicted)}

\* recordRollingSummary: the earlier summary stands for what it covered.
Recorded(evicted, summary) ==
    IF evicted[1].kind = "summary"
    THEN [covered |-> Len(evicted) - 1 + rolling.covered,
          prefix |-> rolling.prefix \o Fingerprint(Tail(evicted)), summary |-> summary]
    ELSE [covered |-> Len(evicted), prefix |-> Fingerprint(evicted), summary |-> summary]

\* Mutant: a stub takes the place of the history wherever that is.
StubFor(named) == TRUE

\* A stub replaces what could not be summarized only where a file was named.
StubAllowed(named) == named

\* The summary, or when the model fails a stub, or the request as it was.
Summarize(succeeds) ==
    LET messages == step.messages
        evicted == SubSeq(messages, 1, step.cut)
        summary == Summary(IF succeeds THEN Retold(evicted) ELSE {}, step.named)
    IN  /\ step.at = "summary"
        /\ unsummarized' = (unsummarized \/ ~succeeds)
        /\ IF succeeds \/ StubAllowed(step.named)
           THEN /\ rolling' = Recorded(evicted, summary)
                /\ Sends(<<summary>> \o SubSeq(messages, step.cut + 1, Len(messages)))
           ELSE UNCHANGED rolling /\ Sends(messages)
        /\ UNCHANGED <<backend, transcript, elided, said, evictions, forced, file, fault, rival>>

Next ==
    \/ AskToCompact \/ Recover \/ ModelCall \/ RivalReads \/ RivalWrites
    \/ \E kind \in {"question", "cancelled", "answered", "large"} : Grow(kind)
    \/ \E result \in {"ok", "error", "throws"} : ReadHistory(result)
    \/ \E result \in {"ok", "refused", "throws"} : WriteHistory(result)
    \/ \E succeeds \in BOOLEAN : Summarize(succeeds)
-----------------------------------------------------------------------------
\* Every request is one a provider accepts: each call with its results right behind it.
RequestIsPaired == \A i \in DOMAIN sent :
    LET m == sent[i] IN
    /\ m.kind = "call" => i < Len(sent) /\ sent[i + 1].kind = "result" /\ sent[i + 1].call = m.call
    /\ m.kind = "result" => i > 1 /\ sent[i - 1].kind = "call" /\ sent[i - 1].call = m.call

\* "Do NOT replace real history with a content-free stub": nothing that was said
\* is beyond the model's reach, unless both the summary and the file have failed
\* once, and the file without being looked at.
NothingForgotten == sent # <<>> =>
    Ids(transcript) \subseteq Held(sent) \/ (unsummarized /\ fault)

\* A summary that covers enough is used again, unless a large result is in what
\* it covers: its preview starts with another number at every call.
PaidAgainForPreviewsOnly ==
    step.why = "again" => \E i \in DOMAIN rolling.prefix : rolling.prefix[i][2] > 0
=============================================================================
