----------------------------- MODULE LogShipper -----------------------------
(***************************************************************************)
(* runtime/logs.ts: lines are buffered and posted in batches, when the     *)
(* batch fills, on a timer, and on close. A post is in flight while others *)
(* start; one that fails takes its lines with it.                          *)
(***************************************************************************)
EXTENDS Integers, Sequences, FiniteSets

CONSTANTS
    Lines,       \* bound on the lines ever logged, in order 1..Lines
    BatchSize    \* batchSize

VARIABLES
    logged,    \* how many lines have been logged
    buffer,    \* this.buffer
    posts,     \* the batches of fetches in flight
    arrived,   \* the lines the control plane has, in the order of arrival
    dropped,   \* the lines of posts that failed
    shut       \* close() has stopped the timer

vars == <<logged, buffer, posts, arrived, dropped, shut>>
-----------------------------------------------------------------------------
Contents(s) == {s[i] : i \in DOMAIN s}

Init ==
    /\ logged = 0
    /\ buffer = <<>>
    /\ posts = {}
    /\ arrived = <<>>
    /\ dropped = {}
    /\ shut = FALSE

\* Mutant: the buffer is emptied once the post is through, not before it.
FlushedKeeping(lines) == /\ buffer' = lines
                         /\ posts' = IF lines = <<>> THEN posts ELSE posts \cup {lines}

\* flush() up to its await, with these lines in the buffer.
Flushed(lines) == /\ buffer' = <<>>
                  /\ posts' = IF lines = <<>> THEN posts ELSE posts \cup {lines}

\* log(): a full batch goes at once.
Log ==
    /\ logged < Lines
    /\ logged' = logged + 1
    /\ LET lines == Append(buffer, logged')
       IN  IF Len(lines) >= BatchSize
           THEN Flushed(lines)
           ELSE buffer' = lines /\ UNCHANGED posts
    /\ UNCHANGED <<arrived, dropped, shut>>

Timer ==
    /\ ~shut
    /\ buffer # <<>>
    /\ Flushed(buffer)
    /\ UNCHANGED <<logged, arrived, dropped, shut>>

\* close(): the timer stops and what is left goes out.
Close ==
    /\ ~shut
    /\ shut' = TRUE
    /\ Flushed(buffer)
    /\ UNCHANGED <<logged, arrived, dropped>>

Arrive(b) ==
    /\ posts' = posts \ {b}
    /\ arrived' = arrived \o b
    /\ UNCHANGED <<logged, buffer, dropped, shut>>

Fail(b) ==
    /\ posts' = posts \ {b}
    /\ dropped' = dropped \cup Contents(b)
    /\ UNCHANGED <<logged, buffer, arrived, shut>>

Post == \E b \in posts : Arrive(b) \/ Fail(b)

Next == Log \/ Timer \/ Close \/ Post

Spec == Init /\ [][Next]_vars

\* The timer fires and posts settle.
Fairness == WF_vars(Timer) /\ WF_vars(Post)
-----------------------------------------------------------------------------
InFlight == UNION {Contents(b) : b \in posts}

\* Every line is in one place: the buffer, a single post, the control plane's
\* hands exactly once, or gone with a post that failed.
EveryLineOnce ==
    /\ Contents(buffer) \cup InFlight \cup Contents(arrived) \cup dropped = 1..logged
    /\ Cardinality(InFlight) + Cardinality(dropped) + Len(arrived) + Len(buffer) = logged
    /\ \A b, c \in posts : b # c => Contents(b) \cap Contents(c) = {}

\* A line logged while the timer runs leaves the process; one logged after
\* close() goes only with a full batch.
LinesLeave == \A n \in 1..Lines : logged >= n /\ ~shut ~> n \notin Contents(buffer) \cup InFlight
=============================================================================
