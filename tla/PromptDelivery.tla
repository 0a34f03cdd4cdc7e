--------------------------- MODULE PromptDelivery ---------------------------
(***************************************************************************)
(* runtime/prompt.ts: PromptProvider fetches the agent's current prompt    *)
(* once at the start and then on a timer, whether or not the last fetch is *)
(* back. Answers may overtake each other, and may fail.                    *)
(***************************************************************************)
EXTENDS Integers

CONSTANTS
    Versions,    \* bound on the versions opto publishes, 1..Versions
    Fetches      \* the fetches that may be in flight at once

VARIABLES
    published,   \* what the control plane serves
    fetch,       \* each fetch: 0, or the version its answer carries
    config,      \* this.config's version; 0 is the fallback
    polling,     \* "no" | "first": start() awaits its refresh() | "yes"
    told         \* the last version onUpdate was called with

vars == <<published, fetch, config, polling, told>>
-----------------------------------------------------------------------------
Init ==
    /\ published = 1
    /\ fetch = [f \in Fetches |-> 0]
    /\ config = 0 /\ told = 0
    /\ polling = "no"

Publish ==
    /\ published < Versions
    /\ published' = published + 1
    /\ UNCHANGED <<fetch, config, polling, told>>

Asked(f) ==
    /\ fetch[f] = 0
    /\ fetch' = [fetch EXCEPT ![f] = published]

\* start(): a refresh at once; the timer comes when it is back.
Start(f) ==
    /\ polling = "no"
    /\ Asked(f)
    /\ polling' = "first"
    /\ UNCHANGED <<published, config, told>>

\* The timer, or a refresh() of somebody's own.
Poll(f) ==
    /\ polling = "yes"
    /\ Asked(f)
    /\ UNCHANGED <<published, config, polling, told>>

\* Mutant: only a version later than the one held is taken.
TakenOnce(v) ==
    IF config = 0 THEN config' = v /\ told' = v ELSE UNCHANGED <<config, told>>

\* A version other than the one held is taken, and reported.
Taken(v) ==
    IF v # config THEN config' = v /\ told' = v ELSE UNCHANGED <<config, told>>

\* Mutant: a failed first fetch ends start().
StillPolling(works) == IF works /\ polling = "first" THEN "yes" ELSE polling

\* start() goes on to its timer whether the first fetch worked or not.
OnItsTimer(works) == IF polling = "first" THEN "yes" ELSE polling

\* refresh(), its answer there; null on any failure, and the config stays.
Refreshed(f, works) ==
    /\ fetch[f] # 0
    /\ fetch' = [fetch EXCEPT ![f] = 0]
    /\ IF works THEN Taken(fetch[f]) ELSE UNCHANGED <<config, told>>
    /\ polling' = OnItsTimer(works)
    /\ UNCHANGED published

Stop ==
    /\ polling = "yes"
    /\ polling' = "stopped"
    /\ UNCHANGED <<published, fetch, config, told>>

Arrive(f) == \E works \in BOOLEAN : Refreshed(f, works)

Next == \/ Publish \/ Stop
        \/ \E f \in Fetches : Start(f) \/ Poll(f) \/ Arrive(f)

Spec == Init /\ [][Next]_vars
-----------------------------------------------------------------------------
\* The prompt in use is one that was published (or the fallback) and the one its
\* listener knows of. It may go back: an old answer can come in last.
PromptIsKnown == config \in 0..published /\ told = config

\* A prompt that has gone back does not stay there: as long as the provider
\* polls and not every fetch fails, the version published last is used again.
Converges ==
    \A v \in 1..Versions :
        (<>[](published = v /\ polling \in {"first", "yes"})) =>
            []<>(config = v)
=============================================================================
