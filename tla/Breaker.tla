------------------------------- MODULE Breaker -------------------------------
(***************************************************************************)
(* llm/resilience.ts: createResilientRunner with a circuit breaker, that   *)
(* is, breaker.execute(() => withRetry(fn)), shared by concurrent calls.   *)
(*                                                                         *)
(* Counters are kept up to the threshold they are compared with, and the   *)
(* time since openedAt up to the cooldown: what is beyond makes no         *)
(* difference to the code.                                                 *)
(***************************************************************************)
EXTENDS Integers

CONSTANTS
    Callers,            \* concurrent users of the runner, one call at a time each
    FailureThreshold,
    SuccessThreshold,
    Cooldown,           \* cooldownMs, in ticks
    MaxRetries

VARIABLES
    circuit,     \* state
    failures, successes,
    age,         \* now() - openedAt
    call,        \* each caller: "idle", "asking" the upstream, or "sleeping" before a retry
    attempt,     \* withRetry's attempt
    upstream,    \* whether the provider answers
    stale        \* history: calls let through before the circuit last opened

vars == <<circuit, failures, successes, age, call, attempt, upstream, stale>>
-----------------------------------------------------------------------------
UpTo(limit, n) == IF n > limit THEN limit ELSE n

Init ==
    /\ circuit = "closed"
    /\ failures = 0 /\ successes = 0 /\ age = 0
    /\ call = [c \in Callers |-> "idle"]
    /\ attempt = [c \in Callers |-> 0]
    /\ upstream = TRUE
    /\ stale = {}

\* getState() moves on from open once the cooldown is over.
CooledDown == circuit = "open" /\ age >= Cooldown

InFlight == {c \in Callers : call[c] # "idle"}

Admit(c) ==
    /\ call' = [call EXCEPT ![c] = "asking"]
    /\ attempt' = [attempt EXCEPT ![c] = 0]

\* Mutant: successes of the last trial are kept.
HalfOpenKeeping == circuit' = "half_open" /\ UNCHANGED successes

HalfOpen == circuit' = "half_open" /\ successes' = 0

\* execute(), up to the call of fn.
Execute(c) ==
    /\ call[c] = "idle"
    /\ \/ /\ circuit # "open"
          /\ Admit(c)
          /\ UNCHANGED <<circuit, successes>>
       \/ /\ CooledDown
          /\ HalfOpen
          /\ Admit(c)
    /\ UNCHANGED <<failures, age, upstream, stale>>

\* Mutant: a rejected call counts as a failure and starts the cooldown again.
RejectCounted(c) ==
    /\ call[c] = "idle"
    /\ circuit = "open" /\ ~CooledDown
    /\ age' = 0
    /\ UNCHANGED <<circuit, failures, successes, call, attempt, upstream, stale>>

\* execute() while the circuit is open throws at once and changes nothing.
Reject(c) ==
    /\ call[c] = "idle"
    /\ circuit = "open" /\ ~CooledDown
    /\ UNCHANGED vars

\* onSuccess(), of whichever call it is.
OnSuccess ==
    IF circuit = "half_open"
    THEN IF successes + 1 >= SuccessThreshold
         THEN circuit' = "closed" /\ failures' = 0 /\ successes' = 0
         ELSE successes' = successes + 1 /\ UNCHANGED <<circuit, failures>>
    ELSE failures' = 0 /\ UNCHANGED <<circuit, successes>>

Succeed(c) ==
    /\ call[c] = "asking"
    /\ upstream
    /\ OnSuccess
    /\ call' = [call EXCEPT ![c] = "idle"]
    /\ attempt' = [attempt EXCEPT ![c] = 0]
    /\ stale' = stale \ {c}
    /\ UNCHANGED <<age, upstream>>

\* The attempt fails with an error worth a retry: withRetry sleeps.
BackOff(c) ==
    /\ call[c] = "asking"
    /\ ~upstream
    /\ attempt[c] < MaxRetries
    /\ call' = [call EXCEPT ![c] = "sleeping"]
    /\ UNCHANGED <<circuit, failures, successes, age, attempt, upstream, stale>>

\* Nothing asks the breaker again before a retry.
Retry(c) ==
    /\ call[c] = "sleeping"
    /\ call' = [call EXCEPT ![c] = "asking"]
    /\ attempt' = [attempt EXCEPT ![c] = attempt[c] + 1]
    /\ UNCHANGED <<circuit, failures, successes, age, upstream, stale>>

\* Mutant: a failed trial does not open the circuit again.
TripsWhenFull == failures + 1 >= FailureThreshold /\ circuit # "half_open"

Trips == circuit = "half_open" \/ failures + 1 >= FailureThreshold

\* onFailure() after the last attempt, or of an error that is not retried.
Fail(c) ==
    /\ call[c] = "asking"
    /\ ~upstream
    /\ failures' = UpTo(FailureThreshold, failures + 1)
    /\ IF Trips
       THEN circuit' = "open" /\ age' = 0 /\ stale' = InFlight \ {c}
       ELSE UNCHANGED <<circuit, age>> /\ stale' = stale \ {c}
    /\ call' = [call EXCEPT ![c] = "idle"]
    /\ attempt' = [attempt EXCEPT ![c] = 0]
    /\ UNCHANGED <<successes, upstream>>

Tick ==
    /\ circuit = "open"
    /\ age < Cooldown
    /\ age' = age + 1
    /\ UNCHANGED <<circuit, failures, successes, call, attempt, upstream, stale>>

\* The provider goes down, or comes back.
Outage ==
    /\ upstream' = ~upstream
    /\ UNCHANGED <<circuit, failures, successes, age, call, attempt, stale>>

Settle(c) == Succeed(c) \/ BackOff(c) \/ Retry(c) \/ Fail(c)

Next == (\E c \in Callers : Execute(c) \/ Reject(c) \/ Settle(c)) \/ Tick \/ Outage

Spec == Init /\ [][Next]_vars

\* Time passes, attempts settle, sleeps end, and callers keep calling.
Fairness ==
    /\ WF_vars(Tick)
    /\ \A c \in Callers : WF_vars(Settle(c)) /\ WF_vars(Execute(c))
-----------------------------------------------------------------------------
TypeOK ==
    /\ circuit \in {"closed", "open", "half_open"}
    /\ failures \in 0..FailureThreshold /\ successes \in 0..SuccessThreshold
    /\ age \in 0..Cooldown
    /\ call \in [Callers -> {"idle", "asking", "sleeping"}]
    /\ attempt \in [Callers -> 0..MaxRetries]
    /\ stale \subseteq Callers

\* While the circuit is open, only calls that were let through before it opened
\* still ask the provider (their retries do, since the breaker is around the
\* whole of withRetry); and a closed circuit is one failure short of opening.
OpenMeansClosedDoor ==
    /\ circuit = "open" => InFlight \subseteq stale
    /\ circuit = "closed" => failures < FailureThreshold
    /\ circuit = "half_open" => successes < SuccessThreshold

\* A trial that fails sends the circuit back to open, for a whole cooldown.
TrialDecides ==
    [][circuit = "half_open" /\ circuit' # "half_open" =>
        \/ circuit' = "open" /\ age' = 0
        \/ circuit' = "closed" /\ failures' = 0 /\ successes + 1 = SuccessThreshold]_vars

\* However many calls are in flight, late, or rejected meanwhile: once the
\* provider answers for good the circuit closes and stays so.
Recovers == <>[]upstream => <>[](circuit = "closed")
=============================================================================
