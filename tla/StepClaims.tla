------------------------------ MODULE StepClaims ------------------------------
(***************************************************************************)
(* Agents that share a workflow through Minns (middleware/builtin/         *)
(* multi-agent.ts): a step is claimed and completed by asking the server   *)
(* for a transition, and a run that watches holds two subscriptions, one   *)
(* for steps and one for messages, in a map its middleware keeps for all   *)
(* the runs of the agent.                                                  *)
(*                                                                         *)
(* Of the server the model keeps what the tools rely on: a transition that *)
(* is not allowed is refused, a subscription queues what arrives until it  *)
(* is polled or deleted, and any call may fail, or its answer get lost.    *)
(***************************************************************************)
EXTENDS Integers, Sequences, FiniteSets

CONSTANTS
    Claimants,    \* the runs of this agent and of its peers
    Watchers,     \* the runs of this agent that watch
    MaxSubs,      \* bound on the subscriptions created
    MaxEvents     \* bound on the steps and messages that arrive

VARIABLES
    step,         \* the workflow step's state at the server
    claimed,      \* the claimants told that the step is theirs
    sub,          \* the server's subscriptions: kind, live, the events queued and ever got
    subscriptions,\* the middleware's Map: kind -> id, 0 when it has none
    watcher,      \* each run: what it awaits, the kinds its iterator has passed, its poll
    arrived,      \* history: events that arrived
    heard,        \* history: the events, by subscription, some poll has returned
    excused       \* history: subscriptions replaced, undeleted or never heard of

claimVars == <<step, claimed, sub, subscriptions, watcher, arrived, heard, excused>>
stepVars == <<step, claimed>>
-----------------------------------------------------------------------------
Kinds == {"steps", "messages"}

Ids == DOMAIN sub

Live == {i \in Ids : sub[i].live}

Init ==
    /\ step = "pending" /\ claimed = {}
    /\ sub = <<>>
    /\ subscriptions = [k \in Kinds |-> 0]
    /\ watcher = [w \in Watchers |-> [at |-> "idle", passed |-> {}, asked |-> 0, drained |-> {}]]
    /\ arrived = 0 /\ heard = {} /\ excused = {}

\* transitionWorkflowStep: refused unless the step is in the state before.
Transition(from, to) == step = from /\ step' = to

\* Mutant: a refused transition is reported as done.
ToldAnyway(c, asked) == claimed' = claimed \cup {c}

Told(c, asked) == claimed' = IF asked THEN claimed \cup {c} ELSE claimed

\* claim_step: success is what the server answered; it sends no name of its own.
ClaimStep(c) ==
    /\ c \notin claimed
    /\ \/ Transition("pending", "running") /\ \E answered \in BOOLEAN : Told(c, answered)
       \/ step # "pending" /\ UNCHANGED step /\ Told(c, FALSE)
    /\ UNCHANGED <<sub, subscriptions, watcher, arrived, heard, excused>>

\* complete_step asks for no claim.
CompleteStep ==
    /\ Transition("running", "completed")
    /\ UNCHANGED <<claimed, sub, subscriptions, watcher, arrived, heard, excused>>

\* A step or a message arrives at every live subscription of its kind.
Arrive(k) ==
    /\ arrived < MaxEvents
    /\ arrived' = arrived + 1
    /\ sub' = [i \in Ids |-> IF sub[i].live /\ sub[i].kind = k
                             THEN [sub[i] EXCEPT !.queue = sub[i].queue \cup {arrived + 1},
                                                 !.got = sub[i].got \cup {arrived + 1}]
                             ELSE sub[i]]
    /\ UNCHANGED <<stepVars, subscriptions, watcher, heard, excused>>

\* The run awaits what at; its iterator over the map has passed some kinds.
Awaits(w, at, passed) == watcher' = [watcher EXCEPT ![w].at = at, ![w].passed = passed]

Begin(w) ==
    /\ watcher[w].at = "idle"
    /\ Awaits(w, "free", {})
    /\ UNCHANGED <<stepVars, sub, subscriptions, arrived, heard, excused>>

\* watch_for_work asks for the first subscription; the call for the second follows
\* the answer to the first.
Watch(w) ==
    /\ watcher[w].at = "free"
    /\ Awaits(w, "steps", {})
    /\ UNCHANGED <<stepVars, sub, subscriptions, arrived, heard, excused>>

\* createSubscription succeeds, which puts the id over the one in the map; or its
\* answer is lost; or it fails, and the tool with it.
Subscribed(w, k) ==
    LET id == Len(sub) + 1
    IN
    /\ watcher[w].at = k
    /\ \/ /\ Len(sub) < MaxSubs
          /\ sub' = Append(sub, [kind |-> k, live |-> TRUE, queue |-> {}, got |-> {}])
          /\ \/ /\ subscriptions' = [subscriptions EXCEPT ![k] = id]
                /\ excused' = excused \cup ({subscriptions[k]} \ {0})
                /\ Awaits(w, IF k = "steps" THEN "messages" ELSE "free", {})
             \/ /\ excused' = excused \cup {id}
                /\ Awaits(w, "free", {})
                /\ UNCHANGED subscriptions
       \/ Awaits(w, "free", {}) /\ UNCHANGED <<sub, subscriptions, excused>>
    /\ UNCHANGED <<stepVars, arrived, heard>>

\* The kind the iterator comes to next: "steps" was put into the map first.
NextKind(passed) ==
    {k \in Kinds \ passed :
        /\ subscriptions[k] # 0
        /\ k = "messages" => "steps" \in passed \/ subscriptions["steps"] = 0}

\* poll_updates and afterExecute go on to the next entry of the map, ...
Visit(w, at, k) ==
    watcher' = [watcher EXCEPT ![w].at = at, ![w].passed = @ \cup {k}, ![w].asked = subscriptions[k]]

Poll(w, k) ==
    /\ watcher[w].at \in {"free", "polled"}
    /\ k \in NextKind(watcher[w].passed)
    /\ Visit(w, "polling", k)
    /\ UNCHANGED <<stepVars, sub, subscriptions, arrived, heard, excused>>

\* ... and a poll takes what the server has queued, or throws away with the tool's
\* error what the polls before it took; a deleted subscription is an error.
Polled(w) ==
    LET id == watcher[w].asked
    IN
    /\ watcher[w].at = "polling"
    /\ \/ /\ sub[id].live
          /\ sub' = [sub EXCEPT ![id].queue = {}]
          /\ watcher' = [watcher EXCEPT ![w].at = "polled",
                                        ![w].drained = @ \cup ({id} \X sub[id].queue)]
          /\ UNCHANGED excused
       \/ /\ watcher' = [watcher EXCEPT ![w].at = "free", ![w].passed = {}, ![w].drained = {}]
          /\ excused' = excused \cup {d[1] : d \in watcher[w].drained}
          /\ UNCHANGED sub
    /\ UNCHANGED <<stepVars, subscriptions, arrived, heard>>

\* Mutant: only the last entry's updates are returned.
ReturnedLast(w) == {d \in watcher[w].drained : d[1] = watcher[w].asked}

Returned(w) == watcher[w].drained

\* The iterator is through: the tool returns what the polls took.
PollReturns(w) ==
    /\ watcher[w].at = "polled"
    /\ NextKind(watcher[w].passed) = {}
    /\ heard' = heard \cup Returned(w)
    /\ watcher' = [watcher EXCEPT ![w].at = "free", ![w].passed = {}, ![w].drained = {}]
    /\ UNCHANGED <<stepVars, sub, subscriptions, arrived, excused>>

\* afterExecute deletes what the map holds, whichever run watched: one after the
\* other, while other runs go on.
Clean(w, k) ==
    /\ watcher[w].at = "free" \/ watcher[w].at = "deleted"
    /\ watcher[w].at = "free" => watcher[w].passed = {}
    /\ k \in NextKind(watcher[w].passed)
    /\ Visit(w, "deleting", k)
    /\ UNCHANGED <<stepVars, sub, subscriptions, arrived, heard, excused>>

\* Mutant: a failed delete is not caught, and ends the clean-up.
GoesOnIfDeleted(deleted) == IF deleted THEN "deleted" ELSE "over"

GoesOn(deleted) == "deleted"

Deleted(w) ==
    LET id == watcher[w].asked
    IN
    /\ watcher[w].at = "deleting"
    /\ \E deleted \in BOOLEAN :
        /\ sub' = IF deleted THEN [sub EXCEPT ![id].live = FALSE] ELSE sub
        /\ excused' = IF deleted THEN excused ELSE excused \cup {id}
        /\ Awaits(w, GoesOn(deleted), watcher[w].passed)
    /\ UNCHANGED <<stepVars, subscriptions, arrived, heard>>

\* The map is cleared of what came in meanwhile, too; an iterator over it starts
\* again with what comes next.
Cleared(w) ==
    /\ watcher[w].at \in {"free", "deleted"}
    /\ watcher[w].at = "free" => watcher[w].passed = {}
    /\ NextKind(watcher[w].passed) = {}
    /\ subscriptions' = [k \in Kinds |-> 0]
    /\ excused' = excused \cup {i \in {subscriptions[k] : k \in Kinds} \ {0} :
                                  sub[i].live}
    /\ watcher' = [v \in Watchers |->
                      IF v = w THEN [watcher[v] EXCEPT !.at = "over", !.passed = {}]
                      ELSE [watcher[v] EXCEPT !.passed = {}]]
    /\ UNCHANGED <<stepVars, sub, arrived, heard>>

Next ==
    \/ \E c \in Claimants : ClaimStep(c)
    \/ CompleteStep
    \/ \E k \in Kinds : Arrive(k)
    \/ \E w \in Watchers : \/ Begin(w) \/ Watch(w) \/ Polled(w) \/ PollReturns(w) \/ Deleted(w) \/ Cleared(w)
                           \/ \E k \in Kinds : Subscribed(w, k) \/ Poll(w, k) \/ Clean(w, k)
-----------------------------------------------------------------------------
\* A step is claimed by one agent: no two are told that it is theirs, as long as
\* the server refuses the second transition.
OneClaimant == Cardinality(claimed) <= 1 /\ (claimed # {} => step # "pending")

\* "Clean up subscriptions": when no run is left, neither is a subscription, but
\* for one that was replaced in the map, swept out of it while it was new, could
\* not be deleted, or whose creation nobody heard of.
SubscriptionsEnd ==
    (\A w \in Watchers : watcher[w].at \in {"idle", "over"}) => Live \subseteq excused

\* What arrived for a live subscription is queued, in a poll's hands, or was
\* returned by one, unless a later entry of that poll failed.
UpdatesAreHeard ==
    \A i \in Live \ excused : \A e \in sub[i].got :
        \/ e \in sub[i].queue
        \/ <<i, e>> \in heard
        \/ \E w \in Watchers : <<i, e>> \in watcher[w].drained
=============================================================================
