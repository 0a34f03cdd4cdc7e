----------------------------- MODULE Candidates -----------------------------
(***************************************************************************)
(* Propose-then-approve tool calls: src/patterns/candidate.ts.             *)
(*                                                                         *)
(* A store of candidates, a reviewer who decides on them, and any number   *)
(* of concurrent executeApproved() calls, each of which is                 *)
(*     get -> check the status -> claim -> registry.execute -> resolve     *)
(* with an await (an interleaving point, and a point where the process can *)
(* die or the store can reject) between every two of these.                *)
(***************************************************************************)
EXTENDS Integers, Sequences

CONSTANTS
    Ids,          \* candidate ids
    Executors,    \* slots for concurrent executeApproved() calls
    Edits,        \* payloads a reviewer may substitute for the proposed one
    Draft,        \* the model's proposed payload
    NoEdit,       \* revisedPayload is undefined
    NoId,         \* an idle executor's target
    MaxAttempts,  \* limits.maxAttempts (DEFAULT_CANDIDATE_MAX_ATTEMPTS is 3)
    CanClaim,     \* the store implements the optional claim()
    TimingOut     \* candidates whose tool may be reported failed although its effect lands

ASSUME CandidatesAssumption ==
    /\ MaxAttempts \in Nat \ {0}
    /\ CanClaim \in BOOLEAN
    /\ TimingOut \subseteq Ids
    /\ Draft \notin Edits
    /\ NoEdit \notin Edits \cup {Draft}
    /\ NoId \notin Ids
    /\ {"undecided", "refused"} \cap (Edits \cup {Draft}) = {}

VARIABLES
    store,    \* the CandidateStore's record of every id
    pc,       \* where each executeApproved() call is
    target,   \* the candidateId it was called with
    held,     \* its local variable candidate: the record it read or claimed
    ok,       \* result.success, once the tool has answered
    effects   \* what the tool has done to the outside world, per candidate

vars == <<store, pc, target, held, ok, effects>>
-----------------------------------------------------------------------------
\* Mutant: a candidate that has failed for good can be claimed again.
RunnableOrFailed == {"approved", "revised", "failed"}

Runnable == {"approved", "revised"}

Decisions == {"approved", "rejected", "revised"}

CandidateStatus ==
    {"pending_review", "approved", "rejected", "revised", "executing", "executed", "failed"}

Candidate ==
    [status          : CandidateStatus \cup {"absent"},
     revisedPayload  : Edits \cup {NoEdit},
     claimedFrom     : Runnable \cup {"none"},
     attempts        : Nat]

Absent == [status |-> "absent", revisedPayload |-> NoEdit, claimedFrom |-> "none", attempts |-> 0]

\* Mutant: the model's draft runs, whatever the human has made of it.
EffectivePayloadDraft(c) == Draft

\* The payload that runs: the human's revision when there is one.
EffectivePayload(c) == IF c.revisedPayload # NoEdit THEN c.revisedPayload ELSE Draft

\* Mutant: a status update without an edit clears the one there is.
ResolvedDroppingEdit(c, s, edit) == [c EXCEPT !.status = s, !.revisedPayload = edit]

\* store.resolve: whatever the record's status was, it becomes s; the edit is
\* kept unless the decision brings one.
Resolved(c, s, edit) ==
    [c EXCEPT !.status = s, !.revisedPayload = IF edit # NoEdit THEN edit ELSE @]

\* Mutant: the attempt is not counted.
ClaimedUncounted(c) == [c EXCEPT !.status = "executing", !.claimedFrom = c.status]

\* store.claim on a runnable record.
Claimed(c) ==
    [c EXCEPT !.status = "executing", !.claimedFrom = c.status, !.attempts = @ + 1]

\* Mutant: the limit on the attempts is not looked at.
ReleasedForever(c) == c.claimedFrom

\* The status a failed run hands the candidate back in.
Released(c) == IF c.attempts >= MaxAttempts THEN "failed" ELSE c.claimedFrom

Idle(e) ==
    /\ pc' = [pc EXCEPT ![e] = "idle"]
    /\ target' = [target EXCEPT ![e] = NoId]
    /\ held' = [held EXCEPT ![e] = Absent]
    /\ ok' = [ok EXCEPT ![e] = FALSE]
-----------------------------------------------------------------------------
Init ==
    /\ store = [i \in Ids |-> Absent]
    /\ pc = [e \in Executors |-> "idle"]
    /\ target = [e \in Executors |-> NoId]
    /\ held = [e \in Executors |-> Absent]
    /\ ok = [e \in Executors |-> FALSE]
    /\ effects = [i \in Ids |-> <<>>]

\* The wrapped tool is called: the proposal is stored for review, nothing runs.
Submit(i) ==
    /\ store[i].status = "absent"
    /\ store' = [store EXCEPT ![i].status = "pending_review"]
    /\ UNCHANGED <<pc, target, held, ok, effects>>

\* The dashboard applies a human decision to a pending candidate. That it is
\* pending is the dashboard's promise: resolve() does not look at the status.
Review(i) ==
    /\ store[i].status = "pending_review"
    /\ \/ \E s \in {"approved", "rejected"} :
            store' = [store EXCEPT ![i] = Resolved(@, s, NoEdit)]
       \/ \E edit \in Edits :
            store' = [store EXCEPT ![i] = Resolved(@, "revised", edit)]
    /\ UNCHANGED <<pc, target, held, ok, effects>>

\* executeApproved: store.get, then the status check on the record it read.
\* A missing or non-runnable candidate is refused: the call leaves no trace.
\* Without claim() the call goes on to the tool on the strength of this read.
ExecGet(e, i) ==
    /\ pc[e] = "idle"
    /\ store[i].status \in Runnable
    /\ pc' = [pc EXCEPT ![e] = IF CanClaim THEN "claim" ELSE "run"]
    /\ target' = [target EXCEPT ![e] = i]
    /\ held' = [held EXCEPT ![e] = store[i]]
    /\ UNCHANGED <<store, ok, effects>>

\* Mutant: the claim does not compare, it only sets.
ClaimUnchecked(e) ==
    /\ pc[e] = "claim"
    /\ store' = [store EXCEPT ![target[e]] = Claimed(@)]
    /\ held' = [held EXCEPT ![e] = Claimed(store[target[e]])]
    /\ pc' = [pc EXCEPT ![e] = "run"]
    /\ UNCHANGED <<target, ok, effects>>

\* Winning the compare-and-set.
ExecClaim(e) ==
    LET i == target[e] IN
    /\ pc[e] = "claim"
    /\ store[i].status \in Runnable
    /\ store' = [store EXCEPT ![i] = Claimed(@)]
    /\ held' = [held EXCEPT ![e] = Claimed(store[i])]
    /\ pc' = [pc EXCEPT ![e] = "run"]
    /\ UNCHANGED <<target, ok, effects>>

\* Losing it: claim returns null, the caller is denied and runs nothing.
ExecDenied(e) ==
    /\ pc[e] = "claim"
    /\ store[target[e]].status \notin Runnable
    /\ Idle(e)
    /\ UNCHANGED <<store, effects>>

\* registry.execute answers. A timed-out tool is answered for as failed while
\* its own promise is still running, so its effect may land all the same.
ExecRun(e) ==
    LET i == target[e]
        done == [effects EXCEPT ![i] = Append(@, EffectivePayload(held[e])) ]
    IN
    /\ pc[e] = "run"
    /\ \/ ok' = [ok EXCEPT ![e] = TRUE] /\ effects' = done
       \/ ok' = ok /\ effects' = effects
       \/ i \in TimingOut /\ ok' = ok /\ effects' = done
    /\ pc' = [pc EXCEPT ![e] = "settle"]
    /\ UNCHANGED <<store, target, held>>

\* Mutant: no return after the success, so the claim is released all the same.
SettleReleasing(e) ==
    /\ pc[e] = "settle"
    /\ store' = [store EXCEPT ![target[e]] = Resolved(@, Released(held[e]), NoEdit)]
    /\ Idle(e)
    /\ UNCHANGED effects

\* The status update after the run. A call that could not claim leaves a
\* failed candidate as it is.
ExecSettle(e) ==
    LET i == target[e] IN
    /\ pc[e] = "settle"
    /\ store' = IF ok[e]
                THEN [store EXCEPT ![i] = Resolved(@, "executed", NoEdit)]
                ELSE IF CanClaim
                     THEN [store EXCEPT ![i] = Resolved(@, Released(held[e]), NoEdit)]
                     ELSE store
    /\ Idle(e)
    /\ UNCHANGED effects

\* The process dies, or the store call the executor is waiting for rejects: a
\* rejected claim fails closed, a rejected status update is swallowed.
Abandon(e) ==
    /\ pc[e] # "idle"
    /\ Idle(e)
    /\ UNCHANGED <<store, effects>>

Execute(e) ==
    \/ \E i \in Ids : ExecGet(e, i)
    \/ ExecClaim(e)
    \/ ExecDenied(e)
    \/ ExecRun(e)
    \/ ExecSettle(e)
    \/ Abandon(e)

Next ==
    \/ \E i \in Ids : Submit(i) \/ Review(i)
    \/ \E e \in Executors : Execute(e)

Spec == Init /\ [][Next]_vars

\* A call that goes on gets its answers, a candidate that is runnable is delivered
\* again, and a store that is asked again and again does not reject every claim.
FairSpec ==
    /\ Spec
    /\ \A e \in Executors : /\ WF_vars(ExecRun(e) \/ ExecSettle(e))
                            /\ SF_vars(ExecClaim(e) \/ ExecDenied(e))
    /\ \A i \in Ids : WF_vars(\E e \in Executors : ExecGet(e, i))
-----------------------------------------------------------------------------
\* Shape of the state; effects are only ever agreed or drafted payloads.
TypeOK ==
    /\ store \in [Ids -> Candidate]
    /\ pc \in [Executors -> {"idle", "claim", "run", "settle"}]
    /\ target \in [Executors -> Ids \cup {NoId}]
    /\ held \in [Executors -> Candidate]
    /\ ok \in [Executors -> BOOLEAN]
    /\ effects \in [Ids -> Seq(Edits \cup {Draft})]
    /\ \A e \in Executors : pc[e] # "idle" => target[e] \in Ids

Owns(e, i) == pc[e] \in {"run", "settle"} /\ target[e] = i

\* "exactly one executor can own a candidate at a time" (candidate.ts, on the
\* status executing): two calls never have the tool of one candidate in flight.
OneOwner ==
    CanClaim => \A i \in Ids, e1, e2 \in Executors : Owns(e1, i) /\ Owns(e2, i) => e1 = e2

\* Exactly-once: however many calls race, retry, die or lose their status
\* update, a candidate's tool changes the world at most once, provided a tool
\* reported failed has not acted.
ExactlyOnce ==
    CanClaim => \A i \in Ids \ TimingOut : Len(effects[i]) <= 1

\* Even when failed attempts may have acted, the effects a candidate can have
\* are bounded by its attempts, and those by the limit: the retry loop ends.
BoundedRetry ==
    CanClaim => \A i \in Ids :
        /\ Len(effects[i]) <= store[i].attempts
        /\ store[i].attempts <= MaxAttempts

\* Every effect was agreed to: the reviewer did not refuse the candidate, and
\* what ran is the reviewer's edit when there is one, on retries as well.
HumanDecides ==
    \A i \in Ids : \A k \in DOMAIN effects[i] :
        /\ store[i].status \notin {"absent", "pending_review", "rejected"}
        /\ effects[i][k] = IF store[i].revisedPayload \in Edits
                           THEN store[i].revisedPayload ELSE Draft

\* "revisedPayload: present iff a reviewer revised the proposal", through any
\* number of claims, failures and releases.
EditIffRevised ==
    \A i \in Ids :
        /\ store[i].status = "approved" => store[i].revisedPayload = NoEdit
        /\ store[i].status = "revised" => store[i].revisedPayload \in Edits

\* The lifecycle diagram at the top of candidate.ts, as the steps of a record.
LifecycleArrows ==
    {<<"absent", "pending_review">>,
     <<"pending_review", "approved">>, <<"pending_review", "rejected">>,
     <<"pending_review", "revised">>, <<"approved", "executing">>,
     <<"revised", "executing">>, <<"executing", "executed">>,
     <<"executing", "approved">>, <<"executing", "revised">>,
     <<"executing", "failed">>}

LifecycleStep ==
    \A i \in Ids : \/ store'[i].status = store[i].status
                  \/ <<store[i].status, store'[i].status>> \in LifecycleArrows

\* No step takes a candidate along an arrow the diagram does not have: an
\* executed, failed or rejected candidate never moves again.
Lifecycle == [][LifecycleStep]_vars

\* The executor died, or its status update was rejected, after the claim: the
\* candidate stays in executing, visible, for an operator to look into.
Orphaned(i) == store[i].status = "executing" /\ \A e \in Executors : ~Owns(e, i)

\* A candidate a human let through is settled in the end: executed, failed for
\* good after its last attempt, or left for an operator; a tool that always fails
\* does not cycle for ever.
Settles ==
    \A i \in Ids : store[i].status \in Runnable ~>
        store[i].status \in {"executed", "failed"} \/ Orphaned(i)
-----------------------------------------------------------------------------
(***************************************************************************)
(* The inductive invariant behind the theorems of Candidates_proofs.  None *)
(* of the properties above is inductive: what keeps two executors apart is *)
(* that an owner's record is still the one it claimed, and what keeps the  *)
(* effects down is where the owner stands.                                 *)
(***************************************************************************)
\* A claim stands until its owner settles it: nobody rewrites an owned record.
ClaimStands ==
    CanClaim => \A e \in Executors : pc[e] \in {"run", "settle"} =>
        /\ store[target[e]] = held[e]
        /\ held[e].status = "executing"
        /\ held[e].claimedFrom \in Runnable

\* Attempts left: a runnable candidate has one, an owner about to run holds one
\* that has had no effect yet.
AttemptsLeft ==
    CanClaim =>
        /\ \A i \in Ids : store[i].status \in Runnable \cup {"absent", "pending_review"} =>
                store[i].attempts < MaxAttempts
        /\ \A e \in Executors : pc[e] = "run" =>
                Len(effects[target[e]]) < store[target[e]].attempts

\* Once the effect is there the candidate cannot become runnable again.
EffectIsFinal ==
    CanClaim => \A i \in Ids \ TimingOut : effects[i] # <<>> =>
        /\ store[i].status \in {"executing", "executed"}
        /\ \A e \in Executors : Owns(e, i) => pc[e] = "settle" /\ ok[e]

\* What an executor holds is what the human decided, in the record and in the
\* status the record will be released to.
HeldAsDecided ==
    /\ \A i \in Ids : store[i].status \in {"absent", "pending_review"} =>
            store[i].revisedPayload = NoEdit
    /\ \A e \in Executors : pc[e] # "idle" =>
            /\ store[target[e]].status \notin {"absent", "pending_review", "rejected"}
            /\ held[e].revisedPayload = store[target[e]].revisedPayload
    /\ CanClaim => \A e \in Executors : pc[e] \in {"run", "settle"} =>
            /\ held[e].claimedFrom = "approved" => held[e].revisedPayload = NoEdit
            /\ held[e].claimedFrom = "revised" => held[e].revisedPayload \in Edits

IInv ==
    /\ TypeOK
    /\ OneOwner /\ ClaimStands
    /\ BoundedRetry /\ AttemptsLeft
    /\ ExactlyOnce /\ EffectIsFinal
    /\ HumanDecides /\ EditIffRevised /\ HeldAsDecided
-----------------------------------------------------------------------------
\* The abstract contract, read off the concrete state.
VerdictOf(c) ==
    IF c.status \in {"absent", "pending_review"} THEN "undecided"
    ELSE IF c.status = "rejected" THEN "refused"
    ELSE EffectivePayload(c)

Contract == INSTANCE ReviewedEffect
    WITH Ids <- Ids \ TimingOut,
         Payloads <- Edits \cup {Draft}, Undecided <- "undecided", Refused <- "refused",
         verdict <- [i \in Ids \ TimingOut |-> VerdictOf(store[i])],
         effect <- [i \in Ids \ TimingOut |-> effects[i]]

\* The code implements the contract for every candidate whose tool does not act
\* after it has been reported failed, whatever the others do (with claim()).
ImplementsContract == Contract!Spec
=============================================================================
