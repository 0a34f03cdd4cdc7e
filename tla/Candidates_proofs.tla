-------------------------- MODULE Candidates_proofs --------------------------
(***************************************************************************)
(* Proofs about Candidates.tla, for any number of candidates, executors,   *)
(* edits and attempts.  One lemma per part of the inductive invariant says *)
(* that a step preserves the part; THEOREM Invariant puts them together.   *)
(***************************************************************************)
EXTENDS Candidates, TLAPS

\* Whatever a record is rewritten to by the store's operations is a record.
LEMMA RecordTypes ==
    ASSUME NEW c \in Candidate
    PROVE  /\ \A s \in CandidateStatus, edit \in Edits \cup {NoEdit} :
                 Resolved(c, s, edit) \in Candidate
           /\ c.status \in Runnable => Claimed(c) \in Candidate
           /\ [c EXCEPT !.status = "pending_review"] \in Candidate
           /\ Absent \in Candidate
           /\ EffectivePayload(c) \in Edits \cup {Draft}
<1>1. \A s \in CandidateStatus, edit \in Edits \cup {NoEdit} : Resolved(c, s, edit) \in Candidate
  BY DEF Resolved, Candidate
<1>2. c.status \in Runnable => Claimed(c) \in Candidate
  <2> SUFFICES ASSUME c.status \in Runnable PROVE Claimed(c) \in Candidate
    OBVIOUS
  <2>1. c.attempts + 1 \in Nat /\ "executing" \in CandidateStatus
    BY DEF Candidate, CandidateStatus
  <2> QED
    BY <2>1 DEF Claimed, Candidate
<1>3. [c EXCEPT !.status = "pending_review"] \in Candidate
  BY DEF Candidate, CandidateStatus
<1>4. Absent \in Candidate
  BY DEF Absent, Candidate
<1>5. EffectivePayload(c) \in Edits \cup {Draft}
  BY DEF EffectivePayload, Candidate
<1> QED
  BY <1>1, <1>2, <1>3, <1>4, <1>5

\* store.resolve rewrites one record and leaves its attempts alone.
LEMMA ResolveFrame ==
    ASSUME TypeOK, NEW i \in Ids, NEW s \in CandidateStatus, NEW edit \in Edits \cup {NoEdit},
           store' = [store EXCEPT ![i] = Resolved(store[i], s, edit)]
    PROVE  /\ \A j \in Ids : store'[j].attempts = store[j].attempts
           /\ \A j \in Ids \ {i} : store'[j] = store[j]
           /\ store'[i].status = s
           /\ edit # NoEdit => store'[i].revisedPayload = edit
           /\ edit = NoEdit => store'[i].revisedPayload = store[i].revisedPayload
<1>1. store[i] \in Candidate /\ store'[i] = Resolved(store[i], s, edit)
  BY DEF TypeOK
<1>2. /\ Resolved(store[i], s, edit).attempts = store[i].attempts
      /\ Resolved(store[i], s, edit).status = s
      /\ edit # NoEdit => Resolved(store[i], s, edit).revisedPayload = edit
      /\ edit = NoEdit => Resolved(store[i], s, edit).revisedPayload = store[i].revisedPayload
  BY <1>1 DEF Resolved, Candidate
<1>3. \A j \in Ids \ {i} : store'[j] = store[j]
  BY DEF TypeOK
<1> QED
  BY <1>1, <1>2, <1>3

\* A step keeps the state well typed.
LEMMA TypeStep == IInv /\ [Next]_vars => TypeOK'
<1> SUFFICES ASSUME IInv, [Next]_vars PROVE TypeOK'
  OBVIOUS
<1> USE CandidatesAssumption
<1>0. TypeOK /\ ClaimStands
  BY DEF IInv
<1>1. ASSUME NEW i \in Ids, Submit(i) PROVE TypeOK'
  <2>1. [store[i] EXCEPT !.status = "pending_review"] \in Candidate
    BY <1>0, RecordTypes DEF TypeOK
  <2>2. store' = [store EXCEPT ![i] = [store[i] EXCEPT !.status = "pending_review"]]
    BY <1>1 DEF Submit
  <2> QED
    BY <1>0, <1>1, <2>1, <2>2 DEF Submit, TypeOK
<1>2. ASSUME NEW i \in Ids, Review(i) PROVE TypeOK'
  <2>1. \A s \in CandidateStatus, edit \in Edits \cup {NoEdit} :
            Resolved(store[i], s, edit) \in Candidate
    BY <1>0, RecordTypes DEF TypeOK
  <2>2. PICK s \in CandidateStatus, edit \in Edits \cup {NoEdit} :
            store' = [store EXCEPT ![i] = Resolved(store[i], s, edit)]
    <3>1. {"approved", "rejected", "revised"} \subseteq CandidateStatus
      BY DEF CandidateStatus
    <3> QED
      BY <1>2, <3>1 DEF Review
  <2> QED
    BY <1>0, <1>2, <2>1, <2>2 DEF Review, TypeOK
<1>3. ASSUME NEW e \in Executors, NEW i \in Ids, ExecGet(e, i) PROVE TypeOK'
  BY <1>0, <1>3 DEF ExecGet, TypeOK
<1>4. ASSUME NEW e \in Executors, ExecClaim(e) PROVE TypeOK'
  <2>1. target[e] \in Ids /\ store[target[e]] \in Candidate
    BY <1>0, <1>4 DEF ExecClaim, TypeOK
  <2>2. Claimed(store[target[e]]) \in Candidate
    BY <1>4, <2>1, RecordTypes DEF ExecClaim
  <2> QED
    BY <1>0, <1>4, <2>1, <2>2 DEF ExecClaim, TypeOK
<1>5. ASSUME NEW e \in Executors, ExecDenied(e) PROVE TypeOK'
  BY <1>0, <1>5, RecordTypes DEF ExecDenied, Idle, TypeOK
<1>6. ASSUME NEW e \in Executors, ExecRun(e) PROVE TypeOK'
  <2>1. EffectivePayload(held[e]) \in Edits \cup {Draft}
    BY <1>0, RecordTypes DEF TypeOK
  <2>2. target[e] \in Ids /\ effects[target[e]] \in Seq(Edits \cup {Draft})
    BY <1>0, <1>6 DEF ExecRun, TypeOK
  <2>3. Append(effects[target[e]], EffectivePayload(held[e])) \in Seq(Edits \cup {Draft})
    BY <2>1, <2>2
  <2>4. effects' \in [Ids -> Seq(Edits \cup {Draft})]
    BY <1>0, <1>6, <2>3 DEF ExecRun, TypeOK
  <2>5. ok' \in [Executors -> BOOLEAN]
    BY <1>0, <1>6 DEF ExecRun, TypeOK
  <2> QED
    BY <1>0, <1>6, <2>4, <2>5 DEF ExecRun, TypeOK
<1>7. ASSUME NEW e \in Executors, ExecSettle(e) PROVE TypeOK'
  <2>1. target[e] \in Ids /\ held[e] \in Candidate /\ store[target[e]] \in Candidate
    BY <1>0, <1>7 DEF ExecSettle, TypeOK
  <2>2. \A s \in CandidateStatus : Resolved(store[target[e]], s, NoEdit) \in Candidate
    BY <2>1, RecordTypes
  <2>3. CanClaim => Released(held[e]) \in CandidateStatus
    BY <1>0, <1>7 DEF ExecSettle, ClaimStands, Released, CandidateStatus, Runnable
  <2>4. store' \in [Ids -> Candidate]
    BY <1>0, <1>7, <2>1, <2>2, <2>3 DEF ExecSettle, CandidateStatus, TypeOK
  <2> QED
    BY <1>0, <1>7, <2>4, RecordTypes DEF ExecSettle, Idle, TypeOK
<1>8. ASSUME NEW e \in Executors, Abandon(e) PROVE TypeOK'
  BY <1>0, <1>8, RecordTypes DEF Abandon, Idle, TypeOK
<1>9. CASE UNCHANGED vars
  BY <1>0, <1>9 DEF vars, TypeOK
<1> QED
  BY <1>1, <1>2, <1>3, <1>4, <1>5, <1>6, <1>7, <1>8, <1>9 DEF Next, Execute

\* A step keeps owners apart, and their claims standing.
LEMMA OwnerStep == IInv /\ [Next]_vars => OneOwner' /\ ClaimStands'
<1> SUFFICES ASSUME IInv, [Next]_vars, CanClaim
             PROVE  /\ \A i \in Ids, e1, e2 \in Executors :
                          Owns(e1, i)' /\ Owns(e2, i)' => e1 = e2
                    /\ \A e \in Executors : pc'[e] \in {"run", "settle"} =>
                          /\ store'[target'[e]] = held'[e]
                          /\ held'[e].status = "executing"
                          /\ held'[e].claimedFrom \in Runnable
  BY DEF OneOwner, ClaimStands
<1> USE CandidatesAssumption DEF Owns
<1>0. TypeOK /\ OneOwner /\ ClaimStands
  BY DEF IInv
<1>a. \A e \in Executors : pc[e] \in {"run", "settle"} =>
        /\ target[e] \in Ids
        /\ store[target[e]].status = "executing"
  BY <1>0 DEF TypeOK, ClaimStands
<1>1. ASSUME NEW i \in Ids, Submit(i) PROVE OneOwner' /\ ClaimStands'
  BY <1>0, <1>1, <1>a DEF Submit, TypeOK, OneOwner, ClaimStands
<1>2. ASSUME NEW i \in Ids, Review(i) PROVE OneOwner' /\ ClaimStands'
  <2>1. \A j \in Ids \ {i} : store'[j] = store[j]
    BY <1>0, <1>2 DEF Review, TypeOK
  <2>2. \A e \in Executors : pc[e] \in {"run", "settle"} => target[e] # i
    BY <1>2, <1>a DEF Review
  <2> QED
    BY <1>0, <1>2, <1>a, <2>1, <2>2 DEF Review, OneOwner, ClaimStands
<1>3. ASSUME NEW e \in Executors, NEW i \in Ids, ExecGet(e, i) PROVE OneOwner' /\ ClaimStands'
  BY <1>0, <1>3 DEF ExecGet, TypeOK, OneOwner, ClaimStands
<1>4. ASSUME NEW e \in Executors, ExecClaim(e) PROVE OneOwner' /\ ClaimStands'
  <2>1. target[e] \in Ids /\ store[target[e]].status \in Runnable
    BY <1>0, <1>4 DEF ExecClaim, TypeOK
  <2>2. \A x \in Executors : pc[x] \in {"run", "settle"} => target[x] # target[e]
    BY <1>a, <2>1 DEF Runnable
  <2>3. /\ Claimed(store[target[e]]).status = "executing"
        /\ Claimed(store[target[e]]).claimedFrom \in Runnable
    BY <1>0, <2>1 DEF Claimed, TypeOK, Candidate
  <2> QED
    BY <1>0, <1>4, <2>1, <2>2, <2>3 DEF ExecClaim, TypeOK, OneOwner, ClaimStands
<1>5. ASSUME NEW e \in Executors, ExecDenied(e) PROVE OneOwner' /\ ClaimStands'
  BY <1>0, <1>5 DEF ExecDenied, Idle, TypeOK, OneOwner, ClaimStands
<1>6. ASSUME NEW e \in Executors, ExecRun(e) PROVE OneOwner' /\ ClaimStands'
  BY <1>0, <1>6 DEF ExecRun, TypeOK, OneOwner, ClaimStands
<1>7. ASSUME NEW e \in Executors, ExecSettle(e) PROVE OneOwner' /\ ClaimStands'
  <2>1. \A x \in Executors : x # e /\ pc[x] \in {"run", "settle"} => target[x] # target[e]
    BY <1>0, <1>7, <1>a DEF ExecSettle, OneOwner
  <2>2. \A j \in Ids \ {target[e]} : store'[j] = store[j]
    BY <1>0, <1>7 DEF ExecSettle, TypeOK
  <2> QED
    BY <1>0, <1>7, <1>a, <2>1, <2>2 DEF ExecSettle, Idle, TypeOK, OneOwner, ClaimStands
<1>8. ASSUME NEW e \in Executors, Abandon(e) PROVE OneOwner' /\ ClaimStands'
  BY <1>0, <1>8 DEF Abandon, Idle, TypeOK, OneOwner, ClaimStands
<1>9. CASE UNCHANGED vars
  BY <1>0, <1>9 DEF vars, OneOwner, ClaimStands
<1> QED
  BY <1>1, <1>2, <1>3, <1>4, <1>5, <1>6, <1>7, <1>8, <1>9
  DEF Next, Execute, OneOwner, ClaimStands

\* A step keeps the attempts within the limit and the effects within the attempts.
LEMMA RetryStep == IInv /\ [Next]_vars => BoundedRetry' /\ AttemptsLeft'
<1> SUFFICES ASSUME IInv, [Next]_vars, CanClaim PROVE BoundedRetry' /\ AttemptsLeft'
  BY DEF BoundedRetry, AttemptsLeft
<1> USE CandidatesAssumption DEF BoundedRetry, AttemptsLeft
<1>0. /\ TypeOK /\ OneOwner /\ ClaimStands /\ BoundedRetry /\ AttemptsLeft
      /\ \A i \in Ids : store[i] \in Candidate /\ store[i].attempts \in Nat /\ Len(effects[i]) \in Nat
      /\ \A e \in Executors : pc[e] # "idle" => target[e] \in Ids
  BY DEF IInv, TypeOK, Candidate
<1>1. ASSUME NEW i \in Ids, Submit(i) PROVE BoundedRetry' /\ AttemptsLeft'
  <2>1. \A j \in Ids : store'[j].attempts = store[j].attempts
    BY <1>0, <1>1 DEF Submit, TypeOK, Candidate
  <2>2. \A j \in Ids \ {i} : store'[j] = store[j]
    BY <1>0, <1>1 DEF Submit, TypeOK
  <2>3. store[i].attempts < MaxAttempts
    BY <1>0, <1>1 DEF Submit
  <2> QED
    BY <1>0, <1>1, <2>1, <2>2, <2>3 DEF Submit
<1>2. ASSUME NEW i \in Ids, Review(i) PROVE BoundedRetry' /\ AttemptsLeft'
  <2>1. /\ \A j \in Ids : store'[j].attempts = store[j].attempts
        /\ \A j \in Ids \ {i} : store'[j] = store[j]
    <3>1. PICK s \in CandidateStatus, edit \in Edits \cup {NoEdit} :
            store' = [store EXCEPT ![i] = Resolved(store[i], s, edit)]
      BY <1>2 DEF Review, CandidateStatus
    <3> QED
      BY <1>0, <3>1, ResolveFrame
  <2>3. store[i].attempts < MaxAttempts
    BY <1>0, <1>2 DEF Review
  <2> QED
    BY <1>0, <1>2, <2>1, <2>3 DEF Review
<1>3. ASSUME NEW e \in Executors, NEW i \in Ids, ExecGet(e, i) PROVE BoundedRetry' /\ AttemptsLeft'
  BY <1>0, <1>3 DEF ExecGet, TypeOK
<1>4. ASSUME NEW e \in Executors, ExecClaim(e) PROVE BoundedRetry' /\ AttemptsLeft'
  <2>1. target[e] \in Ids /\ store[target[e]].status \in Runnable
    BY <1>0, <1>4 DEF ExecClaim
  <2>2. /\ store'[target[e]].attempts = store[target[e]].attempts + 1
        /\ store'[target[e]].status = "executing"
    BY <1>0, <1>4, <2>1 DEF ExecClaim, Claimed, TypeOK, Candidate
  <2>3. \A j \in Ids \ {target[e]} : store'[j] = store[j]
    BY <1>0, <1>4 DEF ExecClaim, TypeOK
  <2>4. store[target[e]].attempts + 1 <= MaxAttempts
    BY <1>0, <2>1
  <2>5. \A x \in Executors \ {e} : pc'[x] = pc[x] /\ target'[x] = target[x]
    BY <1>0, <1>4 DEF ExecClaim, TypeOK
  <2>6. BoundedRetry'
    BY <1>0, <1>4, <2>1, <2>2, <2>3, <2>4 DEF ExecClaim
  <2>7. \A i \in Ids : store'[i].status \in Runnable \cup {"absent", "pending_review"} =>
            store'[i].attempts < MaxAttempts
    BY <1>0, <2>2, <2>3 DEF Runnable
  <2>8. \A x \in Executors : pc'[x] = "run" => Len(effects'[target'[x]]) < store'[target'[x]].attempts
    BY <1>0, <1>4, <2>1, <2>2, <2>3, <2>5 DEF ExecClaim, TypeOK
  <2> QED
    BY <2>6, <2>7, <2>8
<1>5. ASSUME NEW e \in Executors, ExecDenied(e) PROVE BoundedRetry' /\ AttemptsLeft'
  BY <1>0, <1>5 DEF ExecDenied, Idle, TypeOK
<1>6. ASSUME NEW e \in Executors, ExecRun(e) PROVE BoundedRetry' /\ AttemptsLeft'
  <2>1. /\ target[e] \in Ids
        /\ Len(effects[target[e]]) < store[target[e]].attempts
    BY <1>0, <1>6 DEF ExecRun
  <2>2. Len(effects'[target[e]]) \in {Len(effects[target[e]]), Len(effects[target[e]]) + 1}
    BY <1>0, <1>6, <2>1 DEF ExecRun, TypeOK
  <2>3. \A j \in Ids \ {target[e]} : effects'[j] = effects[j]
    BY <1>0, <1>6 DEF ExecRun, TypeOK
  <2>4. \A x \in Executors : pc'[x] = "run" => pc[x] = "run" /\ x # e /\ target[x] # target[e]
    BY <1>0, <1>6 DEF ExecRun, TypeOK, OneOwner, Owns
  <2>5. \A i \in Ids : Len(effects'[i]) <= store[i].attempts
    BY <1>0, <2>1, <2>2, <2>3
  <2> QED
    BY <1>0, <1>6, <2>3, <2>4, <2>5 DEF ExecRun
<1>7. ASSUME NEW e \in Executors, ExecSettle(e) PROVE BoundedRetry' /\ AttemptsLeft'
  <2>1. target[e] \in Ids /\ store[target[e]] = held[e]
    BY <1>0, <1>7 DEF ExecSettle, ClaimStands
  <2>2. \A j \in Ids : store'[j].attempts = store[j].attempts
    <3>1. CASE store' = store
      BY <3>1
    <3>2. ASSUME NEW s \in CandidateStatus,
                 store' = [store EXCEPT ![target[e]] = Resolved(store[target[e]], s, NoEdit)]
          PROVE  \A j \in Ids : store'[j].attempts = store[j].attempts
      BY <1>0, <2>1, <3>2, ResolveFrame
    <3>3. CanClaim => Released(held[e]) \in CandidateStatus
      BY <1>0, <1>7 DEF ExecSettle, ClaimStands, Released, CandidateStatus, Runnable
    <3> QED
      BY <1>7, <3>1, <3>2, <3>3 DEF ExecSettle, CandidateStatus
  <2>3. \A j \in Ids \ {target[e]} : store'[j] = store[j]
    BY <1>0, <1>7 DEF ExecSettle, TypeOK
  <2>4. store'[target[e]].status \in Runnable \cup {"absent", "pending_review"} =>
            store[target[e]].attempts < MaxAttempts
    <3>1. CASE ok[e]
      BY <1>0, <1>7, <2>1, <3>1 DEF ExecSettle, Resolved, TypeOK, Candidate, Runnable
    <3>2. CASE ~ok[e]
      BY <1>0, <1>7, <2>1, <3>2 DEF ExecSettle, Resolved, Released, TypeOK, Candidate, Runnable
    <3> QED
      BY <3>1, <3>2
  <2> QED
    BY <1>0, <1>7, <2>2, <2>3, <2>4 DEF ExecSettle, Idle, TypeOK
<1>8. ASSUME NEW e \in Executors, Abandon(e) PROVE BoundedRetry' /\ AttemptsLeft'
  BY <1>0, <1>8 DEF Abandon, Idle, TypeOK
<1>9. CASE UNCHANGED vars
  BY <1>0, <1>9 DEF vars
<1> QED
  BY <1>1, <1>2, <1>3, <1>4, <1>5, <1>6, <1>7, <1>8, <1>9 DEF Next, Execute

\* A step never adds a second effect, nor reopens a candidate that had one.
LEMMA EffectStep == IInv /\ [Next]_vars => ExactlyOnce' /\ EffectIsFinal'
<1> SUFFICES ASSUME IInv, [Next]_vars, CanClaim
             PROVE  ExactlyOnce' /\ EffectIsFinal'
  BY DEF ExactlyOnce, EffectIsFinal
<1> USE CandidatesAssumption DEF Owns
<1>0. /\ TypeOK /\ OneOwner /\ ClaimStands
      /\ \A i \in Ids \ TimingOut : Len(effects[i]) <= 1
      /\ \A i \in Ids \ TimingOut : effects[i] # <<>> =>
            /\ store[i].status \in {"executing", "executed"}
            /\ \A e \in Executors : Owns(e, i) => pc[e] = "settle" /\ ok[e]
  BY DEF IInv, ExactlyOnce, EffectIsFinal
<1>1. ASSUME NEW i \in Ids, Submit(i) PROVE ExactlyOnce' /\ EffectIsFinal'
  <2>1. (i \notin TimingOut => effects[i] = <<>>) /\ \A j \in Ids \ {i} : store'[j] = store[j]
    BY <1>0, <1>1 DEF Submit, TypeOK
  <2> QED
    BY <1>0, <1>1, <2>1 DEF Submit, ExactlyOnce, EffectIsFinal
<1>2. ASSUME NEW i \in Ids, Review(i) PROVE ExactlyOnce' /\ EffectIsFinal'
  <2>1. (i \notin TimingOut => effects[i] = <<>>) /\ \A j \in Ids \ {i} : store'[j] = store[j]
    BY <1>0, <1>2 DEF Review, TypeOK
  <2> QED
    BY <1>0, <1>2, <2>1 DEF Review, ExactlyOnce, EffectIsFinal
<1>3. ASSUME NEW e \in Executors, NEW i \in Ids, ExecGet(e, i) PROVE ExactlyOnce' /\ EffectIsFinal'
  <2>1. \A j \in Ids, x \in Executors : Owns(x, j)' => Owns(x, j) /\ pc'[x] = pc[x] /\ ok'[x] = ok[x]
    BY <1>0, <1>3 DEF ExecGet, TypeOK
  <2> QED
    BY <1>0, <1>3, <2>1 DEF ExecGet, ExactlyOnce, EffectIsFinal
<1>4. ASSUME NEW e \in Executors, ExecClaim(e) PROVE ExactlyOnce' /\ EffectIsFinal'
  <2>1. target[e] \in Ids /\ (target[e] \notin TimingOut => effects[target[e]] = <<>>)
    BY <1>0, <1>4 DEF ExecClaim, TypeOK, Runnable
  <2>2. \A j \in Ids \ {target[e]} : store'[j] = store[j]
    BY <1>0, <1>4 DEF ExecClaim, TypeOK
  <2>3. \A j \in Ids \ {target[e]}, x \in Executors :
            Owns(x, j)' => Owns(x, j) /\ pc'[x] = pc[x] /\ ok'[x] = ok[x]
    BY <1>0, <1>4 DEF ExecClaim, TypeOK
  <2> QED
    BY <1>0, <1>4, <2>1, <2>2, <2>3 DEF ExecClaim, ExactlyOnce, EffectIsFinal
<1>5. ASSUME NEW e \in Executors, ExecDenied(e) PROVE ExactlyOnce' /\ EffectIsFinal'
  <2>1. \A j \in Ids, x \in Executors : Owns(x, j)' => Owns(x, j) /\ pc'[x] = pc[x] /\ ok'[x] = ok[x]
    BY <1>0, <1>5 DEF ExecDenied, Idle, TypeOK
  <2> QED
    BY <1>0, <1>5, <2>1 DEF ExecDenied, ExactlyOnce, EffectIsFinal
<1>6. ASSUME NEW e \in Executors, ExecRun(e) PROVE ExactlyOnce' /\ EffectIsFinal'
  <2>1. /\ target[e] \in Ids
        /\ target[e] \notin TimingOut => effects[target[e]] = <<>>
        /\ store[target[e]].status = "executing"
        /\ store' = store
    BY <1>0, <1>6 DEF ExecRun, TypeOK, ClaimStands
  <2>2. /\ \A j \in Ids \ {target[e]} : effects'[j] = effects[j]
        /\ \A x \in Executors \ {e} : pc'[x] = pc[x] /\ ok'[x] = ok[x] /\ target'[x] = target[x]
        /\ pc'[e] = "settle" /\ target'[e] = target[e]
    BY <1>0, <1>6 DEF ExecRun, TypeOK
  <2>3. \/ effects' = effects
        \/ /\ effects' = [effects EXCEPT ![target[e]] = Append(@, EffectivePayload(held[e]))]
           /\ ok' = [ok EXCEPT ![e] = TRUE]
        \/ target[e] \in TimingOut
    BY <1>6 DEF ExecRun
  <2>4. ASSUME target[e] \notin TimingOut
        PROVE  /\ effects'[target[e]] # <<>> => ok'[e]
               /\ Len(effects'[target[e]]) <= 1
    <3>1. CASE effects' = effects
      BY <2>1, <2>4, <3>1
    <3>2. CASE /\ effects' = [effects EXCEPT ![target[e]] = Append(@, EffectivePayload(held[e]))]
               /\ ok' = [ok EXCEPT ![e] = TRUE]
      <4>1. effects'[target[e]] = Append(<<>>, EffectivePayload(held[e])) /\ ok'[e]
        BY <1>0, <2>1, <2>4, <3>2 DEF TypeOK
      <4> QED
        BY <4>1
    <3> QED
      BY <2>3, <2>4, <3>1, <3>2
  <2>5. \A x \in Executors : Owns(x, target[e])' => x = e
    <3>1. Owns(e, target[e])
      BY <1>6 DEF ExecRun
    <3>2. \A x \in Executors \ {e} : Owns(x, target[e])' => Owns(x, target[e])
      BY <2>1, <2>2
    <3> QED
      BY <1>0, <2>1, <3>1, <3>2 DEF OneOwner
  <2>6. ExactlyOnce'
    BY <1>0, <2>2, <2>4 DEF ExactlyOnce
  <2>7. ASSUME NEW k \in Ids \ TimingOut, effects'[k] # <<>>
        PROVE  /\ store'[k].status \in {"executing", "executed"}
               /\ \A x \in Executors : Owns(x, k)' => pc'[x] = "settle" /\ ok'[x]
    <3>1. CASE k = target[e]
      BY <2>1, <2>2, <2>4, <2>5, <2>7, <3>1
    <3>2. CASE k # target[e]
      BY <1>0, <2>1, <2>2, <2>7, <3>2
    <3> QED
      BY <3>1, <3>2
  <2>8. EffectIsFinal'
    BY <2>7 DEF EffectIsFinal
  <2> QED
    BY <2>6, <2>8
<1>7. ASSUME NEW e \in Executors, ExecSettle(e) PROVE ExactlyOnce' /\ EffectIsFinal'
  <2>1. target[e] \in Ids /\ \A j \in Ids \ {target[e]} : store'[j] = store[j]
    BY <1>0, <1>7 DEF ExecSettle, TypeOK
  <2>2. \A j \in Ids, x \in Executors : Owns(x, j)' => Owns(x, j) /\ pc'[x] = pc[x] /\ ok'[x] = ok[x]
    BY <1>0, <1>7 DEF ExecSettle, Idle, TypeOK
  <2>3. target[e] \notin TimingOut /\ effects[target[e]] # <<>> =>
            store'[target[e]].status = "executed"
    BY <1>0, <1>7, <2>1 DEF ExecSettle, Resolved, TypeOK, Candidate
  <2> QED
    BY <1>0, <1>7, <2>1, <2>2, <2>3 DEF ExecSettle, ExactlyOnce, EffectIsFinal
<1>8. ASSUME NEW e \in Executors, Abandon(e) PROVE ExactlyOnce' /\ EffectIsFinal'
  <2>1. \A j \in Ids, x \in Executors : Owns(x, j)' => Owns(x, j) /\ pc'[x] = pc[x] /\ ok'[x] = ok[x]
    BY <1>0, <1>8 DEF Abandon, Idle, TypeOK
  <2> QED
    BY <1>0, <1>8, <2>1 DEF Abandon, ExactlyOnce, EffectIsFinal
<1>9. CASE UNCHANGED vars
  BY <1>0, <1>9 DEF vars, ExactlyOnce, EffectIsFinal
<1> QED
  BY <1>1, <1>2, <1>3, <1>4, <1>5, <1>6, <1>7, <1>8, <1>9 DEF Next, Execute

\* A step never lets an executor hold, or do, what the human did not decide.
LEMMA DecisionStep == IInv /\ [Next]_vars => HumanDecides' /\ EditIffRevised' /\ HeldAsDecided'
<1> SUFFICES ASSUME IInv, [Next]_vars
             PROVE  HumanDecides' /\ EditIffRevised' /\ HeldAsDecided'
  OBVIOUS
<1> USE CandidatesAssumption
<1>0. /\ TypeOK /\ ClaimStands /\ HumanDecides /\ EditIffRevised /\ HeldAsDecided
      /\ \A i \in Ids : store[i] \in Candidate
      /\ \A e \in Executors : pc[e] # "idle" => target[e] \in Ids
      /\ \A e \in Executors : held[e] \in Candidate
      /\ TypeOK'
  BY TypeStep DEF IInv, TypeOK
<1>1. ASSUME NEW i \in Ids, Submit(i) PROVE HumanDecides' /\ EditIffRevised' /\ HeldAsDecided'
  <2>1. /\ store[i].status = "absent" /\ store'[i].status = "pending_review"
        /\ store'[i].revisedPayload = store[i].revisedPayload
        /\ \A j \in Ids \ {i} : store'[j] = store[j]
    BY <1>0, <1>1 DEF Submit, TypeOK, Candidate
  <2>2. effects[i] = <<>> /\ \A e \in Executors : pc[e] # "idle" => target[e] # i
    BY <1>0, <1>1, <2>1 DEF HumanDecides, HeldAsDecided, TypeOK
  <2> QED
    BY <1>0, <1>1, <2>1, <2>2 DEF Submit, HumanDecides, EditIffRevised, HeldAsDecided
<1>2. ASSUME NEW i \in Ids, Review(i) PROVE HumanDecides' /\ EditIffRevised' /\ HeldAsDecided'
  <2>1. /\ store[i].status = "pending_review" /\ store[i].revisedPayload = NoEdit
        /\ \A j \in Ids \ {i} : store'[j] = store[j]
    BY <1>0, <1>2 DEF Review, TypeOK, HeldAsDecided
  <2>2. effects[i] = <<>> /\ \A e \in Executors : pc[e] # "idle" => target[e] # i
    BY <1>0, <1>2, <2>1 DEF HumanDecides, HeldAsDecided, TypeOK
  <2>3. \/ store'[i].status \in {"approved", "rejected"} /\ store'[i].revisedPayload = NoEdit
        \/ store'[i].status = "revised" /\ store'[i].revisedPayload \in Edits
    <3>1. PICK s \in CandidateStatus, edit \in Edits \cup {NoEdit} :
                /\ store' = [store EXCEPT ![i] = Resolved(store[i], s, edit)]
                /\ \/ s \in {"approved", "rejected"} /\ edit = NoEdit
                   \/ s = "revised" /\ edit \in Edits
      BY <1>2 DEF Review, CandidateStatus
    <3>2. TypeOK /\ store' = [store EXCEPT ![i] = Resolved(store[i], s, edit)]
      BY <1>0, <3>1
    <3>3. store'[i].status = s
      BY <3>2, ResolveFrame
    <3>4. store'[i] = Resolved(store[i], s, edit) /\ store[i] \in Candidate
      BY <3>2 DEF TypeOK
    <3>5. store'[i].revisedPayload = IF edit # NoEdit THEN edit ELSE store[i].revisedPayload
      BY <3>4 DEF Resolved, Candidate
    <3> QED
      BY <2>1, <3>1, <3>3, <3>5
  <2> QED
    BY <1>0, <1>2, <2>1, <2>2, <2>3 DEF Review, HumanDecides, EditIffRevised, HeldAsDecided
<1>3. ASSUME NEW e \in Executors, NEW i \in Ids, ExecGet(e, i)
      PROVE  HumanDecides' /\ EditIffRevised' /\ HeldAsDecided'
  <2>1. /\ store' = store /\ effects' = effects
        /\ held'[e] = store[i] /\ target'[e] = i /\ store[i].status \in Runnable
        /\ \A x \in Executors \ {e} : pc'[x] = pc[x] /\ target'[x] = target[x] /\ held'[x] = held[x]
    BY <1>0, <1>3 DEF ExecGet, TypeOK
  <2>2. CanClaim => \A x \in Executors : pc'[x] \in {"run", "settle"} => x # e /\ pc[x] = pc'[x]
    BY <1>0, <1>3 DEF ExecGet, TypeOK
  <2> QED
    BY <1>0, <2>1, <2>2 DEF HumanDecides, EditIffRevised, HeldAsDecided, Runnable
<1>4. ASSUME NEW e \in Executors, ExecClaim(e) PROVE HumanDecides' /\ EditIffRevised' /\ HeldAsDecided'
  <2>1. /\ target[e] \in Ids /\ store[target[e]].status \in Runnable
        /\ store'[target[e]] = Claimed(store[target[e]]) /\ held'[e] = Claimed(store[target[e]])
        /\ effects' = effects /\ target' = target
        /\ \A j \in Ids \ {target[e]} : store'[j] = store[j]
        /\ \A x \in Executors \ {e} : pc'[x] = pc[x] /\ held'[x] = held[x]
    BY <1>0, <1>4 DEF ExecClaim, TypeOK
  <2>2. /\ Claimed(store[target[e]]).status = "executing"
        /\ Claimed(store[target[e]]).claimedFrom = store[target[e]].status
        /\ Claimed(store[target[e]]).revisedPayload = store[target[e]].revisedPayload
    BY <1>0, <2>1 DEF Claimed, Candidate
  <2> QED
    BY <1>0, <1>4, <2>1, <2>2 DEF HumanDecides, EditIffRevised, HeldAsDecided, Runnable
<1>5. ASSUME NEW e \in Executors, ExecDenied(e) PROVE HumanDecides' /\ EditIffRevised' /\ HeldAsDecided'
  BY <1>0, <1>5 DEF ExecDenied, Idle, TypeOK, HumanDecides, EditIffRevised, HeldAsDecided
<1>6. ASSUME NEW e \in Executors, ExecRun(e) PROVE HumanDecides' /\ EditIffRevised' /\ HeldAsDecided'
  <2>1. /\ target[e] \in Ids /\ store' = store /\ held' = held /\ target' = target
        /\ store[target[e]].status \notin {"absent", "pending_review", "rejected"}
        /\ held[e].revisedPayload = store[target[e]].revisedPayload
        /\ \A x \in Executors : /\ pc'[x] # "idle" => pc[x] # "idle"
                               /\ pc'[x] \in {"run", "settle"} => pc[x] \in {"run", "settle"}
        /\ \A j \in Ids \ {target[e]} : effects'[j] = effects[j]
    BY <1>0, <1>6 DEF ExecRun, TypeOK, HeldAsDecided
  <2>2. effects'[target[e]] \in {effects[target[e]],
                                Append(effects[target[e]], EffectivePayload(held[e]))}
    BY <1>0, <1>6, <2>1 DEF ExecRun, TypeOK
  <2>3. EffectivePayload(held[e]) = IF store[target[e]].revisedPayload \in Edits
                                    THEN store[target[e]].revisedPayload ELSE Draft
    BY <1>0, <2>1 DEF EffectivePayload, Candidate
  <2>4. effects[target[e]] \in Seq(Edits \cup {Draft})
    BY <1>0, <2>1 DEF TypeOK
  <2>5. \A k \in DOMAIN effects'[target[e]] :
            effects'[target[e]][k] = IF store[target[e]].revisedPayload \in Edits
                                     THEN store[target[e]].revisedPayload ELSE Draft
    <3>1. CASE effects'[target[e]] = effects[target[e]]
      BY <1>0, <2>1, <3>1 DEF HumanDecides
    <3>2. CASE effects'[target[e]] = Append(effects[target[e]], EffectivePayload(held[e]))
      <4>1. \A k \in DOMAIN effects[target[e]] :
              effects[target[e]][k] = IF store[target[e]].revisedPayload \in Edits
                                      THEN store[target[e]].revisedPayload ELSE Draft
        BY <1>0, <2>1 DEF HumanDecides
      <4> QED
        BY <2>3, <2>4, <3>2, <4>1
    <3> QED
      BY <2>2, <3>1, <3>2
  <2>6. HumanDecides'
    BY <1>0, <2>1, <2>5 DEF HumanDecides
  <2>7. EditIffRevised'
    BY <1>0, <2>1 DEF EditIffRevised
  <2>8. HeldAsDecided'
    BY <1>0, <1>6, <2>1 DEF ExecRun, TypeOK, HeldAsDecided
  <2> QED
    BY <2>6, <2>7, <2>8
<1>7. ASSUME NEW e \in Executors, ExecSettle(e) PROVE HumanDecides' /\ EditIffRevised' /\ HeldAsDecided'
  <2>1. /\ target[e] \in Ids /\ effects' = effects
        /\ store[target[e]].status \notin {"absent", "pending_review", "rejected"}
        /\ \A x \in Executors : pc'[x] # "idle" =>
                pc'[x] = pc[x] /\ target'[x] = target[x] /\ held'[x] = held[x]
    BY <1>0, <1>7 DEF ExecSettle, Idle, TypeOK, HeldAsDecided
  <2>2. \/ store' = store
        \/ \E s \in CandidateStatus :
                /\ store' = [store EXCEPT ![target[e]] = Resolved(store[target[e]], s, NoEdit)]
                /\ \/ s \in {"executed", "failed"}
                   \/ CanClaim /\ s \in Runnable /\ s = held[e].claimedFrom
    <3>1. \/ store' = store
          \/ store' = [store EXCEPT ![target[e]] = Resolved(store[target[e]], "executed", NoEdit)]
          \/ /\ CanClaim
             /\ store' = [store EXCEPT ![target[e]] = Resolved(store[target[e]], Released(held[e]), NoEdit)]
      BY <1>7 DEF ExecSettle
    <3>2. CanClaim => /\ Released(held[e]) \in CandidateStatus
                      /\ \/ Released(held[e]) = "failed"
                         \/ /\ Released(held[e]) \in Runnable
                            /\ Released(held[e]) = held[e].claimedFrom
      BY <1>0, <1>7 DEF ExecSettle, ClaimStands, Released, CandidateStatus, Runnable
    <3> QED
      BY <3>1, <3>2 DEF CandidateStatus
  <2>3. CASE store' = store
    BY <1>0, <2>1, <2>3 DEF HumanDecides, EditIffRevised, HeldAsDecided
  <2>4. ASSUME NEW s \in CandidateStatus,
               store' = [store EXCEPT ![target[e]] = Resolved(store[target[e]], s, NoEdit)],
               s \in {"executed", "failed"} \/ (CanClaim /\ s \in Runnable /\ s = held[e].claimedFrom)
        PROVE  HumanDecides' /\ EditIffRevised' /\ HeldAsDecided'
    <3>1. /\ \A j \in Ids \ {target[e]} : store'[j] = store[j]
          /\ store'[target[e]].status = s
          /\ store'[target[e]].revisedPayload = store[target[e]].revisedPayload
      BY <1>0, <2>1, <2>4, ResolveFrame
    <3>2. /\ s = "approved" => store[target[e]].revisedPayload = NoEdit
          /\ s = "revised" => store[target[e]].revisedPayload \in Edits
      BY <1>0, <1>7, <2>4 DEF ExecSettle, HeldAsDecided
    <3>3. s \notin {"absent", "pending_review", "rejected"}
      BY <2>4 DEF Runnable
    <3> QED
      BY <1>0, <2>1, <3>1, <3>2, <3>3 DEF HumanDecides, EditIffRevised, HeldAsDecided
  <2> QED
    BY <2>2, <2>3, <2>4
<1>8. ASSUME NEW e \in Executors, Abandon(e) PROVE HumanDecides' /\ EditIffRevised' /\ HeldAsDecided'
  BY <1>0, <1>8 DEF Abandon, Idle, TypeOK, HumanDecides, EditIffRevised, HeldAsDecided
<1>9. CASE UNCHANGED vars
  BY <1>0, <1>9 DEF vars, HumanDecides, EditIffRevised, HeldAsDecided
<1> QED
  BY <1>1, <1>2, <1>3, <1>4, <1>5, <1>6, <1>7, <1>8, <1>9 DEF Next, Execute

\* The initial state satisfies the inductive invariant.
LEMMA InitInvariant == Init => IInv
<1> SUFFICES ASSUME Init PROVE IInv
  OBVIOUS
<1> USE CandidatesAssumption DEF Init
<1>1. TypeOK
  BY RecordTypes DEF TypeOK, Candidate, Absent
<1>2. OneOwner /\ ClaimStands /\ AttemptsLeft
  BY DEF OneOwner, Owns, ClaimStands, AttemptsLeft, Absent
<1>3. BoundedRetry /\ ExactlyOnce /\ EffectIsFinal
  BY DEF BoundedRetry, ExactlyOnce, EffectIsFinal, Absent
<1>4. HumanDecides /\ EditIffRevised /\ HeldAsDecided
  BY DEF HumanDecides, EditIffRevised, HeldAsDecided, Absent
<1> QED
  BY <1>1, <1>2, <1>3, <1>4 DEF IInv

\* The conjunction of all the invariants holds in every state of every
\* execution of the approval pipeline.
THEOREM Invariant == Spec => []IInv
<1>1. IInv /\ [Next]_vars => IInv'
  BY TypeStep, OwnerStep, RetryStep, EffectStep, DecisionStep DEF IInv
<1> QED
  BY InitInvariant, <1>1, PTL DEF Spec

\* Type correctness: no operation of the store or of an executor leaves the
\* records, the executors' locals or the effects ill formed.
THEOREM TypeCorrect == Spec => []TypeOK
<1>1. IInv => TypeOK
  BY DEF IInv
<1> QED
  BY <1>1, Invariant, PTL

\* The documented claim guarantee: two executeApproved() calls never have the
\* tool of one candidate in flight.
THEOREM ClaimIsExclusive == Spec => []OneOwner
<1>1. IInv => OneOwner
  BY DEF IInv
<1> QED
  BY <1>1, Invariant, PTL

\* With claim() a candidate's tool that does not act after it has been reported
\* failed changes the world at most once, whatever crashes, races and rejected
\* store calls the executors go through.
THEOREM AtMostOneEffect == Spec => []ExactlyOnce
<1>1. IInv => ExactlyOnce
  BY DEF IInv
<1> QED
  BY <1>1, Invariant, PTL

\* The effects of a candidate whose failed attempts may have acted are bounded
\* by its attempts, and those by the limit.
THEOREM RetryIsBounded == Spec => []BoundedRetry
<1>1. IInv => BoundedRetry
  BY DEF IInv
<1> QED
  BY <1>1, Invariant, PTL

\* Everything that ran was agreed to by the reviewer, with the reviewer's edit;
\* this needs neither claim() nor well-behaved tools.
THEOREM OnlyWhatWasDecided == Spec => [](HumanDecides /\ EditIffRevised)
<1>1. IInv => HumanDecides /\ EditIffRevised
  BY DEF IInv
<1> QED
  BY <1>1, Invariant, PTL

\* The only ways a record's status changes, with claim(): the diagram's arrows.
LEMMA StatusStep ==
    ASSUME CanClaim, IInv, [Next]_vars
    PROVE  LifecycleStep
<1> USE CandidatesAssumption DEF LifecycleStep, LifecycleArrows
<1>0. TypeOK /\ ClaimStands /\ \A i \in Ids : store[i] \in Candidate
  BY DEF IInv, TypeOK
<1>1. ASSUME NEW j \in Ids, Submit(j)
      PROVE  LifecycleStep
  BY <1>0, <1>1 DEF Submit, TypeOK, Candidate
<1>2. ASSUME NEW j \in Ids, Review(j)
      PROVE  LifecycleStep
  <2>1. PICK s \in CandidateStatus, edit \in Edits \cup {NoEdit} :
            /\ store' = [store EXCEPT ![j] = Resolved(store[j], s, edit)]
            /\ s \in Decisions
    BY <1>2 DEF Review, CandidateStatus, Decisions
  <2>2. TypeOK /\ store' = [store EXCEPT ![j] = Resolved(store[j], s, edit)]
    BY <1>0, <2>1
  <2>3. store'[j].status = s
    BY <2>2, ResolveFrame
  <2>4. \A i \in Ids \ {j} : store'[i] = store[i]
    BY <2>2, ResolveFrame
  <2> QED
    BY <1>2, <2>1, <2>3, <2>4 DEF Review, Decisions
<1>3. ASSUME NEW e \in Executors, ExecClaim(e)
      PROVE  LifecycleStep
  <2>1. target[e] \in Ids /\ store'[target[e]].status = "executing"
    BY <1>0, <1>3 DEF ExecClaim, Claimed, TypeOK, Candidate
  <2>2. \A i \in Ids \ {target[e]} : store'[i] = store[i]
    BY <1>0, <1>3 DEF ExecClaim, TypeOK
  <2> QED
    BY <1>3, <2>1, <2>2 DEF ExecClaim, Runnable
<1>4. ASSUME NEW e \in Executors, ExecSettle(e)
      PROVE  LifecycleStep
  <2>1. target[e] \in Ids /\ store[target[e]].status = "executing"
    BY <1>0, <1>4 DEF ExecSettle, TypeOK, ClaimStands
  <2>2. Released(held[e]) \in {"failed", "approved", "revised"}
    BY <1>0, <1>4 DEF ExecSettle, ClaimStands, Released, Runnable
  <2>3. PICK s \in {"executed", "failed", "approved", "revised"} :
            store' = [store EXCEPT ![target[e]] = Resolved(store[target[e]], s, NoEdit)]
    BY <1>4, <2>2 DEF ExecSettle
  <2>4. s \in CandidateStatus
    BY DEF CandidateStatus
  <2>5. store'[target[e]].status = s
    BY <1>0, <2>1, <2>3, <2>4, ResolveFrame
  <2>6. \A i \in Ids \ {target[e]} : store'[i] = store[i]
    BY <1>0, <2>1, <2>3 DEF TypeOK
  <2> QED
    BY <2>1, <2>5, <2>6
<1>5. CASE UNCHANGED store
  BY <1>5
<1> QED
  BY <1>1, <1>2, <1>3, <1>4, <1>5
  DEF Next, Execute, ExecGet, ExecDenied, ExecRun, Abandon, vars

\* An executed, rejected or failed candidate never moves again, and no
\* candidate is executed without having been claimed.
THEOREM LifecycleHolds ==
    ASSUME CanClaim
    PROVE  Spec => Lifecycle
<1>1. IInv /\ [Next]_vars => [LifecycleStep]_vars
  BY StatusStep
<1> QED
  BY <1>1, Invariant, PTL DEF Spec, Lifecycle

\* A step that leaves every verdict and every effect alone is a stutter of the
\* contract.
LEMMA ContractStutter ==
    ASSUME \A i \in Ids \ TimingOut :
              VerdictOf(store'[i]) = VerdictOf(store[i]) /\ effects'[i] = effects[i]
    PROVE  UNCHANGED Contract!vars
BY DEF Contract!vars

\* Every step of the code is a step of the contract: a review is a judgement, a
\* tool that acts performs the agreed payload, everything else is invisible.
LEMMA ContractStep ==
    ASSUME CanClaim, IInv, [Next]_vars
    PROVE  [Contract!Next]_(Contract!vars)
<1> USE CandidatesAssumption
<1>0. /\ TypeOK /\ ClaimStands /\ HumanDecides /\ HeldAsDecided /\ EffectIsFinal
      /\ \A i \in Ids : store[i] \in Candidate
      /\ \A e \in Executors : pc[e] # "idle" => target[e] \in Ids
  BY DEF IInv, TypeOK
<1>1. ASSUME NEW i \in Ids, Submit(i) PROVE UNCHANGED Contract!vars
  <2>1. /\ store[i].status = "absent" /\ store'[i].status = "pending_review"
        /\ \A j \in Ids \ {i} : store'[j] = store[j]
    BY <1>0, <1>1 DEF Submit, TypeOK, Candidate
  <2>2. \A j \in Ids : VerdictOf(store'[j]) = VerdictOf(store[j])
    BY <2>1 DEF VerdictOf
  <2> QED
    BY <1>1, <2>2, ContractStutter DEF Submit
<1>2. ASSUME NEW i \in Ids, Review(i)
      PROVE  UNCHANGED Contract!vars \/ \E j \in Ids \ TimingOut : Contract!Judge(j)
  <2>1. PICK s \in CandidateStatus, edit \in Edits \cup {NoEdit} :
            /\ store' = [store EXCEPT ![i] = Resolved(store[i], s, edit)]
            /\ s \in Decisions
    BY <1>2 DEF Review, CandidateStatus, Decisions
  <2>2. TypeOK /\ store' = [store EXCEPT ![i] = Resolved(store[i], s, edit)]
    BY <1>0, <2>1
  <2>3. store'[i].status = s
    BY <2>2, ResolveFrame
  <2>4. store'[i] \in Candidate /\ \A j \in Ids \ {i} : store'[j] = store[j]
    BY <2>2, RecordTypes DEF TypeOK
  <2>5. VerdictOf(store[i]) = "undecided"
    BY <1>2 DEF Review, VerdictOf
  <2>6. VerdictOf(store'[i]) \in Edits \cup {Draft} \cup {"refused"}
    <3>1. EffectivePayload(store'[i]) \in Edits \cup {Draft}
      BY <2>4, RecordTypes
    <3> QED
      BY <2>1, <2>3, <3>1 DEF VerdictOf, Decisions
  <2>7. CASE i \in TimingOut
    BY <1>2, <2>4, <2>7, ContractStutter DEF Review
  <2>8. CASE i \notin TimingOut
    <3>1. [j \in Ids \ TimingOut |-> VerdictOf(store'[j])] =
              [[j \in Ids \ TimingOut |-> VerdictOf(store[j])] EXCEPT ![i] = VerdictOf(store'[i])]
      BY <2>4
    <3> QED
      BY <1>2, <2>5, <2>6, <2>8, <3>1 DEF Contract!Judge, Review
  <2> QED
    BY <2>7, <2>8
<1>3. ASSUME NEW e \in Executors, ExecClaim(e) PROVE UNCHANGED Contract!vars
  <2>1. /\ target[e] \in Ids /\ store[target[e]].status \in Runnable
        /\ store'[target[e]] = Claimed(store[target[e]])
        /\ \A j \in Ids \ {target[e]} : store'[j] = store[j]
    BY <1>0, <1>3 DEF ExecClaim, TypeOK
  <2>2. /\ Claimed(store[target[e]]).status = "executing"
        /\ Claimed(store[target[e]]).revisedPayload = store[target[e]].revisedPayload
    BY <1>0, <2>1 DEF Claimed, Candidate
  <2>3. \A j \in Ids : VerdictOf(store'[j]) = VerdictOf(store[j])
    BY <2>1, <2>2 DEF VerdictOf, EffectivePayload, Runnable
  <2> QED
    BY <1>3, <2>3, ContractStutter DEF ExecClaim
<1>4. ASSUME NEW e \in Executors, ExecRun(e)
      PROVE  UNCHANGED Contract!vars \/ \E i \in Ids \ TimingOut : Contract!Perform(i)
  <2>1. /\ target[e] \in Ids
        /\ store[target[e]] = held[e] /\ held[e].status = "executing" /\ held[e] \in Candidate
        /\ store' = store
    BY <1>0, <1>4 DEF ExecRun, TypeOK, ClaimStands
  <2>2. VerdictOf(store[target[e]]) = EffectivePayload(held[e])
    BY <2>1 DEF VerdictOf
  <2>3. EffectivePayload(held[e]) \in Edits \cup {Draft}
    BY <2>1, RecordTypes
  <2>4. \/ effects' = effects
        \/ effects' = [effects EXCEPT ![target[e]] = Append(@, EffectivePayload(held[e]))]
    BY <1>4 DEF ExecRun
  <2>5. CASE effects' = effects
    BY <2>1, <2>5, ContractStutter
  <2>6. CASE target[e] \in TimingOut
    BY <1>0, <2>1, <2>4, <2>6, ContractStutter DEF TypeOK
  <2>7. CASE /\ target[e] \notin TimingOut
             /\ effects' = [effects EXCEPT ![target[e]] = Append(@, EffectivePayload(held[e]))]
    <3>1. effects[target[e]] = <<>>
      BY <1>0, <1>4, <2>1, <2>7 DEF ExecRun, EffectIsFinal, Owns
    <3>2. effects' = [effects EXCEPT ![target[e]] = <<EffectivePayload(held[e])>>]
      BY <1>0, <2>1, <2>7, <3>1 DEF TypeOK
    <3>3. [i \in Ids \ TimingOut |-> effects'[i]] =
              [[i \in Ids \ TimingOut |-> effects[i]] EXCEPT ![target[e]] = <<EffectivePayload(held[e])>>]
      BY <1>0, <2>1, <3>2 DEF TypeOK
    <3> QED
      BY <2>1, <2>2, <2>3, <2>7, <3>1, <3>3 DEF Contract!Perform
  <2> QED
    BY <2>4, <2>5, <2>6, <2>7
<1>5. ASSUME NEW e \in Executors, ExecSettle(e) PROVE UNCHANGED Contract!vars
  <2>1. /\ target[e] \in Ids /\ store[target[e]].status = "executing"
    BY <1>0, <1>5 DEF ExecSettle, TypeOK, ClaimStands
  <2>2. Released(held[e]) \in {"failed", "approved", "revised"}
    BY <1>0, <1>5 DEF ExecSettle, ClaimStands, Released, Runnable
  <2>3. PICK s \in {"executed", "failed", "approved", "revised"} :
            store' = [store EXCEPT ![target[e]] = Resolved(store[target[e]], s, NoEdit)]
    BY <1>5, <2>2 DEF ExecSettle
  <2>4. /\ store'[target[e]].status = s
        /\ store'[target[e]].revisedPayload = store[target[e]].revisedPayload
        /\ \A j \in Ids \ {target[e]} : store'[j] = store[j]
    <3>1. s \in CandidateStatus
      BY DEF CandidateStatus
    <3> QED
      BY <1>0, <2>1, <2>3, <3>1, ResolveFrame
  <2>5. \A j \in Ids : VerdictOf(store'[j]) = VerdictOf(store[j])
    BY <2>1, <2>4 DEF VerdictOf, EffectivePayload
  <2> QED
    BY <1>5, <2>5, ContractStutter DEF ExecSettle
<1>6. CASE UNCHANGED <<store, effects>>
  BY <1>6, ContractStutter
<1>7. \/ \E i \in Ids : Submit(i) \/ Review(i)
      \/ \E e \in Executors : ExecClaim(e) \/ ExecRun(e) \/ ExecSettle(e)
      \/ UNCHANGED <<store, effects>>
  BY DEF Next, Execute, ExecGet, ExecDenied, Abandon, vars
<1> QED
  BY <1>1, <1>2, <1>3, <1>4, <1>5, <1>6, <1>7 DEF Contract!Next

\* With claim() the pipeline implements the contract of ReviewedEffect, for the
\* candidates whose tool does not act after it has been reported failed.
THEOREM Implements ==
    ASSUME CanClaim
    PROVE  Spec => ImplementsContract
<1>1. Init => Contract!Init
  BY DEF Init, Contract!Init, VerdictOf, Absent
<1>2. IInv /\ [Next]_vars => [Contract!Next]_(Contract!vars)
  BY ContractStep
<1> QED
  BY <1>1, <1>2, Invariant, PTL DEF Spec, ImplementsContract, Contract!Spec
=============================================================================
