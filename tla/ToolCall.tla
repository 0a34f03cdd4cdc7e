------------------------------- MODULE ToolCall -------------------------------
(***************************************************************************)
(* A tool call: ToolRegistry.execute (tools/tool-registry.ts) through the  *)
(* onion of the run's middleware (MiddlewareStack.buildToolCall), the      *)
(* checks, the authorization, and the race of the handler with its         *)
(* timeout; the handler of a tool that is gated by                         *)
(* HumanInTheLoopMiddleware is wrapped once more by every run of the agent.*)
(*                                                                         *)
(* The tool is a destructive one with a deadline.                          *)
(***************************************************************************)
EXTENDS Integers

CONSTANTS
    Calls,       \* calls of the tool
    Layers,      \* how many middleware wrap tool calls; layer 1 is outermost
    MaxGates     \* bound on the runs that begin, and so on the approval gates

VARIABLES
    gates,     \* how often the registered tool has been wrapped
    call,      \* each call: how far it is, in which layer, the gates it has still to pass
    said,      \* what policy, checkAccess, the approver and the humans at the gates said
    out,       \* the result on its way up
    effects,   \* how often the tool's own handler has acted
    late       \* the calls whose handler goes on behind a timeout

vars == <<gates, call, said, out, effects, late>>
-----------------------------------------------------------------------------
\* What a policy's lists say of the tool; "absent" is no policy at all.
Policies == {"absent", "empty", "ask", "allow", "allow_ask", "deny", "deny_allow"}

\* evaluatePolicy: deny before allow before ask; a destructive tool is asked
\* about under any policy that does not mention it.
EvaluatePolicy(policy) ==
    CASE policy \in {"deny", "deny_allow"} -> "deny"
      [] policy \in {"allow", "allow_ask", "absent"} -> "allow"
      [] OTHER -> "ask"

\* A caller with an approver but no policy is taken to have an empty one.
Effective(policy, hasApprover) == IF policy = "absent" /\ hasApprover THEN "empty" ELSE policy

\* Mutant: what the tool's own check wants to ask does not count when the policy allows.
AuthorizeLoosely(policy, access, hasApprover) ==
    LET first == EvaluatePolicy(Effective(policy, hasApprover))
    IN  IF first = "deny" \/ access \in {"deny", "throws"} THEN "deny" ELSE first

\* What a tool's own checkAccess answers, if it does not throw.
Accesses == {"allow", "ask", "blank", "deny", "throws"}

\* authorize: the tool's own check tightens what the policy says. What is pending
\* is kept as its reason, so a check that asks without giving one ("blank") takes
\* back even the policy's wish to ask.
Authorize(policy, access, hasApprover) ==
    LET first == EvaluatePolicy(Effective(policy, hasApprover))
    IN  CASE first = "deny" \/ access \in {"deny", "throws"} -> "deny"
          [] first # "deny" /\ access \in {"allow", "ask"}   -> IF access = "ask" THEN "ask" ELSE first
          [] first # "deny" /\ access = "blank"              -> "allow"

Init ==
    /\ gates = 0
    /\ call = [c \in Calls |-> [at |-> "idle", level |-> 0, asks |-> 0]]
    /\ said = [c \in Calls |-> [policy |-> "absent", access |-> "allow", approver |-> "unasked",
                                human |-> "unasked", gates |-> 0]]
    /\ out = [c \in Calls |-> "none"]
    /\ effects = [c \in Calls |-> 0]
    /\ late = {}

\* beforeExecute() of a run replaces the tool by one that asks first, around
\* whatever is registered by then: the gates of earlier runs stay.
BeginRun ==
    /\ gates < MaxGates
    /\ gates' = gates + 1
    /\ UNCHANGED <<call, said, out, effects, late>>

\* execute() enters the outermost layer.
Execute(c) ==
    /\ call[c].at = "idle"
    /\ call' = [call EXCEPT ![c].at = "down", ![c].level = 1]
    /\ UNCHANGED <<gates, said, out, effects, late>>

\* The result goes up from the layer that is inside this one.
Rises(c, result) ==
    /\ out' = [out EXCEPT ![c] = result]
    /\ call' = [call EXCEPT ![c].at = "up", ![c].level = call[c].level - 1]

\* A layer calls next, or throws before it and is skipped.
Descend(c) ==
    /\ call[c].at = "down"
    /\ call' = [call EXCEPT ![c].level = call[c].level + 1,
                            ![c].at = IF call[c].level = Layers THEN "checks" ELSE "down"]
    /\ UNCHANGED <<gates, said, out, effects, late>>

\* A layer answers without calling next.
ShortCircuit(c) ==
    /\ call[c].at = "down"
    /\ Rises(c, "own")
    /\ UNCHANGED <<gates, said, effects, late>>

\* Mutant: nothing is memoised, so the layers inside run again.
AgainFromInside(c) ==
    [call EXCEPT ![c].at = IF call[c].level = Layers THEN "checks" ELSE "down",
                 ![c].level = call[c].level + 1]

\* once(): next(c) in the catch has the result it had.
Again(c) == [call EXCEPT ![c].level = call[c].level - 1]

\* A layer passes the result on, or throws although next has answered.
Ascend(c) ==
    /\ call[c].at = "up"
    /\ call[c].level > 0
    /\ call' = [call EXCEPT ![c].level = call[c].level - 1] \/ call' = Again(c)
    /\ UNCHANGED <<gates, said, out, effects, late>>

Return(c) ==
    /\ call[c].at = "up"
    /\ call[c].level = 0
    /\ call' = [call EXCEPT ![c].at = "done"]
    /\ UNCHANGED <<gates, said, out, effects, late>>

\* Unknown tool, unparseable or ill-typed arguments, or validate() says no or throws.
Invalid(c) ==
    /\ call[c].at = "checks"
    /\ Rises(c, "invalid")
    /\ UNCHANGED <<gates, said, effects, late>>

\* authorize(): to the handler, to the approver, or back.
Judge(c, policy, access, hasApprover) ==
    LET decision == Authorize(policy, access, hasApprover)
    IN  /\ call[c].at = "checks"
        /\ said' = [said EXCEPT ![c].policy = Effective(policy, hasApprover), ![c].access = access,
                                ![c].gates = gates]
        /\ CASE decision = "deny" -> Rises(c, "denied")
             [] decision = "ask" /\ ~hasApprover -> Rises(c, "denied")
             [] decision = "ask" /\ hasApprover ->
                    call' = [call EXCEPT ![c].at = "approval"] /\ UNCHANGED out
             [] decision = "allow" ->
                    call' = [call EXCEPT ![c].at = "handler", ![c].asks = gates] /\ UNCHANGED out
        /\ UNCHANGED <<gates, effects, late>>

\* onApprovalRequired() answers, or throws. Nothing limits how long it takes.
Approver(c, verdict) ==
    /\ call[c].at = "approval"
    /\ said' = [said EXCEPT ![c].approver = verdict]
    /\ IF verdict = "yes"
       THEN call' = [call EXCEPT ![c].at = "handler", ![c].asks = said[c].gates] /\ UNCHANGED out
       ELSE Rises(c, "denied")
    /\ UNCHANGED <<gates, effects, late>>

\* The handler, before its result counts or when it no longer does.
Going(c) == call[c].at = "handler" \/ c \in late

\* The handler settles: in time the result is the call's.
Settles(c, result) ==
    IF c \in late THEN late' = late \ {c} /\ UNCHANGED <<call, out>>
    ELSE Rises(c, result) /\ UNCHANGED late

\* Mutant: an answer that is not a rejection counts as an approval.
GoesOnUnless(verdict) == verdict # "reject"

GoesOn(verdict) == verdict \in {"approve", "edit"}

\* The gate that is outermost of those left asks its human.
Human(c, verdict) ==
    /\ Going(c)
    /\ call[c].asks > 0
    /\ said' = [said EXCEPT ![c].human =
           IF verdict \in {"reject", "throws", "unknown"} \/ said[c].human = "no" THEN "no" ELSE "yes"]
    /\ IF GoesOn(verdict)
       THEN call' = [call EXCEPT ![c].asks = call[c].asks - 1] /\ UNCHANGED <<out, late>>
       ELSE Settles(c, "error")
    /\ UNCHANGED <<gates, effects>>

\* The tool itself: it may fail before it has done anything, or after.
Act(c, acts, result) ==
    /\ Going(c)
    /\ call[c].asks = 0
    /\ result = "ok" => acts
    /\ effects' = [effects EXCEPT ![c] = effects[c] + IF acts THEN 1 ELSE 0]
    /\ Settles(c, result)
    /\ UNCHANGED <<gates, said>>

UnderDeadline(c) == call[c].at = "handler"

\* The deadline: the call has failed, whatever the handler still does. It counts
\* from the handler's start, and the gates of human-in-the-loop are part of that.
TimeOut(c) ==
    /\ UnderDeadline(c)
    /\ Rises(c, "timeout")
    /\ late' = late \cup {c}
    /\ UNCHANGED <<gates, said, effects>>

Layer(c) == Descend(c) \/ ShortCircuit(c) \/ Ascend(c) \/ Return(c)

Check(c) ==
    \/ Invalid(c)
    \/ \E policy \in Policies, access \in Accesses, hasApprover \in BOOLEAN :
           Judge(c, policy, access, hasApprover)

Asked(c) == \E verdict \in {"yes", "no", "throws"} : Approver(c, verdict)

Handler(c) ==
    \/ \E verdict \in {"approve", "edit", "reject", "throws", "unknown"} : Human(c, verdict)
    \/ \E acts \in BOOLEAN, result \in {"ok", "error"} : Act(c, acts, result)

Next == BeginRun \/ \E c \in Calls : Execute(c) \/ Layer(c) \/ Check(c) \/ Asked(c) \/ Handler(c) \/ TimeOut(c)

Spec == Init /\ [][Next]_vars
-----------------------------------------------------------------------------
\* A tool acts only if nobody whose word counts was against it, and all who had
\* to be asked were: whatever the middleware around the call does, however often
\* the tool has been wrapped, and also when it acts behind its deadline. A check
\* that asks without a reason is left out: the approver is not asked at all then
\* (NeverLoosened).
GatesHold == \A c \in Calls : effects[c] > 0 =>
    /\ said[c].policy \notin {"deny", "deny_allow"}
    /\ said[c].access \notin {"deny", "throws"}
    /\ said[c].access = "ask" => said[c].approver = "yes"
    /\ said[c].policy \in {"empty", "ask"} /\ said[c].access # "blank" => said[c].approver = "yes"
    /\ said[c].human = (IF said[c].gates > 0 THEN "yes" ELSE "unasked")

\* "A policy `ask` still lets the tool's own check tighten to a deny below, but
\* never loosens an ask back to allow": what the policy asks about acts only once
\* the approver has said yes, whatever the tool's own check says. The code's only
\* exception is a check that asks without a reason, for which this is not checked.
NeverLoosened == \A c \in Calls :
    effects[c] > 0 /\ said[c].policy \in {"empty", "ask"} => said[c].approver = "yes"

\* "The terminal runs at most once per call, whatever the wrapper does", and the
\* result tells the truth: success is one effect, a refusal is none; and only
\* behind a timeout can there be an effect the result does not know of.
OneEffect == \A c \in Calls :
    /\ effects[c] <= 1
    /\ out[c] = "ok" => effects[c] = 1
    /\ out[c] \in {"invalid", "denied", "own"} => effects[c] = 0
    /\ said[c].human = "no" => effects[c] = 0
    /\ c \in late => out[c] = "timeout"

\* "Even a tool that ignores it can't hang the loop past the deadline": a call
\* returns though no human ever answers at a gate; the approver has to.
CallsReturn == \A c \in Calls : call[c].at \notin {"idle", "approval"} ~> call[c].at \in {"approval", "done"}
=============================================================================
