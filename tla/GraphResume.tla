---------------------------- MODULE GraphResume ----------------------------
(***************************************************************************)
(* One driver of one thread, who calls invoke(), edits the paused state    *)
(* with updateState() and calls invoke() again, one thing at a time, until *)
(* the run completes.  Under such a driver the pauses are invisible: what  *)
(* the calls do together is a single walk of the graph (GraphWalk).        *)
(***************************************************************************)
EXTENDS GraphEngine

CONSTANT Driver   \* the one call slot in use

ASSUME DriverAssumption == Driver \in Calls

\* Nothing is in flight on the thread.
Quiet == run[Driver].pc = "idle" /\ \A u \in Edits : edit[u].pc # "loaded"

\* invoke() has completed a run paused after its last node: that checkpoint is
\* still there, and a driver who calls again has the same pause resumed again.
Completed == result[Driver] = "complete" /\ Interrupted(Latest)

SerialNext ==
    \/ Quiet /\ ~Completed /\ Invoke(Driver)
    \/ Advance(Driver)
    \/ \E u \in Edits : (Quiet /\ ~Completed /\ UpdateLoad(u)) \/ UpdateSave(u)

SerialSpec == Init /\ [][SerialNext]_vars
-----------------------------------------------------------------------------
\* Resumed at the step limit: the call returns without having run anything, and
\* the thread is still where it was paused.
Futile(r) ==
    /\ r.pc = "head"
    /\ r.stepCount >= MaxSteps
    /\ Interrupted(r.from)
    /\ r.from.stepCount = r.stepCount

At(phase, p) == [phase |-> phase, node |-> p.currentNode, state |-> p.state]

\* Where the walk is: with the call that is running, or else at the pause.
Position ==
    LET r == run[Driver] IN
    CASE Futile(r) -> At(r.from.interruptType, r.from)
      [] r.pc \in {"head", "node"} /\ ~Futile(r) -> At("before", r)
      [] r.pc \in {"save", "after", "route", "branches"} -> At("after", r)
      [] r.pc = "idle" /\ Interrupted(Latest) /\ ~Completed -> At(Latest.interruptType, Latest)
      [] OTHER -> At("start", NoCheckpoint)

Walk == INSTANCE GraphWalk
    WITH phase <- Position.phase, node <- Position.node, state <- Position.state

\* However a run is cut up by interrupts, resumes and edits, its calls visit the
\* nodes the edges lead to, none twice, none skipped, and lose no update.
PausesAreInvisible == Walk!Spec
=============================================================================
