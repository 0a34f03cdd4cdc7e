------------------------- MODULE GraphEngine_proofs -------------------------
(***************************************************************************)
(* Proofs about GraphEngine.tla, for any graph, any number of overlapping  *)
(* calls, any edits and crashes: the engine's state stays well typed, a    *)
(* gated node runs only on a resumed pause, as the pause saved it, and the *)
(* step count covers what has run; and about GraphResume.tla: to a driver  *)
(* who does one thing at a time the pauses are invisible.                  *)
(***************************************************************************)
EXTENDS GraphResume, DurableStep, Induction

\* Merging the updates of a node, an edit or a fan-out gives a state again.
LEMMA MergeTypes ==
    ASSUME NEW s \in State
    PROVE  /\ \A x \in Nodes \cup Edits : Merged(s, x) \in State
           /\ \A n \in Nodes, fulfilled \in SUBSET Nat : MergedBranches(s, n, fulfilled) \in State
           /\ Input \in State
<1> USE GraphAssumption
<1>1. \A x \in Nodes \cup Edits : Merged(s, x) \in State
  BY DEF Merged, State
<1>2. ASSUME NEW n \in Nodes, NEW fulfilled \in SUBSET Nat
      PROVE  MergedBranches(s, n, fulfilled) \in State
  <2>1. ASSUME NEW x \in Nodes \cup Edits
        PROVE  Cardinality({b \in Branches(n) : b \in fulfilled /\ Edge[n].branches[b] = x}) \in Nat
    <3>1. Edge[n].branches \in Seq(Nodes)
      OBVIOUS
    <3>2. Branches(n) = 1 .. Len(Edge[n].branches) /\ Len(Edge[n].branches) \in Nat
      BY <3>1 DEF Branches
    <3>3. IsFiniteSet(Branches(n))
      BY <3>2, FS_Interval
    <3>4. IsFiniteSet({b \in Branches(n) : b \in fulfilled /\ Edge[n].branches[b] = x})
      BY <3>3, FS_Subset
    <3> QED
      BY <3>4, FS_CardinalityType
  <2> QED
    BY <2>1 DEF MergedBranches, State
<1>3. Input \in State
  BY DEF Input, State
<1> QED
  BY <1>1, <1>2, <1>3

\* The idle record, and what a thread with no checkpoints loads, are well formed.
LEMMA RestTypes == NoCheckpoint \in Checkpoint /\ IdleRun \in Run
<1>1. Input \in State /\ EntryPoint \in Nodes
  BY GraphAssumption DEF Input, State
<1>2. NoCheckpoint \in Checkpoint
  BY <1>1 DEF NoCheckpoint, Checkpoint
<1> QED
  BY <1>1, <1>2 DEF IdleRun, Run

\* load() gives a well-formed checkpoint.
LEMMA LatestType == TypeOK => Latest \in Checkpoint
BY RestTypes DEF TypeOK, Latest

\* save() keeps the checkpoints well formed and within the thread's capacity.
LEMMA SaveType ==
    ASSUME TypeOK, NEW cp \in Checkpoint, Save(cp)
    PROVE  checkpoints' \in Seq(Checkpoint) /\ Len(checkpoints') <= MaxPerThread
<1> USE GraphAssumption
<1>1. checkpoints \in Seq(Checkpoint) /\ Len(checkpoints) \in Nat /\ MaxPerThread \in Nat
  BY DEF TypeOK
<1>2. CASE Len(checkpoints) < MaxPerThread
  BY <1>1, <1>2 DEF Save
<1>3. CASE ~(Len(checkpoints) < MaxPerThread)
  <2>1. Len(checkpoints) = MaxPerThread /\ checkpoints # <<>>
    BY <1>1, <1>3 DEF TypeOK
  <2>2. Tail(checkpoints) \in Seq(Checkpoint) /\ Len(Tail(checkpoints)) = Len(checkpoints) - 1
    BY <1>1, <2>1
  <2>3. checkpoints' = Append(Tail(checkpoints), cp)
    BY <1>3 DEF Save
  <2> QED
    BY <1>1, <2>1, <2>2, <2>3
<1> QED
  BY <1>2, <1>3

\* A checkpoint that has been saved is the latest.
LEMMA SavedLatest ==
    ASSUME TypeOK, NEW cp \in Checkpoint, Save(cp)
    PROVE  Latest' = cp /\ checkpoints'[Len(checkpoints')] = cp
<1>1. checkpoints \in Seq(Checkpoint) /\ MaxPerThread \in Nat \ {0} /\ Len(checkpoints) <= MaxPerThread
  BY GraphAssumption DEF TypeOK
<1>2. PICK s \in Seq(Checkpoint) : checkpoints' = Append(s, cp)
  <2>1. CASE Len(checkpoints) < MaxPerThread
    BY <1>1, <2>1 DEF Save
  <2>2. CASE ~(Len(checkpoints) < MaxPerThread)
    <3>1. checkpoints # <<>>
      BY <1>1, <2>2
    <3>2. Tail(checkpoints) \in Seq(Checkpoint)
      BY <1>1, <3>1
    <3> QED
      BY <2>2, <3>2 DEF Save
  <2> QED
    BY <2>1, <2>2
<1>3. Append(s, cp) # <<>> /\ Append(s, cp)[Len(Append(s, cp))] = cp
  OBVIOUS
<1> QED
  BY <1>2, <1>3 DEF Latest

\* Returning, and entering executeGraph, leave well-formed locals.
LEMMA CallTypes ==
    ASSUME TypeOK, NEW c \in Calls
    PROVE  /\ \A status \in {"complete", "interrupted", "max_steps", "crashed"} :
                 Return(c, status) =>
                    /\ run' \in [Calls -> Run]
                    /\ result' \in [Calls -> {"none", "complete", "interrupted", "max_steps", "crashed"}]
           /\ \A n \in Nodes, cp \in Checkpoint, skip \in BOOLEAN :
                 Start(c, n, cp, skip) =>
                    /\ run' \in [Calls -> Run]
                    /\ result' \in [Calls -> {"none", "complete", "interrupted", "max_steps", "crashed"}]
<1>1. ASSUME NEW status \in {"complete", "interrupted", "max_steps", "crashed"}, Return(c, status)
      PROVE  /\ run' \in [Calls -> Run]
             /\ result' \in [Calls -> {"none", "complete", "interrupted", "max_steps", "crashed"}]
  BY <1>1, RestTypes DEF Return, TypeOK
<1>2. ASSUME NEW n \in Nodes, NEW cp \in Checkpoint, NEW skip \in BOOLEAN, Start(c, n, cp, skip)
      PROVE  /\ run' \in [Calls -> Run]
             /\ result' \in [Calls -> {"none", "complete", "interrupted", "max_steps", "crashed"}]
  <2>1. [IdleRun EXCEPT !.pc = "head", !.currentNode = n, !.state = cp.state,
            !.stepCount = cp.stepCount, !.skip = skip, !.from = cp] \in Run
    BY RestTypes DEF Run, Checkpoint
  <2> QED
    BY <1>2, <2>1 DEF Start, TypeOK
<1> QED
  BY <1>1, <1>2

\* The locals of an active call give a well-formed checkpoint.
LEMMA MakeCheckpointType ==
    ASSUME TypeOK, NEW c \in Calls, NEW t \in {"none", "before", "after"}
    PROVE  MakeCheckpoint(run[c], t) \in Checkpoint
<1>1. run[c] \in Run
  BY DEF TypeOK
<1> QED
  BY <1>1 DEF MakeCheckpoint, Checkpoint, Run

\* resolveNextNode names a registered node or END.
LEMMA ResolveType == \A n \in Nodes : ResolveNextNode(n) \subseteq Nodes \cup {END}
BY GraphAssumption DEF ResolveNextNode

\* A step keeps the engine's state well typed.
LEMMA TypeStep == TypeOK /\ [Next]_vars => TypeOK'
<1> SUFFICES ASSUME TypeOK, [Next]_vars PROVE TypeOK'
  OBVIOUS
<1>0. /\ Latest \in Checkpoint
      /\ \A c \in Calls : run[c] \in Run
      /\ \A u \in Edits : edit[u] \in [pc : {"unused", "loaded", "done"}, base : Checkpoint]
  BY LatestType DEF TypeOK
<1>1. ASSUME NEW c \in Calls, InvokeFresh(c) PROVE TypeOK'
  <2>1. Start(c, EntryPoint, NoCheckpoint, FALSE) /\ EntryPoint \in Nodes
    BY <1>1, GraphAssumption DEF InvokeFresh
  <2> QED
    BY <1>1, <2>1, CallTypes, RestTypes DEF InvokeFresh, TypeOK
<1>2. ASSUME NEW c \in Calls, InvokeResume(c) PROVE TypeOK'
  <2>1. PICK n \in Nodes, skip \in BOOLEAN : Start(c, n, Latest, skip)
    BY <1>0, <1>2, ResolveType DEF InvokeResume, Checkpoint
  <2> QED
    BY <1>0, <1>2, <2>1, CallTypes DEF InvokeResume, TypeOK
<1>3. ASSUME NEW c \in Calls, InvokeComplete(c) PROVE TypeOK'
  BY <1>3, CallTypes DEF InvokeComplete, TypeOK
<1>4. ASSUME NEW c \in Calls, ExhaustSteps(c) PROVE TypeOK'
  BY <1>4, CallTypes DEF ExhaustSteps, TypeOK
<1>5. ASSUME NEW c \in Calls, PauseBefore(c) PROVE TypeOK'
  <2>1. MakeCheckpoint(run[c], "before") \in Checkpoint
    BY MakeCheckpointType
  <2>2. checkpoints' \in Seq(Checkpoint) /\ Len(checkpoints') <= MaxPerThread
    BY <1>5, <2>1, SaveType DEF PauseBefore
  <2> QED
    BY <1>5, <2>2, CallTypes DEF PauseBefore, TypeOK
<1>6. ASSUME NEW c \in Calls, StartNode(c) PROVE TypeOK'
  <2>1. [run[c] EXCEPT !.pc = "node", !.skip = FALSE] \in Run
    BY <1>0 DEF Run
  <2> QED
    BY <1>6, <2>1 DEF StartNode, TypeOK
<1>7. ASSUME NEW c \in Calls, FinishNode(c) PROVE TypeOK'
  <2>1. /\ run[c].state \in State /\ run[c].currentNode \in Nodes
        /\ Merged(run[c].state, run[c].currentNode) \in State
    BY <1>0, MergeTypes DEF Run
  <2>2. \A s \in State, k \in Nat :
            [run[c] EXCEPT !.pc = "save", !.state = s, !.stepCount = k] \in Run
    BY <1>0 DEF Run
  <2>3. run[c].stepCount + 1 \in Nat
    BY <1>0 DEF Run
  <2>4. PICK s \in State :
            run' = [run EXCEPT ![c] = [run[c] EXCEPT !.pc = "save", !.state = s,
                                                     !.stepCount = run[c].stepCount + 1]]
    BY <1>7, <2>1 DEF FinishNode
  <2>5. run' \in [Calls -> Run]
    BY <2>2, <2>3, <2>4 DEF TypeOK
  <2> QED
    BY <1>7, <2>5 DEF FinishNode, TypeOK
<1>8. ASSUME NEW c \in Calls, SaveStep(c) PROVE TypeOK'
  <2>1. checkpoints' \in Seq(Checkpoint) /\ Len(checkpoints') <= MaxPerThread
    BY <1>8, MakeCheckpointType, SaveType DEF SaveStep
  <2>2. \A pc \in {"after", "route"} : [run[c] EXCEPT !.pc = pc] \in Run
    BY <1>0 DEF Run
  <2> QED
    BY <1>8, <2>1, <2>2 DEF SaveStep, TypeOK
<1>9. ASSUME NEW c \in Calls, PauseAfter(c) PROVE TypeOK'
  <2>1. checkpoints' \in Seq(Checkpoint) /\ Len(checkpoints') <= MaxPerThread
    BY <1>9, MakeCheckpointType, SaveType DEF PauseAfter
  <2> QED
    BY <1>9, <2>1, CallTypes DEF PauseAfter, TypeOK
<1>10. ASSUME NEW c \in Calls, Route(c) PROVE TypeOK'
  <2>1. run[c].currentNode \in Nodes
    BY <1>0 DEF Run
  <2>2. PICK n \in Nodes \cup {END} :
            IF n = END THEN Return(c, "complete") ELSE Goto(c, n, run[c]) /\ result' = result
    BY <1>10, <2>1, ResolveType DEF Route
  <2>3. \A m \in Nodes : [run[c] EXCEPT !.pc = "head", !.currentNode = m] \in Run
    BY <1>0 DEF Run
  <2>4. CASE n = END
    BY <1>10, <2>2, <2>4, CallTypes DEF Route, TypeOK
  <2>5. CASE n # END
    BY <1>10, <2>2, <2>3, <2>5 DEF Route, Goto, TypeOK
  <2> QED
    BY <2>4, <2>5
<1>11. ASSUME NEW c \in Calls, Fork(c) PROVE TypeOK'
  <2>1. run[c].currentNode \in Nodes
    BY <1>0 DEF Run
  <2>2. Branches(run[c].currentNode) \in SUBSET Nat
    BY <2>1, GraphAssumption DEF Branches
  <2>3. [run[c] EXCEPT !.pc = "branches", !.fulfilled = {},
            !.pending = Branches(run[c].currentNode)] \in Run
    BY <1>0, <2>2 DEF Run
  <2> QED
    BY <1>11, <2>3 DEF Fork, TypeOK
<1>12. ASSUME NEW c \in Calls, NEW b \in run[c].pending, SettleBranch(c, b) PROVE TypeOK'
  <2>1. run[c].pending \ {b} \in SUBSET Nat /\ run[c].fulfilled \cup {b} \in SUBSET Nat
    BY <1>0 DEF Run
  <2>2. \A x, y \in SUBSET Nat : [run[c] EXCEPT !.pending = x, !.fulfilled = y] \in Run
    BY <1>0 DEF Run
  <2>3. run' \in [Calls -> Run]
    <3>1. PICK f \in SUBSET Nat :
            run' = [run EXCEPT ![c] = [run[c] EXCEPT !.pending = run[c].pending \ {b},
                                                     !.fulfilled = f]]
      BY <1>0, <1>12, <2>1 DEF SettleBranch, Run
    <3> QED
      BY <2>1, <2>2, <3>1 DEF TypeOK
  <2> QED
    BY <1>12, <2>3 DEF SettleBranch, TypeOK
<1>13. ASSUME NEW c \in Calls, JoinBranches(c) PROVE TypeOK'
  <2> DEFINE n == run[c].currentNode
             joined == Joined(run[c])
  <2>1. /\ n \in Nodes /\ run[c].state \in State /\ run[c].fulfilled \in SUBSET Nat
        /\ MergedBranches(run[c].state, n, run[c].fulfilled) \in State
    BY <1>0, MergeTypes DEF Run
  <2>2. Len(Edge[n].branches) \in Nat /\ Edge[n].then \in Nodes \cup {END}
    BY <2>1, GraphAssumption
  <2>3. joined \in Run
    <3>1. \A s \in State, k \in Nat :
            [run[c] EXCEPT !.state = s, !.stepCount = k, !.fulfilled = {}] \in Run
      BY <1>0 DEF Run
    <3>2. run[c].stepCount + Len(Edge[n].branches) \in Nat
      BY <1>0, <2>2 DEF Run
    <3> QED
      BY <2>1, <3>1, <3>2 DEF Joined
  <2>4. \A m \in Nodes : [joined EXCEPT !.pc = "head", !.currentNode = m] \in Run
    BY <2>3 DEF Run
  <2>5. CASE Edge[n].then = END
    BY <1>13, <2>5, CallTypes DEF JoinBranches, TypeOK
  <2>6. CASE Edge[n].then # END
    <3>1. /\ run' = [run EXCEPT ![c] = [joined EXCEPT !.pc = "head", !.currentNode = Edge[n].then]]
          /\ UNCHANGED <<checkpoints, result, edit, crashes>>
      BY <1>13, <2>6 DEF JoinBranches, Goto
    <3> HIDE DEF joined
    <3> QED
      BY <2>2, <2>4, <2>6, <3>1 DEF TypeOK
  <2> QED
    BY <2>5, <2>6
<1>14. ASSUME NEW c \in Calls, Crash(c) PROVE TypeOK'
  BY <1>14, CallTypes, GraphAssumption DEF Crash, TypeOK
<1>15. ASSUME NEW u \in Edits, UpdateLoad(u) PROVE TypeOK'
  BY <1>0, <1>15 DEF UpdateLoad, TypeOK
<1>16. ASSUME NEW u \in Edits, UpdateSave(u) PROVE TypeOK'
  <2>1. edit[u].base \in Checkpoint /\ edit[u].base.state \in State
    BY <1>0 DEF Checkpoint
  <2>2. Merged(edit[u].base.state, u) \in State
    BY <2>1, MergeTypes
  <2>3. [edit[u].base EXCEPT !.state = Merged(edit[u].base.state, u)] \in Checkpoint
    BY <2>1, <2>2 DEF Checkpoint
  <2>4. checkpoints' \in Seq(Checkpoint) /\ Len(checkpoints') <= MaxPerThread
    BY <1>16, <2>3, SaveType DEF UpdateSave
  <2> QED
    BY <1>16, <2>4, RestTypes DEF UpdateSave, TypeOK
<1>17. CASE UNCHANGED vars
  BY <1>17 DEF vars, TypeOK
<1> QED
  BY <1>1, <1>2, <1>3, <1>4, <1>5, <1>6, <1>7, <1>8, <1>9, <1>10, <1>11, <1>12, <1>13, <1>14,
     <1>15, <1>16, <1>17
  DEF Next, Invoke, Advance

\* A step of one call keeps the gate if it leaves that call's locals right.
LEMMA GateFrame ==
    ASSUME TypeOK, SkipIsFresh, GateHeld, NEW c \in Calls, NEW r,
           run' = [run EXCEPT ![c] = r],
           r.skip => r.pc = "head" /\ AtItsPause(r),
           r.pc = "node" /\ r.currentNode \in InterruptBefore => AtItsPause(r)
    PROVE  SkipIsFresh' /\ GateHeld'
<1>1. run'[c] = r /\ \A x \in Calls \ {c} : run'[x] = run[x]
  BY DEF TypeOK
<1>2. SkipIsFresh'
  BY <1>1 DEF SkipIsFresh, AtItsPause
<1>3. GateHeld'
  BY <1>1 DEF GateHeld, AtItsPause
<1> QED
  BY <1>2, <1>3

\* A step opens no gate: only a resumed pause may skip the check, and only once.
LEMMA GateStep == IInv /\ [Next]_vars => SkipIsFresh' /\ GateHeld'
<1> SUFFICES ASSUME IInv, [Next]_vars PROVE SkipIsFresh' /\ GateHeld'
  OBVIOUS
<1>0. /\ TypeOK /\ SkipIsFresh /\ GateHeld /\ Latest \in Checkpoint
      /\ \A c \in Calls : run[c] \in Run
      /\ \A c \in Calls : run[c].pc # "head" => ~run[c].skip
  BY LatestType DEF IInv, SkipIsFresh, TypeOK
<1>1. ASSUME NEW c \in Calls, NEW status, Return(c, status) PROVE SkipIsFresh' /\ GateHeld'
  <2>1. IdleRun.skip = FALSE /\ IdleRun.pc = "idle" /\ run' = [run EXCEPT ![c] = IdleRun]
    BY <1>1 DEF Return, IdleRun
  <2> QED
    BY <1>0, <2>1, GateFrame
<1>2. ASSUME NEW c \in Calls, NEW n \in Nodes, NEW cp \in Checkpoint, NEW skip \in BOOLEAN,
             Start(c, n, cp, skip),
             skip => cp.interruptType = "before" /\ cp.currentNode = n
      PROVE  SkipIsFresh' /\ GateHeld'
  <2> DEFINE r == [IdleRun EXCEPT !.pc = "head", !.currentNode = n, !.state = cp.state,
                      !.stepCount = cp.stepCount, !.skip = skip, !.from = cp]
  <2>1. /\ r.pc = "head" /\ r.skip = skip /\ r.from = cp /\ r.currentNode = n
        /\ r.state = cp.state /\ r.stepCount = cp.stepCount
    BY DEF IdleRun
  <2>2. run' = [run EXCEPT ![c] = r]
    BY <1>2 DEF Start
  <2> HIDE DEF r
  <2>3. r.skip => r.pc = "head" /\ AtItsPause(r)
    BY <1>2, <2>1 DEF AtItsPause
  <2> QED
    BY <1>0, <2>1, <2>2, <2>3, GateFrame
<1>3. ASSUME NEW c \in Calls, NEW n \in Nodes, NEW r, r.skip = FALSE, r \in Run, Goto(c, n, r)
      PROVE  SkipIsFresh' /\ GateHeld'
  <2>1. [r EXCEPT !.pc = "head", !.currentNode = n].skip = FALSE
    BY <1>3 DEF Run
  <2>2. [r EXCEPT !.pc = "head", !.currentNode = n].pc = "head"
    BY <1>3 DEF Run
  <2> QED
    BY <1>0, <1>3, <2>1, <2>2, GateFrame DEF Goto
<1>4. ASSUME NEW c \in Calls, InvokeFresh(c) PROVE SkipIsFresh' /\ GateHeld'
  <2>1. Start(c, EntryPoint, NoCheckpoint, FALSE) /\ EntryPoint \in Nodes
    BY <1>4, GraphAssumption DEF InvokeFresh
  <2> QED
    BY <1>2, <2>1, RestTypes
<1>5. ASSUME NEW c \in Calls, InvokeResume(c) PROVE SkipIsFresh' /\ GateHeld'
  <2>1. CASE Latest.interruptType = "before" /\ Start(c, Latest.currentNode, Latest, TRUE)
    BY <1>0, <1>2, <2>1 DEF Checkpoint
  <2>2. ASSUME NEW n \in Nodes, Start(c, n, Latest, FALSE) PROVE SkipIsFresh' /\ GateHeld'
    BY <1>0, <1>2, <2>2
  <2>3. Latest.currentNode \in Nodes
    BY <1>0 DEF Checkpoint
  <2> QED
    BY <1>5, <2>1, <2>2, <2>3, ResolveType DEF InvokeResume
<1>6. ASSUME NEW c \in Calls, StartNode(c) PROVE SkipIsFresh' /\ GateHeld'
  <2> DEFINE r == [run[c] EXCEPT !.pc = "node", !.skip = FALSE]
  <2>1. /\ r.skip = FALSE /\ r.currentNode = run[c].currentNode /\ r.from = run[c].from
        /\ r.state = run[c].state /\ r.stepCount = run[c].stepCount
    BY <1>0 DEF Run
  <2>2. run' = [run EXCEPT ![c] = r] /\ (run[c].currentNode \in InterruptBefore => run[c].skip)
    BY <1>6 DEF StartNode, Pauses
  <2> HIDE DEF r
  <2>3. r.currentNode \in InterruptBefore => AtItsPause(r)
    BY <1>0, <2>1, <2>2 DEF SkipIsFresh, AtItsPause
  <2> QED
    BY <1>0, <2>1, <2>2, <2>3, GateFrame
<1>7. ASSUME NEW c \in Calls, FinishNode(c) PROVE SkipIsFresh' /\ GateHeld'
  <2>1. PICK s : run' = [run EXCEPT ![c] = [run[c] EXCEPT !.pc = "save", !.state = s,
                                                          !.stepCount = run[c].stepCount + 1]]
    BY <1>7 DEF FinishNode
  <2> DEFINE r == [run[c] EXCEPT !.pc = "save", !.state = s, !.stepCount = run[c].stepCount + 1]
  <2>2. r.skip = FALSE /\ r.pc = "save"
    BY <1>0, <1>7 DEF FinishNode, Run
  <2> HIDE DEF r
  <2> QED
    BY <1>0, <2>1, <2>2, GateFrame DEF r
<1>8. ASSUME NEW c \in Calls, SaveStep(c) PROVE SkipIsFresh' /\ GateHeld'
  <2>1. PICK pc \in {"after", "route"} : run' = [run EXCEPT ![c] = [run[c] EXCEPT !.pc = pc]]
    BY <1>8 DEF SaveStep
  <2>2. [run[c] EXCEPT !.pc = pc].skip = FALSE /\ [run[c] EXCEPT !.pc = pc].pc # "node"
    BY <1>0, <1>8 DEF SaveStep, Run
  <2> QED
    BY <1>0, <2>1, <2>2, GateFrame
<1>9. ASSUME NEW c \in Calls, Route(c) PROVE SkipIsFresh' /\ GateHeld'
  <2>1. run[c].currentNode \in Nodes /\ run[c].skip = FALSE
    BY <1>0, <1>9 DEF Route, Run
  <2>2. PICK n \in Nodes \cup {END} :
            IF n = END THEN Return(c, "complete") ELSE Goto(c, n, run[c]) /\ result' = result
    BY <1>9, <2>1, ResolveType DEF Route
  <2> QED
    BY <1>0, <1>1, <1>3, <2>1, <2>2
<1>10. ASSUME NEW c \in Calls, Fork(c) PROVE SkipIsFresh' /\ GateHeld'
  <2> DEFINE r == [run[c] EXCEPT !.pc = "branches", !.fulfilled = {},
                                 !.pending = Branches(run[c].currentNode)]
  <2>1. r.skip = FALSE /\ r.pc = "branches" /\ run' = [run EXCEPT ![c] = r]
    BY <1>0, <1>10 DEF Fork, Run
  <2> HIDE DEF r
  <2> QED
    BY <1>0, <2>1, GateFrame
<1>11. ASSUME NEW c \in Calls, NEW b \in run[c].pending, SettleBranch(c, b)
       PROVE  SkipIsFresh' /\ GateHeld'
  <2>1. PICK f : run' = [run EXCEPT ![c] = [run[c] EXCEPT !.pending = run[c].pending \ {b},
                                                          !.fulfilled = f]]
    BY <1>11 DEF SettleBranch
  <2> DEFINE r == [run[c] EXCEPT !.pending = run[c].pending \ {b}, !.fulfilled = f]
  <2>2. r.skip = FALSE /\ r.pc = "branches"
    BY <1>0, <1>11 DEF SettleBranch, Run
  <2> HIDE DEF r
  <2> QED
    BY <1>0, <2>1, <2>2, GateFrame DEF r
<1>12. ASSUME NEW c \in Calls, JoinBranches(c) PROVE SkipIsFresh' /\ GateHeld'
  <2> DEFINE n == run[c].currentNode
             joined == Joined(run[c])
  <2>1. CASE Edge[n].then = END
    BY <1>1, <1>12, <2>1 DEF JoinBranches
  <2>2. CASE Edge[n].then # END
    <3> DEFINE r == [joined EXCEPT !.pc = "head", !.currentNode = Edge[n].then]
    <3>1. run' = [run EXCEPT ![c] = r]
      BY <1>12, <2>2 DEF JoinBranches, Goto
    <3>2. r.skip = FALSE /\ r.pc = "head"
      BY <1>0, <1>12 DEF JoinBranches, Joined, Run
    <3> HIDE DEF r
    <3> QED
      BY <1>0, <3>1, <3>2, GateFrame
  <2> QED
    BY <2>1, <2>2
<1>13. CASE run' = run
  BY <1>0, <1>13 DEF SkipIsFresh, GateHeld, AtItsPause
<1>14. \/ \E c \in Calls :
            \/ InvokeFresh(c) \/ InvokeResume(c)
            \/ \E status : Return(c, status)
            \/ StartNode(c) \/ FinishNode(c) \/ SaveStep(c) \/ Route(c) \/ Fork(c)
            \/ \E b \in run[c].pending : SettleBranch(c, b)
            \/ JoinBranches(c)
       \/ run' = run
  BY DEF Next, Invoke, Advance, InvokeComplete, ExhaustSteps, PauseBefore, PauseAfter, Crash,
         UpdateLoad, UpdateSave, vars
<1> QED
  BY <1>1, <1>4, <1>5, <1>6, <1>7, <1>8, <1>9, <1>10, <1>11, <1>12, <1>13, <1>14

\* The engine's invariant is kept by its steps.
LEMMA EngineStep == IInv /\ [Next]_vars => IInv'
BY TypeStep, GateStep DEF IInv

\* The inductive invariant holds in every state of every execution.
THEOREM Invariant == Spec => []IInv
<1>1. Init => IInv
  <2> SUFFICES ASSUME Init PROVE IInv
    OBVIOUS
  <2>1. TypeOK
    BY RestTypes, GraphAssumption DEF Init, TypeOK
  <2>2. SkipIsFresh /\ GateHeld
    BY DEF Init, SkipIsFresh, GateHeld, IdleRun
  <2> QED
    BY <2>1, <2>2 DEF IInv
<1> QED
  BY <1>1, EngineStep, PTL DEF Spec

\* Type correctness: whatever calls, edits and crashes interleave, the
\* checkpoints and the locals of the calls are well formed, and a thread keeps
\* no more checkpoints than it may.
THEOREM TypeCorrect == Spec => []TypeOK
<1>1. IInv => TypeOK
  BY DEF IInv
<1> QED
  BY <1>1, Invariant, PTL

\* The gate: a node in interruptBefore that is reached along the loop never runs
\* but in a call that resumed a pause before it, on the state that was saved.
THEOREM GateIsHeld == Spec => []GateHeld
<1>1. IInv => GateHeld
  BY DEF IInv
<1> QED
  BY <1>1, Invariant, PTL
-----------------------------------------------------------------------------
(***************************************************************************)
(* The step count covers the updates a state holds, and is bounded.        *)
(***************************************************************************)
Counted(r) == IsFiniteSet(Updates(r.state)) /\ Accounted(r)

\* A call that has passed the loop head had a step left; a node that has run
\* used it. At the head a fan-out may have taken the count past the limit.
InBudget(r) ==
    /\ Counted(r)
    /\ r.pc = "node" => r.stepCount < MaxSteps
    /\ r.pc \in {"save", "after", "route", "branches"} => r.stepCount <= MaxSteps

CountInv ==
    /\ \A c \in Calls : InBudget(run[c])
    /\ \A k \in DOMAIN checkpoints : Counted(checkpoints[k])
    /\ \A u \in Edits : Counted(edit[u].base)

\* No fan-out is wider than WidestFork.
LEMMA WidestForkBounds ==
    /\ WidestFork \in Nat
    /\ \A n \in Nodes : Len(Edge[n].branches) <= WidestFork
<1> USE GraphAssumption
<1> DEFINE L == {Len(Edge[n].branches) : n \in Nodes} \cup {0}
           card == Cardinality(Nodes)
<1>1. \A n \in Nodes : Len(Edge[n].branches) \in Nat
  BY DEF State
<1>2. PICK f \in Bijection(1 .. card, Nodes) : TRUE
  BY FS_CardinalityType DEF ExistsBijection
<1>3. /\ card \in Nat /\ \A i \in 1 .. card : f[i] \in Nodes
      /\ \A n \in Nodes : \E i \in 1 .. card : f[i] = n
  BY <1>2, FS_CardinalityType DEF Bijection, Injection, Surjection
<1> HIDE DEF card
<1> DEFINE M(k) == {Len(Edge[f[i]].branches) : i \in 1 .. k} \cup {0}
           Q(k) == \E m \in M(k) : \A x \in M(k) : m >= x
           S == {k \in 0 .. card : Q(k)}
<1>4. 0 \in S
  <2>1. M(0) = {0} /\ 0 \in 0 .. card
    BY <1>3
  <2> QED
    BY <2>1
<1>5. ASSUME NEW k \in 1 .. card, k - 1 \in S PROVE k \in S
  <2> DEFINE l == Len(Edge[f[k]].branches)
  <2>1. PICK m \in M(k - 1) : \A x \in M(k - 1) : m >= x
    BY <1>5
  <2>2. l \in Nat /\ M(k - 1) \subseteq Nat
    BY <1>1, <1>3
  <2>3. M(k) = M(k - 1) \cup {l}
    <3>1. 1 .. k = (1 .. k - 1) \cup {k}
      OBVIOUS
    <3> QED
      BY <3>1
  <2> HIDE DEF M, l
  <2>4. CASE l >= m
    <3>1. l \in M(k) /\ \A x \in M(k) : l >= x
      BY <2>1, <2>2, <2>3, <2>4
    <3> QED
      BY <3>1
  <2>5. CASE ~(l >= m)
    <3>1. m \in M(k) /\ \A x \in M(k) : m >= x
      BY <2>1, <2>2, <2>3, <2>5
    <3> QED
      BY <3>1
  <2> QED
    BY <2>4, <2>5
<1> HIDE DEF S
<1>6. card \in S
  <2>1. card \in 0 .. card
    BY <1>3
  <2> QED
    BY <1>3, <1>4, <1>5, <2>1, BoundedInduction
<1>7. M(card) = L
  BY <1>3
<1>8. \E m \in L : \A x \in L : m >= x
  BY <1>6, <1>7 DEF S
<1>9. WidestFork \in L /\ \A x \in L : WidestFork >= x
  <2>1. WidestFork = CHOOSE m \in L : \A x \in L : m >= x
    BY DEF WidestFork, Max
  <2> HIDE DEF L
  <2> QED
    BY <1>8, <2>1
<1> QED
  BY <1>1, <1>9

\* A merge adds an update to those a state holds, and an edit adds none.
LEMMA MergeCounts ==
    ASSUME NEW s \in State, IsFiniteSet(Updates(s))
    PROVE  /\ \A n \in Nodes : /\ IsFiniteSet(Updates(Merged(s, n)))
                               /\ Executions(Merged(s, n)) = Executions(s) + 1
           /\ \A u \in Edits : Updates(Merged(s, u)) = Updates(s)
           /\ Executions(s) \in Nat
<1>0. Executions(s) \in Nat
  BY FS_CardinalityType DEF Executions
<1>1. ASSUME NEW n \in Nodes
      PROVE  /\ IsFiniteSet(Updates(Merged(s, n)))
             /\ Executions(Merged(s, n)) = Executions(s) + 1
  <2> DEFINE t == Merged(s, n)
  <2>1. t[n] = s[n] + 1 /\ s[n] \in Nat /\ \A m \in Nodes : m # n => t[m] = s[m]
    BY DEF Merged, State
  <2> HIDE DEF t
  <2>2. 1 .. t[n] = (1 .. s[n]) \cup {t[n]} /\ t[n] \notin 1 .. s[n]
    BY <2>1
  <2>3. Updates(t) = Updates(s) \cup {<<n, t[n]>>}
    <3>1. \A m, i : <<m, i>> \in Updates(t) <=> m \in Nodes /\ i \in 1 .. t[m]
      BY DEF Updates
    <3>2. \A m, i : <<m, i>> \in Updates(s) <=> m \in Nodes /\ i \in 1 .. s[m]
      BY DEF Updates
    <3>3. /\ \A x \in Updates(t) : x = <<x[1], x[2]>>
          /\ \A x \in Updates(s) : x = <<x[1], x[2]>>
      BY DEF Updates
    <3>4. \A m, i : <<m, i>> \in Updates(t) <=> <<m, i>> \in Updates(s) \/ (m = n /\ i = t[n])
      BY <2>1, <2>2, <3>1, <3>2
    <3> QED
      BY <3>3, <3>4
  <2>4. <<n, t[n]>> \notin Updates(s)
    BY <2>2 DEF Updates
  <2>5. IsFiniteSet(Updates(t)) /\ Cardinality(Updates(t)) = Cardinality(Updates(s)) + 1
    BY <2>3, <2>4, FS_AddElement
  <2> QED
    BY <2>5 DEF Executions, t
<1>2. ASSUME NEW u \in Edits PROVE Updates(Merged(s, u)) = Updates(s)
  <2>1. \A n \in Nodes : Merged(s, u)[n] = s[n]
    BY GraphAssumption DEF Merged, State
  <2> QED
    BY <2>1 DEF Updates
<1> QED
  BY <1>0, <1>1, <1>2

\* A fan-out merges no more updates than it has branches.
LEMMA ForkCounts ==
    ASSUME NEW s \in State, NEW n \in Nodes, NEW fulfilled \in SUBSET Nat, IsFiniteSet(Updates(s))
    PROVE  /\ IsFiniteSet(Updates(MergedBranches(s, n, fulfilled)))
           /\ Executions(MergedBranches(s, n, fulfilled))
                <= Executions(s) + Len(Edge[n].branches)
<1> DEFINE len == Len(Edge[n].branches)
           t(k) == MergedBranches(s, n, fulfilled \cap (1 .. k))
           Q(k) == /\ IsFiniteSet(Updates(t(k)))
                   /\ Executions(t(k)) <= Executions(s) + k
           S == {k \in 0 .. len : Q(k)}
<1>0. /\ Edge[n].branches \in Seq(Nodes) /\ len \in Nat /\ Branches(n) = 1 .. len
      /\ Executions(s) \in Nat
  BY GraphAssumption, MergeCounts DEF Branches
<1> HIDE DEF len
<1>1. 0 \in S
  <2>1. ASSUME NEW x \in Nodes \cup Edits PROVE t(0)[x] = s[x]
    <3>1. {b \in Branches(n) : b \in fulfilled \cap (1 .. 0) /\ Edge[n].branches[b] = x} = {}
      OBVIOUS
    <3>2. s[x] \in Nat
      BY DEF State
    <3> QED
      BY <3>1, <3>2, FS_EmptySet DEF MergedBranches
  <2>2. Updates(t(0)) = Updates(s)
    BY <2>1 DEF Updates
  <2>3. 0 \in 0 .. len /\ Executions(t(0)) = Executions(s)
    BY <1>0, <2>2 DEF Executions
  <2> HIDE DEF t
  <2> QED
    BY <1>0, <2>2, <2>3
<1>2. ASSUME NEW k \in 1 .. len, k - 1 \in S PROVE k \in S
  <2> DEFINE m == Edge[n].branches[k]
             taken(x, j) == {b \in Branches(n) : b \in fulfilled \cap (1 .. j)
                                                   /\ Edge[n].branches[b] = x}
  <2>1. m \in Nodes /\ k \in Branches(n)
    BY <1>0 DEF len
  <2>2. t(k - 1) \in State
    BY MergeTypes
  <2>3. Q(k - 1) /\ k - 1 \in Nat /\ k \in 0 .. len
    BY <1>2, <1>0
  <2>4. 1 .. k = (1 .. k - 1) \cup {k} /\ k \notin 1 .. k - 1
    OBVIOUS
  <2>5. CASE k \notin fulfilled
    <3>1. fulfilled \cap (1 .. k) = fulfilled \cap (1 .. k - 1)
      BY <2>4, <2>5
    <3>2. t(k) = t(k - 1)
      BY <3>1
    <3>3. Executions(t(k - 1)) \in Nat
      BY <2>2, <2>3, MergeCounts
    <3> HIDE DEF t
    <3> QED
      BY <1>0, <2>3, <3>2, <3>3
  <2>6. CASE k \in fulfilled
    <3>1. ASSUME NEW x \in Nodes \cup Edits
          PROVE  t(k)[x] = IF x = m THEN t(k - 1)[x] + 1 ELSE t(k - 1)[x]
      <4>1. IsFiniteSet(taken(x, k - 1))
        <5>1. IsFiniteSet(Branches(n))
          BY <1>0, FS_Interval
        <5> QED
          BY <5>1, FS_Subset
      <4>2. k \notin taken(x, k - 1)
        BY <2>4
      <4>3. taken(x, k) = IF x = m THEN taken(x, k - 1) \cup {k} ELSE taken(x, k - 1)
        BY <2>1, <2>4, <2>6
      <4>4. /\ t(k)[x] = s[x] + Cardinality(taken(x, k))
            /\ t(k - 1)[x] = s[x] + Cardinality(taken(x, k - 1))
        BY DEF MergedBranches
      <4>5. s[x] \in Nat
        BY DEF State
      <4> HIDE DEF taken, t, m
      <4>6. Cardinality(taken(x, k - 1)) \in Nat
        BY <4>1, FS_CardinalityType
      <4>7. Cardinality(taken(x, k - 1) \cup {k}) = Cardinality(taken(x, k - 1)) + 1
        BY <4>1, <4>2, FS_AddElement
      <4> QED
        BY <4>3, <4>4, <4>5, <4>6, <4>7
    <3>2. t(k) = Merged(t(k - 1), m)
      <4>1. t(k) \in State
        BY MergeTypes
      <4> HIDE DEF t, m
      <4> QED
        BY <2>2, <3>1, <4>1, <2>1 DEF Merged, State
    <3> HIDE DEF t, m
    <3>3. /\ IsFiniteSet(Updates(t(k))) /\ Executions(t(k)) = Executions(t(k - 1)) + 1
          /\ Executions(t(k - 1)) \in Nat
      BY <2>1, <2>2, <2>3, <3>2, MergeCounts
    <3> QED
      BY <1>0, <2>3, <3>3
  <2> QED
    BY <2>5, <2>6
<1> HIDE DEF S
<1>3. len \in S
  <2>1. len \in 0 .. len
    BY <1>0
  <2> QED
    BY <1>0, <1>1, <1>2, <2>1, BoundedInduction
<1>4. t(len) = MergedBranches(s, n, fulfilled)
  <2>1. \A b \in Branches(n) : b \in fulfilled \cap (1 .. len) <=> b \in fulfilled
    BY <1>0
  <2>2. \A x : {b \in Branches(n) : b \in fulfilled \cap (1 .. len) /\ Edge[n].branches[b] = x}
                = {b \in Branches(n) : b \in fulfilled /\ Edge[n].branches[b] = x}
    BY <2>1
  <2> QED
    BY <2>2 DEF MergedBranches
<1> QED
  BY <1>3, <1>4 DEF S, len

\* A checkpoint that is well counted leaves all of them well counted.
LEMMA SaveCounts ==
    ASSUME TypeOK, \A k \in DOMAIN checkpoints : Counted(checkpoints[k]),
           NEW cp, Counted(cp), Save(cp)
    PROVE  \A k \in DOMAIN checkpoints' : Counted(checkpoints'[k])
<1>1. /\ checkpoints \in Seq(Checkpoint) /\ Len(checkpoints) \in Nat /\ MaxPerThread \in Nat \ {0}
      /\ Len(checkpoints) <= MaxPerThread
  BY GraphAssumption DEF TypeOK
<1>2. CASE Len(checkpoints) < MaxPerThread
  <2>1. checkpoints' = Append(checkpoints, cp)
    BY <1>2 DEF Save
  <2>2. ASSUME NEW k \in DOMAIN checkpoints' PROVE Counted(checkpoints'[k])
    <3>1. checkpoints'[k] = cp \/ (k \in DOMAIN checkpoints /\ checkpoints'[k] = checkpoints[k])
      BY <1>1, <2>1
    <3> QED
      BY <3>1
  <2> QED
    BY <2>2
<1>3. CASE ~(Len(checkpoints) < MaxPerThread)
  <2>1. checkpoints' = Append(Tail(checkpoints), cp) /\ checkpoints # <<>>
    BY <1>1, <1>3 DEF Save
  <2>2. ASSUME NEW k \in DOMAIN checkpoints' PROVE Counted(checkpoints'[k])
    <3>1. \/ checkpoints'[k] = cp
          \/ k + 1 \in DOMAIN checkpoints /\ checkpoints'[k] = checkpoints[k + 1]
      BY <1>1, <2>1
    <3> QED
      BY <3>1
  <2> QED
    BY <2>2
<1> QED
  BY <1>2, <1>3

\* A step of one call keeps the counts if that call's locals, and the checkpoint
\* it saves, have them right.
LEMMA CountFrame ==
    ASSUME TypeOK, CountInv, NEW c \in Calls, NEW r,
           run' = [run EXCEPT ![c] = r], InBudget(r), edit' = edit,
           checkpoints' = checkpoints \/ \E cp : Counted(cp) /\ Save(cp)
    PROVE  CountInv'
<1>1. run'[c] = r /\ \A x \in Calls \ {c} : run'[x] = run[x]
  BY DEF TypeOK
<1>2. \A x \in Calls : InBudget(run'[x])
  BY <1>1 DEF CountInv
<1>3. \A k \in DOMAIN checkpoints' : Counted(checkpoints'[k])
  BY SaveCounts DEF CountInv
<1>4. \A u \in Edits : Counted(edit'[u].base)
  BY DEF CountInv
<1> QED
  BY <1>2, <1>3, <1>4 DEF CountInv

\* The fresh records hold no update.
LEMMA RestCounts == Counted(NoCheckpoint) /\ InBudget(IdleRun)
<1>1. Updates(Input) = {}
  <2>1. \A n \in Nodes : 1 .. Input[n] = {}
    BY DEF Input
  <2> QED
    BY <2>1 DEF Updates
<1>2. IsFiniteSet(Updates(Input)) /\ Executions(Input) = 0
  BY <1>1, FS_EmptySet DEF Executions
<1>3. 0 <= MaxSteps + WidestFork
  BY WidestForkBounds, GraphAssumption
<1> QED
  BY <1>2, <1>3 DEF NoCheckpoint, IdleRun, InBudget, Counted, Accounted

\* A step keeps the counts.
LEMMA CountStep == TypeOK /\ CountInv /\ [Next]_vars => CountInv'
<1> SUFFICES ASSUME TypeOK, CountInv, [Next]_vars PROVE CountInv'
  OBVIOUS
<1>0. /\ TypeOK /\ CountInv /\ Latest \in Checkpoint /\ Counted(Latest)
      /\ \A c \in Calls : run[c] \in Run /\ InBudget(run[c]) /\ Counted(run[c])
      /\ MaxSteps \in Nat /\ WidestFork \in Nat
  <2>1. Counted(Latest)
    <3>1. checkpoints # <<>> => Len(checkpoints) \in DOMAIN checkpoints
      BY DEF TypeOK
    <3> QED
      BY <3>1, RestCounts DEF Latest, CountInv
  <2> QED
    BY <2>1, LatestType, WidestForkBounds, GraphAssumption DEF TypeOK, CountInv, InBudget
<1>1. ASSUME NEW c \in Calls, NEW status, Return(c, status), edit' = edit,
             checkpoints' = checkpoints \/ \E cp : Counted(cp) /\ Save(cp)
      PROVE  CountInv'
  BY <1>0, <1>1, CountFrame, RestCounts DEF Return
<1>2. ASSUME NEW c \in Calls, NEW n \in Nodes, NEW cp \in Checkpoint, NEW skip \in BOOLEAN,
             Start(c, n, cp, skip), Counted(cp), UNCHANGED <<checkpoints, edit>>
      PROVE  CountInv'
  <2> DEFINE r == [IdleRun EXCEPT !.pc = "head", !.currentNode = n, !.state = cp.state,
                      !.stepCount = cp.stepCount, !.skip = skip, !.from = cp]
  <2>1. r.pc = "head" /\ r.state = cp.state /\ r.stepCount = cp.stepCount
    BY DEF IdleRun
  <2>2. run' = [run EXCEPT ![c] = r]
    BY <1>2 DEF Start
  <2> HIDE DEF r
  <2>3. InBudget(r)
    BY <1>2, <2>1 DEF InBudget, Counted, Accounted
  <2> QED
    BY <1>0, <1>2, <2>2, <2>3, CountFrame
<1>3. ASSUME NEW c \in Calls, NEW n \in Nodes, NEW r \in Run, Counted(r), Goto(c, n, r),
             UNCHANGED <<checkpoints, edit>>
      PROVE  CountInv'
  <2> DEFINE q == [r EXCEPT !.pc = "head", !.currentNode = n]
  <2>1. q.pc = "head" /\ q.state = r.state /\ q.stepCount = r.stepCount
    BY DEF Run
  <2>2. run' = [run EXCEPT ![c] = q]
    BY <1>3 DEF Goto
  <2> HIDE DEF q
  <2>3. InBudget(q)
    BY <1>3, <2>1 DEF InBudget, Counted, Accounted
  <2> QED
    BY <1>0, <1>3, <2>2, <2>3, CountFrame
<1>4. ASSUME NEW c \in Calls, Invoke(c) PROVE CountInv'
  <2>1. CASE InvokeFresh(c)
    <3>1. Start(c, EntryPoint, NoCheckpoint, FALSE) /\ EntryPoint \in Nodes
          /\ UNCHANGED <<checkpoints, edit>>
      BY <2>1, GraphAssumption DEF InvokeFresh
    <3> QED
      BY <1>2, <3>1, RestTypes, RestCounts
  <2>2. CASE InvokeResume(c)
    <3>1. PICK n \in Nodes, skip \in BOOLEAN : Start(c, n, Latest, skip)
      BY <1>0, <2>2, ResolveType DEF InvokeResume, Checkpoint
    <3> QED
      BY <1>0, <1>2, <2>2, <3>1 DEF InvokeResume
  <2>3. CASE InvokeComplete(c)
    BY <1>1, <2>3 DEF InvokeComplete
  <2> QED
    BY <1>4, <2>1, <2>2, <2>3 DEF Invoke
<1>5. ASSUME NEW c \in Calls, ExhaustSteps(c) \/ Crash(c) PROVE CountInv'
  BY <1>1, <1>5 DEF ExhaustSteps, Crash
<1>6. ASSUME NEW c \in Calls, NEW t PROVE Counted(MakeCheckpoint(run[c], t))
  BY <1>0 DEF MakeCheckpoint, Counted, Accounted
<1>7. ASSUME NEW c \in Calls, PauseBefore(c) \/ PauseAfter(c) PROVE CountInv'
  BY <1>1, <1>6, <1>7 DEF PauseBefore, PauseAfter
<1>8. ASSUME NEW c \in Calls, StartNode(c) PROVE CountInv'
  <2> DEFINE r == [run[c] EXCEPT !.pc = "node", !.skip = FALSE]
  <2>1. r.pc = "node" /\ r.state = run[c].state /\ r.stepCount = run[c].stepCount
    BY <1>0 DEF Run
  <2>2. /\ run' = [run EXCEPT ![c] = r] /\ run[c].stepCount < MaxSteps
        /\ UNCHANGED <<checkpoints, edit>>
    BY <1>8 DEF StartNode
  <2> HIDE DEF r
  <2>3. InBudget(r)
    BY <1>0, <2>1, <2>2 DEF InBudget, Counted, Accounted
  <2> QED
    BY <1>0, <2>2, <2>3, CountFrame
<1>9. ASSUME NEW c \in Calls, FinishNode(c) PROVE CountInv'
  <2>1. PICK s \in {Merged(run[c].state, run[c].currentNode), run[c].state} :
            run' = [run EXCEPT ![c] = [run[c] EXCEPT !.pc = "save", !.state = s,
                                                     !.stepCount = run[c].stepCount + 1]]
    BY <1>9 DEF FinishNode
  <2> DEFINE r == [run[c] EXCEPT !.pc = "save", !.state = s, !.stepCount = run[c].stepCount + 1]
  <2>2. r.pc = "save" /\ r.state = s /\ r.stepCount = run[c].stepCount + 1
    BY <1>0 DEF Run
  <2>3. /\ run' = [run EXCEPT ![c] = r] /\ UNCHANGED <<checkpoints, edit>>
        /\ run[c].pc = "node"
    BY <1>9, <2>1 DEF FinishNode
  <2> HIDE DEF r
  <2>4. /\ run[c].state \in State /\ run[c].currentNode \in Nodes /\ run[c].stepCount \in Nat
        /\ IsFiniteSet(Updates(run[c].state)) /\ Executions(run[c].state) <= run[c].stepCount
        /\ run[c].stepCount < MaxSteps
    BY <1>0, <2>3 DEF Run, InBudget, Counted, Accounted
  <2>5. IsFiniteSet(Updates(s)) /\ Executions(s) <= run[c].stepCount + 1
    BY <2>4, MergeCounts
  <2>6. InBudget(r)
    BY <1>0, <2>2, <2>4, <2>5 DEF InBudget, Counted, Accounted
  <2> QED
    BY <1>0, <2>3, <2>6, CountFrame
<1>10. ASSUME NEW c \in Calls, SaveStep(c) PROVE CountInv'
  <2>1. PICK pc \in {"after", "route"} : run' = [run EXCEPT ![c] = [run[c] EXCEPT !.pc = pc]]
    BY <1>10 DEF SaveStep
  <2> DEFINE r == [run[c] EXCEPT !.pc = pc]
  <2>2. /\ r.pc = pc /\ r.state = run[c].state /\ r.stepCount = run[c].stepCount
        /\ run[c].pc = "save"
    BY <1>0, <1>10 DEF SaveStep, Run
  <2>3. run' = [run EXCEPT ![c] = r] /\ Save(MakeCheckpoint(run[c], "none")) /\ edit' = edit
    BY <1>10, <2>1 DEF SaveStep
  <2> HIDE DEF r
  <2>4. InBudget(r)
    BY <1>0, <2>2 DEF InBudget, Counted, Accounted
  <2> QED
    BY <1>0, <1>6, <2>3, <2>4, CountFrame
<1>11. ASSUME NEW c \in Calls, Route(c) PROVE CountInv'
  <2>1. run[c].currentNode \in Nodes /\ UNCHANGED <<checkpoints, edit>>
    BY <1>0, <1>11 DEF Route, Run
  <2>2. PICK n \in Nodes \cup {END} :
            IF n = END THEN Return(c, "complete") ELSE Goto(c, n, run[c]) /\ result' = result
    BY <1>11, <2>1, ResolveType DEF Route
  <2> QED
    BY <1>0, <1>1, <1>3, <2>1, <2>2
<1>12. ASSUME NEW c \in Calls, Fork(c) PROVE CountInv'
  <2> DEFINE r == [run[c] EXCEPT !.pc = "branches", !.fulfilled = {},
                                 !.pending = Branches(run[c].currentNode)]
  <2>1. /\ r.pc = "branches" /\ r.state = run[c].state /\ r.stepCount = run[c].stepCount
        /\ run[c].pc = "route"
    BY <1>0, <1>12 DEF Fork, Run
  <2>2. run' = [run EXCEPT ![c] = r] /\ UNCHANGED <<checkpoints, edit>>
    BY <1>12 DEF Fork
  <2> HIDE DEF r
  <2>3. InBudget(r)
    BY <1>0, <2>1 DEF InBudget, Counted, Accounted
  <2> QED
    BY <1>0, <2>2, <2>3, CountFrame
<1>13. ASSUME NEW c \in Calls, NEW b \in run[c].pending, SettleBranch(c, b) PROVE CountInv'
  <2>1. PICK f : run' = [run EXCEPT ![c] = [run[c] EXCEPT !.pending = run[c].pending \ {b},
                                                          !.fulfilled = f]]
    BY <1>13 DEF SettleBranch
  <2> DEFINE r == [run[c] EXCEPT !.pending = run[c].pending \ {b}, !.fulfilled = f]
  <2>2. r.pc = run[c].pc /\ r.state = run[c].state /\ r.stepCount = run[c].stepCount
    BY <1>0 DEF Run
  <2>3. run' = [run EXCEPT ![c] = r] /\ UNCHANGED <<checkpoints, edit>>
    BY <1>13, <2>1 DEF SettleBranch
  <2> HIDE DEF r
  <2>4. InBudget(r)
    BY <1>0, <2>2 DEF InBudget, Counted, Accounted
  <2> QED
    BY <1>0, <2>3, <2>4, CountFrame
<1>14. ASSUME NEW c \in Calls, JoinBranches(c) PROVE CountInv'
  <2> DEFINE n == run[c].currentNode
             joined == Joined(run[c])
  <2>0. UNCHANGED <<checkpoints, edit>> /\ run[c].pc = "branches"
    BY <1>14 DEF JoinBranches
  <2>1. CASE Edge[n].then = END
    BY <1>1, <1>14, <2>0, <2>1 DEF JoinBranches
  <2>2. CASE Edge[n].then # END
    <3>1. /\ run[c].state \in State /\ n \in Nodes /\ run[c].fulfilled \in SUBSET Nat
          /\ run[c].stepCount \in Nat /\ run[c].stepCount <= MaxSteps
          /\ IsFiniteSet(Updates(run[c].state)) /\ Executions(run[c].state) <= run[c].stepCount
      BY <1>0, <2>0 DEF Run, InBudget, Counted, Accounted
    <3>2. /\ Len(Edge[n].branches) \in Nat /\ Len(Edge[n].branches) <= WidestFork
          /\ Edge[n].then \in Nodes
      BY <2>2, <3>1, WidestForkBounds, GraphAssumption
    <3>3. /\ joined.state = MergedBranches(run[c].state, n, run[c].fulfilled)
          /\ joined.stepCount = run[c].stepCount + Len(Edge[n].branches)
          /\ joined \in Run
      <4>1. MergedBranches(run[c].state, n, run[c].fulfilled) \in State
        BY <3>1, MergeTypes
      <4>2. run[c].stepCount + Len(Edge[n].branches) \in Nat
        <5>1. \A i, j \in Nat : i + j \in Nat
          OBVIOUS
        <5>2. run[c].stepCount \in Nat /\ Len(Edge[n].branches) \in Nat
          BY <3>1, <3>2
        <5> QED
          BY <5>1, <5>2
      <4> QED
        BY <1>0, <4>1, <4>2 DEF Joined, Run
    <3>4. IsFiniteSet(Updates(joined.state)) /\ Executions(joined.state) \in Nat
          /\ Executions(joined.state) <= Executions(run[c].state) + Len(Edge[n].branches)
      BY <3>1, <3>3, ForkCounts, FS_CardinalityType DEF Executions
    <3>5. Executions(run[c].state) \in Nat
      BY <3>1, MergeCounts
    <3>6. Goto(c, Edge[n].then, joined)
      BY <1>14, <2>2 DEF JoinBranches
    <3> HIDE DEF joined
    <3>7. Counted(joined)
      BY <1>0, <3>1, <3>2, <3>3, <3>4, <3>5, SMTT(30) DEF Counted, Accounted
    <3> QED
      BY <1>3, <2>0, <3>2, <3>3, <3>6, <3>7
  <2> QED
    BY <2>1, <2>2
<1>15. ASSUME NEW u \in Edits, UpdateLoad(u) PROVE CountInv'
  <2>1. \A v \in Edits : Counted(edit'[v].base)
    BY <1>0, <1>15 DEF UpdateLoad, TypeOK, CountInv
  <2> QED
    BY <1>0, <1>15, <2>1 DEF UpdateLoad, CountInv
<1>16. ASSUME NEW u \in Edits, UpdateSave(u) PROVE CountInv'
  <2> DEFINE base == edit[u].base
             cp == [base EXCEPT !.state = Merged(base.state, u)]
  <2>1. base \in Checkpoint /\ base.state \in State /\ Counted(base)
    BY <1>0 DEF TypeOK, CountInv, Checkpoint
  <2>2. cp.state = Merged(base.state, u) /\ cp.stepCount = base.stepCount
    BY <2>1 DEF Checkpoint
  <2>3. Save(cp) /\ edit' = [edit EXCEPT ![u] = [pc |-> "done", base |-> NoCheckpoint]] /\ run' = run
    BY <1>16 DEF UpdateSave
  <2> HIDE DEF cp, base
  <2>4. Counted(cp)
    BY <2>1, <2>2, MergeCounts DEF Counted, Accounted, Executions
  <2>5. \A k \in DOMAIN checkpoints' : Counted(checkpoints'[k])
    BY <1>0, <2>3, <2>4, SaveCounts DEF CountInv
  <2>6. \A v \in Edits : Counted(edit'[v].base)
    BY <1>0, <2>3, RestCounts DEF TypeOK, CountInv
  <2> QED
    BY <1>0, <2>3, <2>5, <2>6 DEF CountInv
<1>17. CASE UNCHANGED vars
  BY <1>0, <1>17 DEF vars, CountInv
<1> QED
  BY <1>4, <1>5, <1>7, <1>8, <1>9, <1>10, <1>11, <1>12, <1>13, <1>14, <1>15, <1>16, <1>17
  DEF Next, Advance

\* Steps are accounted for: in every call and every checkpoint, across pauses,
\* resumes, human edits, crashes and fan-outs, the step count covers the node
\* updates the state holds and passes maxSteps by one fan-out at the most.
THEOREM StepsAreAccounted == Spec => []StepsAccounted
<1>1. Init => CountInv
  BY RestCounts DEF Init, CountInv
<1>2. TypeOK /\ CountInv /\ [Next]_vars => CountInv'
  BY CountStep
<1>3. CountInv => StepsAccounted
  BY DEF CountInv, InBudget, Counted, StepsAccounted
<1> QED
  BY <1>1, <1>2, <1>3, TypeCorrect, PTL DEF Spec
-----------------------------------------------------------------------------
(***************************************************************************)
(* GraphResume implements GraphWalk.                                       *)
(***************************************************************************)
\* No pause after the source of a fan-out: such a pause resumes at the end,
\* which the run graph_resume_fork shows.
ForksUnpaused == \A n \in InterruptAfter : ~IsFork(n)

\* A call that stands where the pause it resumed from stood.
AtPause(r) == Interrupted(r.from) /\ r.stepCount = r.from.stepCount

\* A call at work is past the pause it came from, or at it with the pause the latest
\* checkpoint; a pause is the latest checkpoint until the first node has been saved.
UnderWay ==
    LET r == run[Driver] IN
    r.pc # "idle" =>
        /\ Interrupted(r.from) => r.from.stepCount <= r.stepCount
        /\ AtPause(r) => r.pc \in {"head", "node"} /\ Latest = r.from
        /\ Interrupted(Latest) => r.pc = "save" \/ AtPause(r)
        /\ r.pc = "after" => r.currentNode \in InterruptAfter
        /\ r.pc = "branches" => IsFork(r.currentNode)

\* An edit that has been loaded is alone, and of the pause the thread stands at.
EditsAlone ==
    \A u \in Edits : edit[u].pc = "loaded" =>
        /\ run[Driver].pc = "idle" /\ Interrupted(Latest) /\ ~Completed
        /\ edit[u].base = Latest
        /\ \A v \in Edits : edit[v].pc = "loaded" => v = u

PausedAfterANode == Latest.interruptType = "after" => ~IsFork(Latest.currentNode)

ResumeInv == UnderWay /\ EditsAlone /\ PausedAfterANode

\* The driver is one of the callers, and does nothing a caller may not do.
LEMMA SerialStep == [SerialNext]_vars => [Next]_vars
BY DriverAssumption DEF SerialNext, Next

\* The walk's position while a call is at work, and between calls.
Positioned ==
    LET r == run[Driver] IN
    /\ Futile(r) => Position = At(r.from.interruptType, r.from)
    /\ r.pc \in {"head", "node"} /\ ~Futile(r) => Position = At("before", r)
    /\ r.pc \in {"save", "after", "route", "branches"} => Position = At("after", r)
    /\ r.pc = "idle" /\ Interrupted(Latest) /\ ~Completed => Position = At(Latest.interruptType, Latest)
    /\ r.pc = "idle" /\ ~(Interrupted(Latest) /\ ~Completed) => Position = At("start", NoCheckpoint)

LEMMA WhereItIs == Positioned
BY DEF Positioned, Position, Futile

LEMMA WhereItGoes == Positioned'
BY WhereItIs, PTL

\* A position, part by part.
LEMMA AtParts ==
    ASSUME NEW phase, NEW p
    PROVE  At(phase, p).phase = phase /\ At(phase, p).node = p.currentNode /\ At(phase, p).state = p.state
BY DEF At

\* A step that saves nothing leaves the latest checkpoint.
LEMMA LatestKept == checkpoints' = checkpoints => Latest' = Latest
BY DEF Latest

\* No edit is in flight while a call is at work, or when one begins.
LEMMA EditsRest ==
    ASSUME EditsAlone, run[Driver].pc # "idle" \/ Quiet, edit' = edit
    PROVE  EditsAlone'
BY DEF EditsAlone, Quiet

\* The locals of the driver's call, before and after a step that replaces them.
LEMMA DriverLocals ==
    ASSUME IInv
    PROVE  /\ Driver \in Calls /\ run[Driver] \in Run /\ Latest \in Checkpoint
           /\ \A x : run' = [run EXCEPT ![Driver] = x] => run'[Driver] = x
           /\ \A status : Return(Driver, status) =>
                    run'[Driver].pc = "idle" /\ result'[Driver] = status
BY DriverAssumption, LatestType DEF IInv, TypeOK, Return, IdleRun

\* Entering executeGraph puts the call at its first node.
LEMMA StartEffects ==
    ASSUME IInv, NEW n, NEW cp, NEW skip, Start(Driver, n, cp, skip)
    PROVE  LET r == run'[Driver] IN
           /\ r.pc = "head" /\ r.currentNode = n /\ r.state = cp.state
           /\ r.stepCount = cp.stepCount /\ r.from = cp
<1> DEFINE r == [IdleRun EXCEPT !.pc = "head", !.currentNode = n, !.state = cp.state,
                    !.stepCount = cp.stepCount, !.skip = skip, !.from = cp]
<1>1. run'[Driver] = r
  BY DriverLocals DEF Start
<1>2. /\ r.pc = "head" /\ r.currentNode = n /\ r.state = cp.state
      /\ r.stepCount = cp.stepCount /\ r.from = cp
  BY DEF IdleRun
<1> QED
  BY <1>1, <1>2

\* invoke(): the walk begins, or goes on from the pause.
LEMMA InvokeWalks ==
    ASSUME ForksUnpaused, IInv, ResumeInv, Quiet, ~Completed, Invoke(Driver)
    PROVE  ResumeInv' /\ (Walk!Next \/ Position' = Position)
<1> DEFINE r == run[Driver]
           R == run'[Driver]
<1>0. /\ r.pc = "idle" /\ checkpoints' = checkpoints /\ edit' = edit /\ Latest' = Latest
      /\ Latest \in Checkpoint
  BY DriverLocals, LatestKept DEF Invoke, InvokeFresh, InvokeResume, InvokeComplete
<1>1. EditsAlone' /\ PausedAfterANode'
  BY <1>0, EditsRest DEF ResumeInv, PausedAfterANode
<1>2. Positioned /\ Positioned'
  BY WhereItIs, WhereItGoes
<1>3. CASE InvokeFresh(Driver)
  <2>1. ~Interrupted(Latest) /\ Start(Driver, EntryPoint, NoCheckpoint, FALSE)
    BY <1>3 DEF InvokeFresh
  <2>2. /\ R.pc = "head" /\ R.currentNode = EntryPoint /\ R.state = Input
        /\ R.from = NoCheckpoint /\ ~Interrupted(R.from)
    <3>1. /\ R.pc = "head" /\ R.currentNode = EntryPoint /\ R.state = NoCheckpoint.state
          /\ R.from = NoCheckpoint
      BY <2>1, StartEffects
    <3> QED
      BY <3>1 DEF NoCheckpoint, Interrupted
  <2>3. UnderWay'
    BY <1>0, <2>1, <2>2 DEF UnderWay, AtPause
  <2>4. Position = At("start", NoCheckpoint) /\ Position' = At("before", R)
    BY <1>0, <1>2, <2>1, <2>2 DEF Positioned, Futile
  <2>5. Walk!Begin
    BY <2>2, <2>4, AtParts DEF Walk!Begin, NoCheckpoint
  <2> QED
    BY <1>1, <2>3, <2>5 DEF ResumeInv, Walk!Next
<1>4. CASE InvokeResume(Driver)
  <2>1. Interrupted(Latest) /\ Position = At(Latest.interruptType, Latest)
    BY <1>0, <1>2, <1>4 DEF InvokeResume, Interrupted, Positioned
  <2>2. PICK n, skip : /\ Start(Driver, n, Latest, skip)
                       /\ \/ Latest.interruptType = "before" /\ n = Latest.currentNode
                          \/ /\ Latest.interruptType = "after"
                             /\ n \in ResolveNextNode(Latest.currentNode) \ {END}
    BY <1>4 DEF InvokeResume
  <2>3. /\ R.pc = "head" /\ R.currentNode = n /\ R.state = Latest.state
        /\ R.stepCount = Latest.stepCount /\ R.from = Latest
    BY <2>2, StartEffects
  <2>4. UnderWay'
    BY <1>0, <2>1, <2>3 DEF UnderWay, AtPause, Checkpoint
  <2>5. CASE Futile(R)
    <3>1. Position' = Position
      BY <1>2, <2>1, <2>3, <2>5 DEF Positioned
    <3> QED
      BY <1>1, <2>4, <3>1 DEF ResumeInv
  <2>6. CASE ~Futile(R)
    <3>1. Position' = At("before", R)
      BY <1>2, <2>3, <2>6 DEF Positioned
    <3>2. CASE Latest.interruptType = "before"
      <4>1. Position' = Position
        BY <2>1, <2>2, <2>3, <3>1, <3>2 DEF At
      <4> QED
        BY <1>1, <2>4, <4>1 DEF ResumeInv
    <3>3. CASE Latest.interruptType = "after"
      <4>1. /\ Latest.currentNode \in Nodes /\ n \in Edge[Latest.currentNode].targets \ {END}
            /\ Edge[Latest.currentNode].type \in {"unconditional", "conditional"}
        BY <1>0, <2>2, <3>3, GraphAssumption DEF Checkpoint, ResolveNextNode
      <4>2. Walk!Follow
        BY <2>1, <2>3, <3>1, <3>3, <4>1, AtParts DEF Walk!Follow
      <4> QED
        BY <1>1, <2>4, <4>2 DEF ResumeInv, Walk!Next
    <3> QED
      BY <2>2, <3>2, <3>3
  <2> QED
    BY <2>5, <2>6
<1>5. CASE InvokeComplete(Driver)
  <2>1. /\ Latest.interruptType = "after" /\ END \in ResolveNextNode(Latest.currentNode)
        /\ Return(Driver, "complete")
    BY <1>5 DEF InvokeComplete
  <2>2. R.pc = "idle" /\ Interrupted(Latest) /\ Completed'
    BY <1>0, <2>1, DriverLocals DEF Interrupted, Completed
  <2>3. UnderWay'
    BY <2>2 DEF UnderWay
  <2>4. Position = At("after", Latest) /\ Position' = At("start", NoCheckpoint)
    BY <1>0, <1>2, <2>1, <2>2 DEF Positioned
  <2>5. /\ Latest.currentNode \in Nodes /\ Edge[Latest.currentNode].type # "parallel"
        /\ Edge[Latest.currentNode].type = "unconditional" => END \in Edge[Latest.currentNode].targets
    BY <1>0, <2>1 DEF ResumeInv, PausedAfterANode, IsFork, Checkpoint, ResolveNextNode
  <2>6. Walk!Follow
    BY <2>4, <2>5, AtParts DEF Walk!Follow, Walk!AtStart, Walk!Nothing, NoCheckpoint, Input
  <2> QED
    BY <1>1, <2>3, <2>6 DEF ResumeInv, Walk!Next
<1> QED
  BY <1>3, <1>4, <1>5 DEF Invoke


\* A call that returns without a pause of its own: the walk is at the start again.
LEMMA ReturnsToStart ==
    ASSUME IInv, NEW status, Return(Driver, status), ~Interrupted(Latest')
    PROVE  UnderWay' /\ PausedAfterANode' /\ Position' = At("start", NoCheckpoint)
<1>1. run'[Driver].pc = "idle"
  BY DriverLocals
<1> QED
  BY <1>1, WhereItGoes DEF UnderWay, PausedAfterANode, Interrupted, Positioned

\* A call that pauses: the walk stands where the pause says.
LEMMA ReturnsPaused ==
    ASSUME IInv, NEW t \in {"before", "after"}, Return(Driver, "interrupted"),
           Save(MakeCheckpoint(run[Driver], t)), t = "after" => ~IsFork(run[Driver].currentNode)
    PROVE  UnderWay' /\ PausedAfterANode' /\ Position' = At(t, run[Driver])
<1> DEFINE cp == MakeCheckpoint(run[Driver], t)
<1>1. run'[Driver].pc = "idle" /\ result'[Driver] = "interrupted"
  BY DriverLocals
<1>2. Latest' = cp
  BY DriverLocals, MakeCheckpointType, SavedLatest DEF IInv
<1>3. /\ cp.interruptType = t /\ cp.currentNode = run[Driver].currentNode
      /\ cp.state = run[Driver].state
  BY DEF MakeCheckpoint
<1>4. Interrupted(Latest') /\ ~Completed'
  BY <1>1, <1>2, <1>3 DEF Interrupted, Completed
<1>5. Position' = At(Latest'.interruptType, Latest')
  BY <1>1, <1>4, WhereItGoes DEF Positioned
<1>6. UnderWay' /\ PausedAfterANode'
  BY <1>1, <1>2, <1>3 DEF UnderWay, PausedAfterANode
<1> QED
  BY <1>2, <1>3, <1>5, <1>6 DEF At

\* The walk counts a branch's successes as the engine does.
LEMMA WalkCounts == \A S : Walk!Cardinality(S) = Cardinality(S)
BY DEF Walk!Cardinality, Cardinality

\* executeGraph: what a call does between two pauses is a piece of the walk.
LEMMA AdvanceWalks ==
    ASSUME ForksUnpaused, IInv, ResumeInv, Advance(Driver)
    PROVE  ResumeInv' /\ (Walk!Next \/ Position' = Position)
<1> DEFINE r == run[Driver]
           R == run'[Driver]
<1>0. /\ r \in Run /\ Latest \in Checkpoint /\ Driver \in Calls
      /\ \A x : run' = [run EXCEPT ![Driver] = x] => R = x
      /\ Positioned /\ Positioned' /\ UnderWay /\ PausedAfterANode
      /\ r.from \in Checkpoint /\ r.stepCount \in Nat /\ r.from.stepCount \in Nat
  BY DriverLocals, WhereItIs, WhereItGoes DEF ResumeInv, Run, Checkpoint
<1>1. r.pc # "idle" /\ edit' = edit
  BY DEF Advance, ExhaustSteps, PauseBefore, StartNode, FinishNode, SaveStep, PauseAfter, Route,
         Fork, SettleBranch, JoinBranches, vars
<1>2. EditsAlone'
  BY <1>1, EditsRest DEF ResumeInv
<1>3. CASE ExhaustSteps(Driver)
  <2>1. /\ r.pc = "head" /\ r.stepCount >= MaxSteps /\ Return(Driver, "max_steps")
        /\ Latest' = Latest
    BY <1>3, LatestKept DEF ExhaustSteps
  <2>2. R.pc = "idle" /\ result'[Driver] = "max_steps"
    BY <2>1, DriverLocals
  <2>3. UnderWay' /\ PausedAfterANode'
    BY <1>0, <2>1, <2>2 DEF UnderWay, PausedAfterANode
  <2>4. CASE Futile(r)
    <3>1. Latest = r.from /\ Interrupted(Latest) /\ ~Completed'
      BY <1>0, <1>1, <2>2, <2>4 DEF Futile, UnderWay, AtPause, Completed
    <3>2. Position' = Position
      BY <1>0, <2>1, <2>2, <2>4, <3>1 DEF Positioned
    <3> QED
      BY <1>2, <2>3, <3>2 DEF ResumeInv
  <2>5. CASE ~Futile(r)
    <3>1. ~Interrupted(Latest)
      BY <1>0, <1>1, <2>1, <2>5 DEF UnderWay, Futile, AtPause
    <3>2. Position = At("before", r) /\ Position' = At("start", NoCheckpoint)
      BY <1>0, <2>1, <2>2, <2>5, <3>1 DEF Positioned
    <3>3. Walk!GiveUp
      BY <3>2, AtParts DEF Walk!GiveUp, Walk!AtStart, Walk!Nothing, NoCheckpoint, Input
    <3> QED
      BY <1>2, <2>3, <3>3 DEF ResumeInv, Walk!Next
  <2> QED
    BY <2>4, <2>5
<1>4. CASE PauseBefore(Driver)
  <2>1. /\ r.pc = "head" /\ r.stepCount < MaxSteps /\ Return(Driver, "interrupted")
        /\ Save(MakeCheckpoint(r, "before"))
    BY <1>4 DEF PauseBefore
  <2>2. UnderWay' /\ PausedAfterANode' /\ Position' = At("before", r)
    BY <2>1, ReturnsPaused
  <2>3. Position = At("before", r)
    BY <1>0, <2>1, GraphAssumption DEF Positioned, Futile
  <2> QED
    BY <1>2, <2>2, <2>3 DEF ResumeInv
<1>5. CASE StartNode(Driver)
  <2>1. /\ r.pc = "head" /\ r.stepCount < MaxSteps /\ Latest' = Latest
        /\ R = [r EXCEPT !.pc = "node", !.skip = FALSE]
    BY <1>0, <1>5, LatestKept DEF StartNode
  <2>2. /\ R.pc = "node" /\ R.currentNode = r.currentNode /\ R.state = r.state
        /\ R.from = r.from /\ R.stepCount = r.stepCount
    BY <1>0, <2>1 DEF Run
  <2>3. UnderWay' /\ PausedAfterANode'
    BY <1>0, <2>1, <2>2 DEF UnderWay, AtPause, PausedAfterANode
  <2>4. Position = At("before", r) /\ Position' = At("before", R)
    BY <1>0, <2>1, <2>2, GraphAssumption DEF Positioned, Futile
  <2> QED
    BY <1>2, <2>2, <2>3, <2>4 DEF ResumeInv, At
<1>6. CASE FinishNode(Driver)
  <2>1. PICK s \in {Merged(r.state, r.currentNode), r.state} :
            R = [r EXCEPT !.pc = "save", !.state = s, !.stepCount = r.stepCount + 1]
    BY <1>0, <1>6 DEF FinishNode
  <2>2. r.pc = "node" /\ Latest' = Latest
    BY <1>6, LatestKept DEF FinishNode
  <2>3. /\ R.pc = "save" /\ R.currentNode = r.currentNode /\ R.state = s
        /\ R.from = r.from /\ R.stepCount = r.stepCount + 1
    BY <1>0, <2>1 DEF Run
  <2>4. UnderWay' /\ PausedAfterANode'
    BY <1>0, <2>2, <2>3 DEF UnderWay, AtPause, PausedAfterANode
  <2>5. Position = At("before", r) /\ Position' = At("after", R)
    BY <1>0, <2>2, <2>3 DEF Positioned, Futile
  <2>6. /\ Position.phase = "before" /\ Position.node = r.currentNode /\ Position.state = r.state
        /\ Position'.phase = "after" /\ Position'.node = r.currentNode /\ Position'.state = s
    BY <2>3, <2>5, AtParts
  <2>7. s \in {[Position.state EXCEPT ![Position.node] = @ + 1], Position.state}
    BY <2>1, <2>6 DEF Merged
  <2>8. Walk!Visit
    BY <2>6, <2>7 DEF Walk!Visit
  <2> QED
    BY <1>2, <2>4, <2>8 DEF ResumeInv, Walk!Next
<1>7. CASE SaveStep(Driver)
  <2>1. PICK next \in {"after", "route"} :
            /\ R = [r EXCEPT !.pc = next]
            /\ next = "after" => r.currentNode \in InterruptAfter
    BY <1>0, <1>7 DEF SaveStep
  <2>2. r.pc = "save" /\ Save(MakeCheckpoint(r, "none"))
    BY <1>7 DEF SaveStep
  <2>3. Latest' = MakeCheckpoint(r, "none") /\ ~Interrupted(Latest')
    <3>1. Latest' = MakeCheckpoint(r, "none")
      BY <1>0, <2>2, MakeCheckpointType, SavedLatest DEF IInv
    <3> QED
      BY <3>1 DEF MakeCheckpoint, Interrupted
  <2>4. /\ R.pc = next /\ R.currentNode = r.currentNode /\ R.state = r.state
        /\ R.from = r.from /\ R.stepCount = r.stepCount
    BY <1>0, <2>1 DEF Run
  <2>5. UnderWay' /\ PausedAfterANode'
    BY <1>0, <2>1, <2>2, <2>3, <2>4 DEF UnderWay, AtPause, PausedAfterANode, MakeCheckpoint
  <2>6. Position = At("after", r) /\ Position' = At("after", R)
    BY <1>0, <2>2, <2>4 DEF Positioned
  <2> QED
    BY <1>2, <2>4, <2>5, <2>6 DEF ResumeInv, At
<1>8. CASE PauseAfter(Driver)
  <2>1. /\ r.pc = "after" /\ Return(Driver, "interrupted") /\ Save(MakeCheckpoint(r, "after"))
    BY <1>8 DEF PauseAfter
  <2>2. ~IsFork(r.currentNode)
    BY <1>0, <2>1 DEF UnderWay, ForksUnpaused
  <2>3. UnderWay' /\ PausedAfterANode' /\ Position' = At("after", r)
    BY <2>1, <2>2, ReturnsPaused
  <2>4. Position = At("after", r)
    BY <1>0, <2>1 DEF Positioned
  <2> QED
    BY <1>2, <2>3, <2>4 DEF ResumeInv
<1>9. CASE Route(Driver)
  <2>1. PICK n \in ResolveNextNode(r.currentNode) :
            IF n = END THEN Return(Driver, "complete") ELSE Goto(Driver, n, r)
    BY <1>9 DEF Route
  <2>2. r.pc = "route" /\ ~IsFork(r.currentNode) /\ Latest' = Latest
    BY <1>9, LatestKept DEF Route
  <2>3. ~Interrupted(Latest) /\ Position = At("after", r) /\ r.currentNode \in Nodes
    BY <1>0, <2>2 DEF UnderWay, AtPause, Positioned, Run
  <2>4. CASE n = END
    <3>1. UnderWay' /\ PausedAfterANode' /\ Position' = At("start", NoCheckpoint)
      BY <2>1, <2>2, <2>3, <2>4, ReturnsToStart
    <3>2. /\ Edge[r.currentNode].type # "parallel"
          /\ Edge[r.currentNode].type = "unconditional" => END \in Edge[r.currentNode].targets
      BY <2>2, <2>4 DEF IsFork, ResolveNextNode
    <3>3. Walk!Follow
      BY <2>3, <3>1, <3>2, AtParts DEF Walk!Follow, Walk!AtStart, Walk!Nothing, NoCheckpoint, Input
    <3> QED
      BY <1>2, <3>1, <3>3 DEF ResumeInv, Walk!Next
  <2>5. CASE n # END
    <3>1. R = [r EXCEPT !.pc = "head", !.currentNode = n]
      BY <1>0, <2>1, <2>5 DEF Goto
    <3>2. /\ R.pc = "head" /\ R.currentNode = n /\ R.state = r.state
          /\ R.from = r.from /\ R.stepCount = r.stepCount
      BY <1>0, <3>1 DEF Run
    <3>3. UnderWay' /\ PausedAfterANode' /\ ~AtPause(R)
      BY <1>0, <2>2, <2>3, <3>2 DEF UnderWay, AtPause, PausedAfterANode
    <3>4. Position' = At("before", R)
      BY <1>0, <3>2, <3>3 DEF Positioned, Futile, AtPause
    <3>5. /\ n \in Edge[r.currentNode].targets \ {END}
          /\ Edge[r.currentNode].type \in {"unconditional", "conditional"}
      BY <2>1, <2>3, <2>5, GraphAssumption DEF ResolveNextNode
    <3>6. Walk!Follow
      BY <2>3, <3>2, <3>4, <3>5, AtParts DEF Walk!Follow
    <3> QED
      BY <1>2, <3>3, <3>6 DEF ResumeInv, Walk!Next
  <2> QED
    BY <2>4, <2>5
<1>10. CASE Fork(Driver)
  <2>1. /\ r.pc = "route" /\ IsFork(r.currentNode) /\ Latest' = Latest
        /\ R = [r EXCEPT !.pc = "branches", !.fulfilled = {}, !.pending = Branches(r.currentNode)]
    BY <1>0, <1>10, LatestKept DEF Fork
  <2>2. /\ R.pc = "branches" /\ R.currentNode = r.currentNode /\ R.state = r.state
        /\ R.from = r.from /\ R.stepCount = r.stepCount
    BY <1>0, <2>1 DEF Run
  <2>3. UnderWay' /\ PausedAfterANode'
    BY <1>0, <2>1, <2>2 DEF UnderWay, AtPause, PausedAfterANode
  <2>4. Position = At("after", r) /\ Position' = At("after", R)
    BY <1>0, <2>1, <2>2 DEF Positioned
  <2> QED
    BY <1>2, <2>2, <2>3, <2>4 DEF ResumeInv, At
<1>11. ASSUME NEW b \in r.pending, SettleBranch(Driver, b)
       PROVE  ResumeInv' /\ (Walk!Next \/ Position' = Position)
  <2>1. PICK f \in {r.fulfilled \cup {b}, r.fulfilled} :
            R = [r EXCEPT !.pending = r.pending \ {b}, !.fulfilled = f]
    BY <1>0, <1>11 DEF SettleBranch
  <2>2. r.pc = "branches" /\ Latest' = Latest
    BY <1>11, LatestKept DEF SettleBranch
  <2>3. /\ R.pc = "branches" /\ R.currentNode = r.currentNode /\ R.state = r.state
        /\ R.from = r.from /\ R.stepCount = r.stepCount
    BY <1>0, <2>1, <2>2 DEF Run
  <2>4. UnderWay' /\ PausedAfterANode'
    BY <1>0, <2>2, <2>3 DEF UnderWay, AtPause, PausedAfterANode
  <2>5. Position = At("after", r) /\ Position' = At("after", R)
    BY <1>0, <2>2, <2>3 DEF Positioned
  <2> QED
    BY <1>2, <2>3, <2>4, <2>5 DEF ResumeInv, At
<1>12. CASE JoinBranches(Driver)
  <2>1. /\ r.pc = "branches" /\ Latest' = Latest
        /\ IF Edge[r.currentNode].then = END THEN Return(Driver, "complete")
           ELSE Goto(Driver, Edge[r.currentNode].then, Joined(r))
    BY <1>12, LatestKept DEF JoinBranches
  <2>2. /\ ~Interrupted(Latest) /\ Position = At("after", r) /\ r.currentNode \in Nodes
        /\ Edge[r.currentNode].type = "parallel"
    BY <1>0, <2>1 DEF UnderWay, AtPause, Positioned, Run, IsFork
  <2>3. CASE Edge[r.currentNode].then = END
    <3>1. UnderWay' /\ PausedAfterANode' /\ Position' = At("start", NoCheckpoint)
      BY <2>1, <2>2, <2>3, ReturnsToStart
    <3>2. Walk!FanOut
      BY <2>2, <2>3, <3>1, AtParts DEF Walk!FanOut, Walk!AtStart, Walk!Nothing, NoCheckpoint, Input
    <3> QED
      BY <1>2, <3>1, <3>2 DEF ResumeInv, Walk!Next
  <2>4. CASE Edge[r.currentNode].then # END
    <3> DEFINE s == MergedBranches(r.state, r.currentNode, r.fulfilled)
               k == Len(Edge[r.currentNode].branches)
    <3>1. R = [Joined(r) EXCEPT !.pc = "head", !.currentNode = Edge[r.currentNode].then]
      BY <1>0, <2>1, <2>4 DEF Goto
    <3>2. /\ R.pc = "head" /\ R.currentNode = Edge[r.currentNode].then /\ R.state = s
          /\ R.from = r.from /\ R.stepCount = r.stepCount + k
      BY <1>0, <3>1 DEF Run, Joined
    <3>3. k \in Nat
      BY <2>2, GraphAssumption
    <3>4. Interrupted(r.from) => r.from.stepCount < r.stepCount
      BY <1>0, <2>1 DEF UnderWay, AtPause
    <3> HIDE DEF k, s
    <3>5. UnderWay' /\ PausedAfterANode' /\ ~AtPause(R)
      BY <1>0, <2>1, <2>2, <3>2, <3>3, <3>4 DEF UnderWay, AtPause, PausedAfterANode
    <3>6. Position' = At("before", R)
      BY <1>0, <3>2, <3>5 DEF Positioned, Futile, AtPause
    <3> DEFINE succeeded == {b \in Branches(r.currentNode) : b \in r.fulfilled}
    <3>7. \A x : {b \in succeeded : Edge[r.currentNode].branches[b] = x}
                   = {b \in Branches(r.currentNode) : b \in r.fulfilled /\ Edge[r.currentNode].branches[b] = x}
      OBVIOUS
    <3>8. s = [x \in Nodes \cup Edits |-> r.state[x] +
                  Cardinality({b \in succeeded : Edge[r.currentNode].branches[b] = x})]
      BY <3>7 DEF s, MergedBranches
    <3>9. succeeded \in SUBSET (DOMAIN Edge[r.currentNode].branches)
      BY DEF Branches
    <3> HIDE DEF succeeded
    <3>10. /\ Position.phase = "after" /\ Position.node = r.currentNode /\ Position.state = r.state
           /\ Position'.phase = "before" /\ Position'.node = Edge[r.currentNode].then
           /\ Position'.state = s
      BY <2>2, <3>2, <3>6, AtParts
    <3>11. Position'.state = [x \in Nodes \cup Edits |-> Position.state[x] +
                  Cardinality({b \in succeeded : Edge[Position.node].branches[b] = x})]
      BY <3>8, <3>10
    <3>12. \E S \in SUBSET (DOMAIN Edge[Position.node].branches) :
              Position'.state = [x \in Nodes \cup Edits |-> Position.state[x] +
                  Walk!Cardinality({b \in S : Edge[Position.node].branches[b] = x})]
      <4>1. succeeded \in SUBSET (DOMAIN Edge[Position.node].branches)
        BY <3>9, <3>10
      <4> QED
        BY <3>11, <4>1, WalkCounts
    <3>13. /\ Edge[Position.node].type = "parallel" /\ Edge[Position.node].then # END
           /\ Position'.node = Edge[Position.node].then
      BY <2>2, <2>4, <3>10
    <3>14. Walk!FanOut
      BY <3>10, <3>12, <3>13, Zenon DEF Walk!FanOut
    <3> QED
      BY <1>2, <3>5, <3>14 DEF ResumeInv, Walk!Next
  <2> QED
    BY <2>3, <2>4
<1> QED
  BY <1>3, <1>4, <1>5, <1>6, <1>7, <1>8, <1>9, <1>10, <1>11, <1>12 DEF Advance


\* updateState(): the human amends the state where the walk stands.
LEMMA EditWalks ==
    ASSUME IInv, ResumeInv, NEW u \in Edits,
           (Quiet /\ ~Completed /\ UpdateLoad(u)) \/ UpdateSave(u)
    PROVE  ResumeInv' /\ (Walk!Next \/ Position' = Position)
<1>0. /\ run' = run /\ result' = result /\ Positioned /\ Positioned'
      /\ edit \in [Edits -> [pc : {"unused", "loaded", "done"}, base : Checkpoint]]
  BY WhereItIs, WhereItGoes DEF UpdateLoad, UpdateSave, IInv, TypeOK
<1>1. CASE Quiet /\ ~Completed /\ UpdateLoad(u)
  <2>1. /\ run[Driver].pc = "idle" /\ Interrupted(Latest) /\ ~Completed /\ Latest' = Latest
        /\ edit' = [edit EXCEPT ![u] = [pc |-> "loaded", base |-> Latest]]
        /\ \A v \in Edits : edit[v].pc # "loaded"
    BY <1>1, LatestKept DEF Quiet, UpdateLoad
  <2>2. EditsAlone'
    BY <1>0, <2>1 DEF EditsAlone, Completed
  <2>3. UnderWay' /\ PausedAfterANode'
    BY <1>0, <2>1 DEF ResumeInv, UnderWay, PausedAfterANode
  <2>4. Position' = Position
    BY <1>0, <2>1 DEF Positioned, Completed
  <2> QED
    BY <2>2, <2>3, <2>4 DEF ResumeInv
<1>2. CASE UpdateSave(u)
  <2> DEFINE cp == [Latest EXCEPT !.state = Merged(Latest.state, u)]
  <2>1. /\ edit[u].pc = "loaded" /\ edit[u].base = Latest /\ run[Driver].pc = "idle"
        /\ Interrupted(Latest) /\ ~Completed
        /\ \A v \in Edits : edit[v].pc = "loaded" => v = u
    BY <1>2 DEF UpdateSave, ResumeInv, EditsAlone
  <2>2. /\ Save(cp)
        /\ edit' = [edit EXCEPT ![u] = [pc |-> "done", base |-> NoCheckpoint]]
    BY <1>2, <2>1 DEF UpdateSave
  <2>3. Latest \in Checkpoint /\ Merged(Latest.state, u) \in State
    BY DriverLocals, MergeTypes DEF Checkpoint
  <2>4. /\ cp \in Checkpoint /\ cp.interruptType = Latest.interruptType
        /\ cp.currentNode = Latest.currentNode /\ cp.state = Merged(Latest.state, u)
    BY <2>3 DEF Checkpoint
  <2>5. Latest' = cp
    BY <2>2, <2>4, SavedLatest DEF IInv
  <2> HIDE DEF cp
  <2>6. EditsAlone'
    BY <1>0, <2>1, <2>2 DEF EditsAlone
  <2>7. UnderWay' /\ PausedAfterANode'
    BY <1>0, <2>1, <2>4, <2>5 DEF ResumeInv, UnderWay, PausedAfterANode
  <2>8. Interrupted(Latest') /\ ~Completed'
    BY <1>0, <2>1, <2>4, <2>5 DEF Interrupted, Completed
  <2>9. Position = At(Latest.interruptType, Latest) /\ Position' = At(cp.interruptType, cp)
    BY <1>0, <2>1, <2>5, <2>8 DEF Positioned
  <2>10. Latest.interruptType # "start"
    BY <2>3 DEF Checkpoint
  <2>11. Walk!Amend
    BY <2>4, <2>9, <2>10, AtParts DEF Walk!Amend, Merged
  <2> QED
    BY <2>6, <2>7, <2>11 DEF ResumeInv, Walk!Next
<1> QED
  BY <1>1, <1>2

\* Every step of the driver is a step of the walk, or does not move it.
LEMMA WalkStep ==
    ASSUME ForksUnpaused
    PROVE  IInv /\ ResumeInv /\ [SerialNext]_vars => ResumeInv' /\ [Walk!Next]_(Walk!vars)
<1> SUFFICES ASSUME IInv, ResumeInv, [SerialNext]_vars
             PROVE  ResumeInv' /\ (Walk!Next \/ Position' = Position)
  BY DEF Walk!vars
<1>1. CASE SerialNext
  BY <1>1, InvokeWalks, AdvanceWalks, EditWalks DEF SerialNext
<1>2. CASE UNCHANGED vars
  <2>1. Latest' = Latest /\ Completed' = Completed
    BY <1>2, LatestKept DEF vars, Completed
  <2>2. ResumeInv'
    BY <1>2, <2>1 DEF vars, ResumeInv, UnderWay, EditsAlone, PausedAfterANode
  <2>3. Position' = Position
    BY <1>2, <2>1 DEF vars, Position
  <2> QED
    BY <2>2, <2>3
<1> QED
  BY <1>1, <1>2

\* However a run is cut up by interrupts, resumes and edits, its calls together are
\* one walk of the graph, for any graph that pauses after no source of a fan-out.
THEOREM PausesDoNotShow ==
    ASSUME ForksUnpaused
    PROVE  SerialSpec => PausesAreInvisible
<1>1. Init => ResumeInv /\ Walk!Init
  <2> SUFFICES ASSUME Init PROVE ResumeInv /\ Walk!Init
    OBVIOUS
  <2>1. Latest = NoCheckpoint /\ ~Interrupted(Latest) /\ run[Driver].pc = "idle"
    BY DriverAssumption DEF Init, Latest, NoCheckpoint, Interrupted, IdleRun
  <2>2. ResumeInv
    BY <2>1 DEF Init, ResumeInv, UnderWay, EditsAlone, PausedAfterANode, NoCheckpoint
  <2>3. Position = At("start", NoCheckpoint)
    BY <2>1, WhereItIs DEF Positioned
  <2> QED
    BY <2>2, <2>3, AtParts DEF Walk!Init, Walk!Nothing, NoCheckpoint, Input
<1>2. SerialSpec => []IInv
  BY SerialStep, Invariant, PTL DEF SerialSpec, Spec
<1>3. IInv /\ ResumeInv /\ [SerialNext]_vars => ResumeInv' /\ [Walk!Next]_(Walk!vars)
  BY WalkStep
<1> QED
  BY <1>1, <1>2, <1>3, PTL DEF SerialSpec, PausesAreInvisible, Walk!Spec

-----------------------------------------------------------------------------
(***************************************************************************)
(* DurableStep.tla, for a worker that sends idempotency keys, for any      *)
(* graph, any number of turns, lost answers, failures, restarts and        *)
(* deliveries that overlap: no gate opens that nobody approved.            *)
(***************************************************************************)
\* A step's turn runs alone, before its answer is kept and before the worker has one.
Alone ==
    \A c \in Calls : turn[c].at # "idle" =>
        /\ turn[c].step = step /\ kept[step] = NoAnswer /\ worker.status = "none"
        /\ \A d \in Calls : turn[d].at # "idle" => d = c

\* The graph runs only for a turn.
InGraph == \A c \in Calls : run[c].pc # "idle" => turn[c].at = "graph"

\* No answer is kept for a step that is still to come.
Unkept == \A s \in 0 .. MaxTurns : s > step => kept[s] = NoAnswer

\* What the worker was told is what is kept, and a pause it was told about is the
\* thread's latest checkpoint.
Told ==
    ~restarted =>
        /\ worker.status # "none" => worker = kept[step]
        /\ kept[step].status = "needs_approval" => /\ Interrupted(Latest)
                                                   /\ kept[step].pause = Latest

\* What the guard of the first turn has seen is still so when the turn goes on.
FirstGuarded == step = 0 => \A c \in Calls : turn[c].at = "invoke" => ~Interrupted(Latest)

\* A later turn that has no answer yet finds the pause it was approved for, unless a
\* turn has failed half way.
Cleared ==
    step > 0 /\ ~restarted /\ kept[step] = NoAnswer =>
        /\ Interrupted(Latest) => Latest \in approved
        /\ crashes = 0 /\ (\A c \in Calls : turn[c].at # "graph") => Interrupted(Latest)

\* The pause a call of the graph resumed from was an approved one.
FromCleared ==
    \A c \in Calls : turn[c].at = "graph" =>
        /\ (step = 0 \/ ~restarted) /\ Interrupted(run[c].from) => run[c].from \in approved
        /\ crashes = 0 /\ step > 0 => Interrupted(run[c].from)

\* A restart counts as a crash.
Remembers == restarted => crashes > 0

DInv == /\ IInv /\ DTypeOK /\ Alone /\ InGraph /\ Unkept /\ Told /\ FirstGuarded
        /\ Cleared /\ FromCleared /\ Remembers

-----------------------------------------------------------------------------
(* What the engine does in a step of the handler.                          *)

\* A call that starts has loaded the latest pause, or starts afresh if there is none.
LEMMA InvokeEffects ==
    ASSUME IInv, NEW c \in Calls, InvokeFresh(c) \/ InvokeResume(c)
    PROVE  /\ run[c].pc = "idle" /\ run'[c].from = IF Interrupted(Latest) THEN Latest ELSE NoCheckpoint
           /\ \A d \in Calls \ {c} : run'[d] = run[d]
           /\ UNCHANGED <<checkpoints, crashes>>
<1>1. run[c].pc = "idle" /\ UNCHANGED <<checkpoints, crashes>>
  BY DEF InvokeFresh, InvokeResume
<1>2. \E n, skip : Start(c, n, IF Interrupted(Latest) THEN Latest ELSE NoCheckpoint, skip)
  BY DEF InvokeFresh, InvokeResume, Interrupted
<1>3. PICK n, skip, cp : Start(c, n, cp, skip) /\ cp = IF Interrupted(Latest) THEN Latest ELSE NoCheckpoint
  BY <1>2
<1> DEFINE r == [IdleRun EXCEPT !.pc = "head", !.currentNode = n, !.state = cp.state,
                    !.stepCount = cp.stepCount, !.skip = skip, !.from = cp]
<1>4. r.from = cp
  BY DEF IdleRun
<1>5. run' = [run EXCEPT ![c] = r] /\ run \in [Calls -> Run]
  BY <1>3 DEF Start, IInv, TypeOK
<1> HIDE DEF r
<1>6. run'[c] = r /\ \A d \in Calls \ {c} : run'[d] = run[d]
  BY <1>5
<1> QED
  BY <1>1, <1>3, <1>4, <1>6

\* A call that goes on keeps the pause it came from and saves no pause; one that is
\* over has saved the pause it reports, or reports none.
LEMMA AdvanceEffects ==
    ASSUME IInv, NEW c \in Calls, Advance(c)
    PROVE  /\ crashes' = crashes /\ \A d \in Calls \ {c} : run'[d] = run[d]
           /\ \/ /\ run'[c].pc # "idle" /\ run'[c].from = run[c].from
                 /\ Latest' = Latest \/ ~Interrupted(Latest')
              \/ run'[c].pc = "idle" /\ result'[c] # "interrupted"
              \/ /\ run'[c].pc = "idle" /\ Interrupted(Latest')
                 /\ checkpoints'[Len(checkpoints')] = Latest'
<1> DEFINE Goes == /\ crashes' = crashes /\ \A d \in Calls \ {c} : run'[d] = run[d]
                   /\ run'[c].pc # "idle" /\ run'[c].from = run[c].from
                   /\ Latest' = Latest \/ ~Interrupted(Latest')
           Ends == /\ crashes' = crashes /\ \A d \in Calls \ {c} : run'[d] = run[d]
                   /\ run'[c].pc = "idle"
           Paused == Ends /\ Interrupted(Latest') /\ checkpoints'[Len(checkpoints')] = Latest'
<1>0. TypeOK /\ run \in [Calls -> Run] /\ run[c] \in Run
      /\ result \in [Calls -> {"none", "complete", "interrupted", "max_steps", "crashed"}]
  BY DEF IInv, TypeOK
<1>1. ASSUME NEW status, Return(c, status), crashes' = crashes
      PROVE  Ends /\ result'[c] = status
  BY <1>0, <1>1 DEF Return, IdleRun
<1>2. ASSUME NEW r, run' = [run EXCEPT ![c] = r], r.pc # "idle", r.from = run[c].from,
             crashes' = crashes, checkpoints' = checkpoints
      PROVE  Goes
  <2>1. Latest' = Latest
    BY <1>2 DEF Latest
  <2>2. run'[c] = r /\ \A d \in Calls \ {c} : run'[d] = run[d]
    BY <1>0, <1>2
  <2> QED
    BY <1>2, <2>1, <2>2
<1>3. ExhaustSteps(c) => Ends /\ result'[c] # "interrupted"
  BY <1>1 DEF ExhaustSteps
<1>4. PauseBefore(c) => Paused
  <2> SUFFICES ASSUME PauseBefore(c) PROVE Paused
    OBVIOUS
  <2>1. MakeCheckpoint(run[c], "before") \in Checkpoint /\ Interrupted(MakeCheckpoint(run[c], "before"))
    BY <1>0, MakeCheckpointType DEF MakeCheckpoint, Interrupted
  <2> QED
    BY <1>0, <1>1, <2>1, SavedLatest DEF PauseBefore
<1>5. PauseAfter(c) => Paused
  <2> SUFFICES ASSUME PauseAfter(c) PROVE Paused
    OBVIOUS
  <2>1. MakeCheckpoint(run[c], "after") \in Checkpoint /\ Interrupted(MakeCheckpoint(run[c], "after"))
    BY <1>0, MakeCheckpointType DEF MakeCheckpoint, Interrupted
  <2> QED
    BY <1>0, <1>1, <2>1, SavedLatest DEF PauseAfter
<1>6. StartNode(c) => Goes
  <2> DEFINE r == [run[c] EXCEPT !.pc = "node", !.skip = FALSE]
  <2>1. r.pc # "idle" /\ r.from = run[c].from
    BY <1>0 DEF Run
  <2>2. StartNode(c) => run' = [run EXCEPT ![c] = r] /\ UNCHANGED <<crashes, checkpoints>>
    BY DEF StartNode
  <2> HIDE DEF r, Goes
  <2> QED
    BY <1>2, <2>1, <2>2
<1>7. FinishNode(c) => Goes
  <2> SUFFICES ASSUME FinishNode(c) PROVE Goes
    OBVIOUS
  <2>1. PICK s : run' = [run EXCEPT ![c] = [run[c] EXCEPT !.pc = "save", !.state = s,
                                                          !.stepCount = run[c].stepCount + 1]]
    BY DEF FinishNode
  <2> DEFINE r == [run[c] EXCEPT !.pc = "save", !.state = s, !.stepCount = run[c].stepCount + 1]
  <2>2. r.pc # "idle" /\ r.from = run[c].from
    BY <1>0 DEF Run
  <2>3. UNCHANGED <<crashes, checkpoints>>
    BY DEF FinishNode
  <2> HIDE DEF r, Goes
  <2> QED
    BY <1>2, <2>1, <2>2, <2>3 DEF r
<1>8. SaveStep(c) => Goes
  <2> SUFFICES ASSUME SaveStep(c) PROVE Goes
    OBVIOUS
  <2>1. PICK pc \in {"after", "route"} : run' = [run EXCEPT ![c] = [run[c] EXCEPT !.pc = pc]]
    BY DEF SaveStep
  <2>2. run'[c].pc # "idle" /\ run'[c].from = run[c].from /\ \A d \in Calls \ {c} : run'[d] = run[d]
    BY <1>0, <2>1 DEF Run
  <2>3. MakeCheckpoint(run[c], "none") \in Checkpoint /\ ~Interrupted(MakeCheckpoint(run[c], "none"))
    BY <1>0, MakeCheckpointType DEF MakeCheckpoint, Interrupted
  <2>4. ~Interrupted(Latest') /\ crashes' = crashes
    BY <1>0, <2>3, SavedLatest DEF SaveStep
  <2> QED
    BY <2>2, <2>4
<1>9. Route(c) => Goes \/ (Ends /\ result'[c] # "interrupted")
  <2> SUFFICES ASSUME Route(c) PROVE Goes \/ (Ends /\ result'[c] # "interrupted")
    OBVIOUS
  <2>1. PICK n : IF n = END THEN Return(c, "complete") ELSE Goto(c, n, run[c]) /\ result' = result
    BY DEF Route
  <2>2. UNCHANGED <<crashes, checkpoints>>
    BY DEF Route
  <2> DEFINE r == [run[c] EXCEPT !.pc = "head", !.currentNode = n]
  <2>3. r.pc # "idle" /\ r.from = run[c].from
    BY <1>0 DEF Run
  <2>4. n # END => run' = [run EXCEPT ![c] = r]
    BY <2>1 DEF Goto
  <2> HIDE DEF r, Goes, Ends
  <2> QED
    BY <1>1, <1>2, <2>1, <2>2, <2>3, <2>4
<1>10. Fork(c) => Goes
  <2> DEFINE r == [run[c] EXCEPT !.pc = "branches", !.fulfilled = {},
                                 !.pending = Branches(run[c].currentNode)]
  <2>1. r.pc # "idle" /\ r.from = run[c].from
    BY <1>0 DEF Run
  <2>2. Fork(c) => run' = [run EXCEPT ![c] = r] /\ UNCHANGED <<crashes, checkpoints>>
    BY DEF Fork
  <2> HIDE DEF r, Goes
  <2> QED
    BY <1>2, <2>1, <2>2
<1>11. ASSUME NEW b, SettleBranch(c, b) PROVE Goes
  <2>1. PICK f : run' = [run EXCEPT ![c] = [run[c] EXCEPT !.pending = run[c].pending \ {b},
                                                          !.fulfilled = f]]
    BY <1>11 DEF SettleBranch
  <2> DEFINE r == [run[c] EXCEPT !.pending = run[c].pending \ {b}, !.fulfilled = f]
  <2>2. r.pc # "idle" /\ r.from = run[c].from
    BY <1>0, <1>11 DEF Run, SettleBranch
  <2>3. UNCHANGED <<crashes, checkpoints>>
    BY <1>11 DEF SettleBranch
  <2> HIDE DEF r, Goes
  <2> QED
    BY <1>2, <2>1, <2>2, <2>3 DEF r
<1>12. JoinBranches(c) => Goes \/ (Ends /\ result'[c] # "interrupted")
  <2> SUFFICES ASSUME JoinBranches(c) PROVE Goes \/ (Ends /\ result'[c] # "interrupted")
    OBVIOUS
  <2> DEFINE n == Edge[run[c].currentNode].then
             r == [Joined(run[c]) EXCEPT !.pc = "head", !.currentNode = n]
  <2>1. IF n = END THEN Return(c, "complete") ELSE run' = [run EXCEPT ![c] = r]
    BY DEF JoinBranches, Goto
  <2>2. UNCHANGED <<crashes, checkpoints>>
    BY DEF JoinBranches
  <2>3. r.pc # "idle" /\ r.from = run[c].from
    BY <1>0 DEF Run, Joined
  <2> HIDE DEF r, n, Goes, Ends
  <2> QED
    BY <1>1, <1>2, <2>1, <2>2, <2>3
<1> QED
  BY <1>3, <1>4, <1>5, <1>6, <1>7, <1>8, <1>9, <1>10, <1>11, <1>12 DEF Advance
-----------------------------------------------------------------------------
(* The handler's own steps.                                                *)

\* The invariant without the engine's own.
Handler == /\ turn \in [Calls -> [at : {"idle", "guard", "invoke", "graph"}, step : 0 .. MaxTurns]]
           /\ kept \in [0 .. MaxTurns -> Answer] /\ step \in 0 .. MaxTurns /\ worker \in Answer
           /\ approved \subseteq Checkpoint /\ restarted \in BOOLEAN
           /\ Alone /\ InGraph /\ Unkept /\ Told /\ FirstGuarded /\ Cleared /\ FromCleared /\ Remembers

\* The invariant is the engine's and the handler's.
LEMMA DInvSplit == DInv <=> IInv /\ Handler
BY DEF DInv, DTypeOK, Handler, IInv

\* What a turn may answer.
LEMMA AnswerTypes ==
    /\ NoAnswer \in Answer /\ Done \in Answer /\ \A cp \in Checkpoint : NeedsApproval(cp) \in Answer
    /\ NoTurn \in [at : {"idle", "guard", "invoke", "graph"}, step : 0 .. MaxTurns]
<1>1. 0 \in 0 .. MaxTurns
  BY DurableAssumption
<1> QED
  BY <1>1, RestTypes DEF NoAnswer, Done, NeedsApproval, Answer, NoTurn

\* A turn that is over leaves the handler as it should be, if the pause it reports is
\* the thread's latest.
LEMMA ReplyStep ==
    ASSUME Keyed, Handler, NEW c \in Calls, turn[c].at # "idle", NEW answer \in Answer,
           answer.status # "none", Reply(c, answer),
           crashes' = crashes, run'[c].pc = "idle", \A d \in Calls \ {c} : run'[d] = run[d],
           answer.status = "needs_approval" => Interrupted(Latest') /\ answer.pause = Latest'
    PROVE  Handler'
<1>1. /\ turn' = [turn EXCEPT ![c] = NoTurn] /\ kept' = [kept EXCEPT ![step] = answer]
      /\ worker' \in {worker, answer} /\ UNCHANGED <<step, approved, restarted>>
      /\ worker.status = "none" /\ turn[c].step = step /\ \A d \in Calls : turn[d].at # "idle" => d = c
  BY DEF Reply, Handler, Alone
<1>2. \A d \in Calls : turn'[d].at = "idle"
  BY <1>1 DEF Handler, NoTurn
<1>3. /\ turn' \in [Calls -> [at : {"idle", "guard", "invoke", "graph"}, step : 0 .. MaxTurns]]
      /\ kept' \in [0 .. MaxTurns -> Answer] /\ worker' \in Answer
  BY <1>1, AnswerTypes DEF Handler
<1>4. kept'[step'] = answer /\ \A s \in 0 .. MaxTurns : s # step => kept'[s] = kept[s]
  BY <1>1 DEF Handler
<1>5. InGraph'
  <2> SUFFICES ASSUME NEW d \in Calls, run'[d].pc # "idle" PROVE FALSE
    BY DEF InGraph
  <2>1. d # c /\ run'[d] = run[d]
    OBVIOUS
  <2>2. turn[d].at = "graph"
    BY <2>1 DEF Handler, InGraph
  <2> QED
    BY <1>1, <2>1, <2>2
<1>6. Unkept'
  BY <1>1, <1>4 DEF Handler, Unkept
<1>7. Told'
  BY <1>1, <1>4 DEF Told
<1>8. Cleared'
  <2>1. answer # NoAnswer
    BY DEF NoAnswer
  <2> QED
    BY <1>4, <2>1 DEF Cleared
<1>9. Alone' /\ FirstGuarded' /\ FromCleared'
  BY <1>2 DEF Alone, FirstGuarded, FromCleared
<1>10. Remembers'
  BY <1>1 DEF Remembers, Handler
<1> QED
  BY <1>1, <1>3, <1>5, <1>6, <1>7, <1>8, <1>9, <1>10 DEF Handler

\* A turn is delivered only if none of its step runs or has succeeded.
LEMMA DeliverStep ==
    ASSUME Keyed, IInv, Handler, NEW c \in Calls, Deliver(c)
    PROVE  Handler'
<1>1. /\ worker.status = "none" /\ turn[c].at = "idle" /\ kept[step] = NoAnswer
      /\ \A d \in Calls : turn[d].at # "idle" => turn[d].step # step
      /\ UNCHANGED <<checkpoints, run, crashes, kept, step, worker, approved, restarted>>
  BY DEF Deliver, Remembered, vars
<1>2. \A d \in Calls : turn[d].at = "idle"
  BY <1>1 DEF Handler, Alone
<1>3. PICK at \in {"invoke", "guard"} : /\ turn' = [turn EXCEPT ![c] = [at |-> at, step |-> step]]
                                        /\ at = "invoke" => step > 0
  BY DEF Deliver
<1>4. turn' \in [Calls -> [at : {"idle", "guard", "invoke", "graph"}, step : 0 .. MaxTurns]]
  BY <1>3 DEF Handler
<1>5. turn'[c] = [at |-> at, step |-> step] /\ \A d \in Calls \ {c} : turn'[d] = turn[d]
  BY <1>3 DEF Handler
<1>6. Latest' = Latest
  BY <1>1 DEF Latest
<1>7. Alone'
  BY <1>1, <1>2, <1>5 DEF Alone
<1>8. \A d \in Calls : run[d].pc = "idle" /\ turn'[d].at # "graph"
  BY <1>2, <1>5 DEF Handler, InGraph
<1>9. InGraph' /\ FromCleared'
  BY <1>1, <1>8 DEF InGraph, FromCleared
<1>10. FirstGuarded'
  <2> SUFFICES ASSUME step = 0, NEW d \in Calls, turn'[d].at = "invoke" PROVE FALSE
    BY <1>1 DEF FirstGuarded
  <2> QED
    BY <1>2, <1>3, <1>5
<1>11. Cleared'
  BY <1>1, <1>2, <1>6 DEF Handler, Cleared
<1>12. Unkept' /\ Told' /\ Remembers'
  BY <1>1, <1>6 DEF Handler, Unkept, Told, Remembers
<1> QED
  BY <1>1, <1>4, <1>7, <1>9, <1>10, <1>11, <1>12 DEF Handler

\* The guard lets a first turn on only if the thread is not paused.
LEMMA GuardStep ==
    ASSUME Keyed, IInv, Handler, NEW c \in Calls, Guard(c)
    PROVE  Handler'
<1>0. turn[c].at = "guard" /\ UNCHANGED <<checkpoints, run, crashes>> /\ Latest' = Latest
      /\ Latest \in Checkpoint /\ run[c].pc = "idle"
  BY LatestType DEF Guard, vars, Latest, IInv, Handler, InGraph
<1>1. CASE Interrupted(Latest)
  <2>1. Reply(c, NeedsApproval(Latest))
    BY <1>1 DEF Guard
  <2>2. /\ NeedsApproval(Latest) \in Answer /\ NeedsApproval(Latest).status = "needs_approval"
        /\ NeedsApproval(Latest).pause = Latest
    BY <1>0, AnswerTypes DEF NeedsApproval
  <2> QED
    BY <1>0, <1>1, <2>1, <2>2, ReplyStep
<1>2. CASE ~Interrupted(Latest)
  <2>1. turn' = [turn EXCEPT ![c].at = "invoke"] /\ UNCHANGED <<kept, step, worker, approved, restarted>>
    BY <1>2 DEF Guard
  <2>2. /\ turn' \in [Calls -> [at : {"idle", "guard", "invoke", "graph"}, step : 0 .. MaxTurns]]
        /\ turn'[c].at = "invoke" /\ turn'[c].step = turn[c].step
        /\ \A d \in Calls \ {c} : turn'[d] = turn[d]
    BY <2>1 DEF Handler
  <2>3. Alone'
    BY <1>0, <2>1, <2>2 DEF Handler, Alone
  <2>4. InGraph' /\ FromCleared'
    BY <1>0, <2>1, <2>2 DEF Handler, InGraph, FromCleared
  <2>5. FirstGuarded' /\ Unkept' /\ Told' /\ Remembers'
    BY <1>0, <1>2, <2>1 DEF Handler, FirstGuarded, Unkept, Told, Remembers
  <2>6. Cleared'
    <3>1. (\A d \in Calls : turn'[d].at # "graph") => \A d \in Calls : turn[d].at # "graph"
      BY <1>0, <2>2
    <3> QED
      BY <1>0, <2>1, <3>1 DEF Handler, Cleared
  <2> QED
    BY <2>1, <2>2, <2>3, <2>4, <2>5, <2>6 DEF Handler
<1> QED
  BY <1>1, <1>2

\* A turn enters the graph at an approved pause, or afresh.
LEMMA EnterStep ==
    ASSUME Keyed, IInv, Handler, NEW c \in Calls, Enter(c)
    PROVE  Handler'
<1>0. turn[c].at = "invoke"
  BY DEF Enter
<1>1. CASE InvokeComplete(c) /\ Reply(c, Done)
  <2>1. /\ UNCHANGED <<checkpoints, crashes>> /\ run'[c].pc = "idle"
        /\ \A d \in Calls \ {c} : run'[d] = run[d]
    BY <1>1 DEF InvokeComplete, Return, IdleRun, IInv, TypeOK
  <2>2. Done \in Answer /\ Done.status = "done"
    BY AnswerTypes DEF Done
  <2> QED
    BY <1>0, <1>1, <2>1, <2>2, ReplyStep
<1>2. CASE /\ InvokeFresh(c) \/ InvokeResume(c)
           /\ turn' = [turn EXCEPT ![c].at = "graph"]
           /\ UNCHANGED <<kept, step, worker, approved, restarted>>
  <2>1. /\ run'[c].from = IF Interrupted(Latest) THEN Latest ELSE NoCheckpoint
        /\ \A d \in Calls \ {c} : run'[d] = run[d]
        /\ UNCHANGED <<checkpoints, crashes>>
    BY <1>2, InvokeEffects
  <2>2. /\ turn' \in [Calls -> [at : {"idle", "guard", "invoke", "graph"}, step : 0 .. MaxTurns]]
        /\ turn'[c].at = "graph" /\ turn'[c].step = turn[c].step
        /\ \A d \in Calls \ {c} : turn'[d] = turn[d]
    BY <1>2 DEF Handler
  <2>3. /\ turn[c].step = step /\ kept[step] = NoAnswer /\ worker.status = "none"
        /\ \A d \in Calls : turn[d].at # "idle" => d = c
    BY <1>0 DEF Handler, Alone
  <2>4. Latest' = Latest
    BY <2>1 DEF Latest
  <2>5. Alone'
    BY <1>2, <2>2, <2>3 DEF Alone
  <2>6. InGraph'
    BY <2>1, <2>2 DEF Handler, InGraph
  <2>7. FirstGuarded' /\ Unkept' /\ Told' /\ Remembers'
    <3>1. FirstGuarded'
      BY <2>2, <2>3 DEF FirstGuarded
    <3> QED
      BY <1>2, <2>1, <2>4, <3>1 DEF Handler, Unkept, Told, Remembers
  <2>8. Cleared'
    BY <1>2, <2>1, <2>2, <2>4 DEF Handler, Cleared
  <2>9. FromCleared'
    <3>1. ~Interrupted(NoCheckpoint)
      BY DEF Interrupted, NoCheckpoint
    <3>2. (step = 0 \/ ~restarted) /\ Interrupted(Latest) => Latest \in approved
      <4>1. CASE step = 0
        BY <1>0, <4>1 DEF Handler, FirstGuarded
      <4>2. CASE step # 0
        BY <2>3, <4>2 DEF Handler, Cleared
      <4> QED
        BY <4>1, <4>2
    <3>3. crashes = 0 /\ step > 0 => Interrupted(Latest)
      <4>1. \A d \in Calls : turn[d].at # "graph"
        BY <1>0, <2>3
      <4>2. crashes = 0 => ~restarted
        BY DEF Handler, Remembers
      <4> QED
        BY <2>3, <4>1, <4>2 DEF Handler, Cleared
    <3>4. ASSUME NEW d \in Calls, turn'[d].at = "graph" PROVE d = c
      BY <2>2, <2>3, <3>4
    <3> QED
      BY <1>2, <2>1, <3>1, <3>2, <3>3, <3>4 DEF FromCleared
  <2> QED
    BY <1>2, <2>2, <2>5, <2>6, <2>7, <2>8, <2>9 DEF Handler
<1> QED
  BY <1>1, <1>2 DEF Enter

\* A step of the graph leaves its turn running, or ends it with what was saved.
LEMMA RunGraphStep ==
    ASSUME Keyed, IInv, IInv', Handler, NEW c \in Calls, RunGraph(c)
    PROVE  Handler'
<1>0. /\ turn[c].at = "graph" /\ crashes' = crashes /\ \A d \in Calls \ {c} : run'[d] = run[d]
      /\ turn[c].step = step /\ kept[step] = NoAnswer /\ worker.status = "none"
      /\ \A d \in Calls : turn[d].at # "idle" => d = c
  BY AdvanceEffects DEF RunGraph, Handler, Alone
<1>1. CASE run'[c].pc # "idle"
  <2>1. UNCHANGED <<turn, kept, step, worker, approved, restarted>>
    BY <1>1 DEF RunGraph, dvars
  <2>2. run'[c].from = run[c].from /\ (Latest' = Latest \/ ~Interrupted(Latest'))
    BY <1>1, AdvanceEffects DEF RunGraph
  <2>3. Alone' /\ InGraph'
    BY <1>0, <2>1 DEF Handler, Alone, InGraph
  <2>4. FirstGuarded' /\ Unkept' /\ Remembers'
    BY <1>0, <2>1 DEF Handler, FirstGuarded, Unkept, Remembers
  <2>5. Told'
    BY <1>0, <2>1 DEF Handler, Told, NoAnswer
  <2>6. Cleared'
    BY <1>0, <2>1, <2>2 DEF Handler, Cleared
  <2>7. FromCleared'
    BY <1>0, <2>1, <2>2 DEF Handler, FromCleared
  <2> QED
    BY <2>1, <2>3, <2>4, <2>5, <2>6, <2>7 DEF Handler
<1>2. CASE run'[c].pc = "idle"
  <2> DEFINE answer == IF result'[c] = "interrupted"
                       THEN NeedsApproval(checkpoints'[Len(checkpoints')]) ELSE Done
  <2>1. Reply(c, answer)
    BY <1>2 DEF RunGraph
  <2>2. result'[c] = "interrupted" => /\ Interrupted(Latest')
                                      /\ checkpoints'[Len(checkpoints')] = Latest'
    BY <1>2, AdvanceEffects DEF RunGraph
  <2>3. Latest' \in Checkpoint
    BY LatestType, RestTypes DEF IInv, TypeOK, Latest
  <2>4. /\ answer \in Answer /\ answer.status # "none"
        /\ answer.status = "needs_approval" => Interrupted(Latest') /\ answer.pause = Latest'
    BY <2>2, <2>3, AnswerTypes DEF NeedsApproval, Done
  <2> HIDE DEF answer
  <2> QED
    BY <1>0, <1>2, <2>1, <2>4, ReplyStep
<1> QED
  BY <1>1, <1>2

\* A turn that fails half way leaves its step to be done.
LEMMA FailStep ==
    ASSUME Keyed, IInv, Handler, NEW c \in Calls, Fail(c)
    PROVE  Handler'
<1>1. /\ turn[c].at = "graph" /\ crashes' = crashes + 1 /\ crashes \in Nat
      /\ run'[c].pc = "idle" /\ \A d \in Calls \ {c} : run'[d] = run[d]
      /\ turn' = [turn EXCEPT ![c] = NoTurn]
      /\ UNCHANGED <<checkpoints, kept, step, worker, approved, restarted>>
  BY GraphAssumption DEF Fail, Crash, Return, IdleRun, IInv, TypeOK
<1>2. /\ turn' \in [Calls -> [at : {"idle", "guard", "invoke", "graph"}, step : 0 .. MaxTurns]]
      /\ \A d \in Calls : turn'[d].at = "idle"
  BY <1>1, AnswerTypes DEF Handler, Alone, NoTurn
<1>3. Latest' = Latest /\ crashes' # 0 /\ crashes' > 0
  BY <1>1 DEF Latest
<1>4. Alone' /\ FirstGuarded' /\ FromCleared'
  BY <1>2 DEF Alone, FirstGuarded, FromCleared
<1>5. InGraph'
  <2> SUFFICES ASSUME NEW d \in Calls, run'[d].pc # "idle" PROVE FALSE
    BY DEF InGraph
  <2>1. d # c /\ turn[d].at = "graph"
    BY <1>1 DEF Handler, InGraph
  <2> QED
    BY <1>1, <2>1 DEF Handler, Alone
<1>6. Unkept' /\ Told' /\ Cleared' /\ Remembers'
  BY <1>1, <1>3 DEF Handler, Unkept, Told, Cleared, Remembers
<1> QED
  BY <1>1, <1>2, <1>4, <1>5, <1>6 DEF Handler

\* A restart loses the turns and the answers that were kept.
LEMMA RestartStep ==
    ASSUME IInv, Handler, Restart
    PROVE  IInv' /\ Handler'
<1>1. /\ run' = [c \in Calls |-> IdleRun] /\ turn' = [c \in Calls |-> NoTurn]
      /\ kept' = [s \in 0 .. MaxTurns |-> NoAnswer] /\ restarted' = TRUE
      /\ UNCHANGED <<checkpoints, step, worker, approved>>
      /\ crashes' = crashes + 1 /\ crashes < MaxCrashes /\ crashes \in Nat /\ MaxCrashes \in Nat
  BY GraphAssumption DEF Restart, IInv, TypeOK
<1>2. TypeOK'
  <2>1. run' \in [Calls -> Run] /\ crashes' \in 0 .. MaxCrashes
    BY <1>1, RestTypes
  <2>2. result' \in [Calls -> {"none", "complete", "interrupted", "max_steps", "crashed"}]
    BY DEF Restart, IInv, TypeOK
  <2>3. edit' \in [Edits -> [pc : {"unused", "loaded", "done"}, base : Checkpoint]]
    BY RestTypes DEF Restart, IInv, TypeOK
  <2> QED
    BY <1>1, <2>1, <2>2, <2>3 DEF IInv, TypeOK
<1>3. SkipIsFresh' /\ GateHeld'
  BY <1>1 DEF SkipIsFresh, GateHeld, IdleRun
<1>4. /\ turn' \in [Calls -> [at : {"idle", "guard", "invoke", "graph"}, step : 0 .. MaxTurns]]
      /\ kept' \in [0 .. MaxTurns -> Answer] /\ \A c \in Calls : turn'[c].at = "idle"
  BY <1>1, AnswerTypes DEF NoTurn
<1>5. Alone' /\ InGraph' /\ FirstGuarded' /\ FromCleared'
  BY <1>1, <1>4 DEF Alone, InGraph, FirstGuarded, FromCleared, IdleRun
<1>6. Unkept' /\ Told' /\ Cleared' /\ Remembers'
  BY <1>1 DEF Unkept, Told, Cleared, Remembers
<1> QED
  BY <1>1, <1>2, <1>3, <1>4, <1>5, <1>6 DEF Handler, IInv

\* A human approves the pause that the thread is at.
LEMMA ApproveStep ==
    ASSUME Keyed, IInv, Handler, Approve
    PROVE  Handler'
<1>1. /\ worker.status = "needs_approval" /\ step < MaxTurns /\ step' = step + 1
      /\ approved' = approved \cup {worker.pause} /\ worker' = NoAnswer
      /\ UNCHANGED <<checkpoints, run, crashes, turn, kept, restarted>>
      /\ step \in 0 .. MaxTurns /\ MaxTurns \in Nat
  BY DurableAssumption DEF Approve, vars, Handler
<1>2. \A c \in Calls : turn[c].at = "idle"
  BY <1>1 DEF Handler, Alone
<1>3. Latest' = Latest /\ step' \in 0 .. MaxTurns /\ step' > step
  BY <1>1 DEF Latest
<1>4. kept[step'] = NoAnswer
  BY <1>3 DEF Handler, Unkept
<1>5. Alone' /\ InGraph' /\ FirstGuarded' /\ FromCleared'
  BY <1>1, <1>2 DEF Handler, Alone, InGraph, FirstGuarded, FromCleared
<1>6. Unkept'
  BY <1>1, <1>3 DEF Handler, Unkept
<1>7. Told'
  BY <1>1, <1>4 DEF Told, NoAnswer
<1>8. Cleared'
  <2>1. ~restarted => Interrupted(Latest) /\ worker.pause = Latest
    BY <1>1 DEF Handler, Told
  <2> QED
    BY <1>1, <1>3, <2>1 DEF Cleared
<1>9. worker' \in Answer /\ approved' \subseteq Checkpoint /\ Remembers'
  BY <1>1, AnswerTypes DEF Handler, Answer, Remembers
<1> QED
  BY <1>1, <1>3, <1>5, <1>6, <1>7, <1>8, <1>9 DEF Handler

\* A retry that gets the kept answer tells the worker what was told before, or lost.
LEMMA RecallStep ==
    ASSUME Keyed, IInv, Handler, Recall
    PROVE  Handler'
<1>1. /\ kept[step] # NoAnswer /\ worker' = kept[step]
      /\ UNCHANGED <<checkpoints, run, crashes, turn, kept, step, approved, restarted>>
  BY DEF Recall, vars
<1>2. \A c \in Calls : turn[c].at = "idle"
  BY <1>1 DEF Handler, Alone
<1>3. Latest' = Latest
  BY <1>1 DEF Latest
<1>4. Alone' /\ InGraph' /\ FirstGuarded' /\ FromCleared'
  BY <1>1, <1>2 DEF Handler, Alone, InGraph, FirstGuarded, FromCleared
<1>5. Unkept' /\ Told' /\ Cleared' /\ Remembers' /\ worker' \in Answer
  BY <1>1, <1>3 DEF Handler, Unkept, Told, Cleared, Remembers
<1> QED
  BY <1>1, <1>4, <1>5 DEF Handler

\* The handler's invariant is inductive.
LEMMA DurableNext ==
    ASSUME Keyed, DInv, [DNext]_allvars
    PROVE  DInv'
<1>0. IInv /\ Handler
  BY DInvSplit
<1>1. ASSUME NEW c \in Calls, Deliver(c) \/ Guard(c) PROVE DInv'
  <2>1. [Next]_vars
    BY <1>1 DEF Deliver, Guard
  <2>2. IInv' /\ Handler'
    BY <1>0, <1>1, <2>1, EngineStep, DeliverStep, GuardStep
  <2> QED
    BY <2>2 DEF DInv, DTypeOK, Handler, IInv
<1>2. ASSUME NEW c \in Calls, Enter(c) \/ RunGraph(c) \/ Fail(c) PROVE DInv'
  <2>1. Next
    BY <1>2 DEF Enter, RunGraph, Fail, Next, Invoke
  <2>2. IInv'
    BY <1>0, <2>1, EngineStep
  <2>3. Handler'
    BY <1>0, <1>2, <2>2, EnterStep, RunGraphStep, FailStep
  <2> QED
    BY <2>2, <2>3 DEF DInv, DTypeOK, Handler, IInv
<1>3. ASSUME Recall \/ Approve PROVE DInv'
  <2>1. [Next]_vars
    BY <1>3 DEF Recall, Approve
  <2>2. IInv' /\ Handler'
    BY <1>0, <1>3, <2>1, EngineStep, RecallStep, ApproveStep
  <2> QED
    BY <2>2 DEF DInv, DTypeOK, Handler, IInv
<1>4. CASE Restart
  <2>1. IInv' /\ Handler'
    BY <1>0, <1>4, RestartStep
  <2> QED
    BY <2>1 DEF DInv, DTypeOK, Handler, IInv
<1>5. CASE UNCHANGED allvars
  <2>1. UNCHANGED vars /\ UNCHANGED <<turn, kept, step, worker, approved, restarted>>
    BY <1>5 DEF allvars, dvars
  <2>2. UNCHANGED <<checkpoints, run, crashes>> /\ Latest' = Latest /\ IInv'
    BY <1>0, <2>1, EngineStep DEF vars, Latest
  <2>3. Handler'
    BY <1>0, <2>1, <2>2
       DEF Handler, Alone, InGraph, Unkept, Told, FirstGuarded, Cleared, FromCleared, Remembers
  <2> QED
    BY <2>2, <2>3 DEF DInv, DTypeOK, Handler, IInv
<1> QED
  BY <1>1, <1>2, <1>3, <1>4, <1>5 DEF DNext
-----------------------------------------------------------------------------
(* What follows for every run.                                             *)

\* With idempotency keys (src/src/runtime/serve.ts, durable.ts) the invariant holds
\* whatever is lost, sent again, restarted or approved.
THEOREM DurableInvariant == ASSUME Keyed PROVE DSpec => []DInv
<1>1. DInit => DInv
  <2> SUFFICES ASSUME DInit PROVE DInv
    OBVIOUS
  <2>1. IInv /\ crashes = 0 /\ run = [c \in Calls |-> IdleRun] /\ Latest = NoCheckpoint
    <3>1. TypeOK
      BY RestTypes, GraphAssumption DEF DInit, Init, TypeOK
    <3>2. SkipIsFresh /\ GateHeld
      BY DEF DInit, Init, SkipIsFresh, GateHeld, IdleRun
    <3> QED
      BY <3>1, <3>2 DEF DInit, Init, IInv, Latest
  <2>2. /\ turn = [c \in Calls |-> NoTurn] /\ kept = [s \in 0 .. MaxTurns |-> NoAnswer]
        /\ step = 0 /\ worker = NoAnswer /\ approved = {} /\ restarted = FALSE
        /\ 0 \in 0 .. MaxTurns
    BY DurableAssumption DEF DInit
  <2>3. /\ turn \in [Calls -> [at : {"idle", "guard", "invoke", "graph"}, step : 0 .. MaxTurns]]
        /\ kept \in [0 .. MaxTurns -> Answer] /\ worker \in Answer
        /\ \A c \in Calls : turn[c].at = "idle" /\ run[c].pc = "idle"
    BY <2>1, <2>2, AnswerTypes DEF NoTurn, IdleRun
  <2>4. Alone /\ InGraph /\ FirstGuarded /\ FromCleared
    BY <2>3 DEF Alone, InGraph, FirstGuarded, FromCleared
  <2>5. Unkept /\ Cleared /\ Remembers
    BY <2>2 DEF Unkept, Cleared, Remembers
  <2>6. Told
    BY <2>2 DEF Told, NoAnswer
  <2> QED
    BY <2>1, <2>2, <2>3, <2>4, <2>5, <2>6 DEF DInv, DTypeOK, IInv
<1>2. DInv /\ [DNext]_allvars => DInv'
  BY DurableNext
<1> QED
  BY <1>1, <1>2, PTL DEF DSpec

\* A gated node runs only on a pause that a human has approved.
THEOREM GateIsApproved == ASSUME Keyed PROVE DSpec => []GateApproved
<1>1. DInv => GateApproved
  <2> SUFFICES ASSUME DInv, step = 0 \/ ~restarted, NEW c \in Calls, run[c].pc = "node",
                      run[c].currentNode \in InterruptBefore
               PROVE  run[c].from \in approved
    BY DEF GateApproved
  <2>1. turn[c].at = "graph"
    BY DEF DInv, InGraph
  <2>2. Interrupted(run[c].from)
    BY DEF DInv, IInv, GateHeld, AtItsPause, Interrupted
  <2> QED
    BY <2>1, <2>2 DEF DInv, FromCleared
<1> QED
  BY <1>1, DurableInvariant, PTL

\* A turn after the first goes on from the pause; nothing but answers of the contract
\* reaches the worker.
THEOREM ResumeIsContinued == ASSUME Keyed PROVE DSpec => []ResumeContinues
<1>1. DInv => ResumeContinues
  <2> SUFFICES ASSUME DInv, crashes = 0, NEW c \in Calls, turn[c].at = "graph", turn[c].step > 0
               PROVE  Interrupted(run[c].from)
    BY DEF DInv, ResumeContinues
  <2>1. step > 0
    BY DEF DInv, Alone
  <2> QED
    BY <2>1 DEF DInv, FromCleared
<1> QED
  BY <1>1, DurableInvariant, PTL
=============================================================================
