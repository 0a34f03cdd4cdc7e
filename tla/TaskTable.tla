------------------------------ MODULE TaskTable ------------------------------
(***************************************************************************)
(* tasks/task.ts: the table of background tasks and its terminal-state     *)
(* guard. Whoever looks a task up acts on its copy later, when others may  *)
(* have moved the task on.                                                 *)
(***************************************************************************)
EXTENDS Integers, Sequences, FiniteSets

CONSTANTS
    Ids,       \* the ids generateTaskId draws
    Actors     \* those who work on tasks: workers, supervisors, whoever kills

VARIABLES
    tasks,     \* the records by id: their status, and who patched them last
    copy,      \* what each actor was handed by create() or get()
    verdict    \* history: the terminal transitions that answered true

vars == <<tasks, copy, verdict>>
-----------------------------------------------------------------------------
Terminal == {"completed", "failed", "killed"}

Absent == [status |-> "absent", by |-> "nobody"]

Init ==
    /\ tasks = [i \in Ids |-> Absent]
    /\ copy = [a \in Actors |-> [id |-> "nothing", status |-> "absent"]]
    /\ verdict = [i \in Ids |-> {}]

\* Mutant: a terminal state may be left for another.
CanMoveOn(from, to) ==
    /\ from # to
    /\ \/ from = "pending"
       \/ from \in {"running", "failed"} /\ to \in Terminal

\* canTransition
CanTransition(from, to) ==
    /\ from # to
    /\ \/ from = "pending"
       \/ from = "running" /\ to \in Terminal

Create(a, i) ==
    /\ tasks[i] = Absent
    /\ tasks' = [tasks EXCEPT ![i] = [status |-> "pending", by |-> a]]
    /\ copy' = [copy EXCEPT ![a] = [id |-> i, status |-> "pending"]]
    /\ UNCHANGED verdict

\* get() and list(): a shallow copy.
Get(a, i) ==
    /\ tasks[i] # Absent
    /\ copy' = [copy EXCEPT ![a] = [id |-> i, status |-> tasks[i].status]]
    /\ UNCHANGED <<tasks, verdict>>

\* A write to the copy.
Scribble(a, status) ==
    /\ copy[a].id \in Ids
    /\ copy' = [copy EXCEPT ![a].status = status]
    /\ UNCHANGED <<tasks, verdict>>

\* transition(), decided on what the actor's copy said some time ago.
Transition(a, to) ==
    LET i == copy[a].id
    IN  /\ i \in Ids
        /\ copy[a].status \notin Terminal
        /\ IF CanTransition(tasks[i].status, to)
           THEN /\ tasks' = [tasks EXCEPT ![i] = [status |-> to, by |-> a]]
                /\ verdict' = IF to \in Terminal
                              THEN [verdict EXCEPT ![i] = verdict[i] \cup {<<a, to>>}] ELSE verdict
           ELSE UNCHANGED <<tasks, verdict>>
        /\ UNCHANGED copy

\* update(): a patch of the description or the metadata.
Update(a) ==
    LET i == copy[a].id
    IN  /\ i \in Ids
        /\ tasks' = IF tasks[i].status \in Terminal THEN tasks ELSE [tasks EXCEPT ![i].by = a]
        /\ UNCHANGED <<copy, verdict>>

Next == \E a \in Actors :
    \/ \E i \in Ids : Create(a, i) \/ Get(a, i)
    \/ \E s \in {"running"} \cup Terminal : Scribble(a, s) \/ Transition(a, s)
    \/ Update(a)

Spec == Init /\ [][Next]_vars
-----------------------------------------------------------------------------
\* "Once a task is completed, failed or killed it can never be mutated again": of
\* all who hold a copy of it, one and no more is told that its verdict stands,
\* and nothing anybody does later shows in the record.
OneVerdict ==
    /\ \A i \in Ids : Cardinality(verdict[i]) <= 1
    /\ \A i \in Ids : tasks[i].status \in Terminal => verdict[i] = {<<tasks[i].by, tasks[i].status>>}
=============================================================================
