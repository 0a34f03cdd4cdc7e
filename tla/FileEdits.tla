------------------------------- MODULE FileEdits -------------------------------
(***************************************************************************)
(* FilesystemMiddleware (middleware/builtin/filesystem.ts) on one path of  *)
(* a backend that concurrent runs of the agent share: read_file,           *)
(* write_file and edit_file with the run's ReadRegistry (tools/safe-edit), *)
(* and large results of other tools offloaded under numbered paths.        *)
(*                                                                         *)
(* A content is the set of the changes that are in it; its version is its  *)
(* hash, and so the content itself.  Writers of one run run one at a time. *)
(***************************************************************************)
EXTENDS Integers, FiniteSets

CONSTANTS
    Runs,
    MaxChanges,    \* bound on the changes anyone makes
    MaxOffloads    \* bound on the results offloaded

VARIABLES
    file,       \* whether the path exists, and its content
    changes,    \* how many changes there have been: the next one's name
    seen,       \* the registry of each run: the version it has read, if any
    known,      \* every change a run has been shown
    op,         \* the tool a run is in
    lost,       \* the changes overwritten by a run that had never seen them
    races,      \* the path changed between a run's check and its write
    misread,    \* a backend failed to read what was there
    offloads,   \* the counter of offloaded results
    saved,      \* the result under each offload path
    named,      \* what each transcript says is under a path
    restarts    \* the process was started again, over the same backend

files == <<file, changes, seen, known, op, lost, races, misread, offloads, saved, named, restarts>>
-----------------------------------------------------------------------------
Absent == [exists |-> FALSE, has |-> {}]
NotRead == [read |-> FALSE, has |-> {}]
Idle == [at |-> "idle", kind |-> "none", base |-> Absent, checked |-> FALSE, new |-> {}]

Init ==
    /\ file = Absent
    /\ changes = 0
    /\ seen = [r \in Runs |-> NotRead]
    /\ known = [r \in Runs |-> {}]
    /\ op = [r \in Runs |-> Idle]
    /\ lost = {} /\ races = FALSE /\ misread = FALSE
    /\ offloads = 0
    /\ saved = [n \in 1..MaxOffloads |-> 0]
    /\ named = {} /\ restarts = FALSE

offloading == <<offloads, saved, named, restarts>>
Records(r, content) == seen' = [seen EXCEPT ![r] = [read |-> TRUE, has |-> content]]
Shown(r, content) == known' = [known EXCEPT ![r] = known[r] \cup content]

\* read_file: any window of a file counts as having read it, whole.
ReadFile(r) ==
    /\ op[r].at = "idle"
    /\ file.exists
    /\ Records(r, file.has) /\ Shown(r, file.has)
    /\ UNCHANGED <<file, changes, op, lost, races, misread, offloading>>

\* Mutant: a file read once may be overwritten for good.
ReadAtAll(r, content) == seen[r].read

\* checkFresh: the version the run has read is the one that is there.
Fresh(r, content) == seen[r].read /\ seen[r].has = content

\* write_file asks whether the file exists.
AskExists(r) ==
    /\ op[r].at = "idle" /\ changes < MaxChanges
    /\ op' = [op EXCEPT ![r] = [Idle EXCEPT !.at = IF file.exists THEN "check" ELSE "write", !.kind = "write",
                                            !.base = file, !.checked = TRUE, !.new = known[r]]]
    /\ UNCHANGED <<file, changes, seen, known, lost, races, misread, offloading>>

\* ... reads it, and compares; a file it fails to read is not compared.
Check(r, readable) ==
    /\ op[r].at = "check"
    /\ misread' = (misread \/ (~readable /\ file.exists))
    /\ op' = [op EXCEPT ![r] =
           IF ~readable \/ ~file.exists THEN [op[r] EXCEPT !.at = "write", !.checked = FALSE, !.base = file]
           ELSE IF Fresh(r, file.has) THEN [op[r] EXCEPT !.at = "write", !.base = file]
           ELSE Idle]
    /\ UNCHANGED <<file, changes, seen, known, lost, races, offloading>>

\* edit_file reads, checks and computes the new text; the snippet may not be
\* there, or not once. The registry has the new version before it is written.
Edit(r, outcome) ==
    /\ op[r].at = "idle" /\ changes < MaxChanges
    /\ outcome # "unreadable" => file.exists
    /\ IF outcome = "edited" /\ Fresh(r, file.has)
       THEN /\ op' = [op EXCEPT ![r] = [Idle EXCEPT !.at = "write", !.kind = "edit", !.base = file,
                                                    !.checked = TRUE, !.new = file.has]]
            /\ Records(r, file.has \cup {changes + 1})
            /\ Shown(r, {changes + 1})
            /\ changes' = changes + 1
       ELSE UNCHANGED <<op, seen, known, changes>>
    /\ UNCHANGED <<file, lost, races, misread, offloading>>

\* What the write puts there: the edit's text, or a whole text the model has
\* made of all it has seen.
NewText(r) == IF op[r].kind = "edit" THEN seen[r].has ELSE op[r].new \cup {changes + 1}

\* backend.write replaces whatever is there by then.
Write(r, succeeds) ==
    /\ op[r].at = "write"
    /\ op' = [op EXCEPT ![r] = Idle]
    /\ IF succeeds
       THEN /\ file' = [exists |-> TRUE, has |-> NewText(r)]
            /\ lost' = lost \cup ((file.has \ NewText(r)) \ known[r])
            /\ races' = (races \/ op[r].base # file)
            /\ Records(r, NewText(r)) /\ Shown(r, NewText(r))
            /\ changes' = IF op[r].kind = "edit" THEN changes ELSE changes + 1
       ELSE UNCHANGED <<file, lost, races, seen, known, changes>>
    /\ UNCHANGED <<misread, offloading>>

\* A shell command, or anyone else, changes the file or removes it.
Outside(gone) ==
    /\ changes < MaxChanges
    /\ file' = IF gone THEN Absent ELSE [exists |-> TRUE, has |-> file.has \cup {changes + 1}]
    /\ changes' = changes + 1
    /\ UNCHANGED <<seen, known, op, lost, races, misread, offloading>>

\* wrapToolCall: a large result goes to the next path, or stays when it cannot.
Offload(succeeds) ==
    /\ offloads < MaxOffloads
    /\ offloads' = offloads + 1
    /\ LET result == Cardinality(named) + 1 IN
       IF succeeds
       THEN /\ saved' = [saved EXCEPT ![offloads + 1] = result]
            /\ named' = named \cup {<<offloads + 1, result>>}
       ELSE UNCHANGED <<saved, named>>
    /\ UNCHANGED <<file, changes, seen, known, op, lost, races, misread, restarts>>

\* Mutant: the counter starts over with every run.
CounterAtRun == 0

CounterAfterRun == offloads

\* A run ends and another begins: its registry is new, the counter goes on.
BeginRun(r) ==
    /\ op[r].at = "idle" /\ (seen[r].read \/ known[r] # {} \/ offloads > 0)
    /\ seen' = [seen EXCEPT ![r] = NotRead]
    /\ known' = [known EXCEPT ![r] = {}]
    /\ offloads' = CounterAfterRun
    /\ UNCHANGED <<file, changes, op, lost, races, misread, saved, named, restarts>>

\* The middleware's memory is gone, the backend's is not.
Restart ==
    /\ ~restarts
    /\ restarts' = TRUE
    /\ seen' = [r \in Runs |-> NotRead] /\ known' = [r \in Runs |-> {}]
    /\ op' = [r \in Runs |-> Idle]
    /\ offloads' = 0
    /\ UNCHANGED <<file, changes, lost, races, misread, saved, named>>

Next ==
    \/ \E r \in Runs :
        \/ ReadFile(r) \/ AskExists(r) \/ BeginRun(r)
        \/ \E readable \in BOOLEAN : Check(r, readable)
        \/ \E outcome \in {"edited", "ambiguous", "unreadable"} : Edit(r, outcome)
        \/ \E succeeds \in BOOLEAN : Write(r, succeeds)
    \/ \E gone \in BOOLEAN : Outside(gone)
    \/ \E succeeds \in BOOLEAN : Offload(succeeds)
    \/ Restart
-----------------------------------------------------------------------------
\* "The model has seen what it is replacing, as it is now": a change disappears
\* unseen only when it came between the check and the write, or when the check
\* could not read the file.
NothingOverwrittenUnseen == lost # {} => races \/ misread

\* A path in a transcript leads to the result it was given for, until a restart.
OffloadsAreKept == ~restarts => \A n \in named : saved[n[1]] = n[2]
=============================================================================
