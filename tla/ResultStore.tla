------------------------------ MODULE ResultStore ------------------------------
(***************************************************************************)
(* Large answers kept whole behind a handle (tools/result-store.ts), as    *)
(* ToolRegistry.keepResult and readResult use the store: bounds per run,   *)
(* on the bytes of all runs and on the age, and counters that are          *)
(* forgotten once too many runs have one.                                  *)
(***************************************************************************)
EXTENDS Integers, Sequences, FiniteSets, Functions

CONSTANTS
    Runs,         \* run ids, or sessions outside of a run
    Sizes,        \* bytes of the answers
    PerRun,       \* most answers kept for one run
    TotalBytes,   \* most bytes kept for all runs
    MaxAge,       \* how long an answer is kept
    MaxCounters,  \* counters beyond which those of idle runs go (1000 per kept answer in the code)
    MaxPuts       \* bound on the answers

VARIABLES
    kept,      \* the kept answers, in the order of the Map
    counters,  \* the last number handed out to a run, 0 for none
    bytes,     \* what the store believes it holds
    puts,      \* how many answers there have been: the next answer's name
    shown,     \* the handles that stand in transcripts, with the answers they were given for
    forgot,    \* the runs whose counter was dropped after it had counted
    reply      \* what the last program to read a handle was handed

store == <<kept, counters, bytes, puts, shown, forgot, reply>>
-----------------------------------------------------------------------------
Has(k, run, ref) == k.run = run /\ k.ref = ref

SizeOf(entries) ==
    LET upTo[n \in 0..Len(entries)] == IF n = 0 THEN 0 ELSE upTo[n - 1] + entries[n].bytes
    IN  upTo[Len(entries)]

CountOf(run, entries) == Cardinality({i \in DOMAIN entries : entries[i].run = run})

\* The pieces, one after another.
Joined(pieces) ==
    LET upTo[n \in 0..Len(pieces)] == IF n = 0 THEN <<>> ELSE upTo[n - 1] \o pieces[n]
    IN  upTo[Len(pieces)]

\* sweep(), first half: what is too old goes.
Fresh == Joined([i \in DOMAIN kept |-> IF kept[i].age <= MaxAge THEN <<kept[i]>> ELSE <<>>])

\* Mutant: when there are many, all counters go.
CountedAfresh(entries) ==
    IF Cardinality({r \in Runs : counters[r] > 0}) <= MaxCounters THEN counters ELSE [r \in Runs |-> 0]

\* sweep(), second half: the counters of runs that have nothing kept, when there are many.
Counted(entries) ==
    IF Cardinality({r \in Runs : counters[r] > 0}) <= MaxCounters THEN counters
    ELSE [r \in Runs |-> IF CountOf(r, entries) = 0 THEN 0 ELSE counters[r]]

Dropped(after) == {r \in Runs : counters[r] > 0 /\ after[r] = 0}

\* Mutant: the handles of a run count what it has.
NumberOfKept(numbers, run) == CountOf(run, Fresh) + 1

NextNumber(numbers, run) == numbers[run] + 1

\* Map.set: an entry of the same key is replaced where it stands.
Placed(entry) ==
    IF \E i \in DOMAIN Fresh : Has(Fresh[i], entry.run, entry.ref)
    THEN [i \in DOMAIN Fresh |-> IF Has(Fresh[i], entry.run, entry.ref) THEN entry ELSE Fresh[i]]
    ELSE Append(Fresh, entry)

\* Mutant: the bound of the run is looked at before the new answer is in.
WithinRunLate(entries, run) == IF CountOf(run, entries) > PerRun + 1 THEN Tail(entries) ELSE entries

\* put(): the run's oldest answers beyond its bound go. One was added, so one at most.
WithinRun(entries, run) ==
    IF CountOf(run, entries) <= PerRun THEN entries
    ELSE LET first == CHOOSE i \in DOMAIN entries : entries[i].run = run /\
                          \A j \in 1..(i - 1) : entries[j].run # run
         IN  SubSeq(entries, 1, first - 1) \o SubSeq(entries, first + 1, Len(entries))

\* put(): then anyone's oldest, until all fits, but never the one just put, which is the last.
Fitting(entries) ==
    LET Rest(n) == SubSeq(entries, n, Len(entries))
        first == CHOOSE n \in 1..Len(entries) :
                     /\ SizeOf(Rest(n)) <= TotalBytes \/ n = Len(entries)
                     /\ \A m \in 1..(n - 1) : SizeOf(Rest(m)) > TotalBytes
    IN  Rest(first)

Init ==
    /\ kept = <<>>
    /\ counters = [r \in Runs |-> 0]
    /\ bytes = 0 /\ puts = 0 /\ shown = {} /\ forgot = {} /\ reply = "none"

\* put(): no handle for an answer of more than half of the store.
Put(run, size) ==
    /\ puts < MaxPuts
    /\ puts' = puts + 1
    /\ UNCHANGED reply
    /\ IF 2 * size > TotalBytes THEN UNCHANGED <<kept, counters, bytes, shown, forgot>>
       ELSE LET swept == Counted(Fresh)
                ref == NextNumber(swept, run)
                entry == [run |-> run, ref |-> ref, value |-> puts + 1, bytes |-> size, age |-> 0]
                placed == Placed(entry)
                inRun == WithinRun(placed, run)
                all == Fitting(inRun)
            IN  /\ counters' = [swept EXCEPT ![run] = ref]
                /\ kept' = all
                \* the running sum: what is dropped goes, what is put comes, replaced or not
                /\ bytes' = bytes - (SizeOf(kept) - SizeOf(Fresh)) + size - (SizeOf(placed) - SizeOf(all))
                /\ shown' = shown \cup {<<run, ref, puts + 1>>}
                /\ forgot' = forgot \cup Dropped(swept)

\* A program reads a handle that its transcript shows: what is kept under it now.
Read(run, ref) ==
    /\ \E value \in 1..puts : <<run, ref, value>> \in shown
    /\ LET swept == Counted(Fresh)
           hits == {k \in Range(Fresh) : Has(k, run, ref)}
       IN  /\ counters' = swept
           /\ forgot' = forgot \cup Dropped(swept)
           /\ reply' = CASE hits = {} -> "gone"
                         [] hits # {} /\ \A k \in hits :
                                /\ <<run, ref, k.value>> \in shown
                                /\ \A s \in shown : s[1] = run /\ s[2] = ref => s[3] = k.value -> "answer"
                         [] OTHER -> IF run \in forgot THEN "newer" ELSE "another"
    /\ kept' = Fresh
    /\ bytes' = bytes - (SizeOf(kept) - SizeOf(Fresh))
    /\ UNCHANGED <<puts, shown>>

Tick ==
    /\ \E i \in DOMAIN kept : kept[i].age <= MaxAge
    /\ kept' = [i \in DOMAIN kept |-> [kept[i] EXCEPT !.age = IF kept[i].age > MaxAge THEN kept[i].age ELSE kept[i].age + 1]]
    /\ UNCHANGED <<counters, bytes, puts, shown, forgot, reply>>

Next ==
    \/ \E run \in Runs, size \in Sizes : Put(run, size)
    \/ \E run \in Runs, ref \in 1..MaxPuts : Read(run, ref)
    \/ Tick
-----------------------------------------------------------------------------
\* The store is within its bounds, and knows what it holds.
WithinBounds ==
    /\ bytes = SizeOf(kept)
    /\ bytes <= TotalBytes
    /\ \A r \in Runs : CountOf(r, kept) <= PerRun
    /\ \A i, j \in DOMAIN kept : Has(kept[i], kept[j].run, kept[j].ref) => i = j

\* A handle leads to the answer it was given for or to none: only in a run whose
\* counter was dropped, because it had nothing left, may it lead to a newer one.
HandleIsKept == reply # "another"
=============================================================================
