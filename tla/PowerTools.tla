------------------------------ MODULE PowerTools ------------------------------
(* The tools with which MinnsFullPowerMiddleware gives an agent the whole      *)
(* knowledge service (middleware/builtin/minns-power.ts): questions that only  *)
(* read, rows of temporal tables, and live subscriptions kept under a label.   *)
(* One instance serves every run of the agent, so the runs share the map from  *)
(* labels to subscriptions, and the first run to end cleans up for all.        *)
(*                                                                             *)
(* The service is external: it is taken to honour the group a request carries  *)
(* and to let a request without one reach every row. A group is configured.                            *)
EXTENDS Sequences, Integers

CONSTANTS
  Runs,           \* the runs of one agent
  Labels,         \* the labels under which a model keeps its subscriptions
  EnableTools,    \* the sets of tools switched on
  MaxSubs,        \* bound: the subscriptions ever created
  MaxCalls        \* bound: the calls of a run

VARIABLES
  run,            \* of each run: its stage, its call in flight, the calls made, the labels its clean-up has passed
  subscriptions,  \* the Map, in order of insertion: [label, id]
  live,           \* the subscriptions the service keeps
  creator,        \* by subscription, the run that asked for it
  rows,           \* the rows of a table: the group each belongs to, and what became of it
  polled,         \* history: <<run, subscription>> of the polls
  shown,          \* history: the groups whose rows a scan or query has shown
  strayed,        \* history: subscriptions whose label was taken over, whose answer was lost, whose deletion failed
  overlapped      \* history: a run began while another was on, or a call outlived its run

powerVars == <<run, subscriptions, live, creator, rows, polled, shown, strayed, overlapped>>

\* The tools of each set, in the order in which the constructor takes them.
ToolsOf == [
  graph         |-> {"graph_query", "graph_traverse", "graph_structure"},
  temporal      |-> {"temporal_causal_path", "temporal_reachability"},
  analytics     |-> {"analytics_overview", "analytics_communities", "analytics_importance", "analytics_related"},
  search        |-> {"hybrid_search"},
  code          |-> {"index_code", "search_code"},
  tables        |-> {"table_create", "table_insert", "table_scan", "table_update", "table_delete",
                     "table_list", "table_stats"},
  query         |-> {"minnsql_execute"},
  subscriptions |-> {"subscription_create", "subscription_poll", "subscription_list", "subscription_delete"}]

tools == UNION {ToolsOf[s] : s \in EnableTools}

\* Those that ask the service something and keep nothing here.
Questions == ToolsOf.graph \cup ToolsOf.temporal \cup ToolsOf.analytics \cup ToolsOf.search \cup ToolsOf.code
               \cup {"table_create", "table_list", "table_stats", "subscription_list"}

Ours == "ours"
NoCall == [tool |-> "none"]
NoId == 0

Has(label) == \E i \in DOMAIN subscriptions : subscriptions[i].label = label

PlaceOf(label) == CHOOSE i \in DOMAIN subscriptions : subscriptions[i].label = label

IdOf(label) == IF Has(label) THEN subscriptions[PlaceOf(label)].id ELSE NoId

\* Map.set: a label that is there keeps its place and takes the new value.
SetAt(label, id) ==
  IF Has(label) THEN [subscriptions EXCEPT ![PlaceOf(label)] = [label |-> label, id |-> id]]
  ELSE Append(subscriptions, [label |-> label, id |-> id])

Without(label) ==
    IF ~Has(label) THEN subscriptions
    ELSE SubSeq(subscriptions, 1, PlaceOf(label) - 1)
             \o SubSeq(subscriptions, PlaceOf(label) + 1, Len(subscriptions))

\* Mutant: an update is sent without the group.
GroupSentButByUpdate(tool) == IF tool \in {"table_delete", "table_update"} THEN "every group" ELSE Ours

\* Mutant: a scan asks for the rows of every group.
GroupSentButByScan(tool) == IF tool \in {"table_delete", "table_scan"} THEN "every group" ELSE Ours

\* The group a request about rows carries: deleteRow takes none.
GroupSent(tool) == IF tool = "table_delete" THEN "every group" ELSE Ours

Reached(tool) == {i \in DOMAIN rows : GroupSent(tool) \in {"every group", rows[i].group}}

-----------------------------------------------------------------------------
Init ==
  /\ run = [r \in Runs |-> [pc |-> "idle", call |-> NoCall, calls |-> 0, passed |-> {}]]
  /\ subscriptions = <<>>
  /\ live = {}
  /\ creator = <<>>
  /\ rows = <<[group |-> "theirs", is |-> "as written"]>>
  /\ polled = {}
  /\ shown = {}
  /\ strayed = {}
  /\ overlapped = FALSE

\* beforeExecute: at most an analytics query whose answer is shown to the model.
BeforeExecute(r) ==
  /\ run[r].pc = "idle"
  /\ run' = [run EXCEPT ![r].pc = "on"]
  /\ overlapped' = (overlapped \/ \E o \in Runs \ {r} : run[o].pc \in {"on", "cleaning"} \/ run[o].call # NoCall)
  /\ UNCHANGED <<subscriptions, live, creator, rows, polled, shown, strayed>>

\* None of these tools is marked as reading only, so a run has one call in flight.
MayCall(r, tool) ==
  /\ run[r].pc = "on" /\ run[r].call = NoCall /\ run[r].calls < MaxCalls
  /\ tool \in tools

Sent(r, call) ==
  run' = [run EXCEPT ![r] = [run[r] EXCEPT !.call = call, !.calls = run[r].calls + 1]]

\* A question, and a query or scan, whose answer shows the rows it reached.
Ask(r) ==
  \E tool \in tools \cap (Questions \cup {"table_scan", "minnsql_execute"}) :
    /\ MayCall(r, tool)
    /\ Sent(r, [tool |-> "ask"])
    /\ shown' = shown \cup (IF tool \in Questions THEN {} ELSE {rows[i].group : i \in Reached(tool)})
    /\ UNCHANGED <<subscriptions, live, creator, rows, polled, strayed, overlapped>>

\* table_insert, table_update, table_delete, and a query that is one of these: the
\* service does it, or refuses a row out of reach.
Write(r) ==
  \E tool \in {"table_insert", "table_update", "table_delete", "minnsql_execute"} :
    /\ MayCall(r, tool)
    /\ Sent(r, [tool |-> "ask"])
    /\ \/ /\ tool \in {"table_insert", "minnsql_execute"} /\ Len(rows) < 2
          /\ rows' = Append(rows, [group |-> GroupSent(tool), is |-> "as written"])
       \/ /\ tool # "table_insert"
          /\ \E i \in Reached(tool) :
               rows' = [rows EXCEPT ![i].is = IF tool = "table_delete" \/ rows[i].is = "deleted"
                                              THEN "deleted" ELSE "updated"]
       \/ /\ tool = "minnsql_execute"
          /\ \E i \in Reached(tool) : rows' = [rows EXCEPT ![i].is = "deleted"]
       \/ rows' = rows
    /\ UNCHANGED <<subscriptions, live, creator, polled, shown, strayed, overlapped>>

\* subscription_create: the service creates it; its answer may be lost.
Create(r, label) ==
  LET id == Len(creator) + 1 IN
  /\ MayCall(r, "subscription_create") /\ id <= MaxSubs
  /\ live' = live \cup {id}
  /\ creator' = Append(creator, r)
  /\ \E answered \in BOOLEAN :
       /\ Sent(r, IF answered THEN [tool |-> "create", label |-> label, id |-> id] ELSE [tool |-> "ask"])
       /\ strayed' = IF answered THEN strayed ELSE strayed \cup {id}
  /\ UNCHANGED <<subscriptions, rows, polled, shown, overlapped>>

\* subscription_poll: the label is looked up before the call.
Poll(r, label) ==
  /\ MayCall(r, "subscription_poll")
  /\ Sent(r, [tool |-> "ask"])
  /\ polled' = IF IdOf(label) = NoId THEN polled ELSE polled \cup {<<r, IdOf(label)>>}
  /\ UNCHANGED <<subscriptions, live, creator, rows, shown, strayed, overlapped>>

\* subscription_delete: a call that fails leaves the label where it is.
Delete(r, label) ==
  LET id == IdOf(label) IN
  /\ MayCall(r, "subscription_delete") /\ id # NoId
  /\ \/ Sent(r, [tool |-> "delete", label |-> label, id |-> id]) /\ live' = live \ {id}
     \/ Sent(r, [tool |-> "ask"]) /\ live' = live
  /\ UNCHANGED <<subscriptions, creator, rows, polled, shown, strayed, overlapped>>

\* The answer arrives. A label used again leaves a subscription that nothing
\* names; one put under a label the clean-up has passed is not seen by it.
Answered(r) ==
  LET call == run[r].call
      named == IF call.tool \in {"create", "delete"} THEN {IdOf(call.label)} \ {NoId} ELSE {}
      passedBy == {o \in Runs : run[o].pc = "cleaning" /\ call.label \in run[o].passed} IN
  /\ call # NoCall
  /\ CASE call.tool = "create" ->
            /\ strayed' = strayed \cup named \cup (IF passedBy # {} THEN {call.id} ELSE {})
            /\ subscriptions' = SetAt(call.label, call.id)
            /\ run' = [run EXCEPT ![r].call = NoCall]
       [] call.tool = "delete" ->
            /\ strayed' = strayed \cup (named \ {call.id})
            /\ subscriptions' = Without(call.label)
            /\ run' = [o \in Runs |-> [run[o] EXCEPT !.call = IF o = r THEN NoCall ELSE run[o].call,
                                                    !.passed = run[o].passed \ {call.label}]]
       [] OTHER -> run' = [run EXCEPT ![r].call = NoCall] /\ UNCHANGED <<strayed, subscriptions>>
  /\ UNCHANGED <<live, creator, rows, polled, shown, overlapped>>

\* The run ends. A call given up by its timeout is not stopped by that. A run that
\* throws never comes here: it stays on, and later runs count as overlapping it.
AfterExecute(r) ==
  /\ run[r].pc = "on"
  /\ run' = [run EXCEPT ![r].pc = "cleaning"]
  /\ overlapped' = (overlapped \/ run[r].call # NoCall)
  /\ UNCHANGED <<subscriptions, live, creator, rows, polled, shown, strayed>>

\* Mutant: the loop ends after its first entry.
LeftBeforeOne(r) == IF run[r].passed = {} THEN DOMAIN subscriptions ELSE {}

\* What the loop over the Map has still to pass: entries added meanwhile too.
Left(r) == {i \in DOMAIN subscriptions : subscriptions[i].label \notin run[r].passed}

\* One turn of the loop: the subscription is deleted, or the failure is swallowed.
CleansOne(r) ==
  /\ run[r].pc = "cleaning"
  /\ \E i \in Left(r) :
       /\ \A j \in Left(r) : i <= j
       /\ run' = [run EXCEPT ![r].passed = run[r].passed \cup {subscriptions[i].label}]
       /\ \/ live' = live \ {subscriptions[i].id} /\ strayed' = strayed
          \/ live' = live /\ strayed' = strayed \cup {subscriptions[i].id}
  /\ UNCHANGED <<subscriptions, creator, rows, polled, shown, overlapped>>

\* Mutant: the Map is not emptied.
ClearedNever == subscriptions

Cleared == <<>>

\* The loop is over and the Map is emptied, whoever's entries it holds.
CleanedUp(r) ==
  /\ run[r].pc = "cleaning" /\ Left(r) = {}
  /\ run' = [o \in Runs |-> [run[o] EXCEPT !.pc = IF o = r THEN "over" ELSE run[o].pc, !.passed = {}]]
  /\ subscriptions' = Cleared
  /\ UNCHANGED <<live, creator, rows, polled, shown, strayed, overlapped>>

CallNext(r) ==
  \/ Ask(r) \/ Write(r) \/ Answered(r)
  \/ \E label \in Labels : Create(r, label) \/ Poll(r, label) \/ Delete(r, label)

Next ==
  \E r \in Runs : BeforeExecute(r) \/ CallNext(r) \/ AfterExecute(r) \/ CleansOne(r) \/ CleanedUp(r)

Spec == Init /\ [][Next]_powerVars

-----------------------------------------------------------------------------
\* A row of another group is never read, and never changed otherwise than by
\* table_delete, which is sent without the group.
GroupsAreKept ==
  /\ shown \subseteq {Ours}
  /\ \A i \in DOMAIN rows : rows[i].group # Ours => rows[i].is # "updated"

\* Between runs that do not overlap nothing passes through the shared Map: a
\* poll reads a subscription of its own run.
PollsItsOwn ==
  overlapped \/ \A p \in polled : creator[p[2]] = p[1]

\* Once every run is over and every call answered, the service keeps only the
\* subscriptions whose label was taken over, whose answer was lost, whose
\* deletion failed, or which came to their label after the clean-up: the loop
\* over the Map passes the entries that other runs add while it waits.
CleanedBehind ==
  (\A r \in Runs : run[r].pc \in {"idle", "over"} /\ run[r].call = NoCall) =>
    \A id \in live : id \in strayed \/ \E i \in DOMAIN subscriptions : subscriptions[i].id = id
=============================================================================
