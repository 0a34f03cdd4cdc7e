--------------------------- MODULE ReviewedEffect ---------------------------
(***************************************************************************)
(* What the human-review queue promises, without executors, claims,        *)
(* attempts or a store: a proposal gets at most one human verdict, and the *)
(* outside world sees at most one effect per proposal, which is exactly    *)
(* the payload the human agreed to.                                        *)
(*                                                                         *)
(* The contract is the prose of src/patterns/candidate.ts ("Exactly-once,  *)
(* by claim", "The human's edit always wins"); Candidates.tla is the code  *)
(* and implements this module.                                             *)
(***************************************************************************)
CONSTANTS Ids,        \* the proposals
          Payloads,   \* what a tool can be asked to do
          Undecided,  \* no verdict yet
          Refused     \* the verdict "do not run it"

VARIABLES verdict,    \* verdict[i]: Undecided, Refused, or the payload agreed to
          effect      \* effect[i]: the sequence of effects proposal i has had

vars == <<verdict, effect>>

TypeOK ==
    /\ verdict \in [Ids -> Payloads \cup {Undecided, Refused}]
    /\ effect \in [Ids -> {<<>>} \cup {<<p>> : p \in Payloads}]

Init ==
    /\ verdict = [i \in Ids |-> Undecided]
    /\ effect = [i \in Ids |-> <<>>]

\* The human refuses the proposal, or agrees to a payload (as proposed, or edited).
Judge(i) ==
    /\ verdict[i] = Undecided
    /\ \E v \in Payloads \cup {Refused} : verdict' = [verdict EXCEPT ![i] = v]
    /\ UNCHANGED effect

\* The world changes, once, the way the human agreed to.
Perform(i) ==
    /\ verdict[i] \in Payloads
    /\ effect[i] = <<>>
    /\ effect' = [effect EXCEPT ![i] = <<verdict[i]>>]
    /\ UNCHANGED verdict

Next == \E i \in Ids : Judge(i) \/ Perform(i)

Spec == Init /\ [][Next]_vars
=============================================================================
