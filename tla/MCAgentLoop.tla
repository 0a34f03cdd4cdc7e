---------------------------- MODULE MCAgentLoop ----------------------------
(* The instance of AgentLoop that TLC checks. *)
EXTENDS AgentLoop

CONSTANTS r, d, w, u, find_tools

\* Two tools that read, one of them withheld, one that writes; u is made up.
LoopTools == {r, d, w}
LoopReadTools == {r, d}
LoopDeferred == {d}
LoopUnserializable == {d}

\* Reads around a write, a withheld tool before and after it is found, a call
\* again and again, and a name the model made up.
LoopTurns == {<<r, w, r, r>>, <<d, find_tools, d, u>>, <<r>>}
=============================================================================
