--------------------------- MODULE MCGraphEngine ---------------------------
\* Instances of GraphEngine, and of GraphResume, for TLC: the graphs the runs use.
EXTENDS GraphResume, TLC

CONSTANTS a, b, g, p, q

To(n)             == [type |-> "unconditional", targets |-> {n}, branches |-> <<>>, then |-> END]
Choose(S)         == [type |-> "conditional", targets |-> S, branches |-> <<>>, then |-> END]
ForkTo(bs, n)     == [type |-> "parallel", targets |-> {}, branches |-> bs, then |-> n]
JoinsOnly         == [type |-> "none", targets |-> {}, branches |-> <<>>, then |-> END]

\* A loop through a gated node: a -> g -> (g | b | END), b -> END.
LoopNodes == {a, b, g}
LoopEdge == a :> To(g) @@ g :> Choose({g, b}) @@ b :> To(END)

\* A loop with a fan-out: a -> [p, q] -> g -> (a | END).
ForkNodes == {a, g, p, q}
ForkEdge == a :> ForkTo(<<p, q>>, g) @@ g :> Choose({a}) @@ p :> JoinsOnly @@ q :> JoinsOnly

\* a -> (g | b), g -> [p, q] -> b, b -> (a | END): a loop over a choice and a fan-out.
TourNodes == {a, b, g, p, q}
TourEdge == a :> Choose({g, b}) @@ g :> ForkTo(<<p, q>>, b) @@ b :> Choose({a})
              @@ p :> JoinsOnly @@ q :> JoinsOnly
=============================================================================
