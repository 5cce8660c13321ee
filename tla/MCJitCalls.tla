------------------------------ MODULE MCJitCalls ------------------------------
(***************************************************************************)
(* A small program for JitCalls: compiled f(a, b) and g(a), interpreted h, *)
(* and a name nobody defines.  The buffer is scaled down from 16 slots.    *)
(***************************************************************************)
EXTENDS JitCalls

CONSTANTS f, g, h, u

MCParams == [x \in {f, g, h, u} |-> CASE x = f -> 2 [] x = g -> 1 [] x = h -> 2 [] x = u -> 1]

\* Every compiled function gets at least its parameters; h one too few.
MCSites ==
  { [callee |-> f, argc |-> 2], [callee |-> g, argc |-> 1], [callee |-> g, argc |-> 2],
    [callee |-> h, argc |-> 1], [callee |-> u, argc |-> 0] }
===============================================================================
