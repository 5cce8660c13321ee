----------------------------- MODULE MCVariables -----------------------------
(***************************************************************************)
(* Two variable names.  f is compiled: name 1 is its parameter, 2 a local. *)
(* g is interpreted and has both as parameters, in the other order.        *)
(***************************************************************************)
EXTENDS Variables

CONSTANTS f, g

MCParams   == [x \in Fn |-> IF x = f THEN << 1 >> ELSE << 2, 1 >>]
MCMentions == [x \in Fn |-> {1, 2}]
===============================================================================
