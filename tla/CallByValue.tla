----------------------------- MODULE CallByValue -----------------------------
(***************************************************************************)
(* What a call means, with no argument buffer in sight: a call site        *)
(* collects the values of its own argument expressions in order, and the   *)
(* callee receives exactly those, Nil standing in for the ones the site    *)
(* does not supply.  Sites nest, since an argument may itself be a call.   *)
(* JitCalls.tla shows what jit_push_arg and jit_call_func make of it.      *)
(***************************************************************************)
EXTENDS Integers, Sequences

CONSTANTS
  Compiled,      \* names with native code
  Interpreted,   \* names the interpreter defines and the JIT could not compile
  Undefined,     \* names that are called and defined nowhere
  Params,        \* Params[f]: the number of f's parameters
  Site,          \* the call expressions of the program: [callee, argc]
  LateNesting,   \* may a call occur in an argument that is not the first?
  Value, Nil,
  MaxDepth,      \* bound: activations alive at once
  MaxNesting     \* bound: call sites open at once in an activation

Defined == Compiled \cup Interpreted
Fn      == Defined \cup Undefined

VARIABLES
  stack,     \* activations, innermost last; << >>: the driver's C++ code runs
  aborted    \* std::terminate has been called

OpenSite   == { o \in [callee : Fn, argc : Nat, args : Seq(Value)] :
                  [callee |-> o.callee, argc |-> o.argc] \in Site /\ Len(o.args) <= o.argc }
Activation == [fn : Defined, params : Seq(Value), sites : Seq(OpenSite)]

Top     == stack[Len(stack)]
Sites   == Top.sites
Site1   == Sites[Len(Sites)]         \* the innermost open call site
Running == ~aborted /\ stack # << >>
InCode  == Running /\ Top.fn \in Compiled

DropLast(s)    == SubSeq(s, 1, Len(s) - 1)
WithSites(ss)  == [stack EXCEPT ![Len(stack)] = [Top EXCEPT !.sites = ss]]
NewCall(f, ps) == [fn |-> f, params |-> ps, sites |-> << >>]

\* The values f's parameters take when it is called with args.
Passed(f, args) == [i \in 1 .. Params[f] |-> IF i <= Len(args) THEN args[i] ELSE Nil]

Init == stack = << >> /\ aborted = FALSE

(***************************************************************************)
(* The driver calls a compiled function from a top-level statement.        *)
(***************************************************************************)
TopCall(s, args) ==
  /\ ~aborted /\ stack = << >>
  /\ s.callee \in Compiled /\ Len(args) = s.argc
  /\ stack' = << NewCall(s.callee, Passed(s.callee, args)) >>
  /\ UNCHANGED aborted

(***************************************************************************)
(* Compiled code comes to a call expression: in a statement's expression,  *)
(* or in an argument of the innermost open site.  Without late nesting it  *)
(* is the first argument of every open site.                               *)
(***************************************************************************)
MayOpen ==
  /\ Len(Sites) < MaxNesting
  /\ Sites # << >> => Len(Site1.args) < Site1.argc
  /\ LateNesting \/ \A k \in 1 .. Len(Sites) : Sites[k].args = << >>

OpenCall(s) ==
  /\ InCode /\ MayOpen
  /\ stack' = WithSites(Append(Sites, [callee |-> s.callee, argc |-> s.argc, args |-> << >>]))
  /\ UNCHANGED aborted

Collect(v) == WithSites([Sites EXCEPT ![Len(Sites)] = [Site1 EXCEPT !.args = Append(@, v)]])

EvalArg(v) ==
  /\ InCode /\ Sites # << >> /\ Len(Site1.args) < Site1.argc
  /\ stack' = Collect(v)
  /\ UNCHANGED aborted

Complete == InCode /\ Sites # << >> /\ Len(Site1.args) = Site1.argc

Invoke ==
  /\ Complete
  /\ Len(stack) < MaxDepth
  /\ Site1.callee \in Defined
  /\ stack' = Append(WithSites(DropLast(Sites)),
                     NewCall(Site1.callee, Passed(Site1.callee, Site1.args)))
  /\ UNCHANGED aborted

\* An exception cannot be unwound through native frames.
Abort ==
  /\ Running
  /\ \/ Top.fn \in Interpreted
     \/ Complete /\ Site1.callee \in Undefined
  /\ aborted' = TRUE
  /\ UNCHANGED stack

\* A return statement, which is never inside an expression.
Return ==
  /\ Running /\ Sites = << >>
  /\ stack' = DropLast(stack)
  /\ UNCHANGED aborted

Next ==
  \/ \E s \in Site : OpenCall(s) \/ \E args \in [1 .. s.argc -> Value] : TopCall(s, args)
  \/ \E v \in Value : EvalArg(v)
  \/ Invoke \/ Abort \/ Return

vars == << stack, aborted >>

Spec == Init /\ [][Next]_vars
===============================================================================
