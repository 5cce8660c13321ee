------------------------------- MODULE JitCalls -------------------------------
(***************************************************************************)
(* Calls out of compiled code (native_jit.cpp).  The generated code passes *)
(* each argument to jit_push_arg as soon as it is evaluated; jit_call_func *)
(* then hands the one static buffer to the callee, compiled or not.  The   *)
(* buffer does not know which call site pushed what: whether each callee   *)
(* receives its own site's values is what is checked.                      *)
(*                                                                         *)
(* `stack' is the activations of CallByValue.  The open sites and the      *)
(* arguments they have evaluated stand for where the generated code is;    *)
(* `params' is what the callee's prologue (or runtimeCallUserFunc) read.   *)
(***************************************************************************)
EXTENDS Integers, Sequences

CONSTANTS
  Compiled, Interpreted, Undefined, Params, Site, LateNesting,
  Value, Nil, MaxDepth, MaxNesting,
  ArgSlots,      \* size of jit_call_args: 16 in the code
  ArgReach       \* argument words that emitLoadArg's disp8 addresses: 16 in the code

VARIABLES
  stack, aborted,
  jit_call_args,
  jit_call_arg_index

vars == << stack, aborted, jit_call_args, jit_call_arg_index >>

CBV == INSTANCE CallByValue

ASSUME FnAssumption     == Compiled \cap (Interpreted \cup Undefined) = {}
                           /\ Interpreted \cap Undefined = {}
ASSUME ParamsAssumption == Params \in [CBV!Fn -> Nat]
ASSUME SiteAssumption   == Site \subseteq [callee : CBV!Fn, argc : Nat]
ASSUME ValueAssumption  == Nil \in Value
ASSUME BoundAssumption  == MaxDepth \in Nat /\ MaxNesting \in Nat
                           /\ LateNesting \in BOOLEAN
ASSUME SlotsAssumption  == ArgSlots \in Nat /\ ArgReach \in Nat /\ ArgReach <= ArgSlots

Top   == stack[Len(stack)]
Sites == Top.sites
Site1 == Sites[Len(Sites)]

\* The static buffer starts zeroed.
Init ==
  /\ stack = << >> /\ aborted = FALSE
  /\ jit_call_args = [i \in 0 .. ArgSlots - 1 |-> Nil]
  /\ jit_call_arg_index = 0

(***************************************************************************)
(* The prologue of compiled code loads one word per parameter from the     *)
(* array it is given, whatever argCount says: past the array's end, or     *)
(* where "mov rax, [r12 + disp8]" wraps to a negative displacement, it     *)
(* reads whatever memory holds (junk).                                     *)
(***************************************************************************)
emitLoadArgs(f, args, size, junk) ==
  [i \in 1 .. Params[f] |-> IF i <= size /\ i <= ArgReach THEN args[i] ELSE junk]

\* evaluateWithJIT, executeStatement: the driver collects the arguments in a
\* vector of its own and enters the native code through callCompiled.
callCompiledFromDriver(s, args, junk) ==
  /\ ~aborted /\ stack = << >>
  /\ s.callee \in Compiled
  /\ stack' = << CBV!NewCall(s.callee, emitLoadArgs(s.callee, args, s.argc, junk)) >>
  /\ UNCHANGED << aborted, jit_call_args, jit_call_arg_index >>

\* compileExpression, FUNCTION_CALL: no code until the first argument.
beginCall(s) ==
  /\ CBV!OpenCall(s)
  /\ UNCHANGED << jit_call_args, jit_call_arg_index >>

\* Mutants: the loop over the call's arguments runs once too often; the buffer is
\* full one slot early.
OneArgumentTooMany == Len(Site1.args) <= Site1.argc
FullOneEarly       == jit_call_arg_index + 1 < ArgSlots

MoreArguments == Len(Site1.args) < Site1.argc
HasRoom       == jit_call_arg_index < ArgSlots

\* The argument's value is in rax; the generated code calls jit_push_arg.
jit_push_arg(v) ==
  /\ CBV!InCode /\ Sites # << >> /\ MoreArguments
  /\ stack' = CBV!Collect(v)
  /\ IF HasRoom
     THEN /\ jit_call_args' = [jit_call_args EXCEPT ![jit_call_arg_index] = v]
          /\ jit_call_arg_index' = jit_call_arg_index + 1
     ELSE UNCHANGED << jit_call_args, jit_call_arg_index >>
  /\ UNCHANGED aborted

\* Mutant: the last argument taken for a missing one.
LastArgumentMissing(f, argCount) ==
  [i \in 1 .. Params[f] |-> IF i < argCount THEN jit_call_args[i - 1] ELSE Nil]

\* runtimeCallUserFunc: a missing argument becomes Value().
SetUpParameters(f, argCount) ==
  [i \in 1 .. Params[f] |-> IF i - 1 < argCount THEN jit_call_args[i - 1] ELSE Nil]

\* jit_call_func takes the count, resets the index, then dispatches.
jit_call_func(junk) ==
  /\ CBV!Complete
  /\ Len(stack) < MaxDepth
  /\ jit_call_arg_index' = 0
  /\ LET callee   == Site1.callee
         argCount == jit_call_arg_index
         buffer   == [i \in 1 .. ArgSlots |-> jit_call_args[i - 1]]
     IN \/ /\ callee \in Compiled
           /\ stack' = Append(CBV!WithSites(CBV!DropLast(Sites)),
                              CBV!NewCall(callee, emitLoadArgs(callee, buffer, ArgSlots, junk)))
           /\ UNCHANGED aborted
        \/ /\ callee \in Interpreted
           /\ stack' = Append(CBV!WithSites(CBV!DropLast(Sites)),
                              CBV!NewCall(callee, SetUpParameters(callee, argCount)))
           /\ UNCHANGED aborted
        \/ /\ callee \in Undefined
           /\ aborted' = TRUE
           /\ UNCHANGED stack
  /\ UNCHANGED jit_call_args

\* The interpreter throws inside a fallback call: the exception meets native
\* frames without unwind tables.
interpreterThrows ==
  /\ CBV!Running /\ Top.fn \in Interpreted
  /\ aborted' = TRUE
  /\ UNCHANGED << stack, jit_call_args, jit_call_arg_index >>

return ==
  /\ CBV!Running /\ Sites = << >>
  /\ stack' = CBV!DropLast(stack)
  /\ UNCHANGED << aborted, jit_call_args, jit_call_arg_index >>

Next ==
  \/ \E s \in Site :
       \/ beginCall(s)
       \/ \E args \in [1 .. s.argc -> Value], junk \in Value :
            callCompiledFromDriver(s, args, junk)
  \/ \E v \in Value : jit_push_arg(v)
  \/ \E junk \in Value : jit_call_func(junk)
  \/ interpreterThrows \/ return

Spec == Init /\ [][Next]_vars

-------------------------------------------------------------------------------
TypeOK ==
  /\ stack \in Seq(CBV!Activation)
  /\ aborted \in BOOLEAN
  /\ jit_call_args \in [0 .. ArgSlots - 1 -> Value]
  /\ jit_call_arg_index \in 0 .. ArgSlots

\* The buffer holds the innermost site's arguments and nothing else: no other open
\* site, of this activation or of one that called it, has anything pushed.
NoneWaiting(ss) == \A k \in 1 .. Len(ss) : ss[k].args = << >>

BufferIsInnermost == ~aborted =>
  /\ \A d \in 1 .. Len(stack) - 1 : NoneWaiting(stack[d].sites)
  /\ IF stack = << >> \/ Sites = << >>
     THEN jit_call_arg_index = 0
     ELSE /\ NoneWaiting(CBV!DropLast(Sites))
          /\ jit_call_arg_index = Len(Site1.args)
          /\ \A i \in 1 .. Len(Site1.args) : jit_call_args[i - 1] = Site1.args[i]

\* Each callee receives exactly the arguments of its own call site.
ImplementsCallByValue == CBV!Spec

\* "Helper to call a function with accumulated args": the callee's parameters are
\* the values its own call site accumulated; "Args passed as array": the same for a
\* compiled function that the driver calls.
Receives(callee, args) ==
  \A i \in 1 .. Params[callee.fn] : i <= Len(args) => callee.params[i] = args[i]

ReceivesOwnArguments ==
  [][ /\ (\E junk \in Value : jit_call_func(junk)) /\ ~aborted'
         => Receives(stack'[Len(stack')], Site1.args)
      /\ \A s \in Site : \A args \in [1 .. s.argc -> Value], junk \in Value :
           callCompiledFromDriver(s, args, junk) => Receives(stack'[1], args) ]_vars
===============================================================================
