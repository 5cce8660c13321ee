------------------------------- MODULE Variables -------------------------------
(***************************************************************************)
(* Where variables live.  The interpreter has one map, `variables', that a *)
(* call copies, changes and puts back (evaluateFunctionCall,               *)
(* runtimeCallUserFunc); a compiled function has one stack slot per name   *)
(* (collectLocals, compileFunction).  Both kinds of activation share a     *)
(* program: the driver and native code prefer native code, the interpreter *)
(* only ever interprets.                                                   *)
(*                                                                         *)
(* Arguments of calls are evaluated in one step; calls inside arguments    *)
(* are the subject of JitCalls, and so are compiled functions that get     *)
(* fewer arguments than they have parameters.                              *)
(***************************************************************************)
EXTENDS Integers, Sequences, FiniteSets, FiniteSetsExt

CONSTANTS
  Name, Value, Unset, Fn, Params, MaxDepth,
  Mentions,      \* Mentions[f]: the names that occur in f's body
  Compiled       \* the functions with native code

VARIABLES
  variables,     \* Interpreter::variables
  stack          \* the activations, the main program first

vars == << variables, stack >>

ASSUME NameAssumption  == Name \subseteq Nat \ {0} /\ IsFiniteSet(Name)
ASSUME ValueAssumption == Value \subseteq Int /\ 0 \in Value /\ Unset \notin Value
ASSUME FnAssumption    == Compiled \subseteq Fn /\ "main" \notin Fn
                          /\ Params \in [Fn -> Seq(Name)] /\ Mentions \in [Fn -> SUBSET Name]
ASSUME BoundAssumption == MaxDepth \in Nat

Top     == stack[Len(stack)]
Native  == Top.engine = "native"
Caller  == Len(stack) - 1

-------------------------------------------------------------------------------
(* compileFunction: parameters get the first slots, then the other names in
   the body theirs, in the order of std::set.  Slot i is slots[i + 1]. *)

ParamNames(f) == { Params[f][i] : i \in DOMAIN Params[f] }

collectLocals(f) == Mentions[f] \ ParamNames(f)

\* Mutant: locals numbered from zero again.
SlotsRestart(f, n) ==
  IF n \in ParamNames(f) THEN Max({ i \in DOMAIN Params[f] : Params[f][i] = n })
  ELSE Cardinality({ m \in collectLocals(f) : m <= n })

localVarMap(f, n) ==
  IF n \in ParamNames(f) THEN Max({ i \in DOMAIN Params[f] : Params[f][i] = n })
  ELSE Len(Params[f]) + Cardinality({ m \in collectLocals(f) : m <= n })

localVarCount(f) == Len(Params[f]) + Cardinality(collectLocals(f))

\* Mutant: the last slot forgotten.
OneSlotShort(f, args) ==
  [k \in 1 .. localVarCount(f) - 1 |-> 0]

\* The prologue zeroes the slots and copies one argument after the other.
Copied(f, args) ==
  [k \in 1 .. localVarCount(f) |->
     LET copies == { i \in DOMAIN Params[f] : localVarMap(f, Params[f][i]) = k }
     IN IF copies = {} THEN 0 ELSE args[Max(copies)]]

-------------------------------------------------------------------------------
(* Where the variables of an interpreted activation are: in the map while it
   runs, in what the next interpreted activation has saved while it waits. *)

Above(k) == { j \in k + 1 .. Len(stack) : stack[j].engine = "interpreter" }

VariablesOf(k) == IF Above(k) = {} THEN variables ELSE stack[Min(Above(k))].savedVars

\* The variables that activation k has given a value.
Env(k) ==
  [n \in Name |->
     IF n \notin stack[k].own THEN Unset
     ELSE IF stack[k].engine = "native" THEN stack[k].slots[localVarMap(stack[k].fn, n)]
     ELSE VariablesOf(k)[n]]

S == INSTANCE Scopes WITH
       frames <- [k \in DOMAIN stack |-> [env |-> Env(k), target |-> stack[k].target]]

-------------------------------------------------------------------------------
(* The interpreter *)

\* evaluate, in these variables.
evaluate(e, vs) == IF S!IsVar(e) THEN vs[e.var] ELSE e.lit

\* evaluateFunctionCall: parameters are assigned one by one, each argument evaluated
\* in the variables its predecessors have changed already.
SetUpParameters(f, es) ==
  LET assigned[i \in 0 .. Len(Params[f])] ==
        IF i = 0 THEN variables
        ELSE [assigned[i - 1] EXCEPT
                ![Params[f][i]] = IF i <= Len(es) THEN evaluate(es[i], assigned[i - 1]) ELSE 0]
  IN assigned[Len(Params[f])]

-------------------------------------------------------------------------------
(* The running program *)

Frame(f, engine, slots, saved) ==
  [fn |-> f, engine |-> engine, slots |-> slots, savedVars |-> saved,
   own |-> ParamNames(f), target |-> 0]

NoVariables == [n \in Name |-> Unset]

Main == [fn |-> "main", engine |-> "interpreter", slots |-> << >>, savedVars |-> NoVariables,
         own |-> {}, target |-> 0]

Init == variables = NoVariables /\ stack = << Main >>

\* The names the running function uses, and those among them it has given a value:
\* it reads no others.
InScope(x)   == x \in IF Len(stack) = 1 THEN Name ELSE ParamNames(Top.fn) \cup Mentions[Top.fn]
Readable(e)  == S!IsVar(e) => e.var \in Top.own

Read(e) ==
  IF Native /\ S!IsVar(e) THEN Top.slots[localVarMap(Top.fn, e.var)] ELSE evaluate(e, variables)

\* Frame k with v in its variable x, if its variables are in slots.
Stored(k, x, v) ==
  LET a == stack[k]
  IN [a EXCEPT !.own = @ \cup {x}, !.target = 0,
               !.slots = IF a.engine = "native"
                         THEN [@ EXCEPT ![localVarMap(a.fn, x)] = v] ELSE @]

assign(x, e) ==
  /\ InScope(x) /\ Readable(e)
  /\ stack' = [stack EXCEPT ![Len(stack)] = Stored(Len(stack), x, Read(e))]
  /\ variables' = IF Native THEN variables ELSE [variables EXCEPT ![x] = Read(e)]

Calling(x, frame) == Append([stack EXCEPT ![Len(stack)].target = x], frame)

MayCall(x, f, es) ==
  /\ InScope(x) /\ Len(stack) < MaxDepth
  /\ \A i \in DOMAIN es : Readable(es[i])

\* callCompiled, from the driver or from native code.
callNative(x, f, es) ==
  /\ MayCall(x, f, es) /\ Len(es) = Len(Params[f])
  /\ f \in Compiled /\ (Native \/ Len(stack) = 1)
  /\ stack' = Calling(x, Frame(f, "native", Copied(f, [i \in DOMAIN es |-> Read(es[i])]),
                               NoVariables))
  /\ UNCHANGED variables

\* runtimeCallUserFunc, from native code: the arguments are values by now.
callFromNative(x, f, es) ==
  /\ MayCall(x, f, es)
  /\ f \notin Compiled /\ Native
  /\ variables' = SetUpParameters(f, [i \in DOMAIN es |-> [lit |-> Read(es[i])]])
  /\ stack' = Calling(x, Frame(f, "interpreter", << >>, variables))

\* Bound on programs: no argument mentions a parameter that is assigned before it is
\* evaluated.  Such an argument gets the parameter's new value: gcd(b, a % b) does.
ArgumentsKept(f, es) ==
  \A i \in DOMAIN es, j \in DOMAIN Params[f] : j < i => es[i] # [var |-> Params[f][j]]

\* evaluateFunctionCall: from an interpreted body, or from the driver, which leaves a
\* call inside another expression to the interpreter.
callInterpreted(x, f, es) ==
  /\ MayCall(x, f, es)
  /\ ~Native
  /\ ArgumentsKept(f, es)
  /\ variables' = SetUpParameters(f, es)
  /\ stack' = Calling(x, Frame(f, "interpreter", << >>, variables))

\* Mutant: the callee's variables are left behind.
KeptVariables == variables

RestoredVariables == Top.savedVars

return(e) ==
  /\ Len(stack) > 1 /\ Readable(e)
  /\ stack' = [SubSeq(stack, 1, Caller) EXCEPT
                 ![Caller] = Stored(Caller, stack[Caller].target, Read(e))]
  /\ LET restored == IF Native THEN variables ELSE RestoredVariables
     IN variables' = IF stack[Caller].engine = "native" THEN restored
                     ELSE [restored EXCEPT ![stack[Caller].target] = Read(e)]

Next ==
  \/ \E e \in S!Expr : return(e) \/ \E x \in Name : assign(x, e)
  \/ \E x \in Name, f \in Fn : \E es \in S!ArgLists(f) :
       callNative(x, f, es) \/ callFromNative(x, f, es) \/ callInterpreted(x, f, es)

Spec == Init /\ [][Next]_vars

-------------------------------------------------------------------------------
Map == [Name -> Value \cup {Unset}]

TypeOK ==
  /\ variables \in Map
  /\ \A k \in DOMAIN stack :
       /\ stack[k].savedVars \in Map
       /\ stack[k].own \subseteq Name
       /\ k = 1 <=> stack[k].fn = "main"
       /\ k > 1 => /\ stack[k].own \subseteq ParamNames(stack[k].fn) \cup Mentions[stack[k].fn]
                   /\ stack[k].engine = "native"
                        => /\ stack[k].slots \in Seq(Value)
                           /\ Len(stack[k].slots) = localVarCount(stack[k].fn)
  /\ \A k \in 1 .. Len(stack) - 1 : stack[k].target \in Name

\* Each activation has its own variables, in whichever engine it runs and however
\* calls of the two engines nest.
ImplementsScopes == S!Spec
===============================================================================
