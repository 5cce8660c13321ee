-------------------------------- MODULE Scopes --------------------------------
(***************************************************************************)
(* What the variables of functions mean: every activation has variables of *)
(* its own, the parameters are bound to the values the arguments have in   *)
(* the caller, and a return leaves the caller as it was but for the        *)
(* variable that takes the result.  Variables.tla shows when the           *)
(* interpreter's one map and the JIT's stack slots amount to this.         *)
(*                                                                         *)
(* What an expression computes from several variables is left to           *)
(* Evaluation: here it is a literal or a variable.                         *)
(***************************************************************************)
EXTENDS Integers, Sequences, FiniteSets, FiniteSetsExt

CONSTANTS
  Name,       \* variable names; std::set orders them as these numbers
  Value,      \* integers; 0 is also what a missing value becomes
  Unset,      \* the variable does not exist
  Fn,         \* the functions
  Params,     \* Params[f]: the parameter names of f, in order
  MaxDepth    \* bound: activations alive at once

Expr     == [lit : Value] \cup [var : Name]
IsVar(e) == DOMAIN e = {"var"}

VARIABLES
  frames      \* the activations, the main program first: what their variables
              \* hold, and which of them takes the result of a pending call

Top == frames[Len(frames)]

\* The value of e; a variable must have one.
HasValue(e, env) == IsVar(e) => env[e.var] # Unset
ValueOf(e, env)  == IF IsVar(e) THEN env[e.var] ELSE e.lit

\* A parameter that is named twice takes the later argument.
Position(f, n) == Max({ i \in DOMAIN Params[f] : Params[f][i] = n })
IsParam(f, n)  == \E i \in DOMAIN Params[f] : Params[f][i] = n

\* The variables of f when it is called with these values; missing ones are 0.
Bound(f, args) ==
  [n \in Name |-> IF ~IsParam(f, n) THEN Unset
                  ELSE IF Position(f, n) \in DOMAIN args THEN args[Position(f, n)]
                  ELSE 0]

Init == frames = << [env |-> [n \in Name |-> Unset], target |-> 0] >>

Assign(x, e) ==
  /\ HasValue(e, Top.env)
  /\ frames' = [frames EXCEPT ![Len(frames)].env[x] = ValueOf(e, Top.env)]

\* x = f(es)
Call(x, f, es) ==
  /\ Len(frames) < MaxDepth
  /\ \A i \in DOMAIN es : HasValue(es[i], Top.env)
  /\ frames' = Append([frames EXCEPT ![Len(frames)].target = x],
                      [env    |-> Bound(f, [i \in DOMAIN es |-> ValueOf(es[i], Top.env)]),
                       target |-> 0])

\* Taken by the caller's target.
Delivered(v) ==
  LET caller == Len(frames) - 1
  IN [SubSeq(frames, 1, caller) EXCEPT
        ![caller] = [env    |-> [frames[caller].env EXCEPT ![frames[caller].target] = v],
                     target |-> 0]]

Return(e) ==
  /\ Len(frames) > 1
  /\ HasValue(e, Top.env)
  /\ frames' = Delivered(ValueOf(e, Top.env))

\* Not every parameter needs an argument.
ArgLists(f) == UNION { [1 .. k -> Expr] : k \in 0 .. Len(Params[f]) }

Next ==
  \/ \E e \in Expr : Return(e) \/ \E x \in Name : Assign(x, e)
  \/ \E x \in Name, f \in Fn : \E es \in ArgLists(f) : Call(x, f, es)

Spec == Init /\ [][Next]_frames
===============================================================================
