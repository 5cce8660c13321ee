-------------------------------- MODULE Lookup --------------------------------
(***************************************************************************)
(* Which definition a call runs when a program is interpreted              *)
(* (interpreter.cpp): a function definition takes effect when it is        *)
(* executed, at the top level or inside a body.  A call looks its name up  *)
(* first, evaluates an argument for each parameter, calls in it included,  *)
(* and then runs what it found, even if an argument has defined the name   *)
(* again.  Dispatch.tla shows when the JIT driver runs the same.           *)
(*                                                                         *)
(* Only definitions, calls and returns matter here.  A body is the set of  *)
(* paths its conditions may select, a path the sequence of such statements *)
(* on it, calls in expressions among them: those that are not arguments    *)
(* are statements of the path, and Args names those that are.              *)
(***************************************************************************)
EXTENDS Integers, Sequences

CONSTANTS
  Name,
  Def,        \* the function definitions of the program text
  NoDef,      \* a name that is not in a table
  NameOf,     \* NameOf[d]: the name that d defines
  Arity,      \* Arity[d]: how many parameters it has
  Paths,      \* Paths[d]: the paths through d's body
  Site,       \* the call expressions of the program text
  Callee,     \* Callee[s]: the name that s calls
  Args,       \* Args[s]: the calls that stand in s's arguments, in order, but not
              \* those in the arguments of another call there
  Position,   \* Position[s]: in which argument s stands, if in one
  Programs,   \* the programs: sequences of top-level statements
  MaxDepth    \* bound: calls active at once

Table     == [Name -> Def \cup {NoDef}]
Statement == [kind : {"def"}, def : Def]
               \cup [kind : {"call"}, site : Site]
               \cup [kind : {"return"}]

Defining(d) == [kind |-> "def", def |-> d]
Calling(s)  == [kind |-> "call", site |-> s]
ArgCalls(s) == [i \in DOMAIN Args[s] |-> Calling(Args[s][i])]

VARIABLES
  prog,        \* the program
  pc,          \* the top-level statement to execute
  functions,   \* Interpreter::functions
  active,      \* the calls under way, innermost last: the definition found, whether
               \* its arguments or its body is being executed, what is left of them
  outcome      \* "running", "finished", "undefined", "failed"

vars == << prog, pc, functions, active, outcome >>

Init ==
  /\ prog \in Programs
  /\ pc = 1
  /\ functions = [n \in Name |-> NoDef]
  /\ active = << >>
  /\ outcome = "running"

Running == outcome = "running"

Innermost == active[Len(active)]
Callers   == SubSeq(active, 1, Len(active) - 1)

\* The arguments that the parameters take are evaluated; more are not looked at.
Ready(a) ==
  /\ a.phase = "arguments"
  /\ a.rest # << >> => Position[Head(a.rest).site] > Arity[a.def]

\* Statement s comes next, in the innermost call or, if there is none, at the top level.
Comes(s) ==
  /\ Running
  /\ IF active = << >> THEN pc <= Len(prog) /\ prog[pc] = s
     ELSE Innermost.rest # << >> /\ Head(Innermost.rest) = s /\ ~Ready(Innermost)

\* The program with that statement behind it.
Behind == IF active = << >> THEN << >>
          ELSE Append(Callers, [Innermost EXCEPT !.rest = Tail(@)])
Following == IF active = << >> THEN pc + 1 ELSE pc

Waiting(d, s) == [def |-> d, phase |-> "arguments", rest |-> ArgCalls(s)]
Bodies(d)     == { [def |-> d, phase |-> "body", rest |-> path] : path \in Paths[d] }

Define(d) ==
  /\ Comes(Defining(d))
  /\ functions' = [functions EXCEPT ![NameOf[d]] = d]
  /\ pc' = Following /\ active' = Behind
  /\ UNCHANGED << prog, outcome >>

\* The name is looked up before any argument is evaluated.
Call(s) ==
  /\ Comes(Calling(s))
  /\ Len(active) < MaxDepth
  /\ functions[Callee[s]] # NoDef
  /\ LET a == Waiting(functions[Callee[s]], s)
     IN \E b \in IF Ready(a) THEN Bodies(a.def) ELSE {a} : active' = Append(Behind, b)
  /\ pc' = Following
  /\ UNCHANGED << prog, functions, outcome >>

\* The arguments being evaluated, the body is executed.
Enter ==
  /\ Running /\ active # << >> /\ Ready(Innermost)
  /\ \E b \in Bodies(Innermost.def) : active' = Append(Callers, b)
  /\ UNCHANGED << prog, pc, functions, outcome >>

\* A return statement or the end of the body.
Return ==
  /\ Running /\ active # << >> /\ Innermost.phase = "body"
  /\ Innermost.rest # << >> => Head(Innermost.rest).kind = "return"
  /\ active' = Callers
  /\ UNCHANGED << prog, pc, functions, outcome >>

\* A call of a name that has no definition yet ends the program.
Undefined ==
  /\ \E s \in Site : Comes(Calling(s)) /\ functions[Callee[s]] = NoDef
  /\ outcome' = "undefined"
  /\ UNCHANGED << prog, pc, functions, active >>

\* So does any other error in a call, and a return outside of a function.
Fail ==
  /\ (active = << >> /\ Comes([kind |-> "return"])) \/ (Running /\ active # << >>)
  /\ outcome' = "failed"
  /\ UNCHANGED << prog, pc, functions, active >>

Finish ==
  /\ Running /\ active = << >> /\ pc > Len(prog)
  /\ outcome' = "finished"
  /\ UNCHANGED << prog, pc, functions, active >>

Next ==
  \/ Enter \/ Return \/ Undefined \/ Fail \/ Finish
  \/ \E d \in Def : Define(d)
  \/ \E s \in Site : Call(s)

Spec == Init /\ [][Next]_vars
===============================================================================
