------------------------------- MODULE Dispatch -------------------------------
(***************************************************************************)
(* The JIT driver (NativeJIT::execute): a first pass compiles the          *)
(* top-level function definitions and enters each in the interpreter's     *)
(* table as well, a second pass executes the other statements.  Where a    *)
(* call stands decides which table its name is looked up in, and when:     *)
(*                                                                         *)
(*   a statement, assignment or print, and an argument of such a call:     *)
(*     the driver takes compiledFunctions first, then every argument, or   *)
(*     else leaves the call to the interpreter;                            *)
(*   elsewhere at the top level, and in an interpreted body: the           *)
(*     interpreter takes functions first, then an argument for each        *)
(*     parameter;                                                          *)
(*   in native code: every argument first (jit_push_arg), then             *)
(*     compiledFunctions, else functions (jit_call_func).                  *)
(*                                                                         *)
(* An error ends the program, in main or, with native frames on the stack, *)
(* in std::terminate; which one is not recorded.                           *)
(***************************************************************************)
EXTENDS Integers, Sequences

CONSTANTS
  Name, Def, NoDef, NameOf, Arity, Paths, Site, Callee, Args, Position,
  Programs, MaxDepth,
  Owner,      \* Owner[s]: the definition in whose body s stands, NoDef at the top level
  Compiles    \* the definitions whose body the JIT supports

VARIABLES
  prog,
  pass,                \* 1: compiling, 2: executing
  pc,                  \* the statement the pass has come to
  compiledFunctions,   \* NativeJIT::compiledFunctions
  functions,           \* Interpreter::functions
  active,              \* the calls under way, innermost last: the call, the
                       \* definition it found (NoDef before jit_call_func or
                       \* callCompiled), what is left of its arguments or its body,
                       \* and who executes them
  outcome

vars == << prog, pass, pc, compiledFunctions, functions, active, outcome >>

tables == << compiledFunctions, functions >>

Defining(d) == [kind |-> "def", def |-> d]
Calling(s)  == [kind |-> "call", site |-> s]
ArgCalls(s) == [i \in DOMAIN Args[s] |-> Calling(Args[s][i])]

(***************************************************************************)
(* The program as Lookup sees it: a definition the first pass has hoisted  *)
(* counts from the place where it stands, and a call whose name is not     *)
(* looked up yet has found what its name means now.                        *)
(***************************************************************************)
Ahead(d) == \E k \in DOMAIN prog : prog[k] = Defining(d) /\ (pass = 1 \/ k >= pc)

InOrder == [n \in Name |-> IF Ahead(functions[n]) THEN NoDef ELSE functions[n]]

Seen(a, table) == [def   |-> IF a.def = NoDef THEN table[Callee[a.site]] ELSE a.def,
                   phase |-> a.phase, rest |-> a.rest]

L == INSTANCE Lookup WITH
       pc        <- IF pass = 1 THEN 1 ELSE pc,
       functions <- InOrder,
       active    <- [k \in DOMAIN active |-> Seen(active[k], functions)]

ASSUME DefAssumption ==
  /\ NoDef \notin Def
  /\ NameOf \in [Def -> Name] /\ Arity \in [Def -> Nat]
  /\ Paths \in [Def -> SUBSET Seq(L!Statement)]
  /\ Compiles \subseteq Def
ASSUME SiteAssumption ==
  /\ Callee \in [Site -> Name] /\ Args \in [Site -> Seq(Site)]
  /\ Position \in [Site -> Nat] /\ Owner \in [Site -> Def \cup {NoDef}]
  /\ \A s \in Site : \A i, j \in DOMAIN Args[s] :
       /\ Owner[Args[s][i]] = Owner[s]
       /\ i < j => Position[Args[s][i]] <= Position[Args[s][j]]
  /\ \A d \in Def : \A path \in Paths[d] : \A j \in DOMAIN path :
       path[j].kind = "call" => Owner[path[j].site] = d
ASSUME ProgramAssumption ==
  \A p \in Programs : /\ p \in Seq(L!Statement)
                      /\ \A j \in DOMAIN p : p[j].kind = "call" => Owner[p[j].site] = NoDef
ASSUME BoundAssumption   == MaxDepth \in Nat

Init ==
  /\ prog \in Programs
  /\ pass = 1 /\ pc = 1
  /\ compiledFunctions = [n \in Name |-> NoDef]
  /\ functions = [n \in Name |-> NoDef]
  /\ active = << >>
  /\ outcome = "running"

Running == outcome = "running"

-------------------------------------------------------------------------------
(* First pass *)

\* Mutants: compiled functions are not registered; everything counts as compiled.
NotRegistered(d) == IF d \in Compiles THEN functions ELSE [functions EXCEPT ![NameOf[d]] = d]
AlwaysInstalled(d) == [compiledFunctions EXCEPT ![NameOf[d]] = d]

\* Whether or not compileFunction throws, the interpreter learns the definition.
Registered(d) == [functions EXCEPT ![NameOf[d]] = d]

Installed(d) ==
  IF d \in Compiles THEN [compiledFunctions EXCEPT ![NameOf[d]] = d] ELSE compiledFunctions

compileFunction ==
  /\ pass = 1 /\ pc <= Len(prog) /\ prog[pc].kind = "def"
  /\ compiledFunctions' = Installed(prog[pc].def)
  /\ functions' = Registered(prog[pc].def)
  /\ pc' = pc + 1
  /\ UNCHANGED << prog, pass, active, outcome >>

passOver ==
  /\ pass = 1 /\ pc <= Len(prog) /\ prog[pc].kind # "def"
  /\ pc' = pc + 1
  /\ UNCHANGED << prog, pass, tables, active, outcome >>

secondPass ==
  /\ pass = 1 /\ pc > Len(prog)
  /\ pass' = 2 /\ pc' = 1
  /\ UNCHANGED << prog, tables, active, outcome >>

-------------------------------------------------------------------------------
(* Second pass: what comes next, and who executes it *)

Innermost == active[Len(active)]
Callers   == SubSeq(active, 1, Len(active) - 1)
Engine    == IF active = << >> THEN "driver" ELSE Innermost.engine

\* Mutant: the interpreter evaluates every argument, as native code and the driver do.
AllEvaluated(a) == a.phase = "arguments" /\ a.rest = << >>

\* The arguments of a call are evaluated.
Ready(a) ==
  /\ a.phase = "arguments"
  /\ a.rest # << >> => a.engine = "interpreter" /\ Position[Head(a.rest).site] > Arity[a.def]

\* Statement s comes next, in the innermost call or, if there is none, at the top level.
Comes(s) ==
  /\ Running /\ pass = 2
  /\ IF active = << >> THEN pc <= Len(prog) /\ prog[pc] = s
     ELSE Innermost.rest # << >> /\ Head(Innermost.rest) = s /\ ~Ready(Innermost)

Behind == IF active = << >> THEN << >>
          ELSE Append(Callers, [Innermost EXCEPT !.rest = Tail(@)])
Following == IF active = << >> THEN pc + 1 ELSE pc

\* The innermost call, executed by this engine, has its arguments.
ReadyFor(engine) == Running /\ active # << >> /\ Innermost.engine = engine /\ Ready(Innermost)

Waiting(s, d, engine) ==
  [site |-> s, def |-> d, phase |-> "arguments", rest |-> ArgCalls(s), engine |-> engine]
Bodies(s, d, engine) ==
  { [site |-> s, def |-> d, phase |-> "body", rest |-> path, engine |-> engine]
      : path \in Paths[d] }

skipDefinition ==
  /\ active = << >> /\ \E d \in Def : Comes(Defining(d))
  /\ pc' = pc + 1
  /\ UNCHANGED << prog, pass, tables, active, outcome >>

finish ==
  /\ Running /\ pass = 2 /\ active = << >> /\ pc > Len(prog)
  /\ outcome' = "finished"
  /\ UNCHANGED << prog, pass, pc, tables, active >>

-------------------------------------------------------------------------------
(* Calls *)

\* By the driver: the call is the statement, the whole value of an assignment or of a
\* print's argument, or the whole argument of such a call.
evaluateWithJIT(s) ==
  /\ Comes(Calling(s)) /\ Engine = "driver" /\ Len(active) < MaxDepth
  /\ compiledFunctions[Callee[s]] # NoDef
  /\ \E a \in IF Args[s] = << >> THEN Bodies(s, compiledFunctions[Callee[s]], "native")
              ELSE {Waiting(s, NoDef, "driver")} : active' = Append(Behind, a)
  /\ pc' = Following
  /\ UNCHANGED << prog, pass, tables, outcome >>

callCompiled(s) ==
  /\ ReadyFor("driver") /\ Innermost.site = s
  /\ \E a \in Bodies(s, compiledFunctions[Callee[s]], "native") : active' = Append(Callers, a)
  /\ UNCHANGED << prog, pass, pc, tables, outcome >>

\* By the interpreter, in its own bodies or because the driver leaves it the call: the
\* name is not compiled, or the call stands inside another expression, an if or a while.
evaluateFunctionCall(s) ==
  /\ Comes(Calling(s)) /\ Engine # "native" /\ Len(active) < MaxDepth
  /\ functions[Callee[s]] # NoDef
  /\ LET a == Waiting(s, functions[Callee[s]], "interpreter")
     IN \E b \in IF Ready(a) THEN Bodies(s, a.def, "interpreter") ELSE {a} :
          active' = Append(Behind, b)
  /\ pc' = Following
  /\ UNCHANGED << prog, pass, tables, outcome >>

executeBody ==
  /\ ReadyFor("interpreter")
  /\ \E a \in Bodies(Innermost.site, Innermost.def, "interpreter") :
       active' = Append(Callers, a)
  /\ UNCHANGED << prog, pass, pc, tables, outcome >>

\* By native code: it first evaluates and pushes every argument ...
jit_push_arg(s) ==
  /\ Comes(Calling(s)) /\ Engine = "native" /\ Len(active) < MaxDepth
  /\ Args[s] # << >>
  /\ active' = Append(Behind, Waiting(s, NoDef, "native"))
  /\ UNCHANGED << prog, pass, pc, tables, outcome >>

\* ... then looks the name up.
Pushed(s) ==
  \/ Comes(Calling(s)) /\ Engine = "native" /\ Args[s] = << >>
  \/ ReadyFor("native") /\ Innermost.site = s

jit_call_func(s) ==
  /\ Pushed(s)
  /\ LET outer == IF Ready(Innermost) THEN Callers ELSE Behind
         name  == Callee[s]
     IN /\ Len(outer) < MaxDepth
        /\ \/ /\ compiledFunctions[name] # NoDef
              /\ \E a \in Bodies(s, compiledFunctions[name], "native") : active' = Append(outer, a)
           \/ /\ compiledFunctions[name] = NoDef /\ functions[name] # NoDef
              /\ \E a \in Bodies(s, functions[name], "interpreter") : active' = Append(outer, a)
  /\ UNCHANGED << prog, pass, pc, tables, outcome >>

\* A definition nested in a body: compileStatement emits nothing for it.
nestedDefinition(d) ==
  /\ active # << >> /\ Comes(Defining(d))
  /\ functions' = IF Engine = "native" THEN functions ELSE Registered(d)
  /\ active' = Behind
  /\ UNCHANGED << prog, pass, pc, compiledFunctions, outcome >>

return ==
  /\ Running /\ active # << >> /\ Innermost.phase = "body"
  /\ Innermost.rest # << >> => Head(Innermost.rest).kind = "return"
  /\ active' = Callers
  /\ UNCHANGED << prog, pass, pc, tables, outcome >>

-------------------------------------------------------------------------------
(* Errors *)

undefined ==
  /\ \E s \in Site : /\ functions[Callee[s]] = NoDef
                     /\ \/ Comes(Calling(s)) /\ Engine # "native"
                        \/ Pushed(s) /\ compiledFunctions[Callee[s]] = NoDef
  /\ outcome' = "undefined"
  /\ UNCHANGED << prog, pass, pc, tables, active >>

\* ReturnException is not a std::exception: main does not catch it.
fail ==
  /\ (active = << >> /\ Comes([kind |-> "return"])) \/ (Running /\ active # << >>)
  /\ outcome' = "failed"
  /\ UNCHANGED << prog, pass, pc, tables, active >>

Next ==
  \/ compileFunction \/ passOver \/ secondPass \/ skipDefinition \/ finish
  \/ executeBody \/ return \/ undefined \/ fail
  \/ \E s \in Site : \/ evaluateWithJIT(s) \/ callCompiled(s) \/ evaluateFunctionCall(s)
                     \/ jit_push_arg(s) \/ jit_call_func(s)
  \/ \E d \in Def : nestedDefinition(d)

Spec == Init /\ [][Next]_vars

-------------------------------------------------------------------------------
Calls ==
  [site : Site, def : Def \cup {NoDef}, phase : {"arguments", "body"},
   rest : Seq(L!Statement), engine : {"native", "interpreter", "driver"}]

Activation ==
  { a \in Calls :
      /\ a.def = NoDef <=> a.phase = "arguments" /\ a.engine # "interpreter"
      /\ a.phase = "body" => a.engine # "driver" /\ (a.engine = "native" => a.def \in Compiles) }

TypeOK ==
  /\ prog \in Programs
  /\ pass \in {1, 2} /\ pc \in 1 .. Len(prog) + 1
  /\ functions \in L!Table /\ compiledFunctions \in L!Table
  /\ \A n \in Name : /\ functions[n] # NoDef => NameOf[functions[n]] = n
                     /\ compiledFunctions[n] # NoDef => compiledFunctions[n] \in Compiles
  /\ active \in Seq(Activation)
  /\ outcome \in {"running", "finished", "undefined", "failed"}

\* Whichever table a call is looked up in, it finds the same definition: native code,
\* where there is any, belongs to the definition the interpreter would run.
TablesAgree ==
  \A n \in Name : compiledFunctions[n] \in {NoDef, functions[n]}

\* Every call runs the definition that it would run in the interpreter, evaluates the
\* arguments the interpreter would and in its place, and fails as undefined only where
\* it would, although native code looks a name up after the arguments and the
\* interpreter before them.
ImplementsLookup == L!Spec

-------------------------------------------------------------------------------
(***************************************************************************)
(* The programs of which the properties are claimed.  Definitions come     *)
(* first and define each name once; one nested in a body has a name that   *)
(* no top-level definition has, and none is nested in a compiled body.     *)
(* What only native code and the driver do must not show: in native code   *)
(* a call with calls in its arguments names a top-level definition, which  *)
(* is in force before and after they run; and there, as in a call of a     *)
(* compiled function by the driver, no call stands in an argument that     *)
(* the callee has no parameter for.                                        *)
(***************************************************************************)
IsDef(s) == s.kind = "def"

Defines(p, d) == \E k \in DOMAIN p : p[k] = Defining(d)

DefinedOnce(p) ==
  /\ \A i, j \in DOMAIN p : i < j /\ IsDef(p[j]) => IsDef(p[i])
  /\ \A i, j \in DOMAIN p :
       IsDef(p[i]) /\ IsDef(p[j]) /\ NameOf[p[i].def] = NameOf[p[j].def] => i = j
  /\ \A i \in DOMAIN p, d \in Def : \A path \in Paths[d] : \A j \in DOMAIN path :
       IsDef(p[i]) /\ IsDef(path[j]) => NameOf[p[i].def] # NameOf[path[j].def]

\* Site s stands in a body that p compiles.
InNative(p, s) == Owner[s] \in Compiles /\ Defines(p, Owner[s])

OrderUnseen(p) ==
  \A s \in Site : Args[s] # << >> =>
    /\ InNative(p, s) => \E d \in Def : Defines(p, d) /\ NameOf[d] = Callee[s]
    /\ \A d \in Def :
         /\ Defines(p, d) /\ NameOf[d] = Callee[s]
         /\ InNative(p, s) \/ (Owner[s] = NoDef /\ d \in Compiles)
         => \A i \in DOMAIN Args[s] : Position[Args[s][i]] <= Arity[d]

Plain ==
  /\ \A p \in Programs : DefinedOnce(p) /\ OrderUnseen(p)
  /\ \A d \in Compiles : \A path \in Paths[d] : \A j \in DOMAIN path : ~IsDef(path[j])
===============================================================================
