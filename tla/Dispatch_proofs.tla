--------------------------- MODULE Dispatch_proofs ---------------------------
(***************************************************************************)
(* Machine-checked proofs about Dispatch: for plain programs both tables   *)
(* always agree, and every call runs what the interpreter would run.       *)
(***************************************************************************)
EXTENDS Dispatch, TLAPS

-------------------------------------------------------------------------------
(* The inductive invariant *)

\* While the first pass compiles, nothing runs, and functions holds definitions that
\* it has come to.
Hoisting ==
  pass = 1 => /\ active = << >> /\ outcome = "running"
              /\ \A n \in Name : functions[n] # NoDef =>
                   \E k \in DOMAIN prog : k < pc /\ prog[k] = Defining(functions[n])

\* A top-level definition stays in force once the first pass has come to it.
InForce ==
  \A k \in DOMAIN prog :
    IsDef(prog[k]) /\ (pass = 2 \/ k < pc) => functions[NameOf[prog[k].def]] = prog[k].def

\* A call is under way only when every definition lies behind.
DefinitionsBehind ==
  active # << >> => pass = 2 /\ \A k \in DOMAIN prog : IsDef(prog[k]) => k < pc

\* Only top-level definitions are compiled.
CompiledAtTop ==
  \A n \in Name : compiledFunctions[n] # NoDef => Defines(prog, compiledFunctions[n])

\* Statement s stands in the body of d.
InBody(s, d) == \E path \in Paths[d] : \E j \in DOMAIN path : path[j] = s

\* What is left of a call of program p stands in its arguments or in the body of its
\* definition, and a call whose name is not looked up yet is one of native code or one
\* that the driver has found compiled.
Placed(a, p, compiled) ==
  /\ a.phase = "body" => \A j \in DOMAIN a.rest : InBody(a.rest[j], a.def)
  /\ a.phase = "arguments" => \A j \in DOMAIN a.rest :
       \E i \in DOMAIN Args[a.site] : a.rest[j] = Calling(Args[a.site][i])
  /\ a.phase = "body" /\ a.engine = "native" => Defines(p, a.def)
  /\ a.def = NoDef =>
       /\ Args[a.site] # << >>
       /\ \/ a.engine = "native" /\ InNative(p, a.site)
          \/ a.engine = "driver" /\ Owner[a.site] = NoDef /\ compiled[Callee[a.site]] # NoDef

AllPlaced(q, p, compiled) == \A k \in DOMAIN q : Placed(q[k], p, compiled)

CallsPlaced == AllPlaced(active, prog, compiledFunctions)

IInv ==
  /\ TypeOK /\ TablesAgree
  /\ Hoisting /\ InForce /\ DefinitionsBehind /\ CompiledAtTop /\ CallsPlaced

-------------------------------------------------------------------------------
(* Sequences of calls, and Lookup's view of them *)

View(q, table) == [k \in DOMAIN q |-> Seen(q[k], table)]

Viewed == [def : Def \cup {NoDef}, phase : {"arguments", "body"}, rest : Seq(L!Statement)]

LEMMA SameSequence ==
  ASSUME NEW S, NEW p \in Seq(S), NEW q \in Seq(S), Len(p) = Len(q),
         \A k \in 1 .. Len(q) : p[k] = q[k]
  PROVE  p = q
OBVIOUS

LEMMA DropLast ==
  ASSUME NEW S, NEW q \in Seq(S), q # << >>
  PROVE  /\ SubSeq(q, 1, Len(q) - 1) \in Seq(S)
         /\ Len(SubSeq(q, 1, Len(q) - 1)) = Len(q) - 1
         /\ \A k \in 1 .. Len(q) - 1 : SubSeq(q, 1, Len(q) - 1)[k] = q[k]
OBVIOUS

LEMMA SeenType ==
  ASSUME NEW a \in Activation, NEW table \in L!Table
  PROVE  Seen(a, table) \in Viewed
<1>1. a.site \in Site /\ a.def \in Def \cup {NoDef} /\ Callee[a.site] \in Name
  BY SiteAssumption DEF Activation, Calls
<1>2. table[Callee[a.site]] \in Def \cup {NoDef}
  BY <1>1 DEF L!Table
<1> QED BY <1>1, <1>2 DEF Activation, Calls, Seen, Viewed

LEMMA ViewType ==
  ASSUME NEW q \in Seq(Activation), NEW table \in L!Table
  PROVE  /\ View(q, table) \in Seq(Viewed)
         /\ Len(View(q, table)) = Len(q)
         /\ View(q, table) = << >> <=> q = << >>
         /\ \A k \in 1 .. Len(q) : View(q, table)[k] = Seen(q[k], table)
<1>1. Len(q) \in Nat /\ DOMAIN q = 1 .. Len(q) /\ \A k \in 1 .. Len(q) : q[k] \in Activation
  OBVIOUS
<1>2. View(q, table) \in [1 .. Len(q) -> Viewed]
  BY <1>1, SeenType DEF View
<1>3. View(q, table) \in Seq(Viewed) /\ Len(View(q, table)) = Len(q)
  BY <1>1, <1>2
<1> QED BY <1>1, <1>3 DEF View

LEMMA ViewAppend ==
  ASSUME NEW q \in Seq(Activation), NEW a \in Activation, NEW table \in L!Table
  PROVE  View(Append(q, a), table) = Append(View(q, table), Seen(a, table))
<1> DEFINE v == View(q, table)
           w == View(Append(q, a), table)
           b == Seen(a, table)
<1>1. /\ v \in Seq(Viewed) /\ Len(v) = Len(q) /\ b \in Viewed /\ Len(q) \in Nat
      /\ \A k \in 1 .. Len(q) : v[k] = Seen(q[k], table)
  BY ViewType, SeenType
<1>2. /\ Append(q, a) \in Seq(Activation) /\ Len(Append(q, a)) = Len(q) + 1
      /\ Append(q, a)[Len(q) + 1] = a /\ \A k \in 1 .. Len(q) : Append(q, a)[k] = q[k]
  OBVIOUS
<1>3. /\ w \in Seq(Viewed) /\ Len(w) = Len(q) + 1
      /\ \A k \in 1 .. Len(q) + 1 : w[k] = Seen(Append(q, a)[k], table)
  BY <1>2, ViewType
<1> HIDE DEF v, w, b
<1>4. /\ Append(v, b) \in Seq(Viewed) /\ Len(Append(v, b)) = Len(q) + 1
      /\ Append(v, b)[Len(q) + 1] = b /\ \A k \in 1 .. Len(q) : Append(v, b)[k] = v[k]
  BY <1>1
<1>5. ASSUME NEW k \in 1 .. Len(q) + 1
      PROVE  w[k] = Append(v, b)[k]
  <2>1. CASE k = Len(q) + 1
    BY <1>2, <1>3, <1>4, <2>1 DEF b
  <2>2. CASE k \in 1 .. Len(q)
    BY <1>1, <1>2, <1>3, <1>4, <2>2
  <2> QED BY <1>1, <2>1, <2>2
<1>6. w = Append(v, b)
  BY <1>3, <1>4, <1>5, SameSequence
<1> QED BY <1>6 DEF v, w, b

LEMMA ViewDropLast ==
  ASSUME NEW q \in Seq(Activation), q # << >>, NEW table \in L!Table
  PROVE  View(SubSeq(q, 1, Len(q) - 1), table)
           = SubSeq(View(q, table), 1, Len(View(q, table)) - 1)
<1> DEFINE v == View(q, table)
           p == SubSeq(q, 1, Len(q) - 1)
           w == View(p, table)
           z == SubSeq(v, 1, Len(v) - 1)
<1>1. /\ v \in Seq(Viewed) /\ Len(v) = Len(q) /\ v # << >> /\ Len(q) \in Nat
      /\ \A k \in 1 .. Len(q) : v[k] = Seen(q[k], table)
  BY ViewType
<1>2. p \in Seq(Activation) /\ Len(p) = Len(q) - 1 /\ \A k \in 1 .. Len(q) - 1 : p[k] = q[k]
  BY DropLast
<1>3. /\ w \in Seq(Viewed) /\ Len(w) = Len(q) - 1
      /\ \A k \in 1 .. Len(q) - 1 : w[k] = Seen(p[k], table)
  BY <1>2, ViewType
<1> HIDE DEF v, p, w
<1>4. z \in Seq(Viewed) /\ Len(z) = Len(q) - 1 /\ \A k \in 1 .. Len(q) - 1 : z[k] = v[k]
  BY <1>1, DropLast
<1> HIDE DEF z
<1>5. \A k \in 1 .. Len(q) - 1 : w[k] = z[k]
  BY <1>1, <1>2, <1>3, <1>4
<1>6. w = z
  BY <1>3, <1>4, <1>5, SameSequence
<1> QED BY <1>6 DEF v, p, w, z

\* A call added to a sequence of placed calls, or the last taken away.
LEMMA PlacedAppend ==
  ASSUME NEW p, NEW compiled, NEW q \in Seq(Activation), AllPlaced(q, p, compiled),
         NEW a \in Activation, Placed(a, p, compiled)
  PROVE  Append(q, a) \in Seq(Activation) /\ AllPlaced(Append(q, a), p, compiled)
<1>1. /\ Append(q, a) \in Seq(Activation) /\ DOMAIN Append(q, a) = 1 .. Len(q) + 1
      /\ Append(q, a)[Len(q) + 1] = a /\ \A k \in 1 .. Len(q) : Append(q, a)[k] = q[k]
      /\ Len(q) \in Nat /\ DOMAIN q = 1 .. Len(q)
  OBVIOUS
<1>2. \A k \in 1 .. Len(q) : Placed(q[k], p, compiled)
  BY <1>1 DEF AllPlaced
<1>3. ASSUME NEW k \in 1 .. Len(q) + 1
      PROVE  Placed(Append(q, a)[k], p, compiled)
  <2>1. CASE k = Len(q) + 1
    BY <1>1, <2>1
  <2>2. CASE k \in 1 .. Len(q)
    BY <1>1, <1>2, <2>2
  <2> QED BY <1>1, <2>1, <2>2
<1> QED BY <1>1, <1>3 DEF AllPlaced

LEMMA PlacedDropLast ==
  ASSUME NEW p, NEW compiled, NEW q \in Seq(Activation), q # << >>, AllPlaced(q, p, compiled)
  PROVE  /\ SubSeq(q, 1, Len(q) - 1) \in Seq(Activation)
         /\ AllPlaced(SubSeq(q, 1, Len(q) - 1), p, compiled)
<1> DEFINE r == SubSeq(q, 1, Len(q) - 1)
<1>1. r \in Seq(Activation) /\ Len(r) = Len(q) - 1 /\ \A k \in 1 .. Len(q) - 1 : r[k] = q[k]
  BY DropLast
<1>2. Len(q) \in Nat /\ DOMAIN q = 1 .. Len(q)
  OBVIOUS
<1> HIDE DEF r
<1>3. DOMAIN r = 1 .. Len(q) - 1
  BY <1>1
<1>4. \A k \in DOMAIN r : k \in DOMAIN q /\ r[k] = q[k]
  BY <1>1, <1>2, <1>3
<1>5. AllPlaced(r, p, compiled)
  BY <1>4 DEF AllPlaced
<1> QED BY <1>1, <1>5 DEF r

-------------------------------------------------------------------------------
(* The first pass *)

LEMMA ProgramType ==
  ASSUME prog \in Programs
  PROVE  /\ prog \in Seq(L!Statement) /\ Len(prog) \in Nat /\ DOMAIN prog = 1 .. Len(prog)
         /\ \A k \in DOMAIN prog : prog[k].kind = "def" =>
              /\ prog[k].def \in Def /\ NameOf[prog[k].def] \in Name
              /\ prog[k] = Defining(prog[k].def)
<1>1. prog \in Seq(L!Statement)
  BY ProgramAssumption
<1>2. ASSUME NEW k \in DOMAIN prog, prog[k].kind = "def"
      PROVE  /\ prog[k].def \in Def /\ NameOf[prog[k].def] \in Name
             /\ prog[k] = Defining(prog[k].def)
  <2>1. prog[k] \in L!Statement
    BY <1>1
  <2>2. prog[k] \in [kind : {"def"}, def : Def]
    BY <1>2, <2>1 DEF L!Statement
  <2> QED BY <2>2, DefAssumption DEF Defining
<1> QED BY <1>1, <1>2

LEMMA InitInv ==
  ASSUME Init
  PROVE  IInv /\ L!Init
<1>1. prog \in Seq(L!Statement) /\ Len(prog) \in Nat
  BY ProgramType DEF Init
<1>2. << >> \in Seq(Activation) /\ DOMAIN << >> = {} /\ << >> = View(<< >>, functions)
  BY DEF View
<1>3. TypeOK
  BY <1>1, <1>2 DEF Init, TypeOK, L!Table
<1>4. TablesAgree /\ Hoisting /\ InForce /\ DefinitionsBehind /\ CompiledAtTop
  BY <1>1 DEF Init, TablesAgree, Hoisting, InForce, DefinitionsBehind, CompiledAtTop
<1>5. CallsPlaced
  BY <1>2 DEF Init, CallsPlaced, AllPlaced
<1>6. InOrder = [n \in Name |-> NoDef]
  BY DEF Init, InOrder
<1>7. L!Init
  BY <1>2, <1>6 DEF Init, L!Init, View
<1> QED BY <1>3, <1>4, <1>5, <1>7 DEF IInv

LEMMA NothingInOrder ==
  ASSUME IInv, pass = 1
  PROVE  InOrder = [n \in Name |-> NoDef]
<1>1. ASSUME NEW n \in Name
      PROVE  Ahead(functions[n]) \/ functions[n] = NoDef
  BY <1>1 DEF IInv, Hoisting, Ahead
<1> QED BY <1>1 DEF InOrder

LEMMA CompileStep ==
  ASSUME Plain, IInv, compileFunction
  PROVE  IInv' /\ UNCHANGED L!vars
<1> DEFINE d == prog[pc].def
<1>1. /\ pass = 1 /\ active = << >> /\ outcome = "running" /\ Running
      /\ pc \in DOMAIN prog /\ IsDef(prog[pc]) /\ pc \in Nat /\ Len(prog) \in Nat
  BY ProgramType DEF IInv, TypeOK, compileFunction, Running, IsDef, Hoisting
<1>2. /\ d \in Def /\ NameOf[d] \in Name /\ prog[pc] = Defining(d)
      /\ DOMAIN prog = 1 .. Len(prog) /\ prog \in Programs
      /\ \A k \in DOMAIN prog : IsDef(prog[k]) => /\ prog[k].def \in Def
                                                  /\ NameOf[prog[k].def] \in Name
  BY <1>1, ProgramType DEF IsDef, IInv, TypeOK
<1>3. /\ functions' = [functions EXCEPT ![NameOf[d]] = d]
      /\ compiledFunctions' = IF d \in Compiles THEN [compiledFunctions EXCEPT ![NameOf[d]] = d]
                              ELSE compiledFunctions
      /\ pc' = pc + 1 /\ UNCHANGED << prog, pass, active, outcome >>
  BY DEF compileFunction, Registered, Installed
<1>4. functions \in L!Table /\ compiledFunctions \in L!Table
  BY DEF IInv, TypeOK
<1>5. ASSUME NEW k \in DOMAIN prog, IsDef(prog[k]), k # pc
      PROVE  NameOf[prog[k].def] # NameOf[d]
  BY <1>1, <1>2, <1>5 DEF Plain, DefinedOnce
<1>6. compiledFunctions[NameOf[d]] = NoDef
  <2>1. SUFFICES ASSUME compiledFunctions[NameOf[d]] # NoDef
                 PROVE  FALSE
    OBVIOUS
  <2>2. functions[NameOf[d]] # NoDef
    BY <1>2, <2>1 DEF IInv, TablesAgree
  <2>3. PICK k \in DOMAIN prog : k < pc /\ prog[k] = Defining(functions[NameOf[d]])
    BY <1>1, <1>2, <2>2 DEF IInv, Hoisting
  <2>4. IsDef(prog[k]) /\ NameOf[prog[k].def] = NameOf[d]
    BY <1>2, <2>2, <2>3 DEF IInv, TypeOK, IsDef, Defining
  <2>5. k # pc
    BY <1>1, <1>2, <2>3
  <2> QED BY <1>5, <2>4, <2>5
<1>7. TypeOK'
  <2>1. functions' \in L!Table /\ compiledFunctions' \in L!Table
    BY <1>2, <1>3, <1>4 DEF L!Table
  <2>2. pc' \in 1 .. Len(prog) + 1
    BY <1>1, <1>2, <1>3
  <2>3. \A n \in Name :
          /\ functions'[n] # NoDef => NameOf[functions'[n]] = n
          /\ compiledFunctions'[n] # NoDef => compiledFunctions'[n] \in Compiles
    BY <1>2, <1>3, <1>4 DEF L!Table, IInv, TypeOK
  <2> QED BY <1>3, <2>1, <2>2, <2>3 DEF IInv, TypeOK
<1>8. TablesAgree'
  BY <1>2, <1>3, <1>4, <1>6 DEF L!Table, IInv, TablesAgree
<1>9. Hoisting'
  <2>1. ASSUME NEW n \in Name, functions'[n] # NoDef
        PROVE  \E k \in DOMAIN prog : k < pc + 1 /\ prog[k] = Defining(functions'[n])
    <3>1. CASE n = NameOf[d]
      BY <1>1, <1>2, <1>3, <1>4, <3>1 DEF L!Table
    <3>2. CASE n # NameOf[d]
      <4>1. functions'[n] = functions[n]
        BY <1>3, <1>4, <3>2 DEF L!Table
      <4>2. PICK k \in DOMAIN prog : k < pc /\ prog[k] = Defining(functions[n])
        BY <1>1, <2>1, <4>1 DEF IInv, Hoisting
      <4>3. k < pc + 1
        BY <1>1, <1>2, <4>2
      <4> QED BY <4>1, <4>2, <4>3
    <3> QED BY <3>1, <3>2
  <2> QED BY <1>1, <1>3, <2>1 DEF Hoisting
<1>10. InForce'
  <2>1. ASSUME NEW k \in DOMAIN prog, IsDef(prog[k]), k < pc + 1
        PROVE  functions'[NameOf[prog[k].def]] = prog[k].def
    <3>1. CASE k = pc
      BY <1>2, <1>3, <1>4, <3>1 DEF L!Table
    <3>2. CASE k # pc
      <4>1. k < pc
        BY <1>1, <1>2, <2>1, <3>2
      <4>2. functions[NameOf[prog[k].def]] = prog[k].def
        BY <2>1, <4>1 DEF IInv, InForce
      <4> QED BY <1>2, <1>3, <1>4, <1>5, <2>1, <3>2, <4>2 DEF L!Table
    <3> QED BY <3>1, <3>2
  <2> QED BY <1>1, <1>3, <2>1 DEF InForce
<1>11. DefinitionsBehind' /\ CallsPlaced'
  BY <1>1, <1>3 DEF IInv, DefinitionsBehind, CallsPlaced, AllPlaced
<1>12. CompiledAtTop'
  BY <1>1, <1>2, <1>3, <1>4 DEF L!Table, IInv, CompiledAtTop, Defines
<1>13. IInv'
  BY <1>7, <1>8, <1>9, <1>10, <1>11, <1>12 DEF IInv
<1>14. InOrder' = [n \in Name |-> NoDef]
  <2>1. ASSUME NEW n \in Name
        PROVE  Ahead(functions[n])' \/ functions'[n] = NoDef
    BY <1>1, <1>3, <1>9, <2>1 DEF Hoisting, Ahead
  <2> QED BY <2>1 DEF InOrder
<1>15. UNCHANGED L!vars
  BY <1>1, <1>3, <1>14, NothingInOrder DEF L!vars
<1> QED BY <1>13, <1>15

LEMMA PassOverStep ==
  ASSUME IInv, passOver
  PROVE  IInv' /\ UNCHANGED L!vars
<1>1. /\ pass = 1 /\ active = << >> /\ outcome = "running"
      /\ pc \in DOMAIN prog /\ ~IsDef(prog[pc]) /\ pc \in Nat /\ Len(prog) \in Nat
      /\ DOMAIN prog = 1 .. Len(prog)
  BY ProgramType DEF IInv, TypeOK, passOver, Running, IsDef, Hoisting
<1>2. pc' = pc + 1 /\ UNCHANGED << prog, pass, tables, active, outcome >>
  BY DEF passOver
<1>3. TypeOK' /\ TablesAgree' /\ CompiledAtTop'
  BY <1>1, <1>2 DEF IInv, TypeOK, TablesAgree, CompiledAtTop, tables
<1>4. Hoisting'
  <2>1. ASSUME NEW n \in Name, functions[n] # NoDef
        PROVE  \E k \in DOMAIN prog : k < pc + 1 /\ prog[k] = Defining(functions[n])
    <3>1. PICK k \in DOMAIN prog : k < pc /\ prog[k] = Defining(functions[n])
      BY <1>1, <2>1 DEF IInv, Hoisting
    <3>2. k < pc + 1
      BY <1>1, <3>1
    <3> QED BY <3>1, <3>2
  <2> QED BY <1>1, <1>2, <2>1 DEF Hoisting, tables
<1>5. InForce'
  <2>1. ASSUME NEW k \in DOMAIN prog, IsDef(prog[k]), k < pc + 1
        PROVE  k < pc
    <3>1. k # pc
      BY <1>1, <2>1
    <3> QED BY <1>1, <2>1, <3>1
  <2> QED BY <1>1, <1>2, <2>1 DEF IInv, InForce, tables
<1>6. DefinitionsBehind' /\ CallsPlaced'
  BY <1>1, <1>2 DEF IInv, DefinitionsBehind, CallsPlaced, AllPlaced
<1>7. IInv'
  BY <1>3, <1>4, <1>5, <1>6 DEF IInv
<1>8. InOrder' = [n \in Name |-> NoDef]
  <2>1. ASSUME NEW n \in Name
        PROVE  Ahead(functions[n])' \/ functions'[n] = NoDef
    BY <1>1, <1>2, <1>4, <2>1 DEF Hoisting, Ahead, tables
  <2> QED BY <2>1 DEF InOrder
<1>9. UNCHANGED L!vars
  BY <1>1, <1>2, <1>8, NothingInOrder DEF L!vars
<1> QED BY <1>7, <1>9

LEMMA SecondPassStep ==
  ASSUME IInv, secondPass
  PROVE  IInv' /\ UNCHANGED L!vars
<1>1. /\ pass = 1 /\ active = << >> /\ pc > Len(prog) /\ pc \in Nat
      /\ Len(prog) \in Nat /\ DOMAIN prog = 1 .. Len(prog)
  BY ProgramType DEF IInv, TypeOK, secondPass, Hoisting
<1>2. pass' = 2 /\ pc' = 1 /\ UNCHANGED << prog, tables, active, outcome >>
  BY DEF secondPass
<1>3. TypeOK' /\ TablesAgree' /\ CompiledAtTop' /\ Hoisting'
  BY <1>1, <1>2 DEF IInv, TypeOK, TablesAgree, CompiledAtTop, Hoisting, tables
<1>4. InForce'
  <2>1. \A k \in DOMAIN prog : k < pc
    BY <1>1
  <2> QED BY <1>1, <1>2, <2>1 DEF IInv, InForce, tables
<1>5. DefinitionsBehind' /\ CallsPlaced'
  BY <1>1, <1>2 DEF IInv, DefinitionsBehind, CallsPlaced, AllPlaced
<1>6. IInv'
  BY <1>3, <1>4, <1>5 DEF IInv
<1>7. InOrder' = [n \in Name |-> NoDef]
  <2>1. ASSUME NEW n \in Name, functions[n] # NoDef
        PROVE  Ahead(functions[n])'
    <3>1. PICK k \in DOMAIN prog : prog[k] = Defining(functions[n])
      BY <1>1, <2>1 DEF IInv, Hoisting
    <3>2. k >= 1
      BY <1>1
    <3> QED BY <1>2, <3>1, <3>2 DEF Ahead, tables
  <2> QED BY <1>2, <2>1 DEF InOrder, tables
<1>8. UNCHANGED L!vars
  BY <1>1, <1>2, <1>7, NothingInOrder DEF L!vars
<1> QED BY <1>6, <1>8

-------------------------------------------------------------------------------
(* The second pass *)

\* When every definition lies behind, Lookup's table is the interpreter's.
LEMMA AllInOrder ==
  ASSUME TypeOK, pass = 2, \A k \in DOMAIN prog : IsDef(prog[k]) => k < pc
  PROVE  InOrder = functions
<1>1. \A k \in DOMAIN prog : k \in Nat /\ (IsDef(prog[k]) => ~(k >= pc))
  BY ProgramType DEF TypeOK
<1>2. ASSUME NEW n \in Name
      PROVE  ~Ahead(functions[n])
  BY <1>1 DEF Ahead, IsDef, Defining
<1> QED BY <1>2 DEF InOrder, TypeOK, L!Table

\* A statement other than a definition stands behind all of them.
LEMMA BehindStatement ==
  ASSUME Plain, TypeOK, NEW i \in DOMAIN prog, ~IsDef(prog[i]),
         NEW k \in DOMAIN prog, IsDef(prog[k])
  PROVE  k < i
<1>1. i \in Nat /\ k \in Nat /\ prog \in Programs
  BY ProgramType DEF TypeOK
<1>2. ~(i < k) /\ i # k
  BY <1>1 DEF Plain, DefinedOnce
<1> QED BY <1>1, <1>2
LEMMA SkipStep ==
  ASSUME Plain, IInv, skipDefinition
  PROVE  IInv' /\ \E d \in Def : L!Define(d)
<1>1. PICK d \in Def : Comes(Defining(d))
  BY DEF skipDefinition
<1>2. /\ pass = 2 /\ active = << >> /\ outcome = "running" /\ pc <= Len(prog)
      /\ prog[pc] = Defining(d) /\ pc' = pc + 1
      /\ UNCHANGED << prog, pass, tables, active, outcome >>
  BY <1>1 DEF skipDefinition, Comes, Running
<1>3. /\ pc \in DOMAIN prog /\ pc \in Nat /\ Len(prog) \in Nat /\ DOMAIN prog = 1 .. Len(prog)
      /\ prog \in Programs /\ NameOf[d] \in Name
  BY <1>2, ProgramType, DefAssumption DEF IInv, TypeOK
<1>4. IsDef(prog[pc]) /\ prog[pc].def = d
  BY <1>2 DEF Defining, IsDef
<1>5. functions[NameOf[d]] = d /\ functions \in L!Table
  BY <1>2, <1>3, <1>4 DEF IInv, InForce, TypeOK
<1>6. IInv'
  <2>1. TypeOK' /\ TablesAgree' /\ CompiledAtTop' /\ Hoisting' /\ InForce'
    BY <1>2, <1>3 DEF IInv, TypeOK, TablesAgree, CompiledAtTop, Hoisting, InForce, tables
  <2>2. DefinitionsBehind' /\ CallsPlaced'
    BY <1>2 DEF IInv, DefinitionsBehind, CallsPlaced, AllPlaced
  <2> QED BY <2>1, <2>2 DEF IInv
<1>7. InOrder' = [InOrder EXCEPT ![NameOf[d]] = d]
  <2>1. ASSUME NEW n \in Name, n # NameOf[d]
        PROVE  Ahead(functions[n])' <=> Ahead(functions[n])
    <3>1. functions[n] # d
      BY <1>3, <2>1, DefAssumption DEF IInv, TypeOK
    <3>2. prog[pc] # Defining(functions[n])
      BY <1>4, <3>1 DEF Defining
    <3>3. \A k \in DOMAIN prog : k # pc => (k >= pc + 1 <=> k >= pc)
      BY <1>3
    <3> QED BY <1>2, <1>3, <3>2, <3>3 DEF Ahead, tables
  <2>2. ASSUME NEW n \in Name, n = NameOf[d]
        PROVE  ~Ahead(functions[n])'
    <3>1. SUFFICES ASSUME NEW k \in DOMAIN prog, prog[k] = Defining(d),
                          k >= pc + 1
                   PROVE  FALSE
      BY <1>2, <1>5, <2>2 DEF Ahead, tables
    <3>2. IsDef(prog[k]) /\ NameOf[prog[k].def] = NameOf[prog[pc].def]
      BY <1>4, <3>1 DEF IsDef, Defining
    <3>3. k = pc
      BY <1>3, <1>4, <3>1, <3>2 DEF Plain, DefinedOnce
    <3> QED BY <1>3, <3>1, <3>3
  <2>3. UNCHANGED functions
    BY <1>2 DEF tables
  <2>4. InOrder' = [n \in Name |-> IF n = NameOf[d] THEN d ELSE InOrder[n]]
    <3>1. ASSUME NEW n \in Name
          PROVE  (IF Ahead(functions[n]) THEN NoDef ELSE functions[n])'
                   = IF n = NameOf[d] THEN d ELSE InOrder[n]
      BY <1>5, <2>1, <2>2, <2>3 DEF InOrder
    <3> QED BY <3>1 DEF InOrder
  <2> QED BY <1>3, <2>4 DEF InOrder
<1>8. L!Define(d)
  <2>1. << >> = View(<< >>, functions)
    BY DEF View
  <2>2. UNCHANGED View(active, functions) /\ View(active, functions) = << >>
    BY <1>2, <2>1 DEF tables
  <2>3. L!Comes(L!Defining(d))
    BY <1>2, <1>3, <2>2 DEF L!Comes, L!Running, View, Defining, L!Defining
  <2>4. L!Following = pc + 1 /\ L!Behind = << >>
    BY <1>2, <2>2 DEF L!Following, L!Behind, View
  <2> QED BY <1>2, <1>7, <2>2, <2>3, <2>4 DEF L!Define, View
<1> QED BY <1>6, <1>8
\* A step of the second pass that leaves the tables alone keeps the invariant.
LEMMA RunningInv ==
  ASSUME IInv, pass = 2, UNCHANGED << prog, pass, tables >>, pc' \in 1 .. Len(prog) + 1,
         active' # << >> => \A k \in DOMAIN prog : IsDef(prog[k]) => k < pc',
         active' \in Seq(Activation), AllPlaced(active', prog, compiledFunctions),
         outcome' \in {"running", "finished", "undefined", "failed"}
  PROVE  IInv'
<1>1. TypeOK'
  BY DEF IInv, TypeOK, tables
<1>2. TablesAgree' /\ CompiledAtTop' /\ Hoisting' /\ InForce'
  BY DEF IInv, TablesAgree, CompiledAtTop, Hoisting, InForce, tables
<1>3. DefinitionsBehind' /\ CallsPlaced'
  BY DEF DefinitionsBehind, CallsPlaced, tables
<1> QED BY <1>1, <1>2, <1>3 DEF IInv

-------------------------------------------------------------------------------
(* What comes next *)

\* What holds whenever a call is under way.
LEMMA UnderWay ==
  ASSUME IInv, active # << >>
  PROVE  /\ pass = 2 /\ InOrder = functions
         /\ \A k \in DOMAIN prog : IsDef(prog[k]) => k < pc
         /\ Innermost \in Activation /\ Placed(Innermost, prog, compiledFunctions)
         /\ Callers \in Seq(Activation) /\ AllPlaced(Callers, prog, compiledFunctions)
         /\ View(active, functions) # << >> /\ Len(View(active, functions)) = Len(active)
         /\ L!Innermost = Seen(Innermost, functions)
         /\ L!Callers = View(Callers, functions)
<1>1. pass = 2 /\ \A k \in DOMAIN prog : IsDef(prog[k]) => k < pc
  BY DEF IInv, DefinitionsBehind
<1>2. InOrder = functions
  BY <1>1, AllInOrder DEF IInv
<1>3. /\ active \in Seq(Activation) /\ AllPlaced(active, prog, compiledFunctions)
      /\ functions \in L!Table
  BY DEF IInv, TypeOK, CallsPlaced
<1>4. Len(active) \in DOMAIN active /\ Len(active) \in 1 .. Len(active)
  BY <1>3
<1>5. Innermost \in Activation /\ Placed(Innermost, prog, compiledFunctions)
  BY <1>3, <1>4 DEF Innermost, AllPlaced
<1>6. Callers \in Seq(Activation) /\ AllPlaced(Callers, prog, compiledFunctions)
  BY <1>3, PlacedDropLast DEF Callers
<1>7. /\ View(active, functions) # << >> /\ Len(View(active, functions)) = Len(active)
      /\ View(active, functions)[Len(active)] = Seen(Innermost, functions)
  BY <1>3, <1>4, ViewType DEF Innermost
<1>8. L!Innermost = Seen(Innermost, functions)
  BY <1>7 DEF L!Innermost, View
<1>9. L!Callers = View(Callers, functions)
  BY <1>3, ViewDropLast DEF L!Callers, Callers, View
<1> QED BY <1>1, <1>2, <1>5, <1>6, <1>7, <1>8, <1>9

\* A call whose name is not looked up yet finds a top-level definition, the one that was
\* in force before its arguments ran, with a parameter for each argument that calls.
LEMMA WaitingFound ==
  ASSUME Plain, IInv, pass = 2, NEW a \in Activation, Placed(a, prog, compiledFunctions),
         a.def = NoDef
  PROVE  /\ functions[Callee[a.site]] \in Def
         /\ Defines(prog, functions[Callee[a.site]])
         /\ NameOf[functions[Callee[a.site]]] = Callee[a.site]
         /\ \A i \in DOMAIN Args[a.site] :
              Position[Args[a.site][i]] <= Arity[functions[Callee[a.site]]]
         /\ a.engine = "driver" =>
              /\ compiledFunctions[Callee[a.site]] = functions[Callee[a.site]]
              /\ functions[Callee[a.site]] \in Compiles
<1> DEFINE n == Callee[a.site]
<1>1. /\ a.site \in Site /\ n \in Name /\ prog \in Programs /\ Args[a.site] # << >>
      /\ OrderUnseen(prog)
  BY SiteAssumption DEF Activation, Calls, Placed, IInv, TypeOK, Plain
<1>2. CASE a.engine = "native" /\ InNative(prog, a.site)
  <2>1. PICK d \in Def : Defines(prog, d) /\ NameOf[d] = n
    BY <1>1, <1>2 DEF OrderUnseen
  <2>2. functions[n] = d
    BY <2>1 DEF IInv, InForce, Defines, Defining, IsDef
  <2>3. \A i \in DOMAIN Args[a.site] : Position[Args[a.site][i]] <= Arity[d]
    BY <1>1, <1>2, <2>1 DEF OrderUnseen
  <2> QED BY <1>2, <2>1, <2>2, <2>3
<1>3. CASE a.engine = "driver" /\ Owner[a.site] = NoDef /\ compiledFunctions[n] # NoDef
  <2> DEFINE d == functions[n]
  <2>1. compiledFunctions[n] = d /\ d \in Compiles /\ NameOf[d] = n
    BY <1>1, <1>3 DEF IInv, TablesAgree, TypeOK
  <2>2. d \in Def /\ Defines(prog, d)
    BY <1>1, <1>3, <2>1, DefAssumption DEF IInv, CompiledAtTop
  <2>3. \A i \in DOMAIN Args[a.site] : Position[Args[a.site][i]] <= Arity[d]
    BY <1>1, <1>3, <2>1, <2>2 DEF OrderUnseen
  <2> QED BY <2>1, <2>2, <2>3
<1> QED BY <1>2, <1>3 DEF Placed

\* The arguments are evaluated when Lookup takes them to be.
LEMMA ReadySeen ==
  ASSUME Plain, IInv, pass = 2, NEW a \in Activation, Placed(a, prog, compiledFunctions)
  PROVE  Ready(a) <=> L!Ready(Seen(a, functions))
<1> DEFINE b == Seen(a, functions)
<1>1. b.phase = a.phase /\ b.rest = a.rest
  BY DEF Seen
<1>2. /\ a.phase \in {"arguments", "body"} /\ a.rest \in Seq(L!Statement) /\ a.site \in Site
      /\ a.def = NoDef <=> a.phase = "arguments" /\ a.engine # "interpreter"
  BY DEF Activation, Calls
<1>3. CASE a.phase = "body"
  BY <1>1, <1>3 DEF Ready, L!Ready
<1>4. CASE a.phase = "arguments" /\ a.engine = "interpreter"
  <2>1. b.def = a.def
    BY <1>2, <1>4 DEF Seen
  <2> QED BY <1>1, <1>4, <2>1 DEF Ready, L!Ready
<1>5. CASE a.phase = "arguments" /\ a.engine # "interpreter"
  <2> DEFINE d == functions[Callee[a.site]]
  <2>1. a.def = NoDef /\ b.def = d
    BY <1>2, <1>5 DEF Seen
  <2>2. d \in Def /\ \A i \in DOMAIN Args[a.site] : Position[Args[a.site][i]] <= Arity[d]
    BY <2>1, WaitingFound
  <2>3. ASSUME a.rest # << >>
        PROVE  ~(Position[Head(a.rest).site] > Arity[d])
    <3>1. 1 \in DOMAIN a.rest /\ Head(a.rest) = a.rest[1]
      BY <1>2, <2>3
    <3>2. PICK i \in DOMAIN Args[a.site] : Head(a.rest) = Calling(Args[a.site][i])
      BY <1>5, <3>1 DEF Placed
    <3>3. Head(a.rest).site = Args[a.site][i] /\ Args[a.site][i] \in Site
      BY <1>2, <3>2, SiteAssumption DEF Calling
    <3>4. Position[Args[a.site][i]] \in Nat /\ Arity[d] \in Nat
      BY <2>2, <3>3, SiteAssumption, DefAssumption
    <3>5. Position[Args[a.site][i]] <= Arity[d]
      BY <2>2
    <3> HIDE DEF d
    <3> QED BY <3>3, <3>4, <3>5
  <2>4. L!Ready(b) <=> /\ b.phase = "arguments"
                       /\ b.rest # << >> => Position[Head(b.rest).site] > Arity[b.def]
    BY DEF L!Ready
  <2> HIDE DEF b, d
  <2>5. Ready(a) <=> L!Ready(b)
    BY <1>1, <1>5, <2>1, <2>3, <2>4 DEF Ready
  <2> QED BY <2>5 DEF b
<1> QED BY <1>2, <1>3, <1>4, <1>5
\* A call with one statement more behind it.
Advanced(a) == [a EXCEPT !.rest = Tail(@)]

LEMMA AdvancedCall ==
  ASSUME NEW p, NEW compiled, NEW table, NEW a \in Activation, Placed(a, p, compiled),
         a.rest # << >>
  PROVE  /\ Advanced(a) \in Activation /\ Placed(Advanced(a), p, compiled)
         /\ Seen(Advanced(a), table) = Advanced(Seen(a, table))
<1> DEFINE b == Advanced(a)
<1>1. a \in Calls /\ a.rest \in Seq(L!Statement)
  BY DEF Activation, Calls
<1>2. Tail(a.rest) \in Seq(L!Statement) /\ \A j \in DOMAIN Tail(a.rest) :
        j + 1 \in DOMAIN a.rest /\ Tail(a.rest)[j] = a.rest[j + 1]
  BY <1>1
<1>3. /\ b \in Calls /\ b.site = a.site /\ b.def = a.def /\ b.phase = a.phase
      /\ b.engine = a.engine /\ b.rest = Tail(a.rest)
  BY <1>1, <1>2 DEF Calls, Advanced
<1> HIDE DEF b
<1>4. b \in Activation
  BY <1>3 DEF Activation
<1>5. Placed(b, p, compiled)
  BY <1>2, <1>3 DEF Placed
<1>6. Seen(b, table) = Advanced(Seen(a, table))
  <2> DEFINE d == IF a.def = NoDef THEN table[Callee[a.site]] ELSE a.def
  <2>1. /\ Seen(a, table) = [def |-> d, phase |-> a.phase, rest |-> a.rest]
        /\ Seen(b, table) = [def |-> d, phase |-> a.phase, rest |-> Tail(a.rest)]
    BY <1>3 DEF Seen
  <2> HIDE DEF d
  <2>2. Advanced([def |-> d, phase |-> a.phase, rest |-> a.rest])
          = [def |-> d, phase |-> a.phase, rest |-> Tail(a.rest)]
    BY DEF Advanced
  <2> QED BY ONLY <2>1, <2>2
<1> QED BY <1>4, <1>5, <1>6 DEF b

\* Where Dispatch has come to a statement, Lookup has.
LEMMA NextComes ==
  ASSUME Plain, IInv, NEW s, Comes(s)
  PROVE  /\ pass = 2 /\ Running /\ L!Comes(s) /\ L!Following = Following
         /\ L!Behind = View(Behind, functions)
         /\ Behind \in Seq(Activation) /\ AllPlaced(Behind, prog, compiledFunctions)
         /\ Following \in 1 .. Len(prog) + 1 /\ pc <= Following
<1>1. pass = 2 /\ Running /\ prog \in Programs /\ pc \in 1 .. Len(prog) + 1
      /\ Len(prog) \in Nat
  BY ProgramType DEF Comes, IInv, TypeOK
<1>2. Following \in 1 .. Len(prog) + 1 /\ pc <= Following
  BY <1>1 DEF Comes, Following
<1>3. CASE active = << >>
  <2>1. View(active, functions) = << >> /\ View(<< >>, functions) = << >>
    BY <1>3 DEF View
  <2>2. pc <= Len(prog) /\ prog[pc] = s
    BY <1>3 DEF Comes
  <2>3. L!Comes(s) /\ L!Following = Following
    BY <1>1, <1>3, <2>1, <2>2 DEF L!Comes, L!Running, Running, L!Following, Following, View
  <2>4. Behind = << >> /\ L!Behind = << >>
    BY <1>3, <2>1 DEF Behind, L!Behind, View
  <2>5. << >> \in Seq(Activation) /\ AllPlaced(<< >>, prog, compiledFunctions)
    BY DEF AllPlaced
  <2> QED BY <1>1, <1>2, <2>1, <2>3, <2>4, <2>5
<1>4. CASE active # << >>
  <2>1. /\ Innermost.rest # << >> /\ Head(Innermost.rest) = s /\ ~Ready(Innermost)
    BY <1>4 DEF Comes
  <2>2. /\ Innermost \in Activation /\ Placed(Innermost, prog, compiledFunctions)
        /\ Callers \in Seq(Activation) /\ AllPlaced(Callers, prog, compiledFunctions)
        /\ View(active, functions) # << >>
        /\ L!Innermost = Seen(Innermost, functions) /\ L!Callers = View(Callers, functions)
    BY <1>4, UnderWay
  <2>3. ~L!Ready(L!Innermost)
    BY <1>1, <2>1, <2>2, ReadySeen
  <2>4. L!Innermost.rest = Innermost.rest
    BY <2>2 DEF Seen
  <2>5. L!Comes(s) /\ L!Following = Following
    BY <1>1, <1>4, <2>1, <2>2, <2>3, <2>4
       DEF L!Comes, L!Running, Running, L!Following, Following, View
  <2>6. /\ Advanced(Innermost) \in Activation
        /\ Placed(Advanced(Innermost), prog, compiledFunctions)
        /\ Seen(Advanced(Innermost), functions) = Advanced(Seen(Innermost, functions))
    <3>1. Innermost \in Activation /\ Placed(Innermost, prog, compiledFunctions)
          /\ Innermost.rest # << >>
      BY <2>1, <2>2
    <3>2. Advanced(Innermost) \in Activation
      BY ONLY <3>1, AdvancedCall
    <3>3. Placed(Advanced(Innermost), prog, compiledFunctions)
      BY ONLY <3>1, AdvancedCall
    <3>4. Seen(Advanced(Innermost), functions) = Advanced(Seen(Innermost, functions))
      BY ONLY <3>1, AdvancedCall
    <3> QED BY <3>2, <3>3, <3>4
  <2>7. Behind = Append(Callers, Advanced(Innermost))
    BY <1>4 DEF Behind, Advanced
  <2>8. L!Behind = Append(L!Callers, Advanced(L!Innermost))
    BY <2>2 DEF L!Behind, View, Advanced
  <2>9. L!Behind = View(Behind, functions)
    <3>1. functions \in L!Table
      BY DEF IInv, TypeOK
    <3>2. View(Append(Callers, Advanced(Innermost)), functions)
            = Append(View(Callers, functions), Seen(Advanced(Innermost), functions))
      BY <2>2, <2>6, <3>1, ViewAppend
    <3> QED BY <2>2, <2>6, <2>7, <2>8, <3>2
  <2>10. Behind \in Seq(Activation) /\ AllPlaced(Behind, prog, compiledFunctions)
    BY <2>2, <2>6, <2>7, PlacedAppend
  <2> QED BY <1>1, <1>2, <2>5, <2>9, <2>10
<1> QED BY <1>3, <1>4

\* A call that comes next stands where the engine that executes it belongs, and every
\* definition lies behind it.
LEMMA NextCall ==
  ASSUME Plain, IInv, NEW s \in Site, Comes(Calling(s))
  PROVE  /\ InOrder = functions
         /\ \A k \in DOMAIN prog : IsDef(prog[k]) => k < Following
         /\ \A k \in DOMAIN prog : IsDef(prog[k]) => k < pc
         /\ Engine = "native" => InNative(prog, s)
         /\ Engine = "driver" => Owner[s] = NoDef
<1>1. /\ pass = 2 /\ TypeOK /\ prog \in Programs /\ Len(prog) \in Nat
      /\ DOMAIN prog = 1 .. Len(prog) /\ pc \in 1 .. Len(prog) + 1
  BY ProgramType DEF Comes, IInv, TypeOK
<1>2. Calling(s).kind = "call" /\ Calling(s).site = s
  BY DEF Calling
<1>3. CASE active = << >>
  <2>1. pc \in DOMAIN prog /\ prog[pc] = Calling(s)
    BY <1>1, <1>3 DEF Comes
  <2>2. \A k \in DOMAIN prog : IsDef(prog[k]) => k < pc
    BY <1>1, <1>2, <2>1, BehindStatement DEF IsDef
  <2>3. InOrder = functions
    BY <1>1, <2>2, AllInOrder
  <2>4. Owner[s] = NoDef
    BY <1>1, <1>2, <2>1, ProgramAssumption
  <2> QED BY <1>1, <1>3, <2>2, <2>3, <2>4 DEF Engine, Following
<1>4. CASE active # << >>
  <2> DEFINE a == Innermost
  <2>1. /\ InOrder = functions /\ \A k \in DOMAIN prog : IsDef(prog[k]) => k < pc
        /\ a \in Activation /\ Placed(a, prog, compiledFunctions)
    BY <1>4, UnderWay
  <2>2. 1 \in DOMAIN a.rest /\ a.rest[1] = Calling(s) /\ a.phase \in {"arguments", "body"}
        /\ a.site \in Site /\ a.def \in Def \cup {NoDef}
    BY <1>4, <2>1 DEF Comes, Activation, Calls
  <2>3. ASSUME a.phase = "body"
        PROVE  Owner[s] = a.def /\ a.def \in Def
    <3>1. a.def \in Def
      BY <2>1, <2>2, <2>3 DEF Activation
    <3>2. PICK path \in Paths[a.def] : \E j \in DOMAIN path : path[j] = Calling(s)
      BY <2>1, <2>2, <2>3 DEF Placed, InBody
    <3> QED BY <1>2, <3>1, <3>2, SiteAssumption
  <2>4. ASSUME a.phase = "arguments"
        PROVE  Owner[s] = Owner[a.site]
    <3>1. PICK i \in DOMAIN Args[a.site] : Calling(s) = Calling(Args[a.site][i])
      BY <2>1, <2>2, <2>4 DEF Placed
    <3>2. s = Args[a.site][i]
      BY <3>1 DEF Calling
    <3> QED BY <2>2, <3>2, SiteAssumption
  <2>5. a.engine = "native" => InNative(prog, s)
    BY <2>1, <2>2, <2>3, <2>4 DEF Activation, Placed, InNative
  <2>6. a.engine = "driver" => Owner[s] = NoDef
    BY <2>1, <2>2, <2>4 DEF Activation, Placed
  <2>7. Engine = a.engine /\ Following = pc
    BY <1>4 DEF Engine, Following
  <2> QED BY <2>1, <2>5, <2>6, <2>7
<1> QED BY <1>3, <1>4

LEMMA AllInOrderNext ==
  ASSUME IInv, pass = 2, \A k \in DOMAIN prog : IsDef(prog[k]) => k < pc',
         pc' \in 1 .. Len(prog) + 1, UNCHANGED << prog, pass, tables >>
  PROVE  InOrder' = functions
<1>1. \A k \in DOMAIN prog : k \in Nat /\ pc' \in Nat /\ (IsDef(prog[k]) => ~(k >= pc'))
  BY ProgramType DEF IInv, TypeOK
<1>2. ASSUME NEW n \in Name
      PROVE  ~Ahead(functions[n])'
  BY <1>1 DEF Ahead, IsDef, Defining, tables
<1> QED BY <1>2 DEF InOrder, IInv, TypeOK, L!Table, tables

-------------------------------------------------------------------------------
(* Calls *)

LEMMA BodiesSeen ==
  ASSUME NEW p, NEW compiled, NEW table, NEW s \in Site, NEW d \in Def,
         NEW engine \in {"native", "interpreter"},
         engine = "native" => d \in Compiles /\ Defines(p, d),
         NEW b \in Bodies(s, d, engine)
  PROVE  /\ b \in Activation /\ Placed(b, p, compiled)
         /\ Seen(b, table) \in L!Bodies(d)
<1>1. PICK path \in Paths[d] :
        b = [site |-> s, def |-> d, phase |-> "body", rest |-> path, engine |-> engine]
  BY DEF Bodies
<1>2. path \in Seq(L!Statement) /\ d # NoDef
  BY DefAssumption
<1>3. b \in Activation
  BY <1>1, <1>2 DEF Activation, Calls
<1>4. Placed(b, p, compiled)
  BY <1>1, <1>2 DEF Placed, InBody
<1>5. Seen(b, table) = [def |-> d, phase |-> "body", rest |-> path]
  BY <1>1, <1>2 DEF Seen
<1>6. Seen(b, table) \in L!Bodies(d)
  BY <1>5 DEF L!Bodies
<1> QED BY <1>3, <1>4, <1>6

LEMMA WaitingCall ==
  ASSUME NEW s \in Site, NEW d \in Def \cup {NoDef},
         NEW engine \in {"native", "interpreter", "driver"}
  PROVE  /\ Waiting(s, d, engine) \in Calls
         /\ ArgCalls(s) = L!ArgCalls(s) /\ (Args[s] # << >> => ArgCalls(s) # << >>)
         /\ \A j \in DOMAIN ArgCalls(s) :
              \E i \in DOMAIN Args[s] : ArgCalls(s)[j] = Calling(Args[s][i])
<1>1. Args[s] \in Seq(Site) /\ DOMAIN Args[s] = 1 .. Len(Args[s]) /\ Len(Args[s]) \in Nat
      /\ \A i \in DOMAIN Args[s] : Args[s][i] \in Site
  BY SiteAssumption
<1>2. /\ DOMAIN ArgCalls(s) = DOMAIN Args[s]
      /\ \A i \in DOMAIN Args[s] : /\ ArgCalls(s)[i] = Calling(Args[s][i])
                                   /\ Calling(Args[s][i]) \in L!Statement
  BY <1>1 DEF ArgCalls, Calling, L!Statement
<1>3. ArgCalls(s) \in Seq(L!Statement)
  <2>1. ArgCalls(s) \in [1 .. Len(Args[s]) -> L!Statement]
    BY <1>1, <1>2 DEF ArgCalls
  <2> QED BY <1>1, <2>1
<1>4. Waiting(s, d, engine) \in Calls
  BY <1>3 DEF Waiting, Calls
<1>5. ArgCalls(s) = L!ArgCalls(s)
  BY DEF ArgCalls, L!ArgCalls, Calling, L!Calling
<1>6. ASSUME Args[s] # << >>
      PROVE  ArgCalls(s) # << >>
  <2>1. 1 \in DOMAIN Args[s]
    BY <1>1, <1>6
  <2>2. 1 \in DOMAIN ArgCalls(s)
    BY <1>2, <2>1
  <2> QED BY <2>2
<1> QED BY <1>2, <1>4, <1>5, <1>6

\* A call whose name the interpreter has looked up.
LEMMA FoundSeen ==
  ASSUME NEW p, NEW compiled, NEW table, NEW s \in Site, NEW d \in Def
  PROVE  /\ Waiting(s, d, "interpreter") \in Activation
         /\ Placed(Waiting(s, d, "interpreter"), p, compiled)
         /\ Seen(Waiting(s, d, "interpreter"), table) = L!Waiting(d, s)
<1>1. Waiting(s, d, "interpreter") \in Calls /\ d # NoDef
  BY WaitingCall, DefAssumption
<1>2. ArgCalls(s) = L!ArgCalls(s)
      /\ \A j \in DOMAIN ArgCalls(s) :
           \E i \in DOMAIN Args[s] : ArgCalls(s)[j] = Calling(Args[s][i])
  BY WaitingCall
<1>3. Waiting(s, d, "interpreter") \in Activation
  BY <1>1 DEF Waiting, Activation
<1>4. Placed(Waiting(s, d, "interpreter"), p, compiled)
  BY <1>1, <1>2 DEF Waiting, Placed
<1>5. Seen(Waiting(s, d, "interpreter"), table) = L!Waiting(d, s)
  BY <1>1, <1>2 DEF Waiting, L!Waiting, Seen
<1> QED BY <1>3, <1>4, <1>5

\* A call whose name native code or the driver has not looked up yet.
LEMMA UnknownSeen ==
  ASSUME NEW p, NEW compiled, NEW table, NEW s \in Site, Args[s] # << >>,
         NEW engine \in {"native", "driver"},
         \/ engine = "native" /\ InNative(p, s)
         \/ engine = "driver" /\ Owner[s] = NoDef /\ compiled[Callee[s]] # NoDef
  PROVE  /\ Waiting(s, NoDef, engine) \in Activation
         /\ Placed(Waiting(s, NoDef, engine), p, compiled)
         /\ Seen(Waiting(s, NoDef, engine), table) = L!Waiting(table[Callee[s]], s)
         /\ ~Ready(Waiting(s, NoDef, engine))
<1>1. Waiting(s, NoDef, engine) \in Calls
  BY WaitingCall
<1>2. ArgCalls(s) = L!ArgCalls(s) /\ ArgCalls(s) # << >>
      /\ \A j \in DOMAIN ArgCalls(s) :
           \E i \in DOMAIN Args[s] : ArgCalls(s)[j] = Calling(Args[s][i])
  BY WaitingCall
<1>3. Waiting(s, NoDef, engine) \in Activation
  BY <1>1 DEF Waiting, Activation
<1>4. Placed(Waiting(s, NoDef, engine), p, compiled)
  BY <1>1, <1>2 DEF Waiting, Placed
<1>5. Seen(Waiting(s, NoDef, engine), table) = L!Waiting(table[Callee[s]], s)
  BY <1>1, <1>2 DEF Waiting, L!Waiting, Seen
<1>6. ~Ready(Waiting(s, NoDef, engine))
  BY <1>2 DEF Ready, Waiting
<1> QED BY <1>3, <1>4, <1>5, <1>6

\* A call added behind the statement that made it is what Lookup's call is.
LEMMA PushStep ==
  ASSUME Plain, IInv, NEW s \in Site, Comes(Calling(s)), Len(active) < MaxDepth,
         functions[Callee[s]] \in Def,
         NEW b \in Activation, Placed(b, prog, compiledFunctions),
         LET a == L!Waiting(functions[Callee[s]], s)
         IN Seen(b, functions) \in IF L!Ready(a) THEN L!Bodies(functions[Callee[s]]) ELSE {a},
         active' = Append(Behind, b), pc' = Following, UNCHANGED << prog, pass, tables, outcome >>
  PROVE  IInv' /\ L!Call(s)
<1>1. /\ pass = 2 /\ Running /\ L!Comes(Calling(s)) /\ L!Following = Following
      /\ L!Behind = View(Behind, functions)
      /\ Behind \in Seq(Activation) /\ AllPlaced(Behind, prog, compiledFunctions)
      /\ Following \in 1 .. Len(prog) + 1
  BY NextComes
<1>2. InOrder = functions /\ \A k \in DOMAIN prog : IsDef(prog[k]) => k < Following
  BY NextCall
<1>3. active' \in Seq(Activation) /\ AllPlaced(active', prog, compiledFunctions)
  BY <1>1, PlacedAppend
<1>4. functions \in L!Table /\ active \in Seq(Activation)
      /\ outcome \in {"running", "finished", "undefined", "failed"}
  BY DEF IInv, TypeOK
<1>5. IInv'
  BY <1>1, <1>2, <1>3, <1>4, RunningInv
<1>6. InOrder' = functions
  BY <1>1, <1>2, AllInOrderNext
<1>7. View(active, functions)' = Append(L!Behind, Seen(b, functions))
  <2>1. View(active, functions)' = View(active', functions)
    BY DEF View, tables
  <2>2. View(active', functions) = Append(View(Behind, functions), Seen(b, functions))
    BY <1>1, <1>4, ViewAppend
  <2> QED BY <1>1, <2>1, <2>2
<1>8. Len(View(active, functions)) = Len(active)
  BY <1>4, ViewType
<1>9. L!Comes(L!Calling(s))
  BY <1>1 DEF Calling, L!Calling
<1>10. functions[Callee[s]] # NoDef /\ L!Waiting(functions[Callee[s]], s).def = functions[Callee[s]]
  BY DefAssumption DEF L!Waiting
<1>11. \E c \in IF L!Ready(L!Waiting(InOrder[Callee[s]], s))
                THEN L!Bodies(L!Waiting(InOrder[Callee[s]], s).def)
                ELSE {L!Waiting(InOrder[Callee[s]], s)} :
         View(active, functions)' = Append(L!Behind, c)
  BY <1>2, <1>7, <1>10
<1>12. L!Call(s)
  <2>1. UNCHANGED << prog, InOrder, outcome >> /\ InOrder[Callee[s]] # NoDef
    BY <1>2, <1>6, <1>10 DEF tables
  <2>2. (IF pass = 1 THEN 1 ELSE pc)' = L!Following
    BY <1>1
  <2> QED BY ONLY <1>8, <1>9, <1>11, <2>1, <2>2, Len(active) < MaxDepth DEF L!Call, View
<1> QED BY <1>5, <1>12

\* A body that takes the place of the innermost call is what Lookup enters.
LEMMA EnterStep ==
  ASSUME Plain, IInv, Running, active # << >>, Ready(Innermost),
         NEW b \in Activation, Placed(b, prog, compiledFunctions),
         Seen(b, functions) \in L!Bodies(Seen(Innermost, functions).def),
         active' = Append(Callers, b), UNCHANGED << prog, pass, pc, tables, outcome >>
  PROVE  IInv' /\ L!Enter
<1>1. /\ pass = 2 /\ \A k \in DOMAIN prog : IsDef(prog[k]) => k < pc
      /\ Innermost \in Activation /\ Placed(Innermost, prog, compiledFunctions)
      /\ Callers \in Seq(Activation) /\ AllPlaced(Callers, prog, compiledFunctions)
      /\ View(active, functions) # << >> /\ L!Innermost = Seen(Innermost, functions)
      /\ L!Callers = View(Callers, functions) /\ InOrder = functions
  BY UnderWay
<1>2. /\ functions \in L!Table /\ pc \in 1 .. Len(prog) + 1
      /\ outcome \in {"running", "finished", "undefined", "failed"}
  BY DEF IInv, TypeOK
<1>3. active' \in Seq(Activation) /\ AllPlaced(active', prog, compiledFunctions)
  BY <1>1, PlacedAppend
<1>4. IInv'
  BY <1>1, <1>2, <1>3, RunningInv
<1>5. InOrder' = InOrder
  BY <1>1, <1>2, AllInOrderNext
<1>6. L!Ready(L!Innermost)
  BY <1>1, ReadySeen
<1>7. View(active, functions)' = Append(L!Callers, Seen(b, functions))
  <2>1. View(active, functions)' = View(active', functions)
    BY DEF View, tables
  <2>2. View(active', functions) = Append(View(Callers, functions), Seen(b, functions))
    BY <1>1, <1>2, ViewAppend
  <2> QED BY <1>1, <2>1, <2>2
<1>8. L!Enter
  <2>1. L!Running /\ UNCHANGED << prog, InOrder, outcome >>
    BY <1>5 DEF L!Running, Running, tables
  <2>2. (IF pass = 1 THEN 1 ELSE pc)' = IF pass = 1 THEN 1 ELSE pc
    OBVIOUS
  <2>3. \E c \in L!Bodies(L!Innermost.def) : View(active, functions)' = Append(L!Callers, c)
    BY <1>1, <1>7
  <2> QED BY ONLY <1>1, <1>6, <2>1, <2>2, <2>3 DEF L!Enter, View
<1> QED BY <1>4, <1>8

\* A compiled function is the top-level definition that the interpreter has.
LEMMA CompiledFound ==
  ASSUME IInv, NEW n \in Name, compiledFunctions[n] # NoDef
  PROVE  /\ functions[n] = compiledFunctions[n] /\ functions[n] \in Def
         /\ functions[n] \in Compiles /\ Defines(prog, functions[n])
BY DefAssumption DEF IInv, TypeOK, TablesAgree, CompiledAtTop

LEMMA evaluateWithJITStep ==
  ASSUME Plain, IInv, NEW s \in Site, evaluateWithJIT(s)
  PROVE  IInv' /\ L!Call(s)
<1> DEFINE d == functions[Callee[s]]
           la == L!Waiting(d, s)
<1>1. /\ Comes(Calling(s)) /\ Engine = "driver" /\ Len(active) < MaxDepth
      /\ compiledFunctions[Callee[s]] # NoDef /\ Callee[s] \in Name
      /\ pc' = Following /\ UNCHANGED << prog, pass, tables, outcome >>
  BY SiteAssumption DEF evaluateWithJIT
<1>2. /\ d = compiledFunctions[Callee[s]] /\ d \in Def /\ d \in Compiles /\ Defines(prog, d)
  BY <1>1, CompiledFound
<1>3. pass = 2 /\ Owner[s] = NoDef
  BY <1>1, NextComes, NextCall
<1>4. la.phase = "arguments" /\ la.rest = L!ArgCalls(s)
  BY DEF L!Waiting
<1> HIDE DEF la
<1>5. CASE Args[s] = << >>
  <2>1. PICK b \in Bodies(s, d, "native") : active' = Append(Behind, b)
    BY <1>2, <1>5 DEF evaluateWithJIT
  <2>2. /\ b \in Activation /\ Placed(b, prog, compiledFunctions)
        /\ Seen(b, functions) \in L!Bodies(d)
    BY <1>2, BodiesSeen
  <2>3. L!Ready(la)
    BY <1>4, <1>5 DEF L!Ready, L!ArgCalls
  <2>4. Seen(b, functions) \in IF L!Ready(la) THEN L!Bodies(d) ELSE {la}
    BY <2>2, <2>3
  <2> QED BY <1>1, <1>2, <2>1, <2>2, <2>4, PushStep DEF la
<1>6. CASE Args[s] # << >>
  <2> DEFINE b == Waiting(s, NoDef, "driver")
  <2>1. active' = Append(Behind, b)
    BY <1>6 DEF evaluateWithJIT
  <2>2. /\ b \in Activation /\ Placed(b, prog, compiledFunctions)
        /\ Seen(b, functions) = L!Waiting(d, s)
    BY <1>1, <1>3, <1>6, UnknownSeen
  <2>3. ~Ready(b)
    BY <1>1, <1>3, <1>6, UnknownSeen
  <2> HIDE DEF b
  <2>4. ~L!Ready(la)
    BY <1>3, <2>2, <2>3, ReadySeen DEF la
  <2>5. Seen(b, functions) \in IF L!Ready(la) THEN L!Bodies(d) ELSE {la}
    BY <2>2, <2>4 DEF la
  <2> QED BY <1>1, <1>2, <2>1, <2>2, <2>5, PushStep DEF la
<1> QED BY <1>5, <1>6

LEMMA callCompiledStep ==
  ASSUME Plain, IInv, NEW s \in Site, callCompiled(s)
  PROVE  IInv' /\ L!Enter
<1> DEFINE d == functions[Callee[s]]
<1>1. /\ Running /\ active # << >> /\ Ready(Innermost) /\ Innermost.engine = "driver"
      /\ Innermost.site = s /\ UNCHANGED << prog, pass, pc, tables, outcome >>
  BY DEF callCompiled, ReadyFor
<1>2. pass = 2 /\ Innermost \in Activation /\ Placed(Innermost, prog, compiledFunctions)
  BY <1>1, UnderWay
<1>3. Innermost.def = NoDef
  BY <1>1, <1>2 DEF Ready, Activation
<1>4. d \in Def /\ Defines(prog, d) /\ compiledFunctions[Callee[s]] = d /\ d \in Compiles
  BY <1>1, <1>2, <1>3, WaitingFound
<1>5. PICK b \in Bodies(s, d, "native") : active' = Append(Callers, b)
  BY <1>4 DEF callCompiled
<1>6. /\ b \in Activation /\ Placed(b, prog, compiledFunctions)
      /\ Seen(b, functions) \in L!Bodies(d)
  BY <1>4, BodiesSeen
<1>7. Seen(Innermost, functions).def = d
  BY <1>1, <1>3 DEF Seen
<1> QED BY <1>1, <1>5, <1>6, <1>7, EnterStep

LEMMA evaluateFunctionCallStep ==
  ASSUME Plain, IInv, NEW s \in Site, evaluateFunctionCall(s)
  PROVE  IInv' /\ L!Call(s)
<1> DEFINE d == functions[Callee[s]]
           a == Waiting(s, d, "interpreter")
           la == L!Waiting(d, s)
<1>1. /\ Comes(Calling(s)) /\ Len(active) < MaxDepth /\ d # NoDef /\ Callee[s] \in Name
      /\ pc' = Following /\ UNCHANGED << prog, pass, tables, outcome >>
  BY SiteAssumption DEF evaluateFunctionCall
<1>2. d \in Def
  BY <1>1 DEF IInv, TypeOK, L!Table
<1>3. pass = 2
  BY <1>1, NextComes
<1>4. /\ a \in Activation /\ Placed(a, prog, compiledFunctions)
      /\ Seen(a, functions) = la
  BY <1>2, FoundSeen
<1>5. PICK b \in IF Ready(a) THEN Bodies(s, a.def, "interpreter") ELSE {a} :
        active' = Append(Behind, b)
  BY DEF evaluateFunctionCall
<1>6. a.def = d
  BY DEF Waiting
<1> HIDE DEF a, la
<1>7. Ready(a) <=> L!Ready(la)
  BY <1>3, <1>4, ReadySeen
<1>8. /\ b \in Activation /\ Placed(b, prog, compiledFunctions)
      /\ Seen(b, functions) \in IF L!Ready(la) THEN L!Bodies(d) ELSE {la}
  <2>1. CASE Ready(a)
    <3>1. b \in Bodies(s, d, "interpreter")
      BY <1>5, <1>6, <2>1
    <3>2. /\ b \in Activation /\ Placed(b, prog, compiledFunctions)
          /\ Seen(b, functions) \in L!Bodies(d)
      BY <1>2, <3>1, BodiesSeen
    <3> QED BY <1>7, <2>1, <3>2
  <2>2. CASE ~Ready(a)
    BY <1>4, <1>5, <1>7, <2>2
  <2> QED BY <2>1, <2>2
<1> QED BY <1>1, <1>2, <1>5, <1>8, PushStep DEF la

LEMMA executeBodyStep ==
  ASSUME Plain, IInv, executeBody
  PROVE  IInv' /\ L!Enter
<1> DEFINE d == Innermost.def
<1>1. /\ Running /\ active # << >> /\ Ready(Innermost) /\ Innermost.engine = "interpreter"
      /\ UNCHANGED << prog, pass, pc, tables, outcome >>
  BY DEF executeBody, ReadyFor
<1>2. Innermost \in Activation
  BY <1>1, UnderWay
<1>3. d \in Def /\ d # NoDef /\ Innermost.site \in Site
  BY <1>1, <1>2 DEF Activation, Calls
<1>4. PICK b \in Bodies(Innermost.site, d, "interpreter") : active' = Append(Callers, b)
  BY DEF executeBody
<1>5. /\ b \in Activation /\ Placed(b, prog, compiledFunctions)
      /\ Seen(b, functions) \in L!Bodies(d)
  BY <1>3, <1>4, BodiesSeen
<1>6. Seen(Innermost, functions).def = d
  BY <1>3 DEF Seen
<1> QED BY <1>1, <1>4, <1>5, <1>6, EnterStep

LEMMA jit_push_argStep ==
  ASSUME Plain, IInv, NEW s \in Site, jit_push_arg(s)
  PROVE  IInv' /\ L!Call(s)
<1> DEFINE d == functions[Callee[s]]
           la == L!Waiting(d, s)
           b == Waiting(s, NoDef, "native")
<1>1. /\ Comes(Calling(s)) /\ Engine = "native" /\ Len(active) < MaxDepth /\ Args[s] # << >>
      /\ active' = Append(Behind, b) /\ UNCHANGED << prog, pass, pc, tables, outcome >>
  BY DEF jit_push_arg
<1>2. pass = 2 /\ InNative(prog, s)
  BY <1>1, NextComes, NextCall
<1>3. pc' = Following
  BY <1>1 DEF Engine, Following
<1>4. /\ b \in Activation /\ Placed(b, prog, compiledFunctions)
      /\ Seen(b, functions) = L!Waiting(d, s)
  BY <1>1, <1>2, UnknownSeen
<1>5. ~Ready(b) /\ b.def = NoDef /\ b.site = s
  BY <1>1, <1>2, UnknownSeen DEF Waiting
<1> HIDE DEF b, la
<1>6. d \in Def
  BY <1>2, <1>4, <1>5, WaitingFound
<1>7. ~L!Ready(la)
  BY <1>2, <1>4, <1>5, ReadySeen DEF la
<1>8. Seen(b, functions) \in IF L!Ready(la) THEN L!Bodies(d) ELSE {la}
  BY <1>4, <1>7 DEF la
<1> QED BY <1>1, <1>3, <1>4, <1>6, <1>8, PushStep DEF la

\* What jit_call_func runs when a definition is found.
LEMMA CalledSeen ==
  ASSUME IInv, NEW s \in Site, NEW outer,
         \/ /\ compiledFunctions[Callee[s]] # NoDef
            /\ \E a \in Bodies(s, compiledFunctions[Callee[s]], "native") :
                 active' = Append(outer, a)
         \/ /\ compiledFunctions[Callee[s]] = NoDef /\ functions[Callee[s]] # NoDef
            /\ \E a \in Bodies(s, functions[Callee[s]], "interpreter") :
                 active' = Append(outer, a)
  PROVE  /\ functions[Callee[s]] \in Def
         /\ \E b \in Activation : /\ Placed(b, prog, compiledFunctions)
                                  /\ Seen(b, functions) \in L!Bodies(functions[Callee[s]])
                                  /\ active' = Append(outer, b)
<1> DEFINE n == Callee[s]
<1>1. n \in Name
  BY SiteAssumption
<1>2. CASE /\ compiledFunctions[n] # NoDef
           /\ \E a \in Bodies(s, compiledFunctions[n], "native") : active' = Append(outer, a)
  <2>1. /\ functions[n] = compiledFunctions[n] /\ functions[n] \in Def
        /\ functions[n] \in Compiles /\ Defines(prog, functions[n])
    BY <1>1, <1>2, CompiledFound
  <2>2. PICK b \in Bodies(s, functions[n], "native") : active' = Append(outer, b)
    BY <1>2, <2>1
  <2>3. /\ b \in Activation /\ Placed(b, prog, compiledFunctions)
        /\ Seen(b, functions) \in L!Bodies(functions[n])
    BY <2>1, <2>2, BodiesSeen
  <2> QED BY <2>1, <2>2, <2>3
<1>3. CASE /\ compiledFunctions[n] = NoDef /\ functions[n] # NoDef
           /\ \E a \in Bodies(s, functions[n], "interpreter") : active' = Append(outer, a)
  <2>1. functions[n] \in Def
    BY <1>1, <1>3 DEF IInv, TypeOK, L!Table
  <2>2. PICK b \in Bodies(s, functions[n], "interpreter") : active' = Append(outer, b)
    BY <1>3
  <2>3. /\ b \in Activation /\ Placed(b, prog, compiledFunctions)
        /\ Seen(b, functions) \in L!Bodies(functions[n])
    BY <2>1, <2>2, BodiesSeen
  <2> QED BY <2>1, <2>2, <2>3
<1> QED BY <1>2, <1>3

LEMMA jit_call_funcStep ==
  ASSUME Plain, IInv, NEW s \in Site, jit_call_func(s)
  PROVE  IInv' /\ (L!Call(s) \/ L!Enter)
<1> DEFINE d == functions[Callee[s]]
           la == L!Waiting(d, s)
<1>1. Pushed(s) /\ UNCHANGED << prog, pass, pc, tables, outcome >>
  BY DEF jit_call_func
<1>2. CASE Comes(Calling(s)) /\ Engine = "native" /\ Args[s] = << >>
  <2>1. active # << >> /\ pc' = Following
    BY <1>1, <1>2 DEF Engine, Following
  <2>2. ~Ready(Innermost)
    BY <1>2, <2>1 DEF Comes
  <2>3. Len(Behind) < MaxDepth /\ Len(Behind) = Len(active)
    <3>1. Callers \in Seq(Activation) /\ Len(Callers) = Len(active) - 1
      BY <2>1, DropLast DEF IInv, TypeOK, Callers
    <3>2. Behind = Append(Callers, [Innermost EXCEPT !.rest = Tail(@)])
      BY <2>1 DEF Behind
    <3> QED BY <2>2, <3>1, <3>2 DEF jit_call_func, IInv, TypeOK
  <2>4. d \in Def /\ \E b \in Activation : /\ Placed(b, prog, compiledFunctions)
                                           /\ Seen(b, functions) \in L!Bodies(d)
                                           /\ active' = Append(Behind, b)
    BY <2>2, CalledSeen DEF jit_call_func
  <2>5. PICK b \in Activation : /\ Placed(b, prog, compiledFunctions)
                                /\ Seen(b, functions) \in L!Bodies(d)
                                /\ active' = Append(Behind, b)
    BY <2>4
  <2>6. L!Ready(la)
    BY <1>2 DEF L!Waiting, L!Ready, L!ArgCalls
  <2>7. Seen(b, functions) \in IF L!Ready(la) THEN L!Bodies(d) ELSE {la}
    BY <2>5, <2>6
  <2> QED BY <1>1, <1>2, <2>1, <2>3, <2>4, <2>5, <2>7, PushStep
<1>3. CASE ReadyFor("native") /\ Innermost.site = s
  <2>1. /\ Running /\ active # << >> /\ Ready(Innermost) /\ Innermost.engine = "native"
    BY <1>3 DEF ReadyFor
  <2>2. Innermost \in Activation
    BY <2>1, UnderWay
  <2>3. Innermost.def = NoDef
    BY <2>1, <2>2 DEF Ready, Activation
  <2>4. PICK b \in Activation : /\ Placed(b, prog, compiledFunctions)
                                /\ Seen(b, functions) \in L!Bodies(d)
                                /\ active' = Append(Callers, b)
    BY <2>1, CalledSeen DEF jit_call_func
  <2>5. Seen(Innermost, functions).def = d
    BY <1>3, <2>3 DEF Seen
  <2> QED BY <1>1, <2>1, <2>4, <2>5, EnterStep
<1> QED BY <1>1, <1>2, <1>3 DEF Pushed

\* A definition is come to in a body, an interpreted one, and has a name that no
\* top-level definition has.
LEMMA NestedInterpreted ==
  ASSUME Plain, IInv, NEW d \in Def, active # << >>, Comes(Defining(d))
  PROVE  /\ Engine = "interpreter"
         /\ \A k \in DOMAIN prog : IsDef(prog[k]) => NameOf[prog[k].def] # NameOf[d]
<1> DEFINE a == Innermost
<1>1. a \in Activation /\ Placed(a, prog, compiledFunctions) /\ prog \in Programs
  BY UnderWay DEF IInv, TypeOK
<1>2. 1 \in DOMAIN a.rest /\ a.rest[1] = Defining(d) /\ a.phase \in {"arguments", "body"}
      /\ a.engine \in {"native", "interpreter", "driver"}
  BY <1>1 DEF Comes, Activation, Calls
<1>3. a.phase = "body"
  <2>1. SUFFICES ASSUME a.phase = "arguments"
                 PROVE  FALSE
    BY <1>2
  <2>2. PICK i \in DOMAIN Args[a.site] : Defining(d) = Calling(Args[a.site][i])
    BY <1>1, <1>2, <2>1 DEF Placed
  <2>3. Defining(d).kind = "def" /\ Calling(Args[a.site][i]).kind = "call"
    BY DEF Defining, Calling
  <2> QED BY <2>2, <2>3
<1>4. a.def \in Def /\ a.engine # "driver" /\ (a.engine = "native" => a.def \in Compiles)
  BY <1>1, <1>3 DEF Activation, Calls
<1>5. PICK path \in Paths[a.def] : \E j \in DOMAIN path : path[j] = Defining(d)
  BY <1>1, <1>2, <1>3 DEF Placed, InBody
<1>6. PICK j \in DOMAIN path : IsDef(path[j]) /\ path[j].def = d
  BY <1>5 DEF IsDef, Defining
<1>7. a.engine # "native"
  BY <1>4, <1>6 DEF Plain
<1>8. \A k \in DOMAIN prog : IsDef(prog[k]) => NameOf[prog[k].def] # NameOf[d]
  BY <1>1, <1>4, <1>6 DEF Plain, DefinedOnce
<1> QED BY <1>2, <1>4, <1>7, <1>8 DEF Engine

LEMMA NestedStep ==
  ASSUME Plain, IInv, NEW d \in Def, nestedDefinition(d)
  PROVE  IInv' /\ L!Define(d)
<1>1. /\ active # << >> /\ Comes(Defining(d)) /\ active' = Behind
      /\ UNCHANGED << prog, pass, pc, compiledFunctions, outcome >>
  BY DEF nestedDefinition
<1>2. /\ pass = 2 /\ L!Comes(Defining(d)) /\ L!Following = Following
      /\ L!Behind = View(Behind, functions)
      /\ Behind \in Seq(Activation) /\ AllPlaced(Behind, prog, compiledFunctions)
  BY <1>1, NextComes
<1>3. InOrder = functions /\ \A k \in DOMAIN prog : IsDef(prog[k]) => k < pc
  BY <1>1, UnderWay
<1>4. \A k \in DOMAIN prog : IsDef(prog[k]) => NameOf[prog[k].def] # NameOf[d]
  BY <1>1, NestedInterpreted
<1>5. functions' = [functions EXCEPT ![NameOf[d]] = d]
  BY <1>1, NestedInterpreted DEF nestedDefinition, Registered
<1>6. /\ NameOf[d] \in Name /\ functions \in L!Table /\ compiledFunctions \in L!Table
      /\ d # NoDef
  BY DefAssumption DEF IInv, TypeOK
<1>7. functions' \in L!Table /\ functions'[NameOf[d]] = d
      /\ \A n \in Name : n # NameOf[d] => functions'[n] = functions[n]
  BY <1>5, <1>6 DEF L!Table
<1>8. \A n \in Name : (\E e \in Def : Defines(prog, e) /\ NameOf[e] = n) => n # NameOf[d]
  BY <1>4 DEF Defines, Defining, IsDef
<1>9. IInv'
  <2>1. \A n \in Name : functions'[n] # NoDef => NameOf[functions'[n]] = n
    BY <1>7 DEF IInv, TypeOK
  <2>2. TypeOK'
    BY <1>1, <1>2, <1>7, <2>1 DEF IInv, TypeOK
  <2>3. TablesAgree'
    <3>1. ASSUME NEW n \in Name, compiledFunctions[n] # NoDef
          PROVE  functions'[n] = compiledFunctions[n]
      <4>1. /\ functions[n] = compiledFunctions[n] /\ functions[n] \in Def
            /\ Defines(prog, functions[n])
        BY <3>1, CompiledFound
      <4>2. NameOf[functions[n]] = n
        BY <1>6, <4>1, DefAssumption DEF IInv, TypeOK
      <4> QED BY <1>7, <1>8, <4>1, <4>2
    <3> QED BY <1>1, <3>1 DEF TablesAgree
  <2>4. InForce'
    <3>1. ASSUME NEW k \in DOMAIN prog, IsDef(prog[k])
          PROVE  functions'[NameOf[prog[k].def]] = prog[k].def
      <4>1. NameOf[prog[k].def] \in Name
        BY <3>1, ProgramType DEF IsDef, IInv, TypeOK
      <4>2. functions[NameOf[prog[k].def]] = prog[k].def
        BY <1>2, <3>1 DEF IInv, InForce
      <4> QED BY <1>4, <1>7, <3>1, <4>1, <4>2
    <3> QED BY <1>1, <3>1 DEF InForce
  <2>5. Hoisting' /\ DefinitionsBehind' /\ CompiledAtTop' /\ CallsPlaced'
    BY <1>1, <1>2, <1>3 DEF IInv, Hoisting, DefinitionsBehind, CompiledAtTop, CallsPlaced
  <2> QED BY <2>2, <2>3, <2>4, <2>5 DEF IInv
<1>10. InOrder' = functions'
  <2>1. \A k \in DOMAIN prog : k \in Nat /\ (IsDef(prog[k]) => ~(k >= pc)) /\ pc \in Nat
    BY <1>3, ProgramType DEF IInv, TypeOK
  <2>2. ASSUME NEW n \in Name
        PROVE  ~Ahead(functions[n])'
    BY <1>1, <1>2, <2>1 DEF Ahead, IsDef, Defining
  <2> QED BY <1>7, <2>2 DEF InOrder, L!Table
<1>11. View(active, functions)' = L!Behind
  <2>1. ASSUME NEW k \in 1 .. Len(Behind)
        PROVE  Seen(Behind[k], functions') = Seen(Behind[k], functions)
    <3>1. k \in DOMAIN Behind
      BY <1>2
    <3>2. Behind[k] \in Activation /\ Placed(Behind[k], prog, compiledFunctions)
      BY <1>2, <3>1 DEF AllPlaced
    <3>3. CASE Behind[k].def # NoDef
      BY <3>3 DEF Seen
    <3>4. CASE Behind[k].def = NoDef
      <4> DEFINE n == Callee[Behind[k].site]
      <4>1. n \in Name
        BY <3>2, SiteAssumption DEF Activation, Calls
      <4>2. functions[n] \in Def /\ Defines(prog, functions[n]) /\ NameOf[functions[n]] = n
        BY <1>2, <3>2, <3>4, WaitingFound
      <4>3. functions'[n] = functions[n]
        BY <1>7, <1>8, <4>1, <4>2
      <4> QED BY <4>3 DEF Seen
    <3> QED BY <3>3, <3>4
  <2>2. DOMAIN Behind = 1 .. Len(Behind)
    BY <1>2
  <2>3. View(Behind, functions') = View(Behind, functions)
    BY <2>1, <2>2 DEF View
  <2>4. View(active, functions)' = View(Behind, functions')
    BY <1>1 DEF View
  <2> QED BY <1>2, <2>3, <2>4
<1>12. L!Define(d)
  <2>1. L!Comes(L!Defining(d))
    BY <1>2 DEF Defining, L!Defining
  <2>2. (IF pass = 1 THEN 1 ELSE pc)' = L!Following
    BY <1>1, <1>2 DEF Following
  <2>3. InOrder' = [InOrder EXCEPT ![NameOf[d]] = d]
    BY <1>3, <1>5, <1>10
  <2> QED BY ONLY <1>1, <1>11, <2>1, <2>2, <2>3 DEF L!Define, View
<1> QED BY <1>9, <1>12

LEMMA ReturnStep ==
  ASSUME Plain, IInv, return
  PROVE  IInv' /\ L!Return
<1>1. /\ Running /\ active # << >> /\ Innermost.phase = "body"
      /\ Innermost.rest # << >> => Head(Innermost.rest).kind = "return"
      /\ active' = Callers /\ UNCHANGED << prog, pass, pc, tables, outcome >>
  BY DEF return
<1>2. /\ pass = 2 /\ InOrder = functions /\ \A k \in DOMAIN prog : IsDef(prog[k]) => k < pc
      /\ Callers \in Seq(Activation) /\ AllPlaced(Callers, prog, compiledFunctions)
      /\ View(active, functions) # << >> /\ L!Innermost = Seen(Innermost, functions)
      /\ L!Callers = View(Callers, functions)
  BY <1>1, UnderWay
<1>3. /\ pc \in 1 .. Len(prog) + 1
      /\ outcome \in {"running", "finished", "undefined", "failed"}
  BY DEF IInv, TypeOK
<1>4. IInv'
  BY <1>1, <1>2, <1>3, RunningInv
<1>5. InOrder' = InOrder
  BY <1>1, <1>2, <1>3, AllInOrderNext
<1>6. L!Innermost.phase = Innermost.phase /\ L!Innermost.rest = Innermost.rest
  BY <1>2 DEF Seen
<1>7. View(active, functions)' = L!Callers
  BY <1>1, <1>2 DEF View, tables
<1>8. L!Return
  <2>1. L!Running /\ UNCHANGED << prog, InOrder, outcome >>
    BY <1>1, <1>5 DEF L!Running, Running, tables
  <2>2. (IF pass = 1 THEN 1 ELSE pc)' = IF pass = 1 THEN 1 ELSE pc
    BY <1>1
  <2> QED BY ONLY <1>1, <1>2, <1>6, <1>7, <2>1, <2>2 DEF L!Return, View
<1> QED BY <1>4, <1>8

-------------------------------------------------------------------------------
(* The end of the program *)

LEMMA EndingInv ==
  ASSUME IInv, pass = 2, UNCHANGED << prog, pass, pc, tables, active >>,
         outcome' \in {"finished", "undefined", "failed"}
  PROVE  /\ IInv' /\ UNCHANGED InOrder /\ UNCHANGED View(active, functions)
         /\ UNCHANGED (IF pass = 1 THEN 1 ELSE pc)
<1>1. TypeOK' /\ TablesAgree' /\ CompiledAtTop' /\ Hoisting' /\ InForce'
  BY DEF IInv, TypeOK, TablesAgree, CompiledAtTop, Hoisting, InForce, tables
<1>2. DefinitionsBehind' /\ CallsPlaced'
  BY DEF IInv, DefinitionsBehind, CallsPlaced, AllPlaced, tables
<1>3. UNCHANGED InOrder
  BY DEF InOrder, Ahead, tables
<1>4. UNCHANGED View(active, functions)
  BY DEF View, tables
<1> QED BY <1>1, <1>2, <1>3, <1>4 DEF IInv

LEMMA UndefinedStep ==
  ASSUME Plain, IInv, undefined
  PROVE  IInv' /\ L!Undefined
<1>1. outcome' = "undefined" /\ UNCHANGED << prog, pass, pc, tables, active >>
  BY DEF undefined
<1>2. PICK s \in Site : /\ functions[Callee[s]] = NoDef
                        /\ \/ Comes(Calling(s)) /\ Engine # "native"
                           \/ Pushed(s) /\ compiledFunctions[Callee[s]] = NoDef
  BY DEF undefined
<1>3. Comes(Calling(s))
  <2>1. SUFFICES ASSUME ReadyFor("native"), Innermost.site = s
                 PROVE  FALSE
    BY <1>2 DEF Pushed
  <2>2. active # << >> /\ Innermost.engine = "native" /\ Innermost.phase = "arguments"
    BY <2>1 DEF ReadyFor, Ready
  <2>3. pass = 2 /\ Innermost \in Activation /\ Placed(Innermost, prog, compiledFunctions)
    BY <2>2, UnderWay
  <2>4. Innermost.def = NoDef
    BY <2>2, <2>3 DEF Activation
  <2>5. functions[Callee[s]] \in Def
    BY <2>1, <2>3, <2>4, WaitingFound
  <2> QED BY <1>2, <2>5, DefAssumption
<1>4. pass = 2 /\ L!Comes(Calling(s)) /\ InOrder = functions
  BY <1>3, NextComes, NextCall
<1>5. /\ IInv' /\ UNCHANGED InOrder /\ UNCHANGED View(active, functions)
      /\ UNCHANGED (IF pass = 1 THEN 1 ELSE pc)
  BY <1>1, <1>4, EndingInv
<1>6. L!Comes(L!Calling(s))
  BY <1>4 DEF Calling, L!Calling
<1>7. L!Undefined
  BY ONLY <1>1, <1>2, <1>4, <1>5, <1>6 DEF L!Undefined, View
<1> QED BY <1>5, <1>7

LEMMA FailStep ==
  ASSUME Plain, IInv, fail
  PROVE  IInv' /\ L!Fail
<1>1. outcome' = "failed" /\ UNCHANGED << prog, pass, pc, tables, active >>
  BY DEF fail
<1>2. CASE active = << >> /\ Comes([kind |-> "return"])
  <2>1. pass = 2 /\ L!Comes([kind |-> "return"]) /\ View(active, functions) = << >>
    BY <1>2, NextComes DEF View
  <2>2. /\ IInv' /\ UNCHANGED InOrder /\ UNCHANGED View(active, functions)
        /\ UNCHANGED (IF pass = 1 THEN 1 ELSE pc)
    BY <1>1, <2>1, EndingInv
  <2>3. L!Fail
    BY ONLY <1>1, <2>1, <2>2 DEF L!Fail, View
  <2> QED BY <2>2, <2>3
<1>3. CASE Running /\ active # << >>
  <2>1. pass = 2 /\ View(active, functions) # << >> /\ L!Running
    BY <1>3, UnderWay DEF L!Running, Running
  <2>2. /\ IInv' /\ UNCHANGED InOrder /\ UNCHANGED View(active, functions)
        /\ UNCHANGED (IF pass = 1 THEN 1 ELSE pc)
    BY <1>1, <2>1, EndingInv
  <2>3. L!Fail
    BY ONLY <1>1, <2>1, <2>2 DEF L!Fail, View
  <2> QED BY <2>2, <2>3
<1> QED BY <1>2, <1>3 DEF fail

LEMMA FinishStep ==
  ASSUME IInv, finish
  PROVE  IInv' /\ L!Finish
<1>1. /\ pass = 2 /\ active = << >> /\ pc > Len(prog) /\ L!Running
      /\ outcome' = "finished" /\ UNCHANGED << prog, pass, pc, tables, active >>
  BY DEF finish, Running, L!Running
<1>2. /\ IInv' /\ UNCHANGED InOrder /\ UNCHANGED View(active, functions)
      /\ UNCHANGED (IF pass = 1 THEN 1 ELSE pc)
  BY <1>1, EndingInv
<1>3. View(active, functions) = << >>
  BY <1>1 DEF View
<1>4. L!Finish
  BY ONLY <1>1, <1>2, <1>3 DEF L!Finish, View
<1> QED BY <1>2, <1>4

-------------------------------------------------------------------------------
(* Theorems *)

LEMMA NextStep ==
  ASSUME Plain, IInv, [Next]_vars
  PROVE  IInv' /\ [L!Next]_(L!vars)
<1>1. CASE compileFunction \/ passOver \/ secondPass
  BY <1>1, CompileStep, PassOverStep, SecondPassStep
<1>2. CASE skipDefinition
  BY <1>2, SkipStep DEF L!Next
<1>3. CASE executeBody \/ return \/ undefined \/ fail \/ finish
  BY <1>3, executeBodyStep, ReturnStep, UndefinedStep, FailStep, FinishStep DEF L!Next
<1>4. ASSUME NEW s \in Site, evaluateWithJIT(s) \/ evaluateFunctionCall(s) \/ jit_push_arg(s)
      PROVE  IInv' /\ L!Next
  <2>1. IInv' /\ L!Call(s)
    BY <1>4, evaluateWithJITStep, evaluateFunctionCallStep, jit_push_argStep
  <2> QED BY <2>1 DEF L!Next
<1>5. ASSUME NEW s \in Site, callCompiled(s) \/ jit_call_func(s)
      PROVE  IInv' /\ L!Next
  <2>1. IInv' /\ (L!Call(s) \/ L!Enter)
    BY <1>5, callCompiledStep, jit_call_funcStep
  <2> QED BY <2>1 DEF L!Next
<1>6. ASSUME NEW d \in Def, nestedDefinition(d)
      PROVE  IInv' /\ L!Next
  <2>1. IInv' /\ L!Define(d)
    BY <1>6, NestedStep
  <2> QED BY <2>1 DEF L!Next
<1>7. CASE UNCHANGED vars
  <2>1. IInv'
    BY <1>7 DEF vars, IInv, TypeOK, TablesAgree, Hoisting, InForce, DefinitionsBehind,
                CompiledAtTop, CallsPlaced, AllPlaced
  <2>2. UNCHANGED L!vars
    BY <1>7 DEF vars, L!vars, InOrder, Ahead
  <2> QED BY <2>1, <2>2
<1> QED BY <1>1, <1>2, <1>3, <1>4, <1>5, <1>6, <1>7 DEF Next

THEOREM InvariantHolds ==
  ASSUME Plain
  PROVE  Spec => []IInv
<1>1. Init => IInv
  BY InitInv
<1>2. IInv /\ [Next]_vars => IInv'
  BY NextStep
<1> QED BY <1>1, <1>2, PTL DEF Spec

\* The driver's state is well formed; native code runs for definitions that compiled.
THEOREM TypeCorrect ==
  ASSUME Plain
  PROVE  Spec => []TypeOK
<1>1. IInv => TypeOK
  BY DEF IInv
<1> QED BY <1>1, InvariantHolds, PTL

\* In every state of the driver, compiledFunctions has native code only for the
\* definition that functions holds under the same name.
THEOREM OneDefinition ==
  ASSUME Plain
  PROVE  Spec => []TablesAgree
<1>1. IInv => TablesAgree
  BY DEF IInv
<1> QED BY <1>1, InvariantHolds, PTL

\* Whatever calls native code, the driver and the interpreter make of each other, each
\* evaluates the arguments and runs the definition that it would in the interpreter
\* alone, where the name is looked up before the arguments run.
THEOREM Implements ==
  ASSUME Plain
  PROVE  Spec => ImplementsLookup
<1>1. Init => L!Init
  BY InitInv
<1>2. IInv /\ [Next]_vars => [L!Next]_(L!vars)
  BY NextStep
<1> QED BY <1>1, <1>2, InvariantHolds, PTL DEF Spec, ImplementsLookup, L!Spec
===============================================================================
