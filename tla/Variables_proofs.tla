---------------------------- MODULE Variables_proofs ----------------------------
EXTENDS Variables, FiniteSetTheorems, WellFoundedInduction, SequenceTheorems, TLAPS

-------------------------------------------------------------------------------
(* Least and greatest elements. *)

LEMMA Least ==
  ASSUME NEW T, T \subseteq Nat, T # {}
  PROVE  \E x \in T : \A y \in T : x <= y
<1> DEFINE R == OpToRel(<, Nat)
<1>1. \E x \in T : \A y \in T : ~(<< y, x >> \in R)
  <2>1. IsWellFoundedOn(R, Nat)
    BY NatLessThanWellFounded
  <2> HIDE DEF R
  <2> QED BY <2>1, WFMin
<1>2. \A x \in Nat, y \in Nat : y < x => << y, x >> \in R
  BY DEF OpToRel
<1> HIDE DEF R
<1>3. PICK x \in T : \A y \in T : ~(<< y, x >> \in R)
  BY <1>1
<1>4. ASSUME NEW y \in T
      PROVE  x <= y
  <2>1. x \in Nat /\ y \in Nat /\ ~(<< y, x >> \in R)
    BY <1>3
  <2> QED BY <2>1, <1>2
<1> QED BY <1>3, <1>4

LEMMA MinIs ==
  ASSUME NEW T, T \subseteq Nat, T # {}
  PROVE  Min(T) \in T /\ \A y \in T : Min(T) <= y
BY Least DEF Min

LEMMA MaxIs ==
  ASSUME NEW T, NEW n \in Nat, T \subseteq 1 .. n, T # {}
  PROVE  Max(T) \in T /\ \A y \in T : y <= Max(T)
<1> DEFINE U == { x \in 0 .. n : n - x \in T }
<1>1. U \subseteq Nat /\ U # {}
  <2>1. PICK y \in T : TRUE
    OBVIOUS
  <2>2. y \in 1 .. n /\ n - (n - y) = y
    OBVIOUS
  <2>3. n - y \in 0 .. n
    BY <2>2
  <2>4. n - y \in U
    BY <2>2, <2>3
  <2>5. U \subseteq 0 .. n /\ 0 .. n \subseteq Nat
    OBVIOUS
  <2> HIDE DEF U
  <2> QED BY <2>4, <2>5
<1>2. PICK x \in U : \A y \in U : x <= y
  BY <1>1, Least
<1>3. n - x \in T
  OBVIOUS
<1>4. \A y \in T : y <= n - x
  <2> TAKE y \in T
  <2>1. n - y \in U
    OBVIOUS
  <2> QED BY <2>1, <1>2
<1> QED BY <1>3, <1>4 DEF Max

\* The greatest element is the only one that is one.
LEMMA MaxUnique ==
  ASSUME NEW T, NEW n \in Nat, T \subseteq 1 .. n, NEW m \in T, \A y \in T : y <= m
  PROVE  Max(T) = m
<1>1. Max(T) \in T /\ m <= Max(T)
  BY MaxIs
<1>2. Max(T) \in 1 .. n /\ m \in 1 .. n /\ Max(T) <= m
  BY <1>1
<1> QED BY <1>1, <1>2

LEMMA MinUnique ==
  ASSUME NEW T, T \subseteq Nat, NEW m \in T, \A y \in T : m <= y
  PROVE  Min(T) = m
<1>1. Min(T) \in T /\ Min(T) <= m
  BY MinIs
<1>2. Min(T) \in Nat /\ m \in Nat /\ m <= Min(T)
  BY <1>1
<1> QED BY <1>1, <1>2

-------------------------------------------------------------------------------
(* Parameters, which the interpreter assigns one by one. *)

\* The positions up to i where f's parameters name n.
Positions(f, n, i) == { j \in 1 .. i : Params[f][j] = n }

\* The value that parameter j gets.
Given(es, vs, j) == IF j <= Len(es) THEN evaluate(es[j], vs) ELSE 0

\* The variables after i parameters.
After(f, es, i) ==
  [n \in Name |-> IF Positions(f, n, i) = {} THEN variables[n]
                  ELSE Given(es, variables, Max(Positions(f, n, i)))]

LEMMA PositionsGrow ==
  ASSUME NEW f, NEW n, NEW i \in Nat, i > 0
  PROVE  /\ Params[f][i] = n => Positions(f, n, i) # {} /\ Max(Positions(f, n, i)) = i
         /\ Params[f][i] # n => Positions(f, n, i) = Positions(f, n, i - 1)
<1>1. CASE Params[f][i] = n
  <2>1. /\ i \in Positions(f, n, i) /\ Positions(f, n, i) \subseteq 1 .. i
        /\ \A y \in Positions(f, n, i) : y <= i
    BY <1>1 DEF Positions
  <2>2. Max(Positions(f, n, i)) = i
    BY <2>1, MaxUnique
  <2> QED BY <1>1, <2>1, <2>2
<1>2. CASE Params[f][i] # n
  BY <1>2 DEF Positions
<1> QED BY <1>1, <1>2

\* What an expression is.
LEMMA ExprIs ==
  ASSUME NEW e \in S!Expr
  PROVE  /\ S!IsVar(e) => e.var \in Name /\ e = [var |-> e.var]
         /\ ~S!IsVar(e) => e.lit \in Value
<1>1. CASE e \in [lit : Value]
  <2>1. DOMAIN e = {"lit"} /\ e.lit \in Value
    BY <1>1
  <2>2. {"lit"} # {"var"}
    OBVIOUS
  <2> QED BY <2>1, <2>2 DEF S!IsVar
<1>2. CASE e \in [var : Name]
  <2>1. DOMAIN e = {"var"} /\ e.var \in Name /\ e = [var |-> e.var]
    BY <1>2
  <2> QED BY <2>1 DEF S!IsVar
<1> QED BY <1>1, <1>2 DEF S!Expr

\* An argument that mentions no parameter assigned before it has the value it had.
LEMMA GivenIs ==
  ASSUME NEW f \in Fn, NEW es \in Seq(S!Expr), ArgumentsKept(f, es),
         NEW i \in 1 .. Len(Params[f])
  PROVE  Given(es, After(f, es, i - 1), i) = Given(es, variables, i)
<1>1. CASE i > Len(es)
  BY <1>1 DEF Given
<1>2. CASE i <= Len(es) /\ ~S!IsVar(es[i])
  BY <1>2 DEF Given, evaluate
<1>3. CASE i <= Len(es) /\ S!IsVar(es[i])
  <2> DEFINE n == es[i].var
  <2>0. i \in DOMAIN es /\ es[i] \in S!Expr
    BY <1>3
  <2>1. n \in Name /\ es[i] = [var |-> n]
    BY <1>3, <2>0, ExprIs
  <2>2. ASSUME NEW j \in 1 .. i - 1
        PROVE  Params[f][j] # n
    <3>1. j \in DOMAIN Params[f] /\ j < i
      BY FnAssumption
    <3>2. es[i] # [var |-> Params[f][j]]
      BY <2>0, <3>1 DEF ArgumentsKept
    <3> HIDE DEF n
    <3> QED BY <2>1, <3>2
  <2>3. Positions(f, n, i - 1) = {}
    BY <2>2 DEF Positions
  <2>4. After(f, es, i - 1)[n] = variables[n]
    BY <2>1, <2>3 DEF After
  <2> QED BY <1>3, <2>4 DEF Given, evaluate
<1> QED BY <1>1, <1>2, <1>3

LEMMA AfterStep ==
  ASSUME NEW f \in Fn, NEW es \in Seq(S!Expr), ArgumentsKept(f, es),
         NEW i \in 1 .. Len(Params[f])
  PROVE  After(f, es, i) = [After(f, es, i - 1) EXCEPT
                              ![Params[f][i]] = Given(es, After(f, es, i - 1), i)]
<1> DEFINE a == After(f, es, i - 1)
           p == Params[f][i]
           v == Given(es, a, i)
<1>1. p \in Name /\ i \in Nat /\ i > 0
  BY FnAssumption
<1>2. v = Given(es, variables, i)
  BY GivenIs
<1>3. a = [n \in Name |-> a[n]]
  BY DEF After
<1>4. ASSUME NEW n \in Name
      PROVE  After(f, es, i)[n] = [a EXCEPT ![p] = v][n]
  <2>1. CASE n = p
    <3>1. Positions(f, n, i) # {} /\ Max(Positions(f, n, i)) = i
      BY <1>1, <2>1, PositionsGrow
    <3>2. After(f, es, i)[n] = v
      BY <3>1, <1>2 DEF After
    <3> HIDE DEF a, v, p
    <3> QED BY <3>2, <2>1, <1>3
  <2>2. CASE n # p
    <3>1. Positions(f, n, i) = Positions(f, n, i - 1)
      BY <1>1, <2>2, PositionsGrow
    <3>2. After(f, es, i)[n] = a[n]
      BY <3>1 DEF After
    <3> HIDE DEF a, v, p
    <3> QED BY <3>2, <2>2, <1>3
  <2> QED BY <2>1, <2>2
<1>5. After(f, es, i) = [n \in Name |-> After(f, es, i)[n]]
  BY DEF After
<1>6. [a EXCEPT ![p] = v] = [n \in Name |-> [a EXCEPT ![p] = v][n]]
  <2> HIDE DEF a, v, p
  <2> QED BY <1>3
<1> HIDE DEF a, v, p
<1>7. After(f, es, i) = [a EXCEPT ![p] = v]
  BY <1>4, <1>5, <1>6
<1> QED BY <1>7 DEF a, v, p

\* The recursion has the solution After, and no other.
LEMMA SetUpIs ==
  ASSUME NEW f \in Fn, NEW es \in Seq(S!Expr), ArgumentsKept(f, es),
         variables \in Map
  PROVE  SetUpParameters(f, es) = After(f, es, Len(Params[f]))
<1> DEFINE l == Len(Params[f])
           Next1(h, i) == [h EXCEPT ![Params[f][i]] =
                             IF i <= Len(es) THEN evaluate(es[i], h) ELSE 0]
           A(g) == g = [i \in 0 .. l |-> IF i = 0 THEN variables ELSE Next1(g[i - 1], i)]
           a == CHOOSE g : A(g)
           b == [i \in 0 .. l |-> After(f, es, i)]
<1>1. SetUpParameters(f, es) = a[l]
  BY DEF SetUpParameters
<1>2. l \in Nat
  BY FnAssumption
<1>3. After(f, es, 0) = variables
  <2>1. \A n \in Name : Positions(f, n, 0) = {}
    BY DEF Positions
  <2>2. After(f, es, 0) = [n \in Name |-> variables[n]]
    BY <2>1 DEF After
  <2> QED BY <2>2 DEF Map
<1>4. \A i \in 1 .. l : After(f, es, i) = Next1(After(f, es, i - 1), i)
  BY AfterStep DEF Given
<1> HIDE DEF Next1
<1>5. A(b)
  <2>1. \A i \in 0 .. l : b[i] = IF i = 0 THEN variables ELSE Next1(b[i - 1], i)
    BY <1>2, <1>3, <1>4
  <2> HIDE DEF b
  <2>2. b = [i \in 0 .. l |-> b[i]]
    BY DEF b
  <2>3. b = [i \in 0 .. l |-> IF i = 0 THEN variables ELSE Next1(b[i - 1], i)]
    BY <2>1, <2>2
  <2> QED BY <2>3
<1>6. A(a)
  <2>1. \E g : A(g)
    BY <1>5
  <2> HIDE DEF A
  <2> QED BY <2>1
<1>7. a[0] = variables /\ \A i \in 1 .. l : a[i] = Next1(a[i - 1], i)
  <2> DEFINE c == [i \in 0 .. l |-> IF i = 0 THEN variables ELSE Next1(a[i - 1], i)]
  <2> HIDE DEF a
  <2>1. \A i \in 0 .. l : c[i] = IF i = 0 THEN variables ELSE Next1(a[i - 1], i)
    OBVIOUS
  <2>2. a = c
    BY <1>6
  <2> HIDE DEF c
  <2>3. \A i \in 0 .. l : a[i] = IF i = 0 THEN variables ELSE Next1(a[i - 1], i)
    BY <2>1, <2>2
  <2> QED BY <2>3, <1>2
<1> HIDE DEF a, b, l
<1>8. a[l] = After(f, es, l)
  <2> DEFINE T == { i \in 0 .. l : a[i] # After(f, es, i) }
  <2>1. SUFFICES ASSUME T # {} PROVE FALSE
    BY <1>2
  <2>2. PICK m \in T : \A y \in T : m <= y
    <3>1. T \subseteq Nat
      OBVIOUS
    <3> HIDE DEF T
    <3> QED BY <2>1, <3>1, Least
  <2>3. m \in 0 .. l /\ a[m] # After(f, es, m)
    OBVIOUS
  <2>4. m # 0
    BY <2>3, <1>3, <1>7
  <2>5. m \in 1 .. l /\ m - 1 \in 0 .. l
    BY <2>3, <2>4, <1>2
  <2>6. a[m - 1] = After(f, es, m - 1)
    <3>1. m - 1 \notin T
      BY <2>2, <2>5
    <3> QED BY <3>1, <2>5
  <2>7. a[m] = After(f, es, m)
    BY <2>5, <2>6, <1>4, <1>7
  <2> QED BY <2>3, <2>7
<1> QED BY <1>1, <1>8 DEF l

-------------------------------------------------------------------------------
(* Slots: a name that a function uses has one, and no two have the same. *)

Uses(f) == ParamNames(f) \cup Mentions[f]

\* The positions of a parameter's name, the last of which is the parameter's.
Places(f, n) == { i \in DOMAIN Params[f] : Params[f][i] = n }

Smaller(f, n) == { m \in collectLocals(f) : m <= n }

LEMMA ParamsAre ==
  ASSUME NEW f \in Fn
  PROVE  /\ Params[f] \in Seq(Name) /\ Len(Params[f]) \in Nat
         /\ DOMAIN Params[f] = 1 .. Len(Params[f])
         /\ ParamNames(f) \subseteq Name /\ Mentions[f] \subseteq Name
         /\ Uses(f) \subseteq Name
BY FnAssumption DEF ParamNames, Uses

LEMMA PlaceIs ==
  ASSUME NEW f \in Fn, NEW n \in ParamNames(f)
  PROVE  /\ Max(Places(f, n)) \in DOMAIN Params[f]
         /\ Params[f][Max(Places(f, n))] = n
<1>1. Places(f, n) \subseteq 1 .. Len(Params[f]) /\ Places(f, n) # {}
  BY ParamsAre DEF Places, ParamNames
<1>2. Max(Places(f, n)) \in Places(f, n)
  BY <1>1, MaxIs, ParamsAre
<1> QED BY <1>2 DEF Places

LEMMA SmallerIs ==
  ASSUME NEW f \in Fn, NEW n \in collectLocals(f)
  PROVE  /\ Cardinality(Smaller(f, n)) \in 1 .. Cardinality(collectLocals(f))
         /\ \A m \in collectLocals(f) :
              m < n => Cardinality(Smaller(f, m)) < Cardinality(Smaller(f, n))
<1>1. collectLocals(f) \subseteq Name /\ collectLocals(f) \subseteq Nat
  BY ParamsAre, NameAssumption DEF collectLocals
<1>2. IsFiniteSet(collectLocals(f))
  BY <1>1, NameAssumption, FS_Subset
<1>3. ASSUME NEW k
      PROVE  /\ Smaller(f, k) \in SUBSET collectLocals(f) /\ IsFiniteSet(Smaller(f, k))
             /\ Cardinality(Smaller(f, k)) \in Nat
             /\ Cardinality(Smaller(f, k)) <= Cardinality(collectLocals(f))
  <2>1. Smaller(f, k) \in SUBSET collectLocals(f)
    BY DEF Smaller
  <2> QED BY <2>1, <1>2, FS_Subset, FS_CardinalityType
<1>4. Cardinality(collectLocals(f)) \in Nat
  BY <1>2, FS_CardinalityType
<1>5. n \in Smaller(f, n)
  BY <1>1 DEF Smaller
<1>6. Cardinality(Smaller(f, n)) # 0
  BY <1>3, <1>5, FS_EmptySet
<1>7. ASSUME NEW m \in collectLocals(f), m < n
      PROVE  Cardinality(Smaller(f, m)) < Cardinality(Smaller(f, n))
  <2>1. Smaller(f, m) \in SUBSET Smaller(f, n) /\ n \notin Smaller(f, m)
    BY <1>1, <1>7 DEF Smaller
  <2>2. Cardinality(Smaller(f, m)) <= Cardinality(Smaller(f, n))
        /\ Cardinality(Smaller(f, m)) # Cardinality(Smaller(f, n))
    BY <2>1, <1>3, <1>5, FS_Subset
  <2> QED BY <2>2, <1>3
<1> QED BY <1>3, <1>4, <1>6, <1>7

LEMMA SlotIs ==
  ASSUME NEW f \in Fn
  PROVE  /\ localVarCount(f) \in Nat
         /\ \A n \in ParamNames(f) : localVarMap(f, n) = Max(Places(f, n))
         /\ \A n \in Uses(f) :
              /\ localVarMap(f, n) \in 1 .. localVarCount(f)
              /\ n \in ParamNames(f) <=> localVarMap(f, n) <= Len(Params[f])
         /\ \A n, m \in Uses(f) : localVarMap(f, n) = localVarMap(f, m) => n = m
<1> DEFINE l == Len(Params[f])
           c == Cardinality(collectLocals(f))
<1>1. l \in Nat /\ DOMAIN Params[f] = 1 .. l /\ Uses(f) \subseteq Nat
  BY ParamsAre, NameAssumption
<1>2. c \in Nat
  <2>1. collectLocals(f) \subseteq Name
    BY ParamsAre DEF collectLocals
  <2> QED BY <2>1, NameAssumption, FS_Subset, FS_CardinalityType
<1>3. ASSUME NEW n \in ParamNames(f)
      PROVE  /\ localVarMap(f, n) = Max(Places(f, n))
             /\ localVarMap(f, n) \in 1 .. l
             /\ Params[f][localVarMap(f, n)] = n
  <2>1. localVarMap(f, n) = Max(Places(f, n))
    BY DEF localVarMap, Places
  <2> QED BY <2>1, <1>1, PlaceIs
<1>4. ASSUME NEW n \in Uses(f), n \notin ParamNames(f)
      PROVE  /\ n \in collectLocals(f)
             /\ localVarMap(f, n) = l + Cardinality(Smaller(f, n))
             /\ Cardinality(Smaller(f, n)) \in 1 .. c
  <2>1. n \in collectLocals(f)
    BY <1>4 DEF Uses, collectLocals
  <2> QED BY <2>1, <1>4, SmallerIs DEF localVarMap, Smaller
<1>5. localVarCount(f) = l + c
  BY DEF localVarCount
<1>6. ASSUME NEW n \in Uses(f), NEW m \in Uses(f), localVarMap(f, n) = localVarMap(f, m)
      PROVE  n = m
  <2>1. CASE n \in ParamNames(f) /\ m \in ParamNames(f)
    BY <2>1, <1>3, <1>6
  <2>2. CASE n \notin ParamNames(f) /\ m \notin ParamNames(f)
    <3>1. Cardinality(Smaller(f, n)) = Cardinality(Smaller(f, m))
      <4> HIDE DEF l, c
      <4> QED BY <1>1, <1>2, <1>4, <1>6, <2>2
    <3>2. ~(n < m) /\ ~(m < n)
      <4>1. /\ n < m => Cardinality(Smaller(f, n)) < Cardinality(Smaller(f, m))
            /\ m < n => Cardinality(Smaller(f, m)) < Cardinality(Smaller(f, n))
        BY <2>2, <1>4, SmallerIs
      <4> QED BY <4>1, <3>1, <1>2, <1>4, <2>2
    <3> QED BY <3>2, <1>1
  <2>3. CASE n \in ParamNames(f) <=> m \notin ParamNames(f)
    <3> HIDE DEF l, c
    <3> QED BY <2>3, <1>1, <1>2, <1>3, <1>4, <1>6
  <2> QED BY <2>1, <2>2, <2>3
<1>7. ASSUME NEW n \in Uses(f)
      PROVE  /\ localVarMap(f, n) \in 1 .. localVarCount(f)
             /\ n \in ParamNames(f) <=> localVarMap(f, n) <= l
  <2> HIDE DEF l, c
  <2>1. CASE n \in ParamNames(f)
    BY <2>1, <1>1, <1>2, <1>3, <1>5
  <2>2. CASE n \notin ParamNames(f)
    BY <2>2, <1>1, <1>2, <1>4, <1>5
  <2> QED BY <2>1, <2>2
<1> QED BY <1>1, <1>2, <1>3, <1>5, <1>6, <1>7

-------------------------------------------------------------------------------
(* The variables of one activation. *)

Activation ==
  [fn : Fn \cup {"main"}, engine : {"native", "interpreter"}, slots : Seq(Value),
   savedVars : Map, own : SUBSET Name, target : Name \cup {0}]

\* May a, whose variables are vs if it is interpreted, use the name?
May(a, x) == x \in IF a.fn = "main" THEN Name ELSE Uses(a.fn)

\* What a has given a value has one.
Fits(a, vs) ==
  /\ a \in Activation
  /\ a.own \subseteq IF a.fn = "main" THEN Name ELSE Uses(a.fn)
  /\ a.engine = "native" => a.fn # "main" /\ Len(a.slots) = localVarCount(a.fn)
  /\ a.engine = "interpreter" => \A n \in a.own : vs[n] \in Value

\* What stack[k] is to Env, for any activation and variables.
EnvOf(a, vs) ==
  [n \in Name |->
     IF n \notin a.own THEN Unset
     ELSE IF a.engine = "native" THEN a.slots[localVarMap(a.fn, n)]
     ELSE vs[n]]

StoredIn(a, x, v) ==
  [a EXCEPT !.own = a.own \cup {x}, !.target = 0,
            !.slots = IF a.engine = "native"
                      THEN [a.slots EXCEPT ![localVarMap(a.fn, x)] = v] ELSE a.slots]

LEMMA OwnValue ==
  ASSUME NEW a, NEW vs, Fits(a, vs), NEW n \in a.own
  PROVE  n \in Name /\ EnvOf(a, vs)[n] \in Value
<1>1. n \in Name /\ a \in Activation
  BY DEF Fits, Activation
<1>2. CASE a.engine = "native"
  <2>1. a.fn \in Fn /\ n \in Uses(a.fn) /\ a.slots \in Seq(Value)
        /\ Len(a.slots) = localVarCount(a.fn)
    BY <1>2 DEF Fits, Activation
  <2>2. localVarMap(a.fn, n) \in 1 .. Len(a.slots)
    BY <2>1, SlotIs
  <2>3. a.slots[localVarMap(a.fn, n)] \in Value
    BY <2>1, <2>2
  <2> QED BY <1>1, <1>2, <2>3 DEF EnvOf
<1>3. CASE a.engine = "interpreter"
  <2>1. vs[n] \in Value /\ a.engine # "native"
    BY <1>3 DEF Fits
  <2> QED BY <1>1, <2>1 DEF EnvOf
<1> QED BY <1>1, <1>2, <1>3 DEF Activation

LEMMA EnvIs ==
  ASSUME NEW a, NEW vs
  PROVE  /\ EnvOf(a, vs) = [n \in Name |-> EnvOf(a, vs)[n]]
         /\ \A n \in Name : n \notin a.own => EnvOf(a, vs)[n] = Unset
BY DEF EnvOf

LEMMA PutSeq ==
  ASSUME NEW s \in Seq(Value), NEW i, NEW v \in Value
  PROVE  [s EXCEPT ![i] = v] \in Seq(Value)
<1>1. CASE i \in 1 .. Len(s)
  BY <1>1, ExceptSeq
<1>2. CASE i \notin DOMAIN s
  <2>1. [s EXCEPT ![i] = v] = s
    BY <1>2
  <2> QED BY <2>1
<1> QED BY <1>1, <1>2

LEMMA StoredFields ==
  ASSUME NEW a \in Activation, NEW x \in Name, NEW v \in Value
  PROVE  /\ StoredIn(a, x, v).fn = a.fn
         /\ StoredIn(a, x, v).engine = a.engine
         /\ StoredIn(a, x, v).savedVars = a.savedVars
         /\ StoredIn(a, x, v).own = a.own \cup {x}
         /\ StoredIn(a, x, v).target = 0
         /\ a.engine = "native"
              => StoredIn(a, x, v).slots = [a.slots EXCEPT ![localVarMap(a.fn, x)] = v]
         /\ StoredIn(a, x, v) \in Activation
<1> DEFINE s == IF a.engine = "native"
                THEN [a.slots EXCEPT ![localVarMap(a.fn, x)] = v] ELSE a.slots
<1>1. s \in Seq(Value)
  <2>1. a.slots \in Seq(Value)
    BY DEF Activation
  <2> QED BY <2>1, PutSeq
<1>2. a.own \cup {x} \in SUBSET Name
  BY DEF Activation
<1>3. a.engine = "native" => s = [a.slots EXCEPT ![localVarMap(a.fn, x)] = v]
  OBVIOUS
<1> HIDE DEF s
<1>4. StoredIn(a, x, v) = [a EXCEPT !.own = a.own \cup {x}, !.target = 0, !.slots = s]
  BY DEF StoredIn, s
<1> QED BY <1>1, <1>2, <1>3, <1>4 DEF Activation

LEMMA EnvStored ==
  ASSUME NEW a, NEW vs \in Map, Fits(a, vs), NEW x \in Name, May(a, x), NEW v \in Value,
         NEW ws, a.engine = "interpreter" => ws = [vs EXCEPT ![x] = v]
  PROVE  /\ Fits(StoredIn(a, x, v), ws)
         /\ EnvOf(StoredIn(a, x, v), ws) = [EnvOf(a, vs) EXCEPT ![x] = v]
<1> DEFINE b == StoredIn(a, x, v)
<1>1. a \in Activation
  BY DEF Fits
<1>2. /\ b.fn = a.fn /\ b.engine = a.engine /\ b.own = a.own \cup {x} /\ b \in Activation
      /\ a.engine = "native" => b.slots = [a.slots EXCEPT ![localVarMap(a.fn, x)] = v]
  BY <1>1, StoredFields
<1> HIDE DEF b
<1>3. b.own \subseteq IF b.fn = "main" THEN Name ELSE Uses(b.fn)
  BY <1>2 DEF Fits, May
<1>4. \A n \in Name : EnvOf(b, ws)[n] = IF n = x THEN v ELSE EnvOf(a, vs)[n]
  <2> TAKE n \in Name
  <2>1. CASE n \notin b.own
    BY <1>2, <2>1 DEF EnvOf
  <2>2. CASE n \in b.own /\ a.engine = "native"
    <3> DEFINE i == localVarMap(a.fn, n)
               j == localVarMap(a.fn, x)
    <3>1. a.fn \in Fn /\ a.slots \in Seq(Value) /\ Len(a.slots) = localVarCount(a.fn)
          /\ x \in Uses(a.fn) /\ n \in Uses(a.fn)
      BY <2>2, <1>2, <1>3 DEF Fits, Activation, May
    <3>2. i \in 1 .. Len(a.slots) /\ j \in 1 .. Len(a.slots) /\ (i = j => n = x)
      BY <3>1, SlotIs
    <3>3. EnvOf(b, ws)[n] = b.slots[i] /\ b.slots = [a.slots EXCEPT ![j] = v]
      BY <1>2, <2>2 DEF EnvOf
    <3>4. n # x => n \in a.own /\ EnvOf(a, vs)[n] = a.slots[i]
      BY <1>2, <2>2 DEF EnvOf
    <3> HIDE DEF i, j
    <3>5. CASE n = x
      <4>1. i = j
        BY <3>5 DEF i, j
      <4> QED BY <4>1, <3>1, <3>2, <3>3, <3>5
    <3>6. CASE n # x
      <4>1. b.slots[i] = a.slots[i]
        BY <3>1, <3>2, <3>3, <3>6
      <4> QED BY <4>1, <3>3, <3>4, <3>6
    <3> QED BY <3>5, <3>6
  <2>3. CASE n \in b.own /\ a.engine = "interpreter"
    <3>1. EnvOf(b, ws)[n] = ws[n] /\ (n # x => EnvOf(a, vs)[n] = vs[n])
      BY <1>2, <2>3 DEF EnvOf
    <3> QED BY <3>1, <2>3 DEF Map
  <2> QED BY <1>1, <2>1, <2>2, <2>3 DEF Activation
<1>5. EnvOf(b, ws) = [EnvOf(a, vs) EXCEPT ![x] = v]
  BY <1>4, EnvIs
<1>6. b.engine = "native" => b.fn # "main" /\ Len(b.slots) = localVarCount(b.fn)
  <2>1. a.slots \in Seq(Value)
    BY <1>1 DEF Activation
  <2>2. a.engine = "native" => Len(b.slots) = Len(a.slots)
    BY <2>1, <1>2
  <2> QED BY <2>2, <1>2 DEF Fits
<1>7. b.engine = "interpreter" => \A n \in b.own : ws[n] \in Value
  BY <1>2 DEF Fits, Map, Activation
<1> QED BY <1>2, <1>3, <1>5, <1>6, <1>7 DEF Fits, b

-------------------------------------------------------------------------------
(* A new activation has its parameters and nothing else. *)

LEMMA BoundIs ==
  ASSUME NEW f \in Fn, NEW args
  PROVE  /\ S!Bound(f, args) = [n \in Name |-> S!Bound(f, args)[n]]
         /\ \A n \in Name :
              S!Bound(f, args)[n] = IF n \notin ParamNames(f) THEN Unset
                                    ELSE IF Max(Places(f, n)) \in DOMAIN args
                                    THEN args[Max(Places(f, n))] ELSE 0
<1>1. \A n \in Name : S!IsParam(f, n) <=> n \in ParamNames(f)
  BY DEF S!IsParam, ParamNames
<1>2. \A n \in Name : S!Position(f, n) = Max(Places(f, n))
  BY DEF S!Position, S!Max, Max, Places
<1> QED BY <1>1, <1>2 DEF S!Bound

LEMMA CopiedIs ==
  ASSUME NEW f \in Fn, NEW args \in Seq(Value), Len(args) = Len(Params[f])
  PROVE  /\ Copied(f, args) \in Seq(Value)
         /\ Len(Copied(f, args)) = localVarCount(f)
         /\ \A n \in ParamNames(f) :
              Copied(f, args)[localVarMap(f, n)] = args[Max(Places(f, n))]
<1> DEFINE C(k) == { i \in DOMAIN Params[f] : localVarMap(f, Params[f][i]) = k }
           c == localVarCount(f)
           g == [k \in 1 .. c |-> IF C(k) = {} THEN 0 ELSE args[Max(C(k))]]
<1>1. Copied(f, args) = g
  BY DEF Copied
<1>2. c \in Nat /\ Len(Params[f]) \in Nat /\ DOMAIN Params[f] = 1 .. Len(Params[f])
  BY SlotIs, ParamsAre
<1>3. \A k \in 1 .. c : C(k) # {} => Max(C(k)) \in 1 .. Len(args)
  <2> TAKE k \in 1 .. c
  <2>1. C(k) \subseteq 1 .. Len(Params[f])
    BY <1>2
  <2>2. C(k) # {} => Max(C(k)) \in C(k)
    <3> HIDE DEF C
    <3> QED BY <2>1, <1>2, MaxIs
  <2> QED BY <2>1, <2>2
<1>4. \A n \in ParamNames(f) : C(localVarMap(f, n)) = Places(f, n)
  <2> TAKE n \in ParamNames(f)
  <2>1. \A i \in DOMAIN Params[f] :
          localVarMap(f, Params[f][i]) = localVarMap(f, n) <=> Params[f][i] = n
    <3> TAKE i \in DOMAIN Params[f]
    <3>1. Params[f][i] \in Uses(f) /\ n \in Uses(f)
      BY DEF Uses, ParamNames
    <3> QED BY <3>1, SlotIs
  <2> QED BY <2>1 DEF Places
<1>5. \A n \in ParamNames(f) : Places(f, n) # {} /\ localVarMap(f, n) \in 1 .. c
  <2> TAKE n \in ParamNames(f)
  <2>1. n \in Uses(f)
    BY DEF Uses
  <2> QED BY <2>1, SlotIs DEF Places, ParamNames
<1> HIDE DEF C, c
<1>6. \A k \in 1 .. c : g[k] \in Value
  BY <1>3, ValueAssumption
<1>7. g \in Seq(Value) /\ Len(g) = c
  <2>1. g \in [1 .. c -> Value]
    BY <1>6
  <2> HIDE DEF g
  <2> QED BY <2>1, <1>2
<1>8. \A n \in ParamNames(f) : g[localVarMap(f, n)] = args[Max(Places(f, n))]
  BY <1>4, <1>5
<1> HIDE DEF g
<1> QED BY <1>1, <1>7, <1>8 DEF c

LEMMA NoVariablesAre == NoVariables \in Map
BY DEF NoVariables, Map

LEMMA FrameIs ==
  ASSUME NEW f \in Fn, NEW g \in {"native", "interpreter"}, NEW s \in Seq(Value),
         NEW v \in Map
  PROVE  /\ Frame(f, g, s, v) \in Activation
         /\ Frame(f, g, s, v).fn = f /\ Frame(f, g, s, v).engine = g
         /\ Frame(f, g, s, v).slots = s /\ Frame(f, g, s, v).savedVars = v
         /\ Frame(f, g, s, v).own = ParamNames(f) /\ Frame(f, g, s, v).target = 0
BY ParamsAre DEF Frame, Activation

LEMMA NativeFrame ==
  ASSUME NEW f \in Fn, NEW args \in Seq(Value), Len(args) = Len(Params[f]), NEW vs
  PROVE  /\ Fits(Frame(f, "native", Copied(f, args), NoVariables), vs)
         /\ EnvOf(Frame(f, "native", Copied(f, args), NoVariables), vs) = S!Bound(f, args)
<1> DEFINE a == Frame(f, "native", Copied(f, args), NoVariables)
<1>1. /\ a \in Activation /\ a.fn = f /\ a.engine = "native" /\ a.slots = Copied(f, args)
      /\ a.own = ParamNames(f)
  BY CopiedIs, FrameIs, NoVariablesAre
<1> HIDE DEF a
<1>2. f # "main"
  BY FnAssumption
<1>3. Fits(a, vs)
  BY <1>1, <1>2, CopiedIs DEF Fits, Uses
<1>4. \A n \in Name : EnvOf(a, vs)[n] = S!Bound(f, args)[n]
  <2> TAKE n \in Name
  <2>1. CASE n \notin ParamNames(f)
    BY <2>1, <1>1, BoundIs DEF EnvOf
  <2>2. CASE n \in ParamNames(f)
    <3>1. EnvOf(a, vs)[n] = args[Max(Places(f, n))]
      BY <2>2, <1>1, CopiedIs DEF EnvOf
    <3>2. Max(Places(f, n)) \in DOMAIN args
      BY <2>2, PlaceIs, ParamsAre
    <3> QED BY <3>1, <3>2, <2>2, BoundIs
  <2> QED BY <2>1, <2>2
<1>5. EnvOf(a, vs) = S!Bound(f, args)
  BY <1>4, EnvIs, BoundIs
<1> QED BY <1>3, <1>5 DEF a

LEMMA InterpretedFrame ==
  ASSUME NEW f \in Fn, NEW es \in Seq(S!Expr), ArgumentsKept(f, es), variables \in Map,
         \A i \in DOMAIN es : evaluate(es[i], variables) \in Value
  PROVE  /\ SetUpParameters(f, es) \in Map
         /\ Fits(Frame(f, "interpreter", << >>, variables), SetUpParameters(f, es))
         /\ EnvOf(Frame(f, "interpreter", << >>, variables), SetUpParameters(f, es))
              = S!Bound(f, [i \in DOMAIN es |-> evaluate(es[i], variables)])
<1> DEFINE a == Frame(f, "interpreter", << >>, variables)
           w == After(f, es, Len(Params[f]))
           args == [i \in DOMAIN es |-> evaluate(es[i], variables)]
<1>1. SetUpParameters(f, es) = w
  BY SetUpIs
<1>2. /\ a \in Activation /\ a.fn = f /\ a.engine = "interpreter"
      /\ a.own = ParamNames(f)
  <2> DEFINE b(s) == Frame(f, "interpreter", s, variables)
  <2>1. \A s \in Seq(Value) :
          /\ b(s) \in Activation /\ b(s).fn = f /\ b(s).engine = "interpreter"
          /\ b(s).own = ParamNames(f)
    BY FrameIs
  <2>2. << >> \in Seq(Value)
    OBVIOUS
  <2> HIDE DEF b
  <2>3. /\ b(<< >>) \in Activation /\ b(<< >>).fn = f
        /\ b(<< >>).engine = "interpreter" /\ b(<< >>).own = ParamNames(f)
    BY <2>1, <2>2
  <2> QED BY <2>3 DEF b
<1> HIDE DEF a
<1>3. f # "main" /\ a.engine # "native"
  BY <1>2, FnAssumption
<1>4. \A n \in Name : Positions(f, n, Len(Params[f])) = Places(f, n)
  BY ParamsAre DEF Positions, Places
<1>5. \A n \in Name : w[n] = IF n \notin ParamNames(f) THEN variables[n]
                             ELSE Given(es, variables, Max(Places(f, n)))
  <2> TAKE n \in Name
  <2>1. Places(f, n) = {} <=> n \notin ParamNames(f)
    BY DEF Places, ParamNames
  <2> QED BY <2>1, <1>4 DEF After
<1>6. w = [n \in Name |-> w[n]]
  BY DEF After
<1> HIDE DEF w
<1>7. DOMAIN es = 1 .. Len(es) /\ Len(es) \in Nat /\ DOMAIN args = DOMAIN es
      /\ \A i \in DOMAIN es : args[i] = evaluate(es[i], variables)
  OBVIOUS
<1> HIDE DEF args
<1>8. \A n \in ParamNames(f) :
        /\ n \in Name
        /\ Given(es, variables, Max(Places(f, n)))
             = IF Max(Places(f, n)) \in DOMAIN args THEN args[Max(Places(f, n))] ELSE 0
        /\ Given(es, variables, Max(Places(f, n))) \in Value
  <2> TAKE n \in ParamNames(f)
  <2> DEFINE m == Max(Places(f, n))
  <2>1. m \in Nat /\ m > 0 /\ n \in Name
    BY PlaceIs, ParamsAre
  <2> HIDE DEF m
  <2>2. Given(es, variables, m) = IF m \in DOMAIN args THEN args[m] ELSE 0
    BY <2>1, <1>7 DEF Given
  <2>3. Given(es, variables, m) \in Value
    BY <2>2, <1>7, ValueAssumption
  <2> QED BY <2>1, <2>2, <2>3 DEF m
<1>9. w \in Map
  <2>1. \A n \in Name : w[n] \in Value \cup {Unset}
    BY <1>5, <1>8 DEF Map
  <2> QED BY <2>1, <1>6 DEF Map
<1>10. Fits(a, w)
  BY <1>2, <1>3, <1>5, <1>8 DEF Fits, Uses
<1>11. EnvOf(a, w) = S!Bound(f, args)
  <2>1. \A n \in Name : EnvOf(a, w)[n] = S!Bound(f, args)[n]
    <3> TAKE n \in Name
    <3>1. CASE n \notin ParamNames(f)
      BY <3>1, <1>2, BoundIs DEF EnvOf
    <3>2. CASE n \in ParamNames(f)
      BY <3>2, <1>2, <1>3, <1>5, <1>8, BoundIs DEF EnvOf
    <3> QED BY <3>1, <3>2
  <2> QED BY <2>1, EnvIs, BoundIs
<1> QED BY <1>1, <1>9, <1>10, <1>11 DEF a, args

-------------------------------------------------------------------------------
(* Which map an interpreted activation's variables are in. *)

AboveIn(st, k) == { j \in k + 1 .. Len(st) : st[j].engine = "interpreter" }

\* What VariablesOf is for any stack.
VariablesIn(st, vs, k) ==
  IF AboveIn(st, k) = {} THEN vs ELSE st[Min(AboveIn(st, k))].savedVars

\* The first n activations differ in nothing that says where variables are.
Alike(st, su, n) ==
  \A j \in 1 .. n : su[j].engine = st[j].engine /\ su[j].savedVars = st[j].savedVars

LEMMA AboveIs ==
  ASSUME NEW st, Len(st) \in Nat, NEW k \in 1 .. Len(st)
  PROVE  /\ AboveIn(st, k) \subseteq k + 1 .. Len(st)
         /\ AboveIn(st, k) \subseteq Nat
         /\ AboveIn(st, k) # {}
              => Min(AboveIn(st, k)) \in AboveIn(st, k)
<1>1. AboveIn(st, k) \subseteq k + 1 .. Len(st) /\ AboveIn(st, k) \subseteq Nat
  BY DEF AboveIn
<1> QED BY <1>1, MinIs

LEMMA InnermostVariables ==
  ASSUME NEW st, Len(st) \in Nat, NEW vs
  PROVE  VariablesIn(st, vs, Len(st)) = vs
<1>1. AboveIn(st, Len(st)) = {}
  BY DEF AboveIn
<1> QED BY <1>1 DEF VariablesIn

LEMMA TouchedVariables ==
  ASSUME NEW st, NEW su, Len(st) \in Nat, Len(su) = Len(st), Alike(st, su, Len(st)), NEW vs,
         NEW k \in 1 .. Len(st)
  PROVE  VariablesIn(su, vs, k) = VariablesIn(st, vs, k)
<1>1. AboveIn(su, k) = AboveIn(st, k)
  BY DEF AboveIn, Alike
<1>2. AboveIn(st, k) # {} => Min(AboveIn(st, k)) \in 1 .. Len(st)
  BY AboveIs
<1> QED BY <1>1, <1>2 DEF VariablesIn, Alike

\* Only the innermost interpreted activation has its variables in the map.
LEMMA CoveredVariables ==
  ASSUME NEW st, Len(st) \in Nat, st[Len(st)].engine = "interpreter", NEW vs, NEW ws,
         NEW k \in 1 .. Len(st) - 1
  PROVE  VariablesIn(st, vs, k) = VariablesIn(st, ws, k)
<1>1. Len(st) \in AboveIn(st, k)
  BY DEF AboveIn
<1> QED BY <1>1 DEF VariablesIn

\* A call of the interpreter saves the map, so it is with the activation above that
\* everyone below finds what it had.
LEMMA PushedVariables ==
  ASSUME NEW st, NEW su, Len(st) \in Nat, Len(su) = Len(st) + 1, Alike(st, su, Len(st)),
         NEW vs, NEW k \in 1 .. Len(st)
  PROVE  /\ su[Len(su)].engine = "interpreter"
              => VariablesIn(su, vs, k) = VariablesIn(st, su[Len(su)].savedVars, k)
         /\ su[Len(su)].engine # "interpreter"
              => VariablesIn(su, vs, k) = VariablesIn(st, vs, k)
<1> DEFINE n == Len(st)
           A == AboveIn(st, k)
           B == AboveIn(su, k)
<1>1. n \in Nat /\ k \in 1 .. n /\ Len(su) = n + 1
  OBVIOUS
<1>2. B = A \cup IF su[n + 1].engine = "interpreter" THEN {n + 1} ELSE {}
  BY DEF AboveIn, Alike
<1>3. A \subseteq k + 1 .. n /\ A \subseteq Nat /\ (A # {} => Min(A) \in A)
  BY AboveIs
<1>4. CASE A # {}
  <2>1. Min(A) \in B /\ B \subseteq Nat
    BY <1>1, <1>2, <1>3, <1>4
  <2>2. \A y \in B : Min(A) <= y
    <3>1. \A y \in A : Min(A) <= y
      BY <1>3, <1>4, MinIs
    <3>2. Min(A) <= n + 1
      BY <1>1, <1>3, <1>4
    <3> HIDE DEF A, B
    <3> QED BY <3>1, <3>2, <1>2
  <2>3. Min(B) = Min(A)
    <3> HIDE DEF A, B
    <3> QED BY <2>1, <2>2, MinUnique
  <2>4. B # {} /\ Min(A) \in 1 .. n
    BY <1>1, <1>3, <1>4, <2>1
  <2> QED BY <2>3, <2>4, <1>4 DEF VariablesIn, Alike
<1>5. CASE A = {} /\ su[n + 1].engine = "interpreter"
  <2>1. B = {n + 1}
    BY <1>2, <1>5
  <2>2. Min(B) = n + 1
    <3> HIDE DEF B
    <3>1. n + 1 \in B /\ B \subseteq Nat /\ \A y \in B : n + 1 <= y
      BY <1>1, <2>1
    <3> QED BY <3>1, MinUnique
  <2> QED BY <1>1, <1>5, <2>1, <2>2 DEF VariablesIn
<1>6. CASE A = {} /\ su[n + 1].engine # "interpreter"
  <2>1. B = {}
    BY <1>2, <1>6
  <2> QED BY <1>1, <1>6, <2>1 DEF VariablesIn
<1> QED BY <1>4, <1>5, <1>6

-------------------------------------------------------------------------------
(* Sequences of frames. *)

FrameRecord == [env : Map, target : Name \cup {0}]

PutEnv(F, x, v) == [F EXCEPT ![Len(F)].env[x] = v]

LEMMA AssignedFrames ==
  ASSUME NEW F \in Seq(FrameRecord), NEW G \in Seq(FrameRecord), F # << >>, Len(G) = Len(F),
         NEW x, NEW v,
         \A k \in 1 .. Len(F) - 1 : G[k] = F[k],
         G[Len(F)].env = [F[Len(F)].env EXCEPT ![x] = v],
         G[Len(F)].target = F[Len(F)].target
  PROVE  G = PutEnv(F, x, v)
<1> DEFINE n == Len(F)
           r == [F[n] EXCEPT !.env[x] = v]
<1>1. n \in 1 .. Len(F) /\ F[n] \in FrameRecord /\ G[n] \in FrameRecord
  OBVIOUS
<1>2. r = G[n]
  BY <1>1 DEF FrameRecord
<1>3. PutEnv(F, x, v) = [F EXCEPT ![n] = r]
  BY DEF PutEnv
<1> HIDE DEF r, n
<1>4. [F EXCEPT ![n] = r] = G
  <2> DEFINE H == [F EXCEPT ![n] = r]
  <2>1. /\ H \in Seq(FrameRecord) /\ Len(H) = Len(F)
        /\ \A k \in 1 .. Len(F) : H[k] = IF k = n THEN r ELSE F[k]
    BY <1>1, <1>2, ExceptSeq
  <2>2. \A k \in 1 .. Len(H) : H[k] = G[k]
    BY <2>1, <1>2 DEF n
  <2> HIDE DEF H
  <2> QED BY <2>1, <2>2, SeqEqual
<1> QED BY <1>3, <1>4

PutCall(F, x, b) ==
  Append([F EXCEPT ![Len(F)].target = x], [env |-> b, target |-> 0])

LEMMA CalledFrames ==
  ASSUME NEW F \in Seq(FrameRecord), NEW G \in Seq(FrameRecord), F # << >>,
         Len(G) = Len(F) + 1, NEW x, NEW b,
         \A k \in 1 .. Len(F) - 1 : G[k] = F[k],
         G[Len(F)].env = F[Len(F)].env, G[Len(F)].target = x,
         G[Len(F) + 1].env = b, G[Len(F) + 1].target = 0
  PROVE  G = PutCall(F, x, b)
<1> DEFINE n == Len(F)
           r == [F[n] EXCEPT !.target = x]
           z == [env |-> b, target |-> 0]
<1>1. /\ n \in 1 .. Len(F) /\ n + 1 \in 1 .. Len(G) /\ n \in 1 .. Len(G)
      /\ F[n] \in FrameRecord /\ G[n] \in FrameRecord /\ G[n + 1] \in FrameRecord
  OBVIOUS
<1>2. r = G[n] /\ z = G[n + 1]
  BY <1>1 DEF FrameRecord
<1>3. [F EXCEPT ![Len(F)].target = x] = [F EXCEPT ![n] = r]
  OBVIOUS
<1> HIDE DEF r, n, z
<1>4. Append([F EXCEPT ![n] = r], z) = G
  <2> DEFINE H == [F EXCEPT ![n] = r]
             I == Append(H, z)
  <2>1. /\ H \in Seq(FrameRecord) /\ Len(H) = Len(F)
        /\ \A k \in 1 .. Len(F) : H[k] = IF k = n THEN r ELSE F[k]
    BY <1>1, <1>2, ExceptSeq
  <2> HIDE DEF H
  <2>2. /\ I \in Seq(FrameRecord) /\ Len(I) = Len(F) + 1 /\ I[Len(F) + 1] = z
        /\ \A k \in 1 .. Len(F) : I[k] = H[k]
    BY <2>1, <1>1, <1>2, AppendProperties
  <2> HIDE DEF I
  <2>3. \A k \in 1 .. Len(I) : I[k] = G[k]
    BY <2>1, <2>2, <1>2 DEF n
  <2>4. I = G
    BY <2>2, <2>3, SeqEqual
  <2> QED BY <2>4 DEF I, H
<1> QED BY <1>3, <1>4 DEF z, PutCall

PutReturn(F, n, v) ==
  [SubSeq(F, 1, n) EXCEPT
     ![n] = [env |-> [F[n].env EXCEPT ![F[n].target] = v], target |-> 0]]

LEMMA ReturnedFrames ==
  ASSUME NEW F \in Seq(FrameRecord), NEW G \in Seq(FrameRecord), G # << >>,
         Len(F) = Len(G) + 1, NEW v,
         \A k \in 1 .. Len(G) - 1 : G[k] = F[k],
         G[Len(G)].env = [F[Len(G)].env EXCEPT ![F[Len(G)].target] = v],
         G[Len(G)].target = 0
  PROVE  G = PutReturn(F, Len(G), v)
<1> DEFINE n == Len(G)
           r == [env |-> [F[n].env EXCEPT ![F[n].target] = v], target |-> 0]
           H == SubSeq(F, 1, n)
           I == [H EXCEPT ![n] = r]
<1>1. n \in Nat /\ n > 0 /\ n = Len(G) /\ n \in 1 .. n /\ Len(F) = n + 1
      /\ G[n] \in FrameRecord
  OBVIOUS
<1>2. r = G[n]
  BY <1>1 DEF FrameRecord
<1> HIDE DEF r, n
<1>3. /\ H \in Seq(FrameRecord) /\ Len(H) = n
      /\ \A k \in 1 .. n : H[k] = F[k]
  BY <1>1
<1> HIDE DEF H
<1>4. /\ I \in Seq(FrameRecord) /\ Len(I) = n
      /\ \A k \in 1 .. n : I[k] = IF k = n THEN r ELSE H[k]
  BY <1>1, <1>2, <1>3, ExceptSeq
<1> HIDE DEF I
<1>5. \A k \in 1 .. Len(I) : I[k] = G[k]
  BY <1>1, <1>2, <1>3, <1>4
<1>6. I = G
  BY <1>1, <1>4, <1>5, SeqEqual
<1> QED BY <1>6 DEF I, H, r, n, PutReturn

-------------------------------------------------------------------------------
(* The inductive invariant: every activation fits the variables it has,    *)
(* wherever they are.                                                      *)

WellFormed(st, vs) ==
  /\ vs \in Map /\ st \in Seq(Activation) /\ st # << >>
  /\ \A k \in 1 .. Len(st) :
       /\ Fits(st[k], VariablesIn(st, vs, k))
       /\ st[k].fn = "main" <=> k = 1
       /\ k < Len(st) => st[k].target \in Name /\ May(st[k], st[k].target)
       /\ k = Len(st) => st[k].target = 0

IInv == WellFormed(stack, variables)

FrameOf(st, vs, k) == [env |-> EnvOf(st[k], VariablesIn(st, vs, k)), target |-> st[k].target]

FramesOf(st, vs) == [k \in 1 .. Len(st) |-> FrameOf(st, vs, k)]

LEMMA FramesAre ==
  ASSUME NEW st, NEW vs, WellFormed(st, vs)
  PROVE  /\ FramesOf(st, vs) \in Seq(FrameRecord)
         /\ Len(FramesOf(st, vs)) = Len(st) /\ FramesOf(st, vs) # << >>
         /\ \A k \in 1 .. Len(st) :
              /\ FramesOf(st, vs)[k] = FrameOf(st, vs, k)
              /\ FramesOf(st, vs)[k].env = EnvOf(st[k], VariablesIn(st, vs, k))
              /\ FramesOf(st, vs)[k].target = st[k].target
<1>1. Len(st) \in Nat /\ Len(st) > 0
  BY DEF WellFormed
<1>2. ASSUME NEW k \in 1 .. Len(st)
      PROVE  FrameOf(st, vs, k) \in FrameRecord
  <2> DEFINE w == VariablesIn(st, vs, k)
             e == EnvOf(st[k], w)
  <2>1. Fits(st[k], w) /\ st[k] \in Activation /\ st[k].target \in Name \cup {0}
    <3>1. Fits(st[k], w)
      BY DEF WellFormed
    <3>2. st[k] \in Activation
      BY DEF WellFormed
    <3> QED BY <3>1, <3>2 DEF Activation
  <2>2. \A n \in Name : e[n] \in Value \cup {Unset}
    <3> TAKE n \in Name
    <3>1. CASE n \in st[k].own
      BY <2>1, <3>1, OwnValue
    <3>2. CASE n \notin st[k].own
      BY <3>2, EnvIs
    <3> QED BY <3>1, <3>2
  <2>3. e = [n \in Name |-> e[n]]
    BY EnvIs
  <2> HIDE DEF e
  <2>4. e \in Map
    BY <2>2, <2>3 DEF Map
  <2> QED BY <2>1, <2>4 DEF FrameOf, FrameRecord, e
<1> DEFINE F == FramesOf(st, vs)
<1>3. F \in [1 .. Len(st) -> FrameRecord]
  BY <1>2 DEF FramesOf
<1>4. \A k \in 1 .. Len(st) : F[k] = FrameOf(st, vs, k)
  BY DEF FramesOf
<1>5. F \in Seq(FrameRecord) /\ Len(F) = Len(st) /\ F # << >>
  <2> HIDE DEF F
  <2> QED BY <1>1, <1>3
<1> QED BY <1>4, <1>5 DEF FrameOf

\* The frames that the specification of scopes sees.
Bar == [k \in DOMAIN stack |-> [env |-> Env(k), target |-> stack[k].target]]

LEMMA BarIs ==
  /\ IInv => Bar = FramesOf(stack, variables)
  /\ IInv' => Bar' = FramesOf(stack', variables')
<1>1. IInv => DOMAIN stack = 1 .. Len(stack)
  BY DEF IInv, WellFormed
<1>2. IInv' => DOMAIN stack' = 1 .. Len(stack')
  BY DEF IInv, WellFormed
<1>3. \A k : Env(k) = EnvOf(stack[k], VariablesIn(stack, variables, k))
  BY DEF Env, EnvOf, VariablesOf, VariablesIn, Above, AboveIn
<1>4. \A k : Env(k)' = EnvOf(stack'[k], VariablesIn(stack', variables', k))
  BY DEF Env, EnvOf, VariablesOf, VariablesIn, Above, AboveIn
<1> QED BY <1>1, <1>2, <1>3, <1>4 DEF Bar, FramesOf, FrameOf

LEMMA TopIs ==
  ASSUME IInv
  PROVE  /\ Len(stack) \in Nat /\ Len(stack) > 0 /\ Len(stack) \in 1 .. Len(stack)
         /\ Top = stack[Len(stack)] /\ Top \in Activation
         /\ Fits(Top, variables) /\ Top.target = 0
         /\ Top.fn = "main" <=> Len(stack) = 1
         /\ Bar = FramesOf(stack, variables) /\ Len(Bar) = Len(stack)
         /\ Bar[Len(stack)].env = EnvOf(Top, variables)
         /\ Bar[Len(stack)].target = 0
<1>1. /\ Len(stack) \in Nat /\ Len(stack) > 0 /\ Len(stack) \in 1 .. Len(stack)
      /\ Top = stack[Len(stack)]
  BY DEF IInv, WellFormed, Top
<1>2. VariablesIn(stack, variables, Len(stack)) = variables
  BY <1>1, InnermostVariables
<1>3. /\ Top \in Activation /\ Fits(Top, variables) /\ Top.target = 0
      /\ (Top.fn = "main" <=> Len(stack) = 1)
  <2>1. Top \in Activation
    BY <1>1 DEF IInv, WellFormed
  <2>2. Fits(Top, VariablesIn(stack, variables, Len(stack)))
    BY <1>1 DEF IInv, WellFormed
  <2>3. Top.target = 0
    BY <1>1 DEF IInv, WellFormed
  <2>4. Top.fn = "main" <=> Len(stack) = 1
    BY <1>1 DEF IInv, WellFormed
  <2> QED BY <1>2, <2>1, <2>2, <2>3, <2>4
<1>4. Bar = FramesOf(stack, variables)
  BY BarIs
<1> QED BY <1>1, <1>2, <1>3, <1>4, FramesAre DEF IInv

LEMMA ReadIs ==
  ASSUME IInv, NEW e \in S!Expr, Readable(e)
  PROVE  /\ Read(e) \in Value
         /\ S!HasValue(e, EnvOf(Top, variables))
         /\ Read(e) = S!ValueOf(e, EnvOf(Top, variables))
         /\ ~Native => Read(e) = evaluate(e, variables)
<1>1. Fits(Top, variables) /\ Top \in Activation
  BY TopIs
<1>2. CASE S!IsVar(e)
  <2>1. e.var \in Top.own
    BY <1>2 DEF Readable
  <2>2. e.var \in Name /\ EnvOf(Top, variables)[e.var] \in Value
    BY <1>1, <2>1, OwnValue
  <2>3. EnvOf(Top, variables)[e.var] # Unset
    BY <2>2, ValueAssumption
  <2>4. Read(e) = EnvOf(Top, variables)[e.var]
    BY <1>2, <2>1, <2>2 DEF Read, evaluate, EnvOf, Native
  <2> QED BY <1>2, <2>2, <2>3, <2>4 DEF S!HasValue, S!ValueOf, Read
<1>3. CASE ~S!IsVar(e)
  <2>1. Read(e) = e.lit /\ e.lit \in Value /\ evaluate(e, variables) = e.lit
    BY <1>3, ExprIs DEF Read, evaluate
  <2> QED BY <1>3, <2>1 DEF S!HasValue, S!ValueOf
<1> QED BY <1>2, <1>3

LEMMA InScopeIs ==
  ASSUME IInv, NEW x \in Name, InScope(x)
  PROVE  May(Top, x)
BY TopIs DEF InScope, May, Uses

-------------------------------------------------------------------------------
(* The actions. *)

LEMMA StoredIs ==
  ASSUME NEW k, NEW x, NEW v
  PROVE  Stored(k, x, v) = StoredIn(stack[k], x, v)
BY DEF Stored, StoredIn

LEMMA AssignStep ==
  ASSUME IInv, NEW x \in Name, NEW e \in S!Expr, assign(x, e)
  PROVE  IInv' /\ S!Assign(x, e)
<1> DEFINE n == Len(stack)
           v == Read(e)
           b == StoredIn(Top, x, v)
           F == FramesOf(stack, variables)
           G == FramesOf(stack', variables')
<1>1. /\ n \in Nat /\ n > 0 /\ n \in 1 .. n /\ Top = stack[n] /\ Top \in Activation
      /\ Fits(Top, variables) /\ Top.target = 0 /\ (Top.fn = "main" <=> n = 1)
      /\ stack \in Seq(Activation) /\ variables \in Map
  BY TopIs DEF IInv, WellFormed
<1>2. /\ v \in Value /\ S!HasValue(e, EnvOf(Top, variables))
      /\ v = S!ValueOf(e, EnvOf(Top, variables)) /\ May(Top, x)
  BY ReadIs, InScopeIs DEF assign
<1>3. stack' = [stack EXCEPT ![n] = b]
  BY <1>1, StoredIs DEF assign
<1>4. variables' = IF Native THEN variables ELSE [variables EXCEPT ![x] = v]
  BY DEF assign
<1> HIDE DEF v
<1>5. /\ b.fn = Top.fn /\ b.engine = Top.engine /\ b.savedVars = Top.savedVars
      /\ b.target = 0 /\ b \in Activation
  <2>1. Top \in Activation /\ v \in Value
    BY <1>1, <1>2
  <2> QED BY ONLY <2>1, x \in Name, StoredFields
<1> HIDE DEF n
<1>6. /\ stack' \in Seq(Activation) /\ Len(stack') = n /\ stack'[n] = b
      /\ \A k \in 1 .. n - 1 : stack'[k] = stack[k]
  <2> HIDE DEF b
  <2> QED BY <1>1, <1>3, <1>5, ExceptSeq DEF n
<1>7. variables' \in Map
  <2>1. [variables EXCEPT ![x] = v] \in Map
    BY <1>1, <1>2 DEF Map
  <2> QED BY <1>1, <1>4, <2>1
<1>8. /\ Fits(b, variables')
      /\ EnvOf(b, variables') = [EnvOf(Top, variables) EXCEPT ![x] = v]
  <2>1. Top.engine = "interpreter" => variables' = [variables EXCEPT ![x] = v]
    BY <1>4 DEF Native
  <2> QED BY <1>1, <1>2, <2>1, EnvStored
<1> HIDE DEF b
<1>9. Alike(stack, stack', n)
  BY <1>1, <1>5, <1>6 DEF Alike
<1>10. ASSUME NEW k \in 1 .. n - 1
       PROVE  VariablesIn(stack', variables', k) = VariablesIn(stack, variables, k)
  <2>1. VariablesIn(stack', variables', k) = VariablesIn(stack, variables', k)
    BY <1>1, <1>6, <1>9, TouchedVariables DEF n
  <2>2. CASE Native
    BY <2>1, <2>2, <1>4
  <2>3. CASE ~Native
    <3>1. stack[n].engine = "interpreter"
      BY <1>1, <2>3 DEF Activation, Native
    <3>2. VariablesIn(stack, variables', k) = VariablesIn(stack, variables, k)
      BY <1>1, <3>1, CoveredVariables DEF n
    <3> QED BY <2>1, <3>2
  <2> QED BY <2>2, <2>3
<1>11. VariablesIn(stack', variables', n) = variables'
  BY <1>1, <1>6, InnermostVariables
<1>12. IInv'
  <2>1. ASSUME NEW k \in 1 .. n
        PROVE  /\ Fits(stack'[k], VariablesIn(stack', variables', k))
               /\ stack'[k].fn = "main" <=> k = 1
               /\ k < n => stack'[k].target \in Name /\ May(stack'[k], stack'[k].target)
               /\ k = n => stack'[k].target = 0
    <3>1. CASE k = n
      BY <3>1, <1>1, <1>5, <1>6, <1>8, <1>11
    <3>2. CASE k < n
      <4>1. k \in 1 .. n - 1 /\ k # n
        BY <3>2, <1>1
      <4>2. stack'[k] = stack[k]
            /\ VariablesIn(stack', variables', k) = VariablesIn(stack, variables, k)
        BY <4>1, <1>6, <1>10
      <4>3. /\ Fits(stack[k], VariablesIn(stack, variables, k))
            /\ stack[k].fn = "main" <=> k = 1
            /\ stack[k].target \in Name /\ May(stack[k], stack[k].target)
        BY <3>2 DEF IInv, WellFormed, n
      <4> QED BY <4>1, <4>2, <4>3
    <3> QED BY <3>1, <3>2, <1>1
  <2>2. stack' # << >>
    BY <1>1, <1>6
  <2> QED BY <2>1, <2>2, <1>6, <1>7 DEF IInv, WellFormed
<1>13. /\ F \in Seq(FrameRecord) /\ Len(F) = n /\ F # << >>
       /\ \A k \in 1 .. n : /\ F[k].env = EnvOf(stack[k], VariablesIn(stack, variables, k))
                            /\ F[k].target = stack[k].target
                            /\ F[k] = FrameOf(stack, variables, k)
  BY FramesAre DEF IInv, n
<1>14. /\ G \in Seq(FrameRecord) /\ Len(G) = n
       /\ \A k \in 1 .. n : /\ G[k].env = EnvOf(stack'[k], VariablesIn(stack', variables', k))
                            /\ G[k].target = stack'[k].target
                            /\ G[k] = FrameOf(stack', variables', k)
  BY <1>6, <1>12, FramesAre DEF IInv
<1> HIDE DEF F, G
<1>15. F[n].env = EnvOf(Top, variables)
  BY <1>1, <1>13, InnermostVariables DEF n
<1>16. G = PutEnv(F, x, v)
  <2>1. ASSUME NEW k \in 1 .. n - 1 PROVE G[k] = F[k]
    BY <1>1, <1>6, <1>10, <1>13, <1>14 DEF FrameOf
  <2>2. G[n].env = [F[n].env EXCEPT ![x] = v]
    BY <1>1, <1>6, <1>8, <1>11, <1>14, <1>15
  <2>3. G[n].target = F[n].target
    BY <1>1, <1>5, <1>6, <1>13, <1>14
  <2>4. /\ F \in Seq(FrameRecord) /\ G \in Seq(FrameRecord) /\ F # << >> /\ Len(G) = Len(F)
        /\ \A k \in 1 .. Len(F) - 1 : G[k] = F[k]
        /\ G[Len(F)].env = [F[Len(F)].env EXCEPT ![x] = v]
        /\ G[Len(F)].target = F[Len(F)].target
    BY <2>1, <2>2, <2>3, <1>13, <1>14
  <2> QED BY ONLY <2>4, AssignedFrames
<1>17. Bar = F /\ Bar' = G
  BY <1>12, BarIs DEF F, G
<1>18. S!Assign(x, e) <=> /\ S!HasValue(e, Bar[Len(Bar)].env)
                          /\ Bar' = [Bar EXCEPT ![Len(Bar)].env[x] =
                                       S!ValueOf(e, Bar[Len(Bar)].env)]
  BY DEF S!Assign, S!Top, Bar
<1>19. Bar[Len(Bar)].env = EnvOf(Top, variables)
  BY <1>13, <1>15, <1>17
<1> QED BY <1>2, <1>12, <1>13, <1>16, <1>17, <1>18, <1>19 DEF PutEnv

\* The caller waits for x, the callee has the last activation.
Aim(a, x) == [a EXCEPT !.target = x]

Called(st, x, a) == Append([st EXCEPT ![Len(st)].target = x], a)

LEMMA CalledStack ==
  ASSUME NEW st \in Seq(Activation), st # << >>, NEW x \in Name, NEW a \in Activation
  PROVE  /\ Called(st, x, a) \in Seq(Activation)
         /\ Len(Called(st, x, a)) = Len(st) + 1
         /\ Called(st, x, a)[Len(st) + 1] = a
         /\ \A k \in 1 .. Len(st) - 1 : Called(st, x, a)[k] = st[k]
         /\ Called(st, x, a)[Len(st)] = Aim(st[Len(st)], x)
<1> DEFINE n == Len(st)
           su == Called(st, x, a)
           r == [st[n] EXCEPT !.target = x]
           t == [st EXCEPT ![n] = r]
<1>1. n \in Nat /\ n > 0 /\ n \in 1 .. Len(st) /\ st[n] \in Activation /\ n = Len(st)
  OBVIOUS
<1>2. r \in Activation
  <2> HIDE DEF n
  <2> QED BY <1>1 DEF Activation
<1>3. su = Append(t, a)
  BY DEF Called
<1> HIDE DEF n, r, su
<1>4. /\ t \in Seq(Activation) /\ Len(t) = n
      /\ \A k \in 1 .. n : t[k] = IF k = n THEN r ELSE st[k]
  BY <1>1, <1>2, ExceptSeq
<1> HIDE DEF t
<1>5. /\ su \in Seq(Activation) /\ Len(su) = n + 1 /\ su[n + 1] = a
      /\ \A k \in 1 .. n : su[k] = t[k]
  BY ONLY <1>1, <1>3, <1>4, a \in Activation, AppendProperties
<1>6. su[n] = r /\ \A k \in 1 .. n - 1 : su[k] = st[k]
  BY <1>1, <1>4, <1>5
<1> QED BY <1>5, <1>6 DEF n, r, su, Aim

LEMMA TargetFields ==
  ASSUME NEW a \in Activation, NEW x
  PROVE  /\ Aim(a, x).fn = a.fn /\ Aim(a, x).engine = a.engine
         /\ Aim(a, x).savedVars = a.savedVars
         /\ Aim(a, x).own = a.own /\ Aim(a, x).slots = a.slots /\ Aim(a, x).target = x
         /\ x \in Name => Aim(a, x) \in Activation
BY DEF Activation, Aim

\* Where results go is no matter of variables.
LEMMA TargetOnly ==
  ASSUME NEW a \in Activation, NEW x \in Name, NEW vs, Fits(a, vs)
  PROVE  /\ Fits(Aim(a, x), vs) /\ EnvOf(Aim(a, x), vs) = EnvOf(a, vs)
         /\ May(Aim(a, x), x) <=> May(a, x)
<1> DEFINE b == Aim(a, x)
<1>1. /\ b.fn = a.fn /\ b.engine = a.engine /\ b.own = a.own /\ b.slots = a.slots
      /\ b \in Activation
  BY TargetFields
<1> HIDE DEF b
<1>2. Fits(b, vs) /\ EnvOf(b, vs) = EnvOf(a, vs) /\ (May(b, x) <=> May(a, x))
  BY <1>1 DEF Fits, EnvOf, May
<1> QED BY <1>2 DEF b

LEMMA CallStep ==
  ASSUME IInv, NEW x \in Name, InScope(x), NEW a,
         stack' = Calling(x, a), variables' \in Map,
         Fits(a, variables'), a.fn \in Fn, a.target = 0,
         a.engine = "interpreter" => a.savedVars = variables,
         a.engine # "interpreter" => variables' = variables
  PROVE  IInv' /\ Bar' = PutCall(Bar, x, EnvOf(a, variables'))
<1> DEFINE n == Len(stack)
           F == FramesOf(stack, variables)
           G == FramesOf(stack', variables')
<1>1. /\ n \in Nat /\ n > 0 /\ n \in 1 .. n /\ Top = stack[n] /\ Top \in Activation
      /\ Fits(Top, variables) /\ Top.target = 0 /\ (Top.fn = "main" <=> n = 1)
      /\ stack \in Seq(Activation) /\ variables \in Map /\ stack # << >>
  BY TopIs DEF IInv, WellFormed
<1>2. a \in Activation /\ May(Top, x) /\ a.fn # "main"
  BY InScopeIs, FnAssumption DEF Fits
<1>3. stack' = Called(stack, x, a)
  BY DEF Calling, Called
<1>4. /\ stack' \in Seq(Activation) /\ Len(stack') = n + 1 /\ stack'[n + 1] = a
      /\ \A k \in 1 .. n - 1 : stack'[k] = stack[k]
      /\ stack'[n] = Aim(Top, x)
  <2>1. stack \in Seq(Activation) /\ stack # << >> /\ a \in Activation
    BY <1>1, <1>2
  <2> DEFINE s == Called(stack, x, a)
  <2>2. /\ s \in Seq(Activation) /\ Len(s) = Len(stack) + 1 /\ s[Len(stack) + 1] = a
        /\ \A k \in 1 .. Len(stack) - 1 : s[k] = stack[k]
        /\ s[Len(stack)] = Aim(stack[Len(stack)], x)
    BY <2>1, CalledStack
  <2> HIDE DEF s
  <2>3. stack' = s
    BY <1>3 DEF s
  <2> QED BY <2>2, <2>3, <1>1
<1> HIDE DEF n
<1>5. /\ Fits(stack'[n], variables) /\ EnvOf(stack'[n], variables) = EnvOf(Top, variables)
      /\ stack'[n].target = x /\ May(stack'[n], x)
      /\ stack'[n].fn = Top.fn
      /\ stack'[n].engine = Top.engine /\ stack'[n].savedVars = Top.savedVars
  BY <1>1, <1>2, <1>4, TargetFields, TargetOnly
<1>6. Alike(stack, stack', n)
  <2> SUFFICES ASSUME NEW k \in 1 .. n
               PROVE  stack'[k].engine = stack[k].engine
                      /\ stack'[k].savedVars = stack[k].savedVars
    BY DEF Alike
  <2>1. CASE k = n
    BY <2>1, <1>1, <1>5
  <2>2. CASE k # n
    <3>1. stack'[k] = stack[k]
      BY <2>2, <1>1, <1>4
    <3> QED BY <3>1
  <2> QED BY <2>1, <2>2
<1>7. ASSUME NEW k \in 1 .. n
      PROVE  VariablesIn(stack', variables', k) = VariablesIn(stack, variables, k)
  <2>1. /\ a.engine = "interpreter"
             => VariablesIn(stack', variables', k) = VariablesIn(stack, a.savedVars, k)
        /\ a.engine # "interpreter"
             => VariablesIn(stack', variables', k) = VariablesIn(stack, variables', k)
    BY <1>1, <1>4, <1>6, PushedVariables DEF n
  <2> QED BY <2>1
<1>8. VariablesIn(stack', variables', n + 1) = variables'
  BY <1>1, <1>4, InnermostVariables
<1>9. VariablesIn(stack, variables, n) = variables
  BY <1>1, InnermostVariables DEF n
<1>10. IInv'
  <2>1. ASSUME NEW k \in 1 .. n + 1
        PROVE  /\ Fits(stack'[k], VariablesIn(stack', variables', k))
               /\ stack'[k].fn = "main" <=> k = 1
               /\ k < n + 1 => stack'[k].target \in Name /\ May(stack'[k], stack'[k].target)
               /\ k = n + 1 => stack'[k].target = 0
    <3>1. CASE k = n + 1
      BY <3>1, <1>1, <1>2, <1>4, <1>8
    <3>2. CASE k = n
      BY <3>2, <1>1, <1>5, <1>7, <1>9
    <3>3. CASE k < n
      <4>1. k \in 1 .. n - 1 /\ k \in 1 .. n /\ k # n + 1
        BY <3>3, <1>1
      <4>2. stack'[k] = stack[k]
            /\ VariablesIn(stack', variables', k) = VariablesIn(stack, variables, k)
        BY <4>1, <1>4, <1>7
      <4>3. /\ Fits(stack[k], VariablesIn(stack, variables, k))
            /\ stack[k].fn = "main" <=> k = 1
            /\ stack[k].target \in Name /\ May(stack[k], stack[k].target)
        BY <3>3 DEF IInv, WellFormed, n
      <4> QED BY <4>1, <4>2, <4>3
    <3> QED BY <3>1, <3>2, <3>3, <1>1
  <2>2. stack' # << >>
    BY <1>1, <1>4
  <2> QED BY <2>1, <2>2, <1>4 DEF IInv, WellFormed
<1>11. /\ F \in Seq(FrameRecord) /\ Len(F) = n /\ F # << >>
       /\ \A k \in 1 .. n : /\ F[k].env = EnvOf(stack[k], VariablesIn(stack, variables, k))
                            /\ F[k].target = stack[k].target
                            /\ F[k] = FrameOf(stack, variables, k)
  BY FramesAre DEF IInv, n
<1>12. /\ G \in Seq(FrameRecord) /\ Len(G) = n + 1
       /\ \A k \in 1 .. n + 1 :
            /\ G[k].env = EnvOf(stack'[k], VariablesIn(stack', variables', k))
            /\ G[k].target = stack'[k].target
            /\ G[k] = FrameOf(stack', variables', k)
  BY <1>4, <1>10, FramesAre DEF IInv
<1> HIDE DEF F, G
<1>13. G = PutCall(F, x, EnvOf(a, variables'))
  <2>1. ASSUME NEW k \in 1 .. n - 1 PROVE G[k] = F[k]
    <3>1. k \in 1 .. n /\ k \in 1 .. n + 1 /\ stack'[k] = stack[k]
      BY <1>1, <1>4
    <3>2. G[k] = FrameOf(stack', variables', k) /\ F[k] = FrameOf(stack, variables, k)
      BY <3>1, <1>11, <1>12
    <3> QED BY <3>1, <3>2, <1>7 DEF FrameOf
  <2>2. G[n].env = F[n].env
    BY <1>1, <1>5, <1>7, <1>9, <1>11, <1>12
  <2>3. G[n].target = x
    BY <1>1, <1>5, <1>12
  <2>4. G[n + 1].env = EnvOf(a, variables') /\ G[n + 1].target = 0
    BY <1>1, <1>4, <1>8, <1>12
  <2>5. /\ F \in Seq(FrameRecord) /\ G \in Seq(FrameRecord) /\ F # << >>
        /\ Len(G) = Len(F) + 1
        /\ \A k \in 1 .. Len(F) - 1 : G[k] = F[k]
        /\ G[Len(F)].env = F[Len(F)].env /\ G[Len(F)].target = x
        /\ G[Len(F) + 1].env = EnvOf(a, variables') /\ G[Len(F) + 1].target = 0
    BY <2>1, <2>2, <2>3, <2>4, <1>11, <1>12
  <2> QED BY ONLY <2>5, CalledFrames
<1>14. Bar = F /\ Bar' = G
  BY <1>10, BarIs DEF F, G
<1> QED BY <1>10, <1>13, <1>14

\* The arguments' values.
Values(es) == [i \in DOMAIN es |-> Read(es[i])]

LEMMA ArgsAre ==
  ASSUME NEW f \in Fn, NEW es \in S!ArgLists(f)
  PROVE  es \in Seq(S!Expr) /\ Len(es) \in Nat /\ DOMAIN es = 1 .. Len(es)
<1>1. PICK k \in 0 .. Len(Params[f]) : es \in [1 .. k -> S!Expr]
  BY DEF S!ArgLists
<1>2. k \in Nat
  BY ParamsAre
<1>3. es \in Seq(S!Expr)
  BY <1>1, <1>2
<1> QED BY <1>3

LEMMA ValuesAre ==
  ASSUME IInv, NEW f \in Fn, NEW es \in S!ArgLists(f), \A i \in DOMAIN es : Readable(es[i])
  PROVE  /\ Values(es) \in Seq(Value) /\ Len(Values(es)) = Len(es)
         /\ DOMAIN Values(es) = DOMAIN es
         /\ \A i \in DOMAIN es :
              /\ es[i] \in S!Expr /\ Values(es)[i] = Read(es[i]) /\ Read(es[i]) \in Value
              /\ S!HasValue(es[i], EnvOf(Top, variables))
              /\ Read(es[i]) = S!ValueOf(es[i], EnvOf(Top, variables))
              /\ ~Native => Read(es[i]) = evaluate(es[i], variables)
         /\ Values(es) = [i \in DOMAIN es |-> S!ValueOf(es[i], EnvOf(Top, variables))]
<1>1. es \in Seq(S!Expr) /\ Len(es) \in Nat /\ DOMAIN es = 1 .. Len(es)
  BY ArgsAre
<1>2. ASSUME NEW i \in DOMAIN es
      PROVE  /\ es[i] \in S!Expr /\ Values(es)[i] = Read(es[i]) /\ Read(es[i]) \in Value
             /\ S!HasValue(es[i], EnvOf(Top, variables))
             /\ Read(es[i]) = S!ValueOf(es[i], EnvOf(Top, variables))
             /\ ~Native => Read(es[i]) = evaluate(es[i], variables)
  <2>1. es[i] \in S!Expr /\ Readable(es[i])
    BY <1>1
  <2>2. Values(es)[i] = Read(es[i])
    BY DEF Values
  <2> QED BY <2>1, <2>2, ReadIs
<1>3. Values(es) \in [1 .. Len(es) -> Value]
  BY <1>1, <1>2 DEF Values
<1>4. Values(es) \in Seq(Value) /\ Len(Values(es)) = Len(es)
  BY <1>1, <1>3
<1>5. Values(es) = [i \in DOMAIN es |-> S!ValueOf(es[i], EnvOf(Top, variables))]
  BY <1>2 DEF Values
<1>6. DOMAIN Values(es) = DOMAIN es
  BY DEF Values
<1> QED BY <1>2, <1>4, <1>5, <1>6

\* A call binds the parameters to the values.
LEMMA CallIs ==
  ASSUME IInv, NEW x, NEW f \in Fn, NEW es \in S!ArgLists(f), MayCall(x, f, es),
         Bar' = PutCall(Bar, x, S!Bound(f, Values(es)))
  PROVE  S!Call(x, f, es)
<1>1. Len(Bar) = Len(stack) /\ Bar[Len(Bar)].env = EnvOf(Top, variables)
  BY TopIs
<1>2. Len(Bar) < MaxDepth
  BY <1>1 DEF MayCall
<1>3. \A i \in DOMAIN es : Readable(es[i])
  BY DEF MayCall
<1>4. \A i \in DOMAIN es : S!HasValue(es[i], Bar[Len(Bar)].env)
  BY <1>1, <1>3, ValuesAre
<1>5. Values(es) = [i \in DOMAIN es |-> S!ValueOf(es[i], Bar[Len(Bar)].env)]
  BY <1>1, <1>3, ValuesAre
<1>6. S!Call(x, f, es)
       <=> /\ Len(Bar) < MaxDepth
           /\ \A i \in DOMAIN es : S!HasValue(es[i], Bar[Len(Bar)].env)
           /\ Bar' = PutCall(Bar, x, S!Bound(f, [i \in DOMAIN es |->
                                                   S!ValueOf(es[i], Bar[Len(Bar)].env)]))
  BY DEF S!Call, S!Top, Bar, PutCall
<1> QED BY <1>2, <1>4, <1>5, <1>6

LEMMA CallNativeStep ==
  ASSUME IInv, NEW x \in Name, NEW f \in Fn, NEW es \in S!ArgLists(f), callNative(x, f, es)
  PROVE  IInv' /\ S!Call(x, f, es)
<1> DEFINE a == Frame(f, "native", Copied(f, Values(es)), NoVariables)
<1>1. /\ MayCall(x, f, es) /\ InScope(x) /\ Len(es) = Len(Params[f])
      /\ \A i \in DOMAIN es : Readable(es[i])
  BY DEF callNative, MayCall
<1>2. stack' = Calling(x, a) /\ variables' = variables
  BY DEF callNative, Values
<1>3. Values(es) \in Seq(Value) /\ Len(Values(es)) = Len(Params[f])
  BY <1>1, ValuesAre
<1>4. Fits(a, variables') /\ EnvOf(a, variables') = S!Bound(f, Values(es))
  BY <1>3, NativeFrame
<1>5. a.fn = f /\ a.engine = "native" /\ a.target = 0
  BY <1>3, CopiedIs, FrameIs, NoVariablesAre
<1> HIDE DEF a
<1>6. variables' \in Map
  BY <1>2 DEF IInv, WellFormed
<1>7. a.fn \in Fn /\ a.engine # "interpreter"
  BY <1>5
<1>8. IInv' /\ Bar' = PutCall(Bar, x, EnvOf(a, variables'))
  BY <1>1, <1>2, <1>4, <1>5, <1>6, <1>7, CallStep
<1> QED BY <1>1, <1>4, <1>8, CallIs

\* Both kinds of call of the interpreter: its arguments have these values.
LEMMA CallInterpreterStep ==
  ASSUME IInv, NEW x \in Name, NEW f \in Fn, NEW es \in S!ArgLists(f), MayCall(x, f, es),
         NEW ds \in Seq(S!Expr), ArgumentsKept(f, ds), DOMAIN ds = DOMAIN es,
         \A i \in DOMAIN es : evaluate(ds[i], variables) = Read(es[i]),
         variables' = SetUpParameters(f, ds),
         stack' = Calling(x, Frame(f, "interpreter", << >>, variables))
  PROVE  IInv' /\ S!Call(x, f, es)
<1> DEFINE a == Frame(f, "interpreter", << >>, variables)
           w == [i \in DOMAIN ds |-> evaluate(ds[i], variables)]
<1>1. InScope(x) /\ \A i \in DOMAIN es : Readable(es[i])
  BY DEF MayCall
<1>2. variables \in Map
  BY DEF IInv, WellFormed
<1>3. \A i \in DOMAIN ds : evaluate(ds[i], variables) \in Value
  BY <1>1, ValuesAre
<1>4. w = Values(es)
  BY DEF Values
<1>5. variables' \in Map /\ Fits(a, variables') /\ EnvOf(a, variables') = S!Bound(f, w)
  BY <1>2, <1>3, InterpretedFrame
<1>6. a.fn = f /\ a.engine = "interpreter" /\ a.target = 0 /\ a.savedVars = variables
  BY DEF Frame
<1>7. stack' = Calling(x, a)
  OBVIOUS
<1> HIDE DEF a, w
<1>8. a.fn \in Fn
  BY <1>6
<1>9. IInv' /\ Bar' = PutCall(Bar, x, EnvOf(a, variables'))
  BY <1>1, <1>5, <1>6, <1>7, <1>8, CallStep
<1> QED BY <1>4, <1>5, <1>9, CallIs

LEMMA CallFromNativeStep ==
  ASSUME IInv, NEW x \in Name, NEW f \in Fn, NEW es \in S!ArgLists(f), callFromNative(x, f, es)
  PROVE  IInv' /\ S!Call(x, f, es)
<1> DEFINE ds == [i \in DOMAIN es |-> [lit |-> Read(es[i])]]
<1>1. /\ MayCall(x, f, es) /\ \A i \in DOMAIN es : Readable(es[i])
      /\ variables' = SetUpParameters(f, ds)
      /\ stack' = Calling(x, Frame(f, "interpreter", << >>, variables))
  BY DEF callFromNative, MayCall
<1>2. Len(es) \in Nat /\ DOMAIN es = 1 .. Len(es)
  BY ArgsAre
<1>3. \A i \in DOMAIN es : Read(es[i]) \in Value
  BY <1>1, ValuesAre
<1>4. DOMAIN ds = DOMAIN es /\ \A i \in DOMAIN es : ds[i] = [lit |-> Read(es[i])]
  OBVIOUS
<1>5. ds \in [1 .. Len(es) -> S!Expr]
  BY <1>2, <1>3 DEF S!Expr
<1> HIDE DEF ds
<1>6. ds \in Seq(S!Expr)
  BY <1>2, <1>5
<1>7. \A i \in DOMAIN es : DOMAIN ds[i] = {"lit"} /\ ds[i].lit = Read(es[i])
  BY <1>4
<1>8. {"lit"} # {"var"}
  OBVIOUS
<1>9. ArgumentsKept(f, ds)
  <2>1. \A n : DOMAIN [var |-> n] = {"var"}
    OBVIOUS
  <2>2. \A i \in DOMAIN ds : \A n : ds[i] # [var |-> n]
    BY <1>4, <1>7, <1>8, <2>1
  <2> QED BY <2>2 DEF ArgumentsKept
<1>10. \A i \in DOMAIN es : evaluate(ds[i], variables) = Read(es[i])
  BY <1>7, <1>8 DEF evaluate, S!IsVar
<1> QED BY <1>1, <1>4, <1>6, <1>9, <1>10, CallInterpreterStep

LEMMA CallInterpretedStep ==
  ASSUME IInv, NEW x \in Name, NEW f \in Fn, NEW es \in S!ArgLists(f), callInterpreted(x, f, es)
  PROVE  IInv' /\ S!Call(x, f, es)
<1>1. /\ MayCall(x, f, es) /\ ~Native /\ ArgumentsKept(f, es)
      /\ \A i \in DOMAIN es : Readable(es[i])
      /\ variables' = SetUpParameters(f, es)
      /\ stack' = Calling(x, Frame(f, "interpreter", << >>, variables))
  BY DEF callInterpreted, MayCall
<1>2. es \in Seq(S!Expr)
  BY ArgsAre
<1>3. \A i \in DOMAIN es : evaluate(es[i], variables) = Read(es[i])
  BY <1>1, ValuesAre
<1> QED BY <1>1, <1>2, <1>3, CallInterpreterStep

LEMMA ReturnIs ==
  ASSUME NEW e, Len(Bar) > 1, S!HasValue(e, Bar[Len(Bar)].env),
         Bar' = PutReturn(Bar, Len(Bar) - 1, S!ValueOf(e, Bar[Len(Bar)].env))
  PROVE  S!Return(e)
<1>1. S!Return(e)
       <=> /\ Len(Bar) > 1
           /\ S!HasValue(e, Bar[Len(Bar)].env)
           /\ Bar' = PutReturn(Bar, Len(Bar) - 1, S!ValueOf(e, Bar[Len(Bar)].env))
  BY DEF S!Return, S!Top, S!Delivered, Bar, PutReturn
<1> QED BY <1>1

LEMMA ReturnStep ==
  ASSUME IInv, NEW e \in S!Expr, return(e)
  PROVE  IInv' /\ S!Return(e)
<1> DEFINE n == Len(stack)
           c == n - 1
           p == SubSeq(stack, 1, c)
           b == stack[c]
           t == b.target
           v == Read(e)
           s == StoredIn(b, t, v)
           r == IF Native THEN variables ELSE Top.savedVars
           F == FramesOf(stack, variables)
           G == FramesOf(stack', variables')
<1>1. /\ n \in Nat /\ n > 1 /\ Top = stack[n] /\ Top \in Activation
      /\ stack \in Seq(Activation) /\ variables \in Map
  BY TopIs DEF IInv, WellFormed, return
<1>2. /\ c \in Nat /\ c > 0 /\ c \in 1 .. c /\ c \in 1 .. n - 1 /\ c \in 1 .. n /\ c < n
      /\ n = c + 1 /\ c = Caller /\ Len(stack) = c + 1
  BY <1>1 DEF Caller
<1>3. /\ v \in Value /\ S!HasValue(e, EnvOf(Top, variables))
      /\ v = S!ValueOf(e, EnvOf(Top, variables))
  BY ReadIs DEF return
<1>4. /\ stack' = [SubSeq(stack, 1, Caller) EXCEPT ![Caller] =
                      Stored(Caller, stack[Caller].target, Read(e))]
      /\ variables' = IF stack[Caller].engine = "native" THEN r
                      ELSE [r EXCEPT ![stack[Caller].target] = v]
  BY DEF return, RestoredVariables
<1>5. /\ stack' = [p EXCEPT ![c] = s]
      /\ variables' = IF b.engine = "native" THEN r ELSE [r EXCEPT ![t] = v]
  BY <1>2, <1>4, StoredIs
<1> HIDE DEF v, r
<1>6. /\ b \in Activation /\ t \in Name /\ May(b, t)
      /\ Fits(b, VariablesIn(stack, variables, c))
      /\ b.fn = "main" <=> c = 1
  <2>1. b \in Activation
    BY <1>1, <1>2
  <2>2. t \in Name /\ May(b, t)
    BY <1>2 DEF IInv, WellFormed
  <2>3. Fits(b, VariablesIn(stack, variables, c))
    BY <1>2 DEF IInv, WellFormed
  <2>4. b.fn = "main" <=> c = 1
    BY <1>2 DEF IInv, WellFormed
  <2> QED BY <2>1, <2>2, <2>3, <2>4
<1>7. /\ s.fn = b.fn /\ s.engine = b.engine /\ s.savedVars = b.savedVars
      /\ s.target = 0 /\ s \in Activation
  <2>1. b \in Activation /\ t \in Name /\ v \in Value
    BY <1>3, <1>6
  <2> HIDE DEF b, t
  <2> QED BY ONLY <2>1, StoredFields
<1>8. /\ p \in Seq(Activation) /\ Len(p) = c
      /\ \A k \in 1 .. c : p[k] = stack[k]
  <2> HIDE DEF n, c
  <2> QED BY <1>1, <1>2
<1> HIDE DEF s, p, c, n
<1>9. /\ stack' \in Seq(Activation) /\ Len(stack') = c /\ stack'[c] = s
      /\ \A k \in 1 .. c - 1 : stack'[k] = stack[k]
  <2>1. /\ stack' \in Seq(Activation) /\ Len(stack') = c
        /\ \A k \in 1 .. c : stack'[k] = IF k = c THEN s ELSE p[k]
    BY <1>2, <1>5, <1>7, <1>8, ExceptSeq
  <2> QED BY <1>2, <1>8, <2>1
<1>10. r \in Map /\ variables' \in Map
  <2>1. Top.savedVars \in Map
    BY <1>1 DEF Activation
  <2>2. r \in Map
    BY <1>1, <2>1 DEF r
  <2>3. [r EXCEPT ![t] = v] \in Map
    BY <1>3, <2>2 DEF Map
  <2> QED BY <1>5, <2>2, <2>3
<1> HIDE DEF t
<1>11. ASSUME NEW k \in 1 .. c
       PROVE  VariablesIn(stack, variables, k) = VariablesIn(p, r, k)
  <2>1. Alike(p, stack, c)
    BY <1>8 DEF Alike
  <2>2. Len(p) \in Nat /\ Len(stack) = Len(p) + 1 /\ Alike(p, stack, Len(p)) /\ k \in 1 .. Len(p)
    BY <1>2, <1>8, <2>1
  <2>3. /\ stack[Len(stack)].engine = "interpreter"
             => VariablesIn(stack, variables, k) = VariablesIn(p, stack[Len(stack)].savedVars, k)
        /\ stack[Len(stack)].engine # "interpreter"
             => VariablesIn(stack, variables, k) = VariablesIn(p, variables, k)
    BY <2>2, PushedVariables
  <2>4. Top = stack[Len(stack)]
    BY DEF Top
  <2> QED BY <1>1, <2>3, <2>4 DEF r, Native, Activation
<1>12. ASSUME NEW k \in 1 .. c - 1
       PROVE  VariablesIn(stack', variables', k) = VariablesIn(stack, variables, k)
  <2>0. k \in 1 .. c /\ k \in 1 .. Len(p) - 1 /\ k \in 1 .. Len(p) /\ Len(p) \in Nat
    BY <1>2, <1>8
  <2>1. Alike(p, stack', Len(p))
    <3> SUFFICES ASSUME NEW j \in 1 .. c
                 PROVE  stack'[j].engine = p[j].engine /\ stack'[j].savedVars = p[j].savedVars
      BY <1>8 DEF Alike
    <3>1. CASE j = c
      BY <3>1, <1>2, <1>7, <1>8, <1>9
    <3>2. CASE j # c
      <4>1. stack'[j] = stack[j] /\ p[j] = stack[j]
        BY <3>2, <1>2, <1>8, <1>9
      <4> QED BY <4>1
    <3> QED BY <3>1, <3>2
  <2>2. VariablesIn(stack', variables', k) = VariablesIn(p, variables', k)
    BY <2>0, <2>1, <1>8, <1>9, TouchedVariables
  <2>3. CASE b.engine = "native"
    BY <2>0, <2>2, <2>3, <1>5, <1>11
  <2>4. CASE b.engine # "native"
    <3>1. p[Len(p)].engine = "interpreter"
      BY <2>4, <1>2, <1>6, <1>8 DEF Activation
    <3>2. VariablesIn(p, variables', k) = VariablesIn(p, r, k)
      BY <2>0, <3>1, CoveredVariables
    <3> QED BY <2>0, <2>2, <3>2, <1>11
  <2> QED BY <2>3, <2>4
<1>13. VariablesIn(stack, variables, c) = r
  BY <1>2, <1>8, <1>11, InnermostVariables
<1>14. VariablesIn(stack', variables', c) = variables'
  BY <1>2, <1>9, InnermostVariables
<1>15. Fits(s, variables') /\ EnvOf(s, variables') = [EnvOf(b, r) EXCEPT ![t] = v]
  <2>1. b.engine = "interpreter" => variables' = [r EXCEPT ![t] = v]
    BY <1>5
  <2>2. Fits(b, r)
    BY <1>6, <1>13
  <2> HIDE DEF b
  <2> QED BY <1>3, <1>6, <1>10, <2>1, <2>2, EnvStored DEF s
<1>16. IInv'
  <2>1. ASSUME NEW k \in 1 .. c
        PROVE  /\ Fits(stack'[k], VariablesIn(stack', variables', k))
               /\ stack'[k].fn = "main" <=> k = 1
               /\ k < c => stack'[k].target \in Name /\ May(stack'[k], stack'[k].target)
               /\ k = c => stack'[k].target = 0
    <3>1. CASE k = c
      BY <3>1, <1>2, <1>6, <1>7, <1>9, <1>14, <1>15
    <3>2. CASE k < c
      <4>1. k \in 1 .. c - 1 /\ k # c /\ k < Len(stack) /\ k \in 1 .. Len(stack)
        BY <3>2, <1>2
      <4>2. stack'[k] = stack[k]
            /\ VariablesIn(stack', variables', k) = VariablesIn(stack, variables, k)
        BY <4>1, <1>9, <1>12
      <4>3. /\ Fits(stack[k], VariablesIn(stack, variables, k))
            /\ stack[k].fn = "main" <=> k = 1
            /\ stack[k].target \in Name /\ May(stack[k], stack[k].target)
        BY <4>1 DEF IInv, WellFormed
      <4> QED BY <4>1, <4>2, <4>3
    <3> QED BY <3>1, <3>2, <1>2
  <2>2. stack' # << >>
    BY <1>2, <1>9
  <2> QED BY <2>1, <2>2, <1>9, <1>10 DEF IInv, WellFormed
<1>17. /\ F \in Seq(FrameRecord) /\ Len(F) = c + 1 /\ F # << >>
       /\ \A k \in 1 .. c + 1 :
            /\ F[k].env = EnvOf(stack[k], VariablesIn(stack, variables, k))
            /\ F[k].target = stack[k].target
            /\ F[k] = FrameOf(stack, variables, k)
  BY <1>2, FramesAre DEF IInv
<1>18. /\ G \in Seq(FrameRecord) /\ Len(G) = c /\ G # << >>
       /\ \A k \in 1 .. c : /\ G[k].env = EnvOf(stack'[k], VariablesIn(stack', variables', k))
                            /\ G[k].target = stack'[k].target
                            /\ G[k] = FrameOf(stack', variables', k)
  BY <1>9, <1>16, FramesAre DEF IInv
<1> HIDE DEF F, G
<1>19. G = PutReturn(F, c, v)
  <2>1. ASSUME NEW k \in 1 .. c - 1 PROVE G[k] = F[k]
    <3>1. k \in 1 .. c /\ k \in 1 .. c + 1 /\ stack'[k] = stack[k]
      BY <1>2, <1>9
    <3>2. G[k] = FrameOf(stack', variables', k) /\ F[k] = FrameOf(stack, variables, k)
      BY <3>1, <1>17, <1>18
    <3> QED BY <3>1, <3>2, <1>12 DEF FrameOf
  <2>2. F[c].env = EnvOf(b, r) /\ F[c].target = t
    BY <1>2, <1>13, <1>17 DEF t
  <2>3. G[c].env = [F[c].env EXCEPT ![F[c].target] = v]
    BY <1>2, <1>9, <1>14, <1>15, <1>18, <2>2
  <2>4. G[c].target = 0
    BY <1>2, <1>7, <1>9, <1>18
  <2>5. /\ F \in Seq(FrameRecord) /\ G \in Seq(FrameRecord) /\ G # << >>
        /\ Len(F) = Len(G) + 1
        /\ \A k \in 1 .. Len(G) - 1 : G[k] = F[k]
        /\ G[Len(G)].env = [F[Len(G)].env EXCEPT ![F[Len(G)].target] = v]
        /\ G[Len(G)].target = 0
    BY <2>1, <2>3, <2>4, <1>17, <1>18
  <2>6. G = PutReturn(F, Len(G), v)
    BY ONLY <2>5, ReturnedFrames
  <2> QED BY <2>6, <1>18
<1>20. Bar = F /\ Bar' = G
  BY <1>16, BarIs DEF F, G
<1>21. Len(Bar) = c + 1 /\ Bar[Len(Bar)].env = EnvOf(Top, variables)
  BY <1>2, TopIs
<1>22. Bar' = PutReturn(Bar, Len(Bar) - 1, S!ValueOf(e, Bar[Len(Bar)].env))
  <2>1. Len(Bar) - 1 = c
    BY <1>2, <1>21
  <2> QED BY <2>1, <1>3, <1>19, <1>20, <1>21
<1>23. Len(Bar) > 1
  BY <1>2, <1>21
<1>24. S!Return(e)
  BY <1>3, <1>21, <1>22, <1>23, ReturnIs
<1> QED BY <1>16, <1>24

LEMMA InitStep == Init => IInv /\ S!Init
<1> SUFFICES ASSUME Init PROVE IInv /\ S!Init
  OBVIOUS
<1>1. variables = NoVariables /\ stack = << Main >> /\ variables \in Map
  BY NoVariablesAre DEF Init
<1>2. /\ Main \in Activation /\ Main.fn = "main" /\ Main.engine = "interpreter"
      /\ Main.own = {} /\ Main.target = 0
  <2>1. << >> \in Seq(Value)
    OBVIOUS
  <2> QED BY <2>1, NoVariablesAre DEF Main, Activation
<1>3. Fits(Main, variables)
  BY <1>2 DEF Fits
<1> HIDE DEF Main
<1>4. stack \in Seq(Activation) /\ Len(stack) = 1 /\ stack # << >> /\ stack[1] = Main
  BY <1>1, <1>2
<1>5. VariablesIn(stack, variables, 1) = variables
  BY <1>4, InnermostVariables
<1>6. IInv
  BY <1>1, <1>2, <1>3, <1>4, <1>5 DEF IInv, WellFormed
<1>7. EnvOf(Main, variables) = [n \in Name |-> Unset]
  BY <1>2 DEF EnvOf
<1>8. Bar = << [env |-> [n \in Name |-> Unset], target |-> 0] >>
  <2> DEFINE z == [env |-> [n \in Name |-> Unset], target |-> 0]
  <2>1. FrameOf(stack, variables, 1) = z
    BY <1>2, <1>4, <1>5, <1>7 DEF FrameOf
  <2> HIDE DEF z
  <2>2. Bar = [k \in 1 .. 1 |-> FrameOf(stack, variables, k)]
    BY <1>4, <1>6, BarIs DEF FramesOf
  <2>3. \A k \in 1 .. 1 : FrameOf(stack, variables, k) = z
    BY <2>1
  <2>4. Bar = [k \in 1 .. 1 |-> z]
    BY <2>2, <2>3
  <2>5. Bar = << z >>
    BY <2>4
  <2> QED BY <2>5 DEF z
<1>9. S!Init <=> Bar = << [env |-> [n \in Name |-> Unset], target |-> 0] >>
  BY DEF S!Init, Bar
<1> QED BY <1>6, <1>8, <1>9

LEMMA NextStep ==
  ASSUME IInv, Next
  PROVE  IInv' /\ S!Next
<1>1. ASSUME NEW e \in S!Expr, return(e)
      PROVE  IInv' /\ S!Next
  BY <1>1, ReturnStep DEF S!Next
<1>2. ASSUME NEW e \in S!Expr, NEW x \in Name, assign(x, e)
      PROVE  IInv' /\ S!Next
  BY <1>2, AssignStep DEF S!Next
<1>3. ASSUME NEW x \in Name, NEW f \in Fn, NEW es \in S!ArgLists(f),
             callNative(x, f, es) \/ callFromNative(x, f, es) \/ callInterpreted(x, f, es)
      PROVE  IInv' /\ S!Next
  <2>1. IInv' /\ S!Call(x, f, es)
    BY <1>3, CallNativeStep, CallFromNativeStep, CallInterpretedStep
  <2> QED BY <2>1 DEF S!Next
<1> QED BY <1>1, <1>2, <1>3 DEF Next

LEMMA StutterStep ==
  ASSUME IInv, UNCHANGED vars
  PROVE  IInv' /\ Bar' = Bar
<1>1. variables' = variables /\ stack' = stack
  BY DEF vars
<1>2. IInv'
  BY <1>1 DEF IInv
<1> QED BY <1>1, <1>2, BarIs

LEMMA Invariance == Spec => []IInv
<1>1. IInv /\ [Next]_vars => IInv'
  BY NextStep, StutterStep
<1> QED BY <1>1, InitStep, PTL DEF Spec

LEMMA TypesFollow ==
  ASSUME IInv
  PROVE  TypeOK
<1>1. /\ variables \in Map /\ Len(stack) \in Nat /\ DOMAIN stack = 1 .. Len(stack)
      /\ stack \in Seq(Activation)
  BY DEF IInv, WellFormed
<1>2. ASSUME NEW k \in 1 .. Len(stack)
      PROVE  /\ stack[k].savedVars \in Map
             /\ stack[k].own \subseteq Name
             /\ k = 1 <=> stack[k].fn = "main"
             /\ k > 1 => /\ stack[k].own \subseteq ParamNames(stack[k].fn)
                                                     \cup Mentions[stack[k].fn]
                         /\ stack[k].engine = "native"
                              => /\ stack[k].slots \in Seq(Value)
                                 /\ Len(stack[k].slots) = localVarCount(stack[k].fn)
             /\ k < Len(stack) => stack[k].target \in Name
  <2>1. stack[k] \in Activation
    BY <1>1
  <2>2. /\ Fits(stack[k], VariablesIn(stack, variables, k))
        /\ stack[k].fn = "main" <=> k = 1
        /\ k < Len(stack) => stack[k].target \in Name
    BY DEF IInv, WellFormed
  <2>3. /\ stack[k].savedVars \in Map /\ stack[k].own \subseteq Name
        /\ stack[k].slots \in Seq(Value)
    BY <2>1 DEF Activation
  <2>4. k > 1 => stack[k].fn # "main"
    BY <2>2
  <2> QED BY <2>2, <2>3, <2>4 DEF Fits, Uses
<1> QED BY <1>1, <1>2 DEF TypeOK

-------------------------------------------------------------------------------
\* Every value is of its type, however often functions call one another: the variables
\* map, the maps that calls have saved, the slots, of which a compiled function has one
\* for each of its names (collectLocals), and the names it has assigned.
THEOREM TypeCorrect == Spec => []TypeOK
BY Invariance, TypesFollow, PTL

\* Any number of functions with any names in common, compiled or not, calling one
\* another to any depth: each activation has variables of its own.  The interpreter's
\* one map, saved by a call and restored by its return (evaluateFunctionCall), and the
\* slots of compiled functions (compileFunction) are enough for it.
THEOREM Implements == Spec => ImplementsScopes
<1>1. Init => S!Init
  BY InitStep
<1>2. IInv /\ [Next]_vars => [S!Next]_Bar
  BY NextStep, StutterStep
<1> QED BY <1>1, <1>2, Invariance, PTL DEF Spec, ImplementsScopes, S!Spec, Bar
===============================================================================
