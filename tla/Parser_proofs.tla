----------------------------- MODULE Parser_proofs -----------------------------
(***************************************************************************)
(* Machine-checked proofs about Parser: for files of any length and any    *)
(* tokens, a symbol is on the stack only where a rule has it, the text of  *)
(* each token is freed exactly once, and operators bind as the levels say. *)
(***************************************************************************)
EXTENDS Parser, FiniteSetTheorems, WellFoundedInduction, TLAPS

-------------------------------------------------------------------------------
(* What the stack ends with. *)

Sym(k) == stack[k].sym
At(k)  == stack[k].node.at
Last   == Len(stack)

LEMMA Ends1 ==
  ASSUME NEW A, Last \in Nat
  PROVE  Ends(<< A >>) <=> Last >= 1 /\ Sym(Last) \in A
BY DEF Ends, Sym, Last

LEMMA Ends2 ==
  ASSUME NEW A, NEW B, Last \in Nat
  PROVE  Ends(<< A, B >>) <=> Last >= 2 /\ Sym(Last - 1) \in A /\ Sym(Last) \in B
BY DEF Ends, Sym, Last

LEMMA Ends3 ==
  ASSUME NEW A, NEW B, NEW C, Last \in Nat
  PROVE  Ends(<< A, B, C >>) <=>
           Last >= 3 /\ Sym(Last - 2) \in A /\ Sym(Last - 1) \in B /\ Sym(Last) \in C
BY DEF Ends, Sym, Last

LEMMA Ends4 ==
  ASSUME NEW A, NEW B, NEW C, NEW D, Last \in Nat
  PROVE  Ends(<< A, B, C, D >>) <=>
           /\ Last >= 4 /\ Sym(Last - 3) \in A /\ Sym(Last - 2) \in B
           /\ Sym(Last - 1) \in C /\ Sym(Last) \in D
BY DEF Ends, Sym, Last

LEMMA Ends5 ==
  ASSUME NEW A, NEW B, NEW C, NEW D, NEW E, Last \in Nat
  PROVE  Ends(<< A, B, C, D, E >>) <=>
           /\ Last >= 5 /\ Sym(Last - 4) \in A /\ Sym(Last - 3) \in B /\ Sym(Last - 2) \in C
           /\ Sym(Last - 1) \in D /\ Sym(Last) \in E
BY DEF Ends, Sym, Last

LEMMA Ends7 ==
  ASSUME NEW A, NEW B, NEW C, NEW D, NEW E, NEW F, NEW G, Last \in Nat
  PROVE  Ends(<< A, B, C, D, E, F, G >>) <=>
           /\ Last >= 7 /\ Sym(Last - 6) \in A /\ Sym(Last - 5) \in B /\ Sym(Last - 4) \in C
           /\ Sym(Last - 3) \in D /\ Sym(Last - 2) \in E /\ Sym(Last - 1) \in F /\ Sym(Last) \in G
<1> DEFINE p == << A, B, C, D, E, F, G >>
<1>1. /\ Len(p) = 7 /\ DOMAIN p = 1 .. 7
      /\ p[1] = A /\ p[2] = B /\ p[3] = C /\ p[4] = D /\ p[5] = E /\ p[6] = F /\ p[7] = G
  OBVIOUS
<1> HIDE DEF p
<1>2. Ends(p) <=> Last >= 7 /\ \A i \in 1 .. 7 : Sym(Last - 7 + i) \in p[i]
  BY <1>1 DEF Ends, Sym, Last
<1>3. (\A i \in 1 .. 7 : Sym(Last - 7 + i) \in p[i])
        <=> \A j \in 0 .. 6 : Sym(Last - j) \in p[7 - j]
  <2>1. \A j \in 0 .. 6 : 7 - j \in 1 .. 7 /\ Last - 7 + (7 - j) = Last - j
    OBVIOUS
  <2>2. \A i \in 1 .. 7 : 7 - i \in 0 .. 6 /\ Last - (7 - i) = Last - 7 + i /\ 7 - (7 - i) = i
    OBVIOUS
  <2> HIDE DEF Sym, Last
  <2> QED BY ONLY <2>1, <2>2
<1>4. Last - 0 = Last
  OBVIOUS
<1>5. (\A j \in 0 .. 6 : Sym(Last - j) \in p[7 - j]) <=>
        /\ Sym(Last - 6) \in A /\ Sym(Last - 5) \in B /\ Sym(Last - 4) \in C
        /\ Sym(Last - 3) \in D /\ Sym(Last - 2) \in E /\ Sym(Last - 1) \in F
        /\ Sym(Last) \in G
  <2>1. /\ 0 .. 6 = {0, 1, 2, 3, 4, 5, 6}
        /\ 7 - 0 = 7 /\ 7 - 1 = 6 /\ 7 - 2 = 5 /\ 7 - 3 = 4 /\ 7 - 4 = 3 /\ 7 - 5 = 2 /\ 7 - 6 = 1
    OBVIOUS
  <2> HIDE DEF Sym, Last
  <2> QED BY ONLY <1>1, <1>4, <2>1
<1> HIDE DEF Sym, Last
<1> QED BY ONLY <1>2, <1>3, <1>5 DEF p

LEMMA Ends8 ==
  ASSUME NEW A, NEW B, NEW C, NEW D, NEW E, NEW F, NEW G, NEW H, Last \in Nat
  PROVE  Ends(<< A, B, C, D, E, F, G, H >>) <=>
           /\ Last >= 8 /\ Sym(Last - 7) \in A /\ Sym(Last - 6) \in B /\ Sym(Last - 5) \in C
           /\ Sym(Last - 4) \in D /\ Sym(Last - 3) \in E /\ Sym(Last - 2) \in F
           /\ Sym(Last - 1) \in G /\ Sym(Last) \in H
<1> DEFINE p == << A, B, C, D, E, F, G, H >>
<1>1. /\ Len(p) = 8 /\ DOMAIN p = 1 .. 8
      /\ p[1] = A /\ p[2] = B /\ p[3] = C /\ p[4] = D /\ p[5] = E /\ p[6] = F /\ p[7] = G
      /\ p[8] = H
  OBVIOUS
<1> HIDE DEF p
<1>2. Ends(p) <=> Last >= 8 /\ \A i \in 1 .. 8 : Sym(Last - 8 + i) \in p[i]
  BY <1>1 DEF Ends, Sym, Last
<1>3. (\A i \in 1 .. 8 : Sym(Last - 8 + i) \in p[i])
        <=> \A j \in 0 .. 7 : Sym(Last - j) \in p[8 - j]
  <2>1. \A j \in 0 .. 7 : 8 - j \in 1 .. 8 /\ Last - 8 + (8 - j) = Last - j
    OBVIOUS
  <2>2. \A i \in 1 .. 8 : 8 - i \in 0 .. 7 /\ Last - (8 - i) = Last - 8 + i /\ 8 - (8 - i) = i
    OBVIOUS
  <2> HIDE DEF Sym, Last
  <2> QED BY ONLY <2>1, <2>2
<1>4. Last - 0 = Last
  OBVIOUS
<1>5. (\A j \in 0 .. 7 : Sym(Last - j) \in p[8 - j]) <=>
        /\ Sym(Last - 7) \in A /\ Sym(Last - 6) \in B /\ Sym(Last - 5) \in C
        /\ Sym(Last - 4) \in D /\ Sym(Last - 3) \in E /\ Sym(Last - 2) \in F
        /\ Sym(Last - 1) \in G /\ Sym(Last) \in H
  <2>1. /\ 0 .. 7 = {0, 1, 2, 3, 4, 5, 6, 7}
        /\ 8 - 0 = 8 /\ 8 - 1 = 7 /\ 8 - 2 = 6 /\ 8 - 3 = 5 /\ 8 - 4 = 4 /\ 8 - 5 = 3 /\ 8 - 6 = 2
        /\ 8 - 7 = 1
    OBVIOUS
  <2> HIDE DEF Sym, Last
  <2> QED BY ONLY <1>1, <1>4, <2>1
<1> HIDE DEF Sym, Last
<1> QED BY ONLY <1>2, <1>3, <1>5 DEF p

-------------------------------------------------------------------------------
(* What a shift or a rule makes of the stack. *)

IsStack(s) == s \in Seq(Range(s))

LEMMA StackIs ==
  ASSUME NEW s, IsStack(s)
  PROVE  Len(s) \in Nat /\ DOMAIN s = 1 .. Len(s)
BY DEF IsStack

LEMMA Replaced ==
  ASSUME NEW s, IsStack(s), NEW n \in 0 .. Len(s), NEW e
  PROVE  LET t == Append(SubSeq(s, 1, Len(s) - n), e)
         IN /\ IsStack(t) /\ Len(t) = Len(s) - n + 1 /\ t[Len(s) - n + 1] = e
            /\ \A k \in 1 .. Len(s) - n : t[k] = s[k]
<1> DEFINE u == SubSeq(s, 1, Len(s) - n)
           t == Append(u, e)
           S == Range(s) \cup {e}
<1>1. Len(s) \in Nat /\ s \in Seq(S) /\ e \in S
  <2>1. \A k \in 1 .. Len(s) : s[k] \in S
    BY DEF IsStack
  <2> QED BY <2>1 DEF IsStack
<1>2. u \in Seq(S) /\ Len(u) = Len(s) - n /\ \A k \in 1 .. Len(s) - n : u[k] = s[k]
  BY <1>1
<1>3. t \in Seq(S) /\ Len(t) = Len(s) - n + 1 /\ t[Len(s) - n + 1] = e
      /\ \A k \in 1 .. Len(s) - n : t[k] = s[k]
  <2> HIDE DEF u, S
  <2> QED BY <1>1, <1>2
<1>4. IsStack(t)
  <2> HIDE DEF t, S
  <2>1. DOMAIN t = 1 .. Len(t) /\ Len(t) \in Nat
    BY <1>3
  <2>2. t = [k \in 1 .. Len(t) |-> t[k]]
    BY <1>3
  <2>3. \A k \in 1 .. Len(t) : t[k] \in Range(t)
    BY <2>1 DEF Range
  <2> QED BY <2>1, <2>2, <2>3 DEF IsStack
<1> QED BY <1>3, <1>4

LEMMA Pushed ==
  ASSUME NEW s, IsStack(s), NEW e
  PROVE  LET t == Append(s, e)
         IN /\ IsStack(t) /\ Len(t) = Len(s) + 1 /\ t[Len(s) + 1] = e
            /\ \A k \in 1 .. Len(s) : t[k] = s[k]
<1>1. Append(SubSeq(s, 1, Len(s) - 0), e) = Append(s, e) /\ Len(s) \in Nat
  <2>1. SubSeq(s, 1, Len(s)) = s /\ Len(s) \in Nat
    BY DEF IsStack
  <2> QED BY <2>1
<1>2. 0 \in 0 .. Len(s)
  BY <1>1
<1>3. LET t == Append(SubSeq(s, 1, Len(s) - 0), e)
      IN /\ IsStack(t) /\ Len(t) = Len(s) - 0 + 1 /\ t[Len(s) - 0 + 1] = e
         /\ \A k \in 1 .. Len(s) - 0 : t[k] = s[k]
  BY ONLY <1>2, IsStack(s), Replaced
<1>4. Len(s) - 0 = Len(s)
  BY <1>1
<1> QED BY <1>1, <1>3, <1>4

-------------------------------------------------------------------------------
(***************************************************************************)
(* Where a symbol may stand: x on the first m symbols of a stack.  Besides *)
(* which symbols follow which, a call's name is not being declared, a      *)
(* parameter list holds no arguments, and what ends a parenthesized        *)
(* expression is not the parenthesis of a call.                            *)
(***************************************************************************)
Follows(p, x) ==
  /\ x \in {"local", "function", "print", "return", "if", "while", "statement", "else", "end"}
       => p = "list"
  /\ x \in {"expr", "literal", "not"} => p \in BeforeOperand
  /\ x = "-" => p \in BeforeOperand \cup {"expr"}
  /\ x \in (Binary \ {"-"}) \cup {"then", "do"} => p = "expr"
  /\ x = "name" => p \in BeforeOperand \cup {"list", "local", "function", ":"}
  /\ x = "(" => p \in BeforeOperand \cup {"print", "name"}
  /\ x \in {"params", "args", "none"} => p = "("
  /\ x = ")" => p \in {"args", "params", "none", "expr"}
  /\ x = "," => p \in {"args", "params"}
  /\ x \in {":", "type"} => p \in {"name", ")"}
  /\ x = "=" => p \in {"name", "type"}
  /\ x = "list" => p \in {"then", "else", "do", "type"}
  /\ x \notin {"program", "elseif", "$end"}

InHeader(s, m) ==
  m >= 3 /\ s[m].sym = "(" /\ s[m - 1].sym = "name" /\ s[m - 2].sym = "function"

Stands(s, m, x) ==
  /\ Follows(s[m].sym, x)
  /\ m >= 2 /\ x = "(" /\ s[m].sym = "name" => s[m - 1].sym \notin {"local", ":"}
  /\ InHeader(s, m) => x \in {"name", "params", "none"}
  /\ m >= 4 /\ s[m].sym = "name" /\ InHeader(s, m - 1) => x \in {":", "type"}
  /\ m >= 3 /\ x = ")" /\ s[m].sym = "expr" => s[m - 2].sym \notin {"name", "print"}

Viable(s) ==
  /\ Len(s) >= 1 /\ s[1].sym \in {"list", "program"}
  /\ s[1].sym = "program" => Len(s) = 1
  /\ \A k \in 2 .. Len(s) : Stands(s, k - 1, s[k].sym)

\* A symbol put where it may stand leaves a viable stack.
LEMMA ViableStep ==
  ASSUME NEW s, IsStack(s), Viable(s), s[1].sym = "list",
         NEW m \in 1 .. Len(s), NEW x, Stands(s, m, x),
         NEW t, IsStack(t), Len(t) = m + 1, t[m + 1].sym = x, \A k \in 1 .. m : t[k] = s[k]
  PROVE  Viable(t)
<1>1. Len(s) \in Nat /\ m \in 1 .. Len(s)
  BY StackIs
<1>2. t[1] = s[1] /\ Len(t) >= 1 /\ t[1].sym = "list"
  BY <1>1
<1>3. ASSUME NEW j \in 1 .. m, NEW y, Stands(s, j, y)
      PROVE  Stands(t, j, y)
  <2>1. /\ t[j] = s[j]
        /\ j >= 2 => t[j - 1] = s[j - 1]
        /\ j >= 3 => t[j - 2] = s[j - 2]
        /\ j >= 4 => t[j - 3] = s[j - 3]
    BY <1>1
  <2>2. j \in Int /\ (j - 1) - 1 = j - 2 /\ (j - 1) - 2 = j - 3 /\ (j - 1 >= 3 <=> j >= 4)
        /\ (j >= 4 => j >= 3 /\ j >= 2)
    BY <1>1
  <2>3. InHeader(t, j) <=> InHeader(s, j)
    BY ONLY <2>1, <2>2 DEF InHeader
  <2>4. j >= 4 => (InHeader(t, j - 1) <=> InHeader(s, j - 1))
    BY ONLY <2>1, <2>2 DEF InHeader
  <2> HIDE DEF InHeader
  <2> QED BY ONLY <1>3, <2>1, <2>2, <2>3, <2>4 DEF Stands
<1>4. ASSUME NEW k \in 2 .. Len(t)
      PROVE  Stands(t, k - 1, t[k].sym)
  <2>1. CASE k = m + 1
    BY <1>3, <2>1
  <2>2. CASE k # m + 1
    <3>1. k \in 2 .. Len(s) /\ k \in 1 .. m /\ k - 1 \in 1 .. m /\ t[k] = s[k]
      BY <1>1, <2>2
    <3>2. Stands(s, k - 1, s[k].sym)
      BY <3>1 DEF Viable
    <3> QED BY <1>3, <3>1, <3>2
  <2> QED BY <2>1, <2>2
<1> QED BY <1>2, <1>4 DEF Viable

-------------------------------------------------------------------------------
(* A shift puts a token where it may stand. *)

LEMMA InParamsIs ==
  ASSUME Last \in Nat
  PROVE  InParams <=> \/ InHeader(stack, Last)
                      \/ Last >= 2 /\ Sym(Last - 1) = "params" /\ Sym(Last) = ","
<1>1. Ends(<< {"function"}, {"name"}, {"("} >>)
        <=> /\ Last >= 3 /\ Sym(Last - 2) \in {"function"} /\ Sym(Last - 1) \in {"name"}
            /\ Sym(Last) \in {"("}
  BY Ends3
<1>2. Ends(<< {"params"}, {","} >>)
        <=> Last >= 2 /\ Sym(Last - 1) \in {"params"} /\ Sym(Last) \in {","}
  BY Ends2
<1> QED BY <1>1, <1>2 DEF InParams, InHeader, Sym

LEMMA ParameterIs ==
  ASSUME Last \in Nat
  PROVE  Parameter <=>
           \/ Last >= 4 /\ InHeader(stack, Last - 1) /\ Sym(Last) = "name"
           \/ Last >= 3 /\ Sym(Last - 2) = "params" /\ Sym(Last - 1) = "," /\ Sym(Last) = "name"
<1>1. Ends(<< {"function"}, {"name"}, {"("}, {"name"} >>)
        <=> Last >= 4 /\ InHeader(stack, Last - 1) /\ Sym(Last) = "name"
  <2>1. Last >= 4 => (Last - 1 >= 3 /\ (Last - 1) - 1 = Last - 2 /\ (Last - 1) - 2 = Last - 3)
    OBVIOUS
  <2> QED BY <2>1, Ends4 DEF InHeader, Sym
<1>2. Ends(<< {"params"}, {","}, {"name"} >>)
        <=> Last >= 3 /\ Sym(Last - 2) = "params" /\ Sym(Last - 1) = "," /\ Sym(Last) = "name"
  <2>1. Ends(<< {"params"}, {","}, {"name"} >>)
          <=> /\ Last >= 3 /\ Sym(Last - 2) \in {"params"} /\ Sym(Last - 1) \in {","}
              /\ Sym(Last) \in {"name"}
    BY Ends3
  <2> QED BY <2>1
<1> QED BY <1>1, <1>2 DEF Parameter

LEMMA HeaderIs ==
  ASSUME Last \in Nat
  PROVE  Header <=> /\ Last >= 5 /\ Sym(Last - 4) = "function" /\ Sym(Last - 3) = "name"
                    /\ Sym(Last - 2) = "(" /\ Sym(Last - 1) \in {"params", "none"}
                    /\ Sym(Last) = ")"
BY Ends5 DEF Header

LEMMA AnnotatableIs ==
  ASSUME Last \in Nat
  PROVE  Annotatable <=> \/ Last >= 2 /\ Sym(Last - 1) = "local" /\ Sym(Last) = "name"
                         \/ Parameter \/ Header
BY Ends2 DEF Annotatable

LEMMA ShiftStands ==
  ASSUME Last \in Nat \ {0}, NEW t \in Token, Shiftable(t)
  PROVE  Stands(stack, Last, t)
<1> DEFINE p == Sym(Last)
<1>p. p = stack[Last].sym
  BY DEF Sym
<1>0. Last \in Nat /\ Last >= 1
  OBVIOUS
<1>1. CASE t \in Operand /\ AtOperand
  <2>1. p \in BeforeOperand /\ ~InHeader(stack, Last)
    BY <1>0, <1>1, Ends1, InParamsIs DEF AtOperand
  <2>2. Follows(p, t)
    BY <1>1, <2>1 DEF Follows, Operand, Binary
  <2> QED BY <1>p, <1>1, <2>1, <2>2 DEF Stands, Operand, BeforeOperand, Binary
<1>2. CASE t \in Starts /\ Ends(<< {"list"} >>)
  <2>1. p = "list"
    BY <1>0, <1>2, Ends1
  <2>2. Follows(p, t)
    BY <1>2, <2>1 DEF Follows, Starts, Binary
  <2> QED BY <1>p, <1>2, <2>1, <2>2 DEF Stands, InHeader
<1>3. CASE t \in Binary /\ Ends(<< {"expr"} >>)
  <2>1. p = "expr"
    BY <1>0, <1>3, Ends1
  <2>2. Follows(p, t)
    BY <1>3, <2>1 DEF Follows, Binary
  <2> QED BY <1>p, <1>3, <2>1, <2>2 DEF Stands, InHeader, Binary
<1>4. CASE t = "name" /\ (InParams \/ Ends(<< {"local", "function", ":"} >>))
  <2>1. p \in {"(", ",", "local", "function", ":"}
    BY <1>0, <1>4, Ends1, InParamsIs DEF InHeader, Sym
  <2>2. Follows(p, t)
    BY <1>4, <2>1 DEF Follows, BeforeOperand, Binary
  <2> QED BY <1>p, <1>4, <2>1, <2>2 DEF Stands
<1>5. CASE t = "(" /\ Ends(<< {"print"} >>)
  <2>1. p = "print"
    BY <1>0, <1>5, Ends1
  <2>2. Follows(p, t)
    BY <1>5, <2>1 DEF Follows, Binary
  <2> QED BY <1>p, <1>5, <2>1, <2>2 DEF Stands, InHeader
<1>6. CASE t = "(" /\ Ends(<< {"name"} >>) /\ ~Annotatable /\ ~Ends(<< {":"}, {"name"} >>)
  <2>1. p = "name" /\ (Last >= 2 => Sym(Last - 1) \notin {"local", ":"})
    BY <1>0, <1>6, Ends1, Ends2, AnnotatableIs
  <2>2. Follows(p, t)
    BY <1>6, <2>1 DEF Follows, Binary
  <2>3. ~(Last >= 4 /\ InHeader(stack, Last - 1))
    BY <1>0, <1>6, <2>1, AnnotatableIs, ParameterIs
  <2>4. ~InHeader(stack, Last)
    BY <1>p, <2>1 DEF InHeader
  <2> QED BY <1>p, <1>6, <2>1, <2>2, <2>3, <2>4 DEF Stands, Sym
<1>7. CASE t = ")" /\ Ends(<< {"args", "params", "none"} >>)
  <2>1. p \in {"args", "params", "none"}
    BY <1>0, <1>7, Ends1
  <2>2. Follows(p, t)
    BY <1>7, <2>1 DEF Follows, Binary
  <2> QED BY <1>p, <1>7, <2>1, <2>2 DEF Stands, InHeader
<1>8. CASE t = ")" /\ Ends(<< {"("}, {"expr"} >>) /\ ~Ends(<< {"name", "print"}, {"("}, {"expr"} >>)
  <2>1. p = "expr" /\ Sym(Last - 1) = "("
    BY <1>0, <1>8, Ends2
  <2>2. Follows(p, t)
    BY <1>8, <2>1 DEF Follows, Binary
  <2>3. Last >= 3 => Sym(Last - 2) \notin {"name", "print"}
    BY <1>0, <1>8, <2>1, Ends3
  <2> QED BY <1>p, <1>8, <2>1, <2>2, <2>3 DEF Stands, InHeader, Sym
<1>9. CASE t = "," /\ Ends(<< {"args", "params"} >>)
  <2>1. p \in {"args", "params"}
    BY <1>0, <1>9, Ends1
  <2>2. Follows(p, t)
    BY <1>9, <2>1 DEF Follows, Binary
  <2> QED BY <1>p, <1>9, <2>1, <2>2 DEF Stands, InHeader
<1>10. CASE t = ":" /\ Annotatable
  <2>1. p \in {"name", ")"}
    BY <1>0, <1>10, AnnotatableIs, ParameterIs, HeaderIs
  <2>2. Follows(p, t)
    BY <1>10, <2>1 DEF Follows, Binary
  <2> QED BY <1>p, <1>10, <2>1, <2>2 DEF Stands, InHeader
<1>11. CASE t = "=" /\ Ends(<< {"list"}, {"name"} >>)
  <2>1. Last >= 2 /\ p = "name" /\ Sym(Last - 1) = "list"
    BY <1>0, <1>11, Ends2
  <2>2. Follows(p, t)
    BY <1>11, <2>1 DEF Follows, Binary
  <2>3. ~InHeader(stack, Last) /\ ~InHeader(stack, Last - 1)
    BY <2>1 DEF InHeader, Sym
  <2> QED BY <1>p, <1>11, <2>1, <2>2, <2>3 DEF Stands
<1>12. CASE t = "=" /\ Ends(<< {"local"}, {"name"}, {"type"} >>)
  <2>1. p = "type"
    BY <1>0, <1>12, Ends3
  <2>2. Follows(p, t)
    BY <1>12, <2>1 DEF Follows, Binary
  <2> QED BY <1>p, <1>12, <2>1, <2>2 DEF Stands, InHeader
<1>13. CASE t \in {"then", "do"} /\ Sym(Last) = "expr"
  <2>1. Follows(p, t)
    BY <1>13 DEF Follows, Binary
  <2> QED BY <1>p, <1>13, <2>1 DEF Stands, InHeader
<1>14. CASE t \in {"else", "end"} /\ Sym(Last) = "list"
  <2>1. Follows(p, t)
    BY <1>14 DEF Follows, Binary
  <2> QED BY <1>p, <1>14, <2>1 DEF Stands, InHeader
<1>15. t = "then" /\ Ends(<< {"if"}, {"expr"} >>) => Sym(Last) = "expr"
  BY <1>0, Ends2
<1>16. t = "do" /\ Ends(<< {"while"}, {"expr"} >>) => Sym(Last) = "expr"
  BY <1>0, Ends2
<1>17. t = "else" /\ Ends(<< {"then"}, {"list"} >>) => Sym(Last) = "list"
  BY <1>0, Ends2
<1>18. t = "end" /\ Ends(<< {"then", "else", "do", "type"}, {"list"} >>) => Sym(Last) = "list"
  BY <1>0, Ends2
<1> QED BY <1>1, <1>2, <1>3, <1>4, <1>5, <1>6, <1>7, <1>8, <1>9, <1>10, <1>11, <1>12, <1>13,
           <1>14, <1>15, <1>16, <1>17, <1>18 DEF Shiftable

-------------------------------------------------------------------------------
(***************************************************************************)
(* The texts the parser holds: those of the names, literals and types on   *)
(* the stack.  Each symbol holds one of its own; a type may have none.     *)
(***************************************************************************)
Textual == {"name", "literal", "type"}

Texts ==
  /\ \A k \in 1 .. Last : Sym(k) \in Textual =>
       /\ At(k) \in 0 .. here - 1
       /\ At(k) = 0 => Sym(k) = "type"
       /\ At(k) # 0 => text[At(k)] \in {"name", "literal"}
  /\ \A j, k \in 1 .. Last :
       Sym(j) \in Textual /\ Sym(k) \in Textual /\ At(j) = At(k) /\ At(j) # 0 => j = k
  /\ StringsFreed

IsNode(v) == v = Node(v.kind, v.at, v.kids)

\* What stands for symbol x in a tree.
Means(x, v) == IsNode(v) /\ (x # "expr" => v.kind \notin {"binary", "unary"})

Typed ==
  /\ text \in Seq(Token \cup {"$end"}) /\ text # << >>
  /\ IsStack(stack) /\ \A k \in 1 .. Last : Means(Sym(k), stack[k].node)
  /\ Sym(1) = "program" => programRoot = stack[1].node

IInv == Typed /\ Viable(stack) /\ Texts

LEMMA Facts ==
  ASSUME IInv
  PROVE  /\ Last \in Nat \ {0} /\ here \in Nat \ {0} /\ DOMAIN stack = 1 .. Last
         /\ look \in Token \cup {"$end"} /\ IsStack(stack)
<1>1. Last \in Nat /\ DOMAIN stack = 1 .. Last
  BY StackIs DEF IInv, Typed, Last
<1>2. Last \in Nat \ {0}
  BY <1>1 DEF IInv, Viable, Last
<1>3. here \in Nat \ {0}
  <2>1. text \in Seq(Token \cup {"$end"}) /\ text # << >>
    BY DEF IInv, Typed
  <2> QED BY ONLY <2>1 DEF here
<1>4. look \in Token \cup {"$end"}
  BY <1>3 DEF IInv, Typed, look, here
<1> QED BY <1>1, <1>2, <1>3, <1>4 DEF IInv, Typed

Phrase == {"list", "statement", "type", "params", "none", "args", "expr"}

\* How much deeper in parentheses the next symbol is.
Weight(x) == IF x = "(" THEN 1 ELSE IF x = ")" THEN -1 ELSE 0

\* The last n symbols have as many opening as closing parentheses.
Balanced(n) ==
  \A f : (\A k \in Last - n + 1 .. Last : f[k] \in Int /\ f[k + 1] = f[k] + Weight(Sym(k)))
          => f[Last + 1] = f[Last - n + 1]

\* The tree a rule makes of the n symbols of an expression.
Built(n, v) ==
  \/ v.kind \notin {"binary", "unary"}
  \/ /\ n = 3 /\ Infix
     /\ v = Node("binary", At(Last - 1), << stack[Last - 2].node, stack[Last].node >>)
  \/ /\ n = 2 /\ Prefix
     /\ v = Node("unary", At(Last - 1), << stack[Last].node >>)
  \/ /\ n = 3 /\ Sym(Last - 2) = "(" /\ Sym(Last - 1) = "expr" /\ Sym(Last) = ")"
     /\ v = stack[Last - 1].node

\* A rule: n symbols become x; what of their texts is not freed, x holds.
Reduction(n, x, node, freed) ==
  /\ n \in 0 .. Last /\ Sym(Last) # "program" /\ ~Shiftable(look)
  /\ x \in Phrase /\ Means(x, node) /\ Balanced(n) /\ (x = "expr" => Built(n, node))
  /\ stack' = Append(SubSeq(stack, 1, Last - n), [sym |-> x, node |-> node])
  /\ strings' = strings \ freed
  /\ UNCHANGED << text, programRoot >>
  /\ \/ n < Last /\ Stands(stack, Last - n, x)
     \/ n = Last /\ x = "list"
  /\ \A k \in Last - n + 1 .. Last :
       Sym(k) \in Textual => At(k) \in freed \/ (x = "type" /\ node.at = At(k))
  /\ \A q \in freed : \E k \in Last - n + 1 .. Last : Sym(k) \in Textual /\ At(k) = q
  /\ x \in Textual =>
       /\ x = "type" /\ freed = {}
       /\ \/ node.at = 0
          \/ \E k \in Last - n + 1 .. Last : Sym(k) = "name" /\ At(k) = node.at

\* What the stack is after a rule.
LEMMA AfterRule ==
  ASSUME IInv, NEW n, NEW x, NEW node, NEW freed, Reduction(n, x, node, freed)
  PROVE  /\ Last - n \in 0 .. Last /\ Len(stack') = Last - n + 1 /\ IsStack(stack')
         /\ \A k \in 1 .. Last - n : stack'[k] = stack[k]
         /\ stack'[Last - n + 1] = [sym |-> x, node |-> node]
         /\ stack'[Last - n + 1].sym = x /\ stack'[Last - n + 1].node = node
<1>1. n \in 0 .. Len(stack) /\ IsStack(stack) /\ Last \in Nat
  BY Facts DEF Reduction, Last
<1>2. LET t == Append(SubSeq(stack, 1, Len(stack) - n), [sym |-> x, node |-> node])
      IN /\ IsStack(t) /\ Len(t) = Len(stack) - n + 1
         /\ t[Len(stack) - n + 1] = [sym |-> x, node |-> node]
         /\ \A k \in 1 .. Len(stack) - n : t[k] = stack[k]
  BY ONLY <1>1, Replaced
<1>3. stack' = Append(SubSeq(stack, 1, Len(stack) - n), [sym |-> x, node |-> node])
  BY DEF Reduction, Last
<1>4. /\ IsStack(stack') /\ Len(stack') = Last - n + 1
      /\ stack'[Last - n + 1] = [sym |-> x, node |-> node]
      /\ \A k \in 1 .. Last - n : stack'[k] = stack[k]
  BY ONLY <1>2, <1>3 DEF Last
<1>5. Last - n \in 0 .. Last
  BY <1>1 DEF Last
<1> QED BY <1>4, <1>5

LEMMA RuleViable ==
  ASSUME IInv, NEW n, NEW x, NEW node, NEW freed, Reduction(n, x, node, freed)
  PROVE  Viable(stack')
<1>1. stack[1].sym = "list"
  <2>1. stack[1].sym \in {"list", "program"} /\ (stack[1].sym = "program" => Last = 1)
    BY DEF IInv, Viable, Last
  <2> QED BY <2>1 DEF Reduction, Sym
<1>2. CASE n < Last /\ Stands(stack, Last - n, x)
  <2>1. Last \in Nat /\ n \in 0 .. Last /\ Last - n \in 1 .. Len(stack)
    <3>1. Last \in Nat /\ n \in 0 .. Last
      BY Facts DEF Reduction
    <3> QED BY <3>1, <1>2 DEF Last
  <2>2. Len(stack') = (Last - n) + 1 /\ IsStack(stack') /\ stack'[(Last - n) + 1].sym = x
        /\ \A k \in 1 .. Last - n : stack'[k] = stack[k]
    BY AfterRule
  <2>3. IsStack(stack) /\ Viable(stack)
    BY Facts DEF IInv
  <2> QED BY ONLY <1>1, <1>2, <2>1, <2>2, <2>3, ViableStep
<1>3. CASE n = Last /\ x = "list"
  <2>1. Len(stack') = 1 /\ stack'[1].sym = "list"
    <3>1. Last - n + 1 = 1
      BY <1>3, Facts
    <3>2. Len(stack') = Last - n + 1 /\ stack'[Last - n + 1].sym = x
      BY AfterRule
    <3> QED BY ONLY <1>3, <3>1, <3>2
  <2> QED BY <2>1 DEF Viable
<1> QED BY <1>2, <1>3 DEF Reduction

LEMMA RuleTexts ==
  ASSUME IInv, NEW n, NEW x, NEW node, NEW freed, Reduction(n, x, node, freed)
  PROVE  Texts'
<1>0. PICK m \in 0 .. Last : m = Last - n
  BY AfterRule
<1>1. /\ m \in 0 .. Last /\ Last' = m + 1 /\ Last \in Nat /\ here' = here /\ here \in Nat \ {0}
      /\ \A k \in 1 .. m : Sym(k)' = Sym(k) /\ At(k)' = At(k)
      /\ Sym(m + 1)' = x /\ At(m + 1)' = node.at /\ text' = text
      /\ DOMAIN stack = 1 .. Last /\ DOMAIN stack' = 1 .. m + 1
  <2>1. here' = here /\ text' = text
    BY DEF Reduction, here
  <2>2. DOMAIN stack' = 1 .. Last'
    BY AfterRule, StackIs DEF Last
  <2>3. \A k \in 1 .. m : Sym(k)' = Sym(k) /\ At(k)' = At(k)
    BY <1>0, AfterRule DEF Sym, At
  <2>4. Last' = m + 1 /\ Sym(m + 1)' = x /\ At(m + 1)' = node.at
    <3>1. Len(stack') = m + 1 /\ stack'[m + 1].sym = x /\ stack'[m + 1].node = node
      BY <1>0, AfterRule
    <3> QED BY <3>1 DEF Sym, At, Last
  <2> QED BY <1>0, <2>1, <2>2, <2>3, <2>4, Facts
<1>2. \A k \in 1 .. Last : Sym(k) \in Textual =>
        /\ At(k) \in 0 .. here - 1
        /\ At(k) = 0 => Sym(k) = "type"
        /\ At(k) # 0 => text[At(k)] \in {"name", "literal"}
  BY DEF IInv, Texts
<1>3. \A j, k \in 1 .. Last :
        Sym(j) \in Textual /\ Sym(k) \in Textual /\ At(j) = At(k) /\ At(j) # 0 => j = k
  BY DEF IInv, Texts
<1>4. /\ \A k \in m + 1 .. Last :
           Sym(k) \in Textual => At(k) \in freed \/ (x = "type" /\ node.at = At(k))
      /\ \A q \in freed : \E k \in m + 1 .. Last : Sym(k) \in Textual /\ At(k) = q
  BY <1>0 DEF Reduction
<1>5. x \in Textual =>
        /\ x = "type" /\ freed = {}
        /\ \/ node.at = 0
           \/ \E k \in m + 1 .. Last : Sym(k) = "name" /\ At(k) = node.at
  BY <1>0 DEF Reduction
<1>6. ASSUME NEW k \in 1 .. m + 1, Sym(k)' \in Textual
      PROVE  /\ At(k)' \in 0 .. here - 1
             /\ At(k)' = 0 => Sym(k)' = "type"
             /\ At(k)' # 0 => text[At(k)'] \in {"name", "literal"}
  <2>1. CASE k \in 1 .. m
    <3>1. Sym(k)' = Sym(k) /\ At(k)' = At(k) /\ k \in 1 .. Last
      BY <1>1, <2>1
    <3> QED BY <1>2, <1>6, <3>1
  <2>2. CASE k = m + 1
    <3>1. Sym(k)' = x /\ At(k)' = node.at /\ x \in Textual /\ x = "type"
      BY <1>1, <1>5, <1>6, <2>2
    <3>2. CASE node.at = 0
      BY <1>1, <3>1, <3>2
    <3>3. ASSUME NEW i \in m + 1 .. Last, Sym(i) = "name", At(i) = node.at
          PROVE  node.at \in 0 .. here - 1 /\ (node.at # 0 => text[node.at] \in {"name", "literal"})
      <4>1. i \in 1 .. Last /\ Sym(i) \in Textual
        BY <1>1, <3>3 DEF Textual
      <4> QED BY <1>2, <3>3, <4>1
    <3> QED BY <1>5, <3>1, <3>2, <3>3
  <2> QED BY <1>1, <2>1, <2>2
<1>7. ASSUME NEW j \in 1 .. m, NEW i \in m + 1 .. Last,
             Sym(j) \in Textual, Sym(i) \in Textual, At(i) = At(j), At(j) # 0
      PROVE  FALSE
  <2>1. i \in 1 .. Last /\ j \in 1 .. Last /\ i # j
    BY <1>1
  <2> QED BY <1>3, <1>7, <2>1
<1>8. ASSUME NEW j \in 1 .. m + 1, NEW k \in 1 .. m + 1,
             Sym(j)' \in Textual, Sym(k)' \in Textual, At(j)' = At(k)', At(j)' # 0
      PROVE  j = k
  <2>1. ASSUME NEW a \in 1 .. m, Sym(a) \in Textual, x \in Textual, At(a) = node.at, At(a) # 0
        PROVE  FALSE
    <3>1. PICK i \in m + 1 .. Last : Sym(i) = "name" /\ At(i) = node.at
      BY <1>5, <2>1
    <3> QED BY <1>7, <2>1, <3>1 DEF Textual
  <2>2. CASE j \in 1 .. m /\ k \in 1 .. m
    <3>1. j \in 1 .. Last /\ k \in 1 .. Last
      BY <1>1, <2>2
    <3> QED BY <1>1, <1>3, <1>8, <2>2, <3>1
  <2>3. CASE j \in 1 .. m /\ k = m + 1
    BY <1>1, <1>8, <2>1, <2>3
  <2>4. CASE j = m + 1 /\ k \in 1 .. m
    BY <1>1, <1>8, <2>1, <2>4
  <2> QED BY <1>1, <2>2, <2>3, <2>4
<1>9. ASSUME NEW q \in 1 .. here
      PROVE  (q = here \/ \E k \in 1 .. Last : Sym(k) \in Textual /\ At(k) = q) /\ q \notin freed
               <=> q = here \/ \E k \in 1 .. m + 1 : Sym(k)' \in Textual /\ At(k)' = q
  <2>1. ASSUME q = here PROVE q \notin freed
    <3>1. ASSUME NEW k \in m + 1 .. Last, Sym(k) \in Textual, At(k) = q PROVE FALSE
      <4>1. k \in 1 .. Last
        BY <1>1
      <4> QED BY <1>1, <1>2, <2>1, <3>1, <4>1
    <3> QED BY <1>4, <3>1
  <2>2. ASSUME NEW k \in 1 .. Last, Sym(k) \in Textual, At(k) = q, q \notin freed
        PROVE  \E i \in 1 .. m + 1 : Sym(i)' \in Textual /\ At(i)' = q
    <3>1. CASE k \in 1 .. m
      <4>1. k \in 1 .. m + 1
        BY <1>1, <3>1
      <4> QED BY <1>1, <2>2, <3>1, <4>1
    <3>2. CASE k \in m + 1 .. Last
      <4>1. x = "type" /\ node.at = q /\ m + 1 \in 1 .. m + 1
        BY <1>1, <1>4, <2>2, <3>2
      <4> QED BY <1>1, <4>1 DEF Textual
    <3> QED BY <1>1, <3>1, <3>2
  <2>3. ASSUME NEW i \in 1 .. m, Sym(i)' \in Textual, At(i)' = q
        PROVE  (\E k \in 1 .. Last : Sym(k) \in Textual /\ At(k) = q) /\ q \notin freed
    <3>1. i \in 1 .. Last /\ Sym(i) \in Textual /\ At(i) = q /\ q # 0
      BY <1>1, <2>3
    <3>2. q \notin freed
      BY <1>4, <1>7, <3>1
    <3> QED BY <3>1, <3>2
  <2>4. ASSUME x \in Textual, node.at = q
        PROVE  (\E k \in 1 .. Last : Sym(k) \in Textual /\ At(k) = q) /\ q \notin freed
    <3>1. PICK k \in m + 1 .. Last : Sym(k) = "name" /\ At(k) = node.at
      BY <1>1, <1>5, <2>4
    <3>2. k \in 1 .. Last /\ Sym(k) \in Textual
      BY <1>1, <3>1 DEF Textual
    <3> QED BY <1>5, <2>4, <3>1, <3>2
  <2>5. ASSUME NEW i \in 1 .. m + 1, Sym(i)' \in Textual, At(i)' = q
        PROVE  (\E k \in 1 .. Last : Sym(k) \in Textual /\ At(k) = q) /\ q \notin freed
    <3>1. CASE i \in 1 .. m
      BY <2>3, <2>5, <3>1
    <3>2. CASE i = m + 1
      BY <1>1, <2>4, <2>5, <3>2
    <3> QED BY <1>1, <3>1, <3>2
  <2> QED BY <2>1, <2>2, <2>5
<1>10. StringsFreed'
  <2>1. strings = { q \in 1 .. here : text[q] \in {"name", "literal"} /\
                      (q = here \/ \E k \in 1 .. Last : Sym(k) \in Textual /\ At(k) = q) }
    BY <1>1 DEF IInv, Texts, StringsFreed, Textual, Sym, At
  <2>2. strings' = { q \in 1 .. here : text[q] \in {"name", "literal"} /\
                      (q = here \/ \E k \in 1 .. m + 1 : Sym(k)' \in Textual /\ At(k)' = q) }
    <3>1. strings' = strings \ freed
      BY DEF Reduction
    <3> HIDE DEF Textual, Sym, At
    <3> QED BY ONLY <1>9, <2>1, <3>1
  <2> QED BY <1>1, <2>2 DEF StringsFreed, Textual, Sym, At
<1> QED BY <1>1, <1>6, <1>8, <1>10 DEF Texts

LEMMA RuleInv ==
  ASSUME IInv, NEW n, NEW x, NEW node, NEW freed, Reduction(n, x, node, freed)
  PROVE  IInv'
<1>1. text' \in Seq(Token \cup {"$end"}) /\ text' # << >>
  BY DEF Reduction, IInv, Typed
<1>2. PICK m \in 0 .. Last : m = Last - n
  BY AfterRule
<1>3. /\ Last \in Nat /\ IsStack(stack') /\ Len(stack') = m + 1 /\ stack'[m + 1].sym = x
      /\ stack'[m + 1].node = node /\ \A k \in 1 .. m : stack'[k] = stack[k]
  BY <1>2, AfterRule, Facts
<1>4. ASSUME NEW k \in 1 .. m + 1
      PROVE  Means(stack'[k].sym, stack'[k].node)
  <2>1. CASE k = m + 1
    BY <1>3, <2>1 DEF Reduction
  <2>2. CASE k # m + 1
    <3>1. k \in 1 .. m /\ k \in 1 .. Last
      BY <1>3, <2>2
    <3> QED BY <1>3, <3>1 DEF IInv, Typed, Sym
  <2> QED BY <2>1, <2>2
<1>5. stack'[1].sym # "program"
  <2>1. CASE m = 0
    <3>1. stack'[1].sym = x
      BY <1>3, <2>1
    <3> QED BY <3>1 DEF Reduction, Phrase
  <2>2. CASE m # 0
    <3>1. stack'[1] = stack[1]
      BY <1>3, <2>2
    <3>2. stack[1].sym = "program" => Last = 1
      BY DEF IInv, Viable, Last
    <3> QED BY <3>1, <3>2 DEF Reduction, Sym
  <2> QED BY <2>1, <2>2
<1>6. Typed'
  BY <1>1, <1>3, <1>4, <1>5 DEF Typed, Sym, Last
<1> QED BY <1>6, RuleViable, RuleTexts DEF IInv

-------------------------------------------------------------------------------
(* Each rule is such a reduction. *)

\* What the first of the symbols that are removed stands on.
LEMMA Before1 ==
  ASSUME IInv, NEW n \in 1 .. Last, Sym(Last - n + 1) \notin {"list", "program"}
  PROVE  /\ n < Last /\ Last - n \in 1 .. Last
         /\ Stands(stack, Last - n, Sym(Last - n + 1))
<1>1. Last \in Nat /\ Last - n + 1 \in 1 .. Last
  BY Facts
<1>2. Last - n + 1 # 1
  BY DEF IInv, Viable, Sym
<1>3. Last - n + 1 \in 2 .. Len(stack) /\ (Last - n + 1) - 1 = Last - n
  BY <1>1, <1>2 DEF Last
<1>4. Stands(stack, Last - n, Sym(Last - n + 1))
  BY <1>3 DEF IInv, Viable, Sym
<1> QED BY <1>1, <1>2, <1>4

LEMMA StatementStands ==
  ASSUME NEW m, stack[m].sym = "list"
  PROVE  Stands(stack, m, "statement")
BY DEF Stands, Follows, InHeader, Binary

LEMMA ExprStands ==
  ASSUME NEW m, stack[m].sym \in BeforeOperand, ~InHeader(stack, m)
  PROVE  Stands(stack, m, "expr")
BY DEF Stands, Follows, BeforeOperand, Binary

LEMMA TypeStands ==
  ASSUME NEW m, stack[m].sym \in {"name", ")"}
  PROVE  Stands(stack, m, "type")
BY DEF Stands, Follows, InHeader, Binary

LEMMA ListStands ==
  ASSUME NEW m, stack[m].sym \in {"then", "else", "do", "type"}
  PROVE  Stands(stack, m, "list")
BY DEF Stands, Follows, InHeader, Binary

LEMMA ParamsStands ==
  ASSUME NEW m, NEW x \in {"params", "none"}, stack[m].sym = "("
  PROVE  Stands(stack, m, x)
BY DEF Stands, Follows, Binary

LEMMA ArgsStands ==
  ASSUME NEW m, stack[m].sym = "(", ~InHeader(stack, m)
  PROVE  Stands(stack, m, "args")
BY DEF Stands, Follows, Binary

\* The symbols that hold texts or are parentheses are those a rule names.
LEMMA NodeIs ==
  ASSUME NEW kind, NEW at, NEW kids
  PROVE  /\ IsNode(Node(kind, at, kids))
         /\ Node(kind, at, kids).kind = kind /\ Node(kind, at, kids).at = at
BY DEF IsNode, Node

LEMMA Changed ==
  ASSUME NEW v, IsNode(v), NEW y
  PROVE  /\ IsNode([v EXCEPT !.kids = y]) /\ [v EXCEPT !.kids = y].kind = v.kind
         /\ IsNode([v EXCEPT !.kind = y]) /\ [v EXCEPT !.kind = y].kind = y
<1>1. v = [kind |-> v.kind, at |-> v.at, kids |-> v.kids]
  BY DEF IsNode, Node
<1> QED BY <1>1 DEF IsNode, Node
\* A rule that frees the texts of the symbols it removes, those at places P.
LEMMA Reduces ==
  ASSUME IInv, NEW n \in 0 .. Last, NEW x \in Phrase \ {"type"}, NEW v, NEW freed, NEW P,
         reduce(n, x, v, freed), Sym(Last) # "program", Means(x, v), Balanced(n),
         x = "expr" => Built(n, v),
         (n < Last /\ Stands(stack, Last - n, x)) \/ (n = Last /\ x = "list"),
         \A k \in Last - n + 1 .. Last : Sym(k) \in Textual <=> k \in P,
         \A k \in P : k \in Last - n + 1 .. Last,
         freed = { At(k) : k \in P }
  PROVE  \E i, y, node, gone : Reduction(i, y, node, gone)
<1>1. x \notin Textual /\ x \in Phrase
  BY DEF Phrase, Textual
<1>2. /\ \A k \in Last - n + 1 .. Last : Sym(k) \in Textual => At(k) \in freed
      /\ \A q \in freed : \E k \in Last - n + 1 .. Last : Sym(k) \in Textual /\ At(k) = q
  OBVIOUS
<1>3. /\ stack' = Append(SubSeq(stack, 1, Last - n), [sym |-> x, node |-> v])
      /\ strings' = strings \ freed /\ UNCHANGED << text, programRoot >> /\ ~Shiftable(look)
  BY DEF reduce, Last
<1>4. Reduction(n, x, v, freed)
  BY <1>1, <1>2, <1>3 DEF Reduction
<1> QED BY <1>4

LEMMA EmptyListReduces ==
  ASSUME IInv, empty_statement_list
  PROVE  \E n, x, node, freed : Reduction(n, x, node, freed)
<1>1. Last \in Nat \ {0}
  BY Facts
<1>2. Sym(Last) \in {"then", "else", "do", "type"}
  <2>1. Ends(<< {"then", "else", "do"} >>) => Sym(Last) \in {"then", "else", "do"}
    BY <1>1, Ends1
  <2>2. Ends(<< {")"}, {"type"} >>) => Sym(Last) \in {"type"}
    BY <1>1, Ends2
  <2> QED BY <2>1, <2>2 DEF empty_statement_list
<1>3. Stands(stack, Last, "list") /\ Last - 0 = Last
  BY <1>1, <1>2, ListStands DEF Sym
<1>4. Balanced(0)
  BY <1>1 DEF Balanced
<1>5. Means("list", Node("list", 0, << >>))
  BY NodeIs DEF Means
<1>6. reduce(0, "list", Node("list", 0, << >>), {})
  BY DEF empty_statement_list
<1>7. /\ 0 \in 0 .. Last /\ 0 < Last /\ {} = { At(k) : k \in {} }
      /\ \A k \in Last - 0 + 1 .. Last : Sym(k) \in Textual <=> k \in {}
  BY <1>1
<1> QED BY <1>2, <1>3, <1>4, <1>5, <1>6, <1>7, Reduces DEF Phrase

LEMMA StatementListReduces ==
  ASSUME IInv, statement_list
  PROVE  \E n, x, node, freed : Reduction(n, x, node, freed)
<1> DEFINE v == [Value(2, 1) EXCEPT !.kids = Append(@, Value(2, 2))]
<1>1. Last \in Nat \ {0}
  BY Facts
<1>2. Last >= 2 /\ Sym(Last - 1) = "list" /\ Sym(Last) = "statement"
  BY <1>1, Ends2 DEF statement_list
<1>3. \/ 2 < Last /\ Stands(stack, Last - 2, "list")
      \/ 2 = Last
  <2>1. Last # 2 => Last - 1 \in 2 .. Last /\ (Last - 1) - 1 = Last - 2
    BY <1>1, <1>2
  <2>2. \A k \in 2 .. Last : Stands(stack, k - 1, Sym(k))
    BY DEF IInv, Viable, Sym, Last
  <2> QED BY <1>1, <1>2, <2>1, <2>2
<1>4. Balanced(2)
  BY <1>1, <1>2 DEF Balanced, Weight
<1>5. Means("list", v)
  <2>1. Last - 1 \in 1 .. Last /\ Value(2, 1) = stack[Last - 1].node
    BY <1>1, <1>2 DEF Value, Last
  <2>2. Means("list", Value(2, 1))
    BY <1>2, <2>1 DEF IInv, Typed
  <2> QED BY <2>2, Changed DEF Means
<1>6. reduce(2, "list", v, {})
  BY DEF statement_list
<1>7. /\ 2 \in 0 .. Last /\ {} = { At(k) : k \in {} }
      /\ \A k \in Last - 2 + 1 .. Last : Sym(k) \in Textual <=> k \in {}
  BY <1>1, <1>2 DEF Textual
<1> HIDE DEF v
<1> QED BY <1>2, <1>3, <1>4, <1>5, <1>6, <1>7, Reduces DEF Phrase

LEMMA AssignmentReduces ==
  ASSUME IInv, assignment
  PROVE  \E n, x, node, freed : Reduction(n, x, node, freed)
<1>1. Last \in Nat \ {0}
  BY Facts
<1>2. CASE /\ Ends(<< {"list"}, {"name"}, {"="}, {"expr"} >>)
           /\ reduce(3, "statement", Node("assignment", Value(3, 1).at, << Value(3, 3) >>),
                     {Value(3, 1).at})
  <2> DEFINE v == Node("assignment", Value(3, 1).at, << Value(3, 3) >>)
             freed == {Value(3, 1).at}
  <2>1. /\ Last >= 4 /\ Sym(Last - 3) = "list" /\ Sym(Last - 2) = "name" /\ Sym(Last - 1) = "="
        /\ Sym(Last) = "expr"
    BY <1>1, <1>2, Ends4
  <2>2. Stands(stack, Last - 3, "statement")
    BY <2>1, StatementStands DEF Sym
  <2>3. Balanced(3)
    BY <1>1, <2>1 DEF Balanced, Weight
  <2>4. Means("statement", v)
    BY NodeIs DEF Means
  <2> DEFINE P == {Last - 2}
  <2>5. freed = { At(k) : k \in P }
    BY <1>1 DEF Value, Last, At
  <2>6. /\ \A k \in Last - 3 + 1 .. Last : Sym(k) \in Textual <=> k \in P
        /\ \A k \in P : k \in Last - 3 + 1 .. Last
    BY <1>1, <2>1 DEF Textual
  <2>7. reduce(3, "statement", v, freed) /\ 3 \in 0 .. Last /\ 3 < Last
    BY <1>1, <1>2, <2>1
  <2> HIDE DEF v, freed, P
  <2> QED BY <2>1, <2>2, <2>3, <2>4, <2>5, <2>6, <2>7, Reduces DEF Phrase
<1>3. CASE /\ Ends(<< {"local"}, {"name"}, {"type"}, {"="}, {"expr"} >>)
           /\ reduce(5, "statement",
                     Node("assignment", Value(5, 2).at, Append(Optional(5, 3), Value(5, 5))),
                     {Value(5, 2).at, Value(5, 3).at})
  <2> DEFINE v == Node("assignment", Value(5, 2).at, Append(Optional(5, 3), Value(5, 5)))
             freed == {Value(5, 2).at, Value(5, 3).at}
  <2>1. /\ Last >= 5 /\ Sym(Last - 4) = "local" /\ Sym(Last - 3) = "name" /\ Sym(Last - 2) = "type"
        /\ Sym(Last - 1) = "=" /\ Sym(Last) = "expr"
    BY <1>1, <1>3, Ends5
  <2>2. 5 < Last /\ Stands(stack, Last - 5, "statement")
    <3>1. Last - 5 + 1 = Last - 4 /\ 5 \in 1 .. Last
      BY <1>1, <2>1
    <3>2. 5 < Last /\ Stands(stack, Last - 5, "local")
      BY <2>1, <3>1, Before1
    <3> QED BY <3>2, StatementStands DEF Stands, Follows
  <2>3. Balanced(5)
    BY <1>1, <2>1 DEF Balanced, Weight
  <2>4. Means("statement", v)
    BY NodeIs DEF Means
  <2> DEFINE P == {Last - 3, Last - 2}
  <2>5. freed = { At(k) : k \in P }
    BY <1>1 DEF Value, Last, At
  <2>6. /\ \A k \in Last - 5 + 1 .. Last : Sym(k) \in Textual <=> k \in P
        /\ \A k \in P : k \in Last - 5 + 1 .. Last
    BY <1>1, <2>1 DEF Textual
  <2>7. reduce(5, "statement", v, freed) /\ 5 \in 0 .. Last
    BY <1>1, <1>3, <2>1
  <2> HIDE DEF v, freed, P
  <2> QED BY <2>1, <2>2, <2>3, <2>4, <2>5, <2>6, <2>7, Reduces DEF Phrase
<1> QED BY <1>2, <1>3 DEF assignment
\* A type is nothing, or the name that is annotated.
LEMMA TypeReduces ==
  ASSUME IInv, opt_type_annotation
  PROVE  \E n, x, node, freed : Reduction(n, x, node, freed)
<1>1. Last \in Nat \ {0}
  BY Facts
<1>2. CASE Annotatable /\ reduce(0, "type", None, {})
  <2>1. Sym(Last) \in {"name", ")"}
    BY <1>1, <1>2, AnnotatableIs, ParameterIs, HeaderIs
  <2>2. Stands(stack, Last, "type") /\ Last - 0 = Last
    BY <1>1, <2>1, TypeStands DEF Sym
  <2>3. Balanced(0)
    BY <1>1 DEF Balanced
  <2>4. Means("type", None) /\ None.at = 0
    BY NodeIs DEF Means, None
  <2>5. /\ 0 \in 0 .. Last /\ 0 < Last /\ \A k \in Last - 0 + 1 .. Last : FALSE
        /\ Sym(Last) # "program" /\ "type" \in Phrase
    BY <1>1, <2>1 DEF Phrase
  <2>6. /\ stack' = Append(SubSeq(stack, 1, Last - 0), [sym |-> "type", node |-> None])
        /\ strings' = strings \ {} /\ UNCHANGED << text, programRoot >> /\ ~Shiftable(look)
    BY <1>2 DEF reduce, Last
  <2>7. Reduction(0, "type", None, {})
    BY <2>2, <2>3, <2>4, <2>5, <2>6 DEF Reduction
  <2> QED BY <2>7
<1>3. CASE Ends(<< {":"}, {"name"} >>) /\ reduce(2, "type", Value(2, 2), {})
  <2> DEFINE v == Value(2, 2)
  <2>1. Last >= 2 /\ Sym(Last - 1) = ":" /\ Sym(Last) = "name"
    BY <1>1, <1>3, Ends2
  <2>2. 2 < Last /\ Stands(stack, Last - 2, "type")
    <3>1. Last - 2 + 1 = Last - 1 /\ 2 \in 1 .. Last
      BY <1>1, <2>1
    <3>2. 2 < Last /\ Stands(stack, Last - 2, ":")
      BY <2>1, <3>1, Before1
    <3> QED BY <3>2, TypeStands DEF Stands, Follows
  <2>3. Balanced(2)
    BY <1>1, <2>1 DEF Balanced, Weight
  <2>4. v = stack[Last].node /\ Means("type", v) /\ v.at = At(Last)
    <3>1. v = stack[Last].node /\ Last \in 1 .. Last
      BY <1>1 DEF Value, Last
    <3>2. Means(Sym(Last), v)
      BY <3>1 DEF IInv, Typed
    <3> QED BY <2>1, <3>1, <3>2 DEF Means, At
  <2>5. /\ 2 \in 0 .. Last /\ Sym(Last) # "program" /\ "type" \in Phrase
        /\ \A k \in Last - 2 + 1 .. Last : Sym(k) \in Textual => k = Last
        /\ Last \in Last - 2 + 1 .. Last
    BY <1>1, <2>1 DEF Phrase, Textual
  <2>6. /\ stack' = Append(SubSeq(stack, 1, Last - 2), [sym |-> "type", node |-> v])
        /\ strings' = strings \ {} /\ UNCHANGED << text, programRoot >> /\ ~Shiftable(look)
    BY <1>3 DEF reduce, Last
  <2> HIDE DEF v
  <2>7. Reduction(2, "type", v, {})
    BY <2>1, <2>2, <2>3, <2>4, <2>5, <2>6 DEF Reduction
  <2> QED BY <2>7
<1> QED BY <1>2, <1>3 DEF opt_type_annotation

LEMMA FunctionReduces ==
  ASSUME IInv, function_def
  PROVE  \E n, x, node, freed : Reduction(n, x, node, freed)
<1> DEFINE v == Node("function", Value(8, 2).at,
                     Value(8, 4).kids \o Append(Optional(8, 6), Value(8, 7)))
           freed == {Value(8, 2).at, Value(8, 6).at}
           P == {Last - 6, Last - 2}
<1>1. Last \in Nat \ {0}
  BY Facts
<1>2. /\ Last >= 8 /\ Sym(Last - 7) = "function" /\ Sym(Last - 6) = "name" /\ Sym(Last - 5) = "("
      /\ Sym(Last - 4) \in {"params", "none"} /\ Sym(Last - 3) = ")" /\ Sym(Last - 2) = "type"
      /\ Sym(Last - 1) = "list" /\ Sym(Last) = "end"
  BY <1>1, Ends8 DEF function_def
<1>3. 8 < Last /\ Stands(stack, Last - 8, "statement")
  <2>1. Last - 8 + 1 = Last - 7 /\ 8 \in 1 .. Last
    BY <1>1, <1>2
  <2>2. 8 < Last /\ Stands(stack, Last - 8, "function")
    BY <1>2, <2>1, Before1
  <2> QED BY <2>2, StatementStands DEF Stands, Follows
<1>4. Balanced(8)
  <2> SUFFICES ASSUME NEW f,
                      \A k \in Last - 8 + 1 .. Last :
                        f[k] \in Int /\ f[k + 1] = f[k] + Weight(Sym(k))
               PROVE  f[Last + 1] = f[Last - 8 + 1]
    BY DEF Balanced
  <2>1. /\ Last - 8 + 1 = Last - 7 /\ \A j \in 0 .. 7 : Last - j \in Last - 8 + 1 .. Last
        /\ (Last - 7) + 1 = Last - 6 /\ (Last - 6) + 1 = Last - 5 /\ (Last - 5) + 1 = Last - 4
        /\ (Last - 4) + 1 = Last - 3 /\ (Last - 3) + 1 = Last - 2 /\ (Last - 2) + 1 = Last - 1
        /\ (Last - 1) + 1 = Last
    BY <1>1
  <2>2. /\ Last - 7 \in Last - 8 + 1 .. Last /\ Last - 6 \in Last - 8 + 1 .. Last
        /\ Last - 5 \in Last - 8 + 1 .. Last /\ Last - 4 \in Last - 8 + 1 .. Last
        /\ Last - 3 \in Last - 8 + 1 .. Last /\ Last - 2 \in Last - 8 + 1 .. Last
        /\ Last - 1 \in Last - 8 + 1 .. Last /\ Last \in Last - 8 + 1 .. Last
    BY <1>1
  <2>3. f[Last - 7] \in Int /\ f[Last - 6] = f[Last - 7] /\ f[Last - 5] = f[Last - 6]
    BY <1>2, <2>1, <2>2 DEF Weight
  <2>4. f[Last - 4] = f[Last - 5] + 1 /\ f[Last - 3] = f[Last - 4]
    BY <1>2, <2>1, <2>2 DEF Weight
  <2>5. f[Last - 2] = f[Last - 3] - 1 /\ f[Last - 1] = f[Last - 2]
    BY <1>2, <2>1, <2>2 DEF Weight
  <2>6. f[Last] = f[Last - 1] /\ f[Last + 1] = f[Last]
    BY <1>2, <2>1, <2>2 DEF Weight
  <2> QED BY <2>1, <2>3, <2>4, <2>5, <2>6
<1>5. Means("statement", v)
  BY NodeIs DEF Means
<1>6. freed = { At(k) : k \in P }
  BY <1>1 DEF Value, Last, At
<1>7. \A k \in P : k \in Last - 8 + 1 .. Last
  BY <1>1, <1>2
<1>8. ASSUME NEW k \in Last - 8 + 1 .. Last
      PROVE  Sym(k) \in Textual <=> k \in P
  <2>1. k \in {Last - 7, Last - 6, Last - 5, Last - 4, Last - 3, Last - 2, Last - 1, Last}
    BY <1>1, <1>2
  <2>2. CASE k \in {Last - 6, Last - 2}
    BY <1>2, <2>2 DEF Textual
  <2>3. CASE k \in {Last - 7, Last - 5, Last - 4, Last - 3, Last - 1, Last}
    <3>1. k \notin P
      BY <1>1, <2>3
    <3>2. Sym(k) \in {"function", "(", "params", "none", ")", "list", "end"}
      BY <1>2, <2>3
    <3> QED BY <3>1, <3>2 DEF Textual
  <2> QED BY <2>1, <2>2, <2>3
<1>9. reduce(8, "statement", v, freed) /\ 8 \in 0 .. Last
  BY <1>1, <1>2 DEF function_def
<1> HIDE DEF v, freed, P
<1> QED BY <1>2, <1>3, <1>4, <1>5, <1>6, <1>7, <1>8, <1>9, Reduces DEF Phrase

LEMMA Comma == "," \notin Textual \cup {"(", ")"}
BY Zenon DEF Textual

LEMMA ParamsReduces ==
  ASSUME IInv, param_list
  PROVE  \E n, x, node, freed : Reduction(n, x, node, freed)
<1>1. Last \in Nat \ {0}
  BY Facts
<1>2. CASE Ends(<< {"function"}, {"name"}, {"("} >>) /\ reduce(0, "none", None, {})
  <2>1. Sym(Last) = "("
    BY <1>1, <1>2, Ends3
  <2>2. Stands(stack, Last, "none") /\ Last - 0 = Last
    BY <1>1, <2>1, ParamsStands DEF Sym
  <2>3. Balanced(0)
    BY <1>1 DEF Balanced
  <2>4. Means("none", None)
    BY NodeIs DEF Means, None
  <2>5. /\ 0 \in 0 .. Last /\ 0 < Last /\ {} = { At(k) : k \in {} }
        /\ \A k \in Last - 0 + 1 .. Last : Sym(k) \in Textual <=> k \in {}
    BY <1>1
  <2> QED BY <1>2, <2>1, <2>2, <2>3, <2>4, <2>5, Reduces DEF Phrase
<1>3. CASE /\ Ends(<< {"("}, {"name"}, {"type"} >>)
           /\ reduce(2, "params", Node("params", 0, << Value(2, 1) >>),
                     {Value(2, 1).at, Value(2, 2).at})
  <2> DEFINE v == Node("params", 0, << Value(2, 1) >>)
             freed == {Value(2, 1).at, Value(2, 2).at}
             P == {Last - 1, Last}
  <2>1. Last >= 3 /\ Sym(Last - 2) = "(" /\ Sym(Last - 1) = "name" /\ Sym(Last) = "type"
    BY <1>1, <1>3, Ends3
  <2>2. Stands(stack, Last - 2, "params")
    BY <2>1, ParamsStands DEF Sym
  <2>3. Balanced(2)
    BY <1>1, <2>1 DEF Balanced, Weight
  <2>4. Means("params", v)
    BY NodeIs DEF Means
  <2>5. freed = { At(k) : k \in P }
    BY <1>1 DEF Value, Last, At
  <2>6. /\ \A k \in Last - 2 + 1 .. Last : Sym(k) \in Textual <=> k \in P
        /\ \A k \in P : k \in Last - 2 + 1 .. Last
    BY <1>1, <2>1 DEF Textual
  <2>7. reduce(2, "params", v, freed) /\ 2 \in 0 .. Last /\ 2 < Last
    BY <1>1, <1>3, <2>1
  <2> HIDE DEF v, freed, P
  <2> QED BY <2>1, <2>2, <2>3, <2>4, <2>5, <2>6, <2>7, Reduces DEF Phrase
<1>4. CASE /\ Ends(<< {"params"}, {","}, {"name"}, {"type"} >>)
           /\ reduce(4, "params", [Value(4, 1) EXCEPT !.kids = Append(@, Value(4, 3))],
                     {Value(4, 3).at, Value(4, 4).at})
  <2> DEFINE v == [Value(4, 1) EXCEPT !.kids = Append(@, Value(4, 3))]
             freed == {Value(4, 3).at, Value(4, 4).at}
             P == {Last - 1, Last}
  <2>0. /\ Last >= 4 /\ Sym(Last - 3) \in {"params"} /\ Sym(Last - 2) \in {","}
        /\ Sym(Last - 1) \in {"name"} /\ Sym(Last) \in {"type"}
    BY <1>1, <1>4, Ends4, Zenon
  <2>1. /\ Last >= 4 /\ Sym(Last - 3) = "params" /\ Sym(Last - 2) \notin Textual \cup {"(", ")"}
        /\ Sym(Last - 1) = "name" /\ Sym(Last) = "type"
    BY <2>0, Comma, Zenon
  <2>2. 4 < Last /\ Stands(stack, Last - 4, "params")
    <3>1. Last - 4 + 1 = Last - 3 /\ 4 \in 1 .. Last
      BY <1>1, <2>1
    <3> QED BY <2>1, <3>1, Before1
  <2>3. Balanced(4)
    BY <1>1, <2>1 DEF Balanced, Weight
  <2>4. Means("params", v)
    <3>1. Last - 3 \in 1 .. Last /\ Value(4, 1) = stack[Last - 3].node
      BY <1>1, <2>1 DEF Value, Last
    <3>2. Means("params", Value(4, 1))
      BY <2>1, <3>1 DEF IInv, Typed
    <3> QED BY <3>2, Changed DEF Means
  <2>5. freed = { At(k) : k \in P }
    BY <1>1 DEF Value, Last, At
  <2>6. /\ \A k \in Last - 4 + 1 .. Last : Sym(k) \in Textual <=> k \in P
        /\ \A k \in P : k \in Last - 4 + 1 .. Last
    BY <1>1, <2>1 DEF Textual
  <2>7. 4 \in 0 .. Last
    BY <1>1, <2>1
  <2>8. reduce(4, "params", v, freed)
    BY <1>4, Zenon
  <2> HIDE DEF v, freed, P
  <2> QED BY <2>1, <2>2, <2>3, <2>4, <2>5, <2>6, <2>7, <2>8, Reduces DEF Phrase
<1> QED BY <1>2, <1>3, <1>4 DEF param_list

LEMMA ArgsReduces ==
  ASSUME IInv, arg_list
  PROVE  \E n, x, node, freed : Reduction(n, x, node, freed)
<1>1. Last \in Nat \ {0}
  BY Facts
<1>2. CASE AtArgument /\ reduce(0, "none", None, {})
  <2>1. Sym(Last) = "("
    BY <1>1, <1>2, Ends2 DEF AtArgument
  <2>2. Stands(stack, Last, "none") /\ Last - 0 = Last
    BY <1>1, <2>1, ParamsStands DEF Sym
  <2>3. Balanced(0)
    BY <1>1 DEF Balanced
  <2>4. Means("none", None)
    BY NodeIs DEF Means, None
  <2>5. /\ 0 \in 0 .. Last /\ 0 < Last /\ {} = { At(k) : k \in {} }
        /\ \A k \in Last - 0 + 1 .. Last : Sym(k) \in Textual <=> k \in {}
    BY <1>1
  <2> QED BY <1>2, <2>1, <2>2, <2>3, <2>4, <2>5, Reduces DEF Phrase
<1>3. CASE /\ Ends(<< {"name", "print"}, {"("}, {"expr"} >>)
           /\ reduce(1, "args", Node("args", 0, << Value(1, 1) >>), {})
  <2> DEFINE v == Node("args", 0, << Value(1, 1) >>)
  <2>1. Last >= 3 /\ Sym(Last - 1) = "(" /\ Sym(Last) = "expr"
    BY <1>1, <1>3, Ends3
  <2>2. Stands(stack, Last - 1, "args")
    <3>1. Last - 1 + 1 = Last /\ 1 \in 1 .. Last
      BY <1>1
    <3>2. Stands(stack, Last - 1, "expr")
      BY <2>1, <3>1, Before1
    <3>3. ~InHeader(stack, Last - 1)
      BY <3>2 DEF Stands
    <3> QED BY <2>1, <3>3, ArgsStands DEF Sym
  <2>3. Balanced(1)
    BY <1>1, <2>1 DEF Balanced, Weight
  <2>4. Means("args", v)
    BY NodeIs DEF Means
  <2>5. /\ 1 \in 0 .. Last /\ 1 < Last /\ {} = { At(k) : k \in {} }
        /\ \A k \in Last - 1 + 1 .. Last : Sym(k) \in Textual <=> k \in {}
    BY <1>1, <2>1 DEF Textual
  <2> QED BY <1>3, <2>1, <2>2, <2>3, <2>4, <2>5, Reduces DEF Phrase
<1>4. CASE /\ Ends(<< {"args"}, {","}, {"expr"} >>)
           /\ reduce(3, "args", [Value(3, 1) EXCEPT !.kids = push_back(@, Value(3, 3))], {})
  <2> DEFINE v == [Value(3, 1) EXCEPT !.kids = push_back(@, Value(3, 3))]
  <2>0. Last >= 3 /\ Sym(Last - 2) \in {"args"} /\ Sym(Last - 1) \in {","} /\ Sym(Last) \in {"expr"}
    BY <1>1, <1>4, Ends3, Zenon
  <2>1. /\ Last >= 3 /\ Sym(Last - 2) = "args" /\ Sym(Last - 1) \notin Textual \cup {"(", ")"}
        /\ Sym(Last) = "expr"
    BY <2>0, Comma, Zenon
  <2>2. 3 < Last /\ Stands(stack, Last - 3, "args")
    <3>1. Last - 3 + 1 = Last - 2 /\ 3 \in 1 .. Last
      BY <1>1, <2>1
    <3> QED BY <2>1, <3>1, Before1
  <2>3. Balanced(3)
    BY <1>1, <2>1 DEF Balanced, Weight
  <2>4. Means("args", v)
    <3>1. Last - 2 \in 1 .. Last /\ Value(3, 1) = stack[Last - 2].node
      BY <1>1, <2>1 DEF Value, Last
    <3>2. Means("args", Value(3, 1))
      BY <2>1, <3>1 DEF IInv, Typed
    <3> QED BY <3>2, Changed DEF Means
  <2>5. /\ 3 \in 0 .. Last /\ {} = { At(k) : k \in {} }
        /\ \A k \in Last - 3 + 1 .. Last : Sym(k) \in Textual <=> k \in {}
    BY <1>1, <2>1 DEF Textual
  <2>6. reduce(3, "args", v, {})
    BY <1>4
  <2> HIDE DEF v
  <2> QED BY <2>1, <2>2, <2>3, <2>4, <2>5, <2>6, Reduces DEF Phrase
<1> QED BY <1>2, <1>3, <1>4 DEF arg_list

\* A call is where a statement may stand, or an operand.
LEMMA CallStands ==
  ASSUME IInv, function_call
  PROVE  /\ Last \in Nat \ {0} /\ 4 < Last /\ Sym(Last - 3) = "name" /\ Sym(Last - 2) = "("
         /\ Sym(Last - 1) \in {"args", "none"} /\ Sym(Last) = ")"
         /\ IF Sym(Last - 4) = "list" THEN Stands(stack, Last - 4, "statement")
                                      ELSE Stands(stack, Last - 4, "expr")
<1>1. Last \in Nat \ {0}
  BY Facts
<1>2. /\ Last >= 4 /\ Sym(Last - 3) = "name" /\ Sym(Last - 2) = "("
      /\ Sym(Last - 1) \in {"args", "none"} /\ Sym(Last) = ")"
  BY <1>1, Ends4 DEF function_call
<1>3. 4 < Last /\ Stands(stack, Last - 4, "name")
  <2>1. Last - 4 + 1 = Last - 3 /\ 4 \in 1 .. Last
    BY <1>1, <1>2
  <2> QED BY <1>2, <2>1, Before1
<1>4. Stands(stack, Last - 3, "(")
  <2>1. Last - 3 + 1 = Last - 2 /\ 3 \in 1 .. Last
    BY <1>1, <1>2
  <2> QED BY <1>2, <2>1, Before1
<1>5. Stands(stack, Last - 2, Sym(Last - 1))
  <2>1. Last - 2 + 1 = Last - 1 /\ 2 \in 1 .. Last
    BY <1>1, <1>2
  <2> QED BY <1>2, <2>1, Before1
<1>6. Sym(Last - 4) \in BeforeOperand \cup {"list", "local", "function", ":"}
  BY <1>3 DEF Stands, Follows, Sym
<1>7. Sym(Last - 4) \notin {"local", ":"}
  <2>1. Last - 3 >= 2 /\ (Last - 3) - 1 = Last - 4
    BY <1>1, <1>3
  <2> QED BY <1>2, <1>4, <2>1 DEF Stands, Sym
<1>8. Sym(Last - 4) # "function"
  <2> SUFFICES ASSUME Sym(Last - 4) = "function" PROVE FALSE
    OBVIOUS
  <2>1. Last - 2 >= 3 /\ (Last - 2) - 1 = Last - 3 /\ (Last - 2) - 2 = Last - 4
    BY <1>1, <1>3
  <2>2. InHeader(stack, Last - 2)
    BY <1>2, <2>1 DEF InHeader, Sym
  <2>3. Sym(Last - 1) = "none"
    BY <1>2, <1>5, <2>2 DEF Stands
  <2>4. Last >= 5
    BY <1>1, <1>3
  <2>5. Header
    BY <1>1, <1>2, <2>3, <2>4, HeaderIs
  <2> QED BY <2>5 DEF function_call
<1>9. CASE Sym(Last - 4) = "list"
  BY <1>1, <1>2, <1>3, <1>9, StatementStands DEF Sym
<1>10. CASE Sym(Last - 4) # "list"
  <2>1. Sym(Last - 4) \in BeforeOperand
    BY <1>6, <1>7, <1>8, <1>10
  <2>2. ~InHeader(stack, Last - 4)
    <3>1. Last - 3 >= 4 <=> Last - 4 >= 3
      BY <1>1
    <3>2. (Last - 3) - 1 = Last - 4
      BY <1>1
    <3>3. InHeader(stack, Last - 4) => Last - 4 >= 3
      BY DEF InHeader
    <3>4. stack[Last - 3].sym = "name"
      BY <1>2 DEF Sym
    <3> QED BY <1>4, <3>1, <3>2, <3>3, <3>4 DEF Stands
  <2>3. Stands(stack, Last - 4, "expr")
    BY <2>1, <2>2, ExprStands DEF Sym
  <2> QED BY <1>1, <1>2, <1>3, <1>10, <2>3
<1> QED BY <1>9, <1>10

LEMMA CallReduces ==
  ASSUME IInv, function_call
  PROVE  \E n, x, node, freed : Reduction(n, x, node, freed)
<1> DEFINE v == Node("call", Value(4, 1).at, Value(4, 3).kids)
           freed == FreedText(Value(4, 1))
           P == {Last - 3}
           x == IF Sym(Last - 4) = "list" THEN "statement" ELSE "expr"
<1>1. /\ Last \in Nat \ {0} /\ 4 < Last /\ Sym(Last - 3) = "name" /\ Sym(Last - 2) = "("
      /\ Sym(Last - 1) \in {"args", "none"} /\ Sym(Last) = ")"
      /\ Stands(stack, Last - 4, x)
  BY CallStands
<1>2. Balanced(4)
  <2> HIDE DEF x
  <2> QED BY <1>1 DEF Balanced, Weight
<1>3. Means(x, v) /\ Built(4, v)
  BY NodeIs DEF Means, Built
<1>4. freed = { At(k) : k \in P }
  <2> HIDE DEF x
  <2> QED BY <1>1 DEF Value, Last, At, FreedText
<1>5. /\ \A k \in Last - 4 + 1 .. Last : Sym(k) \in Textual <=> k \in P
      /\ \A k \in P : k \in Last - 4 + 1 .. Last
  <2> HIDE DEF x
  <2> QED BY <1>1 DEF Textual
<1>6. reduce(4, x, v, freed) /\ 4 \in 0 .. Last /\ x \in {"statement", "expr"}
  BY <1>1 DEF function_call, Sym, Last
<1> HIDE DEF v, freed, P, x
<1> QED BY <1>1, <1>2, <1>3, <1>4, <1>5, <1>6, Reduces DEF Phrase

LEMMA PrintReduces ==
  ASSUME IInv, print_statement
  PROVE  \E n, x, node, freed : Reduction(n, x, node, freed)
<1> DEFINE v == Node("print", Value(4, 1).at, Value(4, 3).kids)
<1>1. Last \in Nat \ {0}
  BY Facts
<1>2. /\ Last >= 4 /\ Sym(Last - 3) = "print" /\ Sym(Last - 2) = "("
      /\ Sym(Last - 1) \in {"args", "none"} /\ Sym(Last) = ")"
  BY <1>1, Ends4 DEF print_statement
<1>3. 4 < Last /\ Stands(stack, Last - 4, "statement")
  <2>1. Last - 4 + 1 = Last - 3 /\ 4 \in 1 .. Last
    BY <1>1, <1>2
  <2>2. 4 < Last /\ Stands(stack, Last - 4, "print")
    BY <1>2, <2>1, Before1
  <2> QED BY <2>2, StatementStands DEF Stands, Follows
<1>4. Balanced(4)
  BY <1>1, <1>2 DEF Balanced, Weight
<1>5. Means("statement", v)
  BY NodeIs DEF Means
<1>6. /\ 4 \in 0 .. Last /\ {} = { At(k) : k \in {} }
      /\ \A k \in Last - 4 + 1 .. Last : Sym(k) \in Textual <=> k \in {}
  BY <1>1, <1>2 DEF Textual
<1>7. reduce(4, "statement", v, {})
  BY DEF print_statement
<1> HIDE DEF v
<1> QED BY <1>2, <1>3, <1>4, <1>5, <1>6, <1>7, Reduces DEF Phrase

\* A statement without a text or a parenthesis of its own, from the word it begins with.
LEMMA KeywordReduces ==
  ASSUME IInv, NEW n \in 1 .. Last, NEW v, reduce(n, "statement", v, {}),
         Means("statement", v),
         Sym(Last - n + 1) \in {"if", "while", "return"},
         \A k \in Last - n + 1 .. Last : Sym(k) \notin Textual \cup {"(", ")", "program"},
         n \in 1 .. 7
  PROVE  \E i, x, node, freed : Reduction(i, x, node, freed)
<1>1. Last \in Nat \ {0}
  BY Facts
<1>2. n < Last /\ Stands(stack, Last - n, "statement")
  <2>1. n < Last /\ Stands(stack, Last - n, Sym(Last - n + 1))
    BY Before1
  <2> QED BY <2>1, StatementStands DEF Stands, Follows
<1>3. Balanced(n)
  <2> SUFFICES ASSUME NEW f,
                      \A k \in Last - n + 1 .. Last :
                        f[k] \in Int /\ f[k + 1] = f[k] + Weight(Sym(k))
               PROVE  f[Last + 1] = f[Last - n + 1]
    BY DEF Balanced
  <2>1. \A k \in Last - n + 1 .. Last : f[k] \in Int /\ f[k + 1] = f[k]
    BY DEF Weight
  <2>2. \A k \in Last - n + 1 .. Last : k + 1 \in Int
    BY <1>1
  <2> QED BY <1>1, <2>1, <2>2
<1>4. /\ n \in 0 .. Last /\ {} = { At(k) : k \in {} } /\ Sym(Last) # "program"
      /\ \A k \in Last - n + 1 .. Last : Sym(k) \in Textual <=> k \in {}
  BY <1>1
<1> QED BY <1>2, <1>3, <1>4, Reduces DEF Phrase

LEMMA IfReduces ==
  ASSUME IInv, if_stmt
  PROVE  \E n, x, node, freed : Reduction(n, x, node, freed)
<1>1. Last \in Nat \ {0}
  BY Facts
<1>2. CASE /\ Ends(<< {"if"}, {"expr"}, {"then"}, {"list"}, {"end"} >>)
           /\ reduce(5, "statement", Node("if", Value(5, 1).at, << Value(5, 2), Value(5, 4) >>), {})
  <2> DEFINE v == Node("if", Value(5, 1).at, << Value(5, 2), Value(5, 4) >>)
  <2>1. /\ Last >= 5 /\ Sym(Last - 4) = "if" /\ Sym(Last - 3) = "expr" /\ Sym(Last - 2) = "then"
        /\ Sym(Last - 1) = "list" /\ Sym(Last) = "end"
    BY <1>1, <1>2, Ends5
  <2>2. /\ 5 \in 1 .. Last /\ Last - 5 + 1 = Last - 4
        /\ \A k \in Last - 5 + 1 .. Last : Sym(k) \notin Textual \cup {"(", ")", "program"}
    BY <1>1, <2>1 DEF Textual
  <2>3. Means("statement", v)
    BY NodeIs DEF Means
  <2>4. reduce(5, "statement", v, {}) /\ 5 \in 1 .. 7
    BY <1>2
  <2> HIDE DEF v
  <2> QED BY <2>1, <2>2, <2>3, <2>4, KeywordReduces
<1>3. CASE /\ Ends(<< {"if"}, {"expr"}, {"then"}, {"list"}, {"else"}, {"list"}, {"end"} >>)
           /\ reduce(7, "statement",
                     Node("if", Value(7, 1).at, << Value(7, 2), Value(7, 4), Value(7, 6) >>), {})
  <2> DEFINE v == Node("if", Value(7, 1).at, << Value(7, 2), Value(7, 4), Value(7, 6) >>)
  <2>1. /\ Last >= 7 /\ Sym(Last - 6) = "if" /\ Sym(Last - 5) = "expr" /\ Sym(Last - 4) = "then"
        /\ Sym(Last - 3) = "list" /\ Sym(Last - 2) = "else" /\ Sym(Last - 1) = "list"
        /\ Sym(Last) = "end"
    BY <1>1, <1>3, Ends7
  <2>2. 7 \in 1 .. Last /\ Last - 7 + 1 = Last - 6
    BY <1>1, <2>1
  <2>3. ASSUME NEW k \in Last - 7 + 1 .. Last
        PROVE  Sym(k) \notin Textual \cup {"(", ")", "program"}
    <3>1. k \in {Last - 6, Last - 5, Last - 4, Last - 3, Last - 2, Last - 1, Last}
      BY <1>1, <2>1
    <3>2. Sym(k) \in {"if", "expr", "then", "list", "else", "end"}
      BY <2>1, <3>1
    <3> QED BY <3>2 DEF Textual
  <2>4. Means("statement", v)
    BY NodeIs DEF Means
  <2>5. reduce(7, "statement", v, {}) /\ 7 \in 1 .. 7
    BY <1>3
  <2> HIDE DEF v
  <2> QED BY <2>1, <2>2, <2>3, <2>4, <2>5, KeywordReduces
<1> QED BY <1>2, <1>3 DEF if_stmt

LEMMA WhileReduces ==
  ASSUME IInv, while_stmt
  PROVE  \E n, x, node, freed : Reduction(n, x, node, freed)
<1> DEFINE v == Node("while", Value(5, 1).at, << Value(5, 2), Value(5, 4) >>)
<1>1. Last \in Nat \ {0}
  BY Facts
<1>2. /\ Last >= 5 /\ Sym(Last - 4) = "while" /\ Sym(Last - 3) = "expr" /\ Sym(Last - 2) = "do"
      /\ Sym(Last - 1) = "list" /\ Sym(Last) = "end"
  BY <1>1, Ends5 DEF while_stmt
<1>3. /\ 5 \in 1 .. Last /\ Last - 5 + 1 = Last - 4
      /\ \A k \in Last - 5 + 1 .. Last : Sym(k) \notin Textual \cup {"(", ")", "program"}
  BY <1>1, <1>2 DEF Textual
<1>4. Means("statement", v)
  BY NodeIs DEF Means
<1>5. reduce(5, "statement", v, {}) /\ 5 \in 1 .. 7
  BY DEF while_stmt
<1> HIDE DEF v
<1> QED BY <1>2, <1>3, <1>4, <1>5, KeywordReduces

LEMMA ReturnReduces ==
  ASSUME IInv, return_stmt
  PROVE  \E n, x, node, freed : Reduction(n, x, node, freed)
<1>1. Last \in Nat \ {0}
  BY Facts
<1>2. CASE /\ Ends(<< {"return"}, {"expr"} >>)
           /\ reduce(2, "statement", Node("return", Value(2, 1).at, << Value(2, 2) >>), {})
  <2> DEFINE v == Node("return", Value(2, 1).at, << Value(2, 2) >>)
  <2>1. Last >= 2 /\ Sym(Last - 1) = "return" /\ Sym(Last) = "expr"
    BY <1>1, <1>2, Ends2
  <2>2. /\ 2 \in 1 .. Last /\ Last - 2 + 1 = Last - 1
        /\ \A k \in Last - 2 + 1 .. Last : Sym(k) \notin Textual \cup {"(", ")", "program"}
    BY <1>1, <2>1 DEF Textual
  <2>3. Means("statement", v)
    BY NodeIs DEF Means
  <2>4. reduce(2, "statement", v, {}) /\ 2 \in 1 .. 7
    BY <1>2
  <2> HIDE DEF v
  <2> QED BY <2>1, <2>2, <2>3, <2>4, KeywordReduces
<1>3. CASE /\ Ends(<< {"return"} >>)
           /\ reduce(1, "statement", Node("return", Value(1, 1).at, << >>), {})
  <2> DEFINE v == Node("return", Value(1, 1).at, << >>)
  <2>1. Sym(Last) = "return"
    BY <1>1, <1>3, Ends1
  <2>2. /\ 1 \in 1 .. Last /\ Last - 1 + 1 = Last
        /\ \A k \in Last - 1 + 1 .. Last : Sym(k) \notin Textual \cup {"(", ")", "program"}
    BY <1>1, <2>1 DEF Textual
  <2>3. Means("statement", v)
    BY NodeIs DEF Means
  <2>4. reduce(1, "statement", v, {}) /\ 1 \in 1 .. 7
    BY <1>3
  <2> HIDE DEF v
  <2> QED BY <2>1, <2>2, <2>3, <2>4, KeywordReduces
<1> QED BY <1>2, <1>3 DEF return_stmt

LEMMA BinaryReduces ==
  ASSUME IInv, binary_expr
  PROVE  \E n, x, node, freed : Reduction(n, x, node, freed)
<1> DEFINE v == Node("binary", Value(3, 2).at, << Value(3, 1), Value(3, 3) >>)
<1>1. Last \in Nat \ {0}
  BY Facts
<1>2. Last >= 3 /\ Sym(Last - 2) = "expr" /\ Sym(Last - 1) \in Binary /\ Sym(Last) = "expr"
  BY <1>1, Ends3 DEF binary_expr, Infix
<1>3. 3 < Last /\ Stands(stack, Last - 3, "expr")
  <2>1. Last - 3 + 1 = Last - 2 /\ 3 \in 1 .. Last
    BY <1>1, <1>2
  <2> QED BY <1>2, <2>1, Before1
<1>4. \A y \in Binary : y \notin Textual /\ Weight(y) = 0
  BY DEF Textual, Weight, Binary
<1>5. Balanced(3)
  <2>1. Weight("expr") = 0
    BY DEF Weight
  <2> QED BY <1>1, <1>2, <1>4, <2>1 DEF Balanced
<1>6. Means("expr", v) /\ Built(3, v)
  <2>1. /\ Value(3, 1) = stack[Last - 2].node /\ Value(3, 3) = stack[Last].node
        /\ Value(3, 2).at = At(Last - 1)
    BY <1>1 DEF Value, At, Last
  <2> QED BY <2>1, NodeIs DEF Means, Built, binary_expr
<1>7. /\ 3 \in 0 .. Last /\ {} = { At(k) : k \in {} }
      /\ \A k \in Last - 3 + 1 .. Last : Sym(k) \in Textual <=> k \in {}
  <2>1. "expr" \notin Textual
    BY DEF Textual
  <2> QED BY <1>1, <1>2, <1>4, <2>1
<1>8. reduce(3, "expr", v, {})
  BY DEF binary_expr
<1> HIDE DEF v
<1> QED BY <1>2, <1>3, <1>5, <1>6, <1>7, <1>8, Reduces DEF Phrase

LEMMA UnaryReduces ==
  ASSUME IInv, unary_expr
  PROVE  \E n, x, node, freed : Reduction(n, x, node, freed)
<1> DEFINE v == Node("unary", Value(2, 1).at, << Value(2, 2) >>)
<1>1. Last \in Nat \ {0}
  BY Facts
<1>2. Last >= 2 /\ Sym(Last - 1) \in {"not", "-"} /\ Sym(Last) = "expr"
  BY <1>1, Ends2 DEF unary_expr, Prefix
<1>3. 2 < Last /\ Stands(stack, Last - 2, "expr")
  <2>1. Last - 2 + 1 = Last - 1 /\ 2 \in 1 .. Last
    BY <1>1, <1>2
  <2>2. 2 < Last /\ Stands(stack, Last - 2, Sym(Last - 1))
    BY <1>2, <2>1, Before1
  <2>3. Sym(Last - 2) \in BeforeOperand
    <3>1. CASE Sym(Last - 1) = "not"
      BY <2>2, <3>1 DEF Stands, Follows, Sym
    <3>2. CASE Sym(Last - 1) = "-"
      <4>1. Sym(Last - 2) \in BeforeOperand \cup {"expr"}
        BY <2>2, <3>2 DEF Stands, Follows, Sym
      <4>2. ~Infix /\ Last >= 3
        BY <1>1, <2>2 DEF unary_expr, Prefix
      <4>3. Infix <=> /\ Last >= 3 /\ Sym(Last - 2) \in {"expr"} /\ Sym(Last - 1) \in Binary
                      /\ Sym(Last) \in {"expr"}
        BY <1>1, Ends3 DEF Infix
      <4>4. "-" \in Binary
        BY DEF Binary
      <4> QED BY <1>2, <3>2, <4>1, <4>2, <4>3, <4>4
    <3> QED BY <1>2, <3>1, <3>2
  <2>4. ~InHeader(stack, Last - 2)
    BY <1>2, <2>2 DEF Stands
  <2> QED BY <2>2, <2>3, <2>4, ExprStands DEF Sym
<1>4. Balanced(2)
  BY <1>1, <1>2 DEF Balanced, Weight
<1>5. Means("expr", v) /\ Built(2, v)
  <2>1. Value(2, 2) = stack[Last].node /\ Value(2, 1).at = At(Last - 1)
    BY <1>1 DEF Value, At, Last
  <2> QED BY <2>1, NodeIs DEF Means, Built, unary_expr
<1>6. /\ 2 \in 0 .. Last /\ {} = { At(k) : k \in {} }
      /\ \A k \in Last - 2 + 1 .. Last : Sym(k) \in Textual <=> k \in {}
  BY <1>1, <1>2 DEF Textual
<1>7. reduce(2, "expr", v, {})
  BY DEF unary_expr
<1> HIDE DEF v
<1> QED BY <1>2, <1>3, <1>4, <1>5, <1>6, <1>7, Reduces DEF Phrase

LEMMA PrimaryReduces ==
  ASSUME IInv, primary_expr
  PROVE  \E n, x, node, freed : Reduction(n, x, node, freed)
<1>1. Last \in Nat \ {0}
  BY Facts
<1>2. CASE /\ Ends(<< {"literal"} >>) \/ (Ends(<< BeforeOperand, {"name"} >>) /\ ~Parameter)
           /\ reduce(1, "expr", [Value(1, 1) EXCEPT !.kind = "leaf"], {Value(1, 1).at})
  <2> DEFINE v == [Value(1, 1) EXCEPT !.kind = "leaf"]
             freed == {Value(1, 1).at}
             P == {Last}
  <2> HIDE DEF v, freed, P
  <2>1. \/ Sym(Last) = "literal"
        \/ Last >= 2 /\ Sym(Last - 1) \in BeforeOperand /\ Sym(Last) = "name" /\ ~Parameter
    <3>1. Ends(<< {"literal"} >>) => Sym(Last) = "literal"
      BY <1>1, Ends1
    <3>2. Ends(<< BeforeOperand, {"name"} >>)
            => Last >= 2 /\ Sym(Last - 1) \in BeforeOperand /\ Sym(Last) = "name"
      BY <1>1, Ends2
    <3> QED BY <1>2, <3>1, <3>2, Zenon
  <2>2. Sym(Last) \in {"literal", "name"}
    BY <2>1
  <2>3. 1 < Last /\ Stands(stack, Last - 1, Sym(Last))
    <3>1. Last - 1 + 1 = Last /\ 1 \in 1 .. Last
      BY <1>1
    <3> QED BY <2>2, <3>1, Before1
  <2>4. Sym(Last - 1) \in BeforeOperand /\ ~InHeader(stack, Last - 1)
    <3>1. CASE Sym(Last) = "literal"
      BY <2>3, <3>1 DEF Stands, Follows, Sym
    <3>2. CASE Sym(Last) = "name"
      <4>1. Sym(Last - 1) \in BeforeOperand /\ ~Parameter
        BY <2>1, <3>2
      <4>2. InHeader(stack, Last - 1) => Last - 1 >= 3
        BY DEF InHeader
      <4>3. Last - 1 >= 3 => Last >= 4
        BY <1>1
      <4>4. Last \in Nat
        BY <1>1
      <4> QED BY <3>2, <4>1, <4>2, <4>3, <4>4, ParameterIs
    <3> QED BY <2>2, <3>1, <3>2
  <2>5. Stands(stack, Last - 1, "expr")
    BY <2>4, ExprStands DEF Sym
  <2>6. Balanced(1)
    BY <1>1, <2>2 DEF Balanced, Weight
  <2>7. Means("expr", v) /\ Built(1, v)
    <3>1. Last \in 1 .. Last /\ Value(1, 1) = stack[Last].node
      BY <1>1 DEF Value, Last
    <3>2. IsNode(Value(1, 1))
      BY <3>1 DEF IInv, Typed, Means
    <3> QED BY <3>2, Changed DEF Means, Built, v
  <2>8. freed = { At(k) : k \in P }
    BY <1>1 DEF Value, Last, At, freed, P
  <2>9. /\ \A k \in Last - 1 + 1 .. Last : Sym(k) \in Textual <=> k \in P
        /\ \A k \in P : k \in Last - 1 + 1 .. Last
    BY <1>1, <2>2 DEF Textual, P
  <2>10. reduce(1, "expr", v, freed)
    BY <1>2, Zenon DEF v, freed
  <2>11. 1 \in 0 .. Last
    BY <1>1
  <2> QED BY <2>2, <2>3, <2>5, <2>6, <2>7, <2>8, <2>9, <2>10, <2>11, Reduces DEF Phrase
<1>3. CASE Ends(<< {"("}, {"expr"}, {")"} >>) /\ reduce(3, "expr", Value(3, 2), {})
  <2> DEFINE v == Value(3, 2)
  <2> HIDE DEF v
  <2>1. Last >= 3 /\ Sym(Last - 2) = "(" /\ Sym(Last - 1) = "expr" /\ Sym(Last) = ")"
    BY <1>1, <1>3, Ends3
  <2>2. 3 < Last /\ Stands(stack, Last - 3, "(")
    <3>1. Last - 3 + 1 = Last - 2 /\ 3 \in 1 .. Last
      BY <1>1, <2>1
    <3> QED BY <2>1, <3>1, Before1
  <2>3. Sym(Last - 3) \notin {"name", "print"}
    <3>1. Last - 1 + 1 = Last /\ 1 \in 1 .. Last /\ Last - 1 >= 3 /\ (Last - 1) - 2 = Last - 3
      BY <1>1, <2>2
    <3>2. Stands(stack, Last - 1, ")")
      BY <2>1, <3>1, Before1
    <3> QED BY <2>1, <3>1, <3>2 DEF Stands, Sym
  <2>4. Sym(Last - 3) \in BeforeOperand /\ ~InHeader(stack, Last - 3)
    BY <2>2, <2>3 DEF Stands, Follows, Sym
  <2>5. Stands(stack, Last - 3, "expr")
    BY <2>4, ExprStands DEF Sym
  <2>6. Balanced(3)
    BY <1>1, <2>1 DEF Balanced, Weight
  <2>7. Means("expr", v) /\ Built(3, v)
    <3>1. Last - 1 \in 1 .. Last /\ v = stack[Last - 1].node
      BY <1>1, <2>1 DEF Value, Last, v
    <3> QED BY <2>1, <3>1 DEF IInv, Typed, Built
  <2>8. /\ 3 \in 0 .. Last /\ {} = { At(k) : k \in {} }
        /\ \A k \in Last - 3 + 1 .. Last : Sym(k) \in Textual <=> k \in {}
    BY <1>1, <2>1 DEF Textual
  <2>9. reduce(3, "expr", v, {})
    BY <1>3 DEF v
  <2> QED BY <2>1, <2>2, <2>5, <2>6, <2>7, <2>8, <2>9, Reduces DEF Phrase
<1> QED BY <1>2, <1>3, Zenon DEF primary_expr

Rules == \/ empty_statement_list \/ statement_list \/ assignment \/ opt_type_annotation
         \/ function_def \/ param_list \/ arg_list \/ function_call \/ print_statement
         \/ if_stmt \/ while_stmt \/ return_stmt
         \/ binary_expr \/ unary_expr \/ primary_expr

LEMMA RulesReduce ==
  ASSUME IInv, Rules
  PROVE  \E n, x, node, freed : Reduction(n, x, node, freed)
BY EmptyListReduces, StatementListReduces, AssignmentReduces, TypeReduces, FunctionReduces,
   ParamsReduces, ArgsReduces, CallReduces, PrintReduces, IfReduces, WhileReduces,
   ReturnReduces, BinaryReduces, UnaryReduces, PrimaryReduces DEF Rules

-------------------------------------------------------------------------------
(* A token that is shifted, the last reduction, and the beginning. *)

LEMMA ReadOn ==
  ASSUME text \in Seq(Token \cup {"$end"}), NEW t \in Token \cup {"$end"}, yylex(t)
  PROVE  /\ text' \in Seq(Token \cup {"$end"}) /\ text' # << >> /\ here' = here + 1
         /\ text'[here + 1] = t /\ \A q \in 1 .. here : text'[q] = text[q]
BY DEF yylex, here

LEMMA ShiftIs ==
  ASSUME IInv, shift
  PROVE  /\ IsStack(stack') /\ Len(stack') = Last + 1 /\ look \in Token
         /\ stack'[Last + 1].sym = look
         /\ stack'[Last + 1].node = Node("token", here, << >>)
         /\ \A k \in 1 .. Last : stack'[k] = stack[k]
         /\ Stands(stack, Last, look) /\ Sym(1) = "list"
<1>1. stack' = Append(stack, [sym |-> look, node |-> Node("token", here, << >>)])
  BY DEF shift, Node
<1>2. look \in Token /\ Last \in Nat \ {0} /\ IsStack(stack)
  BY Facts DEF shift
<1>3. Stands(stack, Last, look)
  BY <1>2, ShiftStands DEF shift
<1>4. /\ IsStack(stack') /\ Len(stack') = Last + 1
      /\ stack'[Last + 1] = [sym |-> look, node |-> Node("token", here, << >>)]
      /\ \A k \in 1 .. Last : stack'[k] = stack[k]
  BY <1>1, <1>2, Pushed DEF Last
<1>5. Sym(1) = "list"
  <2>1. Sym(1) \in {"list", "program"} /\ (Sym(1) = "program" => Last = 1)
    BY DEF IInv, Viable, Sym, Last
  <2>2. ~Stands(stack, 1, look) \/ Sym(1) # "program"
    <3> SUFFICES ASSUME Sym(1) = "program", Follows("program", look) PROVE FALSE
      BY DEF Stands, Sym
    <3>1. "program" \notin BeforeOperand
      BY Zenon DEF BeforeOperand, Binary
    <3>2. look \in Token
      BY <1>2
    <3> QED BY <3>1, <3>2, Zenon DEF Follows, Token, Binary
  <2> QED BY <1>3, <2>1, <2>2
<1> QED BY <1>2, <1>3, <1>4, <1>5

LEMMA ShiftTexts ==
  ASSUME IInv, shift
  PROVE  Texts'
<1> DEFINE S(k) == stack'[k].sym
           A(k) == stack'[k].node.at
           n == Last
           h == here
<1>1. PICK t \in Token \cup {"$end"} : yylex(t)
  BY DEF shift
<1>2. /\ n \in Nat \ {0} /\ h \in Nat \ {0} /\ here' = h + 1 /\ text'[h + 1] = t
      /\ \A q \in 1 .. h : text'[q] = text[q]
      /\ strings' = IF t \in {"name", "literal"} THEN strings \cup {h + 1} ELSE strings
      /\ look = text[h]
  <2>1. text \in Seq(Token \cup {"$end"})
    BY DEF IInv, Typed
  <2>2. here' = here + 1 /\ text'[here + 1] = t /\ \A q \in 1 .. here : text'[q] = text[q]
    BY <1>1, <2>1, ReadOn
  <2>3. strings' = IF t \in {"name", "literal"} THEN strings \cup {here + 1} ELSE strings
    BY <1>1 DEF yylex
  <2> QED BY <2>2, <2>3, Facts DEF look, here
<1>3. /\ Len(stack') = n + 1 /\ DOMAIN stack' = 1 .. n + 1 /\ S(n + 1) = look /\ A(n + 1) = h
      /\ \A k \in 1 .. n : S(k) = Sym(k) /\ A(k) = At(k)
  <2>1. /\ Len(stack') = Last + 1 /\ IsStack(stack') /\ stack'[Last + 1].sym = look
        /\ stack'[Last + 1].node = Node("token", here, << >>)
        /\ \A k \in 1 .. Last : stack'[k] = stack[k]
    BY ShiftIs
  <2>2. DOMAIN stack' = 1 .. Last + 1
    BY <2>1, StackIs
  <2> QED BY <2>1, <2>2, NodeIs DEF Sym, At
<1>4. look \in Textual => look \in {"name", "literal"}
  <2>1. look \in Token
    BY ShiftIs
  <2> QED BY <2>1, Zenon DEF Token, Binary, Textual
<1>5. /\ \A k \in 1 .. n : Sym(k) \in Textual =>
           /\ At(k) \in 0 .. h - 1
           /\ At(k) = 0 => Sym(k) = "type"
           /\ At(k) # 0 => text[At(k)] \in {"name", "literal"}
      /\ \A j, k \in 1 .. n :
           Sym(j) \in Textual /\ Sym(k) \in Textual /\ At(j) = At(k) /\ At(j) # 0 => j = k
  BY DEF IInv, Texts
<1>6. strings = { q \in 1 .. h : text[q] \in {"name", "literal"} /\
                    (q = h \/ \E k \in 1 .. n : Sym(k) \in Textual /\ At(k) = q) }
  BY Facts DEF IInv, Texts, StringsFreed, Textual, Sym, At
<1> HIDE DEF S, A, n, h
<1>7. ASSUME NEW k \in 1 .. n + 1, S(k) \in Textual
      PROVE  /\ A(k) \in 0 .. h
             /\ A(k) = 0 => S(k) = "type"
             /\ A(k) # 0 => text'[A(k)] \in {"name", "literal"}
  <2>1. CASE k \in 1 .. n
    <3>1. S(k) = Sym(k) /\ A(k) = At(k)
      BY <1>3, <2>1
    <3>2. A(k) \in 0 .. h - 1
      BY <1>5, <1>7, <2>1, <3>1
    <3>3. A(k) \in 0 .. h /\ (A(k) # 0 => A(k) \in 1 .. h)
      BY <1>2, <3>2
    <3> QED BY <1>2, <1>5, <1>7, <2>1, <3>1, <3>3
  <2>2. CASE k = n + 1
    <3>1. A(k) = h /\ S(k) = look /\ text'[h] = look /\ h \in 0 .. h /\ h # 0
      BY <1>2, <1>3, <2>2
    <3> QED BY <1>4, <1>7, <3>1
  <2> QED BY <1>2, <2>1, <2>2
<1>8. ASSUME NEW j \in 1 .. n + 1, NEW k \in 1 .. n + 1,
             S(j) \in Textual, S(k) \in Textual, A(j) = A(k), A(j) # 0
      PROVE  j = k
  <2>1. \A i \in 1 .. n : S(i) \in Textual => A(i) # h
    BY <1>2, <1>3, <1>5
  <2>2. CASE j \in 1 .. n /\ k \in 1 .. n
    BY <1>3, <1>5, <1>8, <2>2
  <2>3. CASE j = n + 1 \/ k = n + 1
    <3>1. A(j) = h /\ A(k) = h
      BY <1>3, <1>8, <2>3
    <3>2. j \notin 1 .. n /\ k \notin 1 .. n
      BY <1>8, <2>1, <3>1
    <3> QED BY <1>2, <3>2
  <2> QED BY <1>2, <2>2, <2>3
<1>9. ASSUME NEW q \in 1 .. h + 1
      PROVE  q \in strings' <=> /\ text'[q] \in {"name", "literal"}
                                /\ q = h + 1 \/ \E k \in 1 .. n + 1 : S(k) \in Textual /\ A(k) = q
  <2>1. CASE q = h + 1
    <3>1. h + 1 \notin strings
      BY <1>2, <1>6
    <3> QED BY <1>2, <2>1, <3>1
  <2>2. CASE q \in 1 .. h
    <3>1. text'[q] = text[q] /\ q # h + 1 /\ (q \in strings' <=> q \in strings)
      BY <1>2, <2>2
    <3>2. CASE q = h
      <4>1. q \in strings <=> look \in {"name", "literal"}
        BY <1>2, <1>6, <3>2
      <4>2. look \in {"name", "literal"} => look \in Textual
        BY DEF Textual
      <4>3. n + 1 \in 1 .. n + 1 /\ S(n + 1) = look /\ A(n + 1) = q
        BY <1>2, <1>3, <3>2
      <4> QED BY <1>2, <3>1, <3>2, <4>1, <4>2, <4>3
    <3>3. CASE q # h
      <4>1. (\E k \in 1 .. n + 1 : S(k) \in Textual /\ A(k) = q)
              <=> \E k \in 1 .. n : Sym(k) \in Textual /\ At(k) = q
        BY <1>2, <1>3, <3>3
      <4>2. q \in strings <=> /\ text[q] \in {"name", "literal"}
                              /\ \E k \in 1 .. n : Sym(k) \in Textual /\ At(k) = q
        BY <1>6, <2>2, <3>3
      <4> QED BY <3>1, <4>1, <4>2
    <3> QED BY <3>2, <3>3
  <2> QED BY <1>2, <2>1, <2>2
<1>10. \A q \in strings' : q \in 1 .. h + 1
  BY <1>2, <1>6
<1>11. strings' = { q \in 1 .. h + 1 : text'[q] \in {"name", "literal"} /\
                      (q = h + 1 \/ \E k \in 1 .. n + 1 : S(k) \in Textual /\ A(k) = q) }
  BY <1>9, <1>10
<1>12. StringsFreed'
  BY <1>2, <1>3, <1>11 DEF StringsFreed, S, A, Textual
<1>13. (h + 1) - 1 = h
  BY <1>2
<1> QED BY <1>2, <1>3, <1>7, <1>8, <1>12, <1>13 DEF Texts, S, A, Sym, At, Last, n

LEMMA ShiftInv ==
  ASSUME IInv, shift
  PROVE  IInv'
<1>1. /\ IsStack(stack') /\ Len(stack') = Last + 1 /\ look \in Token
      /\ stack'[Last + 1].sym = look /\ stack'[Last + 1].node = Node("token", here, << >>)
      /\ \A k \in 1 .. Last : stack'[k] = stack[k]
      /\ Stands(stack, Last, look) /\ Sym(1) = "list"
  BY ShiftIs
<1>2. Last \in Nat \ {0} /\ IsStack(stack) /\ Viable(stack)
  BY Facts DEF IInv
<1>3. Viable(stack')
  BY <1>1, <1>2, ViableStep DEF Sym, Last
<1>4. text' \in Seq(Token \cup {"$end"}) /\ text' # << >>
  <2>1. PICK t \in Token \cup {"$end"} : yylex(t)
    BY DEF shift
  <2> QED BY <2>1, ReadOn DEF IInv, Typed
<1>5. ASSUME NEW k \in 1 .. Last + 1
      PROVE  Means(stack'[k].sym, stack'[k].node)
  <2>1. CASE k = Last + 1
    BY <1>1, <2>1, NodeIs DEF Means
  <2>2. CASE k \in 1 .. Last
    BY <1>1, <2>2 DEF IInv, Typed, Sym
  <2> QED BY <1>2, <2>1, <2>2
<1>6. stack'[1].sym # "program"
  BY <1>1, <1>2 DEF Sym
<1>7. Typed'
  BY <1>1, <1>4, <1>5, <1>6 DEF Typed, Sym, Last
<1> QED BY <1>3, <1>7, ShiftTexts DEF IInv

LEMMA ProgramInv ==
  ASSUME IInv, program
  PROVE  IInv'
<1>1. Last = 1 /\ Sym(1) = "list"
  <2>1. Last = 1
    BY DEF program, Last
  <2> QED BY <2>1, Ends1 DEF program
<1>2. /\ stack' = << [sym |-> "program", node |-> stack[1].node] >>
      /\ programRoot' = stack[1].node /\ UNCHANGED << text, strings >>
  BY DEF program
<1>3. /\ IsStack(stack') /\ Len(stack') = 1 /\ DOMAIN stack' = 1 .. 1 /\ DOMAIN stack = 1 .. 1
      /\ stack'[1].sym = "program" /\ stack'[1].node = stack[1].node
  <2> DEFINE e == [sym |-> "program", node |-> stack[1].node]
  <2>1. e.sym = "program" /\ e.node = stack[1].node /\ stack' = << e >>
    BY <1>2
  <2> HIDE DEF e
  <2>2. << e >> \in Seq({e}) /\ DOMAIN << e >> = 1 .. 1 /\ Len(<< e >>) = 1 /\ << e >>[1] = e
    OBVIOUS
  <2>3. Range(<< e >>) = {e}
    <3>1. DOMAIN << e >> = {1}
      BY <2>2
    <3> QED BY <2>2, <3>1 DEF Range
  <2> QED BY <1>1, <2>1, <2>2, <2>3, Facts DEF IsStack
<1>4. Means("list", stack[1].node)
  BY <1>1 DEF IInv, Typed
<1>5. Typed'
  BY <1>2, <1>3, <1>4 DEF IInv, Typed, Means, Sym, Last
<1>6. Viable(stack')
  BY <1>3 DEF Viable
<1>7. Texts'
  <2>1. \A k \in 1 .. 1 : stack[k].sym \notin Textual /\ stack'[k].sym \notin Textual
    BY <1>1, <1>3 DEF Textual, Sym
  <2>2. StringsFreed
    BY DEF IInv, Texts
  <2>3. StringsFreed'
    BY <1>2, <1>3, <2>1, <2>2 DEF StringsFreed, Textual, here
  <2> QED BY <1>3, <2>1, <2>3 DEF Texts, Sym, Last
<1> QED BY <1>5, <1>6, <1>7 DEF IInv

LEMMA InitInv ==
  ASSUME Init
  PROVE  IInv
<1>1. PICK t \in Token \cup {"$end"} :
        text = << t >> /\ strings = IF t \in {"name", "literal"} THEN {1} ELSE {}
  BY DEF Init
<1>2. text \in Seq(Token \cup {"$end"}) /\ text # << >> /\ here = 1 /\ text[1] = t
  BY <1>1 DEF here
<1>3. /\ IsStack(stack) /\ Len(stack) = 1 /\ DOMAIN stack = 1 .. 1
      /\ stack[1].sym = "list" /\ stack[1].node = Node("list", 0, << >>)
  <2> DEFINE e == [sym |-> "list", node |-> Node("list", 0, << >>)]
  <2>1. e.sym = "list" /\ e.node = Node("list", 0, << >>) /\ stack = << e >>
    BY DEF Init
  <2> HIDE DEF e
  <2>2. << e >> \in Seq({e}) /\ DOMAIN << e >> = 1 .. 1 /\ Len(<< e >>) = 1 /\ << e >>[1] = e
    OBVIOUS
  <2>3. Range(<< e >>) = {e}
    <3>1. DOMAIN << e >> = {1}
      BY <2>2
    <3> QED BY <2>2, <3>1 DEF Range
  <2> QED BY <2>1, <2>2, <2>3 DEF IsStack
<1>4. Typed
  BY <1>2, <1>3, NodeIs DEF Typed, Means, Sym, Last
<1>5. Viable(stack)
  BY <1>3 DEF Viable
<1>6. Texts
  <2>1. \A k \in 1 .. 1 : stack[k].sym \notin Textual
    BY <1>3 DEF Textual
  <2>2. StringsFreed
    <3>1. StringsFreed <=> strings = { q \in 1 .. 1 : text[q] \in {"name", "literal"} }
      <4>1. \A q \in 1 .. 1 : q = here
        BY <1>2
      <4> QED BY <1>2, <1>3, <4>1 DEF StringsFreed
    <3>2. \A q \in 1 .. 1 : q = 1
      OBVIOUS
    <3>3. strings = { q \in 1 .. 1 : text[q] \in {"name", "literal"} }
      BY <1>1, <1>2, <3>2
    <3> QED BY <3>1, <3>3
  <2> QED BY <1>3, <2>1, <2>2 DEF Texts, Sym, Last
<1> QED BY <1>4, <1>5, <1>6 DEF IInv

LEMMA NextInv ==
  ASSUME IInv, [Next]_vars
  PROVE  IInv'
<1>1. CASE shift
  BY <1>1, ShiftInv
<1>2. CASE Rules
  <2>1. PICK n, x, node, freed : Reduction(n, x, node, freed)
    BY <1>2, RulesReduce
  <2> QED BY <2>1, RuleInv
<1>3. CASE program
  BY <1>3, ProgramInv
<1>4. CASE UNCHANGED vars
  BY <1>4 DEF vars, IInv, Typed, Texts, StringsFreed, Viable, Sym, At, Last, here
<1> QED BY <1>1, <1>2, <1>3, <1>4 DEF Next, Rules

-------------------------------------------------------------------------------
LEMMA Invariant == Spec => []IInv
<1>1. Init => IInv
  BY InitInv
<1>2. IInv /\ [Next]_vars => IInv'
  BY NextInv
<1> QED BY <1>1, <1>2, PTL DEF Spec

\* A symbol is on the stack only where a rule has it, whatever the file.
THEOREM TypeCorrect == Spec => []TypeOK
<1>1. IInv => TypeOK
  <2> SUFFICES ASSUME IInv PROVE TypeOK
    OBVIOUS
  <2>1. /\ Last >= 1 /\ stack[1].sym \in {"list", "program"}
        /\ stack[1].sym = "program" => Last = 1 /\ programRoot = stack[1].node
    BY DEF IInv, Viable, Typed, Sym, Last
  <2>2. stack # << >>
    BY <2>1 DEF Last
  <2>3. ASSUME NEW k \in 2 .. Last
        PROVE  /\ Sym(k) = "expr"      => stack[k - 1].sym \in BeforeOperand
               /\ Sym(k) = "statement" => stack[k - 1].sym = "list"
               /\ Sym(k) = "list"      => stack[k - 1].sym \in {"then", "else", "do", "type"}
    <3>1. Follows(stack[k - 1].sym, Sym(k))
      BY DEF IInv, Viable, Stands, Sym, Last
    <3> QED BY <3>1 DEF Follows
  <2>4. strings \subseteq 1 .. here
    BY DEF IInv, Texts, StringsFreed
  <2> QED BY <2>1, <2>2, <2>3, <2>4 DEF TypeOK, Sym, Last
<1> QED BY <1>1, Invariant, PTL

\* The text of each token is freed exactly once, when the token leaves the stack.
THEOREM TextsFreed == Spec => []StringsFreed
<1>1. IInv => StringsFreed
  BY DEF IInv, Texts
<1> QED BY <1>1, Invariant, PTL

-------------------------------------------------------------------------------
(***************************************************************************)
(* How operators bind.  Deep and Lev are Nesting and Rank of a place in    *)
(* the tokens tx.                                                          *)
(***************************************************************************)
Places(tx, q, c) == { p \in 1 .. q - 1 : tx[p] = c }
Deep(tx, q) == Cardinality(Places(tx, q, "(")) - Cardinality(Places(tx, q, ")"))
Lev(tx, q)  == CHOOSE i \in DOMAIN Ranks : tx[q] \in Ranks[i]

LEMMA NestingRank ==
  /\ \A q : Nesting(q) = Deep(text, q)
  /\ \A v : Rank(v) = Lev(text, v.at)
BY DEF Nesting, Before, Deep, Places, Rank, Lev

LEMMA PlacesNext ==
  ASSUME NEW tx, NEW c, NEW q \in Nat \ {0}
  PROVE  /\ IsFiniteSet(Places(tx, q, c)) /\ Cardinality(Places(tx, q, c)) \in Nat
         /\ Cardinality(Places(tx, q + 1, c))
              = Cardinality(Places(tx, q, c)) + (IF tx[q] = c THEN 1 ELSE 0)
<1>1. IsFiniteSet(1 .. q - 1)
  BY FS_Interval
<1>2. Places(tx, q, c) \in SUBSET (1 .. q - 1)
  BY DEF Places
<1>3. IsFiniteSet(Places(tx, q, c))
  BY <1>1, <1>2, FS_Subset
<1>4. Cardinality(Places(tx, q, c)) \in Nat
  BY <1>3, FS_CardinalityType
<1>5. q \notin Places(tx, q, c)
  BY DEF Places
<1>6. CASE tx[q] = c
  <2>1. Places(tx, q + 1, c) = Places(tx, q, c) \cup {q}
    BY <1>6 DEF Places
  <2> QED BY <1>3, <1>4, <1>5, <1>6, <2>1, FS_AddElement
<1>7. CASE tx[q] # c
  <2>1. Places(tx, q + 1, c) = Places(tx, q, c)
    BY <1>7 DEF Places
  <2> QED BY <1>3, <1>4, <1>7, <2>1
<1> QED BY <1>3, <1>4, <1>6, <1>7

LEMMA DeepNext ==
  ASSUME NEW tx, NEW q \in Nat \ {0}
  PROVE  Deep(tx, q) \in Int /\ Deep(tx, q + 1) = Deep(tx, q) + Weight(tx[q])
<1>1. /\ Cardinality(Places(tx, q, "(")) \in Nat /\ Cardinality(Places(tx, q, ")")) \in Nat
      /\ Cardinality(Places(tx, q + 1, "("))
           = Cardinality(Places(tx, q, "(")) + (IF tx[q] = "(" THEN 1 ELSE 0)
      /\ Cardinality(Places(tx, q + 1, ")"))
           = Cardinality(Places(tx, q, ")")) + (IF tx[q] = ")" THEN 1 ELSE 0)
  BY PlacesNext
<1> QED BY <1>1 DEF Deep, Weight

LEMMA DeepFirst ==
  ASSUME NEW tx
  PROVE  Deep(tx, 1) = 0
<1>1. Places(tx, 1, "(") = {} /\ Places(tx, 1, ")") = {}
  BY DEF Places
<1> QED BY <1>1, FS_EmptySet DEF Deep

LEMMA SameTokens ==
  ASSUME NEW tx, NEW ty, NEW h \in Nat, \A p \in 1 .. h : ty[p] = tx[p]
  PROVE  /\ \A q \in 1 .. h + 1 : Deep(ty, q) = Deep(tx, q)
         /\ \A q \in 1 .. h : Lev(ty, q) = Lev(tx, q)
<1>1. ASSUME NEW q \in 1 .. h + 1, NEW c
      PROVE  Places(ty, q, c) = Places(tx, q, c)
  BY DEF Places
<1> QED BY <1>1 DEF Deep, Lev

LEMMA LevelIs ==
  ASSUME NEW tx, NEW q, tx[q] \in Binary
  PROVE  Lev(tx, q) = Level(tx[q]) /\ Level(tx[q]) \in Int
<1>1. DOMAIN Ranks = 1 .. 5 /\ 1 .. 5 = {1, 2, 3, 4, 5}
  BY DEF Ranks
<1>2. /\ Ranks[1] = {"or"} /\ Ranks[2] = {"and"} /\ Ranks[3] = {"=="} /\ Ranks[4] = {"-"}
      /\ Ranks[5] = {"*"}
  BY DEF Ranks
<1>3. Lev(tx, q) = CHOOSE i \in {1, 2, 3, 4, 5} : tx[q] \in Ranks[i]
  BY <1>1 DEF Lev
<1>4. PICK a : a = tx[q]
  OBVIOUS
<1>5. \E i \in {1, 2, 3, 4, 5} : a \in Ranks[i]
  BY <1>2, <1>4 DEF Binary
<1>6. Lev(tx, q) \in {1, 2, 3, 4, 5} /\ a \in Ranks[Lev(tx, q)]
  BY <1>3, <1>4, <1>5
<1>7. \A i \in {1, 2, 3, 4, 5} : a \in Ranks[i] => i = Level(a)
  BY <1>2, <1>4 DEF Binary, Level
<1>8. Lev(tx, q) = Level(a)
  BY <1>6, <1>7
<1>9. Level(a) \in Int
  <2>1. Lev(tx, q) \in Int
    BY <1>6
  <2> QED BY <1>8, <2>1
<1> QED BY <1>4, <1>8, <1>9

IsBinary(v) == v.kind = "binary"
IsOp(s, k)  == k >= 2 /\ s[k].sym \in Binary /\ s[k - 1].sym = "expr"

\* p is within parentheses that q is outside of.
Within(tx, p, q) == Deep(tx, p) > Deep(tx, q)

\* lv[k] is how deep symbol k is: a token where it was read, an operator of a tree deeper.
Levelled(s, tx, lv) ==
  /\ \A k \in 1 .. Len(s) + 1 : lv[k] \in Int
  /\ \A k \in 1 .. Len(s) : lv[k + 1] = lv[k] + Weight(s[k].sym)
  /\ lv[Len(s) + 1] = Deep(tx, Len(tx))
  /\ \A k \in 1 .. Len(s) : s[k].sym \in Token =>
       /\ s[k].node.at \in 1 .. Len(tx) - 1 /\ tx[s[k].node.at] = s[k].sym
       /\ Deep(tx, s[k].node.at) = lv[k]
  /\ \A k \in 1 .. Len(s) : IsBinary(s[k].node) =>
       /\ s[k].node.at \in 1 .. Len(tx) - 1 /\ tx[s[k].node.at] \in Binary
       /\ Deep(tx, s[k].node.at) >= lv[k]

\* What symbol k is to those before it: of an operator, its left operand; of an operand,
\* the operator it is to belong to; of operators in a row, the levels.
Binds(s, tx, k) ==
  /\ IsOp(s, k) /\ IsBinary(s[k - 1].node) =>
       \/ Within(tx, s[k - 1].node.at, s[k].node.at)
       \/ Lev(tx, s[k - 1].node.at) >= Lev(tx, s[k].node.at)
  /\ s[k].sym = "expr" /\ IsOp(s, k - 1) /\ IsBinary(s[k].node) =>
       \/ Within(tx, s[k].node.at, s[k - 1].node.at)
       \/ Lev(tx, s[k].node.at) > Lev(tx, s[k - 1].node.at)
  /\ /\ s[k].sym = "expr" /\ s[k - 1].sym \in {"not", "-"} /\ ~IsOp(s, k - 1)
     /\ IsBinary(s[k].node)
     => Within(tx, s[k].node.at, s[k - 1].node.at)
  /\ IsOp(s, k) /\ IsOp(s, k - 2) => Lev(tx, s[k].node.at) > Lev(tx, s[k - 2].node.at)
  /\ k >= 3 /\ IsOp(s, k) /\ s[k - 2].sym \in {"not", "-"} => IsOp(s, k - 2)

\* The node of an operator, and its operands.
Sound(tx, v) ==
  v.kind \in {"binary", "unary"} =>
    /\ v.at \in 1 .. Len(tx) - 1
    /\ \A i \in DOMAIN v.kids :
         IsBinary(v.kids[i]) =>
           /\ v.kids[i].at \in 1 .. Len(tx) - 1
           /\ \/ Within(tx, v.kids[i].at, v.at)
              \/ v.kind = "binary" /\ Lev(tx, v.kids[i].at) >= Lev(tx, v.at) + (i - 1)

\* The operand an operator that comes next would have on its left.
Looks(s, tx) ==
  IsBinary(s[Len(s)].node) /\ tx[Len(tx)] \in Binary =>
    \/ Within(tx, s[Len(s)].node.at, Len(tx))
    \/ Lev(tx, s[Len(s)].node.at) >= Lev(tx, Len(tx))

Ordered(s, tx) ==
  /\ \E lv : Levelled(s, tx, lv)
  /\ \A k \in 2 .. Len(s) : Binds(s, tx, k)
  /\ \A k \in 1 .. Len(s) : Sound(tx, s[k].node)
  /\ Looks(s, tx)

LEMMA Words ==
  /\ Binary \subseteq Token /\ {"not", "-", "(", ")"} \subseteq Token
  /\ \A y \in Binary : Weight(y) = 0
  /\ \A y \in Phrase : y \notin Token /\ y \notin Binary /\ Weight(y) = 0
<1>1. Binary \subseteq Token /\ {"not", "-", "(", ")"} \subseteq Token
  BY Zenon DEF Token, Binary
<1>2. \A y \in Binary : Weight(y) = 0
  BY DEF Binary, Weight
<1>3. \A y \in Phrase : y \notin Token
  BY Zenon DEF Token, Binary, Phrase
<1>4. \A y \in Phrase : Weight(y) = 0
  BY DEF Phrase, Weight
<1> QED BY <1>1, <1>2, <1>3, <1>4

\* An operator is shifted where it binds tighter than the operator before it.
LEMMA ShiftOp ==
  ASSUME Last \in Nat \ {0}, NEW t \in Binary, Sym(Last) = "expr"
  PROVE  Shiftable(t) <=> ~Prefix /\ (Infix => Level(t) > Level(Sym(Last - 1)))
<1>1. ~AtOperand
  <2>1. "expr" \notin BeforeOperand
    BY Zenon DEF BeforeOperand, Binary
  <2> QED BY <2>1, Ends1 DEF AtOperand
<1>2. t \notin Starts /\ t \notin {"name", "(", ")", ",", ":", "=", "then", "do", "else", "end"}
  BY Zenon DEF Binary, Starts
<1>3. Ends(<< {"expr"} >>)
  BY Ends1
<1>4. stack[Len(stack) - 1].sym = Sym(Last - 1)
  BY DEF Sym, Last
<1> QED BY <1>1, <1>2, <1>3, <1>4, Zenon DEF Shiftable

LEMMA InfixIs ==
  ASSUME Last \in Nat \ {0}
  PROVE  Infix <=> IsOp(stack, Last - 1) /\ Sym(Last) = "expr"
<1>1. Infix <=> /\ Last >= 3 /\ Sym(Last - 2) = "expr" /\ Sym(Last - 1) \in Binary
                /\ Sym(Last) = "expr"
  BY Ends3 DEF Infix
<1>2. (Last - 1 >= 2 <=> Last >= 3) /\ (Last - 1) - 1 = Last - 2
  OBVIOUS
<1> QED BY <1>1, <1>2 DEF IsOp, Sym

LEMMA PrefixIs ==
  ASSUME Last \in Nat \ {0}
  PROVE  Prefix <=> Last >= 2 /\ Sym(Last - 1) \in {"not", "-"} /\ Sym(Last) = "expr" /\ ~Infix
BY Ends2 DEF Prefix

\* What is not changed binds as before.
LEMMA BindsKept ==
  ASSUME NEW s, NEW t, NEW tx, NEW ty, NEW h, NEW m \in Nat, NEW k \in 2 .. m,
         \A j \in 1 .. m : t[j] = s[j],
         \A q \in 1 .. h : Deep(ty, q) = Deep(tx, q) /\ Lev(ty, q) = Lev(tx, q),
         \A j \in 1 .. m : s[j].sym \in Token \/ IsBinary(s[j].node) => s[j].node.at \in 1 .. h,
         Binds(s, tx, k)
  PROVE  Binds(t, ty, k)
<1>1. ASSUME NEW j \in Int, j <= m
      PROVE  IsOp(t, j) <=> IsOp(s, j)
  <2>1. j >= 2 => t[j] = s[j] /\ t[j - 1] = s[j - 1]
    BY <1>1
  <2> QED BY <2>1 DEF IsOp
<1>2. /\ k - 1 \in Int /\ k - 1 <= m /\ k - 2 \in Int /\ k - 2 <= m /\ k \in Int /\ k <= m
      /\ k \in 1 .. m /\ k - 1 \in 1 .. m /\ (k >= 3 => k - 2 \in 1 .. m)
      /\ (k - 2 >= 2 => k >= 3)
  OBVIOUS
<1>3. /\ t[k] = s[k] /\ t[k - 1] = s[k - 1] /\ (k >= 3 => t[k - 2] = s[k - 2])
      /\ IsOp(t, k) <=> IsOp(s, k)
      /\ IsOp(t, k - 1) <=> IsOp(s, k - 1)
      /\ IsOp(t, k - 2) <=> IsOp(s, k - 2)
  BY <1>1, <1>2
<1>4. ASSUME NEW i \in 1 .. m, NEW j \in 1 .. m,
             s[i].sym \in Token \/ IsBinary(s[i].node), s[j].sym \in Token \/ IsBinary(s[j].node)
      PROVE  /\ Within(ty, s[i].node.at, s[j].node.at) <=> Within(tx, s[i].node.at, s[j].node.at)
             /\ Lev(ty, s[i].node.at) = Lev(tx, s[i].node.at)
             /\ Lev(ty, s[j].node.at) = Lev(tx, s[j].node.at)
  BY <1>4 DEF Within
<1>5. /\ IsOp(s, k) => s[k].sym \in Token
      /\ IsOp(s, k - 1) => s[k - 1].sym \in Token
      /\ IsOp(s, k - 2) => k >= 3 /\ s[k - 2].sym \in Token
      /\ s[k - 1].sym \in {"not", "-"} => s[k - 1].sym \in Token
  BY <1>2, Words DEF IsOp
<1>6. IsOp(s, k) /\ IsBinary(s[k - 1].node) =>
        \/ Within(ty, s[k - 1].node.at, s[k].node.at)
        \/ Lev(ty, s[k - 1].node.at) >= Lev(ty, s[k].node.at)
  BY <1>2, <1>4, <1>5 DEF Binds
<1>7. s[k].sym = "expr" /\ IsOp(s, k - 1) /\ IsBinary(s[k].node) =>
        \/ Within(ty, s[k].node.at, s[k - 1].node.at)
        \/ Lev(ty, s[k].node.at) > Lev(ty, s[k - 1].node.at)
  BY <1>2, <1>4, <1>5 DEF Binds
<1>8. /\ s[k].sym = "expr" /\ s[k - 1].sym \in {"not", "-"} /\ ~IsOp(s, k - 1)
      /\ IsBinary(s[k].node)
      => Within(ty, s[k].node.at, s[k - 1].node.at)
  <2> SUFFICES ASSUME s[k].sym = "expr", s[k - 1].sym \in {"not", "-"}, ~IsOp(s, k - 1),
                      IsBinary(s[k].node)
               PROVE  Within(ty, s[k].node.at, s[k - 1].node.at)
    OBVIOUS
  <2>1. Within(tx, s[k].node.at, s[k - 1].node.at)
    BY DEF Binds
  <2> QED BY <1>2, <1>4, <1>5, <2>1
<1>9. IsOp(s, k) /\ IsOp(s, k - 2) => Lev(ty, s[k].node.at) > Lev(ty, s[k - 2].node.at)
  BY <1>2, <1>4, <1>5 DEF Binds
<1>10. k >= 3 /\ IsOp(s, k) /\ s[k - 2].sym \in {"not", "-"} => IsOp(s, k - 2)
  BY DEF Binds
<1> HIDE DEF IsOp, IsBinary, Within, Lev
<1>11. Binds(s, ty, k)
  BY ONLY <1>6, <1>7, <1>8, <1>9, <1>10 DEF Binds
<1>12. IsOp(s, k - 2) => t[k - 2] = s[k - 2]
  BY <1>3, <1>5
<1> QED BY ONLY <1>3, <1>11, <1>12 DEF Binds

LEMMA SoundKept ==
  ASSUME NEW v, NEW tx, NEW ty, NEW h \in Nat, Len(tx) - 1 = h, Len(ty) \in Nat, Len(ty) - 1 >= h,
         \A q \in 1 .. h : Deep(ty, q) = Deep(tx, q) /\ Lev(ty, q) = Lev(tx, q),
         Sound(tx, v)
  PROVE  Sound(ty, v)
<1> SUFFICES ASSUME v.kind \in {"binary", "unary"}
             PROVE  /\ v.at \in 1 .. Len(ty) - 1
                    /\ \A i \in DOMAIN v.kids :
                         IsBinary(v.kids[i]) =>
                           /\ v.kids[i].at \in 1 .. Len(ty) - 1
                           /\ \/ Within(ty, v.kids[i].at, v.at)
                              \/ /\ v.kind = "binary"
                                 /\ Lev(ty, v.kids[i].at) >= Lev(ty, v.at) + (i - 1)
  BY DEF Sound
<1>1. \A q \in 1 .. h : q \in 1 .. Len(ty) - 1
  OBVIOUS
<1>2. v.at \in 1 .. h
  BY DEF Sound
<1>3. ASSUME NEW i \in DOMAIN v.kids, IsBinary(v.kids[i])
      PROVE  /\ v.kids[i].at \in 1 .. Len(ty) - 1
             /\ \/ Within(ty, v.kids[i].at, v.at)
                \/ v.kind = "binary" /\ Lev(ty, v.kids[i].at) >= Lev(ty, v.at) + (i - 1)
  <2>1. /\ v.kids[i].at \in 1 .. h
        /\ \/ Within(tx, v.kids[i].at, v.at)
           \/ v.kind = "binary" /\ Lev(tx, v.kids[i].at) >= Lev(tx, v.at) + (i - 1)
    BY <1>3 DEF Sound
  <2>2. /\ Deep(ty, v.kids[i].at) = Deep(tx, v.kids[i].at) /\ Deep(ty, v.at) = Deep(tx, v.at)
        /\ Lev(ty, v.kids[i].at) = Lev(tx, v.kids[i].at) /\ Lev(ty, v.at) = Lev(tx, v.at)
    BY <1>2, <2>1
  <2> QED BY <1>1, <2>1, <2>2 DEF Within
<1> QED BY <1>1, <1>2, <1>3

LEMMA ShiftOrdered ==
  ASSUME IInv, shift, Ordered(stack, text)
  PROVE  Ordered(stack', text')
<1> DEFINE s == stack
           t == stack'
           tx == text
           ty == text'
           n == Last
           h == here
<1>1. /\ n \in Nat \ {0} /\ h \in Nat \ {0} /\ Len(s) = n /\ Len(tx) = h /\ look = tx[h]
  BY Facts DEF look, Last, here
<1>2. /\ Len(t) = n + 1 /\ look \in Token /\ t[n + 1].sym = look
      /\ t[n + 1].node = Node("token", h, << >>)
      /\ \A k \in 1 .. n : t[k] = s[k]
  BY ShiftIs
<1>3. Len(ty) = h + 1 /\ \A q \in 1 .. h : ty[q] = tx[q]
  <2>1. PICK a \in Token \cup {"$end"} : yylex(a)
    BY DEF shift
  <2>2. text \in Seq(Token \cup {"$end"})
    BY DEF IInv, Typed
  <2>3. here' = here + 1 /\ \A q \in 1 .. here : text'[q] = text[q]
    BY <2>1, <2>2, ReadOn
  <2> QED BY <2>3 DEF here
<1>4. /\ t[n + 1].node.at = h /\ t[n + 1].node.kind = "token"
  BY <1>2, NodeIs
<1>5. Shiftable(tx[h])
  BY <1>1 DEF shift
<1>6. /\ \E lv : Levelled(s, tx, lv)
      /\ \A k \in 2 .. n : Binds(s, tx, k)
      /\ \A k \in 1 .. n : Sound(tx, s[k].node)
      /\ Looks(s, tx)
  BY <1>1 DEF Ordered
<1>7. Sym(n) = s[n].sym /\ (n >= 2 => Sym(n - 1) = s[n - 1].sym)
  BY DEF Sym
<1> HIDE DEF s, t, tx, ty, n, h
<1>8. /\ \A q \in 1 .. h + 1 : Deep(ty, q) = Deep(tx, q)
      /\ \A q \in 1 .. h : Lev(ty, q) = Lev(tx, q)
  BY <1>1, <1>3, SameTokens
<1>9. PICK lv : Levelled(s, tx, lv)
  BY <1>6
<1>10. /\ \A k \in 1 .. n + 1 : lv[k] \in Int
       /\ \A k \in 1 .. n : lv[k + 1] = lv[k] + Weight(s[k].sym)
       /\ lv[n + 1] = Deep(tx, h)
       /\ \A k \in 1 .. n : s[k].sym \in Token =>
            /\ s[k].node.at \in 1 .. h - 1 /\ tx[s[k].node.at] = s[k].sym
            /\ Deep(tx, s[k].node.at) = lv[k]
       /\ \A k \in 1 .. n : IsBinary(s[k].node) =>
            /\ s[k].node.at \in 1 .. h - 1 /\ tx[s[k].node.at] \in Binary
            /\ Deep(tx, s[k].node.at) >= lv[k]
  BY <1>1, <1>9 DEF Levelled
<1>11. \A q \in 1 .. h - 1 : q \in 1 .. h /\ q \in 1 .. h + 1
  BY <1>1
<1>12. \E lw : Levelled(t, ty, lw)
  <2> DEFINE lw == [k \in 1 .. n + 2 |-> IF k <= n + 1 THEN lv[k] ELSE lv[n + 1] + Weight(look)]
  <2>1. /\ \A k \in 1 .. n + 1 : lw[k] = lv[k]
        /\ lw[n + 2] = lv[n + 1] + Weight(look)
    BY <1>1
  <2> HIDE DEF lw
  <2>2. Weight(look) \in Int
    BY DEF Weight
  <2>3. ASSUME NEW k \in 1 .. n + 2 PROVE lw[k] \in Int
    <3>1. CASE k \in 1 .. n + 1
      BY <1>10, <2>1, <3>1
    <3>2. CASE k = n + 2
      <4>1. lv[n + 1] \in Int
        BY <1>1, <1>10
      <4> QED BY <2>1, <2>2, <3>2, <4>1
    <3> QED BY <1>1, <3>1, <3>2
  <2>4. ASSUME NEW k \in 1 .. n + 1 PROVE lw[k + 1] = lw[k] + Weight(t[k].sym)
    <3>1. CASE k \in 1 .. n
      <4>1. k + 1 \in 1 .. n + 1
        BY <1>1, <3>1
      <4> QED BY <1>2, <1>10, <2>1, <3>1, <4>1
    <3>2. CASE k = n + 1
      <4>1. k + 1 = n + 2
        BY <1>1, <3>2
      <4> QED BY <1>2, <2>1, <3>2, <4>1
    <3> QED BY <1>1, <3>1, <3>2
  <2>5. lw[n + 2] = Deep(ty, h + 1)
    <3>1. Deep(tx, h + 1) = Deep(tx, h) + Weight(tx[h])
      BY <1>1, DeepNext
    <3>2. Deep(ty, h + 1) = Deep(tx, h + 1)
      BY <1>1, <1>8
    <3> QED BY <1>1, <1>10, <2>1, <3>1, <3>2
  <2>6. ASSUME NEW k \in 1 .. n + 1, t[k].sym \in Token
        PROVE  /\ t[k].node.at \in 1 .. h /\ ty[t[k].node.at] = t[k].sym
               /\ Deep(ty, t[k].node.at) = lw[k]
    <3>1. CASE k \in 1 .. n
      <4>1. t[k] = s[k] /\ s[k].node.at \in 1 .. h - 1 /\ tx[s[k].node.at] = s[k].sym
            /\ Deep(tx, s[k].node.at) = lv[k] /\ lw[k] = lv[k]
        BY <1>2, <1>10, <2>1, <2>6, <3>1
      <4> QED BY <1>3, <1>8, <1>11, <4>1
    <3>2. CASE k = n + 1
      <4>1. h \in 1 .. h /\ h \in 1 .. h + 1
        BY <1>1
      <4>2. lw[n + 1] = lv[n + 1]
        BY <1>1, <2>1
      <4> QED BY <1>1, <1>2, <1>3, <1>4, <1>8, <1>10, <3>2, <4>1, <4>2
    <3> QED BY <1>1, <3>1, <3>2
  <2>7. ASSUME NEW k \in 1 .. n + 1, IsBinary(t[k].node)
        PROVE  /\ t[k].node.at \in 1 .. h /\ ty[t[k].node.at] \in Binary
               /\ Deep(ty, t[k].node.at) >= lw[k]
    <3>1. CASE k \in 1 .. n
      <4>1. t[k] = s[k] /\ s[k].node.at \in 1 .. h - 1 /\ tx[s[k].node.at] \in Binary
            /\ Deep(tx, s[k].node.at) >= lv[k] /\ lw[k] = lv[k]
        BY <1>2, <1>10, <2>1, <2>7, <3>1
      <4> QED BY <1>3, <1>8, <1>11, <4>1
    <3>2. CASE k = n + 1
      BY <1>4, <2>7, <3>2 DEF IsBinary
    <3> QED BY <1>1, <3>1, <3>2
  <2>8. (n + 1) + 1 = n + 2 /\ (h + 1) - 1 = h
    BY <1>1
  <2>9. Levelled(t, ty, lw)
    BY <1>2, <1>3, <2>3, <2>4, <2>5, <2>6, <2>7, <2>8 DEF Levelled
  <2> QED BY <2>9
<1>13. ASSUME NEW k \in 2 .. n PROVE Binds(t, ty, k)
  <2>1. \A j \in 1 .. n :
          s[j].sym \in Token \/ IsBinary(s[j].node) => s[j].node.at \in 1 .. h - 1
    BY <1>10
  <2>2. \A q \in 1 .. h - 1 : Deep(ty, q) = Deep(tx, q) /\ Lev(ty, q) = Lev(tx, q)
    BY <1>8, <1>11
  <2> QED BY <1>1, <1>2, <1>6, <2>1, <2>2, BindsKept
<1>14. Binds(t, ty, n + 1)
  <2>1. t[n + 1].sym # "expr" /\ (n + 1) - 1 = n /\ (n + 1) - 2 = n - 1 /\ t[n] = s[n]
        /\ (n >= 2 => t[n - 1] = s[n - 1]) /\ n + 1 >= 2 /\ (n + 1 >= 3 <=> n >= 2)
    <3>1. "expr" \notin Token
      BY Words DEF Phrase
    <3> QED BY <1>1, <1>2, <3>1
  <2>2. IsOp(t, n + 1) => look \in Binary /\ s[n].sym = "expr"
    BY <1>2, <2>1 DEF IsOp
  <2>3. IsOp(t, n - 1) <=> IsOp(s, n - 1)
    <3>1. n - 1 >= 2 => t[n - 1] = s[n - 1] /\ t[n - 1 - 1] = s[n - 1 - 1]
      BY <1>1, <1>2
    <3> QED BY <3>1 DEF IsOp
  <2>4. ASSUME look \in Binary, s[n].sym = "expr"
        PROVE  ~Prefix /\ (Infix => Level(look) > Level(Sym(n - 1)))
    <3>1. Last \in Nat \ {0} /\ Sym(Last) = "expr" /\ Shiftable(look)
      BY <1>1, <1>5, <1>7, <2>4 DEF n
    <3> QED BY <2>4, <3>1, ShiftOp DEF n
  <2>5. h \in 1 .. h /\ h \in 1 .. h + 1
    BY <1>1
  <2>6. ASSUME look \in Binary, s[n].sym = "expr", IsBinary(s[n].node)
        PROVE  \/ Within(ty, s[n].node.at, h)
               \/ Lev(ty, s[n].node.at) >= Lev(ty, h)
    <3>1. Within(tx, s[n].node.at, h) \/ Lev(tx, s[n].node.at) >= Lev(tx, h)
      BY <1>1, <1>6, <2>6 DEF Looks
    <3>2. s[n].node.at \in 1 .. h - 1
      BY <1>1, <1>10, <2>6
    <3> QED BY <1>8, <1>11, <2>5, <3>1, <3>2 DEF Within
  <2>7. ASSUME look \in Binary, s[n].sym = "expr", IsOp(s, n - 1)
        PROVE  Lev(ty, h) > Lev(ty, s[n - 1].node.at)
    <3>1. n - 1 \in 1 .. n /\ n >= 2 /\ s[n - 1].sym \in Binary
      BY <1>1, <2>7 DEF IsOp
    <3>2. s[n - 1].node.at \in 1 .. h - 1 /\ tx[s[n - 1].node.at] = s[n - 1].sym
      BY <1>10, <3>1, Words
    <3>3. Lev(tx, s[n - 1].node.at) = Level(s[n - 1].sym) /\ Lev(tx, h) = Level(look)
      BY <1>1, <2>7, <3>1, <3>2, LevelIs
    <3>4. Infix
      <4>1. Last \in Nat \ {0} /\ IsOp(stack, Last - 1) /\ Sym(Last) = "expr"
        BY <1>1, <1>7, <2>7 DEF n, s
      <4> QED BY <4>1, InfixIs
    <3>5. Level(look) > Level(s[n - 1].sym)
      BY <1>7, <2>4, <2>7, <3>1, <3>4
    <3> QED BY <1>8, <1>11, <2>5, <3>2, <3>3, <3>5
  <2>8. ASSUME look \in Binary, s[n].sym = "expr", n >= 2, s[n - 1].sym \in {"not", "-"}
        PROVE  IsOp(s, n - 1)
    <3>1. ~Prefix /\ Last \in Nat \ {0} /\ Last >= 2
          /\ Sym(Last - 1) \in {"not", "-"} /\ Sym(Last) = "expr"
      BY <1>1, <1>7, <2>4, <2>8 DEF n
    <3>2. Infix
      BY <3>1, PrefixIs
    <3> QED BY <3>1, <3>2, InfixIs DEF s, n
  <2>9. IsOp(t, n - 1) => n >= 2
    BY <1>1 DEF IsOp
  <2> HIDE DEF IsOp, IsBinary, Within, Lev
  <2> QED BY <1>2, <1>4, <2>1, <2>2, <2>3, <2>6, <2>7, <2>8, <2>9 DEF Binds
<1>15. ASSUME NEW k \in 1 .. n + 1 PROVE Sound(ty, t[k].node)
  <2>1. CASE k \in 1 .. n
    <3>1. \A q \in 1 .. h - 1 : Deep(ty, q) = Deep(tx, q) /\ Lev(ty, q) = Lev(tx, q)
      BY <1>8, <1>11
    <3>2. h - 1 \in Nat /\ Len(tx) - 1 = h - 1 /\ Len(ty) \in Nat /\ Len(ty) - 1 >= h - 1
      BY <1>1, <1>3
    <3>3. Sound(tx, s[k].node) /\ t[k] = s[k]
      BY <1>2, <1>6, <2>1
    <3> QED BY <3>1, <3>2, <3>3, SoundKept
  <2>2. CASE k = n + 1
    BY <1>4, <2>2 DEF Sound
  <2> QED BY <1>1, <2>1, <2>2
<1>16. Looks(t, ty)
  BY <1>2, <1>4 DEF Looks, IsBinary
<1>17. Ordered(t, ty)
  <2>1. \A k \in 2 .. n + 1 : k \in 2 .. n \/ k = n + 1
    BY <1>1
  <2> QED BY <1>2, <1>12, <1>13, <1>14, <1>15, <1>16, <2>1 DEF Ordered
<1> QED BY <1>17 DEF t, ty

LEMMA RuleOrdered ==
  ASSUME IInv, Ordered(stack, text), NEW n, NEW x, NEW v, NEW freed, Reduction(n, x, v, freed)
  PROVE  Ordered(stack', text')
<1> DEFINE s == stack
           t == stack'
           tx == text
           l == Last
           h == here
<1>1. /\ l \in Nat \ {0} /\ h \in Nat \ {0} /\ Len(s) = l /\ Len(tx) = h /\ look = tx[h]
  BY Facts DEF look, Last, here
<1>2. PICK m \in 0 .. l : m = l - n
  BY AfterRule
<1>3. /\ Len(t) = m + 1 /\ t[m + 1].sym = x /\ t[m + 1].node = v
      /\ \A k \in 1 .. m : t[k] = s[k]
  BY <1>2, AfterRule
<1>4. /\ text' = tx /\ n \in 0 .. l /\ x \in Phrase /\ Means(x, v) /\ Balanced(n)
      /\ x = "expr" => Built(n, v)
      /\ ~Shiftable(tx[h])
  BY <1>1 DEF Reduction
<1>5. \A k : Sym(k) = s[k].sym /\ At(k) = s[k].node.at
  BY DEF Sym, At
<1>6. /\ \E lv : Levelled(s, tx, lv)
      /\ \A k \in 2 .. l : Binds(s, tx, k)
      /\ \A k \in 1 .. l : Sound(tx, s[k].node)
      /\ Looks(s, tx)
  BY <1>1 DEF Ordered
<1>7. /\ Infix <=> IsOp(s, l - 1) /\ s[l].sym = "expr"
      /\ Prefix <=> l >= 2 /\ s[l - 1].sym \in {"not", "-"} /\ s[l].sym = "expr" /\ ~Infix
  BY <1>1, InfixIs, PrefixIs DEF Sym
<1>8. ASSUME Infix, tx[h] \in Binary
      PROVE  ~(Level(tx[h]) > Level(s[l - 1].sym))
  <2>1. Last \in Nat \ {0} /\ Sym(Last) = "expr" /\ ~Prefix
    BY <1>1, <1>7, <1>8 DEF Sym
  <2>2. Sym(Last - 1) = s[l - 1].sym
    BY DEF Sym
  <2> HIDE DEF l, s, tx, h
  <2> QED BY <1>4, <1>8, <2>1, <2>2, ShiftOp
<1>9. PICK lv : Levelled(s, tx, lv)
  BY <1>6
<1>10. /\ \A k \in 1 .. l + 1 : lv[k] \in Int
       /\ \A k \in 1 .. l : lv[k + 1] = lv[k] + Weight(s[k].sym)
       /\ lv[l + 1] = Deep(tx, h)
       /\ \A k \in 1 .. l : s[k].sym \in Token =>
            /\ s[k].node.at \in 1 .. h - 1 /\ tx[s[k].node.at] = s[k].sym
            /\ Deep(tx, s[k].node.at) = lv[k]
       /\ \A k \in 1 .. l : IsBinary(s[k].node) =>
            /\ s[k].node.at \in 1 .. h - 1 /\ tx[s[k].node.at] \in Binary
            /\ Deep(tx, s[k].node.at) >= lv[k]
  BY <1>1, <1>9 DEF Levelled
<1>11. lv[l + 1] = lv[m + 1]
  <2>1. \A k \in l - n + 1 .. l : k \in 1 .. l /\ k \in 1 .. l + 1
    BY <1>1, <1>4
  <2>2. \A k \in Last - n + 1 .. Last : lv[k] \in Int /\ lv[k + 1] = lv[k] + Weight(Sym(k))
    BY <1>5, <1>10, <2>1
  <2>3. lv[Last + 1] = lv[Last - n + 1]
    BY <1>4, <2>2 DEF Balanced
  <2> QED BY <1>2, <2>3
<1>12. Built(n, v) =>
         \/ v.kind \notin {"binary", "unary"}
         \/ /\ n = 3 /\ Infix
            /\ v = Node("binary", s[l - 1].node.at, << s[l - 2].node, s[l].node >>)
         \/ /\ n = 2 /\ Prefix
            /\ v = Node("unary", s[l - 1].node.at, << s[l].node >>)
         \/ /\ n = 3 /\ s[l - 2].sym = "(" /\ s[l - 1].sym = "expr" /\ s[l].sym = ")"
            /\ v = s[l - 1].node
  BY <1>5 DEF Built
<1> HIDE DEF s, t, tx, l, h
<1>13. /\ l \in Nat /\ m \in Nat /\ m <= l /\ h - 1 \in Nat
       /\ \A k \in 1 .. m : k \in 1 .. l
  BY <1>1, <1>2
<1>14. ASSUME IsBinary(v)
       PROVE  /\ x = "expr"
              /\ \/ /\ m = l - 3 /\ Infix
                    /\ v = Node("binary", s[l - 1].node.at, << s[l - 2].node, s[l].node >>)
                 \/ /\ m = l - 3 /\ s[l - 2].sym = "(" /\ s[l - 1].sym = "expr"
                    /\ v = s[l - 1].node
  <2>1. x = "expr"
    BY <1>4, <1>14 DEF Means, IsBinary
  <2>2. v.kind = "binary" /\ "binary" # "unary"
    BY <1>14 DEF IsBinary
  <2>3. v # Node("unary", s[l - 1].node.at, << s[l].node >>)
    BY <2>2, NodeIs
  <2> QED BY <1>2, <1>4, <1>12, <2>1, <2>2, <2>3
<1>15. ASSUME Infix
       PROVE  /\ l >= 3 /\ l - 1 \in 1 .. l /\ l - 2 \in 1 .. l /\ l \in 1 .. l
              /\ s[l - 1].sym \in Binary /\ s[l - 2].sym = "expr" /\ s[l].sym = "expr"
              /\ s[l - 1].node.at \in 1 .. h - 1 /\ tx[s[l - 1].node.at] = s[l - 1].sym
              /\ Deep(tx, s[l - 1].node.at) = lv[l - 1] /\ lv[l - 1] = lv[l - 2]
  <2>1. /\ l - 1 >= 2 /\ s[l - 1].sym \in Binary /\ s[(l - 1) - 1].sym = "expr"
        /\ s[l].sym = "expr"
    BY <1>7, <1>15 DEF IsOp
  <2>2. /\ l >= 3 /\ l - 1 \in 1 .. l /\ l - 2 \in 1 .. l /\ l \in 1 .. l /\ (l - 1) - 1 = l - 2
        /\ (l - 2) + 1 = l - 1
    BY <1>13, <2>1
  <2>3. Weight("expr") = 0
    BY DEF Weight
  <2>4. lv[l - 1] = lv[l - 2] + 0 /\ lv[l - 2] \in Int
    <3>1. l - 2 \in 1 .. l + 1
      BY <1>13, <2>2
    <3> QED BY <1>10, <2>1, <2>2, <2>3, <3>1
  <2>5. s[l - 1].sym \in Token
    BY <2>1, Words
  <2> QED BY <1>10, <2>1, <2>2, <2>4, <2>5
<1>16. ASSUME IsBinary(v)
       PROVE  /\ v.at \in 1 .. h - 1 /\ tx[v.at] \in Binary
              /\ \/ m = l - 3 /\ Infix /\ v.at = s[l - 1].node.at /\ Deep(tx, v.at) = lv[m + 1]
                 \/ Deep(tx, v.at) > lv[m + 1]
  <2>1. CASE /\ m = l - 3 /\ Infix
             /\ v = Node("binary", s[l - 1].node.at, << s[l - 2].node, s[l].node >>)
    <3>1. v.at = s[l - 1].node.at
      BY <2>1, NodeIs
    <3>2. m + 1 = l - 2
      BY <1>13, <2>1
    <3> QED BY <1>15, <2>1, <3>1, <3>2
  <2>2. CASE /\ m = l - 3 /\ s[l - 2].sym = "(" /\ s[l - 1].sym = "expr"
             /\ v = s[l - 1].node
    <3>1. /\ l - 1 \in 1 .. l /\ l - 2 \in 1 .. l /\ (l - 2) + 1 = l - 1 /\ m + 1 = l - 2
          /\ l - 2 \in 1 .. l + 1 /\ l - 1 \in 1 .. l + 1
      BY <1>13, <2>2
    <3>2. Weight("(") = 1
      BY DEF Weight
    <3>3. lv[l - 1] = lv[l - 2] + 1 /\ lv[l - 2] \in Int
      BY <1>10, <2>2, <3>1, <3>2
    <3>4. v.at \in 1 .. h - 1 /\ tx[v.at] \in Binary /\ Deep(tx, v.at) >= lv[l - 1]
      BY <1>10, <1>16, <2>2, <3>1
    <3>5. Deep(tx, v.at) \in Int
      <4>1. v.at \in Nat \ {0}
        BY <1>13, <3>4
      <4> QED BY <4>1, DeepNext
    <3> QED BY <3>1, <3>3, <3>4, <3>5
  <2> QED BY <1>14, <1>16, <2>1, <2>2
<1>17. Sound(tx, v)
  <2> SUFFICES ASSUME v.kind \in {"binary", "unary"} PROVE Sound(tx, v)
    BY DEF Sound
  <2>0. x = "expr"
    BY <1>4 DEF Means
  <2>1. CASE /\ n = 3 /\ Infix
             /\ v = Node("binary", s[l - 1].node.at, << s[l - 2].node, s[l].node >>)
    <3>1. v.kind = "binary" /\ v.at = s[l - 1].node.at /\ v.kids = << s[l - 2].node, s[l].node >>
      BY <2>1 DEF Node
    <3>2. DOMAIN v.kids = {1, 2} /\ v.kids[1] = s[l - 2].node /\ v.kids[2] = s[l].node
      BY <3>1
    <3>3. IsOp(s, l - 1) /\ l - 1 \in 2 .. l /\ l \in 2 .. l /\ (l - 1) - 1 = l - 2
      <4>1. l - 1 \in 2 .. l /\ l \in 2 .. l /\ (l - 1) - 1 = l - 2
        BY <1>13, <1>15, <2>1
      <4> QED BY <1>7, <2>1, <4>1
    <3>4. IsBinary(s[l - 2].node) => \/ Within(tx, s[l - 2].node.at, s[l - 1].node.at)
                                     \/ Lev(tx, s[l - 2].node.at) >= Lev(tx, s[l - 1].node.at)
      <4>1. Binds(s, tx, l - 1)
        BY <1>6, <3>3
      <4> QED BY <3>3, <4>1 DEF Binds
    <3>5. IsBinary(s[l].node) => \/ Within(tx, s[l].node.at, s[l - 1].node.at)
                                 \/ Lev(tx, s[l].node.at) > Lev(tx, s[l - 1].node.at)
      <4>1. Binds(s, tx, l) /\ s[l].sym = "expr"
        BY <1>6, <1>15, <2>1, <3>3
      <4> QED BY <3>3, <4>1 DEF Binds
    <3>6. /\ IsBinary(s[l - 2].node) => /\ s[l - 2].node.at \in 1 .. h - 1
                                        /\ Lev(tx, s[l - 2].node.at) \in Int
          /\ IsBinary(s[l].node) => /\ s[l].node.at \in 1 .. h - 1
                                    /\ Lev(tx, s[l].node.at) \in Int
          /\ Lev(tx, s[l - 1].node.at) \in Int
      <4>1. tx[s[l - 1].node.at] \in Binary /\ l - 2 \in 1 .. l /\ l \in 1 .. l
        BY <1>15, <2>1
      <4> QED BY <1>10, <4>1, LevelIs
    <3>7. v.at \in 1 .. Len(tx) - 1
      BY <1>1, <1>15, <2>1, <3>1
    <3>8. /\ \A a : a \in Int => a + (1 - 1) = a /\ a + (2 - 1) = a + 1
          /\ \A a, b \in Int : a > b => a >= b + 1
      OBVIOUS
    <3>9. ASSUME NEW i \in DOMAIN v.kids, IsBinary(v.kids[i])
          PROVE  /\ v.kids[i].at \in 1 .. Len(tx) - 1
                 /\ \/ Within(tx, v.kids[i].at, v.at)
                    \/ v.kind = "binary" /\ Lev(tx, v.kids[i].at) >= Lev(tx, v.at) + (i - 1)
      <4>1. CASE i = 1
        BY <1>1, <3>1, <3>2, <3>4, <3>6, <3>8, <3>9, <4>1
      <4>2. CASE i = 2
        BY <1>1, <3>1, <3>2, <3>5, <3>6, <3>8, <3>9, <4>2
      <4> QED BY <3>2, <4>1, <4>2
    <3> QED BY <3>7, <3>9 DEF Sound
  <2>2. CASE /\ n = 2 /\ Prefix
             /\ v = Node("unary", s[l - 1].node.at, << s[l].node >>)
    <3>1. v.kind = "unary" /\ v.at = s[l - 1].node.at /\ v.kids = << s[l].node >>
      BY <2>2 DEF Node
    <3>2. DOMAIN v.kids = {1} /\ v.kids[1] = s[l].node
      BY <3>1
    <3>3. /\ l >= 2 /\ s[l - 1].sym \in {"not", "-"} /\ s[l].sym = "expr"
          /\ ~IsOp(s, l - 1)
      BY <1>7, <2>2
    <3>4. l \in 2 .. l /\ l - 1 \in 1 .. l /\ l \in 1 .. l
      BY <1>13, <3>3
    <3>5. IsBinary(s[l].node) => Within(tx, s[l].node.at, s[l - 1].node.at)
      <4>1. Binds(s, tx, l)
        BY <1>6, <3>4
      <4> QED BY <3>3, <4>1 DEF Binds
    <3>6. s[l - 1].node.at \in 1 .. h - 1
      <4>1. s[l - 1].sym \in Token
        BY <3>3, Words
      <4> QED BY <1>10, <3>4, <4>1
    <3>7. IsBinary(s[l].node) => s[l].node.at \in 1 .. h - 1
      BY <1>10, <3>4
    <3> QED BY <1>1, <3>1, <3>2, <3>5, <3>6, <3>7 DEF Sound
  <2>3. CASE n = 3 /\ v = s[l - 1].node
    <3>1. l - 1 \in 1 .. l
      BY <1>4, <1>13, <2>3
    <3> QED BY <1>6, <2>3, <3>1
  <2> QED BY <1>4, <1>12, <2>0, <2>1, <2>2, <2>3
<1>18. \E lw : Levelled(t, tx, lw)
  <2> DEFINE lw == [k \in 1 .. m + 2 |-> IF k <= m + 1 THEN lv[k] ELSE lv[m + 1]]
  <2>1. lw[m + 2] = lv[m + 1] /\ \A k \in 1 .. m + 1 : lw[k] = lv[k]
    BY <1>13
  <2> HIDE DEF lw
  <2>2. \A k \in 1 .. m + 1 : lv[k] \in Int
    BY <1>10, <1>13
  <2>3. ASSUME NEW k \in 1 .. m + 2 PROVE lw[k] \in Int
    <3>1. CASE k \in 1 .. m + 1
      BY <2>1, <2>2, <3>1
    <3>2. CASE k = m + 2
      <4>1. m + 1 \in 1 .. m + 1
        BY <1>13
      <4> QED BY <2>1, <2>2, <3>2, <4>1
    <3> QED BY <1>13, <3>1, <3>2
  <2>4. ASSUME NEW k \in 1 .. m + 1 PROVE lw[k + 1] = lw[k] + Weight(t[k].sym)
    <3>1. CASE k \in 1 .. m
      <4>1. k + 1 \in 1 .. m + 1
        BY <1>13, <3>1
      <4> QED BY <1>3, <1>10, <1>13, <2>1, <3>1, <4>1
    <3>2. CASE k = m + 1
      <4>1. k + 1 = m + 2 /\ Weight(x) = 0 /\ lv[m + 1] \in Int /\ m + 1 \in 1 .. m + 1
        BY <1>4, <1>13, <2>2, <3>2, Words
      <4> QED BY <1>3, <2>1, <3>2, <4>1
    <3> QED BY <1>13, <3>1, <3>2
  <2>5. lw[m + 2] = Deep(tx, h)
    BY <1>10, <1>11, <2>1
  <2>6. ASSUME NEW k \in 1 .. m + 1, t[k].sym \in Token
        PROVE  /\ t[k].node.at \in 1 .. h - 1 /\ tx[t[k].node.at] = t[k].sym
               /\ Deep(tx, t[k].node.at) = lw[k]
    <3>1. CASE k \in 1 .. m
      BY <1>3, <1>10, <1>13, <2>1, <2>6, <3>1
    <3>2. CASE k = m + 1
      BY <1>3, <1>4, <2>6, <3>2, Words
    <3> QED BY <1>13, <3>1, <3>2
  <2>7. ASSUME NEW k \in 1 .. m + 1, IsBinary(t[k].node)
        PROVE  /\ t[k].node.at \in 1 .. h - 1 /\ tx[t[k].node.at] \in Binary
               /\ Deep(tx, t[k].node.at) >= lw[k]
    <3>1. CASE k \in 1 .. m
      BY <1>3, <1>10, <1>13, <2>1, <2>7, <3>1
    <3>2. CASE k = m + 1
      <4>1. t[k].node = v /\ IsBinary(v) /\ lw[k] = lv[m + 1] /\ lv[m + 1] \in Int
        BY <1>3, <1>13, <2>1, <2>2, <2>7, <3>2
      <4>2. Deep(tx, v.at) \in Int
        <5>1. v.at \in Nat \ {0}
          BY <1>13, <1>16, <4>1
        <5> QED BY <5>1, DeepNext
      <4> QED BY <1>16, <4>1, <4>2
    <3> QED BY <1>13, <3>1, <3>2
  <2>8. (m + 1) + 1 = m + 2
    BY <1>13
  <2>9. Levelled(t, tx, lw)
    BY <1>1, <1>3, <2>3, <2>4, <2>5, <2>6, <2>7, <2>8 DEF Levelled
  <2> QED BY <2>9
<1>19. ASSUME NEW k \in 2 .. m PROVE Binds(t, tx, k)
  <2>1. \A j \in 1 .. m :
          s[j].sym \in Token \/ IsBinary(s[j].node) => s[j].node.at \in 1 .. h - 1
    BY <1>10, <1>13
  <2>2. \A q \in 1 .. h - 1 : Deep(tx, q) = Deep(tx, q) /\ Lev(tx, q) = Lev(tx, q)
    OBVIOUS
  <2>3. Binds(s, tx, k)
    BY <1>6, <1>13
  <2> QED BY <1>3, <1>13, <2>1, <2>2, <2>3, BindsKept
<1>20. ASSUME m >= 1 PROVE Binds(t, tx, m + 1)
  <2>1. /\ ~IsOp(t, m + 1) /\ t[m + 1].sym = x /\ t[m + 1].node = v /\ (m + 1) - 1 = m
        /\ t[m] = s[m] /\ m \in 1 .. l /\ m \in 1 .. l + 1 /\ m + 1 \in 1 .. l + 1
    BY <1>3, <1>4, <1>13, <1>20, Words DEF IsOp
  <2>2. IsOp(t, m) <=> IsOp(s, m)
    <3>1. m >= 2 => t[m] = s[m] /\ t[m - 1] = s[m - 1]
      BY <1>3, <1>13
    <3> QED BY <3>1 DEF IsOp
  <2>3. /\ IsOp(s, m) => s[m].sym \in Token /\ Weight(s[m].sym) = 0
        /\ s[m].sym \in {"not", "-"} => s[m].sym \in Token /\ Weight(s[m].sym) = 0
    BY Words DEF IsOp, Weight
  <2>4. s[m].sym \in Token /\ Weight(s[m].sym) = 0 => Deep(tx, s[m].node.at) = lv[m + 1]
    BY <1>10, <2>1
  <2>5. m = l - 3 => m + 2 = l - 1 /\ (l - 1) - 2 = m /\ (l - 1 >= 3) /\ l - 1 \in 2 .. l
    BY <1>13, <1>20
  <2>6. ASSUME IsBinary(v), IsOp(s, m)
        PROVE  Within(tx, v.at, s[m].node.at) \/ Lev(tx, v.at) > Lev(tx, s[m].node.at)
    <3>1. CASE Deep(tx, v.at) > lv[m + 1]
      BY <2>3, <2>4, <2>6, <3>1 DEF Within
    <3>2. CASE m = l - 3 /\ Infix /\ v.at = s[l - 1].node.at
      <4>1. Binds(s, tx, l - 1) /\ IsOp(s, l - 1) /\ IsOp(s, (l - 1) - 2)
        BY <1>6, <1>7, <2>5, <2>6, <3>2
      <4>2. Lev(tx, s[l - 1].node.at) > Lev(tx, s[(l - 1) - 2].node.at)
        BY <4>1 DEF Binds
      <4> QED BY <2>5, <3>2, <4>2
    <3> QED BY <1>16, <2>6, <3>1, <3>2
  <2>7. ASSUME IsBinary(v), s[m].sym \in {"not", "-"}, ~IsOp(s, m)
        PROVE  Within(tx, v.at, s[m].node.at)
    <3>1. CASE Deep(tx, v.at) > lv[m + 1]
      BY <2>3, <2>4, <2>7, <3>1 DEF Within
    <3>2. CASE m = l - 3 /\ Infix
      <4>1. /\ Binds(s, tx, l - 1) /\ IsOp(s, l - 1) /\ l - 1 >= 3
            /\ s[(l - 1) - 2].sym \in {"not", "-"}
        BY <1>6, <1>7, <2>5, <2>7, <3>2
      <4>2. IsOp(s, (l - 1) - 2)
        BY <4>1 DEF Binds
      <4> QED BY <2>5, <2>7, <3>2, <4>2
    <3> QED BY <1>16, <2>7, <3>1, <3>2
  <2> HIDE DEF IsOp, IsBinary, Within, Lev
  <2> QED BY <2>1, <2>2, <2>6, <2>7 DEF Binds
<1>21. ASSUME NEW k \in 1 .. m + 1 PROVE Sound(tx, t[k].node)
  <2>1. CASE k \in 1 .. m
    BY <1>3, <1>6, <1>13, <2>1
  <2>2. CASE k = m + 1
    BY <1>3, <1>17, <2>2
  <2> QED BY <1>13, <2>1, <2>2
<1>22. Looks(t, tx)
  <2> SUFFICES ASSUME IsBinary(v), tx[h] \in Binary
               PROVE  Within(tx, v.at, h) \/ Lev(tx, v.at) >= Lev(tx, h)
    BY <1>1, <1>3 DEF Looks
  <2>1. CASE Deep(tx, v.at) > lv[m + 1]
    BY <1>10, <1>11, <2>1 DEF Within
  <2>2. CASE Infix /\ v.at = s[l - 1].node.at
    <3>1. /\ Lev(tx, v.at) = Level(s[l - 1].sym) /\ Lev(tx, h) = Level(tx[h])
          /\ Level(s[l - 1].sym) \in Int /\ Level(tx[h]) \in Int
      <4>1. tx[v.at] = s[l - 1].sym /\ s[l - 1].sym \in Binary
        BY <1>15, <2>2
      <4> QED BY <4>1, LevelIs
    <3>2. ~(Level(tx[h]) > Level(s[l - 1].sym))
      BY <1>8, <2>2
    <3> QED BY <3>1, <3>2
  <2> QED BY <1>16, <2>1, <2>2
<1>23. Ordered(t, tx)
  <2>1. \A k \in 2 .. m + 1 : k \in 2 .. m \/ (k = m + 1 /\ m >= 1)
    BY <1>13
  <2> QED BY <1>3, <1>18, <1>19, <1>20, <1>21, <1>22, <2>1 DEF Ordered
<1> QED BY <1>4, <1>23 DEF t

\* One symbol that is no expression.
LEMMA OneOrdered ==
  ASSUME NEW s, NEW tx, Len(s) = 1, s[1].sym \in {"list", "program"},
         s[1].node.kind \notin {"binary", "unary"}, Deep(tx, Len(tx)) \in Int
  PROVE  Ordered(s, tx)
<1> DEFINE lv == [k \in 1 .. 2 |-> Deep(tx, Len(tx))]
<1>1. /\ lv[1] \in Int /\ lv[2] = lv[1] /\ lv[2] = Deep(tx, Len(tx))
      /\ \A k \in 1 .. 2 : lv[k] \in Int
  OBVIOUS
<1>2. /\ \A k \in 1 .. 1 : k = 1 /\ k + 1 = 2
      /\ 1 + 1 = 2 /\ 1 .. 1 = {1} /\ \A k \in 2 .. 1 : FALSE
  OBVIOUS
<1>3. s[1].sym \notin Token /\ Weight(s[1].sym) = 0
  <2>1. "list" \notin Token /\ "program" \notin Token
    BY Zenon DEF Token, Binary
  <2> QED BY <2>1 DEF Weight
<1>4. ~IsBinary(s[1].node)
  BY DEF IsBinary
<1> HIDE DEF lv, IsBinary
<1>5. Levelled(s, tx, lv)
  <2>1. Len(s) + 1 = 2 /\ \A k \in 1 .. Len(s) : k = 1 /\ k + 1 = 2
    OBVIOUS
  <2>2. \A k \in 1 .. Len(s) : lv[k + 1] = lv[k] + Weight(s[k].sym)
    <3>1. lv[2] = lv[1] + Weight(s[1].sym)
      BY <1>1, <1>3
    <3> QED BY <2>1, <3>1
  <2>3. \A k \in 1 .. Len(s) : s[k].sym \notin Token /\ ~IsBinary(s[k].node)
    BY <1>3, <1>4, <2>1
  <2>4. \A k \in 1 .. Len(s) + 1 : lv[k] \in Int
    BY <1>1, <2>1
  <2>5. lv[Len(s) + 1] = Deep(tx, Len(tx))
    BY <1>1, <2>1
  <2> QED BY ONLY <2>2, <2>3, <2>4, <2>5 DEF Levelled
<1>6. Looks(s, tx)
  BY <1>4 DEF Looks
<1>7. Sound(tx, s[1].node)
  BY DEF Sound
<1> QED BY <1>2, <1>5, <1>6, <1>7 DEF Ordered

LEMMA InitOrdered ==
  ASSUME Init
  PROVE  Ordered(stack, text)
<1>1. Len(stack) = 1 /\ stack[1].sym = "list" /\ stack[1].node = Node("list", 0, << >>)
  BY DEF Init
<1>2. Len(text) = 1
  BY DEF Init
<1>3. stack[1].node.kind \notin {"binary", "unary"}
  BY <1>1, NodeIs
<1>4. Deep(text, Len(text)) \in Int
  BY <1>2, DeepFirst
<1> QED BY <1>1, <1>3, <1>4, OneOrdered

LEMMA ProgramOrdered ==
  ASSUME IInv, program
  PROVE  Ordered(stack', text')
<1>1. Len(stack) = 1 /\ Last = 1 /\ Sym(1) = "list"
  <2>1. Last = 1 /\ Len(stack) = 1
    BY DEF program, Last
  <2> QED BY <2>1, Ends1 DEF program
<1>2. /\ Len(stack') = 1 /\ stack'[1].sym = "program" /\ stack'[1].node = stack[1].node
      /\ text' = text
  BY DEF program
<1>3. stack[1].node.kind \notin {"binary", "unary"}
  <2>1. Means("list", stack[1].node)
    BY <1>1 DEF IInv, Typed
  <2> QED BY <2>1 DEF Means
<1>4. Deep(text', Len(text')) \in Int
  BY <1>2, Facts, DeepNext DEF here
<1> QED BY <1>2, <1>3, <1>4, OneOrdered

-------------------------------------------------------------------------------
(***************************************************************************)
(* What a rule puts into a tree is on the stack, or in a list there: a set *)
(* that is closed under subtrees and holds what is on the stack holds what *)
(* is under the new node.                                                  *)
(***************************************************************************)
Holds(T) == \A k \in 1 .. Last : stack[k].node \in T /\ stack[k].node.kids \in Seq(T)

Grafted(v) == \A T : Holds(T) => v.kids \in Seq(T)

LEMMA ValueIn ==
  ASSUME NEW T, Holds(T), NEW n \in Int, NEW k \in Int, Last - n + k \in 1 .. Last
  PROVE  Value(n, k) \in T /\ Value(n, k).kids \in Seq(T)
BY DEF Holds, Value, Last

LEMMA OptionalIn ==
  ASSUME NEW T, Holds(T), NEW n \in Int, NEW k \in Int, Last - n + k \in 1 .. Last
  PROVE  Optional(n, k) \in Seq(T)
<1>1. Value(n, k) \in T
  BY ValueIn
<1> HIDE DEF Value
<1> QED BY <1>1 DEF Optional

LEMMA KidsIs ==
  ASSUME NEW kind, NEW at, NEW kids
  PROVE  Node(kind, at, kids).kids = kids
BY DEF Node

LEMMA Graft ==
  ASSUME IInv, NEW n \in 0 .. Last, NEW x, NEW v, NEW freed, reduce(n, x, v, freed),
         \A T : Holds(T) => v.kids \in Seq(T)
  PROVE  Grafted(stack'[Len(stack')].node)
<1>1. IsStack(stack) /\ n \in 0 .. Len(stack)
  BY Facts DEF Last
<1>2. stack' = Append(SubSeq(stack, 1, Len(stack) - n), [sym |-> x, node |-> v])
  BY DEF reduce
<1>3. stack'[Len(stack')] = [sym |-> x, node |-> v]
  BY <1>1, <1>2, Replaced
<1> QED BY <1>3 DEF Grafted

LEMMA EmptyIn == \A T : << >> \in Seq(T)
OBVIOUS

LEMMA Taken ==
  ASSUME IInv, NEW n \in 0 .. Last, NEW x, NEW kind, NEW at, NEW kids, NEW freed,
         reduce(n, x, Node(kind, at, kids), freed), \A T : Holds(T) => kids \in Seq(T)
  PROVE  Grafted(stack'[Len(stack')].node)
<1>1. \A T : Holds(T) => Node(kind, at, kids).kids \in Seq(T)
  BY KidsIs
<1> QED BY <1>1, Graft

LEMMA ValueOf ==
  ASSUME IInv, NEW T, Holds(T), NEW n \in 0 .. Last, NEW k \in 1 .. n
  PROVE  Value(n, k) \in T /\ Value(n, k).kids \in Seq(T) /\ Optional(n, k) \in Seq(T)
<1>1. n \in Int /\ k \in Int /\ Last - n + k \in 1 .. Last
  BY Facts
<1> QED BY <1>1, ValueIn, OptionalIn

LEMMA ListsGraft ==
  ASSUME IInv, empty_statement_list \/ statement_list \/ param_list \/ arg_list
  PROVE  Grafted(stack'[Len(stack')].node)
<1>1. Last \in Nat \ {0} /\ 0 \in 0 .. Last
  BY Facts
<1>2. CASE empty_statement_list
  <2>1. reduce(0, "list", Node("list", 0, << >>), {})
    BY <1>2 DEF empty_statement_list
  <2> QED BY <1>1, <2>1, EmptyIn, Taken
<1>3. CASE statement_list
  <2> DEFINE v == [Value(2, 1) EXCEPT !.kids = Append(@, Value(2, 2))]
  <2>1. Last >= 2 /\ Sym(Last - 1) = "list"
    BY <1>1, <1>3, Ends2 DEF statement_list
  <2>2. v.kids = Append(Value(2, 1).kids, Value(2, 2))
    <3>1. Last - 1 \in 1 .. Last /\ Value(2, 1) = stack[Last - 1].node
      BY <1>1, <2>1 DEF Value, Last
    <3>2. IsNode(Value(2, 1))
      BY <3>1 DEF IInv, Typed, Means
    <3> QED BY <3>2 DEF IsNode, Node
  <2>3. ASSUME NEW T, Holds(T) PROVE v.kids \in Seq(T)
    <3>1. Last - 2 + 1 \in 1 .. Last /\ Last - 2 + 2 \in 1 .. Last
      BY <1>1, <2>1
    <3>2. Value(2, 1).kids \in Seq(T) /\ Value(2, 2) \in T
      BY <2>3, <3>1, ValueIn
    <3> HIDE DEF v
    <3> QED BY <2>2, <3>2
  <2>4. reduce(2, "list", v, {}) /\ 2 \in 0 .. Last
    BY <1>1, <1>3, <2>1 DEF statement_list
  <2> HIDE DEF v
  <2> QED BY <2>3, <2>4, Graft
<1>4. ASSUME NEW n \in 0 .. Last, NEW x, NEW v, NEW freed, reduce(n, x, v, freed),
             NEW j \in 1 .. n, v.kids = << Value(n, j) >>
      PROVE  Grafted(stack'[Len(stack')].node)
  <2>1. ASSUME NEW T, Holds(T) PROVE v.kids \in Seq(T)
    <3>1. n \in Int /\ j \in Int /\ Last - n + j \in 1 .. Last
      BY <1>1
    <3>2. Value(n, j) \in T
      BY <2>1, <3>1, ValueIn
    <3> QED BY <1>4, <3>2
  <2> QED BY <1>4, <2>1, Graft
<1>5. ASSUME NEW n \in 0 .. Last, NEW x, NEW freed, NEW j \in 1 .. n,
             NEW v, v = [Value(n, 1) EXCEPT !.kids = Append(@, Value(n, j))], reduce(n, x, v, freed)
      PROVE  Grafted(stack'[Len(stack')].node)
  <2>1. /\ n \in Int /\ j \in Int /\ 1 \in Int
        /\ Last - n + j \in 1 .. Last /\ Last - n + 1 \in 1 .. Last
    BY <1>1
  <2>2. v.kids = Append(Value(n, 1).kids, Value(n, j))
    <3>1. Value(n, 1) = stack[Last - n + 1].node
      BY DEF Value, Last
    <3>2. IsNode(Value(n, 1))
      BY <2>1, <3>1 DEF IInv, Typed, Means
    <3> QED BY <1>5, <3>2 DEF IsNode, Node
  <2>3. ASSUME NEW T, Holds(T) PROVE v.kids \in Seq(T)
    <3>1. Value(n, 1).kids \in Seq(T) /\ Value(n, j) \in T
      BY <2>1, <2>3, ValueIn
    <3> QED BY <2>2, <3>1
  <2> QED BY <1>5, <2>3, Graft
<1>6. CASE param_list
  <2>1. CASE reduce(0, "none", None, {})
    BY <1>1, <2>1, EmptyIn, Taken DEF None
  <2>2. CASE /\ Ends(<< {"("}, {"name"}, {"type"} >>)
             /\ reduce(2, "params", Node("params", 0, << Value(2, 1) >>),
                       {Value(2, 1).at, Value(2, 2).at})
    <3>1. Last >= 3
      BY <1>1, <2>2, Ends3
    <3>2. 2 \in 0 .. Last /\ 1 \in 1 .. 2
      BY <1>1, <3>1
    <3> QED BY <1>4, <2>2, <3>2, KidsIs
  <2>3. CASE /\ Ends(<< {"params"}, {","}, {"name"}, {"type"} >>)
             /\ reduce(4, "params", [Value(4, 1) EXCEPT !.kids = Append(@, Value(4, 3))],
                       {Value(4, 3).at, Value(4, 4).at})
    <3>1. Last >= 4
      BY <1>1, <2>3, Ends4, Zenon
    <3>2. 4 \in 0 .. Last /\ 3 \in 1 .. 4
      BY <1>1, <3>1
    <3> QED BY <1>5, <2>3, <3>2, Zenon
  <2> QED BY <1>6, <2>1, <2>2, <2>3, Zenon DEF param_list
<1>7. CASE arg_list
  <2>1. CASE reduce(0, "none", None, {})
    BY <1>1, <2>1, EmptyIn, Taken DEF None
  <2>2. CASE /\ Ends(<< {"name", "print"}, {"("}, {"expr"} >>)
             /\ reduce(1, "args", Node("args", 0, << Value(1, 1) >>), {})
    <3>1. Last >= 3
      BY <1>1, <2>2, Ends3
    <3>2. 1 \in 0 .. Last /\ 1 \in 1 .. 1
      BY <1>1, <3>1
    <3> QED BY <1>4, <2>2, <3>2, KidsIs
  <2>3. CASE /\ Ends(<< {"args"}, {","}, {"expr"} >>)
             /\ reduce(3, "args", [Value(3, 1) EXCEPT !.kids = push_back(@, Value(3, 3))], {})
    <3>1. Last >= 3
      BY <1>1, <2>3, Ends3, Zenon
    <3>2. 3 \in 0 .. Last /\ 3 \in 1 .. 3
      BY <1>1, <3>1
    <3> QED BY <1>5, <2>3, <3>2, Zenon DEF push_back
  <2> QED BY <1>7, <2>1, <2>2, <2>3, Zenon DEF arg_list
<1> QED BY <1>2, <1>3, <1>6, <1>7

LEMMA WordsGraft ==
  ASSUME IInv, assignment \/ opt_type_annotation \/ function_def
  PROVE  Grafted(stack'[Len(stack')].node)
<1>1. Last \in Nat \ {0} /\ 0 \in 0 .. Last
  BY Facts
<1> HIDE DEF Value, Optional
<1>2. CASE assignment
  <2>1. CASE /\ Ends(<< {"list"}, {"name"}, {"="}, {"expr"} >>)
             /\ reduce(3, "statement", Node("assignment", Value(3, 1).at, << Value(3, 3) >>),
                       {Value(3, 1).at})
    <3>1. 3 \in 0 .. Last /\ 3 \in 1 .. 3
      BY <1>1, <2>1, Ends4
    <3>2. \A T : Holds(T) => << Value(3, 3) >> \in Seq(T)
      BY <3>1, ValueOf
    <3> QED BY <2>1, <3>1, <3>2, Taken
  <2>2. CASE /\ Ends(<< {"local"}, {"name"}, {"type"}, {"="}, {"expr"} >>)
             /\ reduce(5, "statement",
                       Node("assignment", Value(5, 2).at, Append(Optional(5, 3), Value(5, 5))),
                       {Value(5, 2).at, Value(5, 3).at})
    <3>1. 5 \in 0 .. Last /\ 3 \in 1 .. 5 /\ 5 \in 1 .. 5
      BY <1>1, <2>2, Ends5
    <3>2. ASSUME NEW T, Holds(T) PROVE Append(Optional(5, 3), Value(5, 5)) \in Seq(T)
      <4>1. Optional(5, 3) \in Seq(T) /\ Value(5, 5) \in T
        BY <3>1, <3>2, ValueOf
      <4> QED BY <4>1
    <3> QED BY <2>2, <3>1, <3>2, Taken
  <2> QED BY <1>2, <2>1, <2>2 DEF assignment
<1>3. CASE opt_type_annotation
  <2>1. CASE reduce(0, "type", None, {})
    BY <1>1, <2>1, EmptyIn, Taken DEF None
  <2>2. CASE Ends(<< {":"}, {"name"} >>) /\ reduce(2, "type", Value(2, 2), {})
    <3>1. 2 \in 0 .. Last /\ 2 \in 1 .. 2
      BY <1>1, <2>2, Ends2
    <3>2. \A T : Holds(T) => Value(2, 2).kids \in Seq(T)
      BY <3>1, ValueOf
    <3> QED BY <2>2, <3>1, <3>2, Graft
  <2> QED BY <1>3, <2>1, <2>2 DEF opt_type_annotation
<1>4. CASE function_def
  <2>1. /\ Ends(<< {"function"}, {"name"}, {"("}, {"params", "none"}, {")"}, {"type"},
                   {"list"}, {"end"} >>)
        /\ reduce(8, "statement",
                  Node("function", Value(8, 2).at,
                       Value(8, 4).kids \o Append(Optional(8, 6), Value(8, 7))),
                  {Value(8, 2).at, Value(8, 6).at})
    BY <1>4 DEF function_def
  <2>2. 8 \in 0 .. Last /\ 4 \in 1 .. 8 /\ 6 \in 1 .. 8 /\ 7 \in 1 .. 8
    BY <1>1, <2>1, Ends8
  <2>3. ASSUME NEW T, Holds(T)
        PROVE  Value(8, 4).kids \o Append(Optional(8, 6), Value(8, 7)) \in Seq(T)
    <3>1. Value(8, 4).kids \in Seq(T) /\ Optional(8, 6) \in Seq(T) /\ Value(8, 7) \in T
      BY <2>2, <2>3, ValueOf
    <3> QED BY <3>1
  <2> QED BY <2>1, <2>2, <2>3, Taken
<1> QED BY <1>2, <1>3, <1>4

LEMMA CallsGraft ==
  ASSUME IInv, function_call \/ print_statement \/ return_stmt
  PROVE  Grafted(stack'[Len(stack')].node)
<1>1. Last \in Nat \ {0} /\ 0 \in 0 .. Last
  BY Facts
<1> HIDE DEF Value
<1>2. CASE function_call
  <2> DEFINE x == IF stack[Len(stack) - 4].sym = "list" THEN "statement" ELSE "expr"
  <2>1. /\ Ends(<< {"name"}, {"("}, {"args", "none"}, {")"} >>)
        /\ reduce(4, x, Node("call", Value(4, 1).at, Value(4, 3).kids), FreedText(Value(4, 1)))
    BY <1>2 DEF function_call
  <2>2. 4 \in 0 .. Last /\ 3 \in 1 .. 4
    BY <1>1, <2>1, Ends4
  <2>3. \A T : Holds(T) => Value(4, 3).kids \in Seq(T)
    BY <2>2, ValueOf
  <2> HIDE DEF x
  <2> QED BY <2>1, <2>2, <2>3, Taken
<1>3. CASE print_statement
  <2>1. /\ Ends(<< {"print"}, {"("}, {"args", "none"}, {")"} >>)
        /\ reduce(4, "statement", Node("print", Value(4, 1).at, Value(4, 3).kids), {})
    BY <1>3 DEF print_statement
  <2>2. 4 \in 0 .. Last /\ 3 \in 1 .. 4
    BY <1>1, <2>1, Ends4
  <2>3. \A T : Holds(T) => Value(4, 3).kids \in Seq(T)
    BY <2>2, ValueOf
  <2> QED BY <2>1, <2>2, <2>3, Taken
<1>4. CASE return_stmt
  <2>1. CASE /\ Ends(<< {"return"}, {"expr"} >>)
             /\ reduce(2, "statement", Node("return", Value(2, 1).at, << Value(2, 2) >>), {})
    <3>1. 2 \in 0 .. Last /\ 2 \in 1 .. 2
      BY <1>1, <2>1, Ends2
    <3>2. \A T : Holds(T) => << Value(2, 2) >> \in Seq(T)
      BY <3>1, ValueOf
    <3> QED BY <2>1, <3>1, <3>2, Taken
  <2>2. CASE reduce(1, "statement", Node("return", Value(1, 1).at, << >>), {})
    <3>1. 1 \in 0 .. Last
      BY <1>1
    <3> QED BY <2>2, <3>1, EmptyIn, Taken
  <2> QED BY <1>4, <2>1, <2>2 DEF return_stmt
<1> QED BY <1>2, <1>3, <1>4

LEMMA BlocksGraft ==
  ASSUME IInv, if_stmt \/ while_stmt
  PROVE  Grafted(stack'[Len(stack')].node)
<1>1. Last \in Nat \ {0}
  BY Facts
<1> HIDE DEF Value
<1>2. ASSUME NEW kind, reduce(5, "statement", Node(kind, Value(5, 1).at,
                                                   << Value(5, 2), Value(5, 4) >>), {}),
             Last >= 5
      PROVE  Grafted(stack'[Len(stack')].node)
  <2>1. 5 \in 0 .. Last /\ 2 \in 1 .. 5 /\ 4 \in 1 .. 5
    BY <1>1, <1>2
  <2>2. ASSUME NEW T, Holds(T) PROVE << Value(5, 2), Value(5, 4) >> \in Seq(T)
    <3>1. Value(5, 2) \in T /\ Value(5, 4) \in T
      BY <2>1, <2>2, ValueOf
    <3> QED BY <3>1
  <2> QED BY <1>2, <2>1, <2>2, Taken
<1>3. CASE while_stmt
  BY <1>1, <1>2, <1>3, Ends5 DEF while_stmt
<1>4. CASE if_stmt
  <2>1. CASE /\ Ends(<< {"if"}, {"expr"}, {"then"}, {"list"}, {"end"} >>)
             /\ reduce(5, "statement",
                       Node("if", Value(5, 1).at, << Value(5, 2), Value(5, 4) >>), {})
    BY <1>1, <1>2, <2>1, Ends5
  <2>2. CASE /\ Ends(<< {"if"}, {"expr"}, {"then"}, {"list"}, {"else"}, {"list"}, {"end"} >>)
             /\ reduce(7, "statement",
                       Node("if", Value(7, 1).at, << Value(7, 2), Value(7, 4), Value(7, 6) >>), {})
    <3>1. 7 \in 0 .. Last /\ 2 \in 1 .. 7 /\ 4 \in 1 .. 7 /\ 6 \in 1 .. 7
      BY <1>1, <2>2, Ends7
    <3>2. ASSUME NEW T, Holds(T)
          PROVE  << Value(7, 2), Value(7, 4), Value(7, 6) >> \in Seq(T)
      <4>1. Value(7, 2) \in T /\ Value(7, 4) \in T /\ Value(7, 6) \in T
        BY <3>1, <3>2, ValueOf
      <4> QED BY <4>1
    <3> QED BY <2>2, <3>1, <3>2, Taken
  <2> QED BY <1>4, <2>1, <2>2 DEF if_stmt
<1> QED BY <1>3, <1>4

LEMMA OperandsGraft ==
  ASSUME IInv, binary_expr \/ unary_expr \/ primary_expr
  PROVE  Grafted(stack'[Len(stack')].node)
<1>1. Last \in Nat \ {0}
  BY Facts
<1> HIDE DEF Value
<1>2. CASE binary_expr
  <2>1. Last >= 3
    BY <1>1, <1>2, Ends3 DEF binary_expr, Infix
  <2>2. 3 \in 0 .. Last /\ 1 \in 1 .. 3 /\ 3 \in 1 .. 3
    BY <1>1, <2>1
  <2>3. ASSUME NEW T, Holds(T) PROVE << Value(3, 1), Value(3, 3) >> \in Seq(T)
    <3>1. Value(3, 1) \in T /\ Value(3, 3) \in T
      BY <2>2, <2>3, ValueOf
    <3> QED BY <3>1
  <2> QED BY <1>2, <2>2, <2>3, Taken DEF binary_expr
<1>3. CASE unary_expr
  <2>1. Last >= 2
    BY <1>1, <1>3, Ends2 DEF unary_expr, Prefix
  <2>2. 2 \in 0 .. Last /\ 2 \in 1 .. 2
    BY <1>1, <2>1
  <2>3. \A T : Holds(T) => << Value(2, 2) >> \in Seq(T)
    BY <2>2, ValueOf
  <2> QED BY <1>3, <2>2, <2>3, Taken DEF unary_expr
<1>4. CASE primary_expr
  <2>1. CASE reduce(1, "expr", [Value(1, 1) EXCEPT !.kind = "leaf"], {Value(1, 1).at})
    <3>1. 1 \in 0 .. Last /\ 1 \in 1 .. 1 /\ Last - 1 + 1 = Last /\ Last \in 1 .. Last
      BY <1>1
    <3>2. IsNode(Value(1, 1))
      BY <3>1 DEF IInv, Typed, Means, Value, Last
    <3>3. [Value(1, 1) EXCEPT !.kind = "leaf"].kids = Value(1, 1).kids
      BY <3>2 DEF IsNode, Node
    <3>4. \A T : Holds(T) => Value(1, 1).kids \in Seq(T)
      BY <3>1, ValueOf
    <3> QED BY <2>1, <3>1, <3>3, <3>4, Graft
  <2>2. CASE Ends(<< {"("}, {"expr"}, {")"} >>) /\ reduce(3, "expr", Value(3, 2), {})
    <3>1. 3 \in 0 .. Last /\ 2 \in 1 .. 3
      BY <1>1, <2>2, Ends3
    <3>2. \A T : Holds(T) => Value(3, 2).kids \in Seq(T)
      BY <3>1, ValueOf
    <3> QED BY <2>2, <3>1, <3>2, Graft
  <2> QED BY <1>4, <2>1, <2>2 DEF primary_expr
<1> QED BY <1>2, <1>3, <1>4

LEMMA RulesGraft ==
  ASSUME IInv, Rules
  PROVE  Grafted(stack'[Len(stack')].node)
BY ListsGraft, WordsGraft, CallsGraft, BlocksGraft, OperandsGraft DEF Rules

-------------------------------------------------------------------------------
(***************************************************************************)
(* Every operator in a tree on the stack was once the last symbol's, and   *)
(* is not changed after that: there is a set of nodes, closed under        *)
(* subtrees, that holds the trees, and in which all operators bind.        *)
(***************************************************************************)
Closed(T, tx) == \A v \in T : v.kids \in Seq(T) /\ Sound(tx, v)

Grown(s, tx) == \E T : (\A k \in 1 .. Len(s) : s[k].node \in T) /\ Closed(T, tx)

PInv == IInv /\ Ordered(stack, text) /\ Grown(stack, text)

LEMMA Larger ==
  ASSUME NEW T, NEW tx, NEW v, Closed(T, tx), v.kids \in Seq(T), Sound(tx, v)
  PROVE  Closed(T \cup {v}, tx)
<1>1. \A w \in T \cup {v} : w.kids \in Seq(T) /\ Sound(tx, w)
  BY DEF Closed
<1>2. \A q : q \in Seq(T) => q \in Seq(T \cup {v})
  OBVIOUS
<1> QED BY <1>1, <1>2 DEF Closed

LEMMA InitGrown ==
  ASSUME Init
  PROVE  Grown(stack, text)
<1> DEFINE v == Node("list", 0, << >>)
<1>1. Len(stack) = 1 /\ stack[1].node = v
  BY DEF Init
<1>2. v.kind = "list" /\ v.kids = << >>
  BY DEF Node
<1> HIDE DEF v
<1>3. Closed({v}, text)
  <2>1. Sound(text, v)
    BY <1>2 DEF Sound
  <2>2. v.kids \in Seq({v})
    BY <1>2, EmptyIn
  <2> QED BY <2>1, <2>2 DEF Closed
<1> QED BY <1>1, <1>3 DEF Grown

LEMMA ShiftGrown ==
  ASSUME IInv, shift, Grown(stack, text)
  PROVE  Grown(stack', text')
<1> DEFINE n == Last
           h == here
           v == Node("token", h, << >>)
<1>1. n \in Nat \ {0} /\ h \in Nat \ {0} /\ Len(stack) = n /\ Len(text) = h
  BY Facts DEF Last, here
<1>2. /\ Len(stack') = n + 1 /\ stack'[n + 1].node = v
      /\ \A k \in 1 .. n : stack'[k] = stack[k]
  BY ShiftIs
<1>3. Len(text') = h + 1 /\ \A q \in 1 .. h : text'[q] = text[q]
  <2>1. PICK a \in Token \cup {"$end"} : yylex(a)
    BY DEF shift
  <2>2. text \in Seq(Token \cup {"$end"})
    BY DEF IInv, Typed
  <2>3. here' = here + 1 /\ \A q \in 1 .. here : text'[q] = text[q]
    BY <2>1, <2>2, ReadOn
  <2> QED BY <2>3 DEF here
<1>4. v.kind = "token" /\ v.kids = << >>
  BY DEF Node
<1>5. PICK T : (\A k \in 1 .. Len(stack) : stack[k].node \in T) /\ Closed(T, text)
  BY DEF Grown
<1> HIDE DEF n, h, v
<1>6. \A q \in 1 .. h - 1 : Deep(text', q) = Deep(text, q) /\ Lev(text', q) = Lev(text, q)
  <2>1. /\ \A q \in 1 .. h + 1 : Deep(text', q) = Deep(text, q)
        /\ \A q \in 1 .. h : Lev(text', q) = Lev(text, q)
    BY <1>1, <1>3, SameTokens
  <2> QED BY <1>1, <2>1
<1>7. Closed(T, text')
  <2>1. h - 1 \in Nat /\ Len(text) - 1 = h - 1 /\ Len(text') \in Nat /\ Len(text') - 1 >= h - 1
    BY <1>1, <1>3
  <2>2. \A w : Sound(text, w) => Sound(text', w)
    BY <1>6, <2>1, SoundKept
  <2> QED BY <1>5, <2>2 DEF Closed
<1>8. Closed(T \cup {v}, text')
  BY <1>4, <1>7, EmptyIn, Larger DEF Sound
<1>9. \A k \in 1 .. Len(stack') : stack'[k].node \in T \cup {v}
  <2>1. \A k \in 1 .. n + 1 : k \in 1 .. n \/ k = n + 1
    BY <1>1
  <2> QED BY <1>1, <1>2, <1>5, <2>1
<1> QED BY <1>8, <1>9 DEF Grown

LEMMA RuleGrown ==
  ASSUME IInv, Rules, Grown(stack, text), Ordered(stack', text'),
         NEW n, NEW x, NEW v, NEW freed, Reduction(n, x, v, freed)
  PROVE  Grown(stack', text')
<1>1. PICK m \in 0 .. Last : m = Last - n
  BY AfterRule
<1>2. /\ Len(stack') = m + 1 /\ stack'[m + 1].node = v
      /\ \A k \in 1 .. m : stack'[k] = stack[k]
  BY <1>1, AfterRule
<1>3. Last \in Nat /\ text' = text
  BY Facts DEF Reduction
<1>4. PICK T : (\A k \in 1 .. Len(stack) : stack[k].node \in T) /\ Closed(T, text)
  BY DEF Grown
<1>5. v.kids \in Seq(T)
  <2>1. Holds(T)
    BY <1>4 DEF Holds, Closed, Last
  <2>2. Grafted(v)
    BY <1>2, RulesGraft
  <2> QED BY <2>1, <2>2 DEF Grafted
<1>6. Sound(text, v)
  <2>1. m + 1 \in 1 .. Len(stack')
    BY <1>1, <1>2
  <2>2. Sound(text', stack'[m + 1].node)
    BY <2>1 DEF Ordered
  <2> QED BY <1>2, <1>3, <2>2
<1>7. Closed(T \cup {v}, text)
  BY <1>4, <1>5, <1>6, Larger
<1>8. \A k \in 1 .. Len(stack') : stack'[k].node \in T \cup {v}
  <2>1. \A k \in 1 .. m + 1 : k \in 1 .. m \/ k = m + 1
    BY <1>1
  <2>2. \A k \in 1 .. m : k \in 1 .. Len(stack)
    BY <1>1, <1>3 DEF Last
  <2> QED BY <1>2, <1>4, <2>1, <2>2
<1> QED BY <1>3, <1>7, <1>8 DEF Grown

LEMMA NextOrdered ==
  ASSUME PInv, [Next]_vars
  PROVE  PInv'
<1>1. IInv'
  BY NextInv DEF PInv
<1>2. Ordered(stack', text') /\ Grown(stack', text')
  <2>1. CASE shift
    BY <2>1, ShiftOrdered, ShiftGrown DEF PInv
  <2>2. CASE Rules
    <3>1. PICK n, x, node, freed : Reduction(n, x, node, freed)
      BY <2>2, RulesReduce DEF PInv
    <3>2. Ordered(stack', text')
      BY <3>1, RuleOrdered DEF PInv
    <3> QED BY <2>2, <3>1, <3>2, RuleGrown DEF PInv
  <2>3. CASE program
    <3>1. Ordered(stack', text')
      BY <2>3, ProgramOrdered DEF PInv
    <3>2. /\ Len(stack) = 1 /\ Len(stack') = 1 /\ stack'[1].node = stack[1].node
          /\ text' = text
      BY <2>3 DEF program
    <3>3. \A k \in 1 .. 1 : k = 1
      OBVIOUS
    <3>4. Grown(stack', text')
      BY <3>2, <3>3 DEF Grown, PInv
    <3> QED BY <3>1, <3>4
  <2>4. CASE UNCHANGED vars
    BY <2>4 DEF vars, PInv
  <2> QED BY <2>1, <2>2, <2>3, <2>4 DEF Next, Rules
<1> QED BY <1>1, <1>2 DEF PInv

-------------------------------------------------------------------------------
(* The nodes of a tree are in every set that is closed under subtrees. *)

LEMMA Least ==
  ASSUME NEW S, S \subseteq Nat, S # {}
  PROVE  \E x \in S : \A y \in S : x <= y
<1> DEFINE R == OpToRel(<, Nat)
<1>1. \E x \in S : \A y \in S : ~(<< y, x >> \in R)
  <2>1. IsWellFoundedOn(R, Nat)
    BY NatLessThanWellFounded
  <2> HIDE DEF R
  <2> QED BY <2>1, WFMin
<1>2. \A x \in Nat, y \in Nat : y < x => << y, x >> \in R
  BY DEF OpToRel
<1> HIDE DEF R
<1>3. PICK x \in S : \A y \in S : ~(<< y, x >> \in R)
  BY <1>1
<1>4. ASSUME NEW y \in S
      PROVE  x <= y
  <2>1. x \in Nat /\ y \in Nat /\ ~(<< y, x >> \in R)
    BY <1>3
  <2> QED BY <2>1, <1>2
<1> QED BY <1>3, <1>4

Wider(above) == above \cup UNION { Range(v.kids) : v \in above }

\* g gives the nodes at depths up to d.
Depths(g, n, d) == g = [i \in 0 .. d |-> IF i = 0 THEN {n} ELSE Wider(g[i - 1])]

LEMMA DepthsAre ==
  ASSUME NEW g, NEW n, NEW d \in Nat, Depths(g, n, d)
  PROVE  g[0] = {n} /\ \A i \in 1 .. d : g[i] = Wider(g[i - 1])
<1> DEFINE c == [i \in 0 .. d |-> IF i = 0 THEN {n} ELSE Wider(g[i - 1])]
<1>1. \A i \in 0 .. d : c[i] = IF i = 0 THEN {n} ELSE Wider(g[i - 1])
  OBVIOUS
<1>2. g = c
  BY DEF Depths
<1> HIDE DEF c
<1>3. 0 \in 0 .. d /\ \A i \in 1 .. d : i \in 0 .. d /\ i # 0
  OBVIOUS
<1> QED BY <1>1, <1>2, <1>3

LEMMA DepthsExist ==
  ASSUME NEW n, NEW h \in Nat
  PROVE  \E g : Depths(g, n, h)
<1> DEFINE S == { d \in 0 .. h : ~ \E g : Depths(g, n, d) }
<1> SUFFICES ASSUME S # {} PROVE FALSE
  OBVIOUS
<1>1. PICK d \in S : \A y \in S : d <= y
  <2>1. S \subseteq Nat
    OBVIOUS
  <2> HIDE DEF S
  <2> QED BY <2>1, Least
<1>2. d \in 0 .. h /\ ~ \E g : Depths(g, n, d)
  OBVIOUS
<1>3. CASE d = 0
  <2> DEFINE g == [i \in 0 .. 0 |-> {n}]
  <2>1. g = [i \in 0 .. 0 |-> IF i = 0 THEN {n} ELSE Wider(g[i - 1])]
    OBVIOUS
  <2> HIDE DEF g
  <2> QED BY <1>2, <1>3, <2>1 DEF Depths
<1>4. CASE d # 0
  <2>1. d - 1 \in 0 .. h /\ ~(d <= d - 1) /\ d \in Nat \ {0}
    BY <1>2, <1>4
  <2>2. d - 1 \notin S
    BY <1>1, <2>1
  <2>3. PICK g : Depths(g, n, d - 1)
    BY <2>1, <2>2
  <2>4. g[0] = {n} /\ \A i \in 1 .. d - 1 : g[i] = Wider(g[i - 1])
    BY <2>1, <2>3, DepthsAre
  <2> DEFINE f == [i \in 0 .. d |-> IF i = d THEN Wider(g[d - 1]) ELSE g[i]]
  <2>5. \A i \in 0 .. d : f[i] = IF i = d THEN Wider(g[d - 1]) ELSE g[i]
    OBVIOUS
  <2>6. f = [i \in 0 .. d |-> f[i]]
    OBVIOUS
  <2> HIDE DEF f, Wider
  <2>7. ASSUME NEW i \in 0 .. d
        PROVE  f[i] = IF i = 0 THEN {n} ELSE Wider(f[i - 1])
    <3>1. CASE i = 0
      BY <2>1, <2>4, <2>5, <3>1
    <3>2. CASE i # 0
      <4>1. i - 1 \in 0 .. d /\ i - 1 # d /\ (i # d => i \in 1 .. d - 1)
        BY <2>1, <3>2
      <4>2. f[i - 1] = g[i - 1]
        BY <2>5, <4>1
      <4> QED BY <2>4, <2>5, <3>2, <4>1, <4>2
    <3> QED BY <3>1, <3>2
  <2>8. f = [i \in 0 .. d |-> IF i = 0 THEN {n} ELSE Wider(f[i - 1])]
    BY <2>6, <2>7
  <2> QED BY <1>2, <2>8 DEF Depths
<1> QED BY <1>3, <1>4

LEMMA NodesWithin ==
  ASSUME NEW T, NEW n \in T, here \in Nat, \A v \in T : v.kids \in Seq(T)
  PROVE  Nodes(n) \subseteq T
<1> DEFINE h == here
           a == CHOOSE g : Depths(g, n, h)
           S == { d \in 0 .. h : ~(a[d] \subseteq T) }
<1>1. Nodes(n) = a[h]
  BY DEF Nodes, Depths, Wider
<1>2. Depths(a, n, h)
  <2>1. \E g : Depths(g, n, h)
    BY DepthsExist
  <2> HIDE DEF Depths, h
  <2> QED BY <2>1
<1>3. h \in Nat
  OBVIOUS
<1> HIDE DEF h, a
<1>4. a[0] = {n} /\ \A i \in 1 .. h : a[i] = Wider(a[i - 1])
  BY <1>2, <1>3, DepthsAre
<1>5. \A A : A \subseteq T => Wider(A) \subseteq T
  <2> SUFFICES ASSUME NEW A, A \subseteq T, NEW v \in A PROVE Range(v.kids) \subseteq T
    BY DEF Wider
  <2>1. v.kids \in Seq(T)
    OBVIOUS
  <2> QED BY <2>1 DEF Range
<1>6. S = {}
  <2> SUFFICES ASSUME S # {} PROVE FALSE
    OBVIOUS
  <2>1. PICK d \in S : \A y \in S : d <= y
    <3>1. S \subseteq Nat
      BY <1>3
    <3> HIDE DEF S
    <3> QED BY <3>1, Least
  <2>2. d \in 0 .. h /\ ~(a[d] \subseteq T)
    OBVIOUS
  <2>3. d # 0
    BY <1>4, <2>2
  <2>4. d \in 1 .. h /\ d - 1 \in 0 .. h /\ ~(d <= d - 1)
    BY <1>3, <2>2, <2>3
  <2>5. a[d - 1] \subseteq T
    BY <2>1, <2>4
  <2> QED BY <1>4, <1>5, <2>2, <2>4, <2>5
<1>7. h \in 0 .. h
  BY <1>3
<1> QED BY <1>1, <1>6, <1>7

\* The operators of an operand bind tighter than the operator it belongs to, whatever the file.
THEOREM OperatorsBind == Spec => []Precedence
<1>1. Init => PInv
  BY InitInv, InitOrdered, InitGrown DEF PInv
<1>2. PInv /\ [Next]_vars => PInv'
  BY NextOrdered
<1>3. PInv => Precedence
  <2> SUFFICES ASSUME PInv, NEW k \in DOMAIN stack, NEW n \in Nodes(stack[k].node),
                      n.kind \in {"binary", "unary"}, NEW i \in DOMAIN n.kids,
                      n.kids[i].kind = "binary"
               PROVE  \/ Nesting(n.kids[i].at) > Nesting(n.at)
                      \/ n.kind = "binary" /\ Rank(n.kids[i]) >= Rank(n) + (i - 1)
    BY DEF Precedence
  <2>1. k \in 1 .. Len(stack) /\ here \in Nat
    BY Facts DEF PInv, Last
  <2>2. PICK T : (\A j \in 1 .. Len(stack) : stack[j].node \in T) /\ Closed(T, text)
    BY DEF PInv, Grown
  <2>3. Nodes(stack[k].node) \subseteq T
    <3> HIDE DEF Nodes
    <3> QED BY <2>1, <2>2, NodesWithin DEF Closed
  <2>4. Sound(text, n)
    BY <2>2, <2>3 DEF Closed
  <2> HIDE DEF Nesting, Rank, Deep, Lev
  <2> QED BY <2>4, NestingRank DEF Sound, Within, IsBinary
<1> QED BY <1>1, <1>2, <1>3, PTL DEF Spec
===============================================================================
