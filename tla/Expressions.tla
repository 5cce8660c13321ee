------------------------------ MODULE Expressions ------------------------------
(***************************************************************************)
(* The code compiled for an expression on x86-64.                          *)
(* NativeJIT::compileExpression walks the tree and emits straight-line     *)
(* code, so instructions run in the order in which they are emitted, and   *)
(* each action of this module is a node's share of both: the walk over the *)
(* node and the effect of the instructions emitted for it.                 *)
(*                                                                         *)
(* Values have no type in native code; the types of the syntax tree's      *)
(* operands (`type', `leftType') are carried along only to say which value *)
(* of the interpreter a word stands for.                                   *)
(***************************************************************************)
EXTENDS Integers, Sequences, FiniteSets

CONSTANTS
  Half, MaxOpen,
  Piece       \* movz and movk load a word in four pieces, each below Piece: 2^16 in the code

VARIABLES
  open,       \* the nodes whose operands are being compiled, innermost last
  type,       \* type of the value in rax; "none" while an operand is still to come
  rax,
  temps,      \* the words pushed by this expression, last pushed last
  outcome

vars == << open, type, rax, temps, outcome >>

ASSUME HalfAssumption  == Half \in Nat \ {0, 1}     \* 1 is a word
ASSUME BoundAssumption == MaxOpen \in Nat
ASSUME PieceAssumption == Piece \in Nat \ {0} /\ 2 * Half = Piece * Piece * Piece * Piece

Word == -Half .. Half - 1
Top  == open[Len(open)]

\* The word that stands for a value, and back.
WordOf(v)     == IF v.type = "int" THEN v.data ELSE IF v.data THEN 1 ELSE 0
Meant(t, w)   == CASE t = "none" -> [type |-> t]
                   [] t = "int"  -> [type |-> t, data |-> w]
                   [] t = "bool" -> [type |-> t, data |-> w # 0]

\* The number of words pushed before node k's left operand, and by it.
Pushed(k) == Cardinality({ j \in 1 .. k : open[j].leftType # "none" })

E == INSTANCE Evaluation WITH
       open   <- [k \in DOMAIN open |->
                    [op |-> open[k].op,
                     left |-> Meant(open[k].leftType,
                                    IF open[k].leftType = "none" THEN 0 ELSE temps[Pushed(k)])]],
       result <- Meant(type, rax)

-------------------------------------------------------------------------------
(* The processor: registers hold two's complement words. *)

Wrap(i) == ((i + Half) % (2 * Half)) - Half

\* Mutant: true is a word of ones.
AllOnes(b) == IF b THEN -1 ELSE 0

\* setcc al; movzx rax, al
Flag(b) == IF b THEN 1 ELSE 0

\* cmp a, b sets the flags as a - b does.
ZF(a, b) == Wrap(a - b) = 0
SF(a, b) == Wrap(a - b) < 0
OF(a, b) == a - b \notin Word

\* idiv: the quotient q and remainder r of rdx:rax by d.
Divides(n, d, q, r) ==
  n = q * d + r /\ E!Abs(r) < E!Abs(d) /\ (r = 0 \/ (r < 0) = (n < 0))

Quotients  == -2 * Half .. 2 * Half
Div(n, d)  == CHOOSE q \in Quotients : \E r \in Word : Divides(n, d, q, r)
Rem(n, d)  == CHOOSE r \in Word : \E q \in Quotients : Divides(n, d, q, r)

\* Mutant: no cqo; rdx is zero, as if the dividend were unsigned.
WithoutCqo(rbx) == rbx % (2 * Half)

\* cqo extends the sign of the dividend into rdx.
Dividend(rbx) == rbx

\* #DE, which the operating system turns into SIGFPE.
Trap(op, a, b) == op \in {"/", "%"} /\ (b = 0 \/ Div(Dividend(a), b) \notin Word)

\* emitAdd ... emitOr: rax after the operator, from the popped rbx and rax.
Emitted(op, rbx, ax) ==
  CASE op = "+"   -> Wrap(ax + rbx)
    [] op = "-"   -> Wrap(rbx - ax)
    [] op = "*"   -> Wrap(ax * rbx)
    [] op = "/"   -> Div(Dividend(rbx), ax)
    [] op = "%"   -> Rem(Dividend(rbx), ax)
    [] op = "=="  -> Flag(ZF(rbx, ax))
    [] op = "~="  -> Flag(~ZF(rbx, ax))
    [] op = "<"   -> Flag(SF(rbx, ax) # OF(rbx, ax))
    [] op = "<="  -> Flag(ZF(rbx, ax) \/ SF(rbx, ax) # OF(rbx, ax))
    [] op = ">"   -> Flag(~ZF(rbx, ax) /\ SF(rbx, ax) = OF(rbx, ax))
    [] op = ">="  -> Flag(SF(rbx, ax) = OF(rbx, ax))
    [] op = "and" -> Flag(rbx # 0 /\ ax # 0)
    [] op = "or"  -> Flag(rbx # 0 \/ ax # 0)

\* emitNot, emitNeg
EmittedUnary(op, ax) == IF op = "not" THEN Flag(ax = 0) ELSE Wrap(-ax)

-------------------------------------------------------------------------------
(* The same operators in ARM64 code: what x0 receives, given x9 and x0. *)

\* sdiv does not trap: the quotient by zero is 0, and one that overflows wraps.
SDiv(n, d) == IF d = 0 THEN 0 ELSE Wrap(Div(n, d))

\* Condition codes come in pairs: 0 and 1 are eq and ne, 10 and 11 ge and lt, 12 and
\* 13 gt and le.  Holds: after cmp a, b.
Holds(code, a, b) ==
  (code % 2 = 0) = CASE code \div 2 = 0 -> ZF(a, b)
                     [] code \div 2 = 5 -> SF(a, b) = OF(a, b)
                     [] code \div 2 = 6 -> ~ZF(a, b) /\ SF(a, b) = OF(a, b)

\* Mutant: the codes of "<=" and "<" without the bit flipped.
NotFlipped == [o \in {"==", "~=", "<", "<=", ">", ">="} |->
  CASE o = "==" -> 1 [] o = "~=" -> 0 [] o \in {"<", ">="} -> 10 [] OTHER -> 12]

\* cset is encoded with the condition under which it does not set.
CsetCode == [o \in {"==", "~=", "<", "<=", ">", ">="} |->
  CASE o = "==" -> 1 [] o = "~=" -> 0
    [] o = "<"  -> 10 [] o = ">=" -> 11
    [] o = "<=" -> 12 [] o = ">"  -> 13]

ARM64Emitted(op, x9, x0) ==
  CASE op = "+"   -> Wrap(x9 + x0)
    [] op = "-"   -> Wrap(x9 - x0)
    [] op = "*"   -> Wrap(x9 * x0)
    [] op = "/"   -> SDiv(x9, x0)
    [] op = "%"   -> Wrap(x0 - SDiv(x9, x0) * x0)     \* msub x0, x10, x0, x0
    [] op = "and" -> Flag(~Holds(0, x9, 0) /\ ~Holds(0, x0, 0))
    [] op = "or"  -> Flag(~Holds(0, x9, 0) \/ ~Holds(0, x0, 0))
    [] OTHER      -> Flag(~Holds(CsetCode[op], x9, x0))

ARM64EmittedUnary(op, x0) == IF op = "not" THEN Flag(~Holds(CsetCode["=="], x0, 0)) ELSE Wrap(0 - x0)

\* movk of the piece that counts in units of u.
Movk(imm, u) == IF imm >= u THEN ((imm \div u) % Piece) * u ELSE 0

\* movz, then a movk for every further piece of a word that is that large.
MovImm64(imm) ==
  (imm % Piece) + Movk(imm, Piece) + Movk(imm, Piece * Piece)
    + Movk(imm, Piece * Piece * Piece)

\* One movz or movn (which complements) where that is enough.
ARM64Immediate(i) ==
  CASE i \in 0 .. Piece - 1 -> i
    [] i \in -Piece .. -1   -> -1 - ((-1 - i) % Piece)
    [] OTHER                -> Wrap(MovImm64(i % (2 * Half)))

-------------------------------------------------------------------------------
(* compileExpression *)

Init ==
  /\ open = << >> /\ type = "none"
  /\ rax \in Word /\ temps = << >>
  /\ outcome = "running"

Wanted == outcome = "running" /\ type = "none"
Got    == outcome = "running" /\ type # "none"
Closed == SubSeq(open, 1, Len(open) - 1)

\* BINARY_OP or UNARY_OP: its first operand is compiled first.
operator(op) ==
  /\ Wanted /\ E!Fits(E!TypeOf(op))
  /\ Len(open) < MaxOpen
  /\ open' = Append(open, [op |-> op, leftType |-> "none"])
  /\ UNCHANGED << type, rax, temps, outcome >>

\* emitLoadImmediate, emitLoadBool, emitLoadLocal, or a call.
load(v) ==
  /\ Wanted /\ E!Fits(v.type)
  /\ rax' = WordOf(v)
  /\ type' = v.type
  /\ UNCHANGED << open, temps, outcome >>

emitPush ==
  /\ Got /\ open # << >> /\ Top.op \in E!Binary /\ Top.leftType = "none"
  /\ temps' = Append(temps, rax)
  /\ open' = [open EXCEPT ![Len(open)].leftType = type]
  /\ type' = "none"
  /\ UNCHANGED << rax, outcome >>

\* Mutant: the operand is read and not popped.
Peeked(s) == s

Popped(s) == SubSeq(s, 1, Len(s) - 1)

\* emitPop and the operator's own instructions.
emitBinary ==
  /\ Got /\ open # << >> /\ Top.leftType # "none"
  /\ LET rbx == temps[Len(temps)]
     IN /\ temps' = Popped(temps)
        /\ IF Trap(Top.op, rbx, rax)
           THEN /\ outcome' = "stopped"
                /\ open' = << >> /\ type' = "none"
                /\ UNCHANGED rax
           ELSE /\ rax' = Emitted(Top.op, rbx, rax)
                /\ type' = E!TypeOf(Top.op)
                /\ open' = Closed
                /\ UNCHANGED outcome

emitUnary ==
  /\ Got /\ open # << >> /\ Top.op \in E!Unary
  /\ rax' = EmittedUnary(Top.op, rax)
  /\ type' = E!TypeOf(Top.op)
  /\ open' = Closed
  /\ UNCHANGED << temps, outcome >>

\* The statement uses rax: a store, a test, a return.
use ==
  /\ Got /\ open = << >>
  /\ type' = "none"
  /\ UNCHANGED << open, rax, temps, outcome >>

Next ==
  \/ \E op \in E!Binary \cup E!Unary : operator(op)
  \/ \E v \in E!Value : load(v)
  \/ emitPush \/ emitBinary \/ emitUnary \/ use

Spec == Init /\ [][Next]_vars

-------------------------------------------------------------------------------
\* Pushes and pops pair up: one word is on the stack for every left operand that
\* waits for its right one, none when a statement's expression is complete.
TypeOK ==
  /\ open \in Seq([op : E!Binary \cup E!Unary, leftType : {"none", "int", "bool"}])
  /\ type \in {"none", "int", "bool"}
  /\ rax \in Word
  /\ temps \in Seq(Word)
  /\ outcome \in {"running", "stopped"}
  /\ outcome = "running" => Len(temps) = Pushed(Len(open))

\* A truth value in a register or on the stack is 0 or 1, so that comparing two of
\* them, or returning one, needs no further conversion.
BooleansNormalised == outcome = "running" =>
  /\ type = "bool" => rax \in {0, 1}
  /\ \A k \in DOMAIN open : open[k].leftType = "bool" => temps[Pushed(k)] \in {0, 1}

\* Compiled expressions have the values the interpreter gives them, for every
\* operator and nesting, and trap only where the interpreter stops too.
ImplementsEvaluation == E!Spec

\* Given the same operands, ARM64 code computes what x86-64 code does wherever that
\* has a result: condition codes, signed division, wrapping, and constants put together
\* from pieces.  Not so for %: emitMod's msub subtracts from the divisor.
ARM64Agrees ==
  [][ /\ \A v \in E!Value : load(v) => ARM64Immediate(WordOf(v)) = rax'
      /\ emitBinary /\ outcome' = "running" /\ Top.op # "%"
           => ARM64Emitted(Top.op, temps[Len(temps)], rax) = rax'
      /\ emitUnary => ARM64EmittedUnary(Top.op, rax) = rax' ]_vars
===============================================================================
