------------------------------ MODULE Evaluation ------------------------------
(***************************************************************************)
(* What the interpreter computes for an expression over integers and       *)
(* booleans (Interpreter::evaluate, evaluateBinaryOp, evaluateUnaryOp),    *)
(* one step at a time: the left operand, the right operand, the operator.  *)
(* Expressions.tla shows that the code compiled for x86-64 computes the    *)
(* same.                                                                   *)
(*                                                                         *)
(* The expressions are the well-typed ones: integer operands for           *)
(* arithmetic and comparison, two of a type for == and ~=.  Strings and    *)
(* nil are left out.                                                       *)
(***************************************************************************)
EXTENDS Integers, Sequences

CONSTANTS
  Half,       \* a long long is in -Half .. Half - 1: 2^63 in the code
  MaxOpen     \* bound: operators waiting for an operand

VARIABLES
  open,       \* the operators being evaluated, innermost last, with their left operand
  result,     \* the value just computed, or None
  outcome     \* "running"; "stopped": by an error or a signal

vars == << open, result, outcome >>

Long  == -Half .. Half - 1
Value == [type : {"int"}, data : Long] \cup [type : {"bool"}, data : BOOLEAN]
None  == [type |-> "none"]

Int64(i) == [type |-> "int", data |-> i]
Bool(b)  == [type |-> "bool", data |-> b]

Arithmetic == {"+", "-", "*", "/", "%"}
Order      == {"<", "<=", ">", ">="}
Equality   == {"==", "~="}
Logic      == {"and", "or"}
Binary     == Arithmetic \cup Order \cup Equality \cup Logic
Unary      == {"not", "neg"}

TypeOf(op) == IF op \in Arithmetic \cup {"neg"} THEN "int" ELSE "bool"

\* The types an operand may have here; left is that of the left operand, if there is one.
Operand(op, left) ==
  CASE op \in Arithmetic \cup Order \cup {"neg"} -> {"int"}
    [] op \in Equality /\ left # "none"          -> {left}
    [] OTHER                                     -> {"int", "bool"}

Top == open[Len(open)]

Fits(type) == open # << >> => type \in Operand(Top.op, Top.left.type)

-------------------------------------------------------------------------------
Abs(i)    == IF i < 0 THEN -i ELSE i
Signed(i) == IF i % (2 * Half) < Half THEN i % (2 * Half) ELSE (i % (2 * Half)) - 2 * Half

\* Division truncates, and the remainder has the sign of the dividend.
Quotient(l, r) == LET q == Abs(l) \div Abs(r) IN IF (l < 0) = (r < 0) THEN q ELSE -q

\* Signed overflow wraps in the build; a quotient that overflows raises a signal.
NoResult(op, l, r) == op \in {"/", "%"} /\ (r.data = 0 \/ Quotient(l.data, r.data) \notin Long)

asBoolean(v) == IF v.type = "bool" THEN v.data ELSE v.data # 0

evaluateBinaryOp(op, l, r) ==
  CASE op = "+"   -> Int64(Signed(l.data + r.data))
    [] op = "-"   -> Int64(Signed(l.data - r.data))
    [] op = "*"   -> Int64(Signed(l.data * r.data))
    [] op = "/"   -> Int64(Quotient(l.data, r.data))
    [] op = "%"   -> Int64(l.data - Quotient(l.data, r.data) * r.data)
    [] op = "=="  -> Bool(l = r)
    [] op = "~="  -> Bool(l # r)
    [] op = "<"   -> Bool(l.data < r.data)
    [] op = "<="  -> Bool(l.data <= r.data)
    [] op = ">"   -> Bool(l.data > r.data)
    [] op = ">="  -> Bool(l.data >= r.data)
    [] op = "and" -> Bool(asBoolean(l) /\ asBoolean(r))
    [] op = "or"  -> Bool(asBoolean(l) \/ asBoolean(r))

evaluateUnaryOp(op, v) ==
  IF op = "not" THEN Bool(~asBoolean(v)) ELSE Int64(Signed(-v.data))

-------------------------------------------------------------------------------
Init == open = << >> /\ result = None /\ outcome = "running"

Wanted  == outcome = "running" /\ result = None
Got     == outcome = "running" /\ result # None
Outer   == SubSeq(open, 1, Len(open) - 1)

Begin(op) ==
  /\ Wanted /\ Fits(TypeOf(op))
  /\ Len(open) < MaxOpen
  /\ open' = Append(open, [op |-> op, left |-> None])
  /\ UNCHANGED << result, outcome >>

\* A literal, a variable or the value a call returns.
Leaf(v) ==
  /\ Wanted /\ Fits(v.type)
  /\ result' = v
  /\ UNCHANGED << open, outcome >>

\* No short cut for "and" and "or": the right operand is always evaluated.
KeepLeft ==
  /\ Got /\ open # << >> /\ Top.op \in Binary /\ Top.left = None
  /\ open' = [open EXCEPT ![Len(open)].left = result]
  /\ result' = None
  /\ UNCHANGED outcome

ApplyBinary ==
  /\ Got /\ open # << >> /\ Top.left # None
  /\ ~NoResult(Top.op, Top.left, result)
  /\ result' = evaluateBinaryOp(Top.op, Top.left, result)
  /\ open' = Outer
  /\ UNCHANGED outcome

\* "Division by zero", "Modulo by zero", or the signal.
Stop ==
  /\ Got /\ open # << >> /\ Top.left # None
  /\ NoResult(Top.op, Top.left, result)
  /\ outcome' = "stopped"
  /\ open' = << >> /\ result' = None

ApplyUnary ==
  /\ Got /\ open # << >> /\ Top.op \in Unary
  /\ result' = evaluateUnaryOp(Top.op, result)
  /\ open' = Outer
  /\ UNCHANGED outcome

\* The value of the whole expression is used; on to the next one.
Finish ==
  /\ Got /\ open = << >>
  /\ result' = None
  /\ UNCHANGED << open, outcome >>

Next ==
  \/ \E op \in Binary \cup Unary : Begin(op)
  \/ \E v \in Value : Leaf(v)
  \/ KeepLeft \/ ApplyBinary \/ Stop \/ ApplyUnary \/ Finish

Spec == Init /\ [][Next]_vars
===============================================================================
