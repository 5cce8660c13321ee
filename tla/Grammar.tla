-------------------------------- MODULE Grammar --------------------------------
(***************************************************************************)
(* The language of parser.y: which files the rules derive, without saying  *)
(* how a parser finds out.  A phrase is what it makes of a set of places:  *)
(* those a text of its kind that begins at one of them may lead to.  What  *)
(* comes after the file is open: any phrase may go on or begin there.      *)
(***************************************************************************)
EXTENDS Integers, Sequences

VARIABLE file     \* tokens; "$end" ends it

After == Len(file) + 1

Binary == {"or", "and", "==", "-", "*"}

Read(I, tokens) ==
  { i + 1 : i \in { k \in I \ {After} : file[k] \in tokens } } \cup (I \cap {After})

RECURSIVE Operand(_), Expression(_), Arguments(_), Statement(_), StatementList(_), Parameters(_)

\* Arguments, if there are any.
Call(I, names) ==
  LET J == Read(Read(I, names), {"("}) IN Read(J \cup Arguments(J), {")"})

\* unary_expr and primary_expr
Operand(I) ==
  IF I \subseteq {After} THEN I
  ELSE UNION { Read(I, {"name", "literal"}), Call(I, {"name"}), Read(Expression(Read(I, {"("})), {")"}),
               Operand(Read(I, {"not", "-"})) }

\* Operators between operands, of whatever precedence.
Expression(I) ==
  LET J == Operand(I)
      K == Read(J \ {After}, Binary)
  IN IF K = {} THEN J ELSE J \cup Expression(K)

Arguments(I) ==
  LET J == Expression(I)
      K == Read(J \ {After}, {","})
  IN IF K = {} THEN J ELSE J \cup Arguments(K)

Annotation(I) == I \cup Read(Read(I, {":"}), {"name"})

Parameters(I) ==
  LET J == Annotation(Read(I, {"name"}))
      K == Read(J \ {After}, {","})
  IN IF K = {} THEN J ELSE J \cup Parameters(K)

Definition(I) ==
  LET named  == Read(Read(Read(I, {"function"}), {"name"}), {"("})
      header == Annotation(Read(named \cup Parameters(named), {")"}))
  IN Read(StatementList(header), {"end"})

Assignment(I) ==
  Expression(Read(Read(I, {"name"}) \cup Annotation(Read(Read(I, {"local"}), {"name"})), {"="}))

If(I) ==
  LET taken == StatementList(Read(Expression(Read(I, {"if"})), {"then"}))
  IN Read(taken \cup StatementList(Read(taken, {"else"})), {"end"})

While(I) == Read(StatementList(Read(Expression(Read(I, {"while"})), {"do"})), {"end"})

\* The rules are ambiguous: a name after a return may begin the next statement.  yacc
\* takes it for the value.
Return(I) ==
  LET J == Read(I, {"return"})
  IN { j \in J : j # After => file[j] # "name" } \cup Expression(J)

Statement(I) ==
  IF I \subseteq {After} THEN I
  ELSE UNION { Assignment(I), Definition(I), Call(I, {"name", "print"}), If(I), While(I), Return(I) }

StatementList(I) ==
  LET J == Statement(I \ {After}) IN IF J = {} THEN I ELSE I \cup StatementList(J)

\* Some program begins like this file; with "$end" at the end, the file is one.
Derivable == After \in Read(StatementList({1}), {"$end"})

===============================================================================
