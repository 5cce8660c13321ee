--------------------------------- MODULE Parser ---------------------------------
(***************************************************************************)
(* The parser bison makes of parser.y: a stack of symbols, and one token   *)
(* of lookahead.  A token is shifted where the rules go on with it; where  *)
(* they do not, the one rule that is complete is reduced, whatever the     *)
(* lookahead (a default reduction), and when there is none either, yyparse *)
(* gives up.  Rules that only pass $1 on are folded into those above them, *)
(* and the lookahead is read at once, where yyparse reads it when needed.  *)
(*                                                                         *)
(* A token is known by its place in the file, and so is what the rules     *)
(* make of it: the tree's leaves and operators are places.  One operator   *)
(* stands for each level of precedence, "-" for "+" too; a literal is a    *)
(* STRING (INTEGER and BOOLEAN have no text to free); "elseif" stands for  *)
(* TYPE too: the scanner returns them and no rule has them.  Which string  *)
(* free() gets is tracked by the place of its token; after an error the    *)
(* parser frees nothing more.                                              *)
(***************************************************************************)
EXTENDS Integers, Sequences, FiniteSets, Functions

CONSTANT Samples       \* bound: each sample has the tokens of a file, and how many they may be

VARIABLES
  text,          \* the tokens read; the last one is the lookahead
  stack,         \* symbols, each with its semantic value
  strings,       \* places of the tokens whose text (strdup) has not been freed
  programRoot    \* None until `program' is reduced

vars == << text, stack, strings, programRoot >>

Binary  == {"or", "and", "==", "-", "*"}
Token   == Binary \cup {"name", "literal", "not", "(", ")", ",", ":", "=", "local", "function",
                        "print", "return", "if", "then", "else", "while", "do", "end", "elseif"}
ASSUME SamplesAssumption == \A s \in Samples : s.tokens \subseteq Token /\ s.most \in Nat

\* Mutant: no rule for a negative operand.
NoMinus == {"name", "literal", "(", "not"}

Operand == {"name", "literal", "(", "not", "-"}

BeforeOperand == Binary \cup {"=", "return", "if", "while", "not", "(", ","}
Starts  == {"name", "local", "function", "print", "return", "if", "while"}

look == text[Len(text)]
here == Len(text)

\* Mutant: one level for all comparisons, sums and products.
OneLevel(op) == IF op \in {"or", "and"} THEN 1 ELSE 2

\* logical_or_expr, logical_and_expr, comparison_expr, additive_expr, multiplicative_expr.
Level(op) == CASE op = "or" -> 1 [] op = "and" -> 2 [] op = "==" -> 3 [] op = "-" -> 4 [] op = "*" -> 5

-------------------------------------------------------------------------------
(* Where the parser is: what the stack ends with. *)

Ends(pattern) ==
  /\ Len(stack) >= Len(pattern)
  /\ \A i \in DOMAIN pattern : stack[Len(stack) - Len(pattern) + i].sym \in pattern[i]

\* Mutant: the first parameter of a function taken for an argument.
AfterComma == Ends(<< {"params"}, {","} >>)

InParams == Ends(<< {"function"}, {"name"}, {"("} >>) \/ Ends(<< {"params"}, {","} >>)
AtOperand == Ends(<< BeforeOperand >>) /\ ~InParams
AtArgument == Ends(<< {"name", "print"}, {"("} >>) /\ ~InParams

Parameter   == \/ Ends(<< {"function"}, {"name"}, {"("}, {"name"} >>)
               \/ Ends(<< {"params"}, {","}, {"name"} >>)
Header      == Ends(<< {"function"}, {"name"}, {"("}, {"params", "none"}, {")"} >>)
Annotatable == Ends(<< {"local"}, {"name"} >>) \/ Parameter \/ Header

Infix  == Ends(<< {"expr"}, Binary, {"expr"} >>)
Prefix == Ends(<< {"not", "-"}, {"expr"} >>) /\ ~Infix

\* The tokens the rules go on with.
Shiftable(t) ==
  \/ t \in Operand /\ AtOperand
  \/ t \in Starts  /\ Ends(<< {"list"} >>)
  \/ t \in Binary  /\ Ends(<< {"expr"} >>) /\ ~Prefix
                   /\ (Infix => Level(t) > Level(stack[Len(stack) - 1].sym))
  \/ t = "name" /\ (InParams \/ Ends(<< {"local", "function", ":"} >>))
  \/ t = "("    /\ \/ Ends(<< {"print"} >>)
                   \/ Ends(<< {"name"} >>) /\ ~Annotatable /\ ~Ends(<< {":"}, {"name"} >>)
  \/ t = ")"    /\ \/ Ends(<< {"args", "params", "none"} >>)
                   \/ Ends(<< {"("}, {"expr"} >>) /\ ~Ends(<< {"name", "print"}, {"("}, {"expr"} >>)
  \/ t = ","    /\ Ends(<< {"args", "params"} >>)
  \/ t = ":"    /\ Annotatable
  \/ t = "="    /\ (Ends(<< {"list"}, {"name"} >>) \/ Ends(<< {"local"}, {"name"}, {"type"} >>))
  \/ t = "then" /\ Ends(<< {"if"}, {"expr"} >>)
  \/ t = "do"   /\ Ends(<< {"while"}, {"expr"} >>)
  \/ t = "else" /\ Ends(<< {"then"}, {"list"} >>)
  \/ t = "end"  /\ Ends(<< {"then", "else", "do", "type"}, {"list"} >>)

\* The next token; the scanner copies the text of an identifier or a string.
yylex(t) ==
  /\ text' = Append(text, t)
  /\ strings' = IF t \in {"name", "literal"} THEN strings \cup {here + 1} ELSE strings

Sampled(file) ==
  \E s \in Samples : /\ Range(file) \subseteq s.tokens \cup {"$end"}
                     /\ Len(SelectSeq(file, LAMBDA t : t # "$end")) <= s.most

shift ==
  /\ look # "$end" /\ Shiftable(look)
  /\ stack' = Append(stack, [sym |-> look, node |-> [kind |-> "token", at |-> here, kids |-> << >>]])
  /\ \E t \in Token \cup {"$end"} : yylex(t)
  /\ Sampled(text')
  /\ UNCHANGED programRoot

-------------------------------------------------------------------------------
(* The rules.  Value(n, k) is $k of a rule with n symbols. *)

Value(n, k) == stack[Len(stack) - n + k].node

Node(kind, at, kids) == [kind |-> kind, at |-> at, kids |-> kids]

\* n symbols become one.  The places in `freed' are passed to free().
reduce(n, sym, node, freed) ==
  /\ ~Shiftable(look)
  /\ stack' = Append(SubSeq(stack, 1, Len(stack) - n), [sym |-> sym, node |-> node])
  /\ strings' = strings \ freed
  /\ UNCHANGED << text, programRoot >>

None == Node("none", 0, << >>)

\* $k of a rule with n symbols as a subtree, unless it is null.
Optional(n, k) == IF Value(n, k).kind = "none" THEN << >> ELSE << Value(n, k) >>

empty_statement_list ==
  /\ Ends(<< {"then", "else", "do"} >>) \/ Ends(<< {")"}, {"type"} >>)
  /\ reduce(0, "list", Node("list", 0, << >>), {})

statement_list ==
  /\ Ends(<< {"list"}, {"statement"} >>)
  /\ reduce(2, "list", [Value(2, 1) EXCEPT !.kids = Append(@, Value(2, 2))], {})

assignment ==
  \/ /\ Ends(<< {"list"}, {"name"}, {"="}, {"expr"} >>)
     /\ reduce(3, "statement", Node("assignment", Value(3, 1).at, << Value(3, 3) >>),
               {Value(3, 1).at})
  \/ /\ Ends(<< {"local"}, {"name"}, {"type"}, {"="}, {"expr"} >>)
     /\ reduce(5, "statement", Node("assignment", Value(5, 2).at, Append(Optional(5, 3), Value(5, 5))),
               {Value(5, 2).at, Value(5, 3).at})

opt_type_annotation ==
  \/ Annotatable /\ reduce(0, "type", None, {})
  \/ Ends(<< {":"}, {"name"} >>) /\ reduce(2, "type", Value(2, 2), {})

function_def ==
  /\ Ends(<< {"function"}, {"name"}, {"("}, {"params", "none"}, {")"}, {"type"}, {"list"}, {"end"} >>)
  /\ reduce(8, "statement",
            Node("function", Value(8, 2).at, Value(8, 4).kids \o Append(Optional(8, 6), Value(8, 7))),
            {Value(8, 2).at, Value(8, 6).at})

param_list ==
  \/ Ends(<< {"function"}, {"name"}, {"("} >>) /\ reduce(0, "none", None, {})
  \/ /\ Ends(<< {"("}, {"name"}, {"type"} >>)
     /\ reduce(2, "params", Node("params", 0, << Value(2, 1) >>), {Value(2, 1).at, Value(2, 2).at})
  \/ /\ Ends(<< {"params"}, {","}, {"name"}, {"type"} >>)
     /\ reduce(4, "params", [Value(4, 1) EXCEPT !.kids = Append(@, Value(4, 3))],
               {Value(4, 3).at, Value(4, 4).at})

\* Mutant: as a recursive rule the other way round would.
Prepended(list, node) == << node >> \o list

push_back(list, node) == Append(list, node)

arg_list ==
  \/ AtArgument /\ reduce(0, "none", None, {})
  \/ /\ Ends(<< {"name", "print"}, {"("}, {"expr"} >>)
     /\ reduce(1, "args", Node("args", 0, << Value(1, 1) >>), {})
  \/ /\ Ends(<< {"args"}, {","}, {"expr"} >>)
     /\ reduce(3, "args", [Value(3, 1) EXCEPT !.kids = push_back(@, Value(3, 3))], {})

\* Mutant: the name is copied and not freed.
KeptText(node) == {}

FreedText(node) == {node.at}

\* A call is a statement, or a primary_expr.
function_call ==
  /\ Ends(<< {"name"}, {"("}, {"args", "none"}, {")"} >>)
  /\ ~Header
  /\ reduce(4, IF stack[Len(stack) - 4].sym = "list" THEN "statement" ELSE "expr",
            Node("call", Value(4, 1).at, Value(4, 3).kids), FreedText(Value(4, 1)))

print_statement ==
  /\ Ends(<< {"print"}, {"("}, {"args", "none"}, {")"} >>)
  /\ reduce(4, "statement", Node("print", Value(4, 1).at, Value(4, 3).kids), {})

if_stmt ==
  \/ /\ Ends(<< {"if"}, {"expr"}, {"then"}, {"list"}, {"end"} >>)
     /\ reduce(5, "statement", Node("if", Value(5, 1).at, << Value(5, 2), Value(5, 4) >>), {})
  \/ /\ Ends(<< {"if"}, {"expr"}, {"then"}, {"list"}, {"else"}, {"list"}, {"end"} >>)
     /\ reduce(7, "statement",
               Node("if", Value(7, 1).at, << Value(7, 2), Value(7, 4), Value(7, 6) >>), {})

while_stmt ==
  /\ Ends(<< {"while"}, {"expr"}, {"do"}, {"list"}, {"end"} >>)
  /\ reduce(5, "statement", Node("while", Value(5, 1).at, << Value(5, 2), Value(5, 4) >>), {})

return_stmt ==
  \/ /\ Ends(<< {"return"}, {"expr"} >>)
     /\ reduce(2, "statement", Node("return", Value(2, 1).at, << Value(2, 2) >>), {})
  \/ /\ Ends(<< {"return"} >>)
     /\ reduce(1, "statement", Node("return", Value(1, 1).at, << >>), {})

binary_expr ==
  /\ Infix
  /\ reduce(3, "expr", Node("binary", Value(3, 2).at, << Value(3, 1), Value(3, 3) >>), {})

unary_expr ==
  /\ Prefix
  /\ reduce(2, "expr", Node("unary", Value(2, 1).at, << Value(2, 2) >>), {})

primary_expr ==
  \/ /\ Ends(<< {"literal"} >>) \/ (Ends(<< BeforeOperand, {"name"} >>) /\ ~Parameter)
     /\ reduce(1, "expr", [Value(1, 1) EXCEPT !.kind = "leaf"], {Value(1, 1).at})
  \/ /\ Ends(<< {"("}, {"expr"}, {")"} >>)
     /\ reduce(3, "expr", Value(3, 2), {})

\* Reduced as soon as no other statement begins here, also when the file does not end
\* here; yyparse returns 0 only if it does.
program ==
  /\ Len(stack) = 1 /\ Ends(<< {"list"} >>) /\ ~Shiftable(look)
  /\ stack' = << [sym |-> "program", node |-> stack[1].node] >>
  /\ programRoot' = stack[1].node
  /\ UNCHANGED << text, strings >>

\* The first thing the parser does is reduce an empty statement_list.
Init ==
  /\ \E t \in Token \cup {"$end"} :
       text = << t >> /\ strings = IF t \in {"name", "literal"} THEN {1} ELSE {}
  /\ Sampled(text)
  /\ stack = << [sym |-> "list", node |-> Node("list", 0, << >>)] >>
  /\ programRoot = None

Next ==
  \/ shift
  \/ empty_statement_list \/ statement_list \/ assignment \/ opt_type_annotation
  \/ function_def \/ param_list \/ arg_list \/ function_call \/ print_statement
  \/ if_stmt \/ while_stmt \/ return_stmt
  \/ binary_expr \/ unary_expr \/ primary_expr \/ program

\* When nothing is enabled, yyparse has accepted the file, or it has called yyerror and
\* returned 1, and then main returns as well.
Spec == Init /\ [][Next]_vars

-------------------------------------------------------------------------------
\* A symbol is on the stack only where a rule has it.
TypeOK ==
  /\ stack # << >> /\ stack[1].sym \in {"list", "program"}
  /\ stack[1].sym = "program" => Len(stack) = 1 /\ programRoot = stack[1].node
  /\ \A k \in 2 .. Len(stack) :
       /\ stack[k].sym = "expr"      => stack[k - 1].sym \in BeforeOperand
       /\ stack[k].sym = "statement" => stack[k - 1].sym = "list"
       /\ stack[k].sym = "list"      => stack[k - 1].sym \in {"then", "else", "do", "type"}
  /\ strings \subseteq 1 .. here

\* The copied text of a token is freed exactly once, when a rule takes the token off the
\* stack: what is on the stack has not been freed, and nothing else is left over.
StringsFreed ==
  strings = { q \in 1 .. here : /\ text[q] \in {"name", "literal"}
                                /\ \/ q = here
                                   \/ \E k \in DOMAIN stack :
                                        stack[k].sym \in {"name", "literal", "type"}
                                        /\ stack[k].node.at = q }

Before(q, t) == Cardinality({ p \in 1 .. q - 1 : text[p] = t })
Nesting(q)   == Before(q, "(") - Before(q, ")")

Ranks   == << {"or"}, {"and"}, {"=="}, {"-"}, {"*"} >>
Rank(n) == CHOOSE i \in DOMAIN Ranks : text[n.at] \in Ranks[i]

\* The nodes of a tree: no tree is deeper than the text is long.
Nodes(n) ==
  LET down[d \in 0 .. here] ==
        IF d = 0 THEN {n}
        ELSE LET above == down[d - 1] IN above \cup UNION { Range(v.kids) : v \in above }
  IN down[here]

\* Outside parentheses, the operators of an operand bind tighter than the operator it
\* belongs to; to its left, as tight.  A unary operator has no binary operator below it.
Precedence ==
  \A k \in DOMAIN stack : \A n \in Nodes(stack[k].node) :
    n.kind \in {"binary", "unary"} =>
      \A i \in DOMAIN n.kids :
        n.kids[i].kind = "binary" =>
          \/ Nesting(n.kids[i].at) > Nesting(n.at)
          \/ /\ n.kind = "binary"
             /\ Rank(n.kids[i]) >= Rank(n) + (i - 1)

===============================================================================
