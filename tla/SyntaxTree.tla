------------------------------- MODULE SyntaxTree -------------------------------
(***************************************************************************)
(* What the trees of the parser owe to the text, and the parser to the     *)
(* grammar.                                                                *)
(***************************************************************************)
EXTENDS Parser, SequencesExt

\* The tokens that are in the tree.  The types of parameters are not.
InTree(q) ==
  /\ text[q] \in Binary \cup {"name", "literal", "not", "print", "return", "if", "while"}
  /\ ~(q > 1 /\ text[q - 1] = ":" /\ Nesting(q) > 0)

\* A tree's places, read from left to right.
RECURSIVE Yield(_)
Yield(n) ==
  LET yields == FlattenSeq([i \in DOMAIN n.kids |-> Yield(n.kids[i])])
  IN CASE n.kind = "binary" -> Yield(n.kids[1]) \o << n.at >> \o Yield(n.kids[2])
       [] n.at = 0          -> yields
       [] OTHER             -> << n.at >> \o yields

\* Whatever has been read is in the trees on the stack once and in order: no argument,
\* statement or operand is dropped, repeated or exchanged with another.
NothingLost ==
  SelectSeq(FlattenSeq([k \in DOMAIN stack |-> Yield(stack[k].node)]), InTree)
    = SelectSeq([q \in 1 .. here - 1 |-> q], InTree)

G == INSTANCE Grammar WITH file <- text

\* The parser accepts the programs of the grammar and stops at the first token with which
\* no program goes on.
AcceptsLanguage ==
  ~ENABLED Next => (stack[1].sym = "program" /\ look = "$end" <=> G!Derivable)

===============================================================================
