------------------------------ MODULE MCParser ------------------------------
(* Files for the parser: a few rules at a time, in files as long as they need. *)
EXTENDS SyntaxTree

Sample(most, tokens) == [tokens |-> tokens, most |-> most]

MCSamples ==
  { Sample(8,  {"return", "literal", "or", "-", "*", "not", "(", ")"}),
    Sample(8,  {"name", "literal", "(", ")", ",", "=", "return", "elseif"}),
    Sample(11, {"if", "while", "then", "else", "do", "end", "name", "return"}),
    Sample(14, {"function", "name", "(", ")", ",", ":", "end"}),
    Sample(9,  {"local", "name", ":", "=", "==", "and", "print", "(", ")"}) }

=============================================================================
