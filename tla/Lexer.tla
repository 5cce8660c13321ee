--------------------------------- MODULE Lexer ---------------------------------
(***************************************************************************)
(* The hand-written scanner (lexer.yy.cpp).  It reads a character when it  *)
(* first looks at it and keeps it until it is consumed; what it does next  *)
(* depends on that character and on where in yylex or a scan_ function it  *)
(* is (`state').  Each action is what happens between two looks.           *)
(*                                                                         *)
(* The text is chosen character by character as it is read.  `text' and    *)
(* `start' are history variables: what has been read, and where the lexeme *)
(* begins that is being scanned.                                           *)
(***************************************************************************)
EXTENDS Integers, Sequences, FiniteSets

CONSTANTS
  TextMax,
  MaxChars     \* bound: characters in the file

VARIABLES
  text, start, tokens,
  current_char,    \* Unread: not read yet, -2 in the code
  consumed,        \* how many characters have been consumed
  state,           \* "yylex", "done", the operator consumed, or what is being scanned
  yytext,
  yylineno

vars == << text, start, tokens, current_char, consumed, state, yytext, yylineno >>

Unread == "unread"

T == INSTANCE Tokens WITH pos <- start, line <- yylineno

ASSUME BoundAssumption == MaxChars \in Nat
ASSUME TextAssumption  == TextMax \in Nat \ {0} /\ \A k \in T!Keyword : Len(k) < TextMax

Anything == T!Char \cup {T!Eof}

Init ==
  /\ text = << >> /\ start = 0 /\ tokens = << >>
  /\ current_char = Unread /\ consumed = 0
  /\ state = "yylex" /\ yytext = << >> /\ yylineno = 1

\* next_char, fgetc.
peek_char ==
  /\ state # "done" /\ current_char = Unread
  /\ current_char' \in IF Len(text) < MaxChars THEN Anything ELSE {T!Eof}
  /\ text' = Append(text, current_char')
  /\ UNCHANGED << start, tokens, consumed, state, yytext, yylineno >>

Looking(s, cs) == state = s /\ current_char # Unread /\ current_char \in cs

consume_char ==
  /\ current_char' = Unread
  /\ consumed' = consumed + 1

keep_char == UNCHANGED << current_char, consumed >>

\* On to another scan function, or one more character of the same.
goto(s, t) ==
  /\ state' = s /\ yytext' = t
  /\ UNCHANGED << text, start, tokens, yylineno >>

\* Whatever has been consumed is done with; n is what it adds to the line number.
skip(n) ==
  /\ state' = "yylex" /\ start' = consumed'
  /\ yylineno' = yylineno + n
  /\ UNCHANGED << text, tokens, yytext >>

return(kind, t) ==
  /\ tokens' = Append(tokens, [kind |-> kind, text |-> t])
  /\ state' = "yylex" /\ start' = consumed'
  /\ UNCHANGED << text, yytext, yylineno >>

\* Mutant: yytext is full one character early.
OneLess(t, c) == IF Len(t) + 1 < TextMax THEN Append(t, c) ELSE t

\* Mutant: no bound.
Unbounded(t, c) == Append(t, c)

\* if (pos < 4094) yytext[pos++] = c
Stored(t, c) == IF Len(t) < TextMax THEN Append(t, c) ELSE t

-------------------------------------------------------------------------------
(* yylex *)

skip_whitespace ==
  /\ Looking("yylex", T!Blank)
  /\ consume_char /\ skip(IF current_char = "nl" THEN 1 ELSE 0)

endOfInput ==
  /\ Looking("yylex", {T!Eof})
  /\ consumed' = consumed + 1 /\ UNCHANGED current_char
  /\ tokens' = Append(tokens, [kind |-> "end", text |-> << >>])
  /\ state' = "done" /\ start' = consumed'
  /\ UNCHANGED << text, yytext, yylineno >>

singleCharacter ==
  /\ Looking("yylex", {"+"})
  /\ consume_char /\ return("operator", << current_char >>)

firstCharacter ==
  /\ Looking("yylex", {"-", "=", "~", "<"})
  /\ consume_char /\ goto(current_char, yytext)

\* The second character of an operator, or not.
secondCharacter ==
  \/ /\ \E s \in {"=", "~", "<"} : Looking(s, {"="})
     /\ consume_char /\ return("operator", << state, "=" >>)
  \/ /\ Looking("-", Anything \ {"-"}) \/ \E s \in {"=", "<"} : Looking(s, Anything \ {"="})
     /\ keep_char /\ return("operator", << state >>)
  \/ /\ Looking("~", Anything \ {"="})
     /\ keep_char /\ skip(0)

\* Mutant: as if the character were looked at again.
NotConsumed == keep_char

UnknownConsumed == consume_char

unknownCharacter ==
  /\ Looking("yylex", {"backslash", "?"})
  /\ UnknownConsumed /\ skip(0)

skip_line_comment ==
  \/ /\ Looking("-", {"-"})
     /\ consume_char /\ goto("comment", yytext)
  \/ /\ Looking("comment", T!Char \ {"nl"})
     /\ consume_char /\ goto("comment", yytext)
  \/ /\ Looking("comment", {"nl", T!Eof})
     /\ keep_char /\ skip(0)

scan_number ==
  \/ /\ Looking("yylex", T!Digit)
     /\ keep_char /\ goto("number", << >>)
  \/ /\ Looking("number", T!Digit)
     /\ consume_char /\ goto("number", Stored(yytext, current_char))
  \/ /\ Looking("number", Anything \ T!Digit)
     /\ keep_char /\ return("INTEGER", yytext)

scan_identifier_or_keyword ==
  \/ /\ Looking("yylex", T!Letter)
     /\ keep_char /\ goto("word", << >>)
  \/ /\ Looking("word", T!Letter \cup T!Digit)
     /\ consume_char /\ goto("word", Stored(yytext, current_char))
  \/ /\ Looking("word", Anything \ (T!Letter \cup T!Digit))
     /\ keep_char /\ return(IF yytext \in T!Keyword THEN "keyword" ELSE "IDENTIFIER", yytext)

scan_string ==
  \/ /\ Looking("yylex", {"quote"})
     /\ consume_char /\ goto("string", << >>)
  \/ /\ Looking("string", {"nl", T!Eof})
     /\ keep_char /\ return("STRING", yytext)
  \/ /\ Looking("string", {"quote"})
     /\ consume_char /\ return("STRING", yytext)
  \/ /\ Looking("string", {"backslash"})
     /\ consume_char /\ goto("escape", yytext)
  \/ /\ Looking("string", T!Char \ {"nl", "quote", "backslash"})
     /\ consume_char /\ goto("string", Stored(yytext, current_char))
  \/ /\ Looking("escape", T!Char)
     /\ consume_char /\ goto("string", Stored(yytext, T!Unescape(current_char)))
  \/ /\ Looking("escape", {T!Eof})
     /\ keep_char /\ goto("string", Stored(yytext, "backslash"))

Next ==
  \/ peek_char
  \/ skip_whitespace \/ endOfInput
  \/ singleCharacter \/ firstCharacter \/ secondCharacter \/ unknownCharacter
  \/ skip_line_comment
  \/ scan_number \/ scan_identifier_or_keyword \/ scan_string

\* A file is read to its end: fgetc returns.
Spec == Init /\ [][Next]_vars /\ WF_vars(Next)

-------------------------------------------------------------------------------
\* yytext_buffer has room for TextMax characters and the end mark, and one character
\* at most has been read and not consumed: no character is lost, none is read twice.
TypeOK ==
  /\ Len(yytext) <= TextMax
  /\ state \in {"yylex", "done", "-", "=", "~", "<", "comment", "number", "word",
                "string", "escape"}
  /\ start <= consumed
  /\ Len(text) = consumed + IF current_char # Unread /\ state # "done" THEN 1 ELSE 0
  /\ current_char # Unread => current_char = text[Len(text)]

\* The tokens, their text and the line number are those of the longest lexemes.
ImplementsTokens == T!Spec

\* Every character is got past, whatever it is: the scanner comes to the end.
ReachesEnd == <>(state = "done")
===============================================================================
