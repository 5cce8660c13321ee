--------------------------------- MODULE Tokens ---------------------------------
(***************************************************************************)
(* What the scanner makes of a text: at each place it takes the longest    *)
(* lexeme (the rules of lexer.l, but for strings, which in lexer.yy.cpp    *)
(* end at the end of a line and have their escapes decoded).  Lexer.tla    *)
(* shows that the hand-written scanner, which looks one character ahead,   *)
(* does the same.                                                          *)
(*                                                                         *)
(* One character stands for each class the scanner distinguishes: "+" for  *)
(* the operators of one character, "<" for ">" too, "?" for those it does  *)
(* not know.  "or" is the keyword, \r the escape that is replaced.         *)
(***************************************************************************)
EXTENDS Integers, Sequences, FiniteSets

CONSTANT TextMax     \* the characters of a token that are kept: 4094 in the code

VARIABLES
  text,      \* the characters that have arrived, the end of the file included
  pos,       \* how many of them have been taken
  line,
  tokens     \* what has been returned

vars == << text, pos, line, tokens >>

Char    == {" ", "nl", "-", "=", "~", "<", "+", "1", "o", "r", "quote", "backslash", "?"}
Eof     == "eof"
Blank   == {" ", "nl"}
Digit   == {"1"}
Letter  == {"o", "r"}
Keyword == { << "o", "r" >> }
Operator == { << "+" >>, << "-" >>, << "=" >>, << "<" >>,
              << "=", "=" >>, << "~", "=" >>, << "<", "=" >> }

\* In a string s, an odd number of backslashes stands right before i.
Escaped(s, i) ==
  Cardinality({ j \in 2 .. i-1 : \A h \in j .. i-1 : s[h] = "backslash" }) % 2 = 1

Word(s)    == s[1] \in Letter /\ \A i \in DOMAIN s : s[i] \in Letter \cup Digit
Integer(s) == \A i \in DOMAIN s : s[i] \in Digit
String(s)  == s[1] = "quote" /\ \A i \in 2 .. Len(s) :
                /\ s[i] = "nl" => Escaped(s, i)
                /\ s[i] = "quote" => Escaped(s, i) \/ i = Len(s)
Skipped(s) == \/ Len(s) = 1 /\ s[1] \in Blank \cup {"~", "backslash", "?"}
              \/ Len(s) > 1 /\ s[1] = "-" /\ s[2] = "-" /\ \A i \in DOMAIN s : s[i] # "nl"

\* Every prefix of a lexeme is one.
Lexeme(s) ==
  /\ s # << >> /\ \A i \in DOMAIN s : s[i] \in Char
  /\ Word(s) \/ Integer(s) \/ String(s) \/ Skipped(s) \/ s \in Operator

Kept(s)     == SubSeq(s, 1, IF Len(s) < TextMax THEN Len(s) ELSE TextMax)
Unescape(c) == IF c = "r" THEN "cr" ELSE c

\* The places of a string whose characters it stands for: all but its quotes and the
\* backslashes that escape another character.
Stands(s) ==
  { i \in DOMAIN s : \/ Escaped(s, i)
                     \/ i > 1 /\ s[i] # "quote" /\ (s[i] = "backslash" => i = Len(s)) }

Nth(places, k) == CHOOSE i \in places : Cardinality({ j \in places : j <= i }) = k

Decoded(s, i) == IF Escaped(s, i) THEN Unescape(s[i]) ELSE s[i]

Contents(s) == [k \in 1 .. Cardinality(Stands(s)) |-> Decoded(s, Nth(Stands(s), k))]

Token(s) ==
  CASE s \in Keyword -> [kind |-> "keyword", text |-> s]
    [] Word(s) /\ s \notin Keyword -> [kind |-> "IDENTIFIER", text |-> Kept(s)]
    [] Integer(s)    -> [kind |-> "INTEGER", text |-> Kept(s)]
    [] String(s)     -> [kind |-> "STRING", text |-> Kept(Contents(s))]
    [] s \in Operator -> [kind |-> "operator", text |-> s]

Init == text = << >> /\ pos = 0 /\ line = 1 /\ tokens = << >>

Ended == text # << >> /\ text[Len(text)] = Eof

Arrive(c) ==
  /\ ~Ended
  /\ text' = Append(text, c)
  /\ UNCHANGED << pos, line, tokens >>

\* The n characters that come next are a lexeme, and what has arrived, or whatever
\* may arrive, does not make it longer.
Take(n) ==
  LET s == SubSeq(text, pos + 1, pos + n)
  IN /\ Lexeme(s)
     /\ IF pos + n < Len(text) THEN ~Lexeme(Append(s, text[pos + n + 1]))
                               ELSE \A c \in Char : ~Lexeme(Append(s, c))
     /\ pos' = pos + n
     /\ line' = line + IF s = << "nl" >> THEN 1 ELSE 0
     /\ tokens' = IF Skipped(s) THEN tokens ELSE Append(tokens, Token(s))
     /\ UNCHANGED text

End ==
  /\ pos < Len(text) /\ text[pos + 1] = Eof
  /\ pos' = pos + 1
  /\ tokens' = Append(tokens, [kind |-> "end", text |-> << >>])
  /\ UNCHANGED << text, line >>

Next ==
  \/ \E c \in Char \cup {Eof} : Arrive(c)
  \/ \E n \in 1 .. Len(text) - pos : Take(n)
  \/ End

Spec == Init /\ [][Next]_vars
===============================================================================
