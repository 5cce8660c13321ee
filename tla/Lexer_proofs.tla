----------------------------- MODULE Lexer_proofs -----------------------------
(***************************************************************************)
(* Machine-checked proofs about Lexer, for texts of any length: the        *)
(* scanner neither loses a character nor reads one twice, yytext_buffer    *)
(* does not overflow, and the tokens are those of the longest lexemes.     *)
(***************************************************************************)
EXTENDS Lexer, FiniteSetTheorems, SequenceTheorems, WellFoundedInduction, TLAPS

-------------------------------------------------------------------------------
(***************************************************************************)
(* The invariant.  What has been consumed since the last lexeme (`Lexeme') *)
(* is what the scan function in charge has accepted so far, and yytext is  *)
(* what that stands for.                                                   *)
(***************************************************************************)
State == {"yylex", "done", "-", "=", "~", "<", "comment", "number", "word", "string", "escape"}

\* What a token's text is made of.
Glyph == T!Char \cup {"cr"}

Typed ==
  /\ text \in Seq(Anything)
  /\ start \in Nat /\ consumed \in Nat /\ start <= consumed
  /\ current_char \in Anything \cup {Unread} /\ state \in State
  /\ yytext \in Seq(Glyph) /\ Len(yytext) <= TextMax
  /\ yylineno \in Nat

\* One character at most has been read and not consumed; the end of the file is not
\* consumed before everything is done.
Buffered ==
  /\ Len(text) = consumed + IF current_char # Unread /\ state # "done" THEN 1 ELSE 0
  /\ current_char # Unread => text # << >> /\ current_char = text[Len(text)]
  /\ \A i \in DOMAIN text : text[i] = T!Eof => i = Len(text) /\ current_char = T!Eof
  /\ state = "done" => current_char = T!Eof

Consumed == SubSeq(text, start + 1, consumed)

\* A string that has not been closed.
Open(s) ==
  /\ s # << >> /\ s[1] = "quote"
  /\ \A i \in 2 .. Len(s) : s[i] \in {"nl", "quote"} => T!Escaped(s, i)

\* It ends in a backslash that escapes what comes next.
Escapes(s) == T!Escaped(s, Len(s) + 1)

WithoutLast(s) == SubSeq(s, 1, Len(s) - 1)

Accepted(s) ==
  /\ state \in {"yylex", "done"}     => s = << >>
  /\ state \in {"-", "=", "~", "<"}  => s = << state >>
  /\ state = "comment" => Len(s) >= 2 /\ s[1] = "-" /\ s[2] = "-" /\ \A i \in DOMAIN s : s[i] # "nl"
  /\ state = "number"  => /\ T!Integer(s) /\ (s = << >> => current_char \in T!Digit)
                          /\ yytext = T!Kept(s)
  /\ state = "word"    => /\ \A i \in DOMAIN s : s[i] \in T!Letter \cup T!Digit
                          /\ IF s = << >> THEN current_char \in T!Letter ELSE s[1] \in T!Letter
                          /\ yytext = T!Kept(s)
  /\ state = "string"  => /\ Open(s) /\ (Escapes(s) => current_char = T!Eof)
                          /\ yytext = T!Kept(T!Contents(s))
  /\ state = "escape"  => /\ Open(s) /\ Escapes(s)
                          /\ yytext = T!Kept(T!Contents(WithoutLast(s)))

IInv == Typed /\ Buffered /\ Accepted(Consumed)

-------------------------------------------------------------------------------
(***************************************************************************)
(* Which places of a string are escaped, and what it stands for, when one  *)
(* more character is consumed.                                             *)
(***************************************************************************)
LEMMA SameCardinality ==
  ASSUME NEW S
  PROVE  T!Cardinality(S) = Cardinality(S)
BY DEF T!Cardinality, Cardinality

Run(s, i) == { j \in 2 .. i-1 : \A h \in j .. i-1 : s[h] = "backslash" }

LEMMA RunFinite ==
  ASSUME NEW s, NEW i \in Nat
  PROVE  IsFiniteSet(Run(s, i)) /\ Cardinality(Run(s, i)) \in Nat
<1>1. IsFiniteSet(2 .. i-1)
  BY FS_Interval
<1>2. IsFiniteSet(Run(s, i))
  BY <1>1, FS_Subset DEF Run
<1> QED BY <1>2, FS_CardinalityType

\* A backslash that is not escaped escapes what follows.
LEMMA EscapedNext ==
  ASSUME NEW s, NEW i \in Nat \ {0}
  PROVE  T!Escaped(s, i + 1) <=> i >= 2 /\ s[i] = "backslash" /\ ~T!Escaped(s, i)
<1> DEFINE r == Run(s, i)
           q == Run(s, i + 1)
<1>1. T!Escaped(s, i) <=> Cardinality(r) % 2 = 1
  BY SameCardinality DEF T!Escaped, Run
<1>2. T!Escaped(s, i + 1) <=> Cardinality(q) % 2 = 1
  BY SameCardinality DEF T!Escaped, Run
<1>3. CASE i >= 2 /\ s[i] = "backslash"
  <2>1. q = r \cup {i} /\ i \notin r
    BY <1>3 DEF Run
  <2>2. Cardinality(q) = Cardinality(r) + 1 /\ Cardinality(r) \in Nat
    BY <2>1, RunFinite, FS_AddElement
  <2> QED BY <1>1, <1>2, <1>3, <2>2
<1>4. CASE ~(i >= 2 /\ s[i] = "backslash")
  <2>1. q = {}
    BY <1>4 DEF Run
  <2>2. Cardinality(q) = 0
    BY <2>1, FS_EmptySet
  <2> QED BY <1>2, <1>4, <2>2
<1> QED BY <1>3, <1>4

\* Nothing after a place decides whether it is escaped.
LEMMA EscapedBefore ==
  ASSUME NEW s, NEW t, NEW i \in Nat, \A h \in 2 .. i-1 : s[h] = t[h]
  PROVE  T!Escaped(s, i) <=> T!Escaped(t, i)
<1>1. Run(s, i) = Run(t, i)
  BY DEF Run
<1> QED BY <1>1 DEF T!Escaped, Run

\* The k-th of some places.
Upto(places, i) == { j \in places : j <= i }

LEMMA UptoFinite ==
  ASSUME NEW n \in Nat, NEW places, \A p \in places : p \in 1 .. n, NEW i \in Nat
  PROVE  /\ IsFiniteSet(Upto(places, i)) /\ Cardinality(Upto(places, i)) \in Nat
         /\ IsFiniteSet(places) /\ Cardinality(places) \in Nat
<1>1. IsFiniteSet(places)
  <2>1. IsFiniteSet(1 .. n)
    BY FS_Interval
  <2>2. places \in SUBSET (1 .. n)
    OBVIOUS
  <2> QED BY <2>1, <2>2, FS_Subset
<1>2. IsFiniteSet(Upto(places, i))
  BY <1>1, FS_Subset DEF Upto
<1> QED BY <1>1, <1>2, FS_CardinalityType

LEMMA UptoNext ==
  ASSUME NEW n \in Nat, NEW places, \A p \in places : p \in 1 .. n, NEW i \in Nat
  PROVE  Cardinality(Upto(places, i + 1))
           = Cardinality(Upto(places, i)) + IF i + 1 \in places THEN 1 ELSE 0
<1>1. CASE i + 1 \in places
  <2>1. Upto(places, i + 1) = Upto(places, i) \cup {i + 1} /\ i + 1 \notin Upto(places, i)
    BY <1>1 DEF Upto
  <2> QED BY <1>1, <2>1, UptoFinite, FS_AddElement
<1>2. CASE i + 1 \notin places
  <2>1. Upto(places, i + 1) = Upto(places, i)
    BY <1>2 DEF Upto
  <2>2. Cardinality(Upto(places, i)) \in Nat
    BY UptoFinite
  <2> QED BY <1>2, <2>1, <2>2
<1> QED BY <1>1, <1>2

LEMMA UptoMonotonic ==
  ASSUME NEW n \in Nat, NEW places, \A p \in places : p \in 1 .. n,
         NEW i \in places, NEW j \in places, i < j
  PROVE  Cardinality(Upto(places, i)) < Cardinality(Upto(places, j))
<1> DEFINE p == Upto(places, i)
           q == Upto(places, j)
<1>1. p \in SUBSET q /\ p # q
  BY DEF Upto
<1>2. i \in Nat /\ j \in Nat
  OBVIOUS
<1>3. IsFiniteSet(q) /\ Cardinality(p) \in Nat /\ Cardinality(q) \in Nat
  BY <1>2, UptoFinite
<1> HIDE DEF p, q
<1>4. Cardinality(p) <= Cardinality(q) /\ Cardinality(p) # Cardinality(q)
  BY <1>1, <1>3, FS_Subset
<1>5. Cardinality(p) < Cardinality(q)
  BY <1>3, <1>4
<1> QED BY <1>5 DEF p, q

\* A set of numbers has a least.
LEMMA Least ==
  ASSUME NEW S, S \subseteq Nat, S # {}
  PROVE  \E x \in S : \A y \in S : x <= y
<1> DEFINE R == OpToRel(<, Nat)
<1>1. \E x \in S : \A y \in S : ~(<< y, x >> \in R)
  <2>1. IsWellFoundedOn(R, Nat)
    BY NatLessThanWellFounded
  <2> HIDE DEF R
  <2> QED BY <2>1, WFMin
<1>2. \A x \in Nat, y \in Nat : y < x => << y, x >> \in R
  BY DEF OpToRel
<1> HIDE DEF R
<1>3. PICK x \in S : \A y \in S : ~(<< y, x >> \in R)
  BY <1>1
<1>4. ASSUME NEW y \in S
      PROVE  x <= y
  <2>1. x \in Nat /\ y \in Nat /\ ~(<< y, x >> \in R)
    BY <1>3
  <2> QED BY <2>1, <1>2
<1> QED BY <1>3, <1>4

\* Some place is the k-th.
LEMMA NthExists ==
  ASSUME NEW n \in Nat, NEW places, \A p \in places : p \in 1 .. n, NEW k \in 1 .. Cardinality(places)
  PROVE  \E i \in places : Cardinality(Upto(places, i)) = k
<1> DEFINE far == { i \in Nat : Cardinality(Upto(places, i)) >= k }
<1>1. n \in far
  <2>1. Upto(places, n) = places
    BY DEF Upto
  <2> QED BY <2>1, UptoFinite
<1>2. PICK i \in far : \A j \in far : i <= j
  BY <1>1, Least
<1>3. i # 0
  <2>1. Upto(places, 0) = {}
    BY DEF Upto
  <2>2. Cardinality(Upto(places, 0)) = 0
    BY <2>1, FS_EmptySet
  <2> QED BY <2>2
<1>4. i - 1 \in Nat /\ i - 1 \notin far /\ i = (i - 1) + 1
  BY <1>2, <1>3
<1> DEFINE before == Cardinality(Upto(places, i - 1))
<1>5. before \in Nat /\ before < k
  BY <1>4, UptoFinite
<1>6. Cardinality(Upto(places, i)) = before + IF i \in places THEN 1 ELSE 0
  BY <1>4, UptoNext
<1> QED BY <1>2, <1>5, <1>6

LEMMA NthIs ==
  ASSUME NEW n \in Nat, NEW places, \A p \in places : p \in 1 .. n,
         NEW k \in 1 .. Cardinality(places)
  PROVE  T!Nth(places, k) \in places /\ Cardinality(Upto(places, T!Nth(places, k))) = k
<1>1. \E i \in places : Cardinality(Upto(places, i)) = k
  BY NthExists
<1> DEFINE Is(i) == i \in places /\ T!Cardinality({ j \in places : j <= i }) = k
<1>2. \E i : Is(i)
  BY <1>1, SameCardinality DEF Upto
<1>3. T!Nth(places, k) = CHOOSE i : Is(i)
  BY DEF T!Nth
<1>4. Is(T!Nth(places, k))
  BY <1>2, <1>3
<1> QED BY <1>4, SameCardinality DEF Upto

LEMMA NthUnique ==
  ASSUME NEW n \in Nat, NEW places, \A p \in places : p \in 1 .. n,
         NEW k \in 1 .. Cardinality(places),
         NEW i \in places, Cardinality(Upto(places, i)) = k
  PROVE  T!Nth(places, k) = i
<1> DEFINE j == T!Nth(places, k)
<1>1. j \in places /\ Cardinality(Upto(places, j)) = k
  BY NthIs
<1>2. i \in Nat /\ j \in Nat
  BY <1>1
<1>3. Cardinality(Upto(places, i)) \in Nat /\ Cardinality(Upto(places, j)) \in Nat
  BY <1>2, UptoFinite
<1> HIDE DEF j
<1>4. ~(i < j) /\ ~(j < i)
  BY <1>1, <1>3, UptoMonotonic
<1>5. i = j
  BY <1>2, <1>4
<1> QED BY <1>5 DEF j

\* One more place, behind the others.
LEMMA NthGrows ==
  ASSUME NEW n \in Nat, NEW places, \A p \in places : p \in 1 .. n,
         NEW m \in Nat, m > n
  PROVE  /\ Cardinality(places \cup {m}) = Cardinality(places) + 1
         /\ \A k \in 1 .. Cardinality(places) : T!Nth(places \cup {m}, k) = T!Nth(places, k)
         /\ T!Nth(places \cup {m}, Cardinality(places) + 1) = m
<1> DEFINE more == places \cup {m}
           size == Cardinality(places)
<1>1. m \notin places /\ \A p \in more : p \in 1 .. m
  OBVIOUS
<1>2. IsFiniteSet(places) /\ size \in Nat
  <2>1. Cardinality(places) \in Nat /\ IsFiniteSet(places)
    BY UptoFinite
  <2> QED BY <2>1
<1>3. Cardinality(more) = size + 1
  BY <1>1, <1>2, FS_AddElement
<1>4. Upto(more, m) = more
  BY <1>1 DEF Upto
<1>5. \A i \in places : Upto(more, i) = Upto(places, i)
  BY <1>1 DEF Upto
<1>6. m \in more
  OBVIOUS
<1>7. places \subseteq more
  OBVIOUS
<1> HIDE DEF more
<1>8. ASSUME NEW k \in 1 .. size
      PROVE  T!Nth(more, k) = T!Nth(places, k)
  <2>1. T!Nth(places, k) \in places /\ Cardinality(Upto(places, T!Nth(places, k))) = k
    BY <1>8, NthIs
  <2>2. T!Nth(places, k) \in more /\ Cardinality(Upto(more, T!Nth(places, k))) = k
    BY <1>5, <1>7, <2>1
  <2>3. k \in 1 .. Cardinality(more)
    BY <1>2, <1>3
  <2> QED BY <1>1, <2>2, <2>3, NthUnique
<1>9. T!Nth(more, size + 1) = m
  <2>1. size + 1 \in 1 .. Cardinality(more)
    BY <1>2, <1>3
  <2> QED BY <1>1, <1>3, <1>4, <1>6, <2>1, NthUnique
<1> QED BY <1>3, <1>8, <1>9 DEF more

LEMMA StandsInside ==
  ASSUME NEW s, NEW S, s \in Seq(S)
  PROVE  \A p \in T!Stands(s) : p \in 1 .. Len(s)
BY DEF T!Stands

\* Agree on the first n characters.
Agree(s, t, n) == \A i \in 1 .. n : s[i] = t[i]

LEMMA DecodedAgree ==
  ASSUME NEW s, NEW t, NEW n \in Nat, Agree(s, t, n), NEW i \in 1 .. n
  PROVE  T!Decoded(s, i) = T!Decoded(t, i)
<1>1. s[i] = t[i] /\ \A h \in 2 .. i-1 : s[h] = t[h]
  BY DEF Agree
<1>2. T!Escaped(s, i) <=> T!Escaped(t, i)
  BY <1>1, EscapedBefore
<1> QED BY <1>1, <1>2 DEF T!Decoded

LEMMA ContentsSame ==
  ASSUME NEW s, NEW t, NEW n \in Nat, Agree(s, t, n), \A p \in T!Stands(s) : p \in 1 .. n,
         T!Stands(t) = T!Stands(s)
  PROVE  T!Contents(t) = T!Contents(s)
<1> DEFINE places == T!Stands(s)
<1>1. \A k \in 1 .. Cardinality(places) : T!Nth(places, k) \in 1 .. n
  BY NthIs
<1>2. \A k \in 1 .. Cardinality(places) :
        T!Decoded(t, T!Nth(places, k)) = T!Decoded(s, T!Nth(places, k))
  BY <1>1, DecodedAgree
<1> QED BY <1>2, SameCardinality DEF T!Contents

LEMMA ContentsGrow ==
  ASSUME NEW s, NEW t, NEW n \in Nat, Agree(s, t, n), \A p \in T!Stands(s) : p \in 1 .. n,
         NEW m \in Nat, m > n, T!Stands(t) = T!Stands(s) \cup {m}
  PROVE  T!Contents(t) = Append(T!Contents(s), T!Decoded(t, m))
<1> DEFINE places == T!Stands(s)
           size   == Cardinality(places)
<1>0. size \in Nat
  BY UptoFinite
<1>1. \A k \in 1 .. size : T!Nth(places, k) \in 1 .. n
  BY NthIs
<1>2. \A k \in 1 .. size : T!Decoded(t, T!Nth(places, k)) = T!Decoded(s, T!Nth(places, k))
  BY <1>1, DecodedAgree
<1>3. /\ Cardinality(T!Stands(t)) = size + 1
      /\ \A k \in 1 .. size : T!Nth(T!Stands(t), k) = T!Nth(places, k)
      /\ T!Nth(T!Stands(t), size + 1) = m
  <2>1. T!Stands(t) = places \cup {m} /\ \A p \in places : p \in 1 .. n
    OBVIOUS
  <2> HIDE DEF places
  <2>2. /\ Cardinality(places \cup {m}) = size + 1
        /\ \A k \in 1 .. size : T!Nth(places \cup {m}, k) = T!Nth(places, k)
        /\ T!Nth(places \cup {m}, size + 1) = m
    BY <2>1, NthGrows
  <2> QED BY <2>1, <2>2
<1>4. T!Contents(t) = [k \in 1 .. size + 1 |-> T!Decoded(t, T!Nth(T!Stands(t), k))]
  BY <1>3, SameCardinality DEF T!Contents
<1>5. T!Contents(s) = [k \in 1 .. size |-> T!Decoded(s, T!Nth(places, k))]
  BY SameCardinality DEF T!Contents
<1> HIDE DEF places, size
<1>6. T!Contents(t) = [k \in 1 .. size + 1 |->
                         IF k = size + 1 THEN T!Decoded(t, m) ELSE T!Decoded(s, T!Nth(places, k))]
  BY <1>0, <1>2, <1>3, <1>4
<1> QED BY <1>0, <1>5, <1>6

\* One more character leaves those before it as they are.
LEMMA Appended ==
  ASSUME NEW S, NEW s \in Seq(S), NEW c \in S
  PROVE  /\ Append(s, c) \in Seq(S) /\ Len(s) \in Nat
         /\ Len(Append(s, c)) = Len(s) + 1 /\ Append(s, c)[Len(s) + 1] = c
         /\ Agree(s, Append(s, c), Len(s)) /\ DOMAIN s = 1 .. Len(s)
         /\ DOMAIN Append(s, c) = 1 .. Len(s) + 1
         /\ \A i \in 1 .. Len(s) + 1 : T!Escaped(Append(s, c), i) <=> T!Escaped(s, i)
<1>1. /\ Append(s, c) \in Seq(S) /\ Len(s) \in Nat
      /\ Len(Append(s, c)) = Len(s) + 1 /\ Append(s, c)[Len(s) + 1] = c
      /\ \A i \in 1 .. Len(s) : Append(s, c)[i] = s[i]
  BY AppendProperties, LenProperties
<1>2. Agree(s, Append(s, c), Len(s))
  BY <1>1 DEF Agree
<1> DEFINE t == Append(s, c)
<1> HIDE DEF t
<1>3. ASSUME NEW i \in 1 .. Len(s) + 1
      PROVE  T!Escaped(t, i) <=> T!Escaped(s, i)
  <2>1. i \in Nat /\ \A h \in 2 .. i-1 : t[h] = s[h]
    BY <1>1 DEF t
  <2> QED BY <2>1, EscapedBefore
<1>4. \A i \in 1 .. Len(s) + 1 : T!Escaped(t, i) <=> T!Escaped(s, i)
  BY <1>3
<1>5. DOMAIN s = 1 .. Len(s) /\ DOMAIN t = 1 .. Len(s) + 1
  BY <1>1 DEF t
<1> QED BY <1>1, <1>2, <1>4, <1>5 DEF t

\* A string that is still open is open after one more character, unless that is the quote
\* that closes it or the end of the line.
LEMMA OpenNext ==
  ASSUME NEW s \in Seq(T!Char), Open(s), NEW c \in T!Char, Escapes(s) \/ c \notin {"nl", "quote"}
  PROVE  /\ Open(Append(s, c))
         /\ Escapes(Append(s, c)) <=> c = "backslash" /\ ~Escapes(s)
<1> DEFINE t == Append(s, c)
           n == Len(s)
<1>1. /\ t \in Seq(T!Char) /\ n \in Nat /\ n >= 1 /\ Len(t) = n + 1 /\ t[n + 1] = c
      /\ \A i \in 1 .. n : t[i] = s[i]
      /\ \A i \in 1 .. n + 1 : T!Escaped(t, i) <=> T!Escaped(s, i)
  BY Appended, EmptySeq DEF Open, Agree
<1> HIDE DEF t
<1>2. Open(t)
  <2>1. t # << >> /\ t[1] = "quote"
    BY <1>1 DEF Open
  <2>2. ASSUME NEW i \in 2 .. n + 1, t[i] \in {"nl", "quote"}
        PROVE  T!Escaped(t, i)
    <3>1. CASE i = n + 1
      BY <1>1, <2>2, <3>1 DEF Escapes
    <3>2. CASE i \in 2 .. n
      <4>1. s[i] \in {"nl", "quote"} => T!Escaped(s, i)
        BY <3>2 DEF Open
      <4> QED BY <1>1, <2>2, <3>2, <4>1
    <3> QED BY <1>1, <3>1, <3>2
  <2> QED BY <1>1, <2>1, <2>2 DEF Open
<1>3. T!Escaped(t, (n + 1) + 1) <=> n + 1 >= 2 /\ t[n + 1] = "backslash" /\ ~T!Escaped(t, n + 1)
  BY <1>1, EscapedNext
<1>4. Escapes(t) <=> c = "backslash" /\ ~Escapes(s)
  BY <1>1, <1>3 DEF Escapes
<1> QED BY <1>2, <1>4 DEF t

LEMMA OpenFirst == Open(<< "quote" >>) /\ ~Escapes(<< "quote" >>) /\ T!Contents(<< "quote" >>) = << >>
<1> DEFINE s == << "quote" >>
<1>1. s # << >> /\ Len(s) = 1 /\ s[1] = "quote" /\ s \in Seq({"quote"}) /\ DOMAIN s = {1}
  OBVIOUS
<1> HIDE DEF s
<1>2. ~T!Escaped(s, 1)
  <2>1. Run(s, 1) = {}
    BY DEF Run
  <2>2. Cardinality(Run(s, 1)) = 0
    BY <2>1, FS_EmptySet
  <2> QED BY <2>2, SameCardinality DEF T!Escaped, Run
<1>3. T!Escaped(s, 1 + 1) <=> 1 >= 2 /\ s[1] = "backslash" /\ ~T!Escaped(s, 1)
  BY EscapedNext
<1>4. Open(s) /\ ~Escapes(s)
  BY <1>1, <1>3 DEF Open, Escapes
<1>5. T!Stands(s) = {}
  BY <1>1, <1>2 DEF T!Stands
<1>6. T!Cardinality(T!Stands(s)) = 0
  BY <1>5, FS_EmptySet, SameCardinality
<1>7. T!Contents(s) = << >>
  BY <1>6 DEF T!Contents
<1> QED BY <1>4, <1>7 DEF s

LEMMA ContentsTyped ==
  ASSUME NEW s \in Seq(T!Char)
  PROVE  T!Contents(s) \in Seq(Glyph)
<1> DEFINE places == T!Stands(s)
<1>1. \A p \in places : p \in 1 .. Len(s)
  BY StandsInside
<1>2. Len(s) \in Nat /\ \A i \in 1 .. Len(s) : s[i] \in T!Char
  BY ElementOfSeq
<1>3. \A i \in 1 .. Len(s) : T!Decoded(s, i) \in Glyph
  BY <1>2 DEF T!Decoded, T!Unescape, Glyph
<1>4. Cardinality(places) \in Nat
  BY <1>1, <1>2, UptoFinite
<1> HIDE DEF places
<1>5. \A k \in 1 .. Cardinality(places) : T!Nth(places, k) \in 1 .. Len(s)
  BY <1>1, <1>2, NthIs
<1>6. T!Contents(s) = [k \in 1 .. Cardinality(places) |-> T!Decoded(s, T!Nth(places, k))]
  BY SameCardinality DEF T!Contents, places
<1> QED BY <1>3, <1>4, <1>5, <1>6

LEMMA StandsNext ==
  ASSUME NEW s \in Seq(T!Char), Open(s), ~Escapes(s), NEW c \in T!Char
  PROVE  T!Stands(Append(s, c)) = T!Stands(s) \cup (IF c = "quote" THEN {} ELSE {Len(s) + 1})
<1> DEFINE t == Append(s, c)
           n == Len(s)
<1>1. /\ n \in Nat /\ n >= 1 /\ t[n + 1] = c /\ Len(t) = n + 1
      /\ DOMAIN s = 1 .. n /\ DOMAIN t = 1 .. n + 1
      /\ \A i \in 1 .. n : t[i] = s[i]
      /\ \A i \in 1 .. n + 1 : T!Escaped(t, i) <=> T!Escaped(s, i)
  BY Appended, EmptySeq DEF Open, Agree
<1>2. ~T!Escaped(s, n + 1)
  BY DEF Escapes
<1>3. n >= 2 /\ s[n] = "backslash" => T!Escaped(s, n)
  BY <1>1, <1>2, EscapedNext
<1> HIDE DEF t, n
<1>4. ASSUME NEW i \in 1 .. n
      PROVE  i \in T!Stands(t) <=> i \in T!Stands(s)
  <2>1. i \in T!Stands(t) <=> \/ T!Escaped(t, i)
                              \/ i > 1 /\ t[i] # "quote" /\ (t[i] = "backslash" => i = n + 1)
    BY <1>1 DEF T!Stands
  <2>2. i \in T!Stands(s) <=> \/ T!Escaped(s, i)
                              \/ i > 1 /\ s[i] # "quote" /\ (s[i] = "backslash" => i = n)
    BY <1>1 DEF T!Stands, n
  <2>3. t[i] = s[i] /\ (T!Escaped(t, i) <=> T!Escaped(s, i)) /\ i # n + 1
    BY <1>1
  <2>4. CASE i = n
    BY <1>1, <1>3, <2>1, <2>2, <2>3, <2>4
  <2>5. CASE i # n
    BY <2>1, <2>2, <2>3, <2>5
  <2> QED BY <2>4, <2>5
<1>5. n + 1 \in T!Stands(t) <=> c # "quote"
  <2>1. n + 1 \in T!Stands(t) <=> \/ T!Escaped(t, n + 1)
                                  \/ n + 1 > 1 /\ c # "quote"
    BY <1>1 DEF T!Stands
  <2> QED BY <1>1, <1>2, <2>1
<1>6. T!Stands(t) \subseteq 1 .. n + 1 /\ T!Stands(s) \subseteq 1 .. n
  BY <1>1 DEF T!Stands
<1>7. ASSUME NEW i
      PROVE  i \in T!Stands(t) <=> i \in T!Stands(s) \/ (c # "quote" /\ i = n + 1)
  <2>1. CASE i \in 1 .. n
    BY <1>1, <1>4, <2>1
  <2>2. CASE i = n + 1
    BY <1>1, <1>5, <1>6, <2>2
  <2>3. CASE i \notin 1 .. n /\ i # n + 1
    BY <1>1, <1>6, <2>3
  <2> QED BY <2>1, <2>2, <2>3
<1> QED BY <1>7 DEF t, n

\* After a backslash: what follows stands for itself or is replaced.
LEMMA StandsEscaped ==
  ASSUME NEW s \in Seq(T!Char), Open(s), Escapes(s), NEW c \in T!Char
  PROVE  /\ T!Stands(s) = T!Stands(WithoutLast(s)) \cup {Len(s)}
         /\ T!Stands(Append(s, c)) = T!Stands(WithoutLast(s)) \cup {Len(s) + 1}
         /\ WithoutLast(s) \in Seq(T!Char) /\ Open(WithoutLast(s)) /\ ~Escapes(WithoutLast(s))
         /\ Len(WithoutLast(s)) = Len(s) - 1 /\ s[Len(s)] = "backslash" /\ Len(s) >= 2
         /\ Agree(WithoutLast(s), s, Len(s) - 1)
<1> DEFINE t == Append(s, c)
           r == WithoutLast(s)
           n == Len(s)
<1>1. n \in Nat /\ n >= 1 /\ s \in [1 .. n -> T!Char]
  BY LenProperties, EmptySeq DEF Open
<1>2. n >= 2 /\ s[n] = "backslash" /\ ~T!Escaped(s, n)
  BY <1>1, EscapedNext DEF Escapes
<1>3. /\ r \in Seq(T!Char) /\ Len(r) = n - 1 /\ \A i \in 1 .. n - 1 : r[i] = s[i]
      /\ DOMAIN r = 1 .. n - 1
  BY <1>1, <1>2, SubSeqProperties, LenProperties DEF WithoutLast
<1>4. ASSUME NEW i \in 1 .. n
      PROVE  T!Escaped(r, i) <=> T!Escaped(s, i)
  <2>1. i \in Nat /\ \A h \in 2 .. i-1 : r[h] = s[h]
    BY <1>1, <1>3
  <2> HIDE DEF r
  <2> QED BY <2>1, EscapedBefore
<1>5. /\ t[n + 1] = c /\ Len(t) = n + 1 /\ DOMAIN s = 1 .. n /\ DOMAIN t = 1 .. n + 1
      /\ \A i \in 1 .. n : t[i] = s[i]
      /\ \A i \in 1 .. n + 1 : T!Escaped(t, i) <=> T!Escaped(s, i)
  BY Appended DEF Agree
<1>6. T!Escaped(s, n + 1)
  BY DEF Escapes
<1>7. \A i \in 2 .. n : s[i] \in {"nl", "quote"} => T!Escaped(s, i)
  BY DEF Open
<1>8. s[1] = "quote"
  BY DEF Open
<1> HIDE DEF t, r, n
<1>9. Open(r) /\ ~Escapes(r)
  <2>1. r # << >> /\ r[1] = "quote"
    BY <1>1, <1>2, <1>3, <1>8
  <2>2. \A i \in 2 .. n - 1 : r[i] \in {"nl", "quote"} => T!Escaped(r, i)
    BY <1>1, <1>3, <1>4, <1>7
  <2>3. ~T!Escaped(r, (n - 1) + 1)
    BY <1>1, <1>2, <1>4
  <2> QED BY <1>3, <2>1, <2>2, <2>3 DEF Open, Escapes
<1>10. T!Stands(r) \subseteq 1 .. n - 1 /\ T!Stands(s) \subseteq 1 .. n /\ T!Stands(t) \subseteq 1 .. n + 1
  BY <1>3, <1>5 DEF T!Stands
<1>11. s = Append(r, "backslash")
  <2>1. "backslash" \in T!Char
    BY DEF T!Char
  <2>2. /\ Append(r, "backslash") \in Seq(T!Char) /\ Len(Append(r, "backslash")) = (n - 1) + 1
        /\ \A i \in 1 .. n - 1 : Append(r, "backslash")[i] = r[i]
        /\ Append(r, "backslash")[(n - 1) + 1] = "backslash"
    BY <1>3, <2>1, AppendProperties
  <2>3. n = (n - 1) + 1 /\ \A i \in 1 .. n : i \in 1 .. n - 1 \/ i = n
    BY <1>1
  <2>4. \A i \in 1 .. n : s[i] = Append(r, "backslash")[i]
    BY <1>2, <1>3, <2>2, <2>3
  <2> QED BY <2>2, <2>3, <2>4, SeqEqual DEF n
<1>12. T!Stands(s) = T!Stands(r) \cup {n}
  <2>1. "backslash" \in T!Char
    BY DEF T!Char
  <2>2. T!Stands(Append(r, "backslash")) = T!Stands(r) \cup {Len(r) + 1}
    BY <1>3, <1>9, <2>1, StandsNext
  <2>3. Len(r) + 1 = n
    BY <1>1, <1>3
  <2> QED BY <1>11, <2>2, <2>3
<1>13. ASSUME NEW i \in 1 .. n - 1
       PROVE  i \in T!Stands(t) <=> i \in T!Stands(r)
  <2>1. i \in T!Stands(t) <=> \/ T!Escaped(t, i)
                              \/ i > 1 /\ t[i] # "quote" /\ t[i] # "backslash"
    BY <1>1, <1>5 DEF T!Stands
  <2>2. i \in T!Stands(r) <=> \/ T!Escaped(r, i)
                              \/ i > 1 /\ r[i] # "quote" /\ (r[i] = "backslash" => i = n - 1)
    BY <1>3 DEF T!Stands
  <2>3. t[i] = r[i] /\ (T!Escaped(t, i) <=> T!Escaped(r, i))
    BY <1>1, <1>3, <1>4, <1>5
  <2>4. i = n - 1 /\ i > 1 /\ r[i] = "backslash" => T!Escaped(r, i)
    <3>1. T!Escaped(s, (n - 1) + 1) <=> n - 1 >= 2 /\ s[n - 1] = "backslash" /\ ~T!Escaped(s, n - 1)
      BY <1>1, <1>2, EscapedNext
    <3>2. (n - 1) + 1 = n
      BY <1>1
    <3> QED BY <1>2, <1>3, <1>4, <3>1, <3>2
  <2> QED BY <2>1, <2>2, <2>3, <2>4
<1>14. n \notin T!Stands(t) /\ n + 1 \in T!Stands(t)
  <2>1. n \in T!Stands(t) <=> T!Escaped(t, n) \/ (n > 1 /\ s[n] # "quote" /\ (s[n] = "backslash" => n = n + 1))
    BY <1>1, <1>5 DEF T!Stands
  <2>2. n # n + 1 /\ ~T!Escaped(t, n)
    BY <1>1, <1>2, <1>5
  <2>3. n + 1 \in 1 .. n + 1 /\ T!Escaped(t, n + 1)
    BY <1>1, <1>5, <1>6
  <2> QED BY <1>2, <1>5, <2>1, <2>2, <2>3 DEF T!Stands
<1>15. ASSUME NEW i
       PROVE  i \in T!Stands(t) <=> i \in T!Stands(r) \/ i = n + 1
  <2>1. CASE i \in 1 .. n - 1
    BY <1>1, <1>13, <2>1
  <2>2. CASE i = n \/ i = n + 1
    BY <1>1, <1>10, <1>14, <2>2
  <2>3. CASE i \notin 1 .. n + 1
    BY <1>1, <1>10, <2>3
  <2>4. i \in 1 .. n + 1 => i \in 1 .. n - 1 \/ i = n \/ i = n + 1
    BY <1>1
  <2> QED BY <2>1, <2>2, <2>3, <2>4
<1>16. T!Stands(t) = T!Stands(r) \cup {n + 1}
  BY <1>15
<1> QED BY <1>2, <1>3, <1>9, <1>12, <1>16 DEF t, r, n, Agree

\* What a string stands for, one character further.
LEMMA ContentsNext ==
  ASSUME NEW s \in Seq(T!Char), Open(s), ~Escapes(s), NEW c \in T!Char
  PROVE  T!Contents(Append(s, c)) = IF c = "quote" THEN T!Contents(s) ELSE Append(T!Contents(s), c)
<1> DEFINE t == Append(s, c)
           n == Len(s)
<1>1. /\ n \in Nat /\ Agree(s, t, n) /\ t[n + 1] = c
      /\ T!Escaped(t, n + 1) <=> T!Escaped(s, n + 1)
  BY Appended
<1>2. T!Stands(t) = T!Stands(s) \cup (IF c = "quote" THEN {} ELSE {n + 1})
  BY StandsNext
<1>3. \A p \in T!Stands(s) : p \in 1 .. n
  BY StandsInside
<1>4. T!Decoded(t, n + 1) = c
  BY <1>1 DEF T!Decoded, Escapes
<1> HIDE DEF t, n
<1>5. CASE c = "quote"
  <2>1. T!Stands(t) = T!Stands(s)
    BY <1>2, <1>5
  <2> QED BY <1>1, <1>3, <1>5, <2>1, ContentsSame DEF t
<1>6. CASE c # "quote"
  <2>1. T!Stands(t) = T!Stands(s) \cup {n + 1} /\ n + 1 \in Nat /\ n + 1 > n
    BY <1>1, <1>2, <1>6
  <2>2. T!Contents(t) = Append(T!Contents(s), T!Decoded(t, n + 1))
    BY <1>1, <1>3, <2>1, ContentsGrow
  <2> QED BY <1>4, <1>6, <2>2 DEF t
<1> QED BY <1>5, <1>6

LEMMA ContentsEscaped ==
  ASSUME NEW s \in Seq(T!Char), Open(s), Escapes(s), NEW c \in T!Char
  PROVE  /\ T!Contents(s) = Append(T!Contents(WithoutLast(s)), "backslash")
         /\ T!Contents(Append(s, c)) = Append(T!Contents(WithoutLast(s)), T!Unescape(c))
<1> DEFINE t == Append(s, c)
           r == WithoutLast(s)
           n == Len(s)
<1>1. /\ n \in Nat /\ Agree(s, t, n) /\ t[n + 1] = c
      /\ T!Escaped(t, n + 1) <=> T!Escaped(s, n + 1)
  BY Appended
<1>2. /\ T!Stands(s) = T!Stands(r) \cup {n} /\ T!Stands(t) = T!Stands(r) \cup {n + 1}
      /\ r \in Seq(T!Char) /\ ~Escapes(r) /\ Len(r) = n - 1 /\ s[n] = "backslash" /\ n >= 2
      /\ Agree(r, s, n - 1)
  BY StandsEscaped
<1>3. T!Escaped(t, n + 1)
  BY <1>1 DEF Escapes
<1> HIDE DEF t, r, n
<1>4. \A p \in T!Stands(r) : p \in 1 .. n - 1
  BY <1>2, StandsInside
<1>5. n - 1 \in Nat /\ n > n - 1 /\ n + 1 \in Nat /\ n + 1 > n - 1
  BY <1>1, <1>2
<1>6. Agree(r, t, n - 1)
  BY <1>1, <1>2 DEF Agree
<1>7. T!Contents(s) = Append(T!Contents(r), T!Decoded(s, n))
  BY <1>1, <1>2, <1>4, <1>5, ContentsGrow
<1>8. T!Contents(t) = Append(T!Contents(r), T!Decoded(t, n + 1))
  BY <1>2, <1>4, <1>5, <1>6, ContentsGrow
<1>9. T!Decoded(s, n) = "backslash" /\ T!Decoded(t, n + 1) = T!Unescape(c)
  BY <1>1, <1>2, <1>3 DEF T!Decoded, T!Unescape
<1> QED BY <1>7, <1>8, <1>9 DEF t, r

LEMMA WithoutAppended ==
  ASSUME NEW S, NEW s \in Seq(S), NEW c \in S
  PROVE  WithoutLast(Append(s, c)) = s
<1> DEFINE t == Append(s, c)
           n == Len(s)
<1>1. t \in Seq(S) /\ Len(t) = n + 1 /\ n \in Nat /\ \A i \in 1 .. n : t[i] = s[i]
  BY AppendProperties, LenProperties
<1>2. \A i \in 1 .. n : t[i] \in S
  BY <1>1, ElementOfSeq
<1> HIDE DEF t
<1>3. /\ SubSeq(t, 1, n) \in Seq(S) /\ Len(SubSeq(t, 1, n)) = n
      /\ \A i \in 1 .. n : SubSeq(t, 1, n)[i] = t[i]
  BY <1>1, <1>2, SubSeqProperties
<1>4. SubSeq(t, 1, n) = s
  BY <1>1, <1>3, SeqEqual
<1>5. Len(t) - 1 = n
  BY <1>1
<1> QED BY <1>4, <1>5 DEF WithoutLast, t

-------------------------------------------------------------------------------
(***************************************************************************)
(* yytext is what of a token is kept.                                      *)
(***************************************************************************)
LEMMA KeptTyped ==
  ASSUME NEW S, NEW t \in Seq(S)
  PROVE  /\ T!Kept(t) \in Seq(S) /\ Len(T!Kept(t)) <= TextMax
         /\ Len(t) \in Nat
         /\ Len(T!Kept(t)) = IF Len(t) < TextMax THEN Len(t) ELSE TextMax
         /\ \A i \in 1 .. Len(T!Kept(t)) : T!Kept(t)[i] = t[i]
<1> DEFINE m == IF Len(t) < TextMax THEN Len(t) ELSE TextMax
<1>1. Len(t) \in Nat /\ m \in Nat /\ m <= Len(t) /\ m <= TextMax
  BY TextAssumption, LenProperties
<1>2. \A i \in 1 .. m : t[i] \in S
  BY <1>1, ElementOfSeq
<1>3. T!Kept(t) = SubSeq(t, 1, m)
  BY DEF T!Kept
<1> HIDE DEF m
<1>4. /\ SubSeq(t, 1, m) \in Seq(S) /\ Len(SubSeq(t, 1, m)) = m
      /\ \A i \in 1 .. m : SubSeq(t, 1, m)[i] = t[i]
  BY <1>1, <1>2, SubSeqProperties
<1> QED BY <1>1, <1>3, <1>4 DEF m

LEMMA StoredIsKept ==
  ASSUME NEW S, NEW t \in Seq(S), NEW c \in S
  PROVE  Stored(T!Kept(t), c) = T!Kept(Append(t, c))
<1> DEFINE u == Append(t, c)
           k == T!Kept(t)
           l == T!Kept(u)
<1>1. /\ u \in Seq(S) /\ Len(u) = Len(t) + 1 /\ u[Len(t) + 1] = c
      /\ \A i \in 1 .. Len(t) : u[i] = t[i]
  BY AppendProperties
<1> HIDE DEF u
<1>2. /\ k \in Seq(S) /\ Len(t) \in Nat
      /\ Len(k) = IF Len(t) < TextMax THEN Len(t) ELSE TextMax
      /\ \A i \in 1 .. Len(k) : k[i] = t[i]
  BY KeptTyped
<1>3. /\ l \in Seq(S)
      /\ Len(l) = IF Len(u) < TextMax THEN Len(u) ELSE TextMax
      /\ \A i \in 1 .. Len(l) : l[i] = u[i]
  BY <1>1, KeptTyped
<1>4. TextMax \in Nat
  BY TextAssumption
<1> HIDE DEF k, l
<1>5. CASE Len(t) < TextMax
  <2>1. /\ Append(k, c) \in Seq(S) /\ Len(Append(k, c)) = Len(k) + 1
        /\ \A i \in 1 .. Len(k) : Append(k, c)[i] = k[i]
        /\ Append(k, c)[Len(k) + 1] = c
    BY <1>2, AppendProperties
  <2>2. Len(k) = Len(t) /\ Len(l) = Len(t) + 1
    BY <1>1, <1>2, <1>3, <1>4, <1>5
  <2>3. \A i \in 1 .. Len(l) : i \in 1 .. Len(t) \/ i = Len(t) + 1
    BY <1>2, <2>2
  <2>4. \A i \in 1 .. Len(l) : l[i] = Append(k, c)[i]
    BY <1>1, <1>2, <1>3, <2>1, <2>2, <2>3
  <2>5. l = Append(k, c)
    BY <1>3, <2>1, <2>2, <2>4, SeqEqual
  <2> QED BY <1>5, <2>2, <2>5 DEF Stored, k, l, u
<1>6. CASE ~(Len(t) < TextMax)
  <2>1. Len(k) = TextMax /\ Len(l) = TextMax
    BY <1>1, <1>2, <1>3, <1>4, <1>6
  <2>2. \A i \in 1 .. Len(k) : l[i] = k[i]
    BY <1>1, <1>2, <1>3, <1>4, <1>6, <2>1
  <2>3. l = k
    BY <1>2, <1>3, <2>1, <2>2, SeqEqual
  <2> QED BY <1>4, <2>1, <2>3 DEF Stored, k, l, u
<1> QED BY <1>5, <1>6

-------------------------------------------------------------------------------
(***************************************************************************)
(* Lexemes of different kinds begin with different characters.             *)
(***************************************************************************)
LEMMA OneCharacter ==
  ASSUME NEW S, NEW s \in Seq(S), NEW c
  PROVE  s = << c >> <=> Len(s) = 1 /\ s[1] = c
OBVIOUS

LEMMA TwoCharacters ==
  ASSUME NEW S, NEW s \in Seq(S), NEW c, NEW d
  PROVE  s = << c, d >> <=> Len(s) = 2 /\ s[1] = c /\ s[2] = d
OBVIOUS

LEMMA OperatorIs ==
  ASSUME NEW S, NEW s \in Seq(S)
  PROVE  s \in T!Operator <=> \/ Len(s) = 1 /\ s[1] \in {"+", "-", "=", "<"}
                              \/ Len(s) = 2 /\ s[1] \in {"=", "~", "<"} /\ s[2] = "="
BY OneCharacter, TwoCharacters DEF T!Operator

LEMMA KeywordIs ==
  ASSUME NEW S, NEW s \in Seq(S)
  PROVE  s \in T!Keyword <=> Len(s) = 2 /\ s[1] = "o" /\ s[2] = "r"
BY TwoCharacters DEF T!Keyword

LEMMA FirstCharacter ==
  ASSUME NEW S, NEW s \in Seq(S), s # << >>
  PROVE  /\ 1 \in DOMAIN s /\ DOMAIN s = 1 .. Len(s) /\ Len(s) \in Nat \ {0}
         /\ T!Word(s)    => s[1] \in {"o", "r"}
         /\ T!Integer(s) => s[1] = "1"
         /\ T!String(s)  => s[1] = "quote"
         /\ T!Skipped(s) => s[1] \in {" ", "nl", "~", "backslash", "?", "-"}
         /\ s \in T!Operator => s[1] \in {"+", "-", "=", "<", "~"}
         /\ s \in T!Keyword  => s[1] = "o"
<1>1. 1 \in DOMAIN s /\ DOMAIN s = 1 .. Len(s) /\ Len(s) \in Nat \ {0}
  BY LenProperties, EmptySeq
<1>2. s \in T!Operator => s[1] \in {"+", "-", "=", "<", "~"}
  BY OperatorIs
<1>3. s \in T!Keyword => s[1] = "o"
  BY KeywordIs
<1>4. T!Word(s) => s[1] \in {"o", "r"}
  BY DEF T!Word, T!Letter
<1>5. T!Integer(s) => s[1] = "1"
  BY <1>1 DEF T!Integer, T!Digit
<1>6. T!String(s) => s[1] = "quote"
  BY DEF T!String
<1>7. T!Skipped(s) => s[1] \in {" ", "nl", "~", "backslash", "?", "-"}
  BY DEF T!Skipped, T!Blank
<1> QED BY <1>1, <1>2, <1>3, <1>4, <1>5, <1>6, <1>7

\* What can become of a text, by its first character.
LEMMA LexemeIs ==
  ASSUME NEW S, NEW s \in Seq(S), s # << >>
  PROVE  /\ T!Lexeme(s) => \A i \in 1 .. Len(s) : s[i] \in T!Char
         /\ s[1] \in {"o", "r"} => (T!Lexeme(s) => T!Word(s))
         /\ s[1] = "1" => (T!Lexeme(s) => T!Integer(s))
         /\ s[1] = "quote" => (T!Lexeme(s) => T!String(s))
         /\ s[1] \in {" ", "nl", "backslash", "?"} => (T!Lexeme(s) => Len(s) = 1)
         /\ s[1] = "+" => (T!Lexeme(s) => Len(s) = 1)
         /\ s[1] \in {"=", "<", "~"} => (T!Lexeme(s) => Len(s) = 1 \/ (Len(s) = 2 /\ s[2] = "="))
         /\ s[1] = "-" => (T!Lexeme(s) => Len(s) = 1 \/ (s[2] = "-" /\ \A i \in 1 .. Len(s) : s[i] # "nl"))
<1>1. T!Skipped(s) => \/ Len(s) = 1 /\ s[1] \in {" ", "nl", "~", "backslash", "?"}
                      \/ Len(s) > 1 /\ s[1] = "-" /\ s[2] = "-" /\ \A i \in DOMAIN s : s[i] # "nl"
  BY DEF T!Skipped, T!Blank
<1> QED BY <1>1, FirstCharacter, OperatorIs DEF T!Lexeme

LEMMA TokenIs ==
  ASSUME NEW S, NEW s \in Seq(S), s # << >>
  PROVE  /\ T!Word(s) => /\ ~T!Skipped(s)
                         /\ T!Token(s) = IF s \in T!Keyword THEN [kind |-> "keyword", text |-> s]
                                         ELSE [kind |-> "IDENTIFIER", text |-> T!Kept(s)]
         /\ T!Integer(s) => ~T!Skipped(s) /\ T!Token(s) = [kind |-> "INTEGER", text |-> T!Kept(s)]
         /\ T!String(s)  => /\ ~T!Skipped(s)
                            /\ T!Token(s) = [kind |-> "STRING", text |-> T!Kept(T!Contents(s))]
         /\ s \in T!Operator => ~T!Skipped(s) /\ T!Token(s) = [kind |-> "operator", text |-> s]
<1>1. T!Word(s) => ~T!Skipped(s) /\ ~T!Integer(s) /\ ~T!String(s) /\ s \notin T!Operator
  BY FirstCharacter
<1>2. T!Integer(s) => /\ ~T!Skipped(s) /\ ~T!Word(s) /\ ~T!String(s) /\ s \notin T!Operator
                      /\ s \notin T!Keyword
  BY FirstCharacter
<1>3. T!String(s) => /\ ~T!Skipped(s) /\ ~T!Word(s) /\ ~T!Integer(s) /\ s \notin T!Operator
                     /\ s \notin T!Keyword
  BY FirstCharacter
<1>4. s \in T!Operator => ~T!Word(s) /\ ~T!Integer(s) /\ ~T!String(s) /\ s \notin T!Keyword
  BY FirstCharacter
<1>5. s \in T!Operator => ~T!Skipped(s)
  <2>1. T!Skipped(s) => \/ Len(s) = 1 /\ s[1] \in {" ", "nl", "~", "backslash", "?"}
                        \/ Len(s) > 1 /\ s[1] = "-"
    BY DEF T!Skipped, T!Blank
  <2>2. s \in T!Operator => \/ Len(s) = 1 /\ s[1] \in {"+", "-", "=", "<"}
                            \/ Len(s) = 2 /\ s[1] \in {"=", "~", "<"}
    BY OperatorIs
  <2>3. Len(s) \in Nat
    BY LenProperties
  <2> DEFINE n == Len(s)
             c == s[1]
  <2> HIDE DEF n, c
  <2>4. ASSUME s \in T!Operator, T!Skipped(s)
        PROVE  FALSE
    <3>1. (n = 1 /\ c \in {" ", "nl", "~", "backslash", "?"}) \/ (n > 1 /\ c = "-")
      BY <2>1, <2>4 DEF n, c
    <3>2. (n = 1 /\ c \in {"+", "-", "=", "<"}) \/ (n = 2 /\ c \in {"=", "~", "<"})
      BY <2>2, <2>4 DEF n, c
    <3>3. n \in Nat
      BY <2>3 DEF n
    <3>4. CASE n = 1
      <4>1. c \in {" ", "nl", "~", "backslash", "?"}
        <5>1. ~(n > 1)
          BY <3>4
        <5> QED BY <3>1, <5>1, Zenon
      <4>2. c \in {"+", "-", "=", "<"}
        BY <3>2, <3>4
      <4> QED BY <4>1, <4>2
    <3>5. CASE n = 2
      BY <3>1, <3>2, <3>5
    <3> QED BY <3>2, <3>4, <3>5
  <2> QED BY <2>4
<1> QED BY <1>1, <1>2, <1>3, <1>4, <1>5 DEF T!Token

-------------------------------------------------------------------------------
(***************************************************************************)
(* What one look does to the text, whatever the scan function.             *)
(***************************************************************************)
LEMMA ConsumedTyped ==
  ASSUME Typed, Buffered, state # "done"
  PROVE  /\ Consumed \in Seq(T!Char) /\ Len(Consumed) = consumed - start
         /\ Len(text) \in Nat
         /\ consumed <= Len(text) /\ text \in Seq(Anything)
         /\ \A i \in 1 .. consumed - start : Consumed[i] = text[start + i]
<1>1. Len(text) \in Nat /\ DOMAIN text = 1 .. Len(text) /\ text \in Seq(Anything)
  BY LenProperties DEF Typed
<1>2. Len(text) = consumed + IF current_char # Unread THEN 1 ELSE 0
  BY DEF Buffered
<1>3. start \in Nat /\ consumed \in Nat /\ start <= consumed
  BY DEF Typed
<1>4. current_char = T!Eof => current_char # Unread
  BY DEF T!Eof, Unread
<1>5. \A i \in DOMAIN text : text[i] = T!Eof => i = Len(text) /\ current_char = T!Eof
  BY DEF Buffered
<1>6. ASSUME NEW i \in start + 1 .. consumed
      PROVE  text[i] \in T!Char
  <2>1. i \in DOMAIN text
    BY <1>1, <1>2, <1>3
  <2>2. text[i] \in Anything
    BY <1>1, <2>1, ElementOfSeq
  <2>3. text[i] # T!Eof
    BY <1>2, <1>3, <1>4, <1>5, <2>1
  <2> QED BY <2>2, <2>3 DEF Anything
<1>7. /\ SubSeq(text, start + 1, consumed) \in Seq(T!Char)
      /\ Len(SubSeq(text, start + 1, consumed))
           = IF start + 1 <= consumed THEN consumed - (start + 1) + 1 ELSE 0
      /\ \A i \in 1 .. consumed - (start + 1) + 1 :
           SubSeq(text, start + 1, consumed)[i] = text[start + 1 + i - 1]
  <2>1. start + 1 \in Int /\ consumed \in Int
    BY <1>3
  <2> QED BY <1>6, <2>1, SubSeqProperties
<1>8. Len(Consumed) = consumed - start
  BY <1>3, <1>7 DEF Consumed
<1>9. \A i \in 1 .. consumed - start : Consumed[i] = text[start + i]
  <2>1. \A i \in 1 .. consumed - start : start + 1 + i - 1 = start + i
                                         /\ i \in 1 .. consumed - (start + 1) + 1
    BY <1>3
  <2> QED BY <1>7, <2>1 DEF Consumed
<1> QED BY <1>1, <1>2, <1>3, <1>7, <1>8, <1>9 DEF Consumed

\* The character looked at is the one that comes next.
LEMMA Looked ==
  ASSUME Typed, Buffered, state # "done", current_char # Unread
  PROVE  /\ current_char \in Anything /\ Len(text) = consumed + 1
         /\ text[consumed + 1] = current_char
         /\ SubSeq(text, start + 1, consumed + 1) = Append(Consumed, current_char)
<1>1. current_char \in Anything
  BY DEF Typed
<1>2. Len(text) = consumed + 1 /\ text[consumed + 1] = current_char
  BY DEF Buffered
<1>3. start \in Nat /\ consumed \in Nat /\ start <= consumed
  BY DEF Typed
<1>4. /\ Consumed \in Seq(T!Char) /\ Len(Consumed) = consumed - start
      /\ text \in Seq(Anything)
      /\ \A i \in 1 .. consumed - start : Consumed[i] = text[start + i]
  BY ConsumedTyped
<1>5. Consumed \in Seq(Anything)
  BY <1>4, SeqMonotonic DEF Anything
<1> DEFINE s == Consumed
           c == current_char
           a == Append(s, c)
           b == SubSeq(text, start + 1, consumed + 1)
<1>6. \A i \in start + 1 .. consumed + 1 : text[i] \in Anything
  BY <1>2, <1>3, <1>4, ElementOfSeq
<1>7. /\ b \in Seq(Anything) /\ Len(b) = consumed - start + 1
      /\ \A i \in 1 .. consumed - start + 1 : b[i] = text[start + i]
  <2>1. start + 1 \in Int /\ consumed + 1 \in Int
    BY <1>3
  <2>2. /\ b \in Seq(Anything)
        /\ Len(b) = IF start + 1 <= consumed + 1 THEN (consumed + 1) - (start + 1) + 1 ELSE 0
        /\ \A i \in 1 .. (consumed + 1) - (start + 1) + 1 : b[i] = text[start + 1 + i - 1]
    BY <1>6, <2>1, SubSeqProperties
  <2>3. \A i \in 1 .. consumed - start + 1 : start + 1 + i - 1 = start + i
                                     /\ i \in 1 .. (consumed + 1) - (start + 1) + 1
    BY <1>3
  <2> QED BY <1>3, <2>2, <2>3
<1> HIDE DEF b, s, c
<1>8. /\ a \in Seq(Anything) /\ Len(a) = Len(s) + 1
      /\ \A i \in 1 .. Len(s) : a[i] = s[i]
      /\ a[Len(s) + 1] = c
  BY <1>1, <1>5, AppendProperties DEF s, c
<1>9. \A i \in 1 .. consumed - start + 1 : i \in 1 .. consumed - start \/ i = consumed - start + 1
  BY <1>3
<1>10. start + (consumed - start + 1) = consumed + 1
  BY <1>3
<1>11. \A i \in 1 .. consumed - start + 1 : a[i] = b[i]
  BY <1>2, <1>4, <1>7, <1>8, <1>9, <1>10 DEF s, c
<1>12. a = b
  BY <1>4, <1>7, <1>8, <1>11, SeqEqual DEF s
<1> QED BY <1>1, <1>2, <1>12 DEF a, b, s, c

\* Going on with the scan: nothing is consumed, or the character looked at is.
LEMMA GoesOnKept ==
  ASSUME IInv, state # "done", current_char # Unread, keep_char,
         text' = text, start' = start, yylineno' = yylineno, state' \in State \ {"done"},
         yytext' \in Seq(Glyph), Len(yytext') <= TextMax
  PROVE  Typed' /\ Buffered' /\ Consumed' = Consumed
<1>1. current_char' = current_char /\ consumed' = consumed
  BY DEF keep_char
<1>2. Typed'
  BY <1>1 DEF IInv, Typed
<1>3. Buffered'
  BY <1>1 DEF IInv, Buffered
<1>4. Consumed' = Consumed
  BY <1>1 DEF Consumed
<1> QED BY <1>2, <1>3, <1>4

LEMMA GoesOnConsumed ==
  ASSUME IInv, state # "done", current_char \in T!Char, consume_char,
         text' = text, start' = start, yylineno' = yylineno, state' \in State \ {"done"},
         yytext' \in Seq(Glyph), Len(yytext') <= TextMax
  PROVE  Typed' /\ Buffered' /\ Consumed' = Append(Consumed, current_char)
<1>0. current_char # Unread /\ current_char # T!Eof
  BY DEF T!Char, Unread, T!Eof
<1>1. current_char' = Unread /\ consumed' = consumed + 1
  BY DEF consume_char
<1>2. Typed'
  BY <1>1 DEF IInv, Typed
<1>3. Len(text) = consumed + 1 /\ SubSeq(text, start + 1, consumed + 1) = Append(Consumed, current_char)
  BY <1>0, Looked DEF IInv
<1>4. \A i \in DOMAIN text : text[i] # T!Eof
  BY <1>0 DEF IInv, Buffered
<1>5. consumed + 1 = consumed + 1 + 0
  BY DEF IInv, Typed
<1>6. Buffered'
  BY <1>1, <1>3, <1>4, <1>5 DEF Buffered
<1>7. Consumed' = Append(Consumed, current_char)
  BY <1>1, <1>3 DEF Consumed
<1> QED BY <1>2, <1>6, <1>7

\* Back in yylex, with whatever has been consumed done with.
LEMMA StartsAgain ==
  ASSUME IInv, state # "done", current_char # Unread,
         keep_char \/ (consume_char /\ current_char # T!Eof),
         text' = text, state' = "yylex", start' = consumed', yytext' = yytext, yylineno' \in Nat
  PROVE  IInv'
<1>1. consumed' \in Nat /\ current_char' \in Anything \cup {Unread}
  BY DEF IInv, Typed, keep_char, consume_char
<1>2. Typed'
  BY <1>1 DEF IInv, Typed, State
<1>3. Len(text) = consumed + 1 /\ consumed \in Nat
  BY Looked DEF IInv, Typed
<1>4. Buffered'
  <2>1. CASE keep_char
    BY <2>1 DEF IInv, Buffered, keep_char
  <2>2. CASE consume_char /\ current_char # T!Eof
    <3>1. current_char' = Unread /\ consumed' = consumed + 1
      BY <2>2 DEF consume_char
    <3>2. \A i \in DOMAIN text : text[i] # T!Eof
      BY <2>2 DEF IInv, Buffered
    <3>3. consumed + 1 = consumed + 1 + 0
      BY <1>3
    <3> QED BY <1>3, <3>1, <3>2, <3>3 DEF Buffered
  <2> QED BY <2>1, <2>2
<1>5. Consumed' = << >>
  <2>1. Consumed' = SubSeq(text', consumed' + 1, consumed')
    BY DEF Consumed
  <2> DEFINE t == text'
             m == consumed'
  <2>2. m \in Nat
    BY <1>1
  <2> HIDE DEF t, m
  <2>3. m \in Int /\ m + 1 \in Int /\ m < m + 1
    BY <2>2
  <2>4. SubSeq(t, m + 1, m) = << >>
    BY <2>3, SubSeqEmpty
  <2> QED BY <2>1, <2>4 DEF t, m
<1>6. Accepted(Consumed)'
  BY <1>5 DEF Accepted
<1> QED BY <1>2, <1>4, <1>6 DEF IInv

\* What has been consumed is a lexeme, and the character looked at does not make it longer.
LEMMA TakesKept ==
  ASSUME IInv, state # "done", current_char # Unread,
         T!Lexeme(Consumed), ~T!Lexeme(Append(Consumed, current_char)),
         text' = text, start' = consumed,
         yylineno' = yylineno + IF Consumed = << "nl" >> THEN 1 ELSE 0,
         tokens' = IF T!Skipped(Consumed) THEN tokens ELSE Append(tokens, T!Token(Consumed))
  PROVE  T!Next
<1> DEFINE n == consumed - start
<1>1. /\ start \in Nat /\ consumed \in Nat /\ start + n = consumed
      /\ Len(text) = consumed + 1 /\ text[consumed + 1] = current_char
      /\ Consumed \in Seq(T!Char) /\ Len(Consumed) = n
  BY Looked, ConsumedTyped DEF IInv, Typed
<1>2. Consumed # << >>
  BY DEF T!Lexeme
<1>3. n \in Nat /\ n >= 1
  BY <1>1, <1>2, EmptySeq
<1>4. n \in 1 .. Len(text) - start /\ consumed < Len(text)
  BY <1>1, <1>3
<1>5. SubSeq(text, start + 1, start + n) = Consumed
  BY <1>1 DEF Consumed
<1> HIDE DEF n
<1>6. T!Take(n)
  BY <1>1, <1>4, <1>5 DEF T!Take
<1> QED BY <1>4, <1>6 DEF T!Next

\* The character looked at ends a lexeme that nothing makes longer.
LEMMA TakesConsumed ==
  ASSUME IInv, state # "done", current_char \in T!Char, NEW s, s = Append(Consumed, current_char),
         T!Lexeme(s), \A c \in T!Char : ~T!Lexeme(Append(s, c)),
         text' = text, start' = consumed + 1,
         yylineno' = yylineno + IF s = << "nl" >> THEN 1 ELSE 0,
         tokens' = IF T!Skipped(s) THEN tokens ELSE Append(tokens, T!Token(s))
  PROVE  T!Next
<1> DEFINE n == consumed - start + 1
<1>0. current_char # Unread
  BY DEF T!Char, Unread
<1>1. /\ start \in Nat /\ consumed \in Nat /\ start <= consumed /\ start + n = consumed + 1
      /\ Len(text) = consumed + 1
      /\ SubSeq(text, start + 1, consumed + 1) = s
  BY <1>0, Looked DEF IInv, Typed
<1>2. n \in 1 .. Len(text) - start /\ ~(start + n < Len(text))
  BY <1>1
<1>3. SubSeq(text, start + 1, start + n) = s
  BY <1>1
<1> HIDE DEF n
<1>4. T!Take(n)
  BY <1>1, <1>2, <1>3 DEF T!Take
<1> QED BY <1>2, <1>4 DEF T!Next

-------------------------------------------------------------------------------
(***************************************************************************)
(* The actions: each preserves the invariant, and is a step of Tokens or   *)
(* none.                                                                   *)
(***************************************************************************)
Step == IInv' /\ [T!Next]_(T!vars)

\* Nothing that Tokens sees changes.
LEMMA NoToken ==
  ASSUME text' = text, start' = start, tokens' = tokens, yylineno' = yylineno
  PROVE  [T!Next]_(T!vars)
BY DEF T!vars

LEMMA PeekStep == ASSUME IInv, peek_char PROVE Step
<1> DEFINE c == current_char'
<1>1. /\ state # "done" /\ current_char = Unread /\ c \in Anything /\ text' = Append(text, c)
      /\ UNCHANGED << start, tokens, consumed, state, yytext, yylineno >>
  BY DEF peek_char, Anything
<1>2. /\ text \in Seq(Anything) /\ Len(text) = consumed /\ start \in Nat /\ consumed \in Nat
      /\ start <= consumed
  BY <1>1 DEF IInv, Typed, Buffered
<1>3. c # Unread
  BY <1>1 DEF Anything, T!Char, T!Eof, Unread
<1>4. \A i \in DOMAIN text : text[i] # T!Eof
  BY <1>1 DEF IInv, Buffered, Unread, T!Eof
<1> DEFINE t == Append(text, c)
<1> HIDE DEF c
<1>5. /\ t \in Seq(Anything) /\ t # << >> /\ Len(t) = consumed + 1
      /\ \A i \in 1 .. consumed : t[i] = text[i]
      /\ t[consumed + 1] = c
  BY <1>1, <1>2, AppendProperties
<1>6. DOMAIN t = 1 .. consumed + 1 /\ DOMAIN text = 1 .. consumed
  BY <1>2, <1>5, LenProperties
<1> HIDE DEF t
<1>7. Typed'
  BY <1>1, <1>5 DEF IInv, Typed, c, t
<1>8. \A i \in 1 .. consumed + 1 : t[i] = T!Eof => i = consumed + 1 /\ c = T!Eof
  <2>1. \A i \in 1 .. consumed + 1 : i \in 1 .. consumed \/ i = consumed + 1
    BY <1>2
  <2> QED BY <1>4, <1>5, <1>6, <2>1
<1>9. Buffered'
  BY <1>1, <1>3, <1>5, <1>6, <1>8 DEF Buffered, c, t
<1>10. SubSeq(t, start + 1, consumed) = SubSeq(text, start + 1, consumed)
  <2>1. \A i \in start + 1 .. consumed : t[i] = text[i] /\ text[i] \in Anything
    BY <1>2, <1>5, <1>6, ElementOfSeq
  <2>2. \A i \in start + 1 .. consumed : t[i] \in Anything
    BY <2>1
  <2>3. start + 1 \in Int /\ consumed \in Int
    BY <1>2
  <2> DEFINE a == SubSeq(t, start + 1, consumed)
             b == SubSeq(text, start + 1, consumed)
             n == consumed - (start + 1) + 1
  <2>4. /\ a \in Seq(Anything) /\ Len(a) = IF start + 1 <= consumed THEN n ELSE 0
        /\ \A i \in 1 .. n : a[i] = t[start + 1 + i - 1]
    BY <2>2, <2>3, SubSeqProperties
  <2>5. /\ b \in Seq(Anything) /\ Len(b) = IF start + 1 <= consumed THEN n ELSE 0
        /\ \A i \in 1 .. n : b[i] = text[start + 1 + i - 1]
    BY <2>1, <2>3, SubSeqProperties
  <2>6. \A i \in 1 .. n : start + 1 + i - 1 \in start + 1 .. consumed
    BY <1>2
  <2>7. Len(a) = Len(b) /\ \A i \in 1 .. Len(a) : i \in 1 .. n
    BY <1>2, <2>4, <2>5
  <2> HIDE DEF a, b, n
  <2>8. \A i \in 1 .. Len(a) : a[i] = b[i]
    BY <2>1, <2>4, <2>5, <2>6, <2>7
  <2>9. a = b
    BY <2>4, <2>5, <2>7, <2>8, SeqEqual
  <2> QED BY <2>9 DEF a, b
<1>11. Consumed' = Consumed
  BY <1>1, <1>10 DEF Consumed, c, t
<1>12. Accepted(Consumed)'
  <2> DEFINE s == Consumed
  <2>1. Accepted(s)
    BY DEF IInv
  <2>2. ~(state = "number" /\ s = << >>) /\ ~(state = "word" /\ s = << >>) /\ ~(state = "string" /\ Escapes(s))
    BY <1>1, <2>1 DEF Accepted, Unread, T!Digit, T!Letter, T!Eof
  <2>3. Consumed' = s
    BY <1>11
  <2> HIDE DEF s
  <2> QED BY <1>1, <2>1, <2>2, <2>3 DEF Accepted
<1>13. T!Arrive(c)
  <2>1. text # << >> => text[Len(text)] # T!Eof
    BY <1>2, <1>4, <1>6, EmptySeq
  <2> QED BY <1>1, <2>1 DEF T!Arrive, T!Ended, c
<1>14. T!Next
  BY <1>1, <1>13 DEF T!Next, Anything, c
<1> QED BY <1>7, <1>9, <1>12, <1>14 DEF Step, IInv

-------------------------------------------------------------------------------
\* The characters that end a lexeme, by how it begins.
LEMMA NotLonger ==
  ASSUME NEW S, NEW s \in Seq(S), s # << >>, NEW c \in S
  PROVE  /\ s[1] \in {" ", "nl", "backslash", "?", "+"} => ~T!Lexeme(Append(s, c))
         /\ s[1] \in {"=", "<", "~"} /\ (Len(s) = 2 \/ c # "=") => ~T!Lexeme(Append(s, c))
         /\ s[1] = "-" /\ Len(s) = 1 /\ c # "-" => ~T!Lexeme(Append(s, c))
         /\ s[1] = "-" /\ c = "nl" => ~T!Lexeme(Append(s, c))
         /\ s[1] \in {"o", "r"} /\ c \notin T!Letter \cup T!Digit => ~T!Lexeme(Append(s, c))
         /\ s[1] = "1" /\ c \notin T!Digit => ~T!Lexeme(Append(s, c))
         /\ Open(s) /\ ~Escapes(s) /\ c = "nl" => ~T!Lexeme(Append(s, c))
         /\ c = T!Eof => ~T!Lexeme(Append(s, c))
<1> DEFINE t == Append(s, c)
           n == Len(s)
<1>1. /\ t \in Seq(S) /\ t # << >> /\ n \in Nat /\ n >= 1 /\ Len(t) = n + 1
      /\ t[n + 1] = c /\ t[1] = s[1] /\ DOMAIN t = 1 .. n + 1
      /\ T!Escaped(t, n + 1) <=> T!Escaped(s, n + 1)
  BY Appended, EmptySeq DEF Agree
<1> HIDE DEF t, n
<1>2. n + 1 # 1 /\ n + 1 \in 1 .. n + 1 /\ n + 1 \in 2 .. n + 1
  BY <1>1
<1>3. s[1] \in {" ", "nl", "backslash", "?"} => ~T!Lexeme(t)
  BY <1>1, <1>2, LexemeIs
<1>4. s[1] = "+" => ~T!Lexeme(t)
  BY <1>1, <1>2, LexemeIs
<1>5. s[1] \in {"=", "<", "~"} /\ (n = 2 \/ c # "=") => ~T!Lexeme(t)
  <2>1. ASSUME s[1] \in {"=", "<", "~"}, T!Lexeme(t)
        PROVE  n = 1 /\ c = "="
    <3>1. Len(t) = 1 \/ (Len(t) = 2 /\ t[2] = "=")
      BY <1>1, <2>1, LexemeIs
    <3>2. n = 1
      BY <1>1, <3>1
    <3> QED BY <1>1, <3>1, <3>2
  <2> QED BY <2>1
<1>6. s[1] = "-" /\ n = 1 /\ c # "-" => ~T!Lexeme(t)
  <2>1. ASSUME s[1] = "-", T!Lexeme(t)
        PROVE  t[2] = "-"
    <3>1. Len(t) = 1 \/ t[2] = "-"
      BY <1>1, <2>1, LexemeIs
    <3> QED BY <1>1, <3>1
  <2> QED BY <1>1, <2>1
<1>7. s[1] = "-" /\ c = "nl" => ~T!Lexeme(t)
  BY <1>1, <1>2, LexemeIs
<1>8. s[1] \in {"o", "r"} /\ c \notin T!Letter \cup T!Digit => ~T!Lexeme(t)
  <2>1. T!Word(t) => t[n + 1] \in T!Letter \cup T!Digit
    BY <1>1, <1>2 DEF T!Word
  <2> QED BY <1>1, <2>1, LexemeIs
<1>9. s[1] = "1" /\ c \notin T!Digit => ~T!Lexeme(t)
  <2>1. T!Integer(t) => t[n + 1] \in T!Digit
    BY <1>1, <1>2 DEF T!Integer
  <2> QED BY <1>1, <2>1, LexemeIs
<1>10. Open(s) /\ ~Escapes(s) /\ c = "nl" => ~T!Lexeme(t)
  <2>1. T!String(t) => (t[n + 1] = "nl" => T!Escaped(t, n + 1))
    BY <1>1, <1>2 DEF T!String
  <2>2. ~Escapes(s) => ~T!Escaped(t, n + 1)
    BY <1>1 DEF Escapes, n
  <2>3. Open(s) => s[1] = "quote"
    BY DEF Open
  <2> QED BY <1>1, <2>1, <2>2, <2>3, LexemeIs
<1>11. c = T!Eof => ~T!Lexeme(t)
  <2>1. T!Lexeme(t) => t[n + 1] \in T!Char
    BY <1>1, <1>2, LexemeIs
  <2> QED BY <1>1, <2>1 DEF T!Char, T!Eof
<1> QED BY <1>3, <1>4, <1>5, <1>6, <1>7, <1>8, <1>9, <1>10, <1>11 DEF t, n

LEMMA EndStep == ASSUME IInv, endOfInput PROVE Step
<1>1. /\ state = "yylex" /\ current_char = T!Eof /\ current_char # Unread /\ state # "done"
      /\ current_char' = current_char /\ consumed' = consumed + 1
      /\ tokens' = Append(tokens, [kind |-> "end", text |-> << >>])
      /\ state' = "done" /\ start' = consumed + 1
      /\ UNCHANGED << text, yytext, yylineno >>
  BY DEF endOfInput, Looking
<1>2. /\ start \in Nat /\ consumed \in Nat /\ Len(text) = consumed + 1
      /\ text[consumed + 1] = T!Eof /\ Len(Consumed) = consumed - start
  BY <1>1, Looked, ConsumedTyped DEF IInv, Typed
<1>3. Consumed = << >> /\ start = consumed
  <2>1. Consumed = << >>
    BY <1>1 DEF IInv, Accepted
  <2> QED BY <1>2, <2>1, EmptySeq
<1>4. T!End
  BY <1>1, <1>2, <1>3 DEF T!End
<1>5. Typed'
  BY <1>1, <1>2 DEF IInv, Typed, State
<1>6. Buffered'
  BY <1>1, <1>2 DEF IInv, Buffered
<1>7. Consumed' = << >>
  <2>1. Consumed' = SubSeq(text, (consumed + 1) + 1, consumed + 1)
    BY <1>1 DEF Consumed
  <2>2. (consumed + 1) + 1 \in Int /\ consumed + 1 \in Int /\ consumed + 1 < (consumed + 1) + 1
    BY <1>2
  <2> QED BY <2>1, <2>2, SubSeqEmpty
<1>8. Accepted(Consumed)'
  BY <1>1, <1>7 DEF Accepted
<1> QED BY <1>4, <1>5, <1>6, <1>8 DEF Step, IInv, T!Next

\* A lexeme of one character, from yylex.
LEMMA AtOnce ==
  ASSUME IInv, state = "yylex", current_char \in T!Char, NEW s, s = << current_char >>,
         T!Lexeme(s), \A c \in T!Char : ~T!Lexeme(Append(s, c)),
         consume_char, text' = text, start' = consumed', state' = "yylex", yytext' = yytext,
         yylineno' = yylineno + IF s = << "nl" >> THEN 1 ELSE 0,
         tokens' = IF T!Skipped(s) THEN tokens ELSE Append(tokens, T!Token(s))
  PROVE  Step
<1>1. Consumed = << >>
  BY DEF IInv, Accepted
<1>2. s = Append(Consumed, current_char)
  BY <1>1
<1>3. start' = consumed + 1 /\ state # "done" /\ current_char # Unread /\ current_char # T!Eof
  BY DEF consume_char, T!Char, Unread, T!Eof
<1>4. yylineno' \in Nat
  BY DEF IInv, Typed
<1>5. T!Next
  BY <1>2, <1>3, TakesConsumed
<1>6. IInv'
  BY <1>3, <1>4, StartsAgain
<1> QED BY <1>5, <1>6 DEF Step

LEMMA OneIsLexeme ==
  ASSUME NEW c \in T!Char, NEW s, s = << c >>
  PROVE  /\ s \in Seq(T!Char) /\ s # << >> /\ Len(s) = 1 /\ s[1] = c /\ DOMAIN s = {1}
         /\ c \in {" ", "nl", "~", "backslash", "?"} => T!Lexeme(s) /\ T!Skipped(s)
         /\ c \in {"+", "-", "=", "<"} => T!Lexeme(s) /\ s \in T!Operator
<1>1. s \in Seq(T!Char) /\ s # << >> /\ Len(s) = 1 /\ s[1] = c /\ DOMAIN s = {1}
  OBVIOUS
<1>2. c \in {" ", "nl", "~", "backslash", "?"} => T!Skipped(s)
  BY <1>1 DEF T!Skipped, T!Blank
<1>3. c \in {"+", "-", "=", "<"} => s \in T!Operator
  BY DEF T!Operator
<1> QED BY <1>1, <1>2, <1>3 DEF T!Lexeme

LEMMA SkipStep == ASSUME IInv, skip_whitespace \/ unknownCharacter PROVE Step
<1> DEFINE s == << current_char >>
           n == IF current_char = "nl" THEN 1 ELSE 0
<1>1. /\ state = "yylex" /\ current_char \in {" ", "nl", "backslash", "?"}
      /\ consume_char /\ skip(n)
  BY DEF skip_whitespace, unknownCharacter, Looking, T!Blank, UnknownConsumed
<1>2. current_char \in T!Char
  BY <1>1 DEF T!Char
<1>3. s \in Seq(T!Char) /\ s # << >> /\ s[1] = current_char /\ T!Lexeme(s) /\ T!Skipped(s)
  BY <1>1, <1>2, OneIsLexeme
<1>4. \A c \in T!Char : ~T!Lexeme(Append(s, c))
  BY <1>1, <1>3, NotLonger
<1>5. s = << "nl" >> <=> current_char = "nl"
  OBVIOUS
<1> QED BY <1>1, <1>2, <1>3, <1>4, <1>5, AtOnce DEF skip

LEMMA SingleStep == ASSUME IInv, singleCharacter PROVE Step
<1> DEFINE s == << current_char >>
<1>1. /\ state = "yylex" /\ current_char = "+" /\ consume_char /\ return("operator", s)
  BY DEF singleCharacter, Looking
<1>2. current_char \in T!Char
  BY <1>1 DEF T!Char
<1>3. s \in Seq(T!Char) /\ s # << >> /\ s[1] = current_char /\ T!Lexeme(s) /\ s \in T!Operator
  BY <1>1, <1>2, OneIsLexeme
<1>4. \A c \in T!Char : ~T!Lexeme(Append(s, c))
  BY <1>1, <1>3, NotLonger
<1>5. ~T!Skipped(s) /\ T!Token(s) = [kind |-> "operator", text |-> s]
  BY <1>3, TokenIs
<1>6. s # << "nl" >> /\ yylineno \in Int
  BY <1>1 DEF IInv, Typed
<1> QED BY <1>1, <1>2, <1>3, <1>4, <1>5, <1>6, AtOnce DEF return

LEMMA FirstStep == ASSUME IInv, firstCharacter PROVE Step
<1> DEFINE c == current_char
<1>1. /\ state = "yylex" /\ c \in {"-", "=", "~", "<"} /\ consume_char
      /\ state' = c /\ UNCHANGED << text, start, tokens, yytext, yylineno >>
  BY DEF firstCharacter, Looking, goto
<1>2. c \in T!Char /\ c \in State \ {"done"}
  BY <1>1 DEF T!Char, State
<1>3. yytext \in Seq(Glyph) /\ Len(yytext) <= TextMax
  BY DEF IInv, Typed
<1>4. Typed' /\ Buffered' /\ Consumed' = Append(Consumed, c)
  BY <1>1, <1>2, <1>3, GoesOnConsumed
<1>5. Consumed = << >>
  BY <1>1 DEF IInv, Accepted
<1>6. Consumed' = << state' >>
  BY <1>1, <1>4, <1>5
<1>7. Accepted(Consumed)'
  BY <1>1, <1>6 DEF Accepted
<1> QED BY <1>1, <1>4, <1>7, NoToken DEF Step, IInv

LEMMA SecondStep == ASSUME IInv, secondCharacter PROVE Step
<1> DEFINE c == current_char
           s == Consumed
<1>0. /\ state \in {"-", "=", "~", "<"} /\ state # "done" /\ c # Unread /\ c \in Anything
      /\ s = << state >> /\ yylineno \in Int
  <2>1. state \in {"-", "=", "~", "<"} /\ c # Unread
    BY DEF secondCharacter, Looking
  <2> QED BY <2>1 DEF IInv, Typed, Accepted
<1>1. /\ s \in Seq(Anything) /\ s # << >> /\ Len(s) = 1 /\ s[1] = state /\ DOMAIN s = {1}
      /\ state \in T!Char /\ T!Lexeme(s)
      /\ state = "~" => T!Skipped(s)
      /\ state # "~" => s \in T!Operator
  <2>1. state \in T!Char
    BY <1>0 DEF T!Char
  <2>2. /\ s \in Seq(T!Char) /\ s # << >> /\ Len(s) = 1 /\ s[1] = state /\ DOMAIN s = {1}
        /\ state \in {" ", "nl", "~", "backslash", "?"} => T!Lexeme(s) /\ T!Skipped(s)
        /\ state \in {"+", "-", "=", "<"} => T!Lexeme(s) /\ s \in T!Operator
    <3>1. s = << state >>
      BY <1>0
    <3> HIDE DEF s
    <3> QED BY <2>1, <3>1, OneIsLexeme
  <2>3. s \in Seq(Anything)
    BY <2>2, SeqMonotonic DEF Anything
  <2> QED BY <1>0, <2>1, <2>2, <2>3
<1>2. s # << "nl" >>
  BY <1>0
<1> HIDE DEF s
<1>3. CASE /\ state \in {"=", "~", "<"} /\ c = "="
           /\ consume_char /\ return("operator", << state, "=" >>)
  <2> DEFINE t == << state, "=" >>
  <2>1. c \in T!Char
    BY <1>3 DEF T!Char
  <2>2. t = Append(s, c)
    BY <1>0, <1>3
  <2>3. t \in Seq(T!Char) /\ t # << >> /\ Len(t) = 2 /\ t[1] = state /\ t[2] = "=" /\ DOMAIN t = 1 .. 2
    BY <1>1, <1>3, <2>1
  <2>4. t \in T!Operator
    BY <1>3 DEF T!Operator
  <2>5. T!Lexeme(t)
    BY <1>1, <2>1, <2>3, <2>4, <1>3 DEF T!Lexeme
  <2>6. ~T!Skipped(t) /\ T!Token(t) = [kind |-> "operator", text |-> t]
    BY <2>3, <2>4, TokenIs
  <2>7. \A d \in T!Char : ~T!Lexeme(Append(t, d))
    BY <1>3, <2>3, NotLonger
  <2>8. t # << "nl" >>
    BY <2>3
  <2>9. /\ text' = text /\ start' = consumed' /\ consumed' = consumed + 1 /\ state' = "yylex"
        /\ yytext' = yytext /\ yylineno' = yylineno
        /\ tokens' = Append(tokens, [kind |-> "operator", text |-> t])
    BY <1>3 DEF return, consume_char
  <2>10. c # T!Eof
    BY <2>1 DEF T!Char, T!Eof
  <2>11. yylineno' \in Nat
    BY <2>9 DEF IInv, Typed
  <2>12. IInv'
    BY <1>0, <1>3, <2>9, <2>10, <2>11, StartsAgain
  <2> HIDE DEF t
  <2>13. /\ yylineno' = yylineno + IF t = << "nl" >> THEN 1 ELSE 0
         /\ tokens' = IF T!Skipped(t) THEN tokens ELSE Append(tokens, T!Token(t))
         /\ start' = consumed + 1 /\ t = Append(Consumed, current_char)
    BY <1>0, <2>2, <2>6, <2>8, <2>9 DEF s
  <2>14. T!Next
    BY <1>0, <2>1, <2>5, <2>7, <2>9, <2>13, TakesConsumed
  <2> QED BY <2>12, <2>14 DEF Step
<1>4. CASE /\ state \in {"-", "=", "<"} /\ (IF state = "-" THEN c # "-" ELSE c # "=")
           /\ keep_char /\ return("operator", << state >>)
  <2>1. ~T!Lexeme(Append(s, c))
    BY <1>0, <1>1, <1>4, NotLonger
  <2>2. ~T!Skipped(s) /\ T!Token(s) = [kind |-> "operator", text |-> s]
    BY <1>1, <1>4, TokenIs
  <2>3. /\ text' = text /\ start' = consumed' /\ start' = consumed /\ state' = "yylex"
        /\ yytext' = yytext /\ yylineno' = yylineno
        /\ tokens' = Append(tokens, [kind |-> "operator", text |-> s])
    BY <1>0, <1>4 DEF return, keep_char
  <2>4. yylineno' \in Nat
    BY <2>3 DEF IInv, Typed
  <2>5. IInv'
    BY <1>0, <1>4, <2>3, <2>4, StartsAgain
  <2>6. T!Next
    BY <1>0, <1>1, <1>2, <2>1, <2>2, <2>3, TakesKept DEF s
  <2> QED BY <2>5, <2>6 DEF Step
<1>5. CASE state = "~" /\ c # "=" /\ keep_char /\ skip(0)
  <2>1. ~T!Lexeme(Append(s, c))
    BY <1>0, <1>1, <1>5, NotLonger
  <2>2. /\ text' = text /\ start' = consumed' /\ start' = consumed /\ state' = "yylex"
        /\ yytext' = yytext /\ yylineno' = yylineno + 0 /\ tokens' = tokens
    BY <1>5 DEF skip, keep_char
  <2>3. yylineno' \in Nat
    BY <2>2 DEF IInv, Typed
  <2>4. IInv'
    BY <1>0, <1>5, <2>2, <2>3, StartsAgain
  <2>5. T!Next
    BY <1>0, <1>1, <1>2, <1>5, <2>1, <2>2, TakesKept DEF s
  <2> QED BY <2>4, <2>5 DEF Step
<1> QED BY <1>3, <1>4, <1>5 DEF secondCharacter, Looking

LEMMA CommentStep == ASSUME IInv, skip_line_comment PROVE Step
<1> DEFINE c == current_char
           s == Consumed
<1>0. /\ state \in {"-", "comment"} /\ state # "done" /\ c # Unread /\ c \in Anything
      /\ yylineno \in Int /\ s \in Seq(T!Char) /\ s \in Seq(Anything) /\ Len(s) \in Nat
      /\ DOMAIN s = 1 .. Len(s) /\ yytext \in Seq(Glyph) /\ Len(yytext) <= TextMax
      /\ Accepted(s)
  <2>1. state \in {"-", "comment"} /\ c # Unread
    BY DEF skip_line_comment, Looking
  <2>2. s \in Seq(T!Char) /\ Typed
    BY <2>1, ConsumedTyped DEF IInv
  <2>3. s \in Seq(Anything)
    BY <2>2, SeqMonotonic DEF Anything
  <2> HIDE DEF s
  <2> QED BY <2>1, <2>2, <2>3, LenProperties DEF IInv, Typed, s
<1> HIDE DEF s
<1>1. ASSUME NEW t, t = Append(s, c), c \in T!Char, consume_char, goto("comment", yytext),
             Len(t) >= 2, t[1] = "-", t[2] = "-", \A i \in DOMAIN t : t[i] # "nl"
      PROVE  Step
  <2>1. /\ state' = "comment" /\ yytext' = yytext
        /\ UNCHANGED << text, start, tokens, yylineno >>
    BY <1>1 DEF goto
  <2>2. "comment" \in State \ {"done"}
    BY DEF State
  <2>3. Typed' /\ Buffered' /\ Consumed' = t
    BY <1>0, <1>1, <2>1, <2>2, GoesOnConsumed DEF s
  <2>4. Accepted(Consumed)'
    BY <1>1, <2>1, <2>3 DEF Accepted
  <2> QED BY <2>1, <2>3, <2>4, NoToken DEF Step, IInv
<1>2. CASE state = "-" /\ c = "-" /\ consume_char /\ goto("comment", yytext)
  <2> DEFINE t == Append(s, c)
  <2>1. s = << "-" >>
    BY <1>0, <1>2 DEF Accepted
  <2>2. Len(s) = 1 /\ s[1] = "-"
    BY <2>1
  <2>3. c \in T!Char
    BY <1>2 DEF T!Char
  <2>4. Len(t) = 2 /\ Len(t) >= 2 /\ t[1] = "-" /\ t[2] = "-" /\ DOMAIN t = 1 .. 2
    <3>1. /\ Len(t) = Len(s) + 1 /\ t[Len(s) + 1] = c /\ \A i \in 1 .. Len(s) : t[i] = s[i]
          /\ DOMAIN t = 1 .. Len(s) + 1
      BY <1>0, <2>3, Appended DEF Agree
    <3> QED BY <1>2, <2>2, <3>1
  <2> HIDE DEF t
  <2>5. \A i \in DOMAIN t : t[i] # "nl"
    BY <2>4
  <2> QED BY <1>1, <1>2, <2>3, <2>4, <2>5 DEF t
<1>3. CASE state = "comment" /\ c \in T!Char \ {"nl"} /\ consume_char /\ goto("comment", yytext)
  <2> DEFINE t == Append(s, c)
  <2>1. Len(s) >= 2 /\ s[1] = "-" /\ s[2] = "-" /\ \A i \in DOMAIN s : s[i] # "nl"
    BY <1>0, <1>3 DEF Accepted
  <2>2. /\ Len(t) = Len(s) + 1 /\ t[Len(s) + 1] = c /\ \A i \in 1 .. Len(s) : t[i] = s[i]
        /\ DOMAIN t = 1 .. Len(s) + 1
    BY <1>0, <1>3, Appended DEF Agree
  <2> HIDE DEF t
  <2>3. \A i \in DOMAIN t : t[i] # "nl"
    <3>1. \A i \in 1 .. Len(s) + 1 : i \in 1 .. Len(s) \/ i = Len(s) + 1
      BY <1>0
    <3> QED BY <1>0, <1>3, <2>1, <2>2, <3>1
  <2>4. Len(t) >= 2 /\ t[1] = "-" /\ t[2] = "-"
    BY <1>0, <2>1, <2>2
  <2> QED BY <1>1, <1>3, <2>3, <2>4 DEF t
<1>4. CASE state = "comment" /\ c \in {"nl", T!Eof} /\ keep_char /\ skip(0)
  <2>1. Len(s) >= 2 /\ s[1] = "-" /\ s[2] = "-" /\ \A i \in DOMAIN s : s[i] # "nl"
    BY <1>0, <1>4 DEF Accepted
  <2>2. s # << >> /\ s # << "nl" >>
    BY <2>1, OneCharacter, <1>0, EmptySeq
  <2>3. T!Skipped(s)
    BY <1>0, <2>1 DEF T!Skipped
  <2>4. T!Lexeme(s)
    BY <1>0, <2>2, <2>3, ElementOfSeq DEF T!Lexeme
  <2>5. ~T!Lexeme(Append(s, c))
    BY <1>0, <1>4, <2>1, <2>2, NotLonger
  <2>6. /\ text' = text /\ start' = consumed' /\ start' = consumed /\ state' = "yylex"
        /\ yytext' = yytext /\ yylineno' = yylineno + 0 /\ tokens' = tokens
    BY <1>4 DEF skip, keep_char
  <2>7. yylineno' \in Nat
    BY <2>6 DEF IInv, Typed
  <2>8. IInv'
    BY <1>0, <1>4, <2>6, <2>7, StartsAgain
  <2>9. T!Next
    BY <1>0, <2>2, <2>3, <2>4, <2>5, <2>6, TakesKept DEF s
  <2> QED BY <2>8, <2>9 DEF Step
<1> QED BY <1>2, <1>3, <1>4 DEF skip_line_comment, Looking

\* What the scan of numbers, of words and of strings have in common: `c' looked at, `s' the
\* lexeme so far.
LEMMA Scanning ==
  ASSUME IInv, state \in {"yylex", "number", "word", "string", "escape"}, current_char # Unread
  PROVE  /\ state # "done" /\ current_char \in Anything /\ yylineno \in Nat
         /\ Consumed \in Seq(T!Char) /\ Consumed \in Seq(Anything) /\ Len(Consumed) \in Nat
         /\ DOMAIN Consumed = 1 .. Len(Consumed)
         /\ Accepted(Consumed)
         /\ (state = "yylex" => Consumed = << >>)
<1> DEFINE s == Consumed
<1>1. s \in Seq(T!Char) /\ Typed
  BY ConsumedTyped DEF IInv
<1>2. s \in Seq(Anything)
  BY <1>1, SeqMonotonic DEF Anything
<1>3. Accepted(s)
  BY DEF IInv
<1>4. state = "yylex" => s = << >>
  BY <1>3 DEF Accepted
<1> HIDE DEF s
<1>5. Len(s) \in Nat /\ DOMAIN s = 1 .. Len(s)
  BY <1>1, LenProperties
<1> QED BY <1>1, <1>2, <1>3, <1>4, <1>5 DEF Typed, s

LEMMA KeptNothing ==
  T!Kept(<< >>) = << >> /\ << >> \in Seq(Glyph) /\ Len(<< >>) <= TextMax
<1>1. << >> \in Seq(Glyph) /\ Len(<< >>) = 0
  OBVIOUS
<1> DEFINE e == << >>
<1> HIDE DEF e
<1>2. T!Kept(e) \in Seq(Glyph) /\ Len(T!Kept(e)) = IF 0 < TextMax THEN 0 ELSE TextMax
  BY <1>1, KeptTyped DEF e
<1>3. Len(T!Kept(e)) = 0
  BY <1>2, TextAssumption
<1>4. T!Kept(e) = << >>
  BY <1>2, <1>3, EmptySeq
<1> QED BY <1>1, <1>4, TextAssumption DEF e

\* yytext after one more character, of a number or of a word.
LEMMA KeptNext ==
  ASSUME NEW s \in Seq(T!Char), NEW c \in T!Char
  PROVE  /\ Stored(T!Kept(s), c) = T!Kept(Append(s, c))
         /\ T!Kept(Append(s, c)) \in Seq(Glyph) /\ Len(T!Kept(Append(s, c))) <= TextMax
<1>1. Append(s, c) \in Seq(T!Char)
  BY AppendProperties
<1>2. Append(s, c) \in Seq(Glyph)
  BY <1>1, SeqMonotonic DEF Glyph
<1> QED BY <1>1, <1>2, StoredIsKept, KeptTyped

LEMMA NumberStep == ASSUME IInv, scan_number PROVE Step
<1> DEFINE c == current_char
           s == Consumed
<1>0. state \in {"yylex", "number"} /\ c # Unread
  BY DEF scan_number, Looking
<1>1. /\ state # "done" /\ c \in Anything /\ yylineno \in Nat
      /\ s \in Seq(T!Char) /\ s \in Seq(Anything) /\ Len(s) \in Nat /\ DOMAIN s = 1 .. Len(s)
      /\ Accepted(s) /\ (state = "yylex" => s = << >>)
  BY <1>0, Scanning
<1> HIDE DEF s
<1>2. CASE state = "yylex" /\ c \in T!Digit /\ keep_char /\ goto("number", << >>)
  <2>1. /\ state' = "number" /\ state' \in State \ {"done"} /\ yytext' = << >>
        /\ UNCHANGED << text, start, tokens, yylineno >> /\ c' = c
    BY <1>2 DEF goto, State, keep_char
  <2>2. Typed' /\ Buffered' /\ Consumed' = << >>
    BY <1>0, <1>1, <1>2, <2>1, KeptNothing, GoesOnKept DEF s
  <2>3. T!Integer(<< >>)
    BY DEF T!Integer
  <2>4. Accepted(Consumed)'
    BY <1>2, <2>1, <2>2, <2>3, KeptNothing DEF Accepted
  <2> QED BY <2>1, <2>2, <2>4, NoToken DEF Step, IInv
<1>3. CASE state = "number" /\ c \in T!Digit /\ consume_char /\ goto("number", Stored(yytext, c))
  <2> DEFINE t == Append(s, c)
  <2>1. c \in T!Char
    BY <1>3 DEF T!Digit, T!Char
  <2>2. T!Integer(s) /\ yytext = T!Kept(s)
    BY <1>1, <1>3 DEF Accepted
  <2>3. /\ t # << >> /\ t[Len(s) + 1] = c /\ \A i \in 1 .. Len(s) : t[i] = s[i]
        /\ DOMAIN t = 1 .. Len(s) + 1 /\ Len(t) = Len(s) + 1 /\ t \in Seq(T!Char)
    BY <1>1, <2>1, Appended, AppendProperties DEF Agree
  <2>4. Stored(yytext, c) = T!Kept(t) /\ T!Kept(t) \in Seq(Glyph) /\ Len(T!Kept(t)) <= TextMax
    BY <1>1, <2>1, <2>2, KeptNext
  <2>5. /\ state' = "number" /\ state' \in State \ {"done"} /\ yytext' = Stored(yytext, c)
        /\ UNCHANGED << text, start, tokens, yylineno >>
    BY <1>3 DEF goto, State
  <2>6. Typed' /\ Buffered' /\ Consumed' = t
    BY <1>1, <1>3, <2>1, <2>4, <2>5, GoesOnConsumed DEF s
  <2> HIDE DEF t
  <2>7. T!Integer(t)
    <3>1. \A i \in 1 .. Len(s) + 1 : i \in 1 .. Len(s) \/ i = Len(s) + 1
      BY <1>1
    <3> QED BY <1>1, <1>3, <2>2, <2>3, <3>1 DEF T!Integer
  <2>8. Accepted(Consumed)'
    BY <2>3, <2>4, <2>5, <2>6, <2>7 DEF Accepted
  <2> QED BY <2>5, <2>6, <2>8, NoToken DEF Step, IInv
<1>4. CASE state = "number" /\ c \notin T!Digit /\ keep_char /\ return("INTEGER", yytext)
  <2>1. T!Integer(s) /\ yytext = T!Kept(s) /\ s # << >>
    BY <1>1, <1>4 DEF Accepted
  <2>2. T!Lexeme(s) /\ s[1] = "1" /\ s # << "nl" >>
    <3>1. s[1] = "1"
      BY <1>1, <2>1, FirstCharacter
    <3>2. s # << "nl" >>
      BY <1>1, <3>1, OneCharacter
    <3> QED BY <1>1, <2>1, <3>1, <3>2, ElementOfSeq DEF T!Lexeme
  <2>3. ~T!Skipped(s) /\ T!Token(s) = [kind |-> "INTEGER", text |-> yytext]
    BY <1>1, <2>1, TokenIs
  <2>4. ~T!Lexeme(Append(s, c))
    BY <1>1, <1>4, <2>1, <2>2, NotLonger
  <2>5. /\ text' = text /\ start' = consumed' /\ start' = consumed /\ state' = "yylex"
        /\ yytext' = yytext /\ yylineno' = yylineno
        /\ tokens' = Append(tokens, [kind |-> "INTEGER", text |-> yytext])
    BY <1>4 DEF return, keep_char
  <2>6. IInv'
    BY <1>0, <1>1, <1>4, <2>5, StartsAgain
  <2>7. yylineno' = yylineno + (IF s = << "nl" >> THEN 1 ELSE 0)
    BY <1>1, <2>2, <2>5
  <2>8. T!Next
    BY <1>0, <1>1, <2>2, <2>3, <2>4, <2>5, <2>7, TakesKept DEF s
  <2> QED BY <2>6, <2>8 DEF Step
<1> QED BY <1>2, <1>3, <1>4 DEF scan_number, Looking

\* What is kept of a word tells whether it is a keyword: no keyword fills yytext.
LEMMA KeptKeyword ==
  ASSUME NEW s \in Seq(T!Char)
  PROVE  /\ T!Kept(s) \in T!Keyword <=> s \in T!Keyword
         /\ s \in T!Keyword => T!Kept(s) = s
<1> DEFINE k == T!Kept(s)
<1>1. /\ k \in Seq(T!Char) /\ Len(s) \in Nat
      /\ Len(k) = IF Len(s) < TextMax THEN Len(s) ELSE TextMax
      /\ \A i \in 1 .. Len(k) : k[i] = s[i]
  BY KeptTyped
<1> HIDE DEF k
<1>2. TextMax \in Nat /\ TextMax > 2
  <2>1. << "o", "r" >> \in T!Keyword /\ Len(<< "o", "r" >>) = 2
    BY DEF T!Keyword
  <2> QED BY <2>1, TextAssumption
<1>3. Len(k) = 2 <=> Len(s) = 2
  BY <1>1, <1>2
<1>4. Len(s) = 2 => k[1] = s[1] /\ k[2] = s[2]
  <2>1. Len(s) = 2 => 1 \in 1 .. Len(k) /\ 2 \in 1 .. Len(k)
    BY <1>3
  <2> QED BY <1>1, <2>1
<1>5. k \in T!Keyword <=> s \in T!Keyword
  BY <1>1, <1>3, <1>4, KeywordIs
<1>6. s \in T!Keyword => k = s
  <2>1. s \in T!Keyword => Len(s) = 2
    BY KeywordIs
  <2>2. Len(s) = 2 => Len(k) = Len(s) /\ \A i \in 1 .. Len(k) : k[i] = s[i]
    BY <1>1, <1>3
  <2> QED BY <1>1, <2>1, <2>2, SeqEqual
<1> QED BY <1>5, <1>6 DEF k

LEMMA WordStep == ASSUME IInv, scan_identifier_or_keyword PROVE Step
<1> DEFINE c == current_char
           s == Consumed
           InWord == T!Letter \cup T!Digit
<1>0. state \in {"yylex", "word"} /\ c # Unread
  BY DEF scan_identifier_or_keyword, Looking
<1>1. /\ state # "done" /\ c \in Anything /\ yylineno \in Nat
      /\ s \in Seq(T!Char) /\ s \in Seq(Anything) /\ Len(s) \in Nat /\ DOMAIN s = 1 .. Len(s)
      /\ Accepted(s) /\ (state = "yylex" => s = << >>)
  BY <1>0, Scanning
<1> HIDE DEF s
<1>2. CASE state = "yylex" /\ c \in T!Letter /\ keep_char /\ goto("word", << >>)
  <2>1. /\ state' = "word" /\ state' \in State \ {"done"} /\ yytext' = << >>
        /\ UNCHANGED << text, start, tokens, yylineno >> /\ c' = c
    BY <1>2 DEF goto, State, keep_char
  <2>2. Typed' /\ Buffered' /\ Consumed' = << >>
    BY <1>0, <1>1, <1>2, <2>1, KeptNothing, GoesOnKept DEF s
  <2>3. Accepted(Consumed)'
    BY <1>2, <2>1, <2>2, KeptNothing DEF Accepted
  <2> QED BY <2>1, <2>2, <2>3, NoToken DEF Step, IInv
<1>3. CASE state = "word" /\ c \in InWord /\ consume_char /\ goto("word", Stored(yytext, c))
  <2> DEFINE t == Append(s, c)
  <2>1. c \in T!Char
    BY <1>3 DEF T!Digit, T!Letter, T!Char
  <2>2. /\ \A i \in DOMAIN s : s[i] \in InWord
        /\ IF s = << >> THEN c \in T!Letter ELSE s[1] \in T!Letter
        /\ yytext = T!Kept(s)
    BY <1>1, <1>3 DEF Accepted
  <2>3. /\ t # << >> /\ t[Len(s) + 1] = c /\ \A i \in 1 .. Len(s) : t[i] = s[i]
        /\ DOMAIN t = 1 .. Len(s) + 1
    BY <1>1, <2>1, Appended, AppendProperties DEF Agree
  <2>4. Stored(yytext, c) = T!Kept(t) /\ T!Kept(t) \in Seq(Glyph) /\ Len(T!Kept(t)) <= TextMax
    BY <1>1, <2>1, <2>2, KeptNext
  <2>5. /\ state' = "word" /\ state' \in State \ {"done"} /\ yytext' = Stored(yytext, c)
        /\ UNCHANGED << text, start, tokens, yylineno >>
    BY <1>3 DEF goto, State
  <2>6. Typed' /\ Buffered' /\ Consumed' = t
    BY <1>1, <1>3, <2>1, <2>4, <2>5, GoesOnConsumed DEF s
  <2> HIDE DEF t
  <2>7. \A i \in DOMAIN t : t[i] \in InWord
    <3>1. \A i \in 1 .. Len(s) + 1 : i \in 1 .. Len(s) \/ i = Len(s) + 1
      BY <1>1
    <3> QED BY <1>1, <1>3, <2>2, <2>3, <3>1
  <2>8. t[1] \in T!Letter
    <3>1. CASE s = << >>
      <4>1. Len(s) = 0
        BY <3>1
      <4> QED BY <2>2, <2>3, <3>1, <4>1
    <3>2. CASE s # << >>
      <4>1. 1 \in 1 .. Len(s)
        BY <1>1, <3>2, FirstCharacter
      <4> QED BY <2>2, <2>3, <3>2, <4>1
    <3> QED BY <3>1, <3>2
  <2>9. Accepted(Consumed)'
    BY <2>3, <2>4, <2>5, <2>6, <2>7, <2>8 DEF Accepted
  <2> QED BY <2>5, <2>6, <2>9, NoToken DEF Step, IInv
<1>4. CASE /\ state = "word" /\ c \notin InWord /\ keep_char
           /\ return(IF yytext \in T!Keyword THEN "keyword" ELSE "IDENTIFIER", yytext)
  <2>1. /\ \A i \in DOMAIN s : s[i] \in InWord
        /\ IF s = << >> THEN c \in T!Letter ELSE s[1] \in T!Letter
        /\ yytext = T!Kept(s)
    BY <1>1, <1>4 DEF Accepted
  <2>2. s # << >> /\ T!Word(s) /\ s[1] \in {"o", "r"}
    BY <1>4, <2>1 DEF T!Word, T!Letter
  <2>3. T!Lexeme(s) /\ s # << "nl" >>
    <3>1. s # << "nl" >>
      BY <1>1, <2>2, OneCharacter
    <3> QED BY <1>1, <2>2, <3>1, ElementOfSeq DEF T!Lexeme
  <2>4. /\ ~T!Skipped(s)
        /\ T!Token(s) = [kind |-> IF yytext \in T!Keyword THEN "keyword" ELSE "IDENTIFIER",
                         text |-> yytext]
    <3>1. /\ ~T!Skipped(s)
          /\ T!Token(s) = IF s \in T!Keyword THEN [kind |-> "keyword", text |-> s]
                          ELSE [kind |-> "IDENTIFIER", text |-> T!Kept(s)]
      BY <1>1, <2>2, TokenIs
    <3>2. /\ yytext \in T!Keyword <=> s \in T!Keyword
          /\ s \in T!Keyword => yytext = s
      BY <1>1, <2>1, KeptKeyword
    <3> QED BY <2>1, <3>1, <3>2
  <2>5. ~T!Lexeme(Append(s, c))
    BY <1>1, <1>4, <2>2, NotLonger
  <2>6. /\ text' = text /\ start' = consumed' /\ start' = consumed /\ state' = "yylex"
        /\ yytext' = yytext /\ yylineno' = yylineno
        /\ tokens' = Append(tokens, [kind |-> IF yytext \in T!Keyword THEN "keyword" ELSE "IDENTIFIER",
                                     text |-> yytext])
    BY <1>4 DEF return, keep_char
  <2>7. IInv'
    BY <1>0, <1>1, <1>4, <2>6, StartsAgain
  <2>8. yylineno' = yylineno + (IF s = << "nl" >> THEN 1 ELSE 0)
    BY <1>1, <2>3, <2>6
  <2>9. T!Next
    BY <1>0, <1>1, <2>3, <2>4, <2>5, <2>6, <2>8, TakesKept DEF s
  <2> QED BY <2>7, <2>9 DEF Step
<1> QED BY <1>2, <1>3, <1>4 DEF scan_identifier_or_keyword, Looking

LEMMA OpenIsString ==
  ASSUME NEW s \in Seq(T!Char), Open(s)
  PROVE  T!String(s) /\ T!Lexeme(s) /\ s # << >> /\ s # << "nl" >>
<1>1. s # << >> /\ s[1] = "quote" /\ DOMAIN s = 1 .. Len(s)
  BY LenProperties DEF Open
<1>2. T!String(s)
  BY <1>1 DEF Open, T!String
<1>3. s # << "nl" >>
  BY <1>1, OneCharacter
<1> QED BY <1>1, <1>2, <1>3, ElementOfSeq DEF T!Lexeme

\* A string that the quote closes, and nothing makes longer.
LEMMA Closed ==
  ASSUME NEW s \in Seq(T!Char), Open(s), ~Escapes(s), NEW t, t = Append(s, "quote")
  PROVE  /\ t \in Seq(T!Char) /\ T!String(t) /\ T!Lexeme(t) /\ t # << >> /\ t # << "nl" >>
         /\ T!Contents(t) = T!Contents(s)
         /\ \A d \in T!Char : ~T!Lexeme(Append(t, d))
<1> DEFINE n == Len(s)
<1>0. "quote" \in T!Char
  BY DEF T!Char
<1>1. /\ t \in Seq(T!Char) /\ t # << >> /\ n \in Nat /\ n >= 1 /\ Len(t) = n + 1
      /\ t[n + 1] = "quote" /\ \A i \in 1 .. n : t[i] = s[i]
      /\ \A i \in 1 .. n + 1 : T!Escaped(t, i) <=> T!Escaped(s, i)
      /\ DOMAIN t = 1 .. n + 1
  BY <1>0, Appended, EmptySeq DEF Open, Agree
<1>2. s[1] = "quote" /\ \A i \in 2 .. n : s[i] \in {"nl", "quote"} => T!Escaped(s, i)
  BY DEF Open
<1>3. ~T!Escaped(t, n + 1)
  BY <1>1 DEF Escapes
<1>4. T!Contents(t) = T!Contents(s)
  BY <1>0, ContentsNext
<1> HIDE DEF n
<1>5. T!String(t)
  <2>1. ASSUME NEW i \in 2 .. n + 1
        PROVE  /\ t[i] = "nl" => T!Escaped(t, i)
               /\ t[i] = "quote" => T!Escaped(t, i) \/ i = n + 1
    <3>1. CASE i = n + 1
      BY <1>1, <3>1
    <3>2. CASE i \in 2 .. n
      BY <1>1, <1>2, <3>2
    <3> QED BY <1>1, <3>1, <3>2
  <2>2. t[1] = "quote"
    BY <1>1, <1>2
  <2> QED BY <1>1, <2>1, <2>2 DEF T!String
<1>6. T!Lexeme(t)
  BY <1>1, <1>5, ElementOfSeq DEF T!Lexeme
<1>7. t # << "nl" >>
  BY <1>1, <1>2, OneCharacter
<1>8. ASSUME NEW d \in T!Char
      PROVE  ~T!Lexeme(Append(t, d))
  <2> DEFINE u == Append(t, d)
  <2>1. /\ u \in Seq(T!Char) /\ u # << >> /\ Len(u) = (n + 1) + 1
        /\ \A i \in 1 .. n + 1 : u[i] = t[i]
        /\ \A i \in 1 .. (n + 1) + 1 : T!Escaped(u, i) <=> T!Escaped(t, i)
    <3>1. /\ u \in Seq(T!Char) /\ u # << >> /\ Len(u) = Len(t) + 1
          /\ \A i \in 1 .. Len(t) : u[i] = t[i]
          /\ \A i \in 1 .. Len(t) + 1 : T!Escaped(u, i) <=> T!Escaped(t, i)
      <4>1. t \in Seq(T!Char) /\ d \in T!Char
        BY <1>1
      <4> QED BY ONLY <4>1, Appended, AppendProperties DEF Agree
    <3> HIDE DEF u
    <3> QED BY <1>1, <3>1
  <2> HIDE DEF u
  <2>2. n + 1 \in 2 .. Len(u) /\ n + 1 \in 1 .. n + 1 /\ n + 1 # Len(u) /\ n + 1 \in 1 .. (n + 1) + 1
        /\ 1 \in 1 .. n + 1
    BY <1>1, <2>1
  <2>3. ~T!String(u)
    BY <1>1, <1>3, <2>1, <2>2 DEF T!String
  <2>4. u[1] = "quote"
    BY <1>1, <1>2, <2>1, <2>2
  <2> QED BY <2>1, <2>3, <2>4, LexemeIs DEF u
<1> QED BY <1>1, <1>4, <1>5, <1>6, <1>7, <1>8

LEMMA StringStep == ASSUME IInv, scan_string PROVE Step
<1> DEFINE c == current_char
           s == Consumed
<1>0. state \in {"yylex", "string", "escape"} /\ c # Unread
  BY DEF scan_string, Looking
<1>1. /\ state # "done" /\ c \in Anything /\ yylineno \in Nat
      /\ s \in Seq(T!Char) /\ s \in Seq(Anything) /\ Len(s) \in Nat /\ DOMAIN s = 1 .. Len(s)
      /\ Accepted(s) /\ (state = "yylex" => s = << >>)
  BY <1>0, Scanning
<1>2. yytext \in Seq(Glyph) /\ Len(yytext) <= TextMax
  BY DEF IInv, Typed
<1> HIDE DEF s
<1>3. state = "string" => /\ Open(s) /\ (Escapes(s) => c = T!Eof)
                          /\ yytext = T!Kept(T!Contents(s))
  BY <1>1 DEF Accepted
<1>4. state = "escape" => Open(s) /\ Escapes(s) /\ yytext = T!Kept(T!Contents(WithoutLast(s)))
  BY <1>1 DEF Accepted
<1>5. \* The string goes on, with one more character.
      ASSUME NEW t, t = Append(s, c), c \in T!Char, consume_char, Open(t),
             NEW z, NEW y, goto(z, y), y \in Seq(Glyph), Len(y) <= TextMax,
             \/ z = "string" /\ ~Escapes(t) /\ y = T!Kept(T!Contents(t))
             \/ z = "escape" /\ Escapes(t) /\ y = T!Kept(T!Contents(WithoutLast(t)))
      PROVE  Step
  <2>1. state' = z /\ yytext' = y /\ UNCHANGED << text, start, tokens, yylineno >>
    BY <1>5 DEF goto
  <2>2. z \in State \ {"done"}
    BY <1>5 DEF State
  <2>3. Typed' /\ Buffered' /\ Consumed' = t
    BY <1>1, <1>5, <2>1, <2>2, GoesOnConsumed DEF s
  <2>4. Accepted(Consumed)'
    BY <1>5, <2>1, <2>3 DEF Accepted
  <2> QED BY <2>1, <2>3, <2>4, NoToken DEF Step, IInv
<1>6. CASE state = "yylex" /\ c = "quote" /\ consume_char /\ goto("string", << >>)
  <2>1. << "quote" >> = Append(s, c) /\ c \in T!Char
    BY <1>1, <1>6 DEF T!Char
  <2> DEFINE t == << "quote" >>
  <2>2. Open(t) /\ ~Escapes(t) /\ T!Contents(t) = << >>
    BY OpenFirst
  <2> HIDE DEF t
  <2>3. << >> = T!Kept(T!Contents(t)) /\ << >> \in Seq(Glyph) /\ Len(<< >>) <= TextMax
    BY <2>2, KeptNothing
  <2>4. t = Append(s, c)
    BY <2>1 DEF t
  <2> QED BY <1>5, <1>6, <2>1, <2>2, <2>3, <2>4
<1>7. CASE state = "string" /\ c \in {"nl", T!Eof} /\ keep_char /\ return("STRING", yytext)
  <2>1. T!String(s) /\ T!Lexeme(s) /\ s # << >> /\ s # << "nl" >>
    BY <1>1, <1>3, <1>7, OpenIsString
  <2>2. ~T!Skipped(s) /\ T!Token(s) = [kind |-> "STRING", text |-> yytext]
    BY <1>1, <1>3, <1>7, <2>1, TokenIs
  <2>3. "nl" # T!Eof
    BY DEF T!Eof
  <2>4. ~T!Lexeme(Append(s, c))
    BY <1>1, <1>3, <1>7, <2>1, <2>3, NotLonger
  <2>5. /\ text' = text /\ start' = consumed' /\ start' = consumed /\ state' = "yylex"
        /\ yytext' = yytext /\ yylineno' = yylineno
        /\ tokens' = Append(tokens, [kind |-> "STRING", text |-> yytext])
    BY <1>7 DEF return, keep_char
  <2>6. IInv'
    BY <1>0, <1>1, <1>7, <2>5, StartsAgain
  <2>7. yylineno' = yylineno + (IF s = << "nl" >> THEN 1 ELSE 0)
    BY <1>1, <2>1, <2>5
  <2>8. T!Next
    BY <1>0, <1>1, <2>1, <2>2, <2>4, <2>5, <2>7, TakesKept DEF s
  <2> QED BY <2>6, <2>8 DEF Step
<1>8. CASE state = "string" /\ c = "quote" /\ consume_char /\ return("STRING", yytext)
  <2> DEFINE t == Append(s, c)
  <2>1. c \in T!Char /\ c # T!Eof
    BY <1>8 DEF T!Char, T!Eof
  <2>2. /\ t \in Seq(T!Char) /\ T!String(t) /\ T!Lexeme(t) /\ t # << >> /\ t # << "nl" >>
        /\ T!Contents(t) = T!Contents(s)
        /\ \A d \in T!Char : ~T!Lexeme(Append(t, d))
    BY <1>1, <1>3, <1>8, <2>1, Closed
  <2>3. ~T!Skipped(t) /\ T!Token(t) = [kind |-> "STRING", text |-> yytext]
    <3>1. yytext = T!Kept(T!Contents(t))
      BY <1>3, <1>8, <2>2
    <3> HIDE DEF t
    <3> QED BY <2>2, <3>1, TokenIs
  <2>4. /\ text' = text /\ start' = consumed' /\ start' = consumed + 1 /\ state' = "yylex"
        /\ yytext' = yytext /\ yylineno' = yylineno
        /\ tokens' = Append(tokens, [kind |-> "STRING", text |-> yytext])
    BY <1>8 DEF return, consume_char
  <2>5. IInv'
    BY <1>0, <1>1, <1>8, <2>1, <2>4, StartsAgain
  <2>6. t = Append(Consumed, current_char)
    BY DEF s
  <2> HIDE DEF t
  <2>7. /\ yylineno' = yylineno + (IF t = << "nl" >> THEN 1 ELSE 0)
        /\ tokens' = IF T!Skipped(t) THEN tokens ELSE Append(tokens, T!Token(t))
    BY <1>1, <2>2, <2>3, <2>4
  <2>8. T!Next
    BY <1>1, <2>1, <2>2, <2>4, <2>6, <2>7, TakesConsumed
  <2> QED BY <2>5, <2>8 DEF Step
<1>9. CASE state = "string" /\ c = "backslash" /\ consume_char /\ goto("escape", yytext)
  <2> DEFINE t == Append(s, c)
  <2>1. c \in T!Char /\ c # T!Eof
    BY <1>9 DEF T!Char, T!Eof
  <2>2. Open(t) /\ Escapes(t)
    BY <1>1, <1>3, <1>9, <2>1, OpenNext
  <2>3. WithoutLast(t) = s
    BY <1>1, <2>1, WithoutAppended
  <2> HIDE DEF t
  <2>4. yytext = T!Kept(T!Contents(WithoutLast(t)))
    BY <1>3, <1>9, <2>3
  <2> QED BY <1>2, <1>5, <1>9, <2>1, <2>2, <2>4 DEF t
<1>10. CASE /\ state = "string" /\ c \in T!Char \ {"nl", "quote", "backslash"}
            /\ consume_char /\ goto("string", Stored(yytext, c))
  <2> DEFINE t == Append(s, c)
             r == T!Contents(s)
  <2>1. c \in T!Char /\ c # T!Eof /\ c \in Glyph /\ c # "backslash" /\ c \notin {"nl", "quote"}
    BY <1>10 DEF T!Char, T!Eof, Glyph
  <2>2. Open(t) /\ ~Escapes(t)
    BY <1>1, <1>3, <1>10, <2>1, OpenNext
  <2>3. T!Contents(t) = Append(r, c)
    BY <1>1, <1>3, <1>10, <2>1, ContentsNext
  <2>4. r \in Seq(Glyph)
    BY <1>1, ContentsTyped
  <2> HIDE DEF t, r
  <2>5. Append(r, c) \in Seq(Glyph) /\ Stored(T!Kept(r), c) = T!Kept(Append(r, c))
    BY <2>1, <2>4, StoredIsKept, AppendProperties
  <2>6. /\ Stored(yytext, c) = T!Kept(T!Contents(t)) /\ Stored(yytext, c) \in Seq(Glyph)
        /\ Len(Stored(yytext, c)) <= TextMax
    BY <1>3, <1>10, <2>3, <2>5, KeptTyped DEF r
  <2> QED BY <1>5, <1>10, <2>1, <2>2, <2>6 DEF t
<1>11. CASE /\ state = "escape" /\ c \in T!Char
            /\ consume_char /\ goto("string", Stored(yytext, T!Unescape(c)))
  <2> DEFINE t == Append(s, c)
             r == T!Contents(WithoutLast(s))
             d == T!Unescape(c)
  <2>1. d \in Glyph
    BY <1>11 DEF T!Unescape, Glyph
  <2>2. Open(t) /\ ~Escapes(t)
    BY <1>1, <1>4, <1>11, OpenNext
  <2>3. T!Contents(t) = Append(r, d)
    BY <1>1, <1>4, <1>11, ContentsEscaped
  <2>4. r \in Seq(Glyph)
    <3>1. WithoutLast(s) \in Seq(T!Char)
      BY <1>1, <1>4, <1>11, StandsEscaped
    <3> QED BY <3>1, ContentsTyped
  <2> HIDE DEF t, r, d
  <2>5. Append(r, d) \in Seq(Glyph) /\ Stored(T!Kept(r), d) = T!Kept(Append(r, d))
    BY <2>1, <2>4, StoredIsKept, AppendProperties
  <2>6. /\ Stored(yytext, d) = T!Kept(T!Contents(t)) /\ Stored(yytext, d) \in Seq(Glyph)
        /\ Len(Stored(yytext, d)) <= TextMax
    BY <1>4, <1>11, <2>3, <2>5, KeptTyped DEF r
  <2> QED BY <1>5, <1>11, <2>2, <2>6 DEF t, d
<1>12. CASE state = "escape" /\ c = T!Eof /\ keep_char /\ goto("string", Stored(yytext, "backslash"))
  <2> DEFINE r == T!Contents(WithoutLast(s))
             b == "backslash"
  <2>1. b \in T!Char /\ b \in Glyph
    BY DEF T!Char, Glyph
  <2>2. T!Contents(s) = Append(r, b)
    BY <1>1, <1>4, <1>12, <2>1, ContentsEscaped
  <2>3. r \in Seq(Glyph)
    <3>1. WithoutLast(s) \in Seq(T!Char)
      BY <1>1, <1>4, <1>12, <2>1, StandsEscaped
    <3> QED BY <3>1, ContentsTyped
  <2> HIDE DEF r, b
  <2>4. Append(r, b) \in Seq(Glyph) /\ Stored(T!Kept(r), b) = T!Kept(Append(r, b))
    BY <2>1, <2>3, StoredIsKept, AppendProperties
  <2>5. /\ Stored(yytext, b) = T!Kept(T!Contents(s)) /\ Stored(yytext, b) \in Seq(Glyph)
        /\ Len(Stored(yytext, b)) <= TextMax
    BY <1>4, <1>12, <2>2, <2>4, KeptTyped DEF r
  <2>6. /\ state' = "string" /\ state' \in State \ {"done"} /\ yytext' = Stored(yytext, b)
        /\ UNCHANGED << text, start, tokens, yylineno >> /\ c' = c
    BY <1>12 DEF goto, State, keep_char, b
  <2>7. Typed' /\ Buffered' /\ Consumed' = s
    BY <1>0, <1>1, <1>12, <2>5, <2>6, GoesOnKept DEF s
  <2>8. Accepted(Consumed)'
    BY <1>4, <1>12, <2>5, <2>6, <2>7 DEF Accepted
  <2> QED BY <2>6, <2>7, <2>8, NoToken DEF Step, IInv
<1> QED BY <1>6, <1>7, <1>8, <1>9, <1>10, <1>11, <1>12 DEF scan_string, Looking

-------------------------------------------------------------------------------
LEMMA InitIInv == Init => IInv /\ T!Init
<1> SUFFICES ASSUME Init PROVE IInv /\ T!Init
  OBVIOUS
<1>1. /\ text = << >> /\ start = 0 /\ tokens = << >> /\ current_char = Unread /\ consumed = 0
      /\ state = "yylex" /\ yytext = << >> /\ yylineno = 1
  BY DEF Init
<1>2. Typed
  BY <1>1, KeptNothing DEF Typed, State
<1>3. Buffered
  BY <1>1 DEF Buffered
<1>4. Consumed = << >>
  BY <1>1, SubSeqEmpty DEF Consumed
<1>5. Accepted(Consumed)
  BY <1>1, <1>4 DEF Accepted
<1> QED BY <1>1, <1>2, <1>3, <1>5 DEF IInv, T!Init

LEMMA NextStep == ASSUME IInv, [Next]_vars PROVE Step
<1>1. CASE Next
  BY <1>1, PeekStep, SkipStep, EndStep, SingleStep, FirstStep, SecondStep, CommentStep,
     NumberStep, WordStep, StringStep DEF Next
<1>2. CASE UNCHANGED vars
  BY <1>2 DEF vars, Step, IInv, Typed, Buffered, Consumed, Accepted, T!vars
<1> QED BY <1>1, <1>2

LEMMA Invariance == Spec => []IInv
BY InitIInv, NextStep, PTL DEF Spec, Step

\* Whatever the text and however long its tokens, no character is lost or read twice, and
\* the scan functions (scan_number, scan_identifier_or_keyword, scan_string) do not write
\* past the end of yytext_buffer.
THEOREM TypeCorrect == Spec => []TypeOK
<1>1. IInv => TypeOK
  BY DEF IInv, Typed, Buffered, State, TypeOK
<1> QED BY <1>1, Invariance, PTL

\* Whatever the text, yylex returns the tokens of the longest lexemes, with their text and
\* on their lines, although it looks one character ahead only.
THEOREM Implements == Spec => ImplementsTokens
<1>1. Init => T!Init
  BY InitIInv
<1>2. IInv /\ [Next]_vars => [T!Next]_(T!vars)
  BY NextStep DEF Step
<1> QED BY <1>1, <1>2, Invariance, PTL DEF Spec, ImplementsTokens, T!Spec
===============================================================================
