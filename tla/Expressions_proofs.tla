--------------------------- MODULE Expressions_proofs ---------------------------
EXTENDS Expressions, FiniteSetTheorems, SequenceTheorems, TLAPS

-------------------------------------------------------------------------------
(* Integers: quotient and remainder, words. *)

LEMMA Numbers == Half \in Nat /\ Half > 1 /\ 2 * Half \in Nat /\ 2 * Half > 0
BY HalfAssumption

\* a is its quotient and remainder by m put together.
LEMMA DivMod ==
  ASSUME NEW a \in Int, NEW m \in Nat, m > 0
  PROVE  /\ a % m \in 0 .. m - 1
         /\ a \div m \in Int
         /\ a = (a \div m) * m + (a % m)
<1>1. a % m \in 0 .. m - 1
  BY SMT
<1>2. a \div m \in Int
  BY SMT
<1>3. a = (a \div m) * m + (a % m)
  BY SMT
<1> QED BY <1>1, <1>2, <1>3

\* There is one quotient and one remainder below m.
LEMMA DivModUnique ==
  ASSUME NEW m \in Nat, m > 0, NEW q \in Int, NEW p \in Int,
         NEW r \in 0 .. m - 1, NEW s \in 0 .. m - 1,
         q * m + r = p * m + s
  PROVE  q = p /\ r = s
<1>1. CASE q >= p + 1
  <2>1. (q - p) * m >= m
    BY <1>1
  <2>2. (q - p) * m = q * m - p * m
    OBVIOUS
  <2> QED BY <2>1, <2>2
<1>2. CASE p >= q + 1
  <2>1. (p - q) * m >= m
    BY <1>2
  <2>2. (p - q) * m = p * m - q * m
    OBVIOUS
  <2> QED BY <2>1, <2>2
<1> QED BY <1>1, <1>2

LEMMA DivModIs ==
  ASSUME NEW m \in Nat, m > 0, NEW q \in Int, NEW r \in 0 .. m - 1,
         NEW a \in Int, a = q * m + r
  PROVE  a % m = r /\ a \div m = q
<1> DEFINE p == a \div m
           s == a % m
<1>1. s \in 0 .. m - 1 /\ p \in Int /\ a = p * m + s
  BY DivMod
<1> HIDE DEF p, s
<1>2. q = p /\ r = s
  BY <1>1, DivModUnique
<1> QED BY <1>2 DEF p, s

LEMMA WrapType ==
  ASSUME NEW i \in Int
  PROVE  Wrap(i) \in Word
<1>1. (i + Half) % (2 * Half) \in 0 .. 2 * Half - 1
  BY Numbers, DivMod
<1> QED BY <1>1, Numbers DEF Wrap, Word

\* Adding a multiple of 2 * Half does not matter.
LEMMA WrapIs ==
  ASSUME NEW i \in Int, NEW q \in Int, NEW w \in Word, i = q * (2 * Half) + w
  PROVE  Wrap(i) = w
<1> DEFINE m == 2 * Half
           a == i + Half
           r == w + Half
<1>1. r \in 0 .. m - 1 /\ a \in Int /\ m \in Nat /\ m > 0
  BY Numbers DEF Word
<1>2. a = q * m + r
  BY Numbers DEF Word
<1>3. Wrap(i) = (a % m) - Half
  BY DEF Wrap
<1>4. r - Half = w
  BY Numbers DEF Word
<1> HIDE DEF m, a, r
<1>5. a % m = r
  BY <1>1, <1>2, DivModIs
<1> QED BY <1>3, <1>4, <1>5

LEMMA WrapNear ==
  ASSUME NEW i \in Int
  PROVE  /\ i \in Word => Wrap(i) = i
         /\ i \in Half .. 3 * Half - 1 => Wrap(i) = i - 2 * Half
         /\ i \in -3 * Half .. -Half - 1 => Wrap(i) = i + 2 * Half
<1>1. ASSUME i \in Word PROVE Wrap(i) = i
  <2>1. i = 0 * (2 * Half) + i
    BY Numbers
  <2> QED BY <1>1, <2>1, WrapIs
<1>2. ASSUME i \in Half .. 3 * Half - 1 PROVE Wrap(i) = i - 2 * Half
  <2>1. i = 1 * (2 * Half) + (i - 2 * Half) /\ i - 2 * Half \in Word
    BY <1>2, Numbers DEF Word
  <2> QED BY <2>1, WrapIs
<1>3. ASSUME i \in -3 * Half .. -Half - 1 PROVE Wrap(i) = i + 2 * Half
  <2>1. i = (-1) * (2 * Half) + (i + 2 * Half) /\ i + 2 * Half \in Word
    BY <1>3, Numbers DEF Word
  <2> QED BY <2>1, WrapIs
<1> QED BY <1>1, <1>2, <1>3

\* The interpreter's wrapping is the processor's.
LEMMA SignedWraps ==
  ASSUME NEW i \in Int
  PROVE  E!Signed(i) = Wrap(i)
<1> DEFINE m == 2 * Half
           q == i \div m
           r == i % m
<1>1. r \in 0 .. m - 1 /\ q \in Int /\ i = q * m + r /\ q + 1 \in Int
  BY Numbers, DivMod
<1>2. CASE r < Half
  <2>1. r \in Word
    BY <1>1, <1>2, Numbers DEF Word
  <2>2. Wrap(i) = r
    BY <1>1, <2>1, WrapIs
  <2> QED BY <1>2, <2>2 DEF E!Signed
<1>3. CASE ~(r < Half)
  <2>1. r - m \in Word
    BY <1>1, <1>3, Numbers DEF Word
  <2>2. i = (q + 1) * m + (r - m)
    BY <1>1, Numbers
  <2>3. Wrap(i) = r - m
    BY <1>1, <2>1, <2>2, WrapIs
  <2> QED BY <1>3, <2>3 DEF E!Signed
<1> QED BY <1>2, <1>3

-------------------------------------------------------------------------------
(* The flags after cmp. *)

LEMMA Flags ==
  ASSUME NEW a \in Word, NEW b \in Word
  PROVE  /\ ZF(a, b) <=> a = b
         /\ (SF(a, b) # OF(a, b)) <=> a < b
         /\ SF(a, b) \in BOOLEAN /\ OF(a, b) \in BOOLEAN /\ ZF(a, b) \in BOOLEAN
<1> DEFINE d == a - b
           w == Wrap(a - b)
<1>1. a \in Int /\ b \in Int /\ d \in Int /\ d \in -2 * Half + 1 .. 2 * Half - 1
  BY Numbers DEF Word
<1>2. /\ d \in Word => w = d
      /\ d \in Half .. 3 * Half - 1 => w = d - 2 * Half
      /\ d \in -3 * Half .. -Half - 1 => w = d + 2 * Half
  BY <1>1, WrapNear
<1> HIDE DEF w
<1>3. w = 0 <=> a = b
  BY <1>1, <1>2, Numbers DEF Word
<1>4. /\ d \in Word => (w < 0 <=> a < b)
      /\ d \notin Word => (w < 0 <=> ~(a < b))
  BY <1>1, <1>2, Numbers DEF Word
<1>5. (w < 0) \in BOOLEAN /\ (d \notin Word) \in BOOLEAN /\ (w = 0) \in BOOLEAN
  OBVIOUS
<1>6. ((w < 0) # (d \notin Word)) <=> a < b
  <2> DEFINE s == w < 0
             o == d \notin Word
             l == a < b
  <2>1. s \in BOOLEAN /\ o \in BOOLEAN /\ (~o => (s <=> l)) /\ (o => (s <=> ~l))
    BY <1>4, <1>5
  <2> HIDE DEF s, o, l
  <2>2. (s # o) <=> l
    BY <2>1, Zenon
  <2> QED BY <2>2 DEF s, o, l
<1> QED BY <1>3, <1>5, <1>6 DEF ZF, SF, OF, w

-------------------------------------------------------------------------------
(* Division. *)

\* The magnitudes of quotient and remainder.
LEMMA AbsDivides ==
  ASSUME NEW a \in Nat, NEW b \in Nat, b > 0
  PROVE  /\ a \div b \in 0 .. a
         /\ a % b \in 0 .. b - 1
         /\ a = (a \div b) * b + (a % b)
<1> DEFINE q == a \div b
           r == a % b
<1>1. r \in 0 .. b - 1 /\ q \in Int /\ a = q * b + r
  BY DivMod
<1> HIDE DEF q, r
<1>2. q >= 0
  <2>1. SUFFICES ASSUME q <= -1 PROVE FALSE
    BY <1>1
  <2>2. q * b <= -b
    BY <1>1, <2>1
  <2> QED BY <1>1, <2>2
<1>3. q <= a
  <2>1. q * b >= q
    BY <1>1, <1>2
  <2> QED BY <1>1, <2>1
<1> QED BY <1>1, <1>2, <1>3 DEF q, r

\* The interpreter's quotient is one that idiv may deliver.
LEMMA QuotientDivides ==
  ASSUME NEW n \in Word, NEW d \in Word, d # 0
  PROVE  /\ E!Quotient(n, d) \in -Half .. Half
         /\ n - E!Quotient(n, d) * d \in Word
         /\ Divides(n, d, E!Quotient(n, d), n - E!Quotient(n, d) * d)
<1> DEFINE a == E!Abs(n)
           b == E!Abs(d)
           q == a \div b
           r == a % b
           Q == E!Quotient(n, d)
<1>1. /\ n \in Int /\ d \in Int /\ a \in 0 .. Half /\ b \in 1 .. Half
      /\ a = IF n < 0 THEN -n ELSE n
      /\ b = IF d < 0 THEN -d ELSE d
  BY Numbers DEF Word, E!Abs
<1>2. Q = IF (n < 0) = (d < 0) THEN q ELSE -q
  BY DEF E!Quotient
<1> HIDE DEF a, b
<1>3. q \in 0 .. a /\ r \in 0 .. b - 1 /\ a = q * b + r
  <2>1. a \in Nat /\ b \in Nat /\ b > 0
    BY <1>1, Numbers
  <2> QED BY <2>1, AbsDivides
<1> HIDE DEF q, r, Q
<1>4. q \in Int /\ r \in Int /\ a \in Int /\ b \in Int /\ Q \in -Half .. Half /\ Q \in Int
  BY <1>1, <1>2, <1>3, Numbers
<1>5. Q * d = IF n < 0 THEN -(q * b) ELSE q * b
  <2>1. CASE n < 0 /\ d < 0
    <3>1. Q = q /\ d = -b
      BY <2>1, <1>1, <1>2, <1>4
    <3> QED BY <2>1, <3>1, <1>4
  <2>2. CASE n < 0 /\ ~(d < 0)
    <3>1. Q = -q /\ d = b
      BY <2>2, <1>1, <1>2, <1>4
    <3> QED BY <2>2, <3>1, <1>4
  <2>3. CASE ~(n < 0) /\ d < 0
    <3>1. Q = -q /\ d = -b
      BY <2>3, <1>1, <1>2, <1>4
    <3> QED BY <2>3, <3>1, <1>4
  <2>4. CASE ~(n < 0) /\ ~(d < 0)
    <3>1. Q = q /\ d = b
      BY <2>4, <1>1, <1>2, <1>4
    <3> QED BY <2>4, <3>1, <1>4
  <2> QED BY <2>1, <2>2, <2>3, <2>4
<1>6. n - Q * d = IF n < 0 THEN -r ELSE r
  BY <1>1, <1>3, <1>4, <1>5
<1>7. n - Q * d \in Word
  BY <1>1, <1>3, <1>4, <1>6, Numbers DEF Word
<1>8. Divides(n, d, Q, n - Q * d)
  <2> DEFINE R == n - Q * d
             qd == Q * d
  <2>1. qd \in Int
    BY <1>1, <1>4
  <2>2. n = qd + R
    <3> HIDE DEF qd
    <3>1. n = qd + (n - qd)
      BY <2>1, <1>1
    <3> QED BY <3>1 DEF qd
  <2> HIDE DEF R, qd
  <2>3. R = IF n < 0 THEN -r ELSE r
    BY <1>6 DEF R
  <2>4. E!Abs(R) < E!Abs(d) /\ (R = 0 \/ (R < 0) = (n < 0))
    BY <2>3, <1>1, <1>3, <1>4 DEF E!Abs
  <2> QED BY <2>2, <2>4 DEF Divides, R, qd
<1> QED BY <1>4, <1>7, <1>8 DEF Q

\* No other does.
LEMMA DividesUnique ==
  ASSUME NEW n \in Int, NEW d \in Int, d # 0,
         NEW q \in Int, NEW r \in Int, Divides(n, d, q, r),
         NEW p \in Int, NEW s \in Int, Divides(n, d, p, s)
  PROVE  q = p /\ r = s
<1>1. n = q * d + r /\ n = p * d + s
  BY DEF Divides
<1>2. /\ IF d < 0 THEN r - s < -d /\ s - r < -d ELSE r - s < d /\ s - r < d
  BY DEF Divides, E!Abs
<1>3. (p - q) * d = r - s
  <2>1. (p - q) * d = p * d - q * d
    OBVIOUS
  <2> QED BY <2>1, <1>1
<1>4. p = q
  <2> DEFINE k == p - q
  <2>1. k \in Int /\ k * d = r - s
    BY <1>3
  <2> HIDE DEF k
  <2>2. CASE k >= 1 /\ d > 0
    <3>1. k * d >= d
      BY <2>1, <2>2
    <3> QED BY <3>1, <2>1, <2>2, <1>2
  <2>3. CASE k >= 1 /\ d < 0
    <3>1. k * d <= d
      BY <2>1, <2>3
    <3> QED BY <3>1, <2>1, <2>3, <1>2
  <2>4. CASE k <= -1 /\ d > 0
    <3>1. k * d <= -d
      BY <2>1, <2>4
    <3> QED BY <3>1, <2>1, <2>4, <1>2
  <2>5. CASE k <= -1 /\ d < 0
    <3>1. k * d >= -d
      BY <2>1, <2>5
    <3> QED BY <3>1, <2>1, <2>5, <1>2
  <2>6. CASE k = 0
    BY <2>6 DEF k
  <2> QED BY <2>1, <2>2, <2>3, <2>4, <2>5, <2>6
<1> QED BY <1>1, <1>4

\* idiv delivers the interpreter's quotient and remainder.
LEMMA DivIsQuotient ==
  ASSUME NEW n \in Word, NEW d \in Word, d # 0
  PROVE  /\ Div(n, d) = E!Quotient(n, d)
         /\ Rem(n, d) = n - E!Quotient(n, d) * d
         /\ E!Quotient(n, d) \in -Half .. Half
         /\ Rem(n, d) \in Word
<1> DEFINE Q == E!Quotient(n, d)
           R == n - E!Quotient(n, d) * d
<1>1. Q \in -Half .. Half /\ R \in Word /\ Divides(n, d, Q, R)
  BY QuotientDivides
<1>2. n \in Int /\ d \in Int /\ Word \subseteq Int /\ Quotients \subseteq Int
  BY Numbers DEF Word, Quotients
<1>3. Q \in Quotients
  BY <1>1, Numbers DEF Quotients
<1> HIDE DEF Q, R
<1>4. \A q \in Quotients, r \in Word : Divides(n, d, q, r) => q = Q /\ r = R
  BY <1>1, <1>2, <1>3, DividesUnique
<1>5. Div(n, d) = Q
  BY <1>1, <1>3, <1>4 DEF Div
<1>6. Rem(n, d) = R
  BY <1>1, <1>3, <1>4 DEF Rem
<1> QED BY <1>1, <1>5, <1>6 DEF Q, R

-------------------------------------------------------------------------------
(* Words and the values they stand for. *)

\* Word w may stand for a value of type t.
Stands(t, w) == w \in Word /\ (t = "bool" => w \in {0, 1})

LEMMA Meanings ==
  ASSUME NEW w
  PROVE  /\ Meant("none", w) = E!None
         /\ Meant("int", w) = E!Int64(w)
         /\ Meant("bool", w) = E!Bool(w # 0)
BY DEF Meant, E!None, E!Int64, E!Bool

\* A type of none is seen in the value.
LEMMA NoMeaning ==
  ASSUME NEW t \in {"none", "int", "bool"}, NEW w
  PROVE  /\ Meant(t, w) = E!None <=> t = "none"
         /\ Meant(t, w).type = t
BY Meanings DEF E!None, E!Int64, E!Bool

LEMMA Values ==
  ASSUME NEW v \in E!Value
  PROVE  /\ v.type \in {"int", "bool"}
         /\ Stands(v.type, WordOf(v))
         /\ Meant(v.type, WordOf(v)) = v
<1>1. CASE v \in [type : {"int"}, data : E!Long]
  <2>1. v.type = "int" /\ v.data \in Word /\ v = E!Int64(v.data)
    BY <1>1 DEF E!Long, Word, E!Int64
  <2> QED BY <2>1, Meanings DEF WordOf, Stands
<1>2. CASE v \in [type : {"bool"}, data : BOOLEAN]
  <2>1. v.type = "bool" /\ v.data \in BOOLEAN /\ v = [type |-> "bool", data |-> v.data]
    BY <1>2, Zenon
  <2>2. WordOf(v) = IF v.data THEN 1 ELSE 0
    BY <2>1 DEF WordOf
  <2>3. WordOf(v) \in {0, 1} /\ {0, 1} \subseteq Word
    BY <2>2, Numbers DEF Word
  <2>4. WordOf(v) # 0 <=> v.data
    BY <2>2
  <2>5. (WordOf(v) # 0) = v.data
    BY <2>1, <2>4, Zenon
  <2> QED BY <2>1, <2>3, <2>5, Meanings DEF Stands, E!Bool
<1> QED BY <1>1, <1>2 DEF E!Value

\* setcc leaves a word that stands for the truth value.
LEMMA FlagMeans ==
  ASSUME NEW b \in BOOLEAN
  PROVE  /\ Stands("bool", Flag(b))
         /\ Meant("bool", Flag(b)) = E!Bool(b)
<1>1. Flag(b) \in {0, 1} /\ (Flag(b) # 0 <=> b)
  BY DEF Flag
<1>2. {0, 1} \subseteq Word
  BY Numbers DEF Word
<1>3. (Flag(b) # 0) = b
  BY <1>1, Zenon
<1> QED BY <1>1, <1>2, <1>3, Meanings DEF Stands

-------------------------------------------------------------------------------
(* Each operator's instructions compute what the interpreter does. *)

LEMMA IntegerOperators ==
  ASSUME NEW op \in E!Arithmetic, NEW x \in Word, NEW y \in Word, ~Trap(op, x, y)
  PROVE  /\ Emitted(op, x, y) \in Word
         /\ E!Int64(Emitted(op, x, y)) = E!evaluateBinaryOp(op, E!Int64(x), E!Int64(y))
<1>1. x \in Int /\ y \in Int /\ x * y \in Int /\ y * x = x * y
  BY Numbers DEF Word
<1>2. E!Int64(x).data = x /\ E!Int64(y).data = y
  BY DEF E!Int64
<1>3. CASE op = "+"
  BY <1>1, <1>2, <1>3, WrapType, SignedWraps DEF Emitted, E!evaluateBinaryOp
<1>4. CASE op = "-"
  BY <1>1, <1>2, <1>4, WrapType, SignedWraps DEF Emitted, E!evaluateBinaryOp
<1>5. CASE op = "*"
  BY <1>1, <1>2, <1>5, WrapType, SignedWraps DEF Emitted, E!evaluateBinaryOp
<1>6. CASE op \in {"/", "%"}
  <2>1. y # 0 /\ Div(x, y) \in Word
    BY <1>6 DEF Trap, Dividend
  <2>2. Div(x, y) = E!Quotient(x, y) /\ Rem(x, y) = x - E!Quotient(x, y) * y /\ Rem(x, y) \in Word
    BY <2>1, DivIsQuotient
  <2> QED BY <1>2, <1>6, <2>1, <2>2 DEF Emitted, E!evaluateBinaryOp, Dividend
<1> QED BY <1>3, <1>4, <1>5, <1>6 DEF E!Arithmetic

LEMMA SameFlag ==
  ASSUME NEW b, NEW c, b <=> c
  PROVE  Flag(b) = Flag(c)
BY DEF Flag

LEMMA OrderOperators ==
  ASSUME NEW op \in E!Order, NEW x \in Word, NEW y \in Word
  PROVE  \E b \in BOOLEAN : /\ Emitted(op, x, y) = Flag(b)
                            /\ E!evaluateBinaryOp(op, E!Int64(x), E!Int64(y)) = E!Bool(b)
<1>1. x \in Int /\ y \in Int
  BY Numbers DEF Word
<1>2. E!Int64(x).data = x /\ E!Int64(y).data = y
  BY DEF E!Int64
<1> DEFINE z == ZF(x, y)
           s == SF(x, y)
           o == OF(x, y)
<1>3. /\ z \in BOOLEAN /\ s \in BOOLEAN /\ o \in BOOLEAN
      /\ z <=> x = y
      /\ (s # o) <=> x < y
  BY Flags
<1> HIDE DEF z, s, o
<1>4. (s = o) <=> ~(x < y)
  BY <1>3, Zenon
<1>5. CASE op = "<"
  <2>1. Flag(s # o) = Flag(x < y)
    BY <1>3, SameFlag, Zenon
  <2>3. Emitted(op, x, y) = Flag(s # o)
    BY <1>5 DEF Emitted, s, o
  <2>4. E!evaluateBinaryOp(op, E!Int64(x), E!Int64(y)) = E!Bool(x < y)
    BY <1>2, <1>5 DEF E!evaluateBinaryOp
  <2>5. (x < y) \in BOOLEAN
    OBVIOUS
  <2> QED BY <2>1, <2>3, <2>4, <2>5, Zenon
<1>6. CASE op = "<="
  <2>1. (z \/ x < y) <=> x <= y
    BY <1>1, <1>3
  <2>2. Flag(z \/ s # o) = Flag(x <= y)
    BY <1>3, <2>1, SameFlag, Zenon
  <2>3. Emitted(op, x, y) = Flag(z \/ s # o)
    BY <1>6 DEF Emitted, z, s, o
  <2>4. E!evaluateBinaryOp(op, E!Int64(x), E!Int64(y)) = E!Bool(x <= y)
    BY <1>2, <1>6 DEF E!evaluateBinaryOp
  <2>5. (x <= y) \in BOOLEAN
    OBVIOUS
  <2> QED BY <2>2, <2>3, <2>4, <2>5, Zenon
<1>7. CASE op = ">"
  <2>1. (~z /\ ~(x < y)) <=> x > y
    BY <1>1, <1>3
  <2>2. Flag(~z /\ s = o) = Flag(x > y)
    BY <1>4, <2>1, SameFlag, Zenon
  <2>3. Emitted(op, x, y) = Flag(~z /\ s = o)
    BY <1>7 DEF Emitted, z, s, o
  <2>4. E!evaluateBinaryOp(op, E!Int64(x), E!Int64(y)) = E!Bool(x > y)
    BY <1>2, <1>7 DEF E!evaluateBinaryOp
  <2>5. (x > y) \in BOOLEAN
    OBVIOUS
  <2> QED BY <2>2, <2>3, <2>4, <2>5, Zenon
<1>8. CASE op = ">="
  <2>1. ~(x < y) <=> x >= y
    BY <1>1
  <2>2. Flag(s = o) = Flag(x >= y)
    BY <1>4, <2>1, SameFlag, Zenon
  <2>3. Emitted(op, x, y) = Flag(s = o)
    BY <1>8 DEF Emitted, s, o
  <2>4. E!evaluateBinaryOp(op, E!Int64(x), E!Int64(y)) = E!Bool(x >= y)
    BY <1>2, <1>8 DEF E!evaluateBinaryOp
  <2>5. (x >= y) \in BOOLEAN
    OBVIOUS
  <2> QED BY <2>2, <2>3, <2>4, <2>5, Zenon
<1> QED BY <1>5, <1>6, <1>7, <1>8 DEF E!Order

LEMMA EqualityOperators ==
  ASSUME NEW op \in E!Equality, NEW t \in {"int", "bool"}, NEW x, NEW y,
         Stands(t, x), Stands(t, y)
  PROVE  \E b \in BOOLEAN : /\ Emitted(op, x, y) = Flag(b)
                            /\ E!evaluateBinaryOp(op, Meant(t, x), Meant(t, y)) = E!Bool(b)
<1> DEFINE l == Meant(t, x)
           r == Meant(t, y)
           z == ZF(x, y)
<1>1. x \in Word /\ y \in Word
  BY DEF Stands
<1>2. z \in BOOLEAN /\ (z <=> x = y)
  BY <1>1, Flags
<1>3. l = r <=> x = y
  <2>1. CASE t = "int"
    <3>1. l = E!Int64(x) /\ r = E!Int64(y)
      BY <2>1, Meanings
    <3>2. E!Int64(x).data = x /\ E!Int64(y).data = y
      BY DEF E!Int64
    <3> QED BY <3>1, <3>2, Zenon
  <2>2. CASE t = "bool"
    <3>1. l = E!Bool(x # 0) /\ r = E!Bool(y # 0)
      BY <2>2, Meanings
    <3>2. E!Bool(x # 0).data = (x # 0) /\ E!Bool(y # 0).data = (y # 0)
      BY Zenon DEF E!Bool
    <3>3. x \in {0, 1} /\ y \in {0, 1}
      BY <2>2 DEF Stands
    <3>4. x = y <=> (x # 0 <=> y # 0)
      BY <3>3
    <3>5. l = r => (x # 0 <=> y # 0)
      BY <3>1, <3>2, Zenon
    <3> QED BY <3>4, <3>5, Zenon
  <2> QED BY <2>1, <2>2
<1> HIDE DEF l, r, z
<1>4. CASE op = "=="
  <2>1. Flag(z) = Flag(l = r)
    BY <1>2, <1>3, SameFlag, Zenon
  <2>2. Emitted(op, x, y) = Flag(z)
    BY <1>4 DEF Emitted, z
  <2>3. E!evaluateBinaryOp(op, l, r) = E!Bool(l = r)
    BY <1>4 DEF E!evaluateBinaryOp
  <2>4. (l = r) \in BOOLEAN
    OBVIOUS
  <2> QED BY <2>1, <2>2, <2>3, <2>4, Zenon DEF l, r
<1>5. CASE op = "~="
  <2>1. Flag(~z) = Flag(l # r)
    BY <1>2, <1>3, SameFlag, Zenon
  <2>2. Emitted(op, x, y) = Flag(~z)
    BY <1>5 DEF Emitted, z
  <2>3. E!evaluateBinaryOp(op, l, r) = E!Bool(l # r)
    BY <1>5 DEF E!evaluateBinaryOp
  <2>4. (l # r) \in BOOLEAN
    OBVIOUS
  <2> QED BY <2>1, <2>2, <2>3, <2>4, Zenon DEF l, r
<1> QED BY <1>4, <1>5 DEF E!Equality

\* The interpreter's truth is the processor's.
LEMMA Truth ==
  ASSUME NEW t \in {"int", "bool"}, NEW w
  PROVE  E!asBoolean(Meant(t, w)) <=> w # 0
<1>1. CASE t = "int"
  <2>1. Meant(t, w).type = "int" /\ Meant(t, w).data = w
    BY <1>1, Meanings DEF E!Int64
  <2> QED BY <2>1 DEF E!asBoolean
<1>2. CASE t = "bool"
  <2>1. Meant(t, w) = E!Bool(w # 0)
    BY <1>2, Meanings
  <2>2. E!Bool(w # 0).type = "bool" /\ E!Bool(w # 0).data = (w # 0)
    BY Zenon DEF E!Bool
  <2> QED BY <2>1, <2>2, Zenon DEF E!asBoolean
<1> QED BY <1>1, <1>2

LEMMA LogicOperators ==
  ASSUME NEW op \in E!Logic, NEW lt \in {"int", "bool"}, NEW rt \in {"int", "bool"},
         NEW x, NEW y
  PROVE  \E b \in BOOLEAN : /\ Emitted(op, x, y) = Flag(b)
                            /\ E!evaluateBinaryOp(op, Meant(lt, x), Meant(rt, y)) = E!Bool(b)
<1> DEFINE l == E!asBoolean(Meant(lt, x))
           r == E!asBoolean(Meant(rt, y))
<1>1. (l <=> x # 0) /\ (r <=> y # 0)
  BY Truth, Zenon
<1>2. CASE op = "and"
  <2>1. Flag(x # 0 /\ y # 0) = Flag(l /\ r)
    BY <1>1, SameFlag, Zenon
  <2>2. Emitted(op, x, y) = Flag(x # 0 /\ y # 0)
    BY <1>2 DEF Emitted
  <2>3. E!evaluateBinaryOp(op, Meant(lt, x), Meant(rt, y)) = E!Bool(l /\ r)
    BY <1>2 DEF E!evaluateBinaryOp
  <2>4. (l /\ r) \in BOOLEAN
    OBVIOUS
  <2> QED BY <2>1, <2>2, <2>3, <2>4, Zenon
<1>3. CASE op = "or"
  <2>1. Flag(x # 0 \/ y # 0) = Flag(l \/ r)
    BY <1>1, SameFlag, Zenon
  <2>2. Emitted(op, x, y) = Flag(x # 0 \/ y # 0)
    BY <1>3 DEF Emitted
  <2>3. E!evaluateBinaryOp(op, Meant(lt, x), Meant(rt, y)) = E!Bool(l \/ r)
    BY <1>3 DEF E!evaluateBinaryOp
  <2>4. (l \/ r) \in BOOLEAN
    OBVIOUS
  <2> QED BY <2>1, <2>2, <2>3, <2>4, Zenon
<1> QED BY <1>2, <1>3 DEF E!Logic

LEMMA OperandTypes ==
  ASSUME NEW op \in E!Binary, NEW lt \in E!Operand(op, "none"), NEW rt \in E!Operand(op, lt)
  PROVE  /\ lt \in {"int", "bool"} /\ rt \in {"int", "bool"}
         /\ op \in E!Arithmetic \cup E!Order => lt = "int" /\ rt = "int"
         /\ op \in E!Equality => rt = lt
BY DEF E!Operand, E!Binary, E!Arithmetic, E!Order, E!Equality, E!Logic

\* idiv traps where the interpreter stops.
LEMMA TrapAgrees ==
  ASSUME NEW op \in E!Binary, NEW lt \in E!Operand(op, "none"), NEW rt \in E!Operand(op, lt),
         NEW x \in Word, NEW y \in Word
  PROVE  Trap(op, x, y) <=> E!NoResult(op, Meant(lt, x), Meant(rt, y))
<1>1. CASE op \in {"/", "%"}
  <2>1. lt = "int" /\ rt = "int"
    BY <1>1, OperandTypes DEF E!Arithmetic
  <2>2. Meant(lt, x).data = x /\ Meant(rt, y).data = y
    BY <2>1, Meanings DEF E!Int64
  <2>3. y # 0 => Div(x, y) = E!Quotient(x, y)
    BY DivIsQuotient
  <2> QED BY <1>1, <2>2, <2>3 DEF Trap, E!NoResult, Dividend, Word, E!Long
<1>2. CASE op \notin {"/", "%"}
  BY <1>2 DEF Trap, E!NoResult
<1> QED BY <1>1, <1>2

LEMMA BinaryAgrees ==
  ASSUME NEW op \in E!Binary, NEW lt \in E!Operand(op, "none"), NEW rt \in E!Operand(op, lt),
         NEW x, NEW y, Stands(lt, x), Stands(rt, y), ~Trap(op, x, y)
  PROVE  /\ Stands(E!TypeOf(op), Emitted(op, x, y))
         /\ Meant(E!TypeOf(op), Emitted(op, x, y))
              = E!evaluateBinaryOp(op, Meant(lt, x), Meant(rt, y))
<1>1. /\ lt \in {"int", "bool"} /\ rt \in {"int", "bool"}
      /\ op \in E!Arithmetic \cup E!Order => lt = "int" /\ rt = "int"
      /\ op \in E!Equality => rt = lt
  BY OperandTypes
<1>2. x \in Word /\ y \in Word
  BY DEF Stands
<1>3. CASE op \in E!Arithmetic
  <2>1. Meant(lt, x) = E!Int64(x) /\ Meant(rt, y) = E!Int64(y)
    BY <1>1, <1>3, Meanings
  <2>2. E!TypeOf(op) = "int"
    BY <1>3 DEF E!TypeOf
  <2>3. /\ Emitted(op, x, y) \in Word
        /\ E!Int64(Emitted(op, x, y)) = E!evaluateBinaryOp(op, E!Int64(x), E!Int64(y))
    BY <1>2, <1>3, IntegerOperators
  <2> QED BY <2>1, <2>2, <2>3, Meanings DEF Stands
<1>4. CASE op \notin E!Arithmetic
  <2>1. E!TypeOf(op) = "bool"
    BY <1>4 DEF E!TypeOf, E!Binary, E!Arithmetic, E!Order, E!Equality, E!Logic
  <2>2. \E b \in BOOLEAN :
          /\ Emitted(op, x, y) = Flag(b)
          /\ E!evaluateBinaryOp(op, Meant(lt, x), Meant(rt, y)) = E!Bool(b)
    <3>1. CASE op \in E!Order
      <4>1. Meant(lt, x) = E!Int64(x) /\ Meant(rt, y) = E!Int64(y)
        BY <1>1, <3>1, Meanings
      <4> QED BY <1>2, <3>1, <4>1, OrderOperators
    <3>2. CASE op \in E!Equality
      <4>1. rt = lt
        BY <1>1, <3>2
      <4>2. \E b \in BOOLEAN :
              /\ Emitted(op, x, y) = Flag(b)
              /\ E!evaluateBinaryOp(op, Meant(lt, x), Meant(lt, y)) = E!Bool(b)
        BY <1>1, <3>2, <4>1, EqualityOperators
      <4> QED BY <4>1, <4>2
    <3>3. CASE op \in E!Logic
      BY <1>1, <3>3, LogicOperators
    <3> QED BY <1>4, <3>1, <3>2, <3>3 DEF E!Binary
  <2>3. PICK b \in BOOLEAN :
          /\ Emitted(op, x, y) = Flag(b)
          /\ E!evaluateBinaryOp(op, Meant(lt, x), Meant(rt, y)) = E!Bool(b)
    BY <2>2
  <2>4. Stands("bool", Flag(b)) /\ Meant("bool", Flag(b)) = E!Bool(b)
    BY FlagMeans
  <2> QED BY <2>1, <2>3, <2>4
<1> QED BY <1>3, <1>4

LEMMA UnaryAgrees ==
  ASSUME NEW op \in E!Unary, NEW t \in E!Operand(op, "none"), NEW x, Stands(t, x)
  PROVE  /\ Stands(E!TypeOf(op), EmittedUnary(op, x))
         /\ Meant(E!TypeOf(op), EmittedUnary(op, x)) = E!evaluateUnaryOp(op, Meant(t, x))
<1>1. x \in Word /\ x \in Int /\ -x \in Int
  BY Numbers DEF Stands, Word
<1>2. CASE op = "not"
  <2>1. t \in {"int", "bool"} /\ E!TypeOf(op) = "bool"
    BY <1>2 DEF E!Operand, E!TypeOf, E!Arithmetic, E!Order, E!Equality
  <2> DEFINE a == E!asBoolean(Meant(t, x))
  <2>2. a <=> x # 0
    BY <2>1, Truth
  <2>3. Flag(x = 0) = Flag(~a)
    BY <2>2, SameFlag, Zenon
  <2>4. EmittedUnary(op, x) = Flag(x = 0) /\ E!evaluateUnaryOp(op, Meant(t, x)) = E!Bool(~a)
    BY <1>2, Zenon DEF EmittedUnary, E!evaluateUnaryOp
  <2>5. (~a) \in BOOLEAN
    OBVIOUS
  <2>6. Stands("bool", Flag(~a)) /\ Meant("bool", Flag(~a)) = E!Bool(~a)
    BY <2>5, FlagMeans
  <2> QED BY <2>1, <2>3, <2>4, <2>6, Zenon
<1>3. CASE op = "neg"
  <2>1. t = "int" /\ E!TypeOf(op) = "int"
    BY <1>3 DEF E!Operand, E!TypeOf
  <2>2. EmittedUnary(op, x) = Wrap(-x) /\ E!evaluateUnaryOp(op, Meant(t, x)) = E!Int64(E!Signed(-x))
    BY <1>3, <2>1, Meanings DEF EmittedUnary, E!evaluateUnaryOp, E!Int64
  <2>3. Wrap(-x) \in Word /\ E!Signed(-x) = Wrap(-x)
    BY <1>1, WrapType, SignedWraps
  <2> QED BY <2>1, <2>2, <2>3, Meanings DEF Stands
<1> QED BY <1>2, <1>3 DEF E!Unary

-------------------------------------------------------------------------------
(* The words on the stack: one for each left operand that waits. *)

Node  == [op : E!Binary \cup E!Unary, leftType : {"none", "int", "bool"}]

Waits(o, k)   == { j \in 1 .. k : o[j].leftType # "none" }
Waiting(o, k) == Cardinality(Waits(o, k))

LEMMA PushedIsWaiting ==
  ASSUME NEW k
  PROVE  Pushed(k) = Waiting(open, k)
BY DEF Pushed, Waiting, Waits

LEMMA WaitingType ==
  ASSUME NEW o, NEW k \in Nat
  PROVE  IsFiniteSet(Waits(o, k)) /\ Waiting(o, k) \in Nat
<1>1. IsFiniteSet(1 .. k)
  BY FS_Interval
<1>2. Waits(o, k) \subseteq 1 .. k
  BY DEF Waits
<1> QED BY <1>1, <1>2, FS_Subset, FS_CardinalityType DEF Waiting

LEMMA WaitingNone ==
  ASSUME NEW o
  PROVE  Waiting(o, 0) = 0
<1>1. Waits(o, 0) = {}
  BY DEF Waits
<1> QED BY <1>1, FS_EmptySet DEF Waiting

LEMMA WaitingStep ==
  ASSUME NEW o, NEW k \in Nat
  PROVE  Waiting(o, k + 1) = Waiting(o, k) + (IF o[k + 1].leftType # "none" THEN 1 ELSE 0)
<1>1. IsFiniteSet(Waits(o, k)) /\ Waiting(o, k) \in Nat
  BY WaitingType
<1>2. CASE o[k + 1].leftType # "none"
  <2>1. Waits(o, k + 1) = Waits(o, k) \cup {k + 1} /\ k + 1 \notin Waits(o, k)
    BY <1>2 DEF Waits
  <2> QED BY <1>1, <1>2, <2>1, FS_AddElement DEF Waiting
<1>3. CASE o[k + 1].leftType = "none"
  <2>1. Waits(o, k + 1) = Waits(o, k)
    BY <1>3 DEF Waits
  <2> QED BY <1>1, <1>3, <2>1 DEF Waiting
<1> QED BY <1>2, <1>3

LEMMA WaitingMonotone ==
  ASSUME NEW o, NEW j \in Nat, NEW k \in Nat, j <= k
  PROVE  Waiting(o, j) <= Waiting(o, k)
<1>1. IsFiniteSet(Waits(o, k))
  BY WaitingType
<1>2. Waits(o, j) \subseteq Waits(o, k)
  BY DEF Waits
<1> QED BY <1>1, <1>2, FS_Subset DEF Waiting

LEMMA WaitingSame ==
  ASSUME NEW o, NEW p, NEW k \in Nat, \A j \in 1 .. k : o[j].leftType = p[j].leftType
  PROVE  Waiting(o, k) = Waiting(p, k)
<1>1. Waits(o, k) = Waits(p, k)
  BY DEF Waits
<1> QED BY <1>1 DEF Waiting

\* A left operand that waits has a word, below those of the operators inside it.
LEMMA WaitingWord ==
  ASSUME NEW o \in Seq(Node), NEW k \in DOMAIN o, o[k].leftType # "none"
  PROVE  /\ Waiting(o, k) \in 1 .. Waiting(o, Len(o))
         /\ k < Len(o) => Waiting(o, k) \in 1 .. Waiting(o, Len(o) - 1)
<1>1. /\ k \in 1 .. Len(o) /\ k \in Nat /\ k - 1 \in Nat
      /\ Len(o) \in Nat /\ Len(o) - 1 \in Nat /\ (k - 1) + 1 = k
  OBVIOUS
<1>2. Waiting(o, k) = Waiting(o, k - 1) + 1
  <2> DEFINE i == k - 1
  <2>1. i \in Nat /\ i + 1 = k
    BY <1>1
  <2> HIDE DEF i
  <2>2. Waiting(o, i + 1) = Waiting(o, i) + 1
    BY <2>1, WaitingStep
  <2> QED BY <2>1, <2>2 DEF i
<1>3. /\ Waiting(o, k - 1) \in Nat /\ Waiting(o, k) \in Nat
      /\ Waiting(o, Len(o)) \in Nat /\ Waiting(o, Len(o) - 1) \in Nat
  BY <1>1, WaitingType
<1>4. Waiting(o, k) <= Waiting(o, Len(o))
  BY <1>1, WaitingMonotone
<1>5. k < Len(o) => Waiting(o, k) <= Waiting(o, Len(o) - 1)
  BY <1>1, WaitingMonotone
<1> QED BY <1>2, <1>3, <1>4, <1>5

-------------------------------------------------------------------------------
(* The walk over an expression, with the values it has left in rax and on the stack. *)

\* Nodes o wait for operands, the last operand in w has type ty, the pushed words are t.
Sound(o, ty, w, t) ==
  /\ o \in Seq(Node) /\ ty \in {"none", "int", "bool"} /\ w \in Word /\ t \in Seq(Word)
  /\ Len(t) = Waiting(o, Len(o))
  /\ ty # "none" => Stands(ty, w)
  /\ \A k \in 1 .. Len(o) : o[k].leftType # "none" =>
       /\ o[k].op \in E!Binary
       /\ o[k].leftType \in E!Operand(o[k].op, "none")
       /\ Stands(o[k].leftType, t[Waiting(o, k)])
  /\ \A k \in 1 .. Len(o) - 1 : E!TypeOf(o[k + 1].op) \in E!Operand(o[k].op, o[k].leftType)
  /\ ty # "none" /\ o # << >> => ty \in E!Operand(o[Len(o)].op, o[Len(o)].leftType)

\* What the interpreter holds at the same place.
Interpreted(o, t) ==
  [k \in DOMAIN o |->
     [op |-> o[k].op,
      left |-> Meant(o[k].leftType, IF o[k].leftType = "none" THEN 0 ELSE t[Waiting(o, k)])]]

\* Sequences a and b have the same first k elements.
Agree(a, b, k) == \A j \in 1 .. k : a[j] = b[j]

LEMMA SameSeq ==
  ASSUME NEW S, NEW a \in Seq(S), NEW T, NEW b \in Seq(T),
         Len(a) = Len(b), Agree(a, b, Len(a))
  PROVE  a = b
<1> DEFINE U == S \cup T
<1>1. S \subseteq U /\ T \subseteq U
  OBVIOUS
<1> HIDE DEF U
<1>2. a \in Seq(U) /\ b \in Seq(U)
  BY <1>1, SeqMonotonic
<1> QED BY <1>2, SeqEqual DEF Agree

LEMMA AppendIs ==
  ASSUME NEW S, NEW a \in Seq(S), NEW T, NEW b \in Seq(T), NEW m,
         Len(b) = Len(a) + 1, b[Len(a) + 1] = m, Agree(a, b, Len(a))
  PROVE  b = Append(a, m)
<1> DEFINE U == S \cup {m}
           c == Append(a, m)
<1>1. S \subseteq U /\ m \in U
  OBVIOUS
<1> HIDE DEF U
<1>2. a \in Seq(U)
  BY <1>1, SeqMonotonic
<1>3. /\ c \in Seq(U) /\ Len(c) = Len(a) + 1
      /\ \A i \in 1 .. Len(a) : c[i] = a[i]
      /\ c[Len(a) + 1] = m
  BY <1>1, <1>2, AppendProperties
<1> HIDE DEF c
<1>4. Len(a) \in Nat
  OBVIOUS
<1>5. Agree(b, c, Len(b))
  BY <1>3, <1>4 DEF Agree
<1>6. b = c
  BY <1>3, <1>5, SameSeq
<1> QED BY <1>6 DEF c

LEMMA FrontIs ==
  ASSUME NEW S, NEW a \in Seq(S), a # << >>, NEW T, NEW b \in Seq(T),
         Len(b) = Len(a) - 1, Agree(a, b, Len(b))
  PROVE  b = SubSeq(a, 1, Len(a) - 1)
<1> DEFINE c == SubSeq(a, 1, Len(a) - 1)
<1>1. Len(a) \in Nat /\ Len(a) > 0
  OBVIOUS
<1>2. /\ c \in Seq(S) /\ Len(c) = Len(a) - 1
      /\ \A i \in 1 .. Len(a) - 1 : c[i] = a[i]
  BY <1>1
<1> HIDE DEF c
<1>3. Agree(b, c, Len(b))
  BY <1>2 DEF Agree
<1>4. b = c
  BY <1>2, <1>3, SameSeq
<1> QED BY <1>4 DEF c

LEMMA InterpretedShape ==
  ASSUME NEW o \in Seq(Node), NEW t
  PROVE  /\ \E S : Interpreted(o, t) \in Seq(S)
         /\ Interpreted(o, t) = [k \in 1 .. Len(o) |-> Interpreted(o, t)[k]]
         /\ DOMAIN Interpreted(o, t) = 1 .. Len(o)
         /\ Len(Interpreted(o, t)) = Len(o)
         /\ Interpreted(o, t) # << >> <=> o # << >>
         /\ \A k \in 1 .. Len(o) :
              /\ Interpreted(o, t)[k].op = o[k].op
              /\ Interpreted(o, t)[k].left.type = o[k].leftType
              /\ Interpreted(o, t)[k].left = E!None <=> o[k].leftType = "none"
              /\ o[k].leftType # "none" =>
                   Interpreted(o, t)[k].left = Meant(o[k].leftType, t[Waiting(o, k)])
<1> DEFINE I == Interpreted(o, t)
<1>1. /\ DOMAIN I = 1 .. Len(o) /\ Len(o) \in Nat /\ DOMAIN o = 1 .. Len(o)
      /\ I = [k \in 1 .. Len(o) |-> I[k]]
      /\ \A k \in 1 .. Len(o) :
           I[k] = [op |-> o[k].op,
                   left |-> Meant(o[k].leftType,
                                  IF o[k].leftType = "none" THEN 0 ELSE t[Waiting(o, k)])]
  BY DEF Interpreted
<1> HIDE DEF I
<1>2. (\E S : I \in Seq(S)) /\ Len(I) = Len(o) /\ (I # << >> <=> o # << >>)
  <2> DEFINE S == { I[k] : k \in DOMAIN o }
  <2>1. \A k \in 1 .. Len(o) : I[k] \in S
    BY <1>1
  <2> HIDE DEF S
  <2>2. I \in Seq(S) /\ Len(I) = Len(o)
    BY <1>1, <2>1
  <2>3. I # << >> <=> o # << >>
    BY <2>2
  <2> QED BY <2>2, <2>3
<1>3. ASSUME NEW k \in 1 .. Len(o)
      PROVE  /\ I[k].op = o[k].op
             /\ I[k].left.type = o[k].leftType
             /\ I[k].left = E!None <=> o[k].leftType = "none"
             /\ o[k].leftType # "none" => I[k].left = Meant(o[k].leftType, t[Waiting(o, k)])
  <2> DEFINE w == IF o[k].leftType = "none" THEN 0 ELSE t[Waiting(o, k)]
  <2>1. I[k].op = o[k].op /\ I[k].left = Meant(o[k].leftType, w)
    BY <1>1
  <2>2. o[k].leftType # "none" => w = t[Waiting(o, k)]
    OBVIOUS
  <2> HIDE DEF w
  <2>3. o[k] \in Node
    OBVIOUS
  <2>4. o[k].leftType \in {"none", "int", "bool"}
    BY <2>3 DEF Node
  <2> QED BY <2>1, <2>2, <2>4, NoMeaning
<1> QED BY <1>1, <1>2, <1>3 DEF I

\* Two descriptions of what the interpreter holds agree where their nodes and words do.
LEMMA InterpretedSame ==
  ASSUME NEW o \in Seq(Node), NEW t, NEW p \in Seq(Node), NEW s,
         NEW k \in Nat, k <= Len(o), k <= Len(p),
         Agree(o, p, k), Agree(t, s, Waiting(o, k))
  PROVE  \A j \in 1 .. k : /\ Waiting(p, j) = Waiting(o, j)
                           /\ o[j].leftType # "none" => s[Waiting(p, j)] = t[Waiting(o, j)]
                           /\ Interpreted(p, s)[j] = Interpreted(o, t)[j]
<1> TAKE j \in 1 .. k
<1>1. j \in Nat /\ j - 1 \in Nat /\ (j - 1) + 1 = j /\ j \in DOMAIN o /\ j \in DOMAIN p /\ o[j] = p[j]
  BY DEF Agree
<1>2. Waiting(p, j) = Waiting(o, j)
  <2>1. \A i \in 1 .. j : p[i].leftType = o[i].leftType
    BY DEF Agree
  <2> QED BY <1>1, <2>1, WaitingSame
<1>3. o[j].leftType # "none" => Waiting(o, j) \in 1 .. Waiting(o, k)
  <2> DEFINE i == j - 1
  <2>1. i \in Nat /\ i + 1 = j
    BY <1>1
  <2> HIDE DEF i
  <2>2. o[j].leftType # "none" => Waiting(o, j) = Waiting(o, i) + 1
    BY <2>1, WaitingStep
  <2>3. Waiting(o, i) \in Nat /\ Waiting(o, j) \in Nat /\ Waiting(o, k) \in Nat
    BY <1>1, <2>1, WaitingType
  <2>4. Waiting(o, j) <= Waiting(o, k)
    BY <1>1, WaitingMonotone
  <2> QED BY <2>2, <2>3, <2>4
<1>4. o[j].leftType # "none" => s[Waiting(p, j)] = t[Waiting(o, j)]
  BY <1>2, <1>3 DEF Agree
<1> QED BY <1>1, <1>2, <1>4 DEF Interpreted

(* The walk opens a node, keeps its left operand's type, and leaves it. *)
OpenedNode(o, op) == Append(o, [op |-> op, leftType |-> "none"])
KeptType(o, ty)   == [o EXCEPT ![Len(o)].leftType = ty]
Front(q)          == SubSeq(q, 1, Len(q) - 1)

\* An operator is opened.
LEMMA SoundOpen ==
  ASSUME NEW o, NEW w, NEW t, NEW op \in E!Binary \cup E!Unary,
         Sound(o, "none", w, t),
         o # << >> => E!TypeOf(op) \in E!Operand(o[Len(o)].op, o[Len(o)].leftType)
  PROVE  /\ Sound(OpenedNode(o, op), "none", w, t)
         /\ Interpreted(OpenedNode(o, op), t)
              = Append(Interpreted(o, t), [op |-> op, left |-> E!None])
<1> DEFINE n == [op |-> op, leftType |-> "none"]
           l == Len(o)
           p == OpenedNode(o, op)
<1>1. o \in Seq(Node) /\ n \in Node /\ l \in Nat /\ DOMAIN o = 1 .. l /\ Len(t) = Waiting(o, l)
  BY DEF Sound, Node
<1>2. n.op = op /\ n.leftType = "none"
  OBVIOUS
<1>3. p = Append(o, n) /\ l = Len(o)
  BY DEF OpenedNode
<1>4. l > 0 => E!TypeOf(op) \in E!Operand(o[l].op, o[l].leftType)
  BY <1>1
<1> HIDE DEF n, l, p
<1>5. /\ p \in Seq(Node) /\ Len(p) = l + 1 /\ DOMAIN p = 1 .. l + 1
      /\ p[l + 1] = n /\ \A j \in 1 .. l : p[j] = o[j]
  BY <1>1, <1>3
<1>6. \A j \in 1 .. l : /\ Waiting(p, j) = Waiting(o, j)
                        /\ Interpreted(p, t)[j] = Interpreted(o, t)[j]
  <2>1. l <= Len(o) /\ l <= Len(p) /\ Agree(o, p, l) /\ Agree(t, t, Waiting(o, l))
    BY <1>1, <1>3, <1>5 DEF Agree
  <2>2. o \in Seq(Node) /\ p \in Seq(Node) /\ l \in Nat
    BY <1>1, <1>5
  <2>3. \A j \in 1 .. l : /\ Waiting(p, j) = Waiting(o, j)
                          /\ o[j].leftType # "none" => t[Waiting(p, j)] = t[Waiting(o, j)]
                          /\ Interpreted(p, t)[j] = Interpreted(o, t)[j]
    BY ONLY <2>1, <2>2, InterpretedSame
  <2> QED BY <2>3
<1>7. Waiting(p, l + 1) = Waiting(o, l)
  <2>1. Waiting(p, l) = Waiting(o, l)
    <3>1. \A j \in 1 .. l : p[j].leftType = o[j].leftType
      BY <1>5
    <3> QED BY <1>1, <3>1, WaitingSame
  <2>2. p[l + 1].leftType = "none"
    BY <1>2, <1>5
  <2>3. Waiting(p, l) \in Nat
    BY <1>1, WaitingType
  <2>4. Waiting(p, l + 1) = Waiting(p, l) + 0
    BY <1>1, <2>2, WaitingStep
  <2> QED BY <2>1, <2>3, <2>4
<1>8. Sound(p, "none", w, t)
  <2>1. t \in Seq(Word) /\ w \in Word /\ Len(t) = Waiting(p, Len(p))
    BY <1>1, <1>5, <1>7 DEF Sound
  <2>2. ASSUME NEW k \in 1 .. Len(p), p[k].leftType # "none"
        PROVE  /\ p[k].op \in E!Binary
               /\ p[k].leftType \in E!Operand(p[k].op, "none")
               /\ Stands(p[k].leftType, t[Waiting(p, k)])
    <3>1. k \in 1 .. l
      BY <1>1, <1>2, <1>5, <2>2
    <3>2. p[k] = o[k] /\ Waiting(p, k) = Waiting(o, k) /\ k \in 1 .. Len(o)
      BY <1>3, <1>5, <1>6, <3>1
    <3> QED BY <2>2, <3>2 DEF Sound
  <2>3. ASSUME NEW k \in 1 .. Len(p) - 1
        PROVE  E!TypeOf(p[k + 1].op) \in E!Operand(p[k].op, p[k].leftType)
    <3>1. k \in 1 .. l
      BY <1>1, <1>5
    <3>2. CASE k < l
      <4>1. p[k] = o[k] /\ p[k + 1] = o[k + 1] /\ k \in 1 .. Len(o) - 1
        BY <1>1, <1>3, <1>5, <3>1, <3>2
      <4>2. E!TypeOf(o[k + 1].op) \in E!Operand(o[k].op, o[k].leftType)
        BY <4>1 DEF Sound
      <4> QED BY <4>1, <4>2
    <3>3. CASE k = l
      <4>1. p[k] = o[l] /\ p[k + 1] = n /\ l > 0
        BY <1>1, <1>5, <3>1, <3>3
      <4> QED BY <1>2, <1>4, <4>1
    <3> QED BY <1>1, <3>1, <3>2, <3>3
  <2> QED BY <1>5, <2>1, <2>2, <2>3 DEF Sound
<1>9. Interpreted(p, t) = Append(Interpreted(o, t), [op |-> op, left |-> E!None])
  <2> DEFINE I == Interpreted(o, t)
             J == Interpreted(p, t)
             m == [op |-> op, left |-> E!None]
  <2>1. PICK S : I \in Seq(S)
    BY <1>1, InterpretedShape
  <2>2. Len(I) = l
    BY <1>1, <1>3, InterpretedShape
  <2>3. (\E T : J \in Seq(T)) /\ Len(J) = l + 1
    BY <1>5, InterpretedShape
  <2>4. J[l + 1] = m
    <3>1. J[l + 1] = [op |-> n.op, left |-> Meant("none", 0)]
      BY <1>1, <1>2, <1>5 DEF Interpreted
    <3> QED BY <1>2, <3>1, Meanings
  <2>5. Agree(I, J, l)
    BY <1>6 DEF Agree
  <2> HIDE DEF I, J, m
  <2>6. J = Append(I, m)
    BY <1>1, <2>1, <2>2, <2>3, <2>4, <2>5, AppendIs
  <2> QED BY <2>6 DEF I, J, m
<1> QED BY <1>8, <1>9 DEF p

\* The first operand of a binary operator is pushed.
LEMMA SoundPush ==
  ASSUME NEW o, NEW ty, NEW w, NEW t, Sound(o, ty, w, t), ty # "none",
         o # << >>, o[Len(o)].op \in E!Binary, o[Len(o)].leftType = "none",
         NEW s \in Seq(Word), Len(s) = Len(t) + 1, s[Len(t) + 1] = w, Agree(t, s, Len(t))
  PROVE  /\ Sound(KeptType(o, ty), "none", w, s)
         /\ Interpreted(KeptType(o, ty), s)
              = [Interpreted(o, t) EXCEPT ![Len(o)].left = Meant(ty, w)]
<1> DEFINE p == KeptType(o, ty)
           l == Len(o)
           h == l - 1
           op == o[Len(o)].op
<1>1. /\ o \in Seq(Node) /\ ty \in {"int", "bool"} /\ w \in Word /\ t \in Seq(Word)
      /\ Len(t) = Waiting(o, Len(o)) /\ Stands(ty, w) /\ ty \in E!Operand(op, "none")
  BY DEF Sound
<1>2. /\ l \in Nat /\ l > 0 /\ h \in Nat /\ h + 1 = l /\ l = Len(o) /\ l \in 1 .. Len(o)
      /\ h <= Len(o) /\ h < l
  BY <1>1
<1>3. o[l] \in Node /\ o[l] = [op |-> op, leftType |-> "none"] /\ op \in E!Binary
  <2>1. o[l] \in Node
    BY <1>1, <1>2
  <2>2. o[l].op = op /\ o[l].leftType = "none"
    BY <1>2
  <2>3. o[l] = [op |-> o[l].op, leftType |-> o[l].leftType]
    BY <2>1 DEF Node
  <2> QED BY <2>1, <2>2, <2>3
<1>4. p = [o EXCEPT ![l] = [op |-> op, leftType |-> ty]]
  <2>1. [o[l] EXCEPT !.leftType = ty] = [op |-> op, leftType |-> ty]
    BY <1>3
  <2>2. p = [o EXCEPT ![l] = [o[l] EXCEPT !.leftType = ty]]
    BY DEF KeptType
  <2> QED BY <2>1, <2>2
<1> DEFINE n == [op |-> op, leftType |-> ty]
<1>5. n \in Node /\ n.op = op /\ n.leftType = ty
  BY <1>1, <1>3 DEF Node
<1> HIDE DEF l, h, op, n, p
<1>6. /\ p \in Seq(Node) /\ Len(p) = l /\ DOMAIN p = 1 .. l
      /\ p[l] = n /\ \A j \in 1 .. h : p[j] = o[j]
  <2>1. p = [o EXCEPT ![l] = n]
    BY <1>4 DEF n
  <2>2. l \in 1 .. Len(o) /\ n \in Node /\ o \in Seq(Node)
    BY <1>1, <1>2, <1>5
  <2>3. /\ p \in Seq(Node) /\ Len(p) = Len(o)
        /\ \A j \in 1 .. Len(o) : p[j] = IF j = l THEN n ELSE o[j]
    BY ONLY <2>1, <2>2, ExceptSeq
  <2>4. DOMAIN p = 1 .. Len(p)
    BY <2>3
  <2> QED BY <1>2, <2>3, <2>4
<1>7. /\ s \in Seq(Word) /\ Len(s) = Len(t) + 1 /\ s[Len(t) + 1] = w
      /\ \A i \in 1 .. Len(t) : s[i] = t[i]
  BY DEF Agree
<1>8. Waiting(o, l) = Waiting(o, h) /\ Waiting(o, h) \in Nat /\ Waiting(o, h) = Len(t)
  <2>1. Waiting(o, h) \in Nat
    BY <1>2, WaitingType
  <2>2. o[h + 1].leftType = "none"
    BY <1>2, <1>3
  <2>3. Waiting(o, h + 1) = Waiting(o, h) + 0
    BY <1>2, <2>2, WaitingStep
  <2> QED BY <1>1, <1>2, <2>1, <2>3
<1>9. \A j \in 1 .. h : /\ Waiting(p, j) = Waiting(o, j)
                        /\ o[j].leftType # "none" => s[Waiting(p, j)] = t[Waiting(o, j)]
                        /\ Interpreted(p, s)[j] = Interpreted(o, t)[j]
  <2>1. /\ o \in Seq(Node) /\ p \in Seq(Node) /\ h \in Nat /\ h <= Len(o) /\ h <= Len(p)
        /\ Agree(o, p, h) /\ Agree(t, s, Waiting(o, h))
    BY <1>1, <1>2, <1>6, <1>7, <1>8 DEF Agree
  <2> QED BY ONLY <2>1, InterpretedSame
<1>10. Waiting(p, l) = Len(t) + 1
  <2>1. Waiting(p, h) = Waiting(o, h)
    <3>1. \A j \in 1 .. h : p[j].leftType = o[j].leftType
      BY <1>6
    <3> QED BY <1>2, <3>1, WaitingSame
  <2>2. p[h + 1].leftType # "none"
    BY <1>1, <1>2, <1>5, <1>6
  <2>3. Waiting(p, h + 1) = Waiting(p, h) + 1
    BY <1>2, <2>2, WaitingStep
  <2> QED BY <1>2, <1>8, <2>1, <2>3
<1>11. Sound(p, "none", w, s)
  <2>1. Len(s) = Waiting(p, Len(p))
    BY <1>6, <1>7, <1>10
  <2>2. ASSUME NEW k \in 1 .. Len(p), p[k].leftType # "none"
        PROVE  /\ p[k].op \in E!Binary
               /\ p[k].leftType \in E!Operand(p[k].op, "none")
               /\ Stands(p[k].leftType, s[Waiting(p, k)])
    <3>1. CASE k = l
      BY <1>1, <1>3, <1>5, <1>6, <1>7, <1>10, <3>1
    <3>2. CASE k # l
      <4>1. k \in 1 .. h /\ k \in 1 .. Len(o)
        BY <1>2, <1>6, <3>2
      <4>2. p[k] = o[k] /\ o[k].leftType # "none" /\ s[Waiting(p, k)] = t[Waiting(o, k)]
        BY <1>6, <1>9, <2>2, <4>1
      <4> QED BY <4>1, <4>2 DEF Sound
    <3> QED BY <3>1, <3>2
  <2>3. ASSUME NEW k \in 1 .. Len(p) - 1
        PROVE  E!TypeOf(p[k + 1].op) \in E!Operand(p[k].op, p[k].leftType)
    <3>1. k \in 1 .. h /\ k \in 1 .. Len(o) - 1 /\ k + 1 \in 1 .. l
      BY <1>2, <1>6
    <3>2. E!TypeOf(o[k + 1].op) \in E!Operand(o[k].op, o[k].leftType)
      BY <3>1 DEF Sound
    <3>3. p[k] = o[k]
      BY <1>6, <3>1
    <3>4. p[k + 1].op = o[k + 1].op
      <4>1. CASE k + 1 = l
        BY <1>5, <1>6, <4>1 DEF op, l
      <4>2. CASE k + 1 # l
        BY <1>2, <1>6, <3>1, <4>2
      <4> QED BY <4>1, <4>2
    <3> QED BY <3>2, <3>3, <3>4
  <2> QED BY <1>1, <1>6, <1>7, <2>1, <2>2, <2>3 DEF Sound
<1>12. Interpreted(p, s) = [Interpreted(o, t) EXCEPT ![Len(o)].left = Meant(ty, w)]
  <2> DEFINE I == Interpreted(o, t)
             J == Interpreted(p, s)
             m == [op |-> op, left |-> Meant(ty, w)]
             K == [I EXCEPT ![l] = m]
  <2>1. (\E S : I \in Seq(S)) /\ Len(I) = l
    BY <1>1, <1>2, InterpretedShape
  <2>2. (\E S : J \in Seq(S)) /\ Len(J) = l
    BY <1>6, InterpretedShape
  <2>3. J[l] = m
    BY <1>1, <1>2, <1>5, <1>6, <1>7, <1>10 DEF Interpreted
  <2>4. \A j \in 1 .. h : J[j] = I[j]
    BY <1>9
  <2>5. [I[l] EXCEPT !.left = Meant(ty, w)] = m
    <3>1. l \in DOMAIN o /\ o[l].op = op
      BY <1>1, <1>2, <1>3
    <3> QED BY <3>1 DEF Interpreted
  <2>6. K = [I EXCEPT ![Len(o)].left = Meant(ty, w)]
    BY <1>2, <2>5
  <2> HIDE DEF I, J, m
  <2>7. PICK S : I \in Seq(S)
    BY <2>1
  <2>8. K \in Seq(S \cup {m}) /\ Len(K) = l /\ Agree(J, K, l)
    <3>1. I \in Seq(S \cup {m}) /\ m \in S \cup {m} /\ l \in 1 .. Len(I)
      <4>1. S \subseteq S \cup {m}
        OBVIOUS
      <4> QED BY <1>2, <2>1, <2>7, <4>1, SeqMonotonic
    <3>2. /\ K \in Seq(S \cup {m}) /\ Len(K) = l
          /\ \A j \in 1 .. l : K[j] = IF j = l THEN m ELSE I[j]
      BY <2>1, <3>1, ExceptSeq
    <3> HIDE DEF K
    <3>3. \A j \in 1 .. l : j = l \/ j \in 1 .. h
      BY <1>2
    <3> QED BY <2>3, <2>4, <3>2, <3>3 DEF Agree
  <2> HIDE DEF K
  <2>9. J = K
    BY <2>2, <2>8, SameSeq
  <2> QED BY <2>6, <2>9 DEF I, J
<1> QED BY <1>11, <1>12 DEF p

\* The innermost node is done: v is its value, s what is left on the stack.
LEMMA SoundClose ==
  ASSUME NEW o, NEW ty, NEW w, NEW t, Sound(o, ty, w, t), o # << >>,
         NEW s \in Seq(Word), Len(s) = Waiting(o, Len(o) - 1), Agree(t, s, Len(s)),
         NEW v, Stands(E!TypeOf(o[Len(o)].op), v)
  PROVE  /\ Sound(Front(o), E!TypeOf(o[Len(o)].op), v, s)
         /\ Interpreted(Front(o), s) = Front(Interpreted(o, t))
<1> DEFINE p == Front(o)
           l == Len(o)
           h == l - 1
           vt == E!TypeOf(o[Len(o)].op)
<1>1. o \in Seq(Node) /\ vt \in {"int", "bool"} /\ v \in Word
  BY DEF Sound, Stands, E!TypeOf
<1>2. l \in Nat /\ l > 0 /\ h \in Nat /\ h + 1 = l /\ l = Len(o) /\ h <= Len(o)
  BY <1>1
<1>3. p \in Seq(Node) /\ Len(p) = h /\ \A j \in 1 .. h : p[j] = o[j]
  BY <1>1, <1>2 DEF Front
<1> HIDE DEF l, h, vt, p
<1>4. \A j \in 1 .. h : /\ Waiting(p, j) = Waiting(o, j)
                        /\ o[j].leftType # "none" => s[Waiting(p, j)] = t[Waiting(o, j)]
                        /\ Interpreted(p, s)[j] = Interpreted(o, t)[j]
  <2>1. /\ o \in Seq(Node) /\ p \in Seq(Node) /\ h \in Nat /\ h <= Len(o) /\ h <= Len(p)
        /\ Agree(o, p, h) /\ Agree(t, s, Waiting(o, h))
    BY <1>1, <1>2, <1>3 DEF Agree, h, l
  <2> QED BY ONLY <2>1, InterpretedSame
<1>5. Len(s) = Waiting(p, Len(p))
  <2>1. \A j \in 1 .. h : p[j].leftType = o[j].leftType
    BY <1>3
  <2>2. Waiting(p, h) = Waiting(o, h)
    BY <1>2, <2>1, WaitingSame
  <2> QED BY <1>3, <2>2 DEF h, l
<1>6. Sound(p, vt, v, s)
  <2>1. ASSUME NEW k \in 1 .. Len(p), p[k].leftType # "none"
        PROVE  /\ p[k].op \in E!Binary
               /\ p[k].leftType \in E!Operand(p[k].op, "none")
               /\ Stands(p[k].leftType, s[Waiting(p, k)])
    <3>1. k \in 1 .. h /\ k \in 1 .. Len(o)
      BY <1>2, <1>3
    <3>2. p[k] = o[k] /\ o[k].leftType # "none" /\ s[Waiting(p, k)] = t[Waiting(o, k)]
      BY <1>3, <1>4, <2>1, <3>1
    <3> QED BY <3>1, <3>2 DEF Sound
  <2>2. ASSUME NEW k \in 1 .. Len(p) - 1
        PROVE  E!TypeOf(p[k + 1].op) \in E!Operand(p[k].op, p[k].leftType)
    <3>1. k \in 1 .. h /\ k + 1 \in 1 .. h /\ k \in 1 .. Len(o) - 1
      BY <1>2, <1>3
    <3>2. E!TypeOf(o[k + 1].op) \in E!Operand(o[k].op, o[k].leftType)
      BY <3>1 DEF Sound
    <3> QED BY <1>3, <3>1, <3>2
  <2>3. p # << >> => vt \in E!Operand(p[Len(p)].op, p[Len(p)].leftType)
    <3> SUFFICES ASSUME p # << >> PROVE vt \in E!Operand(p[Len(p)].op, p[Len(p)].leftType)
      OBVIOUS
    <3>0. h # 0
      BY <1>3, EmptySeq, Zenon
    <3>1. h \in 1 .. Len(o) - 1 /\ h + 1 = Len(o) /\ p[Len(p)] = o[h]
      BY <1>2, <1>3, <3>0
    <3>2. E!TypeOf(o[h + 1].op) \in E!Operand(o[h].op, o[h].leftType)
      BY <3>1 DEF Sound
    <3> QED BY <3>1, <3>2 DEF vt
  <2>4. Stands(vt, v)
    BY DEF vt
  <2> QED BY <1>1, <1>3, <1>5, <2>1, <2>2, <2>3, <2>4 DEF Sound
<1>7. Interpreted(p, s) = Front(Interpreted(o, t))
  <2> DEFINE I == Interpreted(o, t)
             J == Interpreted(p, s)
  <2>1. (\E S : I \in Seq(S)) /\ Len(I) = l /\ I # << >>
    BY <1>1, <1>2, InterpretedShape
  <2>2. (\E S : J \in Seq(S)) /\ Len(J) = h
    BY <1>3, InterpretedShape
  <2>3. Agree(I, J, h)
    BY <1>4 DEF Agree
  <2> HIDE DEF I, J
  <2>4. Len(J) = Len(I) - 1 /\ Agree(I, J, Len(J))
    BY <2>1, <2>2, <2>3 DEF h
  <2>5. J = SubSeq(I, 1, Len(I) - 1)
    BY <2>1, <2>2, <2>4, FrontIs
  <2> QED BY <2>5 DEF I, J, Front
<1> QED BY <1>6, <1>7 DEF vt, p

\* The operands of a binary operator: the popped word and rax.
LEMMA SoundBinary ==
  ASSUME NEW o, NEW ty, NEW w, NEW t, Sound(o, ty, w, t), ty # "none",
         o # << >>, o[Len(o)].leftType # "none"
  PROVE  /\ o[Len(o)].op \in E!Binary
         /\ o[Len(o)].leftType \in E!Operand(o[Len(o)].op, "none")
         /\ ty \in E!Operand(o[Len(o)].op, o[Len(o)].leftType)
         /\ Stands(o[Len(o)].leftType, t[Len(t)]) /\ Stands(ty, w)
         /\ Interpreted(o, t)[Len(o)].left = Meant(o[Len(o)].leftType, t[Len(t)])
         /\ Front(t) \in Seq(Word) /\ Len(Front(t)) = Waiting(o, Len(o) - 1)
         /\ Agree(t, Front(t), Len(Front(t)))
<1> DEFINE s == Front(t)
           l == Len(o)
           h == l - 1
<1>1. /\ o \in Seq(Node) /\ t \in Seq(Word) /\ Len(t) = Waiting(o, Len(o)) /\ Stands(ty, w)
      /\ ty \in E!Operand(o[Len(o)].op, o[Len(o)].leftType)
  BY DEF Sound
<1>2. l \in Nat /\ l > 0 /\ h \in Nat /\ h + 1 = l /\ l = Len(o) /\ l \in 1 .. Len(o)
  BY <1>1
<1> HIDE DEF l, h
<1>3. /\ o[l].op \in E!Binary /\ o[l].leftType \in E!Operand(o[l].op, "none")
      /\ Stands(o[l].leftType, t[Waiting(o, l)])
  BY <1>2 DEF Sound
<1>4. Waiting(o, h) \in Nat /\ Waiting(o, l) = Waiting(o, h) + 1
  <2>1. Waiting(o, h) \in Nat /\ o[h + 1].leftType # "none"
    BY <1>2, WaitingType
  <2>2. Waiting(o, h + 1) = Waiting(o, h) + 1
    BY <1>2, <2>1, WaitingStep
  <2> QED BY <1>2, <2>1, <2>2
<1>5. Interpreted(o, t)[l].left = Meant(o[l].leftType, t[Waiting(o, l)])
  BY <1>1, <1>2, InterpretedShape
<1>6. s \in Seq(Word) /\ Len(s) = Len(t) - 1 /\ \A i \in 1 .. Len(s) : s[i] = t[i]
  BY <1>1, <1>2, <1>4 DEF Front
<1> HIDE DEF s
<1>7. Len(s) = Waiting(o, h) /\ Agree(t, s, Len(s))
  BY <1>1, <1>2, <1>4, <1>6 DEF Agree
<1> QED BY <1>1, <1>2, <1>3, <1>5, <1>6, <1>7 DEF h, l, s

\* The operand of a unary operator: rax.
LEMMA SoundUnary ==
  ASSUME NEW o, NEW ty, NEW w, NEW t, Sound(o, ty, w, t), ty # "none",
         o # << >>, o[Len(o)].op \in E!Unary
  PROVE  /\ ty \in E!Operand(o[Len(o)].op, "none") /\ Stands(ty, w)
         /\ t \in Seq(Word) /\ Len(t) = Waiting(o, Len(o) - 1) /\ Agree(t, t, Len(t))
<1> DEFINE l == Len(o)
           h == l - 1
<1>1. /\ o \in Seq(Node) /\ t \in Seq(Word) /\ Len(t) = Waiting(o, Len(o)) /\ Stands(ty, w)
      /\ ty \in E!Operand(o[Len(o)].op, o[Len(o)].leftType)
  BY DEF Sound
<1>2. l \in Nat /\ l > 0 /\ h \in Nat /\ h + 1 = l /\ l = Len(o) /\ l \in 1 .. Len(o)
  BY <1>1
<1> HIDE DEF l, h
<1>3. o[l].leftType = "none"
  <2>1. o[l].leftType # "none" => o[l].op \in E!Binary
    BY <1>2 DEF Sound
  <2>2. o[l].op \in E!Unary
    BY <1>2
  <2> QED BY <2>1, <2>2
         DEF E!Binary, E!Unary, E!Arithmetic, E!Order, E!Equality, E!Logic
<1>4. Len(t) = Waiting(o, h)
  <2>1. Waiting(o, h) \in Nat /\ o[h + 1].leftType = "none"
    BY <1>2, <1>3, WaitingType
  <2>2. Waiting(o, h + 1) = Waiting(o, h) + 0
    BY <1>2, <2>1, WaitingStep
  <2> QED BY <1>1, <1>2, <2>1, <2>2
<1> QED BY <1>1, <1>2, <1>3, <1>4 DEF Agree, h, l

-------------------------------------------------------------------------------
(* The interpreter's steps, in the words of this module. *)

\* Evaluation's open, as the instance E has it.
EvaluationOpen ==
  [k \in DOMAIN open |->
     [op |-> open[k].op,
      left |-> Meant(open[k].leftType,
                     IF open[k].leftType = "none" THEN 0 ELSE temps[Pushed(k)])]]

LEMMA OpenIs ==
  /\ EvaluationOpen = Interpreted(open, temps)
  /\ EvaluationOpen' = Interpreted(open', temps')
BY DEF EvaluationOpen, Interpreted, Pushed, Waiting, Waits

LEMMA Fitting ==
  ASSUME NEW t, open \in Seq(Node)
  PROVE  E!Fits(t) <=> (open # << >> => t \in E!Operand(Top.op, Top.leftType))
<1> DEFINE I == Interpreted(open, temps)
<1>1. E!Fits(t) <=> (I # << >> => t \in E!Operand(I[Len(I)].op, I[Len(I)].left.type))
  BY OpenIs DEF E!Fits, E!Top, EvaluationOpen
<1>2. /\ Len(I) = Len(open) /\ (I # << >> <=> open # << >>)
      /\ \A k \in 1 .. Len(open) : I[k].op = open[k].op /\ I[k].left.type = open[k].leftType
  BY InterpretedShape
<1> HIDE DEF I
<1>3. open # << >> => Len(open) \in 1 .. Len(open)
  OBVIOUS
<1> QED BY <1>1, <1>2, <1>3 DEF Top

-------------------------------------------------------------------------------
(* The inductive invariant. *)

IInv ==
  /\ outcome \in {"running", "stopped"}
  /\ open \in Seq(Node) /\ type \in {"none", "int", "bool"}
  /\ rax \in Word /\ temps \in Seq(Word)
  /\ outcome = "running" => Sound(open, type, rax, temps)

LEMMA IInvInit ==
  ASSUME Init
  PROVE  IInv /\ E!Init
<1>1. << >> \in Seq(Node) /\ << >> \in Seq(Word) /\ Len(<< >>) = 0
  OBVIOUS
<1>2. Waiting(<< >>, 0) = 0
  BY WaitingNone
<1>3. Sound(open, type, rax, temps)
  BY <1>1, <1>2 DEF Init, Sound
<1>4. IInv
  BY <1>1, <1>3 DEF Init, IInv
<1>5. Interpreted(open, temps) = << >>
  BY <1>1, InterpretedShape DEF Init
<1>6. E!Init
  BY <1>5, OpenIs, Meanings DEF Init, E!Init, EvaluationOpen
<1> QED BY <1>4, <1>6

LEMMA OperatorStep ==
  ASSUME IInv, NEW op \in E!Binary \cup E!Unary, operator(op)
  PROVE  IInv' /\ E!Begin(op)
<1>1. /\ open' = Append(open, [op |-> op, leftType |-> "none"])
      /\ type' = type /\ rax' = rax /\ temps' = temps /\ outcome' = outcome
      /\ outcome = "running" /\ type = "none" /\ E!Fits(E!TypeOf(op)) /\ Len(open) < MaxOpen
  BY DEF operator, Wanted
<1>2. Sound(open, "none", rax, temps) /\ open \in Seq(Node)
  BY <1>1 DEF IInv
<1>3. open # << >> => E!TypeOf(op) \in E!Operand(open[Len(open)].op, open[Len(open)].leftType)
  BY <1>1, <1>2, Fitting DEF Top
<1>4. /\ Sound(open', "none", rax, temps)
      /\ Interpreted(open', temps)
           = Append(Interpreted(open, temps), [op |-> op, left |-> E!None])
  <2>1. /\ op \in E!Binary \cup E!Unary
        /\ Sound(open, "none", rax, temps)
        /\ open # << >> =>
             E!TypeOf(op) \in E!Operand(open[Len(open)].op, open[Len(open)].leftType)
    BY <1>2, <1>3
  <2>2. open' = OpenedNode(open, op)
    BY <1>1 DEF OpenedNode
  <2> QED BY ONLY <2>1, <2>2, SoundOpen
<1>5. IInv'
  BY <1>1, <1>4 DEF IInv, Sound
<1>6. Len(Interpreted(open, temps)) < MaxOpen
  BY <1>1, <1>2, InterpretedShape
<1>7. Interpreted(open', temps')
        = Append(Interpreted(open, temps), [op |-> op, left |-> E!None])
  BY <1>1, <1>4
<1>8. Meant(type, rax) = E!None /\ Meant(type, rax)' = Meant(type, rax)
  BY <1>1, Meanings
<1>9. E!Begin(op)
  BY <1>1, <1>6, <1>7, <1>8, OpenIs DEF E!Begin, E!Wanted, EvaluationOpen
<1> QED BY <1>5, <1>9

LEMMA LoadStep ==
  ASSUME IInv, NEW v \in E!Value, load(v)
  PROVE  IInv' /\ E!Leaf(v)
<1>1. /\ open' = open /\ temps' = temps /\ outcome' = outcome
      /\ type' = v.type /\ rax' = WordOf(v)
      /\ outcome = "running" /\ type = "none" /\ E!Fits(v.type)
  BY DEF load, Wanted
<1>2. Sound(open, "none", rax, temps) /\ open \in Seq(Node)
  BY <1>1 DEF IInv
<1>3. open # << >> => v.type \in E!Operand(open[Len(open)].op, open[Len(open)].leftType)
  BY <1>1, <1>2, Fitting DEF Top
<1>4. /\ v.type \in {"int", "bool"} /\ Stands(v.type, WordOf(v)) /\ WordOf(v) \in Word
      /\ Meant(v.type, WordOf(v)) = v
  BY Values DEF Stands
<1>5. Sound(open, v.type, WordOf(v), temps)
  BY <1>2, <1>3, <1>4 DEF Sound
<1>6. IInv'
  BY <1>1, <1>5 DEF IInv, Sound
<1>7. Meant(type, rax) = E!None /\ Meant(type, rax)' = v
  BY <1>1, <1>4, Meanings
<1>8. Interpreted(open', temps') = Interpreted(open, temps)
  BY <1>1
<1>9. E!Leaf(v)
  BY <1>1, <1>7, <1>8, OpenIs DEF E!Leaf, E!Wanted, EvaluationOpen
<1> QED BY <1>6, <1>9

LEMMA PushStep ==
  ASSUME IInv, emitPush
  PROVE  IInv' /\ E!KeepLeft
<1>1. /\ open' = [open EXCEPT ![Len(open)].leftType = type]
      /\ temps' = Append(temps, rax) /\ type' = "none" /\ rax' = rax /\ outcome' = outcome
      /\ outcome = "running" /\ type # "none" /\ open # << >>
      /\ open[Len(open)].op \in E!Binary /\ open[Len(open)].leftType = "none"
  BY DEF emitPush, Got, Top
<1>2. Sound(open, type, rax, temps) /\ open \in Seq(Node) /\ type \in {"none", "int", "bool"}
  BY <1>1 DEF IInv
<1>3. /\ Sound(open', "none", rax, temps')
      /\ Interpreted(open', temps')
           = [Interpreted(open, temps) EXCEPT ![Len(open)].left = Meant(type, rax)]
  <2>1. /\ Sound(open, type, rax, temps) /\ type # "none" /\ open # << >>
        /\ open[Len(open)].op \in E!Binary /\ open[Len(open)].leftType = "none"
    BY <1>1, <1>2
  <2>2. open' = KeptType(open, type)
    BY <1>1 DEF KeptType
  <2>3. temps \in Seq(Word) /\ rax \in Word
    BY DEF IInv
  <2>4. /\ temps' \in Seq(Word) /\ Len(temps') = Len(temps) + 1
        /\ temps'[Len(temps) + 1] = rax /\ Agree(temps, temps', Len(temps))
    BY <1>1, <2>3, AppendProperties DEF Agree
  <2> QED BY ONLY <2>1, <2>2, <2>4, SoundPush
<1>4. IInv'
  BY <1>1, <1>3 DEF IInv, Sound
<1> DEFINE I == Interpreted(open, temps)
<1>5. /\ Len(I) = Len(open) /\ I # << >>
      /\ I[Len(I)].op \in E!Binary /\ I[Len(I)].left = E!None
  <2>1. Len(open) \in 1 .. Len(open)
    BY <1>1, <1>2
  <2> QED BY <1>1, <1>2, <2>1, InterpretedShape
<1>6. Meant(type, rax) # E!None /\ Meant(type, rax)' = E!None
  BY <1>1, <1>2, Meanings, NoMeaning
<1>7. Interpreted(open', temps') = [I EXCEPT ![Len(I)].left = Meant(type, rax)]
  BY <1>3, <1>5
<1> HIDE DEF I
<1>8. EvaluationOpen = I /\ EvaluationOpen' = Interpreted(open', temps')
  BY OpenIs DEF I
<1>9. E!KeepLeft
  BY <1>1, <1>5, <1>6, <1>7, <1>8 DEF E!KeepLeft, E!Got, E!Top, EvaluationOpen
<1> QED BY <1>4, <1>9

\* What the interpreter sees of the innermost node.
LEMMA InnermostIs ==
  ASSUME open \in Seq(Node), open # << >>
  PROVE  /\ E!Top = EvaluationOpen[Len(EvaluationOpen)]
         /\ EvaluationOpen = Interpreted(open, temps) /\ EvaluationOpen # << >>
         /\ E!Top = Interpreted(open, temps)[Len(open)]
         /\ E!Top.op = open[Len(open)].op
         /\ E!Top.left = E!None <=> open[Len(open)].leftType = "none"
<1> DEFINE I == Interpreted(open, temps)
<1>1. E!Top = EvaluationOpen[Len(EvaluationOpen)] /\ EvaluationOpen = I
  BY OpenIs DEF E!Top, EvaluationOpen
<1>2. Len(open) \in 1 .. Len(open)
  OBVIOUS
<1>3. /\ Len(I) = Len(open) /\ I # << >> /\ I[Len(open)].op = open[Len(open)].op
      /\ I[Len(open)].left = E!None <=> open[Len(open)].leftType = "none"
  BY <1>2, InterpretedShape
<1> QED BY <1>1, <1>3

LEMMA BinaryStep ==
  ASSUME IInv, emitBinary
  PROVE  IInv' /\ (E!ApplyBinary \/ E!Stop)
<1> DEFINE op == open[Len(open)].op
           lt == open[Len(open)].leftType
           x  == temps[Len(temps)]
           vt == E!TypeOf(op)
<1>1. /\ outcome = "running" /\ type # "none" /\ open # << >> /\ lt # "none"
      /\ temps' = Front(temps)
      /\ IF Trap(op, x, rax)
         THEN outcome' = "stopped" /\ open' = << >> /\ type' = "none" /\ rax' = rax
         ELSE /\ rax' = Emitted(op, x, rax) /\ type' = vt
              /\ open' = Front(open) /\ outcome' = outcome
  BY DEF emitBinary, Got, Top, Popped, Closed, Front
<1>2. /\ Sound(open, type, rax, temps) /\ open \in Seq(Node)
      /\ type \in {"none", "int", "bool"} /\ rax \in Word
  BY <1>1 DEF IInv
<1>3. /\ op \in E!Binary /\ lt \in E!Operand(op, "none") /\ type \in E!Operand(op, lt)
      /\ Stands(lt, x) /\ Stands(type, rax)
      /\ Interpreted(open, temps)[Len(open)].left = Meant(lt, x)
      /\ Front(temps) \in Seq(Word) /\ Len(Front(temps)) = Waiting(open, Len(open) - 1)
      /\ Agree(temps, Front(temps), Len(Front(temps)))
  BY <1>1, <1>2, SoundBinary
<1>4. /\ E!Top.op = op /\ E!Top.left = Meant(lt, x) /\ E!Top.left # E!None
      /\ EvaluationOpen = Interpreted(open, temps) /\ EvaluationOpen # << >>
  BY <1>1, <1>2, <1>3, InnermostIs
<1>5. Meant(type, rax) # E!None
  BY <1>1, <1>2, NoMeaning
<1>6. Trap(op, x, rax) <=> E!NoResult(E!Top.op, E!Top.left, Meant(type, rax))
  <2>1. x \in Word
    BY <1>3 DEF Stands
  <2> QED BY <1>2, <1>3, <1>4, <2>1, TrapAgrees
<1> HIDE DEF op, lt, x, vt
<1>7. CASE Trap(op, x, rax)
  <2>1. /\ outcome' = "stopped" /\ open' = << >> /\ type' = "none" /\ rax' = rax
    BY <1>1, <1>7
  <2>2. IInv'
    <3>1. << >> \in Seq(Node)
      OBVIOUS
    <3> QED BY <1>1, <1>2, <1>3, <2>1, <3>1 DEF IInv
  <2>3. EvaluationOpen' = << >>
    BY <2>1, OpenIs, InterpretedShape, EmptySeq DEF Interpreted
  <2>4. Meant(type, rax)' = E!None
    BY <2>1, Meanings
  <2>5. E!Stop
    BY <1>1, <1>4, <1>5, <1>6, <1>7, <2>1, <2>3, <2>4 DEF E!Stop, E!Got, EvaluationOpen
  <2> QED BY <2>2, <2>5
<1>8. CASE ~Trap(op, x, rax)
  <2>1. rax' = Emitted(op, x, rax) /\ type' = vt /\ open' = Front(open) /\ outcome' = outcome
    BY <1>1, <1>8
  <2>2. /\ Stands(vt, Emitted(op, x, rax))
        /\ Meant(vt, Emitted(op, x, rax))
             = E!evaluateBinaryOp(op, Meant(lt, x), Meant(type, rax))
    BY <1>3, <1>8, BinaryAgrees DEF vt
  <2>3. /\ Sound(Front(open), vt, Emitted(op, x, rax), Front(temps))
        /\ Interpreted(Front(open), Front(temps)) = Front(Interpreted(open, temps))
    <3>1. Stands(E!TypeOf(open[Len(open)].op), Emitted(op, x, rax)) /\ vt = E!TypeOf(open[Len(open)].op)
      BY <2>2 DEF vt, op
    <3> QED BY <1>1, <1>2, <1>3, <3>1, SoundClose
  <2>4. IInv'
    BY <1>1, <2>1, <2>3 DEF IInv, Sound
  <2>5. EvaluationOpen' = Front(EvaluationOpen)
    BY <1>1, <1>4, <2>1, <2>3, OpenIs
  <2>6. Meant(type, rax)' = E!evaluateBinaryOp(E!Top.op, E!Top.left, Meant(type, rax))
    BY <1>4, <2>1, <2>2
  <2>7. E!ApplyBinary
    BY <1>1, <1>4, <1>5, <1>6, <1>8, <2>1, <2>5, <2>6
       DEF E!ApplyBinary, E!Got, E!Outer, EvaluationOpen, Front
  <2> QED BY <2>4, <2>7
<1> QED BY <1>7, <1>8

LEMMA UnaryStep ==
  ASSUME IInv, emitUnary
  PROVE  IInv' /\ E!ApplyUnary
<1> DEFINE op == open[Len(open)].op
           w  == EmittedUnary(op, rax)
           vt == E!TypeOf(op)
<1>1. /\ outcome = "running" /\ type # "none" /\ open # << >> /\ op \in E!Unary
      /\ rax' = w /\ type' = vt /\ open' = Front(open)
      /\ temps' = temps /\ outcome' = outcome
  BY DEF emitUnary, Got, Top, Closed, Front
<1>2. /\ Sound(open, type, rax, temps) /\ open \in Seq(Node)
      /\ type \in {"none", "int", "bool"}
  BY <1>1 DEF IInv
<1>3. /\ type \in E!Operand(op, "none") /\ Stands(type, rax)
      /\ temps \in Seq(Word) /\ Len(temps) = Waiting(open, Len(open) - 1)
      /\ Agree(temps, temps, Len(temps))
  BY <1>1, <1>2, SoundUnary
<1>4. /\ E!Top.op = op
      /\ EvaluationOpen = Interpreted(open, temps) /\ EvaluationOpen # << >>
  BY <1>1, <1>2, InnermostIs
<1>5. Meant(type, rax) # E!None
  BY <1>1, <1>2, NoMeaning
<1>6. Stands(vt, w) /\ Meant(vt, w) = E!evaluateUnaryOp(op, Meant(type, rax))
  BY <1>1, <1>3, UnaryAgrees
<1>7. /\ Sound(Front(open), vt, w, temps)
      /\ Interpreted(Front(open), temps) = Front(Interpreted(open, temps))
  BY <1>1, <1>2, <1>3, <1>6, SoundClose
<1> HIDE DEF op, w, vt
<1>8. IInv'
  BY <1>1, <1>7 DEF IInv, Sound
<1>9. EvaluationOpen' = Front(EvaluationOpen)
  BY <1>1, <1>4, <1>7, OpenIs
<1>10. Meant(type, rax)' = E!evaluateUnaryOp(E!Top.op, Meant(type, rax))
  BY <1>1, <1>4, <1>6
<1>11. E!ApplyUnary
  BY <1>1, <1>4, <1>5, <1>9, <1>10 DEF E!ApplyUnary, E!Got, E!Outer, EvaluationOpen, Front
<1> QED BY <1>8, <1>11

LEMMA UseStep ==
  ASSUME IInv, use
  PROVE  IInv' /\ E!Finish
<1>1. /\ outcome = "running" /\ type # "none" /\ open = << >>
      /\ type' = "none" /\ open' = open /\ rax' = rax /\ temps' = temps /\ outcome' = outcome
  BY DEF use, Got
<1>2. Sound(open, type, rax, temps) /\ open \in Seq(Node) /\ type \in {"none", "int", "bool"}
  BY <1>1 DEF IInv
<1>3. IInv'
  BY <1>1, <1>2 DEF IInv, Sound
<1>4. EvaluationOpen = << >>
  BY <1>1, <1>2, OpenIs, InterpretedShape
<1>5. EvaluationOpen' = EvaluationOpen
  BY <1>1, OpenIs
<1>6. Meant(type, rax) # E!None /\ Meant(type, rax)' = E!None
  BY <1>1, <1>2, NoMeaning, Meanings
<1>7. E!Finish
  BY <1>1, <1>4, <1>5, <1>6 DEF E!Finish, E!Got, EvaluationOpen
<1> QED BY <1>3, <1>7

LEMMA NextStep ==
  ASSUME IInv, Next
  PROVE  IInv' /\ E!Next
<1>1. ASSUME NEW op \in E!Binary \cup E!Unary, operator(op)
      PROVE  IInv' /\ E!Next
  BY <1>1, OperatorStep DEF E!Next
<1>2. ASSUME NEW v \in E!Value, load(v)
      PROVE  IInv' /\ E!Next
  BY <1>2, LoadStep DEF E!Next
<1>3. CASE emitPush
  BY <1>3, PushStep DEF E!Next
<1>4. CASE emitBinary
  BY <1>4, BinaryStep DEF E!Next
<1>5. CASE emitUnary
  BY <1>5, UnaryStep DEF E!Next
<1>6. CASE use
  BY <1>6, UseStep DEF E!Next
<1> QED BY <1>1, <1>2, <1>3, <1>4, <1>5, <1>6 DEF Next

LEMMA StutterStep ==
  ASSUME UNCHANGED vars
  PROVE  (IInv => IInv') /\ UNCHANGED E!vars
<1>1. /\ open' = open /\ type' = type /\ rax' = rax /\ temps' = temps /\ outcome' = outcome
  BY DEF vars
<1>2. IInv => IInv'
  BY <1>1 DEF IInv
<1>3. EvaluationOpen' = EvaluationOpen
  BY <1>1, OpenIs
<1>4. UNCHANGED E!vars
  BY <1>1, <1>3 DEF E!vars, EvaluationOpen
<1> QED BY <1>2, <1>4

LEMMA Invariance == Spec => []IInv
<1>1. Init => IInv
  BY IInvInit
<1>2. IInv /\ [Next]_vars => IInv'
  BY NextStep, StutterStep
<1> QED BY <1>1, <1>2, PTL DEF Spec

\* One word is on the stack for every left operand that waits for its right one, however
\* deep the expression: emitPush and emitPop pair up.
THEOREM TypeCorrect == Spec => []TypeOK
<1>1. IInv => TypeOK
  BY PushedIsWaiting DEF IInv, TypeOK, Sound, Node
<1> QED BY <1>1, Invariance, PTL

\* A truth value in a register or on the stack is 0 or 1.
THEOREM Normalised == Spec => []BooleansNormalised
<1>1. IInv => BooleansNormalised
  <2> SUFFICES ASSUME IInv, outcome = "running"
               PROVE  /\ type = "bool" => rax \in {0, 1}
                      /\ \A k \in DOMAIN open :
                           open[k].leftType = "bool" => temps[Pushed(k)] \in {0, 1}
    BY DEF BooleansNormalised
  <2>1. Sound(open, type, rax, temps) /\ DOMAIN open = 1 .. Len(open)
    BY DEF IInv
  <2>2. type = "bool" => rax \in {0, 1}
    BY <2>1 DEF Sound, Stands
  <2>3. ASSUME NEW k \in DOMAIN open, open[k].leftType = "bool"
        PROVE  temps[Pushed(k)] \in {0, 1}
    BY <2>1, <2>3, PushedIsWaiting DEF Sound, Stands
  <2> QED BY <2>2, <2>3
<1> QED BY <1>1, Invariance, PTL

\* Whatever the words, the operators and the nesting, compiled code computes what the
\* interpreter does: each node's instructions are a step of the interpreter's.
THEOREM Implements == Spec => ImplementsEvaluation
<1>1. Init => E!Init
  BY IInvInit
<1>2. IInv /\ [Next]_vars => [E!Next]_E!vars
  BY NextStep, StutterStep
<1> QED BY <1>1, <1>2, Invariance, PTL DEF Spec, ImplementsEvaluation, E!Spec

-------------------------------------------------------------------------------
(* ARM64: constants are put together from pieces. *)

\* One more digit of a remainder.
LEMMA ModTwice ==
  ASSUME NEW a \in Nat, NEW m \in Nat, m > 0, NEW n \in Nat, n > 0
  PROVE  a % (m * n) = ((a \div m) % n) * m + (a % m)
<1> DEFINE q == a \div m
           r == a % m
           k == q \div n
           s == q % n
<1>1. r \in 0 .. m - 1 /\ q \in Int /\ a = q * m + r
  BY DivMod
<1> HIDE DEF q, r
<1>2. s \in 0 .. n - 1 /\ k \in Int /\ q = k * n + s
  BY <1>1, DivMod
<1> HIDE DEF k, s
<1> DEFINE mn == m * n
           d  == s * m + r
<1>3. mn \in Nat /\ mn > 0
  <2>1. m * n >= m
    OBVIOUS
  <2> QED BY <2>1
<1>4. d \in 0 .. mn - 1
  <2>1. s * m \in Int /\ s * m >= 0
    BY <1>2
  <2>2. s * m <= (n - 1) * m
    BY <1>2
  <2>3. (n - 1) * m = mn - m
    OBVIOUS
  <2> HIDE DEF mn
  <2> QED BY <1>1, <1>3, <2>1, <2>2, <2>3
<1>5. a = k * mn + d
  <2>1. q * m = (k * n) * m + s * m
    BY <1>2
  <2>2. (k * n) * m = k * mn
    BY <1>2
  <2> DEFINE x == k * mn
             y == s * m
  <2>3. x \in Int /\ y \in Int /\ r \in Int /\ a = (x + y) + r
    BY <1>1, <1>2, <2>1, <2>2
  <2>4. d = y + r
    OBVIOUS
  <2> HIDE DEF x, y, d
  <2>5. a = x + d
    BY <2>3, <2>4
  <2> QED BY <2>5 DEF x
<1> HIDE DEF mn, d
<1>6. a % mn = d
  BY <1>2, <1>3, <1>4, <1>5, DivModIs
<1> QED BY <1>6 DEF mn, d, q, r, s

LEMMA ModSmall ==
  ASSUME NEW m \in Nat, m > 0, NEW a \in 0 .. m - 1
  PROVE  a % m = a /\ a \div m = 0
<1>1. a = 0 * m + a /\ 0 \in Int /\ a \in Int
  OBVIOUS
<1> QED BY <1>1, DivModIs

LEMMA MovkIs ==
  ASSUME NEW a \in Nat, NEW u \in Nat, u > 0
  PROVE  Movk(a, u) = ((a \div u) % Piece) * u
<1>1. CASE a >= u
  BY <1>1 DEF Movk
<1>2. CASE ~(a >= u)
  <2>1. a \div u = 0
    BY <1>2, ModSmall
  <2>2. 0 % Piece = 0
    BY PieceAssumption, ModSmall
  <2> QED BY <1>2, <2>1, <2>2 DEF Movk
<1> QED BY <1>1, <1>2

\* movz and movk put any word together.
LEMMA MovImm64Is ==
  ASSUME NEW a \in 0 .. 2 * Half - 1
  PROVE  MovImm64(a) = a
<1> DEFINE m2 == Piece * Piece
           m3 == m2 * Piece
           m4 == m3 * Piece
<1>1. Piece \in Nat /\ Piece > 0
  BY PieceAssumption
<1>2. m2 \in Nat /\ m2 > 0
  <2>1. m2 >= Piece
    BY <1>1
  <2> QED BY <1>1, <2>1
<1>3. m3 \in Nat /\ m3 > 0
  <2> HIDE DEF m2
  <2>1. m3 >= m2
    BY <1>1, <1>2
  <2> QED BY <1>1, <1>2, <2>1
<1>4. m4 = 2 * Half /\ m4 \in Nat /\ m4 > 0
  BY PieceAssumption, Numbers
<1>5. a \in Nat /\ a % m4 = a
  BY <1>4, ModSmall
<1>6. MovImm64(a) = (a % Piece) + Movk(a, Piece) + Movk(a, m2) + Movk(a, m3)
  BY DEF MovImm64
<1> DEFINE d0 == a % Piece
           d1 == ((a \div Piece) % Piece) * Piece
           d2 == ((a \div m2) % Piece) * m2
           d3 == ((a \div m3) % Piece) * m3
<1>7. MovImm64(a) = d0 + d1 + d2 + d3
  <2> HIDE DEF m2, m3, m4
  <2> QED BY <1>1, <1>2, <1>3, <1>5, <1>6, MovkIs
<1>8. a % m2 = d1 + d0
  BY <1>1, <1>5, ModTwice
<1> HIDE DEF m2
<1>9. a % m3 = d2 + (a % m2)
  BY <1>1, <1>2, <1>5, ModTwice
<1> HIDE DEF m3
<1>10. a % m4 = d3 + (a % m3)
  BY <1>1, <1>3, <1>5, ModTwice
<1> HIDE DEF m4
<1>11. d0 \in Int
  BY <1>1, <1>5, DivMod
<1>12. d1 \in Int
  <2>1. a \div Piece \in Int
    BY <1>1, <1>5, DivMod
  <2>2. (a \div Piece) % Piece \in Int
    BY <1>1, <2>1, DivMod
  <2> QED BY <1>1, <2>2
<1>13. d2 \in Int
  <2>1. a \div m2 \in Int
    BY <1>2, <1>5, DivMod
  <2>2. (a \div m2) % Piece \in Int
    BY <1>1, <2>1, DivMod
  <2> QED BY <1>2, <2>2
<1>14. d3 \in Int
  <2>1. a \div m3 \in Int
    BY <1>3, <1>5, DivMod
  <2>2. (a \div m3) % Piece \in Int
    BY <1>1, <2>1, DivMod
  <2> QED BY <1>3, <2>2
<1> HIDE DEF d0, d1, d2, d3
<1>15. a = d3 + (d2 + (d1 + d0))
  BY <1>5, <1>8, <1>9, <1>10
<1> QED BY <1>7, <1>11, <1>12, <1>13, <1>14, <1>15

LEMMA ARM64ImmediateIs ==
  ASSUME NEW i \in Word
  PROVE  ARM64Immediate(i) = i
<1>1. i \in Int /\ Piece \in Nat /\ Piece > 0
  BY Numbers, PieceAssumption DEF Word
<1>2. CASE i \in 0 .. Piece - 1
  BY <1>2 DEF ARM64Immediate
<1>3. CASE i \in -Piece .. -1
  <2> DEFINE c == -1 - i
  <2>1. c \in 0 .. Piece - 1
    BY <1>1, <1>3
  <2>2. c % Piece = c
    BY <1>1, <2>1, ModSmall
  <2>3. i \notin 0 .. Piece - 1
    BY <1>1, <1>3
  <2>4. ARM64Immediate(i) = -1 - (c % Piece)
    BY <1>3, <2>3 DEF ARM64Immediate
  <2> QED BY <1>1, <2>2, <2>4
<1>4. CASE i \notin 0 .. Piece - 1 /\ i \notin -Piece .. -1
  <2> DEFINE m == 2 * Half
             q == i \div m
             r == i % m
  <2>1. r \in 0 .. m - 1 /\ q \in Int /\ i = q * m + r
    BY <1>1, Numbers, DivMod
  <2>2. MovImm64(r) = r
    BY <2>1, MovImm64Is
  <2>3. ARM64Immediate(i) = Wrap(r)
    BY <1>4, <2>2 DEF ARM64Immediate
  <2>4. r = (-q) * m + i /\ -q \in Int /\ r \in Int
    <3> HIDE DEF q, r
    <3>1. m \in Int /\ (-q) * m = -(q * m) /\ q * m \in Int
      BY <2>1, Numbers
    <3> QED BY <1>1, <2>1, <3>1
  <2> HIDE DEF q, r
  <2>5. Wrap(r) = i
    BY <2>4, WrapIs
  <2> QED BY <2>3, <2>5
<1> QED BY <1>2, <1>3, <1>4

-------------------------------------------------------------------------------
(* ARM64: condition codes and operators. *)

LEMMA HoldsIs ==
  ASSUME NEW a \in Word, NEW b \in Word
  PROVE  /\ Holds(0, a, b)  <=> a = b
         /\ Holds(1, a, b)  <=> a # b
         /\ Holds(10, a, b) <=> ~(a < b)
         /\ Holds(11, a, b) <=> a < b
         /\ Holds(12, a, b) <=> a # b /\ ~(a < b)
         /\ Holds(13, a, b) <=> ~(a # b /\ ~(a < b))
<1> DEFINE z == ZF(a, b)
           s == SF(a, b)
           o == OF(a, b)
           cond(c) == CASE c \div 2 = 0 -> z [] c \div 2 = 5 -> s = o [] c \div 2 = 6 -> ~z /\ s = o
           even(c) == c % 2 = 0
<1>1. /\ z \in BOOLEAN /\ s \in BOOLEAN /\ o \in BOOLEAN
      /\ z <=> a = b
      /\ (s # o) <=> a < b
  BY Flags
<1>2. \A c : Holds(c, a, b) <=> (even(c) = cond(c))
  BY Zenon DEF Holds
<1>3. even(0) /\ even(10) /\ even(12) /\ ~even(1) /\ ~even(11) /\ ~even(13)
  OBVIOUS
<1>4. /\ 0 \div 2 = 0 /\ 1 \div 2 = 0 /\ 10 \div 2 = 5 /\ 11 \div 2 = 5
      /\ 12 \div 2 = 6 /\ 13 \div 2 = 6 /\ 5 # 0 /\ 6 # 0 /\ 6 # 5
  OBVIOUS
<1> HIDE DEF z, s, o
<1>5. /\ cond(0) = z /\ cond(1) = z /\ cond(10) = (s = o) /\ cond(11) = (s = o)
      /\ cond(12) = (~z /\ s = o) /\ cond(13) = (~z /\ s = o)
  BY <1>4, Zenon
<1>6. \A c : even(c) \in BOOLEAN
  OBVIOUS
<1> HIDE DEF even, cond
<1>7. (s = o) <=> ~(a < b)
  BY <1>1, Zenon
<1>8. (Holds(0, a, b) <=> a = b) /\ (Holds(1, a, b) <=> a # b)
  <2>1. Holds(0, a, b) <=> z
    BY <1>1, <1>2, <1>3, <1>5, <1>6, Zenon
  <2>2. Holds(1, a, b) <=> ~z
    <3>1. Holds(1, a, b) <=> even(1) = z
      BY <1>2, <1>5, Zenon
    <3>2. even(1) = FALSE
      BY <1>3, <1>6, Zenon
    <3>3. z = TRUE \/ z = FALSE
      BY <1>1, Zenon
    <3> QED BY <3>1, <3>2, <3>3, Zenon
  <2> QED BY <1>1, <2>1, <2>2, Zenon
<1>9. (Holds(10, a, b) <=> ~(a < b)) /\ (Holds(11, a, b) <=> a < b)
  BY <1>1, <1>2, <1>3, <1>5, <1>6, <1>7, Zenon
<1>10. /\ Holds(12, a, b) <=> a # b /\ ~(a < b)
       /\ Holds(13, a, b) <=> ~(a # b /\ ~(a < b))
  BY <1>1, <1>2, <1>3, <1>5, <1>6, <1>7, Zenon
<1> QED BY <1>8, <1>9, <1>10

LEMMA ARM64BinaryIs ==
  ASSUME NEW op \in E!Binary, op # "%", NEW x \in Word, NEW y \in Word, ~Trap(op, x, y)
  PROVE  ARM64Emitted(op, x, y) = Emitted(op, x, y)
<1>1. x \in Int /\ y \in Int /\ x + y = y + x /\ x * y = y * x /\ 0 \in Word
  BY Numbers DEF Word
<1>2. CASE op \in {"+", "-", "*"}
  BY <1>1, <1>2 DEF ARM64Emitted, Emitted
<1>3. CASE op = "/"
  <2>1. y # 0 /\ Div(x, y) \in Word
    BY <1>3 DEF Trap, Dividend
  <2>2. Div(x, y) \in Int
    BY <2>1, Numbers DEF Word
  <2>3. SDiv(x, y) = Div(x, y)
    BY <2>1, <2>2, WrapNear DEF SDiv
  <2> QED BY <1>3, <2>3 DEF ARM64Emitted, Emitted, Dividend
<1> DEFINE hx == Holds(0, x, 0)
           hy == Holds(0, y, 0)
<1>4. CASE op = "and"
  <2>1. (hx <=> x = 0) /\ (hy <=> y = 0)
    BY <1>1, HoldsIs
  <2>2. Flag(~hx /\ ~hy) = Flag(x # 0 /\ y # 0)
    BY <2>1, SameFlag, Zenon
  <2>3. ARM64Emitted(op, x, y) = Flag(~hx /\ ~hy)
    BY <1>4 DEF ARM64Emitted
  <2>4. Emitted(op, x, y) = Flag(x # 0 /\ y # 0)
    BY <1>4 DEF Emitted
  <2> QED BY <2>2, <2>3, <2>4
<1>5. CASE op = "or"
  <2>1. (hx <=> x = 0) /\ (hy <=> y = 0)
    BY <1>1, HoldsIs
  <2>2. Flag(~hx \/ ~hy) = Flag(x # 0 \/ y # 0)
    BY <2>1, SameFlag, Zenon
  <2>3. ARM64Emitted(op, x, y) = Flag(~hx \/ ~hy)
    BY <1>5 DEF ARM64Emitted
  <2>4. Emitted(op, x, y) = Flag(x # 0 \/ y # 0)
    BY <1>5 DEF Emitted
  <2> QED BY <2>2, <2>3, <2>4
<1> DEFINE z == ZF(x, y)
           s == SF(x, y)
           o == OF(x, y)
           e == x = y
           l == x < y
<1>6. CASE op \in E!Equality \cup E!Order
  <2>1. /\ z \in BOOLEAN /\ s \in BOOLEAN /\ o \in BOOLEAN
        /\ (z <=> e) /\ ((s # o) <=> l)
    BY Flags
  <2>2. ARM64Emitted(op, x, y) = Flag(~Holds(CsetCode[op], x, y))
    BY <1>6 DEF ARM64Emitted, E!Equality, E!Order
  <2>3. /\ Holds(0, x, y)  <=> e
        /\ Holds(1, x, y)  <=> ~e
        /\ Holds(10, x, y) <=> ~l
        /\ Holds(11, x, y) <=> l
        /\ Holds(12, x, y) <=> ~e /\ ~l
        /\ Holds(13, x, y) <=> ~(~e /\ ~l)
    BY HoldsIs
  <2>4. /\ CsetCode["=="] = 1 /\ CsetCode["~="] = 0
        /\ CsetCode["<"] = 10 /\ CsetCode[">="] = 11
        /\ CsetCode["<="] = 12 /\ CsetCode[">"] = 13
    BY DEF CsetCode
  <2>5. /\ op = "==" => Emitted(op, x, y) = Flag(z)
        /\ op = "~=" => Emitted(op, x, y) = Flag(~z)
        /\ op = "<"  => Emitted(op, x, y) = Flag(s # o)
        /\ op = "<=" => Emitted(op, x, y) = Flag(z \/ s # o)
        /\ op = ">"  => Emitted(op, x, y) = Flag(~z /\ s = o)
        /\ op = ">=" => Emitted(op, x, y) = Flag(s = o)
    BY DEF Emitted
  <2> HIDE DEF z, s, o, e, l
  <2>6. (s = o) <=> ~l
    BY <2>1, Zenon
  <2>7. CASE op = "=="
    <3>1. Flag(~Holds(1, x, y)) = Flag(z)
      BY <2>1, <2>3, SameFlag, Zenon
    <3> QED BY <2>2, <2>4, <2>5, <2>7, <3>1
  <2>8. CASE op = "~="
    <3>1. Flag(~Holds(0, x, y)) = Flag(~z)
      BY <2>1, <2>3, SameFlag, Zenon
    <3> QED BY <2>2, <2>4, <2>5, <2>8, <3>1
  <2>9. CASE op = "<"
    <3>1. Flag(~Holds(10, x, y)) = Flag(s # o)
      BY <2>1, <2>3, SameFlag, Zenon
    <3> QED BY <2>2, <2>4, <2>5, <2>9, <3>1
  <2>10. CASE op = "<="
    <3>1. Flag(~Holds(12, x, y)) = Flag(z \/ s # o)
      BY <2>1, <2>3, SameFlag, Zenon
    <3> QED BY <2>2, <2>4, <2>5, <2>10, <3>1
  <2>11. CASE op = ">"
    <3>1. Flag(~Holds(13, x, y)) = Flag(~z /\ s = o)
      BY <2>1, <2>3, <2>6, SameFlag, Zenon
    <3> QED BY <2>2, <2>4, <2>5, <2>11, <3>1
  <2>12. CASE op = ">="
    <3>1. Flag(~Holds(11, x, y)) = Flag(s = o)
      BY <2>3, <2>6, SameFlag, Zenon
    <3> QED BY <2>2, <2>4, <2>5, <2>12, <3>1
  <2> QED BY <1>6, <2>7, <2>8, <2>9, <2>10, <2>11, <2>12 DEF E!Equality, E!Order
<1> QED BY <1>2, <1>3, <1>4, <1>5, <1>6 DEF E!Binary, E!Arithmetic, E!Logic

LEMMA ARM64UnaryIs ==
  ASSUME NEW op \in E!Unary, NEW x \in Word
  PROVE  ARM64EmittedUnary(op, x) = EmittedUnary(op, x)
<1>1. x \in Int /\ 0 - x = -x /\ 0 \in Word
  BY Numbers DEF Word
<1>2. CASE op = "not"
  <2>1. CsetCode["=="] = 1
    BY DEF CsetCode
  <2>2. Holds(1, x, 0) <=> x # 0
    BY <1>1, HoldsIs
  <2>3. Flag(~Holds(1, x, 0)) = Flag(x = 0)
    BY <2>2, SameFlag, Zenon
  <2>4. ARM64EmittedUnary(op, x) = Flag(~Holds(1, x, 0))
    BY <1>2, <2>1 DEF ARM64EmittedUnary
  <2>5. EmittedUnary(op, x) = Flag(x = 0)
    BY <1>2 DEF EmittedUnary
  <2> QED BY <2>3, <2>4, <2>5
<1>3. CASE op # "not"
  BY <1>1, <1>3 DEF ARM64EmittedUnary, EmittedUnary
<1> QED BY <1>2, <1>3

\* ARM64 code computes what x86-64 code does wherever that has a result, for every
\* constant, every operator but % and all operands.
THEOREM SameOnARM64 == Spec => ARM64Agrees
<1> DEFINE A == /\ \A v \in E!Value : load(v) => ARM64Immediate(WordOf(v)) = rax'
                /\ emitBinary /\ outcome' = "running" /\ Top.op # "%"
                     => ARM64Emitted(Top.op, temps[Len(temps)], rax) = rax'
                /\ emitUnary => ARM64EmittedUnary(Top.op, rax) = rax'
<1>1. ASSUME IInv PROVE A
  <2>1. ASSUME NEW v \in E!Value, load(v)
        PROVE  ARM64Immediate(WordOf(v)) = rax'
    <3>1. WordOf(v) \in Word
      BY Values DEF Stands
    <3> QED BY <2>1, <3>1, ARM64ImmediateIs DEF load
  <2>2. ASSUME emitBinary, outcome' = "running", Top.op # "%"
        PROVE  ARM64Emitted(Top.op, temps[Len(temps)], rax) = rax'
    <3>1. /\ outcome = "running" /\ type # "none" /\ open # << >> /\ Top.leftType # "none"
          /\ ~Trap(Top.op, temps[Len(temps)], rax)
          /\ rax' = Emitted(Top.op, temps[Len(temps)], rax)
      BY <2>2 DEF emitBinary, Got
    <3>2. Sound(open, type, rax, temps)
      BY <1>1, <3>1 DEF IInv
    <3>3. Top.op \in E!Binary /\ temps[Len(temps)] \in Word /\ rax \in Word
      BY <3>1, <3>2, SoundBinary DEF Top, Stands
    <3> QED BY <2>2, <3>1, <3>3, ARM64BinaryIs
  <2>3. ASSUME emitUnary
        PROVE  ARM64EmittedUnary(Top.op, rax) = rax'
    <3>1. Top.op \in E!Unary /\ rax' = EmittedUnary(Top.op, rax) /\ rax \in Word
      BY <1>1, <2>3 DEF emitUnary, IInv
    <3> QED BY <3>1, ARM64UnaryIs
  <2> QED BY <2>1, <2>2, <2>3
<1>2. IInv => [A]_vars
  BY <1>1
<1>3. ARM64Agrees <=> [][A]_vars
  BY DEF ARM64Agrees
<1> HIDE DEF A
<1> QED BY <1>2, <1>3, Invariance, PTL

===============================================================================
