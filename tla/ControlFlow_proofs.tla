--------------------------- MODULE ControlFlow_proofs ---------------------------
EXTENDS ControlFlow, SequenceTheorems, FiniteSetTheorems, WellFoundedInduction, TLAPS

-------------------------------------------------------------------------------
(* The code buffer and the labels. *)

Instruction == [op : {"op", "jz", "jmp", "ret"}, rel : Int]
Label       == [bound : BOOLEAN, offset : Nat, pendingFixups : SUBSET Nat]
Construct   == [kind : {"then", "else", "body"}, skip : Label, join : Label]

\* Where the jump at offset j of code c goes.
Goes(c, j) == c[j + 1].rel + IF Arch = "x86_64" THEN j + 1 ELSE j

\* The jumps of c go to offsets up to n.
JumpsUpTo(c, n) ==
  \A j \in 0 .. Len(c) - 1 : c[j + 1].op \in {"jz", "jmp"} => Goes(c, j) \in 0 .. n

\* Label l was used and bound in code of length n.
Inside(l, n) == l \in Label /\ l.offset \in 0 .. n /\ l.pendingFixups \subseteq 0 .. n - 1

LEMMA InsideLater ==
  ASSUME NEW n \in Nat, NEW m \in Nat, n <= m, NEW l, Inside(l, n)
  PROVE  Inside(l, m)
BY DEF Inside

LEMMA UpToLater ==
  ASSUME NEW n \in Nat, NEW m \in Nat, n <= m, NEW c \in Seq(Instruction), JumpsUpTo(c, n)
  PROVE  JumpsUpTo(c, m)
BY DEF JumpsUpTo

LEMMA CreatedLabel ==
  ASSUME NEW n \in Nat
  PROVE  Inside(createLabel, n) /\ ~createLabel.bound
BY DEF Inside, createLabel, Label

LEMMA BoundLabel ==
  ASSUME NEW c \in Seq(Instruction), NEW l
  PROVE  Inside(Bound(l, c), Len(c)) /\ Bound(l, c).offset = Len(c)
BY DEF Inside, Bound, Label

LEMMA ReferredLabel ==
  ASSUME NEW c \in Seq(Instruction), NEW l, Inside(l, Len(c))
  PROVE  Inside(Refer(l, c), Len(c) + 1)
<1>1. Len(c) \in Nat
  OBVIOUS
<1>2. CASE l.bound
  <2>1. Refer(l, c) = l
    BY <1>2 DEF Refer
  <2>2. Inside(l, Len(c) + 1)
    BY <1>1 DEF Inside
  <2> QED BY <2>1, <2>2
<1>3. CASE ~l.bound
  <2> DEFINE r == [l EXCEPT !.pendingFixups = l.pendingFixups \cup {Len(c)}]
  <2>1. Refer(l, c) = r
    BY <1>3 DEF Refer
  <2>2. r \in Label
    BY <1>1 DEF Inside, Label
  <2>3. r.offset = l.offset /\ r.pendingFixups = l.pendingFixups \cup {Len(c)}
    BY DEF Inside, Label
  <2> HIDE DEF r
  <2> QED BY <1>1, <2>1, <2>2, <2>3 DEF Inside
<1> QED BY <1>2, <1>3

\* The displacement of a jump takes it where it should.
LEMMA RelGoes ==
  ASSUME NEW o \in Int, NEW j \in Int, NEW c, c[j + 1].rel = Rel(o, j)
  PROVE  Goes(c, j) = o
BY DEF Goes, Rel

LEMMA AppendedCode ==
  ASSUME NEW c \in Seq(Instruction), NEW i \in Instruction, NEW d, d = Append(c, i),
         NEW n \in Nat, JumpsUpTo(c, n),
         i.op \in {"jz", "jmp"} => Goes(d, Len(c)) \in 0 .. n
  PROVE  /\ d \in Seq(Instruction) /\ Len(d) = Len(c) + 1
         /\ JumpsUpTo(d, n)
         /\ d[Len(c) + 1] = i
         /\ \A k \in 1 .. Len(c) : d[k] = c[k]
<1>1. /\ d \in Seq(Instruction) /\ Len(d) = Len(c) + 1 /\ d[Len(c) + 1] = i
      /\ \A k \in 1 .. Len(c) : d[k] = c[k]
  BY AppendProperties
<1>2. ASSUME NEW j \in 0 .. Len(d) - 1, d[j + 1].op \in {"jz", "jmp"}
      PROVE  Goes(d, j) \in 0 .. n
  <2>1. CASE j = Len(c)
    BY <1>1, <1>2, <2>1
  <2>2. CASE j # Len(c)
    <3>1. j \in 0 .. Len(c) - 1 /\ j + 1 \in 1 .. Len(c)
      BY <1>1, <2>2
    <3>2. d[j + 1] = c[j + 1]
      BY <1>1, <3>1
    <3> QED BY <1>2, <3>1, <3>2 DEF JumpsUpTo, Goes
  <2> QED BY <2>1, <2>2
<1> QED BY <1>1, <1>2 DEF JumpsUpTo

LEMMA PlainCode ==
  ASSUME NEW op \in {"op", "ret"}, code \in Seq(Instruction),
         NEW n \in Nat, JumpsUpTo(code, n)
  PROVE  /\ Plain(op) \in Seq(Instruction) /\ Len(Plain(op)) = Len(code) + 1
         /\ JumpsUpTo(Plain(op), n)
         /\ Plain(op)[Len(code) + 1].op = op
<1> DEFINE i == [op |-> op, rel |-> 0]
<1>1. i \in Instruction /\ i.op \notin {"jz", "jmp"} /\ i.op = op /\ Plain(op) = Append(code, i)
  BY DEF Instruction, Plain
<1> DEFINE d == Append(code, i)
<1> HIDE DEF i
<1>2. d = Append(code, i) /\ (i.op \in {"jz", "jmp"} => Goes(d, Len(code)) \in 0 .. n)
  BY <1>1
<1> HIDE DEF d
<1>3. /\ d \in Seq(Instruction) /\ Len(d) = Len(code) + 1
      /\ JumpsUpTo(d, n) /\ d[Len(code) + 1] = i
  BY <1>1, <1>2, AppendedCode
<1> QED BY <1>1, <1>3 DEF d

LEMMA JumpCode ==
  ASSUME NEW c \in Seq(Instruction), JumpsUpTo(c, Len(c)),
         NEW op \in {"jz", "jmp"}, NEW l, Inside(l, Len(c))
  PROVE  /\ Jump(c, op, l) \in Seq(Instruction) /\ Len(Jump(c, op, l)) = Len(c) + 1
         /\ JumpsUpTo(Jump(c, op, l), Len(c) + 1)
<1> DEFINE r == IF l.bound THEN Rel(l.offset, Len(c)) ELSE 0
           i == [op |-> op, rel |-> r]
           d == Append(c, i)
<1>1. Len(c) \in Nat /\ l.offset \in 0 .. Len(c)
  BY DEF Inside
<1>2. r \in Int
  BY <1>1 DEF Rel
<1>3. i \in Instruction /\ i.rel = r
  BY <1>2 DEF Instruction
<1>4. Jump(c, op, l) = d
  BY DEF Jump
<1>5. d[Len(c) + 1] = i
  BY <1>3, AppendProperties
<1>6. Goes(d, Len(c)) \in 0 .. Len(c) + 1
  <2>1. CASE l.bound
    <3>1. d[Len(c) + 1].rel = Rel(l.offset, Len(c))
      BY <1>3, <1>5, <2>1
    <3> HIDE DEF d
    <3>2. Goes(d, Len(c)) = l.offset
      BY <1>1, <3>1, RelGoes
    <3> QED BY <1>1, <3>2
  <2>2. CASE ~l.bound
    <3>1. d[Len(c) + 1].rel = 0
      BY <1>3, <1>5, <2>2
    <3> HIDE DEF d
    <3> QED BY <1>1, <3>1 DEF Goes
  <2> QED BY <2>1, <2>2
<1> HIDE DEF i, r
<1>7. JumpsUpTo(c, Len(c) + 1) /\ Len(c) + 1 \in Nat
  BY <1>1, UpToLater
<1> QED BY <1>3, <1>4, <1>6, <1>7, AppendedCode

\* Patching changes the displacements of pending branches, and of nothing else.
LEMMA PatchedCode ==
  ASSUME NEW c \in Seq(Instruction), JumpsUpTo(c, Len(c)), NEW l, Inside(l, Len(c))
  PROVE  /\ Patched(c, l) \in Seq(Instruction) /\ Len(Patched(c, l)) = Len(c)
         /\ JumpsUpTo(Patched(c, l), Len(c))
         /\ \A k \in 1 .. Len(c) : Patched(c, l)[k].op = c[k].op
         /\ \A j \in l.pendingFixups : Patches(c[j + 1].op) => Goes(Patched(c, l), j) = Len(c)
         /\ \A j \in (0 .. Len(c) - 1) \ l.pendingFixups : Patched(c, l)[j + 1] = c[j + 1]
<1> DEFINE n == Len(c)
           d == Patched(c, l)
           at(k) == IF k - 1 \in l.pendingFixups /\ Patches(c[k].op)
                    THEN [c[k] EXCEPT !.rel = Rel(n, k - 1)]
                    ELSE c[k]
<1>1. n \in Nat /\ DOMAIN c = 1 .. n /\ l.pendingFixups \subseteq 0 .. n - 1
  BY DEF Inside
<1>2. d = [k \in 1 .. n |-> at(k)]
  BY <1>1, BoundLabel DEF Patched
<1>3. ASSUME NEW k \in 1 .. n
      PROVE  /\ at(k) \in Instruction /\ at(k).op = c[k].op
             /\ k - 1 \in l.pendingFixups /\ Patches(c[k].op) => at(k).rel = Rel(n, k - 1)
             /\ k - 1 \notin l.pendingFixups => at(k) = c[k]
             /\ ~(k - 1 \in l.pendingFixups /\ Patches(c[k].op)) => at(k) = c[k]
  <2>1. c[k] \in Instruction
    BY <1>1
  <2>2. Rel(n, k - 1) \in Int
    BY <1>1 DEF Rel
  <2> QED BY <2>1, <2>2 DEF Instruction
<1> HIDE DEF at, d
<1>4. \A k \in 1 .. n : d[k] = at(k)
  BY <1>2
<1>5. d \in Seq(Instruction) /\ Len(d) = n
  BY <1>1, <1>2, <1>3
<1>6. ASSUME NEW j \in l.pendingFixups, Patches(c[j + 1].op)
      PROVE  Goes(d, j) = n
  <2>1. j \in Nat /\ j + 1 \in 1 .. n /\ (j + 1) - 1 = j
    BY <1>1
  <2>2. d[j + 1].rel = Rel(n, j)
    BY <1>3, <1>4, <1>6, <2>1
  <2> QED BY <1>1, <2>1, <2>2, RelGoes
<1>7. ASSUME NEW j \in 0 .. n - 1, ~(j \in l.pendingFixups /\ Patches(c[j + 1].op))
      PROVE  d[j + 1] = c[j + 1]
  <2>1. j + 1 \in 1 .. n /\ (j + 1) - 1 = j
    BY <1>1
  <2> QED BY <1>3, <1>4, <1>7, <2>1
<1>8. ASSUME NEW j \in 0 .. n - 1, d[j + 1].op \in {"jz", "jmp"}
      PROVE  Goes(d, j) \in 0 .. n
  <2>1. CASE j \in l.pendingFixups /\ Patches(c[j + 1].op)
    BY <1>1, <1>6, <2>1
  <2>2. CASE ~(j \in l.pendingFixups /\ Patches(c[j + 1].op))
    <3>1. d[j + 1] = c[j + 1]
      BY <1>7, <2>2
    <3> QED BY <1>8, <3>1 DEF JumpsUpTo, Goes
  <2> QED BY <2>1, <2>2
<1>9. JumpsUpTo(d, n)
  BY <1>5, <1>8 DEF JumpsUpTo
<1>10. \A k \in 1 .. n : d[k].op = c[k].op
  BY <1>3, <1>4
<1> QED BY <1>5, <1>6, <1>7, <1>9, <1>10 DEF d

-------------------------------------------------------------------------------
(* The inductive invariant: every jump, patched or not, stays inside the code. *)

LabelsInside(o, n) ==
  /\ o \in Seq(Construct)
  /\ \A d \in 1 .. Len(o) : Inside(o[d].skip, n) /\ Inside(o[d].join, n)

IInv ==
  /\ code \in Seq(Instruction) /\ JumpsUpTo(code, Len(code))
  /\ LabelsInside(open, Len(code))
  /\ phase \in {"emit", "run", "done", "failed"}
  /\ phase = "run" => /\ pc \in 0 .. Len(code) - 1
                      /\ code[Len(code)].op = "ret"
                      /\ JumpsUpTo(code, Len(code) - 1)

LEMMA OpenedLabels ==
  ASSUME NEW o, NEW n \in Nat, LabelsInside(o, n), NEW m \in Nat, n <= m,
         NEW c \in Construct, Inside(c.skip, m), Inside(c.join, m)
  PROVE  LabelsInside(Append(o, c), m)
<1> DEFINE a == Append(o, c)
<1>1. /\ o \in Seq(Construct) /\ a \in Seq(Construct) /\ Len(a) = Len(o) + 1 /\ a[Len(o) + 1] = c
      /\ \A d \in 1 .. Len(o) : a[d] = o[d]
  BY AppendProperties DEF LabelsInside
<1> HIDE DEF a
<1>2. ASSUME NEW d \in 1 .. Len(a)
      PROVE  Inside(a[d].skip, m) /\ Inside(a[d].join, m)
  <2>1. CASE d = Len(o) + 1
    BY <1>1, <2>1
  <2>2. CASE d # Len(o) + 1
    <3>1. d \in 1 .. Len(o) /\ a[d] = o[d]
      BY <1>1, <2>2
    <3>2. Inside(o[d].skip, n) /\ Inside(o[d].join, n)
      BY <3>1 DEF LabelsInside
    <3> QED BY <3>1, <3>2, InsideLater
  <2> QED BY <2>1, <2>2
<1> QED BY <1>1, <1>2 DEF LabelsInside, a

\* A sequence without its last element.
LEMMA Dropped ==
  ASSUME NEW S, NEW a \in Seq(S), a # << >>
  PROVE  /\ SubSeq(a, 1, Len(a) - 1) \in Seq(S)
         /\ Len(SubSeq(a, 1, Len(a) - 1)) = Len(a) - 1
         /\ \A d \in 1 .. Len(a) - 1 : SubSeq(a, 1, Len(a) - 1)[d] = a[d]
<1> DEFINE n == Len(a) - 1
<1>1. n \in Nat /\ Len(a) = n + 1
  OBVIOUS
<1>2. /\ SubSeq(a, 1, n) \in Seq(S) /\ Len(SubSeq(a, 1, n)) = n
      /\ \A d \in 1 .. n : SubSeq(a, 1, n)[d] = a[d]
  <2> HIDE DEF n
  <2> QED BY <1>1
<1> QED BY <1>2

LEMMA ClosedLabels ==
  ASSUME NEW o, NEW n \in Nat, LabelsInside(o, n), NEW m \in Nat, n <= m, o # << >>
  PROVE  LabelsInside(SubSeq(o, 1, Len(o) - 1), m)
<1> DEFINE a == SubSeq(o, 1, Len(o) - 1)
<1>0. o \in Seq(Construct) /\ Len(o) \in Nat /\ Len(o) > 0
  <2>1. o \in Seq(Construct)
    BY DEF LabelsInside
  <2> QED BY <2>1
<1>1. /\ o \in Seq(Construct) /\ a \in Seq(Construct) /\ Len(a) = Len(o) - 1
      /\ \A d \in 1 .. Len(o) - 1 : a[d] = o[d]
  BY <1>0, Dropped
<1> HIDE DEF a
<1>2. ASSUME NEW d \in 1 .. Len(a)
      PROVE  Inside(a[d].skip, m) /\ Inside(a[d].join, m)
  <2>1. d \in 1 .. Len(o) /\ a[d] = o[d]
    BY <1>0, <1>1
  <2>2. Inside(o[d].skip, n) /\ Inside(o[d].join, n)
    BY <2>1 DEF LabelsInside
  <2> QED BY <2>1, <2>2, InsideLater
<1> QED BY <1>1, <1>2 DEF LabelsInside, a

LEMMA Innermost ==
  ASSUME NEW n \in Nat, LabelsInside(open, n), open # << >>
  PROVE  /\ Top \in Construct /\ Inside(Top.skip, n) /\ Inside(Top.join, n)
         /\ Len(open) \in 1 .. Len(open)
<1>1. open \in Seq(Construct) /\ Len(open) \in 1 .. Len(open)
  BY DEF LabelsInside
<1>2. Top \in Construct
  BY <1>1 DEF Top
<1> QED BY <1>1, <1>2 DEF LabelsInside, Top

LEMMA InitIInv == Init => IInv
<1>1. << >> \in Seq(Instruction) /\ << >> \in Seq(Construct) /\ Len(<< >>) = 0
  OBVIOUS
<1> QED BY <1>1 DEF Init, IInv, JumpsUpTo, LabelsInside

\* What a compiling step must show.
LEMMA EmitIInv ==
  ASSUME phase' = "emit", code' \in Seq(Instruction), JumpsUpTo(code', Len(code')),
         LabelsInside(open', Len(code'))
  PROVE  IInv'
BY DEF IInv

LEMMA SimpleStep ==
  ASSUME IInv, compileSimple \/ compileReturn
  PROVE  IInv'
<1>1. PICK op \in {"op", "ret"} : code' = Plain(op) /\ open' = open /\ phase' = "emit"
  BY DEF compileSimple, compileReturn, compileToken
<1>2. code \in Seq(Instruction) /\ Len(code) \in Nat /\ Len(code) + 1 \in Nat
  BY DEF IInv
<1>3. JumpsUpTo(code, Len(code) + 1)
  BY <1>2, UpToLater DEF IInv
<1>4. code' \in Seq(Instruction) /\ Len(code') = Len(code) + 1 /\ JumpsUpTo(code', Len(code'))
  BY <1>1, <1>2, <1>3, PlainCode
<1>5. LabelsInside(open', Len(code'))
  <2>1. \A l : Inside(l, Len(code)) => Inside(l, Len(code) + 1)
    BY <1>2, InsideLater
  <2> QED BY <1>1, <1>4, <2>1 DEF IInv, LabelsInside
<1> QED BY <1>1, <1>4, <1>5, EmitIInv

LEMMA OpenStep ==
  ASSUME IInv, compileIf \/ compileWhile
  PROVE  IInv'
<1>1. code \in Seq(Instruction) /\ Len(code) \in Nat /\ Len(code) + 1 \in Nat /\ JumpsUpTo(code, Len(code))
  BY DEF IInv
<1>2. Inside(createLabel, Len(code)) /\ Inside(Bound(createLabel, code), Len(code))
  BY <1>1, CreatedLabel, BoundLabel
<1>3. PICK kind \in {"then", "body"}, join \in {createLabel, Bound(createLabel, code)} :
        /\ code' = Jump(code, "jz", createLabel) /\ phase' = "emit"
        /\ open' = Append(open, [kind |-> kind, skip |-> Refer(createLabel, code), join |-> join])
  BY DEF compileIf, compileWhile, compileToken
<1>4. code' \in Seq(Instruction) /\ Len(code') = Len(code) + 1 /\ JumpsUpTo(code', Len(code'))
  BY <1>1, <1>2, <1>3, JumpCode
<1>5. Inside(Refer(createLabel, code), Len(code) + 1) /\ Inside(join, Len(code) + 1)
  BY <1>1, <1>2, <1>3, ReferredLabel, InsideLater
<1>6. LabelsInside(open', Len(code'))
  <2> DEFINE c == [kind |-> kind, skip |-> Refer(createLabel, code), join |-> join]
  <2>1. c \in Construct /\ c.skip = Refer(createLabel, code) /\ c.join = join
    BY <1>5 DEF Construct, Inside
  <2>2. open' = Append(open, c)
    BY <1>3
  <2> HIDE DEF c
  <2>3. LabelsInside(open, Len(code))
    BY DEF IInv
  <2>4. LabelsInside(Append(open, c), Len(code) + 1)
    BY <1>1, <1>5, <2>1, <2>3, OpenedLabels
  <2> QED BY <1>4, <2>2, <2>4
<1> QED BY <1>3, <1>4, <1>6, EmitIInv

LEMMA ElseStep ==
  ASSUME IInv, compileElse
  PROVE  /\ IInv'
         /\ Arch = "x86_64" => \A j \in Top.skip.pendingFixups : Goes(code', j) = Len(code')
<1> DEFINE jumped == Jump(code, "jmp", Top.join)
           c == [kind |-> "else", skip |-> Bound(Top.skip, jumped), join |-> Refer(Top.join, code)]
<1>1. /\ code \in Seq(Instruction) /\ Len(code) \in Nat /\ Len(code) + 1 \in Nat
      /\ JumpsUpTo(code, Len(code)) /\ LabelsInside(open, Len(code))
  BY DEF IInv
<1>2. /\ open # << >> /\ phase' = "emit"
      /\ code' = Patched(jumped, Top.skip)
      /\ open' = Append(Closed, c)
  BY DEF compileElse, compileToken, Reopened
<1>3. Top \in Construct /\ Inside(Top.skip, Len(code)) /\ Inside(Top.join, Len(code))
  BY <1>1, <1>2, Innermost
<1>4. /\ jumped \in Seq(Instruction) /\ Len(jumped) = Len(code) + 1
      /\ JumpsUpTo(jumped, Len(jumped))
  BY <1>1, <1>3, JumpCode
<1>5. Inside(Top.skip, Len(jumped))
  BY <1>1, <1>3, <1>4, InsideLater
<1>6. Inside(Bound(Top.skip, jumped), Len(jumped))
  BY <1>4, BoundLabel
<1>7. Inside(Refer(Top.join, code), Len(code) + 1)
  BY <1>1, <1>3, ReferredLabel
<1> HIDE DEF jumped
<1>8. /\ code' \in Seq(Instruction) /\ Len(code') = Len(jumped) /\ JumpsUpTo(code', Len(code'))
      /\ \A j \in Top.skip.pendingFixups :
           Patches(jumped[j + 1].op) => Goes(code', j) = Len(jumped)
  BY <1>2, <1>4, <1>5, PatchedCode
<1>9. LabelsInside(open', Len(code'))
  <2>1. /\ c \in Construct
        /\ c.skip = Bound(Top.skip, jumped) /\ c.join = Refer(Top.join, code)
    BY <1>6, <1>7 DEF Construct, Inside
  <2> HIDE DEF c
  <2>2. LabelsInside(Closed, Len(code) + 1)
    BY <1>1, <1>2, ClosedLabels DEF Closed
  <2>3. LabelsInside(Append(Closed, c), Len(code) + 1)
    BY <1>1, <1>4, <1>6, <1>7, <2>1, <2>2, OpenedLabels
  <2> QED BY <1>2, <1>4, <1>8, <2>3
<1>10. IInv'
  BY <1>2, <1>8, <1>9, EmitIInv
<1>11. Arch = "x86_64" => \A op : Patches(op)
  BY DEF Patches
<1> QED BY <1>8, <1>10, <1>11

LEMMA EndStep ==
  ASSUME IInv, compileEndIf \/ compileEndWhile
  PROVE  /\ IInv'
         /\ Arch = "x86_64" =>
              \A j \in IF Top.kind = "else" THEN Top.join.pendingFixups
                                            ELSE Top.skip.pendingFixups :
                Goes(code', j) = Len(code')
<1>1. /\ code \in Seq(Instruction) /\ Len(code) \in Nat /\ Len(code) + 1 \in Nat
      /\ JumpsUpTo(code, Len(code)) /\ LabelsInside(open, Len(code))
  BY DEF IInv
<1>2. open # << >> /\ phase' = "emit" /\ open' = Closed
  BY DEF compileEndIf, compileEndWhile, compileToken
<1>3. Top \in Construct /\ Inside(Top.skip, Len(code)) /\ Inside(Top.join, Len(code))
  BY <1>1, <1>2, Innermost
<1> DEFINE l == IF Top.kind = "else" THEN Top.join ELSE Top.skip
<1>4. Inside(l, Len(code)) /\ Inside(l, Len(code) + 1)
  BY <1>1, <1>3, InsideLater
<1>5. \E c \in Seq(Instruction) :
        /\ Len(c) \in {Len(code), Len(code) + 1} /\ JumpsUpTo(c, Len(c)) /\ code' = Patched(c, l)
  <2>1. CASE compileEndIf
    <3>1. code' = Patched(code, l)
      BY <2>1, <1>3 DEF compileEndIf
    <3> QED BY <1>1, <3>1
  <2>2. CASE compileEndWhile
    <3>1. code' = Patched(Jump(code, "jmp", Top.join), l)
      BY <2>2 DEF compileEndWhile
    <3>2. /\ Jump(code, "jmp", Top.join) \in Seq(Instruction)
          /\ Len(Jump(code, "jmp", Top.join)) = Len(code) + 1
          /\ JumpsUpTo(Jump(code, "jmp", Top.join), Len(code) + 1)
      BY <1>1, <1>3, JumpCode
    <3> QED BY <3>1, <3>2
  <2> QED BY <2>1, <2>2
<1>6. PICK c \in Seq(Instruction) :
        /\ Len(c) \in {Len(code), Len(code) + 1} /\ JumpsUpTo(c, Len(c)) /\ code' = Patched(c, l)
  BY <1>5
<1>7. Inside(l, Len(c))
  BY <1>4, <1>6
<1> HIDE DEF l
<1>8. /\ code' \in Seq(Instruction) /\ Len(code') = Len(c) /\ JumpsUpTo(code', Len(code'))
      /\ \A j \in l.pendingFixups : Patches(c[j + 1].op) => Goes(code', j) = Len(c)
  BY <1>6, <1>7, PatchedCode
<1>9. LabelsInside(open', Len(code'))
  <2>1. Len(c) \in Nat /\ Len(code) <= Len(c)
    BY <1>1, <1>6
  <2>2. LabelsInside(Closed, Len(c))
    BY <1>1, <1>2, <2>1, ClosedLabels DEF Closed
  <2> QED BY <1>2, <1>8, <2>2
<1>10. IInv'
  BY <1>2, <1>8, <1>9, EmitIInv
<1>11. Arch = "x86_64" => \A op : Patches(op)
  BY DEF Patches
<1>12. Arch = "x86_64" => \A j \in l.pendingFixups : Goes(code', j) = Len(code')
  BY <1>8, <1>11
<1> QED BY <1>10, <1>12 DEF l

LEMMA PhaseStep ==
  ASSUME IInv, finish \/ compileThrows \/ compileFunction
  PROVE  IInv'
<1>1. CASE finish
  <2>1. code' = Plain("ret") /\ phase' = "run" /\ pc' = 0 /\ open' = open
    BY <1>1 DEF finish
  <2>2. code \in Seq(Instruction) /\ Len(code) \in Nat /\ JumpsUpTo(code, Len(code))
    BY DEF IInv
  <2>3. /\ code' \in Seq(Instruction) /\ Len(code') = Len(code) + 1
        /\ JumpsUpTo(code', Len(code)) /\ code'[Len(code) + 1].op = "ret"
    BY <2>1, <2>2, PlainCode
  <2>4. JumpsUpTo(code', Len(code) + 1)
    BY <2>2, <2>3, UpToLater
  <2>5. LabelsInside(open', Len(code'))
    <3>1. \A l : Inside(l, Len(code)) => Inside(l, Len(code) + 1)
      BY <2>2, InsideLater
    <3> QED BY <2>1, <2>3, <3>1 DEF IInv, LabelsInside
  <2> QED BY <2>1, <2>2, <2>3, <2>4, <2>5 DEF IInv
<1>2. CASE compileThrows
  BY <1>2 DEF compileThrows, IInv
<1>3. CASE compileFunction
  <2>1. << >> \in Seq(Instruction) /\ << >> \in Seq(Construct) /\ Len(<< >>) = 0
    OBVIOUS
  <2> QED BY <1>3, <2>1 DEF compileFunction, IInv, JumpsUpTo, LabelsInside
<1> QED BY <1>1, <1>2, <1>3

LEMMA RunStep ==
  ASSUME IInv, step
  PROVE  IInv'
<1>1. CASE ret
  BY <1>1 DEF ret, IInv
<1>2. CASE fallThrough \/ jump
  <2>1. /\ code' = code /\ open' = open /\ phase' = phase /\ phase = "run"
        /\ pc \in 0 .. Len(code) - 1
    BY <1>2 DEF fallThrough, jump, Running
  <2>2. code \in Seq(Instruction) /\ code[Len(code)].op = "ret" /\ JumpsUpTo(code, Len(code) - 1)
    BY <2>1 DEF IInv
  <2>3. pc' \in 0 .. Len(code) - 1
    <3>1. CASE fallThrough
      <4>1. pc' = pc + 1 /\ code[pc + 1].op # "ret"
        BY <3>1 DEF fallThrough, Running
      <4>2. pc + 1 # Len(code)
        BY <2>2, <4>1
      <4> QED BY <2>1, <2>2, <4>1, <4>2
    <3>2. CASE jump
      <4>1. pc' = Goes(code, pc) /\ code[pc + 1].op \in {"jz", "jmp"}
        BY <3>2 DEF jump, Running, Target, Goes
      <4> QED BY <2>1, <2>2, <4>1 DEF JumpsUpTo
    <3> QED BY <1>2, <3>1, <3>2
  <2> QED BY <2>1, <2>2, <2>3 DEF IInv
<1> QED BY <1>1, <1>2 DEF step

LEMMA NextStep ==
  ASSUME IInv, [Next]_vars
  PROVE  IInv'
<1>1. CASE UNCHANGED vars
  BY <1>1 DEF vars, IInv
<1>2. CASE step
  BY <1>2, RunStep
<1>3. CASE compile
  BY <1>3, SimpleStep, OpenStep, ElseStep, EndStep, PhaseStep DEF compile
<1> QED BY <1>1, <1>2, <1>3 DEF Next

LEMMA Invariance == Spec => []IInv
BY InitIInv, NextStep, PTL DEF Spec

\* Fixups lie inside the code, and the program counter never leaves it: a jump that is
\* not patched, or not patched yet, stays inside too.
THEOREM TypeCorrect == Spec => []TypeOK
<1>1. IInv => TypeOK
  <2> SUFFICES ASSUME IInv PROVE TypeOK
    OBVIOUS
  <2>1. code \in Seq([op : {"op", "jz", "jmp", "ret"}, rel : Int])
    BY DEF IInv, Instruction
  <2>2. \A l : Inside(l, Len(code)) => l \in Labels
    BY DEF Inside, Label, Labels
  <2>3. ASSUME NEW d \in DOMAIN open
        PROVE  open[d] \in [kind : {"then", "else", "body"}, skip : Labels, join : Labels]
    <3>1. d \in 1 .. Len(open) /\ open[d] \in Construct
      BY DEF IInv, LabelsInside
    <3>2. open[d].skip \in Labels /\ open[d].join \in Labels
      BY <2>2, <3>1 DEF IInv, LabelsInside
    <3> QED BY <3>1, <3>2 DEF Construct
  <2> QED BY <2>1, <2>3 DEF TypeOK, IInv
<1> QED BY <1>1, Invariance, PTL

\* On x86-64 every branch that waits for a label goes to it once it is bound.
THEOREM FixupsPatched ==
  ASSUME Arch = "x86_64"
  PROVE  Spec => FixupsReachLabel
<1> DEFINE A == compileElse \/ compileEndIf \/ compileEndWhile
                => \A j \in IF Top.kind = "else" THEN Top.join.pendingFixups
                                                 ELSE Top.skip.pendingFixups :
                     Target(j)' = Len(code')
<1>1. ASSUME IInv PROVE A
  <2>1. \A j : Target(j)' = Goes(code', j)
    BY DEF Target, Goes
  <2>2. CASE compileElse
    <3>1. Top.kind = "then"
      BY <2>2 DEF compileElse
    <3> QED BY <1>1, <2>1, <2>2, <3>1, ElseStep
  <2>3. CASE compileEndIf \/ compileEndWhile
    BY <1>1, <2>1, <2>3, EndStep
  <2> QED BY <2>2, <2>3
<1>2. IInv => [A]_vars
  BY <1>1
<1>3. FixupsReachLabel <=> [][A]_vars
  BY DEF FixupsReachLabel
<1> HIDE DEF A
<1> QED BY <1>2, <1>3, Invariance, PTL

-------------------------------------------------------------------------------
(* Least elements. *)

LEMMA Least ==
  ASSUME NEW T, T \subseteq Nat, T # {}
  PROVE  \E x \in T : \A y \in T : x <= y
<1> DEFINE R == OpToRel(<, Nat)
<1>1. \E x \in T : \A y \in T : ~(<< y, x >> \in R)
  <2>1. IsWellFoundedOn(R, Nat)
    BY NatLessThanWellFounded
  <2> HIDE DEF R
  <2> QED BY <2>1, WFMin
<1>2. \A x \in Nat, y \in Nat : y < x => << y, x >> \in R
  BY DEF OpToRel
<1> HIDE DEF R
<1>3. PICK x \in T : \A y \in T : ~(<< y, x >> \in R)
  BY <1>1
<1>4. ASSUME NEW y \in T
      PROVE  x <= y
  <2>1. x \in Nat /\ y \in Nat /\ ~(<< y, x >> \in R)
    BY <1>3
  <2> QED BY <2>1, <1>2
<1> QED BY <1>3, <1>4

LEMMA MinIs ==
  ASSUME NEW T, T \subseteq Nat, T # {}
  PROVE  Min(T) \in T /\ \A y \in T : Min(T) <= y
BY Least DEF Min

LEMMA MinUnique ==
  ASSUME NEW T, T \subseteq Nat, NEW m \in T, \A y \in T : m <= y
  PROVE  Min(T) = m
<1>1. Min(T) \in T /\ Min(T) <= m
  BY MinIs
<1>2. Min(T) \in Nat /\ m \in Nat /\ m <= Min(T)
  BY <1>1
<1> QED BY <1>1, <1>2

-------------------------------------------------------------------------------
(* Counting tokens: offsets and nesting depths. *)

Tokens == {"stmt", "return", "if", "else", "endif", "while", "endwhile"}
Opening == {"if", "while"}
Closing == {"endif", "endwhile"}
Emits   == {"stmt", "return", "if", "else", "while", "endwhile"}

\* How many of tokens p to n of w are of kinds T.
Among(w, T, p, n) == { k \in p .. n : w[k] \in T }
Count(w, T, n) == Cardinality(Among(w, T, 1, n))

LEMMA AmongIs ==
  ASSUME NEW w, NEW T, NEW p \in Nat, NEW n \in Nat
  PROVE  IsFiniteSet(Among(w, T, p, n)) /\ Cardinality(Among(w, T, p, n)) \in Nat
<1>1. Among(w, T, p, n) \in SUBSET (p .. n) /\ IsFiniteSet(p .. n)
  BY FS_Interval DEF Among
<1> QED BY <1>1, FS_Subset, FS_CardinalityType

LEMMA CountNone ==
  ASSUME NEW w, NEW T
  PROVE  Count(w, T, 0) = 0
<1>1. Among(w, T, 1, 0) = {}
  BY DEF Among
<1> QED BY <1>1, FS_EmptySet DEF Count

LEMMA CountOne ==
  ASSUME NEW w, NEW T, NEW n \in Nat
  PROVE  /\ Count(w, T, n) \in Nat
         /\ Count(w, T, n + 1) = Count(w, T, n) + IF w[n + 1] \in T THEN 1 ELSE 0
<1>1. IsFiniteSet(Among(w, T, 1, n)) /\ Count(w, T, n) \in Nat
  BY AmongIs DEF Count
<1>2. CASE w[n + 1] \in T
  <2>1. Among(w, T, 1, n + 1) = Among(w, T, 1, n) \cup {n + 1} /\ n + 1 \notin Among(w, T, 1, n)
    BY <1>2 DEF Among
  <2> QED BY <1>1, <1>2, <2>1, FS_AddElement DEF Count
<1>3. CASE w[n + 1] \notin T
  <2>1. Among(w, T, 1, n + 1) = Among(w, T, 1, n)
    BY <1>3 DEF Among
  <2> QED BY <1>1, <1>3, <2>1 DEF Count
<1> QED BY <1>1, <1>2, <1>3

LEMMA CountRange ==
  ASSUME NEW w, NEW T, NEW p \in Nat, NEW n \in Nat, p <= n
  PROVE  /\ Cardinality(Among(w, T, p + 1, n)) = Count(w, T, n) - Count(w, T, p)
         /\ Count(w, T, p) <= Count(w, T, n)
<1> DEFINE A == Among(w, T, 1, p)
           B == Among(w, T, p + 1, n)
<1>1. IsFiniteSet(A) /\ IsFiniteSet(B) /\ Cardinality(A) \in Nat /\ Cardinality(B) \in Nat
  BY AmongIs
<1>2. A \cup B = Among(w, T, 1, n) /\ A \cap B = {}
  BY DEF Among
<1>3. /\ Count(w, T, p) = Cardinality(A) /\ Count(w, T, n) = Cardinality(A \cup B)
      /\ Cardinality(Among(w, T, p + 1, n)) = Cardinality(B)
  BY <1>2 DEF Count
<1> HIDE DEF A, B
<1>4. Cardinality(A \cup B) = Cardinality(A) + Cardinality(B) - Cardinality(A \cap B)
  BY <1>1, FS_Union
<1>5. Cardinality(A \cap B) = 0
  BY <1>2, FS_EmptySet
<1> QED BY <1>1, <1>3, <1>4, <1>5

\* More tokens do not change what is counted among the first.
LEMMA CountPrefix ==
  ASSUME NEW w, NEW v, NEW T, NEW n, \A k \in 1 .. n : w[k] = v[k]
  PROVE  Count(w, T, n) = Count(v, T, n)
<1>1. Among(w, T, 1, n) = Among(v, T, 1, n)
  BY DEF Among
<1> QED BY <1>1 DEF Count

\* The offset of token p: every token before it but the ends of ifs has an instruction.
Off(w, p) == Count(w, Emits, p - 1)

\* The constructs that are open after token n.
Depth(w, n) == Count(w, Opening, n) - Count(w, Closing, n)

Change(t) == IF t \in Opening THEN 1 ELSE IF t \in Closing THEN -1 ELSE 0

LEMMA DepthStep ==
  ASSUME NEW w, NEW n \in Nat
  PROVE  /\ Depth(w, n) \in Int /\ Depth(w, 0) = 0
         /\ Depth(w, n + 1) = Depth(w, n) + Change(w[n + 1])
<1>1. \A t : ~(t \in Opening /\ t \in Closing)
  BY DEF Opening, Closing
<1>2. Depth(w, 0) = 0
  BY CountNone DEF Depth
<1>3. /\ Count(w, Opening, n) \in Nat /\ Count(w, Closing, n) \in Nat
      /\ Count(w, Opening, n + 1) = Count(w, Opening, n) + IF w[n + 1] \in Opening THEN 1 ELSE 0
      /\ Count(w, Closing, n + 1) = Count(w, Closing, n) + IF w[n + 1] \in Closing THEN 1 ELSE 0
  BY CountOne
<1> QED BY <1>1, <1>2, <1>3 DEF Depth, Change

LEMMA OffStep ==
  ASSUME NEW w, NEW p \in Nat, p > 0
  PROVE  /\ Off(w, p) \in Nat /\ Off(w, 1) = 0
         /\ Off(w, p + 1) = Off(w, p) + IF w[p] \in Emits THEN 1 ELSE 0
<1> DEFINE n == p - 1
<1>1. n \in Nat /\ p = n + 1 /\ (p + 1) - 1 = n + 1
  OBVIOUS
<1>2. /\ Count(w, Emits, n) \in Nat
      /\ Count(w, Emits, n + 1) = Count(w, Emits, n) + IF w[n + 1] \in Emits THEN 1 ELSE 0
  BY <1>1, CountOne
<1>3. Count(w, Emits, 1 - 1) = 0
  BY CountNone
<1> QED BY <1>1, <1>2, <1>3 DEF Off

LEMMA OffOrder ==
  ASSUME NEW w, NEW p \in Nat, p > 0, NEW q \in Nat, p < q
  PROVE  /\ Off(w, p) <= Off(w, q)
         /\ w[p] \in Emits => Off(w, p) < Off(w, q)
<1>1. p - 1 \in Nat /\ q - 1 \in Nat /\ p <= q - 1 /\ (p + 1) - 1 = p
  OBVIOUS
<1>2. Off(w, p + 1) <= Off(w, q)
  BY <1>1, CountRange DEF Off
<1>3. Off(w, p) \in Nat /\ Off(w, q) \in Nat
      /\ Off(w, p + 1) = Off(w, p) + IF w[p] \in Emits THEN 1 ELSE 0
  BY OffStep
<1> QED BY <1>2, <1>3

\* Tokens with an instruction are at different offsets.
LEMMA OffUnique ==
  ASSUME NEW w, NEW p \in Nat, p > 0, w[p] \in Emits, NEW q \in Nat, q > 0, w[q] \in Emits,
         Off(w, p) = Off(w, q)
  PROVE  p = q
<1>1. Off(w, p) \in Nat /\ Off(w, q) \in Nat
  BY OffStep
<1>2. ~(p < q) /\ ~(q < p)
  BY <1>1, OffOrder
<1> QED BY <1>2

LEMMA PrefixSame ==
  ASSUME NEW w, NEW v, NEW n \in Nat, \A k \in 1 .. n : w[k] = v[k]
  PROVE  /\ \A p \in 0 .. n : Depth(w, p) = Depth(v, p)
         /\ \A p \in 1 .. n + 1 : Off(w, p) = Off(v, p)
<1>1. ASSUME NEW p \in 0 .. n, NEW T
      PROVE  Count(w, T, p) = Count(v, T, p)
  <2>1. \A k \in 1 .. p : w[k] = v[k]
    OBVIOUS
  <2> QED BY <2>1, CountPrefix
<1>2. \A p \in 0 .. n : Depth(w, p) = Depth(v, p)
  BY <1>1 DEF Depth
<1>3. ASSUME NEW p \in 1 .. n + 1
      PROVE  Off(w, p) = Off(v, p)
  <2>1. p - 1 \in 0 .. n
    OBVIOUS
  <2> QED BY <1>1, <2>1 DEF Off
<1> QED BY <1>2, <1>3

-------------------------------------------------------------------------------
(* Where the jumps of a body belong. *)

\* No construct around token p ends before token q does.
Stays(w, p, q) == \A r \in p .. q : Depth(w, r) >= Depth(w, p)

\* Token q ends the construct of p, an opening token or an else.
Ends(w, p, q) ==
  /\ q \in p + 1 .. Len(w)
  /\ Stays(w, p, q - 1)
  /\ Depth(w, q) = Depth(w, p) - 1

\* The elses at the level of p, after it.
ElsesIn(w, p) == { e \in p + 1 .. Len(w) : w[e] = "else" /\ Depth(w, e) = Depth(w, p) }

\* The construct k of token p is open: what waits for its labels, and what does not any more.
OpenAt(w, c, k, p) ==
  /\ w[p] = "if" =>
       \/ /\ k.kind = "then" /\ k.skip.pendingFixups = {Off(w, p)} /\ k.join = createLabel
          /\ ElsesIn(w, p) = {}
       \/ /\ k.kind = "else" /\ ElsesIn(w, p) # {}
          /\ \A e \in ElsesIn(w, p) : Goes(c, Off(w, p)) = Off(w, e + 1)
  /\ w[p] = "while" =>
       /\ k.kind = "body" /\ k.skip.pendingFixups = {Off(w, p)}
       /\ k.join.bound /\ k.join.offset = Off(w, p)
  /\ w[p] = "else" => k.kind = "else" /\ k.join.pendingFixups = {Off(w, p)}

\* The construct of token p ended at q: its jumps go where they belong.
ClosedAt(w, c, p, q) ==
  /\ w[p] = "if" =>
       /\ \A e \in ElsesIn(w, p) : e < q => Goes(c, Off(w, p)) = Off(w, e + 1)
       /\ (\A e \in ElsesIn(w, p) : e > q) => Goes(c, Off(w, p)) = Off(w, q + 1)
  /\ w[p] = "while" =>
       /\ w[q] = "endwhile"
       /\ Goes(c, Off(w, p)) = Off(w, q + 1) /\ Goes(c, Off(w, q)) = Off(w, p)
  /\ w[p] = "else" => Goes(c, Off(w, p)) = Off(w, q)

Branching == {"if", "while", "else"}

Placed(w, c, o, p) ==
  \/ /\ Stays(w, p, Len(w)) /\ Depth(w, p) \in 1 .. Len(o)
     /\ OpenAt(w, c, o[Depth(w, p)], p)
  \/ \E q \in p + 1 .. Len(w) : Ends(w, p, q) /\ ClosedAt(w, c, p, q)

OpOf(t) == CASE t = "stmt" -> "op"
             [] t = "return" -> "ret"
             [] t \in {"if", "while"} -> "jz"
             [] t \in {"else", "endwhile"} -> "jmp"

\* Code c is what a body w compiles to, the constructs of o still open.
Compiled(w, c, o) ==
  /\ w \in Seq(Tokens)
  /\ Depth(w, Len(w)) = Len(o)
  /\ \A p \in 1 .. Len(w) : w[p] \in Emits => c[Off(w, p) + 1].op = OpOf(w[p])
  /\ \A p \in 1 .. Len(w) : w[p] \in Branching => Placed(w, c, o, p)
  /\ \A q \in 1 .. Len(w) :
       w[q] = "endwhile" => \E p \in 1 .. Len(w) : w[p] = "while" /\ Ends(w, p, q)
  /\ \A d \in 1 .. Len(o) :
       \E p \in 1 .. Len(w) : w[p] \in Opening /\ Stays(w, p, Len(w)) /\ Depth(w, p) = d

CodeIs ==
  /\ phase = "emit" => /\ Compiled(prog, code, open)
                       /\ Len(code) = Off(prog, Len(prog) + 1)
  /\ phase = "run" => /\ Compiled(prog, code, << >>)
                      /\ Len(code) = Off(prog, Len(prog) + 1) + 1
                      /\ code[Len(code)].op = "ret"

\* Body v begins with body w.
Extends(w, v) ==
  /\ w \in Seq(Tokens) /\ v \in Seq(Tokens) /\ Len(w) <= Len(v)
  /\ \A k \in 1 .. Len(w) : v[k] = w[k]

LEMMA ExtendsSame ==
  ASSUME NEW w, NEW v, Extends(w, v)
  PROVE  /\ Len(w) \in Nat /\ Len(v) \in Nat
         /\ \A p \in 0 .. Len(w) : Depth(v, p) = Depth(w, p) /\ Depth(w, p) \in Int
         /\ \A p \in 1 .. Len(w) + 1 : Off(v, p) = Off(w, p) /\ Off(w, p) \in Nat
<1>1. Len(w) \in Nat /\ Len(v) \in Nat /\ \A k \in 1 .. Len(w) : w[k] = v[k]
  BY DEF Extends
<1>2. /\ \A p \in 0 .. Len(w) : Depth(w, p) = Depth(v, p)
      /\ \A p \in 1 .. Len(w) + 1 : Off(w, p) = Off(v, p)
  BY <1>1, PrefixSame
<1>3. \A p \in 0 .. Len(w) : Depth(w, p) \in Int
  BY <1>1, DepthStep
<1>4. \A p \in 1 .. Len(w) + 1 : Off(w, p) \in Nat
  BY <1>1, OffStep
<1> QED BY <1>1, <1>2, <1>3, <1>4

\* The jumps of w, but for the one at token x, go where they went.
Keeps(w, c, d, x) ==
  \A p \in 1 .. Len(w) : w[p] \in Emits /\ p # x => Goes(d, Off(w, p)) = Goes(c, Off(w, p))

\* A construct that has ended is not disturbed by what comes later.
LEMMA ClosedStays ==
  ASSUME NEW w, NEW v, Extends(w, v), NEW c, NEW d, NEW x, Keeps(w, c, d, x),
         NEW p \in 1 .. Len(w), NEW q \in p + 1 .. Len(w), w[p] \in Branching, p # x, q # x,
         Ends(w, p, q), ClosedAt(w, c, p, q)
  PROVE  Ends(v, p, q) /\ ClosedAt(v, d, p, q)
<1>1. /\ Len(w) \in Nat /\ Len(v) \in Nat /\ Len(w) <= Len(v)
      /\ \A r \in 0 .. Len(w) : Depth(v, r) = Depth(w, r)
      /\ \A r \in 1 .. Len(w) + 1 : Off(v, r) = Off(w, r)
      /\ \A k \in 1 .. Len(w) : v[k] = w[k]
  BY ExtendsSame DEF Extends
<1>2. Ends(v, p, q)
  BY <1>1 DEF Ends, Stays
<1>3. \A e : e < q => (e \in ElsesIn(v, p) <=> e \in ElsesIn(w, p))
  BY <1>1 DEF ElsesIn
<1>4. Goes(d, Off(w, p)) = Goes(c, Off(w, p))
  BY DEF Keeps, Branching, Emits
<1>5. w[q] = "endwhile" => Goes(d, Off(w, q)) = Goes(c, Off(w, q))
  BY <1>1 DEF Keeps, Emits
<1>6. Off(v, p) = Off(w, p) /\ Off(v, q) = Off(w, q) /\ Off(v, q + 1) = Off(w, q + 1)
      /\ v[p] = w[p] /\ v[q] = w[q]
  BY <1>1
<1>7. ASSUME w[p] = "if"
      PROVE  /\ \A e \in ElsesIn(v, p) : e < q => Goes(d, Off(v, p)) = Off(v, e + 1)
             /\ (\A e \in ElsesIn(v, p) : e > q) => Goes(d, Off(v, p)) = Off(v, q + 1)
  <2>1. ASSUME NEW e \in ElsesIn(v, p), e < q
        PROVE  Goes(d, Off(v, p)) = Off(v, e + 1)
    <3>1. e \in ElsesIn(w, p) /\ e + 1 \in 1 .. Len(w) + 1
      BY <1>1, <1>3, <2>1 DEF ElsesIn
    <3> QED BY <1>1, <1>4, <1>6, <1>7, <2>1, <3>1 DEF ClosedAt
  <2>2. ASSUME \A e \in ElsesIn(v, p) : e > q
        PROVE  Goes(d, Off(v, p)) = Off(v, q + 1)
    <3>1. \A e \in ElsesIn(w, p) : e \in ElsesIn(v, p)
      BY <1>1 DEF ElsesIn
    <3> QED BY <1>4, <1>6, <1>7, <2>2, <3>1 DEF ClosedAt
  <2> QED BY <2>1, <2>2
<1>8. ASSUME w[p] = "while"
      PROVE  v[q] = "endwhile" /\ Goes(d, Off(v, p)) = Off(v, q + 1) /\ Goes(d, Off(v, q)) = Off(v, p)
  BY <1>4, <1>5, <1>6, <1>8 DEF ClosedAt
<1>9. w[p] = "else" => Goes(d, Off(v, p)) = Off(v, q)
  BY <1>4, <1>6 DEF ClosedAt
<1>10. ClosedAt(v, d, p, q)
  BY <1>6, <1>7, <1>8, <1>9 DEF ClosedAt
<1> QED BY <1>2, <1>10

\* A construct that is open stays open with the labels it has when the next token is
\* neither its else nor its end.
LEMMA OpenStays ==
  ASSUME NEW w, NEW v, Extends(w, v), Len(v) = Len(w) + 1,
         NEW c, NEW d, NEW x, Keeps(w, c, d, x), NEW k,
         NEW p \in 1 .. Len(w), w[p] \in Branching, p # x,
         Stays(w, p, Len(w)), OpenAt(w, c, k, p),
         Depth(v, Len(v)) >= Depth(w, p),
         v[Len(v)] = "else" => Depth(v, Len(v)) # Depth(w, p)
  PROVE  Stays(v, p, Len(v)) /\ OpenAt(v, d, k, p) /\ Depth(v, p) = Depth(w, p)
<1>1. /\ Len(w) \in Nat /\ Len(v) \in Nat
      /\ \A r \in 0 .. Len(w) : Depth(v, r) = Depth(w, r)
      /\ \A r \in 1 .. Len(w) + 1 : Off(v, r) = Off(w, r)
      /\ \A r \in 1 .. Len(w) : v[r] = w[r]
  BY ExtendsSame DEF Extends
<1>2. Depth(v, p) = Depth(w, p) /\ Off(v, p) = Off(w, p) /\ v[p] = w[p]
  BY <1>1
<1>3. Stays(v, p, Len(v))
  <2> SUFFICES ASSUME NEW r \in p .. Len(v) PROVE Depth(v, r) >= Depth(v, p)
    BY DEF Stays
  <2>1. CASE r = Len(v)
    BY <1>2, <2>1
  <2>2. CASE r # Len(v)
    <3>1. r \in p .. Len(w)
      BY <1>1, <2>2
    <3> QED BY <1>1, <1>2, <3>1 DEF Stays
  <2> QED BY <2>1, <2>2
<1>4. ElsesIn(v, p) = ElsesIn(w, p)
  <2>1. ASSUME NEW e \in p + 1 .. Len(v), v[e] = "else", Depth(v, e) = Depth(v, p)
        PROVE  e \in ElsesIn(w, p)
    <3>1. e # Len(v)
      BY <1>2, <2>1
    <3>2. e \in p + 1 .. Len(w)
      BY <1>1, <3>1
    <3> QED BY <1>1, <1>2, <2>1, <3>2 DEF ElsesIn
  <2>2. ASSUME NEW e \in ElsesIn(w, p)
        PROVE  e \in ElsesIn(v, p)
    BY <1>1, <1>2 DEF ElsesIn
  <2> QED BY <2>1, <2>2 DEF ElsesIn
<1>5. Goes(d, Off(w, p)) = Goes(c, Off(w, p))
  BY DEF Keeps, Branching, Emits
<1>6. \A e \in ElsesIn(w, p) : Off(v, e + 1) = Off(w, e + 1)
  BY <1>1 DEF ElsesIn
<1>7. OpenAt(v, d, k, p)
  BY <1>2, <1>4, <1>5, <1>6 DEF OpenAt
<1> QED BY <1>2, <1>3, <1>7

LEMMA EndsCloses ==
  ASSUME NEW w \in Seq(Tokens), NEW p \in 1 .. Len(w), NEW q, Ends(w, p, q)
  PROVE  w[q] \in Closing /\ ~Stays(w, p, Len(w))
<1>1. /\ q \in p + 1 .. Len(w) /\ Depth(w, q) = Depth(w, p) - 1
      /\ Depth(w, q - 1) >= Depth(w, p)
  BY DEF Ends, Stays
<1>2. q - 1 \in Nat /\ (q - 1) + 1 = q /\ q \in Nat /\ p \in Nat
  BY <1>1
<1>3. Depth(w, q) = Depth(w, q - 1) + Change(w[q]) /\ Depth(w, q - 1) \in Int
  <2> DEFINE m == q - 1
  <2>1. m \in Nat /\ m + 1 = q
    BY <1>2
  <2> HIDE DEF m
  <2>2. Depth(w, m + 1) = Depth(w, m) + Change(w[m + 1]) /\ Depth(w, m) \in Int
    BY <2>1, DepthStep
  <2> QED BY <2>1, <2>2 DEF m
<1>4. Depth(w, p) \in Int
  BY <1>2, DepthStep
<1>5. w[q] \in Closing
  BY <1>1, <1>3, <1>4 DEF Change
<1>6. ~Stays(w, p, Len(w))
  BY <1>1, <1>4 DEF Stays
<1> QED BY <1>5, <1>6

\* One more token.
LEMMA OneMore ==
  ASSUME NEW w \in Seq(Tokens), NEW t \in Tokens, NEW v, v = Append(w, t)
  PROVE  /\ Extends(w, v) /\ Len(w) \in Nat /\ Len(v) = Len(w) + 1 /\ v[Len(v)] = t
         /\ Depth(v, Len(v)) = Depth(w, Len(w)) + Change(t)
         /\ Off(v, Len(v)) = Off(w, Len(w) + 1)
         /\ Off(v, Len(v) + 1) = Off(w, Len(w) + 1) + IF t \in Emits THEN 1 ELSE 0
<1> DEFINE n == Len(w)
<1>1. /\ v \in Seq(Tokens) /\ Len(v) = n + 1 /\ v[n + 1] = t /\ n \in Nat
      /\ \A k \in 1 .. n : v[k] = w[k]
  BY AppendProperties
<1>2. Extends(w, v)
  BY <1>1 DEF Extends
<1>3. Depth(v, n) = Depth(w, n) /\ Off(v, n + 1) = Off(w, n + 1)
  BY <1>1, <1>2, ExtendsSame
<1> HIDE DEF n
<1>4. Depth(v, n + 1) = Depth(v, n) + Change(v[n + 1])
  BY <1>1, DepthStep
<1>5. Off(v, (n + 1) + 1) = Off(v, n + 1) + IF v[n + 1] \in Emits THEN 1 ELSE 0
  <2>1. n + 1 \in Nat /\ n + 1 > 0
    BY <1>1
  <2> QED BY <2>1, OffStep
<1> QED BY <1>1, <1>2, <1>3, <1>4, <1>5 DEF n

\* Code c for body w becomes code d for body v, one token t longer, and only what is
\* innermost changes: token x is the one whose jump is patched, 0 for none.
Grows(w, c, o, t, v, d, x, s) ==
  /\ Compiled(w, c, o) /\ Len(o) \in Nat
  /\ t \in Tokens /\ v = Append(w, t)
  /\ Keeps(w, c, d, x)
  /\ \/ x = 0
     \/ x \in 1 .. Len(w) /\ w[x] \in Branching /\ Stays(w, x, Len(w)) /\ Depth(w, x) = Len(o)
  /\ Len(s) = Len(o) + Change(t) /\ \A m \in 1 .. Len(o) - 1 : s[m] = o[m]
  /\ \A p \in 1 .. Len(w) : w[p] \in Emits => d[Off(w, p) + 1].op = c[Off(w, p) + 1].op
  /\ t \in Emits => d[Off(w, Len(w) + 1) + 1].op = OpOf(t)
  /\ \A p \in 1 .. Len(w) :
       w[p] \in Branching =>
       (Stays(w, p, Len(w)) /\ Depth(w, p) = Len(o) /\ OpenAt(w, c, o[Len(o)], p)
          => Placed(v, d, s, p))
  /\ t \in Branching => Placed(v, d, s, Len(v))
  /\ t = "endwhile" =>
       \E p \in 1 .. Len(w) : w[p] = "while" /\ Stays(w, p, Len(w)) /\ Depth(w, p) = Len(o)

\* What a step that compiles a token must show.
LEMMA TokenStep ==
  ASSUME NEW w, NEW c, NEW o, NEW t, NEW v, NEW d, NEW x, NEW s, Grows(w, c, o, t, v, d, x, s)
  PROVE  Compiled(v, d, s)
<1> SUFFICES
      ASSUME Compiled(w, c, o), Len(o) \in Nat, t \in Tokens, v = Append(w, t), Keeps(w, c, d, x),
             \/ x = 0
             \/ x \in 1 .. Len(w) /\ w[x] \in Branching /\ Stays(w, x, Len(w)) /\ Depth(w, x) = Len(o),
             Len(s) = Len(o) + Change(t), \A m \in 1 .. Len(o) - 1 : s[m] = o[m],
             \A p \in 1 .. Len(w) : w[p] \in Emits => d[Off(w, p) + 1].op = c[Off(w, p) + 1].op,
             t \in Emits => d[Off(w, Len(w) + 1) + 1].op = OpOf(t),
             \A p \in 1 .. Len(w) :
               w[p] \in Branching =>
               (Stays(w, p, Len(w)) /\ Depth(w, p) = Len(o) /\ OpenAt(w, c, o[Len(o)], p)
                  => Placed(v, d, s, p)),
             t \in Branching => Placed(v, d, s, Len(v)),
             t = "endwhile" =>
               \E p \in 1 .. Len(w) : w[p] = "while" /\ Stays(w, p, Len(w)) /\ Depth(w, p) = Len(o)
      PROVE  Compiled(v, d, s)
  BY DEF Grows
<1> DEFINE n == Len(w)
<1>1. /\ w \in Seq(Tokens) /\ Depth(w, n) = Len(o)
      /\ \A p \in 1 .. n : w[p] \in Branching => Placed(w, c, o, p)
  BY DEF Compiled
<1>2. /\ Extends(w, v) /\ n \in Nat /\ Len(v) = n + 1 /\ v[n + 1] = t
      /\ Depth(v, n + 1) = Len(o) + Change(t)
      /\ Off(v, n + 1) = Off(w, n + 1)
  <2>1. /\ Extends(w, v) /\ n \in Nat /\ Len(v) = n + 1 /\ v[Len(v)] = t
        /\ Depth(v, Len(v)) = Depth(w, n) + Change(t)
        /\ Off(v, Len(v)) = Off(w, n + 1)
    BY <1>1, OneMore
  <2> QED BY <1>1, <2>1
<1>3. /\ \A p \in 1 .. n : v[p] = w[p] /\ Off(v, p) = Off(w, p)
      /\ \A p \in 0 .. n : Depth(v, p) = Depth(w, p) /\ Depth(w, p) \in Int
  <2>1. \A p \in 1 .. n : v[p] = w[p]
    BY <1>2 DEF Extends
  <2>2. /\ \A p \in 0 .. n : Depth(v, p) = Depth(w, p) /\ Depth(w, p) \in Int
        /\ \A p \in 1 .. n + 1 : Off(v, p) = Off(w, p)
    BY <1>2, ExtendsSame
  <2> QED BY <1>2, <2>1, <2>2
<1>4. /\ Change(t) \in {-1, 0, 1}
      /\ t = "else" => Change(t) = 0
      /\ t = "endwhile" => Change(t) = -1
      /\ Change(t) = 1 => t \in Opening
  BY DEF Change, Opening, Closing
<1> HIDE DEF n
<1>5. ASSUME NEW p \in 1 .. n, w[p] \in Branching
      PROVE  Placed(v, d, s, p)
  <2>1. Placed(w, c, o, p)
    BY <1>1, <1>5 DEF n
  <2>2. ASSUME NEW q \in p + 1 .. n, Ends(w, p, q), ClosedAt(w, c, p, q)
        PROVE  Placed(v, d, s, p)
    <3>1. w[q] \in Closing /\ ~Stays(w, p, n)
      BY <1>1, <2>2, EndsCloses DEF n
    <3>2. p # x /\ q # x
      BY <1>2, <3>1 DEF Branching, Closing, n
    <3>3. Ends(v, p, q) /\ ClosedAt(v, d, p, q)
      BY <1>2, <1>5, <2>2, <3>2, ClosedStays DEF n
    <3>4. q \in p + 1 .. Len(v)
      BY <1>2
    <3> QED BY <3>3, <3>4 DEF Placed
  <2>3. ASSUME Stays(w, p, n), Depth(w, p) \in 1 .. Len(o), OpenAt(w, c, o[Depth(w, p)], p)
        PROVE  Placed(v, d, s, p)
    <3>1. CASE Depth(w, p) = Len(o)
      BY <1>5, <2>3, <3>1 DEF n
    <3>2. CASE Depth(w, p) # Len(o)
      <4>1. Depth(w, p) \in 1 .. Len(o) - 1
        BY <2>3, <3>2
      <4>2. p # x /\ s[Depth(w, p)] = o[Depth(w, p)] /\ Depth(w, p) \in 1 .. Len(s)
        BY <1>4, <3>2, <4>1
      <4>3. /\ Depth(v, Len(v)) >= Depth(w, p)
            /\ v[Len(v)] = "else" => Depth(v, Len(v)) # Depth(w, p)
        BY <1>2, <1>4, <4>1
      <4> DEFINE k == o[Depth(w, p)]
      <4>4. OpenAt(w, c, k, p)
        BY <2>3
      <4> HIDE DEF k
      <4>5. /\ Extends(w, v) /\ Len(v) = Len(w) + 1 /\ Keeps(w, c, d, x)
            /\ p \in 1 .. Len(w) /\ w[p] \in Branching /\ p # x /\ Stays(w, p, Len(w))
        BY <1>2, <1>5, <2>3, <4>2 DEF n
      <4>6. Stays(v, p, Len(v)) /\ OpenAt(v, d, k, p) /\ Depth(v, p) = Depth(w, p)
        BY ONLY <4>3, <4>4, <4>5, OpenStays
      <4> QED BY <4>2, <4>6 DEF Placed, k
    <3> QED BY <3>1, <3>2
  <2> QED BY <2>1, <2>2, <2>3 DEF Placed, n
<1>6. ASSUME NEW p \in 1 .. Len(v), v[p] \in Branching
      PROVE  Placed(v, d, s, p)
  <2>1. CASE p = Len(v)
    BY <1>2, <1>6, <2>1
  <2>2. CASE p # Len(v)
    <3>1. p \in 1 .. n /\ w[p] \in Branching
      BY <1>2, <1>3, <1>6, <2>2
    <3> QED BY <1>5, <3>1
  <2> QED BY <2>1, <2>2
<1>7. ASSUME NEW p \in 1 .. Len(v), v[p] \in Emits
      PROVE  d[Off(v, p) + 1].op = OpOf(v[p])
  <2>1. CASE p = Len(v)
    BY <1>2, <1>7, <2>1 DEF n
  <2>2. CASE p # Len(v)
    <3>1. p \in 1 .. n /\ v[p] = w[p] /\ Off(v, p) = Off(w, p)
      BY <1>2, <1>3, <2>2
    <3>2. c[Off(w, p) + 1].op = OpOf(w[p])
      BY <1>7, <3>1 DEF Compiled, n
    <3> QED BY <1>7, <3>1, <3>2 DEF n
  <2> QED BY <2>1, <2>2
<1>8. ASSUME NEW q \in 1 .. Len(v), v[q] = "endwhile"
      PROVE  \E p \in 1 .. Len(v) : v[p] = "while" /\ Ends(v, p, q)
  <2>1. CASE q = Len(v)
    <3>1. PICK p \in 1 .. n : w[p] = "while" /\ Stays(w, p, n) /\ Depth(w, p) = Len(o)
      BY <1>2, <1>8, <2>1 DEF n
    <3>2. v[p] = "while" /\ Depth(v, p) = Len(o) /\ Depth(v, q) = Len(o) - 1
          /\ p \in 1 .. Len(v) /\ q - 1 = n /\ q \in p + 1 .. Len(v)
      BY <1>2, <1>3, <1>4, <1>8, <2>1, <3>1
    <3>3. Stays(v, p, n)
      BY <1>3, <3>1 DEF Stays
    <3> QED BY <3>2, <3>3 DEF Ends
  <2>2. CASE q # Len(v)
    <3>1. q \in 1 .. n /\ w[q] = "endwhile"
      BY <1>2, <1>3, <1>8, <2>2
    <3>2. PICK p \in 1 .. n : w[p] = "while" /\ Ends(w, p, q)
      BY <3>1 DEF Compiled, n
    <3>3. v[p] = "while" /\ p \in 1 .. Len(v)
      BY <1>2, <1>3, <3>2
    <3>4. Ends(v, p, q)
      BY <1>2, <1>3, <3>2 DEF Ends, Stays, n
    <3> QED BY <3>3, <3>4
  <2> QED BY <2>1, <2>2
<1>9. ASSUME NEW m \in 1 .. Len(s)
      PROVE  \E p \in 1 .. Len(v) : v[p] \in Opening /\ Stays(v, p, Len(v)) /\ Depth(v, p) = m
  <2>1. CASE m = Len(o) + 1
    <3>1. t \in Opening /\ Depth(v, n + 1) = m
      BY <1>2, <1>4, <1>9, <2>1
    <3>2. Len(v) \in 1 .. Len(v) /\ v[Len(v)] \in Opening /\ Depth(v, Len(v)) = m
      BY <1>2, <3>1
    <3>3. Stays(v, Len(v), Len(v))
      BY <1>2, <2>1, <3>2 DEF Stays
    <3> QED BY <3>2, <3>3
  <2>2. CASE m # Len(o) + 1
    <3>1. m \in 1 .. Len(o)
      BY <1>4, <1>9, <2>2
    <3>2. PICK p \in 1 .. n : w[p] \in Opening /\ Stays(w, p, n) /\ Depth(w, p) = m
      BY <3>1 DEF Compiled, n
    <3>3. p \in 1 .. Len(v) /\ v[p] \in Opening /\ Depth(v, p) = m
      BY <1>2, <1>3, <3>2
    <3>4. Depth(v, Len(v)) >= m
      BY <1>2, <1>9
    <3>5. ASSUME NEW r \in p .. Len(v)
          PROVE  Depth(v, r) >= m
      <4>1. CASE r = Len(v)
        BY <3>4, <4>1
      <4>2. CASE r # Len(v)
        <5>1. r \in p .. n /\ Depth(v, r) = Depth(w, r)
          BY <1>2, <1>3, <4>2
        <5> QED BY <3>2, <5>1 DEF Stays
      <4> QED BY <4>1, <4>2
    <3> QED BY <3>3, <3>5 DEF Stays
  <2> QED BY <2>1, <2>2
<1>10. v \in Seq(Tokens) /\ Depth(v, Len(v)) = Len(s)
  BY <1>2 DEF Extends
<1> QED BY <1>6, <1>7, <1>8, <1>9, <1>10 DEF Compiled

-------------------------------------------------------------------------------
(* The invariant that the code is what the body compiles to, token by token. *)

\* A jump that is emitted: the code before it stays, and a bound label is reached at once.
LEMMA EmittedJump ==
  ASSUME NEW c \in Seq(Instruction), NEW op \in {"jz", "jmp"}, NEW l, Inside(l, Len(c))
  PROVE  /\ \A k \in 1 .. Len(c) : Jump(c, op, l)[k] = c[k]
         /\ Jump(c, op, l)[Len(c) + 1].op = op
         /\ l.bound => Goes(Jump(c, op, l), Len(c)) = l.offset
<1> DEFINE i == [op |-> op, rel |-> IF l.bound THEN Rel(l.offset, Len(c)) ELSE 0]
           d == Append(c, i)
<1>1. Len(c) \in Nat /\ l.offset \in Int
  BY DEF Inside
<1>2. d[Len(c) + 1] = i /\ \A k \in 1 .. Len(c) : d[k] = c[k]
  <2> HIDE DEF i
  <2> QED BY AppendProperties
<1>3. Jump(c, op, l) = d
  BY DEF Jump
<1>4. l.bound => d[Len(c) + 1].rel = Rel(l.offset, Len(c))
  BY <1>2
<1> HIDE DEF d
<1>5. l.bound => Goes(d, Len(c)) = l.offset
  BY <1>1, <1>4, RelGoes
<1> QED BY <1>2, <1>3, <1>5

\* An offset belongs to one token, so patching the jump of token x leaves the others.
LEMMA PatchKeeps ==
  ASSUME NEW w \in Seq(Tokens), NEW c, Len(c) = Off(w, Len(w) + 1), NEW d,
         NEW x \in 0 .. Len(w), x # 0 => w[x] \in Emits,
         \A j \in 0 .. Len(c) - 1 : x = 0 \/ j # Off(w, x) => d[j + 1] = c[j + 1],
         \A j \in 0 .. Len(c) - 1 : d[j + 1].op = c[j + 1].op
  PROVE  /\ Keeps(w, c, d, x)
         /\ \A p \in 1 .. Len(w) : w[p] \in Emits => d[Off(w, p) + 1].op = c[Off(w, p) + 1].op
<1> SUFFICES ASSUME NEW p \in 1 .. Len(w), w[p] \in Emits
             PROVE  /\ p # x => Goes(d, Off(w, p)) = Goes(c, Off(w, p))
                    /\ d[Off(w, p) + 1].op = c[Off(w, p) + 1].op
  BY DEF Keeps
<1>1. Len(w) \in Nat /\ p \in Nat /\ p > 0 /\ Len(w) + 1 \in Nat /\ p < Len(w) + 1
  OBVIOUS
<1> DEFINE n == Len(w) + 1
<1>2. n \in Nat /\ n > 0 /\ p < n
  BY <1>1
<1>3. Off(w, p) \in 0 .. Len(c) - 1
  <2> HIDE DEF n
  <2>1. Off(w, p) \in Nat /\ Off(w, n) \in Nat
    BY <1>1, <1>2, OffStep
  <2>2. Off(w, p) < Off(w, n)
    BY <1>1, <1>2, OffOrder
  <2> QED BY <2>1, <2>2 DEF n
<1>4. ASSUME p # x
      PROVE  x = 0 \/ Off(w, p) # Off(w, x)
  <2>1. CASE x = 0
    BY <2>1
  <2>2. CASE x # 0
    <3>1. x \in Nat /\ x > 0 /\ w[x] \in Emits
      BY <1>1, <2>2
    <3>2. Off(w, p) # Off(w, x)
      BY <1>1, <1>4, <3>1, OffUnique
    <3> QED BY <2>2, <3>2
  <2> QED BY <2>1, <2>2
<1>5. p # x => d[Off(w, p) + 1] = c[Off(w, p) + 1]
  BY <1>3, <1>4
<1> QED BY <1>3, <1>5 DEF Goes

\* Something is open: its opening token, and what is known of its labels.
LEMMA Opener ==
  ASSUME NEW w, NEW c, NEW o, Compiled(w, c, o), Len(o) \in Nat, Len(o) > 0
  PROVE  \E x \in 1 .. Len(w) :
           /\ w[x] \in Opening /\ Stays(w, x, Len(w)) /\ Depth(w, x) = Len(o)
           /\ OpenAt(w, c, o[Len(o)], x)
<1>1. PICK x \in 1 .. Len(w) :
        w[x] \in Opening /\ Stays(w, x, Len(w)) /\ Depth(w, x) = Len(o)
  BY DEF Compiled
<1>2. w \in Seq(Tokens) /\ w[x] \in Branching
  BY <1>1 DEF Compiled, Opening, Branching
<1>3. Placed(w, c, o, x)
  BY <1>2 DEF Compiled
<1>4. \A q : ~Ends(w, x, q)
  BY <1>1, <1>2, EndsCloses
<1>5. OpenAt(w, c, o[Len(o)], x)
  BY <1>1, <1>3, <1>4 DEF Placed
<1> QED BY <1>1, <1>5

\* The innermost construct of body w ends, or goes on, with token t.
LEMMA EndsHere ==
  ASSUME NEW w, NEW v, Extends(w, v), Len(v) = Len(w) + 1, NEW m \in Nat,
         Depth(v, Len(v)) = m - 1,
         NEW p \in 1 .. Len(w), Stays(w, p, Len(w)), Depth(w, p) = m
  PROVE  Ends(v, p, Len(v)) /\ Len(v) \in p + 1 .. Len(v)
<1>1. /\ Len(w) \in Nat /\ Len(v) \in Nat
      /\ \A r \in 0 .. Len(w) : Depth(v, r) = Depth(w, r)
  BY ExtendsSame
<1>2. Len(v) \in p + 1 .. Len(v) /\ Len(v) - 1 = Len(w) /\ Depth(v, p) = m
  BY <1>1
<1>3. Stays(v, p, Len(v) - 1)
  BY <1>1, <1>2 DEF Stays
<1> QED BY <1>2, <1>3 DEF Ends

\* Statements, returns and what opens a construct change nothing that is open.
LEMMA QuietToken ==
  ASSUME NEW w, NEW c, NEW o, Compiled(w, c, o), Len(o) \in Nat,
         NEW t \in {"stmt", "return", "if", "while"}, NEW v, v = Append(w, t),
         NEW d, Keeps(w, c, d, 0),
         NEW s, Len(s) = Len(o) + Change(t), \A m \in 1 .. Len(o) : s[m] = o[m],
         NEW p \in 1 .. Len(w), w[p] \in Branching, Stays(w, p, Len(w)), Depth(w, p) = Len(o),
         OpenAt(w, c, o[Len(o)], p), Len(o) > 0
  PROVE  Placed(v, d, s, p)
<1>1. w \in Seq(Tokens) /\ t \in Tokens /\ Depth(w, Len(w)) = Len(o)
  BY DEF Compiled, Tokens
<1>2. /\ Extends(w, v) /\ Len(v) = Len(w) + 1 /\ v[Len(v)] = t /\ Len(w) \in Nat
      /\ Depth(v, Len(v)) = Len(o) + Change(t)
  <2>1. /\ Extends(w, v) /\ Len(v) = Len(w) + 1 /\ v[Len(v)] = t /\ Len(w) \in Nat
        /\ Depth(v, Len(v)) = Depth(w, Len(w)) + Change(t)
    BY ONLY <1>1, v = Append(w, t), OneMore
  <2> QED BY <1>1, <2>1
<1>3. Change(t) \in {0, 1} /\ t # "else" /\ p # 0
  BY <1>2 DEF Change, Opening, Closing
<1>4. /\ Depth(v, Len(v)) >= Depth(w, p)
      /\ v[Len(v)] = "else" => Depth(v, Len(v)) # Depth(w, p)
  BY <1>2, <1>3
<1> DEFINE k == o[Len(o)]
<1>5. OpenAt(w, c, k, p)
  OBVIOUS
<1> HIDE DEF k
<1> DEFINE x == 0
<1>6. /\ Stays(w, p, Len(w)) /\ w[p] \in Branching /\ p \in 1 .. Len(w)
      /\ Keeps(w, c, d, x) /\ p # x
  BY <1>3
<1> HIDE DEF x
<1>7. Stays(v, p, Len(v)) /\ OpenAt(v, d, k, p) /\ Depth(v, p) = Depth(w, p)
  BY ONLY <1>2, <1>4, <1>5, <1>6, OpenStays
<1>8. Depth(v, p) \in 1 .. Len(s) /\ s[Depth(v, p)] = k
  BY <1>3, <1>7 DEF k
<1> QED BY <1>7, <1>8 DEF Placed

\* What every step that compiles a token starts from.
LEMMA NewToken ==
  ASSUME IInv, CodeIs, NEW t \in Tokens, compileToken(t)
  PROVE  /\ phase' = "emit" /\ prog' = Append(prog, t)
         /\ prog \in Seq(Tokens) /\ Len(prog) \in Nat
         /\ code \in Seq(Instruction) /\ Len(code) \in Nat /\ JumpsUpTo(code, Len(code))
         /\ LabelsInside(open, Len(code)) /\ open \in Seq(Construct) /\ Len(open) \in Nat
         /\ Compiled(prog, code, open) /\ Len(code) = Off(prog, Len(prog) + 1)
         /\ Extends(prog, prog') /\ Len(prog') = Len(prog) + 1 /\ prog'[Len(prog')] = t
         /\ Depth(prog', Len(prog')) = Len(open) + Change(t)
         /\ Off(prog', Len(prog')) = Len(code)
         /\ Off(prog', Len(prog') + 1) = Len(code) + IF t \in Emits THEN 1 ELSE 0
<1>1. phase = "emit" /\ phase' = "emit" /\ prog' = Append(prog, t)
  BY DEF compileToken
<1>2. /\ code \in Seq(Instruction) /\ Len(code) \in Nat /\ JumpsUpTo(code, Len(code))
      /\ LabelsInside(open, Len(code)) /\ open \in Seq(Construct) /\ Len(open) \in Nat
  BY DEF IInv, LabelsInside
<1>3. Compiled(prog, code, open) /\ Len(code) = Off(prog, Len(prog) + 1)
  BY <1>1 DEF CodeIs
<1>4. prog \in Seq(Tokens) /\ Depth(prog, Len(prog)) = Len(open)
  BY <1>3 DEF Compiled
<1> DEFINE v == prog'
<1>5. v = Append(prog, t)
  BY <1>1
<1> HIDE DEF v
<1>6. /\ Extends(prog, v) /\ Len(prog) \in Nat /\ Len(v) = Len(prog) + 1 /\ v[Len(v)] = t
      /\ Depth(v, Len(v)) = Depth(prog, Len(prog)) + Change(t)
      /\ Off(v, Len(v)) = Off(prog, Len(prog) + 1)
      /\ Off(v, Len(v) + 1) = Off(prog, Len(prog) + 1) + IF t \in Emits THEN 1 ELSE 0
  BY <1>4, <1>5, OneMore
<1> QED BY <1>1, <1>2, <1>3, <1>4, <1>6 DEF v

LEMMA EmitCodeIs ==
  ASSUME phase' = "emit", Compiled(prog', code', open'), Len(code') = Off(prog', Len(prog') + 1)
  PROVE  CodeIs'
BY DEF CodeIs

\* A token that leaves every label that is referred to pending.
LEMMA QuietStep ==
  ASSUME IInv, CodeIs, NEW t \in {"stmt", "return", "if", "while"}, compileToken(t),
         Len(code') = Len(code) + 1, \A k \in 1 .. Len(code) : code'[k] = code[k],
         code'[Len(code) + 1].op = OpOf(t),
         Len(open') = Len(open) + Change(t), \A m \in 1 .. Len(open) : open'[m] = open[m],
         t \in Branching => Placed(prog', code', open', Len(prog'))
  PROVE  CodeIs'
<1>0. t \in Tokens /\ t \in Emits /\ t # "endwhile"
  BY DEF Tokens, Emits
<1>1. /\ phase' = "emit" /\ prog' = Append(prog, t)
      /\ prog \in Seq(Tokens) /\ Len(prog) \in Nat /\ Len(code) \in Nat /\ Len(open) \in Nat
      /\ Compiled(prog, code, open) /\ Len(code) = Off(prog, Len(prog) + 1)
      /\ Off(prog', Len(prog') + 1) = Len(code) + 1
  BY <1>0, NewToken
<1> DEFINE w == prog
           c == code
           o == open
           v == prog'
           d == code'
           s == open'
           x == 0
<1>2. /\ w \in Seq(Tokens) /\ Len(c) = Off(w, Len(w) + 1) /\ Compiled(w, c, o) /\ Len(o) \in Nat
      /\ v = Append(w, t) /\ Len(s) = Len(o) + Change(t)
      /\ \A m \in 1 .. Len(o) : s[m] = o[m]
      /\ \A m \in 1 .. Len(o) - 1 : s[m] = o[m]
      /\ x = 0 /\ x \in 0 .. Len(w) /\ (x # 0 => w[x] \in Emits)
      /\ d[Len(c) + 1].op = OpOf(t)
      /\ (t \in Branching => Placed(v, d, s, Len(v)))
  BY <1>1
<1>3. /\ \A j \in 0 .. Len(c) - 1 : x = 0 \/ j # Off(w, x) => d[j + 1] = c[j + 1]
      /\ \A j \in 0 .. Len(c) - 1 : d[j + 1].op = c[j + 1].op
  <2>1. \A j \in 0 .. Len(c) - 1 : d[j + 1] = c[j + 1]
    BY <1>1
  <2> QED BY <2>1
<1> HIDE DEF w, c, o, v, d, s, x
<1>4. /\ Keeps(w, c, d, x)
      /\ \A p \in 1 .. Len(w) : w[p] \in Emits => d[Off(w, p) + 1].op = c[Off(w, p) + 1].op
  <2>1. /\ w \in Seq(Tokens) /\ Len(c) = Off(w, Len(w) + 1)
        /\ x \in 0 .. Len(w) /\ (x # 0 => w[x] \in Emits)
    BY <1>2
  <2> QED BY ONLY <1>3, <2>1, PatchKeeps
<1>5. t \in Emits => d[Off(w, Len(w) + 1) + 1].op = OpOf(t)
  BY <1>2
<1>6. Keeps(w, c, d, 0)
  BY <1>2, <1>4
<1>7. ASSUME NEW p \in 1 .. Len(w), w[p] \in Branching, Stays(w, p, Len(w)), Depth(w, p) = Len(o),
             OpenAt(w, c, o[Len(o)], p)
      PROVE  Placed(v, d, s, p)
  <2>1. Len(o) > 0
    <3>1. Placed(w, c, o, p) /\ \A q : ~Ends(w, p, q)
      BY <1>2, <1>7, EndsCloses DEF Compiled
    <3> QED BY <1>2, <1>7, <3>1 DEF Placed
  <2> QED BY ONLY t \in {"stmt", "return", "if", "while"}, <1>2, <1>6, <1>7, <2>1, QuietToken
<1>8. Grows(w, c, o, t, v, d, x, s)
  BY <1>0, <1>2, <1>4, <1>5, <1>7 DEF Grows
<1>9. Compiled(v, d, s)
  BY <1>8, TokenStep
<1> QED BY <1>1, <1>9, EmitCodeIs DEF v, d, s

LEMMA SimpleCode ==
  ASSUME IInv, CodeIs, compileSimple \/ compileReturn
  PROVE  CodeIs'
<1>1. PICK t \in {"stmt", "return"} :
        compileToken(t) /\ open' = open /\ code' = Append(code, [op |-> OpOf(t), rel |-> 0])
  BY DEF compileSimple, compileReturn, Plain, OpOf
<1>2. t \in Tokens /\ t \notin Branching /\ Change(t) = 0
  BY DEF Tokens, Branching, Change, Opening, Closing
<1>3. code \in Seq(Instruction) /\ Len(code) \in Nat /\ Len(open) \in Nat
  BY <1>1, <1>2, NewToken
<1> DEFINE i == [op |-> OpOf(t), rel |-> 0]
<1>4. i.op = OpOf(t) /\ code' = Append(code, i)
  BY <1>1
<1> HIDE DEF i
<1>5. /\ Len(code') = Len(code) + 1 /\ code'[Len(code) + 1] = i
      /\ \A k \in 1 .. Len(code) : code'[k] = code[k]
  BY <1>3, <1>4, AppendProperties
<1>6. /\ Len(open') = Len(open) + Change(t)
      /\ \A m \in 1 .. Len(open) : open'[m] = open[m]
  BY <1>1, <1>2, <1>3
<1> QED BY <1>1, <1>2, <1>4, <1>5, <1>6, QuietStep

\* The token that opens a construct is itself the start of what is open.
LEMMA StartsOpen ==
  ASSUME NEW v, NEW d, NEW s, Len(v) \in Nat, Len(s) \in Nat, Len(s) > 0,
         Depth(v, Len(v)) = Len(s), OpenAt(v, d, s[Len(s)], Len(v))
  PROVE  Placed(v, d, s, Len(v))
<1>1. Stays(v, Len(v), Len(v))
  BY DEF Stays
<1> QED BY <1>1 DEF Placed

LEMMA NothingAfter ==
  ASSUME NEW v, Len(v) \in Nat
  PROVE  ElsesIn(v, Len(v)) = {}
BY DEF ElsesIn

LEMMA OpenCode ==
  ASSUME IInv, CodeIs, compileIf \/ compileWhile
  PROVE  CodeIs'
<1> DEFINE skip == Refer(createLabel, code)
<1>1. PICK t \in {"if", "while"} :
        /\ compileToken(t) /\ code' = Jump(code, "jz", createLabel)
        /\ t = "if" => open' = Append(open, [kind |-> "then", skip |-> skip, join |-> createLabel])
        /\ t = "while" => open' = Append(open, [kind |-> "body", skip |-> skip,
                                                join |-> Bound(createLabel, code)])
  BY DEF compileIf, compileWhile
<1>2. t \in Tokens /\ t \in Emits /\ Change(t) = 1 /\ OpOf(t) = "jz" /\ t # "else"
  BY DEF Tokens, Emits, Change, Opening, OpOf
<1>3. /\ code \in Seq(Instruction) /\ Len(code) \in Nat /\ JumpsUpTo(code, Len(code))
      /\ open \in Seq(Construct) /\ Len(open) \in Nat
      /\ Len(prog) \in Nat /\ Len(prog') = Len(prog) + 1 /\ prog'[Len(prog')] = t
      /\ Depth(prog', Len(prog')) = Len(open) + Change(t)
      /\ Off(prog', Len(prog')) = Len(code)
  BY <1>1, <1>2, NewToken
<1>4. Inside(createLabel, Len(code)) /\ createLabel.bound = FALSE /\ createLabel.pendingFixups = {}
  BY <1>3, CreatedLabel DEF createLabel
<1>5. /\ Len(code') = Len(code) + 1
      /\ \A k \in 1 .. Len(code) : code'[k] = code[k]
      /\ code'[Len(code) + 1].op = OpOf(t)
  BY <1>1, <1>2, <1>3, <1>4, JumpCode, EmittedJump
<1>6. skip.pendingFixups = {Len(code)}
  BY DEF Refer, createLabel
<1>7. Bound(createLabel, code).bound /\ Bound(createLabel, code).offset = Len(code)
  BY DEF Bound
<1>8. PICK k : /\ open' = Append(open, k) /\ k.skip = skip
               /\ t = "if" => k.kind = "then" /\ k.join = createLabel
               /\ t = "while" => k.kind = "body" /\ k.join = Bound(createLabel, code)
  <2>1. CASE t = "if"
    BY <1>1, <2>1
  <2>2. CASE t = "while"
    BY <1>1, <2>2
  <2> QED BY <2>1, <2>2
<1> HIDE DEF skip
<1>9. /\ Len(open') = Len(open) + 1 /\ open'[Len(open')] = k
      /\ \A m \in 1 .. Len(open) : open'[m] = open[m]
  BY <1>3, <1>8
<1>10. ElsesIn(prog', Len(prog')) = {}
  BY <1>3, NothingAfter
<1>11. OpenAt(prog', code', k, Len(prog'))
  BY <1>2, <1>3, <1>6, <1>7, <1>8, <1>10 DEF OpenAt
<1>12. Placed(prog', code', open', Len(prog'))
  <2>1. /\ Len(prog') \in Nat /\ Len(open') \in Nat /\ Len(open') > 0
        /\ Depth(prog', Len(prog')) = Len(open')
        /\ OpenAt(prog', code', open'[Len(open')], Len(prog'))
    BY <1>2, <1>3, <1>9, <1>11
  <2> QED BY <2>1, StartsOpen
<1>13. Len(open') = Len(open) + Change(t)
  BY <1>2, <1>9
<1> QED BY <1>1, <1>5, <1>9, <1>12, <1>13, QuietStep

\* A label that one jump waits for is bound, after a jump is emitted or none is.
LEMMA PatchStep ==
  ASSUME IInv, CodeIs, Arch = "x86_64",
         NEW t \in {"else", "endif", "endwhile"}, compileToken(t), open # << >>,
         NEW x \in 1 .. Len(prog), prog[x] \in Branching,
         NEW l, Inside(l, Len(code)), l.pendingFixups = {Off(prog, x)},
         code' = Patched(IF t = "endif" THEN code ELSE Jump(code, "jmp", Top.join), l)
  PROVE  /\ Len(code') = Off(prog', Len(prog') + 1)
         /\ Keeps(prog, code, code', x)
         /\ \A p \in 1 .. Len(prog) :
              prog[p] \in Emits => code'[Off(prog, p) + 1].op = code[Off(prog, p) + 1].op
         /\ t \in Emits => code'[Off(prog, Len(prog) + 1) + 1].op = OpOf(t)
         /\ Goes(code', Off(prog, x)) = Len(code')
         /\ t # "endif" /\ Top.join.bound => Goes(code', Len(code)) = Top.join.offset
<1> DEFINE e == IF t = "endif" THEN code ELSE Jump(code, "jmp", Top.join)
<1>1. /\ t \in Tokens /\ (t \in Emits <=> t # "endif")
      /\ t # "endif" => OpOf(t) = "jmp"
  BY DEF Tokens, Emits, OpOf
<1>2. /\ code \in Seq(Instruction) /\ Len(code) \in Nat /\ JumpsUpTo(code, Len(code))
      /\ LabelsInside(open, Len(code))
      /\ prog \in Seq(Tokens) /\ Len(code) = Off(prog, Len(prog) + 1)
      /\ Off(prog', Len(prog') + 1) = Len(code) + IF t \in Emits THEN 1 ELSE 0
  BY <1>1, NewToken
<1>3. Inside(Top.join, Len(code))
  BY <1>2, Innermost
<1>4. /\ e \in Seq(Instruction) /\ Len(e) = Len(code) + IF t = "endif" THEN 0 ELSE 1
      /\ JumpsUpTo(e, Len(e))
      /\ \A k \in 1 .. Len(code) : e[k] = code[k]
      /\ t # "endif" => e[Len(code) + 1].op = "jmp"
      /\ t # "endif" /\ Top.join.bound => Goes(e, Len(code)) = Top.join.offset
  <2>1. CASE t = "endif"
    BY <1>2, <2>1
  <2>2. CASE t # "endif"
    <3> DEFINE j == Jump(code, "jmp", Top.join)
    <3>1. /\ j \in Seq(Instruction) /\ Len(j) = Len(code) + 1 /\ JumpsUpTo(j, Len(code) + 1)
          /\ \A k \in 1 .. Len(code) : j[k] = code[k]
          /\ j[Len(code) + 1].op = "jmp"
          /\ Top.join.bound => Goes(j, Len(code)) = Top.join.offset
      BY <1>2, <1>3, JumpCode, EmittedJump
    <3>2. e = j
      BY <2>2
    <3> HIDE DEF j, e
    <3> QED BY <2>2, <3>1, <3>2
  <2> QED BY <2>1, <2>2
<1>5. code' = Patched(e, l)
  OBVIOUS
<1> HIDE DEF e
<1>6. Len(e) \in Nat /\ Len(code) <= Len(e) /\ Inside(l, Len(e))
  <2>1. Len(e) \in Nat /\ Len(code) <= Len(e)
    BY <1>2, <1>4
  <2> QED BY <1>2, <2>1, InsideLater
<1>7. /\ Len(code') = Len(e)
      /\ \A k \in 1 .. Len(e) : code'[k].op = e[k].op
      /\ \A j \in l.pendingFixups : Patches(e[j + 1].op) => Goes(code', j) = Len(e)
      /\ \A j \in (0 .. Len(e) - 1) \ l.pendingFixups : code'[j + 1] = e[j + 1]
  <2> DEFINE d == Patched(e, l)
  <2>1. /\ Len(d) = Len(e)
        /\ \A k \in 1 .. Len(e) : d[k].op = e[k].op
        /\ \A j \in l.pendingFixups : Patches(e[j + 1].op) => Goes(d, j) = Len(e)
        /\ \A j \in (0 .. Len(e) - 1) \ l.pendingFixups : d[j + 1] = e[j + 1]
    BY <1>4, <1>6, PatchedCode
  <2> HIDE DEF d
  <2>2. code' = d
    BY <1>5 DEF d
  <2> QED BY <2>1, <2>2
<1>8. Len(code') = Off(prog', Len(prog') + 1)
  BY <1>1, <1>2, <1>4, <1>7
<1>9. Goes(code', Off(prog, x)) = Len(code')
  BY <1>7 DEF Patches
<1>10. /\ \A j \in 0 .. Len(code) - 1 : x = 0 \/ j # Off(prog, x) => code'[j + 1] = code[j + 1]
       /\ \A j \in 0 .. Len(code) - 1 : code'[j + 1].op = code[j + 1].op
  <2> SUFFICES ASSUME NEW j \in 0 .. Len(code) - 1
               PROVE  /\ j # Off(prog, x) => code'[j + 1] = code[j + 1]
                      /\ code'[j + 1].op = code[j + 1].op
    BY <1>2
  <2>1. j \in 0 .. Len(e) - 1 /\ j + 1 \in 1 .. Len(e) /\ e[j + 1] = code[j + 1]
    BY <1>2, <1>4, <1>6
  <2> QED BY <1>7, <2>1
<1>11. /\ Keeps(prog, code, code', x)
       /\ \A p \in 1 .. Len(prog) :
            prog[p] \in Emits => code'[Off(prog, p) + 1].op = code[Off(prog, p) + 1].op
  <2>1. x \in 0 .. Len(prog) /\ (x # 0 => prog[x] \in Emits)
    BY DEF Branching, Emits
  <2>2. prog \in Seq(Tokens) /\ Len(code) = Off(prog, Len(prog) + 1)
    BY <1>2
  <2> DEFINE w == prog
             c == code
             d == code'
  <2>3. /\ w \in Seq(Tokens) /\ Len(c) = Off(w, Len(w) + 1)
        /\ x \in 0 .. Len(w) /\ (x # 0 => w[x] \in Emits)
        /\ \A j \in 0 .. Len(c) - 1 : x = 0 \/ j # Off(w, x) => d[j + 1] = c[j + 1]
        /\ \A j \in 0 .. Len(c) - 1 : d[j + 1].op = c[j + 1].op
    BY <1>10, <2>1, <2>2
  <2> HIDE DEF w, c, d
  <2>4. /\ Keeps(w, c, d, x)
        /\ \A p \in 1 .. Len(w) : w[p] \in Emits => d[Off(w, p) + 1].op = c[Off(w, p) + 1].op
    BY ONLY <2>3, PatchKeeps
  <2> QED BY <2>4 DEF w, c, d
<1>12. ASSUME t # "endif"
       PROVE  /\ code'[Len(code) + 1].op = OpOf(t)
              /\ Top.join.bound => Goes(code', Len(code)) = Top.join.offset
  <2>1. Len(code) \in 0 .. Len(e) - 1 /\ Len(code) + 1 \in 1 .. Len(e)
    BY <1>2, <1>4, <1>12
  <2>2. Len(code) \notin l.pendingFixups
    BY <1>2 DEF Inside
  <2>3. code'[Len(code) + 1] = e[Len(code) + 1]
    BY <1>7, <2>1, <2>2
  <2>4. Goes(code', Len(code)) = Goes(e, Len(code))
    BY <2>3 DEF Goes
  <2> QED BY <1>1, <1>4, <1>12, <2>3, <2>4
<1> QED BY <1>1, <1>2, <1>8, <1>9, <1>11, <1>12

LEMMA PatchedToken ==
  ASSUME IInv, CodeIs, NEW t \in {"else", "endif", "endwhile"}, compileToken(t),
         NEW x \in 1 .. Len(prog), prog[x] \in Branching,
         Stays(prog, x, Len(prog)), Depth(prog, x) = Len(open),
         Len(code') = Off(prog', Len(prog') + 1), Keeps(prog, code, code', x),
         \A p \in 1 .. Len(prog) :
           prog[p] \in Emits => code'[Off(prog, p) + 1].op = code[Off(prog, p) + 1].op,
         t \in Emits => code'[Off(prog, Len(prog) + 1) + 1].op = OpOf(t),
         Len(open') = Len(open) + Change(t), \A m \in 1 .. Len(open) - 1 : open'[m] = open[m],
         \A p \in 1 .. Len(prog) :
           prog[p] \in Branching =>
           (Stays(prog, p, Len(prog)) /\ Depth(prog, p) = Len(open)
              /\ OpenAt(prog, code, open[Len(open)], p)
              => Placed(prog', code', open', p)),
         t = "else" => Placed(prog', code', open', Len(prog')),
         t = "endwhile" => prog[x] = "while"
  PROVE  CodeIs'
<1>1. t \in Tokens /\ (t \in Branching => t = "else")
  BY DEF Tokens, Branching
<1>2. phase' = "emit" /\ prog' = Append(prog, t) /\ Compiled(prog, code, open) /\ Len(open) \in Nat
  BY <1>1, NewToken
<1>3. Grows(prog, code, open, t, prog', code', x, open')
  BY <1>1, <1>2 DEF Grows
<1> DEFINE v == prog'
           d == code'
           s == open'
<1>4. Grows(prog, code, open, t, v, d, x, s)
  BY <1>3
<1> HIDE DEF v, d, s
<1>5. Compiled(v, d, s)
  BY <1>4, TokenStep
<1> QED BY <1>2, <1>5, EmitCodeIs DEF v, d, s

\* An else: what waits for the condition to be false goes behind the new jump.
LEMMA ElseCode ==
  ASSUME IInv, CodeIs, Arch = "x86_64", compileElse
  PROVE  CodeIs'
<1> DEFINE jumped == Jump(code, "jmp", Top.join)
           k == [kind |-> "else", skip |-> Bound(Top.skip, jumped), join |-> Refer(Top.join, code)]
           w == prog
           v == prog'
           d == code'
<1>1. /\ open # << >> /\ Top.kind = "then" /\ compileToken("else")
      /\ code' = Patched(jumped, Top.skip)
      /\ open' = Append(Closed, k)
  BY DEF compileElse, Reopened
<1>2. "else" \in Tokens /\ "else" \in Emits /\ Change("else") = 0
  BY DEF Tokens, Emits, Change, Opening, Closing
<1>3. /\ LabelsInside(open, Len(code)) /\ open \in Seq(Construct) /\ Len(open) \in Nat
      /\ Len(code) \in Nat /\ w \in Seq(Tokens)
      /\ Compiled(w, code, open)
      /\ Extends(w, v) /\ Len(w) \in Nat /\ Len(v) = Len(w) + 1 /\ v[Len(v)] = "else"
      /\ Depth(v, Len(v)) = Len(open)
      /\ Off(v, Len(v)) = Len(code) /\ Off(v, Len(v) + 1) = Len(code) + 1
  BY <1>1, <1>2, NewToken
<1>4. Len(open) > 0 /\ Inside(Top.skip, Len(code)) /\ Top = open[Len(open)]
  BY <1>1, <1>3, Innermost DEF Top
<1>5. PICK x \in 1 .. Len(w) :
        /\ w[x] \in Opening /\ Stays(w, x, Len(w)) /\ Depth(w, x) = Len(open)
        /\ OpenAt(w, code, Top, x)
  BY <1>3, <1>4, Opener
<1>6. /\ w[x] = "if" /\ w[x] \in Branching
      /\ Top.skip.pendingFixups = {Off(w, x)} /\ Top.join = createLabel /\ ElsesIn(w, x) = {}
  BY <1>1, <1>5 DEF OpenAt, Opening, Branching
<1>7. /\ Len(d) = Off(v, Len(v) + 1) /\ Keeps(w, code, d, x)
      /\ \A p \in 1 .. Len(w) : w[p] \in Emits => d[Off(w, p) + 1].op = code[Off(w, p) + 1].op
      /\ "else" \in Emits => d[Off(w, Len(w) + 1) + 1].op = OpOf("else")
      /\ Goes(d, Off(w, x)) = Len(d)
  <2> DEFINE t == "else"
  <2>1. /\ t \in {"else", "endif", "endwhile"} /\ t # "endif" /\ t = "else"
        /\ compileToken(t)
        /\ code' = Patched(IF t = "endif" THEN code ELSE Jump(code, "jmp", Top.join), Top.skip)
    BY <1>1
  <2> HIDE DEF t
  <2>2. /\ Len(code') = Off(prog', Len(prog') + 1) /\ Keeps(prog, code, code', x)
        /\ \A p \in 1 .. Len(prog) :
             prog[p] \in Emits => code'[Off(prog, p) + 1].op = code[Off(prog, p) + 1].op
        /\ t \in Emits => code'[Off(prog, Len(prog) + 1) + 1].op = OpOf(t)
        /\ Goes(code', Off(prog, x)) = Len(code')
    BY <1>1, <1>4, <1>6, <2>1, PatchStep
  <2> QED BY <2>1, <2>2
<1>8. /\ Len(open') = Len(open) /\ open'[Len(open)] = k
      /\ \A m \in 1 .. Len(open) - 1 : open'[m] = open[m]
  <2> DEFINE a == Closed
  <2>1. /\ a \in Seq(Construct) /\ Len(a) = Len(open) - 1
        /\ \A m \in 1 .. Len(open) - 1 : a[m] = open[m]
    BY <1>1, <1>3, Dropped DEF Closed
  <2>2. open' = Append(a, k)
    BY <1>1
  <2> HIDE DEF a, k
  <2> QED BY <1>3, <1>4, <2>1, <2>2
<1>9. k.kind = "else" /\ k.join.pendingFixups = {Len(code)}
  BY <1>6 DEF Refer, createLabel
<1> HIDE DEF k, w, v, d
<1>10. /\ \A r \in 0 .. Len(w) : Depth(v, r) = Depth(w, r)
       /\ \A r \in 1 .. Len(w) + 1 : Off(v, r) = Off(w, r)
       /\ \A r \in 1 .. Len(w) : v[r] = w[r]
  <2>1. \A r \in 1 .. Len(w) : v[r] = w[r]
    BY <1>3 DEF Extends
  <2> QED BY <1>3, <2>1, ExtendsSame
<1>11. Placed(v, d, open', x)
  <2>1. v[x] = "if" /\ Depth(v, x) = Len(open) /\ Off(v, x) = Off(w, x)
    BY <1>3, <1>5, <1>6, <1>10
  <2>2. ElsesIn(v, x) = {Len(v)}
    <3>1. ASSUME NEW e \in ElsesIn(v, x), e # Len(v)
          PROVE  FALSE
      <4>1. e \in x + 1 .. Len(w) /\ v[e] = "else" /\ Depth(v, e) = Depth(v, x)
        BY <1>3, <3>1 DEF ElsesIn
      <4>2. e \in ElsesIn(w, x)
        BY <1>3, <1>5, <1>10, <2>1, <4>1 DEF ElsesIn
      <4> QED BY <1>6, <4>2
    <3>2. Len(v) \in ElsesIn(v, x)
      BY <1>3, <2>1 DEF ElsesIn
    <3> QED BY <3>1, <3>2
  <2>3. OpenAt(v, d, k, x)
    BY <1>3, <1>7, <1>9, <2>1, <2>2 DEF OpenAt
  <2>4. Stays(v, x, Len(v))
    <3> SUFFICES ASSUME NEW r \in x .. Len(v) PROVE Depth(v, r) >= Depth(v, x)
      BY DEF Stays
    <3>1. CASE r = Len(v)
      BY <1>3, <2>1, <3>1
    <3>2. CASE r # Len(v)
      <4>1. r \in x .. Len(w) /\ r \in 0 .. Len(w)
        BY <1>3, <3>2
      <4> QED BY <1>5, <1>10, <2>1, <4>1 DEF Stays
    <3> QED BY <3>1, <3>2
  <2> QED BY <1>3, <1>4, <1>8, <2>1, <2>3, <2>4 DEF Placed
<1>12. ASSUME NEW p \in 1 .. Len(w), w[p] \in Branching, OpenAt(w, code, Top, p)
       PROVE  p = x
  <2>1. w[p] = "if" /\ Top.skip.pendingFixups = {Off(w, p)}
    BY <1>1, <1>12 DEF OpenAt, Branching
  <2>2. Off(w, p) = Off(w, x) /\ p \in Nat /\ p > 0 /\ x \in Nat /\ x > 0
    BY <1>6, <2>1
  <2>3. w[p] \in Emits /\ w[x] \in Emits
    BY <1>6, <2>1 DEF Emits
  <2> QED BY <2>2, <2>3, OffUnique
<1>13. Placed(v, d, open', Len(v))
  <2>1. ElsesIn(v, Len(v)) = {}
    BY <1>3, NothingAfter
  <2>2. OpenAt(v, d, k, Len(v))
    BY <1>3, <1>9, <2>1 DEF OpenAt
  <2> DEFINE s == open'
  <2>3. s = open'
    OBVIOUS
  <2> HIDE DEF s
  <2>4. /\ Len(v) \in Nat /\ Len(s) \in Nat /\ Len(s) > 0
        /\ Depth(v, Len(v)) = Len(s) /\ OpenAt(v, d, s[Len(s)], Len(v))
    BY <1>3, <1>4, <1>8, <2>2, <2>3
  <2>5. Placed(v, d, s, Len(v))
    BY <2>4, StartsOpen
  <2> QED BY <2>3, <2>5
<1>14. \A p \in 1 .. Len(w) :
         w[p] \in Branching =>
         (Stays(w, p, Len(w)) /\ Depth(w, p) = Len(open)
            /\ OpenAt(w, code, open[Len(open)], p)
            => Placed(v, d, open', p))
  BY <1>4, <1>11, <1>12
<1>15. Len(open') = Len(open) + Change("else")
  BY <1>2, <1>3, <1>8
<1> DEFINE t == "else"
<1>16. /\ t \in {"else", "endif", "endwhile"} /\ compileToken(t) /\ t # "endwhile"
       /\ (t \in Emits => d[Off(w, Len(w) + 1) + 1].op = OpOf(t))
       /\ Len(open') = Len(open) + Change(t)
  BY <1>1, <1>7, <1>15
<1> HIDE DEF t
<1> QED BY <1>5, <1>6, <1>7, <1>8, <1>13, <1>14, <1>16, PatchedToken DEF w, v, d

LEMMA SameToken ==
  ASSUME NEW w \in Seq(Tokens), NEW p \in 1 .. Len(w), w[p] \in Branching,
         NEW x \in 1 .. Len(w), w[x] \in Branching, {Off(w, p)} = {Off(w, x)}
  PROVE  p = x
<1>1. Off(w, p) = Off(w, x) /\ p \in Nat /\ p > 0 /\ x \in Nat /\ x > 0
  OBVIOUS
<1>2. w[p] \in Emits /\ w[x] \in Emits
  BY DEF Emits, Branching
<1> QED BY <1>1, <1>2, OffUnique

LEMMA SameElses ==
  ASSUME NEW w, NEW v, Extends(w, v), Len(v) = Len(w) + 1, v[Len(v)] # "else",
         NEW p \in 1 .. Len(w)
  PROVE  ElsesIn(v, p) = ElsesIn(w, p)
<1>1. /\ Len(w) \in Nat /\ \A r \in 0 .. Len(w) : Depth(v, r) = Depth(w, r)
      /\ \A r \in 1 .. Len(w) : v[r] = w[r]
  BY ExtendsSame DEF Extends
<1>2. ASSUME NEW e \in ElsesIn(v, p)
      PROVE  e \in ElsesIn(w, p)
  <2>1. e \in p + 1 .. Len(v) /\ e # Len(v)
    BY <1>2 DEF ElsesIn
  <2>2. e \in p + 1 .. Len(w)
    BY <1>1, <2>1
  <2> QED BY <1>1, <1>2, <2>2 DEF ElsesIn
<1>3. ASSUME NEW e \in ElsesIn(w, p)
      PROVE  e \in ElsesIn(v, p)
  BY <1>1, <1>3 DEF ElsesIn
<1> QED BY <1>2, <1>3

\* The construct that has just ended is in order.
LEMMA JustClosed ==
  ASSUME NEW w, NEW v, Extends(w, v), Len(v) = Len(w) + 1, NEW m \in Nat,
         Depth(v, Len(v)) = m - 1, NEW p \in 1 .. Len(w), Stays(w, p, Len(w)), Depth(w, p) = m,
         NEW d, ClosedAt(v, d, p, Len(v)), NEW s
  PROVE  Placed(v, d, s, p)
BY EndsHere DEF Placed

LEMMA EndWhileCode ==
  ASSUME IInv, CodeIs, Arch = "x86_64", compileEndWhile
  PROVE  CodeIs'
<1> DEFINE w == prog
           v == prog'
           d == code'
<1>1. /\ open # << >> /\ Top.kind = "body" /\ compileToken("endwhile")
      /\ code' = Patched(Jump(code, "jmp", Top.join), Top.skip)
      /\ open' = Closed
  BY DEF compileEndWhile
<1>2. "endwhile" \in Tokens /\ "endwhile" \in Emits /\ Change("endwhile") = -1
  BY DEF Tokens, Emits, Change, Opening, Closing
<1>3. /\ LabelsInside(open, Len(code)) /\ open \in Seq(Construct) /\ Len(open) \in Nat
      /\ Len(code) \in Nat /\ w \in Seq(Tokens)
      /\ Compiled(w, code, open)
      /\ Extends(w, v) /\ Len(w) \in Nat /\ Len(v) = Len(w) + 1 /\ v[Len(v)] = "endwhile"
      /\ Depth(v, Len(v)) = Len(open) - 1
      /\ Off(v, Len(v)) = Len(code) /\ Off(v, Len(v) + 1) = Len(code) + 1
  <2>1. Depth(prog', Len(prog')) = Len(open) + Change("endwhile") /\ Len(open) \in Nat
    BY <1>1, <1>2, NewToken
  <2> QED BY <1>1, <1>2, <2>1, NewToken
<1>4. Len(open) > 0 /\ Inside(Top.skip, Len(code)) /\ Top = open[Len(open)]
  BY <1>1, <1>3, Innermost DEF Top
<1>5. PICK x \in 1 .. Len(w) :
        /\ w[x] \in Opening /\ Stays(w, x, Len(w)) /\ Depth(w, x) = Len(open)
        /\ OpenAt(w, code, Top, x)
  BY <1>3, <1>4, Opener
<1>6. /\ w[x] = "while" /\ w[x] \in Branching
      /\ Top.skip.pendingFixups = {Off(w, x)} /\ Top.join.bound /\ Top.join.offset = Off(w, x)
  BY <1>1, <1>5 DEF OpenAt, Opening, Branching
<1>7. /\ Len(d) = Off(v, Len(v) + 1) /\ Keeps(w, code, d, x)
      /\ \A p \in 1 .. Len(w) : w[p] \in Emits => d[Off(w, p) + 1].op = code[Off(w, p) + 1].op
      /\ "endwhile" \in Emits => d[Off(w, Len(w) + 1) + 1].op = OpOf("endwhile")
      /\ Goes(d, Off(w, x)) = Len(d)
      /\ Goes(d, Len(code)) = Off(w, x)
  <2> DEFINE t == "endwhile"
  <2>1. /\ t \in {"else", "endif", "endwhile"} /\ t # "endif" /\ t = "endwhile"
        /\ compileToken(t)
        /\ code' = Patched(IF t = "endif" THEN code ELSE Jump(code, "jmp", Top.join), Top.skip)
    BY <1>1
  <2> HIDE DEF t
  <2>2. /\ Len(code') = Off(prog', Len(prog') + 1) /\ Keeps(prog, code, code', x)
        /\ \A p \in 1 .. Len(prog) :
             prog[p] \in Emits => code'[Off(prog, p) + 1].op = code[Off(prog, p) + 1].op
        /\ t \in Emits => code'[Off(prog, Len(prog) + 1) + 1].op = OpOf(t)
        /\ Goes(code', Off(prog, x)) = Len(code')
        /\ t # "endif" /\ Top.join.bound => Goes(code', Len(code)) = Top.join.offset
    BY <1>1, <1>4, <1>6, <2>1, PatchStep
  <2> QED BY <1>6, <2>1, <2>2
<1>8. /\ Len(open') = Len(open) - 1
      /\ \A m \in 1 .. Len(open) - 1 : open'[m] = open[m]
  BY <1>1, <1>3, Dropped DEF Closed
<1> HIDE DEF w, v, d
<1>9. v[x] = "while" /\ Off(v, x) = Off(w, x)
  <2>1. v[x] = w[x]
    BY <1>3 DEF Extends
  <2> QED BY <1>3, <1>6, <2>1, ExtendsSame
<1>10. Placed(v, d, open', x)
  <2>1. ClosedAt(v, d, x, Len(v))
    BY <1>3, <1>7, <1>9 DEF ClosedAt
  <2> QED BY <1>3, <1>5, <2>1, JustClosed
<1>11. ASSUME NEW p \in 1 .. Len(w), w[p] \in Branching, OpenAt(w, code, Top, p)
       PROVE  p = x
  <2>1. {Off(w, p)} = {Off(w, x)}
    BY <1>1, <1>6, <1>11 DEF OpenAt, Branching
  <2> QED BY <1>3, <1>6, <1>11, <2>1, SameToken
<1>12. \A p \in 1 .. Len(w) :
         w[p] \in Branching =>
         (Stays(w, p, Len(w)) /\ Depth(w, p) = Len(open)
            /\ OpenAt(w, code, open[Len(open)], p)
            => Placed(v, d, open', p))
  BY <1>4, <1>10, <1>11
<1> DEFINE t == "endwhile"
<1>13. /\ t \in {"else", "endif", "endwhile"} /\ compileToken(t) /\ t # "else"
       /\ (t \in Emits => d[Off(w, Len(w) + 1) + 1].op = OpOf(t))
       /\ Len(open') = Len(open) + Change(t)
  BY <1>1, <1>2, <1>3, <1>7, <1>8
<1> HIDE DEF t
<1> QED BY <1>5, <1>6, <1>7, <1>8, <1>12, <1>13, PatchedToken DEF w, v, d

\* What the end of an if patches: the condition's jump when there was no else, the
\* jump over the else block when there was one.
EndIfAt(w, c, o, k, x) ==
  /\ w[x] \in {"if", "else"} /\ Stays(w, x, Len(w)) /\ Depth(w, x) = Len(o)
  /\ {Off(w, x)} = IF k.kind = "then" THEN k.skip.pendingFixups ELSE k.join.pendingFixups
  /\ w[x] = "if" => ElsesIn(w, x) = {}
  /\ \A p \in 1 .. Len(w) :
       w[p] \in Branching /\ OpenAt(w, c, k, p) =>
       \/ p = x
       \/ /\ w[p] = "if" /\ p # x /\ ElsesIn(w, p) # {}
          /\ \A e \in ElsesIn(w, p) : Goes(c, Off(w, p)) = Off(w, e + 1)

LEMMA EndIfPatches ==
  ASSUME NEW w, NEW c, NEW o, Compiled(w, c, o), Len(o) \in Nat, Len(o) > 0,
         NEW k, k = o[Len(o)], k.kind \in {"then", "else"}
  PROVE  \E x \in 1 .. Len(w) : EndIfAt(w, c, o, k, x)
<1>1. PICK f \in 1 .. Len(w) :
        /\ w[f] \in Opening /\ Stays(w, f, Len(w)) /\ Depth(w, f) = Len(o) /\ OpenAt(w, c, k, f)
  BY Opener
<1>2. w \in Seq(Tokens) /\ w[f] = "if" /\ w[f] \in Branching
  BY <1>1 DEF OpenAt, Opening, Compiled, Branching
<1>3. CASE k.kind = "then"
  <2>1. k.skip.pendingFixups = {Off(w, f)} /\ ElsesIn(w, f) = {}
    BY <1>1, <1>2, <1>3 DEF OpenAt
  <2>2. ASSUME NEW p \in 1 .. Len(w), w[p] \in Branching, OpenAt(w, c, k, p)
        PROVE  p = f
    <3>1. {Off(w, p)} = {Off(w, f)}
      BY <1>3, <2>1, <2>2 DEF OpenAt, Branching
    <3> QED BY <1>2, <2>2, <3>1, SameToken
  <2> QED BY <1>1, <1>2, <1>3, <2>1, <2>2 DEF EndIfAt
<1>4. CASE k.kind = "else"
  <2>1. PICK x \in ElsesIn(w, f) : TRUE
    BY <1>1, <1>2, <1>4 DEF OpenAt
  <2>2. x \in 1 .. Len(w) /\ w[x] = "else" /\ w[x] \in Branching /\ Depth(w, x) = Len(o)
        /\ x \in f .. Len(w)
    BY <1>1, <2>1 DEF ElsesIn, Branching
  <2>3. Stays(w, x, Len(w))
    BY <1>1, <2>2 DEF Stays
  <2>4. OpenAt(w, c, k, x)
    <3>1. Placed(w, c, o, x)
      BY <2>2 DEF Compiled
    <3>2. \A q : ~Ends(w, x, q)
      BY <1>2, <2>2, <2>3, EndsCloses
    <3> QED BY <2>2, <3>1, <3>2 DEF Placed
  <2>5. k.join.pendingFixups = {Off(w, x)}
    BY <2>2, <2>4 DEF OpenAt
  <2>6. ASSUME NEW p \in 1 .. Len(w), w[p] \in Branching, OpenAt(w, c, k, p), p # x
        PROVE  /\ w[p] = "if" /\ ElsesIn(w, p) # {}
               /\ \A e \in ElsesIn(w, p) : Goes(c, Off(w, p)) = Off(w, e + 1)
    <3>1. w[p] # "else"
      <4>1. ASSUME w[p] = "else"
            PROVE  {Off(w, p)} = {Off(w, x)}
        BY <2>5, <2>6, <4>1 DEF OpenAt
      <4> QED BY <1>2, <2>2, <2>6, <4>1, SameToken
    <3> QED BY <1>4, <2>6, <3>1 DEF OpenAt, Branching
  <2> QED BY <1>4, <2>2, <2>3, <2>5, <2>6 DEF EndIfAt
<1> QED BY <1>3, <1>4

LEMMA EndIfCode ==
  ASSUME IInv, CodeIs, Arch = "x86_64", compileEndIf
  PROVE  CodeIs'
<1> DEFINE w == prog
           v == prog'
           d == code'
           l == IF Top.kind = "then" THEN Top.skip ELSE Top.join
<1>1. /\ open # << >> /\ Top.kind \in {"then", "else"} /\ compileToken("endif")
      /\ code' = Patched(code, l)
      /\ open' = Closed
  BY DEF compileEndIf
<1>2. "endif" \in Tokens /\ "endif" \notin Emits /\ Change("endif") = -1
  BY DEF Tokens, Emits, Change, Opening, Closing
<1>3. /\ LabelsInside(open, Len(code)) /\ open \in Seq(Construct) /\ Len(open) \in Nat
      /\ Len(code) \in Nat /\ w \in Seq(Tokens)
      /\ Compiled(w, code, open)
      /\ Extends(w, v) /\ Len(w) \in Nat /\ Len(v) = Len(w) + 1 /\ v[Len(v)] = "endif"
      /\ Depth(v, Len(v)) = Len(open) - 1
      /\ Off(v, Len(v)) = Len(code) /\ Off(v, Len(v) + 1) = Len(code)
  <2>1. Depth(prog', Len(prog')) = Len(open) + Change("endif") /\ Len(open) \in Nat
    BY <1>1, <1>2, NewToken
  <2>2. Off(prog', Len(prog') + 1) = Len(code) + (IF "endif" \in Emits THEN 1 ELSE 0)
        /\ Len(code) \in Nat
    BY <1>1, <1>2, NewToken
  <2> QED BY <1>1, <1>2, <2>1, <2>2, NewToken
<1>4. /\ Len(open) > 0 /\ Inside(Top.skip, Len(code)) /\ Inside(Top.join, Len(code))
      /\ Top = open[Len(open)]
  BY <1>1, <1>3, Innermost DEF Top
<1>5. Inside(l, Len(code))
  BY <1>4
<1>6. PICK x \in 1 .. Len(w) :
        /\ w[x] \in {"if", "else"} /\ Stays(w, x, Len(w)) /\ Depth(w, x) = Len(open)
        /\ l.pendingFixups = {Off(w, x)}
        /\ w[x] = "if" => ElsesIn(w, x) = {}
        /\ \A p \in 1 .. Len(w) :
             w[p] \in Branching /\ OpenAt(w, code, Top, p) =>
             \/ p = x
             \/ /\ w[p] = "if" /\ p # x /\ ElsesIn(w, p) # {}
                /\ \A e \in ElsesIn(w, p) : Goes(code, Off(w, p)) = Off(w, e + 1)
  <2> DEFINE k == Top
             c == code
             o == open
  <2>1. k = o[Len(o)] /\ k.kind \in {"then", "else"}
        /\ Compiled(w, c, o) /\ Len(o) \in Nat /\ Len(o) > 0
    BY <1>1, <1>3, <1>4
  <2>2. l.pendingFixups = IF k.kind = "then" THEN k.skip.pendingFixups ELSE k.join.pendingFixups
    OBVIOUS
  <2> HIDE DEF k, l, w, c, o
  <2>3. PICK x \in 1 .. Len(w) : EndIfAt(w, c, o, k, x)
    BY ONLY <2>1, EndIfPatches
  <2> QED BY <2>2, <2>3 DEF EndIfAt, k, c, o, w
<1> HIDE DEF l
<1>7. w[x] \in Branching
  BY <1>6 DEF Branching
<1>8. /\ Len(d) = Off(v, Len(v) + 1) /\ Keeps(w, code, d, x)
      /\ \A p \in 1 .. Len(w) : w[p] \in Emits => d[Off(w, p) + 1].op = code[Off(w, p) + 1].op
      /\ Goes(d, Off(w, x)) = Len(d)
  <2> DEFINE t == "endif"
  <2>1. /\ t \in {"else", "endif", "endwhile"} /\ compileToken(t)
        /\ code' = Patched(IF t = "endif" THEN code ELSE Jump(code, "jmp", Top.join), l)
    BY <1>1
  <2> HIDE DEF t
  <2>2. /\ Len(code') = Off(prog', Len(prog') + 1) /\ Keeps(prog, code, code', x)
        /\ \A p \in 1 .. Len(prog) :
             prog[p] \in Emits => code'[Off(prog, p) + 1].op = code[Off(prog, p) + 1].op
        /\ Goes(code', Off(prog, x)) = Len(code')
    BY <1>1, <1>5, <1>6, <1>7, <2>1, PatchStep
  <2> QED BY <2>2
<1>9. /\ Len(open') = Len(open) - 1
      /\ \A m \in 1 .. Len(open) - 1 : open'[m] = open[m]
  BY <1>1, <1>3, Dropped DEF Closed
<1> HIDE DEF w, v, d
<1>10. ASSUME NEW p \in 1 .. Len(w)
       PROVE  /\ v[p] = w[p] /\ Off(v, p) = Off(w, p) /\ ElsesIn(v, p) = ElsesIn(w, p)
              /\ \A e \in ElsesIn(w, p) : Off(v, e + 1) = Off(w, e + 1) /\ e < Len(v)
  <2>1. v[p] = w[p] /\ v[Len(v)] # "else"
    BY <1>3 DEF Extends
  <2>2. ElsesIn(v, p) = ElsesIn(w, p)
    BY <1>3, <2>1, SameElses
  <2>3. \A r \in 1 .. Len(w) + 1 : Off(v, r) = Off(w, r)
    BY <1>3, ExtendsSame
  <2>4. ASSUME NEW e \in ElsesIn(w, p)
        PROVE  e + 1 \in 1 .. Len(w) + 1 /\ e < Len(v)
    BY <1>3 DEF ElsesIn
  <2> QED BY <1>3, <2>1, <2>2, <2>3, <2>4
<1>11. ClosedAt(v, d, x, Len(v))
  BY <1>3, <1>6, <1>8, <1>10 DEF ClosedAt
<1>12. ASSUME NEW p \in 1 .. Len(w), w[p] = "if", p # x, ElsesIn(w, p) # {},
              \A e \in ElsesIn(w, p) : Goes(code, Off(w, p)) = Off(w, e + 1)
       PROVE  ClosedAt(v, d, p, Len(v))
  <2>1. Goes(d, Off(w, p)) = Goes(code, Off(w, p))
    BY <1>8, <1>12 DEF Keeps, Emits
  <2>2. /\ \A e \in ElsesIn(v, p) : Goes(d, Off(v, p)) = Off(v, e + 1)
        /\ \E e \in ElsesIn(v, p) : ~(e > Len(v))
    <3>1. \A e \in ElsesIn(w, p) : e < Len(v) /\ e \in Int
      BY <1>10 DEF ElsesIn
    <3> QED BY <1>3, <1>10, <1>12, <2>1, <3>1
  <2>3. v[p] = "if"
    BY <1>10, <1>12
  <2> QED BY <2>2, <2>3 DEF ClosedAt
<1>13. ASSUME NEW p \in 1 .. Len(w), w[p] \in Branching, OpenAt(w, code, Top, p)
       PROVE  ClosedAt(v, d, p, Len(v))
  <2>1. \/ p = x
        \/ /\ w[p] = "if" /\ p # x /\ ElsesIn(w, p) # {}
           /\ \A e \in ElsesIn(w, p) : Goes(code, Off(w, p)) = Off(w, e + 1)
    BY <1>6, <1>13
  <2> QED BY <1>11, <1>12, <2>1
<1>14. \A p \in 1 .. Len(w) :
         w[p] \in Branching =>
         (Stays(w, p, Len(w)) /\ Depth(w, p) = Len(open)
            /\ OpenAt(w, code, open[Len(open)], p)
            => Placed(v, d, open', p))
  BY <1>3, <1>4, <1>13, JustClosed
<1> DEFINE t == "endif"
<1>15. /\ t \in {"else", "endif", "endwhile"} /\ compileToken(t) /\ t # "else" /\ t # "endwhile"
       /\ (t \in Emits => d[Off(w, Len(w) + 1) + 1].op = OpOf(t))
       /\ Len(open') = Len(open) + Change(t)
  BY <1>1, <1>2, <1>3, <1>9
<1> HIDE DEF t
<1> QED BY <1>6, <1>7, <1>8, <1>9, <1>14, <1>15, PatchedToken DEF w, v, d

LEMMA InitCodeIs == Init => CodeIs
<1>1. /\ << >> \in Seq(Tokens) /\ Len(<< >>) = 0
      /\ Depth(<< >>, 0) = 0 /\ Off(<< >>, 1) = 0
  BY DepthStep, OffStep
<1>2. Compiled(<< >>, << >>, << >>)
  BY <1>1 DEF Compiled
<1> QED BY <1>1, <1>2 DEF Init, CodeIs

\* The default return is behind everything the body's jumps reach.
LEMMA FinishCode ==
  ASSUME IInv, CodeIs, finish
  PROVE  CodeIs'
<1> DEFINE w == prog
           c == code
           d == code'
<1>1. /\ phase = "emit" /\ phase' = "run" /\ open = << >> /\ prog' = prog
      /\ code' = Append(code, [op |-> "ret", rel |-> 0])
  BY DEF finish, Plain
<1>2. /\ c \in Seq(Instruction) /\ Len(c) \in Nat
      /\ Compiled(w, c, << >>) /\ Len(c) = Off(w, Len(w) + 1)
  BY <1>1 DEF IInv, CodeIs
<1>3. /\ Len(d) = Len(c) + 1 /\ d[Len(c) + 1].op = "ret"
      /\ \A k \in 1 .. Len(c) : d[k] = c[k]
  <2> DEFINE i == [op |-> "ret", rel |-> 0]
  <2>1. i.op = "ret" /\ d = Append(c, i)
    BY <1>1
  <2> HIDE DEF i, c, d
  <2> QED BY <1>2, <2>1, AppendProperties
<1> HIDE DEF w, c, d
<1>4. w \in Seq(Tokens) /\ Len(w) \in Nat /\ Len(<< >>) = 0
  BY <1>2 DEF Compiled
<1>5. Extends(w, w)
  BY <1>4 DEF Extends
<1> DEFINE x == 0
<1>6. /\ Keeps(w, c, d, x)
      /\ \A p \in 1 .. Len(w) : w[p] \in Emits => d[Off(w, p) + 1].op = c[Off(w, p) + 1].op
  <2>1. /\ x \in 0 .. Len(w) /\ (x # 0 => w[x] \in Emits)
    BY <1>4
  <2>2. /\ \A j \in 0 .. Len(c) - 1 : x = 0 \/ j # Off(w, x) => d[j + 1] = c[j + 1]
        /\ \A j \in 0 .. Len(c) - 1 : d[j + 1].op = c[j + 1].op
    <3>1. \A j \in 0 .. Len(c) - 1 : d[j + 1] = c[j + 1]
      BY <1>2, <1>3
    <3> QED BY <3>1
  <2>3. w \in Seq(Tokens) /\ Len(c) = Off(w, Len(w) + 1)
    BY <1>2, <1>4
  <2> HIDE DEF x
  <2> QED BY ONLY <2>1, <2>2, <2>3, PatchKeeps
<1>7. ASSUME NEW p \in 1 .. Len(w), w[p] \in Branching
      PROVE  Placed(w, d, << >>, p)
  <2>1. Placed(w, c, << >>, p)
    BY <1>2, <1>7 DEF Compiled
  <2>2. PICK q \in p + 1 .. Len(w) : Ends(w, p, q) /\ ClosedAt(w, c, p, q)
    BY <1>4, <2>1 DEF Placed
  <2>3. p # x /\ q # x
    BY <1>4
  <2> HIDE DEF x
  <2>4. ClosedAt(w, d, p, q)
    BY <1>5, <1>6, <1>7, <2>2, <2>3, ClosedStays
  <2> QED BY <2>2, <2>4 DEF Placed
<1>8. Compiled(w, d, << >>)
  <2>1. \A p \in 1 .. Len(w) : w[p] \in Emits => d[Off(w, p) + 1].op = OpOf(w[p])
    BY <1>2, <1>6 DEF Compiled
  <2> QED BY <1>2, <1>7, <2>1 DEF Compiled
<1>9. d[Len(d)].op = "ret"
  BY <1>2, <1>3
<1> QED BY <1>1, <1>2, <1>3, <1>8, <1>9 DEF CodeIs, w, c, d

LEMMA NextCodeIs ==
  ASSUME IInv, CodeIs, Arch = "x86_64", [Next]_vars
  PROVE  CodeIs'
<1>1. CASE UNCHANGED vars
  BY <1>1 DEF vars, CodeIs
<1>2. CASE step
  <2>1. phase = "run" /\ phase' \in {"run", "done"} /\ prog' = prog /\ code' = code
    BY <1>2 DEF step, fallThrough, jump, ret, Running
  <2> QED BY <2>1 DEF CodeIs
<1>3. CASE compileThrows
  BY <1>3 DEF compileThrows, CodeIs
<1>4. CASE compileFunction
  <2>1. /\ << >> \in Seq(Tokens) /\ Len(<< >>) = 0
        /\ Depth(<< >>, 0) = 0 /\ Off(<< >>, 1) = 0
    BY DepthStep, OffStep
  <2>2. Compiled(<< >>, << >>, << >>)
    BY <2>1 DEF Compiled
  <2>3. phase' = "emit" /\ prog' = << >> /\ code' = << >> /\ open' = << >>
    BY <1>4 DEF compileFunction
  <2> QED BY <2>1, <2>2, <2>3 DEF CodeIs
<1>5. CASE compile /\ ~compileThrows /\ ~compileFunction
  BY <1>5, SimpleCode, OpenCode, ElseCode, EndIfCode, EndWhileCode, FinishCode DEF compile
<1> QED BY <1>1, <1>2, <1>3, <1>4, <1>5 DEF Next

LEMMA CodeInvariance ==
  ASSUME Arch = "x86_64"
  PROVE  Spec => [](IInv /\ CodeIs)
BY InitIInv, InitCodeIs, NextStep, NextCodeIs, PTL DEF Spec

-------------------------------------------------------------------------------
(* Running the code is walking the body: the refinement. *)

\* The operators of the instance are the ones the lemmas are about.
LEMMA SameCardinality ==
  ASSUME NEW T
  PROVE  Structured!Cardinality(T) = Cardinality(T)
BY DEF Structured!Cardinality, Cardinality

LEMMA SameMin ==
  ASSUME NEW T
  PROVE  Structured!Min(T) = Min(T)
BY DEF Structured!Min, Min

\* While the code runs, levels in the body are differences of depths.
LEMMA LevelIs ==
  ASSUME phase = "run", NEW p \in Nat, NEW q \in Nat, p <= q
  PROVE  Structured!Level(p + 1, q) = Depth(prog, q) - Depth(prog, p)
<1> DEFINE O == Among(prog, Opening, p + 1, q)
           C == Among(prog, Closing, p + 1, q)
<1>1. Structured!Level(p + 1, q) = Cardinality(O) - Cardinality(C)
  <2>1. O = { k \in p + 1 .. q : prog[k] \in {"if", "while"} }
    BY DEF Among, Opening
  <2>2. C = { k \in p + 1 .. q : prog[k] \in {"endif", "endwhile"} }
    BY DEF Among, Closing
  <2> HIDE DEF O, C
  <2> QED BY <2>1, <2>2, SameCardinality
        DEF Structured!Level, Structured!Opens, Structured!Closes
<1> HIDE DEF O, C
<1>2. /\ Cardinality(O) = Count(prog, Opening, q) - Count(prog, Opening, p)
      /\ Cardinality(C) = Count(prog, Closing, q) - Count(prog, Closing, p)
  BY CountRange DEF O, C
<1>3. /\ Count(prog, Opening, q) \in Nat /\ Count(prog, Opening, p) \in Nat
      /\ Count(prog, Closing, q) \in Nat /\ Count(prog, Closing, p) \in Nat
  BY CountOne
<1> QED BY <1>1, <1>2, <1>3 DEF Depth

LEMMA EndIs ==
  ASSUME phase = "run", prog \in Seq(Tokens), NEW p \in 1 .. Len(prog), NEW q, Ends(prog, p, q)
  PROVE  /\ Structured!EndOf(p) = q
         /\ Structured!ElsesOf(p) = { e \in ElsesIn(prog, p) : e < q }
<1>1. /\ Len(prog) \in Nat /\ p \in Nat /\ q \in p + 1 .. Len(prog) /\ Depth(prog, q) = Depth(prog, p) - 1
      /\ \A r \in p .. q - 1 : Depth(prog, r) >= Depth(prog, p)
  BY DEF Ends, Stays
<1>2. \A r \in p + 1 .. Len(prog) :
        Structured!Level(p + 1, r) = Depth(prog, r) - Depth(prog, p)
  BY <1>1, LevelIs
<1>3. \A r \in 0 .. Len(prog) : Depth(prog, r) \in Int
  BY DepthStep
<1> DEFINE T == { r \in p + 1 .. Len(prog) : Structured!Level(p + 1, r) = -1 }
<1>4. T \subseteq Nat /\ q \in T
  BY <1>1, <1>2, <1>3
<1>5. \A r \in T : q <= r
  <2> SUFFICES ASSUME NEW r \in p + 1 .. Len(prog), Structured!Level(p + 1, r) = -1, r < q
               PROVE  FALSE
    BY <1>1
  <2>1. r \in p .. q - 1 /\ r \in 0 .. Len(prog) /\ p \in 0 .. Len(prog)
    BY <1>1
  <2> QED BY <1>1, <1>2, <1>3, <2>1
<1>6. Min(T) = q
  <2> HIDE DEF T
  <2> QED BY <1>4, <1>5, MinUnique
<1>7. Structured!EndOf(p) = q
  <2>1. Structured!EndOf(p) = Structured!Min(T)
    BY DEF Structured!EndOf
  <2> HIDE DEF T
  <2> QED BY <1>6, <2>1, SameMin
<1>8. Structured!ElsesOf(p) =
        { e \in p + 1 .. q - 1 : prog[e] = "else" /\ Structured!Level(p + 1, e) = 0 }
  BY <1>7 DEF Structured!ElsesOf
<1>9. \A e \in p + 1 .. q - 1 :
        Structured!Level(p + 1, e) = 0 <=> Depth(prog, e) = Depth(prog, p)
  <2> SUFFICES ASSUME NEW e \in p + 1 .. q - 1
               PROVE  Structured!Level(p + 1, e) = 0 <=> Depth(prog, e) = Depth(prog, p)
    OBVIOUS
  <2>1. e \in p + 1 .. Len(prog) /\ e \in 0 .. Len(prog) /\ p \in 0 .. Len(prog)
    BY <1>1
  <2>2. /\ Structured!Level(p + 1, e) = Depth(prog, e) - Depth(prog, p)
        /\ Depth(prog, e) \in Int /\ Depth(prog, p) \in Int
    BY <1>2, <1>3, <2>1
  <2> QED BY <2>2
<1>10. ASSUME NEW e
       PROVE  e \in Structured!ElsesOf(p) <=> e \in { f \in ElsesIn(prog, p) : f < q }
  <2>1. e \in p + 1 .. q - 1 <=> e \in p + 1 .. Len(prog) /\ e < q
    BY <1>1
  <2> QED BY <1>8, <1>9, <2>1 DEF ElsesIn
<1> QED BY <1>7, <1>10

\* Tokens without instructions do not move the offset.
LEMMA OffSame ==
  ASSUME NEW w, NEW x \in Nat, x > 0, NEW y \in Nat, x <= y, \A k \in x .. y - 1 : w[k] \notin Emits
  PROVE  Off(w, x) = Off(w, y)
<1>1. Among(w, Emits, 1, x - 1) = Among(w, Emits, 1, y - 1)
  BY DEF Among
<1> QED BY <1>1 DEF Off, Count

\* Emitting, TokenAt and Settle for any body.
EmittingIn(w) == { p \in 1 .. Len(w) : w[p] # "endif" }

TokenIn(w, offset) ==
  CASE offset = Cardinality(EmittingIn(w)) -> Len(w) + 1
    [] offset \in 0 .. Cardinality(EmittingIn(w)) - 1 ->
         CHOOSE p \in EmittingIn(w) : Cardinality({ q \in EmittingIn(w) : q < p }) = offset
    [] OTHER -> -1

SettleIn(w, x) == Min({ q \in x .. Len(w) + 1 : q = Len(w) + 1 \/ w[q] # "endif" })

LEMMA EmittingIs ==
  ASSUME NEW w \in Seq(Tokens)
  PROVE  /\ Cardinality(EmittingIn(w)) = Off(w, Len(w) + 1)
         /\ \A p \in 1 .. Len(w) : p \in EmittingIn(w) <=> w[p] \in Emits
         /\ \A p \in 1 .. Len(w) :
              Cardinality({ q \in EmittingIn(w) : q < p }) = Off(w, p)
<1>0. Len(w) \in Nat /\ \A p \in 1 .. Len(w) : w[p] \in Tokens
  OBVIOUS
<1>1. \A p \in 1 .. Len(w) : w[p] # "endif" <=> w[p] \in Emits
  BY <1>0 DEF Tokens, Emits
<1>2. EmittingIn(w) = Among(w, Emits, 1, Len(w))
  BY <1>1 DEF EmittingIn, Among
<1>3. (Len(w) + 1) - 1 = Len(w)
  BY <1>0
<1>4. ASSUME NEW p \in 1 .. Len(w)
      PROVE  { q \in EmittingIn(w) : q < p } = Among(w, Emits, 1, p - 1)
  BY <1>0, <1>2 DEF Among
<1> QED BY <1>1, <1>2, <1>3, <1>4 DEF Off, Count, EmittingIn

\* The token at the offset of a token is that token.
LEMMA AtToken ==
  ASSUME NEW w \in Seq(Tokens), NEW p \in 1 .. Len(w), w[p] \in Emits
  PROVE  TokenIn(w, Off(w, p)) = p
<1> DEFINE n == Len(w) + 1
<1>1. p \in Nat /\ p > 0 /\ n \in Nat /\ n > 0 /\ p < n
  OBVIOUS
<1>2. Off(w, p) \in Nat /\ Off(w, n) \in Nat /\ Off(w, p) < Off(w, n)
  <2> HIDE DEF n
  <2>1. Off(w, p) \in Nat /\ Off(w, n) \in Nat
    BY <1>1, OffStep
  <2> QED BY <1>1, <2>1, OffOrder
<1>3. /\ Cardinality(EmittingIn(w)) = Off(w, n)
      /\ p \in EmittingIn(w) /\ Cardinality({ q \in EmittingIn(w) : q < p }) = Off(w, p)
  BY EmittingIs
<1>4. \A r \in EmittingIn(w) : Cardinality({ q \in EmittingIn(w) : q < r }) = Off(w, p) => r = p
  <2> SUFFICES ASSUME NEW r \in EmittingIn(w), Cardinality({ q \in EmittingIn(w) : q < r }) = Off(w, p)
               PROVE  r = p
    OBVIOUS
  <2>1. r \in 1 .. Len(w)
    BY DEF EmittingIn
  <2>2. w[r] \in Emits /\ Off(w, r) = Off(w, p) /\ r \in Nat /\ r > 0
    BY <2>1, EmittingIs
  <2> QED BY <1>1, <2>2, OffUnique
<1> HIDE DEF n
<1>5. Off(w, p) # Cardinality(EmittingIn(w)) /\ Off(w, p) \in 0 .. Cardinality(EmittingIn(w)) - 1
  BY <1>2, <1>3
<1>6. TokenIn(w, Off(w, p)) =
        CHOOSE r \in EmittingIn(w) : Cardinality({ q \in EmittingIn(w) : q < r }) = Off(w, p)
  BY <1>5 DEF TokenIn
<1> QED BY <1>3, <1>4, <1>6

LEMMA AtEnd ==
  ASSUME NEW w \in Seq(Tokens)
  PROVE  TokenIn(w, Off(w, Len(w) + 1)) = Len(w) + 1
<1>1. Cardinality(EmittingIn(w)) = Off(w, Len(w) + 1)
  BY EmittingIs
<1>2. Off(w, Len(w) + 1) \in Nat
  <2> DEFINE n == Len(w) + 1
  <2>1. n \in Nat /\ n > 0
    OBVIOUS
  <2> HIDE DEF n
  <2>2. Off(w, n) \in Nat
    BY <2>1, OffStep
  <2> QED BY <2>2 DEF n
<1> QED BY <1>1, <1>2 DEF TokenIn

\* The code of what follows token x is the code of what Settle comes to.
LEMMA SettleInIs ==
  ASSUME NEW w \in Seq(Tokens), NEW x \in 1 .. Len(w) + 1
  PROVE  TokenIn(w, Off(w, x)) = SettleIn(w, x)
<1> DEFINE n == Len(w) + 1
           S == { q \in x .. n : q = n \/ w[q] # "endif" }
<1>0. n \in Nat /\ x \in Nat /\ x > 0 /\ x <= n
  OBVIOUS
<1>1. SettleIn(w, x) = Min(S)
  BY DEF SettleIn
<1>2. S \subseteq Nat /\ n \in S
  BY <1>0
<1>3. Min(S) \in S /\ \A y \in S : Min(S) <= y
  <2> HIDE DEF S, n
  <2> QED BY <1>2, MinIs
<1> DEFINE s == Min(S)
<1>4. s \in x .. n /\ (s = n \/ w[s] # "endif") /\ \A y \in S : s <= y
  BY <1>3
<1> HIDE DEF s
<1>5. \A k \in x .. s - 1 : w[k] \notin Emits
  <2> SUFFICES ASSUME NEW k \in x .. s - 1, w[k] # "endif" PROVE FALSE
    BY DEF Emits
  <2>1. k \in x .. n /\ k < s
    BY <1>0, <1>4
  <2>2. k \in S
    BY <2>1
  <2> QED BY <1>4, <2>1, <2>2
<1> HIDE DEF S
<1>6. Off(w, x) = Off(w, s)
  <2>1. s \in Nat /\ x <= s
    BY <1>0, <1>4
  <2> QED BY <1>0, <1>5, <2>1, OffSame
<1>7. TokenIn(w, Off(w, s)) = s
  <2>1. CASE s = n
    BY <2>1, AtEnd
  <2>2. CASE s # n
    <3>1. s \in 1 .. Len(w) /\ w[s] # "endif"
      BY <1>0, <1>4, <2>2
    <3>2. w[s] \in Emits
      BY <3>1 DEF Tokens, Emits
    <3> QED BY <3>1, <3>2, AtToken
  <2> QED BY <2>1, <2>2
<1> QED BY <1>1, <1>6, <1>7 DEF s

\* While code runs, before a step and after it.
LEMMA TokenNow ==
  /\ \A offset : TokenAt(offset) = TokenIn(prog, offset)
  /\ TokenAt(pc)' = TokenIn(prog', pc')
BY DEF TokenAt, Emitting, TokenIn, EmittingIn

LEMMA SettleNow ==
  /\ phase = "run" => \A x : Structured!Settle(x) = SettleIn(prog, x)
  /\ phase' = "run" => Structured!Settle(1)' = SettleIn(prog', 1)
<1>1. ASSUME phase = "run", NEW x
      PROVE  Structured!Settle(x) = SettleIn(prog, x)
  BY <1>1, SameMin DEF Structured!Settle, Structured!End, SettleIn
<1>2. ASSUME phase' = "run"
      PROVE  Structured!Settle(1)' = SettleIn(prog', 1)
  BY <1>2, SameMin DEF Structured!Settle, Structured!End, SettleIn
<1> QED BY <1>1, <1>2

LEMMA SettleIs ==
  ASSUME phase = "run", prog \in Seq(Tokens), NEW x \in 1 .. Len(prog) + 1
  PROVE  TokenAt(Off(prog, x)) = Structured!Settle(x)
BY SettleInIs, TokenNow, SettleNow

LEMMA TokenSame ==
  ASSUME prog' = prog
  PROVE  TokenAt(pc)' = TokenAt(pc')
BY TokenNow

\* Every instruction but the default return is a token's.
LEMMA EveryOffset ==
  ASSUME NEW w \in Seq(Tokens), NEW o \in Nat, o < Off(w, Len(w) + 1)
  PROVE  \E p \in 1 .. Len(w) : w[p] \in Emits /\ Off(w, p) = o
<1> DEFINE n == Len(w) + 1
           T == { x \in 1 .. n : Off(w, x) > o }
<1>1. n \in Nat /\ n \in T /\ T \subseteq Nat
  OBVIOUS
<1>2. PICK x \in T : \A y \in T : x <= y
  <2> HIDE DEF T
  <2> QED BY <1>1, Least
<1>3. x \in 1 .. n /\ Off(w, x) > o
  OBVIOUS
<1>4. x # 1
  <2>1. Off(w, 1) = 0
    BY OffStep
  <2> QED BY <1>3, <2>1
<1> DEFINE p == x - 1
<1>5. p \in Nat /\ p > 0 /\ p \in 1 .. n /\ p \in 1 .. Len(w) /\ p + 1 = x /\ p < x
  BY <1>1, <1>3, <1>4
<1>6. p \notin T
  BY <1>2, <1>5
<1>7. ~(Off(w, p) > o)
  BY <1>5, <1>6
<1> HIDE DEF p, T, n
<1>8. Off(w, p) \in Nat /\ Off(w, p + 1) = Off(w, p) + IF w[p] \in Emits THEN 1 ELSE 0
  BY <1>5, OffStep
<1>9. w[p] \in Emits /\ Off(w, p) = o
  BY <1>3, <1>5, <1>7, <1>8
<1> QED BY <1>5, <1>9

\* Where the processor is: at the default return, or at the instruction of a token.
LEMMA AtInstruction ==
  ASSUME IInv, CodeIs, phase = "run"
  PROVE  /\ prog \in Seq(Tokens) /\ Len(prog) \in Nat /\ Compiled(prog, code, << >>)
         /\ \/ TokenAt(pc) = Len(prog) + 1 /\ code[pc + 1].op = "ret"
            \/ \E p \in 1 .. Len(prog) :
                 /\ prog[p] \in Emits /\ pc = Off(prog, p) /\ TokenAt(pc) = p
                 /\ code[pc + 1].op = OpOf(prog[p])
<1> DEFINE m == Off(prog, Len(prog) + 1)
<1>1. /\ Compiled(prog, code, << >>) /\ Len(code) = m + 1 /\ code[Len(code)].op = "ret"
      /\ pc \in 0 .. Len(code) - 1
  BY DEF CodeIs, IInv
<1>2. prog \in Seq(Tokens) /\ Len(prog) \in Nat
  BY <1>1 DEF Compiled
<1>3. m \in Nat
  <2> DEFINE n == Len(prog) + 1
  <2>1. n \in Nat /\ n > 0
    BY <1>2
  <2> HIDE DEF n
  <2>2. Off(prog, n) \in Nat
    BY <2>1, OffStep
  <2> QED BY <2>2 DEF n
<1>4. CASE pc = m
  BY <1>1, <1>2, <1>4, AtEnd, TokenNow
<1>5. CASE pc # m
  <2>1. pc \in Nat /\ pc < m
    BY <1>1, <1>3, <1>5
  <2>2. PICK p \in 1 .. Len(prog) : prog[p] \in Emits /\ Off(prog, p) = pc
    BY <1>2, <2>1, EveryOffset
  <2>3. TokenAt(pc) = p
    BY <1>2, <2>2, AtToken, TokenNow
  <2>4. code[pc + 1].op = OpOf(prog[p])
    BY <1>1, <2>2 DEF Compiled
  <2> QED BY <1>1, <1>2, <2>2, <2>3, <2>4
<1> QED BY <1>4, <1>5

LEMMA EveryEnd ==
  ASSUME Compiled(prog, code, << >>), NEW p \in 1 .. Len(prog), prog[p] \in Branching
  PROVE  \E q \in p + 1 .. Len(prog) : Ends(prog, p, q) /\ ClosedAt(prog, code, p, q)
<1>1. Placed(prog, code, << >>, p)
  BY DEF Compiled
<1>2. 1 .. Len(<< >>) = {}
  OBVIOUS
<1> QED BY <1>1, <1>2 DEF Placed

\* The jump at the end of a loop's body goes to its condition.
LEMMA LoopsBack ==
  ASSUME phase = "run", Compiled(prog, code, << >>),
         NEW q \in 1 .. Len(prog), prog[q] = "endwhile"
  PROVE  /\ Structured!WhileOf(q) \in 1 .. Len(prog)
         /\ prog[Structured!WhileOf(q)] = "while"
         /\ Goes(code, Off(prog, q)) = Off(prog, Structured!WhileOf(q))
<1>1. prog \in Seq(Tokens)
  BY DEF Compiled
<1>2. PICK p \in 1 .. Len(prog) : prog[p] = "while" /\ Ends(prog, p, q)
  BY DEF Compiled
<1>3. p \in 1 .. q - 1 /\ Structured!EndOf(p) = q
  BY <1>1, <1>2, EndIs DEF Ends
<1> DEFINE f == Structured!WhileOf(q)
<1>4. f = CHOOSE r \in 1 .. q - 1 : prog[r] = "while" /\ Structured!EndOf(r) = q
  BY DEF Structured!WhileOf
<1>5. f \in 1 .. q - 1 /\ prog[f] = "while" /\ Structured!EndOf(f) = q
  BY <1>2, <1>3, <1>4
<1> HIDE DEF f
<1>6. f \in 1 .. Len(prog) /\ prog[f] \in Branching
  BY <1>5 DEF Branching
<1>7. PICK e \in f + 1 .. Len(prog) : Ends(prog, f, e) /\ ClosedAt(prog, code, f, e)
  BY <1>6, EveryEnd
<1>8. e = q
  BY <1>1, <1>5, <1>6, <1>7, EndIs
<1>9. Goes(code, Off(prog, q)) = Off(prog, f)
  BY <1>5, <1>7, <1>8 DEF ClosedAt
<1> QED BY <1>5, <1>6, <1>9 DEF f

\* The jump of a condition goes behind the block, or into the else block.
LEMMA Skips ==
  ASSUME phase = "run", Compiled(prog, code, << >>),
         NEW p \in 1 .. Len(prog), prog[p] \in {"if", "while"},
         NEW x, x = 1 + IF prog[p] = "if" /\ Structured!ElsesOf(p) # {}
                        THEN Structured!Min(Structured!ElsesOf(p)) ELSE Structured!EndOf(p)
  PROVE  x \in 1 .. Len(prog) + 1 /\ Goes(code, Off(prog, p)) = Off(prog, x)
<1>1. prog \in Seq(Tokens) /\ Len(prog) \in Nat /\ prog[p] \in Branching
  BY DEF Compiled, Branching
<1>2. PICK q \in p + 1 .. Len(prog) : Ends(prog, p, q) /\ ClosedAt(prog, code, p, q)
  BY <1>1, EveryEnd
<1> DEFINE E == { e \in ElsesIn(prog, p) : e < q }
<1>3. Structured!EndOf(p) = q /\ Structured!ElsesOf(p) = E
  BY <1>1, <1>2, EndIs
<1>4. CASE prog[p] = "if" /\ E # {}
  <2>1. E \subseteq Nat /\ \A e \in E : e \in ElsesIn(prog, p) /\ e < q /\ e \in 1 .. Len(prog)
    BY <1>1 DEF ElsesIn
  <2>2. Min(E) \in E
    <3> HIDE DEF E
    <3> QED BY <1>4, <2>1, MinIs
  <2> HIDE DEF E
  <2> DEFINE m == Min(E)
  <2>3. x = 1 + m
    BY <1>3, <1>4, SameMin
  <2>4. m \in Nat /\ m \in 1 .. Len(prog)
    BY <2>1, <2>2
  <2>5. Goes(code, Off(prog, p)) = Off(prog, m + 1)
    BY <1>2, <1>4, <2>1, <2>2 DEF ClosedAt
  <2> HIDE DEF m
  <2>6. x = m + 1
    BY <2>3, <2>4
  <2> QED BY <1>1, <2>4, <2>5, <2>6
<1>5. CASE ~(prog[p] = "if" /\ E # {})
  <2>1. x = q + 1
    <3> HIDE DEF E
    <3>1. x = 1 + q
      BY <1>3, <1>5
    <3> QED BY <3>1
  <2>2. prog[p] = "if" => \A e \in ElsesIn(prog, p) : e > q
    <3> SUFFICES ASSUME prog[p] = "if", NEW e \in ElsesIn(prog, p), ~(e > q) PROVE FALSE
      OBVIOUS
    <3>1. e \in Nat /\ e \notin E
      BY <1>5 DEF ElsesIn
    <3>2. e = q
      BY <3>1
    <3>3. Depth(prog, q) = Depth(prog, p) /\ Depth(prog, q) = Depth(prog, p) - 1
          /\ Depth(prog, p) \in Int
      BY <1>2, <3>2, DepthStep DEF ElsesIn, Ends
    <3> QED BY <3>3
  <2>3. Goes(code, Off(prog, p)) = Off(prog, q + 1)
    BY <1>2, <2>2 DEF ClosedAt
  <2> QED BY <1>1, <2>1, <2>3
<1> QED BY <1>4, <1>5

\* An instruction is the step of its token.
LEMMA RunRefines ==
  ASSUME IInv, CodeIs, fallThrough \/ jump
  PROVE  Structured!Next
<1>1. /\ phase = "run" /\ phase' = "run" /\ prog' = prog /\ code' = code
      /\ code[pc + 1].op \in {"op", "jz", "jmp"}
      /\ pc \in 0 .. Len(code) - 1
  BY DEF fallThrough, jump, Running
<1>2. prog \in Seq(Tokens) /\ Len(prog) \in Nat /\ Compiled(prog, code, << >>)
  BY <1>1, AtInstruction
<1>3. PICK p \in 1 .. Len(prog) :
        /\ prog[p] \in Emits /\ pc = Off(prog, p) /\ TokenAt(pc) = p
        /\ code[pc + 1].op = OpOf(prog[p])
  BY <1>1, AtInstruction
<1>4. p \in Nat /\ p > 0 /\ p + 1 \in 1 .. Len(prog) + 1 /\ Off(prog, p + 1) = pc + 1
  <2>1. p \in Nat /\ p > 0 /\ p + 1 \in 1 .. Len(prog) + 1
    BY <1>2
  <2>2. Off(prog, p + 1) = Off(prog, p) + 1
    BY <1>3, <2>1, OffStep
  <2> QED BY <1>3, <2>1, <2>2
<1>5. \A x \in 1 .. Len(prog) + 1 : pc' = Off(prog, x) => TokenAt(pc)' = Structured!Settle(x)
  <2>1. TokenAt(pc)' = TokenAt(pc')
    BY <1>1, TokenSame
  <2> QED BY <1>1, <1>2, <2>1, SettleIs
<1>6. fallThrough \/ (jump /\ pc' = Goes(code, pc))
  BY DEF jump, Target, Goes
<1>7. \A kinds : prog[p] \in kinds => Structured!Executing(kinds)
  BY <1>1, <1>3 DEF Structured!Executing
<1>8. CASE fallThrough
  <2>1. code[pc + 1].op \in {"op", "jz"} /\ pc' = pc + 1
    BY <1>8 DEF fallThrough, Running
  <2>2. prog[p] \in {"stmt", "if", "while"}
    BY <1>3, <2>1 DEF OpOf, Emits
  <2>3. TokenAt(pc)' = Structured!Settle(p + 1)
    BY <1>4, <1>5, <2>1
  <2>4. CASE prog[p] = "stmt"
    <3>1. Structured!Statement
      BY <1>1, <1>3, <1>7, <2>3, <2>4 DEF Structured!Statement
    <3> QED BY <3>1 DEF Structured!Next
  <2>5. CASE prog[p] \in {"if", "while"}
    <3>1. Structured!TakeBlock
      BY <1>1, <1>3, <1>7, <2>3, <2>5 DEF Structured!TakeBlock, Structured!Opens
    <3> QED BY <3>1 DEF Structured!Next
  <2> QED BY <2>2, <2>4, <2>5
<1>9. CASE jump /\ pc' = Goes(code, pc)
  <2>1. code[pc + 1].op \in {"jz", "jmp"} /\ pc' = Goes(code, Off(prog, p))
    BY <1>3, <1>9 DEF jump, Running
  <2>2. prog[p] \in {"if", "while", "else", "endwhile"}
    BY <1>3, <2>1 DEF OpOf, Emits
  <2>3. CASE prog[p] \in {"if", "while"}
    <3> DEFINE x == 1 + IF prog[p] = "if" /\ Structured!ElsesOf(p) # {}
                        THEN Structured!Min(Structured!ElsesOf(p)) ELSE Structured!EndOf(p)
    <3>1. x = 1 + IF prog[p] = "if" /\ Structured!ElsesOf(p) # {}
                  THEN Structured!Min(Structured!ElsesOf(p)) ELSE Structured!EndOf(p)
      OBVIOUS
    <3> HIDE DEF x
    <3>2. x \in 1 .. Len(prog) + 1 /\ Goes(code, Off(prog, p)) = Off(prog, x)
      BY <1>1, <1>2, <2>3, <3>1, Skips
    <3>3. TokenAt(pc)' = Structured!Settle(x)
      BY <1>5, <2>1, <3>2
    <3>4. Structured!SkipBlock
      BY <1>1, <1>3, <1>7, <2>3, <3>1, <3>3 DEF Structured!SkipBlock, Structured!Opens
    <3> QED BY <3>4 DEF Structured!Next
  <2>4. CASE prog[p] = "else"
    <3>1. PICK q \in p + 1 .. Len(prog) : Ends(prog, p, q) /\ ClosedAt(prog, code, p, q)
      BY <1>2, <2>4, EveryEnd DEF Branching
    <3>2. Structured!EndOf(p) = q
      BY <1>1, <1>2, <3>1, EndIs
    <3>3. Goes(code, Off(prog, p)) = Off(prog, q) /\ q \in 1 .. Len(prog) + 1
      BY <1>2, <1>4, <2>4, <3>1 DEF ClosedAt
    <3>4. TokenAt(pc)' = Structured!Settle(q)
      BY <1>5, <2>1, <3>3
    <3>5. Structured!LeaveThen
      BY <1>1, <1>3, <1>7, <2>4, <3>2, <3>4 DEF Structured!LeaveThen
    <3> QED BY <3>5 DEF Structured!Next
  <2>5. CASE prog[p] = "endwhile"
    <3> DEFINE f == Structured!WhileOf(p)
    <3>1. f \in 1 .. Len(prog) /\ prog[f] = "while" /\ Goes(code, Off(prog, p)) = Off(prog, f)
      BY <1>1, <1>2, <2>5, LoopsBack
    <3> HIDE DEF f
    <3>2. TokenAt(pc') = f
      BY <1>2, <2>1, <3>1, AtToken, TokenNow DEF Emits
    <3>3. TokenAt(pc)' = f
      BY <1>1, <3>2, TokenSame
    <3>4. Structured!Repeat
      BY <1>1, <1>3, <1>7, <2>5, <3>3 DEF Structured!Repeat, f
    <3> QED BY <3>4 DEF Structured!Next
  <2> QED BY <2>2, <2>3, <2>4, <2>5
<1> QED BY <1>6, <1>8, <1>9

LEMMA RetRefines ==
  ASSUME IInv, CodeIs, ret
  PROVE  Structured!Next
<1>1. phase = "run" /\ phase' = "done" /\ code[pc + 1].op = "ret"
  BY DEF ret, Running
<1>2. prog \in Seq(Tokens) /\ Len(prog) \in Nat
  BY <1>1, AtInstruction
<1>3. \/ TokenAt(pc) = Len(prog) + 1
      \/ TokenAt(pc) \in 1 .. Len(prog) /\ prog[TokenAt(pc)] = "return"
  <2>1. CASE TokenAt(pc) = Len(prog) + 1
    BY <2>1
  <2>2. CASE TokenAt(pc) # Len(prog) + 1
    <3>1. PICK p \in 1 .. Len(prog) :
            /\ prog[p] \in Emits /\ TokenAt(pc) = p /\ code[pc + 1].op = OpOf(prog[p])
      BY <1>1, <2>2, AtInstruction
    <3>2. prog[p] = "return"
      BY <1>1, <3>1 DEF OpOf, Emits
    <3> QED BY <3>1, <3>2
  <2> QED BY <2>1, <2>2
<1>4. Structured!Return
  <2>1. CASE TokenAt(pc) = Len(prog) + 1
    <3>1. TokenAt(pc) # 0
      BY <1>2, <2>1
    <3> QED BY <1>1, <2>1, <3>1 DEF Structured!Return, Structured!End
  <2>2. CASE TokenAt(pc) \in 1 .. Len(prog) /\ prog[TokenAt(pc)] = "return"
    BY <1>1, <2>2 DEF Structured!Return, Structured!Executing
  <2> QED BY <1>3, <2>1, <2>2
<1> QED BY <1>4 DEF Structured!Next

\* Finished code is called at its first instruction.
LEMMA CallRefines ==
  ASSUME IInv, CodeIs, IInv', CodeIs', finish
  PROVE  Structured!Next
<1>1. phase = "emit" /\ phase' = "run" /\ pc' = 0 /\ prog' = prog
  BY DEF finish
<1>2. prog' \in Seq(Tokens) /\ Len(prog') \in Nat
  BY <1>1 DEF CodeIs, Compiled
<1>3. TokenAt(pc)' = Structured!Settle(1)'
  <2> DEFINE w == prog'
  <2>1. w \in Seq(Tokens) /\ 1 \in 1 .. Len(w) + 1
    BY <1>2
  <2>2. TokenAt(pc)' = TokenIn(w, 0)
    BY <1>1, TokenNow
  <2>3. Structured!Settle(1)' = SettleIn(w, 1)
    BY <1>1, SettleNow
  <2> HIDE DEF w
  <2>4. TokenIn(w, Off(w, 1)) = SettleIn(w, 1)
    BY <2>1, SettleInIs
  <2>5. Off(w, 1) = 0
    BY OffStep
  <2> QED BY <2>2, <2>3, <2>4, <2>5
<1>4. prog' \in Seq(Structured!Token)
  BY <1>2 DEF Tokens, Structured!Token
<1>5. Structured!Call
  BY <1>1, <1>3, <1>4 DEF Structured!Call
<1> QED BY <1>5 DEF Structured!Next

\* A step is a step of the body that is walked, or none while code is compiled.
LEMMA StepRefines ==
  ASSUME IInv, CodeIs, IInv', CodeIs', [Next]_vars
  PROVE  [Structured!Next]_(Structured!vars)
<1>1. CASE UNCHANGED vars
  <2>1. prog' = prog /\ phase' = phase /\ pc' = pc
    BY <1>1 DEF vars
  <2>2. TokenAt(pc)' = TokenAt(pc)
    BY <2>1, TokenSame
  <2> QED BY <2>1, <2>2 DEF Structured!vars
<1>2. CASE step
  BY <1>2, RunRefines, RetRefines DEF step
<1>3. CASE finish
  BY <1>3, CallRefines
<1>4. CASE compile /\ ~finish
  <2>1. phase # "run" /\ phase' # "run"
    BY <1>4 DEF compile, compileToken, compileSimple, compileReturn, compileIf, compileElse,
                compileEndIf, compileWhile, compileEndWhile, compileThrows, compileFunction
  <2> QED BY <2>1 DEF Structured!vars
<1> QED BY <1>1, <1>2, <1>3, <1>4 DEF Next

\* Compiled code takes exactly the paths of the structured program: every jump of an x86-64
\* body of any length and nesting goes where the statement it was emitted for says.
THEOREM Implements ==
  ASSUME Arch = "x86_64"
  PROVE  Spec => ImplementsStructuredControl
<1>1. Init => Structured!Init
  BY DEF Init, Structured!Init
<1>2. IInv /\ CodeIs /\ (IInv /\ CodeIs)' /\ [Next]_vars => [Structured!Next]_(Structured!vars)
  BY StepRefines
<1>3. Spec => [](IInv /\ CodeIs)
  BY CodeInvariance
<1> QED BY <1>1, <1>2, <1>3, PTL DEF Spec, ImplementsStructuredControl, Structured!Spec
===============================================================================
