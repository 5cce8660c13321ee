------------------------------ MODULE ControlFlow ------------------------------
(***************************************************************************)
(* Labels and jumps.  NativeJIT::compileStatement walks a function's body  *)
(* once, front to back: it emits a jump before it knows where the jump     *)
(* goes, and the code generator patches it when the label is bound.  The   *)
(* finished code then runs.                                                *)
(*                                                                         *)
(* The body is chosen token by token while it is compiled.  An offset      *)
(* counts instructions; what computes a statement or a condition is part   *)
(* of one instruction.  A displacement is relative to the next instruction *)
(* on x86-64 and to the branch itself on ARM64.                            *)
(***************************************************************************)
EXTENDS Integers, Sequences, FiniteSets, FiniteSetsExt

CONSTANTS
  Arch,        \* "x86_64" or "arm64"
  MaxTokens    \* bound: tokens of a body

ASSUME ArchAssumption  == Arch \in {"x86_64", "arm64"}
ASSUME BoundAssumption == MaxTokens \in Nat

VARIABLES
  prog,    \* the tokens compiled so far
  open,    \* the constructs being compiled, innermost last, with their labels
  code,    \* the code buffer
  phase,   \* "emit", "run", "done", "failed"
  pc       \* offset of the instruction that runs next

vars == << prog, open, code, phase, pc >>

-------------------------------------------------------------------------------
(* The code generator *)

\* Label: createLabel leaves it unbound.
createLabel == [bound |-> FALSE, offset |-> 0, pendingFixups |-> {}]

\* Mutant: as if displacements counted from the jump itself.
RelFromJump(offset, j) == offset - j
\* Mutant: the operands swapped.
RelBackwards(offset, j) == j - offset

\* The displacement that takes a jump at offset j to offset.
Rel(offset, j) == IF Arch = "x86_64" THEN offset - (j + 1) ELSE offset - j

\* Mutant: one encoding is forgotten.
NotConditional(op) == op = "jmp"

\* ARM64's bindLabel knows the encodings of B and B.cond; a CBZ is neither.
Patches(op) == Arch = "x86_64" \/ op = "jmp"

\* Mutant: one past the end.
BoundTooFar(l, c) == [bound |-> TRUE, offset |-> Len(c) + 1, pendingFixups |-> {}]

\* bindLabel binds to the end of the code and patches what is pending.
Bound(l, c) == [bound |-> TRUE, offset |-> Len(c), pendingFixups |-> {}]

Patched(c, l) ==
  [k \in DOMAIN c |->
     IF k - 1 \in l.pendingFixups /\ Patches(c[k].op)
     THEN [c[k] EXCEPT !.rel = Rel(Bound(l, c).offset, k - 1)]
     ELSE c[k]]

\* emitJump, emitJumpIfFalse: a placeholder when the label is not bound yet.
Jump(c, op, l) ==
  Append(c, [op |-> op, rel |-> IF l.bound THEN Rel(l.offset, Len(c)) ELSE 0])

Refer(l, c) ==
  IF l.bound THEN l ELSE [l EXCEPT !.pendingFixups = @ \cup {Len(c)}]

Plain(op) == Append(code, [op |-> op, rel |-> 0])

-------------------------------------------------------------------------------
(* compileStatement.  `skip' is elseLabel or loopEnd, `join' is endLabel or
   loopStart. *)

Top == open[Len(open)]

Closed  == SubSeq(open, 1, Len(open) - 1)
Reopened(kind, skip, join) == Append(Closed, [kind |-> kind, skip |-> skip, join |-> join])

\* There is room for t tokens and the ends of what is open.
RoomFor(t) == Len(prog) + Len(open) + t <= MaxTokens

compileToken(t) ==
  /\ phase = "emit"
  /\ prog' = Append(prog, t)
  /\ UNCHANGED << phase, pc >>

\* Assignments, prints and calls.
compileSimple ==
  /\ RoomFor(1)
  /\ compileToken("stmt")
  /\ code' = Plain("op")
  /\ UNCHANGED open

compileReturn ==
  /\ RoomFor(1)
  /\ compileToken("return")
  /\ code' = Plain("ret")
  /\ UNCHANGED open

compileIf ==
  /\ RoomFor(2)
  /\ compileToken("if")
  /\ code' = Jump(code, "jz", createLabel)
  /\ open' = Append(open, [kind |-> "then", skip |-> Refer(createLabel, code),
                           join |-> createLabel])

compileElse ==
  /\ open # << >> /\ Top.kind = "then"
  /\ RoomFor(1)
  /\ compileToken("else")
  /\ LET jumped == Jump(code, "jmp", Top.join)
     IN /\ code' = Patched(jumped, Top.skip)
        /\ open' = Reopened("else", Bound(Top.skip, jumped), Refer(Top.join, code))

compileEndIf ==
  /\ open # << >> /\ Top.kind \in {"then", "else"}
  /\ compileToken("endif")
  /\ code' = Patched(code, IF Top.kind = "then" THEN Top.skip ELSE Top.join)
  /\ open' = Closed

compileWhile ==
  /\ RoomFor(2)
  /\ compileToken("while")
  /\ code' = Jump(code, "jz", createLabel)
  /\ open' = Append(open, [kind |-> "body", skip |-> Refer(createLabel, code),
                           join |-> Bound(createLabel, code)])

compileEndWhile ==
  /\ open # << >> /\ Top.kind = "body"
  /\ compileToken("endwhile")
  /\ code' = Patched(Jump(code, "jmp", Top.join), Top.skip)
  /\ open' = Closed

\* The default return, then the code is copied to executable memory and called.
finish ==
  /\ phase = "emit" /\ open = << >>
  /\ code' = Plain("ret")
  /\ phase' = "run"
  /\ pc' = 0
  /\ UNCHANGED << prog, open >>

\* compileExpression throws (a string, a name it does not know).
compileThrows ==
  /\ phase = "emit"
  /\ phase' = "failed"
  /\ UNCHANGED << prog, open, code, pc >>

\* The next function: codegen->clear(), and the labels were C++ locals.
compileFunction ==
  /\ phase \in {"done", "failed"}
  /\ prog' = << >> /\ open' = << >> /\ code' = << >>
  /\ phase' = "emit" /\ pc' = 0

-------------------------------------------------------------------------------
(* The processor *)

Target(j) == code[j + 1].rel + IF Arch = "x86_64" THEN j + 1 ELSE j

Running(op) == phase = "run" /\ pc \in 0 .. Len(code) - 1 /\ code[pc + 1].op = op

fallThrough ==
  /\ Running("op") \/ Running("jz")
  /\ pc' = pc + 1
  /\ UNCHANGED << prog, open, code, phase >>

jump ==
  /\ Running("jmp") \/ Running("jz")
  /\ pc' = Target(pc)
  /\ UNCHANGED << prog, open, code, phase >>

ret ==
  /\ Running("ret")
  /\ phase' = "done"
  /\ UNCHANGED << prog, open, code, pc >>

step == fallThrough \/ jump \/ ret

Init ==
  /\ prog = << >> /\ open = << >> /\ code = << >>
  /\ phase = "emit" /\ pc = 0

compile ==
  \/ compileSimple \/ compileReturn
  \/ compileIf \/ compileElse \/ compileEndIf
  \/ compileWhile \/ compileEndWhile
  \/ finish \/ compileThrows \/ compileFunction

Next == compile \/ step

\* The processor does not stop in the middle of the code.
Spec == Init /\ [][Next]_vars /\ WF_vars(step)

-------------------------------------------------------------------------------
Labels ==
  [bound : BOOLEAN, offset : Nat, pendingFixups : SUBSET (0 .. Len(code) - 1)]

\* Fixups lie inside the code, and so does the program counter while it runs.
TypeOK ==
  /\ code \in Seq([op : {"op", "jz", "jmp", "ret"}, rel : Int])
  /\ \A d \in DOMAIN open :
       open[d] \in [kind : {"then", "else", "body"}, skip : Labels, join : Labels]
  /\ phase \in {"emit", "run", "done", "failed"}
  /\ phase = "run" => pc \in 0 .. Len(code) - 1

(***************************************************************************)
(* Every token but the end of an if has one instruction, in order; the     *)
(* default return stands for the end of the body.  An offset outside the   *)
(* code is at no token.                                                    *)
(***************************************************************************)
Emitting == { p \in 1 .. Len(prog) : prog[p] # "endif" }

TokenAt(offset) ==
  CASE offset = Cardinality(Emitting) -> Len(prog) + 1
    [] offset \in 0 .. Cardinality(Emitting) - 1 ->
         CHOOSE p \in Emitting : Cardinality({ q \in Emitting : q < p }) = offset
    [] OTHER -> -1

Structured ==
  INSTANCE StructuredControl WITH
    prog <- IF phase = "run" THEN prog ELSE << >>,
    pos  <- IF phase = "run" THEN TokenAt(pc) ELSE 0

\* Compiled code takes exactly the paths of the structured program.
ImplementsStructuredControl == Structured!Spec

\* A body without a loop returns: none of its jumps goes round in a circle.
LoopFreeReturns ==
  (phase = "run" /\ \A p \in DOMAIN prog : prog[p] # "while") ~> phase = "done"

\* "Fix up pending references": when a label is bound, every branch that was
\* waiting for it goes there.
FixupsReachLabel ==
  [][ compileElse \/ compileEndIf \/ compileEndWhile
      => \A j \in IF Top.kind = "else" THEN Top.join.pendingFixups
                                       ELSE Top.skip.pendingFixups :
           Target(j)' = Len(code') ]_vars
===============================================================================
