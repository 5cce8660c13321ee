--------------------------- MODULE StructuredControl ---------------------------
(***************************************************************************)
(* The path a function's body takes through its statements, as             *)
(* Interpreter::executeStatement walks it.  A body is the sequence of its  *)
(* tokens in source order; what a statement or a condition computes is     *)
(* left open.  ControlFlow.tla shows that the jumps of the compiled code   *)
(* take the same paths.                                                    *)
(***************************************************************************)
EXTENDS Integers, Sequences, FiniteSets, FiniteSetsExt

VARIABLES
  prog,   \* the body that is executed; << >> when none is
  pos     \* the token execution has come to; Len(prog) + 1 is the end of the body

vars == << prog, pos >>

Token  == {"stmt", "return", "if", "else", "endif", "while", "endwhile"}
Opens  == {"if", "while"}
Closes == {"endif", "endwhile"}

\* Constructs opened minus constructs closed by tokens p to q.
Level(p, q) ==
  Cardinality({ k \in p .. q : prog[k] \in Opens })
    - Cardinality({ k \in p .. q : prog[k] \in Closes })

End == Len(prog) + 1

\* The end of the construct that p, an opening token or an else, belongs to.
EndOf(p) == Min({ q \in p + 1 .. Len(prog) : Level(p + 1, q) = -1 })

ElsesOf(p) == { q \in p + 1 .. EndOf(p) - 1 : prog[q] = "else" /\ Level(p + 1, q) = 0 }

WhileOf(q) == CHOOSE p \in 1 .. q - 1 : prog[p] = "while" /\ EndOf(p) = q

\* Leaving an if is nothing to execute.
Settle(p) == Min({ q \in p .. End : q = End \/ prog[q] # "endif" })

Executing(kinds) == pos \in 1 .. Len(prog) /\ prog[pos] \in kinds

Init == prog = << >> /\ pos = 0

\* A body is called.
Call ==
  /\ pos = 0
  /\ prog' \in Seq(Token)
  /\ pos' = Settle(1)'

Statement ==
  /\ Executing({"stmt"})
  /\ pos' = Settle(pos + 1)
  /\ UNCHANGED prog

\* The condition is true.
TakeBlock ==
  /\ Executing(Opens)
  /\ pos' = Settle(pos + 1)
  /\ UNCHANGED prog

\* The condition is false: on to the else block if there is one.
SkipBlock ==
  /\ Executing(Opens)
  /\ pos' = Settle(1 + IF prog[pos] = "if" /\ ElsesOf(pos) # {}
                       THEN Min(ElsesOf(pos)) ELSE EndOf(pos))
  /\ UNCHANGED prog

\* The then block has been executed.
LeaveThen ==
  /\ Executing({"else"})
  /\ pos' = Settle(EndOf(pos))
  /\ UNCHANGED prog

\* The loop's body has been executed: back to the condition.
Repeat ==
  /\ Executing({"endwhile"})
  /\ pos' = WhileOf(pos)
  /\ UNCHANGED prog

\* A return statement, or the end of the body.
Return ==
  /\ Executing({"return"}) \/ (pos # 0 /\ pos = End)
  /\ pos' = 0
  /\ prog' = << >>

Next ==
  \/ Call \/ Statement \/ TakeBlock \/ SkipBlock \/ LeaveThen \/ Repeat \/ Return

Spec == Init /\ [][Next]_vars
===============================================================================
