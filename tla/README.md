# mini-luau-jit in TLA+

Specifications, model-checking configurations and proofs for mini-luau-jit, a
Lua interpreter with a native JIT compiler (`luau [--jit] file.lua`). The
question the development asks throughout: *does compiled code behave as the
tree-walking interpreter does, and does it keep out of the way of the C++ code
it runs between?*

## 1. The system

```
 main.cpp ── yyparse (parser.y, lexer.yy.cpp) ──> BlockNode (ast.h)
    │
    ├── Interpreter::execute(root)
    └── NativeJIT::execute(root)                      --jit
          pass 1  compileFunction ── compileStatement ── compileExpression
                     │                      │                  │
                     │                labels, jumps     push / pop / ops
                     └── CodeGen (x86-64 or ARM64) ──> bytes ──> mmap'ed page
          pass 2  executeStatement / evaluateWithJIT
                     ├── callCompiled ──> native code ──> jit_push_arg
                     │                               ──> jit_call_func ──> native code
                     │                               ──> runtimePrint*     or interpreter
                     └── Interpreter::evaluate
```

| component | state it keeps | operations | interacts with |
|---|---|---|---|
| x86-64 frames (`codegen_x86_64.cpp`) | the machine stack, rax, rbx, rbp, rsp, r12 while native code runs | prologue, epilogue, load/store local, push/pop, load argument, call of a runtime helper | C++ callers and helpers through the System V ABI |
| calls out of compiled code (`native_jit.cpp`) | `jit_call_args[16]`, `jit_call_arg_index` (static) | `jit_push_arg`, `jit_call_func`, `runtimeCallUserFunc`, `callCompiled` | generated code, the interpreter, itself recursively |
| labels and jumps (`codegen_*.cpp`, `compileStatement`) | code buffer, `Label{bound, offset, pendingFixups}` | `createLabel`, `bindLabel`, `emitJump`, `emitJumpIfFalse` | the processor, which runs the result |
| JIT driver (`NativeJIT::execute`) | `compiledFunctions`, `Interpreter::functions`, `allocatedPages` | the two passes, `executeStatement`, `evaluateWithJIT` | everything above |
| expression compiler (`compileExpression`, `collectLocals`) | `localVarMap`, `functionParams` | one case per expression node | the code generator |
| interpreter (`interpreter.cpp`) | `variables`, `functions`, the C++ call stack | `evaluate`, `executeStatement`, `evaluateFunctionCall`, `ReturnException` | the driver and `runtimeCallUserFunc` |
| ARM64 frames (`codegen_arm64.cpp`) | as for x86-64 | as for x86-64 | AAPCS64 callers |
| executable memory | `allocatedPages` | `allocateExecutableMemory`, destructor | kernel |
| lexer (`lexer.yy.cpp`) | one character of lookahead, line number | `yylex` | parser |
| parser, tree (`parser.y`, `ast.h`) | the syntax tree | grammar actions | both engines |
| command line (`main.cpp`) | — | option parsing, error report | both engines |
| first draft (`jit.cpp`) | — | not built | — |

There are no threads. What is hard here is *re-entrancy*: native code calls
C++, which calls native code, any number of levels deep; one static buffer, one
stack and two function tables are shared by all of those levels. The other
hazards are encodings cut to eight bits, displacements patched after the fact,
exceptions that have to cross native frames, and two engines that must agree on
what a name means. `PROJECT.json` lists each at its line.

What makes each component correct:

| component | properties |
|---|---|
| x86-64 frames | activations tile the stack; each finds its saved registers, locals and temporaries as it left them; locals start at zero; C++ is called with an aligned stack |
| calls out of compiled code | each callee receives the arguments of its own call site |
| labels and jumps | the finished code takes the path the syntax tree prescribes; every fixup reaches its label; code without a loop returns |
| JIT driver | a name stands for the same definition whichever engine looks it up; a function that does not compile is interpreted |
| expression compiler | a compiled expression has the interpreter's value and stops where the interpreter stops; a truth value is 0 or 1; pushes and pops pair up |
| variables (both engines) | every activation has variables of its own; arguments are evaluated in the caller's |
| ARM64 frames | prologue, epilogue, push and pop agree on every frame's extent; a return finds x29, x30 and x19 as its caller left them; a pop returns what was pushed |
| executable memory | a page outlives every pointer into it and is unmapped once |
| lexer | the longest lexemes are returned; no character is lost or read twice; the scanner comes to the end of any text |
| parser | the programs of the grammar are accepted, and no other file; the tree has every token in its place and the declared precedence; each copied text is freed once |

## 2. The modules

An abstract specification says what a component promises, a detailed one follows
the code, and the detailed one is shown to implement the abstract one under a
refinement mapping written in its `INSTANCE ... WITH`.

| promise | code | instance for TLC | proofs |
|---|---|---|---|
| `FrameStack` | `X86Frame` | (in `Machines`) | `Machines_proofs` |
| `CallByValue` | `JitCalls` | `MCJitCalls` | `JitCalls_proofs` |
| `StructuredControl` | `ControlFlow` | constants in the cfg | `ControlFlow_proofs` |
| `Lookup` | `Dispatch` | `MCDispatch` | `Dispatch_proofs` |
| `Evaluation` | `Expressions` | constants in the cfg | `Expressions_proofs` |
| `Scopes` | `Variables` | `MCVariables` | `Variables_proofs` |
| – | `ARM64Frame` | (in `Machines`) | `Machines_proofs` |
| `FrameStack` (x86-64 half) | `Machines` = `X86Frame` or `ARM64Frame` | constants in the cfg | `Machines_proofs` |
| `Tokens` | `Lexer` | constants in the cfg | `Lexer_proofs` |
| `Grammar` | `Parser`, `SyntaxTree` | `MCParser` | `Parser_proofs` |

Where the interpreter defines what a program means, the abstract module is a
translation of `interpreter.cpp` (`StructuredControl`, `Lookup`, `Evaluation`):
the refinement then says that `--jit` changes nothing. `FrameStack`,
`CallByValue` and `Scopes` state what the machine stack, the argument buffer and
the two stores of variables are for. `Tokens` is the longest-match reading of a
text, as `lexer.l` states it (strings as `lexer.yy.cpp` scans them, where the two
differ); `Grammar` is the language of `parser.y`, a set of
places per phrase, which the parser is compared with by an invariant.

How state and actions correspond to the code, line by line, is the `map` of
`PROJECT.json`; in outline:

**X86Frame** (`codegen_x86_64.cpp`). `mem`, `rsp`, `rax` and `regs` are the stack
and the registers, in words of eight bytes. `emitPrologue`, `emitEpilogue`,
`emitPush`, `emitPop`, `emitLoadLocal`, `emitStoreLocal` and `emitCallRuntime` do
what the instructions they emit do, displacements included: `Disp8` sign-extends
eight bits, `MovDisp` chooses between disp8 and disp32 as
`emitMovFromStack`/`emitMovToStack` do, `ZeroDisp` is the prologue's unconditional
disp8. `frames` and `bases` are history variables: what the program stored, which
no instruction reads. C++ helpers are external; what is assumed of them is the
System V ABI: they keep a frame of their own and give callee-saved registers back.

**ARM64Frame** (`codegen_arm64.cpp`). The same actions on the other machine:
`stp` with pre-index, locals below x29, `sp` moved by 16 per push, `Imm7` and
`Imm9` for the offsets as encoded. `emitPop` is what 0xF8410FE9 does, not what
the comment beside it says.

**Machines** (`createCodeGenerator`). One process runs on one of the two machines;
`arch` says which, and the other's variables stay as they are.

**JitCalls** (`native_jit.cpp` 521–613, 405–411, 199–211). `jit_call_args` and
`jit_call_arg_index` are the two static variables. `stack` holds, per activation,
the parameters it received and the call expressions it is in the middle of. One
action is one call out of generated code (`jit_push_arg`, `jit_call_func`), one
call from the driver, one return, or one exception, which nothing can unwind
through native frames.

**ControlFlow** (`compileStatement` and the label functions of both code
generators). A body is chosen token by token while it is compiled; each token
appends its instructions, refers to labels and binds them. `finish` adds the
default return, and the processor (`fallThrough`, `jump`, `ret`) runs the buffer
with every outcome of every condition. `Arch` selects how displacements count and
which instructions `bindLabel` patches.

**Dispatch** (`NativeJIT::execute`, `executeStatement`, `evaluateWithJIT`,
`jit_call_func`, `evaluateFunctionCall`). `compiledFunctions` and `functions` are
the two tables. The first pass fills both, the second executes; a body is one of
a set of paths of calls, nested definitions and returns, run by one engine. A call
expression is a *site*, and `Args` says which calls stand in its arguments. A call
under way is in its arguments or in its body, and three engines differ in when they
look its name up: the interpreter before the arguments, of which it evaluates one for
each parameter (`evaluateFunctionCall`, `executeBody`); native code after all of them
(`jit_push_arg`, `jit_call_func`); the driver in `compiledFunctions` before all of
them, with a second lookup of the same name after (`evaluateWithJIT`,
`callCompiled`). A call at the top level may be the whole statement or part of an
expression: both are possible at each. `Lookup` is the interpreter alone; in the
mapping a call of native code that is still in its arguments has found what its name
means now.

**Expressions** (`compileExpression` and the arithmetic of `codegen_x86_64.cpp`).
The code is straight-line, so instructions run in the order of emission and one
action is a node's share of both. `ZF`, `SF`, `OF`, `Div`, `Rem` are the processor's;
words wrap. Programs are well-typed: `type` carries the type the interpreter's
value would have, which no instruction knows.

**Variables** (`collectLocals`, `compileFunction`, `evaluateFunctionCall`,
`runtimeCallUserFunc`). `variables` is the interpreter's one map, `slots` the frame
of a compiled activation, `savedVars` the C++ local in which an interpreted call
keeps the map it will put back. `own` says which names an activation has assigned;
the mapping reads each waiting activation's variables from wherever they are now.

**Expressions**, second half: `ARM64Emitted` and its companions are the ARM64
instructions (condition codes as the numbers in the encoding, constants built
from 16-bit pieces), compared step by step with the x86-64 ones.

**Tokens**, **Lexer** (`lexer.yy.cpp`). `current_char` is the static variable of that
name; one action is what happens between two looks at the input. The text arrives
one character at a time; a character stands for its class, "or" for every keyword.

**Grammar**, **Parser** (`parser.y`, `ast.h`). `stack` is bison's, with semantic
values; an action is one shift or one rule with its C++ action. `Shiftable` says
which tokens the automaton shifts after which symbols; where it does not shift, the
complete rule is reduced, without a look at what comes. A token is known by its
place in the file, so that a tree says where each of its parts came from.
`strings` are the texts that `strdup` made and `free` has not got yet. **SyntaxTree**
holds the two properties that need recursion over trees and phrases: that the trees
have every token in its place, and that the parser accepts the grammar's language. They
stand apart because a module with a RECURSIVE operator cannot be proved about.

## 3. What is checked

| run | shows | bounds |
|---|---|---|
| `frames` | on either machine no call, push, store or return of one activation disturbs what a return needs; on x86-64 locals and temporaries are safe as well, C++ is called aligned while nothing is pushed, and the emitted code implements `FrameStack` | three activations: compiled, C++ and compiled again; three slots; one temporary; a 26-word stack so that its end is reached |
| `calls` | the callee receives its own site's arguments when calls nest in first arguments only and supply what a compiled callee loads | depth 3, two open sites, a 2-word buffer, so that the buffer fills; one callee compiled, one interpreted, one undefined |
| `control_flow` | compiled code takes the interpreter's paths; the program counter stays inside the code; a body without a loop returns; every pending branch is patched to its label | all bodies of up to 8 tokens, which nest an if/else in a while and the reverse |
| `dispatch` | every call evaluates the arguments and runs the definition it would in the interpreter, and is undefined where it would be | all 245 programs of up to two definitions, one compiled and one interpreted, in either order, followed by two calls or returns, each plain or with a call in its argument; the interpreted body defines a name twice and calls it with arguments that define it again or that it has no parameter for; depth 4, so that native code calls the interpreter and itself below that |
| `expressions` | compiled expressions have the interpreter's values; traps coincide with errors; the ARM64 instructions but the remainder compute the same | all operands of a 4-bit word, constants in 2-bit pieces, where every sign, carry and overflow combination occurs; two operators open |
| `variables` | every activation has its own variables through calls that cross engines | two names, one compiled and one interpreted function with swapped parameters; depth 3 |
| `lexer` | the scanner returns the longest lexemes with their text and line, and comes to the end of the file | all texts of up to 5 characters of 13 classes; tokens of 3 characters, so that longer ones are cut |
| `parser` | what is accepted, refused at which token, built and freed | all files of up to 8 tokens of expressions, of calls and assignments, 9 of `local` and `print`, 11 of `if` and `while`, 14 of definitions with typed parameters |
| `many_locals` | **violated**: the 15th slot, number 14, is not zeroed (the word above rbp that is written instead lies outside the modelled memory) | 15 slots |
| `arm64_pop` | **violated**: a pop loads the word above the one that was pushed | two temporaries |
| `nested_calls` | **violated**: `f(1, g(2))` gives `f`'s first argument to `g` | as `calls`, with late nesting |
| `control_flow_arm64` | **violated**: CBZ of a forward jump is never patched | 4 tokens |
The bounds suffice because each hazard is local: two neighbouring activations can
disturb one another and a third shows that a disturbance does not come from
further away; a buffer of two is empty, partly filled and full; nesting of
two constructs has all the orders of binding two labels. The proofs
remove the bounds for everything but what the parser accepts and whether its trees
have every token in its place.

A passing run is limited to programs for which the property is meant to hold, and
the violated run next to it drops the limit where there is one: `LateNesting`
(calls), 14 slots (frames). For `dispatch` the limit is `Plain`, which `MCDispatch`
assumes of its programs: definitions come first and once, and a call whose arguments
call does not show that native code looks its name up later. No
argument mentions a parameter of the callee that has been assigned before it
(`ArgumentsKept` of `Variables`). Section 5 says what happens beyond the limits.

**Deadlock.** `Dispatch`, `JitCalls`, `Expressions`, `Lexer` and `Parser` stop: the
program ends, aborts or is refused, the text ends, or the processor traps, so their runs say `CHECK_DEADLOCK FALSE`. The others
cannot stop and are checked for it.

**Fairness.** Two modules assume any. `ControlFlow`: `WF_vars(step)`, the processor
executes the next instruction as long as there is one. `Lexer`: `WF_vars(Next)`,
`fgetc` on a file returns, and the file ends. Nothing is assumed of the program's
conditions, so a loop need not end, and `LoopFreeReturns` says no more than it
can. Everything else is safety: nothing in the program waits.

## 4. What is proved

`Machines_proofs`, x86-64, for every stack size, depth, set of values and number of
temporaries, **assuming `SmallFrames`** (no function has more than 14 slots; the
`many_locals` run shows why): `TypeCorrect`, `FramesApart`, `RegistersOwned`,
`FramesIsolated` and `Implements`. The invariant is the conjunction of the run's
four. `ActivationsIntact`, the one that matters, is not inductive alone: a write
is harmless only because `FramesTile` keeps it out of other activations, and the
epilogue finds its own frame only because of `RegistersAgree`. One
lemma says what entering a frame writes, one what leaving it reads, one that an
activation whose words are not written stays intact; the actions follow.
`CallsAligned` adds the alignment, for a stack that begins aligned: a frame's extent
is even whatever the number of slots, so that a frame under which nothing is pushed
is aligned, by induction over the steps and not over the frames.

`Machines_proofs`, ARM64, **assuming `FewLocals`** (no function has more than 58 slots;
from 59 on `ldp`'s seven bits turn the frame size negative): `ARM64TypeCorrect`,
`ARM64FramesApart` and `ARM64ReturnsSafe`. In the invariant each activation *fits*
between what its caller pushed and where the next begins, its saved registers and
temporaries are *kept* in memory, and activations lie *apart*. Locals are stored
below x29, so the step that matters is that no store reaches a saved register:
those words are nobody's as long as the storing activation is the newest and has
nothing pushed, and only then does the code store. The operands of a pop are not part
of it: they are wrong (`arm64_pop`). The specification is the one the `frames` run
checks, where either machine may run: the ARM64 half of `MachineSpec` is a behaviour
of `ARM64Frame`, so the three follow without a new invariant.

`JitCalls_proofs`, for every program, buffer size and depth, **assuming
`SimplePrograms`** (calls nest in first arguments only, no call has more arguments
than the buffer, a compiled callee has no more parameters than the call
supplies): `TypeCorrect`, `BufferOwned`, `Implements`. `BufferIsInnermost` is the
heart: the buffer is the innermost site's and every other site is still empty,
which is what makes the reset in `jit_call_func` harmless.

`Dispatch_proofs`, for every program, **assuming `Plain`** (definitions come first,
each name once; a nested definition shares its name with none of them and does
not stand in a compiled body; in native code a call with calls in its arguments names a
top-level definition; and there, as in the driver's calls of compiled functions, no call
stands in an argument beyond the parameters): `TypeCorrect`, `OneDefinition`, `Implements`. Besides type and
table agreement (`TypeCorrect`, `OneDefinition`) the invariant needs: what the first pass has registered comes from
the text before `pc`; a top-level definition stays in force; when a body runs, all
definitions lie behind, so that the hoisted table is the interpreter's; only
top-level names are compiled, so that a nested definition cannot part the tables;
and what is left of a path stands in its definition's body or in its call's
arguments. The hard case is a call of native code whose arguments still run: Lookup has
looked its name up, native code has not. `WaitingFound` says that the name is a
top-level one, which no nested definition can change in the meantime, and that each
argument that calls has a parameter, so that neither the later lookup nor the further
arguments show.

`Expressions_proofs`, for words of any size (an even number of values, the fourth
power of the piece an ARM64 `movk` sets), operands of any value and expressions of
any depth: `TypeCorrect`, `Normalised`, `Implements`, `SameOnARM64`. The invariant
says that each waiting operand is on the stack as the word the interpreter's value
has there, that the newest is in `rax`, and that a truth value is 0 or 1 in both
places; the last is what makes `Normalised` inductive, since `and` and `or` work on
what is there. The lemmas are the processor's: a sum wraps to the interpreter's, the
flags of a subtraction order its operands as signed numbers although it overflows,
`idiv` truncates as C++ does and traps on the same operands, four `movk` make any
constant.

`ControlFlow_proofs`, for bodies of any length and nesting: `TypeCorrect` on both
architectures, `FixupsPatched` and `Implements` **assuming `Arch = "x86_64"`** (on
ARM64 both are false, `control_flow_arm64`). The type invariant needs that *every*
jump stays inside the code, patched or still waiting, because on ARM64 one that was
never patched runs. `Implements` needs what the code is: each token has its
instruction at the offset that counts the tokens before it; a construct that has ended
has its jumps where the body says, its then block's past the else; a construct that is
open has, in the labels of its place on `open`, just the jumps of its own
tokens (`CodeIs`, a state predicate that was checked with TLC before it was proved).
Compiling a token changes only what is innermost (`TokenStep`); that patching leaves
all other jumps alone follows from one fact, that an offset belongs to one token
(`OffUnique`). A finished body has nothing open, so each instruction is a step of
its token.

`Variables_proofs`, for every set of names, functions and bodies, any depth:
`TypeCorrect` and `Implements`. An activation's variables are in one of three places:
the interpreter's map while it runs, the C++ local `savedVars` of the next
interpreted activation above it, or its own slots. The invariant says that they *fit*
in the place where they are; the step that matters is a return, which puts the saved map
back and finds in it what the caller left. The loop that assigns the parameters
is a recursive function; `SetUpParameters` is shown to yield its closed form by a least
counterexample (`Least`), which needs no induction rule.

`Lexer_proofs`, for texts and tokens of any length (`TextAssumption`: every keyword is
shorter than `yytext`): `TypeCorrect` and `Implements`. The invariant says that what has
been consumed since the last lexeme is what the scan function under way has accepted, and
that `yytext` is what it stands for, cut at the buffer's size. A string's text is the
hard case: `Contents` picks the characters that are not escaping backslashes, and the
lemmas say how it grows by a character and by an escape. That no longer lexeme was
possible is decided at the first character, whose class leaves one kind of token.

`Parser_proofs`, for files of any length and any tokens: `TypeCorrect`, `TextsFreed` and
`OperatorsBind`. Each shift puts a token where it may stand (`Stands`, which looks up to
three symbols back), each rule is a `Reduction`: the last symbols become one that may
stand on those before. A stack built so is `Viable`, and that is what `TypeOK` reads off
it. For `TextsFreed` each name, literal and type on the stack holds a text of
its own, and what a rule does not free the new symbol takes over. `OperatorsBind` goes by
the tokens' depth in parentheses, which the symbols of the stack determine (`Levelled`);
`Binds` says how an operator's left operand, the operand after it and operators in a row
compare in level. A binary expression is reduced only when the lookahead is not
shiftable, so an operator that comes next binds no tighter than the operand before it
(`Looks`). The whole tree follows because an operator has its operands when it is
built and keeps them: there is a set of nodes, closed under subtrees, in which all bind
(`Grown`), and `Nodes`, the recursive function that the property uses, stays inside it.

Only model-checked: `NothingLost`, whose reading of a tree is a recursion over trees;
`AcceptsLanguage`, which needs ENABLED and the RECURSIVE operators of `Grammar`; and the
liveness properties `LoopFreeReturns` and `ReachesEnd`, since fairness is beyond the
prover.

## 5. Findings

Each of the first four is a run that TLC finds violated.

1. `emitPrologue` cuts displacements to eight bits: the 15th local is not zeroed, as
   the trace shows (`many_locals`, `codegen_x86_64.cpp:47`). The displacement that is
   encoded for it, +120, is a word above `rbp`; the model's memory ends before it.
2. Calls nested in a later argument take the outer call's arguments
   (`nested_calls`, `native_jit.cpp:533`).
3. ARM64's `bindLabel` does not patch CBZ (`control_flow_arm64`,
   `codegen_arm64.cpp:284`).
4. ARM64's `emitPop` loads the wrong word (`arm64_pop`, `codegen_arm64.cpp:155`).

The others were met while modelling; the passing runs are limited to programs that
avoid them, or state what holds all the same.

5. `emitCallRuntime` does not align the stack when a temporary is pushed: the call
   in `1 + f(2)` is 8 bytes off (`codegen_x86_64.cpp:306`).
6. A redefinition that fails to compile leaves the old definition's native code in
   force (`native_jit.cpp:426`).
7. The interpreter evaluates an argument after it has assigned the parameters before
   it (`interpreter.cpp:192`): `gcd(48, 18)` is 18, and 6 with `--jit`.
8. ARM64 locals lie below x29, the lowest address of the frame: pushes and calls
   overwrite them (`codegen_arm64.cpp:34`); with 59 locals a return moves `sp` the
   wrong way (`:64`); `emitMod` subtracts from the divisor (`:182`).
9. After `return`, a name on the next line is taken for the value (`parser.y:175`): a
   bare return before an assignment is refused.
10. `type` and `elseif` are tokens without a rule, though `README.md:16` says that the
    `type` keyword is parsed. `%left` ranks `<` above `==` (`parser.y:40`), the rules
    put them at one level; the declarations have no effect.
11. A newline that a backslash escapes in a string is not counted
    (`lexer.yy.cpp:145`).
12. The interpreter looks a call's name up before it evaluates the arguments
    (`interpreter.cpp:181`), native code after (`native_jit.cpp:199`, `:540`). In
    `k(g())`, in a compiled function, with an interpreted `g` that defines `k`, the
    interpreter reports an undefined function and `--jit` runs `k`; where `k` has a
    definition already, the interpreter runs that one and native code the new one.
13. The interpreter evaluates an argument for each parameter (`interpreter.cpp:190`),
    native code and the driver evaluate all (`native_jit.cpp:199`, `:450`): the calls in
    the others are made with `--jit` only.
14. ARM64's `sdiv` gives 0 for a division by zero and the program goes on
    (`codegen_arm64.cpp:175`), where the interpreter reports an error and x86-64 traps.

No line of the repository says that output is the same with `--jit`, so 12 to 14 are
stated here and at the limits of the properties (`Plain`, `SDiv`) and not as violated
runs.

The hazards list in `PROJECT.json` names what no run covers: reads of names a
function has not assigned (the interpreter has dynamic scope, native code reads
0), missing arguments of a compiled callee, more than 16 arguments, nested
definitions in compiled bodies, lost types.

## 6. What is not modelled

- Strings, nil and output formatting: native code has none of them but integers.
- The values of integer literals (`scan_number` reads a text into a `long long`) and
  all but one of the operators of each level of precedence.
- The memory of the tree: the parser's strings are tracked, its nodes are owned by
  `unique_ptr` once they are in the tree.
- `jit.cpp`: a draft that the Makefile does not build.
- `main.cpp`: option parsing and I/O.
- How long pages live; failure of `mmap`, which is an exception like any other
  failure to compile.
- Line numbers of run-time errors: there are none; those of syntax errors are the
  scanner's.

## 7. Plan

Order: what calls corrupt first, then what the code computes, then the second
architecture, then the front end.

1. *Done*: frames, argument buffer, labels, tables, expressions, variables, each with
   its refinement proved.
2. *Done*: ARM64 frames, instructions and their composition with x86-64, with the
   proofs; the scanner and the parser.
3. The limits: 16 arguments, `emitLoadArg`'s disp8, nested definitions in compiled
   bodies, calls whose name an argument defines, reads of unassigned names.
4. Typed values: which programs print the same under both engines, given that
   `runtimePrintInt` prints a truth value as a number.
5. *Done*: proofs about the scanner and the parser.
6. What the proofs leave: that no token is lost from a tree, which would need the
   places read from a tree as a relation between a node and its subtrees, and that the
   parser accepts the grammar's language.
