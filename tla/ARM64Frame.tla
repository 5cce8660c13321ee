------------------------------ MODULE ARM64Frame ------------------------------
(***************************************************************************)
(* The native stack as the code of codegen_arm64.cpp manipulates it, in    *)
(* words of eight bytes like X86Frame.tla.  Encoded offsets are modelled   *)
(* with the bits they are given, instructions by their encoding where the  *)
(* comment beside it names another one.                                    *)
(*                                                                         *)
(* `frames' is a history variable: for each activation the registers it    *)
(* was entered with, where its x29 points (`base'), and the values the     *)
(* program stored in locals and pushed.  No instruction reads it.          *)
(*                                                                         *)
(* The C++ helpers are external: they keep x29, x30 and x19 in a frame of  *)
(* their own and use registers and the memory below it as they like.       *)
(***************************************************************************)
EXTENDS Integers, Sequences

CONSTANTS Value, LocalCounts, MaxDepth, MaxTemps, Slots, StackWords, Junk

VARIABLES
  mem, sp,
  x0, x9,    \* the result register and the secondary register
  regs,      \* pc (in compiled code or in C++), x19, x29; x30 is pc when a call returns
  frames

vars == << mem, sp, x0, x9, regs, frames >>

Addr    == 0 .. StackWords
JitCode == -1
CppCode == -2

Depth == Len(frames)
Top   == frames[Depth]
WithTop(a) == [frames EXCEPT ![Depth] = a]

-------------------------------------------------------------------------------
(* Encodings: seven bits of words for stp and ldp, nine of bytes for stur and ldur. *)

Imm7(words) == ((words + 64) % 128) - 64
Imm9(bytes) == ((bytes + 256) % 512) - 256

\* Mutant: the size is not rounded up to 16 bytes.
NotRounded(n) == n + 4

\* frameSize: ((localCount * 8 + 32) + 15) & ~15.
FrameWords(n) == n + 4 + (n % 2)

\* str xzr, ldr x0, str x0: [x29, #-(8*(i+1))]
Slot(base, i) == base + (Imm9(-8 * (i + 1)) \div 8)

\* Mutant: str x19, [sp, #8] is where stp has put x30.
X19OverX30(base) == base + 1

\* str x19, [sp, #16]
X19Slot(base) == base + 2

\* Two registers at base, stored by stp, and x19.
WithSaved(m, base) ==
  [[m EXCEPT ![base] = regs.x29, ![base + 1] = regs.pc] EXCEPT ![X19Slot(base)] = regs.x19]

WithZeroed(m, base, n) ==
  [a \in Addr |-> IF \E i \in 0 .. n-1 : a = Slot(base, i) THEN 0 ELSE m[a]]

-------------------------------------------------------------------------------
(***************************************************************************)
(* blr leaves the return address in x30, which the prologue stores next to *)
(* x29: the record's pc.  The locals lie below x29, so there must be room  *)
(* for them under the frame.                                               *)
(***************************************************************************)
EnterFrame(kind, n, x29, new) ==
  /\ Depth < MaxDepth
  /\ x29 - n >= 0
  /\ mem' = WithZeroed(WithSaved(mem, x29), x29, n)
  /\ sp' = x29
  /\ regs' = new
  /\ frames' = Append(frames, [kind |-> kind, slots |-> n, base |-> x29, saved |-> regs,
                               locals |-> [i \in 1 .. n |-> 0], temps |-> << >>])

emitPrologue(n, args) ==
  /\ regs.pc = CppCode
  /\ LET x29 == sp + Imm7(-FrameWords(n))
     IN EnterFrame("jit", n, x29, [pc |-> JitCode, x19 |-> args, x29 |-> x29])
  /\ UNCHANGED << x0, x9 >>

\* mov x10, helper; blr x10.  Then the helper's own frame.
emitCallRuntime(v) ==
  /\ regs.pc = JitCode
  /\ EnterFrame("cpp", 0, sp - FrameWords(0), [pc |-> CppCode, x19 |-> v, x29 |-> v])
  /\ UNCHANGED << x0, x9 >>

\* ldr x19, [sp, #16]; ldp x29, x30, [sp], #size; ret
LeaveFrame(size) ==
  /\ sp + 2 \in Addr
  /\ regs' = [pc |-> mem[sp + 1], x29 |-> mem[sp], x19 |-> mem[X19Slot(sp)]]
  /\ sp' = sp + Imm7(size)
  /\ frames' = SubSeq(frames, 1, Depth - 1)
  /\ UNCHANGED mem

\* A return is a statement: nothing is pushed.
emitEpilogue ==
  /\ regs.pc = JitCode /\ Top.temps = << >>
  /\ LeaveFrame(FrameWords(Top.slots))
  /\ UNCHANGED << x0, x9 >>

RuntimeReturn(v) ==
  /\ regs.pc = CppCode /\ frames # << >>
  /\ LeaveFrame(FrameWords(0))
  /\ x0' = v /\ x9' = v

\* emitLoadImmediate, emitLoadBool, emitLoadArg.
emitLoadImmediate(v) ==
  /\ regs.pc = JitCode
  /\ x0' = v
  /\ UNCHANGED << mem, sp, x9, regs, frames >>

emitLoadLocal(i) ==
  /\ regs.pc = JitCode /\ i < Top.slots
  /\ x0' = mem[Slot(regs.x29, i)]
  /\ UNCHANGED << mem, sp, x9, regs, frames >>

\* An assignment is a statement, too.
emitStoreLocal(i) ==
  /\ regs.pc = JitCode /\ i < Top.slots /\ Top.temps = << >>
  /\ mem' = [mem EXCEPT ![Slot(regs.x29, i)] = x0]
  /\ frames' = WithTop([Top EXCEPT !.locals[i + 1] = x0])
  /\ UNCHANGED << sp, x0, x9, regs >>

\* str x0, [sp, #-16]!
emitPush ==
  /\ regs.pc = JitCode
  /\ Len(Top.temps) < MaxTemps /\ sp - 2 >= 0
  /\ mem' = [mem EXCEPT ![sp - 2] = x0]
  /\ sp' = sp - 2
  /\ frames' = WithTop([Top EXCEPT !.temps = Append(@, x0)])
  /\ UNCHANGED << x0, x9, regs >>

\* Mutant: thirty-two bytes are popped.
TwicePopped == sp + 4

Popped == sp + 2

\* The comment says ldr x9, [sp], #16; 0xF8410FE9 is ldr x9, [sp, #16]!, which adds 16
\* to sp before it loads.
emitPop ==
  /\ regs.pc = JitCode /\ Top.temps # << >>
  /\ x9' = mem[Popped]
  /\ sp' = Popped
  /\ frames' = WithTop([Top EXCEPT !.temps = SubSeq(@, 1, Len(@) - 1)])
  /\ UNCHANGED << mem, x0, regs >>

Init ==
  /\ mem = [a \in Addr |-> Junk]
  /\ sp = StackWords
  /\ x0 = 0 /\ x9 = 0
  /\ regs = [pc |-> CppCode, x19 |-> Junk, x29 |-> Junk]
  /\ frames = << >>

Next ==
  \/ \E n \in LocalCounts, args \in Value : emitPrologue(n, args)
  \/ \E v \in Value : emitCallRuntime(v) \/ RuntimeReturn(v) \/ emitLoadImmediate(v)
  \/ \E i \in Slots : emitLoadLocal(i) \/ emitStoreLocal(i)
  \/ emitEpilogue \/ emitPush \/ emitPop

Spec == Init /\ [][Next]_vars

-------------------------------------------------------------------------------
Low(d) == frames[d].base - 2 * Len(frames[d].temps)

\* Registers and stack hold words, and sp never leaves the stack.
TypeOK ==
  /\ mem \in [Addr -> Int] /\ sp \in Addr
  /\ x0 \in Int /\ x9 \in Int
  /\ regs \in [pc : Int, x19 : Int, x29 : Int]

\* stp, ldp, pushes and pops agree on every frame's extent: each activation begins
\* where its caller ends, the newest ends at sp, and sp stays a multiple of 16 bytes,
\* without which the processor faults.
FramesTile ==
  /\ \A d \in 1 .. Depth :
       frames[d].base + FrameWords(frames[d].slots) = IF d = 1 THEN StackWords ELSE Low(d - 1)
  /\ sp = IF frames = << >> THEN StackWords ELSE Low(Depth)
  /\ sp % 2 = StackWords % 2

\* Although the locals of every activation lie under its frame, where the next push or
\* call overwrites them, nothing ever overwrites what a return needs: each activation
\* finds x29, x30 and x19 as they were when it was entered, and its x29 is its own.
ReturnsIntact ==
  /\ \A d \in 1 .. Depth :
       LET b == frames[d].base
       IN /\ mem[b] = frames[d].saved.x29
          /\ mem[b + 1] = frames[d].saved.pc
          /\ mem[b + 2] = frames[d].saved.x19
          /\ \A j \in DOMAIN frames[d].temps : mem[b - 2 * j] = frames[d].temps[j]
  /\ regs.pc = JitCode <=> frames # << >> /\ Top.kind = "jit"
  /\ regs.pc = JitCode => regs.x29 = Top.base

\* "ldr x9, [sp], #16" (emitPop), "Pop into secondary register" (codegen.h): the left
\* operand that was pushed last is in x9 when the operator runs.
PopReturnsPushed ==
  [][emitPop => x9' = Top.temps[Len(Top.temps)]]_vars
===============================================================================
