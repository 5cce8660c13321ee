------------------------------- MODULE X86Frame -------------------------------
(***************************************************************************)
(* The native stack as the code of codegen_x86_64.cpp manipulates it.      *)
(*                                                                         *)
(* Memory is an array of 64-bit words; addresses count words, so the byte  *)
(* displacements of the code are divided by 8.  `frames' is a history      *)
(* variable: it records, activation by activation, the values the program  *)
(* stored, and `bases' where each activation's rbp points.  No emitted     *)
(* instruction reads them: what the registers receive comes from memory    *)
(* and registers alone, and FrameStack says what it should be.  A guard    *)
(* that counts temporaries stands for the order compileExpression emits    *)
(* in: push and pop balance, and a statement has nothing pushed.           *)
(*                                                                         *)
(* The C++ helpers that compiled code calls are external: what is modelled *)
(* is the frame they keep (return address and callee-saved registers, as   *)
(* the System V ABI obliges them to).                                      *)
(***************************************************************************)
EXTENDS Integers, Sequences

CONSTANTS
  Value, LocalCounts, MaxDepth, MaxTemps,
  Slots,         \* bound: the slots the compiled functions load and store
  StackWords,    \* bound: size of the stack
  Junk           \* what lies below the stack pointer before it is written

ASSUME ValueAssumption  == Value \subseteq Int
ASSUME CountsAssumption == LocalCounts \subseteq Nat
ASSUME BoundsAssumption == MaxDepth \in Nat /\ MaxTemps \in Nat
ASSUME StackAssumption  == StackWords \in Nat /\ Junk \in Int /\ Slots \subseteq Nat

VARIABLES
  mem,       \* the stack's words
  rsp,
  rax,
  regs,      \* rip, rbp, rbx, r12
  frames,    \* history: the activations as FrameStack sees them
  bases      \* history: the rbp of each activation

vars == << mem, rsp, rax, regs, frames, bases >>

FS == INSTANCE FrameStack

Addr == 0 .. StackWords

\* Where rip can point: into compiled code, or into C++ code.
JitCode == -1
CppCode == -2

Depth == Len(frames)
Top   == frames[Depth]

(***************************************************************************)
(* Displacements.  An 8-bit displacement is sign-extended by the CPU.      *)
(***************************************************************************)
Disp8(bytes) == ((bytes + 128) % 256) - 128

\* Mutant: local 0 right below rbp, where rbx and r12 are saved.
SlotOverSavedRegisters(i) == -((i + 1) * 8)

SlotOffset(i) == -(16 + (i + 1) * 8)

\* emitMovFromStack, emitMovToStack: disp8 when it fits, disp32 otherwise.
MovDisp(bytes) == IF bytes \in -128 .. 127 THEN Disp8(bytes) ELSE bytes

\* The prologue's "mov qword [rbp - offset], 0" is always encoded with disp8.
ZeroDisp(bytes) == Disp8(bytes)

Slot(base, i)       == base + (MovDisp(SlotOffset(i)) \div 8)
ZeroedSlot(base, i) == base + (ZeroDisp(SlotOffset(i)) \div 8)

\* Mutant: the size is not rounded up to 16 bytes.
NotRounded(n) == n

\* frameSize in words: ((localCount * 8) + 15) & ~15.
FrameWords(n) == n + (n % 2)

(***************************************************************************)
(* call: the return address is pushed, then emitPrologue pushes rbp, rbx   *)
(* and r12, reserves the locals and zeroes them one displacement at a time.*)
(***************************************************************************)
\* Mutant: rbx pushed before rbp.
WithSavedSwapped(m) ==
  [m EXCEPT ![rsp - 1] = regs.rip, ![rsp - 2] = regs.rbx,
            ![rsp - 3] = regs.rbp, ![rsp - 4] = regs.r12]

WithSaved(m) ==
  [m EXCEPT ![rsp - 1] = regs.rip, ![rsp - 2] = regs.rbp,
            ![rsp - 3] = regs.rbx, ![rsp - 4] = regs.r12]

\* Mutant: the zeroing loop stops one local early.
AllButLastZeroed(m, base, n) ==
  [a \in Addr |-> IF \E i \in 0 .. n-2 : a = ZeroedSlot(base, i) THEN 0 ELSE m[a]]

WithZeroed(m, base, n) ==
  [a \in Addr |-> IF \E i \in 0 .. n-1 : a = ZeroedSlot(base, i) THEN 0 ELSE m[a]]

EnterFrame(kind, n) ==
  /\ Depth < MaxDepth
  /\ rsp - 4 - FrameWords(n) >= 0
  /\ mem' = WithZeroed(WithSaved(mem), rsp - 2, n)
  /\ rsp' = rsp - 4 - FrameWords(n)
  /\ frames' = Append(frames, FS!NewActivation(kind, n, regs))
  /\ bases' = Append(bases, rsp - 2)
  /\ UNCHANGED rax

emitPrologue(n, rdi) ==
  /\ regs.rip = CppCode
  /\ EnterFrame("jit", n)
  /\ regs' = [rip |-> JitCode, rbp |-> rsp - 2, rbx |-> regs.rbx, r12 |-> rdi]

(***************************************************************************)
(* emitCallRuntime: "call r11" into a C++ helper, which keeps the caller's *)
(* registers in its own frame and uses them as it likes.                   *)
(***************************************************************************)
emitCallRuntime(v) ==
  /\ regs.rip = JitCode
  /\ EnterFrame("cpp", 0)
  /\ regs' = [rip |-> CppCode, rbp |-> v, rbx |-> v, r12 |-> v]

(***************************************************************************)
(* The way back: four words are popped upwards from `low'.                 *)
(***************************************************************************)
PopFrame(low) ==
  /\ low \in Addr /\ low + 3 \in Addr
  /\ regs' = [rip |-> mem[low + 3], rbp |-> mem[low + 2],
              rbx |-> mem[low + 1], r12 |-> mem[low]]
  /\ rsp' = low + 4
  /\ frames' = SubSeq(frames, 1, Depth - 1)
  /\ bases' = SubSeq(bases, 1, Len(bases) - 1)
  /\ UNCHANGED mem

\* Mutants: only one saved register accounted for; no lea at all.
LowAboveR12 == regs.rbp - 1
LowAtRsp    == rsp

\* lea rsp, [rbp-16]; pop r12; pop rbx; pop rbp; ret
EpilogueLow == regs.rbp - 2

emitEpilogue ==
  /\ regs.rip = JitCode
  /\ Top.temps = << >>
  /\ PopFrame(EpilogueLow)
  /\ UNCHANGED rax

\* A C++ helper restores from its own frame and leaves a result in rax.
RuntimeReturn(v) ==
  /\ regs.rip = CppCode
  /\ frames # << >>
  /\ PopFrame(rsp)
  /\ rax' = v

emitLoadImmediate(v) ==
  /\ regs.rip = JitCode
  /\ rax' = v
  /\ UNCHANGED << mem, rsp, regs, frames, bases >>

emitLoadLocal(i) ==
  /\ regs.rip = JitCode
  /\ i < Top.slots
  /\ rax' = mem[Slot(regs.rbp, i)]
  /\ UNCHANGED << mem, rsp, regs, frames, bases >>

emitStoreLocal(i) ==
  /\ regs.rip = JitCode
  /\ i < Top.slots
  /\ mem' = [mem EXCEPT ![Slot(regs.rbp, i)] = rax]
  /\ frames' = FS!WithTop([Top EXCEPT !.locals = [@ EXCEPT ![i + 1] = rax]])
  /\ UNCHANGED << rsp, rax, regs, bases >>

\* push rax
emitPush ==
  /\ regs.rip = JitCode
  /\ Len(Top.temps) < MaxTemps /\ rsp > 0
  /\ mem' = [mem EXCEPT ![rsp - 1] = rax]
  /\ rsp' = rsp - 1
  /\ frames' = FS!WithTop([Top EXCEPT !.temps = Append(@, rax)])
  /\ UNCHANGED << rax, regs, bases >>

\* pop rbx
emitPop ==
  /\ regs.rip = JitCode
  /\ Top.temps # << >>
  /\ regs' = [regs EXCEPT !.rbx = mem[rsp]]
  /\ rsp' = rsp + 1
  /\ frames' = FS!WithTop([Top EXCEPT !.temps = SubSeq(@, 1, Len(@) - 1)])
  /\ UNCHANGED << mem, rax, bases >>

\* The driver's C++ code is running.
Init ==
  /\ mem = [a \in Addr |-> Junk]
  /\ rsp = StackWords
  /\ rax = 0
  /\ \E v \in Value : regs = [rip |-> CppCode, rbp |-> v, rbx |-> v, r12 |-> v]
  /\ frames = << >>
  /\ bases = << >>

Next ==
  \/ \E n \in LocalCounts, rdi \in Value : emitPrologue(n, rdi)
  \/ \E v \in Value : emitCallRuntime(v) \/ RuntimeReturn(v) \/ emitLoadImmediate(v)
  \/ \E i \in Slots : emitLoadLocal(i) \/ emitStoreLocal(i)
  \/ emitEpilogue
  \/ emitPush
  \/ emitPop

Spec == Init /\ [][Next]_vars

-------------------------------------------------------------------------------
(***************************************************************************)
(* What must hold.  `Low' is the lowest word of activation d.              *)
(***************************************************************************)
Low(d) == bases[d] - 2 - FrameWords(frames[d].slots) - Len(frames[d].temps)

\* The registers and the stack hold machine words, the history is well formed.
TypeOK ==
  /\ mem \in [Addr -> Int]
  /\ rsp \in Addr
  /\ rax \in Int
  /\ regs \in FS!Registers
  /\ frames \in Seq(FS!Activation)
  /\ bases \in Seq(Addr) /\ Len(bases) = Depth

\* Activations tile the stack: each starts where its caller ends, the newest one
\* ends at rsp, so no two share a word (push/pop, sub rsp and the epilogue's lea
\* agree on every frame's extent).
FramesTile ==
  /\ \A d \in 1 .. Depth :
       /\ 0 <= Low(d)
       /\ frames[d].kind = "cpp" => frames[d].slots = 0 /\ frames[d].temps = << >>
       /\ bases[d] + 2 = IF d = 1 THEN StackWords ELSE Low(d - 1)
       /\ \A e \in d+1 .. Depth : bases[e] + 2 <= Low(d)
  /\ rsp = IF frames = << >> THEN StackWords ELSE Low(Depth)

\* rbp and rip belong to the newest activation, and what an activation saved
\* belongs to the one below it.
RunningIn(d, r) ==
  IF d > 0 /\ frames[d].kind = "jit"
  THEN r.rip = JitCode /\ r.rbp = bases[d]
  ELSE r.rip = CppCode

RegistersAgree ==
  /\ RunningIn(Depth, regs)
  /\ \A d \in 1 .. Depth : RunningIn(d - 1, frames[d].saved)

\* Every word an activation still needs is in memory where the emitted code will
\* look for it: saved registers, locals and pushed temporaries of every live
\* activation, however deep the calls above it have gone.
SavedIntact(d) ==
  /\ mem[bases[d] + 1] = frames[d].saved.rip
  /\ mem[bases[d]]     = frames[d].saved.rbp
  /\ mem[bases[d] - 1] = frames[d].saved.rbx
  /\ mem[bases[d] - 2] = frames[d].saved.r12

LocalsIntact(d) ==
  \A i \in 0 .. frames[d].slots - 1 : mem[Slot(bases[d], i)] = frames[d].locals[i + 1]

TempsIntact(d) ==
  \A j \in 1 .. Len(frames[d].temps) :
    mem[bases[d] - 2 - FrameWords(frames[d].slots) - j] = frames[d].temps[j]

ActivationsIntact ==
  \A d \in 1 .. Depth : SavedIntact(d) /\ LocalsIntact(d) /\ TempsIntact(d)

\* The emitted code implements the promise of FrameStack: loads return what was
\* stored, pops what was pushed, and a return restores the caller's registers.
ImplementsFrameStack == FS!Spec

\* emitPrologue's comment "Initialize locals to 0": every local reads 0 on entry.
LocalsStartAtZero ==
  [][\A n \in LocalCounts, rdi \in Value :
       emitPrologue(n, rdi) => \A i \in 0 .. n-1 : mem'[Slot(regs'.rbp, i)] = 0]_vars

\* The System V ABI named at the top of codegen_x86_64.cpp: rsp is a multiple of 16
\* bytes at a call, so a frame's base is an even word.  The code keeps to it as long
\* as nothing is pushed: a call inside 1 + f(2) is made eight bytes off.
StackAlignedAtCalls ==
  \A d \in 1 .. Depth :
    (\A e \in 1 .. d-1 : frames[e].temps = << >>) => bases[d] % 2 = 0
===============================================================================
