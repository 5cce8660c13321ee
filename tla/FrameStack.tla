------------------------------ MODULE FrameStack ------------------------------
(***************************************************************************)
(* What the x86-64 code generator promises about activations, with no      *)
(* memory in sight: every activation owns its local slots, its expression  *)
(* temporaries and a copy of the registers it was entered with; nothing    *)
(* another activation does can change them, and a return gives the         *)
(* registers back.  X86Frame.tla shows what the emitted prologue, epilogue,*)
(* push, pop and rbp-relative moves make of this promise.                  *)
(*                                                                         *)
(* Two kinds of activation alternate.  Compiled functions ("jit") are only *)
(* ever entered from C++ (NativeJIT::callCompiled), and compiled code only *)
(* ever calls C++ runtime helpers ("cpp": jit_push_arg, jit_call_func, the *)
(* print helpers).                                                         *)
(***************************************************************************)
EXTENDS Integers, Sequences

CONSTANTS
  Value,         \* the immediates the compiled code loads
  LocalCounts,   \* the numbers of local slots of the compiled functions
  MaxDepth,      \* bound: activations alive at once
  MaxTemps       \* bound: values an expression keeps pushed

VARIABLES
  frames,   \* the activations, innermost last
  rax,      \* result register of compiled code and of the calls it makes
  regs      \* the registers a callee must preserve, and rip

Registers == [rip : Int, rbp : Int, rbx : Int, r12 : Int]

SlotCount == {0} \cup LocalCounts     \* a C++ helper has no local slot

\* Slot i of an activation is locals[i + 1].
Activation ==
  { a \in [kind : {"jit", "cpp"}, slots : SlotCount,
           locals : Seq(Int), temps : Seq(Int), saved : Registers] : Len(a.locals) = a.slots }

NewActivation(kind, n, saved) ==
  [kind |-> kind, slots |-> n, locals |-> [k \in 1 .. n |-> 0],
   temps |-> << >>, saved |-> saved]

Top           == frames[Len(frames)]
Outer         == SubSeq(frames, 1, Len(frames) - 1)
WithTop(a)    == [frames EXCEPT ![Len(frames)] = a]
InCpp         == frames = << >> \/ Top.kind = "cpp"
InJit         == frames # << >> /\ Top.kind = "jit"

Init ==
  /\ frames = << >>
  /\ rax = 0
  /\ regs \in Registers

(***************************************************************************)
(* A call in either direction: the callee starts with zeroed locals and    *)
(* may use the registers for itself, having kept the caller's.             *)
(***************************************************************************)
Enter(kind, n) ==
  /\ Len(frames) < MaxDepth
  /\ frames' = Append(frames, NewActivation(kind, n, regs))
  /\ regs' \in Registers
  /\ UNCHANGED rax

EnterCompiled == InCpp /\ \E n \in LocalCounts : Enter("jit", n)

CallRuntime == InJit /\ Enter("cpp", 0)

(***************************************************************************)
(* A return hands back the registers of the caller.  A C++ helper also     *)
(* leaves its result in rax.                                               *)
(***************************************************************************)
Leave ==
  /\ frames # << >>
  /\ regs' = Top.saved
  /\ frames' = Outer

ReturnCompiled == InJit /\ Top.temps = << >> /\ Leave /\ UNCHANGED rax

ReturnRuntime == InCpp /\ Leave /\ rax' \in Int

LoadImmediate ==
  /\ InJit
  /\ rax' \in Value
  /\ UNCHANGED << frames, regs >>

LoadLocal ==
  /\ InJit
  /\ \E i \in 0 .. Top.slots - 1 : rax' = Top.locals[i + 1]
  /\ UNCHANGED << frames, regs >>

StoreLocal ==
  /\ InJit
  /\ \E i \in 0 .. Top.slots - 1 :
       frames' = WithTop([Top EXCEPT !.locals = [@ EXCEPT ![i + 1] = rax]])
  /\ UNCHANGED << rax, regs >>

Push ==
  /\ InJit
  /\ Len(Top.temps) < MaxTemps
  /\ frames' = WithTop([Top EXCEPT !.temps = Append(@, rax)])
  /\ UNCHANGED << rax, regs >>

(***************************************************************************)
(* The last value pushed arrives in rbx, whatever ran in between.          *)
(***************************************************************************)
Pop ==
  /\ InJit
  /\ Top.temps # << >>
  /\ regs' = [regs EXCEPT !.rbx = Top.temps[Len(Top.temps)]]
  /\ frames' = WithTop([Top EXCEPT !.temps = SubSeq(@, 1, Len(@) - 1)])
  /\ UNCHANGED rax

Next ==
  \/ EnterCompiled \/ ReturnCompiled
  \/ CallRuntime \/ ReturnRuntime
  \/ LoadImmediate \/ LoadLocal \/ StoreLocal
  \/ Push \/ Pop

vars == << frames, rax, regs >>

Spec == Init /\ [][Next]_vars
===============================================================================
