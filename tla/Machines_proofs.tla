--------------------------- MODULE Machines_proofs ---------------------------
(***************************************************************************)
(* Machine-checked proofs about Machines.                                  *)
(*                                                                         *)
(* x86-64: for every stack size, depth and set of immediates, the emitted  *)
(* code keeps activations apart and implements FrameStack, provided no     *)
(* compiled function has more than 14 local slots.                         *)
(*                                                                         *)
(* ARM64: for every stack size and depth the prologue and the epilogue     *)
(* agree, and a return finds the registers of the caller, provided no      *)
(* compiled function has more than 58 local slots: ldp has seven bits for  *)
(* the frame size.                                                         *)
(***************************************************************************)
EXTENDS Machines, TLAPS

SmallFrames == LocalCounts \subseteq 0 .. 14

\* emitMovFromStack and emitMovToStack reach slot i at rbp - 8 * (i + 3),
\* whichever displacement size they choose.
LEMMA SlotIs ==
  ASSUME NEW b \in Int, NEW i \in Nat
  PROVE  Slot(b, i) = b - (i + 3)
<1>1. SlotOffset(i) = -(8 * (i + 3))
  BY DEF SlotOffset
<1>2. MovDisp(-(8 * (i + 3))) = -(8 * (i + 3))
  BY DEF MovDisp, Disp8
<1>3. (-(8 * (i + 3))) \div 8 = -(i + 3)
  OBVIOUS
<1> QED BY <1>1, <1>2, <1>3 DEF Slot

\* The prologue's disp8 reaches the first 14 slots.
LEMMA ZeroedSlotIs ==
  ASSUME NEW b \in Int, NEW i \in 0 .. 13
  PROVE  ZeroedSlot(b, i) = b - (i + 3)
<1>1. SlotOffset(i) = -(8 * (i + 3))
  BY DEF SlotOffset
<1>2. ZeroDisp(-(8 * (i + 3))) = -(8 * (i + 3))
  BY DEF ZeroDisp, Disp8
<1>3. (-(8 * (i + 3))) \div 8 = -(i + 3)
  OBVIOUS
<1> QED BY <1>1, <1>2, <1>3 DEF ZeroedSlot

LEMMA FrameWordsIs ==
  ASSUME NEW n \in Nat
  PROVE  FrameWords(n) \in Nat /\ n <= FrameWords(n)
BY DEF FrameWords

-------------------------------------------------------------------------------
(***************************************************************************)
(* The inductive invariant.  ActivationsIntact alone is not inductive: a   *)
(* write is harmless only because FramesTile keeps it out of the other     *)
(* activations, and the epilogue finds its frame only because rbp is the   *)
(* newest activation's (RegistersAgree).                                   *)
(***************************************************************************)
Intact(d) == SavedIntact(d) /\ LocalsIntact(d) /\ TempsIntact(d)

IInv == TypeOK /\ FramesTile /\ RegistersAgree /\ ActivationsIntact

LEMMA ActivationType ==
  ASSUME NEW a \in FS!Activation
  PROVE  /\ a.kind \in {"jit", "cpp"}
         /\ a.slots \in Nat
         /\ a.locals \in Seq(Int) /\ Len(a.locals) = a.slots
         /\ a.temps \in Seq(Int) /\ Len(a.temps) \in Nat
         /\ a.saved \in FS!Registers
<1>0. a.slots \in FS!SlotCount
  BY DEF FS!Activation
<1>a. FS!SlotCount \subseteq Nat
  BY CountsAssumption DEF FS!SlotCount
<1>1. a.slots \in Nat
  BY <1>0, <1>a
<1>2. a.locals \in Seq(Int) /\ Len(a.locals) = a.slots
  BY DEF FS!Activation
<1> QED BY <1>1, <1>2 DEF FS!Activation

LEMMA NewActivationType ==
  ASSUME NEW kind \in {"jit", "cpp"}, NEW n \in FS!SlotCount, NEW r \in FS!Registers
  PROVE  FS!NewActivation(kind, n, r) \in FS!Activation
<1>0. n \in Nat
  BY CountsAssumption DEF FS!SlotCount
<1>1. [k \in 1 .. n |-> 0] \in Seq(Int) /\ Len([k \in 1 .. n |-> 0]) = n
  BY <1>0
<1>2. << >> \in Seq(Int)
  OBVIOUS
<1> QED BY <1>1, <1>2 DEF FS!NewActivation, FS!Activation

LEMMA HistoryType ==
  ASSUME TypeOK
  PROVE  /\ Depth \in Nat
         /\ \A d \in 1 .. Depth : frames[d] \in FS!Activation /\ bases[d] \in Int
<1>1. Depth \in Nat /\ \A d \in 1 .. Depth : frames[d] \in FS!Activation
  BY DEF TypeOK, Depth
<1>2. \A d \in 1 .. Len(bases) : bases[d] \in Int
  BY DEF TypeOK, Addr
<1> QED BY <1>1, <1>2 DEF TypeOK

\* Where the words of an activation lie.
LEMMA Extent ==
  ASSUME TypeOK, FramesTile, NEW d \in 1 .. Depth
  PROVE  /\ frames[d] \in FS!Activation
         /\ bases[d] \in Int
         /\ FrameWords(frames[d].slots) \in Nat
         /\ frames[d].slots <= FrameWords(frames[d].slots)
         /\ Low(d) \in Nat
         /\ Low(d) = bases[d] - 2 - FrameWords(frames[d].slots) - Len(frames[d].temps)
         /\ bases[d] + 2 <= StackWords
         /\ rsp <= Low(d)
<1>1. /\ frames[d] \in FS!Activation
      /\ bases[d] \in Int
  BY HistoryType
<1>2. /\ frames[d].slots \in Nat
      /\ Len(frames[d].temps) \in Nat
  BY <1>1, ActivationType
<1>3. /\ FrameWords(frames[d].slots) \in Nat
      /\ frames[d].slots <= FrameWords(frames[d].slots)
  BY <1>2, FrameWordsIs
<1>4. /\ Low(d) = bases[d] - 2 - FrameWords(frames[d].slots) - Len(frames[d].temps)
      /\ Low(d) \in Nat
  BY <1>1, <1>2, <1>3 DEF Low, FramesTile
<1>5. bases[d] + 2 <= StackWords
  <2>1. CASE d = 1
    BY <2>1, <1>1, StackAssumption DEF FramesTile
  <2>2. CASE d # 1
    <3>1. 1 \in 1 .. Depth /\ d \in 2 .. Depth
      BY <2>2 DEF Depth
    <3>2. bases[d] + 2 <= Low(1) /\ bases[1] + 2 = StackWords
      BY <3>1 DEF FramesTile
    <3>3. /\ frames[1] \in FS!Activation
          /\ bases[1] \in Int
      BY <3>1, HistoryType
    <3>4. /\ FrameWords(frames[1].slots) \in Nat
          /\ Len(frames[1].temps) \in Nat
      BY <3>3, ActivationType, FrameWordsIs
    <3>5. Low(1) = bases[1] - 2 - FrameWords(frames[1].slots) - Len(frames[1].temps)
      BY DEF Low
    <3>6. Low(1) \in Int /\ Low(1) <= bases[1]
      BY <3>3, <3>4, <3>5
    <3> HIDE DEF Low
    <3> QED BY <1>1, <3>2, <3>3, <3>6, StackAssumption
  <2> QED BY <2>1, <2>2
<1>6. rsp <= Low(d)
  <2>1. CASE d = Depth
    BY <2>1, <1>4 DEF FramesTile, Depth
  <2>2. CASE d # Depth
    <3>1. Depth \in 1 .. Depth /\ Depth \in d+1 .. Depth
      BY <2>2 DEF Depth
    <3>2. bases[Depth] + 2 <= Low(d) /\ rsp = Low(Depth)
      BY <3>1 DEF FramesTile, Depth
    <3>3. /\ frames[Depth] \in FS!Activation
          /\ bases[Depth] \in Int
      BY <3>1, HistoryType
    <3>4. /\ FrameWords(frames[Depth].slots) \in Nat
          /\ Len(frames[Depth].temps) \in Nat
      BY <3>3, ActivationType, FrameWordsIs
    <3> QED BY <1>1, <1>4, <3>2, <3>3, <3>4 DEF Low
  <2> QED BY <2>1, <2>2
<1> QED BY <1>1, <1>3, <1>4, <1>5, <1>6

LEMMA InFrame ==
  ASSUME NEW b \in Int, NEW w \in Nat, NEW t \in Nat, NEW i \in Nat, i + 1 <= w
  PROVE  b - (i + 3) \in b - 2 - w - t .. b + 1
OBVIOUS

\* The frame rule: an activation whose words are not written stays intact.
LEMMA Undisturbed ==
  ASSUME TypeOK, FramesTile, NEW d \in 1 .. Depth, Intact(d),
         frames'[d] = frames[d], bases'[d] = bases[d],
         \A a \in Low(d) .. bases[d] + 1 : mem'[a] = mem[a]
  PROVE  Intact(d)'
<1>1. /\ frames[d].slots \in Nat
      /\ Len(frames[d].temps) \in Nat
      /\ bases[d] \in Int
      /\ FrameWords(frames[d].slots) \in Nat
      /\ frames[d].slots <= FrameWords(frames[d].slots)
      /\ Low(d) = bases[d] - 2 - FrameWords(frames[d].slots) - Len(frames[d].temps)
  BY Extent, ActivationType
<1>2. SavedIntact(d)'
  <2>1. \A k \in -1 .. 2 : bases[d] - k \in Low(d) .. bases[d] + 1
    <3>1. \A b \in Int, w \in Nat, t \in Nat, k \in -1 .. 2 : b - k \in b - 2 - w - t .. b + 1
      OBVIOUS
    <3> QED BY <1>1, <3>1
  <2>2. \A k \in -1 .. 2 : mem'[bases[d] - k] = mem[bases[d] - k]
    BY <2>1
  <2>3. /\ mem'[bases[d] + 1] = mem[bases[d] + 1] /\ mem'[bases[d]] = mem[bases[d]]
        /\ mem'[bases[d] - 1] = mem[bases[d] - 1] /\ mem'[bases[d] - 2] = mem[bases[d] - 2]
    BY <2>2, <1>1
  <2> QED BY <2>3 DEF Intact, SavedIntact
<1>3. LocalsIntact(d)'
  <2> SUFFICES ASSUME NEW i \in 0 .. frames[d].slots - 1
               PROVE  mem'[Slot(bases[d], i)] = frames[d].locals[i + 1]
    BY DEF LocalsIntact, Slot
  <2>0. i \in Nat /\ i + 1 <= FrameWords(frames[d].slots)
    BY <1>1
  <2>1. Slot(bases[d], i) = bases[d] - (i + 3)
    BY <1>1, <2>0, SlotIs
  <2>2. bases[d] - (i + 3) \in Low(d) .. bases[d] + 1
    BY <2>0, <1>1, InFrame
  <2>3. Slot(bases[d], i) \in Low(d) .. bases[d] + 1
    BY <2>2, <2>1, <1>1
  <2> QED BY <2>3 DEF Intact, LocalsIntact
<1>4. TempsIntact(d)'
  <2> SUFFICES ASSUME NEW j \in 1 .. Len(frames[d].temps)
               PROVE  mem'[bases[d] - 2 - FrameWords(frames[d].slots) - j] = frames[d].temps[j]
    BY DEF TempsIntact, FrameWords
  <2>1. bases[d] - 2 - FrameWords(frames[d].slots) - j \in Low(d) .. bases[d] + 1
    BY <1>1
  <2> QED BY <2>1 DEF Intact, TempsIntact
<1> QED BY <1>2, <1>3, <1>4 DEF Intact

-------------------------------------------------------------------------------
(***************************************************************************)
(* A call: what EnterFrame writes, and that it preserves the invariant.    *)
(***************************************************************************)
LEMMA SlotCountSmall ==
  ASSUME SmallFrames, NEW n \in FS!SlotCount
  PROVE  n \in 0 .. 14
BY DEF SmallFrames, FS!SlotCount

LEMMA EnterWrites ==
  ASSUME SmallFrames, TypeOK, NEW kind, NEW n \in FS!SlotCount, EnterFrame(kind, n)
  PROVE  /\ mem' \in [Addr -> Int]
         /\ \A a \in rsp .. StackWords : mem'[a] = mem[a]
         /\ mem'[rsp - 1] = regs.rip /\ mem'[rsp - 2] = regs.rbp
         /\ mem'[rsp - 3] = regs.rbx /\ mem'[rsp - 4] = regs.r12
         /\ \A i \in 0 .. n-1 : mem'[rsp - 2 - (i + 3)] = 0
<1> DEFINE m == WithSaved(mem)
<1>1. /\ rsp \in Nat /\ rsp <= StackWords /\ StackWords \in Nat
      /\ n \in 0 .. 14 /\ FrameWords(n) \in Nat /\ n <= FrameWords(n)
      /\ rsp - 4 - FrameWords(n) >= 0
  <2>1. n \in 0 .. 14
    BY SlotCountSmall
  <2>2. FrameWords(n) \in Nat /\ n <= FrameWords(n)
    BY <2>1, FrameWordsIs
  <2>3. rsp \in Nat /\ rsp <= StackWords /\ StackWords \in Nat
    BY StackAssumption DEF TypeOK, Addr
  <2> QED BY <2>1, <2>2, <2>3 DEF EnterFrame
<1>2. rsp - 1 \in Addr /\ rsp - 2 \in Addr /\ rsp - 3 \in Addr /\ rsp - 4 \in Addr
  BY <1>1 DEF Addr
<1>3. regs.rip \in Int /\ regs.rbp \in Int /\ regs.rbx \in Int /\ regs.r12 \in Int
  BY DEF TypeOK, FS!Registers
<1>4. /\ m \in [Addr -> Int]
      /\ \A a \in rsp .. StackWords : m[a] = mem[a]
      /\ m[rsp - 1] = regs.rip /\ m[rsp - 2] = regs.rbp
      /\ m[rsp - 3] = regs.rbx /\ m[rsp - 4] = regs.r12
  <2>1. mem \in [Addr -> Int]
    BY DEF TypeOK
  <2>2. \A a \in rsp .. StackWords :
          a \in Addr /\ a # rsp - 1 /\ a # rsp - 2 /\ a # rsp - 3 /\ a # rsp - 4
    BY <1>1 DEF Addr
  <2>3. rsp - 1 # rsp - 2 /\ rsp - 1 # rsp - 3 /\ rsp - 1 # rsp - 4
        /\ rsp - 2 # rsp - 3 /\ rsp - 2 # rsp - 4 /\ rsp - 3 # rsp - 4
    BY <1>1
  <2>4. m \in [Addr -> Int]
    BY <2>1, <1>2, <1>3 DEF WithSaved
  <2>5. \A a \in rsp .. StackWords : m[a] = mem[a]
    BY <2>1, <2>2 DEF WithSaved
  <2>6. /\ m[rsp - 1] = regs.rip /\ m[rsp - 2] = regs.rbp
        /\ m[rsp - 3] = regs.rbx /\ m[rsp - 4] = regs.r12
    BY <2>1, <2>3, <1>2 DEF WithSaved
  <2> QED BY <2>4, <2>5, <2>6
<1>5. \A i \in 0 .. n-1 : ZeroedSlot(rsp - 2, i) = rsp - 2 - (i + 3)
  BY <1>1, ZeroedSlotIs
<1>6. mem' = [a \in Addr |-> IF \E i \in 0 .. n-1 : a = rsp - 2 - (i + 3) THEN 0 ELSE m[a]]
  <2> HIDE DEF m
  <2>1. mem' = [a \in Addr |->
                  IF \E i \in 0 .. n-1 : a = ZeroedSlot(rsp - 2, i) THEN 0 ELSE m[a]]
    BY DEF EnterFrame, WithZeroed, m
  <2> QED BY <2>1, <1>5
<1> HIDE DEF m
<1>7. mem' \in [Addr -> Int]
  BY <1>4, <1>6
<1>8. ASSUME NEW a \in rsp - 4 .. StackWords
      PROVE  a \in Addr /\ mem'[a] = m[a]
  BY <1>1, <1>6 DEF Addr
<1>9. \A i \in 0 .. n-1 : mem'[rsp - 2 - (i + 3)] = 0
  BY <1>1, <1>6 DEF Addr
<1>10. /\ rsp - 1 \in rsp - 4 .. StackWords /\ rsp - 2 \in rsp - 4 .. StackWords
       /\ rsp - 3 \in rsp - 4 .. StackWords /\ rsp - 4 \in rsp - 4 .. StackWords
       /\ \A a \in rsp .. StackWords : a \in rsp - 4 .. StackWords
  BY <1>1
<1> QED BY <1>4, <1>7, <1>8, <1>9, <1>10

\* What a call does to the history, in terms of the caller's state.
LEMMA EnterHistory ==
  ASSUME TypeOK, NEW kind \in {"jit", "cpp"}, NEW n \in FS!SlotCount, EnterFrame(kind, n)
  PROVE  /\ Depth \in Nat /\ Depth' = Depth + 1
         /\ frames' \in Seq(FS!Activation) /\ bases' \in Seq(Addr) /\ Len(bases') = Depth'
         /\ \A d \in 1 .. Depth : frames'[d] = frames[d] /\ bases'[d] = bases[d]
         /\ frames'[Depth + 1] = FS!NewActivation(kind, n, regs)
         /\ bases'[Depth + 1] = rsp - 2
<1>1. FS!NewActivation(kind, n, regs) \in FS!Activation
  BY NewActivationType DEF TypeOK
<1>2. rsp - 2 \in Addr
  <2>1. n \in Nat
    BY CountsAssumption DEF FS!SlotCount
  <2> QED BY <2>1, FrameWordsIs, StackAssumption DEF TypeOK, Addr, EnterFrame
<1>3. frames' = Append(frames, FS!NewActivation(kind, n, regs)) /\ bases' = Append(bases, rsp - 2)
  BY DEF EnterFrame
<1> HIDE DEF FS!NewActivation
<1>4. frames \in Seq(FS!Activation) /\ bases \in Seq(Addr) /\ Len(bases) = Len(frames)
  BY DEF TypeOK, Depth
<1>5. Len(frames') = Len(frames) + 1 /\ Len(bases') = Len(bases) + 1 /\ Len(frames) \in Nat
  BY <1>1, <1>2, <1>3, <1>4
<1>6. frames' \in Seq(FS!Activation) /\ bases' \in Seq(Addr)
  BY <1>1, <1>2, <1>3, <1>4
<1>7. /\ \A d \in 1 .. Len(frames) : frames'[d] = frames[d] /\ bases'[d] = bases[d]
      /\ frames'[Len(frames) + 1] = FS!NewActivation(kind, n, regs)
      /\ bases'[Len(frames) + 1] = rsp - 2
  BY <1>1, <1>2, <1>3, <1>4
<1> QED BY <1>4, <1>5, <1>6, <1>7 DEF Depth

LEMMA EnterInv ==
  ASSUME SmallFrames, IInv, NEW kind \in {"jit", "cpp"}, NEW n \in FS!SlotCount,
         EnterFrame(kind, n), kind = "cpp" => n = 0, regs' \in FS!Registers,
         IF kind = "jit" THEN regs'.rip = JitCode /\ regs'.rbp = rsp - 2
                         ELSE regs'.rip = CppCode
  PROVE  IInv'
<1> USE DEF IInv
<1>0. PICK new \in Nat : new = Depth + 1
  BY HistoryType
<1>1. /\ Depth \in Nat /\ Depth' = new /\ new = Depth + 1
      /\ frames' \in Seq(FS!Activation) /\ bases' \in Seq(Addr) /\ Len(bases') = Depth'
      /\ \A d \in 1 .. Depth : frames'[d] = frames[d] /\ bases'[d] = bases[d]
      /\ frames'[new] = FS!NewActivation(kind, n, regs)
      /\ bases'[new] = rsp - 2
  BY EnterHistory, <1>0
<1>2. /\ frames'[new].kind = kind /\ frames'[new].slots = n
      /\ frames'[new].locals = [k \in 1 .. n |-> 0]
      /\ frames'[new].temps = << >> /\ Len(frames'[new].temps) = 0
      /\ frames'[new].saved = regs
  BY <1>1 DEF FS!NewActivation
<1>3. /\ rsp \in Nat /\ rsp <= StackWords /\ StackWords \in Nat
      /\ n \in Nat /\ FrameWords(n) \in Nat /\ n <= FrameWords(n)
      /\ rsp' = rsp - 4 - FrameWords(n) /\ rsp' >= 0 /\ rax' = rax
  <2>1. n \in Nat
    BY CountsAssumption DEF FS!SlotCount
  <2>2. rsp \in Nat /\ rsp <= StackWords /\ StackWords \in Nat
    BY StackAssumption DEF TypeOK, Addr
  <2> QED BY <2>1, <2>2, FrameWordsIs DEF EnterFrame
<1>4. \A d \in 1 .. Depth : Low(d)' = Low(d)
  BY <1>1 DEF Low, FrameWords
<1>5. Low(new)' = rsp'
  <2>1. Low(new)' = rsp - 2 - 2 - FrameWords(n) - 0
    BY <1>1, <1>2 DEF Low, FrameWords
  <2> QED BY <2>1, <1>3
<1>6. TypeOK'
  <2>1. rsp' \in Addr /\ rax' \in Int
    BY <1>3 DEF TypeOK, Addr
  <2>2. mem' \in [Addr -> Int]
    BY EnterWrites
  <2> QED BY <1>1, <2>1, <2>2 DEF TypeOK, Addr, Depth
<1>7. FramesTile'
  <2>1. ASSUME NEW d \in 1 .. Depth
        PROVE  /\ bases[d] \in Int /\ Low(d) \in Nat /\ rsp <= Low(d)
    BY Extent
  <2>2. ASSUME NEW d \in 1 .. Depth
        PROVE  /\ bases'[d] + 2 = IF d = 1 THEN StackWords ELSE Low(d - 1)'
    <3>1. d = 1 \/ d - 1 \in 1 .. Depth
      BY <1>1
    <3>2. bases[d] + 2 = IF d = 1 THEN StackWords ELSE Low(d - 1)
      BY DEF FramesTile
    <3> QED BY <3>1, <3>2, <1>1, <1>4
  <2>3. bases'[new] + 2 = IF new = 1 THEN StackWords ELSE Low(new - 1)'
    <3>1. rsp = IF Depth = 0 THEN StackWords ELSE Low(Depth)
      BY DEF FramesTile, TypeOK, Depth
    <3>2. bases'[new] + 2 = rsp
      BY <1>1, <1>3
    <3>3. CASE Depth = 0
      BY <3>1, <3>2, <3>3, <1>1
    <3>4. CASE Depth # 0
      <4>1. Depth \in 1 .. Depth /\ new # 1 /\ new - 1 = Depth
        BY <3>4, <1>1
      <4> QED BY <4>1, <3>1, <3>2, <1>4
    <3> QED BY <3>3, <3>4
  <2>4. ASSUME NEW d \in 1 .. new, NEW e \in d + 1 .. new
        PROVE  bases'[e] + 2 <= Low(d)'
    <3>1. d \in 1 .. Depth
      BY <1>1
    <3>2. CASE e = new
      <4>1. bases'[e] + 2 = rsp
        BY <3>2, <1>1, <1>3
      <4>2. Low(d)' = Low(d) /\ rsp <= Low(d)
        BY <3>1, <2>1, <1>4
      <4> QED BY <4>1, <4>2
    <3>3. CASE e \in d + 1 .. Depth
      <4>1. bases[e] + 2 <= Low(d)
        BY <3>1, <3>3 DEF FramesTile
      <4>2. e \in 1 .. Depth
        BY <3>1, <3>3, <1>1
      <4> QED BY <4>1, <4>2, <3>1, <1>1, <1>4
    <3> QED BY <3>2, <3>3, <1>1
  <2>5. ASSUME NEW d \in 1 .. new
        PROVE  /\ 0 <= Low(d)'
               /\ frames'[d].kind = "cpp" => frames'[d].slots = 0 /\ frames'[d].temps = << >>
    <3>1. CASE d = new
      BY <3>1, <1>2, <1>3, <1>5
    <3>2. CASE d \in 1 .. Depth
      <4>1. frames[d].kind = "cpp" => frames[d].slots = 0 /\ frames[d].temps = << >>
        BY <3>2 DEF FramesTile
      <4> QED BY <4>1, <3>2, <2>1, <1>1, <1>4
    <3> QED BY <3>1, <3>2, <1>1
  <2>6. frames' # << >> /\ rsp' = Low(new)'
    BY <1>1, <1>5 DEF Depth
  <2>7. ASSUME NEW d \in 1 .. new
        PROVE  bases'[d] + 2 = IF d = 1 THEN StackWords ELSE Low(d - 1)'
    BY <2>2, <2>3, <1>1
  <2> QED BY <2>4, <2>5, <2>6, <2>7, <1>1 DEF FramesTile
<1>8. RegistersAgree'
  <2>1. RunningIn(new, regs)'
    BY <1>1, <1>2 DEF RunningIn, JitCode, CppCode
  <2>2. ASSUME NEW d \in 1 .. new
        PROVE  RunningIn(d - 1, frames[d].saved)'
    <3>1. frames'[d].saved = IF d = new THEN regs ELSE frames[d].saved
      BY <1>1, <1>2
    <3>2. RunningIn(d - 1, frames'[d].saved)
      <4>1. CASE d = new
        BY <4>1, <3>1, <1>1 DEF RegistersAgree
      <4>2. CASE d # new
        BY <4>2, <3>1, <1>1 DEF RegistersAgree
      <4> QED BY <4>1, <4>2
    <3>3. d - 1 = 0 \/ d - 1 \in 1 .. Depth
      BY <1>1
    <3> QED BY <3>2, <3>3, <1>1 DEF RunningIn, JitCode, CppCode
  <2> QED BY <2>1, <2>2, <1>1 DEF RegistersAgree
<1>9. ActivationsIntact'
  <2>1. ASSUME NEW d \in 1 .. Depth
        PROVE  Intact(d)'
    <3>0. /\ Low(d) \in Nat /\ rsp <= Low(d)
          /\ bases[d] \in Int /\ bases[d] + 2 <= StackWords
      BY Extent
    <3>1. \A a \in Low(d) .. bases[d] + 1 : a \in rsp .. StackWords
      BY <3>0, <1>3
    <3>2. \A a \in Low(d) .. bases[d] + 1 : mem'[a] = mem[a]
      BY <3>1, EnterWrites
    <3>3. Intact(d)
      BY DEF ActivationsIntact, Intact
    <3> QED BY <3>2, <3>3, <1>1, Undisturbed
  <2>2. Intact(new)'
    <3>1. /\ mem'[rsp - 1] = regs.rip /\ mem'[rsp - 2] = regs.rbp
          /\ mem'[rsp - 3] = regs.rbx /\ mem'[rsp - 4] = regs.r12
          /\ \A i \in 0 .. n-1 : mem'[rsp - 2 - (i + 3)] = 0
      BY EnterWrites
    <3>2. /\ (rsp - 2) + 1 = rsp - 1
          /\ (rsp - 2) - 1 = rsp - 3 /\ (rsp - 2) - 2 = rsp - 4
      BY <1>3
    <3>3. SavedIntact(new)'
      BY <3>1, <3>2, <1>1, <1>2 DEF SavedIntact
    <3>4. ASSUME NEW i \in 0 .. n-1
          PROVE  mem'[Slot(rsp - 2, i)] = frames'[new].locals[i + 1]
      <4>1. Slot(rsp - 2, i) = rsp - 2 - (i + 3)
        BY <1>3, SlotIs
      <4>2. i + 1 \in 1 .. n
        BY <1>3
      <4>3. frames'[new].locals[i + 1] = 0
        BY <4>2, <1>2
      <4> QED BY <4>1, <4>3, <3>1
    <3>5. LocalsIntact(new)'
      BY <3>4, <1>1, <1>2 DEF LocalsIntact, Slot
    <3>6. TempsIntact(new)'
      BY <1>2 DEF TempsIntact
    <3> QED BY <3>3, <3>5, <3>6 DEF Intact
  <2>3. \A d \in 1 .. new : Intact(d)'
    BY <2>1, <2>2, <1>1
  <2> QED BY <2>3, <1>1 DEF ActivationsIntact, Intact
<1> QED BY <1>6, <1>7, <1>8, <1>9

-------------------------------------------------------------------------------
(***************************************************************************)
(* A return: the four words popped are the ones the newest activation      *)
(* saved, and what is left is what was there before the call.              *)
(***************************************************************************)
LEMMA LeaveInv ==
  ASSUME IInv, Depth # 0, NEW low, low = bases[Depth] - 2, PopFrame(low), rax' \in Int
  PROVE  IInv' /\ regs' = frames[Depth].saved
<1> USE DEF IInv
<1>0. PICK top \in Nat : top = Depth
  BY HistoryType
<1>1. /\ top \in 1 .. Depth /\ top = Depth /\ Depth \in Nat
      /\ bases[top] \in Int /\ low = bases[top] - 2 /\ rsp' = low + 4
      /\ frames[top] \in FS!Activation /\ frames[top].saved \in FS!Registers
  BY <1>0, HistoryType, ActivationType DEF PopFrame
<1>2. regs' = frames[top].saved
  <2>1. SavedIntact(top)
    BY <1>1 DEF ActivationsIntact
  <2>2. low + 3 = bases[top] + 1 /\ low + 2 = bases[top] /\ low + 1 = bases[top] - 1
    BY <1>1
  <2>3. regs' = [rip |-> frames[top].saved.rip, rbp |-> frames[top].saved.rbp,
                 rbx |-> frames[top].saved.rbx, r12 |-> frames[top].saved.r12]
    BY <2>1, <2>2, <1>1 DEF PopFrame, SavedIntact
  <2> QED BY <2>3, <1>1 DEF FS!Registers
<1>3. /\ frames' \in Seq(FS!Activation) /\ bases' \in Seq(Addr) /\ Len(bases') = Len(frames')
      /\ Depth' = top - 1
      /\ \A d \in 1 .. top - 1 : frames'[d] = frames[d] /\ bases'[d] = bases[d]
  <2>1. frames \in Seq(FS!Activation) /\ bases \in Seq(Addr)
        /\ Len(bases) = Len(frames) /\ Len(frames) = top
    BY <1>1 DEF TypeOK, Depth
  <2>2. frames' = SubSeq(frames, 1, top - 1) /\ bases' = SubSeq(bases, 1, top - 1)
    BY <2>1 DEF PopFrame, Depth
  <2>3. 1 <= top /\ top - 1 \in Nat /\ top - 1 <= top
    BY <1>1
  <2>4. Len(frames') = top - 1 /\ Len(bases') = top - 1
    BY <2>1, <2>2, <2>3
  <2>5. frames' \in Seq(FS!Activation) /\ bases' \in Seq(Addr)
    BY <2>1, <2>2, <2>3
  <2>6. \A d \in 1 .. top - 1 : frames'[d] = frames[d] /\ bases'[d] = bases[d]
    BY <2>1, <2>2, <2>3
  <2> QED BY <2>4, <2>5, <2>6 DEF Depth
<1>4. \A d \in 1 .. top - 1 : Low(d)' = Low(d)
  BY <1>3 DEF Low, FrameWords
<1>5. TypeOK'
  <2>1. rsp' \in Addr
    <3>1. bases[top] + 2 <= StackWords /\ Low(top) \in Nat
          /\ Low(top) = bases[top] - 2 - FrameWords(frames[top].slots) - Len(frames[top].temps)
          /\ FrameWords(frames[top].slots) \in Nat
      BY <1>1, Extent
    <3>2. Len(frames[top].temps) \in Nat
      BY <1>1, ActivationType
    <3>3. rsp' = bases[top] + 2
      BY <1>1
    <3>4. 0 <= bases[top] - 2
      <4>1. bases[top] - 2 - FrameWords(frames[top].slots) - Len(frames[top].temps) \in Nat
        BY <3>1
      <4>2. bases[top] \in Int
        BY <1>1
      <4>3. \A b \in Int, f \in Nat, t \in Nat : b - 2 - f - t \in Nat => 0 <= b - 2
        OBVIOUS
      <4> QED BY <4>1, <4>2, <4>3, <3>1, <3>2
    <3>5. \A b, s \in Int : 0 <= b - 2 /\ b + 2 <= s => b + 2 \in 0 .. s
      OBVIOUS
    <3>6. bases[top] + 2 \in 0 .. StackWords
      <4>1. bases[top] \in Int /\ StackWords \in Int /\ bases[top] + 2 <= StackWords
        BY <1>1, <3>1, StackAssumption
      <4> QED BY ONLY <3>4, <3>5, <4>1
    <3> QED BY <3>3, <3>6 DEF Addr
  <2>2. mem' \in [Addr -> Int]
    BY DEF TypeOK, PopFrame
  <2>3. regs' \in FS!Registers
    BY <1>1, <1>2
  <2> QED BY <2>1, <2>2, <2>3, <1>3 DEF TypeOK, Addr, Depth
<1>6. FramesTile'
  <2>1. ASSUME NEW d \in 1 .. top - 1
        PROVE  /\ 0 <= Low(d)'
               /\ frames'[d].kind = "cpp" => frames'[d].slots = 0 /\ frames'[d].temps = << >>
               /\ bases'[d] + 2 = IF d = 1 THEN StackWords ELSE Low(d - 1)'
    <3>1. d \in 1 .. Depth /\ (d = 1 \/ d - 1 \in 1 .. top - 1)
      BY <1>1
    <3>2. /\ 0 <= Low(d)
          /\ frames[d].kind = "cpp" => frames[d].slots = 0 /\ frames[d].temps = << >>
          /\ bases[d] + 2 = IF d = 1 THEN StackWords ELSE Low(d - 1)
      BY <3>1 DEF FramesTile
    <3> QED BY <3>1, <3>2, <1>3, <1>4
  <2>2. ASSUME NEW d \in 1 .. top - 1, NEW e \in d + 1 .. top - 1
        PROVE  bases'[e] + 2 <= Low(d)'
    <3>1. d \in 1 .. Depth /\ e \in d + 1 .. Depth /\ e \in 1 .. top - 1
      BY <1>1
    <3>2. bases[e] + 2 <= Low(d)
      BY <3>1 DEF FramesTile
    <3> QED BY <3>1, <3>2, <1>3, <1>4
  <2>3. rsp' = IF frames' = << >> THEN StackWords ELSE Low(top - 1)'
    <3>1. rsp' = bases[top] + 2
      BY <1>1
    <3>2. rsp' = IF top = 1 THEN StackWords ELSE Low(top - 1)
      BY <3>1, <1>1 DEF FramesTile
    <3>3. frames' = << >> <=> top = 1
      BY <1>1, <1>3 DEF Depth
    <3>4. top # 1 => top - 1 \in 1 .. top - 1
      BY <1>1
    <3> QED BY <3>2, <3>3, <3>4, <1>4
  <2> QED BY <2>1, <2>2, <2>3, <1>3 DEF FramesTile
<1>7. RegistersAgree'
  <2>1. ASSUME NEW d \in 0 .. top - 1, NEW r
        PROVE  RunningIn(d, r) <=> RunningIn(d, r)'
    <3>1. d = 0 \/ d \in 1 .. top - 1
      BY <1>1
    <3> QED BY <3>1, <1>3 DEF RunningIn, JitCode, CppCode
  <2>2. RunningIn(top - 1, regs)'
    <3>1. RunningIn(top - 1, regs')
      BY <1>1, <1>2 DEF RegistersAgree
    <3> QED BY <3>1, <1>1, <1>2, <1>3 DEF RunningIn, JitCode, CppCode
  <2>3. ASSUME NEW d \in 1 .. top - 1
        PROVE  RunningIn(d - 1, frames[d].saved)'
    <3>1. RunningIn(d - 1, frames[d].saved) /\ frames'[d] = frames[d]
      BY <1>1, <1>3 DEF RegistersAgree
    <3>2. d - 1 = 0 \/ d - 1 \in 1 .. top - 1
      BY <1>1
    <3> QED BY <3>1, <3>2, <1>3 DEF RunningIn, JitCode, CppCode
  <2> QED BY <2>2, <2>3, <1>3 DEF RegistersAgree
<1>8. ActivationsIntact'
  <2>1. ASSUME NEW d \in 1 .. top - 1
        PROVE  Intact(d)'
    <3>1. d \in 1 .. Depth /\ Intact(d)
      BY <1>1 DEF ActivationsIntact, Intact
    <3>2. mem' = mem
      BY DEF PopFrame
    <3> QED BY <3>1, <3>2, <1>3, Undisturbed
  <2> QED BY <2>1, <1>3 DEF ActivationsIntact, Intact
<1> QED BY <1>1, <1>2, <1>5, <1>6, <1>7, <1>8

-------------------------------------------------------------------------------
(***************************************************************************)
(* Steps inside the newest activation.                                     *)
(***************************************************************************)
\* Compiled code runs in the newest activation, with rbp at its base.
LEMMA RunningJit ==
  ASSUME IInv, regs.rip = JitCode
  PROVE  /\ Depth \in 1 .. Depth /\ Depth \in Nat /\ frames # << >>
         /\ frames[Depth] \in FS!Activation /\ frames[Depth].kind = "jit"
         /\ bases[Depth] \in Int /\ regs.rbp = bases[Depth]
         /\ rsp = Low(Depth)
<1> USE DEF IInv
<1>1. Depth > 0 /\ frames[Depth].kind = "jit" /\ regs.rbp = bases[Depth]
  BY DEF RegistersAgree, RunningIn, JitCode, CppCode
<1>2. Depth \in 1 .. Depth /\ Depth \in Nat
  BY <1>1, HistoryType
<1>3. frames # << >>
  BY <1>1 DEF Depth
<1>4. frames[Depth] \in FS!Activation /\ bases[Depth] \in Int
  BY <1>2, HistoryType
<1> QED BY <1>1, <1>2, <1>3, <1>4 DEF FramesTile

\* C++ code that was called runs in the newest activation, and rsp is where that
\* activation's saved words begin.
LEMMA RunningCpp ==
  ASSUME IInv, regs.rip = CppCode, frames # << >>
  PROVE  Depth # 0 /\ frames[Depth].kind = "cpp" /\ rsp = bases[Depth] - 2
<1> USE DEF IInv
<1>1. Depth # 0 /\ Depth \in Nat /\ Depth \in 1 .. Depth
  <2>1. Depth # 0
    BY DEF Depth, TypeOK
  <2> QED BY <2>1, HistoryType
<1>2. frames[Depth] \in FS!Activation /\ bases[Depth] \in Int
  BY <1>1, HistoryType
<1>3. frames[Depth].kind \in {"jit", "cpp"}
  BY <1>2, ActivationType
<1>4. frames[Depth].kind = "cpp"
  BY <1>1, <1>3 DEF RegistersAgree, RunningIn, JitCode, CppCode
<1>5. frames[Depth].slots = 0 /\ frames[Depth].temps = << >> /\ rsp = Low(Depth)
  BY <1>1, <1>4 DEF FramesTile
<1>6. FrameWords(0) = 0 /\ Len(frames[Depth].temps) = 0
  BY <1>5 DEF FrameWords
<1> QED BY <1>1, <1>2, <1>4, <1>5, <1>6 DEF Low

\* Replacing the newest activation by one of the same extent and origin.
LEMMA TopInv ==
  ASSUME IInv, regs.rip = JitCode, NEW top, top = Depth,
         NEW a \in FS!Activation, a.kind = frames[top].kind,
         a.slots = frames[top].slots, a.saved = frames[top].saved,
         frames' = FS!WithTop(a), bases' = bases,
         rsp' = bases[top] - 2 - FrameWords(a.slots) - Len(a.temps), rsp' >= 0,
         mem' \in [Addr -> Int], rax' \in Int, regs' \in FS!Registers,
         regs'.rip = regs.rip, regs'.rbp = regs.rbp,
         \A x \in bases[top] + 2 .. StackWords : mem'[x] = mem[x],
         Intact(top)'
  PROVE  IInv'
<1> USE DEF IInv
<1>1. /\ top \in 1 .. top /\ top \in Nat /\ frames[top].kind = "jit"
      /\ frames[top] \in FS!Activation
      /\ bases[top] \in Int /\ regs.rbp = bases[top]
  BY RunningJit
<1>2. /\ frames' \in Seq(FS!Activation) /\ Len(frames') = top /\ frames' # << >>
      /\ frames'[top] = a
      /\ \A d \in 1 .. top - 1 : frames'[d] = frames[d]
  <2>1. frames \in Seq(FS!Activation) /\ Len(frames) = top
    BY DEF TypeOK, Depth
  <2>2. frames' = [frames EXCEPT ![top] = a]
    BY <2>1 DEF FS!WithTop
  <2> QED BY <2>1, <2>2, <1>1
<1>3. Depth' = top
  BY <1>2 DEF Depth
<1>4. /\ \A d \in 1 .. top - 1 : Low(d)' = Low(d)
      /\ Low(top)' = rsp'
  BY <1>1, <1>2 DEF Low, FrameWords
<1>5. FrameWords(a.slots) \in Nat /\ Len(a.temps) \in Nat
  BY ActivationType, FrameWordsIs
<1>6. TypeOK'
  <2>1. rsp' \in Addr
    <3>1. bases[top] + 2 <= StackWords
      BY <1>1, Extent
    <3> QED BY <3>1, <1>1, <1>5, StackAssumption DEF Addr
  <2> QED BY <2>1, <1>2 DEF TypeOK, Addr, Depth
<1>7. FramesTile'
  <2>1. ASSUME NEW d \in 1 .. top
        PROVE  /\ 0 <= Low(d)'
               /\ frames'[d].kind = "cpp" => frames'[d].slots = 0 /\ frames'[d].temps = << >>
               /\ bases'[d] + 2 = IF d = 1 THEN StackWords ELSE Low(d - 1)'
    <3>1. d \in 1 .. Depth /\ (d = 1 \/ d - 1 \in 1 .. top - 1)
      BY <1>1
    <3>2. /\ 0 <= Low(d)
          /\ frames[d].kind = "cpp" => frames[d].slots = 0 /\ frames[d].temps = << >>
          /\ bases[d] + 2 = IF d = 1 THEN StackWords ELSE Low(d - 1)
      BY <3>1 DEF FramesTile
    <3>3. bases'[d] + 2 = IF d = 1 THEN StackWords ELSE Low(d - 1)'
      BY <3>1, <3>2, <1>4
    <3>4. CASE d = top
      BY <3>4, <3>3, <1>1, <1>2, <1>4
    <3>5. CASE d \in 1 .. top - 1
      BY <3>5, <3>2, <3>3, <1>2, <1>4
    <3> QED BY <3>4, <3>5, <1>1
  <2>2. ASSUME NEW d \in 1 .. top, NEW e \in d + 1 .. top
        PROVE  bases'[e] + 2 <= Low(d)'
    <3>1. d \in 1 .. Depth /\ e \in d + 1 .. Depth /\ d \in 1 .. top - 1
      BY <1>1
    <3>2. bases[e] + 2 <= Low(d)
      BY <3>1 DEF FramesTile
    <3> QED BY <3>1, <3>2, <1>4
  <2> QED BY <2>1, <2>2, <1>2, <1>3, <1>4 DEF FramesTile
<1>8. RegistersAgree'
  <2>1. \A d \in 1 .. top : frames'[d].kind = frames[d].kind /\ frames'[d].saved = frames[d].saved
    <3> TAKE d \in 1 .. top
    <3>1. CASE d = top
      BY <3>1, <1>2
    <3>2. CASE d \in 1 .. top - 1
      BY <3>2, <1>2
    <3> QED BY <3>1, <3>2, <1>1
  <2>2. RunningIn(top, regs)'
    BY <2>1, <1>1 DEF RunningIn, RegistersAgree, JitCode, CppCode
  <2>3. ASSUME NEW d \in 1 .. top
        PROVE  RunningIn(d - 1, frames[d].saved)'
    <3>1. RunningIn(d - 1, frames[d].saved)
      BY DEF RegistersAgree
    <3>2. d - 1 = 0 \/ d - 1 \in 1 .. top
      BY <1>1
    <3> QED BY <3>1, <3>2, <2>1 DEF RunningIn, JitCode, CppCode
  <2> QED BY <2>2, <2>3, <1>3 DEF RegistersAgree
<1>9. ActivationsIntact'
  <2>1. ASSUME NEW d \in 1 .. top - 1
        PROVE  Intact(d)'
    <3>1. d \in 1 .. Depth /\ top \in d + 1 .. Depth
      BY <1>1
    <3>2. bases[top] + 2 <= Low(d) /\ Low(d) \in Nat
          /\ bases[d] \in Int /\ bases[d] + 2 <= StackWords
      BY <3>1, Extent DEF FramesTile
    <3>3. \A x \in Low(d) .. bases[d] + 1 : x \in bases[top] + 2 .. StackWords
      BY <3>2, <1>1, StackAssumption
    <3>4. \A x \in Low(d) .. bases[d] + 1 : mem'[x] = mem[x]
      BY <3>3
    <3>5. Intact(d)
      BY <3>1 DEF ActivationsIntact, Intact
    <3> QED BY <3>1, <3>4, <3>5, <1>2, Undisturbed
  <2>2. \A d \in 1 .. top : Intact(d)'
    BY <2>1, <1>1
  <2> QED BY <2>2, <1>3 DEF ActivationsIntact, Intact
<1> QED BY <1>6, <1>7, <1>8, <1>9

\* An activation's words, by role: those saved on entry, the locals, the pushed
\* temporaries.  No local shares a word with anything else.
LaidOut(b, w, n, t, low) ==
  /\ \A x \in low .. StackWords : x \in Addr
  /\ \A k \in -1 .. 2 : b - k \in low .. StackWords
  /\ \A k \in 0 .. n-1 : k \in Nat /\ b - (k + 3) \in low .. StackWords
  /\ \A j \in 1 .. t : b - 2 - w - j \in low .. StackWords
  /\ b - 2 - w - (t + 1) = low - 1
  /\ \A x \in b + 2 .. StackWords : x \in low .. StackWords
  /\ \A i \in 0 .. n-1 :
       /\ \A k \in -1 .. 2 : b - k # b - (i + 3)
       /\ \A k \in 0 .. n-1 : k # i => b - (k + 3) # b - (i + 3)
       /\ \A j \in 1 .. t : b - 2 - w - j # b - (i + 3)
       /\ \A x \in b + 2 .. StackWords : x # b - (i + 3)

LEMMA Layout ==
  ASSUME NEW b \in Int, NEW w \in Nat, NEW n \in Nat, n <= w, NEW t \in Nat,
         NEW low \in Nat, low = b - 2 - w - t, b + 2 <= StackWords
  PROVE  LaidOut(b, w, n, t, low)
BY StackAssumption DEF LaidOut, Addr

LEMMA LayoutOf ==
  ASSUME TypeOK, FramesTile, NEW d \in 1 .. Depth,
         NEW b, b = bases[d], NEW w, w = FrameWords(frames[d].slots),
         NEW n, n = frames[d].slots, NEW t, t = Len(frames[d].temps), NEW low, low = Low(d)
  PROVE  /\ b \in Int /\ w \in Nat /\ n \in Nat /\ n <= w /\ t \in Nat
         /\ low \in Nat /\ low = b - 2 - w - t /\ b + 2 <= StackWords
BY Extent, ActivationType

LEMMA StoreLocalInv ==
  ASSUME IInv, NEW i \in Slots, emitStoreLocal(i)
  PROVE  IInv'
<1> USE DEF IInv
<1>0. PICK top : top = Depth
  OBVIOUS
<1>1. /\ regs.rip = JitCode /\ top \in 1 .. Depth
      /\ frames[top] \in FS!Activation /\ regs.rbp = bases[top] /\ rsp = Low(top)
  BY <1>0, RunningJit DEF emitStoreLocal
<1>2. PICK b, w, n, t :
        /\ b = bases[top] /\ w = FrameWords(frames[top].slots)
        /\ n = frames[top].slots /\ t = Len(frames[top].temps)
  OBVIOUS
<1>3. /\ b \in Int /\ w \in Nat /\ n \in Nat /\ n <= w /\ t \in Nat
      /\ rsp \in Nat /\ rsp = b - 2 - w - t /\ b + 2 <= StackWords
  BY <1>0, <1>1, <1>2, LayoutOf
<1>L. LaidOut(b, w, n, t, rsp)
  BY <1>3, Layout
<1>4. /\ i \in 0 .. n-1 /\ frames[top].locals \in Seq(Int) /\ Len(frames[top].locals) = n
      /\ Slot(b, i) = b - (i + 3)
  <2>1. i \in Nat /\ i < n
    BY <1>0, <1>2, StackAssumption DEF emitStoreLocal, Top
  <2>2. frames[top].locals \in Seq(Int) /\ Len(frames[top].locals) = n
    BY <1>1, <1>2, ActivationType
  <2>3. i \in 0 .. n-1
    BY <2>1, <1>3
  <2> QED BY <2>1, <2>2, <2>3, <1>3, SlotIs
<1>5. PICK a : a = [frames[top] EXCEPT !.locals = [@ EXCEPT ![i + 1] = rax]]
  OBVIOUS
<1>6. /\ a \in FS!Activation /\ a.kind = frames[top].kind /\ a.slots = n
      /\ a.saved = frames[top].saved /\ a.temps = frames[top].temps
      /\ a.locals = [frames[top].locals EXCEPT ![i + 1] = rax]
  <2>1. rax \in Int
    BY DEF TypeOK
  <2>2. [frames[top].locals EXCEPT ![i + 1] = rax] \in Seq(Int)
       /\ Len([frames[top].locals EXCEPT ![i + 1] = rax]) = n
    BY <2>1, <1>4
  <2> QED BY <1>1, <1>2, <1>5, <2>2 DEF FS!Activation
<1>7. /\ mem' = [mem EXCEPT ![b - (i + 3)] = rax]
      /\ frames' = FS!WithTop(a)
      /\ rsp' = rsp /\ rax' = rax /\ regs' = regs /\ bases' = bases
  BY <1>0, <1>1, <1>2, <1>4, <1>5 DEF emitStoreLocal, Top, FS!WithTop
<1>8. mem \in [Addr -> Int] /\ mem' \in [Addr -> Int] /\ rax \in Int
  BY <1>7 DEF TypeOK
<1>9. \A x \in rsp .. StackWords : x # b - (i + 3) => mem'[x] = mem[x]
  BY <1>L, <1>3, <1>7, <1>8 DEF LaidOut
<1>10. Intact(top)'
  <2>1. frames'[top] = a
    BY <1>0, <1>1, <1>7 DEF TypeOK, Depth, FS!WithTop
  <2>2. Intact(top)
    BY <1>0, <1>1 DEF ActivationsIntact, Intact
  <2>3. SavedIntact(top)'
    <3>1. \A k \in -1 .. 2 : mem'[b - k] = mem[b - k]
      BY <1>L, <1>3, <1>4, <1>9 DEF LaidOut
    <3>2. /\ mem'[b + 1] = mem[b + 1] /\ mem'[b] = mem[b]
          /\ mem'[b - 1] = mem[b - 1] /\ mem'[b - 2] = mem[b - 2]
      BY <3>1, <1>3
    <3> QED BY <3>2, <2>1, <2>2, <1>2, <1>6, <1>7 DEF Intact, SavedIntact
  <2>4. ASSUME NEW k \in 0 .. n-1
        PROVE  mem'[Slot(b, k)] = a.locals[k + 1]
    <3>1. k \in Nat /\ b - (k + 3) \in rsp .. StackWords /\ b - (k + 3) \in Addr
      BY <1>L, <1>3 DEF LaidOut
    <3>2. Slot(b, k) = b - (k + 3)
      BY <3>1, <1>3, SlotIs
    <3>3. mem[Slot(b, k)] = frames[top].locals[k + 1]
      BY <2>2, <1>2 DEF Intact, LocalsIntact
    <3>4. CASE k = i
      BY <3>1, <3>2, <3>4, <1>4, <1>6, <1>7, <1>8
    <3>5. CASE k # i
      <4>1. b - (k + 3) # b - (i + 3)
        BY <3>1, <3>5, <1>3, <1>4
      <4> QED BY <4>1, <3>1, <3>2, <3>3, <3>5, <1>4, <1>6, <1>9
    <3> QED BY <3>4, <3>5
  <2>5. LocalsIntact(top)'
    BY <2>1, <2>4, <1>2, <1>6, <1>7 DEF LocalsIntact, Slot
  <2>6. ASSUME NEW j \in 1 .. t
        PROVE  mem'[b - 2 - w - j] = frames[top].temps[j]
    <3>1. b - 2 - w - j \in rsp .. StackWords /\ b - 2 - w - j # b - (i + 3)
      BY <1>L, <1>3, <1>4 DEF LaidOut
    <3>2. mem[b - 2 - w - j] = frames[top].temps[j]
      BY <2>2, <1>2 DEF Intact, TempsIntact
    <3> QED BY <3>1, <3>2, <1>9
  <2>7. TempsIntact(top)'
    BY <2>1, <2>6, <1>2, <1>6, <1>7 DEF TempsIntact, FrameWords
  <2> QED BY <2>3, <2>5, <2>7 DEF Intact
<1>11. \A x \in b + 2 .. StackWords : mem'[x] = mem[x]
  BY <1>L, <1>3, <1>4, <1>9 DEF LaidOut
<1>12. /\ rsp' = b - 2 - FrameWords(a.slots) - Len(a.temps) /\ rsp' >= 0
       /\ rax' \in Int /\ regs' \in FS!Registers
  BY <1>2, <1>3, <1>6, <1>7, <1>8 DEF TypeOK
<1> QED BY <1>0, <1>1, <1>2, <1>6, <1>7, <1>8, <1>10, <1>11, <1>12, TopInv

LEMMA PushInv ==
  ASSUME IInv, emitPush
  PROVE  IInv'
<1> USE DEF IInv
<1>0. PICK top : top = Depth
  OBVIOUS
<1>1. /\ regs.rip = JitCode /\ top \in 1 .. Depth
      /\ frames[top] \in FS!Activation /\ rsp = Low(top)
  BY <1>0, RunningJit DEF emitPush
<1>2. PICK b, w, n, t :
        /\ b = bases[top] /\ w = FrameWords(frames[top].slots)
        /\ n = frames[top].slots /\ t = Len(frames[top].temps)
  OBVIOUS
<1>3. /\ b \in Int /\ w \in Nat /\ n \in Nat /\ n <= w /\ t \in Nat
      /\ rsp \in Nat /\ rsp = b - 2 - w - t /\ b + 2 <= StackWords /\ rsp > 0
  BY <1>0, <1>1, <1>2, LayoutOf DEF emitPush
<1>L. LaidOut(b, w, n, t, rsp)
  BY <1>3, Layout
<1>4. PICK a : a = [frames[top] EXCEPT !.temps = Append(@, rax)]
  OBVIOUS
<1>5. /\ a \in FS!Activation /\ a.kind = frames[top].kind /\ a.slots = n
      /\ a.saved = frames[top].saved /\ a.locals = frames[top].locals
      /\ Len(a.temps) = t + 1 /\ a.temps[t + 1] = rax
      /\ \A j \in 1 .. t : a.temps[j] = frames[top].temps[j]
  <2>1. rax \in Int /\ frames[top].temps \in Seq(Int)
    BY <1>1, ActivationType DEF TypeOK
  <2>2. PICK s : s = Append(frames[top].temps, rax)
    OBVIOUS
  <2>3. /\ s \in Seq(Int) /\ Len(s) = t + 1 /\ s[t + 1] = rax
        /\ \A j \in 1 .. t : s[j] = frames[top].temps[j]
    BY <2>1, <2>2, <1>2
  <2> QED BY <1>1, <1>2, <1>4, <2>2, <2>3 DEF FS!Activation
<1>6. /\ mem' = [mem EXCEPT ![rsp - 1] = rax] /\ rsp' = rsp - 1
      /\ frames' = FS!WithTop(a)
      /\ rax' = rax /\ regs' = regs /\ bases' = bases
  BY <1>0, <1>4 DEF emitPush, Top, FS!WithTop
<1>7. mem \in [Addr -> Int] /\ mem' \in [Addr -> Int] /\ rax \in Int
  BY <1>6 DEF TypeOK
<1>8. \A x \in rsp .. StackWords : mem'[x] = mem[x]
  <2>1. \A x \in rsp .. StackWords : x \in Addr /\ x # rsp - 1
    BY <1>L, <1>3 DEF LaidOut
  <2> QED BY <2>1, <1>6, <1>7
<1>9. Intact(top)'
  <2>1. frames'[top] = a
    BY <1>0, <1>1, <1>6 DEF TypeOK, Depth, FS!WithTop
  <2>2. Intact(top)
    BY <1>0, <1>1 DEF ActivationsIntact, Intact
  <2>3. SavedIntact(top)'
    <3>1. \A k \in -1 .. 2 : mem'[b - k] = mem[b - k]
      BY <1>L, <1>3, <1>8 DEF LaidOut
    <3>2. /\ mem'[b + 1] = mem[b + 1] /\ mem'[b] = mem[b]
          /\ mem'[b - 1] = mem[b - 1] /\ mem'[b - 2] = mem[b - 2]
      BY <3>1, <1>3
    <3> QED BY <3>2, <2>1, <2>2, <1>2, <1>5, <1>6 DEF Intact, SavedIntact
  <2>4. ASSUME NEW k \in 0 .. n-1
        PROVE  mem'[Slot(b, k)] = frames[top].locals[k + 1]
    <3>1. k \in Nat /\ b - (k + 3) \in rsp .. StackWords
      BY <1>L, <1>3 DEF LaidOut
    <3>2. Slot(b, k) = b - (k + 3)
      BY <3>1, <1>3, SlotIs
    <3>3. mem[Slot(b, k)] = frames[top].locals[k + 1]
      BY <2>2, <1>2 DEF Intact, LocalsIntact
    <3> QED BY <3>1, <3>2, <3>3, <1>8
  <2>5. LocalsIntact(top)'
    BY <2>1, <2>4, <1>2, <1>5, <1>6 DEF LocalsIntact, Slot
  <2>6. ASSUME NEW j \in 1 .. t + 1
        PROVE  mem'[b - 2 - w - j] = a.temps[j]
    <3>1. CASE j = t + 1
      <4>1. b - 2 - w - j = rsp - 1 /\ rsp - 1 \in Addr
        BY <3>1, <1>3, StackAssumption DEF Addr
      <4> QED BY <3>1, <4>1, <1>5, <1>6, <1>7
    <3>2. CASE j \in 1 .. t
      <4>1. b - 2 - w - j \in rsp .. StackWords
        BY <1>L, <3>2, <1>3 DEF LaidOut
      <4>2. mem[b - 2 - w - j] = frames[top].temps[j]
        BY <3>2, <2>2, <1>2 DEF Intact, TempsIntact
      <4> QED BY <4>1, <4>2, <3>2, <1>5, <1>8
    <3> QED BY <3>1, <3>2, <1>3
  <2>7. TempsIntact(top)'
    BY <2>1, <2>6, <1>2, <1>5, <1>6 DEF TempsIntact, FrameWords
  <2> QED BY <2>3, <2>5, <2>7 DEF Intact
<1>10. \A x \in b + 2 .. StackWords : mem'[x] = mem[x]
  BY <1>L, <1>3, <1>8 DEF LaidOut
<1>11. /\ rsp' = b - 2 - FrameWords(a.slots) - Len(a.temps) /\ rsp' >= 0
       /\ rax' \in Int /\ regs' \in FS!Registers
  <2>1. FrameWords(a.slots) = w /\ Len(a.temps) = t + 1
    BY <1>2, <1>5
  <2>2. rsp' = b - 2 - w - (t + 1) /\ rsp' >= 0
    BY <1>3, <1>6
  <2> QED BY <2>1, <2>2, <1>6, <1>7 DEF TypeOK
<1> QED BY <1>0, <1>1, <1>2, <1>5, <1>6, <1>7, <1>9, <1>10, <1>11, TopInv

\* pop rbx gives back the temporary pushed last.
LEMMA PopInv ==
  ASSUME IInv, emitPop
  PROVE  IInv' /\ regs'.rbx = Top.temps[Len(Top.temps)]
<1> USE DEF IInv
<1>0. PICK top : top = Depth
  OBVIOUS
<1>1. /\ regs.rip = JitCode /\ top \in 1 .. Depth
      /\ frames[top] \in FS!Activation /\ rsp = Low(top)
  BY <1>0, RunningJit DEF emitPop
<1>2. PICK b, w, n, t :
        /\ b = bases[top] /\ w = FrameWords(frames[top].slots)
        /\ n = frames[top].slots /\ t = Len(frames[top].temps)
  OBVIOUS
<1>3. /\ b \in Int /\ w \in Nat /\ n \in Nat /\ n <= w /\ t \in Nat
      /\ rsp \in Nat /\ rsp = b - 2 - w - t /\ b + 2 <= StackWords
  BY <1>0, <1>1, <1>2, LayoutOf
<1>4. t # 0 /\ frames[top].temps \in Seq(Int)
  <2>1. frames[top].temps \in Seq(Int) /\ frames[top].temps # << >>
    BY <1>0, <1>1, ActivationType DEF emitPop, Top
  <2> QED BY <2>1, <1>2
<1>5. PICK a : a = [frames[top] EXCEPT !.temps = SubSeq(@, 1, t - 1)]
  OBVIOUS
<1>6. /\ a \in FS!Activation /\ a.kind = frames[top].kind /\ a.slots = n
      /\ a.saved = frames[top].saved /\ a.locals = frames[top].locals
      /\ Len(a.temps) = t - 1
      /\ \A j \in 1 .. t - 1 : a.temps[j] = frames[top].temps[j]
  <2>1. PICK s : s = SubSeq(frames[top].temps, 1, t - 1)
    OBVIOUS
  <2>2. t - 1 \in Nat /\ t - 1 <= t
    BY <1>3, <1>4
  <2>3. /\ s \in Seq(Int) /\ Len(s) = t - 1
        /\ \A j \in 1 .. t - 1 : s[j] = frames[top].temps[j]
    BY <2>1, <2>2, <1>2, <1>4
  <2> QED BY <1>1, <1>2, <1>5, <2>1, <2>3 DEF FS!Activation
<1>7. /\ regs' = [regs EXCEPT !.rbx = mem[rsp]] /\ rsp' = rsp + 1
      /\ frames' = FS!WithTop(a)
      /\ mem' = mem /\ rax' = rax /\ bases' = bases
  BY <1>0, <1>2, <1>5 DEF emitPop, Top, FS!WithTop
<1>8. mem[rsp] = frames[top].temps[t] /\ mem[rsp] \in Int
  <2>1. TempsIntact(top)
    BY <1>0, <1>1 DEF ActivationsIntact
  <2>2. t \in 1 .. t /\ b - 2 - w - t = rsp
    BY <1>3, <1>4
  <2>3. mem[b - 2 - w - t] = frames[top].temps[t]
    BY <2>1, <2>2, <1>2 DEF TempsIntact
  <2> QED BY <2>2, <2>3 DEF TypeOK
<1>9. /\ regs' \in FS!Registers /\ regs'.rip = regs.rip /\ regs'.rbp = regs.rbp
      /\ regs'.rbx = frames[top].temps[t]
  BY <1>7, <1>8 DEF TypeOK, FS!Registers
<1>10. Intact(top)'
  <2>1. frames'[top] = a
    BY <1>0, <1>1, <1>7 DEF TypeOK, Depth, FS!WithTop
  <2>2. Intact(top)
    BY <1>0, <1>1 DEF ActivationsIntact, Intact
  <2>3. SavedIntact(top)'
    BY <2>1, <2>2, <1>6, <1>7 DEF Intact, SavedIntact
  <2>4. LocalsIntact(top)'
    BY <2>1, <2>2, <1>2, <1>6, <1>7 DEF Intact, LocalsIntact, Slot
  <2>5. ASSUME NEW j \in 1 .. t - 1
        PROVE  mem[b - 2 - w - j] = a.temps[j]
    <3>1. j \in 1 .. t
      BY <1>3
    <3>2. mem[b - 2 - w - j] = frames[top].temps[j]
      BY <3>1, <2>2, <1>2 DEF Intact, TempsIntact
    <3> QED BY <3>2, <1>6
  <2>6. TempsIntact(top)'
    BY <2>1, <2>5, <1>2, <1>6, <1>7 DEF TempsIntact, FrameWords
  <2> QED BY <2>3, <2>4, <2>6 DEF Intact
<1>11. /\ rsp' = b - 2 - FrameWords(a.slots) - Len(a.temps) /\ rsp' >= 0
  <2>1. FrameWords(a.slots) = w /\ Len(a.temps) = t - 1
    BY <1>2, <1>6
  <2> QED BY <2>1, <1>3, <1>7
<1>12. mem' \in [Addr -> Int] /\ rax' \in Int
  BY <1>7 DEF TypeOK
<1>13. IInv'
  BY <1>0, <1>1, <1>2, <1>6, <1>7, <1>9, <1>10, <1>11, <1>12, TopInv
<1> QED BY <1>0, <1>2, <1>9, <1>13 DEF Top

\* Loads touch rax only; a local is read where its last store wrote it.
LEMMA RaxInv ==
  ASSUME IInv, rax' \in Int, UNCHANGED << mem, rsp, regs, frames, bases >>
  PROVE  IInv'
<1>1. TypeOK'
  BY DEF IInv, TypeOK, Addr, Depth
<1>2. FramesTile'
  BY DEF IInv, FramesTile, Low, FrameWords, Depth
<1>3. RegistersAgree'
  BY DEF IInv, RegistersAgree, RunningIn, Depth, JitCode, CppCode
<1>4. ActivationsIntact'
  BY DEF IInv, ActivationsIntact, SavedIntact, LocalsIntact, TempsIntact, Slot, FrameWords, Depth
<1> QED BY <1>1, <1>2, <1>3, <1>4 DEF IInv

LEMMA LoadLocalValue ==
  ASSUME IInv, NEW i \in Slots, emitLoadLocal(i)
  PROVE  /\ i \in 0 .. Top.slots - 1
         /\ rax' = Top.locals[i + 1] /\ rax' \in Int
<1> USE DEF IInv
<1>0. PICK top : top = Depth
  OBVIOUS
<1>1. /\ top \in 1 .. Depth /\ regs.rbp = bases[top] /\ frames[top] \in FS!Activation
  BY <1>0, RunningJit DEF emitLoadLocal
<1>2. /\ frames[top].slots \in Nat
      /\ frames[top].locals \in Seq(Int) /\ Len(frames[top].locals) = frames[top].slots
  BY <1>1, ActivationType
<1>3. i \in Nat /\ i < frames[top].slots
  BY <1>0, StackAssumption DEF emitLoadLocal, Top
<1>4. i \in 0 .. frames[top].slots - 1
  BY <1>2, <1>3
<1>5. LocalsIntact(top)
  BY <1>0, <1>1 DEF ActivationsIntact
<1>6. mem[Slot(bases[top], i)] = frames[top].locals[i + 1]
  BY <1>4, <1>5 DEF LocalsIntact
<1> QED BY <1>0, <1>1, <1>2, <1>4, <1>6 DEF emitLoadLocal, Top

-------------------------------------------------------------------------------
(***************************************************************************)
(* The invariant holds, and every step is a step of FrameStack.            *)
(***************************************************************************)
LEMMA InitInv ==
  ASSUME Init
  PROVE  IInv
<1>1. Depth = 0 /\ frames = << >> /\ bases = << >>
  BY DEF Init, Depth
<1>2. TypeOK
  <2>1. mem \in [Addr -> Int] /\ rsp \in Addr /\ rax \in Int
    BY StackAssumption DEF Init, Addr
  <2>2. regs \in FS!Registers
    BY ValueAssumption DEF Init, FS!Registers, CppCode
  <2> QED BY <1>1, <2>1, <2>2 DEF TypeOK
<1>3. FramesTile
  BY <1>1 DEF Init, FramesTile
<1>4. RegistersAgree
  BY <1>1 DEF Init, RegistersAgree, RunningIn
<1>5. ActivationsIntact
  BY <1>1 DEF ActivationsIntact
<1> QED BY <1>2, <1>3, <1>4, <1>5 DEF IInv

\* What each action does, in FrameStack's terms.
LEMMA PrologueStep ==
  ASSUME SmallFrames, IInv, NEW n \in LocalCounts, NEW rdi \in Value, emitPrologue(n, rdi)
  PROVE  IInv' /\ FS!EnterCompiled
<1>1. n \in FS!SlotCount /\ EnterFrame("jit", n) /\ regs.rip = CppCode
  BY DEF FS!SlotCount, emitPrologue
<1>2. regs' \in FS!Registers /\ regs'.rip = JitCode /\ regs'.rbp = rsp - 2
  <2>1. rsp - 2 \in Int /\ regs.rbx \in Int /\ rdi \in Int
    BY ValueAssumption, StackAssumption DEF IInv, TypeOK, FS!Registers, Addr
  <2> QED BY <2>1 DEF emitPrologue, FS!Registers, JitCode
<1>3. IInv'
  BY <1>1, <1>2, EnterInv
<1>4. FS!InCpp
  BY <1>1, RunningCpp DEF FS!InCpp, FS!Top, Depth
<1>5. FS!Enter("jit", n)
  BY <1>1, <1>2 DEF EnterFrame, FS!Enter, Depth
<1> QED BY <1>3, <1>4, <1>5 DEF FS!EnterCompiled

LEMMA CallRuntimeStep ==
  ASSUME SmallFrames, IInv, NEW v \in Value, emitCallRuntime(v)
  PROVE  IInv' /\ FS!CallRuntime
<1>1. 0 \in FS!SlotCount /\ EnterFrame("cpp", 0) /\ regs.rip = JitCode
  BY DEF FS!SlotCount, emitCallRuntime
<1>2. regs' \in FS!Registers /\ regs'.rip = CppCode
  BY ValueAssumption DEF emitCallRuntime, FS!Registers, CppCode
<1>3. IInv'
  BY <1>1, <1>2, EnterInv
<1>4. FS!InJit
  BY <1>1, RunningJit DEF FS!InJit, FS!Top, Depth
<1>5. FS!Enter("cpp", 0)
  BY <1>1, <1>2 DEF EnterFrame, FS!Enter, Depth
<1> QED BY <1>3, <1>4, <1>5 DEF FS!CallRuntime

LEMMA EpilogueStep ==
  ASSUME IInv, emitEpilogue
  PROVE  IInv' /\ FS!ReturnCompiled
<1>1. /\ Depth # 0 /\ frames # << >> /\ frames[Depth].kind = "jit"
      /\ regs.rbp = bases[Depth] /\ Depth \in Nat
  <2>1. regs.rip = JitCode
    BY DEF emitEpilogue
  <2>2. frames # << >> /\ frames[Depth].kind = "jit" /\ regs.rbp = bases[Depth]
    BY <2>1, RunningJit
  <2>3. Depth \in 1 .. Depth /\ Depth \in Nat
    BY <2>1, RunningJit
  <2> QED BY <2>2, <2>3
<1>2. PICK low : low = bases[Depth] - 2
  OBVIOUS
<1>3. PopFrame(low) /\ rax' = rax /\ rax' \in Int
  BY <1>1, <1>2 DEF emitEpilogue, EpilogueLow, IInv, TypeOK
<1>4. IInv' /\ regs' = frames[Depth].saved
  BY <1>1, <1>2, <1>3, LeaveInv
<1>5. FS!InJit /\ FS!Top.temps = << >>
  BY <1>1 DEF FS!InJit, FS!Top, Depth, Top, emitEpilogue
<1>6. FS!Leave
  BY <1>1, <1>3, <1>4 DEF FS!Leave, FS!Top, FS!Outer, PopFrame, Depth
<1> QED BY <1>3, <1>4, <1>5, <1>6 DEF FS!ReturnCompiled

LEMMA RuntimeReturnStep ==
  ASSUME IInv, NEW v \in Value, RuntimeReturn(v)
  PROVE  IInv' /\ FS!ReturnRuntime
<1>1. Depth # 0 /\ frames # << >> /\ frames[Depth].kind = "cpp" /\ rsp = bases[Depth] - 2
  BY RunningCpp DEF RuntimeReturn
<1>2. PICK low : low = rsp
  OBVIOUS
<1>3. PopFrame(low) /\ rax' \in Int /\ low = bases[Depth] - 2
  BY <1>1, <1>2, ValueAssumption DEF RuntimeReturn
<1>4. IInv' /\ regs' = frames[Depth].saved
  BY <1>1, <1>3, LeaveInv
<1>5. FS!InCpp
  BY <1>1 DEF FS!InCpp, FS!Top, Depth
<1>6. FS!Leave
  BY <1>1, <1>3, <1>4 DEF FS!Leave, FS!Top, FS!Outer, PopFrame, Depth
<1> QED BY <1>3, <1>4, <1>5, <1>6 DEF FS!ReturnRuntime

LEMMA LoadImmediateStep ==
  ASSUME IInv, NEW v \in Value, emitLoadImmediate(v)
  PROVE  IInv' /\ FS!LoadImmediate
<1>1. IInv'
  BY ValueAssumption, RaxInv DEF emitLoadImmediate
<1>2. FS!InJit
  BY RunningJit DEF emitLoadImmediate, FS!InJit, FS!Top, Depth
<1> QED BY <1>1, <1>2 DEF emitLoadImmediate, FS!LoadImmediate

LEMMA LoadLocalStep ==
  ASSUME IInv, NEW i \in Slots, emitLoadLocal(i)
  PROVE  IInv' /\ FS!LoadLocal
<1>1. i \in 0 .. Top.slots - 1 /\ rax' = Top.locals[i + 1] /\ rax' \in Int
  BY LoadLocalValue
<1>2. IInv'
  BY <1>1, RaxInv DEF emitLoadLocal
<1>3. FS!InJit /\ FS!Top = Top
  BY RunningJit DEF emitLoadLocal, FS!InJit, FS!Top, Top, Depth
<1> QED BY <1>1, <1>2, <1>3 DEF emitLoadLocal, FS!LoadLocal

LEMMA StoreLocalStep ==
  ASSUME IInv, NEW i \in Slots, emitStoreLocal(i)
  PROVE  IInv' /\ FS!StoreLocal
<1>1. IInv'
  BY StoreLocalInv
<1>2. FS!InJit /\ FS!Top = Top /\ Top \in FS!Activation
  BY RunningJit DEF emitStoreLocal, FS!InJit, FS!Top, Top, Depth
<1>3. i \in 0 .. Top.slots - 1
  <2>1. Top.slots \in Nat
    BY <1>2, ActivationType
  <2>2. i \in Nat /\ i < Top.slots
    BY StackAssumption DEF emitStoreLocal
  <2> QED BY <2>1, <2>2
<1> QED BY <1>1, <1>2, <1>3 DEF emitStoreLocal, FS!StoreLocal

LEMMA PushStep ==
  ASSUME IInv, emitPush
  PROVE  IInv' /\ FS!Push
<1>1. IInv'
  BY PushInv
<1>2. FS!InJit /\ FS!Top = Top
  BY RunningJit DEF emitPush, FS!InJit, FS!Top, Top, Depth
<1> QED BY <1>1, <1>2 DEF emitPush, FS!Push

LEMMA PopStep ==
  ASSUME IInv, emitPop
  PROVE  IInv' /\ FS!Pop
<1>1. IInv' /\ regs'.rbx = Top.temps[Len(Top.temps)]
  BY PopInv
<1>2. FS!InJit /\ FS!Top = Top
  BY RunningJit DEF emitPop, FS!InJit, FS!Top, Top, Depth
<1>3. regs' = [regs EXCEPT !.rbx = Top.temps[Len(Top.temps)]]
  BY <1>1 DEF emitPop, IInv, TypeOK, FS!Registers
<1> QED BY <1>1, <1>2, <1>3 DEF emitPop, FS!Pop

LEMMA NextStep ==
  ASSUME SmallFrames, IInv, [Next]_vars
  PROVE  IInv' /\ [FS!Next]_(FS!vars)
<1> USE DEF FS!Next
<1>1. ASSUME NEW n \in LocalCounts, NEW rdi \in Value, emitPrologue(n, rdi)
      PROVE  IInv' /\ FS!Next
  BY <1>1, PrologueStep
<1>2. ASSUME NEW v \in Value, emitCallRuntime(v)
      PROVE  IInv' /\ FS!Next
  BY <1>2, CallRuntimeStep
<1>3. ASSUME NEW v \in Value, RuntimeReturn(v)
      PROVE  IInv' /\ FS!Next
  BY <1>3, RuntimeReturnStep
<1>4. ASSUME NEW v \in Value, emitLoadImmediate(v)
      PROVE  IInv' /\ FS!Next
  BY <1>4, LoadImmediateStep
<1>5. ASSUME NEW i \in Slots, emitLoadLocal(i)
      PROVE  IInv' /\ FS!Next
  BY <1>5, LoadLocalStep
<1>6. ASSUME NEW i \in Slots, emitStoreLocal(i)
      PROVE  IInv' /\ FS!Next
  BY <1>6, StoreLocalStep
<1>7. CASE emitEpilogue
  BY <1>7, EpilogueStep
<1>8. CASE emitPush
  BY <1>8, PushStep
<1>9. CASE emitPop
  BY <1>9, PopStep
<1>10. CASE UNCHANGED vars
  <2>1. rax' \in Int
    BY <1>10 DEF vars, IInv, TypeOK
  <2>2. IInv'
    BY <1>10, <2>1, RaxInv DEF vars
  <2> QED BY <1>10, <2>2 DEF vars, FS!vars
<1> HIDE DEF FS!Next
<1> QED BY <1>1, <1>2, <1>3, <1>4, <1>5, <1>6, <1>7, <1>8, <1>9, <1>10 DEF Next

THEOREM InvariantHolds ==
  ASSUME SmallFrames
  PROVE  Spec => []IInv
<1>1. Init => IInv
  BY InitInv
<1>2. IInv /\ [Next]_vars => IInv'
  BY NextStep
<1> QED BY <1>1, <1>2, PTL DEF Spec

\* The registers, the stack and the history are well formed in every state.
THEOREM TypeCorrect ==
  ASSUME SmallFrames
  PROVE  Spec => []TypeOK
<1>1. IInv => TypeOK
  BY DEF IInv
<1> QED BY <1>1, InvariantHolds, PTL

\* No two activations share a word of the stack, and the newest one ends at rsp.
THEOREM FramesApart ==
  ASSUME SmallFrames
  PROVE  Spec => []FramesTile
<1>1. IInv => FramesTile
  BY DEF IInv
<1> QED BY <1>1, InvariantHolds, PTL

\* rbp and rip belong to the newest activation, and each activation has saved those
\* of the one below it.
THEOREM RegistersOwned ==
  ASSUME SmallFrames
  PROVE  Spec => []RegistersAgree
<1>1. IInv => RegistersAgree
  BY DEF IInv
<1> QED BY <1>1, InvariantHolds, PTL

\* Whatever runs in between, the saved registers, locals and pushed temporaries
\* of every live activation stay in memory where its code will look for them.
THEOREM FramesIsolated ==
  ASSUME SmallFrames
  PROVE  Spec => []ActivationsIntact
<1>1. IInv => ActivationsIntact
  BY DEF IInv
<1> QED BY <1>1, InvariantHolds, PTL

\* The emitted code of codegen_x86_64.cpp implements FrameStack when no compiled
\* function has more than 14 local slots.
THEOREM Implements ==
  ASSUME SmallFrames
  PROVE  Spec => ImplementsFrameStack
<1>1. Init => FS!Init
  <2> SUFFICES ASSUME Init PROVE FS!Init
    OBVIOUS
  <2>1. regs \in FS!Registers
    BY InitInv DEF IInv, TypeOK
  <2> QED BY <2>1 DEF Init, FS!Init
<1>2. IInv /\ [Next]_vars => [FS!Next]_(FS!vars)
  BY NextStep
<1> QED BY <1>1, <1>2, InvariantHolds, PTL DEF Spec, ImplementsFrameStack, FS!Spec

-------------------------------------------------------------------------------
(***************************************************************************)
(* Alignment.  A step leaves every activation below the newest as it is,   *)
(* so only the base of an activation just entered is new, and FramesTile   *)
(* says where that lies.                                                   *)
(***************************************************************************)
BelowKept ==
  /\ Depth' \in Nat /\ Depth' <= Depth + 1
  /\ \A d \in 1 .. Depth' : d <= Depth => bases'[d] = bases[d]
  /\ \A e \in 1 .. Depth' - 1 : frames'[e] = frames[e]

LEMMA EnterKeepsBelow ==
  ASSUME IInv, NEW kind \in {"jit", "cpp"}, NEW n \in FS!SlotCount, EnterFrame(kind, n)
  PROVE  BelowKept
<1>1. /\ Depth \in Nat /\ Depth' = Depth + 1
      /\ \A d \in 1 .. Depth : frames'[d] = frames[d] /\ bases'[d] = bases[d]
  BY EnterHistory DEF IInv
<1>2. \A d \in 1 .. Depth' : d <= Depth => d \in 1 .. Depth
  BY <1>1
<1>3. \A e \in 1 .. Depth' - 1 : e \in 1 .. Depth
  BY <1>1
<1> QED BY <1>1, <1>2, <1>3 DEF BelowKept

LEMMA LeaveKeepsBelow ==
  ASSUME IInv, frames # << >>, NEW low, PopFrame(low)
  PROVE  BelowKept
<1>1. Depth \in Nat /\ Depth > 0 /\ frames \in Seq(FS!Activation) /\ bases \in Seq(Addr)
      /\ Len(bases) = Depth /\ Depth = Len(frames)
  BY DEF IInv, TypeOK, Depth
<1>2. /\ frames' = SubSeq(frames, 1, Depth - 1) /\ bases' = SubSeq(bases, 1, Depth - 1)
  BY <1>1 DEF PopFrame
<1>3. /\ Depth' = Depth - 1
      /\ \A d \in 1 .. Depth - 1 : frames'[d] = frames[d] /\ bases'[d] = bases[d]
  BY <1>1, <1>2 DEF Depth
<1>4. \A e \in 1 .. Depth' - 1 : e \in 1 .. Depth - 1
  BY <1>1, <1>3
<1> QED BY <1>1, <1>3, <1>4 DEF BelowKept

LEMMA InsideKeepsBelow ==
  ASSUME IInv, NEW a, frames' = FS!WithTop(a) \/ frames' = frames, bases' = bases
  PROVE  BelowKept
<1>1. Depth \in Nat /\ frames \in Seq(FS!Activation) /\ Depth = Len(frames)
  BY DEF IInv, TypeOK, Depth
<1>2. Depth' = Depth /\ \A e \in 1 .. Depth - 1 : frames'[e] = frames[e]
  BY <1>1 DEF FS!WithTop, Depth
<1> QED BY <1>1, <1>2 DEF BelowKept

LEMMA KeepsBelow ==
  ASSUME IInv, [Next]_vars
  PROVE  BelowKept
<1>1. ASSUME NEW n \in LocalCounts, NEW rdi \in Value, emitPrologue(n, rdi) PROVE BelowKept
  BY <1>1, EnterKeepsBelow DEF emitPrologue, FS!SlotCount
<1>2. ASSUME NEW v \in Value, emitCallRuntime(v) PROVE BelowKept
  BY <1>2, EnterKeepsBelow DEF emitCallRuntime, FS!SlotCount
<1>3. ASSUME NEW v \in Value, RuntimeReturn(v) PROVE BelowKept
  BY <1>3, LeaveKeepsBelow DEF RuntimeReturn
<1>4. ASSUME NEW v \in Value, emitLoadImmediate(v) PROVE BelowKept
  BY <1>4, InsideKeepsBelow DEF emitLoadImmediate
<1>5. ASSUME NEW i \in Slots, emitLoadLocal(i) PROVE BelowKept
  BY <1>5, InsideKeepsBelow DEF emitLoadLocal
<1>6. ASSUME NEW i \in Slots, emitStoreLocal(i) PROVE BelowKept
  BY <1>6, InsideKeepsBelow DEF emitStoreLocal
<1>7. CASE emitEpilogue
  <2>1. frames # << >>
    BY <1>7, RunningJit DEF emitEpilogue
  <2> QED BY <1>7, <2>1, LeaveKeepsBelow DEF emitEpilogue
<1>8. CASE emitPush
  BY <1>8, InsideKeepsBelow DEF emitPush
<1>9. CASE emitPop
  BY <1>9, InsideKeepsBelow DEF emitPop
<1>10. CASE UNCHANGED vars
  BY <1>10, InsideKeepsBelow DEF vars
<1> QED BY <1>1, <1>2, <1>3, <1>4, <1>5, <1>6, <1>7, <1>8, <1>9, <1>10 DEF Next

LEMMA AlignedStep ==
  ASSUME StackWords % 2 = 0, IInv, IInv', StackAlignedAtCalls, BelowKept
  PROVE  StackAlignedAtCalls'
<1>0. PICK n : n = Depth'
  OBVIOUS
<1>1. n \in Nat /\ Depth \in Nat /\ n <= Depth + 1
  BY <1>0 DEF BelowKept, IInv, TypeOK, Depth
<1> SUFFICES ASSUME NEW d \in 1 .. n, \A e \in 1 .. d-1 : frames'[e].temps = << >>
             PROVE  bases'[d] % 2 = 0
  BY <1>0 DEF StackAlignedAtCalls
<1>2. \A c \in 1 .. d : c <= Depth => bases'[c] % 2 = 0
  <2> SUFFICES ASSUME NEW c \in 1 .. d, c <= Depth PROVE bases'[c] % 2 = 0
    OBVIOUS
  <2>1. c \in 1 .. n /\ c \in 1 .. Depth /\ \A e \in 1 .. c-1 : e \in 1 .. n-1 /\ e \in 1 .. d-1
    BY <1>1
  <2>2. \A e \in 1 .. c-1 : frames[e].temps = << >>
    BY <1>0, <2>1 DEF BelowKept
  <2>3. bases'[c] = bases[c]
    BY <1>0, <2>1 DEF BelowKept
  <2> QED BY <2>1, <2>2, <2>3 DEF StackAlignedAtCalls
<1>3. CASE d <= Depth
  BY <1>2, <1>3
<1>4. CASE ~(d <= Depth)
  <2>1. bases'[d] + 2 = (IF d = 1 THEN StackWords ELSE Low(d - 1)') /\ bases'[d] \in Int
    <3>1. bases'[d] + 2 = (IF d = 1 THEN StackWords ELSE Low(d - 1)')
      BY <1>0 DEF IInv, FramesTile
    <3>2. bases' \in Seq(Addr) /\ Len(bases') = n
      BY <1>0 DEF IInv, TypeOK
    <3>3. bases'[d] \in Addr
      BY <3>2
    <3> QED BY <3>1, <3>3 DEF Addr
  <2>2. CASE d = 1
    <3>1. bases'[d] + 2 = StackWords
      BY <2>1, <2>2
    <3> QED BY <3>1, <2>1, StackAssumption
  <2>3. CASE d # 1
    <3>1. d - 1 \in 1 .. d /\ d - 1 <= Depth /\ d - 1 \in 1 .. d-1 /\ d - 1 \in 1 .. n
      BY <1>1, <2>3
    <3>2. bases'[d - 1] % 2 = 0 /\ frames'[d - 1].temps = << >>
      BY <1>2, <3>1
    <3>3. bases'[d - 1] \in Int /\ frames'[d - 1].slots \in Nat
      <4>1. bases' \in Seq(Addr) /\ Len(bases') = n /\ frames' \in Seq(FS!Activation) /\ Len(frames') = n
        BY <1>0 DEF IInv, TypeOK, Depth
      <4>2. bases'[d - 1] \in Addr /\ frames'[d - 1] \in FS!Activation
        BY <3>1, <4>1
      <4>3. frames'[d - 1].slots \in Nat
        BY <4>2, ActivationType
      <4> QED BY <4>2, <4>3 DEF Addr
    <3>4. bases'[d] + 2 = bases'[d - 1] - 2 - FrameWords(frames'[d - 1].slots)
      <4>1. bases'[d] + 2 = Low(d - 1)'
        BY <2>1, <2>3
      <4>2. Low(d - 1)' = bases'[d - 1] - 2 - FrameWords(frames'[d - 1].slots) - Len(frames'[d - 1].temps)
        BY DEF Low, FrameWords
      <4>3. Len(frames'[d - 1].temps) = 0
        BY <3>2
      <4>4. FrameWords(frames'[d - 1].slots) \in Nat
        BY <3>3, FrameWordsIs
      <4>5. \A b, w \in Int : b - 2 - w - 0 = b - 2 - w
        OBVIOUS
      <4> QED BY <4>1, <4>2, <4>3, <4>4, <4>5, <3>3
    <3>5. \A x, b \in Int, k \in Nat : b % 2 = 0 /\ x + 2 = b - 2 - FrameWords(k) => x % 2 = 0
      BY DEF FrameWords
    <3> QED BY <3>2, <3>3, <3>4, <3>5, <2>1
  <2> QED BY <2>2, <2>3
<1> QED BY <1>3, <1>4

\* Whatever the locals and the depth of calls, rsp is a multiple of sixteen bytes at every
\* call made while nothing is pushed, if it is where C++ enters compiled code.
THEOREM CallsAligned ==
  ASSUME SmallFrames, StackWords % 2 = 0
  PROVE  Spec => []StackAlignedAtCalls
<1>1. Init => StackAlignedAtCalls
  BY DEF Init, StackAlignedAtCalls, Depth
<1>2. IInv /\ IInv' /\ StackAlignedAtCalls /\ [Next]_vars => StackAlignedAtCalls'
  BY KeepsBelow, AlignedStep
<1> QED BY <1>1, <1>2, InvariantHolds, PTL DEF Spec

------------------------------------------------------------------------------
(* The process on one of the two machines. *)
(* ARM64. *)

FewLocals == LocalCounts \subseteq 0 .. 58

Small == FewLocals /\ Value \subseteq Int /\ Slots \subseteq Nat /\ StackWords \in Nat /\ Junk \in Int

LEMMA SmallIs == FewLocals => Small
BY ValueAssumption, StackAssumption DEF Small

LEMMA ARM64FrameWordsIs ==
  ASSUME NEW n \in 0 .. 58
  PROVE  /\ A!FrameWords(n) \in Int /\ A!FrameWords(n) >= n + 4 /\ A!FrameWords(n) <= 62
         /\ A!FrameWords(n) % 2 = 0
         /\ A!Imm7(A!FrameWords(n)) = A!FrameWords(n) /\ A!Imm7(-A!FrameWords(n)) = -A!FrameWords(n)
<1>1. \A k \in 0 .. 58 : /\ k + 4 + (k % 2) \in Int /\ k + 4 + (k % 2) >= k + 4
                         /\ k + 4 + (k % 2) <= 62 /\ (k + 4 + (k % 2)) % 2 = 0
  OBVIOUS
<1>2. \A w \in 4 .. 62 : A!Imm7(w) = w /\ A!Imm7(-w) = -w
  BY DEF A!Imm7
<1> QED BY <1>1, <1>2 DEF A!FrameWords

\* Where the locals lie: below x29, or, from slot 32 on, where the nine bits wrap,
\* above what the prologue saved.
LEMMA ARM64SlotIs ==
  ASSUME NEW b \in Int, NEW n \in 0 .. 58, NEW i \in 0 .. n-1
  PROVE  /\ A!Slot(b, i) \in Int
         /\ b - n <= A!Slot(b, i) /\ A!Slot(b, i) < b + A!FrameWords(n)
         /\ A!Slot(b, i) # b /\ A!Slot(b, i) # b + 1 /\ A!Slot(b, i) # b + 2
<1>1. A!FrameWords(n) \in Int /\ A!FrameWords(n) >= n + 4
  BY ARM64FrameWordsIs
<1>2. CASE i <= 31
  <2>1. \A k \in 0 .. 31 : A!Imm9(-8 * (k + 1)) \div 8 = -(k + 1)
    BY DEF A!Imm9
  <2>2. A!Slot(b, i) = b - (i + 1)
    BY <1>2, <2>1 DEF A!Slot
  <2> QED BY <1>1, <1>2, <2>2
<1>3. CASE i > 31
  <2>1. \A k \in 32 .. 57 : A!Imm9(-8 * (k + 1)) \div 8 = 63 - k
    BY DEF A!Imm9
  <2>2. A!Slot(b, i) = b + (63 - i)
    BY <1>3, <2>1 DEF A!Slot
  <2> QED BY <1>1, <1>3, <2>2
<1> QED BY <1>2, <1>3

-------------------------------------------------------------------------------
(***************************************************************************)
(* The inductive invariant says of each activation how it fits on the one  *)
(* below it, which also tells what kind of code it returns to, and what    *)
(* memory keeps for it.  That each begins where its caller ends is not     *)
(* enough to see that a write misses those further up: ARM64Apart says so  *)
(* of any two.                                                             *)
(***************************************************************************)
ARM64Registers == [pc : Int, x19 : Int, x29 : Int]

ARM64Activation ==
  [kind : {"jit", "cpp"}, slots : 0 .. 58, base : A!Addr, saved : ARM64Registers,
   locals : Seq(Int), temps : Seq(Int)]

ARM64LowOf(a) == a.base - 2 * Len(a.temps)
ARM64EndOf(a) == a.base + A!FrameWords(a.slots)

ARM64Returns(d, r) ==
  /\ r.pc = A!JitCode <=> d > 0 /\ armFrames[d].kind = "jit"
  /\ r.pc = A!JitCode => r.x29 = armFrames[d].base

ARM64Fits(a, d) ==
  /\ a.kind = "cpp" => a.slots = 0 /\ a.temps = << >>
  /\ a.slots <= a.base
  /\ ARM64EndOf(a) = IF d = 1 THEN StackWords ELSE ARM64LowOf(armFrames[d - 1])
  /\ ARM64Returns(d - 1, a.saved)

ARM64Kept(a, m) ==
  /\ m[a.base] = a.saved.x29
  /\ m[a.base + 1] = a.saved.pc
  /\ m[a.base + 2] = a.saved.x19
  /\ \A j \in DOMAIN a.temps : m[a.base - 2 * j] = a.temps[j]

ARM64Apart == \A d, e \in 1 .. A!Depth : e < d => ARM64EndOf(armFrames[d]) <= ARM64LowOf(armFrames[e])

ARM64IInv ==
  /\ A!TypeOK
  /\ armFrames \in Seq(ARM64Activation)
  /\ \A d \in 1 .. A!Depth : ARM64Fits(armFrames[d], d) /\ ARM64Kept(armFrames[d], armMem)
  /\ ARM64Apart
  /\ sp = IF A!Depth = 0 THEN StackWords ELSE ARM64LowOf(armFrames[A!Depth])
  /\ sp % 2 = StackWords % 2
  /\ ARM64Returns(A!Depth, armRegs)

LEMMA ARM64ActivationType ==
  ASSUME NEW a \in ARM64Activation
  PROVE  /\ a.kind \in {"jit", "cpp"} /\ a.slots \in 0 .. 58 /\ a.base \in A!Addr
         /\ a.saved \in ARM64Registers /\ a.locals \in Seq(Int) /\ a.temps \in Seq(Int)
         /\ Len(a.temps) \in Nat /\ DOMAIN a.temps = 1 .. Len(a.temps)
BY DEF ARM64Activation

LEMMA ARM64Numbers ==
  ASSUME Small, NEW a \in ARM64Activation
  PROVE  /\ a.base \in Nat /\ a.base <= StackWords
         /\ A!FrameWords(a.slots) \in Int /\ A!FrameWords(a.slots) >= a.slots + 4
         /\ A!FrameWords(a.slots) % 2 = 0
         /\ ARM64LowOf(a) \in Int /\ ARM64LowOf(a) <= a.base
         /\ ARM64EndOf(a) \in Int /\ ARM64EndOf(a) >= a.base + 4
<1>1. a.base \in A!Addr /\ a.slots \in 0 .. 58 /\ Len(a.temps) \in Nat
  BY ARM64ActivationType
<1>2. a.base \in Nat /\ a.base <= StackWords
  BY <1>1 DEF A!Addr, Small
<1>3. A!FrameWords(a.slots) \in Int /\ A!FrameWords(a.slots) >= a.slots + 4 /\ A!FrameWords(a.slots) % 2 = 0
  BY <1>1, ARM64FrameWordsIs
<1>4. ARM64LowOf(a) \in Int /\ ARM64LowOf(a) <= a.base
  BY ONLY <1>1, <1>2 DEF ARM64LowOf
<1>5. ARM64EndOf(a) \in Int /\ ARM64EndOf(a) >= a.base + 4
  <2>1. a.slots \in 0 .. 58
    BY <1>1
  <2>2. a.slots \in Int /\ a.slots >= 0
    BY <2>1
  <2> QED BY ONLY <2>2, <1>2, <1>3 DEF ARM64EndOf
<1> QED BY <1>2, <1>3, <1>4, <1>5

LEMMA ARM64FrameTypes ==
  ASSUME ARM64IInv
  PROVE  /\ A!Depth \in Nat
         /\ \A d \in 1 .. A!Depth : armFrames[d] \in ARM64Activation
BY DEF ARM64IInv, A!Depth

\* What nobody writes is kept.
LEMMA ARM64StillKept ==
  ASSUME Small, NEW a \in ARM64Activation, NEW m, NEW n, ARM64Kept(a, m),
         \A k \in ARM64LowOf(a) .. a.base + 2 : n[k] = m[k]
  PROVE  ARM64Kept(a, n)
<1>1. /\ a.base \in Nat /\ ARM64LowOf(a) \in Int /\ ARM64LowOf(a) <= a.base
      /\ Len(a.temps) \in Nat /\ DOMAIN a.temps = 1 .. Len(a.temps)
  BY ARM64Numbers, ARM64ActivationType
<1>2. a.base \in ARM64LowOf(a) .. a.base + 2 /\ a.base + 1 \in ARM64LowOf(a) .. a.base + 2
      /\ a.base + 2 \in ARM64LowOf(a) .. a.base + 2
  BY <1>1
<1>3. \A j \in DOMAIN a.temps : a.base - 2 * j \in ARM64LowOf(a) .. a.base + 2
  BY <1>1 DEF ARM64LowOf
<1> QED BY <1>2, <1>3 DEF ARM64Kept

\* The whole stack lies above sp.
LEMMA ARM64AboveSp ==
  ASSUME Small, ARM64IInv, NEW d \in 1 .. A!Depth
  PROVE  /\ armFrames[d] \in ARM64Activation /\ sp \in Int
         /\ sp <= ARM64LowOf(armFrames[d]) /\ ARM64EndOf(armFrames[d]) <= StackWords
         /\ d < A!Depth => ARM64EndOf(armFrames[A!Depth]) <= ARM64LowOf(armFrames[d])
<1>1. A!Depth \in Nat /\ A!Depth \in 1 .. A!Depth /\ 1 \in 1 .. A!Depth /\ armFrames[d] \in ARM64Activation
      /\ armFrames[A!Depth] \in ARM64Activation /\ armFrames[1] \in ARM64Activation
  BY ARM64FrameTypes
<1>2. sp \in Int /\ sp = ARM64LowOf(armFrames[A!Depth])
  BY <1>1 DEF ARM64IInv, A!TypeOK, A!Addr
<1>3. d < A!Depth => ARM64EndOf(armFrames[A!Depth]) <= ARM64LowOf(armFrames[d])
  BY <1>1 DEF ARM64IInv, ARM64Apart
<1>4. sp <= ARM64LowOf(armFrames[d])
  <2>1. /\ ARM64LowOf(armFrames[A!Depth]) \in Int /\ ARM64EndOf(armFrames[A!Depth]) \in Int
        /\ ARM64LowOf(armFrames[A!Depth]) <= ARM64EndOf(armFrames[A!Depth]) /\ ARM64LowOf(armFrames[d]) \in Int
    BY ONLY <1>1, ARM64Numbers, Small
  <2>2. d = A!Depth \/ d < A!Depth
    BY <1>1
  <2> QED BY <1>2, <1>3, <2>1, <2>2
<1>5. ARM64EndOf(armFrames[d]) <= StackWords
  <2>1. ARM64EndOf(armFrames[1]) = StackWords
    BY <1>1 DEF ARM64IInv, ARM64Fits
  <2>2. /\ ARM64EndOf(armFrames[d]) \in Int /\ ARM64EndOf(armFrames[1]) \in Int /\ ARM64LowOf(armFrames[1]) \in Int
        /\ ARM64LowOf(armFrames[1]) <= ARM64EndOf(armFrames[1])
    BY ONLY <1>1, ARM64Numbers, Small
  <2>3. 1 < d => ARM64EndOf(armFrames[d]) <= ARM64LowOf(armFrames[1])
    BY <1>1 DEF ARM64IInv, ARM64Apart
  <2>4. d = 1 \/ 1 < d
    BY <1>1
  <2> QED BY <2>1, <2>2, <2>3, <2>4
<1> QED BY <1>1, <1>2, <1>3, <1>4, <1>5

-------------------------------------------------------------------------------
(***************************************************************************)
(* A step touches the newest activation only: it enters one, leaves one or *)
(* changes one.  It preserves the invariant if the activation that is then *)
(* the newest, `a', fits and is kept, and nothing below it is written.     *)
(***************************************************************************)
ARM64Newest(a) ==
  /\ a \in ARM64Activation
  /\ armFrames' \in Seq(ARM64Activation) /\ A!Depth' >= 1 /\ A!Depth' <= A!Depth + 1
  /\ \A d \in 1 .. A!Depth' - 1 : armFrames'[d] = armFrames[d]
  /\ armFrames'[A!Depth'] = a
  /\ ARM64Fits(a, A!Depth') /\ ARM64Kept(a, armMem')
  /\ sp' = ARM64LowOf(a)
  /\ armRegs'.pc = A!JitCode <=> a.kind = "jit"
  /\ armRegs'.pc = A!JitCode => armRegs'.x29 = a.base
  /\ sp' % 2 = StackWords % 2
  /\ \A d \in 1 .. A!Depth' - 1, k \in A!Addr : k >= ARM64LowOf(armFrames[d]) => armMem'[k] = armMem[k]

LEMMA ARM64StepInv ==
  ASSUME Small, ARM64IInv, A!TypeOK', NEW a, ARM64Newest(a)
  PROVE  ARM64IInv'
<1>0. PICK below \in Nat : below = A!Depth
  BY ARM64FrameTypes
<1>1. PICK n \in Nat : n = A!Depth'
  BY DEF ARM64Newest, A!Depth
<1>a. n >= 1 /\ n <= below + 1
  BY <1>0, <1>1 DEF ARM64Newest
<1>2. /\ a \in ARM64Activation /\ armFrames' \in Seq(ARM64Activation) /\ armFrames'[n] = a
      /\ \A d \in 1 .. n - 1 : armFrames'[d] = armFrames[d] /\ d \in 1 .. A!Depth
      /\ ARM64Fits(a, n) /\ ARM64Kept(a, armMem') /\ sp' = ARM64LowOf(a)
      /\ \A d \in 1 .. n - 1, k \in A!Addr : k >= ARM64LowOf(armFrames[d]) => armMem'[k] = armMem[k]
  <2>1. \A d \in 1 .. n - 1 : d \in 1 .. below
    BY <1>a
  <2> QED BY <1>0, <1>1, <2>1 DEF ARM64Newest
<1>3. \A d \in 1 .. n : ARM64Fits(armFrames[d], d)' /\ ARM64Kept(armFrames'[d], armMem')
  <2> SUFFICES ASSUME NEW d \in 1 .. n
               PROVE  ARM64Fits(armFrames[d], d)' /\ ARM64Kept(armFrames'[d], armMem')
    OBVIOUS
  <2>1. d > 1 => armFrames'[d - 1] = armFrames[d - 1]
    <3>1. d > 1 => d - 1 \in 1 .. n - 1
      OBVIOUS
    <3> QED BY <3>1, <1>2
  <2>2. ARM64Fits(armFrames'[d], d) /\ ARM64Kept(armFrames'[d], armMem')
    <3>1. CASE d = n
      BY <3>1, <1>2
    <3>2. CASE d # n
      <4>1. d \in 1 .. n - 1 /\ d \in 1 .. A!Depth /\ armFrames'[d] = armFrames[d] /\ armFrames[d] \in ARM64Activation
        <5>1. d \in 1 .. n - 1
          BY <3>2
        <5> QED BY <5>1, <1>2, ARM64FrameTypes
      <4>2. ARM64Fits(armFrames[d], d) /\ ARM64Kept(armFrames[d], armMem)
        BY <4>1 DEF ARM64IInv
      <4>3. \A k \in ARM64LowOf(armFrames[d]) .. armFrames[d].base + 2 : armMem'[k] = armMem[k]
        <5>1. /\ ARM64LowOf(armFrames[d]) \in Int /\ sp \in Int /\ sp <= ARM64LowOf(armFrames[d]) /\ sp >= 0
              /\ ARM64EndOf(armFrames[d]) \in Int /\ ARM64EndOf(armFrames[d]) >= armFrames[d].base + 4
              /\ ARM64EndOf(armFrames[d]) <= StackWords /\ StackWords \in Nat /\ armFrames[d].base \in Nat
          <6>1. sp \in A!Addr
            BY DEF ARM64IInv, A!TypeOK
          <6>2. sp >= 0 /\ StackWords \in Nat
            BY <6>1 DEF A!Addr, Small
          <6> QED BY <6>2, <4>1, ARM64AboveSp, ARM64Numbers
        <5>2. \A k \in ARM64LowOf(armFrames[d]) .. armFrames[d].base + 2 : k \in A!Addr /\ k >= ARM64LowOf(armFrames[d])
          BY ONLY <5>1 DEF A!Addr
        <5> QED BY <5>2, <4>1, <1>2
      <4>4. ARM64Kept(armFrames[d], armMem')
        BY <4>1, <4>2, <4>3, ARM64StillKept
      <4> QED BY <4>1, <4>2, <4>4
    <3> QED BY <3>1, <3>2
  <2>3. ARM64Fits(armFrames[d], d)'
    <3>1. CASE d = 1
      BY <2>2, <3>1 DEF ARM64Fits, ARM64Returns, ARM64EndOf, A!FrameWords
    <3>2. CASE d # 1
      <4>1. d > 1 /\ d - 1 > 0
        BY <3>2
      <4> QED BY <2>1, <2>2, <4>1 DEF ARM64Fits, ARM64Returns, ARM64EndOf, ARM64LowOf, A!FrameWords
    <3> QED BY <3>1, <3>2
  <2> QED BY <2>2, <2>3
<1>4. ARM64Apart'
  <2> SUFFICES ASSUME NEW d \in 1 .. n, NEW e \in 1 .. n, e < d
               PROVE  ARM64EndOf(armFrames'[d]) <= ARM64LowOf(armFrames'[e])
    BY <1>1 DEF ARM64Apart, ARM64EndOf, ARM64LowOf, A!FrameWords
  <2>0. e \in 1 .. n - 1
    OBVIOUS
  <2>1. armFrames'[e] = armFrames[e] /\ e \in 1 .. A!Depth
    BY <2>0, <1>2
  <2>2. CASE d < n
    <3>0. d \in 1 .. n - 1
      BY <2>2
    <3>1. armFrames'[d] = armFrames[d] /\ d \in 1 .. A!Depth
      BY <3>0, <1>2
    <3> QED BY <2>1, <3>1 DEF ARM64IInv, ARM64Apart
  <2>3. CASE d = n
    <3>0. n - 1 \in 1 .. n - 1 /\ n # 1
      BY <2>0
    <3>1. n - 1 \in 1 .. A!Depth
      BY <3>0, <1>2
    <3>2. ARM64EndOf(a) = ARM64LowOf(armFrames[n - 1])
      BY <1>2, <3>0 DEF ARM64Fits
    <3>3. CASE e = n - 1
      <4>1. ARM64LowOf(armFrames[n - 1]) \in Int
        BY <3>1, ARM64FrameTypes, ARM64Numbers
      <4> QED BY <3>2, <3>3, <2>1, <2>3, <1>2, <4>1
    <3>4. CASE e # n - 1
      <4>1. e < n - 1
        BY <3>4, <2>0
      <4>2. ARM64EndOf(armFrames[n - 1]) <= ARM64LowOf(armFrames[e])
        BY <4>1, <3>1, <2>1 DEF ARM64IInv, ARM64Apart
      <4>3. armFrames[n - 1] \in ARM64Activation /\ armFrames[e] \in ARM64Activation
        BY <3>1, <2>1, ARM64FrameTypes
      <4>4. /\ ARM64LowOf(armFrames[n - 1]) \in Int /\ ARM64EndOf(armFrames[n - 1]) \in Int /\ ARM64LowOf(armFrames[e]) \in Int
            /\ ARM64LowOf(armFrames[n - 1]) <= ARM64EndOf(armFrames[n - 1])
        BY ONLY <4>3, ARM64Numbers, Small
      <4> QED BY <3>2, <4>2, <4>4, <2>1, <2>3, <1>2
    <3> QED BY <3>3, <3>4
  <2> QED BY <2>2, <2>3, <1>1
<1>5. ARM64Returns(A!Depth, armRegs)'
  BY <1>1, <1>2 DEF ARM64Newest, ARM64Returns
<1>6. sp' = ARM64LowOf(armFrames'[n]) /\ n # 0
  BY <1>a, <1>2
<1>7. sp' % 2 = StackWords % 2
  BY DEF ARM64Newest
<1>8. n = Len(armFrames')
  BY <1>1 DEF A!Depth
<1>9. \A d \in 1 .. n : ARM64Fits(armFrames[d], d)' /\ ARM64Kept(armFrames[d], armMem)'
  BY <1>3 DEF ARM64Kept
<1> HIDE DEF ARM64Fits, ARM64Kept, ARM64Returns
<1> QED BY <1>1, <1>2, <1>4, <1>5, <1>6, <1>7, <1>9 DEF ARM64IInv, ARM64LowOf

-------------------------------------------------------------------------------
\* What compiled code knows of the activation it runs in.
LEMMA ARM64Running ==
  ASSUME Small, ARM64IInv, A!Depth > 0
  PROVE  /\ A!Depth \in Nat /\ A!Top \in ARM64Activation
         /\ ARM64Fits(A!Top, A!Depth) /\ ARM64Kept(A!Top, armMem) /\ sp = ARM64LowOf(A!Top)
         /\ sp \in Nat /\ sp <= StackWords
         /\ armRegs \in ARM64Registers /\ armMem \in [A!Addr -> Int] /\ x0 \in Int /\ x9 \in Int
         /\ armRegs.pc = A!JitCode <=> A!Top.kind = "jit"
         /\ armRegs.pc = A!JitCode => armRegs.x29 = A!Top.base
<1>1. A!Depth \in Nat /\ A!Depth \in 1 .. A!Depth
  BY ARM64FrameTypes
<1>2. A!Top \in ARM64Activation /\ ARM64Fits(A!Top, A!Depth) /\ ARM64Kept(A!Top, armMem)
  BY <1>1, ARM64FrameTypes DEF ARM64IInv, A!Top
<1>3. sp \in A!Addr /\ armRegs \in ARM64Registers /\ armMem \in [A!Addr -> Int] /\ x0 \in Int /\ x9 \in Int
  BY DEF ARM64IInv, A!TypeOK, ARM64Registers
<1>4. sp \in Nat /\ sp <= StackWords
  BY <1>3 DEF Small, A!Addr
<1>5. sp = ARM64LowOf(A!Top)
  BY <1>1 DEF ARM64IInv, A!Top
<1>6. ARM64Returns(A!Depth, armRegs)
  BY DEF ARM64IInv
<1>7. armRegs.pc = A!JitCode <=> A!Top.kind = "jit"
  BY <1>6 DEF ARM64Returns, A!Top
<1>8. armRegs.pc = A!JitCode => armRegs.x29 = A!Top.base
  BY <1>6 DEF ARM64Returns, A!Top
<1> HIDE DEF A!Top
<1> QED BY <1>1, <1>2, <1>3, <1>4, <1>5, <1>7, <1>8

LEMMA ARM64Compiled ==
  ASSUME Small, ARM64IInv, armRegs.pc = A!JitCode
  PROVE  /\ A!Depth > 0 /\ A!Top.kind = "jit" /\ armRegs.x29 = A!Top.base
<1>1. A!Depth > 0
  BY DEF ARM64IInv, ARM64Returns
<1> QED BY <1>1, ARM64Running

\* A step that stays in the newest activation and leaves x29, x30 and x19 alone.
LEMMA ARM64InsideInv ==
  ASSUME Small, ARM64IInv, A!Depth > 0, A!TypeOK', NEW a \in ARM64Activation,
         armFrames' = A!WithTop(a), armRegs' = armRegs,
         a.kind = A!Top.kind, a.slots = A!Top.slots, a.base = A!Top.base, a.saved = A!Top.saved,
         a.kind = "cpp" => a.temps = << >>,
         ARM64Kept(a, armMem'), sp' = ARM64LowOf(a),
         \A k \in A!Addr : k >= ARM64EndOf(A!Top) => armMem'[k] = armMem[k]
  PROVE  ARM64IInv'
<1>1. A!Depth \in Nat /\ A!Depth \in 1 .. A!Depth /\ armFrames \in Seq(ARM64Activation)
  BY ARM64FrameTypes DEF ARM64IInv
<1>2. armFrames' \in Seq(ARM64Activation) /\ A!Depth' = A!Depth /\ armFrames'[A!Depth] = a
      /\ \A d \in 1 .. A!Depth - 1 : armFrames'[d] = armFrames[d]
  BY <1>1 DEF A!WithTop, A!Depth
<1>3. /\ A!Top \in ARM64Activation /\ ARM64Fits(A!Top, A!Depth)
      /\ armRegs.pc = A!JitCode <=> A!Top.kind = "jit"
  BY ARM64Running
<1>4. armRegs.pc = A!JitCode => armRegs.x29 = A!Top.base
  BY ARM64Running
<1>5. ARM64Fits(a, A!Depth)
  BY <1>3 DEF ARM64Fits, ARM64EndOf
<1>6. \A d \in 1 .. A!Depth - 1, k \in A!Addr : k >= ARM64LowOf(armFrames[d]) => armMem'[k] = armMem[k]
  <2> SUFFICES ASSUME NEW d \in 1 .. A!Depth - 1, NEW k \in A!Addr, k >= ARM64LowOf(armFrames[d])
               PROVE  armMem'[k] = armMem[k]
    OBVIOUS
  <2>1. d \in 1 .. A!Depth /\ d < A!Depth
    BY <1>1
  <2>2. ARM64EndOf(A!Top) <= ARM64LowOf(armFrames[d]) /\ armFrames[d] \in ARM64Activation
    BY <2>1, ARM64AboveSp DEF A!Top
  <2>3. ARM64EndOf(A!Top) \in Int /\ ARM64LowOf(armFrames[d]) \in Int
    BY ONLY Small, <1>3, <2>2, ARM64Numbers
  <2>4. k \in Int
    BY DEF A!Addr
  <2> QED BY <2>2, <2>3, <2>4
<1>7. sp' % 2 = StackWords % 2
  <2>1. sp = ARM64LowOf(A!Top) /\ sp % 2 = StackWords % 2
    BY ARM64Running DEF ARM64IInv
  <2>2. a.base \in Nat /\ Len(a.temps) \in Nat /\ Len(A!Top.temps) \in Nat
    BY <1>3, ARM64Numbers, ARM64ActivationType
  <2>3. \A b, s, t \in Nat : (b - 2 * s) % 2 = (b - 2 * t) % 2
    OBVIOUS
  <2> QED BY <2>1, <2>2, <2>3 DEF ARM64LowOf
<1>8. ARM64Newest(a)
  <2>1. A!Depth' \in 1 .. A!Depth + 1
    BY <1>1, <1>2
  <2> HIDE DEF A!Top
  <2> QED BY <1>1, <1>2, <1>3, <1>4, <1>5, <1>6, <1>7, <2>1 DEF ARM64Newest
<1> QED BY <1>8, ARM64StepInv

\* What is in the registers besides x19, x29 and pc is no concern of the invariant.
LEMMA ARM64RegisterInv ==
  ASSUME Small, ARM64IInv, x0' \in Int, x9' \in Int, UNCHANGED << armMem, sp, armRegs, armFrames >>
  PROVE  ARM64IInv'
<1>1. A!TypeOK'
  BY DEF ARM64IInv, A!TypeOK
<1> QED BY <1>1 DEF ARM64IInv, ARM64Fits, ARM64Kept, ARM64Returns, ARM64Apart, A!Depth, ARM64EndOf, ARM64LowOf, A!FrameWords

\* The word of a local lies in the stack, and is none of the three of a frame record.
LEMMA ARM64LocalSlot ==
  ASSUME Small, ARM64IInv, armRegs.pc = A!JitCode, NEW i \in Slots, i < A!Top.slots
  PROVE  /\ A!Slot(armRegs.x29, i) \in A!Addr
         /\ A!Slot(armRegs.x29, i) < ARM64EndOf(A!Top)
         /\ A!Slot(armRegs.x29, i) \notin {A!Top.base, A!Top.base + 1, A!Top.base + 2}
<1>1. A!Depth > 0 /\ armRegs.x29 = A!Top.base /\ A!Top.kind = "jit"
  BY ARM64Compiled
<1>2. A!Top \in ARM64Activation /\ A!Top.slots <= A!Top.base
  BY <1>1, ARM64Running DEF ARM64Fits
<1>3. A!Top.slots \in 0 .. 58 /\ A!Top.base \in Nat /\ A!FrameWords(A!Top.slots) \in Int
  BY ONLY <1>2, Small, ARM64ActivationType, ARM64Numbers
<1>4. i \in 0 .. A!Top.slots - 1
  <2>1. i \in Nat /\ A!Top.slots \in Nat
    BY <1>3 DEF Small
  <2> QED BY ONLY <2>1, i < A!Top.slots
<1>5. ARM64EndOf(A!Top) <= StackWords /\ ARM64EndOf(A!Top) \in Int
  <2>1. A!Depth \in 1 .. A!Depth
    BY <1>1, ARM64FrameTypes
  <2>2. ARM64EndOf(A!Top) <= StackWords
    BY <2>1, ARM64AboveSp DEF A!Top
  <2>3. ARM64EndOf(A!Top) \in Int
    BY ONLY <1>2, Small, ARM64Numbers
  <2> QED BY <2>2, <2>3
<1> DEFINE b == A!Top.base
           n == A!Top.slots
<1>6. /\ A!Slot(b, i) \in Int
      /\ b - n <= A!Slot(b, i) /\ A!Slot(b, i) < b + A!FrameWords(n)
      /\ A!Slot(b, i) # b /\ A!Slot(b, i) # b + 1 /\ A!Slot(b, i) # b + 2
  <2> HIDE DEF b, n
  <2> SUFFICES ASSUME b \in Int, n \in 0 .. 58, i \in 0 .. n - 1
               PROVE  <1>6!1 /\ <1>6!2 /\ <1>6!3
    BY <1>3, <1>4 DEF b, n
  <2> QED BY ARM64SlotIs
<1>7. b + A!FrameWords(n) = ARM64EndOf(A!Top)
  BY DEF ARM64EndOf
<1>8. A!Slot(b, i) \in A!Addr
  <2>1. b \in Nat /\ n \in Nat /\ n <= b /\ StackWords \in Int
    BY <1>2, <1>3 DEF Small
  <2> HIDE DEF b, n
  <2> QED BY ONLY <1>5, <1>6, <1>7, <2>1 DEF A!Addr
<1> QED BY <1>1, <1>6, <1>7, <1>8

LEMMA ARM64LoadImmediateInv ==
  ASSUME Small, ARM64IInv, NEW v \in Value, A!emitLoadImmediate(v)
  PROVE  ARM64IInv'
<1>1. x0' \in Int /\ x9' \in Int
  BY DEF A!emitLoadImmediate, Small, ARM64IInv, A!TypeOK
<1> QED BY <1>1, ARM64RegisterInv DEF A!emitLoadImmediate

LEMMA ARM64LoadLocalInv ==
  ASSUME Small, ARM64IInv, NEW i \in Slots, A!emitLoadLocal(i)
  PROVE  ARM64IInv'
<1>1. A!Slot(armRegs.x29, i) \in A!Addr
  BY ARM64LocalSlot DEF A!emitLoadLocal
<1>2. x0' \in Int /\ x9' \in Int
  BY <1>1 DEF A!emitLoadLocal, ARM64IInv, A!TypeOK
<1> QED BY <1>2, ARM64RegisterInv DEF A!emitLoadLocal

LEMMA ARM64StoreLocalInv ==
  ASSUME Small, ARM64IInv, NEW i \in Slots, A!emitStoreLocal(i)
  PROVE  ARM64IInv'
<1> DEFINE s == A!Slot(armRegs.x29, i)
           a == [A!Top EXCEPT !.locals[i + 1] = x0]
<1>1. A!Depth > 0 /\ armRegs.x29 = A!Top.base /\ A!Top.kind = "jit"
  BY ARM64Compiled DEF A!emitStoreLocal
<1>2. s \in A!Addr /\ s < ARM64EndOf(A!Top) /\ s # A!Top.base /\ s # A!Top.base + 1 /\ s # A!Top.base + 2
  BY ARM64LocalSlot DEF A!emitStoreLocal
<1>3. A!Top \in ARM64Activation /\ ARM64Kept(A!Top, armMem) /\ sp = ARM64LowOf(A!Top) /\ armMem \in [A!Addr -> Int] /\ x0 \in Int
  BY <1>1, ARM64Running
<1>4. a \in ARM64Activation /\ a.kind = A!Top.kind /\ a.slots = A!Top.slots /\ a.base = A!Top.base
      /\ a.saved = A!Top.saved /\ a.temps = << >> /\ a.temps = A!Top.temps
  <2>1. A!Top.locals \in Seq(Int)
    BY <1>3 DEF ARM64Activation
  <2>2. [A!Top.locals EXCEPT ![i + 1] = x0] \in Seq(Int)
    <3>1. A!Top.locals \in [1 .. Len(A!Top.locals) -> Int] /\ Len(A!Top.locals) \in Nat
      BY <2>1
    <3>2. [A!Top.locals EXCEPT ![i + 1] = x0] \in [1 .. Len(A!Top.locals) -> Int]
      BY <3>1, <1>3
    <3> QED BY <3>1, <3>2
  <2> HIDE DEF A!Top
  <2> QED BY <2>2, <1>3 DEF ARM64Activation, A!emitStoreLocal
<1>5. armMem' = [armMem EXCEPT ![s] = x0] /\ armMem' \in [A!Addr -> Int]
  BY <1>2, <1>3 DEF A!emitStoreLocal
<1>6. ARM64Kept(a, armMem')
  <2> HIDE DEF s, a, A!Top
  <2>1. /\ A!Top.base \in Nat /\ A!Top.base <= StackWords /\ ARM64EndOf(A!Top) \in Int
        /\ ARM64EndOf(A!Top) >= A!Top.base + 4
    BY <1>3, ARM64Numbers
  <2>2. \A k : k # s => armMem'[k] = armMem[k]
    BY <1>3, <1>5
  <2>3. A!Top.base # s /\ A!Top.base + 1 # s /\ A!Top.base + 2 # s
    BY <1>2
  <2> QED BY <1>3, <1>4, <2>2, <2>3 DEF ARM64Kept
<1>7. A!TypeOK'
  BY <1>5 DEF A!emitStoreLocal, ARM64IInv, A!TypeOK
<1>8. \A k \in A!Addr : k >= ARM64EndOf(A!Top) => armMem'[k] = armMem[k]
  <2> SUFFICES ASSUME NEW k \in A!Addr, k >= ARM64EndOf(A!Top) PROVE armMem'[k] = armMem[k]
    OBVIOUS
  <2>1. k \in Int /\ s \in Int
    BY <1>2 DEF A!Addr
  <2>2. ARM64EndOf(A!Top) \in Int
    BY ONLY <1>3, Small, ARM64Numbers
  <2>3. k # s
    BY ONLY <2>1, <2>2, <1>2, k >= ARM64EndOf(A!Top)
  <2> QED BY <2>3, <1>3, <1>5
<1>9. armFrames' = A!WithTop(a) /\ armRegs' = armRegs /\ sp' = ARM64LowOf(a)
  BY <1>3, <1>4 DEF A!emitStoreLocal, ARM64LowOf
<1> HIDE DEF a, s, A!Top
<1> QED BY <1>1, <1>4, <1>6, <1>7, <1>8, <1>9, ARM64InsideInv

LEMMA ARM64PushInv ==
  ASSUME Small, ARM64IInv, A!emitPush
  PROVE  ARM64IInv'
<1> DEFINE a == [A!Top EXCEPT !.temps = Append(@, x0)]
           c == Len(A!Top.temps)
<1>1. A!Depth > 0 /\ A!Top.kind = "jit"
  BY ARM64Compiled DEF A!emitPush
<1>2. /\ A!Top \in ARM64Activation /\ ARM64Kept(A!Top, armMem) /\ sp = ARM64LowOf(A!Top) /\ armMem \in [A!Addr -> Int] /\ x0 \in Int
      /\ sp \in Nat /\ sp <= StackWords
  BY <1>1, ARM64Running
<1>3. A!Top.temps \in Seq(Int) /\ c \in Nat /\ DOMAIN A!Top.temps = 1 .. c
  BY <1>2, ARM64ActivationType
<1>4. Append(A!Top.temps, x0) \in Seq(Int) /\ Len(Append(A!Top.temps, x0)) = c + 1
      /\ DOMAIN Append(A!Top.temps, x0) = 1 .. c + 1
      /\ \A j \in 1 .. c : Append(A!Top.temps, x0)[j] = A!Top.temps[j]
      /\ Append(A!Top.temps, x0)[c + 1] = x0
  BY <1>2, <1>3
<1>5. a \in ARM64Activation /\ a.kind = A!Top.kind /\ a.slots = A!Top.slots /\ a.base = A!Top.base
      /\ a.saved = A!Top.saved /\ a.temps = Append(A!Top.temps, x0)
  <2> HIDE DEF A!Top
  <2> QED BY <1>4, <1>2 DEF ARM64Activation
<1>6. sp - 2 \in A!Addr /\ armMem' = [armMem EXCEPT ![sp - 2] = x0] /\ armMem' \in [A!Addr -> Int]
  <2>1. sp - 2 \in A!Addr
    BY <1>2 DEF A!emitPush, Small, A!Addr
  <2> QED BY <2>1, <1>2 DEF A!emitPush
<1> HIDE DEF a, A!Top
<1>7. /\ A!Top.base \in Nat /\ sp = A!Top.base - 2 * c /\ ARM64EndOf(A!Top) \in Int /\ ARM64EndOf(A!Top) >= A!Top.base + 4
  BY <1>2, ARM64Numbers DEF ARM64LowOf
<1>8. ARM64Kept(a, armMem')
  <2>1. \A k : k # sp - 2 => armMem'[k] = armMem[k]
    BY <1>2, <1>6
  <2>2. armMem'[sp - 2] = x0
    BY <1>2, <1>6
  <2>3. A!Top.base # sp - 2 /\ A!Top.base + 1 # sp - 2 /\ A!Top.base + 2 # sp - 2
    BY <1>3, <1>7
  <2>4. \A j \in 1 .. c : A!Top.base - 2 * j # sp - 2
    BY <1>3, <1>7
  <2>5. A!Top.base - 2 * (c + 1) = sp - 2
    BY <1>3, <1>7
  <2>6. \A j \in 1 .. c + 1 : armMem'[A!Top.base - 2 * j] = a.temps[j]
    <3> SUFFICES ASSUME NEW j \in 1 .. c + 1 PROVE armMem'[A!Top.base - 2 * j] = a.temps[j]
      OBVIOUS
    <3>1. CASE j = c + 1
      BY <3>1, <2>2, <2>5, <1>4, <1>5
    <3>2. CASE j # c + 1
      <4>1. j \in 1 .. c
        BY <3>2, <1>3
      <4> QED BY <4>1, <2>1, <2>4, <1>2, <1>3, <1>4, <1>5 DEF ARM64Kept
    <3> QED BY <3>1, <3>2
  <2> QED BY <2>1, <2>3, <2>6, <1>2, <1>4, <1>5 DEF ARM64Kept
<1>9. sp' = ARM64LowOf(a)
  <2>1. sp' = sp - 2 /\ ARM64LowOf(a) = A!Top.base - 2 * (c + 1)
    BY <1>4, <1>5 DEF A!emitPush, ARM64LowOf
  <2> QED BY <2>1, <1>3, <1>7
<1>10. A!TypeOK'
  BY <1>6 DEF A!emitPush, ARM64IInv, A!TypeOK
<1>11. \A k \in A!Addr : k >= ARM64EndOf(A!Top) => armMem'[k] = armMem[k]
  <2> SUFFICES ASSUME NEW k \in A!Addr, k >= ARM64EndOf(A!Top) PROVE armMem'[k] = armMem[k]
    OBVIOUS
  <2>1. k \in Int
    BY DEF A!Addr
  <2>2. k # sp - 2
    BY ONLY <2>1, <1>3, <1>7, k >= ARM64EndOf(A!Top)
  <2> QED BY <2>2, <1>2, <1>6
<1>12. armFrames' = A!WithTop(a) /\ armRegs' = armRegs
  BY DEF A!emitPush, a
<1>13. a.kind # "cpp"
  BY <1>1, <1>5
<1> QED BY <1>1, <1>5, <1>8, <1>9, <1>10, <1>11, <1>12, <1>13, ARM64InsideInv

LEMMA ARM64PopInv ==
  ASSUME Small, ARM64IInv, A!emitPop
  PROVE  ARM64IInv'
<1> DEFINE a == [A!Top EXCEPT !.temps = SubSeq(@, 1, Len(@) - 1)]
           c == Len(A!Top.temps)
<1>1. A!Depth > 0 /\ A!Top.kind = "jit"
  BY ARM64Compiled DEF A!emitPop
<1>2. /\ A!Top \in ARM64Activation /\ ARM64Kept(A!Top, armMem) /\ sp = ARM64LowOf(A!Top) /\ armMem \in [A!Addr -> Int]
      /\ sp \in Nat /\ sp <= StackWords
  BY <1>1, ARM64Running
<1>3. A!Top.temps \in Seq(Int) /\ c \in Nat /\ DOMAIN A!Top.temps = 1 .. c /\ c # 0
  BY <1>2, ARM64ActivationType DEF A!emitPop
<1>4. /\ SubSeq(A!Top.temps, 1, c - 1) \in Seq(Int) /\ Len(SubSeq(A!Top.temps, 1, c - 1)) = c - 1
      /\ DOMAIN SubSeq(A!Top.temps, 1, c - 1) = 1 .. c - 1
      /\ \A j \in 1 .. c - 1 : SubSeq(A!Top.temps, 1, c - 1)[j] = A!Top.temps[j]
  BY <1>3
<1>5. a \in ARM64Activation /\ a.kind = A!Top.kind /\ a.slots = A!Top.slots /\ a.base = A!Top.base
      /\ a.saved = A!Top.saved /\ a.temps = SubSeq(A!Top.temps, 1, c - 1)
  <2> HIDE DEF A!Top
  <2> QED BY <1>4, <1>2 DEF ARM64Activation
<1> HIDE DEF a, A!Top
<1>6. /\ A!Top.base \in Nat /\ A!Top.base <= StackWords /\ sp = A!Top.base - 2 * c
  BY <1>2, ARM64Numbers DEF ARM64LowOf
<1>7. armMem' = armMem
  BY DEF A!emitPop
<1>8. ARM64Kept(a, armMem')
  <2>1. \A j \in 1 .. c - 1 : j \in 1 .. c
    BY <1>3
  <2> QED BY <2>1, <1>2, <1>3, <1>4, <1>5, <1>7 DEF ARM64Kept
<1>9. sp' = ARM64LowOf(a) /\ sp' \in A!Addr
  <2>1. sp' = sp + 2 /\ ARM64LowOf(a) = A!Top.base - 2 * (c - 1)
    BY <1>4, <1>5 DEF A!emitPop, A!Popped, ARM64LowOf
  <2>2. \A b, k \in Nat : k # 0 => b - 2 * k + 2 = b - 2 * (k - 1) /\ b - 2 * k + 2 <= b
    OBVIOUS
  <2>3. sp' = ARM64LowOf(a) /\ sp' <= A!Top.base
    BY <2>1, <2>2, <1>3, <1>6
  <2>4. sp' \in Nat /\ StackWords \in Nat
    BY <2>1, <1>2 DEF Small
  <2> QED BY <2>3, <2>4, <1>6 DEF A!Addr
<1>10. A!TypeOK'
  <2>1. A!Popped \in A!Addr
    BY <1>9 DEF A!emitPop
  <2> QED BY <2>1, <1>9 DEF A!emitPop, ARM64IInv, A!TypeOK
<1>11. armFrames' = A!WithTop(a) /\ armRegs' = armRegs
  BY DEF A!emitPop, a
<1>12. a.kind # "cpp"
  BY <1>1, <1>5
<1> QED BY <1>1, <1>5, <1>7, <1>8, <1>9, <1>10, <1>11, <1>12, ARM64InsideInv

-------------------------------------------------------------------------------
(***************************************************************************)
(* A call writes its frame below sp and nowhere else.                      *)
(***************************************************************************)
LEMMA ARM64Frame ==
  ASSUME Small, ARM64IInv, NEW n \in 0 .. 58, NEW b, b = sp - A!FrameWords(n), b - n >= 0,
         armMem' = A!WithZeroed(A!WithSaved(armMem, b), b, n)
  PROVE  /\ b \in A!Addr /\ armMem' \in [A!Addr -> Int]
         /\ armMem'[b] = armRegs.x29 /\ armMem'[b + 1] = armRegs.pc /\ armMem'[b + 2] = armRegs.x19
         /\ \A k \in A!Addr : k >= sp => armMem'[k] = armMem[k]
<1>1. sp \in A!Addr /\ armRegs \in ARM64Registers /\ armMem \in [A!Addr -> Int]
  BY DEF ARM64IInv, A!TypeOK, ARM64Registers
<1>2. A!FrameWords(n) \in Int /\ A!FrameWords(n) >= n + 4
  BY ARM64FrameWordsIs
<1>3. sp \in Nat /\ sp <= StackWords /\ StackWords \in Nat
  BY <1>1 DEF A!Addr, Small
<1>4. b \in Int /\ b + A!FrameWords(n) = sp /\ b >= 0 /\ b + n + 4 <= sp
  BY <1>2, <1>3
<1>5. b \in A!Addr /\ b + 1 \in A!Addr /\ b + 2 \in A!Addr
  BY ONLY <1>3, <1>4, n \in 0 .. 58 DEF A!Addr
<1>6. \A i \in 0 .. n - 1 : A!Slot(b, i) < sp /\ A!Slot(b, i) \notin {b, b + 1, b + 2}
  BY <1>4, ARM64SlotIs
<1> DEFINE m == A!WithSaved(armMem, b)
<1>7. /\ m \in [A!Addr -> Int] /\ m[b] = armRegs.x29 /\ m[b + 1] = armRegs.pc /\ m[b + 2] = armRegs.x19
      /\ \A k \in A!Addr : k # b /\ k # b + 1 /\ k # b + 2 => m[k] = armMem[k]
  <2>1. armRegs.x29 \in Int /\ armRegs.pc \in Int /\ armRegs.x19 \in Int
    BY <1>1 DEF ARM64Registers
  <2>2. b # b + 1 /\ b # b + 2 /\ b + 1 # b + 2
    BY <1>4
  <2> QED BY <1>1, <1>5, <2>1, <2>2 DEF A!WithSaved, A!X19Slot
<1> HIDE DEF m
<1>8. \A k \in A!Addr : armMem'[k] = IF \E i \in 0 .. n-1 : k = A!Slot(b, i) THEN 0 ELSE m[k]
  BY DEF A!WithZeroed, m
<1>9. armMem' \in [A!Addr -> Int]
  BY <1>7 DEF A!WithZeroed, m
<1>10. \A k \in A!Addr : k >= sp => armMem'[k] = armMem[k]
  <2> SUFFICES ASSUME NEW k \in A!Addr, k >= sp PROVE armMem'[k] = armMem[k]
    OBVIOUS
  <2>1. k \in Int
    BY DEF A!Addr
  <2>2. k # b /\ k # b + 1 /\ k # b + 2
    BY ONLY <2>1, <1>3, <1>4, k >= sp, n \in 0 .. 58
  <2>3. \A i \in 0 .. n - 1 : k # A!Slot(b, i)
    <3> SUFFICES ASSUME NEW i \in 0 .. n - 1 PROVE k # A!Slot(b, i)
      OBVIOUS
    <3>1. A!Slot(b, i) \in Int /\ A!Slot(b, i) < sp
      BY <1>4, <1>6, ARM64SlotIs
    <3> QED BY <2>1, <3>1, <1>3
  <2> QED BY <2>2, <2>3, <1>7, <1>8
<1>11. armMem'[b] = armRegs.x29 /\ armMem'[b + 1] = armRegs.pc /\ armMem'[b + 2] = armRegs.x19
  BY <1>5, <1>6, <1>7, <1>8
<1> QED BY <1>5, <1>9, <1>10, <1>11

LEMMA ARM64EnterInv ==
  ASSUME Small, ARM64IInv, NEW kind \in {"jit", "cpp"}, NEW n \in 0 .. 58,
         kind = "cpp" => n = 0, NEW b, b = sp - A!FrameWords(n), NEW new \in ARM64Registers,
         new.pc = A!JitCode <=> kind = "jit", new.pc = A!JitCode => new.x29 = b,
         A!EnterFrame(kind, n, b, new), UNCHANGED << x0, x9 >>
  PROVE  ARM64IInv'
<1> DEFINE a == [kind |-> kind, slots |-> n, base |-> b, saved |-> armRegs,
                 locals |-> [i \in 1 .. n |-> 0], temps |-> << >>]
<1>1. /\ b \in A!Addr /\ armMem' \in [A!Addr -> Int]
      /\ armMem'[b] = armRegs.x29 /\ armMem'[b + 1] = armRegs.pc /\ armMem'[b + 2] = armRegs.x19
      /\ \A k \in A!Addr : k >= sp => armMem'[k] = armMem[k]
  BY ARM64Frame DEF A!EnterFrame
<1>2. A!Depth \in Nat /\ armFrames \in Seq(ARM64Activation) /\ armRegs \in ARM64Registers /\ ARM64Returns(A!Depth, armRegs)
      /\ sp \in A!Addr /\ sp % 2 = StackWords % 2
  BY ARM64FrameTypes DEF ARM64IInv, A!TypeOK, ARM64Registers
<1>3. /\ a \in ARM64Activation /\ a.kind = kind /\ a.slots = n /\ a.base = b /\ a.saved = armRegs
      /\ a.temps = << >>
  <2>1. [i \in 1 .. n |-> 0] \in Seq(Int)
    OBVIOUS
  <2> QED BY <2>1, <1>1, <1>2 DEF ARM64Activation
<1>4. armFrames' = Append(armFrames, a) /\ sp' = b /\ armRegs' = new /\ b - n >= 0
  BY DEF A!EnterFrame
<1> HIDE DEF a
<1>5. /\ armFrames' \in Seq(ARM64Activation) /\ A!Depth' = A!Depth + 1 /\ armFrames'[A!Depth + 1] = a
      /\ \A d \in 1 .. A!Depth : armFrames'[d] = armFrames[d]
  BY <1>2, <1>3, <1>4 DEF A!Depth
<1>6. A!FrameWords(n) \in Int /\ A!FrameWords(n) % 2 = 0 /\ sp \in Int /\ b + A!FrameWords(n) = sp
      /\ b \in Int
  <2>1. sp \in Int
    BY <1>2 DEF A!Addr
  <2> QED BY <2>1, ARM64FrameWordsIs
<1>7. ARM64LowOf(a) = b /\ ARM64EndOf(a) = sp
  BY <1>3, <1>6 DEF ARM64LowOf, ARM64EndOf
<1>8. ARM64Fits(a, A!Depth + 1)
  <2>0. PICK k : k = A!Depth + 1
    OBVIOUS
  <2>1. sp = IF k = 1 THEN StackWords ELSE ARM64LowOf(armFrames[k - 1])
    <3>1. k - 1 = A!Depth /\ (k = 1 <=> A!Depth = 0)
      BY <2>0, <1>2
    <3> QED BY <3>1 DEF ARM64IInv
  <2>2. ARM64Returns(k - 1, a.saved)
    <3>1. k - 1 = A!Depth
      BY <2>0, <1>2
    <3> QED BY <3>1, <1>2, <1>3
  <2>3. a.slots <= a.base
    BY <1>3, <1>4, <1>6
  <2>4. a.kind = "cpp" => a.slots = 0 /\ a.temps = << >>
    BY <1>3
  <2>5. ARM64EndOf(a) = IF k = 1 THEN StackWords ELSE ARM64LowOf(armFrames[k - 1])
    BY <2>1, <1>7
  <2> HIDE DEF ARM64Returns
  <2>6. ARM64Fits(a, k)
    BY ONLY <2>2, <2>3, <2>4, <2>5 DEF ARM64Fits
  <2> QED BY <2>0, <2>6
<1>9. ARM64Kept(a, armMem')
  <2>1. DOMAIN << >> = {}
    OBVIOUS
  <2> QED BY <2>1, <1>1, <1>3 DEF ARM64Kept
<1>10. \A d \in 1 .. A!Depth, k \in A!Addr : k >= ARM64LowOf(armFrames[d]) => armMem'[k] = armMem[k]
  <2> SUFFICES ASSUME NEW d \in 1 .. A!Depth, NEW k \in A!Addr, k >= ARM64LowOf(armFrames[d])
               PROVE  armMem'[k] = armMem[k]
    OBVIOUS
  <2>1. sp <= ARM64LowOf(armFrames[d]) /\ armFrames[d] \in ARM64Activation
    BY ARM64AboveSp
  <2>2. ARM64LowOf(armFrames[d]) \in Int
    BY ONLY <2>1, Small, ARM64Numbers
  <2>3. k \in Int
    BY DEF A!Addr
  <2>4. k >= sp
    BY ONLY <2>1, <2>2, <2>3, <1>6, k >= ARM64LowOf(armFrames[d])
  <2> QED BY <2>4, <1>1
<1>11. sp' % 2 = StackWords % 2
  <2>1. \A w, s \in Int : w % 2 = 0 => (s - w) % 2 = s % 2
    OBVIOUS
  <2> QED BY <2>1, <1>2, <1>4, <1>6
<1>12. A!TypeOK'
  BY <1>1, <1>4 DEF ARM64IInv, A!TypeOK, ARM64Registers
<1>13. ARM64Newest(a)
  <2>1. A!Depth' >= 1 /\ A!Depth' <= A!Depth + 1 /\ 1 .. A!Depth' - 1 = 1 .. A!Depth
    BY <1>2, <1>5
  <2> QED BY <2>1, <1>3, <1>4, <1>5, <1>7, <1>8, <1>9, <1>10, <1>11 DEF ARM64Newest
<1> QED BY <1>12, <1>13, ARM64StepInv

LEMMA ARM64PrologueInv ==
  ASSUME Small, ARM64IInv, NEW n \in LocalCounts, NEW args \in Value, A!emitPrologue(n, args)
  PROVE  ARM64IInv'
<1> DEFINE b == sp + A!Imm7(-A!FrameWords(n))
           new == [pc |-> A!JitCode, x19 |-> args, x29 |-> b]
<1>1. n \in 0 .. 58 /\ args \in Int /\ sp \in A!Addr
  BY DEF Small, FewLocals, ARM64IInv, A!TypeOK
<1>2. b = sp - A!FrameWords(n) /\ b \in Int
  <2>1. sp \in Int
    BY <1>1 DEF A!Addr
  <2>2. A!Imm7(-A!FrameWords(n)) = -A!FrameWords(n) /\ A!FrameWords(n) \in Int
    BY <1>1, ARM64FrameWordsIs
  <2> QED BY <2>1, <2>2
<1>3. A!EnterFrame("jit", n, b, new) /\ UNCHANGED << x0, x9 >>
  BY DEF A!emitPrologue
<1> HIDE DEF b
<1>4. new \in ARM64Registers /\ new.pc = A!JitCode /\ new.x29 = b
  BY <1>1, <1>2 DEF ARM64Registers, A!JitCode
<1> HIDE DEF new
<1> QED BY <1>1, <1>2, <1>3, <1>4, ARM64EnterInv

LEMMA ARM64CallRuntimeInv ==
  ASSUME Small, ARM64IInv, NEW v \in Value, A!emitCallRuntime(v)
  PROVE  ARM64IInv'
<1> DEFINE b == sp - A!FrameWords(0)
           new == [pc |-> A!CppCode, x19 |-> v, x29 |-> v]
<1>1. A!EnterFrame("cpp", 0, b, new) /\ UNCHANGED << x0, x9 >>
  BY DEF A!emitCallRuntime
<1>2. new \in ARM64Registers /\ new.pc # A!JitCode
  BY DEF ARM64Registers, A!JitCode, A!CppCode, Small
<1> HIDE DEF new
<1>3. 0 \in 0 .. 58
  OBVIOUS
<1> QED BY <1>1, <1>2, <1>3, ARM64EnterInv DEF b

(***************************************************************************)
(* A return reads the frame of the newest activation; what it finds in the *)
(* registers is what ARM64Fits says the activation was entered with.            *)
(***************************************************************************)
LEMMA ARM64LeaveInv ==
  ASSUME Small, ARM64IInv, A!Depth > 0, A!Top.temps = << >>, A!LeaveFrame(A!FrameWords(A!Top.slots)),
         x0' \in Int, x9' \in Int
  PROVE  ARM64IInv'
<1>1. /\ A!Depth \in Nat /\ A!Top \in ARM64Activation
      /\ ARM64Fits(A!Top, A!Depth) /\ ARM64Kept(A!Top, armMem) /\ sp = ARM64LowOf(A!Top)
      /\ sp \in Nat /\ armRegs \in ARM64Registers /\ armMem \in [A!Addr -> Int]
  BY ARM64Running
<1>2. /\ A!Top.base \in Nat /\ A!FrameWords(A!Top.slots) \in Int /\ A!FrameWords(A!Top.slots) % 2 = 0
      /\ ARM64EndOf(A!Top) \in Int /\ ARM64EndOf(A!Top) >= A!Top.base + 4
  BY <1>1, ARM64Numbers
<1>3. A!Top.slots \in 0 .. 58 /\ A!Top.saved \in ARM64Registers
  BY <1>1, ARM64ActivationType
<1>4. sp = A!Top.base
  <2>1. Len(A!Top.temps) = 0
    OBVIOUS
  <2> QED BY <2>1, <1>1, <1>2 DEF ARM64LowOf
<1> HIDE DEF A!Top
<1>5. sp' = ARM64EndOf(A!Top) /\ armRegs' = A!Top.saved /\ armMem' = armMem /\ armFrames' = SubSeq(armFrames, 1, A!Depth - 1)
  <2>1. sp' = ARM64EndOf(A!Top)
    <3>1. A!Imm7(A!FrameWords(A!Top.slots)) = A!FrameWords(A!Top.slots)
      BY <1>3, ARM64FrameWordsIs
    <3> QED BY <3>1, <1>4 DEF A!LeaveFrame, ARM64EndOf
  <2>2. armRegs' = [pc |-> A!Top.saved.pc, x29 |-> A!Top.saved.x29, x19 |-> A!Top.saved.x19]
    BY <1>1, <1>4 DEF A!LeaveFrame, ARM64Kept, A!X19Slot
  <2>3. armRegs' = A!Top.saved
    BY <2>2, <1>3 DEF ARM64Registers
  <2> QED BY <2>1, <2>3 DEF A!LeaveFrame
<1>6. sp' = (IF A!Depth = 1 THEN StackWords ELSE ARM64LowOf(armFrames[A!Depth - 1]))
      /\ ARM64Returns(A!Depth - 1, armRegs')
  BY <1>1, <1>5 DEF ARM64Fits
<1>7. sp' % 2 = StackWords % 2
  <2>1. sp % 2 = StackWords % 2 /\ ARM64EndOf(A!Top) = sp + A!FrameWords(A!Top.slots)
    BY <1>4 DEF ARM64IInv, ARM64EndOf
  <2>2. \A s, w \in Int : w % 2 = 0 => (s + w) % 2 = s % 2
    OBVIOUS
  <2>3. sp \in Int /\ A!FrameWords(A!Top.slots) \in Int
    BY <1>1, <1>2
  <2>4. (sp + A!FrameWords(A!Top.slots)) % 2 = sp % 2
    BY ONLY <2>2, <2>3, <1>2
  <2> QED BY <2>1, <2>4, <1>5
<1>8. /\ armFrames' \in Seq(ARM64Activation) /\ A!Depth' = A!Depth - 1
      /\ \A d \in 1 .. A!Depth - 1 : armFrames'[d] = armFrames[d] /\ d \in 1 .. A!Depth
  <2>1. armFrames \in Seq(ARM64Activation) /\ A!Depth = Len(armFrames) /\ A!Depth > 0
    BY DEF ARM64IInv, A!Depth
  <2>2. SubSeq(armFrames, 1, Len(armFrames) - 1) \in Seq(ARM64Activation)
        /\ Len(SubSeq(armFrames, 1, Len(armFrames) - 1)) = Len(armFrames) - 1
        /\ \A d \in 1 .. Len(armFrames) - 1 : SubSeq(armFrames, 1, Len(armFrames) - 1)[d] = armFrames[d]
                                           /\ d \in 1 .. Len(armFrames)
    BY <2>1
  <2> QED BY <2>1, <2>2, <1>5 DEF A!Depth
<1>9. CASE A!Depth = 1
  <2>1. A!Depth' = 0 /\ 1 .. A!Depth' = {}
    BY <1>8, <1>9
  <2>2. ARM64Returns(A!Depth, armRegs)'
    BY <2>1, <1>6, <1>9 DEF ARM64Returns
  <2>3. sp' = StackWords
    BY <1>6, <1>9
  <2>4. A!TypeOK'
    <3>1. StackWords \in A!Addr
      BY DEF Small, A!Addr
    <3> QED BY <3>1, <2>3, <1>1, <1>3, <1>5 DEF A!TypeOK, ARM64Registers
  <2>5. ARM64Apart'
    BY <2>1 DEF ARM64Apart
  <2> HIDE DEF ARM64Returns
  <2> QED BY <2>1, <2>2, <2>3, <2>4, <2>5, <1>7, <1>8 DEF ARM64IInv
<1>10. CASE A!Depth # 1
  <2> DEFINE a == armFrames[A!Depth - 1]
  <2>1. A!Depth - 1 \in 1 .. A!Depth /\ A!Depth - 1 \in 1 .. A!Depth - 1 /\ A!Depth' >= 1 /\ A!Depth' <= A!Depth + 1
    BY <1>1, <1>8, <1>10
  <2>2. a \in ARM64Activation /\ ARM64Fits(a, A!Depth - 1) /\ ARM64Kept(a, armMem)
    BY <2>1, ARM64FrameTypes DEF ARM64IInv
  <2>3. ARM64Returns(A!Depth - 1, armRegs') /\ A!Depth - 1 > 0
    BY <2>1, <1>1, <1>6
  <2>4. A!TypeOK'
    <3>1. ARM64LowOf(a) \in Int /\ sp' = ARM64LowOf(a) /\ ARM64LowOf(a) <= a.base /\ a.base <= StackWords
      BY ONLY <2>2, <1>6, <1>10, Small, ARM64Numbers
    <3>2. sp' >= 0
      BY <1>2, <1>5
    <3>3. sp' \in A!Addr
      <4>1. a.base \in Nat /\ StackWords \in Nat
        BY <2>2, ARM64Numbers DEF Small
      <4> QED BY ONLY <3>1, <3>2, <4>1 DEF A!Addr
    <3> QED BY <3>3, <1>1, <1>3, <1>5 DEF A!TypeOK, ARM64Registers
  <2>5. armFrames'[A!Depth'] = a
    BY <2>1, <1>8
  <2>6. ARM64Fits(a, A!Depth') /\ ARM64Kept(a, armMem')
    BY <2>2, <1>5, <1>8
  <2>7. \A d \in 1 .. A!Depth' - 1 : armFrames'[d] = armFrames[d]
    <3>1. \A d \in 1 .. A!Depth - 1 - 1 : d \in 1 .. A!Depth - 1
      BY <1>1
    <3> QED BY <3>1, <1>8
  <2>8. /\ armRegs'.pc = A!JitCode <=> a.kind = "jit"
        /\ armRegs'.pc = A!JitCode => armRegs'.x29 = a.base
    BY <2>3 DEF ARM64Returns
  <2>9. sp' = ARM64LowOf(a)
    BY <1>6, <1>10
  <2> HIDE DEF a
  <2>10. ARM64Newest(a)
    BY <2>1, <2>2, <2>5, <2>6, <2>7, <2>8, <2>9, <1>5, <1>7, <1>8 DEF ARM64Newest
  <2> QED BY <2>4, <2>10, ARM64StepInv
<1> QED BY <1>9, <1>10

LEMMA ARM64EpilogueInv ==
  ASSUME Small, ARM64IInv, A!emitEpilogue
  PROVE  ARM64IInv'
<1>1. A!Depth > 0
  BY ARM64Compiled DEF A!emitEpilogue
<1>2. x0' \in Int /\ x9' \in Int
  BY DEF A!emitEpilogue, ARM64IInv, A!TypeOK
<1> QED BY <1>1, <1>2, ARM64LeaveInv DEF A!emitEpilogue

LEMMA ARM64RuntimeReturnInv ==
  ASSUME Small, ARM64IInv, NEW v \in Value, A!RuntimeReturn(v)
  PROVE  ARM64IInv'
<1>1. A!Depth > 0
  <2>1. armFrames \in Seq(ARM64Activation) /\ armFrames # << >>
    BY DEF A!RuntimeReturn, ARM64IInv
  <2> QED BY <2>1 DEF A!Depth
<1>2. A!Top \in ARM64Activation /\ A!Top.kind # "jit" /\ ARM64Fits(A!Top, A!Depth)
  BY <1>1, ARM64Running DEF A!RuntimeReturn, A!JitCode, A!CppCode
<1>3. A!Top.slots = 0 /\ A!Top.temps = << >>
  BY <1>2, ARM64ActivationType DEF ARM64Fits
<1>4. x0' \in Int /\ x9' \in Int
  BY DEF A!RuntimeReturn, Small
<1> QED BY <1>1, <1>3, <1>4, ARM64LeaveInv DEF A!RuntimeReturn

LEMMA ARM64InitInv == ASSUME Small, A!Init PROVE ARM64IInv
<1>1. A!Depth = 0 /\ 1 .. A!Depth = {} /\ armFrames \in Seq(ARM64Activation)
  BY DEF A!Init, A!Depth
<1>2. A!TypeOK
  BY DEF A!Init, A!TypeOK, A!Addr, Small, A!CppCode
<1>3. ARM64Returns(A!Depth, armRegs)
  BY <1>1 DEF A!Init, ARM64Returns, A!CppCode, A!JitCode
<1>4. ARM64Apart
  BY <1>1 DEF ARM64Apart
<1> QED BY <1>1, <1>2, <1>3, <1>4 DEF A!Init, ARM64IInv

LEMMA ARM64NextInv == ASSUME Small, ARM64IInv, [A!Next]_(A!vars) PROVE ARM64IInv'
<1>1. ASSUME NEW n \in LocalCounts, NEW args \in Value, A!emitPrologue(n, args) PROVE ARM64IInv'
  BY <1>1, ARM64PrologueInv
<1>2. ASSUME NEW v \in Value, A!emitCallRuntime(v) PROVE ARM64IInv'
  BY <1>2, ARM64CallRuntimeInv
<1>3. ASSUME NEW v \in Value, A!RuntimeReturn(v) PROVE ARM64IInv'
  BY <1>3, ARM64RuntimeReturnInv
<1>4. ASSUME NEW v \in Value, A!emitLoadImmediate(v) PROVE ARM64IInv'
  BY <1>4, ARM64LoadImmediateInv
<1>5. ASSUME NEW i \in Slots, A!emitLoadLocal(i) PROVE ARM64IInv'
  BY <1>5, ARM64LoadLocalInv
<1>6. ASSUME NEW i \in Slots, A!emitStoreLocal(i) PROVE ARM64IInv'
  BY <1>6, ARM64StoreLocalInv
<1>7. CASE A!emitEpilogue
  BY <1>7, ARM64EpilogueInv
<1>8. CASE A!emitPush
  BY <1>8, ARM64PushInv
<1>9. CASE A!emitPop
  BY <1>9, ARM64PopInv
<1>10. CASE UNCHANGED A!vars
  <2>1. x0' \in Int /\ x9' \in Int
    BY <1>10 DEF A!vars, ARM64IInv, A!TypeOK
  <2> QED BY <2>1, <1>10, ARM64RegisterInv DEF A!vars
<1> QED BY <1>1, <1>2, <1>3, <1>4, <1>5, <1>6, <1>7, <1>8, <1>9, <1>10 DEF A!Next

LEMMA ARM64Invariant == ASSUME Small PROVE A!Spec => []ARM64IInv
<1>1. A!Init => ARM64IInv
  BY ARM64InitInv
<1>2. ARM64IInv /\ [A!Next]_(A!vars) => ARM64IInv'
  BY ARM64NextInv
<1> QED BY <1>1, <1>2, PTL DEF A!Spec

\* The invariant speaks of the number of activations, the properties of the sequence.
LEMMA ARM64Emptiness == ASSUME ARM64IInv PROVE A!Depth \in Nat /\ (armFrames = << >> <=> A!Depth = 0)
BY DEF ARM64IInv, A!Depth

------------------------------------------------------------------------------
(* The process on one of the two machines: a step on the other one is none of this. *)

LEMMA ARM64Machine == MachineSpec => A!Spec
<1>1. createCodeGenerator => A!Init
  BY DEF createCodeGenerator
<1>2. [run /\ UNCHANGED arch]_<< arch, vars, armVars >> => [A!Next]_(A!vars)
  BY DEF run, armVars, A!vars
<1> QED BY <1>1, <1>2, PTL DEF MachineSpec, A!Spec

LEMMA X86Machine == MachineSpec => Spec
<1>1. createCodeGenerator => Init
  BY DEF createCodeGenerator
<1>2. [run /\ UNCHANGED arch]_<< arch, vars, armVars >> => [Next]_vars
  BY DEF run
<1> QED BY <1>1, <1>2, PTL DEF MachineSpec, Spec

LEMMA ARM64Holds == ASSUME FewLocals PROVE MachineSpec => []ARM64IInv
BY SmallIs, ARM64Invariant, ARM64Machine, PTL

\* The registers and the stack of a process on ARM64 hold words, and sp never leaves the
\* stack.
THEOREM ARM64TypeCorrect == ASSUME FewLocals PROVE MachineSpec => []ARM64TypeOK
<1>1. ARM64IInv => ARM64TypeOK
  BY DEF ARM64IInv, ARM64TypeOK
<1> QED BY <1>1, ARM64Holds, PTL

\* On ARM64, whatever the stack's size and the depth of calls, each activation begins
\* where its caller ends and sp stays aligned.
THEOREM ARM64FramesApart == ASSUME FewLocals PROVE MachineSpec => []ARM64FramesTile
<1>1. ARM64IInv => A!FramesTile
  <2> SUFFICES ASSUME ARM64IInv PROVE A!FramesTile
    OBVIOUS
  <2>1. \A d \in 1 .. A!Depth :
          armFrames[d].base + A!FrameWords(armFrames[d].slots)
            = IF d = 1 THEN StackWords ELSE A!Low(d - 1)
    BY DEF ARM64IInv, ARM64Fits, ARM64EndOf, ARM64LowOf, A!Low
  <2>2. sp = IF armFrames = << >> THEN StackWords ELSE A!Low(A!Depth)
    BY ARM64Emptiness DEF ARM64IInv, ARM64LowOf, A!Low
  <2> QED BY <2>1, <2>2 DEF ARM64IInv, A!FramesTile
<1>2. ARM64IInv => ARM64FramesTile
  BY <1>1 DEF ARM64FramesTile
<1> QED BY <1>2, ARM64Holds, PTL

\* On ARM64 what a return needs is never overwritten: the locals an activation keeps below
\* its frame are lost to the next push or call, but the registers it gives back never are.
THEOREM ARM64ReturnsSafe == ASSUME FewLocals PROVE MachineSpec => []ARM64ReturnsIntact
<1>1. ARM64IInv => A!ReturnsIntact
  <2> SUFFICES ASSUME ARM64IInv PROVE A!ReturnsIntact
    OBVIOUS
  <2>1. \A d \in 1 .. A!Depth : ARM64Kept(armFrames[d], armMem)
    BY DEF ARM64IInv
  <2>2. /\ armRegs.pc = A!JitCode <=> armFrames # << >> /\ A!Top.kind = "jit"
        /\ armRegs.pc = A!JitCode => armRegs.x29 = A!Top.base
    BY ARM64Emptiness DEF ARM64IInv, ARM64Returns, A!Top
  <2> QED BY <2>1, <2>2 DEF ARM64Kept, A!ReturnsIntact
<1>2. ARM64IInv => ARM64ReturnsIntact
  BY <1>1 DEF ARM64ReturnsIntact
<1> QED BY <1>2, ARM64Holds, PTL
==============================================================================
