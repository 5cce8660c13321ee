-------------------------------- MODULE Machines --------------------------------
(***************************************************************************)
(* The two machines native code is generated for.  A process runs on one   *)
(* of them: createCodeGenerator selects the code generator when the driver *)
(* is constructed, and it stays.                                           *)
(***************************************************************************)
EXTENDS X86Frame

VARIABLES
  arch,
  armMem, sp, x0, x9, armRegs, armFrames    \* the variables of ARM64Frame

armVars == << armMem, sp, x0, x9, armRegs, armFrames >>

A == INSTANCE ARM64Frame WITH mem <- armMem, regs <- armRegs, frames <- armFrames

createCodeGenerator ==
  /\ arch \in {"x86_64", "arm64"}
  /\ Init /\ A!Init

run ==
  \/ arch = "x86_64" /\ Next /\ UNCHANGED armVars
  \/ arch = "arm64" /\ A!Next /\ UNCHANGED vars

MachineSpec == createCodeGenerator /\ [][run /\ UNCHANGED arch]_<< arch, vars, armVars >>

-------------------------------------------------------------------------------
\* ARM64: registers and stack hold words.
ARM64TypeOK == A!TypeOK

\* ARM64: activations tile the stack and sp stays aligned.
ARM64FramesTile == A!FramesTile

\* ARM64: whatever becomes of the locals, a return finds the registers of the caller.
ARM64ReturnsIntact == A!ReturnsIntact
===============================================================================
