--------------------------- MODULE JitCalls_proofs ---------------------------
(***************************************************************************)
(* Machine-checked proofs about JitCalls: for programs whose calls are     *)
(* nested in first arguments only, with enough arguments and no more than  *)
(* the buffer holds, every callee receives its own call site's arguments.  *)
(***************************************************************************)
EXTENDS JitCalls, TLAPS

SimplePrograms ==
  /\ ~LateNesting
  /\ \A s \in Site :
       /\ s.argc <= ArgSlots
       /\ s.callee \in Compiled => Params[s.callee] <= s.argc /\ Params[s.callee] <= ArgReach

\* TypeOK says that open sites are the program's, which bounds their arguments; with
\* it BufferIsInnermost is inductive.
IInv == TypeOK /\ BufferIsInnermost

LEMMA OpenSiteType ==
  ASSUME NEW o \in CBV!OpenSite
  PROVE  /\ o.callee \in CBV!Fn /\ o.argc \in Nat /\ o.args \in Seq(Value)
         /\ Len(o.args) \in Nat /\ Len(o.args) <= o.argc
         /\ [callee |-> o.callee, argc |-> o.argc] \in Site
BY DEF CBV!OpenSite

LEMMA ActivationType ==
  ASSUME NEW a \in CBV!Activation
  PROVE  /\ a.fn \in CBV!Defined /\ a.params \in Seq(Value)
         /\ a.sites \in Seq(CBV!OpenSite) /\ Len(a.sites) \in Nat
BY DEF CBV!Activation

LEMMA NewCallType ==
  ASSUME NEW f \in CBV!Defined, NEW ps \in [1 .. Params[f] -> Value]
  PROVE  CBV!NewCall(f, ps) \in CBV!Activation
<1>1. Params[f] \in Nat
  BY ParamsAssumption DEF CBV!Fn
<1>2. ps \in Seq(Value)
  BY <1>1
<1>3. << >> \in Seq(CBV!OpenSite)
  OBVIOUS
<1> QED BY <1>2, <1>3 DEF CBV!NewCall, CBV!Activation

\* What emitLoadArg finds when the array is long enough: the arguments themselves.
LEMMA LoadsArguments ==
  ASSUME SimplePrograms, NEW s \in Site, s.callee \in Compiled,
         NEW args \in Seq(Value), Len(args) = s.argc,
         NEW array, NEW size \in Nat, s.argc <= size,
         \A i \in 1 .. s.argc : array[i] = args[i], NEW junk
  PROVE  /\ emitLoadArgs(s.callee, array, size, junk) = CBV!Passed(s.callee, args)
         /\ CBV!Passed(s.callee, args) \in [1 .. Params[s.callee] -> Value]
<1>1. /\ s.argc \in Nat /\ Params[s.callee] \in Nat /\ ArgReach \in Nat
      /\ Params[s.callee] <= s.argc /\ Params[s.callee] <= ArgReach
  BY SiteAssumption, ParamsAssumption, SlotsAssumption DEF SimplePrograms
<1>2. ASSUME NEW i \in 1 .. Params[s.callee]
      PROVE  /\ i <= size /\ i <= ArgReach /\ i <= Len(args)
             /\ array[i] = args[i] /\ args[i] \in Value
  BY <1>1
<1> QED BY <1>2 DEF emitLoadArgs, CBV!Passed
LEMMA DropLastType ==
  ASSUME NEW S, NEW q \in Seq(S), q # << >>
  PROVE  /\ Len(q) \in Nat \ {0}
         /\ CBV!DropLast(q) \in Seq(S) /\ Len(CBV!DropLast(q)) = Len(q) - 1
         /\ \A k \in 1 .. Len(q) - 1 : CBV!DropLast(q)[k] = q[k]
<1>1. Len(q) \in Nat \ {0} /\ q \in [1 .. Len(q) -> S]
  OBVIOUS
<1>2. CBV!DropLast(q) = [k \in 1 .. Len(q) - 1 |-> q[k]]
  BY <1>1 DEF CBV!DropLast
<1>3. [k \in 1 .. Len(q) - 1 |-> q[k]] \in [1 .. Len(q) - 1 -> S]
  BY <1>1
<1> QED BY <1>1, <1>2, <1>3

\* The activation that runs, its call sites and the innermost of them.
LEMMA TopType ==
  ASSUME TypeOK, stack # << >>
  PROVE  /\ Len(stack) \in Nat \ {0} /\ Top \in CBV!Activation
         /\ Top.fn \in CBV!Defined
         /\ Sites \in Seq(CBV!OpenSite) /\ Len(Sites) \in Nat
         /\ CBV!DropLast(Sites) \in Seq(CBV!OpenSite)
         /\ Sites # << >> => /\ Len(Sites) # 0 /\ Site1 \in CBV!OpenSite
                             /\ Len(CBV!DropLast(Sites)) = Len(Sites) - 1
<1>1. Len(stack) \in Nat \ {0} /\ Top \in CBV!Activation
  BY DEF TypeOK, Top
<1>2. Sites \in Seq(CBV!OpenSite) /\ Len(Sites) \in Nat /\ Top.fn \in CBV!Defined
  BY <1>1, ActivationType DEF Sites
<1>3. CASE Sites = << >>
  BY <1>1, <1>2, <1>3 DEF CBV!DropLast
<1>4. CASE Sites # << >>
  <2>1. Len(Sites) # 0 /\ Site1 \in CBV!OpenSite
    BY <1>2, <1>4 DEF Site1
  <2> QED BY <1>1, <1>2, <1>4, <2>1, DropLastType
<1> QED BY <1>1, <1>2, <1>3, <1>4

\* Replacing the open sites of the running activation touches nothing else.
LEMMA WithSitesType ==
  ASSUME TypeOK, stack # << >>, NEW ss \in Seq(CBV!OpenSite)
  PROVE  /\ CBV!WithSites(ss) \in Seq(CBV!Activation)
         /\ Len(CBV!WithSites(ss)) = Len(stack)
         /\ CBV!WithSites(ss)[Len(stack)].sites = ss
         /\ \A d \in 1 .. Len(stack) - 1 : CBV!WithSites(ss)[d] = stack[d]
<1>1. Len(stack) \in Nat \ {0} /\ Top \in CBV!Activation
  BY TopType
<1>2. PICK a : a = [Top EXCEPT !.sites = ss]
  OBVIOUS
<1>3. a \in CBV!Activation /\ a.sites = ss
  BY <1>1, <1>2 DEF CBV!Activation
<1>4. CBV!WithSites(ss) = [stack EXCEPT ![Len(stack)] = a]
  BY <1>2 DEF CBV!WithSites, CBV!Top, Top
<1>5. stack \in Seq(CBV!Activation)
  BY DEF TypeOK
<1> QED BY <1>1, <1>3, <1>4, <1>5

LEMMA InitInv == Init => IInv
<1> SUFFICES ASSUME Init PROVE IInv
  OBVIOUS
<1>1. TypeOK
  <2>1. stack \in Seq(CBV!Activation)
    BY DEF Init
  <2>2. jit_call_args \in [0 .. ArgSlots - 1 -> Value]
    BY ValueAssumption DEF Init
  <2>3. jit_call_arg_index \in 0 .. ArgSlots
    BY SlotsAssumption DEF Init
  <2>4. aborted \in BOOLEAN
    BY Zenon DEF Init
  <2> QED BY <2>1, <2>2, <2>3, <2>4 DEF TypeOK
<1>2. BufferIsInnermost
  BY DEF Init, BufferIsInnermost
<1> QED BY <1>1, <1>2 DEF IInv

LEMMA DriverStep ==
  ASSUME SimplePrograms, IInv, NEW s \in Site, NEW args \in [1 .. s.argc -> Value],
         NEW junk \in Value, callCompiledFromDriver(s, args, junk)
  PROVE  IInv' /\ CBV!TopCall(s, args)
<1>1. s.argc \in Nat /\ s.callee \in Compiled
  BY SiteAssumption DEF callCompiledFromDriver
<1>2. args \in Seq(Value) /\ Len(args) = s.argc
  BY <1>1
<1>3. PICK ps : ps = emitLoadArgs(s.callee, args, s.argc, junk)
  OBVIOUS
<1>4. ps = CBV!Passed(s.callee, args) /\ ps \in [1 .. Params[s.callee] -> Value]
  <2>1. s.argc <= s.argc /\ \A i \in 1 .. s.argc : args[i] = args[i]
    BY <1>1
  <2>2. /\ emitLoadArgs(s.callee, args, s.argc, junk) = CBV!Passed(s.callee, args)
        /\ CBV!Passed(s.callee, args) \in [1 .. Params[s.callee] -> Value]
    BY <1>1, <1>2, <2>1, LoadsArguments, Zenon
  <2> QED BY <1>3, <2>2
<1>5. PICK c : c = CBV!NewCall(s.callee, ps)
  OBVIOUS
<1>6. c \in CBV!Activation /\ c.sites = << >>
  BY <1>1, <1>4, <1>5, NewCallType DEF CBV!Defined, CBV!NewCall
<1>7. stack' = << c >>
  BY <1>3, <1>5 DEF callCompiledFromDriver
<1>8. TypeOK'
  BY <1>6, <1>7 DEF callCompiledFromDriver, IInv, TypeOK
<1>9. BufferIsInnermost'
  BY <1>6, <1>7 DEF callCompiledFromDriver, IInv, BufferIsInnermost, Sites, Top
<1>10. CBV!TopCall(s, args)
  BY <1>2, <1>4, <1>5, <1>7 DEF callCompiledFromDriver, CBV!TopCall
<1> QED BY <1>8, <1>9, <1>10 DEF IInv

LEMMA BeginStep ==
  ASSUME SimplePrograms, IInv, NEW s \in Site, beginCall(s)
  PROVE  IInv' /\ CBV!OpenCall(s)
<1>0. TypeOK /\ stack # << >> /\ ~aborted
  BY DEF IInv, beginCall, CBV!OpenCall, CBV!InCode, CBV!Running
<1>1. PICK o : o = [callee |-> s.callee, argc |-> s.argc, args |-> << >>]
  OBVIOUS
<1>2. o \in CBV!OpenSite /\ o.args = << >>
  BY <1>1, SiteAssumption DEF CBV!OpenSite
<1>3. /\ Len(stack) \in Nat \ {0}
      /\ Sites \in Seq(CBV!OpenSite) /\ Len(Sites) \in Nat
  BY <1>0, TopType
<1>4. PICK ss : ss = Append(Sites, o)
  OBVIOUS
<1>5. /\ ss \in Seq(CBV!OpenSite) /\ Len(ss) = Len(Sites) + 1 /\ ss[Len(ss)] = o
      /\ \A k \in 1 .. Len(Sites) : ss[k] = Sites[k]
  BY <1>2, <1>3, <1>4
<1>6. stack' = CBV!WithSites(ss) /\ UNCHANGED << aborted, jit_call_args, jit_call_arg_index >>
  BY <1>1, <1>4 DEF beginCall, CBV!OpenCall, CBV!Sites, CBV!Top, Sites, Top
<1>7. /\ stack' \in Seq(CBV!Activation) /\ Len(stack') = Len(stack)
      /\ stack'[Len(stack)].sites = ss
      /\ \A d \in 1 .. Len(stack) - 1 : stack'[d] = stack[d]
  BY <1>0, <1>5, <1>6, WithSitesType
<1>8. NoneWaiting(Sites)
  BY DEF beginCall, CBV!OpenCall, CBV!MayOpen, SimplePrograms, NoneWaiting,
         CBV!Sites, CBV!Top, Sites, Top
<1>9. jit_call_arg_index = 0
  BY <1>0, <1>3, <1>8 DEF IInv, BufferIsInnermost, NoneWaiting, Site1
<1>10. TypeOK'
  BY <1>0, <1>6, <1>7 DEF TypeOK
<1>11. Sites' = ss /\ Site1' = o
  BY <1>5, <1>7 DEF Sites, Top, Site1
<1>12. NoneWaiting(CBV!DropLast(ss))
  BY <1>3, <1>5, <1>8 DEF NoneWaiting, CBV!DropLast
<1>13. ss # << >>
  BY <1>3, <1>5
<1>14. BufferIsInnermost'
  BY <1>0, <1>2, <1>3, <1>6, <1>7, <1>9, <1>11, <1>12, <1>13
     DEF IInv, BufferIsInnermost, NoneWaiting, CBV!DropLast
<1> QED BY <1>10, <1>14 DEF IInv, beginCall

LEMMA PushStep ==
  ASSUME SimplePrograms, IInv, NEW v \in Value, jit_push_arg(v)
  PROVE  IInv' /\ CBV!EvalArg(v)
<1>0. TypeOK /\ stack # << >> /\ ~aborted /\ Sites # << >>
  BY DEF IInv, jit_push_arg, CBV!InCode, CBV!Running
<1>1. /\ Len(stack) \in Nat \ {0}
      /\ Sites \in Seq(CBV!OpenSite) /\ Len(Sites) \in Nat /\ Len(Sites) # 0
      /\ Site1 \in CBV!OpenSite
  BY <1>0, TopType
<1>2. PICK n : n = Len(Site1.args)
  OBVIOUS
<1>3. n \in Nat /\ n < Site1.argc /\ Site1.argc \in Nat /\ Site1.args \in Seq(Value)
  BY <1>1, <1>2, OpenSiteType DEF jit_push_arg, MoreArguments
<1>4. n < ArgSlots /\ ArgSlots \in Nat
  <2>1. PICK s \in Site : s = [callee |-> Site1.callee, argc |-> Site1.argc]
    BY <1>1, OpenSiteType
  <2>2. s.argc = Site1.argc /\ s.argc <= ArgSlots
    BY <2>1 DEF SimplePrograms
  <2> QED BY <1>3, <2>2, SlotsAssumption
<1>5. /\ jit_call_arg_index = n
      /\ \A i \in 1 .. n : jit_call_args[i - 1] = Site1.args[i]
      /\ NoneWaiting(CBV!DropLast(Sites))
      /\ \A d \in 1 .. Len(stack) - 1 : NoneWaiting(stack[d].sites)
  BY <1>0, <1>2 DEF IInv, BufferIsInnermost
<1>6. PICK more : more = Append(Site1.args, v)
  OBVIOUS
<1>7. /\ more \in Seq(Value) /\ Len(more) = n + 1 /\ more[n + 1] = v
      /\ \A i \in 1 .. n : more[i] = Site1.args[i]
  BY <1>2, <1>3, <1>6
<1>8. PICK o : o = [Site1 EXCEPT !.args = more]
  OBVIOUS
<1>9. o \in CBV!OpenSite /\ o.args = more
  <2>1. /\ Site1.callee \in CBV!Fn /\ Site1.argc \in Nat
        /\ Site1 = [callee |-> Site1.callee, argc |-> Site1.argc, args |-> Site1.args]
        /\ [callee |-> Site1.callee, argc |-> Site1.argc] \in Site
    BY <1>1 DEF CBV!OpenSite
  <2>2. o = [callee |-> Site1.callee, argc |-> Site1.argc, args |-> more]
    BY <1>8, <2>1
  <2>3. Len(more) <= Site1.argc
    BY <1>3, <1>7
  <2> QED BY <1>7, <2>1, <2>2, <2>3 DEF CBV!OpenSite
<1>10. PICK ss : ss = [Sites EXCEPT ![Len(Sites)] = o]
  OBVIOUS
<1>11. /\ ss \in Seq(CBV!OpenSite) /\ Len(ss) = Len(Sites) /\ ss[Len(Sites)] = o
       /\ \A k \in 1 .. Len(Sites) - 1 : ss[k] = Sites[k]
  BY <1>1, <1>9, <1>10
<1>12. stack' = CBV!WithSites(ss)
  BY <1>6, <1>8, <1>10
     DEF jit_push_arg, CBV!Collect, CBV!Sites, CBV!Top, CBV!Site1, Sites, Top, Site1
<1>13. /\ stack' \in Seq(CBV!Activation) /\ Len(stack') = Len(stack)
       /\ stack'[Len(stack)].sites = ss
       /\ \A d \in 1 .. Len(stack) - 1 : stack'[d] = stack[d]
  BY <1>0, <1>11, <1>12, WithSitesType
<1>14. /\ jit_call_args' = [jit_call_args EXCEPT ![n] = v]
       /\ jit_call_arg_index' = n + 1
       /\ UNCHANGED aborted
  BY <1>4, <1>5 DEF jit_push_arg, HasRoom
<1>15. TypeOK'
  <2>1. jit_call_args \in [0 .. ArgSlots - 1 -> Value] /\ n \in 0 .. ArgSlots - 1
    BY <1>0, <1>3, <1>4 DEF TypeOK
  <2>2. jit_call_args' \in [0 .. ArgSlots - 1 -> Value]
    BY <1>14, <2>1
  <2>3. jit_call_arg_index' \in 0 .. ArgSlots
    BY <1>3, <1>4, <1>14
  <2>4. aborted' \in BOOLEAN
    BY <1>0, <1>14, Zenon DEF TypeOK
  <2> QED BY <1>13, <2>2, <2>3, <2>4 DEF TypeOK
<1>16. \A i \in 1 .. n + 1 : jit_call_args'[i - 1] = more[i]
  <2> SUFFICES ASSUME NEW i \in 1 .. n + 1 PROVE jit_call_args'[i - 1] = more[i]
    OBVIOUS
  <2>1. jit_call_args \in [0 .. ArgSlots - 1 -> Value] /\ n \in 0 .. ArgSlots - 1
    BY <1>0, <1>3, <1>4 DEF TypeOK
  <2>2. \/ i - 1 = n /\ i = n + 1
        \/ i \in 1 .. n /\ i - 1 \in 0 .. ArgSlots - 1 /\ i - 1 # n
    BY <1>3, <1>4, <2>1
  <2>3. CASE i - 1 = n /\ i = n + 1
    <3>1. jit_call_args'[n] = v
      BY <1>14, <2>1
    <3> QED BY <1>7, <2>3, <3>1
  <2>4. CASE i \in 1 .. n /\ i - 1 \in 0 .. ArgSlots - 1 /\ i - 1 # n
    <3>1. PICK k : k = i - 1
      OBVIOUS
    <3>2. jit_call_args'[k] = jit_call_args[k]
      BY <1>14, <2>1, <2>4, <3>1
    <3> QED BY <1>5, <1>7, <2>4, <3>1, <3>2
  <2> QED BY <2>2, <2>3, <2>4
<1>17. Sites' = ss /\ Site1' = o
  BY <1>11, <1>13 DEF Sites, Top, Site1
<1>18. ss # << >> /\ Len(CBV!DropLast(ss)) = Len(ss) - 1
       /\ \A k \in 1 .. Len(ss) - 1 : CBV!DropLast(ss)[k] = ss[k]
  BY <1>1, <1>11, DropLastType
<1>19. /\ Len(CBV!DropLast(Sites)) = Len(Sites) - 1
       /\ \A k \in 1 .. Len(Sites) - 1 : CBV!DropLast(Sites)[k] = Sites[k]
  BY <1>0, <1>1, DropLastType
<1>20. NoneWaiting(CBV!DropLast(ss))
  BY <1>5, <1>11, <1>18, <1>19 DEF NoneWaiting
<1>21. \A d \in 1 .. Len(stack') - 1 : NoneWaiting(stack'[d].sites)
  BY <1>5, <1>13
<1>22. BufferIsInnermost'
  <2>1. NoneWaiting(CBV!DropLast(Sites))'
    BY <1>17, <1>20 DEF NoneWaiting, CBV!DropLast
  <2>2. (\A d \in 1 .. Len(stack) - 1 : NoneWaiting(stack[d].sites))'
    BY <1>21 DEF NoneWaiting
  <2>3. Len(Site1'.args) = n + 1 /\ Site1'.args = more
    BY <1>7, <1>9, <1>17
  <2>4. jit_call_arg_index' = Len(Site1'.args)
    BY <1>14, <2>3
  <2>5. (\A i \in 1 .. Len(Site1.args) : jit_call_args[i - 1] = Site1.args[i])'
    BY <1>16, <2>3
  <2>6. stack' # << >> /\ Sites' # << >>
    BY <1>1, <1>13, <1>17, <1>18
  <2> QED BY <2>1, <2>2, <2>4, <2>5, <2>6 DEF BufferIsInnermost
<1>23. CBV!EvalArg(v)
  BY DEF jit_push_arg, MoreArguments, CBV!EvalArg, CBV!Sites, CBV!Top, CBV!Site1, Sites, Top, Site1
<1> QED BY <1>15, <1>22, <1>23 DEF IInv

\* A complete call site has the buffer to itself.
LEMMA CompleteSite ==
  ASSUME IInv, CBV!Complete
  PROVE  /\ TypeOK /\ stack # << >> /\ ~aborted /\ Sites # << >>
         /\ Site1 \in CBV!OpenSite /\ Len(Site1.args) = Site1.argc
         /\ [callee |-> Site1.callee, argc |-> Site1.argc] \in Site
         /\ jit_call_arg_index = Len(Site1.args)
         /\ \A i \in 1 .. Len(Site1.args) : jit_call_args[i - 1] = Site1.args[i]
         /\ NoneWaiting(CBV!DropLast(Sites))
         /\ \A d \in 1 .. Len(stack) - 1 : NoneWaiting(stack[d].sites)
<1>1. TypeOK /\ stack # << >> /\ ~aborted /\ Sites # << >> /\ Len(Site1.args) = Site1.argc
  BY DEF IInv, CBV!Complete, CBV!InCode, CBV!Running, CBV!Sites, CBV!Top, CBV!Site1,
         Sites, Top, Site1
<1>2. Site1 \in CBV!OpenSite
  BY <1>1, TopType
<1>3. [callee |-> Site1.callee, argc |-> Site1.argc] \in Site
  BY <1>2, OpenSiteType
<1>4. /\ jit_call_arg_index = Len(Site1.args)
      /\ \A i \in 1 .. Len(Site1.args) : jit_call_args[i - 1] = Site1.args[i]
      /\ NoneWaiting(CBV!DropLast(Sites))
      /\ \A d \in 1 .. Len(stack) - 1 : NoneWaiting(stack[d].sites)
  BY <1>1 DEF IInv, BufferIsInnermost
<1> QED BY <1>1, <1>2, <1>3, <1>4

\* The new activation, whichever way its parameters were passed, is put on top of a
\* stack on which no open site has anything pushed.
LEMMA CallInv ==
  ASSUME IInv, CBV!Complete,
         NEW f \in CBV!Defined, NEW ps \in [1 .. Params[f] -> Value],
         stack' = Append(CBV!WithSites(CBV!DropLast(Sites)), CBV!NewCall(f, ps)),
         jit_call_arg_index' = 0, UNCHANGED << aborted, jit_call_args >>
  PROVE  IInv'
<1>1. PICK st : st = CBV!WithSites(CBV!DropLast(Sites))
  OBVIOUS
<1>2. PICK c : c = CBV!NewCall(f, ps)
  OBVIOUS
<1>3. c \in CBV!Activation /\ c.sites = << >>
  BY <1>2, NewCallType DEF CBV!NewCall
<1>4. /\ TypeOK /\ stack # << >> /\ Len(stack) \in Nat \ {0}
      /\ CBV!DropLast(Sites) \in Seq(CBV!OpenSite)
  BY CompleteSite, TopType
<1>5. /\ st \in Seq(CBV!Activation) /\ Len(st) = Len(stack)
      /\ st[Len(stack)].sites = CBV!DropLast(Sites)
      /\ \A d \in 1 .. Len(stack) - 1 : st[d] = stack[d]
  BY <1>1, <1>4, WithSitesType
<1>6. \A d \in 1 .. Len(st) : NoneWaiting(st[d].sites)
  <2>1. NoneWaiting(st[Len(stack)].sites)
    BY <1>5, CompleteSite
  <2>2. \A d \in 1 .. Len(stack) - 1 : NoneWaiting(st[d].sites)
    BY <1>5, CompleteSite
  <2>3. \A d \in 1 .. Len(st) : d \in 1 .. Len(stack) - 1 \/ d = Len(stack)
    BY <1>4, <1>5
  <2> QED BY <2>1, <2>2, <2>3
<1>7. stack' = Append(st, c)
  BY <1>1, <1>2
<1>8. /\ stack' \in Seq(CBV!Activation) /\ Len(stack') = Len(st) + 1 /\ stack'[Len(stack')] = c
      /\ \A d \in 1 .. Len(st) : stack'[d] = st[d]
  BY <1>3, <1>5, <1>7
<1>9. TypeOK'
  <2>1. jit_call_arg_index' \in 0 .. ArgSlots
    BY SlotsAssumption
  <2>2. aborted' \in BOOLEAN
    BY <1>4, Zenon DEF TypeOK
  <2>3. jit_call_args' \in [0 .. ArgSlots - 1 -> Value]
    BY <1>4 DEF TypeOK
  <2> QED BY <1>8, <2>1, <2>2, <2>3 DEF TypeOK
<1>10. BufferIsInnermost'
  <2>1. (\A d \in 1 .. Len(stack) - 1 : NoneWaiting(stack[d].sites))'
    BY <1>4, <1>5, <1>6, <1>8 DEF NoneWaiting
  <2>2. Sites' = << >>
    BY <1>3, <1>8 DEF Sites, Top
  <2> QED BY <2>1, <2>2 DEF BufferIsInnermost
<1> QED BY <1>9, <1>10 DEF IInv

LEMMA InvokeCompiled ==
  ASSUME SimplePrograms, IInv, NEW junk, CBV!Complete, Site1.callee \in Compiled
  PROVE  LET buffer == [i \in 1 .. ArgSlots |-> jit_call_args[i - 1]]
             ps == emitLoadArgs(Site1.callee, buffer, ArgSlots, junk)
         IN /\ ps = CBV!Passed(Site1.callee, Site1.args)
            /\ ps \in [1 .. Params[Site1.callee] -> Value]
<1>1. PICK s \in Site : s.callee = Site1.callee /\ s.argc = Site1.argc
  BY CompleteSite
<1>2. PICK buffer : buffer = [i \in 1 .. ArgSlots |-> jit_call_args[i - 1]]
  OBVIOUS
<1>3. /\ Site1.args \in Seq(Value) /\ Len(Site1.args) = s.argc /\ s.argc \in Nat
      /\ ArgSlots \in Nat /\ s.argc <= ArgSlots /\ s.callee \in Compiled
  BY <1>1, CompleteSite, OpenSiteType, SlotsAssumption DEF SimplePrograms
<1>4. \A i \in 1 .. s.argc : jit_call_args[i - 1] = Site1.args[i]
  BY <1>3, CompleteSite
<1>5. \A i \in 1 .. s.argc : buffer[i] = Site1.args[i]
  <2> SUFFICES ASSUME NEW i \in 1 .. s.argc PROVE buffer[i] = Site1.args[i]
    OBVIOUS
  <2>1. i \in 1 .. ArgSlots
    BY <1>3
  <2>2. buffer[i] = jit_call_args[i - 1]
    BY <1>2, <2>1
  <2> QED BY <1>4, <2>2
<1>6. /\ emitLoadArgs(s.callee, buffer, ArgSlots, junk) = CBV!Passed(s.callee, Site1.args)
      /\ CBV!Passed(s.callee, Site1.args) \in [1 .. Params[s.callee] -> Value]
  BY <1>3, <1>5, LoadsArguments, ZenonT(60)
<1> QED BY <1>1, <1>2, <1>6

LEMMA InvokeInterpreted ==
  ASSUME IInv, CBV!Complete, Site1.callee \in Interpreted
  PROVE  LET ps == SetUpParameters(Site1.callee, jit_call_arg_index)
         IN /\ ps = CBV!Passed(Site1.callee, Site1.args)
            /\ ps \in [1 .. Params[Site1.callee] -> Value]
<1>1. PICK n : n = Len(Site1.args)
  OBVIOUS
<1>2. /\ n \in Nat /\ Site1.args \in Seq(Value) /\ jit_call_arg_index = n
      /\ Params[Site1.callee] \in Nat
      /\ \A i \in 1 .. n : jit_call_args[i - 1] = Site1.args[i]
  BY <1>1, CompleteSite, OpenSiteType, ParamsAssumption
<1>3. PICK args : args = Site1.args
  OBVIOUS
<1>4. ASSUME NEW i \in 1 .. Params[Site1.callee]
      PROVE  /\ i - 1 < n <=> i <= n
             /\ i <= n => jit_call_args[i - 1] = args[i] /\ args[i] \in Value
  BY <1>1, <1>2, <1>3
<1> QED BY <1>1, <1>2, <1>3, <1>4, ValueAssumption DEF SetUpParameters, CBV!Passed

LEMMA CallStep ==
  ASSUME SimplePrograms, IInv, NEW junk \in Value, jit_call_func(junk)
  PROVE  IInv' /\ (CBV!Invoke \/ CBV!Abort)
<1>1. CBV!Complete /\ Len(stack) < MaxDepth /\ jit_call_arg_index' = 0
      /\ UNCHANGED jit_call_args
  BY DEF jit_call_func
<1>2. PICK ss : ss = CBV!DropLast(Sites)
  OBVIOUS
<1>3. Site1.callee = CBV!Site1.callee /\ Site1.args = CBV!Site1.args /\ Sites = CBV!Sites
  BY DEF Site1, Sites, Top, CBV!Site1, CBV!Sites, CBV!Top
<1>4. CASE Site1.callee \in Compiled
  <2>1. PICK ps : ps = emitLoadArgs(Site1.callee,
                         [i \in 1 .. ArgSlots |-> jit_call_args[i - 1]], ArgSlots, junk)
    OBVIOUS
  <2>2. ps = CBV!Passed(Site1.callee, Site1.args) /\ ps \in [1 .. Params[Site1.callee] -> Value]
    BY <1>1, <1>4, <2>1, InvokeCompiled
  <2>3. /\ stack' = Append(CBV!WithSites(CBV!DropLast(Sites)), CBV!NewCall(Site1.callee, ps))
        /\ UNCHANGED aborted
    BY <1>4, <2>1, FnAssumption DEF jit_call_func
  <2>4. Site1.callee \in CBV!Defined
    BY <1>4 DEF CBV!Defined
  <2>5. IInv'
    BY <1>1, <2>2, <2>3, <2>4, CallInv
  <2>6. CBV!Invoke
    BY <1>1, <1>3, <2>2, <2>3, <2>4 DEF CBV!Invoke
  <2> QED BY <2>5, <2>6
<1>5. CASE Site1.callee \in Interpreted
  <2>1. PICK ps : ps = SetUpParameters(Site1.callee, jit_call_arg_index)
    OBVIOUS
  <2>2. ps = CBV!Passed(Site1.callee, Site1.args) /\ ps \in [1 .. Params[Site1.callee] -> Value]
    BY <1>1, <1>5, <2>1, InvokeInterpreted
  <2>3. /\ stack' = Append(CBV!WithSites(CBV!DropLast(Sites)), CBV!NewCall(Site1.callee, ps))
        /\ UNCHANGED aborted
    BY <1>5, <2>1, FnAssumption DEF jit_call_func
  <2>4. Site1.callee \in CBV!Defined
    BY <1>5 DEF CBV!Defined
  <2>5. IInv'
    BY <1>1, <2>2, <2>3, <2>4, CallInv
  <2>6. CBV!Invoke
    BY <1>1, <1>3, <2>2, <2>3, <2>4 DEF CBV!Invoke
  <2> QED BY <2>5, <2>6
<1>6. CASE Site1.callee \in Undefined
  <2>1. aborted' = TRUE /\ UNCHANGED stack
    BY <1>6, FnAssumption DEF jit_call_func
  <2>2. CBV!Abort
    BY <1>1, <1>3, <1>6, <2>1 DEF CBV!Abort, CBV!Complete, CBV!InCode
  <2>3. TypeOK'
    BY <1>1, <2>1, SlotsAssumption DEF IInv, TypeOK
  <2>4. BufferIsInnermost'
    BY <2>1 DEF BufferIsInnermost
  <2> QED BY <2>2, <2>3, <2>4 DEF IInv
<1> QED BY <1>4, <1>5, <1>6 DEF jit_call_func

LEMMA ThrowStep ==
  ASSUME IInv, interpreterThrows
  PROVE  IInv' /\ CBV!Abort
<1>1. CBV!Abort
  BY DEF interpreterThrows, CBV!Abort, CBV!Top, Top
<1>2. BufferIsInnermost'
  BY DEF interpreterThrows, BufferIsInnermost
<1>3. TypeOK'
  BY DEF IInv, interpreterThrows, TypeOK
<1> QED BY <1>1, <1>2, <1>3 DEF IInv

LEMMA ReturnStep ==
  ASSUME IInv, return
  PROVE  IInv' /\ CBV!Return
<1>1. /\ TypeOK /\ stack # << >> /\ ~aborted /\ Sites = << >>
      /\ stack' = CBV!DropLast(stack)
      /\ UNCHANGED << aborted, jit_call_args, jit_call_arg_index >>
  BY DEF IInv, return, CBV!Running
<1>2. CBV!Return
  BY DEF return, CBV!Return, CBV!Sites, CBV!Top, Sites, Top
<1>3. stack \in Seq(CBV!Activation)
  BY <1>1 DEF TypeOK
<1>4. /\ Len(stack) \in Nat \ {0} /\ stack' \in Seq(CBV!Activation)
      /\ Len(stack') = Len(stack) - 1
      /\ \A d \in 1 .. Len(stack) - 1 : stack'[d] = stack[d]
  BY <1>1, <1>3, DropLastType
<1>5. TypeOK'
  BY <1>1, <1>4 DEF TypeOK
<1>6. jit_call_arg_index = 0 /\ \A d \in 1 .. Len(stack) - 1 : NoneWaiting(stack[d].sites)
  BY <1>1 DEF IInv, BufferIsInnermost
<1>7. \A d \in 1 .. Len(stack') : NoneWaiting(stack'[d].sites)
  BY <1>4, <1>6
<1>8. (\A d \in 1 .. Len(stack) - 1 : NoneWaiting(stack[d].sites))'
  BY <1>4, <1>7 DEF NoneWaiting
<1>9. CASE stack' = << >> \/ Sites' = << >>
  BY <1>1, <1>2, <1>5, <1>6, <1>8, <1>9 DEF BufferIsInnermost, IInv
<1>10. CASE stack' # << >> /\ Sites' # << >>
  <2>1. /\ Len(stack') \in Nat \ {0} /\ Sites' \in Seq(CBV!OpenSite)
    <3>1. Len(stack') \in Nat \ {0} /\ stack'[Len(stack')] \in CBV!Activation
      BY <1>4, <1>10
    <3> QED BY <3>1, ActivationType DEF Sites, Top
  <2>2. NoneWaiting(Sites')
    BY <1>7, <2>1 DEF Sites, Top
  <2>3. Site1'.args = << >>
    BY <1>10, <2>1, <2>2 DEF NoneWaiting, Site1
  <2>4. NoneWaiting(CBV!DropLast(Sites'))
    BY <1>10, <2>1, <2>2, DropLastType DEF NoneWaiting
  <2>5. NoneWaiting(CBV!DropLast(Sites))'
    BY <2>4 DEF NoneWaiting, CBV!DropLast
  <2>6. jit_call_arg_index' = Len(Site1'.args)
    BY <1>1, <1>6, <2>3
  <2>7. (\A i \in 1 .. Len(Site1.args) : jit_call_args[i - 1] = Site1.args[i])'
    BY <2>3
  <2> QED BY <1>2, <1>5, <1>8, <1>10, <2>5, <2>6, <2>7 DEF BufferIsInnermost, IInv
<1> QED BY <1>9, <1>10

LEMMA NextStep ==
  ASSUME SimplePrograms, IInv, [Next]_vars
  PROVE  IInv' /\ [CBV!Next]_(CBV!vars)
<1>1. ASSUME NEW s \in Site, beginCall(s)
      PROVE  IInv' /\ CBV!Next
  BY <1>1, BeginStep DEF CBV!Next
<1>2. ASSUME NEW s \in Site, NEW args \in [1 .. s.argc -> Value], NEW junk \in Value,
             callCompiledFromDriver(s, args, junk)
      PROVE  IInv' /\ CBV!Next
  BY <1>2, DriverStep DEF CBV!Next
<1>3. ASSUME NEW v \in Value, jit_push_arg(v)
      PROVE  IInv' /\ CBV!Next
  BY <1>3, PushStep DEF CBV!Next
<1>4. ASSUME NEW junk \in Value, jit_call_func(junk)
      PROVE  IInv' /\ CBV!Next
  BY <1>4, CallStep DEF CBV!Next
<1>5. CASE interpreterThrows
  BY <1>5, ThrowStep DEF CBV!Next
<1>6. CASE return
  BY <1>6, ReturnStep DEF CBV!Next
<1>7. CASE UNCHANGED vars
  <2>1. TypeOK'
    BY <1>7 DEF vars, IInv, TypeOK
  <2>2. BufferIsInnermost'
    BY <1>7 DEF vars, IInv, BufferIsInnermost, NoneWaiting, Sites, Site1, Top, CBV!DropLast
  <2> QED BY <1>7, <2>1, <2>2 DEF vars, CBV!vars, IInv
<1> QED BY <1>1, <1>2, <1>3, <1>4, <1>5, <1>6, <1>7 DEF Next

THEOREM InvariantHolds ==
  ASSUME SimplePrograms
  PROVE  Spec => []IInv
<1>1. Init => IInv
  BY InitInv
<1>2. IInv /\ [Next]_vars => IInv'
  BY NextStep
<1> QED BY <1>1, <1>2, PTL DEF Spec

\* The buffer, its index and the open call sites are well formed in every state: the
\* index never passes the end of jit_call_args.
THEOREM TypeCorrect ==
  ASSUME SimplePrograms
  PROVE  Spec => []TypeOK
<1>1. IInv => TypeOK
  BY DEF IInv
<1> QED BY <1>1, InvariantHolds, PTL

\* Whatever activations and open call sites there are, jit_call_args holds the
\* arguments of the innermost site and no other site has any.
THEOREM BufferOwned ==
  ASSUME SimplePrograms
  PROVE  Spec => []BufferIsInnermost
<1>1. IInv => BufferIsInnermost
  BY DEF IInv
<1> QED BY <1>1, InvariantHolds, PTL

\* jit_push_arg and jit_call_func implement call by value for simple programs.
THEOREM Implements ==
  ASSUME SimplePrograms
  PROVE  Spec => ImplementsCallByValue
<1>1. Init => CBV!Init
  BY DEF Init, CBV!Init
<1>2. IInv /\ [Next]_vars => [CBV!Next]_(CBV!vars)
  BY NextStep
<1> QED BY <1>1, <1>2, InvariantHolds, PTL DEF Spec, ImplementsCallByValue, CBV!Spec
===============================================================================
