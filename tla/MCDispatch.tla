------------------------------ MODULE MCDispatch ------------------------------
(***************************************************************************)
(* Small programs for Dispatch: f1 defines f and compiles, g1 defines g,   *)
(* does not compile and holds two definitions of k; nobody defines u.  A   *)
(* site is written as in the text, with the place where it stands.         *)
(***************************************************************************)
EXTENDS Dispatch, TLC

CONSTANTS f, g, k, u, f1, g1, k1, k2

MCNameOf == [d \in Def |-> CASE d = f1 -> f [] d = g1 -> g [] OTHER -> k]
MCArity  == [d \in Def |-> IF d \in {f1, k1} THEN 1 ELSE 0]

Expression(name, args, owner) == [callee |-> name, args |-> args, owner |-> owner]

Text ==
     "f: f()"         :> Expression(f, << >>, f1)
  @@ "f: g()"         :> Expression(g, << >>, f1)
  @@ "f: k()"         :> Expression(k, << >>, f1)
  @@ "f: u()"         :> Expression(u, << >>, f1)
  @@ "f: f(g())"      :> Expression(f, << "f: g()" >>, f1)
  @@ "g: f()"         :> Expression(f, << >>, g1)
  @@ "g: g()"         :> Expression(g, << >>, g1)
  @@ "g: second g()"  :> Expression(g, << >>, g1)
  @@ "g: k()"         :> Expression(k, << >>, g1)
  @@ "g: k(f(), g())" :> Expression(k, << "g: f()", "g: second g()" >>, g1)
  @@ "g: k(g())"      :> Expression(k, << "g: g()" >>, g1)
  @@ "g: u(f())"      :> Expression(u, << "g: f()" >>, g1)
  @@ "k: f()"         :> Expression(f, << >>, k1)
  @@ "f()"            :> Expression(f, << >>, NoDef)
  @@ "g()"            :> Expression(g, << >>, NoDef)
  @@ "k()"            :> Expression(k, << >>, NoDef)
  @@ "f(f())"         :> Expression(f, << "f()" >>, NoDef)
  @@ "f(g())"         :> Expression(f, << "g()" >>, NoDef)
  @@ "g(f())"         :> Expression(g, << "f()" >>, NoDef)
  @@ "k(g())"         :> Expression(k, << "g()" >>, NoDef)

MCSite     == DOMAIN Text
MCCallee   == [s \in Site |-> Text[s].callee]
MCArgs     == [s \in Site |-> Text[s].args]
MCPosition == [s \in Site |-> IF s = "g: second g()" THEN 2 ELSE 1]
MCOwner    == [s \in Site |-> Text[s].owner]

Ret == [kind |-> "return"]

MCPaths == [d \in Def |->
  CASE d = f1 -> { << >>, << Calling("f: g()"), Calling("f: k()") >>,
                   << Calling("f: f(g())"), Ret >>, << Ret, Calling("f: u()") >> }
    [] d = g1 -> { << Defining(k1), Calling("g: k(g())"), Defining(k2), Calling("g: k(g())") >>,
                   << Defining(k1), Calling("g: k(f(), g())") >>,
                   << Calling("g: u(f())") >>, << Calling("g: k()"), Defining(k2) >> }
    [] d = k1 -> { << >>, << Calling("k: f()") >> }
    [] OTHER  -> { << >> }]

TopLevel == { Calling(s) : s \in {"f()", "k()", "f(f())", "f(g())", "g(f())", "k(g())"} }
              \cup {Ret}

\* Definitions first, each name once.
PlainPrograms ==
  { defs \o << s, t >> :
      defs \in { << >>, << Defining(f1) >>, << Defining(g1) >>,
                 << Defining(f1), Defining(g1) >>, << Defining(g1), Defining(f1) >> },
      s \in TopLevel, t \in TopLevel }

ASSUME ProgramsArePlain == Plain
===============================================================================
