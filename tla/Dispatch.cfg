SPECIFICATION Spec
CONSTANTS
  f = f
  g = g
  k = k
  u = u
  f1 = f1
  g1 = g1
  k1 = k1
  k2 = k2
  Name = {f, g, k, u}
  Def = {f1, g1, k1, k2}
  NoDef = NoDef
  NameOf <- MCNameOf
  Arity <- MCArity
  Site <- MCSite
  Callee <- MCCallee
  Args <- MCArgs
  Position <- MCPosition
  Owner <- MCOwner
  Paths <- MCPaths
  Programs <- PlainPrograms
  Compiles = {f1}
  MaxDepth = 4
CHECK_DEADLOCK FALSE
INVARIANTS TypeOK TablesAgree
PROPERTY ImplementsLookup
