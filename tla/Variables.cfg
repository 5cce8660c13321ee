SPECIFICATION Spec
CONSTANTS
  f = f
  g = g
  Fn = {f, g}
  Compiled = {f}
  Name = {1, 2}
  Value = {0, 1}
  Unset = Unset
  Params <- MCParams
  Mentions <- MCMentions
  MaxDepth = 3
INVARIANT TypeOK
PROPERTY ImplementsScopes
