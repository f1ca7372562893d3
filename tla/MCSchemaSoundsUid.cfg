CONSTANTS
  a = a
  u = u
  u1 = u1
  u2 = u2
  v = v
  w = w
  num = num
  scp = scp
  tdef = tdef
  Name = {a, u, u1, u2}
  Value = {v, w}
  None = None
  Plain <- MCPlain
  UidName = {u}
  SoundsUid = {a}
  RuleName <- MCRuleName
  Order <- MCOrder
  BuiltIn <- MCBuiltIn
  Custom <- MCCustom
  TypeName = {num, scp, tdef}
  Trees <- ShallowTrees
  Calls <- RootCall
  MaxRules = 2
SPECIFICATION Spec
INVARIANTS
  DemandsAreEnforced
