SPECIFICATION GraphSpec
CONSTANTS
  N = 4
  MaxHardDeps = 2
  f1 = f1 f2 = f2 f3 = f3 f4 = f4
  a = a b = b c = c d = d r = r s = s
  Files = {f1, f2, f3, f4}
  BuildItems = {a, b, c, d}
  RunItems = {r, s}
  Names = {"compile", "package", "build", "rootfs"}
  Parents <- TheParents
  DepTask <- TheDepTask
  RDepTask <- TheRDepTask
  RecrDepTask <- TheRecrDepTask
  RecIDepTask <- TheRecIDepTask
INVARIANTS
  CollapseIsRight
  ProvidersResolved
  GraphPrepared
  RecursionComplete
PROPERTIES
  GraphsEnd
