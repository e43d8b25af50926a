SPECIFICATION Spec
CONSTANTS
  f1 = f1
  f2 = f2
  c1 = c1
  c2 = c2
  c3 = c3
  w1 = w1
  w2 = w2
  r1 = r1
  r2 = r2
  Files = {f1, f2}
  Contents = {c1, c2, c3}
  Calls = {w1, w2}
  Rollbacks = {r1, r2}
  NoFile = NoFile
  MaxTrouble = 1
SYMMETRY Symmetry

  
  
PROPERTIES
  ForeignContentKept
CHECK_DEADLOCK FALSE
