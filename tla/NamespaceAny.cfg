SPECIFICATION Spec
CONSTANTS
  c1 = c1
  c2 = c2
  n1 = n1
  t1 = t1
  t2 = t2
  t3 = t3
  Callers = {t1, t2}
  Pids = {p1}
  Containers = {c1}
  Kinds <- MCTwoKinds
  MayJoin <- MCAny
  MaxMounts = 2
SYMMETRY Symmetry
INVARIANTS
  TypeOK
  RestoredUnlessRefused
PROPERTIES
  MountsWhereOpened
