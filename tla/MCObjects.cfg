\* Eleven worlds of classes, instances and tables.
SPECIFICATION Spec
CONSTANTS
  c1 = c1  c2 = c2  c3 = c3  i1 = i1  i2 = i2  t0 = t0  t1 = t1  t2 = t2
  None = None
  Classes = {c1, c2, c3}
  Instances = {i1, i2}
  Tables = {t0, t1, t2}
  Root = t0
  Names <- MCNames
  MetaNames <- MCMetaNames
  DefaultNames = {"len"}
  Plain = {"p", "q"}
  Functions = {"f"}
  Attrs = {"null", "at"}
  Worlds <- MCWorlds
  MaxMembers = 2
INVARIANTS ValuesFit ReadsBack
PROPERTY ImplementsRecords
CHECK_DEADLOCK FALSE
