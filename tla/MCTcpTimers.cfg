SPECIFICATION Spec
CONSTANTS
  NULL = NULL
  Pcbs = {p1, p2, p3}
  CounterMod = 4
  Usages = {{"callbacks"}, {"late registration"}}
INVARIANTS WalkListed HandledOnce
PROPERTIES RestartsEnd
