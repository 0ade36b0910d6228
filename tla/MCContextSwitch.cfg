SPECIFICATION Spec
CONSTANTS
  Threads = {m, t1, t2, t3}
  Main = m
  TermStack = TermStack
SYMMETRY Symmetry
INVARIANTS CurrentRuns ContextsKept UserMaskOpen
CHECK_DEADLOCK FALSE
