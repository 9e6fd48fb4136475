SPECIFICATION Spec
CONSTANTS
  c1 = c1
  c2 = c2
  Conns = {c1, c2}
  Surfaces = {s1, s2}
  Buffers = {b1, b2}
  Fds = {f1, f2}
  MaxId <- MCMaxId
  None = None
  Freed = Freed
SYMMETRY MCSymmetry
VIEW MCView
\* A step that follows freed memory is the end.
CHECK_DEADLOCK FALSE
INVARIANTS TableExact 
PROPERTY Isolation
