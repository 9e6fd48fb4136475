SPECIFICATION Spec
CONSTANTS
  Conns = {c1}
  Surfaces = {s1}
  Outputs = {o1, o2}
  Fds = {f1, f2}
  None = None
  Kinds = {"capture", "file"}
  First = o1
  ConsentSlots = 2
  CaptureMax = 2
  Timeout = 2
  HaveDrm = FALSE
  MaxTime = 3
  MaxStamp = 1
VIEW MCView
SYMMETRY MCSymmetry
INVARIANTS GrantKept 
PROPERTY CaptureConsented
