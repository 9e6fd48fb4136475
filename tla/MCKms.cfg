SPECIFICATION Spec
CONSTANTS
  Outputs = {o1}
  Surfaces = {s1}
  Buffers = {b1, b2, b3}
  None = None
\* The server is destroyed, or a damaged list ends the model.
CHECK_DEADLOCK FALSE
INVARIANTS RefsExact OneInFlight ReleasedAfterFlip
PROPERTY SignalledReleased
