\* Three requests of either type; the transport may close and the
\* server's ctx may be cancelled at any point.
CONSTANTS
  MaxReqs = 3
  ParentCancel = TRUE
SPECIFICATION Spec
\* The loop returns once the transport is closed or ctx is done: a
\* finished session is a final state.
CHECK_DEADLOCK FALSE
PROPERTY RequestAnswered
