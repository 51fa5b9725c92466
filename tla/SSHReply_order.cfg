\* The server's ctx is cancelled while the transport is still open.
CONSTANTS
  MaxReqs = 2
  ParentCancel = TRUE
SPECIFICATION Spec
CHECK_DEADLOCK FALSE
INVARIANT RepliesInOrder
