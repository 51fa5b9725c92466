\* Three requests of either type; the server's ctx is never cancelled,
\* so the session's ctx ends only after the transport closes.
CONSTANTS
  MaxReqs = 3
  ParentCancel = FALSE
SPECIFICATION Spec
\* The loop returns once the transport is closed: a finished session is
\* a final state.
CHECK_DEADLOCK FALSE
INVARIANT RepliesInOrder
PROPERTY ReplyChannelSpec
