\* The transport closes while a reply is in flight.
CONSTANTS
  MaxReqs = 2
  ParentCancel = FALSE
SPECIFICATION Spec
CHECK_DEADLOCK FALSE
PROPERTY ReplyGoroutinesEnd
