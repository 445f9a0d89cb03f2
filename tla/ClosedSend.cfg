SPECIFICATION Spec
CONSTANTS
  Pubs = {p1}
  Subs = {s1}
  Cap = 1
  Limit = 1
  None = None
INVARIANT NoSendOnClosed
CHECK_DEADLOCK FALSE
