\* No recipient, one and two; replies are cut at any byte, refused, and the server
\* may shut down and the connection may be lost at any time.  Deadlock is not
\* checked: wait() has no time-out, and send does stop there.
CONSTANTS
  Recipients = {0, 1, 2}
  Replies <- SmallReplies
SPECIFICATION Spec
CHECK_DEADLOCK FALSE
INVARIANTS TypeOK ContentIsAwaited StatusIsTrue FailureHasAReason
PROPERTY SendReturns
