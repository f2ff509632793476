\* An empty mailbox, and mailboxes of one to three messages; responses are cut at
\* any byte, refused, and the connection may be lost at any time.  Deadlock is not
\* checked: wait() has no time-out, and getAll does stop there.
CONSTANTS
  Mailboxes <- SmallMailboxes
  MayDelete = {TRUE, FALSE}
SPECIFICATION Spec
CHECK_DEADLOCK FALSE
INVARIANTS TypeOK TrueMeansAll NothingIsLost LeftOnServer FailureHasAReason
PROPERTY GetAllReturns
