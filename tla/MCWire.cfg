SPECIFICATION FairSpec
CHECK_DEADLOCK FALSE
CONSTANTS
  Commands <- MCCommands
  BufSize = 28
  Half = 32768
  SendBuf = 1
  MaxSent = 3
INVARIANT UncutIsExact
INVARIANT Intact
INVARIANT BegunIsExecuted
INVARIANT CodecsAgree
PROPERTY NothingAfterTorn
PROPERTY ReplyOrEnd
