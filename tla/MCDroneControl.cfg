CONSTANTS
    MaxConns = 2
    MaxInbox = 3
SPECIFICATION Spec
INVARIANTS NothingBeforeAccept
PROPERTIES ConnectReturns OldConnectionDropped
CHECK_DEADLOCK FALSE
