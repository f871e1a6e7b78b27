CONSTANTS
    Clients = {c1}
    ABSENT = ABSENT
    Timeout = 30
    Period = 10
    Poll = 2
    MaxHeld = 11
SPECIFICATION FairSpec
PROPERTIES StoppedForgotten
INVARIANTS StaysRegistered RenewsInTime
