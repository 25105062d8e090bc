SPECIFICATION Spec
CONSTANTS
    Slot <- MCSlot
    Conn <- MCConn
    Sess <- MCSess
    Chan <- MCChan
    Msg = {}
    Subscriber = {u1}
    Own = {o1}
    Manages = TRUE
    RetryLimit = 2
    MaxLogins = 1
    MaxFails = 0
    MaxChanges = 1
    None = None
INVARIANTS SentShown
PROPERTIES LoginSettles RosterCatchesUp
CHECK_DEADLOCK FALSE
