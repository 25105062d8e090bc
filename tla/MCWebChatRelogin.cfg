SPECIFICATION Spec
CONSTANTS
    Slot <- MCSlot
    Conn = {1, 2}
    Sess <- MCSess
    Chan <- MCChan
    Msg = {m1}
    Subscriber = {}
    Own = {}
    Manages = FALSE
    RetryLimit = 1
    MaxLogins = 2
    MaxFails = 1
    MaxChanges = 0
    None = None
VIEW SlotView
INVARIANTS Conserved ListensToItsChannel
CHECK_DEADLOCK FALSE
