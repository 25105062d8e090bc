SPECIFICATION Spec
CONSTANTS
    Request <- MCRequest
    None = None
    MaxStarts = 2
INVARIANTS CountAccounts OneChain
PROPERTIES Ordered PollGoesOn
CHECK_DEADLOCK FALSE
