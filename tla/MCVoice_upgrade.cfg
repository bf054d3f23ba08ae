\* A call that may begin without end-to-end encryption.
SPECIFICATION Spec
CHECK_DEADLOCK FALSE
CONSTANTS
    Users = {u1}
    Ssrcs = {s1}
    Transitions = {t1}
    None = None
    MaxWords = 0
    MaxFrame = 0
    MaxLength = 0
INVARIANTS
    SendersAreWired
