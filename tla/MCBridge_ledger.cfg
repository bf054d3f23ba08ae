\* Two meetings, the second possibly begun before the first is finalized; one fault; b is under MIN_MS.
SPECIFICATION Spec
CONSTANTS
    a = a
    b = b
    c = c
    Segments = {a, b, c}
    Meetings = {1, 2}
    MeetingOf <- WithShort
    Short = {b}
    Cuts <- AllCuts
    None = None
    WebhookURL = TRUE
    Attempts = 1
    Retries = 1
    MaxFaults = 1
PROPERTIES
    ImplementsLedger
    RecorderFollowsLifecycle
    RecorderTakesOver
