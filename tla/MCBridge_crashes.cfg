\* One meeting, two segments, three faults at any point: crashes, cut spills, lost answers.
SPECIFICATION Spec
CONSTANTS
    a = a
    b = b
    c = c
    Segments = {a, b}
    Meetings = {1}
    MeetingOf <- OneMeeting
    Short = {}
    Cuts <- AllCuts
    None = None
    WebhookURL = TRUE
    Attempts = 3
    Retries = 2
    MaxFaults = 3
INVARIANTS
    IInv
    
    CompletedHasQueuedSegments
    FifoReplay
    DuplicatesNeedFaults
    OneWebhookPerMeeting
