\* One crash between the two writes of a spill.
SPECIFICATION Spec
CONSTANTS
    a = a
    b = b
    c = c
    Segments = {a, b}
    Meetings = {1}
    MeetingOf <- OneMeeting
    Short = {}
    Cuts <- CutsBeforeAudio
    None = None
    WebhookURL = FALSE
    Attempts = 1
    Retries = 1
    MaxFaults = 1
PROPERTIES
    QueuedUntilDelivered
