\* One crash inside the second write of a spill.
SPECIFICATION FairSpec
CONSTANTS
    a = a
    b = b
    c = c
    Segments = {a, b}
    Meetings = {1}
    MeetingOf <- OneMeeting
    Short = {}
    Cuts <- AllCuts
    None = None
    WebhookURL = FALSE
    Attempts = 1
    Retries = 1
    MaxFaults = 1
PROPERTIES
    SpilledIsDelivered
