\* No fault at all: a store task outlives /leave.
SPECIFICATION Spec
CONSTANTS
    a = a
    b = b
    c = c
    Segments = {a, b}
    Meetings = {1}
    MeetingOf <- OneMeeting
    Short = {}
    Cuts <- NoCuts
    None = None
    WebhookURL = FALSE
    Attempts = 1
    Retries = 1
    MaxFaults = 0
INVARIANTS
    CompletedSeesEveryUtterance
