\* Two meetings, no fault: /join while the meeting before is being finalized.
SPECIFICATION Spec
CONSTANTS
    a = a
    b = b
    c = c
    Segments = {a, c}
    Meetings = {1, 2}
    MeetingOf <- TwoMeetings
    Short = {}
    Cuts <- NoCuts
    None = None
    WebhookURL = FALSE
    Attempts = 1
    Retries = 1
    MaxFaults = 0
PROPERTIES
    OnlyStaleRowsRetired
