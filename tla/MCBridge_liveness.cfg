\* Two meetings; crashes that may cut a spill short, but leave no torn audio behind.
SPECIFICATION FairSpec
CONSTANTS
    a = a
    b = b
    c = c
    Segments = {a, c}
    Meetings = {1, 2}
    MeetingOf <- TwoMeetings
    Short = {}
    Cuts <- CutsBeforeAudio
    None = None
    WebhookURL = TRUE
    Attempts = 1
    Retries = 1
    MaxFaults = 1
PROPERTIES
    
    SpilledIsDelivered
