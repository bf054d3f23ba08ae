\* Two users who may take over each other's SSRC.
SPECIFICATION FairSpec
CHECK_DEADLOCK FALSE
CONSTANTS
    Users = {u1, u2}
    Ssrcs = {s1, s2}
    Transitions = {t1, t2}
    None = None
    MaxWords = 4
    MaxFrame = 6
    MaxLength = 100
INVARIANTS
    VInv
    Attribution
    OneSpeakerPerDecoder
    DaveSendersAreWired
    AnsweredTruly
    
    DatagramsAreSliced
PROPERTIES
    StartEnds
    StoppedIsSilent
    HeardWhileStarted
