\* Two speakers; the flusher is late by up to a tick.
CONSTANTS
    Users = {u1, u2}
    Silence = 2
    Poll = 1
    Lag = 1
    MaxNow = 7
    MaxFrames = 3
SPECIFICATION Spec
SYMMETRY Symmetry
CHECK_DEADLOCK FALSE
INVARIANTS
    SInv
    FramesConserved
    DrainedIsEverything
    TimesAreExact
    SegmentsAreApart
    NoPauseInside
PROPERTIES
    ImplementsHandover
