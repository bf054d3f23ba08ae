\* Five invocations in one guild of two channels; everything may fail or be restarted.
SPECIFICATION Spec
CONSTANTS
    Commands = {k1, k2, k3, k4, k5}
    g1 = g1
    ch1 = ch1
    ch2 = ch2
    Guilds = {g1}
    Channels = {ch1, ch2}
    GuildOf <- OneGuild
    Meetings = {1, 2, 3}
    None = None
SYMMETRY Symmetry
INVARIANTS
    LInv
    InsertMeetsNoLiveRow
    RecordingIsSound
    OneClientPerGuild
PROPERTIES
    CommandsImplementLifecycle
