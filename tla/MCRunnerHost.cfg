SPECIFICATION HostFairSpec
CONSTANTS
    s1 = s1
    Session <- MCSession
    NoSession = NoSession
    Channels <- MCChannels
    Temper <- Tempers
    MaxChunk <- MCMaxChunk
INVARIANTS OneEnd
PROPERTIES StoppingEnds
CHECK_DEADLOCK FALSE
