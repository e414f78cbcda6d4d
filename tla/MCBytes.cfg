CONSTANTS
    K = 3
    maxSize = 4
    MaxFrame = 5
    MaxPayload = 7
    RawPackets <- MCRawPackets
SPECIFICATION AnySpec
CHECK_DEADLOCK FALSE
INVARIANT LastByteExists
INVARIANT RoundTrip
INVARIANT RightCrc
INVARIANT ChannelsAsSent
PROPERTY StreamsWhole
PROPERTY DecodesFrames
PROPERTY Recovers
