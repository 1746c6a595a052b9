\* Every command in both directions, alone or followed by a second packet,
\* the stream cut in every way; every dnscat2 packet type through the
\* DNS tunnel in both directions, under no domain and a short one, and the
\* query-length bound under long domains.
\* A key exchange against an attacker, with and without a pre-shared
\* secret; it may stop for good when the client exits.
CONSTANTS
    Packets <- AllPackets
    MaxPackets = 2
    Domains <- LongDomains
    WirePackets <- SomePackets
    MaxBuffer = 130
SPECIFICATION CodecSpec
INVARIANT RoundTrip
INVARIANT FramesHandled
INVARIANT QueryFits
INVARIANT TunnelRoundTrip
INVARIANT PskAuthenticates
PROPERTY RenegKeepsPeer
CHECK_DEADLOCK FALSE
