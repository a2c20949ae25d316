\* Two calls over two connections, with orders and quotes, a heartbeat, and an end-of-day
\* pass at any moment; the pinned token is one that the wire cuts.
SPECIFICATION FairSpec
CONSTANTS
    Explicit = {t1}
    Long = {t1}
    Stem = t0
    Kinds = {"day", "ioc", "far"}
    Logins = {"right", "taken"}
    MaxCall = 2
    MaxConn = 2
    Instrument = {b1}
    QuoteShapes = {"bid", "crossed"}
    MaxBeat = 1
    MaxInactivate = 1
INVARIANTS OneFate TokenOnce HeardIsRight OrdersAreKnown
PROPERTIES OnlyPassGarbles LoginAnswered StopReturns
