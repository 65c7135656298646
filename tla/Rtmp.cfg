SPECIFICATION FairSpec
CONSTANT MaxFrames = 5
INVARIANT TypeOK
INVARIANT PusherExclusive
INVARIANT StatsTrue
PROPERTY TimestampsAdvance
PROPERTY FailureLeadsToReconnect
PROPERTY StopEnds
PROPERTY ImplementsPusher
