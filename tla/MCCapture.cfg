\* Every command line on a host with tunnels; one SIGINT.
CONSTANTS
    Addrs <- MCAddrs
    ValIfaces <- TunIfaces
    IfaceIP <- TunIP
    NoIP <- MCNoIP
    Packets <- MCPackets
    Traffic <- TunTraffic
    ArgChoices <- AllArgs
    ProbeOutcomes <- MCProbeOutcomes
    MaxRecords = 3
    PipeCap = 2
    MaxInterrupts = 1
SPECIFICATION FairSpec
INVARIANT TypeOK
 
INVARIANT LimitYieldsAllLines
INVARIANT CancelStopsCapture
INVARIANT SummaryCountsShown
 
PROPERTY CountLimitEnds
PROPERTY TapRefinement
