\* Every command line on a host with tunnels; two SIGINTs.
CONSTANTS
    Addrs <- MCAddrs
    ValIfaces <- TunIfaces
    IfaceIP <- TunIP
    NoIP <- MCNoIP
    Packets <- MCPackets
    Traffic <- TunTraffic
    ArgChoices <- AllArgs
    ProbeOutcomes <- MCProbeOutcomes
    MaxRecords = 1
    PipeCap = 1
    MaxInterrupts = 2
SPECIFICATION Spec
INVARIANT CancelStopsCapture
