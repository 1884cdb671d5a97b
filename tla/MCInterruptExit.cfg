\* '--src-ip ue1' on a host with tunnels, one SIGINT anywhere.
CONSTANTS
    Addrs <- MCAddrs
    ValIfaces <- TunIfaces
    IfaceIP <- TunIP
    NoIP <- MCNoIP
    Packets <- MCPackets
    Traffic <- TunTraffic
    ArgChoices <- SrcIpArgs
    ProbeOutcomes <- ProbePasses
    MaxRecords = 2
    PipeCap = 2
    MaxInterrupts = 1
SPECIFICATION Spec
INVARIANT InterruptExitsZero
