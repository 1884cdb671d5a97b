\* '--src-ip ue1' on a host without tunnels: the capture falls back to 'any'.
CONSTANTS
    Addrs <- MCAddrs
    ValIfaces <- NoTunIfaces
    IfaceIP <- NoTunIP
    NoIP <- MCNoIP
    Packets <- MCPackets
    Traffic <- NoTunTraffic
    ArgChoices <- SrcIpArgs
    ProbeOutcomes <- ProbePasses
    MaxRecords = 2
    PipeCap = 2
    MaxInterrupts = 0
SPECIFICATION Spec
INVARIANT RenderedSourceIsTarget
