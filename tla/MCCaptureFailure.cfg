\* '--src-ip ue1' on a host with tunnels; tshark may fail mid-capture.
CONSTANTS
    Addrs <- MCAddrs
    ValIfaces <- TunIfaces
    IfaceIP <- TunIP
    NoIP <- MCNoIP
    Packets <- MCPackets
    Traffic <- TunTraffic
    ArgChoices <- SrcIpArgs
    ProbeOutcomes <- ProbePasses
    MaxRecords = 2
    PipeCap = 2
    MaxInterrupts = 0
SPECIFICATION Spec
INVARIANT CaptureFailureReported
