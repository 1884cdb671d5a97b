\* Every full record over two values per address/port field.
CONSTANTS
    V4Vals = {"", "10.0.0.1"}
    V6Vals = {"", "fd00::1"}
    PortVals = {"", "2152"}
    ProtoVals = {"", "6", "17", "58", "99"}
SPECIFICATION Spec
INVARIANT DecoderMatchesSpec
