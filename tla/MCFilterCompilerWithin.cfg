CONSTANTS
    V4Bits = 2
    V6Bits = 1
    BadAddr = BadAddr
    NaN = NaN
    None = None
    Names = {n1}
    Apps = {a1, a2}
    AppForms = {"device"}
    AddrTexts <- MCAddrTexts
    Ports = {2}
    PortRanges <- MCPortRanges
    Priorities = {100}
    Descriptions = {d1}
    FlowPorts = {0, 1, 2}
SPECIFICATION Spec
VIEW MatchView
INVARIANT FiltersWithinRule
