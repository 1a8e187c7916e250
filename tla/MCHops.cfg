CONSTANTS
    Ifaces = {"lan", "tun"}
    IfName <- MCIfName
    IfaceOrder <- MCIfaceOrder
    HasV6 = {"lan"}
    MetricValues = {5, 10}
    NameTexts <- MCNameTexts
    Callers = {c1, c2}
SPECIFICATION Spec
INVARIANT TypeOK
PROPERTY GetReportsIpv4Metrics
PROPERTY SetAppliesOnlyNamed
