CONSTANTS
    Addrs = {a1}
    Prefixes <- MCPrefixes
    HostPrefix = 32
    NoPrefix = NoPrefix
    BadPrefix = BadPrefix
    Gateways = {g1}
    DefaultGateway = g1
    Metrics <- MCMetrics
    DefaultMetric = 100
    None = None
    Absent = Absent
    MaxVersion = 2
    MaxRetry = 1


SPECIFICATION Spec

INVARIANT RefetchShowsConfirmed
