CONSTANTS
    Types <- MCTypes
    DefaultType = "socks5"
    Addrs = {a1, bad}
    HostPorts = {a1}
    DefaultAddr = a1
    EmptyAddr = EmptyAddr
    NoType = NoType
    None = None
    Typed = Typed
    MaxVersion = 2
    MaxRetry = 1

SPECIFICATION ProxySpec

INVARIANT ProxyTypeOK
