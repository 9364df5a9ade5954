CONSTANTS
    Ips = {i1, i2}
    NoIp = NoIp
    DefaultGateway = dg
    None = None
    MaxRetry = 1
    MaxChange = 2
    MaxFail = 2
    MaxFocus = 2

SPECIFICATION DeviceSpec

\* An unfocused window with no request in flight does nothing until the
\* user returns to it.
CHECK_DEADLOCK FALSE

INVARIANT DeviceTypeOK
PROPERTY DeviceEventuallyCurrent
