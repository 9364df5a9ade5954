-------------------------- MODULE MC_ProxySettings --------------------------
(* Instance of the proxy card for TLC: two protocols, a host:port address *)
(* and one that does not parse, two saves and one retry: enough for a    *)
(* fetch to read one stored configuration and land after the next save.  *)
EXTENDS ProxySettings

MCTypes == {"socks5", "http"}
=============================================================================
