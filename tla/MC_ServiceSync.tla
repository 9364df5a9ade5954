--------------------------- MODULE MC_ServiceSync ---------------------------
(* Instance of the service-status view for TLC: three daemon status        *)
(* changes, two buffered messages on the stream and one retry: enough for *)
(* a fetch to read one status while the stream delivers the next, and for *)
(* changes to be lost across a reconnect.                                  *)
EXTENDS ServiceSync
=============================================================================
