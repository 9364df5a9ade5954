--------------------------- MODULE MC_DevicePoll ---------------------------
(* Instance of device polling for TLC: two addresses and none, two        *)
(* address changes, one retry and two failures (so the query can reach    *)
(* the error state and recover), and two focus changes.                   *)
EXTENDS DevicePoll
=============================================================================
