----------------------------- MODULE MCProxyLogs -----------------------------
(* An instance of ProxyLogs for TLC: three daemons that write two lines each, *)
(* so that the log may be truncated twice under the follower, and one or two  *)
(* grow past its position in the log of another.                              *)
EXTENDS ProxyLogs

CONSTANTS d1, d2, d3
=============================================================================
