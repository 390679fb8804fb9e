--------------------------- MODULE MCProxyLifecycle ---------------------------
(* An instance of ProxyLifecycle for TLC: two daemons, of which d1 serves      *)
(* https, a proxy f in the foreground, and a stopper x that may not signal d2. *)
EXTENDS ProxyLifecycle

CONSTANTS d1, d2, f, x, s1, s2

MaySignal == {<<x, d1>>, <<x, f>>}
=============================================================================
