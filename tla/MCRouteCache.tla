---------------------------- MODULE MCRouteCache ----------------------------
(* Instances of RouteCache for TLC: a run and a user of aliases write while   *)
(* the proxy starts, polls and stops.                                         *)
EXTENDS RouteCache

CONSTANTS a, b, host, api, portA, portB

P(seg) == [seg |-> seg, trail |-> 0]

(* `nkl run` of a, and aliases that b makes and removes.                      *)
RunAndAlias ==
  [p \in Procs |->
     IF p = a THEN {AddRequest(host, P(Root), portA, a, FALSE), RemoveHostRequest(host)}
              ELSE {AddRequest(host, P(api), portB, Static, TRUE), AliasRemoveRequest(host, P(api))}]

NoRoutes == {}

All == (Procs \cup {Proxy}) \X Procs
=============================================================================
