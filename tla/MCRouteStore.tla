---------------------------- MODULE MCRouteStore ----------------------------
(* Instances of RouteStore for TLC.  Two kinds of process: `nkl run`, which   *)
(* adds a route under its own pid and removes its hostname's routes when it   *)
(* is done, and `nkl alias`, which adds and removes routes of pid 0.          *)
EXTENDS RouteStore

CONSTANTS a, b, c,           \* processes
          host, other, api,
          portA, portB

P(seg, trail) == [seg |-> seg, trail |-> trail]
Alias(hostname, seg, port) ==
  [key |-> [host |-> hostname, path |-> P(seg, 0)], port |-> port, pid |-> Static]

RunMenu(p, port) ==
  {AddRequest(host, P(Root, 0), port, p, FALSE), RemoveHostRequest(host)}

(* Two runs compete for one hostname; one of them may force its way.         *)
TwoRuns ==
  [p \in Procs |->
     RunMenu(p, IF p = a THEN portA ELSE portB)
       \cup IF p = b THEN {AddRequest(host, P(Root, 0), portB, b, TRUE)} ELSE {}]

(* A run, a user of an alias on its key, and one of an alias below it.       *)
RunAndAliases ==
  [p \in Procs |->
     IF p = a THEN RunMenu(a, portA)
     ELSE LET path == IF p = b THEN P(Root, 0) ELSE P(api, 1)
          IN {AddRequest(host, path, portB, Static, p = b), AliasRemoveRequest(host, path)}]

\* an alias of a hostname that no request is about
OtherAlias == {Alias(other, Root, portA)}

All == {<<p, q>> : p \in Procs, q \in Procs}
=============================================================================
