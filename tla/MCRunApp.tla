------------------------------- MODULE MCRunApp -------------------------------
(* Instances of RunApp for TLC: a and b run an app of one hostname, and       *)
(* somebody has an alias below it.                                            *)
EXTENDS RunApp

CONSTANTS a, b, shop, docs, api, port1, port2, aliasPort

OneHost == [p \in Procs |-> shop]

OfApi == {[host |-> shop, path |-> api]}

ApiAlias == {[key |-> [host |-> shop, path |-> api], port |-> aliasPort, pid |-> Static]}
=============================================================================
