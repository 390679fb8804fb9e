----------------------------- MODULE Forwarding -----------------------------
(* One request on its way through the proxies: handle_request of              *)
(* src/proxy/handler.rs and handle_upgrade of src/proxy/websocket.rs,         *)
(* which forward it in the same way.  A route may lead to an app, to a port   *)
(* where nothing listens any more, to another proxy, or back to this one.     *)
EXTENDS RouteMatching

CONSTANTS
  Proxies,    \* ports where a proxy listens
  Apps,       \* ports of apps, running or not
  Tables,     \* the route lists the proxies may hold, [Proxies -> Seq(route)]
  Labels,     \* labels of hostnames and segments of paths
  Requests,   \* what a client may send, [host, path, hops]
  MaxHops,    \* max_hops
  MaxPasses   \* bound: proxies a request may reach before the run gives up

(* The host of a request whose Host header was rewritten: 127.0.0.1:<port>,   *)
(* less the port.                                                             *)
Loopback == <<"127.0.0.1">>

Request == [host : Seq(Labels), path : Seq(Labels), hops : Seq(Int)]
Route == [host : Seq(Labels), prefix : Seq(Labels), port : Proxies \cup Apps,
          change_origin : BOOLEAN, strip : BOOLEAN]

ASSUME ForwardingAssumption ==
  /\ Proxies \cap Apps = {}
  /\ \A t \in Tables : \A p \in Proxies : t[p] \in Seq(Route)
  /\ Requests \subseteq Request /\ Loopback \in Seq(Labels)
  /\ MaxHops \in Nat /\ MaxPasses \in Nat

VARIABLES
  routes,   \* the routes each proxy found in its cache
  legs,     \* the request as each server on its way got it, latest last
  reply     \* status of the answer on its way back, 0 while there is none

fwdVars == <<routes, legs, reply>>

FwdInit ==
  /\ routes \in Tables
  /\ \E p \in Proxies, q \in Requests : legs = <<[port |-> p, req |-> q]>>
  /\ reply = 0

(* Mutant: a negative count is one, too.                                    *)
HopsSigned(q) == IF q.hops # <<>> THEN Head(q.hops) ELSE 0

(* extract_hops: the first x-nkl-hops value, if it is a number; -1 is a value *)
(* that is none.                                                              *)
Hops(q) == IF q.hops # <<>> /\ Head(q.hops) >= 0 THEN Head(q.hops) ELSE 0

Here == Last(legs)
AtProxy == legs # <<>> /\ reply = 0 /\ Here.port \in Proxies

Respond(status) == reply' = status /\ UNCHANGED <<routes, legs>>

NoHost == AtProxy /\ Here.req.host = <<>> /\ Respond(400)

Handled == AtProxy /\ Here.req.host # <<>>

(* Mutants: the comparison is off by one, either way.                         *)
LoopingLate(q)  == Hops(q) > MaxHops
LoopingEarly(q) == Hops(q) + 1 >= MaxHops

Looping(q) == Hops(q) >= MaxHops

LoopDetected == Handled /\ Looping(Here.req) /\ Respond(508)

Found == FindRoute(Here.req.host, Here.req.path, routes[Here.port])
Routed == Handled /\ ~Looping(Here.req)

NotFound == Routed /\ Found = {} /\ Respond(404)

(* build_forwarded_request and build_raw_upgrade_request: the headers are     *)
(* copied, the old hop counts with them, and the new count is added after.    *)
Forwarded(q, r) ==
  [host |-> IF r.change_origin THEN Loopback ELSE q.host,
   path |-> ForwardedPath(q.path, r),
   hops |-> Append(q.hops, Hops(q) + 1)]

Forward ==
  /\ Routed /\ Len(legs) < MaxPasses
  /\ \E i \in Found :
       LET r == routes[Here.port][i]
       IN legs' = Append(legs, [port |-> r.port, req |-> Forwarded(Here.req, r)])
  /\ UNCHANGED <<routes, reply>>

(* The connection fails, or is lost before the answer.                        *)
UpstreamLost == Routed /\ Found # {} /\ Respond(502)

(* An app answers, with 101 if it is asked to upgrade.                        *)
AppAnswers ==
  legs # <<>> /\ reply = 0 /\ Here.port \in Apps /\ (Respond(200) \/ Respond(101))

(* The app dies on a request: its proxy answers.                              *)
AppFails ==
  /\ legs # <<>> /\ reply = 0 /\ Here.port \in Apps
  /\ legs' = Front(legs) /\ reply' = 502
  /\ UNCHANGED routes

(* A proxy passes the answer of its upstream on.                              *)
Return == /\ legs # <<>> /\ reply # 0
          /\ legs' = Front(legs)
          /\ UNCHANGED <<routes, reply>>

FwdNext == \/ NoHost \/ LoopDetected \/ NotFound \/ Forward \/ UpstreamLost
           \/ AppAnswers \/ AppFails \/ Return

FwdSpec == FwdInit /\ [][FwdNext]_fwdVars

(* Proxies and apps get on with what they have.  UpstreamLost and AppFails    *)
(* are failures, and need not happen.                                         *)
FwdFairSpec == FwdSpec /\ WF_fwdVars(NoHost \/ LoopDetected \/ NotFound \/ Forward
                                 \/ AppAnswers \/ Return)

-----------------------------------------------------------------------------
(* Properties *)

(* Every variable keeps its type, an answer is one of those the code gives,   *)
(* and what a proxy has forwarded carries a count it made, 1 at the least.    *)
FwdTypeOK ==
  /\ routes \in Tables
  /\ \A i \in DOMAIN legs : legs[i].port \in Proxies \cup Apps /\ legs[i].req \in Request
  /\ \A i \in DOMAIN legs \ {1} : Last(legs[i].req.hops) >= 1
  /\ reply \in {0, 101, 200, 400, 404, 502, 508}

Reached == {i \in DOMAIN legs : legs[i].port \in Proxies}

(* A request that came in without a hop count is not refused as looping       *)
(* before it has passed max_hops proxies.                                     *)
NoFalseLoop ==
  [][reply' = 508 /\ reply = 0 /\ legs[1].req.hops = <<>> => Len(legs) > MaxHops]_fwdVars

(* A loop is cut: no request that came in without a hop count reaches more    *)
(* proxies than max_hops and the one that refuses it.                         *)
LoopIsCut ==
  legs # <<>> /\ legs[1].req.hops = <<>> => Cardinality(Reached) <= MaxHops + 1

(* Every request that came in without a hop count is answered in the end,     *)
(* loop or no loop.                                                           *)
EveryRequestAnswered ==
  legs # <<>> /\ legs[1].req.hops = <<>> ~> legs = <<>> /\ reply # 0
=============================================================================
