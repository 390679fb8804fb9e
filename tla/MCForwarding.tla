---------------------------- MODULE MCForwarding ----------------------------
(* Instances of Forwarding for TLC.                                           *)
EXTENDS Forwarding

CONSTANTS proxyA, proxyB, app

Shop == <<"shop", "localhost">>
Api  == <<"api", "shop", "localhost">>    \* a subdomain of Shop

Words == {"shop", "api", "localhost", "v1", "127.0.0.1"}

R(host, prefix, port, change, strip) ==
  [host |-> host, prefix |-> prefix, port |-> port,
   change_origin |-> change, strip |-> strip]

Q(host, path, hops) == [host |-> host, path |-> path, hops |-> hops]

Entry == UNION {{R(h, <<>>, port, FALSE, FALSE), R(h, <<"v1">>, port, FALSE, FALSE),
                 R(h, <<"v1">>, port, FALSE, TRUE)} :
                   h \in {Shop, Api}, port \in {proxyA, proxyB, app}}
           \cup {R(Shop, <<>>, port, TRUE, FALSE) : port \in {proxyA, proxyB}}

(* Any two routes at one proxy that the store may hold together, in either    *)
(* order; the other proxy passes everything to the first, or knows nothing.   *)
Pairs == {<<r, s>> \in Entry \X Entry : <<r.host, r.prefix>> # <<s.host, s.prefix>>}
AnyTwo == {[p \in Proxies |-> IF p = proxyA THEN two ELSE back] :
          two \in Pairs,
          back \in {<<>>, <<R(Shop, <<>>, proxyA, FALSE, FALSE)>>}}

(* A proxy whose route leads back to it.                                      *)
Loop == {[p \in Proxies |-> <<R(Shop, <<>>, p, FALSE, FALSE)>>]}

Clients == {Q(h, p, hops) : h \in {Shop, Api}, p \in {<<>>, <<"v1">>, <<"v1", "v1">>},
                            hops \in {<<>>, <<0>>, <<1>>, <<-1>>}}
             \cup {Q(<<>>, <<>>, <<>>)}
Plain == {Q(h, <<>>, <<>>) : h \in {Shop, Api}}
=============================================================================
