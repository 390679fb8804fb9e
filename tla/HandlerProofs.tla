------------------------------ MODULE HandlerProofs ------------------------------
(* Theorems about what the proxy does with a request: RouteMatching and       *)
(* Forwarding, for any proxies, routes and hop limit, and UpgradeHandshake,   *)
(* for heads, bodies, reads and a limit of any size.                          *)
EXTENDS Forwarding, UpgradeHandshake, SequenceTheorems, TLAPS

-----------------------------------------------------------------------------
(* The route that is taken. *)

(* Of two prefixes of one path the shorter is a prefix of the longer.         *)
LEMMA PrefixesNest ==
  ASSUME NEW path \in Seq(Labels), NEW s \in Seq(Labels), NEW t \in Seq(Labels),
         IsPrefix(s, path), IsPrefix(t, path), Len(s) <= Len(t)
  PROVE  /\ IsPrefix(s, t)
         /\ Len(s) = Len(t) => s = t
<1>1. /\ Len(s) \in Nat /\ Len(t) \in Nat /\ Len(path) \in Nat
      /\ Len(s) <= Len(path) /\ Len(t) <= Len(path)
  BY DEF IsPrefix
<1>2. ASSUME NEW k \in 1 .. Len(s) PROVE s[k] = path[k]
  <2>1. SubSeq(s, 1, Len(s))[k] = s[k] /\ SubSeq(path, 1, Len(s))[k] = path[k]
    BY <1>1
  <2> QED
    BY <2>1 DEF IsPrefix
<1>3. ASSUME NEW k \in 1 .. Len(t) PROVE t[k] = path[k]
  <2>1. SubSeq(t, 1, Len(t))[k] = t[k] /\ SubSeq(path, 1, Len(t))[k] = path[k]
    BY <1>1
  <2> QED
    BY <2>1 DEF IsPrefix
<1>4. \A k \in 1 .. Len(s) : s[k] = t[k]
  BY <1>1, <1>2, <1>3
<1>5. SubSeq(s, 1, Len(s)) = SubSeq(t, 1, Len(s))
  <2>1. \A k \in 1 .. Len(s) : SubSeq(s, 1, Len(s))[k] = SubSeq(t, 1, Len(s))[k]
    BY <1>1, <1>4
  <2>2. /\ SubSeq(s, 1, Len(s)) \in Seq(Labels) /\ Len(SubSeq(s, 1, Len(s))) = Len(s)
        /\ SubSeq(t, 1, Len(s)) \in Seq(Labels) /\ Len(SubSeq(t, 1, Len(s))) = Len(s)
    BY <1>1, SubSeqProperties
  <2> QED
    BY <2>1, <2>2, SeqEqual
<1>6. Len(s) = Len(t) => s = t
  BY <1>4, SeqEqual
<1> QED
  BY <1>5, <1>6 DEF IsPrefix

(* find_route sorts the routes that match by the length of the prefix's text  *)
(* alone, longest first and stably, and takes the first (handler.rs:58).      *)
(* Whatever length the texts have, as long as a longer path has a longer      *)
(* text, that is the route FindRoute names: the one with the most segments    *)
(* and, of two with the same prefix, the one that comes first in the table.   *)
THEOREM FirstOfTheSort ==
  ASSUME NEW host, NEW path \in Seq(Labels), NEW table \in Seq(Route),
         NEW width \in [Seq(Labels) -> Nat],
         \A s, t \in Seq(Labels) : IsPrefix(s, t) /\ s # t => width[s] < width[t],
         NEW order \in Seq(Candidates(host, path, table)),
         \A i \in Candidates(host, path, table) : \E k \in DOMAIN order : order[k] = i,
         \A k, l \in DOMAIN order : k < l =>
           \/ width[table[order[k]].prefix] > width[table[order[l]].prefix]
           \/ /\ width[table[order[k]].prefix] = width[table[order[l]].prefix]
              /\ order[k] < order[l]
  PROVE  FindRoute(host, path, table) = IF order = <<>> THEN {} ELSE {order[1]}
<1> DEFINE C == Candidates(host, path, table)
           size(i) == Len(table[i].prefix)
           long(i) == width[table[i].prefix]
           Ahead(i, j) == size(i) > size(j) \/ (size(i) = size(j) /\ i < j)
<1>1. C \subseteq Nat
  BY DEF Candidates
<1>2. ASSUME NEW i \in C
      PROVE  table[i].prefix \in Seq(Labels) /\ IsPrefix(table[i].prefix, path)
  <2>1. i \in 1 .. Len(table) /\ IsPrefix(table[i].prefix, path)
    BY DEF Candidates, PathMatches
  <2>2. table[i] \in Route
    BY <2>1, ElementOfSeq
  <2> QED
    BY <2>1, <2>2 DEF Route
<1>3. ASSUME NEW i \in C PROVE size(i) \in Nat /\ long(i) \in Nat
  BY <1>2
<1>4. ASSUME NEW i \in C, NEW j \in C
      PROVE  /\ size(i) < size(j) => long(i) < long(j)
             /\ size(i) = size(j) => long(i) = long(j)
  <2> DEFINE s == table[i].prefix
             t == table[j].prefix
  <2>1. s \in Seq(Labels) /\ t \in Seq(Labels) /\ IsPrefix(s, path) /\ IsPrefix(t, path)
    BY <1>2
  <2> HIDE DEF s, t
  <2>2. Len(s) \in Nat /\ Len(t) \in Nat
    BY <2>1
  <2>3. Len(s) <= Len(t) => IsPrefix(s, t) /\ (Len(s) = Len(t) => s = t)
    BY <2>1, PrefixesNest
  <2>4. Len(s) < Len(t) => width[s] < width[t]
    BY <2>1, <2>2, <2>3
  <2>5. Len(s) = Len(t) => width[s] = width[t]
    BY <2>2, <2>3
  <2> QED
    BY <2>4, <2>5 DEF s, t
<1>5. FindRoute(host, path, table) = {i \in C : \A j \in C \ {i} : Ahead(i, j)}
  BY DEF FindRoute
<1>6. \A i \in C : \E k \in DOMAIN order : order[k] = i
  OBVIOUS
<1>7. \A k, l \in DOMAIN order :
        k < l => long(order[k]) > long(order[l])
                 \/ (long(order[k]) = long(order[l]) /\ order[k] < order[l])
  OBVIOUS
<1>10. order \in Seq(C) /\ DOMAIN order = 1 .. Len(order) /\ Len(order) \in Nat
      /\ \A k \in DOMAIN order : order[k] \in C
  BY ElementOfSeq
<1> HIDE DEF C, size, long
<1>8. CASE order = <<>>
  <2>1. C = {}
    BY <1>6, <1>8
  <2> QED
    BY <1>5, <1>8, <2>1
<1>9. CASE order # <<>>
  <2>1. 1 \in DOMAIN order /\ order[1] \in C
    BY <1>10, <1>9, EmptySeq
  <2>2. ASSUME NEW j \in C, j # order[1] PROVE Ahead(order[1], j) /\ ~Ahead(j, order[1])
    <3>1. PICK l \in DOMAIN order : order[l] = j
      BY <1>6
    <3>2. 1 < l
      BY <1>10, <2>2, <3>1
    <3>3. long(order[1]) > long(j) \/ (long(order[1]) = long(j) /\ order[1] < j)
      BY <1>7, <2>1, <3>1, <3>2
    <3>4. /\ size(order[1]) < size(j) => long(order[1]) < long(j)
          /\ size(order[1]) = size(j) => long(order[1]) = long(j)
          /\ size(j) < size(order[1]) => long(j) < long(order[1])
      BY <1>4, <2>1
    <3>5. /\ size(order[1]) \in Nat /\ size(j) \in Nat
          /\ long(order[1]) \in Nat /\ long(j) \in Nat /\ order[1] \in Nat /\ j \in Nat
      BY <1>1, <1>3, <2>1
    <3> QED
      BY <3>3, <3>4, <3>5
  <2> HIDE DEF Ahead
  <2>3. \A i \in C : (\A j \in C \ {i} : Ahead(i, j)) <=> i = order[1]
    BY <2>1, <2>2
  <2> QED
    BY <1>5, <1>9, <2>1, <2>3
<1> QED
  BY <1>8, <1>9

-----------------------------------------------------------------------------
(* A request on its way: Forwarding. *)

Leg == [port : Proxies \cup Apps, req : Request]

FwdTypes == /\ routes \in Tables /\ legs \in Seq(Leg)
            /\ reply \in {0, 101, 200, 400, 404, 502, 508}

(* What was forwarded carries a count, made here; but the first count it      *)
(* carries, which is the one that is read, stays 1 if the client sent none.   *)
Counted == \A i \in DOMAIN legs \ {1} : Last(legs[i].req.hops) >= 1
CountStays ==
  legs # <<>> /\ legs[1].req.hops = <<>> =>
    \A i \in DOMAIN legs \ {1} : legs[i].req.hops # <<>> /\ Head(legs[i].req.hops) = 1

FwdInv == FwdTypes /\ Counted /\ CountStays

LEMMA Limited == MaxHops \in Nat
BY ForwardingAssumption

LEMMA HopsTyped ==
  ASSUME NEW q \in Request
  PROVE  /\ Hops(q) \in Nat
         /\ q.hops = <<>> => Hops(q) = 0
         /\ q.hops # <<>> /\ Head(q.hops) = 1 => Hops(q) = 1
<1>1. q.hops \in Seq(Int)
  BY DEF Request
<1>2. q.hops # <<>> => Head(q.hops) \in Int
  BY <1>1, HeadTailProperties
<1> QED
  BY <1>2 DEF Hops

LEMMA OneCountMore ==
  ASSUME NEW s \in Seq(Int), NEW n \in Int
  PROVE  /\ Append(s, n) \in Seq(Int) /\ Append(s, n) # <<>> /\ Len(Append(s, n)) = Len(s) + 1
         /\ \A i \in 1 .. Len(s) : Append(s, n)[i] = s[i]
         /\ Append(s, n)[Len(s) + 1] = n
BY AppendProperties

LEMMA ForwardedTyped ==
  ASSUME NEW q \in Request, NEW r \in Route
  PROVE  /\ Forwarded(q, r) \in Request
         /\ Last(Forwarded(q, r).hops) >= 1 /\ Forwarded(q, r).hops # <<>>
         /\ q.hops = <<>> => Head(Forwarded(q, r).hops) = 1
         /\ q.hops # <<>> => Head(Forwarded(q, r).hops) = Head(q.hops)
<1>1. /\ q.host \in Seq(Labels) /\ q.path \in Seq(Labels) /\ q.hops \in Seq(Int)
      /\ r.prefix \in Seq(Labels)
  BY DEF Request, Route
<1>2. ForwardedPath(q.path, r) \in Seq(Labels)
  <2>1. PICK k \in Nat : k = Len(r.prefix)
    BY <1>1
  <2>2. \A i \in k + 1 .. Len(q.path) : q.path[i] \in Labels
    BY <1>1, <2>1
  <2>3. k + 1 \in Int /\ Len(q.path) \in Int
    BY <1>1
  <2>4. SubSeq(q.path, k + 1, Len(q.path)) \in Seq(Labels)
    BY <2>2, <2>3, SubSeqProperties
  <2> QED
    BY <1>1, <2>1, <2>4 DEF ForwardedPath, Strip
<1>3. Loopback \in Seq(Labels)
  BY ForwardingAssumption
<1>4. PICK h : h = Append(q.hops, Hops(q) + 1)
  OBVIOUS
<1>5. PICK n \in Nat : n = Hops(q) + 1 /\ n >= 1 /\ (q.hops = <<>> => n = 1)
  BY HopsTyped
<1>6. /\ h \in Seq(Int) /\ h # <<>> /\ Len(h) = Len(q.hops) + 1
      /\ \A i \in 1 .. Len(q.hops) : h[i] = q.hops[i]
      /\ h[Len(q.hops) + 1] = n
  <2>1. n \in Int /\ h = Append(q.hops, n)
    BY <1>4, <1>5
  <2>2. PICK s \in Seq(Int) : s = q.hops
    BY <1>1
  <2>3. /\ Append(s, n) \in Seq(Int) /\ Append(s, n) # <<>> /\ Len(Append(s, n)) = Len(s) + 1
        /\ \A i \in 1 .. Len(s) : Append(s, n)[i] = s[i]
        /\ Append(s, n)[Len(s) + 1] = n
    BY <2>1, OneCountMore, Zenon
  <2> QED
    BY <2>1, <2>2, <2>3, Zenon
<1>7. Forwarded(q, r).hops = h /\ Forwarded(q, r) \in Request
  BY <1>1, <1>2, <1>3, <1>4, <1>6 DEF Forwarded, Request
<1>8. Last(h) = n
  BY <1>6 DEF Last
<1>9. Head(h) = h[1]
  BY <1>6
<1>10. q.hops = <<>> => Head(h) = 1
  <2>1. q.hops = <<>> => Len(q.hops) = 0
    OBVIOUS
  <2> QED
    BY <1>5, <1>6, <1>9, <2>1
<1>11. q.hops # <<>> => Head(h) = Head(q.hops)
  <2>1. q.hops # <<>> => Len(q.hops) \in Nat \ {0} /\ Head(q.hops) = q.hops[1]
    BY <1>1
  <2> QED
    BY <1>6, <1>9, <2>1
<1> QED
  BY <1>5, <1>6, <1>7, <1>8, <1>10, <1>11

(* The last leg is a leg.                                                     *)
LEMMA HereTyped ==
  ASSUME FwdTypes, legs # <<>>
  PROVE  /\ Len(legs) \in Nat \ {0} /\ Len(legs) \in DOMAIN legs /\ DOMAIN legs = 1 .. Len(legs)
         /\ Here = legs[Len(legs)] /\ Here \in Leg /\ 1 \in DOMAIN legs
         /\ legs[1] \in Leg
<1>1. Len(legs) \in Nat \ {0} /\ DOMAIN legs = 1 .. Len(legs)
  BY DEF FwdTypes
<1>2. legs[Len(legs)] \in Leg /\ legs[1] \in Leg
  BY <1>1, ElementOfSeq DEF FwdTypes
<1> QED
  BY <1>1, <1>2 DEF Here, Last

LEMMA FrontDoes ==
  ASSUME NEW S, NEW s \in Seq(S), s # <<>>
  PROVE  /\ Front(s) \in Seq(S) /\ Len(Front(s)) = Len(s) - 1
         /\ \A i \in 1 .. Len(s) - 1 : Front(s)[i] = s[i]
<1>1. PICK n \in Nat : n = Len(s) - 1
  OBVIOUS
<1>2. 1 \in Int /\ n \in Int /\ \A i \in 1 .. n : s[i] \in S
  BY <1>1
<1>3. PICK f : f = SubSeq(s, 1, n)
  OBVIOUS
<1>4. /\ f \in Seq(S) /\ Len(f) = IF 1 <= n THEN n - 1 + 1 ELSE 0
      /\ \A i \in 1 .. n - 1 + 1 : f[i] = s[1 + i - 1]
  BY <1>2, <1>3, SubSeqProperties
<1>5. Len(f) = n /\ \A i \in 1 .. n : f[i] = s[i]
  BY <1>4
<1>6. Front(s) = f
  BY <1>1, <1>3 DEF Front
<1> QED
  BY <1>1, <1>4, <1>5, <1>6

(* An answer goes back one leg.                                               *)
LEMMA BackKeeps ==
  ASSUME FwdInv, legs # <<>>, legs' = Front(legs), routes' = routes,
         reply' \in {0, 101, 200, 400, 404, 502, 508}
  PROVE  FwdInv'
<1>1. PICK n \in Nat : Len(legs) = n + 1
  <2>1. Len(legs) \in Nat \ {0}
    BY HereTyped DEF FwdInv
  <2>2. Len(legs) - 1 \in Nat /\ Len(legs) = (Len(legs) - 1) + 1
    BY <2>1
  <2> QED
    BY <2>2, Zenon
<1>2. PICK l : l = Front(legs)
  OBVIOUS
<1>3. /\ legs' \in Seq(Leg) /\ Len(legs') = n
      /\ \A i \in 1 .. n : legs'[i] = legs[i]
  <2>1. l \in Seq(Leg) /\ Len(l) = Len(legs) - 1 /\ \A i \in 1 .. Len(legs) - 1 : l[i] = legs[i]
    BY <1>2, FrontDoes DEF FwdInv, FwdTypes
  <2> QED
    BY <1>1, <1>2, <2>1
<1>4. DOMAIN legs' = 1 .. n /\ DOMAIN legs = 1 .. n + 1
  BY <1>1, <1>3, HereTyped DEF FwdInv
<1>5. FwdTypes'
  BY <1>3 DEF FwdInv, FwdTypes
<1>6. Counted'
  BY <1>3, <1>4 DEF FwdInv, Counted
<1>7. CountStays'
  <2>1. legs' # <<>> => n >= 1
    BY <1>3
  <2> QED
    BY <1>3, <1>4, <2>1 DEF FwdInv, CountStays
<1> QED
  BY <1>5, <1>6, <1>7 DEF FwdInv

LEMMA ForwardKeeps ==
  ASSUME FwdInv, Forward
  PROVE  FwdInv' /\ legs'[1] = legs[1]
<1>1. /\ legs # <<>> /\ Here.port \in Proxies /\ UNCHANGED <<routes, reply>>
  BY DEF Forward, Routed, Handled, AtProxy
<1>2. PICK i \in Found :
        legs' = Append(legs, [port |-> routes[Here.port][i].port,
                              req |-> Forwarded(Here.req, routes[Here.port][i])])
  BY DEF Forward
<1>3. PICK r : r = routes[Here.port][i]
  OBVIOUS
<1>4. r \in Route
  <2>1. routes[Here.port] \in Seq(Route)
    BY <1>1, ForwardingAssumption DEF FwdInv, FwdTypes
  <2>2. i \in DOMAIN routes[Here.port]
    BY DEF Found, FindRoute, Candidates
  <2> QED
    BY <1>3, <2>1, <2>2, ElementOfSeq
<1>5. PICK q : q = Forwarded(Here.req, r)
  OBVIOUS
<1>6. Here.req \in Request
  BY <1>1, HereTyped DEF FwdInv, Leg
<1>7. /\ q \in Request /\ Last(q.hops) >= 1 /\ q.hops # <<>>
      /\ Here.req.hops = <<>> => Head(q.hops) = 1
      /\ Here.req.hops # <<>> => Head(q.hops) = Head(Here.req.hops)
  BY <1>4, <1>5, <1>6, ForwardedTyped, Zenon
<1>8. PICK l : l = [port |-> r.port, req |-> q]
  OBVIOUS
<1>9. l \in Leg /\ l.req = q /\ legs' = Append(legs, l)
  BY <1>2, <1>3, <1>4, <1>5, <1>7, <1>8 DEF Leg, Route
<1>10. PICK n \in Nat \ {0} : n = Len(legs) /\ Here = legs[n] /\ DOMAIN legs = 1 .. n
  BY <1>1, HereTyped DEF FwdInv
<1>11. /\ legs' \in Seq(Leg) /\ Len(legs') = n + 1 /\ legs'[n + 1] = l
       /\ \A j \in 1 .. n : legs'[j] = legs[j]
  BY <1>9, <1>10, AppendProperties DEF FwdInv, FwdTypes
<1>12. DOMAIN legs' = 1 .. n + 1
  BY <1>11
<1>13. FwdTypes'
  BY <1>1, <1>11 DEF FwdInv, FwdTypes
<1>14. Counted'
  <2> SUFFICES ASSUME NEW j \in DOMAIN legs' \ {1} PROVE Last(legs'[j].req.hops) >= 1
    BY DEF Counted
  <2>1. CASE j = n + 1
    BY <1>7, <1>9, <1>11, <2>1
  <2>2. CASE j # n + 1
    BY <1>10, <1>11, <1>12, <2>2 DEF FwdInv, Counted
  <2> QED
    BY <2>1, <2>2
<1>15. CountStays'
  <2> SUFFICES ASSUME legs'[1].req.hops = <<>>, NEW j \in DOMAIN legs' \ {1}
               PROVE  legs'[j].req.hops # <<>> /\ Head(legs'[j].req.hops) = 1
    BY DEF CountStays
  <2>1. /\ legs[1].req.hops = <<>>
        /\ \A k \in 2 .. n : legs[k].req.hops # <<>> /\ Head(legs[k].req.hops) = 1
    BY <1>1, <1>10, <1>11 DEF FwdInv, CountStays
  <2>2. CASE j = n + 1
    <3>1. Head(q.hops) = 1
      BY <1>7, <1>10, <2>1
    <3> QED
      BY <1>7, <1>9, <1>11, <2>2, <3>1
  <2>3. CASE j # n + 1
    BY <1>11, <1>12, <2>1, <2>3
  <2> QED
    BY <2>2, <2>3
<1> QED
  BY <1>10, <1>11, <1>13, <1>14, <1>15 DEF FwdInv

LEMMA FwdInitially == FwdInit => FwdInv
<1> SUFFICES ASSUME FwdInit PROVE FwdInv
  OBVIOUS
<1>1. PICK p \in Proxies, q \in Requests : legs = <<[port |-> p, req |-> q]>>
  BY DEF FwdInit
<1>2. [port |-> p, req |-> q] \in Leg
  BY ForwardingAssumption DEF Leg
<1>3. legs \in Seq(Leg) /\ DOMAIN legs = {1}
  BY <1>1, <1>2
<1> QED
  BY <1>3 DEF FwdInit, FwdInv, FwdTypes, Counted, CountStays

LEMMA FwdStep == FwdInv /\ [FwdNext]_fwdVars => FwdInv'
<1> SUFFICES ASSUME FwdInv, [FwdNext]_fwdVars PROVE FwdInv'
  OBVIOUS
<1>1. CASE NoHost \/ LoopDetected \/ NotFound \/ UpstreamLost \/ AppAnswers
  <2>1. UNCHANGED <<routes, legs>> /\ reply' \in {0, 101, 200, 400, 404, 502, 508}
    BY <1>1 DEF NoHost, LoopDetected, NotFound, UpstreamLost, AppAnswers, Respond
  <2> QED
    BY <2>1 DEF FwdInv, FwdTypes, Counted, CountStays
<1>2. CASE Forward
  BY <1>2, ForwardKeeps
<1>3. CASE AppFails \/ Return
  <2>1. /\ legs # <<>> /\ legs' = Front(legs) /\ routes' = routes
        /\ reply' \in {0, 101, 200, 400, 404, 502, 508}
    BY <1>3 DEF AppFails, Return, FwdInv, FwdTypes
  <2> QED
    BY <2>1, BackKeeps
<1>4. CASE UNCHANGED fwdVars
  BY <1>4 DEF fwdVars, FwdInv, FwdTypes, Counted, CountStays
<1> QED
  BY <1>1, <1>2, <1>3, <1>4 DEF FwdNext

LEMMA FwdAlways == FwdSpec => []FwdInv
BY FwdInitially, FwdStep, PTL DEF FwdSpec

(* Every variable keeps its type, and what a proxy has forwarded carries a    *)
(* count it made.                                                             *)
THEOREM ForwardTyping == FwdSpec => []FwdTypeOK
<1>1. FwdInv => FwdTypeOK
  <2> SUFFICES ASSUME FwdInv PROVE FwdTypeOK
    OBVIOUS
  <2>1. \A i \in DOMAIN legs : legs[i].port \in Proxies \cup Apps /\ legs[i].req \in Request
    <3> SUFFICES ASSUME NEW i \in DOMAIN legs
                 PROVE  legs[i].port \in Proxies \cup Apps /\ legs[i].req \in Request
      OBVIOUS
    <3>1. legs[i] \in Leg
      BY ElementOfSeq DEF FwdInv, FwdTypes
    <3> QED
      BY <3>1 DEF Leg
  <2> QED
    BY <2>1 DEF FwdInv, FwdTypes, Counted, FwdTypeOK
<1> QED
  BY <1>1, FwdAlways, PTL

(* The count that is read of a request that came without one.                 *)
LEMMA CountRead ==
  ASSUME FwdInv, legs # <<>>, legs[1].req.hops = <<>>
  PROVE  Hops(Here.req) = IF Len(legs) = 1 THEN 0 ELSE 1
<1>1. Here.req \in Request /\ Here = legs[Len(legs)] /\ Len(legs) \in DOMAIN legs
  BY HereTyped DEF FwdInv, Leg
<1>2. CASE Len(legs) = 1
  BY <1>1, <1>2, HopsTyped
<1>3. CASE Len(legs) # 1
  BY <1>1, <1>3, HopsTyped DEF FwdInv, CountStays
<1> QED
  BY <1>2, <1>3

(* The steps of which an answer comes that says a loop was detected.          *)
LEMMA RefusedByCount ==
  ASSUME FwdInv, FwdNext, reply' = 508, reply # 508
  PROVE  legs # <<>> /\ Hops(Here.req) >= MaxHops
BY DEF FwdNext, NoHost, LoopDetected, Looping, NotFound, Forward, UpstreamLost, AppAnswers, AppFails,
       Return, Respond, Handled, AtProxy

(* What came in without a hop count is not refused as looping before it has   *)
(* passed max_hops proxies.                                                   *)
THEOREM NoFalseAlarm == FwdSpec => NoFalseLoop
<1>1. FwdInv /\ [FwdNext]_fwdVars
        => [reply' = 508 /\ reply = 0 /\ legs[1].req.hops = <<>> => Len(legs) > MaxHops]_fwdVars
  <2> SUFFICES ASSUME FwdInv, FwdNext, reply' = 508, reply = 0, legs[1].req.hops = <<>>
               PROVE  Len(legs) > MaxHops
    OBVIOUS
  <2>1. legs # <<>> /\ Hops(Here.req) >= MaxHops
    BY RefusedByCount
  <2>2. Len(legs) \in Nat \ {0} /\ Hops(Here.req) = IF Len(legs) = 1 THEN 0 ELSE 1
    BY <2>1, HereTyped, CountRead DEF FwdInv
  <2>3. PICK n \in Nat \ {0} : n = Len(legs)
    BY <2>2
  <2> QED
    BY <2>1, <2>2, <2>3, Limited
<1> QED
  BY <1>1, FwdAlways, PTL DEF FwdSpec, NoFalseLoop

(* Why LoopIsCut fails, for every number of proxies and every limit above 1:  *)
(* build_forwarded_request adds the new count after the ones it copies, and   *)
(* extract_hops reads the first, so that of requests that come in without a   *)
(* count none is ever refused as looping.                                     *)
THEOREM LoopNeverCut ==
  ASSUME MaxHops >= 2, \A q \in Requests : q.hops = <<>>
  PROVE  FwdSpec => [](reply # 508)
<1> DEFINE Plain == legs # <<>> => legs[1].req.hops = <<>>
           Inv == FwdInv /\ Plain /\ reply # 508
<1>1. FwdInit => Inv
  <2> SUFFICES ASSUME FwdInit PROVE Plain /\ reply # 508
    BY FwdInitially
  <2>1. PICK p \in Proxies, q \in Requests : legs = <<[port |-> p, req |-> q]>>
    BY DEF FwdInit
  <2> QED
    BY <2>1 DEF FwdInit
<1>2. Inv /\ [FwdNext]_fwdVars => Inv'
  <2> SUFFICES ASSUME Inv, [FwdNext]_fwdVars PROVE Plain' /\ (reply # 508)'
    BY FwdStep
  <2>1. legs' = legs \/ (legs # <<>> /\ legs' # <<>> => legs'[1] = legs[1])
    <3>1. CASE Forward
      BY <3>1, ForwardKeeps
    <3>2. CASE AppFails \/ Return
      <4>1. legs # <<>> /\ legs' = Front(legs)
        BY <3>2 DEF AppFails, Return
      <4>2. legs' # <<>> => legs'[1] = legs[1]
        <5>1. PICK l : l = Front(legs)
          OBVIOUS
        <5>2. l \in Seq(Leg) /\ Len(l) = Len(legs) - 1 /\ \A i \in 1 .. Len(legs) - 1 : l[i] = legs[i]
          BY <4>1, <5>1, FrontDoes DEF FwdInv, FwdTypes
        <5>3. l # <<>> => Len(l) \in Nat \ {0}
          BY <5>2
        <5>4. Len(legs) \in Nat
          BY DEF FwdInv, FwdTypes
        <5> QED
          BY <4>1, <5>1, <5>2, <5>3, <5>4
      <4> QED
        BY <4>2
    <3>3. CASE NoHost \/ LoopDetected \/ NotFound \/ UpstreamLost \/ AppAnswers \/ UNCHANGED fwdVars
      BY <3>3 DEF NoHost, LoopDetected, NotFound, UpstreamLost, AppAnswers, Respond, fwdVars
    <3> QED
      BY <3>1, <3>2, <3>3 DEF FwdNext
  <2>2. legs' # <<>> => legs # <<>>
    BY DEF FwdNext, NoHost, LoopDetected, NotFound, Forward, UpstreamLost, AppAnswers, AppFails,
           Return, Respond, Routed, Handled, AtProxy, fwdVars
  <2>3. Plain'
    BY <2>1, <2>2
  <2>4. ASSUME reply' = 508 PROVE FALSE
    <3>1. FwdNext
      BY <2>4 DEF fwdVars
    <3>2. legs # <<>> /\ Hops(Here.req) >= MaxHops
      BY <2>4, <3>1, RefusedByCount
    <3>3. Len(legs) \in Nat \ {0} /\ Hops(Here.req) = IF Len(legs) = 1 THEN 0 ELSE 1
      BY <3>2, HereTyped, CountRead DEF FwdInv
    <3> QED
      BY <3>2, <3>3, Limited
  <2> QED
    BY <2>3, <2>4
<1> HIDE DEF Plain
<1>3. FwdSpec => []Inv
  BY <1>1, <1>2, PTL DEF FwdSpec
<1> QED
  BY <1>3, PTL

-----------------------------------------------------------------------------
(* Upgraded connections: sequences of units. *)

LEMMA Associative ==
  ASSUME NEW x \in Seq(Nat), NEW y \in Seq(Nat), NEW z \in Seq(Nat)
  PROVE  (x \o y) \o z = x \o (y \o z)
<1> DEFINE l == (x \o y) \o z
           r == x \o (y \o z)
<1>1. Len(x) \in Nat /\ Len(y) \in Nat /\ Len(z) \in Nat
  OBVIOUS
<1>2. /\ x \o y \in Seq(Nat) /\ Len(x \o y) = Len(x) + Len(y)
      /\ \A i \in 1 .. Len(x) + Len(y) :
           (x \o y)[i] = IF i <= Len(x) THEN x[i] ELSE y[i - Len(x)]
  BY ConcatProperties
<1>3. /\ y \o z \in Seq(Nat) /\ Len(y \o z) = Len(y) + Len(z)
      /\ \A i \in 1 .. Len(y) + Len(z) :
           (y \o z)[i] = IF i <= Len(y) THEN y[i] ELSE z[i - Len(y)]
  BY ConcatProperties
<1>4. l \in Seq(Nat) /\ Len(l) = Len(x) + Len(y) + Len(z)
  BY <1>2, ConcatProperties
<1>5. r \in Seq(Nat) /\ Len(r) = Len(x) + Len(y) + Len(z)
  BY <1>1, <1>3, ConcatProperties
<1>6. \A i \in 1 .. Len(l) : l[i] = r[i]
  BY <1>1, <1>2, <1>3, <1>4, ConcatProperties
<1> QED
  BY <1>4, <1>5, <1>6, SeqEqual

LEMMA CancelLeft ==
  ASSUME NEW x \in Seq(Nat), NEW y \in Seq(Nat), NEW z \in Seq(Nat), x \o y = x \o z
  PROVE  y = z
BY ConcatSimplifications, Zenon

LEMMA OneMore ==
  ASSUME NEW t \in Seq(Nat), NEW n \in 0 .. Len(t) - 1, NEW a \in 1 .. n + 1
  PROVE  /\ t[n + 1] \in Nat
         /\ SubSeq(t, a, n + 1) = SubSeq(t, a, n) \o <<t[n + 1]>>
<1>1. Len(t) \in Nat /\ n + 1 \in a .. Len(t) /\ a \in 1 .. Len(t) /\ n + 1 \in 1 .. Len(t)
  OBVIOUS
<1>2. SubSeq(t, a, n + 1) = SubSeq(t, a, (n + 1) - 1) \o <<t[n + 1]>>
  BY <1>1, SubSeqRecursiveSecond
<1>3. (n + 1) - 1 = n
  OBVIOUS
<1> QED
  BY <1>1, <1>2, <1>3, ElementOfSeq

(* A unit that is sent goes to the end of what there is.                      *)
LEMMA Behind ==
  ASSUME NEW b \in Seq(Nat), NEW w \in Seq(Nat), NEW x \in Nat
  PROVE  /\ Append(w, x) \in Seq(Nat)
         /\ b \o Append(w, x) = (b \o w) \o <<x>>
<1>1. Append(w, x) = w \o <<x>> /\ Append(w, x) \in Seq(Nat)
  BY AppendIsConcat, AppendProperties
<1>2. <<x>> \in Seq(Nat)
  OBVIOUS
<1> QED
  BY <1>1, <1>2, Associative

(* Units i to j of a text that has them.                                      *)
LEMMA Part ==
  ASSUME NEW t \in Seq(Nat), NEW i \in Nat \ {0}, NEW j \in Nat, j <= Len(t)
  PROVE  /\ SubSeq(t, i, j) \in Seq(Nat)
         /\ Len(SubSeq(t, i, j)) = IF i <= j THEN j - i + 1 ELSE 0
<1>1. \A k \in i .. j : t[k] \in Nat
  BY ElementOfSeq, LenProperties
<1>2. i \in Int /\ j \in Int
  OBVIOUS
<1> QED
  BY <1>1, <1>2, SubSeqProperties

LEMMA Split ==
  ASSUME NEW w \in Seq(Nat), NEW n \in 1 .. Len(w)
  PROVE  /\ SubSeq(w, 1, n) \in Seq(Nat) /\ Len(SubSeq(w, 1, n)) = n
         /\ SubSeq(w, n + 1, Len(w)) \in Seq(Nat)
         /\ SubSeq(w, 1, n) \o SubSeq(w, n + 1, Len(w)) = w
<1>1. Len(w) \in Nat /\ n \in Nat /\ 1 <= n /\ n <= Len(w)
  BY LenProperties
<1>2. /\ SubSeq(w, 1, n) \in Seq(Nat) /\ Len(SubSeq(w, 1, n)) = n - 1 + 1
      /\ SubSeq(w, n + 1, Len(w)) \in Seq(Nat)
  BY <1>1, Part
<1>3. 1 \in 1 .. Len(w) + 1 /\ n \in 1 - 1 .. Len(w) /\ Len(w) \in n .. Len(w)
  BY <1>1
<1>4. SubSeq(w, 1, n) \o SubSeq(w, n + 1, Len(w)) = SubSeq(w, 1, Len(w))
  BY <1>3, ConcatAdjacentSubSeq
<1> QED
  BY <1>1, <1>2, <1>4, SubSeqFull

(* A read moves units from one part to the other.                             *)
LEMMA MovedOn ==
  ASSUME NEW b \in Seq(Nat), NEW w \in Seq(Nat), NEW n \in 1 .. Len(w)
  PROVE  /\ b \o SubSeq(w, 1, n) \in Seq(Nat) /\ SubSeq(w, n + 1, Len(w)) \in Seq(Nat)
         /\ Len(b \o SubSeq(w, 1, n)) = Len(b) + n
         /\ (b \o SubSeq(w, 1, n)) \o SubSeq(w, n + 1, Len(w)) = b \o w
<1> DEFINE u == SubSeq(w, 1, n)
           v == SubSeq(w, n + 1, Len(w))
<1>1. u \in Seq(Nat) /\ v \in Seq(Nat) /\ Len(u) = n /\ u \o v = w
  BY Split
<1>2. (b \o u) \o v = b \o (u \o v)
  BY <1>1, Associative
<1>3. b \o u \in Seq(Nat) /\ Len(b \o u) = Len(b) + n
  BY <1>1, ConcatProperties
<1> QED
  BY <1>1, <1>2, <1>3

(* Of what has come, what is behind the head.                                 *)
LEMMA Rest ==
  ASSUME NEW t \in Seq(Nat), NEW b \in Seq(Nat), NEW w \in Seq(Nat),
         NEW n \in 0 .. Len(t), NEW h \in 1 .. Len(b),
         b \o w = SubSeq(t, 1, n)
  PROVE  /\ h <= n /\ SubSeq(b, h + 1, Len(b)) \in Seq(Nat)
         /\ SubSeq(b, h + 1, Len(b)) \o w = SubSeq(t, h + 1, n)
<1> DEFINE r == SubSeq(b, h + 1, Len(b))
<1>1. Len(t) \in Nat /\ Len(b) \in Nat /\ Len(w) \in Nat /\ n \in Nat /\ n <= Len(t)
  BY LenProperties
<1>2. Len(SubSeq(t, 1, n)) = n
  BY <1>1, Part
<1>3. Len(b) + Len(w) = n
  BY <1>2, ConcatProperties
<1>4. h <= n /\ n >= 1 /\ h \in Nat
  BY <1>1, <1>3
<1>5. r \in Seq(Nat)
  BY Split
<1>6. SubSeq(b, 1, h) \in Seq(Nat) /\ SubSeq(b, 1, h) \o r = b
  BY Split
<1>7. SubSeq(b, 1, h) = SubSeq(t, 1, h)
  <2>1. 1 \in 1 .. Len(b) /\ h \in 1 .. Len(b)
    BY <1>1
  <2>2. SubSeq(b, 1, h) = SubSeq(b \o w, 1, h)
    BY <2>1, SubSeqOfConcat1
  <2>3. /\ 1 \in 1 .. Len(t) /\ n \in 1 .. Len(t)
        /\ 1 \in 1 .. n - 1 + 1 /\ h \in 1 .. n - 1 + 1
    BY <1>1, <1>4
  <2>4. SubSeq(SubSeq(t, 1, n), 1, h) = SubSeq(t, 1 + 1 - 1, 1 + h - 1)
    BY <2>3, SubSeqOfSubSeq
  <2>5. 1 + 1 - 1 = 1 /\ 1 + h - 1 = h
    BY <2>1
  <2> QED
    BY <2>2, <2>4, <2>5
<1>8. SubSeq(t, 1, h) \o SubSeq(t, h + 1, n) = SubSeq(t, 1, n)
  <2>1. 1 \in 1 .. Len(t) + 1 /\ h \in 1 - 1 .. Len(t) /\ n \in h .. Len(t)
    BY <1>1, <1>4
  <2> QED
    BY <2>1, ConcatAdjacentSubSeq
<1>9. SubSeq(b, 1, h) \o (r \o w) = SubSeq(b, 1, h) \o SubSeq(t, h + 1, n)
  <2>1. (SubSeq(b, 1, h) \o r) \o w = SubSeq(b, 1, h) \o (r \o w)
    BY <1>5, <1>6, Associative
  <2> QED
    BY <2>1, <1>6, <1>7, <1>8
<1>10. r \o w \in Seq(Nat) /\ SubSeq(t, h + 1, n) \in Seq(Nat)
  BY <1>1, <1>4, <1>5, Part, ConcatProperties, SMTT(30)
<1>11. r \o w = SubSeq(t, h + 1, n)
  BY <1>6, <1>9, <1>10, CancelLeft
<1> QED
  BY <1>4, <1>5, <1>11

(* The pipe passes one unit on.                                               *)
LEMMA PassedOn ==
  ASSUME NEW c \in Seq(Nat), NEW w \in Seq(Nat), w # <<>>
  PROVE  /\ Append(c, Head(w)) \in Seq(Nat) /\ Tail(w) \in Seq(Nat)
         /\ Append(c, Head(w)) \o Tail(w) = c \o w
<1>1. Head(w) \in Nat /\ Tail(w) \in Seq(Nat) /\ Head(w) = w[1]
  BY HeadTailProperties
<1>2. <<Head(w)>> \o Tail(w) = w
  <2>1. 1 \in 1 .. Len(w) /\ Len(w) \in 1 .. Len(w)
    BY EmptySeq
  <2>2. SubSeq(w, 1, Len(w)) = <<w[1]>> \o SubSeq(w, 1 + 1, Len(w))
    BY <2>1, SubSeqRecursiveFirst
  <2>3. Tail(w) = SubSeq(w, 2, Len(w))
    BY TailIsSubSeq
  <2> QED
    BY <1>1, <2>2, <2>3, SubSeqFull
<1>3. Append(c, Head(w)) = c \o <<Head(w)>> /\ Append(c, Head(w)) \in Seq(Nat)
  BY <1>1, AppendIsConcat, AppendProperties
<1>4. <<Head(w)>> \in Seq(Nat)
  BY <1>1
<1>5. (c \o <<Head(w)>>) \o Tail(w) = c \o (<<Head(w)>> \o Tail(w))
  BY <1>1, <1>4, Associative
<1> QED
  BY <1>1, <1>2, <1>3, <1>5, Zenon

(* What has come of a text is a prefix of it.                                 *)
LEMMA Begins ==
  ASSUME NEW t \in Seq(Nat), NEW h \in Nat, NEW n \in h .. Len(t)
  PROVE  IsPrefix(SubSeq(t, h + 1, n), SubSeq(t, h + 1, Len(t)))
<1> DEFINE s == SubSeq(t, h + 1, n)
           u == SubSeq(t, h + 1, Len(t))
           v == SubSeq(t, n + 1, Len(t))
<1>1. Len(t) \in Nat /\ n \in Nat /\ n <= Len(t)
  BY LenProperties
<1>2. s \in Seq(Nat) /\ v \in Seq(Nat)
  BY <1>1, Part
<1>3. s \o v = u
  <2>1. h + 1 \in 1 .. Len(t) + 1 /\ n \in (h + 1) - 1 .. Len(t) /\ Len(t) \in n .. Len(t)
    BY <1>1
  <2> QED
    BY <2>1, ConcatAdjacentSubSeq
<1>4. Len(s) <= Len(u)
  BY <1>2, <1>3, ConcatProperties
<1>5. SubSeq(s, 1, Len(s)) = SubSeq(u, 1, Len(s))
  <2>1. CASE s = <<>>
    BY <2>1, SubSeqEmpty
  <2>2. CASE s # <<>>
    <3>1. 1 \in 1 .. Len(s) /\ Len(s) \in 1 .. Len(s)
      BY <1>2, <2>2, EmptySeq
    <3> QED
      BY <3>1, <1>2, <1>3, SubSeqOfConcat1
  <2> QED
    BY <2>1, <2>2
<1> QED
  BY <1>4, <1>5 DEF IsPrefix

-----------------------------------------------------------------------------
(* The invariant.  What was sent and is not yet passed on is in wire and buf, *)
(* in order, and what it is counted from changes where the head is cut off.   *)

Where == {"connect", "write", "read", "parsed", "too large", "drain", "answered",
          "panicked", "extra", "pipe", "over"}
Before == {"connect", "write", "read", "parsed", "too large", "drain"}
Ends == {"open", "closed", "reset"}

Types ==
  /\ text \in Seq(Nat) /\ head \in Nat \ {0} /\ head <= Len(text)
  /\ wire \in Seq(Nat) /\ buf \in Seq(Nat) /\ toClient \in Seq(Nat)
  /\ sent \in 0 .. Len(text) /\ status \in {0, 101, 403} /\ appEnd \in Ends
  /\ at \in Where /\ client \in {"open", "closed", "gone"}
  /\ end \in {None, "pause", "closed", "reset"}

Fresh ==
  /\ at \in {"connect", "write"} => sent = 0 /\ wire = <<>> /\ buf = <<>>
  /\ at \in Before => answer = 0 /\ toClient = <<>>

(* What is known of the head.                                                 *)
Sized ==
  /\ at = "read" => Len(buf) <= Limit
  /\ at \in {"parsed", "too large"} => Len(buf) <= Limit + Chunk
  /\ at = "too large" => head > Limit \/ status = 0
  /\ at = "parsed" => Parsed(buf)

Ordered ==
  /\ at \in {"read", "parsed", "too large"} => buf \o wire = SubSeq(text, 1, sent)
  /\ at = "drain" => head <= sent /\ buf \o wire = SubSeq(text, head + 1, sent)
  /\ at \in {"extra", "pipe"} =>
       head <= sent /\ (toClient \o buf) \o wire = SubSeq(text, head + 1, sent)
  /\ at = "extra" => toClient = <<>>
  /\ at = "pipe" => buf = <<>>

Decided ==
  /\ at = "drain" => status \notin {0, 101}
  /\ at \in {"extra", "pipe"} => status = 101
  /\ answer = status /\ status \notin {0, 101} =>
       /\ at \in {"answered", "over"}
       /\ \E n \in head .. sent : buf = SubSeq(text, head + 1, n)
       /\ end = "closed" => appEnd = "closed" /\ buf = SubSeq(text, head + 1, sent)

IInv == Types /\ Fresh /\ Sized /\ Ordered /\ Decided

LEMMA Initially == Init => IInv
<1> SUFFICES ASSUME Init PROVE IInv
  OBVIOUS
<1>1. PICK h \in Heads, b \in Bodies : head = h /\ text = Unit(h + b)
  BY DEF Init
<1>2. h \in Nat \ {0} /\ b \in Nat /\ h + b \in Nat
  BY UpgradeAssumption
<1>3. text \in Seq(Nat) /\ Len(text) = h + b
  BY <1>1, <1>2 DEF Unit
<1>4. Types
  BY <1>1, <1>2, <1>3 DEF Init, Types, Where, Ends
<1> QED
  BY <1>4 DEF Init, IInv, Types, Fresh, Sized, Ordered, Decided, Before

-----------------------------------------------------------------------------
(* One lemma for each kind of step.                                           *)

LEMMA AppSendsKeeps == IInv /\ AppSends => IInv'
<1> SUFFICES ASSUME IInv, AppSends PROVE IInv'
  OBVIOUS
<1> USE DEF IInv
<1> DEFINE x == text[sent + 1]
<1>1. /\ text \in Seq(Nat) /\ head \in Nat \ {0} /\ wire \in Seq(Nat) /\ buf \in Seq(Nat)
      /\ toClient \in Seq(Nat) /\ sent \in 0 .. Len(text) - 1 /\ Len(text) \in Nat
  BY DEF Types, AppSends
<1>2. /\ wire' = Append(wire, x) /\ sent' = sent + 1 /\ appEnd = "open"
      /\ UNCHANGED <<status, valid, text, head, appEnd, at, buf, answer, end, toClient, client>>
  BY DEF AppSends, tunnel
<1>3. x \in Nat /\ \A a \in 1 .. sent + 1 : SubSeq(text, a, sent + 1) = SubSeq(text, a, sent) \o <<x>>
  BY <1>1, OneMore
<1>4. wire' \in Seq(Nat)
  BY <1>1, <1>2, <1>3, Behind
<1>5. \A b \in Seq(Nat) : b \o wire' = (b \o wire) \o <<x>>
  <2> HIDE DEF x
  <2>1. wire \in Seq(Nat) /\ x \in Nat /\ wire' = Append(wire, x)
    BY <1>1, <1>2, <1>3
  <2> QED
    BY <2>1, Behind, Zenon
<1>6. Types'
  BY <1>1, <1>2, <1>4 DEF Types
<1>7. Fresh' /\ Sized'
  BY <1>2 DEF Fresh, Sized, AppSends, Asked, Before, Parsed
<1>8. Ordered'
  <2>1. buf \o wire' = (buf \o wire) \o <<x>>
    BY <1>1, <1>5
  <2>2. (toClient \o buf) \o wire' = ((toClient \o buf) \o wire) \o <<x>>
    BY <1>1, <1>5, ConcatProperties
  <2>3. 1 \in 1 .. sent + 1 /\ (head <= sent => head + 1 \in 1 .. sent + 1)
    BY <1>1
  <2>4. head <= sent => head <= sent + 1
    BY <1>1
  <2> QED
    BY <1>2, <1>3, <2>1, <2>2, <2>3, <2>4 DEF Ordered
<1>9. Decided'
  <2>1. \A n \in head .. sent : n \in head .. sent + 1
    BY <1>1
  <2> QED
    BY <1>2, <2>1 DEF Decided
<1> QED
  BY <1>6, <1>7, <1>8, <1>9

(* A step that neither takes nor passes on a unit, and stays or gives up.     *)
LEMMA Still ==
  ASSUME IInv,
         UNCHANGED <<status, text, head, wire, sent, buf, toClient, end>>,
         appEnd' \in Ends, appEnd # "open" => appEnd' = appEnd,
         client' \in {"open", "closed", "gone"},
         \/ at' = at /\ answer' = answer
         \/ at' \in {"answered", "over"} /\ answer' \in {answer, 502}
         \/ at' = "panicked" /\ at \in Before /\ answer' = answer
  PROVE  IInv'
<1>1. /\ status' = status /\ text' = text /\ head' = head /\ wire' = wire /\ sent' = sent
      /\ buf' = buf /\ toClient' = toClient /\ end' = end
  OBVIOUS
<1>2. Types'
  <2>1. at' \in Where
    <3>1. at \in Where
      BY DEF IInv, Types
    <3>2. {"answered", "over", "panicked"} \subseteq Where
      BY DEF Where
    <3>3. at' = at \/ at' \in {"answered", "over", "panicked"}
      OBVIOUS
    <3> QED
      BY <3>1, <3>2, <3>3
  <2> QED
    BY <1>1, <2>1 DEF IInv, Types
<1>3. CASE at' = at /\ answer' = answer
  <2>1. Fresh' /\ Sized'
    BY <1>1, <1>3, Zenon DEF IInv, Fresh, Sized, Parsed
  <2>2. Ordered'
    BY <1>1, <1>3, Zenon DEF IInv, Ordered
  <2>3. appEnd = "closed" => appEnd' = "closed"
    OBVIOUS
  <2>4. Decided'
    BY <1>1, <1>3, <2>3, Zenon DEF IInv, Decided
  <2> QED
    BY <1>2, <2>1, <2>2, <2>4 DEF IInv
<1>4. CASE ~(at' = at /\ answer' = answer)
  <2>1. at' \in {"answered", "over", "panicked"}
    BY <1>4
  <2>2. Fresh' /\ Sized' /\ Ordered'
    BY <2>1 DEF Fresh, Before, Sized, Ordered
  <2>3. ASSUME answer' = status, status \notin {0, 101}
        PROVE  at' \in {"answered", "over"} /\ answer = status
    <3>1. status = 403 /\ answer' # 502
      BY <2>3 DEF IInv, Types
    <3>2. answer' = answer
      BY <1>4, <3>1
    <3>3. at \notin Before
      BY <2>3, <3>1, <3>2 DEF IInv, Fresh
    <3> QED
      BY <1>4, <2>3, <3>2, <3>3
  <2>4. ASSUME answer' = status, status \notin {0, 101}
        PROVE  /\ \E n \in head .. sent : buf = SubSeq(text, head + 1, n)
               /\ end = "closed" => appEnd' = "closed" /\ buf = SubSeq(text, head + 1, sent)
    <3>1. appEnd = "closed" => appEnd' = "closed"
      OBVIOUS
    <3>2. answer = status
      BY <2>3, <2>4
    <3> QED
      BY <2>4, <3>1, <3>2, Zenon DEF IInv, Decided
  <2>5. at' \notin {"drain", "extra", "pipe"}
    BY <2>1
  <2>6. Decided'
    BY <1>1, <2>3, <2>4, <2>5, Zenon DEF Decided
  <2> QED
    BY <1>2, <2>2, <2>6 DEF IInv
<1> QED
  BY <1>3, <1>4

LEMMA StillKeeps ==
  ASSUME IInv,
         \/ AppEnds \/ HeadCutOff \/ HeadTooLarge \/ Panic
         \/ PipeUp \/ PipeEnds \/ ClientCloses \/ ClientGone \/ UNCHANGED vars
  PROVE  IInv'
<1>1. appEnd \in Ends /\ client \in {"open", "closed", "gone"} /\ at \in Where
  BY DEF IInv, Types
<1>2. CASE AppEnds
  BY <1>1, <1>2, Still DEF AppEnds, tunnel, Ends
<1>3. CASE HeadCutOff \/ HeadTooLarge
  BY <1>1, <1>3, Still DEF HeadCutOff, HeadTooLarge, BadGateway, Answer, app, tunnel
<1>4. CASE Panic
  BY <1>1, <1>4, Still DEF Panic, app, tunnel, Before
<1>5. CASE PipeEnds
  BY <1>1, <1>5, Still DEF PipeEnds, app, tunnel
<1>6. CASE PipeUp
  BY <1>1, <1>6, Still DEF PipeUp, app
<1>7. CASE ClientCloses
  BY <1>1, <1>7, Still DEF ClientCloses, app
<1>8. CASE ClientGone
  BY <1>1, <1>8, Still DEF ClientGone, app
<1>9. CASE UNCHANGED vars
  BY <1>1, <1>9, Still DEF vars
<1> QED
  BY <1>2, <1>3, <1>4, <1>5, <1>6, <1>7, <1>8, <1>9

(* Up to the first read nothing has come.                                     *)
LEMMA OpeningKeeps == IInv /\ (Connect \/ WriteRequest) => IInv'
<1> SUFFICES ASSUME IInv, Connect \/ WriteRequest PROVE IInv'
  OBVIOUS
<1>1. CASE at' = "answered"
  <2>1. /\ at \in {"connect", "write"} /\ answer' = 502 /\ appEnd \in Ends
        /\ client \in {"open", "closed", "gone"}
        /\ UNCHANGED <<status, text, head, wire, sent, appEnd, buf, toClient, end, client>>
    BY <1>1 DEF Connect, WriteRequest, BadGateway, Answer, app, tunnel, IInv, Types
  <2> QED
    BY <1>1, <2>1, Still
<1>2. CASE at' # "answered"
  <2>1. /\ at \in {"connect", "write"} /\ at' \in {"write", "read"} /\ answer' = answer
        /\ UNCHANGED <<status, text, head, wire, sent, appEnd, buf, toClient, end, client>>
    BY <1>2 DEF Connect, WriteRequest, BadGateway, Answer, app, tunnel
  <2>2. sent = 0 /\ wire = <<>> /\ buf = <<>> /\ toClient = <<>> /\ answer = 0
    BY <2>1 DEF IInv, Fresh, Before
  <2>3. SubSeq(text, 1, 0) = <<>> /\ <<>> \o <<>> = <<>>
    BY SubSeqEmpty
  <2>4. 0 <= Limit /\ Len(<<>>) = 0
    BY UpgradeAssumption
  <2>5. Types'
    BY <2>1 DEF IInv, Types, Where
  <2>6. Fresh' /\ Decided'
    BY <2>1, <2>2 DEF Fresh, Decided
  <2>7. Sized'
    BY <2>1, <2>2, <2>4 DEF Sized
  <2>8. Ordered'
    BY <2>1, <2>2, <2>3 DEF Ordered
  <2> QED
    BY <2>5, <2>6, <2>7, <2>8 DEF IInv
<1> QED
  BY <1>1, <1>2

(* What any read does.                                                        *)
LEMMA ReadMoves ==
  ASSUME IInv, \E n \in 1 .. Chunk : Take(n)
  PROVE  /\ buf' \in Seq(Nat) /\ wire' \in Seq(Nat) /\ buf' \o wire' = buf \o wire
         /\ Len(buf') \in Nat /\ Len(buf') <= Len(buf) + Chunk
         /\ UNCHANGED <<status, text, head, sent, appEnd>>
<1>1. PICK n \in 1 .. Chunk : Take(n)
  OBVIOUS
<1>2. /\ n <= Len(wire)
      /\ buf' = buf \o SubSeq(wire, 1, n) /\ wire' = SubSeq(wire, n + 1, Len(wire))
      /\ UNCHANGED <<status, text, head, sent, appEnd>>
  BY <1>1, Zenon DEF Take
<1>3. wire \in Seq(Nat) /\ buf \in Seq(Nat)
  BY DEF IInv, Types
<1>4. n \in 1 .. Len(wire) /\ n <= Chunk
  BY <1>2, <1>3, LenProperties, UpgradeAssumption
<1>5. /\ buf' \in Seq(Nat) /\ wire' \in Seq(Nat) /\ buf' \o wire' = buf \o wire
      /\ Len(buf') = Len(buf) + n
  BY <1>2, <1>3, <1>4, MovedOn, Zenon
<1>6. Len(buf) \in Nat /\ Len(buf') \in Nat /\ Chunk \in Nat
  BY <1>3, <1>5, LenProperties, UpgradeAssumption
<1>7. Len(buf') = Len(buf) + n
  BY <1>5
<1>8. Len(buf') <= Len(buf) + Chunk
  BY <1>4, <1>6, <1>7
<1> QED
  BY <1>2, <1>5, <1>6, <1>8, Zenon

LEMMA ReadHeadKeeps == IInv /\ ReadHead => IInv'
<1> SUFFICES ASSUME IInv, ReadHead PROVE IInv'
  OBVIOUS
<1>1. /\ at = "read" /\ at' = AfterRead(buf')
      /\ UNCHANGED <<answer, end, toClient, client>>
  BY DEF ReadHead, tunnel
<1>2. /\ buf' \in Seq(Nat) /\ wire' \in Seq(Nat) /\ buf' \o wire' = buf \o wire
      /\ Len(buf') \in Nat /\ Len(buf') <= Len(buf) + Chunk
      /\ UNCHANGED <<status, text, head, sent, appEnd>>
  BY ReadMoves DEF ReadHead
<1>3. /\ Types /\ answer = 0 /\ toClient = <<>> /\ Len(buf) <= Limit /\ Len(buf) \in Nat
      /\ buf \o wire = SubSeq(text, 1, sent) /\ head \in Nat /\ status \in {0, 101, 403}
  BY <1>1, LenProperties DEF IInv, Types, Fresh, Before, Sized, Ordered
<1>4. \/ at' = "parsed" /\ Parsed(buf')
      \/ at' = "too large" /\ ~Parsed(buf') /\ Len(buf') > Limit
      \/ at' = "read" /\ ~(Len(buf') > Limit)
  BY <1>1, Zenon DEF AfterRead
<1>5. at' \in {"read", "parsed", "too large"}
  BY <1>4
<1>6. Types'
  BY <1>1, <1>2, <1>3, <1>5 DEF Types, Where
<1>7. Fresh'
  BY <1>1, <1>3, <1>5 DEF Fresh
<1>8. Decided'
  BY <1>1, <1>2, <1>3, <1>5 DEF Decided
<1>9. Sized'
  <2>1. Len(buf') <= Limit + Chunk
    <3>1. Len(buf') <= Len(buf) + Chunk /\ Len(buf') \in Nat /\ Len(buf) \in Nat
      BY <1>2, <1>3, Zenon
    <3>2. Len(buf) <= Limit /\ Limit \in Nat /\ Chunk \in Nat
      BY <1>3, UpgradeAssumption
    <3> QED
      BY <3>1, <3>2
  <2>2. ASSUME at' = "too large" PROVE head > Limit \/ status = 0
    <3>1. Len(buf') \in Nat /\ head \in Nat
      BY <1>2, <1>3, Zenon
    <3>2. Limit \in Nat
      BY UpgradeAssumption
    <3>3. ~Parsed(buf') /\ Len(buf') > Limit
      BY <1>4, <2>2
    <3>4. status = 0 \/ ~(Len(buf') >= head)
      BY <3>3 DEF Parsed
    <3> QED
      BY <3>1, <3>2, <3>3, <3>4
  <2>3. at' = "parsed" => Parsed(buf)'
    BY <1>2, <1>4 DEF Parsed
  <2>4. at' = "read" => Len(buf') <= Limit
    BY <1>2, <1>4, UpgradeAssumption
  <2> QED
    BY <1>2, <2>1, <2>2, <2>3, <2>4 DEF Sized
<1>10. Ordered'
  <2>1. buf' \o wire' = SubSeq(text', 1, sent')
    BY <1>2, <1>3, Zenon
  <2> QED
    BY <1>5, <2>1 DEF Ordered
<1> QED
  BY <1>6, <1>7, <1>8, <1>9, <1>10 DEF IInv

(* The head is cut off, for a drain or for the tunnel.                        *)
LEMMA CutKeeps == IInv /\ (Refused \/ Upgraded) => IInv'
<1> SUFFICES ASSUME IInv, Refused \/ Upgraded PROVE IInv'
  OBVIOUS
<1>1. /\ at = "parsed" /\ buf' = SubSeq(buf, head + 1, Len(buf))
      /\ UNCHANGED <<status, text, head, wire, sent, appEnd, end, toClient, client>>
      /\ \/ at' = "drain" /\ status # 101 /\ answer' = answer
         \/ at' = "extra" /\ status = 101 /\ answer' = 101
  BY DEF Refused, Upgraded, app, tunnel
<1>2. /\ Types /\ text \in Seq(Nat) /\ buf \in Seq(Nat) /\ wire \in Seq(Nat)
      /\ sent \in 0 .. Len(text) /\ head \in Nat \ {0}
  BY DEF IInv, Types
<1>3. status # 0 /\ head <= Len(buf)
  BY <1>1, <1>2, LenProperties DEF IInv, Sized, Parsed
<1>4. buf \o wire = SubSeq(text, 1, sent) /\ answer = 0 /\ toClient = <<>>
  BY <1>1 DEF IInv, Ordered, Fresh, Before
<1>5. head \in 1 .. Len(buf)
  BY <1>2, <1>3, LenProperties
<1>6. /\ head <= sent /\ buf' \in Seq(Nat)
      /\ buf' \o wire = SubSeq(text, head + 1, sent)
  <2>1. buf \o wire = SubSeq(text, 1, sent)
    BY <1>4
  <2>2. /\ head <= sent /\ SubSeq(buf, head + 1, Len(buf)) \in Seq(Nat)
        /\ SubSeq(buf, head + 1, Len(buf)) \o wire = SubSeq(text, head + 1, sent)
    <3>1. \A n \in 0 .. Len(text) : \A h \in 1 .. Len(buf) :
            buf \o wire = SubSeq(text, 1, n) =>
              /\ h <= n /\ SubSeq(buf, h + 1, Len(buf)) \in Seq(Nat)
              /\ SubSeq(buf, h + 1, Len(buf)) \o wire = SubSeq(text, h + 1, n)
      <4>1. text \in Seq(Nat) /\ buf \in Seq(Nat) /\ wire \in Seq(Nat)
        BY <1>2
      <4> QED
        BY <4>1, Rest
    <3> QED
      BY <1>2, <1>5, <2>1, <3>1, Zenon
  <2> QED
    BY <1>1, <2>2, Zenon
<1>7. toClient' \o buf' = buf'
  BY <1>1, <1>4, <1>6, ConcatEmptySeq
<1>8. Types'
  BY <1>1, <1>2, <1>6 DEF Types, Where
<1>9. Fresh' /\ Sized'
  BY <1>1, <1>4 DEF Fresh, Before, Sized
<1>10. Decided'
  BY <1>1, <1>3, <1>4 DEF Decided
<1>11. Ordered'
  <2>1. head' <= sent' /\ buf' \o wire' = SubSeq(text', head' + 1, sent')
    BY <1>1, <1>6, Zenon
  <2>2. toClient' = <<>> /\ at' \in {"drain", "extra"}
    BY <1>1, <1>4
  <2> QED
    BY <1>7, <2>1, <2>2 DEF Ordered
<1> QED
  BY <1>8, <1>9, <1>10, <1>11 DEF IInv

LEMMA DrainKeeps == IInv /\ Drain => IInv'
<1> SUFFICES ASSUME IInv, Drain PROVE IInv'
  OBVIOUS
<1>1. at = "drain" /\ UNCHANGED <<at, answer, end, toClient, client>>
  BY DEF Drain, tunnel
<1>2. /\ buf' \in Seq(Nat) /\ wire' \in Seq(Nat) /\ buf' \o wire' = buf \o wire
      /\ UNCHANGED <<status, text, head, sent, appEnd>>
  BY ReadMoves DEF Drain
<1>3. /\ Types /\ answer = 0 /\ toClient = <<>> /\ status \notin {0, 101} /\ head <= sent
      /\ buf \o wire = SubSeq(text, head + 1, sent)
  BY <1>1 DEF IInv, Fresh, Before, Ordered, Decided
<1>4. Types'
  BY <1>1, <1>2, <1>3 DEF Types
<1>5. Fresh' /\ Sized' /\ Decided'
  BY <1>1, <1>2, <1>3 DEF Fresh, Sized, Decided
<1>6. Ordered'
  <2>1. head' <= sent' /\ buf' \o wire' = SubSeq(text', head' + 1, sent')
    BY <1>2, <1>3, Zenon
  <2> QED
    BY <1>1, <2>1 DEF Ordered
<1> QED
  BY <1>4, <1>5, <1>6 DEF IInv

LEMMA DrainEndsKeeps == IInv /\ DrainEnds => IInv'
<1> SUFFICES ASSUME IInv, DrainEnds PROVE IInv'
  OBVIOUS
<1> USE DEF IInv
<1>1. /\ at = "drain" /\ at' = "answered" /\ wire = <<>> /\ answer' = status
      /\ end' = IF appEnd = "open" THEN "pause" ELSE appEnd
      /\ UNCHANGED <<status, valid, text, head, wire, sent, appEnd, buf, toClient, client>>
  BY DEF DrainEnds, app, tunnel
<1>2. buf = SubSeq(text, head + 1, sent)
  BY <1>1, ConcatEmptySeq DEF Types, Ordered
<1>3. sent \in head .. sent
  BY <1>1 DEF Types, Ordered
<1> QED
  BY <1>1, <1>2, <1>3 DEF Types, Where, Ends, Fresh, Before, Sized, Ordered, Decided

LEMMA ExtraKeeps == IInv /\ Extra => IInv'
<1> SUFFICES ASSUME IInv, Extra PROVE IInv'
  OBVIOUS
<1> USE DEF IInv
<1>1. /\ at = "extra" /\ at' = "pipe" /\ toClient' = toClient \o buf /\ buf' = <<>>
      /\ UNCHANGED <<status, valid, text, head, wire, sent, appEnd, answer, end, client>>
  BY DEF Extra, app
<1>2. /\ toClient \o buf \in Seq(Nat) /\ (toClient \o buf) \o <<>> = toClient \o buf
  BY ConcatProperties, ConcatEmptySeq DEF Types
<1> QED
  BY <1>1, <1>2 DEF Types, Where, Fresh, Before, Sized, Ordered, Decided

LEMMA PipeDownKeeps == IInv /\ PipeDown => IInv'
<1> SUFFICES ASSUME IInv, PipeDown PROVE IInv'
  OBVIOUS
<1> USE DEF IInv
<1>1. /\ at = "pipe" /\ wire # <<>> /\ buf = <<>>
      /\ toClient' = Append(toClient, Head(wire)) /\ wire' = Tail(wire)
      /\ UNCHANGED <<status, valid, text, head, sent, appEnd, at, buf, answer, end, client>>
  BY DEF PipeDown, Ordered
<1>2. /\ toClient' \in Seq(Nat) /\ wire' \in Seq(Nat) /\ toClient' \o wire' = toClient \o wire
  BY <1>1, PassedOn DEF Types
<1>3. toClient \o <<>> = toClient /\ toClient' \o <<>> = toClient'
  BY <1>2, ConcatEmptySeq DEF Types
<1> QED
  BY <1>1, <1>2, <1>3, ZenonT(30) DEF Types, Fresh, Before, Sized, Ordered, Decided

LEMMA Step == IInv /\ [Next]_vars => IInv'
BY AppSendsKeeps, StillKeeps, OpeningKeeps, ReadHeadKeeps, CutKeeps, DrainKeeps, DrainEndsKeeps, ExtraKeeps,
   PipeDownKeeps, Zenon DEF Next, Handler

LEMMA Always == Spec => []IInv
BY Initially, Step, PTL DEF Spec

-----------------------------------------------------------------------------
(* The proxy never holds more of a head than the limit and one read, and      *)
(* refuses none for its size but one that is larger.                          *)
THEOREM UpgradeTyping == Spec => []UpgradeTypeOK
<1>1. IInv => UpgradeTypeOK
  <2> SUFFICES ASSUME IInv PROVE UpgradeTypeOK
    OBVIOUS
  <2>1. Limit <= Limit + Chunk /\ Limit \in Nat /\ Chunk \in Nat
    BY UpgradeAssumption
  <2>2. at = "read" => Len(buf) <= Limit + Chunk
    BY <2>1 DEF IInv, Types, Sized
  <2> QED
    BY <2>2 DEF IInv, Types, Where, Ends, Sized, UpgradeTypeOK
<1> QED
  BY <1>1, Always, PTL

(* However the bytes behind the head of a 101 are cut into reads, none is     *)
(* lost, doubled or overtaken on the way to the client.                       *)
THEOREM TunnelComplete == Spec => []NothingLost
<1>1. IInv => NothingLost
  BY DEF IInv, Ordered, NothingLost
<1> QED
  BY <1>1, Always, PTL

(* A refusal is passed on with the body that came, whole if the app closed.   *)
THEOREM RefusalComplete == Spec => []RefusalWhole
<1>1. IInv => RefusalWhole
  <2> SUFFICES ASSUME IInv, answer = status, status \notin {0, 101}
               PROVE  /\ IsPrefix(buf, SubSeq(text, head + 1, Len(text)))
                      /\ end = "closed" => buf = SubSeq(text, head + 1, sent)
    BY DEF RefusalWhole
  <2>1. PICK n \in head .. sent : buf = SubSeq(text, head + 1, n)
    BY DEF IInv, Decided
  <2>2. text \in Seq(Nat) /\ head \in Nat /\ n \in head .. Len(text)
    BY DEF IInv, Types
  <2>3. IsPrefix(buf, SubSeq(text, head + 1, Len(text)))
    BY <2>1, <2>2, Begins
  <2> QED
    BY <2>3 DEF IInv, Decided
<1> QED
  BY <1>1, Always, PTL
=============================================================================
