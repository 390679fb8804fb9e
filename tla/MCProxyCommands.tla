--------------------------- MODULE MCProxyCommands ---------------------------
(* An instance of ProxyCommands for TLC: two keys share a section, the home   *)
(* directory is above the project, and files set what the others do not.      *)
EXTENDS ProxyCommands, TLC

CONSTANTS p1, p2, q1, q2, low, high, off, dir, project, sub, user, sys, on

Sections == [k \in Key |-> IF k = "state_dir" THEN "paths" ELSE "proxy"]
Defaults == [k \in Key |-> CASE k = "port" -> high [] k = "https" -> off [] OTHER -> None]

Set(k, v) == [NoKeys EXCEPT ![k] = v]
Holds(k, v) == [Empty EXCEPT ![SectionOf[k]] = Set(k, v)]
Texts == [l \in Layer |->
  CASE l = "etc"   -> {Missing, Holds("port", low)}
    [] l = "home"  -> {Holds("https", on), Holds("state_dir", dir)}
    [] l = project -> {Holds("port", low)}
    [] l = sub     -> {Missing, Broken, Holds("port", high)}]
Variables == {NoKeys, Set("port", low), Set("state_dir", dir)}
Options == {NoKeys, Set("port", low), Set("https", on)}

Ways == [w \in Place |-> IF w = sub THEN <<sub, project>> ELSE <<w>>]
Symmetry == Permutations(Procs) \cup Permutations(Proxies)
=============================================================================
