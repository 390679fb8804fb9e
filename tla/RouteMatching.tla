---------------------------- MODULE RouteMatching ----------------------------
(* How the proxy picks the route of a request: find_route of                  *)
(* src/proxy/handler.rs and the path helpers of src/proxy/mod.rs.             *)
(* A hostname is the sequence of its labels, a path or a path prefix that of  *)
(* its segments: "/" is <<>>, and a trailing slash is left out.               *)
EXTENDS SequencesExt

(* r.hostname == host, or host ends in "." and r.hostname.                    *)
HostMatches(host, r) == IsSuffix(r.host, host)

(* path_matches_prefix: equal, or the prefix and a slash.                     *)
PathMatches(path, r) == IsPrefix(r.prefix, path)

(* strip_path_prefix, of a path that matches.                                 *)
Strip(path, prefix) == SubSeq(path, Len(prefix) + 1, Len(path))

Candidates(host, path, routes) ==
  {i \in DOMAIN routes : HostMatches(host, routes[i]) /\ PathMatches(path, routes[i])}

(* The index of the first of the routes with the longest prefix, in a set; {} *)
(* if there is none.  The sort is stable and looks at the prefix only.        *)
FindRoute(host, path, routes) ==
  {i \in Candidates(host, path, routes) :
     \A j \in Candidates(host, path, routes) \ {i} :
       LET a == Len(routes[i].prefix) b == Len(routes[j].prefix)
       IN a > b \/ (a = b /\ i < j)}

(* build_forwarded_path_and_query; the root prefix is never stripped.         *)
ForwardedPath(path, r) ==
  IF r.strip /\ r.prefix # <<>> THEN Strip(path, r.prefix) ELSE path
=============================================================================
