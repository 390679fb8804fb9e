----------------------------- MODULE RouteTable -----------------------------
(* What src/routes.rs promises, without the file, the lock or the            *)
(* retries: one table of routes that processes change one at a time.  Only   *)
(* a change that names its key, or the death of its owner (any change may    *)
(* then prune it), ever takes a route out of the table.                      *)
CONSTANTS Procs,    \* the nkl processes
          Static,   \* the owner of an alias: pid 0, never dead
          Hosts, Paths, Ports

VARIABLES table,    \* the routes a reader would be given
          alive     \* the processes that are running

Key   == [host : Hosts, path : Paths]
Route == [key : Key, port : Ports, pid : Procs \cup {Static}]

Live(e) == e.pid \in alive \cup {Static}

Init == /\ table \subseteq Route
        /\ alive = Procs

(* A change keeps every live route it does not name, drops those it names,  *)
(* and may prune any dead one.                                              *)
Replace(dropped, new) ==
  \E pruned \in SUBSET {e \in table : ~Live(e)} :
    table' = {e \in table \ pruned : ~dropped[e.key]} \cup new

(* add_route: refused while somebody else's live route has the key, unless  *)
(* forced.                                                                  *)
Add(r, force) ==
  /\ \A e \in table : e.key = r.key /\ e.pid # r.pid /\ ~force => ~Live(e)
  /\ Replace([k \in Key |-> k = r.key], {r})
  /\ UNCHANGED alive

(* remove_route with a path prefix. *)
RemoveKey(key) ==
  /\ Replace([k \in Key |-> k = key], {})
  /\ UNCHANGED alive

(* remove_route without one. *)
RemoveHost(host) ==
  /\ Replace([k \in Key |-> k.host = host], {})
  /\ UNCHANGED alive

Die(p) == /\ p \in alive
          /\ alive' = alive \ {p}
          /\ UNCHANGED table

Next == \/ \E r \in Route, force \in BOOLEAN : Add(r, force)
        \/ \E key \in Key : RemoveKey(key)
        \/ \E host \in Hosts : RemoveHost(host)
        \/ \E p \in Procs : Die(p)

Spec == Init /\ [][Next]_<<table, alive>>
=============================================================================
