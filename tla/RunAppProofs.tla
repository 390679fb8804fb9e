----------------------------- MODULE RunAppProofs -----------------------------
(* Theorems about RunApp, for any runs, hostnames, ports and users of aliases. *)
EXTENDS RunApp, TLAPS

(* Registered, and not yet done with the cleanup.                           *)
Registered == {"spawn", "wait", "serve", "stop", "abandon", "cleanup"}

RunTypes ==
  /\ table \subseteq Route /\ alive \subseteq Procs
  /\ at \in [Procs -> At] /\ port \in [Procs -> Range] /\ child \in [Procs -> Child]

(* A run that has not ended is a running process, *)
Running == \A p \in Procs : ~Ended(p) => p \in alive

(* and the only one of its hostname that is registered, if nobody forces:   *)
(* the cleanup of another would take its route, as it goes by the hostname. *)
OneRegistered ==
  \A p, q \in Procs :
    /\ at[p] \in Registered /\ at[q] \in Registered
    /\ HostOf[p] = HostOf[q] /\ Uncontested(p)
    => p = q

IInv == RunTypes /\ Running /\ OneRegistered /\ RouteWhileRunning

-----------------------------------------------------------------------------
(* Changes of the table.                                                    *)

LEMMA OwnRoute ==
  ASSUME NEW p \in Procs, RunTypes
  PROVE  /\ Own(p) \in Route /\ Own(p).pid = p
         /\ Own(p).key \in Key /\ Own(p).key.host = HostOf[p] /\ Own(p).key.path = Root
BY RunAssumption DEF Own, Route, Key, RunTypes

(* Runs of one hostname have one key, and nobody else has it.               *)
LEMMA KeyIsHost ==
  ASSUME NEW p \in Procs, NEW k \in Key, RunTypes
  PROVE  k = Own(p).key <=> k.host = HostOf[p] /\ k.path = Root
BY OwnRoute, RunAssumption DEF Key, Own

LEMMA ReplaceKeeps ==
  ASSUME table \subseteq Route, NEW dropped, NEW new, new \subseteq Route, Replace(dropped, new)
  PROVE  /\ table' \subseteq Route
         /\ \A e \in table : Live(e) /\ ~dropped[e.key] => e \in table'
BY DEF Replace

(* What an addition does, once it is allowed.                               *)
Put(r) == Replace([k \in Key |-> k = r.key], {r})

LEMMA AddKeeps ==
  ASSUME table \subseteq Route, NEW r \in Route, Put(r)
  PROVE  /\ table' \subseteq Route /\ r \in table'
         /\ \A e \in table : Live(e) /\ e.key # r.key => e \in table'
<1>1. \A e \in table : e.key \in Key
  BY DEF Route
<1>2. Replace([k \in Key |-> k = r.key], {r})
  BY DEF Put
<1>3. \A e \in table : [k \in Key |-> k = r.key][e.key] <=> e.key = r.key
  BY <1>1
<1>4. r \in table'
  BY <1>2 DEF Replace
<1> QED
  BY <1>2, <1>3, <1>4, ReplaceKeeps

LEMMA RemoveKeyKeeps ==
  ASSUME table \subseteq Route, NEW key \in Key, RemoveKey(key)
  PROVE  /\ table' \subseteq Route /\ UNCHANGED alive
         /\ \A e \in table : Live(e) /\ e.key # key => e \in table'
<1>1. \A e \in table : e.key \in Key
  BY DEF Route
<1>2. Replace([k \in Key |-> k = key], {}) /\ UNCHANGED alive
  BY DEF RemoveKey
<1>3. \A e \in table : [k \in Key |-> k = key][e.key] <=> e.key = key
  BY <1>1
<1> QED
  BY <1>2, <1>3, ReplaceKeeps

LEMMA RemoveHostKeeps ==
  ASSUME table \subseteq Route, NEW host, RemoveHost(host)
  PROVE  /\ table' \subseteq Route /\ UNCHANGED alive
         /\ \A e \in table : Live(e) /\ e.key.host # host => e \in table'
<1>1. \A e \in table : e.key \in Key
  BY DEF Route
<1>2. Replace([k \in Key |-> k.host = host], {}) /\ UNCHANGED alive
  BY DEF RemoveHost
<1>3. \A e \in table : [k \in Key |-> k.host = host][e.key] <=> e.key.host = host
  BY <1>1
<1> QED
  BY <1>2, <1>3, ReplaceKeeps

-----------------------------------------------------------------------------
(* The routes of runs under those changes.  The table is all that changes.  *)

LEMMA OwnIsLive ==
  ASSUME NEW p \in Procs, RunTypes, Running, ~Ended(p)
  PROVE  Live(Own(p))
BY OwnRoute DEF Running, Live

LEMMA RegisteredRuns ==
  ASSUME NEW p \in Procs, at[p] \in Registered
  PROVE  ~Ended(p)
BY DEF Registered, Ended

(* A run whose route is there, with what makes it stay.                     *)
Holds(p) == at[p] \in Registered /\ Uncontested(p)

LEMMA HoldsOwn ==
  ASSUME NEW p \in Procs, IInv, Holds(p)
  PROVE  Own(p) \in table /\ Live(Own(p))
BY OwnIsLive, RegisteredRuns DEF IInv, Holds, Registered, RouteWhileRunning

(* A registration leaves the routes of the other runs, as it is refused     *)
(* where it would not.                                                      *)
LEMMA AddOwnKeeps ==
  ASSUME IInv, NEW q \in Procs, Add(Own(q), q \in Forced)
  PROVE  /\ table' \subseteq Route /\ UNCHANGED alive /\ Own(q) \in table'
         /\ \A p \in Procs : Holds(p) /\ p # q => Own(p) \in table' /\ HostOf[p] # HostOf[q]
<1>1. Own(q) \in Route /\ Own(q).pid = q /\ table \subseteq Route
  BY OwnRoute DEF IInv, RunTypes
<1>2. /\ Put(Own(q)) /\ UNCHANGED alive
      /\ \A e \in table : e.key = Own(q).key /\ e.pid # q /\ q \notin Forced => ~Live(e)
  BY <1>1 DEF Add, Put
<1>4. /\ table' \subseteq Route /\ Own(q) \in table'
      /\ \A e \in table : Live(e) /\ e.key # Own(q).key => e \in table'
  BY <1>1, <1>2, AddKeeps
<1>3. ASSUME NEW p \in Procs, Holds(p), p # q
      PROVE  Own(p) \in table' /\ HostOf[p] # HostOf[q]
  <2>1. Own(p) \in table /\ Live(Own(p)) /\ Own(p).pid = p
    BY <1>3, HoldsOwn, OwnRoute DEF IInv
  <2>2. Own(p).key # Own(q).key
    <3> SUFFICES ASSUME Own(p).key = Own(q).key PROVE FALSE
      OBVIOUS
    <3>1. HostOf[p] = HostOf[q]
      BY OwnRoute DEF IInv
    <3>2. q \notin Forced
      BY <1>3, <3>1 DEF Holds, Uncontested
    <3>3. Own(p).pid # q
      BY <1>3, <2>1
    <3> QED
      BY <1>2, <2>1, <3>2, <3>3
  <2>3. HostOf[p] # HostOf[q]
    BY <2>2 DEF Own
  <2>4. Own(p) \in table'
    BY <1>4, <2>1, <2>2
  <2> QED
    BY <2>3, <2>4
<1> QED
  BY <1>2, <1>3, <1>4

(* So does what users of aliases do, or the run would be contested.         *)
LEMMA AliasKeeps ==
  ASSUME IInv, NEW r \in Aliases, NEW force \in BOOLEAN, Add(r, force)
  PROVE  /\ table' \subseteq Route /\ UNCHANGED alive
         /\ \A p \in Procs : Holds(p) => Own(p) \in table'
<1>1. r \in Route /\ table \subseteq Route
  BY RunAssumption DEF IInv, RunTypes
<1>2. Put(r) /\ UNCHANGED alive
  BY DEF Add, Put
<1>4. /\ table' \subseteq Route
      /\ \A e \in table : Live(e) /\ e.key # r.key => e \in table'
  BY <1>1, <1>2, AddKeeps
<1>3. \A p \in Procs : Holds(p) => r.key # Own(p).key
  BY DEF Holds, Uncontested
<1> QED
  BY <1>2, <1>3, <1>4, HoldsOwn

LEMMA RemovalKeeps ==
  ASSUME IInv, NEW k \in Removals,
         \/ k.path = Root /\ RemoveHost(k.host)
         \/ k.path # Root /\ RemoveKey(k)
  PROVE  /\ table' \subseteq Route /\ UNCHANGED alive
         /\ \A p \in Procs : Holds(p) => Own(p) \in table'
<1>1. k \in Key /\ table \subseteq Route
  BY RunAssumption DEF IInv, RunTypes
<1>2. \A p \in Procs : Holds(p) => Own(p).key # k
  BY DEF Holds, Uncontested
<1>3. CASE k.path = Root /\ RemoveHost(k.host)
  <2>1. \A p \in Procs : Holds(p) => Own(p).key.host # k.host
    BY <1>1, <1>2, <1>3, KeyIsHost, OwnRoute DEF IInv
  <2> QED
    BY <1>1, <1>3, <2>1, RemoveHostKeeps, HoldsOwn
<1>4. CASE k.path # Root /\ RemoveKey(k)
  BY <1>1, <1>2, <1>4, RemoveKeyKeeps, HoldsOwn
<1> QED
  BY <1>3, <1>4

(* And so does the cleanup of another run: it is of another hostname.       *)
LEMMA CleanupKeeps ==
  ASSUME IInv, NEW q \in Procs, at[q] \in Registered,
         RemoveHost(HostOf[q]) \/ UNCHANGED <<table, alive>>
  PROVE  /\ table' \subseteq Route /\ UNCHANGED alive
         /\ \A p \in Procs : Holds(p) /\ p # q => Own(p) \in table'
<1>1. table \subseteq Route
  BY DEF IInv, RunTypes
<1>2. \A p \in Procs : Holds(p) /\ p # q => Own(p).key.host # HostOf[q]
  BY OwnRoute DEF IInv, OneRegistered, Holds
<1> QED
  BY <1>1, <1>2, RemoveHostKeeps, HoldsOwn

-----------------------------------------------------------------------------
(* Steps. *)

(* What a step makes of the runs: all but q are where they were.            *)
LEMMA Elsewhere ==
  ASSUME IInv, NEW q \in Procs, NEW l \in At, Goto(q, l)
  PROVE  /\ at' \in [Procs -> At] /\ at'[q] = l
         /\ \A p \in Procs : p # q => at'[p] = at[p]
BY DEF IInv, RunTypes, Goto

(* A step that keeps the routes of those that hold theirs, and registers    *)
(* nobody, keeps the invariant.                                             *)
LEMMA Kept ==
  ASSUME IInv, NEW q \in Procs,
         table' \subseteq Route, alive' \subseteq Procs, port' \in [Procs -> Range],
         child' \in [Procs -> Child], at' \in [Procs -> At],
         \A p \in Procs : p # q => at'[p] = at[p] /\ port'[p] = port[p]
                                   /\ (p \in alive => p \in alive'),
         at'[q] \in {"exited", "killed"} \/ (q \in alive' /\ ~Ended(q)),
         at'[q] \notin Registered \/ (at[q] \in Registered /\ port'[q] = port[q]),
         \A p \in Procs : Holds(p) /\ at'[p] \in Registered => Own(p) \in table'
  PROVE  IInv'
<1>1. RunTypes'
  BY DEF RunTypes
<1>2. Running'
  BY DEF IInv, Running, Ended
<1>3. \A p \in Procs : at'[p] \in Registered =>
        at[p] \in Registered /\ port'[p] = port[p] /\ Own(p)' = Own(p)
  BY DEF Own
<1>4. \A p \in Procs : Uncontested(p)' <=> Uncontested(p)
  BY DEF Uncontested, Own
<1>5. OneRegistered'
  BY <1>3, <1>4 DEF IInv, OneRegistered
<1>6. RouteWhileRunning'
  BY <1>3, <1>4 DEF RouteWhileRunning, Holds, Registered
<1> QED
  BY <1>1, <1>2, <1>5, <1>6 DEF IInv

LEMMA AddRouteKeeps == ASSUME NEW q \in Procs PROVE IInv /\ AddRoute(q) => IInv'
<1> SUFFICES ASSUME IInv, AddRoute(q) PROVE IInv'
  OBVIOUS
<1>1. /\ at[q] = "add" /\ Add(Own(q), q \in Forced) /\ Goto(q, "spawn")
      /\ port' = port /\ child' = child
  BY DEF AddRoute
<1>2. /\ table' \subseteq Route /\ alive' = alive /\ Own(q) \in table'
      /\ \A p \in Procs : Holds(p) /\ p # q => Own(p) \in table' /\ HostOf[p] # HostOf[q]
  BY <1>1, AddOwnKeeps
<1>3. /\ at' \in [Procs -> At] /\ at'[q] = "spawn"
      /\ \A p \in Procs : p # q => at'[p] = at[p]
  BY <1>1, Elsewhere DEF At
<1>4. \A p \in Procs : Own(p)' = Own(p) /\ (Uncontested(p)' <=> Uncontested(p))
  BY <1>1 DEF Own, Uncontested
<1>5. RunTypes'
  BY <1>1, <1>2, <1>3 DEF IInv, RunTypes
<1>6. Running'
  BY <1>1, <1>2, <1>3 DEF IInv, Running, Ended
<1>7. \A p \in Procs : p # q /\ at'[p] \in Registered /\ Uncontested(p)
        => Own(p) \in table' /\ HostOf[p] # HostOf[q]
  BY <1>2, <1>3 DEF Holds
<1>8. OneRegistered'
  <2> SUFFICES ASSUME NEW p \in Procs, NEW r \in Procs, at'[p] \in Registered, at'[r] \in Registered,
                      HostOf[p] = HostOf[r], Uncontested(p)
               PROVE  p = r
    BY <1>4 DEF OneRegistered
  <2>1. Uncontested(r)
    BY DEF Uncontested, Own
  <2>2. CASE p = q \/ r = q
    BY <1>7, <2>1, <2>2
  <2>3. CASE p # q /\ r # q
    BY <1>3, <2>3 DEF IInv, OneRegistered
  <2> QED
    BY <2>2, <2>3
<1>9. RouteWhileRunning'
  BY <1>2, <1>4, <1>7 DEF RouteWhileRunning, Registered
<1> QED
  BY <1>5, <1>6, <1>8, <1>9 DEF IInv

LEMMA CleanupStepKeeps == ASSUME NEW q \in Procs PROVE IInv /\ Cleanup(q) => IInv'
<1> SUFFICES ASSUME IInv, Cleanup(q) PROVE IInv'
  OBVIOUS
<1>1. /\ at[q] \in Registered /\ ~Ended(q) /\ Goto(q, "leave")
      /\ RemoveHost(HostOf[q]) \/ UNCHANGED <<table, alive>>
      /\ port' = port /\ child' = child
  BY DEF Cleanup, Registered, Ended
<1>2. /\ table' \subseteq Route /\ alive' = alive
      /\ \A p \in Procs : Holds(p) /\ p # q => Own(p) \in table'
  BY <1>1, CleanupKeeps
<1>3. /\ at' \in [Procs -> At] /\ at'[q] = "leave" /\ at'[q] \notin Registered
      /\ \A p \in Procs : p # q => at'[p] = at[p]
  BY <1>1, Elsewhere DEF At, Registered
<1>4. q \in alive
  BY <1>1 DEF IInv, Running
<1> QED
  BY <1>1, <1>2, <1>3, <1>4, Kept DEF IInv, RunTypes

(* Steps that leave the table alone and go on, or end.                      *)
LEMMA TableStays ==
  ASSUME IInv, NEW q \in Procs, table' = table, child' \in [Procs -> Child],
         port' \in [Procs -> Range], \A p \in Procs : p # q => port'[p] = port[p], ~Ended(q),
         \/ /\ alive' = alive
            /\ \E l \in At \ {"exited", "killed"} :
                 /\ Goto(q, l)
                 /\ l \in Registered => at[q] \in Registered /\ port'[q] = port[q]
         \/ Exit(q, "exited") \/ Exit(q, "killed")
  PROVE  IInv'
<1>1. table' \subseteq Route /\ q \in alive
  BY DEF IInv, RunTypes, Running
<1>2. \A p \in Procs : Holds(p) => Own(p) \in table'
  BY HoldsOwn
<1>3. CASE /\ alive' = alive
           /\ \E l \in At \ {"exited", "killed"} :
                /\ Goto(q, l)
                /\ l \in Registered => at[q] \in Registered /\ port'[q] = port[q]
  <2>1. PICK l \in At \ {"exited", "killed"} :
          /\ Goto(q, l)
          /\ l \in Registered => at[q] \in Registered /\ port'[q] = port[q]
    BY <1>3
  <2>2. at' \in [Procs -> At] /\ at'[q] = l /\ \A p \in Procs : p # q => at'[p] = at[p]
    BY <2>1, Elsewhere
  <2> QED
    BY <1>1, <1>2, <1>3, <2>1, <2>2, Kept DEF IInv, RunTypes
<1>4. CASE Exit(q, "exited") \/ Exit(q, "killed")
  <2>1. PICK l \in {"exited", "killed"} : Goto(q, l) /\ alive' = alive \ {q}
    BY <1>4 DEF Exit, Die
  <2>2. at' \in [Procs -> At] /\ at'[q] = l /\ \A p \in Procs : p # q => at'[p] = at[p]
    BY <2>1, Elsewhere DEF At
  <2>3. at'[q] \notin Registered
    BY <2>1, <2>2 DEF Registered
  <2> QED
    BY <1>1, <1>2, <2>1, <2>2, <2>3, Kept DEF IInv, RunTypes
<1> QED
  BY <1>3, <1>4

LEMMA FindPortKeeps == ASSUME NEW q \in Procs PROVE IInv /\ FindPort(q) => IInv'
<1> SUFFICES ASSUME IInv, FindPort(q) PROVE IInv'
  OBVIOUS
<1>1. /\ table' = table /\ alive' = alive /\ child' = child /\ at[q] = "start" /\ Goto(q, "add")
      /\ port' = port \/ \E n \in Range : port' = [port EXCEPT ![q] = n]
  BY DEF FindPort
<1>2. port' \in [Procs -> Range] /\ \A p \in Procs : p # q => port'[p] = port[p]
  BY <1>1 DEF IInv, RunTypes
<1>3. ~Ended(q) /\ "add" \in At \ {"exited", "killed"} /\ "add" \notin Registered
  BY <1>1 DEF Ended, At, Registered
<1> QED
  BY <1>1, <1>2, <1>3, TableStays DEF IInv, RunTypes

(* The rest of a run, its signals and its app.                              *)
LEMMA OnwardKeeps ==
  ASSUME NEW q \in Procs
  PROVE  IInv /\ (Spawn(q) \/ Ready(q) \/ NotReady(q) \/ Waited(q) \/ Leave(q) \/ GiveUp(q) \/ Signal(q))
           => IInv'
<1> SUFFICES ASSUME IInv,
                    Spawn(q) \/ Ready(q) \/ NotReady(q) \/ Waited(q) \/ Leave(q) \/ GiveUp(q) \/ Signal(q)
             PROVE  IInv'
  OBVIOUS
<1>1. port' = port /\ table' = table
  BY DEF Spawn, Ready, NotReady, Waited, Leave, GiveUp, Signal, Exit, Die
<1>2. child' \in [Procs -> Child]
  <2>1. child' = child \/ child' = [child EXCEPT ![q] = "started"]
    BY DEF Spawn, Ready, NotReady, Waited, Leave, GiveUp, Signal, App
  <2> QED
    BY <2>1 DEF IInv, RunTypes, Child
<1>3. ~Ended(q)
  BY DEF Spawn, Ready, NotReady, Waited, Leave, GiveUp, Signal, Ended
<1>4. \/ /\ alive' = alive /\ at[q] \in Registered
         /\ \E l \in {"wait", "abandon", "serve", "stop", "cleanup"} : Goto(q, l)
      \/ Exit(q, "exited") \/ Exit(q, "killed")
  BY DEF Spawn, Ready, NotReady, Waited, Leave, GiveUp, Signal, Registered
<1>5. {"wait", "abandon", "serve", "stop", "cleanup"} \subseteq At \ {"exited", "killed"}
  BY DEF At
<1> QED
  BY <1>1, <1>2, <1>3, <1>4, <1>5, TableStays DEF IInv, RunTypes

LEMMA AppKeeps ==
  ASSUME NEW q \in Procs
  PROVE  IInv /\ (Listen(q) \/ AppExits(q)) => IInv'
<1> SUFFICES ASSUME IInv, Listen(q) \/ AppExits(q) PROVE IInv'
  OBVIOUS
<1>1. /\ UNCHANGED <<table, alive, at, port>>
      /\ \E c \in {"listening", "done", "failed"} : child' = [child EXCEPT ![q] = c]
  BY DEF Listen, AppExits, App
<1>2. child' \in [Procs -> Child]
  BY <1>1 DEF IInv, RunTypes, Child
<1>3. \A p \in Procs : Own(p)' = Own(p) /\ (Uncontested(p)' <=> Uncontested(p))
  BY <1>1 DEF Own, Uncontested
<1> QED
  BY <1>1, <1>2, <1>3 DEF IInv, RunTypes, Running, Ended, OneRegistered, RouteWhileRunning

LEMMA UsersKeep == IInv /\ (AddAlias \/ RemoveAlias) => IInv'
<1> SUFFICES ASSUME IInv, AddAlias \/ RemoveAlias PROVE IInv'
  OBVIOUS
<1>1. at' = at /\ port' = port /\ child' = child
  BY DEF AddAlias, RemoveAlias
<1>2. /\ table' \subseteq Route /\ alive' = alive
      /\ \A p \in Procs : Holds(p) => Own(p) \in table'
  BY AliasKeeps, RemovalKeeps DEF AddAlias, RemoveAlias
<1>3. \A p \in Procs : Own(p)' = Own(p) /\ (Uncontested(p)' <=> Uncontested(p))
  BY <1>1 DEF Own, Uncontested
<1> QED
  BY <1>1, <1>2, <1>3 DEF IInv, RunTypes, Running, Ended, OneRegistered, RouteWhileRunning, Holds, Registered

LEMMA Initially == RunInit => IInv
BY RunAssumption
   DEF RunInit, IInv, RunTypes, Running, OneRegistered, RouteWhileRunning, Registered, At, Child

LEMMA Step == IInv /\ [RunNext]_runVars => IInv'
<1>1. ASSUME IInv, UNCHANGED runVars PROVE IInv'
  <2>1. \A p \in Procs : Own(p)' = Own(p) /\ (Uncontested(p)' <=> Uncontested(p))
    BY <1>1 DEF Own, Uncontested, runVars
  <2> QED
    BY <1>1, <2>1 DEF runVars, IInv, RunTypes, Running, Ended, OneRegistered, RouteWhileRunning
<1> QED
  BY <1>1, FindPortKeeps, AddRouteKeeps, CleanupStepKeeps, OnwardKeeps, AppKeeps, UsersKeep, Zenon
  DEF RunNext, Run

LEMMA Always == RunSpec => []IInv
BY Initially, Step, PTL DEF RunSpec

-----------------------------------------------------------------------------
(* While a run waits for its app, serves it or stops it, its route is in the *)
(* table, whatever other runs and users of aliases do, unless one of them    *)
(* forces over it or names it.                                               *)
THEOREM RouteKept == RunSpec => []RouteWhileRunning
BY Always, PTL DEF IInv

(* Of two runs of one hostname the second is refused, until the first is     *)
(* done or gone.                                                             *)
THEOREM HostsHaveOneRun == RunSpec => []OneRunPerHost
<1>1. IInv => OneRunPerHost
  BY DEF IInv, OneRegistered, OneRunPerHost, Registered
<1> QED
  BY <1>1, Always, PTL
=============================================================================
