-------------------------------- MODULE RunApp --------------------------------
(* `nkl run`: run_app and spawn_command of src/run/mod.rs and the port         *)
(* search of src/run/framework.rs, over the table of routes that the store     *)
(* implements (RouteTable).  Several runs and users of aliases act at once;    *)
(* the user may press Ctrl+C and an app may exit at any moment.                *)
EXTENDS RouteTable

CONSTANTS
  HostOf,     \* HostOf[p]: the hostname of p's run
  Forced,     \* the runs with app_force
  Fixed,      \* the runs with a configured app_port
  Range,      \* app_port_range
  Root,       \* the path "/"
  Aliases,    \* the routes that users of `nkl alias` add
  Removals    \* the name and --path they give with --remove; Root is no --path

ASSUME RunAssumption ==
  /\ Static \notin Procs
  /\ HostOf \in [Procs -> Hosts] /\ Forced \subseteq Procs /\ Fixed \subseteq Procs
  /\ Range \subseteq Ports /\ Root \in Paths
  /\ Aliases \subseteq {r \in Route : r.pid = Static} /\ Removals \subseteq Key

VARIABLES
  at,       \* where run_app is; "exited" by itself, "killed" by a signal
  port,     \* app_port, configured or once found
  child     \* the app

runVars == <<table, alive, at, port, child>>

(* "failed" has exited with another code than 0, or on a signal.            *)
At == {"start", "add", "spawn", "wait", "serve", "stop", "abandon", "cleanup",
       "leave", "exited", "killed"}
Child == {"none", "started", "listening", "done", "failed"}

Own(p) == [key |-> [host |-> HostOf[p], path |-> Root], port |-> port[p], pid |-> p]

RunInit == /\ table = {} /\ alive = Procs
           /\ at = [p \in Procs |-> "start"]
           /\ port \in [Procs -> Range]
           /\ child = [p \in Procs |-> "none"]

Goto(p, l) == at' = [at EXCEPT ![p] = l]
App(p, c) == child' = [child EXCEPT ![p] = c]

(* The process ends.                                                        *)
Exit(p, l) == Goto(p, l) /\ Die(p)

-----------------------------------------------------------------------------
(* find_free_port: a port that can be bound just now, and is let go again.  *)
Bound == {port[q] : q \in {r \in Procs : child[r] = "listening"}}

FindPort(p) ==
  /\ at[p] = "start"
  /\ \/ p \in Fixed /\ UNCHANGED port
     \/ p \notin Fixed /\ \E n \in Range \ Bound : port' = [port EXCEPT ![p] = n]
  /\ Goto(p, "add")
  /\ UNCHANGED <<table, alive, child>>

(* Mutant: the route is removed on this way out, too.                       *)
GiveUpCleaning(p) ==
  /\ at[p] \in {"start", "add"}
  /\ Goto(p, "cleanup")
  /\ UNCHANGED <<table, alive, port, child>>

(* The proxy does not start, no port is free, the lock is not to be had, or *)
(* the route is another's: run_app returns the error.                       *)
GiveUp(p) ==
  /\ at[p] \in {"start", "add"}
  /\ Exit(p, "exited")
  /\ UNCHANGED <<port, child>>

(* Mutant: --force is always passed.                                        *)
AddRouteForced(p) ==
  /\ at[p] = "add"
  /\ Add(Own(p), TRUE)
  /\ Goto(p, "spawn")
  /\ UNCHANGED <<port, child>>

AddRoute(p) ==
  /\ at[p] = "add"
  /\ Add(Own(p), p \in Forced)
  /\ Goto(p, "spawn")
  /\ UNCHANGED <<port, child>>

Spawn(p) ==
  /\ at[p] = "spawn"
  /\ \/ Goto(p, "wait") /\ App(p, "started")
     \/ Goto(p, "abandon") /\ UNCHANGED child     \* sh cannot be spawned
  /\ UNCHANGED <<table, alive, port>>

(* wait_for_app_wrapped returns Ok: somebody accepts connections on the     *)
(* port, the timeout is over, or there is none.                             *)
Ready(p) ==
  /\ at[p] = "wait"
  /\ Goto(p, "serve")
  /\ UNCHANGED <<table, alive, port, child>>

(* It sees that the app is gone: the process group is signalled.            *)
NotReady(p) ==
  /\ at[p] = "wait" /\ child[p] \in {"done", "failed"}
  /\ Goto(p, "abandon")
  /\ UNCHANGED <<table, alive, port, child>>

(* Mutant: the status of an app that was signalled is not looked at.        *)
WaitedStopForever(p) ==
  /\ at[p] = "serve"
  /\ \/ child[p] = "done" /\ Goto(p, "cleanup") /\ UNCHANGED <<table, alive>>
     \/ child[p] = "failed" /\ Exit(p, "exited")
  /\ UNCHANGED <<port, child>>

(* The app is waited for; propagate_exit_status leaves the process at once  *)
(* unless the code is 0.                                                    *)
Waited(p) ==
  /\ at[p] \in {"serve", "stop"}
  /\ \/ child[p] = "done" /\ Goto(p, "cleanup") /\ UNCHANGED <<table, alive>>
     \/ child[p] = "failed" /\ Exit(p, "exited")
  /\ UNCHANGED <<port, child>>

(* remove_route with no path; an error of it is dropped.                    *)
Cleanup(p) ==
  /\ at[p] \in {"abandon", "cleanup"}
  /\ RemoveHost(HostOf[p]) \/ UNCHANGED <<table, alive>>
  /\ Goto(p, "leave")
  /\ UNCHANGED <<port, child>>

Leave(p) == /\ at[p] = "leave"
            /\ Exit(p, "exited")
            /\ UNCHANGED <<port, child>>

-----------------------------------------------------------------------------
(* SIGINT or SIGTERM to nkl.  Once the handlers are there it goes on to the *)
(* app's process group; before, it ends nkl alone.                          *)
Signal(p) ==
  /\ \/ at[p] \in {"start", "add", "spawn", "wait", "abandon"} /\ Exit(p, "killed")
     \/ at[p] = "serve" /\ Goto(p, "stop") /\ UNCHANGED <<table, alive>>
  /\ UNCHANGED <<port, child>>

(* The app binds the port it was given. *)
Listen(p) ==
  /\ child[p] = "started" /\ port[p] \notin Bound
  /\ App(p, "listening")
  /\ UNCHANGED <<table, alive, at, port>>

(* The app exits, of itself or of a signal.                                 *)
AppExits(p) ==
  /\ child[p] \in {"started", "listening"}
  /\ App(p, "done") \/ App(p, "failed")
  /\ UNCHANGED <<table, alive, at, port>>

(* nkl alias, with or without --force.                                      *)
AddAlias ==
  /\ \E r \in Aliases, force \in BOOLEAN : Add(r, force)
  /\ UNCHANGED <<at, port, child>>

(* nkl alias --remove: without a path to tell it from, the hostname goes.   *)
RemoveAlias ==
  /\ \E k \in Removals : \/ k.path = Root /\ RemoveHost(k.host)
                         \/ k.path # Root /\ RemoveKey(k)
  /\ UNCHANGED <<at, port, child>>

Run(p) == \/ FindPort(p) \/ AddRoute(p) \/ Spawn(p) \/ Ready(p) \/ NotReady(p)
          \/ Waited(p) \/ Cleanup(p) \/ Leave(p)

RunNext == \/ \E p \in Procs : \/ Run(p) \/ GiveUp(p)
                               \/ Signal(p) \/ Listen(p) \/ AppExits(p)
           \/ AddAlias \/ RemoveAlias

RunSpec == RunInit /\ [][RunNext]_runVars

(* nkl is scheduled; the readiness check has a timeout.  An app that was    *)
(* signalled exits (no fairness is asked of one that was not).              *)
FairRunSpec ==
  RunSpec /\ \A p \in Procs : /\ WF_runVars(Run(p) \/ GiveUp(p))
                              /\ WF_runVars(at[p] = "stop" /\ AppExits(p))

-----------------------------------------------------------------------------
(* Properties *)

Ended(p) == at[p] \in {"exited", "killed"}

(* From the registration to the cleanup the route of a run is in the table, *)
(* if nobody forces over it, and no alias has its key or is removed by name. *)
Uncontested(p) == /\ \A q \in Forced : HostOf[q] # HostOf[p]
                  /\ \A r \in Aliases : r.key # Own(p).key
                  /\ Own(p).key \notin Removals
RouteWhileRunning ==
  \A p \in Procs :
    at[p] \in {"spawn", "wait", "serve", "stop", "abandon", "cleanup"} /\ Uncontested(p)
      => Own(p) \in table

(* One hostname has one app: two runs of it that both hold their route are  *)
(* never in front of their apps at once, unless one is forced.              *)
OneRunPerHost ==
  \A p, q \in Procs :
    /\ at[p] \in {"wait", "serve", "stop"} /\ at[q] \in {"wait", "serve", "stop"}
    /\ HostOf[p] = HostOf[q] /\ Uncontested(p)
    => p = q

(* When the app of a run ends, or its user stops it, the run ends.          *)
RunEnds ==
  \A p \in Procs : (at[p] = "stop" \/ child[p] \in {"done", "failed"}) ~> Ended(p)
=============================================================================
