---------------------------- MODULE ProxyLifecycle ----------------------------
(* Starting and stopping the proxy of one port: ensure_proxy_running and       *)
(* stop_proxy of src/proxy/daemon.rs, start_proxy and the lifecycle files      *)
(* of src/proxy/server.rs.  Starters spawn daemons one at a time under a       *)
(* directory lock; a user may start a proxy in the foreground without it.      *)
EXTENDS Integers

CONSTANTS
  Starters,    \* calls of ensure_proxy_running
  Stoppers,    \* calls of stop_proxy
  Daemons,     \* processes of proxy start --daemonize
  Foreground,  \* processes of proxy start --foreground
  Https,       \* the proxies that are started with --https
  Signals,     \* <<x, p>> \in Signals: stopper x may signal p
  MaxTries,    \* STARTUP_LOCK_MAX_RETRIES
  Faults,      \* what may happen: "crash" and "stall" of starters with the
               \* lock, "kill" of proxies, "slow" starts of daemons
  None

Proxies == Daemons \cup Foreground

ASSUME LifecycleAssumption ==
  /\ Daemons \cap Foreground = {} /\ None \notin Proxies \cup Starters
  /\ Https \subseteq Proxies /\ Signals \subseteq Stoppers \X Proxies
  /\ MaxTries \in Nat \ {0} /\ Faults \subseteq {"crash", "stall", "kill", "slow"}

VARIABLES
  lock,      \* proxy.start.lock: who made it, and is it past the threshold
  pc,        \* where a starter is
  tries,     \* the turns it has left at the lock
  mine,      \* the daemon it spawned
  answered,  \* the proxy whose answer it took for the one it started
  at,        \* where a proxy is
  pending,   \* the proxies with a SIGTERM or SIGINT to be handled
  left,      \* the cleanups a proxy or a stopper still has to do
  exposed,   \* history: the daemons that were running at the last cleanup
  pidFile,   \* proxy.pid: its text, and the daemon with a flock on it
  files,     \* which of proxy.port and proxy.tls there are
  stop,      \* where a stopper is
  target     \* the pid it read

starterVars == <<lock, pc, tries, mine, answered>>
proxyVars == <<at, pending, pidFile, files>>
stopVars == <<stop, target>>
cleanVars == <<left, exposed>>
vars == <<starterVars, proxyVars, cleanVars, stopVars>>

InCS == {"probe", "spawn", "wait", "drop"}
PcValue == {"idle", "mkdir", "stat", "reclaim", "done", "crashed"} \cup InCS
Listening == {"bound", "named", "serve", "clean"}
At == {"off", "launch", "bind", "over"} \cup Listening
StopValue == {"idle", "check", "term", "watch", "clean", "done"}

NoLock == [by |-> None, old |-> FALSE]
NoPid == [pid |-> None, held |-> None]

(* start_proxy calls cleanup_lifecycle_files twice.                         *)
Cleanups(x) == IF x \in Proxies THEN 2 ELSE 1

Init == /\ lock = NoLock /\ pc = [s \in Starters |-> "idle"]
        /\ tries = [s \in Starters |-> MaxTries]
        /\ mine = [s \in Starters |-> None] /\ answered = [s \in Starters |-> None]
        /\ at = [p \in Proxies |-> "off"] /\ pending = {}
        /\ left = [x \in Proxies \cup Stoppers |-> Cleanups(x)] /\ exposed = {}
        /\ pidFile = NoPid /\ files = {}
        /\ stop = [x \in Stoppers |-> "idle"] /\ target = [x \in Stoppers |-> None]

Goto(s, l) == pc' = [pc EXCEPT ![s] = l]
Become(p, l) == at' = [at EXCEPT ![p] = l]
Await(x, l) == stop' = [stop EXCEPT ![x] = l]

Alive(p) == at[p] \notin {"off", "over"}
Bound == {p \in Proxies : at[p] \in Listening}
Serving == {p \in Proxies : at[p] = "serve"}

-----------------------------------------------------------------------------
(* ensure_proxy_running: the startup lock *)

Begin(s) ==
  /\ pc[s] = "idle"
  /\ Goto(s, "mkdir")
  /\ UNCHANGED <<lock, tries, mine, answered, proxyVars, cleanVars, stopVars>>

Acquire(s) ==
  /\ pc[s] = "mkdir" /\ lock = NoLock
  /\ lock' = [by |-> s, old |-> FALSE]
  /\ tries' = [tries EXCEPT ![s] = 0]
  /\ Goto(s, "probe")
  /\ UNCHANGED <<mine, answered, proxyVars, cleanVars, stopVars>>

Contend(s) ==
  /\ pc[s] = "mkdir" /\ lock # NoLock
  /\ Goto(s, "stat")
  /\ UNCHANGED <<lock, tries, mine, answered, proxyVars, cleanVars, stopVars>>

(* Mutant: the last turn is not told from the others.                       *)
SpendTryNoLimit(s) == /\ tries' = [tries EXCEPT ![s] = @ - 1]
                      /\ Goto(s, "mkdir")

(* A turn of the loop is spent; after the last one the call fails.          *)
SpendTry(s) == /\ tries' = [tries EXCEPT ![s] = @ - 1]
               /\ Goto(s, IF tries[s] > 1 THEN "mkdir" ELSE "done")

Sleep(s) ==
  /\ pc[s] = "stat" /\ ~lock.old
  /\ SpendTry(s)
  /\ UNCHANGED <<lock, mine, answered, proxyVars, cleanVars, stopVars>>

(* Mutant: any lock is taken for a stale one.                               *)
SeeStaleAnyLock(s) ==
  /\ pc[s] = "stat" /\ lock # NoLock
  /\ Goto(s, "reclaim")
  /\ UNCHANGED <<lock, tries, mine, answered, proxyVars, cleanVars, stopVars>>

SeeStale(s) ==
  /\ pc[s] = "stat" /\ lock.old
  /\ Goto(s, "reclaim")
  /\ UNCHANGED <<lock, tries, mine, answered, proxyVars, cleanVars, stopVars>>

(* remove_dir_all takes whatever lock is there now.                         *)
Reclaim(s) ==
  /\ pc[s] = "reclaim"
  /\ lock' = NoLock
  /\ SpendTry(s)
  /\ UNCHANGED <<mine, answered, proxyVars, cleanVars, stopVars>>

-----------------------------------------------------------------------------
(* ensure_proxy_running: with the lock.  A probe is answered by a proxy that *)
(* serves, refused when nobody listens, and waits for one that does not      *)
(* accept yet, or no more: it has no timeout.                                *)

AlreadyRunning(s) ==
  /\ pc[s] = "probe" /\ Serving # {}
  /\ Goto(s, "drop")
  /\ UNCHANGED <<lock, tries, mine, answered, proxyVars, cleanVars, stopVars>>

(* Mutant: the probe is not made again once the lock is held.               *)
NotRunningUnchecked(s) ==
  /\ pc[s] = "probe"
  /\ Goto(s, "spawn")
  /\ UNCHANGED <<lock, tries, mine, answered, proxyVars, cleanVars, stopVars>>

NotRunning(s) ==
  /\ pc[s] = "probe" /\ Bound = {}
  /\ Goto(s, "spawn")
  /\ UNCHANGED <<lock, tries, mine, answered, proxyVars, cleanVars, stopVars>>

(* spawn_proxy_daemon_process, which may fail.                              *)
SpawnDaemon(s) ==
  /\ pc[s] = "spawn"
  /\ \/ \E d \in Daemons : /\ at[d] = "off" /\ Become(d, "launch")
                           /\ mine' = [mine EXCEPT ![s] = d]
        /\ Goto(s, "wait")
     \/ Goto(s, "drop") /\ UNCHANGED <<at, mine>>
  /\ UNCHANGED <<lock, tries, answered, pending, pidFile, files, cleanVars, stopVars>>

(* wait_for_proxy: somebody answers, whoever it is, *)
Started(s) ==
  /\ pc[s] = "wait"
  /\ \E p \in Serving : answered' = [answered EXCEPT ![s] = p]
  /\ Goto(s, "drop")
  /\ UNCHANGED <<lock, tries, mine, proxyVars, cleanVars, stopVars>>

(* Mutant: the attempts are not counted.                                    *)
WaitForever(s) == pc[s] = "wait" /\ FALSE /\ UNCHANGED vars

(* or twenty probes were refused: the daemon died or, "slow", is not at the *)
(* bind after five seconds.                                                 *)
GiveUp(s) ==
  /\ pc[s] = "wait" /\ Bound = {}
  /\ ~Alive(mine[s]) \/ "slow" \in Faults
  /\ Goto(s, "drop")
  /\ UNCHANGED <<lock, tries, mine, answered, proxyVars, cleanVars, stopVars>>

(* StartupLock's drop.                                                      *)
Drop(s) ==
  /\ pc[s] = "drop"
  /\ lock' = NoLock
  /\ mine' = [mine EXCEPT ![s] = None]
  /\ Goto(s, "done")
  /\ UNCHANGED <<tries, answered, proxyVars, cleanVars, stopVars>>

(* Ctrl+C: nothing is dropped.  Without the lock it matters to nobody.      *)
Interrupt(s) ==
  /\ pc[s] \in InCS /\ "crash" \in Faults
  /\ Goto(s, "crashed")
  /\ mine' = [mine EXCEPT ![s] = None] /\ answered' = [answered EXCEPT ![s] = None]
  /\ UNCHANGED <<lock, tries, proxyVars, cleanVars, stopVars>>

(* The lock passes the threshold of 15 s.                                   *)
Age ==
  /\ lock # NoLock /\ ~lock.old
  /\ pc[lock.by] = "crashed" \/ "stall" \in Faults
  /\ lock' = [lock EXCEPT !.old = TRUE]
  /\ UNCHANGED <<pc, tries, mine, answered, proxyVars, cleanVars, stopVars>>

-----------------------------------------------------------------------------
(* daemonize_and_start_proxy and start_proxy *)

StartForeground(p) ==
  /\ p \in Foreground /\ at[p] = "off"
  /\ Become(p, "bind")
  /\ UNCHANGED <<starterVars, pending, pidFile, files, cleanVars, stopVars>>

(* Daemonize::start writes the pid file under a flock that the daemon keeps *)
(* for life, and fails if another daemon has it.                            *)
Daemonize(p) ==
  /\ p \in Daemons /\ at[p] = "launch" /\ pidFile.held = None
  /\ pidFile' = [pid |-> p, held |-> p]
  /\ Become(p, "bind")
  /\ UNCHANGED <<starterVars, pending, files, cleanVars, stopVars>>

Bind(p) ==
  /\ at[p] = "bind" /\ Bound = {}
  /\ Become(p, "bound")
  /\ UNCHANGED <<starterVars, pending, pidFile, files, cleanVars, stopVars>>

(* write_lifecycle_files: fs::write keeps the inode and its flock.          *)
WriteLifecycle(p) ==
  /\ at[p] = "bound"
  /\ pidFile' = [pidFile EXCEPT !.pid = p]
  /\ files' = files \cup {"port"}
  /\ Become(p, "named")
  /\ UNCHANGED <<starterVars, pending, cleanVars, stopVars>>

(* Mutant: without --https the marker is left as it is.                     *)
WriteMarkerOnly(p) ==
  /\ at[p] = "named"
  /\ files' = IF p \in Https THEN files \cup {"tls"} ELSE files
  /\ Become(p, "serve")
  /\ UNCHANGED <<starterVars, pending, pidFile, cleanVars, stopVars>>

(* write_tls_marker; then connections and signals are attended to.          *)
WriteMarker(p) ==
  /\ at[p] = "named"
  /\ files' = IF p \in Https THEN files \cup {"tls"} ELSE files \ {"tls"}
  /\ Become(p, "serve")
  /\ UNCHANGED <<starterVars, pending, pidFile, cleanVars, stopVars>>

(* A process ends, and its flock with it.                                   *)
End(p) == /\ Become(p, "over")
          /\ pidFile' = [pidFile EXCEPT !.held = IF @ = p THEN None ELSE @]

(* The lock of the pid file or the port is another's, or a step on the way  *)
(* fails: the process ends and leaves the files as they are.                *)
Fail(p) ==
  /\ at[p] \in {"launch", "bind", "bound", "named"}
  /\ End(p)
  /\ UNCHANGED <<starterVars, pending, files, cleanVars, stopVars>>

(* The signal ends the select!; cleanup_lifecycle_files is called in its    *)
(* branch and again behind it, before the listener is dropped.              *)
Shutdown(p) ==
  /\ at[p] = "serve" /\ p \in pending
  /\ Become(p, "clean")
  /\ pending' = pending \ {p}
  /\ UNCHANGED <<starterVars, pidFile, files, cleanVars, stopVars>>

(* The daemons between their start and their shutdown.                      *)
Running == {p \in Daemons : at[p] \in {"bind", "bound", "named", "serve"}}

(* cleanup_lifecycle_files, which takes the files from all of them.         *)
Cleanup(x) ==
  /\ left[x] > 0 /\ (IF x \in Proxies THEN at[x] ELSE stop[x]) = "clean"
  /\ left' = [left EXCEPT ![x] = @ - 1]
  /\ exposed' = Running
  /\ pidFile' = NoPid /\ files' = {}
  /\ UNCHANGED <<starterVars, at, pending, stopVars>>

Return(p) ==
  /\ at[p] = "clean" /\ left[p] = 0
  /\ End(p)
  /\ UNCHANGED <<starterVars, pending, files, cleanVars, stopVars>>

(* SIGINT or SIGTERM: before the handlers are there it ends the process,    *)
(* and a second one says no more than the first.                            *)
Signalled(p) ==
  CASE at[p] = "serve" -> pending' = pending \cup {p} /\ UNCHANGED <<at, pidFile>>
    [] at[p] = "clean" -> UNCHANGED <<at, pending, pidFile>>
    [] OTHER           -> End(p) /\ UNCHANGED pending

(* Ctrl+C where the proxy has a terminal; or it is ended by force.          *)
Kill(p) ==
  /\ Alive(p)
  /\ \/ p \in Foreground /\ Signalled(p)
     \/ "kill" \in Faults /\ End(p) /\ pending' = pending \ {p}
  /\ UNCHANGED <<starterVars, files, cleanVars, stopVars>>

-----------------------------------------------------------------------------
(* stop_proxy *)

ReadPid(x) ==
  /\ stop[x] = "idle"
  /\ target' = [target EXCEPT ![x] = pidFile.pid]
  /\ Await(x, IF pidFile.pid = None THEN "done" ELSE "check")
  /\ UNCHANGED <<starterVars, proxyVars, cleanVars>>

(* kill(pid, 0) succeeds.                                                   *)
Probes(x) == Alive(target[x]) /\ <<x, target[x]>> \in Signals

CheckAlive(x) ==
  /\ stop[x] = "check" /\ Probes(x)
  /\ Await(x, "term")
  /\ UNCHANGED <<starterVars, proxyVars, cleanVars, target>>

(* The pid is read no more: what it says while x waits does not matter.      *)
Forget(x) == target' = [target EXCEPT ![x] = None]

(* Nobody has the pid, or this user may not signal it: the files are stale. *)
FoundStale(x) ==
  /\ stop[x] = "check" /\ ~Probes(x)
  /\ Await(x, "clean") /\ Forget(x)
  /\ UNCHANGED <<starterVars, proxyVars, cleanVars>>

Term(x) ==
  /\ stop[x] = "term"
  /\ IF Alive(target[x]) THEN Signalled(target[x]) /\ Await(x, "watch")
                         ELSE Await(x, "done") /\ UNCHANGED <<at, pending, pidFile>>
  /\ Forget(x)
  /\ UNCHANGED <<starterVars, files, cleanVars>>

(* The process is gone, or has not gone within two seconds.                 *)
Watched(x) ==
  /\ stop[x] = "watch"
  /\ Await(x, "clean")
  /\ UNCHANGED <<starterVars, proxyVars, cleanVars, target>>

Stopped(x) ==
  /\ stop[x] = "clean" /\ left[x] = 0
  /\ Await(x, "done")
  /\ UNCHANGED <<starterVars, proxyVars, cleanVars, target>>

-----------------------------------------------------------------------------
Start(s) ==
  \/ Acquire(s) \/ Contend(s) \/ Sleep(s) \/ SeeStale(s) \/ Reclaim(s)
  \/ AlreadyRunning(s) \/ NotRunning(s) \/ SpawnDaemon(s)
  \/ Started(s) \/ GiveUp(s) \/ Drop(s)

Serve(p) ==
  \/ Daemonize(p) \/ Bind(p) \/ WriteLifecycle(p) \/ WriteMarker(p)
  \/ Fail(p) \/ Shutdown(p) \/ Cleanup(p) \/ Return(p)

StopStep(x) == \/ ReadPid(x) \/ CheckAlive(x) \/ FoundStale(x) \/ Term(x)
               \/ Watched(x) \/ Cleanup(x) \/ Stopped(x)

Next == \/ \E s \in Starters : Begin(s) \/ Start(s) \/ Interrupt(s)
        \/ Age
        \/ \E p \in Proxies : StartForeground(p) \/ Serve(p) \/ Kill(p)
        \/ \E x \in Stoppers : StopStep(x)

Spec == Init /\ [][Next]_vars

(* Processes are scheduled; nobody has to start, stop or interrupt one.     *)
FairSpec == /\ Spec
            /\ \A s \in Starters : WF_vars(Start(s))
            /\ \A p \in Proxies : WF_vars(Serve(p))

-----------------------------------------------------------------------------
(* Properties *)

(* Every variable keeps its type, a signal is pending only where there is a *)
(* handler for it, and one process at most listens on the port.             *)
TypeOK ==
  /\ lock \in [by : Starters \cup {None}, old : BOOLEAN]
  /\ lock.by = None => lock = NoLock
  /\ pc \in [Starters -> PcValue]
  /\ tries \in [Starters -> 0 .. MaxTries]
  /\ mine \in [Starters -> Daemons \cup {None}]
  /\ \A s \in Starters : /\ pc[s] = "wait" => mine[s] # None
                         /\ pc[s] \in {"idle", "mkdir", "stat", "reclaim"} => tries[s] > 0
  /\ answered \in [Starters -> Proxies \cup {None}]
  /\ at \in [Proxies -> At] /\ pending \subseteq Serving
  /\ left \in [Proxies \cup Stoppers -> 0 .. 2] /\ exposed \subseteq Daemons
  /\ pidFile \in [pid : Proxies \cup {None}, held : Daemons \cup {None}]
  /\ files \subseteq {"port", "tls"}
  /\ stop \in [Stoppers -> StopValue] /\ target \in [Stoppers -> Proxies \cup {None}]
  /\ \A x \in Stoppers : stop[x] \in {"check", "term"} => target[x] # None
  /\ \A p, q \in Bound : p = q

(* The startup lock does its work: two starters are never between the probe *)
(* and the drop at once, "serializing concurrent startup attempts"          *)
(* (daemon.rs:155).                                                         *)
StartExclusive ==
  \A s, t \in Starters : pc[s] \in InCS /\ pc[t] \in InCS => s = t

(* wait_for_proxy takes the answer of whatever nkl proxy has the port, so a *)
(* call that "started the proxy" (daemon.rs:157) may mean one that a user   *)
(* started, or a late daemon of a call that gave up, and not its own.  What *)
(* holds is that two calls never mean the same proxy: one that was there    *)
(* for an earlier call is found by the probe.                               *)
OneCallPerProxy ==
  \A s, t \in Starters : answered[s] # None /\ answered[s] = answered[t] => s = t

(* A daemon that serves is the one the pid file names, there is a port file, *)
(* and the marker tells its scheme, whatever proxies were stopped, killed or *)
(* failed before or are being started, if nobody has cleaned up since it     *)
(* daemonized.                                                              *)
ServingIsNamed ==
  \A p \in (Serving \cap Daemons) \ exposed :
    /\ pidFile.pid = p
    /\ files = {"port"} \cup {f \in {"tls"} : p \in Https}

(* A call of ensure_proxy_running returns, whatever becomes of its daemon.  *)
EveryStartReturns ==
  \A s \in Starters : pc[s] # "idle" ~> pc[s] \in {"done", "crashed"}
=============================================================================
