# nkl in TLA+

nkl gives local web apps stable hostnames: `nkl run` starts an app on a free
port and registers a route to it, a proxy daemon listens on one port and
forwards each request by its Host header and path to the app's port. This
directory holds TLA+ modules of its parts, the TLC instances that check them,
and TLAPS proofs. Paths below are relative to the repository.

## 1. The system

| part | source | state | operations | what makes it correct |
|---|---|---|---|---|
| route store | `src/routes.rs` | `routes.json`, `routes.lock/` | add_route, remove_route, load_routes | writers exclude one another; no live route or alias is lost; one route per hostname and prefix; errors release the lock; every call returns |
| route cache, poller | `src/proxy/server.rs` | `RouteCache` in the proxy, `last_mtime` | initial load, poll, reload | what the file says reaches the cache, and a torn read does not stay |
| matching, forwarding | `src/proxy/handler.rs`, `src/proxy/mod.rs` | none between requests; headers carry the hop count | find_route, strip, change_origin, loop check, forward | longest prefix; loops are cut, chains are not; every request is answered |
| websocket upgrade | `src/proxy/websocket.rs` | one connection | handshake, refusal, copying | nothing behind the head is lost; a refusal is passed on whole; the client is answered |
| nkl run | `src/run/mod.rs`, `src/run/framework.rs` | its route, the app's process group | port search, registration, spawn, readiness, signals, cleanup | the route is there while the app runs and gone after; the app does not outlive nkl; a run ends |
| proxy start and stop | `src/proxy/daemon.rs`, `src/proxy/server.rs` | `proxy.start.lock/`, `proxy.pid`, `proxy.port`, `proxy.tls`, `proxy.log` | ensure_proxy_running, daemonize, start_proxy, stop_proxy | one proxy; the files tell of the proxy that runs |
| logs | `src/proxy/daemon.rs` | position in `proxy.log` | show_logs | every line of the present log is shown once |
| certificates, SNI | `src/certs/` | CA, server and host certificates and keys, the resolver's cache | ensure_certs, resolve_for_hostname | key and certificate belong together and to the present CA; a client that asks for a name is answered |
| trust store | `src/certs/trust.rs` | the system's anchors and bundle | trust_ca, is_ca_trusted | what is reported as trusted is |
| hosts file | `src/hosts/mod.rs` | a marked block of `/etc/hosts` | sync, clean | nothing outside the block changes; the last sync takes |
| configuration | `src/config/mod.rs` | none | load, merge, resolve | a later layer wins key by key |
| status, command line | `src/status.rs`, `src/cli/` | none | find the state directory, read the lifecycle files | what status says is so |
| TLS server, discovery, pages, utilities, entry point, npx guard | rest of `src/` | none | reads and formatting | |

The parts meet in the state directory. `nkl run` and `nkl alias` processes write
`routes.json` under the lock; the proxy polls its mtime and reads it without
the lock; the proxy and the commands that start and stop it share the lifecycle
files. Requests reach apps through the cache. There are no callbacks; the
concurrency is that of processes sharing files, of the poller and the
connections inside the proxy, and of signals. What is hard is the order in which
processes make their system calls, crashes between two of them, stalls longer
than a lock's threshold, and signals before their handlers. `PROJECT.json`
lists these places line by line under "hazards".

## 2. The plan

| order | module | models | state of it |
|---|---|---|---|
| 1 | `RouteTable` | the abstract store: a table that changes atomically | done |
| 2 | `RouteStore` | routes.rs, one action per system call; implements `RouteTable` | done |
| 3 | `RouteCache` | the poller beside `RouteStore` | done |
| 4 | `RouteCacheProofs` | the store's types, lock and file safety, the refinement of `RouteTable`; the poller; eleven theorems | done |
| 5 | `RouteMatching`, `Forwarding` | find_route; requests through chains and loops | done |
| 6 | `RunApp`, `RunAppProofs` | nkl run over `RouteTable`; two theorems | done |
| 7 | `ProxyLifecycle`, `ProxyLifecycleProofs` | the startup lock, the daemon, the lifecycle files, stop; four theorems | done |
| 8 | `Certificates`, `CertificatesProofs` | ensure_certs, the resolver up to its lock and `nkl trust`, with removed files and crashes between any two system calls; four theorems | done |
| 9 | `UpgradeHandshake`, `HandlerProofs` | one upgrade, read by read; three theorems, and four of `RouteMatching` and `Forwarding` | done |
| 10 | `HostsFile`, `HostsFileProofs` | the block algorithm on lines, and two processes that use it; two theorems | done |
| 11 | `ProxyLogs`, `ProxyLogsProofs` | show_logs beside the daemons that write; two theorems | done |
| 12 | `ConfigLayers` | load_config | done |
| 13 | `ProxyCommands`, `ProxyCommandsProofs` | the commands with their configurations, several state directories and ports; status; the merge laws; three theorems | done |
| next | | an abstract lock, which the route store's and the startup lock both implement without crashes and stalls; an abstract cache, which the poller's implements | open |

Abstract specifications: `RouteTable` for the store, which `RunApp` uses as its
interface, and the definition `ByPriority` for the configuration, which
`LoadConfig` is proved to compute.

## 3. The modules

### RouteTable and RouteStore

`RouteTable` is what `routes.rs` promises: `add_route` and `remove_route` as
single steps on a set of routes, the conflict rule, and the pruning of routes
whose owner is dead, which any change may do.

`RouteStore` is the code. `pc[p]` is the system call a process is at:

| pc | the code is about to | actions |
|---|---|---|
| idle | call add_route or remove_route | Begin |
| mkdir | `fs::create_dir(lock_path)` (183) | Acquire, Contend |
| stat | `fs::metadata(lock_path)` (191) | Sleep, SeeStale |
| reclaim | `remove_dir_all(lock_path)` (198) | Reclaim |
| load | `load_routes` (116, 158) | Load |
| check | the conflict test, then `File::create` inside `fs::write` (118-176) | Refuse, Truncate |
| write | `write_all` inside `fs::write` (176) | WriteBody |
| saved, failed | the drop of `LockGuard` (219) | Release |

`lock` records who made the directory, which the code does not know, and whether
its mtime is past the threshold of 10 s. That can only happen to a lock whose
maker is dead, or ("stall") was held up that long in what takes milliseconds.
`file` is absent, empty (truncated), garbled, or a JSON list; the last but one
arises when a write fails half way or two writers meet. A path prefix is its
segments and the number of slashes after them, so that `Norm` can do what
`normalize_path_prefix` does, take off one slash. The list is a set: the order of
the entries matters to the proxy (see `RouteMatching`) and to nothing here.
`Faults` selects what may go wrong: crashes inside the critical section, stalls,
failing system calls. `Signals` is the set of pairs for which `kill(q, 0)`
succeeds while q runs. A process dies for good and pids are not used again.

`Request` is what a call does to the list; `AddRequest`, `RemoveRequest`,
`RemoveHostRequest` and `AliasRemoveRequest` build it from arguments as
`add_route`, `remove_route` and the alias command do.

### RouteCache

Adds the proxy to `RouteStore`: `Start` is the initial load (server.rs:127),
`Watch` the first line of the poller's task (78), `Poll`, `Read` and `Store` one
turn of its loop (83, 85, 90-92), `Stop` a signal or a crash. `mtime` is that of
the file; a change may fall within the tick of the one before it and keep the
mtime (`Touch`), as on a file system with a coarse clock. `Reads` is what
`load_routes_from_disk` returns: the parsed list, or, where the disk fails, an
empty one, since it ends in `unwrap_or_default` (63). `Stats` likewise has no
mtime where the stat fails.

`missed` is a history variable, which no action reads: why the list that was
read last may not be the file's, although no poll will look again. "error" is a
read that failed, "start" a change between the initial load and the poller's
first stat, "tick" a change after the read that keeps the mtime seen before it.

### RouteMatching and Forwarding

`RouteMatching` has the pure part of the handler over sequences of labels and
segments. `Forwarding` follows one request: `legs` is the request as each proxy
and app on its way received it. `Forward` builds the request of the next leg as
both `build_forwarded_request` and `build_raw_upgrade_request` do: the copied
headers come first and the new `x-nkl-hops` after them, so that `hops` is a
sequence, of which `extract_hops` reads the first value. The definitions of
`Forwarding` that every module has (`FwdInit`, `FwdNext`, `FwdSpec`, `FwdTypeOK`)
have a prefix, because `HandlerProofs` extends it together with
`UpgradeHandshake`.

### RunApp

`at[p]` follows `run_app` and `spawn_command`. The store is taken at its word:
`AddRoute` and `Cleanup` are the actions of `RouteTable`, which `RouteStore` is
checked to implement. `Waited` exits the process at once if the app's status is
not 0, as `propagate_exit_status` does; `Signal` ends nkl before the handlers
are installed and is forwarded after. "abandon" is the way to the cleanup
before the handlers, "cleanup" the one after. `AddAlias` and `RemoveAlias` are
`nkl alias`; a removal with no `--path` removes the hostname (`Removals`).

### ProxyLifecycle

The proxy of one port, from both sides. `pc[s]` is where a call of
`ensure_proxy_running` is: at the startup lock ("mkdir", "stat", "reclaim", as
in `RouteStore`, with a threshold of 15 s), then "probe", "spawn", "wait" and
"drop", the drop of `StartupLock`. `mine[s]` is the daemon the call
spawned, and `answered[s]` the proxy whose answer made it return `Ok(true)`, which
may be another's. `at[p]` is where a proxy is: "launch" is the child
that runs `proxy start --daemonize` before `Daemonize::start`, "bind" the start
of `start_proxy`, where a foreground proxy begins; then "bound", "named" (after
`write_lifecycle_files`), "serve" (after `write_tls_marker`), "clean", "over".
`stop[x]` follows `stop_proxy` from the pid it read in `target[x]` to the
cleanup.

`pidFile` is the file at the path: the pid in it, and the daemon that holds an
flock on it. The flock is taken by the external crate `daemonize`, which opens
the file, locks it without waiting and writes the pid; `fs::write` on the same
path later keeps the file and the lock, an unlink takes the path from it. That a
daemon keeps the lock until it ends is an assumption on that crate.

The probe has no timeout: a listener that does not accept yet, or no more,
keeps it waiting until it does or is gone, so `NotRunning` and `GiveUp` need a
port on which nobody listens. `Cleanup` is `cleanup_lifecycle_files`, which
`start_proxy` calls twice, in the branch of its signal and behind the `select!`;
`left` counts the calls still to come. `exposed` is a
history variable, which no action reads. `Signals` says which proxy a stopper may
signal. A daemon has no terminal and is ended by `stop_proxy` or by force. `Fail`
ends a proxy anywhere before it serves, whether the port is taken, a file cannot
be written or the runtime does not start. "slow" in `Faults` lets the twenty
attempts pass before a live daemon is at its bind.

### Certificates

`key[f]` and `cert[f]` are the two files of each pair, the CA's and the server's.
A file is absent (`None`), truncated (`Torn`) or whole; a certificate is the
number of the key it is for and of the key that signed it. `todo[p]` holds the
system calls that a `generate_*` function has left, two for each file, because
`File::create` and `fs::write` truncate before they write. `Start`, `EnsureCa`
and `EnsureServer` are the steps of `ensure_certs` in the proxy and in a run of
`nkl trust`. A user may `Remove` any of the four files, though not while one is
being written; `Expire` brings a certificate's end within the buffer of 7 days.

Three history variables record how a pair may come to be mixed. No lock keeps two
processes apart: `raced` says that two generated at once. `died` says that a call
of `ensure_certs` was cut short, by the process or by a failing write. `over` has
the pairs whose last generation began over a certificate that still counted as
valid, because its key was gone or the CA is new, and has not come to its end.

A handshake is `conn[c]`, and `Hello` is the client's. Without a name, or with
one that is not looked up, it is given the default key. With a name it is "lost":
the resolver's cache is behind a `blocking_lock` (sni.rs:103), which panics on a
worker of the tokio runtime, and that is where every handshake of the proxy runs
(server.rs:209). What is behind the lock, the cache and the certificates of
hostnames, cannot be reached and is not modelled.

`nkl trust` compares the anchor with the CA,
copies it and updates the system's bundle; a copy that fails may leave the old
file, or one that is no certificate. So may a copy made while another process
writes the CA: it is reported as installed all the same, and `TrustIsReal` is
therefore about CAs that are certificates, where the anchor is looked up as it is
installed (`Recognised`) and no system call has failed.

### HostsFile

A file is the sequence of its lines, and what matters of a line is whether it
is a marker, blank, an entry for a hostname, or something else. `RemoveBlock`,
`WithBlock`, `HasBlock` and `Managed` are the functions of the same names. What a
filter of lines keeps is `Kept`, given by the indices kept, without recursion. The
actions are the system calls: `Create` and `Write` of the temporary file,
`Rename`, and when that fails `Truncate` and `Write` of the hosts file itself.
`fd[p]` is the file a process has open: a rename takes the open file with it,
so that a second process's text may land in the hosts file from its beginning
over what is there (`Over`). `mounted` is a file that cannot be renamed over, as
`/etc/hosts` in a container. `most` is the number of commands that ran at once.

### UpgradeHandshake

One upgrade from the connection to the app to the end of the pipe. What the
app sends are numbered units, of which `head` are the head; a read takes any
number of those that have arrived, up to `Chunk`. `Refused` and `Drain` are the
way of an answer other than 101, `Upgraded`, `Extra` and the pipe that of a
101. `Panic` is the `unwrap()` of a response built from headers that hyper does
not accept. The request's host, path and hop count are those of `Forwarding`.

### ProxyLogs

`show_logs` with and without `-f` and `-n`, beside daemons that truncate the
log when they are started and write to it where they left off. They have no
appending writer: `main.rs` installs a subscriber before `daemon.rs` tries to,
whose `try_init` then fails and is ignored, so that a daemon writes through its
redirected stdout, at an offset of its own. After another truncation that
leaves a hole. `grown` records that since the reader began the file has done
nothing but grow.

### ConfigLayers and ProxyCommands

`ConfigLayers` is pure: `Merge`, `WithEnv`, `Resolve` and `WithFlags` over
sections of keys, as in `config/mod.rs`, and `ByPriority`, the documented order
of the layers for one key.

`ProxyCommands` has the commands that start, stop and look for proxies. `Begin`
loads the configuration from the files found from a working directory. A start
spawns a child with the port and https on its command line, which loads the
rest again (`Daemon`). Each state directory has its lifecycle files, and the
directory follows from the configuration, so that commands with different flags
look at different files. `nkl status` reads no configuration file but looks at
`NKL_STATE_DIR`, `~/.nkl` and `/tmp/nkl` (`FindByEnv`, `LookUser`, `LookSys`)
and reads the pid again for its answer (`Report`). A pid is given to another
process once its proxy has gone (`Reuse`). How two starts of one port meet is
`ProxyLifecycle`'s; here a start that binds is one step. A start that fails
leaves what it had written by then (`Leftovers`): nothing, the pid, the pid and
the port, or all of the files, the one whose write failed possibly empty.

## 4. The runs

All instances use model values for processes, hosts, segments, ports and values.

| run | instance | checks |
|---|---|---|
| `RouteStore_safe` | a run and two users of aliases, 2 requests each, any of them dying between requests, no faults inside | `TypeOK`, `MutualExclusion`, `SuccessIsStored`, `AliasesPersist`, `NoLiveRouteLost`, `OverrideNeedsForce`, `AtomicTable` |
| `RouteStore_faults` | two runs, one of which may force, 2 requests each, all faults | `NoLeakedLock`, `UniqueSlots`, `EveryRequestReturns` |
| `RouteCache_poller` | a run, a user of aliases, a proxy started twice, crashes, calls that fail, any number of changes in one tick of the clock | `CacheTypeOK`, `NeverMasksAChange`, `ChangeIsPickedUp` |
| `Forwarding_one` | every pair of routes of one proxy, to an app, itself or a second proxy, max_hops 1, clients with no count, 0, 1 or nonsense | `FwdTypeOK`, `NoFalseLoop`, `EveryRequestAnswered` |
| `Forwarding_loop` | a proxy that leads to itself, max_hops 2 | `LoopIsCut` is violated |
| `RunApp_one` | two runs of one hostname, one with a configured port, and an alias below it | `RouteWhileRunning`, `OneRunPerHost`, `RunEnds` |
| `ProxyLifecycle_start` | two starters, two daemons, one with https, a foreground proxy, a stopper that may signal all but one daemon; starters crash and proxies are killed | `TypeOK`, `StartExclusive`, `OneCallPerProxy`, `ServingIsNamed`, `EveryStartReturns` |
| `Certificates_one` | a proxy, a handshake, a run of `nkl trust`, 4 key pairs, one expiry, one removed file, one crash or failing call anywhere | `CertTypeOK`, `WholePairs`, `ServerChains`, `TrustIsReal` |
| `HostsFile_two` | two processes, 4 commands, a fresh hosts file, one with a block in the middle, an empty one; mounted or not; any process dies anywhere | `OutsideKept`, `LastSyncTakes` |
| `UpgradeHandshake_one` | heads of 1, 3, 4 and 6 units at a limit of 3 and reads of 2, bodies of 0, 2 and 3 | `UpgradeTypeOK`, `NothingLost`, `RefusalWhole`, `UpgradeAnswered` |
| `ProxyLogs_follow` | three daemons of two lines each, all or the last line first | `NothingSkipped`, `NoLineTwice`, `CatchesUp` |
| `ProxyCommands_status` | two processes, two proxies, 3 commands, 3 state directories, two working directories, 12 combinations of files, 3 environments, 3 command lines | `StatusTellsTruth`, `PriorityByKey` |

What each shows is under "about" in `PROJECT.json`.

Bounds. `MaxTries` stands for the 20 turns of the lock's loop: with 2 a process
can meet a lock, find it stale, remove it and acquire, or run out of turns,
which is all a turn can do. `MaxOps` is 2 in the two runs of the store, so that
a request meets the outcome of an earlier one of the same process. Two
processes are enough for every overlap of two; three are used where a third has
to hold, leave or take the lock while two wait. `MaxTrail` is 1: with 2 the
prefix `/api//` comes in and `UniqueSlots` fails (see below). `MaxPasses` is 6, past where a loop must be
cut; `MaxStarts` 2 lets a proxy restart over a file it has seen. In
`ProxyLifecycle_start` the second daemon is the one that meets the lock of the
first, its files or its port; the foreground proxy is the third party that
takes no lock. With two starters a lock left by a crash is reclaimed by the
other, which is why `StartExclusive` holds there; it takes a third starter or a
stall to violate it, and the theorem's assumption excludes both.

In `Certificates_one` four key pairs let the CA and the server each have one
and both be replaced, after one expired, was half written or lost a file; the
renewal of both is what leaves a pair half made over a valid certificate. In
`HostsFile_two` four commands let a third and a fourth run on what two at once
have left. In `UpgradeHandshake_one` a head is
below the limit, at it, past it within the read that completes it, and past it
for good. In `ProxyLogs_follow` the log of the third daemon may grow past the
position the reader had in the first's. In `ProxyCommands_status` a third
command looks at what two others did, one of which may have been in another
directory.

Fairness. Each running process takes its next system call (`WF` of `Step(p)`);
nobody has to make a request, fail, die or stall. The poller's timer fires and
its task gets the cache's lock; tokio's lock is fair and held for one
assignment. In `Forwarding` a proxy and an app get on with the request they
have. In `RunApp` nkl is scheduled, and an app that has been sent a SIGTERM by
nkl exits; an app that ignores it would keep nkl waiting, and no fairness is
assumed of an app that was not signalled. In `ProxyLifecycle` the starters that
have begun and the proxies that were launched are scheduled; nobody has to
start, stop, interrupt or kill one, so a starter must return without help. In
`UpgradeHandshake` the proxy reads what has arrived and the timer of the drain
fires; nothing is asked of the app or the client, so `UpgradeAnswered` says
what the client may expect once the app has answered or its connection has
ended. In `ProxyLogs` the follower wakes from every sleep.

`CHECK_DEADLOCK` is off: requests, restarts, runs, key pairs and lines are
bounded, so every instance comes to rest.

## 5. What the models show besides

`Forwarding_loop` is a violation: the hop count is appended and the first value
read, so it never exceeds 1 (or what the client sent). Loops are cut only for
`max_hops` of 1 or less, which is why `Forwarding_one` has 1. The default is 5.
`LoopNeverCut` (section 6) proves it for every `max_hops` above 1, any number of
proxies and any routes: no request that came without a count is ever refused.

Elsewhere, too, the models contain behaviours of the code that contradict what
the repository says of it, or that a reader may not expect. The properties are
stated beside them, with the condition that excludes them, or the instances keep
clear of them.

Against the repository's own words:

- "Match the route by exact hostname and longest path prefix"
  (architecture.md:97): `find_route` also takes routes of parent domains and sorts
  by the length of the prefix only, so that a parent's route that is listed
  first, or has the longer prefix, wins over one of the very hostname.
- The route file is "protected by directory-based file locking"
  (architecture.md:17): a stale lock is looked at and removed in two steps
  (routes.rs:191-198). Two waiters look, the first removes it and acquires, the
  second removes the first's lock and acquires too. It takes three writers and a
  crash, or a stall. The startup lock, "serializing concurrent startup attempts"
  (daemon.rs:155), can be stolen in the same way (daemon.rs:64).
- "Route state is persisted in `routes.json`" (architecture.md:17): the save
  truncates before it writes, and a crash in between empties the store. Nothing
  brings an alias back.
- "Check if a process is alive by sending signal 0" (routes.rs:223): `kill(pid, 0)`
  refused with EPERM counts as dead. With `Signals` less than everybody
  `NoLiveRouteLost` fails, as for processes of root and of a user in the directory
  "shared between root and user" (utils/mod.rs:14).
- "When the mtime changes [...], the task reloads routes into the shared cache"
  (server.rs:72-74): a change within the tick of the mtime seen before the last
  read, as of a write after its truncation, is never reloaded.
- "Returns `Ok(true)` if this call started the proxy" (daemon.rs:157):
  `wait_for_proxy` takes the answer of any nkl proxy. A user may have started one
  in the foreground between the probe and the bind of the call's own daemon, which
  then fails; the call returns `Ok(true)`. `OneCallPerProxy` is what remains: the
  proxy that answers is one that no other call has reported.
- "Ensure that both CA and server certificates exist and are valid"
  (certs/mod.rs:86): a process that renews a pair over a certificate that is still
  valid, because only the key was gone (98) or the CA is new, and dies after it
  has truncated the key, leaves a pair that passes and is none. Nothing makes it
  again. This is `over`, which `WholePairs` excepts.
- "Generate and cache per-hostname certificates via SNI" (architecture.md:106):
  `blocking_lock` panics on a worker of the runtime (sni.rs:103), so that a
  handshake that asks for a name other than localhost is lost (`Hello`).

Routes and runs:

- A guard that was held up past the threshold removes, when it is dropped, the
  lock of the process that took over (routes.rs:219).
- The proxy's initial load and the poller's first look at the mtime are two
  steps of two tasks. What is saved between them is not seen until the next save.
- A read of the route file that fails is stored as an empty list under the
  present mtime (server.rs:63, 90-92), and stays until the next save.
- A prefix with two trailing slashes is stored as one with one, which does not
  compare equal to itself (`MaxTrail = 2`; `TidyMenu` is the assumption that
  excludes it in the proof).
- An alias replaces an alias without `--force`: both have pid 0.
- An app that does not exit with 0, which includes every app ended by a Ctrl+C
  that it does not handle, takes nkl with it past the cleanup (run/mod.rs:231).
  Readers hide the entry, as its pid is dead, and the next save prunes it.
- Between the spawn and the end of the readiness check Ctrl+C ends nkl, and the
  app, in a process group of its own, lives on (run/mod.rs:194).
- A run that was forced over removes, at its end, the route of the run that
  forced it and the aliases of the hostname; so does `nkl alias NAME --remove`
  to a run. `Uncontested` in `RunApp` is the condition under which a run keeps
  its route.
- A port found free is let go before the app binds it; two runs can be given
  the same one.

Proxies:

- A daemon writes its pid when it daemonizes, before it binds. If a proxy in the
  foreground has the port, the daemon fails there and leaves the file with its
  own pid, so that `nkl proxy stop` no longer finds the proxy that serves. This
  is why `ServingIsNamed` speaks of daemons. A proxy in the foreground on
  another port overwrites a daemon's files.
- A proxy on its way out removes the pid file on which a daemon just being
  started has its flock; the daemon goes on without a name for its file until it
  writes its own, and a further daemon comes past `Daemonize`. `stop_proxy`
  cleans up after the process is gone, when a new proxy may have written its
  files. This is what `exposed` records, the daemons that ran at the last cleanup.
- `stop_proxy` has a message for EPERM ("Try: sudo nkl proxy stop",
  daemon.rs:240-245), but a `kill(pid, 0)` that is refused is taken for a dead
  process before (229-236), so that the message does not appear and the files of
  the running proxy are removed.
- A pid that the system has given to another process is reported as the proxy's
  (`StatusTellsTruth` excepts it) and signalled by stop.
- `nkl status` does not read `[paths] state_dir` of the configuration files
  (status.rs:92), and `nkl proxy stop` and `logs` know nothing of a `--port`
  given to start, so they may look into another directory.
- The log is truncated before it is certain that the daemon starts, and what a
  daemon that runs writes after that is behind a hole. A log that was truncated
  and has grown past the reader's position is followed from the middle. A
  follower ends with an error if the file shrinks between its length and the
  read (`ReadFails`).
- An upgrade has no timeout: a client waits as long as the app sends nothing. A
  header hyper does not accept ends the connection by a panic
  (websocket.rs:252, 275). A body that pauses for 100 ms is cut off.

Certificates, trust and hosts:

- The doc of `write_key_file` says "atomically" (certs/mod.rs:199); it truncates
  and then writes. Where a pair is made because its certificate is missing or
  ending this does no harm, since the certificate is written last and is what
  makes a pair pass for whole.
- A crash between `generate_ca` and `generate_server_cert` leaves the server's
  certificate of the former CA, which later calls find valid and keep
  (certs/mod.rs:98-109): `ServerChains` excepts calls that were cut short.
- Two processes that generate at once may mix their files, also of the CA: hence
  `raced`.
- If the anchor was copied and the update of the bundle failed, the next
  `nkl trust` says it is already trusted. On Arch it never says so, as it looks
  where nothing is installed (`Recognised`).
- `nkl trust` beside another process that makes the CA may copy a truncated
  file and say it installed it (trust.rs:153-225 reads the path, not what
  ensure_certs made).
- `write_hosts_atomic` truncates the hosts file itself when the rename fails
  (hosts/mod.rs:153). `OutsideKept` therefore distinguishes mounted files; a
  crash there loses lines that are not nkl's.
- Three commands at once, or two over a mount, can lose lines outside the block;
  so can a start marker without an end marker (no command of nkl writes one), and
  an edit by somebody else between the read and the rename.

## 6. The proofs

`RouteCacheProofs` proves of the store, for every set of processes, hosts, segments, ports,
requests and every bound:

| theorem | assumes | states |
|---|---|---|
| `Typing` | the named assumptions of `RouteStore` | `TypeOK` |
| `LockNotLeaked` | nothing more: all faults | `NoLeakedLock` |
| `LockExcludes` | neither crashes inside nor stalls | `MutualExclusion` |
| `OneRoutePerSlot` | `TidyMenu`; all faults | `UniqueSlots` |
| `SuccessStored` | neither crashes inside nor stalls | `SuccessIsStored` |
| `LiveRoutesKept` | the same, and everybody may signal everybody | `NoLiveRouteLost` |
| `OverrideForced` | the same, and `Commands` | `OverrideNeedsForce` |
| `AliasesKept` | no faults | `AliasesPersist` |
| `StoreIsTable` | no faults, everybody may signal everybody, `Commands` | `AtomicTable` |

The argument. Without crashes and stalls no lock ever ages, so no process is at
"reclaim", and the process inside is the one the lock names: that is the
inductive invariant of `LockExcludes` (a process inside implies that the lock is
there and its own). It is stronger than mutual exclusion, which says nothing of
who made the lock and so would not survive a release. On top of it, a process
between its load and its truncation holds exactly the file's list less the
entries it found dead, as nobody else writes; this is the invariant of
`LiveRoutesKept`, where a dead owner stays dead. `OneRoutePerSlot` needs no
exclusion at all: every list in memory, and so every list written, has one
entry per slot, because the retain takes out all that compare equal to the
entry pushed. That is why it survives every fault, and why it depends on
`TidyMenu`. `NoLeakedLock` is inductive with typing, and looks at one process
only.

`Commands` says that the requests are those the commands of nkl make, that no
prefix ends in two slashes, and that the file at first was written by nkl; it
implies `TidyMenu`. `AliasesKept` and `StoreIsTable` rest on `TableStep`: of all steps
only a truncation changes the table, from what the file says to the list about to
be saved, since whoever truncates is alone inside. For the refinement each
truncation must then be one step of `RouteTable`. The list read is part of the
file (`ReadFromFile`) and what it lacks belongs to the dead (`InStep`), which is
what `RouteTable` calls pruning. All stored keys are normal forms (`AllPlain`), so
that the slot a request drops is the one key `RouteTable` drops. And the guard,
which looks at the first match, sees the only one there is (`UniqueSlots`), which
is also what `OverrideForced` needs. With `Faults` = {"disk"} `AtomicTable`
would not hold, as a write that fails leaves an empty file.

And it adds the poller to that, for any writers and faults:

| theorem | assumes | states |
|---|---|---|
| `CacheTyping` | the named assumptions | `CacheTypeOK` |
| `NoChangeMasked` | the proxy may signal everybody | `NeverMasksAChange` |

The argument. The proxy's steps leave the store alone, so the theorems of the
store hold beside it (`StoreBeneath`). A read that does not fail shows the file
(`ReadsShow`), and a list that showed the file goes on to while the file stays
the same, as owners can only die (`ShowsStays`), which the property allows. From
the initial load to the first stat every change is recorded (`FirstList`, which
the property does not say). After a read a change either takes a new mtime, and
then the one the list is filed under is not the file's, or keeps it and is
recorded. So there are three ways round it and no others, whatever fails and
whoever writes; each of them happens in the code (section 5).

`RunAppProofs`, for any runs, hostnames, ports and users of aliases:

| theorem | assumes | states |
|---|---|---|
| `RouteKept` | `RunAssumption` | `RouteWhileRunning` |
| `HostsHaveOneRun` | the same | `OneRunPerHost` |

The argument. The two need each other, and more than either says: the cleanup of a
run takes every route of its hostname, so the route of a run stays only if no
other run of the hostname is anywhere between its registration and its
cleanup (`OneRegistered`), which is so because the registration of that other
run finds the route of a running process and is refused (`AddOwnKeeps`). As
`RunApp` is built on `RouteTable`, `StoreIsTable` is what carries both to the file
with its lock.

`ProxyLifecycleProofs` proves, for every set of starters, stoppers, daemons and
foreground proxies:

| theorem | assumes | states |
|---|---|---|
| `LifecycleTyping` | `LifecycleAssumption`; all faults | `TypeOK`, with it that one process at most listens |
| `StartersExclude` | no starter dies or stalls with the lock | `StartExclusive` |
| `OneCallStartsIt` | the same | `OneCallPerProxy` |
| `DaemonsAreNamed` | `LifecycleAssumption`; all faults | `ServingIsNamed` |

The argument. `Exclusive` is the counterpart of the lock's invariant above.
`OneCallPerProxy` needs to look back: a call that probes and is refused has seen
that nobody listens, so every proxy an earlier call reported is over by then, and
as a proxy that has served never serves again it cannot be the one that answers
this call. `Reported` says just that of the time between the probe and the answer,
during which the lock keeps other calls from reporting; `Onward` is the lemma on
proxies it needs. `Named` explains the files without any lock of nkl's: from
its start to its shutdown a daemon has the flock of the file at the path, so no
other daemon comes past `Daemonize`, and from its bind on nobody else
writes, because `write_lifecycle_files` comes after the bind. The only others
that touch the files are cleanups, which the property excepts.

`ProxyCommandsProofs` proves, for every set of keys,
sections and values, every content of the files, environment and command line,
and any number of processes, proxies and directories:

| theorem | assumes | states |
|---|---|---|
| `LayersByPriority` | `ConfigAssumption` | what `load_config` and the flags give a key is `ByPriority` |
| `KeysByPriority` | and `CommandsAssumption` | `PriorityByKey` |
| `StatusIsTrue` | the same | `StatusTellsTruth` |

The argument. A merged section says of a key what the later one says, or else
the earlier: `Get` of a merge is the `Or` of two `Get`s, whether or not either
section is there, and the environment and the defaults likewise; the files,
environment and flags then follow one another in five steps. `StatusIsTrue`
rests on an invariant in three parts. *Marked*: where the pid file of a
directory names a proxy that is up, it is one that serves from there and the
port and the marker beside it are that proxy's. This takes that a start that
succeeds writes all of the files and no stop removes some, and that a start that
fails leaves them as they were or with its own pid or none (`Remains`), of which
the first is no proxy that is up. *LooksRight*: what a status
that was not disturbed has found is what is there. *Truth* then is the property
of the report. The typing invariant carries that a process that is at "loaded"
holds what `Load` gives it, since the state directory is taken from there.

`HandlerProofs`, for any proxies, apps, routes, requests and limits, and for heads,
bodies and reads of any size:

| theorem | assumes | states |
|---|---|---|
| `FirstOfTheSort` | a longer path has a longer text | the first of the candidates in the code's sort is `FindRoute`'s route |
| `ForwardTyping` | `ForwardingAssumption` | `FwdTypeOK` |
| `NoFalseAlarm` | the same | `NoFalseLoop` |
| `LoopNeverCut` | and `MaxHops >= 2`, no request comes with a count | a reply is never 508 |
| `UpgradeTyping` | `UpgradeAssumption` | `UpgradeTypeOK` |
| `TunnelComplete` | the same | `NothingLost` |
| `RefusalComplete` | the same | `RefusalWhole` |

The argument for requests. `find_route` sorts the routes that match by the length
of the prefix's text, longest first and stably (handler.rs:58), whereas
`FindRoute` compares the number of segments, as if the longest text had the
most. A route may well have a longer text and fewer segments than another, but not
if both match: of two prefixes of one path one is a prefix of the other
(`PrefixesNest`), so longer in either sense is longer in both.
`FirstOfTheSort` says that the head of any sorted list of the candidates is
then the one that `FindRoute` names.

The invariant of `Forwarding` is that every leg but the first ends in a count of
its proxy's, and that behind a request without a count the first value of every
leg is 1 (`CountStays`), because `Append` does not change the head of what is
not empty. So the count that is read at the n-th proxy is 0 at the first and 1
after (`CountRead`). A refusal needs a count of `MaxHops`: for `MaxHops` of 1
there are then two legs at least, for 0 there is one, which is `NoFalseLoop`,
and for more there is no refusal, which is `LoopNeverCut`. `Forwarding_one` has
`MaxHops` of 1; `LoopNeverCut` is about the values above, the default among
them.

The argument for upgrades. What the proxy holds followed by what is on the wire
is, at every moment, the part of the app's text that was sent, counted from the
first byte until the head is cut off and from the byte behind it from then on,
and in the tunnel with what the client was given in front (`Ordered`). Each read
moves the line between the two, and each send of the app makes the part longer;
the lemmas on sequences at the head of the module say just that. `Sized` bounds
the head, `Fresh` says that nothing is held before the first read, and `Decided`
records with which body a refusal was passed on.

`CertificatesProofs`, for any processes, connections and bounds, and whatever
dies, fails, expires or is removed:

| theorem | assumes | states |
|---|---|---|
| `CertTyping` | `CertificatesAssumption`, `MarksAssumption` | `CertTypeOK` |
| `PairsAreWhole` | the same | `WholePairs` |
| `ServerIsSigned` | the same | `ServerChains` |
| `TrustIsTrue` | the same | `TrustIsReal` |

The argument. As long as a pair is being made, its certificate does not pass for
valid until the last of the four calls, or it is one that was valid when the
generation began, which `over` records; and from the last call but one the key
is the one it is for (`Progress`). This needs that nobody else writes the pair
meanwhile (`OneGenerates`). So wherever a writer stops, what it leaves is whole,
or made again, or in `over`; and a removed file takes its pair out of what
passes for whole. `over` is emptied only by the last call, with the certificate
of the key that is there.

The last two have an invariant of their own on top of that. A process sees to
the CA first and to the server's certificate then (`Placed`). As long as no call
was cut short and no two generated at once (`InOrder`), the CA is a pair, lacks a
file (`Gone`) or is being made; and the server's certificate is signed by it or
missing, or is being
made by somebody who holds the present CA's key, or a process that has just
replaced the CA is on its way to it. It is the last of these that the property
alone does not say: `EnsureServer` makes a new certificate though the old one is
valid, because the call made a new CA. `TrustIsReal` compares what was reported
once with what is there later, so it needs that a CA never comes back: every CA
that was ever seen, by the anchor, by a report or by the file, has a key made
before, and one being written is none of these and is written by one process
(`Fresh`). Hence the CA that was reported, if it is the CA still, is the anchor
(`Anchored`), and an anchor is in the bundle unless its update is under way or
failed (`Updated`).

`HostsFileProofs`, for any processes, hostnames, hosts files and numbers of
commands:

| theorem | assumes | states |
|---|---|---|
| `OutsideIsKept` | `HostsAssumption` | `OutsideKept` |
| `SyncIsTaken` | and `AllClosed`: every hosts file there may be at first has an end marker or no start marker | `LastSyncTakes` |

The argument. The first half is about the algorithm: the lines `Kept` returns
are lines of the text, and adjacent indices keep an interval of it; so
`RemoveBlock` leaves no marker and changes nothing where there is none, and the
block `WithBlock` appends comes off again and leaves what was before it, of
which the outside is the text less its trailing blank lines. What every command
writes (`ContentIs`) is then a text with the same outside, which lists its job.

The second half is about the system calls. One command at a time (`Alone`) has
its whole text in the temporary file before the rename, so the hosts file is
good at every moment. Two at once may share the temporary file, and the
invariant (`TwoAtOnce`) tells two situations apart: as long as none of them has
returned, both are before their rename and the hosts file is untouched
(`First`); and the one that is left when the other has returned or has not
opened anything writes over an empty file, or finds the temporary file gone and
rewrites the hosts file from its beginning (`LeftOver`). With three, a text can
land in the hosts file over a longer one. `SyncIsTaken` needs `AllClosed`, since
a clean looks for an end marker only and would leave a start marker that has
none; no command of nkl writes such a file. Its invariant is that between
commands the file fits the last job (`LastFits`).

`ProxyLogsProofs`, for any daemons, any number of lines and any `-n`:

| theorem | assumes | states |
|---|---|---|
| `NothingIsSkipped` | `LogsAssumption` | `NothingSkipped` |
| `LinesShownOnce` | the same | `NoLineTwice` |

The argument. `NothingSkipped` holds with the file's length as a bound: while it
only grows, what was printed is the interval from `first` to `pos`, and each read
appends the interval from there to the length polled (`PartOfLog`). `NoLineTwice`
is the harder one, since a truncation sets the position back to 0. Every line is
where its daemon's offset was when it was written, so a line has one place in any
log it is ever in (`InPlace`), whatever holes are before it. A line that was
printed is not written again (`Written`), and if it is in the file still then the file
is at least as long as the position and the line is before it
(`ShownIsBehind`): so a file that is shorter, and read from its beginning, has
none of the lines printed, and a file that is not is read from behind them. A
poll that set the position back and a read after another truncation are covered
by the same invariant.

What stays with TLC: liveness (`EveryRequestReturns`, `ChangeIsPickedUp`,
`EveryRequestAnswered`, `RunEnds`, `EveryStartReturns`, `UpgradeAnswered`,
`CatchesUp`), which is out of the prover's reach, and the counterexample of
`LoopIsCut`. Every safety property that a passing run checks has its theorem.

## 7. What is not modelled

Left out of the modules above: request and response bodies, the X-Forwarded-*
headers, the HTML of the error pages, `fix_ownership`, the number of
milliseconds of any wait, framework flags, and NKL=0, where nkl only runs the
command. Starting the proxy is one step of `RunApp` that may fail. In
`ProxyLifecycle` the two or three writes of `write_lifecycle_files`, and the
removals of `cleanup_lifecycle_files`, are one step, and the proxies all use the
one port of the state directory. In `ProxyCommands` the parsing of TOML is a
choice between absent, broken and a set of keys, the configuration files stay as they
are while commands run, and state directories are absolute. In `Certificates` a
certificate is its key and its signer; serial numbers and validity periods other
than "ends within the buffer" are left out. So are the certificates of hostnames
and the resolver's cache, because no handshake of the proxy gets past the lock in
front of them. In `RouteMatching` the length of a prefix is the number of its
segments, which `FirstOfTheSort` justifies.

Not modelled: the keychain of macOS and the detection of the Linux
distribution; the connection's first byte and TLS (libraries); discovery of
project names and git worktrees (reads only); the route list of `nkl status`,
`get`, `list` and `config`, pages and formatting (text); the npx guard (one
test of the environment).
