---------------------------- MODULE ProxyCommands ----------------------------
(* The commands that start, stop and look for proxies, each with the state    *)
(* directory that its own configuration says: src/cli/handler.rs,             *)
(* Config::resolve_state_dir of src/config/mod.rs, resolve_state_dir of       *)
(* src/utils/mod.rs and the discovery of src/status.rs.  How two starts of    *)
(* one port meet is the matter of ProxyLifecycle: here each is one step.      *)
EXTENDS ConfigLayers, FiniteSetsExt, Integers, Sequences

CONSTANTS
  Procs,      \* processes that run the commands
  Proxies,    \* processes that are proxies
  Place,      \* working directories,
  Up,         \* and for each the path from it to the root
  User, Sys,  \* ~/.nkl and /tmp/nkl
  Custom,     \* other state directories
  Privileged, \* the ports below 1024
  On,         \* the value of https that is not the default
  Contents,   \* what each configuration file may hold
  Envs,       \* what the environment may say
  Flags,      \* what a command line may say
  MaxRuns     \* bound: commands that are run

Layer == {"etc", "home"} \cup Place
Dir == {User, Sys} \cup Custom
Op == {"start", "foreground", "stop", "status"}

ASSUME CommandsAssumption ==
  /\ {"port", "https", "state_dir"} \subseteq Key /\ "state_dir" \in EnvKey
  /\ Contents \in [Layer -> SUBSET File] /\ Envs \subseteq Keys /\ Flags \subseteq Keys
  /\ Up \in [Place -> Seq(Place)] /\ None \notin Proxies
  /\ Default["port"] # None /\ Default["state_dir"] = None
  /\ \A l \in Layer : \A f \in Contents[l] : Says(f, "state_dir") \in Custom \cup {None}
  /\ \A e \in Envs : e["state_dir"] \in Custom \cup {None}
  /\ \A f \in Flags : f["state_dir"] = None

VARIABLES
  files, env,    \* the configuration files and the NKL_ variables, which stay
  at, op,        \* where a process is, and the command it runs,
  place, flags,  \* its working directory, and its command line
  config,        \* its Config
  found,         \* what status has found: a directory and the port there
  report,        \* the ProxyStatus it prints, None before
  calm,          \* history: no proxy has come or gone since it began
  life,          \* a proxy: "off", "up", "over", or its pid is another process's
  info,          \* the directory, port and scheme of a proxy that has started
  disk,          \* proxy.pid and who has a flock on it, proxy.port, proxy.tls
  runs           \* how many there have been

userVars == <<files, env>>
procVars == <<at, op, place, flags, config, found, report, runs>>
proxyVars == <<life, info, disk>>
vars == <<userVars, procVars, calm, proxyVars>>

NoFiles == [pid |-> None, held |-> None, port |-> None, https |-> FALSE]

Init ==
  /\ files \in {f \in [Layer -> UNION {Contents[l] : l \in Layer}] :
                  \A l \in Layer : f[l] \in Contents[l]}
  /\ env \in Envs
  /\ at = [p \in Procs |-> "idle"] /\ op = [p \in Procs |-> None]
  /\ place = [p \in Procs |-> None] /\ flags = [p \in Procs |-> NoKeys]
  /\ config = [p \in Procs |-> NoKeys] /\ found = [p \in Procs |-> None]
  /\ report = [p \in Procs |-> None] /\ calm = [p \in Procs |-> FALSE]
  /\ life = [q \in Proxies |-> "off"] /\ info = [q \in Proxies |-> None]
  /\ disk = [d \in Dir |-> NoFiles]
  /\ runs = 0

Goto(p, l) == at' = [at EXCEPT ![p] = l]

-----------------------------------------------------------------------------
(* Configuration *)

(* find_project_config: the nearest nkl.toml on the way up, good or bad.      *)
Project(w) ==
  LET some == {i \in DOMAIN Up[w] : files[Up[w][i]] # Missing}
  IN IF some = {} THEN Missing ELSE files[Up[w][Min(some)]]

(* config_file_paths and load_config, and the flags of the command.           *)
Load(w, f) == WithFlags(LoadConfig(files["etc"], files["home"], Project(w), env), f)

(* Config::resolve_state_dir *)
StateDir(c) ==
  CASE c["state_dir"] # None -> c["state_dir"]
    [] c["state_dir"] = None /\ c["port"] \in Privileged -> Sys
    [] OTHER -> User

(* Every command loads the configuration first.                               *)
Begin(p, o, w, f) ==
  /\ at[p] = "idle" /\ runs < MaxRuns
  /\ o \in {"stop", "status"} => f = NoKeys
  /\ runs' = runs + 1
  /\ op' = [op EXCEPT ![p] = o] /\ place' = [place EXCEPT ![p] = w]
  /\ flags' = [flags EXCEPT ![p] = f] /\ config' = [config EXCEPT ![p] = Load(w, f)]
  /\ found' = [found EXCEPT ![p] = None] /\ report' = [report EXCEPT ![p] = None]
  /\ calm' = [calm EXCEPT ![p] = TRUE]
  /\ Goto(p, "loaded")
  /\ UNCHANGED <<userVars, proxyVars>>

-----------------------------------------------------------------------------
(* Proxies *)

Stir == calm' = [p \in Procs |-> FALSE]

Answers(n) == \E q \in Proxies : life[q] = "up" /\ info[q].port = n

(* A process that is done, with what it leaves behind forgotten.              *)
Done(p) == /\ Goto(p, "idle") /\ op' = [op EXCEPT ![p] = None]
           /\ place' = [place EXCEPT ![p] = None] /\ flags' = [flags EXCEPT ![p] = NoKeys]
           /\ config' = [config EXCEPT ![p] = NoKeys] /\ found' = [found EXCEPT ![p] = None]

(* ensure_proxy_running: on its port somebody answers, *)
AlreadyRunning(p) ==
  /\ at[p] = "loaded" /\ op[p] = "start" /\ Answers(config[p]["port"])
  /\ Done(p)
  /\ UNCHANGED <<userVars, report, runs, calm, proxyVars>>

(* or a child is spawned, with the port and https on its command line; the    *)
(* rest it loads for itself.                                                  *)
Spawn(p) ==
  /\ at[p] = "loaded" /\ op[p] = "start" /\ ~Answers(config[p]["port"])
  /\ Goto(p, "spawned")
  /\ flags' = [flags EXCEPT ![p] =
       [k \in Key |-> CASE k = "port" -> config[p]["port"]
                        [] k = "https" /\ config[p]["https"] = On -> On
                        [] OTHER -> None]]
  /\ UNCHANGED <<userVars, op, place, config, found, report, runs, calm, proxyVars>>

(* start_proxy binds the port and writes the lifecycle files.                 *)
Serve(q, c, held) ==
  /\ life[q] = "off" /\ ~Answers(c["port"])
  /\ life' = [life EXCEPT ![q] = "up"]
  /\ info' = [info EXCEPT ![q] = [dir |-> StateDir(c), port |-> c["port"], https |-> c["https"] = On]]
  /\ disk' = [disk EXCEPT ![StateDir(c)] =
       [pid |-> q, held |-> held, port |-> c["port"], https |-> c["https"] = On]]

Held(d) == disk[d].held # None /\ life[disk[d].held] = "up"

(* daemonize_and_start_proxy: the pid file is written under a flock first.    *)
Daemon(p, q) ==
  LET c == Load(place[p], flags[p])
  IN /\ at[p] = "spawned" /\ ~Held(StateDir(c))
     /\ Serve(q, c, q) /\ Stir /\ Done(p)
     /\ UNCHANGED <<userVars, report, runs>>

(* Where start_proxy fails once the port is its own, some of the files are    *)
(* written, and the one whose write failed may be empty, which says nothing.  *)
Leftovers(q, c, r) ==
  LET named == [r EXCEPT !.pid = q]
      whole == [named EXCEPT !.port = c["port"]]
  IN {r} \cup IF Answers(c["port"]) THEN {} ELSE
       {[r EXCEPT !.pid = None], named, [named EXCEPT !.port = None],
        whole, [whole EXCEPT !.https = c["https"] = On]}

Fails(q, d, rest) ==
  /\ life[q] = "off"
  /\ life' = [life EXCEPT ![q] = "over"]
  /\ \E r \in rest : disk' = [disk EXCEPT ![d] = r]
  /\ Stir

(* The pid file is locked or cannot be written, or what comes after fails.    *)
DaemonFails(p, q) ==
  LET c == Load(place[p], flags[p])
      r == disk[StateDir(c)]
  IN /\ at[p] = "spawned" /\ Done(p)
     /\ Fails(q, StateDir(c), {r} \cup IF Held(StateDir(c)) THEN {}
                               ELSE Leftovers(q, c, [r EXCEPT !.pid = q, !.held = None]))
     /\ UNCHANGED <<userVars, report, runs, info>>

(* proxy start --foreground takes no lock, and keeps that of another.         *)
Foreground(p, q) ==
  /\ at[p] = "loaded" /\ op[p] = "foreground"
  /\ Serve(q, config[p], disk[StateDir(config[p])].held) /\ Stir /\ Done(p)
  /\ UNCHANGED <<userVars, report, runs>>

(* The port is taken, or another step fails.                                  *)
ForegroundFails(p, q) ==
  LET c == config[p]
  IN /\ at[p] = "loaded" /\ op[p] = "foreground" /\ Done(p)
     /\ Fails(q, StateDir(c), Leftovers(q, c, disk[StateDir(c)]))
     /\ UNCHANGED <<userVars, report, runs, info>>

(* stop_proxy: whatever has the pid is signalled.                             *)
Stop(p) ==
  LET d == StateDir(config[p]) q == disk[d].pid
  IN /\ at[p] = "loaded" /\ op[p] = "stop"
     /\ IF q = None THEN UNCHANGED <<life, disk, calm>>
        ELSE /\ life' = [life EXCEPT ![q] = "over"]
             /\ disk' = [disk EXCEPT ![d] = NoFiles] /\ Stir
     /\ Done(p)
     /\ UNCHANGED <<userVars, report, runs, info>>

(* A proxy is killed: its files stay.  Its pid is given to another process.   *)
Kill(q) ==
  /\ life[q] = "up" /\ life' = [life EXCEPT ![q] = "over"] /\ Stir
  /\ UNCHANGED <<userVars, procVars, info, disk>>

Reuse(q) ==
  /\ life[q] = "over" /\ life' = [life EXCEPT ![q] = "another"] /\ Stir
  /\ UNCHANGED <<userVars, procVars, info, disk>>

-----------------------------------------------------------------------------
(* nkl status.  It asks the environment, and no configuration file.           *)

EnvDir == env["state_dir"]

(* is_alive: kill(pid, 0) succeeds.                                           *)
IsAlive(q) == life[q] \in {"up", "another"}

(* Mutant: a pid file is enough.                                              *)
ActiveIfNamed(d) == disk[d].port # None /\ disk[d].pid # None

Active(d) == disk[d].port # None /\ disk[d].pid # None /\ IsAlive(disk[d].pid)

Find(p, d, n) == found' = [found EXCEPT ![p] = [dir |-> d, port |-> n]] /\ Goto(p, "found")

Looking(p, l) == /\ at[p] = l /\ op[p] = "status"
                 /\ UNCHANGED <<userVars, op, place, flags, config, report, runs, calm, proxyVars>>

(* discover_active_state_dir: the directory of the environment, *)
FindByEnv(p) ==
  /\ Looking(p, "loaded") /\ EnvDir # None
  /\ Find(p, EnvDir, Or(disk[EnvDir].port, Default["port"]))

(* that of the user, *)
LookUser(p) ==
  /\ Looking(p, "loaded") /\ EnvDir = None
  /\ IF Active(User) THEN Find(p, User, disk[User].port) ELSE Goto(p, "sys") /\ UNCHANGED found

(* the one all share, or none.                                                *)
LookSys(p) ==
  /\ Looking(p, "sys")
  /\ IF Active(Sys) THEN Find(p, Sys, disk[Sys].port) ELSE Find(p, User, Default["port"])

(* get_proxy_status reads the pid again.                                      *)
Report(p) ==
  LET d == disk[found[p].dir]
      running == d.pid # None /\ IsAlive(d.pid)
  IN /\ at[p] = "found"
     /\ report' = [report EXCEPT ![p] =
          [running |-> running, pid |-> IF running THEN d.pid ELSE None,
           port |-> found[p].port, https |-> d.https]]
     /\ Done(p)
     /\ UNCHANGED <<userVars, runs, calm, proxyVars>>

-----------------------------------------------------------------------------
Next ==
  \/ \E p \in Procs :
       \/ \E o \in Op, w \in Place, f \in Flags : Begin(p, o, w, f)
       \/ AlreadyRunning(p) \/ Spawn(p) \/ Stop(p)
       \/ \E q \in Proxies : \/ Daemon(p, q) \/ DaemonFails(p, q)
                            \/ Foreground(p, q) \/ ForegroundFails(p, q)
       \/ FindByEnv(p) \/ LookUser(p) \/ LookSys(p) \/ Report(p)
  \/ \E q \in Proxies : Kill(q) \/ Reuse(q)

Spec == Init /\ [][Next]_vars

-----------------------------------------------------------------------------
(* Properties *)

(* A command takes each key from the highest layer that says something of it, *)
(* whatever keys of the same section other layers have.                       *)
PriorityByKey ==
  [][\A p \in Procs : at[p] = "idle" /\ at'[p] = "loaded" =>
       \A k \in Key : config'[p][k] =
         ByPriority(files["etc"], files["home"], Project(place'[p]), env, flags'[p], k)]_vars

(* The proxies that serve and are named by the pid file of their directory.   *)
Named == {q \in Proxies : life[q] = "up" /\ disk[info[q].dir].pid = q}

(* What status says is true, if nothing came or went while it looked: it says *)
(* running if a proxy serves from NKL_STATE_DIR, or without it from either of *)
(* the default directories, and has that one's pid, port and scheme.          *)
StatusTellsTruth ==
  \A p \in Procs :
    LET seen == {q \in Named : info[q].dir \in IF EnvDir # None THEN {EnvDir} ELSE {User, Sys}}
        r == report[p]
    IN calm[p] /\ r # None /\ (\A q \in Proxies : life[q] # "another") =>
         /\ r.running <=> seen # {}
         /\ r.running => \E q \in seen : /\ r.pid = q /\ r.port = info[q].port
                                         /\ r.https = info[q].https
=============================================================================
