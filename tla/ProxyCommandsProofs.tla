------------------------- MODULE ProxyCommandsProofs -------------------------
(* Theorems about ConfigLayers, for any sections, keys, values, files,        *)
(* environments and command lines, and about ProxyCommands, for any number of *)
(* processes, proxies and directories.                                        *)
EXTENDS ProxyCommands, WellFoundedInduction, TLAPS

-----------------------------------------------------------------------------
(* The layers of the configuration *)

(* A None is no value and no set of keys.                                     *)
LEMMA NoneApart == None \notin Keys /\ Empty \in Raw /\ \A k \in Key : Get(Empty, k) = None
  BY ConfigAssumption DEF Empty, Raw, Get, Keys, OptValue

(* merge keeps the type.                                                      *)
LEMMA MergeRaw ==
  ASSUME NEW a \in Raw, NEW b \in Raw
  PROVE  Merge(a, b) \in Raw
<1>1. ASSUME NEW s \in Section PROVE MergeOpt(a[s], b[s]) \in Keys \cup {None}
  <2>1. a[s] \in Keys \cup {None} /\ b[s] \in Keys \cup {None} BY DEF Raw
  <2>2. CASE a[s] # None /\ b[s] # None
    <3>1. a[s] \in Keys /\ b[s] \in Keys BY <2>1, <2>2
    <3>2. [k \in Key |-> Or(b[s][k], a[s][k])] \in Keys BY <3>1 DEF Keys, Or
    <3> QED BY <3>2, <2>2 DEF MergeOpt
  <2>3. CASE ~(a[s] # None /\ b[s] # None) BY <2>1, <2>3 DEF MergeOpt, Or
  <2> QED BY <2>2, <2>3
<1> QED BY <1>1 DEF Merge, Raw

(* The closures of merge work key by key: of two files the later one says     *)
(* what it says, and of what it leaves out the earlier one.                   *)
LEMMA MergeByKey ==
  ASSUME NEW a \in Raw, NEW b \in Raw, NEW k \in Key
  PROVE  Get(Merge(a, b), k) = Or(Get(b, k), Get(a, k))
<1> DEFINE s == SectionOf[k]
<1>1. s \in Section BY ConfigAssumption
<1>2. a[s] \in Keys \cup {None} /\ b[s] \in Keys \cup {None} BY <1>1 DEF Raw
<1>3. Merge(a, b)[s] = MergeOpt(a[s], b[s]) BY <1>1 DEF Merge
<1>4. CASE a[s] # None /\ b[s] # None
  <2>1. MergeOpt(a[s], b[s]) = [j \in Key |-> Or(b[s][j], a[s][j])] BY <1>4 DEF MergeOpt
  <2>2. MergeOpt(a[s], b[s]) # None
    <3>1. a[s] \in Keys /\ b[s] \in Keys BY <1>2, <1>4
    <3>2. [j \in Key |-> Or(b[s][j], a[s][j])] \in Keys BY <3>1 DEF Keys, Or
    <3> QED BY <2>1, <3>2, NoneApart
  <2> QED BY <1>3, <1>4, <2>1, <2>2 DEF Get
<1>5. CASE b[s] = None
  <2>1. Merge(a, b)[s] = a[s] BY <1>3, <1>5 DEF MergeOpt, Or
  <2> QED BY <2>1, <1>5 DEF Get, Or
<1>6. CASE a[s] = None /\ b[s] # None
  <2>1. Merge(a, b)[s] = b[s] BY <1>3, <1>6 DEF MergeOpt, Or
  <2> QED BY <2>1, <1>6 DEF Get, Or
<1> QED BY <1>4, <1>5, <1>6

(* A file that is not there or not TOML says nothing and changes nothing.     *)
LEMMA FileByKey ==
  ASSUME NEW a \in Raw, NEW f \in File, NEW k \in Key
  PROVE  /\ MergeFile(a, f) \in Raw
         /\ Get(MergeFile(a, f), k) = Or(Says(f, k), Get(a, k))
<1>1. CASE f \in {Missing, Broken} BY <1>1 DEF MergeFile, Says, Or
<1>2. CASE f \notin {Missing, Broken}
  <2>1. f \in Raw BY <1>2 DEF File
  <2> QED BY <1>2, <2>1, MergeRaw, MergeByKey DEF MergeFile, Says
<1> QED BY <1>1, <1>2

(* Whatever sections a raw configuration has, a variable overrides its key    *)
(* and no other.                                                              *)
LEMMA EnvByKey ==
  ASSUME NEW a \in Raw, NEW e \in Keys, NEW k \in Key
  PROVE  Get(WithEnv(a, e), k) = IF EnvSets(e, k) THEN e[k] ELSE Get(a, k)
<1> DEFINE s == SectionOf[k]
           made == [j \in Key |-> IF SectionOf[j] = s /\ EnvSets(e, j) THEN e[j]
                                  ELSE IF a[s] = None THEN None ELSE a[s][j]]
<1>1. s \in Section BY ConfigAssumption
<1>2. CASE \E j \in Key : SectionOf[j] = s /\ EnvSets(e, j)
  <2>1. WithEnv(a, e)[s] = made BY <1>1, <1>2 DEF WithEnv
  <2>2. made \in Keys
    <3>1. a[s] \in Keys \cup {None} BY <1>1 DEF Raw
    <3> QED BY <3>1 DEF Keys, OptValue
  <2>3. made # None BY <2>2, NoneApart
  <2> QED BY <2>1, <2>3 DEF Get
<1>3. CASE ~ \E j \in Key : SectionOf[j] = s /\ EnvSets(e, j)
  <2>1. WithEnv(a, e)[s] = a[s] BY <1>1, <1>3 DEF WithEnv
  <2>2. ~EnvSets(e, k) BY <1>3
  <2> QED BY <2>1, <2>2 DEF Get
<1> QED BY <1>2, <1>3

(* load_config and apply_cli_overrides do what README.md says of them, key by *)
(* key: the command line, the variable, nkl.toml of the project, that of the  *)
(* user, that of the system, the default; src/config/mod.rs:261.              *)
THEOREM LayersByPriority ==
  ASSUME NEW etc \in File, NEW home \in File, NEW project \in File,
         NEW e \in Keys, NEW line \in Keys, NEW k \in Key
  PROVE  WithFlags(LoadConfig(etc, home, project, e), line)[k]
           = ByPriority(etc, home, project, e, line, k)
<1> DEFINE one == MergeFile(Empty, etc)
           two == MergeFile(one, home)
           three == MergeFile(two, project)
<1>1. one \in Raw /\ Get(one, k) = Or(Says(etc, k), None) BY NoneApart, FileByKey
<1>2. two \in Raw /\ Get(two, k) = Or(Says(home, k), Get(one, k)) BY <1>1, FileByKey
<1>3. three \in Raw /\ Get(three, k) = Or(Says(project, k), Get(two, k)) BY <1>2, FileByKey
<1> HIDE DEF one, two, three
<1>4. Get(WithEnv(three, e), k) = IF EnvSets(e, k) THEN e[k] ELSE Get(three, k)
  BY <1>3, EnvByKey
<1>5. LoadConfig(etc, home, project, e)[k] = Or(Get(WithEnv(three, e), k), Default[k])
  BY DEF LoadConfig, Resolve, one, two, three
<1>6. WithFlags(LoadConfig(etc, home, project, e), line)[k]
        = Or(line[k], LoadConfig(etc, home, project, e)[k]) BY DEF WithFlags
<1>7. LoadConfig(etc, home, project, e)[k] =
        Or(IF EnvSets(e, k) THEN e[k] ELSE None,
           Or(Says(project, k), Or(Says(home, k), Or(Says(etc, k), Default[k]))))
  BY <1>1, <1>2, <1>3, <1>4, <1>5 DEF Or, EnvSets
<1> QED BY <1>6, <1>7 DEF ByPriority

-----------------------------------------------------------------------------
(* The commands *)

LEMMA LeastIsThere ==
  ASSUME NEW S \in SUBSET Nat, S # {}
  PROVE  Min(S) \in S
<1>1. PICK x \in S : \A y \in S : <<y, x>> \notin OpToRel(<, Nat)
  BY NatLessThanWellFounded, WFMin, Zenon
<1>2. ASSUME NEW y \in S PROVE x =< y
  <2>1. <<y, x>> \in Nat \X Nat /\ <<y, x>>[1] = y /\ <<y, x>>[2] = x
    OBVIOUS
  <2>2. ~(<<y, x>>[1] < <<y, x>>[2])
    BY <1>1, <2>1, Zenon DEF OpToRel
  <2>3. ~(y < x)
    BY <2>1, <2>2, Zenon
  <2> QED
    BY <2>3
<1> QED
  BY <1>2 DEF Min

Chosen == files \in [Layer -> File] /\ env \in Envs
          /\ \A l \in Layer : files[l] \in Contents[l]

(* What a command line may be, given or made by Spawn.                        *)
Line == {f \in Keys : f["state_dir"] = None}

LEMMA ProjectIsAFile ==
  ASSUME Chosen, NEW w \in Place
  PROVE  Project(w) \in File /\ Says(Project(w), "state_dir") \in Custom \cup {None}
<1> DEFINE some == {i \in DOMAIN Up[w] : files[Up[w][i]] # Missing}
<1>1. Up[w] \in Seq(Place)
  BY CommandsAssumption
<1>2. CASE some = {}
  BY <1>2 DEF Project, Says, File
<1>3. CASE some # {}
  <2>1. some \in SUBSET Nat
    BY <1>1
  <2>2. Min(some) \in some
    BY <1>3, <2>1, LeastIsThere
  <2>3. Up[w][Min(some)] \in Layer
    <3>1. \A i \in DOMAIN Up[w] : Up[w][i] \in Place
      BY <1>1
    <3> QED
      BY <2>2, <3>1 DEF Layer
  <2>4. Project(w) = files[Up[w][Min(some)]]
    BY <1>3 DEF Project
  <2> QED
    BY <2>3, <2>4, CommandsAssumption DEF Chosen
<1> QED
  BY <1>2, <1>3

(* A loaded configuration has a port, and its state directory is one of those *)
(* there are.                                                                 *)
LEMMA LoadTyped ==
  ASSUME Chosen, NEW w \in Place, NEW f \in Line
  PROVE  /\ Load(w, f) \in Keys /\ Load(w, f)["port"] # None
         /\ StateDir(Load(w, f)) \in Dir
         /\ \A k \in Key : Load(w, f)[k] =
              ByPriority(files["etc"], files["home"], Project(w), env, f, k)
<1>1. /\ files["etc"] \in File /\ files["home"] \in File /\ Project(w) \in File
      /\ env \in Keys /\ f \in Keys
  BY ProjectIsAFile, CommandsAssumption DEF Chosen, Layer, Line
<1>2. \A k \in Key : Load(w, f)[k] =
        ByPriority(files["etc"], files["home"], Project(w), env, f, k)
  BY <1>1, LayersByPriority DEF Load
<1>3. ASSUME NEW file \in File, NEW k \in Key PROVE Says(file, k) \in OptValue
  <2>1. CASE file \in {Missing, Broken}
    BY <2>1 DEF Says, OptValue
  <2>2. CASE file \notin {Missing, Broken}
    <3>1. SectionOf[k] \in Section /\ file \in Raw
      BY <2>2, ConfigAssumption DEF File
    <3>2. file[SectionOf[k]] \in Keys \cup {None}
      BY <3>1 DEF Raw
    <3> QED
      BY <2>2, <3>2 DEF Says, Get, Keys, OptValue
  <2> QED
    BY <2>1, <2>2
<1>4. ASSUME NEW k \in Key
      PROVE  ByPriority(files["etc"], files["home"], Project(w), env, f, k) \in OptValue
  BY <1>1, <1>3, ConfigAssumption DEF ByPriority, Or, Keys, EnvSets
<1>5. Load(w, f) \in Keys
  <2>1. Load(w, f) = [k \in Key |-> Load(w, f)[k]]
    BY DEF Load, WithFlags
  <2> QED
    BY <1>2, <1>4, <2>1 DEF Keys
<1>6. Load(w, f)["port"] # None
  BY <1>2, CommandsAssumption DEF ByPriority, Or, EnvSets
<1>7. Load(w, f)["state_dir"] \in Custom \cup {None}
  <2>1. Says(files["etc"], "state_dir") \in Custom \cup {None}
        /\ Says(files["home"], "state_dir") \in Custom \cup {None}
    BY CommandsAssumption DEF Chosen, Layer
  <2> QED
    BY <1>2, <2>1, ProjectIsAFile, CommandsAssumption DEF ByPriority, Or, EnvSets, Chosen, Line
<1>8. StateDir(Load(w, f)) \in Dir
  BY <1>7 DEF StateDir, Dir
<1> QED
  BY <1>2, <1>5, <1>6, <1>8

-----------------------------------------------------------------------------
(* The types, and that a process that has loaded has what it loaded.          *)
Here == {"idle", "loaded", "spawned", "sys", "found"}
Files == [pid : Proxies \cup {None}, held : Proxies \cup {None}, port : OptValue, https : BOOLEAN]

Acting(p) ==
  /\ at[p] \in {"loaded", "spawned"} => place[p] \in Place
  /\ at[p] = "loaded" => config[p] = Load(place[p], flags[p])
  /\ at[p] = "found" => found[p] \in [dir : Dir, port : OptValue]
ProcTypes ==
  /\ at \in [Procs -> Here] /\ op \in [Procs -> Op \cup {None}]
  /\ place \in [Procs -> Place \cup {None}] /\ flags \in [Procs -> Line]
  /\ config \in [Procs -> Keys]
  /\ found \in [Procs -> [dir : Dir, port : OptValue] \cup {None}]
  /\ calm \in [Procs -> BOOLEAN]
  /\ DOMAIN report = Procs
  /\ \A p \in Procs : Acting(p)
ProxyTypes ==
  /\ life \in [Proxies -> {"off", "up", "over", "another"}]
  /\ DOMAIN info = Proxies
  /\ disk \in [Dir -> Files]
Typed == Chosen /\ ProcTypes /\ ProxyTypes

LEMMA LineFacts == NoKeys \in Line /\ Flags \subseteq Line
  BY CommandsAssumption DEF Line, NoKeys, Keys, OptValue

(* What a step does not touch keeps its type.                                 *)
LEMMA LoadKept ==
  ASSUME UNCHANGED userVars
  PROVE  /\ Chosen => Chosen'
         /\ \A w, f : Load(w, f)' = Load(w, f)
         /\ EnvDir' = EnvDir
  BY DEF userVars, Chosen, Load, Project, EnvDir

LEMMA ActingKept ==
  ASSUME UNCHANGED userVars, NEW p \in Procs, Acting(p), at'[p] = at[p], place'[p] = place[p],
         config'[p] = config[p], flags'[p] = flags[p], found'[p] = found[p]
  PROVE  Acting(p)'
  BY LoadKept DEF Acting

LEMMA DoneTyped ==
  ASSUME Chosen, ProcTypes, NEW p \in Procs, Done(p), UNCHANGED userVars,
         calm' \in [Procs -> BOOLEAN], DOMAIN report' = Procs
  PROVE  ProcTypes'
<1>1. ASSUME NEW x \in Procs, x # p PROVE Acting(x)'
  BY <1>1, ActingKept DEF ProcTypes, Done, Goto
<1>2. Acting(p)'
  BY DEF ProcTypes, Done, Goto, Acting
<1> QED
  BY <1>1, <1>2, LineFacts DEF ProcTypes, Done, Goto, Here, Line

LEMMA ServeTyped ==
  ASSUME ProxyTypes, NEW q \in Proxies, NEW c \in Keys, StateDir(c) \in Dir,
         NEW held \in Proxies \cup {None}, Serve(q, c, held)
  PROVE  ProxyTypes'
<1>1. [pid |-> q, held |-> held, port |-> c["port"], https |-> c["https"] = On] \in Files
  BY CommandsAssumption DEF Files, Keys
<1> QED
  BY <1>1 DEF ProxyTypes, Serve

(* A start that fails leaves the files of its directory alone, or names       *)
(* itself or nobody in the pid file.                                          *)
Remains(q, d) == {disk[d]} \cup {r \in Files : r.pid \in {q, None}}

LEMMA LeftoversRemain ==
  ASSUME NEW q \in Proxies, NEW c \in Keys, NEW r \in Files
  PROVE  Leftovers(q, c, r) \subseteq {r} \cup {f \in Files : f.pid \in {q, None}}
<1> DEFINE named == [r EXCEPT !.pid = q]
           whole == [named EXCEPT !.port = c["port"]]
<1>1. c["port"] \in OptValue /\ None \in OptValue
  BY CommandsAssumption DEF Keys, OptValue
<1>2. [r EXCEPT !.pid = None] \in Files /\ [r EXCEPT !.pid = None].pid = None
  BY DEF Files
<1>3. named \in Files /\ named.pid = q
  BY DEF Files
<1>4. [named EXCEPT !.port = None] \in Files /\ [named EXCEPT !.port = None].pid = q
  BY <1>1 DEF Files
<1>5. whole \in Files /\ whole.pid = q
  BY <1>1 DEF Files
<1>6. [whole EXCEPT !.https = c["https"] = On] \in Files
      /\ [whole EXCEPT !.https = c["https"] = On].pid = q
  BY <1>5 DEF Files
<1> QED
  BY <1>2, <1>3, <1>4, <1>5, <1>6 DEF Leftovers

LEMMA StartFails ==
  ASSUME Typed, NEW p \in Procs, NEW q \in Proxies, DaemonFails(p, q) \/ ForegroundFails(p, q)
  PROVE  \E d \in Dir : Fails(q, d, Remains(q, d)) /\ info' = info
<1> USE DEF Typed
<1>1. ASSUME NEW d \in Dir, NEW rest, rest \subseteq Remains(q, d), Fails(q, d, rest)
      PROVE  Fails(q, d, Remains(q, d))
  BY <1>1 DEF Fails
<1>2. CASE DaemonFails(p, q)
  <2> DEFINE c == Load(place[p], flags[p])
             d == StateDir(c)
             r == disk[d]
             started == [r EXCEPT !.pid = q, !.held = None]
  <2>1. place[p] \in Place /\ flags[p] \in Line
    BY <1>2 DEF DaemonFails, ProcTypes, Acting
  <2>2. c \in Keys /\ d \in Dir
    BY <2>1, LoadTyped
  <2>3. started \in Files /\ started.pid = q
    BY <2>2 DEF ProxyTypes, Files
  <2>4. Fails(q, d, {r} \cup IF Held(d) THEN {} ELSE Leftovers(q, c, started)) /\ info' = info
    BY <1>2 DEF DaemonFails
  <2> HIDE DEF c, d, started
  <2>5. Leftovers(q, c, started) \subseteq Remains(q, d)
    BY <2>2, <2>3, LeftoversRemain DEF Remains
  <2>6. {r} \cup (IF Held(d) THEN {} ELSE Leftovers(q, c, started)) \subseteq Remains(q, d)
    BY <2>5 DEF Remains
  <2> QED
    BY <1>1, <2>2, <2>4, <2>6
<1>3. CASE ForegroundFails(p, q)
  <2> DEFINE c == config[p]
             d == StateDir(c)
  <2>1. place[p] \in Place /\ flags[p] \in Line /\ c = Load(place[p], flags[p])
    BY <1>3 DEF ForegroundFails, ProcTypes, Acting
  <2>2. c \in Keys /\ d \in Dir
    BY <2>1, LoadTyped
  <2>3. Fails(q, d, Leftovers(q, c, disk[d])) /\ info' = info
    BY <1>3 DEF ForegroundFails
  <2> HIDE DEF c, d
  <2>4. disk[d] \in Files
    BY <2>2 DEF ProxyTypes
  <2>5. Leftovers(q, c, disk[d]) \subseteq Remains(q, d)
    BY <2>2, <2>4, LeftoversRemain DEF Remains
  <2> QED
    BY <1>1, <2>2, <2>3, <2>5
<1> QED
  BY <1>2, <1>3

LEMMA FailsTyped ==
  ASSUME ProxyTypes, NEW q \in Proxies, NEW d \in Dir, Fails(q, d, Remains(q, d)), info' = info
  PROVE  ProxyTypes'
<1>1. PICK r \in Remains(q, d) : disk' = [disk EXCEPT ![d] = r]
  BY DEF Fails
<1>2. r \in Files
  BY <1>1 DEF Remains, ProxyTypes
<1> QED
  BY <1>1, <1>2 DEF Fails, ProxyTypes

(* Typed is an invariant: beside the types it says that a process acts on the *)
(* configuration that its files, environment and command line give.           *)
LEMMA TypedStep ==
  ASSUME Typed, [Next]_vars
  PROVE  Typed'
<1> USE DEF Typed
<1>1. UNCHANGED userVars
  <2>1. ASSUME NEW p \in Procs,
               \/ \E o \in Op, w \in Place, f \in Flags : Begin(p, o, w, f)
               \/ AlreadyRunning(p) \/ Spawn(p) \/ Stop(p)
        PROVE  UNCHANGED userVars
    BY <2>1, Zenon DEF Begin, AlreadyRunning, Spawn, Stop
  <2>2. ASSUME NEW p \in Procs, NEW q \in Proxies,
               \/ Daemon(p, q) \/ DaemonFails(p, q)
               \/ Foreground(p, q) \/ ForegroundFails(p, q)
        PROVE  UNCHANGED userVars
    BY <2>2, Zenon DEF Daemon, DaemonFails, Foreground, ForegroundFails
  <2>3. ASSUME NEW p \in Procs, FindByEnv(p) \/ LookUser(p) \/ LookSys(p) \/ Report(p)
        PROVE  UNCHANGED userVars
    BY <2>3, Zenon DEF FindByEnv, LookUser, LookSys, Looking, Report
  <2>4. ASSUME NEW q \in Proxies, Kill(q) \/ Reuse(q) PROVE UNCHANGED userVars
    BY <2>4, Zenon DEF Kill, Reuse
  <2>5. CASE UNCHANGED vars
    BY <2>5, Zenon DEF vars
  <2> QED
    BY <2>1, <2>2, <2>3, <2>4, <2>5, Zenon DEF Next
<1>2. Chosen'
  BY <1>1, LoadKept
<1>3. CASE UNCHANGED vars
  <2>1. \A x \in Procs : Acting(x)'
    BY <1>1, <1>3, ActingKept DEF vars, procVars, ProcTypes
  <2> QED
    BY <1>2, <1>3, <2>1 DEF vars, procVars, proxyVars, ProcTypes, ProxyTypes
<1>4. ASSUME NEW p \in Procs, NEW o \in Op, NEW w \in Place, NEW f \in Flags, Begin(p, o, w, f)
      PROVE  Typed'
  <2>1. f \in Line /\ Load(w, f) \in Keys
    BY LineFacts, LoadTyped
  <2>2. ASSUME NEW x \in Procs PROVE Acting(x)'
    <3>1. CASE x = p
      BY <1>1, <1>4, <3>1, LoadKept DEF Begin, Goto, ProcTypes, Acting
    <3>2. CASE x # p
      BY <1>1, <1>4, <3>2, ActingKept DEF Begin, Goto, ProcTypes
    <3> QED
      BY <3>1, <3>2
  <2>3. ProcTypes'
    BY <1>4, <2>1, <2>2 DEF Begin, Goto, ProcTypes, Here
  <2> QED
    BY <1>2, <1>4, <2>3 DEF Begin, proxyVars, ProxyTypes
<1>5. ASSUME NEW p \in Procs, AlreadyRunning(p) PROVE Typed'
  <2>1. ProcTypes'
    BY <1>1, <1>5, DoneTyped DEF AlreadyRunning, ProcTypes
  <2> QED
    BY <1>2, <1>5, <2>1 DEF AlreadyRunning, proxyVars, ProxyTypes
<1>6. ASSUME NEW p \in Procs, Spawn(p) PROVE Typed'
  <2> DEFINE g == [k \in Key |-> CASE k = "port" -> config[p]["port"]
                                   [] k = "https" /\ config[p]["https"] = On -> On
                                   [] OTHER -> None]
  <2>1. \A k \in Key : config[p][k] \in OptValue
    BY DEF ProcTypes, Keys
  <2>2. \A k \in Key : g[k] \in OptValue
    BY <2>1 DEF OptValue
  <2>3. g \in Line
    BY <2>2, CommandsAssumption DEF Line, Keys
  <2>4. at' = [at EXCEPT ![p] = "spawned"] /\ flags' = [flags EXCEPT ![p] = g]
    BY <1>6 DEF Spawn, Goto
  <2> HIDE DEF g
  <2>5. ASSUME NEW x \in Procs PROVE Acting(x)'
    <3>1. CASE x = p
      BY <1>6, <2>4, <3>1 DEF Spawn, ProcTypes, Acting
    <3>2. CASE x # p
      BY <1>1, <1>6, <2>4, <3>2, ActingKept DEF Spawn, ProcTypes
    <3> QED
      BY <3>1, <3>2
  <2>6. ProcTypes'
    BY <1>6, <2>3, <2>4, <2>5 DEF Spawn, ProcTypes, Here
  <2> QED
    BY <1>2, <1>6, <2>6 DEF Spawn, proxyVars, ProxyTypes
<1>7. ASSUME NEW p \in Procs, Stop(p) PROVE Typed'
  <2>1. ProcTypes'
    BY <1>1, <1>7, DoneTyped DEF Stop, Stir, ProcTypes
  <2>2. NoFiles \in Files
    BY DEF NoFiles, Files, OptValue
  <2>3. ProxyTypes'
    BY <1>7, <2>2 DEF Stop, ProxyTypes
  <2> QED
    BY <1>2, <2>1, <2>3
<1>8. ASSUME NEW p \in Procs, NEW q \in Proxies, Daemon(p, q) PROVE Typed'
  <2>1. place[p] \in Place /\ flags[p] \in Line
    BY <1>8 DEF Daemon, ProcTypes, Acting
  <2>2. ProxyTypes'
    BY <1>8, <2>1, LoadTyped, ServeTyped DEF Daemon
  <2>3. ProcTypes'
    BY <1>1, <1>8, DoneTyped DEF Daemon, Stir, ProcTypes
  <2> QED
    BY <1>2, <2>2, <2>3
<1>9. ASSUME NEW p \in Procs, NEW q \in Proxies, DaemonFails(p, q) \/ ForegroundFails(p, q)
      PROVE  Typed'
  <2>1. ProcTypes'
    <3>1. Done(p) /\ Stir /\ report' = report
      BY <1>9 DEF DaemonFails, ForegroundFails, Fails
    <3> QED
      BY <1>1, <3>1, DoneTyped DEF Stir, ProcTypes
  <2>2. ProxyTypes'
    BY <1>9, StartFails, FailsTyped
  <2> QED
    BY <1>2, <2>1, <2>2
<1>10. ASSUME NEW p \in Procs, NEW q \in Proxies, Foreground(p, q) PROVE Typed'
  <2>1. at[p] = "loaded" /\ place[p] \in Place /\ flags[p] \in Line
        /\ config[p] = Load(place[p], flags[p])
    BY <1>10 DEF Foreground, ProcTypes, Acting
  <2>2. config[p] \in Keys /\ StateDir(config[p]) \in Dir
    BY <2>1, LoadTyped
  <2>3. disk[StateDir(config[p])].held \in Proxies \cup {None}
    BY <2>2 DEF ProxyTypes, Files
  <2>4. ProxyTypes'
    BY <1>10, <2>2, <2>3, ServeTyped DEF Foreground
  <2>5. ProcTypes'
    BY <1>1, <1>10, DoneTyped DEF Foreground, Stir, ProcTypes
  <2> QED
    BY <1>2, <2>4, <2>5
<1>11. ASSUME NEW p \in Procs, FindByEnv(p) \/ LookUser(p) \/ LookSys(p) PROVE Typed'
  <2>1. User \in Dir /\ Sys \in Dir /\ (EnvDir # None => EnvDir \in Dir)
    BY CommandsAssumption DEF Chosen, EnvDir, Dir
  <2>2. Default["port"] \in OptValue /\ \A d \in Dir : disk[d].port \in OptValue
    BY CommandsAssumption, ConfigAssumption DEF ProxyTypes, Files, Keys
  <2>3. \/ at' = [at EXCEPT ![p] = "sys"] /\ found' = found
        \/ \E d \in Dir, n \in OptValue :
             at' = [at EXCEPT ![p] = "found"] /\ found' = [found EXCEPT ![p] = [dir |-> d, port |-> n]]
    BY <1>11, <2>1, <2>2 DEF FindByEnv, LookUser, LookSys, Find, Goto, Or
  <2>4. UNCHANGED <<op, place, flags, config, report, calm, life, info, disk>>
    BY <1>11 DEF FindByEnv, LookUser, LookSys, Looking, proxyVars
  <2>5. ASSUME NEW x \in Procs PROVE Acting(x)'
    <3>1. CASE x = p
      BY <2>3, <3>1 DEF ProcTypes, Acting
    <3>2. CASE x # p
      BY <1>1, <2>3, <2>4, <3>2, ActingKept DEF ProcTypes
    <3> QED
      BY <3>1, <3>2
  <2>6. ProcTypes'
    BY <2>3, <2>4, <2>5 DEF ProcTypes, Here
  <2> QED
    BY <1>2, <2>4, <2>6 DEF ProxyTypes
<1>12. ASSUME NEW p \in Procs, Report(p) PROVE Typed'
  <2>1. ProcTypes'
    BY <1>1, <1>12, DoneTyped DEF Report, ProcTypes
  <2> QED
    BY <1>2, <1>12, <2>1 DEF Report, proxyVars, ProxyTypes
<1>13. ASSUME NEW q \in Proxies, Kill(q) \/ Reuse(q) PROVE Typed'
  <2>1. UNCHANGED procVars /\ calm' = [x \in Procs |-> FALSE]
    BY <1>13 DEF Kill, Reuse, Stir
  <2>2. \A x \in Procs : Acting(x)'
    BY <1>1, <2>1, ActingKept DEF procVars, ProcTypes
  <2>3. ProcTypes'
    BY <2>1, <2>2 DEF procVars, ProcTypes
  <2>4. ProxyTypes'
    BY <1>13 DEF Kill, Reuse, ProxyTypes
  <2> QED
    BY <1>2, <2>3, <2>4
<1> QED
  BY <1>3, <1>4, <1>5, <1>6, <1>7, <1>8, <1>9, <1>10, <1>11, <1>12, <1>13 DEF Next

LEMMA Typing == Spec => []Typed
<1>1. Init => Typed
  <2> SUFFICES ASSUME Init PROVE Typed
    OBVIOUS
  <2>1. Chosen
    BY CommandsAssumption DEF Init, Chosen
  <2>2. ProcTypes
    BY LineFacts DEF Init, ProcTypes, Acting, Here, Line
  <2>3. ProxyTypes
    BY DEF Init, ProxyTypes, NoFiles, Files, OptValue
  <2> QED
    BY <2>1, <2>2, <2>3 DEF Typed
<1> QED
  BY <1>1, TypedStep, PTL DEF Spec

(* Whatever the files, the environment and the command line say, and wherever *)
(* a command runs, it takes every key from the highest layer that says        *)
(* something of it; src/config/mod.rs:261, src/cli/mod.rs:146.                *)
THEOREM KeysByPriority == Spec => PriorityByKey
<1>1. ASSUME Typed, Typed', [Next]_vars, NEW p \in Procs, at[p] = "idle", at'[p] = "loaded",
             NEW k \in Key
      PROVE  config'[p][k] =
               ByPriority(files["etc"], files["home"], Project(place'[p]), env, flags'[p], k)
  <2>1. PICK o \in Op, w \in Place, f \in Flags : Begin(p, o, w, f)
    <3>1. ASSUME NEW q \in Procs, NEW l, l # "loaded", Goto(q, l) PROVE FALSE
      BY <1>1, <3>1 DEF Goto, Typed, ProcTypes
    <3>2. ASSUME NEW q \in Procs, Done(q) PROVE FALSE
      BY <3>1, <3>2 DEF Done
    <3>3. at' # at
      BY <1>1
    <3>4. ASSUME NEW q \in Procs, NEW o \in Op, NEW w \in Place, NEW f \in Flags,
                 Begin(q, o, w, f)
          PROVE  q = p
      BY <1>1, <3>4 DEF Begin, Goto, Typed, ProcTypes
    <3>5. ASSUME NEW q \in Procs,
                 \/ AlreadyRunning(q) \/ Spawn(q) \/ Stop(q)
                 \/ \E r \in Proxies : \/ Daemon(q, r) \/ DaemonFails(q, r)
                                      \/ Foreground(q, r) \/ ForegroundFails(q, r)
                 \/ FindByEnv(q) \/ LookUser(q) \/ LookSys(q) \/ Report(q)
          PROVE  FALSE
      BY <3>1, <3>2, <3>5
      DEF AlreadyRunning, Spawn, Stop, ForegroundFails, Daemon, DaemonFails, Foreground,
          FindByEnv, LookUser, LookSys, Report, Find
    <3>6. ASSUME NEW q \in Proxies, Kill(q) \/ Reuse(q) PROVE FALSE
      BY <3>3, <3>6 DEF Kill, Reuse, procVars
    <3>7. ~UNCHANGED vars
      BY <3>3 DEF vars, procVars
    <3> QED
      BY <1>1, <3>4, <3>5, <3>6, <3>7 DEF Next
  <2>2. config'[p] = Load(w, f) /\ place'[p] = w /\ flags'[p] = f /\ f \in Line
    BY <1>1, <2>1, LineFacts DEF Begin, Typed, ProcTypes
  <2>3. Load(w, f)[k] = ByPriority(files["etc"], files["home"], Project(w), env, f, k)
    BY <1>1, <2>2, LoadTyped DEF Typed
  <2> QED
    BY <2>2, <2>3
<1>2. Typed /\ Typed' /\ [Next]_vars =>
        [\A p \in Procs : at[p] = "idle" /\ at'[p] = "loaded" =>
           \A k \in Key : config'[p][k] =
             ByPriority(files["etc"], files["home"], Project(place'[p]), env, flags'[p], k)]_vars
  BY <1>1
<1> QED
  BY <1>2, Typing, PTL DEF Spec, PriorityByKey

-----------------------------------------------------------------------------
(* The strengthening of StatusTellsTruth.  A pid file that names a proxy that *)
(* serves is of the directory of that proxy, with its port and scheme beside  *)
(* it; a proxy that has not begun is named by none.                           *)
Marked(d) ==
  LET q == disk[d].pid
  IN q # None => /\ life[q] # "off"
                 /\ life[q] = "up" => /\ disk[d].port # None
                                      /\ info[q] = [dir |-> d, port |-> disk[d].port,
                                                    https |-> disk[d].https]

(* While nothing comes or goes, what status has found stays true.             *)
FoundRight(f) ==
  IF EnvDir # None THEN f.dir = EnvDir /\ f.port = Or(disk[EnvDir].port, Default["port"])
  ELSE \/ f.dir = User /\ Active(User) /\ f.port = disk[User].port
       \/ f.dir = Sys /\ ~Active(User) /\ Active(Sys) /\ f.port = disk[Sys].port
       \/ f.dir = User /\ ~Active(User) /\ ~Active(Sys)
LooksRight(p) ==
  calm[p] => /\ at[p] = "sys" => EnvDir = None /\ ~Active(User)
             /\ at[p] = "found" => FoundRight(found[p])

(* StatusTellsTruth, of one process.                                          *)
Truth(p) ==
  LET seen == {q \in Named : info[q].dir \in IF EnvDir # None THEN {EnvDir} ELSE {User, Sys}}
      r == report[p]
  IN calm[p] /\ r # None /\ (\A q \in Proxies : life[q] # "another") =>
       /\ r.running <=> seen # {}
       /\ r.running => \E q \in seen : r.pid = q /\ r.port = info[q].port /\ r.https = info[q].https

Sound == /\ \A d \in Dir : Marked(d)
         /\ \A p \in Procs : LooksRight(p) /\ Truth(p)

LEMMA SoundInit == Init => Sound
  BY DEF Init, Sound, Marked, LooksRight, Truth, NoFiles

(* A step that stirs leaves only the files to look at, *)
LEMMA StirSound ==
  ASSUME Typed, Typed', Stir, \A d \in Dir : Marked(d)'
  PROVE  Sound'
  BY DEF Stir, Sound, LooksRight, Truth

LEMMA ServeMarked ==
  ASSUME Typed, \A d \in Dir : Marked(d), NEW q \in Proxies, NEW c \in Keys,
         StateDir(c) \in Dir, c["port"] # None, NEW held, Serve(q, c, held)
  PROVE  \A d \in Dir : Marked(d)'
<1> DEFINE e == StateDir(c)
<1>1. /\ life' = [life EXCEPT ![q] = "up"]
      /\ info' = [info EXCEPT ![q] = [dir |-> e, port |-> c["port"], https |-> c["https"] = On]]
      /\ disk' = [disk EXCEPT ![e] =
           [pid |-> q, held |-> held, port |-> c["port"], https |-> c["https"] = On]]
      /\ life[q] = "off" /\ q # None
  BY CommandsAssumption DEF Serve
<1> HIDE DEF e
<1>2. e \in Dir
  BY DEF e
<1>3. ASSUME NEW d \in Dir PROVE Marked(d)'
  <2>1. CASE d = e
    BY <1>1, <1>2, <2>1 DEF Marked, Typed, ProxyTypes
  <2>2. CASE d # e
    <3>1. disk'[d] = disk[d] /\ disk[d].pid \in Proxies \cup {None} /\ disk[d].pid # q
      BY <1>1, <1>2, <2>2 DEF Marked, Typed, ProxyTypes, Files
    <3>2. disk[d].pid # None => life'[disk[d].pid] = life[disk[d].pid]
                                /\ info'[disk[d].pid] = info[disk[d].pid]
      BY <1>1, <3>1 DEF Typed, ProxyTypes
    <3> QED
      BY <3>1, <3>2 DEF Marked
  <2> QED
    BY <2>1, <2>2
<1> QED
  BY <1>3

LEMMA FailsMarked ==
  ASSUME Typed, \A d \in Dir : Marked(d), NEW q \in Proxies, NEW e \in Dir,
         Fails(q, e, Remains(q, e)), info' = info
  PROVE  \A d \in Dir : Marked(d)'
<1>1. PICK r \in Remains(q, e) : disk' = [disk EXCEPT ![e] = r]
  BY DEF Fails
<1>2. life[q] = "off" /\ life' = [life EXCEPT ![q] = "over"]
  BY DEF Fails
<1>3. ASSUME NEW d \in Dir PROVE Marked(d)'
  <2>1. Marked(d) /\ disk[d].pid \in Proxies \cup {None}
    BY DEF Typed, ProxyTypes, Files
  <2>2. disk'[d] = disk[d] \/ disk'[d].pid \in {q, None}
    BY <1>1 DEF Remains, Typed, ProxyTypes
  <2>3. /\ life'[q] = "over"
        /\ \A x \in Proxies : x # q => life'[x] = life[x]
    BY <1>2 DEF Typed, ProxyTypes
  <2>4. CASE disk'[d] = disk[d]
    BY <1>2, <2>1, <2>3, <2>4 DEF Marked
  <2>5. CASE disk'[d].pid \in {q, None}
    BY <2>3, <2>5 DEF Marked
  <2> QED
    BY <2>2, <2>4, <2>5
<1> QED
  BY <1>3

(* and one that does not leaves what others have seen.                        *)
LEMMA CalmSound ==
  ASSUME UNCHANGED <<env, life, info, disk>>, NEW p \in Procs
  PROVE  /\ \A d \in Dir : Marked(d) => Marked(d)'
         /\ \A f : FoundRight(f) => FoundRight(f)'
         /\ Named' = Named
         /\ \A d : Active(d)' = Active(d)
         /\ LooksRight(p) /\ calm'[p] = calm[p] /\ at'[p] = at[p] /\ found'[p] = found[p]
              => LooksRight(p)'
         /\ Truth(p) /\ calm'[p] = calm[p] /\ report'[p] = report[p] => Truth(p)'
<1>1. EnvDir' = EnvDir /\ \A d : Active(d)' = Active(d)
  BY DEF EnvDir, Active, IsAlive
<1>2. Named' = Named
  BY DEF Named
<1>3. \A f : FoundRight(f) => FoundRight(f)'
  BY <1>1 DEF FoundRight
<1>4. LooksRight(p) /\ calm'[p] = calm[p] /\ at'[p] = at[p] /\ found'[p] = found[p] => LooksRight(p)'
  BY <1>1, <1>3 DEF LooksRight
<1>5. Truth(p) /\ calm'[p] = calm[p] /\ report'[p] = report[p] => Truth(p)'
  BY <1>1, <1>2 DEF Truth
<1>6. \A d \in Dir : Marked(d) => Marked(d)'
  BY DEF Marked
<1> QED
  BY <1>1, <1>2, <1>3, <1>4, <1>5, <1>6

(* The reading of the pid that makes the report.                              *)
LEMMA ReportTrue ==
  ASSUME Typed, Sound, NEW p \in Procs, Report(p)
  PROVE  Truth(p)'
<1> DEFINE e == found[p].dir
           q == disk[e].pid
           r == report'[p]
           seen == {x \in Named : info[x].dir \in IF EnvDir # None THEN {EnvDir} ELSE {User, Sys}}
<1>u. UNCHANGED <<env, life, info, disk, calm>>
  BY DEF Report, proxyVars, userVars
<1>n. Named' = Named /\ EnvDir' = EnvDir
  BY <1>u, CalmSound DEF EnvDir
<1>s. seen' = seen
  BY <1>u, <1>n
<1> SUFFICES ASSUME calm[p], \A x \in Proxies : life[x] # "another"
             PROVE  /\ r.running <=> seen # {}
                    /\ r.running => \E x \in seen :
                         r.pid = x /\ r.port = info[x].port /\ r.https = info[x].https
  <2>1. Truth(p)' <=>
          (calm'[p] /\ r # None /\ (\A x \in Proxies : life'[x] # "another") =>
             /\ r.running <=> seen' # {}
             /\ r.running => \E x \in seen' :
                  r.pid = x /\ r.port = info'[x].port /\ r.https = info'[x].https)
    BY Zenon DEF Truth
  <2> HIDE DEF r, seen
  <2> QED
    BY <1>u, <1>s, <2>1, Zenon
<1>1. e \in Dir /\ FoundRight(found[p])
  BY DEF Report, Typed, ProcTypes, Acting, Sound, LooksRight
<1>2. /\ r.running <=> q # None /\ IsAlive(q)
      /\ r.running => r.pid = q
      /\ r.port = found[p].port /\ r.https = disk[e].https
  BY DEF Report, Typed, ProcTypes
<1>3. q \in Proxies \cup {None}
  BY <1>1 DEF Typed, ProxyTypes, Files
<1>4. User \in Dir /\ Sys \in Dir /\ (EnvDir # None => EnvDir \in Dir)
  BY CommandsAssumption DEF Typed, Chosen, EnvDir, Dir
<1>5. ASSUME NEW d \in Dir PROVE Marked(d)
  BY DEF Sound
<1> HIDE DEF r
<1>6. ASSUME r.running
      PROVE  q \in seen /\ r.pid = q /\ r.port = info[q].port /\ r.https = info[q].https
  <2>1. q \in Proxies /\ q # None /\ IsAlive(q)
    BY <1>2, <1>3, <1>6
  <2>2. life[q] = "up"
    BY <2>1 DEF IsAlive
  <2>3. disk[e].port # None /\ info[q] = [dir |-> e, port |-> disk[e].port, https |-> disk[e].https]
    BY <1>1, <1>5, <2>1, <2>2 DEF Marked
  <2>4. info[q].dir = e /\ info[q].port = disk[e].port /\ info[q].https = disk[e].https
    BY <2>3
  <2>5. q \in Named
    BY <2>1, <2>2, <2>4 DEF Named
  <2>6. e \in IF EnvDir # None THEN {EnvDir} ELSE {User, Sys}
    BY <1>1 DEF FoundRight
  <2>7. found[p].port = disk[e].port
    BY <1>1, <2>1, <2>3 DEF FoundRight, Active, Or
  <2>8. q \in seen
    BY <2>4, <2>5, <2>6
  <2> QED
    BY <1>2, <1>6, <2>4, <2>7, <2>8
<1>7. ASSUME NEW x \in seen PROVE r.running
  <2> DEFINE d == info[x].dir
  <2>1. x \in Named /\ d \in IF EnvDir # None THEN {EnvDir} ELSE {User, Sys}
    BY <1>7
  <2>2. x \in Proxies /\ life[x] = "up" /\ disk[d].pid = x
    BY <2>1 DEF Named
  <2>3. x # None /\ IsAlive(x)
    BY <2>2, CommandsAssumption DEF IsAlive
  <2>4. d \in Dir
    BY <1>4, <2>1
  <2>5. Active(d)
    BY <1>5, <2>2, <2>3, <2>4 DEF Marked, Active
  <2>6. q # None /\ IsAlive(q)
    BY <1>1, <2>1, <2>2, <2>3, <2>5 DEF FoundRight, Active
  <2> QED
    BY <1>2, <2>6
<1> QED
  BY <1>6, <1>7

LEMMA SoundStep ==
  ASSUME Typed, Typed', Sound, [Next]_vars
  PROVE  Sound'
<1>1. ASSUME NEW p \in Procs, NEW o \in Op, NEW w \in Place, NEW f \in Flags, Begin(p, o, w, f)
      PROVE  Sound'
  <2>1. UNCHANGED <<env, life, info, disk>>
    BY <1>1 DEF Begin, userVars, proxyVars
  <2>2. LooksRight(p)' /\ Truth(p)'
    BY <1>1 DEF Begin, Goto, LooksRight, Truth, Typed, ProcTypes
  <2>3. ASSUME NEW x \in Procs, x # p PROVE LooksRight(x)' /\ Truth(x)'
    BY <1>1, <2>1, <2>3, CalmSound DEF Begin, Goto, Sound, Typed, ProcTypes
  <2> QED
    BY <2>1, <2>2, <2>3, CalmSound DEF Sound
<1>2. ASSUME NEW p \in Procs, Spawn(p) \/ (Done(p) /\ UNCHANGED <<env, life, info, disk, report, calm>>)
      PROVE  Sound'
  <2>1. UNCHANGED <<env, life, info, disk, report, calm>>
    BY <1>2 DEF Spawn, userVars, proxyVars
  <2>2. at'[p] \in {"spawned", "idle"}
    BY <1>2 DEF Spawn, Done, Goto, Typed, ProcTypes
  <2>3. \A x \in Procs : x # p => at'[x] = at[x] /\ found'[x] = found[x]
    BY <1>2 DEF Spawn, Done, Goto, Typed, ProcTypes
  <2>4. ASSUME NEW x \in Procs PROVE LooksRight(x)' /\ Truth(x)'
    <3>1. CASE x = p
      BY <2>1, <2>2, <3>1, CalmSound DEF LooksRight, Sound
    <3>2. CASE x # p
      BY <2>1, <2>3, <3>2, CalmSound DEF Sound
    <3> QED
      BY <3>1, <3>2
  <2> QED
    BY <2>1, <2>4, CalmSound DEF Sound
<1>3. ASSUME NEW p \in Procs, Stop(p) PROVE Sound'
  <2>1. CASE disk[StateDir(config[p])].pid = None
    BY <1>2, <1>3, <2>1 DEF Stop, userVars
  <2>2. CASE disk[StateDir(config[p])].pid # None
    <3> DEFINE e == StateDir(config[p])
    <3>1. /\ Stir /\ life' = [life EXCEPT ![disk[e].pid] = "over"]
          /\ disk' = [disk EXCEPT ![e] = NoFiles] /\ info' = info
      BY <1>3, <2>2 DEF Stop
    <3>2. ASSUME NEW d \in Dir PROVE Marked(d)'
      <4>1. d = e => disk'[d].pid = None
        BY <3>1 DEF NoFiles, Typed, ProxyTypes
      <4>2. d # e => disk'[d] = disk[d]
        BY <3>1 DEF Typed, ProxyTypes
      <4>3. \A q \in Proxies : life'[q] \in {life[q], "over"}
        BY <3>1 DEF Typed, ProxyTypes
      <4>4. disk[d].pid \in Proxies \cup {None}
        BY DEF Typed, ProxyTypes, Files
      <4>5. Marked(d)
        BY DEF Sound
      <4> QED
        BY <3>1, <4>1, <4>2, <4>3, <4>4, <4>5 DEF Marked
    <3> QED
      BY <3>1, <3>2, StirSound
  <2> QED
    BY <2>1, <2>2
<1>4. ASSUME NEW p \in Procs, NEW q \in Proxies, Daemon(p, q) \/ Foreground(p, q) PROVE Sound'
  <2>1. PICK c, held : Serve(q, c, held) /\ c \in Keys /\ StateDir(c) \in Dir /\ c["port"] # None
    BY <1>4, LoadTyped DEF Daemon, Foreground, Typed, ProcTypes, Acting
  <2>2. \A d \in Dir : Marked(d)'
    BY <2>1, ServeMarked DEF Sound
  <2> QED
    BY <1>4, <2>2, StirSound DEF Daemon, Foreground
<1>5. ASSUME NEW p \in Procs, NEW q \in Proxies, DaemonFails(p, q) \/ ForegroundFails(p, q)
      PROVE  Sound'
  <2>1. PICK e \in Dir : Fails(q, e, Remains(q, e)) /\ info' = info
    BY <1>5, StartFails
  <2>2. \A d \in Dir : Marked(d)'
    BY <2>1, FailsMarked DEF Sound
  <2> QED
    BY <2>1, <2>2, StirSound DEF Fails
<1>6. ASSUME NEW p \in Procs, FindByEnv(p) \/ LookUser(p) \/ LookSys(p) PROVE Sound'
  <2>1. UNCHANGED <<env, life, info, disk, report, calm>>
    BY <1>6 DEF FindByEnv, LookUser, LookSys, Looking, userVars, proxyVars
  <2>2. ASSUME NEW x \in Procs, x # p PROVE at'[x] = at[x] /\ found'[x] = found[x]
    BY <1>6, <2>2 DEF FindByEnv, LookUser, LookSys, Find, Goto, Typed, ProcTypes
  <2>3. LooksRight(p)
    BY DEF Sound
  <2>4. calm[p] => \/ at'[p] = "sys" /\ EnvDir = None /\ ~Active(User)
                   \/ at'[p] = "found" /\ FoundRight(found'[p])
    <3>1. CASE FindByEnv(p)
      BY <3>1 DEF FindByEnv, Find, Goto, FoundRight, Typed, ProcTypes
    <3>2. CASE LookUser(p)
      BY <3>2 DEF LookUser, Find, Goto, FoundRight, Typed, ProcTypes
    <3>3. CASE LookSys(p)
      BY <2>3, <3>3 DEF LookSys, Looking, Find, Goto, FoundRight, LooksRight, Typed, ProcTypes
    <3> QED
      BY <1>6, <3>1, <3>2, <3>3
  <2>5. EnvDir' = EnvDir
    BY <2>1 DEF EnvDir
  <2>6. LooksRight(p)'
    BY <2>1, <2>4, <2>5, CalmSound DEF LooksRight
  <2>7. ASSUME NEW x \in Procs PROVE LooksRight(x)' /\ Truth(x)'
    BY <2>1, <2>2, <2>6, CalmSound DEF Sound
  <2> QED
    BY <2>1, <2>7, CalmSound DEF Sound
<1>7. ASSUME NEW p \in Procs, Report(p) PROVE Sound'
  <2>1. UNCHANGED <<env, life, info, disk, calm>>
    BY <1>7 DEF Report, userVars, proxyVars
  <2>2. ASSUME NEW x \in Procs, x # p PROVE LooksRight(x)' /\ Truth(x)'
    BY <1>7, <2>1, <2>2, CalmSound DEF Report, Done, Goto, Sound, Typed, ProcTypes
  <2>3. at'[p] = "idle"
    BY <1>7 DEF Report, Done, Goto, Typed, ProcTypes
  <2>4. LooksRight(p)' /\ Truth(p)'
    BY <1>7, <2>3, ReportTrue DEF LooksRight
  <2> QED
    BY <2>1, <2>2, <2>4, CalmSound DEF Sound
<1>8. ASSUME NEW q \in Proxies, Kill(q) \/ Reuse(q) PROVE Sound'
  <2>1. /\ Stir /\ UNCHANGED <<info, disk>> /\ life[q] # "off"
        /\ life' = [life EXCEPT ![q] = "over"] \/ life' = [life EXCEPT ![q] = "another"]
    BY <1>8 DEF Kill, Reuse
  <2>2. ASSUME NEW d \in Dir PROVE Marked(d)'
    <3>1. disk[d].pid \in Proxies \cup {None} /\ Marked(d)
      BY DEF Typed, ProxyTypes, Files, Sound
    <3>2. \A x \in Proxies : life'[x] = life[x] \/ life'[x] \in {"over", "another"}
      BY <2>1 DEF Typed, ProxyTypes
    <3> QED
      BY <2>1, <3>1, <3>2 DEF Marked
  <2> QED
    BY <2>1, <2>2, StirSound
<1>9. CASE UNCHANGED vars
  <2>1. UNCHANGED <<env, life, info, disk, at, found, report, calm>>
    BY <1>9 DEF vars, userVars, procVars, proxyVars
  <2>2. ASSUME NEW x \in Procs PROVE LooksRight(x)' /\ Truth(x)'
    BY <2>1, CalmSound DEF Sound
  <2>3. ASSUME NEW d \in Dir PROVE Marked(d)'
    BY <2>1 DEF Sound, Marked
  <2> QED
    BY <2>2, <2>3 DEF Sound
<1>10. ASSUME NEW p \in Procs, AlreadyRunning(p) PROVE Sound'
  BY <1>2, <1>10 DEF AlreadyRunning, userVars, proxyVars
<1> QED
  BY <1>1, <1>2, <1>3, <1>4, <1>5, <1>6, <1>7, <1>8, <1>9, <1>10 DEF Next

(* For any number of directories, proxies and commands, with proxies that     *)
(* fail at any step of their start, are killed or stopped, in the foreground  *)
(* over the files of a daemon, and any configuration: what nkl status says is *)
(* so, if nothing came or went while it looked and no pid was used again;     *)
(* src/status.rs:38.                                                          *)
THEOREM StatusIsTrue == Spec => []StatusTellsTruth
<1>1. Sound => StatusTellsTruth
  BY DEF Sound, Truth, StatusTellsTruth
<1> QED
  BY <1>1, SoundInit, SoundStep, Typing, PTL DEF Spec
=============================================================================
