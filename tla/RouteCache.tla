----------------------------- MODULE RouteCache -----------------------------
(* The proxy's route cache of src/proxy/server.rs, beside the processes      *)
(* of RouteStore that write routes.json.  The proxy reads the file without   *)
(* the lock: once when it starts, and again whenever a poll finds an mtime   *)
(* other than the one it remembers.                                          *)
EXTENDS RouteStore

CONSTANTS Proxy,      \* the proxy's process, as in <<Proxy, q>> \in Signals
          MaxStarts   \* bound: times the proxy is started

ASSUME CacheAssumption == MaxStarts \in Nat

VARIABLES
  mtime,    \* of routes.json; 0 while there is none
  at,       \* where the proxy is
  cache,    \* route_cache
  last,     \* last_mtime, 0 for None
  current,  \* current_mtime
  fresh,    \* new_routes
  missed,   \* history: what the list read last may have missed, and why
  starts    \* for MaxStarts

proxyVars == <<at, cache, last, current, fresh, starts>>
allVars == <<vars, mtime, missed, proxyVars>>

At == {"off", "booted", "sleep", "reload", "store"}

CacheInit ==
  /\ Init
  /\ mtime = IF Stored = {} THEN 0 ELSE 1
  /\ at = "off" /\ cache = {} /\ fresh = {} /\ missed = {}
  /\ last = 0 /\ current = 0 /\ starts = 0

(* A change of the file falls within the tick of the file system's clock of *)
(* the one before it, or within a later one.                                *)
Touch == mtime' \in IF file' = file THEN {mtime} ELSE {mtime, mtime + 1} \ {0}

(* The mtime that goes with the list read last.                             *)
Known == IF at = "store" THEN current ELSE last

(* History: the changes no poll will see, between the first load and the    *)
(* poller's first look ("start"), or after a read and within the tick that  *)
(* was seen before it ("tick").                                             *)
Slips ==
  {why \in {"start", "tick"} :
     /\ file' # file
     /\ IF why = "start" THEN at = "booted"
                         ELSE at \in {"store", "sleep"} /\ mtime' = Known}

StoreStep == /\ Next /\ Touch
             /\ missed' = missed \cup Slips
             /\ UNCHANGED proxyVars

(* load_routes without the lock; a torn file reads as an empty one.         *)
Loaded == {e \in Parsed(file) : e.pid \in SeenAlive(Proxy)}

(* load_routes_from_disk: and so does one that cannot be read.              *)
Reads == {[list |-> Loaded, missed |-> {}]}
           \cup {[list |-> {}, missed |-> {"error"}] : f \in Faults \cap {"disk"}}

(* file_mtime: None where there is no file, or no metadata.                 *)
Stats == {mtime} \cup {0 : f \in Faults \cap {"disk"}}

(* start_proxy fills the cache, *)
Start ==
  /\ at = "off" /\ starts < MaxStarts
  /\ starts' = starts + 1
  /\ \E r \in Reads : cache' = r.list /\ missed' = r.missed
  /\ at' = "booted"
  /\ UNCHANGED <<vars, mtime, last, current, fresh>>

(* and then the poller's task runs for the first time.                      *)
Watch ==
  /\ at = "booted"
  /\ last' \in Stats
  /\ at' = "sleep"
  /\ UNCHANGED <<vars, mtime, missed, cache, current, fresh, starts>>

(* Mutant: the mtime is not compared.                                       *)
PollAlways ==
  /\ at = "sleep"
  /\ current' \in Stats
  /\ at' = "reload"
  /\ UNCHANGED <<vars, mtime, missed, cache, last, fresh, starts>>

(* A poll that finds the mtime changed, *)
Poll ==
  /\ at = "sleep"
  /\ current' \in Stats \ {last}
  /\ at' = "reload"
  /\ UNCHANGED <<vars, mtime, missed, cache, last, fresh, starts>>

(* Mutant: an empty list is taken for a torn read.                          *)
ReadKeepingOld ==
  /\ at = "reload"
  /\ \E r \in Reads : /\ fresh' = IF r.list = {} THEN cache ELSE r.list
                      /\ missed' = r.missed
  /\ at' = "store"
  /\ UNCHANGED <<vars, mtime, cache, last, current, starts>>

(* reads the file, *)
Read ==
  /\ at = "reload"
  /\ \E r \in Reads : fresh' = r.list /\ missed' = r.missed
  /\ at' = "store"
  /\ UNCHANGED <<vars, mtime, cache, last, current, starts>>

(* Mutant: the mtime of the time of the store is remembered.                *)
StoreLateStat ==
  /\ at = "store"
  /\ cache' = fresh
  /\ last' = mtime
  /\ at' = "sleep"
  /\ UNCHANGED <<vars, mtime, missed, current, fresh, starts>>

(* and, given the write lock of the cache, remembers the mtime from before. *)
Store ==
  /\ at = "store"
  /\ cache' = fresh
  /\ last' = current
  /\ at' = "sleep"
  /\ UNCHANGED <<vars, mtime, missed, current, fresh, starts>>

(* A signal or a crash: the cache goes with the process.                    *)
Stop ==
  /\ at # "off" /\ at' = "off"
  /\ cache' = {} /\ fresh' = {} /\ missed' = {} /\ last' = 0 /\ current' = 0
  /\ UNCHANGED <<vars, mtime, starts>>

CacheNext == StoreStep \/ Start \/ Watch \/ Poll \/ Read \/ Store \/ Stop

CacheSpec == CacheInit /\ [][CacheNext]_allVars

(* The processes of the store run on; the poller's timer fires and its task *)
(* gets the cache's lock.  Nobody has to start or stop the proxy.           *)
FairCacheSpec ==
  /\ CacheSpec
  /\ \A p \in Procs : WF_allVars(Step(p) /\ StoreStep)
  /\ WF_allVars(Watch) /\ WF_allVars(Poll) /\ WF_allVars(Read) /\ WF_allVars(Store)

-----------------------------------------------------------------------------
(* Properties *)

(* Every variable keeps its type, there is an mtime once there is a file,   *)
(* and a reload is under way only for an mtime other than the last one.     *)
CacheTypeOK ==
  /\ mtime \in Nat /\ last \in Nat /\ current \in Nat
  /\ cache \subseteq Route /\ fresh \subseteq Route
  /\ missed \subseteq {"error", "start", "tick"}
  /\ at \in At /\ starts \in 0 .. MaxStarts
  /\ mtime = 0 <=> file.form = "absent"
  /\ at \in {"reload", "store"} => current # last

(* A list shows the file: every route in the file whose owner runs is on    *)
(* it, and nothing is on it that is not in the file.                        *)
Shows(routes) == /\ {e \in Parsed(file) : e.pid \in Running} \subseteq routes
                 /\ routes \subseteq Parsed(file)

(* Where the poller comes to rest the cache shows the file: a list that is  *)
(* in the cache, or about to be, under the present mtime of the file is     *)
(* what the file says, however its read fell between the halves of a save.  *)
(* There are three ways round it, each a history: the read failed and gave  *)
(* an empty list; the file changed before the first stat; or it changed     *)
(* after the read within the tick of the mtime seen before.                 *)
NeverMasksAChange ==
  /\ at = "store" /\ current = mtime => missed # {} \/ Shows(fresh)
  /\ at = "sleep" /\ last = mtime    => missed # {} \/ Shows(cache)

(* A change the poller can see is picked up, unless the reload that was to  *)
(* do so is the last one and went one of those ways.                        *)
ChangeIsPickedUp ==
  (at = "sleep" /\ last # mtime) ~>
    (at = "off" \/ Shows(cache) \/ (at = "store" /\ current = mtime /\ missed # {}))
=============================================================================
