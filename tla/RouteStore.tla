----------------------------- MODULE RouteStore -----------------------------
(* The route store of src/routes.rs: routes.json, the routes.lock            *)
(* directory that guards its writers, and the nkl processes that add and     *)
(* remove routes.  One action per system call that another process can see:  *)
(* mkdir, stat and removal of the lock, the read of the file, and the two    *)
(* halves of fs::write, which truncates before it writes.                    *)
(*                                                                           *)
(* A path prefix is its segments and the number of slashes after them; a     *)
(* route's change_origin and strip_prefix ride along with its port.  The     *)
(* list in the file is a set: no operation here depends on its order.        *)
EXTENDS Integers, FiniteSets

CONSTANTS
  Procs,      \* the nkl processes, each with a pid of its own
  Static,     \* pid 0, the owner of an alias
  Hosts, Segs, Ports,
  Root,       \* the segments of "/"
  MaxTrail,   \* bound: trailing slashes on a path prefix
  Menu,       \* Menu[p]: the requests p may make
  MaxOps,     \* bound: requests a process makes
  MaxTries,   \* LOCK_MAX_RETRIES
  Signals,    \* <<p, q>>: kill(q, 0) by p succeeds while q runs
  Faults,     \* which of "crash", "stall" and "disk" can happen
  Stored      \* the routes in the file at the start

ASSUME StaticAssumption == Static \notin Procs
ASSUME BoundsAssumption == /\ MaxTrail \in Nat
                           /\ MaxOps \in Nat
                           /\ MaxTries \in Nat \ {0}
ASSUME FaultsAssumption == Faults \subseteq {"crash", "stall", "disk"}

Path  == [seg : Segs, trail : 0 .. MaxTrail]
Key   == [host : Hosts, path : Path]
Route == [key : Key, port : Ports, pid : Procs \cup {Static}]

(* A request as its read-modify-write sees it: the keys whose entries go,   *)
(* the entries that come (one to add, none to remove) and --force.          *)
Request == [drop : SUBSET Key, put : SUBSET Route, force : BOOLEAN]

ASSUME MenuAssumption ==
  /\ Menu \in [Procs -> SUBSET Request]
  /\ \A p \in Procs : \A q \in Menu[p] : \A r, s \in q.put : r = s

(* normalize_path_prefix: one trailing slash goes, at most.                 *)
Norm(path) ==
  IF path.trail > 0 THEN [path EXCEPT !.trail = @ - 1] ELSE path

(* What add_route and remove_route compare keys by.                         *)
Slot(key) == [key EXCEPT !.path = Norm(@)]
OnePerSlot(routes) == \A e, f \in routes : Slot(e.key) = Slot(f.key) => e = f

ASSUME StoredAssumption == Stored \subseteq Route /\ OnePerSlot(Stored)

(* The keys that compare equal to an already normalised prefix: the stored  *)
(* prefix is normalised once more for the comparison.                       *)
SameSlot(host, norm) ==
  {k \in Key : Slot(k) = [host |-> host, path |-> norm]}

AddRequest(host, path, port, pid, force) ==
  [drop  |-> SameSlot(host, Norm(path)),
   put   |-> {[key  |-> [host |-> host, path |-> Norm(path)],
               port |-> port, pid |-> pid]},
   force |-> force]

RemoveRequest(host, path) ==
  [drop |-> SameSlot(host, Norm(path)), put |-> {}, force |-> FALSE]

RemoveHostRequest(host) ==
  [drop |-> {k \in Key : k.host = host}, put |-> {}, force |-> FALSE]

(* nkl alias --remove: without a --path, or with "/", the hostname goes.    *)
AliasRemoveRequest(host, path) ==
  IF path = [seg |-> Root, trail |-> 0] THEN RemoveHostRequest(host)
                                        ELSE RemoveRequest(host, path)

-----------------------------------------------------------------------------
VARIABLES
  file,     \* routes.json: is it there, does it parse, what does it list
  lock,     \* routes.lock: is it there, who made it, is it past the threshold
  pc,       \* the system call each process is at, "idle" between requests
  job,      \* the request in hand
  snap,     \* the list in memory: load_routes' result, then what is saved
  tries,    \* failed attempts at the lock
  done      \* requests begun, for MaxOps

vars == <<file, lock, pc, job, snap, tries, done>>

(* "empty" is truncated and not yet written, "garbled" is torn JSON.        *)
File == [form : {"absent", "empty", "garbled", "json"}, routes : SUBSET Route]
Lock == [there : BOOLEAN, by : Procs \cup {Static}, old : BOOLEAN]

NoLock == [there |-> FALSE, by |-> Static, old |-> FALSE]
Json(routes) == [form |-> "json", routes |-> routes]
NoRequest == [drop |-> {}, put |-> {}, force |-> FALSE]

(* Where the LockGuard exists; "saved" and "failed" are about to drop it.   *)
InCS == {"load", "check", "write", "saved", "failed"}
PcValue == {"idle", "dead", "mkdir", "stat", "reclaim"} \cup InCS

(* A file that is absent or does not parse is an empty list.                *)
Parsed(f) == IF f.form = "json" THEN f.routes ELSE {}

(* Mutant: pid 0 is probed like any other.                                  *)
SeenAliveNoStatic(p) == {q \in Procs : pc[q] # "dead" /\ <<p, q>> \in Signals}

(* The owners is_process_alive finds running when p asks, and pid 0.        *)
SeenAlive(p) ==
  {Static} \cup {q \in Procs : pc[q] # "dead" /\ <<p, q>> \in Signals}

Init ==
  /\ file = IF Stored = {} THEN [form |-> "absent", routes |-> {}]
                           ELSE Json(Stored)
  /\ lock = NoLock
  /\ pc = [p \in Procs |-> "idle"]
  /\ job = [p \in Procs |-> NoRequest]
  /\ snap = [p \in Procs |-> {}]
  /\ tries = [p \in Procs |-> 0]
  /\ done = [p \in Procs |-> 0]

Goto(p, at) == pc' = [pc EXCEPT ![p] = at]

(* The request is over, its locals with it.                                 *)
Leave(p, at) == /\ Goto(p, at)
                /\ job' = [job EXCEPT ![p] = NoRequest]
                /\ snap' = [snap EXCEPT ![p] = {}]
                /\ tries' = [tries EXCEPT ![p] = 0]

-----------------------------------------------------------------------------
(* acquire_lock *)

Begin(p) ==
  /\ pc[p] = "idle" /\ done[p] < MaxOps
  /\ \E q \in Menu[p] : job' = [job EXCEPT ![p] = q]
  /\ done' = [done EXCEPT ![p] = @ + 1]
  /\ Goto(p, "mkdir")
  /\ UNCHANGED <<file, lock, snap, tries>>

Acquire(p) ==
  /\ pc[p] = "mkdir" /\ ~lock.there
  /\ lock' = [there |-> TRUE, by |-> p, old |-> FALSE]
  /\ Goto(p, "load")
  /\ UNCHANGED <<file, job, snap, tries, done>>

Contend(p) ==
  /\ pc[p] = "mkdir" /\ lock.there
  /\ Goto(p, "stat")
  /\ UNCHANGED <<file, lock, job, snap, tries, done>>

(* Mutants: the loop is not left, or the retries are not counted.           *)
SpendTryNoLimit(p) == /\ tries' = [tries EXCEPT ![p] = @ + 1]
                      /\ Goto(p, "mkdir")
                      /\ UNCHANGED <<job, snap>>
SpendTryUncounted(p) == Goto(p, "mkdir") /\ UNCHANGED <<job, snap, tries>>

(* One turn of the loop is spent; after the last one it is LockFailed.      *)
SpendTry(p) ==
  \/ /\ tries[p] + 1 < MaxTries
     /\ tries' = [tries EXCEPT ![p] = @ + 1]
     /\ Goto(p, "mkdir")
     /\ UNCHANGED <<job, snap>>
  \/ /\ tries[p] + 1 >= MaxTries
     /\ Leave(p, "idle")

(* The lock is young, or went away before the stat: sleep.                  *)
Sleep(p) ==
  /\ pc[p] = "stat" /\ ~(lock.there /\ lock.old)
  /\ SpendTry(p)
  /\ UNCHANGED <<file, lock, done>>

(* Mutant: any lock is taken for a stale one.                               *)
SeeStaleAnyLock(p) ==
  /\ pc[p] = "stat" /\ lock.there
  /\ Goto(p, "reclaim")
  /\ UNCHANGED <<file, lock, job, snap, tries, done>>

SeeStale(p) ==
  /\ pc[p] = "stat" /\ lock.there /\ lock.old
  /\ Goto(p, "reclaim")
  /\ UNCHANGED <<file, lock, job, snap, tries, done>>

(* remove_dir_all takes whatever lock is there now.                         *)
Reclaim(p) ==
  /\ pc[p] = "reclaim"
  /\ lock' = NoLock
  /\ SpendTry(p)
  /\ UNCHANGED <<file, done>>

-----------------------------------------------------------------------------
(* add_route and remove_route, with the lock held *)

Load(p) ==
  /\ pc[p] = "load"
  /\ snap' = [snap EXCEPT ![p] = {e \in Parsed(file) : e.pid \in SeenAlive(p)}]
  /\ Goto(p, "check")
  /\ UNCHANGED <<file, lock, job, tries, done>>

Matches(p) == {e \in snap[p] : e.key \in job[p].drop}

(* Mutant: an alias is nobody's.                                            *)
ConflictsNoStatic(p, e) ==
  \E r \in job[p].put :
    e.pid # r.pid /\ e.pid \in SeenAlive(p) \ {Static} /\ ~job[p].force

Conflicts(p, e) ==
  \E r \in job[p].put : e.pid # r.pid /\ e.pid \in SeenAlive(p) /\ ~job[p].force

(* Mutant: the lock is not dropped on the way out.                          *)
RefuseKeepingLock(p) ==
  /\ pc[p] = "check"
  /\ \E e \in Matches(p) : Conflicts(p, e)
  /\ Leave(p, "idle")
  /\ UNCHANGED <<file, lock, done>>

(* The first match decides; which one that is matters only if there are two. *)
Refuse(p) ==
  /\ pc[p] = "check"
  /\ \E e \in Matches(p) : Conflicts(p, e)
  /\ Goto(p, "failed")
  /\ UNCHANGED <<file, lock, job, snap, tries, done>>

(* Mutant: the new entry is pushed without the retain.                      *)
TruncateAppending(p) ==
  /\ pc[p] = "check"
  /\ Matches(p) = {} \/ \E e \in Matches(p) : ~Conflicts(p, e)
  /\ snap' = [snap EXCEPT ![p] = @ \cup job[p].put]
  /\ file' = [form |-> "empty", routes |-> {}]
  /\ Goto(p, "write")
  /\ UNCHANGED <<lock, job, tries, done>>

(* retain, push, and save_routes up to the truncation.                      *)
Truncate(p) ==
  /\ pc[p] = "check"
  /\ Matches(p) = {} \/ \E e \in Matches(p) : ~Conflicts(p, e)
  /\ snap' = [snap EXCEPT ![p] = (@ \ Matches(p)) \cup job[p].put]
  /\ file' = [form |-> "empty", routes |-> {}]
  /\ Goto(p, "write")
  /\ UNCHANGED <<lock, job, tries, done>>

(* Over an empty file the text is whole; over another writer's it is whole  *)
(* or the longer one's tail is left behind it.                              *)
WriteBody(p) ==
  /\ pc[p] = "write"
  /\ \/ file' = Json(snap[p])
     \/ /\ file.form # "empty"
        /\ file' = [form |-> "garbled", routes |-> {}]
  /\ Goto(p, "saved")
  /\ UNCHANGED <<lock, job, snap, tries, done>>

(* LockGuard's drop, on every way out.                                      *)
Release(p) ==
  /\ pc[p] \in {"saved", "failed"}
  /\ lock' = NoLock
  /\ Leave(p, "idle")
  /\ UNCHANGED <<file, done>>

-----------------------------------------------------------------------------
(* The environment *)

(* A system call fails: mkdir (no lock is held yet), the read, the open for *)
(* writing, or the write, which may leave a part of the text.               *)
IoError(p) ==
  /\ "disk" \in Faults
  /\ \/ pc[p] = "mkdir" /\ Leave(p, "idle") /\ UNCHANGED file
     \/ /\ pc[p] \in {"load", "check"}
        /\ Goto(p, "failed") /\ UNCHANGED <<file, job, snap, tries>>
     \/ /\ pc[p] = "write"
        /\ file' \in {file, [form |-> "garbled", routes |-> {}]}
        /\ Goto(p, "failed") /\ UNCHANGED <<job, snap, tries>>
  /\ UNCHANGED <<lock, done>>

(* A process exits or is killed; with the lock held only as a crash.        *)
Die(p) ==
  /\ pc[p] # "dead"
  /\ pc[p] \in InCS => "crash" \in Faults
  /\ Leave(p, "dead")
  /\ UNCHANGED <<file, lock, done>>

(* The lock passes STALE_LOCK_THRESHOLD, ten seconds for what takes         *)
(* milliseconds: its maker died, or was held up that long.                  *)
Age ==
  /\ lock.there /\ ~lock.old
  /\ pc[lock.by] = "dead" \/ "stall" \in Faults
  /\ lock' = [lock EXCEPT !.old = TRUE]
  /\ UNCHANGED <<file, pc, job, snap, tries, done>>

Step(p) == \/ Acquire(p) \/ Contend(p) \/ Sleep(p) \/ SeeStale(p) \/ Reclaim(p)
           \/ Load(p) \/ Refuse(p) \/ Truncate(p) \/ WriteBody(p) \/ Release(p)

Next == \/ \E p \in Procs : Begin(p) \/ Step(p) \/ IoError(p) \/ Die(p)
        \/ Age

Spec == Init /\ [][Next]_vars

(* A running process is scheduled.  Nobody has to make a request, die, or   *)
(* leave a lock long enough for it to age.                                  *)
FairSpec == Spec /\ \A p \in Procs : WF_vars(Step(p))

-----------------------------------------------------------------------------
(* Properties *)

(* Every variable keeps its type.                                           *)
TypeOK ==
  /\ file \in File
  /\ lock \in Lock
  /\ pc \in [Procs -> PcValue]
  /\ job \in [Procs -> Request]
  /\ snap \in [Procs -> SUBSET Route]
  /\ tries \in [Procs -> 0 .. MaxTries]
  /\ done \in [Procs -> 0 .. MaxOps]

(* The lock directory does its work: no two processes are inside the        *)
(* read-modify-write of routes.json at once.  The store is "protected by    *)
(* directory-based file locking" (architecture.md:17), as long as no lock   *)
(* goes stale: a stale one may be stolen by two.                            *)
MutualExclusion ==
  \A p, q \in Procs : pc[p] \in InCS /\ pc[q] \in InCS => p = q

(* No error path of add_route or remove_route leaves the lock behind: while *)
(* it is there its maker is still at work, or was killed.                   *)
NoLeakedLock == lock.there => pc[lock.by] \in InCS \cup {"dead"}

(* Every add names, among the keys it replaces, all those that compare      *)
(* equal to the one it stores: true while no prefix ends in two slashes.    *)
TidyMenu ==
  \A p \in Procs : \A q \in Menu[p] : \A r \in q.put : \A k \in Key :
    Slot(k) = Slot(r.key) => k \in q.drop

(* At most one route per hostname and path prefix, whatever fails and       *)
(* whoever else is writing: a request has one target.                       *)
UniqueSlots == OnePerSlot(Parsed(file))

(* A request that reports success has done what it was asked: as its guard  *)
(* is dropped the file holds the route it put, and none it dropped.         *)
SuccessIsStored ==
  \A p \in Procs : pc[p] = "saved" =>
    /\ job[p].put \subseteq Parsed(file)
    /\ \A e \in Parsed(file) \ job[p].put : e.key \notin job[p].drop

(* A save never loses a route its request did not name, unless the owner is *)
(* dead, by a list read before that route was there or by the probe, if the *)
(* caller may signal everybody.                                             *)
Running == {Static} \cup {p \in Procs : pc[p] # "dead"}
Saves(p) == pc[p] = "check" /\ pc'[p] = "write"
NoLiveRouteLost ==
  [][\A p \in Procs : Saves(p) =>
       \A e \in Parsed(file) :
         \/ e \in snap'[p] \/ e.key \in job[p].drop
         \/ e.pid \notin Running]_vars

(* --force is what overrides a route: without it an add replaces only routes *)
(* of its own owner and of dead ones, though the file was read steps before. *)
OverrideNeedsForce ==
  [][\A p \in Procs : Saves(p) /\ job[p].put # {} /\ ~job[p].force =>
       \A e \in Parsed(file) : e.key \in job[p].drop =>
         e.pid \notin Running \/ \E r \in job[p].put : e.pid = r.pid]_vars

(* An alias no request names is never lost: it is in the file whenever no   *)
(* running process is in the middle of writing it, where nobody dies so.    *)
Named == UNION {q.drop : q \in UNION {Menu[p] : p \in Procs}}
AliasesPersist ==
  (\A p \in Procs : pc[p] # "write") =>
    {e \in Stored : e.pid = Static /\ e.key \notin Named} \subseteq Parsed(file)

(* A request always returns: the wait for the lock is bounded.              *)
EveryRequestReturns ==
  \A p \in Procs : pc[p] \notin {"idle", "dead"} ~> pc[p] \in {"idle", "dead"}

(* The store is the atomic table of RouteTable: a change takes effect at    *)
(* the truncation, from which on the writer's list is what will be read.    *)
Writers == {p \in Procs : pc[p] = "write"}
Table == IF Writers = {} THEN Parsed(file) ELSE UNION {snap[p] : p \in Writers}

Atomic == INSTANCE RouteTable WITH
  Paths <- Path, table <- Table, alive <- {p \in Procs : pc[p] # "dead"}
AtomicTable == Atomic!Spec
=============================================================================
