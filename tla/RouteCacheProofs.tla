--------------------------- MODULE RouteCacheProofs ---------------------------
(* Theorems about RouteStore, for every number of processes, every menu of    *)
(* requests and every value of the bounds, and about RouteCache, which has    *)
(* the poller beside it, for any number of starts of the proxy.               *)
EXTENDS RouteCache, TLAPS

LEMMA MenuTyped == \A p \in Procs : Menu[p] \subseteq Request
BY MenuAssumption

LEMMA NoLockTyped == NoLock \in Lock
BY DEF NoLock, Lock

LEMMA NoRequestTyped == NoRequest \in Request
BY DEF NoRequest, Request

(* Every reachable state is well typed, under all faults.                     *)
THEOREM Typing == Spec => []TypeOK
<1>1. Init => TypeOK
  BY BoundsAssumption, StoredAssumption, NoRequestTyped
  DEF Init, TypeOK, File, Lock, NoLock, Json, PcValue, InCS
<1>2. TypeOK /\ [Next]_vars => TypeOK'
  <2> SUFFICES ASSUME TypeOK, [Next]_vars PROVE TypeOK'
    OBVIOUS
  <2> USE BoundsAssumption, StaticAssumption
  <2>1. ASSUME NEW p \in Procs, Begin(p) PROVE TypeOK'
    <3>1. PICK q \in Menu[p] : job' = [job EXCEPT ![p] = q]
      BY <2>1 DEF Begin
    <3>2. q \in Request
      BY MenuTyped
    <3>3. done[p] < MaxOps /\ done[p] \in Nat /\ done' = [done EXCEPT ![p] = @ + 1]
      BY <2>1 DEF TypeOK, Begin
    <3>4. done' \in [Procs -> 0 .. MaxOps]
      BY <3>3 DEF TypeOK
    <3> QED
      BY <2>1, <3>1, <3>2, <3>4 DEF TypeOK, Begin, Goto, PcValue
  <2>2. ASSUME NEW p \in Procs, Step(p) PROVE TypeOK'
    <3>1. CASE Acquire(p)
      BY <3>1 DEF TypeOK, Acquire, Goto, PcValue, InCS, Lock
    <3>2. CASE Contend(p) \/ SeeStale(p)
      BY <3>2 DEF TypeOK, Contend, SeeStale, Goto, PcValue
    <3>3. ASSUME SpendTry(p)
          PROVE  /\ pc' \in [Procs -> PcValue] /\ job' \in [Procs -> Request]
                 /\ snap' \in [Procs -> SUBSET Route]
                 /\ tries' \in [Procs -> 0 .. MaxTries]
      <4>1. CASE Leave(p, "idle")
        BY <4>1, NoRequestTyped DEF TypeOK, Leave, Goto, PcValue
      <4>2. CASE /\ tries[p] + 1 < MaxTries
                 /\ tries' = [tries EXCEPT ![p] = @ + 1]
                 /\ Goto(p, "mkdir")
                 /\ UNCHANGED <<job, snap>>
        BY <4>2 DEF TypeOK, Goto, PcValue
      <4> QED
        BY <3>3, <4>1, <4>2 DEF SpendTry
    <3>4. CASE Sleep(p) \/ Reclaim(p)
      <4>1. SpendTry(p) /\ UNCHANGED <<file, done>>
        BY <3>4 DEF Sleep, Reclaim
      <4>2. lock' \in Lock
        BY <3>4, NoLockTyped DEF TypeOK, Sleep, Reclaim
      <4> QED
        BY <3>3, <4>1, <4>2 DEF TypeOK
    <3>5. CASE Load(p)
      <4>1. Parsed(file) \subseteq Route
        BY DEF TypeOK, File, Parsed
      <4> QED
        BY <3>5, <4>1 DEF TypeOK, Load, Goto, PcValue, InCS
    <3>6. CASE Refuse(p)
      BY <3>6 DEF TypeOK, Refuse, Goto, PcValue, InCS
    <3>7. CASE Truncate(p)
      <4>1. (snap[p] \ Matches(p)) \cup job[p].put \in SUBSET Route
        BY DEF TypeOK, Request
      <4> QED
        BY <3>7, <4>1 DEF TypeOK, Truncate, Goto, PcValue, InCS, File
    <3>8. CASE WriteBody(p)
      BY <3>8 DEF TypeOK, WriteBody, Goto, PcValue, InCS, File, Json
    <3>9. CASE Release(p)
      BY <3>9, NoRequestTyped, NoLockTyped DEF TypeOK, Release, Leave, Goto, PcValue
    <3> QED
      BY <2>2, <3>1, <3>2, <3>4, <3>5, <3>6, <3>7, <3>8, <3>9 DEF Step
  <2>3. ASSUME NEW p \in Procs, IoError(p) PROVE TypeOK'
    BY <2>3, NoRequestTyped DEF TypeOK, IoError, Leave, Goto, PcValue, InCS, File
  <2>4. ASSUME NEW p \in Procs, Die(p) PROVE TypeOK'
    BY <2>4, NoRequestTyped DEF TypeOK, Die, Leave, Goto, PcValue
  <2>5. CASE Age
    BY <2>5 DEF TypeOK, Age, Lock
  <2>6. CASE UNCHANGED vars
    BY <2>6 DEF TypeOK, vars
  <2> QED
    BY <2>1, <2>2, <2>3, <2>4, <2>5, <2>6 DEF Next
<1> QED
  BY <1>1, <1>2, PTL DEF Spec
-----------------------------------------------------------------------------
(* The lock *)

(* A lock is made by a process that is inside, or has been killed there; it   *)
(* is never one that left.                                                    *)
MadeInside == lock.there => lock.by \in Procs /\ pc[lock.by] \in InCS \cup {"dead"}

(* No error path leaves the lock behind, under all faults: crashed and        *)
(* stalled holders, waiters that take their locks away, failing system calls. *)
THEOREM LockNotLeaked == Spec => []NoLeakedLock
<1>1. Init => MadeInside
  BY DEF Init, MadeInside, NoLock
<1>2. TypeOK /\ MadeInside /\ [Next]_vars => MadeInside'
  <2> SUFFICES ASSUME TypeOK, MadeInside, [Next]_vars PROVE MadeInside'
    OBVIOUS
  <2> USE DEF MadeInside, TypeOK, InCS
  <2>1. ASSUME NEW p \in Procs, Step(p) PROVE MadeInside'
    <3>1. CASE Acquire(p)
      BY <3>1 DEF Acquire, Goto
    <3>2. CASE Contend(p) \/ SeeStale(p) \/ Load(p) \/ Refuse(p) \/ Truncate(p) \/ WriteBody(p)
      BY <3>2 DEF Contend, SeeStale, Load, Refuse, Truncate, WriteBody, Goto
    <3>3. CASE Sleep(p)
      BY <3>3 DEF Sleep, SpendTry, Leave, Goto
    <3>4. CASE Reclaim(p) \/ Release(p)
      BY <3>4 DEF Reclaim, Release, NoLock
    <3> QED
      BY <2>1, <3>1, <3>2, <3>3, <3>4 DEF Step
  <2>2. ASSUME NEW p \in Procs, Begin(p) \/ IoError(p) \/ Die(p) PROVE MadeInside'
    BY <2>2 DEF Begin, IoError, Die, Leave, Goto
  <2>3. CASE Age
    BY <2>3 DEF Age, Lock
  <2>4. CASE UNCHANGED vars
    BY <2>4 DEF vars
  <2> QED
    BY <2>1, <2>2, <2>3, <2>4 DEF Next
<1>3. MadeInside => NoLeakedLock
  BY DEF MadeInside, NoLeakedLock
<1> QED
  BY <1>1, <1>2, <1>3, Typing, PTL DEF Spec

(* What makes the lock exclusive: it never gets old, so nobody takes it away, *)
(* and whoever is inside made the one that is there.                          *)
Exclusive ==
  /\ ~lock.old
  /\ lock.there => lock.by \in Procs /\ pc[lock.by] \in InCS
  /\ \A p \in Procs : /\ pc[p] # "reclaim"
                      /\ pc[p] \in InCS => lock.there /\ lock.by = p

LEMMA ExclusiveInvariant ==
  ASSUME Faults \subseteq {"disk"}
  PROVE  Spec => []Exclusive
<1>1. Init => Exclusive
  BY DEF Init, Exclusive, NoLock, InCS
<1>2. TypeOK /\ Exclusive /\ [Next]_vars => Exclusive'
  <2> SUFFICES ASSUME TypeOK, Exclusive, [Next]_vars PROVE Exclusive'
    OBVIOUS
  <2> USE DEF Exclusive, TypeOK, InCS
  <2>1. ASSUME NEW p \in Procs, Step(p) PROVE Exclusive'
    <3>1. CASE Acquire(p)
      BY <3>1 DEF Acquire, Goto
    <3>2. CASE Contend(p) \/ Load(p) \/ Refuse(p) \/ Truncate(p) \/ WriteBody(p)
      BY <3>2 DEF Contend, Load, Refuse, Truncate, WriteBody, Goto
    <3>3. CASE Sleep(p)
      BY <3>3 DEF Sleep, SpendTry, Leave, Goto
    <3>4. CASE SeeStale(p) \/ Reclaim(p)
      BY <3>4 DEF SeeStale, Reclaim
    <3>5. CASE Release(p)
      BY <3>5 DEF Release, Leave, Goto, NoLock
    <3> QED
      BY <2>1, <3>1, <3>2, <3>3, <3>4, <3>5 DEF Step
  <2>2. ASSUME NEW p \in Procs, Begin(p) \/ IoError(p) \/ Die(p) PROVE Exclusive'
    BY <2>2 DEF Begin, IoError, Die, Leave, Goto
  <2>3. CASE Age
    BY <2>3 DEF Age
  <2>4. CASE UNCHANGED vars
    BY <2>4 DEF vars
  <2> QED
    BY <2>1, <2>2, <2>3, <2>4 DEF Next
<1> QED
  BY <1>1, <1>2, Typing, PTL DEF Spec

(* Mutual exclusion holds as long as no holder dies or is held up for ten     *)
(* seconds, whatever else fails.                                              *)
THEOREM LockExcludes ==
  ASSUME Faults \subseteq {"disk"}
  PROVE  Spec => []MutualExclusion
<1>1. Exclusive => MutualExclusion
  BY DEF Exclusive, MutualExclusion
<1> QED
  BY <1>1, ExclusiveInvariant, PTL
-----------------------------------------------------------------------------
(* One route per slot *)

(* The request in hand is one from the menu.                                  *)
FromMenu == \A p \in Procs : IF pc[p] \in {"idle", "dead"} THEN job[p] = NoRequest
                                                          ELSE job[p] \in Menu[p]

LEMMA FromMenuInvariant == Spec => []FromMenu
<1>1. Init => FromMenu
  BY DEF Init, FromMenu
<1>2. TypeOK /\ FromMenu /\ [Next]_vars => FromMenu'
  <2> SUFFICES ASSUME TypeOK, FromMenu, [Next]_vars PROVE FromMenu'
    OBVIOUS
  <2> USE DEF FromMenu, TypeOK
  <2>1. ASSUME NEW p \in Procs, Begin(p) \/ IoError(p) \/ Die(p) PROVE FromMenu'
    BY <2>1 DEF Begin, IoError, Die, Leave, Goto
  <2>2. ASSUME NEW p \in Procs, Step(p) PROVE FromMenu'
    BY <2>2 DEF Step, Acquire, Contend, Sleep, SeeStale, Reclaim, SpendTry, Load,
                Refuse, Truncate, WriteBody, Release, Leave, Goto
  <2>3. CASE Age \/ UNCHANGED vars
    BY <2>3 DEF Age, vars
  <2> QED
    BY <2>1, <2>2, <2>3 DEF Next
<1> QED
  BY <1>1, <1>2, Typing, PTL DEF Spec

(* Not only the file: every list in memory, which may yet be saved over it.   *)
OneEach == /\ OnePerSlot(file.routes)
           /\ \A p \in Procs : OnePerSlot(snap[p])

LEMMA SubsetOnePerSlot ==
  ASSUME NEW S, NEW T \in SUBSET S, OnePerSlot(S)
  PROVE  OnePerSlot(T)
BY DEF OnePerSlot

(* retain and push: the new entry meets no other of its slot.                 *)
LEMMA RetainAndPush ==
  ASSUME TidyMenu, NEW p \in Procs, NEW q \in Menu[p],
         NEW S \in SUBSET Route, OnePerSlot(S)
  PROVE  OnePerSlot((S \ {e \in S : e.key \in q.drop}) \cup q.put)
<1> DEFINE kept == S \ {e \in S : e.key \in q.drop}
<1>1. \A e \in kept : e.key \in Key /\ e.key \notin q.drop
  BY DEF Route
<1>2. \A r \in q.put, e \in kept : Slot(e.key) # Slot(r.key)
  BY <1>1 DEF TidyMenu
<1>3. \A r, s \in q.put : r = s
  BY MenuAssumption
<1>4. OnePerSlot(kept)
  BY SubsetOnePerSlot
<1> QED
  BY <1>2, <1>3, <1>4 DEF OnePerSlot

(* A request has one target: whatever crashes, stalls or fails, the file      *)
(* never lists two routes for one hostname and prefix, provided no prefix     *)
(* ends in two slashes.                                                       *)
THEOREM OneRoutePerSlot ==
  ASSUME TidyMenu
  PROVE  Spec => []UniqueSlots
<1>1. Init => OneEach
  BY StoredAssumption DEF Init, OneEach, OnePerSlot, Json
<1>2. TypeOK /\ FromMenu /\ OneEach /\ [Next]_vars => OneEach'
  <2> SUFFICES ASSUME TypeOK, FromMenu, OneEach, [Next]_vars PROVE OneEach'
    OBVIOUS
  <2>1. ASSUME NEW T, OnePerSlot(T), NEW p \in Procs,
               snap' = [snap EXCEPT ![p] = T], file' = file
        PROVE  OneEach'
    BY <2>1 DEF TypeOK, OneEach
  <2>2. OnePerSlot({})
    BY DEF OnePerSlot
  <2>3. ASSUME NEW p \in Procs, Leave(p, "idle") \/ Leave(p, "dead"), file' = file
        PROVE  OneEach'
    BY <2>1, <2>2, <2>3 DEF Leave
  <2>4. ASSUME UNCHANGED <<file, snap>> PROVE OneEach'
    BY <2>4 DEF OneEach
  <2>5. ASSUME NEW p \in Procs, Step(p) PROVE OneEach'
    <3>1. CASE Acquire(p) \/ Contend(p) \/ SeeStale(p) \/ Refuse(p)
      BY <3>1, <2>4 DEF Acquire, Contend, SeeStale, Refuse
    <3>2. CASE Sleep(p) \/ Reclaim(p) \/ Release(p)
      BY <3>2, <2>3, <2>4 DEF Sleep, Reclaim, Release, SpendTry
    <3>3. CASE Load(p)
      <4>1. OnePerSlot(Parsed(file))
        BY <2>2 DEF OneEach, Parsed
      <4>2. OnePerSlot({e \in Parsed(file) : e.pid \in SeenAlive(p)})
        BY <4>1, SubsetOnePerSlot
      <4> QED
        BY <3>3, <4>2, <2>1 DEF Load
    <3>4. CASE Truncate(p)
      <4>1. job[p] \in Menu[p] \cup {NoRequest} /\ snap[p] \in SUBSET Route /\ OnePerSlot(snap[p])
        BY DEF TypeOK, FromMenu, OneEach
      <4>2. OnePerSlot((snap[p] \ Matches(p)) \cup job[p].put)
        <5>1. CASE job[p] \in Menu[p]
          BY <4>1, <5>1, RetainAndPush DEF Matches
        <5>2. CASE job[p] = NoRequest
          BY <4>1, <5>2, SubsetOnePerSlot DEF NoRequest
        <5> QED
          BY <4>1, <5>1, <5>2
      <4>3. snap' = [snap EXCEPT ![p] = (@ \ Matches(p)) \cup job[p].put] /\ file'.routes = {}
        BY <3>4 DEF Truncate
      <4> QED
        BY <4>2, <4>3, <2>2 DEF OneEach, TypeOK
    <3>5. CASE WriteBody(p)
      BY <3>5, <2>2 DEF WriteBody, OneEach, Json
    <3> QED
      BY <2>5, <3>1, <3>2, <3>3, <3>4, <3>5 DEF Step
  <2>6. ASSUME NEW p \in Procs, IoError(p) PROVE OneEach'
    BY <2>6, <2>2, <2>3 DEF IoError, OneEach
  <2>7. ASSUME NEW p \in Procs, Begin(p) \/ Die(p) PROVE OneEach'
    BY <2>7, <2>3, <2>4 DEF Begin, Die
  <2>8. CASE Age \/ UNCHANGED vars
    BY <2>8, <2>4 DEF Age, vars
  <2> QED
    BY <2>5, <2>6, <2>7, <2>8 DEF Next
<1>3. OneEach => UniqueSlots
  BY DEF OneEach, UniqueSlots, Parsed, OnePerSlot
<1> QED
  BY <1>1, <1>2, <1>3, Typing, FromMenuInvariant, PTL DEF Spec
-----------------------------------------------------------------------------
(* What is saved *)

(* The list in memory is the one the request asked for.                       *)
Carried(p) == /\ job[p].put \subseteq snap[p]
              /\ \A e \in snap[p] \ job[p].put : e.key \notin job[p].drop

(* Between the load and the save the file says what the process that is       *)
(* inside read in it, and then what it writes.                                *)
InStep ==
  \A p \in Procs :
    /\ pc[p] = "check" => \A e \in Parsed(file) : e \in snap[p] \/ e.pid \notin SeenAlive(p)
    /\ pc[p] = "write" => Carried(p) /\ file.form = "empty"
    /\ pc[p] = "saved" => Carried(p) /\ file = Json(snap[p])

LEMMA InStepInvariant ==
  ASSUME Faults \subseteq {"disk"}
  PROVE  Spec => []InStep
<1>1. Init => InStep
  BY DEF Init, InStep
<1>2. TypeOK /\ Exclusive /\ InStep /\ [Next]_vars => InStep'
  <2> SUFFICES ASSUME TypeOK, Exclusive, InStep, [Next]_vars,
                      NEW p \in Procs
               PROVE  /\ pc'[p] = "check" =>
                           \A e \in Parsed(file)' : e \in snap'[p] \/ e.pid \notin SeenAlive(p)'
                      /\ pc'[p] = "write" => Carried(p)' /\ file'.form = "empty"
                      /\ pc'[p] = "saved" => Carried(p)' /\ file' = Json(snap'[p])
    BY DEF InStep
  <2> DEFINE Goal == /\ pc'[p] = "check" =>
                           \A e \in Parsed(file)' : e \in snap'[p] \/ e.pid \notin SeenAlive(p)'
                     /\ pc'[p] = "write" => Carried(p)' /\ file'.form = "empty"
                     /\ pc'[p] = "saved" => Carried(p)' /\ file' = Json(snap'[p])
  <2> SUFFICES Goal
    OBVIOUS
  <2>1. ASSUME SeenAlive(p)' \subseteq SeenAlive(p), UNCHANGED file,
               pc'[p] = pc[p], snap'[p] = snap[p], job'[p] = job[p]
        PROVE  Goal
    BY <2>1 DEF InStep, Carried, Parsed
  <2>2. ASSUME pc'[p] \notin {"check", "write", "saved"} PROVE Goal
    BY <2>2
  <2> HIDE DEF Goal
  <2>3. ASSUME NEW q \in Procs, Step(q), q # p PROVE Goal
    <3>1. CASE pc[q] \in InCS
      <4>1. pc[p] \notin InCS
        BY <2>3, <3>1 DEF Exclusive
      <4>2. pc'[p] = pc[p]
        BY <2>3 DEF TypeOK, Step, Acquire, Contend, Sleep, SeeStale, Reclaim, SpendTry, Load,
                    Refuse, Truncate, WriteBody, Release, Leave, Goto
      <4> QED
        BY <4>1, <4>2, <2>2 DEF InCS
    <3>2. CASE pc[q] \notin InCS
      <4>1. Acquire(q) \/ Contend(q) \/ Sleep(q) \/ SeeStale(q)
        BY <2>3, <3>2 DEF Step, Reclaim, Load, Refuse, Truncate, WriteBody, Release, InCS, Exclusive
      <4>2. /\ UNCHANGED file /\ pc'[p] = pc[p] /\ snap'[p] = snap[p] /\ job'[p] = job[p]
            /\ pc[q] # "dead" /\ pc' = [pc EXCEPT ![q] = pc'[q]]
        BY <2>3, <4>1 DEF TypeOK, Acquire, Contend, Sleep, SeeStale, SpendTry, Leave, Goto
      <4>3. SeenAlive(p)' \subseteq SeenAlive(p)
        BY <4>2 DEF SeenAlive, TypeOK
      <4> QED
        BY <4>2, <4>3, <2>1
    <3> QED
      BY <3>1, <3>2
  <2>4. ASSUME Step(p) PROVE Goal
    <3>1. CASE Acquire(p) \/ Contend(p) \/ Sleep(p) \/ SeeStale(p) \/ Reclaim(p) \/ Refuse(p) \/ Release(p)
      BY <3>1, <2>2 DEF TypeOK, Acquire, Contend, Sleep, SeeStale, Reclaim, SpendTry,
                        Refuse, Release, Leave, Goto
    <3>2. CASE Load(p)
      <4>1. pc'[p] = "check" /\ snap'[p] = {e \in Parsed(file) : e.pid \in SeenAlive(p)}
            /\ UNCHANGED file /\ pc' = [pc EXCEPT ![p] = "check"] /\ pc[p] = "load"
        BY <3>2 DEF Load, Goto, TypeOK
      <4>2. SeenAlive(p)' = SeenAlive(p)
        BY <4>1 DEF SeenAlive, TypeOK
      <4> QED
        BY <4>1, <4>2 DEF Goal, Parsed
    <3>3. CASE Truncate(p)
      <4>1. /\ pc'[p] = "write" /\ snap'[p] = (snap[p] \ Matches(p)) \cup job[p].put
            /\ job' = job /\ file'.form = "empty"
        BY <3>3 DEF Truncate, Goto, TypeOK
      <4> QED
        BY <4>1 DEF Goal, Carried, Matches
    <3>4. CASE WriteBody(p)
      <4>1. pc[p] = "write" /\ pc'[p] = "saved" /\ UNCHANGED <<snap, job>>
        BY <3>4 DEF WriteBody, Goto, TypeOK
      <4>2. file.form = "empty" /\ Carried(p)
        BY <4>1 DEF InStep
      <4>3. file' = Json(snap[p])
        BY <3>4, <4>2 DEF WriteBody
      <4> QED
        BY <4>1, <4>2, <4>3 DEF Goal, Carried
    <3> QED
      BY <2>4, <3>1, <3>2, <3>3, <3>4 DEF Step
  <2>5. ASSUME NEW q \in Procs, IoError(q) PROVE Goal
    <3>1. CASE q = p
      BY <2>5, <3>1, <2>2 DEF IoError, Leave, Goto, TypeOK
    <3>2. CASE q # p /\ pc[q] = "mkdir"
      <4>1. /\ UNCHANGED file /\ pc'[p] = pc[p] /\ snap'[p] = snap[p] /\ job'[p] = job[p]
            /\ pc' = [pc EXCEPT ![q] = "idle"]
        BY <2>5, <3>2 DEF IoError, Leave, Goto, TypeOK
      <4>2. SeenAlive(p)' = SeenAlive(p)
        BY <4>1, <3>2 DEF SeenAlive, TypeOK
      <4> QED
        BY <4>1, <4>2, <2>1
    <3>3. CASE q # p /\ pc[q] \in InCS
      BY <2>5, <3>3, <2>2 DEF IoError, Leave, Goto, TypeOK, Exclusive, InCS
    <3> QED
      BY <2>5, <3>1, <3>2, <3>3 DEF IoError, InCS
  <2>6. ASSUME NEW q \in Procs, Begin(q) PROVE Goal
    <3>1. CASE q = p
      BY <2>6, <3>1, <2>2 DEF Begin, Goto, TypeOK
    <3>2. CASE q # p
      <4>1. /\ UNCHANGED file /\ pc'[p] = pc[p] /\ snap'[p] = snap[p] /\ job'[p] = job[p]
            /\ pc' = [pc EXCEPT ![q] = "mkdir"] /\ pc[q] = "idle"
        BY <2>6, <3>2 DEF Begin, Goto, TypeOK
      <4>2. SeenAlive(p)' = SeenAlive(p)
        BY <4>1 DEF SeenAlive, TypeOK
      <4> QED
        BY <4>1, <4>2, <2>1
    <3> QED
      BY <3>1, <3>2
  <2>7. ASSUME NEW q \in Procs, Die(q) PROVE Goal
    <3>1. CASE q = p
      BY <2>7, <3>1, <2>2 DEF Die, Leave, Goto, TypeOK
    <3>2. CASE q # p
      <4>1. /\ UNCHANGED file /\ pc'[p] = pc[p] /\ snap'[p] = snap[p] /\ job'[p] = job[p]
            /\ pc' = [pc EXCEPT ![q] = "dead"]
        BY <2>7, <3>2 DEF Die, Leave, Goto, TypeOK
      <4>2. SeenAlive(p)' \subseteq SeenAlive(p)
        BY <4>1 DEF SeenAlive, TypeOK
      <4> QED
        BY <4>1, <4>2, <2>1
    <3> QED
      BY <3>1, <3>2
  <2>8. CASE Age \/ UNCHANGED vars
    <3>1. UNCHANGED <<file, pc, snap, job>>
      BY <2>8 DEF Age, vars
    <3> QED
      BY <3>1, <2>1 DEF SeenAlive
  <2> QED
    BY <2>3, <2>4, <2>5, <2>6, <2>7, <2>8 DEF Next
<1> QED
  BY <1>1, <1>2, Typing, ExclusiveInvariant, PTL DEF Spec

(* A request that reports success is in the file as its guard drops: no       *)
(* other writer can have come in between.                                     *)
THEOREM SuccessStored ==
  ASSUME Faults \subseteq {"disk"}
  PROVE  Spec => []SuccessIsStored
<1>1. InStep => SuccessIsStored
  BY DEF InStep, SuccessIsStored, Carried, Json, Parsed
<1> QED
  BY <1>1, InStepInvariant, PTL

LEMMA SaveIsTruncation ==
  ASSUME TypeOK, Next, NEW p \in Procs, Saves(p)
  PROVE  Truncate(p)
<1>1. pc[p] = "check" /\ pc'[p] = "write"
  BY DEF Saves
<1>2. PICK q \in Procs : Begin(q) \/ Step(q) \/ IoError(q) \/ Die(q)
  BY <1>1 DEF Next, Age
<1>3. pc'[q] = "write" /\ pc[q] = "check" => Truncate(q)
  BY <1>2 DEF TypeOK, Begin, IoError, Die, Step, Acquire, Contend, Sleep, SeeStale,
              Reclaim, SpendTry, Load, Refuse, WriteBody, Release, Leave, Goto
<1>4. q # p => pc'[p] = pc[p]
  BY <1>2 DEF TypeOK, Begin, IoError, Die, Step, Acquire, Contend, Sleep, SeeStale,
              Reclaim, SpendTry, Load, Refuse, Truncate, WriteBody, Release, Leave, Goto
<1> QED
  BY <1>1, <1>3, <1>4

(* No update is lost: what a save does not name it keeps, if the owner runs.  *)
THEOREM LiveRoutesKept ==
  ASSUME Faults \subseteq {"disk"}, Procs \X Procs \subseteq Signals
  PROVE  Spec => NoLiveRouteLost
<1> DEFINE Kept == \A p \in Procs : Saves(p) =>
             \A e \in Parsed(file) :
               \/ e \in snap'[p] \/ e.key \in job[p].drop
               \/ e.pid \notin Running
<1>1. TypeOK /\ InStep /\ [Next]_vars => [Kept]_vars
  <2> SUFFICES ASSUME TypeOK, InStep, Next, NEW p \in Procs, Saves(p),
                      NEW e \in Parsed(file), e.pid \in Running, e.key \notin job[p].drop
               PROVE  e \in snap'[p]
    OBVIOUS
  <2>1. pc[p] = "check" /\ pc'[p] = "write"
    BY DEF Saves
  <2>2. Truncate(p)
    BY SaveIsTruncation
  <2>3. e.pid \in SeenAlive(p)
    BY DEF Running, SeenAlive
  <2>4. e \in snap[p] /\ e \notin Matches(p)
    BY <2>1, <2>3 DEF InStep, Matches
  <2> QED
    BY <2>2, <2>4 DEF Truncate, TypeOK
<1> QED
  BY <1>1, Typing, InStepInvariant, PTL DEF Spec, NoLiveRouteLost
-----------------------------------------------------------------------------
(* The table *)

(* A process about to save holds nothing but what is in the file.             *)
ReadFromFile == \A p \in Procs : pc[p] = "check" => snap[p] \subseteq Parsed(file)

LEMMA ReadFromFileInvariant ==
  ASSUME Faults \subseteq {"disk"}
  PROVE  Spec => []ReadFromFile
<1>1. Init => ReadFromFile
  BY DEF Init, ReadFromFile
<1>2. TypeOK /\ Exclusive /\ ReadFromFile /\ [Next]_vars => ReadFromFile'
  <2> SUFFICES ASSUME TypeOK, Exclusive, ReadFromFile, [Next]_vars,
                      NEW p \in Procs, pc'[p] = "check"
               PROVE  snap'[p] \subseteq Parsed(file)'
    BY DEF ReadFromFile
  <2>1. ASSUME file' = file, pc'[p] = pc[p], snap'[p] = snap[p]
        PROVE  snap'[p] \subseteq Parsed(file)'
    BY <2>1 DEF ReadFromFile, Parsed
  <2>2. ASSUME NEW q \in Procs, Step(q), q # p PROVE snap'[p] \subseteq Parsed(file)'
    <3>1. pc'[p] = pc[p] /\ snap'[p] = snap[p]
      BY <2>2 DEF TypeOK, Step, Acquire, Contend, Sleep, SeeStale, Reclaim, SpendTry, Load,
                  Refuse, Truncate, WriteBody, Release, Leave, Goto
    <3>2. pc[q] \notin InCS
      BY <2>2, <3>1 DEF Exclusive, InCS
    <3>3. file' = file
      BY <2>2, <3>2 DEF Step, Acquire, Contend, Sleep, SeeStale, Reclaim, Load, Refuse,
                        Truncate, WriteBody, Release, InCS
    <3> QED
      BY <2>1, <3>1, <3>3
  <2>3. ASSUME Step(p) PROVE snap'[p] \subseteq Parsed(file)'
    <3>1. Load(p)
      BY <2>3 DEF TypeOK, Step, Acquire, Contend, Sleep, SeeStale, Reclaim, SpendTry, Refuse,
                  Truncate, WriteBody, Release, Leave, Goto
    <3> QED
      BY <3>1 DEF Load, TypeOK, Parsed
  <2>4. ASSUME NEW q \in Procs, Begin(q) \/ IoError(q) \/ Die(q)
        PROVE  snap'[p] \subseteq Parsed(file)'
    <3>1. q # p /\ pc'[p] = pc[p] /\ snap'[p] = snap[p]
      BY <2>4 DEF TypeOK, Begin, IoError, Die, Leave, Goto
    <3>2. pc[q] \notin InCS
      BY <3>1 DEF Exclusive, InCS
    <3>3. file' = file
      BY <2>4, <3>2 DEF Begin, IoError, Die, InCS
    <3> QED
      BY <2>1, <3>1, <3>3
  <2>5. CASE Age \/ UNCHANGED vars
    BY <2>1, <2>5 DEF Age, vars
  <2> QED
    BY <2>2, <2>3, <2>4, <2>5 DEF Next
<1> QED
  BY <1>1, <1>2, Typing, ExclusiveInvariant, PTL DEF Spec

(* A list that is saved: what is kept of the one read, and what comes.        *)
Saved(p) == (snap[p] \ Matches(p)) \cup job[p].put

(* The table changes at a truncation and at no other step, and the processes  *)
(* that run when one dies and at no other.                                    *)
TableSteps ==
  \/ Table' = Table /\ (UNCHANGED pc \/ \E p \in Procs, l \in PcValue \ {"dead"} :
                                           pc[p] # "dead" /\ Goto(p, l))
  \/ \E p \in Procs : /\ Truncate(p)
                      /\ Table = Parsed(file) /\ Table' = Saved(p)
  \/ \E p \in Procs : /\ Table' = Table /\ pc[p] # "dead" /\ Goto(p, "dead")

LEMMA TableStep ==
  ASSUME Faults = {}, TypeOK, Exclusive, InStep, [Next]_vars
  PROVE  TableSteps
<1>1. ASSUME NEW p \in Procs, NEW l \in PcValue, Goto(p, l), file' = file,
             \A q \in Procs : q # p => snap'[q] = snap[q],
             pc[p] # "write", l # "write"
      PROVE  Table' = Table
  <2>1. Writers' = Writers /\ p \notin Writers
    BY <1>1 DEF Writers, Goto, TypeOK
  <2>2. \A q \in Writers : snap'[q] = snap[q]
    BY <1>1, <2>1 DEF Writers
  <2>3. UNION {snap'[q] : q \in Writers'} = UNION {snap[q] : q \in Writers}
    BY <2>1, <2>2
  <2> QED
    BY <1>1, <2>1, <2>3 DEF Table, Parsed
<1>2. ASSUME NEW p \in Procs, pc[p] \in InCS
      PROVE  Writers \subseteq {p}
  BY <1>2 DEF Exclusive, Writers, InCS
<1>3. ASSUME NEW p \in Procs, Step(p) PROVE TableSteps
  <2>1. CASE Truncate(p)
    <3>1. pc[p] = "check" /\ Goto(p, "write") /\ snap' = [snap EXCEPT ![p] = Saved(p)]
      BY <2>1 DEF Truncate, Saved
    <3>2. Writers = {}
      BY <1>2, <3>1 DEF Writers, InCS
    <3>3. Writers' = {p} /\ snap'[p] = Saved(p)
      BY <3>1, <3>2 DEF Writers, Goto, TypeOK
    <3>4. Table = Parsed(file) /\ Table' = Saved(p)
      BY <3>2, <3>3 DEF Table
    <3> QED
      BY <2>1, <3>4 DEF TableSteps
  <2>2. CASE WriteBody(p)
    <3>1. pc[p] = "write" /\ Goto(p, "saved") /\ file.form = "empty"
      BY <2>2 DEF WriteBody, InStep
    <3>2. file' = Json(snap[p])
      BY <2>2, <3>1 DEF WriteBody
    <3>3. Writers = {p} /\ Writers' = {}
      BY <1>2, <3>1 DEF Writers, InCS, Goto, TypeOK
    <3>4. Table = snap[p] /\ Table' = snap[p]
      BY <3>2, <3>3 DEF Table, Parsed, Json
    <3> QED
      BY <3>1, <3>4 DEF TableSteps, PcValue, InCS
  <2>3. CASE ~Truncate(p) /\ ~WriteBody(p)
    <3>1. /\ pc[p] \notin {"dead", "write"} /\ file' = file
          /\ \E l \in PcValue \ {"dead", "write"} : Goto(p, l)
      BY <1>3, <2>3 DEF Step, Acquire, Contend, Sleep, SeeStale, Reclaim, SpendTry, Load,
                  Refuse, Release, Leave, PcValue, InCS
    <3>2. \A q \in Procs : q # p => snap'[q] = snap[q]
      BY <1>3, <2>3 DEF TypeOK, Step, Acquire, Contend, Sleep, SeeStale, Reclaim, SpendTry,
                  Load, Refuse, Release, Leave
    <3> QED
      BY <1>1, <3>1, <3>2 DEF TableSteps
  <2> QED
    BY <2>1, <2>2, <2>3
<1>4. ASSUME NEW p \in Procs, Begin(p) \/ IoError(p) PROVE TableSteps
  <2>1. /\ pc[p] = "idle" /\ Goto(p, "mkdir") /\ file' = file /\ snap' = snap
    BY <1>4 DEF Begin, IoError
  <2> QED
    BY <1>1, <2>1 DEF TableSteps, PcValue
<1>5. ASSUME NEW p \in Procs, Die(p) PROVE TableSteps
  <2>1. pc[p] # "dead" /\ pc[p] # "write" /\ Goto(p, "dead") /\ file' = file
    BY <1>5 DEF Die, Leave, InCS
  <2>2. \A q \in Procs : q # p => snap'[q] = snap[q]
    BY <1>5 DEF Die, Leave, TypeOK
  <2> QED
    BY <1>1, <2>1, <2>2 DEF TableSteps, PcValue
<1>6. CASE Age \/ UNCHANGED vars
  <2>1. UNCHANGED <<file, pc, snap>>
    BY <1>6 DEF Age, vars
  <2> QED
    BY <2>1 DEF TableSteps, Table, Writers, Parsed
<1> QED
  BY <1>3, <1>4, <1>5, <1>6 DEF Next

(* An alias that no request names outlives every save of everybody.           *)
THEOREM AliasesKept ==
  ASSUME Faults = {}
  PROVE  Spec => []AliasesPersist
<1> DEFINE Unnamed == {e \in Stored : e.pid = Static /\ e.key \notin Named}
           Inv == Unnamed \subseteq Table
<1>1. Init => Inv
  BY DEF Init, Table, Writers, Parsed, Json
<1>2. TypeOK /\ Exclusive /\ InStep /\ FromMenu /\ Inv /\ [Next]_vars => Inv'
  <2> SUFFICES ASSUME TypeOK, Exclusive, InStep, FromMenu, Inv, [Next]_vars PROVE Inv'
    OBVIOUS
  <2>1. CASE Table' = Table
    BY <2>1
  <2>2. ASSUME NEW p \in Procs, Truncate(p), Table = Parsed(file), Table' = Saved(p)
        PROVE  Inv'
    <3>1. pc[p] = "check"
      BY <2>2 DEF Truncate
    <3>2. \A e \in Unnamed : e \in snap[p]
      BY <2>2, <3>1 DEF InStep, SeenAlive
    <3>3. \A e \in Unnamed : e.key \notin job[p].drop
      BY DEF FromMenu, Named, NoRequest
    <3> QED
      BY <2>2, <3>2, <3>3 DEF Saved, Matches
  <2> QED
    BY <2>1, <2>2, TableStep DEF TableSteps
<1>3. Inv => AliasesPersist
  BY DEF Table, Writers, AliasesPersist
<1>4. (Spec => []Exclusive) /\ (Spec => []InStep)
  BY ExclusiveInvariant, InStepInvariant
<1> QED
  BY <1>1, <1>2, <1>3, <1>4, Typing, FromMenuInvariant, PTL DEF Spec
-----------------------------------------------------------------------------
(* The refinement *)

(* The requests are those of the commands of nkl, no prefix ends in two       *)
(* slashes, and the file at the start was written by nkl.                     *)
Commands ==
  /\ MaxTrail <= 1
  /\ \A e \in Stored : e.key.path.trail = 0
  /\ \A p \in Procs : \A q \in Menu[p] : \E host \in Hosts, path \in Path :
       \/ \E port \in Ports, pid \in Procs \cup {Static}, force \in BOOLEAN :
            q = AddRequest(host, path, port, pid, force)
       \/ q = RemoveRequest(host, path)
       \/ q = RemoveHostRequest(host)

Plain(key) == key.path.trail = 0

LEMMA SlotIsPlain ==
  ASSUME Commands, NEW k \in Key
  PROVE  Slot(k) \in Key /\ Plain(Slot(k)) /\ (Plain(k) => Slot(k) = k)
<1>1. k.path \in Path /\ k.path.trail \in {0, 1} /\ k.host \in Hosts
  BY BoundsAssumption DEF Commands, Key, Path
<1>2. Norm(k.path) \in Path /\ Norm(k.path).trail = 0
  BY <1>1, BoundsAssumption DEF Norm, Path
<1>3. k.path.trail = 0 => Norm(k.path) = k.path
  BY DEF Norm
<1> QED
  BY <1>1, <1>2, <1>3 DEF Slot, Key, Plain

(* Each is a change of the table that names one key, or one hostname.         *)
Adds(q, r) == q.put = {r} /\ Plain(r.key) /\ q.drop = {k \in Key : Slot(k) = r.key}
Removes(q, key) == q.put = {} /\ Plain(key) /\ q.drop = {k \in Key : Slot(k) = key}
RemovesAll(q, host) == q.put = {} /\ q.drop = {k \in Key : k.host = host}

LEMMA Shape ==
  ASSUME Commands, NEW p \in Procs, NEW q \in Menu[p]
  PROVE  \/ \E r \in Route : Adds(q, r)
         \/ \E key \in Key : Removes(q, key)
         \/ \E host \in Hosts : RemovesAll(q, host)
<1>1. PICK host \in Hosts, path \in Path :
       \/ \E port \in Ports, pid \in Procs \cup {Static}, force \in BOOLEAN :
            q = AddRequest(host, path, port, pid, force)
       \/ q = RemoveRequest(host, path)
       \/ q = RemoveHostRequest(host)
  BY DEF Commands
<1> DEFINE key == [host |-> host, path |-> Norm(path)]
<1>2. key \in Key /\ Plain(key)
  <2>1. [host |-> host, path |-> path] \in Key
    BY DEF Key
  <2>2. Slot([host |-> host, path |-> path]) = key
    BY DEF Slot
  <2> QED
    BY <2>1, <2>2, SlotIsPlain
<1>3. SameSlot(host, Norm(path)) = {k \in Key : Slot(k) = key}
  BY DEF SameSlot
<1>4. ASSUME NEW port \in Ports, NEW pid \in Procs \cup {Static}, NEW force \in BOOLEAN,
             q = AddRequest(host, path, port, pid, force)
      PROVE  \E r \in Route : Adds(q, r)
  <2> DEFINE r == [key |-> key, port |-> port, pid |-> pid]
  <2>1. r \in Route /\ r.key = key
    BY <1>2 DEF Route
  <2>2. q.put = {r} /\ q.drop = SameSlot(host, Norm(path))
    BY <1>4 DEF AddRequest
  <2> QED
    BY <1>2, <1>3, <2>1, <2>2 DEF Adds
<1>5. CASE q = RemoveRequest(host, path)
  BY <1>2, <1>3, <1>5 DEF RemoveRequest, Removes
<1>6. CASE q = RemoveHostRequest(host)
  BY <1>6 DEF RemoveHostRequest, RemovesAll
<1> QED
  BY <1>1, <1>4, <1>5, <1>6

LEMMA CommandsAreTidy == Commands => TidyMenu
<1> SUFFICES ASSUME Commands, NEW p \in Procs, NEW q \in Menu[p], NEW r \in q.put,
                    NEW k \in Key, Slot(k) = Slot(r.key)
             PROVE  k \in q.drop
  BY DEF TidyMenu
<1>1. PICK s \in Route : Adds(q, s)
  BY Shape DEF Removes, RemovesAll
<1>2. r = s /\ r.key \in Key /\ Slot(r.key) = r.key
  BY <1>1, SlotIsPlain DEF Adds, Route
<1> QED
  BY <1>1, <1>2 DEF Adds

(* All keys that are ever stored are plain.                                   *)
AllPlain == /\ \A e \in file.routes : Plain(e.key)
            /\ \A p \in Procs : \A e \in snap[p] : Plain(e.key)

LEMMA AllPlainInvariant ==
  ASSUME Commands
  PROVE  Spec => []AllPlain
<1>1. Init => AllPlain
  BY DEF Init, AllPlain, Plain, Json, Commands
<1>2. TypeOK /\ FromMenu /\ AllPlain /\ [Next]_vars => AllPlain'
  <2> SUFFICES ASSUME TypeOK, FromMenu, AllPlain, [Next]_vars PROVE AllPlain'
    OBVIOUS
  <2>1. ASSUME NEW T, \A e \in T : Plain(e.key), NEW p \in Procs,
               snap' = [snap EXCEPT ![p] = T], file' = file \/ file'.routes = {}
        PROVE  AllPlain'
    BY <2>1 DEF TypeOK, AllPlain
  <2>2. ASSUME snap' = snap, file' = file \/ file'.routes = {} PROVE AllPlain'
    BY <2>2 DEF AllPlain
  <2>3. ASSUME NEW p \in Procs, Leave(p, "idle") \/ Leave(p, "dead"), file' = file
        PROVE  AllPlain'
    BY <2>1, <2>3 DEF Leave
  <2>4. ASSUME NEW p \in Procs, Step(p) PROVE AllPlain'
    <3>1. CASE Acquire(p) \/ Contend(p) \/ SeeStale(p) \/ Refuse(p)
      BY <3>1, <2>2 DEF Acquire, Contend, SeeStale, Refuse
    <3>2. CASE Sleep(p) \/ Reclaim(p) \/ Release(p)
      BY <3>2, <2>2, <2>3 DEF Sleep, Reclaim, Release, SpendTry
    <3>3. CASE Load(p)
      <4>1. \A e \in {x \in Parsed(file) : x.pid \in SeenAlive(p)} : Plain(e.key)
        BY DEF AllPlain, Parsed
      <4> QED
        BY <3>3, <4>1, <2>1 DEF Load
    <3>4. CASE Truncate(p)
      <4>1. \A r \in job[p].put : Plain(r.key)
        BY Shape DEF FromMenu, NoRequest, Adds, Removes, RemovesAll
      <4>2. \A e \in Saved(p) : Plain(e.key)
        BY <4>1 DEF Saved, AllPlain
      <4>3. snap' = [snap EXCEPT ![p] = Saved(p)] /\ file'.routes = {}
        BY <3>4 DEF Truncate, Saved
      <4> QED
        BY <4>2, <4>3, <2>1
    <3>5. CASE WriteBody(p)
      BY <3>5 DEF WriteBody, AllPlain, Json
    <3> QED
      BY <2>4, <3>1, <3>2, <3>3, <3>4, <3>5 DEF Step
  <2>5. ASSUME NEW p \in Procs, IoError(p) PROVE AllPlain'
    BY <2>5, <2>2, <2>3 DEF IoError
  <2>6. ASSUME NEW p \in Procs, Begin(p) \/ Die(p) PROVE AllPlain'
    BY <2>6, <2>2, <2>3 DEF Begin, Die
  <2>7. CASE Age \/ UNCHANGED vars
    BY <2>7, <2>2 DEF Age, vars
  <2> QED
    BY <2>4, <2>5, <2>6, <2>7 DEF Next
<1> QED
  BY <1>1, <1>2, Typing, FromMenuInvariant, PTL DEF Spec

-----------------------------------------------------------------------------
(* What a truncation makes of the table.                                      *)

AllInvariants == /\ TypeOK /\ FromMenu /\ Exclusive /\ InStep
                 /\ ReadFromFile /\ AllPlain /\ UniqueSlots

(* What is not in the list that was read is dead, and may be pruned.          *)
LEMMA UnreadAreDead ==
  ASSUME Procs \X Procs \subseteq Signals, InStep, NEW p \in Procs, pc[p] = "check",
         NEW e \in Parsed(file), e \notin snap[p]
  PROVE  e.pid \notin Running
BY DEF InStep, SeenAlive, Running

LEMMA Unforced ==
  ASSUME Procs \X Procs \subseteq Signals, AllInvariants, Commands,
         NEW p \in Procs, Truncate(p), NEW r \in Route, Adds(job[p], r), ~job[p].force,
         NEW e \in Parsed(file), e.key = r.key
  PROVE  e.pid = r.pid \/ e.pid \notin Running
<1> SUFFICES ASSUME e.pid # r.pid, e.pid \in Running PROVE FALSE
  OBVIOUS
<1>1. pc[p] = "check" /\ (Matches(p) = {} \/ \E f \in Matches(p) : ~Conflicts(p, f))
  BY DEF Truncate
<1>2. e \in snap[p] /\ e.pid \in SeenAlive(p)
  BY <1>1, UnreadAreDead DEF AllInvariants, Running, SeenAlive
<1>3. \A f \in snap[p] : f \in Parsed(file) /\ f.key \in Key /\ Plain(f.key)
  BY <1>1 DEF AllInvariants, ReadFromFile, AllPlain, TypeOK, Route
<1>4. e \in Matches(p)
  BY <1>2, <1>3, SlotIsPlain DEF Matches, Adds
<1>5. PICK f \in Matches(p) : ~Conflicts(p, f)
  BY <1>1, <1>4
<1>6. f \in Parsed(file) /\ Slot(f.key) = Slot(e.key)
  BY <1>2, <1>3, <1>5, SlotIsPlain DEF Matches, Adds
<1>7. f = e
  BY <1>6 DEF AllInvariants, UniqueSlots, OnePerSlot
<1> QED
  BY <1>2, <1>5, <1>7 DEF Conflicts, Adds

(* The saved list is the table less some dead routes and those dropped.       *)
LEMMA SavedIsReplaced ==
  ASSUME Procs \X Procs \subseteq Signals, AllInvariants, NEW p \in Procs, Truncate(p)
  PROVE  \E pruned \in SUBSET {e \in Parsed(file) : e.pid \notin Running} :
           Saved(p) = {e \in Parsed(file) \ pruned : e.key \notin job[p].drop} \cup job[p].put
<1> DEFINE pruned == Parsed(file) \ snap[p]
<1>1. pc[p] = "check"
  BY DEF Truncate
<1>2. snap[p] \subseteq Parsed(file)
  BY <1>1 DEF AllInvariants, ReadFromFile
<1>3. pruned \in SUBSET {e \in Parsed(file) : e.pid \notin Running}
  BY <1>1, UnreadAreDead DEF AllInvariants
<1>4. Saved(p) = {e \in Parsed(file) \ pruned : e.key \notin job[p].drop} \cup job[p].put
  BY <1>2 DEF Saved, Matches
<1> QED
  BY <1>3, <1>4

(* The abstract steps, as this module's variables see them.                   *)
Up == {p \in Procs : pc[p] # "dead"}

LEMMA AtomicReplace ==
  ASSUME NEW dropped \in [Key -> BOOLEAN], NEW drop, NEW new,
         NEW pruned \in SUBSET {e \in Table : e.pid \notin Running},
         \A e \in Table : e.key \in Key /\ (dropped[e.key] <=> e.key \in drop),
         Table' = {e \in Table \ pruned : e.key \notin drop} \cup new
  PROVE  Atomic!Replace(dropped, new)
<1>1. \A e \in Table : Atomic!Live(e) <=> e.pid \in Running
  BY DEF Atomic!Live, Running
<1>2. pruned \in SUBSET {e \in Table : ~Atomic!Live(e)}
  BY <1>1
<1>3. Table' = {e \in Table \ pruned : ~dropped[e.key]} \cup new
  OBVIOUS
<1> QED
  BY <1>2, <1>3 DEF Atomic!Replace

LEMMA AtomicTypes == Atomic!Key = Key /\ Atomic!Route = Route
BY DEF Atomic!Key, Atomic!Route, Key, Route

(* A truncation is the request's change of the table.                         *)
LEMMA TruncationChanges ==
  ASSUME Procs \X Procs \subseteq Signals, Commands, AllInvariants,
         NEW p \in Procs, Truncate(p), Table = Parsed(file), Table' = Saved(p)
  PROVE  Atomic!Next \/ UNCHANGED <<Table, Up>>
<1>1. Up' = Up
  BY DEF Up, Truncate, Goto, AllInvariants, TypeOK
<1>2. PICK pruned \in SUBSET {e \in Table : e.pid \notin Running} :
        Table' = {e \in Table \ pruned : e.key \notin job[p].drop} \cup job[p].put
  BY SavedIsReplaced
<1>3. \A e \in Table : e.key \in Key /\ Plain(e.key) /\ Slot(e.key) = e.key
  BY SlotIsPlain DEF AllInvariants, TypeOK, AllPlain, File, Route, Parsed
<1>4. ASSUME NEW r \in Route, Adds(job[p], r) PROVE Atomic!Next
  <2> DEFINE dropped == [k \in Key |-> k = r.key]
  <2>1. dropped \in [Key -> BOOLEAN] /\ \A e \in Table : dropped[e.key] <=> e.key \in job[p].drop
    BY <1>3, <1>4 DEF Adds
  <2>2. Atomic!Replace(dropped, {r})
    <3>1. Table' = {e \in Table \ pruned : e.key \notin job[p].drop} \cup {r}
      BY <1>2, <1>4 DEF Adds
    <3> HIDE DEF dropped
    <3> QED
      BY <1>3, <2>1, <3>1, AtomicReplace, ZenonT(30)
  <2>3. job[p].force \in BOOLEAN
    BY DEF AllInvariants, TypeOK, Request
  <2>4. \A e \in Table : e.key = r.key /\ e.pid # r.pid /\ ~job[p].force => ~Atomic!Live(e)
    BY <1>4, Unforced DEF Atomic!Live, Running
  <2>5. Atomic!Add(r, job[p].force)
    BY <1>1, <2>2, <2>4, AtomicTypes DEF Atomic!Add, Up
  <2> QED
    BY <2>3, <2>5, AtomicTypes DEF Atomic!Next
<1>5. ASSUME NEW key \in Key, Removes(job[p], key) PROVE Atomic!Next
  <2> DEFINE dropped == [k \in Key |-> k = key]
  <2>1. dropped \in [Key -> BOOLEAN] /\ \A e \in Table : dropped[e.key] <=> e.key \in job[p].drop
    BY <1>3, <1>5 DEF Removes
  <2>2. Atomic!Replace(dropped, {})
    <3>1. Table' = {e \in Table \ pruned : e.key \notin job[p].drop} \cup {}
      BY <1>2, <1>5 DEF Removes
    <3> HIDE DEF dropped
    <3> QED
      BY <1>3, <2>1, <3>1, AtomicReplace, ZenonT(30)
  <2>3. Atomic!RemoveKey(key)
    BY <1>1, <2>2, AtomicTypes DEF Atomic!RemoveKey, Up
  <2> QED
    BY <2>3, AtomicTypes DEF Atomic!Next
<1>6. ASSUME NEW host \in Hosts, RemovesAll(job[p], host) PROVE Atomic!Next
  <2> DEFINE dropped == [k \in Key |-> k.host = host]
  <2>1. dropped \in [Key -> BOOLEAN] /\ \A e \in Table : dropped[e.key] <=> e.key \in job[p].drop
    BY <1>3, <1>6 DEF RemovesAll
  <2>2. Atomic!Replace(dropped, {})
    <3>1. Table' = {e \in Table \ pruned : e.key \notin job[p].drop} \cup {}
      BY <1>2, <1>6 DEF RemovesAll
    <3> HIDE DEF dropped
    <3> QED
      BY <1>3, <2>1, <3>1, AtomicReplace
  <2>3. Atomic!RemoveHost(host)
    BY <1>1, <2>2, AtomicTypes DEF Atomic!RemoveHost, Up
  <2> QED
    BY <2>3 DEF Atomic!Next
<1>7. job[p] \in Menu[p]
  BY DEF Truncate, AllInvariants, FromMenu
<1> QED
  BY <1>4, <1>5, <1>6, <1>7, Shape

-----------------------------------------------------------------------------
LEMMA Invariants ==
  ASSUME Faults \subseteq {"disk"}, Commands
  PROVE  Spec => []AllInvariants
<1>1. (Spec => []Exclusive) /\ (Spec => []InStep) /\ (Spec => []ReadFromFile)
  BY ExclusiveInvariant, InStepInvariant, ReadFromFileInvariant
<1>2. (Spec => []UniqueSlots) /\ (Spec => []AllPlain)
  BY CommandsAreTidy, OneRoutePerSlot, AllPlainInvariant
<1> QED
  BY <1>1, <1>2, Typing, FromMenuInvariant, PTL DEF AllInvariants

(* Without --force nobody replaces the route of another that runs, as its     *)
(* owner can only have died since the list was read.                          *)
THEOREM OverrideForced ==
  ASSUME Faults \subseteq {"disk"}, Procs \X Procs \subseteq Signals, Commands
  PROVE  Spec => OverrideNeedsForce
<1> DEFINE Kept == \A p \in Procs : Saves(p) /\ job[p].put # {} /\ ~job[p].force =>
             \A e \in Parsed(file) : e.key \in job[p].drop =>
               e.pid \notin Running \/ \E r \in job[p].put : e.pid = r.pid
<1>1. AllInvariants /\ [Next]_vars => [Kept]_vars
  <2> SUFFICES ASSUME AllInvariants, Next, NEW p \in Procs, Saves(p), job[p].put # {},
                      ~job[p].force, NEW e \in Parsed(file), e.key \in job[p].drop
               PROVE  e.pid \notin Running \/ \E r \in job[p].put : e.pid = r.pid
    OBVIOUS
  <2>1. Truncate(p) /\ job[p] \in Menu[p]
    BY SaveIsTruncation DEF AllInvariants, FromMenu, Saves
  <2>2. PICK r \in Route : Adds(job[p], r)
    BY <2>1, Shape DEF Removes, RemovesAll
  <2>3. e.key \in Key /\ Plain(e.key)
    BY DEF AllInvariants, TypeOK, AllPlain, File, Route, Parsed
  <2>4. e.key = r.key
    BY <2>2, <2>3, SlotIsPlain DEF Adds
  <2> QED
    BY <2>1, <2>2, <2>4, Unforced DEF Adds
<1>2. Spec => []AllInvariants
  BY Invariants
<1> QED
  BY <1>1, <1>2, PTL DEF Spec, OverrideNeedsForce

(* The store is a table that changes at once: for any processes that use the  *)
(* commands of nkl, every step is one of RouteTable, or invisible there.      *)
THEOREM StoreIsTable ==
  ASSUME Faults = {}, Procs \X Procs \subseteq Signals, Commands
  PROVE  Spec => AtomicTable
<1>1. Init => Atomic!Init
  BY StoredAssumption, AtomicTypes DEF Init, Atomic!Init, Table, Writers, Parsed, Json
<1>2. AllInvariants /\ [Next]_vars => [Atomic!Next]_<<Table, Up>>
  <2> SUFFICES ASSUME AllInvariants, [Next]_vars PROVE Atomic!Next \/ UNCHANGED <<Table, Up>>
    OBVIOUS
  <2>1. CASE UNCHANGED pc /\ Table' = Table
    BY <2>1 DEF Up
  <2>2. ASSUME NEW p \in Procs, NEW l \in PcValue \ {"dead"}, pc[p] # "dead", Goto(p, l),
               Table' = Table
        PROVE  UNCHANGED <<Table, Up>>
    BY <2>2 DEF Up, Goto, AllInvariants, TypeOK
  <2>3. ASSUME NEW p \in Procs, Truncate(p), Table = Parsed(file), Table' = Saved(p)
        PROVE  Atomic!Next \/ UNCHANGED <<Table, Up>>
    BY <2>3, TruncationChanges
  <2>4. ASSUME NEW p \in Procs, Table' = Table, pc[p] # "dead", Goto(p, "dead")
        PROVE  Atomic!Next
    <3>1. p \in Up /\ Up' = Up \ {p}
      BY <2>4 DEF Up, Goto, AllInvariants, TypeOK
    <3>2. Atomic!Die(p)
      BY <2>4, <3>1 DEF Atomic!Die, Up
    <3> QED
      BY <3>2 DEF Atomic!Next
  <2>5. TableSteps
    BY TableStep DEF AllInvariants
  <2> QED
    BY <2>1, <2>2, <2>3, <2>4, <2>5 DEF TableSteps
<1>3. Spec => []AllInvariants
  BY Invariants
<1> QED
  BY <1>1, <1>2, <1>3, PTL DEF Spec, AtomicTable, Atomic!Spec, Up

-----------------------------------------------------------------------------
(* The proxy beside the store *)

(* The proxy only looks on: the processes of the store are as without it.     *)
LEMMA StoreBeneath == CacheSpec => Spec
<1>1. CacheInit => Init
  BY DEF CacheInit
<1>2. [CacheNext]_allVars => [Next]_vars
  BY DEF CacheNext, allVars, StoreStep, Start, Watch, Poll, Read, Store, Stop
<1> QED
  BY <1>1, <1>2, PTL DEF CacheSpec, Spec

LEMMA StoreTyping == CacheSpec => []TypeOK
BY StoreBeneath, Typing, PTL

(* What the processes of the store do to the file, and to who runs.           *)
LEMMA FileStays == Next => file' = file \/ file'.form # "absent"
<1> SUFFICES ASSUME Next PROVE file' = file \/ file'.form # "absent"
  OBVIOUS
<1>1. ASSUME NEW p \in Procs, Step(p) PROVE file' = file \/ file'.form # "absent"
  BY <1>1 DEF Step, Acquire, Contend, Sleep, SeeStale, Reclaim, Load, Refuse, Truncate,
              WriteBody, Release, Json
<1>2. ASSUME NEW p \in Procs, Begin(p) \/ IoError(p) \/ Die(p)
      PROVE  file' = file \/ file'.form # "absent"
  BY <1>2 DEF Begin, IoError, Die
<1> QED
  BY <1>1, <1>2 DEF Next, Age

LEMMA DeadStayDead ==
  ASSUME TypeOK, [Next]_vars, NEW q \in Procs, pc[q] = "dead"
  PROVE  pc'[q] = "dead"
<1>1. pc \in [Procs -> PcValue]
  BY DEF TypeOK
<1>2. ASSUME NEW p \in Procs, Step(p) PROVE pc'[q] = "dead"
  <2>1. pc[p] # "dead"
    BY <1>2 DEF Step, Acquire, Contend, Sleep, SeeStale, Reclaim, Load, Refuse, Truncate,
                WriteBody, Release
  <2>2. \E l \in PcValue : Goto(p, l)
    BY <1>2 DEF Step, Acquire, Contend, Sleep, SeeStale, Reclaim, Load, Refuse, Truncate,
                WriteBody, Release, SpendTry, Leave, PcValue, InCS
  <2> QED
    BY <1>1, <2>1, <2>2 DEF Goto
<1>3. ASSUME NEW p \in Procs, Begin(p) \/ IoError(p) \/ Die(p) PROVE pc'[q] = "dead"
  BY <1>1, <1>3 DEF Begin, IoError, Die, Leave, Goto
<1> QED
  BY <1>2, <1>3 DEF Next, Age, vars

-----------------------------------------------------------------------------
(* Typing *)

LEMMA LoadedTyped == TypeOK => Loaded \subseteq Route
BY DEF TypeOK, File, Parsed, Loaded

LEMMA ReadsTyped ==
  ASSUME TypeOK, NEW r \in Reads
  PROVE  r.list \subseteq Route /\ r.missed \subseteq {"error", "start", "tick"}
<1>1. CASE r = [list |-> Loaded, missed |-> {}]
  BY <1>1, LoadedTyped
<1>2. CASE r = [list |-> {}, missed |-> {"error"}]
  BY <1>2
<1> QED
  BY <1>1, <1>2 DEF Reads

LEMMA TouchTyped ==
  ASSUME TypeOK, CacheTypeOK, StoreStep
  PROVE  mtime' \in Nat /\ (mtime' = 0 <=> file'.form = "absent")
<1>1. CASE file' = file
  BY <1>1 DEF StoreStep, Touch, CacheTypeOK
<1>2. CASE file' # file
  <2>1. file'.form # "absent"
    BY <1>2, FileStays DEF StoreStep
  <2>2. mtime' \in {mtime, mtime + 1} \ {0}
    BY <1>2 DEF StoreStep, Touch
  <2> QED
    BY <2>1, <2>2 DEF CacheTypeOK
<1> QED
  BY <1>1, <1>2

(* The proxy's variables keep their types, under all faults, and a reload is  *)
(* of a change.                                                               *)
THEOREM CacheTyping == CacheSpec => []CacheTypeOK
<1>1. CacheInit => CacheTypeOK
  BY CacheAssumption DEF CacheInit, Init, CacheTypeOK, Json, At
<1>2. TypeOK /\ CacheTypeOK /\ [CacheNext]_allVars => CacheTypeOK'
  <2> SUFFICES ASSUME TypeOK, CacheTypeOK, [CacheNext]_allVars PROVE CacheTypeOK'
    OBVIOUS
  <2>1. CASE StoreStep
    <3>1. missed' \subseteq {"error", "start", "tick"}
      BY <2>1 DEF StoreStep, Slips, CacheTypeOK
    <3> QED
      BY <2>1, <3>1, TouchTyped DEF StoreStep, proxyVars, CacheTypeOK
  <2>2. CASE Start
    <3>1. cache' \subseteq Route /\ missed' \subseteq {"error", "start", "tick"}
      BY <2>2, ReadsTyped DEF Start
    <3> QED
      BY <2>2, <3>1, CacheAssumption DEF Start, vars, CacheTypeOK, At
  <2>3. CASE Watch \/ Poll
    <3>1. Stats \subseteq Nat
      BY DEF Stats, CacheTypeOK
    <3> QED
      BY <2>3, <3>1 DEF Watch, Poll, vars, CacheTypeOK, At
  <2>4. CASE Read
    <3>1. fresh' \subseteq Route /\ missed' \subseteq {"error", "start", "tick"}
      BY <2>4, ReadsTyped DEF Read
    <3> QED
      BY <2>4, <3>1 DEF Read, vars, CacheTypeOK, At
  <2>5. CASE Store
    BY <2>5 DEF Store, vars, CacheTypeOK, At
  <2>6. CASE Stop
    <3>1. /\ cache' = {} /\ fresh' = {} /\ missed' = {} /\ last' = 0 /\ current' = 0
          /\ at' = "off" /\ UNCHANGED <<file, mtime, starts>>
      BY <2>6 DEF Stop, vars
    <3> QED
      BY <3>1 DEF CacheTypeOK, At
  <2>7. CASE UNCHANGED allVars
    BY <2>7 DEF allVars, vars, proxyVars, CacheTypeOK
  <2> QED
    BY <2>1, <2>2, <2>3, <2>4, <2>5, <2>6, <2>7 DEF CacheNext
<1> QED
  BY <1>1, <1>2, StoreTyping, PTL DEF CacheSpec

-----------------------------------------------------------------------------
(* The poller *)

(* The proxy may signal everybody, as root may: it prunes nobody who runs.    *)
SeesAll == \A q \in Procs : <<Proxy, q>> \in Signals

(* A list that missed nothing shows the file, from its read on.               *)
FirstList == at = "booted" => missed # {} \/ Shows(cache)

LEMMA ReadsShow == SeesAll => \A r \in Reads : r.missed # {} \/ Shows(r.list)
<1> SUFFICES ASSUME SeesAll, NEW r \in Reads PROVE r.missed # {} \/ Shows(r.list)
  OBVIOUS
<1>1. CASE r = [list |-> Loaded, missed |-> {}]
  <2>1. Shows(Loaded)
    BY DEF SeesAll, Shows, Loaded, SeenAlive, Running
  <2> QED
    BY <1>1, <2>1
<1>2. CASE r = [list |-> {}, missed |-> {"error"}]
  BY <1>2
<1> QED
  BY <1>1, <1>2 DEF Reads

LEMMA ShowsStays ==
  ASSUME TypeOK, [Next]_vars, file' = file, NEW routes, Shows(routes)
  PROVE  /\ {e \in Parsed(file') : e.pid \in Running'} \subseteq routes
         /\ routes \subseteq Parsed(file')
<1>1. Running' \subseteq Running
  BY DeadStayDead DEF Running
<1> QED
  BY <1>1 DEF Shows, Parsed

(* Whatever fails and whoever writes: where the poller rests, or is about to, *)
(* the cache shows the file, unless its read failed or a change slipped       *)
(* between two looks at the clock.                                            *)
THEOREM NoChangeMasked == ASSUME SeesAll PROVE CacheSpec => []NeverMasksAChange
<1> DEFINE Inv == FirstList /\ NeverMasksAChange
<1>1. CacheInit => Inv
  BY DEF CacheInit, FirstList, NeverMasksAChange
<1>2. TypeOK /\ CacheTypeOK /\ Inv /\ [CacheNext]_allVars => Inv'
  <2> SUFFICES ASSUME TypeOK, CacheTypeOK, Inv, [CacheNext]_allVars PROVE Inv'
    OBVIOUS
  <2>1. CASE StoreStep
    <3>1. UNCHANGED <<at, current, last, fresh, cache>> /\ [Next]_vars
          /\ missed' = missed \cup Slips
      BY <2>1 DEF StoreStep, proxyVars
    <3>2. CASE file' = file
      <4>1. mtime' = mtime
        BY <2>1, <3>2 DEF StoreStep, Touch
      <4>2. Shows(fresh) => Shows(fresh)'
        BY <3>1, <3>2, ShowsStays DEF Shows, Parsed, Running
      <4>3. Shows(cache) => Shows(cache)'
        BY <3>1, <3>2, ShowsStays DEF Shows, Parsed, Running
      <4> QED
        BY <3>1, <4>1, <4>2, <4>3 DEF FirstList, NeverMasksAChange
    <3>3. CASE file' # file
      <4>1. at = "booted" => "start" \in missed'
        BY <3>1, <3>3 DEF Slips
      <4>2. at = "store" /\ current = mtime' => "tick" \in missed'
        BY <3>1, <3>3 DEF Slips, Known
      <4>3. at = "sleep" /\ last = mtime' => "tick" \in missed'
        BY <3>1, <3>3 DEF Slips, Known
      <4> QED
        BY <3>1, <4>1, <4>2, <4>3 DEF FirstList, NeverMasksAChange
    <3> QED
      BY <3>2, <3>3
  <2>2. ASSUME UNCHANGED vars PROVE Parsed(file)' = Parsed(file) /\ Running' = Running
    BY <2>2 DEF vars, Parsed, Running
  <2>3. CASE Start
    <3>1. PICK r \in Reads : cache' = r.list /\ missed' = r.missed
      BY <2>3 DEF Start
    <3>2. missed' # {} \/ Shows(cache)'
      BY <2>2, <2>3, <3>1, ReadsShow DEF Start, Shows
    <3> QED
      BY <2>3, <3>2 DEF Start, FirstList, NeverMasksAChange
  <2>4. CASE Read
    <3>1. PICK r \in Reads : fresh' = r.list /\ missed' = r.missed
      BY <2>4 DEF Read
    <3>2. missed' # {} \/ Shows(fresh)'
      BY <2>2, <2>4, <3>1, ReadsShow DEF Read, Shows
    <3> QED
      BY <2>4, <3>2 DEF Read, FirstList, NeverMasksAChange
  <2>5. CASE Watch
    <3>1. Shows(cache) => Shows(cache)'
      BY <2>2, <2>5 DEF Watch, Shows
    <3> QED
      BY <2>5, <3>1 DEF Watch, FirstList, NeverMasksAChange
  <2>6. CASE Store
    <3>1. Shows(fresh) => Shows(cache)'
      BY <2>2, <2>6 DEF Store, Shows
    <3> QED
      BY <2>6, <3>1 DEF Store, FirstList, NeverMasksAChange
  <2>7. CASE Poll \/ Stop
    BY <2>7 DEF Poll, Stop, FirstList, NeverMasksAChange
  <2>8. CASE UNCHANGED allVars
    <3>1. UNCHANGED <<vars, mtime, at, cache, fresh, last, current, missed>>
      BY <2>8 DEF allVars, proxyVars
    <3>2. (Shows(cache) => Shows(cache)') /\ (Shows(fresh) => Shows(fresh)')
      BY <2>2, <3>1 DEF Shows
    <3> QED
      BY <3>1, <3>2 DEF FirstList, NeverMasksAChange
  <2> QED
    BY <2>1, <2>3, <2>4, <2>5, <2>6, <2>7, <2>8 DEF CacheNext
<1> QED
  BY <1>1, <1>2, StoreTyping, CacheTyping, PTL DEF CacheSpec
=============================================================================
