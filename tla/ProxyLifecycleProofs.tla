------------------------ MODULE ProxyLifecycleProofs ------------------------
(* Theorems about ProxyLifecycle, for any number of starters, stoppers and   *)
(* proxies.                                                                  *)
EXTENDS ProxyLifecycle, TLAPS

LEMMA NoneIsNobody ==
  /\ None \notin Daemons /\ None \notin Foreground /\ None \notin Starters
  /\ Daemons \subseteq Proxies /\ Foreground \subseteq Proxies
BY LifecycleAssumption DEF Proxies

(* TypeOK in three parts: what the starters, the proxies and the stoppers    *)
(* write.                                                                    *)
StarterTypes ==
  /\ lock \in [by : Starters \cup {None}, old : BOOLEAN]
  /\ lock.by = None => lock = NoLock
  /\ pc \in [Starters -> PcValue]
  /\ tries \in [Starters -> 0 .. MaxTries]
  /\ mine \in [Starters -> Daemons \cup {None}]
  /\ \A s \in Starters : /\ pc[s] = "wait" => mine[s] # None
                         /\ pc[s] \in {"idle", "mkdir", "stat", "reclaim"} => tries[s] > 0
  /\ answered \in [Starters -> Proxies \cup {None}]
ProxyTypes ==
  /\ at \in [Proxies -> At]
  /\ \A p \in pending : p \in Proxies /\ at[p] = "serve"
  /\ \A p, q \in Proxies : at[p] \in Listening /\ at[q] \in Listening => p = q
FileTypes ==
  /\ left \in [Proxies \cup Stoppers -> 0 .. 2] /\ exposed \subseteq Daemons
  /\ pidFile \in [pid : Proxies \cup {None}, held : Daemons \cup {None}]
  /\ files \subseteq {"port", "tls"}
StopTypes ==
  /\ stop \in [Stoppers -> StopValue] /\ target \in [Stoppers -> Proxies \cup {None}]
  /\ \A x \in Stoppers : stop[x] \in {"check", "term"} => target[x] # None

LEMMA TypesInParts == TypeOK <=> StarterTypes /\ ProxyTypes /\ FileTypes /\ StopTypes
BY DEF TypeOK, StarterTypes, ProxyTypes, FileTypes, StopTypes, Bound, Serving

LEMMA PartsPrimed ==
  ASSUME StarterTypes', ProxyTypes', FileTypes', StopTypes'
  PROVE  TypeOK'
BY DEF TypeOK, StarterTypes, ProxyTypes, FileTypes, StopTypes, Bound, Serving

(* A process that ends, of itself or by a signal, leaves well-typed state.   *)
LEMMA EndTyped ==
  ASSUME TypeOK, NEW p \in Proxies, End(p), pending' \subseteq pending, p \notin pending'
  PROVE  ProxyTypes' /\ pidFile' \in [pid : Proxies \cup {None}, held : Daemons \cup {None}]
<1> USE TypesInParts, NoneIsNobody
<1>1. ProxyTypes'
  BY DEF ProxyTypes, End, Become, At, Listening
<1>2. pidFile' \in [pid : Proxies \cup {None}, held : Daemons \cup {None}]
  BY DEF FileTypes, End
<1> QED
  BY <1>1, <1>2

LEMMA SignalTyped ==
  ASSUME TypeOK, NEW p \in Proxies, Signalled(p)
  PROVE  ProxyTypes' /\ pidFile' \in [pid : Proxies \cup {None}, held : Daemons \cup {None}]
<1>1. CASE at[p] = "serve"
  BY <1>1, TypesInParts DEF Signalled, ProxyTypes, FileTypes
<1>2. CASE at[p] = "clean"
  BY <1>2, TypesInParts DEF Signalled, ProxyTypes, FileTypes
<1>3. CASE at[p] # "serve" /\ at[p] # "clean"
  <2>1. End(p) /\ pending' = pending
    BY <1>3 DEF Signalled
  <2>2. p \notin pending
    BY <1>3, TypesInParts DEF ProxyTypes
  <2> QED
    BY <2>1, <2>2, EndTyped
<1> QED
  BY <1>1, <1>2, <1>3

(* Every reachable state is well typed, and the port has one listener, under *)
(* all faults.                                                               *)
THEOREM LifecycleTyping == Spec => []TypeOK
<1>1. Init => TypeOK
  BY LifecycleAssumption
  DEF Init, TypeOK, NoLock, NoPid, PcValue, At, StopValue, Cleanups, Bound, Listening, Serving
<1>2. TypeOK /\ [Next]_vars => TypeOK'
  <2> SUFFICES ASSUME TypeOK, [Next]_vars PROVE TypeOK'
    OBVIOUS
  <2> USE LifecycleAssumption, NoneIsNobody, TypesInParts
  <2>1. ASSUME NEW s \in Starters, Begin(s) \/ Start(s) \/ Interrupt(s) PROVE TypeOK'
    <3> USE DEF StarterTypes, Goto, PcValue, InCS
    <3>1. CASE SpawnDaemon(s)
      <4>1. CASE Goto(s, "drop") /\ UNCHANGED <<at, mine>>
        <5>1. StarterTypes'
          BY <3>1, <4>1 DEF SpawnDaemon
        <5>2. ProxyTypes' /\ FileTypes' /\ StopTypes'
          BY <3>1, <4>1 DEF SpawnDaemon, ProxyTypes, FileTypes, StopTypes, cleanVars, stopVars
        <5> QED
          BY <5>1, <5>2, PartsPrimed
      <4>2. ASSUME NEW d \in Daemons, at[d] = "off", Become(d, "launch"),
                   mine' = [mine EXCEPT ![s] = d], Goto(s, "wait")
            PROVE  TypeOK'
        <5>1. StarterTypes'
          BY <3>1, <4>2 DEF SpawnDaemon
        <5>2. ProxyTypes'
          BY <3>1, <4>2 DEF SpawnDaemon, Become, ProxyTypes, At, Listening
        <5>3. FileTypes' /\ StopTypes'
          BY <3>1 DEF SpawnDaemon, FileTypes, StopTypes, cleanVars, stopVars
        <5> QED
          BY <5>1, <5>2, <5>3, PartsPrimed
      <4> QED
        BY <3>1, <4>1, <4>2 DEF SpawnDaemon
    <3>2. CASE ~SpawnDaemon(s)
      <4>1. UNCHANGED <<proxyVars, cleanVars, stopVars>>
        BY <2>1, <3>2 DEF Begin, Interrupt, Start, Acquire, Contend, Sleep, SeeStale, Reclaim,
                          AlreadyRunning, NotRunning, Started, GiveUp, Drop
      <4>2. ProxyTypes' /\ FileTypes' /\ StopTypes'
        BY <4>1 DEF proxyVars, cleanVars, stopVars, ProxyTypes, FileTypes, StopTypes
      <4>3. CASE Begin(s) \/ Contend(s) \/ SeeStale(s) \/ AlreadyRunning(s)
                 \/ NotRunning(s) \/ GiveUp(s)
        BY <4>2, <4>3, PartsPrimed
        DEF Begin, Contend, SeeStale, AlreadyRunning, NotRunning, GiveUp
      <4>4. CASE Sleep(s) \/ Reclaim(s)
        <5>1. SpendTry(s) /\ pc[s] \in {"stat", "reclaim"} /\ UNCHANGED <<mine, answered>>
          BY <4>4 DEF Sleep, Reclaim
        <5>2. lock' \in [by : Starters \cup {None}, old : BOOLEAN] /\ (lock'.by = None => lock' = NoLock)
          <6>1. lock' \in {lock, NoLock}
            BY <4>4 DEF Sleep, Reclaim
          <6>2. NoLock \in [by : Starters \cup {None}, old : BOOLEAN]
            BY DEF NoLock
          <6> QED
            BY <6>1, <6>2
        <5>3. tries[s] \in 1 .. MaxTries /\ tries' = [tries EXCEPT ![s] = @ - 1]
          BY <5>1 DEF SpendTry
        <5>4. tries' \in [Starters -> 0 .. MaxTries]
          BY <5>3
        <5>5. pc' \in [Starters -> PcValue] /\ pc'[s] \in {"mkdir", "done"}
              /\ (pc'[s] = "mkdir" => tries'[s] > 0)
          BY <5>1, <5>3 DEF SpendTry
        <5>6. \A t \in Starters \ {s} : pc'[t] = pc[t] /\ tries'[t] = tries[t]
          BY <5>1, <5>3 DEF SpendTry
        <5>7. StarterTypes'
          BY <5>1, <5>2, <5>4, <5>5, <5>6
        <5> QED
          BY <5>7, <4>2, PartsPrimed
      <4>5. CASE Acquire(s)
        <5>1. /\ lock' = [by |-> s, old |-> FALSE]
              /\ tries' = [tries EXCEPT ![s] = 0] /\ pc' = [pc EXCEPT ![s] = "probe"]
              /\ UNCHANGED <<mine, answered>>
          BY <4>5 DEF Acquire
        <5>2. tries' \in [Starters -> 0 .. MaxTries]
          BY <5>1
        <5>3. StarterTypes'
          BY <5>1, <5>2
        <5> QED
          BY <5>3, <4>2, PartsPrimed
      <4>7. CASE Drop(s)
        BY <4>2, <4>7, PartsPrimed DEF Drop, NoLock
      <4>8. CASE Interrupt(s)
        BY <4>2, <4>8, PartsPrimed DEF Interrupt
      <4>6. CASE Started(s)
        BY <4>2, <4>6, PartsPrimed DEF Started, Serving
      <4> QED
        BY <2>1, <3>2, <4>3, <4>4, <4>5, <4>6, <4>7, <4>8 DEF Start
    <3> QED
      BY <3>1, <3>2
  <2>2. ASSUME NEW p \in Proxies, StartForeground(p) \/ Serve(p) \/ Kill(p) PROVE TypeOK'
    <3>1. StarterTypes' /\ StopTypes'
      BY <2>2 DEF StartForeground, Serve, Kill, Daemonize, Bind, WriteLifecycle, WriteMarker,
                  Fail, Shutdown, Cleanup, Return, starterVars, stopVars, StarterTypes, StopTypes
    <3>2. CASE StartForeground(p) \/ Daemonize(p) \/ Bind(p) \/ WriteLifecycle(p)
               \/ WriteMarker(p) \/ Shutdown(p)
      <4>1. ProxyTypes'
        BY <3>2 DEF StartForeground, Daemonize, Bind, WriteLifecycle, WriteMarker, Shutdown,
                    Become, ProxyTypes, At, Listening, Bound
      <4>2. FileTypes'
        BY <3>2 DEF StartForeground, Daemonize, Bind, WriteLifecycle, WriteMarker, Shutdown,
                    cleanVars, FileTypes
      <4> QED
        BY <3>1, <4>1, <4>2, PartsPrimed
    <3>3. CASE Cleanup(p)
      <4>1. ProxyTypes'
        BY <3>3 DEF Cleanup, ProxyTypes
      <4>2. FileTypes'
        BY <3>3 DEF Cleanup, Running, FileTypes, NoPid
      <4> QED
        BY <3>1, <4>1, <4>2, PartsPrimed
    <3>4. CASE Fail(p) \/ Return(p) \/ Kill(p)
      <4>1. \/ Signalled(p)
            \/ End(p) /\ pending' \subseteq pending /\ p \notin pending'
        BY <3>4 DEF Fail, Return, Kill, ProxyTypes
      <4>2. UNCHANGED <<files, cleanVars>>
        BY <3>4 DEF Fail, Return, Kill
      <4>3. ProxyTypes' /\ FileTypes'
        BY <4>1, <4>2, EndTyped, SignalTyped DEF cleanVars, FileTypes
      <4> QED
        BY <3>1, <4>3, PartsPrimed
    <3> QED
      BY <2>2, <3>2, <3>3, <3>4 DEF Serve
  <2>3. ASSUME NEW x \in Stoppers, StopStep(x) PROVE TypeOK'
    <3>1. StarterTypes'
      BY <2>3 DEF StopStep, ReadPid, CheckAlive, FoundStale, Term, Watched, Cleanup, Stopped,
                  starterVars, StarterTypes
    <3>2. CASE ReadPid(x) \/ CheckAlive(x) \/ FoundStale(x) \/ Watched(x) \/ Stopped(x)
      <4>1. ProxyTypes' /\ FileTypes'
        BY <3>2 DEF ReadPid, CheckAlive, FoundStale, Watched, Stopped, proxyVars, cleanVars,
                    ProxyTypes, FileTypes
      <4>2. StopTypes'
        BY <3>2 DEF ReadPid, CheckAlive, FoundStale, Watched, Stopped, Await, Forget,
                    StopTypes, StopValue, FileTypes
      <4> QED
        BY <3>1, <4>1, <4>2, PartsPrimed
    <3>3. CASE Cleanup(x)
      <4>1. ProxyTypes' /\ StopTypes'
        BY <3>3 DEF Cleanup, ProxyTypes, StopTypes, stopVars
      <4>2. FileTypes'
        BY <3>3 DEF Cleanup, Running, FileTypes, NoPid
      <4> QED
        BY <3>1, <4>1, <4>2, PartsPrimed
    <3>4. CASE Term(x)
      <4>1. StopTypes'
        BY <3>4, NoneIsNobody DEF Term, Forget, Await, StopTypes, StopValue
      <4>2. ProxyTypes' /\ FileTypes'
        <5>1. CASE ~Alive(target[x])
          BY <3>4, <5>1 DEF Term, cleanVars, ProxyTypes, FileTypes
        <5>2. CASE Alive(target[x])
          <6>1. target[x] \in Proxies
            BY <3>4 DEF Term, StopTypes
          <6>2. Signalled(target[x]) /\ UNCHANGED <<files, cleanVars>>
            BY <3>4, <5>2 DEF Term
          <6> QED
            BY <6>1, <6>2, SignalTyped DEF cleanVars, FileTypes
        <5> QED
          BY <5>1, <5>2
      <4> QED
        BY <3>1, <4>1, <4>2, PartsPrimed
    <3> QED
      BY <2>3, <3>2, <3>3, <3>4 DEF StopStep
  <2>4. CASE Age
    BY <2>4, PartsPrimed DEF Age, proxyVars, cleanVars, stopVars, StarterTypes, ProxyTypes, FileTypes, StopTypes, NoLock
  <2>5. CASE UNCHANGED vars
    BY <2>5, PartsPrimed DEF vars, starterVars, proxyVars, cleanVars, stopVars, StarterTypes, ProxyTypes, FileTypes, StopTypes
  <2> QED
    BY <2>1, <2>2, <2>3, <2>4, <2>5 DEF Next
<1> QED
  BY <1>1, <1>2, PTL DEF Spec
-----------------------------------------------------------------------------
(* The startup lock *)

(* Without crashes and stalls the lock never ages, so nobody takes it away,  *)
(* and whoever is inside made the one that is there.                         *)
Exclusive ==
  /\ ~lock.old
  /\ \A s \in Starters : /\ pc[s] \notin {"reclaim", "crashed"}
                         /\ pc[s] \in InCS => lock.by = s

LEMMA ExclusiveInvariant ==
  ASSUME Faults \subseteq {"kill", "slow"}
  PROVE  Spec => []Exclusive
<1>1. Init => Exclusive
  BY DEF Init, Exclusive, NoLock, InCS
<1>2. TypeOK /\ Exclusive /\ [Next]_vars => Exclusive'
  <2> SUFFICES ASSUME TypeOK, Exclusive, [Next]_vars PROVE Exclusive'
    OBVIOUS
  <2> USE TypesInParts, NoneIsNobody DEF Exclusive, StarterTypes, InCS
  <2>1. ASSUME NEW s \in Starters, Begin(s) \/ Start(s) \/ Interrupt(s) PROVE Exclusive'
    <3>1. CASE Begin(s) \/ Contend(s)
      BY <3>1 DEF Begin, Contend, Goto
    <3>2. CASE Acquire(s)
      <4>1. \A t \in Starters : pc[t] \notin InCS
        BY <3>2 DEF Acquire, NoLock
      <4> QED
        BY <3>2, <4>1 DEF Acquire, Goto
    <3>3. CASE Sleep(s)
      BY <3>3 DEF Sleep, SpendTry, Goto
    <3>4. CASE SeeStale(s) \/ Reclaim(s) \/ Interrupt(s)
      BY <3>4 DEF SeeStale, Reclaim, Interrupt
    <3>5. CASE AlreadyRunning(s) \/ NotRunning(s) \/ SpawnDaemon(s) \/ Started(s) \/ GiveUp(s)
      BY <3>5 DEF AlreadyRunning, NotRunning, SpawnDaemon, Started, GiveUp, Goto
    <3>6. CASE Drop(s)
      <4>1. \A t \in Starters : t # s => pc[t] \notin InCS
        BY <3>6 DEF Drop
      <4> QED
        BY <3>6, <4>1 DEF Drop, Goto, NoLock
    <3> QED
      BY <2>1, <3>1, <3>2, <3>3, <3>4, <3>5, <3>6 DEF Start
  <2>2. CASE Age
    BY <2>2 DEF Age, NoLock
  <2>3. CASE UNCHANGED <<lock, pc>>
    BY <2>3
  <2>4. ASSUME NEW p \in Proxies, StartForeground(p) \/ Serve(p) \/ Kill(p)
        PROVE  UNCHANGED starterVars
    BY <2>4 DEF StartForeground, Serve, Kill, Daemonize, Bind, WriteLifecycle, WriteMarker,
                Fail, Shutdown, Cleanup, Return
  <2>5. ASSUME NEW x \in Stoppers, StopStep(x) PROVE UNCHANGED starterVars
    BY <2>5 DEF StopStep, ReadPid, CheckAlive, FoundStale, Term, Watched, Cleanup, Stopped
  <2> QED
    BY <2>1, <2>2, <2>3, <2>4, <2>5 DEF Next, vars, starterVars
<1> QED
  BY <1>1, <1>2, LifecycleTyping, PTL DEF Spec

(* Starters exclude one another as long as none of them is interrupted with  *)
(* the lock or held up past its threshold, whatever happens to the proxies.  *)
THEOREM StartersExclude ==
  ASSUME Faults \subseteq {"kill", "slow"}
  PROVE  Spec => []StartExclusive
<1>1. Exclusive => StartExclusive
  BY DEF Exclusive, StartExclusive
<1> QED
  BY <1>1, ExclusiveInvariant, PTL
-----------------------------------------------------------------------------
(* Who has started what *)

(* A proxy that has served never serves again once it is over.               *)
HasServed == {"serve", "clean", "over"}
Onward == \A p \in Proxies : /\ at[p] \in HasServed => at'[p] \in HasServed
                             /\ at[p] = "over" => at'[p] = "over"

LEMMA EndIsOnward ==
  ASSUME TypeOK, NEW p \in Proxies, End(p)
  PROVE  Onward
BY TypesInParts DEF End, Become, Onward, HasServed, ProxyTypes

LEMMA SignalIsOnward ==
  ASSUME TypeOK, NEW p \in Proxies, Signalled(p)
  PROVE  Onward
<1>1. CASE at[p] \in {"serve", "clean"}
  BY <1>1 DEF Signalled, Onward, HasServed
<1>2. CASE at[p] \notin {"serve", "clean"}
  <2>1. End(p)
    BY <1>2 DEF Signalled
  <2> QED
    BY <2>1, EndIsOnward
<1> QED
  BY <1>1, <1>2

LEMMA ProxiesGoOn ==
  ASSUME TypeOK, NEW p \in Proxies, StartForeground(p) \/ Serve(p) \/ Kill(p)
  PROVE  Onward /\ UNCHANGED starterVars
<1>1. CASE StartForeground(p) \/ Daemonize(p) \/ Bind(p) \/ WriteLifecycle(p) \/ WriteMarker(p)
           \/ Shutdown(p) \/ Cleanup(p)
  BY <1>1, TypesInParts
  DEF StartForeground, Daemonize, Bind, WriteLifecycle, WriteMarker, Shutdown, Cleanup,
      Become, Onward, HasServed, ProxyTypes
<1>2. CASE Fail(p) \/ Return(p) \/ Kill(p)
  BY <1>2, EndIsOnward, SignalIsOnward DEF Fail, Return, Kill
<1> QED
  BY <1>1, <1>2 DEF Serve

LEMMA StoppersLetGoOn ==
  ASSUME TypeOK, NEW x \in Stoppers, StopStep(x)
  PROVE  Onward /\ UNCHANGED starterVars
<1>1. CASE Term(x) /\ Alive(target[x])
  <2>1. target[x] \in Proxies /\ Signalled(target[x])
    BY <1>1, TypesInParts DEF Term, StopTypes
  <2> QED
    BY <1>1, <2>1, SignalIsOnward DEF Term
<1>2. CASE ~(Term(x) /\ Alive(target[x]))
  BY <1>2 DEF StopStep, ReadPid, CheckAlive, FoundStale, Term, Watched, Cleanup, Stopped,
              proxyVars, Onward
<1> QED
  BY <1>1, <1>2

(* While a starter is between its probe and the answer of its daemon, every  *)
(* proxy that was taken for a started one is over; and it will stay so.      *)
Reported ==
  /\ \A s \in Starters :
       answered[s] # None => pc[s] \in {"drop", "done"} /\ at[answered[s]] \in HasServed
  /\ \A s \in Starters : pc[s] \in {"spawn", "wait"} =>
       \A t \in Starters : answered[t] # None => at[answered[t]] = "over"
  /\ OneCallPerProxy

LEMMA ReportedInvariant ==
  ASSUME Faults \subseteq {"kill", "slow"}
  PROVE  Spec => []Reported
<1>1. Init => Reported
  BY DEF Init, Reported, OneCallPerProxy
<1>2. TypeOK /\ Exclusive /\ Reported /\ [Next]_vars => Reported'
  <2> SUFFICES ASSUME TypeOK, Exclusive, Reported, [Next]_vars PROVE Reported'
    OBVIOUS
  <2> USE TypesInParts DEF Reported, OneCallPerProxy
  <2>1. ASSUME Onward, UNCHANGED starterVars PROVE Reported'
    <3>1. \A s \in Starters : answered[s] # None => answered[s] \in Proxies
      BY DEF StarterTypes
    <3> QED
      BY <2>1, <3>1 DEF Onward, starterVars
  <2>2. ASSUME NEW s \in Starters, Begin(s) \/ Start(s) \/ Interrupt(s) PROVE Reported'
    <3> USE DEF StarterTypes, Goto, HasServed, InCS
    <3>1. CASE Begin(s) \/ Contend(s) \/ SeeStale(s) \/ AlreadyRunning(s) \/ GiveUp(s)
      BY <3>1 DEF Begin, Contend, SeeStale, AlreadyRunning, GiveUp, proxyVars
    <3>2. CASE Acquire(s) \/ Sleep(s) \/ Reclaim(s) \/ Drop(s)
      BY <3>2 DEF Acquire, Sleep, Reclaim, Drop, SpendTry, proxyVars
    <3>3. CASE Interrupt(s)
      BY <3>3 DEF Interrupt
    <3>4. CASE NotRunning(s)
      <4>1. \A t \in Starters : answered[t] # None => at[answered[t]] = "over"
        BY <3>4 DEF NotRunning, Bound, Listening
      <4> QED
        BY <3>4, <4>1 DEF NotRunning, proxyVars
    <3>5. CASE SpawnDaemon(s)
      <4>1. \A p \in Proxies : at[p] \in HasServed => at'[p] = at[p]
        BY <3>5 DEF SpawnDaemon, Become, ProxyTypes
      <4> QED
        BY <3>5, <4>1 DEF SpawnDaemon
    <3>6. CASE Started(s)
      <4>1. PICK p \in Serving : answered' = [answered EXCEPT ![s] = p]
        BY <3>6 DEF Started
      <4>2. \A t \in Starters : answered[t] # p
        BY <3>6, NoneIsNobody, LifecycleAssumption DEF Started, Serving
      <4>3. \A t \in Starters : t # s => pc[t] \notin {"spawn", "wait"}
        BY <3>6 DEF Started, Exclusive
      <4>4. pc' = [pc EXCEPT ![s] = "drop"] /\ at' = at
        BY <3>6 DEF Started, proxyVars
      <4> QED
        BY <4>1, <4>2, <4>3, <4>4 DEF Serving
    <3> QED
      BY <2>2, <3>1, <3>2, <3>3, <3>4, <3>5, <3>6 DEF Start
  <2>3. CASE Age
    BY <2>3 DEF Age, proxyVars
  <2>4. CASE UNCHANGED vars
    BY <2>4 DEF vars, starterVars, proxyVars
  <2> QED
    BY <2>1, <2>2, <2>3, <2>4, ProxiesGoOn, StoppersLetGoOn DEF Next
<1> QED
  BY <1>1, <1>2, LifecycleTyping, ExclusiveInvariant, PTL DEF Spec

(* Two calls never take the answer of the same proxy for that of their own   *)
(* daemon (daemon.rs:170), as long as no starter dies or stalls with the     *)
(* lock, whatever happens to the proxies.                                    *)
THEOREM OneCallStartsIt ==
  ASSUME Faults \subseteq {"kill", "slow"}
  PROVE  Spec => []OneCallPerProxy
<1>1. Reported => OneCallPerProxy
  BY DEF Reported
<1> QED
  BY <1>1, ReportedInvariant, PTL
-----------------------------------------------------------------------------
(* The lifecycle files *)

(* From its start to its shutdown a daemon has the flock of the file that is *)
(* now at the path, so no other daemon has come past Daemonize; the port     *)
(* keeps everybody else from writing.                                        *)
Named ==
  \A p \in Daemons :
    at[p] \in {"bind", "bound", "named", "serve"} /\ p \notin exposed =>
      /\ pidFile.held = p
      /\ at[p] \in {"named", "serve"} => pidFile.pid = p /\ "port" \in files
      /\ at[p] = "serve" => files = {"port"} \cup {f \in {"tls"} : p \in Https}

LEMMA CleanupExposes ==
  ASSUME NEW x \in Proxies \cup Stoppers, Cleanup(x)
  PROVE  Named'
BY DEF Cleanup, Running, Named

LEMMA EndLeavesNamed ==
  ASSUME TypeOK, Named, NEW q \in Proxies, End(q), UNCHANGED <<exposed, files>>
  PROVE  Named'
BY TypesInParts, NoneIsNobody DEF Named, End, Become, ProxyTypes, FileTypes

(* Under all faults, and however many starters, stoppers and proxies there   *)
(* are: a daemon that serves is named by the files, if nobody else cleaned   *)
(* up.                                                                       *)
THEOREM DaemonsAreNamed == Spec => []ServingIsNamed
<1>1. Init => Named
  BY NoneIsNobody DEF Init, Named
<1>2. TypeOK /\ Named /\ [Next]_vars => Named'
  <2> SUFFICES ASSUME TypeOK, Named, [Next]_vars PROVE Named'
    OBVIOUS
  <2> USE TypesInParts, NoneIsNobody
  <2>1. CASE UNCHANGED <<at, exposed, pidFile, files>>
    BY <2>1 DEF Named
  <2>2. ASSUME NEW s \in Starters, Begin(s) \/ Start(s) \/ Interrupt(s) PROVE Named'
    <3>1. CASE SpawnDaemon(s)
      BY <3>1 DEF cleanVars, SpawnDaemon, Become, Named, ProxyTypes
    <3>2. CASE ~SpawnDaemon(s)
      BY <2>1, <2>2, <3>2
      DEF Begin, Interrupt, Start, Acquire, Contend, Sleep, SeeStale, Reclaim,
          AlreadyRunning, NotRunning, Started, GiveUp, Drop, proxyVars, cleanVars
    <3> QED
      BY <3>1, <3>2
  <2>3. ASSUME NEW q \in Proxies, StartForeground(q) \/ Serve(q) \/ Kill(q) PROVE Named'
    <3>1. CASE StartForeground(q) \/ Bind(q) \/ Shutdown(q)
      BY <3>1, LifecycleAssumption
      DEF cleanVars, StartForeground, Bind, Shutdown, Become, Named, ProxyTypes
    <3>2. CASE Daemonize(q)
      BY <3>2 DEF cleanVars, Daemonize, Become, Named, ProxyTypes
    <3>3. CASE WriteLifecycle(q)
      BY <3>3 DEF cleanVars, WriteLifecycle, Become, Named, ProxyTypes, FileTypes, Listening
    <3>4. CASE WriteMarker(q)
      BY <3>4 DEF cleanVars, WriteMarker, Become, Named, ProxyTypes, FileTypes, Listening
    <3>5. CASE Cleanup(q)
      BY <3>5, CleanupExposes
    <3>6. CASE Fail(q) \/ Return(q) \/ Kill(q)
      <4>1. CASE End(q)
        BY <3>6, <4>1, EndLeavesNamed DEF cleanVars, Fail, Return, Kill
      <4>2. CASE ~End(q)
        BY <2>1, <3>6, <4>2 DEF cleanVars, Fail, Return, Kill, Signalled
      <4> QED
        BY <4>1, <4>2
    <3> QED
      BY <2>3, <3>1, <3>2, <3>3, <3>4, <3>5, <3>6 DEF Serve
  <2>4. ASSUME NEW x \in Stoppers, StopStep(x) PROVE Named'
    <3>1. CASE Cleanup(x)
      BY <3>1, CleanupExposes
    <3>2. CASE Term(x)
      <4>1. CASE Alive(target[x]) /\ End(target[x])
        BY <3>2, <4>1, EndLeavesNamed DEF Term, cleanVars, StopTypes
      <4>2. CASE ~(Alive(target[x]) /\ End(target[x]))
        BY <2>1, <3>2, <4>2 DEF cleanVars, Term, Signalled
      <4> QED
        BY <4>1, <4>2
    <3>3. CASE ~Cleanup(x) /\ ~Term(x)
      BY <2>1, <2>4, <3>3
      DEF StopStep, ReadPid, CheckAlive, FoundStale, Watched, Stopped, proxyVars, cleanVars
    <3> QED
      BY <3>1, <3>2, <3>3
  <2>5. CASE Age \/ UNCHANGED vars
    BY <2>1, <2>5 DEF Age, vars, proxyVars, cleanVars
  <2> QED
    BY <2>2, <2>3, <2>4, <2>5 DEF Next
<1>3. Named => ServingIsNamed
  BY DEF Named, ServingIsNamed, Serving
<1> QED
  BY <1>1, <1>2, <1>3, LifecycleTyping, PTL DEF Spec
=============================================================================
