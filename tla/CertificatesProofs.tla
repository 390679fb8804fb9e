-------------------------- MODULE CertificatesProofs --------------------------
(* Theorems about Certificates, for any processes and connections, and every  *)
(* bound.                                                                     *)
EXTENDS Certificates, TLAPS

Places == {"idle", "ca", "server", "ensured", "serving", "update"}

(* The last n of the system calls that write a pair.                          *)
Rest(f, c, n) ==
  IF n = 4 THEN Writes(f, c)
  ELSE IF n = 3 THEN << <<"key", f, c.key>>, <<"cert", f, Torn>>, <<"cert", f, c>> >>
  ELSE IF n = 2 THEN << <<"cert", f, Torn>>, <<"cert", f, c>> >>
  ELSE << <<"cert", f, c>> >>
Rests == {<<>>} \cup {Rest(f, c, n) : f \in Pairs, c \in Cert, n \in 1 .. 4}

FileTypes ==
  /\ key \in [Pairs -> Keys \cup {None, Torn}]
  /\ cert \in [Pairs -> Cert \cup {None, Torn}]
  /\ made \in 0 .. MaxKeys /\ old \subseteq Keys /\ over \subseteq Pairs

EnsureTypes ==
  /\ at \in [Procs -> Places] /\ todo \in [Procs -> Rests]
  /\ regen \in [Procs -> BOOLEAN] /\ died \in BOOLEAN /\ raced \in BOOLEAN
  /\ faults \in 0 .. MaxFaults /\ removed \in 0 .. MaxRemoved

TlsTypes == conn \in [Conns -> {"none", "answered", "lost"}]

(* How far a pair is: until the last call but one its certificate does not    *)
(* pass for valid, or is one that was valid when the generation began, and    *)
(* from the last but one on the key is the one the certificate will be for.   *)
Progress(f, c, n) ==
  ~raced => /\ n >= 2 => ~IsCertValid(f) \/ f \in over
            /\ n <= 2 => key[f] = c.key

Working == \A p \in Procs : todo[p] # <<>> =>
             \E f \in Pairs, c \in Cert, n \in 1 .. 4 :
               todo[p] = Rest(f, c, n) /\ Progress(f, c, n)

OneGenerates == ~raced => \A p, q \in Procs : todo[p] # <<>> /\ todo[q] # <<>> => p = q

Serving == at[Proxy] = "serving" => default.key \in Keys /\ default.cert # None

Types == FileTypes /\ EnsureTypes /\ TlsTypes
IInv  == Types /\ Working /\ OneGenerates /\ WholePairs /\ Serving

-----------------------------------------------------------------------------
(* The system calls. *)

LEMMA RestSteps ==
  ASSUME NEW f, NEW c, NEW n \in 1 .. 4
  PROVE  /\ Rest(f, c, n) # <<>>
         /\ Head(Rest(f, c, n)) = IF n = 4 THEN <<"key", f, Torn>>
                                  ELSE IF n = 3 THEN <<"key", f, c.key>>
                                  ELSE IF n = 2 THEN <<"cert", f, Torn>>
                                  ELSE <<"cert", f, c>>
         /\ Tail(Rest(f, c, n)) = IF n = 1 THEN <<>> ELSE Rest(f, c, n - 1)
<1>1. CASE n = 4
  BY <1>1 DEF Rest, Writes
<1>2. CASE n = 3
  BY <1>2 DEF Rest
<1>3. CASE n = 2
  BY <1>3 DEF Rest
<1>4. CASE n = 1
  BY <1>4 DEF Rest
<1> QED
  BY <1>1, <1>2, <1>3, <1>4

(* What is being written is told by its last call.                            *)
LEMMA RestLast ==
  ASSUME NEW f, NEW c, NEW n \in 1 .. 4
  PROVE  Len(Rest(f, c, n)) = n /\ Rest(f, c, n)[n] = <<"cert", f, c>>
<1>1. CASE n = 4
  BY <1>1 DEF Rest, Writes
<1>2. CASE n = 3
  BY <1>2 DEF Rest
<1>3. CASE n = 2
  BY <1>3 DEF Rest
<1>4. CASE n = 1
  BY <1>4 DEF Rest
<1> QED
  BY <1>1, <1>2, <1>3, <1>4

LEMMA RestTells ==
  ASSUME NEW f, NEW c, NEW n \in 1 .. 4, NEW g, NEW d, NEW m \in 1 .. 4,
         Rest(f, c, n) = Rest(g, d, m)
  PROVE  n = m /\ f = g /\ c = d
<1>1. PICK r : r = Rest(f, c, n)
  OBVIOUS
<1>2. Len(r) = n /\ r[n] = <<"cert", f, c>>
  BY <1>1, RestLast, Zenon
<1>3. r = Rest(g, d, m)
  BY <1>1, Zenon
<1>4. Len(r) = m /\ r[m] = <<"cert", g, d>>
  BY <1>3, RestLast, Zenon
<1> QED
  BY <1>2, <1>4

LEMMA RestTyped ==
  ASSUME NEW f \in Pairs, NEW c \in Cert, NEW n \in 1 .. 4
  PROVE  Rest(f, c, n) \in Rests /\ <<>> \in Rests
BY DEF Rests

LEMMA Apart ==
  /\ Proxy \in Procs /\ Trusters \subseteq Procs /\ Proxy \notin Trusters
  /\ Ca \in Pairs /\ Server \in Pairs /\ Ca # Server /\ Pairs = {Ca, Server}
  /\ None \notin Keys /\ Torn \notin Keys /\ None # Torn /\ Keys \subseteq Nat
  /\ None \notin Cert /\ Torn \notin Cert
BY CertificatesAssumption, MarksAssumption DEF Procs, Pairs, Keys

LEMMA Spaces ==
  ASSUME IInv
  PROVE  /\ made \in Nat /\ faults \in Nat /\ died \in BOOLEAN /\ raced \in BOOLEAN
         /\ regen \in [Procs -> BOOLEAN] /\ todo \in [Procs -> Rests]
         /\ key \in [Pairs -> Keys \cup {None, Torn}] /\ cert \in [Pairs -> Cert \cup {None, Torn}]
<1>1. made \in Nat /\ faults \in Nat
  BY CertificatesAssumption DEF IInv, Types, FileTypes, EnsureTypes
<1> QED
  BY <1>1 DEF IInv, Types, FileTypes, EnsureTypes

(* What a process does with the next of its calls.                            *)
LEMMA WriteDoes ==
  ASSUME IInv, NEW p \in Procs, Write(p),
         NEW f \in Pairs, NEW c \in Cert, NEW n \in 1 .. 4, todo[p] = Rest(f, c, n)
  PROVE  /\ key' \in [Pairs -> Keys \cup {None, Torn}]
         /\ cert' \in [Pairs -> Cert \cup {None, Torn}] /\ todo' \in [Procs -> Rests]
         /\ key'[f] = IF n = 4 THEN Torn ELSE IF n = 3 THEN c.key ELSE key[f]
         /\ cert'[f] = IF n = 2 THEN Torn ELSE IF n = 1 THEN c ELSE cert[f]
         /\ \A g \in Pairs : g # f => key'[g] = key[g] /\ cert'[g] = cert[g]
         /\ over' = IF n = 1 THEN over \ {f} ELSE over
         /\ todo'[p] = IF n = 1 THEN <<>> ELSE Rest(f, c, n - 1)
         /\ \A q \in Procs : q # p => todo'[q] = todo[q]
         /\ UNCHANGED <<made, old, at, regen, died, raced, conn, default,
                        anchor, bundle, said, faults, removed>>
<1>1. PICK w : w = Head(todo[p])
  OBVIOUS
<1>2. /\ w[1] = "key" => key' = [key EXCEPT ![w[2]] = w[3]] /\ cert' = cert
      /\ w[1] # "key" => cert' = [cert EXCEPT ![w[2]] = w[3]] /\ key' = key
      /\ over' = IF Len(todo[p]) = 1 THEN over \ {w[2]} ELSE over
      /\ todo' = [todo EXCEPT ![p] = Tail(todo[p])]
  BY <1>1 DEF Write
<1>3. /\ w = IF n = 4 THEN <<"key", f, Torn>>
             ELSE IF n = 3 THEN <<"key", f, c.key>>
             ELSE IF n = 2 THEN <<"cert", f, Torn>>
             ELSE <<"cert", f, c>>
      /\ Tail(todo[p]) = IF n = 1 THEN <<>> ELSE Rest(f, c, n - 1)
      /\ Len(todo[p]) = n
  <2> DEFINE first == IF n = 4 THEN <<"key", f, Torn>>
                      ELSE IF n = 3 THEN <<"key", f, c.key>>
                      ELSE IF n = 2 THEN <<"cert", f, Torn>>
                      ELSE <<"cert", f, c>>
             others == IF n = 1 THEN <<>> ELSE Rest(f, c, n - 1)
  <2>1. Head(Rest(f, c, n)) = first /\ Tail(Rest(f, c, n)) = others
    BY RestSteps, Zenon
  <2>2. Len(Rest(f, c, n)) = n
    BY RestLast, Zenon
  <2> HIDE DEF first, others
  <2>3. w = first /\ Tail(todo[p]) = others /\ Len(todo[p]) = n
    BY <1>1, <2>1, <2>2, Zenon
  <2> QED
    BY <2>3 DEF first, others
<1>4. /\ w[2] = f /\ (w[1] = "key" <=> n >= 3)
      /\ w[3] = IF n = 4 THEN Torn ELSE IF n = 3 THEN c.key ELSE IF n = 2 THEN Torn ELSE c
  BY <1>3
<1>5. (IF n = 1 THEN <<>> ELSE Rest(f, c, n - 1)) \in Rests
  <2>1. CASE n = 1
    BY <2>1, RestTyped
  <2>2. CASE n # 1
    <3>1. n - 1 \in 1 .. 4
      BY <2>2
    <3> QED
      BY <2>2, <3>1, RestTyped
  <2> QED
    BY <2>1, <2>2
<1>6. /\ todo' \in [Procs -> Rests]
      /\ todo'[p] = IF n = 1 THEN <<>> ELSE Rest(f, c, n - 1)
      /\ \A q \in Procs : q # p => todo'[q] = todo[q]
  <2>1. todo' = [todo EXCEPT ![p] = IF n = 1 THEN <<>> ELSE Rest(f, c, n - 1)]
    BY <1>2, <1>3, Zenon
  <2> QED
    BY <1>5, <2>1, Spaces
<1>7. over' = IF n = 1 THEN over \ {f} ELSE over
  BY <1>2, <1>3, <1>4
<1>8. c.key \in Keys
  BY DEF Cert
<1>9. /\ key' \in [Pairs -> Keys \cup {None, Torn}]
      /\ cert' \in [Pairs -> Cert \cup {None, Torn}]
      /\ key'[f] = IF n = 4 THEN Torn ELSE IF n = 3 THEN c.key ELSE key[f]
      /\ cert'[f] = IF n = 2 THEN Torn ELSE IF n = 1 THEN c ELSE cert[f]
      /\ \A g \in Pairs : g # f => key'[g] = key[g] /\ cert'[g] = cert[g]
  <2>1. CASE n >= 3
    <3>1. key' = [key EXCEPT ![f] = w[3]] /\ cert' = cert
      BY <1>2, <1>4, <2>1, Zenon
    <3>2. w[3] = (IF n = 4 THEN Torn ELSE c.key) /\ w[3] \in Keys \cup {None, Torn}
      BY <1>4, <1>8, <2>1
    <3> QED
      BY <2>1, <3>1, <3>2, Spaces
  <2>2. CASE n <= 2
    <3>1. w[1] # "key"
      BY <1>4, <2>2
    <3>2. cert' = [cert EXCEPT ![f] = w[3]] /\ key' = key
      BY <1>2, <1>4, <3>1, Zenon
    <3>3. w[3] = (IF n = 2 THEN Torn ELSE c) /\ w[3] \in Cert \cup {None, Torn}
      BY <1>4, <2>2
    <3> QED
      BY <2>2, <3>2, <3>3, Spaces
  <2> QED
    BY <2>1, <2>2
<1>10. UNCHANGED <<made, old, at, regen, died, raced, conn, default,
                   anchor, bundle, said, faults, removed>>
  BY DEF Write, tls, trust, world
<1> QED
  BY <1>6, <1>7, <1>9, <1>10

LEMMA WriteKeeps == ASSUME NEW p \in Procs PROVE IInv /\ Write(p) => IInv'
<1> SUFFICES ASSUME IInv, Write(p) PROVE IInv'
  OBVIOUS
<1>1. PICK f \in Pairs, c \in Cert, n \in 1 .. 4 : todo[p] = Rest(f, c, n) /\ Progress(f, c, n)
  BY DEF IInv, Working, Write
<1>2. /\ key' \in [Pairs -> Keys \cup {None, Torn}]
      /\ cert' \in [Pairs -> Cert \cup {None, Torn}] /\ todo' \in [Procs -> Rests]
      /\ key'[f] = IF n = 4 THEN Torn ELSE IF n = 3 THEN c.key ELSE key[f]
      /\ cert'[f] = IF n = 2 THEN Torn ELSE IF n = 1 THEN c ELSE cert[f]
      /\ \A g \in Pairs : g # f => key'[g] = key[g] /\ cert'[g] = cert[g]
      /\ over' = IF n = 1 THEN over \ {f} ELSE over
      /\ todo'[p] = IF n = 1 THEN <<>> ELSE Rest(f, c, n - 1)
      /\ \A q \in Procs : q # p => todo'[q] = todo[q]
  BY <1>1, WriteDoes
<1>3. UNCHANGED <<made, old, at, regen, died, raced, conn, default, faults, removed>>
  BY <1>1, WriteDoes
<1>4. \A g \in Pairs : g # f => (IsCertValid(g)' <=> IsCertValid(g)) /\ (g \in over' <=> g \in over)
  BY <1>2, <1>3 DEF IsCertValid
<1>5. ~raced /\ n >= 2 => ~IsCertValid(f)' \/ f \in over'
  BY <1>1, <1>2, <1>3, Apart DEF Progress, IsCertValid
<1>6. todo[p] # <<>>
  BY <1>1, RestSteps
<1>7. Types'
  BY <1>2, <1>3 DEF IInv, Types, FileTypes, EnsureTypes, TlsTypes
<1>8. Working'
  <2> SUFFICES ASSUME NEW q \in Procs, todo'[q] # <<>>
               PROVE  \E g \in Pairs, d \in Cert, m \in 1 .. 4 :
                        todo'[q] = Rest(g, d, m) /\ Progress(g, d, m)'
    BY DEF Working
  <2>1. CASE q = p
    <3>1. n \in 2 .. 4 /\ todo'[p] = Rest(f, c, n - 1) /\ n - 1 \in 1 .. 4
      BY <1>2, <2>1
    <3>2. ~raced /\ n - 1 <= 2 => key'[f] = c.key
      <4>1. CASE n = 3
        BY <1>2, <4>1
      <4>2. CASE n = 2
        BY <1>1, <1>2, <4>2 DEF Progress
      <4> QED
        BY <4>1, <4>2, <3>1
    <3>3. ~raced /\ n - 1 >= 2 => ~IsCertValid(f)' \/ f \in over'
      BY <1>5, <3>1
    <3>4. Progress(f, c, n - 1)'
      BY <1>3, <3>2, <3>3 DEF Progress
    <3> QED
      BY <2>1, <3>1, <3>4
  <2>2. CASE q # p
    <3>1. PICK g \in Pairs, d \in Cert, m \in 1 .. 4 : todo[q] = Rest(g, d, m)
      BY <1>2, <2>2 DEF IInv, Working
    <3>2. raced'
      BY <1>2, <1>3, <1>6, <2>2 DEF IInv, OneGenerates
    <3> QED
      BY <1>2, <2>2, <3>1, <3>2 DEF Progress
  <2> QED
    BY <2>1, <2>2
<1>9. OneGenerates'
  <2>1. \A q \in Procs : todo'[q] # <<>> => todo[q] # <<>>
    BY <1>2, <1>6
  <2> QED
    BY <1>3, <2>1 DEF IInv, OneGenerates
<1>10. WholePairs'
  <2> SUFFICES ASSUME ~raced', NEW g \in Pairs \ over', ~Missing(g)'
               PROVE  cert'[g].key = key'[g]
    BY DEF WholePairs
  <2>1. CASE g # f
    BY <1>2, <1>3, <1>4, <2>1 DEF IInv, WholePairs, Missing
  <2>2. CASE g = f
    <3>1. n = 1
      BY <1>3, <1>5, <2>2 DEF Missing
    <3> QED
      BY <1>1, <1>2, <1>3, <2>2, <3>1 DEF Progress
  <2> QED
    BY <2>1, <2>2
<1>11. Serving'
  BY <1>3 DEF IInv, Serving
<1> QED
  BY <1>7, <1>8, <1>9, <1>10, <1>11 DEF IInv
-----------------------------------------------------------------------------
(* Steps that write no file. *)

(* Writers go on as they were, or stop; certificates only come to their end.  *)
LEMMA StillKeeps ==
  ASSUME IInv, UNCHANGED <<key, cert, made, over, raced>>, EnsureTypes', TlsTypes',
         old \subseteq old', old' \subseteq Keys,
         \A p \in Procs : todo'[p] \in {todo[p], <<>>}, Serving'
  PROVE  IInv'
<1>1. \A f \in Pairs : IsCertValid(f)' => IsCertValid(f)
  BY DEF IsCertValid
<1>2. Types'
  BY DEF IInv, Types, FileTypes
<1>3. Working'
  <2> SUFFICES ASSUME NEW p \in Procs, todo'[p] # <<>>
               PROVE  \E f \in Pairs, c \in Cert, n \in 1 .. 4 :
                        todo'[p] = Rest(f, c, n) /\ Progress(f, c, n)'
    BY DEF Working
  <2>1. todo'[p] = todo[p]
    OBVIOUS
  <2>2. PICK f \in Pairs, c \in Cert, n \in 1 .. 4 : todo[p] = Rest(f, c, n) /\ Progress(f, c, n)
    BY <2>1 DEF IInv, Working
  <2>3. Progress(f, c, n)'
    BY <1>1, <2>2 DEF Progress
  <2> QED
    BY <2>1, <2>2, <2>3
<1>4. OneGenerates'
  <2>1. \A p \in Procs : todo'[p] # <<>> => todo[p] # <<>>
    OBVIOUS
  <2> QED
    BY <2>1 DEF IInv, OneGenerates
<1>5. WholePairs'
  BY <1>1 DEF IInv, WholePairs, Missing
<1> QED
  BY <1>2, <1>3, <1>4, <1>5 DEF IInv

LEMMA GotoTyped ==
  ASSUME at \in [Procs -> Places], NEW p \in Procs, NEW l \in Places, Goto(p, l)
  PROVE  /\ at' \in [Procs -> Places]
         /\ at'[p] = l /\ \A q \in Procs : q # p => at'[q] = at[q]
BY DEF Goto

(* A process other than a proxy that begins to serve goes somewhere.          *)
LEMMA MoveKeeps ==
  ASSUME IInv, UNCHANGED <<key, cert, made, over, raced, old, todo, died, removed, conn, default>>,
         regen' \in [Procs -> BOOLEAN], faults' \in 0 .. MaxFaults,
         NEW p \in Procs, NEW l \in Places \ {"serving"}, Goto(p, l)
  PROVE  IInv'
<1>1. at' \in [Procs -> Places] /\ at'[p] = l /\ \A q \in Procs : q # p => at'[q] = at[q]
  BY GotoTyped DEF IInv, Types, EnsureTypes
<1>2. EnsureTypes' /\ TlsTypes'
  BY <1>1 DEF IInv, Types, EnsureTypes, TlsTypes
<1>3. Serving'
  BY <1>1, Apart DEF IInv, Serving
<1> QED
  BY <1>2, <1>3, StillKeeps DEF IInv, Types, FileTypes

LEMMA TrustKeeps ==
  ASSUME NEW p \in Procs
  PROVE  IInv /\ (Start(p) \/ AlreadyTrusted(p) \/ CopyAnchor(p) \/ UpdateBundle(p)) => IInv'
<1> SUFFICES ASSUME IInv, Start(p) \/ AlreadyTrusted(p) \/ CopyAnchor(p) \/ UpdateBundle(p)
             PROVE  IInv'
  OBVIOUS
<1>1. /\ UNCHANGED <<key, cert, made, over, raced, old, todo, died, removed, conn, default, regen>>
      /\ faults' = faults \/ (faults < MaxFaults /\ faults' = faults + 1)
  BY DEF Start, AlreadyTrusted, CopyAnchor, UpdateBundle, files, tls, world
<1>2. PICK l \in {"idle", "ca", "update"} : Goto(p, l)
  BY DEF Start, AlreadyTrusted, CopyAnchor, UpdateBundle
<1>3. regen' \in [Procs -> BOOLEAN] /\ faults' \in 0 .. MaxFaults
  BY <1>1, CertificatesAssumption DEF IInv, Types, EnsureTypes
<1>4. l \in Places \ {"serving"}
  BY DEF Places
<1> QED
  BY <1>1, <1>2, <1>3, <1>4, MoveKeeps

LEMMA HelloKeeps ==
  ASSUME IInv, NEW c \in Conns, NEW named \in BOOLEAN, Hello(c, named)
  PROVE  IInv'
<1>1. /\ UNCHANGED <<key, cert, made, over, raced, old, todo, died, removed, default,
                     regen, at, faults>>
      /\ conn' = [conn EXCEPT ![c] = IF named THEN "lost" ELSE "answered"]
  BY DEF Hello, files, ensure, world
<1>2. EnsureTypes' /\ TlsTypes'
  BY <1>1 DEF IInv, Types, EnsureTypes, TlsTypes
<1>3. Serving'
  BY <1>1 DEF IInv, Serving
<1> QED
  BY <1>1, <1>2, <1>3, StillKeeps DEF IInv, Types, FileTypes

LEMMA ExpireKeeps == ASSUME IInv, NEW k \in Keys, Expire(k) PROVE IInv'
<1>1. /\ UNCHANGED <<key, cert, made, over, raced, todo, died, removed, conn, default,
                     regen, at, faults>>
      /\ old' = old \cup {k}
  BY DEF Expire, files, ensure, tls
<1>2. EnsureTypes' /\ TlsTypes' /\ Serving'
  BY <1>1 DEF IInv, Types, EnsureTypes, TlsTypes, Serving
<1> QED
  BY <1>1, <1>2, StillKeeps DEF IInv, Types, FileTypes

(* A proxy that begins to serve has loaded a key.                             *)
LEMMA NewResolverKeeps == ASSUME IInv, NewResolver PROVE IInv'
<1>1. UNCHANGED <<key, cert, made, over, raced, old, todo, died, removed, conn, regen, faults>>
  BY DEF NewResolver, files, trust, world
<1>2. PICK l \in {"serving", "idle"} : Goto(Proxy, l)
  BY DEF NewResolver
<1>3. at' \in [Procs -> Places] /\ at'[Proxy] = l
  <2>1. l \in Places
    BY DEF Places
  <2> QED
    BY <1>2, <2>1, GotoTyped, Apart DEF IInv, Types, EnsureTypes
<1>4. EnsureTypes' /\ TlsTypes'
  BY <1>1, <1>3 DEF IInv, Types, EnsureTypes, TlsTypes
<1>5. Serving'
  <2>1. CASE Loads(Server) /\ default' = Loaded(Server)
    BY <2>1 DEF Loads, Loaded, Serving
  <2>2. CASE Goto(Proxy, "idle")
    <3>1. "idle" \in Places
      BY DEF Places
    <3>2. at'[Proxy] = "idle"
      BY <2>2, <3>1, GotoTyped, Apart DEF IInv, Types, EnsureTypes
    <3> QED
      BY <3>2 DEF Serving
  <2> QED
    BY <2>1, <2>2 DEF NewResolver
<1> QED
  BY <1>1, <1>4, <1>5, StillKeeps DEF IInv, Types, FileTypes

(* What a process that stops leaves.                                          *)
LEMMA StopDoes ==
  ASSUME IInv, NEW p \in Procs, Stop(p)
  PROVE  /\ UNCHANGED <<key, cert, made, over, raced, old, removed, conn, anchor, bundle, said>>
         /\ at' \in [Procs -> Places] /\ at'[p] = "idle" /\ \A q \in Procs : q # p => at'[q] = at[q]
         /\ regen' \in [Procs -> BOOLEAN] /\ \A q \in Procs : q # p => regen'[q] = regen[q]
         /\ todo' \in [Procs -> Rests] /\ todo'[p] = <<>>
         /\ \A q \in Procs : q # p => todo'[q] = todo[q]
         /\ faults' \in 0 .. MaxFaults /\ faults' # 0
         /\ died' \in BOOLEAN /\ (died => died')
         /\ ~died' => todo[p] = <<>> /\ ~(at[p] = "server" /\ regen[p])
<1>1. UNCHANGED <<key, cert, made, over, raced, old, removed, conn, anchor, bundle, said>>
  BY DEF Stop, files, trust
<1>2. "idle" \in Places /\ Goto(p, "idle")
  BY DEF Places, Stop
<1>3. at' \in [Procs -> Places] /\ at'[p] = "idle" /\ \A q \in Procs : q # p => at'[q] = at[q]
  BY <1>2, GotoTyped DEF IInv, Types, EnsureTypes
<1>4. regen' \in [Procs -> BOOLEAN] /\ \A q \in Procs : q # p => regen'[q] = regen[q]
  BY Spaces DEF Stop
<1>5. /\ todo' \in [Procs -> Rests] /\ todo'[p] = <<>>
      /\ \A q \in Procs : q # p => todo'[q] = todo[q]
  <2>1. <<>> \in Rests
    BY DEF Rests
  <2> QED
    BY <2>1, Spaces DEF Stop
<1>6. faults' \in 0 .. MaxFaults /\ faults' # 0
  BY CertificatesAssumption, Spaces DEF Stop
<1>7. /\ died' \in BOOLEAN /\ (died => died')
      /\ ~died' => todo[p] = <<>> /\ ~(at[p] = "server" /\ regen[p])
  <2>1. died' = (died \/ (at[p] = "server" /\ regen[p]) \/ todo[p] # <<>>)
    BY DEF Stop
  <2> QED
    BY <2>1, Spaces
<1> QED
  BY <1>1, <1>3, <1>4, <1>5, <1>6, <1>7

LEMMA StopKeeps ==
  ASSUME IInv, NEW p \in Procs, Crash(p) \/ WriteFails(p)
  PROVE  IInv'
<1>1. Stop(p) /\ default' = IF p = Proxy THEN default' ELSE default
  BY DEF Crash, WriteFails
<1>2. /\ UNCHANGED <<key, cert, made, over, raced, old, removed, conn>>
      /\ at' \in [Procs -> Places] /\ at'[p] = "idle" /\ \A q \in Procs : q # p => at'[q] = at[q]
      /\ regen' \in [Procs -> BOOLEAN] /\ died' \in BOOLEAN /\ faults' \in 0 .. MaxFaults
      /\ todo' \in [Procs -> Rests] /\ todo'[p] = <<>>
      /\ \A q \in Procs : q # p => todo'[q] = todo[q]
  BY <1>1, StopDoes
<1>3. EnsureTypes' /\ TlsTypes'
  BY <1>2 DEF IInv, Types, EnsureTypes, TlsTypes
<1>4. Serving'
  BY <1>1, <1>2, Apart DEF IInv, Serving
<1>5. \A q \in Procs : todo'[q] \in {todo[q], <<>>}
  BY <1>2
<1> QED
  BY <1>2, <1>3, <1>4, <1>5, StillKeeps DEF IInv, Types, FileTypes

(* A file goes while none is written.                                         *)
LEMMA RemoveDoes ==
  ASSUME IInv, NEW f \in Pairs, Remove(f)
  PROVE  /\ \A p \in Procs : todo[p] = <<>>
         /\ key' \in [Pairs -> Keys \cup {None, Torn}] /\ cert' \in [Pairs -> Cert \cup {None, Torn}]
         /\ key'[f] = None \/ cert'[f] = None
         /\ cert'[f] \in {cert[f], None}
         /\ \A g \in Pairs : g # f => key'[g] = key[g] /\ cert'[g] = cert[g]
         /\ UNCHANGED <<made, over, old, faults, at, regen, todo, died, raced, conn, default,
                        anchor, bundle, said>>
<1>1. /\ \A p \in Procs : todo[p] = <<>>
      /\ UNCHANGED <<made, over, old, faults, at, regen, todo, died, raced, conn, default,
                     anchor, bundle, said>>
  BY DEF Remove, ensure, tls, trust
<1>2. CASE key' = [key EXCEPT ![f] = None] /\ UNCHANGED cert
  BY <1>1, <1>2, Spaces
<1>3. CASE cert' = [cert EXCEPT ![f] = None] /\ UNCHANGED key
  BY <1>1, <1>3, Spaces
<1> QED
  BY <1>2, <1>3 DEF Remove

LEMMA RemoveKeeps == ASSUME IInv, NEW f \in Pairs, Remove(f) PROVE IInv'
<1>1. /\ \A p \in Procs : todo[p] = <<>>
      /\ key' \in [Pairs -> Keys \cup {None, Torn}] /\ cert' \in [Pairs -> Cert \cup {None, Torn}]
      /\ key'[f] = None \/ cert'[f] = None
      /\ \A g \in Pairs : g # f => key'[g] = key[g] /\ cert'[g] = cert[g]
      /\ UNCHANGED <<made, over, old, faults, at, regen, todo, died, raced, conn, default>>
  BY RemoveDoes
<1>2. removed' \in 0 .. MaxRemoved
  BY CertificatesAssumption DEF Remove, IInv, Types, EnsureTypes
<1>3. Types'
  BY <1>1, <1>2 DEF IInv, Types, FileTypes, EnsureTypes, TlsTypes
<1>4. Working' /\ OneGenerates' /\ Serving'
  BY <1>1 DEF IInv, Working, OneGenerates, Serving
<1>5. WholePairs'
  <2> SUFFICES ASSUME ~raced', NEW g \in Pairs \ over', ~Missing(g)'
               PROVE  cert'[g].key = key'[g]
    BY DEF WholePairs
  <2>1. g # f
    BY <1>1, Apart DEF Missing, IsCertValid
  <2>2. IsCertValid(g)' <=> IsCertValid(g)
    BY <1>1, <2>1 DEF IsCertValid
  <2> QED
    BY <1>1, <2>1, <2>2 DEF IInv, WholePairs, Missing
<1> QED
  BY <1>3, <1>4, <1>5 DEF IInv

-----------------------------------------------------------------------------
(* Key pairs are generated. *)

LEMMA GenerateDoes ==
  ASSUME IInv, NEW p \in Procs, NEW f \in Pairs, NEW signer \in Keys, Generate(p, f, signer)
  PROVE  /\ made' = made + 1 /\ made' \in 0 .. MaxKeys
         /\ \E c \in Cert : c.key = made + 1 /\ c.signer = signer /\ todo'[p] = Rest(f, c, 4)
         /\ todo' \in [Procs -> Rests] /\ \A q \in Procs : q # p => todo'[q] = todo[q]
         /\ raced' \in BOOLEAN /\ (raced => raced')
         /\ ~raced' => \A q \in Procs : q # p => todo[q] = <<>>
         /\ over' \in SUBSET Pairs /\ over \subseteq over' /\ (IsCertValid(f) => f \in over')
<1>1. made' = made + 1 /\ made' \in Keys /\ made' \in 0 .. MaxKeys
  BY CertificatesAssumption, Spaces DEF Generate, Keys
<1>2. PICK c : c = [key |-> made', signer |-> signer]
  OBVIOUS
<1>3. c \in Cert /\ c.key = made + 1 /\ c.signer = signer
  BY <1>1, <1>2 DEF Cert
<1>4. todo' = [todo EXCEPT ![p] = Rest(f, c, 4)]
  BY <1>2 DEF Generate, Rest
<1>5. Rest(f, c, 4) \in Rests
  BY <1>3, RestTyped
<1>6. /\ todo'[p] = Rest(f, c, 4) /\ todo' \in [Procs -> Rests]
      /\ \A q \in Procs : q # p => todo'[q] = todo[q]
  BY <1>4, <1>5, Spaces
<1>7. raced' = (raced \/ \E q \in Procs \ {p} : todo[q] # <<>>)
  BY DEF Generate
<1>8. raced' \in BOOLEAN /\ (raced => raced') /\ (~raced' => \A q \in Procs : q # p => todo[q] = <<>>)
  BY <1>7, Spaces
<1>9. over' \in SUBSET Pairs /\ over \subseteq over' /\ (IsCertValid(f) => f \in over')
  BY DEF Generate, IInv, Types, FileTypes
<1> QED
  BY <1>1, <1>3, <1>6, <1>8, <1>9

LEMMA GenerateKeeps ==
  ASSUME IInv, NEW p \in Procs, NEW f \in Pairs, NEW signer \in Keys, Generate(p, f, signer),
         UNCHANGED <<key, cert, old, conn, default, faults, removed, died>>,
         regen' \in [Procs -> BOOLEAN], NEW l \in {"server", "ensured"}, Goto(p, l)
  PROVE  IInv'
<1>1. PICK c \in Cert : todo'[p] = Rest(f, c, 4)
  BY GenerateDoes
<1>2. /\ made' \in 0 .. MaxKeys /\ todo' \in [Procs -> Rests]
      /\ \A q \in Procs : q # p => todo'[q] = todo[q]
      /\ raced' \in BOOLEAN /\ (raced => raced')
      /\ ~raced' => \A q \in Procs : q # p => todo[q] = <<>>
      /\ over' \in SUBSET Pairs /\ over \subseteq over' /\ (IsCertValid(f) => f \in over')
  BY GenerateDoes
<1>3. at' \in [Procs -> Places] /\ at'[p] = l /\ \A q \in Procs : q # p => at'[q] = at[q]
  <2>1. l \in Places
    BY DEF Places
  <2> QED
    BY <2>1, GotoTyped DEF IInv, Types, EnsureTypes
<1>4. Types'
  BY <1>2, <1>3 DEF IInv, Types, FileTypes, EnsureTypes, TlsTypes
<1>5. \A g \in Pairs : IsCertValid(g)' <=> IsCertValid(g)
  BY DEF IsCertValid
<1>6. Working'
  <2> SUFFICES ASSUME NEW q \in Procs, todo'[q] # <<>>
               PROVE  \E g \in Pairs, d \in Cert, n \in 1 .. 4 :
                        todo'[q] = Rest(g, d, n) /\ Progress(g, d, n)'
    BY DEF Working
  <2>1. CASE q = p
    <3>1. Progress(f, c, 4)'
      BY <1>2, <1>5 DEF Progress
    <3> QED
      BY <1>1, <2>1, <3>1
  <2>2. CASE q # p
    <3>1. raced'
      BY <1>2, <2>2
    <3>2. PICK g \in Pairs, d \in Cert, n \in 1 .. 4 : todo[q] = Rest(g, d, n)
      BY <1>2, <2>2 DEF IInv, Working
    <3> QED
      BY <1>2, <2>2, <3>1, <3>2 DEF Progress
  <2> QED
    BY <2>1, <2>2
<1>7. OneGenerates'
  BY <1>2 DEF OneGenerates
<1>8. WholePairs'
  BY <1>2, <1>5 DEF IInv, WholePairs, Missing
<1>9. Serving'
  BY <1>3, Apart DEF IInv, Serving
<1> QED
  BY <1>4, <1>6, <1>7, <1>8, <1>9 DEF IInv

LEMMA EnsureCaKeeps == ASSUME IInv, NEW p \in Procs, EnsureCa(p) PROVE IInv'
<1>1. /\ UNCHANGED <<key, cert, died, conn, default, old, faults, removed>>
      /\ Goto(p, "server") /\ regen' = [regen EXCEPT ![p] = Missing(Ca)]
  BY DEF EnsureCa, tls, world
<1>2. regen' \in [Procs -> BOOLEAN]
  BY <1>1, Spaces DEF Missing
<1>3. CASE ~Missing(Ca)
  <2>1. UNCHANGED <<made, todo, raced, over>>
    BY <1>3 DEF EnsureCa, Spare
  <2>2. faults' \in 0 .. MaxFaults /\ "server" \in Places \ {"serving"}
    BY <1>1 DEF IInv, Types, EnsureTypes, Places
  <2> QED
    BY <1>1, <1>2, <2>1, <2>2, MoveKeeps
<1>4. CASE Missing(Ca)
  <2>1. Generate(p, Ca, made + 1)
    BY <1>4 DEF EnsureCa
  <2>2. made + 1 \in Keys
    BY <2>1, Spaces, CertificatesAssumption DEF Generate, Keys
  <2> QED
    BY <1>1, <1>2, <2>1, <2>2, GenerateKeeps, Apart
<1> QED
  BY <1>3, <1>4

LEMMA EnsureServerKeeps == ASSUME IInv, NEW p \in Procs, EnsureServer(p) PROVE IInv'
<1>1. /\ UNCHANGED <<key, cert, died, conn, default, old, faults, removed>>
      /\ regen' \in [Procs -> BOOLEAN]
  BY Spaces DEF EnsureServer, tls, world
<1>2. CASE Spare
  <2>1. PICK l \in {"ensured", "idle"} : Goto(p, l)
    BY DEF EnsureServer
  <2>2. faults' \in 0 .. MaxFaults /\ l \in Places \ {"serving"}
    BY <1>1 DEF IInv, Types, EnsureTypes, Places
  <2>3. UNCHANGED <<made, todo, raced, over>>
    BY <1>2 DEF Spare
  <2> QED
    BY <1>1, <2>1, <2>2, <2>3, MoveKeeps
<1>3. CASE CaLoads /\ Goto(p, "ensured") /\ Generate(p, Server, key[Ca])
  <2>1. key[Ca] \in Keys
    BY <1>3 DEF CaLoads
  <2> QED
    BY <1>1, <1>3, <2>1, GenerateKeeps, Apart
<1> QED
  BY <1>2, <1>3 DEF EnsureServer
-----------------------------------------------------------------------------
(* The CA and the server's certificate, and what was said of the CA. *)

(* A process that is making the files of a pair.                              *)
Making(p, f) == \E c \in Cert, n \in 1 .. 4 : todo[p] = Rest(f, c, n)

(* A process writes the CA before it looks at the server's certificate, and   *)
(* that one before it goes on.                                                *)
Placed ==
  \A p \in Procs : todo[p] # <<>> =>
    \/ at[p] = "server" /\ regen[p] /\ Making(p, Ca)
    \/ at[p] = "ensured" /\ Making(p, Server)

(* It has replaced, or is replacing, the CA, and the server's certificate not *)
(* yet.                                                                       *)
Pending(p) == at[p] = "server" /\ regen[p]

(* One of its files is missing.                                               *)
Gone(f) == key[f] = None \/ cert[f] = None

CaWhole == key[Ca] \in Keys /\ cert[Ca] \in Cert /\ cert[Ca].key = key[Ca]
Chains == /\ CaWhole /\ cert[Server] \in Cert
          /\ cert[Server].key = key[Server] /\ cert[Server].signer = key[Ca]

(* While nothing was cut short and no two generate at once: the CA is whole   *)
(* unless a file of it is missing or it is being made, the server's           *)
(* certificate is its unless a process has yet to see to it, and the one      *)
(* being made is signed by it.                                                *)
CaIsWhole == Gone(Ca) \/ CaWhole \/ \E p \in Procs : Making(p, Ca)
ServerIsDue ==
  Gone(Ca) \/ Gone(Server) \/ Chains \/ \E p \in Procs : Making(p, Server) \/ Pending(p)
ServerProgress ==
  \A p \in Procs, c \in Cert, n \in 1 .. 4 : todo[p] = Rest(Server, c, n) =>
    CaWhole /\ c.signer = key[Ca] /\ (n <= 2 => key[Server] = c.key)
InOrder == ~raced /\ ~died => CaIsWhole /\ ServerIsDue /\ ServerProgress

(* The CAs that were there, or are to come, are all different.                *)
Seen == {cert[Ca], anchor} \cup {said[p].ca : p \in DOMAIN said}
Coming(p, c) == \E n \in 1 .. 4 : todo[p] = Rest(Ca, c, n)
Fresh ==
  /\ \A x \in Seen : x \in Cert => x.key <= made
  /\ \A p \in Procs, c \in Cert : Coming(p, c) => c \notin Seen /\ c.key <= made
  /\ \A p, q \in Procs, c \in Cert : Coming(p, c) /\ Coming(q, c) => p = q

(* The CA that was reported is the anchor as long as it is the CA, and the    *)
(* anchor is in the bundle or about to be.                                    *)
Anchored ==
  \A p \in DOMAIN said :
    /\ Recognised /\ said[p].result # "failed"
    /\ said[p].ca = cert[Ca] /\ said[p].ca \in Cert
    => anchor = cert[Ca]
Updated == faults = 0 => anchor = None \/ bundle = anchor \/ \E q \in Trusters : at[q] = "update"

JInv == Placed /\ InOrder /\ Fresh /\ Anchored /\ Updated

LEMMA MakingBusy ==
  ASSUME NEW p, NEW f
  PROVE  Making(p, f) => todo[p] # <<>>
BY RestSteps DEF Making

LEMMA ComingMakes ==
  ASSUME NEW p, NEW c \in Cert, Coming(p, c)
  PROVE  Making(p, Ca)
BY DEF Coming, Making

LEMMA MakesOne ==
  ASSUME Placed, NEW p \in Procs
  PROVE  /\ Making(p, Ca) => at[p] = "server" /\ regen[p]
         /\ Making(p, Server) => at[p] = "ensured"
<1>1. ~(Making(p, Ca) /\ Making(p, Server))
  BY RestTells, Apart DEF Making
<1> QED
  BY <1>1, MakingBusy DEF Placed

-----------------------------------------------------------------------------
(* Steps that leave the files and their makers alone. *)

FilesStay == UNCHANGED <<key, cert, made, raced>> /\ (died => died')

(* A maker goes on, or stops; then one of them has died.                      *)
ProcsStay ==
  /\ \A p \in Procs : todo'[p] # <<>> =>
       todo'[p] = todo[p] /\ at'[p] = at[p] /\ regen'[p] = regen[p]
  /\ ~died' => \A p \in Procs : todo'[p] = todo[p] /\ (Pending(p) <=> Pending(p)')

TrustStays ==
  /\ anchor' = anchor /\ bundle' = bundle
  /\ \A p \in DOMAIN said' : p \in DOMAIN said /\ said'[p] = said[p]
  /\ faults' = 0 => faults = 0 /\ \A q \in Trusters : at[q] = "update" => at'[q] = "update"

LEMMA PlacesStay == ASSUME Placed, ProcsStay PROVE Placed'
<1> SUFFICES ASSUME NEW p \in Procs, todo'[p] # <<>>
             PROVE  \/ at'[p] = "server" /\ regen'[p] /\ Making(p, Ca)'
                    \/ at'[p] = "ensured" /\ Making(p, Server)'
  BY DEF Placed
<1>1. todo'[p] = todo[p] /\ at'[p] = at[p] /\ regen'[p] = regen[p]
  BY DEF ProcsStay
<1>2. \A f : Making(p, f) => Making(p, f)'
  BY <1>1 DEF Making
<1> QED
  BY <1>1, <1>2 DEF Placed

LEMMA OrderStays == ASSUME InOrder, FilesStay, ProcsStay PROVE InOrder'
<1> SUFFICES ASSUME ~raced', ~died'
             PROVE  (CaIsWhole /\ ServerIsDue /\ ServerProgress)'
  BY DEF InOrder
<1>1. CaIsWhole /\ ServerIsDue /\ ServerProgress
  BY DEF InOrder, FilesStay
<1>2. key' = key /\ cert' = cert
  BY DEF FilesStay
<1>3. \A p \in Procs : todo'[p] = todo[p] /\ (Pending(p) <=> Pending(p)')
  BY DEF ProcsStay
<1>4. \A p \in Procs : \A f : Making(p, f) => Making(p, f)'
  BY <1>3 DEF Making
<1>5. (CaWhole <=> CaWhole') /\ (Chains => Chains') /\ \A f \in Pairs : Gone(f) => Gone(f)'
  BY <1>2 DEF CaWhole, Chains, Gone
<1>6. CaIsWhole'
  BY <1>1, <1>4, <1>5, Apart DEF CaIsWhole
<1>7. ServerIsDue'
  BY <1>1, <1>3, <1>4, <1>5, Apart DEF ServerIsDue
<1>8. ServerProgress'
  BY <1>1, <1>2, <1>3, <1>5 DEF ServerProgress
<1> QED
  BY <1>6, <1>7, <1>8

LEMMA FreshStays ==
  ASSUME IInv, Fresh, made' \in Nat, made <= made', Seen' \subseteq Seen \cup {None, Torn},
         \A p \in Procs, c \in Cert : Coming(p, c)' => Coming(p, c)
  PROVE  Fresh'
<1>1. \A x \in Seen' : x \in Cert => x \in Seen
  BY Apart
<1>2. made \in Nat /\ \A c \in Cert : c.key \in Nat
  BY Spaces DEF Cert, Keys
<1>3. \A x \in Seen' : x \in Cert => x.key <= made'
  BY <1>1, <1>2 DEF Fresh
<1>4. \A p \in Procs, c \in Cert : Coming(p, c)' => c \notin Seen' /\ c.key <= made'
  BY <1>1, <1>2 DEF Fresh
<1>5. \A p, q \in Procs, c \in Cert : Coming(p, c)' /\ Coming(q, c)' => p = q
  BY DEF Fresh
<1> QED
  BY <1>3, <1>4, <1>5 DEF Fresh

LEMMA ComingStays ==
  ASSUME ProcsStay
  PROVE  \A p \in Procs, c \in Cert : Coming(p, c)' => Coming(p, c)
<1> SUFFICES ASSUME NEW p \in Procs, NEW c \in Cert, Coming(p, c)' PROVE Coming(p, c)
  OBVIOUS
<1>1. PICK n \in 1 .. 4 : todo'[p] = Rest(Ca, c, n)
  BY DEF Coming
<1>2. todo'[p] # <<>>
  BY <1>1, RestSteps
<1> QED
  BY <1>1, <1>2 DEF ProcsStay, Coming

LEMMA AllStays == ASSUME IInv, JInv, FilesStay, ProcsStay, TrustStays PROVE JInv'
<1>1. cert' = cert /\ made' \in Nat /\ made <= made'
  BY Spaces DEF FilesStay
<1>2. Seen' \subseteq Seen \cup {None, Torn}
  BY <1>1 DEF TrustStays, Seen
<1>3. Placed' /\ InOrder'
  BY PlacesStay, OrderStays DEF JInv
<1>4. Fresh'
  BY <1>1, <1>2, ComingStays, FreshStays DEF JInv
<1>5. Anchored'
  BY <1>1 DEF JInv, TrustStays, Anchored
<1>6. Updated'
  BY DEF JInv, TrustStays, Updated
<1> QED
  BY <1>3, <1>4, <1>5, <1>6 DEF JInv

(* A process that writes nothing, and owes the server no certificate, goes    *)
(* somewhere.                                                                 *)
LEMMA Moved ==
  ASSUME IInv, NEW p \in Procs, todo[p] = <<>>, ~Pending(p), UNCHANGED todo,
         NEW l \in Places, Goto(p, l),
         \A q \in Procs : q # p => regen'[q] = regen[q], l # "server" \/ ~regen'[p]
  PROVE  /\ ProcsStay
         /\ at[p] # "update" => \A q \in Trusters : at[q] = "update" => at'[q] = "update"
<1>1. at'[p] = l /\ \A q \in Procs : q # p => at'[q] = at[q]
  BY GotoTyped DEF IInv, Types, EnsureTypes
<1>2. \A q \in Procs : Pending(q) <=> Pending(q)'
  <2> SUFFICES ASSUME NEW q \in Procs PROVE Pending(q) <=> Pending(q)'
    OBVIOUS
  <2>1. CASE q = p
    BY <1>1, <2>1 DEF Pending
  <2>2. CASE q # p
    BY <1>1, <2>2 DEF Pending
  <2> QED
    BY <2>1, <2>2
<1>3. ProcsStay
  BY <1>1, <1>2 DEF ProcsStay
<1>4. at[p] # "update" => \A q \in Trusters : at[q] = "update" => at'[q] = "update"
  BY <1>1, Apart
<1> QED
  BY <1>3, <1>4

LEMMA NothingOwed ==
  ASSUME JInv, NEW p \in Procs, at[p] \notin {"server", "ensured"}
  PROVE  todo[p] = <<>> /\ ~Pending(p)
BY DEF JInv, Placed, Pending

LEMMA StartStays == ASSUME IInv, JInv, NEW p \in Procs, Start(p) PROVE JInv'
<1>1. /\ at[p] = "idle" /\ Goto(p, "ca") /\ "ca" \in Places
      /\ UNCHANGED <<key, cert, made, raced, died, regen, todo, anchor, bundle, faults>>
      /\ said' = [q \in DOMAIN said \ {p} |-> said[q]]
  BY DEF Start, files, world, Places
<1>2. ProcsStay /\ \A q \in Trusters : at[q] = "update" => at'[q] = "update"
  BY <1>1, NothingOwed, Moved
<1>3. FilesStay /\ TrustStays
  BY <1>1, <1>2 DEF FilesStay, TrustStays
<1> QED
  BY <1>2, <1>3, AllStays

(* Handshakes, the passing of time, and steps of other systems.               *)
LEMMA OthersStay ==
  ASSUME IInv, JInv,
         UNCHANGED <<key, cert, made, raced, died, at, regen, todo, anchor, bundle, said, faults>>
  PROVE  JInv'
<1>1. FilesStay /\ ProcsStay /\ TrustStays
  BY DEF FilesStay, ProcsStay, TrustStays, Pending
<1> QED
  BY <1>1, AllStays

LEMMA NewResolverStays == ASSUME IInv, JInv, NewResolver PROVE JInv'
<1>1. /\ at[Proxy] = "ensured" /\ todo[Proxy] = <<>> /\ ~Pending(Proxy)
      /\ UNCHANGED <<key, cert, made, raced, died, regen, todo, anchor, bundle, said, faults>>
  BY DEF NewResolver, files, trust, world, Pending
<1>2. PICK l \in {"serving", "idle"} : Goto(Proxy, l)
  BY DEF NewResolver
<1>3. l \in Places /\ l # "server"
  BY DEF Places
<1>4. ProcsStay /\ \A q \in Trusters : at[q] = "update" => at'[q] = "update"
  BY <1>1, <1>2, <1>3, Moved, Apart
<1>5. FilesStay /\ TrustStays
  BY <1>1, <1>4 DEF FilesStay, TrustStays
<1> QED
  BY <1>4, <1>5, AllStays

(* A process that is stopped while it writes has died.                        *)
LEMMA StopStays == ASSUME IInv, JInv, NEW p \in Procs, Stop(p) PROVE JInv'
<1>1. /\ UNCHANGED <<key, cert, made, raced, anchor, bundle, said>>
      /\ at'[p] = "idle" /\ \A q \in Procs : q # p => at'[q] = at[q]
      /\ \A q \in Procs : q # p => regen'[q] = regen[q]
      /\ todo'[p] = <<>> /\ \A q \in Procs : q # p => todo'[q] = todo[q]
      /\ faults' # 0 /\ (died => died')
      /\ ~died' => todo[p] = <<>> /\ ~Pending(p)
  BY StopDoes DEF Pending
<1>2. ~Pending(p)' /\ \A q \in Procs : q # p => (Pending(q) <=> Pending(q)')
  BY <1>1 DEF Pending
<1>3. ProcsStay
  BY <1>1, <1>2 DEF ProcsStay
<1>4. FilesStay /\ TrustStays
  BY <1>1 DEF FilesStay, TrustStays
<1> QED
  BY <1>3, <1>4, AllStays

(* What is gone need not be whole.                                            *)
LEMMA RemoveStays == ASSUME IInv, JInv, NEW f \in Pairs, Remove(f) PROVE JInv'
<1>1. /\ \A p \in Procs : todo[p] = <<>>
      /\ key'[f] = None \/ cert'[f] = None
      /\ cert'[f] \in {cert[f], None}
      /\ \A g \in Pairs : g # f => key'[g] = key[g] /\ cert'[g] = cert[g]
      /\ UNCHANGED <<made, faults, at, regen, todo, died, raced, anchor, bundle, said>>
  BY RemoveDoes
<1>2. Placed'
  BY <1>1 DEF Placed
<1>3. InOrder'
  <2> SUFFICES ASSUME ~raced', ~died'
               PROVE  (CaIsWhole /\ ServerIsDue /\ ServerProgress)'
    BY DEF InOrder
  <2>1. CaIsWhole /\ ServerIsDue
    BY <1>1 DEF JInv, InOrder
  <2>2. Gone(f)'
    BY <1>1 DEF Gone
  <2>3. \A p \in Procs : \A g : ~Making(p, g)
    BY <1>1, MakingBusy
  <2>4. CaIsWhole'
    <3>1. CASE f = Ca
      BY <2>2, <3>1 DEF CaIsWhole
    <3>2. CASE f # Ca
      <4>1. key'[Ca] = key[Ca] /\ cert'[Ca] = cert[Ca]
        BY <1>1, <3>2, Apart
      <4>2. Gone(Ca) \/ CaWhole
        BY <2>1, <2>3 DEF CaIsWhole
      <4> QED
        BY <4>1, <4>2 DEF CaIsWhole, Gone, CaWhole
    <3> QED
      BY <3>1, <3>2
  <2>5. ServerIsDue'
    BY <2>2, Apart DEF ServerIsDue
  <2>6. ServerProgress'
    BY <1>1, RestSteps DEF ServerProgress
  <2> QED
    BY <2>4, <2>5, <2>6
<1>4. cert'[Ca] \in {cert[Ca], None}
  BY <1>1, Apart
<1>5. Fresh'
  <2>1. Seen' \subseteq Seen \cup {None, Torn}
    BY <1>1, <1>4 DEF Seen
  <2>2. \A p \in Procs, c \in Cert : Coming(p, c)' => Coming(p, c)
    BY <1>1 DEF Coming
  <2> QED
    BY <1>1, <2>1, <2>2, FreshStays, Spaces DEF JInv
<1>6. Anchored'
  BY <1>1, <1>4, Apart DEF JInv, Anchored
<1>7. Updated'
  BY <1>1 DEF JInv, Updated
<1> QED
  BY <1>2, <1>3, <1>5, <1>6, <1>7 DEF JInv
-----------------------------------------------------------------------------
(* Key pairs are generated. *)

(* The new pair is not to be confused with any that was, or is to come.       *)
LEMMA CaBegins ==
  ASSUME IInv, JInv, NEW p \in Procs, EnsureCa(p), Missing(Ca)
  PROVE  JInv'
<1>1. /\ at[p] = "ca" /\ Generate(p, Ca, made + 1) /\ Goto(p, "server")
      /\ regen' = [regen EXCEPT ![p] = TRUE]
      /\ UNCHANGED <<key, cert, died, anchor, bundle, said, faults>>
  BY DEF EnsureCa, trust, world
<1>2. made + 1 \in Keys
  BY <1>1, Spaces, CertificatesAssumption DEF Generate, Keys
<1>3. PICK c \in Cert : c.key = made + 1 /\ todo'[p] = Rest(Ca, c, 4)
  BY <1>1, <1>2, GenerateDoes, Apart
<1>4. /\ made' = made + 1 /\ (raced => raced')
      /\ \A q \in Procs : q # p => todo'[q] = todo[q]
      /\ ~raced' => \A q \in Procs : q # p => todo[q] = <<>>
  BY <1>1, <1>2, GenerateDoes, Apart
<1>5. at'[p] = "server" /\ \A q \in Procs : q # p => at'[q] = at[q]
  <2>1. "server" \in Places
    BY DEF Places
  <2> QED
    BY <1>1, <2>1, GotoTyped DEF IInv, Types, EnsureTypes
<1>6. regen'[p] /\ \A q \in Procs : q # p => regen'[q] = regen[q]
  BY <1>1, Spaces
<1>7. Making(p, Ca)' /\ todo'[p] # <<>> /\ Pending(p)'
  BY <1>3, <1>5, <1>6, RestSteps DEF Making, Pending
<1>8. \A q \in Procs : q # p => /\ \A f : Making(q, f)' <=> Making(q, f)
                                /\ Pending(q)' <=> Pending(q)
  BY <1>4, <1>5, <1>6 DEF Making, Pending
<1>9. Placed'
  BY <1>4, <1>5, <1>6, <1>7, <1>8 DEF JInv, Placed
<1>10. InOrder'
  <2> SUFFICES ASSUME ~raced', ~died'
               PROVE  (CaIsWhole /\ ServerIsDue /\ ServerProgress)'
    BY DEF InOrder
  <2>1. CaIsWhole' /\ ServerIsDue'
    BY <1>7 DEF CaIsWhole, ServerIsDue
  <2>2. ASSUME NEW q \in Procs, NEW d \in Cert, NEW m \in 1 .. 4, todo'[q] = Rest(Server, d, m)
        PROVE  FALSE
    <3>1. todo'[q] # <<>>
      BY <2>2, RestSteps
    <3>2. q = p
      BY <1>4, <3>1
    <3> QED
      BY <1>3, <2>2, <3>2, RestTells, Apart
  <2> QED
    BY <2>1, <2>2 DEF ServerProgress
<1>11. Fresh'
  <2>1. Fresh /\ Seen' = Seen
    BY <1>1 DEF JInv, Seen
  <2>2. made \in Nat /\ \A d \in Cert : d.key \in Nat
    BY Spaces DEF Cert, Keys
  <2>3. \A d \in Cert : Coming(p, d)' => d = c
    BY <1>3, RestTells DEF Coming
  <2>4. \A q \in Procs, d \in Cert : q # p => (Coming(q, d)' <=> Coming(q, d))
    BY <1>4 DEF Coming
  <2>5. c \notin Seen
    BY <1>3, <2>1, <2>2 DEF Fresh
  <2>6. \A q \in Procs : q # p => ~Coming(q, c)
    BY <1>3, <2>1, <2>2 DEF Fresh
  <2>7. \A x \in Seen' : x \in Cert => x.key <= made'
    BY <1>4, <2>1, <2>2 DEF Fresh
  <2>8. \A q \in Procs, d \in Cert : Coming(q, d)' => d \notin Seen' /\ d.key <= made'
    <3> SUFFICES ASSUME NEW q \in Procs, NEW d \in Cert, Coming(q, d)'
                 PROVE  d \notin Seen' /\ d.key <= made'
      OBVIOUS
    <3>1. CASE q = p
      <4>1. d = c
        BY <2>3, <3>1
      <4> QED
        BY <1>3, <1>4, <2>1, <2>2, <2>5, <4>1
    <3>2. CASE q # p
      <4>1. Coming(q, d)
        BY <2>4, <3>2
      <4> QED
        BY <1>4, <2>1, <2>2, <4>1 DEF Fresh
    <3> QED
      BY <3>1, <3>2
  <2>9. \A q, r \in Procs, d \in Cert : Coming(q, d)' /\ Coming(r, d)' => q = r
    BY <2>1, <2>3, <2>4, <2>6 DEF Fresh
  <2> QED
    BY <2>7, <2>8, <2>9 DEF Fresh
<1>12. Anchored'
  BY <1>1 DEF JInv, Anchored
<1>13. Updated'
  BY <1>1, <1>5, Apart DEF JInv, Updated
<1> QED
  BY <1>9, <1>10, <1>11, <1>12, <1>13 DEF JInv

LEMMA EnsureCaStays == ASSUME IInv, JInv, NEW p \in Procs, EnsureCa(p) PROVE JInv'
<1>1. CASE ~Missing(Ca)
  <2>1. /\ at[p] = "ca" /\ Goto(p, "server") /\ regen' = [regen EXCEPT ![p] = FALSE]
        /\ UNCHANGED <<key, cert, made, raced, died, todo, anchor, bundle, said, faults>>
    BY <1>1 DEF EnsureCa, trust, world, Missing, Spare
  <2>2. ~regen'[p] /\ (\A q \in Procs : q # p => regen'[q] = regen[q]) /\ "server" \in Places
    BY <2>1, Spaces DEF Places
  <2>3. ProcsStay /\ \A q \in Trusters : at[q] = "update" => at'[q] = "update"
    BY <2>1, <2>2, NothingOwed, Moved
  <2>4. FilesStay /\ TrustStays
    BY <2>1, <2>3 DEF FilesStay, TrustStays
  <2> QED
    BY <2>3, <2>4, AllStays
<1> QED
  BY <1>1, CaBegins

(* The server's certificate is signed by the CA that is there.                *)
LEMMA ServerBegins ==
  ASSUME IInv, JInv, NEW p \in Procs, EnsureServer(p), CaLoads, Goto(p, "ensured"),
         Generate(p, Server, key[Ca])
  PROVE  JInv'
<1>1. /\ at[p] = "server" /\ todo[p] = <<>> /\ regen' = [regen EXCEPT ![p] = FALSE]
      /\ UNCHANGED <<key, cert, died, anchor, bundle, said, faults>>
  BY DEF EnsureServer, trust, world
<1>2. key[Ca] \in Keys /\ cert[Ca] \in Cert
  BY DEF CaLoads
<1>3. PICK c \in Cert : c.signer = key[Ca] /\ todo'[p] = Rest(Server, c, 4)
  <2>1. \E c \in Cert : c.key = made + 1 /\ c.signer = key[Ca] /\ todo'[p] = Rest(Server, c, 4)
    <3>1. key[Ca] \in Keys /\ Server \in Pairs
      BY <1>2, Apart
    <3> QED
      BY <3>1, GenerateDoes
  <2> QED
    BY <2>1
<1>4. /\ made' = made + 1 /\ (raced => raced')
      /\ \A q \in Procs : q # p => todo'[q] = todo[q]
      /\ ~raced' => \A q \in Procs : q # p => todo[q] = <<>>
  BY <1>2, GenerateDoes, Apart
<1>5. at'[p] = "ensured" /\ \A q \in Procs : q # p => at'[q] = at[q]
  <2>1. "ensured" \in Places
    BY DEF Places
  <2> QED
    BY <2>1, GotoTyped DEF IInv, Types, EnsureTypes
<1>6. ~regen'[p] /\ \A q \in Procs : q # p => regen'[q] = regen[q]
  BY <1>1, Spaces
<1>7. Making(p, Server)' /\ todo'[p] # <<>>
  BY <1>3, RestSteps, Apart DEF Making
<1>8. \A q \in Procs : q # p => \A f : Making(q, f)' <=> Making(q, f)
  BY <1>4 DEF Making
<1>9. Placed'
  BY <1>4, <1>5, <1>6, <1>7, <1>8 DEF JInv, Placed
<1>10. InOrder'
  <2> SUFFICES ASSUME ~raced', ~died'
               PROVE  (CaIsWhole /\ ServerIsDue /\ ServerProgress)'
    BY DEF InOrder
  <2>1. CaIsWhole
    BY <1>1, <1>4 DEF JInv, InOrder
  <2>2. \A q \in Procs : ~Making(q, Ca)
    BY <1>1, <1>4, MakingBusy
  <2>3. CaWhole
    BY <1>2, <2>1, <2>2, Apart DEF CaIsWhole, Gone
  <2>4. CaWhole' /\ key'[Ca] = key[Ca]
    BY <1>1, <2>3 DEF CaWhole
  <2>5. CaIsWhole' /\ ServerIsDue'
    BY <1>7, <2>4 DEF CaIsWhole, ServerIsDue
  <2>6. ASSUME NEW q \in Procs, NEW d \in Cert, NEW m \in 1 .. 4, todo'[q] = Rest(Server, d, m)
        PROVE  d = c /\ m = 4
    <3>1. todo'[q] # <<>>
      BY <2>6, RestSteps
    <3>2. q = p
      BY <1>4, <3>1
    <3> QED
      BY <1>3, <2>6, <3>2, RestTells
  <2>7. ServerProgress'
    BY <1>3, <2>4, <2>6 DEF ServerProgress
  <2> QED
    BY <2>5, <2>7
<1>11. Fresh'
  <2>1. \A q \in Procs, d \in Cert : Coming(q, d)' => Coming(q, d)
    <3> SUFFICES ASSUME NEW q \in Procs, NEW d \in Cert, Coming(q, d)' PROVE Coming(q, d)
      OBVIOUS
    <3>1. q # p
      BY <1>3, RestTells, Apart DEF Coming
    <3> QED
      BY <1>4, <3>1 DEF Coming
  <2>2. Seen' \subseteq Seen \cup {None, Torn} /\ made' \in Nat /\ made <= made'
    BY <1>1, <1>4, Spaces DEF Seen
  <2> QED
    BY <2>1, <2>2, FreshStays DEF JInv
<1>12. Anchored'
  BY <1>1 DEF JInv, Anchored
<1>13. Updated'
  BY <1>1, <1>5, Apart DEF JInv, Updated
<1> QED
  BY <1>9, <1>10, <1>11, <1>12, <1>13 DEF JInv

(* A process that cannot load the CA it owes a certificate of leaves that to  *)
(* the one that is writing the CA, or to the one that will make it again.     *)
LEMMA ServerLeft ==
  ASSUME IInv, JInv, NEW p \in Procs, EnsureServer(p), regen[p], ~CaLoads, Goto(p, "idle"), Spare
  PROVE  JInv'
<1>1. /\ at[p] = "server" /\ todo[p] = <<>> /\ regen' = [regen EXCEPT ![p] = FALSE]
      /\ UNCHANGED <<key, cert, made, todo, raced, died, anchor, bundle, said, faults>>
  BY DEF EnsureServer, trust, world, Spare
<1>2. at'[p] = "idle" /\ \A q \in Procs : q # p => at'[q] = at[q]
  <2>1. "idle" \in Places
    BY DEF Places
  <2> QED
    BY <2>1, GotoTyped DEF IInv, Types, EnsureTypes
<1>3. ~regen'[p] /\ \A q \in Procs : q # p => regen'[q] = regen[q]
  BY <1>1, Spaces
<1>4. \A q \in Procs : \A f : Making(q, f)' <=> Making(q, f)
  BY <1>1 DEF Making
<1>5. Placed'
  BY <1>1, <1>2, <1>3, <1>4 DEF JInv, Placed
<1>6. InOrder'
  <2> SUFFICES ASSUME ~raced', ~died'
               PROVE  (CaIsWhole /\ ServerIsDue /\ ServerProgress)'
    BY DEF InOrder
  <2>1. CaIsWhole /\ ServerProgress
    BY <1>1 DEF JInv, InOrder
  <2>2. Gone(Ca) \/ \E q \in Procs : Making(q, Ca)
    BY <2>1 DEF CaIsWhole, CaWhole, CaLoads
  <2>3. CaIsWhole' /\ ServerIsDue'
    <3>1. CASE Gone(Ca)
      BY <1>1, <3>1 DEF CaIsWhole, ServerIsDue, Gone
    <3>2. ASSUME NEW q \in Procs, Making(q, Ca) PROVE CaIsWhole' /\ ServerIsDue'
      <4>1. q # p /\ at[q] = "server" /\ regen[q]
        BY <1>1, <3>2, MakesOne, MakingBusy DEF JInv
      <4>2. Making(q, Ca)' /\ Pending(q)'
        BY <1>2, <1>3, <1>4, <3>2, <4>1 DEF Pending
      <4> QED
        BY <4>2 DEF CaIsWhole, ServerIsDue
    <3> QED
      BY <2>2, <3>1, <3>2
  <2>4. ServerProgress'
    BY <1>1, <2>1 DEF ServerProgress, CaWhole
  <2> QED
    BY <2>3, <2>4
<1>7. Fresh'
  <2>1. \A q \in Procs, d \in Cert : Coming(q, d)' => Coming(q, d)
    BY <1>1 DEF Coming
  <2>2. Seen' \subseteq Seen \cup {None, Torn} /\ made' \in Nat /\ made <= made'
    BY <1>1, Spaces DEF Seen
  <2> QED
    BY <2>1, <2>2, FreshStays DEF JInv
<1>8. Anchored'
  BY <1>1 DEF JInv, Anchored
<1>9. Updated'
  BY <1>1, <1>2, Apart DEF JInv, Updated
<1> QED
  BY <1>5, <1>6, <1>7, <1>8, <1>9 DEF JInv

LEMMA EnsureServerStays == ASSUME IInv, JInv, NEW p \in Procs, EnsureServer(p) PROVE JInv'
<1>1. CASE ~regen[p] /\ Spare
  <2>1. /\ at[p] = "server" /\ todo[p] = <<>> /\ regen' = [regen EXCEPT ![p] = FALSE]
        /\ UNCHANGED <<key, cert, made, todo, raced, died, anchor, bundle, said, faults>>
    BY <1>1 DEF EnsureServer, trust, world, Spare
  <2>2. PICK l \in {"ensured", "idle"} : Goto(p, l)
    BY DEF EnsureServer
  <2>3. /\ ~Pending(p) /\ l \in Places /\ l # "server"
        /\ \A q \in Procs : q # p => regen'[q] = regen[q]
    BY <1>1, <2>1, Spaces DEF Pending, Places
  <2>4. ProcsStay /\ \A q \in Trusters : at[q] = "update" => at'[q] = "update"
    BY <2>1, <2>2, <2>3, Moved
  <2>5. FilesStay /\ TrustStays
    BY <2>1, <2>4 DEF FilesStay, TrustStays
  <2> QED
    BY <2>4, <2>5, AllStays
<1>2. CASE regen[p] /\ ~CaLoads /\ Goto(p, "idle") /\ Spare
  BY <1>2, ServerLeft
<1>3. CASE CaLoads /\ Goto(p, "ensured") /\ Generate(p, Server, key[Ca])
  BY <1>3, ServerBegins
<1> QED
  BY <1>1, <1>2, <1>3 DEF EnsureServer

-----------------------------------------------------------------------------
(* Files are written. *)

LEMMA ServerWrites ==
  ASSUME IInv, JInv, NEW p \in Procs, Write(p), NEW c \in Cert, NEW n \in 1 .. 4,
         todo[p] = Rest(Server, c, n)
  PROVE  JInv'
<1>1. /\ key'[Server] = IF n = 4 THEN Torn ELSE IF n = 3 THEN c.key ELSE key[Server]
      /\ cert'[Server] = IF n = 2 THEN Torn ELSE IF n = 1 THEN c ELSE cert[Server]
      /\ key'[Ca] = key[Ca] /\ cert'[Ca] = cert[Ca]
      /\ todo'[p] = IF n = 1 THEN <<>> ELSE Rest(Server, c, n - 1)
      /\ \A q \in Procs : q # p => todo'[q] = todo[q]
      /\ UNCHANGED <<made, at, regen, died, raced, anchor, bundle, said, faults>>
  BY WriteDoes, Apart
<1>2. Making(p, Server) /\ todo[p] # <<>> /\ at[p] = "ensured"
  BY RestSteps, MakesOne, Apart DEF Making, JInv
<1>3. n # 1 => n - 1 \in 1 .. 4 /\ Making(p, Server)'
  BY <1>1 DEF Making
<1>4. \A q \in Procs : q # p => \A f : Making(q, f)' <=> Making(q, f)
  BY <1>1 DEF Making
<1>5. Placed'
  BY <1>1, <1>2, <1>3, <1>4 DEF JInv, Placed
<1>6. InOrder'
  <2> SUFFICES ASSUME ~raced', ~died'
               PROVE  (CaIsWhole /\ ServerIsDue /\ ServerProgress)'
    BY DEF InOrder
  <2>1. CaWhole /\ c.signer = key[Ca] /\ (n <= 2 => key[Server] = c.key)
    BY <1>1 DEF JInv, InOrder, ServerProgress
  <2>2. CaWhole'
    BY <1>1, <2>1 DEF CaWhole
  <2>3. CaIsWhole'
    BY <2>2 DEF CaIsWhole
  <2>4. ServerIsDue'
    <3>1. CASE n # 1
      BY <1>3, <3>1 DEF ServerIsDue
    <3>2. CASE n = 1
      BY <1>1, <2>1, <2>2, <3>2 DEF ServerIsDue, Chains
    <3> QED
      BY <3>1, <3>2
  <2>5. ASSUME NEW q \in Procs, NEW d \in Cert, NEW m \in 1 .. 4, todo'[q] = Rest(Server, d, m)
        PROVE  d = c /\ m = n - 1
    <3>1. todo'[q] # <<>>
      BY <2>5, RestSteps
    <3>2. q = p
      BY <1>1, <1>2, <3>1 DEF IInv, OneGenerates
    <3>3. n # 1
      BY <1>1, <3>1, <3>2
    <3>4. Rest(Server, c, n - 1) = Rest(Server, d, m) /\ n - 1 \in 1 .. 4
      BY <1>1, <1>3, <2>5, <3>2, <3>3
    <3> QED
      BY <3>4, RestTells
  <2>6. ServerProgress'
    <3> SUFFICES ASSUME NEW q \in Procs, NEW d \in Cert, NEW m \in 1 .. 4,
                        todo'[q] = Rest(Server, d, m)
                 PROVE  CaWhole' /\ d.signer = key'[Ca] /\ (m <= 2 => key'[Server] = d.key)
      BY DEF ServerProgress
    <3>1. d = c /\ m = n - 1
      BY <2>5
    <3>2. m <= 2 => key'[Server] = c.key
      BY <1>1, <2>1, <3>1
    <3> QED
      BY <1>1, <2>1, <2>2, <3>1, <3>2
  <2> QED
    BY <2>3, <2>4, <2>6
<1>7. Fresh'
  <2>1. \A q \in Procs, d \in Cert : Coming(q, d)' => Coming(q, d)
    <3> SUFFICES ASSUME NEW q \in Procs, NEW d \in Cert, Coming(q, d)' PROVE Coming(q, d)
      OBVIOUS
    <3>1. PICK m \in 1 .. 4 : todo'[q] = Rest(Ca, d, m)
      BY DEF Coming
    <3>2. todo'[q] # <<>>
      BY <3>1, RestSteps
    <3>3. CASE q = p
      <4>1. Rest(Server, c, n - 1) = Rest(Ca, d, m) /\ n - 1 \in 1 .. 4
        BY <1>1, <1>3, <3>1, <3>2, <3>3
      <4> QED
        BY <4>1, RestTells, Apart
    <3>4. CASE q # p
      BY <1>1, <3>4 DEF Coming
    <3> QED
      BY <3>3, <3>4
  <2>2. Seen' \subseteq Seen \cup {None, Torn} /\ made' \in Nat /\ made <= made'
    BY <1>1, Spaces DEF Seen
  <2> QED
    BY <2>1, <2>2, FreshStays DEF JInv
<1>8. Anchored' /\ Updated'
  BY <1>1 DEF JInv, Anchored, Updated
<1> QED
  BY <1>5, <1>6, <1>7, <1>8 DEF JInv

LEMMA CaWrites ==
  ASSUME IInv, JInv, NEW p \in Procs, Write(p), NEW c \in Cert, NEW n \in 1 .. 4,
         todo[p] = Rest(Ca, c, n), Progress(Ca, c, n)
  PROVE  JInv'
<1>1. /\ key'[Ca] = IF n = 4 THEN Torn ELSE IF n = 3 THEN c.key ELSE key[Ca]
      /\ cert'[Ca] = IF n = 2 THEN Torn ELSE IF n = 1 THEN c ELSE cert[Ca]
      /\ todo'[p] = IF n = 1 THEN <<>> ELSE Rest(Ca, c, n - 1)
      /\ \A q \in Procs : q # p => todo'[q] = todo[q]
      /\ UNCHANGED <<made, at, regen, died, raced, anchor, bundle, said, faults>>
  BY WriteDoes, Apart
<1>2. /\ Making(p, Ca) /\ Coming(p, c) /\ todo[p] # <<>>
      /\ at[p] = "server" /\ regen[p]
  BY RestSteps, MakesOne DEF Making, Coming, JInv
<1>3. n # 1 => n - 1 \in 1 .. 4 /\ Making(p, Ca)'
  BY <1>1 DEF Making
<1>4. \A q \in Procs : q # p => \A f : Making(q, f)' <=> Making(q, f)
  BY <1>1 DEF Making
<1>5. Placed'
  BY <1>1, <1>2, <1>3, <1>4 DEF JInv, Placed
<1>6. InOrder'
  <2> SUFFICES ASSUME ~raced', ~died'
               PROVE  (CaIsWhole /\ ServerIsDue /\ ServerProgress)'
    BY DEF InOrder
  <2>1. (n <= 2 => key[Ca] = c.key) /\ c.key \in Keys
    BY <1>1 DEF Progress, Cert
  <2>2. CaIsWhole'
    <3>1. CASE n # 1
      BY <1>3, <3>1 DEF CaIsWhole
    <3>2. CASE n = 1
      BY <1>1, <2>1, <3>2 DEF CaIsWhole, CaWhole
    <3> QED
      BY <3>1, <3>2
  <2>3. ServerIsDue'
    BY <1>1, <1>2 DEF ServerIsDue, Pending
  <2>4. ASSUME NEW q \in Procs, NEW d \in Cert, NEW m \in 1 .. 4, todo'[q] = Rest(Server, d, m)
        PROVE  FALSE
    <3>1. todo'[q] # <<>>
      BY <2>4, RestSteps
    <3>2. q = p
      BY <1>1, <1>2, <3>1 DEF IInv, OneGenerates
    <3>3. Rest(Ca, c, n - 1) = Rest(Server, d, m) /\ n - 1 \in 1 .. 4
      BY <1>1, <1>3, <2>4, <3>1, <3>2
    <3> QED
      BY <3>3, RestTells, Apart
  <2> QED
    BY <2>2, <2>3, <2>4 DEF ServerProgress
<1>7. c \notin Seen /\ c.key <= made
  BY <1>2 DEF JInv, Fresh
<1>8. \A q \in Procs, d \in Cert : Coming(q, d)' => Coming(q, d) /\ (n = 1 => d # c)
  <2> SUFFICES ASSUME NEW q \in Procs, NEW d \in Cert, Coming(q, d)'
               PROVE  Coming(q, d) /\ (n = 1 => d # c)
    OBVIOUS
  <2>1. PICK m \in 1 .. 4 : todo'[q] = Rest(Ca, d, m)
    BY DEF Coming
  <2>2. todo'[q] # <<>>
    BY <2>1, RestSteps
  <2>3. CASE q = p
    <3>1. Rest(Ca, c, n - 1) = Rest(Ca, d, m) /\ n - 1 \in 1 .. 4 /\ n # 1
      BY <1>1, <1>3, <2>1, <2>2, <2>3
    <3>2. c = d
      BY <3>1, RestTells
    <3> QED
      BY <1>2, <2>3, <3>1, <3>2
  <2>4. CASE q # p
    <3>1. Coming(q, d)
      BY <1>1, <2>4 DEF Coming
    <3>2. d # c
      BY <1>2, <2>4, <3>1 DEF JInv, Fresh
    <3> QED
      BY <3>1, <3>2
  <2> QED
    BY <2>3, <2>4
<1>9. Fresh'
  <2>1. CASE n # 1
    <3>1. Seen' \subseteq Seen \cup {None, Torn}
      BY <1>1, <2>1 DEF Seen
    <3> QED
      BY <1>1, <1>8, <3>1, Spaces, FreshStays DEF JInv
  <2>2. CASE n = 1
    <3>1. Seen' \subseteq Seen \cup {c}
      BY <1>1, <2>2 DEF Seen
    <3>2. \A x \in Seen' : x \in Cert => x.key <= made'
      BY <1>1, <1>7, <3>1 DEF JInv, Fresh
    <3>3. \A q \in Procs, d \in Cert : Coming(q, d)' => d \notin Seen' /\ d.key <= made'
      BY <1>1, <1>8, <2>2, <3>1 DEF JInv, Fresh
    <3>4. \A q, r \in Procs, d \in Cert : Coming(q, d)' /\ Coming(r, d)' => q = r
      BY <1>8 DEF JInv, Fresh
    <3> QED
      BY <3>2, <3>3, <3>4 DEF Fresh
  <2> QED
    BY <2>1, <2>2
<1>10. Anchored'
  <2>1. \A q \in DOMAIN said : said[q].ca # c
    BY <1>7 DEF Seen
  <2> QED
    BY <1>1, <2>1, Apart DEF JInv, Anchored
<1>11. Updated'
  BY <1>1 DEF JInv, Updated
<1> QED
  BY <1>5, <1>6, <1>9, <1>10, <1>11 DEF JInv

LEMMA WriteStays == ASSUME IInv, JInv, NEW p \in Procs, Write(p) PROVE JInv'
<1>1. PICK f \in Pairs, c \in Cert, n \in 1 .. 4 : todo[p] = Rest(f, c, n) /\ Progress(f, c, n)
  BY DEF IInv, Working, Write
<1>2. CASE f = Ca
  BY <1>1, <1>2, CaWrites
<1>3. CASE f = Server
  BY <1>1, <1>3, ServerWrites
<1> QED
  BY <1>2, <1>3, Apart
-----------------------------------------------------------------------------
(* The CA is installed. *)

LEMMA AlreadyTrustedStays ==
  ASSUME IInv, JInv, NEW p \in Trusters, AlreadyTrusted(p) PROVE JInv'
<1>1. /\ p \in Procs /\ at[p] = "ensured" /\ todo[p] = <<>> /\ anchor = cert[Ca]
      /\ Goto(p, "idle") /\ "idle" \in Places /\ ~Pending(p)
      /\ UNCHANGED <<key, cert, made, raced, died, regen, todo, anchor, bundle, faults>>
      /\ said' = [q \in DOMAIN said \cup {p} |->
                    IF q = p THEN [result |-> "already trusted", ca |-> cert[Ca]] ELSE said[q]]
  BY Apart DEF AlreadyTrusted, Trusted, Report, files, world, Places, Pending
<1>2. ProcsStay /\ \A q \in Trusters : at[q] = "update" => at'[q] = "update"
  BY <1>1, Moved
<1>3. FilesStay
  BY <1>1 DEF FilesStay
<1>4. Fresh'
  <2>1. Seen' \subseteq Seen \cup {None, Torn}
    BY <1>1 DEF Seen
  <2>2. made' = made /\ made \in Nat
    BY Spaces DEF AlreadyTrusted, files
  <2>3. \A q \in Procs, c \in Cert : Coming(q, c)' => Coming(q, c)
    BY <1>2, ComingStays
  <2> QED
    BY <2>1, <2>2, <2>3, FreshStays DEF JInv
<1>5. Anchored'
  BY <1>1 DEF JInv, Anchored
<1>6. Updated'
  BY <1>1, <1>2 DEF JInv, Updated
<1> QED
  BY <1>2, <1>3, <1>4, <1>5, <1>6, PlacesStay, OrderStays DEF JInv

LEMMA CopyAnchorStays ==
  ASSUME IInv, JInv, NEW p \in Trusters, CopyAnchor(p) PROVE JInv'
<1>1. /\ p \in Procs /\ at[p] = "ensured" /\ todo[p] = <<>> /\ ~Pending(p)
      /\ UNCHANGED <<key, cert, made, raced, died, regen, todo, bundle, faults>>
  BY Apart DEF CopyAnchor, files, world, Pending
<1>2. ProcsStay /\ \A q \in Trusters : at[q] = "update" => at'[q] = "update"
  <2>1. PICK l \in {"idle", "update"} : Goto(p, l)
    BY DEF CopyAnchor
  <2>2. l \in Places /\ l # "server"
    BY DEF Places
  <2> QED
    BY <1>1, <2>1, <2>2, Moved
<1>3. FilesStay
  BY <1>1 DEF FilesStay
<1>4. Seen' \subseteq Seen \cup {None, Torn} /\ Anchored' /\ Updated'
  <2>1. CASE anchor' = cert[Ca] /\ Goto(p, "update") /\ UNCHANGED said
    <3>1. at'[p] = "update"
      <4>1. "update" \in Places
        BY DEF Places
      <4> QED
        BY <1>1, <2>1, <4>1, GotoTyped DEF IInv, Types, EnsureTypes
    <3>2. Updated'
      BY <3>1 DEF Updated
    <3>3. Anchored'
      BY <1>1, <2>1 DEF Anchored
    <3> QED
      BY <1>1, <2>1, <3>2, <3>3 DEF Seen
  <2>2. CASE Goto(p, "idle") /\ Report(p, "failed", anchor) /\ anchor' \in {anchor, None}
    <3>1. said' = [q \in DOMAIN said \cup {p} |->
                     IF q = p THEN [result |-> "failed", ca |-> anchor] ELSE said[q]]
      BY <2>2 DEF Report
    <3>2. Seen' \subseteq Seen \cup {None, Torn}
      BY <1>1, <2>2, <3>1 DEF Seen
    <3>3. Anchored'
      <4> SUFFICES ASSUME NEW q \in DOMAIN said', Recognised, said'[q].result # "failed",
                          said'[q].ca = cert'[Ca], said'[q].ca \in Cert
                   PROVE  FALSE
        BY DEF Anchored
      <4>1. q # p /\ q \in DOMAIN said /\ said'[q] = said[q]
        BY <3>1
      <4>2. anchor = cert[Ca]
        BY <1>1, <4>1 DEF JInv, Anchored
      <4> QED
        BY <1>1, <4>1, <4>2, Apart DEF CopyAnchor, Trusted
    <3>4. Updated'
      BY <1>1, <1>2, <2>2 DEF JInv, Updated
    <3> QED
      BY <3>2, <3>3, <3>4
  <2> QED
    BY <2>1, <2>2 DEF CopyAnchor
<1>5. Fresh'
  <2>1. made' = made /\ made \in Nat
    BY <1>1, Spaces
  <2>2. \A q \in Procs, c \in Cert : Coming(q, c)' => Coming(q, c)
    BY <1>2, ComingStays
  <2> QED
    BY <1>4, <2>1, <2>2, FreshStays DEF JInv
<1> QED
  BY <1>2, <1>3, <1>4, <1>5, PlacesStay, OrderStays DEF JInv

LEMMA UpdateBundleStays ==
  ASSUME IInv, JInv, NEW p \in Trusters, UpdateBundle(p) PROVE JInv'
<1>1. /\ p \in Procs /\ at[p] = "update" /\ Goto(p, "idle") /\ "idle" \in Places
      /\ UNCHANGED <<key, cert, made, raced, died, regen, todo, anchor>>
  BY Apart DEF UpdateBundle, files, Places
<1>2. ProcsStay
  BY <1>1, NothingOwed, Moved
<1>3. FilesStay
  BY <1>1 DEF FilesStay
<1>4. PICK result \in {"installed", "failed"} :
        said' = [q \in DOMAIN said \cup {p} |->
                   IF q = p THEN [result |-> result, ca |-> anchor] ELSE said[q]]
  BY DEF UpdateBundle, Report
<1>5. Seen' \subseteq Seen \cup {None, Torn}
  BY <1>1, <1>4 DEF Seen
<1>6. Fresh'
  <2>1. made' = made /\ made \in Nat
    BY <1>1, Spaces
  <2>2. \A q \in Procs, c \in Cert : Coming(q, c)' => Coming(q, c)
    BY <1>2, ComingStays
  <2> QED
    BY <1>5, <2>1, <2>2, FreshStays DEF JInv
<1>7. Anchored'
  BY <1>1, <1>4 DEF JInv, Anchored
<1>8. Updated'
  <2>1. bundle' = anchor \/ faults' = faults + 1
    BY DEF UpdateBundle
  <2>2. faults' = 0 => bundle' = anchor
    BY <2>1, Spaces
  <2> QED
    BY <1>1, <2>2 DEF Updated
<1> QED
  BY <1>2, <1>3, <1>6, <1>7, <1>8, PlacesStay, OrderStays DEF JInv

-----------------------------------------------------------------------------
(* The invariants, and what they say. *)

LEMMA Initially == Init => IInv
<1> SUFFICES ASSUME Init PROVE IInv
  OBVIOUS
<1>1. /\ \A f \in Pairs : key[f] = None /\ cert[f] = None
      /\ \A p \in Procs : todo[p] = <<>>
      /\ at[Proxy] = "idle"
  BY Apart DEF Init
<1>2. FileTypes
  BY CertificatesAssumption DEF Init, FileTypes
<1>3. EnsureTypes
  <2>1. <<>> \in Rests /\ "idle" \in Places
    BY DEF Rests, Places
  <2>2. todo \in [Procs -> Rests] /\ at \in [Procs -> Places] /\ regen \in [Procs -> BOOLEAN]
    BY <2>1 DEF Init
  <2>3. /\ faults \in 0 .. MaxFaults /\ removed \in 0 .. MaxRemoved
        /\ died \in BOOLEAN /\ raced \in BOOLEAN
    <3>1. 0 \in 0 .. MaxFaults /\ 0 \in 0 .. MaxRemoved
      BY CertificatesAssumption
    <3>2. faults = 0 /\ removed = 0 /\ died = FALSE /\ raced = FALSE
      BY DEF Init
    <3> QED
      BY <3>1, <3>2
  <2> QED
    BY <2>2, <2>3 DEF EnsureTypes
<1>4. TlsTypes
  BY DEF Init, TlsTypes
<1>5. Working /\ OneGenerates /\ WholePairs /\ Serving
  BY <1>1 DEF Working, OneGenerates, WholePairs, Missing, Serving
<1> QED
  BY <1>2, <1>3, <1>4, <1>5 DEF IInv, Types

LEMMA Step == IInv /\ [Next]_vars => IInv'
<1> SUFFICES ASSUME IInv, [Next]_vars PROVE IInv'
  OBVIOUS
<1>1. ASSUME NEW p \in Procs, Start(p) PROVE IInv'
  BY <1>1, TrustKeeps
<1>2. ASSUME NEW p \in Procs, EnsureCa(p) \/ EnsureServer(p) PROVE IInv'
  BY <1>2, EnsureCaKeeps, EnsureServerKeeps
<1>3. ASSUME NEW p \in Procs, Write(p) PROVE IInv'
  BY <1>3, WriteKeeps
<1>4. ASSUME NEW p \in Procs, WriteFails(p) \/ Crash(p) PROVE IInv'
  BY <1>4, StopKeeps
<1>5. CASE NewResolver
  BY <1>5, NewResolverKeeps
<1>6. ASSUME NEW c \in Conns, NEW named \in BOOLEAN, Hello(c, named) PROVE IInv'
  BY <1>6, HelloKeeps
<1>7. ASSUME NEW p \in Trusters, AlreadyTrusted(p) \/ CopyAnchor(p) \/ UpdateBundle(p) PROVE IInv'
  BY <1>7, TrustKeeps, Apart
<1>8. ASSUME NEW k \in Keys, Expire(k) PROVE IInv'
  BY <1>8, ExpireKeeps
<1>9. ASSUME NEW f \in Pairs, Remove(f) PROVE IInv'
  BY <1>9, RemoveKeeps
<1>10. CASE UNCHANGED vars
  <2>1. UNCHANGED <<key, cert, made, over, raced, old, todo, at, regen, died, faults, removed,
                    conn, default>>
    BY <1>10 DEF vars, files, ensure, tls, world
  <2>2. EnsureTypes' /\ TlsTypes' /\ Serving'
    BY <2>1 DEF IInv, Types, EnsureTypes, TlsTypes, Serving
  <2> QED
    BY <2>1, <2>2, StillKeeps DEF IInv, Types, FileTypes
<1> QED
  BY <1>1, <1>2, <1>3, <1>4, <1>5, <1>6, <1>7, <1>8, <1>9, <1>10 DEF Next

LEMMA Always == Spec => []IInv
BY Initially, Step, PTL DEF Spec

(* Every variable keeps its type, and a proxy that serves has loaded a key.   *)
THEOREM CertTyping == Spec => []CertTypeOK
<1>1. IInv => CertTypeOK
  BY DEF IInv, Types, FileTypes, EnsureTypes, TlsTypes, Serving, Places, CertTypeOK
<1> QED
  BY <1>1, Always, PTL

(* A key and a certificate that pass for a pair are one, whatever was cut     *)
(* short or removed, unless they were generated over a valid certificate:     *)
(* generate.rs writes the key first, and is_cert_valid refuses what was half  *)
(* written.                                                                   *)
THEOREM PairsAreWhole == Spec => []WholePairs
<1>1. IInv => WholePairs
  BY DEF IInv
<1> QED
  BY <1>1, Always, PTL

LEMMA InitiallyInOrder == Init => JInv
<1> SUFFICES ASSUME Init PROVE JInv
  OBVIOUS
<1>1. /\ key[Ca] = None /\ cert[Ca] = None
      /\ \A p \in Procs : todo[p] = <<>>
      /\ anchor = None /\ said = <<>>
  BY Apart DEF Init
<1>2. DOMAIN said = {}
  BY <1>1
<1>3. \A p \in Procs, c \in Cert : ~Coming(p, c)
  BY <1>1, MakingBusy, ComingMakes
<1>4. Placed
  BY <1>1 DEF Placed
<1>5. InOrder
  <2>1. ServerProgress
    BY <1>1, RestSteps DEF ServerProgress
  <2> QED
    BY <1>1, <2>1 DEF InOrder, CaIsWhole, ServerIsDue, Gone
<1>6. Fresh
  BY <1>1, <1>2, <1>3, Apart DEF Fresh, Seen
<1>7. Anchored /\ Updated
  BY <1>1, <1>2 DEF Anchored, Updated
<1> QED
  BY <1>4, <1>5, <1>6, <1>7 DEF JInv

LEMMA StepInOrder == IInv /\ JInv /\ [Next]_vars => JInv'
<1> SUFFICES ASSUME IInv, JInv, [Next]_vars PROVE JInv'
  OBVIOUS
<1>1. ASSUME NEW p \in Procs, Start(p) \/ EnsureCa(p) \/ EnsureServer(p) PROVE JInv'
  BY <1>1, StartStays, EnsureCaStays, EnsureServerStays
<1>2. ASSUME NEW p \in Procs, Write(p) PROVE JInv'
  BY <1>2, WriteStays
<1>3. ASSUME NEW p \in Procs, WriteFails(p) \/ Crash(p) PROVE JInv'
  BY <1>3, StopStays DEF WriteFails, Crash
<1>4. CASE NewResolver
  BY <1>4, NewResolverStays
<1>5. ASSUME NEW p \in Trusters, AlreadyTrusted(p) \/ CopyAnchor(p) \/ UpdateBundle(p) PROVE JInv'
  BY <1>5, AlreadyTrustedStays, CopyAnchorStays, UpdateBundleStays
<1>6. ASSUME NEW f \in Pairs, Remove(f) PROVE JInv'
  BY <1>6, RemoveStays
<1>7. CASE \/ \E c \in Conns, named \in BOOLEAN : Hello(c, named)
           \/ \E k \in Keys : Expire(k)
           \/ UNCHANGED vars
  <2>1. UNCHANGED <<key, cert, made, raced, died, at, regen, todo, anchor, bundle, said, faults>>
    BY <1>7 DEF Hello, Expire, vars, files, ensure, trust, world
  <2> QED
    BY <2>1, OthersStay
<1> QED
  BY <1>1, <1>2, <1>3, <1>4, <1>5, <1>6, <1>7 DEF Next

LEMMA AlwaysInOrder == Spec => []JInv
<1>1. Init => IInv /\ JInv
  BY Initially, InitiallyInOrder
<1>2. IInv /\ JInv /\ [Next]_vars => (IInv /\ JInv)'
  BY Step, StepInOrder
<1> QED
  BY <1>1, <1>2, PTL DEF Spec

(* Whenever no ensure_certs is under way and no file is missing, the server's *)
(* certificate is for its key and signed by the CA that is there, unless a    *)
(* call was cut short or two generated at once: ensure_certs makes a new one  *)
(* after a new CA.                                                            *)
THEOREM ServerIsSigned == Spec => []ServerChains
<1>1. JInv => ServerChains
  <2> SUFFICES ASSUME JInv, ~raced, ~died,
                      \A f \in Pairs : key[f] # None /\ cert[f] # None,
                      \A p \in Procs : at[p] \in {"idle", "ca", "serving"}
               PROVE  /\ cert[Server].key = key[Server]
                      /\ cert[Server].signer = cert[Ca].key /\ cert[Ca].key = key[Ca]
    BY DEF ServerChains
  <2>1. \A p \in Procs : ~Making(p, Server) /\ ~Pending(p)
    BY MakesOne DEF JInv, Pending
  <2>2. Chains
    BY <2>1, Apart DEF JInv, InOrder, ServerIsDue, Gone
  <2> QED
    BY <2>2 DEF Chains, CaWhole
<1> QED
  BY <1>1, AlwaysInOrder, PTL

(* What `nkl trust` reported as trusted is in the system's store as long as   *)
(* it is the CA, however many run at once, where is_ca_trusted compares the   *)
(* file that is installed and as long as no update of the store fails.        *)
THEOREM TrustIsTrue == Spec => []TrustIsReal
<1>1. JInv => TrustIsReal
  <2> SUFFICES ASSUME JInv, NEW p \in DOMAIN said, Recognised, faults = 0,
                      said[p].result # "failed", said[p].ca = cert[Ca], said[p].ca \in Cert
               PROVE  bundle = cert[Ca] \/ \E q \in Trusters : at[q] = "update"
    BY DEF TrustIsReal
  <2>1. anchor = cert[Ca] /\ anchor # None
    BY Apart DEF JInv, Anchored
  <2> QED
    BY <2>1 DEF JInv, Updated
<1> QED
  BY <1>1, AlwaysInOrder, PTL
===============================================================================
