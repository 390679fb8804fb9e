--------------------------- MODULE ProxyLogsProofs ---------------------------
(* Theorems about ProxyLogs, for any number of daemons and of the lines they  *)
(* write, and any values of -n.                                               *)
EXTENDS ProxyLogs, FiniteSetTheorems, SequenceTheorems, WellFoundedInduction, TLAPS

LEMMA LeastIsThere ==
  ASSUME NEW S \in SUBSET Nat, S # {}
  PROVE  \E x \in S : \A y \in S : x <= y
<1>1. PICK x \in S : \A y \in S : <<y, x>> \notin OpToRel(<, Nat)
  BY NatLessThanWellFounded, WFMin, Zenon
<1>2. ASSUME NEW y \in S PROVE x <= y
  <2>1. <<y, x>> \in Nat \X Nat /\ <<y, x>>[1] = y /\ <<y, x>>[2] = x
    OBVIOUS
  <2>2. ~(<<y, x>>[1] < <<y, x>>[2])
    BY <1>1, <2>1, Zenon DEF OpToRel
  <2>3. ~(y < x)
    BY <2>1, <2>2, Zenon
  <2> QED
    BY <2>3
<1> QED
  BY <1>2

-----------------------------------------------------------------------------
(* Where -n begins, and what a write leaves *)

LEMMA LinesTyped ==
  ASSUME NEW c \in Seq(Entry), NEW i \in Nat
  PROVE  LinesFrom(c, i) \in Nat /\ (i = Len(c) => LinesFrom(c, i) = 0)
<1>1. IsFiniteSet(i + 1 .. Len(c))
  BY FS_Interval
<1>2. IsFiniteSet({k \in i + 1 .. Len(c) : c[k] # Hole})
  BY <1>1, FS_Subset
<1>3. i = Len(c) => {k \in i + 1 .. Len(c) : c[k] # Hole} = {}
  OBVIOUS
<1> QED
  BY <1>2, <1>3, FS_CardinalityType, FS_EmptySet DEF LinesFrom

(* There is a place to begin: the first that has no more than n lines behind. *)
LEMMA BeforeIsIn ==
  ASSUME NEW c \in Seq(Entry), NEW n \in Tails
  PROVE  Before(c, n) \in 0 .. Len(c)
<1> DEFINE T == {i \in 0 .. Len(c) : LinesFrom(c, i) <= n}
<1>1. CASE n = All
  BY <1>1 DEF Before
<1>2. CASE n # All
  <2>1. n \in Nat
    BY <1>2, LogsAssumption
  <2>2. Len(c) \in T /\ T \in SUBSET Nat
    BY <2>1, LinesTyped
  <2>3. PICK i \in T : \A y \in T : i <= y
    BY <2>2, LeastIsThere
  <2>4. i = 0 \/ LinesFrom(c, i - 1) > n
    <3> SUFFICES ASSUME i # 0 PROVE LinesFrom(c, i - 1) > n
      OBVIOUS
    <3>1. i - 1 \in 0 .. Len(c) /\ i - 1 \in Nat /\ ~(i <= i - 1)
      BY <2>3
    <3>2. i - 1 \notin T
      BY <2>3, <3>1, Zenon
    <3>3. ~(LinesFrom(c, i - 1) <= n) /\ LinesFrom(c, i - 1) \in Nat
      BY <3>1, <3>2, LinesTyped
    <3> QED
      BY <2>1, <3>3
  <2>5. \E j \in 0 .. Len(c) : /\ LinesFrom(c, j) <= n
                               /\ j = 0 \/ LinesFrom(c, j - 1) > n
    BY <2>3, <2>4
  <2> QED
    BY <1>2, <2>5 DEF Before
<1> QED
  BY <1>1, <1>2

(* The log u that a line x written at i leaves of the log c.                  *)
IsPut(u, c, i, x) ==
  /\ u \in Seq(Entry) /\ Len(c) <= Len(u) /\ Len(c) \in Nat /\ Len(u) \in Nat
  /\ \A k \in DOMAIN u : u[k] = IF k = i + 1 THEN x ELSE IF k <= Len(c) THEN c[k] ELSE Hole

LEMMA PutIs ==
  ASSUME NEW c \in Seq(Entry), NEW i \in Nat, NEW x \in Entry, NEW u, u = Put(c, i, x)
  PROVE  IsPut(u, c, i, x)
<1>1. PICK n \in Nat : n = (IF i < Len(c) THEN Len(c) ELSE i + 1) /\ Len(c) <= n /\ i + 1 \in 1 .. n
  OBVIOUS
<1>2. u = [k \in 1 .. n |-> IF k = i + 1 THEN x ELSE IF k <= Len(c) THEN c[k] ELSE Hole]
  BY <1>1 DEF Put
<1>3. \A k \in 1 .. n : k <= Len(c) => c[k] \in Entry
  OBVIOUS
<1>4. Hole \in Entry
  BY DEF Entry
<1>5. u \in [1 .. n -> Entry]
  BY <1>2, <1>3, <1>4
<1>6. u \in Seq(Entry) /\ DOMAIN u = 1 .. n /\ Len(u) = n
  BY <1>1, <1>5
<1> QED
  BY <1>1, <1>2, <1>6 DEF IsPut

(* A part of the log, which Show and Read print.                              *)
IsPart(s, c, a, b) ==
  /\ s \in Seq(Entry) /\ Len(s) = b - a
  /\ \A i \in DOMAIN s : s[i] = c[a + i] /\ a + i \in DOMAIN c /\ a + i <= b

LEMMA PartIs ==
  ASSUME NEW c \in Seq(Entry), NEW a \in Nat, NEW b \in Nat, a <= b, b <= Len(c),
         NEW s, s = SubSeq(c, a + 1, b)
  PROVE  IsPart(s, c, a, b)
<1>1. PICK m \in 1 .. Len(c) + 1 : m = a + 1
  OBVIOUS
<1>2. b \in m - 1 .. Len(c)
  BY <1>1
<1>3. /\ s \in Seq(Entry) /\ Len(s) = IF m <= b THEN b - m + 1 ELSE 0
      /\ \A i \in 1 .. b - m + 1 : s[i] = c[m + i - 1]
  BY <1>1, <1>2, SubSeqProperties, SMTT(30)
<1>4. Len(s) = b - a /\ DOMAIN s = 1 .. b - a
  BY <1>1, <1>2, <1>3
<1>5. ASSUME NEW i \in 1 .. b - a PROVE s[i] = c[a + i] /\ a + i \in DOMAIN c /\ a + i <= b
  <2>1. i \in 1 .. b - m + 1 /\ m + i - 1 = a + i
    BY <1>1
  <2> QED
    BY <1>3, <2>1
<1> QED
  BY <1>3, <1>4, <1>5 DEF IsPart

(* A log that has only grown has the same part still.                         *)
LEMMA SamePart ==
  ASSUME NEW c \in Seq(Entry), NEW d \in Seq(Entry), NEW a \in Nat, NEW b \in Nat,
         a <= b, b <= Len(c), Len(c) <= Len(d), \A k \in 1 .. Len(c) : d[k] = c[k]
  PROVE  SubSeq(d, a + 1, b) = SubSeq(c, a + 1, b)
<1>1. PICK s : s = SubSeq(c, a + 1, b)
  OBVIOUS
<1>2. PICK t : t = SubSeq(d, a + 1, b)
  OBVIOUS
<1>3. /\ s \in Seq(Entry) /\ Len(s) = b - a
      /\ \A i \in DOMAIN s : s[i] = c[a + i] /\ a + i \in DOMAIN c /\ a + i <= b
  <2>1. IsPart(s, c, a, b)
    BY <1>1, PartIs
  <2> QED
    BY <2>1 DEF IsPart
<1>4. b <= Len(d)
  OBVIOUS
<1>5. /\ t \in Seq(Entry) /\ Len(t) = b - a
      /\ \A i \in DOMAIN t : t[i] = d[a + i] /\ a + i \in DOMAIN d /\ a + i <= b
  <2>1. IsPart(t, d, a, b)
    BY <1>2, <1>4, PartIs
  <2> QED
    BY <2>1 DEF IsPart
<1>6. DOMAIN s = 1 .. Len(s) /\ DOMAIN t = 1 .. Len(t) /\ DOMAIN c = 1 .. Len(c)
  BY <1>3, <1>5
<1>7. \A i \in 1 .. Len(s) : s[i] = t[i]
  BY <1>3, <1>5, <1>6
<1> QED
  BY <1>1, <1>2, <1>3, <1>5, <1>7, SeqEqual

-----------------------------------------------------------------------------
(* The inductive invariant *)

(* The shape of the state.  A daemon writes where its lines would be if it    *)
(* were alone, and one that may write has a file.                             *)
Shape ==
  /\ log \in Seq(Entry) \cup {None}
  /\ life \in [Daemons -> {"off", "up", "over", "cut off"}]
  /\ off \in [Daemons -> Nat] /\ wrote \in [Daemons -> Nat] /\ wrote = off
  /\ at \in {"idle", "sleep", "read", "done", "failed"}
  /\ pos \in Nat /\ fileLen \in Nat /\ first \in Nat
  /\ shown \in Seq(Entry) /\ grown \in BOOLEAN
  /\ \A d \in Daemons : life[d] = "up" => log # None
  /\ at = "read" => pos < fileLen

(* A line of the log is where its daemon was, which is past it now.           *)
Written(x) == x[2] < wrote[x[1]]

InPlace ==
  log # None => \A i \in DOMAIN log : log[i] # Hole => log[i][2] = i - 1 /\ Written(log[i])

(* While the file grows, what was printed is a part of it.                    *)
PartOfLog ==
  grown /\ at \in {"sleep", "read", "done"} =>
    /\ log # None /\ first <= pos /\ pos <= Len(log)
    /\ at = "read" => fileLen <= Len(log)
    /\ shown = SubSeq(log, first + 1, pos)

(* A line that was printed is not written again; if it is in the file still,  *)
(* the position is past it, and the file is not taken for a new one.          *)
ShownIsBehind ==
  \A i \in DOMAIN shown :
    shown[i] # Hole =>
      /\ Written(shown[i])
      /\ log # None => \A j \in DOMAIN log : log[j] = shown[i] => j <= pos /\ pos <= Len(log)

LEMMA NotNone == <<>> \in Seq(Entry) /\ \A c \in Seq(Entry) : c # None
BY LogsAssumption

LEMMA LineIs ==
  ASSUME NEW d \in Daemons, NEW n \in Nat, NEW x, x = <<d, n>>
  PROVE  x \in Entry /\ x # Hole /\ x[1] = d /\ x[2] = n
BY LogsAssumption DEF Entry

(* Every line has a writer. *)
LEMMA WriterIs ==
  ASSUME NEW x \in Entry, x # Hole
  PROVE  x[1] \in Daemons /\ x[2] \in Nat
BY DEF Entry

LEMMA StillWritten ==
  ASSUME Shape, [Next]_vars, NEW x \in Entry, x # Hole, Written(x)
  PROVE  Written(x)'
<1>1. wrote' = wrote \/ \E d \in Daemons : wrote' = [wrote EXCEPT ![d] = @ + 1]
  BY Zenon DEF Next, vars, logVars, readerVars, Start, Log, Exit, Delete, NoLog, Follow, Poll,
         Read, ReadFails, Show
<1>2. wrote \in [Daemons -> Nat]
  BY DEF Shape
<1>3. \A d \in Daemons : wrote[d] \in Nat /\ wrote'[d] \in Nat /\ wrote[d] <= wrote'[d]
  BY <1>1, <1>2
<1> QED
  BY <1>3, WriterIs DEF Written

LEMMA Typed ==
  ASSUME Shape
  PROVE  /\ log # None => log \in Seq(Entry) /\ Len(log) \in Nat
         /\ pos \in Nat /\ fileLen \in Nat /\ first \in Nat /\ shown \in Seq(Entry)
         /\ wrote \in [Daemons -> Nat] /\ off = wrote /\ (at = "read" => pos < fileLen)
         /\ \A d \in Daemons : life[d] = "up" => log # None
<1>1. log # None => log \in Seq(Entry)
  BY DEF Shape
<1>2. log # None => Len(log) \in Nat
  BY <1>1
<1>3. /\ pos \in Nat /\ fileLen \in Nat /\ first \in Nat /\ shown \in Seq(Entry)
      /\ wrote \in [Daemons -> Nat] /\ off = wrote /\ (at = "read" => pos < fileLen)
      /\ \A d \in Daemons : life[d] = "up" => log # None
  BY Zenon DEF Shape
<1> QED
  BY <1>1, <1>2, <1>3, Zenon

(* Log, with the line and the log after it by name. *)
LEMMA LogIs ==
  ASSUME Shape, NEW d \in Daemons, Log(d)
  PROVE  /\ log \in Seq(Entry) /\ log # None /\ wrote[d] \in Nat /\ log' # None
         /\ wrote' = [wrote EXCEPT ![d] = @ + 1] /\ off' = wrote'
         /\ log' \in Seq(Entry)
         /\ \E x \in Entry : /\ x # Hole /\ x[1] = d /\ x[2] = wrote[d]
                             /\ IsPut(log', log, wrote[d], x)
         /\ grown' = (grown /\ wrote[d] >= Len(log))
         /\ UNCHANGED <<life, readerVars>>
<1>0. life[d] = "up"
  BY DEF Log
<1>1. log # None /\ log \in Seq(Entry) /\ wrote[d] \in Nat /\ off = wrote
  BY <1>0, Typed
<1>2. PICK x \in Entry : x = <<d, wrote[d]>> /\ x # Hole /\ x[1] = d /\ x[2] = wrote[d]
  BY <1>1, LineIs
<1>3. PICK u : u = log' /\ u = Put(log, wrote[d], x)
  BY <1>1, <1>2 DEF Log
<1>4. IsPut(u, log, wrote[d], x) /\ u \in Seq(Entry)
  <2>1. x \in Entry /\ u = Put(log, wrote[d], x) /\ log \in Seq(Entry) /\ wrote[d] \in Nat
    BY <1>1, <1>2, <1>3
  <2>2. IsPut(u, log, wrote[d], x)
    BY <2>1, PutIs, Zenon
  <2> QED
    BY <2>2 DEF IsPut
<1>5. u # None
  BY <1>4, NotNone
<1>6. /\ wrote' = [wrote EXCEPT ![d] = @ + 1] /\ off' = [off EXCEPT ![d] = @ + 1]
      /\ grown' = (grown /\ off[d] >= Len(log)) /\ UNCHANGED <<life, readerVars>>
  BY DEF Log
<1> QED
  BY <1>1, <1>2, <1>3, <1>4, <1>5, <1>6

LEMMA ShowIs ==
  ASSUME Shape, NEW n \in Tails, NEW follow \in BOOLEAN, Show(n, follow)
  PROVE  /\ log \in Seq(Entry) /\ log # None /\ first' \in Nat /\ first' <= Len(log)
         /\ Len(log) \in Nat /\ pos' = Len(log) /\ shown' = SubSeq(log, first' + 1, Len(log))
         /\ at' \in {"sleep", "done"} /\ grown' = TRUE /\ UNCHANGED <<logVars, fileLen>>
<1>1. log # None /\ log \in Seq(Entry) /\ Len(log) \in Nat
  <2>1. log # None
    BY DEF Show
  <2> QED
    BY <2>1, Typed
<1>2. Before(log, n) \in 0 .. Len(log)
  BY <1>1, BeforeIsIn
<1> QED
  BY <1>1, <1>2 DEF Show

LEMMA ReadIs ==
  ASSUME Shape, Read
  PROVE  /\ log \in Seq(Entry) /\ log # None /\ fileLen <= Len(log) /\ pos < fileLen
         /\ pos \in Nat /\ fileLen \in Nat /\ Len(log) \in Nat /\ at = "read"
         /\ shown \in Seq(Entry)
         /\ \E s \in Seq(Entry) :
              /\ s = SubSeq(log, pos + 1, fileLen) /\ shown' = shown \o s
              /\ shown' \in Seq(Entry)
              /\ IsPart(s, log, pos, fileLen)
         /\ pos' = fileLen /\ at' = "sleep" /\ UNCHANGED <<logVars, fileLen, first, grown>>
<1>1. /\ log \in Seq(Entry) /\ log # None /\ fileLen <= Len(log) /\ pos < fileLen
      /\ pos \in Nat /\ fileLen \in Nat /\ Len(log) \in Nat /\ at = "read" /\ pos <= fileLen
      /\ shown \in Seq(Entry)
  <2>1. log # None /\ Len(log) >= fileLen /\ at = "read"
    BY DEF Read, Readable
  <2> QED
    BY <2>1, Typed
<1>2. PICK s : s = SubSeq(log, pos + 1, fileLen)
  OBVIOUS
<1>3. IsPart(s, log, pos, fileLen) /\ s \in Seq(Entry)
  <2>1. IsPart(s, log, pos, fileLen)
    BY <1>1, <1>2, PartIs, Zenon
  <2> QED
    BY <2>1 DEF IsPart
<1>4. shown' = shown \o s /\ shown \o s \in Seq(Entry)
  BY <1>1, <1>2, <1>3 DEF Read
<1> QED
  BY <1>1, <1>2, <1>3, <1>4 DEF Read

LEMMA ShapeNext == ASSUME Shape, [Next]_vars PROVE Shape'
<1>1. ASSUME NEW d \in Daemons, Start(d) PROVE Shape'
  BY <1>1, NotNone DEF Shape, Start, Become, readerVars
<1>2. ASSUME NEW d \in Daemons, Log(d) PROVE Shape'
  <2>1. /\ log' \in Seq(Entry) /\ log' # None /\ wrote' = [wrote EXCEPT ![d] = @ + 1]
        /\ off' = wrote' /\ grown' = (grown /\ wrote[d] >= Len(log))
        /\ UNCHANGED <<life, readerVars>>
    BY <1>2, LogIs
  <2>2. wrote' \in [Daemons -> Nat]
    <3>1. wrote \in [Daemons -> Nat]
      BY Typed
    <3> QED
      BY <2>1, <3>1
  <2>3. grown' \in BOOLEAN
    BY <2>1
  <2>4. log' \in Seq(Entry) \cup {None} /\ log' # None
    BY <2>1
  <2> QED
    BY <2>1, <2>2, <2>3, <2>4, Zenon DEF Shape, readerVars
<1>3. ASSUME NEW d \in Daemons, Exit(d) PROVE Shape'
  BY <1>3 DEF Shape, Exit, Become, readerVars
<1>4. ASSUME Delete PROVE Shape'
  BY <1>4 DEF Shape, Delete, readerVars
<1>5. ASSUME NoLog \/ ReadFails PROVE Shape'
  BY <1>5 DEF Shape, NoLog, ReadFails, logVars
<1>6. ASSUME NEW n \in Tails, NEW follow \in BOOLEAN, Show(n, follow) PROVE Shape'
  <2>1. /\ log \in Seq(Entry) /\ first' \in Nat /\ first' <= Len(log) /\ Len(log) \in Nat
        /\ pos' = Len(log) /\ at' \in {"sleep", "done"} /\ grown' = TRUE
        /\ shown' = SubSeq(log, first' + 1, Len(log)) /\ UNCHANGED <<logVars, fileLen>>
    BY <1>6, ShowIs
  <2>0. PICK a, s : a = first' /\ s = shown' /\ s = SubSeq(log, a + 1, Len(log))
    BY <2>1
  <2>2. s \in Seq(Entry)
    <3>1. log \in Seq(Entry) /\ a \in Nat /\ Len(log) \in Nat /\ a <= Len(log) /\ Len(log) <= Len(log)
      BY <2>0, <2>1
    <3>2. IsPart(s, log, a, Len(log))
      BY <2>0, <3>1, PartIs, Zenon
    <3> QED
      BY <3>2 DEF IsPart
  <2> QED
    BY <2>0, <2>1, <2>2 DEF Shape, logVars
<1>7. ASSUME Poll PROVE Shape'
  <2>0. log # None
    BY <1>7 DEF Poll
  <2>1. log \in Seq(Entry) /\ Len(log) \in Nat
    BY <2>0, Typed
  <2> QED
    BY <1>7, <2>1 DEF Shape, Poll, PosAt, logVars
<1>8. ASSUME Read PROVE Shape'
  <2>1. /\ shown' \in Seq(Entry) /\ pos' = fileLen /\ at' = "sleep" /\ fileLen \in Nat
        /\ UNCHANGED <<logVars, fileLen, first, grown>>
    BY <1>8, ReadIs
  <2> QED
    BY <2>1 DEF Shape, logVars
<1>9. CASE UNCHANGED vars
  BY <1>9 DEF Shape, vars, logVars, readerVars
<1> QED
  BY <1>1, <1>2, <1>3, <1>4, <1>5, <1>6, <1>7, <1>8, <1>9 DEF Next, Follow

LEMMA InPlaceNext == ASSUME Shape, InPlace, [Next]_vars PROVE InPlace'
<1>1. ASSUME NEW d \in Daemons, Start(d) PROVE InPlace'
  BY <1>1 DEF InPlace, Start
<1>2. ASSUME NEW d \in Daemons, Log(d) PROVE InPlace'
  <2>1. PICK x \in Entry :
          /\ x # Hole /\ x[1] = d /\ x[2] = wrote[d]
          /\ log' \in Seq(Entry) /\ Len(log) <= Len(log')
          /\ Len(log) \in Nat /\ Len(log') \in Nat
          /\ \A k \in DOMAIN log' :
               log'[k] = IF k = wrote[d] + 1 THEN x ELSE IF k <= Len(log) THEN log[k] ELSE Hole
    BY <1>2, LogIs, Zenon DEF IsPut
  <2>2. log \in Seq(Entry) /\ log # None /\ wrote[d] \in Nat /\ wrote' = [wrote EXCEPT ![d] = @ + 1]
    BY <1>2, LogIs
  <2>3. wrote'[d] = wrote[d] + 1
    <3>1. wrote \in [Daemons -> Nat]
      BY Typed
    <3> QED
      BY <2>2, <3>1
  <2>4. ASSUME NEW k \in DOMAIN log', log'[k] # Hole
        PROVE  log'[k][2] = k - 1 /\ log'[k][2] < wrote'[log'[k][1]]
    <3>1. CASE k = wrote[d] + 1
      BY <2>1, <2>2, <2>3, <3>1
    <3>2. CASE k # wrote[d] + 1
      <4>1. PICK y : y = log[k]
        OBVIOUS
      <4>2. k \in DOMAIN log /\ log'[k] = y /\ y \in Entry /\ y # Hole
        BY <2>1, <2>2, <2>4, <3>2, <4>1
      <4>3. y[2] = k - 1 /\ Written(y)
        BY <2>2, <4>1, <4>2 DEF InPlace
      <4>4. Written(y)'
        BY <4>2, <4>3, StillWritten
      <4> QED
        BY <4>2, <4>3, <4>4 DEF Written
    <3> QED
      BY <3>1, <3>2
  <2> QED
    BY <2>4, Zenon DEF InPlace, Written
<1>3. ASSUME NEW d \in Daemons, Exit(d) PROVE InPlace'
  BY <1>3 DEF InPlace, Exit, Written
<1>4. ASSUME Delete PROVE InPlace'
  BY <1>4 DEF InPlace, Delete
<1>5. ASSUME NoLog \/ Follow \/ UNCHANGED vars
             \/ \E n \in Tails, follow \in BOOLEAN : Show(n, follow)
      PROVE  InPlace'
  BY <1>5 DEF InPlace, Written, NoLog, Follow, Poll, Read, ReadFails, Show, vars, logVars
<1> QED
  BY <1>1, <1>2, <1>3, <1>4, <1>5 DEF Next

LEMMA PartNext == ASSUME Shape, PartOfLog, [Next]_vars PROVE PartOfLog'
<1>1. ASSUME NEW d \in Daemons, Start(d) PROVE PartOfLog'
  BY <1>1 DEF PartOfLog, Start
<1>2. ASSUME NEW d \in Daemons, Log(d) PROVE PartOfLog'
  <2> SUFFICES ASSUME grown', at' \in {"sleep", "read", "done"}
               PROVE  /\ log' # None /\ first' <= pos' /\ pos' <= Len(log')
                      /\ at' = "read" => fileLen' <= Len(log')
                      /\ shown' = SubSeq(log', first' + 1, pos')
    BY DEF PartOfLog
  <2>1. PICK x \in Entry :
          /\ log' \in Seq(Entry) /\ Len(log) <= Len(log')
          /\ Len(log) \in Nat /\ Len(log') \in Nat
          /\ \A k \in DOMAIN log' :
               log'[k] = IF k = wrote[d] + 1 THEN x ELSE IF k <= Len(log) THEN log[k] ELSE Hole
    BY <1>2, LogIs, ZenonT(30) DEF IsPut
  <2>2. /\ log \in Seq(Entry) /\ log' # None /\ grown /\ wrote[d] >= Len(log) /\ wrote[d] \in Nat
        /\ UNCHANGED readerVars
    BY <1>2, LogIs
  <2>3. /\ first <= pos /\ pos <= Len(log) /\ (at = "read" => fileLen <= Len(log))
        /\ shown = SubSeq(log, first + 1, pos) /\ first \in Nat /\ pos \in Nat /\ fileLen \in Nat
    BY <2>2 DEF PartOfLog, Shape, readerVars
  <2>4. \A k \in 1 .. Len(log) : log'[k] = log[k]
    BY <2>1, <2>2
  <2>5. SubSeq(log', first + 1, pos) = SubSeq(log, first + 1, pos)
    BY <2>1, <2>2, <2>3, <2>4, SamePart
  <2> QED
    BY <2>1, <2>2, <2>3, <2>5 DEF readerVars
<1>3. ASSUME (\E d \in Daemons : Exit(d)) \/ NoLog \/ ReadFails \/ UNCHANGED vars PROVE PartOfLog'
  BY <1>3 DEF PartOfLog, Exit, NoLog, ReadFails, vars, logVars, readerVars
<1>4. ASSUME Delete PROVE PartOfLog'
  BY <1>4 DEF PartOfLog, Delete
<1>5. ASSUME NEW n \in Tails, NEW follow \in BOOLEAN, Show(n, follow) PROVE PartOfLog'
  BY <1>5, ShowIs DEF PartOfLog, logVars
<1>6. ASSUME Poll PROVE PartOfLog'
  <2>0. log # None
    BY <1>6 DEF Poll
  <2>1. log \in Seq(Entry) /\ Len(log) \in Nat /\ log # None /\ pos \in Nat
    BY <2>0, Typed
  <2> QED
    BY <1>6, <2>1 DEF PartOfLog, Poll, PosAt, logVars
<1>7. ASSUME Read PROVE PartOfLog'
  <2> SUFFICES ASSUME grown PROVE PartOfLog'
    BY <1>7, ReadIs DEF PartOfLog
  <2>1. /\ log \in Seq(Entry) /\ log # None /\ fileLen <= Len(log) /\ pos < fileLen
        /\ pos \in Nat /\ fileLen \in Nat /\ Len(log) \in Nat /\ at = "read"
        /\ pos' = fileLen /\ at' = "sleep" /\ UNCHANGED <<log, fileLen, first, grown>>
        /\ shown' = shown \o SubSeq(log, pos + 1, fileLen)
    BY <1>7, ReadIs DEF logVars
  <2>2. first <= pos /\ shown = SubSeq(log, first + 1, pos) /\ first \in Nat
    BY <2>1 DEF PartOfLog, Shape
  <2>3. SubSeq(log, first + 1, pos) \o SubSeq(log, pos + 1, fileLen) = SubSeq(log, first + 1, fileLen)
    <3>1. PICK m \in 1 .. Len(log) + 1 : m = first + 1
      BY <2>1, <2>2
    <3>2. pos \in m - 1 .. Len(log) /\ fileLen \in pos .. Len(log)
      BY <2>1, <2>2, <3>1
    <3>3. SubSeq(log, m, pos) \o SubSeq(log, pos + 1, fileLen) = SubSeq(log, m, fileLen)
      BY <2>1, <3>2, ConcatAdjacentSubSeq
    <3> QED
      BY <3>1, <3>3
  <2>4. shown' = SubSeq(log, first + 1, fileLen)
    BY <2>1, <2>2, <2>3, Zenon
  <2>5. first <= fileLen
    BY <2>1, <2>2
  <2>6. /\ log' # None /\ log' = log /\ first' = first /\ pos' = fileLen /\ at' = "sleep"
        /\ fileLen <= Len(log)
    BY <2>1, Zenon
  <2>7. at' # "read"
    BY <2>6
  <2> QED
    BY <2>4, <2>5, <2>6, <2>7, Zenon DEF PartOfLog
<1> QED
  BY <1>1, <1>2, <1>3, <1>4, <1>5, <1>6, <1>7 DEF Next, Follow

(* The lines that were printed: each was written, and none is ahead.          *)
Behind(x) ==
  /\ Written(x)
  /\ log # None => \A j \in DOMAIN log : log[j] = x => j <= pos /\ pos <= Len(log)

LEMMA ShownNext ==
  ASSUME Shape, InPlace, ShownIsBehind, [Next]_vars
  PROVE  ShownIsBehind'
<1>0. ASSUME NEW x \in Entry, x # Hole, Behind(x), [Next]_vars,
             ~\E n \in Tails, follow \in BOOLEAN : Show(n, follow)
      PROVE  Behind(x)'
  <2>0. Written(x)'
    BY <1>0, StillWritten DEF Behind
  <2>1. ASSUME NEW d \in Daemons, Start(d) PROVE Behind(x)'
    BY <2>0, <2>1 DEF Behind, Start
  <2>2. ASSUME NEW d \in Daemons, Log(d) PROVE Behind(x)'
    <3>1. PICK y \in Entry :
            /\ y # Hole /\ y[1] = d /\ y[2] = wrote[d]
            /\ log' \in Seq(Entry) /\ Len(log) <= Len(log')
            /\ Len(log) \in Nat /\ Len(log') \in Nat
            /\ \A k \in DOMAIN log' :
                 log'[k] = IF k = wrote[d] + 1 THEN y ELSE IF k <= Len(log) THEN log[k] ELSE Hole
      BY <2>2, LogIs, ZenonT(30) DEF IsPut
    <3>2. log \in Seq(Entry) /\ log # None /\ pos' = pos /\ pos \in Nat /\ wrote[d] \in Nat
      BY <2>2, LogIs, Typed DEF readerVars
    <3>3. x # y
      BY <1>0, <3>1, <3>2 DEF Behind, Written
    <3>4. ASSUME NEW j \in DOMAIN log', log'[j] = x PROVE j <= pos /\ pos <= Len(log')
      <4>1. j \in DOMAIN log /\ log[j] = x
        BY <1>0, <3>1, <3>2, <3>3, <3>4
      <4>2. j <= pos /\ pos <= Len(log)
        BY <1>0, <3>2, <4>1 DEF Behind
      <4> QED
        BY <3>1, <3>2, <4>2
    <3> QED
      BY <2>0, <3>2, <3>4 DEF Behind
  <2>3. ASSUME (\E d \in Daemons : Exit(d)) \/ NoLog \/ ReadFails \/ UNCHANGED vars
        PROVE  Behind(x)'
    <3>1. UNCHANGED <<log, pos>>
      BY <2>3 DEF Exit, NoLog, ReadFails, vars, logVars, readerVars
    <3> QED
      BY <1>0, <2>0, <3>1 DEF Behind
  <2>4. ASSUME Delete PROVE Behind(x)'
    BY <2>0, <2>4 DEF Behind, Delete
  <2>5. ASSUME Poll PROVE Behind(x)'
    <3>1. log' = log /\ log # None /\ pos' = IF Len(log) < pos THEN 0 ELSE pos
      BY <2>5 DEF Poll, PosAt, logVars
    <3>2. log \in Seq(Entry) /\ Len(log) \in Nat /\ pos \in Nat
      BY <3>1, Typed
    <3>3. ASSUME NEW j \in DOMAIN log, log[j] = x PROVE pos' = pos /\ j <= pos /\ pos <= Len(log)
      BY <1>0, <3>1, <3>2, <3>3 DEF Behind
    <3> QED
      BY <2>0, <3>1, <3>3 DEF Behind
  <2>6. ASSUME Read PROVE Behind(x)'
    <3>1. /\ log \in Seq(Entry) /\ log # None /\ fileLen <= Len(log) /\ pos < fileLen
          /\ pos \in Nat /\ fileLen \in Nat /\ Len(log) \in Nat /\ log' = log /\ pos' = fileLen
      BY <2>6, ReadIs DEF logVars
    <3>2. ASSUME NEW j \in DOMAIN log, log[j] = x PROVE j <= fileLen
      BY <1>0, <3>1, <3>2 DEF Behind
    <3> QED
      BY <2>0, <3>1, <3>2 DEF Behind
  <2> QED
    BY <1>0, <2>1, <2>2, <2>3, <2>4, <2>5, <2>6 DEF Next, Follow
<1>1. \A i \in DOMAIN shown : shown[i] # Hole => Behind(shown[i]) /\ shown[i] \in Entry
  <2>1. shown \in Seq(Entry)
    BY Typed
  <2> QED
    BY <2>1 DEF ShownIsBehind, Behind
<1>2. SUFFICES ASSUME NEW i \in DOMAIN shown', NEW x, x = shown'[i], x # Hole
               PROVE  Behind(x)'
  BY Zenon DEF ShownIsBehind, Behind
<1>3. CASE shown' = shown /\ ~\E n \in Tails, follow \in BOOLEAN : Show(n, follow)
  <2>1. x \in Entry /\ Behind(x)
    BY <1>1, <1>2, <1>3
  <2> QED
    BY <1>0, <1>2, <1>3, <2>1
<1>4. ASSUME NEW n \in Tails, NEW follow \in BOOLEAN, Show(n, follow) PROVE Behind(x)'
  <2>1. PICK a, s : /\ a \in Nat /\ a = first' /\ s = shown' /\ s = SubSeq(log, a + 1, Len(log))
                    /\ a <= Len(log)
    BY <1>4, ShowIs
  <2>2. log \in Seq(Entry) /\ log # None /\ Len(log) \in Nat /\ pos' = Len(log) /\ UNCHANGED logVars
    BY <1>4, ShowIs
  <2>3. \A k \in DOMAIN s : s[k] = log[a + k] /\ a + k \in DOMAIN log /\ a + k <= Len(log)
    <3>1. Len(log) <= Len(log)
      BY <2>2
    <3>2. IsPart(s, log, a, Len(log))
      BY <2>1, <2>2, <3>1, PartIs, Zenon
    <3> QED
      BY <3>2 DEF IsPart
  <2>4. a + i \in DOMAIN log /\ log[a + i] = x
    BY <1>2, <2>1, <2>3
  <2>5. Written(x)
    BY <1>2, <2>2, <2>4 DEF InPlace
  <2>6. Written(x)' /\ log' = log
    BY <2>2, <2>5 DEF Written, logVars
  <2>7. \A j \in DOMAIN log : j <= Len(log)
    BY <2>2
  <2> QED
    BY <2>2, <2>6, <2>7 DEF Behind
<1>5. ASSUME Read PROVE Behind(x)'
  <2>1. PICK s \in Seq(Entry) :
          /\ shown' = shown \o s
          /\ \A k \in DOMAIN s : s[k] = log[pos + k] /\ pos + k \in DOMAIN log /\ pos + k <= fileLen
    BY <1>5, ReadIs, Zenon DEF IsPart
  <2>2. /\ log \in Seq(Entry) /\ log # None /\ fileLen <= Len(log) /\ pos < fileLen
        /\ pos \in Nat /\ fileLen \in Nat /\ Len(log) \in Nat /\ shown \in Seq(Entry)
        /\ UNCHANGED logVars /\ pos' = fileLen
    BY <1>5, ReadIs
  <2>3. CASE i \in DOMAIN shown /\ x = shown[i]
    <3>1. ~\E n \in Tails, follow \in BOOLEAN : Show(n, follow)
      BY <1>5 DEF Read, Show
    <3> QED
      BY <1>0, <1>1, <1>2, <2>3, <3>1
  <2>4. CASE \E k \in DOMAIN s : x = s[k]
    <3>1. PICK m \in DOMAIN log : log[m] = x /\ m <= fileLen
      BY <2>1, <2>4
    <3>2. Written(x) /\ x[2] = m - 1
      BY <1>2, <2>2, <3>1 DEF InPlace
    <3>3. Written(x)' /\ log' = log
      BY <2>2, <3>2 DEF Written, logVars
    <3>4. ASSUME NEW j \in DOMAIN log, log[j] = x PROVE j <= fileLen
      <4>1. x[2] = j - 1
        BY <1>2, <2>2, <3>4 DEF InPlace
      <4> QED
        BY <2>2, <3>1, <3>2, <4>1
    <3> QED
      BY <2>2, <3>3, <3>4 DEF Behind
  <2>5. (i \in DOMAIN shown /\ x = shown[i]) \/ \E k \in DOMAIN s : x = s[k]
    <3>1. \A k \in DOMAIN (shown \o s) : \/ k \in DOMAIN shown /\ (shown \o s)[k] = shown[k]
                                         \/ \E l \in DOMAIN s : (shown \o s)[k] = s[l]
      <4> SUFFICES ASSUME NEW k \in DOMAIN (shown \o s), k \notin DOMAIN shown
                   PROVE  \E l \in DOMAIN s : (shown \o s)[k] = s[l]
        BY <2>2
      <4>1. k - Len(shown) \in DOMAIN s /\ (shown \o s)[k] = s[k - Len(shown)]
        BY <2>2
      <4> QED
        BY <4>1
    <3> QED
      BY <1>2, <2>1, <3>1
  <2> QED
    BY <2>3, <2>4, <2>5
<1>6. shown' = shown \/ Read \/ \E n \in Tails, follow \in BOOLEAN : Show(n, follow)
  BY Zenon DEF Next, vars, logVars, readerVars, Start, Log, Exit, Delete, NoLog, Follow, Poll, ReadFails
<1> QED
  BY <1>3, <1>4, <1>5, <1>6

LEMMA TwiceNext ==
  ASSUME Shape, InPlace, ShownIsBehind, NoLineTwice, [Next]_vars
  PROVE  NoLineTwice'
<1>1. CASE shown' = shown
  BY <1>1 DEF NoLineTwice
<1>2. ASSUME log # None, NEW i \in DOMAIN log, NEW j \in DOMAIN log, log[i] = log[j], log[i] # Hole
      PROVE  i = j
  <2>1. log[i][2] = i - 1 /\ log[i][2] = j - 1 /\ log \in Seq(Entry)
    BY <1>2, Typed DEF InPlace
  <2>2. i \in Int /\ j \in Int
    BY <2>1
  <2>3. i - 1 = j - 1
    BY <2>1
  <2> QED
    BY <2>2, <2>3
<1>3. ASSUME NEW n \in Tails, NEW follow \in BOOLEAN, Show(n, follow) PROVE NoLineTwice'
  <2>1. PICK a, s : /\ a \in Nat /\ a = first' /\ s = shown' /\ s = SubSeq(log, a + 1, Len(log))
                    /\ a <= Len(log)
    BY <1>3, ShowIs
  <2>2. log \in Seq(Entry) /\ log # None /\ Len(log) \in Nat
    BY <1>3, ShowIs
  <2>3. /\ \A k \in DOMAIN s : s[k] = log[a + k] /\ a + k \in DOMAIN log /\ a + k <= Len(log)
        /\ s \in Seq(Entry)
    <3>1. Len(log) <= Len(log)
      BY <2>2
    <3>2. IsPart(s, log, a, Len(log))
      BY <2>1, <2>2, <3>1, PartIs, Zenon
    <3> QED
      BY <3>2 DEF IsPart
  <2>4. ASSUME NEW i \in DOMAIN s, NEW j \in DOMAIN s, s[i] = s[j], s[i] # Hole PROVE i = j
    <3>1. a + i = a + j
      BY <1>2, <2>2, <2>3, <2>4
    <3>2. a \in Nat /\ i \in Int /\ j \in Int
      BY <2>1, <2>3
    <3> QED
      BY <3>1, <3>2
  <2> QED
    BY <2>1, <2>4, Zenon DEF NoLineTwice
<1>4. ASSUME Read PROVE NoLineTwice'
  <2>1. PICK s \in Seq(Entry) :
          /\ shown' = shown \o s
          /\ \A k \in DOMAIN s : s[k] = log[pos + k] /\ pos + k \in DOMAIN log /\ pos + k <= fileLen
    BY <1>4, ReadIs, Zenon DEF IsPart
  <2>2. /\ log \in Seq(Entry) /\ log # None /\ pos \in Nat /\ shown \in Seq(Entry)
    BY <1>4, ReadIs
  <2>3. PICK t : t = shown /\ t \in Seq(Entry)
    BY <2>2
  <2>4. ASSUME NEW k \in DOMAIN (t \o s), k \notin DOMAIN t
        PROVE  k - Len(t) \in DOMAIN s /\ (t \o s)[k] = s[k - Len(t)] /\ k \in Nat /\ Len(t) \in Nat
    BY <2>3, <2>4
  <2>5. \A k \in DOMAIN t : (t \o s)[k] = t[k]
    BY <2>3
  <2>6. ASSUME NEW i \in DOMAIN t, t[i] # Hole, NEW m \in DOMAIN s PROVE t[i] # s[m]
    <3> SUFFICES ASSUME t[i] = s[m] PROVE FALSE
      OBVIOUS
    <3>1. pos + m \in DOMAIN log /\ log[pos + m] = t[i] /\ m >= 1 /\ m \in Nat
      BY <2>1, <2>6
    <3>2. pos + m <= pos
      BY <2>2, <2>3, <2>6, <3>1 DEF ShownIsBehind
    <3> QED
      BY <2>2, <3>1, <3>2
  <2>7. ASSUME NEW i \in DOMAIN (t \o s), NEW j \in DOMAIN (t \o s),
               (t \o s)[i] = (t \o s)[j], (t \o s)[i] # Hole
        PROVE  i = j
    <3>1. CASE i \in DOMAIN t /\ j \in DOMAIN t
      BY <2>3, <2>5, <2>7, <3>1 DEF NoLineTwice
    <3>2. CASE i \in DOMAIN t /\ j \notin DOMAIN t
      BY <2>4, <2>5, <2>6, <2>7, <3>2
    <3>3. CASE i \notin DOMAIN t /\ j \in DOMAIN t
      BY <2>4, <2>5, <2>6, <2>7, <3>3
    <3>4. CASE i \notin DOMAIN t /\ j \notin DOMAIN t
      <4>1. PICK l, m \in DOMAIN s : /\ l = i - Len(t) /\ m = j - Len(t)
                                     /\ s[l] = s[m] /\ s[l] # Hole
        BY <2>4, <2>7, <3>4
      <4>2. pos + l = pos + m
        BY <1>2, <2>1, <2>2, <4>1
      <4>3. l = m
        BY <2>2, <4>1, <4>2
      <4> QED
        BY <2>4, <3>4, <4>1, <4>3
    <3> QED
      BY <3>1, <3>2, <3>3, <3>4
  <2> QED
    BY <2>1, <2>3, <2>7, Zenon DEF NoLineTwice
<1>5. shown' = shown \/ Read \/ \E n \in Tails, follow \in BOOLEAN : Show(n, follow)
  BY Zenon DEF Next, vars, logVars, readerVars, Start, Log, Exit, Delete, NoLog, Follow, Poll, ReadFails
<1> QED
  BY <1>1, <1>3, <1>4, <1>5

-----------------------------------------------------------------------------
(* Theorems *)

Inv == Shape /\ InPlace /\ PartOfLog /\ ShownIsBehind /\ NoLineTwice

LEMMA InvInit == Init => Inv
BY NotNone DEF Init, Inv, Shape, InPlace, PartOfLog, ShownIsBehind, NoLineTwice

LEMMA InvNext == Inv /\ [Next]_vars => Inv'
BY ShapeNext, InPlaceNext, PartNext, ShownNext, TwiceNext DEF Inv

(* While the log does nothing but grow, what show_logs has printed is the     *)
(* text of the file from where -n begins up to the position, without a gap.   *)
THEOREM NothingIsSkipped == Spec => []NothingSkipped
<1>1. Inv => NothingSkipped
  BY DEF Inv, PartOfLog, NothingSkipped
<1> QED
  BY InvInit, InvNext, <1>1, PTL DEF Spec

(* No line is printed twice, however often daemons truncate the log, write    *)
(* into each other's, or somebody deletes it.                                 *)
THEOREM LinesShownOnce == Spec => []NoLineTwice
<1>1. Inv => NoLineTwice
  BY DEF Inv
<1> QED
  BY InvInit, InvNext, <1>1, PTL DEF Spec
=============================================================================
