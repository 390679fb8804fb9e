--------------------------- MODULE HostsFileProofs ---------------------------
(* Theorems about HostsFile, for any processes, hostnames and hosts files,    *)
(* and every bound.                                                           *)
EXTENDS HostsFile, FiniteSetTheorems, SequenceTheorems, WellFoundedInduction, TLAPS

LEMMA LeastIsThere ==
  ASSUME NEW S \in SUBSET Nat, S # {}
  PROVE  \E x \in S : \A y \in S : x <= y
<1>1. PICK x \in S : \A y \in S : <<y, x>> \notin OpToRel(<, Nat)
  BY NatLessThanWellFounded, WFMin, Zenon
<1>2. ASSUME NEW y \in S PROVE x <= y
  <2>1. <<y, x>> \in Nat \X Nat /\ <<y, x>>[1] = y /\ <<y, x>>[2] = x
    OBVIOUS
  <2>2. ~(<<y, x>>[1] < <<y, x>>[2])
    BY <1>1, <2>1, Zenon DEF OpToRel
  <2>3. ~(y < x)
    BY <2>1, <2>2, Zenon
  <2> QED
    BY <2>3
<1> QED
  BY <1>2

-----------------------------------------------------------------------------
(* What Kept returns.  The rank of an index is how many are not above it.     *)
Rank(K, i) == Cardinality({j \in K : j <= i})

LEMMA RankSteps ==
  ASSUME NEW n \in Nat, NEW K \in SUBSET (1 .. n)
  PROVE  /\ IsFiniteSet(K) /\ Cardinality(K) \in Nat
         /\ Rank(K, 0) = 0 /\ Rank(K, n) = Cardinality(K)
         /\ \A i \in 0 .. n : Rank(K, i) \in Nat
         /\ \A i \in 1 .. n : Rank(K, i) = IF i \in K THEN Rank(K, i - 1) + 1 ELSE Rank(K, i - 1)
<1>1. IsFiniteSet(K)
  <2>1. IsFiniteSet(1 .. n)
    BY FS_Interval
  <2> QED
    BY <2>1, FS_Subset
<1>2. ASSUME NEW i \in 0 .. n
      PROVE  IsFiniteSet({j \in K : j <= i}) /\ Rank(K, i) \in Nat
  <2>1. IsFiniteSet({j \in K : j <= i})
    BY <1>1, FS_Subset
  <2> QED
    BY <2>1, FS_CardinalityType DEF Rank
<1>0. \A j \in K : j \in Int /\ 1 <= j /\ j <= n
  OBVIOUS
<1>3. {j \in K : j <= 0} = {} /\ {j \in K : j <= n} = K
  <2>1. \A j \in K : ~(j <= 0) /\ j <= n
    BY <1>0
  <2> QED
    BY <2>1, Zenon
<1>4. Rank(K, 0) = 0 /\ Rank(K, n) = Cardinality(K)
  BY <1>3, FS_EmptySet DEF Rank
<1>5. ASSUME NEW i \in 1 .. n
      PROVE  Rank(K, i) = IF i \in K THEN Rank(K, i - 1) + 1 ELSE Rank(K, i - 1)
  <2>1. PICK B : B = {j \in K : j <= i - 1}
    OBVIOUS
  <2>2. IsFiniteSet(B) /\ i \notin B
    BY <1>1, <2>1, FS_Subset
  <2>3. CASE i \in K
    <3>1. \A j \in K : j <= i <=> (j <= i - 1 \/ j = i)
      BY <1>0
    <3>4. {j \in K : j <= i} = B \cup {i}
      BY <2>1, <2>3, <3>1, Zenon
    <3>2. Cardinality(B \cup {i}) = Cardinality(B) + 1
      BY <2>2, FS_AddElement
    <3> QED
      BY <2>1, <2>3, <3>2, <3>4, Zenon DEF Rank
  <2>4. CASE i \notin K
    <3>1. \A j \in K : j <= i <=> j <= i - 1
      BY <1>0, <2>4
    <3>2. {j \in K : j <= i} = B
      BY <2>1, <3>1, Zenon
    <3> QED
      BY <2>1, <2>4, <3>2, Zenon DEF Rank
  <2> QED
    BY <2>3, <2>4
<1> QED
  BY <1>1, <1>2, <1>4, <1>5, FS_CardinalityType

(* There is an n-th index for every n up to the number of indices: the first  *)
(* whose rank is n.                                                           *)
LEMMA NthIsThere ==
  ASSUME NEW len \in Nat, NEW K \in SUBSET (1 .. len), NEW n \in 1 .. Cardinality(K)
  PROVE  Nth(K, n) \in K
<1> DEFINE T == {i \in 0 .. len : Rank(K, i) >= n}
<1>1. len \in T
  BY RankSteps
<1>2. T \in SUBSET Nat /\ T # {}
  BY <1>1
<1>3. PICK i \in T : \A y \in T : i <= y
  BY <1>2, LeastIsThere
<1>4. i \in 1 .. len /\ Rank(K, i) \in Nat /\ Rank(K, i - 1) \in Nat /\ n \in Nat
      /\ Rank(K, i) >= n
  <2>1. i # 0
    BY <1>3, RankSteps
  <2> QED
    BY <1>3, <2>1, RankSteps
<1>5. ~(Rank(K, i - 1) >= n)
  BY <1>3, <1>4
<1>6. Rank(K, i) = IF i \in K THEN Rank(K, i - 1) + 1 ELSE Rank(K, i - 1)
  <2>1. \A j \in 1 .. len : Rank(K, j) = IF j \in K THEN Rank(K, j - 1) + 1 ELSE Rank(K, j - 1)
    BY RankSteps, Zenon
  <2>2. i \in 1 .. len
    BY <1>4
  <2> QED
    BY <2>1, <2>2, Zenon
<1>7. i \in K /\ Rank(K, i) = n
  BY <1>4, <1>5, <1>6
<1>8. \E j \in K : Cardinality({m \in K : m <= j}) = n
  BY <1>7 DEF Rank
<1> QED
  BY <1>8 DEF Nth

LEMMA KeptTyped ==
  ASSUME NEW S, NEW c \in Seq(S), NEW K \in SUBSET (DOMAIN c)
  PROVE  /\ Kept(c, K) \in Seq(S) /\ Len(Kept(c, K)) = Cardinality(K)
         /\ \A n \in 1 .. Len(Kept(c, K)) : \E i \in K : Kept(c, K)[n] = c[i]
<1>1. Len(c) \in Nat /\ K \in SUBSET (1 .. Len(c)) /\ \A i \in K : c[i] \in S
  OBVIOUS
<1>2. Cardinality(K) \in Nat
  BY <1>1, RankSteps
<1>3. \A n \in 1 .. Cardinality(K) : Nth(K, n) \in K
  BY <1>1, NthIsThere
<1>4. Kept(c, K) \in [1 .. Cardinality(K) -> S]
  BY <1>1, <1>3 DEF Kept
<1>5. Kept(c, K) \in Seq(S) /\ Len(Kept(c, K)) = Cardinality(K)
  BY <1>2, <1>4
<1>6. \A n \in 1 .. Cardinality(K) : Kept(c, K)[n] = c[Nth(K, n)]
  BY DEF Kept
<1> QED
  BY <1>3, <1>5, <1>6

(* Neighbouring indices keep a part of the text.                              *)
LEMMA KeptInterval ==
  ASSUME NEW S, NEW c \in Seq(S), NEW a \in 1 .. Len(c) + 1, NEW b \in a - 1 .. Len(c)
  PROVE  Kept(c, a .. b) = SubSeq(c, a, b)
<1>1. /\ Len(c) \in Nat /\ a .. b \in SUBSET (1 .. Len(c))
      /\ Cardinality(a .. b) = b - a + 1 /\ a \in Int /\ b \in Int
  <2>1. Len(c) \in Nat
    OBVIOUS
  <2>2. a \in Int /\ b \in Int /\ a - 1 <= b /\ 1 <= a /\ b <= Len(c)
    BY <2>1
  <2>3. Cardinality(a .. b) = IF a > b THEN 0 ELSE b - a + 1
    BY <2>2, FS_Interval, Zenon
  <2> QED
    BY <2>1, <2>2, <2>3
<1>2. ASSUME NEW n \in 1 .. b - a + 1 PROVE Nth(a .. b, n) = a + n - 1
  <2>1. \A i \in a .. b : {j \in a .. b : j <= i} = a .. i
    BY <1>1
  <2>2. ASSUME NEW i \in a .. b PROVE Cardinality({j \in a .. b : j <= i}) = i - a + 1
    <3>1. i \in Int /\ a <= i
      BY <1>1
    <3>2. Cardinality(a .. i) = IF a > i THEN 0 ELSE i - a + 1
      BY <1>1, <3>1, FS_Interval, Zenon
    <3>3. Cardinality(a .. i) = i - a + 1
      BY <1>1, <3>1, <3>2
    <3> QED
      BY <2>1, <3>3, Zenon
  <2>3. a + n - 1 \in a .. b /\ (a + n - 1) - a + 1 = n
    BY <1>1
  <2>4. ASSUME NEW i \in a .. b
        PROVE  Cardinality({j \in a .. b : j <= i}) = n <=> i = a + n - 1
    <3>1. i - a + 1 = n <=> i = a + n - 1
      BY <1>1
    <3> QED
      BY <2>2, <3>1, Zenon
  <2> QED
    BY <2>3, <2>4 DEF Nth
<1>3. \A i \in a .. b : c[i] \in S
  BY <1>1
<1>4. /\ SubSeq(c, a, b) \in Seq(S) /\ Len(SubSeq(c, a, b)) = b - a + 1
      /\ \A n \in 1 .. b - a + 1 : SubSeq(c, a, b)[n] = c[a + n - 1]
  BY <1>1, <1>3, SubSeqProperties
<1>5. /\ Kept(c, a .. b) \in Seq(S) /\ Len(Kept(c, a .. b)) = b - a + 1
  BY <1>1, KeptTyped
<1>6. \A n \in 1 .. b - a + 1 : Kept(c, a .. b)[n] = c[a + n - 1]
  BY <1>1, <1>2 DEF Kept
<1> QED
  BY <1>4, <1>5, <1>6, SeqEqual

LEMMA KeptAll ==
  ASSUME NEW S, NEW c \in Seq(S)
  PROVE  Kept(c, DOMAIN c) = c /\ Kept(c, {}) = <<>>
<1>1. DOMAIN c = 1 .. Len(c) /\ Len(c) \in Nat
  OBVIOUS
<1>2. Kept(c, 1 .. Len(c)) = SubSeq(c, 1, Len(c)) /\ SubSeq(c, 1, Len(c)) = c
  BY <1>1, KeptInterval, SubSeqFull
<1>3. Kept(c, {}) \in Seq(S) /\ Len(Kept(c, {})) = 0
  BY KeptTyped, FS_EmptySet
<1> QED
  BY <1>1, <1>2, <1>3

-----------------------------------------------------------------------------
(* trim_end *)

LEMMA Markers ==
  /\ Start \in Line /\ End \in Line /\ Blank \in Line /\ Hostnames \subseteq Line
  /\ Start # End /\ Blank # Start /\ Blank # End
  /\ Start \notin Hostnames /\ End \notin Hostnames
BY HostsAssumption DEF Line

(* The part of a text that is followed by nothing but blanks.                 *)
LEMMA TrimIs ==
  ASSUME NEW c \in Seq(Line)
  PROVE  \E m \in 0 .. Len(c) : /\ TrimEnd(c) = SubSeq(c, 1, m)
                                /\ m = 0 \/ c[m] # Blank
<1> DEFINE T == {m \in 0 .. Len(c) : \A i \in m + 1 .. Len(c) : c[i] = Blank}
<1>1. Len(c) \in T /\ T \in SUBSET Nat
  OBVIOUS
<1>2. PICK m \in T : \A y \in T : m <= y
  BY <1>1, LeastIsThere
<1>3. m \in 0 .. Len(c) /\ \A i \in m + 1 .. Len(c) : c[i] = Blank
  BY <1>2
<1>4. m = 0 \/ c[m] # Blank
  <2> SUFFICES ASSUME m # 0, c[m] = Blank PROVE FALSE
    OBVIOUS
  <2>1. m - 1 \in 0 .. Len(c) /\ \A i \in (m - 1) + 1 .. Len(c) : c[i] = Blank
    BY <1>3
  <2>2. m - 1 \in T
    BY <2>1
  <2>3. m <= m - 1
    BY <1>2, <2>2, Zenon
  <2> QED
    BY <1>3, <2>3
<1>5. {i \in DOMAIN c : \E j \in i .. Len(c) : c[j] # Blank} = 1 .. m
  <2>1. ASSUME NEW i \in 1 .. m PROVE i \in DOMAIN c /\ \E j \in i .. Len(c) : c[j] # Blank
    BY <1>3, <1>4
  <2>2. ASSUME NEW i \in DOMAIN c, NEW j \in i .. Len(c), c[j] # Blank PROVE i \in 1 .. m
    BY <1>3, <2>2
  <2> QED
    BY <2>1, <2>2, Zenon
<1>6. Kept(c, 1 .. m) = SubSeq(c, 1, m)
  BY <1>3, KeptInterval
<1> QED
  BY <1>3, <1>4, <1>5, <1>6, Zenon DEF TrimEnd

LEMMA TrimTyped == ASSUME NEW c \in Seq(Line) PROVE TrimEnd(c) \in Seq(Line)
<1>1. PICK m \in 0 .. Len(c) : TrimEnd(c) = SubSeq(c, 1, m)
  BY TrimIs
<1> QED
  BY <1>1

LEMMA TrimSolid ==
  ASSUME NEW c \in Seq(Line), c = <<>> \/ c[Len(c)] # Blank
  PROVE  TrimEnd(c) = c
<1>1. {i \in DOMAIN c : \E j \in i .. Len(c) : c[j] # Blank} = DOMAIN c
  <2>1. ASSUME NEW i \in DOMAIN c PROVE \E j \in i .. Len(c) : c[j] # Blank
    <3>1. Len(c) \in i .. Len(c) /\ c # <<>>
      OBVIOUS
    <3> QED
      BY <3>1, Zenon
  <2> QED
    BY <2>1, Zenon
<1> QED
  BY <1>1, KeptAll DEF TrimEnd

(* What is left of a text has lines of it only, and trimming it again leaves  *)
(* it as it is.                                                               *)
LEMMA TrimAgain ==
  ASSUME NEW c \in Seq(Line)
  PROVE  /\ TrimEnd(TrimEnd(c)) = TrimEnd(c)
         /\ \A n \in DOMAIN TrimEnd(c) : n \in DOMAIN c /\ TrimEnd(c)[n] = c[n]
<1>1. PICK m \in 0 .. Len(c) : /\ TrimEnd(c) = SubSeq(c, 1, m)
                               /\ m = 0 \/ c[m] # Blank
  BY TrimIs
<1>2. PICK t \in Seq(Line) : t = TrimEnd(c)
  BY TrimTyped
<1>3. Len(t) = m /\ \A n \in 1 .. m : t[n] = c[n]
  BY <1>1, <1>2
<1>4. t = <<>> \/ t[Len(t)] # Blank
  BY <1>1, <1>3
<1>5. TrimEnd(t) = t
  BY <1>4, TrimSolid
<1> QED
  BY <1>2, <1>3, <1>5

LEMMA TrimBlank == TrimEnd(<<Blank>>) = <<>> /\ <<Blank>> \in Seq(Line)
<1>1. <<Blank>> \in Seq(Line) /\ {i \in DOMAIN <<Blank>> : \E j \in i .. Len(<<Blank>>) : <<Blank>>[j] # Blank} = {}
  BY Markers
<1> QED
  BY <1>1, KeptAll DEF TrimEnd

-----------------------------------------------------------------------------
(* remove_block *)

Unmarked(c) == \A i \in DOMAIN c : c[i] \notin {Start, End}

LEMMA RemoveTyped ==
  ASSUME NEW c \in Seq(Line)
  PROVE  RemoveBlock(c) \in Seq(Line) /\ Unmarked(RemoveBlock(c))
<1> DEFINE K == {i \in DOMAIN c : c[i] \notin {Start, End} /\ ~Inside(c, i)}
           rest == Kept(c, K)
<1>1. /\ rest \in Seq(Line)
      /\ \A n \in 1 .. Len(rest) : \E i \in K : rest[n] = c[i]
  <2>1. K \in SUBSET (DOMAIN c)
    OBVIOUS
  <2> QED
    BY <2>1, KeptTyped, ZenonT(30)
<1>2. Unmarked(rest)
  BY <1>1 DEF Unmarked
<1>3. <<Blank>> \in Seq(Line) /\ Unmarked(<<Blank>>)
  BY Markers DEF Unmarked
<1>4. RemoveBlock(c) = IF rest = <<>> /\ c # <<>> THEN <<Blank>> ELSE rest
  BY DEF RemoveBlock
<1> HIDE DEF rest
<1> QED
  BY <1>1, <1>2, <1>3, <1>4

LEMMA RemoveAgain ==
  ASSUME NEW c \in Seq(Line), Unmarked(c)
  PROVE  RemoveBlock(c) = c
<1>1. {i \in DOMAIN c : c[i] \notin {Start, End} /\ ~Inside(c, i)} = DOMAIN c
  <2>1. ASSUME NEW i \in DOMAIN c PROVE ~Inside(c, i)
    <3>1. \A j \in 1 .. i : j \in DOMAIN c
      OBVIOUS
    <3> QED
      BY <3>1 DEF Inside, Unmarked
  <2> QED
    BY <2>1, Zenon DEF Unmarked
<1>2. Kept(c, DOMAIN c) = c
  BY KeptAll
<1> QED
  BY <1>1, <1>2 DEF RemoveBlock

(* A clean leaves the lines outside the block.                                *)
LEMMA CleanKeepsOutside ==
  ASSUME NEW c \in Seq(Line)
  PROVE  Outside(RemoveBlock(c)) = Outside(c)
BY RemoveTyped, RemoveAgain DEF Outside

LEMMA OutsideTyped ==
  ASSUME NEW c \in Seq(Line)
  PROVE  /\ Outside(c) \in Seq(Line) /\ Unmarked(Outside(c))
         /\ TrimEnd(Outside(c)) = Outside(c)
<1>1. PICK r \in Seq(Line) : r = RemoveBlock(c) /\ Unmarked(r)
  BY RemoveTyped
<1>2. TrimEnd(r) \in Seq(Line) /\ TrimEnd(TrimEnd(r)) = TrimEnd(r)
  BY TrimTyped, TrimAgain
<1>3. Unmarked(TrimEnd(r))
  BY <1>1, TrimAgain DEF Unmarked
<1> QED
  BY <1>1, <1>2, <1>3 DEF Outside

-----------------------------------------------------------------------------
(* A text with a block at its end. *)

Block(t, names) == t \o <<Start>> \o names \o <<End>>

LEMMA OneLine ==
  ASSUME NEW x \in Line
  PROVE  <<x>> \in Seq(Line) /\ Len(<<x>>) = 1 /\ <<x>>[1] = x
OBVIOUS

LEMMA Joined ==
  ASSUME NEW s \in Seq(Line), NEW t \in Seq(Line), NEW u, u = s \o t
  PROVE  /\ u \in Seq(Line) /\ Len(u) = Len(s) + Len(t)
         /\ Len(s) \in Nat /\ Len(t) \in Nat
         /\ \A i \in 1 .. Len(s) : u[i] = s[i]
         /\ \A i \in 1 .. Len(t) : u[Len(s) + i] = t[i]
OBVIOUS

IsBlock(c, t, names) ==
  /\ c \in Seq(Line) /\ Len(c) = Len(t) + Len(names) + 2
  /\ \A i \in 1 .. Len(t) : c[i] = t[i]
  /\ c[Len(t) + 1] = Start
  /\ \A i \in 1 .. Len(names) : c[Len(t) + 1 + i] = names[i]
  /\ c[Len(t) + Len(names) + 2] = End

LEMMA BlockIs ==
  ASSUME NEW t \in Seq(Line), NEW names \in Seq(Hostnames),
         NEW c, c = Block(t, names)
  PROVE  IsBlock(c, t, names)
<1>1. PICK n : n = names /\ n \in Seq(Line)
  BY Markers, SeqMonotonic
<1>2. PICK s \in Seq(Line) : s = <<Start>> /\ Len(s) = 1 /\ s[1] = Start
  BY Markers, OneLine, Zenon
<1>3. PICK e \in Seq(Line) : e = <<End>> /\ Len(e) = 1 /\ e[1] = End
  BY Markers, OneLine, Zenon
<1>4. PICK a \in Seq(Line) : a = t \o s
  BY <1>1, Joined
<1>5. /\ Len(a) = Len(t) + 1 /\ a[Len(t) + 1] = Start /\ Len(t) \in Nat
      /\ \A i \in 1 .. Len(t) : a[i] = t[i]
  <2>1. /\ Len(a) = Len(t) + Len(s) /\ Len(t) \in Nat
        /\ \A i \in 1 .. Len(t) : a[i] = t[i]
        /\ \A i \in 1 .. Len(s) : a[Len(t) + i] = s[i]
    BY <1>4, Joined
  <2> QED
    BY <1>2, <2>1
<1>6. PICK b \in Seq(Line) : b = a \o n
  BY <1>1, Joined
<1>7. /\ Len(b) = Len(t) + 1 + Len(n) /\ b[Len(t) + 1] = Start /\ Len(n) \in Nat
      /\ \A i \in 1 .. Len(t) : b[i] = t[i]
      /\ \A i \in 1 .. Len(n) : b[Len(t) + 1 + i] = n[i]
  <2>1. /\ Len(b) = Len(a) + Len(n) /\ Len(n) \in Nat
        /\ \A i \in 1 .. Len(a) : b[i] = a[i]
        /\ \A i \in 1 .. Len(n) : b[Len(a) + i] = n[i]
    BY <1>1, <1>6, Joined
  <2>2. Len(t) + 1 \in 1 .. Len(a) /\ \A i \in 1 .. Len(t) : i \in 1 .. Len(a)
    BY <1>5
  <2> QED
    BY <1>5, <2>1, <2>2
<1>8. PICK d \in Seq(Line) : d = b \o e
  BY <1>1, Joined
<1>9. /\ Len(d) = Len(t) + Len(n) + 2 /\ d[Len(t) + Len(n) + 2] = End
      /\ \A i \in 1 .. Len(b) : d[i] = b[i]
  <2>1. /\ Len(d) = Len(b) + Len(e)
        /\ \A i \in 1 .. Len(b) : d[i] = b[i]
        /\ \A i \in 1 .. Len(e) : d[Len(b) + i] = e[i]
    BY <1>8, Joined
  <2>2. Len(b) + 1 = Len(t) + Len(n) + 2
    BY <1>5, <1>7
  <2>3. d[Len(b) + 1] = End
    BY <1>3, <2>1
  <2> QED
    BY <1>3, <1>5, <1>7, <2>1, <2>2, <2>3
<1>10. /\ d[Len(t) + 1] = Start
       /\ \A i \in 1 .. Len(t) : d[i] = t[i]
       /\ \A i \in 1 .. Len(n) : d[Len(t) + 1 + i] = n[i]
  <2>1. /\ Len(t) + 1 \in 1 .. Len(b)
        /\ \A i \in 1 .. Len(t) : i \in 1 .. Len(b)
        /\ \A i \in 1 .. Len(n) : Len(t) + 1 + i \in 1 .. Len(b)
    BY <1>5, <1>7
  <2> QED
    BY <1>7, <1>9, <2>1
<1>11. d = c
  BY <1>1, <1>2, <1>3, <1>4, <1>6, <1>8, Zenon DEF Block
<1> QED
  BY <1>1, <1>9, <1>10, <1>11 DEF IsBlock

(* Its block is taken off again, with nothing else.                           *)
LEMMA BlockComesOff ==
  ASSUME NEW t \in Seq(Line), Unmarked(t), NEW names \in Seq(Hostnames),
         NEW c, c = Block(t, names)
  PROVE  RemoveBlock(c) = IF t = <<>> THEN <<Blank>> ELSE t
<1>1. /\ c \in Seq(Line) /\ Len(c) = Len(t) + Len(names) + 2
      /\ \A i \in 1 .. Len(t) : c[i] = t[i]
      /\ c[Len(t) + 1] = Start
      /\ \A i \in 1 .. Len(names) : c[Len(t) + 1 + i] = names[i]
      /\ c[Len(t) + Len(names) + 2] = End
  <2>1. IsBlock(c, t, names)
    BY BlockIs, Zenon
  <2> QED
    BY <2>1 DEF IsBlock
<1>2. Len(t) \in Nat /\ Len(names) \in Nat /\ DOMAIN c = 1 .. Len(t) + Len(names) + 2
  BY <1>1
<1>3. \A i \in Len(t) + 2 .. Len(t) + Len(names) + 1 : c[i] \in Hostnames
  <2> SUFFICES ASSUME NEW i \in Len(t) + 2 .. Len(t) + Len(names) + 1 PROVE c[i] \in Hostnames
    OBVIOUS
  <2>1. i - Len(t) - 1 \in 1 .. Len(names) /\ Len(t) + 1 + (i - Len(t) - 1) = i
    BY <1>2
  <2>2. c[Len(t) + 1 + (i - Len(t) - 1)] = names[i - Len(t) - 1]
    BY <1>1, <2>1, Zenon
  <2>3. c[i] = names[i - Len(t) - 1]
    BY <2>1, <2>2, Zenon
  <2>4. names[i - Len(t) - 1] \in Hostnames
    BY <2>1
  <2> QED
    BY <2>3, <2>4, Zenon
<1>4. {i \in DOMAIN c : c[i] \notin {Start, End} /\ ~Inside(c, i)} = 1 .. Len(t)
  <2>1. ASSUME NEW i \in 1 .. Len(t)
        PROVE  i \in DOMAIN c /\ c[i] \notin {Start, End} /\ ~Inside(c, i)
    <3>1. ASSUME NEW j \in 1 .. i PROVE c[j] \notin {Start, End}
      <4>1. j \in 1 .. Len(t) /\ j \in DOMAIN t
        BY <1>2
      <4>2. c[j] = t[j]
        BY <1>1, <4>1
      <4> QED
        BY <4>1, <4>2, Zenon DEF Unmarked
    <3> QED
      BY <1>2, <3>1 DEF Inside
  <2>2. ASSUME NEW i \in DOMAIN c, c[i] \notin {Start, End}, ~Inside(c, i)
        PROVE  i \in 1 .. Len(t)
    <3> SUFFICES ASSUME i > Len(t) PROVE FALSE
      BY <1>2
    <3>1. i \in Len(t) + 2 .. Len(t) + Len(names) + 1
      <4>1. i # Len(t) + 1 /\ i # Len(t) + Len(names) + 2
        BY <1>1, <2>2, Zenon
      <4> QED
        BY <1>2, <4>1
    <3>2. \A k \in Len(t) + 1 .. i : c[k] # End
      <4> SUFFICES ASSUME NEW k \in Len(t) + 1 .. i PROVE c[k] # End
        OBVIOUS
      <4>1. CASE k = Len(t) + 1
        BY <1>1, <4>1, Markers
      <4>2. CASE k # Len(t) + 1
        BY <1>2, <1>3, <3>1, <4>2, Markers
      <4> QED
        BY <4>1, <4>2
    <3>3. Len(t) + 1 \in 1 .. i
      BY <1>2, <3>1
    <3> QED
      BY <1>1, <2>2, <3>2, <3>3 DEF Inside
  <2> QED
    BY <2>1, <2>2, Zenon
<1>5. Kept(c, 1 .. Len(t)) = t
  <2>1. Kept(c, 1 .. Len(t)) = SubSeq(c, 1, Len(t))
    <3>1. 1 \in 1 .. Len(c) + 1 /\ Len(t) \in 1 - 1 .. Len(c)
      BY <1>1, <1>2
    <3> QED
      BY <1>1, <3>1, KeptInterval, Zenon
  <2>2. SubSeq(c, 1, Len(t)) \in Seq(Line) /\ Len(SubSeq(c, 1, Len(t))) = Len(t)
        /\ \A i \in 1 .. Len(t) : SubSeq(c, 1, Len(t))[i] = t[i]
    BY <1>1, <1>2
  <2>3. SubSeq(c, 1, Len(t)) = t
    BY <2>2, SeqEqual
  <2> QED
    BY <2>1, <2>3
<1>6. c # <<>>
  BY <1>1, <1>2
<1> QED
  BY <1>4, <1>5, <1>6 DEF RemoveBlock

(* A sync leaves the lines outside the block.                                 *)
LEMMA SyncKeepsOutside ==
  ASSUME NEW c \in Seq(Line), NEW names \in Seq(Hostnames)
  PROVE  /\ WithBlock(c, names) \in Seq(Line)
         /\ Outside(WithBlock(c, names)) = Outside(c)
<1>1. PICK t \in Seq(Line) : t = Outside(c) /\ Unmarked(t) /\ TrimEnd(t) = t
  BY OutsideTyped
<1>2. WithBlock(c, names) = Block(t, names)
  BY <1>1, Zenon DEF WithBlock, Outside, Block
<1>3. RemoveBlock(WithBlock(c, names)) = IF t = <<>> THEN <<Blank>> ELSE t
  BY <1>1, <1>2, BlockComesOff
<1>4. WithBlock(c, names) \in Seq(Line)
  <2>1. IsBlock(WithBlock(c, names), t, names)
    BY <1>1, <1>2, BlockIs, Zenon
  <2> QED
    BY <2>1 DEF IsBlock
<1> QED
  BY <1>1, <1>3, <1>4, TrimBlank DEF Outside

(* get_managed_hostnames then lists what was synced.                          *)
LEMMA SyncTakes ==
  ASSUME NEW c \in Seq(Line), NEW names \in Seq(Hostnames)
  PROVE  Managed(WithBlock(c, names)) = names
<1>1. PICK t \in Seq(Line) : t = Outside(c) /\ Unmarked(t)
  BY OutsideTyped
<1>2. PICK b : b = WithBlock(c, names)
  OBVIOUS
<1>3. b = Block(t, names)
  BY <1>1, <1>2, Zenon DEF WithBlock, Outside, Block
<1>4. /\ b \in Seq(Line) /\ Len(b) = Len(t) + Len(names) + 2
      /\ \A i \in 1 .. Len(t) : b[i] = t[i]
      /\ b[Len(t) + 1] = Start
      /\ \A i \in 1 .. Len(names) : b[Len(t) + 1 + i] = names[i]
      /\ b[Len(t) + Len(names) + 2] = End
  <2>1. IsBlock(b, t, names)
    BY <1>1, <1>3, BlockIs, Zenon
  <2> QED
    BY <2>1 DEF IsBlock
<1>5. Len(t) \in Nat /\ Len(names) \in Nat /\ DOMAIN b = 1 .. Len(t) + Len(names) + 2
  BY <1>4
<1>6. HasBlock(b)
  BY <1>4, <1>5 DEF HasBlock
<1>7. \A i \in Len(t) + 2 .. Len(t) + Len(names) + 1 : b[i] \in Hostnames
  <2> SUFFICES ASSUME NEW i \in Len(t) + 2 .. Len(t) + Len(names) + 1 PROVE b[i] \in Hostnames
    OBVIOUS
  <2>0. PICK a \in Nat, n \in Nat : a = Len(t) /\ n = Len(names) /\ i \in a + 2 .. a + n + 1
    BY <1>5, Zenon
  <2>1. PICK k \in 1 .. Len(names) : Len(t) + 1 + k = i
    <3>1. i - a - 1 \in 1 .. n /\ a + 1 + (i - a - 1) = i
      BY <2>0
    <3> QED
      BY <2>0, <3>1, Zenon
  <2>2. b[Len(t) + 1 + k] = names[k]
    BY <1>4, <2>1, Zenon
  <2>3. names[k] \in Hostnames
    BY <2>1, ElementOfSeq, Zenon
  <2> QED
    BY <2>1, <2>2, <2>3, Zenon
<1>8. {i \in DOMAIN b : /\ b[i] \in Hostnames
                        /\ \E j \in 1 .. i : b[j] = Start
                        /\ \A j \in 1 .. i : b[j] # End}
      = Len(t) + 2 .. Len(t) + Len(names) + 1
  <2>1. ASSUME NEW i \in Len(t) + 2 .. Len(t) + Len(names) + 1
        PROVE  /\ i \in DOMAIN b /\ b[i] \in Hostnames
               /\ \E j \in 1 .. i : b[j] = Start
               /\ \A j \in 1 .. i : b[j] # End
    <3>1. i \in DOMAIN b /\ Len(t) + 1 \in 1 .. i
      BY <1>5
    <3>2. ASSUME NEW j \in 1 .. i PROVE b[j] # End
      <4>1. CASE j <= Len(t)
        <5>1. j \in DOMAIN t /\ b[j] = t[j]
          BY <1>4, <1>5, <4>1
        <5> QED
          BY <1>1, <5>1 DEF Unmarked
      <4>2. CASE j = Len(t) + 1
        BY <1>4, <4>2, Markers
      <4>3. CASE j > Len(t) + 1
        BY <1>5, <1>7, <4>3, Markers
      <4> QED
        BY <1>5, <4>1, <4>2, <4>3
    <3> QED
      BY <1>4, <1>7, <3>1, <3>2
  <2>2. ASSUME NEW i \in DOMAIN b, b[i] \in Hostnames, NEW j \in 1 .. i, b[j] = Start
        PROVE  i \in Len(t) + 2 .. Len(t) + Len(names) + 1
    <3>1. j > Len(t)
      <4> SUFFICES ASSUME j <= Len(t) PROVE FALSE
        BY <1>5
      <4>1. j \in DOMAIN t /\ b[j] = t[j]
        BY <1>4, <1>5
      <4> QED
        BY <1>1, <2>2, <4>1 DEF Unmarked
    <3>2. i # Len(t) + 1 /\ i # Len(t) + Len(names) + 2
      BY <1>4, <2>2, Markers
    <3> QED
      BY <1>5, <2>2, <3>1, <3>2
  <2> QED
    BY <2>1, <2>2, Zenon
<1>9. Kept(b, Len(t) + 2 .. Len(t) + Len(names) + 1) = names
  <2>1. Kept(b, Len(t) + 2 .. Len(t) + Len(names) + 1)
        = SubSeq(b, Len(t) + 2, Len(t) + Len(names) + 1)
    <3>1. /\ Len(t) + 2 \in 1 .. Len(b) + 1
          /\ Len(t) + Len(names) + 1 \in (Len(t) + 2) - 1 .. Len(b)
      BY <1>4, <1>5
    <3> QED
      BY <1>4, <3>1, KeptInterval
  <2>2. PICK s : s = SubSeq(b, Len(t) + 2, Len(t) + Len(names) + 1)
    OBVIOUS
  <2>3. s \in Seq(Line) /\ Len(s) = Len(names) /\ \A i \in 1 .. Len(names) : s[i] = b[Len(t) + 1 + i]
    BY <1>4, <1>5, <2>2
  <2>4. names \in Seq(Line)
    BY Markers, SeqMonotonic
  <2>5. \A i \in 1 .. Len(names) : s[i] = names[i]
    BY <1>4, <2>3
  <2>6. s = names
    BY <2>3, <2>4, <2>5, SeqEqual
  <2> QED
    BY <2>1, <2>2, <2>6
<1> QED
  BY <1>2, <1>6, <1>8, <1>9, Zenon DEF Managed

LEMMA NothingManaged ==
  ASSUME NEW c \in Seq(Line), Unmarked(c)
  PROVE  Managed(c) = <<>>
BY DEF Unmarked, Managed, HasBlock


-----------------------------------------------------------------------------
(* What has been synced, or cleaned, is there. *)
Closed(c) == HasBlock(c) \/ \A i \in DOMAIN c : c[i] # Start

Fits(c, j) == /\ Managed(c) = IF j = None THEN <<>> ELSE j
              /\ j = None => Unmarked(c)

Busy(p) == at[p] # "idle"
Good(c) == Outside(c) = Outside(original)

(* The shape of the state.  A file that is open under the temporary name is   *)
(* there, and what is to be written fits its job, whatever the file was.      *)
Shape ==
  /\ original \in Seq(Line) /\ hosts \in Seq(Line) /\ tmp \in Seq(Line) \cup {None}
  /\ mounted \in BOOLEAN /\ died \in BOOLEAN
  /\ at \in [Procs -> {"idle", "create", "write", "rename", "truncate", "rewrite"}]
  /\ new \in [Procs -> Seq(Line)] /\ job \in [Procs -> Synced \cup {None}]
  /\ fd \in [Procs -> {None, "tmp", "hosts", "gone"}]
  /\ crowd \in Nat /\ most \in Nat

Sound ==
  \A p \in Procs :
    /\ fd[p] = "tmp" => tmp # None
    /\ Busy(p) => Closed(new[p]) /\ Fits(new[p], job[p])

(* As many as run at once have begun since none ran.                          *)
Counted ==
  /\ crowd <= most
  /\ \A p \in Procs : Busy(p) => crowd >= 1
  /\ \A p, q \in Procs : Busy(p) /\ Busy(q) /\ p # q => crowd >= 2
  /\ \A p, q, r \in Procs :
       Busy(p) /\ Busy(q) /\ Busy(r) /\ p # q /\ p # r /\ q # r => crowd >= 3

(* A process that runs alone. *)
Alone(p) ==
  /\ at[p] \in {"idle", "create"} => fd[p] = None
  /\ at[p] = "write" => fd[p] = "tmp" /\ tmp = <<>>
  /\ at[p] = "rename" => fd[p] = None /\ tmp = new[p]
  /\ at[p] = "truncate" => fd[p] = None /\ mounted
  /\ at[p] = "rewrite" => fd[p] = "hosts" /\ hosts = <<>> /\ mounted
  /\ at[p] # "rewrite" /\ Busy(p) => Good(hosts)
  /\ Busy(p) => Good(new[p])

OneAtOnce ==
  most <= 1 /\ (mounted => ~died) =>
    /\ AllIdle => Good(hosts)
    /\ \A p \in Procs : Alone(p)

(* One of two that have begun at once: as long as none has returned; and when *)
(* the other one is idle or has not touched the temporary file yet.           *)
First(p) ==
  /\ at[p] \in {"create", "write", "rename"} /\ fd[p] \in {None, "tmp"}
  /\ at[p] = "write" => fd[p] = "tmp"
  /\ at[p] # "create" => tmp # None

LeftOver(p) ==
  /\ at[p] = "create" => Good(hosts)
  /\ at[p] = "write" => \/ fd[p] = "tmp" /\ tmp = <<>>
                        \/ fd[p] = "hosts" /\ tmp = None
  /\ at[p] = "rename" => tmp \in {None, new[p]}
  /\ at[p] = "rewrite" => hosts = <<>> /\ fd[p] = "hosts"

TwoAtOnce ==
  most <= 2 /\ ~mounted /\ ~died =>
    /\ AllIdle => Good(hosts)
    /\ \A p \in Procs : /\ Busy(p) => Good(new[p])
                        /\ at[p] \notin {"write", "rewrite"} => fd[p] = None
    /\ \A p \in Procs : Busy(p) /\ crowd = 1 => First(p) /\ Good(hosts)
    /\ \A p, q \in Procs : Busy(p) /\ Busy(q) /\ p # q => First(p) /\ Good(hosts)
    /\ \A p \in Procs :
         Busy(p) /\ (\A q \in Procs \ {p} : at[q] \in {"idle", "create"}) => LeftOver(p)

(* The hosts file fits what was done last.                                    *)
LastFits ==
  most <= 1 /\ ~died /\ AllIdle =>
    Closed(hosts) /\ (last # <<>> => Fits(hosts, last))

LEMMA SubTyped ==
  ASSUME NEW S, NEW d \in Seq(S), NEW m \in 1 .. Len(d) + 1, NEW n \in m - 1 .. Len(d)
  PROVE  SubSeq(d, m, n) \in Seq(S)
BY SubSeqProperties

LEMMA OverTyped ==
  ASSUME NEW c \in Seq(Line), NEW d \in Seq(Line)
  PROVE  Over(c, d) \in Seq(Line) /\ Over(c, <<>>) = c
<1>1. Len(c) \in Nat /\ Len(d) \in Nat
  OBVIOUS
<1>2. PICK s \in Seq(Line) : s = SubSeq(d, Len(c) + 1, Len(d))
  <2>1. CASE Len(c) <= Len(d)
    <3>1. Len(c) + 1 \in 1 .. Len(d) + 1 /\ Len(d) \in (Len(c) + 1) - 1 .. Len(d)
      BY <1>1, <2>1
    <3> QED
      BY <3>1, SubTyped, Zenon
  <2>2. CASE Len(c) > Len(d)
    <3>1. Len(c) + 1 \in Int /\ Len(d) \in Int /\ Len(c) + 1 > Len(d)
      BY <1>1, <2>2
    <3>2. SubSeq(d, Len(c) + 1, Len(d)) = <<>>
      BY <3>1, SubSeqEmpty, Zenon
    <3>3. <<>> \in Seq(Line)
      OBVIOUS
    <3> QED
      BY <3>2, <3>3, Zenon
  <2> QED
    BY <1>1, <2>1, <2>2
<1>3. c \o s \in Seq(Line)
  OBVIOUS
<1>4. SubSeq(<<>>, Len(c) + 1, 0) = <<>>
  BY <1>1
<1>5. c \o <<>> = c
  OBVIOUS
<1> QED
  BY <1>2, <1>3, <1>4, <1>5, Zenon DEF Over

LEMMA PartTyped ==
  ASSUME NEW c \in Seq(Line), NEW n \in 0 .. Len(c)
  PROVE  SubSeq(c, 1, n) \in Seq(Line)
OBVIOUS

LEMMA NotNone == /\ \A c \in Seq(Line) : c # None
                 /\ None # "tmp" /\ None # "hosts" /\ None # "gone" /\ <<>> \in Seq(Line)
                 /\ \A j \in Synced : j # None /\ j \in Seq(Hostnames) /\ j # <<>>
<1>1. \A j \in Synced : j \in Seq(Line) /\ j \in Seq(Hostnames)
  BY HostsAssumption, Markers, SeqMonotonic
<1> QED
  BY <1>1, HostsAssumption

(* What a command is about to write. *)
Content(c, names) == IF names = None THEN RemoveBlock(c) ELSE WithBlock(c, names)

LEMMA ContentIs ==
  ASSUME NEW c \in Seq(Line), NEW names \in Synced \cup {None}
  PROVE  /\ Content(c, names) \in Seq(Line) /\ Outside(Content(c, names)) = Outside(c)
         /\ Closed(Content(c, names)) /\ Fits(Content(c, names), names)
<1>1. CASE names = None
  <2>1. PICK r \in Seq(Line) : r = RemoveBlock(c) /\ Unmarked(r)
    BY RemoveTyped
  <2>2. Managed(r) = <<>>
    BY <2>1, NothingManaged
  <2>3. Closed(r)
    BY <2>1 DEF Closed, Unmarked
  <2>4. Outside(r) = Outside(c)
    BY <2>1, CleanKeepsOutside
  <2>5. Content(c, names) = r
    BY <1>1, <2>1 DEF Content
  <2> QED
    BY <1>1, <2>1, <2>2, <2>3, <2>4, <2>5 DEF Fits
<1>2. CASE names # None
  <2>1. names \in Seq(Hostnames)
    BY <1>2, NotNone
  <2>2. PICK w \in Seq(Line) : w = WithBlock(c, names) /\ Outside(w) = Outside(c)
    BY <2>1, SyncKeepsOutside
  <2>3. Managed(w) = names
    BY <2>1, <2>2, SyncTakes
  <2>4. HasBlock(w)
    <3>1. names # <<>>
      BY <1>2, NotNone
    <3> QED
      BY <2>3, <3>1 DEF Managed
  <2>5. Content(c, names) = w
    BY <1>2, <2>2 DEF Content
  <2> QED
    BY <1>2, <2>2, <2>3, <2>4, <2>5 DEF Fits, Closed
<1> QED
  BY <1>1, <1>2

(* Read, with what it is about to write by name. *)
LEMMA ReadIs ==
  ASSUME Shape, NEW p \in Procs, NEW names \in Synced \cup {None}, Read(p, names)
  PROVE  /\ ~Busy(p) /\ UNCHANGED <<original, mounted, hosts, tmp, fd, died>>
         /\ crowd' = IF AllIdle THEN 1 ELSE crowd + 1
         /\ most' \in Nat /\ crowd' <= most' /\ most <= most' /\ crowd' \in Nat
         /\ \/ names = None /\ ~HasBlock(hosts) /\ last' = None /\ UNCHANGED <<at, job, new>>
            \/ /\ at' = [at EXCEPT ![p] = "create"] /\ job' = [job EXCEPT ![p] = names]
               /\ new' = [new EXCEPT ![p] = Content(hosts, names)] /\ UNCHANGED last
BY DEF Read, Shape, Goto, Busy, Content

LEMMA ShapeInit == Init => Shape
<1> SUFFICES ASSUME Init PROVE Shape
  OBVIOUS
<1>1. <<>> \in Seq(Line) /\ original \in Seq(Line)
  BY HostsAssumption, NotNone DEF Init
<1> QED
  BY <1>1 DEF Init, Shape

LEMMA ShapeNext ==
  ASSUME Shape, Sound, [Next]_vars
  PROVE  Shape'
<1>0. <<>> \in Seq(Line)
  BY NotNone
<1>1. ASSUME NEW p \in Procs, NEW names \in Synced \cup {None}, Read(p, names)
      PROVE  Shape'
  <2>1. Content(hosts, names) \in Seq(Line)
    BY ContentIs DEF Shape
  <2>2. PICK n \in Seq(Line) : n = Content(hosts, names)
    BY <2>1
  <2>3. \/ UNCHANGED <<at, job, new>>
        \/ /\ at' = [at EXCEPT ![p] = "create"] /\ job' = [job EXCEPT ![p] = names]
           /\ new' = [new EXCEPT ![p] = n]
    BY <1>1, <2>2, ReadIs
  <2>4. /\ UNCHANGED <<original, mounted, hosts, tmp, fd, died>>
        /\ most' \in Nat /\ crowd' \in Nat
    BY <1>1, ReadIs
  <2> QED
    BY <2>3, <2>4, ZenonT(30) DEF Shape
<1>2. ASSUME NEW p \in Procs, Create(p) PROVE Shape'
  BY <1>0, <1>2 DEF Shape, Create, Goto
<1>3. ASSUME NEW p \in Procs, NEW c \in Seq(Line), Put(p, c)
      PROVE  hosts' \in Seq(Line) /\ tmp' \in Seq(Line) \cup {None}
  <2>1. fd[p] = "tmp" => tmp \in Seq(Line)
    BY DEF Sound, Shape
  <2>2. hosts \in Seq(Line) /\ tmp \in Seq(Line) \cup {None}
    BY DEF Shape
  <2> QED
    BY <1>3, <2>1, <2>2, OverTyped DEF Put
<1>4. ASSUME NEW p \in Procs, Write(p) PROVE Shape'
  <2>1. hosts' \in Seq(Line) /\ tmp' \in Seq(Line) \cup {None}
    BY <1>3, <1>4 DEF Write, Shape
  <2> QED
    BY <1>0, <1>4, <2>1, ZenonT(30) DEF Shape, Write, Goto, Return
<1>5. ASSUME NEW p \in Procs, Rename(p) PROVE Shape'
  BY <1>0, <1>5 DEF Shape, Rename, Goto, Return, Moved
<1>6. ASSUME NEW p \in Procs, RenameFails(p) PROVE Shape'
  BY <1>6 DEF Shape, RenameFails, Goto, Moved
<1>7. ASSUME NEW p \in Procs, Truncate(p) PROVE Shape'
  BY <1>0, <1>7 DEF Shape, Truncate, Goto
<1>8. ASSUME NEW p \in Procs, Crash(p) PROVE Shape'
  <2>1. hosts' \in Seq(Line) /\ tmp' \in Seq(Line) \cup {None}
    BY <1>3, <1>8, PartTyped DEF Crash, Shape
  <2> QED
    BY <1>0, <1>8, <2>1 DEF Shape, Crash, Goto
<1>9. CASE UNCHANGED vars
  BY <1>9 DEF Shape, vars
<1> QED
  BY <1>1, <1>2, <1>4, <1>5, <1>6, <1>7, <1>8, <1>9 DEF Next

LEMMA SoundNext ==
  ASSUME Shape, Sound, [Next]_vars
  PROVE  Sound'
<1>1. ASSUME NEW p \in Procs, NEW names \in Synced \cup {None}, Read(p, names)
      PROVE  Sound'
  <2>1. PICK n : n = Content(hosts, names) /\ Closed(n) /\ Fits(n, names)
    BY ContentIs DEF Shape
  <2>2. UNCHANGED <<fd, tmp>>
    BY <1>1, ReadIs
  <2>3. CASE UNCHANGED <<at, job, new>>
    BY <2>2, <2>3 DEF Sound, Busy
  <2>4. CASE /\ at' = [at EXCEPT ![p] = "create"] /\ job' = [job EXCEPT ![p] = names]
             /\ new' = [new EXCEPT ![p] = n]
    <3>1. \A q \in Procs : q # p => at'[q] = at[q] /\ job'[q] = job[q] /\ new'[q] = new[q]
      BY <2>4 DEF Shape
    <3>2. new'[p] = n /\ job'[p] = names
      BY <2>4 DEF Shape
    <3> QED
      BY <2>1, <2>2, <3>1, <3>2, Zenon DEF Sound, Busy
  <2> QED
    BY <1>1, <2>1, <2>3, <2>4, ReadIs
<1>2. ASSUME NEW p \in Procs, Create(p) PROVE Sound'
  <2>1. <<>> # None
    BY NotNone
  <2>2. \A q \in Procs : Busy(q)' => Busy(q)
    BY <1>2 DEF Shape, Create, Goto, Busy
  <2>3. UNCHANGED <<new, job>> /\ tmp' = <<>>
    BY <1>2 DEF Create
  <2> QED
    BY <2>1, <2>2, <2>3, Zenon DEF Sound
<1>3. ASSUME NEW p \in Procs, Put(p, new[p]) \/ \E n \in 0 .. Len(new[p]) : Put(p, SubSeq(new[p], 1, n))
      PROVE  \A q \in Procs : fd[q] = "tmp" => tmp' # None
  <2>1. PICK c \in Seq(Line) : Put(p, c)
    BY <1>3, PartTyped DEF Shape
  <2>2. ASSUME NEW q \in Procs, fd[q] = "tmp" PROVE tmp' # None
    <3>1. tmp \in Seq(Line)
      BY <2>2 DEF Sound, Shape
    <3>2. Over(c, tmp) \in Seq(Line)
      BY <3>1, OverTyped
    <3> QED
      BY <2>1, <3>1, <3>2, NotNone DEF Put
  <2> QED
    BY <2>2
<1>4. ASSUME NEW p \in Procs, Write(p) \/ Crash(p) PROVE Sound'
  <2>1. \A q \in Procs : fd[q] = "tmp" => tmp' # None
    BY <1>3, <1>4 DEF Write, Crash
  <2>2. fd' = [fd EXCEPT ![p] = None]
    BY <1>4 DEF Write, Crash
  <2>3. \A q \in Procs : fd'[q] = "tmp" => fd[q] = "tmp"
    BY <2>2, NotNone DEF Shape
  <2>4. \A q \in Procs : Busy(q)' => Busy(q) /\ new'[q] = new[q] /\ job'[q] = job[q]
    BY <1>4 DEF Shape, Write, Crash, Goto, Return, Busy
  <2> QED
    BY <2>1, <2>3, <2>4, Zenon DEF Sound
<1>5. ASSUME NEW p \in Procs, Rename(p) \/ RenameFails(p) \/ Truncate(p) PROVE Sound'
  <2>1. \A q \in Procs : fd'[q] = "tmp" => fd[q] = "tmp" /\ tmp' = tmp
    BY <1>5, NotNone DEF Shape, Rename, RenameFails, Truncate, Moved
  <2>2. \A q \in Procs : Busy(q)' => Busy(q) /\ new'[q] = new[q] /\ job'[q] = job[q]
    BY <1>5 DEF Shape, Rename, RenameFails, Truncate, Goto, Return, Busy
  <2> QED
    BY <2>1, <2>2, Zenon DEF Sound
<1>6. CASE UNCHANGED vars
  BY <1>6 DEF Sound, Busy, vars
<1> QED
  BY <1>1, <1>2, <1>4, <1>5, <1>6 DEF Next

LEMMA CountedNext ==
  ASSUME Shape, Counted, [Next]_vars
  PROVE  Counted'
<1>1. ASSUME NEW p \in Procs, NEW names \in Synced \cup {None}, Read(p, names)
      PROVE  Counted'
  <2>1. /\ ~Busy(p) /\ crowd' <= most' /\ crowd \in Nat
        /\ crowd' = IF AllIdle THEN 1 ELSE crowd + 1
        /\ \A q \in Procs : q # p => (Busy(q)' <=> Busy(q))
    BY <1>1, ReadIs DEF Shape, Busy
  <2>2. AllIdle <=> \A q \in Procs : ~Busy(q)
    BY DEF AllIdle, Busy
  <2>3. \E q \in Procs : Busy(q) => crowd' >= 2
    BY <2>1, <2>2 DEF Counted
  <2>4. CASE AllIdle
    BY <2>1, <2>2, <2>4 DEF Counted
  <2>5. CASE ~AllIdle
    BY <2>1, <2>2, <2>5 DEF Counted
  <2> QED
    BY <2>4, <2>5
<1>2. CASE (\E p \in Procs : Create(p) \/ Write(p) \/ Rename(p) \/ RenameFails(p)
                             \/ Truncate(p) \/ Crash(p)) \/ UNCHANGED vars
  <2>1. UNCHANGED <<crowd, most>>
    BY <1>2 DEF Create, Write, Rename, RenameFails, Truncate, Crash, vars
  <2>2. \A q \in Procs : Busy(q)' => Busy(q)
    BY <1>2 DEF Create, Write, Rename, RenameFails, Truncate, Crash, vars, Goto, Return, Shape, Busy
  <2> QED
    BY <2>1, <2>2, Zenon DEF Counted
<1> QED
  BY <1>1, <1>2 DEF Next

-----------------------------------------------------------------------------
(* One at a time. *)

LEMMA AloneThen ==
  ASSUME Shape, Counted, most <= 1, NEW p \in Procs, Busy(p)
  PROVE  \A q \in Procs : q # p => at[q] = "idle"
BY DEF Shape, Counted, Busy

LEMMA ReadAlone ==
  ASSUME Shape, Counted, NEW p \in Procs, NEW names \in Synced \cup {None}, Read(p, names),
         most' <= 1
  PROVE  AllIdle /\ most <= 1
<1>1. crowd' <= 1 /\ most <= 1 /\ crowd \in Nat /\ crowd' = IF AllIdle THEN 1 ELSE crowd + 1
  BY ReadIs DEF Shape
<1>2. ~AllIdle => crowd >= 1
  BY DEF Counted, AllIdle, Busy
<1> QED
  BY <1>1, <1>2

(* What the ways of leaving do. *)
LEMMA WriteIs ==
  ASSUME Shape, NEW p \in Procs, at[p] = "write", Write(p)
  PROVE  /\ at' = [at EXCEPT ![p] = "rename"] /\ fd' = [fd EXCEPT ![p] = None]
         /\ Put(p, new[p]) /\ UNCHANGED <<original, mounted, died, job, new, last, crowd, most>>
BY DEF Write, Goto

LEMMA RewriteIs ==
  ASSUME Shape, NEW p \in Procs, at[p] = "rewrite", Write(p)
  PROVE  /\ at' = [at EXCEPT ![p] = "idle"] /\ fd' = [fd EXCEPT ![p] = None]
         /\ new' = [new EXCEPT ![p] = <<>>] /\ last' = job[p]
         /\ Put(p, new[p]) /\ UNCHANGED <<original, mounted, died, crowd, most>>
BY DEF Write, Goto, Return

LEMMA OneNext ==
  ASSUME Shape, Sound, Counted, OneAtOnce, [Next]_vars
  PROVE  OneAtOnce'
<1> SUFFICES ASSUME most' <= 1, mounted' => ~died'
             PROVE  (AllIdle => Good(hosts))' /\ \A q \in Procs : Alone(q)'
  BY DEF OneAtOnce
<1>0. /\ original' = original /\ mounted' = mounted /\ most \in Nat /\ most <= most'
      /\ (died => died') /\ died \in BOOLEAN
  <2>1. ASSUME NEW p \in Procs, NEW names \in Synced \cup {None}, Read(p, names)
        PROVE  /\ original' = original /\ mounted' = mounted /\ most <= most' /\ died' = died
    BY <2>1, ReadIs
  <2> QED
    BY <2>1 DEF Next, Create, Write, Rename, RenameFails, Truncate, Crash, vars, Shape
<1>1. most <= 1 /\ (mounted => ~died)
  <2>1. most <= 1
    BY <1>0, ShapeNext DEF Shape
  <2>2. mounted => ~died
    BY <1>0, Zenon
  <2> QED
    BY <2>1, <2>2
<1>2. (AllIdle => Good(hosts)) /\ \A q \in Procs : Alone(q)
  BY <1>1 DEF OneAtOnce
<1>4. ASSUME NEW p \in Procs, NEW names \in Synced \cup {None}, Read(p, names)
      PROVE  (AllIdle => Good(hosts))' /\ \A q \in Procs : Alone(q)'
  <2>1. AllIdle
    BY <1>4, ReadAlone
  <2>2. Good(hosts) /\ UNCHANGED <<original, mounted, hosts, tmp, fd>>
    BY <1>2, <1>4, <2>1, ReadIs
  <2>3. \A q \in Procs : at[q] = "idle" /\ fd[q] = None
    BY <1>2, <2>1 DEF AllIdle, Alone
  <2>4. PICK n : n = Content(hosts, names) /\ Good(n)
    BY <2>2, ContentIs DEF Good, Shape
  <2>5. CASE UNCHANGED <<at, job, new>>
    BY <2>2, <2>3, <2>5 DEF Good, Alone, Busy
  <2>6. CASE at' = [at EXCEPT ![p] = "create"] /\ new' = [new EXCEPT ![p] = n]
    <3>1. /\ \A q \in Procs : at'[q] \in {"idle", "create"} /\ fd'[q] = None
          /\ \A q \in Procs : at'[q] # "idle" => new'[q] = n
      BY <2>2, <2>3, <2>6 DEF Shape
    <3>2. Good(hosts)'
      BY <1>0, <2>2, Zenon DEF Good
    <3>3. ASSUME NEW q \in Procs, at'[q] # "idle" PROVE Good(new[q])'
      BY <1>0, <2>4, <3>1, <3>3, Zenon DEF Good
    <3> QED
      BY <3>1, <3>2, <3>3 DEF Alone, Busy
  <2> QED
    BY <1>4, <2>4, <2>5, <2>6, ReadIs
<1>5. ASSUME NEW p \in Procs, Busy(p)
      PROVE  /\ \A q \in Procs : q # p => at[q] = "idle" /\ fd[q] = None
             /\ Alone(p) /\ Good(new[p])
  BY <1>1, <1>2, <1>5, AloneThen DEF Alone
<1>6. ASSUME NEW p \in Procs, Create(p)
      PROVE  (AllIdle => Good(hosts))' /\ \A q \in Procs : Alone(q)'
  <2>1. at[p] = "create" /\ Good(hosts)
    BY <1>5, <1>6 DEF Create, Busy, Alone
  <2>2. \A q \in Procs : q # p => at'[q] = "idle" /\ fd'[q] = None
    BY <1>5, <1>6, <2>1 DEF Create, Busy, Goto, Shape
  <2>3. /\ at'[p] = "write" /\ fd'[p] = "tmp" /\ tmp' = <<>> /\ new' = new /\ hosts' = hosts
    BY <1>6 DEF Create, Goto, Shape
  <2>4. Good(hosts)' /\ Good(new[p])'
    BY <1>0, <1>5, <2>1, <2>3 DEF Good, Busy
  <2>5. Alone(p)'
    BY <2>3, <2>4 DEF Alone, Busy, Good
  <2>6. \A q \in Procs : q # p => Alone(q)'
    BY <2>2 DEF Alone, Busy
  <2> QED
    BY <2>4, <2>5, <2>6
<1>7. ASSUME NEW p \in Procs, Write(p), at[p] = "write"
      PROVE  (AllIdle => Good(hosts))' /\ \A q \in Procs : Alone(q)'
  <2>1. /\ Good(hosts) /\ fd[p] = "tmp" /\ tmp = <<>> /\ new[p] \in Seq(Line) /\ Good(new[p])
    BY <1>5, <1>7 DEF Busy, Alone, Shape
  <2>2. \A q \in Procs : q # p => at'[q] = "idle" /\ fd'[q] = None
    BY <1>5, <1>7, WriteIs DEF Busy, Shape
  <2>3. at'[p] = "rename" /\ fd'[p] = None /\ new' = new
    BY <1>7, WriteIs DEF Shape
  <2>4. tmp' = new[p] /\ hosts' = hosts
    <3>1. Over(new[p], tmp) = new[p]
      BY <2>1, OverTyped
    <3> QED
      BY <1>7, <2>1, <3>1, WriteIs DEF Put
  <2>5. Good(hosts)' /\ Good(new[p])'
    BY <1>0, <2>1, <2>3, <2>4 DEF Good
  <2>6. Alone(p)'
    BY <2>3, <2>4, <2>5 DEF Alone, Busy, Good
  <2>7. \A q \in Procs : q # p => Alone(q)'
    BY <2>2 DEF Alone, Busy
  <2> QED
    BY <2>5, <2>6, <2>7
<1>8. ASSUME NEW p \in Procs, Write(p), at[p] = "rewrite"
      PROVE  (AllIdle => Good(hosts))' /\ \A q \in Procs : Alone(q)'
  <2>1. /\ hosts = <<>> /\ fd[p] = "hosts" /\ new[p] \in Seq(Line) /\ Good(new[p])
    BY <1>5, <1>8 DEF Busy, Alone, Shape
  <2>0. \A q \in Procs : q # p => at[q] = "idle" /\ fd[q] = None
    BY <1>5, <1>8 DEF Busy
  <2>2. \A q \in Procs : at'[q] = "idle" /\ fd'[q] = None
    <3>1. at' = [at EXCEPT ![p] = "idle"] /\ fd' = [fd EXCEPT ![p] = None]
      BY <1>8, RewriteIs, Zenon
    <3> QED
      BY <2>0, <3>1 DEF Shape
  <2>3. hosts' = new[p]
    BY <1>8, <2>1, RewriteIs, OverTyped DEF Put
  <2> QED
    BY <1>0, <2>1, <2>2, <2>3 DEF Alone, Busy, Good
<1>9. ASSUME NEW p \in Procs, Rename(p)
      PROVE  (AllIdle => Good(hosts))' /\ \A q \in Procs : Alone(q)'
  <2>1. at[p] = "rename" /\ fd[p] = None /\ tmp = new[p] /\ Good(new[p])
    BY <1>5, <1>9 DEF Rename, Busy, Alone
  <2>2. \A q \in Procs : fd[q] = None /\ (q # p => at[q] = "idle")
    BY <1>5, <2>1 DEF Busy
  <2>3. \A q \in Procs : at'[q] = "idle" /\ fd'[q] = None
    BY <1>9, <2>2, NotNone DEF Rename, Return, Goto, Moved, Shape
  <2>4. hosts' = new[p]
    BY <1>9, <2>1 DEF Rename
  <2> QED
    BY <1>0, <2>1, <2>3, <2>4 DEF Alone, Busy, Good
<1>10. ASSUME NEW p \in Procs, RenameFails(p)
      PROVE  (AllIdle => Good(hosts))' /\ \A q \in Procs : Alone(q)'
  <2>1. /\ at[p] = "rename" /\ fd[p] = None /\ tmp = new[p] /\ Good(new[p]) /\ Good(hosts)
        /\ new[p] \in Seq(Line)
    BY <1>5, <1>10 DEF RenameFails, Busy, Alone, Shape
  <2>2. \A q \in Procs : fd[q] = None /\ (q # p => at[q] = "idle")
    BY <1>5, <2>1 DEF Busy
  <2>3. mounted
    BY <1>10, <2>1, NotNone DEF RenameFails
  <2>4. \A q \in Procs : fd'[q] = None /\ (q # p => at'[q] = "idle")
    BY <1>10, <2>2, NotNone DEF RenameFails, Goto, Moved, Shape
  <2>5. at'[p] = "truncate" /\ hosts' = hosts /\ new' = new
    BY <1>10 DEF RenameFails, Goto, Shape
  <2>6. Good(hosts)' /\ Good(new[p])'
    BY <1>0, <2>1, <2>5 DEF Good
  <2>7. Alone(p)'
    BY <1>0, <2>3, <2>4, <2>5, <2>6 DEF Alone, Busy, Good
  <2>8. \A q \in Procs : q # p => Alone(q)'
    BY <2>4 DEF Alone, Busy
  <2> QED
    BY <2>6, <2>7, <2>8
<1>11. ASSUME NEW p \in Procs, Truncate(p)
      PROVE  (AllIdle => Good(hosts))' /\ \A q \in Procs : Alone(q)'
  <2>1. /\ at[p] = "truncate" /\ mounted /\ Good(new[p])
    BY <1>5, <1>11 DEF Truncate, Busy, Alone
  <2>2. \A q \in Procs : q # p => at'[q] = "idle" /\ fd'[q] = None
    BY <1>5, <1>11, <2>1 DEF Truncate, Busy, Goto, Shape
  <2>3. /\ at'[p] = "rewrite" /\ fd'[p] = "hosts" /\ hosts' = <<>> /\ new' = new
    BY <1>11 DEF Truncate, Goto, Shape
  <2>4. Good(new[p])'
    BY <1>0, <2>1, <2>3 DEF Good
  <2>5. Alone(p)' /\ ~AllIdle'
    BY <1>0, <2>1, <2>3, <2>4 DEF Alone, Busy, Good, AllIdle
  <2>6. \A q \in Procs : q # p => Alone(q)'
    BY <2>2 DEF Alone, Busy
  <2> QED
    BY <2>5, <2>6
<1>12. ASSUME NEW p \in Procs, Crash(p)
      PROVE  (AllIdle => Good(hosts))' /\ \A q \in Procs : Alone(q)'
  <2>1. Busy(p) /\ ~mounted
    BY <1>0, <1>12 DEF Crash, Busy
  <2>2. fd[p] # "hosts" /\ Good(hosts)
    BY <1>5, <2>1, NotNone DEF Alone, Busy, Shape
  <2>3. hosts' = hosts
    BY <1>12, <2>2 DEF Crash, Put
  <2>4. \A q \in Procs : at'[q] = "idle" /\ fd'[q] = None
    BY <1>5, <1>12, <2>1 DEF Crash, Goto, Shape
  <2> QED
    BY <1>0, <2>2, <2>3, <2>4 DEF Alone, Busy, Good
<1>13. CASE UNCHANGED vars
  BY <1>2, <1>13 DEF vars, AllIdle, Alone, Busy, Good
<1>14. ASSUME NEW p \in Procs, Write(p) PROVE at[p] = "write" \/ at[p] = "rewrite"
  BY <1>14 DEF Write
<1> QED
  BY <1>4, <1>6, <1>7, <1>8, <1>9, <1>10, <1>11, <1>12, <1>13, <1>14 DEF Next

LEMMA LastNext ==
  ASSUME Shape, Sound, Counted, OneAtOnce, LastFits, [Next]_vars
  PROVE  LastFits'
<1> SUFFICES ASSUME most' <= 1, ~died', AllIdle'
             PROVE  (Closed(hosts) /\ (last # <<>> => Fits(hosts, last)))'
  BY DEF LastFits
<1>1. ASSUME NEW p \in Procs, NEW names \in Synced \cup {None}, Read(p, names)
      PROVE  (Closed(hosts) /\ (last # <<>> => Fits(hosts, last)))'
  <2>1. AllIdle /\ most <= 1 /\ UNCHANGED <<hosts, died>>
    BY <1>1, ReadAlone, ReadIs
  <2>2. Closed(hosts)
    BY <2>1 DEF LastFits
  <2>3. ~HasBlock(hosts) /\ last' = None
    BY <1>1, ReadIs DEF AllIdle, Shape
  <2>4. Unmarked(hosts) /\ Managed(hosts) = <<>>
    BY <2>2, <2>3 DEF Closed, HasBlock, Unmarked, Managed
  <2> QED
    BY <2>1, <2>2, <2>3, <2>4 DEF Fits, Closed, Unmarked, HasBlock
<1>2. ASSUME NEW p \in Procs, Busy(p), hosts' = new[p], last' = job[p]
      PROVE  (Closed(hosts) /\ (last # <<>> => Fits(hosts, last)))'
  BY <1>2, Zenon DEF Sound
<1>3. ASSUME NEW p \in Procs, Write(p) \/ Rename(p)
      PROVE  Busy(p) /\ hosts' = new[p] /\ last' = job[p]
  <2>1. at'[p] = "idle" /\ most <= 1 /\ ~died
    BY <1>3 DEF AllIdle, Write, Rename
  <2>2. Alone(p)
    BY <2>1 DEF OneAtOnce
  <2>3. CASE Rename(p)
    BY <2>2, <2>3 DEF Rename, Return, Alone, Busy
  <2>4. CASE Write(p)
    <3>1. at[p] = "rewrite"
      BY <2>1, <2>4 DEF Write, Goto, Shape
    <3>2. hosts = <<>> /\ fd[p] = "hosts" /\ new[p] \in Seq(Line)
      BY <2>2, <3>1 DEF Alone, Shape
    <3> QED
      BY <2>4, <3>1, <3>2, RewriteIs, OverTyped DEF Put, Busy
  <2> QED
    BY <1>3, <2>3, <2>4
<1>4. ASSUME NEW p \in Procs, Create(p) \/ RenameFails(p) \/ Truncate(p) \/ Crash(p)
      PROVE  FALSE
  BY <1>4 DEF Create, RenameFails, Truncate, Crash, Goto, AllIdle, Shape
<1>5. CASE UNCHANGED vars
  BY <1>5 DEF vars, LastFits, Closed, HasBlock, Fits, Managed, Unmarked, AllIdle
<1> QED
  BY <1>1, <1>2, <1>3, <1>4, <1>5 DEF Next

-----------------------------------------------------------------------------
(* Two at once. *)

(* What the rest of the invariant says of a process that is under way.        *)
LEMMA PairIs ==
  ASSUME Shape, Counted, TwoAtOnce, most <= 2, ~mounted, ~died, NEW p \in Procs, Busy(p)
  PROVE  /\ Good(new[p]) /\ new[p] \in Seq(Line)
         /\ \A q, r \in Procs : q # p /\ r # p /\ Busy(q) /\ Busy(r) => q = r
         /\ \A q \in Procs : q # p /\ Busy(q) => First(p) /\ First(q) /\ Good(hosts)
         /\ crowd = 1 => First(p) /\ Good(hosts)
         /\ (\A q \in Procs \ {p} : at[q] \in {"idle", "create"}) => LeftOver(p)
         /\ \A q \in Procs : at[q] \notin {"write", "rewrite"} => fd[q] = None
<1>1. Good(new[p]) /\ new[p] \in Seq(Line)
  BY DEF Shape, TwoAtOnce
<1>2. \A q, r \in Procs : q # p /\ r # p /\ Busy(q) /\ Busy(r) => q = r
  BY DEF Shape, Counted
<1>3. \A q \in Procs : q # p /\ Busy(q) => First(p) /\ First(q) /\ Good(hosts)
  BY Zenon DEF TwoAtOnce
<1>4. /\ crowd = 1 => First(p) /\ Good(hosts)
      /\ (\A q \in Procs \ {p} : at[q] \in {"idle", "create"}) => LeftOver(p)
      /\ \A q \in Procs : at[q] \notin {"write", "rewrite"} => fd[q] = None
  BY Zenon DEF TwoAtOnce
<1> QED
  BY <1>1, <1>2, <1>3, <1>4

(* The conclusion in parts. *)
TwoParts ==
  /\ AllIdle => Good(hosts)
  /\ \A p \in Procs : /\ Busy(p) => Good(new[p])
                      /\ at[p] \notin {"write", "rewrite"} => fd[p] = None
  /\ \A p \in Procs : Busy(p) /\ crowd = 1 => First(p) /\ Good(hosts)
  /\ \A p, q \in Procs : Busy(p) /\ Busy(q) /\ p # q => First(p) /\ Good(hosts)
  /\ \A p \in Procs :
       Busy(p) /\ (\A q \in Procs \ {p} : at[q] \in {"idle", "create"}) => LeftOver(p)

(* A step after which nobody is under way. *)
LEMMA NobodyLeft ==
  ASSUME \A q \in Procs : at'[q] = "idle" /\ fd'[q] = None, Good(hosts)'
  PROVE  TwoParts'
BY DEF TwoParts, Busy, AllIdle

(* A step after which p alone is under way, and none may join it.             *)
LEMMA OneLeft ==
  ASSUME NEW p \in Procs, \A q \in Procs : q # p => at'[q] = "idle" /\ fd'[q] = None,
         at'[p] # "idle", crowd' # 1, LeftOver(p)', Good(new[p])',
         at'[p] \notin {"write", "rewrite"} => fd'[p] = None
  PROVE  TwoParts'
BY DEF TwoParts, Busy, AllIdle

(* A step after which those under way have not returned.                      *)
LEMMA FirstRound ==
  ASSUME NEW p \in Procs, at'[p] # "idle", Good(hosts)',
         \A q \in Procs : Busy(q)' => First(q)' /\ Good(new[q])',
         \A q \in Procs : at'[q] \notin {"write", "rewrite"} => fd'[q] = None,
         \A q \in Procs : Busy(q)' /\ (\A r \in Procs \ {q} : at'[r] \in {"idle", "create"})
                            => LeftOver(q)'
  PROVE  TwoParts'
BY DEF TwoParts, Busy, AllIdle

LEMMA TwoNext ==
  ASSUME Shape, Sound, Counted, TwoAtOnce, [Next]_vars
  PROVE  TwoAtOnce'
<1> SUFFICES ASSUME most' <= 2, ~mounted', ~died' PROVE TwoParts'
  BY DEF TwoAtOnce, TwoParts
<1>0. original' = original /\ mounted' = mounted /\ most <= most' /\ (died => died')
  <2>1. ASSUME NEW p \in Procs, NEW names \in Synced \cup {None}, Read(p, names)
        PROVE  /\ original' = original /\ mounted' = mounted /\ most <= most' /\ died' = died
    BY <2>1, ReadIs
  <2> QED
    BY <2>1 DEF Next, Create, Write, Rename, RenameFails, Truncate, Crash, vars, Shape
<1>1. most <= 2 /\ ~mounted /\ ~died
  <2>1. most <= 2
    BY <1>0, ShapeNext DEF Shape
  <2> QED
    BY <1>0, <2>1, Zenon
<1>2. TwoParts
  BY <1>1 DEF TwoAtOnce, TwoParts
<1>3. \A q \in Procs : at[q] \notin {"write", "rewrite"} => fd[q] = None
  BY <1>2 DEF TwoParts
<1>4. ASSUME NEW p \in Procs, NEW names \in Synced \cup {None}, Read(p, names)
      PROVE  TwoParts'
  <2>1. /\ ~Busy(p) /\ UNCHANGED <<original, mounted, hosts, tmp, fd>> /\ at[p] = "idle"
        /\ crowd' = IF AllIdle THEN 1 ELSE crowd + 1
        /\ most' \in Nat /\ crowd' <= most' /\ crowd \in Nat
    BY <1>4, ReadIs DEF Shape, Busy
  <2>2. AllIdle <=> \A q \in Procs : ~Busy(q)
    BY DEF AllIdle, Busy
  <2>3. ~AllIdle => crowd = 1
    <3>1. ~AllIdle => crowd >= 1
      BY <2>2 DEF Counted
    <3> QED
      BY <2>1, <3>1
  <2>4. Good(hosts) /\ \A q \in Procs : Busy(q) => First(q) /\ Good(new[q])
    BY <1>2, <2>2, <2>3 DEF TwoParts
  <2>5. Good(hosts)'
    BY <2>1, <2>4 DEF Good
  <2>6. PICK n : n = Content(hosts, names) /\ Good(n)
    BY <2>4, ContentIs DEF Good, Shape
  <2>7. CASE UNCHANGED <<at, job, new>>
    <3>1. ~AllIdle => crowd' # 1
      BY <2>1, <2>3
    <3> QED
      BY <1>2, <2>1, <2>5, <2>7, <3>1 DEF TwoParts, AllIdle, Busy, First, LeftOver, Good
  <2>8. CASE at' = [at EXCEPT ![p] = "create"] /\ new' = [new EXCEPT ![p] = n]
    <3>1. /\ at'[p] = "create" /\ new'[p] = n /\ fd'[p] = None
          /\ \A q \in Procs : q # p => at'[q] = at[q] /\ new'[q] = new[q]
      BY <1>3, <2>1, <2>8 DEF Shape
    <3>2. ASSUME NEW q \in Procs, Busy(q)' PROVE First(q)' /\ Good(new[q])'
      <4>1. CASE q = p
        BY <2>1, <2>6, <3>1, <4>1 DEF First, Good
      <4>2. CASE q # p
        BY <2>1, <2>4, <3>1, <3>2, <4>2 DEF First, Good, Busy
      <4> QED
        BY <4>1, <4>2
    <3>3. ASSUME NEW q \in Procs, Busy(q)', \A r \in Procs \ {q} : at'[r] \in {"idle", "create"}
          PROVE  LeftOver(q)'
      <4>1. CASE q = p
        BY <2>5, <3>1, <4>1 DEF LeftOver
      <4>2. CASE q # p
        <5>1. \A r \in Procs \ {q} : at[r] \in {"idle", "create"}
          BY <2>1, <3>1, <3>3
        <5>2. LeftOver(q)
          BY <1>2, <3>1, <3>3, <4>2, <5>1 DEF TwoParts, Busy
        <5> QED
          BY <2>1, <2>5, <3>1, <4>2, <5>2 DEF LeftOver
      <4> QED
        BY <4>1, <4>2
    <3>4. \A q \in Procs : at'[q] \notin {"write", "rewrite"} => fd'[q] = None
      BY <1>3, <2>1, <3>1
    <3> QED
      BY <2>5, <3>1, <3>2, <3>3, <3>4, FirstRound
  <2> QED
    BY <1>4, <2>6, <2>7, <2>8, ReadIs
<1>5. ASSUME NEW p \in Procs, Busy(p)
      PROVE  /\ Good(new[p]) /\ new[p] \in Seq(Line)
             /\ \A q, r \in Procs : q # p /\ r # p /\ Busy(q) /\ Busy(r) => q = r
             /\ \A q \in Procs : q # p /\ Busy(q) => First(p) /\ First(q) /\ Good(hosts)
             /\ crowd = 1 => First(p) /\ Good(hosts)
             /\ (\A q \in Procs \ {p} : at[q] \in {"idle", "create"}) => LeftOver(p)
  BY <1>1, <1>5, PairIs
<1>6. ASSUME NEW p \in Procs, Create(p) PROVE TwoParts'
  <2>1. at[p] = "create" /\ Busy(p)
    BY <1>6 DEF Create, Busy
  <2>2. /\ at'[p] = "write" /\ fd'[p] = "tmp" /\ tmp' = <<>>
        /\ UNCHANGED <<original, hosts, new, crowd>>
        /\ \A q \in Procs : q # p => at'[q] = at[q] /\ fd'[q] = fd[q]
    BY <1>6 DEF Create, Goto, Shape
  <2>3. Good(new[p])' /\ LeftOver(p)' /\ <<>> # None
    BY <1>5, <2>1, <2>2, NotNone DEF LeftOver, Good
  <2>4. CASE \E q \in Procs : q # p /\ Busy(q)
    <3>1. Good(hosts)'
      BY <1>5, <2>1, <2>2, <2>4 DEF Good
    <3>2. ASSUME NEW q \in Procs, Busy(q)' PROVE First(q)' /\ Good(new[q])'
      <4>1. CASE q = p
        BY <2>2, <2>3, <4>1 DEF First
      <4>2. CASE q # p
        <5>1. First(q) /\ Good(new[q])
          BY <1>5, <2>1, <2>2, <3>2, <4>2 DEF Busy
        <5> QED
          BY <2>2, <2>3, <4>2, <5>1 DEF First, Good
      <4> QED
        BY <4>1, <4>2
    <3>3. ASSUME NEW q \in Procs, \A r \in Procs \ {q} : at'[r] \in {"idle", "create"}
          PROVE  LeftOver(q)'
      BY <2>2, <2>3, <3>3
    <3>4. \A q \in Procs : at'[q] \notin {"write", "rewrite"} => fd'[q] = None
      BY <1>3, <2>2
    <3> QED
      BY <2>2, <3>1, <3>2, <3>3, <3>4, FirstRound
  <2>5. CASE ~\E q \in Procs : q # p /\ Busy(q)
    <3>1. \A q \in Procs : q # p => at[q] = "idle" /\ fd[q] = None
      BY <1>3, <2>5 DEF Busy
    <3>2. \A q \in Procs : q # p => at'[q] = "idle" /\ fd'[q] = None
      BY <2>2, <3>1
    <3>3. CASE crowd = 1
      <4>1. Good(hosts)'
        BY <1>5, <2>1, <2>2, <3>3 DEF Good
      <4>2. First(p)'
        BY <2>2, <2>3 DEF First
      <4> QED
        BY <2>2, <2>3, <3>2, <4>1, <4>2 DEF TwoParts, Busy, AllIdle
    <3>4. CASE crowd # 1
      BY <2>2, <2>3, <3>2, <3>4, OneLeft
    <3> QED
      BY <3>3, <3>4
  <2> QED
    BY <2>4, <2>5
<1>7. ASSUME NEW p \in Procs, Write(p), at[p] = "write" PROVE TwoParts'
  <2>1. Busy(p)
    BY <1>7 DEF Busy
  <2>2. /\ at'[p] = "rename" /\ fd'[p] = None /\ Put(p, new[p])
        /\ UNCHANGED <<original, new, crowd>>
        /\ \A q \in Procs : q # p => at'[q] = at[q] /\ fd'[q] = fd[q]
    BY <1>7, WriteIs DEF Shape
  <2>3. Good(new[p])'
    BY <1>5, <2>1, <2>2 DEF Good
  <2>4. ASSUME fd[p] = "tmp" PROVE hosts' = hosts /\ tmp' # None
    <3>1. tmp \in Seq(Line) /\ new[p] \in Seq(Line)
      BY <1>5, <2>1, <2>4 DEF Sound, Shape
    <3>2. Over(new[p], tmp) \in Seq(Line)
      BY <3>1, OverTyped
    <3> QED
      BY <2>2, <2>4, <3>2, NotNone DEF Put
  <2>5. ASSUME LeftOver(p) PROVE LeftOver(p)'
    <3>1. Over(new[p], <<>>) = new[p]
      BY <1>5, <2>1, OverTyped, NotNone
    <3> QED
      BY <1>7, <2>2, <2>5, <3>1 DEF LeftOver, Put
  <2>6. CASE \E q \in Procs : q # p /\ Busy(q)
    <3>1. First(p) /\ Good(hosts)
      BY <1>5, <2>1, <2>6
    <3>2. hosts' = hosts /\ tmp' # None /\ Good(hosts)'
      BY <1>7, <2>2, <2>4, <3>1 DEF First, Good
    <3>3. ASSUME NEW q \in Procs, Busy(q)' PROVE First(q)' /\ Good(new[q])'
      <4>1. CASE q = p
        BY <2>2, <2>3, <3>2, <4>1 DEF First
      <4>2. CASE q # p
        <5>1. First(q) /\ Good(new[q])
          BY <1>5, <2>1, <2>2, <3>3, <4>2 DEF Busy
        <5> QED
          BY <2>2, <3>2, <4>2, <5>1 DEF First, Good
      <4> QED
        BY <4>1, <4>2
    <3>4. ASSUME NEW q \in Procs, \A r \in Procs \ {q} : at'[r] \in {"idle", "create"}
          PROVE  LeftOver(q)'
      <4>1. q = p
        BY <2>2, <3>4
      <4>2. \A r \in Procs \ {p} : at[r] \in {"idle", "create"}
        BY <2>2, <3>4, <4>1
      <4>3. LeftOver(p)
        BY <1>5, <2>1, <4>2
      <4> QED
        BY <2>5, <4>1, <4>3
    <3>5. \A q \in Procs : at'[q] \notin {"write", "rewrite"} => fd'[q] = None
      BY <1>3, <2>2
    <3> QED
      BY <2>2, <3>2, <3>3, <3>4, <3>5, FirstRound
  <2>7. CASE ~\E q \in Procs : q # p /\ Busy(q)
    <3>1. \A q \in Procs : q # p => at[q] = "idle" /\ fd[q] = None
      BY <1>3, <2>7 DEF Busy
    <3>2. \A q \in Procs : q # p => at'[q] = "idle" /\ fd'[q] = None
      BY <2>2, <3>1
    <3>3. LeftOver(p)'
      <4>1. LeftOver(p)
        BY <1>5, <2>1, <3>1
      <4> QED
        BY <2>5, <4>1
    <3>4. CASE crowd = 1
      <4>1. First(p) /\ Good(hosts)
        BY <1>5, <2>1, <3>4
      <4>2. hosts' = hosts /\ tmp' # None /\ Good(hosts)'
        BY <1>7, <2>2, <2>4, <4>1 DEF First, Good
      <4>3. First(p)'
        BY <2>2, <4>2 DEF First
      <4> QED
        BY <2>2, <2>3, <3>2, <3>3, <4>2, <4>3 DEF TwoParts, Busy, AllIdle
    <3>5. CASE crowd # 1
      BY <2>2, <2>3, <3>2, <3>3, <3>5, OneLeft
    <3> QED
      BY <3>4, <3>5
  <2> QED
    BY <2>6, <2>7
<1>8. ASSUME NEW p \in Procs, Busy(p), ~First(p)
      PROVE  /\ \A q \in Procs : q # p => at[q] = "idle" /\ fd[q] = None
             /\ LeftOver(p) /\ crowd # 1
  <2>1. \A q \in Procs : q # p => at[q] = "idle" /\ fd[q] = None
    BY <1>3, <1>5, <1>8 DEF Busy
  <2>2. \A q \in Procs \ {p} : at[q] \in {"idle", "create"}
    BY <2>1
  <2>3. LeftOver(p) /\ crowd # 1
    BY <1>5, <1>8, <2>2
  <2> QED
    BY <2>1, <2>3
<1>9. ASSUME NEW p \in Procs, Write(p), at[p] = "rewrite" PROVE TwoParts'
  <2>1. Busy(p) /\ ~First(p)
    BY <1>9 DEF Busy, First
  <2>2. /\ \A q \in Procs : q # p => at[q] = "idle" /\ fd[q] = None
        /\ hosts = <<>> /\ fd[p] = "hosts" /\ Good(new[p]) /\ new[p] \in Seq(Line)
    BY <1>5, <1>8, <1>9, <2>1 DEF LeftOver
  <2>3. \A q \in Procs : at'[q] = "idle" /\ fd'[q] = None
    <3>1. at' = [at EXCEPT ![p] = "idle"] /\ fd' = [fd EXCEPT ![p] = None]
      BY <1>9, RewriteIs, Zenon
    <3> QED
      BY <2>2, <3>1 DEF Shape
  <2>4. hosts' = new[p]
    BY <1>9, <2>2, RewriteIs, OverTyped DEF Put
  <2>5. Good(hosts)'
    BY <1>0, <2>2, <2>4 DEF Good
  <2> QED
    BY <2>3, <2>5, NobodyLeft
<1>10. ASSUME NEW p \in Procs, Rename(p) PROVE TwoParts'
  <2>1. at[p] = "rename" /\ Busy(p) /\ tmp # None /\ hosts' = tmp /\ tmp' = None /\ fd[p] = None
    BY <1>3, <1>10 DEF Rename, Busy
  <2>2. /\ at'[p] = "idle" /\ fd'[p] = None /\ UNCHANGED <<original, crowd>>
        /\ \A q \in Procs : q # p => /\ at'[q] = at[q] /\ new'[q] = new[q]
                                     /\ fd[q] = "tmp" => fd'[q] = "hosts"
                                     /\ fd[q] = None => fd'[q] = None
    BY <1>10, <2>1, NotNone DEF Rename, Return, Goto, Moved, Shape
  <2>3. ASSUME \A q \in Procs \ {p} : at[q] \in {"idle", "create"}
        PROVE  Good(hosts)'
    BY <1>5, <2>1, <2>2, <2>3 DEF LeftOver, Good
  <2>4. CASE \E q \in Procs : q # p /\ Busy(q)
    <3>1. PICK q \in Procs : q # p /\ Busy(q)
      BY <2>4
    <3>2. /\ First(q) /\ Good(new[q]) /\ crowd # 1
          /\ \A r \in Procs : r # p /\ r # q => at[r] = "idle" /\ fd[r] = None
      <4>1. crowd >= 2 /\ crowd \in Nat
        BY <2>1, <3>1 DEF Counted, Shape
      <4> QED
        BY <1>3, <1>5, <2>1, <3>1, <4>1 DEF Busy
    <3>3. \A r \in Procs : r # q => at'[r] = "idle" /\ fd'[r] = None
      BY <2>2, <3>2
    <3>4. at'[q] = at[q] /\ at[q] # "idle" /\ Good(new[q])'
      BY <2>2, <3>1, <3>2 DEF Busy, Good
    <3>5. at[q] = "create" => Good(hosts)'
      BY <2>3, <3>2
    <3>6. LeftOver(q)'
      BY <2>1, <2>2, <3>1, <3>2, <3>4, <3>5 DEF LeftOver, First
    <3>7. at'[q] \notin {"write", "rewrite"} => fd'[q] = None
      BY <1>3, <2>2, <3>1, <3>4
    <3> QED
      BY <2>2, <3>2, <3>3, <3>4, <3>6, <3>7, OneLeft
  <2>5. CASE ~\E q \in Procs : q # p /\ Busy(q)
    <3>1. \A q \in Procs : q # p => at[q] = "idle" /\ fd[q] = None
      BY <1>3, <2>5 DEF Busy
    <3>2. \A q \in Procs : at'[q] = "idle" /\ fd'[q] = None
      BY <2>2, <3>1
    <3>3. Good(hosts)'
      BY <2>3, <3>1
    <3> QED
      BY <3>2, <3>3, NobodyLeft
  <2> QED
    BY <2>4, <2>5
<1>11. ASSUME NEW p \in Procs, RenameFails(p) PROVE TwoParts'
  <2>1. at[p] = "rename" /\ Busy(p) /\ tmp = None /\ fd[p] = None /\ ~First(p)
    BY <1>1, <1>3, <1>11 DEF RenameFails, Busy, First
  <2>2. \A q \in Procs : fd[q] = None /\ (q # p => at[q] = "idle")
    BY <1>8, <2>1
  <2>3. /\ \A q \in Procs : q # p => at'[q] = "idle" /\ fd'[q] = None
        /\ at'[p] = "truncate" /\ fd'[p] = None /\ UNCHANGED <<original, new, crowd>>
    BY <1>11, <2>2, NotNone DEF RenameFails, Goto, Moved, Shape
  <2>4. crowd # 1 /\ Good(new[p])'
    BY <1>5, <1>8, <2>1, <2>3 DEF Good
  <2>5. LeftOver(p)'
    BY <2>3 DEF LeftOver
  <2> QED
    BY <2>3, <2>4, <2>5, OneLeft
<1>12. ASSUME NEW p \in Procs, Truncate(p) PROVE TwoParts'
  <2>1. at[p] = "truncate" /\ Busy(p) /\ ~First(p)
    BY <1>12 DEF Truncate, Busy, First
  <2>2. \A q \in Procs : q # p => at[q] = "idle" /\ fd[q] = None
    BY <1>8, <2>1
  <2>3. /\ \A q \in Procs : q # p => at'[q] = "idle" /\ fd'[q] = None
        /\ at'[p] = "rewrite" /\ fd'[p] = "hosts" /\ hosts' = <<>>
        /\ UNCHANGED <<original, new, crowd>>
    BY <1>12, <2>2 DEF Truncate, Goto, Shape
  <2>4. crowd # 1 /\ Good(new[p])'
    BY <1>5, <1>8, <2>1, <2>3 DEF Good
  <2>5. LeftOver(p)'
    BY <2>3 DEF LeftOver
  <2> QED
    BY <2>3, <2>4, <2>5, OneLeft
<1>13. CASE UNCHANGED vars
  BY <1>2, <1>13 DEF vars, TwoParts, AllIdle, Busy, Good, First, LeftOver
<1>14. ASSUME NEW p \in Procs, Write(p) PROVE at[p] = "write" \/ at[p] = "rewrite"
  BY <1>14 DEF Write
<1>15. ASSUME NEW p \in Procs, Crash(p) PROVE FALSE
  BY <1>15 DEF Crash
<1> QED
  BY <1>4, <1>6, <1>7, <1>9, <1>10, <1>11, <1>12, <1>13, <1>14, <1>15 DEF Next

-----------------------------------------------------------------------------
(* Theorems *)

Inv == Shape /\ Sound /\ Counted /\ OneAtOnce /\ TwoAtOnce

LEMMA InvInit == Init => Inv
<1> SUFFICES ASSUME Init PROVE Inv
  OBVIOUS
<1>1. Shape
  BY ShapeInit
<1>2. Sound /\ Counted
  BY NotNone DEF Init, Sound, Counted, Busy
<1>3. Good(hosts)
  BY DEF Init, Good
<1>4. \A p \in Procs : at[p] = "idle" /\ fd[p] = None
  BY DEF Init
<1>5. OneAtOnce /\ TwoAtOnce
  BY <1>3, <1>4 DEF OneAtOnce, TwoAtOnce, Alone, Busy
<1> QED
  BY <1>1, <1>2, <1>5 DEF Inv

LEMMA InvNext == Inv /\ [Next]_vars => Inv'
BY ShapeNext, SoundNext, CountedNext, OneNext, TwoNext DEF Inv

(* The lines outside the block stay as they are: whatever a lone command is   *)
(* doing when it dies, if the file can be renamed over, and when all have     *)
(* returned, if two ran at once or one wrote over a mount.                    *)
THEOREM OutsideIsKept == Spec => []OutsideKept
<1>1. Inv => OutsideKept
  <2> SUFFICES ASSUME Inv, \/ most <= 1 /\ ~mounted
                           \/ AllIdle /\ ~died /\ most <= IF mounted THEN 1 ELSE 2
               PROVE  Good(hosts)
    BY DEF OutsideKept, Good
  <2>1. CASE most <= 1 /\ ~mounted
    <3>1. (AllIdle => Good(hosts)) /\ \A p \in Procs : Alone(p)
      BY <2>1 DEF Inv, OneAtOnce
    <3> QED
      BY <2>1, <3>1 DEF Alone, AllIdle, Busy
  <2>2. CASE AllIdle /\ ~died /\ mounted /\ most <= 1
    BY <2>2 DEF Inv, OneAtOnce
  <2>3. CASE AllIdle /\ ~died /\ ~mounted /\ most <= 2
    BY <2>3 DEF Inv, TwoAtOnce
  <2> QED
    BY <2>1, <2>2, <2>3
<1> QED
  BY InvInit, InvNext, <1>1, PTL DEF Spec

(* No original opens a block without closing it. *)
AllClosed == \A c \in Originals : Closed(c)

(* What a sync reports is what the file then lists, and a clean leaves no     *)
(* marker, for commands that run one at a time and do not die.                *)
THEOREM SyncIsTaken == ASSUME AllClosed PROVE Spec => []LastSyncTakes
<1>1. Init => LastFits
  BY DEF AllClosed, Init, LastFits
<1>2. Inv /\ LastFits /\ [Next]_vars => LastFits'
  BY LastNext DEF Inv
<1>3. LastFits => LastSyncTakes
  BY DEF LastFits, LastSyncTakes, Fits, Unmarked
<1> QED
  BY InvInit, InvNext, <1>1, <1>2, <1>3, PTL DEF Spec
=============================================================================
