------------------------------ MODULE ProxyLogs ------------------------------
(* `nkl proxy logs [-f] [-n]`: show_logs of src/proxy/daemon.rs, beside the   *)
(* daemons that write the log.  A file is a sequence of lines.  The appending *)
(* writer of daemonize_and_start_proxy is never installed, as src/main.rs has *)
(* set a subscriber before: a daemon writes through its stdout, where it left *)
(* off, which after a truncation is behind a hole.                            *)
EXTENDS Integers, Sequences, FiniteSets

CONSTANTS
  Daemons,    \* processes of proxy start --daemonize
  Tails,      \* the values of -n, All without it
  All,
  MaxLines,   \* bound: lines a daemon writes
  Hole,       \* what a file holds where nobody wrote
  None

(* What a line is: who wrote it, and how many of its own are before it.       *)
Entry == (Daemons \X Nat) \cup {Hole}

ASSUME LogsAssumption ==
  /\ Tails \subseteq Nat \cup {All} /\ All \notin Nat /\ MaxLines \in Nat
  /\ Hole \notin Daemons \X Nat /\ None \notin Seq(Entry)

VARIABLES
  log,       \* proxy.log, or None
  life,      \* the state of a daemon; its log may have been removed from under it
  off, wrote,\* its offset in the file, and the lines it wrote
  at,        \* where show_logs is
  pos,       \* its position in the file
  fileLen,   \* file_len, as it was
  shown,     \* what it has printed
  first,     \* history: how much of the file is before what it printed,
  grown      \* and whether since then the file has done nothing but grow

logVars == <<log, life, off, wrote>>
readerVars == <<at, pos, fileLen, shown, first>>
vars == <<logVars, readerVars, grown>>

Init ==
  /\ log = None /\ life = [d \in Daemons |-> "off"]
  /\ off = [d \in Daemons |-> 0] /\ wrote = [d \in Daemons |-> 0]
  /\ at = "idle" /\ pos = 0 /\ fileLen = 0 /\ shown = <<>> /\ first = 0 /\ grown = TRUE

Become(d, l) == life' = [life EXCEPT ![d] = l]

-----------------------------------------------------------------------------
(* daemonize_and_start_proxy: File::create truncates the log, whether or not  *)
(* the daemon then gets the lock of the pid file and runs.                    *)
Start(d) ==
  /\ life[d] = "off"
  /\ log' = <<>> /\ grown' = FALSE
  /\ \E l \in {"up", "over"} : Become(d, l)
  /\ UNCHANGED <<off, wrote, readerVars>>

(* A write at an offset past the end leaves a hole before it.                 *)
Put(c, i, line) ==
  [k \in 1 .. (IF i < Len(c) THEN Len(c) ELSE i + 1) |->
     IF k = i + 1 THEN line ELSE IF k <= Len(c) THEN c[k] ELSE Hole]

Log(d) ==
  /\ life[d] = "up" /\ wrote[d] < MaxLines
  /\ log' = Put(log, off[d], <<d, wrote[d]>>)
  /\ grown' = (grown /\ off[d] >= Len(log))
  /\ off' = [off EXCEPT ![d] = @ + 1] /\ wrote' = [wrote EXCEPT ![d] = @ + 1]
  /\ UNCHANGED <<life, readerVars>>

Exit(d) ==
  /\ life[d] \in {"up", "cut off"} /\ Become(d, "over")
  /\ UNCHANGED <<log, off, wrote, readerVars, grown>>

(* Somebody deletes the log; who has it open writes on to nowhere.            *)
Delete ==
  /\ log # None
  /\ log' = None /\ grown' = FALSE
  /\ life' = [d \in Daemons |-> IF life[d] = "up" THEN "cut off" ELSE life[d]]
  /\ UNCHANGED <<off, wrote, readerVars>>

-----------------------------------------------------------------------------
(* show_logs *)

LinesFrom(c, i) == Cardinality({k \in i + 1 .. Len(c) : c[k] # Hole})

(* How much is before the last n lines; a hole is part of the line behind it. *)
Before(c, n) ==
  IF n = All THEN 0
  ELSE CHOOSE i \in 0 .. Len(c) : /\ LinesFrom(c, i) <= n
                                  /\ i = 0 \/ LinesFrom(c, i - 1) > n

NoLog ==
  /\ at = "idle" /\ log = None
  /\ at' = "failed"
  /\ UNCHANGED <<logVars, pos, fileLen, shown, first, grown>>

(* The whole text or its last lines; the position is the end of what was read.*)
Show(n, follow) ==
  /\ at = "idle" /\ log # None
  /\ first' = Before(log, n) /\ shown' = SubSeq(log, first' + 1, Len(log))
  /\ pos' = Len(log) /\ grown' = TRUE
  /\ at' = IF follow THEN "sleep" ELSE "done"
  /\ UNCHANGED <<logVars, fileLen>>

(* Mutant: a file as long as before is taken for a new one.                   *)
PosAtOrBelow(len) == IF len <= pos THEN 0 ELSE pos

(* Mutant: a truncation is not noticed.                                       *)
PosKept(len) == pos

(* A file that is shorter than the position is read from its beginning.       *)
PosAt(len) == IF len < pos THEN 0 ELSE pos

(* Every 200 ms, if there is a file.                                          *)
Poll ==
  /\ at = "sleep" /\ log # None
  /\ pos' = PosAt(Len(log)) /\ fileLen' = Len(log)
  /\ at' = IF Len(log) > pos' THEN "read" ELSE "sleep"
  /\ UNCHANGED <<logVars, shown, first, grown>>

Readable == log # None /\ Len(log) >= fileLen

(* Mutant: the position becomes the end of the file as it is after the read.  *)
ReadToLength ==
  /\ at = "read" /\ Readable
  /\ shown' = shown \o SubSeq(log, pos + 1, fileLen)
  /\ pos' = Len(log) /\ at' = "sleep"
  /\ UNCHANGED <<logVars, fileLen, first, grown>>

(* open, seek and read_exact.                                                 *)
Read ==
  /\ at = "read" /\ Readable
  /\ shown' = shown \o SubSeq(log, pos + 1, fileLen)
  /\ pos' = fileLen /\ at' = "sleep"
  /\ UNCHANGED <<logVars, fileLen, first, grown>>

(* There is no file any more, or less in it: show_logs ends with an error.    *)
ReadFails ==
  /\ at = "read" /\ ~Readable
  /\ at' = "failed"
  /\ UNCHANGED <<logVars, pos, fileLen, shown, first, grown>>

Follow == Poll \/ Read \/ ReadFails

Next == \/ \E d \in Daemons : Start(d) \/ Log(d) \/ Exit(d)
        \/ Delete \/ NoLog \/ Follow
        \/ \E n \in Tails, follow \in BOOLEAN : Show(n, follow)

Spec == Init /\ [][Next]_vars

(* The follower wakes up from every sleep.                                    *)
FairSpec == Spec /\ WF_vars(Follow)

-----------------------------------------------------------------------------
(* Properties *)

(* What is printed is the text of the file, from where -n begins up to the    *)
(* position, with nothing left out between the first text and what follows,   *)
(* as long as the file does nothing but grow.                                 *)
NothingSkipped ==
  grown /\ at \in {"sleep", "read", "done"} => shown = SubSeq(log, first + 1, pos)

(* No line is printed twice, however often the log is truncated, deleted or   *)
(* overwritten between a look at it and the read.                             *)
NoLineTwice ==
  \A i, j \in DOMAIN shown : shown[i] = shown[j] /\ shown[i] # Hole => i = j

(* The follower comes back to the end of the log, after truncations too.      *)
CatchesUp == at = "sleep" ~> at = "failed" \/ log = None \/ pos = Len(log)
=============================================================================
