------------------------------ MODULE HostsFile ------------------------------
(* `nkl hosts sync` and `nkl hosts clean`: src/hosts/mod.rs and its callers   *)
(* in src/cli/handler.rs.  A file is the sequence of its lines; a hostname    *)
(* stands for the line "127.0.0.1 <hostname>".  No lock is taken, and the     *)
(* temporary file has one name for all.                                       *)
EXTENDS Integers, Sequences, FiniteSets

CONSTANTS
  Procs,            \* processes that run the commands
  Start, End,       \* the markers
  Blank,            \* an empty line
  Hostnames,        \* the hostnames of routes
  Synced,           \* what collect_hostnames_from_routes may return, none excepted
  Originals,        \* the hosts files there may be at first
  MaxRuns,          \* bound: commands that are ever run
  None

(* What may be in a file. *)
Line == (UNION {{c[i] : i \in DOMAIN c} : c \in Originals}) \cup {Start, End, Blank} \cup Hostnames

ASSUME HostsAssumption ==
  /\ Synced \subseteq Seq(Hostnames) /\ <<>> \notin Synced
  /\ Originals \subseteq Seq(Line) /\ None \notin Seq(Line) \cup {"tmp", "hosts", "gone"}
  /\ MaxRuns \in Nat /\ {Start, End, Blank} \cap Hostnames = {}
  /\ Start # End /\ Blank \notin {Start, End}

VARIABLES
  original,   \* the hosts file as it was
  mounted,    \* it cannot be renamed over, as in a container
  hosts, tmp, \* the hosts file and .nkl-hosts.tmp
  at, job,    \* where each process is, and what it syncs: a sequence, or None
  new,        \* new_content
  fd,         \* the file that fs::write has open: renames take it along
  last,       \* the job that returned last, <<>> at first
  died,       \* a process has died on the way
  begun,      \* how many commands have begun,
  crowd,      \* how many of them since none was running,
  most        \* and at most so

vars == <<original, mounted, hosts, tmp, at, job, new, fd, last, died, begun, crowd, most>>

Init ==
  /\ original \in Originals /\ mounted \in BOOLEAN
  /\ hosts = original /\ tmp = None
  /\ at = [p \in Procs |-> "idle"] /\ job = [p \in Procs |-> None]
  /\ new = [p \in Procs |-> <<>>] /\ fd = [p \in Procs |-> None]
  /\ last = <<>> /\ died = FALSE /\ begun = 0 /\ crowd = 0 /\ most = 0

-----------------------------------------------------------------------------
(* A marker opens or closes the block; without an end it reaches to the last  *)
(* line.                                                                      *)
Inside(c, i) == \E j \in 1 .. i : c[j] = Start /\ \A k \in j .. i : c[k] # End

(* The n-th of some indices, and the lines of c that have one of them.       *)
Nth(keep, n) == CHOOSE i \in keep : Cardinality({j \in keep : j <= i}) = n
Kept(c, keep) == [n \in 1 .. Cardinality(keep) |-> c[Nth(keep, n)]]

(* remove_block; if nothing is left the last newline makes an empty line.     *)
RemoveBlock(c) ==
  LET rest == Kept(c, {i \in DOMAIN c : c[i] \notin {Start, End} /\ ~Inside(c, i)})
  IN IF rest = <<>> /\ c # <<>> THEN <<Blank>> ELSE rest

(* trim_end *)
TrimEnd(c) == Kept(c, {i \in DOMAIN c : \E j \in i .. Len(c) : c[j] # Blank})

(* extract_managed_block: there is one if there is an end marker at all.      *)
HasBlock(c) == \E i \in DOMAIN c : c[i] = End

(* get_managed_hostnames: the entries between the first start and first end.  *)
Managed(c) ==
  IF ~HasBlock(c) THEN <<>>
  ELSE Kept(c, {i \in DOMAIN c : /\ c[i] \in Hostnames
                                 /\ \E j \in 1 .. i : c[j] = Start
                                 /\ \A j \in 1 .. i : c[j] # End})

(* Mutant: the old block is left in front of the new one.                     *)
WithBlockAppended(c, names) == TrimEnd(c) \o <<Start>> \o names \o <<End>>

(* build_block, after the rest of the file.                                   *)
WithBlock(c, names) == TrimEnd(RemoveBlock(c)) \o <<Start>> \o names \o <<End>>

-----------------------------------------------------------------------------
Goto(p, l) == at' = [at EXCEPT ![p] = l]

AllIdle == \A p \in Procs : at[p] = "idle"

(* sync_hosts_file and clean_hosts_file read the file; a clean that finds no  *)
(* block returns at once.                                                     *)
Read(p, names) ==
  /\ at[p] = "idle"
  /\ begun < MaxRuns /\ begun' = begun + 1
  /\ crowd' = IF AllIdle THEN 1 ELSE crowd + 1
  /\ most' = IF crowd' > most THEN crowd' ELSE most
  /\ IF names = None /\ ~HasBlock(hosts)
     THEN last' = None /\ UNCHANGED <<at, job, new>>
     ELSE /\ Goto(p, "create") /\ job' = [job EXCEPT ![p] = names]
          /\ new' = [new EXCEPT ![p] = IF names = None THEN RemoveBlock(hosts)
                                                       ELSE WithBlock(hosts, names)]
          /\ UNCHANGED last
  /\ UNCHANGED <<original, mounted, hosts, tmp, fd, died>>

(* Mutant: the hosts file is written in place.                                *)
CreateNothing(p) ==
  /\ at[p] = "create" /\ Goto(p, "truncate")
  /\ UNCHANGED <<original, mounted, hosts, tmp, job, new, fd, last, died, begun, crowd, most>>

(* write_hosts_atomic.  fs::write opens, which truncates, and then writes.    *)
Create(p) ==
  /\ at[p] = "create"
  /\ tmp' = <<>> /\ fd' = [fd EXCEPT ![p] = "tmp"] /\ Goto(p, "write")
  /\ UNCHANGED <<original, mounted, hosts, job, new, last, died, begun, crowd, most>>

(* A write from the start of a file leaves what is there behind its end.      *)
Over(c, d) == c \o SubSeq(d, Len(c) + 1, Len(d))

Put(p, c) ==
  /\ hosts' = IF fd[p] = "hosts" THEN Over(c, hosts) ELSE hosts
  /\ tmp' = IF fd[p] = "tmp" THEN Over(c, tmp) ELSE tmp

Return(p) == /\ last' = job[p] /\ Goto(p, "idle")
             /\ job' = [job EXCEPT ![p] = None] /\ new' = [new EXCEPT ![p] = <<>>]

Write(p) ==
  /\ at[p] \in {"write", "rewrite"}
  /\ Put(p, new[p]) /\ fd' = [fd EXCEPT ![p] = None]
  /\ \/ at[p] = "write" /\ Goto(p, "rename") /\ UNCHANGED <<job, new, last>>
     \/ at[p] = "rewrite" /\ Return(p)
  /\ UNCHANGED <<original, mounted, died, begun, crowd, most>>

(* The files that are open stay so under their new name, or under none.       *)
Moved(f) == [p \in Procs |-> CASE fd[p] = "tmp" -> f [] fd[p] = "hosts" /\ f = "hosts" -> "gone"
                               [] OTHER -> fd[p]]

Rename(p) ==
  /\ at[p] = "rename" /\ ~mounted /\ tmp # None
  /\ hosts' = tmp /\ tmp' = None /\ fd' = Moved("hosts") /\ Return(p)
  /\ UNCHANGED <<original, mounted, died, begun, crowd, most>>

(* The rename fails: over a mount, or because another process has renamed the *)
(* one temporary file before.                                                 *)
RenameFails(p) ==
  /\ at[p] = "rename" /\ (mounted \/ tmp = None)
  /\ tmp' = None /\ fd' = Moved("gone") /\ Goto(p, "truncate")
  /\ UNCHANGED <<original, mounted, hosts, job, new, last, died, begun, crowd, most>>

Truncate(p) ==
  /\ at[p] = "truncate"
  /\ hosts' = <<>> /\ fd' = [fd EXCEPT ![p] = "hosts"] /\ Goto(p, "rewrite")
  /\ UNCHANGED <<original, mounted, tmp, job, new, last, died, begun, crowd, most>>

(* A process dies, perhaps when part of its text is written.                  *)
Crash(p) ==
  /\ at[p] # "idle"
  /\ \E n \in 0 .. Len(new[p]) : Put(p, SubSeq(new[p], 1, n))
  /\ fd' = [fd EXCEPT ![p] = None] /\ died' = TRUE
  /\ Goto(p, "idle") /\ job' = [job EXCEPT ![p] = None] /\ new' = [new EXCEPT ![p] = <<>>]
  /\ UNCHANGED <<original, mounted, last, begun, crowd, most>>

Next == \E p \in Procs :
          \/ \E names \in Synced \cup {None} : Read(p, names)
          \/ Create(p) \/ Write(p) \/ Rename(p) \/ RenameFails(p) \/ Truncate(p) \/ Crash(p)

Spec == Init /\ [][Next]_vars

-----------------------------------------------------------------------------
(* Properties *)

Outside(c) == TrimEnd(RemoveBlock(c))

(* The lines outside the block stay as they are.  One command at a time, and  *)
(* where the file can be renamed over, they are there at every moment and     *)
(* whenever it dies.  If none dies, two at once, or one over a mount, leave   *)
(* them there when they have returned.                                        *)
OutsideKept ==
  \/ most <= 1 /\ ~mounted
  \/ AllIdle /\ ~died /\ most <= IF mounted THEN 1 ELSE 2
  => Outside(hosts) = Outside(original)

(* What a sync reports is what the file lists, in one block, and a clean      *)
(* leaves no marker, if no two ran at once and none died.                     *)
LastSyncTakes ==
  AllIdle /\ ~died /\ most <= 1 /\ last # <<>>
  => /\ Managed(hosts) = IF last = None THEN <<>> ELSE last
     /\ last = None => \A i \in DOMAIN hosts : hosts[i] \notin {Start, End}
=============================================================================
