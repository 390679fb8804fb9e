---------------------------- MODULE Certificates ----------------------------
(* The certificates of the proxy: src/certs/mod.rs, generate.rs, sni.rs and   *)
(* trust.rs.  A proxy and runs of `nkl trust` make what is missing in the     *)
(* state directory; the proxy answers TLS clients, and `nkl trust` installs   *)
(* the CA.  A process may die, and a write fail, between any two steps, and a *)
(* user may remove a file.                                                    *)
EXTENDS Naturals, Sequences, FiniteSets

CONSTANTS
  Proxy, Trusters,  \* the proxy process, and processes that run `nkl trust`
  Conns,            \* TLS connections to the proxy
  Ca, Server,       \* the two pairs of files
  Recognised,       \* is_ca_trusted looks where trust_ca installs (not on Arch)
  MaxKeys,          \* bound: key pairs that are ever generated
  MaxOld,           \* bound: certificates that come to their end
  MaxFaults,        \* bound: crashes and failures
  MaxRemoved,       \* bound: files that are removed
  None, Torn        \* no such file; a file that is truncated and not yet written

ASSUME CertificatesAssumption ==
  /\ Proxy \notin Trusters /\ Ca # Server /\ Recognised \in BOOLEAN
  /\ MaxKeys \in Nat /\ MaxOld \in Nat /\ MaxFaults \in Nat /\ MaxRemoved \in Nat
  /\ None # Torn /\ None \notin Nat /\ Torn \notin Nat

VARIABLES
  key, cert,  \* the files of each pair; a certificate names the key it is for
              \* and the key that signed it, key pairs are numbered
  made,       \* how many key pairs have been generated
  old,        \* the keys whose certificates end within EXPIRY_BUFFER_DAYS
  at,         \* where each process is
  regen,      \* ca_regenerated
  todo,       \* the system calls of a generate_* that are left
  default,    \* default_key of the resolver
  conn,       \* what became of each handshake
  anchor,     \* nkl's file among the system's anchors, None if it is not whole, and
  bundle,     \* what the system trusts since it was last updated from there
  said,       \* what each `nkl trust` has reported, and the CA it was about
  faults, removed, \* for MaxFaults and MaxRemoved
  died,       \* history: a fault was in the middle of ensure_certs
  raced,      \* history: two processes generated at once
  over        \* history: the pairs whose last generation began over a valid
              \* certificate and did not come to its end

files  == <<key, cert, made, over>>
ensure == <<at, regen, todo, died, raced>>
tls    == <<default, conn>>
trust  == <<anchor, bundle, said>>
world  == <<old, faults, removed>>
vars   == <<files, ensure, tls, trust, world>>

Procs == {Proxy} \cup Trusters
Pairs == {Ca, Server}
Keys  == 1 .. MaxKeys
Cert  == [key : Keys, signer : Keys]

ASSUME MarksAssumption == None \notin Cert /\ Torn \notin Cert

Init ==
  /\ key = [f \in Pairs |-> None] /\ cert = [f \in Pairs |-> None]
  /\ made = 0 /\ old = {} /\ over = {}
  /\ at = [p \in Procs |-> "idle"]
  /\ regen = [p \in Procs |-> FALSE] /\ todo = [p \in Procs |-> <<>>]
  /\ default = None /\ conn = [c \in Conns |-> "none"]
  /\ anchor = None /\ bundle = None /\ said = <<>>
  /\ faults = 0 /\ removed = 0 /\ died = FALSE /\ raced = FALSE

-----------------------------------------------------------------------------
(* is_cert_valid: it can be parsed, and does not end soon.                    *)
IsCertValid(f) == cert[f] \in Cert /\ cert[f].key \notin old

(* A file that is there need not be whole, as to the key.                     *)
Missing(f) == key[f] = None \/ ~IsCertValid(f)

(* load_ca_keypair and load_certified_key: neither compares the key with the  *)
(* certificate, and a truncated certificate is an empty chain to the second.  *)
CaLoads == key[Ca] \in Keys /\ cert[Ca] \in Cert
Loads(f) == key[f] \in Keys /\ cert[f] # None
Loaded(f) == [key |-> key[f], cert |-> cert[f]]

(* Mutant: the certificate is written first.                                  *)
WritesCertFirst(f, c) == << <<"cert", f, Torn>>, <<"cert", f, c>>,
                            <<"key", f, Torn>>, <<"key", f, c.key>> >>

(* write_key_file, then fs::write of the certificate; either truncates first. *)
Writes(f, c) == << <<"key", f, Torn>>, <<"key", f, c.key>>,
                   <<"cert", f, Torn>>, <<"cert", f, c>> >>

(* generate_ca and generate_server_cert up to the writes: a new key pair and  *)
(* a certificate for it, signed by signer.                                    *)
Generate(p, f, signer) ==
  /\ made < MaxKeys /\ made' = made + 1
  /\ todo' = [todo EXCEPT ![p] = Writes(f, [key |-> made', signer |-> signer])]
  /\ raced' = (raced \/ \E q \in Procs \ {p} : todo[q] # <<>>)
  /\ over' = IF IsCertValid(f) THEN over \cup {f} ELSE over

Spare == UNCHANGED <<made, todo, raced, over>>

Goto(p, l) == at' = [at EXCEPT ![p] = l]

(* The next of the system calls.                                              *)
Write(p) ==
  /\ todo[p] # <<>>
  /\ LET w == Head(todo[p])
     IN /\ IF w[1] = "key" THEN key' = [key EXCEPT ![w[2]] = w[3]] /\ UNCHANGED cert
                           ELSE cert' = [cert EXCEPT ![w[2]] = w[3]] /\ UNCHANGED key
        /\ over' = IF Len(todo[p]) = 1 THEN over \ {w[2]} ELSE over
  /\ todo' = [todo EXCEPT ![p] = Tail(@)]
  /\ UNCHANGED <<made, at, regen, died, raced, tls, trust, world>>

-----------------------------------------------------------------------------
(* ensure_certs *)

Start(p) ==
  /\ at[p] = "idle"
  /\ Goto(p, "ca") /\ said' = [q \in DOMAIN said \ {p} |-> said[q]]
  /\ UNCHANGED <<files, regen, todo, died, raced, tls, anchor, bundle, world>>

EnsureCa(p) ==
  /\ at[p] = "ca"
  /\ Goto(p, "server") /\ regen' = [regen EXCEPT ![p] = Missing(Ca)]
  /\ IF Missing(Ca) THEN Generate(p, Ca, made + 1) ELSE Spare
  /\ UNCHANGED <<key, cert, died, tls, trust, world>>

(* Mutant: a new CA is no reason for a new server certificate.                *)
EnsureServerIfMissing(p) ==
  /\ at[p] = "server" /\ todo[p] = <<>> /\ regen' = [regen EXCEPT ![p] = FALSE]
  /\ \/ ~Missing(Server) /\ Goto(p, "ensured") /\ Spare
     \/ Missing(Server) /\ CaLoads /\ Goto(p, "ensured") /\ Generate(p, Server, key[Ca])
     \/ Missing(Server) /\ ~CaLoads /\ Goto(p, "idle") /\ Spare
  /\ UNCHANGED <<key, cert, died, tls, trust, world>>

(* The CA cannot be loaded if its key was cut short, if another process is    *)
(* writing it, or if it has just been removed.                                *)
EnsureServer(p) ==
  LET needed == regen[p] \/ Missing(Server) IN
  /\ at[p] = "server" /\ todo[p] = <<>> /\ regen' = [regen EXCEPT ![p] = FALSE]
  /\ \/ ~needed /\ Goto(p, "ensured") /\ Spare
     \/ needed /\ CaLoads /\ Goto(p, "ensured") /\ Generate(p, Server, key[Ca])
     \/ needed /\ ~CaLoads /\ Goto(p, "idle") /\ Spare
  /\ UNCHANGED <<key, cert, died, tls, trust, world>>

-----------------------------------------------------------------------------
(* The proxy: build_tls_server_config, and the resolver of each handshake.    *)

(* Mutant: the proxy starts whether or not there is a default key.            *)
NewResolverAnyway ==
  /\ at[Proxy] = "ensured" /\ todo[Proxy] = <<>>
  /\ default' = Loaded(Server) /\ Goto(Proxy, "serving")
  /\ UNCHANGED <<files, regen, todo, died, raced, conn, trust, world>>

(* SniCertResolver::new; the proxy does not start without a default key.      *)
NewResolver ==
  /\ at[Proxy] = "ensured" /\ todo[Proxy] = <<>>
  /\ \/ Loads(Server) /\ default' = Loaded(Server) /\ Goto(Proxy, "serving")
     \/ ~Loads(Server) /\ Goto(Proxy, "idle") /\ UNCHANGED default
  /\ UNCHANGED <<files, regen, todo, died, raced, conn, trust, world>>

(* A client says hello.  Without a name, or with "localhost" or one that is   *)
(* not valid, it is answered with the default key.  Any other name is looked  *)
(* up behind blocking_lock, which panics where every handshake of the proxy   *)
(* runs, on a worker of the runtime; that ends the connection's task.         *)
Hello(c, named) ==
  /\ at[Proxy] = "serving" /\ conn[c] = "none"
  /\ conn' = [conn EXCEPT ![c] = IF named THEN "lost" ELSE "answered"]
  /\ UNCHANGED <<files, ensure, default, trust, world>>

-----------------------------------------------------------------------------
(* trust_ca *)

Report(p, result, ca) == said' = [q \in DOMAIN said \cup {p} |->
                              IF q = p THEN [result |-> result, ca |-> ca] ELSE said[q]]

(* Mutant: any file of ours among the anchors will do. *)
TrustedByName == Recognised /\ cert[Ca] # None /\ anchor # None

(* is_ca_trusted *)
Trusted == Recognised /\ cert[Ca] # None /\ anchor = cert[Ca]

AlreadyTrusted(p) ==
  /\ at[p] = "ensured" /\ todo[p] = <<>> /\ Trusted
  /\ Goto(p, "idle") /\ Report(p, "already trusted", cert[Ca])
  /\ UNCHANGED <<files, regen, todo, died, raced, tls, anchor, bundle, world>>

(* trust_ca_debian and its like: the file is copied, or is not, or in part.   *)
CopyAnchor(p) ==
  /\ at[p] = "ensured" /\ todo[p] = <<>> /\ ~Trusted
  /\ \/ /\ cert[Ca] # None
        /\ anchor' = cert[Ca] /\ Goto(p, "update") /\ UNCHANGED said
     \/ Goto(p, "idle") /\ Report(p, "failed", anchor) /\ anchor' \in {anchor, None}
  /\ UNCHANGED <<files, regen, todo, died, raced, tls, bundle, world>>

(* update-ca-certificates and its like.                                       *)
UpdateBundle(p) ==
  /\ at[p] = "update"
  /\ \/ bundle' = anchor /\ Report(p, "installed", anchor) /\ UNCHANGED faults
     \/ /\ faults < MaxFaults /\ faults' = faults + 1
        /\ Report(p, "failed", anchor) /\ UNCHANGED bundle
  /\ Goto(p, "idle")
  /\ UNCHANGED <<files, old, removed, regen, todo, died, raced, tls, anchor>>

-----------------------------------------------------------------------------
(* Time, users, and faults. *)

Expire(k) ==
  /\ k \in 1 .. made /\ Cardinality(old) < MaxOld /\ old' = old \cup {k}
  /\ UNCHANGED <<files, ensure, tls, trust, faults, removed>>

(* A user removes a file, though not in the moment in which one is written.   *)
Remove(f) ==
  /\ removed < MaxRemoved /\ removed' = removed + 1
  /\ \A p \in Procs : todo[p] = <<>>
  /\ \/ key' = [key EXCEPT ![f] = None] /\ UNCHANGED cert
     \/ cert' = [cert EXCEPT ![f] = None] /\ UNCHANGED key
  /\ UNCHANGED <<made, over, old, faults, ensure, tls, trust>>

(* A process is no more, or its ensure_certs fails.                           *)
Stop(p) ==
  /\ faults < MaxFaults /\ faults' = faults + 1
  /\ Goto(p, "idle")
  /\ regen' = [regen EXCEPT ![p] = FALSE] /\ todo' = [todo EXCEPT ![p] = <<>>]
  /\ died' = (died \/ (at[p] = "server" /\ regen[p]) \/ todo[p] # <<>>)
  /\ UNCHANGED <<files, old, removed, raced, conn, trust>>

Crash(p) ==
  /\ at[p] # "idle" /\ Stop(p)
  /\ default' = IF p = Proxy THEN None ELSE default

(* A write fails, and ensure_certs with it.                                   *)
WriteFails(p) == todo[p] # <<>> /\ Stop(p) /\ UNCHANGED default

Next ==
  \/ \E p \in Procs : \/ Start(p) \/ EnsureCa(p) \/ EnsureServer(p)
                      \/ Write(p) \/ WriteFails(p) \/ Crash(p)
  \/ NewResolver
  \/ \E c \in Conns, named \in BOOLEAN : Hello(c, named)
  \/ \E p \in Trusters : AlreadyTrusted(p) \/ CopyAnchor(p) \/ UpdateBundle(p)
  \/ \E k \in Keys : Expire(k)
  \/ \E f \in Pairs : Remove(f)

Spec == Init /\ [][Next]_vars

-----------------------------------------------------------------------------
(* Properties *)

(* Every variable keeps its type, and a proxy that serves has a key.          *)
CertTypeOK ==
  /\ key \in [Pairs -> Keys \cup {None, Torn}]
  /\ cert \in [Pairs -> Cert \cup {None, Torn}]
  /\ made \in 0 .. MaxKeys /\ old \subseteq Keys /\ over \subseteq Pairs
  /\ at \in [Procs -> {"idle", "ca", "server", "ensured", "serving", "update"}]
  /\ regen \in [Procs -> BOOLEAN] /\ died \in BOOLEAN /\ raced \in BOOLEAN
  /\ faults \in 0 .. MaxFaults /\ removed \in 0 .. MaxRemoved
  /\ conn \in [Conns -> {"none", "answered", "lost"}]
  /\ at[Proxy] = "serving" => default.key \in Keys /\ default.cert # None

(* Wherever a process dies or a write fails, and whatever file is missing, a  *)
(* pair that passes for whole is: what was half made is made again before it  *)
(* is used.  There are two ways round it: two processes generate at once, or  *)
(* a pair is generated over a certificate that still counts as valid, as when *)
(* its key was removed or the CA was renewed, and that is cut short.          *)
WholePairs ==
  ~raced => \A f \in Pairs \ over : ~Missing(f) => cert[f].key = key[f]

(* Between calls of ensure_certs the server's certificate is for its key and  *)
(* signed by the CA, if all the files are there, unless a call was cut short  *)
(* or two generated at once.                                                  *)
ServerChains ==
  /\ ~raced /\ ~died
  /\ \A f \in Pairs : key[f] # None /\ cert[f] # None
  /\ \A p \in Procs : at[p] \in {"idle", "ca", "serving"}
  => /\ cert[Server].key = key[Server]
     /\ cert[Server].signer = cert[Ca].key /\ cert[Ca].key = key[Ca]

(* Where the system's anchors are looked up as they are installed, what       *)
(* `nkl trust` reports as trusted is, unless an update of the system's store  *)
(* was cut short or failed before, or what was copied is no certificate: a CA *)
(* that was replaced since it was installed does not pass for it, and a copy  *)
(* being made is finished.                                                    *)
TrustIsReal ==
  \A p \in DOMAIN said :
    /\ Recognised /\ faults = 0
    /\ said[p].result # "failed" /\ said[p].ca = cert[Ca] /\ said[p].ca \in Cert
    => \/ bundle = cert[Ca]
       \/ \E q \in Trusters : at[q] = "update"
=============================================================================
