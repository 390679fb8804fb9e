----------------------------- MODULE ConfigLayers -----------------------------
(* The configuration of a command: load_config of src/config/mod.rs and       *)
(* apply_cli_overrides of src/cli/mod.rs.  A file is a RawConfig: for each    *)
(* section None or a function from keys, None where the key is left out.      *)
CONSTANTS
  Key, Section,
  SectionOf,   \* the section of each key
  Value,       \* the values of keys
  Default,     \* Config::default, None for the keys that have none
  EnvKey,      \* the keys with an NKL_ variable
  None,
  Missing, Broken  \* a file that is not there, one that is not TOML

OptValue == Value \cup {None}
Keys == [Key -> OptValue]
NoKeys == [k \in Key |-> None]
Raw == [Section -> Keys \cup {None}]
File == Raw \cup {Missing, Broken}

ASSUME ConfigAssumption ==
  /\ SectionOf \in [Key -> Section] /\ Default \in Keys /\ EnvKey \subseteq Key
  /\ None \notin Value \cup Keys /\ Missing \notin Raw /\ Broken \notin Raw

(* Option::or, of the later layer and the earlier.                            *)
Or(b, a) == IF b # None THEN b ELSE a

(* Mutant: a later section replaces an earlier one.                           *)
MergeOptWhole(a, b) == Or(b, a)

(* merge_opt, with the closure that merge gives it.                           *)
MergeOpt(a, b) ==
  IF a # None /\ b # None THEN [k \in Key |-> Or(b[k], a[k])] ELSE Or(b, a)

(* RawConfig::merge *)
Merge(a, b) == [s \in Section |-> MergeOpt(a[s], b[s])]

(* load_config_file, and what load_config makes of its answer.                *)
MergeFile(merged, file) == IF file \in {Missing, Broken} THEN merged ELSE Merge(merged, file)

Empty == [s \in Section |-> None]

(* What a raw configuration says of a key.                                    *)
Get(raw, k) == LET s == raw[SectionOf[k]] IN IF s = None THEN None ELSE s[k]

(* with_env_overrides; a variable whose value does not parse is ignored, and  *)
(* counts as one that is not set.                                             *)
EnvSets(env, k) == k \in EnvKey /\ env[k] # None

WithEnv(raw, env) ==
  [s \in Section |->
     IF \E k \in Key : SectionOf[k] = s /\ EnvSets(env, k)
     THEN [k \in Key |-> IF SectionOf[k] = s /\ EnvSets(env, k) THEN env[k]
                         ELSE IF raw[s] = None THEN None ELSE raw[s][k]]
     ELSE raw[s]]

(* resolve *)
Resolve(raw) == [k \in Key |-> Or(Get(raw, k), Default[k])]

(* load_config: the files from the lowest to the highest priority, then the   *)
(* environment.                                                               *)
LoadConfig(etc, home, project, env) ==
  Resolve(WithEnv(MergeFile(MergeFile(MergeFile(Empty, etc), home), project), env))

(* apply_cli_overrides, of the keys for which there is a flag.                *)
WithFlags(config, flags) == [k \in Key |-> Or(flags[k], config[k])]

-----------------------------------------------------------------------------
(* What a layer says of a key, whatever sections it has.                      *)
Says(file, k) == IF file \in {Missing, Broken} THEN None ELSE Get(file, k)

(* "Configuration is loaded in this order, from lowest to highest priority":  *)
(* key by key, the highest layer that says something of it.                   *)
ByPriority(etc, home, project, env, flags, k) ==
  LET variable == IF EnvSets(env, k) THEN env[k] ELSE None
  IN Or(flags[k], Or(variable, Or(Says(project, k), Or(Says(home, k), Or(Says(etc, k),
       Default[k])))))
=============================================================================
