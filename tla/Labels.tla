------------------------------- MODULE Labels -------------------------------
(***************************************************************************)
(* internal/labels: the label contract between a Swarm service and the     *)
(* controller.                                                             *)
(*                                                                         *)
(* User labels are grouped by source when they enter the model: a group    *)
(* holds the label values of one secrets.<source> prefix.  The order in    *)
(* which ParseConfig walks the label map decides only which of several     *)
(* errors is reported, and error texts are not modelled, so parsing is a   *)
(* predicate (ParseError) and the accessors of the parsed configuration.   *)
(* A state label holds the value it encodes; JSON and SHA-256 are taken    *)
(* to be injective.                                                        *)
(***************************************************************************)
EXTENDS Naturals

CONSTANTS
  Sources,   \* source identifiers: naturals, so that < is their sorted order
  Titles,    \* human-readable source names (the .name labels)
  Mounts,    \* KV v2 mount points (the .kv labels)
  Paths,     \* logical paths within a mount (the .vault-path labels)
  Names,     \* environment names and Vault field paths
  BadNames,  \* the names NAME=value cannot hold: empty, or containing "="
  Values,    \* texts of environment values
  Blank,     \* the value of a label that is missing or only white space
  NoLabel,   \* an absent (or empty) controller state label
  Garbage    \* a state label that its parser rejects, or a foreign digest

\* An absent or foreign label is none that the controller writes.
ASSUME LabelsAssumption ==
  /\ Sources \subseteq Nat
  /\ \A N \in SUBSET Names : NoLabel # N
  /\ \A D \in SUBSET Sources : NoLabel \notin [D -> Nat]
  /\ \A D \in SUBSET Names : {NoLabel, Garbage} \cap [sha256: [D -> Values]] = {}

\* m is a finite map from a part of S to T (Go's map[S]T).
IsMap(m, S, T) == DOMAIN m \subseteq S /\ m \in [DOMAIN m -> T]

\* The empty map, and the map m with key k set to v.
EmptyMap == [x \in {} |-> x]
Put(m, k, v) == [x \in DOMAIN m \cup {k} |-> IF x = k THEN v ELSE m[x]]

-----------------------------------------------------------------------------
\* What a boolean label can hold: absent, "", a text strconv.ParseBool reads
\* as true or false, any other text.
RawBool == {"unset", "empty", "true", "false", "other"}

\* The labels under secrets.<source>.  "unknown" stands for a label with an
\* unknown or malformed property; env maps environment names to field paths.
IsGroup(g) ==
  /\ g \in [name: Titles \cup {Blank}, kv: Mounts \cup {Blank},
            path: Paths \cup {Blank}, env: {g.env}, unknown: BOOLEAN]
  /\ IsMap(g.env, Names, Names \cup {Blank})

IsSecrets(secrets) ==
  /\ IsMap(secrets, Sources, {secrets[s] : s \in DOMAIN secrets})
  /\ \A s \in DOMAIN secrets : IsGroup(secrets[s])

IsUserLabels(user) ==
  /\ user \in [enabled: RawBool, gate: RawBool, secrets: {user.secrets}]
  /\ IsSecrets(user.secrets)

\* The four controller-owned labels.
IsConfigHash(h) ==
  /\ h \in [sha256: [gate: BOOLEAN, secrets: {h.sha256.secrets}]]
  /\ IsSecrets(h.sha256.secrets)

IsStateLabels(st) ==
  /\ st \in [applied: {st.applied}, managed: {st.managed},
             stateHash: {st.stateHash}, configHash: {st.configHash}]
  /\ st.applied \in {NoLabel, Garbage} \/ IsMap(st.applied, Sources, Nat)
  /\ st.managed \in {NoLabel, Garbage} \/ st.managed \subseteq Names
  /\ \/ st.stateHash \in {NoLabel, Garbage}
     \/ /\ st.stateHash \in [sha256: {st.stateHash.sha256}]
        /\ IsMap(st.stateHash.sha256, Names, Values)
  /\ st.configHash \in {NoLabel, Garbage} \/ IsConfigHash(st.configHash)

NoState == [applied |-> NoLabel, managed |-> NoLabel,
            stateHash |-> NoLabel, configHash |-> NoLabel]

-----------------------------------------------------------------------------
\* The checks ParseConfig makes on each label of a group.
GroupParses(g) ==
  /\ ~g.unknown
  /\ \A n \in DOMAIN g.env : n \notin BadNames /\ g.env[n] # Blank

\* The checks ParseConfig makes once the labels are grouped.
SecretsValid(secrets) ==
  /\ DOMAIN secrets # {}
  /\ \A s \in DOMAIN secrets :
       /\ GroupParses(secrets[s])
       /\ secrets[s].name # Blank
       /\ secrets[s].kv # Blank
       /\ secrets[s].path # Blank
       /\ \A t \in DOMAIN secrets \ {s} :
            /\ secrets[t].name # secrets[s].name
            /\ DOMAIN secrets[t].env \cap DOMAIN secrets[s].env = {}

\* ParseConfig returns an error.  A service that is not enabled is accepted
\* whatever its other labels hold.
ParseError(user) ==
  \/ user.enabled \in {"empty", "other"}
  \/ /\ user.enabled = "true"
     /\ user.gate \in {"empty", "other"} \/ ~SecretsValid(user.secrets)

\* Config.Enabled and Config.BootstrapGate of an accepted configuration.
Enabled(user) == user.enabled = "true"
BootstrapGate(user) == user.gate = "true"

\* ConfigHash: everything but Enabled; an absent gate label hashes as false.
ConfigHash(user) ==
  [sha256 |-> [gate |-> BootstrapGate(user), secrets |-> user.secrets]]

-----------------------------------------------------------------------------
\* ParseAppliedVersions and ParseManagedEnvironment, where they succeed
\* (they fail on Garbage and on nothing else).
AppliedVersions(state) ==
  IF state.applied = NoLabel THEN EmptyMap ELSE state.applied
ManagedEnvironment(state) ==
  IF state.managed = NoLabel THEN {} ELSE state.managed

HasControllerState(state) ==
  \/ state.applied # NoLabel
  \/ state.managed # NoLabel
  \/ state.stateHash # NoLabel
  \/ state.configHash # NoLabel

=============================================================================
