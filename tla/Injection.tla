------------------------------ MODULE Injection ------------------------------
(***************************************************************************)
(* What ReconcileService promises: every change it makes to a service is   *)
(* one atomic step on the service as it is at that moment, and is either   *)
(* a complete injection of documents that Vault really held under the      *)
(* recorded version numbers, or a complete clean-up.                       *)
(*                                                                         *)
(* The operators on a service object s are the decisions the code takes    *)
(* on the object it has read; module Reconcile takes them on a snapshot.   *)
(***************************************************************************)
EXTENDS World

HasBootstrapGate(s) == Gate \in s.placement

\* The service concerns the controller at all.  An empty label value counts
\* as an absent one.
Tracked(s) ==
  \/ s.user.enabled \notin {"unset", "empty"}
  \/ HasControllerState(s.state)
  \/ HasBootstrapGate(s)

Disabled(s) == ~ParseError(s.user) /\ ~Enabled(s.user)
Injectable(s) == ~ParseError(s.user) /\ Enabled(s.user)

\* The labels of an earlier injection under the present configuration.
HasSuccessfulInjectionState(s) ==
  /\ s.state.configHash = ConfigHash(s.user)
  /\ s.state.applied # NoLabel
  /\ s.state.managed # NoLabel
  /\ s.state.stateHash # NoLabel

\* hasBootstrapGate agrees with the labels, or an earlier injection opened it.
GateMissing(s) ==
  /\ BootstrapGate(s.user)
  /\ ~HasBootstrapGate(s)
  /\ ~HasSuccessfulInjectionState(s)
GateInOrder(s) ==
  /\ HasBootstrapGate(s) => BootstrapGate(s.user)
  /\ ~GateMissing(s)

\* ReconcileService passes every check it makes before it asks Vault.
Admitted(s) ==
  /\ Injectable(s)
  /\ s.container
  /\ s.state.applied # Garbage
  /\ s.state.managed # Garbage
  /\ GateInOrder(s)

\* removeManagedEnvironment reaches its update.
CleanupDue(s) ==
  /\ Disabled(s)
  /\ HasControllerState(s.state)
  /\ s.container
  /\ s.state.managed # Garbage

\* Mutants of StateIsCurrent: no drift detection; the digest taken over the whole
\* environment.
StateIsCurrentDespiteDrift(s, vs) ==
  /\ vs = AppliedVersions(s.state)
  /\ s.state.configHash = ConfigHash(s.user)
  /\ ~HasBootstrapGate(s)
StateIsCurrentOverall(s, vs) ==
  /\ vs = AppliedVersions(s.state)
  /\ s.state.configHash = ConfigHash(s.user)
  /\ Hash(s.env) = s.state.stateHash
  /\ ~HasBootstrapGate(s)

\* stateIsCurrent, for the current versions vs of the sources.
StateIsCurrent(s, vs) ==
  /\ vs = AppliedVersions(s.state)
  /\ s.state.configHash = ConfigHash(s.user)
  /\ Hash(Select(s.env, ManagedEnvironment(s.state))) = s.state.stateHash
  /\ ~HasBootstrapGate(s)

\* The spec after an injection of the documents docs, read at versions vs.
Injected(s, vs, docs) ==
  LET desired == Desired(s.user.secrets, docs) IN
  [s EXCEPT
     !.env = Merge(@, ManagedEnvironment(s.state), desired),
     !.state = [applied |-> vs, managed |-> DOMAIN desired,
                stateHash |-> Hash(desired), configHash |-> ConfigHash(s.user)],
     !.placement = IF BootstrapGate(s.user) THEN @ \ {Gate} ELSE @]

\* Mutant: the clean-up forgets the config-hash label.
CleanedButHash(s) ==
  [s EXCEPT !.env = Remove(@, ManagedEnvironment(s.state)),
            !.state = [NoState EXCEPT !.configHash = s.state.configHash]]

\* The spec after a clean-up.
Cleaned(s) ==
  [s EXCEPT !.env = Remove(@, ManagedEnvironment(s.state)), !.state = NoState]

-----------------------------------------------------------------------------
\* The documents can be injected together.
Compatible(secrets, docs) ==
  /\ \A s \in DOMAIN docs : SourceResolves(secrets[s], docs[s])
  /\ \A s, t \in DOMAIN docs :
       s # t => OwnedBy(secrets, docs, s) \cap OwnedBy(secrets, docs, t) = {}

\* For every source of s, a written document that the source names.
VersionsOf(s, pick) == [x \in DOMAIN s.user.secrets |-> pick[x][2]]
DocsOf(s, pick) == [x \in DOMAIN s.user.secrets |-> pick[x][3]]
LawfulPick(s, pick) ==
  /\ \A x \in DOMAIN s.user.secrets : pick[x][1] = KeyOf(s.user.secrets[x])
  /\ Compatible(s.user.secrets, DocsOf(s, pick))
  /\ ~StateIsCurrent(s, VersionsOf(s, pick))

\* The specs that an injection into s may produce: every source is read as a
\* document that Vault held under the version recorded for it.
Injections(s) ==
  {Injected(s, VersionsOf(s, pick), DocsOf(s, pick)) :
     pick \in {p \in [DOMAIN s.user.secrets -> written] : LawfulPick(s, p)}}

\* What a controller may write over s: a complete injection or a clean-up.
LawfulSpecs(s) ==
  (IF Admitted(s) THEN Injections(s) ELSE {}) \cup
  (IF CleanupDue(s) THEN {Cleaned(s)} ELSE {})

\* Swarm stores a spec under the next version index.
Store(spec) ==
  /\ svc' = [spec EXCEPT !.version = @ + 1]
  /\ updates' = updates + 1
  /\ UNCHANGED <<vault, written, changes>>

Write == \E spec \in LawfulSpecs(svc) : Store(spec)

InjectionNext == WorldNext \/ Write
InjectionSpec == WorldInit /\ [][InjectionNext]_worldVars

=============================================================================
