--------------------------- MODULE ReconcileProofs ---------------------------
(***************************************************************************)
(* Proofs about Reconcile, for any number of controllers, sources,         *)
(* documents, changes and faults.                                          *)
(***************************************************************************)
EXTENDS Reconcile, TLAPS

\* A service object that was read is the present one or an older version.
Coherent(s) ==
  /\ s.version <= svc.version
  /\ s.version = svc.version => s = svc

SnapshotsCoherent == \A c \in Controllers : pc[c] # "idle" => Coherent(snap[c])

\* What the code has established at each point of ReconcileService.
Established(c) ==
  /\ pc[c] = "cleanup" => CleanupDue(snap[c])
  /\ pc[c] \in {"metadata", "data"} =>
       Admitted(snap[c]) /\ DOMAIN versions[c] \subseteq DOMAIN Secrets(c)
  /\ pc[c] \in {"idle", "begin", "cleanup"} => versions[c] = EmptyMap
  /\ pc[c] # "data" => docs[c] = EmptyMap
  /\ pc[c] = "data" =>
       /\ DOMAIN versions[c] = DOMAIN Secrets(c)
       /\ ~StateIsCurrent(snap[c], versions[c])
       /\ DOMAIN docs[c] \subseteq DOMAIN Secrets(c)
       /\ Compatible(Secrets(c), docs[c])
       /\ \A x \in DOMAIN docs[c] :
            <<KeyOf(Secrets(c)[x]), versions[c][x], docs[c][x]>> \in written

PhasesEstablished == \A c \in Controllers : Established(c)

\* A request still under way was lawful for the version it carries.
DelayedLawful ==
  \A spec \in delayed :
    /\ spec.version <= svc.version
    /\ spec.version = svc.version => spec \in LawfulSpecs(svc)

\* The history holds what Vault holds.
VaultRecorded ==
  \A k \in DocKeys : \A n \in 1 .. Len(vault[k]) :
    vault[k][n] # Deleted => <<k, n, vault[k][n]>> \in written

Inv ==
  /\ TypeOK
  /\ SnapshotsCoherent
  /\ PhasesEstablished
  /\ DelayedLawful
  /\ VaultRecorded

-----------------------------------------------------------------------------
(* Lemmas on maps, labels and resolution.                                  *)

LEMMA EmptyMapIsMap == ASSUME NEW S, NEW T PROVE IsMap(EmptyMap, S, T)
BY DEF IsMap, EmptyMap

LEMMA PutIsMap ==
  ASSUME NEW S, NEW T, NEW m, IsMap(m, S, T), NEW k \in S, NEW v \in T
  PROVE  /\ IsMap(Put(m, k, v), S, T)
         /\ DOMAIN Put(m, k, v) = DOMAIN m \cup {k}
         /\ Put(m, k, v)[k] = v
         /\ \A x \in DOMAIN m : x # k => Put(m, k, v)[x] = m[x]
BY DEF IsMap, Put

LEMMA MergeIsMap ==
  ASSUME NEW S, NEW T, NEW env, IsMap(env, S, T), NEW desired, IsMap(desired, S, T),
         NEW names
  PROVE  IsMap(Merge(env, names, desired), S, T)
BY DEF IsMap, Merge

\* A source that resolves contributes values under legal names.
LEMMA ContributionIsMap ==
  ASSUME NEW source, IsGroup(source), NEW doc \in Documents,
         SourceResolves(source, doc)
  PROVE  IsMap(Contribution(source, doc), Names, Values)
<1>1. IsDocument(doc)
  BY WorldAssumption
<1>2. DOMAIN Mapping(source, doc) \subseteq Names
  BY <1>1 DEF Mapping, IsDocument, IsMap, IsGroup
<1>3. ASSUME NEW n \in DOMAIN Mapping(source, doc)
      PROVE  StringifyScalar(doc[Mapping(source, doc)[n]]) \in Values
  <2>1. Mapping(source, doc)[n] \in DOMAIN doc
    BY DEF SourceResolves
  <2>2. doc[Mapping(source, doc)[n]] \in Json
    BY <1>1, <2>1 DEF IsDocument, IsMap
  <2> QED BY <2>2 DEF Json, StringifyScalar
<1> QED BY <1>2, <1>3 DEF IsMap, Contribution

\* The desired environment of compatible documents is well-formed.
LEMMA DesiredIsMap ==
  ASSUME NEW secrets, IsSecrets(secrets), NEW ds, IsMap(ds, Sources, Documents),
         DOMAIN ds \subseteq DOMAIN secrets, Compatible(secrets, ds)
  PROVE  IsMap(Desired(secrets, ds), Names, Values)
<1>1. ASSUME NEW x \in DOMAIN ds
      PROVE  IsMap(Contribution(secrets[x], ds[x]), Names, Values)
  BY ContributionIsMap DEF IsSecrets, IsMap, Compatible
<1>2. ASSUME NEW n \in UNION {OwnedBy(secrets, ds, x) : x \in DOMAIN ds}
      PROVE  /\ n \in Names
             /\ LET owner == CHOOSE x \in DOMAIN ds : n \in OwnedBy(secrets, ds, x)
                IN  Contribution(secrets[owner], ds[owner])[n] \in Values
  <2> DEFINE owner == CHOOSE x \in DOMAIN ds : n \in OwnedBy(secrets, ds, x)
  <2>1. \E x \in DOMAIN ds : n \in OwnedBy(secrets, ds, x)
    BY <1>2
  <2>2. owner \in DOMAIN ds /\ n \in OwnedBy(secrets, ds, owner)
    BY <2>1
  <2> HIDE DEF owner
  <2>3. n \in DOMAIN Contribution(secrets[owner], ds[owner])
    BY <2>2 DEF OwnedBy
  <2>4. n \in Names /\ Contribution(secrets[owner], ds[owner])[n] \in Values
    BY <1>1, <2>2, <2>3 DEF IsMap
  <2> QED BY <2>4 DEF owner
<1> QED BY <1>2 DEF IsMap, Desired

\* Injections and clean-ups yield well-formed services at the same version.
LEMMA InjectedIsService ==
  ASSUME NEW s, IsService(s), Admitted(s), NEW vs, IsMap(vs, Sources, Nat),
         NEW ds, IsMap(ds, Sources, Documents),
         DOMAIN ds \subseteq DOMAIN s.user.secrets, Compatible(s.user.secrets, ds)
  PROVE  /\ IsService(Injected(s, vs, ds))
         /\ Injected(s, vs, ds).version = s.version
<1> DEFINE desired == Desired(s.user.secrets, ds)
           new == Injected(s, vs, ds)
<1>1. IsMap(desired, Names, Values)
  BY DesiredIsMap DEF IsService, IsUserLabels
<1>2. IsMap(Merge(s.env, ManagedEnvironment(s.state), desired), Names, Values)
  BY <1>1, MergeIsMap DEF IsService
<1>3. desired = Desired(s.user.secrets, ds)
  OBVIOUS
<1> HIDE DEF desired
<1>4. /\ new.version = s.version /\ new.user = s.user /\ new.image = s.image
      /\ new.container = s.container
      /\ new.env = Merge(s.env, ManagedEnvironment(s.state), desired)
      /\ new.placement \subseteq s.placement
      /\ new.state = [applied |-> vs, managed |-> DOMAIN desired,
                      stateHash |-> Hash(desired), configHash |-> ConfigHash(s.user)]
      /\ new \in [version: {new.version}, user: {new.user}, image: {new.image},
                  container: {new.container}, env: {new.env},
                  placement: {new.placement}, state: {new.state}]
  BY <1>3 DEF Injected, IsService
<1> HIDE DEF new
<1>5. IsConfigHash(ConfigHash(s.user))
  BY DEF ConfigHash, IsConfigHash, BootstrapGate, IsService, IsUserLabels
<1>6. IsStateLabels(new.state)
  BY <1>1, <1>4, <1>5 DEF IsStateLabels, Hash, IsMap
<1>7. IsService(new)
  BY <1>2, <1>4, <1>6 DEF IsService
<1> QED BY <1>4, <1>7 DEF new

\* new is s with the environment desired injected at the versions vs.
IsInjection(new, s, vs, desired) ==
  /\ IsMap(desired, Names, Values)
  /\ new.version = s.version /\ new.user = s.user
  /\ new.image = s.image /\ new.container = s.container
  /\ new.env = Merge(s.env, ManagedEnvironment(s.state), desired)
  /\ new.placement = IF BootstrapGate(s.user) THEN s.placement \ {Gate} ELSE s.placement
  /\ new.state = [applied |-> vs, managed |-> DOMAIN desired,
                  stateHash |-> Hash(desired), configHash |-> ConfigHash(s.user)]

\* The parts of an injected service.
LEMMA InjectedParts ==
  ASSUME NEW s, IsService(s), NEW vs, NEW ds, IsMap(ds, Sources, Documents),
         DOMAIN ds \subseteq DOMAIN s.user.secrets, Compatible(s.user.secrets, ds)
  PROVE  IsInjection(Injected(s, vs, ds), s, vs, Desired(s.user.secrets, ds))
<1> DEFINE desired == Desired(s.user.secrets, ds)
<1>1. IsMap(desired, Names, Values)
  BY DesiredIsMap DEF IsService, IsUserLabels
<1>2. desired = Desired(s.user.secrets, ds)
  OBVIOUS
<1> HIDE DEF desired
<1>3. IsInjection(Injected(s, vs, ds), s, vs, desired)
  BY <1>1, <1>2 DEF Injected, IsService, IsInjection
<1> QED BY <1>3 DEF desired

\* An injection leaves the service as stateIsCurrent wants it, with the variables
\* it manages at the values it desired.
LEMMA InjectedIsCurrent ==
  ASSUME NEW s, IsService(s), Admitted(s), NEW vs, IsMap(vs, Sources, Nat),
         NEW ds, IsMap(ds, Sources, Documents),
         DOMAIN ds \subseteq DOMAIN s.user.secrets, Compatible(s.user.secrets, ds),
         NEW new, new = Injected(s, vs, ds),
         NEW desired, desired = Desired(s.user.secrets, ds)
  PROVE  /\ AppliedVersions(new.state) = vs
         /\ ManagedEnvironment(new.state) = DOMAIN desired
         /\ DOMAIN desired \subseteq DOMAIN new.env
         /\ Select(new.env, DOMAIN desired) = desired
         /\ ~HasBootstrapGate(new)
         /\ StateIsCurrent(new, vs)
<1>1. /\ IsMap(desired, Names, Values)
      /\ new.user = s.user
      /\ new.env = Merge(s.env, ManagedEnvironment(s.state), desired)
      /\ new.placement = IF BootstrapGate(s.user) THEN s.placement \ {Gate}
                                                  ELSE s.placement
      /\ new.state = [applied |-> vs, managed |-> DOMAIN desired,
                      stateHash |-> Hash(desired), configHash |-> ConfigHash(s.user)]
  <2>1. IsInjection(new, s, vs, desired)
    BY InjectedParts
  <2> QED BY <2>1 DEF IsInjection
<1>2. AppliedVersions(new.state) = vs
  BY <1>1, LabelsAssumption DEF AppliedVersions, IsMap
<1>3. ManagedEnvironment(new.state) = DOMAIN desired
  BY <1>1, LabelsAssumption DEF ManagedEnvironment, IsMap
<1>4. DOMAIN desired \subseteq DOMAIN new.env
  BY <1>1 DEF Merge
<1>5. Select(new.env, DOMAIN desired) = desired
  <2>1. \A n \in DOMAIN desired : new.env[n] = desired[n]
    BY <1>1 DEF Merge
  <2>2. desired = [n \in DOMAIN desired |-> desired[n]]
    BY <1>1 DEF IsMap
  <2> QED BY <1>4, <2>1, <2>2 DEF Select
<1>6. ~HasBootstrapGate(new)
  BY <1>1 DEF HasBootstrapGate, Admitted, GateInOrder
<1> QED BY <1>1, <1>2, <1>3, <1>4, <1>5, <1>6 DEF StateIsCurrent

LEMMA CleanedIsService ==
  ASSUME NEW s, IsService(s)
  PROVE  /\ IsService(Cleaned(s))
         /\ Cleaned(s).version = s.version
<1>1. IsMap(Remove(s.env, ManagedEnvironment(s.state)), Names, Values)
  BY EmptyMapIsMap, MergeIsMap DEF IsService, Remove
<1>2. IsStateLabels(NoState)
  BY DEF IsStateLabels, NoState
<1> QED BY <1>1, <1>2 DEF Cleaned, IsService

\* The sources of an admitted service name documents Vault can be asked for.
LEMMA AdmittedKeys ==
  ASSUME NEW s, IsService(s), Admitted(s), NEW x \in DOMAIN s.user.secrets
  PROVE  x \in Sources /\ KeyOf(s.user.secrets[x]) \in DocKeys
<1>1. IsGroup(s.user.secrets[x]) /\ x \in Sources
  BY DEF IsService, IsUserLabels, IsSecrets, IsMap
<1>2. s.user.secrets[x].kv # Blank /\ s.user.secrets[x].path # Blank
  BY DEF Admitted, Injectable, ParseError, Enabled, SecretsValid
<1> QED BY <1>1, <1>2 DEF IsGroup, KeyOf, DocKeys

-----------------------------------------------------------------------------
(* Lemmas on reports.                                                      *)

LEMMA ViewsTyped ==
  ASSUME NEW s, IsService(s)
  PROVE  IsMap(AppliedView(s), Sources, Nat) /\ ManagedView(s) \subseteq Names
BY EmptyMapIsMap DEF AppliedView, ManagedView, LabelsReadable, AppliedVersions,
   ManagedEnvironment, IsService, IsStateLabels

LEMMA ReportTyped ==
  ASSUME NEW s, IsService(s), NEW state \in {"ready", "disabled", "error"},
         NEW vs, IsMap(vs, Sources, Nat), NEW names \in SUBSET Names
  PROVE  IsReport(ReportOn(s, state, vs, names))
<1>1. DOMAIN s.user.secrets \subseteq Sources
  BY DEF IsService, IsUserLabels, IsSecrets, IsMap
<1>2. GateView(s, LabelsReadable(s)) \in {"-", "closed", "open", "missing"}
  BY DEF GateView
<1> QED BY <1>1, <1>2 DEF ReportOn, IsReport

LEMMA RecordTyped ==
  ASSUME NEW previous, previous # NoStatus => IsEntry(previous),
         NEW report, IsReport(report), NEW successful, NEW now \in Nat
  PROVE  IsEntry(Record(previous, report, successful, now))
<1>1. CASE previous = NoStatus
  BY <1>1 DEF Record, IsEntry
<1>2. CASE previous # NoStatus
  <2>1. IsReport([report EXCEPT !.warnings = previous.report.warnings])
    BY <1>2 DEF IsReport, IsEntry
  <2> QED BY <1>2, <2>1 DEF Record, IsEntry
<1> QED BY <1>1, <1>2

-----------------------------------------------------------------------------
(* The world: what every step of anybody does to it.                       *)

\* A step keeps the history and moves the service, if at all, one version on.
Onward ==
  /\ written \subseteq written'
  /\ svc' = svc \/ svc'.version = svc.version + 1

LEMMA WorldInitTyped == WorldInit => WorldTypeOK /\ VaultRecorded
<1> SUFFICES ASSUME WorldInit PROVE WorldTypeOK /\ VaultRecorded
  OBVIOUS
<1>1. IsService(svc)
  BY WorldAssumption DEF WorldInit
<1>2. vault \in [DocKeys -> Seq(Documents \cup {Deleted})]
  <2>1. \A doc \in Documents : <<doc>> \in Seq(Documents \cup {Deleted})
    OBVIOUS
  <2>2. <<>> \in Seq(Documents \cup {Deleted})
    OBVIOUS
  <2> QED BY <2>1, <2>2 DEF WorldInit
<1>3. \A k \in DocKeys : vault[k] # <<>> =>
        Len(vault[k]) = 1 /\ vault[k][1] \in Documents
  BY DEF WorldInit
<1>4. written \subseteq DocKeys \X Nat \X Documents
  BY <1>3 DEF WorldInit
<1>5. VaultRecorded
  <2> SUFFICES ASSUME NEW k \in DocKeys, NEW n \in 1 .. Len(vault[k])
               PROVE  <<k, n, vault[k][n]>> \in written
    BY DEF VaultRecorded
  <2>1. vault[k] # <<>>
    OBVIOUS
  <2>2. n = 1
    <3>1. Len(vault[k]) = 1
      BY <1>3, <2>1
    <3> QED BY <3>1
  <2> QED BY <2>1, <2>2 DEF WorldInit
<1> QED BY <1>1, <1>2, <1>4, <1>5, WorldAssumption DEF WorldInit, WorldTypeOK

\* Changes of the service object by others.
LEMMA ServiceSteps ==
  ASSUME WorldTypeOK,
         \/ StackDeploy \/ EditSpec \/ EditLabels \/ EditEnvironment
         \/ CloseGate \/ TamperState \/ TouchService
  PROVE  /\ IsService(svc')
         /\ svc'.version = svc.version + 1
         /\ UNCHANGED <<vault, written, updates>>
         /\ changes' \in 0 .. MaxChanges
<1> USE DEF ServiceChange, External
<1>0. IsService(svc) /\ svc.version \in Nat
  BY DEF WorldTypeOK, IsService
<1>1. UNCHANGED <<vault, written, updates>> /\ changes' \in 0 .. MaxChanges
  <2>1. /\ UNCHANGED <<vault, written, updates>>
        /\ changes < MaxChanges
        /\ changes' = changes + 1
    BY DEF StackDeploy, EditSpec, EditLabels, EditEnvironment, CloseGate,
       TamperState, TouchService
  <2> QED BY <2>1, WorldAssumption DEF WorldTypeOK
<1>2. CASE StackDeploy
  BY <1>0, <1>1, <1>2, WorldAssumption DEF StackDeploy, Deployed, IsService
<1>3. CASE EditSpec
  <2>1. PICK i \in Images : svc' = [svc EXCEPT !.version = @ + 1, !.image = i]
    BY <1>3 DEF EditSpec
  <2>2. svc' = [version |-> svc.version + 1, user |-> svc.user, image |-> i,
                container |-> svc.container, env |-> svc.env,
                placement |-> svc.placement, state |-> svc.state]
    BY <1>0, <2>1 DEF IsService
  <2> QED BY <1>0, <1>1, <2>2 DEF IsService
<1>4. CASE EditLabels
  <2>1. PICK d \in Deployments : svc' = [svc EXCEPT !.version = @ + 1, !.user = d.user]
    BY <1>4 DEF EditLabels
  <2>2. IsUserLabels(d.user)
    BY WorldAssumption DEF Deployed, IsService
  <2>3. svc' = [version |-> svc.version + 1, user |-> d.user, image |-> svc.image,
                container |-> svc.container, env |-> svc.env,
                placement |-> svc.placement, state |-> svc.state]
    BY <1>0, <2>1 DEF IsService
  <2> QED BY <1>0, <1>1, <2>2, <2>3 DEF IsService
<1>5. CASE EditEnvironment
  <2>1. PICK env : IsMap(env, Names, Values) /\ svc' = [svc EXCEPT !.version = @ + 1, !.env = env]
    <3>1. ASSUME NEW n \in Names, NEW v \in Values
          PROVE  IsMap(Put(svc.env, n, v), Names, Values)
      BY <1>0, PutIsMap DEF IsService
    <3>2. ASSUME NEW n PROVE IsMap(Remove(svc.env, {n}), Names, Values)
      BY <1>0, MergeIsMap, EmptyMapIsMap DEF IsService, Remove
    <3> QED BY <1>5, <3>1, <3>2 DEF EditEnvironment
  <2>2. svc' = [version |-> svc.version + 1, user |-> svc.user, image |-> svc.image,
                container |-> svc.container, env |-> env,
                placement |-> svc.placement, state |-> svc.state]
    BY <1>0, <2>1 DEF IsService
  <2> QED BY <1>0, <1>1, <2>1, <2>2 DEF IsService
<1>6. CASE CloseGate
  <2>1. svc' = [version |-> svc.version + 1, user |-> svc.user, image |-> svc.image,
                container |-> svc.container, env |-> svc.env,
                placement |-> svc.placement \cup {Gate}, state |-> svc.state]
    BY <1>0, <1>6 DEF CloseGate, IsService
  <2>2. svc.placement \cup {Gate} \subseteq Constraints
    BY <1>0, WorldAssumption DEF IsService
  <2> QED BY <1>0, <1>1, <2>1, <2>2 DEF IsService
<1>7. CASE TamperState
  <2>1. PICK l \in {"applied", "managed", "stateHash", "configHash"}, v \in {NoLabel, Garbage} :
          svc' = [svc EXCEPT !.version = @ + 1, !.state[l] = v]
    BY <1>7 DEF TamperState
  <2>2. IsStateLabels([svc.state EXCEPT ![l] = v])
    BY <1>0 DEF IsService, IsStateLabels
  <2>3. svc' = [version |-> svc.version + 1, user |-> svc.user, image |-> svc.image,
                container |-> svc.container, env |-> svc.env,
                placement |-> svc.placement, state |-> [svc.state EXCEPT ![l] = v]]
    BY <1>0, <2>1 DEF IsService
  <2> QED BY <1>0, <1>1, <2>2, <2>3 DEF IsService
<1>8. CASE TouchService
  BY <1>0, <1>1, <1>8 DEF TouchService, IsService
<1> QED BY <1>2, <1>3, <1>4, <1>5, <1>6, <1>7, <1>8

\* Changes of the documents.
LEMMA VaultSteps ==
  ASSUME WorldTypeOK, VaultRecorded, VaultPut \/ VaultDelete \/ VaultPurge
  PROVE  /\ UNCHANGED <<svc, updates>>
         /\ changes' \in 0 .. MaxChanges
         /\ vault' \in [DocKeys -> Seq(Documents \cup {Deleted})]
         /\ written \subseteq written'
         /\ written' \subseteq DocKeys \X Nat \X Documents
         /\ VaultRecorded'
<1> USE DEF VaultChange, External
<1>1. UNCHANGED <<svc, updates>> /\ changes' \in 0 .. MaxChanges
  BY WorldAssumption DEF WorldTypeOK, VaultPut, VaultDelete, VaultPurge
<1>2. CASE VaultPut
  <2>1. PICK k \in DocKeys, doc \in Documents :
          /\ vault' = [vault EXCEPT ![k] = Append(@, doc)]
          /\ written' = written \cup {<<k, Len(vault[k]) + 1, doc>>}
    BY <1>2 DEF VaultPut
  <2>2. vault[k] \in Seq(Documents \cup {Deleted}) /\ Len(vault[k]) \in Nat
    BY DEF WorldTypeOK
  <2>3. vault' \in [DocKeys -> Seq(Documents \cup {Deleted})]
    BY <2>1, <2>2 DEF WorldTypeOK
  <2>4. VaultRecorded'
    BY <2>1, <2>2 DEF WorldTypeOK, VaultRecorded
  <2> QED BY <1>1, <2>1, <2>2, <2>3, <2>4 DEF WorldTypeOK
<1>3. CASE VaultDelete
  <2>1. PICK k \in DocKeys :
          vault[k] # <<>> /\ vault' = [vault EXCEPT ![k][Len(vault[k])] = Deleted]
    BY <1>3 DEF VaultDelete
  <2>2. vault[k] \in Seq(Documents \cup {Deleted}) /\ Len(vault[k]) \in Nat
    BY DEF WorldTypeOK
  <2>3. /\ [vault[k] EXCEPT ![Len(vault[k])] = Deleted] \in Seq(Documents \cup {Deleted})
        /\ Len([vault[k] EXCEPT ![Len(vault[k])] = Deleted]) = Len(vault[k])
    <3>1. vault[k] \in [1 .. Len(vault[k]) -> Documents \cup {Deleted}]
      BY <2>2
    <3>2. [vault[k] EXCEPT ![Len(vault[k])] = Deleted]
            \in [1 .. Len(vault[k]) -> Documents \cup {Deleted}]
      BY <3>1
    <3> QED BY <2>2, <3>2
  <2>4. vault' \in [DocKeys -> Seq(Documents \cup {Deleted})]
    BY <2>1, <2>3 DEF WorldTypeOK
  <2>5. VaultRecorded'
    BY <1>3, <2>1, <2>2, <2>3 DEF WorldTypeOK, VaultRecorded, VaultDelete
  <2> QED BY <1>1, <1>3, <2>4, <2>5 DEF WorldTypeOK, VaultDelete
<1>4. CASE VaultPurge
  BY <1>1, <1>4 DEF WorldTypeOK, VaultRecorded, VaultPurge
<1> QED BY <1>2, <1>3, <1>4

LEMMA WorldSteps ==
  ASSUME WorldTypeOK, VaultRecorded, WorldNext
  PROVE  WorldTypeOK' /\ VaultRecorded' /\ Onward /\ updates' = updates
<1>1. CASE VaultPut \/ VaultDelete \/ VaultPurge
  BY <1>1, VaultSteps DEF WorldTypeOK, Onward
<1>2. CASE \/ StackDeploy \/ EditSpec \/ EditLabels \/ EditEnvironment
           \/ CloseGate \/ TamperState \/ TouchService
  BY <1>2, ServiceSteps DEF WorldTypeOK, Onward, VaultRecorded
<1> QED BY <1>1, <1>2 DEF WorldNext

-----------------------------------------------------------------------------
(* A controller's step: what it does to the controller itself.             *)

\* The attempt of c is over and its status entry is e.
Ends(c) ==
  /\ Idle(c)
  /\ \E e : /\ e # NoStatus => IsEntry(e)
            /\ status' = [status EXCEPT ![c] = e]

\* The other controllers do nothing.
OthersStay(c) ==
  \A d \in Controllers \ {c} :
    /\ pc'[d] = pc[d]
    /\ snap'[d] = snap[d]
    /\ versions'[d] = versions[d]
    /\ docs'[d] = docs[d]

\* What a step of c owes to the invariant.
Keeps(c) ==
  /\ LocalTypeOK'
  /\ OthersStay(c)
  /\ pc'[c] # "idle" => Coherent(snap[c])'
  /\ Established(c)'

LEMMA EndsKeeps ==
  ASSUME LocalTypeOK, NEW c \in Controllers, Ends(c)
  PROVE  Keeps(c)
<1>1. PICK e : /\ e # NoStatus => IsEntry(e)
               /\ status' = [status EXCEPT ![c] = e]
  BY DEF Ends
<1>2. /\ pc' = [pc EXCEPT ![c] = "idle"]
      /\ snap' = [snap EXCEPT ![c] = Nothing]
      /\ versions' = [versions EXCEPT ![c] = EmptyMap]
      /\ docs' = [docs EXCEPT ![c] = EmptyMap]
  BY DEF Ends, Idle
<1>3. IsMap(EmptyMap, Sources, Nat) /\ IsMap(EmptyMap, Sources, Documents)
  BY EmptyMapIsMap
<1>4. /\ pc' \in [Controllers -> {"idle", "begin", "cleanup", "metadata", "data"}]
      /\ snap' = [x \in Controllers |-> snap'[x]]
      /\ versions' = [x \in Controllers |-> versions'[x]]
      /\ docs' = [x \in Controllers |-> docs'[x]]
      /\ status' = [x \in Controllers |-> status'[x]]
  BY <1>1, <1>2 DEF LocalTypeOK
<1>5. /\ pc'[c] = "idle" /\ snap'[c] = Nothing
      /\ versions'[c] = EmptyMap /\ docs'[c] = EmptyMap
      /\ status'[c] # NoStatus => IsEntry(status'[c])
  BY <1>1, <1>2 DEF LocalTypeOK
<1>6. OthersStay(c) /\ \A d \in Controllers \ {c} : status'[d] = status[d]
  BY <1>1, <1>2 DEF LocalTypeOK, OthersStay
<1>7. LocalTypeOK'
  BY <1>3, <1>4, <1>5, <1>6 DEF LocalTypeOK, OthersStay
<1>8. Established(c)'
  BY <1>5 DEF Established
<1> QED BY <1>5, <1>6, <1>7, <1>8 DEF Keeps

LEMMA FinishEnds ==
  ASSUME LocalTypeOK, NEW c \in Controllers, NEW report, IsReport(report),
         NEW successful, NEW now \in Nat, Finish(c, report, successful, now)
  PROVE  Ends(c)
<1>1. status[c] # NoStatus => IsEntry(status[c])
  BY DEF LocalTypeOK
<1>2. IsEntry(Record(status[c], report, successful, now))
  BY <1>1, RecordTyped
<1>3. /\ Idle(c)
      /\ status' = [status EXCEPT ![c] = Record(status[c], report, successful, now)]
  BY DEF Finish
<1> QED BY <1>2, <1>3 DEF Ends

\* An attempt that fails, or that succeeds without an update.
LEMMA FailEnds ==
  ASSUME LocalTypeOK, NEW c \in Controllers, pc[c] # "idle",
         NEW vs, IsMap(vs, Sources, Nat), NEW names \in SUBSET Names,
         \/ Fail(c, vs, names)
         \/ \E state \in {"ready", "disabled"} : Succeed(c, state, vs, names)
  PROVE  Ends(c)
<1>1. IsService(snap[c]) /\ snap[c].version \in Nat
  BY DEF LocalTypeOK, IsService
<1>2. \A state \in {"ready", "disabled", "error"} :
        IsReport(ReportOn(snap[c], state, vs, names))
  BY <1>1, ReportTyped
<1> QED BY <1>1, <1>2, FinishEnds DEF Fail, Succeed

-----------------------------------------------------------------------------
(* Updates.                                                                *)

\* A complete, compatible reading of the sources makes a lawful injection.
LEMMA ReadingIsLawful ==
  ASSUME NEW s, Admitted(s), NEW vs, NEW ds,
         vs = [x \in DOMAIN s.user.secrets |-> vs[x]],
         ds = [x \in DOMAIN s.user.secrets |-> ds[x]],
         \A x \in DOMAIN s.user.secrets :
           <<KeyOf(s.user.secrets[x]), vs[x], ds[x]>> \in written,
         Compatible(s.user.secrets, ds), ~StateIsCurrent(s, vs)
  PROVE  Injected(s, vs, ds) \in LawfulSpecs(s)
<1> DEFINE pick == [x \in DOMAIN s.user.secrets |-> <<KeyOf(s.user.secrets[x]), vs[x], ds[x]>>]
<1>1. pick \in [DOMAIN s.user.secrets -> written]
  OBVIOUS
<1>2. VersionsOf(s, pick) = vs /\ DocsOf(s, pick) = ds
  BY DEF VersionsOf, DocsOf
<1>3. \A x \in DOMAIN s.user.secrets : pick[x][1] = KeyOf(s.user.secrets[x])
  OBVIOUS
<1> HIDE DEF pick
<1>4. LawfulPick(s, pick)
  BY <1>2, <1>3 DEF LawfulPick
<1>5. Injected(s, vs, ds) \in Injections(s)
  BY <1>1, <1>2, <1>4 DEF Injections
<1> QED BY <1>5 DEF LawfulSpecs

\* What a controller is about to send is well-formed, and lawful if the
\* service is still the one it read.
LEMMA WantedIsLawful ==
  ASSUME Inv, NEW c \in Controllers, ReadyToUpdate(c)
  PROVE  /\ pc[c] # "idle"
         /\ IsService(Wanted(c))
         /\ WantedNames(c) \subseteq Names
         /\ WantedState(c) \in {"ready", "disabled"}
         /\ Wanted(c).version <= svc.version
         /\ Wanted(c).version = svc.version => Wanted(c) \in LawfulSpecs(svc)
<1>0. LocalTypeOK /\ Established(c)
  BY DEF Inv, TypeOK, PhasesEstablished
<1>1. pc[c] \in {"cleanup", "data"}
  BY DEF ReadyToUpdate, AllRead
<1>2. IsService(snap[c]) /\ Coherent(snap[c])
  BY <1>0, <1>1 DEF LocalTypeOK, Inv, SnapshotsCoherent
<1>3. WantedState(c) \in {"ready", "disabled"}
  BY DEF WantedState
<1>4. CASE pc[c] = "cleanup"
  <2>1. Wanted(c) = Cleaned(snap[c]) /\ WantedNames(c) = {}
    BY <1>4 DEF Wanted, WantedNames
  <2>2. IsService(Wanted(c)) /\ Wanted(c).version = snap[c].version
    BY <1>2, <2>1, CleanedIsService
  <2>3. CleanupDue(snap[c])
    BY <1>0, <1>4 DEF Established
  <2>4. Wanted(c) \in LawfulSpecs(snap[c])
    BY <2>1, <2>3 DEF LawfulSpecs
  <2> QED BY <1>1, <1>2, <1>3, <2>1, <2>2, <2>4 DEF Coherent
<1>5. CASE pc[c] = "data"
  <2>1. /\ Wanted(c) = Injected(snap[c], versions[c], docs[c])
        /\ WantedNames(c) = DOMAIN Desired(Secrets(c), docs[c])
        /\ DOMAIN docs[c] = DOMAIN Secrets(c)
    BY <1>5 DEF Wanted, WantedNames, ReadyToUpdate, AllRead
  <2>2. /\ Admitted(snap[c])
        /\ DOMAIN versions[c] = DOMAIN Secrets(c)
        /\ ~StateIsCurrent(snap[c], versions[c])
        /\ Compatible(Secrets(c), docs[c])
        /\ \A x \in DOMAIN docs[c] :
             <<KeyOf(Secrets(c)[x]), versions[c][x], docs[c][x]>> \in written
    BY <1>0, <1>5 DEF Established
  <2>3. IsMap(versions[c], Sources, Nat) /\ IsMap(docs[c], Sources, Documents)
    BY <1>0 DEF LocalTypeOK
  <2>4. IsService(Wanted(c)) /\ Wanted(c).version = snap[c].version
    BY <1>2, <2>1, <2>2, <2>3, InjectedIsService DEF Secrets
  <2>5. WantedNames(c) \subseteq Names
    <3>1. IsMap(Desired(Secrets(c), docs[c]), Names, Values)
      BY <1>2, <2>1, <2>2, <2>3, DesiredIsMap DEF Secrets, IsService, IsUserLabels
    <3> QED BY <2>1, <3>1 DEF IsMap
  <2>6. Wanted(c) \in LawfulSpecs(snap[c])
    <3>1. /\ versions[c] = [x \in DOMAIN Secrets(c) |-> versions[c][x]]
          /\ docs[c] = [x \in DOMAIN Secrets(c) |-> docs[c][x]]
      BY <2>1, <2>2, <2>3 DEF IsMap
    <3> QED BY <2>1, <2>2, <3>1, ReadingIsLawful DEF Secrets
  <2> QED BY <1>1, <1>2, <1>3, <2>4, <2>5, <2>6 DEF Coherent
<1> QED BY <1>1, <1>4, <1>5

\* A lawful spec stays lawful as long as the service stays.
LEMMA LawfulStays ==
  ASSUME svc' = svc, written \subseteq written'
  PROVE  \A spec \in LawfulSpecs(svc) : spec \in LawfulSpecs(svc)'
BY DEF LawfulSpecs, Injections

-----------------------------------------------------------------------------
(* The steps of one controller.                                            *)

\* What a step does to the world: nothing, or one lawful update.
WorldMoves ==
  \/ UNCHANGED worldVars
  \/ \E spec \in LawfulSpecs(svc) :
       IsService(spec) /\ spec.version = svc.version /\ Store(spec)

\* Extending the reading by one more source keeps it compatible.
LEMMA AcceptsKeepsCompatible ==
  ASSUME NEW secrets, NEW ds, Compatible(secrets, ds),
         NEW x, x \notin DOMAIN ds, NEW doc, Accepts(secrets, ds, x, doc)
  PROVE  Compatible(secrets, Put(ds, x, doc))
<1> DEFINE more == Put(ds, x, doc)
<1>1. /\ DOMAIN more = DOMAIN ds \cup {x}
      /\ more[x] = doc
      /\ \A y \in DOMAIN ds : more[y] = ds[y]
  BY DEF Put
<1> HIDE DEF more
<1>2. /\ OwnedBy(secrets, more, x) = DOMAIN Contribution(secrets[x], doc)
      /\ \A y \in DOMAIN ds : OwnedBy(secrets, more, y) = OwnedBy(secrets, ds, y)
  BY <1>1 DEF OwnedBy
<1>3. \A y \in DOMAIN ds : OwnedBy(secrets, ds, y) \subseteq DOMAIN Desired(secrets, ds)
  BY DEF Desired
<1>4. \A y \in DOMAIN ds : OwnedBy(secrets, more, x) \cap OwnedBy(secrets, more, y) = {}
  BY <1>2, <1>3 DEF Accepts
<1>5. \A y, z \in DOMAIN ds :
        y # z => OwnedBy(secrets, more, y) \cap OwnedBy(secrets, more, z) = {}
  BY <1>2 DEF Compatible
<1>6. \A y, z \in DOMAIN more :
        y # z => OwnedBy(secrets, more, y) \cap OwnedBy(secrets, more, z) = {}
  BY <1>1, <1>4, <1>5
<1>7. \A y \in DOMAIN more : SourceResolves(secrets[y], more[y])
  BY <1>1 DEF Accepts, Compatible
<1> QED BY <1>6, <1>7 DEF Compatible, more

\* Steps that only move on within ReconcileService.
LEMMA MoveOnKeeps ==
  ASSUME Inv, NEW c \in Controllers,
         NEW step \in {"cleanup", "metadata", "data"},
         pc[c] \in {"begin", "metadata"},
         pc' = [pc EXCEPT ![c] = step],
         UNCHANGED <<snap, versions, docs, status, svc, written>>,
         step = "cleanup" => pc[c] = "begin" /\ CleanupDue(snap[c]),
         step # "cleanup" =>
           Admitted(snap[c]) /\ DOMAIN versions[c] \subseteq DOMAIN Secrets(c),
         step = "data" =>
           DOMAIN versions[c] = DOMAIN Secrets(c) /\ ~StateIsCurrent(snap[c], versions[c])
  PROVE  Keeps(c)
<1>0. LocalTypeOK /\ Established(c) /\ Coherent(snap[c])
  BY DEF Inv, TypeOK, PhasesEstablished, SnapshotsCoherent
<1>1. /\ pc' \in [Controllers -> {"idle", "begin", "cleanup", "metadata", "data"}]
      /\ pc'[c] = step
      /\ \A d \in Controllers \ {c} : pc'[d] = pc[d]
  BY <1>0 DEF LocalTypeOK
<1>2. LocalTypeOK'
  BY <1>0, <1>1 DEF LocalTypeOK
<1>3. OthersStay(c) /\ Coherent(snap[c])'
  BY <1>0, <1>1 DEF OthersStay, Coherent
<1>4. docs[c] = EmptyMap /\ (pc[c] = "begin" => versions[c] = EmptyMap)
  BY <1>0 DEF Established
<1>5. Compatible(Secrets(c), docs[c]) /\ DOMAIN docs[c] = {}
  BY <1>4 DEF Compatible, EmptyMap
<1>6. Established(c)'
  BY <1>1, <1>4, <1>5 DEF Established, Secrets
<1> QED BY <1>2, <1>3, <1>6 DEF Keeps

\* Inspect: a fresh snapshot.
LEMMA InspectKeeps ==
  ASSUME Inv, NEW c \in Controllers, Inspect(c)
  PROVE  Keeps(c)
<1>0. LocalTypeOK /\ Established(c) /\ IsService(svc)
  BY DEF Inv, TypeOK, PhasesEstablished, WorldTypeOK
<1>1. /\ pc[c] = "idle"
      /\ pc' = [pc EXCEPT ![c] = "begin"]
      /\ snap' = [snap EXCEPT ![c] = svc]
      /\ UNCHANGED <<versions, docs, status, svc, written>>
  BY DEF Inspect, Goto, Quietly, worldVars
<1>2. /\ pc' \in [Controllers -> {"idle", "begin", "cleanup", "metadata", "data"}]
      /\ snap' = [x \in Controllers |-> snap'[x]]
      /\ pc'[c] = "begin" /\ snap'[c] = svc
      /\ \A d \in Controllers \ {c} : pc'[d] = pc[d] /\ snap'[d] = snap[d]
  BY <1>0, <1>1 DEF LocalTypeOK
<1>3. LocalTypeOK'
  BY <1>0, <1>1, <1>2 DEF LocalTypeOK
<1>4. OthersStay(c) /\ Coherent(snap[c])'
  <2>1. svc.version \in Nat
    BY <1>0 DEF IsService
  <2> QED BY <1>1, <1>2, <2>1 DEF OthersStay, Coherent
<1>5. Established(c)'
  BY <1>0, <1>1, <1>2 DEF Established
<1> QED BY <1>3, <1>4, <1>5 DEF Keeps

\* CurrentVersion: one more version, or the end of the attempt.
LEMMA CurrentVersionKeeps ==
  ASSUME Inv, NEW c \in Controllers, CurrentVersion(c)
  PROVE  Keeps(c)
<1>0. /\ LocalTypeOK /\ Established(c) /\ pc[c] = "metadata"
      /\ IsService(snap[c]) /\ Coherent(snap[c])
      /\ UNCHANGED <<svc, written>>
  BY DEF Inv, TypeOK, PhasesEstablished, SnapshotsCoherent, LocalTypeOK,
     CurrentVersion, Quietly, worldVars
<1>1. PICK s \in DOMAIN Secrets(c) :
        LET k == KeyOf(Secrets(c)[s]) IN
        /\ IsNext(s, c, versions[c])
        /\ \/ /\ Len(vault[k]) > 0
              /\ versions' = [versions EXCEPT ![c] = Put(@, s, Len(vault[k]))]
              /\ UNCHANGED <<pc, snap, docs, status>>
           \/ /\ Len(vault[k]) = 0
              /\ Fail(c, AppliedView(snap[c]), ManagedView(snap[c]))
  BY DEF CurrentVersion
<1> DEFINE k == KeyOf(Secrets(c)[s])
<1>2. CASE Fail(c, AppliedView(snap[c]), ManagedView(snap[c]))
  BY <1>0, <1>2, ViewsTyped, FailEnds, EndsKeeps
<1>3. CASE /\ versions' = [versions EXCEPT ![c] = Put(@, s, Len(vault[k]))]
           /\ UNCHANGED <<pc, snap, docs, status>>
  <2>1. Admitted(snap[c]) /\ DOMAIN versions[c] \subseteq DOMAIN Secrets(c)
    BY <1>0 DEF Established
  <2>2. s \in Sources /\ k \in DocKeys
    BY <1>0, <2>1, AdmittedKeys DEF Secrets
  <2>3. Len(vault[k]) \in Nat
    BY <2>2 DEF Inv, TypeOK, WorldTypeOK
  <2>4. IsMap(versions[c], Sources, Nat)
    BY <1>0 DEF LocalTypeOK
  <2> DEFINE more == Put(versions[c], s, Len(vault[k]))
  <2>5. IsMap(more, Sources, Nat) /\ DOMAIN more = DOMAIN versions[c] \cup {s}
    BY <2>2, <2>3, <2>4 DEF IsMap, Put
  <2>6. versions' = [versions EXCEPT ![c] = more]
    BY <1>3
  <2> HIDE DEF more, k
  <2>7. /\ versions' = [x \in Controllers |-> versions'[x]]
        /\ versions'[c] = more
        /\ \A d \in Controllers \ {c} : versions'[d] = versions[d]
    BY <1>0, <2>6 DEF LocalTypeOK
  <2>8. LocalTypeOK'
    BY <1>0, <1>3, <2>5, <2>7 DEF LocalTypeOK
  <2>9. OthersStay(c) /\ Coherent(snap[c])'
    BY <1>0, <1>3, <2>7 DEF OthersStay, Coherent
  <2>10. Established(c)'
    BY <1>0, <1>3, <2>1, <2>5, <2>7 DEF Established, Secrets
  <2> QED BY <2>8, <2>9, <2>10 DEF Keeps
<1> QED BY <1>1, <1>2, <1>3

\* ReadVersion: one more document, or the end of the attempt.
LEMMA ReadVersionKeeps ==
  ASSUME Inv, NEW c \in Controllers, ReadVersion(c)
  PROVE  Keeps(c)
<1>0. /\ LocalTypeOK /\ Established(c) /\ pc[c] = "data"
      /\ IsService(snap[c]) /\ Coherent(snap[c])
      /\ UNCHANGED <<svc, written>>
  BY DEF Inv, TypeOK, PhasesEstablished, SnapshotsCoherent, LocalTypeOK,
     ReadVersion, Quietly, worldVars
<1>1. PICK s \in DOMAIN Secrets(c) :
        /\ IsNext(s, c, docs[c])
        /\ \/ \E doc \in Documents :
                /\ Holds(KeyOf(Secrets(c)[s]), versions[c][s], doc)
                /\ Accepts(Secrets(c), docs[c], s, doc)
                /\ docs' = [docs EXCEPT ![c] = Put(@, s, doc)]
                /\ UNCHANGED <<pc, snap, versions, status>>
           \/ Fail(c, versions[c], ManagedView(snap[c]))
  BY DEF ReadVersion, Requested
<1>2. CASE Fail(c, versions[c], ManagedView(snap[c]))
  <2>1. IsMap(versions[c], Sources, Nat)
    BY <1>0 DEF LocalTypeOK
  <2> QED BY <1>0, <1>2, <2>1, ViewsTyped, FailEnds, EndsKeeps
<1>3. CASE \E doc \in Documents :
             /\ Holds(KeyOf(Secrets(c)[s]), versions[c][s], doc)
             /\ Accepts(Secrets(c), docs[c], s, doc)
             /\ docs' = [docs EXCEPT ![c] = Put(@, s, doc)]
             /\ UNCHANGED <<pc, snap, versions, status>>
  <2>1. PICK doc \in Documents :
             /\ Holds(KeyOf(Secrets(c)[s]), versions[c][s], doc)
             /\ Accepts(Secrets(c), docs[c], s, doc)
             /\ docs' = [docs EXCEPT ![c] = Put(@, s, doc)]
             /\ UNCHANGED <<pc, snap, versions, status>>
    BY <1>3
  <2>2. /\ Admitted(snap[c])
        /\ DOMAIN versions[c] = DOMAIN Secrets(c)
        /\ ~StateIsCurrent(snap[c], versions[c])
        /\ DOMAIN docs[c] \subseteq DOMAIN Secrets(c)
        /\ Compatible(Secrets(c), docs[c])
        /\ \A x \in DOMAIN docs[c] :
             <<KeyOf(Secrets(c)[x]), versions[c][x], docs[c][x]>> \in written
    BY <1>0 DEF Established
  <2>3. s \in Sources /\ KeyOf(Secrets(c)[s]) \in DocKeys /\ s \notin DOMAIN docs[c]
    BY <1>0, <1>1, <2>2, AdmittedKeys DEF Secrets, IsNext
  <2>4. <<KeyOf(Secrets(c)[s]), versions[c][s], doc>> \in written
    BY <2>1, <2>3 DEF Inv, VaultRecorded, Holds
  <2> DEFINE more == Put(docs[c], s, doc)
  <2>5. /\ IsMap(more, Sources, Documents)
        /\ DOMAIN more = DOMAIN docs[c] \cup {s}
        /\ more[s] = doc
        /\ \A x \in DOMAIN docs[c] : more[x] = docs[c][x]
    <3>1. IsMap(docs[c], Sources, Documents)
      BY <1>0 DEF LocalTypeOK
    <3> QED BY <2>3, <3>1 DEF IsMap, Put
  <2>6. Compatible(Secrets(c), more)
    BY <2>1, <2>2, <2>3, AcceptsKeepsCompatible
  <2>7. docs' = [docs EXCEPT ![c] = more]
    BY <2>1
  <2> HIDE DEF more
  <2>8. /\ docs' = [x \in Controllers |-> docs'[x]]
        /\ docs'[c] = more
        /\ \A d \in Controllers \ {c} : docs'[d] = docs[d]
    BY <1>0, <2>7 DEF LocalTypeOK
  <2>9. LocalTypeOK'
    BY <1>0, <2>1, <2>5, <2>8 DEF LocalTypeOK
  <2>10. OthersStay(c) /\ Coherent(snap[c])'
    BY <1>0, <2>1, <2>8 DEF OthersStay, Coherent
  <2>11. \A x \in DOMAIN more : <<KeyOf(Secrets(c)[x]), versions[c][x], more[x]>> \in written
    BY <2>2, <2>4, <2>5
  <2>12. Established(c)'
    BY <1>0, <2>1, <2>2, <2>5, <2>6, <2>8, <2>11 DEF Established, Secrets
  <2> QED BY <2>9, <2>10, <2>12 DEF Keeps
<1> QED BY <1>1, <1>2, <1>3

\* An injection that changes nothing is one that stateIsCurrent rules out.
LEMMA EmptyInjectionIsCurrent ==
  ASSUME NEW s, IsService(s), Admitted(s), NEW vs, IsMap(vs, Sources, Nat),
         NEW ds, IsMap(ds, Sources, Documents),
         DOMAIN ds \subseteq DOMAIN s.user.secrets, Compatible(s.user.secrets, ds),
         Injected(s, vs, ds) = s
  PROVE  StateIsCurrent(s, vs)
<1> DEFINE desired == Desired(s.user.secrets, ds)
<1>1. IsMap(desired, Names, Values)
  BY DesiredIsMap DEF IsService, IsUserLabels
<1>2. /\ s.env = Merge(s.env, ManagedEnvironment(s.state), desired)
      /\ s.state = [applied |-> vs, managed |-> DOMAIN desired,
                    stateHash |-> Hash(desired), configHash |-> ConfigHash(s.user)]
      /\ s.placement = IF BootstrapGate(s.user) THEN s.placement \ {Gate} ELSE s.placement
  <2>1. /\ Injected(s, vs, ds).env = Merge(s.env, ManagedEnvironment(s.state), desired)
        /\ Injected(s, vs, ds).state =
             [applied |-> vs, managed |-> DOMAIN desired,
              stateHash |-> Hash(desired), configHash |-> ConfigHash(s.user)]
        /\ Injected(s, vs, ds).placement =
             IF BootstrapGate(s.user) THEN s.placement \ {Gate} ELSE s.placement
    BY DEF Injected, IsService
  <2> QED BY <2>1
<1> HIDE DEF desired
<1>3. AppliedVersions(s.state) = vs
  BY <1>2, LabelsAssumption DEF AppliedVersions, IsMap
<1>4. ManagedEnvironment(s.state) = DOMAIN desired
  BY <1>1, <1>2, LabelsAssumption DEF ManagedEnvironment, IsMap
<1>5. Select(s.env, DOMAIN desired) = desired
  <2>1. /\ DOMAIN desired \subseteq DOMAIN s.env
        /\ \A n \in DOMAIN desired : s.env[n] = desired[n]
    BY <1>2 DEF Merge
  <2>2. desired = [n \in DOMAIN desired |-> desired[n]]
    BY <1>1 DEF IsMap
  <2> QED BY <2>1, <2>2 DEF Select
<1>6. ~HasBootstrapGate(s)
  BY <1>2 DEF HasBootstrapGate, Admitted, GateInOrder
<1> QED BY <1>2, <1>3, <1>4, <1>5, <1>6 DEF StateIsCurrent

\* So the early return before UpdateService is never taken.
LEMMA SomethingToWrite ==
  ASSUME Inv, NEW c \in Controllers
  PROVE  ~NothingToWrite(c)
<1> SUFFICES ASSUME NothingToWrite(c) PROVE FALSE
  OBVIOUS
<1>1. /\ pc[c] = "data" /\ DOMAIN docs[c] = DOMAIN Secrets(c)
      /\ Injected(snap[c], versions[c], docs[c]) = snap[c]
  BY DEF NothingToWrite, AllRead, Wanted
<1>2. /\ IsService(snap[c])
      /\ IsMap(versions[c], Sources, Nat) /\ IsMap(docs[c], Sources, Documents)
  BY <1>1 DEF Inv, TypeOK, LocalTypeOK
<1>3. /\ Admitted(snap[c]) /\ ~StateIsCurrent(snap[c], versions[c])
      /\ Compatible(Secrets(c), docs[c])
  BY <1>1 DEF Inv, PhasesEstablished, Established
<1> QED BY <1>1, <1>2, <1>3, EmptyInjectionIsCurrent DEF Secrets

\* An update that Swarm stores, as the code sees it return.
LEMMA StoredEnds ==
  ASSUME Inv, NEW c \in Controllers, Stored(c)
  PROVE  Ends(c)
<1> DEFINE base == ReportOn(Wanted(c), WantedState(c), versions[c], WantedNames(c))
<1>1. /\ IsService(Wanted(c)) /\ WantedNames(c) \subseteq Names
      /\ WantedState(c) \in {"ready", "disabled"}
  BY WantedIsLawful DEF Stored
<1>2. LocalTypeOK /\ svc.version \in Nat /\ IsMap(versions[c], Sources, Nat)
  BY DEF Inv, TypeOK, LocalTypeOK, WorldTypeOK, IsService
<1>3. IsReport(base)
  BY <1>1, <1>2, ReportTyped
<1>4. PICK w \in Nat, yes \in BOOLEAN :
        Finish(c, [base EXCEPT !.warnings = w, !.updateAttempted = yes],
               yes, svc.version + 1)
  <2>1. PICK warns \in DockerWarns :
          Finish(c, [base EXCEPT !.warnings = IF warns THEN svc.version + 1 ELSE 0,
                                 !.updateAttempted = TRUE],
                 TRUE, svc.version + 1)
    BY DEF Stored, UpdateReports
  <2>2. (IF warns THEN svc.version + 1 ELSE 0) \in Nat
    BY <1>2
  <2> QED BY <2>1, <2>2, Zenon
<1> HIDE DEF base
<1> DEFINE report == [base EXCEPT !.warnings = w, !.updateAttempted = yes]
<1>5. IsReport(report)
  BY <1>3 DEF IsReport
<1>6. Finish(c, report, yes, svc.version + 1)
  BY <1>4
<1>7. svc.version + 1 \in Nat
  BY <1>2
<1> HIDE DEF report
<1> QED BY <1>2, <1>5, <1>6, <1>7, FinishEnds

\* Every step of a controller keeps its part of the invariant.
LEMMA StepKeeps ==
  ASSUME Inv, NEW c \in Controllers, Step(c) \/ Disturbance(c)
  PROVE  Keeps(c)
<1>0. /\ LocalTypeOK /\ Established(c)
      /\ IsMap(versions[c], Sources, Nat)
      /\ pc[c] # "idle" => IsService(snap[c])
  BY DEF Inv, TypeOK, LocalTypeOK, PhasesEstablished
<1>1. /\ IsMap(EmptyMap, Sources, Nat)
      /\ pc[c] # "idle" =>
           IsMap(AppliedView(snap[c]), Sources, Nat) /\ ManagedView(snap[c]) \in SUBSET Names
  BY <1>0, EmptyMapIsMap, ViewsTyped
<1>2. CASE Inspect(c)
  BY <1>2, InspectKeeps
<1>3. CASE Ignore(c) \/ Crash(c)
  BY <1>0, <1>3, EndsKeeps DEF Ignore, Crash, Ends
<1>4. CASE Reject(c)
  BY <1>0, <1>1, <1>4, FailEnds, EndsKeeps DEF Reject
<1>5. CASE Rest(c)
  <2>1. pc[c] # "idle" /\ Succeed(c, "disabled", EmptyMap, {})
    BY <1>5 DEF Rest
  <2> QED BY <1>0, <1>1, <2>1, FailEnds, EndsKeeps
<1>6. CASE StartCleanup(c)
  <2>1. /\ pc[c] = "begin" /\ CleanupDue(snap[c])
        /\ pc' = [pc EXCEPT ![c] = "cleanup"]
        /\ UNCHANGED <<snap, versions, docs, status, svc, written>>
    BY <1>6 DEF StartCleanup, Goto, Quietly, worldVars
  <2> QED BY <2>1, MoveOnKeeps
<1>7. CASE StartInjection(c)
  <2>1. /\ pc[c] = "begin" /\ Admitted(snap[c])
        /\ pc' = [pc EXCEPT ![c] = "metadata"]
        /\ UNCHANGED <<snap, versions, docs, status, svc, written>>
    BY <1>7 DEF StartInjection, Goto, Quietly, worldVars
  <2>2. DOMAIN versions[c] \subseteq DOMAIN Secrets(c)
    BY <1>0, <2>1 DEF Established, EmptyMap
  <2> QED BY <2>1, <2>2, MoveOnKeeps
<1>8. CASE CurrentVersion(c)
  BY <1>8, CurrentVersionKeeps
<1>9. CASE AlreadyCurrent(c)
  <2>1. pc[c] # "idle" /\ Succeed(c, "ready", versions[c], ManagedView(snap[c]))
    BY <1>9 DEF AlreadyCurrent
  <2> QED BY <1>0, <1>1, <2>1, FailEnds, EndsKeeps
<1>10. CASE StartReading(c)
  <2>1. /\ pc[c] = "metadata" /\ DOMAIN versions[c] = DOMAIN Secrets(c)
        /\ ~StateIsCurrent(snap[c], versions[c])
        /\ pc' = [pc EXCEPT ![c] = "data"]
        /\ UNCHANGED <<snap, versions, docs, status, svc, written>>
    BY <1>10 DEF StartReading, Goto, Quietly, worldVars
  <2>2. Admitted(snap[c])
    BY <1>0, <2>1 DEF Established
  <2> QED BY <2>1, <2>2, MoveOnKeeps
<1>11. CASE ReadVersion(c)
  BY <1>11, ReadVersionKeeps
<1>12. CASE UpdateAccepted(c)
  BY <1>0, <1>12, SomethingToWrite, StoredEnds, EndsKeeps DEF UpdateAccepted
<1>13. CASE UpdateConflict(c) \/ UpdateTimeout(c)
  <2>1. ReadyToUpdate(c) /\ Fail(c, versions[c], WantedNames(c))
    BY <1>13 DEF UpdateConflict, UpdateTimeout
  <2>2. pc[c] # "idle" /\ WantedNames(c) \in SUBSET Names
    BY <2>1, WantedIsLawful
  <2> QED BY <1>0, <2>1, <2>2, FailEnds, EndsKeeps
<1>14. CASE VaultError(c)
  <2>1. /\ pc[c] # "idle"
        /\ \/ Fail(c, AppliedView(snap[c]), ManagedView(snap[c]))
           \/ Fail(c, versions[c], ManagedView(snap[c]))
    BY <1>14 DEF VaultError
  <2> QED BY <1>0, <1>1, <2>1, FailEnds, EndsKeeps
<1> QED BY <1>2, <1>3, <1>4, <1>5, <1>6, <1>7, <1>8, <1>9, <1>10, <1>11, <1>12,
           <1>13, <1>14 DEF Step, Disturbance

\* Every step of a controller leaves the world alone or stores a lawful spec,
\* and what it leaves behind under way is lawful too.
LEMMA StepMovesWorld ==
  ASSUME Inv, NEW c \in Controllers, Step(c) \/ Disturbance(c)
  PROVE  /\ WorldMoves
         /\ faults' \in 0 .. MaxFaults
         /\ \A spec \in delayed' \ delayed :
              /\ UNCHANGED worldVars
              /\ IsService(spec)
              /\ spec.version <= svc.version
              /\ spec.version = svc.version => spec \in LawfulSpecs(svc)
<1>0. faults \in 0 .. MaxFaults
  BY DEF Inv, TypeOK
<1>1. CASE /\ UNCHANGED worldVars /\ UNCHANGED delayed
           /\ faults' = faults \/ (faults < MaxFaults /\ faults' = faults + 1)
  BY <1>0, <1>1, ReconcileAssumption DEF WorldMoves
<1>2. CASE UpdateAccepted(c)
  <2>1. Stored(c)
    BY <1>2, SomethingToWrite DEF UpdateAccepted
  <2>2. /\ ReadyToUpdate(c) /\ Wanted(c).version = svc.version
        /\ Store(Wanted(c)) /\ UNCHANGED <<delayed, faults>>
    BY <2>1 DEF Stored, Accepted
  <2>3. IsService(Wanted(c)) /\ Wanted(c) \in LawfulSpecs(svc)
    BY <2>2, WantedIsLawful
  <2> QED BY <1>0, <2>2, <2>3 DEF WorldMoves
<1>3. CASE UpdateTimeout(c)
  <2>1. /\ UNCHANGED worldVars /\ ReadyToUpdate(c)
        /\ faults < MaxFaults /\ faults' = faults + 1
        /\ delayed' = delayed \cup {Wanted(c)}
    BY <1>3 DEF UpdateTimeout, Fault
  <2>2. /\ IsService(Wanted(c)) /\ Wanted(c).version <= svc.version
        /\ Wanted(c).version = svc.version => Wanted(c) \in LawfulSpecs(svc)
    BY <2>1, WantedIsLawful
  <2>3. faults' \in 0 .. MaxFaults
    BY <1>0, <2>1, ReconcileAssumption
  <2> QED BY <2>1, <2>2, <2>3 DEF WorldMoves
<1>4. CASE VaultError(c) \/ Crash(c)
  BY <1>1, <1>4 DEF VaultError, Crash, Fault
<1>5. CASE Step(c) /\ ~UpdateAccepted(c)
  BY <1>1, <1>5 DEF Step, Inspect, Ignore, Reject, Rest, StartCleanup, StartInjection,
     CurrentVersion, AlreadyCurrent, StartReading, ReadVersion, UpdateConflict, Quietly
<1> QED BY <1>2, <1>3, <1>4, <1>5 DEF Disturbance

-----------------------------------------------------------------------------
(* The invariant.                                                          *)

LEMMA MovesAreOnward ==
  ASSUME WorldTypeOK, VaultRecorded, WorldMoves
  PROVE  WorldTypeOK' /\ VaultRecorded' /\ Onward
<1>1. CASE UNCHANGED worldVars
  BY <1>1 DEF worldVars, WorldTypeOK, VaultRecorded, Onward
<1>2. CASE \E spec \in LawfulSpecs(svc) :
             IsService(spec) /\ spec.version = svc.version /\ Store(spec)
  <2>1. PICK spec \in LawfulSpecs(svc) :
          IsService(spec) /\ spec.version = svc.version /\ Store(spec)
    BY <1>2
  <2>2. svc' = [spec EXCEPT !.version = @ + 1]
    BY <2>1 DEF Store
  <2>3. IsService(svc') /\ svc'.version = svc.version + 1
    BY <2>1, <2>2 DEF IsService
  <2>4. updates' = updates + 1 /\ UNCHANGED <<vault, written, changes>>
    BY <2>1 DEF Store
  <2> QED BY <2>3, <2>4 DEF WorldTypeOK, VaultRecorded, Onward
<1> QED BY <1>1, <1>2 DEF WorldMoves

\* What holds of the other controllers goes on holding while the world moves.
LEMMA OnwardKeeps ==
  ASSUME Inv, Onward, IsService(svc'), NEW d \in Controllers,
         pc'[d] = pc[d], snap'[d] = snap[d],
         versions'[d] = versions[d], docs'[d] = docs[d]
  PROVE  (pc'[d] # "idle" => Coherent(snap[d])') /\ Established(d)'
<1>1. pc[d] # "idle" => Coherent(snap[d])
  BY DEF Inv, SnapshotsCoherent
<1>2. svc.version \in Nat /\ svc'.version \in Nat
      /\ (pc[d] # "idle" => snap[d].version \in Nat)
  BY DEF Inv, TypeOK, WorldTypeOK, LocalTypeOK, IsService
<1>3. pc'[d] # "idle" => Coherent(snap[d])'
  BY <1>1, <1>2 DEF Coherent, Onward
<1>4. Established(d)
  BY DEF Inv, PhasesEstablished
<1>5. Established(d)'
  BY <1>4 DEF Established, Secrets, Onward
<1> QED BY <1>3, <1>5

\* Requests under way stay lawful while the world moves.
LEMMA OnwardDelayed ==
  ASSUME Inv, Onward, IsService(svc'),
         NEW spec, IsService(spec), spec.version <= svc.version,
         spec.version = svc.version => spec \in LawfulSpecs(svc)
  PROVE  /\ spec.version <= svc'.version
         /\ spec.version = svc'.version => spec \in LawfulSpecs(svc)'
<1>1. svc.version \in Nat /\ svc'.version \in Nat /\ spec.version \in Nat
  BY DEF Inv, TypeOK, WorldTypeOK, IsService
<1>2. CASE svc' = svc
  BY <1>2, LawfulStays DEF Onward
<1>3. CASE svc'.version = svc.version + 1
  BY <1>1, <1>3
<1> QED BY <1>2, <1>3 DEF Onward

LEMMA InitInv == Init => Inv
<1> SUFFICES ASSUME Init PROVE Inv
  OBVIOUS
<1>1. WorldTypeOK /\ VaultRecorded
  BY WorldInitTyped DEF Init
<1>2. IsMap(EmptyMap, Sources, Nat) /\ IsMap(EmptyMap, Sources, Documents)
  BY EmptyMapIsMap
<1>3. LocalTypeOK
  BY <1>2 DEF Init, LocalTypeOK
<1>4. SnapshotsCoherent /\ PhasesEstablished
  BY DEF Init, SnapshotsCoherent, PhasesEstablished, Established
<1>5. delayed = {} /\ faults \in 0 .. MaxFaults
  BY ReconcileAssumption DEF Init
<1> QED BY <1>1, <1>3, <1>4, <1>5 DEF Inv, TypeOK, DelayedLawful

LEMMA NextInv == Inv /\ [Next]_vars => Inv'
<1> SUFFICES ASSUME Inv, [Next]_vars PROVE Inv'
  OBVIOUS
<1> USE DEF Inv
<1>0. WorldTypeOK /\ VaultRecorded /\ LocalTypeOK
  BY DEF TypeOK
<1>1. ASSUME NEW c \in Controllers, Step(c) \/ Disturbance(c)
      PROVE  Inv'
  <2>1. Keeps(c)
    BY <1>1, StepKeeps
  <2>2. /\ WorldMoves /\ faults' \in 0 .. MaxFaults
        /\ \A spec \in delayed' \ delayed :
             /\ UNCHANGED worldVars
             /\ IsService(spec)
             /\ spec.version <= svc.version
             /\ spec.version = svc.version => spec \in LawfulSpecs(svc)
    BY <1>1, StepMovesWorld
  <2>3. WorldTypeOK' /\ VaultRecorded' /\ Onward
    BY <1>0, <2>2, MovesAreOnward
  <2>4. \A spec \in delayed' :
          /\ IsService(spec)
          /\ spec.version <= svc.version
          /\ spec.version = svc.version => spec \in LawfulSpecs(svc)
    BY <2>2 DEF DelayedLawful, TypeOK
  <2>5. \A d \in Controllers \ {c} :
          (pc'[d] # "idle" => Coherent(snap[d])') /\ Established(d)'
    BY <2>1, <2>3, OnwardKeeps DEF Keeps, OthersStay, WorldTypeOK
  <2>6. SnapshotsCoherent' /\ PhasesEstablished'
    BY <2>1, <2>5 DEF Keeps, SnapshotsCoherent, PhasesEstablished
  <2>7. DelayedLawful'
    BY <2>3, <2>4, OnwardDelayed DEF DelayedLawful, WorldTypeOK
  <2>8. TypeOK'
    BY <2>1, <2>2, <2>3, <2>4 DEF TypeOK, Keeps
  <2> QED BY <2>3, <2>6, <2>7, <2>8
<1>2. CASE LateUpdate
  <2>1. PICK spec \in delayed : /\ spec.version = svc.version
                                /\ Store(spec)
                                /\ delayed' = delayed \ {spec}
    BY <1>2 DEF LateUpdate, Accepted
  <2>2. UNCHANGED <<pc, snap, versions, docs, status, faults>>
    BY <1>2 DEF LateUpdate, localVars
  <2>3. IsService(spec) /\ spec \in LawfulSpecs(svc)
    BY <2>1 DEF DelayedLawful, TypeOK
  <2>4. WorldMoves
    BY <2>1, <2>3 DEF WorldMoves
  <2>5. WorldTypeOK' /\ VaultRecorded' /\ Onward
    BY <1>0, <2>4, MovesAreOnward
  <2>6. SnapshotsCoherent' /\ PhasesEstablished'
    BY <2>2, <2>5, OnwardKeeps DEF SnapshotsCoherent, PhasesEstablished, WorldTypeOK
  <2>7. \A r \in delayed' : /\ IsService(r)
                            /\ r.version <= svc.version
                            /\ r.version = svc.version => r \in LawfulSpecs(svc)
    BY <2>1 DEF DelayedLawful, TypeOK
  <2>8. DelayedLawful'
    BY <2>5, <2>7, OnwardDelayed DEF DelayedLawful, WorldTypeOK
  <2>9. TypeOK'
    BY <2>2, <2>5, <2>7 DEF TypeOK, LocalTypeOK
  <2> QED BY <2>5, <2>6, <2>8, <2>9
<1>3. CASE Others
  <2>1. WorldNext /\ UNCHANGED <<pc, snap, versions, docs, status, delayed, faults>>
    BY <1>3 DEF Others, localVars
  <2>2. WorldTypeOK' /\ VaultRecorded' /\ Onward
    BY <1>0, <2>1, WorldSteps
  <2>3. SnapshotsCoherent' /\ PhasesEstablished'
    BY <2>1, <2>2, OnwardKeeps DEF SnapshotsCoherent, PhasesEstablished, WorldTypeOK
  <2>4. \A r \in delayed : /\ IsService(r)
                           /\ r.version <= svc.version
                           /\ r.version = svc.version => r \in LawfulSpecs(svc)
    BY DEF DelayedLawful, TypeOK
  <2>5. DelayedLawful'
    BY <2>1, <2>2, <2>4, OnwardDelayed DEF DelayedLawful, WorldTypeOK
  <2>6. TypeOK'
    BY <2>1, <2>2 DEF TypeOK, LocalTypeOK
  <2> QED BY <2>2, <2>3, <2>5, <2>6
<1>4. CASE UNCHANGED vars
  BY <1>4 DEF vars, TypeOK, LocalTypeOK, WorldTypeOK, SnapshotsCoherent, Coherent,
     PhasesEstablished, Established, Secrets, DelayedLawful, LawfulSpecs, Injections,
     VaultRecorded
<1> QED BY <1>1, <1>2, <1>3, <1>4 DEF Next

\* The invariant the other theorems rest on: what each controller has read is
\* the present service or an older version of it, what it has established so
\* far still holds, and every request under way is lawful for its version.
THEOREM Invariant == Spec => []Inv
BY InitInv, NextInv, PTL DEF Spec

\* Type correctness: whatever the interleaving, the service, the documents,
\* the locals of every ReconcileService call and the status entries have the
\* shape the code gives them.
THEOREM TypeCorrect == Spec => []TypeOK
<1>1. Inv => TypeOK
  BY DEF Inv
<1> QED BY <1>1, Invariant, PTL

\* The state check suffices: when ReconcileService has read every document,
\* there is something to write, and the comparison before UpdateService never
\* ends an attempt.
THEOREM EarlyReturnUnreachable == Spec => []StateCheckSuffices
<1>1. Inv => StateCheckSuffices
  BY SomethingToWrite DEF StateCheckSuffices
<1> QED BY <1>1, Invariant, PTL

-----------------------------------------------------------------------------
(* Refinement and what operators own.                                      *)

\* A step stores a lawful spec, or is somebody else's, or moves nothing.
LEMMA NextMoves ==
  ASSUME Inv, [Next]_vars
  PROVE  WorldNext \/ WorldMoves
<1>1. ASSUME NEW c \in Controllers, Step(c) \/ Disturbance(c) PROVE WorldMoves
  BY <1>1, StepMovesWorld
<1>2. CASE LateUpdate
  <2>1. PICK spec \in delayed : spec.version = svc.version /\ Store(spec)
    BY <1>2 DEF LateUpdate, Accepted
  <2>2. IsService(spec) /\ spec \in LawfulSpecs(svc)
    BY <2>1 DEF Inv, DelayedLawful, TypeOK
  <2> QED BY <2>1, <2>2 DEF WorldMoves
<1>3. CASE Others
  BY <1>3 DEF Others
<1>4. CASE UNCHANGED vars
  BY <1>4 DEF vars, worldVars, WorldMoves
<1> QED BY <1>1, <1>2, <1>3, <1>4 DEF Next

\* ReconcileService is atomic for an observer of the service: although it
\* works from a snapshot and in many calls, and although calls time out and
\* requests arrive late, each of its updates is one lawful step on the service
\* as it is when Swarm stores the update.
THEOREM Refinement == Spec => InjectionSpec
<1>1. Init => WorldInit
  BY DEF Init
<1>2. Inv /\ [Next]_vars => [InjectionNext]_worldVars
  BY NextMoves DEF WorldMoves, InjectionNext, Write
<1> QED BY <1>1, <1>2, Invariant, PTL DEF Spec, InjectionSpec

\* The parts of the spec that an injection leaves alone.
LEMMA InjectionKeeps ==
  ASSUME WorldTypeOK, Admitted(svc), NEW spec \in Injections(svc)
  PROVE  /\ spec.image = svc.image /\ spec.container = svc.container
         /\ spec.user = svc.user
         /\ spec.placement \ {Gate} = svc.placement \ {Gate}
         /\ \E desired : /\ DOMAIN desired = ManagedEnvironment(spec.state)
                         /\ spec.env = Merge(svc.env, ManagedEnvironment(svc.state), desired)
<1>1. PICK pick \in [DOMAIN svc.user.secrets -> written] :
        /\ LawfulPick(svc, pick)
        /\ spec = Injected(svc, VersionsOf(svc, pick), DocsOf(svc, pick))
  BY DEF Injections
<1> DEFINE vs == VersionsOf(svc, pick)
           ds == DocsOf(svc, pick)
           desired == Desired(svc.user.secrets, ds)
<1>2. IsService(svc) /\ IsSecrets(svc.user.secrets)
  BY DEF WorldTypeOK, IsService, IsUserLabels
<1>3. \A x \in DOMAIN svc.user.secrets : x \in Sources /\ pick[x][3] \in Documents
  BY <1>2 DEF WorldTypeOK, IsSecrets, IsMap
<1>4. IsMap(ds, Sources, Documents) /\ DOMAIN ds = DOMAIN svc.user.secrets
  BY <1>3 DEF DocsOf, IsMap
<1>5. Compatible(svc.user.secrets, ds)
  BY <1>1 DEF LawfulPick
<1> HIDE DEF ds, vs
<1>6. IsMap(desired, Names, Values)
  BY <1>2, <1>4, <1>5, DesiredIsMap
<1>7. spec = Injected(svc, vs, ds)
  BY <1>1 DEF vs, ds
<1>8. /\ spec.image = svc.image /\ spec.container = svc.container
      /\ spec.user = svc.user
      /\ spec.placement = IF BootstrapGate(svc.user) THEN svc.placement \ {Gate}
                                                     ELSE svc.placement
      /\ spec.state = [applied |-> vs, managed |-> DOMAIN desired,
                       stateHash |-> Hash(desired), configHash |-> ConfigHash(svc.user)]
      /\ spec.env = Merge(svc.env, ManagedEnvironment(svc.state), desired)
  BY <1>2, <1>7 DEF Injected, IsService
<1> HIDE DEF desired
<1>9. ManagedEnvironment(spec.state) = DOMAIN desired
  BY <1>6, <1>8, LabelsAssumption DEF ManagedEnvironment, IsMap
<1>10. spec.placement \ {Gate} = svc.placement \ {Gate}
  BY <1>8
<1> QED BY <1>8, <1>9, <1>10

LEMMA CleanupKeeps ==
  ASSUME WorldTypeOK, NEW spec, spec = Cleaned(svc)
  PROVE  /\ spec.image = svc.image /\ spec.container = svc.container
         /\ spec.user = svc.user
         /\ spec.placement \ {Gate} = svc.placement \ {Gate}
         /\ \E desired : /\ DOMAIN desired = ManagedEnvironment(spec.state)
                         /\ spec.env = Merge(svc.env, ManagedEnvironment(svc.state), desired)
<1>1. /\ spec.image = svc.image /\ spec.container = svc.container
      /\ spec.user = svc.user /\ spec.placement = svc.placement
      /\ spec.state = NoState
      /\ spec.env = Merge(svc.env, ManagedEnvironment(svc.state), EmptyMap)
  BY DEF WorldTypeOK, IsService, Cleaned, Remove
<1>2. DOMAIN EmptyMap = ManagedEnvironment(spec.state)
  BY <1>1 DEF EmptyMap, ManagedEnvironment, NoState
<1> QED BY <1>1, <1>2

\* A controller's update never undoes what an operator did, even when the
\* controller works from an old snapshot or its request arrives late.
THEOREM OperatorsKeep == Spec => OperatorsKeepTheirs
<1> DEFINE ours == ManagedEnvironment(svc.state) \cup ManagedEnvironment(svc'.state)
           Kept == /\ svc'.image = svc.image
                   /\ svc'.container = svc.container
                   /\ svc'.user = svc.user
                   /\ DOMAIN svc'.env \ ours = DOMAIN svc.env \ ours
                   /\ \A n \in DOMAIN svc.env \ ours : svc'.env[n] = svc.env[n]
                   /\ svc'.placement \ {Gate} = svc.placement \ {Gate}
<1>1. ASSUME Inv, [Next]_vars, ControllerWrites PROVE Kept
  <2>1. WorldTypeOK /\ VaultRecorded
    BY <1>1 DEF Inv, TypeOK
  <2>2. ~WorldNext /\ ~UNCHANGED worldVars
    BY <1>1, <2>1, WorldSteps DEF ControllerWrites, worldVars
  <2>3. PICK spec \in LawfulSpecs(svc) : IsService(spec) /\ Store(spec)
    BY <1>1, <2>2, NextMoves DEF WorldMoves
  <2>4. /\ spec.image = svc.image /\ spec.container = svc.container
        /\ spec.user = svc.user
        /\ spec.placement \ {Gate} = svc.placement \ {Gate}
        /\ \E desired : /\ DOMAIN desired = ManagedEnvironment(spec.state)
                        /\ spec.env = Merge(svc.env, ManagedEnvironment(svc.state), desired)
    BY <2>1, <2>3, InjectionKeeps, CleanupKeeps DEF LawfulSpecs
  <2>5. /\ svc'.image = spec.image /\ svc'.container = spec.container
        /\ svc'.user = spec.user /\ svc'.placement = spec.placement
        /\ svc'.env = spec.env /\ svc'.state = spec.state
    BY <2>3 DEF Store, IsService
  <2>6. PICK desired : /\ DOMAIN desired = ManagedEnvironment(svc'.state)
                       /\ svc'.env = Merge(svc.env, ManagedEnvironment(svc.state), desired)
    BY <2>4, <2>5
  <2>7. /\ DOMAIN svc'.env \ ours = DOMAIN svc.env \ ours
        /\ \A n \in DOMAIN svc.env \ ours : svc'.env[n] = svc.env[n]
    BY <2>6 DEF Merge
  <2> QED BY <2>4, <2>5, <2>7
<1>2. Inv /\ [Next]_vars => [ControllerWrites => Kept]_vars
  BY <1>1
<1> QED BY <1>2, Invariant, PTL DEF Spec, OperatorsKeepTheirs

=============================================================================
