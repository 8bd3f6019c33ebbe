----------------------------- MODULE UpdateProofs -----------------------------
(***************************************************************************)
(* Proofs about the updates that controllers send: that each injection is  *)
(* complete, that updates answer changes and needs, that versions never go *)
(* back, and that the status entries tell the truth about it.              *)
(***************************************************************************)
EXTENDS ReconcileProofs

\* The reading of the sources that an injection is made from.
Reading(s, vs, ds) ==
  /\ IsMap(vs, Sources, Nat) /\ DOMAIN vs = DOMAIN s.user.secrets
  /\ IsMap(ds, Sources, Documents) /\ DOMAIN ds = DOMAIN s.user.secrets
  /\ Compatible(s.user.secrets, ds)
  /\ \A x \in DOMAIN s.user.secrets :
       <<KeyOf(s.user.secrets[x]), vs[x], ds[x]>> \in written

LEMMA InjectionHasReading ==
  ASSUME WorldTypeOK, NEW spec \in Injections(svc)
  PROVE  \E vs, ds : /\ Reading(svc, vs, ds)
                     /\ ~StateIsCurrent(svc, vs)
                     /\ spec = Injected(svc, vs, ds)
<1>1. PICK pick \in [DOMAIN svc.user.secrets -> written] :
        /\ LawfulPick(svc, pick)
        /\ spec = Injected(svc, VersionsOf(svc, pick), DocsOf(svc, pick))
  BY DEF Injections
<1>2. IsSecrets(svc.user.secrets) /\ DOMAIN svc.user.secrets \subseteq Sources
  BY DEF WorldTypeOK, IsService, IsUserLabels, IsSecrets, IsMap
<1>3. \A x \in DOMAIN svc.user.secrets :
        /\ pick[x] \in written
        /\ pick[x] \in DocKeys \X Nat \X Documents
        /\ pick[x][1] = KeyOf(svc.user.secrets[x])
  BY <1>1 DEF WorldTypeOK, LawfulPick
<1>4. \A x \in DOMAIN svc.user.secrets :
        /\ pick[x][2] \in Nat /\ pick[x][3] \in Documents
        /\ <<KeyOf(svc.user.secrets[x]), pick[x][2], pick[x][3]>> \in written
  BY <1>3
<1>5. Reading(svc, VersionsOf(svc, pick), DocsOf(svc, pick))
  BY <1>1, <1>2, <1>4 DEF Reading, VersionsOf, DocsOf, IsMap, LawfulPick
<1> QED BY <1>1, <1>5 DEF LawfulPick

\* A controller's write is one of the two lawful kinds, on the present service.
LEMMA WriteIsLawful ==
  ASSUME Inv, [Next]_vars, ControllerWrites
  PROVE  \E spec \in LawfulSpecs(svc) :
           IsService(spec) /\ spec.version = svc.version /\ Store(spec)
<1>1. WorldTypeOK /\ VaultRecorded
  BY DEF Inv, TypeOK
<1>2. ~WorldNext /\ ~UNCHANGED worldVars
  BY <1>1, WorldSteps DEF ControllerWrites, worldVars
<1> QED BY <1>2, NextMoves DEF WorldMoves

\* The stored service is the spec but for its version.
LEMMA StoredParts ==
  ASSUME NEW spec, IsService(spec), Store(spec)
  PROVE  /\ svc'.version = spec.version + 1
         /\ svc'.user = spec.user /\ svc'.image = spec.image
         /\ svc'.container = spec.container /\ svc'.env = spec.env
         /\ svc'.placement = spec.placement /\ svc'.state = spec.state
         /\ updates' = updates + 1 /\ UNCHANGED <<vault, written, changes>>
BY DEF Store, IsService

-----------------------------------------------------------------------------
(* Injections are complete.                                                *)

\* What one source owns of the desired environment is what it contributes.
LEMMA DesiredOfSource ==
  ASSUME NEW secrets, NEW ds, Compatible(secrets, ds), NEW x \in DOMAIN ds
  PROVE  /\ DOMAIN Mapping(secrets[x], ds[x]) \subseteq DOMAIN Desired(secrets, ds)
         /\ \A n \in DOMAIN Mapping(secrets[x], ds[x]) :
              Desired(secrets, ds)[n] = Contribution(secrets[x], ds[x])[n]
<1>1. OwnedBy(secrets, ds, x) = DOMAIN Mapping(secrets[x], ds[x])
  BY DEF OwnedBy, Contribution
<1>2. ASSUME NEW n \in OwnedBy(secrets, ds, x)
      PROVE  /\ n \in DOMAIN Desired(secrets, ds)
             /\ Desired(secrets, ds)[n] = Contribution(secrets[x], ds[x])[n]
  <2> DEFINE owner == CHOOSE y \in DOMAIN ds : n \in OwnedBy(secrets, ds, y)
  <2>1. owner \in DOMAIN ds /\ n \in OwnedBy(secrets, ds, owner)
    BY <1>2
  <2>2. owner = x
    BY <1>2, <2>1 DEF Compatible
  <2>3. n \in UNION {OwnedBy(secrets, ds, y) : y \in DOMAIN ds}
    BY <1>2
  <2> QED BY <2>2, <2>3 DEF Desired
<1> QED BY <1>1, <1>2

LEMMA InjectionCompletes ==
  ASSUME WorldTypeOK, Admitted(svc), NEW spec \in Injections(svc), IsService(spec),
         Store(spec)
  PROVE  CompleteEnvironment(svc)'
<1>1. PICK vs, ds : Reading(svc, vs, ds) /\ spec = Injected(svc, vs, ds)
  BY InjectionHasReading
<1> DEFINE secrets == svc.user.secrets
           desired == Desired(secrets, ds)
<1>2. /\ spec.user = svc.user
      /\ spec.env = Merge(svc.env, ManagedEnvironment(svc.state), desired)
      /\ spec.state = [applied |-> vs, managed |-> DOMAIN desired,
                       stateHash |-> Hash(desired), configHash |-> ConfigHash(svc.user)]
  <2>1. IsInjection(spec, svc, vs, desired)
    BY <1>1, InjectedParts DEF Reading, WorldTypeOK
  <2> QED BY <2>1 DEF IsInjection
<1>3. svc'.user = svc.user /\ svc'.env = spec.env /\ svc'.state.applied = vs
      /\ written' = written
  BY <1>2, StoredParts
<1> SUFFICES ASSUME NEW x \in DOMAIN secrets
             PROVE  \E w \in written' :
                      /\ w[1] = KeyOf(secrets[x])
                      /\ w[2] = vs[x]
                      /\ SourceResolves(secrets[x], w[3])
                      /\ Contribution(secrets[x], w[3])
                           = Select(svc'.env, DOMAIN Mapping(secrets[x], w[3]))
  BY <1>3 DEF CompleteEnvironment
<1> DEFINE w == <<KeyOf(secrets[x]), vs[x], ds[x]>>
           mapping == Mapping(secrets[x], ds[x])
<1>4. w \in written /\ x \in DOMAIN ds /\ Compatible(secrets, ds)
  BY <1>1 DEF Reading
<1>5. SourceResolves(secrets[x], ds[x])
  BY <1>4 DEF Compatible
<1>6. /\ DOMAIN mapping \subseteq DOMAIN desired
      /\ \A n \in DOMAIN mapping : desired[n] = Contribution(secrets[x], ds[x])[n]
  BY <1>4, DesiredOfSource
<1>7. /\ DOMAIN mapping \subseteq DOMAIN svc'.env
      /\ \A n \in DOMAIN mapping : svc'.env[n] = Contribution(secrets[x], ds[x])[n]
  BY <1>2, <1>3, <1>6 DEF Merge
<1>8. Contribution(secrets[x], ds[x])
        = [n \in DOMAIN mapping |-> Contribution(secrets[x], ds[x])[n]]
  BY DEF Contribution
<1>9. DOMAIN svc'.env \cap DOMAIN mapping = DOMAIN mapping
  BY <1>7
<1>10. Select(svc'.env, DOMAIN mapping)
         = [n \in DOMAIN mapping |-> Contribution(secrets[x], ds[x])[n]]
  BY <1>7, <1>9 DEF Select
<1>11. Contribution(secrets[x], ds[x]) = Select(svc'.env, DOMAIN mapping)
  BY <1>8, <1>10
<1> QED BY <1>3, <1>4, <1>5, <1>11

\* A write leaves a complete injection, or a service that asks for none.
LEMMA WriteCompletes ==
  ASSUME Inv, [Next]_vars, ControllerWrites
  PROVE  Injectable(svc)' => CompleteEnvironment(svc)'
<1>0. WorldTypeOK
  BY DEF Inv, TypeOK
<1>1. PICK spec \in LawfulSpecs(svc) : IsService(spec) /\ Store(spec)
  BY WriteIsLawful
<1>2. CASE Admitted(svc) /\ spec \in Injections(svc)
  BY <1>0, <1>1, <1>2, InjectionCompletes
<1>3. CASE CleanupDue(svc) /\ spec = Cleaned(svc)
  <2>1. svc'.user = svc.user
    BY <1>0, <1>1, <1>3, StoredParts, CleanupKeeps
  <2> QED BY <1>3, <2>1 DEF CleanupDue, Disabled, Injectable
<1> QED BY <1>1, <1>2, <1>3 DEF LawfulSpecs

\* Every update that leaves a service with injection enabled leaves it with all
\* variables of all its sources, each from a document that Vault held under the
\* version recorded for it.
UpdatesComplete ==
  [][ControllerWrites /\ Injectable(svc)' => CompleteEnvironment(svc)']_vars

\* ReconcileService never stores half an injection, whichever of its sources
\* move, fail or vanish while it reads them.
THEOREM Completeness == Spec => UpdatesComplete
<1>1. Inv /\ [Next]_vars
        => [ControllerWrites /\ Injectable(svc)' => CompleteEnvironment(svc)']_vars
  BY WriteCompletes
<1> QED BY <1>1, Invariant, PTL DEF Spec, UpdatesComplete

\* Every stack file that asks for the gate carries it.
StacksCarryGate ==
  \A d \in Deployments :
    Injectable(Deployed(d, 1)) /\ BootstrapGate(d.user) => Gate \in d.placement

\* The variables that the sources of s may have put into its environment.
NamesOfSources(s) ==
  UNION {DOMAIN Mapping(s.user.secrets[x], doc) :
           x \in DOMAIN s.user.secrets, doc \in Documents}

\* Whoever edits labels, controller state or environment by hand has closed the
\* gate before, or leaves a service without a gate, or leaves the variables of
\* the sources alone.
CarefulEdits ==
  EditLabels \/ EditEnvironment \/ TamperState =>
    \/ HasBootstrapGate(svc)
    \/ ~(Injectable(svc)' /\ BootstrapGate(svc'.user))
    \/ /\ EditEnvironment
       /\ Select(svc'.env, NamesOfSources(svc)) = Select(svc.env, NamesOfSources(svc))

\* Nobody edits them at all.
HandsOff == Kinds \cap {"labels", "env", "tamper"} = {}

\* Two environments that agree on some names agree on fewer.
LEMMA SelectFewer ==
  ASSUME NEW e, NEW f, NEW N, NEW M \in SUBSET N, Select(e, N) = Select(f, N)
  PROVE  Select(e, M) = Select(f, M)
<1>1. DOMAIN Select(e, N) = N \cap DOMAIN e /\ DOMAIN Select(f, N) = N \cap DOMAIN f
  BY DEF Select
<1>2. M \cap DOMAIN e = M \cap DOMAIN f
  BY <1>1
<1>3. ASSUME NEW n \in M \cap DOMAIN e PROVE e[n] = f[n]
  <2>1. Select(e, N)[n] = e[n] /\ Select(f, N)[n] = f[n]
    BY <1>2, <1>3 DEF Select
  <2> QED BY <2>1
<1> QED BY <1>2, <1>3 DEF Select

\* Changes by hand that are careful.
LEMMA CarefulLeavesComplete ==
  ASSUME WorldTypeOK, GatedTasksComplete, CarefulEdits,
         EditLabels \/ EditEnvironment \/ TamperState
  PROVE  GatedTasksComplete'
<1>1. svc'.placement = svc.placement /\ written' = written
  BY DEF EditLabels, EditEnvironment, TamperState, ServiceChange, WorldTypeOK, IsService
<1>2. CASE HasBootstrapGate(svc)
  BY <1>1, <1>2 DEF GatedTasksComplete, HasBootstrapGate
<1>3. CASE ~(Injectable(svc)' /\ BootstrapGate(svc'.user))
  BY <1>3 DEF GatedTasksComplete
<1>4. CASE /\ EditEnvironment
           /\ Select(svc'.env, NamesOfSources(svc)) = Select(svc.env, NamesOfSources(svc))
  <2>1. svc'.user = svc.user /\ svc'.state = svc.state
    BY <1>4 DEF EditEnvironment, WorldTypeOK, IsService
  <2>2. ASSUME NEW x \in DOMAIN svc.user.secrets, NEW w \in written
        PROVE  Select(svc'.env, DOMAIN Mapping(svc.user.secrets[x], w[3]))
                 = Select(svc.env, DOMAIN Mapping(svc.user.secrets[x], w[3]))
    <3>1. w[3] \in Documents
      BY <2>2 DEF WorldTypeOK
    <3>2. DOMAIN Mapping(svc.user.secrets[x], w[3]) \subseteq NamesOfSources(svc)
      BY <3>1 DEF NamesOfSources
    <3> QED BY <1>4, <3>2, SelectFewer
  <2> QED BY <1>1, <2>1, <2>2 DEF GatedTasksComplete, Injectable, HasBootstrapGate,
                                  CompleteEnvironment
<1> QED BY <1>2, <1>3, <1>4 DEF CarefulEdits

\* Changes by others, the careful edits included.
LEMMA OthersLeaveComplete ==
  ASSUME WorldTypeOK, VaultRecorded, StacksCarryGate, CarefulEdits,
         GatedTasksComplete, WorldNext
  PROVE  GatedTasksComplete'
<1>1. written \subseteq written'
  BY WorldSteps DEF Onward
<1>2. CASE EditLabels \/ EditEnvironment \/ TamperState
  BY <1>2, CarefulLeavesComplete
<1>3. CASE StackDeploy
  <2>1. PICK d \in Deployments : svc' = Deployed(d, svc.version + 1)
    BY <1>3 DEF StackDeploy
  <2>2. svc'.user = d.user /\ svc'.placement = d.placement
    BY <2>1 DEF Deployed
  <2> QED BY <2>2 DEF StacksCarryGate, Deployed, GatedTasksComplete, Injectable,
                      HasBootstrapGate
<1>4. CASE CloseGate
  <2>1. svc'.placement = svc.placement \cup {Gate}
    BY <1>4 DEF CloseGate, WorldTypeOK, IsService
  <2> QED BY <2>1 DEF GatedTasksComplete, HasBootstrapGate
<1>5. CASE EditSpec \/ TouchService \/ VaultPut \/ VaultDelete \/ VaultPurge
  <2>1. /\ svc'.user = svc.user /\ svc'.placement = svc.placement
        /\ svc'.env = svc.env /\ svc'.state = svc.state
    BY <1>5 DEF EditSpec, TouchService, VaultPut, VaultDelete, VaultPurge, VaultChange,
       WorldTypeOK, IsService
  <2> QED BY <1>1, <2>1 DEF GatedTasksComplete, Injectable, HasBootstrapGate,
                            CompleteEnvironment
<1> QED BY <1>2, <1>3, <1>4, <1>5 DEF WorldNext

\* The bootstrap gate does what the documentation promises: once tasks may start,
\* the service has the complete environment of one injection.  Edits by hand are
\* allowed as long as they are careful.
THEOREM GateSurvivesCarefulEdits ==
  ASSUME StacksCarryGate
  PROVE  Spec /\ [][CarefulEdits]_vars => []GatedTasksComplete
<1>1. Init => GatedTasksComplete
  BY DEF Init, WorldInit, Deployed, StacksCarryGate, GatedTasksComplete, Injectable,
     HasBootstrapGate
<1>2. ASSUME Inv, GatedTasksComplete, [Next]_vars, [CarefulEdits]_vars
      PROVE  GatedTasksComplete'
  <2>0. WorldTypeOK /\ VaultRecorded
    BY <1>2 DEF Inv, TypeOK
  <2>1. CASE ControllerWrites
    BY <1>2, <2>1, WriteCompletes DEF GatedTasksComplete
  <2>2. CASE UNCHANGED worldVars
    BY <1>2, <2>2 DEF worldVars, GatedTasksComplete, CompleteEnvironment
  <2>3. CASE WorldNext /\ ~UNCHANGED worldVars
    <3>1. CarefulEdits
      BY <1>2, <2>3 DEF vars, worldVars
    <3> QED BY <1>2, <2>0, <2>3, <3>1, OthersLeaveComplete
  <2>4. CASE ~ControllerWrites /\ WorldMoves
    <3>1. UNCHANGED worldVars
      <4>1. updates \in Nat
        BY <2>0 DEF WorldTypeOK
      <4> QED BY <2>4, <4>1 DEF WorldMoves, ControllerWrites, Store
    <3> QED BY <2>2, <3>1
  <2> QED BY <1>2, <2>1, <2>2, <2>3, <2>4, NextMoves
<1> QED BY <1>1, <1>2, Invariant, PTL DEF Spec

\* The same where nobody edits by hand.
THEOREM GateHolds ==
  ASSUME StacksCarryGate, HandsOff
  PROVE  Spec => []GatedTasksComplete
<1>1. [Next]_vars => [CarefulEdits]_vars
  BY DEF CarefulEdits, HandsOff, EditLabels, EditEnvironment, TamperState, ServiceChange,
     External
<1> QED BY <1>1, GateSurvivesCarefulEdits, PTL DEF Spec

-----------------------------------------------------------------------------
(* Updates answer changes.  updates + 1 or + 2 stays within the budget as  *)
(* long as one or two more updates are on their way.                       *)

\* The version of the source x of s that Vault now has.
LatestOf(s, x) == Len(vault[KeyOf(s.user.secrets[x])])

\* The labels of s do not name that version.
Moved(s, x) ==
  LET applied == AppliedVersions(s.state) IN
  x \notin DOMAIN applied \/ applied[x] # LatestOf(s, x)

\* The service is as its own labels say, up to the version of the sources.
Clean(s) ==
  /\ StateIsCurrent(s, AppliedVersions(s.state))
  /\ DOMAIN AppliedVersions(s.state) \subseteq DOMAIN s.user.secrets

\* The service itself, or Vault, calls for an update.
Due(s) == CleanupDue(s) \/ (Admitted(s) /\ ~Clean(s))
Stale(s) == Admitted(s) /\ \E x \in DOMAIN s.user.secrets : Moved(s, x)

\* The versions m of some sources are not those of the labels; not those of Vault.
Differs(s, m) ==
  LET applied == AppliedVersions(s.state) IN
  \E x \in DOMAIN m : x \notin DOMAIN applied \/ applied[x] # m[x]
Outdated(s, m) == \E x \in DOMAIN m : m[x] # LatestOf(s, x)

\* The controller works on the service as it is, and what it has seen so far or
\* is about to see makes it write.
AtWork(c) == pc[c] # "idle" /\ snap[c].version = svc.version
MayWrite(c) ==
  \/ Due(svc)
  \/ Differs(svc, versions[c])
  \/ \E x \in DOMAIN svc.user.secrets \ DOMAIN versions[c] : Moved(svc, x)

\* A request under way that Swarm would accept.
Pending(spec) == spec \in delayed /\ spec.version = svc.version

\* One more update may come; two may, the first with versions already outdated.
Prompted ==
  \/ Due(svc)
  \/ Stale(svc)
  \/ \E c \in Controllers : AtWork(c) /\ Differs(svc, versions[c])
  \/ \E spec \in delayed : Pending(spec)
PromptedTwice ==
  \/ \E c \in Controllers : AtWork(c) /\ Outdated(svc, versions[c]) /\ MayWrite(c)
  \/ \E spec \in delayed : Pending(spec) /\ Outdated(svc, AppliedVersions(spec.state))

Budget == UpdatesPerChange * changes + 1

UserFromStack == \E d \in Deployments : svc.user = d.user

WithinBudget ==
  /\ UserFromStack
  /\ updates <= Budget
  /\ Prompted => updates + 1 <= Budget
  /\ PromptedTwice => updates + 2 <= Budget

LEMMA Units == UpdatesPerChange \in {1, 2} /\ (UpdatesPerChange = 1 => ~SharedDocument)
BY DEF UpdatesPerChange

\* Others count their changes.
LEMMA ChangesCounted ==
  ASSUME WorldNext
  PROVE  changes' = changes + 1 /\ updates' = updates
BY DEF WorldNext, StackDeploy, EditSpec, EditLabels, EditEnvironment, CloseGate,
   TamperState, TouchService, VaultPut, VaultDelete, VaultPurge, ServiceChange,
   VaultChange, External

\* A change by others leaves room for UpdatesPerChange more updates.
LEMMA BudgetGrows ==
  ASSUME WorldTypeOK, WorldNext
  PROVE  Budget \in Nat /\ Budget' = Budget + UpdatesPerChange
<1>1. changes \in Nat /\ changes' = changes + 1
  BY ChangesCounted, WorldAssumption DEF WorldTypeOK
<1>2. UpdatesPerChange' = UpdatesPerChange
  BY DEF UpdatesPerChange, SharedDocument
<1>3. CASE UpdatesPerChange = 1
  BY <1>1, <1>2, <1>3 DEF Budget
<1>4. CASE UpdatesPerChange = 2
  BY <1>1, <1>2, <1>4 DEF Budget
<1> QED BY <1>3, <1>4, Units

\* Who asks for an update asks with reason.
LEMMA WriterHasReason ==
  ASSUME Inv, NEW c \in Controllers, ReadyToUpdate(c), AtWork(c)
  PROVE  /\ snap[c] = svc
         /\ Due(svc) \/ Differs(svc, versions[c])
<1>0. LocalTypeOK /\ Established(c) /\ snap[c] = svc
  BY DEF Inv, TypeOK, PhasesEstablished, SnapshotsCoherent, Coherent, AtWork
<1>1. CASE pc[c] = "cleanup"
  BY <1>0, <1>1 DEF Established, Due
<1>2. CASE pc[c] = "data"
  <2>1. /\ Admitted(svc) /\ ~StateIsCurrent(svc, versions[c])
        /\ DOMAIN versions[c] = DOMAIN svc.user.secrets
    BY <1>0, <1>2 DEF Established, Secrets
  <2>2. IsMap(versions[c], Sources, Nat)
    BY <1>0 DEF LocalTypeOK
  <2> SUFFICES ASSUME Clean(svc), ~Differs(svc, versions[c]) PROVE FALSE
    BY <1>0, <2>1 DEF Due
  <2> DEFINE applied == AppliedVersions(svc.state)
  <2>3. /\ StateIsCurrent(svc, applied)
        /\ DOMAIN applied \subseteq DOMAIN versions[c]
        /\ \A x \in DOMAIN versions[c] : x \in DOMAIN applied /\ applied[x] = versions[c][x]
    BY <2>1 DEF Clean, Differs
  <2>4. IsMap(applied, Sources, Nat)
    <3>1. svc.state.applied # Garbage /\ IsStateLabels(svc.state)
      BY <2>1 DEF Admitted, Inv, TypeOK, WorldTypeOK, IsService
    <3> QED BY <3>1, EmptyMapIsMap DEF AppliedVersions, IsStateLabels
  <2> HIDE DEF applied
  <2>5. applied = versions[c]
    BY <2>2, <2>3, <2>4 DEF IsMap
  <2> QED BY <2>1, <2>3, <2>5
<1> QED BY <1>1, <1>2 DEF ReadyToUpdate, AllRead

\* An injection that Swarm stores.
LEMMA InjectionSettles ==
  ASSUME WorldTypeOK, Admitted(svc), NEW spec \in Injections(svc), IsService(spec),
         Store(spec)
  PROVE  /\ ~CleanupDue(svc)' /\ Clean(svc)'
         /\ Stale(svc)' => Outdated(svc, AppliedVersions(spec.state))
<1>1. PICK vs, ds : Reading(svc, vs, ds) /\ spec = Injected(svc, vs, ds)
  BY InjectionHasReading
<1>2. IsInjection(spec, svc, vs, Desired(svc.user.secrets, ds))
  BY <1>1, InjectedParts DEF Reading, WorldTypeOK
<1>3. AppliedVersions(spec.state) = vs /\ StateIsCurrent(spec, vs)
  BY <1>1, InjectedIsCurrent DEF Reading, WorldTypeOK
<1>4. /\ svc'.user = svc.user /\ svc'.state = spec.state /\ svc'.env = spec.env
      /\ svc'.placement = spec.placement /\ spec.user = svc.user
      /\ UNCHANGED vault
  BY <1>2, StoredParts DEF IsInjection
<1>5. DOMAIN vs = DOMAIN svc.user.secrets
  BY <1>1 DEF Reading
<1>6. ~CleanupDue(svc)'
  BY <1>4 DEF CleanupDue, Disabled, Admitted, Injectable
<1>7. Clean(svc)'
  BY <1>3, <1>4, <1>5 DEF Clean, StateIsCurrent, HasBootstrapGate
<1>8. Stale(svc)' => Outdated(svc, vs)
  BY <1>3, <1>4, <1>5 DEF Stale, Moved, Outdated, LatestOf
<1> QED BY <1>3, <1>6, <1>7, <1>8

\* A stored update calls for another one only if it was outdated when stored.
LEMMA WriteSettles ==
  ASSUME WorldTypeOK, NEW spec \in LawfulSpecs(svc), IsService(spec), Store(spec)
  PROVE  /\ ~Due(svc)'
         /\ Stale(svc)' => Outdated(svc, AppliedVersions(spec.state))
<1>1. CASE Admitted(svc) /\ spec \in Injections(svc)
  BY <1>1, InjectionSettles DEF Due
<1>2. CASE CleanupDue(svc) /\ spec = Cleaned(svc)
  <2>1. svc'.user = svc.user /\ svc'.state = NoState
    BY <1>2, StoredParts, CleanupKeeps DEF Cleaned, WorldTypeOK, IsService
  <2>2. ~Admitted(svc)' /\ ~CleanupDue(svc)'
    BY <1>2, <2>1 DEF CleanupDue, Disabled, Admitted, Injectable, HasControllerState,
       NoState
  <2> QED BY <2>2 DEF Due, Stale
<1> QED BY <1>1, <1>2 DEF LawfulSpecs

\* A new version of the service ends the work on the old one.
LEMMA NewVersionEndsWork ==
  ASSUME Inv, IsService(svc'), svc'.version = svc.version + 1, delayed' \subseteq delayed,
         \A c \in Controllers : pc'[c] = "idle" \/ UNCHANGED <<pc[c], snap[c]>>
  PROVE  /\ \A c \in Controllers : ~AtWork(c)'
         /\ \A spec \in delayed' : ~Pending(spec)'
<1>1. svc.version \in Nat
  BY DEF Inv, TypeOK, WorldTypeOK, IsService
<1>2. ASSUME NEW c \in Controllers PROVE ~AtWork(c)'
  <2>1. pc[c] # "idle" => snap[c].version <= svc.version /\ snap[c].version \in Nat
    BY DEF Inv, SnapshotsCoherent, Coherent, TypeOK, LocalTypeOK, IsService
  <2> QED BY <1>1, <2>1 DEF AtWork
<1>3. ASSUME NEW spec \in delayed' PROVE ~Pending(spec)'
  <2>1. spec.version <= svc.version /\ spec.version \in Nat
    BY DEF Inv, DelayedLawful, TypeOK, IsService
  <2> QED BY <1>1, <2>1 DEF Pending
<1> QED BY <1>2, <1>3

\* Where no two sources name one document, a change of one document gives no
\* reason for a second update that was not a reason for a first one before.
LEMMA VaultPromptsOnce ==
  ASSUME Inv, UserFromStack, ~SharedDocument, UNCHANGED svc,
         VaultPut \/ VaultDelete \/ VaultPurge,
         UNCHANGED <<pc, snap, versions, delayed>>, PromptedTwice'
  PROVE  Prompted
<1>1. PICK k \in DocKeys : \A other \in DocKeys \ {k} : vault'[other] = vault[other]
  BY DEF VaultPut, VaultDelete, VaultPurge, Inv, TypeOK, WorldTypeOK
<1>2. CASE \E spec \in delayed : Pending(spec)
  BY <1>2 DEF Prompted
<1>3. CASE /\ \A spec \in delayed : ~Pending(spec)
           /\ \E c \in Controllers :
                (AtWork(c) /\ Outdated(svc, versions[c]) /\ MayWrite(c))'
  <2>1. PICK c \in Controllers : (AtWork(c) /\ Outdated(svc, versions[c]) /\ MayWrite(c))'
    BY <1>3
  <2>2. PICK x \in DOMAIN versions[c] : versions[c][x] # LatestOf(svc, x)'
    BY <2>1 DEF Outdated
  <2>3. AtWork(c) /\ snap[c] = svc
    BY <2>1 DEF AtWork, Inv, SnapshotsCoherent, Coherent
  <2>4. Admitted(svc) /\ DOMAIN versions[c] \subseteq DOMAIN svc.user.secrets
    <3>1. Established(c) /\ LocalTypeOK
      BY DEF Inv, PhasesEstablished, TypeOK
    <3>2. pc[c] \in {"metadata", "data"}
      BY <2>2, <3>1 DEF Established, EmptyMap, LocalTypeOK
    <3> QED BY <2>3, <3>1, <3>2 DEF Established, Secrets
  <2> SUFFICES ASSUME ~Due(svc), ~Differs(svc, versions[c]), ~Stale(svc) PROVE FALSE
    BY <2>3 DEF Prompted
  <2>5. PICK y \in DOMAIN svc.user.secrets \ DOMAIN versions[c] : Moved(svc, y)'
    BY <2>1 DEF MayWrite, Due, Differs, Admitted, Clean
  <2>6. /\ KeyOf(svc.user.secrets[x]) \in DocKeys /\ KeyOf(svc.user.secrets[y]) \in DocKeys
        /\ KeyOf(svc.user.secrets[x]) # KeyOf(svc.user.secrets[y])
    BY <2>4, AdmittedKeys DEF UserFromStack, SharedDocument, Inv, TypeOK, WorldTypeOK
  <2>7. ~Moved(svc, x) /\ ~Moved(svc, y)
    BY <2>4 DEF Stale
  <2>8. LatestOf(svc, y)' # LatestOf(svc, y)
    BY <2>5, <2>7 DEF Moved
  <2>9. LatestOf(svc, x)' # LatestOf(svc, x)
    BY <2>2, <2>7 DEF Moved, Differs
  <2> QED BY <1>1, <2>6, <2>8, <2>9 DEF LatestOf
<1> QED BY <1>2, <1>3 DEF PromptedTwice, Pending

\* The user labels of the service are always those of some stack file.
LEMMA StackNamed ==
  ASSUME WorldTypeOK, UserFromStack, WorldNext
  PROVE  UserFromStack'
<1>1. CASE StackDeploy
  BY <1>1 DEF StackDeploy, Deployed, UserFromStack
<1>2. CASE EditLabels
  <2>1. PICK d \in Deployments : svc' = [svc EXCEPT !.version = @ + 1, !.user = d.user]
    BY <1>2 DEF EditLabels
  <2>2. svc'.user = d.user
    BY <2>1 DEF WorldTypeOK, IsService
  <2> QED BY <2>2 DEF UserFromStack
<1>3. CASE ~StackDeploy /\ ~EditLabels
  <2>1. svc'.user = svc.user
    BY <1>3 DEF WorldNext, EditSpec, EditEnvironment, CloseGate, TamperState,
       TouchService, VaultPut, VaultDelete, VaultPurge, VaultChange, WorldTypeOK, IsService
  <2> QED BY <2>1 DEF UserFromStack
<1> QED BY <1>1, <1>2, <1>3

\* Changes by others keep the budget: a change of the service ends all work on
\* it, and a new version in Vault makes one more update necessary, two only where
\* two sources name the document.
LEMMA OthersKeepBudget ==
  ASSUME Inv, Inv', WithinBudget, Others
  PROVE  WithinBudget'
<1>0. /\ WorldNext /\ WorldTypeOK /\ UNCHANGED <<pc, snap, versions, docs, delayed>>
      /\ updates \in Nat
  BY DEF Others, Inv, TypeOK, localVars, WorldTypeOK
<1>1. /\ Budget \in Nat /\ Budget' = Budget + UpdatesPerChange
      /\ updates' = updates
  BY <1>0, BudgetGrows, ChangesCounted
<1>2. CASE \/ StackDeploy \/ EditSpec \/ EditLabels \/ EditEnvironment
           \/ CloseGate \/ TamperState \/ TouchService
  <2>1. IsService(svc') /\ svc'.version = svc.version + 1
    BY <1>0, <1>2, ServiceSteps
  <2>2. ~PromptedTwice'
    <3>1. /\ \A c \in Controllers : ~AtWork(c)'
          /\ \A spec \in delayed' : ~Pending(spec)'
      BY <1>0, <2>1, NewVersionEndsWork
    <3> QED BY <3>1 DEF PromptedTwice
  <2>3. UserFromStack'
    BY <1>0, <1>2, StackNamed DEF WithinBudget
  <2> QED BY <1>0, <1>1, <2>2, <2>3, Units DEF WithinBudget
<1>3. CASE VaultPut \/ VaultDelete \/ VaultPurge
  <2>1. UNCHANGED svc
    BY <1>3 DEF VaultPut, VaultDelete, VaultPurge, VaultChange
  <2>2. UserFromStack'
    BY <2>1 DEF WithinBudget, UserFromStack
  <2>3. CASE SharedDocument
    <3>1. UpdatesPerChange = 2
      BY <2>3 DEF UpdatesPerChange
    <3> QED BY <1>0, <1>1, <2>2, <3>1 DEF WithinBudget
  <2>4. CASE ~SharedDocument
    <3>1. PromptedTwice' => Prompted
      BY <1>0, <1>3, <2>1, <2>4, VaultPromptsOnce DEF WithinBudget
    <3> QED BY <1>0, <1>1, <2>2, <3>1, Units DEF WithinBudget
  <2> QED BY <2>3, <2>4
<1> QED BY <1>0, <1>2, <1>3 DEF WorldNext

\* A controller's update uses the budget it was given.
LEMMA WriteKeepsBudget ==
  ASSUME Inv, WithinBudget, Prompted,
         NEW spec \in LawfulSpecs(svc), IsService(spec), spec.version = svc.version,
         Store(spec), delayed' \subseteq delayed,
         \A c \in Controllers : pc'[c] = "idle" \/ UNCHANGED <<pc[c], snap[c]>>,
         Outdated(svc, AppliedVersions(spec.state)) => PromptedTwice
  PROVE  WithinBudget'
<1>0. WorldTypeOK /\ updates \in Nat /\ changes \in Nat
  BY WorldAssumption DEF Inv, TypeOK, WorldTypeOK
<1>1. /\ svc'.version = svc.version + 1 /\ svc'.user = spec.user /\ spec.user = svc.user
      /\ updates' = updates + 1 /\ UNCHANGED <<vault, changes>>
  BY <1>0, StoredParts, InjectionKeeps, CleanupKeeps DEF LawfulSpecs
<1>2. IsService(svc')
  BY <1>1 DEF Store, IsService
<1>3. ~Due(svc)' /\ (Stale(svc)' => PromptedTwice)
  BY <1>0, WriteSettles
<1>4. /\ \A c \in Controllers : ~AtWork(c)'
      /\ \A r \in delayed' : ~Pending(r)'
  BY <1>1, <1>2, NewVersionEndsWork
<1>5. ~PromptedTwice' /\ (Prompted' => PromptedTwice)
  BY <1>3, <1>4 DEF Prompted, PromptedTwice
<1>6. Budget \in Nat /\ Budget' = Budget
  <2>1. UpdatesPerChange' = UpdatesPerChange
    BY DEF UpdatesPerChange, SharedDocument
  <2> QED BY <1>0, <1>1, <2>1, Units DEF Budget
<1>7. UserFromStack'
  BY <1>1 DEF WithinBudget, UserFromStack
<1> QED BY <1>0, <1>1, <1>5, <1>6, <1>7 DEF WithinBudget

\* Steps that move neither the service nor Vault bring no new reason to write.
LEMMA QuietKeepsBudget ==
  ASSUME Inv, WithinBudget, UNCHANGED worldVars,
         Prompted' => Prompted, PromptedTwice' => PromptedTwice
  PROVE  WithinBudget'
BY DEF WithinBudget, worldVars, UserFromStack, Budget, UpdatesPerChange, SharedDocument

\* What a controller is about to send records the versions it has read.
LEMMA WantedParts ==
  ASSUME Inv, NEW c \in Controllers, ReadyToUpdate(c)
  PROVE  /\ Wanted(c).version = snap[c].version
         /\ AppliedVersions(Wanted(c).state) = versions[c]
<1>0. LocalTypeOK /\ Established(c)
  BY DEF Inv, TypeOK, PhasesEstablished
<1>1. CASE pc[c] = "cleanup"
  <2>1. IsService(snap[c]) /\ versions[c] = EmptyMap
    BY <1>0, <1>1 DEF LocalTypeOK, Established
  <2> QED BY <1>1, <2>1 DEF Wanted, Cleaned, IsService, NoState, AppliedVersions
<1>2. CASE pc[c] = "data"
  <2>1. /\ IsService(snap[c]) /\ Admitted(snap[c])
        /\ IsMap(versions[c], Sources, Nat) /\ IsMap(docs[c], Sources, Documents)
        /\ DOMAIN docs[c] \subseteq DOMAIN snap[c].user.secrets
        /\ Compatible(snap[c].user.secrets, docs[c])
        /\ Wanted(c) = Injected(snap[c], versions[c], docs[c])
    BY <1>0, <1>2 DEF LocalTypeOK, Established, Secrets, Wanted
  <2>2. IsInjection(Wanted(c), snap[c], versions[c],
                    Desired(snap[c].user.secrets, docs[c]))
    BY <2>1, InjectedParts
  <2> QED BY <2>1, <2>2, InjectedIsCurrent DEF IsInjection
<1> QED BY <1>1, <1>2 DEF ReadyToUpdate, AllRead

\* The request it sends is one the budget foresees.
LEMMA WriterCounts ==
  ASSUME Inv, NEW c \in Controllers, ReadyToUpdate(c), Wanted(c).version = svc.version
  PROVE  /\ Prompted
         /\ Outdated(svc, AppliedVersions(Wanted(c).state)) => PromptedTwice
<1>1. AtWork(c)
  BY WantedParts, WantedIsLawful DEF AtWork
<1>2. Due(svc) \/ Differs(svc, versions[c])
  BY <1>1, WriterHasReason
<1> QED BY <1>1, <1>2, WantedParts DEF Prompted, PromptedTwice, MayWrite

\* What a controller learns without touching the world.
Learns(c) ==
  \/ versions'[c] = EmptyMap
  \/ AtWork(c) /\ versions'[c] = versions[c]
  \/ /\ AtWork(c) /\ Admitted(svc)
     /\ \E x \in DOMAIN svc.user.secrets \ DOMAIN versions[c] :
          versions'[c] = Put(versions[c], x, LatestOf(svc, x))

LEMMA LearningPromptsNothing ==
  ASSUME Inv, UNCHANGED worldVars,
         \A c \in Controllers : AtWork(c)' => Learns(c),
         \A spec \in delayed' : Pending(spec)' =>
           \/ Pending(spec)
           \/ Prompted /\ (Outdated(svc, AppliedVersions(spec.state)) => PromptedTwice)
  PROVE  (Prompted' => Prompted) /\ (PromptedTwice' => PromptedTwice)
<1>0. UNCHANGED <<svc, vault>>
  BY DEF worldVars
<1>1. Due(svc)' = Due(svc) /\ Stale(svc)' = Stale(svc)
  BY <1>0 DEF Due, Stale, Moved, LatestOf
<1>2. \A c \in Controllers :
        /\ Outdated(svc, versions[c])' => Outdated(svc, versions'[c])
        /\ Differs(svc, versions[c])' => Differs(svc, versions'[c])
  BY <1>0 DEF Outdated, Differs, LatestOf
<1>3. ASSUME NEW c \in Controllers, AtWork(c)', Differs(svc, versions'[c])
      PROVE  Prompted
  <2>1. CASE versions'[c] = EmptyMap
    BY <1>3, <2>1 DEF Differs, EmptyMap
  <2>2. CASE AtWork(c) /\ versions'[c] = versions[c]
    BY <1>3, <2>2 DEF Prompted
  <2>3. CASE /\ AtWork(c) /\ Admitted(svc)
             /\ \E x \in DOMAIN svc.user.secrets \ DOMAIN versions[c] :
                  versions'[c] = Put(versions[c], x, LatestOf(svc, x))
    <3>1. PICK x \in DOMAIN svc.user.secrets \ DOMAIN versions[c] :
            versions'[c] = Put(versions[c], x, LatestOf(svc, x))
      BY <2>3
    <3>2. Differs(svc, versions[c]) \/ Moved(svc, x)
      BY <1>3, <3>1 DEF Differs, Moved, Put
    <3> QED BY <2>3, <3>1, <3>2 DEF Prompted, Stale
  <2> QED BY <1>3, <2>1, <2>2, <2>3 DEF Learns
<1>4. ASSUME NEW c \in Controllers, AtWork(c)', Outdated(svc, versions'[c]), MayWrite(c)'
      PROVE  PromptedTwice
  <2>0. \/ Due(svc) \/ Differs(svc, versions'[c])
        \/ \E x \in DOMAIN svc.user.secrets \ DOMAIN versions'[c] : Moved(svc, x)
    BY <1>0, <1>4 DEF MayWrite, Moved, LatestOf, Due, Differs
  <2>1. CASE versions'[c] = EmptyMap
    BY <1>4, <2>1 DEF Outdated, EmptyMap
  <2>2. CASE AtWork(c) /\ versions'[c] = versions[c]
    BY <1>4, <2>0, <2>2 DEF PromptedTwice, MayWrite
  <2>3. CASE /\ AtWork(c) /\ Admitted(svc)
             /\ \E x \in DOMAIN svc.user.secrets \ DOMAIN versions[c] :
                  versions'[c] = Put(versions[c], x, LatestOf(svc, x))
    <3>1. PICK x \in DOMAIN svc.user.secrets \ DOMAIN versions[c] :
            versions'[c] = Put(versions[c], x, LatestOf(svc, x))
      BY <2>3
    <3>2. Outdated(svc, versions[c])
      BY <1>4, <3>1 DEF Outdated, Put
    <3>3. Differs(svc, versions'[c]) => Differs(svc, versions[c]) \/ Moved(svc, x)
      BY <3>1 DEF Differs, Moved, Put
    <3>4. DOMAIN versions'[c] = DOMAIN versions[c] \cup {x}
      BY <3>1 DEF Put
    <3>5. MayWrite(c)
      BY <2>0, <3>1, <3>3, <3>4 DEF MayWrite
    <3> QED BY <2>3, <3>2, <3>5 DEF PromptedTwice
  <2> QED BY <1>4, <2>1, <2>2, <2>3 DEF Learns
<1>5. ASSUME NEW spec \in delayed', Pending(spec)'
      PROVE  /\ Prompted
             /\ Outdated(svc, AppliedVersions(spec.state))' => PromptedTwice
  <2>1. Outdated(svc, AppliedVersions(spec.state))'
          => Outdated(svc, AppliedVersions(spec.state))
    BY <1>0 DEF Outdated, LatestOf
  <2>2. CASE Pending(spec)
    BY <2>1, <2>2 DEF Prompted, PromptedTwice, Pending
  <2> QED BY <1>5, <2>1, <2>2
<1>6. Prompted' => Prompted
  <2>1. CASE Due(svc)' \/ Stale(svc)'
    BY <1>1, <2>1 DEF Prompted
  <2>2. CASE \E c \in Controllers : (AtWork(c) /\ Differs(svc, versions[c]))'
    BY <1>2, <1>3, <2>2
  <2>3. CASE \E spec \in delayed' : Pending(spec)'
    BY <1>5, <2>3
  <2> QED BY <2>1, <2>2, <2>3 DEF Prompted
<1>7. PromptedTwice' => PromptedTwice
  <2>1. CASE \E c \in Controllers :
               (AtWork(c) /\ Outdated(svc, versions[c]) /\ MayWrite(c))'
    BY <1>2, <1>4, <2>1
  <2>2. CASE \E spec \in delayed' :
               (Pending(spec) /\ Outdated(svc, AppliedVersions(spec.state)))'
    BY <1>5, <2>2
  <2> QED BY <2>1, <2>2 DEF PromptedTwice
<1> QED BY <1>6, <1>7

\* What a step other than an update teaches the controller that takes it.
LEMMA StepLearns ==
  ASSUME Inv, NEW c \in Controllers, Step(c) \/ Disturbance(c), ~UpdateAccepted(c),
         UNCHANGED worldVars, AtWork(c)'
  PROVE  Learns(c)
<1>0. /\ LocalTypeOK /\ Established(c) /\ UNCHANGED svc
      /\ AtWork(c) => snap[c] = svc
  BY DEF Inv, TypeOK, PhasesEstablished, worldVars, AtWork, SnapshotsCoherent, Coherent
<1>1. CASE Idle(c)
  BY <1>0, <1>1 DEF Idle, AtWork, LocalTypeOK
<1>2. CASE Inspect(c)
  BY <1>0, <1>2 DEF Inspect, Established, Learns
<1>3. CASE UNCHANGED <<snap, versions>> /\ pc[c] # "idle"
  BY <1>0, <1>3 DEF Learns, AtWork
<1>4. CASE CurrentVersion(c)
  <2>1. PICK s \in DOMAIN Secrets(c) :
          LET k == KeyOf(Secrets(c)[s]) IN
          /\ IsNext(s, c, versions[c])
          /\ \/ /\ versions' = [versions EXCEPT ![c] = Put(@, s, Len(vault[k]))]
                /\ UNCHANGED <<pc, snap, docs, status>>
             \/ Fail(c, AppliedView(snap[c]), ManagedView(snap[c]))
    BY <1>4 DEF CurrentVersion
  <2>2. CASE Fail(c, AppliedView(snap[c]), ManagedView(snap[c]))
    BY <1>1, <2>2 DEF Fail, Finish
  <2>3. CASE /\ versions' = [versions EXCEPT ![c] = Put(@, s, Len(vault[KeyOf(Secrets(c)[s])]))]
             /\ UNCHANGED <<pc, snap, docs, status>>
    <3>1. AtWork(c) /\ snap[c] = svc
      BY <1>0, <2>3 DEF AtWork
    <3>2. Admitted(svc) /\ s \in DOMAIN svc.user.secrets \ DOMAIN versions[c]
      BY <1>0, <1>4, <2>1, <3>1 DEF Established, CurrentVersion, IsNext, Secrets
    <3>3. versions'[c] = Put(versions[c], s, LatestOf(svc, s))
      BY <1>0, <2>3, <3>1 DEF LocalTypeOK, LatestOf, Secrets
    <3> QED BY <3>1, <3>2, <3>3 DEF Learns
  <2> QED BY <2>1, <2>2, <2>3
<1>5. CASE Ignore(c) \/ Reject(c) \/ Rest(c) \/ AlreadyCurrent(c) \/ UpdateConflict(c)
  BY <1>1, <1>5 DEF Ignore, Reject, Rest, AlreadyCurrent, UpdateConflict, Fail, Succeed,
     Finish
<1>6. CASE VaultError(c) \/ UpdateTimeout(c) \/ Crash(c)
  BY <1>1, <1>6 DEF VaultError, UpdateTimeout, Crash, Fail, Finish
<1>7. CASE StartCleanup(c) \/ StartInjection(c) \/ StartReading(c)
  BY <1>3, <1>7 DEF StartCleanup, StartInjection, StartReading
<1>8. CASE ReadVersion(c)
  BY <1>1, <1>3, <1>8 DEF ReadVersion, Fail, Finish
<1> QED BY <1>2, <1>4, <1>5, <1>6, <1>7, <1>8 DEF Step, Disturbance

\* Every step of a controller keeps the budget.
LEMMA StepKeepsBudget ==
  ASSUME Inv, WithinBudget, NEW c \in Controllers, Step(c) \/ Disturbance(c)
  PROVE  WithinBudget'
<1>0. LocalTypeOK /\ Established(c) /\ OthersStay(c)
  BY StepKeeps DEF Inv, TypeOK, PhasesEstablished, Keeps
<1>1. CASE UpdateAccepted(c)
  <2>1. /\ ReadyToUpdate(c) /\ Wanted(c).version = svc.version /\ Store(Wanted(c))
        /\ Idle(c) /\ UNCHANGED delayed
    BY <1>1, SomethingToWrite DEF UpdateAccepted, Stored, Accepted, Finish
  <2>2. IsService(Wanted(c)) /\ Wanted(c) \in LawfulSpecs(svc)
    BY <2>1, WantedIsLawful
  <2>3. Prompted /\ (Outdated(svc, AppliedVersions(Wanted(c).state)) => PromptedTwice)
    BY <2>1, WriterCounts
  <2>4. \A d \in Controllers : pc'[d] = "idle" \/ UNCHANGED <<pc[d], snap[d]>>
    BY <1>0, <2>1 DEF Idle, OthersStay, LocalTypeOK
  <2> QED BY <2>1, <2>2, <2>3, <2>4, WriteKeepsBudget
<1>2. CASE ~UpdateAccepted(c)
  <2>1. UNCHANGED worldVars
    BY <1>2 DEF Step, Disturbance, Inspect, Ignore, Reject, Rest, StartCleanup,
       StartInjection, CurrentVersion, AlreadyCurrent, StartReading, ReadVersion,
       UpdateConflict, VaultError, UpdateTimeout, Crash, Fault, Quietly
  <2>2. AtWork(c)' => Learns(c)
    BY <1>0, <1>2, <2>1, StepLearns
  <2>3. \A d \in Controllers \ {c} : AtWork(d)' => Learns(d)
    BY <1>0, <2>1 DEF OthersStay, AtWork, Learns, worldVars
  <2>4. ASSUME NEW spec \in delayed', Pending(spec)'
        PROVE  \/ Pending(spec)
               \/ Prompted /\ (Outdated(svc, AppliedVersions(spec.state)) => PromptedTwice)
    <3>1. CASE UpdateTimeout(c)
      <4>1. ReadyToUpdate(c) /\ delayed' = delayed \cup {Wanted(c)}
        BY <3>1 DEF UpdateTimeout
      <4> QED BY <2>1, <2>4, <4>1, WriterCounts DEF Pending, worldVars
    <3>2. CASE ~UpdateTimeout(c)
      <4>1. UNCHANGED delayed
        BY <1>2, <3>2 DEF Step, Disturbance, Inspect, Ignore, Reject, Rest, StartCleanup,
           StartInjection, CurrentVersion, AlreadyCurrent, StartReading, ReadVersion,
           UpdateConflict, VaultError, Crash, Quietly
      <4> QED BY <2>1, <2>4, <4>1 DEF Pending, worldVars
    <3> QED BY <3>1, <3>2
  <2>5. (Prompted' => Prompted) /\ (PromptedTwice' => PromptedTwice)
    BY <2>1, <2>2, <2>3, <2>4, LearningPromptsNothing
  <2> QED BY <2>1, <2>5, QuietKeepsBudget
<1> QED BY <1>1, <1>2

LEMMA InitWithinBudget == Init => WithinBudget
<1> SUFFICES ASSUME Init PROVE WithinBudget
  OBVIOUS
<1>1. UserFromStack
  BY DEF Init, WorldInit, Deployed, UserFromStack
<1>2. ~PromptedTwice
  BY DEF Init, PromptedTwice, AtWork
<1>3. updates = 0 /\ Budget = 1
  BY Units DEF Init, WorldInit, Budget
<1> QED BY <1>1, <1>2, <1>3 DEF WithinBudget

LEMMA NextWithinBudget ==
  ASSUME Inv, Inv', WithinBudget, [Next]_vars
  PROVE  WithinBudget'
<1>1. CASE \E c \in Controllers : Step(c) \/ Disturbance(c)
  BY <1>1, StepKeepsBudget
<1>2. CASE LateUpdate
  <2>1. PICK spec \in delayed : /\ spec.version = svc.version /\ Store(spec)
                                /\ delayed' = delayed \ {spec}
    BY <1>2 DEF LateUpdate, Accepted
  <2>2. UNCHANGED <<pc, snap>>
    BY <1>2 DEF LateUpdate, localVars
  <2>3. IsService(spec) /\ spec \in LawfulSpecs(svc)
    BY <2>1 DEF Inv, DelayedLawful, TypeOK
  <2>4. Prompted /\ (Outdated(svc, AppliedVersions(spec.state)) => PromptedTwice)
    BY <2>1 DEF Prompted, PromptedTwice, Pending
  <2> QED BY <2>1, <2>2, <2>3, <2>4, WriteKeepsBudget
<1>3. CASE Others
  BY <1>3, OthersKeepBudget
<1>4. CASE UNCHANGED vars
  <2>1. UNCHANGED worldVars
    BY <1>4 DEF vars, worldVars
  <2>2. (Prompted' => Prompted) /\ (PromptedTwice' => PromptedTwice)
    BY <1>4 DEF vars, Prompted, PromptedTwice, AtWork, MayWrite, Pending, Due, Stale,
       Moved, LatestOf, Differs, Outdated
  <2> QED BY <2>1, <2>2, QuietKeepsBudget
<1> QED BY <1>1, <1>2, <1>3, <1>4 DEF Next

\* The budget holds throughout.
LEMMA Budgeted == Spec => []WithinBudget
BY InitWithinBudget, NextWithinBudget, Invariant, PTL DEF Spec

\* No update loop: however many controllers, changes, faults and late requests,
\* the updates Swarm stores are the first injection and at most one more for every
\* change somebody else made, or two where sources share a document.
THEOREM NoUpdateLoop == Spec => []UpdatesAnswerChanges
<1>1. WithinBudget => UpdatesAnswerChanges
  BY DEF WithinBudget, Budget, UpdatesAnswerChanges
<1> QED BY <1>1, Budgeted, PTL

-----------------------------------------------------------------------------
(* What one attempt does, seen from the loop that calls it: module         *)
(* EventLoop takes ReconcileService for an update that settles what a      *)
(* current snapshot needs, and for nothing where it needs nothing.         *)

\* The service as it is needs an update, given the versions c has learnt of.
Needed(c) == Due(svc) \/ Differs(svc, versions[c])

\* An update is stored from a current snapshot only, with reason, and leaves a
\* service that records the versions learnt and needs nothing more; an attempt on
\* a current snapshot reports success without an update only if none is needed.
AttemptsMatchNeeds ==
  [][\A c \in Controllers :
       /\ Stored(c) => /\ snap[c] = svc
                       /\ Needed(c)
                       /\ ~Due(svc)'
                       /\ AppliedVersions(svc'.state) = versions[c]
       /\ AtWork(c) /\ (Rest(c) \/ AlreadyCurrent(c)) => ~Needed(c)]_vars

\* A stored update is needed, and is all that is needed.
LEMMA StoredSettles ==
  ASSUME Inv, NEW c \in Controllers, Stored(c)
  PROVE  /\ snap[c] = svc
         /\ Needed(c)
         /\ ~Due(svc)'
         /\ AppliedVersions(svc'.state) = versions[c]
<1>1. ReadyToUpdate(c) /\ Wanted(c).version = svc.version /\ Store(Wanted(c))
  BY DEF Stored, Accepted
<1>2. AtWork(c)
  BY <1>1, WantedParts, WantedIsLawful DEF AtWork
<1>3. snap[c] = svc /\ Needed(c)
  BY <1>1, <1>2, WriterHasReason DEF Needed
<1>4. WorldTypeOK /\ IsService(Wanted(c)) /\ Wanted(c) \in LawfulSpecs(svc)
  BY <1>1, WantedIsLawful DEF Inv, TypeOK
<1>5. ~Due(svc)'
  BY <1>1, <1>4, WriteSettles
<1>6. svc'.state = Wanted(c).state
  BY <1>1, <1>4, StoredParts
<1> QED BY <1>1, <1>3, <1>5, <1>6, WantedParts

\* An attempt that finds nothing to do is right, if its snapshot is current.
LEMMA QuietSuccessIsRight ==
  ASSUME Inv, NEW c \in Controllers, AtWork(c), Rest(c) \/ AlreadyCurrent(c)
  PROVE  ~Needed(c)
<1>0. LocalTypeOK /\ Established(c) /\ snap[c] = svc
  BY DEF Inv, TypeOK, PhasesEstablished, SnapshotsCoherent, Coherent, AtWork
<1>1. CASE Rest(c)
  <2>1. Disabled(svc) /\ ~HasControllerState(svc.state) /\ versions[c] = EmptyMap
    BY <1>0, <1>1 DEF Rest, Established
  <2>2. ~Due(svc)
    BY <2>1 DEF Due, CleanupDue, Admitted, Injectable, Disabled
  <2> QED BY <2>1, <2>2 DEF Needed, Differs, EmptyMap
<1>2. CASE AlreadyCurrent(c)
  <2>1. /\ Admitted(svc) /\ DOMAIN versions[c] = DOMAIN svc.user.secrets
        /\ StateIsCurrent(svc, versions[c])
    BY <1>0, <1>2 DEF AlreadyCurrent, Established, Secrets
  <2>2. AppliedVersions(svc.state) = versions[c]
    BY <2>1 DEF StateIsCurrent
  <2>3. ~CleanupDue(svc)
    BY <2>1 DEF Admitted, Injectable, CleanupDue, Disabled
  <2>4. Clean(svc)
    BY <2>1, <2>2 DEF Clean
  <2> QED BY <2>2, <2>3, <2>4 DEF Needed, Due, Differs
<1> QED BY <1>1, <1>2

\* ReconcileService is to the loop what module EventLoop takes it for.
THEOREM AttemptsAreNeeded == Spec => AttemptsMatchNeeds
<1>1. Inv /\ [Next]_vars =>
        [\A c \in Controllers :
           /\ Stored(c) => /\ snap[c] = svc
                           /\ Needed(c)
                           /\ ~Due(svc)'
                           /\ AppliedVersions(svc'.state) = versions[c]
           /\ AtWork(c) /\ (Rest(c) \/ AlreadyCurrent(c)) => ~Needed(c)]_vars
  BY StoredSettles, QuietSuccessIsRight
<1> QED BY <1>1, Invariant, PTL DEF Spec, AttemptsMatchNeeds

-----------------------------------------------------------------------------
(* Versions never go back, for documents never purged.                     *)

\* The labels of s name versions that Vault, holding kept, has of the sources they
\* were read from.
Sound(s, kept) ==
  LET origin == s.state.configHash.sha256.secrets IN
  /\ s.state.applied \notin {NoLabel, Garbage}
  /\ s.state.configHash \notin {NoLabel, Garbage}
  => \A x \in DOMAIN s.state.applied :
       /\ x \in DOMAIN origin
       /\ KeyOf(origin[x]) \in DocKeys
       /\ s.state.applied[x] <= Len(kept[KeyOf(origin[x])])

\* What a controller has learnt of the versions is still true.
StillHeld(c) ==
  \A x \in DOMAIN versions[c] :
    /\ KeyOf(Secrets(c)[x]) \in DocKeys
    /\ versions[c][x] <= Len(vault[KeyOf(Secrets(c)[x])])

\* The versions m are no older than those the labels of s name.
Comparable(s) ==
  /\ s.state.applied \notin {NoLabel, Garbage}
  /\ s.state.configHash = ConfigHash(s.user)
NotOlder(s, m) ==
  Comparable(s) => \A x \in DOMAIN m \cap DOMAIN s.state.applied : m[x] >= s.state.applied[x]

Forward ==
  /\ Sound(svc, vault)
  /\ \A c \in Controllers : pc[c] # "idle" => StillHeld(c)
  /\ \A c \in Controllers : AtWork(c) => NotOlder(svc, versions[c])
  /\ \A spec \in delayed : Sound(spec, vault)
  /\ \A spec \in delayed : Pending(spec) => NotOlder(svc, AppliedVersions(spec.state))

\* A comparable service names versions of the sources it has.
LEMMA ComparableOrigin ==
  ASSUME UserFromStack, Comparable(svc), Sound(svc, vault)
  PROVE  \A x \in DOMAIN svc.state.applied :
           /\ x \in DOMAIN svc.user.secrets
           /\ svc.state.applied[x] <= LatestOf(svc, x)
<1>1. svc.state.configHash \notin {NoLabel, Garbage}
  BY WorldAssumption DEF UserFromStack, Comparable
<1>2. svc.state.configHash.sha256.secrets = svc.user.secrets
  BY DEF Comparable, ConfigHash
<1> QED BY <1>1, <1>2 DEF Comparable, Sound, LatestOf

\* A request carries versions that Vault has.
LEMMA WantedIsSound ==
  ASSUME Inv, NEW c \in Controllers, ReadyToUpdate(c), StillHeld(c)
  PROVE  Sound(Wanted(c), vault)
<1>0. LocalTypeOK /\ Established(c)
  BY DEF Inv, TypeOK, PhasesEstablished
<1>1. CASE pc[c] = "cleanup"
  <2>1. Wanted(c).state = NoState
    BY <1>0, <1>1 DEF LocalTypeOK, Wanted, Cleaned, IsService
  <2> QED BY <2>1 DEF Sound, NoState
<1>2. CASE pc[c] = "data"
  <2>1. /\ IsService(snap[c])
        /\ IsMap(docs[c], Sources, Documents)
        /\ DOMAIN docs[c] \subseteq DOMAIN snap[c].user.secrets
        /\ DOMAIN versions[c] = DOMAIN snap[c].user.secrets
        /\ Compatible(snap[c].user.secrets, docs[c])
        /\ Wanted(c) = Injected(snap[c], versions[c], docs[c])
    BY <1>0, <1>2 DEF LocalTypeOK, Established, Secrets, Wanted
  <2>2. IsInjection(Wanted(c), snap[c], versions[c],
                    Desired(snap[c].user.secrets, docs[c]))
    BY <2>1, InjectedParts
  <2>3. /\ Wanted(c).state.applied = versions[c]
        /\ Wanted(c).state.configHash.sha256.secrets = snap[c].user.secrets
    BY <2>2 DEF IsInjection, ConfigHash
  <2> QED BY <2>1, <2>3 DEF Sound, StillHeld, Secrets
<1> QED BY <1>1, <1>2 DEF ReadyToUpdate, AllRead

\* Without a purge, no document loses a version.
LEMMA VersionsAccumulate ==
  ASSUME WorldTypeOK, "purge" \notin Kinds, WorldNext
  PROVE  \A k \in DocKeys : Len(vault'[k]) >= Len(vault[k]) /\ Len(vault[k]) \in Nat
<1>1. CASE UNCHANGED vault
  BY <1>1 DEF WorldTypeOK
<1>2. CASE VaultPut
  <2>1. PICK k \in DocKeys, doc \in Documents : vault' = [vault EXCEPT ![k] = Append(@, doc)]
    BY <1>2 DEF VaultPut
  <2>2. \A j \in DocKeys : vault[j] \in Seq(Documents \cup {Deleted}) /\ Len(vault[j]) \in Nat
    BY DEF WorldTypeOK
  <2>3. vault'[k] = Append(vault[k], doc) /\ \A j \in DocKeys \ {k} : vault'[j] = vault[j]
    BY <2>1 DEF WorldTypeOK
  <2>4. Len(vault'[k]) = Len(vault[k]) + 1
    BY <2>2, <2>3
  <2> QED BY <2>2, <2>3, <2>4
<1>3. CASE VaultDelete
  <2>1. PICK k \in DocKeys : vault' = [vault EXCEPT ![k][Len(vault[k])] = Deleted]
    BY <1>3 DEF VaultDelete
  <2>2. \A j \in DocKeys : vault[j] \in Seq(Documents \cup {Deleted}) /\ Len(vault[j]) \in Nat
    BY DEF WorldTypeOK
  <2>3. /\ vault'[k] = [vault[k] EXCEPT ![Len(vault[k])] = Deleted]
        /\ \A j \in DocKeys \ {k} : vault'[j] = vault[j]
    BY <2>1 DEF WorldTypeOK
  <2>4. Len([vault[k] EXCEPT ![Len(vault[k])] = Deleted]) = Len(vault[k])
    BY <2>2
  <2> QED BY <2>2, <2>3, <2>4
<1> QED BY <1>1, <1>2, <1>3 DEF WorldNext, VaultPurge, VaultChange, External,
   StackDeploy, EditSpec, EditLabels, EditEnvironment, CloseGate, TamperState,
   TouchService, ServiceChange

\* Labels stay sound while documents only gain versions.
LEMMA SoundStays ==
  ASSUME NEW kept, NEW more,
         \A k \in DocKeys : /\ Len(kept[k]) \in Nat /\ Len(more[k]) \in Nat
                            /\ Len(kept[k]) <= Len(more[k]),
         NEW s, IsService(s), Sound(s, kept), NEW t, t.state = s.state
  PROVE  Sound(t, more)
<1>1. s.state.applied \notin {NoLabel, Garbage} =>
        \A x \in DOMAIN s.state.applied : s.state.applied[x] \in Nat
  BY DEF IsService, IsStateLabels, IsMap
<1> QED BY <1>1 DEF Sound

\* The labels that changes by others leave are sound where the old ones were.
LEMMA OthersKeepSound ==
  ASSUME Inv, Inv', "purge" \notin Kinds, Sound(svc, vault), WorldNext
  PROVE  Sound(svc, vault)'
<1>0. /\ IsService(svc)
      /\ \A k \in DocKeys : /\ Len(vault[k]) \in Nat /\ Len(vault'[k]) \in Nat
                            /\ Len(vault[k]) <= Len(vault'[k])
  BY VersionsAccumulate DEF Inv, TypeOK, WorldTypeOK
<1>1. CASE StackDeploy
  BY <1>1 DEF StackDeploy, Deployed, NoState, Sound
<1>2. CASE TamperState
  <2>1. PICK l \in {"applied", "managed", "stateHash", "configHash"}, v \in {NoLabel, Garbage} :
          svc' = [svc EXCEPT !.version = @ + 1, !.state[l] = v]
    BY <1>2 DEF TamperState
  <2>2. svc'.state = [svc.state EXCEPT ![l] = v] /\ UNCHANGED vault
    BY <1>0, <1>2, <2>1 DEF IsService, TamperState, ServiceChange
  <2>3. CASE l \in {"applied", "configHash"}
    <3>1. svc'.state.applied \in {NoLabel, Garbage} \/ svc'.state.configHash \in {NoLabel, Garbage}
      BY <1>0, <2>2, <2>3 DEF IsService, IsStateLabels
    <3> QED BY <3>1 DEF Sound
  <2>4. CASE l \in {"managed", "stateHash"}
    <3>1. /\ svc'.state.applied = svc.state.applied
          /\ svc'.state.configHash = svc.state.configHash
      BY <1>0, <2>2, <2>4 DEF IsService, IsStateLabels
    <3> QED BY <2>2, <3>1 DEF Sound
  <2> QED BY <2>3, <2>4
<1>3. CASE ~StackDeploy /\ ~TamperState
  <2>1. svc'.state = svc.state
    BY <1>0, <1>3 DEF WorldNext, EditSpec, EditLabels, EditEnvironment, CloseGate,
       TouchService, VaultPut, VaultDelete, VaultPurge, VaultChange, IsService
  <2> QED BY <1>0, <2>1, SoundStays
<1> QED BY <1>1, <1>2, <1>3

LEMMA OthersKeepForward ==
  ASSUME Inv, Inv', "purge" \notin Kinds, Forward, Others
  PROVE  Forward'
<1>0. /\ WorldNext /\ UNCHANGED <<pc, snap, versions, delayed>>
      /\ \A k \in DocKeys : /\ Len(vault[k]) \in Nat /\ Len(vault'[k]) \in Nat
                            /\ Len(vault[k]) <= Len(vault'[k])
  BY VersionsAccumulate DEF Others, localVars, Inv, TypeOK, WorldTypeOK
<1>1. Sound(svc, vault)'
  BY <1>0, OthersKeepSound DEF Forward
<1>2. ASSUME NEW c \in Controllers, pc'[c] # "idle" PROVE StillHeld(c)'
  <2>1. StillHeld(c) /\ IsMap(versions[c], Sources, Nat)
    BY <1>0, <1>2 DEF Forward, Inv, TypeOK, LocalTypeOK
  <2>2. \A x \in DOMAIN versions[c] : versions[c][x] \in Nat
    BY <2>1 DEF IsMap
  <2> QED BY <1>0, <2>1, <2>2 DEF StillHeld, Secrets
<1>3. \A spec \in delayed' : Sound(spec, vault)'
  BY <1>0, SoundStays DEF Forward, Inv, TypeOK
<1>4. /\ \A c \in Controllers : AtWork(c)' => NotOlder(svc, versions[c])'
      /\ \A spec \in delayed' : Pending(spec)' => NotOlder(svc, AppliedVersions(spec.state))'
  <2>1. CASE UNCHANGED svc
    BY <1>0, <2>1 DEF Forward, AtWork, Pending, NotOlder, Comparable
  <2>2. CASE svc'.version = svc.version + 1
    <3>1. IsService(svc')
      BY DEF Inv, TypeOK, WorldTypeOK
    <3> QED BY <1>0, <2>2, <3>1, NewVersionEndsWork
  <2> QED BY <1>0, <2>1, <2>2, WorldSteps DEF Onward, Inv, TypeOK
<1> QED BY <1>1, <1>2, <1>3, <1>4 DEF Forward

\* A controller's update brings its own, sound, labels.
LEMMA WriteKeepsForward ==
  ASSUME Inv, Forward, NEW spec, IsService(spec), spec.version = svc.version,
         Sound(spec, vault), Store(spec), delayed' \subseteq delayed,
         \A c \in Controllers :
           pc'[c] = "idle" \/ UNCHANGED <<pc[c], snap[c], versions[c]>>
  PROVE  Forward'
<1>1. /\ svc'.state = spec.state /\ svc'.version = svc.version + 1
      /\ UNCHANGED vault
  BY StoredParts
<1>2. IsService(svc')
  BY DEF Store, IsService
<1>3. Sound(svc, vault)' /\ \A r \in delayed' : Sound(r, vault)'
  BY <1>1 DEF Forward, Sound
<1>4. \A c \in Controllers : pc'[c] # "idle" => StillHeld(c)'
  BY <1>1 DEF Forward, StillHeld, Secrets
<1>5. /\ \A c \in Controllers : ~AtWork(c)'
      /\ \A r \in delayed' : ~Pending(r)'
  BY <1>1, <1>2, NewVersionEndsWork
<1> QED BY <1>3, <1>4, <1>5 DEF Forward

\* What a step other than an update lets a controller know is true.
LEMMA StepHolds ==
  ASSUME Inv, NEW c \in Controllers, Step(c) \/ Disturbance(c), ~UpdateAccepted(c),
         UNCHANGED worldVars, pc[c] # "idle" => StillHeld(c), pc'[c] # "idle"
  PROVE  StillHeld(c)'
<1>0. LocalTypeOK /\ Established(c) /\ UNCHANGED vault
  BY DEF Inv, TypeOK, PhasesEstablished, worldVars
<1>1. CASE Idle(c)
  BY <1>0, <1>1 DEF Idle, LocalTypeOK
<1>2. CASE Inspect(c)
  BY <1>0, <1>2 DEF Inspect, Established, StillHeld, EmptyMap
<1>3. CASE UNCHANGED <<snap, versions>> /\ pc[c] # "idle"
  BY <1>0, <1>3 DEF StillHeld, Secrets
<1>4. CASE CurrentVersion(c)
  <2>1. PICK s \in DOMAIN Secrets(c) :
          LET k == KeyOf(Secrets(c)[s]) IN
          /\ versions' = [versions EXCEPT ![c] = Put(@, s, Len(vault[k]))]
             /\ UNCHANGED <<pc, snap, docs, status>>
          \/ Fail(c, AppliedView(snap[c]), ManagedView(snap[c]))
    BY <1>4 DEF CurrentVersion
  <2>2. CASE Fail(c, AppliedView(snap[c]), ManagedView(snap[c]))
    BY <1>1, <2>2 DEF Fail, Finish
  <2>3. CASE /\ versions' = [versions EXCEPT ![c] = Put(@, s, Len(vault[KeyOf(Secrets(c)[s])]))]
             /\ UNCHANGED <<pc, snap, docs, status>>
    <3>1. IsService(snap[c]) /\ Admitted(snap[c]) /\ pc[c] = "metadata"
      BY <1>0, <1>4 DEF Established, CurrentVersion, LocalTypeOK
    <3>2. KeyOf(Secrets(c)[s]) \in DocKeys
      BY <3>1, AdmittedKeys DEF Secrets
    <3>3. Len(vault[KeyOf(Secrets(c)[s])]) \in Nat
      BY <3>2 DEF Inv, TypeOK, WorldTypeOK
    <3>4. versions'[c] = Put(versions[c], s, Len(vault[KeyOf(Secrets(c)[s])]))
      BY <1>0, <2>3 DEF LocalTypeOK
    <3>5. UNCHANGED snap
      BY <2>3
    <3> QED BY <1>0, <3>1, <3>2, <3>3, <3>4, <3>5 DEF StillHeld, Secrets, Put
  <2> QED BY <2>1, <2>2, <2>3
<1>5. CASE Ignore(c) \/ Reject(c) \/ Rest(c) \/ AlreadyCurrent(c) \/ UpdateConflict(c)
  BY <1>1, <1>5 DEF Ignore, Reject, Rest, AlreadyCurrent, UpdateConflict, Fail, Succeed,
     Finish
<1>6. CASE VaultError(c) \/ UpdateTimeout(c) \/ Crash(c)
  BY <1>1, <1>6 DEF VaultError, UpdateTimeout, Crash, Fail, Finish
<1>7. CASE StartCleanup(c) \/ StartInjection(c) \/ StartReading(c)
  BY <1>3, <1>7 DEF StartCleanup, StartInjection, StartReading
<1>8. CASE ReadVersion(c)
  BY <1>1, <1>3, <1>8 DEF ReadVersion, Fail, Finish
<1> QED BY <1>2, <1>4, <1>5, <1>6, <1>7, <1>8 DEF Step, Disturbance

\* It never learns of a version older than the one the labels name.
LEMMA LearnsNothingOlder ==
  ASSUME UserFromStack, Forward, NEW c \in Controllers, Learns(c),
         AtWork(c) => NotOlder(svc, versions[c]),
         IsService(svc), IsMap(versions[c], Sources, Nat), WorldTypeOK
  PROVE  NotOlder(svc, versions'[c])
<1>1. CASE versions'[c] = EmptyMap
  BY <1>1 DEF NotOlder, EmptyMap
<1>2. CASE AtWork(c) /\ versions'[c] = versions[c]
  BY <1>2
<1>3. CASE /\ AtWork(c) /\ Admitted(svc)
           /\ \E x \in DOMAIN svc.user.secrets \ DOMAIN versions[c] :
                versions'[c] = Put(versions[c], x, LatestOf(svc, x))
  <2>1. PICK x \in DOMAIN svc.user.secrets \ DOMAIN versions[c] :
          versions'[c] = Put(versions[c], x, LatestOf(svc, x))
    BY <1>3
  <2>2. LatestOf(svc, x) \in Nat
    BY <1>3, AdmittedKeys DEF LatestOf, WorldTypeOK
  <2> SUFFICES ASSUME Comparable(svc), NEW y \in DOMAIN versions'[c] \cap DOMAIN svc.state.applied
               PROVE  versions'[c][y] >= svc.state.applied[y]
    BY DEF NotOlder
  <2>3. svc.state.applied[y] \in Nat
    BY DEF Comparable, IsService, IsStateLabels, IsMap
  <2>4. CASE y = x
    BY <2>1, <2>2, <2>3, <2>4, ComparableOrigin DEF Forward, Put
  <2>5. CASE y # x
    BY <1>3, <2>1, <2>5 DEF NotOlder, Put
  <2> QED BY <2>4, <2>5
<1> QED BY <1>1, <1>2, <1>3 DEF Learns

LEMMA StepKeepsForward ==
  ASSUME Inv, UserFromStack, Forward, NEW c \in Controllers, Step(c) \/ Disturbance(c)
  PROVE  Forward'
<1>0. LocalTypeOK /\ Established(c) /\ OthersStay(c) /\ WorldTypeOK /\ IsService(svc)
  BY StepKeeps DEF Inv, TypeOK, PhasesEstablished, Keeps, WorldTypeOK
<1>1. CASE UpdateAccepted(c)
  <2>1. /\ ReadyToUpdate(c) /\ Wanted(c).version = svc.version /\ Store(Wanted(c))
        /\ Idle(c) /\ UNCHANGED delayed
    BY <1>1, SomethingToWrite DEF UpdateAccepted, Stored, Accepted, Finish
  <2>2. IsService(Wanted(c)) /\ Sound(Wanted(c), vault)
    BY <2>1, WantedIsLawful, WantedIsSound DEF Forward
  <2>3. \A d \in Controllers : pc'[d] = "idle" \/ UNCHANGED <<pc[d], snap[d], versions[d]>>
    BY <1>0, <2>1 DEF Idle, OthersStay, LocalTypeOK
  <2> QED BY <2>1, <2>2, <2>3, WriteKeepsForward
<1>2. CASE ~UpdateAccepted(c)
  <2>1. UNCHANGED worldVars
    BY <1>2 DEF Step, Disturbance, Inspect, Ignore, Reject, Rest, StartCleanup,
       StartInjection, CurrentVersion, AlreadyCurrent, StartReading, ReadVersion,
       UpdateConflict, VaultError, UpdateTimeout, Crash, Fault, Quietly
  <2>2. UNCHANGED <<svc, vault>>
    BY <2>1 DEF worldVars
  <2>3. pc'[c] # "idle" => StillHeld(c)'
    BY <1>2, <2>1, StepHolds DEF Forward
  <2>4. AtWork(c)' => NotOlder(svc, versions'[c])
    <3>1. IsMap(versions[c], Sources, Nat)
      BY <1>0 DEF LocalTypeOK
    <3> QED BY <1>0, <1>2, <2>1, <3>1, StepLearns, LearnsNothingOlder DEF Forward
  <2>5. \A d \in Controllers \ {c} :
          /\ pc'[d] # "idle" => StillHeld(d)'
          /\ AtWork(d)' => NotOlder(svc, versions'[d])
    BY <1>0, <2>2 DEF OthersStay, Forward, StillHeld, Secrets, AtWork
  <2>6. ASSUME NEW spec \in delayed'
        PROVE  /\ Sound(spec, vault)
               /\ Pending(spec)' => NotOlder(svc, AppliedVersions(spec.state))
    <3>1. CASE UpdateTimeout(c)
      <4>1. ReadyToUpdate(c) /\ delayed' = delayed \cup {Wanted(c)}
        BY <3>1 DEF UpdateTimeout
      <4>2. CASE spec = Wanted(c)
        <5>1. pc[c] # "idle"
          BY <4>1, WantedIsLawful
        <5>2. Pending(spec)' => AtWork(c)
          BY <2>2, <4>1, <4>2, <5>1, WantedParts DEF Pending, AtWork
        <5> QED BY <4>1, <4>2, <5>1, <5>2, WantedIsSound, WantedParts DEF Forward
      <4>3. CASE spec \in delayed
        BY <2>2, <4>3 DEF Forward, Pending
      <4> QED BY <4>1, <4>2, <4>3
    <3>2. CASE ~UpdateTimeout(c)
      <4>1. UNCHANGED delayed
        BY <1>2, <3>2 DEF Step, Disturbance, Inspect, Ignore, Reject, Rest, StartCleanup,
           StartInjection, CurrentVersion, AlreadyCurrent, StartReading, ReadVersion,
           UpdateConflict, VaultError, Crash, Quietly
      <4> QED BY <2>2, <4>1 DEF Forward, Pending
    <3> QED BY <3>1, <3>2
  <2>7. \A d \in Controllers : AtWork(d)' => NotOlder(svc, versions[d])'
    BY <2>2, <2>4, <2>5 DEF NotOlder, Comparable
  <2>8. \A spec \in delayed' :
          /\ Sound(spec, vault)'
          /\ Pending(spec)' => NotOlder(svc, AppliedVersions(spec.state))'
    BY <2>2, <2>6 DEF NotOlder, Comparable, Sound
  <2>9. Sound(svc, vault)'
    BY <2>2 DEF Forward, Sound
  <2> QED BY <2>3, <2>5, <2>7, <2>8, <2>9 DEF Forward
<1> QED BY <1>1, <1>2

LEMMA NextForward ==
  ASSUME "purge" \notin Kinds, Inv, Inv', UserFromStack, Forward, [Next]_vars
  PROVE  Forward'
<1>1. CASE \E c \in Controllers : Step(c) \/ Disturbance(c)
  BY <1>1, StepKeepsForward
<1>2. CASE LateUpdate
  <2>1. PICK spec \in delayed : /\ spec.version = svc.version /\ Store(spec)
                                /\ delayed' = delayed \ {spec}
    BY <1>2 DEF LateUpdate, Accepted
  <2>2. UNCHANGED <<pc, snap, versions>>
    BY <1>2 DEF LateUpdate, localVars
  <2>3. IsService(spec) /\ Sound(spec, vault)
    BY <2>1 DEF Forward, Inv, TypeOK
  <2> QED BY <2>1, <2>2, <2>3, WriteKeepsForward
<1>3. CASE Others
  BY <1>3, OthersKeepForward
<1>4. CASE UNCHANGED vars
  BY <1>4 DEF vars, Forward, Sound, StillHeld, Secrets, AtWork, Pending, NotOlder, Comparable
<1> QED BY <1>1, <1>2, <1>3, <1>4 DEF Next

LEMMA InitForward == Init => Forward
BY DEF Init, WorldInit, Deployed, NoState, Forward, Sound, AtWork

\* What is written over a service is no older than what its labels name.
LEMMA WritesNothingOlder ==
  ASSUME Inv, Forward, [Next]_vars, ControllerWrites
  PROVE  \E spec \in LawfulSpecs(svc) :
           /\ IsService(spec) /\ Store(spec)
           /\ NotOlder(svc, AppliedVersions(spec.state))
<1>1. CASE \E c \in Controllers : Step(c) \/ Disturbance(c)
  <2>1. PICK c \in Controllers : Step(c) \/ Disturbance(c)
    BY <1>1
  <2>2. UpdateAccepted(c)
    BY <2>1 DEF ControllerWrites, Step, Disturbance, Inspect, Ignore, Reject, Rest,
       StartCleanup, StartInjection, CurrentVersion, AlreadyCurrent, StartReading,
       ReadVersion, UpdateConflict, VaultError, UpdateTimeout, Crash, Fault, Quietly,
       worldVars
  <2>3. ReadyToUpdate(c) /\ Wanted(c).version = svc.version /\ Store(Wanted(c))
    BY <2>2, SomethingToWrite DEF UpdateAccepted, Stored, Accepted
  <2>4. IsService(Wanted(c)) /\ Wanted(c) \in LawfulSpecs(svc) /\ pc[c] # "idle"
    BY <2>3, WantedIsLawful
  <2>5. NotOlder(svc, AppliedVersions(Wanted(c).state))
    BY <2>3, <2>4, WantedParts DEF AtWork, Forward
  <2> QED BY <2>3, <2>4, <2>5
<1>2. CASE LateUpdate
  <2>1. PICK spec \in delayed : spec.version = svc.version /\ Store(spec)
    BY <1>2 DEF LateUpdate, Accepted
  <2>2. IsService(spec) /\ spec \in LawfulSpecs(svc)
    BY <2>1 DEF Inv, DelayedLawful, TypeOK
  <2> QED BY <2>1, <2>2 DEF Forward, Pending
<1>3. CASE Others
  BY <1>3, ChangesCounted DEF Others, ControllerWrites
<1> QED BY <1>1, <1>2, <1>3 DEF Next, ControllerWrites, vars

\* One update takes no source back.
LEMMA WriteDoesNotRegress ==
  ASSUME Inv, UserFromStack, Forward, [Next]_vars, ControllerWrites,
         Comparable(svc), Enabled(svc.user)
  PROVE  \A x \in DOMAIN svc.state.applied :
           svc'.state.applied[x] >= svc.state.applied[x]
<1>0. WorldTypeOK
  BY DEF Inv, TypeOK
<1>1. PICK spec \in LawfulSpecs(svc) :
        /\ IsService(spec) /\ Store(spec)
        /\ NotOlder(svc, AppliedVersions(spec.state))
  BY WritesNothingOlder
<1>2. Admitted(svc) /\ spec \in Injections(svc)
  BY <1>1 DEF LawfulSpecs, CleanupDue, Disabled
<1>3. PICK vs, ds : Reading(svc, vs, ds) /\ spec = Injected(svc, vs, ds)
  BY <1>0, <1>2, InjectionHasReading
<1>4. IsInjection(spec, svc, vs, Desired(svc.user.secrets, ds))
  BY <1>0, <1>3, InjectedParts DEF Reading, WorldTypeOK
<1>5. AppliedVersions(spec.state) = vs
  BY <1>0, <1>2, <1>3, InjectedIsCurrent DEF Reading, WorldTypeOK
<1>6. svc'.state.applied = vs /\ DOMAIN vs = DOMAIN svc.user.secrets
  BY <1>1, <1>3, <1>4, StoredParts DEF IsInjection, Reading
<1>7. \A x \in DOMAIN svc.state.applied : x \in DOMAIN vs
  BY <1>6, ComparableOrigin DEF Forward
<1> QED BY <1>1, <1>5, <1>6, <1>7 DEF NotOlder

\* Two controllers, and requests that arrive late, never roll a source back, as
\* long as no document is purged: swarm's version check and the order in which
\* ReconcileService asks, after reading the service, are enough.
THEOREM VersionsGoForward ==
  ASSUME "purge" \notin Kinds
  PROVE  Spec => AppliedNeverRegress
<1> DEFINE Onwards ==
      /\ ControllerWrites
      /\ svc.state.applied \notin {NoLabel, Garbage}
      /\ svc.state.configHash = ConfigHash(svc.user)
      /\ Enabled(svc.user)
      => \A x \in DOMAIN svc.state.applied : svc'.state.applied[x] >= svc.state.applied[x]
<1>1. ASSUME Inv, WithinBudget, Forward, [Next]_vars PROVE [Onwards]_vars
  BY <1>1, WriteDoesNotRegress DEF Comparable, WithinBudget
<1>2. Init => Forward
  BY InitForward
<1>3. ASSUME Inv, Inv', WithinBudget, Forward, [Next]_vars PROVE Forward'
  BY <1>3, NextForward DEF WithinBudget
<1> QED BY <1>1, <1>2, <1>3, Invariant, Budgeted, PTL DEF Spec, AppliedNeverRegress

-----------------------------------------------------------------------------
(* Status entries: what a report says of the service is true as long as    *)
(* nobody has changed the service, and an entry remembers what later       *)
(* attempts must not forget.                                               *)

\* What a report r of an attempt on the service s claims.
Truthful(r, s) ==
  /\ r.state = "ready" =>
       /\ r.versions = s.state.applied
       /\ r.names = s.state.managed
       /\ r.names \subseteq DOMAIN s.env
       /\ r.gate = (IF BootstrapGate(s.user) THEN "open" ELSE "-")
       /\ ~HasBootstrapGate(s)
  /\ r.state = "disabled" => ~HasControllerState(s.state)

\* The managed names are those of the digest, and there are some.
LabelsLinked(state) ==
  state.stateHash \notin {NoLabel, Garbage} =>
    /\ DOMAIN state.stateHash.sha256 # {}
    /\ state.managed \notin {NoLabel, Garbage} =>
         state.managed = DOMAIN state.stateHash.sha256

\* No entry is ahead of the service, or of the attempt that is going on.
Timely(c) ==
  status[c] # NoStatus =>
    /\ status[c].lastAttempt <= svc.version
    /\ status[c].lastSuccess # NoStatus =>
         /\ status[c].lastSuccess <= svc.version
         /\ pc[c] # "idle" => status[c].lastSuccess <= snap[c].version

StatusInv ==
  /\ LabelsLinked(svc.state)
  /\ \A c \in Controllers : Timely(c)
  /\ StatusTruthful

-----------------------------------------------------------------------------
(* The labels of an injection.                                             *)

\* Every admitted service has sources, and every source contributes something.
LEMMA SomethingDesired ==
  ASSUME NEW s, IsService(s), Admitted(s), NEW ds, IsMap(ds, Sources, Documents),
         DOMAIN ds = DOMAIN s.user.secrets, Compatible(s.user.secrets, ds)
  PROVE  DOMAIN Desired(s.user.secrets, ds) # {}
<1> DEFINE secrets == s.user.secrets
<1>1. DOMAIN secrets # {}
  BY DEF Admitted, Injectable, ParseError, Enabled, SecretsValid
<1>2. PICK x \in DOMAIN ds : TRUE
  BY <1>1
<1>3. SourceResolves(secrets[x], ds[x]) /\ IsDocument(ds[x])
  BY <1>2, WorldAssumption DEF Compatible, IsMap
<1>4. DOMAIN Mapping(secrets[x], ds[x]) # {}
  <2>1. CASE AutomaticImport(secrets[x])
    BY <1>3, <2>1 DEF SourceResolves, IsDocument, Mapping
  <2>2. CASE ~AutomaticImport(secrets[x])
    BY <2>2 DEF AutomaticImport, Mapping
  <2> QED BY <2>1, <2>2
<1>5. DOMAIN Mapping(secrets[x], ds[x]) \subseteq DOMAIN Desired(secrets, ds)
  BY <1>2, DesiredOfSource
<1> QED BY <1>4, <1>5

LEMMA HashIsNoMark ==
  ASSUME NEW values, IsMap(values, Names, Values)
  PROVE  Hash(values) \notin {NoLabel, Garbage} /\ Hash(values).sha256 = values
<1>1. Hash(values) \in [sha256: [DOMAIN values -> Values]]
  BY DEF Hash, IsMap
<1>2. DOMAIN values \in SUBSET Names
  BY DEF IsMap
<1> QED BY <1>1, <1>2, LabelsAssumption DEF Hash

\* What an injection into s writes is what a ready report says.
LEMMA InjectionLinked ==
  ASSUME NEW s, IsService(s), Admitted(s), NEW vs, IsMap(vs, Sources, Nat),
         NEW ds, IsMap(ds, Sources, Documents),
         DOMAIN ds = DOMAIN s.user.secrets, Compatible(s.user.secrets, ds),
         NEW new, new = Injected(s, vs, ds)
  PROVE  /\ LabelsLinked(new.state)
         /\ new.state.applied = vs
         /\ new.state.managed = DOMAIN Desired(s.user.secrets, ds)
         /\ new.state.managed \subseteq DOMAIN new.env
         /\ ~HasBootstrapGate(new) /\ HasSuccessfulInjectionState(new)
         /\ new.user = s.user
<1> DEFINE desired == Desired(s.user.secrets, ds)
<1>1. IsInjection(new, s, vs, desired) /\ DOMAIN desired # {}
  BY InjectedParts, SomethingDesired
<1>2. ~HasBootstrapGate(new) /\ DOMAIN desired \subseteq DOMAIN new.env
  BY InjectedIsCurrent
<1> HIDE DEF desired
<1>3. /\ IsMap(desired, Names, Values)
      /\ new.user = s.user
      /\ new.state = [applied |-> vs, managed |-> DOMAIN desired,
                      stateHash |-> Hash(desired), configHash |-> ConfigHash(s.user)]
  BY <1>1 DEF IsInjection
<1>4. Hash(desired) \notin {NoLabel, Garbage} /\ Hash(desired).sha256 = desired
  BY <1>3, HashIsNoMark
<1>5. LabelsLinked(new.state)
  BY <1>1, <1>3, <1>4 DEF LabelsLinked
<1>6. HasSuccessfulInjectionState(new)
  BY <1>3, <1>4, LabelsAssumption DEF HasSuccessfulInjectionState, IsMap
<1>7. new.state.applied = vs /\ new.state.managed = DOMAIN desired
  BY <1>3
<1> QED BY <1>2, <1>3, <1>5, <1>6, <1>7 DEF desired

LEMMA LawfulLinked ==
  ASSUME WorldTypeOK, NEW spec \in LawfulSpecs(svc)
  PROVE  LabelsLinked(spec.state)
<1>1. CASE Admitted(svc) /\ spec \in Injections(svc)
  <2>1. PICK vs, ds : Reading(svc, vs, ds) /\ spec = Injected(svc, vs, ds)
    BY <1>1, InjectionHasReading
  <2> QED BY <1>1, <2>1, InjectionLinked DEF Reading, WorldTypeOK
<1>2. CASE spec = Cleaned(svc)
  <2>1. spec.state = NoState
    BY <1>2 DEF Cleaned, WorldTypeOK, IsService
  <2> QED BY <2>1 DEF LabelsLinked, NoState
<1> QED BY <1>1, <1>2 DEF LawfulSpecs

LEMMA OthersKeepLinked ==
  ASSUME WorldTypeOK, WorldNext, LabelsLinked(svc.state)
  PROVE  LabelsLinked(svc'.state)
<1>1. CASE StackDeploy
  BY <1>1 DEF StackDeploy, Deployed, NoState, LabelsLinked
<1>2. CASE TamperState
  <2>1. PICK l \in {"applied", "managed", "stateHash", "configHash"}, v \in {NoLabel, Garbage} :
          svc' = [svc EXCEPT !.version = @ + 1, !.state[l] = v]
    BY <1>2 DEF TamperState
  <2>2. svc'.state = [svc.state EXCEPT ![l] = v] /\ IsStateLabels(svc.state)
    BY <2>1 DEF WorldTypeOK, IsService
  <2>3. CASE l = "stateHash"
    BY <2>2, <2>3 DEF IsStateLabels, LabelsLinked
  <2>4. CASE l = "managed"
    BY <2>2, <2>4 DEF IsStateLabels, LabelsLinked
  <2>5. CASE l \in {"applied", "configHash"}
    BY <2>2, <2>5 DEF IsStateLabels, LabelsLinked
  <2> QED BY <2>3, <2>4, <2>5
<1>3. CASE ~StackDeploy /\ ~TamperState
  <2>1. svc'.state = svc.state
    BY <1>3 DEF WorldNext, EditSpec, EditLabels, EditEnvironment, CloseGate, TouchService,
       VaultPut, VaultDelete, VaultPurge, VaultChange, WorldTypeOK, IsService
  <2> QED BY <2>1
<1> QED BY <1>1, <1>2, <1>3

-----------------------------------------------------------------------------
(* What the reports say.                                                   *)

LEMMA GateTold ==
  ASSUME NEW s, Injectable(s), ~HasBootstrapGate(s), ~GateMissing(s), NEW passed
  PROVE  GateView(s, passed) = IF BootstrapGate(s.user) THEN "open" ELSE "-"
BY DEF GateView

\* A report without an update: stateIsCurrent found the service in order.
LEMMA CurrentIsTruthful ==
  ASSUME NEW s, IsService(s), Admitted(s), LabelsLinked(s.state),
         NEW vs, DOMAIN vs = DOMAIN s.user.secrets, StateIsCurrent(s, vs)
  PROVE  Truthful(ReportOn(s, "ready", vs, ManagedView(s)), s)
<1> DEFINE names == ManagedEnvironment(s.state)
<1>1. DOMAIN s.user.secrets # {} /\ Injectable(s) /\ GateInOrder(s)
  BY DEF Admitted, Injectable, ParseError, Enabled, SecretsValid
<1>2. vs = s.state.applied
  BY <1>1 DEF StateIsCurrent, AppliedVersions, EmptyMap
<1>3. names \subseteq Names
  BY DEF ManagedEnvironment, Admitted, IsService, IsStateLabels
<1>4. IsMap(Select(s.env, names), Names, Values)
  BY DEF Select, IsMap, IsService
<1>5. s.state.stateHash \notin {NoLabel, Garbage}
      /\ s.state.stateHash.sha256 = Select(s.env, names)
  BY <1>4, HashIsNoMark DEF StateIsCurrent
<1>6. DOMAIN Select(s.env, names) # {}
  BY <1>5 DEF LabelsLinked
<1>7. s.state.managed \notin {NoLabel, Garbage}
  BY <1>6 DEF Admitted, Select, ManagedEnvironment
<1>8. names = s.state.managed /\ names = DOMAIN Select(s.env, names)
  BY <1>5, <1>7 DEF LabelsLinked, ManagedEnvironment
<1>9. names \subseteq DOMAIN s.env
  BY <1>8 DEF Select
<1>10. ManagedView(s) = names
  BY <1>1 DEF ManagedView, LabelsReadable, Admitted
<1>11. ~HasBootstrapGate(s) /\ ~GateMissing(s)
  BY <1>1 DEF StateIsCurrent, GateInOrder
<1>12. GateView(s, LabelsReadable(s)) = IF BootstrapGate(s.user) THEN "open" ELSE "-"
  BY <1>1, <1>11, GateTold
<1> HIDE DEF names
<1> QED BY <1>2, <1>8, <1>9, <1>10, <1>11, <1>12 DEF Truthful, ReportOn

\* A report of an update, on the service that the update leaves.
LEMMA WantedIsTruthful ==
  ASSUME Inv, NEW c \in Controllers, ReadyToUpdate(c),
         NEW new, new.state = Wanted(c).state, new.env = Wanted(c).env,
         new.user = Wanted(c).user, new.placement = Wanted(c).placement
  PROVE  Truthful(ReportOn(Wanted(c), WantedState(c), versions[c], WantedNames(c)), new)
<1>0. LocalTypeOK /\ Established(c)
  BY DEF Inv, TypeOK, PhasesEstablished
<1>1. CASE pc[c] = "cleanup"
  <2>1. Wanted(c).state = NoState
    BY <1>0, <1>1 DEF LocalTypeOK, Wanted, Cleaned, IsService
  <2> QED BY <1>1, <2>1 DEF Truthful, ReportOn, WantedState, HasControllerState, NoState
<1>2. CASE pc[c] = "data"
  <2> DEFINE s == snap[c]
             w == Wanted(c)
  <2>1. /\ IsService(s) /\ Admitted(s)
        /\ IsMap(versions[c], Sources, Nat)
        /\ IsMap(docs[c], Sources, Documents)
        /\ DOMAIN docs[c] = DOMAIN s.user.secrets
        /\ Compatible(s.user.secrets, docs[c])
        /\ w = Injected(s, versions[c], docs[c])
    BY <1>0, <1>2 DEF LocalTypeOK, Established, Secrets, Wanted, ReadyToUpdate, AllRead
  <2>2. /\ w.state.applied = versions[c]
        /\ w.state.managed = DOMAIN Desired(s.user.secrets, docs[c])
        /\ w.state.managed \subseteq DOMAIN w.env
        /\ ~HasBootstrapGate(w) /\ HasSuccessfulInjectionState(w)
        /\ w.user = s.user
    BY <2>1, InjectionLinked
  <2>3. WantedNames(c) = w.state.managed /\ WantedState(c) = "ready"
    BY <1>2, <2>2 DEF WantedNames, WantedState, Secrets
  <2>4. Injectable(w) /\ ~GateMissing(w)
    BY <2>1, <2>2 DEF Admitted, Injectable, GateMissing
  <2>5. GateView(w, LabelsReadable(w)) = IF BootstrapGate(w.user) THEN "open" ELSE "-"
    BY <2>2, <2>4, GateTold
  <2>6. ~HasBootstrapGate(new)
    BY <2>2 DEF HasBootstrapGate
  <2> HIDE DEF w
  <2>7. Truthful(ReportOn(w, "ready", versions[c], w.state.managed), new)
    BY <2>2, <2>5, <2>6 DEF Truthful, ReportOn, w
  <2> QED BY <2>3, <2>7 DEF w
<1> QED BY <1>1, <1>2 DEF ReadyToUpdate, AllRead

\* The entry e carries the report on over the previous entry.
Carries(e, previous, report, now) ==
  /\ \A s : Truthful(report, s) => Truthful(e.report, s)
  /\ e.report.state = report.state
  /\ previous # NoStatus /\ ~report.updateAttempted =>
       e.report.warnings = previous.report.warnings
  /\ e.lastAttempt = now

LEMMA RecordParts ==
  ASSUME NEW previous, NEW report, IsReport(report), NEW successful, NEW now
  PROVE  Carries(Record(previous, report, successful, now), previous, report, now)
<1> DEFINE e == Record(previous, report, successful, now)
<1>1. e.lastAttempt = now
  BY DEF Record
<1>2. CASE previous # NoStatus /\ ~report.updateAttempted
  <2>1. e.report = [report EXCEPT !.warnings = previous.report.warnings]
    BY <1>2 DEF Record
  <2>2. /\ e.report.state = report.state /\ e.report.versions = report.versions
        /\ e.report.names = report.names /\ e.report.gate = report.gate
        /\ e.report.warnings = previous.report.warnings
    BY <2>1 DEF IsReport
  <2> HIDE DEF e
  <2> QED BY <1>1, <2>2 DEF Truthful, Carries, e
<1>3. CASE ~(previous # NoStatus /\ ~report.updateAttempted)
  <2>1. e.report = report
    BY <1>3 DEF Record
  <2> HIDE DEF e
  <2> QED BY <1>1, <1>3, <2>1 DEF Carries, e
<1> QED BY <1>2, <1>3

-----------------------------------------------------------------------------
(* The steps, as far as they concern the entry of one controller.          *)

\* The entry stays; an attempt goes on or starts from the present service.
Silent(c) ==
  /\ UNCHANGED <<svc, updates>>
  /\ status'[c] = status[c]
  /\ pc'[c] # "idle" => \/ snap'[c] = svc
                        \/ pc[c] # "idle" /\ snap'[c] = snap[c]

\* The entry is dropped.
Drops(c) ==
  /\ UNCHANGED <<svc, updates>>
  /\ pc'[c] = "idle"
  /\ status'[c] = NoStatus

\* An attempt ends without an update.
Concludes(c) ==
  /\ UNCHANGED <<svc, updates>>
  /\ pc[c] # "idle" /\ pc'[c] = "idle"
  /\ \E r : /\ IsReport(r) /\ ~r.updateAttempted
            /\ snap[c].version = svc.version => Truthful(r, svc)
            /\ \/ status'[c] = Record(status[c], r, FALSE, snap[c].version)
               \/ status'[c] = Record(status[c], r, TRUE, snap[c].version)

\* An attempt ends with an update.
Rewrites(c) ==
  /\ ControllerWrites
  /\ svc'.version = svc.version + 1
  /\ pc'[c] = "idle"
  /\ \E r : /\ IsReport(r)
            /\ r.state # "error"
            /\ Truthful(r, svc')
            /\ status'[c] = Record(status[c], r, TRUE, svc.version + 1)

LEMMA FailConcludes ==
  ASSUME Inv, NEW c \in Controllers, pc[c] # "idle", UNCHANGED <<svc, updates>>,
         NEW vs, IsMap(vs, Sources, Nat), NEW names \in SUBSET Names, Fail(c, vs, names)
  PROVE  Concludes(c)
<1> DEFINE r == ReportOn(snap[c], "error", vs, names)
<1>0. LocalTypeOK /\ IsService(snap[c])
  BY DEF Inv, TypeOK, LocalTypeOK
<1>1. IsReport(r)
  BY <1>0, ReportTyped
<1>2. ~r.updateAttempted /\ Truthful(r, svc)
  BY DEF ReportOn, Truthful
<1>3. /\ pc' = [pc EXCEPT ![c] = "idle"]
      /\ status' = [status EXCEPT ![c] = Record(status[c], r, FALSE, snap[c].version)]
  BY DEF Fail, Finish, Idle
<1> HIDE DEF r
<1>4. pc'[c] = "idle" /\ status'[c] = Record(status[c], r, FALSE, snap[c].version)
  BY <1>0, <1>3 DEF LocalTypeOK
<1> QED BY <1>1, <1>2, <1>4 DEF Concludes

LEMMA SucceedConcludes ==
  ASSUME Inv, NEW c \in Controllers, pc[c] # "idle", UNCHANGED <<svc, updates>>,
         NEW vs, IsMap(vs, Sources, Nat), NEW names \in SUBSET Names,
         NEW state \in {"ready", "disabled"}, Succeed(c, state, vs, names),
         snap[c].version = svc.version => Truthful(ReportOn(svc, state, vs, names), svc)
  PROVE  Concludes(c)
<1> DEFINE r == ReportOn(snap[c], state, vs, names)
<1>0. LocalTypeOK /\ IsService(snap[c])
  BY DEF Inv, TypeOK, LocalTypeOK
<1>1. IsReport(r)
  BY <1>0, ReportTyped
<1>2. ~r.updateAttempted
  BY DEF ReportOn
<1>3. snap[c].version = svc.version => Truthful(r, svc)
  BY DEF Inv, SnapshotsCoherent, Coherent
<1>4. /\ pc' = [pc EXCEPT ![c] = "idle"]
      /\ status' = [status EXCEPT ![c] = Record(status[c], r, TRUE, snap[c].version)]
  BY DEF Succeed, Finish, Idle
<1> HIDE DEF r
<1>5. pc'[c] = "idle" /\ status'[c] = Record(status[c], r, TRUE, snap[c].version)
  BY <1>0, <1>4 DEF LocalTypeOK
<1> QED BY <1>1, <1>2, <1>3, <1>5 DEF Concludes

LEMMA StoredRewrites ==
  ASSUME Inv, NEW c \in Controllers, Stored(c)
  PROVE  Rewrites(c)
<1> DEFINE base == ReportOn(Wanted(c), WantedState(c), versions[c], WantedNames(c))
<1>0. LocalTypeOK /\ svc.version \in Nat /\ updates \in Nat
      /\ IsMap(versions[c], Sources, Nat)
  BY DEF Inv, TypeOK, LocalTypeOK, WorldTypeOK, IsService
<1>1. /\ ReadyToUpdate(c) /\ Wanted(c).version = svc.version /\ Store(Wanted(c))
      /\ IsService(Wanted(c)) /\ WantedNames(c) \subseteq Names
      /\ WantedState(c) \in {"ready", "disabled"}
  BY WantedIsLawful DEF Stored, Accepted
<1>2. IsReport(base)
  BY <1>0, <1>1, ReportTyped
<1>3. base.state # "error"
  BY <1>1 DEF ReportOn
<1>4. Truthful(base, svc')
  BY <1>1, StoredParts, WantedIsTruthful
<1>5. PICK warns \in DockerWarns :
        Finish(c, [base EXCEPT !.warnings = IF warns THEN svc.version + 1 ELSE 0,
                               !.updateAttempted = TRUE],
               TRUE, svc.version + 1)
  BY DEF Stored, UpdateReports
<1> DEFINE w == IF warns THEN svc.version + 1 ELSE 0
           r == [base EXCEPT !.warnings = w, !.updateAttempted = TRUE]
<1>6. w \in Nat
  BY <1>0
<1>7. Finish(c, r, TRUE, svc.version + 1)
  BY <1>5
<1> HIDE DEF base, w
<1>8. /\ IsReport(r)
      /\ r.state = base.state /\ r.versions = base.versions
      /\ r.names = base.names /\ r.gate = base.gate
  BY <1>2, <1>6 DEF IsReport
<1>9. /\ pc' = [pc EXCEPT ![c] = "idle"]
      /\ status' = [status EXCEPT ![c] = Record(status[c], r, TRUE, svc.version + 1)]
  BY <1>7 DEF Finish, Idle
<1> HIDE DEF r
<1>10. Truthful(r, svc') /\ r.state # "error"
  BY <1>3, <1>4, <1>8 DEF Truthful
<1>11. pc'[c] = "idle" /\ status'[c] = Record(status[c], r, TRUE, svc.version + 1)
  BY <1>0, <1>9 DEF LocalTypeOK
<1>12. ControllerWrites /\ svc'.version = svc.version + 1
  BY <1>0, <1>1, StoredParts DEF ControllerWrites
<1> QED BY <1>8, <1>10, <1>11, <1>12 DEF Rewrites

\* Every step of a controller is of one of the four kinds.
LEMMA StepReports ==
  ASSUME Inv, LabelsLinked(svc.state), NEW c \in Controllers, Step(c) \/ Disturbance(c)
  PROVE  Silent(c) \/ Drops(c) \/ Concludes(c) \/ Rewrites(c)
<1>0. /\ LocalTypeOK /\ Established(c) /\ IsService(svc)
      /\ IsMap(versions[c], Sources, Nat)
      /\ pc[c] # "idle" => IsService(snap[c]) /\ Coherent(snap[c])
  BY DEF Inv, TypeOK, LocalTypeOK, PhasesEstablished, SnapshotsCoherent, WorldTypeOK
<1>1. /\ IsMap(EmptyMap, Sources, Nat)
      /\ pc[c] # "idle" =>
           IsMap(AppliedView(snap[c]), Sources, Nat) /\ ManagedView(snap[c]) \in SUBSET Names
  BY <1>0, EmptyMapIsMap, ViewsTyped
<1>2. CASE Inspect(c) \/ StartCleanup(c) \/ StartInjection(c) \/ StartReading(c)
  <2>1. /\ UNCHANGED <<svc, updates, status>>
        /\ (pc[c] # "idle" /\ UNCHANGED snap) \/ snap' = [snap EXCEPT ![c] = svc]
    BY <1>2 DEF Inspect, StartCleanup, StartInjection, StartReading, Quietly, worldVars
  <2>2. (pc[c] # "idle" /\ snap'[c] = snap[c]) \/ snap'[c] = svc
    BY <1>0, <2>1 DEF LocalTypeOK
  <2> QED BY <2>1, <2>2 DEF Silent
<1>3. CASE Ignore(c) \/ Crash(c)
  <2>1. /\ UNCHANGED <<svc, updates>>
        /\ pc' = [pc EXCEPT ![c] = "idle"]
        /\ status' = [status EXCEPT ![c] = NoStatus]
    BY <1>3 DEF Ignore, Crash, Fault, Idle, Quietly, worldVars
  <2> QED BY <1>0, <2>1 DEF Drops, LocalTypeOK
<1>4. CASE Reject(c)
  <2>1. /\ UNCHANGED <<svc, updates>> /\ pc[c] # "idle"
        /\ Fail(c, AppliedView(snap[c]), ManagedView(snap[c]))
    BY <1>4 DEF Reject, Quietly, worldVars
  <2> QED BY <1>1, <2>1, FailConcludes
<1>5. CASE Rest(c)
  <2>1. /\ UNCHANGED <<svc, updates>> /\ pc[c] # "idle"
        /\ Succeed(c, "disabled", EmptyMap, {})
        /\ ~HasControllerState(snap[c].state)
    BY <1>5 DEF Rest, Quietly, worldVars
  <2>2. snap[c].version = svc.version =>
          Truthful(ReportOn(svc, "disabled", EmptyMap, {}), svc)
    BY <1>0, <2>1 DEF Coherent, Truthful, ReportOn
  <2> QED BY <1>1, <2>1, <2>2, SucceedConcludes
<1>6. CASE CurrentVersion(c) \/ ReadVersion(c)
  <2>1. /\ UNCHANGED <<svc, updates>> /\ pc[c] # "idle"
        /\ \/ UNCHANGED <<pc, snap, status>>
           \/ Fail(c, AppliedView(snap[c]), ManagedView(snap[c]))
           \/ Fail(c, versions[c], ManagedView(snap[c]))
    BY <1>6 DEF CurrentVersion, ReadVersion, Quietly, worldVars
  <2>2. CASE UNCHANGED <<pc, snap, status>>
    BY <2>1, <2>2 DEF Silent
  <2> QED BY <1>0, <1>1, <2>1, <2>2, FailConcludes
<1>7. CASE AlreadyCurrent(c)
  <2>1. /\ UNCHANGED <<svc, updates>> /\ pc[c] = "metadata"
        /\ Succeed(c, "ready", versions[c], ManagedView(snap[c]))
        /\ DOMAIN versions[c] = DOMAIN Secrets(c)
        /\ StateIsCurrent(snap[c], versions[c])
        /\ Admitted(snap[c])
    BY <1>0, <1>7 DEF AlreadyCurrent, Quietly, worldVars, Established
  <2>2. ASSUME snap[c].version = svc.version
        PROVE  Truthful(ReportOn(svc, "ready", versions[c], ManagedView(snap[c])), svc)
    <3>1. snap[c] = svc
      BY <1>0, <2>1, <2>2 DEF Coherent
    <3> QED BY <1>0, <2>1, <3>1, CurrentIsTruthful DEF Secrets
  <2> QED BY <1>0, <1>1, <2>1, <2>2, SucceedConcludes
<1>8. CASE UpdateAccepted(c)
  BY <1>8, SomethingToWrite, StoredRewrites DEF UpdateAccepted
<1>9. CASE UpdateConflict(c) \/ UpdateTimeout(c)
  <2>1. /\ UNCHANGED <<svc, updates>> /\ ReadyToUpdate(c)
        /\ Fail(c, versions[c], WantedNames(c))
    BY <1>9 DEF UpdateConflict, UpdateTimeout, Fault, Quietly, worldVars
  <2>2. pc[c] # "idle" /\ WantedNames(c) \in SUBSET Names
    BY <2>1, WantedIsLawful
  <2> QED BY <1>0, <2>1, <2>2, FailConcludes
<1>10. CASE VaultError(c)
  <2>1. /\ UNCHANGED <<svc, updates>> /\ pc[c] # "idle"
        /\ \/ Fail(c, AppliedView(snap[c]), ManagedView(snap[c]))
           \/ Fail(c, versions[c], ManagedView(snap[c]))
    BY <1>10 DEF VaultError, Fault, worldVars
  <2> QED BY <1>0, <1>1, <2>1, FailConcludes
<1> QED BY <1>2, <1>3, <1>4, <1>5, <1>6, <1>7, <1>8, <1>9, <1>10 DEF Step, Disturbance

\* It leaves the entries of the others alone.
LEMMA OthersEntriesStay ==
  ASSUME LocalTypeOK, NEW c \in Controllers, Step(c) \/ Disturbance(c),
         NEW d \in Controllers \ {c}
  PROVE  status'[d] = status[d]
<1>1. UNCHANGED status \/ \E e : status' = [status EXCEPT ![c] = e]
  BY DEF Step, Disturbance, Inspect, Ignore, Reject, Rest, StartCleanup, StartInjection,
     CurrentVersion, AlreadyCurrent, StartReading, ReadVersion, UpdateAccepted, Stored,
     UpdateConflict, VaultError, UpdateTimeout, Crash, Fail, Succeed, Finish
<1> QED BY <1>1 DEF LocalTypeOK

-----------------------------------------------------------------------------
(* One entry.                                                              *)

\* The entry of c is true if the service is still the one it is about.
Tells(c) ==
  status[c] # NoStatus /\ status[c].lastAttempt = svc.version =>
    Truthful(status[c].report, svc)

\* A step of c does not make it forget.
Remembers(c) ==
  status[c] # NoStatus /\ status'[c] # NoStatus =>
    /\ status[c].lastSuccess # NoStatus =>
         /\ status'[c].lastSuccess # NoStatus
         /\ status'[c].lastSuccess >= status[c].lastSuccess
    /\ status'[c].report.warnings # status[c].report.warnings =>
         ControllerWrites /\ status'[c].report.state # "error"

LEMMA TellsAll == StatusTruthful <=> \A c \in Controllers : Tells(c)
BY DEF StatusTruthful, Tells, Truthful

LEMMA TimesTyped ==
  ASSUME Inv, NEW c \in Controllers
  PROVE  /\ svc.version \in Nat
         /\ pc[c] # "idle" => snap[c].version \in Nat /\ snap[c].version <= svc.version
         /\ status[c] # NoStatus =>
              /\ status[c].lastAttempt \in Nat
              /\ status[c].lastSuccess \in Nat \cup {NoStatus}
BY DEF Inv, TypeOK, WorldTypeOK, LocalTypeOK, IsService, IsEntry, SnapshotsCoherent, Coherent

\* The entry of a controller that does nothing, or nothing to its entry.
LEMMA EntryStays ==
  ASSUME Inv, Inv', Onward, NEW c \in Controllers, Timely(c), Tells(c),
         status'[c] = status[c],
         pc'[c] # "idle" => \/ svc' = svc /\ snap'[c] = svc
                            \/ pc[c] # "idle" /\ snap'[c] = snap[c]
  PROVE  Timely(c)' /\ Tells(c)' /\ Remembers(c)
<1>1. /\ svc.version \in Nat
      /\ pc[c] # "idle" => snap[c].version \in Nat /\ snap[c].version <= svc.version
      /\ status[c] # NoStatus =>
           /\ status[c].lastAttempt \in Nat
           /\ status[c].lastSuccess \in Nat \cup {NoStatus}
  BY TimesTyped
<1>2. svc' = svc \/ svc'.version = svc.version + 1
  BY DEF Onward
<1>3. Timely(c)'
  BY <1>1, <1>2, StatusStoreAssumption DEF Timely
<1>4. Tells(c)'
  BY <1>1, <1>2 DEF Timely, Tells
<1>5. Remembers(c)
  BY <1>1, StatusStoreAssumption DEF Remembers
<1> QED BY <1>3, <1>4, <1>5

\* The entry of a controller whose attempt ends without an update.
LEMMA EntryConcluded ==
  ASSUME Inv, NEW c \in Controllers, Timely(c), Concludes(c)
  PROVE  Timely(c)' /\ Tells(c)' /\ Remembers(c)
<1>0. /\ svc.version \in Nat
      /\ snap[c].version \in Nat /\ snap[c].version <= svc.version
      /\ status[c] # NoStatus =>
           /\ status[c].lastAttempt \in Nat
           /\ status[c].lastSuccess \in Nat \cup {NoStatus}
      /\ UNCHANGED svc /\ pc[c] # "idle" /\ pc'[c] = "idle"
  BY TimesTyped DEF Concludes
<1>1. PICK r : /\ IsReport(r) /\ ~r.updateAttempted
               /\ snap[c].version = svc.version => Truthful(r, svc)
               /\ \/ status'[c] = Record(status[c], r, FALSE, snap[c].version)
                  \/ status'[c] = Record(status[c], r, TRUE, snap[c].version)
  BY DEF Concludes
<1>2. /\ Truthful(r, svc) => Truthful(status'[c].report, svc)
      /\ status[c] # NoStatus => status'[c].report.warnings = status[c].report.warnings
      /\ status'[c].lastAttempt = snap[c].version
  <2>1. Carries(status'[c], status[c], r, snap[c].version)
    BY <1>1, RecordParts
  <2> QED BY <1>1, <2>1 DEF Carries
<1>3. \/ status'[c].lastSuccess = snap[c].version
      \/ status[c] # NoStatus /\ status'[c].lastSuccess = status[c].lastSuccess
      \/ status[c] = NoStatus /\ status'[c].lastSuccess = NoStatus
  BY <1>1 DEF Record
<1>4. Timely(c)'
  BY <1>0, <1>2, <1>3, StatusStoreAssumption DEF Timely
<1>5. Tells(c)'
  BY <1>0, <1>1, <1>2 DEF Tells
<1>6. Remembers(c)
  BY <1>0, <1>2, <1>3, StatusStoreAssumption DEF Remembers, Timely
<1> QED BY <1>4, <1>5, <1>6

\* The entry of a controller whose update has been stored.
LEMMA EntryRewritten ==
  ASSUME Inv, NEW c \in Controllers, Timely(c), Rewrites(c)
  PROVE  Timely(c)' /\ Tells(c)' /\ Remembers(c)
<1>0. /\ svc.version \in Nat /\ svc'.version = svc.version + 1
      /\ status[c] # NoStatus => status[c].lastSuccess \in Nat \cup {NoStatus}
      /\ pc'[c] = "idle" /\ ControllerWrites
  BY TimesTyped DEF Rewrites
<1>1. PICK r : /\ IsReport(r) /\ r.state # "error" /\ Truthful(r, svc')
               /\ status'[c] = Record(status[c], r, TRUE, svc.version + 1)
  BY DEF Rewrites
<1>2. /\ Truthful(status'[c].report, svc')
      /\ status'[c].report.state # "error"
      /\ status'[c].lastAttempt = svc.version + 1
  <2>1. Carries(status'[c], status[c], r, svc.version + 1)
    BY <1>1, RecordParts
  <2> QED BY <1>1, <2>1 DEF Carries
<1>3. status'[c].lastSuccess = svc.version + 1
  BY <1>1 DEF Record
<1>4. Timely(c)' /\ Tells(c)'
  BY <1>0, <1>2, <1>3 DEF Timely, Tells
<1>5. Remembers(c)
  BY <1>0, <1>2, <1>3, StatusStoreAssumption DEF Remembers, Timely
<1> QED BY <1>4, <1>5

-----------------------------------------------------------------------------
(* The invariant.                                                          *)

\* What every step does to every entry.
LEMMA EntriesKept ==
  ASSUME Inv, Inv', StatusInv, [Next]_vars, NEW d \in Controllers
  PROVE  Timely(d)' /\ Tells(d)' /\ Remembers(d)
<1>0. Onward /\ Timely(d) /\ Tells(d) /\ LocalTypeOK
  BY NextMoves, WorldSteps, MovesAreOnward, TellsAll DEF Inv, TypeOK, StatusInv
<1>1. ASSUME NEW c \in Controllers, Step(c) \/ Disturbance(c)
      PROVE  Timely(d)' /\ Tells(d)' /\ Remembers(d)
  <2>1. CASE d = c
    <3>1. Silent(c) \/ Drops(c) \/ Concludes(c) \/ Rewrites(c)
      BY <1>1, StepReports DEF StatusInv
    <3>2. CASE Drops(c)
      BY <2>1, <3>2 DEF Drops, Timely, Tells, Remembers
    <3>3. CASE Silent(c)
      BY <1>0, <2>1, <3>3, EntryStays DEF Silent
    <3> QED BY <1>0, <2>1, <3>1, <3>2, <3>3, EntryConcluded, EntryRewritten
  <2>2. CASE d # c
    <3>1. status'[d] = status[d]
      BY <1>0, <1>1, <2>2, OthersEntriesStay
    <3>2. pc'[d] = pc[d] /\ snap'[d] = snap[d]
      BY <1>1, <2>2, StepKeeps DEF Keeps, OthersStay
    <3> QED BY <1>0, <3>1, <3>2, EntryStays
  <2> QED BY <2>1, <2>2
<1>2. CASE UNCHANGED <<pc, snap, status>>
  BY <1>0, <1>2, EntryStays
<1> QED BY <1>1, <1>2 DEF Next, LateUpdate, Others, localVars, vars

LEMMA NextLinked ==
  ASSUME Inv, LabelsLinked(svc.state), [Next]_vars
  PROVE  LabelsLinked(svc'.state)
<1>0. WorldTypeOK
  BY DEF Inv, TypeOK
<1>1. CASE WorldNext
  BY <1>0, <1>1, OthersKeepLinked
<1>2. CASE WorldMoves
  <2>1. CASE UNCHANGED worldVars
    BY <2>1 DEF worldVars
  <2>2. CASE \E spec \in LawfulSpecs(svc) : IsService(spec) /\ Store(spec)
    BY <1>0, <2>2, LawfulLinked, StoredParts
  <2> QED BY <1>2, <2>1, <2>2 DEF WorldMoves
<1> QED BY <1>1, <1>2, NextMoves

LEMMA InitStatusInv == Init => StatusInv
BY TellsAll DEF Init, WorldInit, Deployed, NoState, StatusInv, LabelsLinked, Timely, Tells

LEMMA NextStatusInv ==
  ASSUME Inv, Inv', StatusInv, [Next]_vars
  PROVE  StatusInv'
<1>1. LabelsLinked(svc.state)'
  BY NextLinked DEF StatusInv
<1>2. \A c \in Controllers : Timely(c)' /\ Tells(c)'
  BY EntriesKept
<1>3. StatusTruthful'
  BY <1>2 DEF StatusTruthful, Tells, Truthful
<1> QED BY <1>1, <1>2, <1>3 DEF StatusInv

LEMMA StatusInvariant == Spec => []StatusInv
BY InitStatusInv, NextStatusInv, Invariant, PTL DEF Spec

\* The status page tells the truth: a ready or disabled entry about the version
\* the service still has describes its labels, its variables and its gate, and
\* does so although the entry is written after the calls it reports on.
THEOREM StatusIsTruthful == Spec => []StatusTruthful
<1>1. StatusInv => StatusTruthful
  BY DEF StatusInv
<1> QED BY <1>1, StatusInvariant, PTL

\* The last success never goes back and is never forgotten, and Docker's warnings
\* stay until the next update that Docker accepts.
THEOREM StatusIsRemembered == Spec => StatusRemembers
<1>1. ASSUME Inv, Inv', StatusInv, [Next]_vars
      PROVE  [\A c \in Controllers :
                /\ status[c] # NoStatus
                /\ status'[c] # NoStatus
                => /\ status[c].lastSuccess # NoStatus =>
                        /\ status'[c].lastSuccess # NoStatus
                        /\ status'[c].lastSuccess >= status[c].lastSuccess
                   /\ status'[c].report.warnings # status[c].report.warnings =>
                        ControllerWrites /\ status'[c].report.state # "error"]_vars
  BY <1>1, EntriesKept DEF Remembers
<1> QED BY <1>1, Invariant, StatusInvariant, PTL DEF Spec, StatusRemembers

=============================================================================
