------------------------------ MODULE Reconcile ------------------------------
(***************************************************************************)
(* ReconcileService, call by call.  Each controller process works through  *)
(* the service from a snapshot it has read: it asks Vault for the current  *)
(* version of every source, compares, reads those versions, and sends one  *)
(* ServiceUpdate at the version index of the snapshot.  Between any two    *)
(* calls the service, Vault and the other controllers may move, a call may *)
(* fail or time out, and the process may die.                              *)
(***************************************************************************)
EXTENDS Injection, StatusStore

CONSTANTS
  Controllers,  \* controller processes (one, or two while one replaces another)
  Nothing,      \* no snapshot
  DockerWarns,  \* whether Docker may return warnings with an update
  MaxFaults     \* bound on failed calls and crashes

ASSUME ReconcileAssumption == MaxFaults \in Nat /\ DockerWarns \subseteq BOOLEAN

VARIABLES
  pc,        \* where each controller is in ReconcileService
  snap,      \* the service object it was given
  versions,  \* currentVersions
  docs,      \* the documents read so far
  status,    \* its status entry for the service
  delayed,   \* update requests whose caller has given up waiting
  faults     \* number of faults so far

localVars == <<pc, snap, versions, docs>>
vars == <<svc, vault, written, changes, updates, pc, snap, versions, docs,
          status, delayed, faults>>

Secrets(c) == snap[c].user.secrets

\* The sources are visited in sorted order: s is the next one m has no entry for.
IsNext(s, c, m) ==
  /\ s \in DOMAIN Secrets(c) \ DOMAIN m
  /\ \A t \in DOMAIN Secrets(c) \ DOMAIN m : s <= t

-----------------------------------------------------------------------------
\* Mutant: the gate of a service that uses none is not initialised.
GateViewUnset(s, passed) == IF HasBootstrapGate(s) THEN "closed" ELSE ""

\* report.Gate; passed: the checks before the gate is examined succeeded.
GateView(s, passed) ==
  IF HasBootstrapGate(s) THEN "closed"
  ELSE IF ~(Injectable(s) /\ BootstrapGate(s.user)) THEN "-"
  ELSE IF passed /\ GateMissing(s) THEN "missing"
  ELSE "open"

\* The checks before the gate is examined.
LabelsReadable(s) ==
  /\ Injectable(s)
  /\ s.container
  /\ s.state.applied # Garbage
  /\ s.state.managed # Garbage

\* The report of an attempt on s that knows these versions and names.
ReportOn(s, state, vs, names) ==
  [state |-> state, gate |-> GateView(s, LabelsReadable(s)),
   sources |-> IF Injectable(s) THEN DOMAIN s.user.secrets ELSE {},
   names |-> names, versions |-> vs, warnings |-> 0, updateAttempted |-> FALSE]

\* The versions and names a report has before Vault is asked.
AppliedView(s) ==
  IF Injectable(s) /\ s.container /\ s.state.applied # Garbage
  THEN AppliedVersions(s.state) ELSE EmptyMap
ManagedView(s) ==
  IF LabelsReadable(s) THEN ManagedEnvironment(s.state) ELSE {}

-----------------------------------------------------------------------------
\* The attempt ends: the deferred recordStatus, and the locals are gone.
Idle(c) ==
  /\ pc' = [pc EXCEPT ![c] = "idle"]
  /\ snap' = [snap EXCEPT ![c] = Nothing]
  /\ versions' = [versions EXCEPT ![c] = EmptyMap]
  /\ docs' = [docs EXCEPT ![c] = EmptyMap]

Finish(c, report, successful, now) ==
  /\ Idle(c)
  /\ status' = [status EXCEPT ![c] = Record(@, report, successful, now)]

Succeed(c, state, vs, names) ==
  Finish(c, ReportOn(snap[c], state, vs, names), TRUE, snap[c].version)

Fail(c, vs, names) ==
  Finish(c, ReportOn(snap[c], "error", vs, names), FALSE, snap[c].version)

Goto(c, step) == pc' = [pc EXCEPT ![c] = step]

\* Steps that touch neither the world nor the fault count.
Quietly == UNCHANGED <<worldVars, delayed, faults>>

-----------------------------------------------------------------------------
\* The service object comes from an inspection or from a listing.
Inspect(c) ==
  /\ pc[c] = "idle"
  /\ snap' = [snap EXCEPT ![c] = svc]
  /\ Goto(c, "begin")
  /\ UNCHANGED <<versions, docs, status>>
  /\ Quietly

\* Nothing marks the service as ours.
Ignore(c) ==
  /\ pc[c] = "begin"
  /\ ~Tracked(snap[c])
  /\ Idle(c)
  /\ status' = [status EXCEPT ![c] = NoStatus]
  /\ Quietly

\* A check before the first remote call fails.
Reject(c) ==
  /\ pc[c] = "begin"
  /\ Tracked(snap[c])
  /\ \/ ParseError(snap[c].user)
     \/ Injectable(snap[c]) /\ ~Admitted(snap[c])
     \/ /\ Disabled(snap[c])
        /\ HasControllerState(snap[c].state)
        /\ ~CleanupDue(snap[c])
  /\ Fail(c, AppliedView(snap[c]), ManagedView(snap[c]))
  /\ Quietly

\* A disabled service without controller state.
Rest(c) ==
  /\ pc[c] = "begin"
  /\ Tracked(snap[c])
  /\ Disabled(snap[c])
  /\ ~HasControllerState(snap[c].state)
  /\ Succeed(c, "disabled", EmptyMap, {})
  /\ Quietly

StartCleanup(c) ==
  /\ pc[c] = "begin"
  /\ CleanupDue(snap[c])
  /\ Goto(c, "cleanup")
  /\ UNCHANGED <<snap, versions, docs, status>>
  /\ Quietly

StartInjection(c) ==
  /\ pc[c] = "begin"
  /\ Admitted(snap[c])
  /\ Goto(c, "metadata")
  /\ UNCHANGED <<snap, versions, docs, status>>
  /\ Quietly

-----------------------------------------------------------------------------
\* Vault answers the metadata request; a document without versions is an error.
CurrentVersion(c) ==
  /\ pc[c] = "metadata"
  /\ \E s \in DOMAIN Secrets(c) :
       LET k == KeyOf(Secrets(c)[s]) IN
       /\ IsNext(s, c, versions[c])
       /\ \/ /\ Len(vault[k]) > 0
             /\ versions' = [versions EXCEPT ![c] = Put(@, s, Len(vault[k]))]
             /\ UNCHANGED <<pc, snap, docs, status>>
          \/ /\ Len(vault[k]) = 0
             /\ Fail(c, AppliedView(snap[c]), ManagedView(snap[c]))
  /\ Quietly

\* The service is as the last injection left it and Vault has nothing newer.
AlreadyCurrent(c) ==
  /\ pc[c] = "metadata"
  /\ DOMAIN versions[c] = DOMAIN Secrets(c)
  /\ StateIsCurrent(snap[c], versions[c])
  /\ Succeed(c, "ready", versions[c], ManagedView(snap[c]))
  /\ Quietly

StartReading(c) ==
  /\ pc[c] = "metadata"
  /\ DOMAIN versions[c] = DOMAIN Secrets(c)
  /\ ~StateIsCurrent(snap[c], versions[c])
  /\ Goto(c, "data")
  /\ UNCHANGED <<snap, versions, docs, status>>
  /\ Quietly

\* The version ReadVersion asks for.  Mutant: whatever is the latest by now.
LatestByNow(c, s) == Len(vault[KeyOf(Secrets(c)[s])])
Requested(c, s) == versions[c][s]

\* Vault answers the request for exactly the version the metadata named, and
\* the document is resolved into environment values.
ReadVersion(c) ==
  /\ pc[c] = "data"
  /\ \E s \in DOMAIN Secrets(c) :
       LET k == KeyOf(Secrets(c)[s])
           n == Requested(c, s)
           Usable(doc) == Holds(k, n, doc) /\ Accepts(Secrets(c), docs[c], s, doc)
       IN
       /\ IsNext(s, c, docs[c])
       /\ \/ \E doc \in Documents :
               /\ Usable(doc)
               /\ docs' = [docs EXCEPT ![c] = Put(@, s, doc)]
               /\ UNCHANGED <<pc, snap, versions, status>>
          \/ /\ \A doc \in Documents : ~Usable(doc)
             /\ Fail(c, versions[c], ManagedView(snap[c]))
  /\ Quietly

-----------------------------------------------------------------------------
\* The spec the attempt wants to store, and the names it then manages.
Wanted(c) ==
  IF pc[c] = "cleanup" THEN Cleaned(snap[c])
                       ELSE Injected(snap[c], versions[c], docs[c])
\* Mutant: the report names the variables managed before the update.
WantedNamesBefore(c) == ManagedView(snap[c])
WantedNames(c) ==
  IF pc[c] = "cleanup" THEN {} ELSE DOMAIN Desired(Secrets(c), docs[c])
WantedState(c) == IF pc[c] = "cleanup" THEN "disabled" ELSE "ready"

\* Mutant: an update with only some of the sources read.
SomeRead(c) == pc[c] = "data"
AllRead(c) == pc[c] = "data" /\ DOMAIN docs[c] = DOMAIN Secrets(c)

\* The injection would leave environment, labels and constraints as they are.
NothingToWrite(c) == AllRead(c) /\ Wanted(c) = snap[c]

ReadyToUpdate(c) == (pc[c] = "cleanup" \/ AllRead(c)) /\ ~NothingToWrite(c)

\* Mutant: the update is sent without the version index of the snapshot.
AcceptedAnyway(spec) == TRUE

\* Swarm accepts an update at the current version index only.
Accepted(spec) == spec.version = svc.version

\* The reports on an update that Docker accepted, with warnings or without.
UpdateReports(c) ==
  {[ReportOn(Wanted(c), WantedState(c), versions[c], WantedNames(c)) EXCEPT
      !.warnings = IF warns THEN svc.version + 1 ELSE 0,
      !.updateAttempted = TRUE] : warns \in DockerWarns}

\* UpdateService returns: stored, possibly with warnings.
Stored(c) ==
  /\ ReadyToUpdate(c)
  /\ Accepted(Wanted(c))
  /\ Store(Wanted(c))
  /\ \E report \in UpdateReports(c) : Finish(c, report, TRUE, svc.version + 1)
  /\ UNCHANGED <<delayed, faults>>

\* The early return before UpdateService, and UpdateService without an error.
UpdateAccepted(c) ==
  IF NothingToWrite(c)
  THEN Succeed(c, "ready", versions[c], WantedNames(c)) /\ Quietly
  ELSE Stored(c)

\* UpdateService returns an error: the service has moved on.
UpdateConflict(c) ==
  /\ ReadyToUpdate(c)
  /\ ~Accepted(Wanted(c))
  /\ Fail(c, versions[c], WantedNames(c))
  /\ Quietly

-----------------------------------------------------------------------------
Fault ==
  /\ faults < MaxFaults
  /\ faults' = faults + 1
  /\ UNCHANGED worldVars

\* A Vault call fails or times out.
VaultError(c) ==
  /\ Fault
  /\ \/ /\ pc[c] = "metadata"
        /\ DOMAIN versions[c] # DOMAIN Secrets(c)
        /\ Fail(c, AppliedView(snap[c]), ManagedView(snap[c]))
     \/ /\ pc[c] = "data"
        /\ DOMAIN docs[c] # DOMAIN Secrets(c)
        /\ Fail(c, versions[c], ManagedView(snap[c]))
  /\ UNCHANGED delayed

\* The update times out; Swarm may still receive it, now, later or never.
UpdateTimeout(c) ==
  /\ Fault
  /\ ReadyToUpdate(c)
  /\ delayed' = delayed \cup {Wanted(c)}
  /\ Fail(c, versions[c], WantedNames(c))

LateUpdate ==
  /\ \E spec \in delayed :
       /\ Accepted(spec)
       /\ Store(spec)
       /\ delayed' = delayed \ {spec}
  /\ UNCHANGED <<localVars, status, faults>>

\* The process dies and starts again with an empty status store.
Crash(c) ==
  /\ Fault
  /\ Idle(c)
  /\ status' = [status EXCEPT ![c] = NoStatus]
  /\ UNCHANGED delayed

-----------------------------------------------------------------------------
Init ==
  /\ WorldInit
  /\ pc = [c \in Controllers |-> "idle"]
  /\ snap = [c \in Controllers |-> Nothing]
  /\ versions = [c \in Controllers |-> EmptyMap]
  /\ docs = [c \in Controllers |-> EmptyMap]
  /\ status = [c \in Controllers |-> NoStatus]
  /\ delayed = {}
  /\ faults = 0

Step(c) ==
  \/ Inspect(c) \/ Ignore(c) \/ Reject(c) \/ Rest(c)
  \/ StartCleanup(c) \/ StartInjection(c)
  \/ CurrentVersion(c) \/ AlreadyCurrent(c) \/ StartReading(c) \/ ReadVersion(c)
  \/ UpdateAccepted(c) \/ UpdateConflict(c)

Disturbance(c) == VaultError(c) \/ UpdateTimeout(c) \/ Crash(c)

Others == WorldNext /\ UNCHANGED <<localVars, status, delayed, faults>>

Next ==
  \/ \E c \in Controllers : Step(c) \/ Disturbance(c)
  \/ LateUpdate
  \/ Others

Spec == Init /\ [][Next]_vars

\* A controller keeps running: the periodic resync starts the next attempt,
\* and every call returns or times out.
Fairness == \A c \in Controllers : WF_vars(Step(c))
FairSpec == Spec /\ Fairness

-----------------------------------------------------------------------------
LocalTypeOK ==
  /\ pc \in [Controllers -> {"idle", "begin", "cleanup", "metadata", "data"}]
  /\ snap = [c \in Controllers |-> snap[c]]
  /\ versions = [c \in Controllers |-> versions[c]]
  /\ docs = [c \in Controllers |-> docs[c]]
  /\ status = [c \in Controllers |-> status[c]]
  /\ \A c \in Controllers :
       /\ IF pc[c] = "idle" THEN snap[c] = Nothing ELSE IsService(snap[c])
       /\ IsMap(versions[c], Sources, Nat)
       /\ IsMap(docs[c], Sources, Documents)
       /\ status[c] # NoStatus => IsEntry(status[c])

TypeOK ==
  /\ WorldTypeOK
  /\ LocalTypeOK
  /\ \A spec \in delayed : IsService(spec)
  /\ faults \in 0 .. MaxFaults

\* A step in which Swarm stores a controller's update.
ControllerWrites == updates' # updates

\* Every source of s contributes all its variables, from one document that
\* Vault held as the version the applied-versions label names.
CompleteEnvironment(s) ==
  \A x \in DOMAIN s.user.secrets :
    LET source == s.user.secrets[x] IN
    \E w \in written :
      /\ w[1] = KeyOf(source)
      /\ w[2] = s.state.applied[x]
      /\ SourceResolves(source, w[3])
      /\ Contribution(source, w[3]) = Select(s.env, DOMAIN Mapping(source, w[3]))

\* Where every stack file that asks for the gate also carries it, a gated
\* service whose gate is open, so that its tasks may start, has the complete
\* environment of one injection (README: tasks wait until the first injection).
GatedTasksComplete ==
  /\ Injectable(svc)
  /\ BootstrapGate(svc.user)
  /\ ~HasBootstrapGate(svc)
  => CompleteEnvironment(svc)

\* An update never touches what operators own, judged on the service as it is
\* when Swarm stores the update and not as it was when the controller read it:
\* spec fields and user labels, variables outside the managed set, other
\* placement constraints.
OperatorsKeepTheirs ==
  [][ControllerWrites =>
       LET ours == ManagedEnvironment(svc.state) \cup ManagedEnvironment(svc'.state) IN
       /\ svc'.image = svc.image
       /\ svc'.container = svc.container
       /\ svc'.user = svc.user
       /\ DOMAIN svc'.env \ ours = DOMAIN svc.env \ ours
       /\ \A n \in DOMAIN svc.env \ ours : svc'.env[n] = svc.env[n]
       /\ svc'.placement \ {Gate} = svc.placement \ {Gate}]_vars

\* No update loop: updates answer changes made by others, never the
\* controller's own writes, also when an update times out and is stored late.
\* The versions of the sources are asked for one by one, so that where two
\* sources name one document, a new version of it may be seen for the second
\* source only: that takes another update.
SharedDocument ==
  \E d \in Deployments : \E x, y \in DOMAIN d.user.secrets :
    x # y /\ KeyOf(d.user.secrets[x]) = KeyOf(d.user.secrets[y])
UpdatesPerChange == IF SharedDocument THEN 2 ELSE 1
UpdatesAnswerChanges == updates <= UpdatesPerChange * changes + 1

\* As long as the configuration stays, no update takes a source back to an
\* older version, whatever two controllers do (for documents never purged).
AppliedNeverRegress ==
  [][/\ ControllerWrites
     /\ svc.state.applied \notin {NoLabel, Garbage}
     /\ svc.state.configHash = ConfigHash(svc.user)
     /\ Enabled(svc.user)
     => \A x \in DOMAIN svc.state.applied :
          svc'.state.applied[x] >= svc.state.applied[x]]_vars

\* When everything has been read, there is something to write: the early
\* return before UpdateService is never taken, because stateIsCurrent already
\* covers it.
StateCheckSuffices == \A c \in Controllers : ~NothingToWrite(c)

\* As long as the service is still the one the last attempt reported on, a
\* ready report tells the truth about its labels, its variables and its gate,
\* and a disabled one that nothing of the controller is left on it.
StatusTruthful ==
  \A c \in Controllers :
    /\ status[c] # NoStatus
    /\ status[c].lastAttempt = svc.version
    => LET r == status[c].report IN
       /\ r.state = "ready" =>
            /\ r.versions = svc.state.applied
            /\ r.names = svc.state.managed
            /\ r.names \subseteq DOMAIN svc.env
            /\ r.gate = (IF BootstrapGate(svc.user) THEN "open" ELSE "-")
            /\ ~HasBootstrapGate(svc)
       /\ r.state = "disabled" => ~HasControllerState(svc.state)

\* A failed attempt keeps the time of the last success, and warnings stay
\* until the next accepted update, unless the entry is dropped.
StatusRemembers ==
  [][\A c \in Controllers :
       /\ status[c] # NoStatus
       /\ status'[c] # NoStatus
       => /\ status[c].lastSuccess # NoStatus =>
               /\ status'[c].lastSuccess # NoStatus
               /\ status'[c].lastSuccess >= status[c].lastSuccess
          /\ status'[c].report.warnings # status[c].report.warnings =>
               ControllerWrites /\ status'[c].report.state # "error"]_vars

-----------------------------------------------------------------------------
\* The documents that are now current resolve for every source of s.
Resolvable(s, current) ==
  /\ \A x \in DOMAIN s.user.secrets :
       LET k == KeyOf(s.user.secrets[x]) IN
       Len(vault[k]) > 0 /\ Holds(k, Len(vault[k]), current[x])
  /\ Compatible(s.user.secrets, current)

\* The service is what its labels and Vault now ask for: the values of the
\* current documents if they can be injected, nothing of ours if it is disabled.
Converged ==
  /\ Admitted(svc) =>
       \A current \in [DOMAIN svc.user.secrets -> Documents] :
         Resolvable(svc, current) =>
           /\ Select(svc.env, DOMAIN Desired(svc.user.secrets, current))
                = Desired(svc.user.secrets, current)
           /\ ~HasBootstrapGate(svc)
  /\ ~CleanupDue(svc)

\* Once the changes and the faults stop, the service converges and stays so.
Convergence == <>[]Converged

=============================================================================
