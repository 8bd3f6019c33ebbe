# docker-vault-injector: TLA+ models and proofs

docker-vault-injector is a controller for Docker Swarm.  It reads labels of a
service, fetches documents from Vault KV v2 and writes their values into the
environment of the service, as one `ServiceUpdate`.  All it remembers between two
attempts is in four labels of the service itself.

This directory models that program.  TLC checks the models on small instances,
TLAPS proves the central results for all instances.  `PROJECT.json` lists the
runs, the mutated definitions that show each property can fail, the source lines
behind each definition, the hazards and the theorems.

## The system

| Component | State | Operations | Correct when |
|---|---|---|---|
| Label contract (`internal/labels`) | none; labels live on the service | parse the configuration, hash it, read and write the state labels | malformed labels are rejected as a whole; the hash changes with the configuration |
| Environment editing (`internal/environment`) | none | read a list as a map, select, merge, remove, hash | operators' entries survive verbatim; a second injection changes nothing; digests tell environments apart |
| Secret resolution (in `internal/controller`) | none | import, map, convert, detect collisions | a value comes from exactly one source and one version |
| Service reconciliation (`ReconcileService`, `removeManagedEnvironment`) | snapshot, versions and documents of the attempt | inspect, check, ask versions, compare, read, update or clean up | writes are atomic and complete, never overwrite newer work, do not loop, and converge |
| Control loop (`Run`, `watchEvents`, the `WithLogging` functions) | queue of 128 service IDs, ticker, event stream | full pass, event, reconnect, prune, stop | nothing stays undone although events get lost; shutdown is prompt |
| Status store (`internal/status`) | one entry per service, heartbeat, a file | record, remove, prune, heartbeat, health check | entries are true, keep the last success, and follow the cluster; a concurrent reader sees a complete file |
| Docker client (`internal/dockerclient`) | none | list, inspect, update, watch | updates carry the version index of the snapshot |
| Vault client (`internal/vaultclient`) | token, lease | current version, read version, log in, look up, renew | a valid token is kept, a lost one is replaced promptly, the loop never spins |
| Backoff (`internal/retry`) | current delay | next, reset | delays grow to the maximum and not beyond, and are never zero |
| Startup and commands (`cmd`), configuration (`internal/config`) | settings, heartbeat | load, authenticate, start, health, stop | the loop starts only with a token; a controller that makes progress is reported healthy; a signal ends it |

Interactions.  The watcher goroutine feeds service IDs into a bounded queue; the
main goroutine alternates between that queue and the ticker and calls
`ReconcileService`, which makes calls to Docker and Vault, one after another,
under a timeout.  A third goroutine keeps the Vault token.  Operators, Swarm and
Vault change the shared state at any moment; during a rolling update of the
injector itself, or with several replicas, another controller does too.

What is hard: the service is read long before it is written; Vault is read in
two steps per source; an update may be stored although its call timed out; events
are lost; the listing is old when the pass ends; the process may die anywhere;
tokens expire while the calls that keep them are under way; the file is read while
it is being replaced; a health check judges progress by a timestamp.
`PROJECT.json` lists these hazards with their source lines.

## Modules

| Module | Models | Used by |
|---|---|---|
| `Labels` | label parsing as a predicate, configuration hash, state labels | all but `EventLoop` |
| `Environment` | environment functions on maps | `Resolution`, `EnvironmentList` |
| `EnvironmentList` | the same functions on lists of entries, and their agreement with the maps | run `environment_lists` |
| `Resolution` | documents to desired variables | `World` |
| `World` | one Swarm service, Vault documents, operators (external) | `Injection` |
| `Injection` | the decisions of the controller on a service object, and the abstract specification `InjectionSpec` | `Reconcile` |
| `StatusStore` | the status entry of one service | `Reconcile` |
| `Reconcile` | `ReconcileService` call by call, several controllers, faults | runs `gate`, `operators`, `replicas`, `convergence`, `purge`, proofs |
| `ReconcileProofs`, `UpdateProofs` | theorems about `Reconcile`: refinement and what operators own; what the updates achieve, and the status entries | `UpdateProofs` extends `ReconcileProofs` |
| `EventLoop` | which service is reconciled when | run `event_loop` |
| `Backoff` | delays between retries, with jitter | `TokenLifecycle`, `Process` (by `INSTANCE`), run `backoff` |
| `TokenLifecycle` | `RunTokenLifecycle` in time, against a Vault that grants, expires, revokes and goes away | run `token` |
| `AtomicFile` | abstract: a file replaced and read in one step | `StatusFile` |
| `StatusFile` | `writeLocked` and `Read`, system call by system call | run `status_file` |
| `Process` | `run`: settings, first authentication, the loop and its touches in time, health, signals | runs `process`, `health_documented` |
| `EnvironmentListProofs`, `EventLoopProofs`, `BackoffProofs`, `TokenLifecycleProofs`, `StatusFileProofs`, `ProcessProofs` | theorems about the six | |
| `MCReconcile`, `MCEnvironmentList`, `MCProcess` | stack files, documents, names, values and settings for TLC | |

### Reconcile

`svc` is the service as Swarm stores it: version index, user labels, state
labels, environment, placement constraints, and one field (`image`) for all the
rest of the spec.  `vault` holds the versions of each document, `written` the
history of everything ever written.  Each controller has `pc`, `snap` (the
`service` parameter), `versions` (`currentVersions`) and `docs` (the documents
behind `desiredValues`), and a status entry.

One action stands for each remote call and for the local computation that
follows it: `Inspect`; then `Ignore`, `Reject`, `Rest`, `StartCleanup` or
`StartInjection` for the checks before the first call; `CurrentVersion` once per
source in sorted order; `AlreadyCurrent` or `StartReading` for `stateIsCurrent`;
`ReadVersion` once per source, at the version the metadata named, with the
conversion and the collision check; `UpdateAccepted` or `UpdateConflict`.  Every
way out ends in `Finish`, the deferred `recordStatus`.  `VaultError`,
`UpdateTimeout` and `Crash` are the faults; a request that timed out stays in
`delayed`, from where Swarm may still take it (`LateUpdate`) as long as its
version index is the current one.

Abstractions.  Labels are grouped by source when they enter the model.  JSON and
SHA-256 are injective (for the digest of the environment, `EnvironmentListProofs`
shows that different variables feed SHA-256 different bytes).  Timestamps of the
status store are represented by the version index of the service reported on.  The order of variables in the list
matters to `slices.Equal` only; it is stable (`SecondInjectionChangesNothing`).

`InjectionSpec` says what `ReconcileService` promises: each write is one
atomic step from the service *as it is then* to a complete injection (for every
source a document that Vault really held under the recorded version, all of them
compatible) or to a complete clean-up.  `Reconcile` extends `Injection`, so the
refinement mapping is the identity on the variables they share.

### EventLoop

Services have a version, may carry traces of the injector (`tracked`: the enabled
label, controller state or the gate) and may need an injection or a clean-up;
operators add and take away labels, and a clean-up may take away the last trace.
`ReconcileService` is reduced to what `Reconcile` establishes about it: a service it
read without a trace loses its status entry (`removeStatus`); otherwise, from a
current snapshot it makes one update if and only if one is needed, from an
outdated one its update is refused (`AttemptsAreNeeded` in `UpdateProofs`); when it
fails its update may have been stored.  The
loop, the ticker with its one-element channel, the queue with its non-blocking send, the stream that loses what was
under way when it breaks, cancellation and restart are kept in full.  A change in
Vault makes a service needy and sends no event.

### TokenLifecycle

Time is counted in thirds of a second: Vault tells TTLs in whole seconds and
`leaseFromTTL` takes two thirds of them, so all instants are whole numbers.
Instants are kept as countdowns (`lease.renewIn`, `wait`, `token.left`), which
keeps the state space finite without a bound on time.  `pc` is the place in
`RunTokenLifecycle` or `reauthenticateUntilSuccess`: `loop`, `sleep` (the first
`waitForContext`), `lookup`, `renew`, `credential` (the head of the retry loop
and `readCredential`), `login`, `retry` (the second `waitForContext`), `stopped`.

A call has three moments: the request (`Call`), the instant at which Vault acts
(`VaultAnswers`, or `CallFails` when it is away or the context is cancelled) and
the return, at which the client reads its clock.  Up to `Latency` passes between
the first and the last.  `Tick` lets time pass only in a wait that is not over or
in a call below its latency; local computation takes no time.  A login grants
`fresh`, which becomes the token of the client (`SetToken`) when the call returns.
Faults are an outage, a revocation (of either token), a lost answer, a role whose
credential is rotated before the files are, empty files and the signal.  Vault
issues renewable or other tokens, and chooses at each login whether the life of the
token is capped; near the cap the renewals shrink.

### StatusFile and AtomicFile

A mutation of the store (the first heartbeat of `NewStore`, `Record`, `Heartbeat`,
`Remove`, `Prune`) is its time, a number; the memory and the snapshots in the files
are sets of mutations, and a snapshot has the time at which it was made.  `Mutate`
takes the mutex and changes the memory; `Create`, `EncodePart`, `Encode`, `Rename` are the system calls of
`writeLocked`; `WriteFails` stands for an error of any of them, with the deferred
`Remove` of the temporary file; `Crash` leaves that file behind and starts the
process again with an empty memory, since nothing is ever read back from the file;
`NewStore` writes at once.  `started` remembers when that was, so that `Published`
can say which mutations a file has to hold.  A reader opens the file and
decodes it later; a file it holds open survives the replacement, as files do under
POSIX.  `AtomicFile` is the promise in the comment on `Store`: replaced by a later
snapshot in one step, seen at one instant.  The refinement mapping takes the file
at the path for the register, and lets a reader see it at the moment of `Open`.

### Process

Time again, here for the health command: which steps touch the heartbeat and how
long the ones between them may last.  `Load` is the acceptance of the settings,
`PathRefused` what `Authenticate` adds.  Each call lasts up to its timeout
(`reconcileTimeout` for a listing, a service and an event; `LoginTimeout`, the
60 s of the Vault API client, for a login); `Tick` lets time pass only below it.
A login fails while Vault is away (`up`), while the credentials are missing, empty or
refused (`accepted`), for a malformed path, and after the signal.
`Touch` covers `touchStatus` and the writes of `Record` and `Prune`, which may
fail.  What the passes and events do to services is left to `EventLoop` and
`Reconcile`; here they end with a touch or without one.

## Runs

| Run | Instance | Question |
|---|---|---|
| `gate` | one and two sources, three documents that collide or change the set of names; deploy, put, purge, image; 2 changes, 1 fault | `GatedTasksComplete`: a gated service is never schedulable without the complete environment of one injection (nobody edits labels past the stack file here; `GateSurvivesCarefulEdits` covers such edits).  `InjectionSpec` |
| `operators` | gated, ungated and disabled stacks, and odd ones: unparsable, untracked, without container, with a stray gate; edits of labels, environment, gate and state labels, deploy, put, delete, touch; null values, Docker warnings; 2 changes, 1 fault | `OperatorsKeepTheirs`, `UpdatesAnswerChanges` (no update loop: at most one update for each change by others), `StateCheckSuffices` (the early return before the update is dead code), `StatusTruthful`, `StatusRemembers` (last success and warnings survive failed attempts), `TypeOK` |
| `replicas` | two interchangeable controllers, put and image; 2 changes, 1 fault | `AppliedNeverRegress`, `UpdatesAnswerChanges`, `OperatorsKeepTheirs`, `InjectionSpec` under concurrency |
| `convergence` | a gated stack of two sources that name one document and may collide, and its disabled form, without variables of operators (run `operators` has them); deploy, put, delete, edits of labels, environment, gate and state labels; 2 changes, 1 fault | `Convergence`: after the last change, drift and fault the service is, and stays, what Vault and the labels ask for.  `UpdatesAnswerChanges` with two updates for each change |
| `purge` | put and metadata deletion; 2 changes | `Convergence` is **violated**, see Findings |
| `event_loop` | two services, one of which gets and loses labels, queue of 1, 2 changes, 2 faults | `PruneKeepsLiving`; `TypeOK` with the bound of the queue; `Settles`, `StatusFollows`, `ShutsDown` under fairness |
| `environment_lists` | three names, one a prefix of another, two values, up to 3 operator entries | `AgreesWithMaps`, `InjectionIsStable`, `OperatorsEntriesKept`, `HashTellsApart` |
| `backoff` | all pairs of 14 durations, odd and even, with and without jitter | `GrowsExponentially`, `DelaysInRange`, `TypeOK` |
| `token` | TTL 4 s, without a maximum life or with one of 6 s, renewable or not, calls of up to 1/3 s, 3 faults | `KeepsToken`: without faults an uncapped token never lapses.  `PromptRecovery`: once Vault answers and the files are right, a token is there within one check interval and three calls, or one retry maximum and two calls.  `NoSpin`, `TypeOK`; `Recovers` and `ShutsDown` under fairness |
| `status_file` | two writers, one reader, five files, 4 mutations, 2 failures or crashes | `Implements` (the refinement), `Published` (a success shows everything this life of the process has done, and nothing from before), `LitterBounded`, `TypeOK` with mutual exclusion |
| `process` | settings around the limits, refused ones, a malformed path, a static token; two services, 2 faults | `HealthyWhileProgressing` for a maximum age that covers the sums; `TypeOK` with: nothing runs on refused settings; `Authenticates` and `ShutsDown` under fairness |
| `health_documented` | two settings as the README advises | `HealthyAsDocumented` is **violated**, by either setting: with the one by a listing and the first service, with the other by a failed startup listing and the first tick; see Findings |

Bounds.  `MaxChanges` bounds what operators do, `MaxFaults` failed calls, broken
streams, cancellations, crashes and restarts, `QueueCap` stands for 128, and
`MaxEntries` bounds the list operators extend.  Two changes are enough for one
between any two calls of an attempt and another one during its repetition; one
fault for a late update that meets the next attempt; a queue of one for events to
be dropped.  Two sources are enough for a partial failure and a collision.
Attempts are not bounded.  In `replicas` the controllers are symmetric; no
liveness is checked there.

`Latency` is one tick, so that Vault acts before or after time passes in a call;
the times in `PromptRecovery` are tight, with one tick less TLC finds a violation.
The TTL of 4 s just satisfies the hypothesis of `KeepsToken`: the TTL in seconds is
greater than three times the latency in thirds of a second, that is, a third of the
TTL is longer than three calls, or the TTL longer than nine.  Three faults let an outage
meet a rotation and a revocation.  `MaxCalls` and `TooLong` bound two histories
just above the values that would violate the properties; they do not restrict the
steps.  Five files are enough for the path, a temporary file, two left behind by
crashes and one held open.  `MaxMutations` stands for an endless sequence, and
`MaxServices` of two gives a first and a later service of a pass.

The event loop, the token lifecycle and the process may end (cancellation), and
the status file comes to rest at `MaxMutations`, so these runs do not check for
deadlock; all others do.

Fairness.  `Reconcile!FairSpec` asks that each controller takes its next step:
the ticker starts attempts for ever, and each call returns or reaches
`reconcileTimeout`.  Nothing is assumed of faults, operators or late updates.
`EventLoop!FairSpec` asks weak fairness of the goroutines and of the ticker, and
strong fairness of each branch of the `select` in `Run`: Go chooses among ready
branches at random, so a branch ready again and again is taken.
`TokenLifecycle!FairSpec` asks that the goroutine runs, time passes, calls are
answered or fail within `Latency` (every context has the client's timeout), Vault
comes back after an outage and operators write the rotated credential into the
files; nothing is asked of faults.  `Process!FairSpec` asks the same of the
process, time, Vault and whoever puts the credentials right, and strong fairness of `Stop` for the `select` of `Run`,
where a stream of events could otherwise be preferred to the signal for ever.

## Findings

*Reused version numbers* (`purge`).  README line 3: "When a secret changes, the
controller updates the service".  `stateIsCurrent` (controller.go:302) compares
version numbers.  If the metadata of a document is deleted and the document is
written again, it starts over at version 1; a service that had version 1 applied
is taken to be current and keeps the old values until a later version or a
redeployment.

*Maximum age of the heartbeat* (`health_documented`).  README line 417: "Set
`INJECTOR_HEALTH_MAX_AGE` higher than custom polling, reconciliation, or
authentication retry intervals."; line 415: the command "prints `healthy` and
exits with status zero while the controller loop is making progress".
`reconcileAllWithLogging` (controller.go:151-170) touches the heartbeat before the
listing and then only after the first service; both may last
`INJECTOR_RECONCILE_TIMEOUT`, and after a failed startup listing the first tick is
a whole polling interval away.  A maximum age above each setting but below twice
the timeout, or below the timeout plus the polling interval, lets the command fail
while the loop is within its limits.  `Covers` is the condition that suffices;
`HealthyWhileProgressing` is proved from it.  The defaults satisfy it.

Observations that contradict no statement of the repository.  `ReconcileService`
asks for the versions source by source (controller.go:286-294).  Where two sources
name one document and it is rotated between the two questions, the update records
an old version for one source and the new one for the other, and a second rolling
update follows; `UpdatesPerChange` is 2 for such stacks and 1 for all others.  A
login whose token dies before its answer arrives does not help, so
`PromptRecovery` needs tokens that outlive a call.  Near the maximum
life of a token the renewals grant less and less, and the token may lapse for a
moment before it is replaced (hence the hypothesis of `KeepsToken`;
`PromptRecovery` bounds the gap).  `Load` accepts an AppRole path that
`Authenticate` refuses; the startup then retries for ever, with a good heartbeat
(hence the hypothesis of `Authenticates`).  A status file that cannot be created
disables the store, and the health command fails although the loop makes progress.

## Proofs

`ReconcileProofs` proves, for any number of controllers, sources, documents,
changes and faults:

- `TypeCorrect`: `Spec => []TypeOK`;
- `EarlyReturnUnreachable`: `Spec => []StateCheckSuffices`;
- `Refinement`: `Spec => InjectionSpec`;
- `OperatorsKeep`: `Spec => OperatorsKeepTheirs`.

They rest on `Invariant`, `Spec => []Inv`.  `TypeOK` alone is not inductive, and
no statement about a write follows from the present state of the service alone,
because the write was prepared earlier.  `Inv` adds

- `SnapshotsCoherent`: a snapshot is at most as new as the service, and equal to
  it if the versions are equal.  This is what makes optimistic locking work: an
  accepted update was computed from the very service it replaces;
- `PhasesEstablished`: at each point of `ReconcileService`, what the checks so far
  have established, in particular that each document read is in `written` under
  the version asked for, and that the documents so far are compatible;
- `DelayedLawful`: a request whose caller gave up is lawful if its version
  is still current, and can never become current again if it is not;
- `VaultRecorded`: what Vault holds was written.

The step lemmas treat an attempt that ends (`EndsKeeps`), one that moves on
(`MoveOnKeeps`, `CurrentVersionKeeps`, `ReadVersionKeeps`) and changes by others
(`WorldSteps`, `OnwardKeeps`); `WantedIsLawful` links the state of an attempt to
`LawfulSpecs`.  `EarlyReturnUnreachable` needs that a service on which an
injection changes nothing satisfies `stateIsCurrent`
(`EmptyInjectionIsCurrent`).

`UpdateProofs` goes on from there to what the updates achieve:

- `Completeness`: each write of a controller that leaves a service asking for an
  injection leaves it with the complete environment of one injection, with no
  further hypothesis.  It follows from the refinement step: a lawful injection
  determines documents, versions and environment (`InjectionHasReading`);
- `GateSurvivesCarefulEdits`: `Spec /\ [][CarefulEdits]_vars =>
  []GatedTasksComplete`, under two hypotheses on what others do.
  `StacksCarryGate`: a stack file with the gate label has the placement
  constraint; without it Swarm schedules the first tasks before any controller
  looks.  `CarefulEdits`: whoever edits labels, controller state or environment past
  the stack file has closed the gate before, or leaves a service that asks for no
  gate, or leaves the variables alone that the sources may set.  An edit of the
  labels of a service whose gate is open may name sources nobody has injected yet,
  while Swarm is free to start tasks, so some such hypothesis is needed.  Redeployments,
  rotations, purges, edits of constraints, faults and other controllers are all
  allowed.  `GateHolds` is the case the run checks: nobody edits (`HandsOff`);
- `NoUpdateLoop`: `Spec => []UpdatesAnswerChanges`, with no hypothesis.  A bound on
  a count is not inductive, so `WithinBudget` says what may still be spent in each
  state: if the service, Vault, an attempt or a request under way calls for an update
  (`Prompted`), one is left, and if an attempt or a request works with versions
  that are already outdated (`PromptedTwice`), two are;
- `VersionsGoForward`: `Spec => AppliedNeverRegress` if no document is purged (a
  purge starts the numbers over, see Findings).  `Forward` says that the labels of
  the service and of every request under way name versions Vault still has
  (`Sound`), that versions an attempt has learnt stay held (`StillHeld`), and that
  an attempt on the present service has learnt nothing older than its labels
  (`NotOlder`).

- `AttemptsAreNeeded`: `Spec => AttemptsMatchNeeds`, the view that `EventLoop` takes
  of an attempt.  An update is stored only if the snapshot is the present service
  and the service, or a version the attempt has learnt, calls for it; the service
  then records these versions and calls for nothing more.  An attempt that reports
  success without an update, on a present snapshot, had no reason for one.

The same module proves `StatusIsTruthful` (`Spec => []StatusTruthful`) and
`StatusIsRemembered` (`Spec => StatusRemembers`), from an invariant in two parts:
`LabelsLinked`, the label of managed names lists the names of the digest, at least
one; `Timely`, no entry is ahead of the service or of the attempt under way.

`EnvironmentListProofs` proves, for lists of any length and any names and values,
every property of the run `environment_lists`: `ListsAgreeWithMaps`,
`SecondInjectionChangesNothing`, `DigestsTellApart` and `OthersKept`, and
`ListTypeCorrect`, on which they rest.  All but the last are statements about the
functions on lists, so the work is induction over lists, which the provers do not
have.  `Induction` derives it from the least element of a set of naturals
(`WFMin`, `NatLessThanWellFounded` of the library), `SeqInduction` and
`FiniteInduction` from that, each over a *set* closed under one more step in place
of a predicate.  `RecursionExists` shows that a function defined by recursion over
an index exists, without which nothing is known of `Without` and `Hashed`.  From
there:

- `WithoutOfAppend`, `AsMapOfAppend` and their forms for concatenation say what one
  more entry changes; `AsMapOfWithout` gives the agreement of lists and maps;
- `WithoutPairs` builds the pairing of the entries that stay, entry by entry, so
  that it keeps their order (`OthersKept`);
- `Less` is a strict total order (`LessTotal`), a finite set has a greatest member
  (`Greatest`), hence a sorted list (`SortedExists`) and only one
  (`SortingIsDetermined`): the order in which Go walks a map does not matter;
- the bytes of the digest are read back from their end: the last NUL byte ends a
  value, the one before it a name (`SplitAtLastNul`, `FedReadsBack`), so equal bytes
  have equal last variables, and by induction all are equal (`HashedIsInjective`).
  This needs that names and values hold no NUL byte, as in every process
  environment.

`EventLoopProofs` proves, for any services, capacity of the queue, changes and
faults, `TypeCorrect` (which holds the bound of the queue) and `PruneSafe`
(`Spec => PruneKeepsLiving`).  The invariant adds that events name services that
have existed (`EventsKnown`), that a listing is kept exactly as long as its pass
(`PassOnly`), and that during a pass every entry of a service that still exists is
of a listed one (`EntriesListed`): events are not handled during a pass, so nothing
can enter a service the listing lacks before the pass prunes.

`BackoffProofs` proves, for all durations, `TypeCorrect`, `Growth`
(`Spec => []GrowsExponentially`) and `Delays` (`Spec => DelaysInRange`).
`GrowsExponentially` is not inductive: at an odd maximum the doubled delay may stop
one below it, and `Inv` says where the base is then.

`TokenLifecycleProofs` proves, for all TTLs, intervals, latencies and bounds on
faults,

- `NeverSpins`: `Spec => []NoSpin`, from `Paced`, which bounds the calls made at
  this instant at each point of the loop.  Its core is that a wait which is over
  has taken time: `leaseFromTTL` rejects a TTL of zero, so `renewAt` lies ahead at
  the top of the loop, and no delay of the backoff is zero;
- `TokenKept`: `Spec => []KeepsToken`, for TTLs above nine times the latency, from `Margin`, which says how much life an
  uncapped token has at each point (the time until renewal plus a third of the TTL, less
  the calls made since), and `Served`, which says that without faults the renewal
  or login that is due succeeds;
- `PromptlyRecovered`: `Spec => []PromptRecovery` if `Outlives`, every token lives
  longer than a call.  `Prompt` says how long the token may have been invalid at
  each point, so that together with the wait or call still ahead the sum stays
  within the bound; its core is the login under way, which was made with the right
  credential and brings a token that is alive on arrival, or was made before the
  token was lost;
- `TypeCorrect`.

`StatusFileProofs` proves, for any number of writers, readers, files, mutations
and faults, `Refinement` (`Spec => Implements`), `Publication`
(`Spec => Published`), `Litter` (`Spec => []LitterBounded`) and `TypeCorrect`.
The invariant says that the writer in `writeLocked` is alone, that its temporary
file is neither at the path nor open nor left behind, that what it holds is the
present memory, that it is newer than the file at the path, and that the memory is
the set of all mutations since the process started (`MemoryInv`).

`ProcessProofs` proves `Health` (`Spec => []HealthyWhileProgressing`) and
`TypeCorrect` for all settings.  `Fresh` gives the age of the heartbeat at each
point: the age of the call under way, plus a listing before the first service; in
the `select`, together with the time to the next tick, at most timeout plus
polling interval.  `Timing` bounds the calls and waits.

Assumptions on the constants: sources are naturals (only their order is used); an
absent or garbled label is different from every label value a hash can take and
from every set of names; stack files and documents are well-formed, a document that
is not empty has a field; `Deleted` is not a document; the mark for no status is not
a time; durations are naturals, positive where `Load` and `Authenticate` insist on
it; `None` is neither a file nor a writer; in `EnvironmentList`, names and values are
sequences of bytes other than 0; settings have the types that parsing
gives them.  TLC evaluates them in each run.  The hypotheses `StacksCarryGate`,
`CarefulEdits`, `HandsOff`, `Outlives` and the absence of purges are not
assumptions of the modules but of the single theorems that need them.

Only model-checked: all liveness (`Convergence`, `Settles`, `StatusFollows`,
`ShutsDown`, `Recovers`, `Authenticates`), since fairness is beyond the prover.

## Not modelled

- Subcommand selection and the rendering of the status as table or YAML: input and
  output without state of interest.
- Defaults and the syntax of settings: a setting parses or it does not.
- The delays of the reconnect in `watchEvents`, and the rule that resets them:
  `EventLoop` has a wait that ends; their bounds are those of `Backoff`.
- A crash of the host: `writeLocked` relies on the file system for the order of
  data and rename, and the model has a crash of the process only.
- The static token mode beyond its first check: nothing maintains that token.
- Log messages and error texts.  Errors of `json.Marshal` on strings and integers
  cannot occur.

## Plan

All components are modelled, with runs and with refinements of `InjectionSpec` and
`AtomicFile`; every safety property of a passing run is a theorem.  What could still
be added is a proof that `EventLoop` as a whole is refined by several services of
`Reconcile` side by side; `AttemptsAreNeeded` is its central step.
