------------------------------ MODULE EventLoop ------------------------------
(***************************************************************************)
(* Run, watchEvents and the two WithLogging functions: which service is    *)
(* reconciled when.  The main goroutine makes full passes (at startup and  *)
(* at every tick) and handles queued events; the watcher goroutine feeds   *)
(* the queue from an event stream that breaks, loses events and is         *)
(* reopened after a backoff.                                               *)
(*                                                                         *)
(* ReconcileService itself is taken from module Reconcile: a service it    *)
(* sees no trace of the injector on loses its status entry; otherwise it   *)
(* makes one update if the snapshot is current and the service needs one,  *)
(* and none if it does not; from an outdated snapshot its update is        *)
(* refused; and it may fail, with its update stored or not.                *)
(***************************************************************************)
EXTENDS Naturals, Sequences

CONSTANTS
  Ids,          \* service IDs; Swarm never uses one twice
  Labelled,     \* the services that ever get labels of the injector
  NoId,         \* an event without an actor ID
  QueueCap,     \* capacity of the triggers channel
  MaxChanges,   \* bound on changes by operators
  MaxFaults     \* bound on failed calls, broken streams and crashes

ASSUME EventLoopAssumption ==
  /\ Labelled \subseteq Ids
  /\ NoId \notin Ids
  /\ QueueCap \in Nat
  /\ MaxChanges \in Nat
  /\ MaxFaults \in Nat

VARIABLES
  born, exists,  \* services ever created, and not removed since
  rev,           \* version of each service
  tracked,       \* services with the enabled label, controller state or the gate
  needy,         \* services whose present spec needs an injection or a clean-up
  changes,
  faults,
  cancelled,     \* the context of the process is done
  watcher,       \* "watching", "waiting" (backoff) or "stopped"
  stream,        \* events under way on the open stream
  triggers,      \* the queue between the two goroutines
  loop,          \* where Run is
  tick,          \* "none" (no ticker yet), "armed" or "due"
  listing,       \* the services of this pass that are still to be done, as listed
  active,        \* activeServiceIDs of this pass
  current,       \* the service being reconciled: <<id, what was read of it>>
  status         \* IDs with an entry in the status store

swarm == <<born, exists, rev, tracked, needy, changes>>
watch == <<watcher, stream>>
run == <<loop, tick, listing, active, current, status>>
vars == <<born, exists, rev, tracked, needy, changes, faults, cancelled, watcher,
          stream, triggers, loop, tick, listing, active, current, status>>

Empty == [i \in {} |-> 0]

\* A service object as the controller reads it; and before it does.
Seen(i) == [rev |-> rev[i], tracked |-> i \in tracked]
Unseen == [rev |-> 0, tracked |-> FALSE]

\* Docker tells the stream, if one is open.
Emit(id) == stream' = IF watcher = "watching" THEN Append(stream, id) ELSE stream

Fault == faults < MaxFaults /\ faults' = faults + 1

-----------------------------------------------------------------------------
\* The operators.
Change ==
  /\ changes < MaxChanges
  /\ changes' = changes + 1
  /\ UNCHANGED <<faults, cancelled, watcher, triggers, run>>

CreateService ==
  /\ Change
  /\ \E i \in Ids \ born :
       /\ born' = born \cup {i}
       /\ exists' = exists \cup {i}
       /\ rev' = [rev EXCEPT ![i] = 1]
       /\ tracked' \in {tracked, tracked \cup (Labelled \cap {i})}
       /\ needy' = needy \cup (tracked' \cap {i})
       /\ Emit(i)

\* The labels may come or go; what the controller has done calls for a clean-up.
UpdateService ==
  /\ Change
  /\ \E i \in exists :
       /\ rev' = [rev EXCEPT ![i] = @ + 1]
       /\ tracked' \in {tracked \cup (Labelled \cap {i}), tracked \ {i}}
       /\ needy' \in {(needy \cup {i}) \cap tracked', needy \ {i}}
       /\ Emit(i)
  /\ UNCHANGED <<born, exists>>

\* A secret changes in Vault.  Docker knows nothing of it: no event.
RotateSecret ==
  /\ Change
  /\ \E i \in tracked : needy' = needy \cup {i}
  /\ UNCHANGED <<born, exists, rev, tracked, stream>>

\* The event filter passes creations and updates only.
RemoveService ==
  /\ Change
  /\ \E i \in exists :
       exists' = exists \ {i} /\ tracked' = tracked \ {i} /\ needy' = needy \ {i}
  /\ UNCHANGED <<born, rev, stream>>

\* An event that names no service.
StrayEvent ==
  /\ Change
  /\ Emit(NoId)
  /\ UNCHANGED <<born, exists, rev, tracked, needy>>

-----------------------------------------------------------------------------
\* watchEvents: hand one event over without ever blocking.
\* Mutant: the queue takes whatever comes.
HandOverAlways(id) ==
  triggers' = IF id # NoId THEN Append(triggers, id) ELSE triggers
HandOver(id) ==
  triggers' = IF id # NoId /\ Len(triggers) < QueueCap THEN Append(triggers, id)
                                                       ELSE triggers

WatchEvent ==
  /\ watcher = "watching"
  /\ stream # <<>>
  /\ HandOver(Head(stream))
  /\ stream' = Tail(stream)
  /\ UNCHANGED <<swarm, faults, cancelled, watcher, run>>

\* The stream ends; events still under way on it are lost.
StreamEnds ==
  /\ watcher = "watching"
  /\ Fault
  /\ watcher' = "waiting"
  /\ stream' = <<>>
  /\ UNCHANGED <<swarm, cancelled, triggers, run>>

Reconnect ==
  /\ watcher = "waiting"
  /\ ~cancelled
  /\ watcher' = "watching"
  /\ UNCHANGED <<swarm, faults, cancelled, stream, triggers, run>>

\* Mutant: only the wait between two streams looks at the context.
StopAfterStream ==
  /\ cancelled
  /\ watcher = "waiting"
  /\ watcher' = "stopped"
  /\ UNCHANGED <<swarm, faults, cancelled, stream, triggers, run>>

StopWatching ==
  /\ cancelled
  /\ watcher # "stopped"
  /\ watcher' = "stopped"
  /\ stream' = <<>>
  /\ UNCHANGED <<swarm, faults, cancelled, triggers, run>>

-----------------------------------------------------------------------------
\* Back to the select; the ticker exists once the startup pass is over.
Select ==
  /\ loop' = "select"
  /\ tick' = IF tick = "none" THEN "armed" ELSE tick

\* reconcileAllWithLogging: the listing is read once, at the start.
List ==
  /\ loop = "list"
  /\ ~cancelled
  /\ listing' = [i \in exists |-> Seen(i)]
  /\ active' = exists
  /\ loop' = "pass"
  /\ UNCHANGED <<swarm, faults, cancelled, watch, triggers, tick, current, status>>

\* ListServices fails: no reconciliation, and no pruning either.  Mutant: the
\* failure is taken for an empty listing.
EmptyPass == loop' = "pass" /\ UNCHANGED tick
\* Mutant: the failure ends Run.
EndOfRun == loop' = "stopped" /\ UNCHANGED tick
SkipPass == Select

ListFails ==
  /\ loop = "list"
  /\ Fault \/ (cancelled /\ UNCHANGED faults)
  /\ SkipPass
  /\ UNCHANGED <<swarm, cancelled, watch, triggers, listing, active, current, status>>

\* The next service of the pass, as the listing had it.
NextListed ==
  /\ loop = "pass"
  /\ \E i \in DOMAIN listing :
       /\ current' = <<i, listing[i]>>
       /\ listing' = [j \in DOMAIN listing \ {i} |-> listing[j]]
  /\ loop' = "reconcile"
  /\ UNCHANGED <<swarm, faults, cancelled, watch, triggers, tick, active, status>>

\* Status entries of services that the listing did not have go.
Vanished == status \ active

Prune ==
  /\ loop = "pass"
  /\ DOMAIN listing = {}
  /\ status' = status \ Vanished
  /\ active' = {}
  /\ Select
  /\ UNCHANGED <<swarm, faults, cancelled, watch, triggers, listing, current>>

-----------------------------------------------------------------------------
\* The branches of the select in Run.
TakeTick ==
  /\ loop = "select"
  /\ tick = "due"
  /\ tick' = "armed"
  /\ loop' = "list"
  /\ UNCHANGED <<swarm, faults, cancelled, watch, triggers, listing, active, current, status>>

TakeTrigger ==
  /\ loop = "select"
  /\ triggers # <<>>
  /\ current' = <<Head(triggers), Unseen>>
  /\ triggers' = Tail(triggers)
  /\ loop' = "inspect"
  /\ UNCHANGED <<swarm, faults, cancelled, watch, tick, listing, active, status>>

Return ==
  /\ loop = "select"
  /\ cancelled
  /\ loop' = "stopped"
  /\ UNCHANGED <<swarm, faults, cancelled, watch, triggers, tick, listing, active,
                 current, status>>

\* The ticker's channel holds one tick; more are dropped.
TickerFires ==
  /\ tick = "armed"
  /\ loop # "stopped"
  /\ tick' = "due"
  /\ UNCHANGED <<swarm, faults, cancelled, watch, triggers, loop, listing, active,
                 current, status>>

\* reconcileIDWithLogging: a fresh inspection; the service may be gone.
Inspect ==
  /\ loop = "inspect"
  /\ current[1] \in exists
  /\ current' = <<current[1], Seen(current[1])>>
  /\ loop' = "reconcile"
  /\ UNCHANGED <<swarm, faults, cancelled, watch, triggers, tick, listing, active, status>>

InspectFails ==
  /\ loop = "inspect"
  /\ \/ Fault
     \/ (current[1] \notin exists \/ cancelled) /\ UNCHANGED faults
  /\ current' = <<>>
  /\ Select
  /\ UNCHANGED <<swarm, cancelled, watch, triggers, listing, active, status>>

-----------------------------------------------------------------------------
\* removeStatus.  Mutant: the entry of a service that lost its labels stays.
LeaveStatus(i) == status
RemoveStatus(i) == status \ {i}

\* ReconcileService publishes what it did, or drops the entry of a service that
\* it read as untracked.  Then on with the pass, or back to the select.
Done ==
  /\ status' = IF current[2].tracked THEN status \cup {current[1]}
                                     ELSE RemoveStatus(current[1])
  /\ current' = <<>>
  /\ IF active = {} THEN Select ELSE loop' = "pass" /\ UNCHANGED tick

\* The update, for a current snapshot.  A clean-up may leave no trace of the
\* injector on the service.
Fresh == current[1] \in exists /\ current[2] = Seen(current[1])
Update ==
  LET i == current[1]
  IN  /\ Fresh /\ i \in needy
      /\ rev' = [rev EXCEPT ![i] = @ + 1]
      /\ tracked' \in {tracked, tracked \ {i}}
      /\ needy' = needy \ {i}
      /\ Emit(i)
NoUpdate == UNCHANGED <<rev, tracked, needy, stream>>

Reconciled ==
  /\ loop = "reconcile"
  /\ \/ ~cancelled /\ Update
     \/ (~Fresh \/ current[1] \notin needy) /\ NoUpdate
  /\ Done
  /\ UNCHANGED <<born, exists, changes, faults, cancelled, watcher, triggers,
                 listing, active>>

\* An error, or a timeout that does not tell whether the update was stored.
ReconcileFails ==
  /\ loop = "reconcile"
  /\ Fault \/ (cancelled /\ UNCHANGED faults)
  /\ Update \/ NoUpdate
  /\ Done
  /\ UNCHANGED <<born, exists, changes, cancelled, watcher, triggers, listing, active>>

-----------------------------------------------------------------------------
\* A signal cancels the context of both goroutines.
Cancel ==
  /\ Fault
  /\ ~cancelled
  /\ cancelled' = TRUE
  /\ UNCHANGED <<swarm, watch, triggers, run>>

\* The process starts again, after its end or after a crash.
Restart ==
  /\ Fault
  /\ cancelled' = FALSE
  /\ watcher' = "watching"
  /\ stream' = <<>>
  /\ triggers' = <<>>
  /\ loop' = "list"
  /\ tick' = "none"
  /\ listing' = Empty
  /\ active' = {}
  /\ current' = <<>>
  /\ status' = {}
  /\ UNCHANGED swarm

Init ==
  /\ exists \in SUBSET Ids
  /\ born = exists
  /\ rev = [i \in Ids |-> IF i \in exists THEN 1 ELSE 0]
  /\ tracked \in SUBSET (exists \cap Labelled)
  /\ needy = tracked
  /\ changes = 0
  /\ faults = 0
  /\ cancelled = FALSE
  /\ watcher = "watching"
  /\ stream = <<>>
  /\ triggers = <<>>
  /\ loop = "list"
  /\ tick = "none"
  /\ listing = Empty
  /\ active = {}
  /\ current = <<>>
  /\ status = {}

Operators == CreateService \/ UpdateService \/ RotateSecret \/ RemoveService
             \/ StrayEvent
Watcher == WatchEvent \/ Reconnect \/ StopWatching
Branches == TakeTick \/ TakeTrigger \/ Return
Work == List \/ ListFails \/ NextListed \/ Prune \/ Inspect \/ InspectFails
        \/ Reconciled \/ ReconcileFails

Next == Operators \/ Watcher \/ StreamEnds \/ TickerFires \/ Branches \/ Work
        \/ Cancel \/ Restart

Spec == Init /\ [][Next]_vars

\* Both goroutines run, the ticker fires, and a branch of a select that is
\* ready again and again is chosen: Go picks among ready branches at random.
Fairness ==
  /\ WF_vars(Watcher)
  /\ WF_vars(StopWatching)
  /\ WF_vars(TickerFires)
  /\ WF_vars(Work)
  /\ SF_vars(TakeTick)
  /\ SF_vars(TakeTrigger)
  /\ SF_vars(Return)

FairSpec == Spec /\ Fairness

-----------------------------------------------------------------------------
Readings == [rev: Nat, tracked: BOOLEAN]

\* Types; in particular the queue never exceeds its capacity, a service is
\* inspected or reconciled exactly when the loop is there, and a pass under
\* way still knows what it listed.
TypeOK ==
  /\ exists \subseteq born /\ born \subseteq Ids
  /\ rev \in [Ids -> Nat]
  /\ needy \subseteq tracked /\ tracked \subseteq exists \cap Labelled
  /\ changes \in 0 .. MaxChanges
  /\ faults \in 0 .. MaxFaults
  /\ cancelled \in BOOLEAN
  /\ watcher \in {"watching", "waiting", "stopped"}
  /\ stream \in Seq(Ids \cup {NoId})
  /\ triggers \in Seq(Ids) /\ Len(triggers) <= QueueCap
  /\ loop \in {"list", "pass", "inspect", "reconcile", "select", "stopped"}
  /\ tick \in {"none", "armed", "due"}
  /\ active \subseteq born
  /\ DOMAIN listing \subseteq active
  /\ listing \in [DOMAIN listing -> Readings]
  /\ IF loop \in {"inspect", "reconcile"} THEN current \in born \X Readings
                                         ELSE current = <<>>
  /\ status \subseteq born

\* Pruning the status store from a listing that may be outdated when it is
\* used never drops a service that exists, not even one created during the
\* pass, nor when Docker cannot be listed.
PruneKeepsLiving ==
  [][Prune => status \cap exists \subseteq status']_vars

\* Whatever is lost on the way (events of a broken stream, events of a full
\* queue, changes in Vault that send none, updates refused because the service
\* moved on), every service gets what it needs once changes and faults stop,
\* and the events of the controller's own updates die out.
Settles ==
  <>[](cancelled \/ (needy = {} /\ triggers = <<>> /\ stream = <<>>))

\* The status store ends up with exactly the services that carry a trace of the
\* injector, also where a service was removed, or lost its labels to an operator
\* or to the controller's own clean-up, after it had been read.
StatusFollows == <>[](cancelled \/ status = tracked)

\* Once the context is cancelled both goroutines end, wherever they are.
ShutsDown ==
  cancelled ~> (~cancelled \/ (loop = "stopped" /\ watcher = "stopped"))

=============================================================================
