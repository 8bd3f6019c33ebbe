--------------------------- MODULE EventLoopProofs ---------------------------
(***************************************************************************)
(* Proofs about EventLoop, for any services, queue capacity, changes and   *)
(* faults.                                                                 *)
(***************************************************************************)
EXTENDS EventLoop, SequenceTheorems, TLAPS

\* Events name services that have existed, or none.
EventsKnown == stream \in Seq(born \cup {NoId}) /\ triggers \in Seq(born)

\* The listing of a pass is kept from the pass to the pruning and not longer;
\* that is how the code after a reconciliation tells a pass from an event.
InPass == loop = "pass" \/ (loop = "reconcile" /\ active # {})
PassOnly == loop \in {"list", "inspect", "select", "stopped"} => active = {}

\* During a pass every entry of a service that still exists belongs to the
\* listing, and so does the service being reconciled.
EntriesListed ==
  /\ InPass => status \cap exists \subseteq active
  /\ loop = "reconcile" /\ active # {} => current[1] \in active

Inv == TypeOK /\ EventsKnown /\ PassOnly /\ EntriesListed

-----------------------------------------------------------------------------
(* The sequences.                                                          *)

LEMMA EmitTyped ==
  ASSUME NEW S, stream \in Seq(S), NEW i \in S, Emit(i)
  PROVE  stream' \in Seq(S)
BY AppendProperties DEF Emit

LEMMA HandOverTyped ==
  ASSUME NEW S, triggers \in Seq(S), QueueCap \in Nat, Len(triggers) <= QueueCap,
         NEW i \in S \cup {NoId}, HandOver(i)
  PROVE  triggers' \in Seq(S) /\ Len(triggers') <= QueueCap
<1>1. CASE i # NoId /\ Len(triggers) < QueueCap
  <2>1. i \in S /\ triggers' = Append(triggers, i)
    BY <1>1 DEF HandOver
  <2>2. Append(triggers, i) \in Seq(S) /\ Len(Append(triggers, i)) = Len(triggers) + 1
    BY <2>1, AppendProperties
  <2>3. Len(triggers) \in Nat
    BY LenProperties
  <2> QED BY <1>1, <2>1, <2>2, <2>3
<1>2. CASE ~(i # NoId /\ Len(triggers) < QueueCap)
  BY <1>2 DEF HandOver
<1> QED BY <1>1, <1>2

\* Services are only ever added to those that have existed.
LEMMA KnownStay ==
  ASSUME EventsKnown, NEW i \in Ids
  PROVE  /\ stream \in Seq(born \cup {i} \cup {NoId})
         /\ triggers \in Seq(born \cup {i})
<1>1. born \cup {NoId} \subseteq born \cup {i} \cup {NoId} /\ born \subseteq born \cup {i}
  OBVIOUS
<1> QED BY <1>1, SeqMonotonic DEF EventsKnown

\* What is read of a service, and what stands for it before.
LEMMA SeenTyped ==
  ASSUME rev \in [Ids -> Nat]
  PROVE  Unseen \in Readings /\ \A i \in Ids : Seen(i) \in Readings
BY DEF Seen, Unseen, Readings

-----------------------------------------------------------------------------
(* The operators.                                                          *)

LEMMA OperatorsKeep ==
  ASSUME Inv, Operators
  PROVE  Inv'
<1> USE DEF Inv
<1>1. /\ changes' \in 0 .. MaxChanges
      /\ UNCHANGED <<faults, cancelled, watcher, triggers>>
      /\ UNCHANGED <<loop, tick, listing, active, current, status>>
  BY EventLoopAssumption DEF Operators, CreateService, UpdateService, RotateSecret,
     RemoveService, StrayEvent, Change, run, TypeOK
<1>2. CASE CreateService
  <2>1. PICK i \in Ids \ born : /\ born' = born \cup {i}
                                /\ exists' = exists \cup {i}
                                /\ rev' = [rev EXCEPT ![i] = 1]
                                /\ tracked' \in {tracked, tracked \cup (Labelled \cap {i})}
                                /\ needy' = needy \cup (tracked' \cap {i})
                                /\ Emit(i)
    BY <1>2 DEF CreateService
  <2>2. stream' \in Seq(born' \cup {NoId}) /\ triggers' \in Seq(born')
    BY <1>1, <2>1, KnownStay, EmitTyped
  <2>3. stream' \in Seq(Ids \cup {NoId})
    BY <2>1, EmitTyped DEF TypeOK
  <2>4. rev' \in [Ids -> Nat]
    BY <2>1 DEF TypeOK
  <2>5. TypeOK'
    BY <1>1, <2>1, <2>3, <2>4 DEF TypeOK
  <2>6. status \cap exists' = status \cap exists
    BY <2>1 DEF TypeOK
  <2> QED BY <1>1, <2>2, <2>5, <2>6 DEF EventsKnown, PassOnly, EntriesListed, InPass
<1>3. CASE UpdateService
  <2>1. PICK i \in exists :
          /\ rev' = [rev EXCEPT ![i] = @ + 1]
          /\ tracked' \in {tracked \cup (Labelled \cap {i}), tracked \ {i}}
          /\ needy' \in {(needy \cup {i}) \cap tracked', needy \ {i}}
          /\ Emit(i)
    BY <1>3 DEF UpdateService
  <2>2. UNCHANGED <<born, exists>>
    BY <1>3 DEF UpdateService
  <2>3. stream' \in Seq(born' \cup {NoId}) /\ stream' \in Seq(Ids \cup {NoId})
    BY <2>1, <2>2, EmitTyped DEF TypeOK, EventsKnown
  <2>4. TypeOK'
    BY <1>1, <2>1, <2>2, <2>3 DEF TypeOK
  <2> QED BY <1>1, <2>2, <2>3, <2>4 DEF EventsKnown, PassOnly, EntriesListed, InPass
<1>4. CASE RotateSecret
  BY <1>1, <1>4 DEF RotateSecret, TypeOK, EventsKnown, PassOnly, EntriesListed, InPass
<1>5. CASE RemoveService
  BY <1>1, <1>5 DEF RemoveService, TypeOK, EventsKnown, PassOnly, EntriesListed, InPass
<1>6. CASE StrayEvent
  <2>1. Emit(NoId) /\ UNCHANGED <<born, exists, rev, tracked, needy>>
    BY <1>6 DEF StrayEvent
  <2>2. stream' \in Seq(born' \cup {NoId}) /\ stream' \in Seq(Ids \cup {NoId})
    BY <2>1, EmitTyped DEF TypeOK, EventsKnown
  <2> QED BY <1>1, <2>1, <2>2 DEF TypeOK, EventsKnown, PassOnly, EntriesListed, InPass
<1> QED BY <1>2, <1>3, <1>4, <1>5, <1>6 DEF Operators

-----------------------------------------------------------------------------
(* The two goroutines.                                                     *)

\* The watcher feeds the queue and never touches what the main goroutine has.
LEMMA WatcherKeeps ==
  ASSUME Inv, Watcher \/ StreamEnds
  PROVE  Inv'
<1> USE DEF Inv, swarm, run
<1>0. <<>> \in Seq(born \cup {NoId}) /\ <<>> \in Seq(Ids \cup {NoId})
  BY EmptySeq
<1>1. CASE WatchEvent
  <2>1. /\ stream # <<>> /\ HandOver(Head(stream)) /\ stream' = Tail(stream)
        /\ UNCHANGED <<swarm, faults, cancelled, watcher, run>>
    BY <1>1 DEF WatchEvent
  <2>2. Head(stream) \in born \cup {NoId} /\ Tail(stream) \in Seq(born \cup {NoId})
    BY <2>1, HeadTailProperties DEF EventsKnown
  <2>3. Tail(stream) \in Seq(Ids \cup {NoId})
    BY <2>1, HeadTailProperties DEF TypeOK
  <2>4. triggers' \in Seq(born) /\ Len(triggers') <= QueueCap
    BY <2>1, <2>2, HandOverTyped, EventLoopAssumption DEF TypeOK, EventsKnown
  <2>5. triggers' \in Seq(Ids)
    BY <2>4, SeqMonotonic DEF TypeOK
  <2> QED BY <2>1, <2>2, <2>3, <2>4, <2>5
          DEF TypeOK, EventsKnown, PassOnly, EntriesListed, InPass
<1>2. CASE Reconnect
  BY <1>2 DEF Reconnect, TypeOK, EventsKnown, PassOnly, EntriesListed, InPass
<1>3. CASE StopWatching
  BY <1>0, <1>3 DEF StopWatching, TypeOK, EventsKnown, PassOnly, EntriesListed, InPass
<1>4. CASE StreamEnds
  BY <1>0, <1>4, EventLoopAssumption
  DEF StreamEnds, Fault, TypeOK, EventsKnown, PassOnly, EntriesListed, InPass
<1> QED BY <1>1, <1>2, <1>3, <1>4 DEF Watcher

\* The select of Run.
LEMMA SelectKeeps ==
  ASSUME Inv, Branches \/ TickerFires
  PROVE  Inv'
<1> USE DEF Inv, swarm, watch
<1>1. CASE TakeTick
  BY <1>1 DEF TakeTick, TypeOK, EventsKnown, PassOnly, EntriesListed, InPass
<1>2. CASE TakeTrigger
  <2>1. /\ triggers # <<>> /\ loop = "select" /\ loop' = "inspect"
        /\ current' = <<Head(triggers), Unseen>> /\ triggers' = Tail(triggers)
        /\ UNCHANGED <<swarm, faults, cancelled, watch, tick, listing, active, status>>
    BY <1>2 DEF TakeTrigger
  <2>2. Head(triggers) \in born /\ Tail(triggers) \in Seq(born)
    BY <2>1, HeadTailProperties DEF EventsKnown
  <2>3. /\ Tail(triggers) \in Seq(Ids) /\ Len(Tail(triggers)) = Len(triggers) - 1
        /\ Len(triggers) \in Nat
    BY <2>1, HeadTailProperties, LenProperties DEF TypeOK
  <2>4. Len(triggers') <= QueueCap
    BY <2>1, <2>3, EventLoopAssumption DEF TypeOK
  <2>5. current' \in born \X Readings
    BY <2>1, <2>2, SeenTyped DEF TypeOK
  <2> QED BY <2>1, <2>2, <2>3, <2>4, <2>5
          DEF TypeOK, EventsKnown, PassOnly, EntriesListed, InPass
<1>3. CASE Return
  BY <1>3 DEF Return, TypeOK, EventsKnown, PassOnly, EntriesListed, InPass
<1>4. CASE TickerFires
  BY <1>4 DEF TickerFires, TypeOK, EventsKnown, PassOnly, EntriesListed, InPass
<1> QED BY <1>1, <1>2, <1>3, <1>4 DEF Branches

\* A pass starts: everything it will keep is in its listing.
LEMMA ListKeeps ==
  ASSUME Inv, List
  PROVE  Inv'
<1> USE DEF Inv, swarm, watch
<1>1. /\ listing' = [i \in exists |-> Seen(i)] /\ active' = exists /\ loop' = "pass"
      /\ loop = "list"
      /\ UNCHANGED <<swarm, faults, cancelled, watch, triggers, tick, current, status>>
  BY DEF List
<1>2. DOMAIN listing' = exists /\ listing' \in [exists -> Readings]
  <2>1. \A i \in exists : Seen(i) \in Readings
    BY SeenTyped DEF TypeOK
  <2> QED BY <1>1, <2>1
<1> QED BY <1>1, <1>2 DEF TypeOK, EventsKnown, PassOnly, EntriesListed, InPass

LEMMA NextListedKeeps ==
  ASSUME Inv, NextListed
  PROVE  Inv'
<1> USE DEF Inv, swarm, watch
<1>1. PICK i \in DOMAIN listing :
        /\ current' = <<i, listing[i]>>
        /\ listing' = [j \in DOMAIN listing \ {i} |-> listing[j]]
  BY DEF NextListed
<1>2. /\ loop = "pass" /\ loop' = "reconcile"
      /\ UNCHANGED <<swarm, faults, cancelled, watch, triggers, tick, active, status>>
  BY DEF NextListed
<1>3. /\ i \in active /\ listing[i] \in Readings
      /\ DOMAIN listing' \subseteq active
      /\ listing' \in [DOMAIN listing' -> Readings]
  BY <1>1 DEF TypeOK
<1>4. current' \in born \X Readings /\ current'[1] = i
  BY <1>1, <1>3 DEF TypeOK
<1> QED BY <1>2, <1>3, <1>4 DEF TypeOK, EventsKnown, PassOnly, EntriesListed, InPass

\* The update of a reconciliation, or none.
LEMMA UpdateKeeps ==
  ASSUME Inv, loop = "reconcile", Update \/ NoUpdate, UNCHANGED exists
  PROVE  /\ rev' \in [Ids -> Nat]
         /\ needy' \subseteq tracked' /\ tracked' \subseteq exists' \cap Labelled
         /\ stream' \in Seq(born \cup {NoId}) /\ stream' \in Seq(Ids \cup {NoId})
<1> USE DEF Inv
<1>1. CASE NoUpdate
  BY <1>1 DEF NoUpdate, TypeOK, EventsKnown
<1>2. CASE Update
  <2>1. /\ rev' = [rev EXCEPT ![current[1]] = @ + 1]
        /\ tracked' \in {tracked, tracked \ {current[1]}}
        /\ needy' = needy \ {current[1]}
        /\ Emit(current[1])
    BY <1>2 DEF Update
  <2>2. current[1] \in born
    BY DEF TypeOK
  <2>3. stream' \in Seq(born \cup {NoId}) /\ stream' \in Seq(Ids \cup {NoId})
    BY <2>1, <2>2, EmitTyped DEF TypeOK, EventsKnown
  <2> QED BY <2>1, <2>2, <2>3 DEF TypeOK
<1> QED BY <1>1, <1>2

\* The end of a reconciliation, in a pass or after an event.
LEMMA DoneKeeps ==
  ASSUME Inv, loop = "reconcile", Done,
         UNCHANGED <<born, exists, active, listing, triggers>>
  PROVE  /\ loop' \in {"pass", "select"} /\ tick' \in {"none", "armed", "due"}
         /\ current' = <<>> /\ status' \subseteq born
         /\ PassOnly' /\ EntriesListed'
<1> USE DEF Inv
<1>1. current[1] \in born /\ current' = <<>>
  BY DEF TypeOK, Done
<1>2. status' \subseteq born
  BY <1>1 DEF TypeOK, Done, RemoveStatus
<1>3. CASE active = {}
  BY <1>1, <1>2, <1>3 DEF TypeOK, Done, Select, PassOnly, EntriesListed, InPass
<1>4. CASE active # {}
  <2>1. loop' = "pass" /\ tick' = tick
    BY <1>4 DEF Done
  <2>2. current[1] \in active /\ status \cap exists \subseteq active
    BY <1>4 DEF EntriesListed, InPass
  <2>3. status' \cap exists' \subseteq active'
    BY <2>2 DEF Done, RemoveStatus
  <2> QED BY <1>1, <1>2, <2>1, <2>3 DEF TypeOK, PassOnly, EntriesListed, InPass
<1> QED BY <1>3, <1>4

LEMMA WorkKeeps ==
  ASSUME Inv, Work
  PROVE  Inv'
<1> USE DEF Inv, swarm, watch, Select
<1>1. CASE List
  BY <1>1, ListKeeps
<1>2. CASE ListFails
  BY <1>2, EventLoopAssumption
  DEF ListFails, SkipPass, Fault, TypeOK, EventsKnown, PassOnly, EntriesListed, InPass
<1>3. CASE NextListed
  BY <1>3, NextListedKeeps
<1>4. CASE Prune
  BY <1>4 DEF Prune, Vanished, TypeOK, EventsKnown, PassOnly, EntriesListed, InPass
<1>5. CASE Inspect
  <2>1. /\ loop = "inspect" /\ loop' = "reconcile" /\ current[1] \in exists
        /\ current' = <<current[1], Seen(current[1])>>
        /\ UNCHANGED <<swarm, faults, cancelled, watch, triggers, tick, listing, active,
                       status>>
    BY <1>5 DEF Inspect
  <2>2. current' \in born \X Readings
    BY <2>1, SeenTyped DEF TypeOK
  <2> QED BY <2>1, <2>2 DEF TypeOK, EventsKnown, PassOnly, EntriesListed, InPass
<1>6. CASE InspectFails
  <2>1. /\ loop = "inspect" /\ loop' = "select" /\ current' = <<>>
        /\ tick' = IF tick = "none" THEN "armed" ELSE tick
        /\ faults' = faults \/ (faults < MaxFaults /\ faults' = faults + 1)
        /\ UNCHANGED <<swarm, cancelled, watch, triggers, listing, active, status>>
    BY <1>6 DEF InspectFails, Fault
  <2> QED BY <2>1, EventLoopAssumption
          DEF TypeOK, EventsKnown, PassOnly, EntriesListed, InPass
<1>7. CASE Reconciled
  <2>1. /\ loop = "reconcile" /\ Done
        /\ UNCHANGED <<born, exists, changes, faults, cancelled, watcher, triggers,
                       listing, active>>
    BY <1>7 DEF Reconciled
  <2>2. Update \/ NoUpdate
    BY <1>7 DEF Reconciled
  <2>3. /\ rev' \in [Ids -> Nat]
        /\ needy' \subseteq tracked' /\ tracked' \subseteq exists' \cap Labelled
        /\ stream' \in Seq(born \cup {NoId}) /\ stream' \in Seq(Ids \cup {NoId})
    BY <2>1, <2>2, UpdateKeeps
  <2> QED BY <2>1, <2>3, DoneKeeps DEF TypeOK, EventsKnown
<1>8. CASE ReconcileFails
  <2>1. /\ loop = "reconcile" /\ Done /\ (Update \/ NoUpdate)
        /\ faults' = faults \/ (faults < MaxFaults /\ faults' = faults + 1)
        /\ UNCHANGED <<born, exists, changes, cancelled, watcher, triggers, listing, active>>
    BY <1>8 DEF ReconcileFails, Fault
  <2>2. faults' \in 0 .. MaxFaults
    BY <2>1, EventLoopAssumption DEF TypeOK
  <2>3. /\ rev' \in [Ids -> Nat]
        /\ needy' \subseteq tracked' /\ tracked' \subseteq exists' \cap Labelled
        /\ stream' \in Seq(born \cup {NoId}) /\ stream' \in Seq(Ids \cup {NoId})
    BY <2>1, UpdateKeeps
  <2> QED BY <2>1, <2>2, <2>3, DoneKeeps DEF TypeOK, EventsKnown
<1> QED BY <1>1, <1>2, <1>3, <1>4, <1>5, <1>6, <1>7, <1>8 DEF Work

\* A signal, and a new process that has lost everything but the services.
LEMMA ProcessKeeps ==
  ASSUME Inv, Cancel \/ Restart
  PROVE  Inv'
<1> USE DEF Inv, swarm, watch, run, Fault
<1>0. <<>> \in Seq(born \cup {NoId}) /\ <<>> \in Seq(Ids \cup {NoId})
      /\ <<>> \in Seq(born) /\ <<>> \in Seq(Ids) /\ Len(<<>>) = 0
  BY EmptySeq
<1>1. CASE Cancel
  BY <1>1, EventLoopAssumption
  DEF Cancel, TypeOK, EventsKnown, PassOnly, EntriesListed, InPass
<1>2. CASE Restart
  <2>1. DOMAIN listing' = {} /\ listing' \in [DOMAIN listing' -> Readings]
    BY <1>2 DEF Restart, Empty
  <2>2. EventsKnown' /\ PassOnly' /\ EntriesListed'
    BY <1>0, <1>2 DEF Restart, EventsKnown, PassOnly, EntriesListed, InPass
  <2>3. stream' \in Seq(Ids \cup {NoId}) /\ triggers' \in Seq(Ids) /\ Len(triggers') <= QueueCap
    BY <1>0, <1>2, EventLoopAssumption DEF Restart
  <2>4. faults' \in 0 .. MaxFaults
    BY <1>2, EventLoopAssumption DEF Restart, TypeOK
  <2>5. /\ UNCHANGED swarm /\ cancelled' = FALSE /\ watcher' = "watching"
        /\ loop' = "list" /\ tick' = "none" /\ active' = {} /\ current' = <<>>
        /\ status' = {}
    BY <1>2 DEF Restart
  <2>6. TypeOK'
    BY <2>1, <2>3, <2>4, <2>5 DEF TypeOK
  <2> QED BY <2>2, <2>6
<1> QED BY <1>1, <1>2

-----------------------------------------------------------------------------
(* The invariant.                                                          *)

LEMMA InitInv == Init => Inv
<1> SUFFICES ASSUME Init PROVE Inv
  OBVIOUS
<1>1. <<>> \in Seq(born \cup {NoId}) /\ <<>> \in Seq(Ids \cup {NoId})
      /\ <<>> \in Seq(born) /\ <<>> \in Seq(Ids) /\ Len(<<>>) = 0
  BY EmptySeq
<1>2. DOMAIN listing = {} /\ listing \in [DOMAIN listing -> Readings]
  BY DEF Init, Empty
<1>3. EventsKnown /\ PassOnly /\ EntriesListed
  BY <1>1 DEF Init, EventsKnown, PassOnly, EntriesListed, InPass
<1>4. TypeOK
  <2>1. stream \in Seq(Ids \cup {NoId}) /\ triggers \in Seq(Ids) /\ Len(triggers) <= QueueCap
    BY <1>1, EventLoopAssumption DEF Init
  <2>2. rev \in [Ids -> Nat] /\ current = <<>>
    BY DEF Init
  <2>3. /\ exists \subseteq born /\ born \subseteq Ids
        /\ needy \subseteq tracked /\ tracked \subseteq exists \cap Labelled
        /\ changes \in 0 .. MaxChanges /\ faults \in 0 .. MaxFaults
    BY EventLoopAssumption DEF Init
  <2>4. /\ cancelled = FALSE /\ watcher = "watching" /\ loop = "list" /\ tick = "none"
        /\ active = {} /\ status = {}
    BY DEF Init
  <2> QED BY <1>2, <2>1, <2>2, <2>3, <2>4 DEF TypeOK
<1> QED BY <1>3, <1>4 DEF Inv

\* The invariant: events name services that have existed, a listing lives only
\* as long as its pass, and during a pass every status entry of a service that
\* still exists is of a service the pass has listed.
THEOREM Invariant == Spec => []Inv
<1>1. Inv /\ UNCHANGED vars => Inv'
  BY DEF vars, Inv, TypeOK, EventsKnown, PassOnly, EntriesListed, InPass
<1>2. Inv /\ [Next]_vars => Inv'
  BY <1>1, OperatorsKeep, WatcherKeeps, SelectKeeps, WorkKeeps, ProcessKeeps DEF Next
<1> QED BY <1>2, InitInv, PTL DEF Spec

\* Type correctness for every capacity of the triggers channel: the watcher
\* never queues more than it holds, and the main goroutine inspects or
\* reconciles only services that have existed.
THEOREM TypeCorrect == Spec => []TypeOK
<1>1. Inv => TypeOK
  BY DEF Inv
<1> QED BY <1>1, Invariant, PTL

\* Pruning the status store at the end of a full pass drops no service that
\* exists, however long ago the listing was made and whatever was created,
\* removed or reconciled since.
THEOREM PruneSafe == Spec => PruneKeepsLiving
<1>1. Inv /\ [Next]_vars => [Prune => status \cap exists \subseteq status']_vars
  BY DEF Inv, EntriesListed, InPass, Prune, Vanished
<1> QED BY <1>1, Invariant, PTL DEF Spec, PruneKeepsLiving

=============================================================================
