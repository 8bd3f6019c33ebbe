----------------------------- MODULE StatusFile ------------------------------
(***************************************************************************)
(* internal/status: how a mutation of the Store reaches the status file    *)
(* (writeLocked) and how the status and health commands read it (Read),    *)
(* step by step: system calls that fail, a process that crashes in between *)
(* and starts again, commands that hold an old file open.                  *)
(*                                                                         *)
(* A mutation (NewStore's first heartbeat, Record, Heartbeat, Remove,      *)
(* Prune) is its time: a number, later for a later one.  What the store    *)
(* remembers, and what a snapshot holds, is a set of mutations; a snapshot *)
(* also has the time it was made, as in the code.  Memory is the process's *)
(* own: it starts empty, and nothing is ever read back from the file.      *)
(***************************************************************************)
EXTENDS Naturals, FiniteSets

CONSTANTS
  Writers,      \* goroutines that use the Store
  Readers,      \* status and health commands, one after the other each
  Inodes,       \* files on the disk
  None,
  MaxMutations, MaxFaults

ASSUME StatusFileAssumption ==
  /\ None \notin Inodes \cup Writers
  /\ MaxMutations \in Nat /\ MaxFaults \in Nat

VARIABLES
  store,     \* "new" (NewStore under way), "open" or "nil" (disabled)
  lock,      \* who holds the mutex
  clock,     \* the time: that of the last mutation ever made
  started,   \* the time when the process last started
  memory,    \* the mutations that made the services map and the heartbeat
  pc, temp,  \* where each writer is in writeLocked; its temporary file
  disk,      \* contents of each file: the time of its snapshot (0: none), the
             \* mutations it holds, and is it whole
  path,      \* the file at the status path
  litter,    \* temporary files nobody will remove
  open,      \* the file each reader has open
  seen,      \* what it read last; a file that is not whole is a decoding error
  faults, crashes

vars == <<store, lock, clock, started, memory, pc, temp, disk, path, litter, open,
          seen, faults, crashes>>
past == <<clock, started, memory>>

InUse == {path} \cup litter \cup {temp[w] : w \in Writers} \cup {open[r] : r \in Readers}
Idle == [w \in Writers |-> "idle"]
Empty == [snapshot |-> 0, holds |-> {}, whole |-> FALSE]
NoFile == [snapshot |-> 0, holds |-> {}, whole |-> TRUE]
NoTemp == [w \in Writers |-> None]

-----------------------------------------------------------------------------
\* Lock, and the mutation.  Mutant: the mutation is not serialized.
EnterUnlocked(w) ==
  /\ store = "open" \/ (store = "new" /\ pc = Idle)
  /\ lock' = w
Enter(w) ==
  /\ store = "open" \/ (store = "new" /\ pc = Idle)
  /\ lock = None
  /\ lock' = w

Mutate(w) ==
  /\ pc[w] = "idle"
  /\ clock < MaxMutations
  /\ Enter(w)
  /\ clock' = clock + 1
  /\ memory' = memory \cup {clock'}
  /\ pc' = [pc EXCEPT ![w] = "create"]
  /\ UNCHANGED <<store, started, temp, disk, path, litter, open, seen, faults, crashes>>

\* os.CreateTemp.  Mutant: the status file itself is opened for writing.
CreateInPlace(w, i) == path' = i /\ temp' = [temp EXCEPT ![w] = i]
CreateTemp(w, i) == temp' = [temp EXCEPT ![w] = i] /\ UNCHANGED path

Create(w) ==
  /\ pc[w] = "create"
  /\ \E i \in Inodes \ InUse :
       /\ CreateTemp(w, i)
       /\ disk' = [disk EXCEPT ![i] = Empty]
  /\ pc' = [pc EXCEPT ![w] = "encode"]
  /\ UNCHANGED <<store, lock, past, litter, open, seen, faults, crashes>>

\* snapshotLocked: all the store holds now.  Encode writes it, perhaps in pieces.
Snapshot(whole) == [snapshot |-> clock, holds |-> memory, whole |-> whole]

EncodePart(w) ==
  /\ pc[w] = "encode"
  /\ disk[temp[w]] = Empty
  /\ disk' = [disk EXCEPT ![temp[w]] = Snapshot(FALSE)]
  /\ UNCHANGED <<store, lock, past, pc, temp, path, litter, open, seen, faults, crashes>>

Encode(w) ==
  /\ pc[w] = "encode"
  /\ LET begun == disk[temp[w]]
         finished == [snapshot |-> begun.snapshot, holds |-> begun.holds, whole |-> TRUE]
     IN  disk' = [disk EXCEPT ![temp[w]] =
                    IF begun = Empty THEN Snapshot(TRUE) ELSE finished]
  /\ pc' = [pc EXCEPT ![w] = "rename"]
  /\ UNCHANGED <<store, lock, past, temp, path, litter, open, seen, faults, crashes>>

\* writeLocked returns and the mutex is free again.
Leave(w) ==
  /\ lock' = None
  /\ pc' = [pc EXCEPT ![w] = "idle"]
  /\ temp' = [temp EXCEPT ![w] = None]

Rename(w) ==
  /\ pc[w] = "rename"
  /\ path' = temp[w]
  /\ store' = "open"
  /\ Leave(w)
  /\ UNCHANGED <<past, disk, litter, open, seen, faults, crashes>>

\* Any of the calls fails; the deferred Remove takes the temporary file away.
\* Mutant: it stays.
LeftBehind(w) == {temp[w]} \ {None}
NothingLeft(w) == {}

WriteFails(w) ==
  /\ pc[w] # "idle"
  /\ faults < MaxFaults
  /\ faults' = faults + 1
  /\ store' = IF store = "new" THEN "nil" ELSE store
  /\ litter' = litter \cup NothingLeft(w)
  /\ Leave(w)
  /\ UNCHANGED <<past, disk, path, open, seen, crashes>>

\* NewStore starts with an empty map.  Mutant: it reads the old file back.
OldStore == memory' = IF path = None THEN {} ELSE disk[path].holds
NewStore == memory' = {}

\* The process dies and is started again.
Crash ==
  /\ faults < MaxFaults
  /\ faults' = faults + 1
  /\ crashes' = crashes + 1
  /\ store' = "new" /\ NewStore
  /\ started' = clock
  /\ lock' = None
  /\ pc' = Idle
  /\ temp' = NoTemp
  /\ litter' = litter \cup ({temp[w] : w \in Writers} \ {None})
  /\ UNCHANGED <<clock, disk, path, open, seen>>

-----------------------------------------------------------------------------
\* Read: open, and decode what the file holds by then.  A command that finds no
\* file fails and has seen nothing.
Open(r) ==
  /\ open[r] = None
  /\ path # None
  /\ open' = [open EXCEPT ![r] = path]
  /\ UNCHANGED <<store, lock, past, pc, temp, disk, path, litter, seen, faults, crashes>>

Decode(r) ==
  /\ open[r] # None
  /\ seen' = [seen EXCEPT ![r] = disk[open[r]]]
  /\ open' = [open EXCEPT ![r] = None]
  /\ UNCHANGED <<store, lock, past, pc, temp, disk, path, litter, faults, crashes>>

-----------------------------------------------------------------------------
Init ==
  /\ store = "new" /\ lock = None
  /\ clock = 0 /\ started = 0 /\ memory = {}
  /\ pc = Idle /\ temp = NoTemp
  /\ disk = [i \in Inodes |-> Empty]
  /\ path = None /\ litter = {}
  /\ open = [r \in Readers |-> None]
  /\ seen = [r \in Readers |-> NoFile]
  /\ faults = 0 /\ crashes = 0

Write(w) == Mutate(w) \/ Create(w) \/ EncodePart(w) \/ Encode(w) \/ Rename(w)
            \/ WriteFails(w)

Next ==
  \/ \E w \in Writers : Write(w)
  \/ Crash
  \/ \E r \in Readers : Open(r) \/ Decode(r)

Spec == Init /\ [][Next]_vars

-----------------------------------------------------------------------------
\* What a file can hold.
Content == [snapshot: 0 .. MaxMutations, holds: SUBSET (1 .. MaxMutations), whole: BOOLEAN]

\* Types; and the mutex is held exactly while a write is under way, by its writer.
TypeOK ==
  /\ \A w \in Writers : pc[w] # "idle" <=> lock = w
  /\ store \in {"new", "open", "nil"}
  /\ lock \in Writers \cup {None}
  /\ clock \in 0 .. MaxMutations /\ started \in 0 .. clock
  /\ memory \subseteq 1 .. clock
  /\ pc \in [Writers -> {"idle", "create", "encode", "rename"}]
  /\ temp \in [Writers -> Inodes \cup {None}]
  /\ disk \in [Inodes -> Content]
  /\ path \in Inodes \cup {None}
  /\ litter \subseteq Inodes
  /\ open \in [Readers -> Inodes \cup {None}]
  /\ seen \in [Readers -> Content]
  /\ faults \in 0 .. MaxFaults /\ crashes \in 0 .. faults

\* Whatever fails and wherever the process dies, a concurrent command sees one
\* complete snapshot, and never an older one than before.  A reader sees the
\* file at the instant it opens it.
Atomic == INSTANCE AtomicFile
            WITH file <- IF path = None THEN NoFile ELSE disk[path],
                 seen <- [r \in Readers |-> IF open[r] = None THEN seen[r]
                                                             ELSE disk[open[r]]]
Implements == Atomic!Spec

\* Only a crash leaves a temporary file behind, and at most one.
LitterBounded == Cardinality(litter) <= crashes

\* After a write that succeeds the file shows exactly what this life of the process
\* has done: every mutation since it started, the ones whose own write failed
\* included, and none from before, which the snapshot "recreated after a restart"
\* replaces.
ShowsAll == \A w \in Writers : Rename(w) => disk[path'].holds = (started + 1) .. clock
Published == [][ShowsAll]_vars

=============================================================================
