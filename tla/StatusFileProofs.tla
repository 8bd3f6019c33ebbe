-------------------------- MODULE StatusFileProofs ---------------------------
(***************************************************************************)
(* The status file is an atomic register, for any number of writers,       *)
(* readers, files, mutations and faults.                                   *)
(***************************************************************************)
EXTENDS StatusFile, TLAPS, FiniteSetTheorems

\* What is at the path, and what each reader sees of it.
Shown == IF path = None THEN NoFile ELSE disk[path]
Sight == [r \in Readers |-> IF open[r] = None THEN seen[r] ELSE disk[open[r]]]

\* A writer is alone, and so is its temporary file: neither the path nor a reader
\* leads to it.  It is empty, cut short or whole, as far as the writer has come,
\* and newer than what is shown.
WriterInv ==
  \A w \in Writers :
    /\ pc[w] # "idle" => w = lock /\ Shown.snapshot < clock
    /\ pc[w] \in {"idle", "create"} => temp[w] = None
    /\ pc[w] \in {"encode", "rename"} =>
         temp[w] \in Inodes /\ temp[w] # path /\ \A r \in Readers : open[r] # temp[w]
    /\ pc[w] = "encode" =>
         disk[temp[w]] \in {Empty, Snapshot(FALSE)}
    /\ pc[w] = "rename" => disk[temp[w]] = Snapshot(TRUE)

\* What can be read is whole, and no newer than the last mutation.
FilesInv ==
  /\ path # None => disk[path].whole /\ disk[path].snapshot <= clock
  /\ \A r \in Readers : open[r] # None => disk[open[r]].whole

\* The store remembers this life of the process, all of it and nothing else.
MemoryInv == memory = (started + 1) .. clock

Inv == TypeOK /\ WriterInv /\ FilesInv /\ MemoryInv

\* A step that changes neither view, or that changes one as AtomicFile allows.
AtomicStep == [Atomic!Replace \/ Atomic!See]_(Atomic!vars)

LEMMA Stutter ==
  ASSUME Shown' = Shown, Sight' = Sight
  PROVE  AtomicStep
  BY DEF AtomicStep, Atomic!vars, Shown, Sight

LEMMA ShownTyped ==
  ASSUME TypeOK
  PROVE  Shown \in Content /\ clock \in Nat /\ started \in Nat
  BY StatusFileAssumption DEF TypeOK, Shown, NoFile, Content

\* Nothing is remembered or forgotten, and time stands still.
LEMMA PastKept ==
  ASSUME Inv, UNCHANGED past
  PROVE  /\ clock' = clock /\ started' = started /\ memory' = memory
         /\ Snapshot(TRUE)' = Snapshot(TRUE) /\ Snapshot(FALSE)' = Snapshot(FALSE)
         /\ MemoryInv'
  BY DEF Inv, past, Snapshot, MemoryInv

LEMMA SnapshotTyped ==
  ASSUME TypeOK, NEW b \in BOOLEAN
  PROVE  /\ Snapshot(b) \in Content /\ Snapshot(b).snapshot = clock
         /\ Snapshot(b).whole = b /\ Empty \in Content
<1>1. memory \in SUBSET (1 .. MaxMutations) /\ clock \in 0 .. MaxMutations
  BY StatusFileAssumption DEF TypeOK
<1> QED
  BY <1>1, StatusFileAssumption DEF Snapshot, Content, Empty

LEMMA InitHolds == Init => Inv /\ Atomic!Init
<1> SUFFICES ASSUME Init PROVE Inv /\ Atomic!Init
  OBVIOUS
<1>1. TypeOK
  BY StatusFileAssumption DEF Init, TypeOK, Idle, NoTemp, Empty, NoFile, Content
<1>2. WriterInv /\ FilesInv /\ MemoryInv
  BY DEF Init, WriterInv, FilesInv, MemoryInv, Idle, NoTemp
<1>3. Atomic!Init
  BY DEF Init, Atomic!Init, Atomic!NoFile, NoFile
<1> QED
  BY <1>1, <1>2, <1>3 DEF Inv

-----------------------------------------------------------------------------
LEMMA MutateKeeps ==
  ASSUME Inv, NEW w \in Writers, Mutate(w)
  PROVE  Inv' /\ AtomicStep
<1>1. TypeOK'
  <2>1. clock' \in 0 .. MaxMutations /\ started' \in 0 .. clock' /\ memory' \subseteq 1 .. clock'
    BY StatusFileAssumption DEF Inv, TypeOK, Mutate
  <2> QED
    BY <2>1, StatusFileAssumption DEF Inv, TypeOK, Mutate, Enter, Idle
<1>2. Shown' = Shown /\ Sight' = Sight
  BY DEF Mutate, Shown, Sight
<1>3. Shown.snapshot <= clock /\ Shown.snapshot \in Nat /\ clock \in Nat /\ started \in Nat
  BY ShownTyped DEF Inv, FilesInv, Shown, NoFile, Content
<1>4. pc = Idle /\ lock' = w
  BY StatusFileAssumption DEF Inv, TypeOK, Mutate, Enter, Idle
<1>5. WriterInv'
  <2> SUFFICES ASSUME NEW v \in Writers
               PROVE  /\ pc'[v] # "idle" => v = lock' /\ Shown'.snapshot < clock'
                      /\ pc'[v] \in {"idle", "create"} /\ temp'[v] = None
    BY DEF WriterInv
  <2>1. temp[v] = None /\ temp' = temp
    BY <1>4 DEF Inv, WriterInv, Idle, Mutate
  <2>2. pc'[v] = IF v = w THEN "create" ELSE "idle"
    BY <1>4 DEF Mutate, Inv, TypeOK, Idle
  <2>3. Shown'.snapshot < clock'
    BY <1>2, <1>3 DEF Mutate
  <2> QED
    BY <1>4, <2>1, <2>2, <2>3
<1>6. FilesInv'
  <2>1. path # None => disk[path].snapshot <= clock'
    BY <1>3 DEF Inv, FilesInv, Mutate, Shown
  <2> QED
    BY <2>1 DEF Inv, FilesInv, Mutate
<1>7. MemoryInv'
  <2>1. started \in Nat /\ started <= clock /\ clock \in Nat
    BY <1>3 DEF Inv, TypeOK
  <2>2. (started + 1) .. (clock + 1) = ((started + 1) .. clock) \cup {clock + 1}
    BY <2>1
  <2> QED
    BY <2>2 DEF Inv, MemoryInv, Mutate
<1> QED
  BY <1>1, <1>2, <1>5, <1>6, <1>7, Stutter DEF Inv

LEMMA CreateKeeps ==
  ASSUME Inv, NEW w \in Writers, Create(w)
  PROVE  Inv' /\ AtomicStep
<1>1. PICK i \in Inodes \ InUse :
        /\ temp' = [temp EXCEPT ![w] = i] /\ path' = path
        /\ disk' = [disk EXCEPT ![i] = Empty]
  BY DEF Create, CreateTemp
<1>2. i # path /\ \A r \in Readers : open[r] # i
  BY <1>1 DEF InUse
<1>3. /\ pc[w] = "create" /\ lock = w /\ pc' = [pc EXCEPT ![w] = "encode"]
      /\ UNCHANGED <<store, lock, past, litter, open, seen, faults, crashes>>
  BY DEF Create, Inv, WriterInv
<1>0. UNCHANGED <<clock, started, memory>> /\ MemoryInv'
  BY <1>3, PastKept
<1>4. TypeOK'
  BY <1>1, <1>3, <1>0, SnapshotTyped, StatusFileAssumption DEF Inv, TypeOK, Idle
<1>5. Shown' = Shown /\ Sight' = Sight
  BY <1>1, <1>2, <1>3 DEF Inv, TypeOK, Shown, Sight
<1>6. \A v \in Writers : v # w => pc[v] = "idle" /\ temp[v] = None
  BY <1>3 DEF Inv, WriterInv
<1>7. WriterInv'
  <2> SUFFICES ASSUME NEW v \in Writers
               PROVE  /\ pc'[v] # "idle" => v = lock' /\ Shown'.snapshot < clock'
                      /\ pc'[v] \in {"idle", "create"} => temp'[v] = None
                      /\ pc'[v] \in {"encode", "rename"} =>
                           /\ temp'[v] \in Inodes /\ temp'[v] # path'
                           /\ \A r \in Readers : open'[r] # temp'[v]
                      /\ pc'[v] = "encode" => disk'[temp'[v]] = Empty
                      /\ pc'[v] # "rename"
    BY DEF WriterInv, Empty
  <2>1. CASE v = w
    BY <1>1, <1>2, <1>3, <1>0, <1>5, <2>1 DEF Inv, WriterInv, TypeOK
  <2>2. CASE v # w
    BY <1>1, <1>3, <1>0, <1>6, <2>2 DEF Inv, TypeOK
  <2> QED
    BY <2>1, <2>2
<1>8. FilesInv'
  BY <1>1, <1>2, <1>3, <1>0 DEF Inv, FilesInv, TypeOK
<1> QED
  BY <1>0, <1>4, <1>5, <1>7, <1>8, Stutter DEF Inv

\* Encoding writes to the temporary file only.
LEMMA EncodeKeeps ==
  ASSUME Inv, NEW w \in Writers, EncodePart(w) \/ Encode(w)
  PROVE  Inv' /\ AtomicStep
<1> DEFINE t == temp[w]
<1>1. /\ pc[w] = "encode" /\ lock = w
      /\ UNCHANGED <<store, lock, past, temp, path, litter, open, seen, faults, crashes>>
  BY DEF EncodePart, Encode, Inv, WriterInv
<1>2. t \in Inodes /\ t # path /\ \A r \in Readers : open[r] # t
  BY <1>1 DEF Inv, WriterInv
<1>0. /\ UNCHANGED <<clock, started, memory>> /\ MemoryInv'
      /\ Snapshot(TRUE)' = Snapshot(TRUE) /\ Snapshot(FALSE)' = Snapshot(FALSE)
  BY <1>1, PastKept
<1>3. disk[t] \in {Empty, Snapshot(FALSE)}
  BY <1>1 DEF Inv, WriterInv
<1>4. PICK b \in BOOLEAN : /\ disk' = [disk EXCEPT ![t] = Snapshot(b)]
                           /\ pc' = [pc EXCEPT ![w] = IF b THEN "rename" ELSE "encode"]
  <2>1. CASE EncodePart(w)
    <3>1. disk' = [disk EXCEPT ![t] = Snapshot(FALSE)]
      BY <2>1 DEF EncodePart
    <3>2. pc' = [pc EXCEPT ![w] = "encode"]
      BY <2>1, <1>1 DEF EncodePart, Inv, TypeOK
    <3> QED
      BY <3>1, <3>2
  <2>2. CASE Encode(w)
    <3>1. disk' = [disk EXCEPT ![t] = Snapshot(TRUE)]
      <4> DEFINE finished == [snapshot |-> disk[t].snapshot, holds |-> disk[t].holds,
                              whole |-> TRUE]
      <4>1. disk[t] = Snapshot(FALSE) => finished = Snapshot(TRUE)
        BY DEF Snapshot
      <4>2. (IF disk[t] = Empty THEN Snapshot(TRUE) ELSE finished) = Snapshot(TRUE)
        BY <1>3, <4>1
      <4> QED
        BY <2>2, <4>2 DEF Encode
    <3> QED
      BY <2>2, <3>1 DEF Encode
  <2> QED
    BY <2>1, <2>2
<1> HIDE DEF t
<1>5. TypeOK'
  BY <1>1, <1>2, <1>0, <1>4, SnapshotTyped DEF Inv, TypeOK, Idle
<1>6. Shown' = Shown /\ Sight' = Sight
  BY <1>1, <1>2, <1>4 DEF Inv, TypeOK, Shown, Sight
<1>7. \A v \in Writers : v # w => pc[v] = "idle" /\ temp[v] = None
  BY <1>1 DEF Inv, WriterInv
<1>8. WriterInv'
  <2> SUFFICES ASSUME NEW v \in Writers
               PROVE  /\ pc'[v] # "idle" => v = lock' /\ Shown'.snapshot < clock'
                      /\ pc'[v] \in {"idle", "create"} => temp'[v] = None
                      /\ pc'[v] \in {"encode", "rename"} =>
                           /\ temp'[v] \in Inodes /\ temp'[v] # path'
                           /\ \A r \in Readers : open'[r] # temp'[v]
                      /\ pc'[v] = "encode" =>
                           disk'[temp'[v]] = Snapshot(FALSE)'
                      /\ pc'[v] = "rename" =>
                           disk'[temp'[v]] = Snapshot(TRUE)'
    BY DEF WriterInv
  <2>1. CASE v = w
    <3>1. pc'[w] = (IF b THEN "rename" ELSE "encode") /\ temp' = temp /\ clock' = clock

      BY <1>1, <1>0, <1>4 DEF Inv, TypeOK
    <3>2. disk'[t] = Snapshot(b)
      BY <1>2, <1>4 DEF Inv, TypeOK
    <3>3. Shown.snapshot < clock
      BY <1>1 DEF Inv, WriterInv
    <3> QED
      BY <1>1, <1>2, <1>0, <1>6, <2>1, <3>1, <3>2, <3>3 DEF t
  <2>2. CASE v # w
    BY <1>1, <1>0, <1>4, <1>7, <2>2 DEF Inv, TypeOK
  <2> QED
    BY <2>1, <2>2
<1>9. FilesInv'
  BY <1>1, <1>2, <1>0, <1>4 DEF Inv, FilesInv, TypeOK
<1> QED
  BY <1>0, <1>5, <1>6, <1>8, <1>9, Stutter DEF Inv

\* The rename shows the newer snapshot; who has the old file open keeps it.
LEMMA RenameKeeps ==
  ASSUME Inv, NEW w \in Writers, Rename(w)
  PROVE  Inv' /\ AtomicStep
<1>1. /\ pc[w] = "rename" /\ lock = w /\ path' = temp[w] /\ lock' = None
      /\ temp' = [temp EXCEPT ![w] = None] /\ pc' = [pc EXCEPT ![w] = "idle"]
      /\ store' = "open" /\ UNCHANGED <<past, disk, litter, open, seen, faults, crashes>>
  BY DEF Rename, Leave, Inv, WriterInv
<1>0. UNCHANGED <<clock, started, memory>> /\ MemoryInv'
  BY <1>1, PastKept
<1>2. temp[w] \in Inodes /\ disk[temp[w]] = Snapshot(TRUE)
  BY <1>1 DEF Inv, WriterInv
<1>3. \A v \in Writers : pc'[v] = "idle" /\ temp'[v] = None
  BY <1>1 DEF Inv, WriterInv, TypeOK
<1>4. TypeOK'
  BY <1>1, <1>2, <1>3, <1>0, StatusFileAssumption DEF Inv, TypeOK
<1>5. WriterInv'
  BY <1>3 DEF WriterInv
<1>6. FilesInv'
  <2>1. disk'[path'].whole /\ disk'[path'].snapshot = clock /\ clock \in Nat
    BY <1>1, <1>2, SnapshotTyped, ShownTyped DEF Inv
  <2>2. disk'[path'].snapshot <= clock'
    BY <1>0, <2>1
  <2> QED
    BY <1>1, <2>1, <2>2 DEF Inv, FilesInv
<1>7. Shown' = Snapshot(TRUE) /\ Sight' = Sight
  BY <1>1, <1>2, StatusFileAssumption DEF Shown, Sight
<1>8. Shown.snapshot < clock
  BY <1>1 DEF Inv, WriterInv
<1>9. Atomic!Replace
  <2>1. Shown'.whole /\ Shown'.snapshot > Shown.snapshot
    BY <1>7, <1>8, SnapshotTyped, ShownTyped DEF Inv, Content
  <2> QED
    BY <1>7, <2>1 DEF Atomic!Replace, Shown, Sight
<1> QED
  BY <1>0, <1>4, <1>5, <1>6, <1>9 DEF Inv, AtomicStep

\* After a failed write or a crash nobody writes, and nothing else has changed.
LEMMA GiveUpKeeps ==
  ASSUME Inv, Crash \/ \E w \in Writers : WriteFails(w)
  PROVE  Inv' /\ AtomicStep
<1>1. /\ \A v \in Writers : pc'[v] = "idle" /\ temp'[v] = None
      /\ lock' = None /\ UNCHANGED <<clock, disk, path, open, seen>>
  <2>1. CASE Crash
    BY <2>1 DEF Crash, Idle, NoTemp
  <2>2. ASSUME NEW w \in Writers, WriteFails(w)
        PROVE  /\ \A v \in Writers : pc'[v] = "idle" /\ temp'[v] = None
               /\ lock' = None /\ UNCHANGED <<clock, disk, path, open, seen>>
    BY <2>2 DEF WriteFails, Leave, past, Inv, WriterInv, TypeOK
  <2> QED
    BY <2>1, <2>2
<1>2. TypeOK'
  <2>1. CASE Crash
    <3>1. started' \in 0 .. clock' /\ memory' \subseteq 1 .. clock'
      BY <2>1, ShownTyped DEF Crash, NewStore, Inv
    <3> QED
      BY <1>1, <2>1, <3>1, StatusFileAssumption DEF Crash, Inv, TypeOK, Idle, NoTemp
  <2>2. ASSUME NEW w \in Writers, WriteFails(w)
        PROVE  TypeOK'
    BY <1>1, <2>2, StatusFileAssumption DEF WriteFails, Leave, NothingLeft, past, Inv, TypeOK
  <2> QED
    BY <2>1, <2>2
<1>3. WriterInv'
  BY <1>1 DEF WriterInv
<1>4. FilesInv'
  BY <1>1 DEF Inv, FilesInv
<1>5. Shown' = Shown /\ Sight' = Sight
  BY <1>1 DEF Shown, Sight
<1>6. MemoryInv'
  <2>1. CASE Crash
    <3>1. memory' = {} /\ started' = clock /\ clock' = clock /\ clock \in Nat
      BY <2>1, ShownTyped DEF Crash, NewStore, Inv
    <3> QED
      BY <3>1 DEF MemoryInv
  <2>2. CASE \E w \in Writers : WriteFails(w)
    BY <2>2, PastKept DEF WriteFails
  <2> QED
    BY <2>1, <2>2
<1> QED
  BY <1>2, <1>3, <1>4, <1>5, <1>6, Stutter DEF Inv

\* Opening is the instant at which a reader sees the file.
LEMMA OpenKeeps ==
  ASSUME Inv, NEW r \in Readers, Open(r)
  PROVE  Inv' /\ AtomicStep
<1>1. /\ path # None /\ open' = [open EXCEPT ![r] = path]
      /\ UNCHANGED <<store, lock, past, pc, temp, disk, path, litter, seen, faults, crashes>>
  BY DEF Open
<1>0. /\ UNCHANGED <<clock, started, memory>> /\ MemoryInv'
      /\ Snapshot(TRUE)' = Snapshot(TRUE) /\ Snapshot(FALSE)' = Snapshot(FALSE)
  BY <1>1, PastKept
<1>2. TypeOK'
  BY <1>0, <1>1 DEF Inv, TypeOK
<1>3. Shown' = Shown
  BY <1>1 DEF Shown
<1>4. WriterInv'
  BY <1>1, <1>0, <1>3 DEF Inv, WriterInv, TypeOK
<1>5. FilesInv'
  BY <1>0, <1>1 DEF Inv, FilesInv, TypeOK
<1>6. Sight' = [Sight EXCEPT ![r] = Shown]
  BY <1>1 DEF Sight, Shown, Inv, TypeOK
<1>7. Atomic!See
  BY <1>3, <1>6 DEF Atomic!See, Shown, Sight
<1> QED
  BY <1>0, <1>2, <1>4, <1>5, <1>7 DEF Inv, AtomicStep

\* Decoding, however late, yields what was opened.
LEMMA DecodeKeeps ==
  ASSUME Inv, NEW r \in Readers, Decode(r)
  PROVE  Inv' /\ AtomicStep
<1>1. /\ open[r] # None /\ open' = [open EXCEPT ![r] = None]
      /\ seen' = [seen EXCEPT ![r] = disk[open[r]]]
      /\ UNCHANGED <<store, lock, past, pc, temp, disk, path, litter, faults, crashes>>
  BY DEF Decode
<1>0. /\ UNCHANGED <<clock, started, memory>> /\ MemoryInv'
      /\ Snapshot(TRUE)' = Snapshot(TRUE) /\ Snapshot(FALSE)' = Snapshot(FALSE)
  BY <1>1, PastKept
<1>2. TypeOK'
  BY <1>0, <1>1 DEF Inv, TypeOK
<1>3. Shown' = Shown
  BY <1>1 DEF Shown
<1>4. WriterInv'
  <2>1. ASSUME NEW v \in Writers, NEW q \in Readers, temp[v] \in Inodes, open[q] # temp[v]
        PROVE  open'[q] # temp[v]
    BY <1>1, <2>1, StatusFileAssumption DEF Inv, TypeOK
  <2> QED
    BY <1>1, <1>0, <1>3, <2>1 DEF Inv, WriterInv
<1>5. FilesInv'
  BY <1>0, <1>1 DEF Inv, FilesInv, TypeOK
<1>6. Sight' = Sight
  BY <1>1 DEF Sight, Inv, TypeOK
<1> QED
  BY <1>0, <1>2, <1>3, <1>4, <1>5, <1>6, Stutter DEF Inv

LEMMA StepKeeps == Inv /\ [Next]_vars => Inv' /\ AtomicStep
<1> SUFFICES ASSUME Inv, [Next]_vars PROVE Inv' /\ AtomicStep
  OBVIOUS
<1>1. ASSUME NEW w \in Writers, Write(w)
      PROVE  Inv' /\ AtomicStep
  BY <1>1, MutateKeeps, CreateKeeps, EncodeKeeps, RenameKeeps, GiveUpKeeps DEF Write
<1>2. CASE Crash
  BY <1>2, GiveUpKeeps
<1>3. ASSUME NEW r \in Readers, Open(r) \/ Decode(r)
      PROVE  Inv' /\ AtomicStep
  BY <1>3, OpenKeeps, DecodeKeeps
<1>4. CASE UNCHANGED vars
  <2>1. Shown' = Shown /\ Sight' = Sight
    BY <1>4 DEF vars, Shown, Sight
  <2>2. TypeOK'
    BY <1>4 DEF vars, Inv, TypeOK
  <2>3. WriterInv' /\ FilesInv' /\ MemoryInv'
    BY <1>4, <2>1 DEF vars, Inv, WriterInv, FilesInv, MemoryInv, Snapshot
  <2> QED
    BY <2>1, <2>2, <2>3, Stutter DEF Inv
<1> QED
  BY <1>1, <1>2, <1>3, <1>4 DEF Next

-----------------------------------------------------------------------------
\* The inductive invariant, for any number of writers, readers and faults.
THEOREM Invariant == Spec => []Inv
  BY InitHolds, StepKeeps, PTL DEF Spec

\* Every reachable state of the store and its file is well-formed, and at most one
\* writer is within writeLocked.
THEOREM TypeCorrect == Spec => []TypeOK
<1>1. Inv => TypeOK
  BY DEF Inv
<1> QED
  BY <1>1, Invariant, PTL

\* writeLocked and Read implement the atomic register that the comment on Store
\* promises, whatever fails and wherever the process dies.
THEOREM Refinement == Spec => Implements
<1>1. Inv /\ [Next]_vars => [Atomic!Replace \/ Atomic!See]_(Atomic!vars)
  BY StepKeeps DEF AtomicStep
<1> QED
  BY <1>1, InitHolds, Invariant, PTL DEF Spec, Implements, Atomic!Spec

\* A successful write shows exactly what this life of the process has done: every
\* mutation since it started, and none from before.
THEOREM Publication == Spec => Published
<1>1. Inv /\ [Next]_vars => [ShowsAll]_vars
  <2> SUFFICES ASSUME Inv, NEW w \in Writers, Rename(w)
               PROVE  disk[path'].holds = (started + 1) .. clock
    BY DEF ShowsAll
  <2>1. path' = temp[w] /\ disk[temp[w]] = Snapshot(TRUE)
    BY DEF Rename, Inv, WriterInv
  <2>2. Snapshot(TRUE).holds = memory
    BY DEF Snapshot
  <2> QED
    BY <2>1, <2>2 DEF Inv, MemoryInv
<1> QED
  BY <1>1, Invariant, PTL DEF Spec, Published

\* Crashes alone leave temporary files behind, one each at most.
THEOREM Litter == Spec => []LitterBounded
<1> DEFINE Few == IsFiniteSet(litter) /\ Cardinality(litter) <= crashes
<1>1. Init => Few
  BY FS_EmptySet DEF Init
<1>2. Inv /\ Few /\ [Next]_vars => Few'
  <2> SUFFICES ASSUME Inv, Few, [Next]_vars PROVE Few'
    OBVIOUS
  <2>1. CASE Crash
    <3> DEFINE x == temp[lock]
    <3>1. {temp[w] : w \in Writers} \ {None} \subseteq {x}
      <4> SUFFICES ASSUME NEW w \in Writers, temp[w] # None PROVE temp[w] = x
        OBVIOUS
      <4>1. pc[w] # "idle"
        BY DEF Inv, WriterInv
      <4> QED
        BY <4>1 DEF Inv, WriterInv
    <3> HIDE DEF x
    <3>2. litter' = litter \/ litter' = litter \cup {x}
      BY <2>1, <3>1 DEF Crash
    <3>3. IsFiniteSet(litter') /\ Cardinality(litter') <= Cardinality(litter) + 1
      BY <3>2, FS_AddElement, FS_CardinalityType
    <3> QED
      BY <2>1, <3>3, FS_CardinalityType DEF Crash, Inv, TypeOK
  <2>2. CASE ~Crash
    <3>1. litter' = litter /\ crashes' = crashes
      BY <2>2 DEF Next, vars, Write, Mutate, Create, EncodePart, Encode, Rename, WriteFails,
                  NothingLeft, Open, Decode
    <3> QED
      BY <3>1
  <2> QED
    BY <2>1, <2>2
<1>3. Few => LitterBounded
  BY DEF LitterBounded
<1> QED
  BY <1>1, <1>2, <1>3, Invariant, PTL DEF Spec

=============================================================================
