--------------------------- MODULE EnvironmentList ---------------------------
(***************************************************************************)
(* internal/environment on the list a ContainerSpec really holds, edited   *)
(* by operators and by the controller in turn.  Module Environment works   *)
(* on the map such a list means; the properties below are what that        *)
(* abstraction rests on.                                                   *)
(*                                                                         *)
(* Names and values are strings: sequences of bytes, none of them 0.       *)
(***************************************************************************)
EXTENDS Environment, Sequences, FiniteSets

S == INSTANCE SequencesExt

CONSTANT MaxEntries   \* bound on the list an operator extends

\* Strings without NUL bytes (no process environment can hold one).
ASSUME TextsAssumption == Names \cup Values \subseteq Seq(Nat \ {0})

VARIABLES
  entries,  \* ContainerSpec.Env
  managed   \* names of the last injection (the managed-environment label)

vars == <<entries, managed>>

\* NAME=value, or NAME alone (assigned is FALSE and the value is empty).
Entry == [name: Names, assigned: {TRUE}, value: Values]
         \cup [name: Names, assigned: {FALSE}, value: {<<>>}]

\* The maps a resolution can produce.
DesiredValues == UNION {[N -> Values] : N \in {M \in SUBSET Names : IsFiniteSet(M)}}

\* sort.Strings: byte by byte, a prefix first.
Less(a, b) ==
  \E i \in 1 .. Len(b) :
    /\ i <= Len(a) + 1
    /\ \A j \in 1 .. i - 1 : a[j] = b[j]
    /\ i = Len(a) + 1 \/ a[i] < b[i]
Sorted(names) ==
  CHOOSE s \in [1 .. Cardinality(names) -> names] :
    \A i, j \in DOMAIN s : i < j => Less(s[i], s[j])

-----------------------------------------------------------------------------
NamesIn(list) == {list[i].name : i \in DOMAIN list}

\* AsMap: the last entry of a name wins.
LastOf(list, n) ==
  CHOOSE i \in DOMAIN list :
    list[i].name = n /\ \A j \in DOMAIN list : list[j].name = n => j <= i
AsMap(list) == [n \in NamesIn(list) |-> list[LastOf(list, n)].value]

\* Select: the requested names that the list has.
SelectEntries(list, names) ==
  LET all == AsMap(list) IN [n \in names \cap DOMAIN all |-> all[n]]

\* The entries of other names, in their order: kept[k] of the first k entries.
Without(list, names) ==
  LET kept[k \in 0 .. Len(list)] ==
        IF k = 0 THEN <<>>
        ELSE IF list[k].name \in names THEN kept[k - 1]
        ELSE Append(kept[k - 1], list[k])
  IN  kept[Len(list)]

\* Entries nobody manages, in their order.  Mutant: names that are newly
\* desired keep the entries an operator gave them.
KeptUnlessPrevious(list, previouslyManaged, desired) ==
  Without(list, previouslyManaged)
Kept(list, previouslyManaged, desired) ==
  Without(list, previouslyManaged \cup DOMAIN desired)

\* The desired values as entries, sorted by name.
Appended(desired) ==
  LET names == Sorted(DOMAIN desired) IN
  [i \in 1 .. Len(names) |->
     [name |-> names[i], assigned |-> TRUE, value |-> desired[names[i]]]]

\* Mutants: the desired values go first; the whole list is rebuilt from a map.
MergeInFront(list, previouslyManaged, desired) ==
  Appended(desired) \o Without(list, previouslyManaged)
MergeRebuilding(list, previouslyManaged, desired) ==
  Appended(Merge(AsMap(list), previouslyManaged, desired))
MergeEntries(list, previouslyManaged, desired) ==
  Kept(list, previouslyManaged, desired) \o Appended(desired)

RemoveEntries(list, names) == MergeEntries(list, names, EmptyMap)

\* What Hash feeds to SHA-256 for one variable.  Mutant: no separators.
FedUnseparated(name, value) == name \o value
Fed(name, value) == name \o <<0>> \o value \o <<0>>

\* The bytes that Hash feeds to SHA-256: fed[k] after k variables.
Hashed(values) ==
  LET names == Sorted(DOMAIN values)
      fed[k \in 0 .. Len(names)] ==
        IF k = 0 THEN <<>>
        ELSE fed[k - 1] \o Fed(names[k], values[names[k]])
  IN  fed[Len(names)]

-----------------------------------------------------------------------------
\* An operator appends an entry, of whatever name, or removes one.
OperatorAdds ==
  /\ Len(entries) < MaxEntries
  /\ \E e \in Entry : entries' = Append(entries, e)
  /\ UNCHANGED managed

OperatorDrops ==
  /\ \E i \in 1 .. Len(entries) : entries' = S!RemoveAt(entries, i)
  /\ UNCHANGED managed

\* The controller injects, or cleans up after the service is disabled.
Inject ==
  \E desired \in DesiredValues :
    /\ entries' = MergeEntries(entries, managed, desired)
    /\ managed' = DOMAIN desired

Cleanup ==
  /\ entries' = RemoveEntries(entries, managed)
  /\ managed' = {}

Init == entries = <<>> /\ managed = {}
Next == OperatorAdds \/ OperatorDrops \/ Inject \/ Cleanup
\* The list holds entries, and the label names finitely many variables.
TypeOK ==
  /\ entries \in Seq(Entry)
  /\ managed \in SUBSET Names
  /\ IsFiniteSet(managed)

Spec == Init /\ [][Next]_vars

-----------------------------------------------------------------------------
\* The list functions compute what module Environment says of the maps, also
\* with duplicate and unassigned names.
AgreesWithMaps ==
  /\ \A N \in SUBSET Names : SelectEntries(entries, N) = Select(AsMap(entries), N)
  /\ \A N \in SUBSET Names :
       AsMap(RemoveEntries(entries, N)) = Remove(AsMap(entries), N)
  /\ \A d \in DesiredValues :
       AsMap(MergeEntries(entries, managed, d)) = Merge(AsMap(entries), managed, d)

\* Injecting what is already injected returns the very same list, so that
\* slices.Equal sees no change and no rolling update starts.
InjectionIsStable ==
  \A d \in DesiredValues :
    LET once == MergeEntries(entries, managed, d)
    IN  MergeEntries(once, DOMAIN d, d) = once

\* Operators' own entries survive every injection and clean-up verbatim and
\* in their order, duplicates included.
Others(list, names) == {i \in DOMAIN list : list[i].name \notin names}
SameOthers(before, after, names) ==
  \E f \in [Others(before, names) -> Others(after, names)] :
    /\ \A k \in Others(after, names) : \E i \in DOMAIN f : f[i] = k
    /\ \A i \in DOMAIN f : after[f[i]] = before[i]
    /\ \A i, j \in DOMAIN f : i < j => f[i] < f[j]
OperatorsEntriesKept ==
  [][Inject \/ Cleanup => SameOthers(entries, entries', managed \cup managed')]_vars

\* Different values never feed SHA-256 the same bytes: the state hash tells
\* apart whatever names and values (free of NUL bytes) the variables have.
HashTellsApart ==
  \A d \in DesiredValues :
    LET now == SelectEntries(entries, managed) IN Hashed(d) = Hashed(now) => d = now

=============================================================================
