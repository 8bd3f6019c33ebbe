------------------------ MODULE EnvironmentListProofs ------------------------
(***************************************************************************)
(* Proofs about EnvironmentList, for all lists, names and values: what the *)
(* functions on lists mean, that a second injection changes nothing, that  *)
(* the digest is unambiguous, and that operators keep their entries.       *)
(*                                                                         *)
(* The provers have no induction rule, so the first lemmas derive one: a   *)
(* set of indices, lists or sets that is closed under one more step holds  *)
(* all of them, because a smallest one outside it cannot exist.            *)
(***************************************************************************)
EXTENDS EnvironmentList, SequenceTheorems, FiniteSetTheorems,
        WellFoundedInduction, TLAPS

-----------------------------------------------------------------------------
(* Induction, over sets in place of predicates. *)

\* A set with 0 and with the successor of each member holds every natural.
LEMMA Induction ==
  ASSUME NEW T, 0 \in T, \A n \in Nat : n \in T => n + 1 \in T
  PROVE  Nat \subseteq T
<1> DEFINE Rest == Nat \ T
           Below == OpToRel(<, Nat)
<1>1. SUFFICES ASSUME Rest # {} PROVE FALSE
  OBVIOUS
<1>2. PICK m \in Rest : \A k \in Rest : <<k, m>> \notin Below
  <2>1. Rest \subseteq Nat
    OBVIOUS
  <2>2. IsWellFoundedOn(Below, Nat)
    BY NatLessThanWellFounded, Zenon
  <2> HIDE DEF Rest, Below
  <2> QED
    BY <1>1, <2>1, <2>2, WFMin, Zenon
<1>3. \A k \in Rest : ~(k < m)
  <2>1. \A k \in Rest : <<k, m>> \notin {p \in Nat \X Nat : p[1] < p[2]}
    BY <1>2, Zenon DEF OpToRel
  <2> QED
    BY <2>1
<1>4. m \in Nat /\ m # 0
  OBVIOUS
<1>5. m - 1 \in Nat /\ m - 1 \in T
  BY <1>3, <1>4
<1> QED
  BY <1>5

\* A nonempty set of naturals has a least member.
LEMMA Least ==
  ASSUME NEW A \in SUBSET Nat, A # {}
  PROVE  \E m \in A : \A k \in A : m <= k
<1> DEFINE T == {n \in Nat : (\E k \in A : k <= n) => \E m \in A : \A k \in A : m <= k}
<1>1. 0 \in T
  OBVIOUS
<1>2. ASSUME NEW n \in Nat, n \in T PROVE n + 1 \in T
  <2> SUFFICES ASSUME NEW a \in A, a <= n + 1, ~ \E k \in A : k <= n
               PROVE  \E m \in A : \A k \in A : m <= k
    BY <1>2
  <2>1. \A k \in A : n + 1 <= k
    OBVIOUS
  <2> QED
    BY <2>1
<1>3. Nat \subseteq T
  <2> HIDE DEF T
  <2> QED
    BY <1>1, <1>2, Induction
<1>4. PICK a \in A : TRUE
  OBVIOUS
<1>5. a \in T
  BY <1>3
<1> QED
  BY <1>5

\* Sequences grow from the empty one by appending.
LEMMA SeqInduction ==
  ASSUME NEW E, NEW T, <<>> \in T,
         \A s \in Seq(E) : s \in T => \A e \in E : Append(s, e) \in T
  PROVE  Seq(E) \subseteq T
<1> DEFINE L == {n \in Nat : \A s \in Seq(E) : Len(s) = n => s \in T}
<1>1. 0 \in L
  BY EmptySeq
<1>2. ASSUME NEW n \in Nat, n \in L PROVE n + 1 \in L
  <2> SUFFICES ASSUME NEW s \in Seq(E), Len(s) = n + 1 PROVE s \in T
    OBVIOUS
  <2>1. PICK t \in Seq(E), e \in E : s = Append(t, e)
    BY SequenceEmptyOrAppend, EmptySeq
  <2>2. Len(t) = n
    BY <2>1
  <2> QED
    BY <1>2, <2>1, <2>2
<1>3. Nat \subseteq L
  <2> HIDE DEF L
  <2> QED
    BY <1>1, <1>2, Induction
<1> QED
  BY <1>3, LenProperties

\* Finite sets grow from the empty one by adding members.
LEMMA FiniteInduction ==
  ASSUME NEW A, IsFiniteSet(A), NEW T, {} \in T,
         \A X \in SUBSET A : X \in T => \A x \in A \ X : X \cup {x} \in T
  PROVE  A \in T
<1> DEFINE L == {n \in Nat : \A X \in SUBSET A : Cardinality(X) = n => X \in T}
<1>1. 0 \in L
  BY FS_EmptySet, FS_Subset
<1>2. ASSUME NEW n \in Nat, n \in L PROVE n + 1 \in L
  <2> SUFFICES ASSUME NEW X \in SUBSET A, Cardinality(X) = n + 1 PROVE X \in T
    OBVIOUS
  <2>1. PICK x : x \in X
    <3>1. CASE X = {}
      BY <3>1, FS_EmptySet
    <3> QED
      BY <3>1
  <2>2. IsFiniteSet(X)
    BY FS_Subset
  <2>3. Cardinality(X \ {x}) = n
    <3>1. Cardinality(X \ {x}) = Cardinality(X) - 1
      BY <2>1, <2>2, FS_RemoveElement, Zenon
    <3> QED
      BY <3>1
  <2>4. X \ {x} \in T
    BY <1>2, <2>3
  <2> QED
    BY <2>1, <2>4
<1>3. Nat \subseteq L
  <2> HIDE DEF L
  <2> QED
    BY <1>1, <1>2, Induction
<1> QED
  BY <1>3, FS_CardinalityType

-----------------------------------------------------------------------------
(* Recursive functions over an index exist, and are the ones they describe. *)

Iterates(g, n, base, step) ==
  g = [k \in 0 .. n |-> IF k = 0 THEN base ELSE step[k][g[k - 1]]]

LEMMA RecursionExists ==
  ASSUME NEW X, NEW base \in X, NEW n \in Nat, NEW step \in [1 .. n -> [X -> X]]
  PROVE  \E g \in [0 .. n -> X] : Iterates(g, n, base, step)
<1> USE DEF Iterates
<1> DEFINE Upto(m, g) == Iterates(g, m, base, step)
           T == {m \in Nat : m <= n => \E g \in [0 .. m -> X] : Upto(m, g)}
<1>1. 0 \in T
  <2>1. Upto(0, [k \in 0 .. 0 |-> base])
    OBVIOUS
  <2>2. [k \in 0 .. 0 |-> base] \in [0 .. 0 -> X]
    OBVIOUS
  <2> QED
    BY <2>1, <2>2
<1>2. ASSUME NEW m \in Nat, m \in T PROVE m + 1 \in T
  <2> SUFFICES ASSUME m + 1 <= n
               PROVE  \E g \in [0 .. m + 1 -> X] : Upto(m + 1, g)
    OBVIOUS
  <2>1. PICK g \in [0 .. m -> X] : Upto(m, g)
    BY <1>2
  <2> DEFINE h == [k \in 0 .. m + 1 |-> IF k = m + 1 THEN step[k][g[m]] ELSE g[k]]
  <2>2. h \in [0 .. m + 1 -> X]
    OBVIOUS
  <2>3. Upto(m + 1, h)
    <3>1. ASSUME NEW k \in 0 .. m + 1
          PROVE  h[k] = IF k = 0 THEN base ELSE step[k][h[k - 1]]
      <4>1. CASE k = m + 1
        BY <4>1
      <4>2. CASE k # m + 1
        <5>1. k \in 0 .. m
          BY <4>2
        <5>2. g[k] = IF k = 0 THEN base ELSE step[k][g[k - 1]]
          BY <2>1, <5>1
        <5> QED
          BY <4>2, <5>1, <5>2
      <4> QED
        BY <4>1, <4>2
    <3> HIDE DEF h
    <3> QED
      BY <2>2, <3>1
  <2> QED
    BY <2>2, <2>3
<1>3. n \in T
  <2> HIDE DEF T
  <2> QED
    BY <1>1, <1>2, Induction
<1> QED
  BY <1>3

-----------------------------------------------------------------------------
(* Without. *)

\* The function that Without computes with.
KeptUpTo(list, names) ==
  LET kept[k \in 0 .. Len(list)] ==
        IF k = 0 THEN <<>>
        ELSE IF list[k].name \in names THEN kept[k - 1]
        ELSE Append(kept[k - 1], list[k])
  IN  kept

LEMMA WithoutIsKept ==
  ASSUME NEW list, NEW names
  PROVE  Without(list, names) = KeptUpTo(list, names)[Len(list)]
BY DEF Without, KeptUpTo

LEMMA KeptStep ==
  ASSUME NEW E, NEW list \in Seq(E), NEW names
  PROVE  LET kept == KeptUpTo(list, names) IN
         /\ kept \in [0 .. Len(list) -> Seq(E)]
         /\ kept[0] = <<>>
         /\ \A k \in 1 .. Len(list) :
              kept[k] = IF list[k].name \in names THEN kept[k - 1]
                        ELSE Append(kept[k - 1], list[k])
<1> DEFINE step == [k \in 1 .. Len(list) |-> [x \in Seq(E) |->
                      IF list[k].name \in names THEN x ELSE Append(x, list[k])]]
           Is(g) == g = [k \in 0 .. Len(list) |->
                      IF k = 0 THEN <<>>
                      ELSE IF list[k].name \in names THEN g[k - 1]
                      ELSE Append(g[k - 1], list[k])]
<1>1. Len(list) \in Nat /\ <<>> \in Seq(E)
  BY LenProperties, EmptySeq
<1>2. step \in [1 .. Len(list) -> [Seq(E) -> Seq(E)]]
  BY ElementOfSeq, AppendProperties
<1>3. PICK g \in [0 .. Len(list) -> Seq(E)] : Iterates(g, Len(list), <<>>, step)
  <2> HIDE DEF step
  <2> QED
    BY <1>1, <1>2, RecursionExists
<1>4. Is(g)
  <2>1. ASSUME NEW k \in 0 .. Len(list)
        PROVE  g[k] = IF k = 0 THEN <<>>
                      ELSE IF list[k].name \in names THEN g[k - 1]
                      ELSE Append(g[k - 1], list[k])
    <3>1. CASE k = 0
      BY <1>1, <1>3, <3>1 DEF Iterates
    <3>2. CASE k # 0
      <4>1. k \in 1 .. Len(list) /\ k - 1 \in 0 .. Len(list)
        BY <1>1, <3>2
      <4>2. g[k - 1] \in Seq(E)
        BY <4>1
      <4>3. g[k] = step[k][g[k - 1]]
        BY <1>3, <3>2 DEF Iterates
      <4> QED
        BY <3>2, <4>1, <4>2, <4>3
    <3> QED
      BY <3>1, <3>2
  <2> QED
    BY <1>3, <2>1 DEF Iterates
<1>5. Is(KeptUpTo(list, names))
  <2>1. KeptUpTo(list, names) = CHOOSE h : Is(h)
    BY DEF KeptUpTo
  <2> HIDE DEF Is
  <2> QED
    BY <1>4, <2>1
<1> DEFINE kept == KeptUpTo(list, names)
<1>6. \A k \in 0 .. Len(list) :
        kept[k] = IF k = 0 THEN <<>>
                  ELSE IF list[k].name \in names THEN kept[k - 1]
                  ELSE Append(kept[k - 1], list[k])
  BY <1>5
<1>0. kept[0] = <<>>
  BY <1>1, <1>6
<1>7. DOMAIN kept = 0 .. Len(list) /\ kept = [k \in 0 .. Len(list) |-> kept[k]]
  BY <1>5
<1> HIDE DEF kept
<1>8. \A k \in Nat : k <= Len(list) => kept[k] \in Seq(E)
  <2> DEFINE T == {k \in Nat : k <= Len(list) => kept[k] \in Seq(E)}
  <2>1. 0 \in T
    BY <1>1, <1>0
  <2>2. ASSUME NEW k \in Nat, k \in T PROVE k + 1 \in T
    <3> SUFFICES ASSUME k + 1 <= Len(list) PROVE kept[k + 1] \in Seq(E)
      OBVIOUS
    <3>1. kept[k] \in Seq(E)
      BY <1>1, <2>2
    <3>2. list[k + 1] \in E
      BY <1>1, ElementOfSeq
    <3>3. kept[k + 1] = IF list[k + 1].name \in names THEN kept[k]
                        ELSE Append(kept[k], list[k + 1])
      BY <1>1, <1>6
    <3> QED
      BY <3>1, <3>2, <3>3, AppendProperties
  <2>3. Nat \subseteq T
    <3> HIDE DEF T
    <3> QED
      BY <2>1, <2>2, Induction
  <2> QED
    BY <2>3
<1>9. kept \in [0 .. Len(list) -> Seq(E)]
  BY <1>1, <1>7, <1>8
<1>10. \A k \in 1 .. Len(list) :
         kept[k] = IF list[k].name \in names THEN kept[k - 1]
                   ELSE Append(kept[k - 1], list[k])
  BY <1>1, <1>6
<1> QED
  BY <1>0, <1>9, <1>10, Zenon DEF kept

\* Only the first k entries matter to kept[k].
LEMMA KeptOfPrefix ==
  ASSUME NEW E, NEW list \in Seq(E), NEW longer \in Seq(E), NEW names,
         Len(list) <= Len(longer),
         \A k \in 1 .. Len(list) : longer[k] = list[k]
  PROVE  KeptUpTo(longer, names)[Len(list)] = KeptUpTo(list, names)[Len(list)]
<1> DEFINE a == KeptUpTo(list, names)
           b == KeptUpTo(longer, names)
           T == {k \in Nat : k <= Len(list) => b[k] = a[k]}
<1>1. Len(list) \in Nat /\ Len(longer) \in Nat
  BY LenProperties
<1>2. /\ a[0] = <<>>
      /\ \A k \in 1 .. Len(list) :
           a[k] = IF list[k].name \in names THEN a[k - 1]
                  ELSE Append(a[k - 1], list[k])
  BY KeptStep
<1>3. /\ b[0] = <<>>
      /\ \A k \in 1 .. Len(longer) :
           b[k] = IF longer[k].name \in names THEN b[k - 1]
                  ELSE Append(b[k - 1], longer[k])
  BY KeptStep
<1> HIDE DEF a, b
<1>4. 0 \in T
  BY <1>2, <1>3
<1>5. ASSUME NEW k \in Nat, k \in T PROVE k + 1 \in T
  BY <1>1, <1>2, <1>3, <1>5
<1>6. Nat \subseteq T
  <2> HIDE DEF T
  <2> QED
    BY <1>4, <1>5, Induction
<1> QED
  BY <1>1, <1>6 DEF a, b

LEMMA WithoutOfEmpty ==
  ASSUME NEW names
  PROVE  Without(<<>>, names) = <<>>
BY WithoutIsKept, KeptStep, EmptySeq

LEMMA WithoutType ==
  ASSUME NEW E, NEW list \in Seq(E), NEW names
  PROVE  Without(list, names) \in Seq(E)
BY WithoutIsKept, KeptStep, LenProperties

LEMMA WithoutOfAppend ==
  ASSUME NEW E, NEW list \in Seq(E), NEW e \in E, NEW names
  PROVE  Without(Append(list, e), names) =
           IF e.name \in names THEN Without(list, names)
           ELSE Append(Without(list, names), e)
<1> DEFINE longer == Append(list, e)
           kept == KeptUpTo(longer, names)
<1>1. /\ longer \in Seq(E)
      /\ Len(list) \in Nat
      /\ Len(longer) = Len(list) + 1
      /\ longer[Len(list) + 1] = e
      /\ \A k \in 1 .. Len(list) : longer[k] = list[k]
  BY AppendProperties, LenProperties
<1> HIDE DEF longer
<1>2. kept[Len(list) + 1] = IF e.name \in names THEN kept[Len(list)]
                            ELSE Append(kept[Len(list)], e)
  <2>1. \A k \in 1 .. Len(longer) :
          kept[k] = IF longer[k].name \in names THEN kept[k - 1]
                    ELSE Append(kept[k - 1], longer[k])
    BY <1>1, KeptStep
  <2> QED
    BY <1>1, <2>1
<1>3. kept[Len(list)] = Without(list, names)
  <2>1. kept[Len(list)] = KeptUpTo(list, names)[Len(list)]
    BY <1>1, KeptOfPrefix
  <2> QED
    BY <2>1, WithoutIsKept
<1>4. Without(longer, names) = kept[Len(list) + 1]
  BY <1>1, WithoutIsKept
<1> QED
  BY <1>2, <1>3, <1>4 DEF longer

LEMMA NamesOfAppend ==
  ASSUME NEW E, NEW list \in Seq(E), NEW e \in E
  PROVE  NamesIn(Append(list, e)) = NamesIn(list) \cup {e.name}
<1>1. /\ Len(list) \in Nat
      /\ DOMAIN list = 1 .. Len(list)
      /\ DOMAIN Append(list, e) = 1 .. Len(list) + 1
      /\ Append(list, e)[Len(list) + 1] = e
      /\ \A k \in 1 .. Len(list) : Append(list, e)[k] = list[k]
  BY AppendProperties, LenProperties
<1> QED
  BY <1>1 DEF NamesIn

LEMMA NamesOfWithout ==
  ASSUME NEW E, NEW list \in Seq(E), NEW names
  PROVE  NamesIn(Without(list, names)) = NamesIn(list) \ names
<1> DEFINE T == {s \in Seq(E) : NamesIn(Without(s, names)) = NamesIn(s) \ names}
<1>1. <<>> \in T
  <2>1. NamesIn(<<>>) = {}
    BY DEF NamesIn
  <2> QED
    BY <2>1, WithoutOfEmpty, EmptySeq
<1>2. ASSUME NEW s \in Seq(E), s \in T, NEW e \in E PROVE Append(s, e) \in T
  <2>1. NamesIn(Append(s, e)) = NamesIn(s) \cup {e.name}
    BY NamesOfAppend
  <2>2. Without(Append(s, e), names) =
          IF e.name \in names THEN Without(s, names) ELSE Append(Without(s, names), e)
    BY WithoutOfAppend
  <2>3. Without(s, names) \in Seq(E)
    BY WithoutType
  <2>4. NamesIn(Append(Without(s, names), e)) = NamesIn(Without(s, names)) \cup {e.name}
    BY <2>3, NamesOfAppend
  <2>5. NamesIn(Without(s, names)) = NamesIn(s) \ names
    BY <1>2
  <2>6. NamesIn(Without(Append(s, e), names)) = NamesIn(Append(s, e)) \ names
    BY <2>1, <2>2, <2>4, <2>5
  <2> QED
    BY <2>6, AppendProperties
<1>3. Seq(E) \subseteq T
  <2> HIDE DEF T
  <2> QED
    BY <1>1, <1>2, SeqInduction
<1> QED
  BY <1>3

\* What is dropped entirely leaves no trace.
LEMMA WithoutOfConcat ==
  ASSUME NEW E, NEW list \in Seq(E), NEW more \in Seq(E), NEW names,
         NamesIn(more) \subseteq names
  PROVE  Without(list \o more, names) = Without(list, names)
<1> DEFINE T == {s \in Seq(E) : NamesIn(s) \subseteq names =>
                                  Without(list \o s, names) = Without(list, names)}
<1>1. <<>> \in T
  BY EmptySeq, ConcatEmptySeq
<1>2. ASSUME NEW s \in Seq(E), s \in T, NEW e \in E PROVE Append(s, e) \in T
  <2> SUFFICES ASSUME NamesIn(Append(s, e)) \subseteq names
               PROVE  Without(list \o Append(s, e), names) = Without(list, names)
    BY AppendProperties
  <2>1. NamesIn(Append(s, e)) = NamesIn(s) \cup {e.name}
    BY NamesOfAppend
  <2>2. Without(list \o s, names) = Without(list, names)
    BY <1>2, <2>1
  <2>3. list \o Append(s, e) = Append(list \o s, e) /\ list \o s \in Seq(E)
    OBVIOUS
  <2>4. Without(Append(list \o s, e), names) = Without(list \o s, names)
    BY <2>1, <2>3, WithoutOfAppend
  <2> QED
    BY <2>2, <2>3, <2>4
<1>3. Seq(E) \subseteq T
  <2> HIDE DEF T
  <2> QED
    BY <1>1, <1>2, SeqInduction
<1> QED
  BY <1>3

\* A list that has none of the names is kept as it is.
LEMMA WithoutKeepsAll ==
  ASSUME NEW E, NEW list \in Seq(E), NEW names, NamesIn(list) \cap names = {}
  PROVE  Without(list, names) = list
<1> DEFINE T == {s \in Seq(E) : NamesIn(s) \cap names = {} => Without(s, names) = s}
<1>1. <<>> \in T
  BY EmptySeq, WithoutOfEmpty
<1>2. ASSUME NEW s \in Seq(E), s \in T, NEW e \in E PROVE Append(s, e) \in T
  BY <1>2, NamesOfAppend, WithoutOfAppend, AppendProperties
<1>3. Seq(E) \subseteq T
  <2> HIDE DEF T
  <2> QED
    BY <1>1, <1>2, SeqInduction
<1> QED
  BY <1>3

-----------------------------------------------------------------------------
(* AsMap. *)

IsLast(list, n, i) ==
  /\ i \in DOMAIN list
  /\ list[i].name = n
  /\ \A j \in DOMAIN list : list[j].name = n => j <= i

LEMMA LastOfIsLast ==
  ASSUME NEW E, NEW list \in Seq(E), NEW n \in NamesIn(list)
  PROVE  IsLast(list, n, LastOf(list, n))
<1> DEFINE D == 1 .. Len(list)
           A == {Len(list) - i : i \in {j \in D : list[j].name = n}}
<1>1. Len(list) \in Nat /\ DOMAIN list = D
  BY LenProperties
<1>2. A \subseteq Nat
  BY <1>1
<1>3. A # {}
  BY <1>1 DEF NamesIn
<1>4. PICK m \in A : \A k \in A : m <= k
  <2> HIDE DEF A
  <2> QED
    BY <1>2, <1>3, Least
<1>5. PICK i \in D : list[i].name = n /\ m = Len(list) - i
  OBVIOUS
<1>6. \A j \in D : list[j].name = n => j <= i
  <2> SUFFICES ASSUME NEW j \in D, list[j].name = n PROVE j <= i
    OBVIOUS
  <2>1. Len(list) - j \in A
    OBVIOUS
  <2>2. m <= Len(list) - j
    BY <1>4, <2>1
  <2> QED
    BY <1>1, <1>5, <2>2
<1>7. IsLast(list, n, i)
  BY <1>1, <1>5, <1>6 DEF IsLast
<1>8. LastOf(list, n) = CHOOSE j \in DOMAIN list : IsLast(list, n, j)
  BY DEF LastOf, IsLast
<1> QED
  BY <1>7, <1>8 DEF IsLast

LEMMA LastIsUnique ==
  ASSUME NEW E, NEW list \in Seq(E), NEW n, NEW i, IsLast(list, n, i)
  PROVE  LastOf(list, n) = i
<1>1. Len(list) \in Nat /\ DOMAIN list = 1 .. Len(list)
  BY LenProperties
<1>2. n \in NamesIn(list)
  BY DEF IsLast, NamesIn
<1>3. IsLast(list, n, LastOf(list, n))
  BY <1>2, LastOfIsLast
<1>4. LastOf(list, n) <= i /\ i <= LastOf(list, n) /\ i \in Nat /\ LastOf(list, n) \in Nat
  BY <1>1, <1>3 DEF IsLast
<1> QED
  BY <1>4

LEMMA AsMapOfEmpty == AsMap(<<>>) = EmptyMap
BY DEF AsMap, NamesIn, EmptyMap

\* The loop of AsMap: each entry sets its name.
LEMMA AsMapOfAppend ==
  ASSUME NEW E, NEW list \in Seq(E), NEW e \in E
  PROVE  AsMap(Append(list, e)) = Put(AsMap(list), e.name, e.value)
<1> DEFINE longer == Append(list, e)
<1>1. /\ longer \in Seq(E)
      /\ Len(list) \in Nat
      /\ DOMAIN list = 1 .. Len(list)
      /\ DOMAIN longer = 1 .. Len(list) + 1
      /\ longer[Len(list) + 1] = e
      /\ \A k \in 1 .. Len(list) : longer[k] = list[k]
  BY AppendProperties, LenProperties
<1>2. NamesIn(longer) = NamesIn(list) \cup {e.name}
  BY NamesOfAppend
<1> HIDE DEF longer
<1>3. longer[LastOf(longer, e.name)].value = e.value
  <2>1. IsLast(longer, e.name, Len(list) + 1)
    BY <1>1 DEF IsLast
  <2> QED
    BY <1>1, <2>1, LastIsUnique
<1>4. ASSUME NEW n \in NamesIn(list), n # e.name
      PROVE  longer[LastOf(longer, n)].value = AsMap(list)[n]
  <2> DEFINE i == LastOf(list, n)
  <2>1. IsLast(list, n, i)
    BY LastOfIsLast
  <2> HIDE DEF i
  <2>2. IsLast(longer, n, i)
    BY <1>1, <1>4, <2>1 DEF IsLast
  <2>3. LastOf(longer, n) = i
    BY <1>1, <2>2, LastIsUnique
  <2>4. longer[i] = list[i]
    BY <1>1, <2>1 DEF IsLast
  <2> QED
    BY <2>3, <2>4 DEF AsMap, i
<1>5. DOMAIN AsMap(list) = NamesIn(list)
  BY DEF AsMap
<1>6. \A n \in NamesIn(longer) :
        longer[LastOf(longer, n)].value = IF n = e.name THEN e.value ELSE AsMap(list)[n]
  BY <1>2, <1>3, <1>4
<1>7. AsMap(longer) = [n \in NamesIn(longer) |->
                         IF n = e.name THEN e.value ELSE AsMap(list)[n]]
  BY <1>6 DEF AsMap
<1> QED
  BY <1>2, <1>5, <1>7 DEF Put, longer

\* Map a with the values of map b over it.
Overlaid(a, b) ==
  [n \in DOMAIN a \cup DOMAIN b |-> IF n \in DOMAIN b THEN b[n] ELSE a[n]]

\* The later list wins.
LEMMA AsMapOfConcat ==
  ASSUME NEW E, NEW list \in Seq(E), NEW more \in Seq(E)
  PROVE  AsMap(list \o more) = Overlaid(AsMap(list), AsMap(more))
<1> DEFINE Over(s) == [n \in NamesIn(list) \cup NamesIn(s) |->
                         IF n \in NamesIn(s) THEN AsMap(s)[n] ELSE AsMap(list)[n]]
           T == {s \in Seq(E) : AsMap(list \o s) = Over(s)}
<1>1. <<>> \in T
  <2>1. NamesIn(<<>>) = {}
    BY DEF NamesIn
  <2>2. AsMap(list) = [n \in NamesIn(list) |-> AsMap(list)[n]]
    BY DEF AsMap
  <2> QED
    BY <2>1, <2>2, EmptySeq, ConcatEmptySeq
<1>2. ASSUME NEW s \in Seq(E), s \in T, NEW e \in E PROVE Append(s, e) \in T
  <2>1. list \o Append(s, e) = Append(list \o s, e) /\ list \o s \in Seq(E)
    OBVIOUS
  <2>2. AsMap(Append(list \o s, e)) = Put(AsMap(list \o s), e.name, e.value)
    BY <2>1, AsMapOfAppend
  <2>3. AsMap(Append(s, e)) = Put(AsMap(s), e.name, e.value)
    BY AsMapOfAppend
  <2>4. NamesIn(Append(s, e)) = NamesIn(s) \cup {e.name}
    BY NamesOfAppend
  <2>5. AsMap(list \o s) = Over(s) /\ DOMAIN AsMap(s) = NamesIn(s)
    BY <1>2 DEF AsMap
  <2>6. Put(Over(s), e.name, e.value) = Over(Append(s, e))
    BY <2>3, <2>4, <2>5 DEF Put
  <2>7. Append(s, e) \in Seq(E)
    BY AppendProperties
  <2> HIDE DEF Over
  <2> QED
    BY <2>1, <2>2, <2>5, <2>6, <2>7
<1>3. Seq(E) \subseteq T
  <2> HIDE DEF T
  <2> QED
    BY <1>1, <1>2, SeqInduction
<1>4. AsMap(list \o more) = Over(more)
  BY <1>3
<1>5. DOMAIN AsMap(list) = NamesIn(list) /\ DOMAIN AsMap(more) = NamesIn(more)
  BY DEF AsMap
<1> QED
  BY <1>4, <1>5 DEF Overlaid

LEMMA AsMapOfWithout ==
  ASSUME NEW E, NEW list \in Seq(E), NEW names
  PROVE  AsMap(Without(list, names)) = [n \in NamesIn(list) \ names |-> AsMap(list)[n]]
<1> DEFINE Rest(s) == [n \in NamesIn(s) \ names |-> AsMap(s)[n]]
           T == {s \in Seq(E) : AsMap(Without(s, names)) = Rest(s)}
<1>1. <<>> \in T
  <2>1. NamesIn(<<>>) = {}
    BY DEF NamesIn
  <2>2. Rest(<<>>) = EmptyMap
    BY <2>1 DEF EmptyMap
  <2> HIDE DEF Rest
  <2> QED
    BY <2>2, EmptySeq, WithoutOfEmpty, AsMapOfEmpty
<1>2. ASSUME NEW s \in Seq(E), s \in T, NEW e \in E PROVE Append(s, e) \in T
  <2>1. NamesIn(Append(s, e)) = NamesIn(s) \cup {e.name}
    BY NamesOfAppend
  <2>2. AsMap(Append(s, e)) = Put(AsMap(s), e.name, e.value)
    BY AsMapOfAppend
  <2>3. DOMAIN AsMap(s) = NamesIn(s)
    BY DEF AsMap
  <2>4. Without(Append(s, e), names) =
          IF e.name \in names THEN Without(s, names) ELSE Append(Without(s, names), e)
    BY WithoutOfAppend
  <2>5. AsMap(Append(Without(s, names), e)) = Put(AsMap(Without(s, names)), e.name, e.value)
    BY WithoutType, AsMapOfAppend
  <2>6. AsMap(Without(s, names)) = Rest(s)
    BY <1>2
  <2>7. CASE e.name \in names
    <3>1. Rest(Append(s, e)) = Rest(s)
      BY <2>1, <2>2, <2>3, <2>7 DEF Put
    <3> QED
      BY <2>4, <2>6, <2>7, <3>1, AppendProperties
  <2>8. CASE e.name \notin names
    <3>1. Rest(Append(s, e)) = Put(Rest(s), e.name, e.value)
      BY <2>1, <2>2, <2>3, <2>8 DEF Put
    <3> QED
      BY <2>4, <2>5, <2>6, <2>8, <3>1, AppendProperties
  <2> QED
    BY <2>7, <2>8
<1>3. Seq(E) \subseteq T
  <2> HIDE DEF T
  <2> QED
    BY <1>1, <1>2, SeqInduction
<1> QED
  BY <1>3

-----------------------------------------------------------------------------
(* The entries of other names, at their positions. *)

LEMMA OthersOfAppend ==
  ASSUME NEW E, NEW list \in Seq(E), NEW e \in E, NEW names
  PROVE  Others(Append(list, e), names) =
           IF e.name \in names THEN Others(list, names)
           ELSE Others(list, names) \cup {Len(list) + 1}
<1>1. /\ Len(list) \in Nat
      /\ DOMAIN list = 1 .. Len(list)
      /\ DOMAIN Append(list, e) = 1 .. Len(list) + 1
      /\ Append(list, e)[Len(list) + 1] = e
      /\ \A k \in 1 .. Len(list) : Append(list, e)[k] = list[k]
  BY AppendProperties, LenProperties
<1> QED
  BY <1>1 DEF Others

\* f pairs the other entries of one list with those of another, in order.
Pairs(f, before, after, names) ==
  /\ f \in [Others(before, names) -> Others(after, names)]
  /\ \A k \in Others(after, names) : \E i \in DOMAIN f : f[i] = k
  /\ \A i \in DOMAIN f : after[f[i]] = before[i]
  /\ \A i, j \in DOMAIN f : i < j => f[i] < f[j]

LEMMA PairsOfAppend ==
  ASSUME NEW E, NEW before \in Seq(E), NEW after \in Seq(E), NEW names,
         NEW f, Pairs(f, before, after, names), NEW e \in E
  PROVE  /\ e.name \in names => Pairs(f, Append(before, e), after, names)
         /\ e.name \notin names =>
              \E g : Pairs(g, Append(before, e), Append(after, e), names)
<1>1. /\ Len(before) \in Nat
      /\ DOMAIN before = 1 .. Len(before)
      /\ Append(before, e)[Len(before) + 1] = e
      /\ \A k \in 1 .. Len(before) : Append(before, e)[k] = before[k]
  BY AppendProperties, LenProperties
<1>2. /\ Len(after) \in Nat
      /\ DOMAIN after = 1 .. Len(after)
      /\ Append(after, e)[Len(after) + 1] = e
      /\ \A k \in 1 .. Len(after) : Append(after, e)[k] = after[k]
  BY AppendProperties, LenProperties
<1>3. /\ Others(before, names) \subseteq 1 .. Len(before)
      /\ Others(after, names) \subseteq 1 .. Len(after)
  BY <1>1, <1>2 DEF Others
<1>4. CASE e.name \in names
  <2>1. Others(Append(before, e), names) = Others(before, names)
    BY <1>4, OthersOfAppend
  <2> QED
    BY <1>1, <1>3, <1>4, <2>1 DEF Pairs
<1>5. CASE e.name \notin names
  <2> DEFINE m == Len(before) + 1
             n == Len(after) + 1
             g == [i \in Others(before, names) \cup {m} |-> IF i = m THEN n ELSE f[i]]
  <2>1. /\ Others(Append(before, e), names) = Others(before, names) \cup {m}
        /\ Others(Append(after, e), names) = Others(after, names) \cup {n}
    BY <1>5, OthersOfAppend
  <2>2. m \notin Others(before, names) /\ n \notin Others(after, names)
    BY <1>1, <1>2, <1>3
  <2>3. g \in [Others(before, names) \cup {m} -> Others(after, names) \cup {n}]
    BY DEF Pairs
  <2>4. ASSUME NEW k \in Others(after, names) \cup {n}
        PROVE  \E i \in DOMAIN g : g[i] = k
    <3>1. CASE k = n
      BY <3>1
    <3>2. CASE k # n
      <4>1. PICK i \in Others(before, names) : f[i] = k
        BY <3>2 DEF Pairs
      <4> QED
        BY <2>2, <4>1
    <3> QED
      BY <3>1, <3>2
  <2>5. ASSUME NEW i \in DOMAIN g PROVE Append(after, e)[g[i]] = Append(before, e)[i]
    <3>1. CASE i = m
      BY <1>1, <1>2, <3>1
    <3>2. CASE i # m
      <4>1. i \in Others(before, names) /\ g[i] = f[i] /\ f[i] \in Others(after, names)
        BY <3>2 DEF Pairs
      <4>2. after[f[i]] = before[i]
        BY <4>1 DEF Pairs
      <4> QED
        BY <1>1, <1>2, <1>3, <4>1, <4>2
    <3> QED
      BY <3>1, <3>2
  <2>6. ASSUME NEW i \in DOMAIN g, NEW j \in DOMAIN g, i < j PROVE g[i] < g[j]
    <3>1. i # m
      BY <1>1, <1>3, <2>6
    <3>2. i \in Others(before, names) /\ g[i] = f[i] /\ f[i] \in Others(after, names)
      BY <3>1 DEF Pairs
    <3>3. CASE j = m
      BY <1>2, <1>3, <3>2, <3>3
    <3>4. CASE j # m
      BY <2>6, <3>2, <3>4 DEF Pairs
    <3> QED
      BY <3>3, <3>4
  <2>7. Pairs(g, Append(before, e), Append(after, e), names)
    <3> HIDE DEF g, m, n
    <3>1. DOMAIN g = Others(before, names) \cup {m}
      BY <2>3
    <3> QED
      BY <2>1, <2>3, <2>4, <2>5, <2>6, <3>1 DEF Pairs
  <2> QED
    BY <1>5, <2>7
<1> QED
  BY <1>4, <1>5

LEMMA WithoutPairs ==
  ASSUME NEW E, NEW list \in Seq(E), NEW names
  PROVE  \E f : Pairs(f, list, Without(list, names), names)
<1> DEFINE T == {s \in Seq(E) : \E f : Pairs(f, s, Without(s, names), names)}
<1>1. <<>> \in T
  <2>1. Others(<<>>, names) = {}
    BY DEF Others
  <2>2. Pairs([i \in {} |-> i], <<>>, <<>>, names)
    BY <2>1 DEF Pairs
  <2> QED
    BY <2>2, EmptySeq, WithoutOfEmpty
<1>2. ASSUME NEW s \in Seq(E), s \in T, NEW e \in E PROVE Append(s, e) \in T
  <2>1. PICK f : Pairs(f, s, Without(s, names), names)
    BY <1>2
  <2>2. Without(s, names) \in Seq(E)
    BY WithoutType
  <2>3. /\ e.name \in names => Pairs(f, Append(s, e), Without(s, names), names)
        /\ e.name \notin names =>
             \E g : Pairs(g, Append(s, e), Append(Without(s, names), e), names)
    BY <2>1, <2>2, PairsOfAppend
  <2>4. \E g : Pairs(g, Append(s, e), Without(Append(s, e), names), names)
    BY <2>3, WithoutOfAppend
  <2> QED
    BY <2>4, AppendProperties
<1>3. Seq(E) \subseteq T
  <2> HIDE DEF T
  <2> QED
    BY <1>1, <1>2, SeqInduction
<1> QED
  BY <1>3

\* Managed entries at the end change nothing about the others.
LEMMA MergePairs ==
  ASSUME NEW E, NEW list \in Seq(E), NEW more \in Seq(E), NEW names,
         NamesIn(more) \subseteq names
  PROVE  SameOthers(list, Without(list, names) \o more, names)
<1> DEFINE kept == Without(list, names)
           after == kept \o more
<1>1. kept \in Seq(E)
  BY WithoutType
<1>2. PICK f : Pairs(f, list, kept, names)
  BY WithoutPairs
<1> HIDE DEF kept
<1>3. /\ Len(kept) \in Nat /\ Len(more) \in Nat
      /\ DOMAIN kept = 1 .. Len(kept) /\ DOMAIN more = 1 .. Len(more)
      /\ DOMAIN after = 1 .. Len(kept) + Len(more)
      /\ \A k \in 1 .. Len(kept) : after[k] = kept[k]
      /\ \A k \in 1 .. Len(kept) + Len(more) :
           k > Len(kept) => after[k] = more[k - Len(kept)]
  BY <1>1, LenProperties, ConcatProperties
<1> HIDE DEF after
<1>4. ASSUME NEW k \in 1 .. Len(kept) + Len(more), k > Len(kept)
      PROVE  after[k].name \in names
  <2>1. k - Len(kept) \in 1 .. Len(more)
    BY <1>3, <1>4
  <2> QED
    BY <1>3, <1>4, <2>1 DEF NamesIn
<1>5. Others(after, names) = Others(kept, names)
  BY <1>3, <1>4 DEF Others
<1>6. \A k \in Others(kept, names) : after[k] = kept[k]
  BY <1>3 DEF Others
<1>7. Pairs(f, list, after, names)
  BY <1>2, <1>5, <1>6 DEF Pairs
<1> QED
  BY <1>7 DEF Pairs, SameOthers, after, kept

-----------------------------------------------------------------------------
(* The order of strings, and what Sorted returns. *)

Texts == Seq(Nat)

LEMMA LessIrreflexive ==
  ASSUME NEW a \in Texts
  PROVE  ~ Less(a, a)
<1>1. Len(a) \in Nat /\ \A i \in 1 .. Len(a) : a[i] \in Nat
  BY LenProperties, ElementOfSeq DEF Texts
<1> QED
  BY <1>1 DEF Less

LEMMA LessTransitive ==
  ASSUME NEW a \in Texts, NEW b \in Texts, NEW c \in Texts, Less(a, b), Less(b, c)
  PROVE  Less(a, c)
<1>1. /\ Len(a) \in Nat /\ Len(b) \in Nat /\ Len(c) \in Nat
      /\ \A i \in 1 .. Len(a) : a[i] \in Nat
      /\ \A i \in 1 .. Len(b) : b[i] \in Nat
      /\ \A i \in 1 .. Len(c) : c[i] \in Nat
  BY LenProperties, ElementOfSeq DEF Texts
<1>2. PICK i \in 1 .. Len(b) :
        /\ i <= Len(a) + 1
        /\ \A k \in 1 .. i - 1 : a[k] = b[k]
        /\ i = Len(a) + 1 \/ a[i] < b[i]
  BY DEF Less
<1>3. PICK j \in 1 .. Len(c) :
        /\ j <= Len(b) + 1
        /\ \A k \in 1 .. j - 1 : b[k] = c[k]
        /\ j = Len(b) + 1 \/ b[j] < c[j]
  BY DEF Less
<1>4. CASE i <= j
  <2>1. i \in 1 .. Len(c)
    BY <1>1, <1>4
  <2>2. \A k \in 1 .. i - 1 : a[k] = c[k]
    BY <1>1, <1>2, <1>3, <1>4
  <2>3. i = Len(a) + 1 \/ a[i] < c[i]
    <3> SUFFICES ASSUME i # Len(a) + 1 PROVE a[i] < c[i]
      OBVIOUS
    <3>1. a[i] \in Nat /\ b[i] \in Nat /\ c[i] \in Nat /\ a[i] < b[i]
      BY <1>1, <1>2, <2>1
    <3>2. b[i] <= c[i]
      <4>1. CASE i < j
        BY <1>1, <1>3, <3>1, <4>1
      <4>2. CASE i = j
        BY <1>1, <1>3, <3>1, <4>2
      <4> QED
        BY <1>1, <1>4, <4>1, <4>2
    <3> QED
      BY <3>1, <3>2
  <2> QED
    BY <1>2, <2>1, <2>2, <2>3 DEF Less
<1>5. CASE j < i
  <2>1. j <= Len(a) + 1 /\ j # Len(a) + 1 /\ j \in 1 .. Len(b)
    BY <1>1, <1>2, <1>5
  <2>2. \A k \in 1 .. j - 1 : a[k] = c[k]
    BY <1>1, <1>2, <1>3, <1>5
  <2>3. a[j] < c[j]
    BY <1>1, <1>2, <1>3, <1>5, <2>1
  <2> QED
    BY <2>1, <2>2, <2>3 DEF Less
<1> QED
  BY <1>1, <1>4, <1>5

LEMMA LessTotal ==
  ASSUME NEW a \in Texts, NEW b \in Texts, a # b
  PROVE  Less(a, b) \/ Less(b, a)
<1>1. /\ Len(a) \in Nat /\ Len(b) \in Nat
      /\ \A i \in 1 .. Len(a) : a[i] \in Nat
      /\ \A i \in 1 .. Len(b) : b[i] \in Nat
  BY LenProperties, ElementOfSeq DEF Texts
<1> DEFINE Differ == {i \in Nat : /\ i # 0
                                  /\ i > Len(a) \/ i > Len(b) \/ a[i] # b[i]}
           m == Len(a) + 1
<1>2. m \in Differ
  BY <1>1
<1>3. PICK i \in Differ : \A k \in Differ : i <= k
  <2>1. Differ \subseteq Nat /\ Differ # {}
    BY <1>2
  <2> HIDE DEF Differ
  <2> QED
    BY <2>1, Least
<1>4. i \in Nat /\ i # 0 /\ i <= m
  BY <1>2, <1>3
<1>5. ASSUME NEW k \in 1 .. i - 1
      PROVE  k <= Len(a) /\ k <= Len(b) /\ a[k] = b[k]
  <2>1. k \in Nat /\ k # 0 /\ k < i
    BY <1>4
  <2>2. k \notin Differ
    BY <1>3, <1>4, <2>1
  <2> QED
    BY <1>1, <2>1, <2>2
<1>6. i - 1 <= Len(a) /\ i - 1 <= Len(b)
  <2>1. CASE i = 1
    BY <1>1, <2>1
  <2>2. CASE i # 1
    <3>1. i - 1 \in 1 .. i - 1
      BY <1>4, <2>2
    <3> QED
      BY <1>5, <3>1
  <2> QED
    BY <2>1, <2>2
<1>7. CASE i > Len(a) /\ i > Len(b)
  <2>1. Len(a) = Len(b) /\ Len(a) = i - 1
    BY <1>1, <1>4, <1>6, <1>7
  <2>2. \A k \in 1 .. Len(a) : a[k] = b[k]
    BY <1>5, <2>1
  <2>3. a = b
    BY <2>1, <2>2, SeqEqual DEF Texts
  <2> QED
    BY <2>3
<1>8. CASE i > Len(a) /\ i <= Len(b)
  <2>1. i = Len(a) + 1 /\ i \in 1 .. Len(b)
    BY <1>1, <1>4, <1>6, <1>8
  <2> QED
    BY <1>5, <2>1 DEF Less
<1>9. CASE i <= Len(a) /\ i > Len(b)
  <2>1. i = Len(b) + 1 /\ i \in 1 .. Len(a)
    BY <1>1, <1>4, <1>6, <1>9
  <2> QED
    BY <1>5, <2>1 DEF Less
<1>10. CASE i <= Len(a) /\ i <= Len(b)
  <2>1. i \in 1 .. Len(a) /\ i \in 1 .. Len(b) /\ a[i] # b[i]
    BY <1>1, <1>4, <1>10
  <2>2. a[i] < b[i] \/ b[i] < a[i]
    BY <1>1, <2>1
  <2> QED
    BY <1>1, <1>5, <1>6, <2>1, <2>2 DEF Less
<1> QED
  BY <1>1, <1>4, <1>7, <1>8, <1>9, <1>10

\* A nonempty finite set of strings has a greatest one.
LEMMA Greatest ==
  ASSUME NEW A \in SUBSET Texts, IsFiniteSet(A), A # {}
  PROVE  \E m \in A : \A a \in A \ {m} : Less(a, m)
<1> DEFINE T == {X \in SUBSET A : X # {} => \E m \in X : \A a \in X \ {m} : Less(a, m)}
<1>1. {} \in T
  OBVIOUS
<1>2. ASSUME NEW X \in SUBSET A, X \in T, NEW x \in A \ X PROVE X \cup {x} \in T
  <2>1. CASE X = {}
    BY <2>1
  <2>2. CASE X # {}
    <3>1. PICK m \in X : \A a \in X \ {m} : Less(a, m)
      BY <1>2, <2>2
    <3>2. m \in Texts /\ x \in Texts /\ m # x /\ \A a \in X : a \in Texts
      OBVIOUS
    <3>3. CASE Less(m, x)
      <4>1. \A a \in X : Less(a, x)
        BY <3>1, <3>2, <3>3, LessTransitive
      <4> QED
        BY <4>1
    <3>4. CASE Less(x, m)
      BY <3>1, <3>4
    <3> QED
      BY <3>2, <3>3, <3>4, LessTotal
  <2> QED
    BY <2>1, <2>2
<1>3. A \in T
  <2> HIDE DEF T
  <2> QED
    BY <1>1, <1>2, FiniteInduction
<1> QED
  BY <1>3

IsSorted(s, A) ==
  /\ s \in [1 .. Cardinality(A) -> A]
  /\ \A i, j \in DOMAIN s : i < j => Less(s[i], s[j])

LEMMA SortedExists ==
  ASSUME NEW A \in SUBSET Texts, IsFiniteSet(A)
  PROVE  \E s : IsSorted(s, A)
<1> DEFINE T == {n \in Nat : \A X \in SUBSET A : Cardinality(X) = n => \E s : IsSorted(s, X)}
<1>0. \A X \in SUBSET A : IsFiniteSet(X) /\ Cardinality(X) \in Nat
  BY FS_Subset, FS_CardinalityType
<1>1. 0 \in T
  <2> SUFFICES ASSUME NEW X \in SUBSET A, Cardinality(X) = 0 PROVE \E s : IsSorted(s, X)
    OBVIOUS
  <2>1. IsSorted([i \in {} |-> i], X)
    BY DEF IsSorted
  <2> QED
    BY <2>1
<1>2. ASSUME NEW n \in Nat, n \in T PROVE n + 1 \in T
  <2> SUFFICES ASSUME NEW X \in SUBSET A, Cardinality(X) = n + 1
               PROVE  \E s : IsSorted(s, X)
    OBVIOUS
  <2>1. X # {}
    BY FS_EmptySet
  <2>2. PICK m \in X : \A a \in X \ {m} : Less(a, m)
    BY <1>0, <2>1, Greatest
  <2>3. Cardinality(X \ {m}) = n
    <3>1. Cardinality(X \ {m}) = Cardinality(X) - 1
      BY <1>0, FS_RemoveElement, Zenon
    <3> QED
      BY <3>1
  <2>4. PICK s : IsSorted(s, X \ {m})
    BY <1>2, <2>3
  <2>5. s \in [1 .. n -> X \ {m}] /\ \A i, j \in 1 .. n : i < j => Less(s[i], s[j])
    BY <2>3, <2>4 DEF IsSorted
  <2> DEFINE t == [i \in 1 .. n + 1 |-> IF i = n + 1 THEN m ELSE s[i]]
  <2>6. t \in [1 .. n + 1 -> X]
    BY <2>5
  <2>7. ASSUME NEW i \in 1 .. n + 1, NEW j \in 1 .. n + 1, i < j PROVE Less(t[i], t[j])
    <3>1. i \in 1 .. n /\ t[i] = s[i] /\ s[i] \in X \ {m}
      BY <2>5, <2>7
    <3>2. CASE j = n + 1
      BY <2>2, <3>1, <3>2
    <3>3. CASE j # n + 1
      BY <2>5, <2>7, <3>1, <3>3
    <3> QED
      BY <3>2, <3>3
  <2>8. IsSorted(t, X)
    <3> HIDE DEF t
    <3> QED
      BY <2>6, <2>7 DEF IsSorted
  <2> QED
    BY <2>8
<1>3. Nat \subseteq T
  <2> HIDE DEF T
  <2> QED
    BY <1>1, <1>2, Induction
<1> QED
  BY <1>0, <1>3

\* A sorted list has every name.
LEMMA SortedIsOnto ==
  ASSUME NEW A \in SUBSET Texts, IsFiniteSet(A), NEW s, IsSorted(s, A)
  PROVE  \A a \in A : \E i \in DOMAIN s : s[i] = a
<1> DEFINE n == Cardinality(A)
<1>1. n \in Nat
  BY FS_CardinalityType
<1>2. s \in [1 .. n -> A] /\ \A i, j \in 1 .. n : i < j => Less(s[i], s[j])
  BY DEF IsSorted
<1>3. \A i, j \in 1 .. n : i # j => s[i] # s[j]
  <2> SUFFICES ASSUME NEW i \in 1 .. n, NEW j \in 1 .. n, i < j PROVE s[i] # s[j]
    BY <1>1
  <2>1. Less(s[i], s[j]) /\ s[i] \in Texts
    BY <1>2
  <2> QED
    BY <2>1, LessIrreflexive
<1>4. Cardinality(1 .. n) = n
  BY <1>1, FS_Interval
<1>5. s \in Surjection(1 .. n, A)
  <2>1. s \in Injection(1 .. n, A)
    BY <1>2, <1>3 DEF Injection, IsInjective
  <2> QED
    BY <1>4, <2>1, FS_Injection
<1> QED
  BY <1>2, <1>5 DEF Surjection

\* Sorted lists each name once, in order.
LEMMA SortedIsSorted ==
  ASSUME NEW A \in SUBSET Texts, IsFiniteSet(A)
  PROVE  IsSorted(Sorted(A), A)
<1>1. Sorted(A) = CHOOSE t \in [1 .. Cardinality(A) -> A] : IsSorted(t, A)
  BY DEF Sorted, IsSorted
<1>2. PICK t : IsSorted(t, A)
  BY SortedExists
<1>3. t \in [1 .. Cardinality(A) -> A]
  BY <1>2 DEF IsSorted
<1> QED
  BY <1>1, <1>2, <1>3

\* Only one list is sorted: the order in which Go walks a map cannot matter.
THEOREM SortingIsDetermined ==
  ASSUME NEW A \in SUBSET Texts, IsFiniteSet(A), NEW s, IsSorted(s, A)
  PROVE  s = Sorted(A)
<1> DEFINE n == Cardinality(A)
           t == Sorted(A)
<1>1. n \in Nat
  BY FS_CardinalityType
<1>2. IsSorted(t, A)
  BY SortedIsSorted
<1> HIDE DEF t
<1>3. /\ s \in [1 .. n -> A] /\ \A i, j \in 1 .. n : i < j => Less(s[i], s[j])
      /\ t \in [1 .. n -> A] /\ \A i, j \in 1 .. n : i < j => Less(t[i], t[j])
  BY <1>2 DEF IsSorted
<1>4. \A a \in A : (\E i \in 1 .. n : s[i] = a) /\ (\E i \in 1 .. n : t[i] = a)
  <2>1. \A a \in A : \E i \in DOMAIN s : s[i] = a
    BY SortedIsOnto
  <2>2. \A a \in A : \E i \in DOMAIN t : t[i] = a
    BY <1>2, SortedIsOnto
  <2> QED
    BY <1>3, <2>1, <2>2
<1> HIDE DEF n
<1> DEFINE Differ == {i \in 1 .. n : s[i] # t[i]}
<1>5. SUFFICES ASSUME Differ # {} PROVE FALSE
  <2>1. CASE Differ = {}
    <3>1. \A i \in 1 .. n : s[i] = t[i]
      BY <2>1
    <3>2. s = [i \in 1 .. n |-> s[i]] /\ t = [i \in 1 .. n |-> t[i]]
      <4>1. s \in [1 .. n -> A] /\ t \in [1 .. n -> A]
        BY <1>3
      <4> QED
        BY <4>1
    <3>3. [i \in 1 .. n |-> s[i]] = [i \in 1 .. n |-> t[i]]
      BY <3>1
    <3>4. s = t
      BY ONLY <3>2, <3>3
    <3> QED
      BY <3>4 DEF t
  <2> QED
    BY <2>1
<1>6. PICK k \in Differ : \A i \in Differ : k <= i
  <2>1. Differ \in SUBSET Nat
    BY <1>1
  <2> HIDE DEF Differ
  <2> QED
    BY <1>5, <2>1, Least
<1>7. k \in 1 .. n /\ s[k] # t[k] /\ \A i \in 1 .. n : i < k => s[i] = t[i]
  BY <1>1, <1>6
<1>8. \A i, j \in 1 .. n : i # j => s[i] # s[j] /\ t[i] # t[j]
  <2> SUFFICES ASSUME NEW i \in 1 .. n, NEW j \in 1 .. n, i < j
               PROVE  s[i] # s[j] /\ t[i] # t[j]
    BY <1>1
  <2>1. Less(s[i], s[j]) /\ Less(t[i], t[j]) /\ s[i] \in Texts /\ t[i] \in Texts
    BY <1>3
  <2> QED
    BY <2>1, LessIrreflexive
<1>9. PICK m \in 1 .. n : t[m] = s[k]
  BY <1>3, <1>4, <1>7
<1>10. PICK l \in 1 .. n : s[l] = t[k]
  BY <1>3, <1>4, <1>7
<1>11. k < m
  BY <1>1, <1>7, <1>8, <1>9
<1>12. k < l
  BY <1>1, <1>7, <1>8, <1>10
<1>13. Less(t[k], s[k]) /\ Less(s[k], t[k]) /\ s[k] \in Texts /\ t[k] \in Texts
  BY <1>3, <1>7, <1>9, <1>10, <1>11, <1>12
<1> QED
  BY <1>13, LessTransitive, LessIrreflexive

-----------------------------------------------------------------------------
(* The bytes of the digest can be read back, from the end. *)

NulFree == Seq(Nat \ {0})

LEMMA NulFreeIsText ==
  ASSUME NEW v \in NulFree
  PROVE  /\ v \in Texts
         /\ Len(v) \in Nat
         /\ DOMAIN v = 1 .. Len(v)
         /\ \A i \in 1 .. Len(v) : v[i] \in Nat /\ v[i] # 0
<1>1. Nat \ {0} \subseteq Nat
  OBVIOUS
<1>2. v \in Texts
  BY <1>1, SeqMonotonic DEF NulFree, Texts
<1> QED
  BY <1>2, ElementOfSeq, LenProperties DEF NulFree, Texts

\* Two strings with a NUL byte between.
Joined(a, v) == (a \o <<0>>) \o v

\* The last NUL byte is where a string without any begins.
LEMMA SplitAtLastNul ==
  ASSUME NEW a \in Texts, NEW b \in Texts, NEW v \in NulFree, NEW w \in NulFree,
         Joined(a, v) = Joined(b, w)
  PROVE  a = b /\ v = w
<1>1. /\ v \in Texts /\ Len(v) \in Nat /\ \A i \in 1 .. Len(v) : v[i] # 0
      /\ w \in Texts /\ Len(w) \in Nat /\ \A i \in 1 .. Len(w) : w[i] # 0
      /\ Len(a) \in Nat /\ Len(b) \in Nat
  BY NulFreeIsText, LenProperties DEF Texts
<1>2. <<0>> \in Texts /\ Len(<<0>>) = 1 /\ <<0>>[1] = 0
  BY DEF Texts
<1>3. /\ a \o <<0>> \in Texts /\ Len(a \o <<0>>) = Len(a) + 1
      /\ \A i \in 1 .. Len(a) : (a \o <<0>>)[i] = a[i]
      /\ (a \o <<0>>)[Len(a) + 1] = 0
      /\ b \o <<0>> \in Texts /\ Len(b \o <<0>>) = Len(b) + 1
      /\ \A i \in 1 .. Len(b) : (b \o <<0>>)[i] = b[i]
      /\ (b \o <<0>>)[Len(b) + 1] = 0
  BY <1>1, <1>2, ConcatProperties DEF Texts
<1> DEFINE c == a \o <<0>>
           d == b \o <<0>>
<1> HIDE DEF c, d
<1>4. /\ c \in Texts /\ d \in Texts /\ Len(c) = Len(a) + 1 /\ Len(d) = Len(b) + 1
      /\ c[Len(a) + 1] = 0 /\ d[Len(b) + 1] = 0
      /\ \A i \in 1 .. Len(a) : c[i] = a[i]
      /\ \A i \in 1 .. Len(b) : d[i] = b[i]
  BY <1>3 DEF c, d
<1>5. c \o v = d \o w
  BY DEF c, d, Joined
<1>6. /\ Len(c \o v) = Len(a) + 1 + Len(v)
      /\ Len(d \o w) = Len(b) + 1 + Len(w)
      /\ \A i \in 1 .. Len(a) + 1 : (c \o v)[i] = c[i]
      /\ \A i \in 1 .. Len(v) : (c \o v)[Len(a) + 1 + i] = v[i]
      /\ \A i \in 1 .. Len(b) + 1 : (d \o w)[i] = d[i]
      /\ \A i \in 1 .. Len(w) : (d \o w)[Len(b) + 1 + i] = w[i]
  <2>1. /\ Len(c \o v) = Len(c) + Len(v)
        /\ \A i \in 1 .. Len(c) + Len(v) :
             (c \o v)[i] = IF i <= Len(c) THEN c[i] ELSE v[i - Len(c)]
    BY <1>1, <1>4, ConcatProperties DEF Texts
  <2>2. /\ Len(d \o w) = Len(d) + Len(w)
        /\ \A i \in 1 .. Len(d) + Len(w) :
             (d \o w)[i] = IF i <= Len(d) THEN d[i] ELSE w[i - Len(d)]
    BY <1>1, <1>4, ConcatProperties DEF Texts
  <2> DEFINE cv == c \o v
             dw == d \o w
  <2> HIDE DEF cv, dw
  <2>3. /\ Len(cv) = Len(a) + 1 + Len(v)
        /\ \A i \in 1 .. Len(a) + 1 : cv[i] = c[i]
        /\ \A i \in 1 .. Len(v) : cv[Len(a) + 1 + i] = v[i]
    BY <1>1, <1>4, <2>1 DEF cv
  <2>4. /\ Len(dw) = Len(b) + 1 + Len(w)
        /\ \A i \in 1 .. Len(b) + 1 : dw[i] = d[i]
        /\ \A i \in 1 .. Len(w) : dw[Len(b) + 1 + i] = w[i]
    BY <1>1, <1>4, <2>2 DEF dw
  <2> QED
    BY <2>3, <2>4 DEF cv, dw
<1>7. Len(a) = Len(b)
  <2>1. ~(Len(a) < Len(b))
    <3> SUFFICES ASSUME Len(a) < Len(b) PROVE FALSE
      OBVIOUS
    <3> DEFINE i == Len(b) - Len(a)
    <3>1. i \in 1 .. Len(v) /\ Len(a) + 1 + i = Len(b) + 1
      BY <1>1, <1>5, <1>6
    <3>2. (c \o v)[Len(b) + 1] = v[i]
      BY <1>6, <3>1
    <3>3. (d \o w)[Len(b) + 1] = 0
      BY <1>1, <1>4, <1>6
    <3> QED
      BY <1>1, <1>5, <3>1, <3>2, <3>3
  <2>2. ~(Len(b) < Len(a))
    <3> SUFFICES ASSUME Len(b) < Len(a) PROVE FALSE
      OBVIOUS
    <3> DEFINE i == Len(a) - Len(b)
    <3>1. i \in 1 .. Len(w) /\ Len(b) + 1 + i = Len(a) + 1
      BY <1>1, <1>5, <1>6
    <3>2. (d \o w)[Len(a) + 1] = w[i]
      BY <1>6, <3>1
    <3>3. (c \o v)[Len(a) + 1] = 0
      BY <1>1, <1>4, <1>6
    <3> QED
      BY <1>1, <1>5, <3>1, <3>2, <3>3
  <2> QED
    BY <1>1, <2>1, <2>2
<1>8. Len(v) = Len(w)
  BY <1>1, <1>5, <1>6, <1>7
<1>9. \A i \in 1 .. Len(a) : a[i] = b[i]
  BY <1>1, <1>4, <1>5, <1>6, <1>7
<1>10. \A i \in 1 .. Len(v) : v[i] = w[i]
  BY <1>1, <1>5, <1>6, <1>7, <1>8
<1> QED
  BY <1>1, <1>7, <1>8, <1>9, <1>10, SeqEqual DEF Texts

\* Empty, or with a NUL byte at the end.
Terminated(bytes) == bytes = <<>> \/ \E a \in Texts : bytes = a \o <<0>>

LEMMA FedIsText ==
  ASSUME NEW bytes \in Texts, NEW n \in NulFree, NEW v \in NulFree
  PROVE  /\ bytes \o Fed(n, v) \in Texts
         /\ bytes \o Fed(n, v) = (((bytes \o n) \o <<0>>) \o v) \o <<0>>
         /\ ((bytes \o n) \o <<0>>) \o v \in Texts
         /\ bytes \o n \in Texts
<1>1. n \in Texts /\ v \in Texts /\ <<0>> \in Texts
  BY NulFreeIsText DEF Texts
<1>2. /\ n \o <<0>> \in Texts
      /\ (n \o <<0>>) \o v \in Texts
      /\ bytes \o n \in Texts
      /\ (bytes \o n) \o <<0>> \in Texts
      /\ ((bytes \o n) \o <<0>>) \o v \in Texts
      /\ (((bytes \o n) \o <<0>>) \o v) \o <<0>> \in Texts
  BY <1>1, ConcatProperties DEF Texts
<1>3. bytes \o (((n \o <<0>>) \o v) \o <<0>>) = (bytes \o ((n \o <<0>>) \o v)) \o <<0>>
  BY <1>1, <1>2, ConcatAssociative DEF Texts
<1>4. bytes \o ((n \o <<0>>) \o v) = (bytes \o (n \o <<0>>)) \o v
  BY <1>1, <1>2, ConcatAssociative DEF Texts
<1>5. bytes \o (n \o <<0>>) = (bytes \o n) \o <<0>>
  BY <1>1, <1>2, ConcatAssociative DEF Texts
<1>6. Fed(n, v) = ((n \o <<0>>) \o v) \o <<0>>
  BY DEF Fed
<1> QED
  BY <1>2, <1>3, <1>4, <1>5, <1>6

\* The bytes after one more variable.
FedAfter(bytes, n, v) == bytes \o Fed(n, v)

\* The last variable fed can be read back, and what was fed before it.
LEMMA FedReadsBack ==
  ASSUME NEW a \in Texts, NEW b \in Texts, Terminated(a), Terminated(b),
         NEW n \in NulFree, NEW v \in NulFree, NEW m \in NulFree, NEW w \in NulFree,
         FedAfter(a, n, v) = FedAfter(b, m, w)
  PROVE  a = b /\ n = m /\ v = w
<1> DEFINE p == a \o n
           q == b \o m
           x == (p \o <<0>>) \o v
           y == (q \o <<0>>) \o w
<1>1. p \in Texts /\ q \in Texts /\ x \in Texts /\ y \in Texts
  BY FedIsText
<1>2. x \o <<0>> = y \o <<0>>
  BY FedIsText DEF FedAfter
<1>3. x = y
  <2>1. <<>> \in NulFree
    BY EmptySeq DEF NulFree
  <2>2. Joined(x, <<>>) = Joined(y, <<>>)
    BY <1>2 DEF Joined
  <2> HIDE DEF x, y
  <2> QED
    BY <1>1, <2>1, <2>2, SplitAtLastNul
<1>4. p = q /\ v = w
  <2>1. Joined(p, v) = Joined(q, w)
    BY <1>3 DEF Joined
  <2> HIDE DEF p, q
  <2> QED
    BY <1>1, <2>1, SplitAtLastNul
<1>5. a = b /\ n = m
  <2>1. n \in Texts /\ m \in Texts /\ <<0>> \in Texts
    BY NulFreeIsText DEF Texts
  <2>2. <<>> \o n = n /\ <<>> \o m = m
    BY <2>1, ConcatEmptySeq DEF Texts
  <2>3. CASE a = <<>> /\ b = <<>>
    BY <1>4, <2>2, <2>3
  <2>4. \A c \in Texts, k \in NulFree, l \in NulFree : (c \o <<0>>) \o k # l
    <3> SUFFICES ASSUME NEW c \in Texts, NEW k \in NulFree, NEW l \in NulFree,
                        Joined(c, k) = l
                 PROVE  FALSE
      BY DEF Joined
    <3>1. k \in Texts /\ Len(k) \in Nat /\ Len(c) \in Nat
      BY NulFreeIsText, LenProperties DEF Texts
    <3>2. /\ c \o <<0>> \in Texts /\ Len(c \o <<0>>) = Len(c) + 1
          /\ (c \o <<0>>)[Len(c) + 1] = 0
      BY <2>1, <3>1, ConcatProperties DEF Texts
    <3>3. /\ Len(l) = Len(c) + 1 + Len(k)
          /\ l[Len(c) + 1] = 0
      BY <3>1, <3>2, ConcatProperties DEF Texts, Joined
    <3>4. Len(c) + 1 \in 1 .. Len(l)
      BY <3>1, <3>3
    <3> QED
      BY <3>3, <3>4, NulFreeIsText
  <2>5. CASE a = <<>> /\ b # <<>>
    BY <1>4, <2>2, <2>4, <2>5 DEF Terminated
  <2>6. CASE a # <<>> /\ b = <<>>
    BY <1>4, <2>2, <2>4, <2>6 DEF Terminated
  <2>7. CASE a # <<>> /\ b # <<>>
    <3>1. PICK c \in Texts : a = c \o <<0>>
      BY <2>7 DEF Terminated
    <3>2. PICK d \in Texts : b = d \o <<0>>
      BY <2>7 DEF Terminated
    <3>3. Joined(c, n) = Joined(d, m)
      BY <1>4, <3>1, <3>2 DEF Joined
    <3>4. c = d /\ n = m
      BY <3>3, SplitAtLastNul
    <3> QED
      BY <3>1, <3>2, <3>4
  <2> QED
    BY <2>3, <2>5, <2>6, <2>7
<1> QED
  BY <1>4, <1>5

-----------------------------------------------------------------------------
(* Hashed. *)

\* The function that Hashed computes with.
FedUpTo(values) ==
  LET names == Sorted(DOMAIN values)
      fed[k \in 0 .. Len(names)] ==
        IF k = 0 THEN <<>>
        ELSE fed[k - 1] \o Fed(names[k], values[names[k]])
  IN  fed

LEMMA HashedIsFed ==
  ASSUME NEW values
  PROVE  Hashed(values) = FedUpTo(values)[Len(Sorted(DOMAIN values))]
BY DEF Hashed, FedUpTo

\* A finite map from strings to strings, all of them without NUL bytes.
IsTextMap(values) ==
  /\ DOMAIN values \subseteq NulFree
  /\ IsFiniteSet(DOMAIN values)
  /\ \A n \in DOMAIN values : values[n] \in NulFree

LEMMA SortedNames ==
  ASSUME NEW A \in SUBSET NulFree, IsFiniteSet(A)
  PROVE  /\ Len(Sorted(A)) \in Nat
         /\ DOMAIN Sorted(A) = 1 .. Len(Sorted(A))
         /\ \A i \in 1 .. Len(Sorted(A)) : Sorted(A)[i] \in A
         /\ \A n \in A : \E i \in 1 .. Len(Sorted(A)) : Sorted(A)[i] = n
<1> DEFINE s == Sorted(A)
           m == Cardinality(A)
<1>1. A \in SUBSET Texts
  BY NulFreeIsText
<1>2. m \in Nat
  BY FS_CardinalityType
<1>3. s \in [1 .. m -> A] /\ \A n \in A : \E i \in DOMAIN s : s[i] = n
  BY <1>1, SortedIsSorted, SortedIsOnto DEF IsSorted
<1> HIDE DEF s, m
<1>4. s \in Seq(A)
  BY <1>2, <1>3
<1>5. Len(s) = m /\ DOMAIN s = 1 .. m
  BY <1>2, <1>3, <1>4, LenProperties
<1>6. /\ Len(s) \in Nat
      /\ DOMAIN s = 1 .. Len(s)
      /\ \A i \in 1 .. Len(s) : s[i] \in A
      /\ \A n \in A : \E i \in 1 .. Len(s) : s[i] = n
  BY <1>2, <1>3, <1>5
<1> QED
  BY <1>6 DEF s

LEMMA FedStep ==
  ASSUME NEW values, IsTextMap(values)
  PROVE  LET names == Sorted(DOMAIN values)
             fed == FedUpTo(values) IN
         /\ fed \in [0 .. Len(names) -> Texts]
         /\ fed[0] = <<>>
         /\ \A k \in 1 .. Len(names) :
              fed[k] = fed[k - 1] \o Fed(names[k], values[names[k]])
<1> DEFINE names == Sorted(DOMAIN values)
           fed == FedUpTo(values)
           step == [k \in 1 .. Len(names) |-> [x \in Texts |->
                      x \o Fed(names[k], values[names[k]])]]
           Is(g) == g = [k \in 0 .. Len(names) |->
                      IF k = 0 THEN <<>>
                      ELSE g[k - 1] \o Fed(names[k], values[names[k]])]
<1>1. /\ Len(names) \in Nat
      /\ <<>> \in Texts
      /\ \A k \in 1 .. Len(names) : names[k] \in NulFree /\ values[names[k]] \in NulFree
  BY SortedNames, EmptySeq DEF IsTextMap, Texts
<1>2. fed = CHOOSE h : Is(h)
  BY DEF FedUpTo
<1> HIDE DEF names, fed
<1>3. step \in [1 .. Len(names) -> [Texts -> Texts]]
  BY <1>1, FedIsText
<1>4. PICK g \in [0 .. Len(names) -> Texts] : Iterates(g, Len(names), <<>>, step)
  <2> HIDE DEF step
  <2> QED
    BY <1>1, <1>3, RecursionExists
<1>5. Is(g)
  <2>1. ASSUME NEW k \in 0 .. Len(names)
        PROVE  g[k] = IF k = 0 THEN <<>>
                      ELSE g[k - 1] \o Fed(names[k], values[names[k]])
    <3>1. CASE k = 0
      BY <1>1, <1>4, <3>1 DEF Iterates
    <3>2. CASE k # 0
      <4>1. k \in 1 .. Len(names) /\ k - 1 \in 0 .. Len(names)
        BY <1>1, <3>2
      <4>2. g[k - 1] \in Texts
        BY <4>1
      <4>3. g[k] = step[k][g[k - 1]]
        BY <1>4, <3>2 DEF Iterates
      <4> QED
        BY <3>2, <4>1, <4>2, <4>3
    <3> QED
      BY <3>1, <3>2
  <2> QED
    BY <1>4, <2>1 DEF Iterates
<1>6. Is(fed)
  <2> HIDE DEF Is
  <2> QED
    BY <1>2, <1>5
<1>7. fed[0] = <<>>
  BY <1>1, <1>6
<1>8. \A k \in 1 .. Len(names) : fed[k] = fed[k - 1] \o Fed(names[k], values[names[k]])
  BY <1>1, <1>6
<1>9. \A k \in Nat : k <= Len(names) => fed[k] \in Texts
  <2> DEFINE T == {k \in Nat : k <= Len(names) => fed[k] \in Texts}
  <2>1. 0 \in T
    BY <1>1, <1>7
  <2>2. ASSUME NEW k \in Nat, k \in T PROVE k + 1 \in T
    <3> SUFFICES ASSUME k + 1 <= Len(names) PROVE fed[k + 1] \in Texts
      OBVIOUS
    <3>1. fed[k] \in Texts /\ k + 1 \in 1 .. Len(names)
      BY <1>1, <2>2
    <3>2. fed[k + 1] = fed[k] \o Fed(names[k + 1], values[names[k + 1]])
      BY <1>8, <3>1
    <3> QED
      BY <1>1, <3>1, <3>2, FedIsText
  <2>3. Nat \subseteq T
    <3> HIDE DEF T
    <3> QED
      BY <2>1, <2>2, Induction
  <2> QED
    BY <2>3
<1>10. fed \in [0 .. Len(names) -> Texts]
  <2>1. fed = [k \in 0 .. Len(names) |-> fed[k]]
    BY <1>6
  <2> QED
    BY <1>1, <1>9, <2>1
<1> QED
  BY <1>7, <1>8, <1>10, Zenon DEF names, fed

LEMMA FedTerminated ==
  ASSUME NEW values, IsTextMap(values), NEW k \in 0 .. Len(Sorted(DOMAIN values))
  PROVE  Terminated(FedUpTo(values)[k])
<1> DEFINE names == Sorted(DOMAIN values)
           fed == FedUpTo(values)
<1>1. /\ Len(names) \in Nat
      /\ \A i \in 1 .. Len(names) : names[i] \in NulFree /\ values[names[i]] \in NulFree
  BY SortedNames DEF IsTextMap
<1>2. /\ fed \in [0 .. Len(names) -> Texts]
      /\ fed[0] = <<>>
      /\ \A i \in 1 .. Len(names) :
           fed[i] = fed[i - 1] \o Fed(names[i], values[names[i]])
  BY FedStep
<1> HIDE DEF names, fed
<1>3. CASE k = 0
  BY <1>2, <1>3 DEF Terminated, fed
<1>4. CASE k # 0
  <2>1. k \in 1 .. Len(names) /\ k - 1 \in 0 .. Len(names)
    BY <1>1, <1>4 DEF names
  <2>2. fed[k - 1] \in Texts /\ fed[k] = fed[k - 1] \o Fed(names[k], values[names[k]])
    BY <1>2, <2>1
  <2> DEFINE n == names[k]
             v == values[names[k]]
             x == ((fed[k - 1] \o n) \o <<0>>) \o v
  <2>3. n \in NulFree /\ v \in NulFree
    BY <1>1, <2>1
  <2>4. x \in Texts /\ fed[k] = x \o <<0>>
    <3> HIDE DEF n, v
    <3> QED
      BY <2>2, <2>3, FedIsText DEF n, v
  <2>5. Terminated(fed[k])
    BY <2>4 DEF Terminated
  <2> QED
    BY <2>5 DEF fed
<1> QED
  BY <1>3, <1>4

\* Equal bytes come from equal maps.
LEMMA HashedIsInjective ==
  ASSUME NEW d, NEW e, IsTextMap(d), IsTextMap(e), d = [n \in DOMAIN d |-> d[n]],
         e = [n \in DOMAIN e |-> e[n]], Hashed(d) = Hashed(e)
  PROVE  d = e
<1> DEFINE s == Sorted(DOMAIN d)
           t == Sorted(DOMAIN e)
           a == FedUpTo(d)
           b == FedUpTo(e)
           Same(k, m) == /\ k = m
                         /\ \A i \in 1 .. k : s[i] = t[i] /\ d[s[i]] = e[t[i]]
           T == {k \in Nat : k <= Len(s) =>
                   \A m \in 0 .. Len(t) : a[k] = b[m] => Same(k, m)}
<1>1. /\ Len(s) \in Nat
      /\ \A i \in 1 .. Len(s) : s[i] \in DOMAIN d
      /\ \A n \in DOMAIN d : \E i \in 1 .. Len(s) : s[i] = n
      /\ \A i \in 1 .. Len(s) : s[i] \in NulFree /\ d[s[i]] \in NulFree
  BY SortedNames DEF IsTextMap
<1>2. /\ Len(t) \in Nat
      /\ \A i \in 1 .. Len(t) : t[i] \in DOMAIN e
      /\ \A n \in DOMAIN e : \E i \in 1 .. Len(t) : t[i] = n
      /\ \A i \in 1 .. Len(t) : t[i] \in NulFree /\ e[t[i]] \in NulFree
  BY SortedNames DEF IsTextMap
<1>3. /\ a \in [0 .. Len(s) -> Texts]
      /\ a[0] = <<>>
      /\ \A i \in 1 .. Len(s) : a[i] = a[i - 1] \o Fed(s[i], d[s[i]])
  BY FedStep
<1>4. /\ b \in [0 .. Len(t) -> Texts]
      /\ b[0] = <<>>
      /\ \A i \in 1 .. Len(t) : b[i] = b[i - 1] \o Fed(t[i], e[t[i]])
  BY FedStep
<1>5. /\ \A i \in 0 .. Len(s) : Terminated(a[i])
      /\ \A i \in 0 .. Len(t) : Terminated(b[i])
  BY FedTerminated
<1>6. a[Len(s)] = b[Len(t)]
  BY HashedIsFed
<1> HIDE DEF s, t, a, b
<1>7. \A x \in Texts, n \in NulFree, v \in NulFree : x \o Fed(n, v) # <<>>
  <2> SUFFICES ASSUME NEW x \in Texts, NEW n \in NulFree, NEW v \in NulFree
               PROVE  x \o Fed(n, v) # <<>>
    OBVIOUS
  <2> DEFINE y == ((x \o n) \o <<0>>) \o v
  <2>1. y \in Texts /\ x \o Fed(n, v) = y \o <<0>>
    BY FedIsText
  <2> HIDE DEF y
  <2> QED
    BY <2>1, LenProperties DEF Texts
<1>8. 0 \in T
  <2> SUFFICES ASSUME NEW m \in 0 .. Len(t), a[0] = b[m] PROVE m = 0
    OBVIOUS
  <2> SUFFICES ASSUME m # 0 PROVE FALSE
    OBVIOUS
  <2>1. m \in 1 .. Len(t) /\ m - 1 \in 0 .. Len(t)
    BY <1>2
  <2>2. b[m] = b[m - 1] \o Fed(t[m], e[t[m]]) /\ b[m - 1] \in Texts
    BY <1>4, <2>1
  <2>3. t[m] \in NulFree /\ e[t[m]] \in NulFree
    BY <1>2, <2>1
  <2>4. b[m - 1] \o Fed(t[m], e[t[m]]) # <<>>
    BY <1>7, <2>2, <2>3
  <2> QED
    BY <1>3, <2>2, <2>4
<1>9. ASSUME NEW k \in Nat, k \in T PROVE k + 1 \in T
  <2> SUFFICES ASSUME k + 1 <= Len(s), NEW m \in 0 .. Len(t), a[k + 1] = b[m]
               PROVE  Same(k + 1, m)
    OBVIOUS
  <2> DEFINE l == k + 1
             n == m - 1
  <2>1. k \in 0 .. Len(s) /\ l \in 1 .. Len(s) /\ l - 1 = k
    BY <1>1
  <2>2. a[k] \in Texts /\ Terminated(a[k]) /\ s[l] \in NulFree /\ d[s[l]] \in NulFree
    BY <1>1, <1>3, <1>5, <2>1
  <2>3. a[l] = a[k] \o Fed(s[l], d[s[l]])
    BY <1>3, <2>1
  <2>4. m # 0
    BY <1>4, <1>7, <2>2, <2>3
  <2>6. n \in 0 .. Len(t) /\ m \in 1 .. Len(t)
    BY <1>2, <2>4
  <2>7. b[n] \in Texts /\ Terminated(b[n]) /\ t[m] \in NulFree /\ e[t[m]] \in NulFree
    BY <1>2, <1>4, <1>5, <2>6
  <2>8. b[m] = b[n] \o Fed(t[m], e[t[m]])
    BY <1>4, <2>6
  <2>9. a[k] = b[n] /\ s[l] = t[m] /\ d[s[l]] = e[t[m]]
    <3>1. FedAfter(a[k], s[l], d[s[l]]) = FedAfter(b[n], t[m], e[t[m]])
      BY <2>3, <2>8 DEF FedAfter
    <3> HIDE DEF l, n
    <3> QED
      BY <2>2, <2>7, <3>1, FedReadsBack
  <2>5. Same(k, m - 1)
    BY <1>9, <2>1, <2>6, <2>9
  <2> QED
    BY <2>6, <2>9, <2>5
<1>10. Nat \subseteq T
  <2> HIDE DEF T
  <2> QED
    BY <1>8, <1>9, Induction
<1>11. Len(s) \in T /\ Len(t) \in 0 .. Len(t)
  BY <1>1, <1>2, <1>10
<1>12. Same(Len(s), Len(t))
  BY <1>1, <1>6, <1>11
<1>13. DOMAIN d = DOMAIN e
  BY <1>1, <1>2, <1>12
<1>14. \A n \in DOMAIN d : d[n] = e[n]
  BY <1>1, <1>12
<1> QED
  BY <1>13, <1>14

-----------------------------------------------------------------------------
(* What Merge returns. *)

LEMMA NamesAreTexts == Names \subseteq NulFree /\ Values \subseteq NulFree
BY TextsAssumption DEF NulFree

LEMMA NoneDesired == EmptyMap \in DesiredValues /\ DOMAIN EmptyMap = {}
<1>1. {} \in {M \in SUBSET Names : IsFiniteSet(M)}
  BY FS_EmptySet
<1>2. EmptyMap \in [{} -> Values] /\ DOMAIN EmptyMap = {}
  BY DEF EmptyMap
<1> QED
  BY <1>1, <1>2 DEF DesiredValues

LEMMA DesiredFacts ==
  ASSUME NEW d \in DesiredValues
  PROVE  /\ DOMAIN d \in SUBSET Names
         /\ IsFiniteSet(DOMAIN d)
         /\ d = [n \in DOMAIN d |-> d[n]]
         /\ \A n \in DOMAIN d : d[n] \in Values
         /\ IsTextMap(d)
BY NamesAreTexts DEF DesiredValues, IsTextMap

LEMMA AppendedFacts ==
  ASSUME NEW d \in DesiredValues
  PROVE  /\ Appended(d) \in Seq(Entry)
         /\ NamesIn(Appended(d)) = DOMAIN d
         /\ AsMap(Appended(d)) = d
<1> DEFINE s == Sorted(DOMAIN d)
           list == Appended(d)
<1>1. /\ Len(s) \in Nat
      /\ \A i \in 1 .. Len(s) : s[i] \in DOMAIN d
      /\ \A n \in DOMAIN d : \E i \in 1 .. Len(s) : s[i] = n
  BY NamesAreTexts, DesiredFacts, SortedNames
<1>2. list = [i \in 1 .. Len(s) |-> [name |-> s[i], assigned |-> TRUE, value |-> d[s[i]]]]
  BY DEF Appended
<1> HIDE DEF s, list
<1>3. \A i \in 1 .. Len(s) :
        [name |-> s[i], assigned |-> TRUE, value |-> d[s[i]]] \in Entry
  BY <1>1, DesiredFacts DEF Entry
<1>4. list \in Seq(Entry)
  BY <1>1, <1>2, <1>3
<1>5. /\ DOMAIN list = 1 .. Len(s)
      /\ \A i \in 1 .. Len(s) : list[i].name = s[i] /\ list[i].value = d[s[i]]
  BY <1>2
<1>6. NamesIn(list) = DOMAIN d
  <2>1. NamesIn(list) = {list[i].name : i \in 1 .. Len(s)}
    BY <1>5 DEF NamesIn
  <2>2. \A n \in NamesIn(list) : n \in DOMAIN d
    BY <1>1, <1>5, <2>1
  <2>3. \A n \in DOMAIN d : n \in NamesIn(list)
    BY <1>1, <1>5, <2>1
  <2> QED
    BY <2>2, <2>3
<1>7. \A n \in DOMAIN d : list[LastOf(list, n)].value = d[n]
  <2> SUFFICES ASSUME NEW n \in DOMAIN d PROVE list[LastOf(list, n)].value = d[n]
    OBVIOUS
  <2>1. IsLast(list, n, LastOf(list, n))
    BY <1>4, <1>6, LastOfIsLast
  <2> QED
    BY <1>5, <2>1 DEF IsLast
<1>8. AsMap(list) = [n \in DOMAIN d |-> d[n]]
  BY <1>6, <1>7 DEF AsMap
<1> QED
  BY <1>4, <1>6, <1>8, DesiredFacts DEF list

LEMMA MergeFacts ==
  ASSUME NEW list \in Seq(Entry), NEW names, NEW d \in DesiredValues
  PROVE  /\ MergeEntries(list, names, d) \in Seq(Entry)
         /\ AsMap(MergeEntries(list, names, d)) = Merge(AsMap(list), names, d)
         /\ SameOthers(list, MergeEntries(list, names, d), names \cup DOMAIN d)
<1> DEFINE both == names \cup DOMAIN d
           kept == Without(list, both)
           more == Appended(d)
<1>1. MergeEntries(list, names, d) = kept \o more
  BY DEF MergeEntries, Kept
<1>2. more \in Seq(Entry) /\ NamesIn(more) = DOMAIN d /\ AsMap(more) = d
  BY AppendedFacts
<1>3. /\ kept \in Seq(Entry)
      /\ NamesIn(kept) = NamesIn(list) \ both
      /\ AsMap(kept) = [n \in NamesIn(list) \ both |-> AsMap(list)[n]]
  BY WithoutType, NamesOfWithout, AsMapOfWithout
<1>4. DOMAIN AsMap(list) = NamesIn(list)
  BY DEF AsMap
<1>5. SameOthers(list, kept \o more, both)
  BY <1>2, MergePairs
<1> HIDE DEF kept, more
<1>6. AsMap(kept \o more) = Overlaid(AsMap(kept), AsMap(more))
  BY <1>2, <1>3, AsMapOfConcat
<1>7. DOMAIN AsMap(kept) \cup DOMAIN AsMap(more) = (DOMAIN AsMap(list) \ names) \cup DOMAIN d
  BY <1>2, <1>3, <1>4
<1>8. AsMap(kept \o more) = Merge(AsMap(list), names, d)
  BY <1>2, <1>3, <1>4, <1>6, <1>7 DEF Merge, Overlaid
<1>9. kept \o more \in Seq(Entry)
  BY <1>2, <1>3, ConcatProperties
<1> QED
  BY <1>1, <1>5, <1>8, <1>9

\* Whatever list it is, injecting the same values again changes nothing.
LEMMA MergeIsIdempotent ==
  ASSUME NEW list \in Seq(Entry), NEW names, NEW d \in DesiredValues
  PROVE  LET once == MergeEntries(list, names, d)
         IN  MergeEntries(once, DOMAIN d, d) = once
<1> DEFINE kept == Without(list, names \cup DOMAIN d)
           more == Appended(d)
           once == MergeEntries(list, names, d)
<1>1. once = kept \o more
  BY DEF MergeEntries, Kept
<1>2. more \in Seq(Entry) /\ NamesIn(more) \subseteq DOMAIN d
  BY AppendedFacts
<1>3. kept \in Seq(Entry) /\ NamesIn(kept) \cap DOMAIN d = {}
  BY WithoutType, NamesOfWithout
<1>4. MergeEntries(once, DOMAIN d, d) = Without(once, DOMAIN d \cup DOMAIN d) \o more
  BY DEF MergeEntries, Kept
<1> HIDE DEF kept, more, once
<1>5. Without(kept \o more, DOMAIN d) = Without(kept, DOMAIN d)
  BY <1>2, <1>3, WithoutOfConcat
<1>6. Without(kept, DOMAIN d) = kept
  BY <1>3, WithoutKeepsAll
<1>7. DOMAIN d \cup DOMAIN d = DOMAIN d
  OBVIOUS
<1>8. MergeEntries(once, DOMAIN d, d) = once
  BY <1>1, <1>4, <1>5, <1>6, <1>7
<1> QED
  BY <1>8 DEF once

-----------------------------------------------------------------------------
(* The properties. *)

LEMMA TypeInit == Init => TypeOK
BY EmptySeq, FS_EmptySet DEF Init, TypeOK

LEMMA TypeStep == TypeOK /\ [Next]_vars => TypeOK'
<1> SUFFICES ASSUME TypeOK, [Next]_vars PROVE TypeOK'
  OBVIOUS
<1> USE DEF TypeOK
<1>1. CASE OperatorAdds
  BY <1>1, AppendProperties DEF OperatorAdds
<1>2. CASE OperatorDrops
  <2>1. PICK i \in 1 .. Len(entries) : entries' = S!RemoveAt(entries, i)
    BY <1>2 DEF OperatorDrops
  <2>2. Len(entries) \in Nat
    BY LenProperties
  <2>3. SubSeq(entries, 1, i - 1) \in Seq(Entry)
    BY <2>2, SubSeqProperties
  <2>4. SubSeq(entries, i + 1, Len(entries)) \in Seq(Entry)
    BY <2>2, SubSeqProperties
  <2>5. entries' \in Seq(Entry)
    BY <2>1, <2>3, <2>4, ConcatProperties DEF S!RemoveAt
  <2> QED
    BY <1>2, <2>5 DEF OperatorDrops
<1>3. CASE Inject
  <2>1. PICK d \in DesiredValues :
          entries' = MergeEntries(entries, managed, d) /\ managed' = DOMAIN d
    BY <1>3 DEF Inject
  <2>2. entries' \in Seq(Entry)
    BY <2>1, MergeFacts
  <2>3. managed' \in SUBSET Names /\ IsFiniteSet(managed')
    BY <2>1, DesiredFacts
  <2> QED
    BY <2>2, <2>3
<1>4. CASE Cleanup
  BY <1>4, NoneDesired, MergeFacts, FS_EmptySet DEF Cleanup, RemoveEntries
<1>5. CASE UNCHANGED vars
  BY <1>5 DEF vars
<1> QED
  BY <1>1, <1>2, <1>3, <1>4, <1>5 DEF Next

\* The list is one of entries, and the label names finitely many variables.
THEOREM ListTypeCorrect == Spec => []TypeOK
BY TypeInit, TypeStep, PTL DEF Spec

LEMMA TypeImpliesAgreement == TypeOK => AgreesWithMaps
<1> SUFFICES ASSUME TypeOK PROVE AgreesWithMaps
  OBVIOUS
<1> USE DEF TypeOK
<1>1. \A N \in SUBSET Names : SelectEntries(entries, N) = Select(AsMap(entries), N)
  <2> SUFFICES ASSUME NEW N \in SUBSET Names
               PROVE  SelectEntries(entries, N) = Select(AsMap(entries), N)
    OBVIOUS
  <2>1. N \cap DOMAIN AsMap(entries) = DOMAIN AsMap(entries) \cap N
    OBVIOUS
  <2> QED
    BY <2>1 DEF SelectEntries, Select
<1>2. \A N \in SUBSET Names :
        AsMap(RemoveEntries(entries, N)) = Remove(AsMap(entries), N)
  BY NoneDesired, MergeFacts DEF RemoveEntries, Remove
<1>3. \A d \in DesiredValues :
        AsMap(MergeEntries(entries, managed, d)) = Merge(AsMap(entries), managed, d)
  BY MergeFacts
<1> QED
  BY <1>1, <1>2, <1>3 DEF AgreesWithMaps

\* AsMap, Select, Merge and Remove of internal/environment compute on every
\* list what module Environment says of the maps: entries without "=",
\* duplicates and all.
THEOREM ListsAgreeWithMaps == Spec => []AgreesWithMaps
BY ListTypeCorrect, TypeImpliesAgreement, PTL

LEMMA TypeImpliesStable == TypeOK => InjectionIsStable
BY MergeIsIdempotent DEF TypeOK, InjectionIsStable

\* A second Merge of the same values returns the very same list, so that an
\* injected service sees no rolling update.
THEOREM SecondInjectionChangesNothing == Spec => []InjectionIsStable
BY ListTypeCorrect, TypeImpliesStable, PTL

LEMMA TypeImpliesApart == TypeOK => HashTellsApart
<1> SUFFICES ASSUME TypeOK, NEW d \in DesiredValues,
                    Hashed(d) = Hashed(SelectEntries(entries, managed))
             PROVE  d = SelectEntries(entries, managed)
  BY DEF HashTellsApart
<1> DEFINE now == SelectEntries(entries, managed)
<1>1. now = [n \in managed \cap NamesIn(entries) |-> AsMap(entries)[n]]
  BY DEF SelectEntries, AsMap
<1>2. managed \in SUBSET Names /\ IsFiniteSet(managed) /\ entries \in Seq(Entry)
  BY DEF TypeOK
<1>3. DOMAIN now = managed \cap NamesIn(entries)
  BY <1>1
<1>4. DOMAIN now \subseteq NulFree /\ IsFiniteSet(DOMAIN now)
  BY <1>2, <1>3, NamesAreTexts, FS_Subset
<1>5. ASSUME NEW n \in DOMAIN now PROVE now[n] \in NulFree
  <2> DEFINE i == LastOf(entries, n)
  <2>1. n \in NamesIn(entries) /\ now[n] = entries[i].value
    BY <1>1, <1>3 DEF AsMap
  <2>2. i \in DOMAIN entries
    BY <1>2, <2>1, LastOfIsLast DEF IsLast
  <2>3. entries[i] \in Entry
    BY <1>2, <2>2, ElementOfSeq, LenProperties
  <2>4. entries[i].value \in Values \cup {<<>>}
    BY <2>3 DEF Entry
  <2>5. <<>> \in NulFree
    BY EmptySeq DEF NulFree
  <2> QED
    BY <2>1, <2>4, <2>5, NamesAreTexts
<1>6. IsTextMap(now)
  BY <1>4, <1>5 DEF IsTextMap
<1>7. now = [n \in DOMAIN now |-> now[n]]
  BY <1>1
<1> HIDE DEF now
<1>8. Hashed(d) = Hashed(now)
  BY DEF now
<1>9. d = now
  BY <1>6, <1>7, <1>8, DesiredFacts, HashedIsInjective
<1> QED
  BY <1>9 DEF now

\* Different environments feed SHA-256 different bytes: equal state hashes
\* mean that every managed variable has the value that was injected.
THEOREM DigestsTellApart == Spec => []HashTellsApart
BY ListTypeCorrect, TypeImpliesApart, PTL

LEMMA EntriesKeptStep ==
  TypeOK /\ [Next]_vars =>
    [Inject \/ Cleanup => SameOthers(entries, entries', managed \cup managed')]_vars
<1> SUFFICES ASSUME TypeOK, Inject \/ Cleanup
             PROVE  SameOthers(entries, entries', managed \cup managed')
  OBVIOUS
<1> USE DEF TypeOK
<1>1. CASE Inject
  <2>1. PICK d \in DesiredValues :
          entries' = MergeEntries(entries, managed, d) /\ managed' = DOMAIN d
    BY <1>1 DEF Inject
  <2> QED
    BY <2>1, MergeFacts
<1>2. CASE Cleanup
  <2>1. entries' = MergeEntries(entries, managed, EmptyMap) /\ managed' = {}
    BY <1>2 DEF Cleanup, RemoveEntries
  <2>2. SameOthers(entries, MergeEntries(entries, managed, EmptyMap),
                   managed \cup DOMAIN EmptyMap)
    BY NoneDesired, MergeFacts
  <2>3. managed \cup DOMAIN EmptyMap = managed \cup managed'
    BY <2>1, NoneDesired
  <2> QED
    BY <2>1, <2>2, <2>3
<1> QED
  BY <1>1, <1>2

\* Entries of other names survive every injection and clean-up verbatim, in
\* their order, duplicates included, and nothing is added among them.
THEOREM OthersKept == Spec => OperatorsEntriesKept
BY ListTypeCorrect, EntriesKeptStep, PTL DEF Spec, OperatorsEntriesKept

=============================================================================
