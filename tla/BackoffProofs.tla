---------------------------- MODULE BackoffProofs ----------------------------
(***************************************************************************)
(* The bounds of the retry delays, for all settings.                       *)
(***************************************************************************)
EXTENDS Backoff, TLAPS

\* What is inductive: the types, the growth, and where the base may be when the
\* doubled delay is just below the maximum.
Inv ==
  /\ TypeOK
  /\ ideal >= 1
  /\ ideal = max - 1 => Base \in {max - 1, max}
  /\ GrowsExponentially

LEMMA Halves ==
  ASSUME NEW n \in Nat
  PROVE  /\ n \div 2 \in Nat /\ 2 * (n \div 2) \in {n - 1, n}
         /\ n \div 5 \in Nat /\ 5 * (n \div 5) <= n
  BY SMT

\* A base between the initial delay and the maximum stays there, and so does each
\* delay.
LEMMA BaseInRange ==
  ASSUME TypeOK
  PROVE  Base \in Nat /\ 1 <= Base /\ Base <= max /\ max \in Nat /\ initial \in Nat
  BY BackoffAssumption DEF TypeOK, Base

LEMMA DelayInRange ==
  ASSUME TypeOK, NextDelay
  PROVE  delay' \in Nat /\ 1 <= delay' /\ delay' <= max /\ 5 * delay' >= 4 * Base
<1>1. PICK d \in Base - JitterRange .. Base + JitterRange : delay' = Jittered(d)
  BY DEF NextDelay
<1>2. Base \in Nat /\ 1 <= Base /\ Base <= max /\ max \in Nat
  BY BaseInRange
<1>3. JitterRange \in Nat /\ 5 * JitterRange <= Base
  BY <1>2, Halves DEF JitterRange
<1> HIDE DEF Base, JitterRange
<1>4. d \in Int /\ d >= Base - JitterRange /\ d <= Base + JitterRange
  BY <1>2, <1>3
<1>5. CASE JitterRange > 0 /\ d > max
  BY <1>1, <1>2, <1>5 DEF Jittered
<1>6. CASE ~(JitterRange > 0 /\ d > max)
  <2>1. delay' = d
    BY <1>1, <1>6 DEF Jittered
  <2> QED
    BY <2>1, <1>2, <1>3, <1>4, <1>6
<1> QED
  BY <1>5, <1>6

LEMMA NextKeeps == Inv /\ Next => Inv'
<1> SUFFICES ASSUME Inv, Next PROVE Inv'
  OBVIOUS
<1>1. Base \in Nat /\ 1 <= Base /\ Base <= max /\ max \in Nat /\ initial \in Nat
  BY BaseInRange DEF Inv
<1>2. max \div 2 \in Nat /\ 2 * (max \div 2) \in {max - 1, max}
  BY <1>1, Halves
<1>3. current' = IF Base >= max \div 2 THEN max ELSE Base * 2
  BY DEF Next, NextDelay, Grown
<1>4. ideal' = IF ideal < max THEN 2 * ideal ELSE ideal
  BY DEF Next
<1>5. ideal \in Nat /\ ideal >= 1 /\ initial' = initial /\ max' = max
  BY DEF Inv, TypeOK, Next
<1>6. current' \in Nat /\ 1 <= current' /\ current' <= max /\ Base' = current'
  <2> HIDE DEF Base
  <2>1. current' \in Nat /\ 1 <= current' /\ current' <= max
    BY <1>1, <1>2, <1>3
  <2> QED
    BY <2>1 DEF Base
<1>7. TypeOK'
  <2>1. delay' \in 0 .. max'
    BY DelayInRange, <1>1, <1>5 DEF Inv, Next
  <2> QED
    BY <2>1, <1>1, <1>4, <1>5, <1>6 DEF Inv, TypeOK
<1>8. /\ ideal < max - 1 => Base = ideal
      /\ ideal >= max => Base = max
      /\ ideal = max - 1 => Base \in {max - 1, max}
  BY DEF Inv, GrowsExponentially
<1> HIDE DEF Base
<1>9. /\ ideal' < max - 1 => current' = ideal'
      /\ ideal' >= max => current' = max
      /\ ideal' = max - 1 => current' \in {max - 1, max}
  BY <1>1, <1>2, <1>3, <1>4, <1>5, <1>8
<1> QED
  BY <1>4, <1>5, <1>6, <1>7, <1>9 DEF Inv, GrowsExponentially

LEMMA ResetKeeps == Inv /\ Reset => Inv'
  BY BackoffAssumption DEF Inv, Reset, TypeOK, GrowsExponentially, Base

LEMMA InitHolds == Init => Inv
  BY BackoffAssumption DEF Init, Inv, TypeOK, GrowsExponentially, Base

LEMMA Invariant == Spec => []Inv
<1>1. Inv /\ UNCHANGED vars => Inv'
  BY DEF Inv, TypeOK, GrowsExponentially, Base, vars
<1> QED
  BY <1>1, InitHolds, NextKeeps, ResetKeeps, PTL DEF Spec

\* The state of a Backoff stays within its settings, for all settings.
THEOREM TypeCorrect == Spec => []TypeOK
<1>1. Inv => TypeOK
  BY DEF Inv
<1> QED
  BY <1>1, Invariant, PTL

\* The delays double up to the maximum and stay there, for all settings.
THEOREM Growth == Spec => []GrowsExponentially
<1>1. Inv => GrowsExponentially
  BY DEF Inv
<1> QED
  BY <1>1, Invariant, PTL

\* No delay is zero, exceeds the maximum or is shorter than four fifths of its
\* base, for all settings.
THEOREM Delays == Spec => DelaysInRange
<1>1. Inv /\ [Next \/ Reset]_vars =>
        [Next => delay' \in 1 .. max /\ 5 * delay' >= 4 * Base]_vars
  <2> SUFFICES ASSUME Inv, Next
               PROVE  delay' \in 1 .. max /\ 5 * delay' >= 4 * Base
    OBVIOUS
  <2>1. max \in Nat
    BY BaseInRange DEF Inv
  <2> QED
    BY <2>1, DelayInRange DEF Inv, Next
<1> QED
  BY <1>1, Invariant, PTL DEF Spec, DelaysInRange

=============================================================================
