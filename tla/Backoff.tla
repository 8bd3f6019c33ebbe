------------------------------- MODULE Backoff -------------------------------
(***************************************************************************)
(* internal/retry: the delays between retries.  Used through INSTANCE by   *)
(* the components that retry.  Durations are naturals in some unit.        *)
(***************************************************************************)
EXTENDS Integers

CONSTANT Durations   \* the settings a Backoff may be created with

ASSUME BackoffAssumption == Durations \subseteq Nat \ {0}

VARIABLES
  initial, max,  \* Initial and Max, as NewBackoff leaves them
  current,       \* 0 until Next is called, and after Reset
  delay,         \* what the last call of Next returned; 0 before it
  ideal          \* history: initial, doubled by every Next until it passes max

vars == <<initial, max, current, delay, ideal>>

Base == IF current = 0 THEN initial ELSE current

\* Mutant: doubling without the cap.
GrownUncapped == Base * 2
Grown == IF Base >= max \div 2 THEN max ELSE Base * 2

JitterRange == Base \div 5

\* Mutant: the jitter is not capped.
JitteredUncapped(d) == d
Jittered(d) == IF JitterRange > 0 /\ d > max THEN max ELSE d

\* The two assignments of Next, without the history.
NextDelay ==
  /\ current' = Grown
  /\ \E d \in Base - JitterRange .. Base + JitterRange : delay' = Jittered(d)

-----------------------------------------------------------------------------
Next ==
  /\ NextDelay
  /\ ideal' = IF ideal < max THEN 2 * ideal ELSE ideal
  /\ UNCHANGED <<initial, max>>

Reset ==
  /\ current' = 0
  /\ ideal' = initial
  /\ UNCHANGED <<initial, max, delay>>

\* NewBackoff: a maximum below the initial delay is raised to it.
Init ==
  /\ initial \in Durations
  /\ \E m \in Durations : max = IF m < initial THEN initial ELSE m
  /\ current = 0
  /\ delay = 0
  /\ ideal = initial

Spec == Init /\ [][Next \/ Reset]_vars

-----------------------------------------------------------------------------
TypeOK ==
  /\ initial \in Durations /\ max \in Durations /\ initial <= max
  /\ current \in 0 .. max
  /\ delay \in 0 .. max
  /\ ideal \in Nat

\* The base of the next delay is the initial delay doubled once per retry,
\* until it reaches the maximum, where it stays; at an odd maximum it may get
\* there one unit early.
GrowsExponentially ==
  /\ ideal < max - 1 => Base = ideal
  /\ ideal >= max => Base = max

\* No delay exceeds the maximum, jitter included (README: "Maximum AppRole
\* retry delay, including jitter"), and none is zero or below four fifths of
\* its base: a retry loop never spins.
DelaysInRange ==
  [][Next => delay' \in 1 .. max /\ 5 * delay' >= 4 * Base]_vars

=============================================================================
