----------------------------- MODULE Environment -----------------------------
(***************************************************************************)
(* internal/environment, on the meaning of an environment list: the map    *)
(* from names to values that AsMap reads from it.  EnvironmentList models  *)
(* the functions on the lists themselves and checks that they agree with   *)
(* the ones below.                                                         *)
(***************************************************************************)
EXTENDS Labels

\* The requested variables that are present.
Select(env, names) == [n \in DOMAIN env \cap names |-> env[n]]

\* Mutant: the desired variables replace the whole environment.
MergeReplacing(env, previouslyManaged, desired) == desired

\* Drop every previously managed name, then set every desired one.
Merge(env, previouslyManaged, desired) ==
  [n \in (DOMAIN env \ previouslyManaged) \cup DOMAIN desired |->
     IF n \in DOMAIN desired THEN desired[n] ELSE env[n]]

Remove(env, names) == Merge(env, names, EmptyMap)

\* The digest stored in the state-hash label.
Hash(values) == [sha256 |-> values]

=============================================================================
