----------------------------- MODULE MCReconcile -----------------------------
(***************************************************************************)
(* Instances of Reconcile for TLC.  Source 1 maps A explicitly from the    *)
(* document at "p"; source 2 imports the document at "q" automatically.    *)
(* Documents supply A, B, or something that cannot be injected, so that    *)
(* sources collide, lack a field and change the set of managed names.      *)
(***************************************************************************)
EXTENDS Reconcile, TLC

Text(v) == [kind |-> "string", text |-> v]
Null == [kind |-> "null", text |-> "x"]
DocA(v) == [n \in {"A"} |-> Text(v)]
DocAB == [n \in {"A", "B"} |-> Text("x")]
DocNull == [n \in {"B"} |-> Null]

Explicit == [name |-> "one", kv |-> "kv", path |-> "p",
             env |-> [n \in {"A"} |-> "A"], unknown |-> FALSE]
Automatic == [name |-> "two", kv |-> "kv", path |-> "q",
              env |-> EmptyMap, unknown |-> FALSE]
Renamed == [Explicit EXCEPT !.env = [n \in {"B"} |-> "A"]]

One(g) == [s \in {1} |-> g]
Both == [s \in {1, 2} |-> IF s = 1 THEN Renamed ELSE Automatic]
OneDocument == [Both EXCEPT ![2].path = "p"]

Labelled(enabled, gate, secrets) ==
  [enabled |-> enabled, gate |-> gate, secrets |-> secrets]
Stack(user, placement) ==
  [user |-> user, image |-> "v1", container |-> TRUE,
   env |-> [n \in {"C"} |-> "x"], placement |-> placement]

Gated(secrets) == Stack(Labelled("true", "true", secrets), {"gate", "zone"})
Ungated(secrets) == Stack(Labelled("true", "unset", secrets), {"zone"})
Off == Stack(Labelled("false", "unset", EmptyMap), {})
Untracked == Stack(Labelled("unset", "unset", EmptyMap), {})
Broken == Stack(Labelled("true", "unset", One([Explicit EXCEPT !.kv = Blank])), {})
NoContainer == [Ungated(One(Explicit)) EXCEPT !.container = FALSE, !.env = EmptyMap]

\* What the stack files hold.
GatedStacks == {Gated(One(Explicit)), Gated(Both)}
ConvergingStacks ==
  {[d EXCEPT !.env = EmptyMap] : d \in {Gated(OneDocument), Off}}
OneStack == {Ungated(One(Explicit))}
OperatorStacks == {Gated(One(Explicit)), Ungated(One(Renamed)), Off}
OddStacks == {Untracked, Broken, NoContainer,
              Stack(Labelled("true", "unset", One(Explicit)), {"gate"}),
              Stack(Labelled("unset", "unset", EmptyMap), {"gate"})}
AllStacks == OperatorStacks \cup OddStacks

\* What Vault holds.
TwoValues == {DocA("x"), DocA("y")}
Colliding == {DocA("x"), DocA("y"), DocAB}
WithBoth == {DocA("y"), DocAB}
WithNull == {DocA("x"), DocA("y"), DocNull}

\* The controllers are interchangeable in every safety property.
Replicas == Permutations(Controllers)

=============================================================================
