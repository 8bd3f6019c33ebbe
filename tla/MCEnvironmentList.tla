-------------------------- MODULE MCEnvironmentList --------------------------
(***************************************************************************)
(* EnvironmentList for TLC.  One name is a prefix of another, and values   *)
(* complete one name to the other.                                         *)
(***************************************************************************)
EXTENDS EnvironmentList

EnvNames == {<<1>>, <<1, 2>>, <<2>>}
Texts == {<<>>, <<2>>}

=============================================================================
