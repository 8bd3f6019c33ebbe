----------------------------- MODULE AtomicFile ------------------------------
(***************************************************************************)
(* What the comment on Store in internal/status promises to a status or    *)
(* health command that runs beside the controller: "either the previous    *)
(* complete file or the next complete file, never partial JSON".  The file *)
(* is a single register: it is replaced in one step by a later snapshot,   *)
(* and a command sees it at one instant.                                   *)
(***************************************************************************)
EXTENDS Naturals

CONSTANT Readers

VARIABLES
  file,   \* what is at the path: the time of its snapshot (0: there is no file), what
          \* the snapshot holds and whether it is whole
  seen    \* what each reader saw last

vars == <<file, seen>>

NoFile == [snapshot |-> 0, holds |-> {}, whole |-> TRUE]

Init ==
  /\ file = NoFile
  /\ seen = [r \in Readers |-> NoFile]

Replace ==
  /\ file'.whole
  /\ file'.snapshot > file.snapshot
  /\ UNCHANGED seen

See ==
  /\ \E r \in Readers : seen' = [seen EXCEPT ![r] = file]
  /\ UNCHANGED file

Spec == Init /\ [][Replace \/ See]_vars

=============================================================================
