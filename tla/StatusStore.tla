----------------------------- MODULE StatusStore -----------------------------
(***************************************************************************)
(* internal/status: the view of one service that the controller publishes. *)
(*                                                                         *)
(* A timestamp is stood for by the version index of the service the        *)
(* attempt reports on: versions only grow, and two attempts that report on *)
(* the same version saw the same service.  Error texts are left out.       *)
(***************************************************************************)
EXTENDS Labels

CONSTANT NoStatus   \* the store has no entry for the service; no success yet

ASSUME StatusStoreAssumption == NoStatus \notin Nat

\* What ReconcileService hands to Record.  warnings holds the version index of
\* the update Docker warned about, 0 when there is none.
IsReport(r) ==
  /\ r \in [state: {"ready", "disabled", "error"},
            gate: {"-", "closed", "open", "missing"},
            sources: SUBSET Sources, names: SUBSET Names,
            versions: {r.versions}, warnings: Nat, updateAttempted: BOOLEAN]
  /\ IsMap(r.versions, Sources, Nat)

IsEntry(e) ==
  /\ e \in [report: {e.report}, lastAttempt: Nat, lastSuccess: Nat \cup {NoStatus}]
  /\ IsReport(e.report)

\* Mutant: a failed attempt forgets the last success.
RecordForgetting(previous, report, successful, now) ==
  [report |-> IF previous # NoStatus /\ ~report.updateAttempted
              THEN [report EXCEPT !.warnings = previous.report.warnings]
              ELSE report,
   lastAttempt |-> now,
   lastSuccess |-> IF successful THEN now ELSE NoStatus]

\* Record, over the previous entry (or NoStatus), at time now.
Record(previous, report, successful, now) ==
  [report |-> IF previous # NoStatus /\ ~report.updateAttempted
              THEN [report EXCEPT !.warnings = previous.report.warnings]
              ELSE report,
   lastAttempt |-> now,
   lastSuccess |-> IF successful THEN now
                   ELSE IF previous # NoStatus THEN previous.lastSuccess
                   ELSE NoStatus]

=============================================================================
