------------------------------ MODULE MCProcess ------------------------------
(***************************************************************************)
(* Settings for Process: good ones around the limits of the health check,  *)
(* and ones that Load or Authenticate refuses.                             *)
(***************************************************************************)
EXTENDS Process

Good(poll, timeout, maxAge) ==
  [parses |-> TRUE, poll |-> poll, timeout |-> timeout,
   eventRetry |-> 1, eventRetryMax |-> 1,
   maxAge |-> maxAge, tokenCheck |-> 1, authRetry |-> 2, authRetryMax |-> 5,
   method |-> "approle", authPath |-> "mount"]

Timings == {Good(p, t, a) : p \in {1, 3}, t \in 1 .. 3, a \in 5 .. 6}

Refused ==
  LET g == Good(3, 2, 6)
  IN  {[g EXCEPT !.parses = FALSE], [g EXCEPT !.authPath = "blank"],
       [g EXCEPT !.method = "other"],
       [g EXCEPT !.authRetryMax = 1], [g EXCEPT !.eventRetry = 2],
       [g EXCEPT !.poll = 0], [g EXCEPT !.timeout = -1], [g EXCEPT !.maxAge = 0]}

Special ==
  LET g == Good(3, 2, 6)
  IN  {[g EXCEPT !.authPath = "malformed"],
       [g EXCEPT !.method = "token", !.authPath = "blank"]}

AllSettings == Timings \cup Refused \cup Special
DocumentedSettings == {Good(4, 3, 6), Good(1, 4, 6)}

=============================================================================
