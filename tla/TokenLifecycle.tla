--------------------------- MODULE TokenLifecycle ----------------------------
(***************************************************************************)
(* internal/vaultclient: RunTokenLifecycle, the goroutine that keeps the   *)
(* AppRole token of the process valid, against a Vault that grants leases, *)
(* revokes tokens, rotates credentials and goes away.                      *)
(*                                                                         *)
(* Time is counted in thirds of a second, so that two thirds of a TTL in   *)
(* seconds is a whole number; instants are kept as countdowns.  A call     *)
(* takes up to Latency: Vault acts on it at one instant and its answer     *)
(* reaches the client at a later one.                                      *)
(***************************************************************************)
EXTENDS Naturals

CONSTANTS
  TTL,             \* what Vault grants for a login or a renewal, in seconds
  MaxTTLs,         \* the maximum lives a token may get, in seconds; 0: no maximum
  Renewable,       \* the kinds of token Vault may issue: a set of Booleans
  TokenCheckInterval, AuthRetryInterval, AuthRetryMaximum,
  Latency,         \* longest duration of a call to Vault, in thirds of a second
  MaxFaults        \* bound on what goes wrong

ASSUME TokenAssumption ==
  /\ TTL \in Nat \ {0} /\ MaxTTLs \subseteq Nat /\ Latency \in Nat /\ MaxFaults \in Nat
  /\ Renewable \subseteq BOOLEAN
  /\ TokenCheckInterval \in Nat \ {0}
  /\ AuthRetryInterval \in Nat \ {0}
  /\ AuthRetryMaximum \in Nat /\ AuthRetryMaximum >= AuthRetryInterval

VARIABLES
  pc,            \* where the goroutine is
  wait,          \* what is left of the wait it is in
  lease,         \* c.lease: renewable, and the time until renewAt (0: past)
  backoff,       \* current of the backoff of reauthenticateUntilSuccess
  sent,          \* the credential the login under way was made with
  age, reply,    \* the call under way: how long ago it was made, its answer
  token, fresh,  \* Vault's view: the client's token, the one a login answers with
  up,            \* Vault can be reached
  role, file,    \* the credential Vault accepts, the one in the files (0: none)
  cancelled, faults,
  calls,         \* history: calls made since the last tick, counted up to MaxCalls
  invalidFor     \* history: how long the token has been invalid with Vault up and
                 \* the right credential in the files, counted up to TooLong

client == <<pc, wait, lease, backoff, sent>>
world == <<up, role, file, cancelled>>
history == <<calls, invalidFor>>
vars == <<pc, wait, lease, backoff, sent, age, reply, token, fresh, up, role, file,
          cancelled, faults, calls, invalidFor>>

Retry == INSTANCE Backoff
           WITH initial <- AuthRetryInterval, max <- AuthRetryMaximum,
                current <- backoff, delay <- wait, ideal <- 0,
                Durations <- {AuthRetryInterval, AuthRetryMaximum}

Second == 3
Lesser(m, n) == IF m < n THEN m ELSE n

\* Bounds of the two histories.  A recovery waits for a check under way, one check
\* interval, the check and the login; or for a login under way, the longest retry
\* delay and the next login.
MaxCalls == 4
TooLong ==
  LET byCheck == TokenCheckInterval + 3 * Latency
      byRetry == AuthRetryMaximum + 2 * Latency
  IN  1 + IF byCheck > byRetry THEN byCheck ELSE byRetry

\* A countdown stops at zero: a renewal that is overdue is due now.  Mutant: it
\* goes on below.
LessUnclamped(n) == n - 1
Less(n) == IF n = 0 THEN 0 ELSE n - 1

Pending == [is |-> "pending", ttl |-> 0, renewable |-> FALSE]
Refused == [is |-> "error", ttl |-> 0, renewable |-> FALSE]
Answer(ttl, renewable) == [is |-> "ok", ttl |-> ttl, renewable |-> renewable]

-----------------------------------------------------------------------------
\* Vault.  A token lives for left, and if it is capped never longer than cap; TTLs
\* are told in whole seconds.
Valid(t) == t.left > 0
Granted(t) == IF t.capped THEN Lesser(TTL * Second, t.cap) ELSE TTL * Second
NewToken(r, m) ==
  [left |-> (IF m = 0 THEN TTL ELSE Lesser(TTL, m)) * Second,
   cap |-> m * Second, capped |-> m # 0, renewable |-> r]
Told(t) == Answer(t.left \div Second, t.renewable)
Older(t) ==
  [left |-> Less(t.left), cap |-> Less(t.cap), capped |-> t.capped,
   renewable |-> t.renewable]
Since(n, a) == IF a < n THEN n - a ELSE 0

VaultLookup ==
  /\ pc = "lookup"
  /\ reply' = IF Valid(token) THEN Told(token) ELSE Refused
  /\ UNCHANGED <<token, fresh>>

VaultRenew ==
  /\ pc = "renew"
  /\ IF Valid(token) /\ token.renewable
     THEN /\ token' = [token EXCEPT !.left = Granted(token)]
          /\ reply' = Told(token')
     ELSE reply' = Refused /\ UNCHANGED token
  /\ UNCHANGED fresh

VaultLogin ==
  /\ pc = "login"
  /\ IF sent = role
     THEN /\ \E r \in Renewable, m \in MaxTTLs : fresh' = NewToken(r, m)
          /\ reply' = Told(fresh')
     ELSE reply' = Refused /\ UNCHANGED fresh
  /\ UNCHANGED token

VaultAnswers ==
  /\ reply = Pending
  /\ up
  /\ VaultLookup \/ VaultRenew \/ VaultLogin
  /\ UNCHANGED <<client, age, world, faults, history>>

CallFails ==
  /\ pc \in {"lookup", "renew", "login"}
  /\ reply = Pending
  /\ ~up \/ cancelled
  /\ reply' = Refused
  /\ UNCHANGED <<client, age, token, fresh, world, faults, history>>

-----------------------------------------------------------------------------
\* The goroutine.
Call(operation) ==
  /\ pc' = operation
  /\ age' = 0
  /\ reply' = Pending
  /\ calls' = Lesser(calls + 1, MaxCalls)

Step == UNCHANGED <<token, fresh, world, faults, invalidFor>>
NoCall == UNCHANGED <<age, reply, calls>>

\* leaseFromTTL, for a TTL above zero: two thirds of it.  Mutant: renewal is due
\* when the token expires.
LeaseToTheEnd(a) == [renewable |-> a.renewable, renewIn |-> a.ttl * Second]
LeaseFrom(a) == [renewable |-> a.renewable, renewIn |-> a.ttl * 2]

\* An answer with a TTL of zero is an error, for all three calls.
Usable(a) == a.is = "ok" /\ a.ttl > 0

\* The wait at the top of the loop.  Mutant: nothing is checked before the
\* renewal is due.
UntilRenewal == lease.renewIn
UntilNextCheck == Lesser(TokenCheckInterval, lease.renewIn)

LoopTop ==
  /\ pc = "loop"
  /\ IF cancelled
     THEN pc' = "stopped" /\ UNCHANGED wait
     ELSE pc' = "sleep" /\ wait' = UntilNextCheck
  /\ UNCHANGED <<lease, backoff, sent>>
  /\ NoCall /\ Step

Awake ==
  /\ pc = "sleep"
  /\ wait = 0
  /\ Call("lookup")
  /\ UNCHANGED <<wait, lease, backoff, sent>>
  /\ Step

\* reauthenticateUntilSuccess is called, with a new backoff.
Reauthenticate == pc' = "credential" /\ backoff' = 0

LookupReturns ==
  /\ pc = "lookup"
  /\ reply # Pending
  /\ IF Usable(reply)
     THEN LET sooner == Lesser(lease.renewIn, LeaseFrom(reply).renewIn)
          IN  /\ lease' = [renewable |-> reply.renewable, renewIn |-> sooner]
              /\ \/ sooner > 0 /\ pc' = "loop" /\ NoCall /\ UNCHANGED backoff
                 \/ sooner = 0 /\ ~reply.renewable /\ Reauthenticate /\ NoCall
                 \/ sooner = 0 /\ reply.renewable /\ Call("renew") /\ UNCHANGED backoff
     ELSE Reauthenticate /\ NoCall /\ UNCHANGED lease
  /\ UNCHANGED <<wait, sent>>
  /\ Step

\* Mutant: the lease of a renewal is not kept.
ForgetLease(a) == UNCHANGED lease
KeepLease(a) == lease' = LeaseFrom(a)

RenewReturns ==
  /\ pc = "renew"
  /\ reply # Pending
  /\ IF Usable(reply)
     THEN KeepLease(reply) /\ pc' = "loop" /\ UNCHANGED backoff
     ELSE Reauthenticate /\ UNCHANGED lease
  /\ UNCHANGED <<wait, sent>>
  /\ NoCall /\ Step

\* What readCredential reads now.  Mutant: the credential of the first login.
FirstCredential == 1
Credential == file

RetryLater == Retry!NextDelay /\ pc' = "retry"

\* The head of the retry loop, and loginAppRole up to the call.  Mutant: the
\* loop does not look at the context.
TryLoginRegardless ==
  /\ pc = "credential"
  /\ IF Credential = 0
     THEN RetryLater /\ NoCall /\ UNCHANGED sent
     ELSE sent' = Credential /\ Call("login") /\ UNCHANGED <<wait, backoff>>
  /\ UNCHANGED lease
  /\ Step

TryLogin ==
  /\ pc = "credential"
  /\ \/ cancelled /\ pc' = "stopped" /\ NoCall /\ UNCHANGED <<wait, backoff, sent>>
     \/ ~cancelled /\ Credential = 0 /\ RetryLater /\ NoCall /\ UNCHANGED sent
     \/ /\ ~cancelled /\ Credential # 0
        /\ sent' = Credential
        /\ Call("login")
        /\ UNCHANGED <<wait, backoff>>
  /\ UNCHANGED lease
  /\ Step

LoginReturns ==
  /\ pc = "login"
  /\ reply # Pending
  /\ IF Usable(reply)
     THEN /\ token' = fresh
          /\ lease' = LeaseFrom(reply)
          /\ pc' = "loop"
          /\ UNCHANGED <<wait, backoff>>
     ELSE RetryLater /\ UNCHANGED <<token, lease>>
  /\ NoCall
  /\ UNCHANGED <<sent, fresh, world, faults, invalidFor>>

Retried ==
  /\ pc = "retry"
  /\ wait = 0
  /\ pc' = "credential"
  /\ UNCHANGED <<wait, lease, backoff, sent>>
  /\ NoCall /\ Step

\* waitForContext gives up, in either wait.
StopWaiting ==
  /\ pc \in {"sleep", "retry"}
  /\ cancelled
  /\ pc' = "stopped"
  /\ UNCHANGED <<wait, lease, backoff, sent>>
  /\ NoCall /\ Step

-----------------------------------------------------------------------------
\* A third of a second goes by, in a wait or in a call.
Tick ==
  /\ \/ pc \in {"sleep", "retry"} /\ wait > 0
     \/ pc \in {"lookup", "renew", "login"} /\ age < Latency
  /\ wait' = Less(wait)
  /\ age' = IF age < Latency THEN age + 1 ELSE age
  /\ lease' = [lease EXCEPT !.renewIn = Less(@)]
  /\ token' = Older(token)
  /\ fresh' = Older(fresh)
  /\ calls' = 0
  /\ invalidFor' = IF up /\ file = role /\ ~cancelled /\ ~Valid(token)
                   THEN Lesser(invalidFor + 1, TooLong) ELSE 0
  /\ UNCHANGED <<pc, backoff, sent, reply, world, faults>>

\* What goes wrong; invalidFor starts again.
Fault ==
  /\ faults < MaxFaults
  /\ faults' = faults + 1
  /\ invalidFor' = 0
  /\ UNCHANGED <<client, age, calls>>

VaultDown ==
  /\ Fault /\ up /\ up' = FALSE
  /\ UNCHANGED <<reply, token, fresh, role, file, cancelled>>

Revoke ==
  /\ Fault
  /\ \/ token' = [token EXCEPT !.left = 0] /\ UNCHANGED fresh
     \/ fresh' = [fresh EXCEPT !.left = 0] /\ UNCHANGED token
  /\ UNCHANGED <<reply, world>>

LoseAnswer ==
  /\ Fault
  /\ pc \in {"lookup", "renew", "login"} /\ reply.is = "ok"
  /\ reply' = Refused
  /\ UNCHANGED <<token, fresh, world>>

\* The credential is replaced in Vault, and only later in the files.
RotateRole ==
  /\ Fault /\ role' = role + 1
  /\ UNCHANGED <<reply, token, fresh, up, file, cancelled>>

\* The files are empty or missing for a moment.
EmptyFiles ==
  /\ Fault /\ file' = 0
  /\ UNCHANGED <<reply, token, fresh, up, role, cancelled>>

Cancel ==
  /\ Fault /\ ~cancelled /\ cancelled' = TRUE
  /\ UNCHANGED <<reply, token, fresh, up, role, file>>

\* What is put right again.
VaultUp ==
  /\ ~up /\ up' = TRUE
  /\ UNCHANGED <<client, age, reply, token, fresh, role, file, cancelled, faults, history>>

WriteFiles ==
  /\ file # role /\ file' = role
  /\ UNCHANGED <<client, age, reply, token, fresh, up, role, cancelled, faults, history>>

-----------------------------------------------------------------------------
\* Authenticate has logged in; its call took some time as well.
Init ==
  /\ pc = "loop" /\ wait = 0 /\ backoff = 0 /\ sent = 1
  /\ \E r \in Renewable, m \in MaxTTLs, a \in 0 .. Latency :
       /\ fresh = NewToken(r, m)
       /\ token = [fresh EXCEPT !.left = Since(@, a), !.cap = Since(@, a)]
       /\ lease = LeaseFrom(Told(fresh))
  /\ age = 0 /\ reply = Refused
  /\ up = TRUE /\ role = 1 /\ file = 1 /\ cancelled = FALSE
  /\ faults = 0 /\ calls = 0 /\ invalidFor = 0

Goroutine == LoopTop \/ Awake \/ LookupReturns \/ RenewReturns \/ TryLogin
             \/ LoginReturns \/ Retried \/ StopWaiting
Faults == VaultDown \/ Revoke \/ LoseAnswer \/ RotateRole \/ EmptyFiles \/ Cancel

Next == Goroutine \/ VaultAnswers \/ CallFails \/ Tick \/ Faults \/ VaultUp
        \/ WriteFiles

Spec == Init /\ [][Next]_vars

\* The goroutine runs, time goes on, Vault answers within Latency, comes back,
\* and the operators complete a rotation.
Fairness ==
  /\ WF_vars(Goroutine)
  /\ WF_vars(VaultAnswers \/ CallFails)
  /\ WF_vars(Tick)
  /\ WF_vars(VaultUp)
  /\ WF_vars(WriteFiles)

FairSpec == Spec /\ Fairness

-----------------------------------------------------------------------------
TypeOK ==
  /\ pc \in {"loop", "sleep", "lookup", "renew", "credential", "login", "retry",
             "stopped"}
  /\ wait \in Nat /\ age \in 0 .. Latency /\ calls \in 0 .. MaxCalls
  /\ invalidFor \in 0 .. TooLong
  /\ lease \in [renewable: BOOLEAN, renewIn: Nat]
  /\ backoff \in 0 .. AuthRetryMaximum
  /\ reply \in [is: {"pending", "ok", "error"}, ttl: Nat, renewable: BOOLEAN]
  /\ token \in [left: Nat, cap: Nat, capped: BOOLEAN, renewable: BOOLEAN]
  /\ fresh \in [left: Nat, cap: Nat, capped: BOOLEAN, renewable: BOOLEAN]
  /\ up \in BOOLEAN /\ cancelled \in BOOLEAN
  /\ role \in Nat /\ file \in Nat /\ sent \in Nat
  /\ faults \in 0 .. MaxFaults

\* While nothing goes wrong the token the client uses, renewable or not, is valid at
\* every instant, if its life is not capped: a third of the TTL covers the login or
\* renewal that granted it, the lookup and the renewal or login that follow.  A third
\* of TTL seconds is TTL ticks; so the TTL is above nine times the latency.
LongEnough == TTL > 3 * Latency
KeepsToken == LongEnough /\ faults = 0 /\ ~token.capped => Valid(token)

\* A token found invalid (revoked, expired at its maximum life, or lost while
\* Vault was away) is replaced promptly once Vault answers and the files hold the
\* right credential.  (Where a new token dies before the answer of its login comes,
\* it does not hold; TokenLifecycleProofs states how long it must live.)
PromptRecovery == invalidFor < TooLong

\* The loop never spins: whatever TTLs Vault answers with, at most a lookup, a
\* renewal and a login start at one instant.
NoSpin == calls < MaxCalls

\* However the token was lost, there is one again.
Recovers == []<>(cancelled \/ Valid(token))

\* Once cancelled, the goroutine ends wherever it is.
ShutsDown == cancelled ~> pc = "stopped"

=============================================================================
