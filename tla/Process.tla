------------------------------ MODULE Process --------------------------------
(***************************************************************************)
(* cmd/docker-vault-injector: from the settings through the first          *)
(* authentication into the controller's loop, and what the health command  *)
(* says meanwhile.  This module is about time: how long a step may take    *)
(* and which steps touch the heartbeat.  What the passes and events do is  *)
(* the subject of EventLoop and Reconcile.                                 *)
(***************************************************************************)
EXTENDS Integers

CONSTANTS
  Configurations,  \* what the environment variables may hold
  LoginTimeout,    \* longest duration of the authentication call (Vault client)
  MaxServices,     \* bound on the services of a listing
  MaxFaults        \* bound on failed writes, Vault outages, lost credentials, signals

ASSUME ProcessAssumption ==
  /\ LoginTimeout \in Nat /\ MaxServices \in Nat /\ MaxFaults \in Nat
  /\ \A c \in Configurations :
       c \in [parses: BOOLEAN,   \* each variable that is set can be parsed
              poll: Int, timeout: Int, eventRetry: Int, eventRetryMax: Int,
              maxAge: Int, tokenCheck: Int, authRetry: Int, authRetryMax: Int,
              method: {"approle", "token", "other"},
              authPath: {"blank", "malformed", "mount"}]

VARIABLES
  config,
  pc,
  store,         \* "none", "open", "faulty" (a write has failed) or "nil"
  age,           \* how long the call under way has taken
  wait, backoff, \* of authenticateVaultUntilSuccess
  todo,          \* services of the pass still to reconcile
  tickIn,        \* time until the ticker fires; 0: no ticker yet
  tickDue,       \* its channel holds a tick
  beatAge,       \* age of the heartbeat in the status file
  up,            \* Vault can be reached
  accepted,      \* the credentials can be read, and Vault accepts them
  cancelled, faults

vars == <<config, pc, store, age, wait, backoff, todo, tickIn, tickDue, beatAge, up,
          accepted, cancelled, faults>>
ticker == <<tickIn, tickDue>>
retrying == <<wait, backoff>>
world == <<config, up, accepted, cancelled>>
controller == <<pc, store, age, wait, backoff, todo, tickIn, tickDue, beatAge>>

Retry == INSTANCE Backoff
           WITH initial <- config.authRetry, max <- config.authRetryMax,
                current <- backoff, delay <- wait, ideal <- 0,
                Durations <- Nat \ {0}

Fault == faults < MaxFaults /\ faults' = faults + 1

-----------------------------------------------------------------------------
\* config.Load accepts the settings.  Mutant: durations are not looked at.
LoadAnything(c) == c.method \in {"approle", "token"}
Load(c) ==
  /\ c.parses
  /\ \A d \in {c.poll, c.timeout, c.eventRetry, c.eventRetryMax, c.maxAge,
               c.tokenCheck, c.authRetry, c.authRetryMax} : d > 0
  /\ c.eventRetryMax >= c.eventRetry
  /\ c.authRetryMax >= c.authRetry
  /\ c.method \in {"approle", "token"}
  /\ c.method = "approle" => c.authPath # "blank"

\* Authenticate refuses the mount path before it calls Vault.
PathRefused == config.method = "approle" /\ config.authPath # "mount"

\* touchStatus, Record and Prune of an open store; a write may fail.
Touch ==
  \/ store \in {"open", "faulty"} /\ beatAge' = 0 /\ UNCHANGED <<store, faults>>
  \/ store \in {"open", "faulty"} /\ Fault /\ store' = "faulty" /\ UNCHANGED beatAge
  \/ store = "nil" /\ UNCHANGED <<store, beatAge, faults>>
NoTouch == UNCHANGED <<store, beatAge, faults>>

\* The health command, on the file the process writes; there is none without a
\* store.
CheckHealth == config.maxAge > 0 /\ beatAge <= config.maxAge
Healthy == store \in {"open", "faulty"} /\ CheckHealth

-----------------------------------------------------------------------------
\* run, up to the authentication.
Start ==
  /\ pc = "start"
  /\ \/ /\ ~Load(config)
        /\ pc' = "failed"
        /\ UNCHANGED <<store, faults>>
     \/ /\ Load(config)
        /\ pc' = "auth"
        /\ \/ store' = "open" /\ UNCHANGED faults
           \/ store' = "nil" /\ Fault
     \/ \* no Docker or Vault client from this environment
        /\ Load(config)
        /\ Fault
        /\ pc' = "failed"
        /\ store' \in {"open", "nil"}
  /\ UNCHANGED <<world, age, retrying, todo, ticker, beatAge>>

\* The loop of authenticateVaultUntilSuccess.
TryAuthenticate ==
  /\ pc = "auth"
  /\ IF cancelled THEN pc' = "stopped" /\ NoTouch
                  ELSE pc' = "login" /\ Touch
  /\ age' = 0
  /\ UNCHANGED <<world, retrying, todo, ticker>>

\* The heartbeat before the retry delay.
TouchBeforeDelay == Touch

\* After a failed attempt.  Mutant: it is the end of run.
GiveUp == pc' = "failed" /\ UNCHANGED retrying
RetryLater == pc' = "retry" /\ Retry!NextDelay

LoginFails ==
  /\ pc = "login"
  /\ ~up \/ ~accepted \/ cancelled \/ PathRefused
  /\ RetryLater
  /\ TouchBeforeDelay
  /\ UNCHANGED <<world, age, todo, ticker>>

Waited ==
  /\ pc = "retry"
  /\ wait = 0
  /\ pc' = "auth"
  /\ NoTouch
  /\ UNCHANGED <<world, age, retrying, todo, ticker>>

\* A signal ends either wait: between two logins, or in the select of Run.
\* Mutant: the select does not look at the context.
StopRetrying ==
  /\ pc = "retry"
  /\ cancelled
  /\ pc' = "stopped"
  /\ NoTouch
  /\ UNCHANGED <<world, age, retrying, todo, ticker>>
Stop ==
  /\ pc \in {"retry", "select"}
  /\ cancelled
  /\ pc' = "stopped"
  /\ NoTouch
  /\ UNCHANGED <<world, age, retrying, todo, ticker>>

-----------------------------------------------------------------------------
\* A touch, and a full pass begins with the listing.
StartPass == pc' = "list" /\ age' = 0 /\ Touch

\* Authenticated: Run and its startup pass.
LoginSucceeds ==
  /\ pc = "login"
  /\ up /\ accepted /\ ~PathRefused
  /\ StartPass
  /\ UNCHANGED <<world, retrying, todo, ticker>>

\* Into the select; the ticker is made after the startup pass.
Select ==
  /\ pc' = "select"
  /\ tickIn' = IF tickIn = 0 THEN config.poll ELSE tickIn
  /\ UNCHANGED tickDue

ListFails ==
  /\ pc = "list"
  /\ Select
  /\ NoTouch
  /\ UNCHANGED <<world, age, retrying, todo>>

ListSucceeds ==
  /\ pc = "list"
  /\ \/ pc' = "service" /\ todo' \in 1 .. MaxServices /\ NoTouch /\ UNCHANGED ticker
     \/ Select /\ Touch /\ UNCHANGED todo
  /\ age' = 0
  /\ UNCHANGED <<world, retrying>>

\* The heartbeat after each service.  Mutant: only one at the end of the pass.
TouchAtEnd == IF todo = 1 THEN Touch ELSE NoTouch
TouchService == Touch

ServiceDone ==
  /\ pc = "service"
  /\ todo' = todo - 1
  /\ IF todo = 1 THEN Select ELSE UNCHANGED <<pc, ticker>>
  /\ TouchService
  /\ age' = 0
  /\ UNCHANGED <<world, retrying>>

TakeTick ==
  /\ pc = "select"
  /\ tickDue
  /\ tickDue' = FALSE
  /\ StartPass
  /\ UNCHANGED <<world, retrying, todo, tickIn>>

TakeTrigger ==
  /\ pc = "select"
  /\ pc' = "event"
  /\ age' = 0
  /\ Touch
  /\ UNCHANGED <<world, retrying, todo, ticker>>

\* reconcileIDWithLogging is over; it records a status unless the service is gone
\* or not tracked.
EventDone ==
  /\ pc = "event"
  /\ Select
  /\ Touch \/ NoTouch
  /\ UNCHANGED <<world, age, retrying, todo>>

-----------------------------------------------------------------------------
\* How long the step at pc may last: every call runs under a timeout of its own.
Limit == IF pc = "login" THEN LoginTimeout ELSE config.timeout

Tick ==
  /\ \/ pc \in {"login", "list", "service", "event"} /\ age < Limit
     \/ pc = "retry" /\ wait > 0
     \/ pc = "select" /\ ~tickDue
  /\ age' = IF age < Limit THEN age + 1 ELSE age
  /\ wait' = IF wait > 0 THEN wait - 1 ELSE 0
  /\ tickIn' = IF tickIn = 1 THEN config.poll ELSE IF tickIn = 0 THEN 0 ELSE tickIn - 1
  /\ tickDue' = (tickDue \/ tickIn = 1)
  /\ beatAge' = IF beatAge <= config.maxAge THEN beatAge + 1 ELSE beatAge
  /\ UNCHANGED <<world, pc, store, backoff, todo, faults>>

\* Vault goes away and comes back; the credentials are mounted late, removed or
\* revoked, and put right.
VaultDown ==
  /\ Fault /\ up /\ up' = FALSE
  /\ UNCHANGED <<config, accepted, cancelled, controller>>

VaultUp ==
  /\ ~up /\ up' = TRUE
  /\ UNCHANGED <<config, accepted, cancelled, faults, controller>>

LoseCredentials ==
  /\ Fault /\ accepted /\ accepted' = FALSE
  /\ UNCHANGED <<config, up, cancelled, controller>>

RestoreCredentials ==
  /\ ~accepted /\ accepted' = TRUE
  /\ UNCHANGED <<config, up, cancelled, faults, controller>>

Cancel ==
  /\ pc # "start"   \* NotifyContext comes after the settings and the store
  /\ Fault /\ ~cancelled /\ cancelled' = TRUE
  /\ UNCHANGED <<config, up, accepted, controller>>

Init ==
  /\ config \in Configurations
  /\ pc = "start" /\ store = "none"
  /\ age = 0 /\ wait = 0 /\ backoff = 0 /\ todo = 0
  /\ tickIn = 0 /\ tickDue = FALSE /\ beatAge = 0
  /\ up \in BOOLEAN /\ accepted \in BOOLEAN /\ cancelled = FALSE /\ faults = 0

Startup == Start \/ TryAuthenticate \/ LoginFails \/ LoginSucceeds \/ Waited
Work == ListFails \/ ListSucceeds \/ ServiceDone \/ EventDone
Outside == VaultDown \/ VaultUp \/ LoseCredentials \/ RestoreCredentials \/ Cancel
Next == Startup \/ Work \/ TakeTick \/ TakeTrigger \/ Stop \/ Tick \/ Outside

Spec == Init /\ [][Next]_vars

\* The process runs, time passes, Vault comes back and operators put the credentials
\* right; a select that can leave because of the signal does so in the end, however
\* many events there are.
Fairness ==
  /\ WF_vars(Startup)
  /\ WF_vars(Work)
  /\ WF_vars(TakeTick)
  /\ WF_vars(Tick)
  /\ WF_vars(VaultUp)
  /\ WF_vars(RestoreCredentials)
  /\ SF_vars(Stop)

FairSpec == Spec /\ Fairness

-----------------------------------------------------------------------------
\* Types; and whatever the settings, no step waits for a time of zero or less.
TypeOK ==
  /\ config \in Configurations
  /\ pc \in {"start", "auth", "login", "retry", "list", "service", "select", "event",
             "stopped", "failed"}
  /\ store \in {"none", "open", "faulty", "nil"}
  /\ pc \in {"start", "failed"} \/ Load(config)
  /\ age \in Nat /\ wait \in Nat /\ backoff \in Nat
  /\ todo \in 0 .. MaxServices /\ (todo > 0 <=> pc = "service")
  /\ pc \in {"select", "event"} => tickIn \in 1 .. config.poll
  /\ tickDue \in BOOLEAN /\ beatAge \in Nat
  /\ up \in BOOLEAN /\ accepted \in BOOLEAN /\ cancelled \in BOOLEAN
  /\ faults \in 0 .. MaxFaults

\* The loop makes progress: every call ends within its timeout, by construction.
Progressing == pc \notin {"start", "stopped", "failed"}

\* The longest times between two touches: a failed startup listing and the first
\* tick; a listing and the first service; a retry delay; an authentication call.
Covers(maxAge) ==
  /\ maxAge >= config.timeout + config.poll
  /\ maxAge >= config.timeout * 2
  /\ maxAge >= config.authRetryMax
  /\ maxAge >= LoginTimeout

\* With a maximum age that covers these, the health command never reports a
\* process that makes progress, whatever Vault and Docker do.
HealthyWhileProgressing ==
  Progressing /\ store = "open" /\ Covers(config.maxAge) => Healthy

\* What the README asks for instead: a maximum age above the polling interval, the
\* reconciliation timeout and the retry maximum.
AsDocumented(maxAge) ==
  /\ maxAge > config.timeout /\ maxAge > config.poll
  /\ maxAge > config.authRetryMax /\ maxAge > LoginTimeout
HealthyAsDocumented ==
  Progressing /\ store = "open" /\ AsDocumented(config.maxAge) => Healthy

\* With a usable path the first authentication succeeds in the end, however often
\* it fails for want of Vault or of credentials, unless the process is told to stop.
Authenticates ==
  pc = "auth" /\ ~PathRefused ~> pc \in {"list", "stopped"}

\* A signal ends the process wherever it is.
ShutsDown == cancelled ~> pc \in {"stopped", "failed"}

=============================================================================
