---------------------------- MODULE ProcessProofs ----------------------------
(***************************************************************************)
(* The health command never reports a process that makes progress, for all *)
(* settings that Load accepts and whose maximum age covers the longest     *)
(* times between two touches.                                              *)
(***************************************************************************)
EXTENDS Process, TLAPS

Calls == {"login", "list", "service", "event"}

\* Every call and every wait is within its limit.
Timing ==
  /\ pc = "start" => beatAge = 0
  /\ pc \notin {"start", "failed"} => store # "none"
  /\ Load(config) => backoff <= config.authRetryMax /\ tickIn \in 0 .. config.poll
  /\ pc = "login" => age <= LoginTimeout
  /\ pc \in Calls \ {"login"} => age <= config.timeout

\* How old the heartbeat may be at each point, if no write has failed: as old as the
\* call, and in the select so young that the next tick comes in time.
Fresh ==
  store = "open" =>
    /\ pc = "auth" => beatAge <= config.authRetryMax
    /\ pc \in {"login", "list", "event"} => beatAge <= age
    /\ pc = "retry" => beatAge + wait <= config.authRetryMax
    /\ pc = "service" => beatAge <= config.timeout + age
    /\ pc = "select" =>
         /\ beatAge <= config.timeout + config.poll
         /\ ~tickDue => beatAge + tickIn <= config.timeout + config.poll

Inv == TypeOK /\ Timing /\ Fresh

\* The settings are integers, and positive where Load has accepted them.
LEMMA Settings ==
  ASSUME NEW c \in Configurations
  PROVE  /\ c.poll \in Int /\ c.timeout \in Int /\ c.maxAge \in Int
         /\ c.authRetry \in Int /\ c.authRetryMax \in Int /\ LoginTimeout \in Nat
         /\ Load(c) => /\ c.poll > 0 /\ c.timeout > 0 /\ c.maxAge > 0
                       /\ c.authRetry > 0 /\ c.authRetryMax >= c.authRetry
<1>1. c \in [parses: BOOLEAN,
             poll: Int, timeout: Int, eventRetry: Int, eventRetryMax: Int,
             maxAge: Int, tokenCheck: Int, authRetry: Int, authRetryMax: Int,
             method: {"approle", "token", "other"},
             authPath: {"blank", "malformed", "mount"}]
  BY ProcessAssumption
<1> QED
  BY <1>1, ProcessAssumption DEF Load

\* What NextDelay of the backoff may do.
LEMMA DelayWithin ==
  ASSUME TypeOK, Timing, Load(config), Retry!NextDelay
  PROVE  /\ wait' \in Nat /\ wait' <= config.authRetryMax
         /\ backoff' \in Nat /\ backoff' <= config.authRetryMax
<1> DEFINE base == IF backoff = 0 THEN config.authRetry ELSE backoff
           top == config.authRetryMax
           jitter == base \div 5
<1>1. base \in Nat /\ 1 <= base /\ base <= top /\ top \in Nat
  BY Settings DEF TypeOK, Timing
<1>2. /\ backoff' = IF base >= top \div 2 THEN top ELSE base * 2
      /\ \E d \in base - jitter .. base + jitter :
           wait' = IF jitter > 0 /\ d > top THEN top ELSE d
  BY DEF Retry!NextDelay, Retry!Grown, Retry!Base, Retry!JitterRange, Retry!Jittered
<1> HIDE DEF base, top
<1>3. jitter \in Nat /\ jitter <= base
  BY <1>1
<1>4. top \div 2 \in Nat /\ 2 * (top \div 2) <= top
  BY <1>1
<1>5. backoff' \in Nat /\ backoff' <= top
  BY <1>1, <1>2, <1>4
<1> HIDE DEF jitter
<1>6. wait' \in Nat /\ wait' <= top
  BY <1>1, <1>2, <1>3
<1> QED
  BY <1>5, <1>6 DEF top

LEMMA InitHolds == Init => Inv
<1> SUFFICES ASSUME Init PROVE Inv
  OBVIOUS
<1>1. TypeOK
  <2>1. MaxServices \in Nat /\ MaxFaults \in Nat
    BY ProcessAssumption
  <2>2. 0 \in Nat /\ 0 \in 0 .. MaxServices /\ 0 \in 0 .. MaxFaults /\ ~(0 > 0)
    BY <2>1
  <2> QED
    BY <2>2, Zenon DEF Init, TypeOK
<1>2. Timing
  BY Settings DEF Init, Timing, Calls
<1>3. Fresh
  BY DEF Init, Fresh
<1> QED
  BY <1>1, <1>2, <1>3 DEF Inv

-----------------------------------------------------------------------------
\* After a touch the heartbeat is new, unless the write failed.
LEMMA Touched ==
  ASSUME TypeOK, Touch
  PROVE  /\ store' \in {"open", "faulty", "nil"}
         /\ store' = "open" => beatAge' = 0
         /\ beatAge' \in Nat /\ faults' \in 0 .. MaxFaults
  BY ProcessAssumption DEF Touch, Fault, TypeOK

LEMMA StartupKeeps ==
  ASSUME Inv, Startup
  PROVE  Inv'
<1>1. CASE Start
  BY <1>1, Settings, ProcessAssumption
     DEF Inv, TypeOK, Timing, Fresh, Calls, Start, Fault, world, retrying, ticker
<1>2. CASE TryAuthenticate
  BY <1>2, Settings, Touched
     DEF Inv, TypeOK, Timing, Fresh, Calls, TryAuthenticate, NoTouch, world, retrying, ticker
<1>3. CASE LoginFails
  <2>1. /\ pc' = "retry" /\ Retry!NextDelay /\ Touch /\ Load(config)
        /\ UNCHANGED <<world, age, todo, ticker>>
    BY <1>3 DEF LoginFails, RetryLater, TouchBeforeDelay, Inv, TypeOK
  <2>2. /\ wait' \in Nat /\ wait' <= config.authRetryMax
        /\ backoff' \in Nat /\ backoff' <= config.authRetryMax
    BY <2>1, DelayWithin DEF Inv
  <2>3. pc = "login"
    BY <1>3 DEF LoginFails
  <2> QED
    BY <2>1, <2>2, <2>3, Touched, Settings DEF Inv, TypeOK, Timing, Fresh, Calls, world, ticker
<1>4. CASE LoginSucceeds
  BY <1>4, Settings, Touched
     DEF Inv, TypeOK, Timing, Fresh, Calls, LoginSucceeds, StartPass, world, retrying, ticker
<1>5. CASE Waited
  BY <1>5, Settings
     DEF Inv, TypeOK, Timing, Fresh, Calls, Waited, NoTouch, world, retrying, ticker
<1> QED
  BY <1>1, <1>2, <1>3, <1>4, <1>5 DEF Startup

\* The select begins with a ticker; from there on the next tick is near.
LEMMA SelectKeeps ==
  ASSUME Inv, pc \in {"list", "service", "event"}, Select, todo' = 0,
         UNCHANGED <<world, retrying>>, age' \in Nat,
         store' \in {"open", "faulty", "nil"}, beatAge' \in Nat,
         faults' \in 0 .. MaxFaults,
         store' = "open" => beatAge' <= config.timeout
  PROVE  Inv'
<1>1. tickIn' \in 1 .. config.poll /\ pc' = "select" /\ tickDue' = tickDue
  BY Settings DEF Inv, TypeOK, Timing, Select
<1>2. TypeOK'
  BY <1>1, ProcessAssumption DEF Inv, TypeOK, world, retrying
<1>3. Timing'
  BY <1>1, Settings DEF Inv, TypeOK, Timing, Calls, world, retrying
<1>4. Fresh'
  BY <1>1, Settings DEF Inv, TypeOK, Fresh, world
<1> QED
  BY <1>2, <1>3, <1>4 DEF Inv

LEMMA WorkKeeps ==
  ASSUME Inv, Work \/ TakeTick \/ TakeTrigger \/ Stop
  PROVE  Inv'
<1>1. CASE ListFails
  <2>1. todo' = 0 /\ age' \in Nat /\ (store' = "open" => beatAge' <= config.timeout)
    BY <1>1, Settings DEF ListFails, NoTouch, Inv, TypeOK, Timing, Fresh, Calls
  <2> QED
    BY <1>1, <2>1, SelectKeeps DEF ListFails, NoTouch, Inv, TypeOK, Timing, retrying, world
<1>2. CASE ListSucceeds
  <2>1. CASE pc' = "service"
    BY <1>2, <2>1, Settings
       DEF ListSucceeds, Select, NoTouch, Inv, TypeOK, Timing, Fresh, Calls, world, retrying, ticker
  <2>2. CASE pc' # "service"
    BY <1>2, <2>2, SelectKeeps, Touched, Settings
       DEF ListSucceeds, Inv, TypeOK, world, retrying
  <2> QED
    BY <2>1, <2>2
<1>3. CASE ServiceDone
  <2>1. CASE todo = 1
    BY <1>3, <2>1, SelectKeeps, Touched, Settings
       DEF ServiceDone, TouchService, Inv, TypeOK, world, retrying
  <2>2. CASE todo # 1
    BY <1>3, <2>2, Touched, Settings, ProcessAssumption
       DEF ServiceDone, TouchService, Inv, TypeOK, Timing, Fresh, Calls, world, retrying, ticker
  <2> QED
    BY <2>1, <2>2
<1>4. CASE EventDone
  <2>1. todo' = 0 /\ age' \in Nat /\ (store' = "open" => beatAge' <= config.timeout)
    BY <1>4, Settings, Touched DEF EventDone, NoTouch, Inv, TypeOK, Timing, Fresh, Calls
  <2> QED
    BY <1>4, <2>1, SelectKeeps, Touched
       DEF EventDone, NoTouch, Inv, TypeOK, Timing, retrying, world
<1>5. CASE TakeTick
  <2>1. /\ pc = "select" /\ pc' = "list" /\ age' = 0 /\ Touch /\ tickDue' = FALSE
        /\ UNCHANGED <<config, up, accepted, cancelled, wait, backoff, todo, tickIn>>
    BY <1>5 DEF TakeTick, StartPass, world, retrying
  <2>2. TypeOK'
    BY <2>1, Touched DEF Inv, TypeOK
  <2>3. Timing' /\ Fresh'
    BY <2>1, Touched, Settings DEF Inv, TypeOK, Timing, Fresh, Calls
  <2> QED
    BY <2>2, <2>3 DEF Inv
<1>6. CASE TakeTrigger
  BY <1>6, Settings, Touched
     DEF Inv, TypeOK, Timing, Fresh, Calls, TakeTrigger, world, retrying, ticker
<1>7. CASE Stop
  BY <1>7, Settings
     DEF Inv, TypeOK, Timing, Fresh, Calls, Stop, NoTouch, world, retrying, ticker
<1> QED
  BY <1>1, <1>2, <1>3, <1>4, <1>5, <1>6, <1>7 DEF Work

LEMMA TickKeeps ==
  ASSUME Inv, Tick
  PROVE  Inv'
<1>1. /\ config \in Configurations /\ Load(config) /\ age \in Nat /\ wait \in Nat
      /\ beatAge \in Nat /\ tickIn \in 0 .. config.poll
      /\ pc \in {"login", "list", "service", "event", "retry", "select"}
  BY DEF Inv, TypeOK, Tick, Timing
<1>2. /\ beatAge' \in Nat /\ beatAge' <= beatAge + 1
      /\ UNCHANGED <<config, up, accepted, cancelled, pc, store, backoff, todo, faults>>
  BY <1>1, Settings DEF Tick, world
<1>3. TypeOK'
  BY <1>1, <1>2, Settings DEF Inv, TypeOK, Tick
<1>4. Timing'
  BY <1>1, <1>2, Settings DEF Inv, Timing, Calls, Tick, Limit
<1>5. Fresh'
  <2>1. CASE pc \in Calls
    BY <1>1, <1>2, <2>1, Settings DEF Inv, Timing, Fresh, Calls, Tick, Limit
  <2>2. CASE pc = "retry"
    BY <1>1, <1>2, <2>2, Settings DEF Inv, Fresh, Tick
  <2>3. CASE pc = "select"
    <3>1. ~tickDue /\ tickIn \in 1 .. config.poll
      BY <2>3 DEF Tick, Inv, TypeOK
    <3>2. ~tickDue' => tickIn # 1
      BY Zenon DEF Tick
    <3>3. ~tickDue' => tickIn' = tickIn - 1
      BY <3>1, <3>2 DEF Tick
    <3> QED
      BY <1>1, <1>2, <2>3, <3>1, <3>3, Settings DEF Inv, TypeOK, Fresh, Tick
  <2> QED
    BY <1>1, <2>1, <2>2, <2>3 DEF Calls
<1> QED
  BY <1>3, <1>4, <1>5 DEF Inv

LEMMA OthersKeep ==
  ASSUME Inv, Outside \/ UNCHANGED vars
  PROVE  Inv'
<1>1. /\ UNCHANGED <<config, controller>>
      /\ up' \in BOOLEAN /\ accepted' \in BOOLEAN /\ cancelled' \in BOOLEAN
      /\ faults' \in 0 .. MaxFaults
  <2>1. /\ up \in BOOLEAN /\ accepted \in BOOLEAN /\ cancelled \in BOOLEAN
        /\ faults \in 0 .. MaxFaults
    BY DEF Inv, TypeOK
  <2>2. Fault => faults' \in 0 .. MaxFaults
    BY <2>1, ProcessAssumption DEF Fault
  <2>3. CASE VaultDown
    BY <2>1, <2>2, <2>3, Zenon DEF VaultDown
  <2>4. CASE VaultUp
    BY <2>1, <2>4, Zenon DEF VaultUp
  <2>5. CASE LoseCredentials
    BY <2>1, <2>2, <2>5, Zenon DEF LoseCredentials
  <2>6. CASE RestoreCredentials
    BY <2>1, <2>6, Zenon DEF RestoreCredentials
  <2>7. CASE Cancel
    BY <2>1, <2>2, <2>7, Zenon DEF Cancel
  <2>8. CASE UNCHANGED vars
    BY <2>1, <2>8 DEF vars, controller
  <2> QED
    BY <2>3, <2>4, <2>5, <2>6, <2>7, <2>8 DEF Outside
<1>2. UNCHANGED <<pc, store, age, wait, backoff, todo, tickIn, tickDue, beatAge>>
  BY <1>1 DEF controller
<1> QED
  BY <1>1, <1>2 DEF Inv, TypeOK, Timing, Fresh

-----------------------------------------------------------------------------
\* The inductive invariant, for all settings.
THEOREM Invariant == Spec => []Inv
<1>1. Inv /\ [Next]_vars => Inv'
  BY StartupKeeps, WorkKeeps, TickKeeps, OthersKeep DEF Next
<1> QED
  BY <1>1, InitHolds, PTL DEF Spec

\* Nothing runs with settings that Load refuses, and every reachable state is
\* well-formed, for all settings.
THEOREM TypeCorrect == Spec => []TypeOK
<1>1. Inv => TypeOK
  BY DEF Inv
<1> QED
  BY <1>1, Invariant, PTL

\* With a maximum age that covers the sums of the timeouts, the health command
\* never reports a process that makes progress: for all settings, any number of
\* services, any behaviour of Vault and Docker.
THEOREM Health == Spec => []HealthyWhileProgressing
<1>1. Inv => HealthyWhileProgressing
  <2> SUFFICES ASSUME Inv, Progressing, store = "open", Covers(config.maxAge)
               PROVE  Healthy
    BY DEF HealthyWhileProgressing
  <2>1. config \in Configurations /\ Load(config) /\ beatAge \in Nat /\ age \in Nat /\ wait \in Nat
    BY DEF Inv, TypeOK, Progressing
  <2>2. beatAge <= config.maxAge
    BY <2>1, Settings DEF Inv, TypeOK, Timing, Fresh, Calls, Progressing, Covers
  <2> QED
    BY <2>1, <2>2, Settings DEF Healthy, CheckHealth
<1> QED
  BY <1>1, Invariant, PTL

=============================================================================
