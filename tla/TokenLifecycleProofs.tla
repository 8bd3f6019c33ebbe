------------------------- MODULE TokenLifecycleProofs -------------------------
(***************************************************************************)
(* The token lifecycle never spins, keeps a valid token while nothing goes *)
(* wrong, and replaces a lost one promptly, for all TTLs, intervals and    *)
(* latencies.                                                              *)
(***************************************************************************)
EXTENDS TokenLifecycle, TLAPS

\* How many calls the goroutine may have made at this instant.  A wait that has
\* ended has taken time; every wait takes some.
Paced ==
  /\ pc = "loop" => lease.renewIn > 0
  /\ pc \in {"sleep", "retry"} /\ wait = 0 => calls = 0
  /\ pc = "lookup" => calls <= 1
  /\ pc \in {"renew", "credential"} => calls <= 2
  /\ calls <= 3

\* What the faultless case keeps apart from the margin: Vault accepts what the
\* client sends, so that the calls which must succeed do.
Served ==
  /\ up /\ ~cancelled
  /\ role = 1 /\ file = 1 /\ sent = 1
  /\ pc \notin {"retry", "stopped"}
  /\ pc = "lookup" /\ reply.is = "ok" => reply.renewable = token.renewable
  /\ pc = "renew" => token.renewable
  /\ pc = "renew" /\ reply # Pending /\ ~token.capped =>
       reply.is = "ok" /\ reply.ttl = TTL
  /\ pc = "login" /\ reply # Pending =>
       reply.is = "ok" /\ reply.ttl > 0 /\ (~fresh.capped => reply.ttl = TTL)

\* How long an uncapped token still lives, at each point.
Margin ==
  /\ pc = "sleep" => wait <= lease.renewIn
  /\ ~token.capped =>
       /\ pc \in {"loop", "sleep"} => token.left >= lease.renewIn + TTL - Latency
       /\ pc = "lookup" /\ lease.renewIn > 0 =>
            token.left >= lease.renewIn + TTL - Latency
       /\ pc = "lookup" /\ lease.renewIn = 0 => token.left >= TTL - Latency - age
       /\ pc = "renew" =>
            token.left >= IF reply = Pending THEN TTL - 2 * Latency - age
                          ELSE 3 * TTL - age
       /\ pc = "credential" => token.left >= TTL - 2 * Latency
       /\ pc = "login" => token.left >= TTL - 2 * Latency - age
  /\ ~fresh.capped /\ pc = "login" /\ reply # Pending => fresh.left >= 3 * TTL - age

Inv ==
  /\ TypeOK
  /\ Paced
  /\ LongEnough /\ faults = 0 => Served /\ Margin

-----------------------------------------------------------------------------
LEMMA Constants ==
  /\ TTL \in Nat /\ TTL > 0 /\ Latency \in Nat
  /\ TokenCheckInterval \in Nat /\ TokenCheckInterval > 0
  /\ AuthRetryInterval \in Nat /\ AuthRetryInterval > 0
  /\ AuthRetryMaximum \in Nat /\ AuthRetryMaximum >= AuthRetryInterval
  /\ TooLong \in Nat /\ TooLong > 0
  /\ MaxFaults \in Nat
<1>1. /\ TTL \in Nat /\ TTL > 0 /\ Latency \in Nat
      /\ TokenCheckInterval \in Nat /\ TokenCheckInterval > 0
      /\ AuthRetryInterval \in Nat /\ AuthRetryInterval > 0
      /\ AuthRetryMaximum \in Nat /\ AuthRetryMaximum >= AuthRetryInterval
      /\ MaxFaults \in Nat
  BY TokenAssumption
<1>2. TooLong \in Nat /\ TooLong > 0
  BY <1>1 DEF TooLong
<1> QED
  BY <1>1, <1>2

\* Whole seconds.
LEMMA Seconds ==
  ASSUME NEW n \in Nat
  PROVE  n \div 3 \in Nat /\ (n * 3) \div 3 = n
  BY SMT

\* What NextDelay of the backoff may do: a delay is never zero.
LEMMA DelayWithin ==
  ASSUME backoff \in 0 .. AuthRetryMaximum, Retry!NextDelay
  PROVE  /\ wait' \in Nat /\ wait' > 0 /\ wait' <= AuthRetryMaximum
         /\ backoff' \in 0 .. AuthRetryMaximum
<1> DEFINE base == IF backoff = 0 THEN AuthRetryInterval ELSE backoff
           top == AuthRetryMaximum
           jitter == base \div 5
<1>1. base \in Nat /\ 1 <= base /\ base <= top /\ top \in Nat
  BY Constants
<1>2. /\ backoff' = IF base >= top \div 2 THEN top ELSE base * 2
      /\ \E d \in base - jitter .. base + jitter :
           wait' = IF jitter > 0 /\ d > top THEN top ELSE d
  BY DEF Retry!NextDelay, Retry!Grown, Retry!Base, Retry!JitterRange, Retry!Jittered
<1> HIDE DEF base, top
<1>3. jitter \in Nat /\ 5 * jitter <= base
  BY <1>1
<1>4. top \div 2 \in Nat /\ 2 * (top \div 2) <= top
  BY <1>1
<1>5. backoff' \in Nat /\ backoff' <= top
  BY <1>1, <1>2, <1>4
<1>7. jitter = 0 \/ jitter > 0
  BY <1>3
<1> HIDE DEF jitter
<1>6. wait' \in Nat /\ wait' > 0 /\ wait' <= top
  BY <1>1, <1>2, <1>3, <1>7
<1> QED
  BY <1>1, <1>5, <1>6 DEF top

Leases == [renewable: BOOLEAN, renewIn: Nat]
Tokens == [left: Nat, cap: Nat, capped: BOOLEAN, renewable: BOOLEAN]
Replies == [is: {"pending", "ok", "error"}, ttl: Nat, renewable: BOOLEAN]

\* A new token, and what Vault tells of a token.
LEMMA GrantedNat ==
  ASSUME NEW t \in Tokens
  PROVE  /\ Granted(t) \in Nat
         /\ ~t.capped => Granted(t) = TTL * 3
  BY Constants DEF Granted, Lesser, Second, Tokens

LEMMA NewTokens ==
  ASSUME NEW r \in Renewable, NEW m \in MaxTTLs
  PROVE  /\ NewToken(r, m) \in Tokens
         /\ NewToken(r, m).left >= 3
         /\ ~NewToken(r, m).capped => NewToken(r, m).left = TTL * 3
<1>1. m \in Nat /\ r \in BOOLEAN
  BY TokenAssumption
<1> DEFINE life == (IF m = 0 THEN TTL ELSE Lesser(TTL, m)) * Second
<1>2. life \in Nat /\ life >= 3 /\ m * Second \in Nat /\ (m = 0 => life = TTL * 3)
  BY <1>1, Constants DEF Lesser, Second
<1>3. NewToken(r, m) = [left |-> life, cap |-> m * Second, capped |-> m # 0,
                        renewable |-> r]
  BY DEF NewToken
<1> HIDE DEF life
<1>4. \A c \in BOOLEAN :
        [left |-> life, cap |-> m * Second, capped |-> c, renewable |-> r] \in Tokens
  BY <1>1, <1>2 DEF Tokens
<1>5. NewToken(r, m) \in Tokens
  BY <1>3, <1>4
<1>6. NewToken(r, m).left = life /\ NewToken(r, m).capped = (m # 0)
  BY <1>3
<1> QED
  BY <1>2, <1>5, <1>6

LEMMA Tells ==
  ASSUME NEW t \in Tokens
  PROVE  /\ Told(t) \in Replies
         /\ Told(t).is = "ok" /\ Told(t).renewable = t.renewable
         /\ t.left = TTL * 3 => Told(t).ttl = TTL
         /\ t.left >= 3 => Told(t).ttl > 0
<1>1. t.left \in Nat /\ t.left \div 3 \in Nat /\ t.renewable \in BOOLEAN
  BY Seconds DEF Tokens
<1>2. t.left = TTL * 3 => t.left \div 3 = TTL
  BY Seconds, Constants
<1>3. t.left >= 3 => t.left \div 3 > 0
  BY <1>1
<1> QED
  BY <1>1, <1>2, <1>3 DEF Told, Answer, Second, Replies

LEMMA Leased ==
  ASSUME NEW a \in Replies
  PROVE  LeaseFrom(a) \in Leases /\ LeaseFrom(a).renewIn = 2 * a.ttl
  BY DEF LeaseFrom, Leases, Replies

LEMMA Ages ==
  ASSUME NEW t \in Tokens
  PROVE  /\ Older(t) \in Tokens
         /\ Older(t).left = Less(t.left)
         /\ Older(t).renewable = t.renewable /\ Older(t).capped = t.capped
<1>1. /\ Less(t.left) \in Nat /\ Less(t.cap) \in Nat /\ t.renewable \in BOOLEAN
      /\ t.capped \in BOOLEAN
  BY DEF Less, Tokens
<1> QED
  BY <1>1 DEF Older, Tokens

-----------------------------------------------------------------------------
LEMMA InitHolds == Init => Inv
<1> SUFFICES ASSUME Init PROVE Inv
  OBVIOUS
<1>1. PICK r \in Renewable, m \in MaxTTLs, a \in 0 .. Latency :
        /\ fresh = NewToken(r, m)
        /\ token = [fresh EXCEPT !.left = Since(@, a), !.cap = Since(@, a)]
        /\ lease = LeaseFrom(Told(fresh))
  BY DEF Init
<1>2. /\ fresh \in Tokens /\ fresh.left >= 3
      /\ ~fresh.capped => fresh.left = TTL * 3
  BY <1>1, NewTokens
<1>3. Told(fresh) \in Replies /\ Told(fresh).ttl > 0
  BY <1>2, Tells
<1>4. /\ token \in Tokens /\ token.capped = fresh.capped
      /\ token.left = Since(fresh.left, a)
  <2>1. token = [left |-> Since(fresh.left, a), cap |-> Since(fresh.cap, a),
                 capped |-> fresh.capped, renewable |-> fresh.renewable]
    BY <1>1, <1>2 DEF Tokens
  <2>2. Since(fresh.left, a) \in Nat /\ Since(fresh.cap, a) \in Nat
    BY <1>2, Constants DEF Tokens, Since
  <2> QED
    BY <1>2, <2>1, <2>2 DEF Tokens
<1>5. lease \in Leases /\ lease.renewIn = 2 * Told(fresh).ttl
  BY <1>1, <1>3, Leased
<1>6. TypeOK
  <2>1. reply \in Replies
    BY DEF Init, Refused, Replies
  <2>2. /\ wait \in Nat /\ age \in 0 .. Latency /\ calls \in 0 .. MaxCalls
        /\ invalidFor \in 0 .. TooLong /\ backoff \in 0 .. AuthRetryMaximum
        /\ role \in Nat /\ file \in Nat /\ sent \in Nat /\ faults \in 0 .. MaxFaults
    BY Constants DEF Init, MaxCalls
  <2> QED
    BY <1>2, <1>4, <1>5, <2>1, <2>2 DEF Init, TypeOK, Tokens, Replies, Leases
<1>7. Paced
  BY <1>3, <1>5 DEF Paced, Init, Replies
<1>8. LongEnough => Served /\ Margin
  <2>1. ~token.capped => lease.renewIn = 2 * TTL /\ token.left >= 3 * TTL - Latency
    <3>1. ~token.capped => fresh.left = TTL * 3
      BY <1>2, <1>4
    <3>2. ~token.capped => Told(fresh).ttl = TTL
      BY <1>2, <3>1, Tells
    <3> QED
      BY <1>4, <1>5, <3>1, <3>2, Constants DEF Since
  <2>2. Margin
    BY <2>1, Constants DEF Margin, Init
  <2> QED
    BY <2>2 DEF Served, Init
<1> QED
  BY <1>6, <1>7, <1>8 DEF Inv

\* The types in a form the steps below use.
LEMMA Typed ==
  ASSUME TypeOK
  PROVE  /\ wait \in Nat /\ age \in Nat /\ age <= Latency
         /\ calls \in 0 .. MaxCalls /\ invalidFor \in 0 .. TooLong
         /\ lease \in Leases /\ lease.renewIn \in Nat
         /\ backoff \in 0 .. AuthRetryMaximum
         /\ reply \in Replies /\ reply.ttl \in Nat
         /\ token \in Tokens /\ token.left \in Nat
         /\ fresh \in Tokens /\ fresh.left \in Nat
         /\ role \in Nat /\ file \in Nat /\ sent \in Nat
         /\ faults \in Nat
  BY Constants DEF TypeOK, Leases, Replies, Tokens

LEMMA CallTypes ==
  ASSUME TypeOK, NEW operation, Call(operation)
  PROVE  /\ age' \in 0 .. Latency /\ reply' \in Replies /\ calls' \in 0 .. MaxCalls
         /\ calls <= 2 => calls' <= calls + 1
  BY Typed, Constants DEF Call, Pending, Replies, Lesser, MaxCalls

LEMMA TypeKeeps ==
  ASSUME TypeOK, Next
  PROVE  TypeOK'
<1> USE DEF Leases, Tokens, Replies
<1>1. ASSUME VaultAnswers PROVE TypeOK'
  <2>1. Told(token) \in Replies /\ Refused \in Replies
    BY Typed, Tells DEF Refused
  <2>2. reply' \in Replies /\ token' \in Tokens /\ fresh' \in Tokens
    <3>1. CASE VaultLookup
      BY <3>1, <2>1, Typed DEF VaultLookup
    <3>2. CASE VaultRenew
      <4>1. Granted(token) \in Nat
        BY Typed, GrantedNat
      <4>2. [token EXCEPT !.left = Granted(token)] \in Tokens
        BY <4>1, Typed
      <4>3. Told([token EXCEPT !.left = Granted(token)]) \in Replies
        BY <4>2, Tells
      <4> QED
        BY <3>2, <2>1, <4>2, <4>3, Typed DEF VaultRenew
    <3>3. CASE VaultLogin
      <4>1. \A r \in Renewable, m \in MaxTTLs :
              NewToken(r, m) \in Tokens /\ Told(NewToken(r, m)) \in Replies
        BY NewTokens, Tells
      <4> QED
        BY <3>3, <2>1, <4>1, Typed DEF VaultLogin
    <3> QED
      BY <1>1, <3>1, <3>2, <3>3 DEF VaultAnswers
  <2> QED
    BY <1>1, <2>2 DEF VaultAnswers, TypeOK, client, world, history
<1>2. ASSUME CallFails PROVE TypeOK'
  BY <1>2 DEF CallFails, Refused, TypeOK, client, world, history
<1>3. ASSUME LoopTop PROVE TypeOK'
  <2>1. UntilNextCheck \in Nat
    BY Typed, Constants DEF UntilNextCheck, Lesser
  <2> QED
    BY <1>3, <2>1 DEF LoopTop, TypeOK, NoCall, Step, world
<1>4. ASSUME Awake PROVE TypeOK'
  <2>1. Call("lookup")
    BY <1>4 DEF Awake
  <2> QED
    BY <1>4, <2>1, CallTypes DEF Awake, Call, TypeOK, Step, world
<1>5. ASSUME LookupReturns PROVE TypeOK'
  <2>1. lease' \in Leases
    <3>1. LeaseFrom(reply).renewIn \in Nat /\ reply.renewable \in BOOLEAN
      BY Typed, Leased
    <3> QED
      BY <1>5, <3>1, Typed DEF LookupReturns, Lesser
  <2>2. /\ pc' \in {"loop", "renew", "credential"}
        /\ backoff' \in 0 .. AuthRetryMaximum
        /\ age' \in 0 .. Latency /\ reply' \in Replies /\ calls' \in 0 .. MaxCalls
    <3>1. CASE Call("renew") /\ UNCHANGED backoff
      BY <3>1, CallTypes, Typed DEF Call
    <3>2. CASE NoCall /\ (Reauthenticate \/ (pc' = "loop" /\ UNCHANGED backoff))
      BY <3>2, Typed, Constants DEF NoCall, Reauthenticate, TypeOK
    <3> QED
      BY <1>5, <3>1, <3>2 DEF LookupReturns
  <2> QED
    BY <1>5, <2>1, <2>2 DEF LookupReturns, TypeOK, Step, world
<1>6. ASSUME RenewReturns PROVE TypeOK'
  <2>1. LeaseFrom(reply) \in Leases
    BY Typed, Leased
  <2> QED
    BY <1>6, <2>1, Constants
    DEF RenewReturns, KeepLease, Reauthenticate, TypeOK, NoCall, Step, world
<1>7. ASSUME TryLogin PROVE TypeOK'
  <2>1. CASE cancelled /\ pc' = "stopped" /\ NoCall /\ UNCHANGED <<wait, backoff, sent>>
    BY <1>7, <2>1 DEF TryLogin, TypeOK, NoCall, Step, world
  <2>2. CASE RetryLater /\ NoCall /\ UNCHANGED sent
    <3>1. wait' \in Nat /\ backoff' \in 0 .. AuthRetryMaximum /\ pc' = "retry"
      BY <2>2, DelayWithin, Typed DEF RetryLater
    <3> QED
      BY <1>7, <2>2, <3>1 DEF TryLogin, TypeOK, NoCall, Step, world
  <2>3. CASE sent' = Credential /\ Call("login") /\ UNCHANGED <<wait, backoff>>
    BY <1>7, <2>3, CallTypes DEF TryLogin, Call, Credential, TypeOK, Step, world
  <2> QED
    BY <1>7, <2>1, <2>2, <2>3 DEF TryLogin
<1>8. ASSUME LoginReturns PROVE TypeOK'
  <2>1. LeaseFrom(reply) \in Leases
    BY Typed, Leased
  <2>2. CASE Usable(reply)
    BY <1>8, <2>1, <2>2 DEF LoginReturns, TypeOK, NoCall, world
  <2>3. CASE ~Usable(reply)
    <3>1. wait' \in Nat /\ backoff' \in 0 .. AuthRetryMaximum /\ pc' = "retry"
      BY <1>8, <2>3, DelayWithin, Typed DEF LoginReturns, RetryLater
    <3> QED
      BY <1>8, <2>3, <3>1 DEF LoginReturns, TypeOK, NoCall, world
  <2> QED
    BY <2>2, <2>3
<1>9. ASSUME Retried \/ StopWaiting PROVE TypeOK'
  BY <1>9 DEF Retried, StopWaiting, TypeOK, NoCall, Step, world
<1>10. ASSUME Tick PROVE TypeOK'
  <2>1. wait' \in Nat /\ age' \in 0 .. Latency /\ calls' \in 0 .. MaxCalls
    BY <1>10, Typed, Constants DEF Tick, Less, MaxCalls
  <2>2. invalidFor' \in 0 .. TooLong
    BY <1>10, Typed, Constants DEF Tick, Lesser
  <2>3. lease' \in Leases
    BY <1>10, Typed DEF Tick, Less
  <2>4. token' \in Tokens /\ fresh' \in Tokens
    BY <1>10, Typed, Ages DEF Tick
  <2> QED
    BY <1>10, <2>1, <2>2, <2>3, <2>4 DEF Tick, TypeOK, world
<1>11. ASSUME Faults PROVE TypeOK'
  <2>1. faults' \in 0 .. MaxFaults /\ invalidFor' \in 0 .. TooLong
    BY <1>11, Typed, Constants
    DEF Faults, VaultDown, Revoke, LoseAnswer, RotateRole, EmptyFiles, Cancel, Fault
  <2>2. UNCHANGED <<client, age, calls>>
    BY <1>11
    DEF Faults, VaultDown, Revoke, LoseAnswer, RotateRole, EmptyFiles, Cancel, Fault
  <2>3. CASE VaultDown \/ Cancel
    BY <2>1, <2>2, <2>3 DEF VaultDown, Cancel, TypeOK, client
  <2>6. CASE RotateRole \/ EmptyFiles
    <3>1. role' \in Nat /\ file' \in Nat
      BY <2>6, Typed DEF RotateRole, EmptyFiles
    <3> QED
      BY <2>1, <2>2, <2>6, <3>1 DEF RotateRole, EmptyFiles, TypeOK, client
  <2>4. CASE Revoke
    BY <2>1, <2>2, <2>4 DEF Revoke, TypeOK, client, world
  <2>5. CASE LoseAnswer
    BY <2>1, <2>2, <2>5 DEF LoseAnswer, Refused, TypeOK, client, world
  <2> QED
    BY <1>11, <2>3, <2>4, <2>5, <2>6 DEF Faults
<1>12. ASSUME VaultUp \/ WriteFiles PROVE TypeOK'
  BY <1>12 DEF VaultUp, WriteFiles, TypeOK, client, history
<1> QED
  BY <1>1, <1>2, <1>3, <1>4, <1>5, <1>6, <1>7, <1>8, <1>9, <1>10, <1>11, <1>12
  DEF Next, Goroutine

\* Every wait takes time, and between two waits there is at most one call of each
\* kind.
LEMMA PacedKeeps ==
  ASSUME TypeOK, Paced, Next
  PROVE  Paced'
<1> USE DEF Paced
<1>1. ASSUME VaultAnswers \/ CallFails PROVE Paced'
  BY <1>1 DEF VaultAnswers, CallFails, client, history
<1>2. ASSUME LoopTop PROVE Paced'
  <2>1. ~cancelled => wait' > 0
    BY <1>2, Typed, Constants DEF LoopTop, UntilNextCheck, Lesser
  <2> QED
    BY <1>2, <2>1, Typed DEF LoopTop, NoCall
<1>3. ASSUME Awake PROVE Paced'
  <2>1. Call("lookup") /\ calls = 0
    BY <1>3 DEF Awake
  <2>2. calls' <= 1 /\ pc' = "lookup"
    BY <2>1, CallTypes DEF Call
  <2> QED
    BY <2>2, TypeKeeps, CallTypes, <2>1 DEF MaxCalls
<1>4. ASSUME LookupReturns PROVE Paced'
  <2>1. CASE Call("renew")
    <3>1. calls <= 1 /\ calls \in Nat
      BY <1>4, Typed DEF LookupReturns, MaxCalls
    <3>2. calls' <= 2 /\ pc' = "renew" /\ calls' \in Nat
      BY <2>1, <3>1, CallTypes DEF Call, MaxCalls
    <3> QED
      BY <3>2
  <2>2. CASE NoCall /\ Reauthenticate
    BY <1>4, <2>2, Typed DEF LookupReturns, NoCall, Reauthenticate, MaxCalls
  <2>3. CASE NoCall /\ pc' = "loop" /\ lease'.renewIn > 0
    BY <1>4, <2>3, Typed DEF LookupReturns, NoCall
  <2> QED
    BY <1>4, <2>1, <2>2, <2>3 DEF LookupReturns
<1>5. ASSUME RenewReturns \/ LoginReturns PROVE Paced'
  <2>1. CASE Usable(reply)
    <3>1. lease'.renewIn > 0 /\ pc' = "loop" /\ calls' = calls
      BY <1>5, <2>1, Typed, Leased
      DEF RenewReturns, LoginReturns, KeepLease, Usable, NoCall
    <3> QED
      BY <3>1
  <2>2. CASE ~Usable(reply) /\ RenewReturns
    BY <2>2 DEF RenewReturns, Reauthenticate, NoCall
  <2>3. CASE ~Usable(reply) /\ LoginReturns
    <3>1. pc' = "retry" /\ wait' > 0 /\ wait' \in Nat /\ calls' = calls
      BY <2>3, DelayWithin, Typed DEF LoginReturns, RetryLater, NoCall
    <3> QED
      BY <3>1
  <2> QED
    BY <1>5, <2>1, <2>2, <2>3
<1>6. ASSUME TryLogin PROVE Paced'
  <2>1. CASE RetryLater /\ NoCall
    <3>1. pc' = "retry" /\ wait' > 0 /\ wait' \in Nat /\ calls' = calls
      BY <2>1, DelayWithin, Typed DEF RetryLater, NoCall
    <3> QED
      BY <3>1
  <2>2. CASE Call("login")
    <3>1. calls <= 2 /\ calls \in Nat
      BY <1>6, Typed DEF TryLogin, MaxCalls
    <3>2. calls' <= 3 /\ pc' = "login" /\ calls' \in Nat
      BY <2>2, <3>1, CallTypes DEF Call, MaxCalls
    <3> QED
      BY <3>2
  <2>3. CASE pc' = "stopped" /\ NoCall
    BY <2>3 DEF NoCall
  <2> QED
    BY <1>6, <2>1, <2>2, <2>3 DEF TryLogin
<1>7. ASSUME Retried \/ StopWaiting PROVE Paced'
  BY <1>7 DEF Retried, StopWaiting, NoCall
<1>8. ASSUME Tick PROVE Paced'
  BY <1>8, Typed DEF Tick
<1>9. ASSUME Faults PROVE Paced'
  BY <1>9
  DEF Faults, VaultDown, Revoke, LoseAnswer, RotateRole, EmptyFiles, Cancel, Fault, client
<1>10. ASSUME VaultUp \/ WriteFiles PROVE Paced'
  BY <1>10 DEF VaultUp, WriteFiles, client, history
<1> QED
  BY <1>1, <1>2, <1>3, <1>4, <1>5, <1>6, <1>7, <1>8, <1>9, <1>10 DEF Next, Goroutine

-----------------------------------------------------------------------------
LEMMA EnoughTime ==
  ASSUME LongEnough
  PROVE  TTL > 3 * Latency /\ TTL \in Nat /\ TTL > 0 /\ Latency \in Nat
  BY Constants DEF LongEnough

\* While nothing goes wrong the goroutine's own steps succeed.
LEMMA ServedKeeps ==
  ASSUME TypeOK, LongEnough, Served, Margin, Next, faults' = 0
  PROVE  Served'
<1>1. up /\ ~cancelled /\ file = role /\ role = 1 /\ sent = 1
  BY DEF Served
<1>2. ASSUME VaultAnswers PROVE Served'
  <2>1. CASE VaultLookup
    BY <1>2, <2>1, Typed, Tells
    DEF VaultAnswers, VaultLookup, Served, Refused, client, world
  <2>2. CASE VaultRenew
    <3>1. CASE token.capped
      <4>1. token'.capped = token.capped /\ token'.renewable = token.renewable
        BY <2>2, Typed DEF VaultRenew, Tokens
      <4> QED
        BY <1>2, <2>2, <3>1, <4>1 DEF VaultAnswers, VaultRenew, Served, client, world
    <3>2. CASE ~token.capped
      <4>1. token.left > 0 /\ token.renewable
        BY <1>2, <2>2, <3>2, Typed, EnoughTime
        DEF VaultRenew, VaultAnswers, Margin, Served
      <4> DEFINE t == [token EXCEPT !.left = Granted(token)]
      <4>2. token' = t /\ reply' = Told(t)
        BY <2>2, <4>1 DEF VaultRenew, Valid
      <4>3. t \in Tokens /\ t.left = TTL * 3 /\ t.renewable = token.renewable
        <5>1. Granted(token) \in Nat /\ Granted(token) = TTL * 3
          BY <3>2, Typed, GrantedNat
        <5> QED
          BY <5>1, Typed DEF Tokens
      <4> HIDE DEF t
      <4>4. reply'.is = "ok" /\ reply'.ttl = TTL
        BY <4>2, <4>3, Tells
      <4> QED
        BY <1>2, <2>2, <4>1, <4>2, <4>3, <4>4
        DEF VaultAnswers, VaultRenew, Served, client, world
    <3> QED
      BY <3>1, <3>2
  <2>3. CASE VaultLogin
    <3>1. PICK r \in Renewable, m \in MaxTTLs :
            fresh' = NewToken(r, m) /\ reply' = Told(NewToken(r, m))
      BY <1>1, <2>3 DEF VaultLogin
    <3>2. /\ NewToken(r, m) \in Tokens /\ NewToken(r, m).left >= 3
          /\ ~NewToken(r, m).capped => NewToken(r, m).left = TTL * 3
      BY NewTokens
    <3>3. /\ reply'.is = "ok" /\ reply'.ttl > 0
          /\ ~fresh'.capped => reply'.ttl = TTL
      BY <3>1, <3>2, Tells
    <3> QED
      BY <1>2, <2>3, <3>3 DEF VaultAnswers, VaultLogin, Served, client, world
  <2> QED
    BY <1>2, <2>1, <2>2, <2>3 DEF VaultAnswers
<1>3. ASSUME LoopTop PROVE Served'
  BY <1>1, <1>3 DEF LoopTop, Served, NoCall, Step, world
<1>4. ASSUME Awake PROVE Served'
  BY <1>1, <1>4 DEF Awake, Call, Pending, Served, Step, world
<1>5. ASSUME LookupReturns PROVE Served'
  <2>1. CASE Call("renew")
    <3>1. reply.is = "ok" /\ reply.renewable
      BY <1>5, <2>1 DEF LookupReturns, Call, Usable, Reauthenticate
    <3> QED
      BY <1>1, <1>5, <2>1, <3>1 DEF LookupReturns, Call, Served, Step, world
  <2>2. CASE pc' \in {"loop", "credential"}
    BY <1>1, <1>5, <2>2 DEF LookupReturns, Served, Step, world
  <2> QED
    BY <1>5, <2>1, <2>2 DEF LookupReturns, Reauthenticate
<1>6. ASSUME RenewReturns PROVE Served'
  <2>1. pc' \in {"loop", "credential"}
    BY <1>6 DEF RenewReturns, Reauthenticate
  <2> QED
    BY <1>1, <1>6, <2>1 DEF RenewReturns, Served, NoCall, Step, world
<1>7. ASSUME TryLogin PROVE Served'
  <2>1. sent' = 1 /\ Call("login")
    BY <1>1, <1>7 DEF TryLogin, Credential
  <2> QED
    BY <1>1, <1>7, <2>1 DEF TryLogin, Call, Served, Step, world
<1>8. ASSUME LoginReturns PROVE Served'
  <2>1. Usable(reply)
    BY <1>8, EnoughTime DEF LoginReturns, Served, Usable
  <2> QED
    BY <1>1, <1>8, <2>1 DEF LoginReturns, Served, NoCall, world
<1>9. ASSUME Tick PROVE Served'
  <2>1. /\ token'.renewable = token.renewable /\ token'.capped = token.capped
        /\ fresh'.capped = fresh.capped
    BY <1>9, Typed, Ages DEF Tick
  <2> QED
    BY <1>1, <1>9, <2>1 DEF Tick, Served, world
<1>10. ~Faults
  BY Typed
  DEF Faults, VaultDown, Revoke, LoseAnswer, RotateRole, EmptyFiles, Cancel, Fault
<1>11. ~(CallFails \/ Retried \/ StopWaiting \/ VaultUp \/ WriteFiles)
  BY <1>1 DEF CallFails, Retried, StopWaiting, VaultUp, WriteFiles, Served
<1> QED
  BY <1>2, <1>3, <1>4, <1>5, <1>6, <1>7, <1>8, <1>9, <1>10, <1>11 DEF Next, Goroutine

\* The margin covers the calls.
LEMMA MarginKeeps ==
  ASSUME TypeOK, Paced, LongEnough, Served, Margin, Next, faults' = 0
  PROVE  Margin'
<1>1. up /\ ~cancelled /\ file = role /\ role = 1 /\ sent = 1
  BY DEF Served
<1> USE DEF Margin
<1>2. ASSUME VaultAnswers PROVE Margin'
  <2>1. CASE VaultLookup
    BY <1>2, <2>1 DEF VaultAnswers, VaultLookup, client
  <2>2. CASE VaultRenew
    <3>1. token'.capped = token.capped
      BY <2>2, Typed DEF VaultRenew, Tokens
    <3>2. ASSUME ~token.capped PROVE token'.left = TTL * 3
      <4>1. token.left > 0 /\ token.renewable
        BY <1>2, <2>2, <3>2, Typed, EnoughTime DEF VaultRenew, VaultAnswers, Served
      <4>2. Granted(token) = TTL * 3
        BY <3>2, Typed, GrantedNat
      <4> QED
        BY <4>1, <4>2, <2>2, Typed DEF VaultRenew, Valid, Tokens
    <3> QED
      BY <1>2, <2>2, <3>1, <3>2, Typed, EnoughTime DEF VaultAnswers, VaultRenew, client
  <2>3. CASE VaultLogin
    <3>1. PICK r \in Renewable, m \in MaxTTLs : fresh' = NewToken(r, m)
      BY <1>1, <2>3 DEF VaultLogin
    <3>2. ~fresh'.capped => fresh'.left = TTL * 3
      BY <3>1, NewTokens
    <3> QED
      BY <1>2, <2>3, <3>2, Typed, EnoughTime DEF VaultAnswers, VaultLogin, client
  <2> QED
    BY <1>2, <2>1, <2>2, <2>3 DEF VaultAnswers
<1>3. ASSUME LoopTop PROVE Margin'
  <2>1. UntilNextCheck <= lease.renewIn
    BY Typed, Constants DEF UntilNextCheck, Lesser
  <2> QED
    BY <1>1, <1>3, <2>1 DEF LoopTop, Step
<1>4. ASSUME Awake PROVE Margin'
  <2>1. pc' = "lookup" /\ age' = 0 /\ UNCHANGED <<lease, token>> /\ pc = "sleep"
    BY <1>4 DEF Awake, Call, Step
  <2> QED
    BY <2>1, Typed, EnoughTime
<1>5. ASSUME LookupReturns PROVE Margin'
  <2> DEFINE sooner == Lesser(lease.renewIn, LeaseFrom(reply).renewIn)
  <2>1. /\ pc = "lookup" /\ token' = token
        /\ ~token.capped => token.left >= TTL - 2 * Latency
    BY <1>5, Typed, EnoughTime DEF LookupReturns, Step
  <2>2. CASE Reauthenticate
    BY <2>1, <2>2 DEF Reauthenticate
  <2>3. CASE Usable(reply) /\ ~Reauthenticate
    <3>1. sooner \in Nat /\ sooner <= lease.renewIn /\ lease'.renewIn = sooner
      BY <1>5, <2>3, Typed, Leased DEF LookupReturns, Lesser
    <3>2. CASE sooner > 0 /\ pc' = "loop"
      <4> HIDE DEF sooner
      <4> QED
        BY <2>1, <3>1, <3>2, Typed, EnoughTime
    <3>3. CASE sooner = 0 /\ Call("renew")
      <4>1. pc' = "renew" /\ age' = 0 /\ reply' = Pending
        BY <3>3 DEF Call
      <4> QED
        BY <2>1, <4>1, Typed, EnoughTime
    <3> QED
      BY <1>5, <2>3, <3>2, <3>3 DEF LookupReturns
  <2> QED
    BY <1>5, <2>2, <2>3 DEF LookupReturns
<1>6. ASSUME RenewReturns PROVE Margin'
  <2>1. pc = "renew" /\ token' = token /\ pc' \in {"loop", "credential"}
    BY <1>6 DEF RenewReturns, Reauthenticate, Step
  <2>2. CASE token.capped
    BY <2>1, <2>2
  <2>3. CASE ~token.capped
    <3>1. /\ Usable(reply) /\ reply.ttl = TTL
          /\ token.left >= 3 * TTL - Latency
      BY <1>6, <2>3, Typed, EnoughTime DEF RenewReturns, Served, Usable, Step
    <3>2. pc' = "loop" /\ lease'.renewIn = 2 * TTL
      BY <1>6, <3>1, Typed, Leased DEF RenewReturns, KeepLease
    <3> QED
      BY <2>1, <3>1, <3>2, EnoughTime
  <2> QED
    BY <2>2, <2>3
<1>7. ASSUME TryLogin PROVE Margin'
  <2>1. pc = "credential" /\ Call("login") /\ token' = token
    BY <1>1, <1>7 DEF TryLogin, Credential, Step
  <2>2. pc' = "login" /\ age' = 0 /\ reply' = Pending
    BY <2>1 DEF Call
  <2> QED
    BY <2>1, <2>2, EnoughTime, Typed
<1>8. ASSUME LoginReturns PROVE Margin'
  <2>1. /\ Usable(reply)
        /\ ~fresh.capped => reply.ttl = TTL /\ fresh.left >= 3 * TTL - Latency
    BY <1>8, Typed, EnoughTime DEF LoginReturns, Served, Usable
  <2>2. pc' = "loop" /\ lease'.renewIn = 2 * reply.ttl /\ token' = fresh
    BY <1>8, <2>1, Typed, Leased DEF LoginReturns
  <2> QED
    BY <2>1, <2>2, EnoughTime
<1>9. ASSUME Tick PROVE Margin'
  <2>1. /\ token'.left = Less(token.left) /\ fresh'.left = Less(fresh.left)
        /\ token'.capped = token.capped /\ fresh'.capped = fresh.capped
        /\ lease'.renewIn = Less(lease.renewIn) /\ wait' = Less(wait)
        /\ pc' = pc /\ reply' = reply
    BY <1>9, Typed, Ages DEF Tick, Leases
  <2>2. /\ token'.left >= token.left - 1 /\ fresh'.left >= fresh.left - 1
        /\ token'.left \in Nat /\ fresh'.left \in Nat
    BY <2>1, Typed DEF Less
  <2>3. CASE pc = "sleep"
    <3>1. wait > 0 /\ wait <= lease.renewIn
      BY <1>9, <2>3 DEF Tick
    <3>2. wait' = wait - 1 /\ lease'.renewIn = lease.renewIn - 1
      BY <2>1, <3>1, Typed DEF Less
    <3> QED
      BY <2>1, <2>2, <2>3, <3>1, <3>2, Typed, EnoughTime
  <2>4. CASE pc \in {"lookup", "renew", "login"}
    <3>1. age' = age + 1
      BY <1>9, <2>4 DEF Tick
    <3>2. lease.renewIn > 0 => lease'.renewIn = lease.renewIn - 1
      BY <2>1, Typed DEF Less
    <3>3. lease.renewIn = 0 => lease'.renewIn = 0
      BY <2>1 DEF Less
    <3>4. CASE pc = "lookup"
      BY <2>1, <2>2, <3>1, <3>2, <3>3, <3>4, Typed, EnoughTime
    <3>5. CASE pc = "renew"
      BY <2>1, <2>2, <3>1, <3>5, Typed, EnoughTime
    <3>6. CASE pc = "login"
      BY <2>1, <2>2, <3>1, <3>6, Typed, EnoughTime
    <3> QED
      BY <2>4, <3>4, <3>5, <3>6
  <2> QED
    BY <1>9, <2>3, <2>4 DEF Tick, Served
<1>10. ~Faults
  BY Typed
  DEF Faults, VaultDown, Revoke, LoseAnswer, RotateRole, EmptyFiles, Cancel, Fault
<1>11. ~(CallFails \/ Retried \/ StopWaiting \/ VaultUp \/ WriteFiles)
  BY <1>1 DEF CallFails, Retried, StopWaiting, VaultUp, WriteFiles, Served
<1> QED
  BY <1>2, <1>3, <1>4, <1>5, <1>6, <1>7, <1>8, <1>9, <1>10, <1>11 DEF Next, Goroutine

-----------------------------------------------------------------------------
LEMMA Invariant == Spec => []Inv
<1>1. Inv /\ Next => Inv'
  <2> SUFFICES ASSUME Inv, Next PROVE Inv'
    OBVIOUS
  <2>1. TypeOK' /\ Paced'
    BY TypeKeeps, PacedKeeps DEF Inv
  <2>2. faults' = 0 => faults = 0
    <3>1. faults \in Nat
      BY Typed DEF Inv
    <3>2. faults' = faults \/ faults' = faults + 1
      BY DEF Next, Goroutine, LoopTop, Awake, LookupReturns, RenewReturns, TryLogin,
             LoginReturns, Retried, StopWaiting, Step, VaultAnswers, CallFails, Tick,
             Faults, VaultDown, Revoke, LoseAnswer, RotateRole, EmptyFiles, Cancel,
             Fault, VaultUp, WriteFiles
    <3> QED
      BY <3>1, <3>2
  <2>3. ASSUME LongEnough', faults' = 0 PROVE Served' /\ Margin'
    <3>1. LongEnough /\ faults = 0
      BY <2>2, <2>3 DEF LongEnough
    <3> QED
      BY <2>3, <3>1, ServedKeeps, MarginKeeps DEF Inv
  <2> QED
    BY <2>1, <2>3 DEF Inv
<1>2. Inv /\ UNCHANGED vars => Inv'
  BY DEF Inv, TypeOK, Paced, Served, Margin, LongEnough, Pending, vars
<1> QED
  BY <1>1, <1>2, InitHolds, PTL DEF Spec

\* The state of the lifecycle keeps its type, for all settings and leases.
THEOREM TypeCorrect == Spec => []TypeOK
<1>1. Inv => TypeOK
  BY DEF Inv
<1> QED
  BY <1>1, Invariant, PTL

\* RunTokenLifecycle never makes more than three calls at one instant, whatever
\* TTLs Vault answers with, whatever fails, and for all intervals.
THEOREM NeverSpins == Spec => []NoSpin
<1>1. Inv => NoSpin
  BY Typed DEF Inv, Paced, NoSpin, MaxCalls
<1> QED
  BY <1>1, Invariant, PTL

\* A TTL whose third part is longer than three calls to Vault is enough (a TTL of
\* more than nine times the latency, both in one unit): while nothing goes wrong a
\* token without a maximum life is valid at every instant.
THEOREM TokenKept == Spec => []KeepsToken
<1>1. Inv => KeepsToken
  <2> SUFFICES ASSUME Inv, LongEnough, faults = 0, ~token.capped
               PROVE  token.left > 0
    BY DEF KeepsToken, Valid
  <2>1. TypeOK /\ Served /\ Margin
    BY DEF Inv
  <2>2. pc \in {"loop", "sleep", "lookup", "renew", "credential", "login"}
    BY <2>1 DEF TypeOK, Served
  <2> QED
    BY <2>1, <2>2, Typed, EnoughTime DEF Margin
<1> QED
  BY <1>1, Invariant, PTL

-----------------------------------------------------------------------------
(***************************************************************************)
(* Recovery.  A login that Vault grants helps only if its token outlives   *)
(* the call: the weakest thing to ask of the TTLs, and PromptRecovery is   *)
(* false without it.                                                       *)
(***************************************************************************)
Outlives ==
  /\ TTL * Second > Latency
  /\ \A m \in MaxTTLs : m = 0 \/ m * Second > Latency

Longest == TooLong - 1

\* No wait is longer than its interval.
Waits ==
  /\ pc = "sleep" => wait <= TokenCheckInterval
  /\ pc = "retry" => wait <= AuthRetryMaximum

\* How long the token may have been invalid, at each point of the loop.  A login
\* under way was made with the right credential, and is granted a token that is
\* still alive when its answer comes, or else the token was lost after it was made.
Prompt ==
  /\ role > 0
  /\ Waits
  /\ invalidFor > 0 => up /\ file = role /\ ~cancelled
  /\ invalidFor > 0 /\ Valid(token) => pc = "loop" \/ (pc = "sleep" /\ wait > 0)
  /\ invalidFor <= Longest
  /\ ~Valid(token) =>
       /\ pc = "loop" => invalidFor <= Latency
       /\ pc = "sleep" => invalidFor + wait <= TokenCheckInterval + Latency
  /\ pc = "lookup" =>
       invalidFor <= IF reply.is = "ok" THEN age ELSE TokenCheckInterval + Latency + age
  /\ pc = "renew" => invalidFor <= IF reply.is = "ok" THEN age ELSE Latency + age
  /\ pc = "retry" => invalidFor + wait <= AuthRetryMaximum + Latency
  /\ pc = "credential" => invalidFor <= Longest - Latency
  /\ pc = "login" =>
       \/ invalidFor <= age
       \/ /\ sent = role /\ invalidFor <= Longest - Latency + age
          /\ \/ reply = Pending
             \/ reply.is = "ok" /\ reply.ttl > 0 /\ fresh.left + age > Latency

LEMMA LongestCovers ==
  /\ Longest \in Nat /\ TooLong = Longest + 1
  /\ Longest >= TokenCheckInterval + 3 * Latency
  /\ Longest >= AuthRetryMaximum + 2 * Latency
  BY Constants DEF Longest, TooLong

\* Sums of times.
LEMMA Sums ==
  /\ \A m, n \in Nat : m + n \in Nat /\ 0 <= m + n
  /\ \A i, w, m, n \in Nat : i <= n /\ w <= m => i + w <= m + n
  OBVIOUS

\* A state in which the token has not been found invalid for any time.
LEMMA NothingLost ==
  ASSUME TypeOK', Waits', role' > 0, invalidFor' = 0
  PROVE  Prompt'
<1>1. /\ Latency \in Nat /\ age' \in Nat /\ wait' \in Nat /\ invalidFor' \in Nat
      /\ TokenCheckInterval \in Nat /\ AuthRetryMaximum \in Nat
  BY Constants DEF TypeOK
<1>2. Longest \in Nat /\ invalidFor' <= Latency /\ invalidFor' <= Longest
      /\ invalidFor' <= age' /\ invalidFor' <= Longest - Latency
  BY <1>1, LongestCovers
<1>3. /\ pc' = "sleep" => invalidFor' + wait' <= TokenCheckInterval + Latency
      /\ pc' = "retry" => invalidFor' + wait' <= AuthRetryMaximum + Latency
  BY <1>1, <1>2, Sums DEF Waits
<1>4. Latency + age' \in Nat /\ TokenCheckInterval + Latency + age' \in Nat
  BY <1>1, Sums
<1>5. /\ invalidFor' <= Latency + age'
      /\ invalidFor' <= TokenCheckInterval + Latency + age'
  BY <1>4
<1> QED
  BY <1>2, <1>3, <1>5 DEF Prompt

LEMMA AliveOnArrival ==
  ASSUME Outlives, NEW r \in Renewable, NEW m \in MaxTTLs
  PROVE  /\ NewToken(r, m).left \in Nat /\ NewToken(r, m).left > Latency
         /\ Told(NewToken(r, m)).is = "ok" /\ Told(NewToken(r, m)).ttl > 0
<1>1. NewToken(r, m) \in Tokens /\ NewToken(r, m).left >= 3
  BY NewTokens
<1>2. Told(NewToken(r, m)).is = "ok" /\ Told(NewToken(r, m)).ttl > 0
  BY <1>1, Tells
<1>3. NewToken(r, m).left = (IF m = 0 THEN TTL ELSE Lesser(TTL, m)) * Second
  BY DEF NewToken
<1>4. m \in Nat
  BY TokenAssumption
<1>5. NewToken(r, m).left > Latency
  BY <1>3, <1>4, Constants DEF Outlives, Lesser, Second
<1> QED
  BY <1>1, <1>2, <1>5 DEF Tokens

LEMMA WaitsKeep ==
  ASSUME TypeOK, Waits, Next
  PROVE  Waits'
<1>1. ASSUME LoopTop PROVE Waits'
  <2>1. UntilNextCheck \in Nat /\ UntilNextCheck <= TokenCheckInterval
    BY Typed, Constants DEF UntilNextCheck, Lesser
  <2> QED
    BY <1>1, <2>1 DEF LoopTop, Waits
<1>2. ASSUME RetryLater PROVE Waits'
  BY <1>2, Typed, DelayWithin DEF RetryLater, Waits
<1>3. ASSUME Tick PROVE Waits'
  BY <1>3, Typed, Constants DEF Tick, Waits, Less
<1>4. ASSUME UNCHANGED <<pc, wait>> PROVE Waits'
  BY <1>4 DEF Waits
<1>5. ASSUME pc' \notin {"sleep", "retry"} PROVE Waits'
  BY <1>5 DEF Waits
<1>6. ASSUME VaultAnswers \/ CallFails \/ Faults \/ VaultUp \/ WriteFiles
      PROVE  UNCHANGED <<pc, wait>>
  BY <1>6 DEF VaultAnswers, CallFails, VaultUp, WriteFiles, client,
       Faults, VaultDown, Revoke, LoseAnswer, RotateRole, EmptyFiles, Cancel, Fault
<1>7. ASSUME Awake \/ LookupReturns \/ RenewReturns \/ Retried \/ StopWaiting
      PROVE  pc' \notin {"sleep", "retry"}
  BY <1>7 DEF Awake, LookupReturns, RenewReturns, Retried, StopWaiting, Call,
       Reauthenticate
<1>8. ASSUME TryLogin \/ LoginReturns
      PROVE  RetryLater \/ pc' \notin {"sleep", "retry"}
  BY <1>8 DEF TryLogin, LoginReturns, Call
<1> QED
  BY <1>1, <1>2, <1>3, <1>4, <1>5, <1>6, <1>7, <1>8 DEF Next, Goroutine

LEMMA PromptStarts ==
  ASSUME Init
  PROVE  Prompt
<1>1. invalidFor = 0 /\ wait = 0 /\ role = 1 /\ pc = "loop"
  BY DEF Init
<1> QED
  BY <1>1, LongestCovers, Constants DEF Prompt, Waits

\* Each step of the loop stays within the time its place allows, and a step that
\* Vault or the operators get wrong starts the count again.
LEMMA PromptKeeps ==
  ASSUME TypeOK, TypeOK', Paced, Outlives, Prompt, Next
  PROVE  Prompt'
<1>1. Waits' /\ role' > 0
  <2>1. role' = role \/ role' = role + 1
    BY DEF Next, Goroutine, LoopTop, Awake, LookupReturns, RenewReturns, TryLogin,
           LoginReturns, Retried, StopWaiting, Step, VaultAnswers, CallFails, Tick,
           Faults, VaultDown, Revoke, LoseAnswer, RotateRole, EmptyFiles, Cancel,
           VaultUp, WriteFiles, world
  <2> QED
    BY <2>1, WaitsKeep, Typed DEF Prompt
<1>2. ASSUME invalidFor' = 0 PROVE Prompt'
  BY <1>1, <1>2, NothingLost
<1>3. /\ role > 0 /\ Longest \in Nat /\ invalidFor \in Nat
      /\ Longest >= TokenCheckInterval + 3 * Latency
      /\ Longest >= AuthRetryMaximum + 2 * Latency
      /\ wait' \in Nat /\ age' \in Nat
  BY LongestCovers, Typed, Constants DEF Prompt, TypeOK
<1>4. ASSUME invalidFor > 0 PROVE up /\ file = role /\ ~cancelled
  BY <1>4 DEF Prompt
<1>5. ASSUME VaultAnswers, invalidFor > 0 PROVE Prompt'
  <2>1. /\ pc' = pc /\ wait' = wait /\ age' = age /\ sent' = sent
        /\ invalidFor' = invalidFor /\ reply = Pending
        /\ up' = up /\ file' = file /\ role' = role /\ cancelled' = cancelled
    BY <1>5 DEF VaultAnswers, client, world, history
  <2>2. ~Valid(token)
    BY <1>5 DEF Prompt, VaultAnswers, VaultLookup, VaultRenew, VaultLogin
  <2>3. CASE VaultLookup \/ VaultRenew
    <3>1. reply' = Refused /\ token' = token /\ pc \in {"lookup", "renew"}
      BY <2>2, <2>3 DEF VaultLookup, VaultRenew
    <3> QED
      BY <1>5, <2>1, <2>2, <3>1 DEF Prompt, Waits, Refused, Pending, Valid
  <2>4. CASE VaultLogin /\ sent = role
    <3>1. PICK r \in Renewable, m \in MaxTTLs :
            fresh' = NewToken(r, m) /\ reply' = Told(NewToken(r, m))
      BY <2>4 DEF VaultLogin
    <3>2. /\ pc = "login" /\ token' = token
          /\ fresh'.left \in Nat /\ fresh'.left > Latency
          /\ reply'.is = "ok" /\ reply'.ttl > 0
      BY <2>4, <3>1, AliveOnArrival DEF VaultLogin
    <3>3. invalidFor <= age \/ invalidFor <= Longest - Latency + age
      BY <3>2 DEF Prompt
    <3>4. fresh'.left + age > Latency
      BY <3>2, Typed, Constants
    <3> QED
      BY <1>1, <1>5, <2>1, <2>2, <2>4, <3>2, <3>3, <3>4 DEF Prompt, Valid
  <2>5. CASE VaultLogin /\ sent # role
    <3>1. pc = "login" /\ token' = token /\ invalidFor <= age
      BY <2>5 DEF VaultLogin, Prompt
    <3> QED
      BY <1>1, <1>5, <2>1, <2>2, <3>1 DEF Prompt, Valid
  <2> QED
    BY <1>5, <2>3, <2>4, <2>5 DEF VaultAnswers
<1>6. ASSUME LoopTop, invalidFor > 0 PROVE Prompt'
  <2>1. /\ pc = "loop" /\ pc' = "sleep" /\ wait' = UntilNextCheck
        /\ UNCHANGED <<token, invalidFor, up, file, role, cancelled>>
    BY <1>4, <1>6 DEF LoopTop, Step, world
  <2>2. wait' > 0 /\ wait' <= TokenCheckInterval
    BY <2>1, Typed, Constants DEF UntilNextCheck, Lesser, Paced
  <2>3. ~Valid(token) => invalidFor + wait' <= TokenCheckInterval + Latency
    BY <1>3, <2>1, <2>2, Constants DEF Prompt
  <2> QED
    BY <1>1, <1>6, <2>1, <2>2, <2>3 DEF Prompt, Valid
<1>7. ASSUME Awake, invalidFor > 0 PROVE Prompt'
  <2>1. /\ pc = "sleep" /\ wait = 0 /\ pc' = "lookup" /\ age' = 0 /\ reply' = Pending
        /\ UNCHANGED <<token, invalidFor, up, file, role, cancelled>>
    BY <1>7 DEF Awake, Step, world, Call
  <2>2. ~Valid(token) /\ invalidFor <= TokenCheckInterval + Latency
    BY <1>3, <1>7, <2>1 DEF Prompt
  <2> QED
    BY <1>1, <1>7, <2>1, <2>2, Constants DEF Prompt, Valid, Pending
<1>8. ASSUME LookupReturns, invalidFor > 0 PROVE Prompt'
  <2>1. /\ pc = "lookup" /\ UNCHANGED <<token, invalidFor, up, file, role, cancelled>>
        /\ ~Valid(token)
    BY <1>8 DEF LookupReturns, Step, world, Prompt
  <2>2. invalidFor <= TokenCheckInterval + 2 * Latency
    BY <1>3, <2>1, Typed, Constants DEF Prompt
  <2>3. Usable(reply) => invalidFor <= Latency
    BY <1>3, <2>1, Typed, Constants DEF Prompt, Usable
  <2>4. CASE pc' = "credential"
    BY <1>1, <1>3, <1>8, <2>1, <2>2, <2>4, Constants DEF Prompt, Valid
  <2>5. CASE Usable(reply) /\ pc' = "loop"
    BY <1>1, <1>8, <2>1, <2>3, <2>5 DEF Prompt, Valid
  <2>6. CASE Usable(reply) /\ Call("renew")
    <3>1. pc' = "renew" /\ age' = 0 /\ reply' = Pending
      BY <2>6 DEF Call
    <3> QED
      BY <1>1, <1>8, <2>1, <2>3, <2>6, <3>1, Constants DEF Prompt, Valid, Pending
  <2> QED
    BY <1>8, <2>4, <2>5, <2>6 DEF LookupReturns, Reauthenticate
<1>9. ASSUME RenewReturns, invalidFor > 0 PROVE Prompt'
  <2>1. /\ pc = "renew" /\ UNCHANGED <<token, invalidFor, up, file, role, cancelled>>
        /\ ~Valid(token)
    BY <1>9 DEF RenewReturns, Step, world, Prompt
  <2>2. invalidFor <= 2 * Latency
    BY <1>3, <2>1, Typed, Constants DEF Prompt
  <2>3. Usable(reply) => invalidFor <= Latency
    BY <1>3, <2>1, Typed, Constants DEF Prompt, Usable
  <2>4. CASE pc' = "credential"
    BY <1>1, <1>3, <1>9, <2>1, <2>2, <2>4, Constants DEF Prompt, Valid
  <2>5. CASE Usable(reply) /\ pc' = "loop"
    BY <1>1, <1>9, <2>1, <2>3, <2>5 DEF Prompt, Valid
  <2> QED
    BY <1>9, <2>4, <2>5 DEF RenewReturns, Reauthenticate
<1>10. ASSUME TryLogin, invalidFor > 0 PROVE Prompt'
  <2>1. /\ pc = "credential"
        /\ UNCHANGED <<token, invalidFor, up, file, role, cancelled>> /\ ~Valid(token)
    BY <1>10 DEF TryLogin, Step, world, Prompt
  <2>2. sent' = file /\ Call("login")
    BY <1>3, <1>4, <1>10 DEF TryLogin, Credential
  <2>3. pc' = "login" /\ age' = 0 /\ reply' = Pending /\ sent' = role'
    BY <1>4, <1>10, <2>1, <2>2 DEF Call
  <2>4. invalidFor <= Longest - Latency
    BY <2>1 DEF Prompt
  <2>5. invalidFor' <= Longest - Latency + age'
    BY <1>3, <2>1, <2>3, <2>4, Constants
  <2> QED
    BY <1>1, <1>10, <2>1, <2>3, <2>5 DEF Prompt, Valid
<1>11. ASSUME LoginReturns, invalidFor > 0 PROVE Prompt'
  <2>1. /\ pc = "login" /\ UNCHANGED <<invalidFor, up, file, role, cancelled>>
        /\ reply # Pending /\ ~Valid(token)
    BY <1>11 DEF LoginReturns, world, Prompt
  <2>2. CASE invalidFor <= age
    <3>1. invalidFor <= Latency
      BY <1>3, <2>2, Typed, Constants
    <3>2. CASE Usable(reply)
      <4>1. pc' = "loop"
        BY <1>11, <3>2 DEF LoginReturns
      <4> QED
        BY <1>1, <1>11, <2>1, <3>1, <4>1 DEF Prompt
    <3>3. CASE ~Usable(reply)
      <4>1. pc' = "retry" /\ wait' <= AuthRetryMaximum /\ token' = token
        BY <1>11, <3>3, Typed, DelayWithin DEF LoginReturns, RetryLater
      <4>2. invalidFor + wait' <= AuthRetryMaximum + Latency
        BY <1>3, <3>1, <4>1, Sums, Constants
      <4> QED
        BY <1>1, <1>11, <2>1, <4>1, <4>2 DEF Prompt, Valid
    <3> QED
      BY <3>2, <3>3
  <2>3. CASE ~(invalidFor <= age)
    <3>1. reply.is = "ok" /\ reply.ttl > 0 /\ fresh.left + age > Latency
      BY <2>1, <2>3 DEF Prompt
    <3>2. pc' = "loop" /\ token' = fresh
      BY <1>11, <3>1 DEF LoginReturns, Usable
    <3>3. fresh.left > 0
      BY <3>1, Typed, Constants
    <3> QED
      BY <1>1, <1>11, <2>1, <3>2, <3>3 DEF Prompt, Valid
  <2> QED
    BY <2>2, <2>3
<1>12. ASSUME Retried, invalidFor > 0 PROVE Prompt'
  <2>1. /\ pc = "retry" /\ wait = 0 /\ pc' = "credential"
        /\ UNCHANGED <<token, invalidFor, up, file, role, cancelled>>
        /\ ~Valid(token)
    BY <1>12 DEF Retried, Step, world, Prompt
  <2>2. invalidFor <= AuthRetryMaximum + Latency
    BY <1>3, <2>1 DEF Prompt
  <2>3. invalidFor <= Longest - Latency
    BY <1>3, <2>2, Constants
  <2> QED
    BY <1>1, <1>12, <2>1, <2>3 DEF Prompt, Valid
<1>13. ASSUME Tick, invalidFor' # 0 PROVE Prompt'
  <2>1. /\ UNCHANGED <<pc, sent, reply, up, file, role, cancelled>>
        /\ wait' = Less(wait) /\ token' = Older(token) /\ fresh' = Older(fresh)
        /\ age' = IF age < Latency THEN age + 1 ELSE age
    BY <1>13 DEF Tick, world
  <2>2. up /\ file = role /\ ~cancelled /\ ~Valid(token)
    BY <1>13 DEF Tick
  <2>3. invalidFor' = Lesser(invalidFor + 1, TooLong)
    BY <1>13, <2>2 DEF Tick
  <2>4. invalidFor' \in Nat /\ invalidFor' <= invalidFor + 1
    BY <1>3, <2>3, LongestCovers DEF Lesser
  <2>5. ~Valid(token')
    BY <2>1, <2>2, Typed, Ages DEF Valid, Less
  <2>6. CASE pc = "sleep"
    <3>1. wait > 0 /\ wait' = wait - 1
      BY <1>13, <2>1, <2>6, Typed DEF Tick, Less
    <3>2. invalidFor + wait <= TokenCheckInterval + Latency
      BY <2>2, <2>6 DEF Prompt
    <3>3. /\ invalidFor' + wait' <= TokenCheckInterval + Latency
          /\ invalidFor' <= Longest
      BY <1>3, <2>4, <3>1, <3>2, Typed, Constants
    <3> QED
      BY <1>1, <2>1, <2>2, <2>5, <2>6, <3>3 DEF Prompt
  <2>7. CASE pc = "retry"
    <3>1. wait > 0 /\ wait' = wait - 1
      BY <1>13, <2>1, <2>7, Typed DEF Tick, Less
    <3>2. invalidFor + wait <= AuthRetryMaximum + Latency
      BY <2>7 DEF Prompt
    <3>3. /\ invalidFor' + wait' <= AuthRetryMaximum + Latency
          /\ invalidFor' <= Longest
      BY <1>3, <2>4, <3>1, <3>2, Typed, Constants
    <3> QED
      BY <1>1, <2>1, <2>2, <2>5, <2>7, <3>3 DEF Prompt
  <2>8. CASE pc \in {"lookup", "renew", "login"}
    <3>1. age < Latency /\ age' = age + 1
      BY <1>13, <2>1, <2>8 DEF Tick
    <3>2. CASE pc = "lookup"
      <4>1. /\ reply.is = "ok" => invalidFor' <= age'
            /\ reply.is # "ok" => invalidFor' <= TokenCheckInterval + Latency + age'
            /\ invalidFor' <= Longest
        BY <1>3, <2>4, <3>1, <3>2, Typed, Constants DEF Prompt
      <4> QED
        BY <1>1, <2>1, <2>2, <2>5, <3>2, <4>1 DEF Prompt
    <3>3. CASE pc = "renew"
      <4>1. /\ reply.is = "ok" => invalidFor' <= age'
            /\ reply.is # "ok" => invalidFor' <= Latency + age'
            /\ invalidFor' <= Longest
        BY <1>3, <2>4, <3>1, <3>3, Typed, Constants DEF Prompt
      <4> QED
        BY <1>1, <2>1, <2>2, <2>5, <3>3, <4>1 DEF Prompt
    <3>4. CASE pc = "login" /\ invalidFor <= age
      <4>1. invalidFor' <= age' /\ invalidFor' <= Longest
        BY <1>3, <2>4, <3>1, <3>4, Typed, Constants
      <4> QED
        BY <1>1, <2>1, <2>2, <2>5, <3>4, <4>1 DEF Prompt
    <3>5. CASE pc = "login" /\ ~(invalidFor <= age)
      <4>1. /\ sent = role /\ invalidFor <= Longest - Latency + age
            /\ \/ reply = Pending
               \/ reply.is = "ok" /\ reply.ttl > 0 /\ fresh.left + age > Latency
        BY <3>5 DEF Prompt
      <4>2. invalidFor' <= Longest - Latency + age' /\ invalidFor' <= Longest
        BY <1>3, <2>4, <3>1, <4>1, Typed, Constants
      <4>3. fresh'.left = Less(fresh.left)
        BY <2>1, Typed, Ages
      <4>4. fresh.left + age > Latency => fresh'.left + age' > Latency
        BY <3>1, <4>3, Typed, Constants DEF Less
      <4> QED
        BY <1>1, <2>1, <2>2, <2>5, <3>5, <4>1, <4>2, <4>4 DEF Prompt
    <3> QED
      BY <2>8, <3>2, <3>3, <3>4, <3>5
  <2> QED
    BY <1>13, <2>6, <2>7, <2>8 DEF Tick
<1>14. ASSUME Faults PROVE invalidFor' = 0
  BY <1>14
  DEF Faults, VaultDown, Revoke, LoseAnswer, RotateRole, EmptyFiles, Cancel, Fault
<1>15. ASSUME CallFails \/ StopWaiting \/ VaultUp \/ WriteFiles
       PROVE  invalidFor' = invalidFor /\ ~(up /\ file = role /\ ~cancelled)
  BY <1>15 DEF CallFails, StopWaiting, VaultUp, WriteFiles, Step, history
<1>16. ASSUME VaultAnswers \/ Goroutine PROVE invalidFor' = invalidFor
  BY <1>16 DEF VaultAnswers, Goroutine, LoopTop, Awake, LookupReturns, RenewReturns,
       TryLogin, LoginReturns, Retried, StopWaiting, Step, history
<1>17. invalidFor = 0 \/ invalidFor > 0
  BY <1>3
<1>18. CASE Goroutine \/ VaultAnswers
  <2>1. CASE invalidFor > 0
    BY <1>2, <1>4, <1>5, <1>6, <1>7, <1>8, <1>9, <1>10, <1>11, <1>12, <1>15, <1>18, <2>1
    DEF Goroutine
  <2> QED
    BY <1>2, <1>16, <1>17, <1>18, <2>1
<1>19. CASE CallFails \/ VaultUp \/ WriteFiles
  BY <1>2, <1>4, <1>15, <1>17, <1>19
<1> QED
  BY <1>2, <1>13, <1>14, <1>18, <1>19 DEF Next

\* A token that was lost is replaced within one check interval and three calls, or
\* one retry delay and two calls, of the moment Vault answers and the files hold the
\* right credential; for all intervals, TTLs and latencies, if tokens outlive a call.
THEOREM PromptlyRecovered ==
  ASSUME Outlives
  PROVE  Spec => []PromptRecovery
<1>1. Init => TypeOK /\ Paced /\ Prompt
  BY InitHolds, PromptStarts DEF Inv
<1>2. TypeOK /\ Paced /\ Prompt /\ [Next]_vars => (TypeOK /\ Paced /\ Prompt)'
  <2>1. ASSUME TypeOK, Paced, Prompt, Next PROVE TypeOK' /\ Paced' /\ Prompt'
    BY <2>1, TypeKeeps, PacedKeeps, PromptKeeps, Outlives
  <2>2. ASSUME TypeOK, Paced, Prompt, UNCHANGED vars
        PROVE  TypeOK' /\ Paced' /\ Prompt'
    BY <2>2 DEF TypeOK, Paced, Prompt, Waits, Valid, vars
  <2> QED
    BY <2>1, <2>2
<1>3. TypeOK /\ Paced /\ Prompt => PromptRecovery
  <2> SUFFICES ASSUME TypeOK, Prompt PROVE invalidFor < TooLong
    BY DEF PromptRecovery
  <2>1. invalidFor \in Nat /\ invalidFor <= Longest
    BY Typed DEF Prompt
  <2> QED
    BY <2>1, LongestCovers
<1> QED
  BY <1>1, <1>2, <1>3, PTL DEF Spec

=============================================================================
