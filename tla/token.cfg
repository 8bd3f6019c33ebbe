SPECIFICATION FairSpec
CONSTANTS
  TTL = 4
  MaxTTLs = {0, 6}
  Renewable = {TRUE, FALSE}
  TokenCheckInterval = 5
  AuthRetryInterval = 2
  AuthRetryMaximum = 5
  Latency = 1
  MaxFaults = 3
INVARIANTS
  TypeOK
  KeepsToken
  PromptRecovery
  NoSpin
PROPERTIES
  Recovers
  ShutsDown
CHECK_DEADLOCK FALSE
