SPECIFICATION FairSpec
CONSTANTS
  Configurations <- AllSettings
  LoginTimeout = 4
  MaxServices = 2
  MaxFaults = 2
INVARIANTS
  TypeOK
  HealthyWhileProgressing
PROPERTIES
  Authenticates
  ShutsDown
CHECK_DEADLOCK FALSE
