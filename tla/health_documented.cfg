SPECIFICATION Spec
CONSTANTS
  Configurations <- DocumentedSettings
  LoginTimeout = 2
  MaxServices = 2
  MaxFaults = 1
INVARIANTS
  HealthyAsDocumented
CHECK_DEADLOCK FALSE
