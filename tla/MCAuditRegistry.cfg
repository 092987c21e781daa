SPECIFICATION RegistrySpec
CONSTANTS
  Tasks = {t1, t2}
  Optional = {t2}
  MaxAttempt = 3
INVARIANTS
  RegistryInv
PROPERTIES
  ImplementsLifecycle
