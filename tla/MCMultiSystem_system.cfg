SPECIFICATION FairSpec
CONSTANTS
  c1 = c1
  c2 = c2
  Clients = {c1, c2}
  WarmStart = TRUE
INVARIANTS
  TypeOK
  ActiveCountIsExact
  NativeSessionMatchesState
  SleepsOnlyWhenIdle
  WarmStartMakesAFrame
PROPERTIES
  ActiveClientsAreRendered
  IdleSystemSleeps
  StopReturns
