SPECIFICATION FairSpec
CONSTANTS
  Threads = {t1, t2}
  Groups = {g1, g2}
  StartingLimit = 1
  MaxTaskCount = 2
  MaxPush = 2
  None = None
INVARIANTS
  TypeOK
  TasksConserved
  LimitIsExact
PROPERTIES
  WaitReturnsWhenDone
  WaitAllReturns
