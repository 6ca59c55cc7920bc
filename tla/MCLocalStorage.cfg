SPECIFICATION FairSpec
CONSTANTS
  w1 = w1
  w2 = w2
  k1 = k1
  k2 = k2
  a1 = a1
  a2 = a2
  a3 = a3
  Thread <- TwoThreads
  CasKey <- OneKey
  SetKey <- OtherKey
  Value = {v1, v2}
  NoValue = NoValue
  NoArgs = NoArgs
  NoArc = NoArc
  Arc <- MCArc
  FailKey <- OtherKey
INVARIANTS
  TypeOK
  KeyMutex
  LocksInUse
PROPERTIES
  ImplementsAtomicStorage
  CallsReturn
