SPECIFICATION Spec
CONSTANTS
  alice = alice
  bob = bob
  zero = zero
  nobody = nobody
  k1 = k1
  k2 = k2
  v1 = v1
  v2 = v2
  AccountId <- MCAccountId
  DataId <- MCDataId
  Value <- MCValue
  DefaultAccountId = zero
  NoneOrigin = nobody
INVARIANTS
  TypeOK
  ExternalMatchesChain
  NoPanic
