SPECIFICATION Spec
CONSTANTS
  alice = alice
  zero = zero
  nobody = nobody
  nonode = nonode
  k1 = k1
  v1 = v1
  v2 = v2
  n1 = n1
  n2 = n2
  s1 = s1
  s2 = s2
  AccountId <- MCAccountId
  DataId <- MCDataId
  Value <- MCValue
  DefaultAccountId = zero
  NoneOrigin = nobody
  Hash69 = 0
  Node <- TwoNodes
  NoNode = nonode
  Author = {n1}
  Store = {s1, s2}
  StoreOf <- Apart
  Xt <- MCXt
  block_construction <- NativeElseWasm
  importing <- OtherBoth
  MaxBlocks = 3
  MaximumBlockWeight = 5
  MaximumBlockLength = 6
  NormalBlockWeight = 4
  NormalBlockLength = 4
  InitializeWeight = 1
  FinalizeWeight = 0
  BlockHashCount = 1
  U32Max = 20
  EventIndexMax = 2
CHECK_DEADLOCK FALSE
INVARIANTS
  TypeOK
  ChainDecidesData
  ReplayProtection
  ExtrinsicsRootMatches
  NoLeak
  EventsPerExtrinsic
  WithinLimits
