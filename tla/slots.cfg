SPECIFICATION Spec
CONSTANTS
  e1 = e1  e2 = e2  e1m = e1m
  j1 = j1  j2 = j2  j3 = j3  m1 = m1
  Job = {j1, j2, j3, m1}
  Local = {e1, e2, e1m}
  LocalOf <- Pools
  LocalMax <- OnePerPool
  Materializing = {m1}
  Requested <- Asks
  Authority = {j2, j3}
  MaxSlots = 2
  Host = Host
  AgreementLock = AgreementLock
  NoJob = NoJob
  Orphan = Orphan
INVARIANTS
  SlotReturns
  AgreedByAll
PROPERTIES
  ImplementsPool
