SPECIFICATION FairSpec
CONSTANTS
  p1 = p1
  p2 = p2
  router = router
  m1 = m1
  m2 = m2
  m3 = m3
  a1 = a1
  a2 = a2
  a3 = a3
  NULL = NULL
  Producers <- MCProducers
  Consumers <- MCConsumers
  Msgs <- MCMsgs
  Addrs <- MCAddrs
  MutexOutcomes <- Works
INVARIANTS TypeOK MemorySafe ListInv
PROPERTIES ImplementsFifo Delivered
