CONSTANTS
  m1 = m1
  e1 = e1
  e2 = e2
  c1 = c1
  c2 = c2
  s1 = s1
  s2 = s2
  x1 = x1
  Messages = {m1}
  Deliveries = {e1}
  MsgOf <- MCMsgOf
  DomainOf <- MCDomainOf
  NoDelivery = NoDelivery
  Clients = {c1}
  Slots = {s1}
  ClientOf <- MCClientOf
  Remover = Remover
  Zone = Zone
  Domains = {x1}
  NoDomain = NoDomain
  MaxConnections <- MCUnlimited
  LockTtl = 1
  DeleteTtl = 1
  GcAge = 2
  EmptyTtl = 1
  DeferTtl = 1
  MaxQueueTime = 0
  Requests = {"remove", "send"}
  Margin = 3
  AtomicInsert = TRUE
  TimelySenders = FALSE
  TimelyPush = FALSE
  MaxTime = 3
SPECIFICATION FairSpec
PROPERTIES
  AbandonedIsFreed
CHECK_DEADLOCK FALSE
