CONSTANTS
  m1 = m1
  e1 = e1
  e2 = e2
  c1 = c1
  c2 = c2
  s1 = s1
  s2 = s2
  x1 = x1
  Messages = {m1}
  Deliveries = {e1, e2}
  MsgOf <- MCMsgOf
  DomainOf <- MCDomainOf
  NoDelivery = NoDelivery
  Clients = {c1}
  Slots = {s1}
  ClientOf <- MCClientOf
  Remover = Remover
  Zone = Zone
  Domains = {x1}
  NoDomain = NoDomain
  MaxConnections <- MCUnlimited
  LockTtl = 1
  DeleteTtl = 1
  GcAge = 2
  EmptyTtl = 0
  DeferTtl = 1
  MaxQueueTime = 1
  Requests = {"remove", "send"}
  Margin = 1
  AtomicInsert = TRUE
  TimelySenders = TRUE
  TimelyPush = TRUE
  MaxTime = 2
SPECIFICATION Spec
SYMMETRY SwapEntries
INVARIANTS NoLoss
CHECK_DEADLOCK FALSE
