CONSTANTS
  m1 = m1
  e1 = e1
  e2 = e2
  c1 = c1
  c2 = c2
  s1 = s1
  s2 = s2
  x1 = x1
  Messages = {m1}
  Deliveries = {e1, e2}
  MsgOf <- MCMsgOf
  DomainOf <- MCDomainOf
  NoDelivery = NoDelivery
  Clients = {c1, c2}
  Slots = {s1, s2}
  ClientOf <- MCClientOf
  Remover = Remover
  Zone = Zone
  Domains = {x1}
  NoDomain = NoDomain
  MaxConnections <- MCUnlimited
  LockTtl = 2
  DeleteTtl = 1
  GcAge = 3
  EmptyTtl = 0
  DeferTtl = 2
  MaxQueueTime = 0
  Requests = {}
  Margin = 2
  AtomicInsert = TRUE
  TimelySenders = TRUE
  TimelyPush = TRUE
  MaxTime = 3
SPECIFICATION Spec
SYMMETRY Symmetric
INVARIANTS Consistent NoLoss OneSender SentIsLocked
CHECK_DEADLOCK FALSE
