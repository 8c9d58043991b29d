CONSTANTS
  u1 = u1
  u2 = u2
  u3 = u3
  d1 = d1
  d2 = d2
  Worker = {w1, w2}
  Url = {u1, u2}
  Domain = {d1}
  DomainOf <- OneDomain
  Priority = {0, 1}
  Delay = {1}
  DefaultDelay = 1
  MaxDelay = 1
  NoUrl = NoUrl
  NoWorker = NoWorker
SPECIFICATION Spec
PROPERTY PoliteDelivery
