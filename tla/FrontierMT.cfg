CONSTANTS
  u1 = u1
  u2 = u2
  u3 = u3
  d1 = d1
  d2 = d2
  Worker = {w1, w2, w3}
  Url = {u1, u2}
  Domain = {d1}
  DomainOf <- OneDomain
  Priority = {0, 1}
  Delay = {1}
  DefaultDelay = 0
  MaxDelay = 1
  NoUrl = NoUrl
  NoWorker = NoWorker
SPECIFICATION Spec
INVARIANTS TypeOK ExactlyOnce NoStrandedUrl
PROPERTIES AtMostOneTakenAfterShutdown Delivery BlockedWorkersLeave
