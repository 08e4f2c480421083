\* Two replicas that crash over one event with three attempts and a revival.
CONSTANTS
  a1 = a1  a2 = a2  b1 = b1
  A = A  B = B  p1 = p1  p2 = p2
  Events <- OneEach
  Tenants = {A}
  TenantOf <- TenantOfOne
  Pollers = {p1, p2}
  MaxAttempts = 3
  Limit = 1
  Headroom = 1
  MaxLocked = 1
  MaxRevivals = 1
  MaxCrashes = 2
SPECIFICATION FairSpec
INVARIANTS TypeOK AppliedOnce PoisonBounded LeaseIsExclusive
PROPERTIES ImplementsDelivery EverythingSettles StopDefersEvents
