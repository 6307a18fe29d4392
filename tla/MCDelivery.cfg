SPECIFICATION FairSpec
CONSTANTS
  a = a
  b = b
  s = s
  h = h
  Host = {a, b}
  Subscription = {s}
  Hook = {h}
  Wants <- MCWants
  MaxEvent = 3
  FanoutCeiling = 1
  DeliveryCeiling = 1
  DeliveryTimeout = 1
  Backoff <- MCBackoff
  MaxCrash = 1
INVARIANTS
  ClaimExcludes
  ScheduleIsKept
PROPERTIES
  ClosedIsFinal
  QueueDrains
  FanoutIsExact
CONSTRAINT Scene
