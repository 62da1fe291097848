\* Webhooks, build results and preview requests, two at a time.
SPECIFICATION Spec
CONSTANTS
  Delivery = {1, 2, 3, 4, 5}
  Payload <- MCPayload
  Commit = {1, 2}
  Actor = {a1, a2}
  HasQueue = TRUE
  Skew = {0, 1}
  MaxClock = 1
  MaxTrouble = 2
  None = None
SYMMETRY ActorSymmetry
CHECK_DEADLOCK FALSE
INVARIANTS TypeOK EachDeliveryOnce PreviewBuildQueued StatusIsTheDeployments
 
