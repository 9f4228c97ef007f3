SPECIFICATION FairSpec
CONSTANTS
  Event <- MCEvent
  Consumer <- MCConsumer
  Subscribers <- MCSubscribers
  Worker = {w1, w2}
  BatchSize = 2
  LeaseTime = 2
  BaseDelay = 1
  MaxDelay = 3
  MaxAttempts = 2
  MaxFaults = 1
CHECK_DEADLOCK FALSE
INVARIANTS
  AttemptIsFencing
  OneVerdict
PROPERTIES
  AtLeastOnce
  EventuallySettled
