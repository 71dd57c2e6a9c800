SPECIFICATION FairSpec
CONSTANTS
  h1 = h1
  o1 = o1
  o2 = o2
  Event = {1, 2}
  Invalid = {1}
  Webhook = {h1}
  Operator = {o1}
  MaxLimit = 1
  RetryDelay = 1
  MaxTime = 2
PROPERTIES EventuallyPublished
CHECK_DEADLOCK FALSE
