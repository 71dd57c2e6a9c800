SPECIFICATION Spec
CONSTANTS
  h1 = h1
  o1 = o1
  o2 = o2
  Event = {1, 2}
  Invalid = {2}
  Webhook = {h1}
  Operator = {o1, o2}
  MaxLimit = 2
  RetryDelay = 1
  MaxTime = 1
SYMMETRY Symmetry
INVARIANTS IInv PublishedIsDelivered 
PROPERTIES PublishedIsFinal ImplementsPromise
CHECK_DEADLOCK FALSE
