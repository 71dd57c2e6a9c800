SPECIFICATION FairSpec
CONSTANTS
  c1 = c1
  c2 = c2
  c3 = c3
  r1 = r1
  NoCall = NoCall
  Calls <- MCCalls
  Collects <- MCCollects
  MaxToolCalls = 3
  LastTool = 2
INVARIANTS IInv ToolsAskedOnce BatchIsWhole
PROPERTIES CallsEnd ImplementsCollection
CHECK_DEADLOCK FALSE
