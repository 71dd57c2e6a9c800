SPECIFICATION Spec
CONSTANTS
  Payloads <- MCPayloads
  MaxSpans = 2
INVARIANTS StoresTheWorst KeepsWhatMatters
PROPERTIES ShownAsStored
