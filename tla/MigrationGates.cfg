SPECIFICATION FairSpec
CONSTANTS
  j1 = j1
  j2 = j2
  Nobody = Nobody
  Job <- Jobs
  MaxRows = 1
  MaxFaults = 2
  MaxDowngrades = 1
INVARIANTS IInv SealedMeansConverted RuntimeHasItsSchema
PROPERTIES ImplementsConversion RolloutEnds
