SPECIFICATION Spec
CONSTANTS
  fire1 = fire1
  fire2 = fire2
  again1 = again1
  again2 = again2
  alone2 = alone2
  calm1 = calm1
  i1 = i1
  i2 = i2
  k1 = k1
  k2 = k2
  both = both
  twin = twin
  back = back
  solo = solo
  calm = calm
  Alert = {fire1, fire2, again1, again2, alone2, calm1}
  Firing <- Fire
  Flawed = {fire2}
  Instance = {i1, i2}
  Body <- MCBody
  InstanceOf <- MCInstanceOf
  Request = {both, twin, solo, calm}
  Identity = {k1}
  IdentityOf <- OneIdentity
INVARIANTS IInv AcceptedIsStored ProcessedOnce OneRunPerIncident IncidentShowsAnInstance
PROPERTIES AlertsAreLinked ImplementsIntake
