SPECIFICATION Spec
CONSTANTS
  MaxSteps = 3
  Receiver <- MCReceiver
  Offers <- MCOffers
  Capacity = 2
  Second = 2
  Grain = 4
  MaxTime = 20
INVARIANTS Bounded SnapshotIsFirst QualifiedByTwo PunctualIsCandidate
PROPERTY OnlyWorstEvicted
