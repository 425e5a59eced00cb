CONSTANTS
  Tests = {t1, t2, t3}
  Names = {n1, n2}
  NoTest = NoTest
  Narrator = t1
  MaxWritten = 4
  PodNames = {p, q}
  Events <- MCEvents
SPECIFICATION MCSpec
INVARIANTS OwnNamespace KeptOnFailure SilenceMeansDeleted PassedMeansHeld DiagnosisMissesNothing
