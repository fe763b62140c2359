SPECIFICATION CeremonyFairSpec
CONSTANTS
  Builds = {"fidoh", "legacy", "neither"}
  Offers <- MCOffers
  MaxOvertakes = 3
INVARIANTS
  CeremonyTypeOK
  IInv
  AssertionIsLive
  WireBudget
  NeverAskedAgain
  FactorWasAskedFor
  FailureClassIsRight
  KeyIsNotHidden
PROPERTIES
  Spec
  LoginEnds
CHECK_DEADLOCK FALSE
