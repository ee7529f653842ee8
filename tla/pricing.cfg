SPECIFICATION PricingSpec
SYMMETRY Symmetry
CONSTANTS
  Seeds <- SeededSchedules
  Inputs <- BoundaryInputs
  DefaultSpreadBPS = 100
  Spots = {0, 3, 20}
  FXRates = {0, 8, 11}
  HedgeCosts = {0, 25}
  Reloaders = {h1, h2}
  MaxGenerations = 3
INVARIANTS
  PricingTypeOK
  PricedAsConfigured
  ReloadTakesEffect
  AddsUp
  NoRoundTripGain
