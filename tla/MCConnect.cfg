SPECIFICATION FairSpec
CONSTANTS
  MaxSettings = 3
  Calls = {c1, c2}
INVARIANTS TypeOK NothingInClear ClientMatchesConfig ProviderRaceIsBenign
PROPERTY ConnectReturns
CHECK_DEADLOCK FALSE
