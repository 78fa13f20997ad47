SPECIFICATION Spec
CONSTANTS
  MaxCp = 1000
  WholeBp = 10
  MaxMultiplierBp = 100
  MaxWindowDays = 30
  MaxRollFace = 100
  Bank = 1
  WriteOff = 2
  Residue = 3
  None = None
  Compositions <- Pools
  Replacements <- Changes
  Founders = {11, 12, 13}
  Newcomers = {14}
  Opening <- Raid
  Attendances <- Nights
  Sales <- PriceList
  Adjustments <- Gifts
  Bids <- BidMenu
  Draws <- Rngs
  MaxBatches = 4
  MaxPlans = 2
  MaxRuns = 2
  MaxBids = 3
  MaxBusy = 4
  OneRunAtATime = TRUE
  OneBidPerInstant = FALSE
INVARIANT SettlementIgnoresArrival
CHECK_DEADLOCK FALSE
