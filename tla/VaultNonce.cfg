SPECIFICATION Spec
CONSTANTS
  Sheets <- TheSheets
  IsoCodes = {"GB", "SE", "NO", "DK", "FI", "IS"}
  Tracks <- TheTracks
  RightsRecords <- TheRecords
  Batches <- TheBatches
  Slugs <- TheSlugs
  RoutedTerritories <- TheTerritories
  Wallet1 = Wallet1
  Wallet2 = Wallet2
  Malformed = Malformed
  MalformedWallet = Malformed
  VaultWallets = {Wallet1, Wallet2, Malformed}
  VaultHandlers = {h1, h2}
  PayoutLists <- MCPayouts
  Pools = {1, 3}
  Threshold = 2
  MaxProposals = 3
  MaxDeposits = 2
  SapHandlers = {h1, h2}
  Corrs = {"c1"}
  SapAmounts <- MCSapAmounts
  MaxSapCalls = 2
  Screeners = {h1, h2}
  ScreeningIds = {"s1"}
  Countries = {"CU", "CN", "FR"}
  Amounts = {1, 11}
  MaxScreenings = 2
INVARIANT
  OnePendingPerNonce
CHECK_DEADLOCK FALSE
