SPECIFICATION AppFairSpec
CONSTANTS
  MaxOutside = 0
  MaxSent = 3
  Runs = {1}
  Amounts = {1}
  MinAmount = 1
  MaxAmount = 2
  MaxMounts = 2
  RangeRuns = {1}
  MayOverlap = FALSE
  PutNeed = 1
  CallNeed = 1
  External = {w1, w2}
  Jobs = {1}
  MaxDialogs = 1
  MaySlip = FALSE
  StartingWith <- MCStartingWith
  Quotes <- MCOneQuote
  Placeable <- MCTwoPuts
  Spots = {1, 4}
  PairWindow = 1
  DefaultVisible = 1
  Since <- MCSince
  MaxAnswers = 2
  w1 = w1
  w2 = w2
  Wallets = {w1, w2}
  MaxRequests = 1
PROPERTIES
  ExecutingEnds RangeEnds TransferEnds IndexedIsShown BalancesCatchUp
CHECK_DEADLOCK FALSE
