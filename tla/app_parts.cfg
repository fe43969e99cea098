SPECIFICATION AppSpec
CONSTANTS
  MaxOutside = 1
  MaxSent = 3
  Runs = {1, 2}
  Amounts = {1}
  MinAmount = 1
  MaxAmount = 2
  MaxMounts = 2
  RangeRuns = {1, 2}
  MayOverlap = FALSE
  PutNeed = 1
  CallNeed = 1
  External = {w1, w2}
  Jobs = {1, 2}
  MaxDialogs = 2
  MaySlip = FALSE
  StartingWith <- MCStartingWith
  Quotes <- MCQuotes
  Placeable <- MCRangeAndPut
  Spots = {2, 4, 5}
  PairWindow = 1
  DefaultVisible = 1
  Since <- MCSince
  MaxAnswers = 1
  w1 = w1
  w2 = w2
  Wallets = {w1, w2}
  MaxRequests = 2
SYMMETRY MCSymmetry
INVARIANTS
  AppTypeOK
  RetryNeverDoubles RowsHaveOrders AcceptedMeansSent RangesAreWhole PartialIsTrue
  OneTransferAtATime ConfirmedIsTheNewest NamedWalletReceives PicksAreListed
  EachPositionOnce RangesStayTogether PageAgrees
  StatusIsCurrent OnOnlyIfConfirmed
CHECK_DEADLOCK FALSE
