SPECIFICATION FairSpec
CONSTANTS
  w1 = w1
  w2 = w2
  w3 = w3
  stranger = stranger
  x = x
  y = y
  Wallets = {w1, w2, w3}
  Coins = {x, y}
  Balances <- TwoEqual
  Unknown = stranger
  Rank <- MCRank
  bitCoinValue = 3
  Dates = {12}
  MinutesPerHour = 2
  HoursPerDay = 2
  DaysPerMonth = 2
  MaxID = 3
  MaxTrans = 3
INVARIANTS TypeOK CoinsConserved BooksAgree HistoryExplains IDsUnique LookupFinds  ReportsExact
PROPERTY TransactionsEnd
CHECK_DEADLOCK FALSE
