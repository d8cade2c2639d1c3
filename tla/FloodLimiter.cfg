SPECIFICATION FloodSpec
CONSTANTS
  m1 = m1
  m2 = m2
  Ids <- TwoIds
  Limit = 1
  Window = 2
  MaxAge = 3
  MaxLag = 1
  Horizon = 7
  MaxMessages = 5
INVARIANTS
  DecisionIsExact
  FloodsStrike
PROPERTY
  StrikesSpaced
CHECK_DEADLOCK FALSE
