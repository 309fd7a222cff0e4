SPECIFICATION FairSpec
CONSTANTS
  k1 = k1
  k2 = k2
  Key = {k1, k2}
  Timeout = 2
  Interval = 2
  MaxAttempts = 2
  InitialDelay = 1
  Multiplier = 2
  MaxDelay = 2
  MaxRequests = 3
  LastAsk = 2
  Horizon = 5
INVARIANTS
  FreshIsFresh
  RequestsAreSpaced
PROPERTIES
  AnswersNeverGoBack
  EveryQuestionIsAnswered
CHECK_DEADLOCK FALSE
