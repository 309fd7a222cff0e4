SPECIFICATION Spec
CONSTANTS
  Command = {"c", "d"}
  Value = {"a", "b"}
  Master = {"m", "n"}
  Partial = FALSE
  MaxStarts = 3
INVARIANTS
  GoodStartSucceeds
  PairsStayTogether
  NoKeyNoCredentials
CHECK_DEADLOCK FALSE
