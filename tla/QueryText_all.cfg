CONSTANTS
  Alphabet = {"bs", "quote", "cr", "nul", "lf", "colon", "word", "space", "ph"}
  Sites = {"comment", "query", "sqlalchemy", "echo"}
  MaxText = 4
  MaxLine = 2
SPECIFICATION Spec
INVARIANTS ReachesPython SqlDelivered
CHECK_DEADLOCK FALSE
