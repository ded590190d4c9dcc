\* Sentences that the code does not keep: leave in the one to be seen
SPECIFICATION Spec
CONSTANTS
  Pollers = {w1, w2}
  Steady = {w1}
  MaxPulls = 2
  MaxHeads = 2
  MaxCiRounds = 2
  MaxRetries = 1
  MaxChecks = 1
  SameHead = FALSE
  Early = FALSE
CHECK_DEADLOCK FALSE
INVARIANTS
  ReadyIsGreen
  FailureIsWorkedOn
PROPERTY
  PaidByItsOwn
