\* The blocks of the tests; the function returns, so that nothing follows.
SPECIFICATION Spec
CONSTANTS
  Cases <- MCCases
  Tested <- MCTested
INVARIANTS
  TypeOK
  BurstDetected
  TestsPass
CHECK_DEADLOCK FALSE
