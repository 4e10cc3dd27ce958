CONSTANTS
  Zone = 2
  MaxFault = 1
  Setups <- MCSetups
SPECIFICATION Spec
CHECK_DEADLOCK FALSE
INVARIANT
  AnswersTrue
  AskedTrue
