SPECIFICATION FairSpec
CONSTANTS
  Calls <- RetryingCalls
  Command <- Retrying
  Owner <- MCOwner
  Pool = 8
  Fee = 9
  Existing <- Fixture
  Retries = 2
  NoCall = NoCall
INVARIANTS
  TypeOK
  AnswersAreFinal
PROPERTIES
  EveryCallAnswered
CHECK_DEADLOCK FALSE
