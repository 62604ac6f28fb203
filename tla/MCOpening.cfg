SPECIFICATION Spec
CONSTANTS
  Calls <- OpeningCalls
  Command <- Opening
  Owner <- MCOwner
  Pool = 8
  Fee = 9
  Existing <- Fixture
  Retries = 1
  NoCall = NoCall
INVARIANTS
  InsertedOnce
CHECK_DEADLOCK FALSE
