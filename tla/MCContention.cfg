SPECIFICATION Spec
CONSTANTS
  Calls <- ContendingCalls
  Command <- Contending
  Owner <- MCOwner
  Pool = 8
  Fee = 9
  Existing <- Reserved
  Retries = 2
  NoCall = NoCall
INVARIANTS
  CirclesNeedAMissingRow
  InsertedOnce
CHECK_DEADLOCK FALSE
