SPECIFICATION Spec
CONSTANTS
  Admins = {a1, a2}
  Publishing = TRUE
  MaxFaults = 3
INVARIANTS
  ReadySchemaIsWhole
  RuntimeCannotCreate
  PublisherHasItsRights
PROPERTIES
  SetupCompletes
