SPECIFICATION Spec
CONSTANTS
  A = A
  B = B
  C = C
  Pool = Pool
  Fee = Fee
  OwnerA = OwnerA
  OwnerB = OwnerB
  System = System
  NoOwner = NoOwner
  NoOp = NoOp
  NoHold = NoHold
  NoRequest = NoRequest
  NoEvidence = NoEvidence
  Accounts <- MCAccounts
  Pools = {Pool}
  FeeAccounts = {Fee}
  Owners <- MCOwners
  Payments <- SpendPayments
  Holds <- MCHolds
  Attempts <- MCAttempts
  Grants <- MCGrants
  EvidenceIds <- MCEvidenceIds
  Ops <- SpendOps
  PolicyIds <- MCPolicyIds
  Policies <- MCPolicies
  Creates <- SpendCreates
  Transfers <- SpendTransfers
  Reserves <- SpendReserves
  Exposes <- SpendExposes
  Captures <- SpendCaptures
  Releases <- None
  SetControls <- SpendControls
  Times = {6, 7}
  DayLength = 8
  ZoneOffset = 1
  EvidenceSkew = 0
  MaxAmount = 10
  MaxWide = 100
  MaxVersion = 100
  DefaultCap = 8
  Funding = 10
  FundedWallet = A
  FundedPool = Pool
  FixtureOwner <- MCFixtureOwner
  FixtureOp = "fixture"
INVARIANTS
  Backed
  OneExecutionPerPayment
PROPERTIES
  CapBindsAdmission
CHECK_DEADLOCK FALSE
