SPECIFICATION Spec
CONSTANTS
  A = A
  B = B
  C = C
  Pool = Pool
  Fee = Fee
  OwnerA = OwnerA
  OwnerB = OwnerB
  System = System
  NoOwner = NoOwner
  NoOp = NoOp
  NoHold = NoHold
  NoRequest = NoRequest
  NoEvidence = NoEvidence
  Accounts <- MCAccounts
  Pools = {Pool}
  FeeAccounts = {Fee}
  Owners <- MCOwners
  Payments <- SpendPayments
  Holds <- MCHolds
  Attempts <- MCAttempts
  Grants <- MCGrants
  EvidenceIds <- MCEvidenceIds
  Ops <- LimitOps
  PolicyIds <- MCPolicyIds
  Policies <- MCPolicies
  Creates <- LimitCreates
  Transfers <- LimitTransfers
  Reserves <- LimitReserves
  Exposes <- PayoutExposes
  Captures <- PayoutCaptures
  Releases <- LimitReleases
  SetControls <- LimitControls
  Times = {6, 7}
  DayLength = 8
  ZoneOffset = 1
  EvidenceSkew = 0
  MaxAmount = 10
  MaxWide = 10
  MaxVersion = 100
  DefaultCap = 10
  Funding = 10
  FundedWallet = A
  FundedPool = Pool
  FixtureOwner <- MCFixtureOwner
  FixtureOp = "fixture"
INVARIANTS
  TypeOK
  SettledOnEvidence
  NoIntegrityFault
PROPERTIES
  HistoryIsImmutable
CHECK_DEADLOCK FALSE
