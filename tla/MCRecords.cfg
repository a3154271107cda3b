SPECIFICATION RecordsSpec
CONSTANTS
  d1 = d1
  d2 = d2
  NoRule = NoRule
  Docs = {d1, d2}
  Department <- MCDepartment
  Times = {2, 3}
  YearOf <- MCYearOf
  Scopes = {"GLOBAL", "YEAR", "DEPARTMENT_YEAR"}
  Admins = {a1}
  MaxNumber = 2
  MaxEdits = 2
  Codes <- TenantCodes
  Default <- DefaultCode
  Names <- Secrets
  Replicas = {1, 2}
  Makers = {1, 2}
  Followed <- FollowedCodes
  Credentials = {1, 2}
  Caller <- MCCaller
  Others <- MCOthers
  SecretNames <- MCNames
  CredentialTypes = {"BEARER_TOKEN", "API_KEY"}
  Supported = {"BEARER_TOKEN"}
  Days = {1, 2}
  Addresses <- MCAddresses
  AllowLoopback = FALSE
  Operators = {1, 2}
  Calls = {1}
  MaxChanges = 3
  Types = {"t1", "t2"}
  Forms = {"f1", "f2"}
  Documents = {"d1", "d2"}
  Texts = {"a", "b"}
  Publishable = {"a"}
  Parties = {"p"}
  Flows = {"w"}
  Requests = {1, 2}
  None = "none"
  Nil = Nil
  AuthRequests = {1, 2}
  Tokens = {1, 2, 3}
  Links = {1, 2}
  MaxHash = 3
  MaxOff = 1
INVARIANTS EveryNumberIsAccountedFor NoNumberIsTakenTwice TenantsAreWhole
INVARIANTS RecordsAreTrue DraftsAreWhole
INVARIANTS LiveTokensKnowThePassword OneLiveTokenPerSession OnlyReplaySweeps
INVARIANTS OnlyRedemptionsMeet
PROPERTIES ChangesStartFromWhatIs AccountEndsItsSessions
CHECK_DEADLOCK FALSE
