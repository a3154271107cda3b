SPECIFICATION SupportSpec
CONSTANTS
  Users = {1, 2, 3}
  Owner = 1
  None = 0
  MaxWindows = 1
  Docs = {1, 2, 3}
  Routed = {1, 3}
  Records = {"r1", "r2"}
  Changes = {"a"}
  Underway <- MCUnderway
  Ends <- MCEnds
  Writers = {1}
  MaxStrays = 1
  Revisions = {1, 2}
  Processes = {1}
  Roles = {"a", "b"}
  Departments = {"x"}
  Actors = {a1, a2}
  Nothing = "none"
  Contents = {"c1", "c2"}
  Offered <- MCOffered
  Deciding <- MCDeciding
  Scope <- MCScope
  Workers = {a1, a2}
  Threshold = 2
  CoolDown = 2
  MaxNow = 2
  MaxRuns = 4
  Nodes = {1, 2, 3}
  NoNode = 0
  Requests = {a1, a2}
  MaxDepth = 2
  Fields = {1, 2, 3}
  Sent = {"null", "yes"}
  Forms <- AllForms
  Submitted <- AllDefinitions
  MaxAuto = 3
  Transactions = {a1, a2}
  Documents = {1, 2, 3, 4, 5, 6, 7, 8}
  Types = {"t", "g", "n"}
  Parties = {"p", "q"}
  TypeOf <- MCTypeOf
  Stage <- MCStage
  Subject <- MCSubject
  Pinned = {1, 4, 5, 6, 8}
  Governed = {"g"}
  Closed = {8}
  Gapless = {"t", "g"}
INVARIANT SubmittedFromWhatWasSent
SYMMETRY Symmetry
CHECK_DEADLOCK FALSE
