SPECIFICATION DecisionsSpec
CONSTANTS
  Events = {1, 2}
  Unknown = {2}
  Aggregate <- OwnAggregate
  CreatedAt <- MCCreatedAt
  Workers = {w1, w2}
  None = None
  Batch = 2
  Lease = 2
  MaxAttempts = 2
  Backoff <- MCBackoff
  MaxFaults = 1
  MaxSlow = 4
  u1 = u1
  d2 = d2
  small = small
  Null = Null
  Docs = {d1, d2}
  Tolerant = {d2}
  Routed = {d1}
  Users = {u1, u2}
  Holders = {u2}
  Forms = {small, large}
  Instances = {1, 2}
  States <- MCStates
  Initial = "route"
  Final <- MCFinal
  Kind <- MCKind
  Maps <- MCMaps
  Assignee <- MCAssignee
  Edges <- MCEdges
  MaxAuto = 2
  Clients = {c1, c2}
  Tasks = {1, 2, 3}
  MaxNumbers = 2
  MaxRebinds = 0
PROPERTY NumberIsKept
SYMMETRY Symmetry
CHECK_DEADLOCK FALSE
