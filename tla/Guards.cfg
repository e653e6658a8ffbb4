SPECIFICATION Spec
CONSTANTS
  ada = ada  ben = ben  r1 = r1  r2 = r2
  USER = USER  ADMIN = ADMIN  read = read  create = create  update = update
  Requests = {r1, r2}
  Users = {ada, ben}
  Rights <- MCRights
  Requirement <- MCRequirement
  Lifetime = 1
  Delay = 1
  MaxTime = 3
  MaxChanges = 1
  NoRole = NoRole
  NoEntry = NoEntry
SYMMETRY Symmetry
INVARIANTS TypeOK CachesRecent
PROPERTY ImplementsRecentRights
CHECK_DEADLOCK FALSE
