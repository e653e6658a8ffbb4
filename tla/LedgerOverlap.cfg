SPECIFICATION Spec
CONSTANTS
  ada = ada  ben = ben  NGN = NGN  USD = USD
  p = p  r1 = r1  r2 = r2  r3 = r3
  Users = {ada, ben}
  Currencies = {NGN, USD}
  Requests = {p, r1, r2}
  Calls <- OverlapCalls
  Home <- MCHome
  Past <- MCPast
  MaxAdrift = 1  MaxInterruptions = 2
  NoUser = NoUser  NoRow = NoRow  NoWallet = NoWallet
SYMMETRY RequestSymmetry
INVARIANTS TypeOK NoOverdraft ColumnsAgree AuditTrail NoMoneyFromNothing SettledWhenQuiet
CHECK_DEADLOCK FALSE
