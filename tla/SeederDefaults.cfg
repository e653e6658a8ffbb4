SPECIFICATION Spec
CONSTANTS
  NG = NG  GB = GB  US = US  g1 = g1  g2 = g2  v1 = v1  v2 = v2
  lagos = lagos  leeds = leeds  ada = ada  ben = ben
  Countries = {NG, GB, US}
  UserPermissions = {read, create}
  MaxCrashes = 1
  Registrations = {g1, g2}
  Verifications = {v1, v2}
  Phones = {lagos}
  Forms <- MCForms
  CountryOf <- MCCountryOf
  Lifetime = 0
  MaxTime = 1
  MaxAdrift = 1
  MaxTroubles = 1
  Nothing = Nothing
INVARIANT DefaultPermissions
CHECK_DEADLOCK FALSE
