SPECIFICATION SteadySpec
CONSTANTS
  r1 = r1  r2 = r2  r3 = r3
  NGN_USD = NGN_USD
  Lookups = {r1, r2, r3}
  Pairs = {NGN_USD}
  Services = {"alphavantage"}
  Lifetime = 1
  MaxTime = 2
  NoQuote = NoQuote
SYMMETRY LookupSymmetry
INVARIANTS FetchedIsServed
CHECK_DEADLOCK FALSE
