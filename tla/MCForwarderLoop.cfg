SPECIFICATION Spec
CONSTANTS
  app = app
  net1 = net1
  net2 = net2
  n1 = n1
  fresh = fresh
  plain = plain
  any = any
  short = short
  long = long
  host = host
  Face = {app, net1, net2}
  LocalFace = {app}
  Nonce = {n1, n2}
  Lifetime = {2}
  InitialInterval = 1
  MaxInterval = 2
  StragglerTime = 1
  AgeCap = 5
  Kind = {any}
  Data = {short, host}
  NameOf <- MCNameOf
  ScopeOf <- MCScopeOf
  MustBeFresh = {}
  StrategyOf <- BestRoute
  NextHops <- MCNextHops
  Matches <- MCMatches
  LocalhostData = {host}
  FreshnessPeriod <- MCFreshnessPeriod
  DnlLifetime = 2
  Removable = {}
  Arrivals <- AllArrivals
INVARIANT EmptyEntryIsStraggling
