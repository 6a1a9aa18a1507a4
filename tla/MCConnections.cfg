SPECIFICATION MCSpec
CONSTANTS
  MaxMessage = 1
  Wrap = 3
  MaxUp = 3
  MaxDown = 2
  MaxFailures = 2
  RECONNECT_LIMIT = 2
  MaxLen = 2
  MaxUp4 = 3
  MaxDown4 = 2
  MaxDrops4 = 1
  SimpleMaxMessage = 1
  SimpleWrap = 2
  SimpleMaxUp = 3
  SimpleMaxDown = 3
  Destinations = {"A", "B"}
  MaxVisits = 3
  Pages = {"p1", "p2"}
  Ids = {"A", "B"}
  Values = {"v"}
  MaxEvents = 2
INVARIANTS NeverIdle CountsInv LookupsAreRight PagesSeeTheSame
PROPERTIES DownSpec OrderedPipes WorkGetsDone
CHECK_DEADLOCK FALSE
