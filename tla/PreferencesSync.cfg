SPECIFICATION Spec
CONSTANTS
  Pages = {"p1", "p2"}
  Ids = {"A", "B"}
  Values = {"v"}
  MaxEvents = 2
CHECK_DEADLOCK FALSE
INVARIANTS ManagersAreListed
