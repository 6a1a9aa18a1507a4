SPECIFICATION MCSpec
CONSTANTS
  MaxFds = 5
  MaxTarget = 5
  MaxHandles = 5
  MaxCalls = 4
  MaxBytes = 6
  MaxWrites = 4
  MaxLength = 3
  Widths = {1, 2}
  Heights = {1, 2, 3}
  Counts = {1, 2}
  MaxOps = 4
  Width = 3
  Styles = {"plain", "bold", "bg"}
  TextCounts = {1, 2}
  MaxEdits = 3
  Chars = {"ESC", "[", "]", "bslash", ";", "1", "BEL", "CAN"}
  MaxInput = 5
  MaxPiece = 2
  Conns = {1, 2}
  Readers = {"r1", "r2"}
  Pins = {"p1", "p2"}
  MaxTries = 2
  MaxRequests = 3
  MaxEvents = 1
  Windows = {1, 2}
  MaxOutput = 1
  MaxAsks = 1
  MaxUses = 1
  PortHeights = {2, 3}
  ScrolledOff = 2
  MaxRows = 5
  MaxScrolls = 3
  MaxKeyEvents = 2
  Buttons = {0, 2}
  Places = {1, 2}
  MaxModes = 2
CHECK_DEADLOCK FALSE
INVARIANTS TypesOK DescriptorsHold RowShowsItsText SplitIsHarmless PagesShowTheirWindows
PROPERTIES BuffersKeepContract TerminalHolds CachedPins
