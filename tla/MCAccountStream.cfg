\* One writer per account, a page of one row: every page boundary is crossed.
CONSTANTS
  Ids = {a1, a2}
  Handlers = {h1}
  Bodies = {b1}
  MaxVersion = 2
  MaxClock = 5
  PageSize = 1
SPECIFICATION StreamSpec
INVARIANTS NothingBehindCursor
PROPERTIES MirrorConverges
