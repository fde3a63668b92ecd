\* Two concurrent writers of one account.
CONSTANTS
  Ids = {a1, a2, a3}
  Handlers = {h1, h2}
  Bodies = {b1}
  MaxVersion = 2
  MaxClock = 3
  PageSize = 1
SPECIFICATION StreamSpec
INVARIANTS NothingBehindCursor
