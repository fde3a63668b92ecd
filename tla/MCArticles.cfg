\* Three handlers: a publish, then every three concurrent operations on the
\* article, in all statement orders.
CONSTANTS
  Ids = {a1}
  Handlers = {h1, h2, h3}
  Bodies = {b1}
  MaxVersion = 3
  MaxClock = 4
SYMMETRY HandlerSymmetry
SPECIFICATION Spec
INVARIANTS TableFamily CurrentIsNewest GetConsistent NeverDeadlocked
PROPERTIES AppendOnly RedactionTouches ImplementsLifecycle
