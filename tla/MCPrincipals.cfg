\* Three concurrent requests on one account or user with two keys.
CONSTANTS
  Handlers = {h1, h2, h3}
  Keys = {k1, k2}
  NumFields = 2
  Values = {x, y}
  MaxDeletes = 2
SYMMETRY HandlerKeySymmetry
SPECIFICATION Spec
PROPERTIES NoRevival FrozenAfterDelete NoLoneLockout
