\* Three requests at a time on one draft, in all statement orders.
CONSTANTS
  Ids = {d1}
  Handlers = {h1, h2, h3}
  Texts = {x, y}
SYMMETRY HandlerTextSymmetry
SPECIFICATION Spec
INVARIANTS OneEnd NoLostUpdate
PROPERTIES PublishedForGood NoLateArticle
