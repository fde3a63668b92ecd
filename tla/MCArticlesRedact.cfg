\* Two handlers are enough for an edit to copy a body across its redaction.
CONSTANTS
  Ids = {a1}
  Handlers = {h1, h2}
  Bodies = {b1}
  MaxVersion = 3
  MaxClock = 3
SPECIFICATION Spec
PROPERTIES RedactionHides
