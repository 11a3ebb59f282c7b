CONSTANTS
  Last = 4
  Size = 4
  CMod = 8
  Values = {a, b}
SPECIFICATION Spec
INVARIANTS OneOwner CapExact
PROPERTIES ImplementsFifo
