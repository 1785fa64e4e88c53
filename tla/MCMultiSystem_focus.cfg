SPECIFICATION Spec
CONSTANTS
  c1 = c1
  c2 = c2
  Clients = {c1, c2}
  WarmStart = FALSE
INVARIANT
  FocusedClientIsVisible
