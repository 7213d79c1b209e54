SPECIFICATION SpecMuted
CONSTANTS
  Users = {a, b, c}
  NoUser = NoUser
  Prios = {1, 2}
  QMax = 1
  C7 = 2
  C8 = 2
  C20 = 2
  C21 = 2
SYMMETRY Symmetry
VIEW View
INVARIANT QueueWithinMax
