SPECIFICATION ExecSpec
CONSTANTS
  Users = {a, b}
  NoUser = NoUser
  Prios = {1}
  MaxGrant = 3
SYMMETRY Symm
VIEW View
INVARIANT SlotsSettle
