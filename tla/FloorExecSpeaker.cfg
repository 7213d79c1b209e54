SPECIFICATION ExecSpec
CONSTANTS
  Users = {a, b}
  NoUser = NoUser
  Prios = {1}
  MaxGrant = 2
SYMMETRY Symm
VIEW View
INVARIANT SpeakerIsHolder
