SPECIFICATION SpecLiveMuted
CONSTANTS
  Users = {a, b}
  NoUser = NoUser
  Prios = {1, 2}
  QMax = 1
  C7 = 1
  C8 = 1
  C20 = 1
  C21 = 1
VIEW View
PROPERTY FloorTurnsOver
