SPECIFICATION Spec
CONSTANTS
  a = a
  b = b
  c = c
  top = top
  bottom = bottom
  People = {a, b, c}
  NoOne = NoOne
  Allowed = {a, b}
  Spots = {top, bottom}
  NoSpot = NoSpot
  Modes = {TRUE, FALSE}
  MaxConnects = 2
  MaxViews = 2
  MaxPages = 2
SYMMETRY AllowedSymmetry
INVARIANTS
  InvitedAreAllowed
  EntriesMatchInvitations
  StopHalts
