SPECIFICATION Spec
CONSTANTS
  UserIDs = {u1, u2}
  Emails = {e1, e2}
  Profiles = {p1}
  RoleSets <- MCRoleSets
  Passwords = {short, long}
  TooLong = {long}
  NoRow = NoRow
  NoID = NoID
  Absent = Absent
  Requests = {r1, r2}
  Wiring = "intended"
SYMMETRY MCSymmetry
INVARIANTS TypeOK UniqueEmail DeleteAck RolesNeverStale
PROPERTIES NoResurrection WriteAuthority DisabledSticks ImplementsDirectory
