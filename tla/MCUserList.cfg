SPECIFICATION Spec
CONSTANTS
  MaxId = 3
  Emails = {1, 2, 3, 4}
  Profiles = {1, 2}
  Times = {1, 2, 3}
  Rows <- MCRows
  RolesOf <- MCRolesOf
  Requests <- MCRequests
  Half = 16
  MaxNumber = 4
  DefaultRows = 2
  MaxWrites = 2
  NoRow = NoRow
  Absent = Absent
  NotANumber = NotANumber
  Invalid = Invalid
INVARIANTS TypeOK WalkMissesNothing WalkRepeatsNothing TotalWithinDrift RolesSurvive
PROPERTY PageInPlace
