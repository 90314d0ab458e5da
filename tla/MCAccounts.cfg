SPECIFICATION Spec
CONSTANTS
  r1 = r1
  r2 = r2
  r3 = r3
  u1 = u1
  u2 = u2
  e1 = e1
  e2 = e2
  p1 = p1
  p2 = p2
  p3 = p3
  NoEmail = NoEmail
  NoUser = NoUser
  NoHash = NoHash
  Absent = Absent
  Requests <- MCRequests
  Users <- MCUsers
  Emails <- MCEmails
  Passwords <- MCPasswords
  Inputs <- MCInputs
INVARIANTS TypeOK UniqueEmails TokenForPassword
PROPERTY KnownPassword
SYMMETRY MCSymmetry
