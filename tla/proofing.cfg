CONSTANTS
  Sessions = {s1, s2}
  Codes = {c1, c2}
  Enrollments = {e1, e2}
  Callbacks = {r1, r2}
  Dobs <- MCDobs
  Timestamp = Timestamp
  DateOf <- MCDateOf
  SigningKeys = {"AGE_OVER_18", "vc"}
  SessionTtl = 0
  CodeTtl = 1
  IdTokenTtl = 1
  EnrollmentTtl = 2
  MaxTime = 2
  MaxRestarts = 1
  None = None
SPECIFICATION Spec
INVARIANTS
  TypeOK
  OneEnrollmentPerSession
  EnrolledAsAttested
  TokenReachesItsSession
  SignedOnlyForTheAged
  AgeCountsBirthdays
SYMMETRY Interchangeable
