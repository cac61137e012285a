CONSTANTS
  Client = {c1, c2}
  Filename <- MCFilename
  Request <- MCRequest
  NIL = NIL
  Bad = Bad
  Absent = Absent
  Nobody = Nobody
  NoCmd = NoCmd
  MaxEvents = 3
SPECIFICATION MCSpec
INVARIANTS TypeOK NoLostUpdate SwapsNamed AnswersTrue OneAnswer
PROPERTY AllDone
CHECK_DEADLOCK FALSE
