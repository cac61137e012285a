CONSTANTS
  Server = {s1, s2, s3}
  Nobody = Nobody
  Cmd = {c1}
  MaxTerm = 2
  MaxLog = 1
  MaxChan = 2
  MaxMsgs = 3
  MaxRedirects = 0
SPECIFICATION Spec
CONSTRAINT Bounded
SYMMETRY Symmetry
INVARIANT LogOnDisk
